-------------------------- MODULE DepthBudgetProofs --------------------------
(***************************************************************************)
(* For every budget per node and every maximal depth: nested deadlines     *)
(* never cut off an invocation that kept its own budget.                   *)
(*                                                                         *)
(* TypeOK is not inductive, for it does not say where elapsed time went;   *)
(* Accounted does: it is the invocation's own, or that of the one it waits *)
(* for, whose allowance is one budget smaller.                             *)
(***************************************************************************)
EXTENDS DepthBudget, TLAPS

(* One level down, the allowance is one budget smaller, and the last level *)
(* has a whole budget: callbackTimeout as the source computes it.          *)
LEMMA AllowanceShrinks ==
  /\ \A k \in Depths : Allowance(k) \in Nat /\ Allowance(k) >= PerDepthTimeout
  /\ \A k \in Depths : k < MaxDependencyDepth =>
       Allowance(k + 1) \in Nat /\ Allowance(k) = Allowance(k + 1) + PerDepthTimeout
  /\ PerDepthTimeout \in Nat \ {0} /\ MaxDependencyDepth \in Nat \ {0}
<1>1. PerDepthTimeout \in Nat \ {0} /\ MaxDependencyDepth \in Nat \ {0}
  BY ConfigurationAssumption
<1>2. ASSUME NEW k \in Depths
      PROVE  Allowance(k) = PerDepthTimeout * (MaxDependencyDepth - k + 1)
  BY <1>1 DEF Allowance, InvocationTimeout, CallbackTimeout, Depths
<1>3. ASSUME NEW p \in Nat, NEW r \in Nat
      PROVE  p * (r + 1) = p * r + p /\ p * r \in Nat
  OBVIOUS
<1>4. ASSUME NEW k \in Depths
      PROVE  Allowance(k) \in Nat /\ Allowance(k) >= PerDepthTimeout
  <2>1. MaxDependencyDepth - k \in Nat
    BY <1>1 DEF Depths
  <2>2. PerDepthTimeout * (MaxDependencyDepth - k + 1)
          = PerDepthTimeout * (MaxDependencyDepth - k) + PerDepthTimeout
        /\ PerDepthTimeout * (MaxDependencyDepth - k) \in Nat
    BY <1>1, <1>3, <2>1
  <2> QED
    BY <1>1, <1>2, <2>2
<1>5. ASSUME NEW k \in Depths, k < MaxDependencyDepth
      PROVE  Allowance(k + 1) \in Nat /\ Allowance(k) = Allowance(k + 1) + PerDepthTimeout
  <2>1. k + 1 \in Depths /\ MaxDependencyDepth - k \in Nat
        /\ MaxDependencyDepth - (k + 1) + 1 = MaxDependencyDepth - k
    BY <1>1, <1>5 DEF Depths
  <2>2. Allowance(k + 1) = PerDepthTimeout * (MaxDependencyDepth - k)
    BY <1>2, <2>1
  <2>3. PerDepthTimeout * (MaxDependencyDepth - k + 1)
          = PerDepthTimeout * (MaxDependencyDepth - k) + PerDepthTimeout
    BY <1>1, <1>3, <2>1
  <2> QED
    BY <1>2, <1>4, <2>1, <2>2, <2>3
<1> QED
  BY <1>1, <1>4, <1>5

------------------------------------------------------------------------------
(* The first invocation starts with nothing spent.                         *)
LEMMA InitiallyAccounted == Init => IInv
  BY AllowanceShrinks DEF Init, IInv, TypeOK, Accounted, Depths

(* Sending callbacks: the callee has spent nothing yet.                    *)
LEMMA CallAccounts == IInv /\ Call => IInv'
<1> SUFFICES ASSUME IInv, Call PROVE IInv'
  OBVIOUS
<1> USE AllowanceShrinks DEF IInv
<1>1. depth \in Depths /\ depth + 1 \in Depths /\ depth' = depth + 1
  BY DEF Call, Depths, TypeOK
<1>2. /\ \A k \in Depths : k # depth + 1 => elapsed'[k] = elapsed[k] /\ own'[k] = own[k]
      /\ elapsed'[depth + 1] = 0 /\ own'[depth + 1] = 0
      /\ stage'[depth] = "waiting" /\ stage'[depth + 1] = "preparing"
      /\ \A k \in Depths : k < depth => stage'[k] = stage[k]
  BY <1>1 DEF Call, TypeOK, Depths
<1>3. TypeOK'
  <2>1. stage' \in [Depths -> {"preparing", "waiting", "finishing"}]
        /\ elapsed' \in [Depths -> Nat] /\ own' \in [Depths -> Nat]
    BY DEF Call, TypeOK
  <2>2. ASSUME NEW k \in 1..depth' PROVE elapsed'[k] <= Allowance(k)
    <3>1. k \in Depths /\ Allowance(k) \in Nat
      BY <1>1 DEF Depths
    <3>2. CASE k = depth + 1
      BY <1>2, <3>1, <3>2
    <3>3. CASE k # depth + 1
      <4>1. k \in 1..depth
        BY <1>1, <3>1, <3>3 DEF Depths
      <4> QED
        BY <1>2, <3>1, <3>3, <4>1 DEF TypeOK
    <3> QED
      BY <3>2, <3>3
  <2> QED
    BY <1>1, <2>1, <2>2 DEF TypeOK, Depths, Allowance, InvocationTimeout, CallbackTimeout
<1>4. Accounted'
  <2> SUFFICES ASSUME NEW k \in 1..depth'
               PROVE  /\ stage'[k] = "waiting" <=> k < depth'
                      /\ stage'[k] = "preparing" => elapsed'[k] = own'[k]
                      /\ stage'[k] = "waiting" => elapsed'[k] = own'[k] + elapsed'[k + 1]
                      /\ stage'[k] = "finishing" =>
                           k < MaxDependencyDepth /\ elapsed'[k] <= own'[k] + Allowance(k + 1)
    BY DEF Accounted, Allowance, InvocationTimeout, CallbackTimeout
  <2>1. CASE k = depth + 1
    BY <1>1, <1>2, <2>1
  <2>2. CASE k = depth
    <3>1. elapsed[k] = own[k]
      BY <2>2, <1>1 DEF Accounted, Call, Depths
    <3>2. own[k] \in Nat /\ k # depth + 1
      BY <1>1, <2>2 DEF TypeOK, Depths
    <3>3. elapsed'[k] = elapsed[k] /\ own'[k] = own[k] /\ elapsed'[k + 1] = 0
      BY <1>1, <1>2, <2>2, <3>2
    <3> QED
      BY <1>1, <1>2, <2>2, <3>1, <3>2, <3>3 DEF Depths
  <2>3. CASE k < depth
    <3>1. stage[k] = "waiting" /\ elapsed[k] = own[k] + elapsed[k + 1]
      BY <2>3, <1>1 DEF Accounted, Depths
    <3>2. k \in Depths /\ k + 1 \in Depths /\ k # depth + 1 /\ k + 1 # depth + 1
      BY <1>1, <2>3 DEF Depths
    <3>3. /\ elapsed'[k] = elapsed[k] /\ own'[k] = own[k]
          /\ elapsed'[k + 1] = elapsed[k + 1] /\ stage'[k] = stage[k]
      BY <1>2, <2>3, <3>2
    <3> QED
      BY <1>1, <2>3, <3>1, <3>3 DEF Depths
  <2> QED
    BY <1>1, <2>1, <2>2, <2>3 DEF Depths
<1> QED
  BY <1>3, <1>4

(* An invocation that ends has spent at most its allowance: that much its  *)
(* caller has lost at most.                                                *)
LEMMA LeaveAccounts ==
  ASSUME IInv, NEW k \in 1..depth, Leave(k)
  PROVE  IInv'
<1> USE AllowanceShrinks DEF IInv
<1>1. /\ depth \in Depths /\ k \in Depths /\ depth' = k - 1
      /\ elapsed' = elapsed /\ own' = own
      /\ \A i \in Depths : stage'[i] = IF i = k - 1 THEN "finishing" ELSE stage[i]
  BY DEF Leave, TypeOK, Depths
<1>2. TypeOK'
  <2>1. stage' \in [Depths -> {"preparing", "waiting", "finishing"}]
    BY DEF Leave, TypeOK
  <2>2. depth' \in 0..MaxDependencyDepth
    BY <1>1 DEF Depths
  <2>3. \A i \in 1..depth' : elapsed'[i] <= Allowance(i)
    BY <1>1 DEF TypeOK, Depths
  <2> QED
    BY <1>1, <2>1, <2>2, <2>3
       DEF TypeOK, Depths, Allowance, InvocationTimeout, CallbackTimeout
<1>3. Accounted'
  <2> SUFFICES ASSUME NEW i \in 1..depth'
               PROVE  /\ stage'[i] = "waiting" <=> i < depth'
                      /\ stage'[i] = "preparing" => elapsed'[i] = own'[i]
                      /\ stage'[i] = "waiting" => elapsed'[i] = own'[i] + elapsed'[i + 1]
                      /\ stage'[i] = "finishing" =>
                           i < MaxDependencyDepth /\ elapsed'[i] <= own'[i] + Allowance(i + 1)
    BY DEF Accounted, Allowance, InvocationTimeout, CallbackTimeout
  <2>1. /\ i \in 1..depth /\ i < depth /\ i + 1 \in 1..depth /\ i \in Depths
        /\ stage[i] = "waiting" /\ elapsed[i] = own[i] + elapsed[i + 1]
    BY <1>1 DEF Accounted, Depths
  <2>2. elapsed[i + 1] <= Allowance(i + 1) /\ i < MaxDependencyDepth
    BY <2>1, <1>1 DEF TypeOK, Depths
  <2>3. CASE i = k - 1
    <3>1. /\ elapsed[i + 1] \in Nat /\ own[i] \in Nat /\ Allowance(i + 1) \in Nat
      BY <2>1, <2>2 DEF TypeOK, Depths
    <3> QED
      BY <1>1, <2>1, <2>2, <2>3, <3>1
  <2>4. CASE i # k - 1
    BY <1>1, <2>1, <2>4 DEF Depths
  <2> QED
    BY <2>3, <2>4
<1> QED
  BY <1>2, <1>3

(* A tick is spent by the working invocation and, with it, by all callers. *)
LEMMA TickAccounts == IInv /\ Tick => IInv'
<1> SUFFICES ASSUME IInv, Tick PROVE IInv'
  OBVIOUS
<1> USE AllowanceShrinks DEF IInv
<1>1. /\ depth \in Depths /\ depth' = depth /\ stage' = stage
      /\ \A k \in 1..depth : elapsed'[k] = elapsed[k] + 1 /\ elapsed[k] < Allowance(k)
      /\ \A k \in Depths : k # depth => own'[k] = own[k]
      /\ own'[depth] = own[depth] + 1
  BY DEF Tick, TypeOK, Depths
<1>2. TypeOK'
  <2>1. elapsed' \in [Depths -> Nat] /\ own' \in [Depths -> Nat]
    BY DEF Tick, TypeOK
  <2>2. ASSUME NEW k \in 1..depth' PROVE elapsed'[k] <= Allowance(k)
    <3>1. k \in 1..depth /\ k \in Depths
      BY <1>1 DEF Depths
    <3>2. Allowance(k) \in Nat /\ elapsed[k] \in Nat
      BY <3>1 DEF TypeOK
    <3>3. elapsed'[k] = elapsed[k] + 1 /\ elapsed[k] < Allowance(k)
      BY <1>1, <3>1
    <3> QED
      BY <3>2, <3>3
  <2> QED
    BY <1>1, <2>1, <2>2
       DEF TypeOK, Depths, Allowance, InvocationTimeout, CallbackTimeout
<1>3. Accounted'
  <2> SUFFICES ASSUME NEW k \in 1..depth
               PROVE  /\ stage'[k] = "waiting" <=> k < depth
                      /\ stage'[k] = "preparing" => elapsed'[k] = own'[k]
                      /\ stage'[k] = "waiting" => elapsed'[k] = own'[k] + elapsed'[k + 1]
                      /\ stage'[k] = "finishing" =>
                           k < MaxDependencyDepth /\ elapsed'[k] <= own'[k] + Allowance(k + 1)
    BY <1>1 DEF Accounted, Allowance, InvocationTimeout, CallbackTimeout
  <2>1. k \in Depths /\ elapsed[k] \in Nat /\ own[k] \in Nat
    BY <1>1 DEF TypeOK, Depths
  <2>2. CASE k = depth
    <3>1. stage[k] # "waiting"
      BY <2>2 DEF Accounted
    <3>2. /\ stage[k] = "preparing" => elapsed[k] = own[k]
          /\ stage[k] = "finishing" =>
               k < MaxDependencyDepth /\ elapsed[k] <= own[k] + Allowance(k + 1)
      BY DEF Accounted
    <3>3. elapsed'[k] = elapsed[k] + 1 /\ own'[k] = own[k] + 1 /\ stage'[k] = stage[k]
      BY <1>1, <2>2
    <3>4. stage[k] = "finishing" => Allowance(k + 1) \in Nat
      BY <2>1, <3>2
    <3> QED
      BY <2>1, <2>2, <3>1, <3>2, <3>3, <3>4
  <2>3. CASE k < depth
    <3>1. stage[k] = "waiting" /\ elapsed[k] = own[k] + elapsed[k + 1]
          /\ k + 1 \in 1..depth
      BY <2>3, <1>1 DEF Accounted, Depths
    <3>2. elapsed[k + 1] \in Nat
      BY <3>1, <1>1 DEF TypeOK, Depths
    <3>3. elapsed'[k] = elapsed[k] + 1 /\ own'[k] = own[k] /\ stage'[k] = stage[k]
          /\ elapsed'[k + 1] = elapsed[k + 1] + 1
      BY <1>1, <2>1, <2>3, <3>1
    <3> QED
      BY <2>1, <2>3, <3>1, <3>2, <3>3
  <2> QED
    BY <1>1, <2>2, <2>3 DEF Depths
<1> QED
  BY <1>2, <1>3

(* Every reachable state accounts for all the time that passed.            *)
THEOREM BudgetInvariance == Spec => []IInv
<1>1. IInv /\ [Next]_vars => IInv'
  <2> SUFFICES ASSUME IInv, [Next]_vars PROVE IInv'
    OBVIOUS
  <2>1. CASE Call
    BY <2>1, CallAccounts
  <2>2. CASE Answer
    <3>1. depth \in 1..depth /\ Leave(depth)
      BY <2>2, AllowanceShrinks DEF Answer, Depths
    <3> QED
      BY <3>1, LeaveAccounts
  <2>3. ASSUME NEW k \in Depths, Expire(k) PROVE IInv'
    <3>1. k \in 1..depth /\ Leave(k)
      BY <2>3 DEF Expire
    <3> QED
      BY <3>1, LeaveAccounts
  <2>4. CASE Tick
    BY <2>4, TickAccounts
  <2>5. CASE UNCHANGED vars
    BY <2>5 DEF vars, IInv, TypeOK, Accounted, Depths, Allowance, InvocationTimeout,
                CallbackTimeout
  <2> QED
    BY <2>1, <2>2, <2>3, <2>4, <2>5 DEF Next
<1> QED
  BY InitiallyAccounted, <1>1, PTL DEF Spec

(* No invocation runs longer than callbackTimeout grants it.               *)
THEOREM BudgetTypeCorrect == Spec => []TypeOK
<1>1. IInv => TypeOK
  BY DEF IInv
<1> QED
  BY <1>1, BudgetInvariance, PTL

(* Whoever runs into a deadline used up a whole budget by itself, at any   *)
(* depth, whatever the invocations below did.                              *)
THEOREM OnlyOverrunnersTimeOutTheorem == Spec => []OnlyOverrunnersTimeOut
<1>1. IInv => OnlyOverrunnersTimeOut
  <2> SUFFICES ASSUME IInv, NEW k \in 1..depth, elapsed[k] >= Allowance(k)
               PROVE  own[k] >= PerDepthTimeout
    BY DEF OnlyOverrunnersTimeOut
  <2> USE AllowanceShrinks DEF IInv
  <2>1. /\ k \in Depths /\ elapsed[k] \in Nat /\ own[k] \in Nat
        /\ Allowance(k) \in Nat /\ Allowance(k) >= PerDepthTimeout
    BY DEF TypeOK, Depths
  <2>2. CASE stage[k] = "preparing"
    BY <2>1, <2>2 DEF Accounted
  <2>3. CASE stage[k] = "waiting"
    <3>1. k < depth /\ elapsed[k] = own[k] + elapsed[k + 1]
      BY <2>3 DEF Accounted
    <3>2. k + 1 \in 1..depth /\ k + 1 \in Depths /\ k < MaxDependencyDepth
      BY <2>1, <3>1 DEF TypeOK, Depths
    <3>3. elapsed[k + 1] \in Nat /\ elapsed[k + 1] <= Allowance(k + 1)
      BY <3>2 DEF TypeOK
    <3>4. Allowance(k + 1) \in Nat /\ Allowance(k) = Allowance(k + 1) + PerDepthTimeout
      BY <2>1, <3>2
    <3> QED
      BY <2>1, <3>1, <3>3, <3>4
  <2>4. CASE stage[k] = "finishing"
    <3>1. k < MaxDependencyDepth /\ elapsed[k] <= own[k] + Allowance(k + 1)
      BY <2>4 DEF Accounted
    <3>2. Allowance(k + 1) \in Nat /\ Allowance(k) = Allowance(k + 1) + PerDepthTimeout
      BY <2>1, <3>1
    <3> QED
      BY <2>1, <3>1, <3>2
  <2> QED
    BY <2>1, <2>2, <2>3, <2>4 DEF TypeOK
<1> QED
  BY <1>1, BudgetInvariance, PTL

(* A caller within its budget is still there when its callback times out.  *)
THEOREM CallerOutlivesCallbackTheorem == Spec => []CallerOutlivesCallback
<1>1. IInv => CallerOutlivesCallback
  <2> SUFFICES ASSUME IInv, NEW k \in 1..(depth - 1), own[k] <= PerDepthTimeout
               PROVE  elapsed[k] + Allowance(k + 1) <= Allowance(k) + elapsed[k + 1]
    BY DEF CallerOutlivesCallback
  <2> USE AllowanceShrinks DEF IInv
  <2>1. k \in 1..depth /\ k < depth /\ k \in Depths /\ k + 1 \in Depths
        /\ k < MaxDependencyDepth
    BY DEF TypeOK, Depths
  <2>2. elapsed[k] = own[k] + elapsed[k + 1]
    BY <2>1 DEF Accounted
  <2>3. own[k] \in Nat /\ elapsed[k + 1] \in Nat
    BY <2>1 DEF TypeOK
  <2>4. Allowance(k + 1) \in Nat /\ Allowance(k) = Allowance(k + 1) + PerDepthTimeout
    BY <2>1
  <2> QED
    BY <2>2, <2>3, <2>4
<1> QED
  BY <1>1, BudgetInvariance, PTL

==============================================================================
