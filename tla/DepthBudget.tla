----------------------------- MODULE DepthBudget -----------------------------
(***************************************************************************)
(* The deadlines of nested invocations.  An invocation at depth k of the   *)
(* execution graph has its own work to do, may once call dependencies at   *)
(* depth k + 1, and works on when they answered.  The first runs under the *)
(* middleware's InvocationTimeout, every other one under the timeout that  *)
(* its caller's callback client computes from the length of its call path. *)
(*                                                                         *)
(* One branch of the graph is followed: of the callbacks that run in       *)
(* parallel, the one the caller waits for longest.  Time is discrete, and  *)
(* does not pass a deadline.  Requests, answers and payments take time     *)
(* that counts as work of the invocation they belong to.                   *)
(***************************************************************************)
EXTENDS Naturals

CONSTANTS
  PerDepthTimeout,     \* payment.perDepthTimeoutSeconds
  MaxDependencyDepth   \* payment.maxDependencyDepth

(* Load refuses other values.                                              *)
ASSUME ConfigurationAssumption ==
  PerDepthTimeout \in Nat \ {0} /\ MaxDependencyDepth \in Nat \ {0}

VARIABLES
  depth,    \* depth of the invocation that works, 0 when all is over
  stage,    \* per depth: before, during or after the callbacks
  elapsed,  \* per depth: time since the invocation began
  own       \* per depth: how much of it was not spent waiting

vars == <<depth, stage, elapsed, own>>

Depths == 1..MaxDependencyDepth

InvocationTimeout == PerDepthTimeout * MaxDependencyDepth

(* callbackTimeout, for a call path of the given length.                   *)
EveryCallbackTheSame(length) == PerDepthTimeout
OneDepthLess(length) == PerDepthTimeout * (MaxDependencyDepth - length)
CallbackTimeout(length) == PerDepthTimeout * (MaxDependencyDepth - length + 1)

Allowance(k) == IF k = 1 THEN InvocationTimeout ELSE CallbackTimeout(k)

Init ==
  /\ depth = 1
  /\ stage = [k \in Depths |-> "preparing"]
  /\ elapsed = [k \in Depths |-> 0]
  /\ own = [k \in Depths |-> 0]

(* The callback client of the working invocation sends its callbacks.      *)
Call ==
  /\ depth \in Depths
  /\ stage[depth] = "preparing"
  /\ depth < MaxDependencyDepth
  /\ depth' = depth + 1
  /\ stage' = [stage EXCEPT ![depth] = "waiting", ![depth + 1] = "preparing"]
  /\ elapsed' = [elapsed EXCEPT ![depth + 1] = 0]
  /\ own' = [own EXCEPT ![depth + 1] = 0]

(* The invocations from depth k on are over, the caller of k works on.     *)
Leave(k) ==
  /\ depth' = k - 1
  /\ stage' = [i \in Depths |-> IF i = k - 1 THEN "finishing" ELSE stage[i]]
  /\ UNCHANGED <<elapsed, own>>

(* The working invocation answers, or fails; one that is too deep fails    *)
(* when it tries to call, for the call path has an invalid length.         *)
Answer == depth \in Depths /\ Leave(depth)

(* The deadline of depth k cancels whatever runs on its behalf.            *)
NeverExpires(k) == FALSE /\ UNCHANGED vars
Expire(k) ==
  /\ k \in 1..depth
  /\ elapsed[k] >= Allowance(k)
  /\ Leave(k)

Tick ==
  /\ depth \in Depths
  /\ \A k \in 1..depth : elapsed[k] < Allowance(k)
  /\ elapsed' = [k \in Depths |-> IF k <= depth THEN elapsed[k] + 1 ELSE elapsed[k]]
  /\ own' = [own EXCEPT ![depth] = @ + 1]
  /\ UNCHANGED <<depth, stage>>

Next ==
  \/ Call
  \/ Answer
  \/ \E k \in Depths : Expire(k)
  \/ Tick

Spec == Init /\ [][Next]_vars

(* Time passes and deadlines fire; nothing else needs to happen.           *)
FairSpec == Spec /\ WF_vars(Tick \/ \E k \in Depths : Expire(k))

------------------------------------------------------------------------------
TypeOK ==
  /\ depth \in 0..MaxDependencyDepth
  /\ stage \in [Depths -> {"preparing", "waiting", "finishing"}]
  /\ elapsed \in [Depths -> Nat] /\ own \in [Depths -> Nat]
  /\ \A k \in 1..depth : elapsed[k] <= Allowance(k)

(* "The budget of one node is 30 seconds" (README.md:24, HANDOFF.md:75):   *)
(* only an invocation that used up its own budget runs into its deadline,  *)
(* never one that lost its time to the invocations below it.               *)
OnlyOverrunnersTimeOut ==
  \A k \in 1..depth : elapsed[k] >= Allowance(k) => own[k] >= PerDepthTimeout

(* While an invocation is within its budget, the caller's deadline is not  *)
(* earlier than the one of the callback it waits for, so the caller gets   *)
(* to see the callback fail (HANDOFF.md:78 has what happens otherwise).    *)
CallerOutlivesCallback ==
  \A k \in 1..(depth - 1) : own[k] <= PerDepthTimeout =>
    elapsed[k] + Allowance(k + 1) <= Allowance(k) + elapsed[k + 1]

(* An invocation ends, even if nobody below ever answers.                  *)
InvocationEnds == <>(depth = 0)

------------------------------------------------------------------------------
(* Why: time is spent by the invocation itself or by the one it waits for. *)
Accounted ==
  \A k \in 1..depth :
    /\ stage[k] = "waiting" <=> k < depth
    /\ stage[k] = "preparing" => elapsed[k] = own[k]
    /\ stage[k] = "waiting" => elapsed[k] = own[k] + elapsed[k + 1]
    /\ stage[k] = "finishing" =>
         k < MaxDependencyDepth /\ elapsed[k] <= own[k] + Allowance(k + 1)

IInv == TypeOK /\ Accounted

==============================================================================
