-------------------------- MODULE SettlementProofs --------------------------
(***************************************************************************)
(* For every number of retries: the types of Settlement, that a refusal is *)
(* final, and that the retry loop keeps the promise of one attempt.        *)
(***************************************************************************)
EXTENDS Settlement, TLAPS

(* The attempts before the current one failed for good, the later ones     *)
(* were not made, and the payer is charged by an attempt that left a mark. *)
Resolved ==
  /\ \A i \in Attempts : i < attempt => request[i] = "failed"
  /\ \A i \in Attempts : i > attempt => request[i] = "unsent"
  /\ loop = "ready" => request[attempt] = "unsent"
  /\ loop = "waiting" => request[attempt] = "failed" /\ attempt < MaxRetries
  /\ loop = "returned" <=> verdict # "pending"
  /\ charged => \E i \in Attempts : request[i] \in {"settled", "doubtful"}
  /\ \A i \in Attempts : request[i] = "settled" => charged
  /\ verdict = "refused" => request[attempt] = "failed"
  /\ verdict = "settled" => charged

IInv == TypeOK /\ Resolved

(* The attempt stays within the slice, for a wait needs a further delay.   *)
LEMMA TypesKept == ASSUME TypeOK, Resolved, [Next]_vars PROVE TypeOK'
<1> USE RetriesAssumption DEF TypeOK, Attempts, Replies, Return
<1>1. CASE Call
  BY <1>1 DEF Call
<1>2. CASE ReplyArrives
  BY <1>2 DEF ReplyArrives
<1>3. CASE CallFails
  BY <1>3 DEF CallFails
<1>4. CASE DelayPasses
  BY <1>4 DEF DelayPasses, Resolved
<1>5. CASE WaitCancelled
  BY <1>5 DEF WaitCancelled
<1>6. CASE ContextEnds
  BY <1>6 DEF ContextEnds
<1>7. ASSUME NEW i \in Attempts, Transfer(i)
      PROVE  TypeOK'
  BY <1>7 DEF Transfer
<1>8. ASSUME NEW i \in Attempts, TransactionFails(i)
      PROVE  TypeOK'
  BY <1>8 DEF TransactionFails
<1>9. ASSUME NEW i \in Attempts, GivesUp(i)
      PROVE  TypeOK'
  BY <1>9 DEF GivesUp
<1>10. CASE UNCHANGED vars
  BY <1>10 DEF vars
<1> QED
  BY <1>1, <1>2, <1>3, <1>4, <1>5, <1>6, <1>7, <1>8, <1>9, <1>10 DEF Next, Client

(* Only an attempt that failed for good is followed by another.            *)
LEMMA ResolvedKept == ASSUME TypeOK, Resolved, [Next]_vars PROVE Resolved'
<1> USE RetriesAssumption DEF TypeOK, Resolved, Attempts, Replies, Return
<1>1. CASE Call
  <2>1. CASE request' = request
    BY <1>1, <2>1 DEF Call
  <2>2. CASE request' = [request EXCEPT ![attempt] = "sent"]
    BY <1>1, <2>2 DEF Call
  <2> QED
    BY <1>1, <2>1, <2>2 DEF Call
<1>2. CASE ReplyArrives
  <2>1. CASE Retryable(request[attempt]) /\ ~LastAttempt /\ loop' = "waiting" /\ UNCHANGED verdict
    BY <1>2, <2>1 DEF ReplyArrives, Retryable, LastAttempt
  <2>2. CASE /\ loop' = "returned"
             /\ verdict' = CASE request[attempt] = "settled" -> "settled"
                             [] request[attempt] = "failed" -> "refused"
                             [] OTHER -> "unknown"
    BY <1>2, <2>2 DEF ReplyArrives
  <2> QED
    BY <1>2, <2>1, <2>2 DEF ReplyArrives
<1>3. CASE CallFails
  BY <1>3 DEF CallFails
<1>4. CASE DelayPasses
  BY <1>4 DEF DelayPasses
<1>5. CASE WaitCancelled
  BY <1>5 DEF WaitCancelled
<1>6. CASE ContextEnds
  BY <1>6 DEF ContextEnds
<1>7. ASSUME NEW i \in Attempts,
             TransactionFails(i) \/ GivesUp(i) \/ Transfer(i)
      PROVE  Resolved'
  <2>1. request[i] \in {"sent", "doubtful"}
    BY <1>7 DEF TransactionFails, GivesUp, Transfer
  <2>2. i = attempt /\ verdict # "refused" /\ loop \notin {"ready", "waiting"}
    BY <2>1
  <2>3. CASE TransactionFails(i)
    BY <2>2, <2>3 DEF TransactionFails
  <2>4. CASE GivesUp(i)
    BY <2>2, <2>4 DEF GivesUp
  <2>5. CASE Transfer(i) /\ request[i] = "sent"
    BY <2>2, <2>5 DEF Transfer
  <2>6. CASE Transfer(i) /\ request[i] = "doubtful"
    BY <2>2, <2>6 DEF Transfer
  <2> QED
    BY <1>7, <2>1, <2>3, <2>4, <2>5, <2>6
<1>8. CASE UNCHANGED vars
  BY <1>8 DEF vars
<1> QED
  BY <1>1, <1>2, <1>3, <1>4, <1>5, <1>6, <1>7, <1>8 DEF Next, Client

(* In every reachable state, each attempt before the current one failed    *)
(* for good, which is why another could be made (lines 38, 58-63).         *)
THEOREM SettlementInvariance == Spec => []IInv
<1>1. ASSUME Init PROVE IInv
  <2>1. 0 \in Attempts /\ \A i \in Attempts : request[i] = "unsent"
    BY <1>1, RetriesAssumption DEF Init, Attempts
  <2>2. TypeOK
    BY <1>1, <2>1 DEF Init, TypeOK
  <2>3. Resolved
    BY <1>1, <2>1 DEF Init, Resolved, Attempts
  <2> QED
    BY <2>2, <2>3 DEF IInv
<1>2. IInv /\ [Next]_vars => IInv'
  BY TypesKept, ResolvedKept DEF IInv
<1> QED
  BY <1>1, <1>2, PTL DEF Spec

(* The attempt counter never leaves the delays, and a request is in one of *)
(* the states that its replies leave it in.                                *)
THEOREM SettlementTypeCorrect == Spec => []TypeOK
<1>1. IInv => TypeOK
  BY DEF IInv
<1> QED
  BY <1>1, SettlementInvariance, PTL

(* A refused payment was not charged and never will be.                    *)
THEOREM RefusalIsFinalTheorem == Spec => []RefusalIsFinal
<1>1. IInv => RefusalIsFinal
  <2> SUFFICES ASSUME IInv, verdict = "refused"
               PROVE  ~charged /\ \A i \in Attempts : request[i] \in {"unsent", "failed"}
    BY DEF RefusalIsFinal
  <2>1. \A i \in Attempts : i < attempt \/ i = attempt \/ i > attempt
    BY RetriesAssumption DEF IInv, TypeOK, Attempts
  <2>2. \A i \in Attempts : request[i] \in {"unsent", "failed"}
    BY <2>1 DEF IInv, Resolved
  <2> QED
    BY <2>2 DEF IInv, Resolved
<1> QED
  BY <1>1, SettlementInvariance, PTL

(* At most one attempt is ever unresolved.                                 *)
THEOREM OneAttemptUnresolvedTheorem == Spec => []OneAttemptUnresolved
<1>1. IInv => OneAttemptUnresolved
  BY RetriesAssumption
  DEF IInv, Resolved, TypeOK, Attempts, OneAttemptUnresolved
<1> QED
  BY <1>1, SettlementInvariance, PTL

(* The loop never asks for a delay that does not exist.                    *)
THEOREM DelayExistsTheorem == Spec => []DelayExists
<1>1. IInv => DelayExists
  BY DEF IInv, Resolved, DelayExists
<1> QED
  BY <1>1, SettlementInvariance, PTL

------------------------------------------------------------------------------
(* Every step of the loop, the facilitator or the chain keeps the promise. *)
LEMMA StepRefines ==
  ASSUME IInv, IInv', [Next]_vars
  PROVE  [Promise!Next]_Promise!vars
<1> USE RetriesAssumption DEF IInv, TypeOK, Attempts, Return
<1> USE DEF Promise!Next, Promise!vars, Promise!Charge, Promise!Conclude
<1>1. CASE ReplyArrives
  <2>1. CASE UNCHANGED verdict
    BY <1>1, <2>1 DEF ReplyArrives
  <2>2. CASE /\ loop' = "returned"
             /\ verdict' = CASE request[attempt] = "settled" -> "settled"
                             [] request[attempt] = "failed" -> "refused"
                             [] OTHER -> "unknown"
    <3>1. verdict = "pending" /\ UNCHANGED <<charged, request>>
      BY <1>1, <2>2 DEF ReplyArrives, Resolved
    <3>2. CASE request[attempt] = "settled"
      BY <2>2, <3>1, <3>2 DEF Resolved
    <3>3. CASE request[attempt] = "failed"
      <4>1. verdict' = "refused"
        BY <2>2, <3>3
      <4>2. ~charged
        <5>1. \A i \in Attempts : i < attempt \/ i = attempt \/ i > attempt
          OBVIOUS
        <5>2. \A i \in Attempts : request[i] \in {"unsent", "failed"}
          BY <3>3, <5>1 DEF Resolved
        <5> QED
          BY <5>2 DEF Resolved
      <4> QED
        BY <3>1, <4>1, <4>2
    <3>4. CASE request[attempt] \notin {"settled", "failed"}
      BY <2>2, <3>1, <3>4
    <3> QED
      BY <3>2, <3>3, <3>4
  <2> QED
    BY <1>1, <2>1, <2>2 DEF ReplyArrives
<1>2. CASE CallFails \/ WaitCancelled
  BY <1>2 DEF CallFails, WaitCancelled, Resolved
<1>3. CASE Call \/ DelayPasses \/ ContextEnds
  BY <1>3 DEF Call, DelayPasses, ContextEnds
<1>4. ASSUME NEW i \in Attempts, Transfer(i)
      PROVE  Promise!Charge
  <2>1. request[i] \in {"sent", "doubtful"} /\ ~charged /\ charged' = TRUE
        /\ verdict' = verdict
    BY <1>4 DEF Transfer
  <2>2. verdict # "refused"
    BY <2>1 DEF Resolved
  <2>3. verdict # "settled"
    BY <2>1 DEF Resolved
  <2> QED
    BY <2>1, <2>2, <2>3
<1>5. ASSUME NEW i \in Attempts, TransactionFails(i) \/ GivesUp(i)
      PROVE  UNCHANGED Promise!vars
  BY <1>5 DEF TransactionFails, GivesUp
<1>6. CASE UNCHANGED vars
  BY <1>6 DEF vars
<1> QED
  BY <1>1, <1>2, <1>3, <1>4, <1>5, <1>6 DEF Next, Client

(* To the middleware, the retry loop is one attempt with an honest answer. *)
THEOREM SettlementKeepsPromise == Spec => KeepsPromise
<1>1. Init => Promise!Init
  BY DEF Init, Promise!Init
<1>2. IInv /\ IInv' /\ [Next]_vars => [Promise!Next]_Promise!vars
  BY StepRefines
<1> QED
  BY <1>1, <1>2, SettlementInvariance, PTL DEF Spec, Promise!Spec, KeepsPromise

==============================================================================
