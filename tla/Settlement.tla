------------------------------ MODULE Settlement ------------------------------
(***************************************************************************)
(* One call of RetryingFacilitatorClient.Settle: up to MaxRetries + 1      *)
(* attempts to have the facilitator settle one signed payment.             *)
(*                                                                         *)
(* The facilitator and the chain are external.  What is assumed of them:   *)
(* the payment's nonce lets the transfer happen once; a transaction that   *)
(* is reported as failed moved no money; every other failure says nothing, *)
(* the transfer may still happen; a request whose answer was lost may      *)
(* still be carried out.                                                   *)
(***************************************************************************)
EXTENDS Naturals

CONSTANT MaxRetries  \* the number of settlementRetryDelays

ASSUME RetriesAssumption == MaxRetries \in Nat

VARIABLES
  loop,     \* where Settle is
  attempt,  \* the current attempt, from 0
  request,  \* the facilitator's side of each attempt
  charged,  \* the transfer happened on chain
  ctxDone,  \* the request context is done
  verdict   \* what Settle returned

vars == <<loop, attempt, request, charged, ctxDone, verdict>>

Attempts == 0..MaxRetries

(* "failed" is the explicit failure with retryableSettlementReason;        *)
(* "doubtful" is any other unsuccessful response, or an error that the     *)
(* facilitator sends.                                                      *)
Replies == {"settled", "failed", "doubtful"}

(* isRetryableSettlementFailure                                            *)
RetryableIncludingErrors(reply) == reply \in {"failed", "doubtful"}
Retryable(reply) == reply = "failed"

(* No delay is left.                                                       *)
LastAttemptOffByOne == attempt = MaxRetries + 1
LastAttempt == attempt = MaxRetries

Init ==
  /\ loop = "ready"
  /\ attempt = 0
  /\ request = [i \in Attempts |-> "unsent"]
  /\ charged = FALSE
  /\ ctxDone \in BOOLEAN
  /\ verdict = "pending"

Return(v) == loop' = "returned" /\ verdict' = v

(* delegate.Settle starts; a request under a dead context, or on a broken  *)
(* connection, may never leave.                                            *)
Call ==
  /\ loop = "ready"
  /\ loop' = "calling"
  /\ request' \in {request, [request EXCEPT ![attempt] = "sent"]}
  /\ UNCHANGED <<attempt, charged, ctxDone, verdict>>

(* The facilitator's reply arrives.                                        *)
ReplyArrives ==
  /\ loop = "calling"
  /\ request[attempt] \in Replies
  /\ \/ /\ Retryable(request[attempt]) /\ ~LastAttempt
        /\ loop' = "waiting"
        /\ UNCHANGED verdict
     \/ /\ ~Retryable(request[attempt]) \/ LastAttempt
        /\ Return(CASE request[attempt] = "settled" -> "settled"
                    [] request[attempt] = "failed" -> "refused"
                    [] OTHER -> "unknown")
  /\ UNCHANGED <<attempt, request, charged, ctxDone>>

(* The call ends with an error: a timeout, a lost connection, a garbled    *)
(* reply.  Errors are never retried.                                       *)
CallIgnoresContext == loop = "calling" /\ FALSE /\ UNCHANGED vars
CallFails ==
  /\ loop = "calling"
  /\ Return("unknown")
  /\ UNCHANGED <<attempt, request, charged, ctxDone>>

(* waitForSettlementRetry.  When the context is done and the timer fired,  *)
(* the select may take either.                                             *)
DelayPasses ==
  /\ loop = "waiting"
  /\ loop' = "ready"
  /\ attempt' = attempt + 1
  /\ UNCHANGED <<request, charged, ctxDone, verdict>>

WaitCancelled ==
  /\ loop = "waiting"
  /\ ctxDone
  /\ Return("unknown")
  /\ UNCHANGED <<attempt, request, charged, ctxDone>>

ContextEnds ==
  /\ ~ctxDone
  /\ loop # "returned"
  /\ ctxDone' = TRUE
  /\ UNCHANGED <<loop, attempt, request, charged, verdict>>

------------------------------------------------------------------------------
(* The facilitator and the chain.                                          *)

Transfer(i) ==
  /\ ~charged
  /\ charged' = TRUE
  /\ \/ request[i] = "sent" /\ request' = [request EXCEPT ![i] = "settled"]
     \/ request[i] = "doubtful" /\ UNCHANGED request
  /\ UNCHANGED <<loop, attempt, ctxDone, verdict>>

(* The transaction failed, for one reason because the nonce is used up.    *)
TransactionFails(i) ==
  /\ request[i] = "sent"
  /\ request' = [request EXCEPT ![i] = "failed"]
  /\ UNCHANGED <<loop, attempt, charged, ctxDone, verdict>>

GivesUp(i) ==
  /\ request[i] = "sent"
  /\ request' = [request EXCEPT ![i] = "doubtful"]
  /\ UNCHANGED <<loop, attempt, charged, ctxDone, verdict>>

Client == Call \/ ReplyArrives \/ DelayPasses \/ WaitCancelled

Next ==
  \/ Client
  \/ CallFails
  \/ ContextEnds
  \/ \E i \in Attempts : Transfer(i) \/ TransactionFails(i) \/ GivesUp(i)

Spec == Init /\ [][Next]_vars

(* The middleware runs under payment.invocationTimeout, and a call under a *)
(* done context returns; of the facilitator nothing is assumed.            *)
FairSpec ==
  /\ Spec
  /\ WF_vars(Client)
  /\ WF_vars(ContextEnds)
  /\ WF_vars(ctxDone /\ CallFails)

------------------------------------------------------------------------------
TypeOK ==
  /\ loop \in {"ready", "calling", "waiting", "returned"}
  /\ attempt \in Attempts
  /\ request \in [Attempts -> Replies \cup {"unsent", "sent"}]
  /\ charged \in BOOLEAN
  /\ ctxDone \in BOOLEAN
  /\ verdict \in {"pending", "settled", "refused", "unknown"}

(* A payment of which Settle reports the explicit transaction failure was  *)
(* not charged, and no attempt of which the answer is still unknown can    *)
(* charge it later: lines 38 and 58-63 retry nothing but that failure.     *)
RefusalIsFinal ==
  verdict = "refused" =>
    ~charged /\ \A i \in Attempts : request[i] \in {"unsent", "failed"}

(* The payment is never in two unresolved attempts at once.                *)
OneAttemptUnresolved ==
  \A i, j \in Attempts :
    request[i] \in {"sent", "doubtful"} /\ request[j] # "unsent" /\ i # j
      => request[j] = "failed"

(* settlementRetryDelays[attempt] of line 48 is within the slice.          *)
DelayExists == loop = "waiting" => attempt < MaxRetries

(* Settle returns, whatever the facilitator does.                          *)
SettleReturns == <>(loop = "returned")

Promise == INSTANCE SettlementPromise

(* The retry loop keeps the promise made about one attempt.                *)
KeepsPromise == Promise!Spec

==============================================================================
