-------------------------- MODULE SettlementPromise --------------------------
(***************************************************************************)
(* What the payment middleware may believe about the settlement of one     *)
(* signed payment: "settled" means that the payer was charged, "refused"   *)
(* that the payer is not and never will be, "unknown" means nothing.       *)
(*                                                                         *)
(* Settlement, the retry loop of                                           *)
(* internal/payment/x402/retrying_facilitator_client.go, implements it.    *)
(***************************************************************************)
VARIABLES
  charged,  \* the transfer happened on chain
  verdict   \* what the middleware was told

vars == <<charged, verdict>>

Init == charged = FALSE /\ verdict = "pending"

Charge ==
  /\ ~charged
  /\ verdict \in {"pending", "unknown"}
  /\ charged' = TRUE
  /\ UNCHANGED verdict

Conclude ==
  /\ verdict = "pending"
  /\ \/ charged /\ verdict' = "settled"
     \/ ~charged /\ verdict' = "refused"
     \/ verdict' = "unknown"
  /\ UNCHANGED charged

Next == Charge \/ Conclude

Spec == Init /\ [][Next]_vars

==============================================================================
