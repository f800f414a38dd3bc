---------------------------- MODULE ScatterGather ----------------------------
(***************************************************************************)
(* What a root agent relies on when it resolves its dependencies: the      *)
(* request names a list of dependencies, each meets one fate, and the      *)
(* caller gets either the output of every dependency or an error that some *)
(* dependency really met.  A refused request touches no dependency.        *)
(*                                                                         *)
(* CallbackClient, the goroutines and the channel of                       *)
(* internal/runtime/client/callback_client.go, implements this module.     *)
(***************************************************************************)
EXTENDS Naturals, Sequences

CONSTANTS
  Codes,     \* agent codes, the last elements of call paths
  NoCode,    \* the code of a dependency whose call path gives none
  Requests   \* the dependency lists a caller may send

VARIABLES
  dependencies,  \* the list being resolved
  fate,          \* what became of each dependency
  outcome,       \* what the caller was told
  results        \* per code, the dependency whose output was returned (0: none)

vars == <<dependencies, fate, outcome, results>>

Deps == DOMAIN dependencies

NoResults == [c \in Codes |-> 0]

(* The dependencies that answer for a code.                                *)
Named(c) == {d \in Deps : dependencies[d].code = c}

Init ==
  /\ dependencies \in Requests
  /\ fate = [d \in Deps |-> "open"]
  /\ outcome = "pending"
  /\ results = NoResults

(* A dependency meets its fate, before or after the caller was told.       *)
Settle(d) ==
  /\ outcome # "rejected"
  /\ fate[d] = "open"
  /\ fate' \in {[fate EXCEPT ![d] = f] : f \in {"answered", "failed"}}
  /\ UNCHANGED <<dependencies, outcome, results>>

(* The request is refused as a whole.                                      *)
Reject ==
  /\ outcome = "pending"
  /\ \A d \in Deps : fate[d] = "open"
  /\ outcome' = "rejected"
  /\ UNCHANGED <<dependencies, fate, results>>

(* Every dependency answered: one output per code.                         *)
ReturnResults ==
  /\ outcome = "pending"
  /\ \A d \in Deps : fate[d] = "answered"
  /\ outcome' = "ok"
  /\ results' \in [Codes -> Deps \cup {0}]
  /\ \A c \in Codes :
       IF Named(c) = {} THEN results'[c] = 0 ELSE results'[c] \in Named(c)
  /\ UNCHANGED <<dependencies, fate>>

(* Some dependency failed: the caller gets no output at all.               *)
ReturnError ==
  /\ outcome = "pending"
  /\ \E d \in Deps : fate[d] = "failed"
  /\ outcome' = "error"
  /\ UNCHANGED <<dependencies, fate, results>>

Next ==
  \/ \E d \in Deps : Settle(d)
  \/ Reject
  \/ ReturnResults
  \/ ReturnError

Spec == Init /\ [][Next]_vars

==============================================================================
