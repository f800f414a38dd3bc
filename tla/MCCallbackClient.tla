-------------------------- MODULE MCCallbackClient --------------------------
(***************************************************************************)
(* Requests of every kind that changes the control flow of Invoke: valid   *)
(* dependencies, two under one code, an empty last element, an empty and a *)
(* too long call path, an oversized payload; alone, in pairs, and in       *)
(* threes that mix healthy dependencies with a broken one.                 *)
(***************************************************************************)
EXTENDS CallbackClient

CONSTANTS a, b

MCCodes == {a, b}

allowed == [exact |-> TRUE, origin |-> "store"]
MCCallbackURLs ==
  {allowed, [exact |-> FALSE, origin |-> "store"],
   [exact |-> TRUE, origin |-> "elsewhere"]}
MCAllowedOrigins == {"store"}

askA == [code |-> a, depth |-> 1, oversized |-> FALSE]
askB == [code |-> b, depth |-> 2, oversized |-> FALSE]
unnamed == [code |-> NoCode, depth |-> 1, oversized |-> FALSE]
pathless == [code |-> NoCode, depth |-> 0, oversized |-> FALSE]
tooDeep == [code |-> b, depth |-> 3, oversized |-> FALSE]
tooBig == [code |-> b, depth |-> 1, oversized |-> TRUE]
kinds == {askA, askB, unnamed, pathless, tooDeep, tooBig}

SomeRequests ==
  {<< >>} \cup {<<k>> : k \in kinds} \cup {<<askA, k>> : k \in kinds}
    \cup {<<askA, askB, askA>>, <<askA, unnamed, tooDeep>>}
=============================================================================
