---------------------------- MODULE MCFixtureAgent ----------------------------
(***************************************************************************)
(* Two invocations with up to three results each, of agents of every kind. *)
(***************************************************************************)
EXTENDS FixtureAgent, TLC

MCDefinitions == [aggregate : BOOLEAN, text : BOOLEAN]

(* A text with white space around it, the same without, and only space.    *)
MCTrim == [t \in {"up", " up ", " "} |-> IF t = " " THEN Blank ELSE "up"]

MCResults ==
  {[object |-> TRUE, summary |-> " up "], [object |-> TRUE, summary |-> " "],
   [object |-> TRUE, summary |-> NoText], [object |-> FALSE, summary |-> NoText]}

Symmetry == Permutations(Invocations)
==============================================================================
