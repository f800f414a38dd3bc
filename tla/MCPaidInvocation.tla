--------------------------- MODULE MCPaidInvocation ---------------------------
(* Bounds of the run of PaidInvocation.                                    *)
EXTENDS PaidInvocation

CONSTANTS root, planner, weather, stranger, leaf, spare

(* The root calls an aggregating planner, which has a dependency of its    *)
(* own, a specialist whose request lists a dependency too, and an agent    *)
(* that the server does not know.                                          *)
TreeChildren ==
  [n \in {root, planner, weather, stranger, leaf, spare} |->
     CASE n = root -> <<planner, weather, stranger>>
       [] n = planner -> <<leaf>>
       [] n = weather -> <<spare>>
       [] OTHER -> <<>>]

TreeRequests ==
  [n \in {root, planner, weather, stranger, leaf, spare} |->
     CASE n = root -> {"invalid", "empty", "runtime"}
       [] n \in {planner, weather} -> {"runtime"}
       [] OTHER -> {"empty"}]
===============================================================================
