------------------------------ MODULE MCCatalog ------------------------------
(***************************************************************************)
(* Documents of up to two contracts and two agents, in any order, with     *)
(* entries that are refused for every reason there is.                     *)
(***************************************************************************)
EXTENDS Catalog

Lists(S, n) == UNION {[1..m -> S] : m \in 0..n}

contract(code, format, sound) ==
  [code |-> code, format |-> format, sound |-> sound, version |-> NoVersion]
MCListed ==
  Lists({contract(1, "TEXT", TRUE), contract(1, "JSON", TRUE), contract(2, "JSON", TRUE),
         contract(2, "TEXT", FALSE)}, 2)
  \cup {<<contract(3, "TEXT", TRUE), contract(2, "JSON", TRUE), contract(1, "TEXT", TRUE)>>}

dependency(function, sound) == [functionCode |-> function, sound |-> sound]
agent(code, function, role, dependencies, sound) ==
  [code |-> code, functionCode |-> function, role |-> role, dependencies |-> dependencies,
   sound |-> sound, contract |-> Unresolved, aggregate |-> FALSE]
MCAgents ==
  Lists({agent(code, function, "specialist", {}, TRUE) : code \in {1, 2}, function \in {1, 2}}
        \cup {agent(2, 2, "root", dependencies, TRUE) :
                dependencies \in {{}, {dependency(1, TRUE)}, {dependency(1, FALSE)},
                                  {dependency(1, TRUE), dependency(2, TRUE)}}}
        \cup {agent(1, 1, "other", {}, TRUE), agent(1, 1, "specialist", {}, FALSE),
              agent(1, 1, "specialist", {dependency(1, TRUE)}, TRUE)}, 2)

MCDocuments ==
  {[header |-> header, contractVersion |-> "1.0.0", functionContracts |-> listed, agents |-> agents] :
     header \in {TRUE}, listed \in MCListed, agents \in MCAgents}
  \cup {[header |-> FALSE, contractVersion |-> "1.0.0", functionContracts |-> <<>>, agents |-> <<>>]}
==============================================================================
