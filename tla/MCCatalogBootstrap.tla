------------------------- MODULE MCCatalogBootstrap -------------------------
(***************************************************************************)
(* Two agents that name one contract.  Beside "old", "new" has another     *)
(* price for the second agent, "bump" another contract and another version *)
(* of both agents, "next" another version with the same contract, and      *)
(* "guest" has no token.                                                   *)
(***************************************************************************)
EXTENDS CatalogBootstrap

CONSTANTS news, report, advice

MCContracts == {news}
MCAgents == {report, advice}
MCContractList == <<news>>
MCAgentList == <<report, advice>>
MCUses == [a \in MCAgents |-> {news}]

oldCatalog ==
  [contract |-> [c \in MCContracts |-> 1], digest |-> [a \in MCAgents |-> 1],
   semver |-> "1.0.0"]
newCatalog == [oldCatalog EXCEPT !.digest[advice] = 2]
bumpCatalog == [contract |-> [c \in MCContracts |-> 2], digest |-> [a \in MCAgents |-> 2],
                semver |-> "2.0.0"]

RaceCatalogs == [old |-> oldCatalog, new |-> newCatalog, bump |-> bumpCatalog]
nextCatalog == [bumpCatalog EXCEPT !.contract = oldCatalog.contract]
RerunCatalogs == [old |-> oldCatalog, next |-> nextCatalog, guest |-> oldCatalog]
=============================================================================
