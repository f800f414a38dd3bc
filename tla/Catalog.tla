------------------------------- MODULE Catalog -------------------------------
(***************************************************************************)
(* catalog.Parse: one pass over the function contracts of agents.yaml, one *)
(* over the agents, then the sort.  Everything else relies on what it lets *)
(* through: the registry refuses a code twice and panics take the process  *)
(* down (Definitions), prices become payment routes without another look,  *)
(* agents answer under the schemas copied into them, and the bootstrap     *)
(* registers contracts in the order of the list.                           *)
(*                                                                         *)
(* The fields that are only checked to be present or well-formed are one   *)
(* Boolean; the walk through the schemas is CatalogSchema.  Codes are      *)
(* numbers, for they are compared.                                         *)
(***************************************************************************)
EXTENDS Naturals, Sequences, Functions

CONSTANTS
  Documents,  \* contents of agents.yaml
  NoVersion   \* an empty contractVersion

VARIABLES
  document,   \* parsed: what Parse goes through and changes in place
  contracts,  \* the contracts by code
  codes,      \* agent codes so far
  index,      \* position in the list that is gone through
  pass        \* "contracts", "agents", "sorting", "parsed" or "refused"

parseVars == <<document, contracts, codes, index, pass>>

Listed == document.functionContracts
Agents == document.agents

Unresolved == [code |-> 0, format |-> "none"]

IsContract(c) ==
  /\ c = [code |-> c.code, format |-> c.format, sound |-> c.sound, version |-> c.version]
  /\ c.code \in Nat /\ c.sound \in BOOLEAN

IsAgent(a) ==
  /\ a = [code |-> a.code, functionCode |-> a.functionCode, role |-> a.role,
          dependencies |-> a.dependencies, sound |-> a.sound,
          contract |-> a.contract, aggregate |-> a.aggregate]
  /\ a.code \in Nat /\ a.sound \in BOOLEAN

IsDocument(d) ==
  /\ d = [header |-> d.header, contractVersion |-> d.contractVersion,
          functionContracts |-> d.functionContracts, agents |-> d.agents]
  /\ d.header \in BOOLEAN
  /\ d.functionContracts \in Seq(Range(d.functionContracts))
  /\ d.agents \in Seq(Range(d.agents))
  /\ \A i \in DOMAIN d.functionContracts : IsContract(d.functionContracts[i])
  /\ \A i \in DOMAIN d.agents : IsAgent(d.agents[i])

(* A decoded list entry has none of the fields that Parse fills in.        *)
ASSUME DocumentsAssumption ==
  \A d \in Documents :
    /\ IsDocument(d)
    /\ \A i \in DOMAIN d.functionContracts : d.functionContracts[i].version = NoVersion
    /\ \A i \in DOMAIN d.agents : d.agents[i].contract = Unresolved

ParseInit ==
  /\ document \in Documents
  /\ contracts = <<>> /\ codes = {} /\ index = 1 /\ pass = "contracts"

RefuseDocument ==
  /\ pass' = "refused"
  /\ UNCHANGED <<document, contracts, codes, index>>

------------------------------------------------------------------------------
(* Function contracts                                                      *)

ContractIsValid(contract) ==
  contract.sound /\ contract.code \notin DOMAIN contracts

Versioned(contract) == [contract EXCEPT !.version = document.contractVersion]

Filed(contract) ==
  [code \in DOMAIN contracts \cup {contract.code} |->
     IF code = contract.code THEN contract ELSE contracts[code]]

(* The entry is changed through a pointer: the list has the version too.   *)
ParseContractCopy ==
  /\ pass = "contracts" /\ document.header /\ index <= Len(Listed)
  /\ ContractIsValid(Listed[index])
  /\ contracts' = Filed(Versioned(Listed[index]))
  /\ index' = index + 1
  /\ UNCHANGED <<document, codes, pass>>
ParseContract ==
  /\ pass = "contracts" /\ document.header /\ index <= Len(Listed)
  /\ ContractIsValid(Listed[index])
  /\ document' = [document EXCEPT !.functionContracts[index] = Versioned(@)]
  /\ contracts' = Filed(Versioned(Listed[index]))
  /\ index' = index + 1
  /\ UNCHANGED <<codes, pass>>

ContractsParsed ==
  /\ pass = "contracts" /\ document.header /\ index = Len(Listed) + 1
  /\ DOMAIN contracts # {}
  /\ pass' = "agents" /\ index' = 1
  /\ UNCHANGED <<document, contracts, codes>>

RefuseContracts ==
  /\ pass = "contracts"
  /\ \/ ~document.header
     \/ index <= Len(Listed) /\ ~ContractIsValid(Listed[index])
     \/ index = Len(Listed) + 1 /\ DOMAIN contracts = {}
  /\ RefuseDocument

------------------------------------------------------------------------------
(* Agents                                                                  *)

DependencyIsValid(dependency) ==
  dependency.sound /\ dependency.functionCode \in DOMAIN contracts

RoleIsValid(agent) ==
  \/ agent.role = "root" /\ agent.dependencies # {}
  \/ agent.role = "specialist" /\ agent.dependencies = {}

AgentIsValid(agent) ==
  /\ agent.sound /\ agent.functionCode \in DOMAIN contracts
  /\ agent.code \notin codes
  /\ RoleIsValid(agent)
  /\ \A dependency \in agent.dependencies : DependencyIsValid(dependency)

(* The definition gets the name, format and schemas of its contract.       *)
Completed(agent) ==
  [agent EXCEPT !.contract = [code |-> agent.functionCode,
                              format |-> contracts[agent.functionCode].format],
                !.aggregate = (agent.role = "root")]

ParseAgentUnrecorded ==
  /\ pass = "agents" /\ index <= Len(Agents)
  /\ AgentIsValid(Agents[index])
  /\ document' = [document EXCEPT !.agents[index] = Completed(@)]
  /\ index' = index + 1
  /\ UNCHANGED <<contracts, codes, pass>>
ParseAgent ==
  /\ pass = "agents" /\ index <= Len(Agents)
  /\ AgentIsValid(Agents[index])
  /\ document' = [document EXCEPT !.agents[index] = Completed(@)]
  /\ codes' = codes \cup {Agents[index].code}
  /\ index' = index + 1
  /\ UNCHANGED <<contracts, pass>>

AgentsParsed ==
  /\ pass = "agents" /\ index = Len(Agents) + 1
  /\ pass' = "sorting"
  /\ UNCHANGED <<document, contracts, codes, index>>

RefuseAgents ==
  /\ pass = "agents" /\ index <= Len(Agents) /\ ~AgentIsValid(Agents[index])
  /\ RefuseDocument

(* sort.Slice, of which only the result is fixed.                          *)
InOrder(list) == \A i, j \in DOMAIN list : i < j => list[i].code <= list[j].code

Sort ==
  /\ pass = "sorting"
  /\ \E order \in Bijection(DOMAIN Listed, DOMAIN Listed) :
       LET sorted == [i \in DOMAIN Listed |-> Listed[order[i]]]
       IN  InOrder(sorted) /\ document' = [document EXCEPT !.functionContracts = sorted]
  /\ pass' = "parsed"
  /\ UNCHANGED <<contracts, codes, index>>

ParseNext ==
  \/ ParseContract \/ ContractsParsed \/ RefuseContracts
  \/ ParseAgent \/ AgentsParsed \/ RefuseAgents \/ Sort

ParseSpec == ParseInit /\ [][ParseNext]_parseVars

------------------------------------------------------------------------------
(* Properties                                                              *)

ParseTypeOK ==
  /\ IsDocument(document)
  /\ pass \in {"contracts", "agents", "sorting", "parsed", "refused"}
  /\ index \in 1..(Len(Listed) + Len(Agents) + 1)
  /\ \A code \in DOMAIN contracts : IsContract(contracts[code]) /\ contracts[code].code = code
  /\ codes \subseteq Nat

(* The sort moves the contracts only after they were copied: the server    *)
(* answers under the contract that the bootstrap registers for the agent,  *)
(* and that with the version the manifest names.                           *)
DefinitionsMatchContracts ==
  pass = "parsed" =>
    \A i \in 1..Len(Agents) :
      \E j \in 1..Len(Listed) :
        /\ Agents[i].contract = [code |-> Listed[j].code, format |-> Listed[j].format]
        /\ Agents[i].functionCode = Listed[j].code
        /\ Listed[j].version = document.contractVersion

(* What the catalog as a whole has to be, whatever the order of its lists, *)
(* and what the registry and the bootstrap take for granted (ParsedCatalog *)
(* in CatalogBootstrap): a code stands for one agent or contract, and what *)
(* an agent provides or depends on is a contract of the catalog.           *)
WellFormed(d) ==
  LET provided == {d.functionContracts[i].code : i \in DOMAIN d.functionContracts}
  IN  /\ d.header /\ provided # {}
      /\ \A i \in DOMAIN d.functionContracts : d.functionContracts[i].sound
      /\ \A i, j \in DOMAIN d.functionContracts :
           d.functionContracts[i].code = d.functionContracts[j].code => i = j
      /\ \A i, j \in DOMAIN d.agents : d.agents[i].code = d.agents[j].code => i = j
      /\ \A i \in DOMAIN d.agents :
           /\ d.agents[i].sound /\ d.agents[i].functionCode \in provided
           /\ d.agents[i].role \in {"root", "specialist"}
           /\ d.agents[i].role = "root" <=> d.agents[i].dependencies # {}
           /\ \A dependency \in d.agents[i].dependencies :
                dependency.sound /\ dependency.functionCode \in provided

(* Parse looks at one entry after the other, against what it has seen so   *)
(* far, and changes the entries as it goes; still it lets a catalog        *)
(* through exactly when the whole of it is well-formed: nothing depends on *)
(* the order of the contracts or of the agents.                            *)
ParseIsExact ==
  /\ pass = "parsed" => WellFormed(document)
  /\ pass = "refused" => ~WellFormed(document)

------------------------------------------------------------------------------
(* Why: the entries up to the index passed, and the map and the set hold   *)
(* what they held.                                                         *)
ContractsSeen == IF pass = "contracts" THEN index - 1 ELSE Len(Listed)
AgentsSeen ==
  IF pass = "contracts" THEN 0 ELSE IF pass = "agents" THEN index - 1 ELSE Len(Agents)

ContractsFiled ==
  /\ ContractsSeen \in 0..Len(Listed)
  /\ DOMAIN contracts = {Listed[i].code : i \in 1..ContractsSeen}
  /\ \A i \in 1..ContractsSeen :
       /\ Listed[i].sound /\ Listed[i].version = document.contractVersion
       /\ contracts[Listed[i].code] = Listed[i]
  /\ \A i, j \in 1..ContractsSeen : Listed[i].code = Listed[j].code => i = j

AgentsCompleted ==
  /\ AgentsSeen \in 0..Len(Agents)
  /\ codes = {Agents[i].code : i \in 1..AgentsSeen}
  /\ \A i \in 1..AgentsSeen :
       /\ Agents[i].sound /\ Agents[i].functionCode \in DOMAIN contracts
       /\ RoleIsValid(Agents[i])
       /\ \A dependency \in Agents[i].dependencies : DependencyIsValid(dependency)
       /\ Agents[i].contract = [code |-> Agents[i].functionCode,
                                format |-> contracts[Agents[i].functionCode].format]
  /\ \A i, j \in 1..AgentsSeen : Agents[i].code = Agents[j].code => i = j

ParseIInv ==
  /\ ParseTypeOK
  /\ pass # "refused" => ContractsFiled /\ AgentsCompleted
  /\ pass \notin {"contracts", "refused"} => document.header /\ DOMAIN contracts # {}
  /\ pass = "refused" => ~WellFormed(document)
==============================================================================
