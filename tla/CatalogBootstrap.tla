--------------------------- MODULE CatalogBootstrap ---------------------------
(***************************************************************************)
(* Runs of the catalog bootstrap against one AgentStore: Client.Bootstrap  *)
(* of internal/bootstrap/bootstrap.go, started by hand, rerun after a      *)
(* failure, possibly by several operators at once with catalogs that do    *)
(* not agree.                                                              *)
(*                                                                         *)
(* AgentStore is external.  What is assumed of it: it creates a contract   *)
(* or a version once and refuses the second attempt; an imported version   *)
(* is a DRAFT until it is published; a digest is a function of the         *)
(* manifest.  A request is carried out once or never, at any time after it *)
(* was sent, even after the run that sent it is gone.                      *)
(*                                                                         *)
(* A contract key (code and contract version) is one value, the canonical  *)
(* form of a contract is one value, and so is the digest of a manifest.    *)
(***************************************************************************)
EXTENDS Naturals, Sequences

CONSTANTS
  Runs,          \* operators that run the bootstrap
  Authorized,    \* those who have an access token
  Contracts,     \* contract keys
  Agents,        \* agent codes
  Semvers,       \* agent versions
  Data,          \* contents of a contract, digests of a manifest
  NoData,        \* no content: the contract does not exist
  ContractList,  \* functionContracts, in the order Parse sorted them in
  AgentList,     \* agents, in the order of catalog/agents.yaml
  Uses,          \* the contracts an agent's manifest names
  Catalogs,      \* per run, what its catalog says
  MaxStarts      \* bound of the model: how often an operator tries

Catalog ==
  [contract : [Contracts -> Data], digest : [Agents -> Data], semver : Semvers]

ASSUME ConstantsAssumption ==
  /\ Authorized \subseteq Runs
  /\ NoData \notin Data
  /\ ContractList \in Seq(Contracts) /\ AgentList \in Seq(Agents)
  /\ Uses \in [Agents -> SUBSET Contracts]
  /\ Catalogs \in [Runs -> Catalog]
  /\ MaxStarts \in Nat

(* catalog.Parse accepts no agent whose contracts the catalog lacks, and   *)
(* no code twice: WellFormed, by ParseIsExact of Catalog.                  *)
ParsedCatalog ==
  /\ \A a \in Agents : \A c \in Uses[a] :
       \E i \in 1..Len(ContractList) : ContractList[i] = c
  /\ \A i, j \in 1..Len(AgentList) : AgentList[i] = AgentList[j] => i = j

ASSUME CatalogAssumption == ParsedCatalog

VARIABLES
  contract,  \* AgentStore: the content of each contract
  version,   \* AgentStore: the versions of each agent
  wire,      \* requests that AgentStore has not carried out yet
  starts,    \* how often each operator started
  pc,        \* where each run is, or how it ended
  at,        \* position of each run in ContractList or AgentList
  listed,    \* the contracts each run read when it started
  answer     \* AgentStore's answer to the request a run waits for

vars == <<contract, version, wire, starts, pc, at, listed, answer>>

store == <<contract, version>>

NoVersion == [status |-> "none", digest |-> NoData]

Versions ==
  [status : {"none", "DRAFT", "ACTIVE"}, digest : Data \cup {NoData}]

Requests ==
  [op : {"create", "import", "publish"}, run : Runs, start : 1..MaxStarts,
   item : 1..(Len(ContractList) + Len(AgentList))]

Ended == {"failed", "drift", "done"}

WaitingFor ==
  [creating |-> "create", importing |-> "import", publishing |-> "publish"]

Init ==
  /\ contract = [c \in Contracts |-> NoData]
  /\ version = [a \in Agents |-> [v \in Semvers |-> NoVersion]]
  /\ wire = {}
  /\ starts = [p \in Runs |-> 0]
  /\ pc = [p \in Runs |-> "failed"]
  /\ at = [p \in Runs |-> 1]
  /\ listed = [p \in Runs |-> contract]
  /\ answer = [p \in Runs |-> "none"]

------------------------------------------------------------------------------
(* What a run decides from what it read.                                   *)

AgentAt(i) == AgentList[i]
ContractAt(i) == ContractList[i]

(* sameContract                                                            *)
AnyContract(p, c) == listed[p][c] # NoData
SameContract(p, c) == listed[p][c] = Catalogs[p].contract[c]

Found(a) == \E v \in Semvers : version[a][v].status # "none"

(* activeVersionID: the ACTIVE version that has the catalog's semver.      *)
HasActiveVersion(p, a) == version[a][Catalogs[p].semver].status = "ACTIVE"

(* The digests of the stored and of the rendered manifest are equal.       *)
AnyManifest(p, a) == TRUE
EveryManifest(p, a) ==
  \A v \in Semvers : version[a][v].digest \in {NoData, Catalogs[p].digest[a]}
SameManifest(p, a) ==
  version[a][Catalogs[p].semver].digest = Catalogs[p].digest[a]

Go(p, place) == pc' = [pc EXCEPT ![p] = place]

Advance(p) == at' = [at EXCEPT ![p] = @ + 1]

(* A request leaves, and the run waits for the answer.                     *)
Request(p, op, place) ==
  /\ wire' = wire \cup {[op |-> op, run |-> p, start |-> starts[p], item |-> at[p]]}
  /\ answer' = [answer EXCEPT ![p] = "none"]
  /\ Go(p, place)

------------------------------------------------------------------------------
(* An operator starts the command.  Without a token it stops at once.      *)
Start(p) ==
  /\ pc[p] \in Ended
  /\ starts[p] < MaxStarts
  /\ starts' = [starts EXCEPT ![p] = @ + 1]
  /\ Go(p, IF p \in Authorized THEN "listing" ELSE "failed")
  /\ UNCHANGED <<store, wire, at, listed, answer>>

(* functionContracts: read once, used until the last contract is settled.  *)
List(p) ==
  /\ pc[p] = "listing"
  /\ listed' = [listed EXCEPT ![p] = contract]
  /\ at' = [at EXCEPT ![p] = 1]
  /\ Go(p, "contracts")
  /\ UNCHANGED <<store, wire, starts, answer>>

ContractExists(p) ==
  /\ pc[p] = "contracts"
  /\ at[p] <= Len(ContractList)
  /\ listed[p][ContractAt(at[p])] # NoData
  /\ \/ SameContract(p, ContractAt(at[p])) /\ Advance(p) /\ UNCHANGED pc
     \/ ~SameContract(p, ContractAt(at[p])) /\ Go(p, "drift") /\ UNCHANGED at
  /\ UNCHANGED <<store, wire, starts, listed, answer>>

CreateContract(p) ==
  /\ pc[p] = "contracts"
  /\ at[p] <= Len(ContractList)
  /\ listed[p][ContractAt(at[p])] = NoData
  /\ Request(p, "create", "creating")
  /\ UNCHANGED <<store, starts, at, listed>>

ContractCreated(p) ==
  /\ pc[p] = "creating"
  /\ answer[p] = "ok"
  /\ Advance(p)
  /\ Go(p, "contracts")
  /\ UNCHANGED <<store, wire, starts, listed, answer>>

ContractsSettled(p) ==
  /\ pc[p] = "contracts"
  /\ at[p] > Len(ContractList)
  /\ at' = [at EXCEPT ![p] = 1]
  /\ Go(p, "agents")
  /\ UNCHANGED <<store, wire, starts, listed, answer>>

(* Render and validate the manifest, look the agent up, and import it when *)
(* AgentStore does not know it.                                            *)
ImportManifest(p) ==
  /\ pc[p] = "agents"
  /\ at[p] <= Len(AgentList)
  /\ ~Found(AgentAt(at[p]))
  /\ Request(p, "import", "importing")
  /\ UNCHANGED <<store, starts, at, listed>>

AgentExists(p) ==
  /\ pc[p] = "agents"
  /\ at[p] <= Len(AgentList)
  /\ Found(AgentAt(at[p]))
  /\ Go(p, IF HasActiveVersion(p, AgentAt(at[p])) THEN "comparing" ELSE "drift")
  /\ UNCHANGED <<store, wire, starts, at, listed, answer>>

(* exportManifest of the active version.                                   *)
Compare(p) ==
  /\ pc[p] = "comparing"
  /\ \/ SameManifest(p, AgentAt(at[p])) /\ Advance(p) /\ Go(p, "agents")
     \/ ~SameManifest(p, AgentAt(at[p])) /\ Go(p, "drift") /\ UNCHANGED at
  /\ UNCHANGED <<store, wire, starts, listed, answer>>

Publish(p) ==
  /\ pc[p] = "importing"
  /\ answer[p] = "ok"
  /\ Request(p, "publish", "publishing")
  /\ UNCHANGED <<store, starts, at, listed>>

(* The next agent is taken up only after AgentStore confirmed this one.    *)
PublishAttempted(p) ==
  /\ pc[p] = "publishing"
  /\ Advance(p)
  /\ Go(p, "agents")
  /\ UNCHANGED <<store, wire, starts, listed, answer>>
Published(p) ==
  /\ pc[p] = "publishing"
  /\ answer[p] = "ok"
  /\ Advance(p)
  /\ Go(p, "agents")
  /\ UNCHANGED <<store, wire, starts, listed, answer>>

Finish(p) ==
  /\ pc[p] = "agents"
  /\ at[p] > Len(AgentList)
  /\ Go(p, "done")
  /\ UNCHANGED <<store, wire, starts, at, listed, answer>>

(* AgentStore refuses, a connection breaks or the process is killed; what  *)
(* is on the wire stays there.                                             *)
Fail(p) ==
  /\ pc[p] \notin Ended
  /\ Go(p, "failed")
  /\ UNCHANGED <<store, wire, starts, at, listed, answer>>

------------------------------------------------------------------------------
(* AgentStore.                                                             *)

(* The run that sent m still waits for m.                                  *)
Awaited(m) ==
  /\ starts[m.run] = m.start
  /\ pc[m.run] \in DOMAIN WaitingFor
  /\ WaitingFor[pc[m.run]] = m.op

Reply(m, text) ==
  /\ wire' = wire \ {m}
  /\ answer' = IF Awaited(m) THEN [answer EXCEPT ![m.run] = text] ELSE answer
  /\ UNCHANGED <<starts, pc, at, listed>>

ServeCreate(m) ==
  /\ m.op = "create"
  /\ LET c == ContractAt(m.item) IN
       \/ /\ contract[c] = NoData
          /\ contract' = [contract EXCEPT ![c] = Catalogs[m.run].contract[c]]
          /\ Reply(m, "ok")
       \/ /\ contract[c] # NoData
          /\ Reply(m, "refused")
          /\ UNCHANGED contract
  /\ UNCHANGED version

SetVersion(m, v) ==
  version' =
    [version EXCEPT ![AgentAt(m.item)][Catalogs[m.run].semver] = v]

VersionOf(m) == version[AgentAt(m.item)][Catalogs[m.run].semver]

ServeImport(m) ==
  /\ m.op = "import"
  /\ \/ /\ VersionOf(m) = NoVersion
        /\ SetVersion(m, [status |-> "DRAFT",
                          digest |-> Catalogs[m.run].digest[AgentAt(m.item)]])
        /\ Reply(m, "ok")
     \/ /\ VersionOf(m) # NoVersion
        /\ Reply(m, "refused")
        /\ UNCHANGED version
  /\ UNCHANGED contract

ServePublish(m) ==
  /\ m.op = "publish"
  /\ \/ /\ VersionOf(m).status = "DRAFT"
        /\ SetVersion(m, [VersionOf(m) EXCEPT !.status = "ACTIVE"])
        /\ Reply(m, "ok")
     \/ /\ VersionOf(m).status # "DRAFT"
        /\ Reply(m, "refused")
        /\ UNCHANGED version
  /\ UNCHANGED contract

Lose(m) ==
  /\ wire' = wire \ {m}
  /\ UNCHANGED <<store, starts, pc, at, listed, answer>>

Run(p) ==
  \/ Start(p) \/ List(p)
  \/ ContractExists(p) \/ CreateContract(p) \/ ContractCreated(p)
  \/ ContractsSettled(p)
  \/ ImportManifest(p) \/ Publish(p) \/ Published(p)
  \/ AgentExists(p) \/ Compare(p)
  \/ Finish(p) \/ Fail(p)

Next ==
  \/ \E p \in Runs : Run(p)
  \/ \E m \in wire : ServeCreate(m) \/ ServeImport(m) \/ ServePublish(m) \/ Lose(m)

Spec == Init /\ [][Next]_vars

------------------------------------------------------------------------------
Places ==
  Ended \cup DOMAIN WaitingFor \cup {"listing", "contracts", "agents", "comparing"}

TypeOK ==
  /\ contract \in [Contracts -> Data \cup {NoData}]
  /\ version \in [Agents -> [Semvers -> Versions]]
  /\ wire \subseteq Requests
  /\ starts \in [Runs -> 0..MaxStarts]
  /\ pc \in [Runs -> Places]
  /\ at \in [Runs -> Nat \ {0}]
  /\ listed \in [Runs -> [Contracts -> Data \cup {NoData}]]
  /\ answer \in [Runs -> {"none", "ok", "refused"}]

(* AgentStore has p's catalog, and all of it is published.                 *)
CatalogIsActive(p) ==
  /\ \A i \in 1..Len(ContractList) :
       contract[ContractAt(i)] = Catalogs[p].contract[ContractAt(i)]
  /\ \A i \in 1..Len(AgentList) :
       version[AgentAt(i)][Catalogs[p].semver] =
         [status |-> "ACTIVE", digest |-> Catalogs[p].digest[AgentAt(i)]]

(* A bootstrap that reports success left exactly its catalog in AgentStore,*)
(* whoever else ran before, at the same time or since (lines 49-94).       *)
SuccessMeansPublished == \A p \in Runs : pc[p] = "done" => CatalogIsActive(p)

(* However many runs failed in the middle, what AgentStore has of a        *)
(* catalog version is a beginning of the list of agents, of which at most  *)
(* the last one is not published (lines 73-82): one failure never leaves a *)
(* second half-registered agent behind.                                    *)
PublishedInOrder ==
  \A v \in Semvers : \A j \in 1..Len(AgentList) : \A i \in 1..(j - 1) :
    version[AgentAt(j)][v].status # "none" =>
      version[AgentAt(i)][v].status = "ACTIVE"

(* A version in AgentStore is some catalog's that agrees with the stored   *)
(* contracts it names: the contracts are settled first, from a list that   *)
(* may be stale (lines 45-59).  Operators whose manifests have one digest  *)
(* are not told apart, as AgentStore does not.                             *)
VersionsAgreeWithContracts ==
  \A a \in Agents, v \in Semvers : version[a][v].status # "none" =>
    \E p \in Runs :
      /\ Catalogs[p].semver = v /\ Catalogs[p].digest[a] = version[a][v].digest
      /\ \A c \in Uses[a] : contract[c] = Catalogs[p].contract[c]

(* A catalog that is registered is recognised: a run whose catalog         *)
(* AgentStore has, all of it published, does not call it drift and imports *)
(* nothing again, whatever other versions came in between (lines 69-94;    *)
(* HANDOFF.md:29-31 promises that a rerun is idempotent).                  *)
RerunsAreIdempotent ==
  [][\A p \in Runs : CatalogIsActive(p) /\ pc'[p] # pc[p] =>
       pc'[p] \notin {"drift", "importing"}]_vars

==============================================================================
