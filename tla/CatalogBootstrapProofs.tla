------------------------ MODULE CatalogBootstrapProofs ------------------------
(***************************************************************************)
(* For all operators, catalogs, contracts and agents: the types of         *)
(* CatalogBootstrap, that success means published, that versions appear in *)
(* the order of the list, and that they agree with the contracts.          *)
(*                                                                         *)
(* None of these is inductive, because AgentStore may carry a request out  *)
(* long after its run ended.  Sent says what still holds of a request on   *)
(* the wire, Progress what a run may rely on where it is.  Both only claim *)
(* what AgentStore cannot take back: it creates contracts and versions     *)
(* once, and a published version stays published (StoreGrows).             *)
(***************************************************************************)
EXTENDS CatalogBootstrap, TLAPS

(* The first n contracts in AgentStore are those of p's catalog.           *)
ContractsUpTo(p, n) ==
  \A i \in 1..n : contract[ContractAt(i)] = Catalogs[p].contract[ContractAt(i)]

(* The first n agents in AgentStore are published as p's catalog says.     *)
AgentsUpTo(p, n) ==
  \A i \in 1..n :
    version[AgentAt(i)][Catalogs[p].semver] =
      [status |-> "ACTIVE", digest |-> Catalogs[p].digest[AgentAt(i)]]

(* AgentStore has agent i from a manifest like p's.                        *)
Imported(p, i) ==
  /\ version[AgentAt(i)][Catalogs[p].semver].status # "none"
  /\ SameManifest(p, AgentAt(i))

PastContracts == {"agents", "comparing", "importing", "publishing", "done"}

Progress(p) ==
  /\ pc[p] \notin Ended => starts[p] # 0
  /\ pc[p] \in {"contracts", "creating"} =>
       ContractsUpTo(p, at[p] - 1) /\ at[p] <= Len(ContractList) + 1
  /\ pc[p] = "creating" => at[p] <= Len(ContractList)
  /\ pc[p] = "creating" /\ answer[p] = "ok" => ContractsUpTo(p, at[p])
  /\ pc[p] \in PastContracts =>
       /\ ContractsUpTo(p, Len(ContractList))
       /\ AgentsUpTo(p, at[p] - 1)
       /\ at[p] <= Len(AgentList) + 1
  /\ pc[p] \in {"comparing", "importing", "publishing"} => at[p] <= Len(AgentList)
  /\ pc[p] = "comparing" => HasActiveVersion(p, AgentAt(at[p]))
  /\ pc[p] = "importing" /\ answer[p] = "ok" => Imported(p, at[p])
  /\ pc[p] = "publishing" => Imported(p, at[p])
  /\ pc[p] = "publishing" /\ answer[p] = "ok" => AgentsUpTo(p, at[p])
  /\ pc[p] = "done" => at[p] > Len(AgentList)

Sent(m) ==
  /\ m.start <= starts[m.run]
  /\ m.start = starts[m.run] /\ pc[m.run] \notin Ended =>
       Awaited(m) /\ m.item = at[m.run] /\ answer[m.run] = "none"
  /\ m.op = "create" => m.item <= Len(ContractList)
  /\ m.op # "create" =>
       /\ m.item <= Len(AgentList)
       /\ ContractsUpTo(m.run, Len(ContractList))
       /\ AgentsUpTo(m.run, m.item - 1)
  /\ m.op = "publish" => Imported(m.run, m.item)

(* A list of contracts may be stale, but what it has is still there.       *)
ListedStands ==
  \A p \in Runs, c \in Contracts : listed[p][c] # NoData => contract[c] = listed[p][c]

IInv ==
  /\ TypeOK
  /\ ListedStands
  /\ \A p \in Runs : Progress(p)
  /\ \A m \in wire : Sent(m)
  /\ PublishedInOrder
  /\ VersionsAgreeWithContracts

(* The lists and the catalogs have the values they should have.            *)
LEMMA Lists ==
  /\ Len(ContractList) \in Nat /\ Len(AgentList) \in Nat
  /\ \A i \in 1..Len(ContractList) : ContractAt(i) \in Contracts
  /\ \A i \in 1..Len(AgentList) : AgentAt(i) \in Agents
  /\ \A p \in Runs :
       /\ Catalogs[p].semver \in Semvers
       /\ \A c \in Contracts : Catalogs[p].contract[c] \in Data
       /\ \A a \in Agents : Catalogs[p].digest[a] \in Data
<1>1. Len(ContractList) \in Nat /\ Len(AgentList) \in Nat
  BY ConstantsAssumption
<1>2. \A i \in 1..Len(ContractList) : ContractAt(i) \in Contracts
  BY ConstantsAssumption DEF ContractAt
<1>3. \A i \in 1..Len(AgentList) : AgentAt(i) \in Agents
  BY ConstantsAssumption DEF AgentAt
<1>4. ASSUME NEW p \in Runs
      PROVE  /\ Catalogs[p].semver \in Semvers
             /\ \A c \in Contracts : Catalogs[p].contract[c] \in Data
             /\ \A a \in Agents : Catalogs[p].digest[a] \in Data
  BY ConstantsAssumption DEF Catalog
<1> QED
  BY <1>1, <1>2, <1>3, <1>4

(* A step of a run leaves AgentStore alone.                                *)
LEMMA RunsOnlyAsk ==
  ASSUME NEW p \in Runs, Run(p)
  PROVE  UNCHANGED store
BY DEF Run, Start, List, ContractExists, CreateContract, ContractCreated,
       ContractsSettled, ImportManifest, Publish, Published, AgentExists, Compare,
       Finish, Fail, store

(* AgentStore takes nothing back: contracts keep their content, versions   *)
(* their digest, and what is published stays published.                    *)
StoreGrows ==
  /\ \A c \in Contracts : contract[c] # NoData => contract'[c] = contract[c]
  /\ \A a \in Agents, v \in Semvers : version[a][v].status # "none" =>
       /\ version'[a][v].status # "none"
       /\ version'[a][v].digest = version[a][v].digest
  /\ \A a \in Agents, v \in Semvers : version[a][v].status = "ACTIVE" =>
       version'[a][v] = version[a][v]

LEMMA RequestTypes ==
  ASSUME TypeOK, NEW m \in wire
  PROVE  /\ m.run \in Runs /\ m.start \in 1..MaxStarts
         /\ m.op \in {"create", "import", "publish"}
         /\ m.item \in Nat \ {0}
<1>1. m \in Requests
  BY DEF TypeOK
<1>2. m.item \in 1..(Len(ContractList) + Len(AgentList))
  BY <1>1 DEF Requests
<1> QED
  BY <1>1, <1>2, Lists DEF Requests

LEMMA StoreOnlyGrows ==
  ASSUME TypeOK, \A m \in wire : Sent(m), [Next]_vars
  PROVE  StoreGrows
<1> USE DEF StoreGrows
<1>1. CASE UNCHANGED store
  BY <1>1 DEF store
<1>2. ASSUME NEW m \in wire, ServeCreate(m) PROVE StoreGrows
  <2>1. UNCHANGED version
    BY <1>2 DEF ServeCreate
  <2>2. \/ UNCHANGED contract
        \/ /\ contract[ContractAt(m.item)] = NoData
           /\ contract' = [contract EXCEPT ![ContractAt(m.item)] =
                                Catalogs[m.run].contract[ContractAt(m.item)]]
    BY <1>2 DEF ServeCreate
  <2> QED
    BY <2>1, <2>2 DEF TypeOK
<1>3. ASSUME NEW m \in wire, ServeImport(m) \/ ServePublish(m) PROVE StoreGrows
  <2> DEFINE a == AgentAt(m.item)
             v == Catalogs[m.run].semver
  <2>1. m.op # "create"
    BY <1>3 DEF ServeImport, ServePublish
  <2>2. a \in Agents /\ v \in Semvers
    BY <2>1, RequestTypes, Lists DEF Sent
  <2>3. UNCHANGED contract
    BY <1>3 DEF ServeImport, ServePublish
  <2>4. version[a][v] \in Versions /\ version \in [Agents -> [Semvers -> Versions]]
    BY <2>2 DEF TypeOK
  <2>5. CASE UNCHANGED version
    BY <2>3, <2>5
  <2>6. CASE /\ version[a][v] = NoVersion
             /\ \E new : version' = [version EXCEPT ![a][v] = new]
    <3>1. version[a][v].status = "none"
      BY <2>6 DEF NoVersion
    <3>2. \A b \in Agents, w \in Semvers : b # a \/ w # v => version'[b][w] = version[b][w]
      BY <2>6, <2>4, <2>2
    <3> QED
      BY <2>3, <3>1, <3>2
  <2>7. CASE /\ version[a][v].status = "DRAFT"
             /\ version' = [version EXCEPT ![a][v] = [version[a][v] EXCEPT !.status = "ACTIVE"]]
    <3>1. \A b \in Agents, w \in Semvers : b # a \/ w # v => version'[b][w] = version[b][w]
      BY <2>7, <2>4, <2>2
    <3>2. version'[a][v] = [version[a][v] EXCEPT !.status = "ACTIVE"]
      BY <2>7, <2>4, <2>2
    <3>3. version'[a][v].status = "ACTIVE" /\ version'[a][v].digest = version[a][v].digest
      BY <3>2, <2>4 DEF Versions
    <3> QED
      BY <2>3, <2>7, <3>1, <3>3
  <2> QED
    BY <1>3, <2>5, <2>6, <2>7 DEF ServeImport, ServePublish, SetVersion, VersionOf
<1>4. ASSUME NEW m \in wire, Lose(m) PROVE StoreGrows
  BY <1>1, <1>4 DEF Lose
<1>5. CASE UNCHANGED vars
  BY <1>1, <1>5 DEF vars, store
<1> QED
  BY <1>1, <1>2, <1>3, <1>4, <1>5, RunsOnlyAsk DEF Next

(* So what a run has settled stays settled.                                *)
LEMMA SettledStays ==
  ASSUME TypeOK, StoreGrows, NEW p \in Runs
  PROVE  /\ \A n \in 0..Len(ContractList) :
              ContractsUpTo(p, n) => ContractsUpTo(p, n)'
         /\ \A n \in 0..Len(AgentList) : AgentsUpTo(p, n) => AgentsUpTo(p, n)'
         /\ \A i \in 1..Len(AgentList) : Imported(p, i) => Imported(p, i)'
         /\ \A i \in 1..Len(AgentList) :
              HasActiveVersion(p, AgentAt(i)) => HasActiveVersion(p, AgentAt(i))'
<1>1. ASSUME NEW n \in 0..Len(ContractList), ContractsUpTo(p, n), NEW i \in 1..n
      PROVE  contract'[ContractAt(i)] = Catalogs[p].contract[ContractAt(i)]
  <2>1. i \in 1..Len(ContractList)
    BY Lists
  <2>2. ContractAt(i) \in Contracts /\ Catalogs[p].contract[ContractAt(i)] # NoData
    BY <2>1, Lists, ConstantsAssumption
  <2> QED
    BY <1>1, <2>2 DEF StoreGrows, ContractsUpTo
<1>2. ASSUME NEW n \in 0..Len(AgentList), AgentsUpTo(p, n), NEW i \in 1..n
      PROVE  version'[AgentAt(i)][Catalogs[p].semver] =
               [status |-> "ACTIVE", digest |-> Catalogs[p].digest[AgentAt(i)]]
  <2>1. i \in 1..Len(AgentList)
    BY Lists
  <2>2. AgentAt(i) \in Agents /\ Catalogs[p].semver \in Semvers
    BY <2>1, Lists
  <2>3. version[AgentAt(i)][Catalogs[p].semver] =
          [status |-> "ACTIVE", digest |-> Catalogs[p].digest[AgentAt(i)]]
    BY <1>2 DEF AgentsUpTo
  <2>4. version[AgentAt(i)][Catalogs[p].semver].status = "ACTIVE"
    BY <2>3
  <2> QED
    BY <2>2, <2>3, <2>4 DEF StoreGrows
<1>3. ASSUME NEW i \in 1..Len(AgentList), Imported(p, i)
      PROVE  Imported(p, i)'
  BY <1>3, Lists DEF StoreGrows, Imported, SameManifest
<1>4. ASSUME NEW i \in 1..Len(AgentList), HasActiveVersion(p, AgentAt(i))
      PROVE  HasActiveVersion(p, AgentAt(i))'
  BY <1>4, Lists DEF StoreGrows, HasActiveVersion
<1> QED
  BY <1>1, <1>2, <1>3, <1>4 DEF ContractsUpTo, AgentsUpTo

(* A request is for an item of its list.                                   *)
LEMMA ItemTypes ==
  ASSUME TypeOK, NEW m \in wire, Sent(m)
  PROVE  /\ m.op = "create" => ContractAt(m.item) \in Contracts
         /\ m.op # "create" => /\ m.item \in 1..Len(AgentList)
                               /\ AgentAt(m.item) \in Agents
BY RequestTypes, Lists DEF Sent

(* What a new request says of the run that sends it.                       *)
LEMMA RequestKeepsTypes ==
  ASSUME TypeOK, NEW p \in Runs, Progress(p), NEW op \in {"create", "import", "publish"},
         NEW place \in Places, Request(p, op, place), pc[p] \notin Ended,
         at[p] <= Len(ContractList) \/ at[p] <= Len(AgentList),
         UNCHANGED <<store, starts, at, listed>>
  PROVE  TypeOK'
<1>1. starts[p] \in 1..MaxStarts
  BY DEF TypeOK, Progress
<1>2. at[p] \in 1..(Len(ContractList) + Len(AgentList))
  BY Lists DEF TypeOK
<1>3. [op |-> op, run |-> p, start |-> starts[p], item |-> at[p]] \in Requests
  BY <1>1, <1>2 DEF Requests
<1> QED
  BY <1>3 DEF TypeOK, Request, Go, store

LEMMA RunKeepsTypes ==
  ASSUME IInv, NEW p \in Runs, Run(p)
  PROVE  TypeOK'
<1> USE DEF TypeOK, IInv, Places, Ended, WaitingFor, store, Go
<1>1. CASE Start(p)
  BY <1>1, ConstantsAssumption DEF Start
<1>2. CASE List(p)
  BY <1>2 DEF List
<1>3. CASE ContractExists(p)
  <2>1. \/ Advance(p) /\ UNCHANGED pc
        \/ Go(p, "drift") /\ UNCHANGED at
    BY <1>3 DEF ContractExists
  <2>2. at' \in [Runs -> Nat \ {0}] /\ pc' \in [Runs -> Places]
    BY <2>1 DEF Advance
  <2> QED
    BY <1>3, <2>2 DEF ContractExists
<1>4. CASE CreateContract(p)
  <2>1. Progress(p) /\ Request(p, "create", "creating") /\ at[p] <= Len(ContractList)
    BY <1>4 DEF CreateContract
  <2> QED
    BY <1>4, <2>1, RequestKeepsTypes DEF CreateContract
<1>5. CASE ContractCreated(p)
  BY <1>5 DEF ContractCreated, Advance
<1>6. CASE ContractsSettled(p)
  BY <1>6 DEF ContractsSettled
<1>7. CASE ImportManifest(p)
  <2>1. Progress(p) /\ Request(p, "import", "importing") /\ at[p] <= Len(AgentList)
    BY <1>7 DEF ImportManifest
  <2> QED
    BY <1>7, <2>1, RequestKeepsTypes DEF ImportManifest
<1>8. CASE Publish(p)
  <2>1. Progress(p) /\ Request(p, "publish", "publishing") /\ at[p] <= Len(AgentList)
    BY <1>8 DEF Publish, Progress
  <2> QED
    BY <1>8, <2>1, RequestKeepsTypes DEF Publish
<1>9. CASE Published(p)
  BY <1>9 DEF Published, Advance
<1>10. CASE AgentExists(p)
  BY <1>10 DEF AgentExists
<1>11. CASE Compare(p)
  <2>1. \/ Advance(p) /\ Go(p, "agents")
        \/ Go(p, "drift") /\ UNCHANGED at
    BY <1>11 DEF Compare
  <2>2. at' \in [Runs -> Nat \ {0}]
    BY <2>1 DEF Advance
  <2>3. pc' \in [Runs -> Places]
    BY <2>1
  <2> QED
    BY <1>11, <2>2, <2>3 DEF Compare
<1>12. CASE Finish(p) \/ Fail(p)
  BY <1>12 DEF Finish, Fail
<1> QED
  BY <1>1, <1>2, <1>3, <1>4, <1>5, <1>6, <1>7, <1>8, <1>9, <1>10, <1>11, <1>12 DEF Run

LEMMA ReplyKeepsTypes ==
  ASSUME TypeOK, NEW m \in wire, NEW text \in {"ok", "refused"}, Reply(m, text)
  PROVE  /\ wire' \subseteq Requests
         /\ answer' \in [Runs -> {"none", "ok", "refused"}]
         /\ UNCHANGED <<starts, pc, at, listed>>
<1>1. wire' \subseteq Requests /\ UNCHANGED <<starts, pc, at, listed>>
  BY DEF TypeOK, Reply
<1>2. answer' \in [Runs -> {"none", "ok", "refused"}]
  BY RequestTypes DEF TypeOK, Reply
<1> QED
  BY <1>1, <1>2

LEMMA NewVersionType ==
  ASSUME TypeOK, NEW m \in wire, Sent(m), m.op # "create",
         NEW new \in Versions, SetVersion(m, new)
  PROVE  version' \in [Agents -> [Semvers -> Versions]]
<1>1. AgentAt(m.item) \in Agents /\ Catalogs[m.run].semver \in Semvers
  BY ItemTypes, RequestTypes, Lists
<1> QED
  BY <1>1 DEF SetVersion, TypeOK

LEMMA StoreKeepsTypes ==
  ASSUME IInv, NEW m \in wire, ServeCreate(m) \/ ServeImport(m) \/ ServePublish(m) \/ Lose(m)
  PROVE  TypeOK'
<1>1. TypeOK /\ Sent(m) /\ m.run \in Runs
  BY RequestTypes DEF IInv
<1>2. CASE ServeCreate(m)
  <2>1. contract' \in [Contracts -> Data \cup {NoData}]
    BY <1>1, <1>2, ItemTypes, Lists DEF ServeCreate, TypeOK
  <2>2. \/ Reply(m, "ok")
        \/ Reply(m, "refused")
    BY <1>2 DEF ServeCreate
  <2> QED
    BY <1>1, <1>2, <2>1, <2>2, ReplyKeepsTypes DEF ServeCreate, TypeOK
<1>3. CASE ServeImport(m)
  <2>1. version' \in [Agents -> [Semvers -> Versions]]
    <3> DEFINE draft == [status |-> "DRAFT",
                         digest |-> Catalogs[m.run].digest[AgentAt(m.item)]]
    <3>1. m.op # "create"
      BY <1>3 DEF ServeImport
    <3>2. draft \in Versions
      BY <1>1, <3>1, ItemTypes, Lists DEF Versions
    <3>3. UNCHANGED version \/ SetVersion(m, draft)
      BY <1>3 DEF ServeImport
    <3> HIDE DEF draft
    <3>4. CASE SetVersion(m, draft)
      BY <1>1, <3>1, <3>2, <3>4, NewVersionType
    <3> QED
      BY <1>1, <3>3, <3>4 DEF TypeOK
  <2>2. \/ Reply(m, "ok")
        \/ Reply(m, "refused")
    BY <1>3 DEF ServeImport
  <2> QED
    BY <1>1, <1>3, <2>1, <2>2, ReplyKeepsTypes DEF ServeImport, TypeOK
<1>4. CASE ServePublish(m)
  <2>1. VersionOf(m) \in Versions
    BY <1>1, <1>4, ItemTypes, Lists DEF ServePublish, VersionOf, TypeOK
  <2>2. [VersionOf(m) EXCEPT !.status = "ACTIVE"] \in Versions
    BY <2>1 DEF Versions
  <2>3. version' \in [Agents -> [Semvers -> Versions]]
    <3>1. m.op # "create"
      BY <1>4 DEF ServePublish
    <3>2. UNCHANGED version \/ SetVersion(m, [VersionOf(m) EXCEPT !.status = "ACTIVE"])
      BY <1>4 DEF ServePublish
    <3>3. CASE SetVersion(m, [VersionOf(m) EXCEPT !.status = "ACTIVE"])
      BY <1>1, <3>1, <2>2, <3>3, NewVersionType
    <3> QED
      BY <1>1, <3>2, <3>3 DEF TypeOK
  <2>4. \/ Reply(m, "ok")
        \/ Reply(m, "refused")
    BY <1>4 DEF ServePublish
  <2> QED
    BY <1>1, <1>4, <2>3, <2>4, ReplyKeepsTypes DEF ServePublish, TypeOK
<1>5. CASE Lose(m)
  BY <1>1, <1>5 DEF Lose, TypeOK, store
<1> QED
  BY <1>2, <1>3, <1>4, <1>5

LEMMA TypesKept == ASSUME IInv, [Next]_vars PROVE TypeOK'
<1>1. CASE UNCHANGED vars
  BY <1>1 DEF vars, TypeOK, IInv
<1> QED
  BY <1>1, RunKeepsTypes, StoreKeepsTypes DEF Next

LEMMA Waits ==
  /\ DOMAIN WaitingFor = {"creating", "importing", "publishing"}
  /\ WaitingFor["creating"] = "create" /\ WaitingFor["importing"] = "import"
  /\ WaitingFor["publishing"] = "publish"
  /\ \A place \in DOMAIN WaitingFor : place \notin Ended
BY DEF WaitingFor, Ended

(* A run that does not move keeps what it relies on.                       *)
LEMMA OthersProgress ==
  ASSUME TypeOK, StoreGrows, NEW q \in Runs, Progress(q),
         pc'[q] = pc[q], at'[q] = at[q], starts'[q] = starts[q],
         answer'[q] \in {answer[q], "none", "refused"}
  PROVE  Progress(q)'
<1>1. at[q] \in Nat \ {0}
  BY DEF TypeOK
<1>2. /\ pc[q] \notin Ended => starts'[q] # 0
      /\ pc[q] = "creating" => at[q] <= Len(ContractList)
      /\ pc[q] \in {"comparing", "importing", "publishing"} => at[q] <= Len(AgentList)
      /\ pc[q] = "done" => at[q] > Len(AgentList)
  BY DEF Progress
<1>3. pc[q] \in {"contracts", "creating"} =>
        ContractsUpTo(q, at[q] - 1)' /\ at[q] <= Len(ContractList) + 1
  BY <1>1, SettledStays, Lists DEF Progress, ContractsUpTo
<1>4. pc[q] = "creating" /\ answer'[q] = "ok" => ContractsUpTo(q, at[q])'
  BY <1>1, SettledStays, Lists DEF Progress, ContractsUpTo
<1>5. pc[q] \in PastContracts =>
        /\ ContractsUpTo(q, Len(ContractList))'
        /\ AgentsUpTo(q, at[q] - 1)'
        /\ at[q] <= Len(AgentList) + 1
  <2> SUFFICES ASSUME pc[q] \in PastContracts
               PROVE  /\ ContractsUpTo(q, Len(ContractList))'
                      /\ AgentsUpTo(q, at[q] - 1)'
                      /\ at[q] <= Len(AgentList) + 1
    OBVIOUS
  <2>1. /\ ContractsUpTo(q, Len(ContractList)) /\ AgentsUpTo(q, at[q] - 1)
        /\ at[q] <= Len(AgentList) + 1
    BY DEF Progress
  <2>2. at[q] - 1 \in 0..Len(AgentList) /\ Len(ContractList) \in 0..Len(ContractList)
    BY <1>1, <2>1, Lists
  <2> QED
    BY <2>1, <2>2, SettledStays DEF ContractsUpTo, AgentsUpTo
<1>6. pc[q] = "comparing" => HasActiveVersion(q, AgentAt(at[q]))'
  BY <1>1, <1>2, SettledStays, Lists DEF Progress, HasActiveVersion, AgentAt
<1>7. /\ pc[q] = "importing" /\ answer'[q] = "ok" => Imported(q, at[q])'
      /\ pc[q] = "publishing" => Imported(q, at[q])'
  BY <1>1, <1>2, SettledStays, Lists DEF Progress, Imported, SameManifest
<1>8. pc[q] = "publishing" /\ answer'[q] = "ok" => AgentsUpTo(q, at[q])'
  BY <1>1, <1>2, SettledStays, Lists DEF Progress, AgentsUpTo
<1> QED
  BY <1>2, <1>3, <1>4, <1>5, <1>6, <1>7, <1>8
     DEF Progress, ContractsUpTo, AgentsUpTo, Imported, SameManifest, HasActiveVersion

(* A step of a run keeps what that run relies on.                          *)
LEMMA RunProgress ==
  ASSUME IInv, NEW p \in Runs, Run(p)
  PROVE  Progress(p)'
<1>1. /\ TypeOK /\ Progress(p) /\ ListedStands /\ UNCHANGED store
      /\ at[p] \in Nat \ {0} /\ starts[p] \in Nat
      /\ pc \in [Runs -> Places] /\ at \in [Runs -> Nat \ {0}]
      /\ answer \in [Runs -> {"none", "ok", "refused"}]
      /\ starts \in [Runs -> 0..MaxStarts]
  BY RunsOnlyAsk DEF IInv, TypeOK
<1> USE DEF Progress, ContractsUpTo, AgentsUpTo, Imported, SameManifest, HasActiveVersion,
            PastContracts, Ended, Go, Advance, store
<1>2. CASE Start(p)
  BY <1>1, <1>2 DEF Start
<1>3. CASE List(p)
  BY <1>1, <1>3, Lists DEF List
<1>4. CASE ContractExists(p)
  <2>1. CASE Advance(p) /\ UNCHANGED pc /\ SameContract(p, ContractAt(at[p]))
    <3>1. at[p] \in 1..Len(ContractList) /\ ContractAt(at[p]) \in Contracts
      BY <1>1, <1>4, Lists DEF ContractExists
    <3>2. contract[ContractAt(at[p])] = Catalogs[p].contract[ContractAt(at[p])]
      BY <1>1, <1>4, <2>1, <3>1 DEF ContractExists, SameContract, ListedStands
    <3> QED
      BY <1>1, <1>4, <2>1, <3>1, <3>2, Lists DEF ContractExists
  <2>2. CASE Go(p, "drift") /\ UNCHANGED at
    BY <1>1, <1>4, <2>2 DEF ContractExists
  <2> QED
    BY <1>4, <2>1, <2>2 DEF ContractExists
<1>5. CASE CreateContract(p)
  BY <1>1, <1>5 DEF CreateContract, Request
<1>6. CASE ContractCreated(p)
  BY <1>1, <1>6, Lists DEF ContractCreated
<1>7. CASE ContractsSettled(p)
  BY <1>1, <1>7, Lists DEF ContractsSettled
<1>8. CASE ImportManifest(p)
  BY <1>1, <1>8 DEF ImportManifest, Request
<1>9. CASE Publish(p)
  BY <1>1, <1>9 DEF Publish, Request
<1>10. CASE Published(p)
  BY <1>1, <1>10, Lists DEF Published
<1>11. CASE AgentExists(p)
  BY <1>1, <1>11 DEF AgentExists
<1>12. CASE Compare(p)
  <2>1. CASE SameManifest(p, AgentAt(at[p])) /\ Advance(p) /\ Go(p, "agents")
    <3> DEFINE stored == version[AgentAt(at[p])][Catalogs[p].semver]
    <3>1. at[p] \in 1..Len(AgentList)
      BY <1>1, <1>12, Lists DEF Compare
    <3>2. stored \in Versions
      BY <1>1, <3>1, Lists DEF TypeOK
    <3>3. stored.status = "ACTIVE" /\ stored.digest = Catalogs[p].digest[AgentAt(at[p])]
      BY <1>1, <1>12, <2>1 DEF Compare
    <3>4. stored = [status |-> "ACTIVE", digest |-> Catalogs[p].digest[AgentAt(at[p])]]
      BY <3>2, <3>3 DEF Versions
    <3> QED
      BY <1>1, <1>12, <2>1, <3>1, <3>4, Lists DEF Compare
  <2>2. CASE Go(p, "drift") /\ UNCHANGED at
    BY <1>1, <1>12, <2>2 DEF Compare
  <2> QED
    BY <1>12, <2>1, <2>2 DEF Compare
<1>13. CASE Finish(p)
  BY <1>1, <1>13 DEF Finish
<1>14. CASE Fail(p)
  BY <1>1, <1>14 DEF Fail
<1> QED
  BY <1>2, <1>3, <1>4, <1>5, <1>6, <1>7, <1>8, <1>9, <1>10, <1>11, <1>12, <1>13, <1>14
     DEF Run

(* A step of p leaves the other runs where they are.                       *)
LEMMA OthersStay ==
  ASSUME TypeOK, NEW p \in Runs, NEW q \in Runs, q # p, Run(p)
  PROVE  /\ pc'[q] = pc[q] /\ at'[q] = at[q] /\ starts'[q] = starts[q]
         /\ answer'[q] = answer[q]
<1> USE DEF TypeOK, Go, Advance, Request
<1>1. CASE Start(p) \/ List(p)
  BY <1>1 DEF Start, List
<1>2. CASE ContractExists(p) \/ CreateContract(p)
  BY <1>2 DEF ContractExists, CreateContract
<1>3. CASE ContractCreated(p) \/ ContractsSettled(p)
  BY <1>3 DEF ContractCreated, ContractsSettled
<1>4. CASE ImportManifest(p) \/ Publish(p) \/ Published(p)
  BY <1>4 DEF ImportManifest, Publish, Published
<1>5. CASE AgentExists(p) \/ Compare(p)
  BY <1>5 DEF AgentExists, Compare
<1>6. CASE Finish(p) \/ Fail(p)
  BY <1>6 DEF Finish, Fail
<1> QED
  BY <1>1, <1>2, <1>3, <1>4, <1>5, <1>6 DEF Run

(* When AgentStore has carried out a request, the run that waits for it    *)
(* may rely on what the request asked for.                                 *)
LEMMA ServedProgress ==
  ASSUME IInv, StoreGrows, NEW m \in wire, Awaited(m),
         ServeCreate(m) \/ ServeImport(m) \/ ServePublish(m), ~Reply(m, "refused")
  PROVE  Progress(m.run)'
<1> DEFINE q == m.run
<1>1. /\ TypeOK /\ q \in Runs /\ Progress(q) /\ Sent(m)
      /\ UNCHANGED <<starts, pc, at>> /\ at[q] \in Nat \ {0}
  <2>1. UNCHANGED <<starts, pc, at>>
    BY DEF ServeCreate, ServeImport, ServePublish, Reply
  <2> QED
    BY <2>1, RequestTypes DEF IInv, TypeOK
<1>2. m.item = at[q] /\ pc[q] \notin Ended /\ WaitingFor[pc[q]] = m.op
      /\ pc[q] \in {"creating", "importing", "publishing"}
  BY <1>1, Waits DEF Awaited, Sent
<1> HIDE DEF q
<1>3. CASE ServeCreate(m)
  <2>1. pc[q] = "creating" /\ ContractAt(at[q]) \in Contracts
    BY <1>1, <1>2, <1>3, ItemTypes, Waits DEF ServeCreate
  <2>2. contract'[ContractAt(at[q])] = Catalogs[q].contract[ContractAt(at[q])]
    BY <1>1, <1>2, <1>3, <2>1 DEF ServeCreate, TypeOK, q
  <2>3. ContractsUpTo(q, at[q] - 1)' /\ at[q] <= Len(ContractList)
    BY <1>1, <2>1, SettledStays, Lists DEF Progress, ContractsUpTo
  <2> QED
    BY <1>1, <2>1, <2>2, <2>3, Lists DEF Progress, ContractsUpTo, PastContracts, Ended, q
<1>4. CASE ServeImport(m) \/ ServePublish(m)
  <2> DEFINE a == AgentAt(at[q])
             v == Catalogs[q].semver
  <2>1. /\ m.op # "create" /\ a \in Agents /\ v \in Semvers
        /\ at[q] \in 1..Len(AgentList)
    BY <1>1, <1>2, <1>4, ItemTypes, Lists DEF ServeImport, ServePublish
  <2>2. pc[q] \in {"importing", "publishing"}
    BY <1>2, <2>1, Waits
  <2>3. /\ ContractsUpTo(q, Len(ContractList))' /\ AgentsUpTo(q, at[q] - 1)'
        /\ starts'[q] # 0
    <3>1. at[q] - 1 \in 0..Len(AgentList) /\ Len(ContractList) \in 0..Len(ContractList)
      BY <2>1, Lists
    <3>2. ContractsUpTo(q, Len(ContractList)) /\ AgentsUpTo(q, at[q] - 1) /\ starts[q] # 0
      BY <1>2, <2>2, <1>1 DEF Progress, PastContracts
    <3> QED
      BY <1>1, <3>1, <3>2, SettledStays DEF ContractsUpTo, AgentsUpTo
  <2>4. CASE ServeImport(m)
    <3>1. pc[q] = "importing"
      BY <1>2, <2>4, <2>2, Waits DEF ServeImport
    <3>2. SetVersion(m, [status |-> "DRAFT", digest |-> Catalogs[q].digest[a]])
      BY <1>2, <2>4 DEF ServeImport, q
    <3>3. version'[a][v] = [status |-> "DRAFT", digest |-> Catalogs[q].digest[a]]
      BY <1>1, <1>2, <2>1, <3>2 DEF SetVersion, TypeOK, q
    <3>4. Imported(q, at[q])'
      BY <1>1, <3>3 DEF Imported, SameManifest
    <3> QED
      BY <1>1, <2>1, <2>3, <3>1, <3>4
         DEF Progress, ContractsUpTo, AgentsUpTo, Imported, SameManifest, PastContracts, Ended, q
  <2>5. CASE ServePublish(m)
    <3>1. pc[q] = "publishing" /\ Imported(q, at[q])
      BY <1>1, <1>2, <2>5, <2>2, Waits DEF ServePublish, Progress
    <3>2. SetVersion(m, [version[a][v] EXCEPT !.status = "ACTIVE"])
      BY <1>2, <2>5 DEF ServePublish, VersionOf, q
    <3>3. version'[a][v] = [version[a][v] EXCEPT !.status = "ACTIVE"]
      BY <1>1, <1>2, <2>1, <3>2 DEF SetVersion, TypeOK, q
    <3>4. version[a][v] \in Versions /\ version[a][v].digest = Catalogs[q].digest[a]
      BY <1>1, <2>1, <3>1 DEF TypeOK, Imported, SameManifest
    <3>5. version'[a][v] = [status |-> "ACTIVE", digest |-> Catalogs[q].digest[a]]
      BY <3>3, <3>4 DEF Versions
    <3>6. AgentsUpTo(q, at[q])'
      BY <1>1, <2>1, <2>3, <3>5 DEF AgentsUpTo
    <3>7. Imported(q, at[q])'
      BY <1>1, <3>5 DEF Imported, SameManifest
    <3> QED
      BY <1>1, <2>1, <2>3, <3>1, <3>6, <3>7
         DEF Progress, ContractsUpTo, AgentsUpTo, Imported, SameManifest, PastContracts, Ended, q
  <2> QED
    BY <1>4, <2>4, <2>5
<1> QED
  BY <1>3, <1>4 DEF q

LEMMA ProgressKept ==
  ASSUME IInv, [Next]_vars, NEW q \in Runs
  PROVE  Progress(q)'
<1>1. TypeOK /\ Progress(q) /\ StoreGrows
  BY StoreOnlyGrows DEF IInv
<1>2. CASE UNCHANGED vars
  BY <1>1, <1>2, OthersProgress DEF vars
<1>3. ASSUME NEW p \in Runs, Run(p) PROVE Progress(q)'
  <2>1. CASE q = p
    BY <1>3, <2>1, RunProgress
  <2>2. CASE q # p
    BY <1>1, <1>3, <2>2, OthersStay, OthersProgress
  <2> QED
    BY <2>1, <2>2
<1>4. ASSUME NEW m \in wire, Lose(m) PROVE Progress(q)'
  BY <1>1, <1>4, OthersProgress DEF Lose
<1>5. ASSUME NEW m \in wire, ServeCreate(m) \/ ServeImport(m) \/ ServePublish(m)
      PROVE  Progress(q)'
  <2>1. /\ Reply(m, "ok") \/ Reply(m, "refused")
        /\ UNCHANGED <<starts, pc, at>>
    BY <1>5 DEF ServeCreate, ServeImport, ServePublish, Reply
  <2>2. CASE Awaited(m) /\ q = m.run /\ ~Reply(m, "refused")
    BY <1>5, <1>1, <2>1, <2>2, ServedProgress
  <2>3. CASE ~Awaited(m) \/ q # m.run \/ Reply(m, "refused")
    <3>1. answer'[q] \in {answer[q], "none", "refused"}
      BY <1>1, <2>1, <2>3, RequestTypes DEF Reply, TypeOK
    <3> QED
      BY <1>1, <2>1, <3>1, OthersProgress
  <2> QED
    BY <2>2, <2>3
<1> QED
  BY <1>2, <1>3, <1>4, <1>5 DEF Next

(* What a request on the wire relies on stays: its run cannot go on while  *)
(* the request is open, and AgentStore takes nothing back.                 *)
LEMMA OldRequestStands ==
  ASSUME TypeOK, StoreGrows, NEW m \in wire, Sent(m),
         starts'[m.run] \in Nat, starts'[m.run] >= starts[m.run],
         m.start = starts'[m.run] /\ pc'[m.run] \notin Ended =>
           Awaited(m)' /\ m.item = at'[m.run] /\ answer'[m.run] = "none"
  PROVE  Sent(m)'
<1>1. m.run \in Runs /\ m.start \in Nat /\ starts[m.run] \in Nat /\ m.item \in Nat \ {0}
  BY RequestTypes DEF TypeOK
<1>2. m.op # "create" =>
        /\ m.item <= Len(AgentList)
        /\ ContractsUpTo(m.run, Len(ContractList))'
        /\ AgentsUpTo(m.run, m.item - 1)'
  <2> SUFFICES ASSUME m.op # "create"
               PROVE  /\ m.item <= Len(AgentList)
                      /\ ContractsUpTo(m.run, Len(ContractList))'
                      /\ AgentsUpTo(m.run, m.item - 1)'
    OBVIOUS
  <2>1. /\ m.item <= Len(AgentList) /\ ContractsUpTo(m.run, Len(ContractList))
        /\ AgentsUpTo(m.run, m.item - 1)
    BY DEF Sent
  <2>2. m.item - 1 \in 0..Len(AgentList) /\ Len(ContractList) \in 0..Len(ContractList)
    BY <1>1, <2>1, Lists
  <2> QED
    BY <1>1, <2>1, <2>2, SettledStays
<1>3. m.op = "publish" => Imported(m.run, m.item)'
  <2>1. m.op = "publish" => m.item \in 1..Len(AgentList) /\ Imported(m.run, m.item)
    BY <1>1, Lists DEF Sent
  <2> QED
    BY <1>1, <2>1, SettledStays
<1>4. m.start <= starts'[m.run] /\ (m.op = "create" => m.item <= Len(ContractList))
  <2>1. m.start <= starts[m.run] /\ (m.op = "create" => m.item <= Len(ContractList))
    BY DEF Sent
  <2> QED
    BY <1>1, <2>1
<1> QED
  BY <1>2, <1>3, <1>4 DEF Sent, ContractsUpTo, AgentsUpTo, Imported, SameManifest

(* A run that moves has no open request, for it would wait for it.         *)
LEMMA MoversHaveNoRequest ==
  ASSUME IInv, NEW p \in Runs, Run(p), NEW m \in wire, m.run = p
  PROVE  /\ starts'[p] \in Nat /\ starts'[p] >= starts[p]
         /\ m.start = starts'[p] => pc'[p] \in Ended
<1>1. TypeOK /\ Sent(m) /\ m.start \in Nat /\ starts[p] \in Nat /\ pc[p] \in Places
  BY RequestTypes DEF IInv, TypeOK
<1>2. m.start = starts[p] /\ pc[p] \notin Ended =>
        pc[p] \in {"creating", "importing", "publishing"} /\ answer[p] = "none"
  BY <1>1, Waits DEF Sent, Awaited
<1> USE DEF Ended, Go
<1>3. CASE Start(p)
  <2>1. starts'[p] = starts[p] + 1
    BY <1>1, <1>3 DEF Start, TypeOK
  <2>2. m.start <= starts[p]
    BY <1>1 DEF Sent
  <2> QED
    BY <1>1, <2>1, <2>2
<1>4. CASE Fail(p)
  BY <1>1, <1>4 DEF Fail, TypeOK
<1>5. CASE ~Start(p) /\ ~Fail(p)
  <2>1. starts'[p] = starts[p]
    BY <1>5 DEF Run, List, ContractExists, CreateContract, ContractCreated,
         ContractsSettled, ImportManifest, Publish, Published, AgentExists, Compare, Finish
  <2>2. /\ pc[p] \notin Ended
        /\ pc[p] \notin {"creating", "importing", "publishing"} \/ answer[p] = "ok"
    BY <1>5 DEF Run, List, ContractExists, CreateContract, ContractCreated,
         ContractsSettled, ImportManifest, Publish, Published, AgentExists, Compare, Finish
  <2> QED
    BY <1>1, <1>2, <2>1, <2>2
<1> QED
  BY <1>3, <1>4, <1>5

(* A request is sent when what it relies on holds.                         *)
LEMMA NewRequestStands ==
  ASSUME IInv, NEW p \in Runs, NEW op \in {"create", "import", "publish"}, NEW place,
         Request(p, op, place), UNCHANGED <<store, starts, at, listed>>,
         place \in DOMAIN WaitingFor, WaitingFor[place] = op,
         op = "create" => at[p] <= Len(ContractList),
         op # "create" => pc[p] \in PastContracts /\ at[p] <= Len(AgentList),
         op = "publish" => Imported(p, at[p]),
         NEW m \in wire', m \notin wire
  PROVE  Sent(m)'
<1>1. m = [op |-> op, run |-> p, start |-> starts[p], item |-> at[p]]
  BY DEF Request
<1>2. /\ TypeOK /\ Progress(p) /\ starts[p] \in Nat /\ pc'[p] = place /\ answer'[p] = "none"
      /\ m.op = op /\ m.run = p /\ m.start = starts[p] /\ m.item = at[p]
  BY <1>1 DEF IInv, TypeOK, Request, Go
<1>3. Awaited(m)'
  BY <1>2 DEF Awaited
<1>4. op # "create" => /\ ContractsUpTo(p, Len(ContractList))
                       /\ AgentsUpTo(p, at[p] - 1)
  BY <1>2 DEF Progress
<1> QED
  BY <1>2, <1>3, <1>4 DEF Sent, ContractsUpTo, AgentsUpTo, Imported, SameManifest, store

LEMMA RunKeepsRequests ==
  ASSUME IInv, NEW p \in Runs, Run(p), NEW m \in wire'
  PROVE  Sent(m)'
<1>1. TypeOK /\ StoreGrows
  BY RunsOnlyAsk DEF IInv, StoreGrows, store
<1>2. CASE m \in wire
  <2>1. Sent(m) /\ m.run \in Runs
    BY <1>1, <1>2, RequestTypes DEF IInv
  <2>2. CASE m.run = p
    BY <1>1, <1>2, <2>1, <2>2, MoversHaveNoRequest, OldRequestStands
  <2>3. CASE m.run # p
    <3>1. /\ pc'[m.run] = pc[m.run] /\ at'[m.run] = at[m.run]
          /\ starts'[m.run] = starts[m.run] /\ answer'[m.run] = answer[m.run]
      BY <1>1, <2>1, <2>3, OthersStay
    <3>2. m.start = starts[m.run] /\ pc[m.run] \notin Ended =>
            Awaited(m) /\ m.item = at[m.run] /\ answer[m.run] = "none"
      BY <2>1 DEF Sent
    <3>3. Awaited(m) => Awaited(m)'
      BY <3>1 DEF Awaited
    <3>4. starts[m.run] \in Nat
      BY <1>1, <2>1 DEF TypeOK
    <3> QED
      BY <1>1, <1>2, <2>1, <3>1, <3>2, <3>3, <3>4, OldRequestStands
  <2> QED
    BY <2>2, <2>3
<1>3. CASE m \notin wire
  <2>1. \/ CreateContract(p) \/ ImportManifest(p) \/ Publish(p)
    BY <1>3 DEF Run, Start, List, ContractExists, ContractCreated, ContractsSettled,
         Published, AgentExists, Compare, Finish, Fail
  <2>2. CASE CreateContract(p)
    BY <1>3, <2>2, Waits, NewRequestStands DEF CreateContract
  <2>3. CASE ImportManifest(p)
    BY <1>3, <2>3, Waits, NewRequestStands DEF ImportManifest, PastContracts
  <2>4. CASE Publish(p)
    <3>1. Imported(p, at[p]) /\ at[p] <= Len(AgentList) /\ pc[p] \in PastContracts
      BY <2>4 DEF Publish, IInv, Progress, PastContracts
    <3> QED
      BY <1>3, <2>4, <3>1, Waits, NewRequestStands DEF Publish
  <2> QED
    BY <2>1, <2>2, <2>3, <2>4
<1> QED
  BY <1>2, <1>3

(* Of two requests one run waits for both are the same.                    *)
LEMMA OneRequestAwaited ==
  ASSUME TypeOK, NEW m \in wire, Sent(m), NEW n \in wire, Sent(n),
         Awaited(m), n.run = m.run, n.start = starts[n.run]
  PROVE  n = m
<1>1. m \in Requests /\ n \in Requests
  BY DEF TypeOK
<1>2. m.start = starts[m.run] /\ pc[m.run] \notin Ended /\ m.op = WaitingFor[pc[m.run]]
  BY Waits DEF Awaited
<1>3. m.item = at[m.run] /\ n.item = at[m.run] /\ Awaited(n)
  BY <1>2 DEF Sent
<1>4. n.op = m.op /\ n.start = m.start /\ n.item = m.item
  BY <1>2, <1>3 DEF Awaited
<1> QED
  BY <1>1, <1>4 DEF Requests

LEMMA SentKept ==
  ASSUME IInv, [Next]_vars, NEW m \in wire'
  PROVE  Sent(m)'
<1>1. TypeOK /\ StoreGrows
  BY StoreOnlyGrows DEF IInv
<1>2. CASE UNCHANGED <<wire, starts, pc, at, answer>>
  <2>1. m \in wire /\ Sent(m)
    BY <1>2 DEF IInv
  <2>2. m.start = starts[m.run] /\ pc[m.run] \notin Ended =>
          Awaited(m)' /\ m.item = at[m.run] /\ answer[m.run] = "none"
    BY <1>2, <2>1 DEF Sent, Awaited
  <2>3. starts[m.run] \in Nat
    BY <1>1, <2>1, RequestTypes DEF TypeOK
  <2> QED
    BY <1>1, <1>2, <2>1, <2>2, <2>3, OldRequestStands
<1>3. ASSUME NEW n \in wire, wire' = wire \ {n}, UNCHANGED <<starts, pc, at>>,
             \/ answer' = answer
             \/ Awaited(n) /\ \E text : answer' = [answer EXCEPT ![n.run] = text]
      PROVE  Sent(m)'
  <2>1. m \in wire /\ m # n /\ Sent(m) /\ Sent(n) /\ m.run \in Runs /\ starts[m.run] \in Nat
    BY <1>1, <1>3, RequestTypes DEF IInv, TypeOK
  <2>2. ASSUME m.start = starts[m.run], pc[m.run] \notin Ended
        PROVE  Awaited(m)' /\ m.item = at[m.run] /\ answer'[m.run] = "none"
    <3>1. Awaited(m) /\ m.item = at[m.run] /\ answer[m.run] = "none"
      BY <2>1, <2>2 DEF Sent
    <3>2. ~Awaited(n) \/ n.run # m.run
      BY <1>1, <2>1, <2>2, OneRequestAwaited
    <3>3. answer'[m.run] = answer[m.run]
      BY <1>1, <1>3, <2>1, <3>2 DEF TypeOK
    <3> QED
      BY <1>3, <3>1, <3>3 DEF Awaited
  <2> QED
    BY <1>1, <1>3, <2>1, <2>2, OldRequestStands
<1>4. ASSUME NEW n \in wire, ServeCreate(n) \/ ServeImport(n) \/ ServePublish(n) \/ Lose(n)
      PROVE  Sent(m)'
  <2>1. /\ wire' = wire \ {n} /\ UNCHANGED <<starts, pc, at>>
        /\ \/ answer' = answer
           \/ Awaited(n) /\ \E text : answer' = [answer EXCEPT ![n.run] = text]
    BY <1>4 DEF ServeCreate, ServeImport, ServePublish, Lose, Reply
  <2> QED
    BY <1>3, <2>1
<1> QED
  BY <1>2, <1>4, RunKeepsRequests DEF Next, vars

LEMMA ListedKept == ASSUME IInv, [Next]_vars PROVE ListedStands'
<1>1. TypeOK /\ StoreGrows /\ ListedStands
  BY StoreOnlyGrows DEF IInv
<1>2. CASE UNCHANGED listed
  BY <1>1, <1>2 DEF ListedStands, StoreGrows, TypeOK
<1>3. ASSUME NEW p \in Runs, List(p) PROVE ListedStands'
  BY <1>1, <1>3 DEF List, ListedStands, TypeOK, store
<1>4. ASSUME NEW p \in Runs, Run(p), ~List(p) PROVE UNCHANGED listed
  BY <1>4 DEF Run, Start, ContractExists, CreateContract, ContractCreated,
     ContractsSettled, ImportManifest, Publish, Published, AgentExists, Compare, Finish, Fail
<1>5. ASSUME NEW m \in wire, ServeCreate(m) \/ ServeImport(m) \/ ServePublish(m) \/ Lose(m)
      PROVE  UNCHANGED listed
  BY <1>5 DEF ServeCreate, ServeImport, ServePublish, Lose, Reply
<1> QED
  BY <1>2, <1>3, <1>4, <1>5 DEF Next, vars

(* A version appears only by an import, when what precedes it is settled.  *)
LEMMA NewVersion ==
  ASSUME IInv, [Next]_vars, NEW a \in Agents, NEW v \in Semvers,
         version[a][v].status = "none", version'[a][v].status # "none"
  PROVE  \E p \in Runs, j \in 1..Len(AgentList) :
           /\ a = AgentAt(j) /\ v = Catalogs[p].semver
           /\ version'[a][v].digest = Catalogs[p].digest[a]
           /\ ContractsUpTo(p, Len(ContractList))
           /\ AgentsUpTo(p, j - 1)
<1>1. ~UNCHANGED version
  OBVIOUS
<1>2. PICK m \in wire : ServeImport(m) \/ ServePublish(m)
  BY <1>1, RunsOnlyAsk DEF Next, vars, store, ServeCreate, Lose
<1>3. /\ m.run \in Runs /\ m.item \in 1..Len(AgentList) /\ m.op # "create" /\ Sent(m)
      /\ AgentAt(m.item) \in Agents /\ Catalogs[m.run].semver \in Semvers /\ TypeOK
  BY <1>2, RequestTypes, ItemTypes, Lists DEF IInv, ServeImport, ServePublish
<1>4. CASE /\ ServeImport(m)
           /\ SetVersion(m, [status |-> "DRAFT",
                             digest |-> Catalogs[m.run].digest[AgentAt(m.item)]])
  <2>1. a = AgentAt(m.item) /\ v = Catalogs[m.run].semver
    BY <1>3, <1>4 DEF SetVersion, TypeOK
  <2>2. version'[a][v].digest = Catalogs[m.run].digest[a]
    BY <1>3, <1>4, <2>1 DEF SetVersion, TypeOK
  <2> QED
    BY <1>3, <2>1, <2>2 DEF Sent
<1>5. CASE VersionOf(m).status = "DRAFT" /\ SetVersion(m, [VersionOf(m) EXCEPT !.status = "ACTIVE"])
  <2>1. a # AgentAt(m.item) \/ v # Catalogs[m.run].semver
    BY <1>5 DEF VersionOf
  <2>2. version'[a][v] = version[a][v]
    BY <1>3, <1>5, <2>1 DEF SetVersion, TypeOK
  <2> QED
    BY <2>2
<1> QED
  BY <1>1, <1>2, <1>4, <1>5 DEF ServeImport, ServePublish

LEMMA OrderKept == ASSUME IInv, [Next]_vars PROVE PublishedInOrder'
<1> SUFFICES ASSUME NEW v \in Semvers, NEW j \in 1..Len(AgentList), NEW i \in 1..(j - 1),
                    version'[AgentAt(j)][v].status # "none"
             PROVE  version'[AgentAt(i)][v].status = "ACTIVE"
  BY DEF PublishedInOrder
<1>1. /\ TypeOK /\ StoreGrows /\ PublishedInOrder /\ i \in 1..Len(AgentList)
      /\ AgentAt(i) \in Agents /\ AgentAt(j) \in Agents
  BY StoreOnlyGrows, Lists DEF IInv
<1>2. CASE version[AgentAt(j)][v].status # "none"
  BY <1>1, <1>2 DEF PublishedInOrder, StoreGrows
<1>3. CASE version[AgentAt(j)][v].status = "none"
  <2>1. PICK p \in Runs, k \in 1..Len(AgentList) :
          AgentAt(j) = AgentAt(k) /\ v = Catalogs[p].semver /\ AgentsUpTo(p, k - 1)
    BY <1>1, <1>3, NewVersion
  <2>2. k = j
    BY <2>1, CatalogAssumption DEF ParsedCatalog, AgentAt
  <2>3. version[AgentAt(i)][v].status = "ACTIVE"
    <3>1. AgentsUpTo(p, j - 1) /\ v = Catalogs[p].semver
      BY <2>1, <2>2
    <3>2. version[AgentAt(i)][Catalogs[p].semver]
            = [status |-> "ACTIVE", digest |-> Catalogs[p].digest[AgentAt(i)]]
      BY <3>1 DEF AgentsUpTo
    <3> QED
      BY <3>1, <3>2
  <2> QED
    BY <1>1, <2>3 DEF StoreGrows
<1> QED
  BY <1>2, <1>3

LEMMA AgreementKept == ASSUME IInv, [Next]_vars PROVE VersionsAgreeWithContracts'
<1> SUFFICES ASSUME NEW a \in Agents, NEW v \in Semvers, version'[a][v].status # "none"
             PROVE  \E p \in Runs :
                      /\ Catalogs[p].semver = v /\ Catalogs[p].digest[a] = version'[a][v].digest
                      /\ \A c \in Uses[a] : contract'[c] = Catalogs[p].contract[c]
  BY DEF VersionsAgreeWithContracts
<1>1. TypeOK /\ StoreGrows /\ VersionsAgreeWithContracts /\ Uses[a] \subseteq Contracts
  BY StoreOnlyGrows, ConstantsAssumption DEF IInv
<1>2. ASSUME NEW p \in Runs, NEW c \in Uses[a], contract[c] = Catalogs[p].contract[c]
      PROVE  contract'[c] = Catalogs[p].contract[c]
  BY <1>1, <1>2, Lists, ConstantsAssumption DEF StoreGrows
<1>3. CASE version[a][v].status # "none"
  <2>1. PICK p \in Runs :
          /\ Catalogs[p].semver = v /\ Catalogs[p].digest[a] = version[a][v].digest
          /\ \A c \in Uses[a] : contract[c] = Catalogs[p].contract[c]
    BY <1>1, <1>3 DEF VersionsAgreeWithContracts
  <2>2. version'[a][v].digest = version[a][v].digest
    BY <1>1, <1>3 DEF StoreGrows
  <2> QED
    BY <1>2, <2>1, <2>2
<1>4. CASE version[a][v].status = "none"
  <2>1. PICK p \in Runs :
          /\ v = Catalogs[p].semver
          /\ version'[a][v].digest = Catalogs[p].digest[a]
          /\ ContractsUpTo(p, Len(ContractList))
    BY <1>4, NewVersion
  <2>2. \A c \in Uses[a] : contract[c] = Catalogs[p].contract[c]
    <3> SUFFICES ASSUME NEW c \in Uses[a] PROVE contract[c] = Catalogs[p].contract[c]
      OBVIOUS
    <3>1. PICK i \in 1..Len(ContractList) : ContractList[i] = c
      BY CatalogAssumption DEF ParsedCatalog
    <3> QED
      BY <2>1, <3>1 DEF ContractsUpTo, ContractAt
  <2> QED
    BY <1>2, <2>1, <2>2
<1> QED
  BY <1>3, <1>4

LEMMA InitiallyInv == Init => IInv
<1> SUFFICES ASSUME Init PROVE IInv
  OBVIOUS
<1>1. TypeOK
  BY ConstantsAssumption DEF Init, TypeOK, Versions, NoVersion, Places, Ended
<1>2. ListedStands
  BY DEF Init, ListedStands
<1>3. \A p \in Runs : Progress(p)
  BY DEF Init, Progress, Ended, PastContracts
<1>4. \A m \in wire : Sent(m)
  BY DEF Init
<1>5. PublishedInOrder
  BY Lists DEF Init, PublishedInOrder, NoVersion
<1>6. VersionsAgreeWithContracts
  BY DEF Init, VersionsAgreeWithContracts, NoVersion
<1> QED
  BY <1>1, <1>2, <1>3, <1>4, <1>5, <1>6 DEF IInv

(* The inductive invariant of any number of runs of the bootstrap, at the  *)
(* same time or one after the other, with requests that arrive late.       *)
THEOREM BootstrapInvariance == Spec => []IInv
<1>1. IInv /\ [Next]_vars => IInv'
  BY TypesKept, ListedKept, ProgressKept, SentKept, OrderKept, AgreementKept DEF IInv
<1> QED
  BY <1>1, InitiallyInv, PTL DEF Spec

(* Type correctness, for every number of operators, catalogs and starts.   *)
THEOREM BootstrapTypeCorrect == Spec => []TypeOK
<1>1. IInv => TypeOK
  BY DEF IInv
<1> QED
  BY <1>1, BootstrapInvariance, PTL

(* A bootstrap that reports success left its catalog in AgentStore         *)
(* (bootstrap.go:49-95), whoever else ran at the same time.                *)
THEOREM SuccessMeansPublishedTheorem == Spec => []SuccessMeansPublished
<1>1. IInv => SuccessMeansPublished
  <2> SUFFICES ASSUME IInv, NEW p \in Runs, pc[p] = "done"
               PROVE  /\ ContractsUpTo(p, Len(ContractList))
                      /\ AgentsUpTo(p, Len(AgentList))
    BY DEF SuccessMeansPublished, CatalogIsActive, ContractsUpTo, AgentsUpTo
  <2>1. /\ ContractsUpTo(p, Len(ContractList)) /\ AgentsUpTo(p, at[p] - 1)
        /\ at[p] > Len(AgentList) /\ at[p] \in Nat
    BY DEF IInv, TypeOK, Progress, PastContracts
  <2> QED
    BY <2>1, Lists DEF AgentsUpTo
<1> QED
  BY <1>1, BootstrapInvariance, PTL

(* What is registered of a version is a beginning of the list, of which at *)
(* most the last is not published (lines 73-82).                           *)
THEOREM PublishedInOrderTheorem == Spec => []PublishedInOrder
<1>1. IInv => PublishedInOrder
  BY DEF IInv
<1> QED
  BY <1>1, BootstrapInvariance, PTL

(* A version was imported against the contracts AgentStore has (lines      *)
(* 45-59), although the list of them is read once.                         *)
THEOREM VersionsAgreeTheorem == Spec => []VersionsAgreeWithContracts
<1>1. IInv => VersionsAgreeWithContracts
  BY DEF IInv
<1> QED
  BY <1>1, BootstrapInvariance, PTL

(* A run whose catalog is active finds it so: what it listed still stands, *)
(* and what it looks up now is there, published, with the digest it wants. *)
THEOREM RerunsAreIdempotentTheorem == Spec => RerunsAreIdempotent
<1> DEFINE Recognised ==
      \A p \in Runs : CatalogIsActive(p) /\ pc'[p] # pc[p] =>
        pc'[p] \notin {"drift", "importing"}
<1>1. ASSUME IInv, NEW q \in Runs, CatalogIsActive(q), pc'[q] # pc[q],
             pc'[q] \in {"drift", "importing"}, NEW p \in Runs, Run(p)
      PROVE  FALSE
  <2>1. pc \in [Runs -> Places] /\ at[q] \in Nat \ {0}
    BY <1>1 DEF IInv, TypeOK
  <2>2. p = q /\ (ContractExists(q) \/ ImportManifest(q) \/ AgentExists(q) \/ Compare(q))
    BY <1>1, <2>1 DEF Run, Start, List, ContractExists, CreateContract,
       ContractCreated, ContractsSettled, ImportManifest, Publish, Published,
       AgentExists, Compare, Finish, Fail, Go, Request
  <2>3. CASE ContractExists(q)
    <3>1. at[q] \in 1..Len(ContractList) /\ listed[q][ContractAt(at[q])] # NoData
      BY <2>1, <2>3, Lists DEF ContractExists
    <3>2. listed[q][ContractAt(at[q])] = Catalogs[q].contract[ContractAt(at[q])]
      BY <1>1, <3>1, Lists DEF CatalogIsActive, IInv, ListedStands
    <3> QED
      BY <1>1, <2>3, <3>2 DEF ContractExists, SameContract
  <2>4. CASE ImportManifest(q) \/ AgentExists(q) \/ Compare(q)
    <3>1. at[q] \in 1..Len(AgentList)
      BY <1>1, <2>1, <2>4, Lists DEF ImportManifest, AgentExists, Compare, IInv, Progress
    <3>2. version[AgentAt(at[q])][Catalogs[q].semver] =
            [status |-> "ACTIVE", digest |-> Catalogs[q].digest[AgentAt(at[q])]]
      BY <1>1, <3>1 DEF CatalogIsActive
    <3>3. /\ Found(AgentAt(at[q])) /\ HasActiveVersion(q, AgentAt(at[q]))
          /\ SameManifest(q, AgentAt(at[q]))
      BY <3>2, Lists DEF Found, HasActiveVersion, SameManifest
    <3> QED
      BY <1>1, <2>1, <2>4, <3>3 DEF ImportManifest, AgentExists, Compare, Go
  <2> QED
    BY <2>2, <2>3, <2>4
<1>2. ASSUME NEW m \in wire, ServeCreate(m) \/ ServeImport(m) \/ ServePublish(m) \/ Lose(m)
      PROVE  UNCHANGED pc
  BY <1>2 DEF ServeCreate, ServeImport, ServePublish, Lose, Reply
<1>3. IInv /\ [Next]_vars => Recognised
  BY <1>1, <1>2 DEF Next, vars
<1> QED
  BY <1>3, BootstrapInvariance, PTL DEF Spec, RerunsAreIdempotent

=============================================================================
