# TLA+ specifications of demo-agent

demo-agent is a Go resource server: agents that are invoked over HTTP, paid for by x402, and
composed by AgentStore, which calls back into this very server for the dependencies of an
aggregating agent. A second command, `catalog-bootstrap`, registers the server's catalog with
AgentStore. This directory models both with TLA+, checks the models with TLC and proves the most
important results with TLAPS. File names and line numbers are relative to the repository (`src/`).

## The system

| component | code | state | operations | properties that make it correct |
|---|---|---|---|---|
| runtime callback client | `internal/runtime/client/callback_client.go` | per call: goroutines, result channel, contexts, the map of results | `Invoke`, `invokeDependency` | a returned map is complete and filed under the right codes; the reported error is a root cause; no goroutine is left; it always returns |
| settlement retries | `internal/payment/x402/retrying_facilitator_client.go` | attempt, context | `Settle` | a payment is never in two unresolved attempts; "refused" means not charged, now and later |
| nested deadlines | `callbackTimeout`, `InvocationTimeout` | one deadline per level of the execution graph | arm, expire | a deadline hits only who overran its own budget; callers outlive callees |
| paid invocation | `server`, `agent/controller`, `agent/service`, `payment/x402/middleware.go` | per request: stage, response, payment | verify, decode, resolve, generate, settle | who is charged got an answer, who got an answer was charged, only aggregating agents spend, every request is answered |
| agents | `agent/service/openai_agent.go`, `fixture_agent.go` | none between requests | `Invoke`, `resolveDependencies`, source collection, the answer of a fixture root | the random order of a Go map and the caps on sources do not decide the outcome |
| OpenAI client | `agent/client/openai_client.go` | none | `Generate`, `sourcesFrom`, `normalizeSchemaForOpenAI` | sources are distinct, accepted and capped; the schema is copied whole but for `format`, and never shared |
| catalog bootstrap | `internal/bootstrap/bootstrap.go` | the list of contracts it read, its place in the catalog; AgentStore keeps the rest | `Bootstrap` | success means published; a failure leaves at most one agent half registered; versions agree with contracts |
| catalog | `catalog/catalog.go` | constant after `Parse` | `Parse`, schema validation | references resolve, codes are unique, agents answer under the contract that is registered; the verdict on a schema does not depend on the order of a map |
| configuration | `internal/config` | constant after `Load` | `Load` | precedence flag, environment, file; what is accepted serves; products of durations are exact |
| wiring | `internal/app`, `cmd` | allowed origins, priced routes | start, stop, restart | callbacks go to configured origins only; the server asks payment for what AgentStore lists |

The interactions: a user's request passes the payment middleware, the controller, the service and
an agent. An aggregating (root) agent has the callback client POST one callback per dependency to
AgentStore, in parallel; AgentStore pays for and invokes each dependency, in general an agent of
this server. After the handler the middleware settles the payment through the facilitator, with
the retrying client. Nothing is persisted by the server: what survives is on chain and in AgentStore.

The hard behaviours: goroutines that report over one channel while the receiver may leave;
cancellation that races with answers and deadlines; deadlines nested five deep; payments whose
outcome is unknown; requests that wait for requests to the same server; a bootstrap whose requests
are carried out late, or while another operator's run is under way; recursions and loops over Go
maps, whose order is random; durations that wrap around; texts of origins that are checked in
several places. `PROJECT.json` lists the
hazards with their lines and the properties that would catch them.

## Modules

| module | models | proofs | runs |
|---|---|---|---|
| `ScatterGather` | abstract: several calls, one outcome: all outputs, an error that happened, or a refusal | - | as a property |
| `CallbackClient` (`MCCallbackClient`) | one call of `Invoke` | `CallbackClientProofs` | `callback_invoke` |
| `SettlementPromise` | abstract: a payment is charged at most once and a verdict about it is never wrong | - | as a property |
| `Settlement` | one call of `Settle` | `SettlementProofs` | `settlement_retries` |
| `DepthBudget` | nested deadlines in discrete time | `DepthBudgetProofs` | `depth_budget` |
| `PaidInvocation` (`MCPaidInvocation`) | the tree of paid requests; composes `ScatterGather`, and settles by the rules of `SettlementPromise` | `PaidInvocationProofs` | `paid_tree` |
| `SourceCollection` (`MCSourceCollection`) | from the links a search finds to the sources an answer cites | `AgentProofs` | `source_caps` |
| `FixtureAgent` (`MCFixtureAgent`) | the answer of an agent in fixture mode | `AgentProofs` | `fixture_order` |
| `CatalogBootstrap` (`MCCatalogBootstrap`) | runs of the bootstrap against one AgentStore | `CatalogBootstrapProofs` | `bootstrap_race`, `bootstrap_rerun` |
| `Catalog` (`MCCatalog`) | `Parse`: contracts, agents, references, the sort | `CatalogProofs` | `catalog_parse` |
| `CatalogSchema` (`MCCatalogSchema`) | the walks through the schemas of a contract, to validate them and to copy one for OpenAI | `CatalogProofs` | `schema_walk` |
| `Startup` (`MCStartup`) | configuration, constructors, stop and restart, and the manifests of the bootstrap | `StartupProofs` | `startup_restart`, `startup_wrap` |

Refinements hold the project together. `CallbackClient` implements `ScatterGather` and `Settlement`
implements `SettlementPromise`, and `PaidInvocation` uses only what these two promise. For the
callbacks, which in the tree are steps of other nodes, this is a property of its own
(`CallbacksKeepPromise`): what each node sees of its callbacks is a behaviour of `ScatterGather`.
For the payment there is nothing to check in the tree: its actions `Conclude` and `Charge` are the
rules of `SettlementPromise`, taken over as an assumption about `Settle`, and it is
`KeepsPromise` of `Settlement` that discharges it. So the composition is about components whose
detailed models have been checked by themselves.

In a module, an operator that stands directly before another one and has a name that says what is
wrong (`ShortChannelCapacity`, `AnyManifest`, `NeverExpires`) is a plausible bug of the definition
it precedes. It is used by no specification; `PROJECT.json` names it as the change under which one
of the properties is violated, which shows what the property is sensitive to.

Every module has a type invariant (`TypeOK`; `ParseTypeOK` in `Catalog` and `FixtureTypeOK` in
`FixtureAgent`, which share a proof module with a neighbour and have names of their own). TLAPS
proves each of them for all constants, and the runs do not check it again.

### CallbackClient

The processes are the goroutine that called `Invoke`, one goroutine per dependency, the caller's
context and AgentStore. `phase` is the calling goroutine's program counter (URL validation line
63-66, spawning 78-92, receiving 94-103), `pc[d]` that of goroutine d: encode, check the size,
compute the timeout (109-137), dial, wait for the head, read the body (138-167), deliver to
`resultChannel` (86-91). `Cancelled` is `cancel()` after the first error and on return. A request
may still leave after the cancellation, an abandoned one may still be carried out, and answers,
deadlines and cancellations race in every order. A payload is the number of its dependency, so
`results[c] = d` says whose output is filed under code c.

- `SuccessIsComplete`, `ResultsMatchCodes`: a returned map lacks nothing and mixes up nothing,
  whatever the order of arrival. A dependency without a code is carried out and its output dropped;
  of two dependencies with one code the later arrival wins. Both are what the code does.
- `ReportedErrorIsARootCause`: Invoke does not report the cancellation it caused itself.
- `SendersNeverBlock`: the buffer of the channel is what lets siblings end.
- `NoResultIsAwaitedInVain`: the loop counts results, so each it waits for must be in the channel or
  owed by a goroutine that goes on: the part of `InvokeEnds` that is safety and can be proved.
- `ScattersAndGathers`: the refinement of `ScatterGather`.
- `InvokeEnds`: if deadlines fire, Invoke returns and every goroutine ends; `FailureStopsSiblings`
  and `CancellationReturns` hold without any deadline's help.

Bounds: two codes, up to three dependencies of six kinds (sound, same code, no code, no call path,
too deep, too big), a depth limit of two instead of five - only "within" and "beyond" are told
apart. Three dependencies are enough to have one sibling fail while one is in flight and one has
delivered.

Fairness: the Go scheduler runs every goroutine that can take a step (`Scheduling`). That an armed
deadline fires (`Deadlines`; `context.WithTimeout`, line 126) is a premise of `InvokeEnds` alone,
so that the other two cannot lean on it. Nothing is assumed of AgentStore, the network or the
caller. `Prepare` includes `net.LookupIP`, which runs before the request and does not know the
context (line 240); that it ends, by the resolver's own timeouts, is an assumption.

### Settlement

`Settle` with its attempts, the wait between them (whose `select` may take the timer although the
context is done) and its verdict. The facilitator and the chain are external, with these
assumptions: the nonce of a signed payment lets one transfer happen; a reply that says the
transaction failed is about a transfer that did not happen; every other failure, an error or a lost
answer says nothing, and the transfer may still follow. `RefusalIsFinal`, `OneAttemptUnresolved`
and `DelayExists` are the safety of the loop, `KeepsPromise` the refinement of
`SettlementPromise`. `SettleReturns` needs that the context ends (the middleware's timeout) and
that a call under a dead context returns; nothing of the facilitator.
Bound: five delays, where the code has two.

### DepthBudget

One branch of the execution graph, of the callbacks in parallel the one the caller waits for
longest, in discrete time: `elapsed[k]` since the invocation at depth k began, `own[k]` what of it
was not spent waiting. A deadline fires when its time is reached; time cannot pass it. The two
safety properties are the promise of README.md ("the budget of one node is 30 seconds"): only who
spends a whole budget by itself is cut off, and a caller within its budget outlives its callback,
without which signed payments go to reconciliation (HANDOFF.md:78). `InvocationEnds` assumes that
time passes and deadlines fire. Bounds: depth five, as in the code; a budget of two ticks, so that
an invocation can be within, at and - before the deadline of the next level - beyond its budget.
The proofs are for every budget and depth.

### PaidInvocation

A node is one request. `stage[n]` follows the handler chain: the middleware verifies the payment,
the controller decodes the body, the service looks the agent up and decides whether it may resolve
dependencies, the agent gathers and generates, the middleware settles and releases the answer.
Fixture and OpenAI agents take the same steps. The x402 library is external: its use here is that
it verifies before the handler, settles after it below status 400, answers 402 when either fails,
and passes routes without a price. `Dispatch` is AgentStore invoking a dependency, perhaps after
the caller gave the callback up; a callback may fail for any reason while it is waited for.
`Charge` is the transfer, which may follow long after the verdict "unknown".

- `OnlyAnswersAreCharged`: no charge without an answer, and for an aggregating agent no charge
  unless every dependency answered and was charged for. (The converse does not hold, by design of
  the code: dependencies may have been paid for when the aggregating agent then fails.)
- `AnswersArePaidFor`: an answer of a priced agent was paid for, and so were those that went in.
- `OnlyAggregatesSpend`: a `runtime` part makes no specialist call anybody.
- `RefusedRequestsSpendNothing`: below a request that was refused, for its payment, its body or its
  callbacks, nothing was ever set in motion or charged. A root and all its callers pay for what they
  call, so the order of verification, decoding and callbacks is what keeps a refusal free.
- `CallbacksKeepPromise`: each node's callbacks are a behaviour of `ScatterGather`.
- `EveryRequestIsAnswered`, up the tree.

Bounds: a tree of six nodes and three levels: a root over an aggregating agent with a dependency of
its own, a specialist whose request lists a dependency, and an agent the server does not know.
Fairness: the handler goes on (the model and the facilitator are called under the middleware's
`InvocationTimeout`), a callback that is waited for ends (`callbackTimeout`). AgentStore need not
dispatch anything, the chain need not transfer anything.

### SourceCollection

A specialist passes over the links of its response (`sourcesFrom`), makes a source of each one it
accepts, keeps one per URL up to a cap, and answers only with enough; the aggregating agent visits
the results in the random order of a Go map, makes sources of them in its own way, again one per
URL under a cap of its own, and answers only with enough. What a layer makes of a link is a partial
function, `ClientSource` for `sourceFromAnnotation` and `RootSource` for `verifiedSource`; its
domain is what the layer accepts. The two differ: only the specialist takes credentials in a URL
and takes angle brackets off a title; it replaces an empty title by the host; and the aggregating
agent does not accept every title that it makes. The one thing assumed of them together
(`RewritingAssumption`) is that a URL the specialist has written, the aggregating agent writes in
the same way: both use net/url, and drop the fragment. And yet:

- `OrderDoesNotDecide`: whether there are sources enough is decided by the URLs of all the verified
  sources, not by the order of the map, the caps, or the title a page comes with first.
- `CitationsAreVerified`: what is cited was verified, in a number within the limits, no page twice,
  whatever agents of the marketplace return.
- `OneSpecialistSuffices`: the two counts fit, for a specialist all of whose sources the
  aggregating agent accepts. The run's links with credentials show that the condition is real: with
  them, two specialists may each answer with three sources and the aggregating agent still refuse.
  That the caps are not below the minimum is assumed (`CapsAssumption`), as they are in the code.

Lists of sources are sets here, so which links of a long list are left out, and which of two titles
of a page, is any choice. Bounds: the code's minimum 3 and caps 5 and 5; thirteen links to pages of
which some differ in fragment or title only, one with a title each layer cleans up differently, one
with credentials and one without TLS; lists of up to six.

### CatalogBootstrap

Operators (`Runs`) start the command, fail at any step and start again; `wire` holds the requests
AgentStore has not carried out. AgentStore is external and assumed to refuse a second creation of a
contract or version, to keep an imported version as a DRAFT until it is published, and to compute a
digest from the manifest only. A request is carried out once or never, at any time after it was
sent, also after the run that sent it ended. The catalog's contents are values; rendering is the
digest; `validate` is a request without an effect and has no action.

- `SuccessMeansPublished`: a run that reports success left exactly its catalog behind, whoever else
  ran; it rests on AgentStore refusing duplicates.
- `PublishedInOrder`: at most one agent of a version is left half registered, however many runs
  failed. `VersionsAgreeWithContracts`: nothing is imported against other contracts, although the
  list of contracts is read once and may be stale.
- `RerunsAreIdempotent` (in `bootstrap_rerun`): a run whose whole catalog is active neither calls it
  drift nor imports anything, at whatever place it is when the catalog became so, and whatever other
  versions are there. HANDOFF.md:29-31 promises this of a rerun with an equal ACTIVE digest, and no
  more: after a failure between import and publish a rerun stops at the draft (bootstrap.go:83-86,
  and HANDOFF.md:51 reports such drafts being deleted by hand), which `PublishedInOrder` takes into
  account.

Bounds: one contract, two agents, and three operators, who start at most twice. In `bootstrap_race`
the catalogs of two differ in a manifest, and the third has another contract and another agent
version. In `bootstrap_rerun` two operators register versions of the same agents, and a third has
the catalog of the first but no token. Two operators that contend for each item are enough
for a run to be overtaken between any two of its requests, and two starts for a rerun that meets its
predecessor's late requests; the proofs cover longer catalogs and more operators. No liveness is
claimed: the command has no timeout.

### Catalog

`Parse` takes the contracts in the order of the file, then the agents, then sorts the contracts in
place. A contract's version is filled in before it is copied into the map, and an agent is
completed from the map. What is only checked to be present or well-formed (names, prices,
addresses, strategies, fixtures) is the Boolean `sound` of an entry. Sorting is any permutation that
is sorted: `sort.Slice` is not stable, which does not matter since codes are unique by then. Between
the passes `index` starts anew; `pass` names the loop, the sort, or how `Parse` ended.

- `DefinitionsMatchContracts`: agents answer under the contract the bootstrap registers, with the
  version the manifest names, although contracts are changed through a pointer and moved later.
- `ParseIsExact`: entries are checked one by one, against those seen so far; still a catalog is let
  through exactly when the whole of it is well-formed, whatever the order of its lists. In
  particular, codes are unique and references resolve in what is let through. The registry, the
  middleware's routes and `Definitions`, which panics, rely on it, and so does the assumption
  `ParsedCatalog` of `CatalogBootstrap`.

Bounds: lists of up to three contracts and two agents, with duplicates, unknown references and both
roles with and without dependencies: every reason to refuse, in every position.

### CatalogSchema

A schema is a function from paths to "map", "list" or a scalar; a schema that is missing has no
paths. `here` is the path of the value the recursion is in, `visited` the paths it came to: the
recursion is a walk, so no recursive operator is needed and the order of a Go map is the choice of
the next child. A schema that is missing, that JSON has no form for (`.inf`) or that is too large is
refused before the walk. Validation stops at the first offence (depth, a reference that is not
local), then the type and the response format are checked; afterwards the contract is used any
number of times, each time to build `payload`, a copy of the schema without `format`, value by
value. `contract` is the memory all these requests share, and a variable, so a walk that
deleted from it would be seen; `parsed` is what it was read from.

- `VerdictIsExact`: a contract is accepted exactly when both schemas are sound, in every order.
- `PayloadIsExact`: the contract in memory stays as it was parsed, and each request's copy has
  exactly the values of the parsed schema that are not below a key `format` of a map. The mutant
  deletes in place instead of leaving out of the copy. That every key `format` of a map goes is what the
  code does; a property that happens to be called `format` is removed too, while `required` may go
  on listing it. HANDOFF.md:81-82 speaks of the JSON Schema keyword only; no contract of the
  embedded catalog has such a property.

The size limit counts values, not bytes (the code: 64 KiB); the root has depth 1, as in the code.
Bounds: a depth limit of seven instead of 32 and a size limit of 25 values, with schemas at and
beyond each limit; the proofs are for all limits.

### FixtureAgent

A root in fixture mode ranges over a map, sorts the codes and writes a line for each result:
`RangeOver` moves a code from `remaining` to `codes`, `Sort` takes any sorted arrangement of them.
`SameResultsSameAnswer` compares two invocations: the random order does not show.
`EveryResultIsNamed`: every dependency that was paid for has one line, with a summary or the
replacement for a missing one. Bounds: two invocations, three codes, results of four shapes.
Markdown around the lines is left out.

### Startup

`Load` puts together file, environment and flags and checks the result; `New` builds the callback
client and the middleware's routes from it; `Callback` is `validateCallbackURL` and
`callbackTimeout` of the running process; `Stop` is a shutdown or crash, after which the process may
start with another configuration. `Bootstrap` renders the manifests from the two flags of
`catalog-bootstrap`; whose registration lasts is the subject of `CatalogBootstrap`. Texts of URLs
are records of what the checks tell apart (scheme, host, their case, credentials, what follows the
host, a fragment included); durations are words of `2 * Half` values that wrap around, so that every
multiplication of the code is one modulo the word.

- `AcceptedConfigurationServes`: the second validation of origins, and of the timeout, refuses
  nothing that the first let through.
- `OnlyConfiguredOrigins`: a callback, with its bearer token and payment, goes to an origin of the
  running configuration, not of an earlier one, whatever the spelling of the URL, and without
  credentials in it.
- `DeadlinesAreExact`: the check of the product by a quotient is enough for every multiple of the
  timeout per depth that the process computes later, at all depths. It says nothing of the timeout
  per depth itself, which is a product too: that is the subject of `startup_wrap`.
- `AdvertisedAsServed`: with the same origin given to both commands (nothing compares
  their settings), the resource for which payment
  is asked is the endpoint that AgentStore lists. The scheme has to be in lower case: the bootstrap
  writes the origin anew and the server does not (`HTTP://` in DEMO_AGENT_PUBLIC_BASE_URL stays).
- `BudgetIsAsConfigured` (in `startup_wrap`) is violated: seconds are multiplied by `time.Second`
  before any check (application_config.go:137), so about 9.2e9 seconds wrap, and some larger values
  are accepted with a small budget instead of being reported as invalid.

An allowed origin that ends in "?" with no query is accepted and becomes a text no callback URL is
equal to: it admits nothing, which is safe, and the models include it.

Bounds: one sound file and every way to change one thing about it; a second of 10 in words of
256 values, so that a number of seconds fits, wraps in the product, or wraps to a small positive or
a negative value. The proof of `DeadlinesAreExact` is for every word and every second.

## What is proved

TLC checks the instances above; TLAPS proves the following for all values of the constants that
satisfy the modules' `ASSUME`s: the sizes and limits are natural numbers, the inputs have the shape
that the decoder of JSON or YAML gives them (a list is finite, so is a schema, an entry of
agents.yaml has none of the fields `Parse` fills in), dependencies form a tree, a trimmed summary is
a text. Each proof is of the same form: an inductive invariant holds initially and is preserved by
every action (one lemma per action or group of actions), and implies the property.

- `CallbackClientProofs`: type correctness, `SuccessIsComplete`, `ResultsMatchCodes`,
  `SendersNeverBlock`, `NoResultIsAwaitedInVain`, `ReportedErrorIsARootCause`, and the refinement
  `ScattersAndGathers`. None is inductive: the invariant says what the program counters, the entries
  of the channel, the number received and the filed results say of each other - every result is in
  exactly one place, once, so that counting what was received is counting who answered.
  `NoResultIsAwaitedInVain` follows by cardinalities: those who did not exit are what the exited
  ones leave of the list.
- `SettlementProofs`: type correctness, `RefusalIsFinal`, `OneAttemptUnresolved`, `DelayExists` and
  the refinement `KeepsPromise`, for every number of retries. The invariant: all attempts before
  the current one failed explicitly, all later ones are unsent.
- `DepthBudgetProofs`: type correctness, `OnlyOverrunnersTimeOut`, `CallerOutlivesCallback`, for
  every budget and depth. The invariant (`Accounted`): time is spent by an invocation itself or by
  the one it waits for, whose allowance is one budget less.
- `PaidInvocationProofs`: type correctness, `OnlyAnswersAreCharged`, `AnswersArePaidFor`,
  `OnlyAggregatesSpend`, `RefusedRequestsSpendNothing`, `CallbacksKeepPromise`, for every tree. The
  invariant: `Ordered` says of every stage what must have happened to get there, `Spending` who may
  have called anybody, and that a refused request called nobody; for the callbacks `Told` adds that
  a node which was told the outcome has left the place where it waits for it. Every step of the tree
  is then a step of one node's `ScatterGather` and a stutter of all others, since a callback belongs
  to one node. `DecisionsAreFinal`, about every step: no request goes back, and a response, an
  answer, a charge, a verdict or the fate of a callback is never changed once it is there.
- `AgentProofs`, on `SourceCollection`: type correctness, `OrderDoesNotDecide`, `CitationsAreVerified`,
  `OneSpecialistSuffices`, for all links, dependencies, ways to make sources that satisfy
  `RewritingAssumption`, and caps not below the minimum. The invariant (`Gathering`): every URL that
  was visited is collected, once, or the cap is reached; sources with distinct URLs are as many as
  their URLs (`URLCounts`), so counting sources is counting URLs, whatever the titles.
  On `FixtureAgent`: type correctness, `SameResultsSameAnswer`, `EveryResultIsNamed`, for any number
  of invocations, results and codes. The invariant (`FixtureIInv`): the slice has each result ranged
  over once, and the lines follow the slice. That the answers are the same then needs that a finite
  set of codes has only one arrangement in order (`OneOrder`): where two arrangements first differed
  (the least such position, by `NatLessThanWellFounded`) one would lack the other's code.
- `CatalogBootstrapProofs`: type correctness, `SuccessMeansPublished`, `PublishedInOrder`,
  `VersionsAgreeWithContracts` and `RerunsAreIdempotent`, for all operators, catalogs and numbers of
  starts. The invariant has to say which requests on the wire can still change what a run relies on:
  `Sent` (a request was sent by a start that had come so far), `Progress` (what a run passed is in
  AgentStore), and that AgentStore only grows - a contract and a version's digest never change, an
  ACTIVE version stays. What a run once saw confirmed is therefore still true when it reports
  success, and what it listed agrees with what it looks up when its catalog is active.
- `StartupProofs`: type correctness, `AcceptedConfigurationServes`, `OnlyConfiguredOrigins`,
  `DeadlinesAreExact`, `AdvertisedAsServed`, for every configuration, word size and length of a
  second. Lemmas about `Wrap` show that a number whose quotient is the depth is the exact product,
  and that all smaller products fit. The invariant adds to type correctness that the process runs
  under an input that was accepted, and that what was called and rendered was let through.
- `CatalogProofs`, on `CatalogSchema`: type correctness, `VerdictIsExact`, `PayloadIsExact`, for all
  schemas, limits and orders. The invariant: what was visited is closed under parents and sound,
  what the recursion has left is visited completely below, and the copy has the visited values that
  are not left out, as the contract in memory and its source have them. That a walk which is back at
  the root with nothing left has been everywhere is an induction over paths, done with a path of
  least length that was not visited (`NatLessThanWellFounded`), since the library's induction
  theorems take an operator and cannot be used here. `WalkShrinks`, about every step: two for each
  value that was not visited plus the depth the recursion is at get fewer, so a walk through a
  finite schema ends.
  On `Catalog`: type correctness, `DefinitionsMatchContracts`, `ParseIsExact`, for every document.
  The invariant (`ParseIInv`) says of the entries before `index` that they are valid, that the map
  of contracts and the set of codes hold them and nothing else, with the version, format and flags
  filled in, and of a refused document that it is not well-formed. The checks look at prefixes,
  `WellFormed` at whole lists: an offence found in a prefix stays one in the whole, and at the end
  of a loop the prefix is the list. The sort is a bijection of positions; it keeps which contracts
  there are, and, since codes are unique by then, where they are found.

Only model-checked: the liveness properties `InvokeEnds`, `FailureStopsSiblings`,
`CancellationReturns`, `SettleReturns`, `InvocationEnds` and `EveryRequestIsAnswered`, since the
prover handles neither liveness under fairness nor ENABLED. Every other property of a passing run is
a theorem. `BudgetIsAsConfigured`, which a run finds violated, is false and has none.

## Findings

- `startup_wrap`: seconds wrap before the check of the product (application_config.go:137).

## Not modelled

- Address pinning and TLS of callbacks, UUIDs, headers, JSON shapes: a request leaves or does not,
  an answer is one of the kinds the client tells apart.
- A slow DNS lookup, idle connections of the transports, the missing timeout of the bootstrap's
  HTTP client: listed as hazards without a property, with the reason.
- Prompts, Markdown layout, the parameters of OpenAI requests other than the schema: formatting of
  values that no property tells apart.
- Which dependencies of a failing aggregating agent were paid: `OnlyAnswersAreCharged` protects the
  user and all callers; the cost of a dependency whose answer is dropped is spent, and who bears it is
  decided in AgentStore. The same goes for outputs filed under equal or empty codes.
- Reading and decoding the configuration file, the order in which `Load` checks it, the constructors
  that only refuse nil, the HTTP listener and its shutdown by signal: one atomic `Load`, `New` or
  `Stop`.
- The contents of agents.yaml: which fields they lack or have is one Boolean of an entry in `Catalog`.

## Plan

Done, in this order: callback client and its abstract specification; settlement and its promise;
the composition in a tree of paid invocations; the bootstrap; nested deadlines; source collection;
their proofs, with those of the bootstrap and of `CallbacksKeepPromise`; configuration and start;
the catalog and its schemas; the fixture agents; proofs of all their safety properties, and of
what no step takes back (`DecisionsAreFinal`) or makes longer (`WalkShrinks`).

What could follow, in order of weight:

1. `DepthBudget` with callbacks in parallel, and its timeouts tied to the `Deadlines` of
   `CallbackClient`.
2. A bound on the steps of a call of `Invoke`, by a sum over its goroutines, as the safety part of
   `FailureStopsSiblings`; the same for the bootstrap's walk through the catalog.
3. The assumption `ParsedCatalog` of `CatalogBootstrap` derived from `ParseIsExact` by a module
   that has both, instead of by name.

## Running

`tlc -config <cfg> <module>` for each run of `PROJECT.json` (`CallbackClient_invoke.cfg` with
`MCCallbackClient`, `Settlement_retries.cfg` with `Settlement`, `DepthBudget_nested.cfg` with
`DepthBudget`, and so on), `tlapm <module>` for each module ending in `Proofs`. The runs take from
a second to two minutes (`bootstrap_race`, with 4.5 million states, `callback_invoke` and
`paid_tree`, both for their liveness properties). Deadlock checking is
off everywhere: all of these calls end, and a finished call has no next step.
