--------------------------- MODULE PaidInvocation ---------------------------
(***************************************************************************)
(* A tree of paid invocations.  POST /agents/:code/invoke passes the body  *)
(* limit, the x402 middleware, the controller, the service and an agent;   *)
(* an aggregating agent resolves its dependencies through AgentStore,      *)
(* which pays and invokes other agents of this very server.                *)
(*                                                                         *)
(* Two components enter by what they promise: the callbacks of an          *)
(* aggregating agent are those of ScatterGather, the settlement of a       *)
(* payment is the one of SettlementPromise.  AgentStore, the middleware's  *)
(* library and the language model are external.  The middleware verifies   *)
(* the payment, runs the handler, and settles only below status 400; it    *)
(* knows the routes of the registered agents and lets the others pass.     *)
(*                                                                         *)
(* A node is one invocation; the fixture and the OpenAI agents take the    *)
(* same steps, the fixture's never fail to generate.                       *)
(***************************************************************************)
EXTENDS Naturals, Sequences, Functions

CONSTANTS
  Nodes,       \* invocations
  Root,        \* the invocation a user pays for
  NoNode,      \* not a node: the code of a call path that gives none
  Children,    \* the dependencies a node's request lists, in order
  Registered,  \* nodes whose agent code is in the catalog
  Aggregates,  \* nodes whose agent has AggregateMarkdown
  Requests     \* per node, the request bodies it may carry

ASSUME TreeAssumption ==
  /\ Root \in Nodes /\ NoNode \notin Nodes
  /\ \A n \in Nodes : Children[n] \in Seq(Nodes \ {Root}) /\ IsInjective(Children[n])
  /\ \A n, m \in Nodes : n # m => Range(Children[n]) \cap Range(Children[m]) = {}
  /\ Registered \subseteq Nodes /\ Aggregates \subseteq Registered
  /\ Requests \in [Nodes -> SUBSET {"invalid", "empty", "runtime"}]

VARIABLES
  request,   \* per node: not JSON or too long, without or with a runtime part
  stage,     \* where an invocation is
  status,    \* the HTTP status that was sent, 0 before
  output,    \* what the handler produced
  gathered,  \* what Invoke of the callback client returned to a node
  fate,      \* per node, how the callback for it ended
  charged,   \* the payment of a node was transferred
  verdict    \* what the middleware knows of a node's settlement

vars == <<request, stage, status, output, gathered, fate, charged, verdict>>

Stages == {"absent", "verifying", "decoding", "resolving", "generating",
           "settling", "responded"}

Init ==
  /\ request \in {r \in [Nodes -> UNION {Requests[n] : n \in Nodes}] :
                    \A n \in Nodes : r[n] \in Requests[n]}
  /\ stage = [n \in Nodes |-> IF n = Root THEN "verifying" ELSE "absent"]
  /\ status = [n \in Nodes |-> 0]
  /\ output = [n \in Nodes |-> "none"]
  /\ gathered = [n \in Nodes |-> "pending"]
  /\ fate = [n \in Nodes |-> "open"]
  /\ charged = [n \in Nodes |-> FALSE]
  /\ verdict = [n \in Nodes |-> "pending"]

Kids(n) == Range(Children[n])

payments == <<charged, verdict>>
calls == <<gathered, fate>>

Enter(n, place) == stage' = [stage EXCEPT ![n] = place]

Respond(n, code) ==
  /\ Enter(n, "responded")
  /\ status' = [status EXCEPT ![n] = code]

(* The handler's success reaches the middleware, which settles the payment *)
(* before it lets the answer of a route with a price out.                  *)
SucceedUnsettled(n, value) ==
  /\ output' = [output EXCEPT ![n] = value]
  /\ Respond(n, 200)
Succeed(n, value) ==
  /\ output' = [output EXCEPT ![n] = value]
  /\ IF n \in Registered
     THEN Enter(n, "settling") /\ UNCHANGED status
     ELSE Respond(n, 200)

------------------------------------------------------------------------------
(* dependencyResolver and resolveDependencies: only an aggregating agent   *)
(* whose request has a runtime part resolves dependencies.                 *)
AnyAgentResolves(n) == request[n] = "runtime" /\ n \in Registered
Resolves(n) == request[n] = "runtime" /\ n \in Aggregates

(* The middleware verifies the payment; a route without a price is free.   *)
VerifyMeanwhile(n) ==
  /\ stage[n] \in {"verifying", "resolving"}
  /\ \/ stage[n] = "verifying" /\ Enter(n, "decoding") /\ UNCHANGED status
     \/ n \in Registered /\ Respond(n, 402)
  /\ UNCHANGED <<request, output, calls, payments>>
Verify(n) ==
  /\ stage[n] = "verifying"
  /\ \/ Enter(n, "decoding") /\ UNCHANGED status
     \/ n \in Registered /\ Respond(n, 402)
  /\ UNCHANGED <<request, output, calls, payments>>

(* ShouldBindJSON; an empty body is fine.                                  *)
RefuseBody(n) ==
  /\ stage[n] = "decoding" /\ request[n] = "invalid"
  /\ Respond(n, 400)
  /\ UNCHANGED <<request, output, calls, payments>>

(* The registry answers for a code it does not know.                       *)
UnknownAgent(n) ==
  /\ stage[n] = "decoding" /\ request[n] # "invalid"
  /\ n \notin Registered
  /\ Succeed(n, "unknown-agent")
  /\ UNCHANGED <<request, calls, payments>>

StartAgent(n) ==
  /\ stage[n] = "decoding" /\ request[n] # "invalid"
  /\ n \in Registered
  /\ Enter(n, IF Resolves(n) THEN "resolving" ELSE "generating")
  /\ UNCHANGED <<request, status, output, calls, payments>>

(* Invoke of the callback client, by what ScatterGather promises of it:    *)
(* all outputs, an error of some callback, or a refusal before any.        *)
SomeDependencyAnswered(n) ==
  Kids(n) = {} \/ \E c \in Kids(n) : fate[c] = "answered"
DependenciesAnswered(n) == \A c \in Kids(n) : fate[c] = "answered"

DependenciesResolved(n) ==
  /\ stage[n] = "resolving"
  /\ DependenciesAnswered(n)
  /\ gathered' = [gathered EXCEPT ![n] = "ok"]
  /\ Enter(n, "generating")
  /\ UNCHANGED <<request, status, output, fate, payments>>

DependenciesFailed(n) ==
  /\ stage[n] = "resolving"
  /\ \/ /\ \E c \in Kids(n) : fate[c] = "failed"
        /\ gathered' = [gathered EXCEPT ![n] = "error"]
     \/ /\ \A c \in Kids(n) : fate[c] = "open" /\ stage[c] = "absent"
        /\ gathered' = [gathered EXCEPT ![n] = "rejected"]
  /\ Respond(n, 502)
  /\ UNCHANGED <<request, output, fate, payments>>

Generate(n) ==
  /\ stage[n] = "generating"
  /\ Succeed(n, "answer")
  /\ UNCHANGED <<request, calls, payments>>

(* The model fails, or its output misses the agent's contract.             *)
GenerationFails(n) ==
  /\ stage[n] = "generating"
  /\ Respond(n, 500)
  /\ UNCHANGED <<request, output, calls, payments>>

(* Settle returns, by what SettlementPromise says of it, which Settlement  *)
(* keeps; only a settled payment releases the answer.                      *)
Conclude(n) ==
  /\ stage[n] = "settling"
  /\ \/ /\ charged[n]
        /\ verdict' = [verdict EXCEPT ![n] = "settled"]
        /\ Respond(n, 200)
     \/ /\ verdict' \in {[verdict EXCEPT ![n] = v] :
                           v \in {"unknown"} \cup IF charged[n] THEN {} ELSE {"refused"}}
        /\ Respond(n, 402)
  /\ UNCHANGED <<request, output, calls, charged>>

(* The chain; a payment of which nothing is known may still be transferred.*)
Charge(n) ==
  /\ ~charged[n]
  /\ stage[n] = "settling" \/ verdict[n] = "unknown"
  /\ charged' = [charged EXCEPT ![n] = TRUE]
  /\ UNCHANGED <<request, stage, status, output, calls, verdict>>

------------------------------------------------------------------------------
(* AgentStore and the callbacks.                                           *)

(* AgentStore carries out a callback: it pays for and invokes the child,   *)
(* perhaps after the parent gave the callback up.                          *)
Dispatch(n, c) ==
  /\ c \in Kids(n)
  /\ stage[c] = "absent"
  /\ stage[n] = "resolving" \/ fate[c] = "failed"
  /\ Enter(c, "verifying")
  /\ UNCHANGED <<request, status, output, calls, payments>>

(* AgentStore reports success only of an invocation that answered 200.     *)
CallbackAnswered(n, c) ==
  /\ c \in Kids(n)
  /\ fate[c] = "open"
  /\ stage[c] = "responded" /\ status[c] = 200
  /\ fate' = [fate EXCEPT ![c] = "answered"]
  /\ UNCHANGED <<request, stage, status, output, gathered, payments>>

(* A callback fails for any reason while the parent waits, its deadline    *)
(* for one; after the parent returned, by the cancellation.                *)
OnlyCancelled(n, c) ==
  /\ c \in Kids(n)
  /\ fate[c] = "open"
  /\ gathered[n] = "error"
  /\ fate' = [fate EXCEPT ![c] = "failed"]
  /\ UNCHANGED <<request, stage, status, output, gathered, payments>>
CallbackFailed(n, c) ==
  /\ c \in Kids(n)
  /\ fate[c] = "open"
  /\ stage[n] = "resolving" \/ gathered[n] = "error"
  /\ fate' = [fate EXCEPT ![c] = "failed"]
  /\ UNCHANGED <<request, stage, status, output, gathered, payments>>

Server(n) ==
  \/ Verify(n) \/ RefuseBody(n) \/ UnknownAgent(n) \/ StartAgent(n)
  \/ DependenciesResolved(n) \/ DependenciesFailed(n)
  \/ Generate(n) \/ GenerationFails(n) \/ Conclude(n)

Next ==
  \/ \E n \in Nodes : Server(n) \/ Charge(n)
  \/ \E n, c \in Nodes :
       Dispatch(n, c) \/ CallbackAnswered(n, c) \/ CallbackFailed(n, c)

Spec == Init /\ [][Next]_vars

(* The model and the facilitator answer or fail under the middleware's     *)
(* InvocationTimeout, and a callback under callbackTimeout: the handler    *)
(* goes on, and a callback that is waited for ends.                        *)
FairSpec ==
  /\ Spec
  /\ \A n \in Nodes : WF_vars(Server(n))
  /\ \A n, c \in Nodes : WF_vars(CallbackAnswered(n, c) \/ CallbackFailed(n, c))

------------------------------------------------------------------------------
TypeOK ==
  /\ \A n \in Nodes : request[n] \in Requests[n]
  /\ stage \in [Nodes -> Stages]
  /\ status \in [Nodes -> {0, 200, 400, 402, 500, 502}]
  /\ \A n \in Nodes : stage[n] = "responded" <=> status[n] # 0
  /\ output \in [Nodes -> {"none", "unknown-agent", "answer"}]
  /\ gathered \in [Nodes -> {"pending", "ok", "error", "rejected"}]
  /\ fate \in [Nodes -> {"open", "answered", "failed"}]
  /\ charged \in [Nodes -> BOOLEAN]
  /\ verdict \in [Nodes -> {"pending", "settled", "refused", "unknown"}]

(* Nobody is charged for an agent that failed: a payment is transferred    *)
(* only once the agent produced its answer (middleware.go 54-56 settles    *)
(* after the handler), and for an aggregating agent that means every       *)
(* dependency answered and every priced dependency was charged for.        *)
OnlyAnswersAreCharged ==
  \A n \in Nodes : charged[n] =>
    /\ output[n] = "answer"
    /\ Resolves(n) => \A c \in Kids(n) :
                        fate[c] = "answered" /\ (c \in Registered => charged[c])

(* A released answer of a priced agent is a paid one, up the whole tree:   *)
(* whoever got 200 was charged, and so was everyone whose answer went in.  *)
AnswersArePaidFor ==
  \A n \in Registered : status[n] = 200 =>
    charged[n] /\ \A c \in Kids(n) \cap Registered : fate[c] = "answered" => charged[c]

(* No request makes a specialist, or an unknown agent, spend: only the     *)
(* dependencies of an aggregating agent are ever invoked                   *)
(* (openai_agent.go 101-107, fixture_agent.go 41-47).                      *)
OnlyAggregatesSpend ==
  \A n \in Nodes : n \notin Aggregates => \A c \in Kids(n) : stage[c] = "absent"

(* A request that was refused, or is not let in yet, spends nothing: none  *)
(* of its dependencies is invoked or charged, now or by a late callback.   *)
(* The payment is verified (middleware.go 24-48) and the body decoded      *)
(* (agent_controller.go 33-37) before the handler resolves anything, and   *)
(* callbacks are refused all together (callback_client.go 63-66). A caller *)
(* is itself somebody's dependency, so this goes up to the root: whatever  *)
(* is spent in the tree is spent for requests that were all let in.        *)
NotLetIn(n) ==
  \/ stage[n] \in {"absent", "verifying", "decoding"}
  \/ status[n] = 400
  \/ status[n] = 402 /\ output[n] = "none"
  \/ gathered[n] = "rejected"
RefusedRequestsSpendNothing ==
  \A n \in Nodes : NotLetIn(n) =>
    \A c \in Kids(n) : stage[c] = "absent" /\ ~charged[c]

(* Every request that arrives is answered, however deep its callbacks go.  *)
EveryRequestIsAnswered ==
  \A n \in Nodes : stage[n] = "verifying" ~> stage[n] = "responded"

------------------------------------------------------------------------------
(* Why the payments are right, node by node.                               *)
Ordered ==
  \A n \in Nodes :
    /\ stage[n] \in {"resolving", "generating", "settling"} => n \in Registered
    /\ stage[n] = "resolving" => Resolves(n)
    /\ stage[n] = "generating" /\ Resolves(n) => DependenciesAnswered(n)
    /\ stage[n] = "settling" \/ verdict[n] = "unknown" \/ charged[n]
         => output[n] = "answer"
    /\ output[n] = "answer" =>
         /\ stage[n] \in {"settling", "responded"} /\ n \in Registered
         /\ Resolves(n) => DependenciesAnswered(n)
    /\ verdict[n] # "pending" => stage[n] = "responded"
    /\ n \in Registered /\ status[n] = 200 => charged[n]
    /\ fate[n] = "answered" => status[n] = 200

Spending ==
  \A n \in Nodes :
    /\ gathered[n] # "pending" => stage[n] \in {"generating", "settling", "responded"}
    /\ \A c \in Kids(n) :
         stage[c] # "absent" \/ fate[c] # "open" \/ gathered[n] = "error" =>
           n \in Aggregates /\ ~NotLetIn(n)

IInv == TypeOK /\ Ordered /\ Spending

------------------------------------------------------------------------------
(* The callbacks of a node as they appear here.                            *)
Dependencies(n) == [i \in DOMAIN Children[n] |-> [code |-> Children[n][i]]]

Gather(n) == INSTANCE ScatterGather
  WITH Codes <- Nodes,
       NoCode <- NoNode,
       Requests <- {Dependencies(n)},
       dependencies <- Dependencies(n),
       fate <- [i \in DOMAIN Children[n] |-> fate[Children[n][i]]],
       outcome <- gathered[n],
       results <- [c \in Nodes |->
                     IF gathered[n] = "ok" /\ c \in Kids(n)
                     THEN CHOOSE i \in DOMAIN Children[n] : Children[n][i] = c
                     ELSE 0]

(* What every node sees of its callbacks is what ScatterGather promises.   *)
CallbacksKeepPromise ==
  /\ \A n \in Nodes : Gather(n)!Init
  /\ [][\A n \in Nodes : Gather(n)!Next \/ UNCHANGED Gather(n)!vars]_vars

==============================================================================
