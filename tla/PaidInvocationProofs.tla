------------------------ MODULE PaidInvocationProofs ------------------------
(***************************************************************************)
(* For every tree of invocations: nobody is charged but for an answer, an  *)
(* answer that is released is paid for up the whole tree, and only         *)
(* aggregating agents whose request was let in cause spending.            *)
(*                                                                         *)
(* These relate a payment to what its handler did before and to what the   *)
(* callbacks below did; Ordered says at every place of an invocation what  *)
(* must have happened to get there, Spending which parents have called.    *)
(***************************************************************************)
EXTENDS PaidInvocation, TLAPS

(* Dependencies are nodes, never the root, and of one parent only.         *)
LEMMA Tree ==
  /\ \A n \in Nodes : Kids(n) \subseteq Nodes \ {Root}
  /\ \A n, m \in Nodes : n # m => Kids(n) \cap Kids(m) = {}
  /\ Registered \subseteq Nodes /\ Aggregates \subseteq Registered
<1>1. ASSUME NEW n \in Nodes, NEW c \in Kids(n) PROVE c \in Nodes \ {Root}
  <2>1. Children[n] \in Seq(Nodes \ {Root})
    BY TreeAssumption
  <2>2. PICK i \in DOMAIN Children[n] : c = Children[n][i]
    BY DEF Kids, Range
  <2> QED
    BY <2>1, <2>2
<1> QED
  BY <1>1, TreeAssumption DEF Kids

(* Before anything happened there is only the root, which pays nobody.     *)
LEMMA InitiallySound == Init => IInv
<1> SUFFICES ASSUME Init PROVE IInv
  OBVIOUS
<1>1. TypeOK
  BY DEF Init, TypeOK, Stages
<1>2. Ordered
  BY DEF Init, Ordered
<1>3. Spending
  BY Tree DEF Init, Spending, NotLetIn
<1> QED
  BY <1>1, <1>2, <1>3 DEF IInv

(* A refused payment leaves nothing behind.                                *)
LEMMA VerifySound ==
  ASSUME IInv, NEW n \in Nodes, Verify(n)
  PROVE  IInv'
<1> USE DEF IInv
<1>1. TypeOK'
  BY DEF TypeOK, Verify, Enter, Respond, Succeed, Stages, calls, payments
<1>2. Ordered'
  BY Tree DEF Ordered, TypeOK, Resolves, DependenciesAnswered, Verify, Enter, Respond, Succeed, Stages, calls, payments
<1>3. Spending'
  BY Tree DEF Spending, NotLetIn, Ordered, TypeOK, Resolves, Verify, Enter, Respond, Succeed, Stages, calls, payments
<1> QED
  BY <1>1, <1>2, <1>3

(* A body that does not decode ends the invocation before any output.      *)
LEMMA RefuseBodySound ==
  ASSUME IInv, NEW n \in Nodes, RefuseBody(n)
  PROVE  IInv'
<1> USE DEF IInv
<1>1. TypeOK'
  BY DEF TypeOK, RefuseBody, Enter, Respond, Succeed, Stages, calls, payments
<1>2. Ordered'
  BY Tree DEF Ordered, TypeOK, Resolves, DependenciesAnswered, RefuseBody, Enter, Respond, Succeed, Stages, calls, payments
<1>3. Spending'
  BY Tree DEF Spending, NotLetIn, Ordered, TypeOK, Resolves, RefuseBody, Enter, Respond, Succeed, Stages, calls, payments
<1> QED
  BY <1>1, <1>2, <1>3

(* An unknown agent answers without a price.                               *)
LEMMA UnknownAgentSound ==
  ASSUME IInv, NEW n \in Nodes, UnknownAgent(n)
  PROVE  IInv'
<1> USE DEF IInv
<1>1. TypeOK'
  BY DEF TypeOK, UnknownAgent, Enter, Respond, Succeed, Stages, calls, payments
<1>2. Ordered'
  BY Tree DEF Ordered, TypeOK, Resolves, DependenciesAnswered, UnknownAgent, Enter, Respond, Succeed, Stages, calls, payments
<1>3. Spending'
  BY Tree DEF Spending, NotLetIn, Ordered, TypeOK, Resolves, UnknownAgent, Enter, Respond, Succeed, Stages, calls, payments
<1> QED
  BY <1>1, <1>2, <1>3

(* Only an aggregating agent with a runtime request starts to resolve.     *)
LEMMA StartAgentSound ==
  ASSUME IInv, NEW n \in Nodes, StartAgent(n)
  PROVE  IInv'
<1> USE DEF IInv
<1>1. TypeOK'
  BY DEF TypeOK, StartAgent, Enter, Respond, Succeed, Stages, calls, payments
<1>2. Ordered'
  BY Tree DEF Ordered, TypeOK, Resolves, DependenciesAnswered, StartAgent, Enter, Respond, Succeed, Stages, calls, payments
<1>3. Spending'
  BY Tree DEF Spending, NotLetIn, Ordered, TypeOK, Resolves, StartAgent, Enter, Respond, Succeed, Stages, calls, payments
<1> QED
  BY <1>1, <1>2, <1>3

(* The agent goes on only when every dependency answered.                  *)
LEMMA DependenciesResolvedSound ==
  ASSUME IInv, NEW n \in Nodes, DependenciesResolved(n)
  PROVE  IInv'
<1> USE DEF IInv
<1>1. TypeOK'
  BY DEF TypeOK, DependenciesResolved, Enter, Respond, Succeed, Stages, calls, payments
<1>2. Ordered'
  BY Tree DEF Ordered, TypeOK, Resolves, DependenciesAnswered, DependenciesResolved, Enter, Respond, Succeed, Stages, calls, payments
<1>3. Spending'
  BY Tree DEF Spending, NotLetIn, Ordered, TypeOK, Resolves, DependenciesResolved, Enter, Respond, Succeed, Stages, calls, payments
<1> QED
  BY <1>1, <1>2, <1>3

(* A failed callback ends the invocation without an output.                *)
LEMMA DependenciesFailedSound ==
  ASSUME IInv, NEW n \in Nodes, DependenciesFailed(n)
  PROVE  IInv'
<1> USE DEF IInv
<1>1. TypeOK'
  BY DEF TypeOK, DependenciesFailed, Enter, Respond, Succeed, Stages, calls, payments
<1>2. Ordered'
  BY Tree DEF Ordered, TypeOK, Resolves, DependenciesAnswered, DependenciesFailed, Enter, Respond, Succeed, Stages, calls, payments
<1>3. Spending'
  BY Tree DEF Spending, NotLetIn, Ordered, TypeOK, Resolves, DependenciesFailed, Enter, Respond, Succeed, Stages, calls, payments
<1> QED
  BY <1>1, <1>2, <1>3

(* The answer is made after the dependencies answered.                     *)
LEMMA GenerateSound ==
  ASSUME IInv, NEW n \in Nodes, Generate(n)
  PROVE  IInv'
<1> USE DEF IInv
<1>1. TypeOK'
  BY DEF TypeOK, Generate, Enter, Respond, Succeed, Stages, calls, payments
<1>2. Ordered'
  BY Tree DEF Ordered, TypeOK, Resolves, DependenciesAnswered, Generate, Enter, Respond, Succeed, Stages, calls, payments
<1>3. Spending'
  BY Tree DEF Spending, NotLetIn, Ordered, TypeOK, Resolves, Generate, Enter, Respond, Succeed, Stages, calls, payments
<1> QED
  BY <1>1, <1>2, <1>3

(* A failed generation leaves nothing to settle.                           *)
LEMMA GenerationFailsSound ==
  ASSUME IInv, NEW n \in Nodes, GenerationFails(n)
  PROVE  IInv'
<1> USE DEF IInv
<1>1. TypeOK'
  BY DEF TypeOK, GenerationFails, Enter, Respond, Succeed, Stages, calls, payments
<1>2. Ordered'
  BY Tree DEF Ordered, TypeOK, Resolves, DependenciesAnswered, GenerationFails, Enter, Respond, Succeed, Stages, calls, payments
<1>3. Spending'
  BY Tree DEF Spending, NotLetIn, Ordered, TypeOK, Resolves, GenerationFails, Enter, Respond, Succeed, Stages, calls, payments
<1> QED
  BY <1>1, <1>2, <1>3

(* 200 is sent only for a charged payment.                                 *)
LEMMA ConcludeSound ==
  ASSUME IInv, NEW n \in Nodes, Conclude(n)
  PROVE  IInv'
<1> USE DEF IInv
<1>1. TypeOK'
  BY DEF TypeOK, Conclude, Enter, Respond, Succeed, Stages, calls, payments
<1>2. Ordered'
  BY Tree DEF Ordered, TypeOK, Resolves, DependenciesAnswered, Conclude, Enter, Respond, Succeed, Stages, calls, payments
<1>3. Spending'
  BY Tree DEF Spending, NotLetIn, Ordered, TypeOK, Resolves, Conclude, Enter, Respond, Succeed, Stages, calls, payments
<1> QED
  BY <1>1, <1>2, <1>3

(* A transfer happens only when there is an answer to settle.              *)
LEMMA ChargeSound ==
  ASSUME IInv, NEW n \in Nodes, Charge(n)
  PROVE  IInv'
<1> USE DEF IInv
<1>1. TypeOK'
  BY DEF TypeOK, Charge, Enter, Respond, Succeed, Stages, calls, payments
<1>2. Ordered'
  BY Tree DEF Ordered, TypeOK, Resolves, DependenciesAnswered, Charge, Enter, Respond, Succeed, Stages, calls, payments
<1>3. Spending'
  BY Tree DEF Spending, NotLetIn, Ordered, TypeOK, Resolves, Charge, Enter, Respond, Succeed, Stages, calls, payments
<1> QED
  BY <1>1, <1>2, <1>3

(* Only children of an aggregating agent are invoked.                      *)
LEMMA DispatchSound ==
  ASSUME IInv, NEW n \in Nodes, NEW c \in Nodes, Dispatch(n, c)
  PROVE  IInv'
<1> USE DEF IInv
<1>1. TypeOK'
  BY DEF TypeOK, Dispatch, Enter, Stages, calls, payments
<1>2. Ordered'
  BY Tree DEF Ordered, TypeOK, Resolves, DependenciesAnswered, Dispatch, Enter, Stages, calls, payments
<1>3. Spending'
  BY Tree DEF Spending, NotLetIn, Ordered, TypeOK, Resolves, Dispatch, Enter, Stages, calls, payments
<1> QED
  BY <1>1, <1>2, <1>3

(* A callback is answered only by a 200.                                   *)
LEMMA CallbackAnsweredSound ==
  ASSUME IInv, NEW n \in Nodes, NEW c \in Nodes, CallbackAnswered(n, c)
  PROVE  IInv'
<1> USE DEF IInv
<1>1. TypeOK'
  BY DEF TypeOK, CallbackAnswered, Enter, Stages, calls, payments
<1>2. Ordered'
  BY Tree DEF Ordered, TypeOK, Resolves, DependenciesAnswered, CallbackAnswered, Enter, Stages, calls, payments
<1>3. Spending'
  BY Tree DEF Spending, NotLetIn, Ordered, TypeOK, Resolves, CallbackAnswered, Enter, Stages, calls, payments
<1> QED
  BY <1>1, <1>2, <1>3

(* Failing a callback frees nobody from what was answered.                 *)
LEMMA CallbackFailedSound ==
  ASSUME IInv, NEW n \in Nodes, NEW c \in Nodes, CallbackFailed(n, c)
  PROVE  IInv'
<1> USE DEF IInv
<1>1. TypeOK'
  BY DEF TypeOK, CallbackFailed, Enter, Stages, calls, payments
<1>2. Ordered'
  BY Tree DEF Ordered, TypeOK, Resolves, DependenciesAnswered, CallbackFailed, Enter, Stages, calls, payments
<1>3. Spending'
  BY Tree DEF Spending, NotLetIn, Ordered, TypeOK, Resolves, CallbackFailed, Enter, Stages, calls, payments
<1> QED
  BY <1>1, <1>2, <1>3

(* Every step keeps the account of every node.                             *)
THEOREM PaidInvariance == Spec => []IInv
<1>1. IInv /\ [Next]_vars => IInv'
  <2> SUFFICES ASSUME IInv, [Next]_vars PROVE IInv'
    OBVIOUS
  <2>1. ASSUME NEW n \in Nodes, Server(n) PROVE IInv'
    BY <2>1, VerifySound, RefuseBodySound, UnknownAgentSound, StartAgentSound,
       DependenciesResolvedSound, DependenciesFailedSound, GenerateSound,
       GenerationFailsSound, ConcludeSound DEF Server
  <2>2. ASSUME NEW n \in Nodes, Charge(n) PROVE IInv'
    BY <2>2, ChargeSound
  <2>3. ASSUME NEW n \in Nodes, NEW c \in Nodes,
               Dispatch(n, c) \/ CallbackAnswered(n, c) \/ CallbackFailed(n, c)
        PROVE  IInv'
    BY <2>3, DispatchSound, CallbackAnsweredSound, CallbackFailedSound
  <2>4. CASE UNCHANGED vars
    BY <2>4 DEF vars, IInv, TypeOK, Ordered, Spending, NotLetIn, Resolves, DependenciesAnswered
  <2> QED
    BY <2>1, <2>2, <2>3, <2>4 DEF Next
<1> QED
  BY InitiallySound, <1>1, PTL DEF Spec

(* A response is sent exactly when an invocation ends, whatever the tree.  *)
THEOREM PaidTypeCorrect == Spec => []TypeOK
<1>1. IInv => TypeOK
  BY DEF IInv
<1> QED
  BY <1>1, PaidInvariance, PTL

(* An agent that failed, or whose dependencies did, is never charged for,  *)
(* and an answer that was charged for went out over paid dependencies.     *)
THEOREM OnlyAnswersAreChargedTheorem == Spec => []OnlyAnswersAreCharged
<1>1. IInv => OnlyAnswersAreCharged
  BY Tree DEF IInv, Ordered, DependenciesAnswered, OnlyAnswersAreCharged
<1> QED
  BY <1>1, PaidInvariance, PTL

(* A priced agent's 200 is paid for, and so is every priced answer in it.  *)
THEOREM AnswersArePaidForTheorem == Spec => []AnswersArePaidFor
<1>1. IInv => AnswersArePaidFor
  BY Tree DEF IInv, Ordered, AnswersArePaidFor
<1> QED
  BY <1>1, PaidInvariance, PTL

(* Nothing a request says makes a specialist call, and pay, anyone.        *)
THEOREM OnlyAggregatesSpendTheorem == Spec => []OnlyAggregatesSpend
<1>1. IInv => OnlyAggregatesSpend
  BY DEF IInv, Spending, OnlyAggregatesSpend
<1> QED
  BY <1>1, PaidInvariance, PTL

(* What was refused, at the door or by the client, cost nothing below.     *)
THEOREM RefusedRequestsSpendNothingTheorem == Spec => []RefusedRequestsSpendNothing
<1>1. IInv => RefusedRequestsSpendNothing
  <2> SUFFICES ASSUME IInv, NEW n \in Nodes, NotLetIn(n), NEW c \in Kids(n)
               PROVE  stage[c] = "absent" /\ ~charged[c]
    BY DEF RefusedRequestsSpendNothing
  <2>1. stage[c] = "absent"
    BY DEF IInv, Spending
  <2>2. c \in Nodes
    BY Tree
  <2> QED
    BY <2>1, <2>2 DEF IInv, Ordered, TypeOK
<1> QED
  BY <1>1, PaidInvariance, PTL

------------------------------------------------------------------------------
(* A node is told the outcome of its callbacks as it leaves the place where *)
(* it waits for them, and a refused request called nobody.                  *)
Told ==
  \A n \in Nodes :
    /\ gathered[n] # "pending" => stage[n] \in {"generating", "settling", "responded"}
    /\ gathered[n] = "rejected" =>
         \A c \in Kids(n) : stage[c] = "absent" /\ fate[c] = "open"

LEMMA WhatNodesAreTold == IInv => Told
  BY DEF IInv, Spending, NotLetIn, Told

(* What a node sees of its callbacks, by position in its list.             *)
LEMMA Positions ==
  ASSUME NEW n \in Nodes
  PROVE  /\ DOMAIN Dependencies(n) = DOMAIN Children[n]
         /\ \A i \in DOMAIN Children[n] :
              Children[n][i] \in Kids(n) /\ Dependencies(n)[i].code = Children[n][i]
         /\ \A c \in Kids(n) : \E i \in DOMAIN Children[n] : Children[n][i] = c
         /\ \A i, j \in DOMAIN Children[n] : Children[n][i] = Children[n][j] => i = j
  BY TreeAssumption DEF Dependencies, Kids, Range, IsInjective

(* Invoke of the callback client returned all outputs.                     *)
LEMMA ResolvedGathers ==
  ASSUME IInv, Told, NEW n \in Nodes, DependenciesResolved(n)
  PROVE  Gather(n)!ReturnResults
<1> DEFINE chosen(c) == CHOOSE i \in DOMAIN Children[n] : Children[n][i] = c
<1>1. gathered[n] = "pending" /\ gathered'[n] = "ok" /\ fate' = fate
  BY DEF IInv, TypeOK, Told, DependenciesResolved
<1>2. \A i \in DOMAIN Children[n] : fate[Children[n][i]] = "answered"
  BY Positions DEF DependenciesResolved, DependenciesAnswered
<1>3. \A c \in Kids(n) : chosen(c) \in DOMAIN Children[n] /\ Children[n][chosen(c)] = c
  BY Positions
<1> QED
  BY <1>1, <1>2, <1>3, Positions DEF Gather!ReturnResults, Gather!Deps, Gather!Named

(* It returned an error: of a dependency, or before it called any.         *)
LEMMA FailedGathers ==
  ASSUME IInv, Told, NEW n \in Nodes, DependenciesFailed(n)
  PROVE  Gather(n)!ReturnError \/ Gather(n)!Reject
<1>1. gathered[n] = "pending" /\ fate' = fate
  BY DEF IInv, TypeOK, Told, DependenciesFailed
<1>2. CASE (\E c \in Kids(n) : fate[c] = "failed") /\ gathered'[n] = "error"
  <2>1. \E i \in DOMAIN Children[n] : fate[Children[n][i]] = "failed"
    BY <1>2, Positions
  <2> QED
    BY <1>1, <1>2, <2>1, Positions DEF Gather!ReturnError, Gather!Deps
<1>3. CASE (\A c \in Kids(n) : fate[c] = "open") /\ gathered'[n] = "rejected"
  BY <1>1, <1>3, Positions DEF Gather!Reject, Gather!Deps
<1> QED
  BY <1>2, <1>3 DEF DependenciesFailed, IInv, TypeOK

(* A callback ended.                                                       *)
LEMMA SettledGathers ==
  ASSUME IInv, Told, NEW n \in Nodes, NEW c \in Nodes,
         CallbackAnswered(n, c) \/ CallbackFailed(n, c)
  PROVE  \E i \in DOMAIN Children[n] : Gather(n)!Settle(i)
<1>1. /\ c \in Kids(n) /\ fate[c] = "open" /\ gathered' = gathered
      /\ gathered[n] # "rejected"
  BY DEF CallbackAnswered, CallbackFailed, Told, IInv, TypeOK
<1>2. PICK i \in DOMAIN Children[n] : Children[n][i] = c
  BY <1>1, Positions
<1>3. PICK f \in {"answered", "failed"} : fate' = [fate EXCEPT ![c] = f]
  BY DEF CallbackAnswered, CallbackFailed
<1>4. \A j \in DOMAIN Children[n] :
        fate'[Children[n][j]] = IF j = i THEN f ELSE fate[Children[n][j]]
  BY <1>2, <1>3, Positions, Tree DEF IInv, TypeOK
<1> DEFINE Fates == [j \in DOMAIN Children[n] |-> fate[Children[n][j]]]
<1>5. /\ Fates[i] = "open"
      /\ Fates' = [Fates EXCEPT ![i] = f]
  BY <1>1, <1>2, <1>4
<1>6. UNCHANGED <<Dependencies(n), gathered[n]>>
  BY <1>1 DEF Dependencies
<1>7. Gather(n)!Settle(i)
  BY <1>1, <1>3, <1>5, <1>6, Positions DEF Gather!Settle, Gather!Deps
<1> QED
  BY <1>7

(* What ScatterGather promises of the callback client is kept by every     *)
(* node of every tree, beside all the other nodes, payments and callbacks: *)
(* nothing of another node's call is taken for its own.                    *)
THEOREM CallbacksKeepPromiseTheorem == Spec => CallbacksKeepPromise
<1> DEFINE Step(n) == Gather(n)!Next \/ UNCHANGED Gather(n)!vars
<1>1. Init => \A n \in Nodes : Gather(n)!Init
  <2> SUFFICES ASSUME Init
               PROVE  \A n \in Nodes : Gather(n)!Init
    OBVIOUS
  <2>1. ASSUME NEW n \in Nodes PROVE Gather(n)!Init
    <3>1. /\ \A i \in DOMAIN Children[n] : fate[Children[n][i]] = "open"
          /\ gathered[n] = "pending"
      BY Positions, Tree DEF Init
    <3> QED
      BY <3>1, Positions DEF Gather!Init, Gather!Deps, Gather!NoResults
  <2> QED
    BY <2>1
<1>2. ASSUME IInv, Told, [Next]_vars, NEW n \in Nodes PROVE Step(n)
  <2> DEFINE Untouched == /\ gathered'[n] = gathered[n]
                          /\ \A c \in Kids(n) : fate'[c] = fate[c]
  <2>1. ASSUME Untouched PROVE Step(n)
    <3>1. \A i \in DOMAIN Children[n] : fate'[Children[n][i]] = fate[Children[n][i]]
      BY <2>1, Positions
    <3> QED
      BY <2>1, <3>1 DEF Gather!vars
  <2>2. ASSUME NEW m \in Nodes, DependenciesResolved(m) PROVE Step(n)
    <3>1. CASE m = n
      BY <1>2, <2>2, <3>1, ResolvedGathers DEF Gather!Next
    <3>2. CASE m # n
      BY <1>2, <2>1, <2>2, <3>2 DEF DependenciesResolved, IInv, TypeOK
    <3> QED
      BY <3>1, <3>2
  <2>3. ASSUME NEW m \in Nodes, DependenciesFailed(m) PROVE Step(n)
    <3>1. CASE m = n
      BY <1>2, <2>3, <3>1, FailedGathers DEF Gather!Next
    <3>2. CASE m # n
      BY <1>2, <2>1, <2>3, <3>2 DEF DependenciesFailed, IInv, TypeOK
    <3> QED
      BY <3>1, <3>2
  <2>4. ASSUME NEW m \in Nodes, NEW c \in Nodes,
               CallbackAnswered(m, c) \/ CallbackFailed(m, c)
        PROVE  Step(n)
    <3>1. CASE m = n
      <4>1. PICK i \in DOMAIN Children[n] : Gather(n)!Settle(i)
        BY <1>2, <2>4, <3>1, SettledGathers
      <4> QED
        BY <4>1, Positions DEF Gather!Next, Gather!Deps
    <3>2. CASE m # n
      <4>1. c \notin Kids(n)
        BY <2>4, <3>2, Tree DEF CallbackAnswered, CallbackFailed
      <4> QED
        BY <1>2, <2>1, <2>4, <4>1, Tree DEF CallbackAnswered, CallbackFailed, IInv, TypeOK
    <3> QED
      BY <3>1, <3>2
  <2>5. Next => \/ UNCHANGED calls
                \/ \E m \in Nodes : DependenciesResolved(m) \/ DependenciesFailed(m)
                \/ \E m, c \in Nodes : CallbackAnswered(m, c) \/ CallbackFailed(m, c)
    BY DEF Next, Server, Verify, RefuseBody, UnknownAgent, StartAgent, Generate,
           GenerationFails, Conclude, Charge, Dispatch, calls
  <2>6. UNCHANGED calls => Step(n)
    BY <2>1 DEF calls
  <2>7. UNCHANGED vars => UNCHANGED calls
    BY DEF vars, calls
  <2> QED
    BY <1>2, <2>2, <2>3, <2>4, <2>5, <2>6, <2>7
<1>3. IInv /\ [Next]_vars => [\A n \in Nodes : Step(n)]_vars
  BY <1>2, WhatNodesAreTold
<1> QED
  BY <1>1, <1>3, PaidInvariance, PTL DEF Spec, CallbacksKeepPromise

------------------------------------------------------------------------------
(* What was decided about a request is never decided again: it does not go *)
(* back, the response is sent once, an answer stays, and so do the outcome *)
(* of its callbacks, the fate of each, the charge and the verdict.         *)
Place == [absent |-> 0, verifying |-> 1, decoding |-> 2, resolving |-> 3,
          generating |-> 4, settling |-> 5, responded |-> 6]

DecisionsAreFinal ==
  \A n \in Nodes :
    /\ Place[stage[n]] <= Place[stage'[n]]
    /\ status[n] # 0 => status'[n] = status[n]
    /\ output[n] = "answer" => output'[n] = "answer"
    /\ gathered[n] # "pending" => gathered'[n] = gathered[n]
    /\ fate[n] # "open" => fate'[n] = fate[n]
    /\ charged[n] => charged'[n]
    /\ verdict[n] # "pending" => verdict'[n] = verdict[n]

LEMMA StepsAreFinal ==
  ASSUME IInv, Told, [Next]_vars
  PROVE  DecisionsAreFinal
<1> USE DEF DecisionsAreFinal, IInv, TypeOK, Stages, Place, calls, payments, Enter, Respond
<1>1. ASSUME NEW n \in Nodes, Verify(n) \/ RefuseBody(n) \/ StartAgent(n)
      PROVE  DecisionsAreFinal
  BY <1>1 DEF Verify, RefuseBody, StartAgent
<1>2. ASSUME NEW n \in Nodes, UnknownAgent(n)
      PROVE  DecisionsAreFinal
  BY <1>2 DEF UnknownAgent, Succeed, Ordered
<1>3. ASSUME NEW n \in Nodes, DependenciesResolved(n)
      PROVE  DecisionsAreFinal
  BY <1>3 DEF DependenciesResolved, Told
<1>4. ASSUME NEW n \in Nodes, DependenciesFailed(n)
      PROVE  DecisionsAreFinal
  BY <1>4 DEF DependenciesFailed, Told
<1>5. ASSUME NEW n \in Nodes, Generate(n) \/ GenerationFails(n)
      PROVE  DecisionsAreFinal
  BY <1>5 DEF Generate, GenerationFails, Succeed
<1>6. ASSUME NEW n \in Nodes, Conclude(n)
      PROVE  DecisionsAreFinal
  BY <1>6 DEF Conclude, Ordered
<1>7. ASSUME NEW n \in Nodes, Charge(n)
      PROVE  DecisionsAreFinal
  BY <1>7 DEF Charge
<1>8. ASSUME NEW n \in Nodes, NEW c \in Nodes,
             Dispatch(n, c) \/ CallbackAnswered(n, c) \/ CallbackFailed(n, c)
      PROVE  DecisionsAreFinal
  BY <1>8 DEF Dispatch, CallbackAnswered, CallbackFailed
<1>9. CASE UNCHANGED vars
  BY <1>9 DEF vars
<1> QED
  BY <1>1, <1>2, <1>3, <1>4, <1>5, <1>6, <1>7, <1>8, <1>9 DEF Next, Server

(* For every tree: each request is answered at most once and each payment  *)
(* charged at most once, although handler, callbacks, chain and AgentStore *)
(* interleave, and callbacks go on after their caller was answered.        *)
THEOREM DecisionsAreFinalTheorem == Spec => [][DecisionsAreFinal]_vars
<1>1. IInv /\ [Next]_vars => DecisionsAreFinal
  BY WhatNodesAreTold, StepsAreFinal
<1> QED
  BY <1>1, PaidInvariance, PTL DEF Spec
==============================================================================
