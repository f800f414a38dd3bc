------------------------ MODULE CallbackClientProofs ------------------------
(***************************************************************************)
(* For every list of dependencies and every size of it: the types of       *)
(* CallbackClient, its safety invariants, and that a call of Invoke        *)
(* implements ScatterGather.                                               *)
(***************************************************************************)
EXTENDS CallbackClient, FiniteSetTheorems, SequenceTheorems, TLAPS

Messages == [dep : Deps, err : BOOLEAN]

(* The dependencies are numbered from 1.                                   *)
LEMMA Numbered ==
  ASSUME TypeOK
  PROVE  /\ Len(dependencies) \in Nat
         /\ Deps = 1..Len(dependencies)
         /\ \A d \in Deps : d \in Nat \ {0}
         /\ \A d \in Deps : dependencies[d] \in Dependency
         /\ IsFiniteSet(Deps)
         /\ Cardinality(Deps) = Len(dependencies)
<1>1. dependencies \in Seq(Dependency)
  BY ConstantsAssumption DEF TypeOK
<1>2. /\ Len(dependencies) \in Nat
      /\ Deps = 1..Len(dependencies)
      /\ \A d \in Deps : dependencies[d] \in Dependency
  BY <1>1, LenProperties, ElementOfSeq DEF Deps
<1>3. \A n \in Nat : IsFiniteSet(1..n) /\ Cardinality(1..n) = n
  BY FS_Interval, FS_EmptySet, Z3
<1> QED
  BY <1>2, <1>3

(* Every message in the channel names the dependency that sent it.         *)
LEMMA SenderOfMessage ==
  ASSUME TypeOK, NEW i \in 1..Len(resultChannel)
  PROVE  resultChannel[i] \in Messages /\ resultChannel[i].dep \in Deps
<1>1. resultChannel \in Seq(Messages)
  BY DEF TypeOK, Messages
<1>2. resultChannel[i] \in Messages
  BY <1>1, ElementOfSeq
<1> QED
  BY <1>2 DEF Messages

(* What a receive leaves in the channel.                                   *)
LEMMA Received ==
  ASSUME TypeOK, Receive
  PROVE  /\ Head(resultChannel) \in Messages
         /\ Head(resultChannel) = resultChannel[1]
         /\ resultChannel' \in Seq(Messages)
         /\ Len(resultChannel) \in Nat \ {0}
         /\ Len(resultChannel') = Len(resultChannel) - 1
         /\ \A i \in 1..Len(resultChannel') :
              resultChannel'[i] = resultChannel[i + 1]
<1>1. resultChannel \in Seq(Messages) /\ resultChannel # << >>
  BY DEF TypeOK, Receive, Messages
<1>2. resultChannel' = Tail(resultChannel)
  BY DEF Receive
<1> QED
  BY <1>1, <1>2, HeadTailProperties, EmptySeq

(* What a send leaves in the channel.                                      *)
LEMMA Delivered ==
  ASSUME TypeOK, NEW d \in Deps, Deliver(d)
  PROVE  /\ resultChannel' \in Seq(Messages)
         /\ Len(resultChannel) \in Nat
         /\ Len(resultChannel') = Len(resultChannel) + 1
         /\ \A i \in 1..Len(resultChannel) :
              resultChannel'[i] = resultChannel[i]
         /\ resultChannel'[Len(resultChannel')].dep = d
         /\ resultChannel'[Len(resultChannel')].err => fault[d] # "none"
         /\ ~resultChannel'[Len(resultChannel')].err => fault[d] = "none"
<1> DEFINE m == [dep |-> d, err |-> fault[d] # "none"]
<1>1. resultChannel \in Seq(Messages)
  BY DEF TypeOK, Messages
<1>2. m \in Messages
  BY DEF Messages
<1>3. resultChannel' = Append(resultChannel, m)
  BY DEF Deliver
<1> HIDE DEF m
<1>4. /\ resultChannel' \in Seq(Messages)
      /\ Len(resultChannel) \in Nat
      /\ Len(resultChannel') = Len(resultChannel) + 1
      /\ \A i \in 1..Len(resultChannel) : resultChannel'[i] = resultChannel[i]
      /\ resultChannel'[Len(resultChannel')] = m
  BY <1>1, <1>2, <1>3, AppendProperties, LenProperties
<1>5. m.dep = d /\ (m.err => fault[d] # "none") /\ (~m.err => fault[d] = "none")
  BY DEF m
<1> QED
  BY <1>4, <1>5

------------------------------------------------------------------------------
(* A call starts with every variable in its set.                           *)
LEMMA TypesInitially == ASSUME Init PROVE TypeOK
<1>1. dependencies \in Seq(Dependency) /\ Len(dependencies) \in Nat
  BY ConstantsAssumption, LenProperties DEF Init
<1>2. resultChannel \in Seq([dep : Deps, err : BOOLEAN])
  BY EmptySeq DEF Init
<1>3. /\ pc \in [Deps -> InCall \cup {"unborn", "start", "finished", "exited"}]
      /\ fault \in [Deps -> Faults]
      /\ reply \in [Deps -> Answers \cup {"none", "sent"}]
      /\ results \in [Codes -> Deps \cup {0}]
  BY DEF Init, Faults
<1>4. spawned \in 0..Len(dependencies) /\ received \in 0..Len(dependencies)
  BY <1>1 DEF Init
<1>5. /\ callbackURL \in CallbackURLs /\ dependencies \in Requests
      /\ phase = "validating" /\ ctxDone = FALSE /\ reported = 0
  BY DEF Init
<1> QED
  BY <1>2, <1>3, <1>4, <1>5 DEF TypeOK

(* Ending a call with a known fault keeps the types.                       *)
LEMMA FinishTypes ==
  ASSUME TypeOK, NEW d \in Deps, NEW f \in Faults, Finish(d, f)
  PROVE  /\ pc' \in [Deps -> InCall \cup {"unborn", "start", "finished", "exited"}]
         /\ fault' \in [Deps -> Faults]
BY DEF TypeOK, Finish

(* Every step keeps every variable in its range.                           *)
LEMMA TypesKept ==
  ASSUME TypeOK, [Next]_vars
  PROVE  TypeOK'
<1> USE Numbered
<1> USE DEF TypeOK, InCall, Faults, Answers, callerVars, request
<1>0. ASSUME UNCHANGED request
      PROVE  Deps' = Deps
  BY <1>0 DEF Deps
<1>1. CASE ValidateURL
  BY <1>1, <1>0 DEF ValidateURL
<1>2. CASE Spawn
  <2>1. spawned' \in 0..Len(dependencies) /\ spawned + 1 \in Deps
    BY <1>2 DEF Spawn
  <2> QED
    BY <1>2, <1>0, <2>1 DEF Spawn
<1>3. CASE CollectOutput
  <2>1. Head(resultChannel).dep \in Deps /\ resultChannel' \in Seq([dep : Deps, err : BOOLEAN])
    BY <1>3, Received DEF CollectOutput, Messages
  <2> QED
    BY <1>3, <1>0, <2>1 DEF CollectOutput, Receive, Filed, AllReceived
<1>4. CASE CollectError
  <2>1. Head(resultChannel).dep \in Deps /\ resultChannel' \in Seq([dep : Deps, err : BOOLEAN])
    BY <1>4, Received DEF CollectError, Messages
  <2> QED
    BY <1>4, <1>0, <2>1 DEF CollectError, Receive, AllReceived
<1>5. CASE ReturnResults
  BY <1>5, <1>0 DEF ReturnResults
<1>6. CASE CallerGivesUp
  BY <1>6, <1>0 DEF CallerGivesUp
<1>7. ASSUME NEW d \in Deps, Goroutine(d)
      PROVE  TypeOK'
  <2>1. CASE Prepare(d)
    <3>1. CASE Finish(d, "prepare")
      BY <2>1, <3>1, <1>0, FinishTypes DEF Prepare
    <3>2. CASE pc' = [pc EXCEPT ![d] = "dialing"] /\ UNCHANGED fault
      BY <2>1, <3>2, <1>0 DEF Prepare
    <3> QED
      BY <2>1, <3>1, <3>2 DEF Prepare
  <2>2. CASE Send(d)
    BY <2>2, <1>0 DEF Send
  <2>3. CASE ReceiveHead(d)
    <3>1. CASE Finish(d, "response")
      BY <2>3, <3>1, <1>0, FinishTypes DEF ReceiveHead
    <3>2. CASE pc' = [pc EXCEPT ![d] = "reading"] /\ UNCHANGED fault
      BY <2>3, <3>2, <1>0 DEF ReceiveHead
    <3> QED
      BY <2>3, <3>1, <3>2 DEF ReceiveHead
  <2>4. CASE ReadBody(d)
    BY <2>4, <1>0, FinishTypes DEF ReadBody
  <2>5. CASE Abort(d)
    BY <2>5, <1>0, FinishTypes DEF Abort
  <2>6. CASE Deliver(d)
    BY <2>6, <1>0, Delivered DEF Deliver, Messages
  <2> QED
    BY <1>7, <2>1, <2>2, <2>3, <2>4, <2>5, <2>6 DEF Goroutine
<1>8. ASSUME NEW d \in Deps, DeadlineExpires(d) \/ TransportFails(d)
      PROVE  TypeOK'
  BY <1>8, <1>0, FinishTypes DEF DeadlineExpires, TransportFails
<1>9. ASSUME NEW d \in Deps, StoreAnswers(d)
      PROVE  TypeOK'
  BY <1>9, <1>0 DEF StoreAnswers
<1>10. CASE UNCHANGED vars
  BY <1>10, <1>0 DEF vars
<1> QED
  BY <1>1, <1>2, <1>3, <1>4, <1>5, <1>6, <1>7, <1>8, <1>9, <1>10
  DEF Next, Caller

(* Type correctness of one call of Invoke.                                 *)
THEOREM TypeCorrect == Spec => []TypeOK
<1>1. Init => TypeOK
  BY TypesInitially
<1>2. TypeOK /\ [Next]_vars => TypeOK'
  BY TypesKept
<1> QED
  BY <1>1, <1>2, PTL DEF Spec

------------------------------------------------------------------------------
(* The inductive invariant.  The receiving loop only knows how many        *)
(* results it took; these facts tie that number to the goroutines that     *)
(* exited, and each message to the goroutine that sent it.                 *)

Exited == {d \in Deps : pc[d] = "exited"}

StartedInOrder ==
  /\ \A d \in Deps : pc[d] = "unborn" <=> d > spawned
  /\ phase \in {"validating", "rejected"} => spawned = 0

EveryExitIsCounted == received + Len(resultChannel) = Cardinality(Exited)

MessagesAreTrue ==
  \A i \in 1..Len(resultChannel) :
    /\ pc[resultChannel[i].dep] = "exited"
    /\ resultChannel[i].err => fault[resultChannel[i].dep] # "none"
    /\ ~resultChannel[i].err => fault[resultChannel[i].dep] = "none"

InChannel(d) == \E i \in 1..Len(resultChannel) : resultChannel[i].dep = d

Collected(d) ==
  /\ fault[d] = "none"
  /\ dependencies[d].code \in Codes => results[dependencies[d].code] # 0

NothingIsLost ==
  phase = "gathering" => \A d \in Exited : InChannel(d) \/ Collected(d)

Ended(d) == pc[d] \in {"finished", "exited"}

OutcomesAreTrue ==
  \A d \in Deps :
    /\ fault[d] # "none" => Ended(d)
    /\ Ended(d) /\ fault[d] = "none" => reply[d] = "accepted"
    /\ fault[d] = "canceled" /\ ~Returned => ctxDone

FailureIsTrue ==
  phase = "failed" =>
    /\ reported \in Exited
    /\ fault[reported] # "none"
    /\ fault[reported] = "canceled" => ctxDone

FiledUnderItsCode ==
  \A c \in Codes : results[c] # 0 =>
    Answered(results[c]) /\ dependencies[results[c]].code = c

SuccessIsFinal ==
  phase = "succeeded" => \A d \in Deps : Answered(d) /\ Collected(d)

Consistent ==
  /\ StartedInOrder
  /\ EveryExitIsCounted
  /\ MessagesAreTrue
  /\ NothingIsLost
  /\ OutcomesAreTrue
  /\ FailureIsTrue
  /\ FiledUnderItsCode
  /\ SuccessIsFinal

IInv == TypeOK /\ Consistent

------------------------------------------------------------------------------
(* The goroutines that delivered are finitely many, so they can be counted.*)
LEMMA ExitedIsFinite ==
  ASSUME TypeOK
  PROVE  /\ IsFiniteSet(Exited)
         /\ Cardinality(Exited) \in Nat
         /\ Cardinality(Exited) <= Len(dependencies)
         /\ Cardinality(Exited) = Len(dependencies) => Exited = Deps
<1>1. Exited \in SUBSET Deps
  BY DEF Exited
<1> QED
  BY <1>1, Numbered, FS_Subset, FS_CardinalityType

(* Nothing was sent, received or filed at the start of a call.             *)
LEMMA ConsistentInitially == ASSUME Init PROVE Consistent
<1>1. TypeOK
  BY TypesInitially
<1>2. \A d \in Deps : pc[d] = "unborn" /\ fault[d] = "none" /\ d > 0
  BY <1>1, Numbered DEF Init
<1>3. Exited = {} /\ Cardinality(Exited) = 0
  BY <1>2, FS_EmptySet DEF Exited
<1>4. Len(resultChannel) = 0 /\ received = 0 /\ phase = "validating"
  BY EmptySeq DEF Init
<1>5. StartedInOrder
  BY <1>2 DEF StartedInOrder, Init
<1>6. EveryExitIsCounted
  BY <1>3, <1>4 DEF EveryExitIsCounted
<1>7. MessagesAreTrue
  BY <1>4 DEF MessagesAreTrue
<1>8. OutcomesAreTrue
  BY <1>2 DEF OutcomesAreTrue, Ended
<1>9. NothingIsLost /\ FailureIsTrue /\ SuccessIsFinal
  BY <1>4 DEF NothingIsLost, FailureIsTrue, SuccessIsFinal
<1>10. FiledUnderItsCode
  BY DEF FiledUnderItsCode, Init
<1> QED
  BY <1>5, <1>6, <1>7, <1>8, <1>9, <1>10 DEF Consistent

(* What the steps of a running goroutine have in common: it neither starts *)
(* nor exits, and it seals its outcome only as it finishes.                *)
Moves(d) ==
  /\ pc[d] \in InCall \cup {"start"}
  /\ pc'[d] \in InCall \cup {"finished"}
  /\ \A e \in Deps \ {d} :
       pc'[e] = pc[e] /\ fault'[e] = fault[e] /\ reply'[e] = reply[e]
  /\ pc'[d] = "finished" \/ fault'[d] = fault[d]
  /\ pc'[d] = "finished" /\ fault'[d] = "none" => reply'[d] = "accepted"
  /\ fault'[d] = "canceled" => fault[d] = "canceled" \/ ContextDone
  /\ UNCHANGED <<request, resultChannel, callerVars>>

(* Ending a call changes one counter and one fault.                        *)
LEMMA FinishMoves ==
  ASSUME TypeOK, NEW d \in Deps, NEW f \in Faults, Finish(d, f)
  PROVE  /\ pc'[d] = "finished" /\ fault'[d] = f
         /\ \A e \in Deps \ {d} : pc'[e] = pc[e] /\ fault'[e] = fault[e]
BY DEF TypeOK, Finish

(* Every step a goroutine takes before it delivers is a move.              *)
LEMMA RunningMoves ==
  ASSUME TypeOK, NEW d \in Deps,
         \/ Prepare(d) \/ Send(d) \/ ReceiveHead(d) \/ ReadBody(d)
         \/ Abort(d) \/ DeadlineExpires(d) \/ TransportFails(d)
  PROVE  Moves(d)
<1> USE DEF Moves, InCall, Faults
<1>1. CASE Prepare(d)
  <2>1. CASE Finish(d, "prepare")
    BY <1>1, <2>1, FinishMoves DEF Prepare
  <2>2. CASE pc' = [pc EXCEPT ![d] = "dialing"] /\ UNCHANGED fault
    BY <1>1, <2>2 DEF Prepare, TypeOK
  <2> QED
    BY <1>1, <2>1, <2>2 DEF Prepare
<1>2. CASE Send(d)
  BY <1>2 DEF Send, TypeOK, callerVars, request
<1>3. CASE ReceiveHead(d)
  <2>1. CASE Finish(d, "response")
    BY <1>3, <2>1, FinishMoves DEF ReceiveHead
  <2>2. CASE pc' = [pc EXCEPT ![d] = "reading"] /\ UNCHANGED fault
    BY <1>3, <2>2 DEF ReceiveHead, TypeOK
  <2> QED
    BY <1>3, <2>1, <2>2 DEF ReceiveHead
<1>4. CASE ReadBody(d)
  BY <1>4, FinishMoves DEF ReadBody
<1>5. CASE Abort(d)
  BY <1>5, FinishMoves DEF Abort
<1>6. CASE DeadlineExpires(d) \/ TransportFails(d)
  BY <1>6, FinishMoves DEF DeadlineExpires, TransportFails
<1> QED
  BY <1>1, <1>2, <1>3, <1>4, <1>5, <1>6

(* A goroutine that moves towards its result disturbs neither the channel  *)
(* nor what was received: the consistency of a call is kept.               *)
LEMMA MovesKeep ==
  ASSUME IInv, NEW d \in Deps, Moves(d)
  PROVE  Consistent'
<1> USE DEF IInv, Consistent, Moves, InCall
<1>0. Deps' = Deps /\ Exited' = Exited /\ d \notin Exited
  BY DEF Deps, Exited, request
<1>1. /\ UNCHANGED <<phase, spawned, ctxDone, received, results, reported>>
      /\ UNCHANGED <<resultChannel, dependencies>>
  BY DEF callerVars, request
<1>2. \A e \in Exited : /\ pc'[e] = pc[e] /\ fault'[e] = fault[e]
                        /\ reply'[e] = reply[e]
  BY <1>0 DEF Exited
<1>3. StartedInOrder'
  BY <1>0, <1>1 DEF StartedInOrder
<1>4. EveryExitIsCounted'
  BY <1>0, <1>1 DEF EveryExitIsCounted
<1>5. \A i \in 1..Len(resultChannel) : resultChannel[i].dep \in Exited
  BY SenderOfMessage DEF MessagesAreTrue, Exited
<1>6. MessagesAreTrue'
  BY <1>1, <1>2, <1>5 DEF MessagesAreTrue
<1>7. NothingIsLost'
  BY <1>0, <1>1, <1>2 DEF NothingIsLost, InChannel, Collected
<1>8. OutcomesAreTrue'
  <2>1. \A e \in Deps \ {d} :
          /\ fault'[e] # "none" => Ended(e)'
          /\ Ended(e)' /\ fault'[e] = "none" => reply'[e] = "accepted"
          /\ fault'[e] = "canceled" /\ ~Returned' => ctxDone'
    BY <1>1 DEF OutcomesAreTrue, Ended, Returned
  <2>2. fault[d] = "none"
    BY DEF OutcomesAreTrue, Ended
  <2>3. /\ fault'[d] # "none" => Ended(d)'
        /\ Ended(d)' /\ fault'[d] = "none" => reply'[d] = "accepted"
        /\ fault'[d] = "canceled" /\ ~Returned' => ctxDone'
    BY <2>2, <1>1 DEF Ended, ContextDone, Cancelled, Returned
  <2> QED
    BY <1>0, <2>1, <2>3 DEF OutcomesAreTrue
<1>9. FailureIsTrue'
  BY <1>0, <1>1, <1>2 DEF FailureIsTrue
<1>10. FiledUnderItsCode'
  <2>1. \A c \in Codes : results[c] # 0 => results[c] \in Exited
    BY DEF FiledUnderItsCode, Answered, Exited, TypeOK
  <2> QED
    BY <1>0, <1>1, <1>2, <2>1 DEF FiledUnderItsCode, Answered
<1>11. SuccessIsFinal'
  BY <1>0, <1>1 DEF SuccessIsFinal, Answered, Exited
<1> QED
  BY <1>3, <1>4, <1>6, <1>7, <1>8, <1>9, <1>10, <1>11


(* A goroutine delivers its result: one exit more, one message more.       *)
LEMMA DeliverKeeps ==
  ASSUME IInv, NEW d \in Deps, Deliver(d)
  PROVE  Consistent'
<1> USE DEF IInv, Consistent
<1>0. /\ Deps' = Deps /\ Exited' = Exited \cup {d} /\ d \notin Exited
      /\ pc' = [pc EXCEPT ![d] = "exited"] /\ pc[d] = "finished"
      /\ pc \in [Deps -> InCall \cup {"unborn", "start", "finished", "exited"}]
  BY DEF Deliver, Deps, Exited, request, TypeOK
<1>1. UNCHANGED <<dependencies, fault, reply, phase, spawned, ctxDone, received,
                  results, reported>>
  BY DEF Deliver, callerVars, request
<1>2. Len(resultChannel) \in Nat /\ Len(resultChannel') = Len(resultChannel) + 1
  BY Delivered
<1>3. /\ \A i \in 1..Len(resultChannel) : resultChannel'[i] = resultChannel[i]
      /\ resultChannel'[Len(resultChannel')].dep = d
      /\ resultChannel'[Len(resultChannel')].err => fault[d] # "none"
      /\ ~resultChannel'[Len(resultChannel')].err => fault[d] = "none"
  BY Delivered
<1>4. StartedInOrder'
  BY <1>0, <1>1 DEF StartedInOrder
<1>5. EveryExitIsCounted'
  <2>1. Cardinality(Exited') = Cardinality(Exited) + 1
    BY <1>0, ExitedIsFinite, FS_AddElement
  <2> QED
    BY <1>1, <1>2, <2>1, ExitedIsFinite DEF EveryExitIsCounted, TypeOK
<1>6. MessagesAreTrue'
  <2> SUFFICES ASSUME NEW i \in 1..Len(resultChannel')
               PROVE  /\ pc'[resultChannel'[i].dep] = "exited"
                      /\ resultChannel'[i].err
                           => fault'[resultChannel'[i].dep] # "none"
                      /\ ~resultChannel'[i].err
                           => fault'[resultChannel'[i].dep] = "none"
    BY DEF MessagesAreTrue
  <2>1. CASE i = Len(resultChannel')
    BY <2>1, <1>0, <1>1, <1>3
  <2>2. CASE i \in 1..Len(resultChannel)
    <3>1. resultChannel[i].dep \in Deps
      BY <2>2, SenderOfMessage
    <3> QED
      BY <2>2, <3>1, <1>0, <1>1, <1>3 DEF MessagesAreTrue
  <2> QED
    BY <2>1, <2>2, <1>2
<1>7. NothingIsLost'
  <2>1. InChannel(d)'
    BY <1>2, <1>3 DEF InChannel
  <2>2. \A e \in Deps : InChannel(e) => InChannel(e)'
    BY <1>2, <1>3 DEF InChannel
  <2> QED
    BY <2>1, <2>2, <1>0, <1>1 DEF NothingIsLost, Collected, Exited
<1>8. OutcomesAreTrue'
  BY <1>0, <1>1 DEF OutcomesAreTrue, Ended, Returned
<1>9. FailureIsTrue'
  BY <1>0, <1>1 DEF FailureIsTrue
<1>10. FiledUnderItsCode'
  BY <1>0, <1>1 DEF FiledUnderItsCode, Answered, TypeOK
<1>11. SuccessIsFinal'
  BY <1>0, <1>1 DEF SuccessIsFinal, Answered
<1> QED
  BY <1>4, <1>5, <1>6, <1>7, <1>8, <1>9, <1>10, <1>11

(* The loop takes a message: one received more, one message less.          *)
LEMMA ReceiveKeeps ==
  ASSUME IInv, Receive
  PROVE  /\ EveryExitIsCounted' /\ MessagesAreTrue'
         /\ Deps' = Deps /\ Exited' = Exited
         /\ UNCHANGED <<dependencies, pc, fault, reply, ctxDone>>
         /\ Head(resultChannel).dep \in Exited
         /\ Head(resultChannel).err => fault[Head(resultChannel).dep] # "none"
         /\ ~Head(resultChannel).err => fault[Head(resultChannel).dep] = "none"
         /\ \A e \in Deps : InChannel(e) =>
              e = Head(resultChannel).dep \/ InChannel(e)'
<1> USE DEF IInv, Consistent
<1>0. /\ Deps' = Deps /\ Exited' = Exited
      /\ UNCHANGED <<dependencies, pc, fault, reply, ctxDone, spawned>>
      /\ phase = "gathering" /\ received' = received + 1
  BY DEF Receive, Deps, Exited, request
<1>1. /\ Len(resultChannel) \in Nat \ {0}
      /\ Len(resultChannel') = Len(resultChannel) - 1
      /\ Head(resultChannel) = resultChannel[1]
      /\ \A i \in 1..Len(resultChannel') : resultChannel'[i] = resultChannel[i + 1]
      /\ Head(resultChannel).dep \in Deps
  BY Received DEF Messages
<1>2. EveryExitIsCounted'
  BY <1>0, <1>1, ExitedIsFinite DEF EveryExitIsCounted, TypeOK
<1>3. MessagesAreTrue'
  <2> SUFFICES ASSUME NEW i \in 1..Len(resultChannel')
               PROVE  /\ pc'[resultChannel'[i].dep] = "exited"
                      /\ resultChannel'[i].err
                           => fault'[resultChannel'[i].dep] # "none"
                      /\ ~resultChannel'[i].err
                           => fault'[resultChannel'[i].dep] = "none"
    BY DEF MessagesAreTrue
  <2>1. i + 1 \in 1..Len(resultChannel) /\ resultChannel'[i] = resultChannel[i + 1]
    BY <1>1
  <2> QED
    BY <2>1, <1>0 DEF MessagesAreTrue
<1>4. /\ Head(resultChannel).dep \in Exited
      /\ Head(resultChannel).err => fault[Head(resultChannel).dep] # "none"
      /\ ~Head(resultChannel).err => fault[Head(resultChannel).dep] = "none"
  BY <1>1 DEF MessagesAreTrue, Exited
<1>5. ASSUME NEW e \in Deps, InChannel(e), e # Head(resultChannel).dep
      PROVE  InChannel(e)'
  <2>1. PICK i \in 1..Len(resultChannel) : resultChannel[i].dep = e
    BY <1>5 DEF InChannel
  <2>2. i - 1 \in 1..Len(resultChannel') /\ resultChannel'[i - 1] = resultChannel[i - 1 + 1]
    BY <2>1, <1>1, <1>5
  <2>3. resultChannel'[i - 1].dep = e
    BY <2>1, <2>2
  <2> QED
    BY <2>2, <2>3 DEF InChannel
<1> QED
  BY <1>0, <1>2, <1>3, <1>4, <1>5

(* Lines 100-102: taking an output files it under its own code.            *)
LEMMA CollectOutputKeeps ==
  ASSUME IInv, CollectOutput
  PROVE  Consistent'
<1> USE DEF IInv, Consistent
<1>0. Receive
  BY DEF CollectOutput
<1>9. PICK d \in Deps : d = Head(resultChannel).dep
  BY <1>0, ReceiveKeeps DEF Exited
<1>1. /\ EveryExitIsCounted' /\ MessagesAreTrue'
      /\ Deps' = Deps /\ Exited' = Exited
      /\ UNCHANGED <<dependencies, pc, fault, reply, ctxDone>>
      /\ d \in Exited /\ fault[d] = "none"
      /\ \A e \in Deps : InChannel(e) => e = d \/ InChannel(e)'
  BY <1>0, <1>9, ReceiveKeeps DEF CollectOutput
<1>2. /\ phase = "gathering" /\ UNCHANGED <<phase, spawned, reported>>
      /\ results' = [c \in Codes |->
                       IF c = dependencies[d].code THEN d ELSE results[c]]
  BY <1>9 DEF CollectOutput, Receive, Filed
<1>3. d \in Deps /\ d # 0
  BY Numbered
<1>4. StartedInOrder'
  BY <1>1, <1>2 DEF StartedInOrder
<1>5. NothingIsLost'
  <2>1. Collected(d)'
    BY <1>1, <1>2, <1>3 DEF Collected
  <2>2. \A e \in Deps : Collected(e) => Collected(e)'
    BY <1>1, <1>2, <1>3 DEF Collected
  <2> QED
    BY <2>1, <2>2, <1>1, <1>2 DEF NothingIsLost, Exited
<1>6. OutcomesAreTrue'
  BY <1>1, <1>2 DEF OutcomesAreTrue, Ended, Returned
<1>7. FailureIsTrue' /\ SuccessIsFinal'
  BY <1>2 DEF FailureIsTrue, SuccessIsFinal
<1>8. FiledUnderItsCode'
  <2>1. Answered(d)
    BY <1>1, <1>3 DEF Answered, Exited, OutcomesAreTrue, Ended
  <2>2. \A e \in Deps : Answered(e) => Answered(e)'
    BY <1>1 DEF Answered
  <2>3. \A c \in Codes : results[c] \in Deps \cup {0}
    BY DEF TypeOK
  <2> QED
    BY <2>1, <2>2, <2>3, <1>1, <1>2, <1>3 DEF FiledUnderItsCode
<1> QED
  BY <1>1, <1>4, <1>5, <1>6, <1>7, <1>8

(* Lines 96-98: taking an error records whose failure ended the call.      *)
LEMMA CollectErrorKeeps ==
  ASSUME IInv, CollectError
  PROVE  Consistent'
<1> USE DEF IInv, Consistent
<1> DEFINE d == Head(resultChannel).dep
<1>0. Receive
  BY DEF CollectError
<1>1. /\ EveryExitIsCounted' /\ MessagesAreTrue'
      /\ Deps' = Deps /\ Exited' = Exited
      /\ UNCHANGED <<dependencies, pc, fault, reply, ctxDone>>
      /\ d \in Exited /\ fault[d] # "none"
  BY <1>0, ReceiveKeeps DEF CollectError
<1>2. /\ phase = "gathering" /\ phase' = "failed" /\ reported' = d
      /\ UNCHANGED <<spawned, results>>
  BY DEF CollectError, Receive
<1> HIDE DEF d
<1>4. StartedInOrder'
  BY <1>1, <1>2 DEF StartedInOrder
<1>5. NothingIsLost' /\ SuccessIsFinal'
  BY <1>2 DEF NothingIsLost, SuccessIsFinal
<1>6. OutcomesAreTrue'
  BY <1>1, <1>2 DEF OutcomesAreTrue, Ended, Returned
<1>7. FailureIsTrue'
  BY <1>1, <1>2 DEF FailureIsTrue, OutcomesAreTrue, Exited, Returned
<1>8. FiledUnderItsCode'
  BY <1>1, <1>2 DEF FiledUnderItsCode, Answered
<1> QED
  BY <1>1, <1>4, <1>5, <1>6, <1>7, <1>8

(* The loop ends only after every goroutine exited: then the channel is    *)
(* empty, and nothing that was lost is left to be found.                   *)
LEMMA AllReceivedMeansAllCollected ==
  ASSUME IInv, phase = "gathering", AllReceived
  PROVE  \A d \in Deps : Answered(d) /\ Collected(d)
<1> USE DEF IInv, Consistent
<1>1. Len(resultChannel) \in Nat
  BY LenProperties DEF TypeOK
<1>2. Exited = Deps /\ Len(resultChannel) = 0
  BY <1>1, ExitedIsFinite, Numbered DEF EveryExitIsCounted, AllReceived
<1>3. \A d \in Deps : ~InChannel(d)
  BY <1>2 DEF InChannel
<1>4. \A d \in Deps : Collected(d)
  BY <1>2, <1>3 DEF NothingIsLost
<1> QED
  BY <1>2, <1>4 DEF Answered, Collected, OutcomesAreTrue, Ended, Exited

(* Line 105: when all results are taken, every dependency answered.        *)
LEMMA ReturnResultsKeeps ==
  ASSUME IInv, ReturnResults
  PROVE  Consistent'
<1> USE DEF IInv, Consistent
<1>1. /\ phase = "gathering" /\ AllReceived /\ phase' = "succeeded"
      /\ UNCHANGED <<request, dependencies, spawned, pc, fault, reply, ctxDone,
                     resultChannel, received, results, reported>>
  BY DEF ReturnResults, request
<1>2. Deps' = Deps /\ Exited' = Exited
  BY <1>1 DEF Deps, Exited
<1>3. SuccessIsFinal'
  BY <1>1, <1>2, AllReceivedMeansAllCollected
  DEF SuccessIsFinal, Answered, Collected
<1>4. StartedInOrder' /\ EveryExitIsCounted' /\ MessagesAreTrue'
  BY <1>1, <1>2 DEF StartedInOrder, EveryExitIsCounted, MessagesAreTrue
<1>5. NothingIsLost' /\ FailureIsTrue'
  BY <1>1 DEF NothingIsLost, FailureIsTrue
<1>6. OutcomesAreTrue' /\ FiledUnderItsCode'
  BY <1>1, <1>2 DEF OutcomesAreTrue, Ended, Returned, FiledUnderItsCode, Answered
<1> QED
  BY <1>3, <1>4, <1>5, <1>6

(* Steps that touch neither a goroutine nor the channel change nothing.    *)
LEMMA OtherStepsKeep ==
  ASSUME IInv,
         \/ ValidateURL \/ Spawn \/ CallerGivesUp \/ UNCHANGED vars
         \/ \E d \in Deps : StoreAnswers(d)
  PROVE  Consistent'
<1> USE DEF IInv, Consistent
<1>1. CASE Spawn
  <2>1. /\ phase = "gathering" /\ spawned' = spawned + 1 /\ spawned + 1 \in Deps
        /\ pc' = [pc EXCEPT ![spawned + 1] = "start"]
        /\ UNCHANGED <<dependencies, phase, fault, reply, ctxDone, resultChannel,
                       received, results, reported>>
    BY <1>1, Numbered DEF Spawn, request, TypeOK
  <2>2. \A d \in Deps : pc'[d] = IF d = spawned + 1 THEN "start" ELSE pc[d]
    BY <2>1 DEF TypeOK
  <2>3. pc[spawned + 1] = "unborn" /\ fault[spawned + 1] = "none"
    <3>1. spawned + 1 > spawned
      BY DEF TypeOK
    <3>2. pc[spawned + 1] = "unborn"
      BY <2>1, <3>1 DEF StartedInOrder
    <3> QED
      BY <2>1, <3>2 DEF OutcomesAreTrue, Ended
  <2>4. Deps' = Deps /\ Exited' = Exited
    <3>1. Deps' = Deps
      BY <2>1 DEF Deps
    <3>2. \A d \in Deps : pc'[d] = "exited" <=> pc[d] = "exited"
      BY <2>2, <2>3
    <3> QED
      BY <3>1, <3>2 DEF Exited
  <2>5. StartedInOrder'
    BY <2>1, <2>2, <2>4, Numbered DEF StartedInOrder, TypeOK
  <2>6. EveryExitIsCounted'
    BY <2>1, <2>4 DEF EveryExitIsCounted
  <2>7. MessagesAreTrue'
    BY <2>1, <2>2, <2>3, SenderOfMessage DEF MessagesAreTrue
  <2>8. NothingIsLost' /\ FailureIsTrue' /\ SuccessIsFinal'
    <3>1. NothingIsLost'
      BY <2>1, <2>4 DEF NothingIsLost, InChannel, Collected
    <3>2. FailureIsTrue' /\ SuccessIsFinal'
      BY <2>1 DEF FailureIsTrue, SuccessIsFinal
    <3> QED
      BY <3>1, <3>2
  <2>9. OutcomesAreTrue'
    BY <2>1, <2>2, <2>3, <2>4 DEF OutcomesAreTrue, Ended, Returned
  <2>10. FiledUnderItsCode'
    BY <2>1, <2>2, <2>3, <2>4 DEF FiledUnderItsCode, Answered, TypeOK
  <2> QED
    BY <2>5, <2>6, <2>7, <2>8, <2>9, <2>10
<1>2. CASE ValidateURL \/ CallerGivesUp \/ UNCHANGED vars
  <2>1. /\ UNCHANGED <<dependencies, spawned, pc, fault, reply, resultChannel,
                       received, results, reported>>
        /\ ctxDone => ctxDone'
        /\ phase' = phase \/ (phase = "validating" /\ phase' \in {"gathering", "rejected"})
    BY <1>2 DEF ValidateURL, CallerGivesUp, vars, request
  <2>2. Deps' = Deps /\ Exited' = Exited
    BY <2>1 DEF Deps, Exited
  <2>3. phase = "validating" => Exited = {}
    BY Numbered DEF StartedInOrder, Exited
  <2>4. StartedInOrder' /\ EveryExitIsCounted' /\ MessagesAreTrue'
    BY <2>1, <2>2 DEF StartedInOrder, EveryExitIsCounted, MessagesAreTrue
  <2>5. NothingIsLost' /\ FailureIsTrue' /\ SuccessIsFinal'
    BY <2>1, <2>2, <2>3
    DEF NothingIsLost, InChannel, Collected, FailureIsTrue, SuccessIsFinal, Answered
  <2>6. OutcomesAreTrue' /\ FiledUnderItsCode'
    BY <2>1, <2>2 DEF OutcomesAreTrue, Ended, Returned, FiledUnderItsCode, Answered
  <2> QED
    BY <2>4, <2>5, <2>6
<1>3. ASSUME NEW d \in Deps, StoreAnswers(d)
      PROVE  Consistent'
  <2>1. UNCHANGED <<dependencies, phase, spawned, pc, fault, ctxDone, resultChannel,
                    received, results, reported>>
    BY <1>3 DEF StoreAnswers, callerVars, request
  <2>2. \A e \in Deps : reply[e] = "accepted" => reply'[e] = "accepted"
    BY <1>3 DEF StoreAnswers, TypeOK
  <2>3. Deps' = Deps /\ Exited' = Exited
    BY <2>1 DEF Deps, Exited
  <2>4. StartedInOrder' /\ EveryExitIsCounted' /\ MessagesAreTrue'
    BY <2>1, <2>3 DEF StartedInOrder, EveryExitIsCounted, MessagesAreTrue
  <2>5. NothingIsLost' /\ FailureIsTrue'
    BY <2>1, <2>3 DEF NothingIsLost, InChannel, Collected, FailureIsTrue
  <2>6. OutcomesAreTrue' /\ SuccessIsFinal'
    BY <2>1, <2>2, <2>3
    DEF OutcomesAreTrue, Ended, Returned, SuccessIsFinal, Answered, Collected
  <2>7. FiledUnderItsCode'
    BY <2>1, <2>2 DEF FiledUnderItsCode, Answered, TypeOK
  <2> QED
    BY <2>4, <2>5, <2>6, <2>7
<1> QED
  BY <1>1, <1>2, <1>3

(* Every step keeps the invariant.                                         *)
LEMMA ConsistentKept ==
  ASSUME IInv, [Next]_vars
  PROVE  Consistent'
<1> USE DEF IInv
<1>1. CASE Caller
  BY <1>1, OtherStepsKeep, CollectOutputKeeps, CollectErrorKeeps, ReturnResultsKeeps
  DEF Caller
<1>2. ASSUME NEW d \in Deps,
             Goroutine(d) \/ DeadlineExpires(d) \/ TransportFails(d) \/ StoreAnswers(d)
      PROVE  Consistent'
  BY <1>2, DeliverKeeps, RunningMoves, MovesKeep, OtherStepsKeep DEF Goroutine
<1>3. CASE CallerGivesUp \/ UNCHANGED vars
  BY <1>3, OtherStepsKeep
<1> QED
  BY <1>1, <1>2, <1>3 DEF Next

(* In every reachable state of every call, the channel holds exactly the   *)
(* results that were sent and not received, and what was filed or reported *)
(* came from the goroutine it names.                                       *)
THEOREM Invariance == Spec => []IInv
<1>1. Init => IInv
  BY TypesInitially, ConsistentInitially DEF IInv
<1>2. IInv /\ [Next]_vars => IInv'
  BY TypesKept, ConsistentKept DEF IInv
<1> QED
  BY <1>1, <1>2, PTL DEF Spec

------------------------------------------------------------------------------
(* Invoke returns results only when every dependency was carried out.      *)
THEOREM SuccessIsCompleteTheorem == Spec => []SuccessIsComplete
<1>1. IInv => SuccessIsComplete
  BY DEF IInv, Consistent, SuccessIsFinal, SuccessIsComplete
<1> QED
  BY <1>1, Invariance, PTL

(* Outputs are filed under the code they belong to, in whatever order the  *)
(* goroutines finish.                                                      *)
THEOREM ResultsMatchCodesTheorem == Spec => []ResultsMatchCodes
<1>1. IInv => ResultsMatchCodes
  BY DEF IInv, Consistent, SuccessIsFinal, FiledUnderItsCode, Collected,
         ResultsMatchCodes
<1> QED
  BY <1>1, Invariance, PTL

(* A goroutine is never stuck on its send, however many dependencies there *)
(* are and whenever Invoke stopped receiving.                              *)
THEOREM SendersNeverBlockTheorem == Spec => []SendersNeverBlock
<1>1. IInv => SendersNeverBlock
  <2> SUFFICES ASSUME IInv, NEW d \in Deps, pc[d] = "finished"
               PROVE  Len(resultChannel) < ChannelCapacity
    BY DEF SendersNeverBlock
  <2> USE DEF IInv, Consistent
  <2>1. Exited # Deps
    BY DEF Exited
  <2>2. Len(resultChannel) \in Nat /\ received \in Nat /\ Len(dependencies) \in Nat
    BY LenProperties, Numbered DEF TypeOK
  <2> QED
    BY <2>1, <2>2, ExitedIsFinite DEF EveryExitIsCounted, ChannelCapacity
<1> QED
  BY <1>1, Invariance, PTL

(* The results the loop waits for are as many as the goroutines owe or     *)
(* have sent: those that did not exit are what the exited ones leave.      *)
THEOREM NoResultIsAwaitedInVainTheorem == Spec => []NoResultIsAwaitedInVain
<1>1. IInv => NoResultIsAwaitedInVain
  <2> SUFFICES ASSUME IInv
               PROVE  NoResultIsAwaitedInVain
    OBVIOUS
  <2> USE DEF IInv, Consistent
  <2>1. Owing = Deps \ Exited /\ Deps \cap Exited = Exited
    BY DEF Owing, Exited
  <2>2. Cardinality(Owing) = Cardinality(Deps) - Cardinality(Exited)
    BY <2>1, Numbered, FS_Difference
  <2>3. /\ Len(resultChannel) \in Nat /\ received \in Nat
        /\ Len(dependencies) \in Nat /\ Cardinality(Exited) \in Nat
    BY LenProperties, Numbered, ExitedIsFinite DEF TypeOK
  <2>4. received + Len(resultChannel) = Cardinality(Exited)
    BY DEF EveryExitIsCounted
  <2> QED
    BY <2>2, <2>3, <2>4, Numbered DEF NoResultIsAwaitedInVain
<1> QED
  BY <1>1, Invariance, PTL

(* The error of a failed call is never one that Invoke's own cancellation  *)
(* caused.                                                                 *)
THEOREM ReportedErrorIsARootCauseTheorem == Spec => []ReportedErrorIsARootCause
<1>1. IInv => ReportedErrorIsARootCause
  BY DEF IInv, Consistent, FailureIsTrue, ReportedErrorIsARootCause
<1> QED
  BY <1>1, Invariance, PTL

------------------------------------------------------------------------------
(* Refinement.  A dependency's fate is settled when its goroutine finishes,*)
(* the caller's outcome when the phase leaves "gathering".                 *)

(* The fate of a dependency, read off its program counter and fault.       *)
LEMMA FateOf ==
  ASSUME NEW d \in Deps
  PROVE  /\ Fate[d] = "open" <=> ~Ended(d)
         /\ Fate[d] = "answered" <=> Ended(d) /\ fault[d] = "none"
         /\ Fate[d] = "failed" <=> Ended(d) /\ fault[d] # "none"
BY DEF Fate, Ended

(* A fate depends on nothing but program counters and faults.              *)
LEMMA FateIsKept ==
  ASSUME Deps' = Deps,
         \A d \in Deps : Ended(d)' = Ended(d) /\ (Ended(d) => fault'[d] = fault[d])
  PROVE  Fate' = Fate
BY DEF Fate, Ended

(* A call that begins is an abstract call that begins.                     *)
LEMMA InitRefines == ASSUME Init PROVE Gather!Init
<1>1. \A d \in Deps : pc[d] = "unborn"
  BY DEF Init
<1>2. Fate = [d \in Deps |-> "open"]
  BY <1>1 DEF Fate
<1>3. Outcome = "pending" /\ Returns = [c \in Codes |-> 0] /\ dependencies \in Requests
  BY DEF Init, Outcome, Returns
<1> QED
  BY <1>2, <1>3 DEF Gather!Init, Gather!NoResults, Gather!Deps, Deps

(* A goroutine that moves seals at most its own fate.                      *)
LEMMA MovesRefine ==
  ASSUME IInv, NEW d \in Deps, Moves(d)
  PROVE  [Gather!Next]_Gather!vars
<1> USE DEF IInv, Consistent, Moves, InCall
<1>1. /\ UNCHANGED <<dependencies, phase, results>> /\ Deps' = Deps
      /\ ~Ended(d) /\ ~(pc'[d] = "exited")
  BY DEF callerVars, request, Deps, Ended
<1>2. UNCHANGED <<dependencies, Outcome, Returns>>
  BY <1>1 DEF Outcome, Returns
<1>3. \A e \in Deps \ {d} : Ended(e)' = Ended(e) /\ fault'[e] = fault[e]
  BY DEF Ended
<1>4. CASE pc'[d] # "finished"
  <2>1. ~Ended(d)'
    BY <1>1, <1>4 DEF Ended
  <2>2. \A e \in Deps :
          Ended(e)' = Ended(e) /\ (Ended(e) => fault'[e] = fault[e])
    BY <1>1, <1>3, <2>1 DEF Ended
  <2>3. Fate' = Fate
    BY <1>1, <2>2, FateIsKept
  <2> QED
    BY <1>2, <2>3 DEF Gather!vars
<1>5. CASE pc'[d] = "finished"
  <2> DEFINE f == IF fault'[d] = "none" THEN "answered" ELSE "failed"
  <2>1. Fate' = [Fate EXCEPT ![d] = f]
    BY <1>1, <1>3, <1>5 DEF Fate, Ended
  <2>2. Outcome # "rejected"
    BY Numbered DEF StartedInOrder, Outcome, TypeOK
  <2>3. Fate[d] = "open"
    BY <1>1, FateOf
  <2>4. Gather!Settle(d)
    BY <1>2, <2>1, <2>2, <2>3 DEF Gather!Settle
  <2> QED
    BY <2>4 DEF Gather!Next, Gather!Deps, Deps
<1> QED
  BY <1>4, <1>5

(* Returning results is returning one output per code that was asked for.  *)
LEMMA ReturnResultsRefines ==
  ASSUME IInv, ReturnResults
  PROVE  Gather!ReturnResults
<1> USE DEF IInv, Consistent
<1>1. /\ phase = "gathering" /\ AllReceived /\ phase' = "succeeded"
      /\ UNCHANGED <<dependencies, pc, fault, results>>
  BY DEF ReturnResults, request
<1>2. Deps' = Deps /\ Gather!Deps = Deps
  BY <1>1 DEF Deps, Gather!Deps
<1>3. \A d \in Deps : Answered(d) /\ Collected(d)
  BY <1>1, AllReceivedMeansAllCollected
<1>4. \A d \in Deps : Fate[d] = "answered"
  BY <1>3, FateOf DEF Answered, Ended
<1>5. Fate' = Fate
  BY <1>1, <1>2, FateIsKept DEF Ended
<1>6. Outcome = "pending" /\ Outcome' = "ok"
  BY <1>1 DEF Outcome
<1>7. Returns' = results /\ results \in [Codes -> Deps \cup {0}]
  BY <1>1 DEF Returns, TypeOK
<1>8. ASSUME NEW c \in Codes
      PROVE  IF Gather!Named(c) = {} THEN results[c] = 0
                                     ELSE results[c] \in Gather!Named(c)
  <2>1. results[c] = 0 \/ results[c] \in Gather!Named(c)
    BY <1>2, <1>7, <1>8 DEF FiledUnderItsCode, Gather!Named
  <2>2. Gather!Named(c) # {} => results[c] # 0
    BY <1>2, <1>3, <1>8 DEF Collected, Gather!Named
  <2> QED
    BY <2>1, <2>2
<1> QED
  BY <1>1, <1>2, <1>4, <1>5, <1>6, <1>7, <1>8 DEF Gather!ReturnResults

(* Every step of Invoke is a step of ScatterGather, or none.               *)
LEMMA StepRefines ==
  ASSUME IInv, IInv', [Next]_vars
  PROVE  [Gather!Next]_Gather!vars
<1> USE DEF IInv, Consistent
<1>1. ASSUME UNCHANGED <<dependencies, phase, fault>>,
             phase = "succeeded" => results' = results,
             \A d \in Deps : Ended(d)' = Ended(d)
      PROVE  UNCHANGED Gather!vars
  <2>1. Deps' = Deps
    BY <1>1 DEF Deps
  <2>2. Fate' = Fate
    BY <1>1, <2>1, FateIsKept
  <2>3. Outcome' = Outcome /\ Returns' = Returns
    BY <1>1 DEF Outcome, Returns
  <2> QED
    BY <1>1, <2>2, <2>3 DEF Gather!vars
<1>2. CASE ValidateURL
  <2>1. CASE phase' = "gathering"
    <3>1. Outcome' = Outcome /\ Returns' = Returns /\ Deps' = Deps
      BY <1>2, <2>1 DEF ValidateURL, Outcome, Returns, Deps, request
    <3>2. Fate' = Fate
      BY <1>2, <3>1, FateIsKept DEF ValidateURL, Ended
    <3> QED
      BY <1>2, <3>1, <3>2 DEF ValidateURL, request, Gather!vars
  <2>2. CASE phase' = "rejected"
    <3>1. /\ Outcome = "pending" /\ Outcome' = "rejected"
          /\ Returns' = Returns /\ Deps' = Deps
      BY <1>2, <2>2 DEF ValidateURL, Outcome, Returns, Deps, request
    <3>2. Fate' = Fate
      BY <1>2, <3>1, FateIsKept DEF ValidateURL, Ended
    <3>3. \A d \in Deps : pc[d] = "unborn"
      BY <1>2, Numbered DEF ValidateURL, StartedInOrder
    <3>4. \A d \in Deps : Fate[d] = "open"
      BY <3>3, FateOf DEF Ended
    <3> QED
      BY <1>2, <3>1, <3>2, <3>4
      DEF ValidateURL, request, Gather!Next, Gather!Reject, Gather!Deps, Deps
  <2> QED
    BY <1>2, <2>1, <2>2 DEF ValidateURL
<1>3. CASE Spawn
  <2>1. /\ UNCHANGED <<dependencies, phase, fault, results>>
        /\ pc' = [pc EXCEPT ![spawned + 1] = "start"]
        /\ spawned + 1 \in Deps
    BY <1>3, Numbered DEF Spawn, request, TypeOK
  <2>2. pc[spawned + 1] = "unborn"
    <3>1. spawned + 1 > spawned
      BY DEF TypeOK
    <3> QED
      BY <2>1, <3>1 DEF StartedInOrder
  <2>3. \A d \in Deps : Ended(d)' = Ended(d)
    BY <2>1, <2>2 DEF Ended, TypeOK
  <2> QED
    BY <1>1, <2>1, <2>3
<1>4. CASE CollectOutput
  BY <1>1, <1>4 DEF CollectOutput, Receive, Ended, request
<1>5. CASE CollectError
  <2>1. /\ phase = "gathering" /\ phase' = "failed"
        /\ UNCHANGED <<dependencies, pc, fault, results>> /\ Deps' = Deps
    BY <1>5 DEF CollectError, Receive, request, Deps
  <2>2. /\ Outcome = "pending" /\ Outcome' = "error" /\ Returns' = Returns
    BY <2>1 DEF Outcome, Returns
  <2>3. Fate' = Fate
    BY <2>1, FateIsKept DEF Ended
  <2>4. PICK d \in Deps : pc'[d] = "exited" /\ fault'[d] # "none"
    BY <2>1 DEF FailureIsTrue, Exited
  <2>5. Fate[d] = "failed"
    BY <2>1, <2>4, FateOf DEF Ended
  <2> QED
    BY <2>1, <2>2, <2>3, <2>5
    DEF Gather!Next, Gather!ReturnError, Gather!Deps, Deps
<1>6. CASE ReturnResults
  BY <1>6, ReturnResultsRefines DEF Gather!Next
<1>7. ASSUME NEW d \in Deps, Deliver(d)
      PROVE  UNCHANGED Gather!vars
  <2>1. /\ UNCHANGED <<dependencies, phase, fault, results>>
        /\ pc' = [pc EXCEPT ![d] = "exited"] /\ pc[d] = "finished"
    BY <1>7 DEF Deliver, callerVars, request
  <2>2. \A e \in Deps : Ended(e)' = Ended(e)
    BY <2>1 DEF Ended, TypeOK
  <2> QED
    BY <1>1, <2>1, <2>2
<1>8. ASSUME NEW d \in Deps, StoreAnswers(d)
      PROVE  UNCHANGED Gather!vars
  BY <1>1, <1>8 DEF StoreAnswers, callerVars, request, Ended
<1>9. CASE CallerGivesUp \/ UNCHANGED vars
  BY <1>1, <1>9 DEF CallerGivesUp, vars, request, Ended
<1> QED
  BY <1>2, <1>3, <1>4, <1>5, <1>6, <1>7, <1>8, <1>9, RunningMoves, MovesRefine
  DEF Next, Caller, Goroutine

(* A call of Invoke, with its goroutines, its channel, its deadlines and   *)
(* its cancellations, is a scatter and gather: it returns the output of    *)
(* every dependency, or an error some dependency really met, or it refuses *)
(* the request before it touched any.                                      *)
THEOREM InvokeScattersAndGathers == Spec => ScattersAndGathers
<1>1. Init => Gather!Init
  BY InitRefines
<1>2. IInv /\ IInv' /\ [Next]_vars => [Gather!Next]_Gather!vars
  BY StepRefines
<1> QED
  BY <1>1, <1>2, Invariance, PTL DEF Spec, Gather!Spec, ScattersAndGathers

==============================================================================
