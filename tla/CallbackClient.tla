---------------------------- MODULE CallbackClient ----------------------------
(***************************************************************************)
(* One call of CallbackClient.Invoke: the parallel callbacks by which a    *)
(* root agent has AgentStore run its dependencies.                         *)
(*                                                                         *)
(* The processes are the calling goroutine, one goroutine per dependency,  *)
(* the caller's context and AgentStore.  The dependency goroutines report  *)
(* over one buffered channel; the first error that is received ends the    *)
(* call and cancels the context every sibling's request runs under.        *)
(*                                                                         *)
(* Abstracted: the payload is the dependency it belongs to (results[c] = d *)
(* says the output of dependency d was stored under code c); an answer is  *)
(* one of the ways the client tells answers apart; deadlines have no       *)
(* length here, they may fire at any moment of a call.                     *)
(***************************************************************************)
EXTENDS Naturals, Sequences, FiniteSets

CONSTANTS
  Codes,               \* agent codes
  NoCode,              \* an empty last element, or an empty call path
  MaxDependencyDepth,  \* longest call path the client accepts
  CallbackURLs,        \* callback URLs a request may carry
  AllowedOrigins,      \* callback.allowedOrigins of the configuration
  MaxDependencies,     \* bound of the model: dependencies of one request
  Requests             \* the dependency lists a request may carry

(* A dependency as Invoke sees it: the code its result is filed under, the *)
(* length of its call path, and whether its payload exceeds the body cap.  *)
Dependency ==
  [code : Codes \cup {NoCode}, depth : Nat, oversized : BOOLEAN]

ASSUME ConstantsAssumption ==
  /\ NoCode \notin Codes
  /\ MaxDependencyDepth \in Nat \ {0}
  /\ MaxDependencies \in Nat
  /\ \A r \in Requests : r \in Seq(Dependency) /\ Len(r) <= MaxDependencies

VARIABLES
  callbackURL,    \* the URL the request carries
  dependencies,   \* the dependencies the request carries
  phase,          \* where the calling goroutine is, and how it returned
  spawned,        \* dependency goroutines started so far
  pc,             \* where each dependency goroutine is
  fault,          \* why its call failed, "none" if it did not
  reply,          \* AgentStore's side of each callback
  ctxDone,        \* the caller's context is done
  resultChannel,  \* the buffered channel of results
  received,       \* results received so far
  results,        \* per code, the dependency whose output is filed there
  reported        \* the dependency whose error was returned, 0 if none

vars == <<callbackURL, dependencies, phase, spawned, pc, fault, reply,
          ctxDone, resultChannel, received, results, reported>>

request == <<callbackURL, dependencies>>

Deps == DOMAIN dependencies

(* The connection is being made, the answer awaited, or its body read.     *)
InCall == {"dialing", "waiting", "reading"}

Faults == {"none", "prepare", "transport", "deadline", "canceled", "response"}

(* How AgentStore's answer looks to the client: a well-formed success; a   *)
(* redirect, another status or a length that fails on the headers; a body  *)
(* that is too long, not JSON, unsuccessful or without a result.           *)
Answers == {"accepted", "badHead", "badBody"}

Returned == phase \in {"rejected", "succeeded", "failed"}

------------------------------------------------------------------------------
(* validateCallbackURL: only an exact URL of an allowed origin passes.     *)
ValidCallbackURL(url) == url.exact /\ url.origin \in AllowedOrigins

(* callbackTimeout: an empty or too long call path has no timeout.         *)
ValidDepth(d) == dependencies[d].depth \in 1..MaxDependencyDepth

(* The channel has one slot per dependency.                                *)
ShortChannelCapacity == Len(dependencies) - 1
ChannelCapacity == Len(dependencies)

(* The receiving loop has taken one result per dependency.                 *)
AlmostAllReceived == received + 1 >= Len(dependencies)
AllReceived == received = Len(dependencies)

(* The result is filed under its code; a result without a code is dropped, *)
(* a later one under the same code replaces the earlier.                   *)
FiledInOrderOfArrival(d) ==
  [c \in Codes |->
     IF c = dependencies[received + 1].code THEN d ELSE results[c]]
Filed(d) ==
  [c \in Codes |-> IF c = dependencies[d].code THEN d ELSE results[c]]

(* cancel() runs when an error was received, and when Invoke returns.      *)
NeverCancelled == FALSE
CancelledByAnyFault ==
  Returned \/ \E d \in Deps : pc[d] = "finished" /\ fault[d] # "none"
Cancelled == phase \in {"succeeded", "failed"}

(* The context each request runs under derives from the caller's.          *)
DetachedContextDone == Cancelled
ContextDone == ctxDone \/ Cancelled

Init ==
  /\ callbackURL \in CallbackURLs
  /\ dependencies \in Requests
  /\ phase = "validating"
  /\ spawned = 0
  /\ pc = [d \in Deps |-> "unborn"]
  /\ fault = [d \in Deps |-> "none"]
  /\ reply = [d \in Deps |-> "none"]
  /\ ctxDone = FALSE
  /\ resultChannel = << >>
  /\ received = 0
  /\ results = [c \in Codes |-> 0]
  /\ reported = 0

------------------------------------------------------------------------------
(* The calling goroutine.                                                  *)

ValidateURL ==
  /\ phase = "validating"
  /\ \/ ValidCallbackURL(callbackURL) /\ phase' = "gathering"
     \/ ~ValidCallbackURL(callbackURL) /\ phase' = "rejected"
  /\ UNCHANGED <<request, spawned, pc, fault, reply, ctxDone, resultChannel,
                 received, results, reported>>

Spawn ==
  /\ phase = "gathering"
  /\ spawned < Len(dependencies)
  /\ spawned' = spawned + 1
  /\ pc' = [pc EXCEPT ![spawned + 1] = "start"]
  /\ UNCHANGED <<request, phase, fault, reply, ctxDone, resultChannel,
                 received, results, reported>>

(* What every turn of the receiving loop does: all goroutines are started  *)
(* before the first receive.                                               *)
Receive ==
  /\ phase = "gathering"
  /\ spawned = Len(dependencies)
  /\ ~AllReceived
  /\ resultChannel # << >>
  /\ resultChannel' = Tail(resultChannel)
  /\ received' = received + 1
  /\ UNCHANGED <<request, spawned, pc, fault, reply, ctxDone>>

CollectOutput ==
  /\ Receive
  /\ ~Head(resultChannel).err
  /\ results' = Filed(Head(resultChannel).dep)
  /\ UNCHANGED <<phase, reported>>

(* The first error that is received ends the call.                         *)
SkipError ==
  /\ Receive
  /\ Head(resultChannel).err
  /\ UNCHANGED <<phase, reported, results>>
CollectError ==
  /\ Receive
  /\ Head(resultChannel).err
  /\ phase' = "failed"
  /\ reported' = Head(resultChannel).dep
  /\ UNCHANGED results

ReturnResults ==
  /\ phase = "gathering"
  /\ spawned = Len(dependencies)
  /\ AllReceived
  /\ phase' = "succeeded"
  /\ UNCHANGED <<request, spawned, pc, fault, reply, ctxDone, resultChannel,
                 received, results, reported>>

------------------------------------------------------------------------------
(* The goroutine of dependency d.                                          *)

callerVars == <<phase, spawned, ctxDone, received, results, reported>>

(* The call is over, for reason f; the result still has to be delivered.   *)
Finish(d, f) ==
  /\ pc' = [pc EXCEPT ![d] = "finished"]
  /\ fault' = [fault EXCEPT ![d] = f]

(* A goroutine that reports only the calls it made.                        *)
PrepareSilently(d) ==
  /\ pc[d] = "start"
  /\ \/ /\ ValidDepth(d) /\ ~dependencies[d].oversized
        /\ pc' = [pc EXCEPT ![d] = "dialing"]
     \/ /\ ~ValidDepth(d) \/ dependencies[d].oversized
        /\ pc' = [pc EXCEPT ![d] = "exited"]
  /\ UNCHANGED <<request, fault, reply, resultChannel, callerVars>>

(* Encode the payload, check it against the cap, compute the timeout, arm  *)
(* the deadline and resolve the pinned address.                            *)
Prepare(d) ==
  /\ pc[d] = "start"
  /\ \/ /\ ValidDepth(d) /\ ~dependencies[d].oversized
        /\ pc' = [pc EXCEPT ![d] = "dialing"]
        /\ UNCHANGED fault
     \/ /\ ~ValidDepth(d) \/ dependencies[d].oversized
        /\ Finish(d, "prepare")
  /\ UNCHANGED <<request, reply, resultChannel, callerVars>>

(* The transport writes the request.  The write races with a cancellation, *)
(* so a request may still leave after the context is done.                 *)
Send(d) ==
  /\ pc[d] = "dialing"
  /\ pc' = [pc EXCEPT ![d] = "waiting"]
  /\ reply' = [reply EXCEPT ![d] = "sent"]
  /\ UNCHANGED <<request, fault, resultChannel, callerVars>>

ReceiveHead(d) ==
  /\ pc[d] = "waiting"
  /\ reply[d] \in Answers
  /\ \/ reply[d] = "badHead" /\ Finish(d, "response")
     \/ /\ reply[d] # "badHead"
        /\ pc' = [pc EXCEPT ![d] = "reading"]
        /\ UNCHANGED fault
  /\ UNCHANGED <<request, reply, resultChannel, callerVars>>

ReadBody(d) ==
  /\ pc[d] = "reading"
  /\ \/ reply[d] = "accepted" /\ Finish(d, "none")
     \/ reply[d] # "accepted" /\ Finish(d, "response")
  /\ UNCHANGED <<request, reply, resultChannel, callerVars>>

(* The four ways a call ends early.  An abandoned request may still reach  *)
(* AgentStore and be carried out there.                                    *)
Abort(d) ==
  /\ pc[d] \in InCall
  /\ ContextDone
  /\ Finish(d, "canceled")
  /\ UNCHANGED <<request, reply, resultChannel, callerVars>>

NoDeadline(d) == FALSE /\ UNCHANGED vars
DeadlineExpires(d) ==
  /\ pc[d] \in InCall
  /\ Finish(d, "deadline")
  /\ UNCHANGED <<request, reply, resultChannel, callerVars>>

TransportFails(d) ==
  /\ pc[d] \in InCall
  /\ Finish(d, "transport")
  /\ UNCHANGED <<request, reply, resultChannel, callerVars>>

Deliver(d) ==
  /\ pc[d] = "finished"
  /\ Len(resultChannel) < ChannelCapacity
  /\ resultChannel' = Append(resultChannel,
                             [dep |-> d, err |-> fault[d] # "none"])
  /\ pc' = [pc EXCEPT ![d] = "exited"]
  /\ UNCHANGED <<request, fault, reply, callerVars>>

------------------------------------------------------------------------------
(* The environment.                                                        *)

(* The client disconnects or the invocation runs out of time.  (Once       *)
(* Invoke returned its own cancel() has the same effect.)                  *)
CallerGivesUp ==
  /\ ~Returned
  /\ ~ctxDone
  /\ ctxDone' = TRUE
  /\ UNCHANGED <<request, phase, spawned, pc, fault, reply, resultChannel,
                 received, results, reported>>

(* AgentStore answers a callback, whether or not anyone still waits.       *)
StoreAnswers(d) ==
  /\ reply[d] = "sent"
  /\ reply' \in {[reply EXCEPT ![d] = a] : a \in Answers}
  /\ UNCHANGED <<request, pc, fault, resultChannel, callerVars>>

Caller == ValidateURL \/ Spawn \/ CollectOutput \/ CollectError \/ ReturnResults

Goroutine(d) ==
  \/ Prepare(d) \/ Send(d) \/ ReceiveHead(d) \/ ReadBody(d) \/ Abort(d)
  \/ Deliver(d)

Next ==
  \/ Caller
  \/ \E d \in Deps :
       Goroutine(d) \/ DeadlineExpires(d) \/ TransportFails(d) \/ StoreAnswers(d)
  \/ CallerGivesUp

Spec == Init /\ [][Next]_vars

(* The Go scheduler runs every goroutine that can run.  Nothing is assumed *)
(* of AgentStore, of the network or of the caller.                         *)
Scheduling ==
  /\ WF_vars(Caller)
  /\ \A d \in 1..MaxDependencies : WF_vars(d \in Deps /\ Goroutine(d))

FairSpec == Spec /\ Scheduling

(* An armed deadline fires.  Only a property that says so waits for one.   *)
Deadlines ==
  \A d \in 1..MaxDependencies : WF_vars(d \in Deps /\ DeadlineExpires(d))

------------------------------------------------------------------------------
TypeOK ==
  /\ callbackURL \in CallbackURLs
  /\ dependencies \in Requests
  /\ phase \in {"validating", "gathering", "rejected", "succeeded", "failed"}
  /\ spawned \in 0..Len(dependencies)
  /\ pc \in [Deps -> InCall \cup {"unborn", "start", "finished", "exited"}]
  /\ fault \in [Deps -> Faults]
  /\ reply \in [Deps -> Answers \cup {"none", "sent"}]
  /\ ctxDone \in BOOLEAN
  /\ resultChannel \in Seq([dep : Deps, err : BOOLEAN])
  /\ received \in 0..Len(dependencies)
  /\ results \in [Codes -> Deps \cup {0}]
  /\ reported \in Deps \cup {0}

(* A dependency whose call ended well, with an answer the client accepts.  *)
Answered(d) ==
  pc[d] = "exited" /\ fault[d] = "none" /\ reply[d] = "accepted"

(* Invoke returns results only when AgentStore carried out every           *)
(* dependency, those that have no code to file a result under included:    *)
(* the receiving loop of lines 94-103 may neither stop early nor pass over *)
(* an error.                                                               *)
SuccessIsComplete == phase = "succeeded" => \A d \in Deps : Answered(d)

(* Whatever order the goroutines answer in, an output is filed under the   *)
(* code of the dependency it belongs to, and a returned map has an output  *)
(* for every code that was asked for (lines 86-90, 100-102).               *)
ResultsMatchCodes ==
  /\ \A c \in Codes : results[c] # 0 =>
       Answered(results[c]) /\ dependencies[results[c]].code = c
  /\ phase = "succeeded" =>
       \A d \in Deps :
         dependencies[d].code \in Codes => results[dependencies[d].code] # 0

(* A goroutine that has its result can always send it, although Invoke     *)
(* stops receiving at the first error: line 74 makes the channel as long   *)
(* as the list of dependencies.                                            *)
SendersNeverBlock ==
  \A d \in Deps : pc[d] = "finished" => Len(resultChannel) < ChannelCapacity

(* The receiving loop counts results and knows nothing of goroutines       *)
(* (lines 94-103): each result it still waits for is in the channel, or is *)
(* owed by a goroutine that has not ended.  Were one too few sent, on an   *)
(* early error of lines 109-137 say, a call without a caller's deadline    *)
(* would wait for ever; were one sent twice, a call would return without   *)
(* the answer of another dependency.                                       *)
Owing == {d \in Deps : pc[d] # "exited"}

NoResultIsAwaitedInVain ==
  Len(dependencies) - received = Len(resultChannel) + Cardinality(Owing)

(* The error Invoke returns is the failure that ended the call, never the  *)
(* "context canceled" that Invoke's own cancel() causes in the siblings    *)
(* (lines 95-99): a cancellation is reported only when the caller gave up. *)
ReportedErrorIsARootCause ==
  phase = "failed" =>
    /\ fault[reported] # "none"
    /\ fault[reported] = "canceled" => ctxDone

AllExited == \A d \in Deps : pc[d] \in {"unborn", "exited"}

(* Invoke returns and every goroutine it started ends, even when           *)
(* AgentStore never answers: each request runs under the deadline of line  *)
(* 126, and the channel of line 74 has room for results nobody receives.   *)
InvokeEnds == Deadlines => <>[](Returned /\ AllExited)

(* After the first error the siblings stop at once, without waiting for    *)
(* AgentStore or for their deadlines (cancel() at lines 76 and 97).        *)
FailureStopsSiblings == phase = "failed" ~> AllExited

(* When the caller gives up, Invoke returns without waiting either.        *)
CancellationReturns == ctxDone ~> Returned

------------------------------------------------------------------------------
(* What is left of a call when goroutines, channel and deadlines are       *)
(* hidden: each dependency's fate is sealed when its request ends, and the *)
(* half-filled map of a failed call is never seen.                         *)
Fate ==
  [d \in Deps |->
     CASE pc[d] \notin {"finished", "exited"} -> "open"
       [] pc[d] \in {"finished", "exited"} /\ fault[d] = "none" -> "answered"
       [] OTHER -> "failed"]

Outcome ==
  CASE phase \in {"validating", "gathering"} -> "pending"
    [] phase = "succeeded" -> "ok"
    [] phase = "failed" -> "error"
    [] OTHER -> "rejected"

Returns == [c \in Codes |-> IF phase = "succeeded" THEN results[c] ELSE 0]

Gather == INSTANCE ScatterGather
            WITH fate <- Fate, outcome <- Outcome, results <- Returns

(* A call of Invoke is a scatter and gather: all outputs, or an error that *)
(* really happened.                                                        *)
ScattersAndGathers == Gather!Spec

==============================================================================
