----------------------------- MODULE ChatStream -----------------------------
(***************************************************************************)
(* An AI chat: the request thread hands a task to a bounded pool; a pool   *)
(* thread calls the model and copies its stream to the client's SseEmitter *)
(* within limits; closeStream, run by the container when the emitter times *)
(* out, fails or completes, cancels the model call from another thread.    *)
(*                                                                         *)
(* An emitter is open until somebody completes it or the container finds   *)
(* that it timed out or failed; from then on its send throws.  Only after  *)
(* that does the container run the callbacks, one after the other.  A text *)
(* is its length in characters.  Lines of the model's stream that are no   *)
(* data change nothing and are left out.                                   *)
(***************************************************************************)
EXTENDS Integers, Sequences, FiniteSets

CONSTANTS
  Chats,           \* the chats clients send, numbered in the order they reach the pool
  PoolSize,        \* hmdp.chat.executor.pool-size
  QueueCapacity,   \* hmdp.chat.executor.queue-capacity
  MaxEvents,       \* hmdp.chat.stream.max-events
  MaxCharacters,   \* hmdp.chat.stream.max-characters
  Sizes,           \* lengths of the texts the model sends; 0: data that has none, or does not parse
  Faults           \* what may go wrong, a subset of FaultKinds

FaultKinds ==
  {"client",       \* the browser goes away
   "slow",         \* the emitter's 180 seconds pass
   "redis"}        \* a Redis call throws; it may have run

ASSUME ChatsAssumption == Chats \subseteq Nat

ASSUME LimitsAssumption ==
  /\ PoolSize \in Nat \ {0} /\ QueueCapacity \in Nat \ {0}
  /\ MaxEvents \in Nat /\ MaxCharacters \in Nat
  /\ Sizes \subseteq Nat

ASSUME FaultsAssumption == Faults \subseteq FaultKinds

VARIABLES
  step,            \* where the task of a chat stands
  threads,         \* pool threads started so far
  queue,           \* tasks waiting for a thread
  emitter,         \* the client's stream
  callbacks,       \* closeStream runs the container still owes
  closer,          \* where such a run stands
  streamClosed,
  activeCall,      \* does the reference hold the call
  canceled,        \* has the call been canceled
  events,          \* eventCount
  shown,           \* length of contentBuilder, all of it sent
  said,            \* the last event sent: "none", "done" or "error"
  asked,           \* is the question in the session's list
  kept             \* length of the answer in the session's list; 0: none

pool    == <<threads, queue>>
client  == <<emitter, callbacks, said>>
closing == <<closer, streamClosed>>
session == <<asked, kept>>
vars == <<step, pool, client, closing, activeCall, canceled, events, shown, session>>

Fault(f) == f \in Faults

\* Steps in which a pool thread is at work.
Working == {"starting", "calling", "announced", "executing", "reading", "answered",
            "finishing", "failing"}

Ended == {"ended", "refused"}

Running == {c \in Chats : step[c] \in Working}

Steps == Working \cup Ended \cup {"new", "queued"}

PoolWithinBounds ==
  /\ threads \in 0..PoolSize
  /\ queue \in Seq(Chats) /\ Len(queue) <= QueueCapacity

TypeOK ==
  /\ step \in [Chats -> Steps]
  /\ PoolWithinBounds
  /\ emitter \in [Chats -> {"open", "gone", "over"}]
  /\ callbacks \in [Chats -> Nat]
  /\ closer \in [Chats -> {"idle", "closed", "taken"}]
  /\ streamClosed \in [Chats -> BOOLEAN]
  /\ activeCall \in [Chats -> BOOLEAN]
  /\ canceled \in [Chats -> BOOLEAN]
  /\ events \in [Chats -> 0..MaxEvents]
  /\ shown \in [Chats -> 0..MaxCharacters]
  /\ said \in [Chats -> {"none", "done", "error"}]
  /\ asked \in [Chats -> BOOLEAN]
  /\ kept \in [Chats -> Nat]

Init ==
  /\ step = [c \in Chats |-> "new"]
  /\ threads = 0 /\ queue = <<>>
  /\ emitter = [c \in Chats |-> "open"]
  /\ callbacks = [c \in Chats |-> 0]
  /\ closer = [c \in Chats |-> "idle"]
  /\ streamClosed = [c \in Chats |-> FALSE]
  /\ activeCall = [c \in Chats |-> FALSE]
  /\ canceled = [c \in Chats |-> FALSE]
  /\ events = [c \in Chats |-> 0]
  /\ shown = [c \in Chats |-> 0]
  /\ said = [c \in Chats |-> "none"]
  /\ asked = [c \in Chats |-> FALSE]
  /\ kept = [c \in Chats |-> 0]

Goto(c, to) == step' = [step EXCEPT ![c] = to]

-----------------------------------------------------------------------------
(* The emitter, as Spring and the container treat it.                      *)

\* The emitter is over, and the container owes n runs of closeStream.
Over(c, n) ==
  /\ emitter' = [emitter EXCEPT ![c] = "over"]
  /\ callbacks' = [callbacks EXCEPT ![c] = @ + n]

\* onTimeout and onError are followed by onCompletion.
TimesOut(c) == Over(c, 2)

\* send of a last event and complete().
Say(c, event) ==
  /\ emitter[c] = "open"
  /\ said' = [said EXCEPT ![c] = event]
  /\ Over(c, 1)

\* send throws: the client is found gone, or the emitter is over already.
SendThrows(c) ==
  /\ \/ emitter[c] = "gone" /\ TimesOut(c)
     \/ emitter[c] = "over" /\ UNCHANGED <<emitter, callbacks>>
  /\ UNCHANGED said

Disconnect(c) ==
  /\ Fault("client")
  /\ step[c] # "new" /\ emitter[c] = "open"
  /\ emitter' = [emitter EXCEPT ![c] = "gone"]
  /\ UNCHANGED <<step, pool, callbacks, said, closing, activeCall, canceled, events, shown,
                 session>>

\* The container sees the broken connection, or the emitter's time is up.
EmitterEnds(c) ==
  /\ step[c] # "new"
  /\ emitter[c] = "gone" \/ (Fault("slow") /\ emitter[c] = "open")
  /\ TimesOut(c)
  /\ UNCHANGED <<step, pool, said, closing, activeCall, canceled, events, shown, session>>

-----------------------------------------------------------------------------
(* closeStream, three steps of a container thread.                         *)

CloseStream(c) ==
  /\ closer[c] = "idle" /\ callbacks[c] > 0
  /\ streamClosed' = [streamClosed EXCEPT ![c] = TRUE]
  /\ closer' = [closer EXCEPT ![c] = "closed"]
  /\ UNCHANGED <<step, pool, client, activeCall, canceled, events, shown, session>>

ReturnFromClose(c) ==
  /\ closer' = [closer EXCEPT ![c] = "idle"]
  /\ callbacks' = [callbacks EXCEPT ![c] = @ - 1]

\* activeCall.getAndSet(null)
TakeCall(c) ==
  /\ closer[c] = "closed"
  /\ activeCall' = [activeCall EXCEPT ![c] = FALSE]
  /\ IF activeCall[c]
     THEN closer' = [closer EXCEPT ![c] = "taken"] /\ UNCHANGED callbacks
     ELSE ReturnFromClose(c)
  /\ UNCHANGED <<step, pool, emitter, said, streamClosed, canceled, events, shown, session>>

CancelCall(c) ==
  /\ closer[c] = "taken"
  /\ canceled' = [canceled EXCEPT ![c] = TRUE]
  /\ ReturnFromClose(c)
  /\ UNCHANGED <<step, pool, emitter, said, streamClosed, activeCall, events, shown, session>>

-----------------------------------------------------------------------------
(* The request thread.                                                     *)

\* chatExecutor.execute: a new thread, else the queue, else AbortPolicy and an error event.
Chat(c) ==
  /\ step[c] = "new"
  /\ \A d \in Chats : d < c => step[d] # "new"
  /\ \/ /\ threads < PoolSize
        /\ Goto(c, "starting")
        /\ threads' = threads + 1
        /\ UNCHANGED <<queue, client>>
     \/ /\ threads = PoolSize /\ Len(queue) < QueueCapacity
        /\ Goto(c, "queued")
        /\ queue' = Append(queue, c)
        /\ UNCHANGED <<threads, client>>
     \/ /\ threads = PoolSize /\ Len(queue) = QueueCapacity
        /\ Goto(c, "refused")
        /\ Say(c, "error")
        /\ UNCHANGED pool
  /\ UNCHANGED <<closing, activeCall, canceled, events, shown, session>>

-----------------------------------------------------------------------------
(* The pool thread.                                                        *)

Take(c) ==
  /\ queue # <<>> /\ Head(queue) = c
  /\ Cardinality(Running) < threads
  /\ Goto(c, "starting")
  /\ queue' = Tail(queue)
  /\ UNCHANGED <<threads, client, closing, activeCall, canceled, events, shown, session>>

\* A stream closed while its task was waiting is left alone; else the question is stored.
Start(c) ==
  /\ step[c] = "starting"
  /\ \/ streamClosed[c] /\ Goto(c, "ended") /\ UNCHANGED asked
     \/ /\ ~streamClosed[c]
        /\ \/ Goto(c, "calling") /\ asked' = [asked EXCEPT ![c] = TRUE]
           \/ /\ Fault("redis")
              /\ Goto(c, "failing")
              /\ asked' \in {asked, [asked EXCEPT ![c] = TRUE]}
  /\ UNCHANGED <<pool, client, closing, activeCall, canceled, events, shown, kept>>

\* activeCall.set(call)
AnnounceCall(c) ==
  /\ step[c] = "calling"
  /\ activeCall' = [activeCall EXCEPT ![c] = TRUE]
  /\ Goto(c, "announced")
  /\ UNCHANGED <<pool, client, closing, canceled, events, shown, session>>

\* Mutant: execute without the second look at streamClosed.
ExecuteUnchecked(c) ==
  /\ step[c] = "announced"
  /\ Goto(c, "executing")
  /\ UNCHANGED <<pool, client, closing, activeCall, canceled, events, shown, session>>

\* A closeStream that came before activeCall.set found nothing to cancel.
ExecuteOrCancel(c) ==
  /\ step[c] = "announced"
  /\ IF streamClosed[c]
     THEN Goto(c, "finishing") /\ canceled' = [canceled EXCEPT ![c] = TRUE]
     ELSE Goto(c, "executing") /\ UNCHANGED canceled
  /\ UNCHANGED <<pool, client, closing, activeCall, events, shown, session>>

\* execute and the parser leave through finally { activeCall.compareAndSet(call, null) }.
LeaveCall(c, to) ==
  /\ Goto(c, to)
  /\ activeCall' = [activeCall EXCEPT ![c] = FALSE]

\* Mutant: the client's timeouts only cover the answer's head.
CallThrowsAtHead(c) ==
  /\ step[c] = "executing" \/ (step[c] = "reading" /\ canceled[c])
  /\ LeaveCall(c, "failing")
  /\ UNCHANGED <<pool, client, closing, canceled, events, shown, session>>

\* A canceled call, a failing model or one of OkHttp's timeouts throws.
CallThrows(c) ==
  /\ step[c] \in {"executing", "reading"}
  /\ LeaveCall(c, "failing")
  /\ UNCHANGED <<pool, client, closing, canceled, events, shown, session>>

Respond(c) ==
  /\ step[c] = "executing" /\ ~canceled[c]
  /\ Goto(c, "reading")
  /\ UNCHANGED <<pool, client, closing, activeCall, canceled, events, shown, session>>

\* [DONE] or the end of the stream: the content goes back to doChatLoop.
ReadEnd(c) ==
  /\ step[c] = "reading" /\ ~canceled[c]
  /\ Goto(c, "answered")
  /\ UNCHANGED <<pool, client, closing, activeCall, canceled, events, shown, session>>

\* A line read after the stream was closed, or past a limit, throws.  Data without a text is
\* sent to nobody and still counts as an event.
Read(c, size, within) ==
  /\ step[c] = "reading" /\ ~canceled[c]
  /\ IF streamClosed[c] \/ events[c] = MaxEvents
     THEN LeaveCall(c, "failing") /\ UNCHANGED <<client, events, shown>>
     ELSE /\ events' = [events EXCEPT ![c] = @ + 1]
          /\ \/ /\ within /\ (size = 0 \/ emitter[c] = "open")
                /\ shown' = [shown EXCEPT ![c] = @ + size]
                /\ UNCHANGED <<step, client, activeCall>>
             \/ /\ within /\ size # 0 /\ SendThrows(c)
                /\ LeaveCall(c, "failing") /\ UNCHANGED shown
             \/ /\ ~within
                /\ LeaveCall(c, "failing") /\ UNCHANGED <<client, shown>>
  /\ UNCHANGED <<pool, closing, canceled, session>>

\* Mutant: the limit is compared with what is there, not with what will be.
ReadTextLate(c, size) == Read(c, size, shown[c] <= MaxCharacters)

ReadText(c, size) == Read(c, size, shown[c] + size <= MaxCharacters)

\* Mutant: an answer that could not be stored is only logged.
SaveAnswerAtBest(c) ==
  /\ step[c] = "answered"
  /\ \/ kept' = [kept EXCEPT ![c] = shown[c]]
     \/ Fault("redis") /\ UNCHANGED kept
  /\ LeaveCall(c, "finishing")
  /\ UNCHANGED <<pool, client, closing, canceled, events, shown, asked>>

\* The answer is stored, unless it is empty or the stream is closed by then.
SaveAnswer(c) ==
  /\ step[c] = "answered"
  /\ \/ /\ shown[c] > 0 /\ ~streamClosed[c]
        /\ kept' = [kept EXCEPT ![c] = shown[c]]
        /\ LeaveCall(c, "finishing") \/ (Fault("redis") /\ LeaveCall(c, "failing"))
     \/ /\ shown[c] > 0 /\ ~streamClosed[c] /\ Fault("redis")
        /\ LeaveCall(c, "failing") /\ UNCHANGED kept
     \/ /\ shown[c] = 0 \/ streamClosed[c]
        /\ LeaveCall(c, "finishing") /\ UNCHANGED kept
  /\ UNCHANGED <<pool, client, closing, canceled, events, shown, asked>>

\* send [DONE] and complete, unless the stream is closed.
Finish(c) ==
  /\ step[c] = "finishing"
  /\ \/ streamClosed[c] /\ Goto(c, "ended") /\ UNCHANGED client
     \/ ~streamClosed[c] /\ Say(c, "done") /\ Goto(c, "ended")
     \/ ~streamClosed[c] /\ SendThrows(c) /\ Goto(c, "failing")
  /\ UNCHANGED <<pool, closing, activeCall, canceled, events, shown, session>>

\* Mutant: the exception is only logged.
FailQuietly(c) ==
  /\ step[c] = "failing"
  /\ Goto(c, "ended")
  /\ UNCHANGED <<pool, client, closing, activeCall, canceled, events, shown, session>>

\* catch: sendStreamError, unless the stream is closed.
Fail(c) ==
  /\ step[c] = "failing"
  /\ Goto(c, "ended")
  /\ \/ streamClosed[c] /\ UNCHANGED client
     \/ ~streamClosed[c] /\ (Say(c, "error") \/ SendThrows(c))
  /\ UNCHANGED <<pool, closing, activeCall, canceled, events, shown, session>>

-----------------------------------------------------------------------------

ThreadStep(c) ==
  \/ Start(c) \/ AnnounceCall(c) \/ ExecuteOrCancel(c) \/ CallThrows(c)
  \/ SaveAnswer(c) \/ Finish(c) \/ Fail(c)

ModelStep(c) ==
  \/ Respond(c) \/ ReadEnd(c)
  \/ \E size \in Sizes : ReadText(c, size)

CloserStep(c) == CloseStream(c) \/ TakeCall(c) \/ CancelCall(c)

Quiet == \A c \in Chats : step[c] \in Ended /\ emitter[c] = "over" /\ callbacks[c] = 0

Terminating == Quiet /\ UNCHANGED vars

Next ==
  \/ \E c \in Chats : \/ Chat(c) \/ Take(c) \/ ThreadStep(c) \/ ModelStep(c)
                      \/ CloserStep(c) \/ Disconnect(c) \/ EmitterEnds(c)
  \/ Terminating

Spec == Init /\ [][Next]_vars

(***************************************************************************)
(* Pool and container threads run on, and OkHttp's callTimeout ends a call *)
(* whatever the model does.  Nothing is assumed of the model or the client.*)
(***************************************************************************)
Fairness ==
  \A c \in Chats :
    WF_vars(Take(c)) /\ WF_vars(ThreadStep(c))

FairSpec == Spec /\ Fairness

-----------------------------------------------------------------------------

(***************************************************************************)
(* No call outlives its stream: when closeStream has run and the task sits *)
(* in the model call, the call has been canceled (chat, doChatLoop; the    *)
(* comment "cancel the upstream call so that the reading loop does not     *)
(* keep the thread").                                                      *)
(***************************************************************************)
NoOrphanCall ==
  \A c \in Chats :
    streamClosed[c] /\ closer[c] = "idle" /\ step[c] \in {"executing", "reading"} =>
      canceled[c]

(***************************************************************************)
(* No client is left with an open stream that nobody writes to: when the   *)
(* task of a chat is over, so is its emitter.                              *)
(***************************************************************************)
NobodyLeftWaiting == \A c \in Chats : step[c] \in Ended => emitter[c] = "over"

(***************************************************************************)
(* The abstract chat: what the client was sent and what the session keeps. *)
(***************************************************************************)
Reply ==
  INSTANCE ChatReply WITH
    ending <- [c \in Chats |-> IF said[c] # "none" THEN said[c]
                               ELSE IF emitter[c] = "over" THEN "cut" ELSE "none"]

\* The stream is an implementation of the chat that ChatReply promises.
ImplementsReply == Reply!ReplySpec

(***************************************************************************)
(* Hence an answer in the session is what the client was shown, and who is *)
(* told [DONE] finds it there, whole (doChatLoop stores before chat says   *)
(* [DONE]).                                                                *)
(***************************************************************************)
AnswerKept == Reply!DoneIsKept

(***************************************************************************)
(* Every accepted chat gives its thread back, with a model that never      *)
(* answers and a client that never reads.                                  *)
(***************************************************************************)
ChatsEnd == \A c \in Chats : (step[c] \notin {"new"} \cup Ended) ~> (step[c] \in Ended)
=============================================================================
