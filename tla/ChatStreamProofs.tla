-------------------------- MODULE ChatStreamProofs --------------------------
(***************************************************************************)
(* Proofs about ChatStream, for any number of chats, pool and queue and    *)
(* under every fault.                                                      *)
(***************************************************************************)
EXTENDS ChatStream, TLAPS

\* The strengthening, chat by chat: a run of closeStream is one the container owes, it is
\* only owed for an emitter that is over, and a call that was announced can be reached by
\* closeStream or has been canceled.
Fits(c) ==
  /\ closer[c] # "idle" => callbacks[c] > 0
  /\ streamClosed[c] \/ callbacks[c] > 0 => emitter[c] = "over"
  /\ step[c] \in {"announced", "executing", "reading"} =>
       activeCall[c] \/ closer[c] = "taken" \/ canceled[c]
  /\ streamClosed[c] /\ closer[c] = "idle" /\ step[c] \in {"executing", "reading"} =>
       canceled[c]
  /\ step[c] \in {"ended", "refused"} => emitter[c] = "over"

Inv == TypeOK /\ \A c \in Chats : Fits(c)

\* What a step of c leaves alone of the other chats.
OthersKept(c) ==
  \A d \in Chats \ {c} :
    /\ step'[d] = step[d] /\ emitter'[d] = emitter[d] /\ callbacks'[d] = callbacks[d]
    /\ closer'[d] = closer[d] /\ streamClosed'[d] = streamClosed[d]
    /\ activeCall'[d] = activeCall[d] /\ canceled'[d] = canceled[d]

LEMMA InitInv == Init => Inv
<1> SUFFICES ASSUME Init
             PROVE  Inv
  OBVIOUS
<1>1. PoolWithinBounds
  BY LimitsAssumption DEF Init, PoolWithinBounds
<1>2. TypeOK
  BY <1>1, LimitsAssumption DEF Init, TypeOK, Steps
<1>3. \A c \in Chats : Fits(c)
  BY DEF Init, Fits
<1>4. QED
  BY <1>2, <1>3 DEF Inv

LEMMA OneChatStep ==
  ASSUME Inv, NEW c \in Chats, TypeOK', OthersKept(c), Fits(c)'
  PROVE  Inv'
<1>1. ASSUME NEW d \in Chats \ {c}
      PROVE  Fits(d)'
  BY <1>1 DEF Inv, OthersKept, Fits
<1>2. QED
  BY <1>1 DEF Inv

-----------------------------------------------------------------------------
(* The request thread, the container's threads and the client.             *)

LEMMA ChatKeeps ==
  ASSUME Inv, NEW c \in Chats, Chat(c)
  PROVE  Inv'
<1>1. TypeOK
  BY DEF Inv
<1>2. PoolWithinBounds'
  <2>1. threads' \in 0..PoolSize
    BY <1>1, LimitsAssumption DEF Chat, TypeOK, PoolWithinBounds, pool
  <2>2. queue' \in Seq(Chats) /\ Len(queue') <= QueueCapacity
    <3>1. CASE queue' = Append(queue, c) /\ Len(queue) < QueueCapacity
      <4>1. Len(queue') = Len(queue) + 1 /\ queue' \in Seq(Chats)
        BY <1>1, <3>1 DEF TypeOK, PoolWithinBounds
      <4>2. Len(queue) \in Nat
        BY <1>1 DEF TypeOK, PoolWithinBounds
      <4>3. QED
        BY <3>1, <4>1, <4>2, LimitsAssumption
    <3>2. CASE UNCHANGED queue
      BY <1>1, <3>2 DEF TypeOK, PoolWithinBounds
    <3>3. QED
      BY <3>1, <3>2 DEF Chat, pool
  <2>3. QED
    BY <2>1, <2>2 DEF PoolWithinBounds
<1>3. CASE Goto(c, "refused") /\ Say(c, "error")
  <2>1. TypeOK'
    BY <1>1, <1>2, <1>3 DEF Chat, Goto, Say, Over, TypeOK, Steps, Ended, closing, session
  <2>2. OthersKept(c) /\ Fits(c)'
    BY <1>1, <1>3 DEF Inv, Chat, Goto, Say, Over, TypeOK, closing, OthersKept, Fits
  <2>3. QED
    BY <2>1, <2>2, OneChatStep
<1>4. ASSUME NEW to \in {"starting", "queued"}, Goto(c, to), UNCHANGED client
      PROVE  Inv'
  <2>1. TypeOK'
    BY <1>1, <1>2, <1>4 DEF Chat, Goto, TypeOK, Steps, Working, client, closing, session
  <2>2. OthersKept(c) /\ Fits(c)'
    BY <1>1, <1>4 DEF Inv, Chat, Goto, TypeOK, client, closing, OthersKept, Fits
  <2>3. QED
    BY <2>1, <2>2, OneChatStep
<1>5. QED
  BY <1>3, <1>4 DEF Chat

LEMMA TakeKeeps ==
  ASSUME Inv, NEW c \in Chats, Take(c)
  PROVE  Inv'
<1>1. TypeOK
  BY DEF Inv
<1>2. PoolWithinBounds'
  BY <1>1, LimitsAssumption DEF Take, TypeOK, PoolWithinBounds
<1>3. TypeOK'
  BY <1>1, <1>2 DEF Take, Goto, TypeOK, Steps, Working, client, closing, session
<1>4. OthersKept(c) /\ Fits(c)'
  BY <1>1 DEF Inv, Take, Goto, TypeOK, client, closing, OthersKept, Fits
<1>5. QED
  BY <1>3, <1>4, OneChatStep

LEMMA CloserKeeps ==
  ASSUME Inv, NEW c \in Chats, CloserStep(c)
  PROVE  Inv'
<1>1. TypeOK
  BY DEF Inv
<1>2. PoolWithinBounds'
  BY <1>1 DEF CloserStep, CloseStream, TakeCall, CancelCall, TypeOK, PoolWithinBounds, pool
<1>3. CASE CloseStream(c)
  <2>1. TypeOK'
    BY <1>1, <1>2, <1>3 DEF CloseStream, TypeOK, client, session
  <2>2. OthersKept(c) /\ Fits(c)'
    BY <1>1, <1>3 DEF Inv, CloseStream, TypeOK, client, OthersKept, Fits
  <2>3. QED
    BY <2>1, <2>2, OneChatStep
<1>o. closer[c] # "idle" => callbacks[c] - 1 \in Nat
  BY <1>1 DEF Inv, Fits, TypeOK
<1>4. CASE TakeCall(c)
  <2>1. TypeOK'
    BY <1>1, <1>2, <1>o, <1>4 DEF TakeCall, ReturnFromClose, TypeOK, session
  <2>2. OthersKept(c)
    BY <1>1, <1>4 DEF TakeCall, ReturnFromClose, TypeOK, OthersKept
  <2>3. Fits(c)'
    BY <1>1, <1>o, <1>4 DEF Inv, TakeCall, ReturnFromClose, TypeOK, Fits
  <2>4. QED
    BY <2>1, <2>2, <2>3, OneChatStep
<1>5. CASE CancelCall(c)
  <2>1. TypeOK'
    BY <1>1, <1>2, <1>o, <1>5 DEF CancelCall, ReturnFromClose, TypeOK, session
  <2>2. OthersKept(c)
    BY <1>1, <1>5 DEF CancelCall, ReturnFromClose, TypeOK, OthersKept
  <2>3. Fits(c)'
    BY <1>1, <1>o, <1>5 DEF Inv, CancelCall, ReturnFromClose, TypeOK, Fits
  <2>4. QED
    BY <2>1, <2>2, <2>3, OneChatStep
<1>6. QED
  BY <1>3, <1>4, <1>5 DEF CloserStep

LEMMA EmitterKeeps ==
  ASSUME Inv, NEW c \in Chats, Disconnect(c) \/ EmitterEnds(c)
  PROVE  Inv'
<1>1. TypeOK
  BY DEF Inv
<1>2. PoolWithinBounds'
  BY <1>1 DEF Disconnect, EmitterEnds, TypeOK, PoolWithinBounds, pool
<1>3. TypeOK'
  BY <1>1, <1>2 DEF Disconnect, EmitterEnds, TimesOut, Over, TypeOK, closing, session
<1>4. OthersKept(c) /\ Fits(c)'
  BY <1>1
  DEF Inv, Disconnect, EmitterEnds, TimesOut, Over, TypeOK, closing, OthersKept, Fits
<1>5. QED
  BY <1>3, <1>4, OneChatStep

-----------------------------------------------------------------------------
(* The pool thread.                                                        *)

\* Steps that leave the client's stream alone.
Silent(c) ==
  Start(c) \/ AnnounceCall(c) \/ ExecuteOrCancel(c) \/ CallThrows(c) \/ SaveAnswer(c)
  \/ Respond(c) \/ ReadEnd(c)

LEMMA SilentKeeps ==
  ASSUME Inv, NEW c \in Chats, Silent(c)
  PROVE  Inv'
<1>1. TypeOK
  BY DEF Inv
<1>2. UNCHANGED <<pool, client, closing, events, shown>>
  BY DEF Silent, Start, AnnounceCall, ExecuteOrCancel, CallThrows, SaveAnswer, Respond,
         ReadEnd, session
<1>3. PoolWithinBounds'
  BY <1>1, <1>2 DEF TypeOK, PoolWithinBounds, pool
<1> USE <1>1, <1>2 DEF client, closing
<1>4. CASE Start(c)
  <2>1. TypeOK'
    BY <1>3, <1>4 DEF Start, Goto, TypeOK, Steps, Working, Ended
  <2>2. OthersKept(c) /\ Fits(c)'
    BY <1>4 DEF Inv, Start, Goto, TypeOK, OthersKept, Fits
  <2>3. QED
    BY <2>1, <2>2, OneChatStep
<1>5. CASE AnnounceCall(c)
  <2>1. TypeOK'
    BY <1>3, <1>5 DEF AnnounceCall, Goto, TypeOK, Steps, Working, session
  <2>2. OthersKept(c) /\ Fits(c)'
    BY <1>5 DEF Inv, AnnounceCall, Goto, TypeOK, OthersKept, Fits
  <2>3. QED
    BY <2>1, <2>2, OneChatStep
<1>6. CASE ExecuteOrCancel(c)
  <2>1. TypeOK'
    BY <1>3, <1>6 DEF ExecuteOrCancel, Goto, TypeOK, Steps, Working, session
  <2>2. OthersKept(c) /\ Fits(c)'
    BY <1>6 DEF Inv, ExecuteOrCancel, Goto, TypeOK, OthersKept, Fits
  <2>3. QED
    BY <2>1, <2>2, OneChatStep
<1>7. CASE CallThrows(c)
  <2>1. TypeOK'
    BY <1>3, <1>7 DEF CallThrows, LeaveCall, Goto, TypeOK, Steps, Working, session
  <2>2. OthersKept(c) /\ Fits(c)'
    BY <1>7 DEF Inv, CallThrows, LeaveCall, Goto, TypeOK, OthersKept, Fits
  <2>3. QED
    BY <2>1, <2>2, OneChatStep
<1>8. CASE SaveAnswer(c)
  <2>1. LeaveCall(c, "finishing") \/ LeaveCall(c, "failing")
    BY <1>8 DEF SaveAnswer
  <2>2. kept' \in [Chats -> Nat] /\ UNCHANGED <<canceled, asked>>
    BY <1>8, LimitsAssumption DEF SaveAnswer, TypeOK
  <2>3. TypeOK'
    BY <1>3, <2>1, <2>2 DEF LeaveCall, Goto, TypeOK, Steps, Working
  <2>4. OthersKept(c) /\ Fits(c)'
    BY <2>1, <2>2 DEF Inv, LeaveCall, Goto, TypeOK, OthersKept, Fits
  <2>5. QED
    BY <2>3, <2>4, OneChatStep
<1>9. CASE Respond(c) \/ ReadEnd(c)
  <2>1. TypeOK'
    BY <1>3, <1>9 DEF Respond, ReadEnd, Goto, TypeOK, Steps, Working, session
  <2>2. OthersKept(c) /\ Fits(c)'
    BY <1>9 DEF Inv, Respond, ReadEnd, Goto, TypeOK, OthersKept, Fits
  <2>3. QED
    BY <2>1, <2>2, OneChatStep
<1>10. QED
  BY <1>4, <1>5, <1>6, <1>7, <1>8, <1>9 DEF Silent

LEMMA LastWordKeeps ==
  ASSUME Inv, NEW c \in Chats, Finish(c) \/ Fail(c)
  PROVE  Inv'
<1>1. TypeOK
  BY DEF Inv
<1>2. PoolWithinBounds'
  BY <1>1 DEF Finish, Fail, TypeOK, PoolWithinBounds, pool
<1>3. UNCHANGED <<closing, activeCall, canceled, events, shown, session>>
  BY DEF Finish, Fail
<1>4. CASE Finish(c)
  <2>1. TypeOK'
    BY <1>1, <1>2, <1>3, <1>4
    DEF Finish, Goto, Say, SendThrows, TimesOut, Over, TypeOK, Steps, Working, Ended, client,
        closing, session
  <2>2. OthersKept(c)
    BY <1>1, <1>3, <1>4
    DEF Finish, Goto, Say, SendThrows, TimesOut, Over, TypeOK, OthersKept, client, closing
  <2>3. Fits(c)'
    BY <1>1, <1>3, <1>4
    DEF Inv, Finish, Goto, Say, SendThrows, TimesOut, Over, TypeOK, Fits, client, closing
  <2>4. QED
    BY <2>1, <2>2, <2>3, OneChatStep
<1>5. CASE Fail(c)
  <2>1. TypeOK'
    BY <1>1, <1>2, <1>3, <1>5
    DEF Fail, Goto, Say, SendThrows, TimesOut, Over, TypeOK, Steps, Working, Ended, client,
        closing, session
  <2>2. OthersKept(c)
    BY <1>1, <1>3, <1>5
    DEF Fail, Goto, Say, SendThrows, TimesOut, Over, TypeOK, OthersKept, client, closing
  <2>3. Fits(c)'
    BY <1>1, <1>3, <1>5
    DEF Inv, Fail, Goto, Say, SendThrows, TimesOut, Over, TypeOK, Fits, client, closing
  <2>4. QED
    BY <2>1, <2>2, <2>3, OneChatStep
<1>6. QED
  BY <1>4, <1>5

LEMMA ReadKeeps ==
  ASSUME Inv, NEW c \in Chats, NEW size \in Sizes, ReadText(c, size)
  PROVE  Inv'
<1>1. TypeOK /\ size \in Nat
  BY LimitsAssumption DEF Inv
<1>2. PoolWithinBounds'
  BY <1>1 DEF ReadText, Read, TypeOK, PoolWithinBounds, pool
<1>3. /\ UNCHANGED <<closing, canceled, session>>
      /\ events' \in [Chats -> 0..MaxEvents]
  BY <1>1, LimitsAssumption DEF ReadText, Read, TypeOK
<1>4. shown' \in [Chats -> 0..MaxCharacters]
  BY <1>1, LimitsAssumption DEF ReadText, Read, TypeOK
<1>5. CASE UNCHANGED <<step, client, activeCall>>
  <2>1. TypeOK'
    BY <1>1, <1>2, <1>3, <1>4, <1>5 DEF TypeOK, client, closing, session
  <2>2. OthersKept(c) /\ Fits(c)'
    BY <1>1, <1>3, <1>5 DEF Inv, OthersKept, Fits, client, closing
  <2>3. QED
    BY <2>1, <2>2, OneChatStep
<1>6. CASE LeaveCall(c, "failing") /\ (UNCHANGED client \/ SendThrows(c))
  <2>1. TypeOK'
    BY <1>1, <1>2, <1>3, <1>4, <1>6
    DEF LeaveCall, Goto, SendThrows, TimesOut, Over, TypeOK, Steps, Working, client, closing,
        session
  <2>2. OthersKept(c)
    BY <1>1, <1>3, <1>6
    DEF LeaveCall, Goto, SendThrows, TimesOut, Over, TypeOK, OthersKept, client, closing
  <2>3. Fits(c)'
    BY <1>1, <1>3, <1>6
    DEF Inv, LeaveCall, Goto, SendThrows, TimesOut, Over, TypeOK, Fits, client, closing
  <2>4. QED
    BY <2>1, <2>2, <2>3, OneChatStep
<1>7. QED
  BY <1>5, <1>6 DEF ReadText, Read

-----------------------------------------------------------------------------

LEMMA StepInv == Inv /\ [Next]_vars => Inv'
<1> SUFFICES ASSUME Inv, [Next]_vars
             PROVE  Inv'
  OBVIOUS
<1>1. CASE UNCHANGED vars
  BY <1>1
  DEF Inv, TypeOK, PoolWithinBounds, Fits, vars, pool, client, closing, session
<1>2. ASSUME NEW c \in Chats, Chat(c) \/ Take(c) \/ CloserStep(c)
      PROVE  Inv'
  BY <1>2, ChatKeeps, TakeKeeps, CloserKeeps
<1>3. ASSUME NEW c \in Chats, ThreadStep(c) \/ ModelStep(c)
      PROVE  Inv'
  BY <1>3, SilentKeeps, LastWordKeeps, ReadKeeps DEF ThreadStep, ModelStep, Silent
<1>4. ASSUME NEW c \in Chats, Disconnect(c) \/ EmitterEnds(c)
      PROVE  Inv'
  BY <1>4, EmitterKeeps
<1>5. QED
  BY <1>1, <1>2, <1>3, <1>4 DEF Next, Terminating

LEMMA Invariance == Spec => []Inv
BY InitInv, StepInv, PTL DEF Spec

(***************************************************************************)
(* Type correctness of a chat: no thread and no waiting task past the      *)
(* pool's bounds, no text past the limits of parseStreamResponse.          *)
(***************************************************************************)
THEOREM ChatTypeCorrect == Spec => []TypeOK
<1>1. Inv => TypeOK
  BY DEF Inv
<1>2. QED
  BY <1>1, Invariance, PTL

(***************************************************************************)
(* closeStream and doChatLoop, whatever their order, leave no model call   *)
(* running for a closed stream.                                            *)
(***************************************************************************)
THEOREM ClosedCallsCanceled == Spec => []NoOrphanCall
<1>1. Inv => NoOrphanCall
  BY DEF Inv, Fits, NoOrphanCall
<1>2. QED
  BY <1>1, Invariance, PTL

(***************************************************************************)
(* Every path out of chat's task, refusals included, leaves an emitter     *)
(* that is over.                                                           *)
(***************************************************************************)
THEOREM ClientsAnswered == Spec => []NobodyLeftWaiting
<1>1. Inv => NobodyLeftWaiting
  BY DEF Inv, Fits, NobodyLeftWaiting, Ended
<1>2. QED
  BY <1>1, Invariance, PTL

-----------------------------------------------------------------------------
(* Refinement.                                                             *)

\* An event that was sent is the end of its emitter, an answer is stored once, in the place
\* for it, and a task about to say [DONE] has stored what was shown.
Told(c) ==
  /\ said[c] # "none" => emitter[c] = "over"
  /\ step[c] \notin {"finishing", "failing", "ended"} => kept[c] = 0
  /\ step[c] = "finishing" => streamClosed[c] \/ kept[c] = shown[c]

ToldInv == \A c \in Chats : Told(c)

EndingOf(c) ==
  IF said[c] # "none" THEN said[c] ELSE IF emitter[c] = "over" THEN "cut" ELSE "none"

\* What a step of c leaves alone of what is told of the other chats.
OthersTold(c) ==
  \A d \in Chats \ {c} :
    /\ step'[d] = step[d] /\ emitter'[d] = emitter[d] /\ said'[d] = said[d]
    /\ streamClosed'[d] = streamClosed[d] /\ shown'[d] = shown[d] /\ kept'[d] = kept[d]

\* What a step of c does to the abstract chat.
Maps(c) ==
  \/ shown'[c] = shown[c] /\ kept'[c] = kept[c] /\ EndingOf(c)' = EndingOf(c)
  \/ /\ EndingOf(c) = "none" /\ kept[c] = 0 /\ shown'[c] \in shown[c]..MaxCharacters
     /\ EndingOf(c)' = EndingOf(c) /\ kept'[c] = kept[c]
  \/ /\ kept[c] = 0 /\ kept'[c] = shown[c]
     /\ shown'[c] = shown[c] /\ EndingOf(c)' = EndingOf(c)
  \/ /\ EndingOf(c) = "none" /\ EndingOf(c)' \in {"done", "error", "cut"}
     /\ EndingOf(c)' = "done" => kept[c] = shown[c]
     /\ shown'[c] = shown[c] /\ kept'[c] = kept[c]

LEMMA MapsStep ==
  ASSUME TypeOK, TypeOK', NEW c \in Chats, OthersTold(c), Maps(c)
  PROVE  [Reply!ReplyNext]_(Reply!reply)
<1> DEFINE ending == [d \in Chats |-> EndingOf(d)]
<1>1. /\ shown \in [Chats -> 0..MaxCharacters] /\ shown' \in [Chats -> 0..MaxCharacters]
      /\ kept \in [Chats -> Nat] /\ kept' \in [Chats -> Nat]
  BY DEF TypeOK
<1>2. /\ \A d \in Chats \ {c} : EndingOf(d)' = EndingOf(d)
  BY DEF OthersTold, EndingOf
<1>3. CASE shown'[c] = shown[c] /\ kept'[c] = kept[c] /\ EndingOf(c)' = EndingOf(c)
  <2>1. shown' = shown /\ kept' = kept
    BY <1>1, <1>3 DEF OthersTold
  <2>2. ending' = ending
    BY <1>2, <1>3
  <2> QED BY <2>1, <2>2 DEF EndingOf, Reply!reply
<1>4. CASE /\ EndingOf(c) = "none" /\ kept[c] = 0 /\ shown'[c] \in shown[c]..MaxCharacters
           /\ EndingOf(c)' = EndingOf(c) /\ kept'[c] = kept[c]
  <2>1. kept' = kept /\ shown' = [shown EXCEPT ![c] = shown'[c]]
    BY <1>1, <1>4 DEF OthersTold
  <2>2. ending' = ending /\ ending[c] = "none"
    BY <1>2, <1>4
  <2>3. Reply!Show(c)
    BY <1>4, <2>1, <2>2 DEF EndingOf, Reply!Show
  <2> QED BY <2>3 DEF Reply!ReplyNext
<1>5. CASE /\ kept[c] = 0 /\ kept'[c] = shown[c]
           /\ shown'[c] = shown[c] /\ EndingOf(c)' = EndingOf(c)
  <2>1. shown' = shown /\ kept' = [kept EXCEPT ![c] = shown[c]]
    BY <1>1, <1>5 DEF OthersTold
  <2>2. ending' = ending
    BY <1>2, <1>5
  <2>3. Reply!Keep(c)
    BY <1>5, <2>1, <2>2 DEF EndingOf, Reply!Keep
  <2> QED BY <2>3 DEF Reply!ReplyNext
<1>6. CASE /\ EndingOf(c) = "none" /\ EndingOf(c)' \in {"done", "error", "cut"}
           /\ EndingOf(c)' = "done" => kept[c] = shown[c]
           /\ shown'[c] = shown[c] /\ kept'[c] = kept[c]
  <2>1. shown' = shown /\ kept' = kept
    BY <1>1, <1>6 DEF OthersTold
  <2>2. ending[c] = "none" /\ ending' = [ending EXCEPT ![c] = EndingOf(c)']
    BY <1>2, <1>6
  <2>3. Reply!End(c)
    BY <1>6, <2>1, <2>2 DEF EndingOf, Reply!End, Reply!Endings
  <2> QED BY <2>3 DEF Reply!ReplyNext
<1> QED BY <1>3, <1>4, <1>5, <1>6 DEF Maps

Tells(c) == OthersTold(c) /\ Maps(c) /\ Told(c)'

\* Steps that neither show, store nor end anything.
LEMMA QuietTells ==
  ASSUME TypeOK, NEW c \in Chats, Told(c), OthersTold(c),
         said'[c] = said[c], shown'[c] = shown[c], kept'[c] = kept[c],
         emitter'[c] = emitter[c] \/ (emitter[c] = "open" /\ emitter'[c] = "gone"),
         streamClosed[c] => streamClosed'[c],
         step'[c] \notin {"finishing", "failing", "ended"} =>
           step[c] \notin {"finishing", "failing", "ended"},
         step'[c] = "finishing" => step[c] = "finishing" \/ streamClosed'[c]
  PROVE  Tells(c)
<1>1. Told(c)'
  BY DEF Told
<1>2. EndingOf(c)' = EndingOf(c)
  BY DEF EndingOf
<1> QED BY <1>1, <1>2 DEF Tells, Maps

\* The stream ends and nothing else is told.
LEMMA EndTells ==
  ASSUME TypeOK, NEW c \in Chats, Told(c), OthersTold(c),
         emitter[c] # "over", emitter'[c] = "over",
         said'[c] \in {said[c], "done", "error"},
         said'[c] = "done" => kept[c] = shown[c],
         shown'[c] = shown[c], kept'[c] = kept[c], streamClosed'[c] = streamClosed[c],
         step'[c] \notin {"finishing", "failing", "ended"} =>
           step[c] \notin {"finishing", "failing", "ended"},
         step'[c] = "finishing" => step[c] = "finishing"
  PROVE  Tells(c)
<1>1. said[c] = "none"
  BY DEF Told
<1>2. Told(c)'
  BY DEF Told
<1>3. EndingOf(c) = "none" /\ EndingOf(c)' \in {"done", "error", "cut"}
  BY <1>1 DEF EndingOf
<1>4. EndingOf(c)' = "done" => kept[c] = shown[c]
  BY <1>1 DEF EndingOf
<1> QED BY <1>2, <1>3, <1>4 DEF Tells, Maps

LEMMA ClientTells ==
  ASSUME Inv, ToldInv, NEW c \in Chats,
         \/ Disconnect(c) \/ EmitterEnds(c) \/ CloseStream(c) \/ TakeCall(c) \/ CancelCall(c)
  PROVE  Tells(c)
<1>1. TypeOK /\ Told(c)
  BY DEF Inv, ToldInv
<1>2. OthersTold(c)
  BY <1>1 DEF TypeOK, OthersTold, Disconnect, EmitterEnds, CloseStream, TakeCall, CancelCall,
              ReturnFromClose, TimesOut, Over, closing, client, session
<1>3. CASE Disconnect(c)
  BY <1>1, <1>2, <1>3, QuietTells DEF TypeOK, Disconnect, closing, session
<1>4. CASE EmitterEnds(c)
  <2>1. emitter[c] # "over" /\ emitter'[c] = "over"
    BY <1>1, <1>4 DEF EmitterEnds, TimesOut, Over, TypeOK
  <2>2. UNCHANGED <<step, said, shown, kept, streamClosed>>
    BY <1>4 DEF EmitterEnds, closing, session
  <2>3. said[c] = "none"
    BY <1>1, <2>1 DEF Told
  <2> QED BY <1>1, <1>2, <2>1, <2>2, <2>3, EndTells
<1>5. CASE CloseStream(c) \/ TakeCall(c) \/ CancelCall(c)
  <2>1. /\ UNCHANGED <<step, said, shown, kept, emitter>>
        /\ streamClosed[c] => streamClosed'[c]
    BY <1>1, <1>5 DEF CloseStream, TakeCall, CancelCall, client, session, TypeOK
  <2> QED BY <1>1, <1>2, <2>1, QuietTells
<1> QED BY <1>3, <1>4, <1>5

\* Only tasks that wait are in the queue, each once.
QueueInv ==
  \A i, j \in 1..Len(queue) :
    step[queue[i]] = "queued" /\ (queue[i] = queue[j] => i = j)

LEMMA PoolTells ==
  ASSUME Inv, ToldInv, QueueInv, NEW c \in Chats, Chat(c) \/ Take(c)
  PROVE  Tells(c)
<1>1. TypeOK /\ Told(c)
  BY DEF Inv, ToldInv
<1>2. OthersTold(c)
  BY <1>1 DEF TypeOK, OthersTold, Chat, Take, Goto, Say, Over, closing, client, session
<1>3. UNCHANGED <<streamClosed, shown, kept>>
  BY DEF Chat, Take, closing, session
<1>4. CASE Chat(c) /\ step'[c] = "refused"
  <2>1. /\ emitter[c] # "over" /\ emitter'[c] = "over" /\ said'[c] = "error"
    BY <1>1, <1>4 DEF Chat, Goto, Say, Over, TypeOK
  <2>2. step[c] = "new"
    BY <1>4 DEF Chat
  <2> QED BY <1>1, <1>2, <1>3, <1>4, <2>1, <2>2, EndTells
<1>5. CASE Take(c) \/ step'[c] # "refused"
  <2>1. UNCHANGED <<said, emitter>> /\ step'[c] \in {"starting", "queued"}
    BY <1>1, <1>5 DEF Chat, Take, Goto, client, TypeOK
  <2>2. step[c] \in {"new", "queued"}
    <3>1. CASE Take(c)
      <4>1. queue \in Seq(Chats) /\ queue # <<>> /\ Head(queue) = c
        BY <1>1, <3>1 DEF TypeOK, PoolWithinBounds, Take
      <4>2. 1 \in 1..Len(queue) /\ queue[1] = c
        BY <4>1
      <4> QED BY <4>2 DEF QueueInv
    <3>2. CASE Chat(c)
      BY <3>2 DEF Chat
    <3> QED BY <3>1, <3>2
  <2> QED BY <1>1, <1>2, <1>3, <2>1, <2>2, QuietTells
<1> QED BY <1>4, <1>5

LEMMA ThreadTells ==
  ASSUME Inv, ToldInv, NEW c \in Chats, ThreadStep(c)
  PROVE  Tells(c)
<1>1. TypeOK /\ Told(c)
  BY DEF Inv, ToldInv
<1>2. streamClosed' = streamClosed /\ shown' = shown
  BY DEF ThreadStep, Start, AnnounceCall, ExecuteOrCancel, CallThrows, SaveAnswer, Finish, Fail,
         closing
<1>3. CASE Start(c) \/ AnnounceCall(c) \/ ExecuteOrCancel(c) \/ CallThrows(c)
  <2>1. UNCHANGED <<said, emitter, kept>> /\ step[c] \notin {"finishing", "failing", "ended"}
    BY <1>1, <1>3 DEF Start, AnnounceCall, ExecuteOrCancel, CallThrows, client, session
  <2>2. /\ \A d \in Chats \ {c} : step'[d] = step[d]
        /\ step'[c] = "finishing" => streamClosed[c]
    BY <1>1, <1>3 DEF Start, AnnounceCall, ExecuteOrCancel, CallThrows, LeaveCall, Goto, TypeOK
  <2>3. OthersTold(c)
    BY <1>2, <2>1, <2>2 DEF OthersTold
  <2> QED BY <1>1, <1>2, <2>1, <2>2, <2>3, QuietTells
<1>4. CASE SaveAnswer(c)
  <2>1. UNCHANGED <<said, emitter>> /\ step[c] = "answered" /\ kept[c] = 0
    BY <1>1, <1>4 DEF SaveAnswer, client, Told
  <2>2. /\ \A d \in Chats \ {c} : step'[d] = step[d] /\ kept'[d] = kept[d]
        /\ step'[c] \in {"finishing", "failing"} /\ kept'[c] \in {kept[c], shown[c]}
        /\ step'[c] = "finishing" => kept'[c] = shown[c] \/ streamClosed[c]
    BY <1>1, <1>4, <2>1 DEF SaveAnswer, LeaveCall, Goto, TypeOK
  <2>3. OthersTold(c)
    BY <1>2, <2>1, <2>2 DEF OthersTold
  <2>4. EndingOf(c)' = EndingOf(c)
    BY <2>1 DEF EndingOf
  <2>5. Maps(c)
    BY <1>2, <2>1, <2>2, <2>4 DEF Maps
  <2>6. Told(c)'
    BY <1>1, <1>2, <2>1, <2>2 DEF Told
  <2> QED BY <2>3, <2>5, <2>6 DEF Tells
<1>5. CASE Finish(c) \/ Fail(c)
  <2>1. /\ UNCHANGED kept /\ step[c] \in {"finishing", "failing"}
        /\ step'[c] \in {"failing", "ended"}
        /\ \A d \in Chats \ {c} : /\ step'[d] = step[d]
                                  /\ said'[d] = said[d] /\ emitter'[d] = emitter[d]
    BY <1>1, <1>5 DEF Finish, Fail, Goto, Say, SendThrows, TimesOut, Over, client, session, TypeOK
  <2>2. OthersTold(c)
    BY <1>2, <2>1 DEF OthersTold
  <2>3. \/ emitter'[c] = emitter[c] /\ said'[c] = said[c]
        \/ /\ emitter[c] # "over" /\ emitter'[c] = "over"
           /\ said'[c] \in {said[c], "done", "error"}
           /\ said'[c] # said[c] /\ said'[c] = "done" => step[c] = "finishing" /\ ~streamClosed[c]
    BY <1>1, <1>5 DEF Finish, Fail, Say, SendThrows, TimesOut, Over, client, TypeOK
  <2>4. CASE emitter'[c] = emitter[c] /\ said'[c] = said[c]
    BY <1>1, <1>2, <2>1, <2>2, <2>4, QuietTells
  <2>5. CASE emitter[c] # "over" /\ emitter'[c] = "over"
    <3>1. said[c] = "none"
      BY <1>1, <2>5 DEF Told
    <3>2. said'[c] = "done" => kept[c] = shown[c]
      BY <1>1, <2>3, <2>5, <3>1 DEF Told
    <3> QED BY <1>1, <1>2, <2>1, <2>2, <2>3, <2>5, <3>2, EndTells
  <2> QED BY <2>3, <2>4, <2>5
<1> QED BY <1>3, <1>4, <1>5 DEF ThreadStep

LEMMA ModelTells ==
  ASSUME Inv, Inv', ToldInv, NEW c \in Chats, ModelStep(c)
  PROVE  Tells(c)
<1>1. TypeOK /\ Told(c) /\ TypeOK'
  BY DEF Inv, ToldInv
<1>2. UNCHANGED <<streamClosed, kept>> /\ step[c] \in {"executing", "reading"} /\ kept[c] = 0
  BY <1>1 DEF ModelStep, Respond, ReadEnd, ReadText, Read, closing, session, Told
<1>3. /\ step'[c] \in {"reading", "answered", "failing"}
      /\ \A d \in Chats \ {c} : /\ step'[d] = step[d] /\ shown'[d] = shown[d]
                                /\ said'[d] = said[d] /\ emitter'[d] = emitter[d]
  BY <1>1 DEF ModelStep, Respond, ReadEnd, ReadText, Read, LeaveCall, Goto, SendThrows, TimesOut,
              Over, client, TypeOK
<1>4. OthersTold(c)
  BY <1>2, <1>3 DEF OthersTold
<1>5. CASE Respond(c) \/ ReadEnd(c)
  <2>1. UNCHANGED <<said, emitter, shown>>
    BY <1>5 DEF Respond, ReadEnd, client
  <2> QED BY <1>1, <1>2, <1>3, <1>4, <2>1, QuietTells
<1>6. ASSUME NEW size \in Sizes, ReadText(c, size)
      PROVE  Tells(c)
  <2>1. \/ UNCHANGED <<said, emitter, shown>>
        \/ UNCHANGED <<said, emitter>> /\ emitter[c] = "open" /\ shown'[c] = shown[c] + size
        \/ /\ UNCHANGED <<said, shown>> /\ emitter[c] = "gone" /\ emitter'[c] = "over"
    BY <1>1, <1>6 DEF ReadText, Read, SendThrows, TimesOut, Over, client, TypeOK
  <2>2. CASE UNCHANGED <<said, emitter, shown>>
    BY <1>1, <1>2, <1>3, <1>4, <2>2, QuietTells
  <2>3. CASE UNCHANGED <<said, emitter>> /\ emitter[c] = "open" /\ shown'[c] = shown[c] + size
    <3>1. EndingOf(c) = "none" /\ EndingOf(c)' = "none"
      BY <1>1, <2>3 DEF EndingOf, Told, TypeOK
    <3>2. shown'[c] \in shown[c]..MaxCharacters
      BY <1>1, <2>3, LimitsAssumption DEF TypeOK
    <3>3. Maps(c)
      BY <1>2, <3>1, <3>2 DEF Maps
    <3>4. Told(c)'
      BY <1>1, <1>2, <1>3, <2>3 DEF Told
    <3> QED BY <1>4, <3>3, <3>4 DEF Tells
  <2>4. CASE UNCHANGED <<said, shown>> /\ emitter[c] = "gone" /\ emitter'[c] = "over"
    <3>1. said[c] = "none"
      BY <1>1, <2>4 DEF Told
    <3> QED BY <1>1, <1>2, <1>3, <1>4, <2>4, <3>1, EndTells
  <2> QED BY <2>1, <2>2, <2>3, <2>4
<1> QED BY <1>5, <1>6 DEF ModelStep

LEMMA QueueStep ==
  ASSUME Inv, QueueInv, [Next]_vars
  PROVE  QueueInv'
<1>1. TypeOK /\ queue \in Seq(Chats)
  BY DEF Inv, TypeOK, PoolWithinBounds
<1>2. ASSUME NEW c \in Chats, Chat(c), queue' # queue
      PROVE  QueueInv'
  <2>1. /\ queue' = Append(queue, c) /\ step[c] = "new"
        /\ step' = [step EXCEPT ![c] = "queued"]
    BY <1>2 DEF Chat, Goto, pool
  <2>2. \A i \in 1..Len(queue) : queue[i] \in Chats /\ queue[i] # c
    BY <1>1, <2>1 DEF QueueInv
  <2>3. Len(queue') = Len(queue) + 1 /\ Len(queue) \in Nat
    BY <1>1, <2>1
  <2>4. \A i \in 1..Len(queue') : queue'[i] = IF i <= Len(queue) THEN queue[i] ELSE c
    BY <1>1, <2>1
  <2>5. \A i \in 1..Len(queue') : i <= Len(queue) => i \in 1..Len(queue)
    BY <2>3
  <2>6. \A i \in 1..Len(queue') : ~(i <= Len(queue)) => i = Len(queue')
    BY <2>3
  <2>7. \A d \in Chats : d # c => step'[d] = step[d]
    BY <1>1, <2>1 DEF TypeOK
  <2>8. step'[c] = "queued"
    BY <1>1, <2>1 DEF TypeOK
  <2> QED BY <2>2, <2>4, <2>5, <2>6, <2>7, <2>8 DEF QueueInv
<1>3. ASSUME NEW c \in Chats, Take(c)
      PROVE  QueueInv'
  <2>1. /\ queue # <<>> /\ Head(queue) = c /\ queue' = Tail(queue)
        /\ \A d \in Chats : d # c => step'[d] = step[d]
    BY <1>1, <1>3 DEF Take, Goto, TypeOK
  <2>2. Len(queue') = Len(queue) - 1 /\ Len(queue) \in Nat
    BY <1>1, <2>1
  <2>3. \A i \in 1..Len(queue') : queue'[i] = queue[i + 1] /\ i + 1 \in 1..Len(queue) /\ i + 1 # 1
    BY <1>1, <2>1, <2>2
  <2>4. queue[1] = c /\ 1 \in 1..Len(queue)
    BY <1>1, <2>1
  <2>5. \A i \in 1..Len(queue') : queue'[i] \in Chats /\ queue'[i] # c
    BY <1>1, <2>3, <2>4 DEF QueueInv
  <2>6. \A i \in 1..Len(queue') : step'[queue'[i]] = "queued"
    BY <2>1, <2>3, <2>5 DEF QueueInv
  <2>7. \A i, j \in 1..Len(queue') : queue'[i] = queue'[j] => i + 1 = j + 1
    BY <2>3 DEF QueueInv
  <2>8. \A i, j \in 1..Len(queue') : i + 1 = j + 1 => i = j
    OBVIOUS
  <2> QED BY <2>6, <2>7, <2>8 DEF QueueInv
<1>4. ASSUME queue' = queue,
             \A d \in Chats : step[d] = "queued" => step'[d] = "queued"
      PROVE  QueueInv'
  <2>1. \A i \in 1..Len(queue) : queue[i] \in Chats
    BY <1>1
  <2> QED BY <1>4, <2>1 DEF QueueInv
<1>5. ASSUME NEW c \in Chats, Chat(c), queue' = queue
      PROVE  QueueInv'
  BY <1>1, <1>4, <1>5 DEF Chat, Goto, TypeOK
<1>6. ASSUME NEW c \in Chats, ThreadStep(c) \/ ModelStep(c)
      PROVE  QueueInv'
  <2>1. queue' = queue /\ step[c] # "queued"
    BY <1>6 DEF ThreadStep, ModelStep, Start, AnnounceCall, ExecuteOrCancel, CallThrows, SaveAnswer,
                Finish, Fail, Respond, ReadEnd, ReadText, Read, pool
  <2>2. \A d \in Chats : d # c => step'[d] = step[d]
    BY <1>1, <1>6 DEF ThreadStep, ModelStep, Start, AnnounceCall, ExecuteOrCancel, CallThrows,
                SaveAnswer, Finish, Fail, Respond, ReadEnd, ReadText, Read, LeaveCall, Goto, TypeOK
  <2> QED BY <1>4, <2>1, <2>2
<1>7. ASSUME NEW c \in Chats, CloserStep(c) \/ Disconnect(c) \/ EmitterEnds(c)
      PROVE  QueueInv'
  <2>1. queue' = queue /\ step' = step
    BY <1>7 DEF CloserStep, CloseStream, TakeCall, CancelCall, Disconnect, EmitterEnds, pool
  <2> QED BY <1>4, <2>1
<1>8. CASE UNCHANGED vars
  BY <1>4, <1>8 DEF vars, pool
<1> QED BY <1>2, <1>3, <1>5, <1>6, <1>7, <1>8 DEF Next, Terminating

LEMMA ReplyStep ==
  ASSUME Inv, Inv', ToldInv, QueueInv, [Next]_vars
  PROVE  ToldInv' /\ [Reply!ReplyNext]_(Reply!reply)
<1>1. TypeOK /\ TypeOK'
  BY DEF Inv
<1>2. ASSUME NEW c \in Chats, Tells(c)
      PROVE  ToldInv' /\ [Reply!ReplyNext]_(Reply!reply)
  <2>1. ASSUME NEW d \in Chats \ {c}
        PROVE  Told(d)'
    BY <1>2 DEF ToldInv, Tells, OthersTold, Told
  <2>2. ToldInv'
    BY <1>2, <2>1 DEF ToldInv, Tells
  <2> QED BY <1>1, <1>2, <2>2, MapsStep DEF Tells
<1>3. ASSUME NEW c \in Chats,
             \/ Chat(c) \/ Take(c) \/ ThreadStep(c) \/ ModelStep(c)
             \/ CloserStep(c) \/ Disconnect(c) \/ EmitterEnds(c)
      PROVE  Tells(c)
  BY <1>3, PoolTells, ThreadTells, ModelTells, ClientTells DEF CloserStep
<1>4. CASE UNCHANGED vars
  <2>1. ToldInv'
    BY <1>4 DEF vars, client, closing, session, ToldInv, Told
  <2>2. UNCHANGED <<shown, kept, said, emitter>>
    BY <1>4 DEF vars, client, session
  <2> QED BY <2>1, <2>2 DEF Reply!reply
<1> QED BY <1>2, <1>3, <1>4 DEF Next, Terminating

\* What ChatReply promises of an answer follows from its steps alone.
ReplyInv ==
  /\ shown \in [Chats -> 0 .. MaxCharacters] /\ kept \in [Chats -> 0 .. MaxCharacters]
  /\ Reply!DoneIsKept

LEMMA ReplyKeeps == Reply!ReplySpec => []Reply!DoneIsKept
<1>1. Reply!ReplyInit => ReplyInv
  BY LimitsAssumption DEF Reply!ReplyInit, ReplyInv, Reply!DoneIsKept
<1>2. ReplyInv /\ [Reply!ReplyNext]_(Reply!reply) => ReplyInv'
  <2> SUFFICES ASSUME ReplyInv, [Reply!ReplyNext]_(Reply!reply)
               PROVE  ReplyInv'
    OBVIOUS
  <2>1. ASSUME NEW c \in Chats, Reply!Show(c)
        PROVE  ReplyInv'
    BY <2>1 DEF Reply!Show, ReplyInv, Reply!DoneIsKept
  <2>2. ASSUME NEW c \in Chats, Reply!Keep(c)
        PROVE  ReplyInv'
    BY <2>2 DEF Reply!Keep, ReplyInv, Reply!DoneIsKept
  <2>3. ASSUME NEW c \in Chats, Reply!End(c)
        PROVE  ReplyInv'
    BY <2>3 DEF Reply!End, Reply!Endings, ReplyInv, Reply!DoneIsKept
  <2>4. CASE UNCHANGED Reply!reply
    BY <2>4 DEF Reply!reply, ReplyInv, Reply!DoneIsKept
  <2> QED BY <2>1, <2>2, <2>3, <2>4 DEF Reply!ReplyNext
<1>3. ReplyInv => Reply!DoneIsKept
  BY DEF ReplyInv
<1> QED BY <1>1, <1>2, <1>3, PTL DEF Reply!ReplySpec

(***************************************************************************)
(* The chat implements what ChatReply promises: after the first end the    *)
(* client is sent nothing more, an answer in the session was shown whole,  *)
(* and [DONE] is only said for an answer that is stored, or empty.         *)
(***************************************************************************)
THEOREM ImplementsReplySpec == Spec => ImplementsReply
<1>1. Init => ToldInv /\ QueueInv /\ Reply!ReplyInit
  <2> SUFFICES ASSUME Init PROVE ToldInv /\ QueueInv /\ Reply!ReplyInit
    OBVIOUS
  <2>1. ToldInv /\ QueueInv
    BY DEF Init, ToldInv, Told, QueueInv
  <2>2. Reply!ReplyInit
    BY DEF Init, Reply!ReplyInit
  <2> QED BY <2>1, <2>2
<1>2. Inv /\ QueueInv /\ [Next]_vars => QueueInv'
  BY QueueStep
<1>3. Inv /\ Inv' /\ ToldInv /\ QueueInv /\ [Next]_vars
        => ToldInv' /\ [Reply!ReplyNext]_(Reply!reply)
  BY ReplyStep
<1> QED BY Invariance, <1>1, <1>2, <1>3, PTL DEF Spec, ImplementsReply, Reply!ReplySpec

(***************************************************************************)
(* So who is told [DONE] finds his answer in the session, whole, and an    *)
(* answer in the session was shown as it is, for any chats, limits and     *)
(* faults.                                                                 *)
(***************************************************************************)
THEOREM AnswersKept == Spec => []AnswerKept
  BY ImplementsReplySpec, ReplyKeeps, PTL DEF ImplementsReply, AnswerKept
=============================================================================
