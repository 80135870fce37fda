------------------------- MODULE CameraReceiver_proofs -------------------------
(***************************************************************************)
(* Proofs about CameraReceiver.  IInv says what the coroutines of a window  *)
(* may still be doing for which session: everything that runs is the last   *)
(* session's, and a stop, which cancels that session in its first step,     *)
(* goes on only when what could still take something from the camera has    *)
(* ended.  One lemma for each conjunct shows that every step keeps it; the  *)
(* invariants of the runs follow.                                           *)
(***************************************************************************)
EXTENDS CameraReceiver, SequenceTheorems, TLAPS

Loops == {"signals", "privacy"}

\* All the steps of the coroutines.
Places == UNION {Steps[c] : c \in Coroutines}

TaskTyped ==
    /\ task \in [Coroutines -> Places \X Sessions]
    /\ \A c \in Coroutines : task[c] \in Steps[c] \X Sessions

\* TypeOK, one part for each kind of variable.
StatesTyped ==
    /\ app \in {"Open", "Windows", "Closed"}
    /\ window \in {"Absent", "Open", "Closing", "Closed"}
    /\ mode \in Modes
    /\ stop \in {"Idle", "Preparation", "Take", "Tasks", "End", "Audio", "Video"}
    /\ video \in Ownership /\ audio \in Ownership
    /\ remote \subseteq Streams \cup {"session"}

FlagsTyped ==
    /\ listed \in BOOLEAN /\ active \in BOOLEAN /\ ready \in BOOLEAN /\ lost \in BOOLEAN
    /\ armed \in BOOLEAN /\ uncertain \in BOOLEAN /\ subscribed \in BOOLEAN

NumbersTyped ==
    /\ page \in Sessions /\ starts \in Sessions /\ current \in Sessions /\ session \in Sessions
    /\ offer \in Sessions /\ ending \in Sessions /\ queued \in Sessions

ChannelTyped == messages \in Seq(Sessions) /\ Len(messages) <= MaxMessages

CountsTyped == releases \in [Streams -> Nat]

TypeInv == StatesTyped /\ FlagsTyped /\ NumbersTyped /\ ChannelTyped /\ CountsTyped /\ TaskTyped

\* A coroutine is a session's that has been started, but the video allocation.
TaskInv ==
    \A c \in Coroutines :
        /\ Idle(c) => task[c][2] = 0
        /\ c # "allocation" /\ task[c][1] \notin {"Idle", "AwaitStop"} => task[c][2] \in 1 .. starts

\* A stop cancels the session at once.  The microphone, and what may still open it, is the
\* running session's.
StopInv ==
    /\ current # 0 => current = starts /\ stop = "Idle"
    /\ MicrophoneGated
    /\ At("drain", "Authorize") /\ ~Canceled("drain") => mode = "Talk" /\ session = current

\* A start is the running session's, made with that session's offer, or a stop waits for it.
StartInv ==
    /\ At("drain", "Start") /\ current # 0 => ~Canceled("drain") /\ offer = current /\ session = 0
    /\ Starting /\ current = 0 => stop \in {"Preparation", "Take", "Tasks"}
    /\ At("drain", "Retire") => current = 0

\* The session with the camera is the last that was started; its loops and the stop they
\* have queued precede its end.
SessionInv ==
    /\ session # 0 =>
        /\ session = starts /\ offer = session
        /\ stop \in {"Idle", "Preparation", "Take"}
        /\ stop = "Idle" => current = session
    /\ ending # 0 => stop \in {"Tasks", "End"}
    /\ \A c \in Loops : ~Idle(c) => task[c][2] = starts /\ stop # "End" /\ (session # 0 \/ ending # 0)
    /\ queued # 0 => queued = starts /\ (session # 0 \/ ending # 0)

\* What the camera holds is known to the window, unless the node is marked.
RemoteInv ==
    /\ ~uncertain =>
        /\ "session" \in remote => session # 0 \/ ending # 0 \/ At("drain", "Retire")
        /\ subscribed => ~Idle("privacy") /\ ~At("privacy", "Read")
        /\ "Video" \in remote => video = "Owned"
        /\ "Audio" \in remote => audio = "Owned"
        /\ video # "Attempted" /\ audio # "Attempted"
    /\ audio # "None" => "Audio" \in remote

\* A stop waits for the allocation, and for the preparation unless the page was lost.
AllocationInv ==
    /\ ~Idle("allocation") => video = "None" /\ stop \notin {"End", "Audio", "Video"}
    /\ ~lost /\ Preparing => ready /\ (stop = "Preparation" \/ (stop = "Idle" /\ current # 0))

\* A deallocation is counted from when it is sent until its stream is another one.
Counted(kind, ownership) ==
    releases[kind] = IF ownership = "Attempted" \/ stop = kind THEN 1 ELSE 0

ReleaseInv ==
    /\ stop = "Audio" => audio = "Owned"
    /\ stop = "Video" => video = "Owned" /\ (audio = "Owned" => lost)
    /\ Counted("Audio", audio) /\ Counted("Video", video)

\* When a stop has ended nothing is owned, and nothing begins in a window that closes.
QuietInv ==
    /\ stop = "Idle" /\ current = 0 /\ ~lost => audio # "Owned"
    /\ window \in {"Closing", "Closed"} => current = 0
    /\ window = "Closed" \/ (window = "Closing" /\ stop = "Idle") =>
        /\ Idle("allocation") /\ video # "Owned"
        /\ session = 0 /\ ending = 0 /\ ~Starting
        /\ ~lost => ~Preparing /\ audio # "Owned"
    /\ app = "Closed" /\ listed => window = "Closed"

IInv ==
    /\ TypeInv /\ TaskInv /\ StopInv /\ StartInv /\ SessionInv
    /\ RemoteInv /\ AllocationInv /\ ReleaseInv /\ QuietInv

-----------------------------------------------------------------------------
\* The coroutines by name.
LEMMA CoroutineSet ==
    /\ Coroutines = {"allocation", "preparation", "drain", "signals", "privacy"}
    /\ Steps.allocation = {"Idle", "Read", "Allocate"}
    /\ Steps.preparation = {"Idle", "Read", "Allocate", "AwaitStop"}
    /\ Steps.drain = {"Idle", "Start", "Retire", "Send", "Authorize", "AwaitStop"}
    /\ Steps.signals = {"Idle", "Wait"}
    /\ Steps.privacy = {"Idle", "Read", "Subscribe", "Poll", "Unsubscribe"}
BY DEF Coroutines, Steps

\* A coroutine goes to another step, or begins.
LEMMA GotoFacts ==
    ASSUME TypeInv, NEW c \in Coroutines, NEW step, Goto(c, step)
    PROVE  /\ task'[c][1] = step
           /\ task'[c][2] = IF step = "Idle" THEN 0 ELSE task[c][2]
           /\ \A d \in Coroutines : d # c => task'[d] = task[d]
BY DEF Goto, TypeInv, TaskTyped

LEMMA BeginFacts ==
    ASSUME TypeInv, NEW c \in Coroutines, NEW step, NEW s, Begin(c, step, s)
    PROVE  /\ task'[c][1] = step /\ task'[c][2] = s
           /\ \A d \in Coroutines : d # c => task'[d] = task[d]
BY DEF Begin, TypeInv, TaskTyped

\* Both keep the coroutines typed.
LEMMA GotoTyped ==
    ASSUME TypeInv, NEW c \in Coroutines, NEW step \in Steps[c], Goto(c, step)
    PROVE  TaskTyped'
<1>1. step \in Places /\ 0 \in Sessions
  BY BoundAssumption DEF Places, Sessions
<1> QED BY <1>1 DEF Goto, TypeInv, TaskTyped

LEMMA BeginTyped ==
    ASSUME TypeInv, NEW c \in Coroutines, NEW step \in Steps[c], NEW s \in Sessions, Begin(c, step, s)
    PROVE  TaskTyped'
<1>1. step \in Places
  BY DEF Places
<1> QED BY <1>1 DEF Begin, TypeInv, TaskTyped

\* No session is a session number, and the parts make the type invariant.
LEMMA ZeroTyped == 0 \in Sessions
BY BoundAssumption DEF Sessions

LEMMA TypeParts == TypeInv => TypeOK
BY DEF TypeInv, TypeOK, StatesTyped, FlagsTyped, NumbersTyped, ChannelTyped, CountsTyped, TaskTyped

\* A coroutine's session, the next session, and the channel when a message was taken.
LEMMA TaskSession == TypeInv => \A c \in Coroutines : task[c][2] \in Sessions
BY DEF TypeInv, TaskTyped

LEMMA NextSession == ASSUME TypeInv, starts < MaxStarts PROVE starts + 1 \in Sessions
BY BoundAssumption DEF TypeInv, NumbersTyped, Sessions

LEMMA TailTyped == ASSUME TypeInv, Drained PROVE ChannelTyped'
<1>1. Tail(messages) \in Seq(Sessions) /\ Len(Tail(messages)) = Len(messages) - 1
  BY HeadTailProperties DEF Drained, TypeInv, ChannelTyped
<1>2. Len(messages) \in Nat
  BY LenProperties DEF TypeInv, ChannelTyped
<1> QED BY <1>1, <1>2, BoundAssumption DEF Drained, TypeInv, ChannelTyped

\* Every coroutine goes from one of its own steps to another.
LEMMA TaskTypedKept ==
    ASSUME TypeInv, [Next]_vars
    PROVE  TaskTyped'
<1>1. CASE OpenWindow \/ Navigated \/ Activated \/ ClickStop \/ CloseReceiver \/ ReceiverClosed \/
   CloseSession \/ CloseController \/ Receive \/ Skip \/ PrivacyReport \/ RunQueuedStop \/ Take \/
   TasksEnd \/ Ended \/ AudioReleased \/ VideoReleased \/ UNCHANGED vars
  BY <1>1 DEF OpenWindow, Navigated, Activated, ClickStop, CloseReceiver, ReceiverClosed,
     CloseSession, CloseController, Receive, Skip, PrivacyReport, RunQueuedStop, Take, TasksEnd,
     Ended, AudioReleased, VideoReleased, Drained, vars, ui, content, run, stopping, stopper, owned,
     camera, TypeInv, TaskTyped
<1>2. CASE ClickAllocate
  BY <1>2, CoroutineSet, ZeroTyped, BeginTyped DEF ClickAllocate
<1>3. ASSUME NEW m \in Modes, OnStart(m) PROVE TaskTyped'
  BY <1>3, CoroutineSet, NextSession, BeginTyped DEF OnStart
<1>4. CASE OfferReceived
  BY <1>4, CoroutineSet, GotoTyped, BeginTyped DEF OfferReceived, Taken, Drained, Fail, TypeInv,
     NumbersTyped
<1>5. CASE CandidateReceived
  BY <1>5, CoroutineSet, GotoTyped, BeginTyped DEF CandidateReceived, Taken, Drained, Fail, TypeInv,
     NumbersTyped
<1>6. CASE CaptureRequested
  BY <1>6, CoroutineSet, GotoTyped, BeginTyped DEF CaptureRequested, Taken, Drained, Fail, TypeInv,
     NumbersTyped
<1>7. CASE PageReported
  <2>1. CASE UNCHANGED task
    BY <2>1 DEF TypeInv, TaskTyped
  <2>2. CASE Fail
    BY <2>2, CoroutineSet, GotoTyped DEF Fail
  <2> QED BY <1>7, <2>1, <2>2 DEF PageReported
<1>8. CASE AllocationRead
  BY <1>8, CoroutineSet, GotoTyped DEF AllocationRead
<1>9. CASE Allocated
  BY <1>9, CoroutineSet, GotoTyped DEF Allocated
<1>10. CASE PreparationRead
  BY <1>10, CoroutineSet, GotoTyped DEF PreparationRead, PreparationEnds
<1>11. CASE AudioAllocated
  BY <1>11, CoroutineSet, GotoTyped DEF AudioAllocated, PreparationEnds
<1>12. ASSUME NEW c \in {"preparation", "drain"}, StopAwaited(c) PROVE TaskTyped'
  BY <1>12, CoroutineSet, GotoTyped DEF StopAwaited
<1>13. CASE Started
  <2>1. CASE \E step \in {"Retire", "Idle", "AwaitStop"} : Goto("drain", step)
    BY <2>1, CoroutineSet, GotoTyped
  <2>2. CASE task' = [task EXCEPT !["drain"] = <<"Idle", 0>>, !["signals"] = <<"Wait", session'>>,
                                  !["privacy"] = <<"Read", session'>>]
             /\ session' = task["drain"][2]
    <3>1. session' \in Sessions /\ 0 \in Sessions
      BY <2>2, CoroutineSet, TaskSession, ZeroTyped
    <3>2. {"Idle", "Wait", "Read"} \subseteq Places
      BY CoroutineSet DEF Places
    <3> QED BY <2>2, <3>1, <3>2, CoroutineSet DEF TypeInv, TaskTyped
  <2> QED BY <1>13, <2>1, <2>2 DEF Started, Fail
<1>14. CASE Retired
  BY <1>14, CoroutineSet, GotoTyped DEF Retired, Fail
<1>15. CASE CandidatesSent
  BY <1>15, CoroutineSet, GotoTyped DEF CandidatesSent, Fail
<1>16. CASE Authorized
  BY <1>16, CoroutineSet, GotoTyped DEF Authorized, Fail
<1>17. CASE SignalsEnd
  BY <1>17, CoroutineSet, GotoTyped DEF SignalsEnd
<1>18. CASE PrivacyRead
  BY <1>18, CoroutineSet, GotoTyped DEF PrivacyRead
<1>19. CASE Subscribed
  BY <1>19, CoroutineSet, GotoTyped DEF Subscribed
<1>20. CASE PollEnds
  BY <1>20, CoroutineSet, GotoTyped DEF PollEnds
<1>21. CASE Unsubscribed
  BY <1>21, CoroutineSet, GotoTyped DEF Unsubscribed
<1> QED BY <1>1, <1>2, <1>3, <1>4, <1>5, <1>6, <1>7, <1>8, <1>9, <1>10, <1>11, <1>12, <1>13, <1>14,
   <1>15, <1>16, <1>17, <1>18, <1>19, <1>20, <1>21 DEF Next, Application, Page, Allocation,
   Preparation, Drain, Privacy, Stop

\* The rest of the state keeps its types, one kind of variable at a time.
LEMMA StatesTypedKept ==
    ASSUME TypeInv, [Next]_vars
    PROVE  StatesTyped'
<1>1. CASE Navigated \/ ClickAllocate \/ Receive \/ Skip \/ AllocationRead \/ (\E c \in
   {"preparation", "drain"} : StopAwaited(c)) \/ SignalsEnd \/ PrivacyRead \/ Subscribed \/ PollEnds
   \/ Unsubscribed \/ UNCHANGED vars
  <2>1. UNCHANGED <<app, window, mode, stop, video, audio, remote>>
    BY <1>1 DEF Navigated, ClickAllocate, Receive, Skip, AllocationRead, StopAwaited, SignalsEnd,
       PrivacyRead, Subscribed, PollEnds, Unsubscribed, vars, ui, content, run, stopping, stopper,
       owned, camera
  <2> QED BY <2>1 DEF TypeInv, StatesTyped
<1>2. CASE OpenWindow
  BY <1>2 DEF OpenWindow, content, run, stopping, stopper, owned, camera, TypeInv, StatesTyped,
     Ownership, Streams
<1>3. CASE Activated
  BY <1>3 DEF Activated, StopAsync, Continue, content, run, stopping, stopper, owned, camera,
     TypeInv, StatesTyped, Ownership, Streams
<1>4. CASE ClickStop
  BY <1>4 DEF ClickStop, StopAsync, Continue, ui, content, run, stopping, stopper, owned, camera,
     TypeInv, StatesTyped, Ownership, Streams
<1>5. ASSUME NEW m \in Modes, OnStart(m) PROVE StatesTyped'
  BY <1>5 DEF OnStart, ui, content, stopper, owned, camera, TypeInv, StatesTyped, Ownership, Streams
<1>6. CASE CloseReceiver
  BY <1>6 DEF CloseReceiver, StopAsync, Continue, content, run, stopping, stopper, owned, camera,
     TypeInv, StatesTyped, Ownership, Streams
<1>7. CASE ReceiverClosed
  BY <1>7 DEF ReceiverClosed, content, run, stopping, stopper, owned, camera, TypeInv, StatesTyped,
     Ownership, Streams
<1>8. CASE CloseSession
  BY <1>8 DEF CloseSession, content, run, stopping, stopper, owned, camera, TypeInv, StatesTyped,
     Ownership, Streams
<1>9. CASE CloseController
  BY <1>9 DEF CloseController, content, run, stopping, stopper, owned, TypeInv, StatesTyped,
     Ownership, Streams
<1>10. CASE OfferReceived
  BY <1>10 DEF OfferReceived, Taken, Drained, Fail, StopAsync, Continue, ui, stopping, stopper,
     owned, camera, TypeInv, StatesTyped, Ownership, Streams
<1>11. CASE CandidateReceived
  BY <1>11 DEF CandidateReceived, Taken, Drained, Fail, StopAsync, Continue, ui, run, stopping,
     stopper, owned, camera, TypeInv, StatesTyped, Ownership, Streams
<1>12. CASE CaptureRequested
  BY <1>12 DEF CaptureRequested, Taken, Drained, Fail, StopAsync, Continue, ui, run, stopping,
     stopper, owned, camera, TypeInv, StatesTyped, Ownership, Streams
<1>13. CASE PageReported
  BY <1>13 DEF PageReported, Taken, Drained, Fail, StopAsync, Continue, ui, run, stopping, stopper,
     owned, camera, TypeInv, StatesTyped, Ownership, Streams
<1>14. CASE Allocated
  BY <1>14 DEF Allocated, ui, content, run, stopping, stopper, TypeInv, StatesTyped, Ownership,
     Streams
<1>15. CASE PreparationRead
  BY <1>15 DEF PreparationRead, PreparationEnds, StopAsync, Continue, ui, run, stopping, stopper,
     owned, camera, TypeInv, StatesTyped, Ownership, Streams
<1>16. CASE AudioAllocated
  BY <1>16 DEF AudioAllocated, PreparationEnds, StopAsync, Continue, ui, run, stopping, stopper,
     TypeInv, StatesTyped, Ownership, Streams
<1>17. CASE Started
  BY <1>17 DEF Started, Fail, StopAsync, Continue, ui, content, stopping, stopper, owned, TypeInv,
     StatesTyped, Ownership, Streams
<1>18. CASE Retired
  BY <1>18 DEF Retired, Fail, StopAsync, Continue, ui, content, run, stopping, stopper, owned,
     TypeInv, StatesTyped, Ownership, Streams
<1>19. CASE CandidatesSent
  BY <1>19 DEF CandidatesSent, Fail, StopAsync, Continue, ui, content, run, stopping, stopper,
     owned, camera, TypeInv, StatesTyped, Ownership, Streams
<1>20. CASE Authorized
  BY <1>20 DEF Authorized, Fail, StopAsync, Continue, ui, content, run, stopping, stopper, owned,
     camera, TypeInv, StatesTyped, Ownership, Streams
<1>21. CASE PrivacyReport
  BY <1>21 DEF PrivacyReport, StopAsync, Continue, ui, content, run, stopping, stopper, owned,
     camera, TypeInv, StatesTyped, Ownership, Streams
<1>22. CASE RunQueuedStop
  BY <1>22 DEF RunQueuedStop, StopAsync, Continue, ui, content, run, stopping, owned, camera,
     TypeInv, StatesTyped, Ownership, Streams
<1>23. CASE Take
  BY <1>23 DEF Take, ui, owned, camera, TypeInv, StatesTyped, Ownership, Streams
<1>24. CASE TasksEnd
  BY <1>24 DEF TasksEnd, ReleaseNext, ui, content, run, stopper, camera, TypeInv, StatesTyped,
     Ownership, Streams
<1>25. CASE Ended
  BY <1>25 DEF Ended, ReleaseNext, ui, content, run, TypeInv, StatesTyped, Ownership, Streams
<1>26. CASE AudioReleased
  BY <1>26 DEF AudioReleased, ReleaseNext, ui, content, run, stopper, TypeInv, StatesTyped,
     Ownership, Streams
<1>27. CASE VideoReleased
  BY <1>27 DEF VideoReleased, ReleaseNext, ui, content, run, stopper, TypeInv, StatesTyped,
     Ownership, Streams
<1> QED BY <1>1, <1>2, <1>3, <1>4, <1>5, <1>6, <1>7, <1>8, <1>9, <1>10, <1>11, <1>12, <1>13, <1>14,
   <1>15, <1>16, <1>17, <1>18, <1>19, <1>20, <1>21, <1>22, <1>23, <1>24, <1>25, <1>26, <1>27 DEF
   Next, Application, Page, Allocation, Preparation, Drain, Privacy, Stop

LEMMA FlagsTypedKept ==
    ASSUME TypeInv, [Next]_vars
    PROVE  FlagsTyped'
<1>1. CASE OpenWindow \/ ClickAllocate \/ ReceiverClosed \/ CloseController \/ Receive \/ Skip \/
   AllocationRead \/ (\E c \in {"preparation", "drain"} : StopAwaited(c)) \/ SignalsEnd \/
   PrivacyRead \/ PollEnds \/ TasksEnd \/ UNCHANGED vars
  BY <1>1 DEF OpenWindow, ClickAllocate, ReceiverClosed, CloseController, Receive, Skip,
     AllocationRead, StopAwaited, SignalsEnd, PrivacyRead, PollEnds, TasksEnd, Drained, vars, ui,
     content, run, stopping, stopper, owned, camera, TypeInv, FlagsTyped
<1>2. CASE Navigated
  BY <1>2 DEF Navigated, ui, run, stopping, stopper, owned, camera, TypeInv, FlagsTyped
<1>3. CASE Activated
  BY <1>3 DEF Activated, StopAsync, Continue, content, run, stopping, stopper, owned, camera,
     TypeInv, FlagsTyped
<1>4. CASE ClickStop
  BY <1>4 DEF ClickStop, StopAsync, Continue, ui, content, run, stopping, stopper, owned, camera,
     TypeInv, FlagsTyped
<1>5. ASSUME NEW m \in Modes, OnStart(m) PROVE FlagsTyped'
  BY <1>5 DEF OnStart, ui, content, stopper, owned, camera, TypeInv, FlagsTyped
<1>6. CASE CloseReceiver
  BY <1>6 DEF CloseReceiver, StopAsync, Continue, content, run, stopping, stopper, owned, camera,
     TypeInv, FlagsTyped
<1>7. CASE CloseSession
  BY <1>7 DEF CloseSession, content, run, stopping, stopper, owned, camera, TypeInv, FlagsTyped
<1>8. CASE OfferReceived
  BY <1>8 DEF OfferReceived, Taken, Drained, Fail, StopAsync, Continue, ui, stopping, stopper,
     owned, camera, TypeInv, FlagsTyped
<1>9. CASE CandidateReceived
  BY <1>9 DEF CandidateReceived, Taken, Drained, Fail, StopAsync, Continue, ui, run, stopping,
     stopper, owned, camera, TypeInv, FlagsTyped
<1>10. CASE CaptureRequested
  BY <1>10 DEF CaptureRequested, Taken, Drained, Fail, StopAsync, Continue, ui, run, stopping,
     stopper, owned, camera, TypeInv, FlagsTyped
<1>11. CASE PageReported
  BY <1>11 DEF PageReported, Taken, Drained, Fail, StopAsync, Continue, ui, run, stopping, stopper,
     owned, camera, TypeInv, FlagsTyped
<1>12. CASE Allocated
  BY <1>12 DEF Allocated, ui, content, run, stopping, stopper, TypeInv, FlagsTyped
<1>13. CASE PreparationRead
  BY <1>13 DEF PreparationRead, PreparationEnds, StopAsync, Continue, ui, run, stopping, stopper,
     owned, camera, TypeInv, FlagsTyped
<1>14. CASE AudioAllocated
  BY <1>14 DEF AudioAllocated, PreparationEnds, StopAsync, Continue, ui, run, stopping, stopper,
     TypeInv, FlagsTyped
<1>15. CASE Started
  BY <1>15 DEF Started, Fail, StopAsync, Continue, ui, content, stopping, stopper, owned, TypeInv,
     FlagsTyped
<1>16. CASE Retired
  BY <1>16 DEF Retired, Fail, StopAsync, Continue, ui, content, run, stopping, stopper, owned,
     TypeInv, FlagsTyped
<1>17. CASE CandidatesSent
  BY <1>17 DEF CandidatesSent, Fail, StopAsync, Continue, ui, content, run, stopping, stopper,
     owned, camera, TypeInv, FlagsTyped
<1>18. CASE Authorized
  BY <1>18 DEF Authorized, Fail, StopAsync, Continue, ui, content, run, stopping, stopper, owned,
     camera, TypeInv, FlagsTyped
<1>19. CASE Subscribed
  BY <1>19 DEF Subscribed, LoopEnds, ui, content, run, stopping, owned, TypeInv, FlagsTyped
<1>20. CASE Unsubscribed
  BY <1>20 DEF Unsubscribed, ui, content, run, stopping, stopper, owned, TypeInv, FlagsTyped
<1>21. CASE PrivacyReport
  BY <1>21 DEF PrivacyReport, StopAsync, Continue, ui, content, run, stopping, stopper, owned,
     camera, TypeInv, FlagsTyped
<1>22. CASE RunQueuedStop
  BY <1>22 DEF RunQueuedStop, StopAsync, Continue, ui, content, run, stopping, owned, camera,
     TypeInv, FlagsTyped
<1>23. CASE Take
  BY <1>23 DEF Take, ui, owned, camera, TypeInv, FlagsTyped
<1>24. CASE Ended
  BY <1>24 DEF Ended, ReleaseNext, Streams, ui, content, run, TypeInv, FlagsTyped
<1>25. CASE AudioReleased
  BY <1>25 DEF AudioReleased, ReleaseNext, ui, content, run, stopper, TypeInv, FlagsTyped
<1>26. CASE VideoReleased
  BY <1>26 DEF VideoReleased, ReleaseNext, ui, content, run, stopper, TypeInv, FlagsTyped
<1> QED BY <1>1, <1>2, <1>3, <1>4, <1>5, <1>6, <1>7, <1>8, <1>9, <1>10, <1>11, <1>12, <1>13, <1>14,
   <1>15, <1>16, <1>17, <1>18, <1>19, <1>20, <1>21, <1>22, <1>23, <1>24, <1>25, <1>26 DEF Next,
   Application, Page, Allocation, Preparation, Drain, Privacy, Stop

LEMMA NumbersTypedKept ==
    ASSUME TypeInv, [Next]_vars
    PROVE  NumbersTyped'
<1>1. CASE OpenWindow \/ Navigated \/ ClickAllocate \/ ReceiverClosed \/ CloseSession \/
   CloseController \/ Receive \/ Skip \/ AllocationRead \/ Allocated \/ (\E c \in {"preparation",
   "drain"} : StopAwaited(c)) \/ Unsubscribed \/ TasksEnd \/ AudioReleased \/ VideoReleased \/
   UNCHANGED vars
  BY <1>1 DEF OpenWindow, Navigated, ClickAllocate, ReceiverClosed, CloseSession, CloseController,
     Receive, Skip, AllocationRead, Allocated, StopAwaited, Unsubscribed, TasksEnd, AudioReleased,
     VideoReleased, Drained, vars, ui, content, run, stopping, stopper, owned, camera, TypeInv,
     NumbersTyped, At
<1>2. CASE Activated
  BY <1>2, ZeroTyped, TaskSession, CoroutineSet DEF Activated, StopAsync, Continue, content, run,
     stopping, stopper, owned, camera, TypeInv, NumbersTyped, At
<1>3. CASE ClickStop
  BY <1>3, ZeroTyped, TaskSession, CoroutineSet DEF ClickStop, StopAsync, Continue, ui, content,
     run, stopping, stopper, owned, camera, TypeInv, NumbersTyped, At
<1>4. ASSUME NEW m \in Modes, OnStart(m) PROVE NumbersTyped'
  BY <1>4, NextSession DEF OnStart, TypeInv, NumbersTyped, content, stopper
<1>5. CASE CloseReceiver
  BY <1>5, ZeroTyped, TaskSession, CoroutineSet DEF CloseReceiver, StopAsync, Continue, content,
     run, stopping, stopper, owned, camera, TypeInv, NumbersTyped, At
<1>6. CASE OfferReceived
  BY <1>6, ZeroTyped, TaskSession, CoroutineSet, GotoFacts, BeginFacts DEF OfferReceived, Taken,
     Drained, Fail, StopAsync, Continue, ui, stopping, stopper, owned, camera, TypeInv,
     NumbersTyped, At
<1>7. CASE CandidateReceived
  BY <1>7, ZeroTyped, TaskSession, CoroutineSet, GotoFacts, BeginFacts DEF CandidateReceived, Taken,
     Drained, Fail, StopAsync, Continue, ui, run, stopping, stopper, owned, camera, TypeInv,
     NumbersTyped, At
<1>8. CASE CaptureRequested
  BY <1>8, ZeroTyped, TaskSession, CoroutineSet, GotoFacts, BeginFacts DEF CaptureRequested, Taken,
     Drained, Fail, StopAsync, Continue, ui, run, stopping, stopper, owned, camera, TypeInv,
     NumbersTyped, At
<1>9. CASE PageReported
  BY <1>9, ZeroTyped, TaskSession, CoroutineSet, GotoFacts DEF PageReported, Taken, Drained, Fail,
     StopAsync, Continue, ui, run, stopping, stopper, owned, camera, TypeInv, NumbersTyped, At
<1>10. CASE PreparationRead
  BY <1>10, ZeroTyped, TaskSession, CoroutineSet, GotoFacts DEF PreparationRead, PreparationEnds,
     StopAsync, Continue, ui, run, stopping, stopper, owned, camera, TypeInv, NumbersTyped, At
<1>11. CASE AudioAllocated
  BY <1>11, ZeroTyped, TaskSession, CoroutineSet, GotoFacts DEF AudioAllocated, PreparationEnds,
     StopAsync, Continue, ui, run, stopping, stopper, TypeInv, NumbersTyped, At
<1>12. CASE Started
  BY <1>12, ZeroTyped, TaskSession, CoroutineSet, GotoFacts DEF Started, Fail, StopAsync, Continue,
     ui, content, stopping, stopper, owned, TypeInv, NumbersTyped, At
<1>13. CASE Retired
  BY <1>13, ZeroTyped, TaskSession, CoroutineSet, GotoFacts DEF Retired, Fail, StopAsync, Continue,
     ui, content, run, stopping, stopper, owned, TypeInv, NumbersTyped, At
<1>14. CASE CandidatesSent
  BY <1>14, ZeroTyped, TaskSession, CoroutineSet, GotoFacts DEF CandidatesSent, Fail, StopAsync,
     Continue, ui, content, run, stopping, stopper, owned, camera, TypeInv, NumbersTyped, At
<1>15. CASE Authorized
  BY <1>15, ZeroTyped, TaskSession, CoroutineSet, GotoFacts DEF Authorized, Fail, StopAsync,
     Continue, ui, content, run, stopping, stopper, owned, camera, TypeInv, NumbersTyped, At
<1>16. CASE SignalsEnd
  BY <1>16, ZeroTyped, TaskSession, CoroutineSet, GotoFacts DEF SignalsEnd, LoopEnds, ui, content,
     run, stopping, owned, camera, TypeInv, NumbersTyped, At
<1>17. CASE PrivacyRead
  BY <1>17, ZeroTyped, TaskSession, CoroutineSet, GotoFacts DEF PrivacyRead, LoopEnds, ui, content,
     run, stopping, owned, camera, TypeInv, NumbersTyped, At
<1>18. CASE Subscribed
  BY <1>18, ZeroTyped, TaskSession, CoroutineSet, GotoFacts DEF Subscribed, LoopEnds, ui, content,
     run, stopping, owned, TypeInv, NumbersTyped, At
<1>19. CASE PollEnds
  BY <1>19, ZeroTyped, TaskSession, CoroutineSet, GotoFacts DEF PollEnds, LoopEnds, ui, content,
     run, stopping, owned, camera, TypeInv, NumbersTyped, At
<1>20. CASE PrivacyReport
  BY <1>20, ZeroTyped, TaskSession, CoroutineSet DEF PrivacyReport, StopAsync, Continue, ui,
     content, run, stopping, stopper, owned, camera, TypeInv, NumbersTyped, At
<1>21. CASE RunQueuedStop
  BY <1>21, ZeroTyped, TaskSession, CoroutineSet DEF RunQueuedStop, StopAsync, Continue, ui,
     content, run, stopping, owned, camera, TypeInv, NumbersTyped, At
<1>22. CASE Take
  BY <1>22, ZeroTyped, TaskSession, CoroutineSet DEF Take, ui, owned, camera, TypeInv, NumbersTyped,
     At
<1>23. CASE Ended
  BY <1>23, ZeroTyped, TaskSession, CoroutineSet DEF Ended, ReleaseNext, Streams, ui, content, run, TypeInv,
     NumbersTyped, At
<1> QED BY <1>1, <1>2, <1>3, <1>4, <1>5, <1>6, <1>7, <1>8, <1>9, <1>10, <1>11, <1>12, <1>13, <1>14,
   <1>15, <1>16, <1>17, <1>18, <1>19, <1>20, <1>21, <1>22, <1>23 DEF Next, Application, Page,
   Allocation, Preparation, Drain, Privacy, Stop

LEMMA ChannelTypedKept ==
    ASSUME TypeInv, [Next]_vars
    PROVE  ChannelTyped'
<1>1. CASE OpenWindow \/ Navigated \/ Activated \/ ClickStop \/ ClickAllocate \/ (\E m \in Modes :
   OnStart(m)) \/ CloseReceiver \/ ReceiverClosed \/ CloseSession \/ CloseController \/
   AllocationRead \/ Allocated \/ PreparationRead \/ AudioAllocated \/ (\E c \in {"preparation",
   "drain"} : StopAwaited(c)) \/ Started \/ Retired \/ CandidatesSent \/ Authorized \/ SignalsEnd \/
   PrivacyRead \/ Subscribed \/ PollEnds \/ Unsubscribed \/ PrivacyReport \/ RunQueuedStop \/ Take
   \/ TasksEnd \/ Ended \/ AudioReleased \/ VideoReleased \/ UNCHANGED vars
  BY <1>1 DEF OpenWindow, Navigated, Activated, ClickStop, ClickAllocate, OnStart, CloseReceiver,
     ReceiverClosed, CloseSession, CloseController, AllocationRead, Allocated, PreparationRead,
     AudioAllocated, StopAwaited, Started, Retired, CandidatesSent, Authorized, SignalsEnd,
     PrivacyRead, Subscribed, PollEnds, Unsubscribed, PrivacyReport, RunQueuedStop, Take, TasksEnd,
     Ended, AudioReleased, VideoReleased, vars, ui, content, run, stopping, stopper, owned, camera,
     TypeInv, NumbersTyped, ChannelTyped
<1>2. CASE Receive
  <2>1. Len(messages) \in Nat /\ page \in Sessions /\ messages \in Seq(Sessions)
    BY LenProperties DEF TypeInv, ChannelTyped, NumbersTyped
  <2>2. Append(messages, page) \in Seq(Sessions) /\ Len(Append(messages, page)) = Len(messages) + 1
    BY <2>1, AppendProperties
  <2> QED BY <1>2, <2>1, <2>2, BoundAssumption DEF Receive, ChannelTyped
<1>3. CASE Skip
  BY <1>3, TailTyped DEF Skip
<1>4. CASE OfferReceived
  BY <1>4, TailTyped DEF OfferReceived, Taken
<1>5. CASE CandidateReceived
  BY <1>5, TailTyped DEF CandidateReceived, Taken
<1>6. CASE CaptureRequested
  BY <1>6, TailTyped DEF CaptureRequested, Taken
<1>7. CASE PageReported
  BY <1>7, TailTyped DEF PageReported, Taken
<1> QED BY <1>1, <1>2, <1>3, <1>4, <1>5, <1>6, <1>7 DEF Next, Application, Page, Allocation,
   Preparation, Drain, Privacy, Stop

LEMMA CountsTypedKept ==
    ASSUME TypeInv, [Next]_vars
    PROVE  CountsTyped'
<1>1. CASE OpenWindow \/ Navigated \/ Activated \/ ClickStop \/ ClickAllocate \/ (\E m \in Modes :
   OnStart(m)) \/ CloseReceiver \/ ReceiverClosed \/ CloseSession \/ CloseController \/ Receive \/
   Skip \/ OfferReceived \/ CandidateReceived \/ CaptureRequested \/ PageReported \/ AllocationRead
   \/ Allocated \/ PreparationRead \/ AudioAllocated \/ (\E c \in {"preparation", "drain"} :
   StopAwaited(c)) \/ Started \/ Retired \/ CandidatesSent \/ Authorized \/ SignalsEnd \/
   PrivacyRead \/ Subscribed \/ PollEnds \/ Unsubscribed \/ PrivacyReport \/ RunQueuedStop \/ Take
   \/ UNCHANGED vars
  BY <1>1 DEF OpenWindow, Navigated, Activated, ClickStop, ClickAllocate, OnStart, CloseReceiver,
     ReceiverClosed, CloseSession, CloseController, Receive, Skip, OfferReceived, CandidateReceived,
     CaptureRequested, PageReported, AllocationRead, Allocated, PreparationRead, AudioAllocated,
     StopAwaited, Started, Retired, CandidatesSent, Authorized, SignalsEnd, PrivacyRead, Subscribed,
     PollEnds, Unsubscribed, PrivacyReport, RunQueuedStop, Take, Drained, Taken, Fail, Goto, Begin,
     StopAsync, Continue, vars, ui, content, run, stopping, stopper, owned, camera, TypeInv,
     CountsTyped, Streams
<1>2. CASE TasksEnd
  BY <1>2 DEF TasksEnd, ReleaseNext, ui, content, run, stopper, camera, TypeInv, CountsTyped,
     Streams
<1>3. CASE Ended
  BY <1>3 DEF Ended, ReleaseNext, ui, content, run, TypeInv, CountsTyped, Streams
<1>4. CASE AudioReleased
  BY <1>4 DEF AudioReleased, ReleaseNext, ui, content, run, stopper, TypeInv, CountsTyped, Streams
<1>5. CASE VideoReleased
  BY <1>5 DEF VideoReleased, ReleaseNext, ui, content, run, stopper, TypeInv, CountsTyped, Streams
<1> QED BY <1>1, <1>2, <1>3, <1>4, <1>5 DEF Next, Application, Page, Allocation, Preparation, Drain,
   Privacy, Stop

\* A coroutine begins with the session that is running, and ends without one.
LEMMA TaskInvKept ==
    ASSUME TypeInv, TaskInv, StopInv, SessionInv, [Next]_vars
    PROVE  TaskInv'
<1>1. CASE OpenWindow \/ Navigated \/ Activated \/ ClickStop \/ CloseReceiver \/ ReceiverClosed \/
   CloseSession \/ CloseController \/ Receive \/ Skip \/ PrivacyReport \/ RunQueuedStop \/ Take \/
   TasksEnd \/ Ended \/ AudioReleased \/ VideoReleased \/ UNCHANGED vars
  BY <1>1 DEF OpenWindow, Navigated, Activated, ClickStop, CloseReceiver, ReceiverClosed,
     CloseSession, CloseController, Receive, Skip, PrivacyReport, RunQueuedStop, Take, TasksEnd,
     Ended, AudioReleased, VideoReleased, Drained, vars, ui, content, run, stopping, stopper, owned,
     camera, TaskInv, StopInv, SessionInv, Loops, Idle, At, Canceled
<1>2. CASE ClickAllocate
  BY <1>2, CoroutineSet, BeginFacts DEF ClickAllocate, ui, content, run, stopping, stopper, owned,
     camera, TaskInv, StopInv, SessionInv, Loops, Idle, At, Canceled
<1>3. ASSUME NEW m \in Modes, OnStart(m) PROVE TaskInv'
  <2>1. starts \in Nat /\ starts' = starts + 1
    BY <1>3, BoundAssumption DEF OnStart, TypeInv, NumbersTyped, TaskTyped, Sessions
  <2>2. /\ task'["preparation"] = <<"Read", starts + 1>>
        /\ \A c \in Coroutines : c # "preparation" => task'[c] = task[c]
    BY <1>3, CoroutineSet DEF OnStart, Begin, TypeInv, TaskTyped
  <2> QED BY <2>1, <2>2, CoroutineSet DEF TaskInv, Idle, At
<1>4. CASE OfferReceived
  <2>1. current \in 1 .. starts /\ UNCHANGED starts
    BY <1>4, BoundAssumption DEF OfferReceived, Taken, StopInv, TypeInv, NumbersTyped, TaskTyped,
       Sessions, run
  <2>2. CASE Begin("drain", "Start", current)
    BY <2>1, <2>2, CoroutineSet, BeginFacts DEF TaskInv, Idle, At
  <2>3. CASE Fail
    BY <2>1, <2>3, CoroutineSet, GotoFacts DEF Fail, TaskInv, Idle, At
  <2> QED BY <1>4, <2>2, <2>3 DEF OfferReceived
<1>5. CASE CandidateReceived
  <2>1. current \in 1 .. starts /\ UNCHANGED starts
    BY <1>5, BoundAssumption DEF CandidateReceived, Taken, StopInv, TypeInv, NumbersTyped,
       TaskTyped, Sessions, run
  <2>2. CASE Begin("drain", "Send", current)
    BY <2>1, <2>2, CoroutineSet, BeginFacts DEF TaskInv, Idle, At
  <2>3. CASE Fail
    BY <2>1, <2>3, CoroutineSet, GotoFacts DEF Fail, TaskInv, Idle, At
  <2> QED BY <1>5, <2>2, <2>3 DEF CandidateReceived
<1>6. CASE CaptureRequested
  <2>1. current \in 1 .. starts /\ UNCHANGED starts
    BY <1>6, BoundAssumption DEF CaptureRequested, Taken, StopInv, TypeInv, NumbersTyped, TaskTyped,
       Sessions, run
  <2>2. CASE Begin("drain", "Authorize", current)
    BY <2>1, <2>2, CoroutineSet, BeginFacts DEF TaskInv, Idle, At
  <2>3. CASE Fail
    BY <2>1, <2>3, CoroutineSet, GotoFacts DEF Fail, TaskInv, Idle, At
  <2> QED BY <1>6, <2>2, <2>3 DEF CaptureRequested
<1>7. CASE PageReported
  <2>1. CASE UNCHANGED <<current, stop, task>>
    BY <1>7, <2>1, CoroutineSet DEF PageReported, Taken, Drained, ui, content, run, stopper,
       owned, camera, TaskInv, StopInv, SessionInv, Loops, Idle, At, Canceled
  <2>2. CASE Fail
    BY <1>7, <2>2, CoroutineSet, GotoFacts DEF PageReported, Taken, Drained, Fail, StopAsync,
       Continue, ui, content, run, stopping, stopper, owned, camera, TaskInv, StopInv, SessionInv,
       Loops, Idle, At, Canceled
  <2> QED BY <1>7, <2>1, <2>2 DEF PageReported
<1>8. CASE AllocationRead
  BY <1>8, CoroutineSet, GotoFacts DEF AllocationRead, ui, content, run, stopping, stopper, owned,
     camera, TaskInv, StopInv, SessionInv, Loops, Idle, At, Canceled
<1>9. CASE Allocated
  BY <1>9, CoroutineSet, GotoFacts DEF Allocated, ui, content, run, stopping, stopper, TaskInv,
     StopInv, SessionInv, Loops, Idle, At, Canceled
<1>10. CASE PreparationRead
  BY <1>10, CoroutineSet, GotoFacts DEF PreparationRead, PreparationEnds, StopAsync, Continue, ui,
     run, stopping, stopper, owned, camera, TaskInv, StopInv, SessionInv, Loops, Idle, At, Canceled
<1>11. CASE AudioAllocated
  BY <1>11, CoroutineSet, GotoFacts DEF AudioAllocated, PreparationEnds, StopAsync, Continue, ui,
     run, stopping, stopper, TaskInv, StopInv, SessionInv, Loops, Idle, At, Canceled
<1>12. ASSUME NEW c \in {"preparation", "drain"}, StopAwaited(c) PROVE TaskInv'
  BY <1>12, CoroutineSet, GotoFacts DEF StopAwaited, ui, content, run, stopping, stopper, owned,
     camera, TaskInv, StopInv, SessionInv, Loops, Idle, At, Canceled
<1>13. CASE Started
  BY <1>13, CoroutineSet, GotoFacts DEF Started, Fail, StopAsync, Continue, TypeInv, TaskTyped, ui,
     content, stopping, stopper, owned, TaskInv, StopInv, SessionInv, Loops, Idle, At, Canceled
<1>14. CASE Retired
  BY <1>14, CoroutineSet, GotoFacts DEF Retired, Fail, StopAsync, Continue, ui, content, run,
     stopping, stopper, owned, TaskInv, StopInv, SessionInv, Loops, Idle, At, Canceled
<1>15. CASE CandidatesSent
  BY <1>15, CoroutineSet, GotoFacts DEF CandidatesSent, Fail, StopAsync, Continue, ui, content, run,
     stopping, stopper, owned, camera, TaskInv, StopInv, SessionInv, Loops, Idle, At, Canceled
<1>16. CASE Authorized
  BY <1>16, CoroutineSet, GotoFacts DEF Authorized, Fail, StopAsync, Continue, ui, content, run,
     stopping, stopper, owned, camera, TaskInv, StopInv, SessionInv, Loops, Idle, At, Canceled
<1>17. CASE SignalsEnd
  BY <1>17, CoroutineSet, GotoFacts DEF SignalsEnd, LoopEnds, ui, content, run, stopping, owned,
     camera, TaskInv, StopInv, SessionInv, Loops, Idle, At, Canceled
<1>18. CASE PrivacyRead
  BY <1>18, CoroutineSet, GotoFacts DEF PrivacyRead, LoopEnds, ui, content, run, stopping, owned,
     camera, TaskInv, StopInv, SessionInv, Loops, Idle, At, Canceled
<1>19. CASE Subscribed
  BY <1>19, CoroutineSet, GotoFacts DEF Subscribed, LoopEnds, ui, content, run, stopping, owned,
     TaskInv, StopInv, SessionInv, Loops, Idle, At, Canceled
<1>20. CASE PollEnds
  BY <1>20, CoroutineSet, GotoFacts DEF PollEnds, LoopEnds, ui, content, run, stopping, owned,
     camera, TaskInv, StopInv, SessionInv, Loops, Idle, At, Canceled
<1>21. CASE Unsubscribed
  BY <1>21, CoroutineSet, GotoFacts DEF Unsubscribed, ui, content, run, stopping, stopper, owned,
     TaskInv, StopInv, SessionInv, Loops, Idle, At, Canceled
<1> QED BY <1>1, <1>2, <1>3, <1>4, <1>5, <1>6, <1>7, <1>8, <1>9, <1>10, <1>11, <1>12, <1>13, <1>14,
   <1>15, <1>16, <1>17, <1>18, <1>19, <1>20, <1>21 DEF Next, Application, Page, Allocation,
   Preparation, Drain, Privacy, Stop

\* A session runs while nothing stops; whatever stops it disarms the microphone.
LEMMA StopInvKept ==
    ASSUME TypeInv, TaskInv, StopInv, StartInv, SessionInv, [Next]_vars
    PROVE  StopInv'
<1>1. CASE OpenWindow \/ Navigated \/ ReceiverClosed \/ CloseSession \/ CloseController \/ Receive
   \/ Skip \/ UNCHANGED vars
  BY <1>1 DEF OpenWindow, Navigated, ReceiverClosed, CloseSession, CloseController, Receive, Skip,
     Drained, vars, ui, content, run, stopping, stopper, owned, camera, TaskInv, StopInv, StartInv,
     SessionInv, MicrophoneGated, Loops, Idle, At, Canceled
<1>2. CASE Activated
  BY <1>2, CoroutineSet DEF Activated, StopAsync, Continue, content, run, stopping, stopper, owned,
     camera, TaskInv, StopInv, StartInv, SessionInv, MicrophoneGated, Loops, Idle, At, Canceled
<1>3. CASE ClickStop
  BY <1>3, CoroutineSet DEF ClickStop, StopAsync, Continue, ui, content, run, stopping, stopper,
     owned, camera, TaskInv, StopInv, StartInv, SessionInv, MicrophoneGated, Loops, Idle, At,
     Canceled
<1>4. CASE ClickAllocate
  BY <1>4, CoroutineSet, BeginFacts DEF ClickAllocate, ui, content, run, stopping, stopper, owned,
     camera, TaskInv, StopInv, StartInv, SessionInv, MicrophoneGated, Loops, Idle, At, Canceled
<1>5. ASSUME NEW m \in Modes, OnStart(m) PROVE StopInv'
  <2>1. /\ At("drain", "Authorize")' <=> At("drain", "Authorize")
        /\ task'["drain"][2] = task["drain"][2]
    BY <1>5, CoroutineSet, BeginFacts DEF OnStart, At
  <2>2. At("drain", "Authorize") => task["drain"][2] # starts + 1
    BY <1>5, CoroutineSet, BoundAssumption DEF OnStart, TaskInv, At, TypeInv, NumbersTyped,
       TaskTyped, Sessions
  <2>3. /\ current' = starts' /\ starts' = starts + 1 /\ ~armed' /\ stop' = "Idle"
    BY <1>5 DEF OnStart
  <2> QED BY <2>1, <2>2, <2>3 DEF StopInv, MicrophoneGated, Canceled
<1>6. CASE CloseReceiver
  BY <1>6, CoroutineSet DEF CloseReceiver, StopAsync, Continue, content, run, stopping, stopper,
     owned, camera, TaskInv, StopInv, StartInv, SessionInv, MicrophoneGated, Loops, Idle, At,
     Canceled
<1>7. CASE OfferReceived
  BY <1>7, CoroutineSet, GotoFacts, BeginFacts DEF OfferReceived, Taken, Drained, Fail, StopAsync,
     Continue, ui, stopping, stopper, owned, camera, TaskInv, StopInv, StartInv, SessionInv,
     MicrophoneGated, Loops, Idle, At, Canceled
<1>8. CASE CandidateReceived
  BY <1>8, CoroutineSet, GotoFacts, BeginFacts DEF CandidateReceived, Taken, Drained, Fail,
     StopAsync, Continue, ui, run, stopping, stopper, owned, camera, TaskInv, StopInv, StartInv,
     SessionInv, MicrophoneGated, Loops, Idle, At, Canceled
<1>9. CASE CaptureRequested
  BY <1>9, CoroutineSet, GotoFacts, BeginFacts DEF CaptureRequested, Taken, Drained, Fail,
     StopAsync, Continue, ui, run, stopping, stopper, owned, camera, TaskInv, StopInv, StartInv,
     SessionInv, MicrophoneGated, Loops, Idle, At, Canceled
<1>10. CASE PageReported
  <2>1. CASE armed' \in {armed, FALSE} /\ UNCHANGED <<current, stop, task>>
    <3>1. armed' => armed
      BY <2>1
    <3>2. UNCHANGED <<current, stop, task, starts, mode, active, session>>
      BY <1>10, <2>1 DEF PageReported, ui, run
    <3> QED BY <3>1, <3>2 DEF StopInv, MicrophoneGated, At, Canceled
  <2>2. CASE Fail
    BY <1>10, <2>2, CoroutineSet, GotoFacts DEF PageReported, Taken, Drained, Fail, StopAsync,
       Continue, ui, content, run, stopping, stopper, owned, camera, TaskInv, StopInv, StartInv,
       SessionInv, MicrophoneGated, Loops, Idle, At, Canceled
  <2> QED BY <1>10, <2>1, <2>2 DEF PageReported
<1>11. CASE AllocationRead
  BY <1>11, CoroutineSet, GotoFacts DEF AllocationRead, ui, content, run, stopping, stopper, owned,
     camera, TaskInv, StopInv, StartInv, SessionInv, MicrophoneGated, Loops, Idle, At, Canceled
<1>12. CASE Allocated
  BY <1>12, CoroutineSet, GotoFacts DEF Allocated, ui, content, run, stopping, stopper, TaskInv,
     StopInv, StartInv, SessionInv, MicrophoneGated, Loops, Idle, At, Canceled
<1>13. CASE PreparationRead
  BY <1>13, CoroutineSet, GotoFacts DEF PreparationRead, PreparationEnds, StopAsync, Continue, ui,
     run, stopping, stopper, owned, camera, TaskInv, StopInv, StartInv, SessionInv, MicrophoneGated,
     Loops, Idle, At, Canceled
<1>14. CASE AudioAllocated
  BY <1>14, CoroutineSet, GotoFacts DEF AudioAllocated, PreparationEnds, StopAsync, Continue, ui,
     run, stopping, stopper, TaskInv, StopInv, StartInv, SessionInv, MicrophoneGated, Loops, Idle,
     At, Canceled
<1>15. ASSUME NEW c \in {"preparation", "drain"}, StopAwaited(c) PROVE StopInv'
  BY <1>15, CoroutineSet, GotoFacts DEF StopAwaited, ui, content, run, stopping, stopper, owned,
     camera, TaskInv, StopInv, StartInv, SessionInv, MicrophoneGated, Loops, Idle, At, Canceled
<1>16. CASE Started
  BY <1>16, CoroutineSet, GotoFacts DEF Started, Fail, StopAsync, Continue, TypeInv, TaskTyped, ui,
     content, stopping, stopper, owned, TaskInv, StopInv, StartInv, SessionInv, MicrophoneGated,
     Loops, Idle, At, Canceled
<1>17. CASE Retired
  BY <1>17, CoroutineSet, GotoFacts DEF Retired, Fail, StopAsync, Continue, ui, content, run,
     stopping, stopper, owned, TaskInv, StopInv, StartInv, SessionInv, MicrophoneGated, Loops, Idle,
     At, Canceled
<1>18. CASE CandidatesSent
  BY <1>18, CoroutineSet, GotoFacts DEF CandidatesSent, Fail, StopAsync, Continue, ui, content, run,
     stopping, stopper, owned, camera, TaskInv, StopInv, StartInv, SessionInv, MicrophoneGated,
     Loops, Idle, At, Canceled
<1>19. CASE Authorized
  BY <1>19, CoroutineSet, GotoFacts DEF Authorized, Fail, StopAsync, Continue, ui, content, run,
     stopping, stopper, owned, camera, TaskInv, StopInv, StartInv, SessionInv, MicrophoneGated,
     Loops, Idle, At, Canceled
<1>20. CASE SignalsEnd
  BY <1>20, CoroutineSet, GotoFacts DEF SignalsEnd, LoopEnds, ui, content, run, stopping, owned,
     camera, TaskInv, StopInv, StartInv, SessionInv, MicrophoneGated, Loops, Idle, At, Canceled
<1>21. CASE PrivacyRead
  BY <1>21, CoroutineSet, GotoFacts DEF PrivacyRead, LoopEnds, ui, content, run, stopping, owned,
     camera, TaskInv, StopInv, StartInv, SessionInv, MicrophoneGated, Loops, Idle, At, Canceled
<1>22. CASE Subscribed
  BY <1>22, CoroutineSet, GotoFacts DEF Subscribed, LoopEnds, ui, content, run, stopping, owned,
     TaskInv, StopInv, StartInv, SessionInv, MicrophoneGated, Loops, Idle, At, Canceled
<1>23. CASE PollEnds
  BY <1>23, CoroutineSet, GotoFacts DEF PollEnds, LoopEnds, ui, content, run, stopping, owned,
     camera, TaskInv, StopInv, StartInv, SessionInv, MicrophoneGated, Loops, Idle, At, Canceled
<1>24. CASE Unsubscribed
  BY <1>24, CoroutineSet, GotoFacts DEF Unsubscribed, ui, content, run, stopping, stopper, owned,
     TaskInv, StopInv, StartInv, SessionInv, MicrophoneGated, Loops, Idle, At, Canceled
<1>25. CASE PrivacyReport
  BY <1>25, CoroutineSet DEF PrivacyReport, StopAsync, Continue, ui, content, run, stopping,
     stopper, owned, camera, TaskInv, StopInv, StartInv, SessionInv, MicrophoneGated, Loops, Idle,
     At, Canceled
<1>26. CASE RunQueuedStop
  BY <1>26, CoroutineSet DEF RunQueuedStop, StopAsync, Continue, ui, content, run, stopping, owned,
     camera, TaskInv, StopInv, StartInv, SessionInv, MicrophoneGated, Loops, Idle, At, Canceled
<1>27. CASE Take
  BY <1>27, CoroutineSet DEF Take, ui, owned, camera, TaskInv, StopInv, StartInv, SessionInv,
     MicrophoneGated, Loops, Idle, At, Canceled
<1>28. CASE TasksEnd
  BY <1>28, CoroutineSet DEF TasksEnd, ReleaseNext, Streams, ui, content, run, stopper, camera, TaskInv,
     StopInv, StartInv, SessionInv, MicrophoneGated, Loops, Idle, At, Canceled
<1>29. CASE Ended
  BY <1>29, CoroutineSet DEF Ended, ReleaseNext, Streams, ui, content, run, TaskInv, StopInv, StartInv,
     SessionInv, MicrophoneGated, Loops, Idle, At, Canceled
<1>30. CASE AudioReleased
  BY <1>30, CoroutineSet DEF AudioReleased, ReleaseNext, ui, content, run, stopper, TaskInv,
     StopInv, StartInv, SessionInv, MicrophoneGated, Loops, Idle, At, Canceled
<1>31. CASE VideoReleased
  BY <1>31, CoroutineSet DEF VideoReleased, ReleaseNext, ui, content, run, stopper, TaskInv,
     StopInv, StartInv, SessionInv, MicrophoneGated, Loops, Idle, At, Canceled
<1> QED BY <1>1, <1>2, <1>3, <1>4, <1>5, <1>6, <1>7, <1>8, <1>9, <1>10, <1>11, <1>12, <1>13, <1>14,
   <1>15, <1>16, <1>17, <1>18, <1>19, <1>20, <1>21, <1>22, <1>23, <1>24, <1>25, <1>26, <1>27, <1>28,
   <1>29, <1>30, <1>31 DEF Next, Application, Page, Allocation, Preparation, Drain, Privacy, Stop

\* A start that outlives its session is retired, and the stop waits for both.
LEMMA StartInvKept ==
    ASSUME TypeInv, TaskInv, StopInv, StartInv, SessionInv, [Next]_vars
    PROVE  StartInv'
<1>1. CASE OpenWindow \/ Navigated \/ ReceiverClosed \/ CloseSession \/ CloseController \/ Receive
   \/ Skip \/ UNCHANGED vars
  BY <1>1 DEF OpenWindow, Navigated, ReceiverClosed, CloseSession, CloseController, Receive, Skip,
     Drained, vars, ui, content, run, stopping, stopper, owned, camera, TaskInv, StopInv, StartInv,
     SessionInv, Starting, Preparing, Loops, Idle, At, Canceled
<1>2. CASE Activated
  BY <1>2, CoroutineSet DEF Activated, StopAsync, Continue, content, run, stopping, stopper, owned,
     camera, TaskInv, StopInv, StartInv, SessionInv, Starting, Preparing, Loops, Idle, At, Canceled
<1>3. CASE ClickStop
  BY <1>3, CoroutineSet DEF ClickStop, StopAsync, Continue, ui, content, run, stopping, stopper,
     owned, camera, TaskInv, StopInv, StartInv, SessionInv, Starting, Preparing, Loops, Idle, At,
     Canceled
<1>4. CASE ClickAllocate
  BY <1>4, CoroutineSet, BeginFacts DEF ClickAllocate, ui, content, run, stopping, stopper, owned,
     camera, TaskInv, StopInv, StartInv, SessionInv, Starting, Preparing, Loops, Idle, At, Canceled
<1>5. ASSUME NEW m \in Modes, OnStart(m) PROVE StartInv'
  BY <1>5, CoroutineSet, BeginFacts DEF OnStart, ui, content, stopper, owned, camera, TaskInv,
     StopInv, StartInv, SessionInv, Starting, Preparing, Loops, Idle, At, Canceled
<1>6. CASE CloseReceiver
  BY <1>6, CoroutineSet DEF CloseReceiver, StopAsync, Continue, content, run, stopping, stopper,
     owned, camera, TaskInv, StopInv, StartInv, SessionInv, Starting, Preparing, Loops, Idle, At,
     Canceled
<1>7. CASE OfferReceived
  BY <1>7, CoroutineSet, GotoFacts, BeginFacts DEF OfferReceived, Taken, Drained, Fail, StopAsync,
     Continue, ui, stopping, stopper, owned, camera, TaskInv, StopInv, StartInv, SessionInv,
     Starting, Preparing, Loops, Idle, At, Canceled
<1>8. CASE CandidateReceived
  BY <1>8, CoroutineSet, GotoFacts, BeginFacts DEF CandidateReceived, Taken, Drained, Fail,
     StopAsync, Continue, ui, run, stopping, stopper, owned, camera, TaskInv, StopInv, StartInv,
     SessionInv, Starting, Preparing, Loops, Idle, At, Canceled
<1>9. CASE CaptureRequested
  BY <1>9, CoroutineSet, GotoFacts, BeginFacts DEF CaptureRequested, Taken, Drained, Fail,
     StopAsync, Continue, ui, run, stopping, stopper, owned, camera, TaskInv, StopInv, StartInv,
     SessionInv, Starting, Preparing, Loops, Idle, At, Canceled
<1>10. CASE PageReported
  BY <1>10, CoroutineSet, GotoFacts DEF PageReported, Taken, Drained, Fail, StopAsync, Continue, ui,
     run, stopping, stopper, owned, camera, TaskInv, StopInv, StartInv, SessionInv, Starting,
     Preparing, Loops, Idle, At, Canceled
<1>11. CASE AllocationRead
  BY <1>11, CoroutineSet, GotoFacts DEF AllocationRead, ui, content, run, stopping, stopper, owned,
     camera, TaskInv, StopInv, StartInv, SessionInv, Starting, Preparing, Loops, Idle, At, Canceled
<1>12. CASE Allocated
  BY <1>12, CoroutineSet, GotoFacts DEF Allocated, ui, content, run, stopping, stopper, TaskInv,
     StopInv, StartInv, SessionInv, Starting, Preparing, Loops, Idle, At, Canceled
<1>13. CASE PreparationRead
  BY <1>13, CoroutineSet, GotoFacts DEF PreparationRead, PreparationEnds, StopAsync, Continue, ui,
     run, stopping, stopper, owned, camera, TaskInv, StopInv, StartInv, SessionInv, Starting,
     Preparing, Loops, Idle, At, Canceled
<1>14. CASE AudioAllocated
  BY <1>14, CoroutineSet, GotoFacts DEF AudioAllocated, PreparationEnds, StopAsync, Continue, ui,
     run, stopping, stopper, TaskInv, StopInv, StartInv, SessionInv, Starting, Preparing, Loops,
     Idle, At, Canceled
<1>15. ASSUME NEW c \in {"preparation", "drain"}, StopAwaited(c) PROVE StartInv'
  BY <1>15, CoroutineSet, GotoFacts DEF StopAwaited, ui, content, run, stopping, stopper, owned,
     camera, TaskInv, StopInv, StartInv, SessionInv, Starting, Preparing, Loops, Idle, At, Canceled
<1>16. CASE Started
  BY <1>16, CoroutineSet, GotoFacts DEF Started, Fail, StopAsync, Continue, TypeInv, TaskTyped, ui,
     content, stopping, stopper, owned, TaskInv, StopInv, StartInv, SessionInv, Starting, Preparing,
     Loops, Idle, At, Canceled
<1>17. CASE Retired
  BY <1>17, CoroutineSet, GotoFacts DEF Retired, Fail, StopAsync, Continue, ui, content, run,
     stopping, stopper, owned, TaskInv, StopInv, StartInv, SessionInv, Starting, Preparing, Loops,
     Idle, At, Canceled
<1>18. CASE CandidatesSent
  BY <1>18, CoroutineSet, GotoFacts DEF CandidatesSent, Fail, StopAsync, Continue, ui, content, run,
     stopping, stopper, owned, camera, TaskInv, StopInv, StartInv, SessionInv, Starting, Preparing,
     Loops, Idle, At, Canceled
<1>19. CASE Authorized
  BY <1>19, CoroutineSet, GotoFacts DEF Authorized, Fail, StopAsync, Continue, ui, content, run,
     stopping, stopper, owned, camera, TaskInv, StopInv, StartInv, SessionInv, Starting, Preparing,
     Loops, Idle, At, Canceled
<1>20. CASE SignalsEnd
  BY <1>20, CoroutineSet, GotoFacts DEF SignalsEnd, LoopEnds, ui, content, run, stopping, owned,
     camera, TaskInv, StopInv, StartInv, SessionInv, Starting, Preparing, Loops, Idle, At, Canceled
<1>21. CASE PrivacyRead
  BY <1>21, CoroutineSet, GotoFacts DEF PrivacyRead, LoopEnds, ui, content, run, stopping, owned,
     camera, TaskInv, StopInv, StartInv, SessionInv, Starting, Preparing, Loops, Idle, At, Canceled
<1>22. CASE Subscribed
  BY <1>22, CoroutineSet, GotoFacts DEF Subscribed, LoopEnds, ui, content, run, stopping, owned,
     TaskInv, StopInv, StartInv, SessionInv, Starting, Preparing, Loops, Idle, At, Canceled
<1>23. CASE PollEnds
  BY <1>23, CoroutineSet, GotoFacts DEF PollEnds, LoopEnds, ui, content, run, stopping, owned,
     camera, TaskInv, StopInv, StartInv, SessionInv, Starting, Preparing, Loops, Idle, At, Canceled
<1>24. CASE Unsubscribed
  BY <1>24, CoroutineSet, GotoFacts DEF Unsubscribed, ui, content, run, stopping, stopper, owned,
     TaskInv, StopInv, StartInv, SessionInv, Starting, Preparing, Loops, Idle, At, Canceled
<1>25. CASE PrivacyReport
  BY <1>25, CoroutineSet DEF PrivacyReport, StopAsync, Continue, ui, content, run, stopping,
     stopper, owned, camera, TaskInv, StopInv, StartInv, SessionInv, Starting, Preparing, Loops,
     Idle, At, Canceled
<1>26. CASE RunQueuedStop
  BY <1>26, CoroutineSet DEF RunQueuedStop, StopAsync, Continue, ui, content, run, stopping, owned,
     camera, TaskInv, StopInv, StartInv, SessionInv, Starting, Preparing, Loops, Idle, At, Canceled
<1>27. CASE Take
  BY <1>27, CoroutineSet DEF Take, ui, owned, camera, TaskInv, StopInv, StartInv, SessionInv,
     Starting, Preparing, Loops, Idle, At, Canceled
<1>28. CASE TasksEnd
  BY <1>28, CoroutineSet DEF TasksEnd, ReleaseNext, Streams, ui, content, run, stopper, camera, TaskInv,
     StopInv, StartInv, SessionInv, Starting, Preparing, Loops, Idle, At, Canceled
<1>29. CASE Ended
  BY <1>29, CoroutineSet DEF Ended, ReleaseNext, Streams, ui, content, run, TaskInv, StopInv, StartInv,
     SessionInv, Starting, Preparing, Loops, Idle, At, Canceled
<1>30. CASE AudioReleased
  BY <1>30, CoroutineSet DEF AudioReleased, ReleaseNext, ui, content, run, stopper, TaskInv,
     StopInv, StartInv, SessionInv, Starting, Preparing, Loops, Idle, At, Canceled
<1>31. CASE VideoReleased
  BY <1>31, CoroutineSet DEF VideoReleased, ReleaseNext, ui, content, run, stopper, TaskInv,
     StopInv, StartInv, SessionInv, Starting, Preparing, Loops, Idle, At, Canceled
<1> QED BY <1>1, <1>2, <1>3, <1>4, <1>5, <1>6, <1>7, <1>8, <1>9, <1>10, <1>11, <1>12, <1>13, <1>14,
   <1>15, <1>16, <1>17, <1>18, <1>19, <1>20, <1>21, <1>22, <1>23, <1>24, <1>25, <1>26, <1>27, <1>28,
   <1>29, <1>30, <1>31 DEF Next, Application, Page, Allocation, Preparation, Drain, Privacy, Stop

\* A session and its loops: the stop takes the session, waits for the loops and then ends it.
LEMMA SessionInvKept ==
    ASSUME TypeInv, TaskInv, StopInv, StartInv, SessionInv, [Next]_vars
    PROVE  SessionInv'
<1>1. CASE OpenWindow \/ Navigated \/ ReceiverClosed \/ CloseSession \/ CloseController \/ Receive
   \/ Skip \/ UNCHANGED vars
  BY <1>1 DEF OpenWindow, Navigated, ReceiverClosed, CloseSession, CloseController, Receive, Skip,
     Drained, vars, ui, content, run, stopping, stopper, owned, camera, TaskInv, StopInv, StartInv,
     SessionInv, Starting, Preparing, Loops, Idle, At, Canceled
<1>2. CASE Activated
  BY <1>2, CoroutineSet DEF Activated, StopAsync, Continue, content, run, stopping, stopper, owned,
     camera, TaskInv, StopInv, StartInv, SessionInv, Starting, Preparing, Loops, Idle, At, Canceled
<1>3. CASE ClickStop
  BY <1>3, CoroutineSet DEF ClickStop, StopAsync, Continue, ui, content, run, stopping, stopper,
     owned, camera, TaskInv, StopInv, StartInv, SessionInv, Starting, Preparing, Loops, Idle, At,
     Canceled
<1>4. CASE ClickAllocate
  BY <1>4, CoroutineSet, BeginFacts DEF ClickAllocate, ui, content, run, stopping, stopper, owned,
     camera, TaskInv, StopInv, StartInv, SessionInv, Starting, Preparing, Loops, Idle, At, Canceled
<1>5. ASSUME NEW m \in Modes, OnStart(m) PROVE SessionInv'
  BY <1>5, CoroutineSet, BeginFacts DEF OnStart, ui, content, stopper, owned, camera, TaskInv,
     StopInv, StartInv, SessionInv, Starting, Preparing, Loops, Idle, At, Canceled
<1>6. CASE CloseReceiver
  BY <1>6, CoroutineSet DEF CloseReceiver, StopAsync, Continue, content, run, stopping, stopper,
     owned, camera, TaskInv, StopInv, StartInv, SessionInv, Starting, Preparing, Loops, Idle, At,
     Canceled
<1>7. CASE OfferReceived
  BY <1>7, CoroutineSet, GotoFacts, BeginFacts DEF OfferReceived, Taken, Drained, Fail, StopAsync,
     Continue, ui, stopping, stopper, owned, camera, TaskInv, StopInv, StartInv, SessionInv,
     Starting, Preparing, Loops, Idle, At, Canceled
<1>8. CASE CandidateReceived
  BY <1>8, CoroutineSet, GotoFacts, BeginFacts DEF CandidateReceived, Taken, Drained, Fail,
     StopAsync, Continue, ui, run, stopping, stopper, owned, camera, TaskInv, StopInv, StartInv,
     SessionInv, Starting, Preparing, Loops, Idle, At, Canceled
<1>9. CASE CaptureRequested
  BY <1>9, CoroutineSet, GotoFacts, BeginFacts DEF CaptureRequested, Taken, Drained, Fail,
     StopAsync, Continue, ui, run, stopping, stopper, owned, camera, TaskInv, StopInv, StartInv,
     SessionInv, Starting, Preparing, Loops, Idle, At, Canceled
<1>10. CASE PageReported
  <2>1. CASE UNCHANGED <<current, stop, task>>
    BY <1>10, <2>1, CoroutineSet DEF PageReported, Taken, Drained, ui, content, run, stopper,
       owned, camera, TaskInv, StopInv, StartInv, SessionInv, Loops, Idle, At, Canceled
  <2>2. CASE Fail
    BY <1>10, <2>2, CoroutineSet, GotoFacts DEF PageReported, Taken, Drained, Fail, StopAsync,
       Continue, ui, content, run, stopping, stopper, owned, camera, TaskInv, StopInv, StartInv,
       SessionInv, Loops, Idle, At, Canceled
  <2> QED BY <1>10, <2>1, <2>2 DEF PageReported
<1>11. CASE AllocationRead
  BY <1>11, CoroutineSet, GotoFacts DEF AllocationRead, ui, content, run, stopping, stopper, owned,
     camera, TaskInv, StopInv, StartInv, SessionInv, Starting, Preparing, Loops, Idle, At, Canceled
<1>12. CASE Allocated
  BY <1>12, CoroutineSet, GotoFacts DEF Allocated, ui, content, run, stopping, stopper, TaskInv,
     StopInv, StartInv, SessionInv, Starting, Preparing, Loops, Idle, At, Canceled
<1>13. CASE PreparationRead
  BY <1>13, CoroutineSet, GotoFacts DEF PreparationRead, PreparationEnds, StopAsync, Continue, ui,
     run, stopping, stopper, owned, camera, TaskInv, StopInv, StartInv, SessionInv, Starting,
     Preparing, Loops, Idle, At, Canceled
<1>14. CASE AudioAllocated
  BY <1>14, CoroutineSet, GotoFacts DEF AudioAllocated, PreparationEnds, StopAsync, Continue, ui,
     run, stopping, stopper, TaskInv, StopInv, StartInv, SessionInv, Starting, Preparing, Loops,
     Idle, At, Canceled
<1>15. ASSUME NEW c \in {"preparation", "drain"}, StopAwaited(c) PROVE SessionInv'
  BY <1>15, CoroutineSet, GotoFacts DEF StopAwaited, ui, content, run, stopping, stopper, owned,
     camera, TaskInv, StopInv, StartInv, SessionInv, Starting, Preparing, Loops, Idle, At, Canceled
<1>16. CASE Started
  BY <1>16, CoroutineSet, GotoFacts DEF Started, Fail, StopAsync, Continue, TypeInv, TaskTyped, ui,
     content, stopping, stopper, owned, TaskInv, StopInv, StartInv, SessionInv, Starting, Preparing,
     Loops, Idle, At, Canceled
<1>17. CASE Retired
  BY <1>17, CoroutineSet, GotoFacts DEF Retired, Fail, StopAsync, Continue, ui, content, run,
     stopping, stopper, owned, TaskInv, StopInv, StartInv, SessionInv, Starting, Preparing, Loops,
     Idle, At, Canceled
<1>18. CASE CandidatesSent
  BY <1>18, CoroutineSet, GotoFacts DEF CandidatesSent, Fail, StopAsync, Continue, ui, content, run,
     stopping, stopper, owned, camera, TaskInv, StopInv, StartInv, SessionInv, Starting, Preparing,
     Loops, Idle, At, Canceled
<1>19. CASE Authorized
  BY <1>19, CoroutineSet, GotoFacts DEF Authorized, Fail, StopAsync, Continue, ui, content, run,
     stopping, stopper, owned, camera, TaskInv, StopInv, StartInv, SessionInv, Starting, Preparing,
     Loops, Idle, At, Canceled
<1>20. CASE SignalsEnd
  BY <1>20, CoroutineSet, GotoFacts DEF SignalsEnd, LoopEnds, ui, content, run, stopping, owned,
     camera, TaskInv, StopInv, StartInv, SessionInv, Starting, Preparing, Loops, Idle, At, Canceled
<1>21. CASE PrivacyRead
  BY <1>21, CoroutineSet, GotoFacts DEF PrivacyRead, LoopEnds, ui, content, run, stopping, owned,
     camera, TaskInv, StopInv, StartInv, SessionInv, Starting, Preparing, Loops, Idle, At, Canceled
<1>22. CASE Subscribed
  BY <1>22, CoroutineSet, GotoFacts DEF Subscribed, LoopEnds, ui, content, run, stopping, owned,
     TaskInv, StopInv, StartInv, SessionInv, Starting, Preparing, Loops, Idle, At, Canceled
<1>23. CASE PollEnds
  BY <1>23, CoroutineSet, GotoFacts DEF PollEnds, LoopEnds, ui, content, run, stopping, owned,
     camera, TaskInv, StopInv, StartInv, SessionInv, Starting, Preparing, Loops, Idle, At, Canceled
<1>24. CASE Unsubscribed
  BY <1>24, CoroutineSet, GotoFacts DEF Unsubscribed, ui, content, run, stopping, stopper, owned,
     TaskInv, StopInv, StartInv, SessionInv, Starting, Preparing, Loops, Idle, At, Canceled
<1>25. CASE PrivacyReport
  BY <1>25, CoroutineSet DEF PrivacyReport, StopAsync, Continue, ui, content, run, stopping,
     stopper, owned, camera, TaskInv, StopInv, StartInv, SessionInv, Starting, Preparing, Loops,
     Idle, At, Canceled
<1>26. CASE RunQueuedStop
  BY <1>26, CoroutineSet DEF RunQueuedStop, StopAsync, Continue, ui, content, run, stopping, owned,
     camera, TaskInv, StopInv, StartInv, SessionInv, Starting, Preparing, Loops, Idle, At, Canceled
<1>27. CASE Take
  BY <1>27, CoroutineSet DEF Take, ui, owned, camera, TaskInv, StopInv, StartInv, SessionInv,
     Starting, Preparing, Loops, Idle, At, Canceled
<1>28. CASE TasksEnd
  BY <1>28, CoroutineSet DEF TasksEnd, ReleaseNext, Streams, ui, content, run, stopper, camera, TaskInv,
     StopInv, StartInv, SessionInv, Starting, Preparing, Loops, Idle, At, Canceled
<1>29. CASE Ended
  BY <1>29, CoroutineSet DEF Ended, ReleaseNext, Streams, ui, content, run, TaskInv, StopInv, StartInv,
     SessionInv, Starting, Preparing, Loops, Idle, At, Canceled
<1>30. CASE AudioReleased
  BY <1>30, CoroutineSet DEF AudioReleased, ReleaseNext, ui, content, run, stopper, TaskInv,
     StopInv, StartInv, SessionInv, Starting, Preparing, Loops, Idle, At, Canceled
<1>31. CASE VideoReleased
  BY <1>31, CoroutineSet DEF VideoReleased, ReleaseNext, ui, content, run, stopper, TaskInv,
     StopInv, StartInv, SessionInv, Starting, Preparing, Loops, Idle, At, Canceled
<1> QED BY <1>1, <1>2, <1>3, <1>4, <1>5, <1>6, <1>7, <1>8, <1>9, <1>10, <1>11, <1>12, <1>13, <1>14,
   <1>15, <1>16, <1>17, <1>18, <1>19, <1>20, <1>21, <1>22, <1>23, <1>24, <1>25, <1>26, <1>27, <1>28,
   <1>29, <1>30, <1>31 DEF Next, Application, Page, Allocation, Preparation, Drain, Privacy, Stop

\* The camera and the window agree on what is held, or the node is marked.
LEMMA RemoteInvKept ==
    ASSUME TypeInv, StopInv, TaskInv, StartInv, SessionInv, RemoteInv, AllocationInv, ReleaseInv,
       [Next]_vars
    PROVE  RemoteInv'
<1>1. CASE OpenWindow \/ Navigated \/ Activated \/ ClickStop \/ CloseReceiver \/ ReceiverClosed \/
   CloseSession \/ Receive \/ Skip \/ PrivacyReport \/ RunQueuedStop \/ UNCHANGED vars
  BY <1>1 DEF OpenWindow, Navigated, Activated, ClickStop, CloseReceiver, ReceiverClosed,
     CloseSession, Receive, Skip, PrivacyReport, RunQueuedStop, Drained, vars, ui, content, run,
     stopping, stopper, owned, camera, TaskInv, StopInv, StartInv, SessionInv, RemoteInv,
     AllocationInv, ReleaseInv, Starting, Preparing, Loops, Idle, At, Canceled
<1>2. CASE ClickAllocate
  BY <1>2, CoroutineSet, BeginFacts DEF ClickAllocate, ui, content, run, stopping, stopper, owned,
     camera, TaskInv, StopInv, StartInv, SessionInv, RemoteInv, AllocationInv, ReleaseInv, Starting,
     Preparing, Loops, Idle, At, Canceled
<1>3. ASSUME NEW m \in Modes, OnStart(m) PROVE RemoteInv'
  BY <1>3, CoroutineSet, BeginFacts DEF OnStart, ui, content, stopper, owned, camera, TaskInv,
     StopInv, StartInv, SessionInv, RemoteInv, AllocationInv, ReleaseInv, Starting, Preparing,
     Loops, Idle, At, Canceled
<1>4. CASE CloseController
  BY <1>4, CoroutineSet DEF CloseController, content, run, stopping, stopper, owned, TaskInv,
     StopInv, StartInv, SessionInv, RemoteInv, AllocationInv, ReleaseInv, Starting, Preparing,
     Loops, Idle, At, Canceled
<1>5. CASE OfferReceived
  BY <1>5, CoroutineSet, GotoFacts, BeginFacts DEF OfferReceived, Taken, Drained, Fail, StopAsync,
     Continue, ui, stopping, stopper, owned, camera, TaskInv, StopInv, StartInv, SessionInv,
     RemoteInv, AllocationInv, ReleaseInv, Starting, Preparing, Loops, Idle, At, Canceled
<1>6. CASE CandidateReceived
  BY <1>6, CoroutineSet, GotoFacts, BeginFacts DEF CandidateReceived, Taken, Drained, Fail,
     StopAsync, Continue, ui, run, stopping, stopper, owned, camera, TaskInv, StopInv, StartInv,
     SessionInv, RemoteInv, AllocationInv, ReleaseInv, Starting, Preparing, Loops, Idle, At,
     Canceled
<1>7. CASE CaptureRequested
  BY <1>7, CoroutineSet, GotoFacts, BeginFacts DEF CaptureRequested, Taken, Drained, Fail,
     StopAsync, Continue, ui, run, stopping, stopper, owned, camera, TaskInv, StopInv, StartInv,
     SessionInv, RemoteInv, AllocationInv, ReleaseInv, Starting, Preparing, Loops, Idle, At,
     Canceled
<1>8. CASE PageReported
  BY <1>8, CoroutineSet, GotoFacts DEF PageReported, Taken, Drained, Fail, StopAsync, Continue, ui,
     run, stopping, stopper, owned, camera, TaskInv, StopInv, StartInv, SessionInv, RemoteInv,
     AllocationInv, ReleaseInv, Starting, Preparing, Loops, Idle, At, Canceled
<1>9. CASE AllocationRead
  BY <1>9, CoroutineSet, GotoFacts DEF AllocationRead, ui, content, run, stopping, stopper, owned,
     camera, TaskInv, StopInv, StartInv, SessionInv, RemoteInv, AllocationInv, ReleaseInv, Starting,
     Preparing, Loops, Idle, At, Canceled
<1>10. CASE Allocated
  BY <1>10, CoroutineSet, GotoFacts DEF Allocated, ui, content, run, stopping, stopper, TaskInv,
     StopInv, StartInv, SessionInv, RemoteInv, AllocationInv, ReleaseInv, Starting, Preparing,
     Loops, Idle, At, Canceled
<1>11. CASE PreparationRead
  BY <1>11, CoroutineSet, GotoFacts DEF PreparationRead, PreparationEnds, StopAsync, Continue, ui,
     run, stopping, stopper, owned, camera, TaskInv, StopInv, StartInv, SessionInv, RemoteInv,
     AllocationInv, ReleaseInv, Starting, Preparing, Loops, Idle, At, Canceled
<1>12. CASE AudioAllocated
  BY <1>12, CoroutineSet, GotoFacts DEF AudioAllocated, PreparationEnds, StopAsync, Continue, ui,
     run, stopping, stopper, TaskInv, StopInv, StartInv, SessionInv, RemoteInv, AllocationInv,
     ReleaseInv, Starting, Preparing, Loops, Idle, At, Canceled
<1>13. ASSUME NEW c \in {"preparation", "drain"}, StopAwaited(c) PROVE RemoteInv'
  BY <1>13, CoroutineSet, GotoFacts DEF StopAwaited, ui, content, run, stopping, stopper, owned,
     camera, TaskInv, StopInv, StartInv, SessionInv, RemoteInv, AllocationInv, ReleaseInv, Starting,
     Preparing, Loops, Idle, At, Canceled
<1>14. CASE Started
  BY <1>14, CoroutineSet, GotoFacts DEF Started, Fail, StopAsync, Continue, TypeInv, TaskTyped, ui,
     content, stopping, stopper, owned, TaskInv, StopInv, StartInv, SessionInv, RemoteInv,
     AllocationInv, ReleaseInv, Starting, Preparing, Loops, Idle, At, Canceled
<1>15. CASE Retired
  BY <1>15, CoroutineSet, GotoFacts DEF Retired, Fail, StopAsync, Continue, ui, content, run,
     stopping, stopper, owned, TaskInv, StopInv, StartInv, SessionInv, RemoteInv, AllocationInv,
     ReleaseInv, Starting, Preparing, Loops, Idle, At, Canceled
<1>16. CASE CandidatesSent
  BY <1>16, CoroutineSet, GotoFacts DEF CandidatesSent, Fail, StopAsync, Continue, ui, content, run,
     stopping, stopper, owned, camera, TaskInv, StopInv, StartInv, SessionInv, RemoteInv,
     AllocationInv, ReleaseInv, Starting, Preparing, Loops, Idle, At, Canceled
<1>17. CASE Authorized
  BY <1>17, CoroutineSet, GotoFacts DEF Authorized, Fail, StopAsync, Continue, ui, content, run,
     stopping, stopper, owned, camera, TaskInv, StopInv, StartInv, SessionInv, RemoteInv,
     AllocationInv, ReleaseInv, Starting, Preparing, Loops, Idle, At, Canceled
<1>18. CASE SignalsEnd
  BY <1>18, CoroutineSet, GotoFacts DEF SignalsEnd, LoopEnds, ui, content, run, stopping, owned,
     camera, TaskInv, StopInv, StartInv, SessionInv, RemoteInv, AllocationInv, ReleaseInv, Starting,
     Preparing, Loops, Idle, At, Canceled
<1>19. CASE PrivacyRead
  BY <1>19, CoroutineSet, GotoFacts DEF PrivacyRead, LoopEnds, ui, content, run, stopping, owned,
     camera, TaskInv, StopInv, StartInv, SessionInv, RemoteInv, AllocationInv, ReleaseInv, Starting,
     Preparing, Loops, Idle, At, Canceled
<1>20. CASE Subscribed
  BY <1>20, CoroutineSet, GotoFacts DEF Subscribed, LoopEnds, ui, content, run, stopping, owned,
     TaskInv, StopInv, StartInv, SessionInv, RemoteInv, AllocationInv, ReleaseInv, Starting,
     Preparing, Loops, Idle, At, Canceled
<1>21. CASE PollEnds
  BY <1>21, CoroutineSet, GotoFacts DEF PollEnds, LoopEnds, ui, content, run, stopping, owned,
     camera, TaskInv, StopInv, StartInv, SessionInv, RemoteInv, AllocationInv, ReleaseInv, Starting,
     Preparing, Loops, Idle, At, Canceled
<1>22. CASE Unsubscribed
  BY <1>22, CoroutineSet, GotoFacts DEF Unsubscribed, ui, content, run, stopping, stopper, owned,
     TaskInv, StopInv, StartInv, SessionInv, RemoteInv, AllocationInv, ReleaseInv, Starting,
     Preparing, Loops, Idle, At, Canceled
<1>23. CASE Take
  BY <1>23, CoroutineSet DEF Take, ui, owned, camera, TaskInv, StopInv, StartInv, SessionInv,
     RemoteInv, AllocationInv, ReleaseInv, Starting, Preparing, Loops, Idle, At, Canceled
<1>24. CASE TasksEnd
  BY <1>24, CoroutineSet DEF TasksEnd, ReleaseNext, Streams, ui, content, run, stopper, camera, TaskInv,
     StopInv, StartInv, SessionInv, RemoteInv, AllocationInv, ReleaseInv, Starting, Preparing,
     Loops, Idle, At, Canceled
<1>25. CASE Ended
  BY <1>25, CoroutineSet DEF Ended, ReleaseNext, Streams, ui, content, run, TaskInv, StopInv, StartInv,
     SessionInv, RemoteInv, AllocationInv, ReleaseInv, Starting, Preparing, Loops, Idle, At,
     Canceled
<1>26. CASE AudioReleased
  BY <1>26, CoroutineSet DEF AudioReleased, ReleaseNext, ui, content, run, stopper, TaskInv,
     StopInv, StartInv, SessionInv, RemoteInv, AllocationInv, ReleaseInv, Starting, Preparing,
     Loops, Idle, At, Canceled
<1>27. CASE VideoReleased
  BY <1>27, CoroutineSet DEF VideoReleased, ReleaseNext, ui, content, run, stopper, TaskInv,
     StopInv, StartInv, SessionInv, RemoteInv, AllocationInv, ReleaseInv, Starting, Preparing,
     Loops, Idle, At, Canceled
<1> QED BY <1>1, <1>2, <1>3, <1>4, <1>5, <1>6, <1>7, <1>8, <1>9, <1>10, <1>11, <1>12, <1>13, <1>14,
   <1>15, <1>16, <1>17, <1>18, <1>19, <1>20, <1>21, <1>22, <1>23, <1>24, <1>25, <1>26, <1>27 DEF
   Next, Application, Page, Allocation, Preparation, Drain, Privacy, Stop

\* Nothing is allocated once a stop has gone on to the end of the session and the releases.
LEMMA AllocationInvKept ==
    ASSUME TypeInv, TaskInv, StopInv, AllocationInv, ReleaseInv, [Next]_vars
    PROVE  AllocationInv'
<1>1. CASE OpenWindow \/ ReceiverClosed \/ CloseSession \/ CloseController \/ Receive \/ Skip \/
   UNCHANGED vars
  BY <1>1 DEF OpenWindow, ReceiverClosed, CloseSession, CloseController, Receive, Skip, Drained,
     vars, ui, content, run, stopping, stopper, owned, camera, StopInv, AllocationInv, ReleaseInv,
     Starting, Preparing, Idle, At, Canceled
<1>2. CASE Navigated
  BY <1>2, CoroutineSet DEF Navigated, ui, run, stopping, stopper, owned, camera, StopInv,
     AllocationInv, ReleaseInv, Starting, Preparing, Idle, At, Canceled
<1>3. CASE Activated
  BY <1>3, CoroutineSet DEF Activated, StopAsync, Continue, content, run, stopping, stopper, owned,
     camera, StopInv, AllocationInv, ReleaseInv, Starting, Preparing, Idle, At, Canceled
<1>4. CASE ClickStop
  BY <1>4, CoroutineSet DEF ClickStop, StopAsync, Continue, ui, content, run, stopping, stopper,
     owned, camera, StopInv, AllocationInv, ReleaseInv, Starting, Preparing, Idle, At, Canceled
<1>5. CASE ClickAllocate
  BY <1>5, CoroutineSet, BeginFacts DEF ClickAllocate, ui, content, run, stopping, stopper, owned,
     camera, StopInv, AllocationInv, ReleaseInv, Starting, Preparing, Idle, At, Canceled
<1>6. ASSUME NEW m \in Modes, OnStart(m) PROVE AllocationInv'
  <2>1. ready /\ stop = "Idle" /\ starts + 1 # 0 /\ Idle("allocation")
    BY <1>6, BoundAssumption DEF OnStart, TypeInv, NumbersTyped, TaskTyped, Sessions
  <2>2. Idle("allocation")'
    BY <1>6, <2>1, CoroutineSet, BeginFacts DEF OnStart, Idle, At
  <2>3. ready' /\ stop' = "Idle" /\ current' = starts + 1
    BY <1>6, <2>1 DEF OnStart, content
  <2> QED BY <2>1, <2>2, <2>3 DEF AllocationInv
<1>7. CASE CloseReceiver
  BY <1>7, CoroutineSet DEF CloseReceiver, StopAsync, Continue, content, run, stopping, stopper,
     owned, camera, StopInv, AllocationInv, ReleaseInv, Starting, Preparing, Idle, At, Canceled
<1>8. CASE OfferReceived
  BY <1>8, CoroutineSet, GotoFacts, BeginFacts DEF OfferReceived, Taken, Drained, Fail, StopAsync,
     Continue, ui, stopping, stopper, owned, camera, StopInv, AllocationInv, ReleaseInv, Starting,
     Preparing, Idle, At, Canceled
<1>9. CASE CandidateReceived
  BY <1>9, CoroutineSet, GotoFacts, BeginFacts DEF CandidateReceived, Taken, Drained, Fail,
     StopAsync, Continue, ui, run, stopping, stopper, owned, camera, StopInv, AllocationInv,
     ReleaseInv, Starting, Preparing, Idle, At, Canceled
<1>10. CASE CaptureRequested
  BY <1>10, CoroutineSet, GotoFacts, BeginFacts DEF CaptureRequested, Taken, Drained, Fail,
     StopAsync, Continue, ui, run, stopping, stopper, owned, camera, StopInv, AllocationInv,
     ReleaseInv, Starting, Preparing, Idle, At, Canceled
<1>11. CASE PageReported
  BY <1>11, CoroutineSet, GotoFacts DEF PageReported, Taken, Drained, Fail, StopAsync, Continue, ui,
     run, stopping, stopper, owned, camera, StopInv, AllocationInv, ReleaseInv, Starting, Preparing,
     Idle, At, Canceled
<1>12. CASE AllocationRead
  BY <1>12, CoroutineSet, GotoFacts DEF AllocationRead, ui, content, run, stopping, stopper, owned,
     camera, StopInv, AllocationInv, ReleaseInv, Starting, Preparing, Idle, At, Canceled
<1>13. CASE Allocated
  BY <1>13, CoroutineSet, GotoFacts DEF Allocated, ui, content, run, stopping, stopper, StopInv,
     AllocationInv, ReleaseInv, Starting, Preparing, Idle, At, Canceled
<1>14. CASE PreparationRead
  BY <1>14, CoroutineSet, GotoFacts DEF PreparationRead, PreparationEnds, StopAsync, Continue, ui,
     run, stopping, stopper, owned, camera, StopInv, AllocationInv, ReleaseInv, Starting, Preparing,
     Idle, At, Canceled
<1>15. CASE AudioAllocated
  BY <1>15, CoroutineSet, GotoFacts DEF AudioAllocated, PreparationEnds, StopAsync, Continue, ui,
     run, stopping, stopper, StopInv, AllocationInv, ReleaseInv, Starting, Preparing, Idle, At,
     Canceled
<1>16. ASSUME NEW c \in {"preparation", "drain"}, StopAwaited(c) PROVE AllocationInv'
  BY <1>16, CoroutineSet, GotoFacts DEF StopAwaited, ui, content, run, stopping, stopper, owned,
     camera, StopInv, AllocationInv, ReleaseInv, Starting, Preparing, Idle, At, Canceled
<1>17. CASE Started
  BY <1>17, CoroutineSet, GotoFacts DEF Started, Fail, StopAsync, Continue, TypeInv, TaskTyped, ui,
     content, stopping, stopper, owned, StopInv, AllocationInv, ReleaseInv, Starting, Preparing,
     Idle, At, Canceled
<1>18. CASE Retired
  BY <1>18, CoroutineSet, GotoFacts DEF Retired, Fail, StopAsync, Continue, ui, content, run,
     stopping, stopper, owned, StopInv, AllocationInv, ReleaseInv, Starting, Preparing, Idle, At,
     Canceled
<1>19. CASE CandidatesSent
  BY <1>19, CoroutineSet, GotoFacts DEF CandidatesSent, Fail, StopAsync, Continue, ui, content, run,
     stopping, stopper, owned, camera, StopInv, AllocationInv, ReleaseInv, Starting, Preparing,
     Idle, At, Canceled
<1>20. CASE Authorized
  BY <1>20, CoroutineSet, GotoFacts DEF Authorized, Fail, StopAsync, Continue, ui, content, run,
     stopping, stopper, owned, camera, StopInv, AllocationInv, ReleaseInv, Starting, Preparing,
     Idle, At, Canceled
<1>21. CASE SignalsEnd
  BY <1>21, CoroutineSet, GotoFacts DEF SignalsEnd, LoopEnds, ui, content, run, stopping, owned,
     camera, StopInv, AllocationInv, ReleaseInv, Starting, Preparing, Idle, At, Canceled
<1>22. CASE PrivacyRead
  BY <1>22, CoroutineSet, GotoFacts DEF PrivacyRead, LoopEnds, ui, content, run, stopping, owned,
     camera, StopInv, AllocationInv, ReleaseInv, Starting, Preparing, Idle, At, Canceled
<1>23. CASE Subscribed
  BY <1>23, CoroutineSet, GotoFacts DEF Subscribed, LoopEnds, ui, content, run, stopping, owned,
     StopInv, AllocationInv, ReleaseInv, Starting, Preparing, Idle, At, Canceled
<1>24. CASE PollEnds
  BY <1>24, CoroutineSet, GotoFacts DEF PollEnds, LoopEnds, ui, content, run, stopping, owned,
     camera, StopInv, AllocationInv, ReleaseInv, Starting, Preparing, Idle, At, Canceled
<1>25. CASE Unsubscribed
  BY <1>25, CoroutineSet, GotoFacts DEF Unsubscribed, ui, content, run, stopping, stopper, owned,
     StopInv, AllocationInv, ReleaseInv, Starting, Preparing, Idle, At, Canceled
<1>26. CASE PrivacyReport
  BY <1>26, CoroutineSet DEF PrivacyReport, StopAsync, Continue, ui, content, run, stopping,
     stopper, owned, camera, StopInv, AllocationInv, ReleaseInv, Starting, Preparing, Idle, At,
     Canceled
<1>27. CASE RunQueuedStop
  BY <1>27, CoroutineSet DEF RunQueuedStop, StopAsync, Continue, ui, content, run, stopping, owned,
     camera, StopInv, AllocationInv, ReleaseInv, Starting, Preparing, Idle, At, Canceled
<1>28. CASE Take
  BY <1>28, CoroutineSet DEF Take, ui, owned, camera, StopInv, AllocationInv, ReleaseInv, Starting,
     Preparing, Idle, At, Canceled
<1>29. CASE TasksEnd
  BY <1>29, CoroutineSet DEF TasksEnd, ReleaseNext, Streams, ui, content, run, stopper, camera, StopInv,
     AllocationInv, ReleaseInv, Starting, Preparing, Idle, At, Canceled
<1>30. CASE Ended
  BY <1>30, CoroutineSet DEF Ended, ReleaseNext, Streams, ui, content, run, StopInv, AllocationInv,
     ReleaseInv, Starting, Preparing, Idle, At, Canceled
<1>31. CASE AudioReleased
  BY <1>31, CoroutineSet DEF AudioReleased, ReleaseNext, ui, content, run, stopper, StopInv,
     AllocationInv, ReleaseInv, Starting, Preparing, Idle, At, Canceled
<1>32. CASE VideoReleased
  BY <1>32, CoroutineSet DEF VideoReleased, ReleaseNext, ui, content, run, stopper, StopInv,
     AllocationInv, ReleaseInv, Starting, Preparing, Idle, At, Canceled
<1> QED BY <1>1, <1>2, <1>3, <1>4, <1>5, <1>6, <1>7, <1>8, <1>9, <1>10, <1>11, <1>12, <1>13, <1>14,
   <1>15, <1>16, <1>17, <1>18, <1>19, <1>20, <1>21, <1>22, <1>23, <1>24, <1>25, <1>26, <1>27, <1>28,
   <1>29, <1>30, <1>31, <1>32 DEF Next, Application, Page, Allocation, Preparation, Drain, Privacy,
   Stop

\* A stream that is released is owned; its release is counted once.
LEMMA ReleaseInvKept ==
    ASSUME TypeInv, RemoteInv, AllocationInv, ReleaseInv, [Next]_vars
    PROVE  ReleaseInv'
<1>1. CASE OpenWindow \/ Navigated \/ ClickAllocate \/ (\E m \in Modes : OnStart(m)) \/
   ReceiverClosed \/ CloseSession \/ CloseController \/ Receive \/ Skip \/ AllocationRead \/ (\E c
   \in {"preparation", "drain"} : StopAwaited(c)) \/ SignalsEnd \/ PrivacyRead \/ Subscribed \/
   PollEnds \/ Unsubscribed \/ UNCHANGED vars
  BY <1>1 DEF OpenWindow, Navigated, ClickAllocate, OnStart, ReceiverClosed, CloseSession,
     CloseController, Receive, Skip, AllocationRead, StopAwaited, SignalsEnd, PrivacyRead,
     Subscribed, PollEnds, Unsubscribed, Drained, vars, ui, content, run, stopping, stopper, owned,
     camera, TypeInv, CountsTyped, Streams, RemoteInv, AllocationInv, ReleaseInv, Counted, Idle, At
<1>2. CASE Activated
  BY <1>2, CoroutineSet DEF Activated, StopAsync, Continue, content, run, stopping, stopper, owned,
     camera, TypeInv, CountsTyped, Streams, RemoteInv, AllocationInv, ReleaseInv, Counted, Idle, At
<1>3. CASE ClickStop
  BY <1>3, CoroutineSet DEF ClickStop, StopAsync, Continue, ui, content, run, stopping, stopper,
     owned, camera, TypeInv, CountsTyped, Streams, RemoteInv, AllocationInv, ReleaseInv, Counted,
     Idle, At
<1>4. CASE CloseReceiver
  BY <1>4, CoroutineSet DEF CloseReceiver, StopAsync, Continue, content, run, stopping, stopper,
     owned, camera, TypeInv, CountsTyped, Streams, RemoteInv, AllocationInv, ReleaseInv, Counted,
     Idle, At
<1>5. CASE OfferReceived
  BY <1>5, CoroutineSet, GotoFacts, BeginFacts DEF OfferReceived, Taken, Drained, Fail, StopAsync,
     Continue, ui, stopping, stopper, owned, camera, TypeInv, CountsTyped, Streams, RemoteInv,
     AllocationInv, ReleaseInv, Counted, Idle, At
<1>6. CASE CandidateReceived
  BY <1>6, CoroutineSet, GotoFacts, BeginFacts DEF CandidateReceived, Taken, Drained, Fail,
     StopAsync, Continue, ui, run, stopping, stopper, owned, camera, TypeInv, CountsTyped, Streams,
     RemoteInv, AllocationInv, ReleaseInv, Counted, Idle, At
<1>7. CASE CaptureRequested
  BY <1>7, CoroutineSet, GotoFacts, BeginFacts DEF CaptureRequested, Taken, Drained, Fail,
     StopAsync, Continue, ui, run, stopping, stopper, owned, camera, TypeInv, CountsTyped, Streams,
     RemoteInv, AllocationInv, ReleaseInv, Counted, Idle, At
<1>8. CASE PageReported
  <2>1. CASE UNCHANGED <<current, stop, task>>
    BY <1>8, <2>1, CoroutineSet DEF PageReported, Taken, Drained, ui, content, run, stopper,
       owned, camera, RemoteInv, AllocationInv, ReleaseInv, Counted, Idle, At
  <2>2. CASE Fail
    BY <1>8, <2>2, CoroutineSet, GotoFacts DEF PageReported, Taken, Drained, Fail, StopAsync,
       Continue, ui, content, run, stopping, stopper, owned, camera, RemoteInv, AllocationInv,
       ReleaseInv, Counted, Idle, At
  <2> QED BY <1>8, <2>1, <2>2 DEF PageReported
<1>9. CASE Allocated
  BY <1>9, CoroutineSet, GotoFacts DEF Allocated, ui, content, run, stopping, stopper, TypeInv,
     CountsTyped, Streams, RemoteInv, AllocationInv, ReleaseInv, Counted, Idle, At
<1>10. CASE PreparationRead
  BY <1>10, CoroutineSet, GotoFacts DEF PreparationRead, PreparationEnds, StopAsync, Continue, ui,
     run, stopping, stopper, owned, camera, TypeInv, CountsTyped, Streams, RemoteInv, AllocationInv,
     ReleaseInv, Counted, Idle, At
<1>11. CASE AudioAllocated
  BY <1>11, CoroutineSet, GotoFacts DEF AudioAllocated, PreparationEnds, StopAsync, Continue, ui,
     run, stopping, stopper, TypeInv, CountsTyped, Streams, RemoteInv, AllocationInv, ReleaseInv,
     Counted, Preparing, Idle, At
<1>12. CASE Started
  BY <1>12, CoroutineSet, GotoFacts DEF Started, Fail, StopAsync, Continue, ui, content, stopping,
     stopper, owned, TypeInv, CountsTyped, Streams, RemoteInv, AllocationInv, ReleaseInv, Counted,
     Idle, At
<1>13. CASE Retired
  BY <1>13, CoroutineSet, GotoFacts DEF Retired, Fail, StopAsync, Continue, ui, content, run,
     stopping, stopper, owned, TypeInv, CountsTyped, Streams, RemoteInv, AllocationInv, ReleaseInv,
     Counted, Idle, At
<1>14. CASE CandidatesSent
  BY <1>14, CoroutineSet, GotoFacts DEF CandidatesSent, Fail, StopAsync, Continue, ui, content, run,
     stopping, stopper, owned, camera, TypeInv, CountsTyped, Streams, RemoteInv, AllocationInv,
     ReleaseInv, Counted, Idle, At
<1>15. CASE Authorized
  BY <1>15, CoroutineSet, GotoFacts DEF Authorized, Fail, StopAsync, Continue, ui, content, run,
     stopping, stopper, owned, camera, TypeInv, CountsTyped, Streams, RemoteInv, AllocationInv,
     ReleaseInv, Counted, Idle, At
<1>16. CASE PrivacyReport
  BY <1>16, CoroutineSet DEF PrivacyReport, StopAsync, Continue, ui, content, run, stopping,
     stopper, owned, camera, TypeInv, CountsTyped, Streams, RemoteInv, AllocationInv, ReleaseInv,
     Counted, Idle, At
<1>17. CASE RunQueuedStop
  BY <1>17, CoroutineSet DEF RunQueuedStop, StopAsync, Continue, ui, content, run, stopping, owned,
     camera, TypeInv, CountsTyped, Streams, RemoteInv, AllocationInv, ReleaseInv, Counted, Idle, At
<1>18. CASE Take
  BY <1>18, CoroutineSet DEF Take, ui, owned, camera, TypeInv, CountsTyped, Streams, RemoteInv,
     AllocationInv, ReleaseInv, Counted, Idle, At
<1>19. CASE TasksEnd
  BY <1>19, CoroutineSet DEF TasksEnd, ReleaseNext, ui, content, run, stopper, camera, TypeInv,
     CountsTyped, Streams, RemoteInv, AllocationInv, ReleaseInv, Counted, Idle, At
<1>20. CASE Ended
  BY <1>20, CoroutineSet DEF Ended, ReleaseNext, ui, content, run, TypeInv, CountsTyped, Streams,
     RemoteInv, AllocationInv, ReleaseInv, Counted, Idle, At
<1>21. CASE AudioReleased
  BY <1>21, CoroutineSet DEF AudioReleased, ReleaseNext, ui, content, run, stopper, TypeInv,
     CountsTyped, Streams, RemoteInv, AllocationInv, ReleaseInv, Counted, Idle, At
<1>22. CASE VideoReleased
  BY <1>22, CoroutineSet DEF VideoReleased, ReleaseNext, ui, content, run, stopper, TypeInv,
     CountsTyped, Streams, RemoteInv, AllocationInv, ReleaseInv, Counted, Idle, At
<1> QED BY <1>1, <1>2, <1>3, <1>4, <1>5, <1>6, <1>7, <1>8, <1>9, <1>10, <1>11, <1>12, <1>13, <1>14,
   <1>15, <1>16, <1>17, <1>18, <1>19, <1>20, <1>21, <1>22 DEF Next, Application, Page, Allocation,
   Preparation, Drain, Privacy, Stop

\* What a stop leaves, and what a window that closes no longer begins.
LEMMA QuietInvKept ==
    ASSUME TypeInv, TaskInv, StopInv, StartInv, SessionInv, AllocationInv, ReleaseInv, QuietInv,
       [Next]_vars
    PROVE  QuietInv'
<1>1. CASE Receive \/ Skip \/ UNCHANGED vars
  BY <1>1 DEF Receive, Skip, Drained, vars, ui, content, run, stopping, stopper, owned, camera,
     TaskInv, StopInv, StartInv, SessionInv, AllocationInv, ReleaseInv, QuietInv, Starting,
     Preparing, Loops, Idle, At, Canceled
<1>2. CASE OpenWindow
  BY <1>2, CoroutineSet DEF OpenWindow, content, run, stopping, stopper, owned, camera, TaskInv,
     StopInv, StartInv, SessionInv, AllocationInv, ReleaseInv, QuietInv, Starting, Preparing, Loops,
     Idle, At, Canceled
<1>3. CASE Navigated
  BY <1>3, CoroutineSet DEF Navigated, ui, run, stopping, stopper, owned, camera, TaskInv, StopInv,
     StartInv, SessionInv, AllocationInv, ReleaseInv, QuietInv, Starting, Preparing, Loops, Idle,
     At, Canceled
<1>4. CASE Activated
  BY <1>4, CoroutineSet DEF Activated, StopAsync, Continue, content, run, stopping, stopper, owned,
     camera, TaskInv, StopInv, StartInv, SessionInv, AllocationInv, ReleaseInv, QuietInv, Starting,
     Preparing, Loops, Idle, At, Canceled
<1>5. CASE ClickStop
  BY <1>5, CoroutineSet DEF ClickStop, StopAsync, Continue, ui, content, run, stopping, stopper,
     owned, camera, TaskInv, StopInv, StartInv, SessionInv, AllocationInv, ReleaseInv, QuietInv,
     Starting, Preparing, Loops, Idle, At, Canceled
<1>6. CASE ClickAllocate
  BY <1>6, CoroutineSet, BeginFacts DEF ClickAllocate, ui, content, run, stopping, stopper, owned,
     camera, TaskInv, StopInv, StartInv, SessionInv, AllocationInv, ReleaseInv, QuietInv, Starting,
     Preparing, Loops, Idle, At, Canceled
<1>7. ASSUME NEW m \in Modes, OnStart(m) PROVE QuietInv'
  BY <1>7, CoroutineSet, BeginFacts DEF OnStart, ui, content, stopper, owned, camera, TaskInv,
     StopInv, StartInv, SessionInv, AllocationInv, ReleaseInv, QuietInv, Starting, Preparing, Loops,
     Idle, At, Canceled
<1>8. CASE CloseReceiver
  BY <1>8, CoroutineSet DEF CloseReceiver, StopAsync, Continue, content, run, stopping, stopper,
     owned, camera, TaskInv, StopInv, StartInv, SessionInv, AllocationInv, ReleaseInv, QuietInv,
     Starting, Preparing, Loops, Idle, At, Canceled
<1>9. CASE ReceiverClosed
  BY <1>9, CoroutineSet DEF ReceiverClosed, content, run, stopping, stopper, owned, camera, TaskInv,
     StopInv, StartInv, SessionInv, AllocationInv, ReleaseInv, QuietInv, Starting, Preparing, Loops,
     Idle, At, Canceled
<1>10. CASE CloseSession
  BY <1>10, CoroutineSet DEF CloseSession, content, run, stopping, stopper, owned, camera, TaskInv,
     StopInv, StartInv, SessionInv, AllocationInv, ReleaseInv, QuietInv, Starting, Preparing, Loops,
     Idle, At, Canceled
<1>11. CASE CloseController
  BY <1>11, CoroutineSet DEF CloseController, content, run, stopping, stopper, owned, TaskInv,
     StopInv, StartInv, SessionInv, AllocationInv, ReleaseInv, QuietInv, Starting, Preparing, Loops,
     Idle, At, Canceled
<1>12. CASE OfferReceived
  BY <1>12, CoroutineSet, GotoFacts, BeginFacts DEF OfferReceived, Taken, Drained, Fail, StopAsync,
     Continue, ui, stopping, stopper, owned, camera, TaskInv, StopInv, StartInv, SessionInv,
     AllocationInv, ReleaseInv, QuietInv, Starting, Preparing, Loops, Idle, At, Canceled
<1>13. CASE CandidateReceived
  BY <1>13, CoroutineSet, GotoFacts, BeginFacts DEF CandidateReceived, Taken, Drained, Fail,
     StopAsync, Continue, ui, run, stopping, stopper, owned, camera, TaskInv, StopInv, StartInv,
     SessionInv, AllocationInv, ReleaseInv, QuietInv, Starting, Preparing, Loops, Idle, At, Canceled
<1>14. CASE CaptureRequested
  BY <1>14, CoroutineSet, GotoFacts, BeginFacts DEF CaptureRequested, Taken, Drained, Fail,
     StopAsync, Continue, ui, run, stopping, stopper, owned, camera, TaskInv, StopInv, StartInv,
     SessionInv, AllocationInv, ReleaseInv, QuietInv, Starting, Preparing, Loops, Idle, At, Canceled
<1>15. CASE PageReported
  BY <1>15, CoroutineSet, GotoFacts DEF PageReported, Taken, Drained, Fail, StopAsync, Continue, ui,
     run, stopping, stopper, owned, camera, TaskInv, StopInv, StartInv, SessionInv, AllocationInv,
     ReleaseInv, QuietInv, Starting, Preparing, Loops, Idle, At, Canceled
<1>16. CASE AllocationRead
  BY <1>16, CoroutineSet, GotoFacts DEF AllocationRead, ui, content, run, stopping, stopper, owned,
     camera, TaskInv, StopInv, StartInv, SessionInv, AllocationInv, ReleaseInv, QuietInv, Starting,
     Preparing, Loops, Idle, At, Canceled
<1>17. CASE Allocated
  BY <1>17, CoroutineSet, GotoFacts DEF Allocated, ui, content, run, stopping, stopper, TaskInv,
     StopInv, StartInv, SessionInv, AllocationInv, ReleaseInv, QuietInv, Starting, Preparing, Loops,
     Idle, At, Canceled
<1>18. CASE PreparationRead
  BY <1>18, CoroutineSet, GotoFacts DEF PreparationRead, PreparationEnds, StopAsync, Continue, ui,
     run, stopping, stopper, owned, camera, TaskInv, StopInv, StartInv, SessionInv, AllocationInv,
     ReleaseInv, QuietInv, Starting, Preparing, Loops, Idle, At, Canceled
<1>19. CASE AudioAllocated
  BY <1>19, CoroutineSet, GotoFacts DEF AudioAllocated, PreparationEnds, StopAsync, Continue, ui,
     run, stopping, stopper, TaskInv, StopInv, StartInv, SessionInv, AllocationInv, ReleaseInv,
     QuietInv, Starting, Preparing, Loops, Idle, At, Canceled
<1>20. ASSUME NEW c \in {"preparation", "drain"}, StopAwaited(c) PROVE QuietInv'
  BY <1>20, CoroutineSet, GotoFacts DEF StopAwaited, ui, content, run, stopping, stopper, owned,
     camera, TaskInv, StopInv, StartInv, SessionInv, AllocationInv, ReleaseInv, QuietInv, Starting,
     Preparing, Loops, Idle, At, Canceled
<1>21. CASE Started
  BY <1>21, CoroutineSet, GotoFacts DEF Started, Fail, StopAsync, Continue, TypeInv, TaskTyped, ui,
     content, stopping, stopper, owned, TaskInv, StopInv, StartInv, SessionInv, AllocationInv,
     ReleaseInv, QuietInv, Starting, Preparing, Loops, Idle, At, Canceled
<1>22. CASE Retired
  BY <1>22, CoroutineSet, GotoFacts DEF Retired, Fail, StopAsync, Continue, ui, content, run,
     stopping, stopper, owned, TaskInv, StopInv, StartInv, SessionInv, AllocationInv, ReleaseInv,
     QuietInv, Starting, Preparing, Loops, Idle, At, Canceled
<1>23. CASE CandidatesSent
  BY <1>23, CoroutineSet, GotoFacts DEF CandidatesSent, Fail, StopAsync, Continue, ui, content, run,
     stopping, stopper, owned, camera, TaskInv, StopInv, StartInv, SessionInv, AllocationInv,
     ReleaseInv, QuietInv, Starting, Preparing, Loops, Idle, At, Canceled
<1>24. CASE Authorized
  BY <1>24, CoroutineSet, GotoFacts DEF Authorized, Fail, StopAsync, Continue, ui, content, run,
     stopping, stopper, owned, camera, TaskInv, StopInv, StartInv, SessionInv, AllocationInv,
     ReleaseInv, QuietInv, Starting, Preparing, Loops, Idle, At, Canceled
<1>25. CASE SignalsEnd
  BY <1>25, CoroutineSet, GotoFacts DEF SignalsEnd, LoopEnds, ui, content, run, stopping, owned,
     camera, TaskInv, StopInv, StartInv, SessionInv, AllocationInv, ReleaseInv, QuietInv, Starting,
     Preparing, Loops, Idle, At, Canceled
<1>26. CASE PrivacyRead
  BY <1>26, CoroutineSet, GotoFacts DEF PrivacyRead, LoopEnds, ui, content, run, stopping, owned,
     camera, TaskInv, StopInv, StartInv, SessionInv, AllocationInv, ReleaseInv, QuietInv, Starting,
     Preparing, Loops, Idle, At, Canceled
<1>27. CASE Subscribed
  BY <1>27, CoroutineSet, GotoFacts DEF Subscribed, LoopEnds, ui, content, run, stopping, owned,
     TaskInv, StopInv, StartInv, SessionInv, AllocationInv, ReleaseInv, QuietInv, Starting,
     Preparing, Loops, Idle, At, Canceled
<1>28. CASE PollEnds
  BY <1>28, CoroutineSet, GotoFacts DEF PollEnds, LoopEnds, ui, content, run, stopping, owned,
     camera, TaskInv, StopInv, StartInv, SessionInv, AllocationInv, ReleaseInv, QuietInv, Starting,
     Preparing, Loops, Idle, At, Canceled
<1>29. CASE Unsubscribed
  BY <1>29, CoroutineSet, GotoFacts DEF Unsubscribed, ui, content, run, stopping, stopper, owned,
     TaskInv, StopInv, StartInv, SessionInv, AllocationInv, ReleaseInv, QuietInv, Starting,
     Preparing, Loops, Idle, At, Canceled
<1>30. CASE PrivacyReport
  BY <1>30, CoroutineSet DEF PrivacyReport, StopAsync, Continue, ui, content, run, stopping,
     stopper, owned, camera, TaskInv, StopInv, StartInv, SessionInv, AllocationInv, ReleaseInv,
     QuietInv, Starting, Preparing, Loops, Idle, At, Canceled
<1>31. CASE RunQueuedStop
  BY <1>31, CoroutineSet DEF RunQueuedStop, StopAsync, Continue, ui, content, run, stopping, owned,
     camera, TaskInv, StopInv, StartInv, SessionInv, AllocationInv, ReleaseInv, QuietInv, Starting,
     Preparing, Loops, Idle, At, Canceled
<1>32. CASE Take
  BY <1>32, CoroutineSet DEF Take, ui, owned, camera, TaskInv, StopInv, StartInv, SessionInv,
     AllocationInv, ReleaseInv, QuietInv, Starting, Preparing, Loops, Idle, At, Canceled
<1>33. CASE TasksEnd
  BY <1>33, CoroutineSet DEF TasksEnd, ReleaseNext, Streams, ui, content, run, stopper, camera, TaskInv,
     StopInv, StartInv, SessionInv, AllocationInv, ReleaseInv, QuietInv, Starting, Preparing, Loops,
     Idle, At, Canceled
<1>34. CASE Ended
  BY <1>34, CoroutineSet DEF Ended, ReleaseNext, Streams, ui, content, run, TaskInv, StopInv, StartInv,
     SessionInv, AllocationInv, ReleaseInv, QuietInv, Starting, Preparing, Loops, Idle, At, Canceled
<1>35. CASE AudioReleased
  BY <1>35, CoroutineSet DEF AudioReleased, ReleaseNext, ui, content, run, stopper, TaskInv,
     StopInv, StartInv, SessionInv, AllocationInv, ReleaseInv, QuietInv, Starting, Preparing, Loops,
     Idle, At, Canceled
<1>36. CASE VideoReleased
  BY <1>36, CoroutineSet DEF VideoReleased, ReleaseNext, ui, content, run, stopper, TaskInv,
     StopInv, StartInv, SessionInv, AllocationInv, ReleaseInv, QuietInv, Starting, Preparing, Loops,
     Idle, At, Canceled
<1> QED BY <1>1, <1>2, <1>3, <1>4, <1>5, <1>6, <1>7, <1>8, <1>9, <1>10, <1>11, <1>12, <1>13, <1>14,
   <1>15, <1>16, <1>17, <1>18, <1>19, <1>20, <1>21, <1>22, <1>23, <1>24, <1>25, <1>26, <1>27, <1>28,
   <1>29, <1>30, <1>31, <1>32, <1>33, <1>34, <1>35, <1>36 DEF Next, Application, Page, Allocation,
   Preparation, Drain, Privacy, Stop

\* The conjuncts hold initially.
LEMMA InitHolds == Init => IInv
<1> SUFFICES ASSUME Init PROVE IInv
  OBVIOUS
<1>1. TypeInv
  <2>1. StatesTyped /\ FlagsTyped /\ NumbersTyped
    BY ZeroTyped, ModeAssumption DEF Init, StatesTyped, FlagsTyped, NumbersTyped, Ownership
  <2>2. ChannelTyped
    BY BoundAssumption, EmptySeq DEF Init, ChannelTyped
  <2>3. CountsTyped
    BY DEF Init, CountsTyped, Streams
  <2>4. TaskTyped
    <3>1. "Idle" \in Places /\ \A c \in Coroutines : "Idle" \in Steps[c]
      BY CoroutineSet DEF Places
    <3> QED BY <3>1, ZeroTyped DEF Init, TaskTyped
  <2> QED BY <2>1, <2>2, <2>3, <2>4 DEF TypeInv
<1>2. TaskInv /\ StopInv /\ StartInv /\ SessionInv
  BY CoroutineSet DEF Init, TaskInv, StopInv, StartInv, SessionInv, MicrophoneGated, Starting, Loops,
     Idle, At, Canceled
<1>3. RemoteInv /\ AllocationInv
  BY CoroutineSet DEF Init, RemoteInv, AllocationInv, Preparing, Idle, At
<1>4. ReleaseInv
  BY DEF Init, ReleaseInv, Counted, Streams
<1>5. QuietInv
  BY CoroutineSet DEF Init, QuietInv, Starting, Preparing, Idle, At
<1> QED BY <1>1, <1>2, <1>3, <1>4, <1>5 DEF IInv

\* Every step keeps the invariant.
LEMMA NextHolds == IInv /\ [Next]_vars => IInv'
<1> SUFFICES ASSUME IInv, [Next]_vars PROVE IInv'
  OBVIOUS
<1>1. TypeInv'
  BY StatesTypedKept, FlagsTypedKept, NumbersTypedKept, ChannelTypedKept, CountsTypedKept, TaskTypedKept
     DEF IInv, TypeInv
<1>2. TaskInv' /\ StopInv' /\ StartInv' /\ SessionInv'
  BY TaskInvKept, StopInvKept, StartInvKept, SessionInvKept DEF IInv
<1>3. RemoteInv' /\ AllocationInv' /\ ReleaseInv' /\ QuietInv'
  BY RemoteInvKept, AllocationInvKept, ReleaseInvKept, QuietInvKept DEF IInv
<1> QED BY <1>1, <1>2, <1>3 DEF IInv

\* IInv is an inductive invariant of the window, for every number of sessions, capacity of
\* the channel and choice of modes.
THEOREM Inductive == Spec => []IInv
BY InitHolds, NextHolds, PTL DEF Spec

\* The window's state has its types; in particular the channel holds MaxMessages at most.
THEOREM TypeCorrect == Spec => []TypeOK
<1>1. IInv => TypeOK
  BY TypeParts DEF IInv
<1> QED BY <1>1, Inductive, PTL

\* Whatever the user, the page, the camera and the loops do: a session is started with the
\* offer its own page made, and a stop that a loop has queued stops no later session
\* (SessionsKeepApart; OnStart, DrainMessagesAsync, StopCoreAsync).
THEOREM SessionsAreApart == Spec => []SessionsKeepApart
<1>1. IInv => SessionsKeepApart
  BY DEF IInv, SessionInv, StopInv, SessionsKeepApart
<1> QED BY <1>1, Inductive, PTL

\* The microphone is never left armed without a running session of the talk mode in the
\* active window (MicrophoneGated; AuthorizeCaptureAsync, OnActivated, StopAsync).
THEOREM MicrophoneIsGated == Spec => []MicrophoneGated
<1>1. IInv => MicrophoneGated
  BY DEF IInv, StopInv
<1> QED BY <1>1, Inductive, PTL

\* However often the receiver is stopped, an allocated stream is deallocated once at most
\* (ReleasedOnce; ReleaseOwnedAudioAsync, ReleaseOwnedStreamAsync).
THEOREM ReleasesAreSingle == Spec => []ReleasedOnce
<1>1. IInv => ReleasedOnce
  BY DEF IInv, ReleaseInv, Counted, ReleasedOnce, Streams
<1> QED BY <1>1, Inductive, PTL

\* A stop that has ended leaves no session, subscription or audio stream with the camera,
\* and a closed window nothing, unless the node is marked or a page was lost
\* (StoppedHoldsNothing; StopCoreAsync, CloseReceiverCoreAsync, ControllerSession.CloseAsync).
THEOREM StopsHoldNothing == Spec => []StoppedHoldsNothing
<1>1. ASSUME IInv, stop = "Idle", current = 0, ~uncertain
      PROVE  /\ "session" \notin remote /\ ~subscribed
             /\ "Audio" \in remote => lost
  BY <1>1 DEF IInv, SessionInv, StartInv, RemoteInv, QuietInv, Starting, Loops, Idle, At
<1>2. ASSUME IInv, window = "Closed", ~uncertain, ~lost
      PROVE  remote = {}
  BY <1>2 DEF IInv, TypeInv, StatesTyped, RemoteInv, QuietInv, Starting, Streams
<1>3. IInv => StoppedHoldsNothing
  BY <1>1, <1>2 DEF StoppedHoldsNothing, IInv, QuietInv
<1> QED BY <1>3, Inductive, PTL
=============================================================================
