---------------------------- MODULE CameraReceiver ----------------------------
(***************************************************************************)
(* A receiver window of the ControllerApp sample, CameraReceiverWindow.cs,  *)
(* and the part of ControllerSession.CloseAsync that closes such windows    *)
(* before the controller.                                                   *)
(*                                                                          *)
(* Everything runs on the UI thread: an action is what happens between two  *)
(* awaits.  The asynchronous methods are the coroutines of the window, each *)
(* with the session it was started for; a session is the number of its      *)
(* token.  The page in the WebView2 and the operations of the controller    *)
(* are external: the page may send anything with the token it was given     *)
(* last, an operation ends in any of the ways its result has.               *)
(***************************************************************************)
EXTENDS Integers, Sequences

CONSTANTS
    MaxStarts,      \* bound: receiver sessions of the window
    MaxMessages,    \* capacity of the message channel (32)
    Modes           \* the modes that are offered, of "Video", "Listen" and "Talk"

ASSUME BoundAssumption == MaxStarts \in Nat \ {0} /\ MaxMessages \in Nat \ {0}
ASSUME ModeAssumption == "Video" \in Modes /\ Modes \subseteq {"Video", "Listen", "Talk"}

VARIABLES
    app,        \* ControllerSession.CloseAsync: closing the windows, then the controller
    listed,     \* CloseAllAsync has this window in its copy of openWindows
    window,     \* closing and closed
    active,     \* activeWindow
    ready,      \* the trusted page is loaded
    lost,       \* history: a page was lost
    page,       \* the token the page was given last
    messages,   \* the channel of messages from the page: the token of each
    starts,     \* token
    current,    \* the session sessionCancellation belongs to, 0 when null
    mode,       \* selectedListening and selectedTalk
    armed,      \* microphoneArmed
    session,    \* the session `session` belongs to, 0 when null
    offer,      \* history: the session whose offer it was started with
    task,       \* the coroutines
    stop,       \* where StopCoreAsync stands; Idle when stopTask is null
    ending,     \* its ownedSession
    queued,     \* the session whose loop has queued a StopAsync on the dispatcher, 0 for none
    video,      \* ownedStream and deallocationAttempted
    audio,      \* ownedAudio and audioReleaseAttempted
    uncertain,  \* ownershipUncertain, of the node
    remote,     \* what the camera holds for this window
    subscribed, \* MonitorPrivacyAsync has a subscription
    releases    \* history: deallocations sent of the stream that is held, of each kind

ui == <<app, listed, window, active>>
content == <<ready, lost, page, messages>>
run == <<starts, mode, session, offer>>
stopping == <<current, armed, stop>>
stopper == <<ending, queued>>
owned == <<video, audio, releases>>
camera == <<uncertain, remote, subscribed>>
vars == <<ui, content, run, stopping, task, stopper, owned, camera>>

Sessions == 0 .. MaxStarts
Streams == {"Video", "Audio"}
Steps ==
    [allocation  |-> {"Idle", "Read", "Allocate"},
     preparation |-> {"Idle", "Read", "Allocate", "AwaitStop"},
     drain       |-> {"Idle", "Start", "Retire", "Send", "Authorize", "AwaitStop"},
     signals     |-> {"Idle", "Wait"},
     privacy     |-> {"Idle", "Read", "Subscribe", "Poll", "Unsubscribe"}]
Coroutines == DOMAIN Steps
Ownership == {"None", "Owned", "Attempted"}

TypeOK ==
    /\ app \in {"Open", "Windows", "Closed"}
    /\ window \in {"Absent", "Open", "Closing", "Closed"}
    /\ {listed, active, ready, lost, armed, uncertain, subscribed} \subseteq BOOLEAN
    /\ {page, starts, current, session, offer, ending, queued} \subseteq Sessions
    /\ messages \in Seq(Sessions) /\ Len(messages) <= MaxMessages
    /\ mode \in Modes
    /\ \A c \in Coroutines : task[c] \in Steps[c] \X Sessions
    /\ stop \in {"Idle", "Preparation", "Take", "Tasks", "End", "Audio", "Video"}
    /\ video \in Ownership /\ audio \in Ownership
    /\ remote \subseteq Streams \cup {"session"}
    /\ releases \in [Streams -> Nat]

Init ==
    /\ app = "Open" /\ listed = FALSE /\ window = "Absent" /\ active = TRUE
    /\ ready = FALSE /\ lost = FALSE /\ page = 0 /\ messages = <<>>
    /\ starts = 0 /\ current = 0 /\ mode = "Video" /\ armed = FALSE
    /\ session = 0 /\ offer = 0
    /\ task = [c \in Coroutines |-> <<"Idle", 0>>]
    /\ stop = "Idle" /\ ending = 0 /\ queued = 0
    /\ video = "None" /\ audio = "None"
    /\ uncertain = FALSE /\ remote = {} /\ subscribed = FALSE
    /\ releases = [s \in Streams |-> 0]

-----------------------------------------------------------------------------
(* Coroutines and stopping.                                                 *)

At(c, step) == task[c][1] = step
Idle(c) == At(c, "Idle")

Begin(c, step, s) == task' = [task EXCEPT ![c] = <<step, s>>]
Goto(c, step) == task' = [task EXCEPT ![c] = <<step, IF step = "Idle" THEN 0 ELSE @[2]>>]

\* owner.IsCancellationRequested, and sessionCancellation != owner: the source is canceled
\* when it is taken out of the field.
Canceled(c) == current # task[c][2]

Admitted == app # "Closed"

\* preparationTask and startTask are set and not complete.
Preparing == At("preparation", "Read") \/ At("preparation", "Allocate")
Starting == At("drain", "Start") \/ At("drain", "Retire")

Continue == UNCHANGED stopping

\* A stop in progress is shared; a new one cancels the session at once and waits for the
\* preparation, if the page is there.
StopAsync ==
    \/ /\ stop = "Idle"
       /\ stop' = IF ready /\ Preparing THEN "Preparation" ELSE "Take"
       /\ current' = 0 /\ armed' = FALSE
    \/ stop # "Idle" /\ Continue

-----------------------------------------------------------------------------
(* The application and the window.                                          *)

\* DeviceDetailsPage makes a window for the controller it has.
OpenWindow ==
    /\ window = "Absent" /\ Admitted
    /\ window' = "Open"
    /\ UNCHANGED <<app, listed, active, content, run, stopping, task, stopper, owned, camera>>

\* NavigationCompleted, of the page or of another one that was not let through; a page is
\* lost once at most.
Navigated ==
    /\ window = "Open"
    /\ \/ ready' = TRUE /\ UNCHANGED lost
       \/ ~lost /\ ready' = FALSE /\ lost' = TRUE
    /\ UNCHANGED <<ui, page, messages, run, stopping, task, stopper, owned, camera>>

\* Activated: a window that is left disarms the microphone and tells the page, or stops
\* when it cannot.
Activated ==
    /\ window = "Open"
    /\ active' = ~active
    /\ \/ active /\ armed' = FALSE /\ UNCHANGED <<current, stop>>
       \/ active /\ ready /\ current # 0 /\ StopAsync
       \/ ~active /\ Continue
    /\ UNCHANGED <<app, listed, window, content, run, task, stopper, owned, camera>>

\* The Stop button, a channel that overflows, and a message from another origin.
ClickStop ==
    /\ window = "Open" /\ StopAsync
    /\ UNCHANGED <<ui, content, run, task, stopper, owned, camera>>

\* CloseReceiverCoreAsync, for AppWindow.Closing or CloseAllAsync,
CloseReceiver ==
    /\ window = "Open"
    /\ window' = "Closing"
    /\ StopAsync
    /\ UNCHANGED <<app, listed, active, content, run, task, stopper, owned, camera>>

\* and what follows its await.
ReceiverClosed ==
    /\ window = "Closing" /\ stop = "Idle"
    /\ window' = "Closed"
    /\ UNCHANGED <<app, listed, active, content, run, stopping, task, stopper, owned, camera>>

\* ControllerSession.CloseAsync: CloseAllAsync copies openWindows,
CloseSession ==
    /\ app = "Open"
    /\ app' = "Windows"
    /\ listed' = (window \in {"Open", "Closing"})
    /\ UNCHANGED <<window, active, content, run, stopping, task, stopper, owned, camera>>

\* waits until each of them has closed, and closes the controller, which ends its session
\* if it can.  The other windows may take as long as they like.
CloseController ==
    /\ app = "Windows" /\ (listed => window = "Closed")
    /\ app' = "Closed"
    /\ remote' \in {remote, remote \ {"session"}}
    /\ UNCHANGED <<listed, window, active, content, run, stopping, task, stopper, owned, uncertain, subscribed>>

-----------------------------------------------------------------------------
(* Video allocation.                                                        *)

ClickAllocate ==
    /\ window = "Open" /\ current = 0 /\ Idle("allocation") /\ stop = "Idle"
    /\ video = "None" /\ ~uncertain
    /\ Begin("allocation", "Read", 0)
    /\ UNCHANGED <<ui, content, run, stopping, stopper, owned, camera>>

\* The capabilities are read; a stop or a closing that came meanwhile ends it here.
AllocationRead ==
    /\ At("allocation", "Read")
    /\ \/ Admitted /\ window = "Open" /\ stop = "Idle" /\ Goto("allocation", "Allocate")
       \/ Goto("allocation", "Idle")
    /\ UNCHANGED <<ui, content, run, stopping, stopper, owned, camera>>

\* TryAllocateVideoStreamAsync: an owned stream, a refusal, or an uncertain outcome.
Allocated ==
    /\ At("allocation", "Allocate")
    /\ \/ Admitted /\ video' = "Owned" /\ remote' = remote \cup {"Video"} /\ UNCHANGED uncertain
       \/ UNCHANGED <<video, uncertain, remote>>
       \/ uncertain' = TRUE /\ remote' \in {remote, remote \cup {"Video"}} /\ UNCHANGED video
    /\ Goto("allocation", "Idle")
    /\ UNCHANGED <<ui, content, run, stopping, stopper, audio, releases, subscribed>>

-----------------------------------------------------------------------------
(* OnStart and PrepareReceiverAsync.                                        *)

\* The selected stream is the owned one or, without one, an external one.
OnStart(m) ==
    /\ window = "Open" /\ ready /\ stop = "Idle"
    /\ Idle("allocation") /\ Idle("preparation") /\ ~uncertain /\ current = 0
    /\ starts < MaxStarts
    /\ starts' = starts + 1 /\ current' = starts + 1
    /\ mode' = m /\ armed' = FALSE
    /\ Begin("preparation", "Read", starts + 1)
    /\ UNCHANGED <<ui, content, session, offer, stop, stopper, owned, camera>>

\* The preparation ends: canceled, silently; with the start message sent to the page; or
\* by any other failure, and OnStart stops the receiver.
PreparationEnds ==
    \/ Canceled("preparation") /\ Goto("preparation", "Idle") /\ UNCHANGED <<page, stopping>>
    \/ ~Canceled("preparation") /\ Goto("preparation", "Idle") /\ page' = starts /\ Continue
    \/ Goto("preparation", "AwaitStop") /\ StopAsync /\ UNCHANGED page

\* Capabilities, firmware and the browser's formats are read.
PreparationRead ==
    /\ At("preparation", "Read")
    /\ \/ mode = "Video" /\ PreparationEnds
       \/ Canceled("preparation") /\ Goto("preparation", "Idle") /\ UNCHANGED <<page, stopping>>
       \/ Goto("preparation", "AwaitStop") /\ StopAsync /\ UNCHANGED page
       \/ /\ mode # "Video" /\ Admitted /\ ~Canceled("preparation")
          /\ Goto("preparation", "Allocate") /\ UNCHANGED <<page, stopping>>
    /\ UNCHANGED <<ui, ready, lost, messages, run, stopper, owned, camera>>

\* TryAllocateAudioStreamAsync has the same outcomes; after a refusal of its parameters
\* the next candidate is tried, unless the receiver was stopped.
AudioAllocated ==
    /\ At("preparation", "Allocate")
    /\ \/ /\ Admitted /\ "Audio" \notin remote
          /\ audio' = "Owned" /\ remote' = remote \cup {"Audio"}
          /\ PreparationEnds
          /\ UNCHANGED uncertain
       \/ /\ Canceled("preparation") /\ Goto("preparation", "Idle")
          /\ UNCHANGED <<page, stopping, audio, uncertain, remote>>
       \/ /\ Goto("preparation", "AwaitStop") /\ StopAsync
          /\ \/ UNCHANGED <<uncertain, remote>>
             \/ uncertain' = TRUE /\ remote' \in {remote, remote \cup {"Audio"}}
          /\ UNCHANGED <<page, audio>>
    /\ UNCHANGED <<ui, ready, lost, messages, run, stopper, video, releases, subscribed>>

\* The StopAsync of OnStart, and of the drain below, has ended.
StopAwaited(c) ==
    /\ At(c, "AwaitStop") /\ stop = "Idle"
    /\ Goto(c, "Idle")
    /\ UNCHANGED <<ui, content, run, stopping, stopper, owned, camera>>

-----------------------------------------------------------------------------
(* Messages from the page.                                                  *)

\* OnMessage.  The page may stop late, and send what it has after it was stopped; what a
\* message says matters when it is taken.
Receive ==
    /\ window = "Open" /\ page # 0
    /\ Len(messages) < MaxMessages
    /\ messages' = Append(messages, page)
    /\ UNCHANGED <<ui, ready, lost, page, run, stopping, task, stopper, owned, camera>>

\* An exception: the drain stops the receiver and waits.
Fail == Goto("drain", "AwaitStop") /\ StopAsync

\* DrainMessagesAsync takes its next message.
Drained == Idle("drain") /\ messages # <<>> /\ window # "Closed" /\ messages' = Tail(messages)

\* Mutant: a message is taken whatever its token.
Taken_AnyToken == Drained /\ current # 0

\* One of the session in progress is acted upon,
Taken == Drained /\ current # 0 /\ Head(messages) = starts

\* one that has another token or comes after the stop is passed over.
Skip ==
    /\ Drained
    /\ current = 0 \/ Head(messages) # starts
    /\ UNCHANGED <<ui, ready, lost, page, run, stopping, task, stopper, owned, camera>>

OfferReceived ==
    /\ Taken
    /\ \/ session = 0 /\ Begin("drain", "Start", current) /\ offer' = Head(messages) /\ Continue
       \/ session # 0 /\ Fail /\ UNCHANGED offer
    /\ UNCHANGED <<ui, ready, lost, page, starts, mode, session, stopper, owned, camera>>

CandidateReceived ==
    /\ Taken
    /\ \/ session # 0 /\ Begin("drain", "Send", current) /\ Continue
       \/ session = 0 /\ Fail
    /\ UNCHANGED <<ui, ready, lost, page, run, stopper, owned, camera>>

\* AuthorizeCaptureAsync up to its read of the camera's privacy.
CaptureRequested ==
    /\ Taken
    /\ LET expected == mode = "Talk" /\ active /\ session # 0
       IN  \/ expected /\ Begin("drain", "Authorize", current) /\ Continue
           \/ ~expected /\ Fail
    /\ UNCHANGED <<ui, ready, lost, page, run, stopper, owned, camera>>

\* Media and audio states, diagnostics, the release of the button, an error of the page:
\* the microphone may be disarmed, or the message is not expected or reports a failure.
PageReported ==
    /\ Taken
    /\ \/ armed' \in {armed, FALSE} /\ UNCHANGED <<current, stop, task>>
       \/ Fail
    /\ UNCHANGED <<ui, ready, lost, page, run, stopper, owned, camera>>

\* StartSessionAsync: a session whose owner was stopped is closed again, any other becomes
\* the window's.  A start that fails, or is canceled, may leave one with the camera and
\* then marks the node.
Started ==
    /\ At("drain", "Start")
    /\ \/ /\ Admitted /\ remote' = remote \cup {"session"}
          /\ \/ Canceled("drain") /\ Goto("drain", "Retire") /\ UNCHANGED session
             \/ /\ ~Canceled("drain")
                /\ session' = task["drain"][2]
                /\ task' = [task EXCEPT !["drain"] = <<"Idle", 0>>, !["signals"] = <<"Wait", session'>>,
                                        !["privacy"] = <<"Read", session'>>]
          /\ UNCHANGED <<stopping, uncertain>>
       \/ /\ \/ UNCHANGED <<uncertain, remote>>
             \/ uncertain' = TRUE /\ remote' \in {remote, remote \cup {"session"}}
          /\ UNCHANGED session
          /\ \/ Canceled("drain") /\ stop # "Idle" /\ Goto("drain", "Idle") /\ Continue
             \/ Fail
    /\ UNCHANGED <<ui, content, starts, mode, offer, stopper, owned, subscribed>>

\* TryCloseAsync of the late session.
Retired ==
    /\ At("drain", "Retire")
    /\ \/ /\ Admitted /\ remote' = remote \ {"session"}
          /\ Goto("drain", "Idle") /\ UNCHANGED <<stopping, uncertain>>
       \/ uncertain' = TRUE /\ Fail /\ UNCHANGED remote
    /\ UNCHANGED <<ui, content, run, stopper, owned, subscribed>>

\* TrySendCandidatesAsync: done, canceled, or failed.
CandidatesSent ==
    /\ At("drain", "Send")
    /\ \/ Goto("drain", "Idle") /\ Continue
       \/ Fail
    /\ UNCHANGED <<ui, content, run, stopper, owned, camera>>

\* Mutant: only the cancellation of its own session is looked at.
Authorized_AnyWindow ==
    /\ At("drain", "Authorize")
    /\ \/ /\ ~Canceled("drain") /\ armed' = TRUE
          /\ Goto("drain", "Idle") /\ UNCHANGED <<current, stop>>
       \/ Canceled("drain") /\ Goto("drain", "Idle") /\ Continue
       \/ Fail
    /\ UNCHANGED <<ui, content, run, stopper, owned, camera>>

\* AuthorizeCaptureAsync after the privacy of the camera was read: the microphone is armed
\* if session, token and activation are still those of the request; privacy, a failure, or
\* a bridge that does not take the authorization stops the receiver.
Authorized ==
    /\ At("drain", "Authorize")
    /\ \/ /\ ~Canceled("drain") /\ active /\ armed' = TRUE
          /\ Goto("drain", "Idle") /\ UNCHANGED <<current, stop>>
       \/ (Canceled("drain") \/ ~active) /\ Goto("drain", "Idle") /\ Continue
       \/ Fail
    /\ UNCHANGED <<ui, content, run, stopper, owned, camera>>

-----------------------------------------------------------------------------
(* ReceiveSignalsAsync and MonitorPrivacyAsync.                             *)

\* DispatcherQueue.TryEnqueue of a StopAsync by a loop that ends.  A cancellation ends the
\* loop silently; any other failure queues a stop even when the loop is canceled.
LoopEnds(c) ==
    \/ Canceled(c) /\ UNCHANGED queued
    \/ queued' = task[c][2]

\* Mutant: the loop awaits the stop itself, which awaits the loop.
SignalsEnd_AwaitsStop ==
    /\ At("signals", "Wait")
    /\ \/ Canceled("signals") /\ stop = "Idle" /\ Goto("signals", "Idle") /\ Continue
       \/ ~Canceled("signals") /\ StopAsync /\ UNCHANGED task
    /\ UNCHANGED <<ui, content, run, stopper, owned, camera>>

\* The loop goes on through answers, candidates and timeouts, until it is canceled or the
\* camera ends the session, or the session or the bridge fails.
SignalsEnd ==
    /\ At("signals", "Wait")
    /\ LoopEnds("signals") /\ Goto("signals", "Idle")
    /\ UNCHANGED <<ui, content, run, stopping, ending, owned, camera>>

PrivacyRead ==
    /\ At("privacy", "Read")
    /\ \/ LoopEnds("privacy") /\ Goto("privacy", "Idle")
       \/ /\ ~Canceled("privacy") /\ Admitted /\ UNCHANGED queued
          /\ \E step \in {"Subscribe", "Poll"} : Goto("privacy", step)
    /\ UNCHANGED <<ui, content, run, stopping, ending, owned, camera>>

\* Each of the two attributes.  The subscribe cannot be canceled: its subscription is
\* listed, and closed, all the same.
Subscribed ==
    /\ At("privacy", "Subscribe")
    /\ \/ /\ Admitted /\ subscribed' = TRUE
          /\ \E step \in (IF Canceled("privacy") THEN {"Unsubscribe"} ELSE {"Subscribe", "Poll"}) :
                Goto("privacy", step)
          /\ UNCHANGED queued
       \/ /\ LoopEnds("privacy") /\ Goto("privacy", IF subscribed THEN "Unsubscribe" ELSE "Idle")
          /\ UNCHANGED subscribed
    /\ UNCHANGED <<ui, content, run, stopping, ending, owned, uncertain, remote>>

\* A poll is canceled, or finds privacy enabled or fails.
PollEnds ==
    /\ At("privacy", "Poll")
    /\ LoopEnds("privacy") /\ Goto("privacy", IF subscribed THEN "Unsubscribe" ELSE "Idle")
    /\ UNCHANGED <<ui, content, run, stopping, ending, owned, camera>>

Unsubscribed ==
    /\ At("privacy", "Unsubscribe")
    /\ \/ subscribed' = FALSE /\ UNCHANGED uncertain
       \/ uncertain' = TRUE /\ UNCHANGED subscribed
    /\ Goto("privacy", "Idle")
    /\ UNCHANGED <<ui, content, run, stopping, stopper, owned, remote>>

\* A report of enabled privacy, and a malformed one, stop the receiver.
PrivacyReport ==
    /\ subscribed /\ ~Idle("privacy") /\ ~Canceled("privacy")
    /\ StopAsync
    /\ UNCHANGED <<ui, content, run, task, stopper, owned, camera>>

\* The StopAsync queued by the privacy loop, when privacy is enabled or the loop fails, or by
\* the signal loop, when the session ends or the loop fails.
RunQueuedStop ==
    /\ queued # 0
    /\ queued' = 0
    /\ StopAsync
    /\ UNCHANGED <<ui, content, run, task, ending, owned, camera>>

-----------------------------------------------------------------------------
(* StopCoreAsync.                                                           *)

\* The stop message is sent, or the bridge fails and the browser is closed; then the session
\* is taken out of its field.
Take ==
    /\ stop \in {"Preparation", "Take"} /\ (stop = "Preparation" => ~Preparing)
    /\ ending' = session /\ session' = 0 /\ offer' = 0
    /\ stop' = "Tasks"
    /\ ready' \in {ready, FALSE}
    /\ UNCHANGED <<ui, lost, page, messages, starts, mode, current, armed, task, queued, owned, camera>>

\* Which of the streams left is released next, audio first: an owned one no deallocation was
\* attempted of.  Once video has been, the stop does not come back to an audio stream that
\* was allocated meanwhile.
ReleaseNext(left) ==
    LET next == IF "Audio" \in left /\ audio' = "Owned" THEN "Audio"
                ELSE IF "Video" \in left /\ video' = "Owned" THEN "Video" ELSE "Idle"
        Sent(kind, ownership) == IF ownership = "None" THEN 0
                                 ELSE releases[kind] + (IF next = kind THEN 1 ELSE 0)
    IN  /\ stop' = next
        /\ releases' = [Audio |-> Sent("Audio", audio'), Video |-> Sent("Video", video')]

\* Mutant: the start is not waited for.
TasksEnd_BeforeStart ==
    /\ stop = "Tasks"
    /\ Idle("allocation") /\ Idle("signals") /\ Idle("privacy")
    /\ UNCHANGED <<video, audio>>
    /\ \/ ending # 0 /\ stop' = "End" /\ UNCHANGED releases
       \/ ending = 0 /\ ReleaseNext(Streams)
    /\ UNCHANGED <<ui, content, run, current, armed, task, stopper, camera>>

\* Allocation, start, signals and privacy have ended, whichever way.
TasksEnd ==
    /\ stop = "Tasks"
    /\ Idle("allocation") /\ ~Starting /\ Idle("signals") /\ Idle("privacy")
    /\ UNCHANGED <<video, audio>>
    /\ \/ ending # 0 /\ stop' = "End" /\ UNCHANGED releases
       \/ ending = 0 /\ ReleaseNext(Streams)
    /\ UNCHANGED <<ui, content, run, current, armed, task, stopper, camera>>

\* TryCloseAsync of the session.  Its answer is posted to the dispatcher behind a stop the
\* signal or privacy loop has queued.
Ended ==
    /\ stop = "End" /\ queued = 0
    /\ ending' = 0
    /\ \/ Admitted /\ remote' = remote \ {"session"} /\ UNCHANGED uncertain
       \/ uncertain' = TRUE /\ UNCHANGED remote
    /\ UNCHANGED <<video, audio>> /\ ReleaseNext(Streams)
    /\ UNCHANGED <<ui, content, run, current, armed, task, queued, subscribed>>

\* Mutant: a deallocation that failed is not remembered as attempted.
AudioReleased_Retries ==
    /\ stop = "Audio"
    /\ \/ Admitted /\ audio' = "None" /\ remote' = remote \ {"Audio"} /\ UNCHANGED uncertain
       \/ uncertain' = TRUE /\ UNCHANGED <<audio, remote>>
    /\ UNCHANGED video /\ ReleaseNext({"Video"})
    /\ UNCHANGED <<ui, content, run, current, armed, task, stopper, subscribed>>

\* TryDeallocateAudioStreamAsync and TryDeallocateVideoStreamAsync.
AudioReleased ==
    /\ stop = "Audio"
    /\ \/ Admitted /\ audio' = "None" /\ remote' = remote \ {"Audio"} /\ UNCHANGED uncertain
       \/ audio' = "Attempted" /\ uncertain' = TRUE /\ UNCHANGED remote
    /\ UNCHANGED video /\ ReleaseNext({"Video"})
    /\ UNCHANGED <<ui, content, run, current, armed, task, stopper, subscribed>>

VideoReleased ==
    /\ stop = "Video"
    /\ \/ Admitted /\ video' = "None" /\ remote' = remote \ {"Video"} /\ UNCHANGED uncertain
       \/ video' = "Attempted" /\ uncertain' = TRUE /\ UNCHANGED remote
    /\ UNCHANGED audio /\ ReleaseNext({})
    /\ UNCHANGED <<ui, content, run, current, armed, task, stopper, subscribed>>

-----------------------------------------------------------------------------
(* Specification.                                                           *)

Application ==
    \/ OpenWindow \/ Navigated \/ Activated \/ ClickStop \/ ClickAllocate
    \/ \E m \in Modes : OnStart(m)
    \/ CloseReceiver \/ ReceiverClosed \/ CloseSession \/ CloseController

Page ==
    \/ Receive \/ Skip \/ OfferReceived \/ CandidateReceived \/ CaptureRequested \/ PageReported

Allocation == AllocationRead \/ Allocated
Preparation == PreparationRead \/ AudioAllocated \/ StopAwaited("preparation")
Drain == Started \/ Retired \/ CandidatesSent \/ Authorized \/ StopAwaited("drain")
Privacy == PrivacyRead \/ Subscribed \/ PollEnds \/ Unsubscribed
Stop == Take \/ TasksEnd \/ Ended \/ AudioReleased \/ VideoReleased

Next ==
    \/ Application \/ Page
    \/ Allocation \/ Preparation \/ Drain \/ SignalsEnd \/ Privacy
    \/ PrivacyReport \/ RunQueuedStop \/ Stop

Spec == Init /\ [][Next]_vars

\* What the coroutines wait for comes: the operations of the controller end, a canceled
\* wait or poll does, and the dispatcher runs what is queued.  Nothing is asked of the user,
\* the page or the camera.
Completion ==
    \/ Allocation \/ Preparation \/ Drain \/ RunQueuedStop \/ Stop
    \/ Canceled("signals") /\ SignalsEnd
    \/ (At("privacy", "Poll") => Canceled("privacy")) /\ Privacy

LiveSpec == Spec /\ WF_vars(Completion)

-----------------------------------------------------------------------------
(* Properties.                                                              *)

\* Sessions of one window follow each other, and what is left of one never acts on the
\* next: a session is started with the offer the page made for it, not with one that was
\* in the channel when the previous session was stopped (DrainMessagesAsync), and a stop
\* that was queued by the loops of a session never stops another one.
SessionsKeepApart ==
    /\ session # 0 => offer = session
    /\ (queued # 0 /\ current # 0) => queued = current

\* The permission handler lets the page have the microphone only for a session that is
\* running in the talk mode, in the active window: whatever a late answer, a deactivation
\* or a stop does, microphoneArmed is not left set without them.
MicrophoneGated == armed => (mode = "Talk" /\ active /\ current # 0 /\ session = current)

\* An allocation is deallocated at most once, over all the stops of the window: a release
\* whose outcome is not known is not repeated.
ReleasedOnce == \A s \in Streams : releases[s] <= 1

\* When the receiver is stopped, neither a session nor a privacy subscription is left, nor
\* an audio stream, however the stop met the start, the preparation and the loops; and a
\* window that has closed, or was open when the application began to close the controller,
\* holds nothing of the camera.  Unless the node is marked uncertain or, as for audio, a
\* page was lost.
StoppedHoldsNothing ==
    /\ (stop = "Idle" /\ current = 0 /\ ~uncertain) =>
        /\ "session" \notin remote /\ ~subscribed
        /\ "Audio" \in remote => lost
    /\ (window = "Closed" \/ (app = "Closed" /\ listed)) => (remote = {} \/ uncertain \/ lost)

\* A stop ends: the loops, the start, the preparation and the queued stops it waits for, or
\* that wait for it, never wait for each other (StopCoreAsync).
StopEnds == stop # "Idle" ~> stop = "Idle"
=============================================================================
