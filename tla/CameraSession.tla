---------------------------- MODULE CameraSession ----------------------------
(***************************************************************************)
(* Camera signaling sessions: ControllerRuntime::StartCamera, CloseCamera   *)
(* and SendCameraCandidates (winrt/Projection.cpp) over the one host        *)
(* CameraControllerRuntime, with a PendingCameraSession as the owner of the *)
(* handle until the caller has it.                                          *)
(*                                                                          *)
(* Operations, streams and the holder of PendingRelease are here the        *)
(* startups, the handles (numbers from 1, NoStream is 0) and the startup    *)
(* whose session a handle is on the host.  A command holds the node and     *)
(* camera gates of RuntimeAdmission; the shared lifetime lease of the       *)
(* camera operations keeps the controller open and is left out.             *)
(* CameraSignals extends this module with the signals of the sessions.      *)
(***************************************************************************)
EXTENDS PendingRelease

CONSTANTS
    Users,           \* bound: CloseAsync calls in progress at once, of one session or of several
    NoUser,          \* holder of the free camera gate
    MaxEndpoints     \* requestor endpoints before mNextEndpoint is kInvalidEndpointId

\* CloseCamera is called by the two releasers and by users, candidates are sent by a
\* thread of their own.
Callers == Actors \cup {"sender"} \cup Users

ASSUME UserAssumption == Users \cap (Actors \cup {"sender"}) = {} /\ NoUser \notin Ops \X Callers
ASSUME EndpointAssumption == MaxEndpoints \in Nat
\* Every session spends an endpoint of 16 bits before its handle of 64: handles do not run out.
ASSUME HandleAssumption == NoStream = 0 /\ Streams = 1 .. MaxEndpoints

VARIABLES
    active,        \* mActiveHandle
    nextHandle,    \* mNextHandle
    nextEndpoint,  \* mNextEndpoint, counted from 1
    client,        \* whether mClient is set
    gate,          \* who holds the node and camera gates
    command        \* the CloseCamera calls and the SendCameraCandidates call of a session

hostVars == <<active, nextHandle, nextEndpoint, client, gate, command>>

CommandSteps == {"Idle", "Validate", "Gate", "Revalidate", "Send", "End", "LocalEnded", "LocalUnended",
                 "Closed", "Refused"}

HostInit ==
    /\ InitOwner
    /\ active = 0 /\ nextHandle = 1 /\ nextEndpoint = 1 /\ client = FALSE
    /\ gate = NoUser
    /\ command = [o \in Ops |-> [c \in Callers |-> "Idle"]]

HostTypeOK ==
    /\ OwnerTypeOK
    /\ at \in [Ops -> [Actors -> WorkerSteps \cup ReleaseSteps \cup Ends \cup
                          {"Gate", "Create", "Offer", "Offered", "EndFailed", "CloseFailed", "Info", "Closing"}]]
    /\ active \in Streams \cup {0} /\ nextHandle \in Nat
    /\ nextEndpoint \in 1 .. MaxEndpoints + 1
    /\ client \in BOOLEAN
    /\ gate \in (Ops \X Callers) \cup {NoUser}
    /\ command \in [Ops -> [Callers -> CommandSteps]]

-----------------------------------------------------------------------------
(* The host.                                                                *)

\* Validate(handle); mEndpoint is set whenever mClient is.
Valid(handle) == handle # 0 /\ handle = active /\ client

\* Create: busy, or out of endpoints; or an endpoint is spent on a requestor that cannot
\* be registered, or whose session cannot be created; or the session is the active one.
CreateFails == (active # 0 \/ nextEndpoint > MaxEndpoints) /\ UNCHANGED <<active, nextHandle, nextEndpoint, client, holder>>

CreateUndone ==
    /\ active = 0 /\ nextEndpoint <= MaxEndpoints
    /\ nextEndpoint' = nextEndpoint + 1
    /\ UNCHANGED <<active, nextHandle, client, holder>>

\* Mutant: the handle of an ended session is given out again.
CreateSession_ReusesHandle(o) ==
    /\ active = 0 /\ nextEndpoint <= MaxEndpoints
    /\ nextEndpoint' = nextEndpoint + 1
    /\ active' = nextHandle /\ client' = TRUE
    /\ holder' = [holder EXCEPT ![nextHandle] = o]
    /\ UNCHANGED nextHandle

CreateSession(o) ==
    /\ active = 0 /\ nextEndpoint <= MaxEndpoints
    /\ nextEndpoint' = nextEndpoint + 1
    /\ nextHandle' = nextHandle + 1
    /\ active' = nextHandle /\ client' = TRUE
    /\ holder' = [holder EXCEPT ![nextHandle] = o]

\* CloseLocal: mClient is reset first; CloseSession or Unregister may fail and the host
\* then keeps its handle.
CloseLocal(handle) ==
    IF handle # active
      THEN UNCHANGED <<active, client, holder>>
      ELSE /\ client' = FALSE
           /\ \/ active' = 0 /\ holder' = [holder EXCEPT ![handle] = Nobody]
              \/ UNCHANGED <<active, holder>>

-----------------------------------------------------------------------------
(* StartPreparedCamera and StartPreparedCameraSession with StartCamera.     *)

\* Validation and the capability, privacy and stream reads.
Prepare(o) ==
    /\ at[o]["worker"] = "Prepare"
    /\ \/ ~canceled[o] /\ Goto(o, "worker", "Gate") /\ UNCHANGED status
       \/ Throw(o)
    /\ UNCHANGED <<callback, canceled, owner, holder, delivered, sent, hostVars>>

\* AcquireNode and AcquireGate: admitted, or canceled, timed out or closing.
PassGate(o) ==
    /\ at[o]["worker"] = "Gate"
    /\ \/ gate = NoUser /\ ~canceled[o] /\ gate' = <<o, "worker">> /\ Goto(o, "worker", "Create") /\ UNCHANGED status
       \/ Throw(o) /\ UNCHANGED gate
    /\ UNCHANGED <<callback, canceled, owner, holder, delivered, sent, active, nextHandle, nextEndpoint, client, command>>

Create(o) ==
    /\ at[o]["worker"] = "Create"
    /\ \/ ~canceled[o] /\ CreateSession(o) /\ Goto(o, "worker", "Offer") /\ UNCHANGED <<status, gate>>
       \/ /\ CreateFails \/ CreateUndone
          /\ Throw(o) /\ gate' = NoUser
       \/ /\ canceled[o] /\ Throw(o) /\ gate' = NoUser
          /\ UNCHANGED <<active, nextHandle, nextEndpoint, client, holder>>
    /\ UNCHANGED <<callback, canceled, owner, delivered, sent, command>>

\* Send(Offer): answered, or it fails, is canceled or times out.
Offer(o) ==
    /\ at[o]["worker"] = "Offer"
    /\ \E step \in {"Offered", "EndFailed"} : Goto(o, "worker", step)
    /\ UNCHANGED <<status, callback, canceled, owner, holder, delivered, sent, hostVars>>

\* The flag is read once more after the answer.
CheckOffered(o) ==
    /\ at[o]["worker"] = "Offered"
    /\ Goto(o, "worker", IF canceled[o] THEN "EndFailed" ELSE "Info")
    /\ UNCHANGED <<status, callback, canceled, owner, holder, delivered, sent, hostVars>>

\* The metadata is read and the session object made, or an exception ends the session.
ReadInfo(o) ==
    /\ at[o]["worker"] = "Info"
    /\ \/ Goto(o, "worker", "Record") /\ gate' = NoUser
       \/ Goto(o, "worker", "EndFailed") /\ UNCHANGED gate
    /\ UNCHANGED <<status, callback, canceled, owner, holder, delivered, sent, active, nextHandle, nextEndpoint, client, command>>

\* Send(End) for a session that is not to be, then CloseLocal; failures are logged.
EndFailedStart(o) ==
    /\ at[o]["worker"] = "EndFailed"
    /\ Goto(o, "worker", "CloseFailed")
    /\ UNCHANGED <<status, callback, canceled, owner, holder, delivered, sent, hostVars>>

CloseFailedStart(o) ==
    /\ at[o]["worker"] = "CloseFailed"
    /\ CloseLocal(active)
    /\ Throw(o)
    /\ gate' = NoUser
    /\ UNCHANGED <<callback, canceled, owner, delivered, sent, nextHandle, nextEndpoint, command>>

RecordHandle(o) ==
    /\ \E s \in Streams : holder[s] = o /\ Record(o, s, "CheckFirst")
    /\ UNCHANGED hostVars

\* Afterwards the flag decides, before and after the streams the camera has selected and
\* its privacy are read; a failure enters the catch block, which calls Release.
CheckCanceled(o) ==
    /\ at[o]["worker"] \in {"CheckFirst", "CheckLast"}
    /\ Goto(o, "worker", IF canceled[o] THEN "Release"
                         ELSE IF at[o]["worker"] = "CheckFirst" THEN "Readback" ELSE "Deliver")
    /\ UNCHANGED <<status, callback, canceled, owner, holder, delivered, sent, hostVars>>

Readback(o) ==
    /\ at[o]["worker"] = "Readback"
    /\ \E step \in {"CheckLast", "Release"} : Goto(o, "worker", step)
    /\ UNCHANGED <<status, callback, canceled, owner, holder, delivered, sent, hostVars>>

WorkerFails(o) ==
    /\ at[o]["worker"] \in {"Returned", "Rethrown"}
    /\ Throw(o)
    /\ UNCHANGED <<callback, canceled, owner, holder, delivered, sent, hostVars>>

-----------------------------------------------------------------------------
(* CloseCamera and SendCameraCandidates.                                    *)

Step(o, c, step) == command' = [command EXCEPT ![o][c] = step]

\* A command ends: a releaser goes on with what came of it, a user may call again.
EndCommand(o, c, result) == Step(o, c, IF c \in Actors THEN result ELSE "Idle")

\* mRelease calls CloseCamera,
CallRelease(o, a) ==
    /\ at[o][a] = "CallRelease"
    /\ Goto(o, a, "Closing")
    /\ Step(o, a, "Validate")
    /\ sent' = [sent EXCEPT ![o] = @ + 1]
    /\ UNCHANGED <<status, callback, canceled, owner, holder, delivered, active, nextHandle, nextEndpoint, client, gate>>

\* and returns or throws as it does.
ReleaseReturns(o, a) ==
    /\ at[o][a] = "Closing" /\ command[o][a] \in {"Closed", "Refused"}
    /\ Goto(o, a, IF command[o][a] = "Closed" THEN "ReleaseSent" ELSE "ReleaseFailed")
    /\ Step(o, a, "Idle")
    /\ UNCHANGED <<status, callback, canceled, owner, holder, delivered, sent, active, nextHandle, nextEndpoint, client, gate>>

\* A session is closed by its users, once or again: CloseAsync only counts the calls in
\* progress, which may overlap.  And candidates are sent on it.
UserCalls(o, c) ==
    /\ c \in Users \cup {"sender"} /\ status[o] = "Completed"
    /\ \A p \in Ops : command[p][c] = "Idle"
    /\ Step(o, c, "Validate")
    /\ delivered' = IF c \in Users THEN delivered \ {o} ELSE delivered
    /\ UNCHANGED <<status, callback, canceled, owner, at, holder, sent, active, nextHandle, nextEndpoint, client, gate>>

\* The handle is looked up under the stack lock before the gates are waited for: a stale
\* one has nothing to close, and nothing to send to.
ValidateCommand(o, c) ==
    /\ command[o][c] = "Validate"
    /\ IF Valid(owner[o].stream) THEN Step(o, c, "Gate") ELSE EndCommand(o, c, "Closed")
    /\ UNCHANGED <<vars, active, nextHandle, nextEndpoint, client, gate>>

AcquireGates(o, c) ==
    /\ command[o][c] = "Gate"
    /\ \/ gate = NoUser /\ gate' = <<o, c>> /\ Step(o, c, "Revalidate")
       \/ EndCommand(o, c, "Refused") /\ UNCHANGED gate
    /\ UNCHANGED <<vars, active, nextHandle, nextEndpoint, client>>

\* Mutant: the handle is not validated again once the gates are held.
Revalidate_Skips(o, c) ==
    /\ command[o][c] = "Revalidate"
    /\ Step(o, c, IF c = "sender" THEN "Send" ELSE "End")
    /\ UNCHANGED <<vars, active, nextHandle, nextEndpoint, client, gate>>

\* It is validated again with the gates held.
Revalidate(o, c) ==
    /\ command[o][c] = "Revalidate"
    /\ IF Valid(owner[o].stream)
         THEN Step(o, c, IF c = "sender" THEN "Send" ELSE "End") /\ UNCHANGED gate
         ELSE EndCommand(o, c, "Closed") /\ gate' = NoUser
    /\ UNCHANGED <<vars, active, nextHandle, nextEndpoint, client>>

SendCandidates(o) ==
    /\ command[o]["sender"] = "Send"
    /\ EndCommand(o, "sender", "Closed")
    /\ gate' = NoUser
    /\ UNCHANGED <<vars, active, nextHandle, nextEndpoint, client>>

\* Send(End); whatever comes of it the local session is closed,
SendEnd(o, c) ==
    /\ command[o][c] = "End"
    /\ \E step \in {"LocalEnded", "LocalUnended"} : Step(o, c, step)
    /\ UNCHANGED <<vars, active, nextHandle, nextEndpoint, client, gate>>

\* and a failure of either is reported then.
CloseLocalSession(o, c) ==
    /\ command[o][c] \in {"LocalEnded", "LocalUnended"}
    /\ CloseLocal(owner[o].stream)
    /\ EndCommand(o, c, IF command[o][c] = "LocalEnded" /\ active' = 0 THEN "Closed" ELSE "Refused")
    /\ gate' = NoUser
    /\ UNCHANGED <<status, callback, canceled, owner, at, delivered, sent, nextHandle, nextEndpoint>>

-----------------------------------------------------------------------------
(* The steps of startups, releasers and users.                              *)

Command(o, c) ==
    \/ ValidateCommand(o, c) \/ AcquireGates(o, c) \/ Revalidate(o, c)
    \/ SendEnd(o, c) \/ CloseLocalSession(o, c)

Owner(o) ==
    \/ CancelAsync(o) \/ CallbackFlag(o) \/ Cancel(o) \/ Complete(o) \/ BackgroundEnds(o)
    \/ \E a \in Actors : EnterRelease(o, a) \/ StoreRelease(o, a) \/ AwaitRelease(o, a)

Worker(o) ==
    \/ Prepare(o) \/ PassGate(o) \/ Create(o) \/ Offer(o) \/ CheckOffered(o) \/ ReadInfo(o)
    \/ EndFailedStart(o) \/ CloseFailedStart(o) \/ RecordHandle(o)
    \/ CheckCanceled(o) \/ Readback(o) \/ WorkerFails(o)
    \/ \E a \in Actors : CallRelease(o, a) \/ ReleaseReturns(o, a)

HostNext ==
    \E o \in Ops :
        \/ Owner(o) /\ UNCHANGED hostVars
        \/ Worker(o) \/ SendCandidates(o)
        \/ \E c \in Callers : UserCalls(o, c) \/ Command(o, c)

-----------------------------------------------------------------------------
(* Properties.                                                              *)

\* A command in progress uses mClient and the native session outside the stack lock: they
\* are those of its own handle until it has ended.  No other operation resets the client,
\* closes the session or puts a new one in its place meanwhile (CommandOperation).  And no
\* session is replaced on the host before it is closed: its handle stays the active one
\* however often, late or concurrently sessions are started and closed.
CommandKeepsItsSession ==
    /\ \A o \in Ops :
        /\ at[o]["worker"] \in {"Offer", "EndFailed"} => client /\ active # 0 /\ holder[active] = o
        /\ \A c \in Callers : command[o][c] \in {"Send", "End", "LocalEnded", "LocalUnended"} => Valid(owner[o].stream)
    /\ \A s \in Streams : holder[s] # Nobody => s = active

\* A startup that was canceled or failed leaves no session on the host, so the next one
\* does not find it busy, unless closing failed.
NoOrphanSession ==
    \A o \in Ops :
        (Quiet(o) /\ status[o] \in {"Canceled", "Error"} /\ ~owner[o].failure /\ client) =>
            \A s \in Streams : holder[s] # o

-----------------------------------------------------------------------------
(* Refinement.                                                              *)

Custody == INSTANCE ResourceCustody WITH
            Resources <- Streams,
            asked <- {o \in Ops : at[o]["worker"] \notin {"Prepare", "Gate", "Create"}},
            outcome <- [o \in Ops |-> Outcome(o)]

\* Startups, releasers, users and the host implement the custody of a session: a command
\* that is late, repeated or overtaken closes the session of its own startup or none.
ImplementsCustody == Custody!Spec
=============================================================================
