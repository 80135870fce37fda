--------------------------- MODULE PendingRelease ---------------------------
(***************************************************************************)
(* PendingCameraRelease (winrt/CameraVideoStreamAllocation.h): who gives a  *)
(* camera resource back when the asynchronous operation that acquired it is *)
(* canceled or fails.  The operation's worker records the resource; the     *)
(* cancellation callback and the worker may each ask for its release.       *)
(*                                                                          *)
(* The module has the object's state and steps, and the asynchronous        *)
(* operation around it; StreamAllocation and CameraSession extend it with   *)
(* what their workers do.                                                   *)
(***************************************************************************)
EXTENDS Integers, FiniteSets

CONSTANTS
    Ops,        \* asynchronous allocations
    Streams,    \* stream identifiers the camera hands out
    NoStream,   \* an empty mStream
    Nobody      \* holder of an identifier that is not allocated

ASSUME StreamAssumption == NoStream \notin Streams
ASSUME NobodyAssumption == Nobody \notin Ops

VARIABLES
    status,     \* the AsyncStatus of the operation
    callback,   \* how far its cancellation callback has run
    canceled,   \* the flag the worker polls
    owner,      \* the PendingCameraRelease object of the operation
    at,         \* where its worker and its ReleaseCanceled coroutine stand
    holder,     \* the camera: the operation each identifier was allocated to
    delivered,  \* operations whose caller has received the stream and not given it up
    sent        \* history: release commands issued for the operation

vars == <<status, callback, canceled, owner, at, holder, delivered, sent>>

Actors == {"worker", "background"}
ReleaseSteps == {"Release", "CallRelease", "ReleaseSent", "ReleaseFailed", "AwaitRelease"}
WorkerSteps == {"Prepare", "Dispatch", "Record", "CheckFirst", "Readback", "CheckLast", "Deliver"}
Ends == {"Idle", "Returned", "Rethrown", "Done"}

OwnerType == [stream : Streams \cup {NoStream}, canceled : BOOLEAN,
              release : {"none", "started", "finished"}, failure : BOOLEAN]

InitOwner ==
    /\ status = [o \in Ops |-> "Started"]
    /\ callback = [o \in Ops |-> "Idle"]
    /\ canceled = [o \in Ops |-> FALSE]
    /\ owner = [o \in Ops |-> [stream |-> NoStream, canceled |-> FALSE, release |-> "none", failure |-> FALSE]]
    /\ at = [o \in Ops |-> [a \in Actors |-> IF a = "worker" THEN "Prepare" ELSE "Idle"]]
    /\ holder = [s \in Streams |-> Nobody]
    /\ delivered = {}
    /\ sent = [o \in Ops |-> 0]

Goto(o, a, step) == at' = [at EXCEPT ![o][a] = step]

-----------------------------------------------------------------------------
(* Cancellation.                                                            *)

\* IAsyncInfo::Cancel: an operation that has not completed becomes Canceled, and its
\* callback runs on the caller's thread.
CancelAsync(o) ==
    /\ status[o] = "Started"
    /\ status' = [status EXCEPT ![o] = "Canceled"]
    /\ callback' = [callback EXCEPT ![o] = "Flag"]
    /\ UNCHANGED <<canceled, owner, at, holder, delivered, sent>>

\* The callback sets the polled flag,
CallbackFlag(o) ==
    /\ callback[o] = "Flag"
    /\ canceled' = [canceled EXCEPT ![o] = TRUE]
    /\ callback' = [callback EXCEPT ![o] = "Owner"]
    /\ UNCHANGED <<status, owner, at, holder, delivered, sent>>

\* Mutant: a cancellation that finds a stream recorded leaves its release to the worker.
Cancel_OnlyMarks(o) ==
    /\ callback[o] = "Owner"
    /\ callback' = [callback EXCEPT ![o] = "Done"]
    /\ owner' = [owner EXCEPT ![o].canceled = TRUE]
    /\ UNCHANGED <<status, canceled, at, holder, delivered, sent>>

\* and then calls Cancel: under mMutex mCanceled is set and mStream read; with a stream
\* ReleaseCanceled is queued to the thread pool.
Cancel(o) ==
    /\ callback[o] = "Owner"
    /\ callback' = [callback EXCEPT ![o] = "Done"]
    /\ owner' = [owner EXCEPT ![o].canceled = TRUE]
    /\ IF owner[o].stream # NoStream THEN Goto(o, "background", "Release") ELSE UNCHANGED at
    /\ UNCHANGED <<status, canceled, holder, delivered, sent>>

\* Record: under mMutex mStream is set and mCanceled read.
Record(o, s, next) ==
    /\ at[o]["worker"] = "Record"
    /\ owner' = [owner EXCEPT ![o].stream = s]
    /\ at' = [at EXCEPT ![o]["worker"] = next,
                        ![o]["background"] = IF owner[o].canceled THEN "Release" ELSE @]
    /\ UNCHANGED <<status, callback, canceled, holder, delivered, sent>>

-----------------------------------------------------------------------------
(* Release, called by the worker's catch block and by ReleaseCanceled.      *)

\* Mutant: a release that has started but not finished is started again.
EnterRelease_Twice(o, a) ==
    /\ at[o][a] = "Release"
    /\ \/ owner[o].release = "finished" /\ Goto(o, a, "AwaitRelease") /\ UNCHANGED owner
       \/ /\ owner[o].release # "finished" /\ owner[o].stream = NoStream
          /\ Goto(o, a, "Returned") /\ UNCHANGED owner
       \/ /\ owner[o].release # "finished" /\ owner[o].stream # NoStream
          /\ owner' = [owner EXCEPT ![o].release = "started"]
          /\ Goto(o, a, "CallRelease")
    /\ UNCHANGED <<status, callback, canceled, holder, delivered, sent>>

\* Under mMutex: another caller has started the release, there is nothing to release, or
\* this caller starts it.
EnterRelease(o, a) ==
    /\ at[o][a] = "Release"
    /\ \/ owner[o].release # "none" /\ Goto(o, a, "AwaitRelease") /\ UNCHANGED owner
       \/ /\ owner[o].release = "none" /\ owner[o].stream = NoStream
          /\ Goto(o, a, "Returned") /\ UNCHANGED owner
       \/ /\ owner[o].release = "none" /\ owner[o].stream # NoStream
          /\ owner' = [owner EXCEPT ![o].release = "started"]
          /\ Goto(o, a, "CallRelease")
    /\ UNCHANGED <<status, callback, canceled, holder, delivered, sent>>

\* mRelease has returned or thrown; its outcome is stored under mMutex.
StoreRelease(o, a) ==
    /\ at[o][a] \in {"ReleaseSent", "ReleaseFailed"}
    /\ LET failed == at[o][a] = "ReleaseFailed"
       IN  /\ owner' = [owner EXCEPT ![o].release = "finished", ![o].failure = failed,
                                     ![o].stream = IF failed THEN @ ELSE NoStream]
           /\ Goto(o, a, IF failed THEN "Rethrown" ELSE "Returned")
    /\ UNCHANGED <<status, callback, canceled, holder, delivered, sent>>

\* Mutant: the second caller does not wait for the first.
AwaitRelease_DoesNotWait(o, a) ==
    /\ at[o][a] = "AwaitRelease"
    /\ Goto(o, a, IF owner[o].failure THEN "Rethrown" ELSE "Returned")
    /\ UNCHANGED <<status, callback, canceled, owner, holder, delivered, sent>>

\* The second caller wakes with the first one's outcome.
AwaitRelease(o, a) ==
    /\ at[o][a] = "AwaitRelease"
    /\ owner[o].release = "finished"
    /\ Goto(o, a, IF owner[o].failure THEN "Rethrown" ELSE "Returned")
    /\ UNCHANGED <<status, callback, canceled, owner, holder, delivered, sent>>

\* ReleaseCanceled logs a failure and ends.
BackgroundEnds(o) ==
    /\ at[o]["background"] \in {"Returned", "Rethrown"}
    /\ Goto(o, "background", "Done")
    /\ UNCHANGED <<status, callback, canceled, owner, holder, delivered, sent>>

\* The deallocate command: the camera frees the identifier, whoever it is allocated to,
\* and answers; the command never arrives; or the answer is lost.
ReleaseCommand(o, a, s) ==
    /\ sent' = [sent EXCEPT ![o] = @ + 1]
    /\ \/ holder' = [holder EXCEPT ![s] = Nobody] /\ Goto(o, a, "ReleaseSent")
       \/ UNCHANGED holder /\ Goto(o, a, "ReleaseFailed")
       \/ holder' = [holder EXCEPT ![s] = Nobody] /\ Goto(o, a, "ReleaseFailed")

-----------------------------------------------------------------------------
(* How the coroutine of the operation ends.                                 *)

\* The result is set unless the operation was canceled: then nobody receives it.
Complete(o) ==
    /\ at[o]["worker"] = "Deliver"
    /\ Goto(o, "worker", "Done")
    /\ IF status[o] = "Started"
         THEN /\ status' = [status EXCEPT ![o] = "Completed"]
              /\ delivered' = delivered \cup {o}
         ELSE UNCHANGED <<status, delivered>>
    /\ UNCHANGED <<callback, canceled, owner, holder, sent>>

\* An exception ends the operation with an error (a Try method returns it as the result).
Throw(o) ==
    /\ Goto(o, "worker", "Done")
    /\ status' = [status EXCEPT ![o] = IF @ = "Started" THEN "Error" ELSE @]

-----------------------------------------------------------------------------
(* What both kinds of allocation are checked for.                           *)

OwnerTypeOK ==
    /\ status \in [Ops -> {"Started", "Canceled", "Completed", "Error"}]
    /\ callback \in [Ops -> {"Idle", "Flag", "Owner", "Done"}]
    /\ canceled \in [Ops -> BOOLEAN]
    /\ owner \in [Ops -> OwnerType]
    /\ holder \in [Streams -> Ops \cup {Nobody}]
    /\ delivered \subseteq Ops
    /\ sent \in [Ops -> 0 .. 2]

\* The operation has ended and nothing of it runs or will run on the thread pool.
Quiet(o) ==
    /\ at[o]["worker"] = "Done"
    /\ at[o]["background"] \in {"Idle", "Done"}
    /\ callback[o] \in {"Idle", "Done"}

\* What the caller of an operation knows of it, for the abstract ResourceCustody.
Outcome(o) == IF status[o] = "Completed" /\ o \notin delivered THEN "GivenUp" ELSE status[o]

\* The worker's Release and the one cancellation queues issue at most one command
\* between them: identifiers are reused, a second one could free a stranger's stream.
ReleasedAtMostOnce == \A o \in Ops : sent[o] <= 1

\* A stream the caller has received is allocated to that operation and nobody is
\* releasing it: cancellation at completion either wins or does nothing.
DeliveredIsHeld ==
    \A o \in delivered :
        /\ owner[o].stream # NoStream /\ holder[owner[o].stream] = o
        /\ owner[o].release = "none" /\ at[o]["background"] = "Idle"

\* A canceled or failed allocation that recorded its stream leaves nothing behind once it
\* is quiet, unless its release failed.
NothingLeftBehind ==
    \A o \in Ops :
        (Quiet(o) /\ status[o] \in {"Canceled", "Error"} /\ ~owner[o].failure) => owner[o].stream = NoStream

\* A worker that failed goes on, to the catch blocks around it and to its caller, only when
\* the release of its stream has an outcome, whichever of the two releasers is at it:
\* what it then reports and does to the ownership table is about a release that is over.
\* And the two never wait for each other, or for a release nobody is making.
FailureFollowsRelease ==
    \A o \in Ops :
        /\ (at[o]["worker"] \in {"Returned", "Rethrown", "OuterCatch"} \/ status[o] = "Error") =>
               owner[o].stream = NoStream \/ owner[o].release = "finished"
        /\ \A a \in Actors : at[o][a] = "AwaitRelease" =>
               \/ owner[o].release = "finished"
               \/ \E b \in Actors : at[o][b] \notin Ends \cup {"AwaitRelease", "Release"} \cup WorkerSteps
=============================================================================
