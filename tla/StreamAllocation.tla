-------------------------- MODULE StreamAllocation --------------------------
(***************************************************************************)
(* Video and audio stream allocation (winrt/Projection.cpp): the worker     *)
(* that asks the camera for a stream, reads it back and delivers it, with a *)
(* PendingCameraRelease as the owner of the stream until then.              *)
(*                                                                          *)
(* Audio goes through the controller's CameraAudioAllocationOwnership: one  *)
(* entry for each endpoint an audio stream is pending, owned, being         *)
(* released or uncertain on.  Video has no such table.                      *)
(***************************************************************************)
EXTENDS PendingRelease

CONSTANTS
    Endpoints,     \* (node, endpoint) keys of the table
    Calls,         \* deallocation calls a caller may have in progress at once
    MaxEntries     \* mEntries.size() >= 8 is refused

ASSUME EntriesAssumption == MaxEntries \in Nat \ {0}

VARIABLES
    entries,       \* mEntries
    media,         \* "video" or "audio", for each operation
    endpoint,      \* the key each audio operation allocates on
    failure,       \* what the outer catch block of a failing worker knows
    userCall       \* DeallocateAudioStreamAsync calls for the stream of an operation

streamVars == <<vars, entries, media, endpoint, failure, userCall>>

States == {"Absent", "Pending", "Owned", "Releasing", "Uncertain"}
Entry == [state : States, stream : Streams \cup {NoStream}]
Absent == [state |-> "Absent", stream |-> NoStream]

Init ==
    /\ InitOwner
    /\ entries = [e \in Endpoints |-> Absent]
    /\ media \in [Ops -> {"video", "audio"}]
    /\ endpoint \in [Ops -> Endpoints]
    /\ failure = [o \in Ops |-> "none"]
    /\ userCall = [o \in Ops |-> [c \in Calls |-> "Idle"]]

-----------------------------------------------------------------------------
(* CameraAudioAllocationOwnership; every method holds mMutex throughout.    *)

EntryCount == Cardinality({e \in Endpoints : entries[e].state # "Absent"})

Reserve(e) ==
    /\ entries[e].state = "Absent"
    /\ EntryCount < MaxEntries
    /\ entries' = [entries EXCEPT ![e] = [state |-> "Pending", stream |-> NoStream]]

CanCommit(e) == entries[e].state = "Pending"
Commit(e, s) == entries' = [entries EXCEPT ![e] = [state |-> "Owned", stream |-> s]]

\* Mutant: the entry is changed whatever has become of it since it was reserved.
AllocationFailed_AnyState(e, knownRejection) ==
    entries' = [entries EXCEPT ![e] = IF knownRejection THEN Absent ELSE [@ EXCEPT !.state = "Uncertain"]]

AllocationFailed(e, knownRejection) ==
    entries' = IF entries[e].state # "Pending" THEN entries
               ELSE IF knownRejection THEN [entries EXCEPT ![e] = Absent]
               ELSE [entries EXCEPT ![e].state = "Uncertain"]

\* Mutant: an entry that is being released may be released again.
CanRelease_Again(e, s) == entries[e].state \in {"Owned", "Releasing"} /\ entries[e].stream = s

CanRelease(e, s) == entries[e].state = "Owned" /\ entries[e].stream = s
StartRelease(e) == entries' = [entries EXCEPT ![e].state = "Releasing"]

ReleaseFinished(e, succeeded) ==
    entries' = [entries EXCEPT ![e] = IF succeeded THEN Absent ELSE [@ EXCEPT !.state = "Uncertain"]]

-----------------------------------------------------------------------------
(* AllocateCameraVideoStream and AllocateCameraAudioStream.                 *)

\* Descriptor, capability, privacy and bound checks and the last look at the flag.  Audio
\* ends with Reserve, whose exception is not seen by the catch blocks.
Prepare(o) ==
    /\ at[o]["worker"] = "Prepare"
    /\ \/ /\ ~canceled[o]
          /\ IF media[o] = "audio" THEN Reserve(endpoint[o]) ELSE UNCHANGED entries
          /\ Goto(o, "worker", "Dispatch") /\ UNCHANGED status
       \/ Throw(o) /\ UNCHANGED entries
    /\ UNCHANGED <<callback, canceled, owner, holder, delivered, sent, media, endpoint, failure, userCall>>

\* What a catch block can tell of an exception: an interaction model status, which the
\* table counts as a known refusal, or not.  The video worker does not ask.
Kinds(o) == IF media[o] = "audio" THEN {"known", "uncertain"} ELSE {"uncertain"}

\* The exception ends a video allocation; that of audio passes the outer catch block.
Fail(o, kind) ==
    /\ failure' = [failure EXCEPT ![o] = kind]
    /\ IF media[o] = "audio" THEN Goto(o, "worker", "OuterCatch") /\ UNCHANGED status ELSE Throw(o)

\* The allocate command is dispatched and not canceled any more: it never leaves (stage
\* Validation) or is refused; or the camera allocates an identifier and answers; or the
\* answer, or a usable identifier, is lost and remote ownership is uncertain.
Dispatch(o) ==
    /\ at[o]["worker"] = "Dispatch"
    /\ \/ \E s \in Streams :
            /\ holder[s] = Nobody
            /\ holder' = [holder EXCEPT ![s] = o]
            /\ \/ /\ Goto(o, "worker", IF media[o] = "audio" THEN "Commit" ELSE "Record")
                  /\ UNCHANGED <<status, failure>>
               \/ Fail(o, "uncertain")
       \/ \E kind \in Kinds(o) : Fail(o, kind) /\ UNCHANGED holder
    /\ UNCHANGED <<callback, canceled, owner, delivered, sent, entries, media, endpoint, userCall>>

\* Audio only: Commit throws unless it finds an entry that is pending.
CommitStream(o) ==
    /\ at[o]["worker"] = "Commit"
    /\ \E s \in Streams :
         /\ holder[s] = o
         /\ IF CanCommit(endpoint[o])
              THEN Commit(endpoint[o], s) /\ Goto(o, "worker", "Record") /\ UNCHANGED <<status, failure>>
              ELSE Fail(o, "uncertain") /\ UNCHANGED entries
    /\ UNCHANGED <<callback, canceled, owner, holder, delivered, sent, media, endpoint, userCall>>

RecordStream(o) == \E s \in Streams : holder[s] = o /\ Record(o, s, "CheckFirst")

\* canceled is read before and after the readback; a failure enters the inner catch block.
CheckCanceled(o) ==
    /\ at[o]["worker"] \in {"CheckFirst", "CheckLast"}
    /\ IF canceled[o]
         THEN Goto(o, "worker", "Release") /\ failure' = [failure EXCEPT ![o] = "uncertain"]
         ELSE /\ Goto(o, "worker", IF at[o]["worker"] = "CheckFirst" THEN "Readback" ELSE "Deliver")
              /\ UNCHANGED failure
    /\ UNCHANGED <<status, callback, canceled, owner, holder, delivered, sent, entries, media, endpoint, userCall>>

\* The stream is in the camera's list and fits the request, or the inner catch block runs.
Readback(o) ==
    /\ at[o]["worker"] = "Readback"
    /\ \/ Goto(o, "worker", "CheckLast") /\ UNCHANGED failure
       \/ Goto(o, "worker", "Release") /\ \E kind \in Kinds(o) : failure' = [failure EXCEPT ![o] = kind]
    /\ UNCHANGED <<status, callback, canceled, owner, holder, delivered, sent, entries, media, endpoint, userCall>>

\* Try...: making the result object throws, and a catch block outside the worker's
\* releases; failure is still "none".
ResultFails(o) ==
    /\ at[o]["worker"] = "Deliver"
    /\ Goto(o, "worker", "Release")
    /\ UNCHANGED <<status, callback, canceled, owner, holder, delivered, sent, entries, media, endpoint, failure, userCall>>

\* The catch block that released rethrows the failure, or that of the release; in the
\* worker's body that is to the outer catch block.
InnerCatch(o) ==
    /\ at[o]["worker"] \in {"Returned", "Rethrown"}
    /\ IF failure[o] = "none"
         THEN Throw(o) /\ UNCHANGED failure
         ELSE \E kind \in (IF at[o]["worker"] = "Returned" THEN {failure[o]} ELSE Kinds(o)) : Fail(o, kind)
    /\ UNCHANGED <<callback, canceled, owner, holder, delivered, sent, entries, media, endpoint, userCall>>

\* Audio's outer catch block tells the table, by key, that the allocation failed.
OuterCatch(o) ==
    /\ at[o]["worker"] = "OuterCatch"
    /\ AllocationFailed(endpoint[o], failure[o] = "known")
    /\ Throw(o)
    /\ UNCHANGED <<callback, canceled, owner, holder, delivered, sent, media, endpoint, failure, userCall>>

-----------------------------------------------------------------------------
(* DeallocateCameraVideoStream and DeallocateCameraAudioStream, as mRelease *)
(* and as called by the caller.                                             *)

\* mRelease of a video stream is the command.
CallRelease(o, a) ==
    /\ at[o][a] = "CallRelease" /\ media[o] = "video"
    /\ ReleaseCommand(o, a, owner[o].stream)
    /\ UNCHANGED <<status, callback, canceled, owner, delivered, entries, media, endpoint, failure, userCall>>

\* mRelease of an audio stream: StartRelease refuses, or the entry is Releasing and the
\* command follows.
CallAudioRelease(o, a) ==
    /\ at[o][a] = "CallRelease" /\ media[o] = "audio"
    /\ IF CanRelease(endpoint[o], owner[o].stream)
         THEN StartRelease(endpoint[o]) /\ Goto(o, a, "SendRelease")
         ELSE Goto(o, a, "ReleaseFailed") /\ UNCHANGED entries
    /\ UNCHANGED <<status, callback, canceled, owner, holder, delivered, sent, media, endpoint, failure, userCall>>

SendRelease(o, a) ==
    /\ at[o][a] = "SendRelease"
    /\ \/ /\ holder' = [holder EXCEPT ![owner[o].stream] = Nobody]
          /\ Goto(o, a, "FinishReleased")
       \/ /\ holder' \in {holder, [holder EXCEPT ![owner[o].stream] = Nobody]}
          /\ Goto(o, a, "FinishFailed")
    /\ sent' = [sent EXCEPT ![o] = @ + 1]
    /\ UNCHANGED <<status, callback, canceled, owner, delivered, entries, media, endpoint, failure, userCall>>

FinishRelease(o, a) ==
    /\ at[o][a] \in {"FinishReleased", "FinishFailed"}
    /\ ReleaseFinished(endpoint[o], at[o][a] = "FinishReleased")
    /\ Goto(o, a, IF at[o][a] = "FinishReleased" THEN "ReleaseSent" ELSE "ReleaseFailed")
    /\ UNCHANGED <<status, callback, canceled, owner, holder, delivered, sent, media, endpoint, failure, userCall>>

\* The caller gives a delivered video stream up.
GiveUp(o) ==
    /\ o \in delivered /\ media[o] = "video"
    /\ delivered' = delivered \ {o}
    /\ holder' = [holder EXCEPT ![owner[o].stream] = Nobody]
    /\ UNCHANGED <<status, callback, canceled, owner, at, sent, entries, media, endpoint, failure, userCall>>

\* The caller deallocates an audio stream it received, and may do so twice at
\* once; a call that StartRelease refuses does nothing.
UserStarts(o, c) ==
    /\ userCall[o][c] = "Idle" /\ media[o] = "audio"
    /\ o \in delivered \/ \E d \in Calls : userCall[o][d] # "Idle"
    /\ CanRelease(endpoint[o], owner[o].stream)
    /\ StartRelease(endpoint[o])
    /\ userCall' = [userCall EXCEPT ![o][c] = "Send"]
    /\ delivered' = delivered \ {o}
    /\ UNCHANGED <<status, callback, canceled, owner, at, holder, sent, media, endpoint, failure>>

UserSends(o, c) ==
    /\ userCall[o][c] = "Send"
    /\ \/ /\ holder' = [holder EXCEPT ![owner[o].stream] = Nobody]
          /\ userCall' = [userCall EXCEPT ![o][c] = "Released"]
       \/ /\ holder' \in {holder, [holder EXCEPT ![owner[o].stream] = Nobody]}
          /\ userCall' = [userCall EXCEPT ![o][c] = "Failed"]
    /\ UNCHANGED <<status, callback, canceled, owner, at, delivered, sent, entries, media, endpoint, failure>>

UserFinishes(o, c) ==
    /\ userCall[o][c] \in {"Released", "Failed"}
    /\ ReleaseFinished(endpoint[o], userCall[o][c] = "Released")
    /\ userCall' = [userCall EXCEPT ![o][c] = "Idle"]
    /\ UNCHANGED <<status, callback, canceled, owner, at, holder, delivered, sent, media, endpoint, failure>>

-----------------------------------------------------------------------------
(* Specification.                                                           *)

TableUnchanged == UNCHANGED <<entries, media, endpoint, failure, userCall>>

Run(o) ==
    \/ (CallbackFlag(o) \/ Cancel(o) \/ RecordStream(o) \/ Complete(o) \/ BackgroundEnds(o)) /\ TableUnchanged
    \/ Prepare(o) \/ Dispatch(o) \/ CommitStream(o) \/ CheckCanceled(o) \/ Readback(o)
    \/ ResultFails(o) \/ InnerCatch(o) \/ OuterCatch(o)
    \/ \E a \in Actors :
         \/ CallRelease(o, a) \/ CallAudioRelease(o, a) \/ SendRelease(o, a) \/ FinishRelease(o, a)
         \/ (EnterRelease(o, a) \/ StoreRelease(o, a) \/ AwaitRelease(o, a)) /\ TableUnchanged

Next ==
    \E o \in Ops :
        \/ CancelAsync(o) /\ TableUnchanged
        \/ Run(o) \/ GiveUp(o)
        \/ \E c \in Calls : UserStarts(o, c) \/ UserSends(o, c) \/ UserFinishes(o, c)

Spec == Init /\ [][Next]_streamVars

TypeOK ==
    /\ OwnerTypeOK
    /\ entries \in [Endpoints -> Entry]
    /\ media \in [Ops -> {"video", "audio"}]
    /\ endpoint \in [Ops -> Endpoints]
    /\ failure \in [Ops -> {"none", "known", "uncertain"}]
    /\ EntryCount <= MaxEntries

-----------------------------------------------------------------------------
(* Properties.                                                              *)

\* The stream of an operation that succeeded is on the camera with nobody left to release
\* it, and for audio it is the one the table owns for its endpoint, until its caller gives
\* it up: no other operation's failure, cancellation or release reaches it.
DeliveredIsOwned ==
    /\ DeliveredIsHeld
    /\ \A o \in delivered : media[o] = "audio" =>
           entries[endpoint[o]] = [state |-> "Owned", stream |-> owner[o].stream]

\* An entry that is Releasing has exactly one release in progress, that of a canceled or
\* failed allocation or that of a caller; an entry that is not has none.  And the table
\* keeps to its size, whatever stays in it.
OneReleasePerEntry ==
    /\ EntryCount <= MaxEntries
    /\ \A e \in Endpoints :
            LET own == {r \in Ops \X Actors :
                           /\ media[r[1]] = "audio" /\ endpoint[r[1]] = e
                           /\ at[r[1]][r[2]] \in {"SendRelease", "FinishReleased", "FinishFailed"}}
                users == {u \in Ops \X Calls : endpoint[u[1]] = e /\ userCall[u[1]][u[2]] # "Idle"}
            IN  Cardinality(own) + Cardinality(users) = (IF entries[e].state = "Releasing" THEN 1 ELSE 0)

\* The table never forgets an audio stream this controller left allocated on a camera: once an
\* operation is quiet without having been delivered, a stream the camera still holds for
\* it keeps the endpoint blocked.
RemoteIsAccounted ==
    \A o \in Ops, s \in Streams :
        (media[o] = "audio" /\ holder[s] = o /\ Quiet(o)) => entries[endpoint[o]].state # "Absent"

-----------------------------------------------------------------------------
(* Refinement.                                                              *)

Custody == INSTANCE ResourceCustody WITH
            Resources <- Streams,
            asked <- {o \in Ops : at[o]["worker"] \notin {"Prepare", "Dispatch"}},
            outcome <- [o \in Ops |-> Outcome(o)]

\* Workers, cancellation callbacks, releasers, catch blocks and the ownership table implement
\* the custody of a stream: whatever falls together, only its operation gives it back until
\* it is delivered, and only its caller afterwards.
ImplementsCustody == Custody!Spec
=============================================================================
