----------------------- MODULE StreamAllocation_proofs -----------------------
(***************************************************************************)
(* Proofs about StreamAllocation for any number of allocations, streams,    *)
(* endpoints and calls of a caller, and any bound of the ownership table.   *)
(*                                                                          *)
(* The camera reuses identifiers and the table knows endpoints, not         *)
(* operations.  The inductive invariant ties the three together: how far    *)
(* each operation has come and which of its two releasers is at work        *)
(* (StageInv), for whom the camera holds which identifier (HoldInv), and    *)
(* whose an owned or releasing entry is (OwnedInv, ReleasersInv).           *)
(***************************************************************************)
EXTENDS StreamAllocation, FiniteSetTheorems, TLAPS

Unrecorded == {"Prepare", "Dispatch", "Commit", "Record"}
Recorded == {"CheckFirst", "Readback", "CheckLast", "Deliver"}
Sending == {"SendRelease", "FinishReleased", "FinishFailed"}
Releasing == {"CallRelease", "ReleaseSent", "ReleaseFailed"} \cup Sending
Positions ==
    Unrecorded \cup Recorded \cup Releasing \cup {"Release", "AwaitRelease", "OuterCatch"} \cup Ends

\* No release of the operation's stream is left to make.
Over(o) == owner[o].stream = NoStream \/ owner[o].release = "finished"
\* The caller received the stream and has given it up, or is giving it up.
GivenUp(o) == status[o] = "Completed" /\ o \notin delivered

TypeInv ==
    /\ OwnerTypeOK
    /\ at \in [Ops -> [Actors -> Positions]]
    /\ entries \in [Endpoints -> Entry]
    /\ media \in [Ops -> {"video", "audio"}]
    /\ endpoint \in [Ops -> Endpoints]
    /\ failure \in [Ops -> {"none", "known", "uncertain"}]
    /\ userCall \in [Ops -> [Calls -> {"Idle", "Send", "Released", "Failed"}]]

\* The table is finite and within its bound.
Occupied == {e \in Endpoints : entries[e].state # "Absent"}
SizeInv == IsFiniteSet(Occupied) /\ Cardinality(Occupied) <= MaxEntries

\* How far the operation has come, and who of its two releasers is at work.
CancelInv(o) ==
    /\ status[o] = "Canceled" <=> callback[o] # "Idle"
    /\ owner[o].canceled <=> callback[o] = "Done"
    /\ at[o]["background"] # "Idle" => owner[o].canceled
    /\ owner[o].canceled /\ at[o]["background"] = "Idle" => owner[o].stream = NoStream

ReleaseInv(o) ==
    /\ owner[o].release = "none" => sent[o] = 0
    /\ owner[o].release = "started" =>
         owner[o].stream # NoStream /\ \E a \in Actors : at[o][a] \in Releasing
    /\ owner[o].release = "finished" /\ ~owner[o].failure => owner[o].stream = NoStream
    /\ \A a \in Actors :
         /\ at[o][a] \in Releasing =>
              owner[o].release = "started" /\ \A b \in Actors : at[o][b] \in Releasing => b = a
         /\ at[o][a] \in {"CallRelease", "SendRelease"} => sent[o] = 0
         /\ at[o][a] = "AwaitRelease" => owner[o].release # "none"
         /\ at[o][a] \in {"Returned", "Rethrown"} => Over(o)
    /\ sent[o] <= 1

WorkInv(o) ==
    /\ at[o]["worker"] \in Unrecorded =>
         owner[o].stream = NoStream /\ owner[o].release = "none" /\ at[o]["background"] = "Idle"
    /\ at[o]["worker"] \in Recorded /\ at[o]["background"] = "Idle" =>
         owner[o].stream # NoStream /\ owner[o].release = "none"
    /\ at[o]["worker"] = "Commit" => media[o] = "audio"
    /\ at[o]["worker"] = "OuterCatch" => Over(o)
    /\ at[o]["background"] \notin Unrecorded \cup Recorded \cup {"OuterCatch"}
    /\ at[o]["background"] = "Done" => Over(o)
    /\ status[o] = "Error" => at[o]["worker"] = "Done" /\ Over(o)
    /\ status[o] = "Completed" =>
         /\ at[o]["worker"] = "Done" /\ at[o]["background"] = "Idle"
         /\ owner[o].stream # NoStream /\ owner[o].release = "none"
    /\ o \in delivered => status[o] = "Completed"

StageInv == \A o \in Ops : CancelInv(o) /\ ReleaseInv(o) /\ WorkInv(o)

\* Whose the identifiers of the camera are: a stream that nobody has sent a release for is
\* still its operation's, although identifiers are reused.
HoldInv ==
    /\ \A o \in Ops, s, t \in Streams : holder[s] = o /\ holder[t] = o => s = t
    /\ \A o \in Ops, s \in Streams : at[o]["worker"] \in {"Prepare", "Dispatch"} => holder[s] # o
    /\ \A o \in Ops : owner[o].stream # NoStream /\ sent[o] = 0 /\ ~GivenUp(o) =>
           holder[owner[o].stream] = o
    /\ \A o \in Ops, c \in Calls : userCall[o][c] = "Send" => holder[owner[o].stream] = o

\* What the table's entries say of the operations on their endpoints.
OwnedInv ==
    /\ \A o \in Ops, s \in Streams :
         media[o] = "audio" /\ at[o]["worker"] = "Record" /\ holder[s] = o =>
           entries[endpoint[o]] = [state |-> "Owned", stream |-> s]
    /\ \A o \in Ops :
         media[o] = "audio" /\ owner[o].stream # NoStream /\ owner[o].release = "none" /\ ~GivenUp(o) =>
           entries[endpoint[o]] = [state |-> "Owned", stream |-> owner[o].stream]

\* The releases in progress on an endpoint, those of operations and those of callers.
ReleasersInv ==
    /\ \A o \in Ops, a \in Actors : at[o][a] \in Sending =>
         media[o] = "audio" /\ entries[endpoint[o]].state = "Releasing"
    /\ \A o \in Ops, c \in Calls : userCall[o][c] # "Idle" =>
         GivenUp(o) /\ entries[endpoint[o]].state = "Releasing"
    /\ \A o, p \in Ops, a, b \in Actors :
         at[o][a] \in Sending /\ at[p][b] \in Sending /\ endpoint[o] = endpoint[p] => o = p /\ a = b
    /\ \A o, p \in Ops, c, d \in Calls :
         userCall[o][c] # "Idle" /\ userCall[p][d] # "Idle" /\ endpoint[o] = endpoint[p] => o = p /\ c = d
    /\ \A o, p \in Ops, a \in Actors, c \in Calls :
         at[o][a] \in Sending /\ userCall[p][c] # "Idle" => endpoint[o] # endpoint[p]
    /\ \A e \in Endpoints : entries[e].state = "Releasing" =>
         \/ \E o \in Ops, a \in Actors : endpoint[o] = e /\ at[o][a] \in Sending
         \/ \E o \in Ops, c \in Calls : endpoint[o] = e /\ userCall[o][c] # "Idle"

IInv == TypeInv /\ SizeInv /\ StageInv /\ HoldInv /\ OwnedInv /\ ReleasersInv

\* What is not a program counter or the table.
OthersTyped ==
    /\ status \in [Ops -> {"Started", "Canceled", "Completed", "Error"}]
    /\ callback \in [Ops -> {"Idle", "Flag", "Owner", "Done"}]
    /\ canceled \in [Ops -> BOOLEAN]
    /\ owner \in [Ops -> OwnerType]
    /\ holder \in [Streams -> Ops \cup {Nobody}]
    /\ delivered \subseteq Ops
    /\ sent \in [Ops -> 0 .. 2]
    /\ media \in [Ops -> {"video", "audio"}]
    /\ endpoint \in [Ops -> Endpoints]
    /\ failure \in [Ops -> {"none", "known", "uncertain"}]
    /\ userCall \in [Ops -> [Calls -> {"Idle", "Send", "Released", "Failed"}]]

\* The steps of an operation, by who takes them.
ActorStep(o, a) ==
    \/ CallRelease(o, a) \/ CallAudioRelease(o, a) \/ SendRelease(o, a) \/ FinishRelease(o, a)
    \/ (EnterRelease(o, a) \/ StoreRelease(o, a) \/ AwaitRelease(o, a)) /\ TableUnchanged
CallerStep(o, c) == UserStarts(o, c) \/ UserSends(o, c) \/ UserFinishes(o, c)
Step(o) ==
    \/ (CancelAsync(o) \/ CallbackFlag(o) \/ Cancel(o) \/ RecordStream(o) \/ Complete(o) \/ BackgroundEnds(o))
       /\ TableUnchanged
    \/ Prepare(o) \/ Dispatch(o) \/ CommitStream(o) \/ CheckCanceled(o) \/ Readback(o)
    \/ ResultFails(o) \/ InnerCatch(o) \/ OuterCatch(o) \/ GiveUp(o)
    \/ \E a \in Actors : ActorStep(o, a)
    \/ \E c \in Calls : CallerStep(o, c)

\* A step is one of one operation's.
LEMMA StepCases == [Next]_streamVars => UNCHANGED streamVars \/ \E o \in Ops : Step(o)
  BY DEF Next, Run, Step, ActorStep, CallerStep

USE DEF Actors

\* A program counter that moves keeps its type.
LEMMA GotoType ==
    ASSUME at \in [Ops -> [Actors -> Positions]], NEW o \in Ops, NEW a \in Actors, NEW step \in Positions,
           Goto(o, a, step)
    PROVE  at' \in [Ops -> [Actors -> Positions]]
  BY DEF Goto

\* The methods of PendingCameraRelease keep the object's type: Record sets its stream,
LEMMA RecordTyped ==
    ASSUME owner \in [Ops -> OwnerType], NEW o \in Ops, NEW s \in Streams,
           owner' = [owner EXCEPT ![o].stream = s]
    PROVE  owner' \in [Ops -> OwnerType]
  BY DEF OwnerType

\* Release starts it,
LEMMA EnterTyped ==
    ASSUME owner \in [Ops -> OwnerType], NEW o \in Ops, owner' = [owner EXCEPT ![o].release = "started"]
    PROVE  owner' \in [Ops -> OwnerType]
  BY DEF OwnerType

\* Cancel marks it,
LEMMA CancelTyped ==
    ASSUME owner \in [Ops -> OwnerType], NEW o \in Ops, owner' = [owner EXCEPT ![o].canceled = TRUE]
    PROVE  owner' \in [Ops -> OwnerType]
  BY DEF OwnerType

\* and the outcome of the release is stored in it.
LEMMA StoreTyped ==
    ASSUME owner \in [Ops -> OwnerType], NEW o \in Ops, NEW failed \in BOOLEAN,
           owner' = [owner EXCEPT ![o].release = "finished", ![o].failure = failed,
                                  ![o].stream = IF failed THEN @ ELSE NoStream]
    PROVE  owner' \in [Ops -> OwnerType]
  BY ZenonT(60) DEF OwnerType

\* A caller's call that moves keeps its type.
LEMMA CallType ==
    ASSUME userCall \in [Ops -> [Calls -> {"Idle", "Send", "Released", "Failed"}]], NEW o \in Ops,
           NEW c \in Calls,
           NEW step \in {"Idle", "Send", "Released", "Failed"}, userCall' = [userCall EXCEPT ![o][c] = step]
    PROVE  userCall' \in [Ops -> [Calls -> {"Idle", "Send", "Released", "Failed"}]]
  OBVIOUS

\* A worker that fails leaves the status and what it knows of the failure well typed.
LEMMA FailureTyped ==
    ASSUME OthersTyped, NEW o \in Ops
    PROVE  /\ Throw(o) => status' \in [Ops -> {"Started", "Canceled", "Completed", "Error"}]
           /\ \A kind \in {"known", "uncertain"} : Fail(o, kind) =>
                /\ failure' \in [Ops -> {"none", "known", "uncertain"}]
                /\ status' \in [Ops -> {"Started", "Canceled", "Completed", "Error"}]
<1>1. Throw(o) => status' \in [Ops -> {"Started", "Canceled", "Completed", "Error"}]
  BY DEF Throw, OthersTyped
<1> QED BY <1>1 DEF Fail, OthersTyped

\* Program counters keep their type.
LEMMA CountersTyped ==
    ASSUME at \in [Ops -> [Actors -> Positions]], [Next]_streamVars
    PROVE  at' \in [Ops -> [Actors -> Positions]]
<1> USE GotoType DEF Positions, Unrecorded, Recorded, Sending, Releasing, Ends
<1>1. CASE UNCHANGED streamVars
  BY <1>1 DEF streamVars, vars
<1>2. ASSUME NEW o \in Ops, Step(o)
      PROVE  at' \in [Ops -> [Actors -> Positions]]
  <2>1. CASE CancelAsync(o) /\ TableUnchanged
    BY <2>1 DEF CancelAsync, TableUnchanged, vars
  <2>2. CASE CallbackFlag(o) /\ TableUnchanged
    BY <2>2 DEF CallbackFlag, TableUnchanged
  <2>3. CASE Cancel(o) /\ TableUnchanged
    BY <2>3 DEF Cancel, TableUnchanged
  <2>4. CASE RecordStream(o) /\ TableUnchanged
    <3>1. at' = [at EXCEPT ![o] = [at[o] EXCEPT
                    !["worker"] = "CheckFirst",
                    !["background"] = IF owner[o].canceled THEN "Release" ELSE at[o]["background"]]]
      BY <2>4 DEF RecordStream, Record
    <3>2. at[o] \in [Actors -> Positions] /\ {"CheckFirst", "Release"} \subseteq Positions
      OBVIOUS
    <3> QED BY <3>1, <3>2
  <2>5. CASE Complete(o) /\ TableUnchanged
    BY <2>5 DEF Complete, TableUnchanged
  <2>6. CASE BackgroundEnds(o) /\ TableUnchanged
    BY <2>6 DEF BackgroundEnds, TableUnchanged
  <2>7. CASE Prepare(o)
    BY <2>7 DEF Prepare, Throw
  <2>8. CASE Dispatch(o)
    BY <2>8 DEF Dispatch, Fail, Throw, Kinds
  <2>9. CASE CommitStream(o)
    BY <2>9 DEF CommitStream, Fail, Throw
  <2>10. CASE CheckCanceled(o)
    BY <2>10 DEF CheckCanceled
  <2>11. CASE Readback(o)
    BY <2>11 DEF Readback, Kinds
  <2>12. CASE ResultFails(o)
    BY <2>12 DEF ResultFails
  <2>13. CASE InnerCatch(o)
    BY <2>13 DEF InnerCatch, Fail, Throw, Kinds
  <2>14. CASE OuterCatch(o)
    BY <2>14 DEF OuterCatch, Throw
  <2>15. CASE GiveUp(o)
    BY <2>15 DEF GiveUp
  <2>16. ASSUME NEW a \in Actors, ActorStep(o, a)
        PROVE  at' \in [Ops -> [Actors -> Positions]]
    <3>1. CASE CallRelease(o, a)
      BY <3>1 DEF CallRelease, ReleaseCommand
    <3>2. CASE CallAudioRelease(o, a)
      BY <3>2 DEF CallAudioRelease, CanRelease
    <3>3. CASE SendRelease(o, a)
      BY <3>3 DEF SendRelease
    <3>4. CASE FinishRelease(o, a)
      BY <3>4 DEF FinishRelease
    <3>5. CASE EnterRelease(o, a) /\ TableUnchanged
      BY <3>5 DEF EnterRelease, TableUnchanged
    <3>6. CASE StoreRelease(o, a) /\ TableUnchanged
      BY <3>6 DEF StoreRelease, TableUnchanged
    <3>7. CASE AwaitRelease(o, a) /\ TableUnchanged
      BY <3>7 DEF AwaitRelease, TableUnchanged
    <3> QED BY <2>16, <3>1, <3>2, <3>3, <3>4, <3>5, <3>6, <3>7 DEF ActorStep
  <2>17. ASSUME NEW c \in Calls, CallerStep(o, c)
        PROVE  at' \in [Ops -> [Actors -> Positions]]
    <3>1. CASE UserStarts(o, c)
      BY <3>1 DEF UserStarts, CanRelease
    <3>2. CASE UserSends(o, c)
      BY <3>2 DEF UserSends
    <3>3. CASE UserFinishes(o, c)
      BY <3>3 DEF UserFinishes
    <3> QED BY <2>17, <3>1, <3>2, <3>3 DEF CallerStep
  <2> QED BY <1>2, <2>1, <2>2, <2>3, <2>4, <2>5, <2>6, <2>7, <2>8, <2>9, <2>10, <2>11, <2>12, <2>13,
             <2>14, <2>15, <2>16, <2>17 DEF Step
<1> QED BY <1>1, <1>2, StepCases

\* The other variables keep their types.
LEMMA OthersStayTyped ==
    ASSUME OthersTyped, StageInv, [Next]_streamVars
    PROVE  OthersTyped'
<1> USE DEF OthersTyped
<1>1. CASE UNCHANGED streamVars
  BY <1>1 DEF streamVars, vars
<1>2. ASSUME NEW o \in Ops, Step(o)
      PROVE  OthersTyped'
  <2>1. CASE CancelAsync(o) /\ TableUnchanged
    BY <2>1 DEF CancelAsync, TableUnchanged, vars
  <2>2. CASE CallbackFlag(o) /\ TableUnchanged
    BY <2>2 DEF CallbackFlag, TableUnchanged
  <2>3. CASE Cancel(o) /\ TableUnchanged
    <3>1. owner' \in [Ops -> OwnerType]
      BY <2>3, CancelTyped DEF Cancel
    <3> QED BY <2>3, <3>1 DEF Cancel, TableUnchanged
  <2>4. CASE RecordStream(o) /\ TableUnchanged
    <3>1. PICK s \in Streams : owner' = [owner EXCEPT ![o].stream = s]
      BY <2>4 DEF RecordStream, Record
    <3>2. owner' \in [Ops -> OwnerType]
      BY <3>1, RecordTyped
    <3> QED BY <2>4, <3>2 DEF RecordStream, Record, TableUnchanged
  <2>5. CASE Complete(o) /\ TableUnchanged
    <3>1. /\ status' = status \/ status' = [status EXCEPT ![o] = "Completed"]
          /\ delivered' = delivered \/ delivered' = delivered \cup {o}
      BY <2>5 DEF Complete
    <3>2. UNCHANGED <<callback, canceled, owner, holder, sent, media, endpoint, failure, userCall>>
      BY <2>5 DEF Complete, TableUnchanged
    <3> QED BY <3>1, <3>2
  <2>6. CASE BackgroundEnds(o) /\ TableUnchanged
    BY <2>6 DEF BackgroundEnds, TableUnchanged
  <2>7. CASE Prepare(o)
    BY <2>7 DEF Prepare, Throw
  <2>8. CASE Dispatch(o)
    <3>1. status' \in [Ops -> {"Started", "Canceled", "Completed", "Error"}]
              /\ failure' \in [Ops -> {"none", "known", "uncertain"}]
      BY <2>8, FailureTyped DEF Dispatch, Kinds
    <3>2. holder' \in [Streams -> Ops \cup {Nobody}]
      BY <2>8 DEF Dispatch
    <3> QED BY <2>8, <3>1, <3>2 DEF Dispatch
  <2>9. CASE CommitStream(o)
    <3>1. status' \in [Ops -> {"Started", "Canceled", "Completed", "Error"}]
              /\ failure' \in [Ops -> {"none", "known", "uncertain"}]
      BY <2>9, FailureTyped DEF CommitStream
    <3> QED BY <2>9, <3>1 DEF CommitStream
  <2>10. CASE CheckCanceled(o)
    BY <2>10 DEF CheckCanceled
  <2>11. CASE Readback(o)
    BY <2>11 DEF Readback, Kinds
  <2>12. CASE ResultFails(o)
    BY <2>12 DEF ResultFails
  <2>13. CASE InnerCatch(o)
    <3>1. status' \in [Ops -> {"Started", "Canceled", "Completed", "Error"}]
              /\ failure' \in [Ops -> {"none", "known", "uncertain"}]
      BY <2>13, FailureTyped DEF InnerCatch, Kinds
    <3> QED BY <2>13, <3>1 DEF InnerCatch
  <2>14. CASE OuterCatch(o)
    BY <2>14 DEF OuterCatch, Throw
  <2>15. CASE GiveUp(o)
    BY <2>15 DEF GiveUp
  <2>16. ASSUME NEW a \in Actors, ActorStep(o, a)
        PROVE  OthersTyped'
    <3>1. CASE CallRelease(o, a)
      <4>1. sent' \in [Ops -> 0 .. 2]
        BY <3>1 DEF CallRelease, ReleaseCommand, StageInv, ReleaseInv
      <4>2. holder' \in [Streams -> Ops \cup {Nobody}]
        BY <3>1 DEF CallRelease, ReleaseCommand
      <4> QED BY <3>1, <4>1, <4>2 DEF CallRelease, ReleaseCommand
    <3>2. CASE CallAudioRelease(o, a)
      BY <3>2 DEF CallAudioRelease, CanRelease
    <3>3. CASE SendRelease(o, a)
      <4>1. sent' \in [Ops -> 0 .. 2]
        BY <3>3 DEF SendRelease, StageInv, ReleaseInv
      <4>2. holder' \in [Streams -> Ops \cup {Nobody}]
        BY <3>3 DEF SendRelease
      <4> QED BY <3>3, <4>1, <4>2 DEF SendRelease
    <3>4. CASE FinishRelease(o, a)
      BY <3>4 DEF FinishRelease
    <3>5. CASE EnterRelease(o, a) /\ TableUnchanged
      <4>1. owner' \in [Ops -> OwnerType]
        BY <3>5, EnterTyped DEF EnterRelease
      <4> QED BY <3>5, <4>1 DEF EnterRelease, TableUnchanged
    <3>6. CASE StoreRelease(o, a) /\ TableUnchanged
      <4>1. owner' \in [Ops -> OwnerType]
        BY <3>6, StoreTyped DEF StoreRelease
      <4> QED BY <3>6, <4>1 DEF StoreRelease, TableUnchanged
    <3>7. CASE AwaitRelease(o, a) /\ TableUnchanged
      BY <3>7 DEF AwaitRelease, TableUnchanged
    <3> QED BY <2>16, <3>1, <3>2, <3>3, <3>4, <3>5, <3>6, <3>7 DEF ActorStep
  <2>17. ASSUME NEW c \in Calls, CallerStep(o, c)
        PROVE  OthersTyped'
    <3>1. CASE UserStarts(o, c)
      BY <3>1 DEF UserStarts, CanRelease
    <3>2. CASE UserSends(o, c)
      <4>1. holder' \in [Streams -> Ops \cup {Nobody}]
        BY <3>2 DEF UserSends
      <4>2. userCall' \in [Ops -> [Calls -> {"Idle", "Send", "Released", "Failed"}]]
        BY <3>2, CallType DEF UserSends
      <4> QED BY <3>2, <4>1, <4>2 DEF UserSends
    <3>3. CASE UserFinishes(o, c)
      BY <3>3 DEF UserFinishes
    <3> QED BY <2>17, <3>1, <3>2, <3>3 DEF CallerStep
  <2> QED BY <1>2, <2>1, <2>2, <2>3, <2>4, <2>5, <2>6, <2>7, <2>8, <2>9, <2>10, <2>11, <2>12, <2>13,
             <2>14, <2>15, <2>16, <2>17 DEF Step
<1> QED BY <1>1, <1>2, StepCases

USE DEF Unrecorded, Recorded, Sending, Releasing, Positions, Ends, OwnerType, Goto

\* What the methods of the table do to the entry of their endpoint, and to no other: Reserve
\* takes an absent entry,
LEMMA ReserveIs ==
    ASSUME entries \in [Endpoints -> Entry], NEW e \in Endpoints, Reserve(e)
    PROVE  /\ entries' \in [Endpoints -> Entry]
           /\ entries[e].state = "Absent" /\ entries'[e] = [state |-> "Pending", stream |-> NoStream]
           /\ \A f \in Endpoints : f # e => entries'[f] = entries[f]
  BY DEF Reserve, Entry, States

\* Commit gives the entry its stream,
LEMMA CommitIs ==
    ASSUME entries \in [Endpoints -> Entry], NEW e \in Endpoints, NEW s \in Streams, Commit(e, s)
    PROVE  /\ entries' \in [Endpoints -> Entry]
           /\ entries'[e] = [state |-> "Owned", stream |-> s]
           /\ \A f \in Endpoints : f # e => entries'[f] = entries[f]
  BY DEF Commit, Entry, States

\* AllocationFailed only changes an entry that is pending,
LEMMA AllocationFailedIs ==
    ASSUME entries \in [Endpoints -> Entry], NEW e \in Endpoints, NEW known \in BOOLEAN,
           AllocationFailed(e, known)
    PROVE  /\ entries' \in [Endpoints -> Entry]
           /\ \/ entries' = entries
              \/ entries[e].state = "Pending" /\ entries'[e].state \in {"Absent", "Uncertain"}
           /\ \A f \in Endpoints : f # e => entries'[f] = entries[f]
<1>1. CASE entries[e].state # "Pending"
  BY <1>1 DEF AllocationFailed
<1>2. CASE entries[e].state = "Pending" /\ known
  BY <1>2 DEF AllocationFailed, Absent, Entry, States
<1>3. CASE entries[e].state = "Pending" /\ ~known
  <2>1. entries' = [entries EXCEPT ![e].state = "Uncertain"] /\ entries[e] \in Entry
    BY <1>3 DEF AllocationFailed
  <2> QED BY <1>3, <2>1 DEF Entry, States
<1> QED BY <1>1, <1>2, <1>3

\* StartRelease finds the entry owned with the stream it is called for,
LEMMA StartReleaseIs ==
    ASSUME entries \in [Endpoints -> Entry], NEW e \in Endpoints, NEW s, CanRelease(e, s), StartRelease(e)
    PROVE  /\ entries' \in [Endpoints -> Entry]
           /\ entries[e] = [state |-> "Owned", stream |-> s] /\ entries'[e].state = "Releasing"
           /\ \A f \in Endpoints : f # e => entries'[f] = entries[f]
<1>1. entries' = [entries EXCEPT ![e].state = "Releasing"] /\ entries[e] \in Entry
  BY DEF StartRelease
<1> QED BY <1>1 DEF CanRelease, Entry, States

\* and ReleaseFinished leaves it neither owned nor in release.
LEMMA ReleaseFinishedIs ==
    ASSUME entries \in [Endpoints -> Entry], NEW e \in Endpoints, NEW known \in BOOLEAN,
           ReleaseFinished(e, known)
    PROVE  /\ entries' \in [Endpoints -> Entry]
           /\ entries'[e].state \in {"Absent", "Uncertain"}
           /\ \A f \in Endpoints : f # e => entries'[f] = entries[f]
<1>1. CASE known
  BY <1>1 DEF ReleaseFinished, Absent, Entry, States
<1>2. CASE ~known
  <2>1. entries' = [entries EXCEPT ![e] = [entries[e] EXCEPT !.state = "Uncertain"]] /\ entries[e] \in Entry
    BY <1>2 DEF ReleaseFinished
  <2> QED BY <2>1 DEF Entry, States
<1> QED BY <1>1, <1>2

\* The steps that call a method of the table.
LEMMA TableTouched ==
    ASSUME NEW o \in Ops, Step(o)
    PROVE  \/ UNCHANGED entries
           \/ Reserve(endpoint[o])
           \/ CanCommit(endpoint[o]) /\ \E s \in Streams : Commit(endpoint[o], s)
           \/ CanRelease(endpoint[o], owner[o].stream) /\ StartRelease(endpoint[o])
           \/ \E known \in BOOLEAN : AllocationFailed(endpoint[o], known)
           \/ \E a \in Actors, known \in BOOLEAN :
                at[o][a] \in Sending /\ ReleaseFinished(endpoint[o], known)
           \/ \E c \in Calls, known \in BOOLEAN :
                userCall[o][c] # "Idle" /\ ReleaseFinished(endpoint[o], known)
<1>1. CASE Prepare(o)
  BY <1>1 DEF Prepare
<1>2. CASE CommitStream(o)
  BY <1>2 DEF CommitStream
<1>3. CASE OuterCatch(o)
  <2>1. \E known \in BOOLEAN : AllocationFailed(endpoint[o], known)
    BY <1>3, Zenon DEF OuterCatch
  <2> QED BY <2>1
<1>4. ASSUME NEW a \in Actors, ActorStep(o, a)
      PROVE  \/ UNCHANGED entries
             \/ CanRelease(endpoint[o], owner[o].stream) /\ StartRelease(endpoint[o])
             \/ \E known \in BOOLEAN : at[o][a] \in Sending /\ ReleaseFinished(endpoint[o], known)
  <2>1. CASE FinishRelease(o, a)
    <3>1. \E known \in BOOLEAN : ReleaseFinished(endpoint[o], known)
      BY <2>1, Zenon DEF FinishRelease
    <3> QED BY <2>1, <3>1 DEF FinishRelease, Sending
  <2>2. CASE CallAudioRelease(o, a)
    BY <2>2 DEF CallAudioRelease
  <2> QED BY <1>4, <2>1, <2>2 DEF ActorStep, CallRelease, SendRelease, TableUnchanged
<1>5. ASSUME NEW c \in Calls, CallerStep(o, c)
      PROVE  \/ UNCHANGED entries
             \/ CanRelease(endpoint[o], owner[o].stream) /\ StartRelease(endpoint[o])
             \/ \E known \in BOOLEAN : userCall[o][c] # "Idle" /\ ReleaseFinished(endpoint[o], known)
  <2>1. CASE UserFinishes(o, c)
    <3>1. \E known \in BOOLEAN : ReleaseFinished(endpoint[o], known)
      BY <2>1, Zenon DEF UserFinishes
    <3> QED BY <2>1, <3>1 DEF UserFinishes
  <2> QED BY <1>5, <2>1 DEF CallerStep, UserStarts, UserSends
<1>6. CASE ~(Prepare(o) \/ CommitStream(o) \/ OuterCatch(o))
  <2>1. CASE \E a \in Actors : ActorStep(o, a)
    BY <1>4, <2>1
  <2>2. CASE \E c \in Calls : CallerStep(o, c)
    BY <1>5, <2>2
  <2>3. CASE ~(\E a \in Actors : ActorStep(o, a)) /\ ~(\E c \in Calls : CallerStep(o, c))
    BY <1>6, <2>3 DEF Step, TableUnchanged, Dispatch, CheckCanceled, Readback, ResultFails, InnerCatch,
       GiveUp
  <2> QED BY <2>1, <2>2, <2>3
<1> QED BY <1>1, <1>2, <1>3, <1>6

\* The table's entries keep their type.
LEMMA EntriesTyped ==
    ASSUME entries \in [Endpoints -> Entry], endpoint \in [Ops -> Endpoints], [Next]_streamVars
    PROVE  entries' \in [Endpoints -> Entry]
<1>1. CASE UNCHANGED streamVars
  BY <1>1 DEF streamVars
<1>2. ASSUME NEW o \in Ops, Step(o) PROVE entries' \in [Endpoints -> Entry]
  <2>1. endpoint[o] \in Endpoints
    OBVIOUS
  <2> QED BY <1>2, <2>1, TableTouched, ReserveIs, CommitIs, AllocationFailedIs, StartReleaseIs,
             ReleaseFinishedIs
<1> QED BY <1>1, <1>2, StepCases

\* The stages of the other operations are left alone.
Elsewhere(o) ==
    \A p \in Ops : p # o =>
        /\ at'[p] = at[p] /\ owner'[p] = owner[p] /\ status'[p] = status[p] /\ callback'[p] = callback[p]
        /\ sent'[p] = sent[p] /\ media'[p] = media[p] /\ (p \in delivered' <=> p \in delivered)

\* A worker that moves among the steps outside Release leaves the release as it is.
LEMMA WorkerElsewhere ==
    ASSUME NEW o \in Ops, ReleaseInv(o), UNCHANGED <<owner, sent>>,
           at'[o]["background"] = at[o]["background"], at[o]["worker"] \notin Releasing,
           at'[o]["worker"] \notin Releasing \cup {"AwaitRelease", "Returned", "Rethrown"}
    PROVE  ReleaseInv(o)'
<1>1. \A a \in Actors : at'[o][a] \in Releasing => a = "background" /\ at'[o][a] = at[o][a]
  BY DEF Actors
<1>2. owner'[o].release = "started" =>
        owner'[o].stream # NoStream /\ \E a \in Actors : at'[o][a] \in Releasing
  BY DEF ReleaseInv, Actors
<1> QED BY <1>1, <1>2 DEF ReleaseInv, Over, Actors, Releasing, Sending

\* A step of one operation need only be looked at for that operation.
LEMMA StageOfOne ==
    ASSUME StageInv, NEW o \in Ops, Elsewhere(o), CancelInv(o)', ReleaseInv(o)', WorkInv(o)'
    PROVE  StageInv'
  BY DEF StageInv, Elsewhere, CancelInv, ReleaseInv, WorkInv, Over

\* Every step keeps how far its operation has come, and who of its two releasers is at work.
LEMMA StageStep ==
    ASSUME TypeInv, StageInv, [Next]_streamVars
    PROVE  StageInv'
<1>1. CASE UNCHANGED streamVars
  BY <1>1 DEF TypeInv, OwnerTypeOK, StageInv, CancelInv, ReleaseInv, WorkInv, Over, streamVars, vars
<1>2. ASSUME NEW o \in Ops, Step(o)
      PROVE  StageInv'
  <2>1. CASE CancelAsync(o) /\ TableUnchanged
    BY <2>1 DEF CancelAsync, TableUnchanged, vars, TypeInv, OwnerTypeOK, StageInv, CancelInv, ReleaseInv,
       WorkInv, Over
  <2>2. CASE CallbackFlag(o) /\ TableUnchanged
    BY <2>2 DEF CallbackFlag, TableUnchanged, TypeInv, OwnerTypeOK, StageInv, CancelInv, ReleaseInv,
       WorkInv, Over
  <2>3. CASE Cancel(o) /\ TableUnchanged
    BY <2>3 DEF Cancel, TableUnchanged, TypeInv, OwnerTypeOK, StageInv, CancelInv, ReleaseInv, WorkInv, Over
  <2>4. CASE RecordStream(o) /\ TableUnchanged
    <3>1. Elsewhere(o)
      BY <2>4 DEF RecordStream, Record, TableUnchanged, Elsewhere, TypeInv, OwnerTypeOK, Goto
    <3>0. /\ at[o]["worker"] = "Record" /\ at[o]["background"] = "Idle" /\ at'[o]["worker"] = "CheckFirst"
          /\ at'[o]["background"] = IF owner[o].canceled THEN "Release" ELSE at[o]["background"]
          /\ owner'[o].stream # NoStream /\ owner'[o].release = "none"
      BY <2>4, StreamAssumption DEF RecordStream, Record, TypeInv, OwnerTypeOK, StageInv, WorkInv
    <3>2. CancelInv(o)'
      BY <2>4, <3>0 DEF RecordStream, Record, TableUnchanged, TypeInv, OwnerTypeOK, StageInv, CancelInv,
         ReleaseInv, WorkInv, Over
    <3>3. ReleaseInv(o)'
      BY <2>4, <3>0 DEF RecordStream, Record, TableUnchanged, TypeInv, OwnerTypeOK, StageInv, CancelInv,
         ReleaseInv, WorkInv, Over
    <3>4. WorkInv(o)'
      BY <2>4, <3>0 DEF RecordStream, Record, TableUnchanged, TypeInv, OwnerTypeOK, StageInv, CancelInv,
         ReleaseInv, WorkInv, Over
    <3> QED BY <3>1, <3>2, <3>3, <3>4, StageOfOne
  <2>5. CASE Complete(o) /\ TableUnchanged
    BY <2>5 DEF Complete, TableUnchanged, TypeInv, OwnerTypeOK, StageInv, CancelInv, ReleaseInv, WorkInv,
       Over
  <2>6. CASE BackgroundEnds(o) /\ TableUnchanged
    BY <2>6 DEF BackgroundEnds, TableUnchanged, TypeInv, OwnerTypeOK, StageInv, CancelInv, ReleaseInv,
       WorkInv, Over
  <2>7. CASE Prepare(o)
    <3>1. Elsewhere(o)
      BY <2>7 DEF Prepare, Throw, Elsewhere, TypeInv, OwnerTypeOK, Goto
    <3>2. CancelInv(o)'
      BY <2>7 DEF Prepare, Throw, TypeInv, OwnerTypeOK, StageInv, CancelInv, ReleaseInv, WorkInv, Over
    <3>3. ReleaseInv(o)'
      BY <2>7 DEF Prepare, Throw, TypeInv, OwnerTypeOK, StageInv, CancelInv, ReleaseInv, WorkInv, Over
    <3>4. WorkInv(o)'
      BY <2>7 DEF Prepare, Throw, TypeInv, OwnerTypeOK, StageInv, CancelInv, ReleaseInv, WorkInv, Over
    <3> QED BY <3>1, <3>2, <3>3, <3>4, StageOfOne
  <2>8. CASE Dispatch(o)
    <3>1. Elsewhere(o)
      BY <2>8 DEF Dispatch, Fail, Throw, Kinds, Elsewhere, TypeInv, OwnerTypeOK, Goto
    <3>2. CancelInv(o)'
      BY <2>8 DEF Dispatch, Fail, Throw, Kinds, TypeInv, OwnerTypeOK, StageInv, CancelInv, ReleaseInv,
         WorkInv, Over
    <3>3. ReleaseInv(o)'
      BY <2>8 DEF Dispatch, Fail, Throw, Kinds, TypeInv, OwnerTypeOK, StageInv, CancelInv, ReleaseInv,
         WorkInv, Over
    <3>4. WorkInv(o)'
      BY <2>8 DEF Dispatch, Fail, Throw, Kinds, TypeInv, OwnerTypeOK, StageInv, CancelInv, ReleaseInv,
         WorkInv, Over
    <3> QED BY <3>1, <3>2, <3>3, <3>4, StageOfOne
  <2>9. CASE CommitStream(o)
    <3>1. Elsewhere(o)
      BY <2>9 DEF CommitStream, Fail, Throw, Elsewhere, TypeInv, OwnerTypeOK, Goto
    <3>2. CancelInv(o)'
      BY <2>9 DEF CommitStream, Fail, Throw, TypeInv, OwnerTypeOK, StageInv, CancelInv, ReleaseInv,
         WorkInv, Over
    <3>3. ReleaseInv(o)'
      BY <2>9 DEF CommitStream, Fail, Throw, TypeInv, OwnerTypeOK, StageInv, CancelInv, ReleaseInv,
         WorkInv, Over
    <3>4. WorkInv(o)'
      BY <2>9 DEF CommitStream, Fail, Throw, TypeInv, OwnerTypeOK, StageInv, CancelInv, ReleaseInv,
         WorkInv, Over
    <3> QED BY <3>1, <3>2, <3>3, <3>4, StageOfOne
  <2>10. CASE CheckCanceled(o)
    <3>1. Elsewhere(o)
      BY <2>10 DEF CheckCanceled, Elsewhere, TypeInv, OwnerTypeOK, Goto
    <3>0. /\ at[o]["worker"] \in Recorded /\ at'[o]["worker"] \in {"Release", "Readback", "Deliver"}
          /\ at'[o]["background"] = at[o]["background"]
                 /\ UNCHANGED <<owner, sent, status, delivered, callback, media>>
      BY <2>10 DEF CheckCanceled, TypeInv
    <3>2. CancelInv(o)'
      BY <2>10, <3>0 DEF CheckCanceled, TypeInv, OwnerTypeOK, StageInv, CancelInv, ReleaseInv, WorkInv, Over
    <3>3. ReleaseInv(o)'
      BY <3>0, WorkerElsewhere DEF StageInv
    <3>4. WorkInv(o)'
      BY <2>10, <3>0 DEF CheckCanceled, TypeInv, OwnerTypeOK, StageInv, CancelInv, ReleaseInv, WorkInv, Over
    <3> QED BY <3>1, <3>2, <3>3, <3>4, StageOfOne
  <2>11. CASE Readback(o)
    <3>1. Elsewhere(o)
      BY <2>11 DEF Readback, Kinds, Elsewhere, TypeInv, OwnerTypeOK, Goto
    <3>0. /\ at[o]["worker"] \in Recorded /\ at'[o]["worker"] \in {"Release", "CheckLast"}
          /\ at'[o]["background"] = at[o]["background"]
                 /\ UNCHANGED <<owner, sent, status, delivered, callback, media>>
      BY <2>11 DEF Readback, TypeInv
    <3>2. CancelInv(o)'
      BY <2>11, <3>0 DEF Readback, Kinds, TypeInv, OwnerTypeOK, StageInv, CancelInv, ReleaseInv, WorkInv,
         Over
    <3>3. ReleaseInv(o)'
      BY <3>0, WorkerElsewhere DEF StageInv
    <3>4. WorkInv(o)'
      BY <2>11, <3>0 DEF Readback, Kinds, TypeInv, OwnerTypeOK, StageInv, CancelInv, ReleaseInv, WorkInv,
         Over
    <3> QED BY <3>1, <3>2, <3>3, <3>4, StageOfOne
  <2>12. CASE ResultFails(o)
    BY <2>12 DEF ResultFails, TypeInv, OwnerTypeOK, StageInv, CancelInv, ReleaseInv, WorkInv, Over
  <2>13. CASE InnerCatch(o)
    <3>1. Elsewhere(o)
      BY <2>13 DEF InnerCatch, Fail, Throw, Kinds, Elsewhere, TypeInv, OwnerTypeOK, Goto
    <3>2. CancelInv(o)'
      BY <2>13 DEF InnerCatch, Fail, Throw, Kinds, TypeInv, OwnerTypeOK, StageInv, CancelInv, ReleaseInv,
         WorkInv, Over
    <3>3. ReleaseInv(o)'
      BY <2>13 DEF InnerCatch, Fail, Throw, Kinds, TypeInv, OwnerTypeOK, StageInv, CancelInv, ReleaseInv,
         WorkInv, Over
    <3>4. WorkInv(o)'
      BY <2>13 DEF InnerCatch, Fail, Throw, Kinds, TypeInv, OwnerTypeOK, StageInv, CancelInv, ReleaseInv,
         WorkInv, Over
    <3> QED BY <3>1, <3>2, <3>3, <3>4, StageOfOne
  <2>14. CASE OuterCatch(o)
    BY <2>14 DEF OuterCatch, Throw, TypeInv, OwnerTypeOK, StageInv, CancelInv, ReleaseInv, WorkInv, Over
  <2>15. CASE GiveUp(o)
    BY <2>15 DEF GiveUp, TypeInv, OwnerTypeOK, StageInv, CancelInv, ReleaseInv, WorkInv, Over
  <2>16. ASSUME NEW a \in Actors, ActorStep(o, a)
        PROVE  StageInv'
    <3>1. CASE CallRelease(o, a)
      BY <3>1 DEF CallRelease, ReleaseCommand, TypeInv, OwnerTypeOK, StageInv, CancelInv, ReleaseInv,
         WorkInv, Over
    <3>2. CASE CallAudioRelease(o, a)
      <4>1. Elsewhere(o)
        BY <3>2 DEF CallAudioRelease, Elsewhere, TypeInv, OwnerTypeOK, Goto
      <4>2. CancelInv(o)'
        BY <3>2 DEF CallAudioRelease, TypeInv, OwnerTypeOK, StageInv, CancelInv, ReleaseInv, WorkInv, Over
      <4>3. ReleaseInv(o)'
        BY <3>2 DEF CallAudioRelease, TypeInv, OwnerTypeOK, StageInv, CancelInv, ReleaseInv, WorkInv, Over
      <4>4. WorkInv(o)'
        BY <3>2 DEF CallAudioRelease, TypeInv, OwnerTypeOK, StageInv, CancelInv, ReleaseInv, WorkInv, Over
      <4> QED BY <4>1, <4>2, <4>3, <4>4, StageOfOne
    <3>3. CASE SendRelease(o, a)
      BY <3>3 DEF SendRelease, TypeInv, OwnerTypeOK, StageInv, CancelInv, ReleaseInv, WorkInv, Over
    <3>4. CASE FinishRelease(o, a)
      BY <3>4 DEF FinishRelease, TypeInv, OwnerTypeOK, StageInv, CancelInv, ReleaseInv, WorkInv, Over
    <3>5. CASE EnterRelease(o, a) /\ TableUnchanged
      <4>1. Elsewhere(o)
        BY <3>5 DEF EnterRelease, TableUnchanged, Elsewhere, TypeInv, OwnerTypeOK, Goto
      <4>5. \E step \in {"AwaitRelease", "Returned", "CallRelease"} : Goto(o, a, step)
        BY <3>5 DEF EnterRelease
      <4>6. owner' = owner \/ owner' = [owner EXCEPT ![o].release = "started"]
        BY <3>5 DEF EnterRelease
      <4>7. owner'[o].canceled = owner[o].canceled /\ owner'[o].stream = owner[o].stream
                /\ owner'[o].failure = owner[o].failure
        BY <4>6 DEF TypeInv, OwnerTypeOK
      <4>8. /\ at[o][a] = "Release" /\ at'[o][a] \in {"AwaitRelease", "Returned", "CallRelease"}
            /\ \A b \in Actors : b # a => at'[o][b] = at[o][b]
        BY <3>5, <4>5 DEF EnterRelease, TypeInv
      <4>0. UNCHANGED <<status, callback, sent, delivered, media>>
        BY <3>5 DEF EnterRelease, TableUnchanged
      <4>2. CancelInv(o)'
        BY <3>5, <4>0, <4>7, <4>8 DEF EnterRelease, TableUnchanged, TypeInv, OwnerTypeOK, StageInv,
           CancelInv, ReleaseInv, WorkInv, Over
      <4>3. ReleaseInv(o)'
        <5>1. CASE owner[o].release # "none"
          <6>1. UNCHANGED owner /\ at'[o][a] = "AwaitRelease"
            BY <3>5, <5>1 DEF EnterRelease, TypeInv
          <6> QED BY <4>0, <4>7, <4>8, <5>1, <6>1 DEF StageInv, ReleaseInv, Over
        <5>2. CASE owner[o].release = "none" /\ owner[o].stream = NoStream
          <6>1. UNCHANGED owner /\ at'[o][a] = "Returned"
            BY <3>5, <5>2 DEF EnterRelease, TypeInv
          <6> QED BY <4>0, <4>7, <4>8, <5>2, <6>1 DEF StageInv, ReleaseInv, Over
        <5>3. CASE owner[o].release = "none" /\ owner[o].stream # NoStream
          BY <3>5, <4>0, <4>7, <4>8, <5>3 DEF EnterRelease, TypeInv, OwnerTypeOK, StageInv, ReleaseInv, Over
        <5> QED BY <5>1, <5>2, <5>3
      <4>4. WorkInv(o)'
        BY <3>5, <4>0, <4>7, <4>8 DEF EnterRelease, TableUnchanged, TypeInv, OwnerTypeOK, StageInv,
           CancelInv, ReleaseInv, WorkInv, Over
      <4> QED BY <4>1, <4>2, <4>3, <4>4, StageOfOne
    <3>6. CASE StoreRelease(o, a) /\ TableUnchanged
      <4>1. Elsewhere(o)
        BY <3>6 DEF StoreRelease, TableUnchanged, Elsewhere, TypeInv, OwnerTypeOK
      <4>o. owner \in [Ops -> OwnerType] /\ owner[o] \in OwnerType
        BY DEF TypeInv, OwnerTypeOK
      <4>2. /\ owner'[o].release = "finished" /\ owner'[o].failure = (at[o][a] = "ReleaseFailed")
            /\ owner'[o].stream = (IF at[o][a] = "ReleaseFailed" THEN owner[o].stream ELSE NoStream)
            /\ owner'[o].canceled = owner[o].canceled
        BY <3>6, <4>o DEF StoreRelease
      <4>3. /\ at[o][a] \in {"ReleaseSent", "ReleaseFailed"} /\ at'[o][a] \in {"Returned", "Rethrown"}
            /\ \A b \in Actors : b # a => at'[o][b] = at[o][b]
            /\ UNCHANGED <<status, callback, delivered, sent, media>>
        BY <3>6 DEF StoreRelease, TableUnchanged, TypeInv
      <4>4. CancelInv(o) /\ ReleaseInv(o) /\ WorkInv(o)
        BY DEF StageInv
      <4>5. CancelInv(o)'
        BY <4>2, <4>3, <4>4 DEF CancelInv, ReleaseInv
      <4>6. ReleaseInv(o)'
        <5>1. \A b \in Actors : at'[o][b] \notin Releasing
          BY <4>3, <4>4 DEF ReleaseInv
        <5> QED BY <4>2, <4>3, <4>4, <5>1 DEF ReleaseInv, Over
      <4>7. WorkInv(o)'
        BY <4>2, <4>3, <4>4 DEF WorkInv, ReleaseInv, Over
      <4> QED BY <4>1, <4>5, <4>6, <4>7, StageOfOne
    <3>7. CASE AwaitRelease(o, a) /\ TableUnchanged
      BY <3>7 DEF AwaitRelease, TableUnchanged, TypeInv, OwnerTypeOK, StageInv, CancelInv, ReleaseInv,
         WorkInv, Over
    <3> QED BY <2>16, <3>1, <3>2, <3>3, <3>4, <3>5, <3>6, <3>7 DEF ActorStep
  <2>17. ASSUME NEW c \in Calls, CallerStep(o, c)
        PROVE  StageInv'
    <3>1. CASE UserStarts(o, c)
      BY <3>1 DEF UserStarts, CanRelease, TypeInv, OwnerTypeOK, StageInv, CancelInv, ReleaseInv, WorkInv,
         Over
    <3>2. CASE UserSends(o, c)
      BY <3>2 DEF UserSends, TypeInv, OwnerTypeOK, StageInv, CancelInv, ReleaseInv, WorkInv, Over
    <3>3. CASE UserFinishes(o, c)
      BY <3>3 DEF UserFinishes, TypeInv, OwnerTypeOK, StageInv, CancelInv, ReleaseInv, WorkInv, Over
    <3> QED BY <2>17, <3>1, <3>2, <3>3 DEF CallerStep
  <2> QED BY <1>2, <2>1, <2>2, <2>3, <2>4, <2>5, <2>6, <2>7, <2>8, <2>9, <2>10, <2>11, <2>12, <2>13,
             <2>14, <2>15, <2>16, <2>17 DEF Step
<1> QED BY <1>1, <1>2, StepCases

\* A change of an entry that is not absent keeps the table's size, or makes it smaller.
LEMMA SizeKept ==
    ASSUME SizeInv, NEW e \in Endpoints, entries[e].state # "Absent",
           \A f \in Endpoints : f # e => entries'[f] = entries[f]
    PROVE  SizeInv'
<1>1. Occupied' \subseteq Occupied
  BY DEF Occupied
<1>2. IsFiniteSet(Occupied') /\ Cardinality(Occupied') <= Cardinality(Occupied)
  BY <1>1, FS_Subset DEF SizeInv
<1>3. Cardinality(Occupied) \in Nat /\ Cardinality(Occupied') \in Nat
  BY <1>2, FS_CardinalityType DEF SizeInv
<1> QED BY <1>2, <1>3, EntriesAssumption DEF SizeInv

\* A reservation finds room.
LEMMA SizeReserved ==
    ASSUME SizeInv, NEW e \in Endpoints, entries \in [Endpoints -> Entry], Reserve(e)
    PROVE  SizeInv'
<1>1. Occupied' \subseteq Occupied \cup {e}
  BY ReserveIs DEF Occupied
<1>2. IsFiniteSet(Occupied \cup {e}) /\ Cardinality(Occupied \cup {e}) <= Cardinality(Occupied) + 1
  BY FS_AddElement, FS_CardinalityType DEF SizeInv
<1>3. IsFiniteSet(Occupied') /\ Cardinality(Occupied') <= Cardinality(Occupied \cup {e})
  BY <1>1, <1>2, FS_Subset
<1>4. Cardinality(Occupied) < MaxEntries
  BY DEF Reserve, EntryCount, Occupied
<1>5. /\ Cardinality(Occupied) \in Nat /\ Cardinality(Occupied') \in Nat
      /\ Cardinality(Occupied \cup {e}) \in Nat
  BY <1>2, <1>3, FS_CardinalityType DEF SizeInv
<1> QED BY <1>2, <1>3, <1>4, <1>5, EntriesAssumption DEF SizeInv

\* The table stays finite and within its bound.
LEMMA SizeStep ==
    ASSUME TypeInv, SizeInv, ReleasersInv, [Next]_streamVars
    PROVE  SizeInv'
<1>1. CASE UNCHANGED entries
  BY <1>1 DEF SizeInv, Occupied
<1>2. ASSUME NEW o \in Ops, Step(o), ~UNCHANGED entries PROVE SizeInv'
  <2>1. endpoint[o] \in Endpoints /\ entries \in [Endpoints -> Entry]
    BY DEF TypeInv
  <2>2. CASE Reserve(endpoint[o])
    BY <2>1, <2>2, SizeReserved
  <2>3. CASE CanCommit(endpoint[o]) /\ \E s \in Streams : Commit(endpoint[o], s)
    BY <2>1, <2>3, CommitIs, SizeKept DEF CanCommit
  <2>4. CASE CanRelease(endpoint[o], owner[o].stream) /\ StartRelease(endpoint[o])
    BY <2>1, <2>4, StartReleaseIs, SizeKept DEF CanRelease
  <2>5. CASE \E known \in BOOLEAN : AllocationFailed(endpoint[o], known)
    BY <1>2, <2>1, <2>5, AllocationFailedIs, SizeKept
  <2>6. CASE entries[endpoint[o]].state = "Releasing"
            /\ \E known \in BOOLEAN : ReleaseFinished(endpoint[o], known)
    BY <2>1, <2>6, ReleaseFinishedIs, SizeKept
  <2> QED BY <1>2, <2>2, <2>3, <2>4, <2>5, <2>6, TableTouched DEF ReleasersInv
<1> QED BY <1>1, <1>2, StepCases DEF streamVars

\* A step that frees and allocates no identifier keeps every stream with its operation.
LEMMA HoldKept ==
    ASSUME HoldInv, UNCHANGED <<holder, userCall, sent, delivered>>,
           \A p \in Ops :
             /\ owner'[p].stream = owner[p].stream
             /\ status'[p] = "Completed" <=> status[p] = "Completed"
             /\ at'[p]["worker"] \in {"Prepare", "Dispatch"} => at[p]["worker"] \in {"Prepare", "Dispatch"}
    PROVE  HoldInv'
  BY DEF HoldInv, GivenUp

\* So does one that frees the identifier of an operation that is over with it.
LEMMA HoldFreed ==
    ASSUME TypeInv, StageInv, HoldInv, ReleasersInv, NEW o \in Ops, NEW s \in Streams, holder[s] = o,
           holder' = holder \/ holder' = [holder EXCEPT ![s] = Nobody],
           UNCHANGED <<owner, status>>,
           \A p \in Ops :
             at'[p]["worker"] \in {"Prepare", "Dispatch"} => at[p]["worker"] \in {"Prepare", "Dispatch"},
           \A p \in Ops : p # o =>
             sent'[p] = sent[p] /\ userCall'[p] = userCall[p] /\ (p \in delivered' <=> p \in delivered),
           sent'[o] # 0 \/ GivenUp(o)',
           \A c \in Calls : userCall'[o][c] # "Send"
    PROVE  HoldInv'
<1>1. \A t \in Streams, p \in Ops : holder'[t] = p => holder[t] = p
  BY NobodyAssumption DEF TypeInv, OwnerTypeOK
<1>2. \A t \in Streams, p \in Ops : p # o /\ holder[t] = p => holder'[t] = p
  BY DEF TypeInv, OwnerTypeOK
<1>3. \A p \in Ops : owner[p].stream \in Streams \cup {NoStream}
  BY DEF TypeInv, OwnerTypeOK, OwnerType
<1>4. \A p \in Ops : owner'[p].stream # NoStream /\ sent'[p] = 0 /\ ~GivenUp(p)' =>
          holder'[owner'[p].stream] = p
  BY <1>2, <1>3 DEF HoldInv, GivenUp
<1>5. \A p \in Ops, c \in Calls : userCall'[p][c] = "Send" =>
          owner[p].stream \in Streams /\ holder'[owner'[p].stream] = p
  BY <1>2, <1>3 DEF HoldInv, ReleasersInv, GivenUp, StageInv, WorkInv
<1> QED BY <1>1, <1>4, <1>5 DEF HoldInv

\* No worker goes back to asking for a stream.
LEMMA GotoLater ==
    ASSUME TypeInv, NEW o \in Ops, NEW a \in Actors, NEW step \in Positions \ {"Prepare", "Dispatch"},
           Goto(o, a, step)
    PROVE  \A p \in Ops : at'[p]["worker"] \in {"Prepare", "Dispatch"} =>
               at[p]["worker"] \in {"Prepare", "Dispatch"}
<1>1. \A p \in Ops : p # o => at'[p] = at[p]
  BY DEF TypeInv, Goto
<1>2. at'[o]["worker"] = IF a = "worker" THEN step ELSE at[o]["worker"]
  BY DEF TypeInv, Goto, Actors
<1> QED BY <1>1, <1>2

\* Every step keeps each stream that nobody has sent a release for with its operation.
LEMMA HoldStep ==
    ASSUME TypeInv, StageInv, HoldInv, ReleasersInv, [Next]_streamVars
    PROVE  HoldInv'
<1>1. CASE UNCHANGED streamVars
  BY <1>1 DEF TypeInv, OwnerTypeOK, StageInv, CancelInv, ReleaseInv, WorkInv, Over, HoldInv, GivenUp,
     ReleasersInv, streamVars, vars
<1>2. ASSUME NEW o \in Ops, Step(o)
      PROVE  HoldInv'
  <2>1. CASE CancelAsync(o) /\ TableUnchanged
    BY <2>1 DEF CancelAsync, TableUnchanged, vars, TypeInv, OwnerTypeOK, StageInv, CancelInv, ReleaseInv,
       WorkInv, Over, HoldInv, GivenUp, ReleasersInv
  <2>2. CASE CallbackFlag(o) /\ TableUnchanged
    BY <2>2 DEF CallbackFlag, TableUnchanged, TypeInv, OwnerTypeOK, StageInv, CancelInv, ReleaseInv,
       WorkInv, Over, HoldInv, GivenUp, ReleasersInv
  <2>3. CASE Cancel(o) /\ TableUnchanged
    <3>1. UNCHANGED <<holder, userCall, sent, delivered>>
      BY <2>3 DEF Cancel, TableUnchanged
    <3>2. UNCHANGED at \/ Goto(o, "background", "Release")
      BY <2>3 DEF Cancel, TableUnchanged
    <3>3. \A p \in Ops : owner'[p].stream = owner[p].stream
              /\ (status'[p] = "Completed" <=> status[p] = "Completed")
      BY <2>3 DEF Cancel, TableUnchanged, TypeInv, OwnerTypeOK
    <3> QED BY <3>1, <3>2, <3>3, GotoLater, HoldKept
  <2>4. CASE RecordStream(o) /\ TableUnchanged
    BY <2>4 DEF RecordStream, Record, TableUnchanged, TypeInv, OwnerTypeOK, StageInv, CancelInv,
       ReleaseInv, WorkInv, Over, HoldInv, GivenUp, ReleasersInv
  <2>5. CASE Complete(o) /\ TableUnchanged
    BY <2>5 DEF Complete, TableUnchanged, TypeInv, OwnerTypeOK, StageInv, CancelInv, ReleaseInv, WorkInv,
       Over, HoldInv, GivenUp, ReleasersInv
  <2>6. CASE BackgroundEnds(o) /\ TableUnchanged
    BY <2>6 DEF BackgroundEnds, TableUnchanged, TypeInv, OwnerTypeOK, StageInv, CancelInv, ReleaseInv,
       WorkInv, Over, HoldInv, GivenUp, ReleasersInv
  <2>7. CASE Prepare(o)
    BY <2>7 DEF Prepare, Throw, TypeInv, OwnerTypeOK, StageInv, CancelInv, ReleaseInv, WorkInv, Over,
       HoldInv, GivenUp, ReleasersInv
  <2>8. CASE Dispatch(o)
    <3>1. owner[o].stream = NoStream /\ status[o] # "Completed"
      BY <2>8 DEF Dispatch, StageInv, WorkInv
    <3>2. UNCHANGED <<owner, userCall, sent, delivered>> /\ at[o]["worker"] = "Dispatch"
      BY <2>8 DEF Dispatch
    <3>3. /\ at'[o]["worker"] \notin {"Prepare", "Dispatch"} /\ status'[o] # "Completed"
          /\ \A p \in Ops : p # o => at'[p] = at[p] /\ status'[p] = status[p]
      BY <2>8, <3>1 DEF Dispatch, Fail, Throw, TypeInv, OwnerTypeOK
    <3>4. holder' = holder \/ \E s \in Streams : holder[s] = Nobody /\ holder' = [holder EXCEPT ![s] = o]
      BY <2>8 DEF Dispatch
    <3>5. CASE holder' = holder
      BY <3>1, <3>2, <3>3, <3>5 DEF HoldInv, GivenUp
    <3>6. ASSUME NEW s \in Streams, holder[s] = Nobody, holder' = [holder EXCEPT ![s] = o] PROVE HoldInv'
      <4>1. \A t \in Streams : holder'[t] = IF t = s THEN o ELSE holder[t]
        BY <3>6 DEF TypeInv, OwnerTypeOK
      <4>2. \A t \in Streams : holder[t] # o
        BY <3>2 DEF HoldInv
      <4>3. \A p \in Ops : owner[p].stream \in Streams \cup {NoStream}
        BY DEF TypeInv, OwnerTypeOK, OwnerType
      <4>4. \A p \in Ops : owner'[p].stream # NoStream /\ sent'[p] = 0 /\ ~GivenUp(p)' =>
                holder'[owner'[p].stream] = p
        BY <3>1, <3>2, <3>3, <3>6, <4>1, <4>3, NobodyAssumption DEF HoldInv, GivenUp
      <4>5. \A p \in Ops, c \in Calls : userCall'[p][c] = "Send" => holder'[owner'[p].stream] = p
        BY <3>1, <3>2, <3>6, <4>1, <4>3, NobodyAssumption DEF HoldInv, ReleasersInv, GivenUp, StageInv,
           WorkInv
      <4> QED BY <3>2, <3>3, <4>1, <4>2, <4>4, <4>5 DEF HoldInv
    <3> QED BY <3>4, <3>5, <3>6
  <2>9. CASE CommitStream(o)
    <3>1. UNCHANGED <<holder, userCall, sent, delivered>>
      BY <2>9 DEF CommitStream, Fail, Throw
    <3>2. \E step \in Positions \ {"Prepare", "Dispatch"} : Goto(o, "worker", step)
      BY <2>9 DEF CommitStream, Fail, Throw
    <3>3. \A p \in Ops : owner'[p].stream = owner[p].stream
              /\ (status'[p] = "Completed" <=> status[p] = "Completed")
      BY <2>9 DEF CommitStream, Fail, Throw, TypeInv, OwnerTypeOK
    <3> QED BY <3>1, <3>2, <3>3, GotoLater, HoldKept
  <2>10. CASE CheckCanceled(o)
    <3>1. UNCHANGED <<holder, userCall, sent, delivered>>
      BY <2>10 DEF CheckCanceled
    <3>2. \E step \in Positions \ {"Prepare", "Dispatch"} : Goto(o, "worker", step)
      BY <2>10 DEF CheckCanceled
    <3>3. \A p \in Ops : owner'[p].stream = owner[p].stream
              /\ (status'[p] = "Completed" <=> status[p] = "Completed")
      BY <2>10 DEF CheckCanceled, TypeInv, OwnerTypeOK
    <3> QED BY <3>1, <3>2, <3>3, GotoLater, HoldKept
  <2>11. CASE Readback(o)
    <3>1. UNCHANGED <<holder, userCall, sent, delivered>>
      BY <2>11 DEF Readback
    <3>2. \E step \in Positions \ {"Prepare", "Dispatch"} : Goto(o, "worker", step)
      BY <2>11 DEF Readback
    <3>3. \A p \in Ops : owner'[p].stream = owner[p].stream
              /\ (status'[p] = "Completed" <=> status[p] = "Completed")
      BY <2>11 DEF Readback, TypeInv, OwnerTypeOK
    <3> QED BY <3>1, <3>2, <3>3, GotoLater, HoldKept
  <2>12. CASE ResultFails(o)
    BY <2>12 DEF ResultFails, TypeInv, OwnerTypeOK, StageInv, CancelInv, ReleaseInv, WorkInv, Over,
       HoldInv, GivenUp, ReleasersInv
  <2>13. CASE InnerCatch(o)
    <3>1. UNCHANGED <<holder, userCall, sent, delivered>>
      BY <2>13 DEF InnerCatch, Fail, Throw
    <3>2. \E step \in Positions \ {"Prepare", "Dispatch"} : Goto(o, "worker", step)
      BY <2>13 DEF InnerCatch, Fail, Throw
    <3>3. \A p \in Ops : owner'[p].stream = owner[p].stream
              /\ (status'[p] = "Completed" <=> status[p] = "Completed")
      BY <2>13 DEF InnerCatch, Fail, Throw, TypeInv, OwnerTypeOK
    <3> QED BY <3>1, <3>2, <3>3, GotoLater, HoldKept
  <2>14. CASE OuterCatch(o)
    BY <2>14 DEF OuterCatch, Throw, TypeInv, OwnerTypeOK, StageInv, CancelInv, ReleaseInv, WorkInv, Over,
       HoldInv, GivenUp, ReleasersInv
  <2>15. CASE GiveUp(o)
    <3>1. status[o] = "Completed" /\ owner[o].stream # NoStream /\ sent[o] = 0
      BY <2>15 DEF GiveUp, StageInv, ReleaseInv, WorkInv
    <3>2. owner[o].stream \in Streams /\ holder[owner[o].stream] = o
      BY <2>15, <3>1 DEF GiveUp, TypeInv, OwnerTypeOK, OwnerType, HoldInv, GivenUp
    <3>3. /\ holder' = holder \/ holder' = [holder EXCEPT ![owner[o].stream] = Nobody]
          /\ UNCHANGED <<owner, status>>
      BY <2>15 DEF GiveUp
    <3>4. \A p \in Ops :
             at'[p]["worker"] \in {"Prepare", "Dispatch"} => at[p]["worker"] \in {"Prepare", "Dispatch"}
      BY <2>15, GotoLater DEF GiveUp
    <3>5. \A p \in Ops : p # o =>
             sent'[p] = sent[p] /\ userCall'[p] = userCall[p] /\ (p \in delivered' <=> p \in delivered)
      BY <2>15 DEF GiveUp, TypeInv, OwnerTypeOK
    <3>6. sent'[o] # 0 \/ GivenUp(o)'
      BY <2>15, <3>1 DEF GiveUp, TypeInv, OwnerTypeOK, GivenUp, StageInv, ReleaseInv, WorkInv, ReleasersInv
    <3>7. \A b \in Calls : userCall'[o][b] # "Send"
      BY <2>15, <3>1 DEF GiveUp, TypeInv, GivenUp, ReleasersInv
    <3> QED BY <3>2, <3>3, <3>4, <3>5, <3>6, <3>7, HoldFreed
  <2>16. ASSUME NEW a \in Actors, ActorStep(o, a)
        PROVE  HoldInv'
    <3>1. CASE CallRelease(o, a)
      <4>1. owner[o].release = "started" /\ sent[o] = 0 /\ status[o] # "Completed"
                /\ owner[o].stream # NoStream
        BY <3>1 DEF CallRelease, ReleaseCommand, StageInv, ReleaseInv, WorkInv
      <4>2. owner[o].stream \in Streams /\ holder[owner[o].stream] = o
        BY <4>1 DEF TypeInv, OwnerTypeOK, OwnerType, HoldInv, GivenUp
      <4>3. /\ holder' = holder \/ holder' = [holder EXCEPT ![owner[o].stream] = Nobody]
            /\ UNCHANGED <<owner, status>>
        BY <3>1 DEF CallRelease, ReleaseCommand
      <4>4. \A p \in Ops :
               at'[p]["worker"] \in {"Prepare", "Dispatch"} => at[p]["worker"] \in {"Prepare", "Dispatch"}
        BY <3>1, GotoLater DEF CallRelease, ReleaseCommand
      <4>5. \A p \in Ops : p # o =>
               sent'[p] = sent[p] /\ userCall'[p] = userCall[p] /\ (p \in delivered' <=> p \in delivered)
        BY <3>1 DEF CallRelease, ReleaseCommand, TypeInv, OwnerTypeOK
      <4>6. sent'[o] # 0 \/ GivenUp(o)'
        BY <3>1, <4>1 DEF CallRelease, ReleaseCommand, TypeInv, OwnerTypeOK, GivenUp, StageInv,
           ReleaseInv, WorkInv, ReleasersInv
      <4>7. \A b \in Calls : userCall'[o][b] # "Send"
        BY <3>1, <4>1 DEF CallRelease, ReleaseCommand, TypeInv, GivenUp, ReleasersInv
      <4> QED BY <4>2, <4>3, <4>4, <4>5, <4>6, <4>7, HoldFreed
    <3>2. CASE CallAudioRelease(o, a)
      <4>1. UNCHANGED <<holder, userCall, sent, delivered>>
        BY <3>2 DEF CallAudioRelease
      <4>2. \E step \in Positions \ {"Prepare", "Dispatch"} : Goto(o, a, step)
        BY <3>2 DEF CallAudioRelease
      <4>3. \A p \in Ops : owner'[p].stream = owner[p].stream
                /\ (status'[p] = "Completed" <=> status[p] = "Completed")
        BY <3>2 DEF CallAudioRelease, TypeInv, OwnerTypeOK
      <4> QED BY <4>1, <4>2, <4>3, GotoLater, HoldKept
    <3>3. CASE SendRelease(o, a)
      <4>1. owner[o].release = "started" /\ sent[o] = 0 /\ status[o] # "Completed"
                /\ owner[o].stream # NoStream
        BY <3>3 DEF SendRelease, StageInv, ReleaseInv, WorkInv
      <4>2. owner[o].stream \in Streams /\ holder[owner[o].stream] = o
        BY <4>1 DEF TypeInv, OwnerTypeOK, OwnerType, HoldInv, GivenUp
      <4>3. /\ holder' = holder \/ holder' = [holder EXCEPT ![owner[o].stream] = Nobody]
            /\ UNCHANGED <<owner, status>>
        BY <3>3 DEF SendRelease
      <4>4. \A p \in Ops :
               at'[p]["worker"] \in {"Prepare", "Dispatch"} => at[p]["worker"] \in {"Prepare", "Dispatch"}
        BY <3>3, GotoLater DEF SendRelease
      <4>5. \A p \in Ops : p # o =>
               sent'[p] = sent[p] /\ userCall'[p] = userCall[p] /\ (p \in delivered' <=> p \in delivered)
        BY <3>3 DEF SendRelease, TypeInv, OwnerTypeOK
      <4>6. sent'[o] # 0 \/ GivenUp(o)'
        BY <3>3, <4>1 DEF SendRelease, TypeInv, OwnerTypeOK, GivenUp, StageInv, ReleaseInv, WorkInv,
           ReleasersInv
      <4>7. \A b \in Calls : userCall'[o][b] # "Send"
        BY <3>3, <4>1 DEF SendRelease, TypeInv, GivenUp, ReleasersInv
      <4> QED BY <4>2, <4>3, <4>4, <4>5, <4>6, <4>7, HoldFreed
    <3>4. CASE FinishRelease(o, a)
      BY <3>4 DEF FinishRelease, TypeInv, OwnerTypeOK, StageInv, CancelInv, ReleaseInv, WorkInv, Over,
         HoldInv, GivenUp, ReleasersInv
    <3>5. CASE EnterRelease(o, a) /\ TableUnchanged
      <4>1. UNCHANGED <<holder, userCall, sent, delivered>>
        BY <3>5 DEF EnterRelease, TableUnchanged
      <4>2. \E step \in Positions \ {"Prepare", "Dispatch"} : Goto(o, a, step)
        BY <3>5 DEF EnterRelease, TableUnchanged
      <4>3. UNCHANGED status /\ (owner' = owner \/ owner' = [owner EXCEPT ![o].release = "started"])
        BY <3>5 DEF EnterRelease
      <4>4. \A p \in Ops : owner'[p].stream = owner[p].stream
        <5>1. CASE owner' = owner
          BY <5>1
        <5>2. CASE owner' = [owner EXCEPT ![o].release = "started"]
          BY <5>2 DEF TypeInv, OwnerTypeOK
        <5> QED BY <4>3, <5>1, <5>2
      <4>5. \A p \in Ops : owner'[p].stream = owner[p].stream
                /\ (status'[p] = "Completed" <=> status[p] = "Completed")
        BY <4>3, <4>4
      <4> QED BY <4>1, <4>2, <4>3, <4>5, GotoLater, HoldKept
    <3>6. CASE StoreRelease(o, a) /\ TableUnchanged
      BY <3>6 DEF StoreRelease, TableUnchanged, TypeInv, OwnerTypeOK, StageInv, CancelInv, ReleaseInv,
         WorkInv, Over, HoldInv, GivenUp, ReleasersInv
    <3>7. CASE AwaitRelease(o, a) /\ TableUnchanged
      BY <3>7 DEF AwaitRelease, TableUnchanged, TypeInv, OwnerTypeOK, StageInv, CancelInv, ReleaseInv,
         WorkInv, Over, HoldInv, GivenUp, ReleasersInv
    <3> QED BY <2>16, <3>1, <3>2, <3>3, <3>4, <3>5, <3>6, <3>7 DEF ActorStep
  <2>17. ASSUME NEW c \in Calls, CallerStep(o, c)
        PROVE  HoldInv'
    <3>1. CASE UserStarts(o, c)
      BY <3>1 DEF UserStarts, CanRelease, TypeInv, OwnerTypeOK, StageInv, CancelInv, ReleaseInv, WorkInv,
         Over, HoldInv, GivenUp, ReleasersInv
    <3>2. CASE UserSends(o, c)
      <4>1. GivenUp(o) /\ owner[o].stream # NoStream
        BY <3>2 DEF UserSends, ReleasersInv, GivenUp, StageInv, WorkInv
      <4>2. owner[o].stream \in Streams /\ holder[owner[o].stream] = o
        BY <3>2, <4>1 DEF UserSends, TypeInv, OwnerTypeOK, OwnerType, HoldInv
      <4>3. /\ holder' = holder \/ holder' = [holder EXCEPT ![owner[o].stream] = Nobody]
            /\ UNCHANGED <<owner, status>>
        BY <3>2 DEF UserSends
      <4>4. \A p \in Ops :
               at'[p]["worker"] \in {"Prepare", "Dispatch"} => at[p]["worker"] \in {"Prepare", "Dispatch"}
        BY <3>2, GotoLater DEF UserSends
      <4>5. \A p \in Ops : p # o =>
               sent'[p] = sent[p] /\ userCall'[p] = userCall[p] /\ (p \in delivered' <=> p \in delivered)
        BY <3>2 DEF UserSends, TypeInv, OwnerTypeOK
      <4>6. sent'[o] # 0 \/ GivenUp(o)'
        BY <3>2, <4>1 DEF UserSends, TypeInv, OwnerTypeOK, GivenUp, StageInv, ReleaseInv, WorkInv,
           ReleasersInv
      <4>7. \A b \in Calls : userCall'[o][b] # "Send"
        BY <3>2, <4>1 DEF UserSends, TypeInv, GivenUp, ReleasersInv
      <4> QED BY <4>2, <4>3, <4>4, <4>5, <4>6, <4>7, HoldFreed
    <3>3. CASE UserFinishes(o, c)
      BY <3>3 DEF UserFinishes, TypeInv, OwnerTypeOK, StageInv, CancelInv, ReleaseInv, WorkInv, Over,
         HoldInv, GivenUp, ReleasersInv
    <3> QED BY <2>17, <3>1, <3>2, <3>3 DEF CallerStep
  <2> QED BY <1>2, <2>1, <2>2, <2>3, <2>4, <2>5, <2>6, <2>7, <2>8, <2>9, <2>10, <2>11, <2>12, <2>13,
             <2>14, <2>15, <2>16, <2>17 DEF Step
<1> QED BY <1>1, <1>2, StepCases

\* The operations with a claim to the entry of their endpoint: those about to record a stream
\* and those that own one.  And what a step may leave alone of the table and of its users.
Commits(o, s) == media[o] = "audio" /\ at[o]["worker"] = "Record" /\ holder[s] = o
Owns(o) == media[o] = "audio" /\ owner[o].stream # NoStream /\ owner[o].release = "none" /\ ~GivenUp(o)
EntriesKept ==
    \A e \in Endpoints :
        \/ entries'[e] = entries[e]
        \/ entries[e].state \notin {"Owned", "Releasing"} /\ entries'[e].state # "Releasing"
OwnersKept ==
    /\ \A p \in Ops, s \in Streams : Commits(p, s)' => Commits(p, s)
    /\ \A p \in Ops : Owns(p)' => Owns(p) /\ owner'[p].stream = owner[p].stream
SendersKept == \A p \in Ops, b \in Actors : at'[p][b] \in Sending <=> at[p][b] \in Sending
CallersKept ==
    \A p \in Ops, c \in Calls : (userCall'[p][c] # "Idle" <=> userCall[p][c] # "Idle")
        /\ (GivenUp(p) => GivenUp(p)')

\* A step that leaves owned entries alone, and no operation with a new claim to one.
LEMMA OwnedKept ==
    ASSUME TypeInv, OwnedInv, UNCHANGED <<media, endpoint>>, OwnersKept,
           \A e \in Endpoints : entries[e].state = "Owned" => entries'[e] = entries[e]
    PROVE  OwnedInv'
<1>2. \A p \in Ops : endpoint[p] \in Endpoints
  BY DEF TypeInv
<1>3. \A p \in Ops, s \in Streams : Commits(p, s)' =>
          entries'[endpoint'[p]] = [state |-> "Owned", stream |-> s]
  BY <1>2 DEF OwnersKept, OwnedInv, Commits
<1>4. \A p \in Ops : Owns(p)' => entries'[endpoint'[p]] = [state |-> "Owned", stream |-> owner'[p].stream]
  BY <1>2 DEF OwnersKept, OwnedInv, Owns
<1> QED BY <1>3, <1>4 DEF OwnedInv, Commits, Owns

\* A step that starts and ends no release.
LEMMA ReleasersKept ==
    ASSUME TypeInv, ReleasersInv, UNCHANGED <<media, endpoint>>, EntriesKept, SendersKept, CallersKept
    PROVE  ReleasersInv'
<1>1. \A e \in Endpoints : entries'[e].state = "Releasing" <=> entries[e].state = "Releasing"
  BY DEF EntriesKept
<1>2. \A p \in Ops : endpoint[p] \in Endpoints
  BY DEF TypeInv
<1> QED BY <1>1, <1>2 DEF ReleasersInv, SendersKept, CallersKept

\* An entry that leaves Owned was the one of the operation that took the step, since the
\* camera holds its stream for nobody else.
LEMMA OwnedTaken ==
    ASSUME TypeInv, StageInv, HoldInv, OwnedInv, OwnersKept, UNCHANGED <<media, endpoint>>,
           NEW o \in Ops, NEW s \in Streams, holder[s] = o,
           entries[endpoint[o]] = [state |-> "Owned", stream |-> s],
           \A e \in Endpoints : e # endpoint[o] => entries'[e] = entries[e],
           at[o]["worker"] # "Record", ~Owns(o)'
    PROVE  OwnedInv'
<1>1. \A p \in Ops : endpoint[p] \in Endpoints /\ owner[p].stream \in Streams \cup {NoStream}
  BY DEF TypeInv, OwnerTypeOK, OwnerType
<1>2. ASSUME NEW p \in Ops, NEW t \in Streams, Commits(p, t)'
      PROVE  entries'[endpoint'[p]] = [state |-> "Owned", stream |-> t]
  <2>1. Commits(p, t) /\ p # o
    BY <1>2 DEF OwnersKept, Commits
  <2>2. entries[endpoint[p]] = [state |-> "Owned", stream |-> t]
    BY <2>1 DEF OwnedInv, Commits
  <2>3. endpoint[p] # endpoint[o]
    BY <2>1, <2>2 DEF Commits
  <2> QED BY <1>1, <2>2, <2>3
<1>3. ASSUME NEW p \in Ops, Owns(p)'
      PROVE  entries'[endpoint'[p]] = [state |-> "Owned", stream |-> owner'[p].stream]
  <2>1. Owns(p) /\ owner'[p].stream = owner[p].stream /\ p # o
    BY <1>3 DEF OwnersKept
  <2>2. entries[endpoint[p]] = [state |-> "Owned", stream |-> owner[p].stream]
    BY <2>1 DEF OwnedInv, Owns
  <2>3. holder[owner[p].stream] = p
    BY <2>1 DEF HoldInv, Owns, StageInv, ReleaseInv
  <2>4. endpoint[p] # endpoint[o]
    BY <2>1, <2>2, <2>3
  <2> QED BY <1>1, <2>1, <2>2, <2>4
<1> QED BY <1>2, <1>3 DEF OwnedInv, Commits, Owns

\* A release that starts on an endpoint is the only one there.
LEMMA ReleaseStarts ==
    ASSUME TypeInv, ReleasersInv, UNCHANGED <<media, endpoint>>,
           \A p \in Ops : GivenUp(p) => GivenUp(p)',
           NEW o \in Ops, entries[endpoint[o]].state # "Releasing",
           entries'[endpoint[o]].state = "Releasing",
           \A e \in Endpoints : e # endpoint[o] => entries'[e] = entries[e],
           \/ /\ media[o] = "audio" /\ UNCHANGED userCall
              /\ \E a \in Actors :
                    /\ at'[o][a] \in Sending
                    /\ \A p \in Ops, b \in Actors : <<p, b>> # <<o, a>> =>
                           (at'[p][b] \in Sending <=> at[p][b] \in Sending)
           \/ /\ GivenUp(o)' /\ UNCHANGED at
              /\ \E c \in Calls :
                    /\ userCall'[o][c] # "Idle"
                    /\ \A p \in Ops, d \in Calls : <<p, d>> # <<o, c>> => userCall'[p][d] = userCall[p][d]
    PROVE  ReleasersInv'
<1>1. \A p \in Ops : endpoint[p] \in Endpoints
  BY DEF TypeInv
<1>2. \A p \in Ops : endpoint[p] = endpoint[o] =>
        (\A a \in Actors : at[p][a] \notin Sending) /\ \A c \in Calls : userCall[p][c] = "Idle"
  BY DEF ReleasersInv
<1>3. ASSUME media[o] = "audio", UNCHANGED userCall, NEW a \in Actors, at'[o][a] \in Sending,
             \A p \in Ops, b \in Actors : <<p, b>> # <<o, a>> =>
                 (at'[p][b] \in Sending <=> at[p][b] \in Sending)
      PROVE  ReleasersInv'
  <2>1. \A p \in Ops, b \in Actors : at'[p][b] \in Sending => at[p][b] \in Sending \/ (p = o /\ b = a)
    BY <1>3
  <2>2. \A p \in Ops, b \in Actors : at[p][b] \in Sending => at'[p][b] \in Sending
    BY <1>3
  <2> HIDE DEF Sending
  <2> QED BY <1>1, <1>2, <1>3, <2>1, <2>2 DEF ReleasersInv
<1>4. ASSUME GivenUp(o)', UNCHANGED at, NEW c \in Calls, userCall'[o][c] # "Idle",
             \A p \in Ops, d \in Calls : <<p, d>> # <<o, c>> => userCall'[p][d] = userCall[p][d]
      PROVE  ReleasersInv'
  <2>1. \A p \in Ops, d \in Calls : userCall'[p][d] # "Idle" => userCall[p][d] # "Idle" \/ (p = o /\ d = c)
    BY <1>4
  <2>2. \A p \in Ops, d \in Calls : userCall[p][d] # "Idle" => userCall'[p][d] # "Idle"
    BY <1>4
  <2> HIDE DEF Sending
  <2> QED BY <1>1, <1>2, <1>4, <2>1, <2>2 DEF ReleasersInv
<1> QED BY <1>3, <1>4

\* A release that ends leaves none on its endpoint.
LEMMA ReleaseEnds ==
    ASSUME TypeInv, ReleasersInv, UNCHANGED <<media, endpoint, status, delivered>>,
           NEW o \in Ops, entries'[endpoint[o]].state # "Releasing",
           \A e \in Endpoints : e # endpoint[o] => entries'[e] = entries[e],
           \/ /\ UNCHANGED userCall
              /\ \E a \in Actors :
                    /\ at[o][a] \in Sending /\ at'[o][a] \notin Sending
                    /\ \A p \in Ops, b \in Actors : <<p, b>> # <<o, a>> =>
                           (at'[p][b] \in Sending <=> at[p][b] \in Sending)
           \/ /\ UNCHANGED at
              /\ \E c \in Calls :
                    /\ userCall[o][c] # "Idle" /\ userCall'[o][c] = "Idle"
                    /\ \A p \in Ops, d \in Calls : <<p, d>> # <<o, c>> => userCall'[p][d] = userCall[p][d]
    PROVE  ReleasersInv'
<1>1. \A p \in Ops : endpoint[p] \in Endpoints
  BY DEF TypeInv
<1>2. \A p \in Ops : endpoint[p] = endpoint[o] =>
        (\A a \in Actors : at'[p][a] \notin Sending) /\ \A c \in Calls : userCall'[p][c] = "Idle"
  BY DEF ReleasersInv
<1>3. /\ \A p \in Ops, b \in Actors : at'[p][b] \in Sending => at[p][b] \in Sending
      /\ \A p \in Ops, d \in Calls : userCall'[p][d] # "Idle" => userCall[p][d] # "Idle"
  OBVIOUS
<1>4. \A p \in Ops : endpoint[p] # endpoint[o] =>
        /\ \A b \in Actors : at[p][b] \in Sending => at'[p][b] \in Sending
        /\ \A d \in Calls : userCall[p][d] # "Idle" => userCall'[p][d] # "Idle"
  OBVIOUS
<1>5. \A p \in Ops : GivenUp(p) => GivenUp(p)'
  BY DEF GivenUp
<1> HIDE DEF Sending
<1> QED BY <1>1, <1>2, <1>3, <1>4, <1>5 DEF ReleasersInv

\* A thread of an operation moves outside the sections in which a stream is released or recorded.
Moves(o, a) ==
    \E step \in Positions \ {"Record"} : (step \in Sending <=> at[o][a] \in Sending) /\ Goto(o, a, step)
\* And what it does is not about streams that are owned or being released.
MovesApart ==
    /\ UNCHANGED <<media, endpoint>> /\ EntriesKept
    /\ \A p \in Ops, c \in Calls : userCall'[p][c] # "Idle" <=> userCall[p][c] # "Idle"
    /\ \A p \in Ops, s \in Streams : holder'[s] = p => holder[s] = p
    /\ \A p \in Ops : owner'[p].stream # NoStream /\ owner'[p].release = "none" =>
                         owner'[p].stream = owner[p].stream /\ owner[p].release = "none"
    /\ \A p \in Ops : GivenUp(p) => GivenUp(p)'

\* Such a step disturbs neither part of what the table says.
LEMMA TableKept ==
    ASSUME TypeInv, OwnedInv, ReleasersInv, MovesApart, NEW o \in Ops, NEW a \in Actors,
           Moves(o, a) \/ UNCHANGED at
    PROVE  OwnedInv' /\ ReleasersInv'
<1>1. CASE UNCHANGED at
  BY <1>1, OwnedKept, ReleasersKept DEF MovesApart, EntriesKept, OwnersKept, Commits, Owns, SendersKept,
     CallersKept
<1>2. CASE Moves(o, a)
  <2>1. PICK step \in Positions \ {"Record"} : (step \in Sending <=> at[o][a] \in Sending)
            /\ Goto(o, a, step)
    BY <1>2 DEF Moves
  <2>2. \A p \in Ops : p # o => at'[p] = at[p]
    BY <2>1 DEF TypeInv, Goto
  <2>3. at'[o][a] = step /\ \A b \in Actors : b # a => at'[o][b] = at[o][b]
    BY <2>1 DEF TypeInv, Goto
  <2>4. SendersKept
    BY <2>1, <2>2, <2>3 DEF SendersKept
  <2>5. \A p \in Ops : at'[p]["worker"] = "Record" => at[p]["worker"] = "Record"
    BY <2>2, <2>3 DEF Actors
  <2>6. OwnersKept
    BY <2>5 DEF MovesApart, OwnersKept, Commits, Owns
  <2>7. CallersKept
    BY DEF MovesApart, CallersKept
  <2> QED BY <2>4, <2>6, <2>7, OwnedKept, ReleasersKept DEF MovesApart, EntriesKept
<1> QED BY <1>1, <1>2

\* Every step keeps what the entries of the table say of the operations on their endpoints.
LEMMA TableStep ==
    ASSUME TypeInv, StageInv, HoldInv, OwnedInv, ReleasersInv, [Next]_streamVars
    PROVE  OwnedInv' /\ ReleasersInv'
<1>1. CASE UNCHANGED streamVars
  BY <1>1 DEF OwnedInv, ReleasersInv, GivenUp, streamVars, vars
<1>2. ASSUME NEW o \in Ops, Step(o)
      PROVE  OwnedInv' /\ ReleasersInv'
  <2>1. CASE CancelAsync(o) /\ TableUnchanged
    <3>1. UNCHANGED at
      BY <2>1 DEF CancelAsync, TableUnchanged
    <3>2. EntriesKept
      BY <2>1 DEF CancelAsync, TableUnchanged, EntriesKept
    <3>3. \A p \in Ops : GivenUp(p) => GivenUp(p)'
      BY <2>1 DEF CancelAsync, TableUnchanged, GivenUp, TypeInv, OwnerTypeOK
    <3>4. MovesApart
      BY <2>1, <3>2, <3>3 DEF CancelAsync, TableUnchanged, MovesApart, TypeInv, OwnerTypeOK
    <3> QED BY <3>1, <3>4, TableKept DEF Actors
  <2>2. CASE CallbackFlag(o) /\ TableUnchanged
    <3>1. UNCHANGED at
      BY <2>2 DEF CallbackFlag, TableUnchanged
    <3>2. EntriesKept
      BY <2>2 DEF CallbackFlag, TableUnchanged, EntriesKept
    <3>3. \A p \in Ops : GivenUp(p) => GivenUp(p)'
      BY <2>2 DEF CallbackFlag, TableUnchanged, GivenUp, TypeInv, OwnerTypeOK
    <3>4. MovesApart
      BY <2>2, <3>2, <3>3 DEF CallbackFlag, TableUnchanged, MovesApart, TypeInv, OwnerTypeOK
    <3> QED BY <3>1, <3>4, TableKept DEF Actors
  <2>3. CASE Cancel(o) /\ TableUnchanged
    <3>1. Moves(o, "background") \/ UNCHANGED at
      BY <2>3 DEF Cancel, TableUnchanged, Moves, StageInv, CancelInv
    <3>2. EntriesKept
      BY <2>3 DEF Cancel, TableUnchanged, EntriesKept
    <3>3. \A p \in Ops : GivenUp(p) => GivenUp(p)'
      BY <2>3 DEF Cancel, TableUnchanged, GivenUp, TypeInv, OwnerTypeOK
    <3>4. MovesApart
      BY <2>3, <3>2, <3>3 DEF Cancel, TableUnchanged, MovesApart, TypeInv, OwnerTypeOK
    <3> QED BY <3>1, <3>4, TableKept DEF Actors
  <2>4. CASE RecordStream(o) /\ TableUnchanged
    <3>1. PICK s \in Streams : holder[s] = o /\ Record(o, s, "CheckFirst")
      BY <2>4 DEF RecordStream
    <3>2. at[o]["worker"] = "Record" /\ at[o]["background"] = "Idle"
      BY <3>1 DEF Record, StageInv, WorkInv
    <3>3. /\ at'[o]["worker"] = "CheckFirst" /\ at'[o]["background"] \in {"Idle", "Release"}
          /\ \A p \in Ops : p # o => at'[p] = at[p]
      BY <3>1, <3>2 DEF Record, TypeInv
    <3>4. UNCHANGED <<status, holder, delivered, entries, media, endpoint, userCall>>
      BY <2>4, <3>1 DEF Record, TableUnchanged
    <3>5. owner'[o].stream = s /\ \A p \in Ops : p # o => owner'[p] = owner[p]
      BY <3>1 DEF Record, TypeInv, OwnerTypeOK
    <3>6. SendersKept
      BY <3>2, <3>3 DEF SendersKept, Actors
    <3>7. ReleasersInv'
      BY <3>4, <3>6, ReleasersKept DEF EntriesKept, CallersKept, GivenUp
    <3>8. entries[endpoint[o]] = [state |-> "Owned", stream |-> s] \/ media[o] # "audio"
      BY <3>1, <3>2 DEF OwnedInv, TypeInv
    <3>9. OwnedInv'
      BY <3>3, <3>4, <3>5, <3>8 DEF OwnedInv, GivenUp
    <3> QED BY <3>7, <3>9
  <2>5. CASE Complete(o) /\ TableUnchanged
    <3>1. Moves(o, "worker")
      BY <2>5 DEF Complete, TableUnchanged, Moves
    <3>2. EntriesKept
      BY <2>5 DEF Complete, TableUnchanged, EntriesKept
    <3>3. \A p \in Ops : GivenUp(p) => GivenUp(p)'
      BY <2>5 DEF Complete, TableUnchanged, GivenUp, TypeInv, OwnerTypeOK
    <3>4. MovesApart
      BY <2>5, <3>2, <3>3 DEF Complete, TableUnchanged, MovesApart, TypeInv, OwnerTypeOK
    <3> QED BY <3>1, <3>4, TableKept DEF Actors
  <2>6. CASE BackgroundEnds(o) /\ TableUnchanged
    <3>1. Moves(o, "background")
      BY <2>6 DEF BackgroundEnds, TableUnchanged, Moves
    <3>2. EntriesKept
      BY <2>6 DEF BackgroundEnds, TableUnchanged, EntriesKept
    <3>3. \A p \in Ops : GivenUp(p) => GivenUp(p)'
      BY <2>6 DEF BackgroundEnds, TableUnchanged, GivenUp, TypeInv, OwnerTypeOK
    <3>4. MovesApart
      BY <2>6, <3>2, <3>3 DEF BackgroundEnds, TableUnchanged, MovesApart, TypeInv, OwnerTypeOK
    <3> QED BY <3>1, <3>4, TableKept DEF Actors
  <2>7. CASE Prepare(o)
    <3>1. Moves(o, "worker")
      BY <2>7 DEF Prepare, Throw, Moves
    <3>2. EntriesKept
      <4>1. UNCHANGED entries \/ Reserve(endpoint[o])
        BY <2>7 DEF Prepare
      <4> QED BY <4>1, ReserveIs DEF EntriesKept, TypeInv
    <3>3. \A p \in Ops : GivenUp(p) => GivenUp(p)'
      BY <2>7 DEF Prepare, Throw, GivenUp, TypeInv, OwnerTypeOK, StageInv, WorkInv
    <3>4. MovesApart
      BY <2>7, <3>2, <3>3 DEF Prepare, Throw, MovesApart, TypeInv, OwnerTypeOK
    <3> QED BY <3>1, <3>4, TableKept DEF Actors
  <2>8. CASE Dispatch(o)
    <3>1. \E step \in {"Commit", "Record", "OuterCatch", "Done"} : Goto(o, "worker", step)
              /\ (step = "Record" => media[o] # "audio")
      BY <2>8 DEF Dispatch, Fail, Throw, TypeInv
    <3>2. /\ at[o]["worker"] = "Dispatch" /\ status[o] # "Completed"
          /\ UNCHANGED <<owner, delivered, entries, media, endpoint, userCall>>
      BY <2>8 DEF Dispatch, StageInv, WorkInv
    <3>3. /\ \A p \in Ops : p # o => at'[p] = at[p]
          /\ at'[o]["background"] = at[o]["background"]
                 /\ at'[o]["worker"] \in {"Commit", "Record", "OuterCatch", "Done"}
          /\ at'[o]["worker"] = "Record" => media[o] # "audio"
      BY <3>1 DEF TypeInv
    <3>4. \A p \in Ops : GivenUp(p) <=> GivenUp(p)'
      BY <2>8, <3>2 DEF Dispatch, Fail, Throw, GivenUp, TypeInv, OwnerTypeOK
    <3>5. \A p \in Ops, s \in Streams : holder'[s] = p /\ p # o => holder[s] = p
      BY <2>8 DEF Dispatch, TypeInv, OwnerTypeOK
    <3>6. SendersKept
      BY <3>2, <3>3 DEF SendersKept, Actors
    <3>7. OwnersKept
      BY <3>2, <3>3, <3>4, <3>5 DEF OwnersKept, Commits, Owns
    <3>8. CallersKept
      BY <3>2, <3>4 DEF CallersKept
    <3> QED BY <3>2, <3>6, <3>7, <3>8, OwnedKept, ReleasersKept DEF EntriesKept
  <2>9. CASE CommitStream(o)
    <3>1. PICK s \in Streams :
             /\ holder[s] = o
             /\ IF CanCommit(endpoint[o])
                  THEN Commit(endpoint[o], s) /\ Goto(o, "worker", "Record")
                      /\ UNCHANGED <<status, failure>>
                  ELSE Fail(o, "uncertain") /\ UNCHANGED entries
      BY <2>9 DEF CommitStream
    <3>2. /\ at[o]["worker"] = "Commit" /\ owner[o].stream = NoStream /\ status[o] # "Completed"
          /\ UNCHANGED <<owner, holder, delivered, media, endpoint, userCall>>
      BY <2>9 DEF CommitStream, StageInv, WorkInv
    <3>3. CASE CanCommit(endpoint[o])
      <4>1. Commit(endpoint[o], s) /\ Goto(o, "worker", "Record") /\ UNCHANGED status
        BY <3>1, <3>3
      <4>2. /\ entries[endpoint[o]].state = "Pending"
                   /\ entries'[endpoint[o]] = [state |-> "Owned", stream |-> s]
            /\ \A e \in Endpoints : e # endpoint[o] => entries'[e] = entries[e]
        BY <3>3, <4>1, CommitIs DEF CanCommit, TypeInv
      <4>3. /\ \A p \in Ops : p # o => at'[p] = at[p]
            /\ at'[o]["background"] = at[o]["background"] /\ at'[o]["worker"] = "Record"
        BY <4>1 DEF TypeInv
      <4>4. SendersKept
        BY <3>2, <4>3 DEF SendersKept, Actors
      <4>5. ReleasersInv'
        BY <3>2, <4>1, <4>2, <4>4, ReleasersKept DEF EntriesKept, CallersKept, GivenUp
      <4>6. \A p \in Ops : endpoint[p] \in Endpoints
        BY DEF TypeInv
      <4>7. \A t \in Streams : holder[t] = o => t = s
        BY <3>1 DEF HoldInv
      <4>8. \A p \in Ops, t \in Streams : Commits(p, t)' =>
                entries'[endpoint'[p]] = [state |-> "Owned", stream |-> t]
        BY <3>2, <4>2, <4>3, <4>6, <4>7 DEF OwnedInv, Commits
      <4>9. \A p \in Ops : Owns(p)' =>
              entries'[endpoint'[p]] = [state |-> "Owned", stream |-> owner'[p].stream]
        BY <3>2, <4>1, <4>2, <4>6 DEF OwnedInv, Owns, GivenUp
      <4> QED BY <4>5, <4>8, <4>9 DEF OwnedInv, Commits, Owns
    <3>4. CASE ~CanCommit(endpoint[o])
      <4>1. Fail(o, "uncertain") /\ UNCHANGED entries
        BY <3>1, <3>4
      <4>2. Moves(o, "worker")
        BY <3>2, <4>1 DEF Fail, Throw, Moves
      <4>3. \A p \in Ops : GivenUp(p) => GivenUp(p)'
        BY <3>2, <4>1 DEF Fail, Throw, GivenUp, TypeInv, OwnerTypeOK
      <4>4. MovesApart
        BY <3>2, <4>1, <4>3 DEF MovesApart, EntriesKept
      <4> QED BY <4>2, <4>4, TableKept DEF Actors
    <3> QED BY <3>3, <3>4
  <2>10. CASE CheckCanceled(o)
    <3>1. Moves(o, "worker")
      BY <2>10 DEF CheckCanceled, Moves
    <3>2. EntriesKept
      BY <2>10 DEF CheckCanceled, EntriesKept
    <3>3. \A p \in Ops : GivenUp(p) => GivenUp(p)'
      BY <2>10 DEF CheckCanceled, GivenUp, TypeInv, OwnerTypeOK
    <3>4. MovesApart
      BY <2>10, <3>2, <3>3 DEF CheckCanceled, MovesApart, TypeInv, OwnerTypeOK
    <3> QED BY <3>1, <3>4, TableKept DEF Actors
  <2>11. CASE Readback(o)
    <3>1. Moves(o, "worker")
      BY <2>11 DEF Readback, Moves
    <3>2. EntriesKept
      BY <2>11 DEF Readback, EntriesKept
    <3>3. \A p \in Ops : GivenUp(p) => GivenUp(p)'
      BY <2>11 DEF Readback, GivenUp, TypeInv, OwnerTypeOK
    <3>4. MovesApart
      BY <2>11, <3>2, <3>3 DEF Readback, MovesApart, TypeInv, OwnerTypeOK
    <3> QED BY <3>1, <3>4, TableKept DEF Actors
  <2>12. CASE ResultFails(o)
    <3>1. Moves(o, "worker")
      BY <2>12 DEF ResultFails, Moves
    <3>2. EntriesKept
      BY <2>12 DEF ResultFails, EntriesKept
    <3>3. \A p \in Ops : GivenUp(p) => GivenUp(p)'
      BY <2>12 DEF ResultFails, GivenUp, TypeInv, OwnerTypeOK
    <3>4. MovesApart
      BY <2>12, <3>2, <3>3 DEF ResultFails, MovesApart, TypeInv, OwnerTypeOK
    <3> QED BY <3>1, <3>4, TableKept DEF Actors
  <2>13. CASE InnerCatch(o)
    <3>1. Moves(o, "worker")
      BY <2>13 DEF InnerCatch, Fail, Throw, Moves
    <3>2. EntriesKept
      BY <2>13 DEF InnerCatch, Fail, Throw, EntriesKept
    <3>3. \A p \in Ops : GivenUp(p) => GivenUp(p)'
      BY <2>13 DEF InnerCatch, Fail, Throw, GivenUp, TypeInv, OwnerTypeOK, StageInv, WorkInv
    <3>4. MovesApart
      BY <2>13, <3>2, <3>3 DEF InnerCatch, Fail, Throw, MovesApart, TypeInv, OwnerTypeOK
    <3> QED BY <3>1, <3>4, TableKept DEF Actors
  <2>14. CASE OuterCatch(o)
    <3>1. Moves(o, "worker")
      BY <2>14 DEF OuterCatch, Throw, Moves
    <3>2. EntriesKept
      <4>1. PICK known \in BOOLEAN : AllocationFailed(endpoint[o], known)
        BY <2>14, Zenon DEF OuterCatch
      <4> QED BY <4>1, AllocationFailedIs DEF EntriesKept, TypeInv
    <3>3. \A p \in Ops : GivenUp(p) => GivenUp(p)'
      BY <2>14 DEF OuterCatch, Throw, GivenUp, TypeInv, OwnerTypeOK, StageInv, WorkInv
    <3>4. MovesApart
      BY <2>14, <3>2, <3>3 DEF OuterCatch, Throw, MovesApart, TypeInv, OwnerTypeOK
    <3> QED BY <3>1, <3>4, TableKept DEF Actors
  <2>15. CASE GiveUp(o)
    <3>1. UNCHANGED at
      BY <2>15 DEF GiveUp
    <3>2. EntriesKept
      BY <2>15 DEF GiveUp, EntriesKept
    <3>3. \A p \in Ops : GivenUp(p) => GivenUp(p)'
      BY <2>15 DEF GiveUp, GivenUp, TypeInv, OwnerTypeOK
    <3>4. MovesApart
      BY <2>15, <3>2, <3>3, NobodyAssumption DEF GiveUp, MovesApart, TypeInv, OwnerTypeOK
    <3> QED BY <3>1, <3>4, TableKept DEF Actors
  <2>16. ASSUME NEW a \in Actors, ActorStep(o, a)
        PROVE  OwnedInv' /\ ReleasersInv'
    <3>1. CASE CallRelease(o, a)
      <4>1. Moves(o, a)
        BY <3>1 DEF CallRelease, ReleaseCommand, Moves
      <4>2. EntriesKept
        BY <3>1 DEF CallRelease, ReleaseCommand, EntriesKept
      <4>3. \A p \in Ops : GivenUp(p) => GivenUp(p)'
        BY <3>1 DEF CallRelease, ReleaseCommand, GivenUp, TypeInv, OwnerTypeOK
      <4>4. MovesApart
        BY <3>1, <4>2, <4>3, NobodyAssumption DEF CallRelease, ReleaseCommand, MovesApart, TypeInv,
           OwnerTypeOK
      <4> QED BY <4>1, <4>4, TableKept DEF Actors
    <3>2. CASE CallAudioRelease(o, a)
      <4>1. /\ at[o][a] = "CallRelease" /\ media[o] = "audio"
            /\ UNCHANGED <<status, owner, holder, delivered, media, endpoint, userCall>>
        BY <3>2 DEF CallAudioRelease
      <4>2. CASE ~CanRelease(endpoint[o], owner[o].stream)
        <5>1. Goto(o, a, "ReleaseFailed") /\ UNCHANGED entries
          BY <3>2, <4>2 DEF CallAudioRelease
        <5>2. Moves(o, a)
          BY <4>1, <5>1 DEF Moves
        <5>3. MovesApart
          BY <4>1, <5>1 DEF MovesApart, EntriesKept, GivenUp
        <5> QED BY <5>2, <5>3, TableKept
      <4>3. CASE CanRelease(endpoint[o], owner[o].stream)
        <5>1. StartRelease(endpoint[o]) /\ Goto(o, a, "SendRelease")
          BY <3>2, <4>3 DEF CallAudioRelease
        <5>2. /\ entries[endpoint[o]] = [state |-> "Owned", stream |-> owner[o].stream]
              /\ entries'[endpoint[o]].state = "Releasing"
              /\ \A e \in Endpoints : e # endpoint[o] => entries'[e] = entries[e]
          BY <4>3, <5>1, StartReleaseIs DEF TypeInv
        <5>3. /\ owner[o].release = "started" /\ owner[o].stream # NoStream /\ sent[o] = 0
              /\ status[o] # "Completed" /\ at[o]["worker"] # "Record"
          BY <4>1 DEF StageInv, ReleaseInv, WorkInv
        <5>4. owner[o].stream \in Streams /\ holder[owner[o].stream] = o
          BY <5>3 DEF TypeInv, OwnerTypeOK, OwnerType, HoldInv, GivenUp
        <5>5. /\ at'[o][a] = "SendRelease" /\ \A b \in Actors : b # a => at'[o][b] = at[o][b]
              /\ \A p \in Ops : p # o => at'[p] = at[p]
          BY <5>1 DEF TypeInv
        <5>6. OwnersKept
          BY <4>1, <5>5 DEF OwnersKept, Commits, Owns, GivenUp, Actors
        <5>7. ~Owns(o)'
          BY <4>1, <5>3 DEF Owns
        <5>8. OwnedInv'
          BY <4>1, <5>2, <5>3, <5>4, <5>6, <5>7, OwnedTaken
        <5>9. at'[o][a] \in Sending /\ \A p \in Ops, b \in Actors : <<p, b>> # <<o, a>> =>
                  (at'[p][b] \in Sending <=> at[p][b] \in Sending)
          BY <5>5
        <5>10. ReleasersInv'
          BY <4>1, <5>2, <5>9, ReleaseStarts DEF GivenUp
        <5> QED BY <5>8, <5>10
      <4> QED BY <4>2, <4>3
    <3>3. CASE SendRelease(o, a)
      <4>1. Moves(o, a)
        BY <3>3 DEF SendRelease, Moves
      <4>2. EntriesKept
        BY <3>3 DEF SendRelease, EntriesKept
      <4>3. \A p \in Ops : GivenUp(p) => GivenUp(p)'
        BY <3>3 DEF SendRelease, GivenUp, TypeInv, OwnerTypeOK
      <4>4. MovesApart
        BY <3>3, <4>2, <4>3, NobodyAssumption DEF SendRelease, MovesApart, TypeInv, OwnerTypeOK
      <4> QED BY <4>1, <4>4, TableKept DEF Actors
    <3>4. CASE FinishRelease(o, a)
      <4>1. /\ at[o][a] \in Sending /\ entries[endpoint[o]].state = "Releasing"
            /\ UNCHANGED <<status, owner, holder, delivered, media, endpoint, userCall>>
        BY <3>4 DEF FinishRelease, ReleasersInv
      <4>2. PICK known \in BOOLEAN : ReleaseFinished(endpoint[o], known)
        BY <3>4, Zenon DEF FinishRelease
      <4>3. endpoint[o] \in Endpoints /\ entries \in [Endpoints -> Entry]
        BY DEF TypeInv
      <4>4. entries'[endpoint[o]].state \in {"Absent", "Uncertain"}
                /\ \A e \in Endpoints : e # endpoint[o] => entries'[e] = entries[e]
        BY <4>2, <4>3, ReleaseFinishedIs
      <4>5. \E step \in {"ReleaseSent", "ReleaseFailed"} : Goto(o, a, step)
        BY <3>4 DEF FinishRelease
      <4>6. /\ at'[o][a] \in {"ReleaseSent", "ReleaseFailed"} /\ \A b \in Actors : b # a =>
                   at'[o][b] = at[o][b]
            /\ \A p \in Ops : p # o => at'[p] = at[p]
        BY <4>5 DEF TypeInv
      <4>7. OwnersKept
        BY <4>1, <4>6 DEF OwnersKept, Commits, Owns, GivenUp, Actors
      <4>8. OwnedInv'
        BY <4>1, <4>4, <4>7, OwnedKept
      <4>9. at'[o][a] \notin Sending /\ \A p \in Ops, b \in Actors : <<p, b>> # <<o, a>> =>
                (at'[p][b] \in Sending <=> at[p][b] \in Sending)
        BY <4>6
      <4>10. ReleasersInv'
        BY <4>1, <4>4, <4>9, ReleaseEnds
      <4> QED BY <4>8, <4>10
    <3>5. CASE EnterRelease(o, a) /\ TableUnchanged
      <4>1. Moves(o, a)
        BY <3>5 DEF EnterRelease, TableUnchanged, Moves
      <4>2. EntriesKept
        BY <3>5 DEF EnterRelease, TableUnchanged, EntriesKept
      <4>3. \A p \in Ops : GivenUp(p) => GivenUp(p)'
        BY <3>5 DEF EnterRelease, TableUnchanged, GivenUp, TypeInv, OwnerTypeOK
      <4>4. owner' = owner \/ owner' = [owner EXCEPT ![o].release = "started"]
        BY <3>5 DEF EnterRelease
      <4>5. \A p \in Ops : owner'[p].stream = owner[p].stream
                /\ (owner'[p].release = "none" => owner[p].release = "none")
        <5>1. CASE owner' = owner
          BY <5>1
        <5>2. CASE owner' = [owner EXCEPT ![o].release = "started"]
          BY <5>2 DEF TypeInv, OwnerTypeOK
        <5> QED BY <4>4, <5>1, <5>2
      <4>6. MovesApart
        BY <3>5, <4>2, <4>3, <4>5 DEF EnterRelease, TableUnchanged, MovesApart
      <4> QED BY <4>1, <4>6, TableKept DEF Actors
    <3>6. CASE StoreRelease(o, a) /\ TableUnchanged
      <4>1. Moves(o, a)
        BY <3>6 DEF StoreRelease, TableUnchanged, Moves
      <4>2. EntriesKept
        BY <3>6 DEF StoreRelease, TableUnchanged, EntriesKept
      <4>3. \A p \in Ops : GivenUp(p) => GivenUp(p)'
        BY <3>6 DEF StoreRelease, TableUnchanged, GivenUp, TypeInv, OwnerTypeOK
      <4>4. MovesApart
        BY <3>6, <4>2, <4>3 DEF StoreRelease, TableUnchanged, MovesApart, TypeInv, OwnerTypeOK
      <4> QED BY <4>1, <4>4, TableKept DEF Actors
    <3>7. CASE AwaitRelease(o, a) /\ TableUnchanged
      <4>1. Moves(o, a)
        BY <3>7 DEF AwaitRelease, TableUnchanged, Moves
      <4>2. EntriesKept
        BY <3>7 DEF AwaitRelease, TableUnchanged, EntriesKept
      <4>3. \A p \in Ops : GivenUp(p) => GivenUp(p)'
        BY <3>7 DEF AwaitRelease, TableUnchanged, GivenUp, TypeInv, OwnerTypeOK
      <4>4. MovesApart
        BY <3>7, <4>2, <4>3 DEF AwaitRelease, TableUnchanged, MovesApart, TypeInv, OwnerTypeOK
      <4> QED BY <4>1, <4>4, TableKept DEF Actors
    <3> QED BY <2>16, <3>1, <3>2, <3>3, <3>4, <3>5, <3>6, <3>7 DEF ActorStep
  <2>17. ASSUME NEW c \in Calls, CallerStep(o, c)
        PROVE  OwnedInv' /\ ReleasersInv'
    <3>1. CASE UserStarts(o, c)
      <4>1. /\ StartRelease(endpoint[o]) /\ CanRelease(endpoint[o], owner[o].stream)
            /\ userCall' = [userCall EXCEPT ![o][c] = "Send"] /\ delivered' = delivered \ {o}
            /\ UNCHANGED <<status, owner, at, holder, media, endpoint>>
        BY <3>1 DEF UserStarts
      <4>2. /\ entries[endpoint[o]] = [state |-> "Owned", stream |-> owner[o].stream]
            /\ entries'[endpoint[o]].state = "Releasing"
            /\ \A e \in Endpoints : e # endpoint[o] => entries'[e] = entries[e]
        BY <4>1, StartReleaseIs DEF TypeInv
      <4>3. o \in delivered
        BY <3>1, <4>2 DEF UserStarts, ReleasersInv
      <4>4. status[o] = "Completed" /\ owner[o].stream # NoStream /\ sent[o] = 0
                /\ at[o]["worker"] # "Record"
        BY <4>3 DEF StageInv, ReleaseInv, WorkInv
      <4>5. owner[o].stream \in Streams /\ holder[owner[o].stream] = o
        BY <4>3, <4>4 DEF TypeInv, OwnerTypeOK, OwnerType, HoldInv, GivenUp
      <4>6. GivenUp(o)' /\ \A p \in Ops : GivenUp(p) => GivenUp(p)'
        BY <4>1, <4>4 DEF GivenUp
      <4>7. OwnersKept /\ ~Owns(o)'
        BY <4>1, <4>6 DEF OwnersKept, Commits, Owns
      <4>8. OwnedInv'
        BY <4>1, <4>2, <4>4, <4>5, <4>7, OwnedTaken
      <4>9. userCall'[o][c] # "Idle" /\ \A p \in Ops, d \in Calls : <<p, d>> # <<o, c>> =>
                userCall'[p][d] = userCall[p][d]
        BY <4>1 DEF TypeInv
      <4>10. ReleasersInv'
        BY <4>1, <4>2, <4>6, <4>9, ReleaseStarts
      <4> QED BY <4>8, <4>10
    <3>2. CASE UserSends(o, c)
      <4>1. UNCHANGED at
        BY <3>2 DEF UserSends
      <4>2. EntriesKept
        BY <3>2 DEF UserSends, EntriesKept
      <4>3. \A p \in Ops : GivenUp(p) => GivenUp(p)'
        BY <3>2 DEF UserSends, GivenUp, TypeInv, OwnerTypeOK
      <4>4. \A p \in Ops, d \in Calls : userCall'[p][d] # "Idle" <=> userCall[p][d] # "Idle"
        BY SMTT(60), <3>2 DEF UserSends, TypeInv
      <4>5. MovesApart
        BY <3>2, <4>4, <4>2, <4>3, NobodyAssumption DEF UserSends, MovesApart, TypeInv, OwnerTypeOK
      <4> QED BY <4>1, <4>5, TableKept DEF Actors
    <3>3. CASE UserFinishes(o, c)
      <4>1. /\ userCall[o][c] # "Idle" /\ entries[endpoint[o]].state = "Releasing"
            /\ userCall' = [userCall EXCEPT ![o][c] = "Idle"]
            /\ UNCHANGED <<status, owner, at, holder, delivered, media, endpoint>>
        BY <3>3 DEF UserFinishes, ReleasersInv
      <4>2. PICK known \in BOOLEAN : ReleaseFinished(endpoint[o], known)
        BY <3>3, Zenon DEF UserFinishes
      <4>3. endpoint[o] \in Endpoints /\ entries \in [Endpoints -> Entry]
        BY DEF TypeInv
      <4>4. entries'[endpoint[o]].state \in {"Absent", "Uncertain"}
                /\ \A e \in Endpoints : e # endpoint[o] => entries'[e] = entries[e]
        BY <4>2, <4>3, ReleaseFinishedIs
      <4>5. OwnersKept
        BY <4>1 DEF OwnersKept, Commits, Owns, GivenUp
      <4>6. OwnedInv'
        BY <4>1, <4>4, <4>5, OwnedKept
      <4>7. userCall'[o][c] = "Idle" /\ \A p \in Ops, d \in Calls : <<p, d>> # <<o, c>> =>
                userCall'[p][d] = userCall[p][d]
        BY <4>1 DEF TypeInv
      <4>8. ReleasersInv'
        BY <4>1, <4>4, <4>7, ReleaseEnds
      <4> QED BY <4>6, <4>8
    <3> QED BY <2>17, <3>1, <3>2, <3>3 DEF CallerStep
  <2> QED BY <1>2, <2>1, <2>2, <2>3, <2>4, <2>5, <2>6, <2>7, <2>8, <2>9, <2>10, <2>11, <2>12, <2>13,
             <2>14, <2>15, <2>16, <2>17 DEF Step
<1> QED BY <1>1, <1>2, StepCases

-----------------------------------------------------------------------------
\* The inductive invariant holds in the initial states,
LEMMA IInvInit == Init => IInv
<1> SUFFICES ASSUME Init PROVE IInv
  OBVIOUS
<1>1. TypeInv
  BY DEF Init, InitOwner, TypeInv, OwnerTypeOK, Absent, Entry, States
<1>2. SizeInv
  <2>1. Occupied = {}
    BY DEF Init, Occupied, Absent
  <2> QED BY <2>1, FS_EmptySet, EntriesAssumption DEF SizeInv
<1>3. StageInv
  BY DEF Init, InitOwner, StageInv, CancelInv, ReleaseInv, WorkInv, Over
<1>4. HoldInv
  BY NobodyAssumption DEF Init, InitOwner, HoldInv
<1>5. OwnedInv /\ ReleasersInv
  BY DEF Init, InitOwner, OwnedInv, ReleasersInv, Absent
<1> QED BY <1>1, <1>2, <1>3, <1>4, <1>5 DEF IInv

\* is kept by every step,
LEMMA IInvStep == IInv /\ [Next]_streamVars => IInv'
<1> SUFFICES ASSUME IInv, [Next]_streamVars PROVE IInv'
  OBVIOUS
<1> USE DEF IInv
<1>1. at' \in [Ops -> [Actors -> Positions]]
  BY CountersTyped DEF TypeInv
<1>2. entries' \in [Endpoints -> Entry]
  BY EntriesTyped DEF TypeInv
<1>3. OthersTyped'
  <2>1. OthersTyped
    BY DEF TypeInv, OwnerTypeOK, OthersTyped
  <2> QED BY <2>1, OthersStayTyped
<1>4. TypeInv'
  BY <1>1, <1>2, <1>3 DEF TypeInv, OwnerTypeOK, OthersTyped
<1> QED BY <1>4, SizeStep, StageStep, HoldStep, TableStep

\* and so holds of every behaviour.
THEOREM Inductive == Spec => []IInv
  BY IInvInit, IInvStep, PTL DEF Spec

\* Types are kept, and the ownership table is never larger than its bound, for any number of
\* allocations, endpoints and streams (CameraAudioAllocationOwnership.h:41).
THEOREM StreamsTypeCorrect == Spec => []TypeOK
<1>1. IInv => TypeOK
  BY DEF IInv, TypeInv, SizeInv, TypeOK, EntryCount, Occupied
<1> QED BY <1>1, Inductive, PTL

\* However cancellation, the worker and its failures fall, at most one release command is
\* sent for the stream of an operation.
THEOREM ReleasedOnce == Spec => []ReleasedAtMostOnce
<1>1. IInv => ReleasedAtMostOnce
  BY DEF IInv, StageInv, ReleaseInv, ReleasedAtMostOnce
<1> QED BY <1>1, Inductive, PTL

\* A canceled or failed allocation that is quiet has no stream left, unless its release failed.
THEOREM NothingIsLeft == Spec => []NothingLeftBehind
<1>1. IInv => NothingLeftBehind
  BY DEF IInv, TypeInv, OwnerTypeOK, StageInv, CancelInv, ReleaseInv, WorkInv, Over, NothingLeftBehind,
     Quiet
<1> QED BY <1>1, Inductive, PTL

\* An operation fails only after the release of its stream is over, and who waits for a
\* release has somebody who makes it.
THEOREM FailuresFollow == Spec => []FailureFollowsRelease
<1>1. IInv => FailureFollowsRelease
  BY ZenonT(60) DEF IInv, TypeInv, OwnerTypeOK, StageInv, ReleaseInv, WorkInv, Over, FailureFollowsRelease,
       WorkerSteps
<1> QED BY <1>1, Inductive, PTL

\* A stream that was delivered stays its operation's on the camera, and in the table, until
\* its caller gives it up: identifiers are reused and endpoints are shared, but no release or
\* failure of another operation reaches it.
THEOREM DeliveredAreOwned == Spec => []DeliveredIsOwned
<1>1. IInv => DeliveredIsOwned
  BY DEF IInv, TypeInv, OwnerTypeOK, StageInv, ReleaseInv, WorkInv, HoldInv, OwnedInv, GivenUp,
     DeliveredIsOwned, DeliveredIsHeld
<1> QED BY <1>1, Inductive, PTL

\* An entry is Releasing exactly while one release of it is in progress.
THEOREM ReleasesAreApart == Spec => []OneReleasePerEntry
<1>1. ASSUME IInv PROVE OneReleasePerEntry
  <2>1. EntryCount <= MaxEntries
    BY <1>1 DEF IInv, SizeInv, EntryCount, Occupied
  <2>2. ASSUME NEW e \in Endpoints
        PROVE  LET own == {r \in Ops \X Actors :
                             /\ media[r[1]] = "audio" /\ endpoint[r[1]] = e
                             /\ at[r[1]][r[2]] \in {"SendRelease", "FinishReleased", "FinishFailed"}}
                   users == {u \in Ops \X Calls : endpoint[u[1]] = e /\ userCall[u[1]][u[2]] # "Idle"}
               IN  Cardinality(own) + Cardinality(users) = (IF entries[e].state = "Releasing" THEN 1 ELSE 0)
    <3> DEFINE own == {r \in Ops \X Actors :
                         /\ media[r[1]] = "audio" /\ endpoint[r[1]] = e
                         /\ at[r[1]][r[2]] \in {"SendRelease", "FinishReleased", "FinishFailed"}}
               users == {u \in Ops \X Calls : endpoint[u[1]] = e /\ userCall[u[1]][u[2]] # "Idle"}
    <3>1. CASE entries[e].state # "Releasing"
      <4>1. own = {} /\ users = {}
        BY <1>1, <3>1 DEF IInv, ReleasersInv
      <4> QED BY <3>1, <4>1, FS_EmptySet
    <3>2. ASSUME entries[e].state = "Releasing", NEW o \in Ops, NEW a \in Actors,
                 endpoint[o] = e, at[o][a] \in Sending
          PROVE  Cardinality(own) + Cardinality(users) = 1
      <4>1. own = {<<o, a>>}
        BY <1>1, <3>2 DEF IInv, ReleasersInv
      <4>2. users = {}
        BY <1>1, <3>2 DEF IInv, ReleasersInv
      <4> HIDE DEF own, users
      <4>3. Cardinality(own) = 1
        BY <4>1, FS_Singleton
      <4>4. Cardinality(users) = 0
        BY <4>2, FS_EmptySet
      <4> QED BY <4>3, <4>4
    <3>3. ASSUME entries[e].state = "Releasing", NEW o \in Ops, NEW c \in Calls,
                 endpoint[o] = e, userCall[o][c] # "Idle"
          PROVE  Cardinality(own) + Cardinality(users) = 1
      <4>1. users = {<<o, c>>}
        BY <1>1, <3>3 DEF IInv, ReleasersInv
      <4>2. own = {}
        BY <1>1, <3>3 DEF IInv, ReleasersInv
      <4> HIDE DEF own, users
      <4>3. Cardinality(users) = 1
        BY <4>1, FS_Singleton
      <4>4. Cardinality(own) = 0
        BY <4>2, FS_EmptySet
      <4> QED BY <4>3, <4>4
    <3> QED BY <1>1, <3>1, <3>2, <3>3 DEF IInv, ReleasersInv
  <2> QED BY <2>1, <2>2 DEF OneReleasePerEntry
<1> QED BY <1>1, Inductive, PTL

-----------------------------------------------------------------------------
(* StreamAllocation implements ResourceCustody.                            *)

Asking(o) == at[o]["worker"] \in {"Prepare", "Dispatch"}
OwnFreed(o) == \E s \in Streams : holder[s] = o /\ holder' = [holder EXCEPT ![s] = Nobody]

\* What a step of o is to the custody of its stream; to the other operations it is nothing.
Quietly(o) == UNCHANGED holder /\ Outcome(o)' = Outcome(o) /\ (Asking(o)' <=> Asking(o))
Asks(o) ==
    /\ Asking(o) /\ ~Asking(o)'
    /\ UNCHANGED holder \/ \E s \in Streams : holder[s] = Nobody /\ holder' = [holder EXCEPT ![s] = o]
    /\ Outcome(o)' = Outcome(o) \/ (Outcome(o) = "Started" /\ Outcome(o)' = "Error")
Cancels(o) ==
    /\ Outcome(o) = "Started" /\ Outcome(o)' = "Canceled"
    /\ UNCHANGED holder /\ (Asking(o)' <=> Asking(o))
Fails(o) ==
    /\ Outcome(o) = "Started" /\ Outcome(o)' = "Error"
    /\ UNCHANGED holder \/ OwnFreed(o)
    /\ ~Asking(o) /\ ~Asking(o)'
Frees(o) ==
    /\ Outcome(o) \in {"Started", "Canceled", "GivenUp"} /\ Outcome(o)' = Outcome(o)
    /\ OwnFreed(o) /\ (Asking(o)' <=> Asking(o))
Delivers(o) ==
    /\ Outcome(o) = "Started" /\ Outcome(o)' = "Completed"
    /\ UNCHANGED holder /\ (\E s \in Streams : holder[s] = o) /\ (Asking(o)' <=> Asking(o))
GivesUp(o) ==
    /\ Outcome(o) = "Completed" /\ Outcome(o)' = "GivenUp"
    /\ UNCHANGED holder \/ OwnFreed(o)
    /\ (Asking(o)' <=> Asking(o))

Effect(o) == Quietly(o) \/ Asks(o) \/ Cancels(o) \/ Fails(o) \/ Frees(o) \/ Delivers(o) \/ GivesUp(o)
Alone(o) == \A p \in Ops \ {o} : Outcome(p)' = Outcome(p) /\ (Asking(p)' <=> Asking(p))

\* A step of one operation changes the outcomes at that operation only,
LEMMA OneOutcome ==
    ASSUME NEW o \in Ops, Alone(o)
    PROVE  [p \in Ops |-> Outcome(p)]' = [[p \in Ops |-> Outcome(p)] EXCEPT ![o] = Outcome(o)']
  BY DEF Alone

\* and who has asked likewise.
LEMMA OneAsks ==
    ASSUME NEW o \in Ops, Alone(o)
    PROVE  /\ (Asking(o)' <=> Asking(o)) => {p \in Ops : ~Asking(p)}' = {p \in Ops : ~Asking(p)}
           /\ Asking(o) /\ ~Asking(o)' => {p \in Ops : ~Asking(p)}' = {p \in Ops : ~Asking(p)} \cup {o}
  BY DEF Alone

\* Every effect is a step of the custody, or a stutter.
LEMMA EffectImplements ==
    ASSUME NEW o \in Ops, Alone(o), Effect(o)
    PROVE  [Custody!Next]_(Custody!vars)
<1> DEFINE outcomes == [p \in Ops |-> Outcome(p)]
           asked == {p \in Ops : ~Asking(p)}
<1>1. {p \in Ops : at[p]["worker"] \notin {"Prepare", "Dispatch"}} = asked
  BY DEF Asking
<1>2. {p \in Ops : at[p]["worker"] \notin {"Prepare", "Dispatch"}}' = asked'
  BY DEF Asking
<1>3. outcomes' = [outcomes EXCEPT ![o] = Outcome(o)'] /\ outcomes[o] = Outcome(o)
  BY OneOutcome
<1>4. /\ (Asking(o)' <=> Asking(o)) => asked' = asked
      /\ Asking(o) /\ ~Asking(o)' => asked' = asked \cup {o}
      /\ o \in asked <=> ~Asking(o)
  BY OneAsks
<1>5. Outcome(o)' = Outcome(o) => outcomes' = outcomes
  BY <1>3
<1> HIDE DEF outcomes, asked
<1>6. CASE Quietly(o)
  BY <1>1, <1>2, <1>4, <1>5, <1>6 DEF Quietly, Custody!vars, outcomes
<1>7. CASE Asks(o)
  BY <1>1, <1>2, <1>3, <1>4, <1>5, <1>7 DEF Asks, Custody!Next, Custody!Ask, Custody!Becomes, outcomes
<1>8. CASE Cancels(o)
  BY <1>1, <1>2, <1>3, <1>4, <1>8 DEF Cancels, Custody!Next, Custody!Cancel, Custody!Becomes, outcomes
<1>9. CASE Fails(o)
  BY <1>1, <1>2, <1>3, <1>4, <1>9
     DEF Fails, OwnFreed, Custody!Next, Custody!Fail, Custody!Freed, Custody!Becomes, outcomes
<1>10. CASE Frees(o)
  BY <1>1, <1>2, <1>3, <1>4, <1>5, <1>10
     DEF Frees, OwnFreed, Custody!Next, Custody!Free, Custody!Freed, outcomes
<1>11. CASE Delivers(o)
  BY <1>1, <1>2, <1>3, <1>4, <1>11
     DEF Delivers, Custody!Next, Custody!Deliver, Custody!Holds, Custody!Becomes, outcomes
<1>12. CASE GivesUp(o)
  BY <1>1, <1>2, <1>3, <1>4, <1>12
     DEF GivesUp, OwnFreed, Custody!Next, Custody!GiveUp, Custody!Freed, Custody!Becomes, outcomes
<1> QED BY <1>6, <1>7, <1>8, <1>9, <1>10, <1>11, <1>12 DEF Effect


\* What IInv says of an operation that the steps below need.
OwnerFacts(o) ==
    /\ status[o] \in {"Started", "Canceled", "Completed", "Error"}
    /\ at[o] \in [Actors -> Positions]
    /\ o \in delivered => status[o] = "Completed"
    /\ status[o] \in {"Completed", "Error"} => at[o]["worker"] = "Done"
    /\ \A a \in Actors : at[o][a] \in Releasing => status[o] \in {"Started", "Canceled"}
    /\ \A a \in Actors : at[o][a] \in {"CallRelease", "SendRelease"} =>
         owner[o].stream \in Streams /\ holder[owner[o].stream] = o
    /\ at[o]["background"] \notin Unrecorded
    /\ at[o]["worker"] = "Commit" => media[o] = "audio"
    /\ at[o]["worker"] = "Deliver" /\ status[o] = "Started" =>
         owner[o].stream \in Streams /\ holder[owner[o].stream] = o
    /\ o \in delivered => owner[o].stream \in Streams /\ holder[owner[o].stream] = o
    /\ \A c \in Calls : userCall[o][c] # "Idle" => status[o] = "Completed" /\ o \notin delivered
    /\ \A c \in Calls : userCall[o][c] = "Send" => owner[o].stream \in Streams /\ holder[owner[o].stream] = o

\* The facts hold.
LEMMA OwnerFactsHold ==
    ASSUME IInv, NEW o \in Ops PROVE OwnerFacts(o)
<1>1. TypeInv /\ StageInv /\ HoldInv /\ ReleasersInv
  BY DEF IInv
<1>2. /\ status[o] \in {"Started", "Canceled", "Completed", "Error"} /\ at[o] \in [Actors -> Positions]
      /\ owner[o] \in OwnerType
  BY <1>1 DEF TypeInv, OwnerTypeOK
<1>3. CancelInv(o) /\ ReleaseInv(o) /\ WorkInv(o)
  BY <1>1 DEF StageInv
<1>4. owner[o].stream # NoStream /\ sent[o] = 0 /\ ~GivenUp(o) => holder[owner[o].stream] = o
  BY <1>1 DEF HoldInv
<1>5. \A a \in Actors : at[o][a] \in Releasing =>
         owner[o].release = "started" /\ owner[o].stream \in Streams /\ status[o] \in {"Started", "Canceled"}
  BY <1>2, <1>3 DEF ReleaseInv, WorkInv, Over
<1>6. at[o]["worker"] = "Deliver" /\ status[o] = "Started" =>
         owner[o].stream \in Streams /\ holder[owner[o].stream] = o
  BY <1>2, <1>3, <1>4 DEF CancelInv, ReleaseInv, WorkInv, GivenUp
<1>7. o \in delivered => owner[o].stream \in Streams /\ holder[owner[o].stream] = o
  BY <1>2, <1>3, <1>4 DEF ReleaseInv, WorkInv, GivenUp
<1>8. \A c \in Calls : userCall[o][c] # "Idle" => status[o] = "Completed" /\ o \notin delivered
  BY <1>1 DEF ReleasersInv, GivenUp
<1>9. \A c \in Calls : userCall[o][c] = "Send" => owner[o].stream \in Streams /\ holder[owner[o].stream] = o
  BY <1>1, <1>2, <1>3, <1>8 DEF HoldInv, WorkInv
<1>10. \A a \in Actors : at[o][a] \in {"CallRelease", "SendRelease"} =>
         owner[o].stream \in Streams /\ holder[owner[o].stream] = o
  BY <1>3, <1>4, <1>5 DEF ReleaseInv, GivenUp
<1> QED BY <1>2, <1>3, <1>5, <1>6, <1>7, <1>8, <1>9, <1>10 DEF OwnerFacts, WorkInv

\* Every step of an operation is alone and has one of the effects.
LEMMA StepEffect ==
    ASSUME IInv, NEW o \in Ops, Step(o)
    PROVE  Alone(o) /\ Effect(o)
<1>0. OwnerFacts(o)
  BY OwnerFactsHold
<1>t. /\ status \in [Ops -> {"Started", "Canceled", "Completed", "Error"}]
      /\ at \in [Ops -> [Actors -> Positions]]
      /\ holder \in [Streams -> Ops \cup {Nobody}]
  BY DEF IInv, TypeInv, OwnerTypeOK
<1> HIDE DEF IInv, Step
<1> USE <1>0, <1>t DEF OwnerFacts, Alone, Effect, Outcome, Asking, Throw, Kinds
<1>1. CASE CancelAsync(o) /\ TableUnchanged
  BY <1>1 DEF CancelAsync, Cancels
<1>2. CASE CallbackFlag(o) /\ TableUnchanged
  BY <1>2 DEF CallbackFlag, Quietly
<1>3. CASE Cancel(o) /\ TableUnchanged
  BY <1>3 DEF Cancel, Quietly
<1>4. CASE RecordStream(o) /\ TableUnchanged
  BY <1>4 DEF RecordStream, Record, Quietly
<1>5. CASE Complete(o) /\ TableUnchanged
  BY <1>5 DEF Complete, Quietly, Delivers
<1>6. CASE BackgroundEnds(o) /\ TableUnchanged
  BY <1>6 DEF BackgroundEnds, Quietly
<1>7. CASE Prepare(o)
  BY <1>7 DEF Prepare, Quietly, Asks
<1>8. CASE Dispatch(o)
  <2>1. Alone(o)
    BY <1>8 DEF Dispatch, Fail
  <2>2. Asks(o)
    BY <1>8 DEF Dispatch, Fail, Asks
  <2> QED BY <2>1, <2>2
<1>9. CASE CommitStream(o)
  BY <1>9 DEF CommitStream, Fail, Quietly
<1>10. CASE CheckCanceled(o)
  BY <1>10 DEF CheckCanceled, Quietly
<1>11. CASE Readback(o)
  BY <1>11 DEF Readback, Quietly
<1>12. CASE ResultFails(o)
  BY <1>12 DEF ResultFails, Quietly
<1>13. CASE InnerCatch(o)
  BY <1>13 DEF InnerCatch, Fail, Quietly, Fails
<1>14. CASE OuterCatch(o)
  BY <1>14 DEF OuterCatch, Quietly, Fails
<1>15. CASE GiveUp(o)
  BY <1>15 DEF GiveUp, GivesUp, OwnFreed
<1>16. ASSUME NEW a \in Actors, ActorStep(o, a) PROVE Alone(o) /\ Effect(o)
  <2>1. CASE CallRelease(o, a)
    BY <2>1 DEF CallRelease, ReleaseCommand, Quietly, Frees, OwnFreed
  <2>2. CASE CallAudioRelease(o, a)
    BY <2>2 DEF CallAudioRelease, Quietly
  <2>3. CASE SendRelease(o, a)
    BY <2>3 DEF SendRelease, Quietly, Frees, OwnFreed
  <2>4. CASE FinishRelease(o, a)
    BY <2>4 DEF FinishRelease, Quietly
  <2>5. CASE EnterRelease(o, a) /\ TableUnchanged
    BY <2>5 DEF EnterRelease, Quietly
  <2>6. CASE StoreRelease(o, a) /\ TableUnchanged
    BY <2>6 DEF StoreRelease, Quietly
  <2>7. CASE AwaitRelease(o, a) /\ TableUnchanged
    BY <2>7 DEF AwaitRelease, Quietly
  <2> QED BY <1>16, <2>1, <2>2, <2>3, <2>4, <2>5, <2>6, <2>7 DEF ActorStep
<1>17. ASSUME NEW c \in Calls, CallerStep(o, c) PROVE Alone(o) /\ Effect(o)
  <2>1. CASE UserStarts(o, c)
    BY <2>1 DEF UserStarts, Quietly, GivesUp
  <2>2. CASE UserSends(o, c)
    BY <2>2 DEF UserSends, Quietly, Frees, OwnFreed
  <2>3. CASE UserFinishes(o, c)
    BY <2>3 DEF UserFinishes, Quietly
  <2> QED BY <1>17, <2>1, <2>2, <2>3 DEF CallerStep
<1> QED BY <1>1, <1>2, <1>3, <1>4, <1>5, <1>6, <1>7, <1>8, <1>9, <1>10, <1>11, <1>12, <1>13, <1>14, <1>15,
           <1>16, <1>17 DEF Step

\* Workers, cancellation, releasers and the ownership table implement the custody of streams:
\* whatever falls together, an operation gives back only its own stream, before it reports a
\* failure, and what it delivered is its caller's alone to give back.
THEOREM StreamsInCustody == Spec => ImplementsCustody
<1>1. Init => Custody!Init
  BY DEF Init, InitOwner, Outcome, Custody!Init
<1>2. IInv /\ [Next]_streamVars => [Custody!Next]_(Custody!vars)
  <2>1. CASE UNCHANGED streamVars
    BY <2>1 DEF streamVars, vars, Outcome, Custody!vars
  <2>2. ASSUME IInv, NEW o \in Ops, Step(o) PROVE [Custody!Next]_(Custody!vars)
    BY <2>2, StepEffect, EffectImplements
  <2> QED BY <2>1, <2>2, StepCases
<1> QED BY <1>1, <1>2, Inductive, PTL DEF Spec, ImplementsCustody, Custody!Spec

=============================================================================
