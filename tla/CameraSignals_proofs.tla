------------------------- MODULE CameraSignals_proofs -------------------------
(***************************************************************************)
(* Proofs about CameraSession and CameraSignals for any number of startups, *)
(* handles, waits and signals.                                              *)
(*                                                                          *)
(* SessionInv is the invariant of the sessions: how far each startup, its   *)
(* cancellation and its release have come (StageInv), whose command is in   *)
(* progress (CommandInv), the one holder of the gates (GateInv), the one    *)
(* session of the host (HostInv), who uses it (UseInv) and who knows of it  *)
(* (OwnedInv).  SignalInv is that of the signals: a signal is queued, taken *)
(* by a wait or received, in the order of arrival from the back of the      *)
(* queue to the first that was received.  The proofs of the sessions have a *)
(* step for each action of the host (StepCases), those of the signals use   *)
(* of the host only that a handle is new and that the queue goes with its   *)
(* session.                                                                 *)
(***************************************************************************)
EXTENDS CameraSignals, TLAPS

\* Where a startup has a session on the host that its owner does not know of yet; up to the
\* last of these steps it holds the gates.
Hosting == {"Offer", "Offered", "EndFailed", "CloseFailed", "Info"}
Gated == {"Create"} \cup Hosting
Unrecorded == {"Prepare", "Gate", "Record"} \cup Gated
Recorded == {"CheckFirst", "Readback", "CheckLast", "Deliver"}
Releasing == {"CallRelease", "Closing", "ReleaseSent", "ReleaseFailed"}
Positions == Unrecorded \cup Recorded \cup Releasing \cup {"Release", "AwaitRelease"} \cup Ends

\* Where a command holds the gates, and where it uses the session.
Using == {"Send", "End", "LocalEnded", "LocalUnended"}
Holding == {"Revalidate"} \cup Using

\* No release of the operation's session is left to make.
Over(o) == owner[o].stream = NoStream \/ owner[o].release = "finished"

TypeInv ==
    /\ OwnerTypeOK
    /\ at \in [Ops -> [Actors -> Positions]]
    /\ command \in [Ops -> [Callers -> CommandSteps]]
    /\ active \in Streams \cup {0} /\ client \in BOOLEAN
    /\ nextHandle \in Nat \ {0} /\ nextEndpoint \in Nat

\* That the gates' holder is well typed is kept apart from what the other proofs need.
GateTyped == gate \in (Ops \X Callers) \cup {NoUser}

CancelInv(o) ==
    /\ status[o] = "Canceled" <=> callback[o] # "Idle"
    /\ owner[o].canceled <=> callback[o] = "Done"
    /\ at[o]["background"] # "Idle" => owner[o].canceled
    /\ owner[o].canceled /\ at[o]["background"] = "Idle" => owner[o].stream = NoStream

ReleaseInv(o) ==
    /\ owner[o].release = "none" => sent[o] = 0
    /\ owner[o].release = "started" =>
         owner[o].stream # NoStream /\ \E a \in Actors : at[o][a] \in Releasing
    /\ owner[o].release = "finished" /\ ~owner[o].failure => owner[o].stream = NoStream
    /\ \A a \in Actors :
         /\ at[o][a] \in Releasing =>
              owner[o].release = "started" /\ \A b \in Actors : at[o][b] \in Releasing => b = a
         /\ at[o][a] = "CallRelease" => sent[o] = 0
         /\ at[o][a] = "AwaitRelease" => owner[o].release # "none"
         /\ at[o][a] \in {"Returned", "Rethrown"} => Over(o)
    /\ sent[o] <= 1

WorkInv(o) ==
    /\ at[o]["worker"] \in Unrecorded =>
         owner[o].stream = NoStream /\ owner[o].release = "none" /\ at[o]["background"] = "Idle"
    /\ at[o]["worker"] \in Recorded /\ at[o]["background"] = "Idle" =>
         owner[o].stream # NoStream /\ owner[o].release = "none"
    /\ at[o]["background"] \notin Unrecorded \cup Recorded
    /\ at[o]["background"] = "Done" => Over(o)
    /\ status[o] = "Error" => at[o]["worker"] = "Done" /\ Over(o)
    /\ status[o] = "Completed" =>
         /\ at[o]["worker"] = "Done" /\ at[o]["background"] = "Idle"
         /\ owner[o].stream # NoStream /\ owner[o].release = "none"

StageInv == \A o \in Ops : CancelInv(o) /\ ReleaseInv(o) /\ WorkInv(o)

\* A command belongs to the releaser that called CloseCamera or to a user of a session.
CommandInv ==
    \A o \in Ops :
        /\ \A a \in Actors : command[o][a] # "Idle" <=> at[o][a] = "Closing"
        /\ \A c \in Callers \ Actors : command[o][c] # "Idle" => status[o] = "Completed"
        /\ \A c \in Callers : command[o][c] = "Send" => c = "sender"
        /\ command[o]["sender"] \notin {"End", "LocalEnded", "LocalUnended"}

\* The gates have one holder.
GateInv ==
    \A o \in Ops :
        /\ at[o]["worker"] \in Gated => gate = <<o, "worker">>
        /\ \A c \in Callers : command[o][c] \in Holding => gate = <<o, c>>

\* The host has one session at a time, handles are never used again, and a handle that an
\* owner knows is its own session or one that is over.
HostInv ==
    /\ \A s \in Streams : holder[s] # Nobody => s = active
    /\ active # 0 => holder[active] # Nobody
    /\ client => active # 0
    /\ active < nextHandle /\ nextHandle <= nextEndpoint /\ nextEndpoint <= MaxEndpoints + 1
    /\ \A o \in Ops : owner[o].stream # NoStream =>
         owner[o].stream < nextHandle /\ holder[owner[o].stream] \in {o, Nobody}

\* Who uses a session has it.
UseInv ==
    \A o \in Ops :
        /\ at[o]["worker"] \in Hosting \cup {"Record"} => client /\ active # 0 /\ holder[active] = o
        /\ \A c \in Callers : command[o][c] \in Using => Valid(owner[o].stream)

\* A session of the host has an owner that knows it, or a startup that will record or close
\* it; and a release that is reported as done has been.
OwnedInv ==
    \A o \in Ops :
        /\ \A s \in Streams : holder[s] = o /\ client =>
             owner[o].stream = s \/ at[o]["worker"] \in Hosting \cup {"Record"}
        /\ \A a \in Actors : command[o][a] = "Closed" \/ at[o][a] = "ReleaseSent" =>
             ~Valid(owner[o].stream)

SessionInv == TypeInv /\ GateTyped /\ StageInv /\ CommandInv /\ GateInv /\ HostInv /\ UseInv /\ OwnedInv

-----------------------------------------------------------------------------
(* Signals.                                                                 *)

WaitType == [step : {"Idle", "Poll", "Return"}, handle : Streams \cup {0},
             signal : Signals \cup {NoSignal}, canceled : BOOLEAN]

SignalTypeInv ==
    /\ signals \in Seq(Signals)
    /\ arrived \in 0 .. MaxSignals
    /\ wait \in [Waits -> WaitType]
    /\ received \in [Streams -> Seq(Signals)]
    /\ dropped \subseteq Signals

\* The queue has signals of the active session, in the order of their arrival.
QueueInv ==
    /\ active = 0 => arrived = 0 /\ signals = <<>>
    /\ \A i \in 1 .. Len(signals) : signals[i][1] = active /\ signals[i][2] <= arrived
    /\ \A i, j \in 1 .. Len(signals) : i < j => signals[i][2] < signals[j][2]

\* A session has one wait, and what that has taken precedes what is queued.
WaitOf(w) ==
    /\ wait[w].step = "Idle" <=> wait[w] = NoWait
    /\ wait[w].step # "Idle" => wait[w].handle # 0 /\ wait[w].handle < nextHandle
    /\ wait[w].step # "Return" => wait[w].signal = NoSignal
    /\ wait[w].step = "Return" =>
         /\ wait[w].signal # NoSignal /\ wait[w].signal[1] = wait[w].handle
         /\ wait[w].handle = active =>
              /\ wait[w].signal[2] <= arrived
              /\ \A i \in 1 .. Len(signals) : wait[w].signal[2] < signals[i][2]

WaitInv ==
    /\ \A w \in Waits : WaitOf(w)
    /\ \A w, v \in Waits : wait[w].handle = wait[v].handle /\ wait[w].handle # 0 => w = v

\* What was received precedes what a wait has taken and what is queued.
ReceivedOf(h, i) ==
    /\ h < nextHandle
    /\ received[h][i][1] = h
    /\ \A j \in 1 .. Len(received[h]) : i < j => received[h][i][2] < received[h][j][2]
    /\ \A w \in Waits : wait[w].step = "Return" /\ wait[w].handle = h =>
         received[h][i][2] < wait[w].signal[2]
    /\ h = active =>
         /\ received[h][i][2] <= arrived
         /\ \A j \in 1 .. Len(signals) : received[h][i][2] < signals[j][2]

ReceivedInv == \A h \in Streams : \A i \in 1 .. Len(received[h]) : ReceivedOf(h, i)

SignalInv == SignalTypeInv /\ QueueInv /\ WaitInv /\ ReceivedInv /\ QueuedUntilConsumed

IInv == SessionInv /\ SignalInv

-----------------------------------------------------------------------------
(* Steps of the host.                                                       *)

sessionVars == <<vars, hostVars>>

ActorStep(o, a) ==
    \/ (EnterRelease(o, a) \/ StoreRelease(o, a) \/ AwaitRelease(o, a)) /\ UNCHANGED hostVars
    \/ CallRelease(o, a) \/ ReleaseReturns(o, a)

CallerStep(o, c) ==
    \/ UserCalls(o, c) \/ ValidateCommand(o, c) \/ AcquireGates(o, c) \/ Revalidate(o, c)
    \/ SendEnd(o, c) \/ CloseLocalSession(o, c)

HostStep(o) ==
    \/ (CancelAsync(o) \/ CallbackFlag(o) \/ Cancel(o) \/ Complete(o) \/ BackgroundEnds(o))
       /\ UNCHANGED hostVars
    \/ Prepare(o) \/ PassGate(o) \/ Create(o) \/ Offer(o) \/ CheckOffered(o) \/ ReadInfo(o)
    \/ EndFailedStart(o) \/ CloseFailedStart(o) \/ RecordHandle(o) \/ CheckCanceled(o) \/ Readback(o)
    \/ WorkerFails(o) \/ SendCandidates(o)
    \/ \E a \in Actors : ActorStep(o, a)
    \/ \E c \in Callers : CallerStep(o, c)

\* A command is a releaser's, a user's or that of the thread that sends candidates.
LEMMA CallersAre ==
    /\ "worker" \in Callers /\ "background" \in Callers /\ "sender" \in Callers
    /\ \A c \in Users : c \in Callers \ (Actors \cup {"sender"})
    /\ \A c \in Callers : c \in Users \cup Actors \cup {"sender"}
  BY UserAssumption DEF Callers, Actors

LEMMA NamedCallers == "worker" \in Callers /\ "background" \in Callers /\ "sender" \in Callers
  BY CallersAre

USE NamedCallers DEF Actors

\* A step of the host is one of one operation's.
LEMMA StepCases == [HostNext]_sessionVars => UNCHANGED sessionVars \/ \E o \in Ops : HostStep(o)
<1>1. ASSUME NEW o \in Ops,
             \/ Owner(o) /\ UNCHANGED hostVars
             \/ Worker(o) \/ SendCandidates(o)
             \/ \E c \in Callers : UserCalls(o, c) \/ Command(o, c)
      PROVE  HostStep(o)
  <2>1. CASE Owner(o) /\ UNCHANGED hostVars
    BY <2>1 DEF Owner, HostStep, ActorStep
  <2>2. CASE Worker(o)
    BY <2>2 DEF Worker, HostStep, ActorStep
  <2>3. CASE SendCandidates(o)
    BY <2>3 DEF HostStep
  <2>4. CASE \E c \in Callers : UserCalls(o, c) \/ Command(o, c)
    BY <2>4 DEF Command, HostStep, CallerStep
  <2> QED BY <1>1, <2>1, <2>2, <2>3, <2>4
<1> QED BY <1>1 DEF HostNext

USE DEF Positions, Unrecorded, Recorded, Releasing, Hosting, Gated, Ends, Goto, EndCommand, Using, Holding,
        CommandSteps

\* Program counters keep their type.
LEMMA CountersTyped ==
    ASSUME at \in [Ops -> [Actors -> Positions]], [HostNext]_sessionVars
    PROVE  at' \in [Ops -> [Actors -> Positions]]
<1>1. CASE UNCHANGED sessionVars
  BY <1>1 DEF Goto, sessionVars, vars
<1>2. ASSUME NEW o \in Ops, HostStep(o)
      PROVE  at' \in [Ops -> [Actors -> Positions]]
  <2>1. CASE CancelAsync(o) /\ UNCHANGED hostVars
    BY <2>1 DEF CancelAsync, hostVars, Goto
  <2>2. CASE CallbackFlag(o) /\ UNCHANGED hostVars
    BY <2>2 DEF CallbackFlag, hostVars, Goto
  <2>3. CASE Cancel(o) /\ UNCHANGED hostVars
    BY <2>3 DEF Cancel, hostVars, Goto
  <2>4. CASE Complete(o) /\ UNCHANGED hostVars
    BY <2>4 DEF Complete, hostVars, Goto
  <2>5. CASE BackgroundEnds(o) /\ UNCHANGED hostVars
    BY <2>5 DEF BackgroundEnds, hostVars, Goto
  <2>6. CASE Prepare(o)
    BY <2>6 DEF Prepare, Throw, hostVars, Goto
  <2>7. CASE PassGate(o)
    BY <2>7 DEF PassGate, Throw, Goto
  <2>8. CASE Create(o)
    BY <2>8 DEF Create, CreateSession, CreateFails, CreateUndone, Throw, Goto
  <2>9. CASE Offer(o)
    BY <2>9 DEF Offer, hostVars, Goto
  <2>10. CASE CheckOffered(o)
    BY <2>10 DEF CheckOffered, hostVars, Goto
  <2>11. CASE ReadInfo(o)
    BY <2>11 DEF ReadInfo, Goto
  <2>12. CASE EndFailedStart(o)
    BY <2>12 DEF EndFailedStart, hostVars, Goto
  <2>13. CASE CloseFailedStart(o)
    BY <2>13 DEF CloseFailedStart, CloseLocal, Throw, Goto
  <2>14. CASE RecordHandle(o)
    BY <2>14 DEF RecordHandle, Record, hostVars, Goto
  <2>15. CASE CheckCanceled(o)
    BY <2>15 DEF CheckCanceled, hostVars, Goto
  <2>16. CASE Readback(o)
    BY <2>16 DEF Readback, hostVars, Goto
  <2>17. CASE WorkerFails(o)
    BY <2>17 DEF WorkerFails, Throw, hostVars, Goto
  <2>18. CASE SendCandidates(o)
    BY <2>18 DEF SendCandidates, Step, vars, Goto
  <2>19. ASSUME NEW a \in Actors, ActorStep(o, a)
        PROVE  at' \in [Ops -> [Actors -> Positions]]
    <3>1. CASE EnterRelease(o, a) /\ UNCHANGED hostVars
      BY <3>1 DEF EnterRelease, hostVars, Goto
    <3>2. CASE StoreRelease(o, a) /\ UNCHANGED hostVars
      BY <3>2 DEF StoreRelease, hostVars, Goto
    <3>3. CASE AwaitRelease(o, a) /\ UNCHANGED hostVars
      BY <3>3 DEF AwaitRelease, hostVars, Goto
    <3>4. CASE CallRelease(o, a)
      BY <3>4 DEF CallRelease, Step, Goto
    <3>5. CASE ReleaseReturns(o, a)
      BY <3>5 DEF ReleaseReturns, Step, Goto
    <3> QED BY <2>19, <3>1, <3>2, <3>3, <3>4, <3>5 DEF ActorStep
  <2>20. ASSUME NEW c \in Callers, CallerStep(o, c)
        PROVE  at' \in [Ops -> [Actors -> Positions]]
    <3>1. CASE UserCalls(o, c)
      BY <3>1 DEF UserCalls, Step, Goto
    <3>2. CASE ValidateCommand(o, c)
      BY <3>2 DEF ValidateCommand, Step, vars, Goto
    <3>3. CASE AcquireGates(o, c)
      BY <3>3 DEF AcquireGates, Step, vars, Goto
    <3>4. CASE Revalidate(o, c)
      BY <3>4 DEF Revalidate, Step, vars, Goto
    <3>5. CASE SendEnd(o, c)
      BY <3>5 DEF SendEnd, Step, vars, Goto
    <3>6. CASE CloseLocalSession(o, c)
      BY <3>6 DEF CloseLocalSession, CloseLocal, Step, Goto
    <3> QED BY <2>20, <3>1, <3>2, <3>3, <3>4, <3>5, <3>6 DEF CallerStep
  <2> QED BY <1>2, <2>1, <2>2, <2>3, <2>4, <2>5, <2>6, <2>7, <2>8, <2>9, <2>10, <2>11, <2>12, <2>13, <2>14,
     <2>15, <2>16, <2>17, <2>18, <2>19, <2>20 DEF HostStep
<1> QED BY <1>1, <1>2, StepCases

\* The other operations' stages are left alone.
Elsewhere(o) ==
    \A p \in Ops : p # o =>
        /\ at'[p] = at[p] /\ owner'[p] = owner[p] /\ status'[p] = status[p]
        /\ callback'[p] = callback[p] /\ sent'[p] = sent[p]

\* A step of one operation need only be looked at for that operation.
LEMMA StageOfOne ==
    ASSUME StageInv, NEW o \in Ops, Elsewhere(o), CancelInv(o)', ReleaseInv(o)', WorkInv(o)'
    PROVE  StageInv'
  BY DEF StageInv, Elsewhere, CancelInv, ReleaseInv, WorkInv, Over

\* A worker that moves among the steps outside Release leaves the release as it is.
LEMMA WorkerMoves ==
    ASSUME NEW o \in Ops, ReleaseInv(o), UNCHANGED <<owner, sent>>,
           at'[o]["background"] = at[o]["background"],
           at[o]["worker"] \notin Releasing,
           at'[o]["worker"] \notin Releasing \cup {"AwaitRelease", "Returned", "Rethrown"}
    PROVE  ReleaseInv(o)'
<1>1. \A a \in Actors : at'[o][a] \in Releasing => a = "background" /\ at'[o][a] = at[o][a]
  OBVIOUS
<1>2. owner'[o].release = "started" =>
        owner'[o].stream # NoStream /\ \E a \in Actors : at'[o][a] \in Releasing
  BY DEF ReleaseInv
<1> QED BY <1>1, <1>2 DEF ReleaseInv, Over

\* How far each operation has come.
LEMMA StageStep ==
    ASSUME TypeInv, StageInv, CommandInv, UseInv, OwnedInv, [HostNext]_sessionVars
    PROVE  StageInv'
<1>1. CASE UNCHANGED sessionVars
  BY <1>1 DEF TypeInv, OwnerTypeOK, OwnerType, StageInv, CancelInv, ReleaseInv, WorkInv, Over, sessionVars,
     vars
<1>2. ASSUME NEW o \in Ops, HostStep(o)
      PROVE  StageInv'
  <2>1. CASE CancelAsync(o) /\ UNCHANGED hostVars
    BY <2>1 DEF CancelAsync, hostVars, TypeInv, OwnerTypeOK, OwnerType, StageInv, CancelInv, ReleaseInv,
       WorkInv, Over
  <2>2. CASE CallbackFlag(o) /\ UNCHANGED hostVars
    BY <2>2 DEF CallbackFlag, hostVars, TypeInv, OwnerTypeOK, OwnerType, StageInv, CancelInv, ReleaseInv,
       WorkInv, Over
  <2>3. CASE Cancel(o) /\ UNCHANGED hostVars
    BY <2>3 DEF Cancel, hostVars, TypeInv, OwnerTypeOK, OwnerType, StageInv, CancelInv, ReleaseInv, WorkInv,
       Over
  <2>4. CASE Complete(o) /\ UNCHANGED hostVars
    BY <2>4 DEF Complete, hostVars, TypeInv, OwnerTypeOK, OwnerType, StageInv, CancelInv, ReleaseInv,
       WorkInv, Over
  <2>5. CASE BackgroundEnds(o) /\ UNCHANGED hostVars
    BY <2>5 DEF BackgroundEnds, hostVars, TypeInv, OwnerTypeOK, OwnerType, StageInv, CancelInv, ReleaseInv,
       WorkInv, Over
  <2>6. CASE Prepare(o)
    <3>1. Elsewhere(o)
      BY <2>6 DEF Prepare, Throw, hostVars, Elsewhere, TypeInv, OwnerTypeOK
    <3>2. CancelInv(o)'
      BY <2>6 DEF Prepare, Throw, hostVars, TypeInv, OwnerTypeOK, OwnerType, StageInv, CancelInv,
         ReleaseInv, WorkInv, Over
    <3>3. ReleaseInv(o)'
      <4>1. /\ UNCHANGED <<owner, sent>> /\ at'[o]["background"] = at[o]["background"]
            /\ at[o]["worker"] \notin Releasing
            /\ at'[o]["worker"] \notin Releasing \cup {"AwaitRelease", "Returned", "Rethrown"}
        BY <2>6 DEF Prepare, Throw, hostVars, TypeInv
      <4> QED BY <4>1, WorkerMoves DEF StageInv
    <3>4. WorkInv(o)'
      BY <2>6 DEF Prepare, Throw, hostVars, TypeInv, OwnerTypeOK, OwnerType, StageInv, CancelInv,
         ReleaseInv, WorkInv, Over
    <3> QED BY <3>1, <3>2, <3>3, <3>4, StageOfOne
  <2>7. CASE PassGate(o)
    BY <2>7 DEF PassGate, Throw, TypeInv, OwnerTypeOK, OwnerType, StageInv, CancelInv, ReleaseInv, WorkInv,
       Over
  <2>8. CASE Create(o)
    <3>1. Elsewhere(o)
      BY <2>8 DEF Create, CreateSession, CreateFails, CreateUndone, Throw, Elsewhere, TypeInv, OwnerTypeOK
    <3>2. CancelInv(o)'
      BY <2>8 DEF Create, CreateSession, CreateFails, CreateUndone, Throw, TypeInv, OwnerTypeOK,
         OwnerType, StageInv, CancelInv, ReleaseInv, WorkInv, Over
    <3>3. ReleaseInv(o)'
      <4>1. /\ UNCHANGED <<owner, sent>> /\ at'[o]["background"] = at[o]["background"]
            /\ at[o]["worker"] \notin Releasing
            /\ at'[o]["worker"] \notin Releasing \cup {"AwaitRelease", "Returned", "Rethrown"}
        BY <2>8 DEF Create, CreateSession, CreateFails, CreateUndone, Throw, TypeInv
      <4> QED BY <4>1, WorkerMoves DEF StageInv
    <3>4. WorkInv(o)'
      BY <2>8 DEF Create, CreateSession, CreateFails, CreateUndone, Throw, TypeInv, OwnerTypeOK,
         OwnerType, StageInv, CancelInv, ReleaseInv, WorkInv, Over
    <3> QED BY <3>1, <3>2, <3>3, <3>4, StageOfOne
  <2>9. CASE Offer(o)
    BY <2>9 DEF Offer, hostVars, TypeInv, OwnerTypeOK, OwnerType, StageInv, CancelInv, ReleaseInv, WorkInv,
       Over
  <2>10. CASE CheckOffered(o)
    BY <2>10 DEF CheckOffered, hostVars, TypeInv, OwnerTypeOK, OwnerType, StageInv, CancelInv, ReleaseInv,
       WorkInv, Over
  <2>11. CASE ReadInfo(o)
    <3>1. Elsewhere(o)
      BY <2>11 DEF ReadInfo, Elsewhere, TypeInv, OwnerTypeOK
    <3>2. CancelInv(o)'
      BY <2>11 DEF ReadInfo, TypeInv, OwnerTypeOK, OwnerType, StageInv, CancelInv, ReleaseInv, WorkInv, Over
    <3>3. ReleaseInv(o)'
      <4>1. /\ UNCHANGED <<owner, sent>> /\ at'[o]["background"] = at[o]["background"]
            /\ at[o]["worker"] \notin Releasing
            /\ at'[o]["worker"] \notin Releasing \cup {"AwaitRelease", "Returned", "Rethrown"}
        BY <2>11 DEF ReadInfo, TypeInv
      <4> QED BY <4>1, WorkerMoves DEF StageInv
    <3>4. WorkInv(o)'
      BY <2>11 DEF ReadInfo, TypeInv, OwnerTypeOK, OwnerType, StageInv, CancelInv, ReleaseInv, WorkInv, Over
    <3> QED BY <3>1, <3>2, <3>3, <3>4, StageOfOne
  <2>12. CASE EndFailedStart(o)
    BY <2>12 DEF EndFailedStart, hostVars, TypeInv, OwnerTypeOK, OwnerType, StageInv, CancelInv, ReleaseInv,
       WorkInv, Over
  <2>13. CASE CloseFailedStart(o)
    BY <2>13 DEF CloseFailedStart, CloseLocal, Throw, TypeInv, OwnerTypeOK, OwnerType, StageInv, CancelInv,
       ReleaseInv, WorkInv, Over
  <2>14. CASE RecordHandle(o)
    <3>1. Elsewhere(o)
      BY <2>14 DEF RecordHandle, Record, Elsewhere, TypeInv, OwnerTypeOK
    <3>2. PICK s \in Streams : holder[s] = o /\ Record(o, s, "CheckFirst")
      BY <2>14 DEF RecordHandle
    <3>3. /\ at[o]["worker"] = "Record" /\ at[o]["background"] = "Idle" /\ owner[o].stream = NoStream
          /\ owner[o].release = "none" /\ at'[o]["worker"] = "CheckFirst"
          /\ at'[o]["background"] = IF owner[o].canceled THEN "Release" ELSE at[o]["background"]
          /\ owner'[o] = [owner[o] EXCEPT !.stream = s] /\ UNCHANGED <<status, callback, sent>>
      BY <3>2 DEF Record, TypeInv, OwnerTypeOK, StageInv, WorkInv
    <3>4. /\ owner'[o].stream # NoStream /\ owner'[o].release = "none"
          /\ owner'[o].canceled = owner[o].canceled
      BY <3>3, StreamAssumption DEF TypeInv, OwnerTypeOK, OwnerType
    <3>5. CancelInv(o)'
      BY <3>3, <3>4 DEF StageInv, CancelInv
    <3>6. ReleaseInv(o)'
      BY <3>3, <3>4 DEF StageInv, ReleaseInv
    <3>7. WorkInv(o)'
      BY <3>3, <3>4 DEF StageInv, WorkInv, CancelInv
    <3> QED BY <3>1, <3>5, <3>6, <3>7, StageOfOne
  <2>15. CASE CheckCanceled(o)
    BY <2>15 DEF CheckCanceled, hostVars, TypeInv, OwnerTypeOK, OwnerType, StageInv, CancelInv, ReleaseInv,
       WorkInv, Over
  <2>16. CASE Readback(o)
    BY <2>16 DEF Readback, hostVars, TypeInv, OwnerTypeOK, OwnerType, StageInv, CancelInv, ReleaseInv,
       WorkInv, Over
  <2>17. CASE WorkerFails(o)
    BY <2>17 DEF WorkerFails, Throw, hostVars, TypeInv, OwnerTypeOK, OwnerType, StageInv, CancelInv,
       ReleaseInv, WorkInv, Over
  <2>18. CASE SendCandidates(o)
    BY <2>18 DEF SendCandidates, Step, vars, TypeInv, OwnerTypeOK, OwnerType, StageInv, CancelInv,
       ReleaseInv, WorkInv, Over
  <2>19. ASSUME NEW a \in Actors, ActorStep(o, a)
        PROVE  StageInv'
    <3>1. CASE EnterRelease(o, a) /\ UNCHANGED hostVars
      <4>1. Elsewhere(o)
        BY <3>1 DEF EnterRelease, Elsewhere, TypeInv, OwnerTypeOK
      <4>5. /\ owner'[o].canceled = owner[o].canceled /\ owner'[o].stream = owner[o].stream
            /\ UNCHANGED <<status, callback>>
        BY <3>1 DEF EnterRelease, TypeInv, OwnerTypeOK, OwnerType
      <4>6. at'[o]["background"] = "Idle" <=> at[o]["background"] = "Idle"
        BY <3>1 DEF EnterRelease, TypeInv
      <4>2. CancelInv(o)'
        BY <4>5, <4>6 DEF StageInv, CancelInv
      <4>3. ReleaseInv(o)'
        <5>1. PICK step \in {"AwaitRelease", "Returned", "CallRelease"} :
                /\ Goto(o, a, step)
                /\ step = "AwaitRelease" => owner[o].release # "none" /\ owner' = owner
                /\ step = "Returned" => owner[o].stream = NoStream /\ owner' = owner
                /\ step = "CallRelease" => /\ owner[o].release = "none" /\ owner[o].stream # NoStream
                                           /\ owner' = [owner EXCEPT ![o].release = "started"]
          BY <3>1 DEF EnterRelease
        <5>2. \A b \in Actors : at'[o][b] = IF b = a THEN step ELSE at[o][b]
          BY <5>1 DEF TypeInv
        <5>3. owner \in [Ops -> OwnerType] /\ sent' = sent /\ ReleaseInv(o) /\ at[o][a] = "Release"
          BY <3>1 DEF EnterRelease, TypeInv, OwnerTypeOK, StageInv
        <5>4. CASE step = "CallRelease"
          <6>1. /\ owner'[o].release = "started" /\ owner'[o].stream = owner[o].stream
                /\ owner'[o].failure = owner[o].failure
            BY <5>1, <5>3, <5>4 DEF OwnerType
          <6>2. sent[o] = 0 /\ \A b \in Actors : at[o][b] \notin Releasing \cup {"AwaitRelease"}
            BY <5>1, <5>3, <5>4 DEF ReleaseInv
          <6>3. \A b \in Actors : at[o][b] \in {"Returned", "Rethrown"} => FALSE
            BY <5>1, <5>3, <5>4 DEF ReleaseInv, Over
          <6> QED BY <5>1, <5>2, <5>3, <5>4, <6>1, <6>2, <6>3 DEF ReleaseInv, Over
        <5>5. CASE step # "CallRelease"
          <6>1. owner' = owner /\ \A b \in Actors : at'[o][b] \in Releasing <=> at[o][b] \in Releasing
            BY <5>1, <5>2, <5>3, <5>5
          <6> QED BY <5>1, <5>2, <5>3, <5>5, <6>1 DEF ReleaseInv, Over
        <5> QED BY <5>4, <5>5
      <4>4. WorkInv(o)'
        BY <3>1 DEF EnterRelease, TypeInv, OwnerTypeOK, OwnerType, StageInv, CancelInv, ReleaseInv,
           WorkInv, Over
      <4> QED BY <4>1, <4>2, <4>3, <4>4, StageOfOne
    <3>2. CASE StoreRelease(o, a) /\ UNCHANGED hostVars
      <4>1. Elsewhere(o)
        BY <3>2 DEF StoreRelease, Elsewhere, TypeInv, OwnerTypeOK
      <4>o. owner \in [Ops -> OwnerType] /\ owner[o] \in OwnerType
        BY DEF TypeInv, OwnerTypeOK
      <4>2. /\ owner'[o].release = "finished" /\ owner'[o].failure = (at[o][a] = "ReleaseFailed")
            /\ owner'[o].stream = (IF at[o][a] = "ReleaseFailed" THEN owner[o].stream ELSE NoStream)
            /\ owner'[o].canceled = owner[o].canceled
        BY <3>2, <4>o DEF StoreRelease, OwnerType
      <4>3. /\ at[o][a] \in {"ReleaseSent", "ReleaseFailed"} /\ at'[o][a] \in {"Returned", "Rethrown"}
            /\ \A b \in Actors : b # a => at'[o][b] = at[o][b]
            /\ UNCHANGED <<status, callback, sent>>
        BY <3>2 DEF StoreRelease, TypeInv
      <4>4. CancelInv(o) /\ ReleaseInv(o) /\ WorkInv(o)
        BY DEF StageInv
      <4>5. CancelInv(o)'
        BY <4>2, <4>3, <4>4 DEF CancelInv, ReleaseInv
      <4>6. ReleaseInv(o)'
        <5>1. \A b \in Actors : at'[o][b] \notin Releasing
          BY <4>3, <4>4 DEF ReleaseInv
        <5> QED BY <4>2, <4>3, <4>4, <5>1 DEF ReleaseInv, Over
      <4>7. WorkInv(o)'
        BY <4>2, <4>3, <4>4 DEF WorkInv, ReleaseInv, Over
      <4> QED BY <4>1, <4>5, <4>6, <4>7, StageOfOne
    <3>3. CASE AwaitRelease(o, a) /\ UNCHANGED hostVars
      BY <3>3 DEF AwaitRelease, hostVars, TypeInv, OwnerTypeOK, OwnerType, StageInv, CancelInv, ReleaseInv,
         WorkInv, Over
    <3>4. CASE CallRelease(o, a)
      BY <3>4 DEF CallRelease, Step, TypeInv, OwnerTypeOK, OwnerType, StageInv, CancelInv, ReleaseInv,
         WorkInv, Over
    <3>5. CASE ReleaseReturns(o, a)
      BY <3>5 DEF ReleaseReturns, Step, TypeInv, OwnerTypeOK, OwnerType, StageInv, CancelInv, ReleaseInv,
         WorkInv, Over
    <3> QED BY <2>19, <3>1, <3>2, <3>3, <3>4, <3>5 DEF ActorStep
  <2>20. ASSUME NEW c \in Callers, CallerStep(o, c)
        PROVE  StageInv'
    <3>1. CASE UserCalls(o, c)
      BY <3>1 DEF UserCalls, Step, TypeInv, OwnerTypeOK, OwnerType, StageInv, CancelInv, ReleaseInv,
         WorkInv, Over
    <3>2. CASE ValidateCommand(o, c)
      BY <3>2 DEF ValidateCommand, Step, vars, TypeInv, OwnerTypeOK, OwnerType, StageInv, CancelInv,
         ReleaseInv, WorkInv, Over
    <3>3. CASE AcquireGates(o, c)
      BY <3>3 DEF AcquireGates, Step, vars, TypeInv, OwnerTypeOK, OwnerType, StageInv, CancelInv,
         ReleaseInv, WorkInv, Over
    <3>4. CASE Revalidate(o, c)
      BY <3>4 DEF Revalidate, Step, vars, TypeInv, OwnerTypeOK, OwnerType, StageInv, CancelInv, ReleaseInv,
         WorkInv, Over
    <3>5. CASE SendEnd(o, c)
      BY <3>5 DEF SendEnd, Step, vars, TypeInv, OwnerTypeOK, OwnerType, StageInv, CancelInv, ReleaseInv,
         WorkInv, Over
    <3>6. CASE CloseLocalSession(o, c)
      BY <3>6 DEF CloseLocalSession, CloseLocal, Step, TypeInv, OwnerTypeOK, OwnerType, StageInv, CancelInv,
         ReleaseInv, WorkInv, Over
    <3> QED BY <2>20, <3>1, <3>2, <3>3, <3>4, <3>5, <3>6 DEF CallerStep
  <2> QED BY <1>2, <2>1, <2>2, <2>3, <2>4, <2>5, <2>6, <2>7, <2>8, <2>9, <2>10, <2>11, <2>12, <2>13, <2>14,
     <2>15, <2>16, <2>17, <2>18, <2>19, <2>20 DEF HostStep
<1> QED BY <1>1, <1>2, StepCases

\* Entering Release moves one of the releasers, and leaves the recorded stream.
LEMMA EnterIs ==
    ASSUME TypeInv, NEW o \in Ops, NEW a \in Actors, EnterRelease(o, a)
    PROVE  /\ \A p \in Ops, b \in Actors : at'[p][b] = at[p][b] \/
                (at[p][b] = "Release" /\ at'[p][b] \in {"AwaitRelease", "Returned", "CallRelease"})
           /\ \A p \in Ops : owner'[p].stream = owner[p].stream
           /\ UNCHANGED <<status, callback, holder>>
<1>1. PICK step \in {"AwaitRelease", "Returned", "CallRelease"} : Goto(o, a, step)
  BY DEF EnterRelease
<1>2. \A p \in Ops, b \in Actors : at'[p][b] = IF p = o /\ b = a THEN step ELSE at[p][b]
  BY <1>1 DEF TypeInv
<1>3. owner' = owner \/ owner' = [owner EXCEPT ![o].release = "started"]
  BY DEF EnterRelease
<1>4. \A p \in Ops : owner'[p].stream = owner[p].stream
  <2>1. owner \in [Ops -> OwnerType]
    BY DEF TypeInv, OwnerTypeOK
  <2> HIDE DEF TypeInv
  <2> QED BY <1>3, <2>1 DEF OwnerType
<1> QED BY <1>2, <1>4 DEF EnterRelease

\* A worker that waits for the gates, or makes a session, moves.
LEMMA WorkerIs ==
    ASSUME TypeInv, NEW o \in Ops, PassGate(o) \/ Create(o) \/ ReadInfo(o)
    PROVE  /\ \A p \in Ops, b \in Actors : at'[p][b] = at[p][b] \/
                (at[p][b] # "Closing" /\ at'[p][b] # "Closing")
           /\ \A p \in Ops : p # o => at'[p] = at[p]
           /\ \A p \in Ops : status[p] = "Completed" => status'[p] = "Completed"
           /\ UNCHANGED <<owner, command>>
<1>1. PICK step \in {"Create", "Offer", "Done", "Record", "EndFailed"} : Goto(o, "worker", step)
  BY DEF PassGate, Create, ReadInfo, Throw
<1>2. \A p \in Ops, b \in Actors : at'[p][b] = IF p = o /\ b = "worker" THEN step ELSE at[p][b]
  BY <1>1 DEF TypeInv
<1>3. at[o]["worker"] \in {"Gate", "Create", "Info"}
  BY DEF PassGate, Create, ReadInfo
<1>4. \A p \in Ops : p # o => at'[p] = at[p]
  BY <1>1 DEF TypeInv
<1>5. \A p \in Ops : status[p] = "Completed" => status'[p] = "Completed"
  <2>1. status' = status \/ status' = [status EXCEPT ![o] = IF status[o] = "Started" THEN "Error" ELSE @]
    BY DEF PassGate, Create, ReadInfo, Throw
  <2> QED BY <2>1 DEF TypeInv, OwnerTypeOK
<1>6. UNCHANGED <<owner, command>>
  BY DEF PassGate, Create, ReadInfo
<1> QED BY <1>2, <1>3, <1>4, <1>5, <1>6

\* A preparation moves its worker, and nothing else but the status.
LEMMA PrepareIs ==
    ASSUME TypeInv, NEW o \in Ops, Prepare(o)
    PROVE  /\ \A p \in Ops, b \in Actors : at'[p][b] = at[p][b] \/
                (at[p][b] = "Prepare" /\ at'[p][b] \in {"Gate", "Done"})
           /\ \A p \in Ops : status[p] = "Completed" => status'[p] = "Completed"
           /\ UNCHANGED <<owner, holder, hostVars>>
<1>1. PICK step \in {"Gate", "Done"} : Goto(o, "worker", step)
  BY DEF Prepare, Throw
<1>2. \A p \in Ops, b \in Actors : at'[p][b] = IF p = o /\ b = "worker" THEN step ELSE at[p][b]
  BY <1>1 DEF TypeInv
<1>3. \A p \in Ops : status[p] = "Completed" => status'[p] = "Completed"
  BY DEF Prepare, Throw, TypeInv, OwnerTypeOK
<1> QED BY <1>2, <1>3 DEF Prepare

\* A step of one command leaves the others alone.
LEMMA StepIs ==
    ASSUME command \in [Ops -> [Callers -> CommandSteps]], NEW o \in Ops, NEW c \in Callers, NEW step,
           Step(o, c, step)
    PROVE  \A p \in Ops, d \in Callers : command'[p][d] = IF p = o /\ d = c THEN step ELSE command[p][d]
  BY DEF Step

\* A command of a call in progress that goes on, or ends, still belongs to its caller.
LEMMA CommandGoesOn ==
    ASSUME command \in [Ops -> [Callers -> CommandSteps]], CommandInv, UNCHANGED <<status, at>>,
           NEW o \in Ops, NEW c \in Callers, command[o][c] # "Idle", NEW step \in CommandSteps,
           Step(o, c, step),
           c \in Actors => step # "Idle", step = "Send" => c = "sender",
           c = "sender" => step \notin {"End", "LocalEnded", "LocalUnended"}
    PROVE  CommandInv'
<1>1. \A p \in Ops, d \in Callers : command'[p][d] = IF p = o /\ d = c THEN step ELSE command[p][d]
  BY StepIs
<1> QED BY <1>1 DEF CommandInv

\* A step that makes no command and leaves who calls CloseCamera.
LEMMA CommandsKept ==
    ASSUME CommandInv, UNCHANGED command,
           \A p \in Ops, a \in Actors : at'[p][a] = "Closing" <=> at[p][a] = "Closing",
           \A p \in Ops : status[p] = "Completed" => status'[p] = "Completed"
    PROVE  CommandInv'
  BY DEF CommandInv

\* Commands belong to a releaser that called CloseCamera or to a user of a session.
LEMMA CommandStep ==
    ASSUME TypeInv, StageInv, CommandInv, [HostNext]_sessionVars
    PROVE  CommandInv'
<1>1. CASE UNCHANGED sessionVars
  BY <1>1 DEF TypeInv, OwnerTypeOK, StageInv, WorkInv, CommandInv, sessionVars, vars, hostVars
<1>2. ASSUME NEW o \in Ops, HostStep(o)
      PROVE  CommandInv'
  <2>1. CASE CancelAsync(o) /\ UNCHANGED hostVars
    BY <2>1 DEF CancelAsync, hostVars, TypeInv, OwnerTypeOK, StageInv, WorkInv, CommandInv
  <2>2. CASE CallbackFlag(o) /\ UNCHANGED hostVars
    BY <2>2 DEF CallbackFlag, hostVars, TypeInv, OwnerTypeOK, StageInv, WorkInv, CommandInv
  <2>3. CASE Cancel(o) /\ UNCHANGED hostVars
    <3>1. /\ \A p \in Ops, a \in Actors : at'[p][a] = "Closing" <=> at[p][a] = "Closing"
          /\ \A p \in Ops : status[p] = "Completed" => status'[p] = "Completed"
          /\ UNCHANGED command
      BY SMTT(60), <2>3 DEF Cancel, hostVars, TypeInv, OwnerTypeOK, StageInv, CancelInv
    <3> QED BY <3>1 DEF CommandInv
  <2>4. CASE Complete(o) /\ UNCHANGED hostVars
    BY <2>4 DEF Complete, hostVars, TypeInv, OwnerTypeOK, StageInv, WorkInv, CommandInv
  <2>5. CASE BackgroundEnds(o) /\ UNCHANGED hostVars
    BY <2>5 DEF BackgroundEnds, hostVars, TypeInv, OwnerTypeOK, StageInv, WorkInv, CommandInv
  <2>6. CASE Prepare(o)
    <3>1. /\ \A p \in Ops, a \in Actors : at'[p][a] = "Closing" <=> at[p][a] = "Closing"
          /\ \A p \in Ops : status[p] = "Completed" => status'[p] = "Completed"
          /\ UNCHANGED command
      BY <2>6, PrepareIs DEF hostVars
    <3> QED BY <3>1 DEF CommandInv
  <2>7. CASE PassGate(o)
    BY <2>7, WorkerIs, CommandsKept
  <2>8. CASE Create(o)
    BY <2>8, WorkerIs, CommandsKept
  <2>9. CASE Offer(o)
    BY <2>9 DEF Offer, hostVars, TypeInv, OwnerTypeOK, StageInv, WorkInv, CommandInv
  <2>10. CASE CheckOffered(o)
    BY <2>10 DEF CheckOffered, hostVars, TypeInv, OwnerTypeOK, StageInv, WorkInv, CommandInv
  <2>11. CASE ReadInfo(o)
    BY <2>11, WorkerIs, CommandsKept
  <2>12. CASE EndFailedStart(o)
    BY <2>12 DEF EndFailedStart, hostVars, TypeInv, OwnerTypeOK, StageInv, WorkInv, CommandInv
  <2>13. CASE CloseFailedStart(o)
    BY <2>13 DEF CloseFailedStart, CloseLocal, Throw, TypeInv, OwnerTypeOK, StageInv, WorkInv, CommandInv
  <2>14. CASE RecordHandle(o)
    BY <2>14 DEF RecordHandle, Record, hostVars, TypeInv, OwnerTypeOK, StageInv, WorkInv, CommandInv
  <2>15. CASE CheckCanceled(o)
    BY <2>15 DEF CheckCanceled, hostVars, TypeInv, OwnerTypeOK, StageInv, WorkInv, CommandInv
  <2>16. CASE Readback(o)
    BY <2>16 DEF Readback, hostVars, TypeInv, OwnerTypeOK, StageInv, WorkInv, CommandInv
  <2>17. CASE WorkerFails(o)
    BY <2>17 DEF WorkerFails, Throw, hostVars, TypeInv, OwnerTypeOK, StageInv, WorkInv, CommandInv
  <2>18. CASE SendCandidates(o)
    BY <2>18 DEF SendCandidates, Step, vars, TypeInv, OwnerTypeOK, StageInv, WorkInv, CommandInv
  <2>19. ASSUME NEW a \in Actors, ActorStep(o, a)
        PROVE  CommandInv'
    <3>1. CASE EnterRelease(o, a) /\ UNCHANGED hostVars
      <4>1. /\ \A p \in Ops, b \in Actors : at'[p][b] = "Closing" <=> at[p][b] = "Closing"
            /\ UNCHANGED <<status, command>>
        BY <3>1, EnterIs DEF hostVars
      <4> QED BY <4>1, CommandsKept
    <3>2. CASE StoreRelease(o, a) /\ UNCHANGED hostVars
      BY <3>2 DEF StoreRelease, hostVars, TypeInv, OwnerTypeOK, StageInv, WorkInv, CommandInv
    <3>3. CASE AwaitRelease(o, a) /\ UNCHANGED hostVars
      BY <3>3 DEF AwaitRelease, hostVars, TypeInv, OwnerTypeOK, StageInv, WorkInv, CommandInv
    <3>4. CASE CallRelease(o, a)
      BY <3>4 DEF CallRelease, Step, TypeInv, OwnerTypeOK, StageInv, WorkInv, CommandInv
    <3>5. CASE ReleaseReturns(o, a)
      BY <3>5 DEF ReleaseReturns, Step, TypeInv, OwnerTypeOK, StageInv, WorkInv, CommandInv
    <3> QED BY <2>19, <3>1, <3>2, <3>3, <3>4, <3>5 DEF ActorStep
  <2>20. ASSUME NEW c \in Callers, CallerStep(o, c)
        PROVE  CommandInv'
    <3>1. CASE UserCalls(o, c)
      <4>1. \A p \in Ops, d \in Callers : command'[p][d] = IF p = o /\ d = c THEN "Validate" ELSE command[p][d]
        BY <3>1, StepIs DEF UserCalls, TypeInv
      <4>2. c \notin Actors /\ status[o] = "Completed" /\ UNCHANGED <<at, status>>
        BY <3>1, CallersAre DEF UserCalls
      <4> QED BY <4>1, <4>2 DEF CommandInv
    <3>2. CASE ValidateCommand(o, c)
      BY <3>2, CommandGoesOn DEF ValidateCommand, vars, TypeInv
    <3>3. CASE AcquireGates(o, c)
      BY <3>3, CommandGoesOn DEF AcquireGates, vars, TypeInv
    <3>4. CASE Revalidate(o, c)
      BY <3>4, CommandGoesOn DEF Revalidate, vars, TypeInv
    <3>5. CASE SendEnd(o, c)
      BY <3>5 DEF SendEnd, Step, vars, TypeInv, OwnerTypeOK, StageInv, WorkInv, CommandInv
    <3>6. CASE CloseLocalSession(o, c)
      BY <3>6 DEF CloseLocalSession, CloseLocal, Step, TypeInv, OwnerTypeOK, StageInv, WorkInv, CommandInv
    <3> QED BY <2>20, <3>1, <3>2, <3>3, <3>4, <3>5, <3>6 DEF CallerStep
  <2> QED BY <1>2, <2>1, <2>2, <2>3, <2>4, <2>5, <2>6, <2>7, <2>8, <2>9, <2>10, <2>11, <2>12, <2>13, <2>14,
     <2>15, <2>16, <2>17, <2>18, <2>19, <2>20 DEF HostStep
<1> QED BY <1>1, <1>2, StepCases

\* A step that takes no gate keeps its holder, and so does one by which the worker leaves it.
LEMMA GateKept ==
    ASSUME GateInv, UNCHANGED <<gate, command>>,
           \A p \in Ops : at'[p]["worker"] \in Gated => at[p]["worker"] \in Gated
    PROVE  GateInv'
  BY DEF GateInv

LEMMA GateLeft ==
    ASSUME CommandInv, GateInv, NEW o \in Ops, at[o]["worker"] \in Gated, UNCHANGED command,
           \A p \in Ops : p # o => at'[p] = at[p], at'[o]["worker"] \notin Gated
    PROVE  GateInv'
<1>1. gate = <<o, "worker">>
  BY DEF GateInv
<1>2. \A p \in Ops : p # o => at[p]["worker"] \notin Gated
  BY <1>1 DEF GateInv
<1>3. \A p \in Ops, c \in Callers : command[p][c] \notin Holding
  BY <1>1 DEF GateInv, CommandInv
<1> QED BY <1>2, <1>3 DEF GateInv

\* The gates keep one holder.
LEMMA GateStep ==
    ASSUME TypeInv, StageInv, CommandInv, GateInv, [HostNext]_sessionVars
    PROVE  GateInv'
<1>1. CASE UNCHANGED sessionVars
  BY <1>1 DEF TypeInv, OwnerTypeOK, StageInv, WorkInv, CommandInv, GateInv, sessionVars, vars, hostVars
<1>2. ASSUME NEW o \in Ops, HostStep(o)
      PROVE  GateInv'
  <2>1. CASE CancelAsync(o) /\ UNCHANGED hostVars
    BY <2>1 DEF CancelAsync, hostVars, TypeInv, OwnerTypeOK, StageInv, WorkInv, CommandInv, GateInv
  <2>2. CASE CallbackFlag(o) /\ UNCHANGED hostVars
    BY <2>2 DEF CallbackFlag, hostVars, TypeInv, OwnerTypeOK, StageInv, WorkInv, CommandInv, GateInv
  <2>3. CASE Cancel(o) /\ UNCHANGED hostVars
    <3>1. (\A p \in Ops : at'[p]["worker"] = at[p]["worker"]) /\ UNCHANGED <<gate, command>>
      <4>1. at' = at \/ Goto(o, "background", "Release")
        BY <2>3 DEF Cancel
      <4> QED BY <2>3, <4>1 DEF Cancel, hostVars, TypeInv
    <3> QED BY <3>1 DEF GateInv
  <2>4. CASE Complete(o) /\ UNCHANGED hostVars
    BY <2>4 DEF Complete, hostVars, TypeInv, OwnerTypeOK, StageInv, WorkInv, CommandInv, GateInv
  <2>5. CASE BackgroundEnds(o) /\ UNCHANGED hostVars
    BY <2>5 DEF BackgroundEnds, hostVars, TypeInv, OwnerTypeOK, StageInv, WorkInv, CommandInv, GateInv
  <2>6. CASE Prepare(o)
    BY <2>6, PrepareIs, GateKept DEF hostVars
  <2>7. CASE PassGate(o)
    <3>1. CASE gate = NoUser /\ gate' = <<o, "worker">> /\ Goto(o, "worker", "Create")
      <4>1. \A p \in Ops : p # o => at'[p] = at[p]
        BY <3>1, <2>7 DEF PassGate, TypeInv, OwnerTypeOK
      <4>2. /\ \A p \in Ops : at[p]["worker"] \notin Gated
            /\ \A p \in Ops, c \in Callers : command[p][c] \notin Holding
        BY <3>1, UserAssumption DEF GateInv
      <4> QED BY <3>1, <4>1, <4>2, <2>7 DEF PassGate, GateInv
    <3>2. CASE Throw(o) /\ UNCHANGED gate
      <4>1. (\A p \in Ops : at'[p]["worker"] \in Gated => at[p]["worker"] \in Gated) /\ UNCHANGED command
        BY <3>2, <2>7 DEF PassGate, Throw, TypeInv, OwnerTypeOK
      <4> QED BY <3>2, <4>1 DEF GateInv
    <3> QED BY <3>1, <3>2, <2>7 DEF PassGate
  <2>8. CASE Create(o)
    <3>1. CASE Goto(o, "worker", "Offer") /\ UNCHANGED gate
      <4>1. \A p \in Ops : at'[p]["worker"] = IF p = o THEN "Offer" ELSE at[p]["worker"]
        BY <3>1 DEF TypeInv
      <4>2. at[o]["worker"] = "Create" /\ UNCHANGED command
        BY <2>8 DEF Create
      <4> QED BY <3>1, <4>1, <4>2, GateKept
    <3>2. CASE Throw(o)
      <4>1. at'[o]["worker"] = "Done" /\ at[o]["worker"] = "Create"
        BY <3>2, <2>8 DEF Create, Throw, TypeInv
      <4> QED BY <2>8, <4>1, WorkerIs, GateLeft
    <3> QED BY <3>1, <3>2, <2>8 DEF Create
  <2>9. CASE Offer(o)
    BY <2>9 DEF Offer, hostVars, TypeInv, OwnerTypeOK, StageInv, WorkInv, CommandInv, GateInv
  <2>10. CASE CheckOffered(o)
    BY <2>10 DEF CheckOffered, hostVars, TypeInv, OwnerTypeOK, StageInv, WorkInv, CommandInv, GateInv
  <2>11. CASE ReadInfo(o)
    <3>1. CASE Goto(o, "worker", "EndFailed") /\ UNCHANGED gate
      <4>1. \A p \in Ops : at'[p]["worker"] = IF p = o THEN "EndFailed" ELSE at[p]["worker"]
        BY <3>1 DEF TypeInv
      <4>2. at[o]["worker"] = "Info" /\ UNCHANGED command
        BY <2>11 DEF ReadInfo
      <4> QED BY <3>1, <4>1, <4>2, GateKept
    <3>2. CASE Goto(o, "worker", "Record")
      <4>1. at'[o]["worker"] = "Record" /\ at[o]["worker"] = "Info"
        BY <3>2, <2>11 DEF ReadInfo, TypeInv
      <4> QED BY <2>11, <4>1, WorkerIs, GateLeft
    <3> QED BY <3>1, <3>2, <2>11 DEF ReadInfo
  <2>12. CASE EndFailedStart(o)
    BY <2>12 DEF EndFailedStart, hostVars, TypeInv, OwnerTypeOK, StageInv, WorkInv, CommandInv, GateInv
  <2>13. CASE CloseFailedStart(o)
    BY <2>13 DEF CloseFailedStart, CloseLocal, Throw, TypeInv, OwnerTypeOK, StageInv, WorkInv, CommandInv,
       GateInv
  <2>14. CASE RecordHandle(o)
    BY <2>14 DEF RecordHandle, Record, hostVars, TypeInv, OwnerTypeOK, StageInv, WorkInv, CommandInv,
       GateInv
  <2>15. CASE CheckCanceled(o)
    BY <2>15 DEF CheckCanceled, hostVars, TypeInv, OwnerTypeOK, StageInv, WorkInv, CommandInv, GateInv
  <2>16. CASE Readback(o)
    BY <2>16 DEF Readback, hostVars, TypeInv, OwnerTypeOK, StageInv, WorkInv, CommandInv, GateInv
  <2>17. CASE WorkerFails(o)
    BY <2>17 DEF WorkerFails, Throw, hostVars, TypeInv, OwnerTypeOK, StageInv, WorkInv, CommandInv, GateInv
  <2>18. CASE SendCandidates(o)
    BY <2>18 DEF SendCandidates, Step, vars, TypeInv, OwnerTypeOK, StageInv, WorkInv, CommandInv, GateInv
  <2>19. ASSUME NEW a \in Actors, ActorStep(o, a)
        PROVE  GateInv'
    <3>1. CASE EnterRelease(o, a) /\ UNCHANGED hostVars
      <4>1. /\ \A p \in Ops : at'[p]["worker"] \in Gated => at[p]["worker"] \in Gated
            /\ UNCHANGED <<gate, command>>
        BY <3>1, EnterIs DEF hostVars
      <4> QED BY <4>1, GateKept
    <3>2. CASE StoreRelease(o, a) /\ UNCHANGED hostVars
      BY <3>2 DEF StoreRelease, hostVars, TypeInv, OwnerTypeOK, StageInv, WorkInv, CommandInv, GateInv
    <3>3. CASE AwaitRelease(o, a) /\ UNCHANGED hostVars
      BY <3>3 DEF AwaitRelease, hostVars, TypeInv, OwnerTypeOK, StageInv, WorkInv, CommandInv, GateInv
    <3>4. CASE CallRelease(o, a)
      BY <3>4 DEF CallRelease, Step, TypeInv, OwnerTypeOK, StageInv, WorkInv, CommandInv, GateInv
    <3>5. CASE ReleaseReturns(o, a)
      BY <3>5 DEF ReleaseReturns, Step, TypeInv, OwnerTypeOK, StageInv, WorkInv, CommandInv, GateInv
    <3> QED BY <2>19, <3>1, <3>2, <3>3, <3>4, <3>5 DEF ActorStep
  <2>20. ASSUME NEW c \in Callers, CallerStep(o, c)
        PROVE  GateInv'
    <3>1. CASE UserCalls(o, c)
      BY <3>1 DEF UserCalls, Step, TypeInv, OwnerTypeOK, StageInv, WorkInv, CommandInv, GateInv
    <3>2. CASE ValidateCommand(o, c)
      BY <3>2 DEF ValidateCommand, Step, vars, TypeInv, OwnerTypeOK, StageInv, WorkInv, CommandInv, GateInv
    <3>3. CASE AcquireGates(o, c)
      <4>1. CASE gate = NoUser /\ gate' = <<o, c>> /\ Step(o, c, "Revalidate")
        <5>1. /\ \A p \in Ops : at[p]["worker"] \notin Gated
              /\ \A p \in Ops, d \in Callers : command[p][d] \notin Holding
          BY <4>1, UserAssumption DEF GateInv
        <5>2. \A p \in Ops, d \in Callers : <<p, d>> # <<o, c>> => command'[p][d] = command[p][d]
          BY <4>1 DEF Step, TypeInv, OwnerTypeOK
        <5> QED BY <4>1, <5>1, <5>2, <3>3 DEF AcquireGates, vars, GateInv
      <4>2. CASE EndCommand(o, c, "Refused") /\ UNCHANGED gate
        BY <4>2, <3>3 DEF AcquireGates, Step, vars, TypeInv, OwnerTypeOK, GateInv
      <4> QED BY <4>1, <4>2, <3>3 DEF AcquireGates
    <3>4. CASE Revalidate(o, c)
      BY <3>4 DEF Revalidate, Step, vars, TypeInv, OwnerTypeOK, StageInv, WorkInv, CommandInv, GateInv
    <3>5. CASE SendEnd(o, c)
      BY <3>5 DEF SendEnd, Step, vars, TypeInv, OwnerTypeOK, StageInv, WorkInv, CommandInv, GateInv
    <3>6. CASE CloseLocalSession(o, c)
      BY <3>6 DEF CloseLocalSession, CloseLocal, Step, TypeInv, OwnerTypeOK, StageInv, WorkInv, CommandInv,
         GateInv
    <3> QED BY <2>20, <3>1, <3>2, <3>3, <3>4, <3>5, <3>6 DEF CallerStep
  <2> QED BY <1>2, <2>1, <2>2, <2>3, <2>4, <2>5, <2>6, <2>7, <2>8, <2>9, <2>10, <2>11, <2>12, <2>13, <2>14,
     <2>15, <2>16, <2>17, <2>18, <2>19, <2>20 DEF HostStep
<1> QED BY <1>1, <1>2, StepCases

\* A session that is closed, whether or not the host gets rid of it, leaves the host with one.
LEMMA HostCloses ==
    ASSUME TypeInv, HostInv, active # 0, ~client', UNCHANGED <<owner, nextHandle, nextEndpoint>>,
           UNCHANGED <<active, holder>> \/ (active' = 0 /\ holder' = [holder EXCEPT ![active] = Nobody])
    PROVE  HostInv'
<1> USE DEF HostInv, TypeInv, OwnerTypeOK
<1>1. CASE UNCHANGED <<active, holder>>
  BY <1>1
<1>2. CASE active' = 0 /\ holder' = [holder EXCEPT ![active] = Nobody]
  <2>1. \A s \in Streams : holder'[s] = Nobody
    BY <1>2
  <2>2. \A o \in Ops : owner[o].stream # NoStream => owner[o].stream \in Streams
    BY DEF OwnerType
  <2> QED BY <1>2, <2>1, <2>2
<1> QED BY <1>1, <1>2

\* The host keeps one session.
LEMMA HostKept ==
    ASSUME TypeInv, StageInv, CommandInv, GateInv, HostInv, UseInv, [HostNext]_sessionVars
    PROVE  HostInv'
<1>1. CASE UNCHANGED sessionVars
  BY <1>1 DEF TypeInv, OwnerTypeOK, OwnerType, StageInv, WorkInv, HostInv, UseInv, sessionVars, vars,
     hostVars
<1>2. ASSUME NEW o \in Ops, HostStep(o)
      PROVE  HostInv'
  <2>1. CASE CancelAsync(o) /\ UNCHANGED hostVars
    BY <2>1, StreamAssumption, NobodyAssumption, HandleAssumption, EndpointAssumption DEF CancelAsync,
       hostVars, TypeInv, OwnerTypeOK, OwnerType, StageInv, WorkInv, HostInv, UseInv
  <2>2. CASE CallbackFlag(o) /\ UNCHANGED hostVars
    BY <2>2, StreamAssumption, NobodyAssumption, HandleAssumption, EndpointAssumption DEF CallbackFlag,
       hostVars, TypeInv, OwnerTypeOK, OwnerType, StageInv, WorkInv, HostInv, UseInv
  <2>3. CASE Cancel(o) /\ UNCHANGED hostVars
    BY <2>3, StreamAssumption, NobodyAssumption, HandleAssumption, EndpointAssumption DEF Cancel, hostVars,
       TypeInv, OwnerTypeOK, OwnerType, StageInv, WorkInv, HostInv, UseInv
  <2>4. CASE Complete(o) /\ UNCHANGED hostVars
    BY <2>4, StreamAssumption, NobodyAssumption, HandleAssumption, EndpointAssumption DEF Complete,
       hostVars, TypeInv, OwnerTypeOK, OwnerType, StageInv, WorkInv, HostInv, UseInv
  <2>5. CASE BackgroundEnds(o) /\ UNCHANGED hostVars
    BY <2>5, StreamAssumption, NobodyAssumption, HandleAssumption, EndpointAssumption DEF BackgroundEnds,
       hostVars, TypeInv, OwnerTypeOK, OwnerType, StageInv, WorkInv, HostInv, UseInv
  <2>6. CASE Prepare(o)
    BY <2>6, StreamAssumption, NobodyAssumption, HandleAssumption, EndpointAssumption DEF Prepare, Throw,
       hostVars, TypeInv, OwnerTypeOK, OwnerType, StageInv, WorkInv, HostInv, UseInv
  <2>7. CASE PassGate(o)
    <3>1. UNCHANGED <<active, client, holder, owner, nextHandle, nextEndpoint>>
      BY <2>7 DEF PassGate
    <3> QED BY <3>1 DEF HostInv
  <2>8. CASE Create(o)
    BY <2>8, StreamAssumption, NobodyAssumption, HandleAssumption, EndpointAssumption DEF Create,
       CreateSession, CreateFails, CreateUndone, Throw, TypeInv, OwnerTypeOK, OwnerType, StageInv, WorkInv,
       HostInv, UseInv
  <2>9. CASE Offer(o)
    BY <2>9, StreamAssumption, NobodyAssumption, HandleAssumption, EndpointAssumption DEF Offer, hostVars,
       TypeInv, OwnerTypeOK, OwnerType, StageInv, WorkInv, HostInv, UseInv
  <2>10. CASE CheckOffered(o)
    BY <2>10, StreamAssumption, NobodyAssumption, HandleAssumption, EndpointAssumption DEF CheckOffered,
       hostVars, TypeInv, OwnerTypeOK, OwnerType, StageInv, WorkInv, HostInv, UseInv
  <2>11. CASE ReadInfo(o)
    BY <2>11, StreamAssumption, NobodyAssumption, HandleAssumption, EndpointAssumption DEF ReadInfo,
       TypeInv, OwnerTypeOK, OwnerType, StageInv, WorkInv, HostInv, UseInv
  <2>12. CASE EndFailedStart(o)
    BY <2>12, StreamAssumption, NobodyAssumption, HandleAssumption, EndpointAssumption DEF EndFailedStart,
       hostVars, TypeInv, OwnerTypeOK, OwnerType, StageInv, WorkInv, HostInv, UseInv
  <2>13. CASE CloseFailedStart(o)
    <3>1. ~client' /\ active # 0
      BY <2>13 DEF CloseFailedStart, CloseLocal, UseInv, Valid, TypeInv
    <3>2. UNCHANGED <<active, holder>> \/ (active' = 0 /\ holder' = [holder EXCEPT ![active] = Nobody])
      BY <2>13 DEF CloseFailedStart, CloseLocal, UseInv, Valid
    <3>3. UNCHANGED <<owner, nextHandle, nextEndpoint>>
      BY <2>13 DEF CloseFailedStart
    <3> QED BY <3>1, <3>2, <3>3, HostCloses
  <2>14. CASE RecordHandle(o)
    BY <2>14, StreamAssumption, NobodyAssumption, HandleAssumption, EndpointAssumption DEF RecordHandle,
       Record, hostVars, TypeInv, OwnerTypeOK, OwnerType, StageInv, WorkInv, HostInv, UseInv
  <2>15. CASE CheckCanceled(o)
    BY <2>15, StreamAssumption, NobodyAssumption, HandleAssumption, EndpointAssumption DEF CheckCanceled,
       hostVars, TypeInv, OwnerTypeOK, OwnerType, StageInv, WorkInv, HostInv, UseInv
  <2>16. CASE Readback(o)
    BY <2>16, StreamAssumption, NobodyAssumption, HandleAssumption, EndpointAssumption DEF Readback,
       hostVars, TypeInv, OwnerTypeOK, OwnerType, StageInv, WorkInv, HostInv, UseInv
  <2>17. CASE WorkerFails(o)
    BY <2>17, StreamAssumption, NobodyAssumption, HandleAssumption, EndpointAssumption DEF WorkerFails,
       Throw, hostVars, TypeInv, OwnerTypeOK, OwnerType, StageInv, WorkInv, HostInv, UseInv
  <2>18. CASE SendCandidates(o)
    BY <2>18, StreamAssumption, NobodyAssumption, HandleAssumption, EndpointAssumption DEF SendCandidates,
       Step, vars, TypeInv, OwnerTypeOK, OwnerType, StageInv, WorkInv, HostInv, UseInv
  <2>19. ASSUME NEW a \in Actors, ActorStep(o, a)
        PROVE  HostInv'
    <3>1. CASE EnterRelease(o, a) /\ UNCHANGED hostVars
      <4>1. (\A p \in Ops : owner'[p].stream = owner[p].stream) /\ UNCHANGED <<holder, hostVars>>
        BY <3>1, EnterIs
      <4> QED BY <4>1 DEF HostInv, hostVars
    <3>2. CASE StoreRelease(o, a) /\ UNCHANGED hostVars
      BY <3>2, StreamAssumption, NobodyAssumption, HandleAssumption, EndpointAssumption DEF StoreRelease,
         hostVars, TypeInv, OwnerTypeOK, OwnerType, StageInv, WorkInv, HostInv, UseInv
    <3>3. CASE AwaitRelease(o, a) /\ UNCHANGED hostVars
      BY <3>3, StreamAssumption, NobodyAssumption, HandleAssumption, EndpointAssumption DEF AwaitRelease,
         hostVars, TypeInv, OwnerTypeOK, OwnerType, StageInv, WorkInv, HostInv, UseInv
    <3>4. CASE CallRelease(o, a)
      BY <3>4, StreamAssumption, NobodyAssumption, HandleAssumption, EndpointAssumption DEF CallRelease,
         Step, TypeInv, OwnerTypeOK, OwnerType, StageInv, WorkInv, HostInv, UseInv
    <3>5. CASE ReleaseReturns(o, a)
      BY <3>5, StreamAssumption, NobodyAssumption, HandleAssumption, EndpointAssumption DEF ReleaseReturns,
         Step, TypeInv, OwnerTypeOK, OwnerType, StageInv, WorkInv, HostInv, UseInv
    <3> QED BY <2>19, <3>1, <3>2, <3>3, <3>4, <3>5 DEF ActorStep
  <2>20. ASSUME NEW c \in Callers, CallerStep(o, c)
        PROVE  HostInv'
    <3>1. CASE UserCalls(o, c)
      BY <3>1, StreamAssumption, NobodyAssumption, HandleAssumption, EndpointAssumption DEF UserCalls, Step,
         TypeInv, OwnerTypeOK, OwnerType, StageInv, WorkInv, HostInv, UseInv
    <3>2. CASE ValidateCommand(o, c)
      BY <3>2, StreamAssumption, NobodyAssumption, HandleAssumption, EndpointAssumption DEF ValidateCommand,
         Step, vars, TypeInv, OwnerTypeOK, OwnerType, StageInv, WorkInv, HostInv, UseInv
    <3>3. CASE AcquireGates(o, c)
      BY <3>3, StreamAssumption, NobodyAssumption, HandleAssumption, EndpointAssumption DEF AcquireGates,
         Step, vars, TypeInv, OwnerTypeOK, OwnerType, StageInv, WorkInv, HostInv, UseInv
    <3>4. CASE Revalidate(o, c)
      BY <3>4, StreamAssumption, NobodyAssumption, HandleAssumption, EndpointAssumption DEF Revalidate,
         Step, vars, TypeInv, OwnerTypeOK, OwnerType, StageInv, WorkInv, HostInv, UseInv
    <3>5. CASE SendEnd(o, c)
      BY <3>5, StreamAssumption, NobodyAssumption, HandleAssumption, EndpointAssumption DEF SendEnd, Step,
         vars, TypeInv, OwnerTypeOK, OwnerType, StageInv, WorkInv, HostInv, UseInv
    <3>6. CASE CloseLocalSession(o, c)
      <4>1. ~client' /\ active # 0
        BY <3>6 DEF CloseLocalSession, CloseLocal, UseInv, Valid, TypeInv
      <4>2. UNCHANGED <<active, holder>> \/ (active' = 0 /\ holder' = [holder EXCEPT ![active] = Nobody])
        BY <3>6 DEF CloseLocalSession, CloseLocal, UseInv, Valid
      <4>3. UNCHANGED <<owner, nextHandle, nextEndpoint>>
        BY <3>6 DEF CloseLocalSession
      <4> QED BY <4>1, <4>2, <4>3, HostCloses
    <3> QED BY <2>20, <3>1, <3>2, <3>3, <3>4, <3>5, <3>6 DEF CallerStep
  <2> QED BY <1>2, <2>1, <2>2, <2>3, <2>4, <2>5, <2>6, <2>7, <2>8, <2>9, <2>10, <2>11, <2>12, <2>13, <2>14,
     <2>15, <2>16, <2>17, <2>18, <2>19, <2>20 DEF HostStep
<1> QED BY <1>1, <1>2, StepCases

\* Who uses a session keeps it.
LEMMA UseStep ==
    ASSUME TypeInv, StageInv, CommandInv, GateInv, HostInv, UseInv, [HostNext]_sessionVars
    PROVE  UseInv'
<1>1. CASE UNCHANGED sessionVars
  BY <1>1 DEF TypeInv, OwnerTypeOK, OwnerType, StageInv, WorkInv, ReleaseInv, CommandInv, GateInv, HostInv,
     UseInv, Valid, sessionVars, vars, hostVars
<1>2. ASSUME NEW o \in Ops, HostStep(o)
      PROVE  UseInv'
  <2>1. CASE CancelAsync(o) /\ UNCHANGED hostVars
    BY <2>1, StreamAssumption, NobodyAssumption, HandleAssumption, EndpointAssumption DEF CancelAsync,
       hostVars, TypeInv, OwnerTypeOK, OwnerType, StageInv, WorkInv, ReleaseInv, CommandInv, GateInv,
       HostInv, UseInv, Valid
  <2>2. CASE CallbackFlag(o) /\ UNCHANGED hostVars
    BY <2>2, StreamAssumption, NobodyAssumption, HandleAssumption, EndpointAssumption DEF CallbackFlag,
       hostVars, TypeInv, OwnerTypeOK, OwnerType, StageInv, WorkInv, ReleaseInv, CommandInv, GateInv,
       HostInv, UseInv, Valid
  <2>3. CASE Cancel(o) /\ UNCHANGED hostVars
    BY <2>3, StreamAssumption, NobodyAssumption, HandleAssumption, EndpointAssumption DEF Cancel, hostVars,
       TypeInv, OwnerTypeOK, OwnerType, StageInv, WorkInv, ReleaseInv, CommandInv, GateInv, HostInv, UseInv,
       Valid
  <2>4. CASE Complete(o) /\ UNCHANGED hostVars
    BY <2>4, StreamAssumption, NobodyAssumption, HandleAssumption, EndpointAssumption DEF Complete,
       hostVars, TypeInv, OwnerTypeOK, OwnerType, StageInv, WorkInv, ReleaseInv, CommandInv, GateInv,
       HostInv, UseInv, Valid
  <2>5. CASE BackgroundEnds(o) /\ UNCHANGED hostVars
    BY <2>5, StreamAssumption, NobodyAssumption, HandleAssumption, EndpointAssumption DEF BackgroundEnds,
       hostVars, TypeInv, OwnerTypeOK, OwnerType, StageInv, WorkInv, ReleaseInv, CommandInv, GateInv,
       HostInv, UseInv, Valid
  <2>6. CASE Prepare(o)
    <3>1. /\ \A p \in Ops : at'[p]["worker"] \in Hosting \cup {"Record"} =>
                 at[p]["worker"] \in Hosting \cup {"Record"}
          /\ \A p \in Ops : owner'[p].stream = owner[p].stream
          /\ UNCHANGED <<command, active, client, holder>>
      BY <2>6, PrepareIs DEF hostVars
    <3> QED BY <3>1 DEF UseInv, Valid
  <2>7. CASE PassGate(o)
    <3>1. PICK step \in {"Create", "Done"} : Goto(o, "worker", step)
      BY <2>7 DEF PassGate, Throw
    <3>2. \A p \in Ops : at'[p]["worker"] \in Hosting \cup {"Record"} =>
              at[p]["worker"] \in Hosting \cup {"Record"}
      BY <3>1 DEF TypeInv
    <3>3. UNCHANGED <<command, owner, active, client, holder>>
      BY <2>7 DEF PassGate
    <3> QED BY <3>2, <3>3 DEF UseInv, Valid
  <2>8. CASE Create(o)
    <3>1. CASE CreateSession(o) /\ Goto(o, "worker", "Offer")
      <4>1. /\ nextHandle \in Streams /\ active = 0 /\ active' = nextHandle /\ client' = TRUE
            /\ holder' = [holder EXCEPT ![nextHandle] = o] /\ UNCHANGED <<command, owner>>
        BY <3>1, <2>8, StreamAssumption, NobodyAssumption, HandleAssumption, EndpointAssumption DEF
           Create, CreateSession, TypeInv, HostInv
      <4>2. /\ \A p \in Ops : p # o => at'[p] = at[p]
            /\ at'[o]["worker"] = "Offer" /\ at'[o]["background"] = at[o]["background"]
        BY <3>1 DEF TypeInv, OwnerTypeOK
      <4>3. holder'[nextHandle] = o /\ nextHandle # 0
        BY <4>1, StreamAssumption, NobodyAssumption, HandleAssumption, EndpointAssumption DEF TypeInv,
           OwnerTypeOK
      <4>4. /\ \A p \in Ops : at[p]["worker"] \notin Hosting \cup {"Record"}
            /\ \A p \in Ops, c \in Callers : command[p][c] \notin Using
        BY <4>1 DEF UseInv, Valid, HostInv
      <4> QED BY <4>1, <4>2, <4>3, <4>4 DEF UseInv
    <3>2. CASE Throw(o) /\ UNCHANGED <<active, client, holder>>
      <4>1. /\ \A p \in Ops : p # o => at'[p] = at[p]
            /\ at'[o]["worker"] = "Done" /\ UNCHANGED <<command, owner>>
        BY <3>2, <2>8 DEF Create, Throw, TypeInv, OwnerTypeOK
      <4> QED BY <3>2, <4>1 DEF UseInv, Valid
    <3> QED BY <3>1, <3>2, <2>8 DEF Create, CreateFails, CreateUndone
  <2>9. CASE Offer(o)
    BY <2>9, StreamAssumption, NobodyAssumption, HandleAssumption, EndpointAssumption DEF Offer, hostVars,
       TypeInv, OwnerTypeOK, OwnerType, StageInv, WorkInv, ReleaseInv, CommandInv, GateInv, HostInv, UseInv,
       Valid
  <2>10. CASE CheckOffered(o)
    BY <2>10, StreamAssumption, NobodyAssumption, HandleAssumption, EndpointAssumption DEF CheckOffered,
       hostVars, TypeInv, OwnerTypeOK, OwnerType, StageInv, WorkInv, ReleaseInv, CommandInv, GateInv,
       HostInv, UseInv, Valid
  <2>11. CASE ReadInfo(o)
    BY <2>11, StreamAssumption, NobodyAssumption, HandleAssumption, EndpointAssumption DEF ReadInfo,
       TypeInv, OwnerTypeOK, OwnerType, StageInv, WorkInv, ReleaseInv, CommandInv, GateInv, HostInv, UseInv,
       Valid
  <2>12. CASE EndFailedStart(o)
    BY <2>12, StreamAssumption, NobodyAssumption, HandleAssumption, EndpointAssumption DEF EndFailedStart,
       hostVars, TypeInv, OwnerTypeOK, OwnerType, StageInv, WorkInv, ReleaseInv, CommandInv, GateInv,
       HostInv, UseInv, Valid
  <2>13. CASE CloseFailedStart(o)
    BY <2>13, StreamAssumption, NobodyAssumption, HandleAssumption, EndpointAssumption DEF CloseFailedStart,
       CloseLocal, Throw, TypeInv, OwnerTypeOK, OwnerType, StageInv, WorkInv, ReleaseInv, CommandInv,
       GateInv, HostInv, UseInv, Valid
  <2>14. CASE RecordHandle(o)
    BY <2>14, StreamAssumption, NobodyAssumption, HandleAssumption, EndpointAssumption DEF RecordHandle,
       Record, hostVars, TypeInv, OwnerTypeOK, OwnerType, StageInv, WorkInv, ReleaseInv, CommandInv,
       GateInv, HostInv, UseInv, Valid
  <2>15. CASE CheckCanceled(o)
    BY <2>15, StreamAssumption, NobodyAssumption, HandleAssumption, EndpointAssumption DEF CheckCanceled,
       hostVars, TypeInv, OwnerTypeOK, OwnerType, StageInv, WorkInv, ReleaseInv, CommandInv, GateInv,
       HostInv, UseInv, Valid
  <2>16. CASE Readback(o)
    BY <2>16, StreamAssumption, NobodyAssumption, HandleAssumption, EndpointAssumption DEF Readback,
       hostVars, TypeInv, OwnerTypeOK, OwnerType, StageInv, WorkInv, ReleaseInv, CommandInv, GateInv,
       HostInv, UseInv, Valid
  <2>17. CASE WorkerFails(o)
    BY <2>17, StreamAssumption, NobodyAssumption, HandleAssumption, EndpointAssumption DEF WorkerFails,
       Throw, hostVars, TypeInv, OwnerTypeOK, OwnerType, StageInv, WorkInv, ReleaseInv, CommandInv, GateInv,
       HostInv, UseInv, Valid
  <2>18. CASE SendCandidates(o)
    BY <2>18, StreamAssumption, NobodyAssumption, HandleAssumption, EndpointAssumption DEF SendCandidates,
       Step, vars, TypeInv, OwnerTypeOK, OwnerType, StageInv, WorkInv, ReleaseInv, CommandInv, GateInv,
       HostInv, UseInv, Valid
  <2>19. ASSUME NEW a \in Actors, ActorStep(o, a)
        PROVE  UseInv'
    <3>1. CASE EnterRelease(o, a) /\ UNCHANGED hostVars
      <4>1. /\ \A p \in Ops : at'[p]["worker"] \in Hosting \cup {"Record"} =>
                 at[p]["worker"] \in Hosting \cup {"Record"}
            /\ \A p \in Ops : owner'[p].stream = owner[p].stream
            /\ UNCHANGED <<command, active, client, holder>>
        BY <3>1, EnterIs DEF hostVars
      <4> QED BY <4>1 DEF UseInv, Valid
    <3>2. CASE StoreRelease(o, a) /\ UNCHANGED hostVars
      BY <3>2, StreamAssumption, NobodyAssumption, HandleAssumption, EndpointAssumption DEF StoreRelease,
         hostVars, TypeInv, OwnerTypeOK, OwnerType, StageInv, WorkInv, ReleaseInv, CommandInv, GateInv,
         HostInv, UseInv, Valid
    <3>3. CASE AwaitRelease(o, a) /\ UNCHANGED hostVars
      BY <3>3, StreamAssumption, NobodyAssumption, HandleAssumption, EndpointAssumption DEF AwaitRelease,
         hostVars, TypeInv, OwnerTypeOK, OwnerType, StageInv, WorkInv, ReleaseInv, CommandInv, GateInv,
         HostInv, UseInv, Valid
    <3>4. CASE CallRelease(o, a)
      BY <3>4, StreamAssumption, NobodyAssumption, HandleAssumption, EndpointAssumption DEF CallRelease,
         Step, TypeInv, OwnerTypeOK, OwnerType, StageInv, WorkInv, ReleaseInv, CommandInv, GateInv, HostInv,
         UseInv, Valid
    <3>5. CASE ReleaseReturns(o, a)
      BY <3>5, StreamAssumption, NobodyAssumption, HandleAssumption, EndpointAssumption DEF ReleaseReturns,
         Step, TypeInv, OwnerTypeOK, OwnerType, StageInv, WorkInv, ReleaseInv, CommandInv, GateInv, HostInv,
         UseInv, Valid
    <3> QED BY <2>19, <3>1, <3>2, <3>3, <3>4, <3>5 DEF ActorStep
  <2>20. ASSUME NEW c \in Callers, CallerStep(o, c)
        PROVE  UseInv'
    <3>1. CASE UserCalls(o, c)
      BY <3>1, StreamAssumption, NobodyAssumption, HandleAssumption, EndpointAssumption DEF UserCalls, Step,
         TypeInv, OwnerTypeOK, OwnerType, StageInv, WorkInv, ReleaseInv, CommandInv, GateInv, HostInv,
         UseInv, Valid
    <3>2. CASE ValidateCommand(o, c)
      <4>1. /\ \A p \in Ops, d \in Callers : command'[p][d] \in Using => command[p][d] \in Using
            /\ UNCHANGED <<at, owner, active, client, holder>>
        BY <3>2 DEF ValidateCommand, Step, vars, TypeInv
      <4> QED BY <4>1 DEF UseInv, Valid
    <3>3. CASE AcquireGates(o, c)
      <4>1. /\ \A p \in Ops, d \in Callers : command'[p][d] \in Using => command[p][d] \in Using
            /\ UNCHANGED <<at, owner, active, client, holder>>
        BY SMTT(60), <3>3 DEF AcquireGates, Step, vars, TypeInv, OwnerTypeOK
      <4> QED BY <4>1 DEF UseInv, Valid
    <3>4. CASE Revalidate(o, c)
      <4>1. /\ \A p \in Ops, d \in Callers : command'[p][d] \in Using =>
                  command[p][d] \in Using \/ (p = o /\ Valid(owner[o].stream))
            /\ UNCHANGED <<at, owner, active, client, holder>>
        <5>1. CASE Valid(owner[o].stream)
          BY <3>4, <5>1, StepIs DEF Revalidate, vars, TypeInv
        <5>2. CASE ~Valid(owner[o].stream)
          BY <3>4, <5>2, StepIs DEF Revalidate, vars, TypeInv
        <5> QED BY <5>1, <5>2
      <4> QED BY <4>1 DEF UseInv, Valid
    <3>5. CASE SendEnd(o, c)
      BY <3>5, StreamAssumption, NobodyAssumption, HandleAssumption, EndpointAssumption DEF SendEnd, Step,
         vars, TypeInv, OwnerTypeOK, OwnerType, StageInv, WorkInv, ReleaseInv, CommandInv, GateInv, HostInv,
         UseInv, Valid
    <3>6. CASE CloseLocalSession(o, c)
      BY <3>6, StreamAssumption, NobodyAssumption, HandleAssumption, EndpointAssumption DEF
         CloseLocalSession, CloseLocal, Step, TypeInv, OwnerTypeOK, OwnerType, StageInv, WorkInv,
         ReleaseInv, CommandInv, GateInv, HostInv, UseInv, Valid
    <3> QED BY <2>20, <3>1, <3>2, <3>3, <3>4, <3>5, <3>6 DEF CallerStep
  <2> QED BY <1>2, <2>1, <2>2, <2>3, <2>4, <2>5, <2>6, <2>7, <2>8, <2>9, <2>10, <2>11, <2>12, <2>13, <2>14,
     <2>15, <2>16, <2>17, <2>18, <2>19, <2>20 DEF HostStep
<1> QED BY <1>1, <1>2, StepCases

\* A session of the host stays known to its owner.
LEMMA OwnedStep ==
    ASSUME TypeInv, StageInv, CommandInv, GateInv, HostInv, UseInv, OwnedInv, [HostNext]_sessionVars
    PROVE  OwnedInv'
<1>1. CASE UNCHANGED sessionVars
  BY <1>1 DEF TypeInv, OwnerTypeOK, OwnerType, StageInv, WorkInv, ReleaseInv, CommandInv, GateInv, HostInv,
     UseInv, OwnedInv, Valid, sessionVars, vars, hostVars
<1>2. ASSUME NEW o \in Ops, HostStep(o)
      PROVE  OwnedInv'
  <2>1. CASE CancelAsync(o) /\ UNCHANGED hostVars
    BY <2>1, StreamAssumption, NobodyAssumption, HandleAssumption, EndpointAssumption DEF CancelAsync,
       hostVars, TypeInv, OwnerTypeOK, OwnerType, StageInv, WorkInv, ReleaseInv, CommandInv, GateInv,
       HostInv, UseInv, OwnedInv, Valid
  <2>2. CASE CallbackFlag(o) /\ UNCHANGED hostVars
    BY <2>2, StreamAssumption, NobodyAssumption, HandleAssumption, EndpointAssumption DEF CallbackFlag,
       hostVars, TypeInv, OwnerTypeOK, OwnerType, StageInv, WorkInv, ReleaseInv, CommandInv, GateInv,
       HostInv, UseInv, OwnedInv, Valid
  <2>3. CASE Cancel(o) /\ UNCHANGED hostVars
    BY <2>3, StreamAssumption, NobodyAssumption, HandleAssumption, EndpointAssumption DEF Cancel, hostVars,
       TypeInv, OwnerTypeOK, OwnerType, StageInv, WorkInv, ReleaseInv, CommandInv, GateInv, HostInv, UseInv,
       OwnedInv, Valid
  <2>4. CASE Complete(o) /\ UNCHANGED hostVars
    BY <2>4, StreamAssumption, NobodyAssumption, HandleAssumption, EndpointAssumption DEF Complete,
       hostVars, TypeInv, OwnerTypeOK, OwnerType, StageInv, WorkInv, ReleaseInv, CommandInv, GateInv,
       HostInv, UseInv, OwnedInv, Valid
  <2>5. CASE BackgroundEnds(o) /\ UNCHANGED hostVars
    BY <2>5, StreamAssumption, NobodyAssumption, HandleAssumption, EndpointAssumption DEF BackgroundEnds,
       hostVars, TypeInv, OwnerTypeOK, OwnerType, StageInv, WorkInv, ReleaseInv, CommandInv, GateInv,
       HostInv, UseInv, OwnedInv, Valid
  <2>6. CASE Prepare(o)
    BY <2>6, StreamAssumption, NobodyAssumption, HandleAssumption, EndpointAssumption DEF Prepare, Throw,
       hostVars, TypeInv, OwnerTypeOK, OwnerType, StageInv, WorkInv, ReleaseInv, CommandInv, GateInv,
       HostInv, UseInv, OwnedInv, Valid
  <2>7. CASE PassGate(o)
    BY <2>7, StreamAssumption, NobodyAssumption, HandleAssumption, EndpointAssumption DEF PassGate, Throw,
       TypeInv, OwnerTypeOK, OwnerType, StageInv, WorkInv, ReleaseInv, CommandInv, GateInv, HostInv, UseInv,
       OwnedInv, Valid
  <2>8. CASE Create(o)
    <3>1. CASE CreateSession(o) /\ Goto(o, "worker", "Offer")
      <4>1. /\ nextHandle \in Streams /\ active = 0 /\ active' = nextHandle /\ client' = TRUE
            /\ holder' = [holder EXCEPT ![nextHandle] = o] /\ UNCHANGED <<command, owner>>
        BY <3>1, <2>8, StreamAssumption, NobodyAssumption, HandleAssumption, EndpointAssumption DEF
           Create, CreateSession, TypeInv, HostInv
      <4>2. /\ \A p \in Ops : p # o => at'[p] = at[p]
            /\ at'[o]["worker"] = "Offer" /\ at'[o]["background"] = at[o]["background"]
        BY <3>1 DEF TypeInv, OwnerTypeOK
      <4>3. holder'[nextHandle] = o /\ nextHandle # 0
        BY <4>1, StreamAssumption, NobodyAssumption, HandleAssumption, EndpointAssumption DEF TypeInv,
           OwnerTypeOK
      <4>4. \A s \in Streams : holder[s] = Nobody
        BY <4>1, StreamAssumption, NobodyAssumption, HandleAssumption, EndpointAssumption DEF HostInv
      <4>5. \A p \in Ops, s \in Streams : holder'[s] = p => p = o
        BY <4>1, <4>3, <4>4, NobodyAssumption DEF TypeInv, OwnerTypeOK
      <4>6. \A p \in Ops : ~Valid(owner[p].stream)'
        BY <4>1, StreamAssumption, NobodyAssumption, HandleAssumption, EndpointAssumption DEF Valid,
           HostInv, TypeInv, OwnerTypeOK, OwnerType
      <4> QED BY <4>2, <4>5, <4>6 DEF OwnedInv
    <3>2. CASE Throw(o) /\ UNCHANGED <<active, client, holder>>
      <4>1. /\ \A p \in Ops : p # o => at'[p] = at[p]
            /\ at[o]["worker"] = "Create" /\ at'[o]["worker"] = "Done"
            /\ at'[o]["background"] = at[o]["background"]
            /\ UNCHANGED <<command, owner>>
        BY <3>2, <2>8 DEF Create, Throw, TypeInv, OwnerTypeOK
      <4> QED BY <3>2, <4>1 DEF OwnedInv, Valid
    <3> QED BY <3>1, <3>2, <2>8 DEF Create, CreateFails, CreateUndone
  <2>9. CASE Offer(o)
    BY <2>9, StreamAssumption, NobodyAssumption, HandleAssumption, EndpointAssumption DEF Offer, hostVars,
       TypeInv, OwnerTypeOK, OwnerType, StageInv, WorkInv, ReleaseInv, CommandInv, GateInv, HostInv, UseInv,
       OwnedInv, Valid
  <2>10. CASE CheckOffered(o)
    BY <2>10, StreamAssumption, NobodyAssumption, HandleAssumption, EndpointAssumption DEF CheckOffered,
       hostVars, TypeInv, OwnerTypeOK, OwnerType, StageInv, WorkInv, ReleaseInv, CommandInv, GateInv,
       HostInv, UseInv, OwnedInv, Valid
  <2>11. CASE ReadInfo(o)
    BY <2>11, StreamAssumption, NobodyAssumption, HandleAssumption, EndpointAssumption DEF ReadInfo,
       TypeInv, OwnerTypeOK, OwnerType, StageInv, WorkInv, ReleaseInv, CommandInv, GateInv, HostInv, UseInv,
       OwnedInv, Valid
  <2>12. CASE EndFailedStart(o)
    BY <2>12, StreamAssumption, NobodyAssumption, HandleAssumption, EndpointAssumption DEF EndFailedStart,
       hostVars, TypeInv, OwnerTypeOK, OwnerType, StageInv, WorkInv, ReleaseInv, CommandInv, GateInv,
       HostInv, UseInv, OwnedInv, Valid
  <2>13. CASE CloseFailedStart(o)
    BY <2>13, StreamAssumption, NobodyAssumption, HandleAssumption, EndpointAssumption DEF CloseFailedStart,
       CloseLocal, Throw, TypeInv, OwnerTypeOK, OwnerType, StageInv, WorkInv, ReleaseInv, CommandInv,
       GateInv, HostInv, UseInv, OwnedInv, Valid
  <2>14. CASE RecordHandle(o)
    BY <2>14, StreamAssumption, NobodyAssumption, HandleAssumption, EndpointAssumption DEF RecordHandle,
       Record, hostVars, TypeInv, OwnerTypeOK, OwnerType, StageInv, WorkInv, ReleaseInv, CommandInv,
       GateInv, HostInv, UseInv, OwnedInv, Valid
  <2>15. CASE CheckCanceled(o)
    BY <2>15, StreamAssumption, NobodyAssumption, HandleAssumption, EndpointAssumption DEF CheckCanceled,
       hostVars, TypeInv, OwnerTypeOK, OwnerType, StageInv, WorkInv, ReleaseInv, CommandInv, GateInv,
       HostInv, UseInv, OwnedInv, Valid
  <2>16. CASE Readback(o)
    BY <2>16, StreamAssumption, NobodyAssumption, HandleAssumption, EndpointAssumption DEF Readback,
       hostVars, TypeInv, OwnerTypeOK, OwnerType, StageInv, WorkInv, ReleaseInv, CommandInv, GateInv,
       HostInv, UseInv, OwnedInv, Valid
  <2>17. CASE WorkerFails(o)
    BY <2>17, StreamAssumption, NobodyAssumption, HandleAssumption, EndpointAssumption DEF WorkerFails,
       Throw, hostVars, TypeInv, OwnerTypeOK, OwnerType, StageInv, WorkInv, ReleaseInv, CommandInv, GateInv,
       HostInv, UseInv, OwnedInv, Valid
  <2>18. CASE SendCandidates(o)
    BY <2>18, StreamAssumption, NobodyAssumption, HandleAssumption, EndpointAssumption DEF SendCandidates,
       Step, vars, TypeInv, OwnerTypeOK, OwnerType, StageInv, WorkInv, ReleaseInv, CommandInv, GateInv,
       HostInv, UseInv, OwnedInv, Valid
  <2>19. ASSUME NEW a \in Actors, ActorStep(o, a)
        PROVE  OwnedInv'
    <3>1. CASE EnterRelease(o, a) /\ UNCHANGED hostVars
      <4>1. /\ \A p \in Ops, b \in Actors : at'[p][b] = "ReleaseSent" => at[p][b] = "ReleaseSent"
            /\ \A p \in Ops : at[p]["worker"] \in Hosting \cup {"Record"} =>
                 at'[p]["worker"] \in Hosting \cup {"Record"}
            /\ \A p \in Ops : owner'[p].stream = owner[p].stream
            /\ UNCHANGED <<command, active, client, holder>>
        BY <3>1, EnterIs DEF hostVars
      <4> QED BY <4>1 DEF OwnedInv, Valid
    <3>2. CASE StoreRelease(o, a) /\ UNCHANGED hostVars
      BY <3>2, StreamAssumption, NobodyAssumption, HandleAssumption, EndpointAssumption DEF StoreRelease,
         hostVars, TypeInv, OwnerTypeOK, OwnerType, StageInv, WorkInv, ReleaseInv, CommandInv, GateInv,
         HostInv, UseInv, OwnedInv, Valid
    <3>3. CASE AwaitRelease(o, a) /\ UNCHANGED hostVars
      BY <3>3, StreamAssumption, NobodyAssumption, HandleAssumption, EndpointAssumption DEF AwaitRelease,
         hostVars, TypeInv, OwnerTypeOK, OwnerType, StageInv, WorkInv, ReleaseInv, CommandInv, GateInv,
         HostInv, UseInv, OwnedInv, Valid
    <3>4. CASE CallRelease(o, a)
      BY <3>4, StreamAssumption, NobodyAssumption, HandleAssumption, EndpointAssumption DEF CallRelease,
         Step, TypeInv, OwnerTypeOK, OwnerType, StageInv, WorkInv, ReleaseInv, CommandInv, GateInv, HostInv,
         UseInv, OwnedInv, Valid
    <3>5. CASE ReleaseReturns(o, a)
      BY <3>5, StreamAssumption, NobodyAssumption, HandleAssumption, EndpointAssumption DEF ReleaseReturns,
         Step, TypeInv, OwnerTypeOK, OwnerType, StageInv, WorkInv, ReleaseInv, CommandInv, GateInv, HostInv,
         UseInv, OwnedInv, Valid
    <3> QED BY <2>19, <3>1, <3>2, <3>3, <3>4, <3>5 DEF ActorStep
  <2>20. ASSUME NEW c \in Callers, CallerStep(o, c)
        PROVE  OwnedInv'
    <3>1. CASE UserCalls(o, c)
      BY <3>1, StreamAssumption, NobodyAssumption, HandleAssumption, EndpointAssumption DEF UserCalls, Step,
         TypeInv, OwnerTypeOK, OwnerType, StageInv, WorkInv, ReleaseInv, CommandInv, GateInv, HostInv,
         UseInv, OwnedInv, Valid
    <3>2. CASE ValidateCommand(o, c)
      BY <3>2, StreamAssumption, NobodyAssumption, HandleAssumption, EndpointAssumption DEF ValidateCommand,
         Step, vars, TypeInv, OwnerTypeOK, OwnerType, StageInv, WorkInv, ReleaseInv, CommandInv, GateInv,
         HostInv, UseInv, OwnedInv, Valid
    <3>3. CASE AcquireGates(o, c)
      BY <3>3, StreamAssumption, NobodyAssumption, HandleAssumption, EndpointAssumption DEF AcquireGates,
         Step, vars, TypeInv, OwnerTypeOK, OwnerType, StageInv, WorkInv, ReleaseInv, CommandInv, GateInv,
         HostInv, UseInv, OwnedInv, Valid
    <3>4. CASE Revalidate(o, c)
      BY <3>4, StreamAssumption, NobodyAssumption, HandleAssumption, EndpointAssumption DEF Revalidate,
         Step, vars, TypeInv, OwnerTypeOK, OwnerType, StageInv, WorkInv, ReleaseInv, CommandInv, GateInv,
         HostInv, UseInv, OwnedInv, Valid
    <3>5. CASE SendEnd(o, c)
      BY <3>5, StreamAssumption, NobodyAssumption, HandleAssumption, EndpointAssumption DEF SendEnd, Step,
         vars, TypeInv, OwnerTypeOK, OwnerType, StageInv, WorkInv, ReleaseInv, CommandInv, GateInv, HostInv,
         UseInv, OwnedInv, Valid
    <3>6. CASE CloseLocalSession(o, c)
      BY <3>6, StreamAssumption, NobodyAssumption, HandleAssumption, EndpointAssumption DEF
         CloseLocalSession, CloseLocal, Step, TypeInv, OwnerTypeOK, OwnerType, StageInv, WorkInv,
         ReleaseInv, CommandInv, GateInv, HostInv, UseInv, OwnedInv, Valid
    <3> QED BY <2>20, <3>1, <3>2, <3>3, <3>4, <3>5, <3>6 DEF CallerStep
  <2> QED BY <1>2, <2>1, <2>2, <2>3, <2>4, <2>5, <2>6, <2>7, <2>8, <2>9, <2>10, <2>11, <2>12, <2>13, <2>14,
     <2>15, <2>16, <2>17, <2>18, <2>19, <2>20 DEF HostStep
<1> QED BY <1>1, <1>2, StepCases

\* The operation's own variables keep their types,
LEMMA StatusTyped ==
    ASSUME OwnerTypeOK, StageInv, [HostNext]_sessionVars
    PROVE  /\ status' \in [Ops -> {"Started", "Canceled", "Completed", "Error"}]
           /\ callback' \in [Ops -> {"Idle", "Flag", "Owner", "Done"}]
           /\ canceled' \in [Ops -> BOOLEAN] /\ delivered' \subseteq Ops
<1>1. CASE UNCHANGED sessionVars
  BY <1>1 DEF TypeInv, OwnerTypeOK, sessionVars, vars, hostVars
<1>2. ASSUME NEW o \in Ops, HostStep(o)
      PROVE  /\ status' \in [Ops -> {"Started", "Canceled", "Completed", "Error"}]
           /\ callback' \in [Ops -> {"Idle", "Flag", "Owner", "Done"}]
           /\ canceled' \in [Ops -> BOOLEAN] /\ delivered' \subseteq Ops
  <2>1. CASE CancelAsync(o) /\ UNCHANGED hostVars
    BY <2>1 DEF CancelAsync, hostVars, TypeInv, OwnerTypeOK
  <2>2. CASE CallbackFlag(o) /\ UNCHANGED hostVars
    BY <2>2 DEF CallbackFlag, hostVars, TypeInv, OwnerTypeOK
  <2>3. CASE Cancel(o) /\ UNCHANGED hostVars
    BY <2>3 DEF Cancel, hostVars, TypeInv, OwnerTypeOK
  <2>4. CASE Complete(o) /\ UNCHANGED hostVars
    BY <2>4 DEF Complete, hostVars, TypeInv, OwnerTypeOK
  <2>5. CASE BackgroundEnds(o) /\ UNCHANGED hostVars
    BY <2>5 DEF BackgroundEnds, hostVars, TypeInv, OwnerTypeOK
  <2>6. CASE Prepare(o)
    BY <2>6 DEF Prepare, Throw, hostVars, TypeInv, OwnerTypeOK
  <2>7. CASE PassGate(o)
    BY <2>7 DEF PassGate, Throw, TypeInv, OwnerTypeOK
  <2>8. CASE Create(o)
    BY <2>8 DEF Create, CreateSession, CreateFails, CreateUndone, Throw, TypeInv, OwnerTypeOK
  <2>9. CASE Offer(o)
    BY <2>9 DEF Offer, hostVars, TypeInv, OwnerTypeOK
  <2>10. CASE CheckOffered(o)
    BY <2>10 DEF CheckOffered, hostVars, TypeInv, OwnerTypeOK
  <2>11. CASE ReadInfo(o)
    BY <2>11 DEF ReadInfo, TypeInv, OwnerTypeOK
  <2>12. CASE EndFailedStart(o)
    BY <2>12 DEF EndFailedStart, hostVars, TypeInv, OwnerTypeOK
  <2>13. CASE CloseFailedStart(o)
    BY <2>13 DEF CloseFailedStart, CloseLocal, Throw, TypeInv, OwnerTypeOK
  <2>14. CASE RecordHandle(o)
    BY <2>14 DEF RecordHandle, Record, hostVars, TypeInv, OwnerTypeOK
  <2>15. CASE CheckCanceled(o)
    BY <2>15 DEF CheckCanceled, hostVars, TypeInv, OwnerTypeOK
  <2>16. CASE Readback(o)
    BY <2>16 DEF Readback, hostVars, TypeInv, OwnerTypeOK
  <2>17. CASE WorkerFails(o)
    BY <2>17 DEF WorkerFails, Throw, hostVars, TypeInv, OwnerTypeOK
  <2>18. CASE SendCandidates(o)
    BY <2>18 DEF SendCandidates, Step, vars, TypeInv, OwnerTypeOK
  <2>19. ASSUME NEW a \in Actors, ActorStep(o, a)
        PROVE  /\ status' \in [Ops -> {"Started", "Canceled", "Completed", "Error"}]
           /\ callback' \in [Ops -> {"Idle", "Flag", "Owner", "Done"}]
           /\ canceled' \in [Ops -> BOOLEAN] /\ delivered' \subseteq Ops
    <3>1. CASE EnterRelease(o, a) /\ UNCHANGED hostVars
      BY <3>1 DEF EnterRelease, hostVars, TypeInv, OwnerTypeOK
    <3>2. CASE StoreRelease(o, a) /\ UNCHANGED hostVars
      BY <3>2 DEF StoreRelease, hostVars, TypeInv, OwnerTypeOK
    <3>3. CASE AwaitRelease(o, a) /\ UNCHANGED hostVars
      BY <3>3 DEF AwaitRelease, hostVars, TypeInv, OwnerTypeOK
    <3>4. CASE CallRelease(o, a)
      BY <3>4 DEF CallRelease, Step, TypeInv, OwnerTypeOK
    <3>5. CASE ReleaseReturns(o, a)
      BY <3>5 DEF ReleaseReturns, Step, TypeInv, OwnerTypeOK
    <3> QED BY <2>19, <3>1, <3>2, <3>3, <3>4, <3>5 DEF ActorStep
  <2>20. ASSUME NEW c \in Callers, CallerStep(o, c)
        PROVE  /\ status' \in [Ops -> {"Started", "Canceled", "Completed", "Error"}]
           /\ callback' \in [Ops -> {"Idle", "Flag", "Owner", "Done"}]
           /\ canceled' \in [Ops -> BOOLEAN] /\ delivered' \subseteq Ops
    <3>1. CASE UserCalls(o, c)
      BY <3>1 DEF UserCalls, Step, TypeInv, OwnerTypeOK
    <3>2. CASE ValidateCommand(o, c)
      BY <3>2 DEF ValidateCommand, Step, vars, TypeInv, OwnerTypeOK
    <3>3. CASE AcquireGates(o, c)
      BY <3>3 DEF AcquireGates, Step, vars, TypeInv, OwnerTypeOK
    <3>4. CASE Revalidate(o, c)
      BY <3>4 DEF Revalidate, Step, vars, TypeInv, OwnerTypeOK
    <3>5. CASE SendEnd(o, c)
      BY <3>5 DEF SendEnd, Step, vars, TypeInv, OwnerTypeOK
    <3>6. CASE CloseLocalSession(o, c)
      BY <3>6 DEF CloseLocalSession, CloseLocal, Step, TypeInv, OwnerTypeOK
    <3> QED BY <2>20, <3>1, <3>2, <3>3, <3>4, <3>5, <3>6 DEF CallerStep
  <2> QED BY <1>2, <2>1, <2>2, <2>3, <2>4, <2>5, <2>6, <2>7, <2>8, <2>9, <2>10, <2>11, <2>12, <2>13, <2>14,
     <2>15, <2>16, <2>17, <2>18, <2>19, <2>20 DEF HostStep
<1> QED BY <1>1, <1>2, StepCases

\* Cancel marks the owner and keeps its type,
LEMMA CancelTyped ==
    ASSUME owner \in [Ops -> OwnerType], NEW o \in Ops, owner' = [owner EXCEPT ![o].canceled = TRUE]
    PROVE  owner' \in [Ops -> OwnerType]
  BY DEF OwnerType

\* its release that is started,
LEMMA EnterTyped ==
    ASSUME owner \in [Ops -> OwnerType], NEW o \in Ops, owner' = [owner EXCEPT ![o].release = "started"]
    PROVE  owner' \in [Ops -> OwnerType]
  BY DEF OwnerType

\* and so does the outcome of the release.
LEMMA StoreTyped ==
    ASSUME owner \in [Ops -> OwnerType], NEW o \in Ops, NEW failed \in BOOLEAN,
           owner' = [owner EXCEPT ![o].release = "finished", ![o].failure = failed,
                                  ![o].stream = IF failed THEN @ ELSE NoStream]
    PROVE  owner' \in [Ops -> OwnerType]
  BY ZenonT(60) DEF OwnerType

\* The owner keeps its type,
LEMMA OwnerTyped ==
    ASSUME OwnerTypeOK, [HostNext]_sessionVars
    PROVE  owner' \in [Ops -> OwnerType]
<1>1. CASE UNCHANGED sessionVars
  BY <1>1 DEF TypeInv, OwnerTypeOK, OwnerType, sessionVars, vars, hostVars
<1>2. ASSUME NEW o \in Ops, HostStep(o)
      PROVE  owner' \in [Ops -> OwnerType]
  <2>1. CASE CancelAsync(o) /\ UNCHANGED hostVars
    BY <2>1 DEF CancelAsync, hostVars, TypeInv, OwnerTypeOK, OwnerType
  <2>2. CASE CallbackFlag(o) /\ UNCHANGED hostVars
    BY <2>2 DEF CallbackFlag, hostVars, TypeInv, OwnerTypeOK, OwnerType
  <2>3. CASE Cancel(o) /\ UNCHANGED hostVars
    BY <2>3, CancelTyped DEF Cancel, OwnerTypeOK
  <2>4. CASE Complete(o) /\ UNCHANGED hostVars
    BY <2>4 DEF Complete, hostVars, TypeInv, OwnerTypeOK, OwnerType
  <2>5. CASE BackgroundEnds(o) /\ UNCHANGED hostVars
    BY <2>5 DEF BackgroundEnds, hostVars, TypeInv, OwnerTypeOK, OwnerType
  <2>6. CASE Prepare(o)
    BY <2>6 DEF Prepare, Throw, hostVars, TypeInv, OwnerTypeOK, OwnerType
  <2>7. CASE PassGate(o)
    BY <2>7 DEF PassGate, Throw, TypeInv, OwnerTypeOK, OwnerType
  <2>8. CASE Create(o)
    BY <2>8 DEF Create, CreateSession, CreateFails, CreateUndone, Throw, TypeInv, OwnerTypeOK, OwnerType
  <2>9. CASE Offer(o)
    BY <2>9 DEF Offer, hostVars, TypeInv, OwnerTypeOK, OwnerType
  <2>10. CASE CheckOffered(o)
    BY <2>10 DEF CheckOffered, hostVars, TypeInv, OwnerTypeOK, OwnerType
  <2>11. CASE ReadInfo(o)
    BY <2>11 DEF ReadInfo, TypeInv, OwnerTypeOK, OwnerType
  <2>12. CASE EndFailedStart(o)
    BY <2>12 DEF EndFailedStart, hostVars, TypeInv, OwnerTypeOK, OwnerType
  <2>13. CASE CloseFailedStart(o)
    BY <2>13 DEF CloseFailedStart, CloseLocal, Throw, TypeInv, OwnerTypeOK, OwnerType
  <2>14. CASE RecordHandle(o)
    BY <2>14 DEF RecordHandle, Record, hostVars, TypeInv, OwnerTypeOK, OwnerType
  <2>15. CASE CheckCanceled(o)
    BY <2>15 DEF CheckCanceled, hostVars, TypeInv, OwnerTypeOK, OwnerType
  <2>16. CASE Readback(o)
    BY <2>16 DEF Readback, hostVars, TypeInv, OwnerTypeOK, OwnerType
  <2>17. CASE WorkerFails(o)
    BY <2>17 DEF WorkerFails, Throw, hostVars, TypeInv, OwnerTypeOK, OwnerType
  <2>18. CASE SendCandidates(o)
    BY <2>18 DEF SendCandidates, Step, vars, TypeInv, OwnerTypeOK, OwnerType
  <2>19. ASSUME NEW a \in Actors, ActorStep(o, a)
        PROVE  owner' \in [Ops -> OwnerType]
    <3>1. CASE EnterRelease(o, a) /\ UNCHANGED hostVars
      BY <3>1, EnterTyped DEF EnterRelease, OwnerTypeOK
    <3>2. CASE StoreRelease(o, a) /\ UNCHANGED hostVars
      <4>1. PICK failed \in BOOLEAN :
              owner' = [owner EXCEPT ![o].release = "finished", ![o].failure = failed,
                                     ![o].stream = IF failed THEN @ ELSE NoStream]
        BY <3>2 DEF StoreRelease
      <4> QED BY <4>1, StoreTyped DEF OwnerTypeOK
    <3>3. CASE AwaitRelease(o, a) /\ UNCHANGED hostVars
      BY <3>3 DEF AwaitRelease, hostVars, TypeInv, OwnerTypeOK, OwnerType
    <3>4. CASE CallRelease(o, a)
      BY <3>4 DEF CallRelease, Step, TypeInv, OwnerTypeOK, OwnerType
    <3>5. CASE ReleaseReturns(o, a)
      BY <3>5 DEF ReleaseReturns, Step, TypeInv, OwnerTypeOK, OwnerType
    <3> QED BY <2>19, <3>1, <3>2, <3>3, <3>4, <3>5 DEF ActorStep
  <2>20. ASSUME NEW c \in Callers, CallerStep(o, c)
        PROVE  owner' \in [Ops -> OwnerType]
    <3>1. CASE UserCalls(o, c)
      BY <3>1 DEF UserCalls, Step, TypeInv, OwnerTypeOK, OwnerType
    <3>2. CASE ValidateCommand(o, c)
      BY <3>2 DEF ValidateCommand, Step, vars, TypeInv, OwnerTypeOK, OwnerType
    <3>3. CASE AcquireGates(o, c)
      BY <3>3 DEF AcquireGates, Step, vars, TypeInv, OwnerTypeOK, OwnerType
    <3>4. CASE Revalidate(o, c)
      BY <3>4 DEF Revalidate, Step, vars, TypeInv, OwnerTypeOK, OwnerType
    <3>5. CASE SendEnd(o, c)
      BY <3>5 DEF SendEnd, Step, vars, TypeInv, OwnerTypeOK, OwnerType
    <3>6. CASE CloseLocalSession(o, c)
      BY <3>6 DEF CloseLocalSession, CloseLocal, Step, TypeInv, OwnerTypeOK, OwnerType
    <3> QED BY <2>20, <3>1, <3>2, <3>3, <3>4, <3>5, <3>6 DEF CallerStep
  <2> QED BY <1>2, <2>1, <2>2, <2>3, <2>4, <2>5, <2>6, <2>7, <2>8, <2>9, <2>10, <2>11, <2>12, <2>13, <2>14,
     <2>15, <2>16, <2>17, <2>18, <2>19, <2>20 DEF HostStep
<1> QED BY <1>1, <1>2, StepCases

\* the count of its release commands does,
LEMMA SentTyped ==
    ASSUME OwnerTypeOK, StageInv, [HostNext]_sessionVars
    PROVE  sent' \in [Ops -> 0 .. 2]
<1>1. CASE UNCHANGED sessionVars
  BY <1>1 DEF TypeInv, OwnerTypeOK, StageInv, ReleaseInv, sessionVars, vars, hostVars
<1>2. ASSUME NEW o \in Ops, HostStep(o)
      PROVE  sent' \in [Ops -> 0 .. 2]
  <2>1. CASE CancelAsync(o) /\ UNCHANGED hostVars
    BY <2>1 DEF CancelAsync, hostVars, TypeInv, OwnerTypeOK, StageInv, ReleaseInv
  <2>2. CASE CallbackFlag(o) /\ UNCHANGED hostVars
    BY <2>2 DEF CallbackFlag, hostVars, TypeInv, OwnerTypeOK, StageInv, ReleaseInv
  <2>3. CASE Cancel(o) /\ UNCHANGED hostVars
    BY <2>3 DEF Cancel, hostVars, TypeInv, OwnerTypeOK, StageInv, ReleaseInv
  <2>4. CASE Complete(o) /\ UNCHANGED hostVars
    BY <2>4 DEF Complete, hostVars, TypeInv, OwnerTypeOK, StageInv, ReleaseInv
  <2>5. CASE BackgroundEnds(o) /\ UNCHANGED hostVars
    BY <2>5 DEF BackgroundEnds, hostVars, TypeInv, OwnerTypeOK, StageInv, ReleaseInv
  <2>6. CASE Prepare(o)
    BY <2>6 DEF Prepare, Throw, hostVars, TypeInv, OwnerTypeOK, StageInv, ReleaseInv
  <2>7. CASE PassGate(o)
    BY <2>7 DEF PassGate, Throw, TypeInv, OwnerTypeOK, StageInv, ReleaseInv
  <2>8. CASE Create(o)
    BY <2>8 DEF Create, CreateSession, CreateFails, CreateUndone, Throw, TypeInv, OwnerTypeOK, StageInv,
       ReleaseInv
  <2>9. CASE Offer(o)
    BY <2>9 DEF Offer, hostVars, TypeInv, OwnerTypeOK, StageInv, ReleaseInv
  <2>10. CASE CheckOffered(o)
    BY <2>10 DEF CheckOffered, hostVars, TypeInv, OwnerTypeOK, StageInv, ReleaseInv
  <2>11. CASE ReadInfo(o)
    BY <2>11 DEF ReadInfo, TypeInv, OwnerTypeOK, StageInv, ReleaseInv
  <2>12. CASE EndFailedStart(o)
    BY <2>12 DEF EndFailedStart, hostVars, TypeInv, OwnerTypeOK, StageInv, ReleaseInv
  <2>13. CASE CloseFailedStart(o)
    BY <2>13 DEF CloseFailedStart, CloseLocal, Throw, TypeInv, OwnerTypeOK, StageInv, ReleaseInv
  <2>14. CASE RecordHandle(o)
    BY <2>14 DEF RecordHandle, Record, hostVars, TypeInv, OwnerTypeOK, StageInv, ReleaseInv
  <2>15. CASE CheckCanceled(o)
    BY <2>15 DEF CheckCanceled, hostVars, TypeInv, OwnerTypeOK, StageInv, ReleaseInv
  <2>16. CASE Readback(o)
    BY <2>16 DEF Readback, hostVars, TypeInv, OwnerTypeOK, StageInv, ReleaseInv
  <2>17. CASE WorkerFails(o)
    BY <2>17 DEF WorkerFails, Throw, hostVars, TypeInv, OwnerTypeOK, StageInv, ReleaseInv
  <2>18. CASE SendCandidates(o)
    BY <2>18 DEF SendCandidates, Step, vars, TypeInv, OwnerTypeOK, StageInv, ReleaseInv
  <2>19. ASSUME NEW a \in Actors, ActorStep(o, a)
        PROVE  sent' \in [Ops -> 0 .. 2]
    <3>1. CASE EnterRelease(o, a) /\ UNCHANGED hostVars
      BY <3>1 DEF EnterRelease, hostVars, TypeInv, OwnerTypeOK, StageInv, ReleaseInv
    <3>2. CASE StoreRelease(o, a) /\ UNCHANGED hostVars
      BY <3>2 DEF StoreRelease, hostVars, TypeInv, OwnerTypeOK, StageInv, ReleaseInv
    <3>3. CASE AwaitRelease(o, a) /\ UNCHANGED hostVars
      BY <3>3 DEF AwaitRelease, hostVars, TypeInv, OwnerTypeOK, StageInv, ReleaseInv
    <3>4. CASE CallRelease(o, a)
      BY <3>4 DEF CallRelease, Step, TypeInv, OwnerTypeOK, StageInv, ReleaseInv
    <3>5. CASE ReleaseReturns(o, a)
      BY <3>5 DEF ReleaseReturns, Step, TypeInv, OwnerTypeOK, StageInv, ReleaseInv
    <3> QED BY <2>19, <3>1, <3>2, <3>3, <3>4, <3>5 DEF ActorStep
  <2>20. ASSUME NEW c \in Callers, CallerStep(o, c)
        PROVE  sent' \in [Ops -> 0 .. 2]
    <3>1. CASE UserCalls(o, c)
      BY <3>1 DEF UserCalls, Step, TypeInv, OwnerTypeOK, StageInv, ReleaseInv
    <3>2. CASE ValidateCommand(o, c)
      BY <3>2 DEF ValidateCommand, Step, vars, TypeInv, OwnerTypeOK, StageInv, ReleaseInv
    <3>3. CASE AcquireGates(o, c)
      BY <3>3 DEF AcquireGates, Step, vars, TypeInv, OwnerTypeOK, StageInv, ReleaseInv
    <3>4. CASE Revalidate(o, c)
      BY <3>4 DEF Revalidate, Step, vars, TypeInv, OwnerTypeOK, StageInv, ReleaseInv
    <3>5. CASE SendEnd(o, c)
      BY <3>5 DEF SendEnd, Step, vars, TypeInv, OwnerTypeOK, StageInv, ReleaseInv
    <3>6. CASE CloseLocalSession(o, c)
      BY <3>6 DEF CloseLocalSession, CloseLocal, Step, TypeInv, OwnerTypeOK, StageInv, ReleaseInv
    <3> QED BY <2>20, <3>1, <3>2, <3>3, <3>4, <3>5, <3>6 DEF CallerStep
  <2> QED BY <1>2, <2>1, <2>2, <2>3, <2>4, <2>5, <2>6, <2>7, <2>8, <2>9, <2>10, <2>11, <2>12, <2>13, <2>14,
     <2>15, <2>16, <2>17, <2>18, <2>19, <2>20 DEF HostStep
<1> QED BY <1>1, <1>2, StepCases

\* the host does,
LEMMA HostTyped ==
    ASSUME TypeInv, HostInv, [HostNext]_sessionVars
    PROVE  /\ holder' \in [Streams -> Ops \cup {Nobody}] /\ active' \in Streams \cup {0}
           /\ client' \in BOOLEAN /\ nextHandle' \in Nat \ {0} /\ nextEndpoint' \in Nat
<1>1. CASE UNCHANGED sessionVars
  BY <1>1 DEF TypeInv, OwnerTypeOK, HostInv, sessionVars, vars, hostVars
<1>2. ASSUME NEW o \in Ops, HostStep(o)
      PROVE  /\ holder' \in [Streams -> Ops \cup {Nobody}] /\ active' \in Streams \cup {0}
           /\ client' \in BOOLEAN /\ nextHandle' \in Nat \ {0} /\ nextEndpoint' \in Nat
  <2>1. CASE CancelAsync(o) /\ UNCHANGED hostVars
    BY <2>1, HandleAssumption, EndpointAssumption DEF CancelAsync, hostVars, TypeInv, OwnerTypeOK, HostInv
  <2>2. CASE CallbackFlag(o) /\ UNCHANGED hostVars
    BY <2>2, HandleAssumption, EndpointAssumption DEF CallbackFlag, hostVars, TypeInv, OwnerTypeOK, HostInv
  <2>3. CASE Cancel(o) /\ UNCHANGED hostVars
    BY <2>3, HandleAssumption, EndpointAssumption DEF Cancel, hostVars, TypeInv, OwnerTypeOK, HostInv
  <2>4. CASE Complete(o) /\ UNCHANGED hostVars
    BY <2>4, HandleAssumption, EndpointAssumption DEF Complete, hostVars, TypeInv, OwnerTypeOK, HostInv
  <2>5. CASE BackgroundEnds(o) /\ UNCHANGED hostVars
    BY <2>5, HandleAssumption, EndpointAssumption DEF BackgroundEnds, hostVars, TypeInv, OwnerTypeOK,
       HostInv
  <2>6. CASE Prepare(o)
    BY <2>6, HandleAssumption, EndpointAssumption DEF Prepare, Throw, hostVars, TypeInv, OwnerTypeOK,
       HostInv
  <2>7. CASE PassGate(o)
    BY <2>7, HandleAssumption, EndpointAssumption DEF PassGate, Throw, TypeInv, OwnerTypeOK, HostInv
  <2>8. CASE Create(o)
    <3>1. CASE CreateSession(o)
      <4>1. nextHandle \in Streams
        BY <3>1, <2>8, HandleAssumption, EndpointAssumption DEF CreateSession, TypeInv, HostInv
      <4> QED BY <3>1, <4>1, <2>8 DEF Create, CreateSession, Throw, TypeInv, OwnerTypeOK
    <3>2. CASE /\ UNCHANGED <<active, nextHandle, client, holder>>
               /\ nextEndpoint' \in {nextEndpoint, nextEndpoint + 1}
      BY <3>2 DEF TypeInv, OwnerTypeOK
    <3> QED BY <3>1, <3>2, <2>8 DEF Create, CreateFails, CreateUndone
  <2>9. CASE Offer(o)
    BY <2>9, HandleAssumption, EndpointAssumption DEF Offer, hostVars, TypeInv, OwnerTypeOK, HostInv
  <2>10. CASE CheckOffered(o)
    BY <2>10, HandleAssumption, EndpointAssumption DEF CheckOffered, hostVars, TypeInv, OwnerTypeOK, HostInv
  <2>11. CASE ReadInfo(o)
    BY <2>11, HandleAssumption, EndpointAssumption DEF ReadInfo, TypeInv, OwnerTypeOK, HostInv
  <2>12. CASE EndFailedStart(o)
    BY <2>12, HandleAssumption, EndpointAssumption DEF EndFailedStart, hostVars, TypeInv, OwnerTypeOK,
       HostInv
  <2>13. CASE CloseFailedStart(o)
    BY <2>13, HandleAssumption, EndpointAssumption DEF CloseFailedStart, CloseLocal, Throw, TypeInv,
       OwnerTypeOK, HostInv
  <2>14. CASE RecordHandle(o)
    BY <2>14, HandleAssumption, EndpointAssumption DEF RecordHandle, Record, hostVars, TypeInv, OwnerTypeOK,
       HostInv
  <2>15. CASE CheckCanceled(o)
    BY <2>15, HandleAssumption, EndpointAssumption DEF CheckCanceled, hostVars, TypeInv, OwnerTypeOK,
       HostInv
  <2>16. CASE Readback(o)
    BY <2>16, HandleAssumption, EndpointAssumption DEF Readback, hostVars, TypeInv, OwnerTypeOK, HostInv
  <2>17. CASE WorkerFails(o)
    BY <2>17, HandleAssumption, EndpointAssumption DEF WorkerFails, Throw, hostVars, TypeInv, OwnerTypeOK,
       HostInv
  <2>18. CASE SendCandidates(o)
    BY <2>18, HandleAssumption, EndpointAssumption DEF SendCandidates, Step, vars, TypeInv, OwnerTypeOK,
       HostInv
  <2>19. ASSUME NEW a \in Actors, ActorStep(o, a)
        PROVE  /\ holder' \in [Streams -> Ops \cup {Nobody}] /\ active' \in Streams \cup {0}
           /\ client' \in BOOLEAN /\ nextHandle' \in Nat \ {0} /\ nextEndpoint' \in Nat
    <3>1. CASE EnterRelease(o, a) /\ UNCHANGED hostVars
      BY <3>1, HandleAssumption, EndpointAssumption DEF EnterRelease, hostVars, TypeInv, OwnerTypeOK,
         HostInv
    <3>2. CASE StoreRelease(o, a) /\ UNCHANGED hostVars
      BY <3>2, HandleAssumption, EndpointAssumption DEF StoreRelease, hostVars, TypeInv, OwnerTypeOK,
         HostInv
    <3>3. CASE AwaitRelease(o, a) /\ UNCHANGED hostVars
      BY <3>3, HandleAssumption, EndpointAssumption DEF AwaitRelease, hostVars, TypeInv, OwnerTypeOK,
         HostInv
    <3>4. CASE CallRelease(o, a)
      BY <3>4, HandleAssumption, EndpointAssumption DEF CallRelease, Step, TypeInv, OwnerTypeOK, HostInv
    <3>5. CASE ReleaseReturns(o, a)
      BY <3>5, HandleAssumption, EndpointAssumption DEF ReleaseReturns, Step, TypeInv, OwnerTypeOK, HostInv
    <3> QED BY <2>19, <3>1, <3>2, <3>3, <3>4, <3>5 DEF ActorStep
  <2>20. ASSUME NEW c \in Callers, CallerStep(o, c)
        PROVE  /\ holder' \in [Streams -> Ops \cup {Nobody}] /\ active' \in Streams \cup {0}
           /\ client' \in BOOLEAN /\ nextHandle' \in Nat \ {0} /\ nextEndpoint' \in Nat
    <3>1. CASE UserCalls(o, c)
      BY <3>1, HandleAssumption, EndpointAssumption DEF UserCalls, Step, TypeInv, OwnerTypeOK, HostInv
    <3>2. CASE ValidateCommand(o, c)
      BY <3>2, HandleAssumption, EndpointAssumption DEF ValidateCommand, Step, vars, TypeInv, OwnerTypeOK,
         HostInv
    <3>3. CASE AcquireGates(o, c)
      BY <3>3, HandleAssumption, EndpointAssumption DEF AcquireGates, Step, vars, TypeInv, OwnerTypeOK,
         HostInv
    <3>4. CASE Revalidate(o, c)
      BY <3>4, HandleAssumption, EndpointAssumption DEF Revalidate, Step, vars, TypeInv, OwnerTypeOK,
         HostInv
    <3>5. CASE SendEnd(o, c)
      BY <3>5, HandleAssumption, EndpointAssumption DEF SendEnd, Step, vars, TypeInv, OwnerTypeOK, HostInv
    <3>6. CASE CloseLocalSession(o, c)
      BY <3>6, HandleAssumption, EndpointAssumption DEF CloseLocalSession, CloseLocal, Step, TypeInv,
         OwnerTypeOK, HostInv
    <3> QED BY <2>20, <3>1, <3>2, <3>3, <3>4, <3>5, <3>6 DEF CallerStep
  <2> QED BY <1>2, <2>1, <2>2, <2>3, <2>4, <2>5, <2>6, <2>7, <2>8, <2>9, <2>10, <2>11, <2>12, <2>13, <2>14,
     <2>15, <2>16, <2>17, <2>18, <2>19, <2>20 DEF HostStep
<1> QED BY <1>1, <1>2, StepCases

\* the gates do,
LEMMA GateStaysTyped ==
    ASSUME GateTyped, [HostNext]_sessionVars
    PROVE  GateTyped'
<1>1. CASE UNCHANGED sessionVars
  BY <1>1 DEF GateTyped, hostVars, sessionVars, vars, hostVars
<1>2. ASSUME NEW o \in Ops, HostStep(o)
      PROVE  GateTyped'
  <2>1. CASE CancelAsync(o) /\ UNCHANGED hostVars
    BY <2>1 DEF CancelAsync, hostVars, GateTyped, hostVars
  <2>2. CASE CallbackFlag(o) /\ UNCHANGED hostVars
    BY <2>2 DEF CallbackFlag, hostVars, GateTyped, hostVars
  <2>3. CASE Cancel(o) /\ UNCHANGED hostVars
    BY <2>3 DEF Cancel, hostVars, GateTyped, hostVars
  <2>4. CASE Complete(o) /\ UNCHANGED hostVars
    BY <2>4 DEF Complete, hostVars, GateTyped, hostVars
  <2>5. CASE BackgroundEnds(o) /\ UNCHANGED hostVars
    BY <2>5 DEF BackgroundEnds, hostVars, GateTyped, hostVars
  <2>6. CASE Prepare(o)
    BY <2>6 DEF Prepare, Throw, hostVars, GateTyped, hostVars
  <2>7. CASE PassGate(o)
    BY <2>7 DEF PassGate, Throw, GateTyped, hostVars
  <2>8. CASE Create(o)
    BY <2>8 DEF Create, CreateSession, CreateFails, CreateUndone, Throw, GateTyped, hostVars
  <2>9. CASE Offer(o)
    BY <2>9 DEF Offer, hostVars, GateTyped, hostVars
  <2>10. CASE CheckOffered(o)
    BY <2>10 DEF CheckOffered, hostVars, GateTyped, hostVars
  <2>11. CASE ReadInfo(o)
    BY <2>11 DEF ReadInfo, GateTyped, hostVars
  <2>12. CASE EndFailedStart(o)
    BY <2>12 DEF EndFailedStart, hostVars, GateTyped, hostVars
  <2>13. CASE CloseFailedStart(o)
    BY <2>13 DEF CloseFailedStart, CloseLocal, Throw, GateTyped, hostVars
  <2>14. CASE RecordHandle(o)
    BY <2>14 DEF RecordHandle, Record, hostVars, GateTyped, hostVars
  <2>15. CASE CheckCanceled(o)
    BY <2>15 DEF CheckCanceled, hostVars, GateTyped, hostVars
  <2>16. CASE Readback(o)
    BY <2>16 DEF Readback, hostVars, GateTyped, hostVars
  <2>17. CASE WorkerFails(o)
    BY <2>17 DEF WorkerFails, Throw, hostVars, GateTyped, hostVars
  <2>18. CASE SendCandidates(o)
    BY <2>18 DEF SendCandidates, Step, vars, GateTyped, hostVars
  <2>19. ASSUME NEW a \in Actors, ActorStep(o, a)
        PROVE  GateTyped'
    <3>1. CASE EnterRelease(o, a) /\ UNCHANGED hostVars
      BY <3>1 DEF EnterRelease, hostVars, GateTyped, hostVars
    <3>2. CASE StoreRelease(o, a) /\ UNCHANGED hostVars
      BY <3>2 DEF StoreRelease, hostVars, GateTyped, hostVars
    <3>3. CASE AwaitRelease(o, a) /\ UNCHANGED hostVars
      BY <3>3 DEF AwaitRelease, hostVars, GateTyped, hostVars
    <3>4. CASE CallRelease(o, a)
      BY <3>4 DEF CallRelease, Step, GateTyped, hostVars
    <3>5. CASE ReleaseReturns(o, a)
      BY <3>5 DEF ReleaseReturns, Step, GateTyped, hostVars
    <3> QED BY <2>19, <3>1, <3>2, <3>3, <3>4, <3>5 DEF ActorStep
  <2>20. ASSUME NEW c \in Callers, CallerStep(o, c)
        PROVE  GateTyped'
    <3>1. CASE UserCalls(o, c)
      BY <3>1 DEF UserCalls, Step, GateTyped, hostVars
    <3>2. CASE ValidateCommand(o, c)
      BY <3>2 DEF ValidateCommand, Step, vars, GateTyped, hostVars
    <3>3. CASE AcquireGates(o, c)
      BY <3>3 DEF AcquireGates, Step, vars, GateTyped, hostVars
    <3>4. CASE Revalidate(o, c)
      BY <3>4 DEF Revalidate, Step, vars, GateTyped, hostVars
    <3>5. CASE SendEnd(o, c)
      BY <3>5 DEF SendEnd, Step, vars, GateTyped, hostVars
    <3>6. CASE CloseLocalSession(o, c)
      BY <3>6 DEF CloseLocalSession, CloseLocal, Step, GateTyped, hostVars
    <3> QED BY <2>20, <3>1, <3>2, <3>3, <3>4, <3>5, <3>6 DEF CallerStep
  <2> QED BY <1>2, <2>1, <2>2, <2>3, <2>4, <2>5, <2>6, <2>7, <2>8, <2>9, <2>10, <2>11, <2>12, <2>13, <2>14,
     <2>15, <2>16, <2>17, <2>18, <2>19, <2>20 DEF HostStep
<1> QED BY <1>1, <1>2, StepCases

\* and the commands do.
LEMMA CommandTyped ==
    ASSUME command \in [Ops -> [Callers -> CommandSteps]], [HostNext]_sessionVars
    PROVE  command' \in [Ops -> [Callers -> CommandSteps]]
<1>1. CASE UNCHANGED sessionVars
  BY <1>1 DEF hostVars, sessionVars, vars, hostVars
<1>2. ASSUME NEW o \in Ops, HostStep(o)
      PROVE  command' \in [Ops -> [Callers -> CommandSteps]]
  <2>1. CASE CancelAsync(o) /\ UNCHANGED hostVars
    BY <2>1 DEF CancelAsync, hostVars, hostVars
  <2>2. CASE CallbackFlag(o) /\ UNCHANGED hostVars
    BY <2>2 DEF CallbackFlag, hostVars, hostVars
  <2>3. CASE Cancel(o) /\ UNCHANGED hostVars
    BY <2>3 DEF Cancel, hostVars, hostVars
  <2>4. CASE Complete(o) /\ UNCHANGED hostVars
    BY <2>4 DEF Complete, hostVars, hostVars
  <2>5. CASE BackgroundEnds(o) /\ UNCHANGED hostVars
    BY <2>5 DEF BackgroundEnds, hostVars, hostVars
  <2>6. CASE Prepare(o)
    BY <2>6 DEF Prepare, Throw, hostVars, hostVars
  <2>7. CASE PassGate(o)
    BY <2>7 DEF PassGate, Throw, hostVars
  <2>8. CASE Create(o)
    BY <2>8 DEF Create, CreateSession, CreateFails, CreateUndone, Throw, hostVars
  <2>9. CASE Offer(o)
    BY <2>9 DEF Offer, hostVars, hostVars
  <2>10. CASE CheckOffered(o)
    BY <2>10 DEF CheckOffered, hostVars, hostVars
  <2>11. CASE ReadInfo(o)
    BY <2>11 DEF ReadInfo, hostVars
  <2>12. CASE EndFailedStart(o)
    BY <2>12 DEF EndFailedStart, hostVars, hostVars
  <2>13. CASE CloseFailedStart(o)
    BY <2>13 DEF CloseFailedStart, CloseLocal, Throw, hostVars
  <2>14. CASE RecordHandle(o)
    BY <2>14 DEF RecordHandle, Record, hostVars, hostVars
  <2>15. CASE CheckCanceled(o)
    BY <2>15 DEF CheckCanceled, hostVars, hostVars
  <2>16. CASE Readback(o)
    BY <2>16 DEF Readback, hostVars, hostVars
  <2>17. CASE WorkerFails(o)
    BY <2>17 DEF WorkerFails, Throw, hostVars, hostVars
  <2>18. CASE SendCandidates(o)
    BY <2>18 DEF SendCandidates, Step, vars, hostVars
  <2>19. ASSUME NEW a \in Actors, ActorStep(o, a)
        PROVE  command' \in [Ops -> [Callers -> CommandSteps]]
    <3>1. CASE EnterRelease(o, a) /\ UNCHANGED hostVars
      BY <3>1 DEF EnterRelease, hostVars, hostVars
    <3>2. CASE StoreRelease(o, a) /\ UNCHANGED hostVars
      BY <3>2 DEF StoreRelease, hostVars, hostVars
    <3>3. CASE AwaitRelease(o, a) /\ UNCHANGED hostVars
      BY <3>3 DEF AwaitRelease, hostVars, hostVars
    <3>4. CASE CallRelease(o, a)
      BY <3>4 DEF CallRelease, Step, hostVars
    <3>5. CASE ReleaseReturns(o, a)
      BY <3>5 DEF ReleaseReturns, Step, hostVars
    <3> QED BY <2>19, <3>1, <3>2, <3>3, <3>4, <3>5 DEF ActorStep
  <2>20. ASSUME NEW c \in Callers, CallerStep(o, c)
        PROVE  command' \in [Ops -> [Callers -> CommandSteps]]
    <3>1. CASE UserCalls(o, c)
      BY <3>1 DEF UserCalls, Step, hostVars
    <3>2. CASE ValidateCommand(o, c)
      BY <3>2 DEF ValidateCommand, Step, vars, hostVars
    <3>3. CASE AcquireGates(o, c)
      BY <3>3 DEF AcquireGates, Step, vars, hostVars
    <3>4. CASE Revalidate(o, c)
      BY <3>4 DEF Revalidate, Step, vars, hostVars
    <3>5. CASE SendEnd(o, c)
      BY <3>5 DEF SendEnd, Step, vars, hostVars
    <3>6. CASE CloseLocalSession(o, c)
      BY <3>6 DEF CloseLocalSession, CloseLocal, Step, hostVars
    <3> QED BY <2>20, <3>1, <3>2, <3>3, <3>4, <3>5, <3>6 DEF CallerStep
  <2> QED BY <1>2, <2>1, <2>2, <2>3, <2>4, <2>5, <2>6, <2>7, <2>8, <2>9, <2>10, <2>11, <2>12, <2>13, <2>14,
     <2>15, <2>16, <2>17, <2>18, <2>19, <2>20 DEF HostStep
<1> QED BY <1>1, <1>2, StepCases

\* The invariant of the sessions holds in the beginning,
LEMMA SessionInit == HostInit => SessionInv
<1> SUFFICES ASSUME HostInit PROVE SessionInv
  OBVIOUS
<1> USE StreamAssumption, HandleAssumption, EndpointAssumption DEF HostInit, InitOwner
<1>1. TypeInv
  <2>1. owner \in [Ops -> OwnerType]
    BY DEF OwnerType
  <2>2. at \in [Ops -> [Actors -> Positions]]
    OBVIOUS
  <2>3. command \in [Ops -> [Callers -> CommandSteps]]
    OBVIOUS
  <2>4. /\ status \in [Ops -> {"Started", "Canceled", "Completed", "Error"}]
        /\ callback \in [Ops -> {"Idle", "Flag", "Owner", "Done"}]
        /\ canceled \in [Ops -> BOOLEAN] /\ sent \in [Ops -> 0 .. 2]
    OBVIOUS
  <2>5. holder \in [Streams -> Ops \cup {Nobody}] /\ delivered \subseteq Ops
    OBVIOUS
  <2>6. OwnerTypeOK
    BY <2>1, <2>4, <2>5 DEF OwnerTypeOK
  <2>7. active \in Streams \cup {0} /\ nextHandle \in Nat \ {0} /\ nextEndpoint \in Nat
    OBVIOUS
  <2>8. client \in BOOLEAN
    BY Zenon
  <2> HIDE DEF HostInit
  <2> QED BY <2>2, <2>3, <2>6, <2>7, <2>8 DEF TypeInv
<1>2. StageInv
  BY DEF StageInv, CancelInv, ReleaseInv, WorkInv, Over
<1>3. GateTyped /\ CommandInv /\ GateInv
  BY DEF GateTyped, CommandInv, GateInv
<1>4. HostInv
  BY DEF HostInv
<1>5. UseInv /\ OwnedInv
  BY NobodyAssumption DEF UseInv, OwnedInv, Valid
<1> QED BY <1>1, <1>2, <1>3, <1>4, <1>5 DEF SessionInv

\* and every step of the host keeps it.
LEMMA SessionStep ==
    ASSUME SessionInv, [HostNext]_sessionVars
    PROVE  SessionInv'
<1> USE DEF SessionInv
<1>1. OwnerTypeOK'
  BY StatusTyped, OwnerTyped, SentTyped, HostTyped DEF TypeInv, OwnerTypeOK
<1>2. TypeInv'
  BY <1>1, CountersTyped, CommandTyped, HostTyped DEF TypeInv
<1> QED BY <1>2, GateStaysTyped, StageStep, CommandStep, GateStep, HostKept, UseStep, OwnedStep

\* A session that takes the place of another has a handle nobody has seen before.
LEMMA HandlesAreNew ==
    ASSUME TypeInv, HostInv, [HostNext]_sessionVars
    PROVE  nextHandle' >= nextHandle /\ (active' = active \/ active' = 0 \/ active' >= nextHandle)
<1>1. CASE UNCHANGED sessionVars
  BY <1>1 DEF sessionVars, hostVars, TypeInv
<1>2. ASSUME NEW o \in Ops, HostStep(o)
      PROVE  nextHandle' >= nextHandle /\ (active' = active \/ active' = 0 \/ active' >= nextHandle)
  <2>1. CASE Create(o)
    BY <2>1 DEF Create, CreateSession, CreateFails, CreateUndone, TypeInv
  <2>2. CASE CloseFailedStart(o)
    BY <2>2 DEF CloseFailedStart, CloseLocal, TypeInv
  <2>3. CASE \E c \in Callers : CallerStep(o, c)
    BY <2>3 DEF CallerStep, UserCalls, ValidateCommand, AcquireGates, Revalidate, SendEnd,
       CloseLocalSession,
       CloseLocal, TypeInv
  <2>4. CASE UNCHANGED <<active, nextHandle>>
    BY <2>4 DEF TypeInv
  <2> QED BY <1>2, <2>1, <2>2, <2>3, <2>4 DEF HostStep, ActorStep, EnterRelease, StoreRelease, AwaitRelease,
             CallRelease, ReleaseReturns, Prepare, PassGate, Offer, CheckOffered, ReadInfo, EndFailedStart,
             RecordHandle, CheckCanceled, Readback, WorkerFails, SendCandidates, hostVars
<1> QED BY <1>1, <1>2, StepCases

-----------------------------------------------------------------------------
(* Signals and waits.                                                       *)

\* A wait that begins has a handle that is known, and no other wait has it.
LEMMA WaitBegins ==
    ASSUME SessionInv, SignalTypeInv, WaitInv, NEW w \in Waits, NEW o \in Ops, WaitForSignal(w, o)
    PROVE  /\ owner[o].stream \in Streams /\ owner[o].stream < nextHandle
           /\ wait' = [wait EXCEPT ![w] = NewWait(owner[o].stream)]
           /\ \A v \in Waits : wait[v].handle # owner[o].stream
<1>1. owner[o].stream # NoStream
  BY DEF WaitForSignal, SessionInv, StageInv, WorkInv
<1>2. owner[o].stream \in Streams /\ owner[o].stream < nextHandle
  BY <1>1 DEF SessionInv, HostInv, TypeInv, OwnerTypeOK, OwnerType
<1> QED BY <1>2 DEF WaitForSignal, Waiting

\* A turn of the loop ends the wait, or takes the front of the queue of its own session.
LEMMA TakesFront ==
    ASSUME SignalTypeInv, NEW w \in Waits, Poll(w)
    PROVE  /\ wait[w].step = "Poll"
           /\ \A v \in Waits : v # w => wait'[v] = wait[v]
           /\ \/ wait' = [wait EXCEPT ![w] = NoWait] /\ signals' = signals
              \/ /\ wait[w].handle = active /\ active # 0 /\ Len(signals) > 0
                 /\ signals' = Tail(signals)
                 /\ wait'[w].step = "Return" /\ wait'[w].handle = wait[w].handle
                 /\ wait'[w].signal = signals[1]
                 /\ wait' \in [Waits -> WaitType]
<1>1. CASE EndWait(w) /\ UNCHANGED signals
  BY <1>1 DEF EndWait, Poll, SignalTypeInv
<1>2. CASE /\ ~wait[w].canceled /\ Valid(wait[w].handle) /\ signals # <<>>
           /\ signals' = Tail(signals)
           /\ wait' = [wait EXCEPT ![w].step = "Return", ![w].signal = Head(signals)]
  <2>1. Len(signals) > 0 /\ Head(signals) = signals[1] /\ signals[1] \in Signals
    BY <1>2 DEF SignalTypeInv
  <2>2. \A v \in Waits : wait[v] \in WaitType
    BY DEF SignalTypeInv
  <2>3. wait' \in [Waits -> WaitType]
    BY ZenonT(60), <1>2, <2>1 DEF WaitType, SignalTypeInv
  <2> QED BY <1>2, <2>1, <2>2, <2>3 DEF Valid, Poll, WaitType, SignalTypeInv
<1> QED BY <1>1, <1>2 DEF Poll

\* A signal is a session and a number.
LEMMA SignalIs == \A signal \in Signals : signal[1] \in Streams /\ signal[2] \in 1 .. MaxSignals
  BY DEF Signals

\* What is left of the queue when its front is taken.
LEMMA TailIs ==
    ASSUME signals \in Seq(Signals), Len(signals) > 0
    PROVE  /\ Tail(signals) \in Seq(Signals) /\ Len(Tail(signals)) = Len(signals) - 1
           /\ \A i \in 1 .. Len(signals) - 1 : Tail(signals)[i] = signals[i + 1]
           /\ signals[1] \in Signals
  OBVIOUS

\* What the queue is when a signal arrives.
LEMMA ArriveIs ==
    ASSUME TypeInv, SignalTypeInv, Arrive
    PROVE  /\ signals' \in Seq(Signals) /\ Len(signals') = Len(signals) + 1
           /\ \A i \in 1 .. Len(signals) : signals'[i] = signals[i]
           /\ signals'[Len(signals) + 1] = <<active, arrived + 1>>
<1>1. <<active, arrived + 1>> \in Signals
  BY SignalAssumption DEF Arrive, SignalTypeInv, Signals, TypeInv
<1> QED BY <1>1 DEF Arrive, SignalTypeInv


\* Every variable of the signals keeps its type.
LEMMA SignalTypeStep ==
    ASSUME SessionInv, SignalTypeInv, WaitInv, [Next]_allVars
    PROVE  SignalTypeInv'
<1> USE DEF SignalTypeInv
<1>1. CASE UNCHANGED allVars
  BY <1>1 DEF allVars, signalVars
<1>2. CASE Host
  <2>1. CASE active' # active
    <3>1. signals' = <<>> /\ arrived' = 0 /\ dropped' = {} /\ UNCHANGED <<wait, received>>
      BY <1>2, <2>1 DEF Host
    <3>2. <<>> \in Seq(Signals) /\ 0 \in 0 .. MaxSignals
      BY SignalAssumption
    <3> QED BY <3>1, <3>2
  <2>2. CASE active' = active
    BY <1>2, <2>2 DEF Host
  <2> QED BY <2>1, <2>2
<1>3. CASE Arrive
  <2>1. arrived' \in 0 .. MaxSignals
    BY <1>3, SignalAssumption DEF Arrive
  <2> QED BY <1>3, <2>1, ArriveIs DEF Arrive, SessionInv
<1>4. ASSUME NEW w \in Waits, NEW o \in Ops, WaitForSignal(w, o)
      PROVE  SignalTypeInv'
  <2>1. NewWait(owner[o].stream) \in WaitType
    BY <1>4, WaitBegins DEF WaitType, NewWait
  <2>2. wait' \in [Waits -> WaitType]
    BY <1>4, <2>1, WaitBegins
  <2> QED BY <1>4, <2>2 DEF WaitForSignal
<1>5. ASSUME NEW w \in Waits, CancelWait(w)
      PROVE  SignalTypeInv'
  <2>1. wait' \in [Waits -> WaitType]
    BY <1>5 DEF CancelWait, WaitType
  <2> QED BY <1>5, <2>1 DEF CancelWait
<1>6. NoWait \in WaitType
  BY DEF NoWait, WaitType
<1>7. ASSUME NEW w \in Waits, Poll(w)
      PROVE  SignalTypeInv'
  <2>1. signals' \in Seq(Signals)
    BY <1>7, TakesFront, TailIs
  <2>3. wait' \in [Waits -> WaitType]
    BY <1>6, <1>7, TakesFront
  <2> QED BY <1>7, <2>1, <2>3 DEF Poll
<1>8. ASSUME NEW w \in Waits, Return(w)
      PROVE  SignalTypeInv'
  <2>1. wait' \in [Waits -> WaitType]
    BY <1>6, <1>8 DEF Return, EndWait
  <2>2. wait[w].handle \in Streams /\ wait[w].signal \in Signals
    <3>1. wait[w] \in WaitType /\ WaitOf(w)
      BY DEF WaitInv
    <3> QED BY <3>1, <1>8 DEF WaitType, WaitOf, Return
  <2>4. Append(received[wait[w].handle], wait[w].signal) \in Seq(Signals)
    BY <2>2
  <2>3. received' \in [Streams -> Seq(Signals)] /\ dropped' \subseteq Signals
    BY <1>8, <2>2, <2>4 DEF Return
  <2> QED BY <1>8, <2>1, <2>3 DEF Return
<1> QED BY <1>1, <1>2, <1>3, <1>4, <1>5, <1>7, <1>8 DEF Next

\* Steps of the waits leave the sessions.
LEMMA SessionsWhile == [Next]_allVars => [HostNext]_sessionVars
  BY DEF Next, Host, Arrive, WaitForSignal, CancelWait, Poll, Return, allVars, sessionVars

\* A step of the host takes the queue away when the session changes.
LEMMA HostTakesQueue ==
    ASSUME Host
    PROVE  /\ UNCHANGED <<wait, received>>
           /\ \/ active' = active /\ UNCHANGED <<signals, arrived, dropped>>
              \/ active' # active /\ signals' = <<>> /\ arrived' = 0 /\ dropped' = {}
  BY DEF Host

\* The queue stays in the order of arrival.
LEMMA QueueStep ==
    ASSUME SessionInv, SignalTypeInv, QueueInv, [Next]_allVars
    PROVE  QueueInv'
<1> USE DEF QueueInv, SignalTypeInv
<1>1. CASE UNCHANGED <<active, signals, arrived>>
  BY <1>1
<1>2. CASE Host
  BY <1>1, <1>2, HostTakesQueue
<1>3. CASE Arrive
  <2>1. active # 0 /\ active' = active /\ arrived' = arrived + 1
    BY <1>3 DEF Arrive, hostVars
  <2>2. \A i \in 1 .. Len(signals) : signals[i] \in Signals /\ signals[i][2] \in Nat
    BY SignalIs, SignalAssumption
  <2>3. \A i \in 1 .. Len(signals') :
          \/ i \in 1 .. Len(signals) /\ signals'[i] = signals[i]
          \/ i = Len(signals) + 1 /\ signals'[i] = <<active, arrived + 1>>
    BY <1>3, ArriveIs DEF SessionInv
  <2>4. \A i \in 1 .. Len(signals') : signals'[i][1] = active /\ signals'[i][2] <= arrived + 1
    BY <2>2, <2>3
  <2>5. ASSUME NEW i \in 1 .. Len(signals'), NEW j \in 1 .. Len(signals'), i < j
        PROVE  signals'[i][2] < signals'[j][2]
    <3>1. i \in 1 .. Len(signals) /\ signals'[i] = signals[i] /\ signals[i][2] <= arrived
      BY <2>3, <2>5, <1>3, ArriveIs DEF SessionInv
    <3>2. CASE j \in 1 .. Len(signals) /\ signals'[j] = signals[j]
      BY <3>1, <3>2, <2>5
    <3>3. CASE signals'[j] = <<active, arrived + 1>>
      BY <3>1, <3>3, <2>2
    <3> QED BY <3>2, <3>3, <2>3
  <2> QED BY <2>1, <2>4, <2>5
<1>4. ASSUME NEW w \in Waits, Poll(w)
      PROVE  QueueInv'
  <2>1. CASE signals' = signals
    BY <1>1, <1>4, <2>1 DEF Poll, hostVars
  <2>2. CASE Len(signals) > 0 /\ signals' = Tail(signals) /\ active # 0
    <3>1. \A i \in 1 .. Len(signals') : i + 1 \in 1 .. Len(signals) /\ signals'[i] = signals[i + 1]
      BY <2>2, TailIs
    <3>2. \A i, j \in 1 .. Len(signals') : i < j => i + 1 < j + 1
      OBVIOUS
    <3>3. UNCHANGED <<active, arrived>>
      BY <1>4 DEF Poll, hostVars
    <3> QED BY <3>1, <3>2, <3>3, <2>2
  <2> QED BY <1>4, <2>1, <2>2, TakesFront
<1> QED BY <1>1, <1>2, <1>3, <1>4 DEF Next, WaitForSignal, CancelWait, Return, allVars, signalVars, hostVars

\* What has no signal yet stays as good a wait whatever happens to the queue.
LEMMA WaitOfKept ==
    ASSUME NEW w \in Waits, WaitOf(w), wait'[w] = wait[w], nextHandle' >= nextHandle,
           nextHandle \in Nat, nextHandle' \in Nat, wait[w] \in WaitType,
           wait[w].step = "Return" /\ wait[w].handle = active' =>
             /\ wait[w].signal[2] <= arrived'
             /\ \A i \in 1 .. Len(signals') : wait[w].signal[2] < signals'[i][2]
    PROVE  WaitOf(w)'
  BY HandleAssumption, EndpointAssumption DEF WaitOf, WaitType

\* A session has one wait, and what that has taken precedes what is queued.
LEMMA WaitStep ==
    ASSUME SessionInv, SignalTypeInv, QueueInv, WaitInv, [Next]_allVars
    PROVE  WaitInv'
<1>1. /\ nextHandle' >= nextHandle /\ nextHandle \in Nat /\ nextHandle' \in Nat
      /\ active' = active \/ active' = 0 \/ active' >= nextHandle
      /\ active \in Nat /\ active' \in Nat /\ arrived \in Nat
  BY SessionsWhile, HandlesAreNew, HostTyped, HandleAssumption, EndpointAssumption, SignalAssumption
     DEF SessionInv, TypeInv, SignalTypeInv
<1>2. \A w \in Waits : WaitOf(w) /\ wait[w] \in WaitType
  BY DEF WaitInv, SignalTypeInv
<1>3. \A i \in 1 .. Len(signals) : signals[i] \in Signals /\ signals[i][2] \in Nat
  BY SignalIs, SignalAssumption DEF SignalTypeInv
<1>4. \A w \in Waits : wait[w].step = "Return" => wait[w].signal \in Signals /\ wait[w].signal[2] \in Nat
  BY <1>2, SignalIs, SignalAssumption DEF WaitOf, WaitType
<1>5. ASSUME UNCHANGED <<wait, signals, arrived>>, active' = active
      PROVE  WaitInv'
  BY <1>1, <1>2, <1>5, WaitOfKept DEF WaitInv, WaitOf
<1>6. CASE Host
  <2>1. CASE active' = active
    BY <1>5, <1>6, <2>1, HostTakesQueue
  <2>2. CASE active' # active
    <3>1. ASSUME NEW w \in Waits
          PROVE  WaitOf(w)'
      <4>1. wait'[w] = wait[w]
        BY <1>6, HostTakesQueue
      <4>2. ~(wait[w].step = "Return" /\ wait[w].handle = active')
        BY <1>1, <1>2, <2>2, HandleAssumption, EndpointAssumption DEF WaitOf, WaitType
      <4> QED BY <1>1, <1>2, <4>1, <4>2, WaitOfKept
    <3>2. wait' = wait
      BY <1>6, HostTakesQueue
    <3> QED BY <3>1, <3>2 DEF WaitInv
  <2> QED BY <2>1, <2>2
<1>7. CASE Arrive
  <2>1. /\ active' = active /\ arrived' = arrived + 1 /\ wait' = wait
        /\ \A i \in 1 .. Len(signals') :
             \/ i \in 1 .. Len(signals) /\ signals'[i] = signals[i]
             \/ signals'[i] = <<active, arrived + 1>>
    BY <1>7, ArriveIs DEF Arrive, hostVars, SessionInv
  <2>2. ASSUME NEW w \in Waits
        PROVE  WaitOf(w)'
    <3>1. wait[w].step = "Return" /\ wait[w].handle = active =>
            /\ wait[w].signal[2] <= arrived'
            /\ \A i \in 1 .. Len(signals') : wait[w].signal[2] < signals'[i][2]
      <4> SUFFICES ASSUME wait[w].step = "Return", wait[w].handle = active
                   PROVE  /\ wait[w].signal[2] <= arrived + 1
                          /\ \A i \in 1 .. Len(signals') : wait[w].signal[2] < signals'[i][2]
        BY <2>1
      <4>1. /\ wait[w].signal[2] \in Nat /\ wait[w].signal[2] <= arrived
            /\ \A i \in 1 .. Len(signals) : wait[w].signal[2] < signals[i][2]
        BY <1>2, <1>4 DEF WaitOf
      <4>2. ASSUME NEW i \in 1 .. Len(signals')
            PROVE  wait[w].signal[2] < signals'[i][2]
        <5>1. CASE i \in 1 .. Len(signals) /\ signals'[i] = signals[i]
          BY <4>1, <5>1
        <5>2. CASE signals'[i] = <<active, arrived + 1>>
          BY <1>1, <4>1, <5>2
        <5> QED BY <2>1, <5>1, <5>2
      <4> QED BY <1>1, <4>1, <4>2
    <3> QED BY <1>1, <1>2, <2>1, <3>1, WaitOfKept
  <2> QED BY <2>1, <2>2 DEF WaitInv
<1>8. ASSUME NEW w \in Waits, \A v \in Waits : v # w => wait'[v] = wait[v],
             UNCHANGED <<active, arrived>>, WaitOf(w)',
             signals' = signals \/ (Len(signals) > 0 /\ signals' = Tail(signals)),
             \A v \in Waits : v # w => (wait'[w].handle # 0 => wait[v].handle # wait'[w].handle)
      PROVE  WaitInv'
  <2>1. \A i \in 1 .. Len(signals') : \E j \in 1 .. Len(signals) : signals'[i] = signals[j]
    <3>1. CASE signals' = signals
      BY <3>1
    <3>2. CASE Len(signals) > 0 /\ signals' = Tail(signals)
      <4>1. \A i \in 1 .. Len(signals') : i + 1 \in 1 .. Len(signals) /\ signals'[i] = signals[i + 1]
        BY <3>2, TailIs DEF SignalTypeInv
      <4> QED BY <4>1
    <3> QED BY <1>8, <3>1, <3>2
  <2>2. ASSUME NEW v \in Waits, v # w
        PROVE  WaitOf(v)'
    <3>1. wait[v].step = "Return" /\ wait[v].handle = active =>
            /\ wait[v].signal[2] <= arrived'
            /\ \A i \in 1 .. Len(signals') : wait[v].signal[2] < signals'[i][2]
      BY <1>2, <1>8, <2>1 DEF WaitOf
    <3> QED BY <1>1, <1>2, <1>8, <2>2, <3>1, WaitOfKept
  <2> QED BY <1>8, <2>2 DEF WaitInv
<1>9. ASSUME NEW w \in Waits, NEW o \in Ops, WaitForSignal(w, o)
      PROVE  WaitInv'
  <2>1. wait'[w] = NewWait(owner[o].stream) /\ \A v \in Waits : v # w => wait'[v] = wait[v]
    BY <1>9, WaitBegins DEF SignalTypeInv
  <2>2. WaitOf(w)'
    BY <1>1, <1>9, <2>1, WaitBegins, HandleAssumption, EndpointAssumption DEF WaitOf, NewWait, NoWait
  <2>3. \A v \in Waits : wait[v].handle # wait'[w].handle
    BY <1>9, <2>1, WaitBegins DEF NewWait
  <2> QED BY <1>8, <1>9, <2>1, <2>2, <2>3 DEF WaitForSignal, hostVars
<1>10. ASSUME NEW w \in Waits, CancelWait(w)
       PROVE  WaitInv'
  <2>1. /\ \A v \in Waits : v # w => wait'[v] = wait[v]
        /\ wait'[w].step = wait[w].step /\ wait'[w].handle = wait[w].handle
        /\ wait'[w].signal = wait[w].signal /\ wait[w] # NoWait
        /\ UNCHANGED <<active, arrived, signals, nextHandle>>
    BY <1>2, <1>10 DEF CancelWait, SignalTypeInv, WaitType, hostVars
  <2>2. wait[w].step # "Idle" /\ WaitOf(w)
    BY <1>2, <2>1 DEF WaitOf
  <2>3. wait'[w] # NoWait
    BY <2>1, <2>2 DEF NoWait
  <2>4. WaitOf(w)'
    BY <2>1, <2>2, <2>3 DEF WaitOf
  <2> QED BY <1>8, <2>1, <2>4 DEF WaitInv
<1>11. ASSUME NEW w \in Waits, Poll(w)
       PROVE  WaitInv'
  <2>0. UNCHANGED <<active, arrived, nextHandle>>
    BY <1>11 DEF Poll, hostVars
  <2>1. CASE wait' = [wait EXCEPT ![w] = NoWait] /\ signals' = signals
    <3>1. wait'[w] = NoWait
      BY <2>1 DEF SignalTypeInv
    <3>2. WaitOf(w)'
      BY <3>1 DEF WaitOf, NoWait
    <3> QED BY <1>8, <1>11, <2>0, <2>1, <3>1, <3>2, TakesFront DEF NoWait
  <2>2. CASE /\ wait[w].handle = active /\ active # 0 /\ Len(signals) > 0
             /\ signals' = Tail(signals)
             /\ wait'[w].step = "Return" /\ wait'[w].handle = wait[w].handle
             /\ wait'[w].signal = signals[1]
             /\ wait' \in [Waits -> WaitType]
    <3>1. wait[w].step = "Poll" /\ wait[w].handle < nextHandle
      BY <1>2, <1>11, TakesFront DEF WaitOf
    <3>2. signals[1] \in Signals /\ signals[1][1] = active /\ signals[1][2] <= arrived /\ signals[1] # NoSignal
      BY <1>3, <2>2, HandleAssumption, EndpointAssumption DEF QueueInv, NoSignal, Signals
    <3>3. \A i \in 1 .. Len(signals') : signals[1][2] < signals'[i][2]
      <4>1. \A i \in 1 .. Len(signals') :
              i + 1 \in 1 .. Len(signals) /\ 1 < i + 1 /\ signals'[i] = signals[i + 1]
        BY <2>2, TailIs DEF SignalTypeInv
      <4> QED BY <2>2, <4>1 DEF QueueInv
    <3>4. WaitOf(w)'
      BY <2>0, <2>2, <3>1, <3>2, <3>3 DEF WaitOf, NoWait
    <3> QED BY <1>8, <1>11, <2>0, <2>2, <3>4, TakesFront DEF WaitInv
  <2> QED BY <1>11, <2>1, <2>2, TakesFront
<1>12. ASSUME NEW w \in Waits, Return(w)
       PROVE  WaitInv'
  <2>1. wait'[w] = NoWait /\ \A v \in Waits : v # w => wait'[v] = wait[v]
    BY <1>12 DEF Return, EndWait, SignalTypeInv
  <2>2. WaitOf(w)'
    BY <2>1 DEF WaitOf, NoWait
  <2> QED BY <1>8, <1>12, <2>1, <2>2 DEF Return, hostVars, NoWait
<1> QED BY <1>5, <1>6, <1>7, <1>9, <1>10, <1>11, <1>12 DEF Next, allVars, signalVars, hostVars

\* A host gives a new session a handle nobody has seen, and never goes back.
LEMMA HandlesGrow ==
    ASSUME SessionInv, SignalTypeInv, [Next]_allVars
    PROVE  /\ nextHandle' >= nextHandle /\ nextHandle \in Nat /\ nextHandle' \in Nat
           /\ active' = active \/ active' = 0 \/ active' >= nextHandle
           /\ active \in Nat /\ active' \in Nat /\ arrived \in Nat
  BY SessionsWhile, HandlesAreNew, HostTyped, HandleAssumption, EndpointAssumption, SignalAssumption
     DEF SessionInv, TypeInv, SignalTypeInv

\* While nothing is received: what a wait takes is the front of the queue, what arrives is
\* new, and no handle that was used is the next session's.
LEMMA ReceivedKept ==
    ASSUME SessionInv, SignalTypeInv, QueueInv, ReceivedInv, [Next]_allVars, received' = received,
           \A w \in Waits : wait'[w].step = "Return" =>
             \/ /\ wait[w].step = "Return" /\ wait'[w].handle = wait[w].handle
                /\ wait'[w].signal = wait[w].signal
             \/ wait'[w].handle = active /\ Len(signals) > 0 /\ wait'[w].signal = signals[1],
           \/ active' # active
           \/ /\ arrived' \in Nat /\ arrived' >= arrived
              /\ \A i \in 1 .. Len(signals') :
                   \/ \E j \in 1 .. Len(signals) : signals'[i] = signals[j]
                   \/ signals'[i] = <<active, arrived + 1>>
    PROVE  ReceivedInv'
<1>1. /\ nextHandle' >= nextHandle /\ nextHandle \in Nat /\ nextHandle' \in Nat
      /\ active' = active \/ active' = 0 \/ active' >= nextHandle
      /\ active \in Nat /\ active' \in Nat /\ arrived \in Nat
  BY HandlesGrow
<1>2. SUFFICES ASSUME NEW h \in Streams, NEW i \in 1 .. Len(received[h])
               PROVE  ReceivedOf(h, i)'
  BY DEF ReceivedInv
<1>3. ReceivedOf(h, i) /\ received[h][i] \in Signals
  BY DEF ReceivedInv, SignalTypeInv
<1>4. received[h][i][2] \in Nat /\ h \in Nat /\ h # 0
  BY <1>3, SignalIs, SignalAssumption, HandleAssumption, EndpointAssumption
<1>5. \A w \in Waits : wait'[w].step = "Return" /\ wait'[w].handle = h =>
        received[h][i][2] < wait'[w].signal[2]
  BY <1>3 DEF ReceivedOf
<1>6. ASSUME h = active'
      PROVE  /\ received[h][i][2] <= arrived'
             /\ \A j \in 1 .. Len(signals') : received[h][i][2] < signals'[j][2]
  <2>1. active' = active /\ received[h][i][2] <= arrived
    BY <1>1, <1>3, <1>4, <1>6 DEF ReceivedOf
  <2>2. ASSUME NEW j \in 1 .. Len(signals')
        PROVE  received[h][i][2] < signals'[j][2]
    <3>1. CASE \E k \in 1 .. Len(signals) : signals'[j] = signals[k]
      BY <1>3, <1>6, <2>1, <3>1 DEF ReceivedOf
    <3>2. CASE signals'[j] = <<active, arrived + 1>>
      BY SMTT(60), <1>1, <1>4, <2>1, <3>2
    <3> QED BY <2>1, <3>1, <3>2
  <2> QED BY <1>1, <1>4, <2>1, <2>2
<1>7. h < nextHandle'
  BY <1>1, <1>3, <1>4 DEF ReceivedOf
<1> QED BY <1>3, <1>5, <1>6, <1>7 DEF ReceivedOf

\* What is received joins what was, behind it.
LEMMA AppendIs ==
    ASSUME NEW s \in Seq(Signals), NEW signal \in Signals
    PROVE  /\ Append(s, signal) \in Seq(Signals) /\ Len(Append(s, signal)) = Len(s) + 1
           /\ \A i \in 1 .. Len(s) : Append(s, signal)[i] = s[i]
           /\ Append(s, signal)[Len(s) + 1] = signal
  OBVIOUS

\* What a wait returns to its caller is of its session, and behind what was received.
LEMMA ReceivedBy ==
    ASSUME SessionInv, SignalTypeInv, WaitInv, ReceivedInv, NEW w \in Waits, Return(w), ~wait[w].canceled,
           NEW h \in Streams, NEW signal \in Signals, wait[w].handle = h, wait[w].signal = signal
    PROVE  ReceivedInv'
<1>1. /\ wait[w].step = "Return" /\ wait[w] \in WaitType /\ WaitOf(w)
      /\ received' = [received EXCEPT ![h] = Append(@, signal)]
      /\ \A v \in Waits : v # w => wait'[v] = wait[v]
      /\ wait'[w] = NoWait /\ UNCHANGED <<active, nextHandle, arrived, signals>>
  BY DEF Return, EndWait, WaitInv, SignalTypeInv, hostVars
<1>2. h \in Streams /\ signal \in Signals /\ signal[1] = h /\ h < nextHandle /\ signal[2] \in Nat
  BY <1>1, SignalIs, SignalAssumption DEF WaitOf, WaitType
<1>3. /\ received[h] \in Seq(Signals) /\ received'[h] = Append(received[h], signal)
      /\ \A k \in Streams : k # h => received'[k] = received[k]
  BY <1>1, <1>2 DEF SignalTypeInv
<1>4. \A v \in Waits : wait'[v].step = "Return" =>
        v # w /\ wait'[v] = wait[v] /\ (wait[v].handle # h)
  BY <1>1, <1>2, HandleAssumption, EndpointAssumption DEF WaitInv, NoWait
<1>5. ASSUME NEW k \in Streams, NEW i \in 1 .. Len(received'[k]), k # h
      PROVE  ReceivedOf(k, i)'
  BY <1>1, <1>3, <1>4, <1>5 DEF ReceivedInv, ReceivedOf
<1>6. ASSUME NEW i \in 1 .. Len(received'[h])
      PROVE  ReceivedOf(h, i)'
  <2>1. /\ Len(received'[h]) = Len(received[h]) + 1 /\ received'[h][Len(received[h]) + 1] = signal
        /\ \A j \in 1 .. Len(received[h]) : received'[h][j] = received[h][j]
    BY <1>2, <1>3, AppendIs
  <2>2. CASE i \in 1 .. Len(received[h])
    <3>1. ReceivedOf(h, i) /\ received[h][i][2] < signal[2]
      BY <1>1, <1>2, <2>2 DEF ReceivedInv, ReceivedOf
    <3>2. \A j \in 1 .. Len(received'[h]) : i < j => received'[h][i][2] < received'[h][j][2]
      <4>1. \A j \in 1 .. Len(received'[h]) : j \in 1 .. Len(received[h]) \/ j = Len(received[h]) + 1
        BY <2>1, <1>3
      <4> QED BY <2>1, <2>2, <3>1, <4>1 DEF ReceivedOf
    <3> QED BY <1>1, <1>4, <2>1, <2>2, <3>1, <3>2 DEF ReceivedOf
  <2>3. CASE i = Len(received[h]) + 1
    <3>1. received'[h][i] = signal /\ \A j \in 1 .. Len(received'[h]) : ~(i < j)
      BY <2>1, <2>3, <1>3
    <3>2. h = active => signal[2] <= arrived /\ \A j \in 1 .. Len(signals) : signal[2] < signals[j][2]
      BY <1>1 DEF WaitOf
    <3> QED BY <1>1, <1>2, <1>4, <3>1, <3>2 DEF ReceivedOf
  <2> QED BY <1>3, <2>1, <2>2, <2>3
<1> QED BY <1>5, <1>6 DEF ReceivedInv

\* What was received stays behind what a wait has taken and what is queued.
LEMMA ReceivedStep ==
    ASSUME SessionInv, SignalTypeInv, QueueInv, WaitInv, ReceivedInv, [Next]_allVars
    PROVE  ReceivedInv'
<1>1. arrived \in Nat /\ \A w \in Waits : WaitOf(w) /\ wait[w] \in WaitType
  BY HandlesGrow DEF WaitInv, SignalTypeInv
<1>2. CASE UNCHANGED allVars
  BY <1>1, <1>2, ReceivedKept DEF allVars, signalVars, hostVars
<1>3. CASE Host
  BY <1>1, <1>3, HostTakesQueue, ReceivedKept
<1>4. CASE Arrive
  <2>1. /\ arrived' = arrived + 1 /\ UNCHANGED <<wait, received>>
        /\ \A i \in 1 .. Len(signals') :
             \/ i \in 1 .. Len(signals) /\ signals'[i] = signals[i]
             \/ signals'[i] = <<active, arrived + 1>>
    BY <1>4, ArriveIs DEF Arrive, SessionInv
  <2> QED BY <1>1, <2>1, ReceivedKept
<1>5. ASSUME NEW w \in Waits, NEW o \in Ops, WaitForSignal(w, o)
      PROVE  ReceivedInv'
  <2>1. wait'[w].step = "Poll" /\ \A v \in Waits : v # w => wait'[v] = wait[v]
    BY <1>5, WaitBegins DEF SignalTypeInv, NewWait
  <2> QED BY <1>1, <1>5, <2>1, ReceivedKept DEF WaitForSignal
<1>6. ASSUME NEW w \in Waits, CancelWait(w)
      PROVE  ReceivedInv'
  <2>1. /\ \A v \in Waits : v # w => wait'[v] = wait[v]
        /\ wait'[w].step = wait[w].step /\ wait'[w].handle = wait[w].handle
        /\ wait'[w].signal = wait[w].signal
    BY <1>1, <1>6 DEF CancelWait, SignalTypeInv, WaitType
  <2> QED BY <1>1, <1>6, <2>1, ReceivedKept DEF CancelWait
<1>7. ASSUME NEW w \in Waits, Poll(w)
      PROVE  ReceivedInv'
  <2>1. UNCHANGED <<active, arrived, received>>
    BY <1>7 DEF Poll, hostVars
  <2>2. \A i \in 1 .. Len(signals') : \E j \in 1 .. Len(signals) : signals'[i] = signals[j]
    <3>1. CASE signals' = signals
      BY <3>1
    <3>2. CASE Len(signals) > 0 /\ signals' = Tail(signals)
      <4>1. \A i \in 1 .. Len(signals') : i + 1 \in 1 .. Len(signals) /\ signals'[i] = signals[i + 1]
        BY <3>2, TailIs DEF SignalTypeInv
      <4> QED BY <4>1
    <3> QED BY <1>7, <3>1, <3>2, TakesFront
  <2>3. \A v \in Waits : wait'[v].step = "Return" =>
          \/ /\ wait[v].step = "Return" /\ wait'[v].handle = wait[v].handle
             /\ wait'[v].signal = wait[v].signal
          \/ wait'[v].handle = active /\ Len(signals) > 0 /\ wait'[v].signal = signals[1]
    BY <1>7, TakesFront DEF SignalTypeInv, NoWait
  <2> QED BY <1>1, <2>1, <2>2, <2>3, ReceivedKept
<1>8. ASSUME NEW w \in Waits, Return(w)
      PROVE  ReceivedInv'
  <2>1. CASE ~wait[w].canceled
    <3>1. wait[w].handle \in Streams /\ wait[w].signal \in Signals
      BY <1>1, <1>8, SignalIs DEF Return, WaitOf, WaitType
    <3> QED BY <1>8, <2>1, <3>1, ReceivedBy
  <2>2. CASE wait[w].canceled
    <3>1. /\ wait'[w] = NoWait /\ \A v \in Waits : v # w => wait'[v] = wait[v]
          /\ UNCHANGED <<received, arrived, signals>>
      BY <1>8, <2>2 DEF Return, EndWait, SignalTypeInv
    <3> QED BY <1>1, <3>1, ReceivedKept DEF NoWait
  <2> QED BY <2>1, <2>2
<1> QED BY <1>2, <1>3, <1>4, <1>5, <1>6, <1>7, <1>8 DEF Next

-----------------------------------------------------------------------------
(* No signal is lost.                                                       *)

\* Where signal n of the active session may be.
Located(n) ==
    \/ \E j \in 1 .. Len(signals) : signals[j] = <<active, n>>
    \/ \E j \in 1 .. Len(received[active]) : received[active][j] = <<active, n>>
    \/ <<active, n>> \in dropped
    \/ \E w \in Waits : wait[w].signal = <<active, n>>

\* The members of a sequence.
LEMMA ToSetIs == \A s \in Seq(Signals), x \in Signals : x \in ToSet(s) <=> \E j \in 1 .. Len(s) : s[j] = x
  BY DEF ToSet

\* A signal stays where it is, or moves on: from the queue to a wait, from a wait to its
\* caller or, if that has canceled, to those that are given up.
LEMMA LocatedStep ==
    ASSUME SessionInv, SignalTypeInv, QueueInv, WaitInv, [Next]_allVars, active' = active,
           active \in Streams, NEW n \in 1 .. arrived', n \in 1 .. arrived => Located(n)
    PROVE  Located(n)'
<1>0. received[active] \in Seq(Signals) /\ \A w \in Waits : WaitOf(w) /\ wait[w] \in WaitType
  BY DEF WaitInv, SignalTypeInv
<1>1. CASE UNCHANGED <<signals, arrived, wait, received, dropped>>
  BY <1>1 DEF Located
<1>2. CASE Host
  BY <1>1, <1>2, HostTakesQueue
<1>3. CASE Arrive
  <2>1. n \in 1 .. arrived \/ n = arrived + 1
    BY <1>3, HandlesGrow DEF Arrive
  <2>2. CASE n = arrived + 1
    <3>1. Len(signals) + 1 \in 1 .. Len(signals') /\ signals'[Len(signals) + 1] = <<active, n>>
      BY <1>3, <2>2, ArriveIs DEF SessionInv, SignalTypeInv
    <3> QED BY <3>1 DEF Located
  <2>3. CASE n \in 1 .. arrived
    <3>1. \A j \in 1 .. Len(signals) : j \in 1 .. Len(signals') /\ signals'[j] = signals[j]
      BY <1>3, ArriveIs DEF SessionInv, SignalTypeInv
    <3>2. UNCHANGED <<wait, received, dropped>>
      BY <1>3 DEF Arrive
    <3> QED BY <2>3, <3>1, <3>2 DEF Located
  <2> QED BY <2>1, <2>2, <2>3
<1>4. ASSUME NEW w \in Waits, NEW signal, signal # <<active, n>>, wait[w].signal = signal,
             \A v \in Waits : v # w => wait'[v] = wait[v], UNCHANGED <<arrived, signals, received, dropped>>
      PROVE  Located(n)'
  BY <1>4 DEF Located
<1>5. NoSignal # <<active, n>>
  BY DEF NoSignal
<1>6. ASSUME NEW w \in Waits, NEW o \in Ops, WaitForSignal(w, o)
      PROVE  Located(n)'
  <2>1. wait[w].signal = NoSignal /\ \A v \in Waits : v # w => wait'[v] = wait[v]
    BY <1>6 DEF WaitForSignal, NoWait, SignalTypeInv
  <2> QED BY <1>4, <1>5, <1>6, <2>1 DEF WaitForSignal
<1>7. ASSUME NEW w \in Waits, CancelWait(w)
      PROVE  Located(n)'
  <2>1. /\ \A v \in Waits : wait'[v].signal = wait[v].signal
        /\ UNCHANGED <<arrived, signals, received, dropped>>
    BY <1>0, <1>7 DEF CancelWait, SignalTypeInv, WaitType
  <2> QED BY <2>1 DEF Located
<1>8. ASSUME NEW w \in Waits, Poll(w)
      PROVE  Located(n)'
  <2>1. wait[w].signal = NoSignal /\ UNCHANGED <<arrived, received, dropped>>
    BY <1>0, <1>8 DEF Poll, WaitOf
  <2>2. CASE signals' = signals
    BY <1>4, <1>5, <1>8, <2>1, <2>2, TakesFront
  <2>3. CASE /\ Len(signals) > 0 /\ signals' = Tail(signals) /\ wait'[w].signal = signals[1]
             /\ \A v \in Waits : v # w => wait'[v] = wait[v]
    <3>1. ASSUME NEW j \in 1 .. Len(signals), signals[j] = <<active, n>>
          PROVE  Located(n)'
      <4>1. CASE j = 1
        BY <2>3, <3>1, <4>1 DEF Located
      <4>2. CASE j # 1
        <5>1. j - 1 \in 1 .. Len(signals') /\ signals'[j - 1] = signals[j]
          BY <2>3, <4>2, TailIs DEF SignalTypeInv
        <5> QED BY <3>1, <5>1 DEF Located
      <4> QED BY <4>1, <4>2
    <3>2. ASSUME ~(\E j \in 1 .. Len(signals) : signals[j] = <<active, n>>)
          PROVE  Located(n)'
      BY <1>5, <2>1, <2>3, <3>2 DEF Located
    <3> QED BY <3>1, <3>2
  <2> QED BY <1>8, <2>2, <2>3, TakesFront
<1>9. ASSUME NEW w \in Waits, Return(w)
      PROVE  Located(n)'
  <2>1. /\ wait[w].step = "Return" /\ wait'[w] = NoWait /\ \A v \in Waits : v # w => wait'[v] = wait[v]
        /\ wait[w].signal \in Signals /\ wait[w].handle = wait[w].signal[1] /\ wait[w].handle \in Streams
        /\ UNCHANGED <<arrived, signals>>
    BY <1>0, <1>9, SignalIs DEF Return, EndWait, WaitOf, WaitType, SignalTypeInv
  <2>2. CASE wait[w].canceled
    <3>1. /\ dropped' = IF wait[w].handle = active THEN dropped \cup {wait[w].signal} ELSE dropped
          /\ UNCHANGED received
      BY <1>9, <2>2 DEF Return
    <3>2. CASE wait[w].signal = <<active, n>>
      BY <2>1, <3>1, <3>2 DEF Located
    <3>3. CASE wait[w].signal # <<active, n>>
      BY <2>1, <3>1, <3>3 DEF Located
    <3> QED BY <3>2, <3>3
  <2>3. CASE ~wait[w].canceled
    <3>1. /\ received' = [received EXCEPT ![wait[w].handle] = Append(@, wait[w].signal)]
          /\ UNCHANGED dropped
      BY <1>9, <2>3 DEF Return
    <3>2. \A j \in 1 .. Len(received[active]) :
            j \in 1 .. Len(received'[active]) /\ received'[active][j] = received[active][j]
      <4>1. CASE wait[w].handle = active
        BY <1>0, <2>1, <3>1, <4>1, AppendIs DEF SignalTypeInv
      <4>2. CASE wait[w].handle # active
        BY <2>1, <3>1, <4>2 DEF SignalTypeInv
      <4> QED BY <4>1, <4>2
    <3>3. CASE wait[w].signal = <<active, n>>
      <4>1. received'[active] = Append(received[active], <<active, n>>)
        BY <2>1, <3>1, <3>3 DEF SignalTypeInv
      <4>2. /\ Len(received[active]) + 1 \in 1 .. Len(received'[active])
            /\ received'[active][Len(received[active]) + 1] = <<active, n>>
        BY <1>0, <2>1, <3>3, <4>1, AppendIs
      <4> QED BY <4>2 DEF Located
    <3>4. CASE wait[w].signal # <<active, n>>
      BY <2>1, <3>1, <3>2, <3>4 DEF Located
    <3> QED BY <3>3, <3>4
  <2> QED BY <2>2, <2>3
<1> QED BY <1>1, <1>2, <1>3, <1>6, <1>7, <1>8, <1>9 DEF Next, allVars, signalVars

\* Signals remain queued until consumed.
LEMMA QueuedStep ==
    ASSUME SessionInv, SignalInv, SessionInv', SignalTypeInv', QueueInv', [Next]_allVars
    PROVE  QueuedUntilConsumed'
<1>1. active' = active \/ arrived' = 0
  <2>1. CASE Host
    BY <2>1, HostTakesQueue
  <2>2. CASE UNCHANGED active
    BY <2>2
  <2> QED BY <2>1, <2>2 DEF Next, Arrive, WaitForSignal, CancelWait, Poll, Return, hostVars, allVars
<1>2. SUFFICES ASSUME NEW n \in 1 .. arrived'
               PROVE  Located(n)'
  <2>1. SUFFICES ASSUME NEW n \in 1 .. arrived', Located(n)'
                 PROVE  \/ <<active', n>> \in ToSet(signals') \cup ToSet(received'[active']) \cup dropped'
                        \/ \E w \in Waits : wait'[w].signal = <<active', n>>
    BY <1>2 DEF QueuedUntilConsumed
  <2>2. active' \in Streams
    BY DEF QueueInv, SessionInv, TypeInv
  <2>3. <<active', n>> \in Signals
    BY <2>2, SignalAssumption DEF SignalTypeInv, Signals
  <2>4. signals' \in Seq(Signals) /\ received'[active'] \in Seq(Signals)
    BY <2>2 DEF SignalTypeInv
  <2> QED BY <2>1, <2>3, <2>4, ToSetIs DEF Located
<1>3. arrived' # 0 /\ active' = active /\ active \in Streams
  BY <1>1 DEF QueueInv, SessionInv, TypeInv
<1>4. ASSUME n \in 1 .. arrived
      PROVE  Located(n)
  <2>1. <<active, n>> \in Signals
    BY <1>3, <1>4, SignalAssumption DEF SignalInv, SignalTypeInv, Signals
  <2> QED BY <1>3, <1>4, <2>1, ToSetIs DEF Located, SignalInv, SignalTypeInv, QueuedUntilConsumed
<1> QED BY <1>3, <1>4, LocatedStep DEF SignalInv

-----------------------------------------------------------------------------
(* Theorems.                                                                *)

\* The invariant holds in the beginning.
LEMMA IInvInit == Init => IInv
<1> SUFFICES ASSUME Init PROVE IInv
  OBVIOUS
<1>1. SessionInv
  BY SessionInit DEF Init
<1>2. SignalTypeInv
  <2>1. <<>> \in Seq(Signals) /\ 0 \in 0 .. MaxSignals /\ NoWait \in WaitType
    BY SignalAssumption DEF NoWait, WaitType
  <2> QED BY <2>1 DEF Init, SignalTypeInv
<1>3. QueueInv
  BY DEF Init, QueueInv
<1>4. WaitInv
  BY DEF Init, WaitInv, WaitOf, NoWait
<1>5. ReceivedInv
  BY DEF Init, ReceivedInv
<1>6. QueuedUntilConsumed
  BY DEF Init, QueuedUntilConsumed
<1> QED BY <1>1, <1>2, <1>3, <1>4, <1>5, <1>6 DEF IInv, SignalInv

\* Every step keeps it.
LEMMA IInvStep == IInv /\ [Next]_allVars => IInv'
<1> SUFFICES ASSUME IInv, [Next]_allVars PROVE IInv'
  OBVIOUS
<1>1. SessionInv'
  BY SessionsWhile, SessionStep DEF IInv
<1>2. SignalTypeInv' /\ QueueInv' /\ WaitInv' /\ ReceivedInv'
  BY SignalTypeStep, QueueStep, WaitStep, ReceivedStep DEF IInv, SignalInv
<1>3. QueuedUntilConsumed'
  BY <1>1, <1>2, QueuedStep DEF IInv
<1> QED BY <1>1, <1>2, <1>3 DEF IInv, SignalInv

\* The sessions and their signals keep the inductive invariant.
THEOREM Inductive == Spec => []IInv
  BY IInvInit, IInvStep, PTL DEF Spec

\* Every variable of the sessions and of their signals has its type: the host never runs
\* past its endpoints, and no session past the signals that are sent on it.
THEOREM TypeCorrect == Spec => []TypeOK
<1>1. ASSUME IInv
      PROVE  TypeOK
  <2>1. nextEndpoint \in 1 .. MaxEndpoints + 1 /\ nextHandle \in Nat
    BY <1>1, EndpointAssumption DEF IInv, SessionInv, TypeInv, HostInv
  <2>2. Positions \subseteq WorkerSteps \cup ReleaseSteps \cup Ends \cup
          {"Gate", "Create", "Offer", "Offered", "EndFailed", "CloseFailed", "Info", "Closing"}
    BY DEF WorkerSteps, ReleaseSteps
  <2>3. at \in [Ops -> [Actors -> WorkerSteps \cup ReleaseSteps \cup Ends \cup
          {"Gate", "Create", "Offer", "Offered", "EndFailed", "CloseFailed", "Info", "Closing"}]]
    BY <1>1, <2>2 DEF IInv, SessionInv, TypeInv
  <2>4. gate \in (Ops \X Callers) \cup {NoUser} /\ OwnerTypeOK /\ client \in BOOLEAN
    BY <1>1 DEF IInv, SessionInv, TypeInv, GateTyped
  <2>5. HostTypeOK
    BY <1>1, <2>1, <2>3, <2>4 DEF IInv, SessionInv, TypeInv, HostTypeOK
  <2> QED BY <1>1, <2>5 DEF IInv, SignalInv, SignalTypeInv, WaitType, TypeOK
<1>2. IInv => TypeOK
  BY <1>1
<1> QED BY <1>2, Inductive, PTL

\* A command in progress has mClient and the native session of its own handle until it has
\* ended, and no session is replaced on the host before it is closed.
THEOREM CommandsKeepTheirSession == Spec => []CommandKeepsItsSession
<1>1. IInv => CommandKeepsItsSession
  BY DEF IInv, SessionInv, CommandKeepsItsSession, UseInv, HostInv
<1> QED BY <1>1, Inductive, PTL

\* A startup that was canceled or has failed leaves no session on the host, unless its
\* release has failed.
THEOREM NoOrphans == Spec => []NoOrphanSession
<1>1. ASSUME IInv, NEW o \in Ops, Quiet(o), status[o] \in {"Canceled", "Error"}, ~owner[o].failure, client,
             NEW s \in Streams, holder[s] = o
      PROVE  FALSE
  <2>1. owner[o].stream = s
    BY <1>1 DEF IInv, SessionInv, OwnedInv, Quiet
  <2>2. owner[o].stream # NoStream
    BY <1>1, <2>1, StreamAssumption
  <2>3. Over(o)
    BY <1>1, <2>2 DEF IInv, SessionInv, StageInv, CancelInv, WorkInv, Quiet
  <2>4. owner[o].release = "finished"
    BY <2>2, <2>3 DEF Over
  <2> QED BY <1>1, <2>2, <2>4 DEF IInv, SessionInv, StageInv, ReleaseInv
<1>2. IInv => NoOrphanSession
  BY <1>1 DEF NoOrphanSession
<1> QED BY <1>2, Inductive, PTL

\* The callers of a session receive its signals only, in the order the camera sent them and
\* none twice, however waits are canceled and sessions follow each other.
THEOREM SignalsInOrder == Spec => []ReceivedInOrder
<1>1. IInv => ReceivedInOrder
  BY DEF IInv, SignalInv, ReceivedInv, ReceivedOf, ReceivedInOrder
<1> QED BY <1>1, Inductive, PTL

\* A signal that has arrived is queued, on its way or received, or was taken by a wait that
\* was canceled.
THEOREM SignalsAreKept == Spec => []QueuedUntilConsumed
<1>1. IInv => QueuedUntilConsumed
  BY DEF IInv, SignalInv
<1> QED BY <1>1, Inductive, PTL
-----------------------------------------------------------------------------
(* CameraSession implements ResourceCustody.                               *)

Asking(o) == at[o]["worker"] \in {"Prepare", "Gate", "Create"}
OwnFreed(o) == \E s \in Streams : holder[s] = o /\ holder' = [holder EXCEPT ![s] = Nobody]

\* What a step of o is to the custody of its session; to the other operations it is nothing.
Quietly(o) == UNCHANGED holder /\ Outcome(o)' = Outcome(o) /\ (Asking(o)' <=> Asking(o))
Asks(o) ==
    /\ Asking(o) /\ ~Asking(o)'
    /\ UNCHANGED holder \/ \E s \in Streams : holder[s] = Nobody /\ holder' = [holder EXCEPT ![s] = o]
    /\ Outcome(o)' = Outcome(o) \/ (Outcome(o) = "Started" /\ Outcome(o)' = "Error")
Cancels(o) ==
    /\ Outcome(o) = "Started" /\ Outcome(o)' = "Canceled"
    /\ UNCHANGED holder /\ (Asking(o)' <=> Asking(o))
Fails(o) ==
    /\ Outcome(o) = "Started" /\ Outcome(o)' = "Error"
    /\ UNCHANGED holder \/ OwnFreed(o)
    /\ ~Asking(o) /\ ~Asking(o)'
Frees(o) ==
    /\ Outcome(o) \in {"Started", "Canceled", "GivenUp"} /\ Outcome(o)' = Outcome(o)
    /\ OwnFreed(o) /\ (Asking(o)' <=> Asking(o))
Delivers(o) ==
    /\ Outcome(o) = "Started" /\ Outcome(o)' = "Completed"
    /\ UNCHANGED holder /\ (\E s \in Streams : holder[s] = o) /\ (Asking(o)' <=> Asking(o))
GivesUp(o) ==
    /\ Outcome(o) = "Completed" /\ Outcome(o)' = "GivenUp"
    /\ UNCHANGED holder \/ OwnFreed(o)
    /\ (Asking(o)' <=> Asking(o))

Effect(o) == Quietly(o) \/ Asks(o) \/ Cancels(o) \/ Fails(o) \/ Frees(o) \/ Delivers(o) \/ GivesUp(o)
Alone(o) == \A p \in Ops \ {o} : Outcome(p)' = Outcome(p) /\ (Asking(p)' <=> Asking(p))

\* A step of one operation changes the outcomes at that operation only,
LEMMA OneOutcome ==
    ASSUME NEW o \in Ops, Alone(o)
    PROVE  [p \in Ops |-> Outcome(p)]' = [[p \in Ops |-> Outcome(p)] EXCEPT ![o] = Outcome(o)']
  BY DEF Alone

\* and who has asked likewise.
LEMMA OneAsks ==
    ASSUME NEW o \in Ops, Alone(o)
    PROVE  /\ (Asking(o)' <=> Asking(o)) => {p \in Ops : ~Asking(p)}' = {p \in Ops : ~Asking(p)}
           /\ Asking(o) /\ ~Asking(o)' => {p \in Ops : ~Asking(p)}' = {p \in Ops : ~Asking(p)} \cup {o}
  BY DEF Alone

\* Every effect is a step of the custody, or a stutter.
LEMMA EffectImplements ==
    ASSUME NEW o \in Ops, Alone(o), Effect(o)
    PROVE  [Custody!Next]_(Custody!vars)
<1> DEFINE outcomes == [p \in Ops |-> Outcome(p)]
           asked == {p \in Ops : ~Asking(p)}
<1>1. {p \in Ops : at[p]["worker"] \notin {"Prepare", "Gate", "Create"}} = asked
  BY DEF Asking
<1>2. {p \in Ops : at[p]["worker"] \notin {"Prepare", "Gate", "Create"}}' = asked'
  BY DEF Asking
<1>3. outcomes' = [outcomes EXCEPT ![o] = Outcome(o)'] /\ outcomes[o] = Outcome(o)
  BY OneOutcome
<1>4. /\ (Asking(o)' <=> Asking(o)) => asked' = asked
      /\ Asking(o) /\ ~Asking(o)' => asked' = asked \cup {o}
      /\ o \in asked <=> ~Asking(o)
  BY OneAsks
<1>5. Outcome(o)' = Outcome(o) => outcomes' = outcomes
  BY <1>3
<1> HIDE DEF outcomes, asked
<1>6. CASE Quietly(o)
  BY <1>1, <1>2, <1>4, <1>5, <1>6 DEF Quietly, Custody!vars, outcomes
<1>7. CASE Asks(o)
  BY <1>1, <1>2, <1>3, <1>4, <1>5, <1>7 DEF Asks, Custody!Next, Custody!Ask, Custody!Becomes, outcomes
<1>8. CASE Cancels(o)
  BY <1>1, <1>2, <1>3, <1>4, <1>8 DEF Cancels, Custody!Next, Custody!Cancel, Custody!Becomes, outcomes
<1>9. CASE Fails(o)
  BY <1>1, <1>2, <1>3, <1>4, <1>9
     DEF Fails, OwnFreed, Custody!Next, Custody!Fail, Custody!Freed, Custody!Becomes, outcomes
<1>10. CASE Frees(o)
  BY <1>1, <1>2, <1>3, <1>4, <1>5, <1>10
     DEF Frees, OwnFreed, Custody!Next, Custody!Free, Custody!Freed, outcomes
<1>11. CASE Delivers(o)
  BY <1>1, <1>2, <1>3, <1>4, <1>11
     DEF Delivers, Custody!Next, Custody!Deliver, Custody!Holds, Custody!Becomes, outcomes
<1>12. CASE GivesUp(o)
  BY <1>1, <1>2, <1>3, <1>4, <1>12
     DEF GivesUp, OwnFreed, Custody!Next, Custody!GiveUp, Custody!Freed, Custody!Becomes, outcomes
<1> QED BY <1>6, <1>7, <1>8, <1>9, <1>10, <1>11, <1>12 DEF Effect


\* A startup has the session it is about to deliver, and a session that a user has called
\* CloseCamera for is no longer a delivered one.
CustodyOf(o) ==
    /\ at[o]["worker"] \in Recorded /\ at[o]["background"] = "Idle" => holder[owner[o].stream] = o
    /\ o \in delivered => status[o] = "Completed" /\ \A c \in Users : command[o][c] = "Idle"

CustodyInv == \A o \in Ops : CustodyOf(o)

\* What the invariants say of an operation that the steps below need.
SessionFacts(o) ==
    /\ status[o] \in {"Started", "Canceled", "Completed", "Error"}
    /\ o \in delivered => status[o] = "Completed" /\ \A c \in Users : command[o][c] = "Idle"
    /\ status[o] \in {"Completed", "Error"} => at[o]["worker"] = "Done"
    /\ at[o]["background"] \notin Unrecorded
    /\ at[o]["worker"] = "Create" /\ active = 0 => \A s \in Streams : holder[s] = Nobody
    /\ nextEndpoint <= MaxEndpoints => nextHandle \in Streams
    /\ at[o]["worker"] = "CloseFailed" => active \in Streams /\ holder[active] = o
    /\ at[o]["worker"] = "Deliver" /\ status[o] = "Started" =>
         owner[o].stream \in Streams /\ holder[owner[o].stream] = o
    /\ \A c \in Callers : command[o][c] \in {"LocalEnded", "LocalUnended"} =>
         /\ owner[o].stream = active /\ active \in Streams /\ holder[active] = o
         /\ status[o] \in {"Started", "Canceled"} \/ (status[o] = "Completed" /\ o \notin delivered)

\* The facts hold.
LEMMA SessionFactsHold ==
    ASSUME SessionInv, CustodyInv, NEW o \in Ops PROVE SessionFacts(o)
<1>1. TypeInv /\ StageInv /\ CommandInv /\ HostInv /\ UseInv
  BY DEF SessionInv
<1>2. /\ status[o] \in {"Started", "Canceled", "Completed", "Error"} /\ at[o] \in [Actors -> Positions]
      /\ owner[o].stream \in Streams \cup {NoStream}
  BY <1>1 DEF TypeInv, OwnerTypeOK, OwnerType
<1>3. CancelInv(o) /\ ReleaseInv(o) /\ WorkInv(o) /\ CustodyOf(o)
  BY <1>1 DEF StageInv, CustodyInv
<1>4. active = 0 => \A s \in Streams : holder[s] = Nobody
  BY <1>1, HandleAssumption, EndpointAssumption DEF HostInv
<1>5. nextEndpoint <= MaxEndpoints => nextHandle \in Streams
  BY <1>1, HandleAssumption, EndpointAssumption DEF HostInv, TypeInv
<1>6. at[o]["worker"] = "CloseFailed" => active \in Streams /\ holder[active] = o
  BY <1>1 DEF UseInv, TypeInv
<1>7. at[o]["worker"] = "Deliver" /\ status[o] = "Started" =>
        owner[o].stream \in Streams /\ holder[owner[o].stream] = o
  BY <1>2, <1>3 DEF CancelInv, WorkInv, CustodyOf
<1>8. ASSUME NEW c \in Callers, command[o][c] \in {"LocalEnded", "LocalUnended"}
      PROVE  /\ owner[o].stream = active /\ active \in Streams /\ holder[active] = o
             /\ status[o] \in {"Started", "Canceled"} \/ (status[o] = "Completed" /\ o \notin delivered)
  <2>1. owner[o].stream = active /\ active \in Streams /\ owner[o].stream # NoStream
    BY <1>1, <1>2, <1>8, HandleAssumption, StreamAssumption DEF UseInv, Valid
  <2>2. holder[active] = o
    BY <1>1, <2>1, HandleAssumption DEF HostInv
  <2>3. CASE c \in Actors
    <3>1. owner[o].release = "started" /\ owner[o].stream # NoStream
      BY <1>1, <1>3, <1>8, <2>1, <2>3 DEF CommandInv, ReleaseInv
    <3> QED BY <1>2, <1>3, <2>1, <2>2, <3>1 DEF WorkInv, Over
  <2>4. CASE c \in Users
    <3>1. status[o] = "Completed"
      BY <1>1, <1>8, <2>4, CallersAre DEF CommandInv
    <3> QED BY <1>3, <1>8, <2>1, <2>2, <2>4, <3>1 DEF CustodyOf
  <2>5. CASE c = "sender"
    BY <1>1, <1>8, <2>5 DEF CommandInv
  <2> QED BY <2>3, <2>4, <2>5, CallersAre
<1> QED BY <1>2, <1>3, <1>4, <1>5, <1>6, <1>7, <1>8 DEF SessionFacts, WorkInv, CustodyOf

\* Every step of the host is an effect of one operation's.
LEMMA StepEffect ==
    ASSUME SessionInv, CustodyInv, NEW o \in Ops, HostStep(o)
    PROVE  Alone(o) /\ Effect(o)
<1>0. SessionFacts(o)
  BY SessionFactsHold
<1>t. /\ status \in [Ops -> {"Started", "Canceled", "Completed", "Error"}]
      /\ at \in [Ops -> [Actors -> Positions]]
      /\ holder \in [Streams -> Ops \cup {Nobody}]
  BY DEF SessionInv, TypeInv, OwnerTypeOK
<1> HIDE DEF SessionInv, CustodyInv, HostStep
<1> USE <1>0, <1>t DEF SessionFacts, Alone, Effect, Outcome, Asking, Throw
<1>1. CASE CancelAsync(o) /\ UNCHANGED hostVars
  BY <1>1 DEF CancelAsync, Cancels
<1>2. CASE CallbackFlag(o) /\ UNCHANGED hostVars
  BY <1>2 DEF CallbackFlag, Quietly
<1>3. CASE Cancel(o) /\ UNCHANGED hostVars
  BY <1>3 DEF Cancel, Quietly
<1>4. CASE Complete(o) /\ UNCHANGED hostVars
  BY <1>4 DEF Complete, Quietly, Delivers
<1>5. CASE BackgroundEnds(o) /\ UNCHANGED hostVars
  BY <1>5 DEF BackgroundEnds, Quietly
<1>6. CASE Prepare(o)
  BY <1>6 DEF Prepare, Quietly, Asks
<1>7. CASE PassGate(o)
  BY <1>7 DEF PassGate, Quietly, Asks
<1>8. CASE Create(o)
  <2>1. Alone(o)
    BY <1>8 DEF Create, CreateSession, CreateFails, CreateUndone
  <2>2. Asks(o)
    BY <1>8 DEF Create, CreateSession, CreateFails, CreateUndone, Asks
  <2> QED BY <2>1, <2>2
<1>9. CASE Offer(o)
  BY <1>9 DEF Offer, Quietly
<1>10. CASE CheckOffered(o)
  BY <1>10 DEF CheckOffered, Quietly
<1>11. CASE ReadInfo(o)
  BY <1>11 DEF ReadInfo, Quietly
<1>12. CASE EndFailedStart(o)
  BY <1>12 DEF EndFailedStart, Quietly
<1>13. CASE CloseFailedStart(o)
  <2>1. UNCHANGED holder \/ OwnFreed(o)
    BY <1>13 DEF CloseFailedStart, CloseLocal, OwnFreed
  <2>2. Alone(o) /\ Asking(o)' = Asking(o) /\ ~Asking(o)
    BY <1>13 DEF CloseFailedStart
  <2> QED BY <1>13, <2>1, <2>2 DEF CloseFailedStart, Quietly, Fails, Frees
<1>14. CASE RecordHandle(o)
  BY <1>14 DEF RecordHandle, Record, Quietly
<1>15. CASE CheckCanceled(o)
  BY <1>15 DEF CheckCanceled, Quietly
<1>16. CASE Readback(o)
  BY <1>16 DEF Readback, Quietly
<1>17. CASE WorkerFails(o)
  BY <1>17 DEF WorkerFails, Quietly, Fails
<1>18. CASE SendCandidates(o)
  BY <1>18 DEF SendCandidates, Quietly, vars
<1>19. ASSUME NEW a \in Actors, ActorStep(o, a) PROVE Alone(o) /\ Effect(o)
  <2>1. CASE EnterRelease(o, a) /\ UNCHANGED hostVars
    BY <2>1 DEF EnterRelease, Quietly
  <2>2. CASE StoreRelease(o, a) /\ UNCHANGED hostVars
    BY <2>2 DEF StoreRelease, Quietly
  <2>3. CASE AwaitRelease(o, a) /\ UNCHANGED hostVars
    BY <2>3 DEF AwaitRelease, Quietly
  <2>4. CASE CallRelease(o, a)
    BY <2>4 DEF CallRelease, Quietly
  <2>5. CASE ReleaseReturns(o, a)
    BY <2>5 DEF ReleaseReturns, Quietly
  <2> QED BY <1>19, <2>1, <2>2, <2>3, <2>4, <2>5 DEF ActorStep
<1>20. ASSUME NEW c \in Callers, CallerStep(o, c) PROVE Alone(o) /\ Effect(o)
  <2>1. CASE UserCalls(o, c)
    BY <2>1 DEF UserCalls, Quietly, GivesUp
  <2>2. CASE CloseLocalSession(o, c)
    <3>1. UNCHANGED holder \/ OwnFreed(o)
      BY <2>2 DEF CloseLocalSession, CloseLocal, OwnFreed
    <3>2. Alone(o) /\ Asking(o)' = Asking(o) /\ Outcome(o)' = Outcome(o)
      BY <2>2 DEF CloseLocalSession
    <3>3. Outcome(o) \in {"Started", "Canceled", "GivenUp"}
      BY <2>2 DEF CloseLocalSession
    <3> QED BY <3>1, <3>2, <3>3 DEF Quietly, Frees
  <2>3. CASE UNCHANGED vars
    BY <2>3 DEF Quietly, vars
  <2> QED BY <1>20, <2>1, <2>2, <2>3
          DEF CallerStep, ValidateCommand, AcquireGates, Revalidate, SendEnd
<1> QED BY <1>1, <1>2, <1>3, <1>4, <1>5, <1>6, <1>7, <1>8, <1>9, <1>10, <1>11, <1>12, <1>13, <1>14, <1>15,
           <1>16, <1>17, <1>18, <1>19, <1>20 DEF HostStep

\* The other operations are left alone: their sessions,
Beside(o) ==
    \A p \in Ops : p # o =>
        /\ at'[p] = at[p] /\ owner'[p].stream = owner[p].stream /\ status'[p] = status[p]
        /\ command'[p] = command[p] /\ (p \in delivered' <=> p \in delivered)

\* which no effect of this one takes from them.
LEMMA CustodyOfOne ==
    ASSUME TypeInv, StageInv, CustodyInv, NEW o \in Ops, Effect(o), Beside(o), CustodyOf(o)' PROVE CustodyInv'
<1>1. \A p \in Ops, s \in Streams : p # o /\ holder[s] = p => holder'[s] = p
  BY NobodyAssumption
     DEF TypeInv, OwnerTypeOK, Effect, Quietly, Asks, Cancels, Fails, Frees, Delivers, GivesUp, OwnFreed
<1>2. ASSUME NEW p \in Ops, p # o PROVE CustodyOf(p)'
  <2>1. owner[p].stream \in Streams \/ ~(at[p]["worker"] \in Recorded /\ at[p]["background"] = "Idle")
    BY DEF TypeInv, OwnerTypeOK, OwnerType, StageInv, WorkInv
  <2> QED BY <1>1, <1>2, <2>1 DEF CustodyInv, CustodyOf, Beside
<1> QED BY <1>2 DEF CustodyInv

\* Every step of the host keeps the session of each startup until it is delivered.
LEMMA CustodyStep ==
    ASSUME SessionInv, CustodyInv, [HostNext]_sessionVars PROVE CustodyInv'
<1>1. CASE UNCHANGED sessionVars
  BY <1>1 DEF CustodyInv, CustodyOf, sessionVars, vars, hostVars
<1>2. ASSUME NEW o \in Ops, HostStep(o) PROVE CustodyInv'
  <2>t. /\ at \in [Ops -> [Actors -> Positions]] /\ owner \in [Ops -> OwnerType] /\ delivered \subseteq Ops
        /\ status \in [Ops -> {"Started", "Canceled", "Completed", "Error"}]
        /\ command \in [Ops -> [Callers -> CommandSteps]]
    BY DEF SessionInv, TypeInv, OwnerTypeOK
  <2>f. /\ \A c \in Users : command[o][c] # "Idle" => status[o] = "Completed" /\ o \notin delivered
        /\ o \in delivered => status[o] = "Completed" /\ \A c \in Users : command[o][c] = "Idle"
        /\ status[o] = "Completed" => at[o]["worker"] = "Done"
        /\ at[o]["worker"] \in Recorded /\ at[o]["background"] = "Idle" => holder[owner[o].stream] = o
    BY CallersAre DEF SessionInv, StageInv, WorkInv, CommandInv, CustodyInv, CustodyOf
  <2> HIDE DEF SessionInv, CustodyInv, HostStep
  <2> SUFFICES Beside(o) /\ CustodyOf(o)'
    BY <1>2, StepEffect, CustodyOfOne DEF SessionInv
  <2> USE <2>t, <2>f DEF Beside, CustodyOf, Throw
  <2>1. CASE CancelAsync(o) /\ UNCHANGED hostVars
    BY <2>1 DEF CancelAsync, hostVars
  <2>2. CASE CallbackFlag(o) /\ UNCHANGED hostVars
    BY <2>2 DEF CallbackFlag, hostVars
  <2>3. CASE Cancel(o) /\ UNCHANGED hostVars
    BY <2>3 DEF Cancel, hostVars, OwnerType
  <2>4. CASE Complete(o) /\ UNCHANGED hostVars
    BY <2>4 DEF Complete, hostVars
  <2>5. CASE BackgroundEnds(o) /\ UNCHANGED hostVars
    BY <2>5 DEF BackgroundEnds, hostVars
  <2>6. CASE Prepare(o)
    BY <2>6 DEF Prepare, hostVars
  <2>7. CASE PassGate(o)
    BY <2>7 DEF PassGate
  <2>8. CASE Create(o)
    BY <2>8 DEF Create
  <2>9. CASE Offer(o)
    BY <2>9 DEF Offer, hostVars
  <2>10. CASE CheckOffered(o)
    BY <2>10 DEF CheckOffered, hostVars
  <2>11. CASE ReadInfo(o)
    BY <2>11 DEF ReadInfo
  <2>12. CASE EndFailedStart(o)
    BY <2>12 DEF EndFailedStart, hostVars
  <2>13. CASE CloseFailedStart(o)
    BY <2>13 DEF CloseFailedStart
  <2>14. CASE RecordHandle(o)
    BY <2>14 DEF RecordHandle, Record, hostVars, OwnerType
  <2>15. CASE CheckCanceled(o)
    BY <2>15 DEF CheckCanceled, hostVars
  <2>16. CASE Readback(o)
    BY <2>16 DEF Readback, hostVars
  <2>17. CASE WorkerFails(o)
    BY <2>17 DEF WorkerFails, hostVars
  <2>18. CASE SendCandidates(o)
    BY <2>18 DEF SendCandidates, Step, vars
  <2>19. ASSUME NEW a \in Actors, ActorStep(o, a) PROVE Beside(o) /\ CustodyOf(o)'
    <3>1. CASE EnterRelease(o, a) /\ UNCHANGED hostVars
      BY <3>1 DEF EnterRelease, hostVars, OwnerType
    <3>2. CASE StoreRelease(o, a) /\ UNCHANGED hostVars
      BY <3>2 DEF StoreRelease, hostVars, OwnerType
    <3>3. CASE AwaitRelease(o, a) /\ UNCHANGED hostVars
      BY <3>3 DEF AwaitRelease, hostVars
    <3>4. CASE CallRelease(o, a)
      <4>1. /\ \A d \in Users : command'[o][d] = command[o][d]
            /\ \A p \in Ops : p # o => command'[p] = command[p]
        BY <3>4, CallersAre DEF CallRelease, Step
      <4> QED BY <3>4, <4>1 DEF CallRelease
    <3>5. CASE ReleaseReturns(o, a)
      BY <3>5 DEF ReleaseReturns, Step
    <3> QED BY <2>19, <3>1, <3>2, <3>3, <3>4, <3>5 DEF ActorStep
  <2>20. ASSUME NEW c \in Callers, CallerStep(o, c) PROVE Beside(o) /\ CustodyOf(o)'
    <3>1. CASE UserCalls(o, c)
      BY <3>1 DEF UserCalls, Step
    <3>s. ASSUME NEW step, Step(o, c, step), command[o][c] # "Idle", UNCHANGED vars
          PROVE  Beside(o) /\ CustodyOf(o)'
      <4>1. /\ \A d \in Callers : d # c => command'[o][d] = command[o][d]
            /\ \A p \in Ops : p # o => command'[p] = command[p]
        BY <3>s DEF Step
      <4>2. c \in Users => o \notin delivered
        BY <3>s
      <4> QED BY <3>s, <4>1, <4>2, CallersAre DEF vars
    <3>2. CASE ValidateCommand(o, c)
      BY <3>2, <3>s DEF ValidateCommand
    <3>3. CASE AcquireGates(o, c)
      BY <3>3, <3>s DEF AcquireGates
    <3>4. CASE Revalidate(o, c)
      BY <3>4, <3>s DEF Revalidate
    <3>5. CASE SendEnd(o, c)
      BY <3>5, <3>s DEF SendEnd
    <3>6. CASE CloseLocalSession(o, c)
      <4>1. ~(at[o]["worker"] \in Recorded /\ at[o]["background"] = "Idle")
        BY <2>f, <3>6 DEF CloseLocalSession, SessionInv, CommandInv
      <4> QED BY <3>6, <4>1 DEF CloseLocalSession, Step
    <3> QED BY <2>20, <3>1, <3>2, <3>3, <3>4, <3>5, <3>6 DEF CallerStep
  <2> QED BY <1>2, <2>1, <2>2, <2>3, <2>4, <2>5, <2>6, <2>7, <2>8, <2>9, <2>10, <2>11, <2>12, <2>13, <2>14,
             <2>15, <2>16, <2>17, <2>18, <2>19, <2>20 DEF HostStep
<1> QED BY <1>1, <1>2, StepCases

\* Startups, releasers, users and the host implement the custody of sessions: a command that
\* is late, repeated or overtaken closes the session of its own startup or none, and what is
\* delivered is held and closed by its user alone.
THEOREM SessionsInCustody == Spec => ImplementsCustody
<1>1. Init => CustodyInv /\ Custody!Init
  BY DEF Init, HostInit, InitOwner, CustodyInv, CustodyOf, Outcome, Custody!Init
<1>2. IInv /\ CustodyInv /\ [Next]_allVars => CustodyInv'
  BY SessionsWhile, CustodyStep DEF IInv
<1>3. IInv /\ CustodyInv /\ [Next]_allVars => [Custody!Next]_(Custody!vars)
  <2>1. CASE UNCHANGED sessionVars
    BY <2>1 DEF sessionVars, vars, Outcome, Custody!vars
  <2>2. ASSUME SessionInv, CustodyInv, NEW o \in Ops, HostStep(o) PROVE [Custody!Next]_(Custody!vars)
    BY <2>2, StepEffect, EffectImplements
  <2> QED BY <2>1, <2>2, SessionsWhile, StepCases DEF IInv
<1> QED BY <1>1, <1>2, <1>3, Inductive, PTL DEF Spec, ImplementsCustody, Custody!Spec

=============================================================================
