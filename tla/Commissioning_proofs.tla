------------------------- MODULE Commissioning_proofs -------------------------
(***************************************************************************)
(* Proofs about Commissioning, for every number of operations on one        *)
(* controller, of tasks and of stages.                                      *)
(***************************************************************************)
EXTENDS Commissioning, FiniteSetTheorems, TLAPS

-----------------------------------------------------------------------------
(* The inductive invariant.                                                 *)

\* How far a call of Commission has come: PairDevice has accepted it; its outcome is not
\* known; it waits or has what it waited for; it holds the exclusive lease.
Past == Steps \ {"Call", "Start", "Acquire", "Reset", "Pair"}
Open == {"CheckPaired", "StopPaired", "Wait", "Asleep", "StopPairing"}
Waiting == Open \cup {"Details", "Judge"}
Leased == Waiting \cup {"Reset", "Pair", "Index"}

\* A report is in hand between TakeReport and RaiseReport.
TaskTypes == {<<"Idle", NoReport>>, <<"Take", NoReport>>} \cup ({"Raise"} \X ((Ops \cup {NoOp}) \X Nat))

WorkerType ==
    /\ at \in [Ops -> Steps]
    /\ status \in [Ops -> {"Started", "Canceled", "Completed"}]
    /\ callback \in [Ops -> {"Idle", "Flag", "Notify", "Done"}]
    /\ flag \in [Ops -> BOOLEAN]
    /\ lease \in Ops \cup {NoOp}

DeviceType ==
    /\ pairing \in [complete : BOOLEAN, error : BOOLEAN, detail : BOOLEAN, listener : Ops \cup {NoOp}]
    /\ native \in [op : Ops \cup {NoOp}, stalled : BOOLEAN]
    /\ stages \in Nat
    /\ chip \in [step : {"Quiet", "Stage", "Failing", "Failed"}, listener : Ops \cup {NoOp}]
    /\ strayed \in BOOLEAN

ProgressType ==
    /\ pending \in Seq((Ops \cup {NoOp}) \X Nat)
    /\ scheduled \in BOOLEAN
    /\ task \in [Tasks -> TaskTypes]
    /\ published \in Nat /\ raised \in Nat
    /\ last \in [Ops -> Nat]

\* One task at a time drains, and only while a drain is scheduled.
DrainInv ==
    /\ \A j, k \in Tasks : task[j][1] # "Idle" /\ task[k][1] # "Idle" => j = k
    /\ ~scheduled => \A k \in Tasks : task[k][1] = "Idle"

\* The reports that have been published and not raised are the one in hand and the queue.
QueueInv ==
    /\ (\A k \in Tasks : task[k][1] # "Raise") =>
        /\ published = raised + Len(pending)
        /\ \A i \in 1 .. Len(pending) : pending[i][2] = raised + i
    /\ \A k \in Tasks : task[k][1] = "Raise" =>
        /\ task[k][2][2] = raised + 1
        /\ published = raised + 1 + Len(pending)
        /\ \A i \in 1 .. Len(pending) : pending[i][2] = raised + 1 + i
    /\ \A o \in Ops : last[o] <= published
    /\ \A o \in Ops : at[o] = "Returned" => last[o] <= raised

\* A cancellation callback runs once, and a sleeping worker is about to be woken when what
\* it waits for is there.
WakeInv(o) ==
    /\ callback[o] # "Idle" => status[o] # "Started"
    /\ flag[o] => callback[o] \in {"Notify", "Done"}
    /\ at[o] = "Asleep" => /\ flag[o] => callback[o] = "Notify"
                           /\ pairing.complete => chip.step = "Failed"

\* The commissioner runs the pairing of an operation that has started it, and the event loop
\* is in the middle of a callback about that pairing or about none.
Live == native.op # NoOp /\ ~native.stalled

DeviceInv ==
    /\ native.op # NoOp => at[native.op] \in Past
    /\ chip.step = "Stage" => Live
    /\ chip.step \in {"Failing", "Failed"} => native.op = NoOp
    /\ chip.step = "Failing" => chip.listener \in Ops /\ at[chip.listener] \in Past

\* The exclusive lease covers a pairing from its reset to its outcome.
LeaseInv(o) ==
    /\ at[o] \in Leased => lease = o
    /\ at[o] \in {"Details", "Judge"} => pairing.complete

\* Unless details have strayed: a pairing that goes on has its operation waiting for it and
\* is the one the state is for; the state is empty when the pairing starts; a result without
\* error is that of the operation that reads it.
ApartInv ==
    /\ index \subseteq commissioned
    /\ chip.step = "Stage" => chip.listener = native.op
    /\ Live => /\ at[native.op] \in Open
               /\ pairing.listener = native.op
               /\ ~pairing.complete
    /\ \A o \in Ops :
        /\ at[o] = "Pair" => pairing.listener = o /\ ~pairing.complete
        /\ at[o] \in Waiting /\ pairing.complete /\ ~pairing.error => o \in commissioned
        /\ at[o] = "Index" => o \in commissioned

IInv ==
    /\ WorkerType /\ DeviceType /\ ProgressType
    /\ DrainInv /\ QueueInv
    /\ \A o \in Ops : WakeInv(o) /\ LeaseInv(o)
    /\ DeviceInv
    /\ ~strayed => ApartInv

-----------------------------------------------------------------------------
(* The progress reports.                                                    *)

\* A step that leaves the progress alone and returns from no operation.
LEMMA ProgressApart ==
    ASSUME IInv, UNCHANGED progress, \A o \in Ops : at'[o] = "Returned" => at[o] = "Returned"
    PROVE  ProgressType' /\ DrainInv' /\ QueueInv'
  BY DEF IInv, ProgressType, DrainInv, QueueInv, progress

\* A report is queued behind the others, and a drain is scheduled when there is none.
LEMMA PublishFacts ==
    ASSUME IInv, NEW l \in Ops \cup {NoOp}, Publish(l), last' \in [Ops -> Nat],
           \A o \in Ops : last'[o] \in {last[o], published'},
           \A o \in Ops : at'[o] = "Returned" => at[o] = "Returned" /\ last'[o] = last[o]
    PROVE  ProgressType' /\ DrainInv' /\ QueueInv'
<1>1. /\ published' = published + 1 /\ raised' = raised /\ scheduled' = TRUE
      /\ pending' = Append(pending, <<l, published + 1>>)
      /\ published \in Nat /\ raised \in Nat
  BY DEF Publish, IInv, ProgressType
<1>2. /\ pending' \in Seq((Ops \cup {NoOp}) \X Nat)
      /\ Len(pending') = Len(pending) + 1 /\ Len(pending) \in Nat
      /\ \A i \in 1 .. Len(pending) : pending'[i] = pending[i]
      /\ pending'[Len(pending) + 1] = <<l, published + 1>>
  BY <1>1 DEF IInv, ProgressType
<1>3. \/ task' = task /\ scheduled
      \/ /\ ~scheduled
         /\ \E k \in Tasks : task[k][1] = "Idle" /\ task' = [task EXCEPT ![k] = <<"Take", NoReport>>]
  BY DEF Publish
<1>4. task' \in [Tasks -> TaskTypes] /\ DrainInv'
  <2>1. CASE task' = task /\ scheduled
    BY <1>1, <2>1 DEF IInv, ProgressType, DrainInv
  <2>2. ASSUME ~scheduled, NEW k \in Tasks, task' = [task EXCEPT ![k] = <<"Take", NoReport>>]
        PROVE  task' \in [Tasks -> TaskTypes] /\ DrainInv'
    <3>1. <<"Take", NoReport>> \in TaskTypes
      BY DEF TaskTypes
    <3>2. task' \in [Tasks -> TaskTypes]
      BY <2>2, <3>1 DEF IInv, ProgressType
    <3>3. \A j \in Tasks : j # k => task'[j][1] = "Idle"
      BY <2>2 DEF IInv, ProgressType, DrainInv
    <3> QED
      BY <1>1, <3>2, <3>3 DEF DrainInv
  <2> QED
    BY <1>3, <2>1, <2>2
<1>5. \A k \in Tasks : /\ task'[k][1] = "Raise" <=> task[k][1] = "Raise"
                       /\ task'[k][1] = "Raise" => task'[k] = task[k]
  BY <1>3 DEF IInv, ProgressType, TaskTypes
<1>6. \A i \in 1 .. Len(pending') : i \in 1 .. Len(pending) \/ i = Len(pending) + 1
  BY <1>2
<1>7. ASSUME NEW k \in Tasks, task'[k][1] = "Raise"
      PROVE  /\ task'[k][2][2] = raised' + 1
             /\ published' = raised' + 1 + Len(pending')
             /\ \A i \in 1 .. Len(pending') : pending'[i][2] = raised' + 1 + i
  <2>1. /\ task'[k][2][2] = raised + 1
        /\ published = raised + 1 + Len(pending)
        /\ \A i \in 1 .. Len(pending) : pending[i][2] = raised + 1 + i
    BY <1>5, <1>7 DEF IInv, QueueInv
  <2>2. \A i \in 1 .. Len(pending') : pending'[i][2] = raised + 1 + i
    <3>1. pending'[Len(pending) + 1][2] = raised + 1 + (Len(pending) + 1)
      BY <1>1, <1>2, <2>1
    <3> QED
      BY <1>2, <1>6, <2>1, <3>1
  <2> QED
    BY <1>1, <1>2, <1>5, <1>7, <2>1, <2>2
<1>8. ASSUME \A k \in Tasks : task'[k][1] # "Raise"
      PROVE  /\ published' = raised' + Len(pending')
             /\ \A i \in 1 .. Len(pending') : pending'[i][2] = raised' + i
  <2>1. /\ published = raised + Len(pending)
        /\ \A i \in 1 .. Len(pending) : pending[i][2] = raised + i
    BY <1>5, <1>8 DEF IInv, QueueInv
  <2>2. pending'[Len(pending) + 1][2] = raised + (Len(pending) + 1)
    BY <1>1, <1>2, <2>1
  <2>3. \A i \in 1 .. Len(pending') : pending'[i][2] = raised + i
    BY <1>2, <1>6, <2>1, <2>2
  <2> QED
    BY <1>1, <1>2, <2>1, <2>3
<1>9. \A o \in Ops : last'[o] <= published' /\ (at'[o] = "Returned" => last'[o] <= raised')
  BY <1>1 DEF IInv, ProgressType, QueueInv
<1>10. QueueInv'
  BY <1>7, <1>8, <1>9 DEF QueueInv
<1> QED
  BY <1>1, <1>2, <1>4, <1>10 DEF ProgressType

-----------------------------------------------------------------------------
(* The steps of the caller, the event loop and the worker.                  *)

\* The caller cancels: CancelAsync preserves the invariant.
LEMMA CancelAsyncStep ==
    ASSUME IInv, NEW o \in Ops, CancelAsync(o)
    PROVE  IInv'
<1>1. WorkerType' /\ DeviceType'
  BY NoOpAssumption, StagesAssumption DEF IInv, WorkerType, DeviceType, Steps, CancelAsync, Goto,
     Throw, Complete, Woken, Fresh, Quiet, workers, device
<1>2. ProgressType' /\ DrainInv' /\ QueueInv'
  <2>1. \A q \in Ops : at'[q] = "Returned" => at[q] = "Returned"
    BY DEF IInv, WorkerType, CancelAsync, Goto, Throw, Complete, Woken, Fresh, Quiet, workers, device
  <2> QED
    BY <2>1, ProgressApart DEF CancelAsync
<1>3. ASSUME NEW p \in Ops
      PROVE  WakeInv(p)'
  BY DEF IInv, WorkerType, DeviceType, WakeInv, CancelAsync, Goto, Throw, Complete, Woken, Fresh,
     Quiet, workers, device
<1>4. ASSUME NEW p \in Ops
      PROVE  LeaseInv(p)'
  BY NoOpAssumption DEF IInv, WorkerType, DeviceType, LeaseInv, Leased, Waiting, Open, CancelAsync,
     Goto, Throw, Complete, Woken, Fresh, Quiet, workers, device
<1>5. DeviceInv'
  BY NoOpAssumption DEF IInv, WorkerType, DeviceType, DeviceInv, Live, Past, Steps, CancelAsync, Goto,
     Throw, Complete, Woken, Fresh, Quiet, workers, device
<1>6. ~strayed' => ApartInv'
  BY NoOpAssumption DEF IInv, WorkerType, DeviceType, DeviceInv, LeaseInv, ApartInv, Live, Leased,
     Waiting, Open, Past,
     CancelAsync, Goto, Throw, Complete, Woken, Fresh, Quiet, workers, device
<1> QED
  BY <1>1, <1>2, <1>3, <1>4, <1>5, <1>6 DEF IInv

\* The cancellation callback sets the flag: StoreFlag preserves the invariant.
LEMMA StoreFlagStep ==
    ASSUME IInv, NEW o \in Ops, StoreFlag(o)
    PROVE  IInv'
<1>1. WorkerType' /\ DeviceType'
  BY NoOpAssumption, StagesAssumption DEF IInv, WorkerType, DeviceType, Steps, StoreFlag, Goto, Throw,
     Complete, Woken, Fresh, Quiet, workers, device
<1>2. ProgressType' /\ DrainInv' /\ QueueInv'
  <2>1. \A q \in Ops : at'[q] = "Returned" => at[q] = "Returned"
    BY DEF IInv, WorkerType, StoreFlag, Goto, Throw, Complete, Woken, Fresh, Quiet, workers, device
  <2> QED
    BY <2>1, ProgressApart DEF StoreFlag
<1>3. ASSUME NEW p \in Ops
      PROVE  WakeInv(p)'
  BY DEF IInv, WorkerType, DeviceType, WakeInv, StoreFlag, Goto, Throw, Complete, Woken, Fresh, Quiet,
     workers, device
<1>4. ASSUME NEW p \in Ops
      PROVE  LeaseInv(p)'
  BY NoOpAssumption DEF IInv, WorkerType, DeviceType, LeaseInv, Leased, Waiting, Open, StoreFlag, Goto,
     Throw, Complete, Woken, Fresh, Quiet, workers, device
<1>5. DeviceInv'
  BY NoOpAssumption DEF IInv, WorkerType, DeviceType, DeviceInv, Live, Past, Steps, StoreFlag, Goto,
     Throw, Complete, Woken, Fresh, Quiet, workers, device
<1>6. ~strayed' => ApartInv'
  BY NoOpAssumption DEF IInv, WorkerType, DeviceType, DeviceInv, LeaseInv, ApartInv, Live, Leased,
     Waiting, Open, Past,
     StoreFlag, Goto, Throw, Complete, Woken, Fresh, Quiet, workers, device
<1> QED
  BY <1>1, <1>2, <1>3, <1>4, <1>5, <1>6 DEF IInv

\* and wakes the waiting worker: NotifyCommissionCancellation preserves the invariant.
LEMMA NotifyCommissionCancellationStep ==
    ASSUME IInv, NEW o \in Ops, NotifyCommissionCancellation(o)
    PROVE  IInv'
<1>1. WorkerType' /\ DeviceType'
  BY NoOpAssumption, StagesAssumption DEF IInv, WorkerType, DeviceType, Steps,
     NotifyCommissionCancellation, Goto, Throw, Complete, Woken, Fresh, Quiet, workers, device
<1>2. ProgressType' /\ DrainInv' /\ QueueInv'
  <2>1. \A q \in Ops : at'[q] = "Returned" => at[q] = "Returned"
    BY DEF IInv, WorkerType, NotifyCommissionCancellation, Goto, Throw, Complete, Woken, Fresh, Quiet,
       workers, device
  <2> QED
    BY <2>1, ProgressApart DEF NotifyCommissionCancellation
<1>3. ASSUME NEW p \in Ops
      PROVE  WakeInv(p)'
  BY DEF IInv, WorkerType, DeviceType, WakeInv, NotifyCommissionCancellation, Goto, Throw, Complete,
     Woken, Fresh, Quiet, workers, device
<1>4. ASSUME NEW p \in Ops
      PROVE  LeaseInv(p)'
  BY NoOpAssumption DEF IInv, WorkerType, DeviceType, LeaseInv, Leased, Waiting, Open,
     NotifyCommissionCancellation, Goto, Throw, Complete, Woken, Fresh, Quiet, workers, device
<1>5. DeviceInv'
  BY NoOpAssumption DEF IInv, WorkerType, DeviceType, DeviceInv, Live, Past, Steps,
     NotifyCommissionCancellation, Goto, Throw, Complete, Woken, Fresh, Quiet, workers, device
<1>6. ~strayed' => ApartInv'
  BY NoOpAssumption DEF IInv, WorkerType, DeviceType, DeviceInv, LeaseInv, ApartInv, Live, Leased,
     Waiting, Open, Past,
     NotifyCommissionCancellation, Goto, Throw, Complete, Woken, Fresh, Quiet, workers, device
<1> QED
  BY <1>1, <1>2, <1>3, <1>4, <1>5, <1>6 DEF IInv

\* The event loop copies the callback: ReportStage preserves the invariant.
LEMMA ReportStageStep ==
    ASSUME IInv, ReportStage
    PROVE  IInv'
<1>1. WorkerType' /\ DeviceType'
  BY NoOpAssumption, StagesAssumption DEF IInv, WorkerType, DeviceType, Steps, ReportStage, Goto,
     Throw, Complete, Woken, Fresh, Quiet, workers, device
<1>2. ProgressType' /\ DrainInv' /\ QueueInv'
  <2>1. \A q \in Ops : at'[q] = "Returned" => at[q] = "Returned"
    BY DEF IInv, WorkerType, ReportStage, Goto, Throw, Complete, Woken, Fresh, Quiet, workers, device
  <2> QED
    BY <2>1, ProgressApart DEF ReportStage
<1>3. ASSUME NEW p \in Ops
      PROVE  WakeInv(p)'
  BY DEF IInv, WorkerType, DeviceType, WakeInv, ReportStage, Goto, Throw, Complete, Woken, Fresh,
     Quiet, workers, device
<1>4. ASSUME NEW p \in Ops
      PROVE  LeaseInv(p)'
  BY NoOpAssumption DEF IInv, WorkerType, DeviceType, LeaseInv, Leased, Waiting, Open, ReportStage,
     Goto, Throw, Complete, Woken, Fresh, Quiet, workers, device
<1>5. DeviceInv'
  BY NoOpAssumption DEF IInv, WorkerType, DeviceType, DeviceInv, Live, Past, Steps, ReportStage, Goto,
     Throw, Complete, Woken, Fresh, Quiet, workers, device
<1>6. ~strayed' => ApartInv'
  BY NoOpAssumption DEF IInv, WorkerType, DeviceType, DeviceInv, LeaseInv, ApartInv, Live, Leased,
     Waiting, Open, Past,
     ReportStage, Goto, Throw, Complete, Woken, Fresh, Quiet, workers, device
<1> QED
  BY <1>1, <1>2, <1>3, <1>4, <1>5, <1>6 DEF IInv

\* and calls it: CallListener preserves the invariant.
LEMMA CallListenerStep ==
    ASSUME IInv, CallListener
    PROVE  IInv'
<1>1. WorkerType' /\ DeviceType'
  BY NoOpAssumption, StagesAssumption DEF IInv, WorkerType, DeviceType, Steps, CallListener, Goto,
     Throw, Complete, Woken, Fresh, Quiet, workers, device
<1>2. ProgressType' /\ DrainInv' /\ QueueInv'
  <2>1. Publish(chip.listener) /\ chip.listener \in Ops \cup {NoOp} /\ last' = last
    BY DEF CallListener, IInv, DeviceType
  <2>2. \A q \in Ops : at'[q] = "Returned" => at[q] = "Returned"
    BY DEF IInv, WorkerType, CallListener, Goto, workers
  <2> QED
    BY <2>1, <2>2, PublishFacts DEF IInv, ProgressType
<1>3. ASSUME NEW p \in Ops
      PROVE  WakeInv(p)'
  BY DEF IInv, WorkerType, DeviceType, WakeInv, CallListener, Goto, Throw, Complete, Woken, Fresh,
     Quiet, workers, device
<1>4. ASSUME NEW p \in Ops
      PROVE  LeaseInv(p)'
  BY NoOpAssumption DEF IInv, WorkerType, DeviceType, LeaseInv, Leased, Waiting, Open, CallListener,
     Goto, Throw, Complete, Woken, Fresh, Quiet, workers, device
<1>5. DeviceInv'
  BY NoOpAssumption DEF IInv, WorkerType, DeviceType, DeviceInv, Live, Past, Steps, CallListener, Goto,
     Throw, Complete, Woken, Fresh, Quiet, workers, device
<1>6. ~strayed' => ApartInv'
  BY NoOpAssumption DEF IInv, WorkerType, DeviceType, DeviceInv, LeaseInv, ApartInv, Live, Leased,
     Waiting, Open, Past,
     CallListener, Goto, Throw, Complete, Woken, Fresh, Quiet, workers, device
<1> QED
  BY <1>1, <1>2, <1>3, <1>4, <1>5, <1>6 DEF IInv

\* The device is refused: RefuseAttestation preserves the invariant.
LEMMA RefuseAttestationStep ==
    ASSUME IInv, RefuseAttestation
    PROVE  IInv'
<1>1. WorkerType' /\ DeviceType'
  BY NoOpAssumption, StagesAssumption DEF IInv, WorkerType, DeviceType, Steps, RefuseAttestation, Goto,
     Throw, Complete, Woken, Fresh, Quiet, workers, device
<1>2. ProgressType' /\ DrainInv' /\ QueueInv'
  <2>1. \A q \in Ops : at'[q] = "Returned" => at[q] = "Returned"
    BY DEF IInv, WorkerType, RefuseAttestation, Goto, Throw, Complete, Woken, Fresh, Quiet, workers,
       device
  <2> QED
    BY <2>1, ProgressApart DEF RefuseAttestation
<1>3. ASSUME NEW p \in Ops
      PROVE  WakeInv(p)'
  BY DEF IInv, WorkerType, DeviceType, WakeInv, RefuseAttestation, Goto, Throw, Complete, Woken, Fresh,
     Quiet, workers, device
<1>4. ASSUME NEW p \in Ops
      PROVE  LeaseInv(p)'
  BY NoOpAssumption DEF IInv, WorkerType, DeviceType, LeaseInv, Leased, Waiting, Open,
     RefuseAttestation, Goto, Throw, Complete, Woken, Fresh, Quiet, workers, device
<1>5. DeviceInv'
  BY NoOpAssumption DEF IInv, WorkerType, DeviceType, DeviceInv, Live, Past, Steps, RefuseAttestation,
     Goto, Throw, Complete, Woken, Fresh, Quiet, workers, device
<1>6. ~strayed' => ApartInv'
  BY NoOpAssumption DEF IInv, WorkerType, DeviceType, DeviceInv, LeaseInv, ApartInv, Live, Leased,
     Waiting, Open, Past,
     RefuseAttestation, Goto, Throw, Complete, Woken, Fresh, Quiet, workers, device
<1> QED
  BY <1>1, <1>2, <1>3, <1>4, <1>5, <1>6 DEF IInv

\* The device joins the fabric: PairingSucceeds preserves the invariant.
LEMMA PairingSucceedsStep ==
    ASSUME IInv, PairingSucceeds
    PROVE  IInv'
<1>1. WorkerType' /\ DeviceType'
  BY NoOpAssumption, StagesAssumption DEF IInv, WorkerType, DeviceType, Steps, PairingSucceeds, Goto,
     Throw, Complete, Woken, Fresh, Quiet, workers, device
<1>2. ProgressType' /\ DrainInv' /\ QueueInv'
  <2>1. \A q \in Ops : at'[q] = "Returned" => at[q] = "Returned"
    BY DEF IInv, WorkerType, PairingSucceeds, Goto, Throw, Complete, Woken, Fresh, Quiet, workers, device
  <2> QED
    BY <2>1, ProgressApart DEF PairingSucceeds
<1>3. ASSUME NEW p \in Ops
      PROVE  WakeInv(p)'
  BY DEF IInv, WorkerType, DeviceType, WakeInv, PairingSucceeds, Goto, Throw, Complete, Woken, Fresh,
     Quiet, workers, device
<1>4. ASSUME NEW p \in Ops
      PROVE  LeaseInv(p)'
  BY NoOpAssumption DEF IInv, WorkerType, DeviceType, LeaseInv, Leased, Waiting, Open, PairingSucceeds,
     Goto, Throw, Complete, Woken, Fresh, Quiet, workers, device
<1>5. DeviceInv'
  BY NoOpAssumption DEF IInv, WorkerType, DeviceType, DeviceInv, Live, Past, Steps, PairingSucceeds,
     Goto, Throw, Complete, Woken, Fresh, Quiet, workers, device
<1>6. ~strayed' => ApartInv'
  BY NoOpAssumption DEF IInv, WorkerType, DeviceType, DeviceInv, LeaseInv, ApartInv, Live, Leased,
     Waiting, Open, Past,
     PairingSucceeds, Goto, Throw, Complete, Woken, Fresh, Quiet, workers, device
<1> QED
  BY <1>1, <1>2, <1>3, <1>4, <1>5, <1>6 DEF IInv

\* The pairing fails: PairingFails preserves the invariant.
LEMMA PairingFailsStep ==
    ASSUME IInv, PairingFails
    PROVE  IInv'
<1>1. WorkerType' /\ DeviceType'
  <2>1. WorkerType'
    BY NoOpAssumption DEF IInv, WorkerType, DeviceType, Steps, PairingFails, Complete, Woken
  <2>2. pairing' \in [complete : BOOLEAN, error : BOOLEAN, detail : BOOLEAN, listener : Ops \cup {NoOp}]
    BY DEF IInv, DeviceType, PairingFails, Complete, Woken
  <2>3. native' \in [op : Ops \cup {NoOp}, stalled : BOOLEAN] /\ stages' \in Nat /\ strayed' \in BOOLEAN
    BY StagesAssumption DEF IInv, DeviceType, PairingFails, Complete, Woken
  <2>4. chip' \in [step : {"Quiet", "Stage", "Failing", "Failed"}, listener : Ops \cup {NoOp}]
    BY DEF IInv, DeviceType, PairingFails, Complete, Woken
  <2> QED
    BY <2>1, <2>2, <2>3, <2>4 DEF DeviceType
<1>2. ProgressType' /\ DrainInv' /\ QueueInv'
  <2>1. \A q \in Ops : at'[q] = "Returned" => at[q] = "Returned"
    BY DEF IInv, WorkerType, PairingFails, Goto, Throw, Complete, Woken, Fresh, Quiet, workers, device
  <2> QED
    BY <2>1, ProgressApart DEF PairingFails
<1>3. ASSUME NEW p \in Ops
      PROVE  WakeInv(p)'
  BY DEF IInv, WorkerType, DeviceType, WakeInv, PairingFails, Goto, Throw, Complete, Woken, Fresh,
     Quiet, workers, device
<1>4. ASSUME NEW p \in Ops
      PROVE  LeaseInv(p)'
  BY ZenonT(60), NoOpAssumption DEF IInv, WorkerType, DeviceType, LeaseInv, Leased, Waiting, Open, PairingFails,
     Goto, Throw, Complete, Woken, Fresh, Quiet, workers, device
<1>5. DeviceInv'
  BY NoOpAssumption DEF IInv, WorkerType, DeviceType, DeviceInv, Live, Past, Steps, PairingFails, Goto,
     Throw, Complete, Woken, Fresh, Quiet, workers, device
<1>6. ~strayed' => ApartInv'
  <2>1. /\ native'.op = NoOp /\ chip'.step = "Failing"
        /\ UNCHANGED <<index, commissioned, strayed, lease>>
        /\ pairing' = pairing \/ pairing' = [pairing EXCEPT !.complete = TRUE, !.error = TRUE]
        /\ \A o \in Ops : at'[o] = at[o] \/ (at[o] = "Asleep" /\ at'[o] = "Wait")
    BY DEF IInv, WorkerType, PairingFails, Complete, Woken
  <2>2. Live /\ (~strayed => at[native.op] \in Open)
    BY DEF IInv, ApartInv, Live, PairingFails
  <2>3. pairing'.listener = pairing.listener
        /\ ((pairing'.complete = pairing.complete /\ pairing'.error = pairing.error) \/ pairing'.error = TRUE)
    BY <2>1 DEF IInv, DeviceType
  <2>4. \A o \in Ops : ~strayed => at[o] # "Pair"
    BY <2>2, NoOpAssumption DEF IInv, LeaseInv, Leased, Waiting, Open, Live, DeviceType
  <2> QED
    BY <2>1, <2>3, <2>4 DEF IInv, ApartInv, Live, Waiting, Open
<1> QED
  BY <1>1, <1>2, <1>3, <1>4, <1>5, <1>6 DEF IInv

\* The details are stored: OnCommissioningFailure preserves the invariant.
LEMMA OnCommissioningFailureStep ==
    ASSUME IInv, OnCommissioningFailure
    PROVE  IInv'
<1>1. WorkerType' /\ DeviceType'
  BY NoOpAssumption, StagesAssumption DEF IInv, WorkerType, DeviceType, Steps, OnCommissioningFailure,
     Goto, Throw, Complete, Woken, Fresh, Quiet, workers, device
<1>2. ProgressType' /\ DrainInv' /\ QueueInv'
  <2>1. \A q \in Ops : at'[q] = "Returned" => at[q] = "Returned"
    BY DEF IInv, WorkerType, OnCommissioningFailure, Goto, Throw, Complete, Woken, Fresh, Quiet,
       workers, device
  <2> QED
    BY <2>1, ProgressApart DEF OnCommissioningFailure
<1>3. ASSUME NEW p \in Ops
      PROVE  WakeInv(p)'
  BY DEF IInv, WorkerType, DeviceType, WakeInv, OnCommissioningFailure, Goto, Throw, Complete, Woken,
     Fresh, Quiet, workers, device
<1>4. ASSUME NEW p \in Ops
      PROVE  LeaseInv(p)'
  BY NoOpAssumption DEF IInv, WorkerType, DeviceType, LeaseInv, Leased, Waiting, Open,
     OnCommissioningFailure, Goto, Throw, Complete, Woken, Fresh, Quiet, workers, device
<1>5. DeviceInv'
  BY NoOpAssumption DEF IInv, WorkerType, DeviceType, DeviceInv, Live, Past, Steps,
     OnCommissioningFailure, Goto, Throw, Complete, Woken, Fresh, Quiet, workers, device
<1>6. ~strayed' => ApartInv'
  <2>1. /\ UNCHANGED <<index, commissioned, native, at>>
        /\ chip.step = "Failing" /\ chip'.step = "Failed"
        /\ ~strayed' => ~strayed /\ pairing.listener = chip.listener
    BY DEF OnCommissioningFailure, workers
  <2>2. pairing'.complete = TRUE /\ pairing'.error = TRUE /\ pairing'.listener = pairing.listener
    BY DEF IInv, DeviceType, OnCommissioningFailure
  <2>3. native.op = NoOp /\ at[chip.listener] \in Past
    BY <2>1 DEF IInv, DeviceInv
  <2>4. \A o \in Ops : ~strayed' => at[o] # "Pair"
    BY <2>1, <2>3 DEF IInv, ApartInv, Past
  <2> QED
    BY <2>1, <2>2, <2>3, <2>4 DEF IInv, ApartInv, Live
<1> QED
  BY <1>1, <1>2, <1>3, <1>4, <1>5, <1>6 DEF IInv

\* and the failed stage is published: ReportFailure preserves the invariant.
LEMMA ReportFailureStep ==
    ASSUME IInv, ReportFailure
    PROVE  IInv'
<1>1. WorkerType' /\ DeviceType'
  BY NoOpAssumption, StagesAssumption DEF IInv, WorkerType, DeviceType, Steps, ReportFailure, Goto,
     Throw, Complete, Woken, Fresh, Quiet, workers, device
<1>2. ProgressType' /\ DrainInv' /\ QueueInv'
  <2>1. \A o \in Ops : at'[o] = "Returned" => at[o] = "Returned"
    BY DEF IInv, WorkerType, ReportFailure, Woken
  <2>2. CASE Publish(chip.listener)
    BY <2>1, <2>2, PublishFacts DEF IInv, DeviceType, ProgressType, ReportFailure
  <2>3. CASE UNCHANGED progress
    BY <2>1, <2>3, ProgressApart
  <2> QED
    BY <2>2, <2>3 DEF ReportFailure, progress
<1>3. ASSUME NEW p \in Ops
      PROVE  WakeInv(p)'
  BY DEF IInv, WorkerType, DeviceType, WakeInv, ReportFailure, Goto, Throw, Complete, Woken, Fresh,
     Quiet, workers, device
<1>4. ASSUME NEW p \in Ops
      PROVE  LeaseInv(p)'
  BY NoOpAssumption DEF IInv, WorkerType, DeviceType, LeaseInv, Leased, Waiting, Open, ReportFailure,
     Goto, Throw, Complete, Woken, Fresh, Quiet, workers, device
<1>5. DeviceInv'
  BY NoOpAssumption DEF IInv, WorkerType, DeviceType, DeviceInv, Live, Past, Steps, ReportFailure,
     Goto, Throw, Complete, Woken, Fresh, Quiet, workers, device
<1>6. ~strayed' => ApartInv'
  BY NoOpAssumption DEF IInv, WorkerType, DeviceType, DeviceInv, LeaseInv, ApartInv, Live, Leased,
     Waiting, Open, Past,
     ReportFailure, Goto, Throw, Complete, Woken, Fresh, Quiet, workers, device
<1> QED
  BY <1>1, <1>2, <1>3, <1>4, <1>5, <1>6 DEF IInv

\* An operation is called: Call preserves the invariant.
LEMMA CallStep ==
    ASSUME IInv, NEW o \in Ops, Call(o)
    PROVE  IInv'
<1>1. WorkerType' /\ DeviceType'
  BY NoOpAssumption, StagesAssumption DEF IInv, WorkerType, DeviceType, Steps, Call, Goto, Throw,
     Complete, Woken, Fresh, Quiet, workers, device
<1>2. ProgressType' /\ DrainInv' /\ QueueInv'
  <2>1. Publish(o) /\ o \in Ops \cup {NoOp} /\ last' = last
    BY DEF Call, IInv, DeviceType
  <2>2. \A q \in Ops : at'[q] = "Returned" => at[q] = "Returned"
    BY DEF IInv, WorkerType, Call, Goto, workers
  <2> QED
    BY <2>1, <2>2, PublishFacts DEF IInv, ProgressType
<1>3. ASSUME NEW p \in Ops
      PROVE  WakeInv(p)'
  BY DEF IInv, WorkerType, DeviceType, WakeInv, Call, Goto, Throw, Complete, Woken, Fresh, Quiet,
     workers, device
<1>4. ASSUME NEW p \in Ops
      PROVE  LeaseInv(p)'
  BY NoOpAssumption DEF IInv, WorkerType, DeviceType, LeaseInv, Leased, Waiting, Open, Call, Goto,
     Throw, Complete, Woken, Fresh, Quiet, workers, device
<1>5. DeviceInv'
  BY NoOpAssumption DEF IInv, WorkerType, DeviceType, DeviceInv, Live, Past, Steps, Call, Goto, Throw,
     Complete, Woken, Fresh, Quiet, workers, device
<1>6. ~strayed' => ApartInv'
  BY NoOpAssumption DEF IInv, WorkerType, DeviceType, DeviceInv, LeaseInv, ApartInv, Live, Leased,
     Waiting, Open, Past,
     Call, Goto, Throw, Complete, Woken, Fresh, Quiet, workers, device
<1> QED
  BY <1>1, <1>2, <1>3, <1>4, <1>5, <1>6 DEF IInv

\* Its worker looks at the token: Start preserves the invariant.
LEMMA StartStep ==
    ASSUME IInv, NEW o \in Ops, Start(o)
    PROVE  IInv'
<1>1. WorkerType' /\ DeviceType'
  BY NoOpAssumption, StagesAssumption DEF IInv, WorkerType, DeviceType, Steps, Start, Goto, Throw,
     Complete, Woken, Fresh, Quiet, workers, device
<1>2. ProgressType' /\ DrainInv' /\ QueueInv'
  <2>1. \A q \in Ops : at'[q] = "Returned" => at[q] = "Returned"
    BY DEF IInv, WorkerType, Start, Goto, Throw, Complete, Woken, Fresh, Quiet, workers, device
  <2> QED
    BY <2>1, ProgressApart DEF Start
<1>3. ASSUME NEW p \in Ops
      PROVE  WakeInv(p)'
  BY DEF IInv, WorkerType, DeviceType, WakeInv, Start, Goto, Throw, Complete, Woken, Fresh, Quiet,
     workers, device
<1>4. ASSUME NEW p \in Ops
      PROVE  LeaseInv(p)'
  BY NoOpAssumption DEF IInv, WorkerType, DeviceType, LeaseInv, Leased, Waiting, Open, Start, Goto,
     Throw, Complete, Woken, Fresh, Quiet, workers, device
<1>5. DeviceInv'
  BY NoOpAssumption DEF IInv, WorkerType, DeviceType, DeviceInv, Live, Past, Steps, Start, Goto, Throw,
     Complete, Woken, Fresh, Quiet, workers, device
<1>6. ~strayed' => ApartInv'
  BY NoOpAssumption DEF IInv, WorkerType, DeviceType, DeviceInv, LeaseInv, ApartInv, Live, Leased,
     Waiting, Open, Past,
     Start, Goto, Throw, Complete, Woken, Fresh, Quiet, workers, device
<1> QED
  BY <1>1, <1>2, <1>3, <1>4, <1>5, <1>6 DEF IInv

\* It takes the exclusive lease: Acquire preserves the invariant.
LEMMA AcquireStep ==
    ASSUME IInv, NEW o \in Ops, Acquire(o)
    PROVE  IInv'
<1>1. WorkerType' /\ DeviceType'
  BY NoOpAssumption, StagesAssumption DEF IInv, WorkerType, DeviceType, Steps, Acquire, Goto, Throw,
     Complete, Woken, Fresh, Quiet, workers, device
<1>2. ProgressType' /\ DrainInv' /\ QueueInv'
  <2>1. \A q \in Ops : at'[q] = "Returned" => at[q] = "Returned"
    BY DEF IInv, WorkerType, Acquire, Goto, Throw, Complete, Woken, Fresh, Quiet, workers, device
  <2> QED
    BY <2>1, ProgressApart DEF Acquire
<1>3. ASSUME NEW p \in Ops
      PROVE  WakeInv(p)'
  BY DEF IInv, WorkerType, DeviceType, WakeInv, Acquire, Goto, Throw, Complete, Woken, Fresh, Quiet,
     workers, device
<1>4. ASSUME NEW p \in Ops
      PROVE  LeaseInv(p)'
  BY NoOpAssumption DEF IInv, WorkerType, DeviceType, LeaseInv, Leased, Waiting, Open, Acquire, Goto,
     Throw, Complete, Woken, Fresh, Quiet, workers, device
<1>5. DeviceInv'
  BY NoOpAssumption DEF IInv, WorkerType, DeviceType, DeviceInv, Live, Past, Steps, Acquire, Goto,
     Throw, Complete, Woken, Fresh, Quiet, workers, device
<1>6. ~strayed' => ApartInv'
  BY NoOpAssumption DEF IInv, WorkerType, DeviceType, DeviceInv, LeaseInv, ApartInv, Live, Leased,
     Waiting, Open, Past,
     Acquire, Goto, Throw, Complete, Woken, Fresh, Quiet, workers, device
<1> QED
  BY <1>1, <1>2, <1>3, <1>4, <1>5, <1>6 DEF IInv

\* The state is reset: Reset preserves the invariant.
LEMMA ResetStep ==
    ASSUME IInv, NEW o \in Ops, Reset(o)
    PROVE  IInv'
<1>1. WorkerType' /\ DeviceType'
  BY ZenonT(60), NoOpAssumption, StagesAssumption DEF IInv, WorkerType, DeviceType, Steps, Reset, Goto, Throw,
     Complete, Woken, Fresh, Quiet, workers, device
<1>2. ProgressType' /\ DrainInv' /\ QueueInv'
  <2>1. \A q \in Ops : at'[q] = "Returned" => at[q] = "Returned"
    BY DEF IInv, WorkerType, Reset, Goto, Throw, Complete, Woken, Fresh, Quiet, workers, device
  <2> QED
    BY <2>1, ProgressApart DEF Reset
<1>3. ASSUME NEW p \in Ops
      PROVE  WakeInv(p)'
  BY DEF IInv, WorkerType, DeviceType, WakeInv, Reset, Goto, Throw, Complete, Woken, Fresh, Quiet,
     workers, device
<1>4. ASSUME NEW p \in Ops
      PROVE  LeaseInv(p)'
  BY NoOpAssumption DEF IInv, WorkerType, DeviceType, LeaseInv, Leased, Waiting, Open, Reset, Goto,
     Throw, Complete, Woken, Fresh, Quiet, workers, device
<1>5. DeviceInv'
  BY NoOpAssumption DEF IInv, WorkerType, DeviceType, DeviceInv, Live, Past, Steps, Reset, Goto, Throw,
     Complete, Woken, Fresh, Quiet, workers, device
<1>6. ~strayed' => ApartInv'
  BY NoOpAssumption DEF IInv, WorkerType, DeviceType, DeviceInv, LeaseInv, ApartInv, Live, Leased,
     Waiting, Open, Past,
     Reset, Goto, Throw, Complete, Woken, Fresh, Quiet, workers, device
<1> QED
  BY <1>1, <1>2, <1>3, <1>4, <1>5, <1>6 DEF IInv

\* The pairing is started: PairDevice preserves the invariant.
LEMMA PairDeviceStep ==
    ASSUME IInv, NEW o \in Ops, PairDevice(o)
    PROVE  IInv'
<1>1. WorkerType' /\ DeviceType'
  <2>1. WorkerType'
    BY NoOpAssumption DEF IInv, WorkerType, DeviceType, Steps, PairDevice, Goto, Throw
  <2>2. pairing' \in [complete : BOOLEAN, error : BOOLEAN, detail : BOOLEAN, listener : Ops \cup {NoOp}]
    BY DEF IInv, DeviceType, PairDevice, Goto, Throw
  <2>3. native' \in [op : Ops \cup {NoOp}, stalled : BOOLEAN] /\ stages' \in Nat /\ strayed' \in BOOLEAN
    <3>1. strayed' = strayed /\ (stages' = MaxStages \/ stages' = stages)
      BY DEF PairDevice
    <3>2. native' = [op |-> o, stalled |-> FALSE] \/ native' = native
      BY DEF PairDevice
    <3>3. stages' \in Nat /\ strayed' \in BOOLEAN
      BY <3>1, StagesAssumption DEF IInv, DeviceType
    <3>4. [op |-> o, stalled |-> FALSE] \in [op : Ops \cup {NoOp}, stalled : BOOLEAN]
      OBVIOUS
    <3>5. native' \in [op : Ops \cup {NoOp}, stalled : BOOLEAN]
      BY <3>2, <3>4, Zenon DEF IInv, DeviceType
    <3> QED
      BY <3>3, <3>5
  <2>4. chip' \in [step : {"Quiet", "Stage", "Failing", "Failed"}, listener : Ops \cup {NoOp}]
    BY DEF IInv, DeviceType, PairDevice, Goto, Throw
  <2> QED
    BY <2>1, <2>2, <2>3, <2>4 DEF DeviceType
<1>2. ProgressType' /\ DrainInv' /\ QueueInv'
  <2>1. \A q \in Ops : at'[q] = "Returned" => at[q] = "Returned"
    BY DEF IInv, WorkerType, PairDevice, Goto, Throw, Complete, Woken, Fresh, Quiet, workers, device
  <2> QED
    BY <2>1, ProgressApart DEF PairDevice
<1>3. ASSUME NEW p \in Ops
      PROVE  WakeInv(p)'
  BY DEF IInv, WorkerType, DeviceType, WakeInv, PairDevice, Goto, Throw, Complete, Woken, Fresh, Quiet,
     workers, device
<1>4. ASSUME NEW p \in Ops
      PROVE  LeaseInv(p)'
  BY NoOpAssumption DEF IInv, WorkerType, DeviceType, LeaseInv, Leased, Waiting, Open, PairDevice,
     Goto, Throw, Complete, Woken, Fresh, Quiet, workers, device
<1>5. DeviceInv'
  BY NoOpAssumption DEF IInv, WorkerType, DeviceType, DeviceInv, Live, Past, Steps, PairDevice, Goto,
     Throw, Complete, Woken, Fresh, Quiet, workers, device
<1>6. ~strayed' => ApartInv'
  BY NoOpAssumption DEF IInv, WorkerType, DeviceType, DeviceInv, LeaseInv, ApartInv, Live, Leased,
     Waiting, Open, Past,
     PairDevice, Goto, Throw, Complete, Woken, Fresh, Quiet, workers, device
<1> QED
  BY <1>1, <1>2, <1>3, <1>4, <1>5, <1>6 DEF IInv

\* The flag is looked at again: CheckPaired preserves the invariant.
LEMMA CheckPairedStep ==
    ASSUME IInv, NEW o \in Ops, CheckPaired(o)
    PROVE  IInv'
<1>1. WorkerType' /\ DeviceType'
  BY NoOpAssumption, StagesAssumption DEF IInv, WorkerType, DeviceType, Steps, CheckPaired, Goto,
     Throw, Complete, Woken, Fresh, Quiet, workers, device
<1>2. ProgressType' /\ DrainInv' /\ QueueInv'
  <2>1. \A q \in Ops : at'[q] = "Returned" => at[q] = "Returned"
    BY DEF IInv, WorkerType, CheckPaired, Goto, Throw, Complete, Woken, Fresh, Quiet, workers, device
  <2> QED
    BY <2>1, ProgressApart DEF CheckPaired
<1>3. ASSUME NEW p \in Ops
      PROVE  WakeInv(p)'
  BY DEF IInv, WorkerType, DeviceType, WakeInv, CheckPaired, Goto, Throw, Complete, Woken, Fresh,
     Quiet, workers, device
<1>4. ASSUME NEW p \in Ops
      PROVE  LeaseInv(p)'
  BY NoOpAssumption DEF IInv, WorkerType, DeviceType, LeaseInv, Leased, Waiting, Open, CheckPaired,
     Goto, Throw, Complete, Woken, Fresh, Quiet, workers, device
<1>5. DeviceInv'
  BY NoOpAssumption DEF IInv, WorkerType, DeviceType, DeviceInv, Live, Past, Steps, CheckPaired, Goto,
     Throw, Complete, Woken, Fresh, Quiet, workers, device
<1>6. ~strayed' => ApartInv'
  BY NoOpAssumption DEF IInv, WorkerType, DeviceType, DeviceInv, LeaseInv, ApartInv, Live, Leased,
     Waiting, Open, Past,
     CheckPaired, Goto, Throw, Complete, Woken, Fresh, Quiet, workers, device
<1> QED
  BY <1>1, <1>2, <1>3, <1>4, <1>5, <1>6 DEF IInv

\* The pairing is stopped: StopPairing preserves the invariant.
LEMMA StopPairingStep ==
    ASSUME IInv, NEW o \in Ops, StopPairing(o)
    PROVE  IInv'
<1>1. WorkerType' /\ DeviceType'
  BY NoOpAssumption, StagesAssumption DEF IInv, WorkerType, DeviceType, Steps, StopPairing, Goto,
     Throw, Complete, Woken, Fresh, Quiet, workers, device
<1>2. ProgressType' /\ DrainInv' /\ QueueInv'
  <2>1. \A q \in Ops : at'[q] = "Returned" => at[q] = "Returned"
    BY DEF IInv, WorkerType, StopPairing, Goto, Throw, Complete, Woken, Fresh, Quiet, workers, device
  <2> QED
    BY <2>1, ProgressApart DEF StopPairing
<1>3. ASSUME NEW p \in Ops
      PROVE  WakeInv(p)'
  BY DEF IInv, WorkerType, DeviceType, WakeInv, StopPairing, Goto, Throw, Complete, Woken, Fresh,
     Quiet, workers, device
<1>4. ASSUME NEW p \in Ops
      PROVE  LeaseInv(p)'
  BY NoOpAssumption DEF IInv, WorkerType, DeviceType, LeaseInv, Leased, Waiting, Open, StopPairing,
     Goto, Throw, Complete, Woken, Fresh, Quiet, workers, device
<1>5. DeviceInv'
  BY NoOpAssumption DEF IInv, WorkerType, DeviceType, DeviceInv, Live, Past, Steps, StopPairing, Goto,
     Throw, Complete, Woken, Fresh, Quiet, workers, device
<1>6. ~strayed' => ApartInv'
  BY NoOpAssumption DEF IInv, WorkerType, DeviceType, DeviceInv, LeaseInv, ApartInv, Live, Leased,
     Waiting, Open, Past,
     StopPairing, Goto, Throw, Complete, Woken, Fresh, Quiet, workers, device
<1> QED
  BY <1>1, <1>2, <1>3, <1>4, <1>5, <1>6 DEF IInv

\* The predicate of the wait is evaluated: Wait preserves the invariant.
LEMMA WaitStep ==
    ASSUME IInv, NEW o \in Ops, Wait(o)
    PROVE  IInv'
<1>1. WorkerType' /\ DeviceType'
  BY NoOpAssumption, StagesAssumption DEF IInv, WorkerType, DeviceType, Steps, Wait, Goto, Throw,
     Complete, Woken, Fresh, Quiet, workers, device
<1>2. ProgressType' /\ DrainInv' /\ QueueInv'
  <2>1. \A q \in Ops : at'[q] = "Returned" => at[q] = "Returned"
    BY DEF IInv, WorkerType, Wait, Goto, Throw, Complete, Woken, Fresh, Quiet, workers, device
  <2> QED
    BY <2>1, ProgressApart DEF Wait
<1>3. ASSUME NEW p \in Ops
      PROVE  WakeInv(p)'
  BY DEF IInv, WorkerType, DeviceType, WakeInv, Wait, Goto, Throw, Complete, Woken, Fresh, Quiet,
     workers, device
<1>4. ASSUME NEW p \in Ops
      PROVE  LeaseInv(p)'
  BY NoOpAssumption DEF IInv, WorkerType, DeviceType, LeaseInv, Leased, Waiting, Open, Wait, Goto,
     Throw, Complete, Woken, Fresh, Quiet, workers, device
<1>5. DeviceInv'
  BY NoOpAssumption DEF IInv, WorkerType, DeviceType, DeviceInv, Live, Past, Steps, Wait, Goto, Throw,
     Complete, Woken, Fresh, Quiet, workers, device
<1>6. ~strayed' => ApartInv'
  BY NoOpAssumption DEF IInv, WorkerType, DeviceType, DeviceInv, LeaseInv, ApartInv, Live, Leased,
     Waiting, Open, Past,
     Wait, Goto, Throw, Complete, Woken, Fresh, Quiet, workers, device
<1> QED
  BY <1>1, <1>2, <1>3, <1>4, <1>5, <1>6 DEF IInv

\* The wait times out: TimeOut preserves the invariant.
LEMMA TimeOutStep ==
    ASSUME IInv, NEW o \in Ops, TimeOut(o)
    PROVE  IInv'
<1>1. WorkerType' /\ DeviceType'
  BY NoOpAssumption, StagesAssumption DEF IInv, WorkerType, DeviceType, Steps, TimeOut, Goto, Throw,
     Complete, Woken, Fresh, Quiet, workers, device
<1>2. ProgressType' /\ DrainInv' /\ QueueInv'
  <2>1. \A q \in Ops : at'[q] = "Returned" => at[q] = "Returned"
    BY DEF IInv, WorkerType, TimeOut, Goto, Throw, Complete, Woken, Fresh, Quiet, workers, device
  <2> QED
    BY <2>1, ProgressApart DEF TimeOut
<1>3. ASSUME NEW p \in Ops
      PROVE  WakeInv(p)'
  BY DEF IInv, WorkerType, DeviceType, WakeInv, TimeOut, Goto, Throw, Complete, Woken, Fresh, Quiet,
     workers, device
<1>4. ASSUME NEW p \in Ops
      PROVE  LeaseInv(p)'
  BY NoOpAssumption DEF IInv, WorkerType, DeviceType, LeaseInv, Leased, Waiting, Open, TimeOut, Goto,
     Throw, Complete, Woken, Fresh, Quiet, workers, device
<1>5. DeviceInv'
  BY NoOpAssumption DEF IInv, WorkerType, DeviceType, DeviceInv, Live, Past, Steps, TimeOut, Goto,
     Throw, Complete, Woken, Fresh, Quiet, workers, device
<1>6. ~strayed' => ApartInv'
  BY NoOpAssumption DEF IInv, WorkerType, DeviceType, DeviceInv, LeaseInv, ApartInv, Live, Leased,
     Waiting, Open, Past,
     TimeOut, Goto, Throw, Complete, Woken, Fresh, Quiet, workers, device
<1> QED
  BY <1>1, <1>2, <1>3, <1>4, <1>5, <1>6 DEF IInv

\* The details are waited for: AwaitDetails preserves the invariant.
LEMMA AwaitDetailsStep ==
    ASSUME IInv, NEW o \in Ops, AwaitDetails(o)
    PROVE  IInv'
<1>1. WorkerType' /\ DeviceType'
  BY NoOpAssumption, StagesAssumption DEF IInv, WorkerType, DeviceType, Steps, AwaitDetails, Goto,
     Throw, Complete, Woken, Fresh, Quiet, workers, device
<1>2. ProgressType' /\ DrainInv' /\ QueueInv'
  <2>1. \A q \in Ops : at'[q] = "Returned" => at[q] = "Returned"
    BY DEF IInv, WorkerType, AwaitDetails, Goto, Throw, Complete, Woken, Fresh, Quiet, workers, device
  <2> QED
    BY <2>1, ProgressApart DEF AwaitDetails
<1>3. ASSUME NEW p \in Ops
      PROVE  WakeInv(p)'
  BY DEF IInv, WorkerType, DeviceType, WakeInv, AwaitDetails, Goto, Throw, Complete, Woken, Fresh,
     Quiet, workers, device
<1>4. ASSUME NEW p \in Ops
      PROVE  LeaseInv(p)'
  BY NoOpAssumption DEF IInv, WorkerType, DeviceType, LeaseInv, Leased, Waiting, Open, AwaitDetails,
     Goto, Throw, Complete, Woken, Fresh, Quiet, workers, device
<1>5. DeviceInv'
  BY NoOpAssumption DEF IInv, WorkerType, DeviceType, DeviceInv, Live, Past, Steps, AwaitDetails, Goto,
     Throw, Complete, Woken, Fresh, Quiet, workers, device
<1>6. ~strayed' => ApartInv'
  BY NoOpAssumption DEF IInv, WorkerType, DeviceType, DeviceInv, LeaseInv, ApartInv, Live, Leased,
     Waiting, Open, Past,
     AwaitDetails, Goto, Throw, Complete, Woken, Fresh, Quiet, workers, device
<1> QED
  BY <1>1, <1>2, <1>3, <1>4, <1>5, <1>6 DEF IInv

\* The result is looked at: Judge preserves the invariant.
LEMMA JudgeStep ==
    ASSUME IInv, NEW o \in Ops, Judge(o)
    PROVE  IInv'
<1>1. WorkerType' /\ DeviceType'
  BY NoOpAssumption, StagesAssumption DEF IInv, WorkerType, DeviceType, Steps, Judge, Goto, Throw,
     Complete, Woken, Fresh, Quiet, workers, device
<1>2. ProgressType' /\ DrainInv' /\ QueueInv'
  <2>1. \A q \in Ops : at'[q] = "Returned" => at[q] = "Returned"
    BY DEF IInv, WorkerType, Judge, Goto, Throw, Complete, Woken, Fresh, Quiet, workers, device
  <2> QED
    BY <2>1, ProgressApart DEF Judge
<1>3. ASSUME NEW p \in Ops
      PROVE  WakeInv(p)'
  BY DEF IInv, WorkerType, DeviceType, WakeInv, Judge, Goto, Throw, Complete, Woken, Fresh, Quiet,
     workers, device
<1>4. ASSUME NEW p \in Ops
      PROVE  LeaseInv(p)'
  BY NoOpAssumption DEF IInv, WorkerType, DeviceType, LeaseInv, Leased, Waiting, Open, Judge, Goto,
     Throw, Complete, Woken, Fresh, Quiet, workers, device
<1>5. DeviceInv'
  BY NoOpAssumption DEF IInv, WorkerType, DeviceType, DeviceInv, Live, Past, Steps, Judge, Goto, Throw,
     Complete, Woken, Fresh, Quiet, workers, device
<1>6. ~strayed' => ApartInv'
  BY NoOpAssumption DEF IInv, WorkerType, DeviceType, DeviceInv, LeaseInv, ApartInv, Live, Leased,
     Waiting, Open, Past,
     Judge, Goto, Throw, Complete, Woken, Fresh, Quiet, workers, device
<1> QED
  BY <1>1, <1>2, <1>3, <1>4, <1>5, <1>6 DEF IInv

\* The node is indexed: Index preserves the invariant.
LEMMA IndexStep ==
    ASSUME IInv, NEW o \in Ops, Index(o)
    PROVE  IInv'
<1>1. WorkerType' /\ DeviceType'
  BY NoOpAssumption, StagesAssumption DEF IInv, WorkerType, DeviceType, Steps, Index, Goto, Throw,
     Complete, Woken, Fresh, Quiet, workers, device
<1>2. ProgressType' /\ DrainInv' /\ QueueInv'
  <2>1. \A q \in Ops : at'[q] = "Returned" => at[q] = "Returned"
    BY DEF IInv, WorkerType, Index, Goto, Throw, Complete, Woken, Fresh, Quiet, workers, device
  <2> QED
    BY <2>1, ProgressApart DEF Index
<1>3. ASSUME NEW p \in Ops
      PROVE  WakeInv(p)'
  BY DEF IInv, WorkerType, DeviceType, WakeInv, Index, Goto, Throw, Complete, Woken, Fresh, Quiet,
     workers, device
<1>4. ASSUME NEW p \in Ops
      PROVE  LeaseInv(p)'
  BY NoOpAssumption DEF IInv, WorkerType, DeviceType, LeaseInv, Leased, Waiting, Open, Index, Goto,
     Throw, Complete, Woken, Fresh, Quiet, workers, device
<1>5. DeviceInv'
  BY NoOpAssumption DEF IInv, WorkerType, DeviceType, DeviceInv, Live, Past, Steps, Index, Goto, Throw,
     Complete, Woken, Fresh, Quiet, workers, device
<1>6. ~strayed' => ApartInv'
  BY NoOpAssumption DEF IInv, WorkerType, DeviceType, DeviceInv, LeaseInv, ApartInv, Live, Leased,
     Waiting, Open, Past,
     Index, Goto, Throw, Complete, Woken, Fresh, Quiet, workers, device
<1> QED
  BY <1>1, <1>2, <1>3, <1>4, <1>5, <1>6 DEF IInv

\* The terminal report is published: ReportEnd preserves the invariant.
LEMMA ReportEndStep ==
    ASSUME IInv, NEW o \in Ops, ReportEnd(o)
    PROVE  IInv'
<1>1. WorkerType' /\ DeviceType'
  BY NoOpAssumption, StagesAssumption DEF IInv, WorkerType, DeviceType, Steps, ReportEnd, Goto, Throw,
     Complete, Woken, Fresh, Quiet, workers, device
<1>2. ProgressType' /\ DrainInv' /\ QueueInv'
  <2>1. Publish(o) /\ published' \in Nat /\ last' = [last EXCEPT ![o] = published']
    BY DEF ReportEnd, Publish, IInv, ProgressType
  <2>2. \A q \in Ops : at'[q] = "Returned" => at[q] = "Returned" /\ q # o
    BY DEF IInv, WorkerType, ReportEnd, Goto
  <2> QED
    BY <2>1, <2>2, PublishFacts DEF IInv, ProgressType
<1>3. ASSUME NEW p \in Ops
      PROVE  WakeInv(p)'
  BY DEF IInv, WorkerType, DeviceType, WakeInv, ReportEnd, Goto, Throw, Complete, Woken, Fresh, Quiet,
     workers, device
<1>4. ASSUME NEW p \in Ops
      PROVE  LeaseInv(p)'
  BY NoOpAssumption DEF IInv, WorkerType, DeviceType, LeaseInv, Leased, Waiting, Open, ReportEnd, Goto,
     Throw, Complete, Woken, Fresh, Quiet, workers, device
<1>5. DeviceInv'
  BY NoOpAssumption DEF IInv, WorkerType, DeviceType, DeviceInv, Live, Past, Steps, ReportEnd, Goto,
     Throw, Complete, Woken, Fresh, Quiet, workers, device
<1>6. ~strayed' => ApartInv'
  BY NoOpAssumption DEF IInv, WorkerType, DeviceType, DeviceInv, LeaseInv, ApartInv, Live, Leased,
     Waiting, Open, Past,
     ReportEnd, Goto, Throw, Complete, Woken, Fresh, Quiet, workers, device
<1> QED
  BY <1>1, <1>2, <1>3, <1>4, <1>5, <1>6 DEF IInv

\* The drain has ended and the operation returns: Return preserves the invariant.
LEMMA ReturnStep ==
    ASSUME IInv, NEW o \in Ops, Return(o)
    PROVE  IInv'
<1>1. WorkerType'
  <2>1. /\ at' = [at EXCEPT ![o] = "Returned"]
        /\ status' = [status EXCEPT ![o] = IF status[o] = "Started" THEN "Completed" ELSE status[o]]
        /\ UNCHANGED <<callback, flag, lease>>
    BY DEF Return, Goto
  <2> QED
    BY <2>1 DEF IInv, WorkerType, Steps
<1>2. DeviceType' /\ ProgressType' /\ DrainInv'
  BY DEF Return, IInv, DeviceType, ProgressType, DrainInv, device, progress
<1>3. QueueInv'
  <2>1. raised = published
    <3>1. \A k \in Tasks : task[k][1] # "Raise"
      BY DEF Return, IInv, DrainInv
    <3>2. pending = <<>> /\ Len(<<>>) = 0
      BY DEF Return
    <3> QED
      BY <3>1, <3>2 DEF IInv, QueueInv, ProgressType
  <2>2. UNCHANGED <<task, pending, published, raised, last>>
    BY DEF Return, progress
  <2> QED
    BY <2>1, <2>2 DEF IInv, QueueInv
<1>4. ASSUME NEW p \in Ops
      PROVE  WakeInv(p)' /\ LeaseInv(p)'
  BY DEF IInv, WorkerType, WakeInv, LeaseInv, Leased, Waiting, Open, Return, Goto, device
<1>5. DeviceInv'
  BY DEF IInv, WorkerType, DeviceType, DeviceInv, Live, Past, Steps, Return, Goto, device
<1>6. ~strayed' => ApartInv'
  BY DEF IInv, WorkerType, DeviceType, ApartInv, Live, Waiting, Open, Return, Goto, device
<1> QED
  BY <1>1, <1>2, <1>3, <1>4, <1>5, <1>6 DEF IInv

-----------------------------------------------------------------------------
(* The drain.                                                               *)

\* What the drain does is of no concern to the operations and the device.
LEMMA DrainApart ==
    ASSUME IInv, UNCHANGED workers, UNCHANGED device, ProgressType', DrainInv', QueueInv'
    PROVE  IInv'
<1>1. WorkerType' /\ DeviceType' /\ DeviceInv'
  BY DEF IInv, WorkerType, DeviceType, DeviceInv, Live, workers, device
<1>2. \A o \in Ops : WakeInv(o)' /\ LeaseInv(o)'
  BY DEF IInv, WakeInv, LeaseInv, workers, device
<1>3. ~strayed' => ApartInv'
  BY DEF IInv, ApartInv, Live, workers, device
<1> QED
  BY <1>1, <1>2, <1>3 DEF IInv

\* The drain takes the front report, or ends: TakeReport preserves the invariant.
LEMMA TakeReportStep ==
    ASSUME IInv, NEW k \in Tasks, TakeReport(k)
    PROVE  IInv'
<1>1. /\ task[k][1] = "Take" /\ UNCHANGED <<published, raised, last, at>>
      /\ \A j \in Tasks : j # k => task[j][1] = "Idle"
      /\ published = raised + Len(pending)
      /\ \A i \in 1 .. Len(pending) : pending[i][2] = raised + i
  BY DEF TakeReport, IInv, DrainInv, QueueInv, workers
<1>2. CASE pending = <<>>
  <2>1. scheduled' = FALSE /\ pending' = pending /\ task' = [task EXCEPT ![k] = <<"Idle", NoReport>>]
    BY <1>2 DEF TakeReport
  <2>2. <<"Idle", NoReport>> \in TaskTypes
    BY DEF TaskTypes
  <2>3. ProgressType'
    BY <1>1, <2>1, <2>2 DEF IInv, ProgressType
  <2>4. \A j \in Tasks : task'[j][1] = "Idle"
    BY <1>1, <2>1 DEF IInv, ProgressType
  <2>5. DrainInv' /\ QueueInv'
    BY <1>1, <2>1, <2>4 DEF IInv, DrainInv, QueueInv
  <2> QED
    BY <2>3, <2>5, DrainApart DEF TakeReport
<1>3. CASE pending # <<>>
  <2>1. /\ scheduled' = scheduled /\ pending' = Tail(pending)
        /\ task' = [task EXCEPT ![k] = <<"Raise", Head(pending)>>]
    BY <1>3 DEF TakeReport
  <2>2. /\ Head(pending) = pending[1] /\ Head(pending) \in (Ops \cup {NoOp}) \X Nat
        /\ pending' \in Seq((Ops \cup {NoOp}) \X Nat)
        /\ Len(pending) \in Nat /\ Len(pending) >= 1 /\ Len(pending') = Len(pending) - 1
        /\ \A i \in 1 .. Len(pending') : pending'[i] = pending[i + 1]
    BY <1>3, <2>1 DEF IInv, ProgressType
  <2>3. <<"Raise", Head(pending)>> \in TaskTypes
    BY <2>2 DEF TaskTypes
  <2>4. ProgressType'
    BY <1>1, <2>1, <2>2, <2>3 DEF IInv, ProgressType
  <2>5. task'[k] = <<"Raise", Head(pending)>> /\ \A j \in Tasks : j # k => task'[j][1] = "Idle"
    BY <1>1, <2>1 DEF IInv, ProgressType
  <2>6. DrainInv'
    BY <1>1, <2>1, <2>5 DEF IInv, DrainInv
  <2>7. /\ task'[k][2][2] = raised + 1
        /\ published = raised + 1 + Len(pending')
        /\ \A i \in 1 .. Len(pending') : pending'[i][2] = raised + 1 + i
    <3>1. \A i \in 1 .. Len(pending') : i + 1 \in 1 .. Len(pending)
      BY <2>2
    <3>2. raised \in Nat
      BY DEF IInv, ProgressType
    <3>3. \A i \in 1 .. Len(pending') : pending'[i][2] = raised + (i + 1)
      BY <1>1, <2>2, <3>1
    <3>4. \A i \in 1 .. Len(pending') : raised + (i + 1) = raised + 1 + i
      BY <2>2, <3>2
    <3>5. task'[k][2][2] = raised + 1
      BY <1>1, <2>2, <2>5
    <3>6. published = raised + 1 + Len(pending')
      BY <1>1, <2>2, <3>2
    <3> QED
      BY <3>3, <3>4, <3>5, <3>6
  <2>8. \A j \in Tasks : task'[j][1] = "Raise" => j = k
    BY <2>5
  <2>9. task'[k][1] = "Raise"
    BY <2>5
  <2>10. QueueInv'
    BY <1>1, <2>7, <2>8, <2>9 DEF IInv, QueueInv
  <2> QED
    BY <2>4, <2>6, <2>10, DrainApart DEF TakeReport
<1> QED
  BY <1>2, <1>3

\* The handlers are called: RaiseReport preserves the invariant.
LEMMA RaiseReportStep ==
    ASSUME IInv, NEW k \in Tasks, RaiseReport(k)
    PROVE  IInv'
<1>1. /\ task[k][1] = "Raise" /\ UNCHANGED <<published, pending, scheduled, last, at>>
      /\ raised' = task[k][2][2] /\ task' = [task EXCEPT ![k] = <<"Take", NoReport>>]
      /\ \A j \in Tasks : j # k => task[j][1] = "Idle"
      /\ task[k][2][2] = raised + 1
      /\ published = raised + 1 + Len(pending)
      /\ \A i \in 1 .. Len(pending) : pending[i][2] = raised + 1 + i
  BY DEF RaiseReport, IInv, DrainInv, QueueInv, workers
<1>2. raised \in Nat /\ raised' = raised + 1
  BY <1>1 DEF IInv, ProgressType
<1>3. <<"Take", NoReport>> \in TaskTypes
  BY DEF TaskTypes
<1>4. ProgressType'
  BY <1>1, <1>2, <1>3 DEF IInv, ProgressType
<1>5. task'[k][1] = "Take" /\ \A j \in Tasks : j # k => task'[j][1] = "Idle"
  BY <1>1 DEF IInv, ProgressType
<1>6. DrainInv'
  BY <1>1, <1>5 DEF IInv, DrainInv
<1>7. \A j \in Tasks : task'[j][1] # "Raise"
  BY <1>5
<1>8. \A o \in Ops : last[o] <= published /\ (at[o] = "Returned" => last[o] <= raised + 1)
  BY <1>2 DEF IInv, QueueInv, ProgressType
<1>9. QueueInv'
  BY <1>1, <1>2, <1>7, <1>8 DEF QueueInv
<1> QED
  BY <1>4, <1>6, <1>9, DrainApart DEF RaiseReport

-----------------------------------------------------------------------------
(* The theorems.                                                            *)

\* Every behaviour of the commissioning keeps the invariant.
THEOREM Inductive == Spec => []IInv
<1>1. Init => IInv
  <2> SUFFICES ASSUME Init PROVE IInv
    OBVIOUS
  <2>1. WorkerType /\ DeviceType
    BY StagesAssumption DEF Init, WorkerType, DeviceType, Steps, Fresh, Quiet
  <2>2. ProgressType
    <3>1. <<"Idle", NoReport>> \in TaskTypes
      BY DEF TaskTypes
    <3>2. task \in [Tasks -> TaskTypes]
      BY <3>1 DEF Init
    <3>3. pending \in Seq((Ops \cup {NoOp}) \X Nat)
      BY DEF Init
    <3> QED
      BY <3>2, <3>3 DEF Init, ProgressType
  <2>3. DrainInv /\ QueueInv
    BY DEF Init, DrainInv, QueueInv
  <2>4. \A o \in Ops : WakeInv(o) /\ LeaseInv(o)
    BY DEF Init, WakeInv, LeaseInv, Leased, Waiting, Open
  <2>5. DeviceInv /\ ApartInv
    BY DEF Init, DeviceInv, ApartInv, Live, Quiet, Waiting, Open
  <2> QED
    BY <2>1, <2>2, <2>3, <2>4, <2>5 DEF IInv
<1>2. IInv /\ [Next]_vars => IInv'
  <2> SUFFICES ASSUME IInv, [Next]_vars PROVE IInv'
    OBVIOUS
  <2>1. ASSUME NEW o \in Ops,
               CancelAsync(o) \/ StoreFlag(o) \/ NotifyCommissionCancellation(o) \/ TimeOut(o) \/ Worker(o)
        PROVE  IInv'
    BY <2>1, CancelAsyncStep, StoreFlagStep, NotifyCommissionCancellationStep, TimeOutStep, CallStep,
       StartStep, AcquireStep, ResetStep, PairDeviceStep, CheckPairedStep, StopPairingStep, WaitStep, AwaitDetailsStep,
       JudgeStep, IndexStep, ReportEndStep, ReturnStep DEF Worker
  <2>2. CASE Callbacks \/ Pairing
    BY <2>2, CallListenerStep, OnCommissioningFailureStep, ReportFailureStep, ReportStageStep,
       RefuseAttestationStep, PairingSucceedsStep, PairingFailsStep DEF Callbacks, Pairing
  <2>3. ASSUME NEW k \in Tasks, TakeReport(k) \/ RaiseReport(k)
        PROVE  IInv'
    BY <2>3, TakeReportStep, RaiseReportStep
  <2>4. CASE UNCHANGED vars
    <3>1. UNCHANGED workers /\ UNCHANGED device /\ UNCHANGED progress /\ at' = at
      BY <2>4 DEF vars, workers
    <3> QED
      BY <3>1, ProgressApart, DrainApart
  <2> QED
    BY <2>1, <2>2, <2>3, <2>4 DEF Next
<1> QED
  BY <1>1, <1>2, PTL DEF Spec

\* Reports are raised in the order they were published in, each once and none lost, and the
\* terminal report of an operation before it returns.
THEOREM ReportsInOrder == Spec => []RaisedInOrder
<1>1. IInv => RaisedInOrder
  <2> SUFFICES ASSUME IInv PROVE RaisedInOrder
    OBVIOUS
  <2> DEFINE inHand == {task[k][2][2] : k \in {j \in Tasks : task[j][1] = "Raise"}}
  <2>1. \A o \in Ops : at[o] = "Returned" => raised >= last[o]
    BY DEF IInv, QueueInv, ProgressType
  <2>2. CASE \A k \in Tasks : task[k][1] # "Raise"
    <3>1. inHand = {} /\ Cardinality(inHand) = 0
      BY <2>2, FS_EmptySet
    <3>2. /\ published = raised + Len(pending)
          /\ \A i \in 1 .. Len(pending) : pending[i][2] = raised + i
      BY <2>2 DEF IInv, QueueInv
    <3>3. raised + 0 = raised
      BY DEF IInv, ProgressType
    <3> HIDE DEF inHand
    <3>4. /\ inHand \subseteq {raised + 1}
          /\ \A i \in 1 .. Len(pending) : pending[i][2] = raised + Cardinality(inHand) + i
          /\ published = raised + Cardinality(inHand) + Len(pending)
      BY <3>1, <3>2, <3>3
    <3> QED
      BY <2>1, <3>4 DEF RaisedInOrder, inHand
  <2>3. ASSUME NEW k \in Tasks, task[k][1] = "Raise"
        PROVE  RaisedInOrder
    <3>1. /\ task[k][2][2] = raised + 1
          /\ published = raised + 1 + Len(pending)
          /\ \A i \in 1 .. Len(pending) : pending[i][2] = raised + 1 + i
      BY <2>3 DEF IInv, QueueInv
    <3>2. inHand = {raised + 1}
      BY <2>3, <3>1 DEF IInv, DrainInv
    <3>3. Cardinality(inHand) = 1
      BY <3>2, FS_Singleton
    <3> HIDE DEF inHand
    <3>4. /\ inHand \subseteq {raised + 1}
          /\ \A i \in 1 .. Len(pending) : pending[i][2] = raised + Cardinality(inHand) + i
          /\ published = raised + Cardinality(inHand) + Len(pending)
      BY <3>1, <3>2, <3>3
    <3> QED
      BY <2>1, <3>4 DEF RaisedInOrder, inHand
  <2> QED
    BY <2>2, <2>3
<1> QED
  BY <1>1, Inductive, PTL

\* Unless details of a failure have strayed into a later pairing, a node is indexed only
\* after its own device has joined the fabric, and a stage is reported to the operation whose
\* pairing reached it.
THEOREM PairingsKeepApart == Spec => []PairingsAreApart
<1>1. IInv => PairingsAreApart
  BY DEF IInv, ApartInv, PairingsAreApart
<1> QED
  BY <1>1, Inductive, PTL

\* A worker that sleeps although it is canceled or has a result is about to be woken.
THEOREM NoWakeupLost == Spec => []SleeperIsWoken
<1>1. IInv => SleeperIsWoken
  BY DEF IInv, WakeInv, SleeperIsWoken
<1> QED
  BY <1>1, Inductive, PTL
=============================================================================
