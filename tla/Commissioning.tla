---------------------------- MODULE Commissioning ----------------------------
(***************************************************************************)
(* MatterControllerCommissioning::CommissionBleAsync over                   *)
(* ControllerRuntime::Commission and PairingDelegate (winrt/Projection.cpp).*)
(* A worker pairs a device and waits; the CHIP event loop calls the         *)
(* delegate, which completes the wait and reports stages; the caller may    *)
(* cancel; reports are queued and raised by a task of the thread pool.      *)
(*                                                                          *)
(* The event loop holds the CHIP stack lock while it calls the delegate, so *)
(* chip # Quiet stands for the lock being taken by it.  The exclusive lease *)
(* is that of RuntimeAdmission.  DeviceCommissioner is external: it runs    *)
(* one pairing at a time and says nothing of it once it is stopped.         *)
(***************************************************************************)
EXTENDS Integers, Sequences, FiniteSets

CONSTANTS
    Ops,        \* calls of CommissionBleAsync on one object, each for its own node
    NoOp,
    Tasks,      \* tasks of the thread pool
    MaxStages   \* bound: stages the commissioner reports in one pairing

ASSUME NoOpAssumption == NoOp \notin Ops
ASSUME StagesAssumption == MaxStages \in Nat

VARIABLES
    at,         \* where the worker of each operation stands
    status,     \* the AsyncStatus of the operation
    callback,   \* how far its cancellation callback has run
    flag,       \* cancellationRequested
    lease,      \* holder of the exclusive lease
    pairing,    \* mPairingState
    native,     \* the pairing DeviceCommissioner is running
    stages,     \* stages it may still report
    chip,       \* what the event loop is in the middle of, and whom it is about
    commissioned, \* operations whose device has joined the fabric
    index,      \* mCommissionedNodes
    strayed,    \* history: the details of a failure have been stored for a later pairing
    pending,    \* mPendingProgress
    scheduled,  \* mProgressDrainScheduled
    task,       \* the tasks that run DrainProgress and the report each is raising
    published,  \* reports published
    raised,     \* history: the report whose handlers have been called last
    last        \* history: the terminal report of each operation

workers == <<at, status, callback, flag, lease>>
device == <<pairing, native, stages, chip, commissioned, index, strayed>>
progress == <<pending, scheduled, task, published, raised, last>>
vars == <<workers, device, progress>>

Quiet == [step |-> "Quiet", listener |-> NoOp]
Fresh == [complete |-> FALSE, error |-> FALSE, detail |-> FALSE, listener |-> NoOp]

Steps == {"Call", "Start", "Acquire", "Reset", "Pair", "CheckPaired", "StopPaired", "Wait", "Asleep",
          "StopPairing", "Details", "Judge", "Index", "Report", "Drain", "Returned"}
MaxReports == Cardinality(Ops) * (MaxStages + 3)

\* A report is the operation it is about and its number.
Reports == (Ops \cup {NoOp}) \X (1 .. MaxReports)
NoReport == <<NoOp, 0>>

TypeOK ==
    /\ at \in [Ops -> Steps]
    /\ status \in [Ops -> {"Started", "Canceled", "Completed"}]
    /\ callback \in [Ops -> {"Idle", "Flag", "Notify", "Done"}]
    /\ flag \in [Ops -> BOOLEAN]
    /\ lease \in Ops \cup {NoOp}
    /\ pairing \in [complete : BOOLEAN, error : BOOLEAN, detail : BOOLEAN, listener : Ops \cup {NoOp}]
    /\ native \in [op : Ops \cup {NoOp}, stalled : BOOLEAN]
    /\ stages \in 0 .. MaxStages
    /\ chip \in [step : {"Quiet", "Stage", "Failing", "Failed"}, listener : Ops \cup {NoOp}]
    /\ commissioned \subseteq Ops /\ index \subseteq Ops /\ strayed \in BOOLEAN
    /\ pending \in Seq(Reports) /\ scheduled \in BOOLEAN
    /\ task \in [Tasks -> {<<"Idle", NoReport>>, <<"Take", NoReport>>} \cup ({"Raise"} \X Reports)]
    /\ published \in 0 .. MaxReports
    /\ raised \in 0 .. MaxReports
    /\ last \in [Ops -> 0 .. MaxReports]

Init ==
    /\ at = [o \in Ops |-> "Call"] /\ status = [o \in Ops |-> "Started"]
    /\ callback = [o \in Ops |-> "Idle"] /\ flag = [o \in Ops |-> FALSE]
    /\ lease = NoOp
    /\ pairing = Fresh /\ native = [op |-> NoOp, stalled |-> FALSE] /\ stages = 0
    /\ chip = Quiet /\ commissioned = {} /\ index = {} /\ strayed = FALSE
    /\ pending = <<>> /\ scheduled = FALSE /\ task = [k \in Tasks |-> <<"Idle", NoReport>>]
    /\ published = 0 /\ raised = 0 /\ last = [o \in Ops |-> 0]

-----------------------------------------------------------------------------
(* Progress.                                                                *)

\* Mutant: every report schedules a drain.
Publish_AlwaysSchedules(o) ==
    /\ published' = published + 1
    /\ pending' = Append(pending, <<o, published'>>)
    /\ scheduled' = TRUE
    /\ \E k \in Tasks : task[k][1] = "Idle" /\ task' = [task EXCEPT ![k] = <<"Take", NoReport>>]
    /\ UNCHANGED raised

\* Under mProgressMutex the report is queued; unless a drain is scheduled one is.
Publish(o) ==
    /\ published' = published + 1
    /\ pending' = Append(pending, <<o, published'>>)
    /\ scheduled' = TRUE
    /\ IF scheduled
         THEN UNCHANGED task
         ELSE \E k \in Tasks : task[k][1] = "Idle" /\ task' = [task EXCEPT ![k] = <<"Take", NoReport>>]
    /\ UNCHANGED raised

\* DrainProgress takes the front report under mProgressMutex, or ends,
TakeReport(k) ==
    /\ task[k][1] = "Take"
    /\ IF pending = <<>>
         THEN /\ scheduled' = FALSE
              /\ task' = [task EXCEPT ![k] = <<"Idle", NoReport>>]
              /\ UNCHANGED pending
         ELSE /\ task' = [task EXCEPT ![k] = <<"Raise", Head(pending)>>]
              /\ pending' = Tail(pending)
              /\ UNCHANGED scheduled
    /\ UNCHANGED <<workers, device, published, raised, last>>

\* and calls the handlers, whose exceptions it logs.
RaiseReport(k) ==
    /\ task[k][1] = "Raise"
    /\ raised' = task[k][2][2]
    /\ task' = [task EXCEPT ![k] = <<"Take", NoReport>>]
    /\ UNCHANGED <<workers, device, pending, scheduled, published, last>>

-----------------------------------------------------------------------------
(* Cancellation.                                                            *)

\* The caller has the operation once its coroutine has moved to the background.
CancelAsync(o) ==
    /\ at[o] # "Call" /\ status[o] = "Started"
    /\ status' = [status EXCEPT ![o] = "Canceled"]
    /\ callback' = [callback EXCEPT ![o] = "Flag"]
    /\ UNCHANGED <<at, flag, lease, device, progress>>

StoreFlag(o) ==
    /\ callback[o] = "Flag"
    /\ flag' = [flag EXCEPT ![o] = TRUE]
    /\ callback' = [callback EXCEPT ![o] = "Notify"]
    /\ UNCHANGED <<at, status, lease, device, progress>>

\* notify_all under the pairing mutex: whoever waits on the condition wakes.
Woken == [o \in Ops |-> IF at[o] = "Asleep" THEN "Wait" ELSE at[o]]

\* Mutant: the waiting worker is not notified.
NotifyCommissionCancellation_Missing(o) ==
    /\ callback[o] = "Notify"
    /\ callback' = [callback EXCEPT ![o] = "Done"]
    /\ UNCHANGED <<at, status, flag, lease, device, progress>>

NotifyCommissionCancellation(o) ==
    /\ callback[o] = "Notify"
    /\ callback' = [callback EXCEPT ![o] = "Done"]
    /\ at' = Woken
    /\ UNCHANGED <<status, flag, lease, device, progress>>

-----------------------------------------------------------------------------
(* The event loop.                                                          *)

\* OnCommissioningStageStart, StatusUpdate or Retry: mProgressCallback is copied under
\* the pairing mutex,
ReportStage ==
    /\ chip = Quiet /\ native.op # NoOp /\ ~native.stalled /\ stages > 0
    /\ stages' = stages - 1
    /\ chip' = [step |-> "Stage", listener |-> pairing.listener]
    /\ UNCHANGED <<workers, pairing, native, commissioned, index, strayed, progress>>

\* and called after it: the callback publishes.
CallListener ==
    /\ chip.step = "Stage"
    /\ Publish(chip.listener)
    /\ chip' = Quiet
    /\ UNCHANGED <<workers, pairing, native, stages, commissioned, index, strayed, last>>

\* Complete: the result is stored under the pairing mutex and the waiter notified.
Complete(error) ==
    /\ pairing' = [pairing EXCEPT !.complete = TRUE, !.error = error]
    /\ at' = Woken

\* OnDeviceAttestationCompleted refuses the device: the commissioner is not told and goes
\* on waiting for ContinueCommissioningAfterDeviceAttestation.
RefuseAttestation ==
    /\ chip = Quiet /\ native.op # NoOp /\ ~native.stalled
    /\ native' = [native EXCEPT !.stalled = TRUE]
    /\ Complete(TRUE)
    /\ UNCHANGED <<status, callback, flag, lease, stages, chip, commissioned, index, strayed, progress>>

\* OnCommissioningComplete without error.
PairingSucceeds ==
    /\ chip = Quiet /\ native.op # NoOp /\ ~native.stalled
    /\ commissioned' = commissioned \cup {native.op}
    /\ native' = [op |-> NoOp, stalled |-> FALSE]
    /\ Complete(FALSE)
    /\ UNCHANGED <<status, callback, flag, lease, stages, chip, index, strayed, progress>>

\* OnCommissioningComplete with an error, which OnCommissioningFailure follows, or
\* OnCommissioningFailure alone.
PairingFails ==
    /\ chip = Quiet /\ native.op # NoOp /\ ~native.stalled
    /\ native' = [op |-> NoOp, stalled |-> FALSE]
    /\ chip' = [step |-> "Failing", listener |-> native.op]
    /\ Complete(TRUE) \/ UNCHANGED <<pairing, at>>
    /\ UNCHANGED <<status, callback, flag, lease, stages, commissioned, index, strayed, progress>>

\* OnCommissioningFailure: the details are stored and mProgressCallback copied under the
\* pairing mutex, in whatever pairing the state is for by now;
OnCommissioningFailure ==
    /\ chip.step = "Failing"
    /\ pairing' = [pairing EXCEPT !.complete = TRUE, !.error = TRUE, !.detail = TRUE]
    /\ strayed' = (strayed \/ pairing.listener # chip.listener)
    /\ chip' = [step |-> "Failed", listener |-> pairing.listener]
    /\ UNCHANGED <<workers, native, stages, commissioned, index, progress>>

\* the callback publishes the failed stage, if there is one, and the waiter is notified.
ReportFailure ==
    /\ chip.step = "Failed"
    /\ \/ chip.listener # NoOp /\ Publish(chip.listener)
       \/ UNCHANGED <<pending, scheduled, task, published, raised>>
    /\ chip' = Quiet
    /\ at' = Woken
    /\ UNCHANGED <<status, callback, flag, lease, pairing, native, stages, commissioned, index, strayed, last>>

-----------------------------------------------------------------------------
(* The worker.                                                              *)

Goto(o, step) == at' = [at EXCEPT ![o] = step]

\* CommissionBleAsync checks its arguments, publishes SearchingForDevice and returns.
Call(o) ==
    /\ at[o] = "Call"
    /\ Publish(o)
    /\ Goto(o, "Start")
    /\ UNCHANGED <<status, callback, flag, lease, device, last>>

\* In the background the cancellation token is looked at once.
Start(o) ==
    /\ at[o] = "Start"
    /\ IF status[o] = "Canceled"
         THEN Goto(o, "Report")
         ELSE Goto(o, "Acquire")
    /\ UNCHANGED <<status, callback, flag, lease, device, progress>>

\* Commission throws and gives up the lease; the catch block reports.
Throw(o) ==
    /\ Goto(o, "Report")
    /\ lease' = IF lease = o THEN NoOp ELSE lease

\* AcquireExclusive: admitted when no other operation is; canceled or timed out.
Acquire(o) ==
    /\ at[o] = "Acquire"
    /\ \/ lease = NoOp /\ ~flag[o] /\ lease' = o /\ Goto(o, "Reset")
       \/ Throw(o)
    /\ UNCHANGED <<status, callback, flag, device, progress>>

\* Mutant: the result of the pairing before is kept.
Reset_KeepsResult(o) ==
    /\ at[o] = "Reset"
    /\ \/ flag[o] /\ Throw(o) /\ UNCHANGED pairing
       \/ /\ ~flag[o]
          /\ pairing' = [pairing EXCEPT !.listener = o]
          /\ Goto(o, "Pair")
          /\ UNCHANGED lease
    /\ UNCHANGED <<status, callback, flag, native, stages, chip, commissioned, index, strayed, progress>>

\* The flag again, then PairingDelegate::Reset under the pairing mutex.
Reset(o) ==
    /\ at[o] = "Reset"
    /\ \/ flag[o] /\ Throw(o) /\ UNCHANGED pairing
       \/ /\ ~flag[o]
          /\ pairing' = [Fresh EXCEPT !.listener = o]
          /\ Goto(o, "Pair")
          /\ UNCHANGED lease
    /\ UNCHANGED <<status, callback, flag, native, stages, chip, commissioned, index, strayed, progress>>

\* PairDevice under the stack lock; it refuses while another pairing is running.
PairDevice(o) ==
    /\ at[o] = "Pair" /\ chip = Quiet
    /\ \/ /\ native.op = NoOp
          /\ native' = [op |-> o, stalled |-> FALSE] /\ stages' = MaxStages
          /\ Goto(o, "CheckPaired")
          /\ UNCHANGED lease
       \/ Throw(o) /\ UNCHANGED <<native, stages>>
    /\ UNCHANGED <<status, callback, flag, pairing, chip, commissioned, index, strayed, progress>>

\* CancelCommission if the flag was set meanwhile; the wait follows all the same.
CheckPaired(o) ==
    /\ at[o] = "CheckPaired"
    /\ Goto(o, IF flag[o] THEN "StopPaired" ELSE "Wait")
    /\ UNCHANGED <<status, callback, flag, lease, device, progress>>

\* StopPairing under the stack lock, then the wait, or the exception.
StopPairing(o) ==
    /\ at[o] \in {"StopPaired", "StopPairing"} /\ chip = Quiet
    /\ native' = IF native.op = o THEN [op |-> NoOp, stalled |-> FALSE] ELSE native
    /\ IF at[o] = "StopPaired" THEN Goto(o, "Wait") /\ UNCHANGED lease ELSE Throw(o)
    /\ UNCHANGED <<status, callback, flag, pairing, stages, chip, commissioned, index, strayed, progress>>

\* The predicate of wait_for under the pairing mutex; then the flag once more.
Wait(o) ==
    /\ at[o] = "Wait"
    /\ Goto(o, IF ~pairing.complete /\ ~flag[o] THEN "Asleep"
               ELSE IF flag[o] THEN "StopPairing"
               ELSE IF pairing.error /\ ~pairing.detail THEN "Details"
               ELSE "Judge")
    /\ UNCHANGED <<status, callback, flag, lease, device, progress>>

\* kCommissioningTimeout passes.
TimeOut(o) ==
    /\ at[o] = "Asleep"
    /\ Goto(o, "StopPairing")
    /\ UNCHANGED <<status, callback, flag, lease, device, progress>>

\* The details arrive, or kCommissioningFailureDetailTimeout passes.
AwaitDetails(o) ==
    /\ at[o] = "Details"
    /\ Goto(o, "Judge")
    /\ UNCHANGED <<status, callback, flag, lease, device, progress>>

Judge(o) ==
    /\ at[o] = "Judge"
    /\ IF pairing.error THEN Throw(o) ELSE Goto(o, "Index") /\ UNCHANGED lease
    /\ UNCHANGED <<status, callback, flag, device, progress>>

\* The node is pushed; writing the index to storage may throw.
Index(o) ==
    /\ at[o] = "Index"
    /\ index' = index \cup {o}
    /\ \/ Goto(o, "Report") /\ lease' = NoOp
       \/ Throw(o)
    /\ UNCHANGED <<status, callback, flag, pairing, native, stages, chip, commissioned, strayed, progress>>

\* The terminal report: Completed, or Failed from the catch block.
ReportEnd(o) ==
    /\ at[o] = "Report"
    /\ Publish(o)
    /\ last' = [last EXCEPT ![o] = published']
    /\ Goto(o, "Drain")
    /\ UNCHANGED <<status, callback, flag, lease, device>>

\* WaitForProgressDrain, then the coroutine ends: canceled when the flag was seen, or else
\* with a structured result, which a canceled operation does not receive.
Return(o) ==
    /\ at[o] = "Drain"
    /\ ~scheduled /\ pending = <<>>
    /\ Goto(o, "Returned")
    /\ status' = [status EXCEPT ![o] = IF @ = "Started" THEN "Completed" ELSE @]
    /\ UNCHANGED <<callback, flag, lease, device, progress>>

-----------------------------------------------------------------------------
(* Specification.                                                           *)

Worker(o) ==
    \/ Call(o) \/ Start(o) \/ Acquire(o) \/ Reset(o) \/ PairDevice(o) \/ CheckPaired(o)
    \/ StopPairing(o) \/ Wait(o) \/ AwaitDetails(o) \/ Judge(o) \/ Index(o) \/ ReportEnd(o) \/ Return(o)

\* The event loop leaves its callbacks; whether a pairing goes on is up to the device.
Callbacks == CallListener \/ OnCommissioningFailure \/ ReportFailure

Pairing == ReportStage \/ RefuseAttestation \/ PairingSucceeds \/ PairingFails

Next ==
    \/ \E o \in Ops : CancelAsync(o) \/ StoreFlag(o) \/ NotifyCommissionCancellation(o) \/ TimeOut(o) \/ Worker(o)
    \/ Callbacks \/ Pairing
    \/ \E k \in Tasks : TakeReport(k) \/ RaiseReport(k)

Spec == Init /\ [][Next]_vars

-----------------------------------------------------------------------------
(* Properties.                                                              *)

\* Reports are raised in the order they were published in, each once and none lost,
\* although a drain may end while another thread publishes (DrainProgress); and when an
\* operation reaches its terminal state its terminal report has been raised.
RaisedInOrder ==
    LET inHand == {task[k][2][2] : k \in {j \in Tasks : task[j][1] = "Raise"}}
    IN  /\ inHand \subseteq {raised + 1}
        /\ \A i \in 1 .. Len(pending) : pending[i][2] = raised + Cardinality(inHand) + i
        /\ published = raised + Cardinality(inHand) + Len(pending)
        /\ \A o \in Ops : at[o] = "Returned" => raised >= last[o]

\* One PairingState serves all pairings.  Unless the details of a failure come after the next
\* pairing has reset it, nothing of one pairing is taken for another's, whoever was canceled
\* or timed out before: a node enters the index only after its own device has joined the
\* fabric, and a stage is reported to the operation whose pairing reached it.
PairingsAreApart ==
    ~strayed =>
        /\ index \subseteq commissioned
        /\ (chip.step = "Stage" /\ native.op # NoOp) => chip.listener = native.op

\* Handlers are drained before the operation reaches its terminal state: nothing about it
\* is raised, or waits to be, afterwards.
NothingAfterEnd ==
    \A o \in Ops : at[o] = "Returned" => \A i \in 1 .. Len(pending) : pending[i][1] # o

\* No wakeup is lost: a worker that sleeps until its timeout although it is canceled, or its
\* pairing has a result, is about to be woken by whoever brought that about.
SleeperIsWoken ==
    \A o \in Ops :
        at[o] = "Asleep" =>
            /\ flag[o] => callback[o] = "Notify"
            /\ pairing.complete => chip.step = "Failed"
=============================================================================
