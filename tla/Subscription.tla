---------------------------- MODULE Subscription ----------------------------
(***************************************************************************)
(* AttributeSubscription and EventSubscription (winrt/Projection.cpp):      *)
(* reports come in on the CHIP event loop and are raised to the attached    *)
(* handlers, or kept in a bounded queue until the first handler attaches    *)
(* and drains it on its own thread.                                         *)
(*                                                                          *)
(* Reports are numbered by the order in which the device sends them.  The   *)
(* CHIP event loop is one thread and holds the CHIP stack lock throughout a *)
(* report.  Callers may revoke a token again, or one that was never given:  *)
(* nothing is removed then, and the count of handlers still goes down.      *)
(***************************************************************************)
EXTENDS Integers, Sequences, SequencesExt, FiniteSets

CONSTANTS
    Handlers,             \* handlers, each attached by a thread of its own
    kMaximumPendingReports,
    SizeMax,              \* the greatest size_t
    MaxReports,           \* bound: reports the device sends
    MaxStale              \* bound: revocations of tokens that are not registered

ASSUME HandlersAssumption == IsFiniteSet(Handlers) /\ SizeMax \in Nat /\ Cardinality(Handlers) < SizeMax
ASSUME PendingAssumption == kMaximumPendingReports \in Nat \ {0}
ASSUME BoundsAssumption == MaxReports \in Nat /\ MaxStale \in Nat

VARIABLES
    attached,   \* mReportReceived: the registered handlers
    count,      \* mReportHandlerCount
    draining,   \* mDrainingPendingReports
    pending,    \* mPendingReports
    open,       \* whether mClose is still set
    closer,     \* how far CloseAsync has run
    adder,      \* where the thread that attaches a handler stands
    batch,      \* its pendingReports
    failed,     \* its handlerError
    sentReports,\* reports the device has sent
    arriving,   \* the report Publish is about to raise, or 0
    calls,      \* handlers an event invocation in progress has still to call, by raiser
    received,   \* history: what a handler has received since it was attached
    dropped,    \* history: reports the full queue has dropped
    stale,      \* history: how many tokens were revoked that were not registered
    derailed    \* history: a drain has begun beside another, or the count has passed below zero

vars == <<attached, count, draining, pending, open, closer, adder, batch, failed, sentReports,
          arriving, calls, received, dropped, stale, derailed>>
history == <<stale, derailed>>

\* Events are raised by the CHIP thread and by the adders.
Chip == "chip"
Raisers == Handlers \cup {Chip}
ASSUME ChipAssumption == Chip \notin Handlers

TypeOK ==
    /\ attached \subseteq Handlers
    /\ count \in 0 .. SizeMax
    /\ draining \in BOOLEAN
    /\ pending \in BoundedSeq(1 .. MaxReports, kMaximumPendingReports)
    /\ open \in BOOLEAN /\ closer \in {"Idle", "Closing", "Refused", "Done"}
    /\ adder \in [Handlers -> {"Out", "Raising", "In", "Failed"}]
    /\ batch \in [Handlers -> BoundedSeq(1 .. MaxReports, kMaximumPendingReports)]
    /\ failed \in [Handlers -> BOOLEAN]
    /\ sentReports \in 0 .. MaxReports
    /\ arriving \in 0 .. MaxReports
    /\ calls \in [Raisers -> SUBSET Handlers]
    /\ received \in [Handlers -> BoundedSeq(1 .. MaxReports, MaxReports)]
    /\ dropped \subseteq 1 .. MaxReports
    /\ stale \in 0 .. MaxStale /\ derailed \in BOOLEAN

Init ==
    /\ attached = {} /\ count = 0 /\ draining = FALSE /\ pending = <<>>
    /\ open = TRUE /\ closer = "Idle"
    /\ adder = [h \in Handlers |-> "Out"]
    /\ batch = [h \in Handlers |-> <<>>]
    /\ failed = [h \in Handlers |-> FALSE]
    /\ sentReports = 0 /\ arriving = 0
    /\ calls = [r \in Raisers |-> {}]
    /\ received = [h \in Handlers |-> <<>>]
    /\ dropped = {} /\ stale = 0 /\ derailed = FALSE

-----------------------------------------------------------------------------
(* Publish, on the CHIP event loop.                                         *)

\* Mutant: with a handler attached a report is raised at once, drain or not.
Publish_DuringDrain ==
    /\ sentReports < MaxReports /\ closer # "Done"
    /\ arriving = 0 /\ calls[Chip] = {}
    /\ sentReports' = sentReports + 1
    /\ \/ ~open /\ UNCHANGED <<pending, arriving, dropped>>
       \/ /\ open /\ count = 0
          /\ LET full == Len(pending) = kMaximumPendingReports
             IN  /\ pending' = Append(IF full THEN Tail(pending) ELSE pending, sentReports')
                 /\ dropped' = IF full THEN dropped \cup {Head(pending)} ELSE dropped
          /\ UNCHANGED arriving
       \/ open /\ count # 0 /\ arriving' = sentReports' /\ UNCHANGED <<pending, dropped>>
    /\ UNCHANGED <<attached, count, draining, open, closer, adder, batch, failed, calls, received, history>>

\* The section under mReportMutex: a closed subscription ignores the report, one without
\* handlers or with a drain in progress queues it, dropping the oldest of a full queue.
\* Otherwise the report is raised after the mutex is released.
Publish ==
    /\ sentReports < MaxReports /\ closer # "Done"
    /\ arriving = 0 /\ calls[Chip] = {}
    /\ sentReports' = sentReports + 1
    /\ \/ /\ ~open
          /\ UNCHANGED <<pending, arriving, dropped>>
       \/ /\ open /\ (count = 0 \/ draining)
          /\ LET full == Len(pending) = kMaximumPendingReports
             IN  /\ pending' = Append(IF full THEN Tail(pending) ELSE pending, sentReports')
                 /\ dropped' = IF full THEN dropped \cup {Head(pending)} ELSE dropped
          /\ UNCHANGED arriving
       \/ /\ open /\ count # 0 /\ ~draining
          /\ arriving' = sentReports'
          /\ UNCHANGED <<pending, dropped>>
    /\ UNCHANGED <<attached, count, draining, open, closer, adder, batch, failed, calls, received, history>>

\* mReportReceived(*this, args) takes the handlers registered now and calls each.
RaisePublished ==
    /\ arriving # 0 /\ calls[Chip] = {}
    /\ calls' = [calls EXCEPT ![Chip] = attached]
    /\ arriving' = IF attached = {} THEN 0 ELSE arriving
    /\ UNCHANGED <<attached, count, draining, pending, open, closer, adder, batch, failed, sentReports, received, dropped, history>>

CallPublished(h) ==
    /\ h \in calls[Chip]
    /\ received' = [received EXCEPT ![h] = Append(@, arriving)]
    /\ calls' = [calls EXCEPT ![Chip] = @ \ {h}]
    /\ arriving' = IF calls[Chip] = {h} THEN 0 ELSE arriving
    /\ UNCHANGED <<attached, count, draining, pending, open, closer, adder, batch, failed, sentReports, dropped, history>>

-----------------------------------------------------------------------------
(* ReportReceived(handler).                                                 *)

\* mReportHandlerCount is a size_t.
Up(n) == IF n = SizeMax THEN 0 ELSE n + 1
Down(n) == IF n = 0 THEN SizeMax ELSE n - 1

BeginDrain(h) ==
    /\ adder' = [adder EXCEPT ![h] = "Raising"]
    /\ draining' = TRUE
    /\ batch' = [batch EXCEPT ![h] = pending]
    /\ pending' = <<>>

\* Mutant: the handler that drains is counted no earlier than its drain has ended.
AddHandler_CountsLate(h) ==
    /\ adder[h] = "Out"
    /\ \A r \in Raisers : h \notin calls[r]
    /\ attached' = attached \cup {h}
    /\ received' = [received EXCEPT ![h] = <<>>]
    /\ IF count > 0
         THEN count' = Up(count) /\ adder' = [adder EXCEPT ![h] = "In"] /\ UNCHANGED <<draining, batch, pending, derailed>>
         ELSE /\ BeginDrain(h)
              /\ derailed' = (derailed \/ draining)
              /\ UNCHANGED count
    /\ UNCHANGED <<open, closer, failed, sentReports, arriving, calls, dropped, stale>>

\* The handler is registered; the one that is counted first takes the queue and drains it.
AddHandler(h) ==
    /\ adder[h] = "Out"
    /\ \A r \in Raisers : h \notin calls[r]
    /\ attached' = attached \cup {h}
    /\ count' = Up(count)
    /\ received' = [received EXCEPT ![h] = <<>>]
    /\ IF count' > 1
         THEN adder' = [adder EXCEPT ![h] = "In"] /\ UNCHANGED <<draining, batch, pending, derailed>>
         ELSE BeginDrain(h) /\ derailed' = (derailed \/ draining)
    /\ UNCHANGED <<open, closer, failed, sentReports, arriving, calls, dropped, stale>>

\* The next report of the batch is raised to the handlers registered now,
RaiseBatch(h) ==
    /\ adder[h] = "Raising" /\ batch[h] # <<>> /\ calls[h] = {}
    /\ calls' = [calls EXCEPT ![h] = attached]
    /\ batch' = IF attached = {} THEN [batch EXCEPT ![h] = Tail(@)] ELSE batch
    /\ UNCHANGED <<attached, count, draining, pending, open, closer, adder, failed, sentReports, arriving, received, dropped, history>>

\* each of which is called, and may throw.
CallBatch(h, g) ==
    /\ adder[h] = "Raising" /\ g \in calls[h]
    /\ received' = [received EXCEPT ![g] = Append(@, Head(batch[h]))]
    /\ calls' = [calls EXCEPT ![h] = @ \ {g}]
    /\ batch' = IF calls[h] = {g} THEN [batch EXCEPT ![h] = Tail(@)] ELSE batch
    /\ \E error \in BOOLEAN : failed' = [failed EXCEPT ![h] = @ \/ error]
    /\ UNCHANGED <<attached, count, draining, pending, open, closer, adder, sentReports, arriving, dropped, history>>

\* Mutant: a drain one of whose handlers threw ends before the queue is empty.
NextBatch_StopsOnError(h) ==
    /\ adder[h] = "Raising" /\ batch[h] = <<>> /\ calls[h] = {}
    /\ IF pending = <<>> \/ failed[h]
         THEN /\ draining' = failed[h]
              /\ adder' = [adder EXCEPT ![h] = IF failed[h] THEN "Failed" ELSE "In"]
              /\ UNCHANGED <<batch, pending>>
         ELSE /\ batch' = [batch EXCEPT ![h] = pending]
              /\ pending' = <<>>
              /\ UNCHANGED <<draining, adder>>
    /\ UNCHANGED <<attached, count, open, closer, failed, sentReports, arriving, calls, received, dropped, history>>

\* Mutant: the drain copies what was queued and leaves it there.
NextBatch_Copies(h) ==
    /\ adder[h] = "Raising" /\ batch[h] = <<>> /\ calls[h] = {}
    /\ IF pending = <<>>
         THEN /\ draining' = FALSE
              /\ adder' = [adder EXCEPT ![h] = IF failed[h] THEN "Failed" ELSE "In"]
              /\ UNCHANGED batch
         ELSE /\ batch' = [batch EXCEPT ![h] = pending]
              /\ UNCHANGED <<draining, adder>>
    /\ UNCHANGED <<attached, count, pending, open, closer, failed, sentReports, arriving, calls, received, dropped, history>>

\* After a batch, under mReportMutex: the drain takes what was queued meanwhile, or ends.
NextBatch(h) ==
    /\ adder[h] = "Raising" /\ batch[h] = <<>> /\ calls[h] = {}
    /\ IF pending = <<>>
         THEN /\ draining' = FALSE
              /\ adder' = [adder EXCEPT ![h] = IF failed[h] THEN "Failed" ELSE "In"]
              /\ UNCHANGED <<batch, pending>>
         ELSE /\ batch' = [batch EXCEPT ![h] = pending]
              /\ pending' = <<>>
              /\ UNCHANGED <<draining, adder>>
    /\ UNCHANGED <<attached, count, open, closer, failed, sentReports, arriving, calls, received, dropped, history>>

\* A handler that threw is unregistered before its error is rethrown; here the count is
\* not looked at.
RemoveFailed(h) ==
    /\ adder[h] = "Failed"
    /\ attached' = attached \ {h}
    /\ count' = Down(count) /\ derailed' = (derailed \/ count = 0)
    /\ adder' = [adder EXCEPT ![h] = "Out"]
    /\ failed' = [failed EXCEPT ![h] = FALSE]
    /\ UNCHANGED <<draining, pending, open, closer, batch, sentReports, arriving, calls, received, dropped, stale>>

\* ReportReceived(token).
RemoveHandler(h) ==
    /\ adder[h] = "In"
    /\ attached' = attached \ {h}
    /\ count' = IF count > 0 THEN count - 1 ELSE count
    /\ adder' = [adder EXCEPT ![h] = "Out"]
    /\ UNCHANGED <<draining, pending, open, closer, batch, failed, sentReports, arriving, calls, received, dropped, history>>

\* The token is one of no registered handler: it was revoked before, or never given.
RemoveStale ==
    /\ stale < MaxStale
    /\ stale' = stale + 1
    /\ count' = IF count > 0 THEN count - 1 ELSE count
    /\ UNCHANGED <<attached, draining, pending, open, closer, adder, batch, failed, sentReports, arriving, calls,
                   received, dropped, derailed>>

-----------------------------------------------------------------------------
(* CloseAsync.                                                              *)

\* mClose is moved out under mReportMutex,
TakeClose ==
    /\ closer = "Idle"
    /\ open' = FALSE
    /\ closer' = "Closing"
    /\ UNCHANGED <<attached, count, draining, pending, adder, batch, failed, sentReports, arriving, calls, received, dropped, history>>

\* and called: GenericReadState::Close takes the CHIP stack lock and destroys the client,
\* after which the device's reports no longer reach the subscription.  A call that finds
\* the controller closing has returned before its Close does the same.
CallClose ==
    /\ closer \in {"Closing", "Refused"}
    /\ arriving = 0 /\ calls[Chip] = {}
    /\ closer' = "Done"
    /\ UNCHANGED <<attached, count, draining, pending, open, adder, batch, failed, sentReports, arriving, calls, received, dropped, history>>

\* AcquireCleanup gives no lease while the controller is closing: CloseAsync returns.
RefuseClose ==
    /\ closer = "Closing"
    /\ closer' = "Refused"
    /\ UNCHANGED <<attached, count, draining, pending, open, adder, batch, failed, sentReports, arriving, calls, received, dropped, history>>

-----------------------------------------------------------------------------
(* Specification.                                                           *)

ChipRuns == RaisePublished \/ \E h \in Handlers : CallPublished(h)

Drain(h) == RaiseBatch(h) \/ (\E g \in Handlers : CallBatch(h, g)) \/ NextBatch(h) \/ RemoveFailed(h)

Next ==
    \/ Publish \/ ChipRuns
    \/ \E h \in Handlers : AddHandler(h) \/ Drain(h) \/ RemoveHandler(h)
    \/ RemoveStale
    \/ TakeClose \/ CallClose \/ RefuseClose

Spec == Init /\ [][Next]_vars

\* Handlers return, and the threads that attach them and the event loop run.
LiveSpec == Spec /\ WF_vars(ChipRuns) /\ \A h \in Handlers : WF_vars(Drain(h))

-----------------------------------------------------------------------------
(* Properties.                                                              *)

\* As long as drains keep apart, every handler receives the reports in the order the device
\* sent them and none twice, whether they come from a drain or from the event loop, and with
\* no gaps but those of a full queue: no report is lost where a drain ends, another begins,
\* or handlers come and go between them, also when the count has fallen below the handlers.
ReceivedInOrder ==
    ~derailed => \A h \in Handlers : \A i \in 2 .. Len(received[h]) :
        /\ received[h][i - 1] < received[h][i]
        /\ received[h][i - 1] + 1 .. received[h][i] - 1 \subseteq dropped

\* Only a token that is revoked without being registered can make the count smaller than
\* the handlers, so that a second drain begins beside the first or the count passes below
\* zero: adding, throwing and revoking once, at any time and in any order, do not.
DrainsApart == derailed => stale > 0

\* Whatever the count has become, and with several drains at a time, no report is raised to
\* a handler twice: the event loop, the queue and the batches never have one in common.
ReceivedAtMostOnce ==
    \A h \in Handlers : \A i, j \in 1 .. Len(received[h]) : received[h][i] = received[h][j] => i = j

\* Reports queued behind a drain are taken: the drain passes on to them whatever the
\* handlers do, even when the handler that started it is removed or throws, and whatever is
\* revoked, unless the count has passed below zero.
QueueDrains == (count > 0 /\ pending # <<>>) ~> (pending = <<>> \/ count > Cardinality(Handlers))
=============================================================================
