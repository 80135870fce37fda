----------------------------- MODULE Interaction -----------------------------
(***************************************************************************)
(* The network operations of ControllerRuntime (winrt/Projection.cpp):      *)
(* ReadAttribute, ReadEvents, WriteAttribute, InvokeCommand and the two     *)
(* Subscribe calls, with the Generic...State object each leaves to the CHIP *)
(* event loop, the closing of a subscription, and Close.                    *)
(*                                                                          *)
(* An operation's thread waits on the state's condition; the event loop     *)
(* calls the state with the CHIP stack lock held and takes its mutex.  Leases *)
(* are those of RuntimeAdmission; operations are here for different nodes.  *)
(* What the predicate of a wait reads is written under the state's mutex    *)
(* and notified, so a wait is a guard.  The device, and the client object   *)
(* of the SDK, which calls nothing once it is destroyed, are external.      *)
(***************************************************************************)
EXTENDS Integers, Sequences, SequencesExt

CONSTANTS
    Ops,         \* network operations
    Mixes,       \* the kinds the operations may have together
    NoOne,       \* holder of a free lock
    MaxAnswers   \* bound: reports, statuses or responses the device sends to one operation

\* "command" is InvokeCommand with an expected response, "invoke" without.
AllKinds == {"read", "events", "subscribe", "write", "invoke", "command"}
ASSUME MixAssumption == Mixes \subseteq [Ops -> AllKinds]
ASSUME AnswersAssumption == MaxAnswers \in Nat
ASSUME FreeAssumption == NoOne # "loop"

VARIABLES
    kind,        \* the kind of each operation
    pos,         \* where each actor stands that works on an operation
    lease,       \* the lifetime leases held, by operation and actor
    state,       \* the fields of the Generic...State object
    alive,       \* whether the object exists
    client,      \* its ReadClient, WriteClient or CommandSender and connection callbacks
    heard,       \* history: what the device has answered
    outcome,     \* how the operation has ended
    mutex,       \* whether the operation's thread holds the state's mutex
    stack,       \* holder of the CHIP stack lock
    loop,        \* the callback the event loop is making, or <<>>
    registered,  \* mSubscriptions and mEventSubscriptions
    closer       \* how far ControllerRuntime::Close has come

op == <<kind, alive, outcome>>
vars == <<pos, lease, state, client, heard, mutex, stack, loop, registered, closer, op>>

Actors == {"worker", "user", "closer"}
Readers == {"read", "events", "subscribe"}
Events == {"connected", "unsent", "unreachable", "ok", "bad", "error", "established", "done"}
Steps == {"Idle", "Call", "Start", "Wait", "Outcome", "Register", "Enter", "Stack", "Mark", "Left", "Over"}

State == [complete : BOOLEAN, failed : BOOLEAN, established : BOOLEAN, value : BOOLEAN, seen : BOOLEAN,
          closed : BOOLEAN]

TypeOK ==
    /\ kind \in [Ops -> AllKinds]
    /\ pos \in [Ops -> [Actors -> Steps]]
    /\ lease \subseteq Ops \X {"worker", "user"}
    /\ state \in [Ops -> State]
    /\ alive \subseteq Ops
    /\ client \in [Ops -> {"None", "Connecting", "Idle", "Active", "Ending", "Done"}]
    /\ heard \in [Ops -> BoundedSeq({"ok", "bad"}, MaxAnswers)]
    /\ outcome \in [Ops -> {"none", "success", "failure"}]
    /\ mutex \subseteq Ops
    /\ stack \in {"loop", NoOne}
    /\ loop \in {<<>>} \cup (Ops \X Events)
    /\ registered \subseteq Ops
    /\ closer \in {"Idle", "Barrier", "Subscriptions", "Stop", "Done"}

Init ==
    /\ kind \in Mixes
    /\ pos = [o \in Ops |-> [a \in Actors |-> IF a = "worker" THEN "Call" ELSE "Idle"]]
    /\ lease = {}
    /\ state = [o \in Ops |-> [complete |-> FALSE, failed |-> FALSE, established |-> FALSE,
                               value |-> FALSE, seen |-> FALSE, closed |-> FALSE]]
    /\ alive = {} /\ client = [o \in Ops |-> "None"] /\ heard = [o \in Ops |-> <<>>]
    /\ outcome = [o \in Ops |-> "none"]
    /\ mutex = {} /\ stack = NoOne /\ loop = <<>>
    /\ registered = {} /\ closer = "Idle"

Goto(o, a, step) == pos' = [pos EXCEPT ![o][a] = step]

-----------------------------------------------------------------------------
(* The state objects: what a callback leaves behind.                        *)

\* Fail of the read states; a closed one ignores it.
Fail(s) == IF s.closed THEN s ELSE [s EXCEPT !.failed = TRUE, !.complete = TRUE]

\* Finish of the write and invoke states.
Finish(s) == [s EXCEPT !.failed = TRUE, !.complete = TRUE]

\* GenericReadState: a value, its error status or a decoding failure, OnError, OnDone.
OnRead(s, e, subscription) ==
    CASE e = "ok" -> {[s EXCEPT !.value = TRUE]}
      [] e = "established" -> {[s EXCEPT !.established = TRUE]}
      [] e = "done" -> {IF subscription THEN s ELSE [s EXCEPT !.complete = TRUE]}
      [] OTHER -> {Fail(s)}

\* GenericEventReadState keeps what it is given; none need come.
OnEvents(s, e) ==
    CASE e = "ok" -> {s}
      [] e = "done" -> {[s EXCEPT !.complete = TRUE]}
      [] OTHER -> {Fail(s)}

\* GenericWriteState: the first error stays, OnDone completes.
OnWrite(s, e) ==
    CASE e = "ok" -> {s}
      [] e \in {"bad", "error"} -> {[s EXCEPT !.failed = TRUE]}
      [] OTHER -> {[s EXCEPT !.complete = TRUE]}

\* Mutant: a command that ended without its response is not made to fail.
OnInvoke_NoResponse(s, e, expected) ==
    CASE e = "ok" -> {IF expected /\ s.seen THEN [s EXCEPT !.failed = TRUE] ELSE [s EXCEPT !.seen = TRUE, !.value = TRUE]}
      [] e = "bad" -> {[s EXCEPT !.failed = TRUE], [s EXCEPT !.failed = TRUE, !.seen = TRUE]}
      [] e = "error" -> {[s EXCEPT !.failed = TRUE]}
      [] OTHER -> {[s EXCEPT !.complete = TRUE]}

\* GenericInvokeState: with an expected response a second one is an error, and so is the
\* wrong one, which is not taken for seen; OnDone completes, and fails when none was seen.
OnInvoke(s, e, expected) ==
    CASE e = "ok" -> {IF expected /\ s.seen THEN [s EXCEPT !.failed = TRUE] ELSE [s EXCEPT !.seen = TRUE, !.value = TRUE]}
      [] e = "bad" -> {[s EXCEPT !.failed = TRUE], [s EXCEPT !.failed = TRUE, !.seen = TRUE]}
      [] e = "error" -> {[s EXCEPT !.failed = TRUE]}
      [] OTHER -> {[s EXCEPT !.complete = TRUE, !.failed = @ \/ (expected /\ ~s.seen)]}

\* A connection that failed, or a request that could not be sent.
OnUnsent(o, s) == IF kind[o] \in Readers THEN Fail(s) ELSE Finish(s)

After(o, e) ==
    LET s == state[o]
    IN  IF e = "connected" THEN {s}
        ELSE IF e \in {"unsent", "unreachable"} THEN {OnUnsent(o, s)}
        ELSE CASE kind[o] \in {"read", "subscribe"} -> OnRead(s, e, kind[o] = "subscribe")
               [] kind[o] = "events" -> OnEvents(s, e)
               [] kind[o] = "write" -> OnWrite(s, e)
               [] OTHER -> OnInvoke(s, e, kind[o] = "command")

-----------------------------------------------------------------------------
(* The event loop.                                                          *)

\* What may happen next to the client of an operation.
Possible(o) ==
    CASE client[o] = "Connecting" -> {"connected", "unsent", "unreachable"}
      [] client[o] = "Active" ->
            {"error", "done"}
            \cup (IF Len(heard[o]) < MaxAnswers THEN {"ok", "bad"} ELSE {})
            \cup (IF kind[o] = "subscribe" /\ ~state[o].established THEN {"established"} ELSE {})
      [] client[o] = "Ending" -> {"done"}
      [] OTHER -> {}

\* The event loop takes the stack lock and calls HandleConnected, HandleConnectionFailure
\* or the client, which calls the state.
Callback(o, e) ==
    /\ closer # "Done" /\ stack = NoOne
    /\ e \in Possible(o)
    /\ stack' = "loop" /\ loop' = <<o, e>>
    /\ client' = [client EXCEPT ![o] = CASE e = "connected" -> "Active"
                                         [] e = "unsent" -> "Idle"
                                         [] e = "unreachable" -> "None"
                                         [] e = "error" -> "Ending"
                                         [] e = "done" -> "Done"
                                         [] OTHER -> @]
    /\ heard' = [heard EXCEPT ![o] = IF e \in {"ok", "bad"} THEN Append(@, e) ELSE @]
    /\ UNCHANGED <<pos, lease, state, mutex, registered, closer, op>>

\* The state takes its mutex, notifies its condition and returns.
CallbackReturns ==
    /\ loop # <<>>
    /\ LET o == loop[1] IN
        /\ o \notin mutex
        /\ \E s \in After(o, loop[2]) : state' = [state EXCEPT ![o] = s]
    /\ stack' = NoOne /\ loop' = <<>>
    /\ UNCHANGED <<pos, lease, client, heard, mutex, registered, closer, op>>

-----------------------------------------------------------------------------
(* The thread of an operation.                                              *)

\* AcquireNode: the operation is admitted and makes its state, or refused.
Call(o) ==
    /\ pos[o]["worker"] = "Call"
    /\ \/ /\ closer = "Idle"
          /\ lease' = lease \cup {<<o, "worker">>}
          /\ alive' = alive \cup {o}
          /\ Goto(o, "worker", "Start")
          /\ UNCHANGED outcome
       \/ Goto(o, "worker", "Over") /\ outcome' = [outcome EXCEPT ![o] = "failure"] /\ UNCHANGED <<lease, alive>>
    /\ UNCHANGED <<kind, state, client, heard, mutex, stack, loop, registered, closer>>

\* StartConnectedOperation under the stack lock, unless it fails or the read has already
\* been canceled or timed out.
Start(o) ==
    /\ pos[o]["worker"] = "Start" /\ stack = NoOne
    /\ \/ client' = [client EXCEPT ![o] = "Connecting"] /\ Goto(o, "worker", "Wait")
       \/ Goto(o, "worker", "Enter") /\ UNCHANGED client
    /\ UNCHANGED <<lease, state, heard, mutex, stack, loop, registered, closer, op>>

Completed(o) == state[o].complete \/ (kind[o] = "subscribe" /\ state[o].established)

\* The wait ends with the predicate true and the state's mutex held,
WaitEnds(o) ==
    /\ pos[o]["worker"] = "Wait" /\ Completed(o)
    /\ mutex' = mutex \cup {o}
    /\ Goto(o, "worker", "Outcome")
    /\ UNCHANGED <<lease, state, client, heard, stack, loop, registered, closer, op>>

\* Mutant: an operation that timed out leaves without closing its client.
TimeOut_LeavesClient(o) ==
    /\ pos[o]["worker"] = "Wait" /\ ~Completed(o)
    /\ Goto(o, "worker", "Left")
    /\ UNCHANGED <<lease, state, client, heard, mutex, stack, loop, registered, closer, op>>

\* or with kInteractionTimeout, or the read's cancellation, and the mutex released.
TimeOut(o) ==
    /\ pos[o]["worker"] = "Wait" /\ ~Completed(o)
    /\ Goto(o, "worker", "Enter")
    /\ UNCHANGED <<lease, state, client, heard, mutex, stack, loop, registered, closer, op>>

\* What the caller is told: the result, and for a read its value.
Verdict(o) ==
    IF state[o].failed \/ (kind[o] = "read" /\ ~state[o].value) \/ (kind[o] = "subscribe" /\ ~state[o].established)
      THEN "failure" ELSE "success"

\* Mutant: the client is closed with the state's mutex held.
Outcome_KeepsMutex(o) ==
    /\ pos[o]["worker"] = "Outcome"
    /\ outcome' = [outcome EXCEPT ![o] = Verdict(o)]
    /\ Goto(o, "worker", IF kind[o] = "subscribe" /\ Verdict(o) = "success" THEN "Register" ELSE "Stack")
    /\ UNCHANGED <<kind, alive, lease, state, client, heard, mutex, stack, loop, registered, closer>>

\* The result is copied and the mutex released before anything is closed.
Outcome(o) ==
    /\ pos[o]["worker"] = "Outcome"
    /\ outcome' = [outcome EXCEPT ![o] = Verdict(o)]
    /\ mutex' = mutex \ {o}
    /\ Goto(o, "worker", IF kind[o] = "subscribe" /\ Verdict(o) = "success" THEN "Register" ELSE "Enter")
    /\ UNCHANGED <<kind, alive, lease, state, client, heard, stack, loop, registered, closer>>

\* Mutant: an established subscription is returned without being registered.
Register_Skips(o) ==
    /\ pos[o]["worker"] = "Register"
    /\ lease' = lease \ {<<o, "worker">>}
    /\ Goto(o, "worker", "Over")
    /\ UNCHANGED <<state, client, heard, mutex, stack, loop, registered, closer, op>>

\* push_back under mOperationMutex; the subscription is returned and the lease ends.
Register(o) ==
    /\ pos[o]["worker"] = "Register"
    /\ registered' = registered \cup {o}
    /\ lease' = lease \ {<<o, "worker">>}
    /\ Goto(o, "worker", "Over")
    /\ UNCHANGED <<state, client, heard, mutex, stack, loop, closer, op>>

-----------------------------------------------------------------------------
(* Close, ReleaseClient and ReleaseSender.                                  *)

\* A read state that is closed is left alone; the others have no such flag.
CloseEnter(o, a) ==
    /\ pos[o][a] = "Enter" /\ o \notin mutex
    /\ Goto(o, a, IF kind[o] \in Readers /\ state[o].closed THEN "Left" ELSE "Stack")
    /\ UNCHANGED <<lease, state, client, heard, mutex, stack, loop, registered, closer, op>>

\* Mutant: the client is destroyed without the stack lock.
CloseClient_Unlocked(o, a) ==
    /\ pos[o][a] = "Stack"
    /\ client' = [client EXCEPT ![o] = "None"]
    /\ Goto(o, a, IF kind[o] \in Readers THEN "Mark" ELSE "Left")
    /\ UNCHANGED <<lease, state, heard, mutex, stack, loop, registered, closer, op>>

\* Under the stack lock the connection callbacks are canceled and the client destroyed.
CloseClient(o, a) ==
    /\ pos[o][a] = "Stack" /\ stack = NoOne
    /\ client' = [client EXCEPT ![o] = "None"]
    /\ Goto(o, a, IF kind[o] \in Readers THEN "Mark" ELSE "Left")
    /\ UNCHANGED <<lease, state, heard, mutex, stack, loop, registered, closer, op>>

CloseMark(o, a) ==
    /\ pos[o][a] = "Mark" /\ o \notin mutex
    /\ state' = [state EXCEPT ![o].closed = TRUE, ![o].complete = TRUE]
    /\ Goto(o, a, "Left")
    /\ UNCHANGED <<lease, client, heard, mutex, stack, loop, registered, closer, op>>

\* The operation's frame is left: the state goes, then the lease.
Return(o) ==
    /\ pos[o]["worker"] = "Left"
    /\ alive' = alive \ {o}
    /\ lease' = lease \ {<<o, "worker">>}
    /\ outcome' = [outcome EXCEPT ![o] = IF @ = "none" THEN "failure" ELSE @]
    /\ Goto(o, "worker", "Over")
    /\ UNCHANGED <<kind, state, client, heard, mutex, stack, loop, registered, closer>>

-----------------------------------------------------------------------------
(* CloseAttributeSubscription and CloseEventSubscription.                   *)

\* AcquireCleanup: a lease, or none while the controller is closing, and nothing to do.
UserCloses(o) ==
    /\ pos[o]["user"] = "Idle"
    /\ kind[o] = "subscribe" /\ outcome[o] = "success" /\ pos[o]["worker"] = "Over"
    /\ IF closer = "Idle"
         THEN lease' = lease \cup {<<o, "user">>} /\ Goto(o, "user", "Enter")
         ELSE Goto(o, "user", "Over") /\ UNCHANGED lease
    /\ UNCHANGED <<state, client, heard, mutex, stack, loop, registered, closer, op>>

\* The client is gone before mOperationMutex is taken to erase the state from the list.
UserErases(o) ==
    /\ pos[o]["user"] = "Left"
    /\ registered' = registered \ {o}
    /\ lease' = lease \ {<<o, "user">>}
    /\ Goto(o, "user", "Over")
    /\ UNCHANGED <<state, client, heard, mutex, stack, loop, closer, op>>

-----------------------------------------------------------------------------
(* ControllerRuntime::Close.                                                *)

BeginShutdown ==
    /\ closer = "Idle"
    /\ closer' = "Barrier"
    /\ UNCHANGED <<pos, lease, state, client, heard, mutex, stack, loop, registered, op>>

\* The exclusive barrier is reached; Close of every subscription listed follows,
CloseBegins ==
    /\ closer = "Barrier" /\ lease = {}
    /\ closer' = "Subscriptions"
    /\ pos' = [o \in Ops |-> [pos[o] EXCEPT !["closer"] = IF o \in registered THEN "Enter" ELSE @]]
    /\ UNCHANGED <<lease, state, client, heard, mutex, stack, loop, registered, op>>

\* one after another, and the lists are cleared.
CloseClears ==
    /\ closer = "Subscriptions"
    /\ \A o \in registered : pos[o]["closer"] = "Left"
    /\ registered' = {}
    /\ closer' = "Stop"
    /\ UNCHANGED <<pos, lease, state, client, heard, mutex, stack, loop, op>>

\* StopEventLoopTask waits for the event loop; the stack is shut down.
ShutDown ==
    /\ closer = "Stop" /\ stack = NoOne
    /\ closer' = "Done"
    /\ UNCHANGED <<pos, lease, state, client, heard, mutex, stack, loop, registered, op>>

-----------------------------------------------------------------------------
(* Specification.                                                           *)

Closes(o, a) == CloseEnter(o, a) \/ CloseClient(o, a) \/ CloseMark(o, a)

Worker(o) ==
    \/ Call(o) \/ Start(o) \/ WaitEnds(o) \/ TimeOut(o) \/ Outcome(o) \/ Register(o)
    \/ Closes(o, "worker") \/ Return(o)

Closer == CloseBegins \/ CloseClears \/ ShutDown \/ \E o \in Ops : Closes(o, "closer")

Next ==
    \/ \E o \in Ops :
         \/ Worker(o)
         \/ UserCloses(o) \/ UserErases(o) \/ Closes(o, "user")
         \/ \E e \in Events : Callback(o, e)
    \/ CallbackReturns
    \/ BeginShutdown \/ Closer

Spec == Init /\ [][Next]_vars

-----------------------------------------------------------------------------
(* Properties.                                                              *)

\* The event loop is never in a state object that has been destroyed: an operation that
\* timed out or was canceled outlives every callback of its client.
CallbackFindsState == loop # <<>> => loop[1] \in alive

\* Native work never outlives its lease: while the client of an operation, or its
\* connection callback, can still be called, the operation holds its lease or has returned
\* it as an open subscription (cancellation included).
LeaseCoversClient ==
    \A o \in Ops :
        client[o] # "None" =>
            <<o, "worker">> \in lease \/ (kind[o] = "subscribe" /\ outcome[o] = "success" /\ o \in registered)

\* Success is what the device said: a read had a value, a command exactly one response, a
\* write or a read no error, in whatever order answers, errors and ends came.
SuccessIsAnswered ==
    \A o \in Ops :
        (outcome[o] = "success" /\ pos[o]["worker"] = "Over") =>
            /\ kind[o] \in {"write", "invoke", "events", "read", "command"} => "bad" \notin ToSet(heard[o])
            /\ kind[o] = "read" => heard[o] # <<>>
            /\ kind[o] = "command" => heard[o] = <<"ok">>

\* After Close nothing is left for the event loop to call: the subscriptions still open
\* were all listed, those being closed are waited for.
NothingAfterShutdown == closer = "Done" => loop = <<>> /\ \A o \in Ops : client[o] = "None"

\* No thread waits for the CHIP stack lock with the state's mutex the event loop, which
\* holds that lock, needs to return from its callback.
LoopIsNotBlocked ==
    (loop # <<>> /\ loop[1] \in mutex) => pos[loop[1]]["worker"] \notin {"Start", "Stack"}
=============================================================================
