---------------------------- MODULE CameraSignals ----------------------------
(***************************************************************************)
(* MatterCameraSession::WaitForSignalAsync over PollCameraSignal            *)
(* (winrt/Projection.cpp), composed with the sessions of CameraSession: the *)
(* signals of a camera (its answer, candidates, End) are queued by the      *)
(* requestor endpoint of the session and taken, one by one, by a polling    *)
(* coroutine that its caller may cancel.  Sessions follow each other on the *)
(* host and callers may keep waiting on one that has ended.                 *)
(*                                                                          *)
(* A signal is the session it belongs to and its number.  The stack lock    *)
(* makes an arrival, a poll and a close one step each.                      *)
(***************************************************************************)
EXTENDS CameraSession, Sequences, SequencesExt

CONSTANTS
    Waits,        \* calls of WaitForSignalAsync that may be in progress at once
    MaxSignals    \* bound: signals a camera sends in one session

ASSUME SignalAssumption == MaxSignals \in Nat

VARIABLES
    signals,    \* the signals queued at the endpoint of the active session
    arrived,    \* how many have arrived there
    wait,       \* where each wait stands: its session, signal and whether it is canceled
    received,   \* history: the signals the callers of each session have received
    dropped     \* history: those of the active session a canceled wait had taken

signalVars == <<signals, arrived, wait, received, dropped>>
allVars == <<vars, hostVars, signalVars>>

Signals == Streams \X (1 .. MaxSignals)
NoSignal == <<0, 0>>
NoWait == [step |-> "Idle", handle |-> 0, signal |-> NoSignal, canceled |-> FALSE]
NewWait(h) == [step |-> "Poll", handle |-> h, signal |-> NoSignal, canceled |-> FALSE]

TypeOK ==
    /\ HostTypeOK
    /\ signals \in Seq(Signals)
    /\ arrived \in 0 .. MaxSignals
    /\ wait \in [Waits -> [step : {"Idle", "Poll", "Return"}, handle : Streams \cup {0},
                           signal : Signals \cup {NoSignal}, canceled : BOOLEAN]]
    /\ received \in [Streams -> Seq(Signals)]
    /\ dropped \subseteq Signals

Init ==
    /\ HostInit
    /\ signals = <<>> /\ arrived = 0
    /\ wait = [w \in Waits |-> NoWait]
    /\ received = [h \in Streams |-> <<>>]
    /\ dropped = {}

-----------------------------------------------------------------------------
(* The endpoint.                                                            *)

\* The camera sends a signal on the native session of the host.
Arrive ==
    /\ active # 0 /\ arrived < MaxSignals
    /\ arrived' = arrived + 1
    /\ signals' = Append(signals, <<active, arrived'>>)
    /\ UNCHANGED <<vars, hostVars, wait, received, dropped>>

\* A step of the host: the endpoint that is reset, or made, takes the queue with it.
Host ==
    /\ HostNext
    /\ IF active' # active
         THEN signals' = <<>> /\ arrived' = 0 /\ dropped' = {}
         ELSE UNCHANGED <<signals, arrived, dropped>>
    /\ UNCHANGED <<wait, received>>

-----------------------------------------------------------------------------
(* WaitForSignalAsync.                                                      *)

\* mWaiting of the session: one of its waits has not ended.
Waiting(h) == \E w \in Waits : wait[w].handle = h

\* Mutant: a second consumer of a session is not refused.
WaitForSignal_Beside(w, o) ==
    /\ wait[w] = NoWait /\ status[o] = "Completed"
    /\ wait' = [wait EXCEPT ![w] = NewWait(owner[o].stream)]
    /\ UNCHANGED <<vars, hostVars, signals, arrived, received, dropped>>

\* mWaiting.exchange(true): a second consumer of the session is refused.
WaitForSignal(w, o) ==
    /\ wait[w] = NoWait /\ status[o] = "Completed"
    /\ ~Waiting(owner[o].stream)
    /\ wait' = [wait EXCEPT ![w] = NewWait(owner[o].stream)]
    /\ UNCHANGED <<vars, hostVars, signals, arrived, received, dropped>>

\* The caller cancels: the callback sets the polled flag.
CancelWait(w) ==
    /\ wait[w] # NoWait /\ ~wait[w].canceled
    /\ wait' = [wait EXCEPT ![w].canceled = TRUE]
    /\ UNCHANGED <<vars, hostVars, signals, arrived, received, dropped>>

\* The coroutine ends; WaitingGuard clears mWaiting.
EndWait(w) == wait' = [wait EXCEPT ![w] = NoWait]

\* Mutant: the front signal may be taken by a wait that then times out.
Poll_TakesTooLate(w) ==
    /\ wait[w].step = "Poll"
    /\ \/ EndWait(w) /\ signals' \in {signals} \cup (IF signals = <<>> THEN {} ELSE {Tail(signals)})
       \/ /\ ~wait[w].canceled /\ Valid(wait[w].handle) /\ signals # <<>>
          /\ signals' = Tail(signals)
          /\ wait' = [wait EXCEPT ![w].step = "Return", ![w].signal = Head(signals)]
    /\ UNCHANGED <<vars, hostVars, arrived, received, dropped>>

\* A turn of the loop: the flag is set, or PollCameraSignal finds its handle invalid and
\* throws, or the wait has timed out; or the front signal is taken.  A turn that finds
\* nothing, the operation mutex being busy or the queue empty, is followed by another.  A
\* cancellation between the look at the flag and the poll is one that comes after both.
Poll(w) ==
    /\ wait[w].step = "Poll"
    /\ \/ EndWait(w) /\ UNCHANGED signals
       \/ /\ ~wait[w].canceled /\ Valid(wait[w].handle) /\ signals # <<>>
          /\ signals' = Tail(signals)
          /\ wait' = [wait EXCEPT ![w].step = "Return", ![w].signal = Head(signals)]
    /\ UNCHANGED <<vars, hostVars, arrived, received, dropped>>

\* co_return signal: nobody receives the result of a canceled operation.
Return(w) ==
    /\ wait[w].step = "Return"
    /\ EndWait(w)
    /\ LET h == wait[w].handle
           signal == wait[w].signal
       IN  IF wait[w].canceled
             THEN /\ dropped' = IF h = active THEN dropped \cup {signal} ELSE dropped
                  /\ UNCHANGED received
             ELSE received' = [received EXCEPT ![h] = Append(@, signal)] /\ UNCHANGED dropped
    /\ UNCHANGED <<vars, hostVars, signals, arrived>>

-----------------------------------------------------------------------------
(* Specification.                                                           *)

Next ==
    \/ Host \/ Arrive
    \/ \E w \in Waits :
         \/ \E o \in Ops : WaitForSignal(w, o)
         \/ CancelWait(w) \/ Poll(w) \/ Return(w)

Spec == Init /\ [][Next]_allVars

-----------------------------------------------------------------------------
(* Properties.                                                              *)

\* The callers of a session receive its own signals only, in the order the camera sent
\* them and none twice, whatever they cancel and although another session has taken its
\* place on the host.
ReceivedInOrder ==
    \A h \in Streams : \A i, j \in 1 .. Len(received[h]) :
        /\ received[h][i][1] = h
        /\ i < j => received[h][i][2] < received[h][j][2]

\* Signals remain queued until consumed, a canceled wait excepted: of those a session has
\* got, each is queued, on its way to a caller or received, or was taken by a wait that
\* was canceled; one that arrived before the application had its session, too.
QueuedUntilConsumed ==
    \A n \in 1 .. arrived :
        LET signal == <<active, n>>
        IN  \/ signal \in ToSet(signals) \cup ToSet(received[active]) \cup dropped
            \/ \E w \in Waits : wait[w].signal = signal
=============================================================================
