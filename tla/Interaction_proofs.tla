------------------------- MODULE Interaction_proofs -------------------------
(***************************************************************************)
(* Proofs about Interaction for any set of operations of any kinds and any  *)
(* number of answers of the device.                                         *)
(*                                                                          *)
(* The inductive invariant ties the threads to the objects they leave to    *)
(* the event loop: which actor holds which lease and mutex (HoldInv), who   *)
(* can still close a client that exists (ClientInv), which state the event  *)
(* loop may be in (LoopInv), what Close has waited for (ShutdownInv), and   *)
(* what the state has kept of the device's answers, before and after the    *)
(* wait for them has ended (AnswerInv, SettledInv).                         *)
(***************************************************************************)
EXTENDS Interaction, SequenceTheorems, TLAPS

\* The callback the event loop is making, if it is one for the operation.
Calling(o) == loop # <<>> /\ loop[1] = o

\* An open subscription: it has been returned to the caller.
Open(o) == kind[o] = "subscribe" /\ outcome[o] = "success" /\ pos[o]["worker"] = "Over"

\* The worker has started its client and not yet destroyed it.
Working(o) == pos[o]["worker"] \in {"Wait", "Outcome", "Register", "Enter", "Stack"}

TypeInv ==
    /\ kind \in [Ops -> AllKinds]
    /\ pos \in [Ops -> [Actors -> Steps]]
    /\ lease \subseteq Ops \X {"worker", "user"}
    /\ state \in [Ops -> State]
    /\ alive \subseteq Ops
    /\ client \in [Ops -> {"None", "Connecting", "Idle", "Active", "Ending", "Done"}]
    /\ heard \in [Ops -> Seq({"ok", "bad"})]
    /\ outcome \in [Ops -> {"none", "success", "failure"}]
    /\ mutex \subseteq Ops
    /\ stack \in {"loop", NoOne}
    /\ loop \in {<<>>} \cup (Ops \X Events)
    /\ registered \subseteq Ops
    /\ closer \in {"Idle", "Barrier", "Subscriptions", "Stop", "Done"}

\* An actor holds its lease from its admission to the end of its frame, the worker the
\* state's mutex while it reads the outcome.
HoldInv(o) ==
    /\ pos[o]["worker"] # "Idle"
    /\ <<o, "worker">> \in lease <=> pos[o]["worker"] \notin {"Call", "Over"}
    /\ <<o, "user">> \in lease <=> pos[o]["user"] \notin {"Idle", "Over"}
    /\ o \in mutex <=> pos[o]["worker"] = "Outcome"
    /\ <<o, "worker">> \in lease => o \in alive
    /\ Open(o) => o \in alive

\* Only a read state has a flag to set when it is closed.
MarkInv(o) == \A a \in Actors : pos[o][a] = "Mark" => kind[o] \in Readers

\* A client exists only while an actor can still close it, and a closed state has none.
ClientInv(o) ==
    /\ client[o] # "None" => Working(o) \/ (Open(o) /\ o \in registered)
    /\ o \in registered => Open(o)
    /\ \A a \in {"user", "closer"} :
         /\ pos[o][a] # "Idle" => Open(o)
         /\ pos[o][a] \in {"Mark", "Left"} => client[o] = "None"
    /\ state[o].closed => client[o] = "None" /\ (Open(o) \/ pos[o]["worker"] \in {"Left", "Over"})
    /\ pos[o]["worker"] = "Register" => kind[o] = "subscribe" /\ outcome[o] = "success"
    /\ (outcome[o] = "success" /\ kind[o] = "subscribe") => pos[o]["worker"] \in {"Register", "Over"}
    /\ pos[o]["worker"] \in {"Call", "Start", "Wait", "Outcome"} => outcome[o] = "none"

\* The event loop holds the stack lock while it is in a state, and can be in no state whose
\* client is gone for good.
LoopInv(o) ==
    Calling(o) =>
      /\ stack = "loop"
      /\ Working(o) \/ Open(o)
      /\ loop[2] = "done" => client[o] = "Done"
      /\ loop[2] = "established" => kind[o] = "subscribe"
      /\ loop[2] \in {"ok", "bad"} => heard[o] # <<>>

\* Behind the barrier no operation is under way; behind the lists, no subscription is open.
ShutdownInv ==
    /\ closer \in {"Subscriptions", "Stop", "Done"} => lease = {}
    /\ closer \in {"Stop", "Done"} => registered = {}
    /\ closer = "Done" => loop = <<>>

\* The answer the event loop is just handing to the state.
Handing(o) == IF Calling(o) /\ loop[2] \in {"ok", "bad"} THEN <<loop[2]>> ELSE <<>>

\* What the state holds is what the device has said.
AnswerInv(o) ==
    /\ pos[o]["worker"] \in {"Call", "Start"} => ~state[o].complete /\ ~state[o].closed
    /\ pos[o]["worker"] = "Outcome" => Completed(o)
    /\ (kind[o] # "subscribe" /\ "bad" \in ToSet(heard[o])) =>
          state[o].failed \/ state[o].closed \/ (Calling(o) /\ loop[2] = "bad")
    /\ (kind[o] # "subscribe" /\ state[o].complete /\ ~state[o].closed /\ ~state[o].failed) =>
          client[o] \in {"Done", "None"} /\ ~Calling(o)
    /\ (kind[o] = "read" /\ state[o].value) => heard[o] # <<>>
    /\ (kind[o] = "command" /\ ~state[o].failed) =>
          /\ heard[o] = (IF state[o].seen THEN <<"ok">> ELSE <<>>) \o Handing(o)
          /\ state[o].complete => state[o].seen

\* Success is settled when the wait ends: nothing the device may still say changes it.
SettledInv(o) ==
    (outcome[o] = "success" /\ kind[o] # "subscribe") =>
        /\ client[o] \in {"Done", "None"} /\ ~Calling(o)
        /\ "bad" \notin ToSet(heard[o])
        /\ kind[o] = "read" => heard[o] # <<>>
        /\ kind[o] = "command" => heard[o] = <<"ok">>

OpInv(o) ==
    /\ HoldInv(o) /\ MarkInv(o) /\ ClientInv(o) /\ LoopInv(o) /\ AnswerInv(o) /\ SettledInv(o)
    /\ Len(heard[o]) <= MaxAnswers

IInv == TypeInv /\ ShutdownInv /\ \A o \in Ops : OpInv(o)

-----------------------------------------------------------------------------
(* Facts about the operators.                                               *)

\* One more answer.
LEMMA OneMore ==
  ASSUME NEW S, NEW s \in Seq(S), NEW e \in S
  PROVE  /\ ToSet(Append(s, e)) = ToSet(s) \cup {e}
         /\ Append(s, e) # <<>>
<1>1. /\ DOMAIN Append(s, e) = 1 .. Len(s) + 1 /\ DOMAIN s = 1 .. Len(s) /\ Len(s) \in Nat
      /\ \A i \in 1 .. Len(s) : Append(s, e)[i] = s[i]
      /\ Append(s, e)[Len(s) + 1] = e
  OBVIOUS
<1>2. \A x : x \in ToSet(Append(s, e)) <=> \E i \in 1 .. Len(s) + 1 : Append(s, e)[i] = x
  BY <1>1 DEF ToSet
<1>3. \A x : x \in ToSet(s) <=> \E i \in 1 .. Len(s) : s[i] = x
  BY <1>1 DEF ToSet
<1>4. ASSUME NEW x PROVE x \in ToSet(Append(s, e)) <=> x \in ToSet(s) \/ x = e
  BY <1>1, <1>2, <1>3
<1> QED BY <1>4

\* Goto moves one actor of one operation.
LEMMA GotoFacts ==
  ASSUME TypeInv, NEW o \in Ops, NEW a \in Actors, NEW step \in Steps, Goto(o, a, step)
  PROVE  /\ pos' \in [Ops -> [Actors -> Steps]]
         /\ \A p \in Ops, b \in Actors : pos'[p][b] = IF p = o /\ b = a THEN step ELSE pos[p][b]
  BY DEF TypeInv, Goto

\* Closing a state sets two of its flags.
LEMMA MarkFacts ==
  ASSUME TypeInv, NEW o \in Ops, NEW a \in Actors, CloseMark(o, a)
  PROVE  /\ state' \in [Ops -> State]
         /\ \A p \in Ops : p # o => state'[p] = state[p]
         /\ state'[o].closed /\ state'[o].complete
         /\ state'[o].failed = state[o].failed /\ state'[o].established = state[o].established
         /\ state'[o].value = state[o].value /\ state'[o].seen = state[o].seen
<1>1. /\ state \in [Ops -> State]
      /\ state' = [state EXCEPT ![o] = [state[o] EXCEPT !.closed = TRUE, !.complete = TRUE]]
  BY DEF TypeInv, CloseMark
<1> QED BY <1>1 DEF State

\* A callback leaves a state, and completes or fails one for good.
LEMMA AfterType ==
  ASSUME TypeInv, NEW o \in Ops, NEW e \in Events, NEW s \in After(o, e)
  PROVE  /\ s \in State
         /\ state[o].complete => s.complete
         /\ state[o].established => s.established
         /\ state[o].failed => s.failed
         /\ s.closed = state[o].closed
<1>1. state[o] \in State /\ kind[o] \in AllKinds
  BY DEF TypeInv
<1>2. CASE kind[o] \in {"read", "subscribe"}
  BY <1>1, <1>2 DEF After, OnUnsent, Fail, OnRead, State, Readers
<1>3. CASE kind[o] = "events"
  BY <1>1, <1>3 DEF After, OnUnsent, Fail, OnEvents, State, Readers
<1>4. CASE kind[o] = "write"
  BY ZenonT(60), <1>1, <1>4 DEF After, OnUnsent, Finish, OnWrite, State, Readers
<1>5. CASE kind[o] \in {"invoke", "command"}
  BY ZenonT(60), <1>1, <1>5 DEF After, OnUnsent, Finish, OnInvoke, State, Readers
<1> QED BY <1>1, <1>2, <1>3, <1>4, <1>5 DEF AllKinds

\* Only the state the event loop was in has changed when it returns.
LEMMA ReturnFacts ==
  ASSUME TypeInv, CallbackReturns
  PROVE  /\ loop[1] \in Ops /\ loop[2] \in Events
         /\ state'[loop[1]] \in After(loop[1], loop[2])
         /\ \A p \in Ops : p # loop[1] => state'[p] = state[p]
         /\ \A p \in Ops : /\ state'[p] \in State
                           /\ state'[p].closed = state[p].closed
                           /\ state[p].complete => state'[p].complete
                           /\ state[p].established => state'[p].established
                           /\ state[p].failed => state'[p].failed
<1>1. loop[1] \in Ops /\ loop[2] \in Events /\ state \in [Ops -> State]
  BY DEF CallbackReturns, TypeInv
<1>2. PICK s \in After(loop[1], loop[2]) : state' = [state EXCEPT ![loop[1]] = s]
  BY DEF CallbackReturns
<1> QED BY <1>1, <1>2, AfterType

\* What a callback does with an answer, but for a subscription.
LEMMA AfterFacts ==
  ASSUME TypeInv, NEW o \in Ops, NEW e \in Events \ {"established"}, NEW s \in After(o, e),
         kind[o] # "subscribe"
  PROVE  /\ e = "bad" /\ ~state[o].closed => s.failed
         /\ s.complete /\ ~s.failed => state[o].complete \/ e = "done"
         /\ kind[o] = "read" /\ s.value => state[o].value \/ e = "ok"
         /\ kind[o] = "command" /\ ~s.failed =>
              /\ e # "bad"
              /\ e = "ok" => ~state[o].seen /\ s.seen
              /\ e # "ok" => s.seen = state[o].seen
              /\ s.complete => s.seen \/ (state[o].complete /\ ~state[o].seen)
<1>1. state[o] \in State /\ kind[o] \in AllKinds
  BY DEF TypeInv
<1>2. CASE kind[o] \in {"read", "events"}
  BY <1>1, <1>2 DEF After, OnUnsent, Fail, OnRead, OnEvents, State, Events, Readers
<1>3. CASE kind[o] = "write"
  BY <1>1, <1>3 DEF After, OnUnsent, Finish, OnWrite, State, Events, Readers
<1>4. CASE kind[o] \in {"invoke", "command"}
  BY <1>1, <1>4 DEF After, OnUnsent, Finish, OnInvoke, State, Events, Readers
<1> QED BY <1>1, <1>2, <1>3, <1>4 DEF AllKinds

\* Every step keeps the types.
LEMMA TypeStep ==
  ASSUME TypeInv, [Next]_vars
  PROVE  TypeInv'
<1>0. CASE UNCHANGED vars
  BY <1>0 DEF vars, op, TypeInv, Actors, Steps, State
<1>1. ASSUME NEW o \in Ops, Call(o) PROVE TypeInv'
  <2>1. pos' \in [Ops -> [Actors -> Steps]]
    BY <1>1, GotoFacts DEF Call, Actors, Steps
  <2> QED BY <1>1, <2>1 DEF Call, op, TypeInv
<1>2. ASSUME NEW o \in Ops, Start(o) PROVE TypeInv'
  <2>1. pos' \in [Ops -> [Actors -> Steps]]
    BY <1>2, GotoFacts DEF Start, Actors, Steps
  <2>2. client' \in [Ops -> {"None", "Connecting", "Idle", "Active", "Ending", "Done"}]
    BY <1>2 DEF Start, TypeInv
  <2> QED BY <1>2, <2>1, <2>2 DEF Start, op, TypeInv
<1>3. ASSUME NEW o \in Ops, WaitEnds(o) PROVE TypeInv'
  BY <1>3, GotoFacts DEF WaitEnds, op, TypeInv, Actors, Steps, State
<1>4. ASSUME NEW o \in Ops, TimeOut(o) PROVE TypeInv'
  BY <1>4, GotoFacts DEF TimeOut, op, TypeInv, Actors, Steps, State
<1>5. ASSUME NEW o \in Ops, Outcome(o) PROVE TypeInv'
  <2>1. pos' \in [Ops -> [Actors -> Steps]]
    BY <1>5, GotoFacts DEF Outcome, Actors, Steps
  <2>2. Verdict(o) \in {"success", "failure"}
    BY DEF Verdict
  <2> QED BY <1>5, <2>1, <2>2 DEF Outcome, op, TypeInv
<1>6. ASSUME NEW o \in Ops, Register(o) PROVE TypeInv'
  BY <1>6, GotoFacts DEF Register, op, TypeInv, Actors, Steps, State
<1>7. ASSUME NEW o \in Ops, Return(o) PROVE TypeInv'
  BY <1>7, GotoFacts DEF Return, op, TypeInv, Actors, Steps, State
<1>8. ASSUME NEW o \in Ops, UserCloses(o) PROVE TypeInv'
  <2>1. pos' \in [Ops -> [Actors -> Steps]]
    BY <1>8, GotoFacts DEF UserCloses, Actors, Steps
  <2> QED BY <1>8, <2>1 DEF UserCloses, op, TypeInv
<1>9. ASSUME NEW o \in Ops, UserErases(o) PROVE TypeInv'
  BY <1>9, GotoFacts DEF UserErases, op, TypeInv, Actors, Steps, State
<1>10. ASSUME NEW o \in Ops, NEW a \in Actors, CloseEnter(o, a) PROVE TypeInv'
  BY <1>10, GotoFacts DEF CloseEnter, op, TypeInv, Actors, Steps, State
<1>11. ASSUME NEW o \in Ops, NEW a \in Actors, CloseClient(o, a) PROVE TypeInv'
  BY <1>11, GotoFacts DEF CloseClient, op, TypeInv, Actors, Steps, State
<1>12. ASSUME NEW o \in Ops, NEW a \in Actors, CloseMark(o, a) PROVE TypeInv'
  <2>1. pos' \in [Ops -> [Actors -> Steps]]
    BY <1>12, GotoFacts DEF CloseMark, Steps
  <2>2. state' \in [Ops -> State]
    BY <1>12, MarkFacts
  <2> QED BY <1>12, <2>1, <2>2 DEF CloseMark, op, TypeInv
<1>13. ASSUME NEW o \in Ops, NEW e \in Events, Callback(o, e) PROVE TypeInv'
  BY <1>13 DEF Callback, op, TypeInv, Actors, Steps, State
<1>14. CASE CallbackReturns
  <2>1. state' \in [Ops -> State]
    <3>1. PICK s : state' = [state EXCEPT ![loop[1]] = s]
      BY <1>14 DEF CallbackReturns
    <3> QED BY <1>14, <3>1, ReturnFacts DEF TypeInv
  <2> QED BY <1>14, <2>1 DEF CallbackReturns, op, TypeInv
<1>15. CASE BeginShutdown
  BY <1>15 DEF BeginShutdown, op, TypeInv, Actors, Steps, State
<1>16. CASE CloseBegins
  BY <1>16 DEF CloseBegins, op, TypeInv, Actors, Steps, State
<1>17. CASE CloseClears
  BY <1>17 DEF CloseClears, op, TypeInv, Actors, Steps, State
<1>18. CASE ShutDown
  BY <1>18 DEF ShutDown, op, TypeInv, Actors, Steps, State
<1> QED BY <1>0, <1>1, <1>2, <1>3, <1>4, <1>5, <1>6, <1>7, <1>8, <1>9, <1>10, <1>11, <1>12, <1>13,
           <1>14, <1>15, <1>16, <1>17, <1>18 DEF Next, Worker, Closes, Closer, Actors
\* Leases, mutexes and objects stay with their holders.
LEMMA HoldStep ==
  ASSUME TypeInv, TypeInv', NEW p \in Ops, HoldInv(p), ClientInv(p), LoopInv(p), [Next]_vars
  PROVE  HoldInv(p)'
<1>0. CASE UNCHANGED vars
  BY <1>0 DEF vars, op, TypeInv, HoldInv, Open, Actors
<1>1. ASSUME NEW o \in Ops, Call(o) PROVE HoldInv(p)'
  <2>1. CASE closer = "Idle" /\ lease' = lease \cup {<<o, "worker">>} /\ alive' = alive \cup {o}
               /\ UNCHANGED outcome /\ Goto(o, "worker", "Start")
    <3>1. \A q \in Ops, b \in Actors : pos'[q][b] = IF q = o /\ b = "worker" THEN "Start" ELSE pos[q][b]
      BY <2>1, GotoFacts DEF Actors, Steps
    <3> QED BY <1>1, <2>1, <3>1 DEF Call, op, TypeInv, HoldInv, Open, Actors
  <2>2. CASE outcome' = [outcome EXCEPT ![o] = "failure"] /\ UNCHANGED <<lease, alive>>
               /\ Goto(o, "worker", "Over")
    <3>1. \A q \in Ops, b \in Actors : pos'[q][b] = IF q = o /\ b = "worker" THEN "Over" ELSE pos[q][b]
      BY <2>2, GotoFacts DEF Actors, Steps
    <3> QED BY <1>1, <2>2, <3>1 DEF Call, op, TypeInv, HoldInv, Open, Actors
  <2> QED BY <1>1, <2>1, <2>2 DEF Call
<1>2. ASSUME NEW o \in Ops, Start(o) PROVE HoldInv(p)'
  <2>1. CASE client' = [client EXCEPT ![o] = "Connecting"] /\ Goto(o, "worker", "Wait")
    <3>1. \A q \in Ops, b \in Actors : pos'[q][b] = IF q = o /\ b = "worker" THEN "Wait" ELSE pos[q][b]
      BY <2>1, GotoFacts DEF Actors, Steps
    <3> QED BY <1>2, <2>1, <3>1 DEF Start, op, TypeInv, HoldInv, Open, Actors
  <2>2. CASE UNCHANGED client /\ Goto(o, "worker", "Enter")
    <3>1. \A q \in Ops, b \in Actors : pos'[q][b] = IF q = o /\ b = "worker" THEN "Enter" ELSE pos[q][b]
      BY <2>2, GotoFacts DEF Actors, Steps
    <3> QED BY <1>2, <2>2, <3>1 DEF Start, op, TypeInv, HoldInv, Open, Actors
  <2> QED BY <1>2, <2>1, <2>2 DEF Start
<1>3. ASSUME NEW o \in Ops, WaitEnds(o) PROVE HoldInv(p)'
  <2>1. \A q \in Ops, b \in Actors : pos'[q][b] =
           IF q = o /\ b = "worker" THEN "Outcome" ELSE pos[q][b]
    BY <1>3, GotoFacts DEF WaitEnds, Actors, Steps
  <2> QED BY <1>3, <2>1 DEF WaitEnds, op, TypeInv, HoldInv, Open, Actors
<1>4. ASSUME NEW o \in Ops, TimeOut(o) PROVE HoldInv(p)'
  <2>1. \A q \in Ops, b \in Actors : pos'[q][b] =
           IF q = o /\ b = "worker" THEN "Enter" ELSE pos[q][b]
    BY <1>4, GotoFacts DEF TimeOut, Actors, Steps
  <2> QED BY <1>4, <2>1 DEF TimeOut, op, TypeInv, HoldInv, Open, Actors
<1>5. ASSUME NEW o \in Ops, Outcome(o) PROVE HoldInv(p)'
  <2>1. \A q \in Ops, b \in Actors : pos'[q][b] =
           IF q = o /\ b = "worker" THEN (IF kind[o] = "subscribe" /\ Verdict(o) = "success" THEN "Register" ELSE "Enter")
           ELSE pos[q][b]
    BY <1>5, GotoFacts DEF Outcome, Actors, Steps
  <2> QED BY <1>5, <2>1 DEF Outcome, op, TypeInv, HoldInv, Open, Actors
<1>6. ASSUME NEW o \in Ops, Register(o) PROVE HoldInv(p)'
  <2>1. \A q \in Ops, b \in Actors : pos'[q][b] =
           IF q = o /\ b = "worker" THEN "Over" ELSE pos[q][b]
    BY <1>6, GotoFacts DEF Register, Actors, Steps
  <2> QED BY <1>6, <2>1 DEF Register, op, TypeInv, HoldInv, Open, Actors
<1>7. ASSUME NEW o \in Ops, Return(o) PROVE HoldInv(p)'
  <2>1. \A q \in Ops, b \in Actors : pos'[q][b] =
           IF q = o /\ b = "worker" THEN "Over" ELSE pos[q][b]
    BY <1>7, GotoFacts DEF Return, Actors, Steps
  <2> QED BY <1>7, <2>1 DEF Return, op, TypeInv, HoldInv, Open, Actors, ClientInv
<1>8. ASSUME NEW o \in Ops, UserCloses(o) PROVE HoldInv(p)'
  <2>1. \A q \in Ops, b \in Actors : pos'[q][b] =
           IF q = o /\ b = "user" THEN (IF closer = "Idle" THEN "Enter" ELSE "Over")
           ELSE pos[q][b]
    BY <1>8, GotoFacts DEF UserCloses, Actors, Steps
  <2> QED BY <1>8, <2>1 DEF UserCloses, op, TypeInv, HoldInv, Open, Actors
<1>9. ASSUME NEW o \in Ops, UserErases(o) PROVE HoldInv(p)'
  <2>1. \A q \in Ops, b \in Actors : pos'[q][b] =
           IF q = o /\ b = "user" THEN "Over" ELSE pos[q][b]
    BY <1>9, GotoFacts DEF UserErases, Actors, Steps
  <2> QED BY <1>9, <2>1 DEF UserErases, op, TypeInv, HoldInv, Open, Actors
<1>10. ASSUME NEW o \in Ops, NEW a \in Actors, CloseEnter(o, a) PROVE HoldInv(p)'
  <2>1. \A q \in Ops, b \in Actors : pos'[q][b] =
           IF q = o /\ b = a THEN (IF kind[o] \in Readers /\ state[o].closed THEN "Left" ELSE "Stack")
           ELSE pos[q][b]
    BY <1>10, GotoFacts DEF CloseEnter, Actors, Steps
  <2> QED BY <1>10, <2>1 DEF CloseEnter, op, TypeInv, HoldInv, Open, Actors
<1>11. ASSUME NEW o \in Ops, NEW a \in Actors, CloseClient(o, a) PROVE HoldInv(p)'
  <2>1. \A q \in Ops, b \in Actors : pos'[q][b] =
           IF q = o /\ b = a THEN (IF kind[o] \in Readers THEN "Mark" ELSE "Left")
           ELSE pos[q][b]
    BY <1>11, GotoFacts DEF CloseClient, Actors, Steps
  <2> QED BY <1>11, <2>1 DEF CloseClient, op, TypeInv, HoldInv, Open, Actors
<1>12. ASSUME NEW o \in Ops, NEW a \in Actors, CloseMark(o, a) PROVE HoldInv(p)'
  <2>1. \A q \in Ops, b \in Actors : pos'[q][b] =
           IF q = o /\ b = a THEN "Left" ELSE pos[q][b]
    BY <1>12, GotoFacts DEF CloseMark, Actors, Steps
  <2> QED BY <1>12, <2>1 DEF CloseMark, op, TypeInv, HoldInv, Open, Actors
<1>13. ASSUME NEW o \in Ops, NEW e \in Events, Callback(o, e) PROVE HoldInv(p)'
  BY <1>13 DEF Callback, op, TypeInv, HoldInv, Open, Actors
<1>14. CASE CallbackReturns
  BY <1>14 DEF CallbackReturns, op, TypeInv, HoldInv, Open, Actors
<1>15. CASE BeginShutdown
  BY <1>15 DEF BeginShutdown, op, TypeInv, HoldInv, Open, Actors
<1>16. CASE CloseBegins
  BY <1>16 DEF CloseBegins, op, TypeInv, HoldInv, Open, Actors
<1>17. CASE CloseClears
  BY <1>17 DEF CloseClears, op, TypeInv, HoldInv, Open, Actors
<1>18. CASE ShutDown
  BY <1>18 DEF ShutDown, op, TypeInv, HoldInv, Open, Actors
<1> QED BY <1>0, <1>1, <1>2, <1>3, <1>4, <1>5, <1>6, <1>7, <1>8, <1>9, <1>10, <1>11, <1>12, <1>13,
           <1>14, <1>15, <1>16, <1>17, <1>18 DEF Next, Worker, Closes, Closer, Actors
\* An actor that is to set the flag has destroyed the client of a reader.
LEMMA MarkStep ==
  ASSUME TypeInv, NEW p \in Ops, MarkInv(p), [Next]_vars
  PROVE  MarkInv(p)'
<1> SUFFICES ASSUME NEW b \in Actors, pos'[p][b] = "Mark" PROVE kind[p] \in Readers /\ kind' = kind
  BY DEF MarkInv
<1>1. kind' = kind
  BY DEF Next, Worker, Closes, Closer, vars, op, Call, Start, WaitEnds, TimeOut, Outcome, Register,
     Return,
     UserCloses, UserErases, CloseEnter, CloseClient, CloseMark, Callback, CallbackReturns, BeginShutdown,
     CloseBegins, CloseClears, ShutDown
<1>2. ASSUME NEW o \in Ops, NEW a \in Actors, CloseClient(o, a)
      PROVE  pos[p][b] = "Mark" \/ kind[p] \in Readers
  <2>1. pos[p][b] = pos'[p][b] \/ (o = p /\ a = b)
    BY <1>2, GotoFacts DEF CloseClient, Steps
  <2>2. kind[o] \notin Readers => Goto(o, a, "Left")
    BY <1>2 DEF CloseClient
  <2> QED BY <2>1, <2>2, GotoFacts DEF Steps
<1>3. ASSUME NEW o \in Ops, NEW a \in Actors, CloseEnter(o, a) \/ CloseMark(o, a) PROVE pos[p][b] = "Mark"
  BY <1>3, GotoFacts DEF CloseEnter, CloseMark, Steps
<1>4. ASSUME NEW o \in Ops, Call(o) \/ Start(o) \/ WaitEnds(o) \/ TimeOut(o)
                         \/ Outcome(o) \/ Register(o) \/ Return(o)
      PROVE  pos[p][b] = "Mark"
  <2>1. CASE Call(o) \/ Start(o)
    BY <2>1, GotoFacts DEF Call, Start, Steps, Actors
  <2>2. CASE WaitEnds(o) \/ TimeOut(o) \/ Outcome(o)
    BY <2>2, GotoFacts DEF WaitEnds, TimeOut, Outcome, Steps, Actors
  <2>3. CASE Register(o) \/ Return(o)
    BY <2>3, GotoFacts DEF Register, Return, Steps, Actors
  <2> QED BY <1>4, <2>1, <2>2, <2>3
<1>5. ASSUME NEW o \in Ops, UserCloses(o) \/ UserErases(o) PROVE pos[p][b] = "Mark"
  BY <1>5, GotoFacts DEF UserCloses, UserErases, Steps, Actors
<1>6. CASE CloseBegins
  <2>1. pos'[p][b] = "Enter" \/ pos'[p][b] = pos[p][b]
    BY <1>6 DEF CloseBegins, TypeInv
  <2> QED BY <1>1, <2>1 DEF MarkInv
<1>7. CASE CallbackReturns \/ BeginShutdown \/ CloseClears \/ ShutDown \/ UNCHANGED vars
           \/ \E o \in Ops, e \in Events : Callback(o, e)
  BY <1>1, <1>7 DEF CallbackReturns, BeginShutdown, CloseClears, ShutDown, vars, Callback, MarkInv
<1> QED BY <1>1, <1>2, <1>3, <1>4, <1>5, <1>6, <1>7 DEF Next, Worker, Closes, Closer, Actors, MarkInv

\* A client is still somebody's to close.
LEMMA ClientStep ==
  ASSUME TypeInv, TypeInv', NEW p \in Ops, HoldInv(p), ClientInv(p), LoopInv(p), ShutdownInv,
         [Next]_vars
  PROVE  ClientInv(p)'
<1>0. CASE UNCHANGED vars
  BY <1>0 DEF vars, op, TypeInv, ClientInv, Open, Working, Actors
<1>1. ASSUME NEW o \in Ops, Call(o) PROVE ClientInv(p)'
  <2>1. CASE closer = "Idle" /\ lease' = lease \cup {<<o, "worker">>} /\ alive' = alive \cup {o}
               /\ UNCHANGED outcome /\ Goto(o, "worker", "Start")
    <3>1. \A q \in Ops, b \in Actors : pos'[q][b] = IF q = o /\ b = "worker" THEN "Start" ELSE pos[q][b]
      BY <2>1, GotoFacts DEF Actors, Steps
    <3> QED BY ZenonT(60), <1>1, <2>1, <3>1 DEF Call, op, TypeInv, ClientInv, Open, Working, Actors
  <2>2. CASE outcome' = [outcome EXCEPT ![o] = "failure"] /\ UNCHANGED <<lease, alive>>
               /\ Goto(o, "worker", "Over")
    <3>1. \A q \in Ops, b \in Actors : pos'[q][b] = IF q = o /\ b = "worker" THEN "Over" ELSE pos[q][b]
      BY <2>2, GotoFacts DEF Actors, Steps
    <3> QED BY <1>1, <2>2, <3>1 DEF Call, op, TypeInv, ClientInv, Open, Working, Actors
  <2> QED BY <1>1, <2>1, <2>2 DEF Call
<1>2. ASSUME NEW o \in Ops, Start(o) PROVE ClientInv(p)'
  <2>1. CASE client' = [client EXCEPT ![o] = "Connecting"] /\ Goto(o, "worker", "Wait")
    <3>1. \A q \in Ops, b \in Actors : pos'[q][b] = IF q = o /\ b = "worker" THEN "Wait" ELSE pos[q][b]
      BY <2>1, GotoFacts DEF Actors, Steps
    <3> QED BY <1>2, <2>1, <3>1 DEF Start, op, TypeInv, ClientInv, Open, Working, Actors, HoldInv
  <2>2. CASE UNCHANGED client /\ Goto(o, "worker", "Enter")
    <3>1. \A q \in Ops, b \in Actors : pos'[q][b] = IF q = o /\ b = "worker" THEN "Enter" ELSE pos[q][b]
      BY <2>2, GotoFacts DEF Actors, Steps
    <3> QED BY ZenonT(60), <1>2, <2>2, <3>1 DEF Start, op, TypeInv, ClientInv, Open, Working, Actors, HoldInv
  <2> QED BY <1>2, <2>1, <2>2 DEF Start
<1>3. ASSUME NEW o \in Ops, WaitEnds(o) PROVE ClientInv(p)'
  <2>1. \A q \in Ops, b \in Actors : pos'[q][b] =
           IF q = o /\ b = "worker" THEN "Outcome" ELSE pos[q][b]
    BY <1>3, GotoFacts DEF WaitEnds, Actors, Steps
  <2> QED BY ZenonT(60), <1>3, <2>1 DEF WaitEnds, op, TypeInv, ClientInv, Open, Working, Actors
<1>4. ASSUME NEW o \in Ops, TimeOut(o) PROVE ClientInv(p)'
  <2>1. \A q \in Ops, b \in Actors : pos'[q][b] =
           IF q = o /\ b = "worker" THEN "Enter" ELSE pos[q][b]
    BY <1>4, GotoFacts DEF TimeOut, Actors, Steps
  <2> QED BY ZenonT(60), <1>4, <2>1 DEF TimeOut, op, TypeInv, ClientInv, Open, Working, Actors
<1>5. ASSUME NEW o \in Ops, Outcome(o) PROVE ClientInv(p)'
  <2>1. \A q \in Ops, b \in Actors : pos'[q][b] =
           IF q = o /\ b = "worker" THEN (IF kind[o] = "subscribe" /\ Verdict(o) = "success" THEN "Register" ELSE "Enter")
           ELSE pos[q][b]
    BY <1>5, GotoFacts DEF Outcome, Actors, Steps
  <2> QED BY <1>5, <2>1 DEF Outcome, op, TypeInv, ClientInv, Open, Working, Actors, Verdict
<1>6. ASSUME NEW o \in Ops, Register(o) PROVE ClientInv(p)'
  <2>1. \A q \in Ops, b \in Actors : pos'[q][b] =
           IF q = o /\ b = "worker" THEN "Over" ELSE pos[q][b]
    BY <1>6, GotoFacts DEF Register, Actors, Steps
  <2> QED BY <1>6, <2>1 DEF Register, op, TypeInv, ClientInv, Open, Working, Actors
<1>7. ASSUME NEW o \in Ops, Return(o) PROVE ClientInv(p)'
  <2>1. \A q \in Ops, b \in Actors : pos'[q][b] =
           IF q = o /\ b = "worker" THEN "Over" ELSE pos[q][b]
    BY <1>7, GotoFacts DEF Return, Actors, Steps
  <2> QED BY <1>7, <2>1 DEF Return, op, TypeInv, ClientInv, Open, Working, Actors
<1>8. ASSUME NEW o \in Ops, UserCloses(o) PROVE ClientInv(p)'
  <2>1. \A q \in Ops, b \in Actors : pos'[q][b] =
           IF q = o /\ b = "user" THEN (IF closer = "Idle" THEN "Enter" ELSE "Over")
           ELSE pos[q][b]
    BY <1>8, GotoFacts DEF UserCloses, Actors, Steps
  <2> QED BY ZenonT(60), <1>8, <2>1 DEF UserCloses, op, TypeInv, ClientInv, Open, Working, Actors
<1>9. ASSUME NEW o \in Ops, UserErases(o) PROVE ClientInv(p)'
  <2>1. \A q \in Ops, b \in Actors : pos'[q][b] =
           IF q = o /\ b = "user" THEN "Over" ELSE pos[q][b]
    BY <1>9, GotoFacts DEF UserErases, Actors, Steps
  <2> QED BY <1>9, <2>1 DEF UserErases, op, TypeInv, ClientInv, Open, Working, Actors
<1>10. ASSUME NEW o \in Ops, NEW a \in Actors, CloseEnter(o, a) PROVE ClientInv(p)'
  <2>1. \A q \in Ops, b \in Actors : pos'[q][b] =
           IF q = o /\ b = a THEN (IF kind[o] \in Readers /\ state[o].closed THEN "Left" ELSE "Stack")
           ELSE pos[q][b]
    BY <1>10, GotoFacts DEF CloseEnter, Actors, Steps
  <2> QED BY ZenonT(60), <1>10, <2>1 DEF CloseEnter, op, TypeInv, ClientInv, Open, Working, Actors
<1>11. ASSUME NEW o \in Ops, NEW a \in Actors, CloseClient(o, a) PROVE ClientInv(p)'
  <2>1. \A q \in Ops, b \in Actors : pos'[q][b] =
           IF q = o /\ b = a THEN (IF kind[o] \in Readers THEN "Mark" ELSE "Left")
           ELSE pos[q][b]
    BY <1>11, GotoFacts DEF CloseClient, Actors, Steps
  <2> QED BY <1>11, <2>1 DEF CloseClient, op, TypeInv, ClientInv, Open, Working, Actors
<1>12. ASSUME NEW o \in Ops, NEW a \in Actors, CloseMark(o, a) PROVE ClientInv(p)'
  <2>1. \A q \in Ops, b \in Actors : pos'[q][b] =
           IF q = o /\ b = a THEN "Left" ELSE pos[q][b]
    BY <1>12, GotoFacts DEF CloseMark, Actors, Steps
  <2> QED BY <1>12, <2>1 DEF CloseMark, op, TypeInv, ClientInv, Open, Working, Actors
<1>13. ASSUME NEW o \in Ops, NEW e \in Events, Callback(o, e) PROVE ClientInv(p)'
  BY <1>13 DEF Callback, op, TypeInv, ClientInv, Open, Working, Actors, Possible
<1>14. CASE CallbackReturns
  BY <1>14, ReturnFacts DEF CallbackReturns, op, TypeInv, ClientInv, Open, Working, Actors
<1>15. CASE BeginShutdown
  BY <1>15 DEF BeginShutdown, op, TypeInv, ClientInv, Open, Working, Actors
<1>16. CASE CloseBegins
  BY <1>16 DEF CloseBegins, op, TypeInv, ClientInv, Open, Working, Actors
<1>17. CASE CloseClears
  BY <1>17 DEF CloseClears, op, TypeInv, ClientInv, Open, Working, Actors
<1>18. CASE ShutDown
  BY <1>18 DEF ShutDown, op, TypeInv, ClientInv, Open, Working, Actors
<1> QED BY <1>0, <1>1, <1>2, <1>3, <1>4, <1>5, <1>6, <1>7, <1>8, <1>9, <1>10, <1>11, <1>12, <1>13,
           <1>14, <1>15, <1>16, <1>17, <1>18 DEF Next, Worker, Closes, Closer, Actors
\* The event loop is in a state whose client is not gone for good.
LEMMA LoopStep ==
  ASSUME TypeInv, TypeInv', NEW p \in Ops, HoldInv(p), ClientInv(p), LoopInv(p), [Next]_vars
  PROVE  LoopInv(p)'
<1>0. CASE UNCHANGED vars
  BY <1>0 DEF vars, op, TypeInv, LoopInv, Calling, Open, Working, Actors
<1>1. ASSUME NEW o \in Ops, Call(o) PROVE LoopInv(p)'
  <2>1. CASE closer = "Idle" /\ lease' = lease \cup {<<o, "worker">>} /\ alive' = alive \cup {o}
               /\ UNCHANGED outcome /\ Goto(o, "worker", "Start")
    <3>1. \A q \in Ops, b \in Actors : pos'[q][b] = IF q = o /\ b = "worker" THEN "Start" ELSE pos[q][b]
      BY <2>1, GotoFacts DEF Actors, Steps
    <3> QED BY <1>1, <2>1, <3>1 DEF Call, op, TypeInv, LoopInv, Calling, Open, Working, Actors
  <2>2. CASE outcome' = [outcome EXCEPT ![o] = "failure"] /\ UNCHANGED <<lease, alive>>
               /\ Goto(o, "worker", "Over")
    <3>1. \A q \in Ops, b \in Actors : pos'[q][b] = IF q = o /\ b = "worker" THEN "Over" ELSE pos[q][b]
      BY <2>2, GotoFacts DEF Actors, Steps
    <3> QED BY <1>1, <2>2, <3>1 DEF Call, op, TypeInv, LoopInv, Calling, Open, Working, Actors
  <2> QED BY <1>1, <2>1, <2>2 DEF Call
<1>2. ASSUME NEW o \in Ops, Start(o) PROVE LoopInv(p)'
  <2>1. CASE client' = [client EXCEPT ![o] = "Connecting"] /\ Goto(o, "worker", "Wait")
    <3>1. \A q \in Ops, b \in Actors : pos'[q][b] = IF q = o /\ b = "worker" THEN "Wait" ELSE pos[q][b]
      BY <2>1, GotoFacts DEF Actors, Steps
    <3> QED BY <1>2, <2>1, <3>1 DEF Start, op, TypeInv, LoopInv, Calling, Open, Working, Actors, HoldInv
  <2>2. CASE UNCHANGED client /\ Goto(o, "worker", "Enter")
    <3>1. \A q \in Ops, b \in Actors : pos'[q][b] = IF q = o /\ b = "worker" THEN "Enter" ELSE pos[q][b]
      BY <2>2, GotoFacts DEF Actors, Steps
    <3> QED BY <1>2, <2>2, <3>1 DEF Start, op, TypeInv, LoopInv, Calling, Open, Working, Actors, HoldInv
  <2> QED BY <1>2, <2>1, <2>2 DEF Start
<1>3. ASSUME NEW o \in Ops, WaitEnds(o) PROVE LoopInv(p)'
  <2>1. \A q \in Ops, b \in Actors : pos'[q][b] =
           IF q = o /\ b = "worker" THEN "Outcome" ELSE pos[q][b]
    BY <1>3, GotoFacts DEF WaitEnds, Actors, Steps
  <2> QED BY <1>3, <2>1 DEF WaitEnds, op, TypeInv, LoopInv, Calling, Open, Working, Actors
<1>4. ASSUME NEW o \in Ops, TimeOut(o) PROVE LoopInv(p)'
  <2>1. \A q \in Ops, b \in Actors : pos'[q][b] =
           IF q = o /\ b = "worker" THEN "Enter" ELSE pos[q][b]
    BY <1>4, GotoFacts DEF TimeOut, Actors, Steps
  <2> QED BY <1>4, <2>1 DEF TimeOut, op, TypeInv, LoopInv, Calling, Open, Working, Actors
<1>5. ASSUME NEW o \in Ops, Outcome(o) PROVE LoopInv(p)'
  <2>1. \A q \in Ops, b \in Actors : pos'[q][b] =
           IF q = o /\ b = "worker" THEN (IF kind[o] = "subscribe" /\ Verdict(o) = "success" THEN "Register" ELSE "Enter")
           ELSE pos[q][b]
    BY <1>5, GotoFacts DEF Outcome, Actors, Steps
  <2> QED BY <1>5, <2>1 DEF Outcome, op, TypeInv, LoopInv, Calling, Open, Working, Actors, Verdict,
             ClientInv
<1>6. ASSUME NEW o \in Ops, Register(o) PROVE LoopInv(p)'
  <2>1. \A q \in Ops, b \in Actors : pos'[q][b] =
           IF q = o /\ b = "worker" THEN "Over" ELSE pos[q][b]
    BY <1>6, GotoFacts DEF Register, Actors, Steps
  <2> QED BY <1>6, <2>1 DEF Register, op, TypeInv, LoopInv, Calling, Open, Working, Actors, ClientInv
<1>7. ASSUME NEW o \in Ops, Return(o) PROVE LoopInv(p)'
  <2>1. \A q \in Ops, b \in Actors : pos'[q][b] =
           IF q = o /\ b = "worker" THEN "Over" ELSE pos[q][b]
    BY <1>7, GotoFacts DEF Return, Actors, Steps
  <2> QED BY <1>7, <2>1 DEF Return, op, TypeInv, LoopInv, Calling, Open, Working, Actors, ClientInv
<1>8. ASSUME NEW o \in Ops, UserCloses(o) PROVE LoopInv(p)'
  <2>1. \A q \in Ops, b \in Actors : pos'[q][b] =
           IF q = o /\ b = "user" THEN (IF closer = "Idle" THEN "Enter" ELSE "Over")
           ELSE pos[q][b]
    BY <1>8, GotoFacts DEF UserCloses, Actors, Steps
  <2> QED BY <1>8, <2>1 DEF UserCloses, op, TypeInv, LoopInv, Calling, Open, Working, Actors
<1>9. ASSUME NEW o \in Ops, UserErases(o) PROVE LoopInv(p)'
  <2>1. \A q \in Ops, b \in Actors : pos'[q][b] =
           IF q = o /\ b = "user" THEN "Over" ELSE pos[q][b]
    BY <1>9, GotoFacts DEF UserErases, Actors, Steps
  <2> QED BY <1>9, <2>1 DEF UserErases, op, TypeInv, LoopInv, Calling, Open, Working, Actors
<1>10. ASSUME NEW o \in Ops, NEW a \in Actors, CloseEnter(o, a) PROVE LoopInv(p)'
  <2>1. \A q \in Ops, b \in Actors : pos'[q][b] =
           IF q = o /\ b = a THEN (IF kind[o] \in Readers /\ state[o].closed THEN "Left" ELSE "Stack")
           ELSE pos[q][b]
    BY <1>10, GotoFacts DEF CloseEnter, Actors, Steps
  <2> QED BY <1>10, <2>1 DEF CloseEnter, op, TypeInv, LoopInv, Calling, Open, Working, Actors, ClientInv
<1>11. ASSUME NEW o \in Ops, NEW a \in Actors, CloseClient(o, a) PROVE LoopInv(p)'
  <2>1. \A q \in Ops, b \in Actors : pos'[q][b] =
           IF q = o /\ b = a THEN (IF kind[o] \in Readers THEN "Mark" ELSE "Left")
           ELSE pos[q][b]
    BY <1>11, GotoFacts DEF CloseClient, Actors, Steps
  <2> QED BY <1>11, <2>1, FreeAssumption DEF CloseClient, op, TypeInv, LoopInv, Calling, Open, Working,
             Actors
<1>12. ASSUME NEW o \in Ops, NEW a \in Actors, CloseMark(o, a) PROVE LoopInv(p)'
  <2>1. \A q \in Ops, b \in Actors : pos'[q][b] =
           IF q = o /\ b = a THEN "Left" ELSE pos[q][b]
    BY <1>12, GotoFacts DEF CloseMark, Actors, Steps
  <2> QED BY <1>12, <2>1 DEF CloseMark, op, TypeInv, LoopInv, Calling, Open, Working, Actors
<1>13. ASSUME NEW o \in Ops, NEW e \in Events, Callback(o, e) PROVE LoopInv(p)'
  <2>1. CASE p # o
    BY <1>13, <2>1 DEF Callback, LoopInv, Calling
  <2>2. CASE p = o
    <3>1. client[o] # "None" /\ (Working(o) \/ Open(o))
      BY <1>13, <2>2 DEF Callback, Possible, ClientInv
    <3>2. e = "established" => kind[o] = "subscribe"
      BY <1>13 DEF Callback, Possible, TypeInv
    <3>3. e \in {"ok", "bad"} => heard'[o] = Append(heard[o], e) /\ heard[o] \in Seq({"ok", "bad"})
      BY <1>13 DEF Callback, TypeInv
    <3>4. e \in {"ok", "bad"} => heard'[o] # <<>>
      BY <3>3
    <3>5. e = "done" => client'[o] = "Done"
      BY <1>13 DEF Callback, TypeInv
    <3> QED BY <1>13, <2>2, <3>1, <3>2, <3>4, <3>5 DEF Callback, op, LoopInv, Calling, Open, Working
  <2> QED BY <2>1, <2>2
<1>14. CASE CallbackReturns
  BY <1>14 DEF CallbackReturns, op, TypeInv, LoopInv, Calling, Open, Working, Actors
<1>15. CASE BeginShutdown
  BY <1>15 DEF BeginShutdown, op, TypeInv, LoopInv, Calling, Open, Working, Actors
<1>16. CASE CloseBegins
  BY <1>16 DEF CloseBegins, op, TypeInv, LoopInv, Calling, Open, Working, Actors
<1>17. CASE CloseClears
  BY <1>17 DEF CloseClears, op, TypeInv, LoopInv, Calling, Open, Working, Actors
<1>18. CASE ShutDown
  BY <1>18 DEF ShutDown, op, TypeInv, LoopInv, Calling, Open, Working, Actors
<1> QED BY <1>0, <1>1, <1>2, <1>3, <1>4, <1>5, <1>6, <1>7, <1>8, <1>9, <1>10, <1>11, <1>12, <1>13,
           <1>14, <1>15, <1>16, <1>17, <1>18 DEF Next, Worker, Closes, Closer, Actors
\* What Close has waited for does not come back.
LEMMA ShutdownStep ==
  ASSUME TypeInv, TypeInv', ShutdownInv, \A o \in Ops : HoldInv(o) /\ LoopInv(o), [Next]_vars
  PROVE  ShutdownInv'
<1>0. CASE UNCHANGED vars
  BY <1>0 DEF vars, op, TypeInv, ShutdownInv
<1>1. ASSUME NEW o \in Ops, Call(o) PROVE ShutdownInv'
  <2>1. CASE closer = "Idle" /\ lease' = lease \cup {<<o, "worker">>} /\ alive' = alive \cup {o}
               /\ UNCHANGED outcome /\ Goto(o, "worker", "Start")
    <3>1. \A q \in Ops, b \in Actors : pos'[q][b] = IF q = o /\ b = "worker" THEN "Start" ELSE pos[q][b]
      BY <2>1, GotoFacts DEF Actors, Steps
    <3> QED BY <1>1, <2>1, <3>1 DEF Call, op, TypeInv, ShutdownInv
  <2>2. CASE outcome' = [outcome EXCEPT ![o] = "failure"] /\ UNCHANGED <<lease, alive>>
               /\ Goto(o, "worker", "Over")
    <3>1. \A q \in Ops, b \in Actors : pos'[q][b] = IF q = o /\ b = "worker" THEN "Over" ELSE pos[q][b]
      BY <2>2, GotoFacts DEF Actors, Steps
    <3> QED BY <1>1, <2>2, <3>1 DEF Call, op, TypeInv, ShutdownInv
  <2> QED BY <1>1, <2>1, <2>2 DEF Call
<1>2. ASSUME NEW o \in Ops, Start(o) PROVE ShutdownInv'
  <2>1. CASE client' = [client EXCEPT ![o] = "Connecting"] /\ Goto(o, "worker", "Wait")
    <3>1. \A q \in Ops, b \in Actors : pos'[q][b] = IF q = o /\ b = "worker" THEN "Wait" ELSE pos[q][b]
      BY <2>1, GotoFacts DEF Actors, Steps
    <3> QED BY <1>2, <2>1, <3>1 DEF Start, op, TypeInv, ShutdownInv
  <2>2. CASE UNCHANGED client /\ Goto(o, "worker", "Enter")
    <3>1. \A q \in Ops, b \in Actors : pos'[q][b] = IF q = o /\ b = "worker" THEN "Enter" ELSE pos[q][b]
      BY <2>2, GotoFacts DEF Actors, Steps
    <3> QED BY <1>2, <2>2, <3>1 DEF Start, op, TypeInv, ShutdownInv
  <2> QED BY <1>2, <2>1, <2>2 DEF Start
<1>3. ASSUME NEW o \in Ops, WaitEnds(o) PROVE ShutdownInv'
  <2>1. \A q \in Ops, b \in Actors : pos'[q][b] =
           IF q = o /\ b = "worker" THEN "Outcome" ELSE pos[q][b]
    BY <1>3, GotoFacts DEF WaitEnds, Actors, Steps
  <2> QED BY <1>3, <2>1 DEF WaitEnds, op, TypeInv, ShutdownInv
<1>4. ASSUME NEW o \in Ops, TimeOut(o) PROVE ShutdownInv'
  <2>1. \A q \in Ops, b \in Actors : pos'[q][b] =
           IF q = o /\ b = "worker" THEN "Enter" ELSE pos[q][b]
    BY <1>4, GotoFacts DEF TimeOut, Actors, Steps
  <2> QED BY <1>4, <2>1 DEF TimeOut, op, TypeInv, ShutdownInv
<1>5. ASSUME NEW o \in Ops, Outcome(o) PROVE ShutdownInv'
  <2>1. \A q \in Ops, b \in Actors : pos'[q][b] =
           IF q = o /\ b = "worker" THEN (IF kind[o] = "subscribe" /\ Verdict(o) = "success" THEN "Register" ELSE "Enter")
           ELSE pos[q][b]
    BY <1>5, GotoFacts DEF Outcome, Actors, Steps
  <2> QED BY <1>5, <2>1 DEF Outcome, op, TypeInv, ShutdownInv
<1>6. ASSUME NEW o \in Ops, Register(o) PROVE ShutdownInv'
  <2>1. \A q \in Ops, b \in Actors : pos'[q][b] =
           IF q = o /\ b = "worker" THEN "Over" ELSE pos[q][b]
    BY <1>6, GotoFacts DEF Register, Actors, Steps
  <2> QED BY <1>6, <2>1 DEF Register, op, TypeInv, ShutdownInv, HoldInv
<1>7. ASSUME NEW o \in Ops, Return(o) PROVE ShutdownInv'
  <2>1. \A q \in Ops, b \in Actors : pos'[q][b] =
           IF q = o /\ b = "worker" THEN "Over" ELSE pos[q][b]
    BY <1>7, GotoFacts DEF Return, Actors, Steps
  <2> QED BY <1>7, <2>1 DEF Return, op, TypeInv, ShutdownInv
<1>8. ASSUME NEW o \in Ops, UserCloses(o) PROVE ShutdownInv'
  <2>1. \A q \in Ops, b \in Actors : pos'[q][b] =
           IF q = o /\ b = "user" THEN (IF closer = "Idle" THEN "Enter" ELSE "Over")
           ELSE pos[q][b]
    BY <1>8, GotoFacts DEF UserCloses, Actors, Steps
  <2> QED BY <1>8, <2>1 DEF UserCloses, op, TypeInv, ShutdownInv
<1>9. ASSUME NEW o \in Ops, UserErases(o) PROVE ShutdownInv'
  <2>1. \A q \in Ops, b \in Actors : pos'[q][b] =
           IF q = o /\ b = "user" THEN "Over" ELSE pos[q][b]
    BY <1>9, GotoFacts DEF UserErases, Actors, Steps
  <2> QED BY <1>9, <2>1 DEF UserErases, op, TypeInv, ShutdownInv, HoldInv
<1>10. ASSUME NEW o \in Ops, NEW a \in Actors, CloseEnter(o, a) PROVE ShutdownInv'
  <2>1. \A q \in Ops, b \in Actors : pos'[q][b] =
           IF q = o /\ b = a THEN (IF kind[o] \in Readers /\ state[o].closed THEN "Left" ELSE "Stack")
           ELSE pos[q][b]
    BY <1>10, GotoFacts DEF CloseEnter, Actors, Steps
  <2> QED BY <1>10, <2>1 DEF CloseEnter, op, TypeInv, ShutdownInv
<1>11. ASSUME NEW o \in Ops, NEW a \in Actors, CloseClient(o, a) PROVE ShutdownInv'
  <2>1. \A q \in Ops, b \in Actors : pos'[q][b] =
           IF q = o /\ b = a THEN (IF kind[o] \in Readers THEN "Mark" ELSE "Left")
           ELSE pos[q][b]
    BY <1>11, GotoFacts DEF CloseClient, Actors, Steps
  <2> QED BY <1>11, <2>1 DEF CloseClient, op, TypeInv, ShutdownInv
<1>12. ASSUME NEW o \in Ops, NEW a \in Actors, CloseMark(o, a) PROVE ShutdownInv'
  <2>1. \A q \in Ops, b \in Actors : pos'[q][b] =
           IF q = o /\ b = a THEN "Left" ELSE pos[q][b]
    BY <1>12, GotoFacts DEF CloseMark, Actors, Steps
  <2> QED BY <1>12, <2>1 DEF CloseMark, op, TypeInv, ShutdownInv
<1>13. ASSUME NEW o \in Ops, NEW e \in Events, Callback(o, e) PROVE ShutdownInv'
  BY <1>13 DEF Callback, op, TypeInv, ShutdownInv
<1>14. CASE CallbackReturns
  BY <1>14 DEF CallbackReturns, op, TypeInv, ShutdownInv
<1>15. CASE BeginShutdown
  BY <1>15 DEF BeginShutdown, op, TypeInv, ShutdownInv
<1>16. CASE CloseBegins
  BY <1>16 DEF CloseBegins, op, TypeInv, ShutdownInv
<1>17. CASE CloseClears
  BY <1>17 DEF CloseClears, op, TypeInv, ShutdownInv
<1>18. CASE ShutDown
  BY <1>18, FreeAssumption DEF ShutDown, op, TypeInv, ShutdownInv, LoopInv, Calling
<1> QED BY <1>0, <1>1, <1>2, <1>3, <1>4, <1>5, <1>6, <1>7, <1>8, <1>9, <1>10, <1>11, <1>12, <1>13,
           <1>14, <1>15, <1>16, <1>17, <1>18 DEF Next, Worker, Closes, Closer, Actors
\* The device answers no more often than it is allowed to.
LEMMA BoundStep ==
  ASSUME TypeInv, NEW p \in Ops, Len(heard[p]) <= MaxAnswers, [Next]_vars
  PROVE  Len(heard'[p]) <= MaxAnswers
<1>1. ASSUME NEW o \in Ops, NEW e \in Events, Callback(o, e) PROVE Len(heard'[p]) <= MaxAnswers
  <2>1. CASE p = o /\ e \in {"ok", "bad"}
    <3>1. heard'[o] = Append(heard[o], e) /\ heard[o] \in Seq({"ok", "bad"})
      BY <1>1, <2>1 DEF Callback, TypeInv
    <3>2. Len(heard[o]) < MaxAnswers
      BY <1>1, <2>1 DEF Callback, Possible, TypeInv
    <3>3. Len(heard'[o]) = Len(heard[o]) + 1 /\ Len(heard[o]) \in Nat
      BY <3>1
    <3> QED BY <2>1, <3>2, <3>3, AnswersAssumption
  <2>2. CASE ~(p = o /\ e \in {"ok", "bad"})
    <3>1. heard'[p] = heard[p]
      BY <1>1, <2>2 DEF Callback, TypeInv
    <3> QED BY <3>1
  <2> QED BY <2>1, <2>2
<1>2. CASE ~\E o \in Ops, e \in Events : Callback(o, e)
  <2>1. heard' = heard
    BY <1>2 DEF Next, Worker, Closes, Closer, vars, op, Call, Start, WaitEnds, TimeOut, Outcome,
       Register,
       Return, UserCloses, UserErases, CloseEnter, CloseClient, CloseMark, CallbackReturns, BeginShutdown,
       CloseBegins, CloseClears, ShutDown
  <2> QED BY <2>1
<1> QED BY <1>1, <1>2

\* A state keeps what the device has said.
LEMMA AnswerStep ==
  ASSUME TypeInv, TypeInv', NEW p \in Ops, HoldInv(p), MarkInv(p), ClientInv(p), LoopInv(p), AnswerInv(p),
         [Next]_vars
  PROVE  AnswerInv(p)'
<1>0. CASE UNCHANGED vars
  BY <1>0 DEF vars, op, TypeInv, AnswerInv, Calling, Handing, Completed, Actors
<1>1. ASSUME NEW o \in Ops, Call(o) PROVE AnswerInv(p)'
  <2>1. CASE p # o
    <3>1. pos'[p] = pos[p]
      BY <1>1, <2>1 DEF Call, Goto, TypeInv
    <3> QED BY <1>1, <3>1 DEF Call, op, AnswerInv, Calling, Handing, Completed
  <2>2. CASE p = o
    <3>1. pos'[p]["worker"] \in {"Start", "Over"} /\ pos[p]["worker"] = "Call"
      BY <1>1, <2>2, GotoFacts DEF Call, Actors, Steps
    <3> QED BY <1>1, <3>1 DEF Call, AnswerInv, Calling, Handing, Completed
  <2> QED BY <2>1, <2>2
<1>2. ASSUME NEW o \in Ops, Start(o) PROVE AnswerInv(p)'
  <2>1. CASE client' = [client EXCEPT ![o] = "Connecting"] /\ Goto(o, "worker", "Wait")
    <3>1. \A q \in Ops, b \in Actors : pos'[q][b] = IF q = o /\ b = "worker" THEN "Wait" ELSE pos[q][b]
      BY <2>1, GotoFacts DEF Actors, Steps
    <3> QED BY <1>2, <2>1, <3>1 DEF Start, op, TypeInv, AnswerInv, Calling, Handing, Completed, Actors,
               LoopInv, Working, Open, ClientInv
  <2>2. CASE UNCHANGED client /\ Goto(o, "worker", "Enter")
    <3>1. \A q \in Ops, b \in Actors : pos'[q][b] = IF q = o /\ b = "worker" THEN "Enter" ELSE pos[q][b]
      BY <2>2, GotoFacts DEF Actors, Steps
    <3> QED BY <1>2, <2>2, <3>1 DEF Start, op, TypeInv, AnswerInv, Calling, Handing, Completed, Actors,
               LoopInv, Working, Open, ClientInv
  <2> QED BY <1>2, <2>1, <2>2 DEF Start
<1>3. ASSUME NEW o \in Ops, WaitEnds(o) PROVE AnswerInv(p)'
  <2>1. \A q \in Ops, b \in Actors : pos'[q][b] =
           IF q = o /\ b = "worker" THEN "Outcome" ELSE pos[q][b]
    BY <1>3, GotoFacts DEF WaitEnds, Actors, Steps
  <2> QED BY <1>3, <2>1 DEF WaitEnds, op, TypeInv, AnswerInv, Calling, Handing, Completed, Actors
<1>4. ASSUME NEW o \in Ops, TimeOut(o) PROVE AnswerInv(p)'
  <2>1. \A q \in Ops, b \in Actors : pos'[q][b] =
           IF q = o /\ b = "worker" THEN "Enter" ELSE pos[q][b]
    BY <1>4, GotoFacts DEF TimeOut, Actors, Steps
  <2> QED BY <1>4, <2>1 DEF TimeOut, op, TypeInv, AnswerInv, Calling, Handing, Completed, Actors
<1>5. ASSUME NEW o \in Ops, Outcome(o) PROVE AnswerInv(p)'
  <2>1. \A q \in Ops, b \in Actors : pos'[q][b] =
           IF q = o /\ b = "worker" THEN (IF kind[o] = "subscribe" /\ Verdict(o) = "success" THEN "Register" ELSE "Enter")
           ELSE pos[q][b]
    BY <1>5, GotoFacts DEF Outcome, Actors, Steps
  <2> QED BY <1>5, <2>1 DEF Outcome, op, TypeInv, AnswerInv, Calling, Handing, Completed, Actors
<1>6. ASSUME NEW o \in Ops, Register(o) PROVE AnswerInv(p)'
  <2>1. \A q \in Ops, b \in Actors : pos'[q][b] =
           IF q = o /\ b = "worker" THEN "Over" ELSE pos[q][b]
    BY <1>6, GotoFacts DEF Register, Actors, Steps
  <2> QED BY <1>6, <2>1 DEF Register, op, TypeInv, AnswerInv, Calling, Handing, Completed, Actors
<1>7. ASSUME NEW o \in Ops, Return(o) PROVE AnswerInv(p)'
  <2>1. \A q \in Ops, b \in Actors : pos'[q][b] =
           IF q = o /\ b = "worker" THEN "Over" ELSE pos[q][b]
    BY <1>7, GotoFacts DEF Return, Actors, Steps
  <2> QED BY <1>7, <2>1 DEF Return, op, TypeInv, AnswerInv, Calling, Handing, Completed, Actors
<1>8. ASSUME NEW o \in Ops, UserCloses(o) PROVE AnswerInv(p)'
  <2>1. \A q \in Ops, b \in Actors : pos'[q][b] =
           IF q = o /\ b = "user" THEN (IF closer = "Idle" THEN "Enter" ELSE "Over")
           ELSE pos[q][b]
    BY <1>8, GotoFacts DEF UserCloses, Actors, Steps
  <2> QED BY <1>8, <2>1 DEF UserCloses, op, TypeInv, AnswerInv, Calling, Handing, Completed, Actors
<1>9. ASSUME NEW o \in Ops, UserErases(o) PROVE AnswerInv(p)'
  <2>1. \A q \in Ops, b \in Actors : pos'[q][b] =
           IF q = o /\ b = "user" THEN "Over" ELSE pos[q][b]
    BY <1>9, GotoFacts DEF UserErases, Actors, Steps
  <2> QED BY <1>9, <2>1 DEF UserErases, op, TypeInv, AnswerInv, Calling, Handing, Completed, Actors
<1>10. ASSUME NEW o \in Ops, NEW a \in Actors, CloseEnter(o, a) PROVE AnswerInv(p)'
  <2>1. \A q \in Ops, b \in Actors : pos'[q][b] =
           IF q = o /\ b = a THEN (IF kind[o] \in Readers /\ state[o].closed THEN "Left" ELSE "Stack")
           ELSE pos[q][b]
    BY <1>10, GotoFacts DEF CloseEnter, Actors, Steps
  <2> QED BY <1>10, <2>1 DEF CloseEnter, op, TypeInv, AnswerInv, Calling, Handing, Completed, Actors
<1>11. ASSUME NEW o \in Ops, NEW a \in Actors, CloseClient(o, a) PROVE AnswerInv(p)'
  <2>1. \A q \in Ops, b \in Actors : pos'[q][b] =
           IF q = o /\ b = a THEN (IF kind[o] \in Readers THEN "Mark" ELSE "Left")
           ELSE pos[q][b]
    BY <1>11, GotoFacts DEF CloseClient, Actors, Steps
  <2> QED BY <1>11, <2>1, FreeAssumption DEF CloseClient, op, TypeInv, AnswerInv, Calling, Handing,
             Completed, Actors, LoopInv
<1>12. ASSUME NEW o \in Ops, NEW a \in Actors, CloseMark(o, a) PROVE AnswerInv(p)'
  <2>1. \A b \in Actors : pos'[p][b] = IF p = o /\ b = a THEN "Left" ELSE pos[p][b]
    BY <1>12, GotoFacts DEF CloseMark, Steps
  <2>2. "worker" \in Actors
    BY DEF Actors
  <2>3. CASE p # o
    BY <1>12, <2>1, <2>2, <2>3, MarkFacts DEF CloseMark, op, AnswerInv, Calling, Handing, Completed
  <2>4. CASE p = o
    <3>1. kind[o] \in Readers
      BY <1>12, <2>4 DEF MarkInv, CloseMark
    <3>2. pos'[p]["worker"] \in {"Call", "Start", "Outcome"} => pos'[p]["worker"] = pos[p]["worker"]
      BY <2>1, <2>2
    <3>3. pos[p]["worker"] \notin {"Call", "Start"}
      BY <1>12, <2>2, <2>4 DEF ClientInv, CloseMark, Open, Actors, TypeInv
    <3>4. state'[p].closed /\ state'[p].complete /\ state'[p].value = state[p].value /\ kind[p] # "command"
      BY <1>12, <2>4, <3>1, MarkFacts DEF Readers
    <3> QED BY <1>12, <3>2, <3>3, <3>4 DEF CloseMark, op, AnswerInv, Completed
  <2> QED BY <2>3, <2>4
<1>13. ASSUME NEW o \in Ops, NEW e \in Events, Callback(o, e) PROVE AnswerInv(p)'
  <2>1. ~Calling(p) /\ Handing(p) = <<>>
    BY <1>13, FreeAssumption DEF Callback, LoopInv, Handing
  <2>2. CASE p # o
    <3>1. ~Calling(p)' /\ Handing(p)' = <<>> /\ UNCHANGED <<client[p], heard[p]>>
      BY <1>13, <2>2 DEF Callback, Calling, Handing, TypeInv
    <3> QED BY <1>13, <2>1, <2>2, <3>1 DEF Callback, op, AnswerInv, Completed
  <2>3. CASE p = o
    <3>1. client[o] \notin {"None", "Done"} /\ pos[o]["worker"] \notin {"Call", "Start"}
      BY <1>13, <2>3 DEF Callback, Possible, ClientInv, Working, Open, TypeInv
    <3>2. CASE e \in {"ok", "bad"}
      <4>1. heard'[o] = Append(heard[o], e) /\ heard[o] \in Seq({"ok", "bad"})
        BY <1>13, <3>2 DEF Callback, TypeInv
      <4>2. ToSet(heard'[o]) = ToSet(heard[o]) \cup {e} /\ heard'[o] # <<>>
        BY <3>2, <4>1, OneMore
      <4>3. Calling(o)' /\ loop'[2] = e /\ Handing(o)' = <<e>>
        BY <1>13, <3>2 DEF Callback, Calling, Handing
      <4>4. ASSUME kind[o] = "command", ~state[o].failed
            PROVE  heard'[o] = (IF state[o].seen THEN <<"ok">> ELSE <<>>) \o Handing(o)'
        BY <2>1, <2>3, <4>1, <4>3, <4>4 DEF AnswerInv
      <4> QED BY <1>13, <2>1, <2>3, <3>1, <4>2, <4>3, <4>4 DEF Callback, op, AnswerInv, Completed
    <3>3. CASE e \notin {"ok", "bad"}
      <4>1. heard'[o] = heard[o] /\ Handing(o)' = <<>>
        BY <1>13, <3>3 DEF Callback, TypeInv, Calling, Handing
      <4> QED BY <1>13, <2>1, <2>3, <3>1, <4>1 DEF Callback, op, AnswerInv, Completed
    <3> QED BY <3>2, <3>3
  <2> QED BY <2>2, <2>3
<1>14. CASE CallbackReturns
  <2>1. ~Calling(p)' /\ Handing(p)' = <<>>
    BY <1>14 DEF CallbackReturns, Calling, Handing
  <2>2. UNCHANGED <<kind, pos, client, heard>>
    BY <1>14 DEF CallbackReturns, op
  <2>3. CASE ~Calling(p)
    <3>1. state'[p] = state[p] /\ Handing(p) = <<>>
      BY <1>14, <2>3, ReturnFacts DEF CallbackReturns, Calling, Handing
    <3> QED BY <2>1, <2>2, <2>3, <3>1 DEF AnswerInv, Completed
  <2>4. CASE Calling(p)
    <3> DEFINE s == state'[p]  e == loop[2]
    <3>1. s \in After(p, e) /\ e \in Events
      BY <1>14, <2>4, ReturnFacts DEF Calling
    <3>2. pos[p]["worker"] \notin {"Call", "Start"}
      BY <2>4 DEF LoopInv, Working, Open
    <3>3. pos[p]["worker"] = "Outcome" => Completed(p)'
      BY <1>14, <2>2, ReturnFacts DEF AnswerInv, Completed
    <3>4. CASE kind[p] = "subscribe"
      BY <2>1, <2>2, <3>2, <3>3, <3>4 DEF AnswerInv
    <3>5. CASE kind[p] # "subscribe"
      <4>1. e # "established" /\ (e = "done" => client[p] = "Done")
           /\ (e \in {"ok", "bad"} => heard[p] # <<>>)
        BY <2>4, <3>5 DEF LoopInv
      <4>2. "bad" \in ToSet(heard[p]) => s.failed \/ s.closed
        BY <1>14, <2>4, <3>1, <3>5, <4>1, AfterFacts, ReturnFacts DEF AnswerInv
      <4>3. s.complete /\ ~s.closed /\ ~s.failed => client[p] \in {"Done", "None"}
        BY <1>14, <2>4, <3>1, <3>5, <4>1, AfterFacts, ReturnFacts DEF AnswerInv
      <4>4. kind[p] = "read" /\ s.value => heard[p] # <<>>
        BY <2>4, <3>1, <3>5, <4>1, AfterFacts DEF AnswerInv
      <4>5. ASSUME kind[p] = "command", ~s.failed
            PROVE  heard[p] = (IF s.seen THEN <<"ok">> ELSE <<>>) /\ (s.complete => s.seen)
        <5>1. ~state[p].failed
          BY <1>14, <4>5, ReturnFacts
        <5>2. heard[p] = (IF state[p].seen THEN <<"ok">> ELSE <<>>) \o Handing(p)
          BY <4>5, <5>1 DEF AnswerInv
        <5>3. s.complete => s.seen
          BY <3>1, <3>5, <4>1, <4>5, <5>1, AfterFacts DEF AnswerInv
        <5>4. CASE e = "ok"
          <6>1. ~state[p].seen /\ s.seen /\ Handing(p) = <<"ok">>
            BY <2>4, <3>1, <3>5, <4>1, <4>5, <5>4, AfterFacts DEF Handing
          <6> QED BY <5>2, <5>3, <6>1
        <5>5. CASE e # "ok"
          <6>1. s.seen = state[p].seen /\ Handing(p) = <<>>
            BY <2>4, <3>1, <3>5, <4>1, <4>5, <5>5, AfterFacts DEF Handing
          <6> QED BY <5>2, <5>3, <6>1
        <5> QED BY <5>4, <5>5
      <4>6. kind[p] = "command" /\ ~s.failed =>
              /\ heard[p] = (IF s.seen THEN <<"ok">> ELSE <<>>) \o <<>>
              /\ s.complete => s.seen
        BY <4>5
      <4> QED BY <2>1, <2>2, <3>2, <3>3, <3>5, <4>2, <4>3, <4>4, <4>6 DEF AnswerInv
    <3> QED BY <3>4, <3>5
  <2> QED BY <2>3, <2>4
<1>15. CASE BeginShutdown
  BY <1>15 DEF BeginShutdown, op, TypeInv, AnswerInv, Calling, Handing, Completed, Actors
<1>16. CASE CloseBegins
  BY <1>16 DEF CloseBegins, op, TypeInv, AnswerInv, Calling, Handing, Completed, Actors
<1>17. CASE CloseClears
  BY <1>17 DEF CloseClears, op, TypeInv, AnswerInv, Calling, Handing, Completed, Actors
<1>18. CASE ShutDown
  BY <1>18 DEF ShutDown, op, TypeInv, AnswerInv, Calling, Handing, Completed, Actors
<1> QED BY <1>0, <1>1, <1>2, <1>3, <1>4, <1>5, <1>6, <1>7, <1>8, <1>9, <1>10, <1>11, <1>12, <1>13,
           <1>14, <1>15, <1>16, <1>17, <1>18 DEF Next, Worker, Closes, Closer, Actors
\* Nothing comes after success.
LEMMA SettledStep ==
  ASSUME TypeInv, TypeInv', NEW p \in Ops, HoldInv(p), ClientInv(p), LoopInv(p), AnswerInv(p), SettledInv(p),
         [Next]_vars
  PROVE  SettledInv(p)'
<1>0. CASE UNCHANGED vars
  BY <1>0 DEF vars, op, TypeInv, SettledInv, Calling, Actors
<1>1. ASSUME NEW o \in Ops, Call(o) PROVE SettledInv(p)'
  <2>1. CASE closer = "Idle" /\ lease' = lease \cup {<<o, "worker">>} /\ alive' = alive \cup {o}
               /\ UNCHANGED outcome /\ Goto(o, "worker", "Start")
    <3>1. \A q \in Ops, b \in Actors : pos'[q][b] = IF q = o /\ b = "worker" THEN "Start" ELSE pos[q][b]
      BY <2>1, GotoFacts DEF Actors, Steps
    <3> QED BY <1>1, <2>1, <3>1 DEF Call, op, TypeInv, SettledInv, Calling, Actors
  <2>2. CASE outcome' = [outcome EXCEPT ![o] = "failure"] /\ UNCHANGED <<lease, alive>>
               /\ Goto(o, "worker", "Over")
    <3>1. \A q \in Ops, b \in Actors : pos'[q][b] = IF q = o /\ b = "worker" THEN "Over" ELSE pos[q][b]
      BY <2>2, GotoFacts DEF Actors, Steps
    <3> QED BY <1>1, <2>2, <3>1 DEF Call, op, TypeInv, SettledInv, Calling, Actors
  <2> QED BY <1>1, <2>1, <2>2 DEF Call
<1>2. ASSUME NEW o \in Ops, Start(o) PROVE SettledInv(p)'
  <2>1. CASE client' = [client EXCEPT ![o] = "Connecting"] /\ Goto(o, "worker", "Wait")
    <3>1. \A q \in Ops, b \in Actors : pos'[q][b] = IF q = o /\ b = "worker" THEN "Wait" ELSE pos[q][b]
      BY <2>1, GotoFacts DEF Actors, Steps
    <3> QED BY <1>2, <2>1, <3>1 DEF Start, op, TypeInv, SettledInv, Calling, Actors, ClientInv
  <2>2. CASE UNCHANGED client /\ Goto(o, "worker", "Enter")
    <3>1. \A q \in Ops, b \in Actors : pos'[q][b] = IF q = o /\ b = "worker" THEN "Enter" ELSE pos[q][b]
      BY <2>2, GotoFacts DEF Actors, Steps
    <3> QED BY <1>2, <2>2, <3>1 DEF Start, op, TypeInv, SettledInv, Calling, Actors, ClientInv
  <2> QED BY <1>2, <2>1, <2>2 DEF Start
<1>3. ASSUME NEW o \in Ops, WaitEnds(o) PROVE SettledInv(p)'
  <2>1. \A q \in Ops, b \in Actors : pos'[q][b] =
           IF q = o /\ b = "worker" THEN "Outcome" ELSE pos[q][b]
    BY <1>3, GotoFacts DEF WaitEnds, Actors, Steps
  <2> QED BY <1>3, <2>1 DEF WaitEnds, op, TypeInv, SettledInv, Calling, Actors
<1>4. ASSUME NEW o \in Ops, TimeOut(o) PROVE SettledInv(p)'
  <2>1. \A q \in Ops, b \in Actors : pos'[q][b] =
           IF q = o /\ b = "worker" THEN "Enter" ELSE pos[q][b]
    BY <1>4, GotoFacts DEF TimeOut, Actors, Steps
  <2> QED BY <1>4, <2>1 DEF TimeOut, op, TypeInv, SettledInv, Calling, Actors
<1>5. ASSUME NEW o \in Ops, Outcome(o) PROVE SettledInv(p)'
  <2>1. CASE p # o
    BY <1>5, <2>1 DEF Outcome, op, TypeInv, SettledInv, Calling
  <2>2. CASE p = o
    <3>1. SUFFICES ASSUME Verdict(o) = "success", kind[o] # "subscribe"
                   PROVE  SettledInv(o)'
      BY <1>5, <2>2 DEF Outcome, op, TypeInv, SettledInv
    <3>2. ~state[o].failed /\ ~state[o].closed /\ state[o].complete /\ (kind[o] = "read" => state[o].value)
      BY <1>5, <2>2, <3>1 DEF Outcome, Verdict, ClientInv, AnswerInv, Completed, Open
    <3>3. client[o] \in {"Done", "None"} /\ ~Calling(o) /\ "bad" \notin ToSet(heard[o])
      BY <2>2, <3>1, <3>2 DEF AnswerInv
    <3>4. kind[o] = "command" => heard[o] = <<"ok">> \o Handing(o) /\ Handing(o) = <<>>
      BY <2>2, <3>2, <3>3 DEF AnswerInv, Handing
    <3>5. kind[o] = "command" => heard[o] = <<"ok">>
      BY <3>4
    <3> QED BY <1>5, <2>2, <3>1, <3>2, <3>3, <3>5 DEF Outcome, op, SettledInv, AnswerInv, Calling
  <2> QED BY <2>1, <2>2
<1>6. ASSUME NEW o \in Ops, Register(o) PROVE SettledInv(p)'
  <2>1. \A q \in Ops, b \in Actors : pos'[q][b] =
           IF q = o /\ b = "worker" THEN "Over" ELSE pos[q][b]
    BY <1>6, GotoFacts DEF Register, Actors, Steps
  <2> QED BY <1>6, <2>1 DEF Register, op, TypeInv, SettledInv, Calling, Actors
<1>7. ASSUME NEW o \in Ops, Return(o) PROVE SettledInv(p)'
  <2>1. \A q \in Ops, b \in Actors : pos'[q][b] =
           IF q = o /\ b = "worker" THEN "Over" ELSE pos[q][b]
    BY <1>7, GotoFacts DEF Return, Actors, Steps
  <2> QED BY <1>7, <2>1 DEF Return, op, TypeInv, SettledInv, Calling, Actors
<1>8. ASSUME NEW o \in Ops, UserCloses(o) PROVE SettledInv(p)'
  <2>1. \A q \in Ops, b \in Actors : pos'[q][b] =
           IF q = o /\ b = "user" THEN (IF closer = "Idle" THEN "Enter" ELSE "Over")
           ELSE pos[q][b]
    BY <1>8, GotoFacts DEF UserCloses, Actors, Steps
  <2> QED BY <1>8, <2>1 DEF UserCloses, op, TypeInv, SettledInv, Calling, Actors
<1>9. ASSUME NEW o \in Ops, UserErases(o) PROVE SettledInv(p)'
  <2>1. \A q \in Ops, b \in Actors : pos'[q][b] =
           IF q = o /\ b = "user" THEN "Over" ELSE pos[q][b]
    BY <1>9, GotoFacts DEF UserErases, Actors, Steps
  <2> QED BY <1>9, <2>1 DEF UserErases, op, TypeInv, SettledInv, Calling, Actors
<1>10. ASSUME NEW o \in Ops, NEW a \in Actors, CloseEnter(o, a) PROVE SettledInv(p)'
  <2>1. \A q \in Ops, b \in Actors : pos'[q][b] =
           IF q = o /\ b = a THEN (IF kind[o] \in Readers /\ state[o].closed THEN "Left" ELSE "Stack")
           ELSE pos[q][b]
    BY <1>10, GotoFacts DEF CloseEnter, Actors, Steps
  <2> QED BY <1>10, <2>1 DEF CloseEnter, op, TypeInv, SettledInv, Calling, Actors
<1>11. ASSUME NEW o \in Ops, NEW a \in Actors, CloseClient(o, a) PROVE SettledInv(p)'
  <2>1. \A q \in Ops, b \in Actors : pos'[q][b] =
           IF q = o /\ b = a THEN (IF kind[o] \in Readers THEN "Mark" ELSE "Left")
           ELSE pos[q][b]
    BY <1>11, GotoFacts DEF CloseClient, Actors, Steps
  <2> QED BY <1>11, <2>1 DEF CloseClient, op, TypeInv, SettledInv, Calling, Actors
<1>12. ASSUME NEW o \in Ops, NEW a \in Actors, CloseMark(o, a) PROVE SettledInv(p)'
  <2>1. \A q \in Ops, b \in Actors : pos'[q][b] =
           IF q = o /\ b = a THEN "Left" ELSE pos[q][b]
    BY <1>12, GotoFacts DEF CloseMark, Actors, Steps
  <2> QED BY <1>12, <2>1 DEF CloseMark, op, TypeInv, SettledInv, Calling, Actors
<1>13. ASSUME NEW o \in Ops, NEW e \in Events, Callback(o, e) PROVE SettledInv(p)'
  BY <1>13 DEF Callback, op, TypeInv, SettledInv, Calling, Actors, Possible
<1>14. CASE CallbackReturns
  BY <1>14 DEF CallbackReturns, op, TypeInv, SettledInv, Calling, Actors
<1>15. CASE BeginShutdown
  BY <1>15 DEF BeginShutdown, op, TypeInv, SettledInv, Calling, Actors
<1>16. CASE CloseBegins
  BY <1>16 DEF CloseBegins, op, TypeInv, SettledInv, Calling, Actors
<1>17. CASE CloseClears
  BY <1>17 DEF CloseClears, op, TypeInv, SettledInv, Calling, Actors
<1>18. CASE ShutDown
  BY <1>18 DEF ShutDown, op, TypeInv, SettledInv, Calling, Actors
<1> QED BY <1>0, <1>1, <1>2, <1>3, <1>4, <1>5, <1>6, <1>7, <1>8, <1>9, <1>10, <1>11, <1>12, <1>13,
           <1>14, <1>15, <1>16, <1>17, <1>18 DEF Next, Worker, Closes, Closer, Actors

-----------------------------------------------------------------------------
(* The inductive invariant, and what it gives.                              *)

\* Init establishes the invariant.
LEMMA IInvInit == Init => IInv
<1> SUFFICES ASSUME Init PROVE IInv
  OBVIOUS
<1>1. TypeInv
  BY MixAssumption DEF Init, TypeInv, Actors, Steps, State
<1>2. ShutdownInv
  BY DEF Init, ShutdownInv
<1>3. ASSUME NEW o \in Ops PROVE OpInv(o)
  <2>1. ToSet(<<>>) = {}
    BY DEF ToSet
  <2>2. HoldInv(o) /\ MarkInv(o) /\ ClientInv(o) /\ LoopInv(o)
    BY DEF Init, HoldInv, MarkInv, ClientInv, LoopInv, Open, Calling, Actors
  <2>3. AnswerInv(o) /\ SettledInv(o) /\ Len(heard[o]) <= MaxAnswers
    BY <2>1, AnswersAssumption DEF Init, AnswerInv, SettledInv, Calling, Handing, Actors
  <2> QED BY <2>2, <2>3 DEF OpInv
<1> QED BY <1>1, <1>2, <1>3 DEF IInv

\* Every step keeps it.
LEMMA IInvStep == IInv /\ [Next]_vars => IInv'
<1> SUFFICES ASSUME IInv, [Next]_vars PROVE IInv'
  OBVIOUS
<1>1. TypeInv /\ TypeInv'
  BY TypeStep DEF IInv
<1>2. ShutdownInv'
  BY <1>1, ShutdownStep DEF IInv, OpInv
<1>3. ASSUME NEW o \in Ops PROVE OpInv(o)'
  <2>1. HoldInv(o) /\ MarkInv(o) /\ ClientInv(o) /\ LoopInv(o) /\ AnswerInv(o) /\ SettledInv(o) /\ ShutdownInv
        /\ Len(heard[o]) <= MaxAnswers
    BY DEF IInv, OpInv
  <2> QED BY <1>1, <2>1, HoldStep, MarkStep, ClientStep, LoopStep, AnswerStep, SettledStep,
             BoundStep DEF OpInv
<1> QED BY <1>1, <1>2, <1>3 DEF IInv

\* The inductive invariant holds throughout.
THEOREM Inductive == Spec => []IInv
  BY IInvInit, IInvStep, PTL DEF Spec

\* The types, and the bound on the answers.
THEOREM TypeCorrect == Spec => []TypeOK
<1>1. ASSUME IInv PROVE TypeOK
  <2>1. ASSUME NEW o \in Ops PROVE heard[o] \in BoundedSeq({"ok", "bad"}, MaxAnswers)
    <3>1. heard[o] \in Seq({"ok", "bad"}) /\ Len(heard[o]) <= MaxAnswers
      BY <1>1 DEF IInv, TypeInv, OpInv
    <3>2. Len(heard[o]) \in 0 .. MaxAnswers /\ heard[o] \in [1 .. Len(heard[o]) -> {"ok", "bad"}]
      BY <3>1, AnswersAssumption
    <3> QED BY <3>2 DEF BoundedSeq, SeqOf
  <2> QED BY <1>1, <2>1 DEF IInv, TypeInv, TypeOK
<1> QED BY <1>1, Inductive, PTL

\* The event loop is never in a state object that has been destroyed: an operation that timed
\* out, was canceled or failed outlives every callback of its client.
THEOREM CallbacksFindTheirState == Spec => []CallbackFindsState
<1>1. ASSUME IInv PROVE CallbackFindsState
  <2>1. loop # <<>> => loop[1] \in Ops
    BY <1>1 DEF IInv, TypeInv
  <2> QED BY <1>1, <2>1 DEF IInv, OpInv, HoldInv, LoopInv, Calling, Working, CallbackFindsState
<1> QED BY <1>1, Inductive, PTL

\* Native work never outlives its lease: while the client of an operation can still be called,
\* the operation holds its lease or has returned it as an open, listed subscription.
THEOREM LeasesCoverClients == Spec => []LeaseCoversClient
<1>1. IInv => LeaseCoversClient
  BY DEF IInv, OpInv, HoldInv, ClientInv, Open, Working, LeaseCoversClient
<1> QED BY <1>1, Inductive, PTL

\* After Close nothing is left for the event loop to call.
THEOREM ShutdownIsFinal == Spec => []NothingAfterShutdown
<1>1. IInv => NothingAfterShutdown
  BY DEF IInv, OpInv, HoldInv, ClientInv, ShutdownInv, Open, Working, NothingAfterShutdown
<1> QED BY <1>1, Inductive, PTL

\* No thread waits for the stack lock with the mutex the event loop needs to release it.
THEOREM LoopReturns == Spec => []LoopIsNotBlocked
<1>1. ASSUME IInv PROVE LoopIsNotBlocked
  <2>1. loop # <<>> => loop[1] \in Ops
    BY <1>1 DEF IInv, TypeInv
  <2> QED BY <1>1, <2>1 DEF IInv, OpInv, HoldInv, LoopIsNotBlocked
<1> QED BY <1>1, Inductive, PTL

\* Success is what the device said, in whatever order answers, errors and ends came.
THEOREM SuccessMeansAnswered == Spec => []SuccessIsAnswered
<1>1. IInv => SuccessIsAnswered
  BY DEF IInv, OpInv, SettledInv, SuccessIsAnswered
<1> QED BY <1>1, Inductive, PTL

=============================================================================
