------------------------ MODULE Subscription_proofs ------------------------
(***************************************************************************)
(* Proofs about Subscription for any set of handlers, any bound of the      *)
(* queue and any number of reports.                                         *)
(*                                                                          *)
(* Until drains derail, the reports at hand are one sequence, part of it in *)
(* the batch of the thread that drains, part in the queue, or the one the   *)
(* event loop is raising (DrainInv, ChipInv, QueueInv); what a handler has  *)
(* received is continued by that sequence, whoever raises it and however    *)
(* far the event in progress has come (HandlerInv).  The count falls behind *)
(* the handlers by no more than the revocations of tokens that are not      *)
(* registered (CountInv), so that drains derail only after one.  Whether    *)
(* they have or not, the event loop, the queue and the batches have no      *)
(* report in common, and none that the handler it is ahead for has received *)
(* (PlacesInv, OnceInv).                                                    *)
(***************************************************************************)
EXTENDS Subscription, FiniteSetTheorems, SequenceTheorems, TLAPS

TypeInv ==
    /\ attached \subseteq Handlers
    /\ count \in Nat
    /\ draining \in BOOLEAN
    /\ pending \in Seq(Nat)
    /\ open \in BOOLEAN /\ closer \in {"Idle", "Closing", "Refused", "Done"}
    /\ adder \in [Handlers -> {"Out", "Raising", "In", "Failed"}]
    /\ batch \in [Handlers -> Seq(Nat)]
    /\ failed \in [Handlers -> BOOLEAN]
    /\ sentReports \in Nat /\ arriving \in Nat
    /\ calls \in [Raisers -> SUBSET Handlers]
    /\ received \in [Handlers -> Seq(Nat)]
    /\ dropped \subseteq Nat
    /\ stale \in Nat /\ derailed \in BOOLEAN

\* The handlers registered are those whose thread has attached them.  The count misses one
\* for every token at most that was revoked without being registered.
CountInv ==
    /\ attached = {h \in Handlers : adder[h] # "Out"}
    /\ ~derailed => count <= Cardinality(attached) /\ Cardinality(attached) <= count + stale
    /\ derailed => stale > 0

\* A thread that drains has a batch, and raises to handlers out of it.
CallsInv ==
    /\ \A h \in Handlers :
         /\ batch[h] # <<>> => adder[h] = "Raising"
         /\ calls[h] # {} => batch[h] # <<>>
    /\ calls[Chip] # {} => arriving # 0

\* One thread drains at most, while the flag says so.
DrainInv ==
    /\ \A g, h \in Handlers : adder[g] = "Raising" /\ adder[h] = "Raising" => g = h
    /\ draining <=> \E h \in Handlers : adder[h] = "Raising"

\* A report is raised at once only when nothing is queued or drained before it.
ChipInv ==
    /\ arriving # 0 => pending = <<>> /\ \A h \in Handlers : batch[h] = <<>>
    /\ count # 0 /\ ~draining => pending = <<>>

\* n is the next report to raise after m: those between were dropped by a full queue.
Follows(m, n, gaps) == m < n /\ m + 1 .. n - 1 \subseteq gaps

\* Nothing but dropped reports has come in since m.
Newest(m) == m <= sentReports /\ (open => m + 1 .. sentReports \subseteq dropped)

\* After m the queue comes next.
Continues(m) == IF pending # <<>> THEN Follows(m, Head(pending), dropped) ELSE Newest(m)

InOrder(s, gaps) == \A i \in 2 .. Len(s) : Follows(s[i - 1], s[i], gaps)

\* The reports of a batch, of the queue and to come are one sequence.
QueueInv ==
    /\ InOrder(pending, dropped) /\ (pending # <<>> => Newest(Last(pending)))
    /\ \A h \in Handlers : InOrder(batch[h], dropped) /\ (batch[h] # <<>> => Continues(Last(batch[h])))
    /\ arriving # 0 => Newest(arriving)

\* Handlers that are registered, or that an event being raised has still to call.
Live(h) == h \in attached \/ \E r \in Raisers : h \in calls[r]

\* The report being raised: a handler has yet to be called with it or has just received it.
Raised(h, m, r, n) == IF calls[r] = {} \/ h \in calls[r] THEN Follows(m, n, dropped) ELSE m = n

\* After report m a handler receives the rest of what is at hand.
Goes(h, m) ==
    /\ \A d \in Handlers : batch[d] # <<>> => Raised(h, m, d, Head(batch[d]))
    /\ arriving # 0 => Raised(h, m, Chip, arriving)
    /\ (arriving = 0 /\ \A d \in Handlers : batch[d] = <<>>) => Continues(m)

\* What a handler has received is in order and goes on so.
HandlerInv(h) ==
    /\ InOrder(received[h], dropped)
    /\ Live(h) /\ received[h] # <<>> => Goes(h, Last(received[h]))

OrderInv == DrainInv /\ ChipInv /\ QueueInv /\ \A h \in Handlers : HandlerInv(h)

\* The elements of a sequence, and that it has none twice.
Elems(s) == {s[i] : i \in 1 .. Len(s)}
Distinct(s) == \A i, j \in 1 .. Len(s) : s[i] = s[j] => i = j

\* What of the batch of h is still to be raised to k.
Ahead(k, h) == IF calls[h] = {} \/ k \in calls[h] THEN Elems(batch[h]) ELSE Elems(Tail(batch[h]))

\* The places a report may be raised from have none in common,
PlacesInv ==
    /\ Distinct(pending) /\ Elems(pending) \subseteq 1 .. sentReports
    /\ \A h \in Handlers :
         /\ Distinct(batch[h]) /\ Elems(batch[h]) \subseteq 1 .. sentReports
         /\ Elems(batch[h]) \cap Elems(pending) = {}
         /\ \A g \in Handlers : g # h => Elems(batch[g]) \cap Elems(batch[h]) = {}
    /\ arriving # 0 =>
         /\ arriving \in 1 .. sentReports /\ arriving \notin Elems(pending)
         /\ \A h \in Handlers : arriving \notin Elems(batch[h])

\* and none of what they have ahead for a handler has been received by it.
OnceInv(k) ==
    /\ Distinct(received[k]) /\ Elems(received[k]) \subseteq 1 .. sentReports
    /\ Elems(received[k]) \cap Elems(pending) = {}
    /\ \A h \in Handlers : Elems(received[k]) \cap Ahead(k, h) = {}
    /\ arriving # 0 /\ (calls[Chip] = {} \/ k \in calls[Chip]) => arriving \notin Elems(received[k])

IInv ==
    /\ TypeInv /\ CountInv /\ CallsInv
    /\ PlacesInv /\ \A k \in Handlers : OnceInv(k)
    /\ ~derailed => OrderInv

-----------------------------------------------------------------------------
(* Facts about sequences of reports.                                        *)

\* Where a sequence that one more report is put at the end of begins and ends.
LEMMA AppendEnds ==
  ASSUME NEW s \in Seq(Nat), NEW n \in Nat
  PROVE  /\ Append(s, n) \in Seq(Nat) /\ Append(s, n) # <<>>
         /\ Last(Append(s, n)) = n
         /\ Head(Append(s, n)) = IF s = <<>> THEN n ELSE Head(s)
<1>1. /\ Append(s, n) \in Seq(Nat) /\ Append(s, n) # <<>> /\ Len(Append(s, n)) = Len(s) + 1
      /\ \A i \in 1 .. Len(s) : Append(s, n)[i] = s[i]
      /\ Append(s, n)[Len(s) + 1] = n
  BY AppendProperties
<1>2. s # <<>> => Head(s) = s[1] /\ 1 \in 1 .. Len(s)
  OBVIOUS
<1> QED BY <1>1, <1>2 DEF Last

\* Where the rest of a sequence begins and ends.
LEMMA TailEnds ==
  ASSUME NEW s \in Seq(Nat), s # <<>>
  PROVE  /\ Tail(s) \in Seq(Nat) /\ Len(Tail(s)) = Len(s) - 1 /\ Len(s) \in Nat \ {0}
         /\ Head(s) \in Nat /\ Last(s) \in Nat
         /\ Tail(s) # <<>> => Last(Tail(s)) = Last(s) /\ Head(Tail(s)) = s[2] /\ Len(s) >= 2
         /\ Tail(s) = <<>> => Last(s) = Head(s)
<1>1. /\ Tail(s) \in Seq(Nat) /\ Len(Tail(s)) = Len(s) - 1 /\ Len(s) \in Nat \ {0}
      /\ \A i \in 1 .. Len(s) - 1 : Tail(s)[i] = s[i + 1]
      /\ Head(s) = s[1] /\ Head(s) \in Nat
  OBVIOUS
<1>2. Last(s) = s[Len(s)] /\ Last(s) \in Nat
  BY <1>1 DEF Last
<1>3. ASSUME Tail(s) # <<>> PROVE Last(Tail(s)) = Last(s) /\ Head(Tail(s)) = s[2] /\ Len(s) >= 2
  <2>1. Len(s) >= 2 /\ Head(Tail(s)) = Tail(s)[1] /\ Last(Tail(s)) = Tail(s)[Len(s) - 1]
    BY <1>1, <1>3 DEF Last
  <2> QED BY <1>1, <1>2, <2>1
<1>4. ASSUME Tail(s) = <<>> PROVE Last(s) = Head(s)
  <2>1. \A t : t = <<>> => Len(t) = 0
    OBVIOUS
  <2>2. Len(Tail(s)) = 0
    BY <1>4, <2>1, Zenon
  <2>3. \A n, m : m \in Nat /\ n = m - 1 /\ n = 0 => m = 1
    OBVIOUS
  <2>4. Len(s) = 1
    BY <1>1, <2>2, <2>3, Zenon
  <2> QED BY <1>1, <1>2, <2>4
<1> QED BY <1>1, <1>2, <1>3, <1>4

\* Gaps may grow.
LEMMA GapsGrow ==
  ASSUME NEW D, NEW E, D \subseteq E
  PROVE  /\ \A m, n \in Nat : Follows(m, n, D) => Follows(m, n, E)
         /\ \A s \in Seq(Nat) : InOrder(s, D) => InOrder(s, E)
  BY DEF Follows, InOrder

\* Two gaps with a dropped report between them are one.
LEMMA GapsJoin ==
  ASSUME NEW D, NEW k \in Nat, NEW m \in D \cap Nat, NEW n \in Nat, Follows(k, m, D), Follows(m, n, D)
  PROVE  Follows(k, n, D)
  BY DEF Follows

\* A sequence in order goes on with a report that follows its last.
LEMMA InOrderAppend ==
  ASSUME NEW D, NEW s \in Seq(Nat), NEW n \in Nat, InOrder(s, D),
         s # <<>> => Follows(Last(s), n, D)
  PROVE  InOrder(Append(s, n), D)
<1>1. /\ Len(Append(s, n)) = Len(s) + 1 /\ Len(s) \in Nat
      /\ \A i \in 1 .. Len(s) : Append(s, n)[i] = s[i]
      /\ Append(s, n)[Len(s) + 1] = n
  OBVIOUS
<1>2. ASSUME NEW i \in 2 .. Len(s) + 1 PROVE Follows(Append(s, n)[i - 1], Append(s, n)[i], D)
  <2>1. CASE i \in 2 .. Len(s)
    BY <1>1, <2>1 DEF InOrder
  <2>2. CASE i = Len(s) + 1
    <3>1. Len(s) # 0 /\ i - 1 = Len(s) /\ i - 1 \in 1 .. Len(s)
      BY <1>1, <2>2
    <3>2. s # <<>> /\ Last(s) = s[Len(s)]
      BY <3>1 DEF Last
    <3> QED BY <1>1, <2>2, <3>1, <3>2
  <2> QED BY <1>1, <2>1, <2>2
<1> QED BY <1>1, <1>2 DEF InOrder

\* The rest of a sequence in order follows its first.
LEMMA InOrderTail ==
  ASSUME NEW D, NEW s \in Seq(Nat), s # <<>>, InOrder(s, D)
  PROVE  /\ InOrder(Tail(s), D)
         /\ Tail(s) # <<>> => Follows(Head(s), Head(Tail(s)), D)
<1>1. /\ Len(Tail(s)) = Len(s) - 1 /\ Len(s) \in Nat \ {0}
      /\ \A i \in 1 .. Len(s) - 1 : Tail(s)[i] = s[i + 1]
  OBVIOUS
<1>2. InOrder(Tail(s), D)
  BY <1>1 DEF InOrder
<1>3. ASSUME Tail(s) # <<>> PROVE Follows(s[1], s[2], D)
  BY <1>1, <1>3, TailEnds DEF InOrder
<1> QED BY <1>2, <1>3, TailEnds

-----------------------------------------------------------------------------
(* The steps, and what each invariant needs of the others.                  *)

\* The steps of a handler's thread and of the event loop.
HandlerStep(h) ==
    \/ AddHandler(h) \/ RaiseBatch(h) \/ (\E g \in Handlers : CallBatch(h, g)) \/ NextBatch(h)
    \/ RemoveFailed(h) \/ RemoveHandler(h) \/ CallPublished(h)

\* A step is Publish, an event being raised, the close, or one of a handler's thread.
LEMMA StepCases ==
  ASSUME [Next]_vars
  PROVE  \/ Publish \/ RaisePublished \/ RemoveStale \/ TakeClose \/ CallClose \/ RefuseClose \/ UNCHANGED vars
         \/ \E h \in Handlers : HandlerStep(h)
  BY DEF Next, ChipRuns, Drain, HandlerStep

\* The count is no more than the handlers, and far from the greatest size_t.
LEMMA Counting ==
  ASSUME TypeInv, CountInv
  PROVE  /\ IsFiniteSet(attached) /\ Cardinality(attached) \in Nat
         /\ ~derailed => count < SizeMax /\ (attached = {} => count = 0)
<1>1. IsFiniteSet(attached) /\ Cardinality(attached) <= Cardinality(Handlers)
  BY HandlersAssumption, FS_Subset DEF TypeInv
<1>2. Cardinality(attached) \in Nat /\ Cardinality(Handlers) \in Nat
  BY <1>1, HandlersAssumption, FS_CardinalityType
<1>3. attached = {} => Cardinality(attached) = 0
  BY FS_EmptySet
<1>4. ASSUME ~derailed PROVE count < SizeMax /\ (attached = {} => count = 0)
  <2>1. count <= Cardinality(attached) /\ count \in Nat /\ SizeMax \in Nat /\ Cardinality(Handlers) < SizeMax
    BY <1>4, HandlersAssumption DEF CountInv, TypeInv
  <2> QED BY <1>1, <1>2, <1>3, <2>1
<1> QED BY <1>1, <1>2, <1>4

\* Until drains derail, a handler is counted and drains if it is the first.
LEMMA Adding ==
  ASSUME TypeInv, CountInv, NEW h \in Handlers, AddHandler(h), ~derailed'
  PROVE  /\ ~derailed /\ count' = count + 1
         /\ count > 0 => adder' = [adder EXCEPT ![h] = "In"] /\ UNCHANGED <<draining, batch, pending>>
         /\ ~(count > 0) => ~draining /\ BeginDrain(h)
<1>1. ~derailed
  BY DEF AddHandler, BeginDrain
<1>2. count < SizeMax /\ count \in Nat /\ count' = Up(count)
  BY <1>1, Counting DEF AddHandler, TypeInv
<1>3. count' = count + 1 /\ (count' > 1 <=> count > 0)
  BY <1>2, HandlersAssumption DEF Up
<1> QED BY <1>1, <1>3 DEF AddHandler, TypeInv

\* Every step keeps the types.
LEMMA TypeStep ==
  ASSUME TypeInv, CallsInv, [Next]_vars
  PROVE  TypeInv'
<1>0. CASE UNCHANGED vars
  BY <1>0 DEF vars, TypeInv
<1>1. CASE Publish
  <2>1. ASSUME NEW s \in Seq(Nat),
               s = IF Len(pending) = kMaximumPendingReports THEN Tail(pending) ELSE pending
        PROVE  Append(s, sentReports + 1) \in Seq(Nat)
    BY <2>1, AppendEnds DEF TypeInv
  <2>2. (IF Len(pending) = kMaximumPendingReports THEN Tail(pending) ELSE pending) \in Seq(Nat)
    <3>1. Len(pending) = kMaximumPendingReports => pending # <<>>
      BY PendingAssumption, EmptySeq
    <3> QED BY <3>1, TailEnds DEF TypeInv
  <2>3. Len(pending) = kMaximumPendingReports => Head(pending) \in Nat
    <3>1. Len(pending) = kMaximumPendingReports => pending # <<>>
      BY PendingAssumption, EmptySeq
    <3> QED BY <3>1, TailEnds DEF TypeInv
  <2>4. sentReports' = sentReports + 1 /\ sentReports' \in Nat
    BY <1>1 DEF Publish, TypeInv
  <2>5. pending' \in Seq(Nat) /\ dropped' \subseteq Nat /\ arriving' \in Nat
    <3>1. CASE ~open
      BY <1>1, <3>1 DEF Publish, TypeInv
    <3>2. CASE open /\ (count = 0 \/ draining)
      BY <1>1, <3>2, <2>1, <2>2, <2>3, <2>4 DEF Publish, TypeInv
    <3>3. CASE open /\ ~(count = 0 \/ draining)
      BY <1>1, <3>3, <2>4 DEF Publish, TypeInv
    <3> QED BY <3>1, <3>2, <3>3
  <2> QED BY <1>1, <2>4, <2>5 DEF Publish, TypeInv, history
<1>2. CASE RaisePublished
  BY <1>2 DEF RaisePublished, TypeInv, history, Raisers
<1>3. ASSUME NEW h \in Handlers, CallPublished(h) PROVE TypeInv'
  <2>1. Append(received[h], arriving) \in Seq(Nat)
    BY AppendEnds DEF TypeInv
  <2> QED BY <1>3, <2>1 DEF CallPublished, TypeInv, history, Raisers
<1>4. ASSUME NEW h \in Handlers, AddHandler(h) PROVE TypeInv'
  <2>1. adder' \in [Handlers -> {"Out", "Raising", "In", "Failed"}]
    BY <1>4 DEF AddHandler, BeginDrain, TypeInv
  <2>2. batch' \in [Handlers -> Seq(Nat)] /\ draining' \in BOOLEAN /\ derailed' \in BOOLEAN
    BY <1>4 DEF AddHandler, BeginDrain, TypeInv
  <2>3. pending' \in Seq(Nat)
    BY <1>4, EmptySeq DEF AddHandler, BeginDrain, TypeInv
  <2>4. received' \in [Handlers -> Seq(Nat)]
    BY <1>4, EmptySeq DEF AddHandler, TypeInv
  <2>5. count' \in Nat
    BY <1>4, HandlersAssumption DEF AddHandler, Up, TypeInv
  <2> QED BY <1>4, <2>1, <2>2, <2>3, <2>4, <2>5 DEF AddHandler, TypeInv
<1>5. ASSUME NEW h \in Handlers, RaiseBatch(h) PROVE TypeInv'
  <2>1. Tail(batch[h]) \in Seq(Nat)
    BY <1>5, TailEnds DEF RaiseBatch, TypeInv
  <2> QED BY <1>5, <2>1 DEF RaiseBatch, TypeInv, history, Raisers
<1>6. ASSUME NEW h \in Handlers, NEW g \in Handlers, CallBatch(h, g) PROVE TypeInv'
  <2>1. batch[h] # <<>> /\ batch[h] \in Seq(Nat)
    BY <1>6 DEF CallBatch, CallsInv, TypeInv
  <2>2. Tail(batch[h]) \in Seq(Nat) /\ Head(batch[h]) \in Nat
    BY <2>1, TailEnds
  <2>3. Append(received[g], Head(batch[h])) \in Seq(Nat)
    BY <2>2, AppendEnds DEF TypeInv
  <2>4. PICK error \in BOOLEAN : failed' = [failed EXCEPT ![h] = failed[h] \/ error]
    BY <1>6 DEF CallBatch
  <2>5. failed' \in [Handlers -> BOOLEAN]
    BY <2>4 DEF TypeInv
  <2> QED BY <1>6, <2>2, <2>3, <2>5 DEF CallBatch, TypeInv, history, Raisers
<1>7. ASSUME NEW h \in Handlers, NextBatch(h) PROVE TypeInv'
  <2>1. adder' \in [Handlers -> {"Out", "Raising", "In", "Failed"}]
    BY <1>7 DEF NextBatch, TypeInv
  <2>2. batch' \in [Handlers -> Seq(Nat)] /\ draining' \in BOOLEAN
    BY <1>7 DEF NextBatch, TypeInv
  <2>3. pending' \in Seq(Nat)
    BY <1>7, EmptySeq DEF NextBatch, TypeInv
  <2> QED BY <1>7, <2>1, <2>2, <2>3 DEF NextBatch, TypeInv, history
<1>8. ASSUME NEW h \in Handlers, RemoveFailed(h) \/ RemoveHandler(h) PROVE TypeInv'
  <2>1. derailed' \in BOOLEAN /\ stale' = stale
    BY <1>8 DEF RemoveFailed, RemoveHandler, history, TypeInv
  <2>2. count' \in Nat
    BY <1>8, HandlersAssumption DEF RemoveFailed, RemoveHandler, Down, TypeInv
  <2>3. adder' \in [Handlers -> {"Out", "Raising", "In", "Failed"}] /\ failed' \in [Handlers -> BOOLEAN]
    BY <1>8 DEF RemoveFailed, RemoveHandler, TypeInv
  <2> QED BY <1>8, <2>1, <2>2, <2>3 DEF RemoveFailed, RemoveHandler, TypeInv
<1>9. CASE TakeClose \/ CallClose \/ RefuseClose \/ RemoveStale
  <2>1. CASE RemoveStale
    <3>1. count' \in Nat /\ stale' \in Nat
      BY <2>1 DEF RemoveStale, TypeInv
    <3> QED BY <2>1, <3>1 DEF RemoveStale, TypeInv
  <2> QED BY <1>9, <2>1 DEF TakeClose, CallClose, RefuseClose, TypeInv, history
<1> QED
  BY <1>0, <1>1, <1>2, <1>3, <1>4, <1>5, <1>6, <1>7, <1>8, <1>9, StepCases DEF HandlerStep

\* The count follows the handlers, and misses no more than was revoked in vain: a drain
\* begins beside another, and the count passes below zero, only after that.
LEMMA CountStep ==
  ASSUME TypeInv, CountInv, ~derailed => DrainInv, [Next]_vars
  PROVE  CountInv'
<1>0. IsFiniteSet(attached) /\ Cardinality(attached) \in Nat /\ count \in Nat /\ stale \in Nat
  BY Counting DEF TypeInv
<1>1. ASSUME NEW h \in Handlers, AddHandler(h) PROVE CountInv'
  <2>1. h \notin attached /\ attached' = attached \cup {h} /\ stale' = stale
    BY <1>1 DEF AddHandler, CountInv
  <2>2. Cardinality(attached') = Cardinality(attached) + 1
    BY <1>0, <2>1, FS_AddElement
  <2>3. adder'[h] # "Out" /\ \A g \in Handlers : g # h => adder'[g] = adder[g]
    BY <1>1 DEF AddHandler, BeginDrain, TypeInv
  <2>4. attached' = {g \in Handlers : adder'[g] # "Out"}
    BY <2>1, <2>3 DEF CountInv
  <2>5. ASSUME ~derailed' PROVE count' <= Cardinality(attached') /\ Cardinality(attached') <= count' + stale'
    <3>1. ~derailed /\ count' = count + 1
      BY <1>1, <2>5, Adding
    <3> QED BY <1>0, <2>1, <2>2, <3>1 DEF CountInv
  <2>6. ASSUME derailed' PROVE stale' > 0
    <3>1. CASE derailed
      BY <2>1, <3>1 DEF CountInv
    <3>2. CASE ~derailed
      <4>1. count < SizeMax /\ SizeMax \in Nat /\ count' = Up(count)
        BY <1>1, <3>2, Counting, HandlersAssumption DEF AddHandler
      <4>2. ~(count' > 1) => count = 0
        BY <1>0, <4>1 DEF Up
      <4>3. draining /\ count = 0
        <5>1. ~(count' > 1) /\ derailed' = (derailed \/ draining)
          BY <1>1, <2>6, <3>2 DEF AddHandler
        <5> QED BY <2>6, <3>2, <4>2, <5>1
      <4>4. PICK g \in Handlers : adder[g] = "Raising"
        BY <3>2, <4>3 DEF DrainInv
      <4>5. g \in attached
        BY <4>4 DEF CountInv
      <4>6. Cardinality(attached) # 0
        BY <1>0, <4>5, FS_EmptySet
      <4> QED BY <1>0, <2>1, <3>2, <4>3, <4>6 DEF CountInv
    <3> QED BY <3>1, <3>2
  <2> QED BY <2>4, <2>5, <2>6 DEF CountInv
<1>2. ASSUME NEW h \in Handlers, RemoveFailed(h) \/ RemoveHandler(h) PROVE CountInv'
  <2>1. h \in attached /\ attached' = attached \ {h} /\ stale' = stale
    BY <1>2 DEF RemoveFailed, RemoveHandler, CountInv, history
  <2>2. Cardinality(attached') = Cardinality(attached) - 1
    BY <1>0, <2>1, FS_RemoveElement
  <2>3. Cardinality(attached) # 0
    BY <1>0, <2>1, FS_EmptySet
  <2>4. adder'[h] = "Out" /\ \A g \in Handlers : g # h => adder'[g] = adder[g]
    BY <1>2 DEF RemoveFailed, RemoveHandler, TypeInv
  <2>5. attached' = {g \in Handlers : adder'[g] # "Out"}
    BY <2>1, <2>4 DEF CountInv
  <2>6. ASSUME ~derailed' PROVE count' <= Cardinality(attached') /\ Cardinality(attached') <= count' + stale'
    <3>1. ~derailed /\ count' = IF count > 0 THEN count - 1 ELSE count
      <4>1. CASE RemoveHandler(h)
        BY <2>6, <4>1 DEF RemoveHandler, history
      <4>2. CASE RemoveFailed(h)
        <5>1. derailed' = (derailed \/ count = 0) /\ count' = Down(count)
          BY <4>2 DEF RemoveFailed
        <5>2. ~derailed /\ count # 0
          BY <2>6, <5>1
        <5> QED BY <1>0, <5>1, <5>2 DEF Down
      <4> QED BY <1>2, <4>1, <4>2
    <3> QED BY <1>0, <2>1, <2>2, <2>3, <3>1 DEF CountInv
  <2>7. ASSUME derailed' PROVE stale' > 0
    <3>1. derailed \/ count = 0
      BY <1>2, <2>7 DEF RemoveFailed, RemoveHandler, history
    <3> QED BY <1>0, <2>1, <2>3, <3>1 DEF CountInv
  <2> QED BY <2>5, <2>6, <2>7 DEF CountInv
<1>3. ASSUME NEW h \in Handlers, NextBatch(h) PROVE CountInv'
  <2>1. \A g \in Handlers : adder'[g] # "Out" <=> adder[g] # "Out"
    BY <1>3 DEF NextBatch, TypeInv
  <2> QED BY <1>3, <2>1 DEF NextBatch, CountInv, history
<1>4. CASE RemoveStale
  <2>1. UNCHANGED <<attached, adder, derailed>> /\ stale' = stale + 1 /\ count' = IF count > 0 THEN count - 1 ELSE count
    BY <1>4 DEF RemoveStale
  <2> QED BY <1>0, <2>1 DEF CountInv
<1>5. CASE UNCHANGED <<attached, count, adder, history>>
  BY <1>5 DEF CountInv, history
<1> QED
  BY <1>1, <1>2, <1>3, <1>4, <1>5, StepCases
  DEF HandlerStep, Publish, RaisePublished, TakeClose, CallClose, RefuseClose, vars, RaiseBatch, CallBatch,
      CallPublished, history

\* A handler is called with the report being raised.
LEMMA CallsStep ==
  ASSUME TypeInv, CountInv, CallsInv, [Next]_vars
  PROVE  CallsInv'
<1>1. ASSUME NEW h \in Handlers, AddHandler(h) PROVE CallsInv'
  <2>1. batch[h] = <<>> /\ calls[h] = {} /\ adder[h] = "Out" /\ UNCHANGED <<calls, arriving>>
    BY <1>1 DEF AddHandler, CallsInv
  <2>2. \A g \in Handlers : g # h => adder'[g] = adder[g] /\ batch'[g] = batch[g]
    BY <1>1 DEF AddHandler, BeginDrain, TypeInv
  <2>3. batch'[h] # <<>> => adder'[h] = "Raising"
    BY <1>1, <2>1 DEF AddHandler, BeginDrain, TypeInv
  <2> QED BY <2>1, <2>2, <2>3 DEF CallsInv
<1>2. ASSUME NEW h \in Handlers, RaiseBatch(h) PROVE CallsInv'
  <2>1. h \in attached
    BY <1>2 DEF RaiseBatch, CountInv
  <2>2. batch' = batch /\ adder' = adder /\ arriving' = arriving /\ batch[h] # <<>>
    BY <1>2, <2>1 DEF RaiseBatch
  <2>3. \A g \in Raisers : g # h => calls'[g] = calls[g]
    BY <1>2 DEF RaiseBatch, TypeInv, Raisers
  <2> QED BY <2>2, <2>3, ChipAssumption DEF CallsInv, Raisers
<1>3. ASSUME NEW h \in Handlers, NEW g \in Handlers, CallBatch(h, g) PROVE CallsInv'
  <2>1. adder' = adder /\ adder[h] = "Raising" /\ batch[h] # <<>> /\ arriving' = arriving
    BY <1>3 DEF CallBatch, CallsInv
  <2>2. \A k \in Raisers : k # h => calls'[k] = calls[k]
    BY <1>3 DEF CallBatch, TypeInv, Raisers
  <2>3. \A k \in Handlers : k # h => batch'[k] = batch[k]
    BY <1>3 DEF CallBatch, TypeInv
  <2>4. calls'[h] # {} => batch'[h] # <<>>
    BY <1>3, <2>1 DEF CallBatch, TypeInv, Raisers
  <2> QED BY <2>1, <2>2, <2>3, <2>4, ChipAssumption DEF CallsInv, Raisers
<1>4. ASSUME NEW h \in Handlers, NextBatch(h) PROVE CallsInv'
  <2>1. UNCHANGED <<calls, arriving>> /\ calls[h] = {} /\ batch[h] = <<>> /\ adder[h] = "Raising"
    BY <1>4 DEF NextBatch
  <2>2. \A g \in Handlers : g # h => adder'[g] = adder[g] /\ batch'[g] = batch[g]
    BY <1>4 DEF NextBatch, TypeInv
  <2>3. batch'[h] # <<>> => adder'[h] = "Raising"
    BY <1>4, <2>1 DEF NextBatch
  <2> QED BY <2>1, <2>2, <2>3 DEF CallsInv
<1>5. ASSUME NEW h \in Handlers, RemoveFailed(h) \/ RemoveHandler(h) PROVE CallsInv'
  <2>1. adder[h] # "Raising" /\ \A g \in Handlers : g # h => adder'[g] = adder[g]
    BY <1>5 DEF RemoveFailed, RemoveHandler, TypeInv
  <2>2. UNCHANGED <<batch, calls, arriving>>
    BY <1>5 DEF RemoveFailed, RemoveHandler
  <2> QED BY <2>1, <2>2 DEF CallsInv
<1>6. ASSUME NEW h \in Handlers, CallPublished(h) PROVE CallsInv'
  <2>1. UNCHANGED <<adder, batch>> /\ \A g \in Handlers : calls'[g] = calls[g]
    BY <1>6, ChipAssumption DEF CallPublished, TypeInv, Raisers
  <2>2. calls'[Chip] = calls[Chip] \ {h}
    BY <1>6 DEF CallPublished, TypeInv, Raisers
  <2> QED BY <1>6, <2>1, <2>2 DEF CallPublished, CallsInv
<1>7. CASE RaisePublished
  <2>1. UNCHANGED <<adder, batch>> /\ \A g \in Handlers : calls'[g] = calls[g]
    BY <1>7, ChipAssumption DEF RaisePublished, TypeInv, Raisers
  <2>2. calls'[Chip] = attached
    BY <1>7 DEF RaisePublished, TypeInv, Raisers
  <2> QED BY <1>7, <2>1, <2>2 DEF RaisePublished, CallsInv
<1>8. CASE Publish
  BY <1>8 DEF Publish, CallsInv
<1>9. CASE RemoveStale \/ TakeClose \/ CallClose \/ RefuseClose \/ UNCHANGED vars
  <2>1. UNCHANGED <<adder, batch, calls, arriving>>
    BY <1>9 DEF RemoveStale, TakeClose, CallClose, RefuseClose, vars
  <2> QED BY <2>1 DEF CallsInv
<1> QED BY <1>1, <1>2, <1>3, <1>4, <1>5, <1>6, <1>7, <1>8, <1>9, StepCases DEF HandlerStep

\* One thread drains at most.
LEMMA DrainStep ==
  ASSUME TypeInv, CountInv, DrainInv, ~derailed', [Next]_vars
  PROVE  DrainInv'
<1>1. ASSUME NEW h \in Handlers, AddHandler(h) PROVE DrainInv'
  <2>1. CASE count > 0
    <3>1. adder' = [adder EXCEPT ![h] = "In"] /\ draining' = draining /\ adder[h] = "Out"
      BY <1>1, <2>1, Adding DEF AddHandler
    <3>2. adder'[h] = "In" /\ \A g \in Handlers : g # h => adder'[g] = adder[g]
      BY <3>1 DEF TypeInv
    <3> QED BY <3>1, <3>2 DEF DrainInv
  <2>2. CASE ~(count > 0)
    <3>1. ~draining /\ BeginDrain(h)
      BY <1>1, <2>2, Adding
    <3>2. draining' /\ adder'[h] = "Raising" /\ \A g \in Handlers : g # h => adder'[g] = adder[g]
      BY <3>1 DEF BeginDrain, TypeInv
    <3> QED BY <3>1, <3>2 DEF DrainInv
  <2> QED BY <2>1, <2>2
<1>2. ASSUME NEW h \in Handlers, NextBatch(h) PROVE DrainInv'
  <2>1. adder[h] = "Raising"
    BY <1>2 DEF NextBatch
  <2>2. CASE pending = <<>>
    <3>1. adder'[h] # "Raising" /\ ~draining'
      BY <1>2, <2>2 DEF NextBatch, TypeInv
    <3>2. \A g \in Handlers : g # h => adder'[g] = adder[g]
      BY <1>2, <2>2 DEF NextBatch, TypeInv
    <3> QED BY <2>1, <3>1, <3>2 DEF DrainInv
  <2>3. CASE pending # <<>>
    <3>1. adder' = adder /\ draining' = draining
      BY <1>2, <2>3 DEF NextBatch
    <3> QED BY <3>1 DEF DrainInv
  <2> QED BY <2>2, <2>3
<1>3. ASSUME NEW h \in Handlers, RemoveFailed(h) \/ RemoveHandler(h) PROVE DrainInv'
  <2>1. adder[h] # "Raising" /\ adder'[h] # "Raising" /\ \A g \in Handlers : g # h => adder'[g] = adder[g]
    BY <1>3 DEF RemoveFailed, RemoveHandler, TypeInv
  <2>2. draining' = draining
    BY <1>3 DEF RemoveFailed, RemoveHandler
  <2> QED BY <2>1, <2>2 DEF DrainInv
<1>4. CASE UNCHANGED <<adder, draining>>
  BY <1>4 DEF DrainInv
<1> QED
  BY <1>1, <1>2, <1>3, <1>4, StepCases
  DEF HandlerStep, Publish, RaisePublished, RemoveStale, TakeClose, CallClose, RefuseClose, vars, RaiseBatch, CallBatch,
      CallPublished

\* A report is raised at once only when nothing is queued or drained before it.
LEMMA ChipStep ==
  ASSUME TypeInv, CountInv, CallsInv, DrainInv, ChipInv, ~derailed', [Next]_vars
  PROVE  ChipInv'
<1>1. CASE Publish
  <2>1. CASE ~open
    BY <1>1, <2>1 DEF Publish, ChipInv
  <2>2. CASE open /\ (count = 0 \/ draining)
    BY <1>1, <2>2 DEF Publish, ChipInv
  <2>3. CASE open /\ ~(count = 0 \/ draining)
    <3>1. pending = <<>> /\ \A h \in Handlers : batch[h] = <<>>
      BY <2>3 DEF ChipInv, CallsInv, DrainInv
    <3> QED BY <1>1, <2>3, <3>1 DEF Publish, ChipInv
  <2> QED BY <2>1, <2>2, <2>3
<1>2. CASE RaisePublished
  BY <1>2 DEF RaisePublished, ChipInv
<1>3. ASSUME NEW h \in Handlers, CallPublished(h) PROVE ChipInv'
  BY <1>3 DEF CallPublished, ChipInv
<1>4. ASSUME NEW h \in Handlers, AddHandler(h) PROVE ChipInv'
  <2>1. arriving' = arriving
    BY <1>4 DEF AddHandler
  <2>2. CASE count > 0
    <3>1. UNCHANGED <<draining, batch, pending>>
      BY <1>4, <2>2, Adding
    <3> QED BY <2>1, <2>2, <3>1 DEF ChipInv, TypeInv
  <2>3. CASE ~(count > 0)
    <3>1. BeginDrain(h)
      BY <1>4, <2>3, Adding
    <3>2. pending' = <<>> /\ \A g \in Handlers : batch'[g] = IF g = h THEN pending ELSE batch[g]
      BY <3>1 DEF BeginDrain, TypeInv
    <3> QED BY <2>1, <3>2 DEF ChipInv
  <2> QED BY <2>2, <2>3
<1>5. ASSUME NEW h \in Handlers, RaiseBatch(h) \/ \E g \in Handlers : CallBatch(h, g) PROVE ChipInv'
  <2>1. arriving = 0
    BY <1>5 DEF RaiseBatch, CallBatch, CallsInv, ChipInv
  <2> QED BY <1>5, <2>1 DEF RaiseBatch, CallBatch, ChipInv
<1>6. ASSUME NEW h \in Handlers, NextBatch(h) PROVE ChipInv'
  <2>1. UNCHANGED <<count, arriving>>
    BY <1>6 DEF NextBatch
  <2>2. CASE pending = <<>>
    BY <1>6, <2>1, <2>2 DEF NextBatch, ChipInv
  <2>3. CASE pending # <<>>
    <3>1. pending' = <<>> /\ arriving = 0
      BY <1>6, <2>3 DEF NextBatch, ChipInv
    <3> QED BY <2>1, <3>1 DEF ChipInv
  <2> QED BY <2>2, <2>3
<1>7. CASE RemoveStale \/ \E h \in Handlers : RemoveFailed(h) \/ RemoveHandler(h)
  <2>1. UNCHANGED <<arriving, batch, draining, pending>>
    BY <1>7 DEF RemoveStale, RemoveFailed, RemoveHandler
  <2>2. count' # 0 => count # 0
    <3>1. ASSUME NEW h \in Handlers, RemoveFailed(h) PROVE count # 0
      <4>1. derailed' = (derailed \/ count = 0)
        BY <3>1 DEF RemoveFailed
      <4> QED BY <4>1
    <3> QED BY <1>7, <3>1 DEF RemoveStale, RemoveHandler, TypeInv
  <2> QED BY <2>1, <2>2 DEF ChipInv
<1>8. CASE TakeClose \/ CallClose \/ RefuseClose \/ UNCHANGED vars
  BY <1>8 DEF TakeClose, CallClose, RefuseClose, vars, ChipInv
<1> QED BY <1>1, <1>2, <1>3, <1>4, <1>5, <1>6, <1>7, <1>8, StepCases DEF HandlerStep

\* A report that is queued continues what was at hand, also when the full queue drops its
\* oldest for it.
LEMMA PublishQueues ==
  ASSUME TypeInv, QueueInv, Publish, open, count = 0 \/ draining
  PROVE  /\ dropped \subseteq dropped' /\ arriving' = 0
         /\ InOrder(pending, dropped)' /\ pending' # <<>> /\ Newest(Last(pending))'
         /\ \A m \in Nat : Continues(m) => Continues(m)'
<1> DEFINE n == sentReports + 1
<1>1. n \in Nat /\ sentReports' = n /\ open' = open /\ arriving' = 0 /\ pending \in Seq(Nat)
  BY DEF Publish, TypeInv
<1>2. \A m \in Nat : Newest(m) => Follows(m, n, dropped)
  BY DEF Newest, Follows, TypeInv
<1>3. sentReports' + 1 .. sentReports' = {}
  BY <1>1
<1>4. Newest(sentReports)'
  BY <1>1, <1>3 DEF Newest
<1>5. CASE Len(pending) # kMaximumPendingReports
  <2>1. pending' = Append(pending, n) /\ dropped' = dropped
    BY <1>1, <1>5 DEF Publish
  <2>2. pending # <<>> => Last(pending) \in Nat /\ Follows(Last(pending), n, dropped)
    BY <1>1, <1>2, TailEnds DEF QueueInv
  <2>3. InOrder(Append(pending, n), dropped)
    BY <1>1, <2>2, InOrderAppend DEF QueueInv
  <2>4. pending' # <<>> /\ Last(pending') = n /\ Head(pending') = IF pending = <<>> THEN n ELSE Head(pending)
    BY <1>1, <2>1, AppendEnds
  <2>5. \A m \in Nat : Continues(m) => Follows(m, Head(pending'), dropped')
    BY <1>2, <2>1, <2>4 DEF Continues
  <2>6. \A m \in Nat : Continues(m) => Continues(m)'
    BY <2>4, <2>5 DEF Continues
  <2>7. Newest(Last(pending))'
    BY <1>1, <1>4, <2>4 DEF Newest
  <2>8. InOrder(pending, dropped)'
    BY <2>1, <2>3
  <2> QED BY <1>1, <2>1, <2>4, <2>6, <2>7, <2>8
<1>6. CASE Len(pending) = kMaximumPendingReports
  <2> DEFINE t == Tail(pending)  h == Head(pending)
  <2>1. pending' = Append(t, n) /\ dropped' = dropped \cup {h}
    BY <1>1, <1>6 DEF Publish
  <2>2. pending # <<>>
    BY <1>6, PendingAssumption, EmptySeq
  <2>3. /\ t \in Seq(Nat) /\ h \in Nat /\ Last(pending) \in Nat
        /\ t # <<>> => Last(t) = Last(pending) /\ Head(t) \in Nat
        /\ t = <<>> => Last(pending) = h
    BY <1>1, <2>2, TailEnds
  <2>4. Follows(Last(pending), n, dropped)
    BY <1>2, <2>2, <2>3 DEF QueueInv
  <2>5. InOrder(t, dropped) /\ (t # <<>> => Follows(h, Head(t), dropped))
    BY <1>1, <2>2, InOrderTail DEF QueueInv
  <2>6. InOrder(t, dropped') /\ Follows(Last(pending), n, dropped')
    BY <1>1, <2>1, <2>3, <2>4, <2>5, GapsGrow
  <2>7. InOrder(Append(t, n), dropped')
    BY <1>1, <2>3, <2>6, InOrderAppend
  <2>8. pending' # <<>> /\ Last(pending') = n /\ Head(pending') = IF t = <<>> THEN n ELSE Head(t)
    BY <1>1, <2>1, <2>3, AppendEnds
  <2>9. Head(pending') \in Nat /\ Follows(h, Head(pending'), dropped)
    BY <1>1, <2>3, <2>4, <2>5, <2>8
  <2>10. Follows(h, Head(pending'), dropped')
    BY <2>1, <2>3, <2>9, GapsGrow
  <2>11. \A m \in Nat : Continues(m) => Follows(m, h, dropped')
    BY <2>1, <2>2, <2>3, GapsGrow DEF Continues
  <2>12. h \in dropped'
    BY <2>1
  <2>13. \A m \in Nat : Continues(m) => Follows(m, Head(pending'), dropped')
    BY <2>3, <2>9, <2>10, <2>11, <2>12, GapsJoin
  <2>14. \A m \in Nat : Continues(m) => Continues(m)'
    BY <2>8, <2>13 DEF Continues
  <2>15. Newest(Last(pending))'
    BY <1>1, <1>4, <2>8 DEF Newest
  <2>16. InOrder(pending, dropped)'
    BY <2>1, <2>7
  <2> QED BY <1>1, <2>1, <2>8, <2>14, <2>15, <2>16
<1> QED BY <1>5, <1>6

\* The reports of a batch, of the queue and to come stay one sequence.
LEMMA QueueStep ==
  ASSUME TypeInv, CountInv, CallsInv, DrainInv, ChipInv, QueueInv, ~derailed', [Next]_vars
  PROVE  QueueInv'
<1>1. CASE Publish
  <2>1. CASE ~open
    <3>1. UNCHANGED <<pending, batch, dropped, arriving, open>> /\ sentReports' = sentReports + 1
      BY <1>1, <2>1 DEF Publish
    <3>2. \A m \in Nat : Newest(m) => Newest(m)'
      BY <2>1, <3>1 DEF Newest, TypeInv
    <3>3. \A m \in Nat : Continues(m) => Continues(m)'
      BY <3>1, <3>2 DEF Continues
    <3> QED BY <3>1, <3>2, <3>3, TailEnds DEF QueueInv, TypeInv
  <2>2. CASE open /\ (count = 0 \/ draining)
    <3>1. batch' = batch
      BY <1>1 DEF Publish
    <3>2. \A h \in Handlers : batch[h] # <<>> => Last(batch[h]) \in Nat
      BY TailEnds DEF TypeInv
    <3>3. \A h \in Handlers : InOrder(batch[h], dropped)'
      BY <1>1, <2>2, <3>1, PublishQueues, GapsGrow DEF QueueInv, TypeInv
    <3>4. \A h \in Handlers : batch'[h] # <<>> => Continues(Last(batch[h]))'
      BY <1>1, <2>2, <3>1, <3>2, PublishQueues DEF QueueInv
    <3> QED BY <1>1, <2>2, <3>3, <3>4, PublishQueues DEF QueueInv
  <2>3. CASE open /\ ~(count = 0 \/ draining)
    <3>1. pending = <<>> /\ \A h \in Handlers : batch[h] = <<>>
      BY <2>3 DEF CallsInv, DrainInv, ChipInv
    <3>2. /\ arriving' = sentReports' /\ sentReports' \in Nat
          /\ UNCHANGED <<pending, batch, dropped>>
      BY <1>1, <2>3 DEF Publish, TypeInv
    <3>3. \A k \in Nat : k <= k /\ k + 1 .. k \subseteq dropped'
      OBVIOUS
    <3>4. Newest(arriving)'
      BY <3>2, <3>3, Zenon DEF Newest
    <3> QED BY <3>1, <3>2, <3>4 DEF QueueInv, InOrder
  <2> QED BY <2>1, <2>2, <2>3
<1>2. CASE RaisePublished
  BY <1>2 DEF RaisePublished, QueueInv, Newest, Continues
<1>3. ASSUME NEW h \in Handlers, CallPublished(h) PROVE QueueInv'
  BY <1>3 DEF CallPublished, QueueInv, Newest, Continues
<1>4. ASSUME NEW h \in Handlers, AddHandler(h) PROVE QueueInv'
  <2>1. UNCHANGED <<open, sentReports, arriving, dropped>>
    BY <1>4 DEF AddHandler
  <2>2. \A m \in Nat : Newest(m)' <=> Newest(m)
    BY <2>1 DEF Newest
  <2>3. CASE count > 0
    <3>1. UNCHANGED <<pending, batch>>
      BY <1>4, <2>3, Adding
    <3> QED BY <2>1, <3>1 DEF QueueInv, Newest, Continues
  <2>4. CASE ~(count > 0)
    <3>0. ~draining /\ BeginDrain(h)
      BY <1>4, <2>4, Adding
    <3>1. pending' = <<>> /\ \A g \in Handlers : batch'[g] = IF g = h THEN pending ELSE batch[g]
      BY <3>0 DEF BeginDrain, TypeInv
    <3>2. \A g \in Handlers : batch[g] = <<>>
      BY <3>0 DEF CallsInv, DrainInv
    <3>3. ASSUME pending # <<>>, NEW m, m = Last(pending) PROVE Continues(m)'
      BY <2>2, <3>1, <3>3, TailEnds DEF QueueInv, TypeInv, Continues
    <3>4. \A g \in Handlers : batch'[g] # <<>> => batch'[g] = pending /\ Continues(Last(batch[g]))'
      BY <3>1, <3>2, <3>3 DEF Continues, Newest
    <3>5. \A g \in Handlers : InOrder(batch[g], dropped)'
      BY <2>1, <3>1 DEF QueueInv
    <3>6. InOrder(pending, dropped)'
      BY <3>1 DEF InOrder
    <3>7. arriving' # 0 => Newest(arriving)'
      BY <2>1 DEF QueueInv, Newest
    <3> QED BY <3>1, <3>4, <3>5, <3>6, <3>7 DEF QueueInv
  <2> QED BY <2>3, <2>4 DEF TypeInv
<1>5. ASSUME NEW h \in Handlers, RaiseBatch(h) PROVE QueueInv'
  <2>1. h \in attached
    BY <1>5 DEF RaiseBatch, CountInv
  <2>2. UNCHANGED <<pending, batch, open, sentReports, arriving, dropped>>
    BY <1>5, <2>1 DEF RaiseBatch
  <2> QED BY <2>2 DEF QueueInv, Newest, Continues
<1>6. ASSUME NEW h \in Handlers, NEW g \in Handlers, CallBatch(h, g) PROVE QueueInv'
  <2>1. UNCHANGED <<pending, open, sentReports, arriving, dropped>>
    BY <1>6 DEF CallBatch
  <2>2. batch[h] # <<>> /\ batch[h] \in Seq(Nat)
    BY <1>6 DEF CallBatch, CallsInv, DrainInv, TypeInv
  <2>3. \A k \in Handlers : batch'[k] = batch[k] \/ (k = h /\ batch'[k] = Tail(batch[h]))
    BY <1>6 DEF CallBatch, TypeInv
  <2>4. /\ InOrder(Tail(batch[h]), dropped)
        /\ Tail(batch[h]) # <<>> => Last(Tail(batch[h])) = Last(batch[h])
    BY <2>2, InOrderTail, TailEnds DEF QueueInv
  <2>5. \A k \in Handlers : InOrder(batch[k], dropped)'
    BY <2>1, <2>3, <2>4 DEF QueueInv
  <2>6. \A k \in Handlers : batch'[k] # <<>> => batch[k] # <<>> /\ Last(batch'[k]) = Last(batch[k])
    BY <2>2, <2>3, <2>4
  <2>7. \A k \in Handlers : batch'[k] # <<>> => Continues(Last(batch[k]))'
    BY <2>1, <2>6 DEF QueueInv, Continues, Newest
  <2>8. InOrder(pending, dropped)' /\ (pending' # <<>> => Newest(Last(pending))')
        /\ (arriving' # 0 => Newest(arriving)')
    BY <2>1 DEF QueueInv, Newest
  <2> QED BY <2>5, <2>7, <2>8 DEF QueueInv
<1>7. ASSUME NEW h \in Handlers, NextBatch(h) PROVE QueueInv'
  <2>1. UNCHANGED <<open, sentReports, arriving, dropped>>
    BY <1>7 DEF NextBatch
  <2>2. \A m \in Nat : Newest(m)' <=> Newest(m)
    BY <2>1 DEF Newest
  <2>3. CASE pending = <<>>
    <3>1. UNCHANGED <<pending, batch>>
      BY <1>7, <2>3 DEF NextBatch
    <3> QED BY <2>1, <3>1 DEF QueueInv, Newest, Continues
  <2>4. CASE pending # <<>>
    <3>1. pending' = <<>> /\ \A g \in Handlers : batch'[g] = IF g = h THEN pending ELSE batch[g]
      BY <1>7, <2>4 DEF NextBatch, TypeInv
    <3>2. \A g \in Handlers : batch[g] = <<>>
      BY <1>7 DEF NextBatch, CallsInv, DrainInv
    <3>3. ASSUME pending # <<>>, NEW m, m = Last(pending) PROVE Continues(m)'
      BY <2>2, <3>1, <3>3, TailEnds DEF QueueInv, TypeInv, Continues
    <3>4. \A g \in Handlers : batch'[g] # <<>> => batch'[g] = pending /\ Continues(Last(batch[g]))'
      BY <3>1, <3>2, <3>3 DEF Continues, Newest
    <3>5. \A g \in Handlers : InOrder(batch[g], dropped)'
      BY <2>1, <3>1 DEF QueueInv
    <3>6. InOrder(pending, dropped)'
      BY <3>1 DEF InOrder
    <3>7. arriving' # 0 => Newest(arriving)'
      BY <2>1 DEF QueueInv, Newest
    <3> QED BY <3>1, <3>4, <3>5, <3>6, <3>7 DEF QueueInv
  <2> QED BY <2>3, <2>4
<1>8. ASSUME NEW h \in Handlers, RemoveFailed(h) \/ RemoveHandler(h) PROVE QueueInv'
  BY <1>8 DEF RemoveFailed, RemoveHandler, QueueInv, Newest, Continues
<1>9. CASE RemoveStale \/ TakeClose \/ CallClose \/ RefuseClose \/ UNCHANGED vars
  <2>1. UNCHANGED <<pending, batch, sentReports, arriving, dropped>> /\ (open' => open)
    BY <1>9 DEF RemoveStale, TakeClose, CallClose, RefuseClose, vars
  <2> QED BY <2>1 DEF QueueInv, Newest, Continues
<1> QED
  BY <1>1, <1>2, <1>3, <1>4, <1>5, <1>6, <1>7, <1>8, <1>9, StepCases DEF HandlerStep

\* A step that leaves what a handler has received alone need only keep what comes after.
LEMMA Carried ==
  ASSUME TypeInv, NEW k \in Handlers, HandlerInv(k), received'[k] = received[k], dropped \subseteq dropped',
         Live(k)' => Live(k),
         \A m \in Nat : Live(k) /\ Live(k)' /\ Goes(k, m) => Goes(k, m)'
  PROVE  HandlerInv(k)'
<1>1. InOrder(received[k], dropped)'
  BY GapsGrow DEF HandlerInv, TypeInv
<1>2. ASSUME Live(k)', received[k] # <<>>, NEW m, m = Last(received[k]) PROVE Goes(k, m)'
  BY <1>2, TailEnds DEF HandlerInv, TypeInv
<1>3. ASSUME Live(k)', received'[k] # <<>> PROVE Goes(k, Last(received[k]))'
  BY <1>2, <1>3 DEF Goes, Raised, Continues, Newest
<1> QED BY <1>1, <1>3 DEF HandlerInv

\* A handler that is called receives the report after all it has received before.
LEMMA Called ==
  ASSUME TypeInv, NEW k \in Handlers, HandlerInv(k), NEW n \in Nat,
         received' = [received EXCEPT ![k] = Append(@, n)], dropped' = dropped,
         \A m \in Nat : received[k] # <<>> /\ Goes(k, m) => Follows(m, n, dropped), Live(k),
         Goes(k, n)'
  PROVE  HandlerInv(k)'
<1>1. received[k] \in Seq(Nat) /\ received'[k] = Append(received[k], n)
  BY DEF TypeInv
<1>2. received[k] # <<>> => Follows(Last(received[k]), n, dropped)
  BY <1>1, TailEnds DEF HandlerInv
<1>3. InOrder(received[k], dropped)'
  BY <1>1, <1>2, InOrderAppend DEF HandlerInv
<1>4. Last(received'[k]) = n
  BY <1>1, AppendEnds
<1>5. Goes(k, Last(received[k]))'
  BY <1>4 DEF Goes, Raised, Continues, Newest
<1> QED BY <1>3, <1>5 DEF HandlerInv

\* Who is called with a batch: nobody while a report is raised at once, and one thread's.
LEMMA OneRaiser ==
  ASSUME TypeInv, CallsInv, DrainInv, ChipInv
  PROVE  /\ \A g, h \in Handlers : batch[h] # <<>> /\ g # h => batch[g] = <<>> /\ calls[g] = {}
         /\ \A h \in Handlers : batch[h] # <<>> \/ calls[h] # {} => arriving = 0 /\ calls[Chip] = {}
         /\ arriving # 0 => \A h \in Handlers : batch[h] = <<>> /\ calls[h] = {}
  BY DEF CallsInv, DrainInv, ChipInv

\* Every handler receives the reports in order.
LEMMA ReceivedStep ==
  ASSUME TypeInv, CountInv, CallsInv, DrainInv, ChipInv, QueueInv, NEW k \in Handlers, HandlerInv(k), ~derailed', [Next]_vars
  PROVE  HandlerInv(k)'
<1>1. CASE Publish
  <2>1. UNCHANGED <<attached, calls, received, batch, open>> /\ arriving = 0 /\ calls[Chip] = {}
    BY <1>1 DEF Publish
  <2>2. Live(k)' => Live(k)
    BY <2>1 DEF Live
  <2>3. CASE ~open
    <3>1. UNCHANGED <<pending, dropped, arriving>> /\ sentReports' = sentReports + 1
      BY <1>1, <2>3 DEF Publish
    <3>2. \A m \in Nat : Continues(m) => Continues(m)'
      BY <2>1, <2>3, <3>1 DEF Continues, Newest, TypeInv
    <3>3. \A m \in Nat : Goes(k, m) => Goes(k, m)'
      BY <2>1, <3>1, <3>2 DEF Goes, Raised
    <3> QED BY <2>1, <2>2, <3>1, <3>3, Carried
  <2>4. CASE open /\ (count = 0 \/ draining)
    <3>1. /\ dropped \subseteq dropped' /\ arriving' = 0
          /\ \A m \in Nat : Continues(m) => Continues(m)'
      BY <1>1, <2>4, PublishQueues
    <3>2. \A d \in Handlers : batch[d] # <<>> => Head(batch[d]) \in Nat
      BY TailEnds DEF TypeInv
    <3>3. \A m \in Nat : Goes(k, m) => Goes(k, m)'
      BY <2>1, <3>1, <3>2, GapsGrow DEF Goes, Raised
    <3> QED BY <2>1, <2>2, <3>1, <3>3, Carried
  <2>5. CASE open /\ ~(count = 0 \/ draining)
    <3>1. pending = <<>> /\ \A h \in Handlers : batch[h] = <<>>
      BY <2>5 DEF CallsInv, DrainInv, ChipInv
    <3>2. arriving' = sentReports + 1 /\ UNCHANGED <<pending, dropped>>
      BY <1>1, <2>5 DEF Publish
    <3>3. \A m \in Nat : Continues(m) => Follows(m, sentReports + 1, dropped)
      BY <2>5, <3>1 DEF Continues, Newest, Follows, TypeInv
    <3>4. arriving' # 0
      BY <3>2 DEF TypeInv
    <3>5. \A m \in Nat : Goes(k, m) => Goes(k, m)'
      BY <2>1, <3>1, <3>2, <3>3, <3>4 DEF Goes, Raised
    <3> QED BY <2>1, <2>2, <3>2, <3>5, Carried
  <2> QED BY <2>3, <2>4, <2>5
<1>2. CASE RaisePublished
  <2>1. /\ UNCHANGED <<attached, received, batch, pending, dropped, open, sentReports>>
        /\ arriving # 0 /\ calls[Chip] = {}
    BY <1>2 DEF RaisePublished
  <2>2. calls'[Chip] = attached /\ \A h \in Handlers : calls'[h] = {} /\ batch[h] = <<>>
    BY <1>2, <2>1, OneRaiser, ChipAssumption DEF RaisePublished, TypeInv, Raisers
  <2>3. Live(k)' <=> k \in attached
    BY <2>1, <2>2 DEF Live, Raisers
  <2>4. k \in attached => arriving' = arriving
    BY <1>2 DEF RaisePublished
  <2>5. \A m \in Nat : Live(k)' /\ Goes(k, m) => Goes(k, m)'
    BY <2>1, <2>2, <2>3, <2>4 DEF Goes, Raised
  <2>6. Live(k)' => Live(k)
    BY <2>3 DEF Live
  <2> QED BY <2>1, <2>5, <2>6, Carried
<1>3. ASSUME NEW h \in Handlers, CallPublished(h) PROVE HandlerInv(k)'
  <2>1. /\ UNCHANGED <<attached, batch, pending, dropped, open, sentReports>>
        /\ h \in calls[Chip] /\ arriving # 0 /\ arriving \in Nat
    BY <1>3 DEF CallPublished, CallsInv, TypeInv
  <2>2. /\ calls'[Chip] = calls[Chip] \ {h} /\ \A r \in Handlers : calls'[r] = calls[r]
        /\ received' = [received EXCEPT ![h] = Append(@, arriving)]
    BY <1>3, ChipAssumption DEF CallPublished, TypeInv, Raisers
  <2>3. \A r \in Handlers : batch[r] = <<>> /\ calls[r] = {}
    BY <2>1, OneRaiser
  <2>4. pending = <<>> /\ Continues(arriving)
    BY <2>1 DEF ChipInv, QueueInv, Continues
  <2>5. \A m \in Nat : m = arriving => Continues(m)'
    BY <2>1, <2>4 DEF Continues, Newest
  <2>6. arriving' = (IF calls[Chip] = {h} THEN 0 ELSE arriving)
    BY <1>3 DEF CallPublished
  <2>7. CASE k # h
    <3>1. received'[k] = received[k]
      BY <2>2, <2>7 DEF TypeInv
    <3>2. Live(k)' => Live(k)
      BY <2>1, <2>2 DEF Live, Raisers
    <3>3. \A m \in Nat : Goes(k, m) => Goes(k, m)'
      <4>1. CASE calls[Chip] = {h}
        BY <2>1, <2>2, <2>3, <2>5, <2>6, <2>7, <4>1 DEF Goes, Raised
      <4>2. CASE calls[Chip] # {h}
        <5>1. calls'[Chip] # {} /\ arriving' = arriving
          BY <2>1, <2>2, <2>6, <4>2
        <5> QED BY <2>1, <2>2, <2>3, <2>7, <5>1 DEF Goes, Raised
      <4> QED BY <4>1, <4>2
    <3> QED BY <2>1, <3>1, <3>2, <3>3, Carried
  <2>8. CASE k = h
    <3>1. Live(k) /\ \A m \in Nat : Goes(k, m) => Follows(m, arriving, dropped)
      BY <2>1, <2>8 DEF Live, Goes, Raised, Raisers
    <3>2. \A m \in Nat : m = arriving => Goes(k, m)'
      <4>1. CASE calls[Chip] = {h}
        BY <2>1, <2>3, <2>5, <2>6, <4>1 DEF Goes
      <4>2. CASE calls[Chip] # {h}
        <5>1. calls'[Chip] # {} /\ arriving' = arriving /\ k \notin calls'[Chip]
          BY <2>1, <2>2, <2>6, <2>8, <4>2
        <5> QED BY <2>1, <2>3, <5>1 DEF Goes, Raised
      <4> QED BY <4>1, <4>2
    <3>3. PICK n \in Nat : n = arriving
      BY <2>1
    <3> QED BY <2>1, <2>2, <2>8, <3>1, <3>2, <3>3, Called
  <2> QED BY <2>7, <2>8
<1>4. ASSUME NEW h \in Handlers, AddHandler(h) PROVE HandlerInv(k)'
  <2>1. UNCHANGED <<calls, dropped, open, sentReports, arriving>> /\ attached' = attached \cup {h}
    BY <1>4 DEF AddHandler
  <2>2. CASE k = h
    <3>1. received'[k] = <<>>
      BY <1>4, <2>2 DEF AddHandler, TypeInv
    <3>2. InOrder(<<>>, dropped')
      BY DEF InOrder
    <3>3. InOrder(received[k], dropped)'
      BY <3>1, <3>2
    <3> QED BY <3>1, <3>3 DEF HandlerInv
  <2>3. CASE k # h
    <3>1. received'[k] = received[k]
      BY <1>4, <2>3 DEF AddHandler, TypeInv
    <3>2. Live(k)' => Live(k)
      BY <2>1, <2>3 DEF Live
    <3>3. ASSUME UNCHANGED <<pending, batch>> PROVE \A m \in Nat : Goes(k, m) => Goes(k, m)'
      BY <2>1, <3>3 DEF Goes, Raised, Continues, Newest
    <3>4. \A m \in Nat : Goes(k, m) => Goes(k, m)'
      <4>1. CASE count > 0
        BY <1>4, <3>3, <4>1, Adding
      <4>2. CASE ~(count > 0)
        <5>1. ~draining /\ BeginDrain(h)
          BY <1>4, <4>2, Adding
        <5>2. \A g \in Handlers : batch[g] = <<>> /\ calls[g] = {}
          BY <5>1 DEF CallsInv, DrainInv
        <5>3. pending' = <<>> /\ \A g \in Handlers : batch'[g] = IF g = h THEN pending ELSE batch[g]
          BY <5>1 DEF BeginDrain, TypeInv
        <5>4. CASE pending = <<>>
          <6>1. \A g \in Handlers : batch'[g] = batch[g]
            BY <5>2, <5>3, <5>4
          <6> QED BY <2>1, <5>3, <5>4, <6>1 DEF Goes, Raised, Continues, Newest
        <5>5. CASE pending # <<>>
          <6>1. arriving = 0
            BY <5>5 DEF ChipInv
          <6>2. \A m \in Nat : Goes(k, m) => Follows(m, Head(pending), dropped)
            BY <5>2, <5>5, <6>1 DEF Goes, Continues
          <6> QED BY <2>1, <5>2, <5>3, <5>5, <6>1, <6>2 DEF Goes, Raised
        <5> QED BY <5>4, <5>5
      <4> QED BY <4>1, <4>2 DEF TypeInv
    <3> QED BY <2>1, <3>1, <3>2, <3>4, Carried
  <2> QED BY <2>2, <2>3
<1>5. ASSUME NEW h \in Handlers, RaiseBatch(h) PROVE HandlerInv(k)'
  <2>1. h \in attached /\ batch[h] # <<>> /\ calls[h] = {}
    BY <1>5 DEF RaiseBatch, CountInv
  <2>2. UNCHANGED <<attached, received, batch, pending, dropped, open, sentReports, arriving>>
    BY <1>5, <2>1 DEF RaiseBatch
  <2>3. calls'[h] = attached /\ \A r \in Raisers : r # h => calls'[r] = {}
    BY <1>5, <2>1, OneRaiser DEF RaiseBatch, TypeInv, Raisers
  <2>4. Live(k)' <=> k \in attached
    BY <2>2, <2>3 DEF Live, Raisers
  <2>5. Live(k)' => Live(k)
    BY <2>4 DEF Live
  <2>6. \A g \in Handlers : g # h => batch[g] = <<>>
    BY <2>1, OneRaiser
  <2>7. arriving = 0
    BY <2>1, OneRaiser
  <2>8. \A m \in Nat : Live(k)' /\ Goes(k, m) => Goes(k, m)'
    BY <2>1, <2>2, <2>3, <2>4, <2>6, <2>7 DEF Goes, Raised
  <2> QED BY <2>2, <2>5, <2>8, Carried
<1>6. ASSUME NEW h \in Handlers, NEW g \in Handlers, CallBatch(h, g) PROVE HandlerInv(k)'
  <2> DEFINE b == batch[h]
  <2>1. /\ UNCHANGED <<attached, pending, dropped, open, sentReports, arriving>>
        /\ g \in calls[h] /\ b # <<>> /\ b \in Seq(Nat)
    BY <1>6 DEF CallBatch, CallsInv, DrainInv, TypeInv
  <2>2. /\ calls'[h] = calls[h] \ {g} /\ \A r \in Raisers : r # h => calls'[r] = calls[r]
        /\ received' = [received EXCEPT ![g] = Append(@, Head(b))]
        /\ \A d \in Handlers : batch'[d] = IF d = h /\ calls[h] = {g} THEN Tail(b) ELSE batch[d]
    BY <1>6 DEF CallBatch, TypeInv, Raisers
  <2>3. arriving = 0 /\ \A d \in Handlers : d # h => batch[d] = <<>> /\ calls[d] = {}
    BY <2>1, OneRaiser
  <2>4. PICK n \in Nat : n = Head(b)
    BY <2>1, TailEnds
  <2>5. /\ Tail(b) # <<>> => Follows(n, Head(Tail(b)), dropped)
        /\ Tail(b) = <<>> => Continues(n)
    BY <2>1, <2>4, InOrderTail, TailEnds DEF QueueInv
  <2>6. Tail(b) = <<>> => Continues(n)'
    BY <2>1, <2>5 DEF Continues, Newest
  <2>7. ASSUME calls[h] = {g} PROVE Goes(k, n)'
    <3>1. calls'[h] = {} /\ batch'[h] = Tail(b) /\ \A d \in Handlers : d # h => batch'[d] = <<>>
      BY <2>2, <2>3, <2>7
    <3> QED BY <2>1, <2>3, <2>5, <2>6, <3>1 DEF Goes, Raised
  <2>8. CASE k # g
    <3>1. received'[k] = received[k]
      BY <2>2, <2>8 DEF TypeInv
    <3>2. Live(k)' => Live(k)
      BY <2>1, <2>2 DEF Live, Raisers
    <3>3. \A m \in Nat : Goes(k, m) => Goes(k, m)'
      <4>1. CASE calls[h] = {g}
        <5>1. \A m \in Nat : Goes(k, m) => m = n
          BY <2>1, <2>4, <2>8, <4>1 DEF Goes, Raised
        <5> QED BY <2>7, <4>1, <5>1
      <4>2. CASE calls[h] # {g}
        <5>1. calls'[h] # {} /\ \A d \in Handlers : batch'[d] = batch[d]
          BY <2>1, <2>2, <4>2
        <5> QED BY <2>1, <2>2, <2>3, <2>8, <5>1 DEF Goes, Raised
      <4> QED BY <4>1, <4>2
    <3> QED BY <2>1, <3>1, <3>2, <3>3, Carried
  <2>9. CASE k = g
    <3>1. Live(k) /\ \A m \in Nat : Goes(k, m) => Follows(m, n, dropped)
      BY <2>1, <2>4, <2>9 DEF Live, Goes, Raised, Raisers
    <3>2. Goes(k, n)'
      <4>1. CASE calls[h] # {g}
        <5>1. calls'[h] # {} /\ k \notin calls'[h] /\ \A d \in Handlers : batch'[d] = batch[d]
          BY <2>1, <2>2, <2>9, <4>1
        <5> QED BY <2>1, <2>3, <2>4, <5>1 DEF Goes, Raised
      <4> QED BY <2>7, <4>1
    <3> QED BY <2>1, <2>2, <2>4, <2>9, <3>1, <3>2, Called
  <2> QED BY <2>8, <2>9
<1>7. ASSUME NEW h \in Handlers, NextBatch(h) PROVE HandlerInv(k)'
  <2>1. UNCHANGED <<attached, calls, received, dropped, open, sentReports, arriving>>
    BY <1>7 DEF NextBatch
  <2>2. Live(k)' => Live(k)
    BY <2>1 DEF Live
  <2>3. CASE pending = <<>>
    <3>1. UNCHANGED <<pending, batch>>
      BY <1>7, <2>3 DEF NextBatch
    <3>2. \A m \in Nat : Goes(k, m) => Goes(k, m)'
      BY <2>1, <3>1 DEF Goes, Raised, Continues, Newest
    <3> QED BY <2>1, <2>2, <3>2, Carried
  <2>4. CASE pending # <<>>
    <3>1. pending' = <<>> /\ \A g \in Handlers : batch'[g] = IF g = h THEN pending ELSE batch[g]
      BY <1>7, <2>4 DEF NextBatch, TypeInv
    <3>2. arriving = 0 /\ calls[h] = {} /\ \A g \in Handlers : batch[g] = <<>>
      BY <1>7, <2>4 DEF NextBatch, CallsInv, DrainInv, ChipInv
    <3>3. \A m \in Nat : Goes(k, m) => Follows(m, Head(pending), dropped)
      BY <2>4, <3>2 DEF Goes, Continues
    <3>4. \A m \in Nat : Goes(k, m) => Goes(k, m)'
      BY <2>1, <2>4, <3>1, <3>2, <3>3 DEF Goes, Raised
    <3> QED BY <2>1, <2>2, <3>4, Carried
  <2> QED BY <2>3, <2>4
<1>8. ASSUME NEW h \in Handlers, RemoveFailed(h) \/ RemoveHandler(h) PROVE HandlerInv(k)'
  <2>1. UNCHANGED <<calls, batch, pending, received, dropped, open, sentReports, arriving>>
    BY <1>8 DEF RemoveFailed, RemoveHandler
  <2>2. Live(k)' => Live(k)
    BY <1>8, <2>1 DEF RemoveFailed, RemoveHandler, Live
  <2>3. \A m \in Nat : Goes(k, m) => Goes(k, m)'
    BY <2>1 DEF Goes, Raised, Continues, Newest
  <2> QED BY <2>1, <2>2, <2>3, Carried
<1>9. CASE RemoveStale \/ TakeClose \/ CallClose \/ RefuseClose \/ UNCHANGED vars
  <2>1. /\ UNCHANGED <<attached, calls, batch, pending, received, dropped, sentReports, arriving>>
        /\ open' => open
    BY <1>9 DEF RemoveStale, TakeClose, CallClose, RefuseClose, vars
  <2>2. Live(k)' => Live(k)
    BY <2>1 DEF Live
  <2>3. \A m \in Nat : Goes(k, m) => Goes(k, m)'
    BY <2>1 DEF Goes, Raised, Continues, Newest
  <2> QED BY <2>1, <2>2, <2>3, Carried
<1> QED
  BY <1>1, <1>2, <1>3, <1>4, <1>5, <1>6, <1>7, <1>8, <1>9, StepCases DEF HandlerStep

-----------------------------------------------------------------------------
(* A report is raised to a handler once, drains derailed or not.            *)

\* The elements of the empty sequence, of one with a report put at the end, and of its rest.
LEMMA EmptyElems == Elems(<<>>) = {} /\ Distinct(<<>>)
  BY DEF Elems, Distinct

LEMMA AppendElems ==
  ASSUME NEW s \in Seq(Nat), NEW n \in Nat
  PROVE  /\ Elems(Append(s, n)) = Elems(s) \cup {n}
         /\ Distinct(s) /\ n \notin Elems(s) => Distinct(Append(s, n))
<1>1. /\ Len(Append(s, n)) = Len(s) + 1 /\ Len(s) \in Nat
      /\ \A i \in 1 .. Len(s) : Append(s, n)[i] = s[i]
      /\ Append(s, n)[Len(s) + 1] = n
  OBVIOUS
<1>2. 1 .. Len(s) + 1 = (1 .. Len(s)) \cup {Len(s) + 1}
  BY <1>1
<1>3. Elems(Append(s, n)) = Elems(s) \cup {n}
  BY <1>1, <1>2 DEF Elems
<1>4. ASSUME Distinct(s), n \notin Elems(s) PROVE Distinct(Append(s, n))
  <2>1. \A i \in 1 .. Len(s) : s[i] # n
    BY <1>4 DEF Elems
  <2> QED BY <1>1, <1>2, <1>4, <2>1 DEF Distinct
<1> QED BY <1>3, <1>4

LEMMA TailElems ==
  ASSUME NEW s \in Seq(Nat), s # <<>>
  PROVE  /\ Head(s) \in Elems(s) /\ Elems(Tail(s)) \subseteq Elems(s)
         /\ Distinct(s) => Distinct(Tail(s)) /\ Head(s) \notin Elems(Tail(s))
<1>1. /\ Len(Tail(s)) = Len(s) - 1 /\ Len(s) \in Nat \ {0}
      /\ \A i \in 1 .. Len(s) - 1 : Tail(s)[i] = s[i + 1]
      /\ Head(s) = s[1]
  OBVIOUS
<1>2. Head(s) \in Elems(s) /\ Elems(Tail(s)) \subseteq Elems(s)
  BY <1>1 DEF Elems
<1>3. ASSUME Distinct(s) PROVE Distinct(Tail(s)) /\ Head(s) \notin Elems(Tail(s))
  <2>1. \A i, j \in 1 .. Len(s) - 1 : i + 1 \in 1 .. Len(s) /\ j + 1 \in 1 .. Len(s) /\ 1 \in 1 .. Len(s)
    BY <1>1
  <2>2. Distinct(Tail(s))
    BY <1>1, <1>3, <2>1 DEF Distinct
  <2>3. \A i \in 1 .. Len(s) - 1 : s[i + 1] # s[1]
    BY <1>1, <1>3, <2>1 DEF Distinct
  <2> QED BY <1>1, <2>2, <2>3 DEF Elems
<1> QED BY <1>2, <1>3

\* What the queue holds after Publish: what it held, less what a full queue drops, and the
\* report that has come in.
LEMMA PublishElems ==
  ASSUME TypeInv, PlacesInv, Publish
  PROVE  /\ sentReports' = sentReports + 1 /\ arriving = 0 /\ arriving' \in {0, sentReports'}
         /\ Distinct(pending)' /\ Elems(pending') \subseteq Elems(pending) \cup {sentReports'}
         /\ arriving' # 0 => pending' = pending
<1>1. sentReports' = sentReports + 1 /\ arriving = 0 /\ sentReports \in Nat /\ pending \in Seq(Nat)
  BY DEF Publish, TypeInv
<1>2. sentReports' \notin Elems(pending)
  BY <1>1 DEF PlacesInv
<1>3. CASE open /\ (count = 0 \/ draining)
  <2> DEFINE s == IF Len(pending) = kMaximumPendingReports THEN Tail(pending) ELSE pending
  <2>1. pending' = Append(s, sentReports + 1) /\ arriving' = 0
    BY <1>1, <1>3 DEF Publish
  <2>2. Len(pending) = kMaximumPendingReports => pending # <<>>
    BY PendingAssumption, EmptySeq
  <2>3. s \in Seq(Nat) /\ Distinct(s) /\ Elems(s) \subseteq Elems(pending)
    BY <1>1, <2>2, TailEnds, TailElems DEF PlacesInv
  <2> HIDE DEF s
  <2>4. Elems(pending') = Elems(s) \cup {sentReports + 1} /\ Distinct(pending')
    BY <1>1, <1>2, <2>1, <2>3, AppendElems
  <2>5. Distinct(pending)'
    BY <2>4 DEF Distinct
  <2> QED BY <1>1, <2>1, <2>3, <2>4, <2>5
<1>4. CASE ~(open /\ (count = 0 \/ draining))
  <2>1. pending' = pending /\ arriving' \in {0, sentReports'}
    BY <1>1, <1>4 DEF Publish
  <2> QED BY <1>1, <2>1 DEF PlacesInv, Distinct
<1> QED BY <1>3, <1>4

\* A drain that takes the queue leaves it empty.
LEMMA Taking ==
  ASSUME TypeInv, CallsInv, NEW h \in Handlers, AddHandler(h) \/ NextBatch(h)
  PROVE  /\ UNCHANGED <<sentReports, arriving, calls>> /\ batch[h] = <<>> /\ calls[h] = {}
         /\ \/ UNCHANGED <<pending, batch>>
            \/ pending' = <<>> /\ batch' = [batch EXCEPT ![h] = pending]
<1>1. batch[h] = <<>> /\ calls[h] = {}
  BY DEF AddHandler, NextBatch, CallsInv
<1> QED BY <1>1 DEF AddHandler, BeginDrain, NextBatch

\* The places a report may be raised from keep having none in common.
LEMMA PlacesStep ==
  ASSUME TypeInv, CallsInv, PlacesInv, [Next]_vars
  PROVE  PlacesInv'
<1>0. ASSUME UNCHANGED <<pending, batch, sentReports>>, arriving' \in {0, arriving} PROVE PlacesInv'
  <2>1. Elems(pending)' = Elems(pending) /\ (Distinct(pending)' <=> Distinct(pending))
    BY <1>0 DEF Elems, Distinct
  <2>2. \A h \in Handlers : Elems(batch[h])' = Elems(batch[h]) /\ (Distinct(batch[h])' <=> Distinct(batch[h]))
    BY <1>0 DEF Elems, Distinct
  <2> QED BY <1>0, <2>1, <2>2 DEF PlacesInv
<1>1. CASE Publish
  <2>1. batch' = batch /\ sentReports \in Nat
    BY <1>1 DEF Publish, TypeInv
  <2> DEFINE n == sentReports'
  <2>2. n \notin Elems(pending) /\ \A h \in Handlers : n \notin Elems(batch[h])
    BY <1>1, <2>1, PublishElems DEF PlacesInv
  <2>3. /\ n = sentReports + 1 /\ arriving' \in {0, n} /\ Distinct(pending)'
        /\ Elems(pending)' = Elems(pending') /\ Elems(pending') \subseteq Elems(pending) \cup {n}
        /\ arriving' # 0 => pending' = pending
    BY <1>1, PublishElems DEF Elems
  <2>4. Elems(pending)' \subseteq 1 .. n /\ \A h \in Handlers : Elems(batch[h]) \subseteq 1 .. n
    BY <2>1, <2>3 DEF PlacesInv
  <2>5. /\ \A h \in Handlers : Elems(batch[h])' = Elems(batch[h]) /\ Distinct(batch[h])'
        /\ arriving' # 0 => arriving' \in 1 .. n /\ arriving' \notin Elems(pending)'
    BY <2>1, <2>2, <2>3 DEF PlacesInv, Elems, Distinct
  <2> QED BY <2>2, <2>3, <2>4, <2>5 DEF PlacesInv
<1>2. ASSUME NEW h \in Handlers, AddHandler(h) \/ NextBatch(h) PROVE PlacesInv'
  <2>1. CASE UNCHANGED <<pending, batch>>
    BY <1>0, <1>2, <2>1, Taking
  <2>2. CASE pending' = <<>> /\ batch' = [batch EXCEPT ![h] = pending]
    <3>1. \A g \in Handlers : batch'[g] = IF g = h THEN pending ELSE batch[g]
      BY <2>2 DEF TypeInv
    <3>2. Elems(pending)' = {} /\ Distinct(pending)' /\ UNCHANGED <<sentReports, arriving>>
      BY <1>2, <2>2, EmptyElems, Taking DEF Elems, Distinct
    <3>3. \A g \in Handlers :
            /\ Elems(batch[g])' = (IF g = h THEN Elems(pending) ELSE Elems(batch[g]))
            /\ Distinct(batch[g])'
      BY <3>1 DEF PlacesInv, Elems, Distinct
    <3> QED BY <3>2, <3>3 DEF PlacesInv
  <2> QED BY <1>2, <2>1, <2>2, Taking
<1>3. ASSUME NEW h \in Handlers, RaiseBatch(h) \/ \E g \in Handlers : CallBatch(h, g) PROVE PlacesInv'
  <2>1. /\ UNCHANGED <<pending, sentReports, arriving>> /\ batch[h] # <<>>
        /\ \A g \in Handlers : batch'[g] = batch[g] \/ (g = h /\ batch'[g] = Tail(batch[h]))
    <3>1. CASE RaiseBatch(h)
      BY <3>1 DEF RaiseBatch, TypeInv
    <3>2. ASSUME NEW g \in Handlers, CallBatch(h, g)
          PROVE  /\ UNCHANGED <<pending, sentReports, arriving>> /\ batch[h] # <<>>
                 /\ batch' \in {batch, [batch EXCEPT ![h] = Tail(@)]}
      BY <3>2 DEF CallBatch, CallsInv
    <3> QED BY <1>3, <3>1, <3>2 DEF TypeInv
  <2>2. Elems(Tail(batch[h])) \subseteq Elems(batch[h]) /\ Distinct(Tail(batch[h]))
    BY <2>1, TailElems DEF PlacesInv, TypeInv
  <2>3. \A g \in Handlers : Elems(batch[g])' \subseteq Elems(batch[g]) /\ Distinct(batch[g])'
    <3>1. \A g \in Handlers : Elems(batch[g])' = Elems(batch'[g]) /\ (Distinct(batch[g])' <=> Distinct(batch'[g]))
      BY DEF Elems, Distinct
    <3> QED BY <2>1, <2>2, <3>1 DEF PlacesInv
  <2>4. Elems(pending)' = Elems(pending) /\ (Distinct(pending)' <=> Distinct(pending))
    BY <2>1 DEF Elems, Distinct
  <2> QED BY <2>1, <2>3, <2>4 DEF PlacesInv
<1> QED
  BY <1>0, <1>1, <1>2, <1>3, StepCases
  DEF HandlerStep, RaisePublished, CallPublished, RemoveFailed, RemoveHandler, RemoveStale, TakeClose, CallClose,
      RefuseClose, vars

\* A handler that has received a report finds it at no place ahead.
LEMMA OnceStep ==
  ASSUME TypeInv, CallsInv, PlacesInv, NEW k \in Handlers, OnceInv(k), [Next]_vars
  PROVE  OnceInv(k)'
<1>0. /\ received[k] \in Seq(Nat) /\ \A h \in Handlers : batch[h] \in Seq(Nat)
      /\ \A h \in Handlers : Ahead(k, h) \subseteq Elems(batch[h])
  <2>1. \A h \in Handlers : batch[h] = <<>> => calls[h] = {}
    BY DEF CallsInv
  <2> QED BY <2>1, TailElems DEF Ahead, TypeInv
<1>1. ASSUME received'[k] = received[k], sentReports' = sentReports,
             Elems(pending') \subseteq Elems(pending),
             \A h \in Handlers : Ahead(k, h)' \subseteq Ahead(k, h) \/ Ahead(k, h)' \subseteq Elems(pending),
             arriving' # 0 /\ (calls'[Chip] = {} \/ k \in calls'[Chip])
               => arriving' = arriving /\ (calls[Chip] = {} \/ k \in calls[Chip])
      PROVE  OnceInv(k)'
  <2>1. Elems(received[k])' = Elems(received[k]) /\ Elems(pending)' = Elems(pending')
    BY <1>1 DEF Elems
  <2>2. Distinct(received[k])'
    BY <1>1 DEF OnceInv, Distinct
  <2> QED BY <1>1, <2>1, <2>2 DEF OnceInv
<1>2. ASSUME NEW n \in Nat, n \in 1 .. sentReports, n \notin Elems(received[k]), n \notin Elems(pending),
             \A h \in Handlers : n \notin Ahead(k, h)' /\ Ahead(k, h)' \subseteq Ahead(k, h),
             arriving' # 0 /\ (calls'[Chip] = {} \/ k \in calls'[Chip])
               => arriving' = arriving /\ arriving # n /\ (calls[Chip] = {} \/ k \in calls[Chip]),
             received' = [received EXCEPT ![k] = Append(@, n)], UNCHANGED <<pending, sentReports>>
      PROVE  OnceInv(k)'
  <2>1. received'[k] = Append(received[k], n)
    BY <1>2 DEF TypeInv
  <2>2. Elems(received'[k]) = Elems(received[k]) \cup {n} /\ Distinct(received'[k])
    BY <1>0, <1>2, <2>1, AppendElems DEF OnceInv
  <2>3. Elems(received[k])' = Elems(received[k]) \cup {n} /\ Distinct(received[k])' /\ Elems(pending)' = Elems(pending)
    BY <1>2, <2>2 DEF Elems, Distinct
  <2>4. Elems(received[k])' \subseteq 1 .. sentReports' /\ Elems(received[k])' \cap Elems(pending)' = {}
    BY <1>2, <2>3 DEF OnceInv
  <2>5. \A h \in Handlers : Elems(received[k])' \cap Ahead(k, h)' = {}
    BY <1>2, <2>3 DEF OnceInv
  <2>6. arriving' # 0 /\ (calls'[Chip] = {} \/ k \in calls'[Chip]) => arriving' \notin Elems(received[k])'
    BY <1>2, <2>3 DEF OnceInv
  <2> QED BY <2>3, <2>4, <2>5, <2>6 DEF OnceInv
<1>3. CASE Publish
  <2>1. UNCHANGED <<received, batch, calls>> /\ sentReports \in Nat
    BY <1>3 DEF Publish, TypeInv
  <2> DEFINE n == sentReports'
  <2>2. /\ n = sentReports + 1 /\ arriving' \in {0, n}
        /\ Elems(pending)' = Elems(pending') /\ Elems(pending') \subseteq Elems(pending) \cup {n}
    BY <1>3, PublishElems DEF Elems
  <2>3. n \notin Elems(received[k]) /\ Elems(received[k]) \subseteq 1 .. n
    BY <2>1, <2>2 DEF OnceInv
  <2>4. /\ Elems(received[k])' = Elems(received[k]) /\ Distinct(received[k])'
        /\ \A h \in Handlers : Ahead(k, h)' = Ahead(k, h)
    BY <2>1 DEF OnceInv, Elems, Distinct, Ahead
  <2> QED BY <2>2, <2>3, <2>4 DEF OnceInv
<1>4. CASE RaisePublished
  <2>1. UNCHANGED <<received, batch, pending, sentReports>> /\ calls[Chip] = {} /\ arriving' \in {0, arriving}
    BY <1>4 DEF RaisePublished
  <2>2. \A h \in Handlers : calls'[h] = calls[h]
    BY <1>4, ChipAssumption DEF RaisePublished, TypeInv, Raisers
  <2>3. \A h \in Handlers : Ahead(k, h)' = Ahead(k, h)
    BY <2>1, <2>2 DEF Ahead, Elems
  <2> QED BY <1>1, <2>1, <2>3
<1>5. ASSUME NEW h \in Handlers, CallPublished(h) PROVE OnceInv(k)'
  <2>1. /\ UNCHANGED <<batch, pending, sentReports>> /\ h \in calls[Chip]
        /\ calls'[Chip] = calls[Chip] \ {h} /\ arriving' = IF calls[Chip] = {h} THEN 0 ELSE arriving
        /\ received' = [received EXCEPT ![h] = Append(@, arriving)]
    BY <1>5 DEF CallPublished, TypeInv, Raisers
  <2>2. \A g \in Handlers : calls'[g] = calls[g]
    BY <1>5, ChipAssumption DEF CallPublished, TypeInv, Raisers
  <2>3. \A g \in Handlers : Ahead(k, g)' = Ahead(k, g)
    BY <2>1, <2>2 DEF Ahead, Elems
  <2>4. CASE k # h
    <3>1. received'[k] = received[k]
      BY <2>1, <2>4 DEF TypeInv
    <3>2. arriving' # 0 => calls'[Chip] # {} /\ arriving' = arriving
      BY <2>1
    <3> QED BY <1>1, <2>1, <2>3, <3>1, <3>2
  <2>5. CASE k = h
    <3>1. arriving # 0 /\ arriving \in Nat /\ arriving \in 1 .. sentReports
      BY <2>1 DEF CallsInv, PlacesInv, TypeInv
    <3>2. arriving \notin Elems(received[k]) /\ arriving \notin Elems(pending) /\ \A g \in Handlers : arriving \notin Ahead(k, g)
      BY <1>0, <2>1, <2>5, <3>1 DEF OnceInv, PlacesInv
    <3>3. arriving' # 0 => calls'[Chip] # {} /\ k \notin calls'[Chip]
      BY <2>1, <2>5
    <3> QED BY <1>2, <2>1, <2>3, <2>5, <3>1, <3>2, <3>3
  <2> QED BY <2>4, <2>5
<1>6. ASSUME NEW h \in Handlers, AddHandler(h) \/ NextBatch(h) PROVE OnceInv(k)'
  <2>1. /\ UNCHANGED <<sentReports, arriving, calls>> /\ batch[h] = <<>> /\ calls[h] = {}
        /\ \/ UNCHANGED <<pending, batch>>
           \/ pending' = <<>> /\ batch' = [batch EXCEPT ![h] = pending]
    BY <1>6, Taking
  <2>2. Elems(pending') \subseteq Elems(pending)
    BY <2>1, EmptyElems
  <2>3. ASSUME NEW g \in Handlers PROVE Ahead(k, g)' \subseteq Ahead(k, g) \/ Ahead(k, g)' \subseteq Elems(pending)
    <3>1. batch'[g] = batch[g] \/ (g = h /\ batch'[g] = pending)
      BY <2>1 DEF TypeInv
    <3>2. CASE batch'[g] = batch[g]
      BY <2>1, <3>2 DEF Ahead, Elems
    <3>3. CASE g = h /\ batch'[g] = pending
      BY <2>1, <3>3 DEF Ahead, Elems
    <3> QED BY <3>1, <3>2, <3>3
  <2>4. CASE received'[k] = received[k]
    BY <1>1, <2>1, <2>2, <2>3, <2>4
  <2>5. CASE received'[k] = <<>>
    <3>1. Elems(received[k])' = {} /\ Distinct(received[k])'
      BY <2>5, EmptyElems DEF Elems, Distinct
    <3> QED BY <3>1 DEF OnceInv
  <2> QED BY <1>6, <2>4, <2>5 DEF AddHandler, NextBatch, TypeInv
<1>7. ASSUME NEW h \in Handlers, RaiseBatch(h) PROVE OnceInv(k)'
  <2>1. /\ UNCHANGED <<received, pending, sentReports, arriving>> /\ batch[h] # <<>> /\ calls[h] = {}
        /\ batch'[h] \in {batch[h], Tail(batch[h])} /\ (batch'[h] = Tail(batch[h]) \/ calls'[h] # {} \/ attached # {})
        /\ \A g \in Handlers : g # h => batch'[g] = batch[g] /\ calls'[g] = calls[g]
        /\ calls'[Chip] = calls[Chip]
    BY <1>7, ChipAssumption DEF RaiseBatch, TypeInv, Raisers
  <2>2. ASSUME NEW g \in Handlers PROVE Ahead(k, g)' \subseteq Ahead(k, g)
    <3>1. CASE g # h
      BY <2>1, <3>1 DEF Ahead, Elems
    <3>2. CASE g = h
      <4>1. Ahead(k, g) = Elems(batch[h]) /\ Elems(Tail(batch[h])) \subseteq Elems(batch[h])
        BY <1>0, <2>1, <3>2, TailElems DEF Ahead
      <4>2. CASE attached = {}
        <5>1. calls'[h] = {} /\ batch'[h] = Tail(batch[h])
          BY <1>7, <4>2 DEF RaiseBatch, TypeInv, Raisers
        <5>2. Ahead(k, g)' = Elems(Tail(batch[h]))
          BY <3>2, <5>1 DEF Ahead, Elems
        <5> QED BY <4>1, <5>2
      <4>3. CASE attached # {}
        <5>1. batch'[h] = batch[h]
          BY <1>7, <4>3 DEF RaiseBatch
        <5>2. Ahead(k, g)' \in {Elems(batch[h]), Elems(Tail(batch[h]))}
          BY <3>2, <5>1 DEF Ahead, Elems
        <5> QED BY <4>1, <5>2
      <4> QED BY <4>2, <4>3
    <3> QED BY <3>1, <3>2
  <2> QED BY <1>1, <2>1, <2>2
<1>8. ASSUME NEW h \in Handlers, NEW g \in Handlers, CallBatch(h, g) PROVE OnceInv(k)'
  <2> DEFINE b == batch[h]
  <2>1. /\ UNCHANGED <<pending, sentReports, arriving>> /\ b # <<>> /\ b \in Seq(Nat) /\ g \in calls[h]
        /\ calls'[h] = calls[h] \ {g} /\ \A r \in Raisers : r # h => calls'[r] = calls[r]
        /\ batch'[h] = IF calls[h] = {g} THEN Tail(b) ELSE b
        /\ \A d \in Handlers : d # h => batch'[d] = batch[d]
        /\ received' = [received EXCEPT ![g] = Append(@, Head(b))]
    BY <1>8 DEF CallBatch, CallsInv, TypeInv, Raisers
  <2>2. calls'[Chip] = calls[Chip]
    BY <2>1, ChipAssumption DEF Raisers
  <2>3. \A d \in Handlers : d # h => Ahead(k, d)' = Ahead(k, d)
    BY <2>1 DEF Ahead, Elems, Raisers
  <2>4. /\ Head(b) \in Nat /\ Head(b) \in Elems(b) /\ Head(b) \notin Elems(Tail(b))
        /\ Elems(Tail(b)) \subseteq Elems(b)
    BY <2>1, TailElems, TailEnds DEF PlacesInv
  <2>5. CASE k # g
    <3>1. received'[k] = received[k]
      BY <2>1, <2>5 DEF TypeInv
    <3>2. CASE calls[h] = {g}
      <4>1. Ahead(k, h)' = Elems(Tail(b)) /\ Ahead(k, h) = Elems(Tail(b))
        BY <2>1, <2>5, <3>2 DEF Ahead, Elems
      <4> QED BY <1>1, <2>1, <2>2, <2>3, <3>1, <4>1
    <3>3. CASE calls[h] # {g}
      <4>1. batch'[h] = b /\ calls'[h] # {} /\ (k \in calls'[h] <=> k \in calls[h]) /\ calls[h] # {}
        BY <2>1, <2>5, <3>3
      <4>2. Ahead(k, h)' = Ahead(k, h)
        BY <4>1 DEF Ahead, Elems
      <4> QED BY <1>1, <2>1, <2>2, <2>3, <3>1, <4>2
    <3> QED BY <3>2, <3>3
  <2>6. CASE k = g
    <3>1. Ahead(k, h) = Elems(b)
      BY <2>1, <2>6 DEF Ahead
    <3>2. Ahead(k, h)' = Elems(Tail(b))
      <4>1. CASE calls[h] = {g}
        BY <2>1, <4>1 DEF Ahead, Elems
      <4>2. CASE calls[h] # {g}
        <5>1. batch'[h] = b /\ calls'[h] # {} /\ k \notin calls'[h]
          BY <2>1, <2>6, <4>2
        <5> QED BY <5>1 DEF Ahead, Elems
      <4> QED BY <4>1, <4>2
    <3>3. Head(b) \in 1 .. sentReports /\ Head(b) \notin Elems(received[k]) /\ Head(b) \notin Elems(pending)
      BY <2>4, <3>1 DEF OnceInv, PlacesInv
    <3>4. \A d \in Handlers : Head(b) \notin Ahead(k, d)' /\ Ahead(k, d)' \subseteq Ahead(k, d)
      <4>1. \A d \in Handlers : d # h => Head(b) \notin Elems(batch[d])
        BY <2>4 DEF PlacesInv
      <4>2. \A d \in Handlers : d # h => Head(b) \notin Ahead(k, d)
        BY <1>0, <4>1
      <4> HIDE DEF b
      <4> QED BY <2>3, <2>4, <3>1, <3>2, <4>2
    <3>5. arriving' # 0 => arriving' = arriving /\ arriving # Head(b)
      BY <2>1, <2>4 DEF PlacesInv
    <3> HIDE DEF b
    <3> QED BY <1>2, <2>1, <2>2, <2>4, <2>6, <3>3, <3>4, <3>5
  <2> QED BY <2>5, <2>6
<1>9. CASE UNCHANGED <<received, batch, pending, sentReports, calls, arriving>>
  <2>1. \A h \in Handlers : Ahead(k, h)' = Ahead(k, h)
    BY <1>9 DEF Ahead, Elems
  <2> QED BY <1>1, <1>9, <2>1
<1> QED
  BY <1>3, <1>4, <1>5, <1>6, <1>7, <1>8, <1>9, StepCases
  DEF HandlerStep, RemoveFailed, RemoveHandler, RemoveStale, TakeClose, CallClose, RefuseClose, vars

-----------------------------------------------------------------------------
(* The inductive invariant, and what it gives.                              *)

\* Init establishes the invariant.
LEMMA IInvInit == Init => IInv
<1> SUFFICES ASSUME Init PROVE IInv
  OBVIOUS
<1>1. TypeInv
  BY EmptySeq, HandlersAssumption DEF Init, TypeInv, Raisers
<1>2. CountInv
  BY FS_EmptySet DEF Init, CountInv
<1>3. CallsInv /\ DrainInv /\ ChipInv
  BY DEF Init, CallsInv, DrainInv, ChipInv, Raisers
<1>4. \A D : InOrder(<<>>, D)
  BY DEF InOrder
<1>5. QueueInv /\ \A h \in Handlers : HandlerInv(h)
  BY <1>4 DEF Init, QueueInv, HandlerInv
<1>6. PlacesInv
  BY EmptyElems DEF Init, PlacesInv
<1>7. \A k \in Handlers : OnceInv(k)
  BY EmptyElems DEF Init, OnceInv
<1> QED BY <1>1, <1>2, <1>3, <1>5, <1>6, <1>7 DEF IInv, OrderInv

\* Every step keeps it.
LEMMA IInvStep == IInv /\ [Next]_vars => IInv'
<1> SUFFICES ASSUME IInv, [Next]_vars PROVE IInv'
  OBVIOUS
<1>1. TypeInv' /\ CountInv' /\ CallsInv' /\ PlacesInv' /\ \A k \in Handlers : OnceInv(k)'
  BY TypeStep, CountStep, CallsStep, PlacesStep, OnceStep DEF IInv, OrderInv
<1>2. ASSUME ~derailed' PROVE OrderInv'
  <2>1. ~derailed
    BY <1>2, StepCases
    DEF HandlerStep, AddHandler, RemoveFailed, RemoveHandler, RemoveStale, Publish, RaisePublished, CallPublished,
        RaiseBatch, CallBatch, NextBatch, TakeClose, CallClose, RefuseClose, vars, history
  <2> QED BY <1>2, <2>1, DrainStep, ChipStep, QueueStep, ReceivedStep DEF IInv, OrderInv
<1> QED BY <1>1, <1>2 DEF IInv

\* The inductive invariant holds throughout.
THEOREM Inductive == Spec => []IInv
  BY IInvInit, IInvStep, PTL DEF Spec

\* As long as drains keep apart, every handler receives the reports in the order the device
\* sent them, none twice, and none is missing between two but those a full queue has dropped.
THEOREM ReceiptIsInOrder == Spec => []ReceivedInOrder
<1>1. IInv => ReceivedInOrder
  BY DEF IInv, OrderInv, HandlerInv, InOrder, Follows, ReceivedInOrder
<1> QED BY <1>1, Inductive, PTL

\* Drains keep apart, and the count stays above zero, until a token is revoked that is not
\* registered: the count misses no more handlers than that.
THEOREM DrainsKeepApart == Spec => []DrainsApart
<1>1. IInv => DrainsApart
  BY DEF IInv, CountInv, DrainsApart
<1> QED BY <1>1, Inductive, PTL

\* However many drains run and whatever the count has become, no report is raised to a
\* handler twice.
THEOREM ReceiptIsOnce == Spec => []ReceivedAtMostOnce
<1>1. IInv => ReceivedAtMostOnce
  BY DEF IInv, OnceInv, Distinct, ReceivedAtMostOnce
<1> QED BY <1>1, Inductive, PTL
=============================================================================
