------------------------ MODULE RuntimeAdmission_proofs ------------------------
(***************************************************************************)
(* Proofs about RuntimeAdmission for every set of threads, nodes, mutex     *)
(* identities and kinds of operation.                                       *)
(***************************************************************************)
EXTENDS RuntimeAdmission, TLAPS

InLoop(t) == pc[t] \in Looping
Outside == {"Idle", "CleanupRead", "CleanupLock", "Store", "BarrierLock"}

\* The lifetime lock: one exclusive owner or shared ones, and who holds it when.
LifetimeInv ==
    /\ exclusive # NoThread => shared = {}
    /\ \A t \in Threads :
         /\ InLoop(t) /\ waiting[t] # "lifetime" => t \in shared
         /\ pc[t] \in {"IndexLookup", "CleanupRecheck"} => t \in shared
         /\ pc[t] = "Operating" => IF kind[t] = "exclusive" THEN exclusive = t ELSE t \in shared
         /\ pc[t] = "Barrier" => exclusive = t
         /\ pc[t] \in Outside => t \notin shared /\ exclusive # t
         /\ InLoop(t) /\ exclusive = t => kind[t] = "exclusive"
         /\ InLoop(t) /\ t \in shared => kind[t] # "exclusive"

\* What the operation's kind says of the loop it is in.
RouteInv ==
    \A t \in Threads :
        /\ kind[t] \in NodeKinds => node[t] \in Nodes
        /\ pc[t] = "IndexLookup" => kind[t] \in NodeKinds /\ waiting[t] = "node"
        /\ InLoop(t) /\ waiting[t] = "node" => kind[t] \in NodeKinds
        /\ InLoop(t) /\ waiting[t] = "camera" => kind[t] \in CameraKinds
        /\ InLoop(t) /\ waiting[t] = "lifetime" => kind[t] \notin Cleanups \cup {"close"}
        /\ pc[t] \in Outside \cup {"CleanupRecheck", "Barrier"} => waiting[t] = "lifetime"
        /\ pc[t] = "CleanupRecheck" => kind[t] \in Cleanups
        /\ pc[t] \in {"CleanupRead", "CleanupLock"} => kind[t] \in Cleanups

\* The gates: which phase holds which, and that the index knows every referenced mutex
\* under its own node only.
GateInv ==
    /\ \A t \in Threads :
         /\ InLoop(t) /\ waiting[t] = "lifetime" => gate[t] = NoGate
         /\ InLoop(t) /\ waiting[t] # "lifetime" => gate[t] # NoGate
         /\ InLoop(t) /\ waiting[t] = "camera" => OwnsGate(t)
         /\ pc[t] = "Operating" /\ kind[t] \in NodeKinds => OwnsGate(t)
         /\ pc[t] = "Operating" /\ kind[t] \in CameraKinds => camera = t
         /\ pc[t] \notin Looping \cup {"Operating", "Release"} => gate[t] = NoGate
         /\ gate[t] # NoGate => node[t] \in Nodes /\ index[node[t]] = gate[t]
    /\ \A m, n \in Nodes : index[m] # NoGate /\ index[m] = index[n] => m = n

\* After BeginShutdown nobody reads mClosing as unset any more.
ClosingInv ==
    /\ closed => closing
    /\ \A t \in Threads : pc[t] \in {"BarrierLock", "Barrier"} => closing
    /\ closing => \A t \in Threads : Cleared(t) => t \in cleared
    /\ closed => \A t \in Threads : ~Cleared(t)

\* A thread in try_lock_until does not own that lock, a locked node mutex is one its owner
\* refers to, and the camera gate is the last lock its owner took.
OrderInv ==
    \A t \in Threads :
        /\ pc[t] = "TryLock" => ~Owns(t)
        /\ \A g \in Gates : gateOwner[g] = t => gate[t] = g
        /\ camera = t => pc[t] \in {"Operating", "Release"} \/ (InLoop(t) /\ waiting[t] = "camera")

IInv == TypeOK /\ LifetimeInv /\ RouteInv /\ GateInv /\ ClosingInv /\ OrderInv
USE DEF Cleanups, NodeKinds, CameraKinds, Cancellable, Looping, Steps, AllKinds, Outside,
        InLoop, Goto, locks, request, signals

\* Nothing is held and nobody waits in a new admission object.
LEMMA IInvInit == Init => IInv
  <1> SUFFICES ASSUME Init PROVE IInv
    OBVIOUS
  <1> USE KindsAssumption, ThreadAssumption, NodeAssumption, GateAssumption DEF Init
  <1>1. TypeOK
    BY DEF TypeOK
  <1>2. LifetimeInv
    BY DEF LifetimeInv
  <1>3. RouteInv
    BY DEF RouteInv
  <1>4. GateInv
    BY DEF GateInv
  <1>5. ClosingInv
    BY DEF ClosingInv, Cleared
  <1>6. OrderInv
    BY DEF OrderInv
  <1>7. QED
    BY <1>1, <1>2, <1>3, <1>4, <1>5, <1>6 DEF IInv

\* Every step, of any thread, keeps the variables in their types.
LEMMA TypeOKStep == IInv /\ [Next]_vars => TypeOK'
  <1> SUFFICES ASSUME IInv, [Next]_vars PROVE TypeOK'
    OBVIOUS
  <1> USE KindsAssumption, ThreadAssumption, NodeAssumption, GateAssumption DEF IInv, TypeOK, TypeOK
  <1>1. ASSUME NEW t \in Threads, NEW k \in Kinds, NEW n \in (IF k \in NodeKinds THEN Nodes ELSE {NoNode}), Start(t, k, n)
        PROVE  TypeOK'
    BY <1>1 DEF Start
  <1>2. ASSUME NEW t \in Threads, Cancel(t) PROVE TypeOK'
    BY <1>2 DEF Cancel
  <1>3. ASSUME NEW t \in Threads, Expire(t) PROVE TypeOK'
    BY <1>3 DEF Expire
  <1>4. ASSUME NEW t \in Threads, ReadClosing(t) PROVE TypeOK'
    BY <1>4 DEF ReadClosing
  <1>5. ASSUME NEW t \in Threads, ReadCancel(t) PROVE TypeOK'
    BY <1>5 DEF ReadCancel
  <1>6. ASSUME NEW t \in Threads, ReadDeadline(t) PROVE TypeOK'
    BY <1>6 DEF ReadDeadline
  <1>7. ASSUME NEW t \in Threads, LockLifetime(t) PROVE TypeOK'
    BY <1>7 DEF LockLifetime
  <1>8. ASSUME NEW t \in Threads, LockNode(t) PROVE TypeOK'
    BY <1>8 DEF LockNode
  <1>9. ASSUME NEW t \in Threads, LockCamera(t) PROVE TypeOK'
    BY <1>9 DEF LockCamera
  <1>10. ASSUME NEW t \in Threads, WaitSlice(t) PROVE TypeOK'
    BY <1>10 DEF WaitSlice
  <1>11. ASSUME NEW t \in Threads, IndexLookup(t) PROVE TypeOK'
    <2> DEFINE kept == [n \in Nodes |-> IF index[n] # NoGate /\ Live(index[n]) THEN index[n] ELSE NoGate]
    <2>1. kept \in [Nodes -> Gates \cup {NoGate}]
      OBVIOUS
    <2>2. PICK g \in Gates : index' = [kept EXCEPT ![node[t]] = g] /\ gate' = [gate EXCEPT ![t] = g]
      BY <1>11 DEF IndexLookup
    <2>3. index' \in [Nodes -> Gates \cup {NoGate}] /\ gate' \in [Threads -> Gates \cup {NoGate}]
      <3> HIDE DEF kept
      <3> QED BY <2>1, <2>2
    <2>4. QED
      BY <1>11, <2>3 DEF IndexLookup
  <1>12. ASSUME NEW t \in Threads, CleanupRead(t) PROVE TypeOK'
    BY <1>12 DEF CleanupRead
  <1>13. ASSUME NEW t \in Threads, CleanupLock(t) PROVE TypeOK'
    BY <1>13 DEF CleanupLock
  <1>14. ASSUME NEW t \in Threads, CleanupRecheck(t) PROVE TypeOK'
    BY <1>14 DEF CleanupRecheck
  <1>15. ASSUME NEW t \in Threads, StoreClosing(t) PROVE TypeOK'
    BY <1>15 DEF StoreClosing
  <1>16. ASSUME NEW t \in Threads, LockBarrier(t) PROVE TypeOK'
    BY <1>16 DEF LockBarrier
  <1>17. ASSUME NEW t \in Threads, TearDown(t) PROVE TypeOK'
    BY <1>17 DEF TearDown
  <1>18. ASSUME NEW t \in Threads, Finish(t) PROVE TypeOK'
    BY <1>18 DEF Finish
  <1>19. ASSUME NEW t \in Threads, UnlockCamera(t) PROVE TypeOK'
    BY <1>19 DEF UnlockCamera
  <1>20. ASSUME NEW t \in Threads, UnlockNode(t) PROVE TypeOK'
    BY <1>20 DEF UnlockNode
  <1>21. ASSUME NEW t \in Threads, DropGate(t) PROVE TypeOK'
    BY <1>21 DEF DropGate
  <1>22. ASSUME NEW t \in Threads, UnlockLifetime(t) PROVE TypeOK'
    BY <1>22 DEF UnlockLifetime
  <1>23. CASE UNCHANGED vars
    BY <1>23 DEF vars
  <1>. QED
    BY <1>1, <1>2, <1>3, <1>4, <1>5, <1>6, <1>7, <1>8, <1>9, <1>10, <1>11, <1>12, <1>13, <1>14, <1>15,
         <1>16, <1>17, <1>18, <1>19, <1>20, <1>21, <1>22, <1>23 DEF Next, Run, TakeLock

\* Every step keeps what mLifetimeMutex and the camera gate say of where threads stand.
LEMMA LifetimeInvStep == IInv /\ [Next]_vars => LifetimeInv'
  <1> SUFFICES ASSUME IInv, [Next]_vars PROVE LifetimeInv'
    OBVIOUS
  <1> USE KindsAssumption, ThreadAssumption, NodeAssumption, GateAssumption DEF IInv, TypeOK, LifetimeInv, Owns, OwnsGate, LastLock, RouteInv
  <1>1. ASSUME NEW t \in Threads, NEW k \in Kinds, NEW n \in (IF k \in NodeKinds THEN Nodes ELSE {NoNode}), Start(t, k, n)
        PROVE  LifetimeInv'
    BY <1>1 DEF Start
  <1>2. ASSUME NEW t \in Threads, Cancel(t) PROVE LifetimeInv'
    BY <1>2 DEF Cancel
  <1>3. ASSUME NEW t \in Threads, Expire(t) PROVE LifetimeInv'
    BY <1>3 DEF Expire
  <1>4. ASSUME NEW t \in Threads, ReadClosing(t) PROVE LifetimeInv'
    BY <1>4 DEF ReadClosing
  <1>5. ASSUME NEW t \in Threads, ReadCancel(t) PROVE LifetimeInv'
    BY <1>5 DEF ReadCancel
  <1>6. ASSUME NEW t \in Threads, ReadDeadline(t) PROVE LifetimeInv'
    BY <1>6 DEF ReadDeadline
  <1>7. ASSUME NEW t \in Threads, LockLifetime(t) PROVE LifetimeInv'
    BY <1>7 DEF LockLifetime
  <1>8. ASSUME NEW t \in Threads, LockNode(t) PROVE LifetimeInv'
    BY <1>8 DEF LockNode
  <1>9. ASSUME NEW t \in Threads, LockCamera(t) PROVE LifetimeInv'
    BY <1>9 DEF LockCamera
  <1>10. ASSUME NEW t \in Threads, WaitSlice(t) PROVE LifetimeInv'
    BY <1>10 DEF WaitSlice
  <1>11. ASSUME NEW t \in Threads, IndexLookup(t) PROVE LifetimeInv'
    BY <1>11 DEF IndexLookup
  <1>12. ASSUME NEW t \in Threads, CleanupRead(t) PROVE LifetimeInv'
    BY <1>12 DEF CleanupRead
  <1>13. ASSUME NEW t \in Threads, CleanupLock(t) PROVE LifetimeInv'
    BY <1>13 DEF CleanupLock
  <1>14. ASSUME NEW t \in Threads, CleanupRecheck(t) PROVE LifetimeInv'
    BY <1>14 DEF CleanupRecheck
  <1>15. ASSUME NEW t \in Threads, StoreClosing(t) PROVE LifetimeInv'
    BY <1>15 DEF StoreClosing
  <1>16. ASSUME NEW t \in Threads, LockBarrier(t) PROVE LifetimeInv'
    BY <1>16 DEF LockBarrier
  <1>17. ASSUME NEW t \in Threads, TearDown(t) PROVE LifetimeInv'
    BY <1>17 DEF TearDown
  <1>18. ASSUME NEW t \in Threads, Finish(t) PROVE LifetimeInv'
    BY <1>18 DEF Finish
  <1>19. ASSUME NEW t \in Threads, UnlockCamera(t) PROVE LifetimeInv'
    BY <1>19 DEF UnlockCamera
  <1>20. ASSUME NEW t \in Threads, UnlockNode(t) PROVE LifetimeInv'
    BY <1>20 DEF UnlockNode
  <1>21. ASSUME NEW t \in Threads, DropGate(t) PROVE LifetimeInv'
    BY <1>21 DEF DropGate
  <1>22. ASSUME NEW t \in Threads, UnlockLifetime(t) PROVE LifetimeInv'
    BY <1>22 DEF UnlockLifetime
  <1>23. CASE UNCHANGED vars
    BY <1>23 DEF vars
  <1>. QED
    BY <1>1, <1>2, <1>3, <1>4, <1>5, <1>6, <1>7, <1>8, <1>9, <1>10, <1>11, <1>12, <1>13, <1>14, <1>15,
         <1>16, <1>17, <1>18, <1>19, <1>20, <1>21, <1>22, <1>23 DEF Next, Run, TakeLock

\* Every step keeps a thread on the route its kind of operation takes through the locks.
LEMMA RouteInvStep == IInv /\ [Next]_vars => RouteInv'
  <1> SUFFICES ASSUME IInv, [Next]_vars PROVE RouteInv'
    OBVIOUS
  <1> USE KindsAssumption, ThreadAssumption, NodeAssumption, GateAssumption DEF IInv, TypeOK, RouteInv, Owns, OwnsGate, LastLock, LifetimeInv
  <1>1. ASSUME NEW t \in Threads, NEW k \in Kinds, NEW n \in (IF k \in NodeKinds THEN Nodes ELSE {NoNode}), Start(t, k, n)
        PROVE  RouteInv'
    BY <1>1 DEF Start
  <1>2. ASSUME NEW t \in Threads, Cancel(t) PROVE RouteInv'
    BY <1>2 DEF Cancel
  <1>3. ASSUME NEW t \in Threads, Expire(t) PROVE RouteInv'
    BY <1>3 DEF Expire
  <1>4. ASSUME NEW t \in Threads, ReadClosing(t) PROVE RouteInv'
    BY <1>4 DEF ReadClosing
  <1>5. ASSUME NEW t \in Threads, ReadCancel(t) PROVE RouteInv'
    BY <1>5 DEF ReadCancel
  <1>6. ASSUME NEW t \in Threads, ReadDeadline(t) PROVE RouteInv'
    BY <1>6 DEF ReadDeadline
  <1>7. ASSUME NEW t \in Threads, LockLifetime(t) PROVE RouteInv'
    BY <1>7 DEF LockLifetime
  <1>8. ASSUME NEW t \in Threads, LockNode(t) PROVE RouteInv'
    BY <1>8 DEF LockNode
  <1>9. ASSUME NEW t \in Threads, LockCamera(t) PROVE RouteInv'
    BY <1>9 DEF LockCamera
  <1>10. ASSUME NEW t \in Threads, WaitSlice(t) PROVE RouteInv'
    BY <1>10 DEF WaitSlice
  <1>11. ASSUME NEW t \in Threads, IndexLookup(t) PROVE RouteInv'
    BY <1>11 DEF IndexLookup
  <1>12. ASSUME NEW t \in Threads, CleanupRead(t) PROVE RouteInv'
    BY <1>12 DEF CleanupRead
  <1>13. ASSUME NEW t \in Threads, CleanupLock(t) PROVE RouteInv'
    BY <1>13 DEF CleanupLock
  <1>14. ASSUME NEW t \in Threads, CleanupRecheck(t) PROVE RouteInv'
    BY <1>14 DEF CleanupRecheck
  <1>15. ASSUME NEW t \in Threads, StoreClosing(t) PROVE RouteInv'
    BY <1>15 DEF StoreClosing
  <1>16. ASSUME NEW t \in Threads, LockBarrier(t) PROVE RouteInv'
    BY <1>16 DEF LockBarrier
  <1>17. ASSUME NEW t \in Threads, TearDown(t) PROVE RouteInv'
    BY <1>17 DEF TearDown
  <1>18. ASSUME NEW t \in Threads, Finish(t) PROVE RouteInv'
    BY <1>18 DEF Finish
  <1>19. ASSUME NEW t \in Threads, UnlockCamera(t) PROVE RouteInv'
    BY <1>19 DEF UnlockCamera
  <1>20. ASSUME NEW t \in Threads, UnlockNode(t) PROVE RouteInv'
    BY <1>20 DEF UnlockNode
  <1>21. ASSUME NEW t \in Threads, DropGate(t) PROVE RouteInv'
    BY <1>21 DEF DropGate
  <1>22. ASSUME NEW t \in Threads, UnlockLifetime(t) PROVE RouteInv'
    BY <1>22 DEF UnlockLifetime
  <1>23. CASE UNCHANGED vars
    BY <1>23 DEF vars
  <1>. QED
    BY <1>1, <1>2, <1>3, <1>4, <1>5, <1>6, <1>7, <1>8, <1>9, <1>10, <1>11, <1>12, <1>13, <1>14, <1>15,
         <1>16, <1>17, <1>18, <1>19, <1>20, <1>21, <1>22, <1>23 DEF Next, Run, TakeLock

\* Every step keeps the node mutexes and their weak index in agreement; IndexLookup is the
\* one that could give a node a second mutex.
LEMMA GateInvStep == IInv /\ [Next]_vars => GateInv'
  <1> SUFFICES ASSUME IInv, [Next]_vars PROVE GateInv'
    OBVIOUS
  <1> USE KindsAssumption, ThreadAssumption, NodeAssumption, GateAssumption DEF IInv, TypeOK, GateInv, Owns, OwnsGate, LastLock, Live, LifetimeInv, RouteInv
  <1>1. ASSUME NEW t \in Threads, NEW k \in Kinds, NEW n \in (IF k \in NodeKinds THEN Nodes ELSE {NoNode}), Start(t, k, n)
        PROVE  GateInv'
    BY <1>1 DEF Start
  <1>2. ASSUME NEW t \in Threads, Cancel(t) PROVE GateInv'
    BY <1>2 DEF Cancel
  <1>3. ASSUME NEW t \in Threads, Expire(t) PROVE GateInv'
    BY <1>3 DEF Expire
  <1>4. ASSUME NEW t \in Threads, ReadClosing(t) PROVE GateInv'
    BY <1>4 DEF ReadClosing
  <1>5. ASSUME NEW t \in Threads, ReadCancel(t) PROVE GateInv'
    BY <1>5 DEF ReadCancel
  <1>6. ASSUME NEW t \in Threads, ReadDeadline(t) PROVE GateInv'
    BY <1>6 DEF ReadDeadline
  <1>7. ASSUME NEW t \in Threads, LockLifetime(t) PROVE GateInv'
    BY <1>7 DEF LockLifetime
  <1>8. ASSUME NEW t \in Threads, LockNode(t) PROVE GateInv'
    BY <1>8 DEF LockNode
  <1>9. ASSUME NEW t \in Threads, LockCamera(t) PROVE GateInv'
    BY <1>9 DEF LockCamera
  <1>10. ASSUME NEW t \in Threads, WaitSlice(t) PROVE GateInv'
    BY <1>10 DEF WaitSlice
  <1>11. ASSUME NEW t \in Threads, IndexLookup(t) PROVE GateInv'
    BY <1>11 DEF IndexLookup
  <1>12. ASSUME NEW t \in Threads, CleanupRead(t) PROVE GateInv'
    BY <1>12 DEF CleanupRead
  <1>13. ASSUME NEW t \in Threads, CleanupLock(t) PROVE GateInv'
    BY <1>13 DEF CleanupLock
  <1>14. ASSUME NEW t \in Threads, CleanupRecheck(t) PROVE GateInv'
    BY <1>14 DEF CleanupRecheck
  <1>15. ASSUME NEW t \in Threads, StoreClosing(t) PROVE GateInv'
    BY <1>15 DEF StoreClosing
  <1>16. ASSUME NEW t \in Threads, LockBarrier(t) PROVE GateInv'
    BY <1>16 DEF LockBarrier
  <1>17. ASSUME NEW t \in Threads, TearDown(t) PROVE GateInv'
    BY <1>17 DEF TearDown
  <1>18. ASSUME NEW t \in Threads, Finish(t) PROVE GateInv'
    BY <1>18 DEF Finish
  <1>19. ASSUME NEW t \in Threads, UnlockCamera(t) PROVE GateInv'
    BY <1>19 DEF UnlockCamera
  <1>20. ASSUME NEW t \in Threads, UnlockNode(t) PROVE GateInv'
    BY <1>20 DEF UnlockNode
  <1>21. ASSUME NEW t \in Threads, DropGate(t) PROVE GateInv'
    BY <1>21 DEF DropGate
  <1>22. ASSUME NEW t \in Threads, UnlockLifetime(t) PROVE GateInv'
    BY <1>22 DEF UnlockLifetime
  <1>23. CASE UNCHANGED vars
    BY <1>23 DEF vars
  <1>. QED
    <2> HIDE DEF IInv, TypeOK, GateInv, Owns, OwnsGate, LastLock, Live, LifetimeInv, RouteInv
    <2> QED
      BY <1>1, <1>2, <1>3, <1>4, <1>5, <1>6, <1>7, <1>8, <1>9, <1>10, <1>11, <1>12, <1>13, <1>14, <1>15,
         <1>16, <1>17, <1>18, <1>19, <1>20, <1>21, <1>22, <1>23 DEF Next, Run, TakeLock

\* Every step keeps the record of who read mClosing before BeginShutdown stored it.
LEMMA ClosingInvStep == IInv /\ [Next]_vars => ClosingInv'
  <1> SUFFICES ASSUME IInv, [Next]_vars PROVE ClosingInv'
    OBVIOUS
  <1> USE KindsAssumption, ThreadAssumption, NodeAssumption, GateAssumption DEF IInv, TypeOK, ClosingInv, Owns, OwnsGate, LastLock, Cleared, LifetimeInv, RouteInv, GateInv
  <1>1. ASSUME NEW t \in Threads, NEW k \in Kinds, NEW n \in (IF k \in NodeKinds THEN Nodes ELSE {NoNode}), Start(t, k, n)
        PROVE  ClosingInv'
    BY <1>1 DEF Start
  <1>2. ASSUME NEW t \in Threads, Cancel(t) PROVE ClosingInv'
    BY <1>2 DEF Cancel
  <1>3. ASSUME NEW t \in Threads, Expire(t) PROVE ClosingInv'
    BY <1>3 DEF Expire
  <1>4. ASSUME NEW t \in Threads, ReadClosing(t) PROVE ClosingInv'
    BY <1>4 DEF ReadClosing
  <1>5. ASSUME NEW t \in Threads, ReadCancel(t) PROVE ClosingInv'
    BY <1>5 DEF ReadCancel
  <1>6. ASSUME NEW t \in Threads, ReadDeadline(t) PROVE ClosingInv'
    BY <1>6 DEF ReadDeadline
  <1>7. ASSUME NEW t \in Threads, LockLifetime(t) PROVE ClosingInv'
    BY <1>7 DEF LockLifetime
  <1>8. ASSUME NEW t \in Threads, LockNode(t) PROVE ClosingInv'
    BY <1>8 DEF LockNode
  <1>9. ASSUME NEW t \in Threads, LockCamera(t) PROVE ClosingInv'
    BY <1>9 DEF LockCamera
  <1>10. ASSUME NEW t \in Threads, WaitSlice(t) PROVE ClosingInv'
    BY <1>10 DEF WaitSlice
  <1>11. ASSUME NEW t \in Threads, IndexLookup(t) PROVE ClosingInv'
    BY <1>11 DEF IndexLookup
  <1>12. ASSUME NEW t \in Threads, CleanupRead(t) PROVE ClosingInv'
    BY <1>12 DEF CleanupRead
  <1>13. ASSUME NEW t \in Threads, CleanupLock(t) PROVE ClosingInv'
    BY <1>13 DEF CleanupLock
  <1>14. ASSUME NEW t \in Threads, CleanupRecheck(t) PROVE ClosingInv'
    BY <1>14 DEF CleanupRecheck
  <1>15. ASSUME NEW t \in Threads, StoreClosing(t) PROVE ClosingInv'
    BY <1>15 DEF StoreClosing
  <1>16. ASSUME NEW t \in Threads, LockBarrier(t) PROVE ClosingInv'
    BY <1>16 DEF LockBarrier
  <1>17. ASSUME NEW t \in Threads, TearDown(t) PROVE ClosingInv'
    BY <1>17 DEF TearDown
  <1>18. ASSUME NEW t \in Threads, Finish(t) PROVE ClosingInv'
    BY <1>18 DEF Finish
  <1>19. ASSUME NEW t \in Threads, UnlockCamera(t) PROVE ClosingInv'
    BY <1>19 DEF UnlockCamera
  <1>20. ASSUME NEW t \in Threads, UnlockNode(t) PROVE ClosingInv'
    BY <1>20 DEF UnlockNode
  <1>21. ASSUME NEW t \in Threads, DropGate(t) PROVE ClosingInv'
    BY <1>21 DEF DropGate
  <1>22. ASSUME NEW t \in Threads, UnlockLifetime(t) PROVE ClosingInv'
    BY <1>22 DEF UnlockLifetime
  <1>23. CASE UNCHANGED vars
    BY <1>23 DEF vars
  <1>. QED
    <2> HIDE DEF IInv, TypeOK, ClosingInv, Owns, OwnsGate, LastLock, Cleared, LifetimeInv, RouteInv, GateInv
    <2> QED
      BY <1>1, <1>2, <1>3, <1>4, <1>5, <1>6, <1>7, <1>8, <1>9, <1>10, <1>11, <1>12, <1>13, <1>14, <1>15,
         <1>16, <1>17, <1>18, <1>19, <1>20, <1>21, <1>22, <1>23 DEF Next, Run, TakeLock

\* Every step keeps the order in which a thread comes to own its locks.
LEMMA OrderInvStep == IInv /\ [Next]_vars => OrderInv'
  <1> SUFFICES ASSUME IInv, [Next]_vars PROVE OrderInv'
    OBVIOUS
  <1> USE KindsAssumption, ThreadAssumption, NodeAssumption, GateAssumption DEF IInv, TypeOK, OrderInv, Owns, OwnsGate, LastLock, LifetimeInv, RouteInv, GateInv
  <1>1. ASSUME NEW t \in Threads, NEW k \in Kinds, NEW n \in (IF k \in NodeKinds THEN Nodes ELSE {NoNode}), Start(t, k, n)
        PROVE  OrderInv'
    BY <1>1 DEF Start
  <1>2. ASSUME NEW t \in Threads, Cancel(t) PROVE OrderInv'
    BY <1>2 DEF Cancel
  <1>3. ASSUME NEW t \in Threads, Expire(t) PROVE OrderInv'
    BY <1>3 DEF Expire
  <1>4. ASSUME NEW t \in Threads, ReadClosing(t) PROVE OrderInv'
    BY <1>4 DEF ReadClosing
  <1>5. ASSUME NEW t \in Threads, ReadCancel(t) PROVE OrderInv'
    BY <1>5 DEF ReadCancel
  <1>6. ASSUME NEW t \in Threads, ReadDeadline(t) PROVE OrderInv'
    BY <1>6 DEF ReadDeadline
  <1>7. ASSUME NEW t \in Threads, LockLifetime(t) PROVE OrderInv'
    BY <1>7 DEF LockLifetime
  <1>8. ASSUME NEW t \in Threads, LockNode(t) PROVE OrderInv'
    BY <1>8 DEF LockNode
  <1>9. ASSUME NEW t \in Threads, LockCamera(t) PROVE OrderInv'
    BY <1>9 DEF LockCamera
  <1>10. ASSUME NEW t \in Threads, WaitSlice(t) PROVE OrderInv'
    BY <1>10 DEF WaitSlice
  <1>11. ASSUME NEW t \in Threads, IndexLookup(t) PROVE OrderInv'
    BY <1>11 DEF IndexLookup
  <1>12. ASSUME NEW t \in Threads, CleanupRead(t) PROVE OrderInv'
    BY <1>12 DEF CleanupRead
  <1>13. ASSUME NEW t \in Threads, CleanupLock(t) PROVE OrderInv'
    BY <1>13 DEF CleanupLock
  <1>14. ASSUME NEW t \in Threads, CleanupRecheck(t) PROVE OrderInv'
    BY <1>14 DEF CleanupRecheck
  <1>15. ASSUME NEW t \in Threads, StoreClosing(t) PROVE OrderInv'
    BY <1>15 DEF StoreClosing
  <1>16. ASSUME NEW t \in Threads, LockBarrier(t) PROVE OrderInv'
    BY <1>16 DEF LockBarrier
  <1>17. ASSUME NEW t \in Threads, TearDown(t) PROVE OrderInv'
    BY <1>17 DEF TearDown
  <1>18. ASSUME NEW t \in Threads, Finish(t) PROVE OrderInv'
    BY <1>18 DEF Finish
  <1>19. ASSUME NEW t \in Threads, UnlockCamera(t) PROVE OrderInv'
    BY <1>19 DEF UnlockCamera
  <1>20. ASSUME NEW t \in Threads, UnlockNode(t) PROVE OrderInv'
    BY <1>20 DEF UnlockNode
  <1>21. ASSUME NEW t \in Threads, DropGate(t) PROVE OrderInv'
    BY <1>21 DEF DropGate
  <1>22. ASSUME NEW t \in Threads, UnlockLifetime(t) PROVE OrderInv'
    BY <1>22 DEF UnlockLifetime
  <1>23. CASE UNCHANGED vars
    BY <1>23 DEF vars
  <1>. QED
    BY <1>1, <1>2, <1>3, <1>4, <1>5, <1>6, <1>7, <1>8, <1>9, <1>10, <1>11, <1>12, <1>13, <1>14, <1>15,
         <1>16, <1>17, <1>18, <1>19, <1>20, <1>21, <1>22, <1>23 DEF Next, Run, TakeLock

\* The inductive invariant holds in every reachable state.
LEMMA Inductive == Spec => []IInv
  <1>1. IInv /\ [Next]_vars => IInv'
    BY TypeOKStep, LifetimeInvStep, RouteInvStep, GateInvStep, ClosingInvStep, OrderInvStep DEF IInv
  <1>2. QED
    BY <1>1, IInvInit, PTL DEF Spec

-----------------------------------------------------------------------------
(* The properties of RuntimeAdmission.                                      *)

\* Type correctness of the admission state.
THEOREM TypeCorrect == Spec => []TypeOK
  <1>1. IInv => TypeOK
    BY DEF IInv
  <1>2. QED
    BY <1>1, Inductive, PTL

\* Operations of one node, camera operations, and exclusive ones beside any other exclude
\* each other, for every number of threads, nodes and mutexes.
THEOREM OperationsExclude == Spec => []Exclusion
  <1>1. ASSUME IInv, NEW t \in Threads, NEW u \in Threads, Admitted(t), Admitted(u), t # u
        PROVE  ~({kind[t], kind[u]} \subseteq NodeKinds /\ node[t] = node[u])
    BY <1>1, NodeAssumption DEF IInv, GateInv, Admitted, OwnsGate
  <1>2. ASSUME IInv, NEW t \in Threads, NEW u \in Threads, Admitted(t), Admitted(u), t # u
        PROVE  ~({kind[t], kind[u]} \subseteq CameraKinds) /\ kind[t] # "exclusive"
    BY <1>2, ThreadAssumption DEF IInv, TypeOK, LifetimeInv, GateInv, Admitted
  <1>3. IInv => Exclusion
    BY <1>1, <1>2 DEF Exclusion
  <1>4. QED
    BY <1>3, Inductive, PTL

\* Referenced mutexes and the nodes of their holders match one to one.
THEOREM GatesAreNodes == Spec => []GateIsNode
  <1>1. IInv => GateIsNode
    BY DEF IInv, GateInv, GateIsNode
  <1>2. QED
    BY <1>1, Inductive, PTL

\* No operation is admitted while or after Close tears the controller down.
THEOREM TeardownIsFinal == Spec => []NoUseAfterTeardown
  <1>1. IInv => NoUseAfterTeardown
    BY ThreadAssumption DEF IInv, TypeOK, LifetimeInv, ClosingInv, Cleared, NoUseAfterTeardown, Admitted
  <1>2. QED
    BY <1>1, Inductive, PTL

\* Operations queued at BeginShutdown are refused.
THEOREM QueuedAreRefused == Spec => []QueuedIsRefused
  <1>1. IInv => QueuedIsRefused
    BY DEF IInv, ClosingInv, Cleared, QueuedIsRefused, Admitted
  <1>2. QED
    BY <1>1, Inductive, PTL

\* No threads wait for each other's locks in a circle.
THEOREM WaitsAreOrdered == Spec => []NoCircularWait
  <1>1. ASSUME IInv, NEW t \in Threads, NEW u \in Threads, NEW v \in Threads,
               WaitsFor(t, u), WaitsFor(u, v)
        PROVE  waiting[u] \in After[waiting[t]]
    <2> USE <1>1, ThreadAssumption, GateAssumption DEF IInv, TypeOK, WaitsFor, After
    <2>1. ~Owns(u) \/ pc[u] \in Outside
      BY DEF OrderInv
    <2>2. CASE waiting[t] = "lifetime"
      BY <2>1, <2>2 DEF LifetimeInv, RouteInv, Owns
    <2>3. CASE waiting[t] = "node"
      <3>1. gate[t] \in Gates /\ gateOwner[gate[t]] = u
        BY <2>3 DEF GateInv
      <3>2. gate[u] = gate[t]
        BY <3>1 DEF OrderInv
      <3>3. InLoop(u) /\ waiting[u] # "lifetime"
        BY <3>1, <3>2 DEF GateInv, RouteInv
      <3>4. QED
        BY <2>1, <2>3, <3>1, <3>2, <3>3 DEF Owns, OwnsGate
    <2>4. CASE waiting[t] = "camera"
      BY <2>1, <2>4 DEF OrderInv, Owns
    <2>5. QED
      BY <2>2, <2>3, <2>4
  <1>2. IInv => NoCircularWait
    BY <1>1 DEF NoCircularWait
  <1>3. QED
    BY <1>2, Inductive, PTL

-----------------------------------------------------------------------------
(* RuntimeAdmission implements LeaseTable.                                  *)

\* What the invariant says of the leases: they are well formed and compatible.
LeasesFit ==
    \A t \in Threads : Admitted(t) =>
        /\ LeaseOf(t) \in Table!Lease
        /\ LeaseOf(t) # NoLease
        /\ \A u \in Threads \ {t} : Admitted(u) => Table!Compatible(LeaseOf(t), LeaseOf(u))

\* In a state of the inductive invariant every admitted operation has a lease that is
\* compatible with all the others.
LEMMA IInvLeasesFit == IInv => LeasesFit
  <1> SUFFICES ASSUME IInv, NEW t \in Threads, Admitted(t)
               PROVE  /\ LeaseOf(t) \in Table!Lease
                      /\ LeaseOf(t) # NoLease
                      /\ \A u \in Threads \ {t} :
                            Admitted(u) => Table!Compatible(LeaseOf(t), LeaseOf(u))
    BY DEF LeasesFit
  <1>1. LeaseOf(t) \in Table!Lease /\ LeaseOf(t) # NoLease
    BY LeaseAssumption DEF IInv, RouteInv, LeaseOf, Table!Lease
  <1>2. ASSUME NEW u \in Threads \ {t}, Admitted(u)
        PROVE  Table!Compatible(LeaseOf(t), LeaseOf(u))
    <2>1. /\ ~(kind[t] \in CameraKinds /\ kind[u] \in CameraKinds)
          /\ kind[t] # "exclusive" /\ kind[u] # "exclusive"
      BY <1>2, ThreadAssumption DEF IInv, TypeOK, LifetimeInv, GateInv, Admitted
    <2>2. kind[t] \in NodeKinds /\ kind[u] \in NodeKinds => node[t] # node[u]
      BY <1>2, NodeAssumption DEF IInv, GateInv, Admitted, OwnsGate
    <2>3. \A v \in {t, u} : kind[v] \in NodeKinds => node[v] # NoNode
      BY <1>2, NodeAssumption DEF IInv, RouteInv
    <2>4. QED
      BY <1>2, <2>1, <2>2, <2>3 DEF Table!Compatible, LeaseOf
  <1>3. QED
    BY <1>1, <1>2

\* The table after a step that changes the leases of t alone.
LEMMA OneLease ==
    ASSUME NEW t \in Threads, \A u \in Threads \ {t} : LeaseOf(u)' = LeaseOf(u)
    PROVE  [u \in Threads |-> LeaseOf(u)]' = [[u \in Threads |-> LeaseOf(u)] EXCEPT ![t] = LeaseOf(t)']
  OBVIOUS

\* An admission grants its lease beside compatible ones.
LEMMA AdmissionGrants ==
    ASSUME LeasesFit', NEW t \in Threads, UNCHANGED closed, ~closed, ~Admitted(t), Admitted(t)',
           \A u \in Threads \ {t} : LeaseOf(u)' = LeaseOf(u) /\ Admitted(u)' = Admitted(u)
    PROVE  Table!Next
  <1>1. LeaseOf(t)' \in Table!Lease
    BY DEF LeasesFit
  <1>2. \A u \in Threads \ {t} : LeaseOf(u) # NoLease => Table!Compatible(LeaseOf(t)', LeaseOf(u))
    BY DEF LeasesFit, LeaseOf
  <1>3. LeaseOf(t) = NoLease
    BY DEF LeaseOf
  <1>4. Table!Grant(t, LeaseOf(t)')
    BY <1>2, <1>3, OneLease DEF Table!Grant
  <1>5. QED
    BY <1>1, <1>4 DEF Table!Next

\* Steps that leave every lease alone.
LEMMA QuietStep ==
    ASSUME IInv, NEW t \in Threads,
           \/ \E k \in Kinds, n \in Nodes \cup {NoNode} : Start(t, k, n)
           \/ Cancel(t) \/ Expire(t) \/ ReadClosing(t) \/ ReadCancel(t) \/ TakeLock(t) \/ WaitSlice(t)
           \/ IndexLookup(t) \/ CleanupRead(t) \/ CleanupLock(t) \/ StoreClosing(t) \/ LockBarrier(t)
           \/ UnlockCamera(t) \/ UnlockNode(t) \/ DropGate(t) \/ UnlockLifetime(t)
    PROVE  UNCHANGED Table!vars
  <1>1. UNCHANGED closed /\ \A u \in Threads : LeaseOf(u)' = LeaseOf(u)
    <2> USE DEF IInv, TypeOK, LeaseOf, Admitted
    <2>1. CASE \E k \in Kinds, n \in Nodes \cup {NoNode} : Start(t, k, n)
      BY <2>1 DEF Start
    <2>2. CASE Cancel(t) \/ Expire(t) \/ ReadClosing(t) \/ ReadCancel(t) \/ WaitSlice(t)
      BY <2>2 DEF Cancel, Expire, ReadClosing, ReadCancel, WaitSlice
    <2>3. CASE TakeLock(t) \/ CleanupRead(t) \/ CleanupLock(t) \/ LockBarrier(t)
      BY <2>3 DEF TakeLock, LockLifetime, LockNode, LockCamera, CleanupRead, CleanupLock, LockBarrier
    <2>4. CASE IndexLookup(t)
      BY <2>4 DEF IndexLookup
    <2>5. CASE StoreClosing(t)
      BY <2>5 DEF StoreClosing
    <2>6. CASE UnlockCamera(t) \/ UnlockNode(t) \/ DropGate(t) \/ UnlockLifetime(t)
      BY <2>6 DEF UnlockCamera, UnlockNode, DropGate, UnlockLifetime
    <2>7. QED
      BY <2>1, <2>2, <2>3, <2>4, <2>5, <2>6
  <1>2. QED
    BY <1>1 DEF Table!vars

\* A step is a step of the table, or a stutter.
LEMMA StepImplements == IInv /\ LeasesFit' /\ [Next]_vars => [Table!Next]_(Table!vars)
  <1> SUFFICES ASSUME IInv, LeasesFit', [Next]_vars PROVE [Table!Next]_(Table!vars)
    OBVIOUS
  <1>1. ASSUME NEW t \in Threads, ReadDeadline(t) PROVE [Table!Next]_(Table!vars)
    <2>1. UNCHANGED <<closed, kind, node>> /\ ~Admitted(t)
          /\ \A u \in Threads \ {t} : LeaseOf(u)' = LeaseOf(u) /\ Admitted(u)' = Admitted(u)
      BY <1>1 DEF ReadDeadline, IInv, TypeOK, LeaseOf, Admitted
    <2>2. CASE Admitted(t)'
      <3>1. Cleared(t)
        BY <1>1, <2>2 DEF ReadDeadline, IInv, TypeOK, Admitted, Cleared
      <3>2. ~closed
        BY <3>1 DEF IInv, ClosingInv
      <3>3. QED
        BY <2>1, <2>2, <3>2, AdmissionGrants
    <2>3. CASE ~Admitted(t)'
      BY <2>1, <2>3 DEF Table!vars, LeaseOf
    <2>4. QED
      BY <2>2, <2>3
  <1>2. ASSUME NEW t \in Threads, CleanupRecheck(t) PROVE [Table!Next]_(Table!vars)
    <2>1. UNCHANGED <<closed, kind, node>> /\ ~Admitted(t)
          /\ \A u \in Threads \ {t} : LeaseOf(u)' = LeaseOf(u) /\ Admitted(u)' = Admitted(u)
      BY <1>2 DEF CleanupRecheck, IInv, TypeOK, LeaseOf, Admitted
    <2>2. CASE Admitted(t)'
      <3>1. ~closed
        BY <1>2, <2>2 DEF CleanupRecheck, IInv, TypeOK, ClosingInv, Admitted
      <3>2. QED
        BY <2>1, <2>2, <3>1, AdmissionGrants
    <2>3. CASE ~Admitted(t)'
      BY <2>1, <2>3 DEF Table!vars, LeaseOf
    <2>4. QED
      BY <2>2, <2>3
  <1>3. ASSUME NEW t \in Threads, Finish(t) PROVE [Table!Next]_(Table!vars)
    <2>1. /\ UNCHANGED closed /\ Admitted(t) /\ LeaseOf(t)' = NoLease
          /\ \A u \in Threads \ {t} : LeaseOf(u)' = LeaseOf(u)
      BY <1>3 DEF Finish, IInv, TypeOK, LeaseOf, Admitted
    <2>2. LeaseOf(t) # NoLease
      BY <2>1, IInvLeasesFit DEF LeasesFit
    <2>3. Table!Return(t)
      BY <2>1, <2>2, OneLease DEF Table!Return
    <2>4. QED
      BY <2>3 DEF Table!Next
  <1>4. ASSUME NEW t \in Threads, TearDown(t) PROVE [Table!Next]_(Table!vars)
    <2>1. \A u \in Threads : ~Admitted(u)
      BY <1>4, ThreadAssumption DEF TearDown, IInv, TypeOK, LifetimeInv, Admitted
    <2>2. Table!TearDown
      BY <1>4, <2>1 DEF TearDown, IInv, TypeOK, LeaseOf, Admitted, Table!TearDown
    <2>3. QED
      BY <2>2 DEF Table!Next
  <1>5. CASE UNCHANGED vars
    BY <1>5 DEF vars, Table!vars, LeaseOf, Admitted
  <1>6. QED
    BY <1>1, <1>2, <1>3, <1>4, <1>5, QuietStep DEF Next, Run

\* RuntimeAdmission implements the table of leases.
THEOREM Implements == Spec => ImplementsLeaseTable
  <1>1. Init => Table!Init
    BY DEF Init, Table!Init, LeaseOf, Admitted
  <1>2. QED
    BY <1>1, StepImplements, IInvLeasesFit, Inductive, PTL DEF Spec, ImplementsLeaseTable, Table!Spec
=============================================================================
