-------------------------- MODULE RuntimeAdmission --------------------------
(***************************************************************************)
(* RuntimeOperationAdmission (winrt/Projection.cpp): the locks every        *)
(* operation of a MatterController passes before it touches the native      *)
(* controller.  An operation holds the lifetime lock, shared or exclusive,  *)
(* then the timed mutex of its node, then the camera gate.  Every wait is a *)
(* loop that reads mClosing, the cancellation flag and the clock, in this   *)
(* order, and returns only when a pass finds the lock already owned.        *)
(*                                                                          *)
(* A thread runs one operation at a time, again and again.  Each atomic     *)
(* load, each lock call and each unlock is a step of its own, and the       *)
(* section under mIndexMutex is one step.                                   *)
(***************************************************************************)
EXTENDS FiniteSets

CONSTANTS
    Threads,    \* threads of the caller's pool, one operation at a time
    NoThread,   \* owner of a free mutex
    Nodes,      \* device node ids
    NoNode,     \* the node of an operation without one
    Gates,      \* identities of the timed_mutex objects of mNodeMutexes
    NoGate,     \* an empty shared_ptr or weak_ptr
    NoLease,    \* what an operation holds before it is admitted
    Kinds       \* the kinds of operation the threads run

\* What an operation acquires: AcquireLifetime; AcquireNode; AcquireNode and the
\* camera gate; AcquireExclusive; AcquireCleanup; AcquireCleanup, node and camera
\* gates (CloseCamera); BeginShutdown (ControllerRuntime::Close).
AllKinds == {"global", "node", "camera", "exclusive", "cleanup", "closeCamera", "close"}

ASSUME KindsAssumption == Kinds \subseteq AllKinds
ASSUME ThreadAssumption == NoThread \notin Threads
ASSUME NodeAssumption == NoNode \notin Nodes
ASSUME GateAssumption == NoGate \notin Gates
ASSUME LeaseAssumption ==
    NoLease \notin [mode : {"shared", "exclusive"}, node : Nodes \cup {NoNode}, host : {"camera", "none"}]

\* make_shared never runs out of mutex objects: one can be referenced per thread.
ASSUME GateSupply ==
    \A held \in [Threads -> Gates \cup {NoGate}] :
        (\E t \in Threads : held[t] = NoGate) => \E g \in Gates : \A t \in Threads : held[t] # g

VARIABLES
    closing,     \* mClosing
    closed,      \* ControllerRuntime::mClosed: the native controller is torn down
    shared,      \* threads that own mLifetimeMutex shared
    exclusive,   \* the thread that owns mLifetimeMutex exclusively
    index,       \* mNodeMutexes: the mutex each weak_ptr was last given
    gate,        \* the shared_ptr<timed_mutex> a thread holds
    gateOwner,   \* who has locked each node mutex
    camera,      \* who has locked mCameraOperationMutex
    pc,          \* where the thread stands
    waiting,     \* the lock the thread's current loop is for
    kind, node,  \* the operation's kind and node id
    cancelled,   \* its cancellation flag
    expired,     \* whether its deadline has passed
    cleared      \* history: threads past their last read of mClosing at BeginShutdown

locks == <<shared, exclusive, index, gate, gateOwner, camera>>
request == <<kind, node>>
signals == <<cancelled, expired>>
vars == <<closing, closed, locks, pc, waiting, request, signals, cleared>>

Cleanups == {"cleanup", "closeCamera"}
NodeKinds == {"node", "camera", "closeCamera"}
CameraKinds == {"camera", "closeCamera"}
Cancellable == {"node", "camera", "exclusive"}
Looping == {"ReadClosing", "ReadCancel", "ReadDeadline", "TryLock"}
Steps == Looping \cup {"Idle", "IndexLookup", "CleanupRead", "CleanupLock", "CleanupRecheck",
                       "Operating", "Release", "Store", "BarrierLock", "Barrier"}

TypeOK ==
    /\ closing \in BOOLEAN /\ closed \in BOOLEAN
    /\ shared \subseteq Threads
    /\ exclusive \in Threads \cup {NoThread}
    /\ index \in [Nodes -> Gates \cup {NoGate}]
    /\ gate \in [Threads -> Gates \cup {NoGate}]
    /\ gateOwner \in [Gates -> Threads \cup {NoThread}]
    /\ camera \in Threads \cup {NoThread}
    /\ pc \in [Threads -> Steps]
    /\ waiting \in [Threads -> {"lifetime", "node", "camera"}]
    /\ kind \in [Threads -> AllKinds \cup {"none"}]
    /\ node \in [Threads -> Nodes \cup {NoNode}]
    /\ cancelled \in [Threads -> BOOLEAN]
    /\ expired \in [Threads -> BOOLEAN]
    /\ cleared \subseteq Threads

Init ==
    /\ closing = FALSE /\ closed = FALSE
    /\ shared = {} /\ exclusive = NoThread
    /\ index = [n \in Nodes |-> NoGate]
    /\ gate = [t \in Threads |-> NoGate]
    /\ gateOwner = [g \in Gates |-> NoThread]
    /\ camera = NoThread
    /\ pc = [t \in Threads |-> "Idle"]
    /\ waiting = [t \in Threads |-> "lifetime"]
    /\ kind = [t \in Threads |-> "none"]
    /\ node = [t \in Threads |-> NoNode]
    /\ cancelled = [t \in Threads |-> FALSE]
    /\ expired = [t \in Threads |-> FALSE]
    /\ cleared = {}

-----------------------------------------------------------------------------
(* Lock state.                                                              *)

OwnsGate(t) == gate[t] # NoGate /\ gateOwner[gate[t]] = t

\* lock.owns_lock() of the loop the thread is in.
Owns(t) ==
    \/ waiting[t] = "lifetime" /\ (t \in shared \/ exclusive = t)
    \/ waiting[t] = "node" /\ OwnsGate(t)
    \/ waiting[t] = "camera" /\ camera = t

\* A weak_ptr is live while some thread holds the shared_ptr.
Live(g) == \E t \in Threads : gate[t] = g

\* The pass that finds this lock owned admits the operation.
LastLock(t) ==
    \/ waiting[t] = "camera"
    \/ waiting[t] = "node" /\ kind[t] \notin CameraKinds
    \/ waiting[t] = "lifetime" /\ kind[t] \notin NodeKinds

\* The operation has read mClosing for the last time and may still be admitted.
Cleared(t) ==
    \/ pc[t] = "Operating"
    \/ pc[t] \in {"ReadCancel", "ReadDeadline"} /\ LastLock(t) /\ Owns(t)

Goto(t, step) == pc' = [pc EXCEPT ![t] = step]

-----------------------------------------------------------------------------
(* Callers.                                                                 *)

Start(t, k, n) ==
    /\ pc[t] = "Idle"
    /\ kind' = [kind EXCEPT ![t] = k]
    /\ node' = [node EXCEPT ![t] = n]
    /\ Goto(t, IF k \in Cleanups THEN "CleanupRead"
               ELSE IF k = "close" THEN "Store"
               ELSE "ReadClosing")
    /\ UNCHANGED <<closing, closed, locks, waiting, signals, cleared>>

\* The caller cancels its asynchronous operation; the wait polls the flag.
Cancel(t) ==
    /\ pc[t] \in Looping \cup {"IndexLookup"}
    /\ kind[t] \in Cancellable
    /\ ~cancelled[t]
    /\ cancelled' = [cancelled EXCEPT ![t] = TRUE]
    /\ UNCHANGED <<closing, closed, locks, pc, waiting, request, expired, cleared>>

\* steady_clock passes the operation's deadline.
Expire(t) ==
    /\ pc[t] \in Looping \cup {"IndexLookup"}
    /\ ~expired[t]
    /\ expired' = [expired EXCEPT ![t] = TRUE]
    /\ UNCHANGED <<closing, closed, locks, pc, waiting, request, cancelled, cleared>>

-----------------------------------------------------------------------------
(* The wait loop of WaitForLifetime and AcquireOperationLock.               *)

\* Mutant: mClosing is read only before the wait, not when the lock has been taken.
ReadClosing_BeforeWaitOnly(t) ==
    /\ pc[t] = "ReadClosing"
    /\ Goto(t, IF closing /\ ~Owns(t) THEN "Release" ELSE "ReadCancel")
    /\ UNCHANGED <<closing, closed, locks, waiting, request, signals, cleared>>

ReadClosing(t) ==
    /\ pc[t] = "ReadClosing"
    /\ Goto(t, IF closing THEN "Release" ELSE "ReadCancel")
    /\ UNCHANGED <<closing, closed, locks, waiting, request, signals, cleared>>

ReadCancel(t) ==
    /\ pc[t] = "ReadCancel"
    /\ Goto(t, IF cancelled[t] THEN "Release" ELSE "ReadDeadline")
    /\ UNCHANGED <<closing, closed, locks, waiting, request, signals, cleared>>

\* Mutant: a camera operation takes the camera gate before the mutex of its node, which
\* CloseCamera takes after it.
ReadDeadline_CameraFirst(t) ==
    LET order == IF kind[t] = "camera" THEN <<"lifetime", "camera", "node">>
                                       ELSE <<"lifetime", "node", "camera">>
        last == IF kind[t] = "camera" THEN waiting[t] = "node" ELSE LastLock(t)
        next == IF waiting[t] = "lifetime" THEN order[2] ELSE order[3]
    IN  /\ pc[t] = "ReadDeadline"
        /\ \/ expired[t] /\ Goto(t, "Release") /\ UNCHANGED waiting
           \/ ~expired[t] /\ ~Owns(t) /\ Goto(t, "TryLock") /\ UNCHANGED waiting
           \/ ~expired[t] /\ Owns(t) /\ last /\ Goto(t, "Operating") /\ UNCHANGED waiting
           \/ /\ ~expired[t] /\ Owns(t) /\ ~last
              /\ Goto(t, IF next = "node" THEN "IndexLookup" ELSE "ReadClosing")
              /\ waiting' = [waiting EXCEPT ![t] = next]
        /\ UNCHANGED <<closing, closed, locks, request, signals, cleared>>

\* The clock is read, then owns_lock ends the loop: with the last lock the operation
\* is admitted, with another one it goes on to the next.
ReadDeadline(t) ==
    /\ pc[t] = "ReadDeadline"
    /\ \/ expired[t] /\ Goto(t, "Release") /\ UNCHANGED waiting
       \/ ~expired[t] /\ ~Owns(t) /\ Goto(t, "TryLock") /\ UNCHANGED waiting
       \/ ~expired[t] /\ Owns(t) /\ LastLock(t) /\ Goto(t, "Operating") /\ UNCHANGED waiting
       \/ /\ ~expired[t] /\ Owns(t) /\ ~LastLock(t)
          /\ Goto(t, IF waiting[t] = "lifetime" THEN "IndexLookup" ELSE "ReadClosing")
          /\ waiting' = [waiting EXCEPT ![t] = IF @ = "lifetime" THEN "node" ELSE "camera"]
    /\ UNCHANGED <<closing, closed, locks, request, signals, cleared>>

\* Mutant: an exclusive operation does not wait for the shared ones.
LockLifetime_BesideReaders(t) ==
    /\ pc[t] = "TryLock" /\ waiting[t] = "lifetime"
    /\ exclusive = NoThread
    /\ IF kind[t] = "exclusive"
         THEN exclusive' = t /\ UNCHANGED shared
         ELSE shared' = shared \cup {t} /\ UNCHANGED exclusive
    /\ Goto(t, "ReadClosing")
    /\ UNCHANGED <<closing, closed, index, gate, gateOwner, camera, waiting, request, signals, cleared>>

\* try_lock_until on mLifetimeMutex succeeds.
LockLifetime(t) ==
    /\ pc[t] = "TryLock" /\ waiting[t] = "lifetime"
    /\ exclusive = NoThread
    /\ IF kind[t] = "exclusive"
         THEN shared = {} /\ exclusive' = t /\ UNCHANGED shared
         ELSE shared' = shared \cup {t} /\ UNCHANGED exclusive
    /\ Goto(t, "ReadClosing")
    /\ UNCHANGED <<closing, closed, index, gate, gateOwner, camera, waiting, request, signals, cleared>>

\* try_lock_until on the node's mutex succeeds.
LockNode(t) ==
    /\ pc[t] = "TryLock" /\ waiting[t] = "node"
    /\ gateOwner[gate[t]] = NoThread
    /\ gateOwner' = [gateOwner EXCEPT ![gate[t]] = t]
    /\ Goto(t, "ReadClosing")
    /\ UNCHANGED <<closing, closed, shared, exclusive, index, gate, camera, waiting, request, signals, cleared>>

\* AcquireGate(mCameraOperationMutex): its try_lock_until succeeds.
LockCamera(t) ==
    /\ pc[t] = "TryLock" /\ waiting[t] = "camera"
    /\ camera = NoThread
    /\ camera' = t
    /\ Goto(t, "ReadClosing")
    /\ UNCHANGED <<closing, closed, shared, exclusive, index, gate, gateOwner, waiting, request, signals, cleared>>

TakeLock(t) == LockLifetime(t) \/ LockNode(t) \/ LockCamera(t)

\* try_lock_until gives up after 100 ms, or at the deadline.
WaitSlice(t) ==
    /\ pc[t] = "TryLock"
    /\ Goto(t, "ReadClosing")
    /\ UNCHANGED <<closing, closed, locks, waiting, request, signals, cleared>>

-----------------------------------------------------------------------------
(* The node index.                                                          *)

\* Mutant: an entry whose mutex nobody has locked counts as expired.
IndexLookup_ExpiresUnlocked(t) ==
    LET kept == [n \in Nodes |-> IF index[n] # NoGate /\ gateOwner[index[n]] # NoThread THEN index[n] ELSE NoGate]
    IN  /\ pc[t] = "IndexLookup"
        /\ \E g \in Gates :
             /\ IF kept[node[t]] = NoGate THEN ~Live(g) ELSE g = kept[node[t]]
             /\ index' = [kept EXCEPT ![node[t]] = g]
             /\ gate' = [gate EXCEPT ![t] = g]
        /\ Goto(t, "ReadClosing")
        /\ UNCHANGED <<closing, closed, shared, exclusive, gateOwner, camera, waiting, request, signals, cleared>>

\* Mutant: a node without a mutex is given one that may be another node's.
IndexLookup_SharesGate(t) ==
    LET kept == [n \in Nodes |-> IF index[n] # NoGate /\ Live(index[n]) THEN index[n] ELSE NoGate]
    IN  /\ pc[t] = "IndexLookup"
        /\ \E g \in Gates :
             /\ kept[node[t]] = NoGate \/ g = kept[node[t]]
             /\ index' = [kept EXCEPT ![node[t]] = g]
             /\ gate' = [gate EXCEPT ![t] = g]
        /\ Goto(t, "ReadClosing")
        /\ UNCHANGED <<closing, closed, shared, exclusive, gateOwner, camera, waiting, request, signals, cleared>>

\* The section under mIndexMutex: expired entries are erased, then the node's entry is
\* locked, or a new mutex is made and entered.
IndexLookup(t) ==
    LET kept == [n \in Nodes |-> IF index[n] # NoGate /\ Live(index[n]) THEN index[n] ELSE NoGate]
    IN  /\ pc[t] = "IndexLookup"
        /\ \E g \in Gates :
             /\ IF kept[node[t]] = NoGate THEN ~Live(g) ELSE g = kept[node[t]]
             /\ index' = [kept EXCEPT ![node[t]] = g]
             /\ gate' = [gate EXCEPT ![t] = g]
        /\ Goto(t, "ReadClosing")
        /\ UNCHANGED <<closing, closed, shared, exclusive, gateOwner, camera, waiting, request, signals, cleared>>

-----------------------------------------------------------------------------
(* AcquireCleanup: a lease to close a session or subscription, or none.     *)

CleanupRead(t) ==
    /\ pc[t] = "CleanupRead"
    /\ Goto(t, IF closing THEN "Release" ELSE "CleanupLock")
    /\ UNCHANGED <<closing, closed, locks, waiting, request, signals, cleared>>

CleanupLock(t) ==
    /\ pc[t] = "CleanupLock"
    /\ exclusive = NoThread
    /\ shared' = shared \cup {t}
    /\ Goto(t, "CleanupRecheck")
    /\ UNCHANGED <<closing, closed, exclusive, index, gate, gateOwner, camera, waiting, request, signals, cleared>>

\* Mutant: a cleanup does not read mClosing again with the lock held.
CleanupRecheck_Skips(t) ==
    /\ pc[t] = "CleanupRecheck"
    /\ \/ kind[t] = "cleanup" /\ Goto(t, "Operating") /\ UNCHANGED waiting
       \/ kind[t] = "closeCamera" /\ Goto(t, "IndexLookup") /\ waiting' = [waiting EXCEPT ![t] = "node"]
    /\ UNCHANGED <<closing, closed, locks, request, signals, cleared>>

\* The second read of mClosing.  CloseCamera then returns if its handle is stale, or
\* goes on to the gates of the session's node.
CleanupRecheck(t) ==
    /\ pc[t] = "CleanupRecheck"
    /\ \/ closing /\ Goto(t, "Release") /\ UNCHANGED waiting
       \/ ~closing /\ kind[t] = "cleanup" /\ Goto(t, "Operating") /\ UNCHANGED waiting
       \/ ~closing /\ kind[t] = "closeCamera" /\ Goto(t, "Release") /\ UNCHANGED waiting
       \/ /\ ~closing /\ kind[t] = "closeCamera" /\ Goto(t, "IndexLookup")
          /\ waiting' = [waiting EXCEPT ![t] = "node"]
    /\ UNCHANGED <<closing, closed, locks, request, signals, cleared>>

-----------------------------------------------------------------------------
(* BeginShutdown and ControllerRuntime::Close.                              *)

StoreClosing(t) ==
    /\ pc[t] = "Store"
    /\ closing' = TRUE
    /\ cleared' = IF closing THEN cleared ELSE {u \in Threads : Cleared(u)}
    /\ Goto(t, "BarrierLock")
    /\ UNCHANGED <<closed, locks, waiting, request, signals>>

LockBarrier(t) ==
    /\ pc[t] = "BarrierLock"
    /\ exclusive = NoThread /\ shared = {}
    /\ exclusive' = t
    /\ Goto(t, "Barrier")
    /\ UNCHANGED <<closing, closed, shared, index, gate, gateOwner, camera, waiting, request, signals, cleared>>

\* Close tears the native controller down, or finds mClosed set and returns.
TearDown(t) ==
    /\ pc[t] = "Barrier"
    /\ closed' = TRUE
    /\ Goto(t, "Release")
    /\ UNCHANGED <<closing, locks, waiting, request, signals, cleared>>

-----------------------------------------------------------------------------
(* The admitted operation ends; the lease is destroyed camera gate first,   *)
(* then node lock, shared_ptr to the mutex, and lifetime lock.              *)

Finish(t) ==
    /\ pc[t] = "Operating"
    /\ Goto(t, "Release")
    /\ UNCHANGED <<closing, closed, locks, waiting, request, signals, cleared>>

UnlockCamera(t) ==
    /\ pc[t] = "Release" /\ camera = t
    /\ camera' = NoThread
    /\ UNCHANGED <<closing, closed, shared, exclusive, index, gate, gateOwner, pc, waiting, request, signals, cleared>>

UnlockNode(t) ==
    /\ pc[t] = "Release" /\ camera # t /\ OwnsGate(t)
    /\ gateOwner' = [gateOwner EXCEPT ![gate[t]] = NoThread]
    /\ UNCHANGED <<closing, closed, shared, exclusive, index, gate, camera, pc, waiting, request, signals, cleared>>

DropGate(t) ==
    /\ pc[t] = "Release" /\ camera # t /\ ~OwnsGate(t) /\ gate[t] # NoGate
    /\ gate' = [gate EXCEPT ![t] = NoGate]
    /\ UNCHANGED <<closing, closed, shared, exclusive, index, gateOwner, camera, pc, waiting, request, signals, cleared>>

\* Mutant: an operation that was canceled keeps its lifetime lock.
UnlockLifetime_LeaksWhenCanceled(t) ==
    /\ pc[t] = "Release" /\ camera # t /\ gate[t] = NoGate
    /\ shared' = IF cancelled[t] THEN shared ELSE shared \ {t}
    /\ exclusive' = IF exclusive = t /\ ~cancelled[t] THEN NoThread ELSE exclusive
    /\ Goto(t, "Idle")
    /\ waiting' = [waiting EXCEPT ![t] = "lifetime"]
    /\ kind' = [kind EXCEPT ![t] = "none"]
    /\ node' = [node EXCEPT ![t] = NoNode]
    /\ cancelled' = [cancelled EXCEPT ![t] = FALSE]
    /\ expired' = [expired EXCEPT ![t] = FALSE]
    /\ cleared' = cleared \ {t}
    /\ UNCHANGED <<closing, closed, index, gate, gateOwner, camera>>

\* With the lifetime lock the operation's request ends, and its flags are forgotten.
UnlockLifetime(t) ==
    /\ pc[t] = "Release" /\ camera # t /\ gate[t] = NoGate
    /\ shared' = shared \ {t}
    /\ exclusive' = IF exclusive = t THEN NoThread ELSE exclusive
    /\ Goto(t, "Idle")
    /\ waiting' = [waiting EXCEPT ![t] = "lifetime"]
    /\ kind' = [kind EXCEPT ![t] = "none"]
    /\ node' = [node EXCEPT ![t] = NoNode]
    /\ cancelled' = [cancelled EXCEPT ![t] = FALSE]
    /\ expired' = [expired EXCEPT ![t] = FALSE]
    /\ cleared' = cleared \ {t}
    /\ UNCHANGED <<closing, closed, index, gate, gateOwner, camera>>

-----------------------------------------------------------------------------
(* Specification.                                                           *)

\* What the thread does once its operation has started; the locks that may block and
\* the operation itself are apart.
Run(t) ==
    \/ ReadClosing(t) \/ ReadCancel(t) \/ ReadDeadline(t) \/ WaitSlice(t)
    \/ IndexLookup(t)
    \/ CleanupRead(t) \/ CleanupRecheck(t)
    \/ StoreClosing(t) \/ TearDown(t)
    \/ UnlockCamera(t) \/ UnlockNode(t) \/ DropGate(t) \/ UnlockLifetime(t)

Next ==
    \E t \in Threads :
        \/ \E k \in Kinds : \E n \in (IF k \in NodeKinds THEN Nodes ELSE {NoNode}) : Start(t, k, n)
        \/ Cancel(t) \/ Expire(t)
        \/ Run(t) \/ Finish(t) \/ TakeLock(t) \/ CleanupLock(t) \/ LockBarrier(t)

Spec == Init /\ [][Next]_vars

\* Threads run, and a lock that keeps coming free while a thread keeps asking for it is
\* some time taken by that thread.
LockFairness ==
    \A t \in Threads :
        /\ WF_vars(Run(t))
        /\ SF_vars(TakeLock(t))
        /\ WF_vars(CleanupLock(t))
        /\ WF_vars(LockBarrier(t))

\* Nothing is assumed of Finish, Cancel and Expire: a device may never answer.
LiveSpec == Spec /\ LockFairness

-----------------------------------------------------------------------------
(* Properties.                                                              *)

Admitted(t) == pc[t] = "Operating"

\* Two admitted operations never work on one node at a time, although the mutex they
\* exclude each other with is found through a weak index and may be destroyed and made
\* anew between them; camera operations of all nodes exclude each other; and an exclusive
\* operation (commissioning, removal) runs with no other operation admitted.
Exclusion ==
    \A t, u \in Threads :
        (Admitted(t) /\ Admitted(u) /\ t # u) =>
            /\ ~({kind[t], kind[u]} \subseteq NodeKinds /\ node[t] = node[u])
            /\ ~({kind[t], kind[u]} \subseteq CameraKinds)
            /\ kind[t] # "exclusive"

\* The mutex an operation holds or waits for stands for its node (mNodeMutexes).  Two
\* nodes never share one, so a slow device does not hold up another, and a node never has
\* two: the index makes no second mutex while the first is referenced.
GateIsNode ==
    \A t, u \in Threads :
        (gate[t] # NoGate /\ gate[u] # NoGate) => (gate[t] = gate[u] <=> node[t] = node[u])

\* While Close tears the native controller down, and for ever after, no operation is
\* admitted: nothing uses the commissioner after its shutdown.
NoUseAfterTeardown ==
    (closed \/ \E c \in Threads : pc[c] = "Barrier") => \A t \in Threads : ~Admitted(t)

\* An operation that was queued for a lock, or had not started, when BeginShutdown set
\* mClosing is never admitted, although it may still get the lock it waits for.
QueuedIsRefused ==
    \A t \in Threads : (closing /\ Admitted(t)) => t \in cleared

\* t is in a call that waits for the mutex named by waiting[t], and u holds it: the lifetime
\* lock blocks a shared request behind its exclusive owner, an exclusive one behind all.
WaitsFor(t, u) ==
    \/ /\ pc[t] \in {"TryLock", "CleanupLock", "BarrierLock"} /\ waiting[t] = "lifetime"
       /\ \/ exclusive = u
          \/ u \in shared /\ (kind[t] = "exclusive" \/ pc[t] = "BarrierLock")
    \/ pc[t] = "TryLock" /\ waiting[t] = "node" /\ gateOwner[gate[t]] = u
    \/ pc[t] = "TryLock" /\ waiting[t] = "camera" /\ camera = u

\* The locks an operation may still wait for while it holds one.
After == [lifetime |-> {"node", "camera"}, node |-> {"camera"}, camera |-> {}]

\* Who waits for a thread that waits itself waits for an earlier lock, so no threads, of any
\* number, wait for each other in a circle: operations, commissioning, CloseCamera and
\* Close, each with a route of its own through the three locks, cannot deadlock on them.
NoCircularWait ==
    \A t, u, v \in Threads :
        WaitsFor(t, u) /\ WaitsFor(u, v) => waiting[u] \in After[waiting[t]]

\* Every operation bounds its waits (kInteractionTimeout, kCommissioningTimeout), so none
\* stays admitted for ever.
OperationsFinish == \A t \in Threads : []<>~Admitted(t)

\* Close ends if the admitted operations do: every queued operation is refused and every
\* admitted one leaves, so the exclusive barrier is reached whatever the callers go on
\* asking for.
ShutdownCompletes == OperationsFinish => (closing ~> closed)

\* An operation alone on its node is admitted even when operations on other nodes never
\* end: a device that does not answer holds up its own node only.  Camera operations
\* share the camera gate, and an exclusive operation stops the others.
CrossNodeProgress ==
    \A t \in Threads :
        (pc[t] = "ReadClosing" /\ kind[t] = "node")
            ~> \/ closing \/ Admitted(t) \/ cancelled[t] \/ expired[t]
               \/ \E u \in Threads : u # t /\ (node[u] = node[t] \/ kind[u] = "exclusive")

-----------------------------------------------------------------------------
(* Refinement.                                                              *)

\* The lease an operation has once the pass that finds its last lock owned admits it.
LeaseOf(t) ==
    IF Admitted(t)
      THEN [mode |-> IF kind[t] = "exclusive" THEN "exclusive" ELSE "shared",
            node |-> IF kind[t] \in NodeKinds THEN node[t] ELSE NoNode,
            host |-> IF kind[t] \in CameraKinds THEN "camera" ELSE "none"]
      ELSE NoLease

Table == INSTANCE LeaseTable WITH
            Holders <- Threads,
            leases <- [t \in Threads |-> LeaseOf(t)], torn <- closed

\* The locks, the weak index and the polling loops implement the table of leases: every
\* admission is a grant beside compatible leases, whatever the interleaving.
ImplementsLeaseTable == Table!Spec
=============================================================================
