-------------------------- MODULE ControllerLifecycle --------------------------
(***************************************************************************)
(* MatterController::CreateAsync and CloseAsync: ControllerRuntime::Create, *)
(* Initialize, InitializeController and Close (winrt/Projection.cpp) with   *)
(* the Init and Shutdown of the camera host (CameraControllerRuntime.h),    *)
(* around the operations of NodeIndex that use the runtime.                 *)
(*                                                                          *)
(* Several threads create and close controllers of one process, one after   *)
(* another.  What they leave in the process outlives a runtime: the event   *)
(* loop, the CHIP stack lock, and the global pieces InitializeController    *)
(* installs.  What runs under the stack lock is one step.                   *)
(***************************************************************************)
EXTENDS NodeIndex

CONSTANTS
    Threads,    \* threads that create and close controllers
    NoThread

\* The loop and a lost lock are told apart from the threads.
ASSUME ThreadAssumption == {NoThread, "Loop", "Lost"} \cap Threads = {} /\ NoThread \notin {"Loop", "Lost"}

VARIABLES
    step,       \* where each thread stands in CreateAsync or CloseAsync
    mutex,      \* holder of sMutex
    lock,       \* holder of the CHIP stack lock; Lost when nobody is left to release it
    native,     \* the pieces installed in the process
    own,        \* those the newest runtime will take down: its flags
    stuck       \* history: an endpoint could not be unregistered at Shutdown

process == <<step, mutex, lock, native, own, stuck>>
allVars == <<vars, process>>

\* Access control of the camera host, group data provider, factory and commissioner, in the
\* order they are installed after the event loop is started.
Pieces == {"loop", "access", "provider", "factory", "commissioner"}

TypeOK ==
    /\ IndexTypeOK
    /\ step \in [Threads -> {"Idle", "Mutex", "Previous", "Platform", "Lock", "Load", "Setup",
                             "Begin", "StopLoop", "TakeDown"}]
    /\ mutex \in Threads \cup {NoThread}
    /\ lock \in Threads \cup {NoThread, "Loop", "Lost"}
    /\ native \subseteq Pieces /\ own \subseteq Pieces
    /\ stuck \in BOOLEAN

Init ==
    /\ IndexInit
    /\ step = [t \in Threads |-> "Idle"]
    /\ mutex = NoThread /\ lock = NoThread
    /\ native = {} /\ own = {} /\ stuck = FALSE

-----------------------------------------------------------------------------
(* CreateAsync.                                                             *)

Goes(t, s) == step' = [step EXCEPT ![t] = s]

\* Create returns or throws; sMutex is released.
Leaves(t) == Goes(t, "Idle") /\ mutex' = IF mutex = t THEN NoThread ELSE mutex

CreateAsync(t) ==
    /\ step[t] = "Idle"
    /\ Goes(t, "Mutex")
    /\ UNCHANGED <<vars, mutex, lock, native, own, stuck>>

EnterCreate(t) ==
    /\ step[t] = "Mutex" /\ mutex = NoThread
    /\ mutex' = t
    /\ Goes(t, "Previous")
    /\ UNCHANGED <<vars, lock, native, own, stuck>>

\* The mOperationMutex of the previous runtime is taken, which its Close holds; a runtime
\* that is not closed refuses the creation, any other makes way for a new one.
CheckPrevious(t) ==
    /\ step[t] = "Previous" /\ runtime # "Closing"
    /\ \/ runtime \in {"Up", "Shutting"} /\ Leaves(t) /\ UNCHANGED <<runtime, own>>
       \/ /\ runtime \notin {"Up", "Shutting"}
          /\ runtime' = "Starting" /\ own' = {}
          /\ Goes(t, "Platform") /\ UNCHANGED mutex
    /\ UNCHANGED <<size, index, callers, lock, native, stuck>>

\* Initialize up to StartEventLoopTask; what throws here leaves no runtime.
StartPlatform(t) ==
    /\ step[t] = "Platform"
    /\ \/ native' = native \cup {"loop"} /\ Goes(t, "Lock") /\ UNCHANGED <<runtime, mutex>>
       \/ Leaves(t) /\ runtime' = "Down" /\ UNCHANGED native
    /\ UNCHANGED <<size, index, callers, lock, own, stuck>>

\* The stack lock is taken.  With camera signaling enabled the host installs its access
\* control, unless another one is installed or the host cannot be initialized: then
\* InitializeController returns its error, the lock is released, and Close is called.
LockStack(t) ==
    /\ step[t] = "Lock" /\ lock = NoThread
    /\ \/ /\ lock' = t
          /\ runtime' = "Loading" /\ size' = 1
          /\ Goes(t, "Load")
          /\ \/ UNCHANGED <<native, own>>
             \/ /\ "access" \notin native
                /\ native' = native \cup {"access"} /\ own' = own \cup {"access"}
       \/ Goes(t, "Begin") /\ UNCHANGED <<runtime, size, lock, native, own>>
    /\ UNCHANGED <<index, callers, mutex, stuck>>

\* LoadCommissionedNodes.  An exception leaves Initialize and Create: nobody unlocks the
\* stack and nothing is closed.
Load(t) ==
    /\ step[t] = "Load"
    /\ \/ /\ ReadIndex
          /\ \/ runtime' = "Loading" /\ UNCHANGED <<step, mutex, lock>>
             \/ runtime' = "Starting" /\ Goes(t, "Setup") /\ UNCHANGED <<mutex, lock>>
             \/ runtime' = "Refused" /\ Leaves(t) /\ lock' = "Lost"
       \/ /\ runtime' = "Down" /\ Leaves(t) /\ lock' = "Lost" /\ size' = 1
          /\ UNCHANGED <<memory, failed>>
    /\ UNCHANGED <<stored, callers, native, own, stuck>>

\* The rest of InitializeController: it gets to the end, or to an error after some of the
\* pieces have been installed; the flags follow the factory and the commissioner, the
\* provider is always taken down.  Then the lock is released.
Setup(t) ==
    /\ step[t] = "Setup"
    /\ lock' = NoThread
    /\ \E done \in {{}, {"provider"}, {"provider", "factory"}, {"provider", "factory", "commissioner"}} :
        /\ native' = native \cup done /\ own' = own \cup done
        /\ \/ "commissioner" \in done /\ runtime' = "Up" /\ Leaves(t)
           \/ Goes(t, "Begin") /\ UNCHANGED <<runtime, mutex>>
    /\ UNCHANGED <<size, index, callers, stuck>>

-----------------------------------------------------------------------------
(* CloseAsync, and the Close of an initialization that failed.              *)

\* MatterController::CloseAsync takes the runtime out of its field: a second call finds
\* none.  BeginShutdown marks it.
CloseAsync(t) ==
    /\ step[t] = "Idle" /\ runtime = "Up"
    /\ runtime' = "Shutting"
    /\ Goes(t, "Begin")
    /\ UNCHANGED <<size, index, callers, mutex, lock, native, own, stuck>>

\* Mutant: the leases of the operations in progress are not waited for.
Begin_AtOnce(t) ==
    /\ step[t] = "Begin"
    /\ runtime' = "Closing"
    /\ Goes(t, "StopLoop")
    /\ UNCHANGED <<size, index, callers, mutex, lock, native, own, stuck>>

\* The lifetime is acquired when no operation has a lease; those that wait for one are
\* refused.  Close then holds the mutexes of the runtime.
Begin(t) ==
    /\ step[t] = "Begin"
    /\ lease = NoCaller /\ \A c \in Callers : at[c] # "Verify"
    /\ at' = [c \in Callers |-> "Idle"] /\ op' = [c \in Callers |-> <<>>]
    /\ runtime' = "Closing"
    /\ Goes(t, "StopLoop")
    /\ UNCHANGED <<size, index, lease, mutex, lock, native, own, stuck>>

\* Mutant: the loop is stopped with the stack lock held.
StopLoop_Locked(t) ==
    /\ step[t] = "StopLoop" /\ lock \in {NoThread, t}
    /\ \/ lock # t /\ lock' = t /\ UNCHANGED <<step, native>>
       \/ lock = t /\ "loop" \notin native /\ Goes(t, "TakeDown") /\ lock' = NoThread /\ UNCHANGED native
    /\ UNCHANGED <<vars, mutex, own, stuck>>

\* StopEventLoopTask returns when the loop has given up the stack lock and has ended.
StopLoop(t) ==
    /\ step[t] = "StopLoop" /\ lock # "Loop"
    /\ native' = native \ {"loop"}
    /\ Goes(t, "TakeDown")
    /\ UNCHANGED <<vars, mutex, lock, own, stuck>>

\* Mutant: only what a complete initialization has installed is taken down.
TakeDown_WhenComplete(t) ==
    /\ step[t] = "TakeDown" /\ lock = NoThread
    /\ native' = IF "commissioner" \in own THEN native \ own ELSE native
    /\ own' = {}
    /\ runtime' = "Closed" /\ memory' = <<>> /\ failed' = FALSE /\ Leaves(t)
    /\ UNCHANGED <<size, stored, callers, lock, stuck>>

\* With the stack lock the host, commissioner and factory are shut down by their flags and
\* the provider is reset; the host keeps its access control when the endpoint of a camera
\* session cannot be unregistered.  Then the runtime is closed.
TakeDown(t) ==
    /\ step[t] = "TakeDown" /\ lock = NoThread
    /\ \/ native' = native \ own /\ UNCHANGED stuck
       \/ /\ {"access", "commissioner"} \subseteq own
          /\ native' = native \ (own \ {"access"}) /\ stuck' = TRUE
    /\ own' = {}
    /\ runtime' = "Closed" /\ memory' = <<>> /\ failed' = FALSE /\ Leaves(t)
    /\ UNCHANGED <<size, stored, callers, lock>>

-----------------------------------------------------------------------------
(* The event loop and the process.                                          *)

LoopTakes ==
    /\ "loop" \in native /\ lock = NoThread
    /\ lock' = "Loop"
    /\ UNCHANGED <<vars, step, mutex, native, own, stuck>>

LoopGives ==
    /\ lock = "Loop"
    /\ lock' = NoThread
    /\ UNCHANGED <<vars, step, mutex, native, own, stuck>>

\* The process stops: what it has not written is gone.
Stop ==
    /\ runtime # "Down"
    /\ runtime' = "Down" /\ size' = 1
    /\ memory' = <<>> /\ failed' = FALSE
    /\ lease' = NoCaller
    /\ at' = [c \in Callers |-> "Idle"] /\ op' = [c \in Callers |-> <<>>]
    /\ step' = [t \in Threads |-> "Idle"]
    /\ mutex' = NoThread /\ lock' = NoThread
    /\ native' = {} /\ own' = {} /\ stuck' = FALSE
    /\ UNCHANGED stored

-----------------------------------------------------------------------------
(* Specification.                                                           *)

Thread(t) ==
    \/ EnterCreate(t) \/ CheckPrevious(t) \/ StartPlatform(t) \/ LockStack(t) \/ Load(t) \/ Setup(t)
    \/ Begin(t) \/ StopLoop(t) \/ TakeDown(t)

Next ==
    \/ Operation /\ UNCHANGED process
    \/ \E t \in Threads : CreateAsync(t) \/ CloseAsync(t) \/ Thread(t)
    \/ LoopTakes \/ LoopGives \/ Stop

Spec == Init /\ [][Next]_allVars

\* A thread that can go on does, the stack lock is given to every thread that keeps asking
\* for it, the loop gives it up, and the operations in progress end (their waits have a
\* timeout).
LiveSpec ==
    /\ Spec
    /\ \A t \in Threads : SF_allVars(Thread(t))
    /\ WF_allVars(LoopGives)
    /\ \A c \in Callers :
        WF_allVars((Verify(c) \/ Enter(c) \/ Write(c) \/ Return(c)) /\ UNCHANGED process)

-----------------------------------------------------------------------------
(* Properties.                                                              *)

\* Whatever error ends an initialization, and however often controllers are created and
\* closed, a closed runtime leaves nothing in the process the next one would find in its
\* way (Close by its flags); except the access control of a host whose endpoint could not
\* be unregistered.
ClosedIsClean == (runtime = "Closed" /\ lock # "Lost") => native \subseteq (IF stuck THEN {"access"} ELSE {})

\* The pieces are taken down when neither the event loop nor an operation can use them.
TakenDownInPeace ==
    \A t \in Threads : step[t] = "TakeDown" =>
        "loop" \notin native /\ lease = NoCaller /\ \A c \in Callers : at[c] # "Verify"

\* A creation or a closing ends, whatever else is created and closed meanwhile: Initialize,
\* Close, the event loop and the operations never wait for each other for ever, except for
\* a stack lock that was lost with a load that threw.
LifecycleEnds == \A t \in Threads : step[t] # "Idle" ~> (step[t] = "Idle" \/ lock = "Lost")
=============================================================================
