# Verification of the Matter Windows controller

TLA+ models of `src/winrt`, the C++/WinRT projection of the CHIP (Matter) SDK
that gives Windows applications a `MatterController`, and of the camera receiver
of the sample application; and proofs about all of them but the codec: the lock
protocol the other parts stand on, the ownership of streams and sessions, the
order of signals and reports, commissioning, the node index, the life of the
controller, its network operations and the receiver. Line numbers below are of
`src/winrt/Projection.cpp` unless a file is named.

## 1. The system

An application calls asynchronous operations of the projected classes. Each is
a C++/WinRT coroutine that moves to the thread pool and calls
`ControllerRuntime`, which owns the native controller. The CHIP event loop is
one more thread; it makes every native callback with the *CHIP stack lock*
held, and every native call from another thread takes that lock. So three kinds
of thread meet in every operation: the caller (which may cancel), the worker,
and the event loop.

| Component | State | Operations | Hard part |
|---|---|---|---|
| Admission (74-229) | `mClosing`, shared timed lifetime mutex, weak index of node mutexes, camera gate | acquire lifetime / node / exclusive / camera gate / cleanup, begin shutdown | polling waits, weak index, shutdown against queued operations |
| Interaction operations (1035-1575, 1896-1942, 2245-2524) | one `Generic…State` per operation: mutex, condition, result, native client | read, read events, write, invoke, subscribe, close subscription | time-out against late callback, order of answers, two locks |
| Subscriptions (3257-3460) | handlers and their count, drain flag, bounded report queue, `mClose` | add and remove handler, publish, close | drain against event loop, throwing handlers, full queue |
| Commissioning (609-830, 1692-1782, 5949-6320) | `PairingState`, progress queue, cancellation flag | commission, cancel, progress reports | cancellation at every point, reuse of one state, drain at the end |
| Node index (1784-1825, 2668-2718) | `mCommissionedNodes` and its stored copy | commission, recover, remove, load | failed writes, crashes, size limit |
| Pending release (`CameraVideoStreamAllocation.h`) | stream, canceled, release started / finished / failed | record, cancel, release | two releasers, one resource |
| Video streams (4012-4064, 4965-5053, 5203-5310) | the pending release of each operation | allocate, deallocate | lost answers, reused identifiers |
| Audio streams (4666-4924, `CameraAudioAllocationOwnership.h`) | table of at most eight endpoints | allocate, deallocate | table keyed by endpoint, several operations |
| Camera sessions (1957-2243, 5055-5113, 5493-5665, `CameraControllerRuntime.h`) | one active handle, client, next endpoint | start, send candidates, close | stale handles, partial close |
| Camera signals (2137-2171, 4319-4358) | native queue, `mWaiting` | wait, poll | cancellation after taking |
| Controller lifecycle (1604-1682, 2526-2698, `CameraControllerRuntime.h` 58-93) | `sMutex`, the stack lock, event loop, what is installed in the process | create, close | an error at every stage, undoing by flags, locks across stages |
| TLV codec (365-607) | none | encode and decode property sets, narrow numbers | recursion, refusal of the whole |
| Camera receiver (`samples/ControllerApp/Camera/CameraReceiverWindow.cs`) | session, owned streams, tasks, microphone | start, stop, allocate, authorize capture, close | coroutines that meet a stop at every await |
| Discovery, capability reads, clusters, network and BLE enumeration | none that outlives a call | reads and conversions | — |
| Rest of the sample application, tests, tools | the application's own | — | use of the library |

How they interact:

* Every operation of a node takes a *lease* of the admission before it looks at
  the native controller, and gives it up after its native client is destroyed.
* `ControllerRuntime::Close` takes the lifetime lock exclusively, closes the
  subscriptions that are registered, stops the event loop and shuts down.
* A subscription is registered under `mOperationMutex` while its operation
  still has its lease; its reports reach `Publish` on the event loop.
* A camera allocation or startup is an interaction operation (or a camera
  command) wrapped in a pending release: the callback of its cancellation and
  its own failure both release.
* Commissioning, recovery and removal hold the exclusive lease while they
  change the index, which every new runtime loads with the stack lock held.
* The payload of a read, write or command goes through the TLV codec.
* The sample's receiver window is a client of all of this: it allocates
  streams, starts and closes sessions, waits for signals and subscribes to the
  camera's privacy; `ControllerSession.CloseAsync` closes the windows first.

What makes each part correct, in one line each: admission — nobody works on a
node or the host beside another, or after shutdown; interaction — no callback
finds its state gone, and success means the device said so; subscription — no
report out of order, left in the queue or lost except from a full one; commissioning —
results belong to the pairing that produced them and reports precede the end;
index — memory and storage agree; lifecycle — a closed controller leaves nothing
behind, and nobody waits for ever; codec — a payload arrives whole or not at
all; camera — every acquired resource is delivered or released, once; receiver —
a stop leaves nothing with the camera, and the microphone is open only for a
running session.

## 2. Modules

| Module | Models | Extends |
|---|---|---|
| `LeaseTable` | abstract: a table of leases granted in one step | — |
| `RuntimeAdmission` | the locks, loops and index behind the leases | refines `LeaseTable` |
| `RuntimeAdmission_proofs` | theorems about it | `RuntimeAdmission`, TLAPS |
| `ResourceCustody` | abstract: whose a stream or session is, and who gives it back | — |
| `PendingRelease` | `PendingCameraRelease` and the asynchronous operation around it | — |
| `StreamAllocation` | video and audio allocation, the audio ownership table | `PendingRelease`, refines `ResourceCustody` |
| `StreamAllocation_proofs` | theorems about it and about `PendingRelease` | `StreamAllocation`, TLAPS |
| `CameraSession` | session startup, commands and closing over the host | `PendingRelease`, refines `ResourceCustody` |
| `CameraSignals` | signals, and waiting for them, on those sessions | `CameraSession` |
| `CameraSignals_proofs` | theorems about it and the sessions below it | `CameraSignals`, TLAPS |
| `Subscription` | handlers, queue and drain of a subscription | — |
| `Subscription_proofs` | theorems about it | `Subscription`, TLAPS |
| `Commissioning` | commissioning and its progress | — |
| `Commissioning_proofs` | theorems about it | `Commissioning`, TLAPS |
| `NodeIndex` | the index, its storage and the operations on it | — |
| `ControllerLifecycle` | creation and closing of controllers, crashes | `NodeIndex` |
| `ControllerLifecycle_proofs` | theorems about it and the index | `ControllerLifecycle`, TLAPS |
| `Interaction` | the network operations and Close | — |
| `Interaction_proofs` | theorems about it | `Interaction`, TLAPS |
| `TlvCodec` | the codec as operators | — |
| `CameraReceiver` | the receiver window of the sample | — |
| `CameraReceiver_proofs` | theorems about it | `CameraReceiver`, TLAPS |
| `MC…` | small instances: model values, symmetry, sets of kinds and payloads | the module |

One TLA+ step is what the code does atomically: a section under a mutex, one
atomic load or store, one call of the SDK, one raised handler. A program
counter per thread (`pc`, `at`, `pos`, `step`, `command`) says where the thread
stands; steps bear the name of the function they belong to, and `PROJECT.json`
gives the lines of every definition.

Each module abstracts what another one models. `Interaction`, `Commissioning`,
`NodeIndex` and `CameraSession` take a lease by a guard on a set of leases, a
holder or a gate, which is what `RuntimeAdmission` is proved to implement
(`LeaseTable`). `CameraSession` reuses the releasers of `PendingRelease` and
puts its own `CloseCamera` where `StreamAllocation` sends a deallocation. Both
implement `ResourceCustody`, which has neither threads nor tables nor messages:
an operation asks once; what it is given it gives back in its own name, before it
reports a failure; and what it delivers only its caller gives back. That is the
comment on the class, "own cleanup until the asynchronous result is delivered,
including cancellation at completion" (`CameraVideoStreamAllocation.h:15`), as
a specification; its `outcome` is the `AsyncStatus` with `GivenUp` for a result whose
release the caller has begun, and its `asked` the operations past their one
allocation or `Create`.
`ControllerLifecycle` takes the subscriptions and leases of `Close` from
`Interaction` and `RuntimeAdmission`: an operation in progress is for it one
that has a lease. `CameraReceiver` knows the controller by the ways its
operations end.
`Subscription` takes from `Interaction` that the event loop holds the stack
lock during a report and that a destroyed client reports no more.

### Correspondence

* **RuntimeAdmission.** `shared`/`exclusive` are `mLifetimeMutex`, `index` is
  `mNodeMutexes` (a `weak_ptr` is live while a thread's `gate` is its mutex),
  `gateOwner` and `camera` the owners of the timed mutexes. `ReadClosing`,
  `ReadCancel`, `ReadDeadline`, `LockX`, `WaitSlice` are one turn of the polling
  loop. `CleanupRead/Lock/Recheck` is `AcquireCleanup`, `StoreClosing`,
  `LockBarrier`, `TearDown` is `BeginShutdown` and `Close`. Release goes in the
  order of the destructors. An abandoned wait gives up what it holds.
* **PendingRelease.** `owner[o]` is the object; `at[o]["worker"]` the coroutine,
  `at[o]["background"]` the `ReleaseCanceled` one. `holder` is the camera's own
  table, so that a command that was lost and one that was executed differ.
* **StreamAllocation.** `media[o]` says which of the two allocations operation
  `o` is: both go through the same pending release, and the audio worker has the
  ownership table and two catch blocks around it. `entries` is `mEntries`; each
  method of the table is an operator used by the step of its caller.
* **CameraSession.** `active`, `nextHandle`, `nextEndpoint`, `client` are the
  host's members; `command[o][c]` is a `CloseCamera` or `SendCameraCandidates`
  call between its validations, gates, `Send` and `CloseLocal`. What the call of
  a releaser comes to is kept for the release (`EndCommand`); a user's call just
  ends, as its outcome changes nothing. `CloseAsync` calls of one session or of
  several may overlap, so that `CloseCamera` finds its handle stale before or
  after its wait for the gates.
* **CameraSignals.** A signal is the session and its number; the queue belongs
  to the endpoint, so it goes when a step of the host changes `active`. `wait[w]`
  is a call of `WaitForSignalAsync`; its turns that find nothing change nothing
  and are left out.
* **Subscription.** Reports are numbered. Raising an event copies the handlers
  registered at that moment and calls them one by one, as `winrt::event` does.
  `closer` is `CloseAsync`, whose Close may find the controller closing.
  `RemoveHandler` revokes a registered token, `RemoveStale` one that is not (it
  was revoked before, or never given), which the code accepts and which lowers
  `count` all the same. `derailed` remembers that a drain has begun beside
  another or that the unchecked decrement after a handler's error has wrapped.
* **Commissioning.** `pairing` is `PairingState`, `native` the pairing the
  commissioner runs, `chip` a callback in progress between its critical section
  and its call of the progress callback. `task` is a thread-pool task running
  `DrainProgress`.
* **NodeIndex.** `memory`, `stored`; `size` is the buffer of the loading loop;
  `op[c]` the operation a caller is at, with its node once the index was searched.
* **ControllerLifecycle.** `mutex` is `sMutex`, `lock` the CHIP stack lock (held
  by `Lost` after an exception went past its release), `native` what is
  installed in the process, `own` what the flags of the newest runtime say of it.
  What runs under the stack lock is one step, so `Setup` is
  `InitializeController` after the load with all the places where it returns.
* **Interaction.** `state` are the fields of a `Generic…State`, `client` its
  SDK object, `loop` the callback being made, `mutex`/`stack` the two locks,
  `pos[o][a]` the operation's thread and the two who may close a subscription.
* **TlvCodec.** A value is its type and content, a property set a function, TLV
  a sequence of elements; `Number` is what `strtoul` makes of a key.
* **CameraReceiver.** Everything runs on the UI thread, so a step is what happens
  between two awaits. `task[c]` is a coroutine and the session it was started
  for; `current = 0` is `sessionCancellation` being null, so a coroutine whose
  session is not the current one has a canceled token. `stop` is where
  `StopCoreAsync` stands, `queued` a `StopAsync` on the dispatcher. The page may
  send anything, late too, with the token it was given last.

### External parts

The device, the key-value store, the thread pool, WebView2 and the SDK are
external. Of the SDK this is assumed: callbacks are made by one thread under the
stack lock; a destroyed client or canceled connection callback is not called;
the commissioner runs one pairing at a time and is silent about it after
`StopPairing`; a write to the store succeeds whole or fails; `StopEventLoopTask`
returns when the loop has ended. Of C++/WinRT: a coroutine that returns after
its operation was canceled delivers no result, and `Cancel` runs the registered
callback once. Of the dispatcher: it runs what is queued in order.

## 3. Runs

| Run | Asks | Instance |
|---|---|---|
| `AdmissionSafety` | who is admitted beside whom, and after shutdown began; does the weak index keep one mutex per node; can threads wait for each other in a circle; do the locks implement the lease table | 2 threads, 2 nodes, 2 mutexes, all kinds |
| `AdmissionProgress` | does `Close` end; does a stuck device hold up other nodes | 2 threads, 2 nodes; node, exclusive and close operations |
| `StreamAllocation` | is a stream delivered or released, once; does the table agree with the operations; is it the custody of a stream | 2 operations of video or audio, 2 endpoints, 2 identifiers, 2 caller releases, table of 1 |
| `AudioForgotten` | does the table agree with the camera (violated) | the same |
| `CameraSignals` | do commands and signals keep to their session; is a session left behind; is it the custody of a session; are signals received once and in order | 2 startups, 2 handles and endpoints, 2 users, 2 waits, 2 signals each; 2 of the users and waits at a time |
| `Subscription` | order and gaps; when may two drains run, and is a report then raised twice; is what was queued taken | 2 handlers, 4 reports, queue of 2, 1 stale revocation |
| `Commissioning` | order and completeness of reports, whose results are taken, is a waiting worker woken | 2 operations, 1 stage, 2 pool tasks |
| `CommissioningLate` | are reports over when the operation is (violated) | the same |
| `ControllerLifecycle` | memory against storage over failed writes and restarts, the boundary of the loading buffer; what a closed controller leaves; is anybody using what is taken down; do creation and closing end | 2 threads, 1 caller, 3 nodes, limit of 2 |
| `IndexRecovered` | is a recovered node stored (violated) | 1 thread, 2 callers |
| `Interaction` | callbacks, leases, the two locks, shutdown, what success means; do payloads survive the codec | an operation of any kind beside a subscription, 2 answers each; payloads of up to 3 levels over 6 keys, lists of up to 3 numbers at the boundaries |
| `CameraReceiver` | do sessions of a window keep apart; is the microphone closed; is everything released, once; do stops end | 2 sessions, video and talk, a channel of 1 |

Three runs end with a violation; section 6 says what they show.

**Why the bounds are enough.** Two operations are what a race needs: the
properties relate one operation to another, to its canceler, or to a shared
object. The admission runs have two threads; that a third cannot find the mutex
of the first while a second is being made is among what section 5 proves for
any number. The mutex supply is one per thread (`GateSupply`), the least with
which `make_shared` never fails. `AdmissionProgress` leaves out the camera gate,
whose loop is the same, because the state space with it under strong fairness is
too large to check; that the camera gate adds no circle of waits is
`NoCircularWait`, checked and proved as an invariant. A queue of
two with four reports has a report dropped, one queued during a drain and one
raised directly, and a size_t of 16 values wraps below zero as one of 2^64 does. Tables and limits (ownership table, endpoints, node index) are
made small enough to be hit; an index of two is the boundary at which the
doubled buffer must still take what was stored. Operations on the index hold the
exclusive lease, so a second caller only adds one that waits or reads beside it
(the run with two, without the liveness property, has 1.4 million states and
holds; it takes too long beside the other). Two sessions on the host with two
waits have one that outlives its session, and two closings may overlap on one
session or meet a wait. No more than two of these calls are in progress at once
(`CallsBounded`, the only state constraint), which halves the states; startups,
releasers and the sender of candidates run beside them. Without it the run has 1.3
million states and holds. Two sessions of a receiver have every leftover of the
first meet the second, and the listening mode is the talking one without the
microphone. In `Interaction` one of the two
operations is a subscription, which is the kind that outlives its own lease and
the one `Close` looks for; every other kind is run beside it, and two answers
are a response and a second one, an error, or the end. A stage or answer more
than the bound repeats a step that has no memory beyond what the state keeps.
`MaxReports`, `MaxStale`, `SizeMax`, `MaxStages`, `MaxAnswers`, `MaxSignals` and
`MaxStarts`, the number of `Users` and that a receiver's page is lost once are the
only bounds that the code does not have;
`MaxEntries`, `MaxEndpoints`, `MaxMessages`, `kMaximumPendingReports`,
`kMaximumDescriptorListItems` and `kMaximumNodeCount` are its own, made small.
Payloads are bounded by sets that have every type, every level of nesting the
recursion distinguishes (a container in a container), keys that are missing,
too large, no numbers and two for one tag.

**Deadlock** is checked for the admission, lifecycle and index runs, which go on
for ever. In the others operations end and the system stops: they say so.

**Symmetry** is used in the safety runs but `Interaction`, over model values no
definition tells apart; the runs with a liveness property have none.

**Fairness.** Threads run (weak fairness of a thread's own steps). A timed lock
that keeps coming free while a thread keeps polling for it is some time taken
by it (strong fairness of `TakeLock`: the loops poll without end, and the lock
is offered to whoever polls); the blocking locks of `AcquireCleanup` and
`BeginShutdown` are weakly fair. Nothing is assumed of `Finish`, `Cancel` and
`Expire`: a device may never answer and a caller may never cancel. That admitted
operations do end (`OperationsFinish`: every one bounds its wait with
`kInteractionTimeout` or `kCommissioningTimeout`) is written as the premise of
`ShutdownCompletes`, the one property that needs it. In `Subscription` the
threads that raise and drain reports run, and handlers are assumed to return or
throw; reports, registrations and closings are owed nothing. In
`ControllerLifecycle` each thread in `Create` or `Close` runs, and gets `sMutex`
and the stack lock if it keeps waiting for them while they keep coming free
(strong fairness; the event loop also asks for the stack lock without end, and a
lock that passed over one thread for ever would make the SDK itself stand
still); the loop gives the stack lock up, operations in progress end, which is
the time-out of every wait again, and nobody need call or stop anything. In
`CameraReceiver` the operations of the controller end, a canceled wait or poll
does, and the dispatcher runs what is queued; nothing is asked of the user, the
page, the camera or of a wait that is not canceled.

## 4. Properties

Each module has one type invariant, part of the inductive invariant of section 5,
which proves it (in `Subscription` and `Commissioning` with the counters a bound
of the model limits unlimited). The properties the runs check are about more than
one piece of state:

* *Admission:* `Exclusion`, `NoUseAfterTeardown`,
  `QueuedIsRefused`, `NoCircularWait` (who waits for a thread that waits itself
  waits for an earlier lock), `ShutdownCompletes`,
  `CrossNodeProgress`, `ImplementsLeaseTable`. `GateIsNode` (no two nodes share a mutex
  and no node has two) is proved.
* *Pending release:* `ReleasedAtMostOnce`, `NothingLeftBehind`,
  `FailureFollowsRelease` (an operation fails after its release has ended, and
  whoever waits for one has somebody who works on it).
* *Streams:* `DeliveredIsOwned` (with `DeliveredIsHeld` of the pending release),
  `OneReleasePerEntry` (and the table within its bound).
* *Streams and sessions:* `ImplementsCustody`, of either.
* *Sessions and signals:* `CommandKeepsItsSession`, `NoOrphanSession`,
  `ReceivedInOrder`, `QueuedUntilConsumed`.
* *Subscriptions:* `ReceivedInOrder` (as long as drains keep apart, nothing out of
  order and none missed but from a full queue), `DrainsApart` (only a stale
  revocation lets two drains run or the count wrap), `ReceivedAtMostOnce` (even
  then), `QueueDrains`.
* *Commissioning:* `RaisedInOrder` (and the end is raised before the return),
  `PairingsAreApart` (as long as no failure callback has outlasted the wait for its
  details, which `strayed` remembers), `SleeperIsWoken`.
* *Lifecycle and index:* `IndexSurvives`, `ClosedIsClean`, `TakenDownInPeace`,
  `LifecycleEnds`.
* *Interaction and codec:* `CallbackFindsState`, `LeaseCoversClient`,
  `SuccessIsAnswered`, `NothingAfterShutdown`, `LoopIsNotBlocked`,
  `PayloadSurvives`.
* *Receiver:* `SessionsKeepApart`, `MicrophoneGated`, `ReleasedOnce`,
  `StoppedHoldsNothing`, `StopEnds`.

`PayloadSurvives` is about functions: TLC evaluates it once over the sets of
payloads and lists. It compares the code's encoder and decoder with a reference
(`Encodable`, `Widest`) that says which payloads are meant to be accepted and
what they come back as, and corrupts each encoding by taking away one tag.

Every property has a mutant of the code beside the definition it changes
(`Name_Change`): a dropped recheck, a lock not taken, a flag not reset, a limit
one off. Each is a bug the property finds.

## 5. Proofs

`RuntimeAdmission_proofs` proves, for any sets of threads, nodes and mutexes:

| Theorem | States |
|---|---|
| `TypeCorrect` | `Spec => []TypeOK` |
| `OperationsExclude` | `Spec => []Exclusion` |
| `GatesAreNodes` | `Spec => []GateIsNode` |
| `TeardownIsFinal` | `Spec => []NoUseAfterTeardown` |
| `QueuedAreRefused` | `Spec => []QueuedIsRefused` |
| `WaitsAreOrdered` | `Spec => []NoCircularWait` |
| `Implements` | `Spec => ImplementsLeaseTable` |

Assumed of the constants: the distinguished values are not members of the sets
(`ThreadAssumption`, `NodeAssumption`, `GateAssumption`, `LeaseAssumption`), the
kinds are the seven of the code, and a mutex can always be made
(`GateSupply`).

None of the properties is inductive. `Exclusion` speaks of admitted
threads; that two of them cannot have two mutexes for one node depends on the
index having kept an entry since before either locked. The inductive invariant
`IInv` adds what the code keeps without saying so:

* `LifetimeInv` — the exclusive owner excludes shared ones, and where a thread
  stands it holds the mode its kind calls for;
* `RouteInv` — a thread waits only for locks on its kind's route, with the
  earlier ones held;
* `GateInv` — a referenced mutex is the index's entry of the node of whoever
  references it, so entries that are live are kept and new ones are unshared;
* `ClosingInv` — once `mClosing` is set, those still to be admitted have read
  it before (`cleared`), and the barrier's owner excludes all of them;
* `OrderInv` — a thread that polls for a lock does not have it, a node mutex that
  is locked is the one its owner refers to, and the camera gate is the last lock its
  owner took: lifetime, node, camera is the order of every route, those of
  commissioning (lifetime only), of camera commands (all three) and of `Close`
  included, so that no number of threads waits in a circle.

Each conjunct has a lemma with one step per action; the theorems follow from
`Inductive` by propositional temporal logic. `Implements` maps an admitted
thread to its lease: a step that admits is a grant beside compatible leases (by
`IInvLeasesFit`), `Finish` a return, `TearDown` the abstract one, all others
stutter.

`StreamAllocation_proofs` proves, for any numbers of allocations, identifiers,
endpoints and concurrent deallocation calls, and any size of the ownership table:

| Theorem | States |
|---|---|
| `StreamsTypeCorrect` | `Spec => []TypeOK` |
| `ReleasedOnce` | `Spec => []ReleasedAtMostOnce` |
| `NothingIsLeft` | `Spec => []NothingLeftBehind` |
| `FailuresFollow` | `Spec => []FailureFollowsRelease` |
| `DeliveredAreOwned` | `Spec => []DeliveredIsOwned` |
| `ReleasesAreApart` | `Spec => []OneReleasePerEntry` |
| `StreamsInCustody` | `Spec => ImplementsCustody` |

Assumed: `NoStream` is not a stream and `Nobody` not an operation, and the bound
of the table is positive. No set is assumed finite: that the occupied part of
the table is follows from its bound.

What has to be found here is why a release never reaches a stranger's stream. The
camera gives a freed identifier to the next allocation, and the table is asked by
endpoint. The inductive invariant says whose everything is:

* `StageInv` — for one operation, its status, its cancellation callback, its
  worker and its background releaser agree: at most one of the two releasers is
  at work, and the command has not been sent while the release is only called;
* `HoldInv` — a stream for which no command has been sent is still held for its
  operation, and no operation holds two, so an identifier that is reused belongs
  to nobody who may yet release it;
* `OwnedInv` — the entry of an endpoint is `Owned` with exactly the stream of an
  operation that is about to record it or has recorded it and not begun its
  release; by `HoldInv` two operations cannot claim one entry;
* `ReleasersInv` — a release in progress on an endpoint is the only one, and an
  entry is `Releasing` for somebody;
* `SizeInv` — the occupied part of the table is finite and within its bound.

`HoldStep` and `TableStep` reduce most actions to a few lemmas: a step that frees
nothing (`HoldKept`), frees its own identifier (`HoldFreed`), takes its own entry
(`OwnedTaken`), or starts or ends the one release (`ReleaseStarts`,
`ReleaseEnds`). The same invariant shows why the failure that `AudioForgotten`
finds is not about these properties: the entry it changes is `Pending`, so no
operation owns a stream through it.

`StreamsInCustody` names what a step can do to the custody of its operation's stream
(`Asks`, `Cancels`, `Fails`, `Frees`, `Delivers`, `GivesUp` or nothing).
`EffectImplements` shows once that each of these is a step of `ResourceCustody`,
`StepEffect` that every action has one of them and leaves the other operations'
custody alone. `HoldInv` is what makes a deallocation a `Frees`: the identifier in
the command is still the operation's own.

`CameraSignals_proofs` proves, for any numbers of startups, commands, waits,
handles and signals:

| Theorem | States |
|---|---|
| `TypeCorrect` | `Spec => []TypeOK` |
| `CommandsKeepTheirSession` | `Spec => []CommandKeepsItsSession` |
| `NoOrphans` | `Spec => []NoOrphanSession` |
| `SignalsInOrder` | `Spec => []ReceivedInOrder` |
| `SignalsAreKept` | `Spec => []QueuedUntilConsumed` |
| `SessionsInCustody` | `Spec => ImplementsCustody` |

Assumed: a startup takes an endpoint of 16 bits for each handle of 64 it gives
out, so handles are the numbers from 1 to `MaxEndpoints` and none comes back
(`HandleAssumption`, `EndpointAssumption`), and `NoUser` is no user of the gate.
That handles are never reused is what the code's validations stand on: a call
with a handle looks for exactly that number, before the gate and again behind it.
`SessionInv` is

* `StageInv` — what `StageInv` is for streams: status, cancellation callback,
  worker and releaser of one startup agree;
* `CommandInv`, `GateInv` — a command belongs to the releaser or the user that
  called it, and has the gate from its second validation on;
* `UseInv` — behind that validation the session is still the one that was asked
  for;
* `HostInv` — the host has one session at a time, handles and endpoints are given
  out in ascending order, and a handle that a startup has recorded is its own
  session or one that is over;
* `OwnedInv` — a session with a client has a startup that has recorded it or is
  about to record or close it, and where a release is reported as done the session
  is gone.

`SignalInv` says where the signals of a session are: `QueueInv`, that the queue
belongs to the active session and is ascending; `WaitInv`, that a session has one wait and what it
has taken precedes what is queued; and `ReceivedInv`, that what was received
precedes both.

`SessionsInCustody` goes the way of `StreamsInCustody`. It needs two more facts, kept
by every step (`CustodyInv`): a startup that is about to deliver has its session on
the host, and a session whose user has called `CloseCamera` is not a delivered one.
Where `CloseLocal` frees a handle, `UseInv` and `HostInv` say that it is the caller's
own: handles are not reused and the session was validated behind the gate. With
handles that come back (the mutant `CreateSession_ReusesHandle`) a second call of
the first user closes the second startup's session.

`Subscription_proofs` proves, for any handlers, any limit of the queue and any
number of reports:

| Theorem | States |
|---|---|
| `ReceiptIsInOrder` | `Spec => []ReceivedInOrder` |
| `DrainsKeepApart` | `Spec => []DrainsApart` |
| `ReceiptIsOnce` | `Spec => []ReceivedAtMostOnce` |

Assumed: the event loop is not a handler (`ChipAssumption`), the limit is
positive, and there are fewer handlers than a `size_t` counts
(`HandlersAssumption`). `CountInv` says that the count misses at most one handler
for each stale revocation, so that without one the first handler counted is the
only one that drains. Until drains derail the rest is order: `DrainInv` says that
one handler's registration drains; `ChipInv` that the event loop is
raising only what it found no drain in the way of; `QueueInv` that the batch being
raised, the queue behind it and the report that comes next are one sequence, with
gaps at dropped reports only; and `HandlerInv` that this sequence continues what
each registered handler has received. What holds after that too is that reports
move and are never copied: `PlacesInv` says that the event loop, the queue and the
batches have none in common, and `OnceInv` that what they have ahead for a handler
is nothing it has received.

`Commissioning_proofs` proves, for any operations, pool tasks and stages:

| Theorem | States |
|---|---|
| `ReportsInOrder` | `Spec => []RaisedInOrder` |
| `PairingsKeepApart` | `Spec => []PairingsAreApart` |
| `NoWakeupLost` | `Spec => []SleeperIsWoken` |

Assumed: `NoOp` is no operation and the bound of stages is a number. `LeaseInv`
says that the exclusive lease covers a pairing from the reset of the state to its
outcome, `DeviceInv` where the operation of the native pairing and of a callback
stand, and `ApartInv` that, unless a failure strayed, a pairing that goes on has
its operation waiting for it and the state set up for that operation, and a result
without error is that of the operation that reads it; `DrainInv` and `QueueInv`
that one thread drains and what it holds precedes what is queued; `WakeInv` that
who canceled or completed while the worker slept is at the step that wakes it.
The attempt to prove `PairingsAreApart` without its condition failed at the
callback that comes after the wait for the details; section 6 says what that does
to a third operation, which the run with two could not show.

`ControllerLifecycle_proofs` proves, for any threads, callers and nodes and any
limit of the index:

| Theorem | States |
|---|---|
| `TypeCorrect` | `Spec => []TypeOK` |
| `IndexIsKept` | `Spec => []IndexSurvives` |
| `CloseIsClean` | `Spec => []ClosedIsClean` |
| `TakeDownIsPeaceful` | `Spec => []TakenDownInPeace` |

Assumed: `NoThread` and `NoCaller` are no threads and callers. `ThreadInv` says
that one thread at a time works on the runtime, with the locks its step calls for,
and what phase the runtime is in; `InstalledInv` and `PiecesInv` that what is
installed in the process is what the newest runtime's flags say, but for the loop
and for the access control that a failed shutdown left; `IndexInv` that
no node is in the index twice, that what is stored fits a value of the store, and
that the memory is what is stored as soon as it is loaded, unless a change is half
done or its write failed. `erase(remove_if)` (1822) is written as a function of positions (`Erased`);
that it is what `SelectSeq` gives is evaluated by TLC in `MCControllerLifecycle`,
that it keeps the rest is proved. The positions are ranked by counting, which takes
an induction: `LeastMember` gets it from the library's well-foundedness of the
numbers, where the theorem of induction has an operator for a parameter.

`Interaction_proofs` proves, for any operations, nodes and numbers of answers:

| Theorem | States |
|---|---|
| `TypeCorrect` | `Spec => []TypeOK` |
| `CallbacksFindTheirState` | `Spec => []CallbackFindsState` |
| `LeasesCoverClients` | `Spec => []LeaseCoversClient` |
| `ShutdownIsFinal` | `Spec => []NothingAfterShutdown` |
| `LoopReturns` | `Spec => []LoopIsNotBlocked` |
| `SuccessMeansAnswered` | `Spec => []SuccessIsAnswered` |

Assumed: a free lock is not held by the loop (`FreeAssumption`). `HoldInv` says
which locks and leases a step holds; `ClientInv` who may still close a client that
exists (its operation, a subscription's handle or `Close`); `LoopInv` that a callback under way is to a client that exists,
since whoever destroys one needs the stack lock the loop has; `AnswerInv` and
`SettledInv` that the result recorded is one that was heard, and is not changed
once the operation took it. The steps of the proof made the order of the
alternatives of `After` explicit: two of its guards overlapped, which TLC takes in
the order they are written and the language does not.

`CameraReceiver_proofs` proves, for any number of sessions, capacity of the
message channel and choice of modes:

| Theorem | States |
|---|---|
| `TypeCorrect` | `Spec => []TypeOK` |
| `SessionsAreApart` | `Spec => []SessionsKeepApart` |
| `MicrophoneIsGated` | `Spec => []MicrophoneGated` |
| `ReleasesAreSingle` | `Spec => []ReleasedOnce` |
| `StopsHoldNothing` | `Spec => []StoppedHoldsNothing` |

Assumed: there is a session and a place in the channel (`BoundAssumption`), and the
modes are some of the window's three with video among them (`ModeAssumption`). A
coroutine that resumes finds a window that may have been stopped, started again or
closed; the invariant says what it can still find. `TaskInv`: a coroutine is some
started session's. `StopInv`, `StartInv`: a stop takes the current session away in
its first step, before it waits, and a start under way is either the current session's, with
the offer that session's page made, or one that the stop waits for. `SessionInv`: the session
with the camera is the last one started, and the loops that poll it, and the
stop they have queued, are over before it is ended. `RemoteInv`: what the camera
holds is known to the window, unless the node is marked as uncertain.
`AllocationInv`: no allocation is under way when the streams are released, the
preparation of a lost page excepted. `ReleaseInv`: a deallocation that was sent is
the only one of its stream, and one of video finds no audio left, the same page
excepted: `StopCoreAsync` looks at audio first and not again. `QuietInv`: when a stop has ended nothing is owned, and
a window that closes begins nothing.

Only model-checked:

* liveness (`ShutdownCompletes`, `CrossNodeProgress`,
  `QueueDrains`, `LifecycleEnds`, `StopEnds`), which the prover does not reach, as it
  does not reach `ENABLED`;
* `PayloadSurvives`: induction over the nesting of a payload, and a recursive
  operator;
* that the counters of `Subscription` and `Commissioning` stay within the bounds their
  `TypeOK` names (`MaxReports`): the invariants have their types, natural numbers.

## 6. Where documentation and code disagree

* `AudioForgotten` (4781): a failing audio allocation changes the entry that is
  pending on its endpoint by then, another operation's included; the stream
  that one was given is forgotten while the camera still has it.
* `CommissioningLate` (745): the failure callback publishes after it has left
  the mutex, when the operation may have ended and drained.
* `IndexRecovered` (1805): a node whose index write failed is in memory and is
  not written by the next recovery.

Each quotes the sentence it contradicts in `PROJECT.json`. The models also show
behaviour that no sentence of the documentation excludes, which the properties
therefore allow:

* A cancellation that comes while the failure details of a refused attestation
  are awaited (1753) does not stop native pairing.
* A failure whose details come after the 100 ms that `Commission` waits for them
  (1755) stores its error in the one `PairingState` (734), which is the next
  operation's by then. That operation throws while its native pairing runs on and
  nobody stops it; the success of that pairing completes the operation after it,
  which has been reset and not yet paired, and which then indexes a node that has
  not joined. `PairingsAreApart` excepts what follows such details (`strayed`).
* A token that is revoked when it is not registered, a second time or in error,
  lowers `mReportHandlerCount` below the handlers (3311-3319, 3417-3425). The next
  handler may then start a drain beside one in progress, which raises reports out
  of order; reports are queued although handlers are attached; and a handler that
  throws may take the count below zero, which wraps and keeps every later handler
  from draining. `ReceivedInOrder` and `QueueDrains` except it, `DrainsApart` says
  that nothing else leads there, and `ReceivedAtMostOnce` that no report is raised
  twice even so.
* A signal taken by a wait that has just been canceled is received by nobody
  (4347).
* An exception of `LoadCommissionedNodes` leaves the stack lock locked (2552):
  the next creation waits for it with `sMutex` held. `LifecycleEnds` and
  `ClosedIsClean` except it.
* A camera host whose endpoint cannot be unregistered keeps its access control
  (`CameraControllerRuntime.h:82`), which every later host finds in its way.
* A receiver whose page was lost by a failed navigation does not wait for a
  preparation in progress when it stops (`CameraReceiverWindow.cs:845`): an audio
  stream allocated after that is released by no stop that follows unless the
  receiver is stopped once more. `samples/ControllerApp/README.md:196` says that
  partially completed audio preparation recovers the returned allocation before
  releasing it; `StoppedHoldsNothing` excepts a lost page.
* Two keys for one tag, as `"7"` and `"07"`, are both written; which comes first
  is up to `std::sort`. `PayloadSurvives` says nothing of them.
* `PropertySetScalar` throws E_BOUNDS for a number that does not fit and catches
  it itself: callers see E_INVALIDARG (583-606).

## 7. Not modelled

The walk of discovery over the endpoint tree and the capability reads (sequences
of modelled reads), argument validation, error categories, the size limit of an
encoded payload, typed clusters (thin wrappers), enumeration of network
interfaces and BLE adapters (Windows I/O), WebRTC media (outside the library),
the rest of the sample application (names, pages, widgets, audio profiles and
diagnostics of the receiver), tests and tools. The typed operation states of
lines 840-1030 are not used by any path. A handler that the event itself
drops because its process is gone is not in `Subscription`: the event then has
fewer handlers than `mReportHandlerCount` (3311). That a subscription that fails
after it was established only marks its state (1078), and tells no handler, is in
`Interaction`, and no property is about it because nothing promises more.

## 8. Plan

In order:

1. *Abstract specifications*: a lossy ordered channel that `Subscription` implements.
2. *Discovery*: the walk over the endpoint tree as a function, against a
   reference definition over small trees.
3. *Sample*: `WidgetSelectionStore` and the widget provider.
