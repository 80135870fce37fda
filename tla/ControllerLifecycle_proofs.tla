---------------------- MODULE ControllerLifecycle_proofs ----------------------
(***************************************************************************)
(* Proofs about ControllerLifecycle and the NodeIndex it runs, for every    *)
(* number of threads, callers and nodes and every limit of the index.       *)
(***************************************************************************)
EXTENDS ControllerLifecycle, FiniteSetTheorems, WellFoundedInduction, TLAPS

-----------------------------------------------------------------------------
(* The inductive invariant.                                                 *)

\* The steps at which a thread holds sMutex, and those at which it works on the runtime.
Creating == {"Previous", "Platform", "Lock", "Load", "Setup"}
Working == {"Platform", "Lock", "Load", "Setup", "Begin", "StopLoop", "TakeDown"}

\* One thread at a time works on the runtime, and the phase of the runtime says how far it
\* has come; sMutex and the stack lock are held where the code holds them.
ThreadInv(t) ==
    /\ step[t] \in Creating => mutex = t
    /\ mutex = t => step[t] \notin {"Idle", "Mutex"}
    /\ step[t] \in {"Load", "Setup"} => lock = t
    /\ step[t] \in {"Platform", "Lock", "Setup"} => runtime = "Starting"
    /\ step[t] = "Load" => runtime = "Loading"
    /\ step[t] = "Begin" => runtime = "Shutting" \/ (runtime = "Starting" /\ mutex = t)
    /\ step[t] \in {"StopLoop", "TakeDown"} => runtime = "Closing"
    /\ \A u \in Threads : step[t] \in Working /\ step[u] \in Working => t = u

PhaseInv ==
    /\ runtime \in {"Starting", "Loading"} => mutex \in Threads /\ step[mutex] \in Working
    /\ runtime # "Refused"
    /\ runtime \notin {"Up", "Shutting"} => lease = NoCaller /\ \A c \in Callers : at[c] = "Idle"

\* What is installed is the runtime's own, or the loop, or was left by a shutdown that could
\* not unregister an endpoint.
Left == IF stuck THEN {"access"} ELSE {}

InstalledInv ==
    /\ lock # "Lost" /\ runtime \in {"Down", "Closed"} => native \subseteq Left
    /\ lock # "Lost" /\ runtime = "Up" => native \subseteq own \cup {"loop"} \cup Left

PiecesInv(t) ==
    /\ step[t] = "Platform" => own = {} /\ (lock # "Lost" => native \subseteq Left)
    /\ step[t] = "Lock" => own = {} /\ (lock # "Lost" => native \subseteq Left \cup {"loop"})
    /\ step[t] \in {"Load", "Setup", "Begin", "StopLoop"} /\ lock # "Lost" =>
        native \subseteq own \cup {"loop"} \cup Left
    /\ step[t] = "TakeDown" => "loop" \notin native /\ (lock # "Lost" => native \subseteq own \cup Left)

\* A node is in the index once, the stored index fits a value, and a runtime shows what is
\* stored as soon as it is loaded and whenever no change is half done.
IndexInv ==
    /\ IsInjective(memory) /\ IsInjective(stored)
    /\ Len(stored) <= kMaximumNodeCount
    /\ \A c \in Callers : lease = c <=> at[c] \in {"Write", "Return"}
    /\ \A c \in Callers : at[c] \in {"Verify", "Enter"} => \E kind \in Kinds : op[c] = <<kind>>
    /\ runtime = "Up" /\ ~failed /\ (\A c \in Callers : at[c] # "Write") => memory = stored
    /\ (\E t \in Threads : step[t] = "Setup") /\ ~failed => memory = stored

IInv ==
    /\ TypeOK
    /\ \A t \in Threads : ThreadInv(t) /\ PiecesInv(t)
    /\ PhaseInv
    /\ InstalledInv
    /\ IndexInv

-----------------------------------------------------------------------------
(* What erase leaves of the index.                                          *)

\* A set of natural numbers that is not empty has a least member.
LEMMA LeastMember ==
    ASSUME NEW T, T \subseteq Nat, T # {}
    PROVE  \E x \in T : \A y \in T : x <= y
<1>1. IsWellFoundedOn(OpToRel(<, Nat), Nat)
  BY NatLessThanWellFounded
<1>2. PICK x \in T : \A y \in T : ~ (<<y, x>> \in OpToRel(<, Nat))
  BY <1>1, WFMin
<1>3. \A y, z \in Nat : y < z => <<y, z>> \in OpToRel(<, Nat)
  BY DEF OpToRel
<1>4. ASSUME NEW y \in T
      PROVE  x <= y
  <2>1. x \in Nat /\ y \in Nat
    OBVIOUS
  <2>2. ~ (y < x)
    BY <1>2, <1>3, <2>1
  <2> QED
    BY <2>1, <2>2
<1> QED
  BY <1>4

\* In a finite set of positions every rank is that of a member.
LEMMA RankExists ==
    ASSUME NEW K, K \subseteq Nat, IsFiniteSet(K), NEW k \in 1 .. Cardinality(K)
    PROVE  \E i \in K : Cardinality({j \in K : j < i}) = k - 1
<1> DEFINE Below(i) == {j \in K : j < i}
           Above(i) == {j \in K : i < j}
<1>1. Cardinality(K) \in Nat
  BY FS_CardinalityType
<1>2. \A i : /\ Below(i) \subseteq K /\ Above(i) \subseteq K
             /\ \A j \in K : (j \in Below(i) <=> j < i) /\ (j \in Above(i) <=> i < j)
  OBVIOUS
<1>3. SUFFICES \E i \in K : Cardinality(Below(i)) = k - 1
  OBVIOUS
<1> HIDE DEF Below, Above
<1> DEFINE Missing == {m \in 1 .. Cardinality(K) : \A i \in K : Cardinality(Below(i)) # m - 1}
<1>4. SUFFICES ASSUME Missing # {} PROVE FALSE
  OBVIOUS
<1>5. /\ Missing \subseteq Nat
      /\ \A m \in Missing : m \in 1 .. Cardinality(K) /\ \A i \in K : Cardinality(Below(i)) # m - 1
      /\ \A m \in (1 .. Cardinality(K)) \ Missing : \E i \in K : Cardinality(Below(i)) = m - 1
  BY <1>1
<1> HIDE DEF Missing
<1>6. PICK m \in Missing : \A l \in Missing : m <= l
  BY <1>4, <1>5, LeastMember
<1>7. m \in Nat /\ 1 <= m /\ m <= Cardinality(K)
  BY <1>1, <1>5
<1>8. CASE m = 1
  <2>1. K # {}
    BY <1>1, <1>7, FS_EmptySet
  <2>2. PICK i \in K : \A j \in K : i <= j
    BY <2>1, LeastMember
  <2>3. \A j \in K : j \in Nat /\ i \in Nat /\ ~(j < i)
    BY <2>2
  <2>4. Below(i) = {}
    BY <1>2, <2>3
  <2>5. Cardinality(Below(i)) = 0
    BY <2>4, FS_EmptySet
  <2> QED
    BY <1>5, <1>8, <2>5
<1>9. CASE m # 1
  <2>1. m - 1 \in (1 .. Cardinality(K)) \ Missing
    BY <1>1, <1>6, <1>7, <1>9
  <2>2. PICK i \in K : Cardinality(Below(i)) = m - 2
    BY <1>5, <1>7, <2>1
  <2>3. IsFiniteSet(Below(i))
    BY <1>2, FS_Subset
  <2>4. i \notin Below(i)
    BY <1>2
  <2>5. Cardinality(Below(i) \cup {i}) = m - 1
    <3>1. Cardinality(Below(i) \cup {i}) = Cardinality(Below(i)) + 1
      BY <2>3, <2>4, FS_AddElement
    <3> QED
      BY <1>7, <2>2, <3>1
  <2>6. Above(i) # {}
    <3>1. SUFFICES ASSUME Above(i) = {} PROVE FALSE
      OBVIOUS
    <3>2. \A j \in K : j \in Nat /\ i \in Nat
      OBVIOUS
    <3>3. \A j \in K : j \in Below(i) \cup {i}
      BY <1>2, <3>1, <3>2
    <3>4. K = Below(i) \cup {i}
      BY <1>2, <3>3
    <3> QED
      BY <1>1, <1>7, <2>5, <3>4
  <2>7. Above(i) \subseteq Nat
    BY <1>2
  <2>8. PICK h \in Above(i) : \A j \in Above(i) : h <= j
    BY <2>6, <2>7, LeastMember
  <2>9. h \in K /\ i < h
    BY <1>2
  <2>10. \A j \in K : j < h <=> j < i \/ j = i
    <3>1. \A j \in K : j \in Nat /\ i \in Nat /\ h \in Nat
      BY <2>9
    <3>2. \A j \in K : i < j => h <= j
      BY <1>2, <2>8
    <3> QED
      BY <2>9, <3>1, <3>2
  <2>11. \A j : j \in Below(h) <=> j \in Below(i) \cup {i}
    BY <1>2, <2>9, <2>10
  <2>12. Below(h) = Below(i) \cup {i}
    BY <2>11
  <2> QED
    BY <1>5, <2>5, <2>9, <2>12
<1> QED
  BY <1>8, <1>9

\* Erasing a node leaves a sequence of nodes, in which a node is still only once.
LEMMA ErasedType ==
    ASSUME NEW s \in Seq(Nodes), NEW n
    PROVE  /\ Erased(s, n) \in Seq(Nodes)
           /\ IsInjective(s) => IsInjective(Erased(s, n))
<1> DEFINE K == Kept(s, n)
           At(k) == CHOOSE i \in K : Cardinality({j \in K : j < i}) = k - 1
<1>1. K \subseteq 1 .. Len(s) /\ K \subseteq Nat /\ IsFiniteSet(K) /\ DOMAIN s = 1 .. Len(s)
  <2>1. DOMAIN s = 1 .. Len(s) /\ Len(s) \in Nat
    OBVIOUS
  <2>2. IsFiniteSet(1 .. Len(s))
    BY <2>1, FS_Interval
  <2> QED
    BY <2>1, <2>2, FS_Subset DEF Kept
<1>2. Cardinality(K) \in Nat
  BY <1>1, FS_CardinalityType
<1>3. ASSUME NEW k \in 1 .. Cardinality(K)
      PROVE  At(k) \in K /\ Cardinality({j \in K : j < At(k)}) = k - 1
  <2>1. \E i \in K : Cardinality({j \in K : j < i}) = k - 1
    BY <1>1, RankExists
  <2> QED
    BY <2>1
<1>4. Erased(s, n) = [k \in 1 .. Cardinality(K) |-> s[At(k)]]
  BY DEF Erased
<1> HIDE DEF K, At
<1>5. Erased(s, n) \in Seq(Nodes)
  <2>1. \A i \in 1 .. Len(s) : s[i] \in Nodes
    OBVIOUS
  <2>2. \A k \in 1 .. Cardinality(K) : s[At(k)] \in Nodes
    BY <1>1, <1>3, <2>1
  <2> QED
    BY <1>2, <1>4, <2>2
<1>6. ASSUME IsInjective(s), NEW k \in 1 .. Cardinality(K), NEW l \in 1 .. Cardinality(K),
             s[At(k)] = s[At(l)]
      PROVE  k = l
  <2>1. At(k) \in DOMAIN s /\ At(l) \in DOMAIN s
    BY <1>1, <1>3
  <2>2. At(k) = At(l)
    BY <1>6, <2>1 DEF IsInjective
  <2>3. k - 1 = l - 1
    BY <1>3, <2>2
  <2> QED
    BY <1>2, <2>3
<1>7. IsInjective(s) => IsInjective(Erased(s, n))
  BY <1>4, <1>6 DEF IsInjective
<1> QED
  BY <1>5, <1>7

\* The empty index.
LEMMA NoNodes == <<>> \in Seq(Nodes) /\ IsInjective(<<>>)
<1>1. <<>> \in Seq(Nodes)
  OBVIOUS
<1>2. DOMAIN <<>> = {}
  OBVIOUS
<1> QED
  BY <1>1, <1>2 DEF IsInjective

-----------------------------------------------------------------------------
(* The steps of a thread.                                                   *)

\* A thread asks for a controller: CreateAsync preserves the invariant.
LEMMA CreateAsyncStep ==
    ASSUME IInv, NEW t \in Threads, CreateAsync(t)
    PROVE  IInv'
<1>1. TypeOK'
  BY CountAssumption DEF IInv, TypeOK, IndexTypeOK, CreateAsync, Goes, Leaves, vars, index, callers, Pieces
<1>2. ASSUME NEW u \in Threads
      PROVE  ThreadInv(u)'
  BY ThreadAssumption DEF IInv, TypeOK, ThreadInv, PhaseInv, Creating, Working, CreateAsync, Goes,
     Leaves, vars
<1>3. PhaseInv'
  BY ThreadAssumption DEF IInv, TypeOK, ThreadInv, PhaseInv, Creating, Working, CreateAsync, Goes,
     Leaves, vars, callers
<1>4. InstalledInv'
  BY ThreadAssumption DEF IInv, TypeOK, ThreadInv, PhaseInv, InstalledInv, PiecesInv, Left, CreateAsync,
     Goes, Leaves, vars
<1>5. ASSUME NEW u \in Threads
      PROVE  PiecesInv(u)'
  BY ThreadAssumption DEF IInv, TypeOK, ThreadInv, PhaseInv, InstalledInv, PiecesInv, Left, Working, Pieces,
     CreateAsync, Goes, Leaves, vars
<1>6. IndexInv'
  BY CallerAssumption DEF IInv, TypeOK, ThreadInv, PhaseInv, IndexInv, CreateAsync, Goes, Leaves, vars,
     index, callers
<1> QED
  BY <1>1, <1>2, <1>3, <1>4, <1>5, <1>6 DEF IInv

\* It takes sMutex: EnterCreate preserves the invariant.
LEMMA EnterCreateStep ==
    ASSUME IInv, NEW t \in Threads, EnterCreate(t)
    PROVE  IInv'
<1>1. TypeOK'
  BY CountAssumption DEF IInv, TypeOK, IndexTypeOK, EnterCreate, Goes, Leaves, vars, index, callers, Pieces
<1>2. ASSUME NEW u \in Threads
      PROVE  ThreadInv(u)'
  BY ThreadAssumption DEF IInv, TypeOK, ThreadInv, PhaseInv, Creating, Working, EnterCreate, Goes,
     Leaves, vars
<1>3. PhaseInv'
  BY ThreadAssumption DEF IInv, TypeOK, ThreadInv, PhaseInv, Creating, Working, EnterCreate, Goes,
     Leaves, vars, callers
<1>4. InstalledInv'
  BY ThreadAssumption DEF IInv, TypeOK, ThreadInv, PhaseInv, InstalledInv, PiecesInv, Left, EnterCreate,
     Goes, Leaves, vars
<1>5. ASSUME NEW u \in Threads
      PROVE  PiecesInv(u)'
  BY ThreadAssumption DEF IInv, TypeOK, ThreadInv, PhaseInv, InstalledInv, PiecesInv, Left, Working, Pieces,
     EnterCreate, Goes, Leaves, vars
<1>6. IndexInv'
  BY CallerAssumption DEF IInv, TypeOK, ThreadInv, PhaseInv, IndexInv, EnterCreate, Goes, Leaves, vars,
     index, callers
<1> QED
  BY <1>1, <1>2, <1>3, <1>4, <1>5, <1>6 DEF IInv

\* The previous runtime makes way, or the creation is refused: CheckPrevious preserves the invariant.
LEMMA CheckPreviousStep ==
    ASSUME IInv, NEW t \in Threads, CheckPrevious(t)
    PROVE  IInv'
<1>1. TypeOK'
  BY CountAssumption DEF IInv, TypeOK, IndexTypeOK, CheckPrevious, Goes, Leaves, vars, index, callers,
     Pieces
<1>2. ASSUME NEW u \in Threads
      PROVE  ThreadInv(u)'
  BY ThreadAssumption DEF IInv, TypeOK, ThreadInv, PhaseInv, Creating, Working, CheckPrevious, Goes,
     Leaves, vars
<1>3. PhaseInv'
  BY ThreadAssumption DEF IInv, TypeOK, ThreadInv, PhaseInv, Creating, Working, CheckPrevious, Goes,
     Leaves, vars, callers
<1>4. InstalledInv'
  BY ThreadAssumption DEF IInv, TypeOK, ThreadInv, PhaseInv, InstalledInv, PiecesInv, Left,
     CheckPrevious, Goes, Leaves, vars
<1>5. ASSUME NEW u \in Threads
      PROVE  PiecesInv(u)'
  <2>1. CASE runtime' # "Starting"
    BY <2>1 DEF IInv, TypeOK, ThreadInv, PhaseInv, InstalledInv, PiecesInv, Left, Working, CheckPrevious,
       Goes, Leaves, vars
  <2>2. CASE runtime' = "Starting"
    <3>1. runtime \in {"Down", "Closed"} /\ step' = [step EXCEPT ![t] = "Platform"] /\ own' = {}
      BY <2>2, ThreadAssumption DEF IInv, TypeOK, IndexTypeOK, ThreadInv, PhaseInv, Creating, Working,
         CheckPrevious, Goes, Leaves
    <3>2. step[u] \notin Working
      BY <3>1 DEF IInv, ThreadInv, Working
    <3>3. lock # "Lost" => native \subseteq Left
      BY <3>1 DEF IInv, InstalledInv
    <3> QED
      BY <3>1, <3>2, <3>3 DEF IInv, TypeOK, PiecesInv, Left, Working, CheckPrevious
  <2> QED
    BY <2>1, <2>2
<1>6. IndexInv'
  BY CallerAssumption DEF IInv, TypeOK, ThreadInv, PhaseInv, IndexInv, CheckPrevious, Goes, Leaves, vars,
     index, callers
<1> QED
  BY <1>1, <1>2, <1>3, <1>4, <1>5, <1>6 DEF IInv

\* The platform and the event loop are started, or the creation fails: StartPlatform preserves the invariant.
LEMMA StartPlatformStep ==
    ASSUME IInv, NEW t \in Threads, StartPlatform(t)
    PROVE  IInv'
<1>1. TypeOK'
  BY CountAssumption DEF IInv, TypeOK, IndexTypeOK, StartPlatform, Goes, Leaves, vars, index, callers,
     Pieces
<1>2. ASSUME NEW u \in Threads
      PROVE  ThreadInv(u)'
  BY ThreadAssumption DEF IInv, TypeOK, ThreadInv, PhaseInv, Creating, Working, StartPlatform, Goes,
     Leaves, vars
<1>3. PhaseInv'
  BY ThreadAssumption DEF IInv, TypeOK, ThreadInv, PhaseInv, Creating, Working, StartPlatform, Goes,
     Leaves, vars, callers
<1>4. InstalledInv'
  BY ThreadAssumption DEF IInv, TypeOK, ThreadInv, PhaseInv, InstalledInv, PiecesInv, Left,
     StartPlatform, Goes, Leaves, vars
<1>5. ASSUME NEW u \in Threads
      PROVE  PiecesInv(u)'
  BY ZenonT(60), ThreadAssumption DEF IInv, TypeOK, ThreadInv, PhaseInv, InstalledInv, PiecesInv, Left,
       Working, Pieces,
     StartPlatform, Goes, Leaves, vars
<1>6. IndexInv'
  BY CallerAssumption DEF IInv, TypeOK, ThreadInv, PhaseInv, IndexInv, StartPlatform, Goes, Leaves, vars,
     index, callers
<1> QED
  BY <1>1, <1>2, <1>3, <1>4, <1>5, <1>6 DEF IInv

\* The stack lock is taken and the host initialized: LockStack preserves the invariant.
LEMMA LockStackStep ==
    ASSUME IInv, NEW t \in Threads, LockStack(t)
    PROVE  IInv'
<1>1. TypeOK'
  <2>1. runtime' \in {"Down", "Starting", "Loading", "Refused", "Up", "Shutting", "Closing", "Closed"}
    BY DEF IInv, TypeOK, IndexTypeOK, LockStack, Goes, Leaves, index, callers, Pieces
  <2>2. size' \in 1 .. kMaximumNodeCount
    BY CountAssumption DEF IInv, TypeOK, IndexTypeOK, LockStack, Goes, Leaves, index, callers, Pieces
  <2>3. memory' \in Seq(Nodes) /\ stored' \in Seq(Nodes) /\ failed' \in BOOLEAN
    BY DEF IInv, TypeOK, IndexTypeOK, LockStack, Goes, Leaves, index, callers, Pieces
  <2>4. lease' \in Callers \cup {NoCaller} /\ at' \in [Callers -> Steps]
    BY DEF IInv, TypeOK, IndexTypeOK, LockStack, Goes, Leaves, index, callers, Pieces
  <2>5. op' \in [Callers -> {<<>>} \cup {<<kind>> : kind \in Kinds} \cup (Kinds \X Nodes)]
    BY DEF IInv, TypeOK, IndexTypeOK, LockStack, Goes, Leaves, index, callers, Pieces
  <2>6. step' \in [Threads -> {"Idle", "Mutex", "Previous", "Platform", "Lock", "Load", "Setup",
                             "Begin", "StopLoop", "TakeDown"}]
    BY DEF IInv, TypeOK, IndexTypeOK, LockStack, Goes, Leaves, index, callers, Pieces
  <2>7. mutex' \in Threads \cup {NoThread} /\ lock' \in Threads \cup {NoThread, "Loop", "Lost"}
    BY DEF IInv, TypeOK, IndexTypeOK, LockStack, Goes, Leaves, index, callers, Pieces
  <2>8. native' \subseteq Pieces /\ own' \subseteq Pieces /\ stuck' \in BOOLEAN
    BY DEF IInv, TypeOK, IndexTypeOK, LockStack, Goes, Leaves, index, callers, Pieces
  <2> QED
    BY <2>1, <2>2, <2>3, <2>4, <2>5, <2>6, <2>7, <2>8 DEF TypeOK, IndexTypeOK
<1>2. ASSUME NEW u \in Threads
      PROVE  ThreadInv(u)'
  BY ThreadAssumption DEF IInv, TypeOK, ThreadInv, PhaseInv, Creating, Working, LockStack, Goes, Leaves,
     vars
<1>3. PhaseInv'
  BY ThreadAssumption DEF IInv, TypeOK, ThreadInv, PhaseInv, Creating, Working, LockStack, Goes, Leaves,
     vars, callers
<1>4. InstalledInv'
  BY ThreadAssumption DEF IInv, TypeOK, ThreadInv, PhaseInv, InstalledInv, PiecesInv, Left, LockStack,
     Goes, Leaves, vars
<1>5. ASSUME NEW u \in Threads
      PROVE  PiecesInv(u)'
  <2>1. own = {} /\ native \subseteq Left \cup {"loop"} /\ stuck' = stuck /\ Left' = Left
    BY ThreadAssumption DEF IInv, PiecesInv, LockStack, Left
  <2>2. native' \subseteq own' \cup {"loop"} \cup Left
    BY <2>1 DEF LockStack
  <2>3. u # t => step[u] \notin Working /\ step'[u] = step[u]
    BY DEF IInv, TypeOK, ThreadInv, Working, LockStack, Goes
  <2>4. u = t => step'[u] \in {"Load", "Begin"}
    BY DEF IInv, TypeOK, LockStack, Goes
  <2> QED
    BY <2>1, <2>2, <2>3, <2>4 DEF PiecesInv, Working
<1>6. IndexInv'
  BY CallerAssumption DEF IInv, TypeOK, ThreadInv, PhaseInv, IndexInv, LockStack, Goes, Leaves, vars,
     index, callers
<1> QED
  BY <1>1, <1>2, <1>3, <1>4, <1>5, <1>6 DEF IInv

\* The index is read: Load preserves the invariant.
LEMMA LoadStep ==
    ASSUME IInv, NEW t \in Threads, Load(t)
    PROVE  IInv'
<1>1. TypeOK'
  <2>1. runtime' \in {"Down", "Starting", "Loading", "Refused", "Up", "Shutting", "Closing", "Closed"}
    BY DEF IInv, TypeOK, IndexTypeOK, Load, Goes, Leaves, index, callers, Pieces, ReadIndex
  <2>2. size' \in 1 .. kMaximumNodeCount
    BY CountAssumption DEF IInv, TypeOK, IndexTypeOK, Load, Goes, Leaves, index, callers, Pieces, ReadIndex
  <2>3. memory' \in Seq(Nodes) /\ stored' \in Seq(Nodes) /\ failed' \in BOOLEAN
    BY DEF IInv, TypeOK, IndexTypeOK, Load, Goes, Leaves, index, callers, Pieces, ReadIndex
  <2>4. lease' \in Callers \cup {NoCaller} /\ at' \in [Callers -> Steps]
    BY DEF IInv, TypeOK, IndexTypeOK, Load, Goes, Leaves, index, callers, Pieces
  <2>5. op' \in [Callers -> {<<>>} \cup {<<kind>> : kind \in Kinds} \cup (Kinds \X Nodes)]
    BY DEF IInv, TypeOK, IndexTypeOK, Load, Goes, Leaves, index, callers, Pieces
  <2>6. step' \in [Threads -> {"Idle", "Mutex", "Previous", "Platform", "Lock", "Load", "Setup",
                             "Begin", "StopLoop", "TakeDown"}]
    BY DEF IInv, TypeOK, IndexTypeOK, Load, Goes, Leaves, index, callers, Pieces
  <2>7. mutex' \in Threads \cup {NoThread} /\ lock' \in Threads \cup {NoThread, "Loop", "Lost"}
    BY DEF IInv, TypeOK, IndexTypeOK, Load, Goes, Leaves, index, callers, Pieces
  <2>8. native' \subseteq Pieces /\ own' \subseteq Pieces /\ stuck' \in BOOLEAN
    BY DEF IInv, TypeOK, IndexTypeOK, Load, Goes, Leaves, index, callers, Pieces
  <2> QED
    BY <2>1, <2>2, <2>3, <2>4, <2>5, <2>6, <2>7, <2>8 DEF TypeOK, IndexTypeOK
<1>2. ASSUME NEW u \in Threads
      PROVE  ThreadInv(u)'
  BY ThreadAssumption DEF IInv, TypeOK, ThreadInv, PhaseInv, Creating, Working, Load, Goes, Leaves, vars
<1>3. PhaseInv'
  <2>1. ~ (Len(stored) > size /\ size = kMaximumNodeCount)
    BY CountAssumption DEF IInv, TypeOK, IndexTypeOK, IndexInv
  <2> QED
    BY <2>1, ThreadAssumption DEF ReadIndex, IInv, TypeOK, ThreadInv, PhaseInv, Creating, Working, Load,
       Goes, Leaves, vars, callers
<1>4. InstalledInv'
  BY ThreadAssumption DEF IInv, TypeOK, ThreadInv, PhaseInv, InstalledInv, PiecesInv, Left, Load, Goes,
     Leaves, vars
<1>5. ASSUME NEW u \in Threads
      PROVE  PiecesInv(u)'
  BY ThreadAssumption DEF IInv, TypeOK, ThreadInv, PhaseInv, InstalledInv, PiecesInv, Left, Working, Pieces,
     Load, Goes, Leaves, vars
<1>6. IndexInv'
  <2>1. stored' = stored /\ lease' = lease /\ at' = at /\ op' = op /\ runtime' # "Up"
    BY DEF Load, ReadIndex, callers
  <2>2. IsInjective(memory')
    BY DEF Load, ReadIndex, IInv, IndexInv
  <2>3. (\E u \in Threads : step'[u] = "Setup") => memory' = stored
    <3>1. \A u \in Threads : u # t => step[u] # "Setup" /\ step'[u] = step[u]
      BY DEF IInv, TypeOK, ThreadInv, Working, Load, Goes, Leaves
    <3>2. step'[t] = "Setup" => memory' = stored
      BY DEF IInv, TypeOK, ThreadInv, Load, ReadIndex, Goes, Leaves
    <3> QED
      BY <3>1, <3>2
  <2> QED
    BY <2>1, <2>2, <2>3 DEF IInv, IndexInv
<1> QED
  BY <1>1, <1>2, <1>3, <1>4, <1>5, <1>6 DEF IInv

\* The rest is installed, up to an error: Setup preserves the invariant.
LEMMA SetupStep ==
    ASSUME IInv, NEW t \in Threads, Setup(t)
    PROVE  IInv'
<1>1. TypeOK'
  BY CountAssumption DEF IInv, TypeOK, IndexTypeOK, Setup, Goes, Leaves, vars, index, callers, Pieces
<1>2. ASSUME NEW u \in Threads
      PROVE  ThreadInv(u)'
  BY ThreadAssumption DEF IInv, TypeOK, ThreadInv, PhaseInv, Creating, Working, Setup, Goes, Leaves, vars
<1>3. PhaseInv'
  BY ThreadAssumption DEF IInv, TypeOK, ThreadInv, PhaseInv, Creating, Working, Setup, Goes, Leaves,
     vars, callers
<1>4. InstalledInv'
  BY ThreadAssumption DEF IInv, TypeOK, ThreadInv, PhaseInv, InstalledInv, PiecesInv, Left, Setup, Goes,
     Leaves, vars
<1>5. ASSUME NEW u \in Threads
      PROVE  PiecesInv(u)'
  BY ZenonT(60), ThreadAssumption DEF IInv, TypeOK, ThreadInv, PhaseInv, InstalledInv, PiecesInv, Left,
       Working, Pieces,
     Setup, Goes, Leaves, vars
<1>6. IndexInv'
  BY CallerAssumption DEF IInv, TypeOK, ThreadInv, PhaseInv, IndexInv, Setup, Goes, Leaves, vars, index,
     callers
<1> QED
  BY <1>1, <1>2, <1>3, <1>4, <1>5, <1>6 DEF IInv

\* A thread closes the runtime: CloseAsync preserves the invariant.
LEMMA CloseAsyncStep ==
    ASSUME IInv, NEW t \in Threads, CloseAsync(t)
    PROVE  IInv'
<1>1. TypeOK'
  BY CountAssumption DEF IInv, TypeOK, IndexTypeOK, CloseAsync, Goes, Leaves, vars, index, callers, Pieces
<1>2. ASSUME NEW u \in Threads
      PROVE  ThreadInv(u)'
  BY ThreadAssumption DEF IInv, TypeOK, ThreadInv, PhaseInv, Creating, Working, CloseAsync, Goes, Leaves,
     vars
<1>3. PhaseInv'
  BY ThreadAssumption DEF IInv, TypeOK, ThreadInv, PhaseInv, Creating, Working, CloseAsync, Goes, Leaves,
     vars, callers
<1>4. InstalledInv'
  BY ThreadAssumption DEF IInv, TypeOK, ThreadInv, PhaseInv, InstalledInv, PiecesInv, Left, CloseAsync,
     Goes, Leaves, vars
<1>5. ASSUME NEW u \in Threads
      PROVE  PiecesInv(u)'
  BY ThreadAssumption DEF IInv, TypeOK, ThreadInv, PhaseInv, InstalledInv, PiecesInv, Left, Working, Pieces,
     CloseAsync, Goes, Leaves, vars
<1>6. IndexInv'
  BY CallerAssumption DEF IInv, TypeOK, ThreadInv, PhaseInv, IndexInv, CloseAsync, Goes, Leaves, vars,
     index, callers
<1> QED
  BY <1>1, <1>2, <1>3, <1>4, <1>5, <1>6 DEF IInv

\* The lifetime is acquired: Begin preserves the invariant.
LEMMA BeginStep ==
    ASSUME IInv, NEW t \in Threads, Begin(t)
    PROVE  IInv'
<1>1. TypeOK'
  <2>1. runtime' \in {"Down", "Starting", "Loading", "Refused", "Up", "Shutting", "Closing", "Closed"}
    BY DEF IInv, TypeOK, IndexTypeOK, Begin, Goes, Leaves, index, callers, Pieces
  <2>2. size' \in 1 .. kMaximumNodeCount
    BY CountAssumption DEF IInv, TypeOK, IndexTypeOK, Begin, Goes, Leaves, index, callers, Pieces
  <2>3. memory' \in Seq(Nodes) /\ stored' \in Seq(Nodes) /\ failed' \in BOOLEAN
    BY DEF IInv, TypeOK, IndexTypeOK, Begin, Goes, Leaves, index, callers, Pieces
  <2>4. lease' \in Callers \cup {NoCaller} /\ at' \in [Callers -> Steps]
    BY DEF IInv, TypeOK, IndexTypeOK, Begin, Goes, Leaves, index, callers, Pieces, Steps
  <2>5. op' \in [Callers -> {<<>>} \cup {<<kind>> : kind \in Kinds} \cup (Kinds \X Nodes)]
    BY DEF IInv, TypeOK, IndexTypeOK, Begin, Goes, Leaves, index, callers, Pieces
  <2>6. step' \in [Threads -> {"Idle", "Mutex", "Previous", "Platform", "Lock", "Load", "Setup",
                             "Begin", "StopLoop", "TakeDown"}]
    BY DEF IInv, TypeOK, IndexTypeOK, Begin, Goes, Leaves, index, callers, Pieces
  <2>7. mutex' \in Threads \cup {NoThread} /\ lock' \in Threads \cup {NoThread, "Loop", "Lost"}
    BY DEF IInv, TypeOK, IndexTypeOK, Begin, Goes, Leaves, index, callers, Pieces
  <2>8. native' \subseteq Pieces /\ own' \subseteq Pieces /\ stuck' \in BOOLEAN
    BY DEF IInv, TypeOK, IndexTypeOK, Begin, Goes, Leaves, index, callers, Pieces
  <2> QED
    BY <2>1, <2>2, <2>3, <2>4, <2>5, <2>6, <2>7, <2>8 DEF TypeOK, IndexTypeOK
<1>2. ASSUME NEW u \in Threads
      PROVE  ThreadInv(u)'
  BY ThreadAssumption DEF IInv, TypeOK, ThreadInv, PhaseInv, Creating, Working, Begin, Goes, Leaves, vars
<1>3. PhaseInv'
  BY ThreadAssumption DEF IInv, TypeOK, ThreadInv, PhaseInv, Creating, Working, Begin, Goes, Leaves,
     vars, callers
<1>4. InstalledInv'
  BY ThreadAssumption DEF IInv, TypeOK, ThreadInv, PhaseInv, InstalledInv, PiecesInv, Left, Begin, Goes,
     Leaves, vars
<1>5. ASSUME NEW u \in Threads
      PROVE  PiecesInv(u)'
  BY ThreadAssumption DEF IInv, TypeOK, ThreadInv, PhaseInv, InstalledInv, PiecesInv, Left, Working, Pieces,
     Begin, Goes, Leaves, vars
<1>6. IndexInv'
  BY CallerAssumption DEF IInv, TypeOK, ThreadInv, PhaseInv, IndexInv, Begin, Goes, Leaves, vars, index,
     callers
<1> QED
  BY <1>1, <1>2, <1>3, <1>4, <1>5, <1>6 DEF IInv

\* The event loop ends: StopLoop preserves the invariant.
LEMMA StopLoopStep ==
    ASSUME IInv, NEW t \in Threads, StopLoop(t)
    PROVE  IInv'
<1>1. TypeOK'
  BY CountAssumption DEF IInv, TypeOK, IndexTypeOK, StopLoop, Goes, Leaves, vars, index, callers, Pieces
<1>2. ASSUME NEW u \in Threads
      PROVE  ThreadInv(u)'
  BY ThreadAssumption DEF IInv, TypeOK, ThreadInv, PhaseInv, Creating, Working, StopLoop, Goes, Leaves, vars
<1>3. PhaseInv'
  BY ThreadAssumption DEF IInv, TypeOK, ThreadInv, PhaseInv, Creating, Working, StopLoop, Goes, Leaves,
     vars, callers
<1>4. InstalledInv'
  BY ThreadAssumption DEF IInv, TypeOK, ThreadInv, PhaseInv, InstalledInv, PiecesInv, Left, StopLoop,
     Goes, Leaves, vars
<1>5. ASSUME NEW u \in Threads
      PROVE  PiecesInv(u)'
  BY ThreadAssumption DEF IInv, TypeOK, ThreadInv, PhaseInv, InstalledInv, PiecesInv, Left, Working, Pieces,
     StopLoop, Goes, Leaves, vars
<1>6. IndexInv'
  BY CallerAssumption DEF IInv, TypeOK, ThreadInv, PhaseInv, IndexInv, StopLoop, Goes, Leaves, vars,
     index, callers
<1> QED
  BY <1>1, <1>2, <1>3, <1>4, <1>5, <1>6 DEF IInv

\* The pieces are taken down: TakeDown preserves the invariant.
LEMMA TakeDownStep ==
    ASSUME IInv, NEW t \in Threads, TakeDown(t)
    PROVE  IInv'
<1>1. TypeOK'
  <2>1. runtime' \in {"Down", "Starting", "Loading", "Refused", "Up", "Shutting", "Closing", "Closed"}
    BY DEF IInv, TypeOK, IndexTypeOK, TakeDown, Goes, Leaves, index, callers, Pieces
  <2>2. size' \in 1 .. kMaximumNodeCount
    BY CountAssumption DEF IInv, TypeOK, IndexTypeOK, TakeDown, Goes, Leaves, index, callers, Pieces
  <2>3. memory' \in Seq(Nodes) /\ stored' \in Seq(Nodes) /\ failed' \in BOOLEAN
    BY NoNodes DEF IInv, TypeOK, IndexTypeOK, TakeDown
  <2>4. lease' \in Callers \cup {NoCaller} /\ at' \in [Callers -> Steps]
    BY DEF IInv, TypeOK, IndexTypeOK, TakeDown, Goes, Leaves, index, callers, Pieces
  <2>5. op' \in [Callers -> {<<>>} \cup {<<kind>> : kind \in Kinds} \cup (Kinds \X Nodes)]
    BY DEF IInv, TypeOK, IndexTypeOK, TakeDown, Goes, Leaves, index, callers, Pieces
  <2>6. step' \in [Threads -> {"Idle", "Mutex", "Previous", "Platform", "Lock", "Load", "Setup",
                             "Begin", "StopLoop", "TakeDown"}]
    BY DEF IInv, TypeOK, IndexTypeOK, TakeDown, Goes, Leaves, index, callers, Pieces
  <2>7. mutex' \in Threads \cup {NoThread} /\ lock' \in Threads \cup {NoThread, "Loop", "Lost"}
    BY DEF IInv, TypeOK, IndexTypeOK, TakeDown, Goes, Leaves, index, callers, Pieces
  <2>8. native' \subseteq Pieces /\ own' \subseteq Pieces /\ stuck' \in BOOLEAN
    BY DEF IInv, TypeOK, IndexTypeOK, TakeDown, Goes, Leaves, index, callers, Pieces
  <2> QED
    BY <2>1, <2>2, <2>3, <2>4, <2>5, <2>6, <2>7, <2>8 DEF TypeOK, IndexTypeOK
<1>2. ASSUME NEW u \in Threads
      PROVE  ThreadInv(u)'
  BY ThreadAssumption DEF IInv, TypeOK, ThreadInv, PhaseInv, Creating, Working, TakeDown, Goes, Leaves, vars
<1>3. PhaseInv'
  BY ThreadAssumption DEF IInv, TypeOK, ThreadInv, PhaseInv, Creating, Working, TakeDown, Goes, Leaves,
     vars, callers
<1>4. InstalledInv'
  BY ThreadAssumption DEF IInv, TypeOK, ThreadInv, PhaseInv, InstalledInv, PiecesInv, Left, TakeDown,
     Goes, Leaves, vars
<1>5. ASSUME NEW u \in Threads
      PROVE  PiecesInv(u)'
  BY ThreadAssumption DEF IInv, TypeOK, ThreadInv, PhaseInv, InstalledInv, PiecesInv, Left, Working, Pieces,
     TakeDown, Goes, Leaves, vars
<1>6. IndexInv'
  BY CallerAssumption, NoNodes DEF IInv, TypeOK, ThreadInv, PhaseInv, IndexInv, TakeDown, Goes, Leaves,
     vars, index, callers
<1> QED
  BY <1>1, <1>2, <1>3, <1>4, <1>5, <1>6 DEF IInv

-----------------------------------------------------------------------------
(* The steps of the operations, of the loop and of the process.             *)

\* The steps of the operations leave the threads that create and close alone.
LEMMA OperationApart ==
    ASSUME IInv, UNCHANGED process, runtime' = runtime, IndexTypeOK', PhaseInv', IndexInv'
    PROVE  IInv'
<1>1. TypeOK'
  BY DEF IInv, TypeOK, process
<1>2. \A t \in Threads : ThreadInv(t)' /\ PiecesInv(t)'
  BY DEF IInv, ThreadInv, PiecesInv, Left, process
<1>3. InstalledInv'
  BY DEF IInv, InstalledInv, Left, process
<1> QED
  BY <1>1, <1>2, <1>3 DEF IInv

\* An operation is started: Start preserves the invariant.
LEMMA StartStep ==
    ASSUME IInv, NEW c \in Callers, NEW kind \in Kinds, Start(c, kind), UNCHANGED process
    PROVE  IInv'
<1>1. IndexTypeOK'
  BY DEF IInv, TypeOK, IndexTypeOK, IndexInv, Start, Goto, End, index, callers, Kinds, Steps
<1>2. runtime' = runtime /\ PhaseInv'
  BY DEF IInv, TypeOK, IndexTypeOK, PhaseInv, Start, Goto, End, process, callers
<1>3. IndexInv'
  BY CallerAssumption DEF IInv, TypeOK, IndexTypeOK, ThreadInv, PhaseInv, IndexInv, Start, Goto, End,
     index, callers, process
<1> QED
  BY <1>1, <1>2, <1>3, OperationApart

\* The node answers or not: Verify preserves the invariant.
LEMMA VerifyStep ==
    ASSUME IInv, NEW c \in Callers, Verify(c), UNCHANGED process
    PROVE  IInv'
<1>1. IndexTypeOK'
  BY DEF IInv, TypeOK, IndexTypeOK, IndexInv, Verify, Goto, End, index, callers, Kinds, Steps
<1>2. runtime' = runtime /\ PhaseInv'
  BY DEF IInv, TypeOK, IndexTypeOK, PhaseInv, Verify, Goto, End, process, callers
<1>3. IndexInv'
  BY CallerAssumption DEF IInv, TypeOK, IndexTypeOK, ThreadInv, PhaseInv, IndexInv, Verify, Goto, End,
     index, callers, process
<1> QED
  BY <1>1, <1>2, <1>3, OperationApart

\* However an operation changes it, the index is a sequence of nodes, each once.
LEMMA ChangedType ==
    ASSUME memory \in Seq(Nodes), IsInjective(memory), NEW kind, NEW n \in Nodes
    PROVE  Changed(kind, n) \in Seq(Nodes) /\ IsInjective(Changed(kind, n))
<1>1. CASE kind = "Remove"
  BY <1>1, ErasedType DEF Changed
<1>2. CASE kind # "Remove" /\ Contains(memory, n)
  BY <1>2 DEF Changed
<1>3. CASE kind # "Remove" /\ ~ Contains(memory, n)
  <2>1. Changed(kind, n) = Append(memory, n)
    BY <1>3 DEF Changed
  <2>2. Append(memory, n) \in Seq(Nodes) /\ DOMAIN Append(memory, n) = 1 .. Len(memory) + 1
    OBVIOUS
  <2>3. \A i \in 1 .. Len(memory) : memory[i] # n
    BY <1>3 DEF Contains
  <2>4. ASSUME NEW i \in 1 .. Len(memory) + 1, NEW j \in 1 .. Len(memory) + 1,
               Append(memory, n)[i] = Append(memory, n)[j]
        PROVE  i = j
    <3>1. \A k \in 1 .. Len(memory) : Append(memory, n)[k] = memory[k]
      OBVIOUS
    <3>2. Append(memory, n)[Len(memory) + 1] = n
      OBVIOUS
    <3>3. \A k, l \in 1 .. Len(memory) : memory[k] = memory[l] => k = l
      BY DEF IsInjective
    <3>4. Len(memory) \in Nat
      OBVIOUS
    <3> QED
      BY <2>3, <2>4, <3>1, <3>2, <3>3, <3>4
  <2>5. IsInjective(Append(memory, n))
    BY <2>2, <2>4 DEF IsInjective
  <2> QED
    BY <2>1, <2>2, <2>5
<1> QED
  BY <1>1, <1>2, <1>3

\* The lease is taken and the index changed: Enter preserves the invariant.
LEMMA EnterStep ==
    ASSUME IInv, NEW c \in Callers, Enter(c), UNCHANGED process
    PROVE  IInv'
<1>1. CASE lease' = lease
  <2>1. End(c) /\ UNCHANGED <<runtime, size, stored, failed, lease, memory>> /\ at[c] = "Enter"
    BY <1>1, CallerAssumption DEF Enter
  <2>2. IndexTypeOK'
    BY <2>1 DEF IInv, TypeOK, IndexTypeOK, End, Goto, Steps
  <2>3. PhaseInv'
    BY <2>1 DEF IInv, TypeOK, IndexTypeOK, PhaseInv, End, Goto, process
  <2>4. IndexInv'
    BY <2>1 DEF IInv, TypeOK, IndexTypeOK, IndexInv, End, Goto, process
  <2> QED
    BY <2>1, <2>2, <2>3, <2>4, OperationApart
<1>2. CASE lease' # lease
  <2>1. PICK n \in Nodes :
            /\ runtime = "Up" /\ lease = NoCaller /\ lease' = c /\ at[c] = "Enter"
            /\ op' = [op EXCEPT ![c] = Append(op[c], n)]
            /\ memory' = Changed(op[c][1], n)
            /\ at' = [at EXCEPT ![c] = IF op[c][1] # "Remove" /\ memory' = memory THEN "Return" ELSE "Write"]
            /\ UNCHANGED <<runtime, size, stored, failed>>
    BY <1>2 DEF Enter, Goto
  <2>2. memory' \in Seq(Nodes) /\ IsInjective(memory')
    BY <2>1, ChangedType DEF IInv, TypeOK, IndexTypeOK, IndexInv
  <2>3. Append(op[c], n) \in Kinds \X Nodes
    <3>1. PICK kind \in Kinds : op[c] = <<kind>>
      BY <2>1 DEF IInv, IndexInv
    <3>2. /\ <<kind>> \in Seq(Kinds \cup Nodes) /\ Len(<<kind>>) = 1 /\ <<kind>>[1] = kind
      OBVIOUS
    <3>3. /\ Append(<<kind>>, n) \in Seq(Kinds \cup Nodes) /\ Len(Append(<<kind>>, n)) = 2
          /\ Append(<<kind>>, n)[1] = kind /\ Append(<<kind>>, n)[2] = n
      BY <3>2
    <3>4. \A s \in Seq(Kinds \cup Nodes) :
              Len(s) = 2 /\ s[1] \in Kinds /\ s[2] \in Nodes => s \in Kinds \X Nodes
      OBVIOUS
    <3> QED
      BY ONLY <3>1, <3>3, <3>4
  <2>4. IndexTypeOK'
    <3>1. op' \in [Callers -> {<<>>} \cup {<<kind>> : kind \in Kinds} \cup (Kinds \X Nodes)]
      BY <2>1, <2>3 DEF IInv, TypeOK, IndexTypeOK
    <3>2. at' \in [Callers -> Steps]
      BY <2>1 DEF IInv, TypeOK, IndexTypeOK, Steps
    <3>3. runtime' = runtime /\ size' = size /\ stored' = stored /\ failed' = failed /\ lease' \in Callers
      BY <2>1
    <3>4. memory' \in Seq(Nodes)
      BY <2>2
    <3>5. IndexTypeOK
      BY DEF IInv, TypeOK
    <3> QED
      BY <3>1, <3>2, <3>3, <3>4, <3>5 DEF IndexTypeOK
  <2>5. PhaseInv'
    BY <2>1 DEF IInv, PhaseInv, process
  <2>6. \A d \in Callers : /\ d # c => at'[d] = at[d] /\ op'[d] = op[d] /\ at[d] \notin {"Write", "Return"}
                           /\ d = c => at'[d] \in {"Write", "Return"}
    BY <2>1, CallerAssumption DEF IInv, TypeOK, IndexTypeOK, IndexInv
  <2>7. at'[c] = "Write" \/ memory' = memory
    BY <2>1 DEF IInv, TypeOK, IndexTypeOK
  <2>8. \A t \in Threads : step'[t] # "Setup"
    BY <2>1 DEF IInv, ThreadInv, process
  <2>9. \A d \in Callers : at[d] # "Write"
    BY <2>1, CallerAssumption DEF IInv, IndexInv
  <2>10. IndexInv'
    BY <2>1, <2>2, <2>6, <2>7, <2>8, <2>9 DEF IInv, IndexInv
  <2> QED
    BY <2>1, <2>4, <2>5, <2>10, OperationApart
<1> QED
  BY <1>1, <1>2

\* The index is written or not: Write preserves the invariant.
LEMMA WriteStep ==
    ASSUME IInv, NEW c \in Callers, Write(c), UNCHANGED process
    PROVE  IInv'
<1>1. IndexTypeOK'
  BY DEF IInv, TypeOK, IndexTypeOK, IndexInv, Write, Goto, End, index, callers, Kinds, Steps
<1>2. runtime' = runtime /\ PhaseInv'
  BY DEF IInv, TypeOK, IndexTypeOK, PhaseInv, Write, Goto, End, process, callers
<1>3. IndexInv'
  BY CallerAssumption DEF IInv, TypeOK, IndexTypeOK, ThreadInv, PhaseInv, IndexInv, Write, Goto, End,
     index, callers, process
<1> QED
  BY <1>1, <1>2, <1>3, OperationApart

\* The operation ends: Return preserves the invariant.
LEMMA ReturnStep ==
    ASSUME IInv, NEW c \in Callers, Return(c), UNCHANGED process
    PROVE  IInv'
<1>1. IndexTypeOK'
  BY DEF IInv, TypeOK, IndexTypeOK, IndexInv, Return, Goto, End, index, callers, Kinds, Steps
<1>2. runtime' = runtime /\ PhaseInv'
  BY DEF IInv, TypeOK, IndexTypeOK, PhaseInv, Return, Goto, End, process, callers
<1>3. IndexInv'
  BY CallerAssumption DEF IInv, TypeOK, IndexTypeOK, ThreadInv, PhaseInv, IndexInv, Return, Goto, End,
     index, callers, process
<1> QED
  BY <1>1, <1>2, <1>3, OperationApart

\* The event loop takes and gives the stack lock.
LEMMA LoopStep ==
    ASSUME IInv, LoopTakes \/ LoopGives
    PROVE  IInv'
<1>1. TypeOK'
  BY DEF IInv, TypeOK, IndexTypeOK, LoopTakes, LoopGives, vars, index, callers
<1>2. \A t \in Threads : ThreadInv(t)' /\ PiecesInv(t)'
  BY ThreadAssumption DEF IInv, TypeOK, ThreadInv, PiecesInv, Left, LoopTakes, LoopGives, vars
<1>3. PhaseInv' /\ InstalledInv'
  BY ThreadAssumption DEF IInv, PhaseInv, InstalledInv, Left, LoopTakes, LoopGives, vars, callers
<1>4. IndexInv'
  BY DEF IInv, IndexInv, LoopTakes, LoopGives, vars, index, callers
<1> QED
  BY <1>1, <1>2, <1>3, <1>4 DEF IInv

\* The process stops.
LEMMA StopStep ==
    ASSUME IInv, Stop
    PROVE  IInv'
<1>1. TypeOK'
  <2>1. at' \in [Callers -> Steps] /\ op' \in [Callers -> {<<>>}]
    BY DEF Stop, Steps
  <2>2. step' \in [Threads -> {"Idle"}]
    BY DEF Stop
  <2>3. memory' \in Seq(Nodes) /\ stored' \in Seq(Nodes) /\ size' \in 1 .. kMaximumNodeCount
    BY CountAssumption, NoNodes DEF IInv, TypeOK, IndexTypeOK, Stop
  <2>4. op' \in [Callers -> {<<>>} \cup {<<kind>> : kind \in Kinds} \cup (Kinds \X Nodes)]
    BY <2>1
  <2> QED
    BY <2>1, <2>2, <2>3, <2>4 DEF TypeOK, IndexTypeOK, Stop
<1>2. \A t \in Threads : ThreadInv(t)' /\ PiecesInv(t)'
  BY ThreadAssumption DEF IInv, TypeOK, ThreadInv, PiecesInv, Left, Working, Creating, Stop
<1>3. PhaseInv' /\ InstalledInv'
  BY ThreadAssumption DEF IInv, PhaseInv, InstalledInv, Left, Stop
<1>4. IndexInv'
  BY CallerAssumption, NoNodes DEF IInv, IndexInv, Stop
<1> QED
  BY <1>1, <1>2, <1>3, <1>4 DEF IInv

-----------------------------------------------------------------------------
(* The theorems.                                                            *)

\* Every behaviour of CreateAsync, CloseAsync and the operations keeps the invariant.
THEOREM Inductive == Spec => []IInv
<1>1. Init => IInv
  <2> SUFFICES ASSUME Init PROVE IInv
    OBVIOUS
  <2>1. op \in [Callers -> {<<>>} \cup {<<kind>> : kind \in Kinds} \cup (Kinds \X Nodes)]
    BY DEF Init, IndexInit
  <2>2. TypeOK
    <3>1. size \in 1 .. kMaximumNodeCount
      BY CountAssumption DEF Init, IndexInit
    <3>2. at \in [Callers -> Steps] /\ memory \in Seq(Nodes) /\ stored \in Seq(Nodes)
      BY NoNodes DEF Init, IndexInit, Steps
    <3> QED
      BY <2>1, <3>1, <3>2 DEF Init, IndexInit, TypeOK, IndexTypeOK
  <2>3. \A t \in Threads : ThreadInv(t) /\ PiecesInv(t)
    BY ThreadAssumption DEF Init, IndexInit, ThreadInv, PiecesInv, Creating, Working
  <2>4. PhaseInv /\ InstalledInv
    BY DEF Init, IndexInit, PhaseInv, InstalledInv
  <2>5. Len(stored) <= kMaximumNodeCount
    BY CountAssumption DEF Init, IndexInit
  <2>6. IndexInv
    BY <2>5, CallerAssumption, NoNodes DEF Init, IndexInit, IndexInv
  <2> QED
    BY <2>2, <2>3, <2>4, <2>6 DEF IInv
<1>2. IInv /\ [Next]_allVars => IInv'
  <2> SUFFICES ASSUME IInv, [Next]_allVars PROVE IInv'
    OBVIOUS
  <2>1. CASE Operation /\ UNCHANGED process
    BY <2>1, StartStep, VerifyStep, EnterStep, WriteStep, ReturnStep DEF Operation
  <2>2. CASE \E t \in Threads : CreateAsync(t) \/ CloseAsync(t) \/ Thread(t)
    BY <2>2, CreateAsyncStep, EnterCreateStep, CheckPreviousStep, StartPlatformStep, LockStackStep,
       LoadStep,
       SetupStep, CloseAsyncStep, BeginStep, StopLoopStep, TakeDownStep DEF Thread
  <2>3. CASE LoopTakes \/ LoopGives
    BY <2>3, LoopStep
  <2>4. CASE Stop
    BY <2>4, StopStep
  <2>5. CASE UNCHANGED allVars
    <3>1. UNCHANGED process /\ runtime' = runtime /\ UNCHANGED vars
      BY <2>5 DEF allVars, vars
    <3>2. IndexTypeOK' /\ PhaseInv' /\ IndexInv'
      BY <3>1 DEF IInv, TypeOK, IndexTypeOK, PhaseInv, IndexInv, vars, index, callers, process
    <3> QED
      BY <3>1, <3>2, OperationApart
  <2> QED
    BY <2>1, <2>2, <2>3, <2>4, <2>5 DEF Next
<1> QED
  BY <1>1, <1>2, PTL DEF Spec

\* The variables keep their types: what LoadCommissionedNodes reads and erase leaves is a
\* sequence of nodes, and the buffer of the load stays within its limit.
THEOREM TypeCorrect == Spec => []TypeOK
<1>1. IInv => TypeOK
  BY DEF IInv
<1> QED
  BY <1>1, Inductive, PTL

\* Whatever fails, is closed or stops, a node is in the index once, every index that was
\* written can be loaded, and between operations a running controller shows what a restart
\* would load, unless its last write failed.
THEOREM IndexIsKept == Spec => []IndexSurvives
<1>1. IInv => IndexSurvives
  <2> SUFFICES ASSUME IInv PROVE IndexSurvives
    OBVIOUS
  <2>1. lease = NoCaller => \A c \in Callers : at[c] # "Write"
    BY CallerAssumption DEF IInv, IndexInv
  <2> QED
    BY <2>1 DEF IInv, PhaseInv, IndexInv, IndexSurvives
<1> QED
  BY <1>1, Inductive, PTL

\* However an initialization failed, a closed runtime leaves nothing in the process but the
\* access control of a host whose endpoint could not be unregistered.
THEOREM CloseIsClean == Spec => []ClosedIsClean
<1>1. IInv => ClosedIsClean
  BY DEF IInv, InstalledInv, ClosedIsClean, Left
<1> QED
  BY <1>1, Inductive, PTL

\* The pieces are taken down when neither the event loop nor an operation can use them.
THEOREM TakeDownIsPeaceful == Spec => []TakenDownInPeace
<1>1. IInv => TakenDownInPeace
  BY DEF IInv, ThreadInv, PhaseInv, PiecesInv, TakenDownInPeace
<1> QED
  BY <1>1, Inductive, PTL
=============================================================================
