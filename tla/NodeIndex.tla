------------------------------ MODULE NodeIndex ------------------------------
(***************************************************************************)
(* The commissioned-node index of ControllerRuntime (winrt/Projection.cpp): *)
(* mCommissionedNodes, its copy in persistent storage, and the operations   *)
(* that change both under the exclusive lease: Commission, RecoverNode and  *)
(* RemoveNode.  ControllerLifecycle creates and closes the runtimes they    *)
(* run on, and lets the process stop between any two steps.                 *)
(*                                                                          *)
(* The devices and the key-value store are external: pairing a device or    *)
(* reading from it succeeds or fails, nobody waits for what UnpairDevice    *)
(* starts, and a write of the index succeeds whole or fails.                *)
(***************************************************************************)
EXTENDS Integers, FiniteSets, Sequences, SequencesExt

CONSTANTS
    Nodes,
    Callers,             \* threads that run operations
    NoCaller,
    kMaximumNodeCount    \* UINT16_MAX / sizeof(uint64_t)

ASSUME CallerAssumption == NoCaller \notin Callers
ASSUME CountAssumption == kMaximumNodeCount \in Nat \ {0}

VARIABLES
    runtime,    \* the newest ControllerRuntime of the process
    size,       \* nodes.size() of the loading loop
    memory,     \* mCommissionedNodes
    stored,     \* the value under kCommissionedNodesKey; empty when there is none
    failed,     \* history: the last write of the index failed
    lease,      \* holder of the exclusive lease
    at,         \* where each caller stands
    op          \* its kind and, once the index has been searched for it, its node

index == <<memory, stored, failed>>
callers == <<lease, at, op>>
vars == <<runtime, size, index, callers>>

Kinds == {"Commission", "Recover", "Remove"}
Steps == {"Idle", "Verify", "Enter", "Write", "Return"}

IndexTypeOK ==
    /\ runtime \in {"Down", "Starting", "Loading", "Refused", "Up", "Shutting", "Closing", "Closed"}
    /\ size \in 1 .. kMaximumNodeCount
    /\ memory \in Seq(Nodes) /\ stored \in Seq(Nodes)
    /\ failed \in BOOLEAN
    /\ lease \in Callers \cup {NoCaller}
    /\ at \in [Callers -> Steps]
    /\ op \in [Callers -> {<<>>} \cup {<<kind>> : kind \in Kinds} \cup (Kinds \X Nodes)]

IndexInit ==
    /\ runtime = "Down" /\ size = 1
    /\ memory = <<>> /\ stored = <<>> /\ failed = FALSE
    /\ lease = NoCaller
    /\ at = [c \in Callers |-> "Idle"]
    /\ op = [c \in Callers |-> <<>>]

-----------------------------------------------------------------------------
(* The index of a new runtime.                                              *)

\* LoadCommissionedNodes, a read of the store at a time: it finds no value or one that fits;
\* or a larger one, and the buffer is doubled up to the limit.  At the limit, and when the
\* store fails, the load throws.
ReadIndex ==
    \/ /\ Len(stored) <= size
       /\ memory' = stored /\ failed' = FALSE /\ runtime' = "Starting"
       /\ size' = 1
    \/ /\ Len(stored) > size /\ size < kMaximumNodeCount
       /\ size' = IF 2 * size < kMaximumNodeCount THEN 2 * size ELSE kMaximumNodeCount
       /\ UNCHANGED <<runtime, memory, failed>>
    \/ /\ Len(stored) > size /\ size = kMaximumNodeCount
       /\ runtime' = "Refused" /\ size' = 1
       /\ UNCHANGED <<memory, failed>>

-----------------------------------------------------------------------------
(* The operations.                                                          *)

Goto(c, s) == at' = [at EXCEPT ![c] = s]

End(c) ==
    /\ Goto(c, "Idle")
    /\ op' = [op EXCEPT ![c] = <<>>]

\* RecoverNode begins with a read from the node, under a lease of its own.
Start(c, kind) ==
    /\ runtime = "Up" /\ at[c] = "Idle"
    /\ op' = [op EXCEPT ![c] = <<kind>>]
    /\ Goto(c, IF kind = "Recover" THEN "Verify" ELSE "Enter")
    /\ UNCHANGED <<runtime, size, index, lease>>

\* ReadAttribute of the vendor id: the node answers, or the operation fails.
Verify(c) ==
    /\ at[c] = "Verify"
    /\ \/ Goto(c, "Enter") /\ UNCHANGED op
       \/ End(c)
    /\ UNCHANGED <<runtime, size, index, lease>>

\* What std::remove keeps of s, and erase leaves: the members other than n in their order.
Kept(s, n) == {i \in DOMAIN s : s[i] # n}
Erased(s, n) ==
    [k \in 1 .. Cardinality(Kept(s, n)) |->
        s[CHOOSE i \in Kept(s, n) : Cardinality({j \in Kept(s, n) : j < i}) = k - 1]]

\* The index after the operation has searched it: std::find and push_back, or std::remove
\* and erase.
Changed(kind, n) ==
    IF kind = "Remove" THEN Erased(memory, n)
    ELSE IF Contains(memory, n) THEN memory
    ELSE Append(memory, n)

\* AcquireExclusive, then the native call (Commission pairs the device, RemoveNode starts
\* UnpairDevice), then the change of the index, which is written unless nothing was pushed.
\* What comes before the index may time out, be refused or fail.
Enter(c) ==
    /\ at[c] = "Enter"
    /\ \/ /\ runtime = "Up" /\ lease = NoCaller
          /\ lease' = c
          /\ \E n \in Nodes :
              /\ op' = [op EXCEPT ![c] = Append(op[c], n)]
              /\ memory' = Changed(op[c][1], n)
              /\ Goto(c, IF op[c][1] # "Remove" /\ memory' = memory THEN "Return" ELSE "Write")
       \/ End(c) /\ UNCHANGED <<lease, memory>>
    /\ UNCHANGED <<runtime, size, stored, failed>>

\* Mutant: the limit is one too high.
Write_OneMore(c) ==
    /\ at[c] = "Write"
    /\ \/ /\ Len(memory) <= kMaximumNodeCount + 1
          /\ stored' = memory /\ failed' = FALSE
          /\ Goto(c, "Return")
          /\ UNCHANGED <<lease, op>>
       \/ failed' = TRUE /\ lease' = NoCaller /\ End(c) /\ UNCHANGED stored
    /\ UNCHANGED <<runtime, size, memory>>

\* PersistCommissionedNodes writes or deletes the value; it throws when the index is too
\* long for a value, or when the store fails, and the operation then fails.
Write(c) ==
    /\ at[c] = "Write"
    /\ \/ /\ Len(memory) <= kMaximumNodeCount
          /\ stored' = memory /\ failed' = FALSE
          /\ Goto(c, "Return")
          /\ UNCHANGED <<lease, op>>
       \/ /\ failed' = TRUE
          /\ lease' = NoCaller
          /\ End(c)
          /\ UNCHANGED stored
    /\ UNCHANGED <<runtime, size, memory>>

\* The CommissionedNode is made and the lease given up.
Return(c) ==
    /\ at[c] = "Return"
    /\ lease' = NoCaller
    /\ End(c)
    /\ UNCHANGED <<runtime, size, index>>

\* The steps of the callers.
Operation ==
    \E c \in Callers :
        \/ \E kind \in Kinds : Start(c, kind)
        \/ Verify(c) \/ Enter(c) \/ Write(c) \/ Return(c)

-----------------------------------------------------------------------------
(* Properties.                                                              *)

\* The index survives: whatever fails, is closed or stops, a node is in it once; what an
\* operation has stored can be loaded (the limit of PersistCommissionedNodes is the one at
\* which LoadCommissionedNodes stops doubling its buffer and throws); and unless its last
\* write failed, what a running controller shows between operations is what a restart
\* would load.
IndexSurvives ==
    /\ IsInjective(memory) /\ IsInjective(stored)
    /\ runtime # "Refused"
    /\ (runtime = "Up" /\ lease = NoCaller /\ ~failed) => memory = stored

\* A node RecoverNode returns has been restored to the persisted index.
RecoveredIsStored ==
    \A c \in Callers : (at[c] = "Return" /\ op[c][1] = "Recover") => Contains(stored, op[c][2])
=============================================================================
