----------------------------- MODULE LeaseTable -----------------------------
(***************************************************************************)
(* What admission promises, without its locks: a table of leases that are   *)
(* granted in one step, only beside compatible ones, and never after the    *)
(* controller is torn down.  RuntimeAdmission implements it.                *)
(***************************************************************************)
CONSTANTS
    Holders,   \* who may hold a lease
    Nodes,     \* device node ids
    NoNode,    \* the node of a lease that names none
    NoLease    \* the entry of a holder without a lease

Lease == [mode : {"shared", "exclusive"}, node : Nodes \cup {NoNode}, host : {"camera", "none"}]

VARIABLES
    leases,    \* the lease of each holder
    torn       \* whether the controller is torn down

vars == <<leases, torn>>

\* Two leases may be held at once: neither is exclusive, they name different nodes, and
\* one of them at most drives the camera host.
Compatible(a, b) ==
    /\ a.mode = "shared" /\ b.mode = "shared"
    /\ a.node = b.node => a.node = NoNode
    /\ a.host = "none" \/ b.host = "none"

Init ==
    /\ leases = [h \in Holders |-> NoLease]
    /\ torn = FALSE

Grant(h, lease) ==
    /\ ~torn
    /\ leases[h] = NoLease
    /\ \A o \in Holders \ {h} : leases[o] # NoLease => Compatible(lease, leases[o])
    /\ leases' = [leases EXCEPT ![h] = lease]
    /\ UNCHANGED torn

Return(h) ==
    /\ leases[h] # NoLease
    /\ leases' = [leases EXCEPT ![h] = NoLease]
    /\ UNCHANGED torn

TearDown ==
    /\ \A h \in Holders : leases[h] = NoLease
    /\ torn' = TRUE
    /\ UNCHANGED leases

Next ==
    \/ \E h \in Holders : Return(h) \/ \E lease \in Lease : Grant(h, lease)
    \/ TearDown

Spec == Init /\ [][Next]_vars
=============================================================================
