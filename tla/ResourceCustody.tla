--------------------------- MODULE ResourceCustody ---------------------------
(***************************************************************************)
(* What the owners of camera resources promise, without their threads,      *)
(* mutexes, retries and tables: an operation asks once for a resource; what *)
(* it is given is its own until it is given back, in its own name, before   *)
(* the operation reports a failure; and the caller it was delivered to is   *)
(* the only one who gives it back then.  StreamAllocation (streams of a     *)
(* camera) and CameraSession (handles of the host) implement it.            *)
(***************************************************************************)
CONSTANTS
    Ops,        \* asynchronous operations
    Resources,  \* identifiers
    Nobody      \* holder of an identifier that is free

VARIABLES
    holder,     \* whose each identifier is
    asked,      \* operations that ask no more: served, refused or given up
    outcome     \* what the caller of each operation knows

vars == <<holder, asked, outcome>>

Init ==
    /\ holder = [r \in Resources |-> Nobody]
    /\ asked = {}
    /\ outcome = [o \in Ops |-> "Started"]

Holds(o) == \E r \in Resources : holder[r] = o

\* An identifier of o, and no other's, becomes free.
Freed(o) == \E r \in Resources : holder[r] = o /\ holder' = [holder EXCEPT ![r] = Nobody]

Becomes(o, result) == outcome' = [outcome EXCEPT ![o] = result]

\* One identifier nobody has, or none; without the answer the operation may fail at once.
Ask(o) ==
    /\ o \notin asked
    /\ asked' = asked \cup {o}
    /\ \/ UNCHANGED holder
       \/ \E r \in Resources : holder[r] = Nobody /\ holder' = [holder EXCEPT ![r] = o]
    /\ \/ UNCHANGED outcome
       \/ outcome[o] = "Started" /\ Becomes(o, "Error")

Cancel(o) ==
    /\ outcome[o] = "Started" /\ Becomes(o, "Canceled")
    /\ UNCHANGED <<holder, asked>>

\* After a failure nothing is given back in the operation's name.
Fail(o) ==
    /\ o \in asked
    /\ outcome[o] = "Started" /\ Becomes(o, "Error")
    /\ UNCHANGED holder \/ Freed(o)
    /\ UNCHANGED asked

\* Given back by an operation that has not ended, by one that was canceled, or by the caller.
Free(o) ==
    /\ outcome[o] \in {"Started", "Canceled", "GivenUp"}
    /\ Freed(o)
    /\ UNCHANGED <<asked, outcome>>

\* What is delivered is held, and was not canceled.
Deliver(o) ==
    /\ outcome[o] = "Started" /\ Holds(o) /\ Becomes(o, "Completed")
    /\ UNCHANGED <<holder, asked>>

\* The caller asks for the release of what it has.
GiveUp(o) ==
    /\ outcome[o] = "Completed" /\ Becomes(o, "GivenUp")
    /\ UNCHANGED holder \/ Freed(o)
    /\ UNCHANGED asked

Next == \E o \in Ops : Ask(o) \/ Cancel(o) \/ Fail(o) \/ Free(o) \/ Deliver(o) \/ GiveUp(o)

Spec == Init /\ [][Next]_vars
=============================================================================
