--------------------------- MODULE MCCameraSignals ---------------------------
(* A small instance of CameraSignals for TLC.                               *)
EXTENDS CameraSignals, TLC

CONSTANTS o1, o2, u1, u2, w1, w2,
          MaxCalls    \* bound: waits and CloseAsync calls of the application in progress at once

\* Startups, users and waits are interchangeable.
Alike == Permutations({o1, o2}) \cup Permutations({u1, u2}) \cup Permutations({w1, w2})

CallsInProgress ==
    {w \in Waits : wait[w] # NoWait} \cup {u \in Users : \E o \in Ops : command[o][u] # "Idle"}

CallsBounded == Cardinality(CallsInProgress) <= MaxCalls
=============================================================================
