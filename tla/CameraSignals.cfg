CONSTANTS
    o1 = o1 o2 = o2 u1 = u1 u2 = u2 w1 = w1 w2 = w2
    Ops = {o1, o2}
    Streams = {1, 2}
    NoStream = 0
    Nobody = Nobody
    Users = {u1, u2}
    NoUser = NoUser
    MaxEndpoints = 2
    Waits = {w1, w2}
    MaxSignals = 2
    MaxCalls = 2
CONSTRAINT CallsBounded
SYMMETRY Alike
SPECIFICATION Spec
INVARIANTS CommandKeepsItsSession NoOrphanSession ReceivedInOrder QueuedUntilConsumed
PROPERTIES ImplementsCustody
CHECK_DEADLOCK FALSE
