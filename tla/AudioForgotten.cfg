CONSTANTS
    o1 = o1 o2 = o2 s1 = s1 s2 = s2 e1 = e1 e2 = e2 c1 = c1 c2 = c2
    Ops = {o1, o2}
    Streams = {s1, s2}
    Endpoints = {e1, e2}
    MaxEntries = 1
    Calls = {c1, c2}
    NoStream = NoStream
    Nobody = Nobody
SYMMETRY Alike
SPECIFICATION Spec
INVARIANTS RemoteIsAccounted
CHECK_DEADLOCK FALSE
