CONSTANTS
    o1 = o1 o2 = o2 k1 = k1 k2 = k2
    Ops = {o1, o2}
    Tasks = {k1, k2}
    NoOp = NoOp
    MaxStages = 1
SYMMETRY Alike
SPECIFICATION Spec
INVARIANTS NothingAfterEnd
CHECK_DEADLOCK FALSE
