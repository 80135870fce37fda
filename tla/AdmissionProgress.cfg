CONSTANTS
    t1 = t1 t2 = t2 n1 = n1 n2 = n2 g1 = g1 g2 = g2
    Threads = {t1, t2}
    Nodes = {n1, n2}
    Gates = {g1, g2}
    NoThread = NoThread NoNode = NoNode NoGate = NoGate NoLease = NoLease
    Kinds <- GatedOperations
SPECIFICATION LiveSpec
PROPERTIES ShutdownCompletes CrossNodeProgress
