CONSTANTS
    n1 = n1 n2 = n2 n3 = n3 c1 = c1 c2 = c2 t1 = t1 t2 = t2
    Nodes = {n1, n2, n3}
    Callers = {c1}
    Threads = {t1, t2}
    NoCaller = NoCaller NoThread = NoThread
    kMaximumNodeCount = 2
SPECIFICATION LiveSpec
INVARIANTS IndexSurvives ClosedIsClean TakenDownInPeace
PROPERTIES LifecycleEnds
