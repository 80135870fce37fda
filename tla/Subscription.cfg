CONSTANTS
    h1 = h1 h2 = h2
    Handlers = {h1, h2}
    kMaximumPendingReports = 2
    SizeMax = 15
    MaxReports = 4
    MaxStale = 1
SPECIFICATION LiveSpec
INVARIANTS ReceivedInOrder DrainsApart ReceivedAtMostOnce
PROPERTIES QueueDrains
CHECK_DEADLOCK FALSE
