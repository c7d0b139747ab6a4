SPECIFICATION Spec
CONSTANTS
    Parts = {"ops", "poller", "table", "recv", "pool", "bytes", "blocks",
             "file", "sync", "ranges", "stream", "pipe", "stdio"}
    Nil = Nil
    Closed = Closed
    x1 = x1
    x2 = x2
    x3 = x3
    x4 = x4
    x5 = x5
    x6 = x6
CHECK_DEADLOCK FALSE
INVARIANTS DataKept NobodySleepsPast
PROPERTIES MemoryKept
