SPECIFICATION MCSpec
CONSTANTS
    Parts = {"cell", "event", "barrier", "set_once", "notify", "token",
             "rwlock", "guards", "permits", "mutex", "rw", "mpsc", "radix",
             "watch", "broadcast", "mesh", "local", "oneshot"}
    None = None
    Tasks = {x1, x2, x3}
    MaxCalls = 4
    RxTask = RxTask
    x1 = x1
    x2 = x2
    x3 = x3
    x4 = x4
CHECK_DEADLOCK FALSE
INVARIANTS ValueKept Excludes NobodyStranded NobodySleepsPast InOrder
PROPERTIES IsChannel
