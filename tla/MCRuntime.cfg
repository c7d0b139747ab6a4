SPECIFICATION Spec
CONSTANTS
    Parts = {"tasks", "joinset", "runner", "foreign", "workers", "linger",
             "pool", "handoff", "sleep", "wheel", "clock", "paused", "exit",
             "signal", "frames"}
    Kinds = {"poll", "waitid", "ringpoll", "pid"}
    MaxMoves = 1
    Teams = {1, 2, 3}
    TimerShards = {x1, x2}
    MaxTakes = 1
    Stays = {x1}
    PoolThreads = 2
    TakesServing = FALSE
    None = None
    Stub = Stub
    Outside = Outside
    Service = Service
    Waiter = Waiter
    x1 = x1
    x2 = x2
    x3 = x3
    x4 = x4
    x5 = x5
CHECK_DEADLOCK FALSE
INVARIANTS OneRunner Restored NoneForgotten
PROPERTIES InTime
