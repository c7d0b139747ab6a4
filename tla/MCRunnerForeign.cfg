SPECIFICATION Spec
CONSTANTS
    Parts = {"runner"}
    Kinds = {"waitid"}
    MaxMoves = 0
    Teams = {1, 2}
    TimerShards = {x1}
    MaxTakes = 1
    Stays = {x1}
    PoolThreads = 1
    TakesServing = TRUE
    None = None
    Stub = Stub
    Outside = Outside
    Service = Service
    Waiter = Waiter
    x1 = x1
    x2 = x2
    x3 = x3
    x4 = x4
    x5 = x5
CHECK_DEADLOCK FALSE
INVARIANT OneRunner
