SPECIFICATION MCSpec
CONSTANTS
    Parts = {"stop"}
    Posters = {a, b}
    Quiet = FALSE
    MaxQueued = 2
    MaxLocal = 1
    Items = {a, b}
    Stub = Stub
    Null = Null
    Empty = Empty
    Busy = Busy
    Writers = {a}
    Shard = Shard
    Tasks = {a, b}
    WakingThreads = {c, d}
    None = None
    Displacing = TRUE
    Wakers = {a, b}
    NoWaker = NoWaker
    a = a
    b = b
    c = c
    d = d
INVARIANT SettledIsDropped
