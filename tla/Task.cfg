SPECIFICATION Spec
CONSTANTS
    Runners = {r1, r2}
    Wakers = {w1, w2}
    Awaiters = {a1, a2}
    Handle = h
    None = none
SYMMETRY Symmetry
CHECK_DEADLOCK FALSE
INVARIANTS
    OneOwner
    FutureLives
    FreedLast
    CellExclusive
    AwaiterTold
    WakeNotLost
    NoneMeansGone
    OutputThere
