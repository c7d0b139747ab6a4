SPECIFICATION Spec
CONSTANTS
    Parts = {"side", "after", "requests", "read", "write", "port", "portop"}
    None = None
    x1 = x1
    x2 = x2
    x3 = x3
    x4 = x4
CHECK_DEADLOCK FALSE
INVARIANTS OneHolder InOrder NobodySleepsPast
