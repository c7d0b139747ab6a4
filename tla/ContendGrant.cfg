CONSTANTS Tasks = {t1, t2, b}
          Waiters = {t1, t2}
          Permits = 2
          Needs = {1, 2}
          MAX_BYPASS = 1
          SPINS = FALSE
          Spurious = FALSE
          Yields = FALSE
          Closes = FALSE
          MaxChanges = 0
          Gone = Gone
          GoneOwed = GoneOwed
          None = None
SPECIFICATION Spec
INVARIANT NoLostWake
