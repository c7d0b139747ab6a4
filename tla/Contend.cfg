CONSTANTS Tasks = {t1, t2}
          Waiters = {t1, t2}
          Permits = 1
          Needs = {1}
          MAX_BYPASS = 1
          SPINS = TRUE
          Spurious = TRUE
          Yields = TRUE
          Closes = TRUE
          MaxChanges = 1
          Gone = Gone
          GoneOwed = GoneOwed
          None = None
SPECIFICATION FairSpec
INVARIANTS Conserved NoLostWake OwedIsServed
PROPERTY Served
