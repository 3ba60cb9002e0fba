SPECIFICATION Spec
CONSTANTS
    TIMER_MAX = 2
    Clocks = {"CLOCK_REALTIME"}
    Times = {0, 1}
    Notify = {"SIGEV_THREAD"}
    MaxTime = 2
    MaxDepth = 3
    MaxReentries = 2
INVARIANTS TypeOK NoneLeftDue OneShotOnce
