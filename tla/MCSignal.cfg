SPECIFICATION FairSpec
CONSTANTS
    SIGQUEUE_MAX = 2
    Signals = {1, 2}
    FaultSignals = {2}
    Terminating = {2}
    SigSets = {{1}, {2}}
    NewActions = {"handler"}
    OrderMax = 3
INVARIANTS TypeOK ExactlyOnce SameSignalInOrder NoLostWakeup
PROPERTIES QueueSpec EventuallyTaken
