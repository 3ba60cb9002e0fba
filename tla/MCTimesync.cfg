SPECIFICATION Spec
CONSTANTS
    UNITS = 15
    TO_NTP = 4
    FROM_NTP = 3
    NONE = NONE
    Epoch = 40
    INTERVAL = 8
    W5100_N_SOCKETS = 4
    UserTimes = {43}
    MaxTime = 1
    MaxSteps = 4
INVARIANTS RecursionStops
PROPERTIES SyncedToServer
