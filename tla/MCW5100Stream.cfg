SPECIFICATION FairSpec
CONSTANTS
    SIZE = 2
    RADIX = 2
    WIDTH = 4
    Starts = {3}
    Lens = {1, 3}
    Timeouts = {0, 1}
    MaxBytes = 3
    MaxTime = 2
INVARIANTS TypeOK OverlooksOnlyInRace ReadyStays
PROPERTIES RxStream TxStream FinDropsNoOldData NoEarlyTimeout WaitsEnd
