SPECIFICATION StorageSpec
CONSTANTS
    OPEN_MAX = 6
    Entries = 2
    SECTORS = 3
    SECTOR_SIZE = 2
    CMD0_TRIES = 2
    CMD41_TRIES = 2
    MaxCount = 2
    MaxSwaps = 1
    MaxWrites = 2
INVARIANTS TypeOK OneOwner PoolSuffices StrayNeedsSockets StatusTrue
PROPERTIES TransfersRight
