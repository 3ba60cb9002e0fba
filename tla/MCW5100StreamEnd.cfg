SPECIFICATION Spec
CONSTANTS
    SIZE = 2
    RADIX = 2
    WIDTH = 4
    Starts = {3}
    Lens = {1, 3}
    Timeouts = {0}
    MaxBytes = 1
    MaxTime = 0
INVARIANT ReturnsBytesMoved
