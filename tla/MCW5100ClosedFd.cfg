SPECIFICATION Spec
CONSTANTS
    OPEN_MAX = 6
    W5100_N_SOCKETS = 2
    Types = {"SOCK_STREAM", "SOCK_DGRAM"}
INVARIANT ClosedFdRejected
