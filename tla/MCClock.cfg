SPECIFICATION Spec
CONSTANTS
    N = 2
    TICKS = 2
    SetTimes <- MCSetTimes
    Sleeps <- MCSleeps
    MaxElapsed = 7
PROPERTIES ReadsTime SettimeTakes NoShortSleep
