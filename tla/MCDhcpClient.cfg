SPECIFICATION FairSpec
CONSTANTS
    Servers = {s1, s2}
    ANY = ANY
    DHCP_DISCOVER_RETRIES = 3
    MaxFaults = 3
INVARIANTS TypeOK BoundIsGranted ConfigOfOneServer RequestNamesOffer
PROPERTIES BoundAgain
