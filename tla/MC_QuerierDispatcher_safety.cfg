CONSTANTS
    a = a  b = b  c = c  r1 = r1  r2 = r2  None = None
    Domain <- MCDomain
    Order <- MCOrder
    Request <- MCTwoRequests
    MaxClock = 3
    Faults = TRUE
    ClientDisconnects = FALSE
SPECIFICATION Spec
INVARIANT TypeOK
INVARIANT UnavailableImpliesDispatched
INVARIANT LRUScanIsLeastRecentlyUsed
PROPERTY LastUsedNeverDecreases
