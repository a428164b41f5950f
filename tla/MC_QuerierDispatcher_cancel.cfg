CONSTANTS
    a = a  b = b  c = c  r1 = r1  r2 = r2  None = None
    Domain <- MCDomain
    Order <- MCOrder
    Request <- MCTwoRequests
    MaxClock = 3
    Faults = TRUE
    ClientDisconnects = TRUE
SPECIFICATION Spec
PROPERTY ImplementsDispatcherAbstract
