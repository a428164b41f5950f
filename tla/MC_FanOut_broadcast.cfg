CONSTANTS
    p1 = p1
    p2 = p2
    p3 = p3
    c1 = c1
    c2 = c2
    Peers <- MCPeers
    Order <- MCOrder
    Calls <- MCCalls
    Ops <- MCOps
    ValidOps <- MCValidOps
    Faults = TRUE
SPECIFICATION Spec
INVARIANT TypeOK
INVARIANT BestEffortToEveryLivePeer
INVARIANT OkReachedEveryLivePeer
INVARIANT PropagatedOkMeansAccepted
