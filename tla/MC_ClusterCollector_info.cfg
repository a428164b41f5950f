CONSTANTS
    n1 = n1
    n2 = n2
    Nodes <- MCNodes
    Faults = TRUE
SPECIFICATION Spec
INVARIANT EveryNodeListed
