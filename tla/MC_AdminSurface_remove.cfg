CONSTANTS
    n1 = n1
    n2 = n2
    r1 = r1
    r2 = r2
    Nodes <- MCNodes
    RoleOf <- MCRoleOf
    RoleOrder <- MCRoleOrder
    Calls <- MCCalls
    StoreFaults = TRUE
    ProbeFaults = TRUE
SPECIFICATION Spec
INVARIANT NodeGoneAfterRemoval
PROPERTY ImplementsRemoveAbstract
CHECK_DEADLOCK FALSE
