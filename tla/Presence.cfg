SPECIFICATION Spec
CONSTANTS
    a = a
    b = b
    l1 = l1
    l2 = l2
    l3 = l3
    u1 = u1
    NoServer = NoServer
    Server <- MCServer
    Link <- MCLink
    User <- MCUser
    ClientType <- MCType
    MaxOpen = 2
    MaxLosses = 2
SYMMETRY MCSymmetry
INVARIANTS TypeOK NoDanglingRouteConn NeverUndercounts ExactWithoutLoss StatusShownIsTrue
CHECK_DEADLOCK FALSE
