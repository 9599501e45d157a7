SPECIFICATION Spec
CONSTANTS
    c1 = c1
    c2 = c2
    c3 = c3
    n1 = n1
    n2 = n2
    u1 = u1
    NoConn = NoConn
    NoName = NoName
    NoUser = NoUser
    Conn <- MCConn
    Handle <- MCHandle2
    Name <- MCName
    User <- MCUser
    UserOf <- MCUserOf
    ClientType <- MCPc
INVARIANTS TypeOK NoDanglingConn RegistriesAgree OpenIffDeliverable AnnouncementsBalance
PROPERTIES NewLoginDisplacesOld
SYMMETRY MCSymmetry
CHECK_DEADLOCK FALSE
