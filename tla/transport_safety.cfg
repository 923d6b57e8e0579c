SPECIFICATION Spec
CONSTANTS
    Node = {1, 2}
    Id = {a, b, c}
    Crypto = TRUE
    MaxKey = 2
    Deployments <- Interrupted
    MaxInbox = 2
    NoConn = NoConn
    Idle = Idle
SYMMETRY IdSymmetry
INVARIANT NoStandoff
INVARIANT EveryEndTracked
INVARIANT NotifiedIsAuthenticated
INVARIANT NothingPassesUnverified
INVARIANT SealedIsReadable
INVARIANT MutualLinkVerifies
PROPERTY WithdrawnWithItsConnection
PROPERTY ImplementsDirectory
