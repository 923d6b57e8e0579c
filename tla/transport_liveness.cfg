SPECIFICATION LiveSpec
CONSTANTS
    Node = {1, 2}
    Id = {a, b}
    Crypto = TRUE
    MaxKey = 2
    Deployments <- Repaired
    MaxInbox = 2
    NoConn = NoConn
    Idle = Idle
PROPERTY Converges
PROPERTY HandshakeEnds
