SPECIFICATION Spec
CONSTANTS
    Node = {1, 2}
    Id = {a, b}
    Crypto = TRUE
    MaxKey = 1
    Deployments <- Completed
    MaxInbox = 2
    NoConn = NoConn
    Idle = Idle
INVARIANT RaftTrafficIsSealed
