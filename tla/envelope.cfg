SPECIFICATION CalmSpec
CONSTANTS
    Message <- MCMessage
    Identity <- MCIdentity
    MaxKey = 2
PROPERTY SignedArrives
PROPERTY Arrives
CHECK_DEADLOCK FALSE
