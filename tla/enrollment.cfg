SPECIFICATION CalmSpec
CONSTANTS
    Node = {n1, n2}
    MaxKey = 3
    Fragile = {n2}
INVARIANT KeysMatch
INVARIANT PeersAreWhole
PROPERTY EnrolledIsListed
PROPERTY ImplementsMembership
PROPERTY Starts
