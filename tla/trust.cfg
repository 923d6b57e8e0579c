SPECIFICATION CalmSpec
CONSTANTS
    Node = {1, 2, 3}
    Worker = {w1, w2}
    MaxRoot = 2
    Frail = {2}
INVARIANT IndInv
INVARIANT SameRunTrusts
PROPERTY TrustLasts
PROPERTY Secured
CHECK_DEADLOCK FALSE
