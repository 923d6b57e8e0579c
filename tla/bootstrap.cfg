SPECIFICATION LiveSpec
CONSTANTS
    MaxElection = 3
    MaxRun = 2
    Rounds = 3
INVARIANT OneInstance
INVARIANT AllRoundsSaved
PROPERTY BootstrapEnds
CHECK_DEADLOCK FALSE
