SPECIFICATION LiveSpec
CONSTANTS
    MaxSeq = 2
    MaxElection = 2
    MaxRun = 2
INVARIANT SamplesComplete
INVARIANT SamplesAreTrue
INVARIANT SamplesSurvive
INVARIANT ElectionsSurvive
PROPERTY StopsWhenDue
CHECK_DEADLOCK FALSE
