SPECIFICATION FairSpec
CONSTANTS
    MaxSend = 5
INVARIANT NeverStalls
INVARIANT NothingStranded
INVARIANT OnlyQueuedAreLost
PROPERTY HandshakeCompletes
PROPERTY Settles
PROPERTY ImplementsChannel
CHECK_DEADLOCK FALSE
