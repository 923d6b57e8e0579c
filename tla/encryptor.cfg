SPECIFICATION CalmSpec
CONSTANTS
    Node = {1, 2, 3}
    MaxKey = 2
    Redeployable = {2}
    Deployments <- Interrupted
    MaxMail = 1
    MaxLate = 1
    EnabledFrom = 2
    MaxRecipients = 2
INVARIANT ConnectedEncrypts
INVARIANT SlotForReceiver
INVARIANT FailsOnlyIfStale
PROPERTY EncryptionStaysOn
PROPERTY EveryoneEncrypts
