SPECIFICATION FairSpec
CONSTANTS
    Messages <- MCMessages
    BlockOf <- MCBlockOf
    Amount <- MCAmount
    Precision = 2
    DepositValues = {2}
    DepositLimit = 4
    NumSlots = 2
    BlocksPerInterval = 2
    TimeToFinalize = 1
    CommitCooldown = 1
    TimeModulus = 100
    MaxDeposits = 2
    MaxCommitHeight = 3
    MaxRepeats = 1
    MaxTime = 8
INVARIANTS
    RootProvesMessage
    WithdrawalsCovered
PROPERTIES
    PaidAfterFinality
    MessagesArrive
CHECK_DEADLOCK FALSE
