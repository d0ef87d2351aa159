SPECIFICATION Spec
CONSTANTS
    m1 = m1
    m2 = m2
    m3 = m3
    alice = alice
    bob = bob
    Messages = {m1, m2}
    Amount <- MCAmount
    Sender <- MCSender
    NullSender = NullSender
    Roots = {r1}
    Blocks = {b1}
    History <- MCHistory
    Included <- MCIncluded
    ChainStates = {c1, c2}
    FirstChainState = c1
    Precision = 2
    MaxUint64 = 1
    MaxDataSize = 1
    DepositLimit = 6
    RateLimitDuration = 1
    InitialLimit = 4
    Limits <- MCLimits
    DepositValues <- MCDepositValues
    DataSizes = {0, 1}
    RelayValues = {0, 1}
    MaxNonce = 3
    GenesisTime = 1
    MaxTime = 3
INVARIANTS
    TypeOK
    ExecutedOnce
    EthAccounted
    Solvent
    SenderOnlyDuringCall
    PeriodCountExact
PROPERTIES
    ImplementsEscrow
