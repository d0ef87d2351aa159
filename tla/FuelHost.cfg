SPECIFICATION HostSpec
CONSTANTS
    token = token
    Assets = {token}
    Depositors = {alice}
    Users = {carol}
    Contracts = {vault}
    Gateway = gateway
    OtherSenders = {}
    MaxUint64 = 3
    MaxUint256 = 7
    Supply <- MCSupply
    DepositAmounts = {0, 2, 5}
    WithdrawAmounts = {2}
    MaxMessages = 2
    MaxWithdrawals = 1
    Operators = {deployer, operator}
    KmsOperators = {operator}
    Deployer = deployer
    Zero = zero
    OtherGateways = {typo}
    Traffic <- MCTraffic
    MaxScripts = 2
CHECK_DEADLOCK FALSE
INVARIANTS
    TargetDeployed
    ConsumedAsProcessed
PROPERTIES
    ImplementsBridge
    RevokedForGood
    MessagesSettleOnceServed
