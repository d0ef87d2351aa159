SPECIFICATION BothSpec
CONSTANTS
    Assets = {token}
    Depositors = {alice}
    Users = {carol}
    Contracts = {vault}
    Gateway = gateway
    OtherSenders = {}
    MaxUint64 = 2
    MaxUint256 = 3
    Supply <- MCSupply
    DepositAmounts <- MCFuelAmounts
    WithdrawAmounts <- MCFuelAmounts
    MaxMessages = 3
    MaxWithdrawals = 2
    Factors <- MCFactors
    TokenSupply <- MCTokenSupply
    FuelBridge = FuelBridge
    OtherFuelContracts = {other}
    ZeroId = ZeroId
    L1DepositAmounts = {1, 2, 4}
    DepositLimits = {}
    Limits = {}
    Durations = {}
    Now = 1
INVARIANTS
    FullyBacked
    NoDepositRefused
PROPERTIES
    FuelSideHolds
