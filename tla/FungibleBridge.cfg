SPECIFICATION Spec
CONSTANTS
    token = token
    Assets = {token}
    Depositors = {alice, bob}
    Users = {carol}
    Contracts = {vault}
    Gateway = gateway
    OtherSenders = {mallory}
    MaxUint64 = 3
    MaxUint256 = 7
    Supply <- MCSupply
    DepositAmounts = {0, 2, 5}
    WithdrawAmounts = {1, 2}
    MaxMessages = 3
    MaxWithdrawals = 2
SYMMETRY Symmetry
INVARIANTS
    SupplyInCirculation
    Backed
    RefundsGoHome
CHECK_DEADLOCK FALSE
