SPECIFICATION Spec
CONSTANTS
    t1 = t1
    Tokens = {t1}
    Factors <- MCFactors
    Supply <- MCSupply
    FuelContracts = {issuer}
    ZeroId = ZeroId
    MaxUint64 = 2
    DepositAmounts = {0, 1, 2, 4}
    WithdrawalAmounts = {0, 1, 2}
    DepositLimits = {1}
    Limits = {2}
    Durations = {1}
    MaxDepth = 2
    MaxMessages = 3
    GenesisTime = 1
    MaxTime = 2
INVARIANTS
    Collateralised
