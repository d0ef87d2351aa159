SPECIFICATION FairSpec
CONSTANTS
    Limits <- MCLimits
    Durations <- MCDurations
    Withdrawals <- MCWithdrawals
    GenesisTime = 1
    MaxTime = 6
INVARIANTS
    PeriodWithinPeak
    SlidingWindowBounded
PROPERTIES
    OpensAgain
