SPECIFICATION TaskSpec
CONSTANTS
    Networks <- MCNetworks
    WrittenPortal = 2
    MaxCrashes = 1
    MaxReruns = 1
    TaskNetworks <- MCTaskNetworks
    Signers <- MCSigners
    MaxTasks = 2
    MaxBlocks = 2
    Amounts = {1, 2}
CHECK_DEADLOCK FALSE
INVARIANTS
    Governed
    Wired
    RecordTruthful
    ReportFaithful
    VerifiedBeforeExecution
PROPERTIES
    CommitterKept
    PauseStands
    Completes
