SPECIFICATION ClaimSpec
CONSTANTS
    MaxLeaves = 8
    MaxProofLength = 3
INVARIANTS
    OnlyGenuineProofs
    EveryLeafProvable
CHECK_DEADLOCK FALSE
