SPECIFICATION Spec
CONSTANTS
    NumSlots = 2
    BlocksPerInterval = 2
    TimeToFinalize = 2
    CommitCooldown = 3
    TimeModulus = 13
    h1 = h1
    h2 = h2
    BlockHashes <- MCBlockHashes
    ZeroHash = ZeroHash
    MaxCommitHeight = 3
    GenesisTime = 1
    MaxTime = 9
SYMMETRY HashSymmetry
PROPERTIES
    FinalCommitNeverChanged
