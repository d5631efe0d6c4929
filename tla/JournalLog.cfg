CONSTANTS
    Block = {b1, b2}
    Slots = 8
    OldStarts = 2
    BlhdrMax = 3
    GroupSlack = 1
    Devices = {"through"}
    AllKilledTrs = FALSE
    MaxMods = 2
    MaxTxn = 3
    MaxCrash = 1
SPECIFICATION RefSpec
SYMMETRY Symmetry
INVARIANTS TypeOK Recoverable OldStartOwned
PROPERTY AtomicTransactions
CHECK_DEADLOCK FALSE
