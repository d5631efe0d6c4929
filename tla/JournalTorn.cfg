CONSTANTS
    Block = {b1, b2}
    Slots = 8
    OldStarts = 2
    BlhdrMax = 1
    GroupSlack = 1
    Devices = {"through"}
    AllKilledTrs = FALSE
    MaxMods = 2
    MaxTxn = 3
    MaxCrash = 1
SPECIFICATION RefSpec
INVARIANT Recoverable
CHECK_DEADLOCK FALSE
