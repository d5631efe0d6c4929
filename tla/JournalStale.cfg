CONSTANTS
    Block = {b1, b2}
    Slots = 7
    OldStarts = 2
    BlhdrMax = 3
    GroupSlack = 1
    Devices = {"through"}
    AllKilledTrs = FALSE
    MaxMods = 2
    MaxTxn = 3
    MaxCrash = 1
SPECIFICATION Spec
INVARIANT NoOldTransactions
CHECK_DEADLOCK FALSE
