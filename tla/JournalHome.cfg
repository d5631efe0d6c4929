CONSTANTS
    Block = {b1, b2}
    Slots = 7
    OldStarts = 2
    BlhdrMax = 3
    GroupSlack = 1
    Devices = {"cache"}
    AllKilledTrs = FALSE
    MaxMods = 2
    MaxTxn = 3
    MaxCrash = 0
SPECIFICATION Spec
INVARIANT JournalBeforeHome
CHECK_DEADLOCK FALSE
