CONSTANTS
    Block = {b1, b2}
    Slots = 6
    OldStarts = 2
    BlhdrMax = 3
    GroupSlack = 1
    Devices = {"cache", "fua"}
    AllKilledTrs = FALSE
    MaxMods = 2
    MaxTxn = 3
    MaxCrash = 1
SPECIFICATION Spec
SYMMETRY Symmetry
INVARIANTS LogIntact HomeCovered
CHECK_DEADLOCK FALSE
