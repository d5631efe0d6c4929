CONSTANTS
    Block = {b1, b2}
    Slots = 6
    OldStarts = 2
    BlhdrMax = 3
    GroupSlack = 1
    Devices = {"through"}
    AllKilledTrs = FALSE
    MaxMods = 2
    MaxTxn = 3
    MaxCrash = 0
SPECIFICATION FairSpec
PROPERTIES SpaceFound FlushCompletes
CHECK_DEADLOCK FALSE
