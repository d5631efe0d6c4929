CONSTANTS
    Threads = {t1, t2}
    Kernel = Kernel
    None = None
    MaxTr = 2
    MaxNest = 2
    Scenarios = {{"errors"}, {"relocate", "close"}}
SPECIFICATION FairSpec
INVARIANTS TypeOK NoPanic OnePlace FlushKept NoSelfWait CloseQuiet CondsOwned
PROPERTIES HolderProgress FlushEnds
