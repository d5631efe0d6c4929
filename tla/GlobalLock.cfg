SPECIFICATION FairSpec
CONSTANTS
    Threads = {t1, t2}
    MaxNest = 2
    Scenarios = {{"tx", "sync", "freeze"}, {"tx", "freeze", "downgrade", "errors"},
                 {"tx", "sync", "disable", "enable", "errors"}, {"tx", "sync", "scan"},
                 {"downgrade", "disable"}}
INVARIANTS TypeOK FrozenQuiet SyncsDrained TxOwner NoSelfLock DowngradeBlocks
PROPERTIES JournalStable FreezeEnds FreezeWakes ExitThaws
