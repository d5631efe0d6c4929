------------------------- MODULE GlobalLockProofs -------------------------
(***************************************************************************)
(* For any number of threads and any mixture of calls GlobalLock admits: a *)
(* frozen volume is quiet, a thread in a transaction owns it, hfs_lock_    *)
(* global is not called by the owner, a downgrade keeps the others out,    *)
(* and the journal comes and goes only under the exclusive lock.           *)
(***************************************************************************)
EXTENDS GlobalLockKept, GlobalLockSteps

USE DEF None, Shared, freeze_vars, rw_vars, jnl_vars, mount_vars, env_vars

\* The reader-writer lock, the journal's owner, the counters and the states of a freeze
\* and of a read-only change stay consistent along hfs_lock_global, the transactions and
\* every operation that takes the lock, for any number of threads.
THEOREM Consistent == Spec => []IInv
<1>1. IInv /\ [Next]_vars => IInv'
  <2> USE ZenonT(60)
  <2>1. ASSUME IInv, NEW t \in Threads, Act(t) PROVE IInv'
    <3>1. Ready(t)
      BY <2>1, ReadyFacts
    <3>2. ASSUME Step(t) PROVE Effect(t)
      BY <3>1, <3>2, LockActionsEffect, TxActionsEffect, SyncActionsEffect, FreezeActionsEffect,
         MountActionsEffect, JournalActionsEffect DEF Step
    <3>3. Effect(t)
      BY <2>1, <3>1, <3>2, BeginEffect, OtherActionsEffect DEF Act
    <3> QED
      BY <2>1, <3>3, Keeps
  <2>2. ASSUME IInv, UNCHANGED vars PROVE IInv'
    <3>1. VarTypes' /\ PcTypes'
      BY <2>2 DEF vars, IInv, VarTypes, PcTypes
    <3>2. FrameInv' /\ LockInv'
      BY <2>2 DEF vars, IInv, FrameInv, FrameOk, LockInv
    <3>3. TxInv' /\ OwnerInv'
      BY <2>2 DEF vars, IInv, TxInv, OwnerInv, ScanFlags, Scanning
    <3>4. UpdateInv'
      BY <2>2 DEF vars, IInv, UpdateInv, UpdateOk, InUpdate, Upgrading, Flagging
    <3>5. FreezeInv'
      BY <2>2 DEF vars, IInv, FreezeInv, Freezing, Wanting
    <3>6. CountInv'
      BY <2>2 DEF vars, IInv, CountInv, Syncing, Active, InCall
    <3> QED
      BY <3>1, <3>2, <3>3, <3>4, <3>5, <3>6 DEF IInv
  <2> QED
    BY <2>1, <2>2 DEF Next, Quiet
\* A volume just mounted satisfies the invariant: no call has been made.
<1>2. Init => IInv
  <2> USE ZenonT(60)
  <2> SUFFICES ASSUME Init PROVE IInv
    OBVIOUS
  <2>1. pc \in [Threads -> Labels] /\ frame \in [Threads -> Frame]
    BY LabelFacts, NoFrameType, SMTT(60) DEF Init
  <2>2. \A t \in Threads : /\ pc[t] = "idle" /\ frame[t].lock = "idle" /\ frame[t].mode = Shared
                           /\ frame[t].call = "idle" /\ frame[t].sync = "idle"
    BY SMTT(60) DEF Init, NoFrame
  <2>3. VarTypes /\ PcTypes
    BY <2>1, SMTT(60) DEF Init, VarTypes, PcTypes
  <2>4. FrameInv
    BY <2>2 DEF FrameInv, FrameOk, Calls, Syncs, Locking, OnlyExclusive, OnlyShared
  <2>5. LockInv
    BY <2>2 DEF Init, LockInv, Holding, Past
  <2>6. TxInv
    BY <2>2, SMTT(60) DEF Init, TxInv
  <2>7. OwnerInv
    BY <2>2, ThreadAssumption DEF Init, OwnerInv, ScanFlags, Scanning
  <2>8. UpdateInv
    BY <2>2 DEF Init, UpdateInv, UpdateOk, InUpdate, Updating, Upgrading, Flagging
  <2>9. FreezeInv
    BY <2>2 DEF Init, FreezeInv, Freezing, Wanting, Locking
  <2>10. CountInv
    <3>1. {t \in Threads : Syncing(t)} = {} /\ {t \in Threads : Active(t)} = {}
      BY <2>2 DEF Syncing, Active, InCall, Locking
    <3> QED
      BY <3>1, FS_EmptySet DEF Init, CountInv
  <2> QED
    BY <2>3, <2>4, <2>5, <2>6, <2>7, <2>8, <2>9, <2>10 DEF IInv
<1> QED
  BY <1>1, <1>2, PTL DEF Spec

\* A frozen volume has no transaction open and nobody past hfs_lock_global, although
\* hfs_freeze leaves the lock before it says FROZEN and threads keep arriving; for all
\* scenarios in which no journal is opened while a scan runs (ScanAssumption).
THEOREM FrozenVolumeQuiet == Spec => []FrozenQuiet
<1>1. IInv => FrozenQuiet
  <2> SUFFICES ASSUME IInv, hfs_freeze_state = "FROZEN"
               PROVE  hfs_transaction_nesting = 0 /\ \A t \in Threads : pc[t] \notin Past
    BY Zenon DEF FrozenQuiet
  <2>1. \A t \in Threads : pc[t] \notin Past
    BY Zenon DEF IInv, FreezeInv
  <2>2. ~(hfs_transaction_nesting > 0)
    BY <2>1, Zenon DEF IInv, TxInv, Past
  <2> QED
    BY <2>1, <2>2, SMTT(60) DEF IInv, VarTypes
<1> QED
  BY <1>1, Consistent, PTL

\* From FREEZING on no hfs_sync is running: hfs_freeze has waited until hfs_syncers, which
\* counts them exactly, is 0, and hfs_sync backs off from then on.
THEOREM FreezeWaitsForSyncs == Spec => []SyncsDrained
<1>1. IInv => SyncsDrained
  <2> SUFFICES ASSUME IInv, hfs_freeze_state \in {"FREEZING", "FROZEN"}, NEW t \in Threads
               PROVE  pc[t] \notin {"sy_flush", "sy_done"} /\ hfs_syncers = 0
    BY Zenon DEF SyncsDrained
  <2>1. hfs_syncers = 0
    BY Zenon DEF IInv, FreezeInv
  <2>2. Syncing(t) => hfs_syncers # 0
    BY ReadyFacts, Zenon DEF Ready, Here
  <2> QED
    BY <2>1, <2>2, Zenon DEF Syncing
<1> QED
  BY <1>1, Consistent, PTL

\* A thread in a transaction owns the journal, or without one the global lock, so the
\* assertions of hfs_end_transaction hold and transactions exclude each other.  This
\* rests on ScanAssumption: a journal opened between hfs_journal_lock and
\* hfs_journal_unlock would have its lock released under the transaction that owns it.
THEOREM TransactionOwned == Spec => []TxOwner
<1>1. IInv => TxOwner
  BY ThreadAssumption, ZenonT(60) DEF IInv, TxOwner, EndAsserts, TxInv, LockInv, Holding, Past
<1> QED
  BY <1>1, Consistent, PTL

\* hfs_lock_global is never called by the thread that has the lock exclusive: its
\* panic "locking against myself" is not reached.
THEOREM NeverLocksItself == Spec => []NoSelfLock
<1>1. IInv => NoSelfLock
  BY ThreadAssumption, ZenonT(60) DEF IInv, VarTypes, NoSelfLock, LockInv, Holding, Past
<1> QED
  BY <1>1, Consistent, PTL

\* While hfs_mount changes the volume to read-only only its thread has a transaction.
THEOREM DowngradeExcludes == Spec => []DowngradeBlocks
<1>1. IInv => DowngradeBlocks
  BY ZenonT(60) DEF IInv, UpdateInv, UpdateOk, DowngradeBlocks
<1> QED
  BY <1>1, Consistent, PTL

-----------------------------------------------------------------------------
(* hfsmp->jnl and the flags of the volume *)

Closers == {"dg_close", "di_close"}
Openers == {"dg_close", "up_open", "di_close", "en_set"}

\* hfsmp->jnl is opened and closed only under the global lock held exclusive, with no
\* transaction open and nobody inside the journal: journal_close of a read-only change
\* or of HFS_DISABLE_JOURNALING does not pull it away from a transaction.
THEOREM JournalUnderLock == Spec => JournalStable
\* hfsmp->jnl is assigned only by the changes to read-only and back and by the two
\* sysctls; those that close the journal wait for its lock.
<1>1. ASSUME [Next]_vars, jnl' # jnl
      PROVE  \E t \in Threads : pc[t] \in Openers /\ (pc[t] \in Closers => owner = None)
  <2> USE <1>1
  <2> USE ZenonT(60)
  <2>1. CASE UNCHANGED vars
    BY <2>1 DEF vars
  <2>2. ASSUME NEW t \in Threads, Begin(t) PROVE FALSE
    BY <2>2 DEF Begin, BeginTx, BeginSync, BeginFreeze, BeginDowngrade, BeginUpgrade,
                BeginDisable, BeginEnable, BeginScan
  <2>3. ASSUME NEW t \in Threads, LockActions(t) \/ TxActions(t) PROVE FALSE
    BY <2>3 DEF LockActions, LockCheck, LockFrozen, GetShared, WantExclusive, GetExclusive,
       LockRecheck, TxActions, StartLook, StartLocked, StartJournal, EndNested, EndOuter, EndUnlock
  <2>4. ASSUME NEW t \in Threads, SyncActions(t) \/ FreezeActions(t) PROVE FALSE
    BY <2>4 DEF SyncActions, SyncEnter, SyncFlush, SyncDone, SyncWake, FlushJournal, FreezeActions,
       FreezeEnter, FreezeSyncers, FreezeBlock, FreezeFlush, FreezeNull, FreezeDone, NullJournal
  <2>5. ASSUME NEW t \in Threads, MountActions(t)
        PROVE  pc[t] \in Openers /\ (pc[t] \in Closers => owner = None)
    BY <2>5 DEF MountActions, DowngradeFlag, DowngradeSynced, DowngradeReadOnly, DowngradeClose,
       DowngradeNull, DowngradeFsync, UpgradeOpen, UpgradeErase, UpgradeDone, NullJournal,
       Openers, Closers
  <2>6. ASSUME NEW t \in Threads, JournalActions(t)
        PROVE  pc[t] \in Openers /\ (pc[t] \in Closers => owner = None)
    BY <2>6 DEF JournalActions, DisableClose, DisableNull, EnableCreate, EnableFails, EnableSet,
       hfs_journal_lock, ScanUnlock, hfs_journal_unlock, NullJournal, Openers, Closers
  <2>7. ASSUME NEW t \in Threads,
               StartNested(t) \/ FreezeInterrupted(t) \/ hfs_thaw(t) \/ Exit(t)
        PROVE  FALSE
    BY <2>7 DEF StartNested, FreezeInterrupted, hfs_thaw, Exit
  <2> QED
    BY <2>1, <2>2, <2>3, <2>4, <2>5, <2>6, <2>7 DEF Next, Quiet, Act, Step
<1>2. IInv /\ [Next]_vars =>
        [jnl' # jnl => /\ writer # None /\ hfs_global_lockowner = writer /\ readers = {}
                       /\ hfs_transaction_nesting = 0 /\ owner = None]_vars
  <2> USE ZenonT(60)
  <2> SUFFICES ASSUME IInv, [Next]_vars, jnl' # jnl
               PROVE  /\ writer # None /\ hfs_global_lockowner = writer /\ readers = {}
                      /\ hfs_transaction_nesting = 0 /\ owner = None
    OBVIOUS
  <2>1. PICK t \in Threads : pc[t] \in Openers /\ (pc[t] \in Closers => owner = None)
    BY <1>1
  <2>2. PcTypes /\ VarTypes /\ LockInv /\ TxInv /\ OwnerInv
    BY DEF IInv
  <2>3. writer = t
    BY <2>1, ReadyFacts DEF Ready, Here, Openers, OnlyExclusive
  <2>4. \A u \in Threads : pc[u] # "in_tx"
    BY <2>1, <2>2, <2>3, WriterAlone DEF Openers, Holding, Past
  <2>5. hfs_transaction_nesting = 0
    BY <2>2, <2>4, SMTT(60) DEF TxInv, VarTypes
  <2>6. owner = None
    <3>1. CASE pc[t] \in Closers
      BY <2>1, <3>1
    <3>2. CASE pc[t] \notin Closers
      <4>1. "scan" \notin scenario
        BY <2>1, <2>2, <3>2, ScanAssumption DEF Openers, Closers, OwnerInv, ScanFlags, VarTypes
      <4> QED
        BY <2>2, <2>4, <4>1 DEF OwnerInv, ScanFlags, VarTypes
    <3> QED
      BY <3>1, <3>2
  <2> QED
    BY <2>2, <2>3, <2>6, <2>5, ThreadAssumption DEF LockInv
<1> QED
  BY <1>2, Consistent, PTL DEF Spec, JournalStable

\* The variables of TypeOK of which the invariant says nothing.
Flags ==
    /\ jnl \in BOOLEAN /\ rdonly_downgrade \in BOOLEAN /\ read_only \in BOOLEAN
    /\ journaled \in BOOLEAN /\ clean \in BOOLEAN /\ disk_clean \in BOOLEAN
    /\ exiting \subseteq Threads /\ panic \in BOOLEAN

\* Every variable keeps its type; in particular hfs_syncers and hfs_active_threads, from
\* which hfs_sync and hfs_end_transaction subtract without a look, never fall below 0.
THEOREM TypeCorrect == Spec => []TypeOK
<1>1. Init => Flags
  BY ZenonT(60) DEF Init, Flags
<1>2. Flags /\ [Next]_vars => Flags'
  <2> USE ZenonT(60)
  <2>1. ASSUME Flags, UNCHANGED vars PROVE Flags'
    BY <2>1 DEF Flags, vars
  <2>2. ASSUME Flags, NEW t \in Threads, Begin(t) PROVE Flags'
    BY <2>2 DEF Flags, Begin, BeginTx, BeginSync, BeginFreeze, BeginDowngrade, BeginUpgrade,
                BeginDisable, BeginEnable, BeginScan
  <2>3. ASSUME Flags, NEW t \in Threads, LockActions(t) PROVE Flags'
    BY <2>3 DEF Flags, LockActions, LockCheck, LockFrozen, GetShared, WantExclusive, GetExclusive,
       LockRecheck
  <2>4. ASSUME Flags, NEW t \in Threads, TxActions(t) PROVE Flags'
    <3>1. CASE EndOuter(t)
      <4>1. disk_clean' \in {clean, disk_clean}
        BY <3>1 DEF EndOuter
      <4> QED
        BY <2>4, <3>1, <4>1 DEF Flags, EndOuter
    <3>2. CASE ~EndOuter(t)
      BY <2>4, <3>2 DEF Flags, TxActions, StartLook, StartLocked, StartJournal, EndNested, EndUnlock
    <3> QED
      BY <3>1, <3>2
  <2>5. ASSUME Flags, NEW t \in Threads, SyncActions(t) \/ FreezeActions(t) PROVE Flags'
    BY <2>5 DEF Flags, SyncActions, SyncEnter, SyncFlush, SyncDone, SyncWake, FlushJournal,
       FreezeActions, FreezeEnter, FreezeSyncers, FreezeBlock, FreezeFlush, FreezeNull, FreezeDone,
       NullJournal
  <2>6. ASSUME Flags, NEW t \in Threads, MountActions(t) PROVE Flags'
    BY <2>6 DEF Flags, MountActions, DowngradeFlag, DowngradeSynced, DowngradeReadOnly,
       DowngradeClose, DowngradeNull, DowngradeFsync, UpgradeOpen, UpgradeErase, UpgradeDone,
       NullJournal
  <2>7. ASSUME Flags, NEW t \in Threads, JournalActions(t) PROVE Flags'
    BY <2>7 DEF Flags, JournalActions, DisableClose, DisableNull, EnableCreate, EnableFails, EnableSet,
       hfs_journal_lock, ScanUnlock, hfs_journal_unlock, NullJournal
  <2>8. ASSUME Flags, NEW t \in Threads,
               StartNested(t) \/ FreezeInterrupted(t) \/ hfs_thaw(t) \/ Exit(t)
        PROVE  Flags'
    BY <2>8 DEF Flags, StartNested, FreezeInterrupted, hfs_thaw, Exit
  <2> QED
    BY <2>1, <2>2, <2>3, <2>4, <2>5, <2>6, <2>7, <2>8 DEF Next, Quiet, Act, Step
<1>3. IInv => hfs_syncers \in Nat /\ hfs_active_threads \in Nat
  BY FS_CardinalityType, ZenonT(60) DEF IInv, CountInv
<1>4. IInv /\ Flags => TypeOK
  BY <1>3, ZenonT(60) DEF IInv, VarTypes, PcTypes, Flags, TypeOK
<1> QED
  BY <1>1, <1>2, <1>4, Consistent, PTL DEF Spec
=============================================================================
