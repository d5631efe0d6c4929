----------------------------- MODULE GlobalLock -----------------------------
(***************************************************************************)
(* The lock that brackets every transaction of the file system             *)
(* (hfs_vfsutils.c) and the operations that take the journal away from     *)
(* under it or stop it: freeze and thaw, sync, the change to read-only and *)
(* back (hfs_mount), enabling and disabling the journal (hfs_sysctl) and   *)
(* the free space scans that hold the journal lock.                        *)
(*                                                                         *)
(* hfs_global_lock is a reader-writer lock of the kernel: readers holds    *)
(* it shared, writer exclusive, and want is the thread that waits for the  *)
(* readers to leave, which no new reader may overtake.  The mount lock     *)
(* (hfs_mutex) only protects single steps and is not a variable.  Of the   *)
(* journal, which JournalLocks models, only the owner of its lock is left. *)
(* A thread is a process of its own.                                       *)
(***************************************************************************)
EXTENDS Naturals, FiniteSets

CONSTANTS Threads,      \* threads in the file system
          MaxNest,      \* bound on nested hfs_start_transaction calls
          Scenarios     \* which calls, and whether errors, occur in a behaviour

None == "none"
Shared == "shared"      \* HFS_SHARED_OWNER

ASSUME ThreadAssumption == None \notin Threads /\ Shared \notin Threads
ASSUME NestAssumption == MaxNest \in Nat \ {0}
\* No journal is opened while a scan runs: hfs_journal_unlock would release a lock that
\* hfs_journal_lock, with no journal there, did not take.
ASSUME ScanAssumption ==
    \A s \in Scenarios : "scan" \in s => "enable" \notin s /\ "downgrade" \notin s

VARIABLES
    hfs_freeze_state,           \* hfs.h: THAWED, WANT_TO_FREEZE, FREEZING, FROZEN
    hfs_freezing,               \* union of hfs_freezing_thread and hfs_freezing_proc
    hfs_syncers,                \* number of hfs_sync calls running
    readers, writer, want,      \* hfs_global_lock
    hfs_global_lockowner,
    jnl,                        \* hfsmp->jnl is not NULL
    owner,                      \* journal_owner(hfsmp->jnl)
    hfs_transaction_nesting,
    hfs_active_threads,
    rdonly_downgrade, read_only,\* HFS_RDONLY_DOWNGRADE and HFS_READ_ONLY of hfs_flags
    hfs_downgrading_thread,
    journaled,                  \* kHFSVolumeJournaledMask of vcbAtrb
    clean, disk_clean,          \* kHFSVolumeUnmountedMask in vcbAtrb and in the header written
    pc,                         \* where each thread is
    frame,                      \* its locals: locktype, return points, retval
    updater,                    \* the thread in hfs_mount with MNT_UPDATE: the VFS admits one
    exiting,                    \* threads whose process is exiting
    panic,                      \* CHECK_JOURNAL has met a null journal: the kernel has stopped
    scenario

freeze_vars == <<hfs_freeze_state, hfs_freezing>>
rw_vars == <<readers, writer, want, hfs_global_lockowner>>
jnl_vars == <<jnl, owner, hfs_transaction_nesting, hfs_active_threads>>
mount_vars == <<rdonly_downgrade, read_only, hfs_downgrading_thread, journaled, clean,
                disk_clean, updater>>
env_vars == <<exiting, panic, scenario>>
vars == <<freeze_vars, hfs_syncers, rw_vars, jnl_vars, mount_vars, pc, frame, env_vars>>

Labels == {"idle",
           "lg", "lg_frozen", "lg_get", "lg_recheck",                 \* hfs_lock_global
           "st", "st_locked", "st_journal", "in_tx", "et_unlock",     \* transactions
           "sy", "sy_flush", "sy_done", "sy_wake", "fl",              \* hfs_sync, hfs_flush
           "fz_enter", "fz_sleep1", "fz_syncers", "fz_sleep2",  \* hfs_freeze
           "fz_freezing", "fz_flush", "fz_done",
           "dg_flag", "dg_synced", "dg_readonly", "dg_close", "dg_fsync",
           "up_open", "up_done", "up_header", "di_close", "en_create", "en_set",
           "jl", "sc_unlock", "ju"}                                   \* the scans

\* mode and lock belong to a call of hfs_lock_global, call to a transaction or
\* hfs_flush, sync to hfs_sync; failed: the retval of the latter two is an error;
\* header: the transaction is the one of hfs_flushvolumeheader.
Frame == [mode : {Shared, "exclusive"}, lock : Labels, call : Labels, sync : Labels,
          failed : BOOLEAN, header : BOOLEAN]
NoFrame == [mode |-> Shared, lock |-> "idle", call |-> "idle", sync |-> "idle",
            failed |-> FALSE, header |-> FALSE]

Init ==
    /\ hfs_freeze_state = "THAWED" /\ hfs_freezing = None /\ hfs_syncers = 0
    /\ readers = {} /\ writer = None /\ want = None /\ hfs_global_lockowner = None
    /\ jnl \in BOOLEAN /\ owner = None
    /\ hfs_transaction_nesting = 0 /\ hfs_active_threads = 0
    /\ rdonly_downgrade = FALSE /\ read_only = FALSE /\ hfs_downgrading_thread = None
    /\ clean = FALSE /\ disk_clean = FALSE /\ journaled = jnl /\ updater = None
    /\ pc = [t \in Threads |-> "idle"] /\ frame = [t \in Threads |-> NoFrame]
    /\ exiting = {} /\ panic = FALSE
    /\ scenario \in Scenarios

\* t goes to label with the locals f; outside of the file system it has none.
Move(t, label, f) ==
    /\ pc' = [pc EXCEPT ![t] = label]
    /\ frame' = [frame EXCEPT ![t] = IF label = "idle" THEN NoFrame ELSE f]

Goto(t, label) == Move(t, label, frame[t])

Return(t, label, error) == Move(t, label, [frame[t] EXCEPT !.failed = error])

\* CHECK_JOURNAL of journal_flush and journal_close.  The other threads may take some
\* more steps before the kernel has stopped them.
NullJournal ==
    /\ ~jnl /\ panic' = TRUE
    /\ UNCHANGED <<freeze_vars, hfs_syncers, rw_vars, jnl_vars, mount_vars, pc,
                   frame, exiting, scenario>>
-----------------------------------------------------------------------------
(* hfs_lock_global and hfs_unlock_global *)

hfs_is_frozen_All(t) == hfs_freeze_state \in {"FREEZING", "FROZEN"}

hfs_is_frozen(t) ==
    \/ hfs_freeze_state = "FROZEN"
    \/ hfs_freeze_state = "FREEZING" /\ hfs_freezing # t

\* The call, to continue at next once the lock is held.
hfs_lock_global(t, m, next) ==
    Move(t, "lg", [frame[t] EXCEPT !.mode = m, !.lock = next])

\* wakeup(&hfsmp->hfs_freeze_state): the threads asleep in hfs_freeze look again.
MoveWaking(t, label) ==
    /\ pc' = [u \in Threads |-> CASE u = t -> label
                                  [] u # t /\ pc[u] = "fz_sleep1" -> "fz_enter"
                                  [] u # t /\ pc[u] = "fz_sleep2" -> "fz_syncers"
                                  [] OTHER -> pc[u]]
    /\ frame' = [frame EXCEPT ![t] = IF label = "idle" THEN NoFrame ELSE @]

FreezerExits == hfs_freeze_state = "FROZEN" /\ hfs_freezing \in exiting

hfs_thaw_locked == hfs_freeze_state' = "THAWED" /\ hfs_freezing' = None

LockCheck(t) ==
    /\ pc[t] = "lg" /\ hfs_global_lockowner # t
    /\ Goto(t, IF hfs_is_frozen(t) THEN "lg_frozen" ELSE "lg_get")
    /\ UNCHANGED <<freeze_vars, hfs_syncers, rw_vars, jnl_vars, mount_vars,
                   env_vars>>

LockFrozen_NoExit(t) ==
    /\ pc[t] = "lg_frozen"
    /\ IF hfs_is_frozen(t) THEN UNCHANGED <<pc, frame>> ELSE Goto(t, "lg_get")
    /\ UNCHANGED <<freeze_vars, hfs_syncers, rw_vars, jnl_vars, mount_vars, env_vars>>

\* One round of the loop over the frozen state; msleep ends after 500 ms at the
\* latest, so the thread needs no wakeup.
LockFrozen(t) ==
    /\ pc[t] = "lg_frozen"
    /\ \/ /\ ~hfs_is_frozen(t)
          /\ Goto(t, "lg_get")
          /\ UNCHANGED freeze_vars
       \/ /\ FreezerExits
          /\ hfs_thaw_locked
          /\ MoveWaking(t, "lg_get")
       \/ /\ hfs_is_frozen(t) /\ ~FreezerExits
          /\ UNCHANGED <<freeze_vars, pc, frame>>
    /\ UNCHANGED <<hfs_syncers, rw_vars, jnl_vars, mount_vars, env_vars>>

GetShared(t) ==
    /\ pc[t] = "lg_get" /\ frame[t].mode = Shared
    /\ writer = None /\ want = None
    /\ readers' = readers \cup {t} /\ hfs_global_lockowner' = Shared
    /\ Goto(t, "lg_recheck")
    /\ UNCHANGED <<freeze_vars, hfs_syncers, writer, want, jnl_vars, mount_vars,
                   env_vars>>

WantExclusive(t) ==
    /\ pc[t] = "lg_get" /\ frame[t].mode = "exclusive"
    /\ writer = None /\ want = None
    /\ want' = t
    /\ UNCHANGED <<freeze_vars, hfs_syncers, readers, writer, hfs_global_lockowner,
                   jnl_vars, mount_vars, pc, frame, env_vars>>

GetExclusive(t) ==
    /\ pc[t] = "lg_get" /\ want = t /\ readers = {}
    /\ writer' = t /\ want' = None /\ hfs_global_lockowner' = t
    /\ Goto(t, "lg_recheck")
    /\ UNCHANGED <<freeze_vars, hfs_syncers, readers, jnl_vars, mount_vars,
                   env_vars>>

hfs_unlock_global_KeepsOwner(t) ==
    /\ IF hfs_global_lockowner = t
       THEN writer' = None /\ UNCHANGED <<readers, hfs_global_lockowner>>
       ELSE readers' = readers \ {t} /\ UNCHANGED <<hfs_global_lockowner, writer>>
    /\ UNCHANGED want

hfs_unlock_global(t) ==
    /\ IF hfs_global_lockowner = t
       THEN hfs_global_lockowner' = None /\ writer' = None /\ UNCHANGED readers
       ELSE readers' = readers \ {t} /\ UNCHANGED <<hfs_global_lockowner, writer>>
    /\ UNCHANGED want

LockRecheck_Once(t) ==
    /\ pc[t] = "lg_recheck"
    /\ Goto(t, frame[t].lock)
    /\ UNCHANGED <<freeze_vars, hfs_syncers, rw_vars, jnl_vars, mount_vars, env_vars>>

\* The freeze may have begun since the first check.
LockRecheck(t) ==
    /\ pc[t] = "lg_recheck"
    /\ IF hfs_is_frozen(t)
       THEN hfs_unlock_global(t) /\ Goto(t, "lg_frozen")
       ELSE Goto(t, frame[t].lock) /\ UNCHANGED rw_vars
    /\ UNCHANGED <<freeze_vars, hfs_syncers, jnl_vars, mount_vars, env_vars>>
-----------------------------------------------------------------------------
(* hfs_start_transaction and hfs_end_transaction.  A transaction that is   *)
(* not nested continues at frame[t].call once it has ended or is refused.  *)

hfs_start_transaction(t, next) ==
    Move(t, "st", [frame[t] EXCEPT !.call = next, !.failed = FALSE])

\* hfs_flushvolumeheader writes the header in a transaction of its own, and writes
\* nothing on a volume that is read-only.
hfs_flushvolumeheader(t, next) ==
    IF read_only
    THEN Goto(t, next)
    ELSE Move(t, "st", [frame[t] EXCEPT !.call = next, !.failed = FALSE, !.header = TRUE])

\* The first look at hfsmp->jnl, before the lock that keeps it from changing.  A
\* caller that has the global lock exclusive, refused with EBUSY, is not among the
\* operations below (NoSelfLock).
StartLook(t) ==
    /\ pc[t] = "st"
    /\ hfs_global_lockowner # t /\ ~(jnl /\ owner = t)
    /\ hfs_lock_global(t, IF jnl THEN Shared ELSE "exclusive", "st_locked")
    /\ UNCHANGED <<freeze_vars, hfs_syncers, rw_vars, jnl_vars, mount_vars,
                   env_vars>>

StartFails(t) == Return(t, frame[t].call, TRUE)

JournalChanged_Never(t) == FALSE

\* "Things could have changed": the journal has come or gone since the first look.
JournalChanged(t) == jnl # (frame[t].mode = Shared)

RefusedReadOnly(t) == rdonly_downgrade /\ hfs_downgrading_thread # t

\* With the lock: look again, count the thread, refuse during a change to read-only.
StartLocked(t) ==
    /\ pc[t] = "st_locked"
    /\ \/ /\ JournalChanged(t)
          /\ hfs_unlock_global(t)
          /\ Goto(t, "st")
          /\ UNCHANGED jnl_vars
       \/ /\ ~JournalChanged(t) /\ RefusedReadOnly(t)
          /\ hfs_unlock_global(t)
          /\ StartFails(t)
          /\ UNCHANGED jnl_vars
       \/ /\ ~JournalChanged(t) /\ ~RefusedReadOnly(t)
          /\ hfs_active_threads' = hfs_active_threads + 1
          /\ hfs_transaction_nesting' = IF jnl THEN hfs_transaction_nesting
                                               ELSE hfs_transaction_nesting + 1
          /\ Goto(t, IF jnl THEN "st_journal" ELSE "in_tx")
          /\ UNCHANGED <<rw_vars, jnl, owner>>
    /\ UNCHANGED <<freeze_vars, hfs_syncers, mount_vars, env_vars>>

\* journal_start_transaction waits for the journal lock, or fails.
StartJournal(t) ==
    /\ pc[t] = "st_journal"
    /\ \/ /\ owner = None
          /\ owner' = t
          /\ hfs_transaction_nesting' = hfs_transaction_nesting + 1
          /\ Goto(t, "in_tx")
          /\ UNCHANGED <<hfs_active_threads, rw_vars>>
       \/ /\ "errors" \in scenario
          /\ hfs_unlock_global(t)
          /\ hfs_active_threads' = hfs_active_threads - 1
          /\ StartFails(t)
          /\ UNCHANGED <<owner, hfs_transaction_nesting>>
    /\ UNCHANGED <<freeze_vars, hfs_syncers, jnl, mount_vars, env_vars>>

\* A nested start takes no lock: the thread owns the journal, or without a journal
\* the global lock.  It is refused like any other.
StartNested(t) ==
    /\ pc[t] = "in_tx" /\ hfs_transaction_nesting < MaxNest
    /\ IF jnl THEN owner = t ELSE hfs_global_lockowner = t
    /\ ~RefusedReadOnly(t)
    /\ hfs_transaction_nesting' = hfs_transaction_nesting + 1
    /\ UNCHANGED <<freeze_vars, hfs_syncers, rw_vars, jnl, owner, hfs_active_threads,
                   mount_vars, pc, frame, env_vars>>

\* The assertions of hfs_end_transaction.
EndAsserts(t) == (jnl => owner = t) /\ hfs_transaction_nesting > 0

EndNested(t) ==
    /\ pc[t] = "in_tx" /\ EndAsserts(t) /\ hfs_transaction_nesting > 1
    /\ hfs_transaction_nesting' = hfs_transaction_nesting - 1
    /\ UNCHANGED <<freeze_vars, hfs_syncers, rw_vars, jnl, owner, hfs_active_threads,
                   mount_vars, pc, frame, env_vars>>

\* The transaction of hfs_flushvolumeheader has written the header, unless it could not
\* read the old one; with a journal any other does if it is dirty and the volume not
\* read-only.  The outermost end then gives the journal lock back.
EndOuter(t) ==
    /\ pc[t] = "in_tx" /\ EndAsserts(t) /\ hfs_transaction_nesting = 1
    /\ hfs_transaction_nesting' = 0
    /\ owner' = IF jnl THEN None ELSE owner
    /\ disk_clean' \in CASE frame[t].header /\ "errors" \notin scenario -> {clean}
                         [] ~frame[t].header /\ (read_only \/ ~jnl) -> {disk_clean}
                         [] OTHER -> {clean, disk_clean}
    /\ Goto(t, "et_unlock")
    /\ UNCHANGED <<freeze_vars, hfs_syncers, rw_vars, jnl, hfs_active_threads,
                   rdonly_downgrade, read_only, hfs_downgrading_thread, journaled,
                   clean, updater, env_vars>>

EndUnlock(t) ==
    /\ pc[t] = "et_unlock"
    /\ hfs_active_threads' = hfs_active_threads - 1
    /\ hfs_unlock_global(t)
    /\ Goto(t, frame[t].call)
    /\ UNCHANGED <<freeze_vars, hfs_syncers, jnl, owner, hfs_transaction_nesting,
                   mount_vars, env_vars>>
-----------------------------------------------------------------------------
(* hfs_sync and hfs_flush *)

CanBegin(t, call) == pc[t] = "idle" /\ t \notin exiting /\ call \in scenario

BeginTx(t) ==
    /\ CanBegin(t, "tx")
    /\ hfs_start_transaction(t, "idle")
    /\ UNCHANGED <<freeze_vars, hfs_syncers, rw_vars, jnl_vars, mount_vars,
                   env_vars>>

\* The call, to continue at next.
hfs_sync(t, next) ==
    Move(t, "sy", [frame[t] EXCEPT !.sync = next, !.failed = FALSE])

BeginSync(t) ==
    /\ CanBegin(t, "sync")
    /\ hfs_sync(t, "idle")
    /\ UNCHANGED <<freeze_vars, hfs_syncers, rw_vars, jnl_vars, mount_vars,
                   env_vars>>

FreezeUnderway_Frozen == hfs_freeze_state = "FROZEN"

FreezeUnderway == hfs_freeze_state # "THAWED"

SyncEnter_Uncounted(t) ==
    /\ pc[t] = "sy"
    /\ IF FreezeUnderway \/ read_only
       THEN Return(t, frame[t].sync, hfs_freeze_state = "THAWED")
       ELSE hfs_start_transaction(t, "sy_flush") \/ Goto(t, "sy_flush")
    /\ UNCHANGED <<freeze_vars, hfs_syncers, rw_vars, jnl_vars, mount_vars, env_vars>>

\* Back off during a freeze, fail on a read-only volume.  The files synced may or
\* may not need a transaction.
SyncEnter(t) ==
    /\ pc[t] = "sy"
    /\ IF FreezeUnderway \/ read_only
       THEN /\ Return(t, frame[t].sync, hfs_freeze_state = "THAWED")
            /\ UNCHANGED hfs_syncers
       ELSE /\ hfs_syncers' = hfs_syncers + 1
            /\ hfs_start_transaction(t, "sy_flush") \/ Goto(t, "sy_flush")
    /\ UNCHANGED <<freeze_vars, rw_vars, jnl_vars, mount_vars, env_vars>>

\* The call, to continue at next; it only looks at hfsmp->jnl with the lock.
hfs_flush(t, next) ==
    Move(t, "lg", [frame[t] EXCEPT !.mode = Shared, !.lock = "fl", !.call = next])

\* hfs_sync itself looks at hfsmp->jnl without the lock.
SyncFlush(t) ==
    /\ pc[t] = "sy_flush"
    /\ IF jnl THEN hfs_flush(t, "sy_done") ELSE Goto(t, "sy_done")
    /\ UNCHANGED <<freeze_vars, hfs_syncers, rw_vars, jnl_vars, mount_vars, env_vars>>

SyncDone_Silent(t) ==
    /\ pc[t] = "sy_done"
    /\ hfs_syncers' = hfs_syncers - 1
    /\ Goto(t, IF hfs_syncers = 1 /\ hfs_freeze_state = "FREEZING"
               THEN "sy_wake" ELSE frame[t].sync)
    /\ UNCHANGED <<freeze_vars, rw_vars, jnl_vars, mount_vars, env_vars>>

SyncDone(t) ==
    /\ pc[t] = "sy_done"
    /\ hfs_syncers' = hfs_syncers - 1
    /\ Goto(t, IF hfs_syncers = 1 /\ hfs_freeze_state = "WANT_TO_FREEZE"
               THEN "sy_wake" ELSE frame[t].sync)
    /\ UNCHANGED <<freeze_vars, rw_vars, jnl_vars, mount_vars, env_vars>>

\* The wakeup comes after the mount lock has been released.
SyncWake(t) ==
    /\ pc[t] = "sy_wake"
    /\ MoveWaking(t, frame[t].sync)
    /\ UNCHANGED <<freeze_vars, hfs_syncers, rw_vars, jnl_vars, mount_vars,
                   env_vars>>

\* journal_flush takes the journal lock for its time unless the caller has it.
FlushJournal(t) ==
    /\ pc[t] = "fl"
    /\ jnl => owner \in {None, t}
    /\ hfs_unlock_global(t)
    /\ Goto(t, frame[t].call)
    /\ UNCHANGED <<freeze_vars, hfs_syncers, jnl_vars, mount_vars, env_vars>>
-----------------------------------------------------------------------------
(* hfs_freeze and hfs_thaw *)

\* F_FREEZE_FS looks at hfsmp->jnl; hfs_freeze does not look again.
BeginFreeze(t) ==
    /\ CanBegin(t, "freeze") /\ jnl
    /\ Goto(t, "fz_enter")
    /\ UNCHANGED <<freeze_vars, hfs_syncers, rw_vars, jnl_vars, mount_vars,
                   env_vars>>

SyncersGone(t) == Goto(t, IF hfs_syncers = 0 THEN "fz_freezing" ELSE "fz_sleep2")

FreezeEnter(t) ==
    /\ pc[t] = "fz_enter"
    /\ IF hfs_freeze_state = "THAWED"
       THEN hfs_freeze_state' = "WANT_TO_FREEZE" /\ SyncersGone(t)
       ELSE Goto(t, "fz_sleep1") /\ UNCHANGED hfs_freeze_state
    /\ UNCHANGED <<hfs_freezing, hfs_syncers, rw_vars, jnl_vars, mount_vars,
                   env_vars>>

FreezeSyncers(t) ==
    /\ pc[t] = "fz_syncers"
    /\ SyncersGone(t)
    /\ UNCHANGED <<freeze_vars, hfs_syncers, rw_vars, jnl_vars, mount_vars,
                   env_vars>>

\* msleep with PCATCH returns EINTR.
FreezeInterrupted(t) ==
    /\ \/ /\ pc[t] = "fz_sleep1"
          /\ Goto(t, "idle")
          /\ UNCHANGED freeze_vars
       \/ /\ pc[t] = "fz_sleep2"
          /\ hfs_thaw_locked
          /\ MoveWaking(t, "idle")
    /\ UNCHANGED <<hfs_syncers, rw_vars, jnl_vars, mount_vars, env_vars>>

FreezeBlock(t) ==
    /\ pc[t] = "fz_freezing"
    /\ hfs_freeze_state' = "FREEZING" /\ hfs_freezing' = t
    /\ hfs_lock_global(t, "exclusive", "fz_flush")
    /\ UNCHANGED <<hfs_syncers, rw_vars, jnl_vars, mount_vars, env_vars>>

FreezeFlush(t) ==
    /\ pc[t] = "fz_flush" /\ jnl /\ owner = None
    /\ hfs_unlock_global(t)
    /\ Goto(t, "fz_done")
    /\ UNCHANGED <<freeze_vars, hfs_syncers, jnl_vars, mount_vars, env_vars>>

FreezeNull(t) == pc[t] = "fz_flush" /\ NullJournal

FreezeDone(t) ==
    /\ pc[t] = "fz_done"
    /\ hfs_freeze_state' = "FROZEN" /\ hfs_freezing' = t
    /\ Goto(t, "idle")
    /\ UNCHANGED <<hfs_syncers, rw_vars, jnl_vars, mount_vars, env_vars>>

\* F_THAW_FS, or hfs_vnop_close of a process that is exiting.
hfs_thaw(t) ==
    /\ pc[t] = "idle"
    /\ hfs_freeze_state = "FROZEN" /\ hfs_freezing = t
    /\ hfs_thaw_locked
    /\ MoveWaking(t, "idle")
    /\ UNCHANGED <<hfs_syncers, rw_vars, jnl_vars, mount_vars, env_vars>>

\* The process of the freezing thread begins to exit, wherever the thread is; nobody
\* asks whether another one does.
Exit(t) ==
    /\ hfs_freezing = t /\ t \notin exiting
    /\ exiting' = exiting \cup {t}
    /\ UNCHANGED <<freeze_vars, hfs_syncers, rw_vars, jnl_vars, mount_vars, pc,
                   frame, panic, scenario>>
-----------------------------------------------------------------------------
(* hfs_mount with MNT_UPDATE: the change to read-only and back.  The VFS    *)
(* admits one update of a mount at a time.                                  *)

BeginDowngrade_Shared(t) ==
    /\ CanBegin(t, "downgrade") /\ updater = None /\ ~read_only
    /\ updater' = t
    /\ hfs_lock_global(t, Shared, "dg_flag")
    /\ UNCHANGED <<freeze_vars, hfs_syncers, rw_vars, jnl_vars, rdonly_downgrade,
                   read_only, hfs_downgrading_thread, journaled, clean, disk_clean,
                   env_vars>>

BeginDowngrade(t) ==
    /\ CanBegin(t, "downgrade") /\ updater = None /\ ~read_only
    /\ updater' = t
    /\ hfs_lock_global(t, "exclusive", "dg_flag")
    /\ UNCHANGED <<freeze_vars, hfs_syncers, rw_vars, jnl_vars, rdonly_downgrade,
                   read_only, hfs_downgrading_thread, journaled, clean, disk_clean,
                   env_vars>>

DowngradeFlag(t) ==
    /\ pc[t] = "dg_flag"
    /\ rdonly_downgrade' = TRUE /\ hfs_downgrading_thread' = t
    /\ hfs_unlock_global(t)
    /\ hfs_sync(t, "dg_synced")
    /\ UNCHANGED <<freeze_vars, hfs_syncers, jnl_vars, read_only, journaled, clean,
                   disk_clean, updater, env_vars>>

\* hfs_sync or hfs_flushfiles may have failed; MNT_FORCE goes on after a failed
\* hfs_sync.  hfs_flushvolumeheader then writes the header in a transaction.
DowngradeSynced(t) ==
    /\ pc[t] = "dg_synced"
    /\ \/ /\ frame[t].failed \/ "errors" \in scenario
          /\ rdonly_downgrade' = FALSE /\ hfs_downgrading_thread' = None
          /\ updater' = None
          /\ Goto(t, "idle")
          /\ UNCHANGED clean
       \/ /\ clean' = TRUE
          /\ hfs_flushvolumeheader(t, "dg_readonly")
          /\ UNCHANGED <<rdonly_downgrade, hfs_downgrading_thread, updater>>
    /\ UNCHANGED <<freeze_vars, hfs_syncers, rw_vars, jnl_vars, read_only, journaled,
                   disk_clean, env_vars>>

\* The second look at hfsmp->jnl, again without the lock.
DowngradeReadOnly(t) ==
    /\ pc[t] = "dg_readonly"
    /\ read_only' = TRUE
    /\ IF jnl
       THEN hfs_lock_global(t, "exclusive", "dg_close")
       ELSE Goto(t, "dg_fsync")
    /\ UNCHANGED <<freeze_vars, hfs_syncers, rw_vars, jnl_vars, rdonly_downgrade,
                   journaled, hfs_downgrading_thread, clean, disk_clean, updater,
                   env_vars>>

\* journal_close waits for the journal lock; then hfsmp->jnl = NULL.
DowngradeClose(t) ==
    /\ pc[t] = "dg_close" /\ jnl /\ owner = None
    /\ jnl' = FALSE
    /\ hfs_unlock_global(t)
    /\ Goto(t, "dg_fsync")
    /\ UNCHANGED <<freeze_vars, hfs_syncers, owner, hfs_transaction_nesting,
                   hfs_active_threads, mount_vars, env_vars>>

DowngradeNull(t) == pc[t] = "dg_close" /\ NullJournal

DowngradeFsync(t) ==
    /\ pc[t] = "dg_fsync"
    /\ \/ /\ frame[t].failed \/ "errors" \in scenario
          /\ rdonly_downgrade' = FALSE /\ read_only' = FALSE
       \/ ~frame[t].failed /\ UNCHANGED <<rdonly_downgrade, read_only>>
    /\ hfs_downgrading_thread' = None /\ updater' = None
    /\ Goto(t, "idle")
    /\ UNCHANGED <<freeze_vars, hfs_syncers, rw_vars, jnl_vars, journaled, clean,
                   disk_clean, env_vars>>

BeginUpgrade(t) ==
    /\ CanBegin(t, "downgrade") /\ updater = None /\ read_only
    /\ updater' = t
    /\ IF journaled /\ ~jnl
       THEN hfs_lock_global(t, "exclusive", "up_open")
       ELSE Goto(t, "up_done")
    /\ UNCHANGED <<freeze_vars, hfs_syncers, rw_vars, jnl_vars, rdonly_downgrade,
                   read_only, hfs_downgrading_thread, journaled, clean, disk_clean,
                   env_vars>>

\* A journal just opened has no owner.
UpgradeOpen(t) ==
    /\ pc[t] = "up_open" /\ owner' = None
    /\ \/ jnl' = TRUE /\ Goto(t, "up_done") /\ UNCHANGED updater
       \/ /\ "errors" \in scenario
          /\ jnl' = FALSE /\ Goto(t, "idle") /\ updater' = None
    /\ hfs_unlock_global(t)
    /\ UNCHANGED <<freeze_vars, hfs_syncers, hfs_transaction_nesting,
                   hfs_active_threads, rdonly_downgrade, read_only,
                   hfs_downgrading_thread, journaled, clean, disk_clean, env_vars>>

\* The volume is marked in use and the header flushed.  hfs_erase_unused_nodes may
\* have failed before.
UpgradeErase(t) ==
    /\ pc[t] = "up_done"
    /\ \/ /\ rdonly_downgrade' = FALSE /\ hfs_downgrading_thread' = None
          /\ clean' = FALSE
          /\ hfs_flushvolumeheader(t, "up_header")
          /\ UNCHANGED updater
       \/ /\ "errors" \in scenario
          /\ updater' = None
          /\ Goto(t, "idle")
          /\ UNCHANGED <<rdonly_downgrade, hfs_downgrading_thread, clean>>
    /\ UNCHANGED <<freeze_vars, hfs_syncers, rw_vars, jnl_vars, read_only, journaled,
                   disk_clean, env_vars>>

UpgradeDone(t) ==
    /\ pc[t] = "up_header"
    /\ read_only' = FALSE /\ updater' = None
    /\ Goto(t, "idle")
    /\ UNCHANGED <<freeze_vars, hfs_syncers, rw_vars, jnl_vars, rdonly_downgrade,
                   hfs_downgrading_thread, journaled, clean, disk_clean, env_vars>>
-----------------------------------------------------------------------------
(* hfs_sysctl: HFS_DISABLE_JOURNALING and HFS_ENABLE_JOURNALING *)

BeginDisable_Shared(t) ==
    /\ CanBegin(t, "disable")
    /\ hfs_lock_global(t, Shared, "di_close")
    /\ UNCHANGED <<freeze_vars, hfs_syncers, rw_vars, jnl_vars, mount_vars,
                   env_vars>>

BeginDisable(t) ==
    /\ CanBegin(t, "disable")
    /\ hfs_lock_global(t, "exclusive", "di_close")
    /\ UNCHANGED <<freeze_vars, hfs_syncers, rw_vars, jnl_vars, mount_vars,
                   env_vars>>

DisableClose(t) ==
    /\ pc[t] = "di_close" /\ jnl /\ owner = None
    /\ jnl' = FALSE /\ journaled' = FALSE
    /\ hfs_unlock_global(t)
    /\ hfs_flushvolumeheader(t, "idle")
    /\ UNCHANGED <<freeze_vars, hfs_syncers, owner, hfs_transaction_nesting,
                   hfs_active_threads, rdonly_downgrade, read_only,
                   hfs_downgrading_thread, clean, disk_clean, updater, env_vars>>

DisableNull(t) == pc[t] = "di_close" /\ NullJournal

BeginEnable(t) ==
    /\ CanBegin(t, "enable") /\ ~read_only /\ ~jnl
    /\ hfs_sync(t, "en_create")
    /\ UNCHANGED <<freeze_vars, hfs_syncers, rw_vars, jnl_vars, mount_vars,
                   env_vars>>

EnableCreate(t) ==
    /\ pc[t] = "en_create"
    /\ hfs_lock_global(t, "exclusive", "en_set")
    /\ UNCHANGED <<freeze_vars, hfs_syncers, rw_vars, jnl_vars, mount_vars,
                   env_vars>>

\* journal_create fails: EIO.
EnableFails(t) ==
    /\ pc[t] = "en_create" /\ "errors" \in scenario
    /\ Goto(t, "idle")
    /\ UNCHANGED <<freeze_vars, hfs_syncers, rw_vars, jnl_vars, mount_vars,
                   env_vars>>

EnableSet(t) ==
    /\ pc[t] = "en_set"
    /\ jnl' = TRUE /\ journaled' = TRUE /\ owner' = None
    /\ hfs_unlock_global(t)
    /\ hfs_flushvolumeheader(t, "idle")
    /\ UNCHANGED <<freeze_vars, hfs_syncers, hfs_transaction_nesting,
                   hfs_active_threads, rdonly_downgrade, read_only,
                   hfs_downgrading_thread, clean, disk_clean, updater, env_vars>>
-----------------------------------------------------------------------------
(* The scans of the bitmap (hfs_find_free_extents, HFSIOC_UNMAP...): the    *)
(* journal lock is taken and released by two calls, each of which takes    *)
(* the global lock for its own time, with hfs_flush in between.             *)

BeginScan(t) ==
    /\ CanBegin(t, "scan")
    /\ hfs_lock_global(t, Shared, "jl")
    /\ UNCHANGED <<freeze_vars, hfs_syncers, rw_vars, jnl_vars, mount_vars,
                   env_vars>>

hfs_journal_lock(t) ==
    /\ pc[t] = "jl"
    /\ jnl => owner = None
    /\ owner' = IF jnl THEN t ELSE owner
    /\ hfs_unlock_global(t)
    /\ hfs_flush(t, "sc_unlock")
    /\ UNCHANGED <<freeze_vars, hfs_syncers, jnl, hfs_transaction_nesting,
                   hfs_active_threads, mount_vars, env_vars>>

ScanUnlock(t) ==
    /\ pc[t] = "sc_unlock"
    /\ hfs_lock_global(t, Shared, "ju")
    /\ UNCHANGED <<freeze_vars, hfs_syncers, rw_vars, jnl_vars, mount_vars,
                   env_vars>>

hfs_journal_unlock(t) ==
    /\ pc[t] = "ju"
    /\ owner' = IF jnl THEN None ELSE owner
    /\ hfs_unlock_global(t)
    /\ Goto(t, "idle")
    /\ UNCHANGED <<freeze_vars, hfs_syncers, jnl, hfs_transaction_nesting,
                   hfs_active_threads, mount_vars, env_vars>>
-----------------------------------------------------------------------------
Begin(t) ==
    \/ BeginTx(t) \/ BeginSync(t) \/ BeginFreeze(t) \/ BeginDowngrade(t) \/ BeginUpgrade(t)
    \/ BeginDisable(t) \/ BeginEnable(t) \/ BeginScan(t)

\* What a thread does by itself once it has called.
LockActions(t) ==
    \/ LockCheck(t) \/ LockFrozen(t) \/ GetShared(t) \/ WantExclusive(t) \/ GetExclusive(t)
    \/ LockRecheck(t)

TxActions(t) ==
    \/ StartLook(t) \/ StartLocked(t) \/ StartJournal(t)
    \/ EndNested(t) \/ EndOuter(t) \/ EndUnlock(t)

SyncActions(t) ==
    \/ SyncEnter(t) \/ SyncFlush(t) \/ SyncDone(t) \/ SyncWake(t) \/ FlushJournal(t)

FreezeActions(t) ==
    \/ FreezeEnter(t) \/ FreezeSyncers(t) \/ FreezeBlock(t) \/ FreezeFlush(t) \/ FreezeNull(t)
    \/ FreezeDone(t)

MountActions(t) ==
    \/ DowngradeFlag(t) \/ DowngradeSynced(t) \/ DowngradeReadOnly(t) \/ DowngradeClose(t)
    \/ DowngradeNull(t) \/ DowngradeFsync(t) \/ UpgradeOpen(t) \/ UpgradeErase(t)
    \/ UpgradeDone(t)

JournalActions(t) ==
    \/ DisableClose(t) \/ DisableNull(t) \/ EnableCreate(t) \/ EnableFails(t) \/ EnableSet(t)
    \/ hfs_journal_lock(t) \/ ScanUnlock(t) \/ hfs_journal_unlock(t)

\* A thread inside the file system goes on.
Step(t) ==
    \/ LockActions(t) \/ TxActions(t) \/ SyncActions(t)
    \/ FreezeActions(t) \/ MountActions(t) \/ JournalActions(t)

\* A thread makes a call, goes on with one, is interrupted or exits.
Act(t) ==
    \/ Begin(t) \/ Step(t)
    \/ StartNested(t) \/ FreezeInterrupted(t) \/ hfs_thaw(t) \/ Exit(t)

\* Nobody is inside the file system, or the kernel has stopped.
Quiet ==
    /\ panic \/ \A t \in Threads : pc[t] = "idle"
    /\ UNCHANGED vars

Next == (\E t \in Threads : Act(t)) \/ Quiet

Spec == Init /\ [][Next]_vars

\* A thread inside the file system is scheduled, a free lock is granted, I/O
\* completes and no transaction nests for ever; nobody is obliged to call, to thaw,
\* to exit or to interrupt.
Fairness ==
    \A t \in Threads : WF_vars(Step(t)) /\ SF_vars(EndOuter(t))

FairSpec == Spec /\ Fairness
-----------------------------------------------------------------------------
(* Properties *)

TypeOK ==
    /\ hfs_freeze_state \in {"THAWED", "WANT_TO_FREEZE", "FREEZING", "FROZEN"}
    /\ hfs_freezing \in Threads \cup {None}
    /\ hfs_syncers \in Nat
    /\ readers \subseteq Threads /\ writer \in Threads \cup {None}
    /\ want \in Threads \cup {None}
    /\ hfs_global_lockowner \in Threads \cup {None, Shared}
    /\ jnl \in BOOLEAN /\ owner \in Threads \cup {None}
    /\ hfs_transaction_nesting \in Nat /\ hfs_active_threads \in Nat
    /\ rdonly_downgrade \in BOOLEAN /\ read_only \in BOOLEAN
    /\ hfs_downgrading_thread \in Threads \cup {None}
    /\ journaled \in BOOLEAN /\ clean \in BOOLEAN /\ disk_clean \in BOOLEAN
    /\ updater \in Threads \cup {None}
    /\ pc \in [Threads -> Labels] /\ frame \in [Threads -> Frame]
    /\ exiting \subseteq Threads /\ panic \in BOOLEAN /\ scenario \in Scenarios

\* The places where hfs_lock_global has returned and hfs_unlock_global is to come.
Past == {"st_locked", "st_journal", "in_tx", "et_unlock", "fl", "fz_flush", "dg_flag",
         "dg_close", "up_open", "di_close", "en_set", "jl", "ju"}

\* A frozen volume has no transaction open and nobody past hfs_lock_global: what
\* hfs_freeze promises the backup or snapshot that asked for it, although threads
\* enter hfs_lock_global while it drains the lock.
FrozenQuiet ==
    hfs_freeze_state = "FROZEN" =>
        hfs_transaction_nesting = 0 /\ \A t \in Threads : pc[t] \notin Past

\* From FREEZING on no hfs_sync is running: each had backed off or was waited for, so
\* none can be caught with the files it locked while it waits for the global lock.
SyncsDrained ==
    hfs_freeze_state \in {"FREEZING", "FROZEN"} =>
        \A t \in Threads : pc[t] \notin {"sy_flush", "sy_done"} /\ hfs_syncers = 0

\* A thread in a transaction owns the journal, or without one the global lock, and
\* passes the assertions of hfs_end_transaction, whatever became of hfsmp->jnl
\* between its look at it and the lock.  Hence there is one transaction at a time.
TxOwner ==
    \A t \in Threads : pc[t] = "in_tx" =>
        /\ EndAsserts(t)
        /\ IF jnl THEN owner = t ELSE hfs_global_lockowner = t

\* hfs_lock_global does not panic ("locking against myself").
NoSelfLock == \A t \in Threads : pc[t] \in {"lg", "st"} => hfs_global_lockowner # t

\* While HFS_RDONLY_DOWNGRADE is set only the thread that set it has a transaction:
\* the lock held exclusive has drained the others, and none can start.
DowngradeBlocks ==
    rdonly_downgrade =>
        \A t \in Threads : pc[t] \in {"st_journal", "in_tx"} => hfs_downgrading_thread = t

\* hfsmp->jnl is opened or closed only by the thread that holds the global lock
\* exclusive, with no transaction open and nobody waiting inside the journal.
JournalStable ==
    [][jnl' # jnl => /\ writer # None /\ hfs_global_lockowner = writer /\ readers = {}
                     /\ hfs_transaction_nesting = 0 /\ owner = None]_vars

\* A freeze that has begun to block the others ends: the threads that hold the lock
\* leave, the ones that come are kept out, and the freezing thread is not one of them.
FreezeEnds == hfs_freeze_state = "FREEZING" ~> hfs_freeze_state # "FREEZING" \/ panic

\* A freeze that waits for the running syncs is not left asleep.
FreezeWakes == \A t \in Threads : pc[t] = "fz_sleep2" ~> pc[t] # "fz_sleep2" \/ panic

\* A volume frozen by a process that exits is thawed once somebody wants it.
ExitThaws ==
    \A p \in Threads :
        (/\ hfs_freeze_state = "FROZEN" /\ hfs_freezing = p /\ p \in exiting
         /\ \E t \in Threads : pc[t] = "lg_frozen")
        ~> (hfs_freeze_state # "FROZEN" \/ hfs_freezing # p)

\* "Only clear HFS_READ_ONLY after a successful write": when the change to writable
\* is over the header on disk says what the one in memory says.
HeaderWritten ==
    [][\A t \in Threads : pc[t] = "up_header" /\ pc'[t] = "idle" => disk_clean' = clean']_vars
=============================================================================
