-------------------------- MODULE GlobalLockFacts --------------------------
(***************************************************************************)
(* The inductive invariant of GlobalLock, what the operators that move a   *)
(* thread do, and the effects a step of one thread may have on each part   *)
(* of the invariant.                                                       *)
(***************************************************************************)
EXTENDS GlobalLock, TLAPS

Locking == {"lg", "lg_frozen", "lg_get", "lg_recheck"}
Holding == Past \cup {"lg_recheck"}
OnlyExclusive == {"fz_flush", "dg_flag", "dg_close", "up_open", "di_close", "en_set"}
OnlyShared == {"fl", "jl", "ju"}

\* The part of TypeOK that the rest of the invariant rests on.
VarTypes ==
    /\ hfs_freeze_state \in {"THAWED", "WANT_TO_FREEZE", "FREEZING", "FROZEN"}
    /\ hfs_freezing \in Threads \cup {None}
    /\ readers \subseteq Threads /\ writer \in Threads \cup {None}
    /\ want \in Threads \cup {None}
    /\ hfs_global_lockowner \in Threads \cup {None, Shared}
    /\ owner \in Threads \cup {None} /\ hfs_transaction_nesting \in Nat
    /\ hfs_downgrading_thread \in Threads \cup {None}
    /\ updater \in Threads \cup {None}
    /\ scenario \in Scenarios

PcTypes == pc \in [Threads -> Labels] /\ frame \in [Threads -> Frame]

\* The points a transaction or hfs_flush, and hfs_sync, return to.
Calls == {"idle", "sy_flush", "sy_done", "dg_readonly", "up_header", "sc_unlock"}
Syncs == {"idle", "dg_synced", "en_create"}

\* What a thread is locking for, and in which mode it holds what it has locked.
FrameOk(t) ==
    /\ pc[t] \in Locking => \/ frame[t].lock = "st_locked"
                            \/ frame[t].lock \in OnlyExclusive /\ frame[t].mode = "exclusive"
                            \/ frame[t].lock \in OnlyShared /\ frame[t].mode = Shared
    /\ pc[t] \in OnlyExclusive => frame[t].mode = "exclusive"
    /\ pc[t] \in OnlyShared => frame[t].mode = Shared
    /\ frame[t].call \in Calls /\ frame[t].sync \in Syncs
    /\ pc[t] = "idle" => frame[t].lock = "idle" /\ frame[t].call = "idle"

FrameInv == \A t \in Threads : FrameOk(t)

\* The reader-writer lock: the holders are the threads past its acquisition.
LockInv ==
    /\ \A t \in Threads : pc[t] \in Holding /\ frame[t].mode = Shared => t \in readers
    /\ \A t \in Threads : pc[t] \in Holding /\ frame[t].mode = "exclusive" => writer = t
    /\ \A t \in readers : pc[t] \in Holding /\ frame[t].mode = Shared
    /\ writer # None => /\ readers = {} /\ want = None /\ hfs_global_lockowner = writer
                        /\ pc[writer] \in Holding /\ frame[writer].mode = "exclusive"
    /\ writer = None => hfs_global_lockowner \in {None, Shared}
    /\ want # None => pc[want] = "lg_get" /\ frame[want].mode = "exclusive"

\* A transaction is the journal owner's, or without a journal the exclusive holder's.
TxInv ==
    /\ \A t \in Threads : pc[t] = "st_journal" => jnl /\ frame[t].mode = Shared
    /\ \A t \in Threads : pc[t] = "in_tx" =>
            /\ hfs_transaction_nesting > 0
            /\ jnl => owner = t /\ frame[t].mode = Shared
            /\ ~jnl => frame[t].mode = "exclusive"
    /\ hfs_transaction_nesting > 0 => \E t \in Threads : pc[t] = "in_tx"
    /\ ~jnl => owner = None

\* t is in a scan that has been through hfs_journal_lock.
Scanning(t) == frame[t].call = "sc_unlock"

\* The journal has an owner only in a transaction or a scan, and a scan keeps it; which
\* calls lead to where t is.
ScanFlags(t) ==
    /\ owner = t => pc[t] = "in_tx" \/ Scanning(t)
    /\ Scanning(t) => /\ "scan" \in scenario /\ (jnl => owner = t)
                      /\ pc[t] \in Locking \cup {"fl", "sc_unlock", "ju"}
                      /\ frame[t].lock \in {"fl", "ju"}
    /\ pc[t] \in {"ju", "sc_unlock"} \/ frame[t].lock = "ju" => Scanning(t)
    /\ pc[t] = "jl" \/ frame[t].lock = "jl" => "scan" \in scenario
    /\ pc[t] \in {"en_set", "en_create"} \/ frame[t].lock = "en_set"
        \/ frame[t].sync = "en_create" => "enable" \in scenario
    /\ pc[t] = "up_open" \/ frame[t].lock = "up_open" => "downgrade" \in scenario

OwnerInv ==
    \A t \in Threads : ScanFlags(t)

\* The labels of hfs_mount, which the VFS lets one thread be in.
Updating == {"dg_flag", "dg_synced", "dg_readonly", "dg_close", "dg_fsync", "up_open",
             "up_done", "up_header"}

\* t is in an update of the mount, in the change back to writable, or about to set
\* HFS_RDONLY_DOWNGRADE.
InUpdate(t) ==
    \/ pc[t] \in Updating \/ frame[t].lock \in Updating
    \/ frame[t].call \in {"dg_readonly", "up_header"} \/ frame[t].sync = "dg_synced"
Upgrading(t) ==
    pc[t] \in {"up_open", "up_done", "up_header"} \/ frame[t].lock = "up_open"
        \/ frame[t].call = "up_header"
Flagging(t) == pc[t] = "dg_flag" \/ frame[t].lock = "dg_flag"

UpdateOk(t) ==
    /\ InUpdate(t) => updater = t
    /\ Upgrading(t) => hfs_downgrading_thread = None /\ ~Flagging(t)
    /\ rdonly_downgrade /\ pc[t] \in {"st_journal", "in_tx"} => hfs_downgrading_thread = t

UpdateInv ==
    hfs_downgrading_thread \in {None, updater} /\ \A t \in Threads : UpdateOk(t)

\* t has set HFS_FREEZING and not yet HFS_FROZEN.
Freezing(t) ==
    \/ pc[t] \in Locking /\ frame[t].lock = "fz_flush"
    \/ pc[t] \in {"fz_flush", "fz_done"}

Wanting(t) == pc[t] \in {"fz_syncers", "fz_sleep2", "fz_freezing"}

FreezeInv ==
    /\ \A t \in Threads : Freezing(t) => hfs_freeze_state = "FREEZING" /\ hfs_freezing = t
    /\ \A t \in Threads : Wanting(t) => hfs_freeze_state = "WANT_TO_FREEZE"
    /\ \A t, u \in Threads : Wanting(t) /\ Wanting(u) => t = u
    /\ hfs_freeze_state = "FREEZING" => \E t \in Threads : Freezing(t)
    /\ hfs_freeze_state \in {"FREEZING", "FROZEN"}
        \/ (\E t \in Threads : pc[t] = "fz_freezing") => hfs_syncers = 0
    /\ hfs_freeze_state = "FROZEN" \/ (\E t \in Threads : pc[t] = "fz_done") =>
            \A t \in Threads : pc[t] \notin Past

\* t is in a transaction or hfs_flush that returns to frame[t].call.
InCall(t) ==
    \/ pc[t] \in {"st", "st_locked", "st_journal", "in_tx", "et_unlock", "fl"}
    \/ pc[t] \in Locking /\ frame[t].lock \in {"st_locked", "fl"}

\* The threads hfs_syncers counts, and those hfs_active_threads counts.
Syncing(t) ==
    \/ pc[t] \in {"sy_flush", "sy_done"}
    \/ InCall(t) /\ frame[t].call \in {"sy_flush", "sy_done"}
Active(t) == pc[t] \in {"st_journal", "in_tx", "et_unlock"}

CountInv ==
    /\ IsFiniteSet({t \in Threads : Syncing(t)})
    /\ hfs_syncers = Cardinality({t \in Threads : Syncing(t)})
    /\ IsFiniteSet({t \in Threads : Active(t)})
    /\ hfs_active_threads = Cardinality({t \in Threads : Active(t)})

IInv == /\ VarTypes /\ PcTypes /\ FrameInv /\ LockInv /\ TxInv /\ OwnerInv /\ UpdateInv
        /\ FreezeInv /\ CountInv

USE DEF None, Shared, freeze_vars, rw_vars, jnl_vars, mount_vars, env_vars

-----------------------------------------------------------------------------
(* What the operators that move a thread do to pc and frame. *)

\* The other threads are where they were, but for the sleepers of hfs_freeze that a
\* wakeup makes look again.
Apart(t) ==
    \A u \in Threads \ {t} :
        /\ frame'[u] = frame[u]
        /\ \/ pc'[u] = pc[u]
           \/ pc[u] = "fz_sleep1" /\ pc'[u] = "fz_enter"
           \/ pc[u] = "fz_sleep2" /\ pc'[u] = "fz_syncers"

\* t is at l with the locals m, k, c and s.
At(t, l, m, k, c, s) ==
    /\ pc'[t] = l /\ frame'[t].mode = m /\ frame'[t].lock = k
    /\ frame'[t].call = c /\ frame'[t].sync = s

\* t has gone on to l, or has left the file system.
Went(t, l) == At(t, l, frame[t].mode, frame[t].lock, frame[t].call, frame[t].sync)
Gone(t) == At(t, "idle", Shared, "idle", "idle", "idle")

\* Each label is one of Labels; cited where the whole enumeration would only be in the way.
LEMMA LabelFacts ==
    /\ "idle" \in Labels /\ "lg" \in Labels /\ "lg_frozen" \in Labels
    /\ "lg_get" \in Labels /\ "lg_recheck" \in Labels /\ "st" \in Labels
    /\ "st_locked" \in Labels /\ "st_journal" \in Labels /\ "in_tx" \in Labels
    /\ "et_unlock" \in Labels /\ "sy" \in Labels /\ "sy_flush" \in Labels
    /\ "sy_done" \in Labels /\ "sy_wake" \in Labels /\ "fl" \in Labels
    /\ "fz_enter" \in Labels /\ "fz_sleep1" \in Labels /\ "fz_syncers" \in Labels
    /\ "fz_sleep2" \in Labels /\ "fz_freezing" \in Labels /\ "fz_flush" \in Labels
    /\ "fz_done" \in Labels /\ "dg_flag" \in Labels /\ "dg_synced" \in Labels
    /\ "dg_readonly" \in Labels /\ "dg_close" \in Labels /\ "dg_fsync" \in Labels
    /\ "up_open" \in Labels /\ "up_done" \in Labels /\ "up_header" \in Labels
    /\ "di_close" \in Labels /\ "en_create" \in Labels /\ "en_set" \in Labels
    /\ "jl" \in Labels /\ "sc_unlock" \in Labels /\ "ju" \in Labels
  BY SMTT(60) DEF Labels

\* A thread outside of the file system has locals of the right type.
LEMMA NoFrameType == NoFrame \in Frame
<1>1. "idle" \in Labels
  BY LabelFacts, SMTT(60)
<1> QED
  BY <1>1, SMTT(60) DEF NoFrame, Frame

\* Move changes the place and the locals of t, and of nobody else.
LEMMA MoveFacts ==
    ASSUME PcTypes, NEW t \in Threads, NEW l, NEW f, Move(t, l, f)
    PROVE  /\ Apart(t) /\ pc'[t] = l
           /\ frame'[t] = IF l = "idle" THEN NoFrame ELSE f
           /\ l \in Labels /\ f \in Frame => PcTypes'
<1>1. f \in Frame => (IF l = "idle" THEN NoFrame ELSE f) \in Frame
  BY NoFrameType, SMTT(60)
<1> QED
  BY <1>1, SMTT(60) DEF PcTypes, Apart, Move

\* Goto keeps the locals, unless t leaves the file system.
LEMMA GotoFacts ==
    ASSUME PcTypes, NEW t \in Threads, NEW l, Goto(t, l)
    PROVE  /\ Apart(t) /\ (IF l = "idle" THEN Gone(t) ELSE Went(t, l))
           /\ l \in Labels => PcTypes'
<1>1. frame[t] \in Frame
  BY SMTT(60) DEF PcTypes
<1>2. Move(t, l, frame[t])
  BY SMTT(60) DEF Goto
<1>3. /\ Apart(t) /\ pc'[t] = l
      /\ l \in Labels => PcTypes'
      /\ frame'[t] = IF l = "idle" THEN NoFrame ELSE frame[t]
  BY <1>1, <1>2, MoveFacts, SMTT(60)
<1> QED
  BY <1>3, SMTT(60) DEF Went, Gone, At, NoFrame

\* A call of hfs_lock_global leads to its first look at the freeze.
LEMMA LockFacts ==
    ASSUME PcTypes, NEW t \in Threads, NEW m, NEW l,
           hfs_lock_global(t, m, l)
    PROVE  /\ Apart(t) /\ At(t, "lg", m, l, frame[t].call, frame[t].sync)
           /\ m \in {Shared, "exclusive"} /\ l \in Labels => PcTypes'
<1> DEFINE f == [frame[t] EXCEPT !.mode = m, !.lock = l]
<1>1. frame[t] \in Frame
  BY SMTT(60) DEF PcTypes
<1>2. /\ m \in {Shared, "exclusive"} /\ l \in Labels => f \in Frame
      /\ f.mode = m /\ f.lock = l
      /\ f.call = frame[t].call /\ f.sync = frame[t].sync
  BY <1>1, ZenonT(60) DEF Frame
<1>3. Move(t, "lg", f)
  BY SMTT(60) DEF hfs_lock_global
<1>4. "lg" \in Labels
  BY SMTT(60) DEF Labels
<1> HIDE DEF f
<1> QED
  BY <1>2, <1>3, <1>4, MoveFacts, SMTT(60) DEF At

\* A call of hfs_start_transaction.
LEMMA StartFacts ==
    ASSUME PcTypes, NEW t \in Threads, NEW l, hfs_start_transaction(t, l)
    PROVE  /\ Apart(t) /\ At(t, "st", frame[t].mode, frame[t].lock, l, frame[t].sync)
           /\ l \in Labels => PcTypes'
<1> DEFINE f == [frame[t] EXCEPT !.call = l, !.failed = FALSE]
<1>1. frame[t] \in Frame
  BY SMTT(60) DEF PcTypes
<1>2. /\ l \in Labels => f \in Frame
      /\ f.call = l /\ f.mode = frame[t].mode
      /\ f.lock = frame[t].lock /\ f.sync = frame[t].sync
  BY <1>1, ZenonT(60) DEF Frame
<1>3. Move(t, "st", f)
  BY SMTT(60) DEF hfs_start_transaction
<1>4. "st" \in Labels
  BY SMTT(60) DEF Labels
<1> HIDE DEF f
<1> QED
  BY <1>2, <1>3, <1>4, MoveFacts, SMTT(60) DEF At

\* A call of hfs_flushvolumeheader: nothing on a read-only volume, else a transaction.
LEMMA HeaderFacts ==
    ASSUME PcTypes, NEW t \in Threads, NEW l, hfs_flushvolumeheader(t, l)
    PROVE  /\ Apart(t)
           /\ read_only => IF l = "idle" THEN Gone(t) ELSE Went(t, l)
           /\ ~read_only => At(t, "st", frame[t].mode, frame[t].lock, l, frame[t].sync)
           /\ l \in Labels => PcTypes'
<1>1. CASE read_only
  BY <1>1, GotoFacts, SMTT(60) DEF hfs_flushvolumeheader
<1>2. CASE ~read_only
  <2> DEFINE f == [frame[t] EXCEPT !.call = l, !.failed = FALSE, !.header = TRUE]
  <2>1. frame[t] \in Frame
    BY SMTT(60) DEF PcTypes
  <2>2. /\ l \in Labels => f \in Frame
      /\ f.call = l /\ f.mode = frame[t].mode
        /\ f.lock = frame[t].lock /\ f.sync = frame[t].sync
    BY <2>1, ZenonT(60) DEF Frame
  <2>3. Move(t, "st", f)
    BY <1>2, SMTT(60) DEF hfs_flushvolumeheader
  <2>4. "st" \in Labels
    BY SMTT(60) DEF Labels
  <2> HIDE DEF f
  <2> QED
    BY <1>2, <2>2, <2>3, <2>4, MoveFacts, SMTT(60) DEF At
<1> QED
  BY <1>1, <1>2, SMTT(60)

\* A call of hfs_sync.
LEMMA SyncFacts ==
    ASSUME PcTypes, NEW t \in Threads, NEW l, hfs_sync(t, l)
    PROVE  /\ Apart(t) /\ At(t, "sy", frame[t].mode, frame[t].lock, frame[t].call, l)
           /\ l \in Labels => PcTypes'
<1> DEFINE f == [frame[t] EXCEPT !.sync = l, !.failed = FALSE]
<1>1. frame[t] \in Frame
  BY SMTT(60) DEF PcTypes
<1>2. /\ l \in Labels => f \in Frame
      /\ f.sync = l /\ f.mode = frame[t].mode
      /\ f.lock = frame[t].lock /\ f.call = frame[t].call
  BY <1>1, ZenonT(60) DEF Frame
<1>3. Move(t, "sy", f)
  BY SMTT(60) DEF hfs_sync
<1>4. "sy" \in Labels
  BY SMTT(60) DEF Labels
<1> HIDE DEF f
<1> QED
  BY <1>2, <1>3, <1>4, MoveFacts, SMTT(60) DEF At

\* A call of hfs_flush, which begins with hfs_lock_global.
LEMMA FlushFacts ==
    ASSUME PcTypes, NEW t \in Threads, NEW l, hfs_flush(t, l)
    PROVE  /\ Apart(t) /\ At(t, "lg", Shared, "fl", l, frame[t].sync)
           /\ l \in Labels => PcTypes'
<1> DEFINE f == [frame[t] EXCEPT !.mode = Shared, !.lock = "fl", !.call = l]
<1>1. frame[t] \in Frame
  BY SMTT(60) DEF PcTypes
<1>2. "fl" \in Labels /\ "lg" \in Labels
  BY SMTT(60) DEF Labels
<1>3. /\ l \in Labels => f \in Frame
      /\ f.mode = Shared /\ f.lock = "fl" /\ f.call = l
      /\ f.sync = frame[t].sync
  BY <1>1, <1>2, ZenonT(60) DEF Frame
<1>4. Move(t, "lg", f)
  BY SMTT(60) DEF hfs_flush
<1> HIDE DEF f
<1> QED
  BY <1>2, <1>3, <1>4, MoveFacts, SMTT(60) DEF At

\* A return with an error or without.
LEMMA ReturnFacts ==
    ASSUME PcTypes, NEW t \in Threads, NEW l, NEW b,
           Return(t, l, b)
    PROVE  /\ Apart(t) /\ (IF l = "idle" THEN Gone(t) ELSE Went(t, l))
           /\ l \in Labels /\ b \in BOOLEAN => PcTypes'
<1> DEFINE f == [frame[t] EXCEPT !.failed = b]
<1>1. frame[t] \in Frame
  BY SMTT(60) DEF PcTypes
<1>2. /\ l \in Labels /\ b \in BOOLEAN => f \in Frame
      /\ f.mode = frame[t].mode /\ f.lock = frame[t].lock
      /\ f.call = frame[t].call /\ f.sync = frame[t].sync
  BY <1>1, ZenonT(60) DEF Frame
<1>3. Move(t, l, f)
  BY SMTT(60) DEF Return
<1> HIDE DEF f
<1>4. /\ Apart(t) /\ pc'[t] = l
      /\ l \in Labels /\ b \in BOOLEAN => PcTypes'
      /\ frame'[t] = IF l = "idle" THEN NoFrame ELSE f
  BY <1>2, <1>3, MoveFacts, SMTT(60)
<1> QED
  BY <1>2, <1>4, SMTT(60) DEF Went, Gone, At, NoFrame

\* A step that wakes the sleepers of hfs_freeze.
LEMMA WakeFacts ==
    ASSUME PcTypes, NEW t \in Threads, NEW l, MoveWaking(t, l)
    PROVE  /\ Apart(t) /\ (IF l = "idle" THEN Gone(t) ELSE Went(t, l))
           /\ l \in Labels => PcTypes'
<1>1. "fz_enter" \in Labels /\ "fz_syncers" \in Labels
  BY SMTT(60) DEF Labels
<1>2. (l \in Labels => pc' \in [Threads -> Labels]) /\ pc'[t] = l
  BY <1>1, SMTT(60) DEF MoveWaking, PcTypes
<1>3. \A u \in Threads \ {t} :
        \/ pc'[u] = pc[u]
        \/ pc[u] = "fz_sleep1" /\ pc'[u] = "fz_enter"
        \/ pc[u] = "fz_sleep2" /\ pc'[u] = "fz_syncers"
  BY <1>1, SMTT(60) DEF MoveWaking, PcTypes
<1>4. (IF l = "idle" THEN NoFrame ELSE frame[t]) \in Frame
  BY NoFrameType, SMTT(60) DEF PcTypes
<1>5. /\ frame' \in [Threads -> Frame]
      /\ frame'[t] = IF l = "idle" THEN NoFrame ELSE frame[t]
      /\ \A u \in Threads \ {t} : frame'[u] = frame[u]
  BY <1>4, SMTT(60) DEF MoveWaking, PcTypes
<1> QED
  BY <1>2, <1>3, <1>5, SMTT(60) DEF PcTypes, Apart, Went, Gone, At, NoFrame

-----------------------------------------------------------------------------
(* What a step of one thread may do to each part of the invariant. *)

\* The thread stays without the lock, keeps it, gives it back or takes it.
NoLock(t) ==
    /\ UNCHANGED rw_vars
    /\ pc[t] \notin Holding \cup {"lg_get"} /\ pc'[t] \notin Holding
KeepsLock(t) ==
    /\ UNCHANGED rw_vars /\ frame'[t].mode = frame[t].mode
    /\ pc'[t] = pc[t] \/ (pc[t] \in Holding /\ pc'[t] \in Holding)
DropsLock(t) ==
    hfs_unlock_global(t) /\ pc[t] \in Holding /\ pc'[t] \notin Holding

LockEffect(t) ==
    \/ NoLock(t) \/ KeepsLock(t) \/ DropsLock(t)
    \/ GetShared(t) /\ Went(t, "lg_recheck")
    \/ WantExclusive(t) /\ Went(t, "lg_get")
    \/ GetExclusive(t) /\ Went(t, "lg_recheck")

InTx == {"st_journal", "in_tx"}

\* The thread has no transaction, enters, nests or ends one, takes or gives back the
\* journal lock for a scan, or has the global lock exclusive.
TxEffect(t) ==
    \/ /\ pc[t] # "in_tx" /\ UNCHANGED <<jnl, hfs_transaction_nesting>>
       /\ pc'[t] \in InTx => pc'[t] = "st_journal" /\ jnl /\ frame'[t].mode = Shared
       /\ \/ UNCHANGED owner
          \/ jnl /\ owner = None /\ owner' = t
          \/ jnl /\ owner = t /\ owner' = None
    \/ /\ pc[t] # "in_tx" /\ pc'[t] = "in_tx" /\ UNCHANGED jnl
       /\ hfs_transaction_nesting' = hfs_transaction_nesting + 1
       /\ \/ jnl /\ frame'[t].mode = Shared /\ owner = None /\ owner' = t
          \/ ~jnl /\ frame'[t].mode = "exclusive" /\ UNCHANGED owner
    \/ /\ pc[t] = "in_tx" /\ pc'[t] = "in_tx" /\ frame'[t].mode = frame[t].mode
       /\ hfs_transaction_nesting' \in Nat \ {0} /\ UNCHANGED <<jnl, owner>>
    \/ /\ pc[t] = "in_tx" /\ pc'[t] \notin InTx
       /\ hfs_transaction_nesting' = 0 /\ owner' = None /\ UNCHANGED jnl
    \/ /\ pc[t] # "in_tx" /\ pc'[t] \notin InTx
       /\ writer = t /\ owner' = None /\ UNCHANGED hfs_transaction_nesting

\* The journal's owner changes only for what the thread is in, or nobody scans.
OwnerEffect(t) ==
    /\ UNCHANGED scenario /\ ScanFlags(t)'
    /\ \/ /\ owner' \in {owner, None, t}
          /\ jnl' => jnl /\ (owner' = owner \/ owner \in {None, t})
       \/ "scan" \notin scenario /\ owner' = None

\* The update of the mount goes on as it was, or is the thread's own.
UpdateEffect(t) ==
    /\ UpdateOk(t)'
    /\ \/ UNCHANGED <<updater, hfs_downgrading_thread, rdonly_downgrade>>
       \/ /\ updater \in {None, t} /\ updater' \in {None, t}
          /\ hfs_downgrading_thread' \in {None, updater'}
          /\ rdonly_downgrade' => rdonly_downgrade \/ writer = t

\* The freeze goes on as it was, begins, blocks, is complete or ends.
FreezeEffect(t) ==
    \/ /\ UNCHANGED freeze_vars
       /\ Freezing(t)' <=> Freezing(t)
       /\ Wanting(t)' <=> Wanting(t)
       /\ pc'[t] \in Past => pc[t] \in Past \/ (~hfs_is_frozen(t) /\ pc[t] # "fz_done")
       /\ pc'[t] = "fz_done" => pc[t] = "fz_done" \/ writer = t
       /\ pc'[t] = "fz_freezing" => pc[t] = "fz_freezing" \/ hfs_syncers' = 0
       /\ hfs_syncers' = hfs_syncers \/ hfs_freeze_state = "THAWED" \/ hfs_syncers # 0
    \/ /\ hfs_freeze_state = "THAWED" /\ hfs_freeze_state' = "WANT_TO_FREEZE"
       /\ UNCHANGED <<hfs_freezing, hfs_syncers>>
       /\ Wanting(t)' /\ (pc'[t] = "fz_freezing" => hfs_syncers = 0)
    \/ /\ pc[t] = "fz_freezing" /\ pc'[t] = "lg" /\ Freezing(t)'
       /\ hfs_freeze_state' = "FREEZING" /\ hfs_freezing' = t /\ UNCHANGED hfs_syncers
    \/ /\ pc[t] = "fz_done" /\ pc'[t] = "idle"
       /\ hfs_freeze_state' = "FROZEN" /\ hfs_freezing' = t /\ UNCHANGED hfs_syncers
    \/ /\ hfs_freeze_state = "FROZEN" \/ Wanting(t)
       /\ hfs_thaw_locked /\ UNCHANGED hfs_syncers
       /\ ~Freezing(t)' /\ ~Wanting(t)'

\* The counters follow the threads they count.
CountEffect(t) ==
    /\ \/ hfs_syncers' = hfs_syncers /\ (Syncing(t)' <=> Syncing(t))
       \/ hfs_syncers' = hfs_syncers + 1 /\ ~Syncing(t) /\ Syncing(t)'
       \/ hfs_syncers' = hfs_syncers - 1 /\ Syncing(t) /\ ~Syncing(t)'
    /\ \/ hfs_active_threads' = hfs_active_threads /\ (Active(t)' <=> Active(t))
       \/ hfs_active_threads' = hfs_active_threads + 1 /\ ~Active(t) /\ Active(t)'
       \/ hfs_active_threads' = hfs_active_threads - 1 /\ Active(t) /\ ~Active(t)'

Effect(t) ==
    /\ Apart(t) /\ PcTypes' /\ FrameOk(t)' /\ LockEffect(t) /\ TxEffect(t)
    /\ OwnerEffect(t) /\ UpdateEffect(t) /\ FreezeEffect(t) /\ CountEffect(t)

\* What the invariant says of the thread t that makes a step.
Here(t) ==
    /\ pc[t] \in Labels /\ frame[t].mode \in {Shared, "exclusive"} /\ frame[t].lock \in Labels
    /\ frame[t].call \in Labels /\ frame[t].sync \in Labels
    /\ hfs_downgrading_thread \in {None, updater}
    /\ pc[t] \in OnlyExclusive => writer = t
    /\ pc[t] = "st_journal" => jnl /\ frame[t].mode = Shared
    /\ pc[t] = "in_tx" => IF jnl THEN owner = t /\ frame[t].mode = Shared
                                 ELSE frame[t].mode = "exclusive"
    /\ ~jnl => owner = None
    /\ hfs_transaction_nesting \in Nat
    /\ pc[t] = "in_tx" => hfs_transaction_nesting # 0
    /\ "scan" \in scenario => "enable" \notin scenario /\ "downgrade" \notin scenario
    /\ Freezing(t) => hfs_freeze_state = "FREEZING"
    /\ Wanting(t) => hfs_freeze_state = "WANT_TO_FREEZE"
    /\ Syncing(t) => hfs_syncers # 0

Ready(t) == PcTypes /\ Here(t) /\ FrameOk(t) /\ ScanFlags(t) /\ UpdateOk(t)

-----------------------------------------------------------------------------
(* Steps that leave most of this alone. *)

\* Neither a freeze nor a counter is concerned.
Steady(t) ==
    /\ UNCHANGED <<freeze_vars, hfs_syncers, hfs_active_threads>>
    /\ Freezing(t)' <=> Freezing(t)
    /\ Wanting(t)' <=> Wanting(t)
    /\ Syncing(t)' <=> Syncing(t)
    /\ Active(t)' <=> Active(t)
    /\ pc'[t] \in Past => pc[t] \in Past
    /\ pc'[t] \notin {"fz_done", "fz_freezing"}

\* No transaction and no scan of another thread is concerned.
NoTx(t) ==
    /\ UNCHANGED <<jnl, owner, hfs_transaction_nesting, scenario>>
    /\ pc[t] # "in_tx" /\ pc'[t] \notin InTx /\ ScanFlags(t)'

\* Nor an update of the mount.
NoUpdate(t) ==
    UNCHANGED <<updater, hfs_downgrading_thread, rdonly_downgrade>> /\ UpdateOk(t)'

\* Such a step is one of the cases of the effects it is not about.
LEMMA PartEffects ==
    ASSUME NEW t \in Threads
    PROVE  /\ Steady(t) => FreezeEffect(t) /\ CountEffect(t)
           /\ NoTx(t) => TxEffect(t) /\ OwnerEffect(t)
           /\ NoUpdate(t) => UpdateEffect(t)
<1>1. Steady(t) => FreezeEffect(t) /\ CountEffect(t)
  BY SMTT(60) DEF Steady, FreezeEffect, CountEffect
<1>2. NoTx(t) => TxEffect(t) /\ OwnerEffect(t)
  BY SMTT(60) DEF NoTx, TxEffect, OwnerEffect
<1>3. NoUpdate(t) => UpdateEffect(t)
  BY SMTT(60) DEF NoUpdate, UpdateEffect
<1> QED
  BY <1>1, <1>2, <1>3, Zenon

\* A step of which only the lock or the place of the thread is concerned.
LEMMA PlainEffect ==
    ASSUME NEW t \in Threads, PcTypes', Apart(t), FrameOk(t)', LockEffect(t), Steady(t),
           NoTx(t), NoUpdate(t)
    PROVE  Effect(t)
  BY PartEffects, Zenon DEF Effect

\* The locals of a thread have their types.
LEMMA Modes ==
    ASSUME PcTypes, NEW t \in Threads
    PROVE  /\ pc[t] \in Labels /\ frame[t].mode \in {Shared, "exclusive"}
           /\ frame[t].lock \in Labels /\ frame[t].call \in Labels /\ frame[t].sync \in Labels
  BY SMTT(60) DEF PcTypes, Frame

\* A step that leaves the thread where it is and what the others see alone.
LEMMA StillEffect ==
    ASSUME NEW t \in Threads, Ready(t),
           UNCHANGED <<pc, frame, freeze_vars, hfs_syncers, rw_vars, jnl_vars, updater,
                       hfs_downgrading_thread, rdonly_downgrade, scenario>>
    PROVE  Effect(t)
<1> USE SMTT(60)
<1>1. PcTypes' /\ Apart(t) /\ FrameOk(t)' /\ ScanFlags(t)' /\ UpdateOk(t)'
  BY DEF Ready, PcTypes, Apart, FrameOk, ScanFlags, Scanning, UpdateOk, InUpdate, Upgrading, Flagging
<1>2. LockEffect(t)
  BY DEF LockEffect, NoLock, KeepsLock
<1>3. FreezeEffect(t) /\ CountEffect(t)
  BY DEF FreezeEffect, CountEffect, Freezing, Wanting, Syncing, Active, InCall
<1>4. TxEffect(t) /\ OwnerEffect(t) /\ UpdateEffect(t)
  BY <1>1 DEF TxEffect, OwnerEffect, UpdateEffect, InTx, Ready, Here
<1> QED
  BY <1>1, <1>2, <1>3, <1>4 DEF Effect

=============================================================================
