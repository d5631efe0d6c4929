-------------------------- MODULE GlobalLockKept --------------------------
(***************************************************************************)
(* A step of one thread with the effects of GlobalLockFacts preserves the  *)
(* inductive invariant of GlobalLock.                                      *)
(***************************************************************************)
EXTENDS GlobalLockFacts, FiniteSetTheorems

USE DEF None, Shared, freeze_vars, rw_vars, jnl_vars, mount_vars, env_vars

\* The effects assign values of the right types, the thread's own name among them.
LEMMA TypesKept ==
    ASSUME VarTypes, PcTypes, NEW t \in Threads, LockEffect(t), TxEffect(t), OwnerEffect(t),
           UpdateEffect(t), FreezeEffect(t)
    PROVE  VarTypes'
<1> USE ZenonT(60)
<1>1. readers' \subseteq readers \cup {t} /\ writer' \in {writer, None, t} /\ want' \in {want, None, t}
  BY DEF LockEffect, NoLock, KeepsLock, DropsLock, hfs_unlock_global, GetShared, WantExclusive, GetExclusive
<1>2. hfs_global_lockowner' \in {hfs_global_lockowner, None, Shared, t}
  BY DEF LockEffect, NoLock, KeepsLock, DropsLock, hfs_unlock_global, GetShared, WantExclusive, GetExclusive
<1>3. owner' \in {owner, None, t} /\ hfs_transaction_nesting' \in Nat
  BY SMTT(60) DEF TxEffect, VarTypes
<1>4. updater' \in {updater, None, t} /\ hfs_downgrading_thread' \in {hfs_downgrading_thread, None, t}
  BY DEF UpdateEffect
<1>5. /\ hfs_freeze_state' \in {hfs_freeze_state, "THAWED", "WANT_TO_FREEZE", "FREEZING", "FROZEN"}
      /\ hfs_freezing' \in {hfs_freezing, None, t}
  BY DEF FreezeEffect, hfs_thaw_locked
<1>6. scenario' = scenario
  BY DEF OwnerEffect
<1> QED
  BY <1>1, <1>2, <1>3, <1>4, <1>5, <1>6, SMTT(60) DEF VarTypes

\* hfs_lock_global and hfs_unlock_global keep the reader-writer lock: the threads past its
\* acquisition are the ones that hold it, in the mode they asked for.
LEMMA LockKept ==
    ASSUME VarTypes, PcTypes, LockInv, NEW t \in Threads, Apart(t), LockEffect(t)
    PROVE  LockInv'
<1> USE ZenonT(60)
<1> USE ThreadAssumption
<1>1. \A u \in Threads \ {t} :
        /\ frame'[u].mode = frame[u].mode
        /\ \/ pc'[u] = pc[u]
           \/ pc[u] \notin Holding \cup {"lg_get"} /\ pc'[u] \notin Holding \cup {"lg_get"}
  BY DEF Apart, Holding, Past
<1>2. frame[t].mode \in {Shared, "exclusive"}
  BY Modes
<1>3. "lg_get" \notin Holding /\ "lg_recheck" \in Holding
  BY DEF Holding, Past
<1>4. CASE NoLock(t)
  BY <1>1, <1>4 DEF NoLock, VarTypes, LockInv
<1>5. CASE KeepsLock(t)
  BY <1>1, <1>3, <1>5 DEF KeepsLock, VarTypes, LockInv
<1>6. CASE DropsLock(t)
  <2>1. CASE frame[t].mode = Shared
    <3>1. t \in readers /\ writer = None /\ hfs_global_lockowner # t
      BY <1>6, <2>1 DEF DropsLock, VarTypes, LockInv
    <3>2. readers' = readers \ {t} /\ UNCHANGED <<writer, want, hfs_global_lockowner>>
      BY <1>6, <3>1 DEF DropsLock, hfs_unlock_global
    <3> QED
      BY <1>1, <1>3, <1>6, <3>1, <3>2 DEF DropsLock, VarTypes, LockInv
  <2>2. CASE frame[t].mode = "exclusive"
    <3>1. writer = t /\ hfs_global_lockowner = t /\ readers = {}
      BY <1>6, <2>2 DEF DropsLock, LockInv
    <3>2. writer' = None /\ hfs_global_lockowner' = None /\ UNCHANGED <<readers, want>>
      BY <1>6, <3>1 DEF DropsLock, hfs_unlock_global
    <3> QED
      BY <1>1, <1>3, <1>6, <2>2, <3>1, <3>2 DEF DropsLock, VarTypes, LockInv
  <2> QED
    BY <1>2, <2>1, <2>2
<1>7. CASE GetShared(t) /\ Went(t, "lg_recheck")
  BY <1>1, <1>3, <1>7 DEF GetShared, Went, At, VarTypes, LockInv
<1>8. CASE WantExclusive(t) /\ Went(t, "lg_get")
  BY <1>1, <1>3, <1>8 DEF WantExclusive, Went, At, VarTypes, LockInv
<1>9. CASE GetExclusive(t) /\ Went(t, "lg_recheck")
  BY <1>1, <1>3, <1>9 DEF GetExclusive, Went, At, VarTypes, LockInv
<1> QED
  BY <1>4, <1>5, <1>6, <1>7, <1>8, <1>9 DEF LockEffect

\* Nobody is past hfs_lock_global next to the thread that has the lock exclusive.
LEMMA WriterAlone ==
    ASSUME PcTypes, LockInv, NEW t \in Threads, writer = t
    PROVE  \A u \in Threads : pc[u] \in Holding => u = t
<1>1. \A u \in Threads : frame[u].mode \in {Shared, "exclusive"}
  BY Modes, ZenonT(60)
<1> QED
  BY <1>1, ThreadAssumption, ZenonT(60) DEF LockInv

\* A transaction stays its owner's: a step of another thread takes neither the journal
\* nor the global lock from it.
LEMMA TxKept ==
    ASSUME VarTypes, PcTypes, LockInv, TxInv, NEW t \in Threads, Apart(t), TxEffect(t)
    PROVE  TxInv'
<1> USE ZenonT(60)
<1>1. \A u \in Threads \ {t} :
        /\ frame'[u].mode = frame[u].mode
        /\ pc'[u] = pc[u] \/ (pc[u] \notin InTx /\ pc'[u] \notin InTx)
  BY DEF Apart, InTx
<1>2. CASE /\ pc[t] # "in_tx" /\ UNCHANGED <<jnl, hfs_transaction_nesting>>
           /\ pc'[t] \in InTx => pc'[t] = "st_journal" /\ jnl /\ frame'[t].mode = Shared
           /\ \/ UNCHANGED owner
              \/ jnl /\ owner = None /\ owner' = t
              \/ jnl /\ owner = t /\ owner' = None
  BY <1>1, <1>2, ThreadAssumption DEF TxInv, InTx
<1>3. CASE /\ pc[t] # "in_tx" /\ pc'[t] = "in_tx" /\ UNCHANGED jnl
           /\ hfs_transaction_nesting' = hfs_transaction_nesting + 1
           /\ \/ jnl /\ frame'[t].mode = Shared /\ owner = None /\ owner' = t
              \/ ~jnl /\ frame'[t].mode = "exclusive" /\ UNCHANGED owner
  BY <1>1, <1>3, ThreadAssumption, SMTT(60) DEF VarTypes, TxInv, InTx
<1>4. CASE /\ pc[t] = "in_tx" /\ pc'[t] = "in_tx" /\ frame'[t].mode = frame[t].mode
           /\ hfs_transaction_nesting' \in Nat \ {0} /\ UNCHANGED <<jnl, owner>>
  BY <1>1, <1>4, SMTT(60) DEF TxInv, InTx
<1>5. CASE /\ pc[t] = "in_tx" /\ pc'[t] \notin InTx
           /\ hfs_transaction_nesting' = 0 /\ owner' = None /\ UNCHANGED jnl
  <2>1. \A u \in Threads \ {t} : pc[u] # "in_tx"
    <3>1. CASE jnl
      BY <1>5, <3>1 DEF TxInv
    <3>2. CASE ~jnl
      BY <1>5, <3>2 DEF TxInv, LockInv, Holding, Past
    <3> QED
      BY <3>1, <3>2
  <2> QED
    BY <1>1, <1>5, <2>1, SMTT(60) DEF TxInv, InTx
<1>6. CASE /\ pc[t] # "in_tx" /\ pc'[t] \notin InTx
           /\ writer = t /\ owner' = None /\ UNCHANGED hfs_transaction_nesting
  <2>1. \A u \in Threads \ {t} : pc[u] \notin InTx
    BY <1>6, WriterAlone DEF Holding, Past, InTx
  <2> QED
    BY <1>1, <1>6, <2>1 DEF TxInv, InTx
<1> QED
  BY <1>2, <1>3, <1>4, <1>5, <1>6 DEF TxEffect

\* The journal's owner is in a transaction or in a scan, and a scan that took the journal
\* lock still has it.
LEMMA OwnerKept ==
    ASSUME OwnerInv, NEW t \in Threads, Apart(t), OwnerEffect(t)
    PROVE  OwnerInv'
<1> USE ZenonT(60)
<1> SUFFICES ASSUME NEW u \in Threads \ {t} PROVE ScanFlags(u)'
  BY DEF OwnerInv, OwnerEffect
<1>1. ScanFlags(u) /\ frame'[u] = frame[u]
  BY DEF OwnerInv, Apart
<1>2. \/ pc'[u] = pc[u]
      \/ /\ pc[u] \in {"fz_sleep1", "fz_sleep2"} /\ pc'[u] \in {"fz_enter", "fz_syncers"}
  BY DEF Apart
<1>3. scenario' = scenario /\ (Scanning(u)' <=> Scanning(u))
  BY <1>1 DEF OwnerEffect, Scanning
<1>4. owner' = u => owner = u
  BY ThreadAssumption DEF OwnerEffect
<1>5. Scanning(u) /\ jnl' => jnl /\ (owner = u => owner' = u)
  BY <1>1, ThreadAssumption DEF OwnerEffect, ScanFlags
<1> QED
  BY <1>1, <1>2, <1>3, <1>4, <1>5 DEF ScanFlags, Locking

\* One thread is in hfs_mount, and no other thread has a transaction while it has
\* HFS_RDONLY_DOWNGRADE set.
LEMMA UpdateKept ==
    ASSUME PcTypes, LockInv, UpdateInv, NEW t \in Threads, Apart(t), UpdateEffect(t)
    PROVE  UpdateInv'
<1> USE ZenonT(60)
<1>1. hfs_downgrading_thread' \in {None, updater'} /\ UpdateOk(t)'
  BY DEF UpdateInv, UpdateEffect
<1>2. ASSUME NEW u \in Threads \ {t} PROVE UpdateOk(u)'
  <2>1. UpdateOk(u) /\ frame'[u] = frame[u]
    BY DEF UpdateInv, Apart
  <2>2. pc'[u] = pc[u] \/ pc'[u] \in {"fz_enter", "fz_syncers"}
    BY DEF Apart
  <2>3. CASE UNCHANGED <<updater, hfs_downgrading_thread, rdonly_downgrade>>
    BY <2>1, <2>2, <2>3 DEF UpdateOk, InUpdate, Upgrading, Flagging, Updating
  <2>4. CASE /\ updater \in {None, t}
             /\ rdonly_downgrade' => rdonly_downgrade \/ writer = t
    <3>1. ~InUpdate(u)
      BY <2>1, <2>4, ThreadAssumption DEF UpdateOk
    <3>2. ~InUpdate(u)' /\ ~Upgrading(u)'
      BY <2>1, <2>2, <3>1 DEF InUpdate, Upgrading, Updating
    <3>3. rdonly_downgrade => pc[u] \notin InTx
      BY <2>1, <2>4, ThreadAssumption DEF UpdateOk, UpdateInv, InTx
    <3>4. writer = t => pc[u] \notin InTx
      BY WriterAlone DEF Holding, Past, InTx
    <3> QED
      BY <2>2, <2>4, <3>2, <3>3, <3>4 DEF UpdateOk, InTx
  <2> QED
    BY <2>3, <2>4 DEF UpdateEffect
<1> QED
  BY <1>1, <1>2 DEF UpdateInv

\* One thread drives the freeze, no sync is counted from FREEZING on, and nobody passes
\* hfs_lock_global once the freezing thread has been through the exclusive lock.
LEMMA FreezeKept ==
    ASSUME VarTypes, PcTypes, LockInv, FreezeInv, NEW t \in Threads, Apart(t), FreezeEffect(t)
    PROVE  FreezeInv'
<1> USE ZenonT(60)
<1>1. \A u \in Threads \ {t} :
        /\ Freezing(u)' <=> Freezing(u)
        /\ Wanting(u)' <=> Wanting(u)
        /\ pc'[u] \in Past <=> pc[u] \in Past
        /\ pc'[u] = "fz_done" <=> pc[u] = "fz_done"
        /\ pc'[u] = "fz_freezing" <=> pc[u] = "fz_freezing"
  BY DEF Apart, Freezing, Wanting, Locking, Past
<1>2. \A u \in Threads : /\ pc[u] = "fz_done" => Freezing(u) /\ ~Wanting(u)
                         /\ pc[u] = "fz_freezing" => Wanting(u)
                         /\ pc'[u] = "fz_done" => Freezing(u)' /\ ~Wanting(u)'
                         /\ pc'[u] = "fz_freezing" => Wanting(u)'
  BY DEF Freezing, Wanting
<1>3. CASE /\ UNCHANGED freeze_vars
           /\ Freezing(t)' <=> Freezing(t)
           /\ Wanting(t)' <=> Wanting(t)
           /\ pc'[t] \in Past => pc[t] \in Past \/ (~hfs_is_frozen(t) /\ pc[t] # "fz_done")
           /\ pc'[t] = "fz_done" => pc[t] = "fz_done" \/ writer = t
           /\ pc'[t] = "fz_freezing" => pc[t] = "fz_freezing" \/ hfs_syncers' = 0
           /\ hfs_syncers' = hfs_syncers \/ hfs_freeze_state = "THAWED" \/ hfs_syncers # 0
  <2>1. \A u \in Threads : /\ Freezing(u)' <=> Freezing(u)
                           /\ Wanting(u)' <=> Wanting(u)
    BY <1>1, <1>3
  <2>2. writer = t => \A u \in Threads \ {t} : pc[u] \notin Past
    BY WriterAlone DEF Holding
  <2>3. pc'[t] = "fz_done" => pc'[t] \notin Past
    BY DEF Past
  <2>4. \/ hfs_freeze_state = "FROZEN" \/ (\E u \in Threads : pc[u] = "fz_done")
        \/ pc'[t] = "fz_done" /\ writer = t
        => \A u \in Threads : pc'[u] \notin Past
    BY <1>1, <1>2, <1>3, <2>2, <2>3 DEF FreezeInv, hfs_is_frozen
  <2>5. hfs_freeze_state \in {"FREEZING", "FROZEN"}
            \/ (\E u \in Threads : pc'[u] = "fz_freezing") => hfs_syncers' = 0
    BY <1>1, <1>2, <1>3 DEF FreezeInv
  <2> QED
    BY <1>1, <1>3, <2>1, <2>4, <2>5 DEF FreezeInv
<1>4. CASE /\ hfs_freeze_state = "THAWED" /\ hfs_freeze_state' = "WANT_TO_FREEZE"
           /\ UNCHANGED <<hfs_freezing, hfs_syncers>>
           /\ Wanting(t)' /\ (pc'[t] = "fz_freezing" => hfs_syncers = 0)
  <2>1. \A u \in Threads : ~Freezing(u) /\ ~Wanting(u)
    BY <1>4 DEF FreezeInv
  <2>2. ~Freezing(t)'
    BY <1>4 DEF Freezing, Wanting, Locking
  <2> QED
    BY <1>1, <1>2, <1>4, <2>1, <2>2 DEF FreezeInv
<1>5. CASE /\ pc[t] = "fz_freezing" /\ pc'[t] = "lg" /\ Freezing(t)'
           /\ hfs_freeze_state' = "FREEZING" /\ hfs_freezing' = t /\ UNCHANGED hfs_syncers
  <2>1. \A u \in Threads : ~Freezing(u) /\ (Wanting(u) => u = t)
    BY <1>2, <1>5 DEF FreezeInv
  <2>2. ~Wanting(t)' /\ pc'[t] # "fz_done"
    BY <1>5 DEF Wanting
  <2> QED
    BY <1>1, <1>2, <1>5, <2>1, <2>2 DEF FreezeInv
<1>6. CASE /\ pc[t] = "fz_done" /\ pc'[t] = "idle"
           /\ hfs_freeze_state' = "FROZEN" /\ hfs_freezing' = t /\ UNCHANGED hfs_syncers
  <2>1. \A u \in Threads : (Freezing(u) => u = t) /\ ~Wanting(u) /\ pc[u] \notin Past
    BY <1>2, <1>6 DEF FreezeInv
  <2>2. ~Freezing(t)' /\ ~Wanting(t)' /\ pc'[t] \notin Past /\ hfs_syncers = 0
    BY <1>2, <1>6 DEF Freezing, Wanting, Locking, Past, FreezeInv
  <2> QED
    BY <1>1, <1>6, <2>1, <2>2 DEF FreezeInv
<1>7. CASE /\ hfs_freeze_state = "FROZEN" \/ Wanting(t)
           /\ hfs_thaw_locked /\ UNCHANGED hfs_syncers
           /\ ~Freezing(t)' /\ ~Wanting(t)'
  <2>1. \A u \in Threads : ~Freezing(u) /\ (Wanting(u) => u = t)
    BY <1>7 DEF FreezeInv
  <2> QED
    BY <1>1, <1>2, <1>7, <2>1 DEF FreezeInv, hfs_thaw_locked
<1> QED
  BY <1>3, <1>4, <1>5, <1>6, <1>7 DEF FreezeEffect

\* hfs_syncers and hfs_active_threads count the threads in hfs_sync and in a transaction.
LEMMA CountKept ==
    ASSUME CountInv, NEW t \in Threads, Apart(t), CountEffect(t)
    PROVE  CountInv'
<1> USE ZenonT(60)
\* A counter that goes up and down with the members of a finite set is its size.
<1>count. ASSUME NEW S, NEW T, NEW n, NEW m, IsFiniteSet(S), n = Cardinality(S),
                 \/ m = n /\ T = S
                 \/ m = n + 1 /\ t \notin S /\ T = S \cup {t}
                 \/ m = n - 1 /\ t \in S /\ T = S \ {t}
          PROVE  IsFiniteSet(T) /\ m = Cardinality(T)
  <2>1. CASE m = n /\ T = S
    BY <1>count, <2>1, ZenonT(60)
  <2>2. CASE m = n + 1 /\ t \notin S /\ T = S \cup {t}
    BY <1>count, <2>2, FS_AddElement, ZenonT(60)
  <2>3. CASE m = n - 1 /\ t \in S /\ T = S \ {t}
    BY <1>count, <2>3, FS_RemoveElement, ZenonT(60)
  <2> QED
    BY <1>count, <2>1, <2>2, <2>3, ZenonT(60)
<1> DEFINE S == {u \in Threads : Syncing(u)}
           S1 == {u \in Threads : Syncing(u)'}
           A == {u \in Threads : Active(u)}
           A1 == {u \in Threads : Active(u)'}
<1>1. \A u \in Threads \ {t} : (Syncing(u)' <=> Syncing(u)) /\ (Active(u)' <=> Active(u))
  BY DEF Apart, Syncing, Active, InCall, Locking
<1>2. \/ hfs_syncers' = hfs_syncers /\ S1 = S
      \/ hfs_syncers' = hfs_syncers + 1 /\ t \notin S /\ S1 = S \cup {t}
      \/ hfs_syncers' = hfs_syncers - 1 /\ t \in S /\ S1 = S \ {t}
  BY <1>1 DEF CountEffect
<1>3. \/ hfs_active_threads' = hfs_active_threads /\ A1 = A
      \/ hfs_active_threads' = hfs_active_threads + 1 /\ t \notin A /\ A1 = A \cup {t}
      \/ hfs_active_threads' = hfs_active_threads - 1 /\ t \in A /\ A1 = A \ {t}
  BY <1>1 DEF CountEffect
<1>4. /\ IsFiniteSet(S) /\ hfs_syncers = Cardinality(S)
      /\ IsFiniteSet(A) /\ hfs_active_threads = Cardinality(A)
  BY DEF CountInv
<1>5. IsFiniteSet(S1) /\ hfs_syncers' = Cardinality(S1)
  <2> HIDE DEF S, S1
  <2> QED
    BY <1>2, <1>4, <1>count, Zenon
<1>6. IsFiniteSet(A1) /\ hfs_active_threads' = Cardinality(A1)
  <2> HIDE DEF A, A1
  <2> QED
    BY <1>3, <1>4, <1>count, Zenon
<1> QED
  BY <1>5, <1>6 DEF CountInv

\* A step of one thread with these effects preserves the invariant.
LEMMA Keeps == ASSUME IInv, NEW t \in Threads, Effect(t) PROVE IInv'
<1>1. /\ VarTypes /\ PcTypes /\ FrameInv /\ LockInv /\ TxInv /\ OwnerInv /\ UpdateInv
      /\ FreezeInv /\ CountInv
  BY Zenon DEF IInv
<1>2. /\ Apart(t) /\ PcTypes' /\ FrameOk(t)' /\ LockEffect(t) /\ TxEffect(t)
      /\ OwnerEffect(t) /\ UpdateEffect(t) /\ FreezeEffect(t) /\ CountEffect(t)
  BY Zenon DEF Effect
\* The return points of the other threads are as they were; a wakeup does not disturb them.
<1>frame. FrameInv'
  <2> USE ZenonT(60)
  <2>1. SUFFICES ASSUME NEW u \in Threads \ {t} PROVE FrameOk(u)'
    BY <1>2 DEF FrameInv
  <2>2. FrameOk(u) /\ frame'[u] = frame[u]
    BY <1>1, <1>2 DEF FrameInv, Apart
  <2>3. pc'[u] = pc[u] \/ pc'[u] \in {"fz_enter", "fz_syncers"}
    BY <1>2 DEF Apart
  <2> QED
    BY <2>2, <2>3 DEF FrameOk, Locking, OnlyExclusive, OnlyShared
<1>3. VarTypes' /\ FrameInv'
  BY <1>1, <1>2, <1>frame, TypesKept, Zenon
<1>4. LockInv' /\ TxInv'
  BY <1>1, <1>2, LockKept, TxKept, Zenon
<1>5. OwnerInv' /\ UpdateInv'
  BY <1>1, <1>2, OwnerKept, UpdateKept, Zenon
<1>6. FreezeInv' /\ CountInv'
  BY <1>1, <1>2, FreezeKept, CountKept, Zenon
<1> QED
  BY <1>2, <1>3, <1>4, <1>5, <1>6, Zenon DEF IInv

\* What the invariant says of one thread, in the form the steps use.
LEMMA ReadyFacts == ASSUME IInv, NEW t \in Threads PROVE Ready(t)
<1> USE ZenonT(60)
<1>1. /\ VarTypes /\ PcTypes /\ FrameInv /\ LockInv /\ TxInv /\ OwnerInv /\ UpdateInv
      /\ FreezeInv /\ CountInv
  BY Zenon DEF IInv
<1>2. /\ pc[t] \in Labels /\ frame[t].mode \in {Shared, "exclusive"} /\ frame[t].lock \in Labels
      /\ frame[t].call \in Labels /\ frame[t].sync \in Labels
  BY <1>1, Modes
<1>3. FrameOk(t) /\ ScanFlags(t) /\ UpdateOk(t) /\ hfs_downgrading_thread \in {None, updater}
  BY <1>1 DEF FrameInv, OwnerInv, UpdateInv
<1>4. pc[t] \in OnlyExclusive => writer = t
  BY <1>1, <1>3 DEF LockInv, FrameOk, OnlyExclusive, Holding, Past
<1>5. /\ pc[t] = "st_journal" => jnl /\ frame[t].mode = Shared
      /\ pc[t] = "in_tx" => IF jnl THEN owner = t /\ frame[t].mode = Shared
                                   ELSE frame[t].mode = "exclusive"
      /\ pc[t] = "in_tx" => hfs_transaction_nesting # 0
      /\ ~jnl => owner = None
  BY <1>1, SMTT(60) DEF TxInv
<1>6. /\ hfs_transaction_nesting \in Nat
      /\ "scan" \in scenario => "enable" \notin scenario /\ "downgrade" \notin scenario
  BY <1>1, ScanAssumption DEF VarTypes
<1>7. /\ Freezing(t) => hfs_freeze_state = "FREEZING"
      /\ Wanting(t) => hfs_freeze_state = "WANT_TO_FREEZE"
  BY <1>1 DEF FreezeInv
<1>8. Syncing(t) => hfs_syncers # 0
  BY <1>1, FS_EmptySet DEF CountInv
<1> QED
  BY <1>1, <1>2, <1>3, <1>4, <1>5, <1>6, <1>7, <1>8 DEF Ready, Here
=============================================================================
