-------------------------- MODULE GlobalLockSteps --------------------------
(***************************************************************************)
(* Every action of GlobalLock has one of the effects of GlobalLockFacts on *)
(* each part of the invariant.  One lemma per group of actions, and in it  *)
(* one step per action and way through it: where the action leads, then    *)
(* the parts of Effect that follow at once, then those it really concerns. *)
(***************************************************************************)
EXTENDS GlobalLockFacts

USE DEF None, Shared, freeze_vars, rw_vars, jnl_vars, mount_vars, env_vars
USE DEF FrameOk, ScanFlags, UpdateOk, Locking, Holding, Past, OnlyExclusive, OnlyShared,
        Calls, Syncs, Scanning, InTx, Updating, InUpdate, Upgrading, Flagging, Freezing,
        Wanting, InCall, Syncing, Active

\* A thread that calls into the file system has one of the effects on each part of the
\* invariant: BeginTx to BeginScan.
LEMMA BeginEffect ==
    ASSUME NEW t \in Threads, Ready(t), Begin(t)
    PROVE  Effect(t)
<1> USE ZenonT(60)
<1>p. PcTypes
  BY DEF Ready
<1>h. Here(t)
  BY DEF Ready
<1>f. FrameOk(t)
  BY DEF Ready
<1>s. ScanFlags(t) /\ UpdateOk(t)
  BY DEF Ready
<1>1. ASSUME BeginTx(t) PROVE Effect(t)
  <2>1. /\ PcTypes' /\ Apart(t) /\ pc[t] = "idle"
        /\ At(t, "st", frame[t].mode, frame[t].lock, "idle", frame[t].sync)
    BY <1>1, <1>p, StartFacts, LabelFacts DEF BeginTx, CanBegin
  <2>2. FrameOk(t)' /\ NoLock(t) /\ Steady(t) /\ NoTx(t) /\ NoUpdate(t)
    BY <1>1, <2>1, <1>f, <1>s DEF BeginTx, CanBegin, At, NoLock, Steady, NoTx, NoUpdate
  <2> QED
    BY <2>1, <2>2, PlainEffect DEF LockEffect
<1>2. ASSUME BeginSync(t) PROVE Effect(t)
  <2>1. /\ PcTypes' /\ Apart(t) /\ pc[t] = "idle"
        /\ At(t, "sy", frame[t].mode, frame[t].lock, frame[t].call, "idle")
    BY <1>2, <1>p, SyncFacts, LabelFacts DEF BeginSync, CanBegin
  <2>2. FrameOk(t)' /\ NoLock(t) /\ Steady(t) /\ NoTx(t) /\ NoUpdate(t)
    BY <1>2, <2>1, <1>f, <1>s DEF BeginSync, CanBegin, At, NoLock, Steady, NoTx, NoUpdate
  <2> QED
    BY <2>1, <2>2, PlainEffect DEF LockEffect
<1>3. ASSUME BeginFreeze(t) PROVE Effect(t)
  <2>1. /\ PcTypes' /\ Apart(t) /\ pc[t] = "idle"
        /\ Went(t, "fz_enter")
    BY <1>3, <1>p, GotoFacts, LabelFacts DEF BeginFreeze, CanBegin
  <2>2. FrameOk(t)' /\ NoLock(t) /\ Steady(t) /\ NoTx(t) /\ NoUpdate(t)
    BY <1>3, <2>1, <1>f, <1>s DEF BeginFreeze, CanBegin, At, Went, NoLock, Steady, NoTx,
         NoUpdate
  <2> QED
    BY <2>1, <2>2, PlainEffect DEF LockEffect
<1>4. ASSUME BeginDowngrade(t) PROVE Effect(t)
  <2>1. /\ PcTypes' /\ Apart(t) /\ pc[t] = "idle"
        /\ At(t, "lg", "exclusive", "dg_flag", frame[t].call, frame[t].sync)
    BY <1>4, <1>p, LockFacts, LabelFacts DEF BeginDowngrade, CanBegin
  <2>2. FrameOk(t)' /\ NoLock(t) /\ Steady(t) /\ NoTx(t)
    BY <1>4, <2>1, <1>f, <1>s DEF BeginDowngrade, CanBegin, At, NoLock, Steady, NoTx
  <2>3. UpdateEffect(t)
    BY <1>4, <2>1, <1>h, <1>f, <1>s, ThreadAssumption DEF BeginDowngrade, CanBegin, At,
         UpdateEffect, Here
  <2> QED
    BY <2>1, <2>2, <2>3, PartEffects DEF Effect, LockEffect
<1>5. ASSUME BeginUpgrade(t), journaled /\ ~jnl PROVE Effect(t)
  <2>1. /\ PcTypes' /\ Apart(t) /\ pc[t] = "idle"
        /\ At(t, "lg", "exclusive", "up_open", frame[t].call, frame[t].sync)
    BY <1>5, <1>p, LockFacts, LabelFacts DEF BeginUpgrade, CanBegin
  <2>2. FrameOk(t)' /\ NoLock(t) /\ Steady(t) /\ NoTx(t)
    BY <1>5, <2>1, <1>f, <1>s DEF BeginUpgrade, CanBegin, At, NoLock, Steady, NoTx
  <2>3. UpdateEffect(t)
    BY <1>5, <2>1, <1>h, <1>f, <1>s, ThreadAssumption DEF BeginUpgrade, CanBegin, At,
         UpdateEffect, Here
  <2> QED
    BY <2>1, <2>2, <2>3, PartEffects DEF Effect, LockEffect
<1>6. ASSUME BeginUpgrade(t), ~(journaled /\ ~jnl) PROVE Effect(t)
  <2>1. /\ PcTypes' /\ Apart(t) /\ pc[t] = "idle"
        /\ Went(t, "up_done")
    BY <1>6, <1>p, GotoFacts, LabelFacts DEF BeginUpgrade, CanBegin
  <2>2. FrameOk(t)' /\ NoLock(t) /\ Steady(t) /\ NoTx(t)
    BY <1>6, <2>1, <1>f, <1>s DEF BeginUpgrade, CanBegin, At, Went, NoLock, Steady, NoTx
  <2>3. UpdateEffect(t)
    BY <1>6, <2>1, <1>h, <1>f, <1>s, ThreadAssumption DEF BeginUpgrade, CanBegin, At, Went,
         UpdateEffect, Here
  <2> QED
    BY <2>1, <2>2, <2>3, PartEffects DEF Effect, LockEffect
<1>7. ASSUME BeginDisable(t) PROVE Effect(t)
  <2>1. /\ PcTypes' /\ Apart(t) /\ pc[t] = "idle"
        /\ At(t, "lg", "exclusive", "di_close", frame[t].call, frame[t].sync)
    BY <1>7, <1>p, LockFacts, LabelFacts DEF BeginDisable, CanBegin
  <2>2. FrameOk(t)' /\ NoLock(t) /\ Steady(t) /\ NoTx(t) /\ NoUpdate(t)
    BY <1>7, <2>1, <1>f, <1>s DEF BeginDisable, CanBegin, At, NoLock, Steady, NoTx, NoUpdate
  <2> QED
    BY <2>1, <2>2, PlainEffect DEF LockEffect
<1>8. ASSUME BeginEnable(t) PROVE Effect(t)
  <2>1. /\ PcTypes' /\ Apart(t) /\ pc[t] = "idle"
        /\ At(t, "sy", frame[t].mode, frame[t].lock, frame[t].call, "en_create")
    BY <1>8, <1>p, SyncFacts, LabelFacts DEF BeginEnable, CanBegin
  <2>2. FrameOk(t)' /\ NoLock(t) /\ Steady(t) /\ NoTx(t) /\ NoUpdate(t)
    BY <1>8, <2>1, <1>f, <1>s DEF BeginEnable, CanBegin, At, NoLock, Steady, NoTx, NoUpdate
  <2> QED
    BY <2>1, <2>2, PlainEffect DEF LockEffect
<1>9. ASSUME BeginScan(t) PROVE Effect(t)
  <2>1. /\ PcTypes' /\ Apart(t) /\ pc[t] = "idle"
        /\ At(t, "lg", Shared, "jl", frame[t].call, frame[t].sync)
    BY <1>9, <1>p, LockFacts, LabelFacts DEF BeginScan, CanBegin
  <2>2. FrameOk(t)' /\ NoLock(t) /\ Steady(t) /\ NoTx(t) /\ NoUpdate(t)
    BY <1>9, <2>1, <1>f, <1>s DEF BeginScan, CanBegin, At, NoLock, Steady, NoTx, NoUpdate
  <2> QED
    BY <2>1, <2>2, PlainEffect DEF LockEffect
<1> QED
  BY <1>1, <1>2, <1>3, <1>4, <1>5, <1>6, <1>7, <1>8, <1>9 DEF Begin

\* hfs_lock_global: the look at the freeze, the wait for it, the lock itself in both
\* modes and the second look that lets go of it again.
LEMMA LockActionsEffect ==
    ASSUME NEW t \in Threads, Ready(t), LockActions(t)
    PROVE  Effect(t)
<1> USE ZenonT(60)
<1>p. PcTypes
  BY DEF Ready
<1>h. Here(t)
  BY DEF Ready
<1>f. FrameOk(t)
  BY DEF Ready
<1>s. ScanFlags(t) /\ UpdateOk(t)
  BY DEF Ready
<1>1. ASSUME LockCheck(t), hfs_is_frozen(t) PROVE Effect(t)
  <2>1. /\ PcTypes' /\ Apart(t) /\ pc[t] = "lg"
        /\ Went(t, "lg_frozen")
    BY <1>1, <1>p, GotoFacts, LabelFacts DEF LockCheck
  <2>2. FrameOk(t)' /\ NoLock(t) /\ Steady(t)
    BY <1>1, <2>1, <1>f DEF LockCheck, At, Went, NoLock, Steady
  <2>3. NoTx(t) /\ NoUpdate(t)
    BY <1>1, <2>1, <1>s DEF LockCheck, At, Went, NoTx, NoUpdate
  <2> QED
    BY <2>1, <2>2, <2>3, PlainEffect DEF LockEffect
<1>2. ASSUME LockCheck(t), ~hfs_is_frozen(t) PROVE Effect(t)
  <2>1. /\ PcTypes' /\ Apart(t) /\ pc[t] = "lg"
        /\ Went(t, "lg_get")
    BY <1>2, <1>p, GotoFacts, LabelFacts DEF LockCheck
  <2>2. FrameOk(t)' /\ NoLock(t) /\ Steady(t)
    BY <1>2, <2>1, <1>f DEF LockCheck, At, Went, NoLock, Steady
  <2>3. NoTx(t) /\ NoUpdate(t)
    BY <1>2, <2>1, <1>s DEF LockCheck, At, Went, NoTx, NoUpdate
  <2> QED
    BY <2>1, <2>2, <2>3, PlainEffect DEF LockEffect
<1>3. ASSUME LockFrozen(t), ~hfs_is_frozen(t) PROVE Effect(t)
  <2>1. /\ PcTypes' /\ Apart(t) /\ pc[t] = "lg_frozen"
        /\ Went(t, "lg_get")
    BY <1>3, <1>p, GotoFacts, LabelFacts DEF LockFrozen, hfs_is_frozen, FreezerExits
  <2>2. FrameOk(t)' /\ NoLock(t) /\ Steady(t)
    BY <1>3, <2>1, <1>f DEF LockFrozen, hfs_is_frozen, FreezerExits, At, Went, NoLock,
         Steady
  <2>3. NoTx(t) /\ NoUpdate(t)
    BY <1>3, <2>1, <1>s DEF LockFrozen, hfs_is_frozen, FreezerExits, At, Went, NoTx,
         NoUpdate
  <2> QED
    BY <2>1, <2>2, <2>3, PlainEffect DEF LockEffect
<1>4. ASSUME LockFrozen(t), hfs_is_frozen(t) /\ FreezerExits PROVE Effect(t)
  <2>1. /\ PcTypes' /\ Apart(t) /\ pc[t] = "lg_frozen"
        /\ Went(t, "lg_get")
    BY <1>4, <1>p, WakeFacts, LabelFacts DEF LockFrozen
  <2>2. FrameOk(t)' /\ NoLock(t)
    BY <1>4, <2>1, <1>f DEF LockFrozen, FreezerExits, At, Went, NoLock
  <2>3. NoTx(t) /\ NoUpdate(t)
    BY <1>4, <2>1, <1>s DEF LockFrozen, FreezerExits, At, Went, NoTx, NoUpdate
  <2>4. FreezeEffect(t) /\ CountEffect(t)
    BY <1>4, <2>1, <1>h, <1>f, <1>s, ThreadAssumption DEF LockFrozen, FreezerExits, At,
         Went, FreezeEffect, CountEffect, Here, hfs_is_frozen
  <2> QED
    BY <2>1, <2>2, <2>3, <2>4, PartEffects DEF Effect, LockEffect
<1>5. ASSUME LockFrozen(t), hfs_is_frozen(t) /\ ~FreezerExits PROVE Effect(t)
  BY <1>5, StillEffect DEF LockFrozen
<1>6. ASSUME GetShared(t) PROVE Effect(t)
  <2>1. /\ PcTypes' /\ Apart(t) /\ pc[t] = "lg_get"
        /\ Went(t, "lg_recheck")
    BY <1>6, <1>p, GotoFacts, LabelFacts DEF GetShared
  <2>2. FrameOk(t)' /\ LockEffect(t) /\ Steady(t)
    BY <1>6, <2>1, <1>f DEF GetShared, At, Went, LockEffect, Steady
  <2>3. NoTx(t) /\ NoUpdate(t)
    BY <1>6, <2>1, <1>s DEF GetShared, At, Went, NoTx, NoUpdate
  <2> QED
    BY <2>1, <2>2, <2>3, PlainEffect
<1>7. ASSUME WantExclusive(t) PROVE Effect(t)
  <2>1. /\ PcTypes' /\ Apart(t) /\ pc[t] = "lg_get"
        /\ Went(t, "lg_get")
    BY <1>7, <1>p DEF WantExclusive, PcTypes, Apart, Went, At
  <2>2. FrameOk(t)' /\ LockEffect(t) /\ Steady(t) /\ NoTx(t) /\ NoUpdate(t)
    BY <1>7, <2>1, <1>f, <1>s DEF WantExclusive, At, Went, LockEffect, Steady, NoTx,
         NoUpdate
  <2> QED
    BY <2>1, <2>2, PlainEffect
<1>8. ASSUME GetExclusive(t) PROVE Effect(t)
  <2>1. /\ PcTypes' /\ Apart(t) /\ pc[t] = "lg_get"
        /\ Went(t, "lg_recheck")
    BY <1>8, <1>p, GotoFacts, LabelFacts DEF GetExclusive
  <2>2. FrameOk(t)' /\ LockEffect(t) /\ Steady(t)
    BY <1>8, <2>1, <1>f DEF GetExclusive, At, Went, LockEffect, Steady
  <2>3. NoTx(t) /\ NoUpdate(t)
    BY <1>8, <2>1, <1>s DEF GetExclusive, At, Went, NoTx, NoUpdate
  <2> QED
    BY <2>1, <2>2, <2>3, PlainEffect
<1>9. ASSUME LockRecheck(t), hfs_is_frozen(t) PROVE Effect(t)
  <2>1. /\ PcTypes' /\ Apart(t) /\ pc[t] = "lg_recheck"
        /\ Went(t, "lg_frozen")
    BY <1>9, <1>p, GotoFacts, LabelFacts DEF LockRecheck
  <2>2. FrameOk(t)' /\ DropsLock(t) /\ Steady(t)
    BY <1>9, <2>1, <1>f DEF LockRecheck, At, Went, DropsLock, Steady
  <2>3. NoTx(t) /\ NoUpdate(t)
    BY <1>9, <2>1, <1>s DEF LockRecheck, At, Went, NoTx, NoUpdate
  <2> QED
    BY <2>1, <2>2, <2>3, PlainEffect DEF LockEffect
<1>10. ASSUME LockRecheck(t), ~hfs_is_frozen(t) PROVE Effect(t)
  <2>1. /\ PcTypes' /\ Apart(t) /\ pc[t] = "lg_recheck"
        /\ Went(t, frame[t].lock)
    BY <1>10, <1>p, <1>h, <1>f, GotoFacts, LabelFacts DEF LockRecheck, Here
  <2>2. FrameOk(t)' /\ KeepsLock(t)
    BY <1>10, <2>1, <1>f DEF LockRecheck, At, Went, KeepsLock
  <2>3. NoTx(t) /\ NoUpdate(t)
    BY <1>10, <2>1, <1>f, <1>s DEF LockRecheck, At, Went, NoTx, NoUpdate
  <2>4. FreezeEffect(t) /\ CountEffect(t)
    BY <1>10, <2>1, <1>h, <1>f, <1>s, ThreadAssumption DEF LockRecheck, At, Went,
         FreezeEffect, CountEffect, Here, hfs_is_frozen
  <2> QED
    BY <2>1, <2>2, <2>3, <2>4, PartEffects DEF Effect, LockEffect
<1> QED
  BY <1>1, <1>2, <1>3, <1>4, <1>5, <1>6, <1>7, <1>8, <1>9, <1>10 DEF LockActions

\* hfs_start_transaction and hfs_end_transaction, with and without a journal, and the
\* calls they return to.
LEMMA TxActionsEffect ==
    ASSUME NEW t \in Threads, Ready(t), TxActions(t)
    PROVE  Effect(t)
<1> USE ZenonT(60)
<1>p. PcTypes
  BY DEF Ready
<1>h. Here(t)
  BY DEF Ready
<1>f. FrameOk(t)
  BY DEF Ready
<1>s. ScanFlags(t) /\ UpdateOk(t)
  BY DEF Ready
<1>1. ASSUME StartLook(t), jnl PROVE Effect(t)
  <2>1. /\ PcTypes' /\ Apart(t) /\ pc[t] = "st"
        /\ At(t, "lg", Shared, "st_locked", frame[t].call, frame[t].sync)
    BY <1>1, <1>p, LockFacts, LabelFacts DEF StartLook
  <2>2. FrameOk(t)' /\ NoLock(t) /\ Steady(t) /\ NoTx(t) /\ NoUpdate(t)
    BY <1>1, <2>1, <1>f, <1>s DEF StartLook, At, NoLock, Steady, NoTx, NoUpdate
  <2> QED
    BY <2>1, <2>2, PlainEffect DEF LockEffect
<1>2. ASSUME StartLook(t), ~jnl PROVE Effect(t)
  <2>1. /\ PcTypes' /\ Apart(t) /\ pc[t] = "st"
        /\ At(t, "lg", "exclusive", "st_locked", frame[t].call, frame[t].sync)
    BY <1>2, <1>p, LockFacts, LabelFacts DEF StartLook
  <2>2. FrameOk(t)' /\ NoLock(t) /\ Steady(t) /\ NoTx(t) /\ NoUpdate(t)
    BY <1>2, <2>1, <1>f, <1>s DEF StartLook, At, NoLock, Steady, NoTx, NoUpdate
  <2> QED
    BY <2>1, <2>2, PlainEffect DEF LockEffect
<1>3. ASSUME StartLocked(t), JournalChanged(t) PROVE Effect(t)
  <2>1. /\ PcTypes' /\ Apart(t) /\ pc[t] = "st_locked"
        /\ Went(t, "st")
    BY <1>3, <1>p, GotoFacts, LabelFacts DEF StartLocked
  <2>2. FrameOk(t)' /\ DropsLock(t) /\ Steady(t) /\ NoTx(t) /\ NoUpdate(t)
    BY <1>3, <2>1, <1>f, <1>s DEF StartLocked, At, Went, DropsLock, Steady, NoTx, NoUpdate
  <2> QED
    BY <2>1, <2>2, PlainEffect DEF LockEffect
<1>4. ASSUME StartLocked(t), ~JournalChanged(t) /\ RefusedReadOnly(t) /\ frame[t].call = "idle"
      PROVE  Effect(t)
  <2>1. /\ PcTypes' /\ Apart(t) /\ pc[t] = "st_locked"
        /\ Gone(t)
    BY <1>4, <1>p, <1>h, ReturnFacts, LabelFacts DEF StartLocked, StartFails, Here
  <2>2. FrameOk(t)' /\ DropsLock(t) /\ Steady(t) /\ NoTx(t) /\ NoUpdate(t)
    BY <1>4, <2>1, <1>f, <1>s DEF StartLocked, At, Gone, DropsLock, Steady, NoTx, NoUpdate
  <2> QED
    BY <2>1, <2>2, PlainEffect DEF LockEffect
<1>5. ASSUME StartLocked(t), ~JournalChanged(t) /\ RefusedReadOnly(t) /\ frame[t].call # "idle"
      PROVE  Effect(t)
  <2>1. /\ PcTypes' /\ Apart(t) /\ pc[t] = "st_locked"
        /\ Went(t, frame[t].call)
    BY <1>5, <1>p, <1>h, ReturnFacts, LabelFacts DEF StartLocked, StartFails, Here
  <2>2. FrameOk(t)' /\ DropsLock(t) /\ Steady(t) /\ NoTx(t) /\ NoUpdate(t)
    BY <1>5, <2>1, <1>f, <1>s DEF StartLocked, At, Went, DropsLock, Steady, NoTx, NoUpdate
  <2> QED
    BY <2>1, <2>2, PlainEffect DEF LockEffect
<1>6. ASSUME StartLocked(t), ~JournalChanged(t) /\ ~RefusedReadOnly(t) /\ jnl PROVE Effect(t)
  <2>1. /\ PcTypes' /\ Apart(t) /\ pc[t] = "st_locked"
        /\ Went(t, "st_journal")
    BY <1>6, <1>p, GotoFacts, LabelFacts DEF StartLocked
  <2>2. FrameOk(t)' /\ KeepsLock(t) /\ NoUpdate(t)
    BY <1>6, <2>1, <1>f, <1>s DEF StartLocked, JournalChanged, RefusedReadOnly, At, Went,
         KeepsLock, NoUpdate
  <2>3. FreezeEffect(t) /\ CountEffect(t)
    BY <1>6, <2>1, <1>h, <1>f, <1>s, ThreadAssumption DEF StartLocked, JournalChanged,
         RefusedReadOnly, At, Went, FreezeEffect, CountEffect, Here, hfs_is_frozen
  <2>4. TxEffect(t) /\ OwnerEffect(t)
    BY <1>6, <2>1, <1>h, <1>f, <1>s, ThreadAssumption DEF StartLocked, JournalChanged,
         RefusedReadOnly, At, Went, TxEffect, OwnerEffect, Here
  <2> QED
    BY <2>1, <2>2, <2>3, <2>4, PartEffects DEF Effect, LockEffect
<1>7. ASSUME StartLocked(t), ~JournalChanged(t) /\ ~RefusedReadOnly(t) /\ ~jnl PROVE Effect(t)
  <2>1. /\ PcTypes' /\ Apart(t) /\ pc[t] = "st_locked"
        /\ Went(t, "in_tx")
    BY <1>7, <1>p, GotoFacts, LabelFacts DEF StartLocked
  <2>2. FrameOk(t)' /\ KeepsLock(t) /\ NoUpdate(t)
    BY <1>7, <2>1, <1>f, <1>s DEF StartLocked, JournalChanged, RefusedReadOnly, At, Went,
         KeepsLock, NoUpdate
  <2>3. FreezeEffect(t) /\ CountEffect(t)
    BY <1>7, <2>1, <1>h, <1>f, <1>s, ThreadAssumption DEF StartLocked, JournalChanged,
         RefusedReadOnly, At, Went, FreezeEffect, CountEffect, Here, hfs_is_frozen
  <2>4. TxEffect(t) /\ OwnerEffect(t)
    BY <1>7, <2>1, <1>h, <1>f, <1>s, ThreadAssumption DEF StartLocked, JournalChanged,
         RefusedReadOnly, At, Went, TxEffect, OwnerEffect, Here
  <2> QED
    BY <2>1, <2>2, <2>3, <2>4, PartEffects DEF Effect, LockEffect
<1>8. ASSUME StartJournal(t), owner' # owner PROVE Effect(t)
  <2>1. /\ PcTypes' /\ Apart(t) /\ pc[t] = "st_journal"
        /\ Went(t, "in_tx")
    BY <1>8, <1>p, GotoFacts, LabelFacts DEF StartJournal
  <2>2. FrameOk(t)' /\ KeepsLock(t) /\ Steady(t) /\ NoUpdate(t)
    BY <1>8, <2>1, <1>f, <1>s DEF StartJournal, At, Went, KeepsLock, Steady, NoUpdate
  <2>3. TxEffect(t) /\ OwnerEffect(t)
    BY <1>8, <2>1, <1>h, <1>f, <1>s, ThreadAssumption DEF StartJournal, At, Went, TxEffect,
         OwnerEffect, Here
  <2> QED
    BY <2>1, <2>2, <2>3, PartEffects DEF Effect, LockEffect
<1>9. ASSUME StartJournal(t), owner' = owner /\ frame[t].call = "idle" PROVE Effect(t)
  <2>1. /\ PcTypes' /\ Apart(t) /\ pc[t] = "st_journal"
        /\ Gone(t)
    BY <1>9, <1>p, <1>h, ReturnFacts, ThreadAssumption, LabelFacts DEF StartJournal,
         StartFails, Here
  <2>2. FrameOk(t)' /\ DropsLock(t) /\ NoTx(t) /\ NoUpdate(t)
    BY <1>9, <2>1, <1>f, <1>s, ThreadAssumption DEF StartJournal, At, Gone, DropsLock, NoTx,
         NoUpdate
  <2>3. FreezeEffect(t) /\ CountEffect(t)
    BY <1>9, <2>1, <1>h, <1>f, <1>s, ThreadAssumption DEF StartJournal, At, Gone,
         FreezeEffect, CountEffect, Here, hfs_is_frozen
  <2> QED
    BY <2>1, <2>2, <2>3, PartEffects DEF Effect, LockEffect
<1>10. ASSUME StartJournal(t), owner' = owner /\ frame[t].call # "idle" PROVE Effect(t)
  <2>1. /\ PcTypes' /\ Apart(t) /\ pc[t] = "st_journal"
        /\ Went(t, frame[t].call)
    BY <1>10, <1>p, <1>h, ReturnFacts, ThreadAssumption, LabelFacts DEF StartJournal,
         StartFails, Here
  <2>2. FrameOk(t)' /\ DropsLock(t) /\ NoTx(t) /\ NoUpdate(t)
    BY <1>10, <2>1, <1>f, <1>s, ThreadAssumption DEF StartJournal, At, Went, DropsLock,
         NoTx, NoUpdate
  <2>3. FreezeEffect(t) /\ CountEffect(t)
    BY <1>10, <2>1, <1>h, <1>f, <1>s, ThreadAssumption DEF StartJournal, At, Went,
         FreezeEffect, CountEffect, Here, hfs_is_frozen
  <2> QED
    BY <2>1, <2>2, <2>3, PartEffects DEF Effect, LockEffect
<1>11. ASSUME EndNested(t) PROVE Effect(t)
  <2>1. /\ PcTypes' /\ Apart(t) /\ pc[t] = "in_tx"
        /\ Went(t, "in_tx")
    BY <1>11, <1>p DEF EndNested, PcTypes, Apart, Went, At
  <2>2. FrameOk(t)' /\ KeepsLock(t) /\ Steady(t) /\ NoUpdate(t)
    BY <1>11, <2>1, <1>f, <1>s DEF EndNested, At, Went, KeepsLock, Steady, NoUpdate
  <2>3. TxEffect(t)
    BY <1>11, <2>1, <1>h, SMTT(60) DEF EndNested, At, Went, TxEffect, Here, EndAsserts
  <2>4. OwnerEffect(t)
    BY <1>11, <2>1, <1>h, <1>f, <1>s DEF EndNested, At, Went, OwnerEffect, Here
  <2> QED
    BY <2>1, <2>2, <2>3, <2>4, PartEffects DEF Effect, LockEffect
<1>12. ASSUME EndOuter(t) PROVE Effect(t)
  <2>1. /\ PcTypes' /\ Apart(t) /\ pc[t] = "in_tx"
        /\ Went(t, "et_unlock")
    BY <1>12, <1>p, GotoFacts, LabelFacts DEF EndOuter
  <2>2. FrameOk(t)' /\ KeepsLock(t) /\ Steady(t) /\ NoUpdate(t)
    BY <1>12, <2>1, <1>f, <1>s DEF EndOuter, At, Went, KeepsLock, Steady, NoUpdate
  <2>3. TxEffect(t) /\ OwnerEffect(t)
    BY <1>12, <2>1, <1>h, <1>f, <1>s, ThreadAssumption DEF EndOuter, At, Went, TxEffect,
         OwnerEffect, Here
  <2> QED
    BY <2>1, <2>2, <2>3, PartEffects DEF Effect, LockEffect
<1>13. ASSUME EndUnlock(t), frame[t].call = "idle" PROVE Effect(t)
  <2>1. /\ PcTypes' /\ Apart(t) /\ pc[t] = "et_unlock"
        /\ Gone(t)
    BY <1>13, <1>p, <1>h, GotoFacts, LabelFacts DEF EndUnlock, Here
  <2>2. FrameOk(t)' /\ DropsLock(t) /\ NoTx(t) /\ NoUpdate(t)
    BY <1>13, <2>1, <1>f, <1>s DEF EndUnlock, At, Gone, DropsLock, NoTx, NoUpdate
  <2>3. FreezeEffect(t) /\ CountEffect(t)
    BY <1>13, <2>1, <1>h, <1>f, <1>s, ThreadAssumption DEF EndUnlock, At, Gone,
         FreezeEffect, CountEffect, Here, hfs_is_frozen
  <2> QED
    BY <2>1, <2>2, <2>3, PartEffects DEF Effect, LockEffect
<1>14. ASSUME EndUnlock(t), frame[t].call # "idle" PROVE Effect(t)
  <2>1. /\ PcTypes' /\ Apart(t) /\ pc[t] = "et_unlock"
        /\ Went(t, frame[t].call)
    BY <1>14, <1>p, <1>h, GotoFacts, LabelFacts DEF EndUnlock, Here
  <2>2. FrameOk(t)' /\ DropsLock(t) /\ NoTx(t) /\ NoUpdate(t)
    BY <1>14, <2>1, <1>f, <1>s DEF EndUnlock, At, Went, DropsLock, NoTx, NoUpdate
  <2>3. FreezeEffect(t) /\ CountEffect(t)
    BY <1>14, <2>1, <1>h, <1>f, <1>s, ThreadAssumption DEF EndUnlock, At, Went,
         FreezeEffect, CountEffect, Here, hfs_is_frozen
  <2> QED
    BY <2>1, <2>2, <2>3, PartEffects DEF Effect, LockEffect
<1> QED
  BY <1>1, <1>2, <1>3, <1>4, <1>5, <1>6, <1>7, <1>8, <1>9, <1>10, <1>11, <1>12, <1>13, <1>14
       DEF TxActions

\* hfs_sync, which backs off from a freeze or is counted, and hfs_flush.
LEMMA SyncActionsEffect ==
    ASSUME NEW t \in Threads, Ready(t), SyncActions(t)
    PROVE  Effect(t)
<1> USE ZenonT(60)
<1>p. PcTypes
  BY DEF Ready
<1>h. Here(t)
  BY DEF Ready
<1>f. FrameOk(t)
  BY DEF Ready
<1>s. ScanFlags(t) /\ UpdateOk(t)
  BY DEF Ready
<1>1. ASSUME SyncEnter(t), (FreezeUnderway \/ read_only) /\ frame[t].sync = "idle" PROVE Effect(t)
  <2>1. /\ PcTypes' /\ Apart(t) /\ pc[t] = "sy"
        /\ Gone(t)
    BY <1>1, <1>p, <1>h, ReturnFacts, LabelFacts DEF SyncEnter, Here
  <2>2. FrameOk(t)' /\ NoLock(t) /\ Steady(t)
    BY <1>1, <2>1, <1>f DEF SyncEnter, At, Gone, NoLock, Steady
  <2>3. NoTx(t) /\ NoUpdate(t)
    BY <1>1, <2>1, <1>s DEF SyncEnter, At, Gone, NoTx, NoUpdate
  <2> QED
    BY <2>1, <2>2, <2>3, PlainEffect DEF LockEffect
<1>2. ASSUME SyncEnter(t), (FreezeUnderway \/ read_only) /\ frame[t].sync # "idle" PROVE Effect(t)
  <2>1. /\ PcTypes' /\ Apart(t) /\ pc[t] = "sy"
        /\ Went(t, frame[t].sync)
    BY <1>2, <1>p, <1>h, ReturnFacts, LabelFacts DEF SyncEnter, Here
  <2>2. FrameOk(t)' /\ NoLock(t) /\ Steady(t)
    BY <1>2, <2>1, <1>f DEF SyncEnter, At, Went, NoLock, Steady
  <2>3. NoTx(t) /\ NoUpdate(t)
    BY <1>2, <2>1, <1>f, <1>s DEF SyncEnter, At, Went, NoTx, NoUpdate
  <2> QED
    BY <2>1, <2>2, <2>3, PlainEffect DEF LockEffect
<1>3. ASSUME SyncEnter(t), ~(FreezeUnderway \/ read_only) /\ pc'[t] = "st" PROVE Effect(t)
  <2>1. /\ PcTypes' /\ Apart(t) /\ pc[t] = "sy"
        /\ At(t, "st", frame[t].mode, frame[t].lock, "sy_flush", frame[t].sync)
    BY <1>3, <1>p, StartFacts, GotoFacts, LabelFacts, SMTT(60) DEF SyncEnter, Went, At
  <2>2. FrameOk(t)' /\ NoLock(t)
    BY <1>3, <2>1, <1>f DEF SyncEnter, FreezeUnderway, At, NoLock
  <2>3. NoTx(t) /\ NoUpdate(t)
    BY <1>3, <2>1, <1>s DEF SyncEnter, FreezeUnderway, At, NoTx, NoUpdate
  <2>4. FreezeEffect(t) /\ CountEffect(t)
    BY <1>3, <2>1, <1>h, <1>f, <1>s, ThreadAssumption DEF SyncEnter, FreezeUnderway, At,
         FreezeEffect, CountEffect, Here, hfs_is_frozen
  <2> QED
    BY <2>1, <2>2, <2>3, <2>4, PartEffects DEF Effect, LockEffect
<1>4. ASSUME SyncEnter(t), ~(FreezeUnderway \/ read_only) /\ pc'[t] # "st" PROVE Effect(t)
  <2>1. /\ PcTypes' /\ Apart(t) /\ pc[t] = "sy"
        /\ Went(t, "sy_flush")
    BY <1>4, <1>p, StartFacts, GotoFacts, LabelFacts DEF SyncEnter, At
  <2>2. FrameOk(t)' /\ NoLock(t)
    BY <1>4, <2>1, <1>f DEF SyncEnter, FreezeUnderway, At, Went, NoLock
  <2>3. NoTx(t) /\ NoUpdate(t)
    BY <1>4, <2>1, <1>s DEF SyncEnter, FreezeUnderway, At, Went, NoTx, NoUpdate
  <2>4. FreezeEffect(t) /\ CountEffect(t)
    BY <1>4, <2>1, <1>h, <1>f, <1>s, ThreadAssumption DEF SyncEnter, FreezeUnderway, At,
         Went, FreezeEffect, CountEffect, Here, hfs_is_frozen
  <2> QED
    BY <2>1, <2>2, <2>3, <2>4, PartEffects DEF Effect, LockEffect
<1>5. ASSUME SyncFlush(t), jnl PROVE Effect(t)
  <2>1. /\ PcTypes' /\ Apart(t) /\ pc[t] = "sy_flush"
        /\ At(t, "lg", Shared, "fl", "sy_done", frame[t].sync)
    BY <1>5, <1>p, FlushFacts, LabelFacts DEF SyncFlush
  <2>2. FrameOk(t)' /\ NoLock(t) /\ Steady(t)
    BY <1>5, <2>1, <1>f DEF SyncFlush, At, NoLock, Steady
  <2>3. NoTx(t) /\ NoUpdate(t)
    BY <1>5, <2>1, <1>s DEF SyncFlush, At, NoTx, NoUpdate
  <2> QED
    BY <2>1, <2>2, <2>3, PlainEffect DEF LockEffect
<1>6. ASSUME SyncFlush(t), ~jnl PROVE Effect(t)
  <2>1. /\ PcTypes' /\ Apart(t) /\ pc[t] = "sy_flush"
        /\ Went(t, "sy_done")
    BY <1>6, <1>p, GotoFacts, LabelFacts DEF SyncFlush
  <2>2. FrameOk(t)' /\ NoLock(t) /\ Steady(t)
    BY <1>6, <2>1, <1>f DEF SyncFlush, At, Went, NoLock, Steady
  <2>3. NoTx(t) /\ NoUpdate(t)
    BY <1>6, <2>1, <1>s DEF SyncFlush, At, Went, NoTx, NoUpdate
  <2> QED
    BY <2>1, <2>2, <2>3, PlainEffect DEF LockEffect
<1>7. ASSUME SyncDone(t), hfs_syncers = 1 /\ hfs_freeze_state = "WANT_TO_FREEZE" PROVE Effect(t)
  <2>1. /\ PcTypes' /\ Apart(t) /\ pc[t] = "sy_done"
        /\ Went(t, "sy_wake")
    BY <1>7, <1>p, GotoFacts, LabelFacts DEF SyncDone
  <2>2. FrameOk(t)' /\ NoLock(t) /\ NoTx(t) /\ NoUpdate(t)
    BY <1>7, <2>1, <1>f, <1>s DEF SyncDone, At, Went, NoLock, NoTx, NoUpdate
  <2>3. FreezeEffect(t) /\ CountEffect(t)
    BY <1>7, <2>1, <1>h, <1>f, <1>s, ThreadAssumption DEF SyncDone, At, Went, FreezeEffect,
         CountEffect, Here, hfs_is_frozen
  <2> QED
    BY <2>1, <2>2, <2>3, PartEffects DEF Effect, LockEffect
<1>8. ASSUME SyncDone(t), ~(hfs_syncers = 1 /\ hfs_freeze_state = "WANT_TO_FREEZE") /\ frame[t].sync = "idle"
      PROVE  Effect(t)
  <2>1. /\ PcTypes' /\ Apart(t) /\ pc[t] = "sy_done"
        /\ Gone(t)
    BY <1>8, <1>p, <1>h, GotoFacts, LabelFacts DEF SyncDone, Here
  <2>2. FrameOk(t)' /\ NoLock(t) /\ NoTx(t) /\ NoUpdate(t)
    BY <1>8, <2>1, <1>f, <1>s DEF SyncDone, At, Gone, NoLock, NoTx, NoUpdate
  <2>3. FreezeEffect(t) /\ CountEffect(t)
    BY <1>8, <2>1, <1>h, <1>f, <1>s, ThreadAssumption DEF SyncDone, At, Gone, FreezeEffect,
         CountEffect, Here, hfs_is_frozen
  <2> QED
    BY <2>1, <2>2, <2>3, PartEffects DEF Effect, LockEffect
<1>9. ASSUME SyncDone(t), ~(hfs_syncers = 1 /\ hfs_freeze_state = "WANT_TO_FREEZE") /\ frame[t].sync # "idle"
      PROVE  Effect(t)
  <2>1. /\ PcTypes' /\ Apart(t) /\ pc[t] = "sy_done"
        /\ Went(t, frame[t].sync)
    BY <1>9, <1>p, <1>h, GotoFacts, LabelFacts DEF SyncDone, Here
  <2>2. FrameOk(t)' /\ NoLock(t) /\ NoTx(t) /\ NoUpdate(t)
    BY <1>9, <2>1, <1>f, <1>s DEF SyncDone, At, Went, NoLock, NoTx, NoUpdate
  <2>3. FreezeEffect(t) /\ CountEffect(t)
    BY <1>9, <2>1, <1>h, <1>f, <1>s, ThreadAssumption DEF SyncDone, At, Went, FreezeEffect,
         CountEffect, Here, hfs_is_frozen
  <2> QED
    BY <2>1, <2>2, <2>3, PartEffects DEF Effect, LockEffect
<1>10. ASSUME SyncWake(t), frame[t].sync = "idle" PROVE Effect(t)
  <2>1. /\ PcTypes' /\ Apart(t) /\ pc[t] = "sy_wake"
        /\ Gone(t)
    BY <1>10, <1>p, <1>h, WakeFacts, LabelFacts DEF SyncWake, Here
  <2>2. FrameOk(t)' /\ NoLock(t) /\ Steady(t)
    BY <1>10, <2>1, <1>f DEF SyncWake, At, Gone, NoLock, Steady
  <2>3. NoTx(t) /\ NoUpdate(t)
    BY <1>10, <2>1, <1>s DEF SyncWake, At, Gone, NoTx, NoUpdate
  <2> QED
    BY <2>1, <2>2, <2>3, PlainEffect DEF LockEffect
<1>11. ASSUME SyncWake(t), frame[t].sync # "idle" PROVE Effect(t)
  <2>1. /\ PcTypes' /\ Apart(t) /\ pc[t] = "sy_wake"
        /\ Went(t, frame[t].sync)
    BY <1>11, <1>p, <1>h, WakeFacts, LabelFacts DEF SyncWake, Here
  <2>2. FrameOk(t)' /\ NoLock(t) /\ Steady(t)
    BY <1>11, <2>1, <1>f DEF SyncWake, At, Went, NoLock, Steady
  <2>3. NoTx(t) /\ NoUpdate(t)
    BY <1>11, <2>1, <1>f, <1>s DEF SyncWake, At, Went, NoTx, NoUpdate
  <2> QED
    BY <2>1, <2>2, <2>3, PlainEffect DEF LockEffect
<1>12. ASSUME FlushJournal(t), frame[t].call = "idle" PROVE Effect(t)
  <2>1. /\ PcTypes' /\ Apart(t) /\ pc[t] = "fl"
        /\ Gone(t)
    BY <1>12, <1>p, <1>h, GotoFacts, LabelFacts DEF FlushJournal, Here
  <2>2. FrameOk(t)' /\ DropsLock(t) /\ Steady(t) /\ NoTx(t) /\ NoUpdate(t)
    BY <1>12, <2>1, <1>f, <1>s DEF FlushJournal, At, Gone, DropsLock, Steady, NoTx, NoUpdate
  <2> QED
    BY <2>1, <2>2, PlainEffect DEF LockEffect
<1>13. ASSUME FlushJournal(t), frame[t].call # "idle" PROVE Effect(t)
  <2>1. /\ PcTypes' /\ Apart(t) /\ pc[t] = "fl"
        /\ Went(t, frame[t].call)
    BY <1>13, <1>p, <1>h, GotoFacts, LabelFacts DEF FlushJournal, Here
  <2>2. FrameOk(t)' /\ DropsLock(t) /\ Steady(t) /\ NoTx(t) /\ NoUpdate(t)
    BY <1>13, <2>1, <1>f, <1>s DEF FlushJournal, At, Went, DropsLock, Steady, NoTx, NoUpdate
  <2> QED
    BY <2>1, <2>2, PlainEffect DEF LockEffect
<1> QED
  BY <1>1, <1>2, <1>3, <1>4, <1>5, <1>6, <1>7, <1>8, <1>9, <1>10, <1>11, <1>12, <1>13 DEF
       SyncActions

\* hfs_freeze from its entry to FROZEN.
LEMMA FreezeActionsEffect ==
    ASSUME NEW t \in Threads, Ready(t), FreezeActions(t)
    PROVE  Effect(t)
<1> USE ZenonT(60)
<1>p. PcTypes
  BY DEF Ready
<1>h. Here(t)
  BY DEF Ready
<1>f. FrameOk(t)
  BY DEF Ready
<1>s. ScanFlags(t) /\ UpdateOk(t)
  BY DEF Ready
<1>1. ASSUME FreezeEnter(t), hfs_freeze_state = "THAWED" /\ hfs_syncers = 0 PROVE Effect(t)
  <2>1. /\ PcTypes' /\ Apart(t) /\ pc[t] = "fz_enter"
        /\ Went(t, "fz_freezing")
    BY <1>1, <1>p, GotoFacts, LabelFacts DEF FreezeEnter, SyncersGone
  <2>2. FrameOk(t)' /\ NoLock(t)
    BY <1>1, <2>1, <1>f DEF FreezeEnter, At, Went, NoLock
  <2>3. NoTx(t) /\ NoUpdate(t)
    BY <1>1, <2>1, <1>s DEF FreezeEnter, At, Went, NoTx, NoUpdate
  <2>4. FreezeEffect(t) /\ CountEffect(t)
    BY <1>1, <2>1, <1>h, <1>f, <1>s, ThreadAssumption DEF FreezeEnter, At, Went,
         FreezeEffect, CountEffect, Here, hfs_is_frozen
  <2> QED
    BY <2>1, <2>2, <2>3, <2>4, PartEffects DEF Effect, LockEffect
<1>2. ASSUME FreezeEnter(t), hfs_freeze_state = "THAWED" /\ hfs_syncers # 0 PROVE Effect(t)
  <2>1. /\ PcTypes' /\ Apart(t) /\ pc[t] = "fz_enter"
        /\ Went(t, "fz_sleep2")
    BY <1>2, <1>p, GotoFacts, LabelFacts DEF FreezeEnter, SyncersGone
  <2>2. FrameOk(t)' /\ NoLock(t)
    BY <1>2, <2>1, <1>f DEF FreezeEnter, At, Went, NoLock
  <2>3. NoTx(t) /\ NoUpdate(t)
    BY <1>2, <2>1, <1>s DEF FreezeEnter, At, Went, NoTx, NoUpdate
  <2>4. FreezeEffect(t) /\ CountEffect(t)
    BY <1>2, <2>1, <1>h, <1>f, <1>s, ThreadAssumption DEF FreezeEnter, At, Went,
         FreezeEffect, CountEffect, Here, hfs_is_frozen
  <2> QED
    BY <2>1, <2>2, <2>3, <2>4, PartEffects DEF Effect, LockEffect
<1>3. ASSUME FreezeEnter(t), hfs_freeze_state # "THAWED" PROVE Effect(t)
  <2>1. /\ PcTypes' /\ Apart(t) /\ pc[t] = "fz_enter"
        /\ Went(t, "fz_sleep1")
    BY <1>3, <1>p, GotoFacts, LabelFacts DEF FreezeEnter
  <2>2. FrameOk(t)' /\ NoLock(t) /\ Steady(t)
    BY <1>3, <2>1, <1>f DEF FreezeEnter, At, Went, NoLock, Steady
  <2>3. NoTx(t) /\ NoUpdate(t)
    BY <1>3, <2>1, <1>s DEF FreezeEnter, At, Went, NoTx, NoUpdate
  <2> QED
    BY <2>1, <2>2, <2>3, PlainEffect DEF LockEffect
<1>4. ASSUME FreezeSyncers(t), hfs_syncers = 0 PROVE Effect(t)
  <2>1. /\ PcTypes' /\ Apart(t) /\ pc[t] = "fz_syncers"
        /\ Went(t, "fz_freezing")
    BY <1>4, <1>p, GotoFacts, LabelFacts DEF FreezeSyncers, SyncersGone
  <2>2. FrameOk(t)' /\ NoLock(t)
    BY <1>4, <2>1, <1>f DEF FreezeSyncers, At, Went, NoLock
  <2>3. NoTx(t) /\ NoUpdate(t)
    BY <1>4, <2>1, <1>s DEF FreezeSyncers, At, Went, NoTx, NoUpdate
  <2>4. FreezeEffect(t) /\ CountEffect(t)
    BY <1>4, <2>1, <1>h, <1>f, <1>s, ThreadAssumption DEF FreezeSyncers, At, Went,
         FreezeEffect, CountEffect, Here, hfs_is_frozen
  <2> QED
    BY <2>1, <2>2, <2>3, <2>4, PartEffects DEF Effect, LockEffect
<1>5. ASSUME FreezeSyncers(t), hfs_syncers # 0 PROVE Effect(t)
  <2>1. /\ PcTypes' /\ Apart(t) /\ pc[t] = "fz_syncers"
        /\ Went(t, "fz_sleep2")
    BY <1>5, <1>p, GotoFacts, LabelFacts DEF FreezeSyncers, SyncersGone
  <2>2. FrameOk(t)' /\ NoLock(t) /\ Steady(t)
    BY <1>5, <2>1, <1>f DEF FreezeSyncers, At, Went, NoLock, Steady
  <2>3. NoTx(t) /\ NoUpdate(t)
    BY <1>5, <2>1, <1>s DEF FreezeSyncers, At, Went, NoTx, NoUpdate
  <2> QED
    BY <2>1, <2>2, <2>3, PlainEffect DEF LockEffect
<1>6. ASSUME FreezeBlock(t) PROVE Effect(t)
  <2>1. /\ PcTypes' /\ Apart(t) /\ pc[t] = "fz_freezing"
        /\ At(t, "lg", "exclusive", "fz_flush", frame[t].call, frame[t].sync)
    BY <1>6, <1>p, LockFacts, LabelFacts DEF FreezeBlock
  <2>2. FrameOk(t)' /\ NoLock(t) /\ NoTx(t) /\ NoUpdate(t)
    BY <1>6, <2>1, <1>f, <1>s DEF FreezeBlock, At, NoLock, NoTx, NoUpdate
  <2>3. FreezeEffect(t) /\ CountEffect(t)
    BY <1>6, <2>1, <1>h, <1>f, <1>s, ThreadAssumption DEF FreezeBlock, At, FreezeEffect,
         CountEffect, Here, hfs_is_frozen
  <2> QED
    BY <2>1, <2>2, <2>3, PartEffects DEF Effect, LockEffect
<1>7. ASSUME FreezeFlush(t) PROVE Effect(t)
  <2>1. /\ PcTypes' /\ Apart(t) /\ pc[t] = "fz_flush"
        /\ Went(t, "fz_done")
    BY <1>7, <1>p, GotoFacts, LabelFacts DEF FreezeFlush
  <2>2. FrameOk(t)' /\ DropsLock(t)
    BY <1>7, <2>1, <1>f DEF FreezeFlush, At, Went, DropsLock
  <2>3. NoTx(t) /\ NoUpdate(t)
    BY <1>7, <2>1, <1>s DEF FreezeFlush, At, Went, NoTx, NoUpdate
  <2>4. FreezeEffect(t) /\ CountEffect(t)
    BY <1>7, <2>1, <1>h, <1>f, <1>s, ThreadAssumption DEF FreezeFlush, At, Went,
         FreezeEffect, CountEffect, Here, hfs_is_frozen
  <2> QED
    BY <2>1, <2>2, <2>3, <2>4, PartEffects DEF Effect, LockEffect
<1>8. ASSUME FreezeNull(t) PROVE Effect(t)
  BY <1>8, StillEffect DEF FreezeNull, NullJournal
<1>9. ASSUME FreezeDone(t) PROVE Effect(t)
  <2>1. /\ PcTypes' /\ Apart(t) /\ pc[t] = "fz_done"
        /\ Gone(t)
    BY <1>9, <1>p, GotoFacts, LabelFacts DEF FreezeDone
  <2>2. FrameOk(t)' /\ NoLock(t) /\ NoTx(t) /\ NoUpdate(t)
    BY <1>9, <2>1, <1>f, <1>s DEF FreezeDone, At, Gone, NoLock, NoTx, NoUpdate
  <2>3. FreezeEffect(t) /\ CountEffect(t)
    BY <1>9, <2>1, <1>h, <1>f, <1>s, ThreadAssumption DEF FreezeDone, At, Gone,
         FreezeEffect, CountEffect, Here, hfs_is_frozen
  <2> QED
    BY <2>1, <2>2, <2>3, PartEffects DEF Effect, LockEffect
<1> QED
  BY <1>1, <1>2, <1>3, <1>4, <1>5, <1>6, <1>7, <1>8, <1>9 DEF FreezeActions

\* hfs_mount with MNT_UPDATE: the change to read-only and back, errors included.
LEMMA MountActionsEffect ==
    ASSUME NEW t \in Threads, Ready(t), MountActions(t)
    PROVE  Effect(t)
<1> USE ZenonT(60)
<1>p. PcTypes
  BY DEF Ready
<1>h. Here(t)
  BY DEF Ready
<1>f. FrameOk(t)
  BY DEF Ready
<1>s. ScanFlags(t) /\ UpdateOk(t)
  BY DEF Ready
<1>1. ASSUME DowngradeFlag(t) PROVE Effect(t)
  <2>1. /\ PcTypes' /\ Apart(t) /\ pc[t] = "dg_flag"
        /\ At(t, "sy", frame[t].mode, frame[t].lock, frame[t].call, "dg_synced")
    BY <1>1, <1>p, SyncFacts, LabelFacts DEF DowngradeFlag
  <2>2. FrameOk(t)' /\ DropsLock(t) /\ Steady(t) /\ NoTx(t)
    BY <1>1, <2>1, <1>f, <1>s DEF DowngradeFlag, At, DropsLock, Steady, NoTx
  <2>3. UpdateEffect(t)
    BY <1>1, <2>1, <1>h, <1>f, <1>s, ThreadAssumption DEF DowngradeFlag, At, UpdateEffect,
         Here
  <2> QED
    BY <2>1, <2>2, <2>3, PartEffects DEF Effect, LockEffect
<1>2. ASSUME DowngradeSynced(t), pc'[t] = "idle" PROVE Effect(t)
  <2>1. /\ PcTypes' /\ Apart(t) /\ pc[t] = "dg_synced"
        /\ Gone(t)
    BY <1>2, <1>p, GotoFacts, HeaderFacts, LabelFacts DEF DowngradeSynced, At, Went
  <2>2. FrameOk(t)' /\ NoLock(t) /\ Steady(t) /\ NoTx(t)
    BY <1>2, <2>1, <1>f, <1>s DEF DowngradeSynced, At, Gone, NoLock, Steady, NoTx
  <2>3. UpdateEffect(t)
    BY <1>2, <2>1, <1>h, <1>f, <1>s, ThreadAssumption DEF DowngradeSynced, At, Gone,
         UpdateEffect, Here
  <2> QED
    BY <2>1, <2>2, <2>3, PartEffects DEF Effect, LockEffect
<1>3. ASSUME DowngradeSynced(t), pc'[t] # "idle" /\ read_only PROVE Effect(t)
  <2>1. /\ PcTypes' /\ Apart(t) /\ pc[t] = "dg_synced"
        /\ Went(t, "dg_readonly")
        /\ UNCHANGED <<rdonly_downgrade, hfs_downgrading_thread, updater>>
    BY <1>3, <1>p, GotoFacts, LabelFacts DEF DowngradeSynced, Gone, At,
         hfs_flushvolumeheader
  <2>2. FrameOk(t)' /\ NoLock(t) /\ Steady(t) /\ NoTx(t) /\ NoUpdate(t)
    BY <1>3, <2>1, <1>f, <1>s DEF DowngradeSynced, At, Went, NoLock, Steady, NoTx, NoUpdate
  <2> QED
    BY <2>1, <2>2, PlainEffect DEF LockEffect
<1>4. ASSUME DowngradeSynced(t), pc'[t] # "idle" /\ ~read_only PROVE Effect(t)
  <2>1. /\ PcTypes' /\ Apart(t) /\ pc[t] = "dg_synced"
        /\ At(t, "st", frame[t].mode, frame[t].lock, "dg_readonly", frame[t].sync)
        /\ UNCHANGED <<rdonly_downgrade, hfs_downgrading_thread, updater>>
    BY <1>4, <1>p, GotoFacts, HeaderFacts, LabelFacts DEF DowngradeSynced, Gone, At
  <2>2. FrameOk(t)' /\ NoLock(t) /\ Steady(t) /\ NoTx(t) /\ NoUpdate(t)
    BY <1>4, <2>1, <1>f, <1>s DEF DowngradeSynced, At, NoLock, Steady, NoTx, NoUpdate
  <2> QED
    BY <2>1, <2>2, PlainEffect DEF LockEffect
<1>5. ASSUME DowngradeReadOnly(t), jnl PROVE Effect(t)
  <2>1. /\ PcTypes' /\ Apart(t) /\ pc[t] = "dg_readonly"
        /\ At(t, "lg", "exclusive", "dg_close", frame[t].call, frame[t].sync)
    BY <1>5, <1>p, LockFacts, LabelFacts DEF DowngradeReadOnly
  <2>2. FrameOk(t)' /\ NoLock(t) /\ Steady(t) /\ NoTx(t) /\ NoUpdate(t)
    BY <1>5, <2>1, <1>f, <1>s DEF DowngradeReadOnly, At, NoLock, Steady, NoTx, NoUpdate
  <2> QED
    BY <2>1, <2>2, PlainEffect DEF LockEffect
<1>6. ASSUME DowngradeReadOnly(t), ~jnl PROVE Effect(t)
  <2>1. /\ PcTypes' /\ Apart(t) /\ pc[t] = "dg_readonly"
        /\ Went(t, "dg_fsync")
    BY <1>6, <1>p, GotoFacts, LabelFacts DEF DowngradeReadOnly
  <2>2. FrameOk(t)' /\ NoLock(t) /\ Steady(t) /\ NoTx(t) /\ NoUpdate(t)
    BY <1>6, <2>1, <1>f, <1>s DEF DowngradeReadOnly, At, Went, NoLock, Steady, NoTx,
         NoUpdate
  <2> QED
    BY <2>1, <2>2, PlainEffect DEF LockEffect
<1>7. ASSUME DowngradeClose(t) PROVE Effect(t)
  <2>1. /\ PcTypes' /\ Apart(t) /\ pc[t] = "dg_close"
        /\ Went(t, "dg_fsync")
    BY <1>7, <1>p, GotoFacts, LabelFacts DEF DowngradeClose
  <2>2. FrameOk(t)' /\ DropsLock(t) /\ Steady(t) /\ NoUpdate(t)
    BY <1>7, <2>1, <1>f, <1>s DEF DowngradeClose, At, Went, DropsLock, Steady, NoUpdate
  <2>3. TxEffect(t) /\ OwnerEffect(t)
    BY <1>7, <2>1, <1>h, <1>f, <1>s, ThreadAssumption DEF DowngradeClose, At, Went,
         TxEffect, OwnerEffect, Here
  <2> QED
    BY <2>1, <2>2, <2>3, PartEffects DEF Effect, LockEffect
<1>8. ASSUME DowngradeNull(t) PROVE Effect(t)
  BY <1>8, StillEffect DEF DowngradeNull, NullJournal
<1>9. ASSUME DowngradeFsync(t) PROVE Effect(t)
  <2>1. /\ PcTypes' /\ Apart(t) /\ pc[t] = "dg_fsync"
        /\ Gone(t)
    BY <1>9, <1>p, GotoFacts, LabelFacts DEF DowngradeFsync
  <2>2. FrameOk(t)' /\ NoLock(t) /\ Steady(t) /\ NoTx(t)
    BY <1>9, <2>1, <1>f, <1>s DEF DowngradeFsync, At, Gone, NoLock, Steady, NoTx
  <2>3. UpdateEffect(t)
    BY <1>9, <2>1, <1>h, <1>f, <1>s, ThreadAssumption, SMTT(60) DEF DowngradeFsync, At,
         Gone, UpdateEffect, Here
  <2> QED
    BY <2>1, <2>2, <2>3, PartEffects DEF Effect, LockEffect
<1>10. ASSUME UpgradeOpen(t), jnl' PROVE Effect(t)
  <2>1. /\ PcTypes' /\ Apart(t) /\ pc[t] = "up_open"
        /\ Went(t, "up_done")
    BY <1>10, <1>p, GotoFacts, LabelFacts DEF UpgradeOpen
  <2>2. FrameOk(t)' /\ DropsLock(t) /\ Steady(t) /\ NoUpdate(t)
    BY <1>10, <2>1, <1>f, <1>s DEF UpgradeOpen, At, Went, DropsLock, Steady, NoUpdate
  <2>3. TxEffect(t) /\ OwnerEffect(t)
    BY <1>10, <2>1, <1>h, <1>f, <1>s, ThreadAssumption DEF UpgradeOpen, At, Went, TxEffect,
         OwnerEffect, Here
  <2> QED
    BY <2>1, <2>2, <2>3, PartEffects DEF Effect, LockEffect
<1>11. ASSUME UpgradeOpen(t), ~jnl' PROVE Effect(t)
  <2>1. /\ PcTypes' /\ Apart(t) /\ pc[t] = "up_open"
        /\ Gone(t)
    BY <1>11, <1>p, GotoFacts, LabelFacts DEF UpgradeOpen
  <2>2. FrameOk(t)' /\ DropsLock(t) /\ Steady(t)
    BY <1>11, <2>1, <1>f, <1>s DEF UpgradeOpen, At, Gone, DropsLock, Steady
  <2>3. TxEffect(t) /\ OwnerEffect(t)
    BY <1>11, <2>1, <1>h, <1>f, <1>s, ThreadAssumption DEF UpgradeOpen, At, Gone, TxEffect,
         OwnerEffect, Here
  <2>4. UpdateEffect(t)
    BY <1>11, <2>1, <1>h, <1>f, <1>s, ThreadAssumption DEF UpgradeOpen, At, Gone,
         UpdateEffect, Here
  <2> QED
    BY <2>1, <2>2, <2>3, <2>4, PartEffects DEF Effect, LockEffect
<1>12. ASSUME UpgradeErase(t), pc'[t] = "idle" PROVE Effect(t)
  <2>1. /\ PcTypes' /\ Apart(t) /\ pc[t] = "up_done"
        /\ Gone(t)
        /\ UNCHANGED <<rdonly_downgrade, hfs_downgrading_thread>> /\ updater' = None
    BY <1>12, <1>p, GotoFacts, HeaderFacts, LabelFacts, SMTT(60) DEF UpgradeErase, At, Went
  <2>2. FrameOk(t)' /\ NoLock(t) /\ Steady(t) /\ NoTx(t)
    BY <1>12, <2>1, <1>f, <1>s DEF UpgradeErase, At, Gone, NoLock, Steady, NoTx
  <2>3. UpdateEffect(t)
    BY <1>12, <2>1, <1>h, <1>f, <1>s, ThreadAssumption DEF UpgradeErase, At, Gone,
         UpdateEffect, Here
  <2> QED
    BY <2>1, <2>2, <2>3, PartEffects DEF Effect, LockEffect
<1>13. ASSUME UpgradeErase(t), pc'[t] # "idle" /\ read_only PROVE Effect(t)
  <2>1. /\ PcTypes' /\ Apart(t) /\ pc[t] = "up_done"
        /\ Went(t, "up_header")
        /\ rdonly_downgrade' = FALSE /\ hfs_downgrading_thread' = None /\ UNCHANGED updater
    BY <1>13, <1>p, GotoFacts, LabelFacts DEF UpgradeErase, Gone, At, hfs_flushvolumeheader
  <2>2. FrameOk(t)' /\ NoLock(t) /\ Steady(t) /\ NoTx(t)
    BY <1>13, <2>1, <1>f, <1>s DEF UpgradeErase, At, Went, NoLock, Steady, NoTx
  <2>3. UpdateEffect(t)
    BY <1>13, <2>1, <1>h, <1>f, <1>s, ThreadAssumption DEF UpgradeErase, At, Went,
         UpdateEffect, Here
  <2> QED
    BY <2>1, <2>2, <2>3, PartEffects DEF Effect, LockEffect
<1>14. ASSUME UpgradeErase(t), pc'[t] # "idle" /\ ~read_only PROVE Effect(t)
  <2>1. /\ PcTypes' /\ Apart(t) /\ pc[t] = "up_done"
        /\ At(t, "st", frame[t].mode, frame[t].lock, "up_header", frame[t].sync)
        /\ rdonly_downgrade' = FALSE /\ hfs_downgrading_thread' = None /\ UNCHANGED updater
    BY <1>14, <1>p, GotoFacts, HeaderFacts, LabelFacts DEF UpgradeErase, Gone, At
  <2>2. FrameOk(t)' /\ NoLock(t) /\ Steady(t) /\ NoTx(t)
    BY <1>14, <2>1, <1>f, <1>s DEF UpgradeErase, At, NoLock, Steady, NoTx
  <2>3. UpdateEffect(t)
    BY <1>14, <2>1, <1>h, <1>f, <1>s, ThreadAssumption DEF UpgradeErase, At, UpdateEffect,
         Here
  <2> QED
    BY <2>1, <2>2, <2>3, PartEffects DEF Effect, LockEffect
<1>15. ASSUME UpgradeDone(t) PROVE Effect(t)
  <2>1. /\ PcTypes' /\ Apart(t) /\ pc[t] = "up_header"
        /\ Gone(t)
    BY <1>15, <1>p, GotoFacts, LabelFacts DEF UpgradeDone
  <2>2. FrameOk(t)' /\ NoLock(t) /\ Steady(t) /\ NoTx(t)
    BY <1>15, <2>1, <1>f, <1>s DEF UpgradeDone, At, Gone, NoLock, Steady, NoTx
  <2>3. UpdateEffect(t)
    BY <1>15, <2>1, <1>h, <1>f, <1>s, ThreadAssumption DEF UpgradeDone, At, Gone,
         UpdateEffect, Here
  <2> QED
    BY <2>1, <2>2, <2>3, PartEffects DEF Effect, LockEffect
<1> QED
  BY <1>1, <1>2, <1>3, <1>4, <1>5, <1>6, <1>7, <1>8, <1>9, <1>10, <1>11, <1>12, <1>13,
       <1>14, <1>15 DEF MountActions

\* The sysctls that enable and disable the journal, and the scans that lock it.
LEMMA JournalActionsEffect ==
    ASSUME NEW t \in Threads, Ready(t), JournalActions(t)
    PROVE  Effect(t)
<1> USE ZenonT(60)
<1>p. PcTypes
  BY DEF Ready
<1>h. Here(t)
  BY DEF Ready
<1>f. FrameOk(t)
  BY DEF Ready
<1>s. ScanFlags(t) /\ UpdateOk(t)
  BY DEF Ready
<1>1. ASSUME DisableClose(t), read_only PROVE Effect(t)
  <2>1. /\ PcTypes' /\ Apart(t) /\ pc[t] = "di_close"
        /\ Gone(t)
    BY <1>1, <1>p, HeaderFacts, LabelFacts DEF DisableClose
  <2>2. FrameOk(t)' /\ DropsLock(t) /\ Steady(t) /\ NoUpdate(t)
    BY <1>1, <2>1, <1>f, <1>s DEF DisableClose, At, Gone, DropsLock, Steady, NoUpdate
  <2>3. TxEffect(t) /\ OwnerEffect(t)
    BY <1>1, <2>1, <1>h, <1>f, <1>s, ThreadAssumption DEF DisableClose, At, Gone, TxEffect,
         OwnerEffect, Here
  <2> QED
    BY <2>1, <2>2, <2>3, PartEffects DEF Effect, LockEffect
<1>2. ASSUME DisableClose(t), ~read_only PROVE Effect(t)
  <2>1. /\ PcTypes' /\ Apart(t) /\ pc[t] = "di_close"
        /\ At(t, "st", frame[t].mode, frame[t].lock, "idle", frame[t].sync)
    BY <1>2, <1>p, HeaderFacts, LabelFacts DEF DisableClose
  <2>2. FrameOk(t)' /\ DropsLock(t) /\ Steady(t) /\ NoUpdate(t)
    BY <1>2, <2>1, <1>f, <1>s DEF DisableClose, At, DropsLock, Steady, NoUpdate
  <2>3. TxEffect(t) /\ OwnerEffect(t)
    BY <1>2, <2>1, <1>h, <1>f, <1>s, ThreadAssumption DEF DisableClose, At, TxEffect,
         OwnerEffect, Here
  <2> QED
    BY <2>1, <2>2, <2>3, PartEffects DEF Effect, LockEffect
<1>3. ASSUME DisableNull(t) PROVE Effect(t)
  BY <1>3, StillEffect DEF DisableNull, NullJournal
<1>4. ASSUME EnableCreate(t) PROVE Effect(t)
  <2>1. /\ PcTypes' /\ Apart(t) /\ pc[t] = "en_create"
        /\ At(t, "lg", "exclusive", "en_set", frame[t].call, frame[t].sync)
    BY <1>4, <1>p, LockFacts, LabelFacts DEF EnableCreate
  <2>2. FrameOk(t)' /\ NoLock(t) /\ Steady(t) /\ NoTx(t) /\ NoUpdate(t)
    BY <1>4, <2>1, <1>f, <1>s DEF EnableCreate, At, NoLock, Steady, NoTx, NoUpdate
  <2> QED
    BY <2>1, <2>2, PlainEffect DEF LockEffect
<1>5. ASSUME EnableSet(t), read_only PROVE Effect(t)
  <2>1. /\ PcTypes' /\ Apart(t) /\ pc[t] = "en_set"
        /\ Gone(t)
    BY <1>5, <1>p, HeaderFacts, LabelFacts DEF EnableSet
  <2>2. FrameOk(t)' /\ DropsLock(t) /\ Steady(t) /\ NoUpdate(t)
    BY <1>5, <2>1, <1>f, <1>s DEF EnableSet, At, Gone, DropsLock, Steady, NoUpdate
  <2>3. TxEffect(t) /\ OwnerEffect(t)
    BY <1>5, <2>1, <1>h, <1>f, <1>s, ThreadAssumption DEF EnableSet, At, Gone, TxEffect,
         OwnerEffect, Here
  <2> QED
    BY <2>1, <2>2, <2>3, PartEffects DEF Effect, LockEffect
<1>6. ASSUME EnableSet(t), ~read_only PROVE Effect(t)
  <2>1. /\ PcTypes' /\ Apart(t) /\ pc[t] = "en_set"
        /\ At(t, "st", frame[t].mode, frame[t].lock, "idle", frame[t].sync)
    BY <1>6, <1>p, HeaderFacts, LabelFacts DEF EnableSet
  <2>2. FrameOk(t)' /\ DropsLock(t) /\ Steady(t) /\ NoUpdate(t)
    BY <1>6, <2>1, <1>f, <1>s DEF EnableSet, At, DropsLock, Steady, NoUpdate
  <2>3. TxEffect(t) /\ OwnerEffect(t)
    BY <1>6, <2>1, <1>h, <1>f, <1>s, ThreadAssumption DEF EnableSet, At, TxEffect,
         OwnerEffect, Here
  <2> QED
    BY <2>1, <2>2, <2>3, PartEffects DEF Effect, LockEffect
<1>7. ASSUME hfs_journal_lock(t) PROVE Effect(t)
  <2>1. /\ PcTypes' /\ Apart(t) /\ pc[t] = "jl"
        /\ At(t, "lg", Shared, "fl", "sc_unlock", frame[t].sync)
    BY <1>7, <1>p, FlushFacts, LabelFacts DEF hfs_journal_lock
  <2>2. FrameOk(t)' /\ DropsLock(t) /\ Steady(t) /\ NoUpdate(t)
    BY <1>7, <2>1, <1>f, <1>s DEF hfs_journal_lock, At, DropsLock, Steady, NoUpdate
  <2>3. TxEffect(t) /\ OwnerEffect(t)
    BY <1>7, <2>1, <1>h, <1>f, <1>s, ThreadAssumption DEF hfs_journal_lock, At, TxEffect,
         OwnerEffect, Here
  <2> QED
    BY <2>1, <2>2, <2>3, PartEffects DEF Effect, LockEffect
<1>8. ASSUME ScanUnlock(t) PROVE Effect(t)
  <2>1. /\ PcTypes' /\ Apart(t) /\ pc[t] = "sc_unlock"
        /\ At(t, "lg", Shared, "ju", frame[t].call, frame[t].sync)
    BY <1>8, <1>p, LockFacts, LabelFacts DEF ScanUnlock
  <2>2. FrameOk(t)' /\ NoLock(t) /\ Steady(t) /\ NoTx(t) /\ NoUpdate(t)
    BY <1>8, <2>1, <1>f, <1>s DEF ScanUnlock, At, NoLock, Steady, NoTx, NoUpdate
  <2> QED
    BY <2>1, <2>2, PlainEffect DEF LockEffect
<1>9. ASSUME hfs_journal_unlock(t) PROVE Effect(t)
  <2>1. /\ PcTypes' /\ Apart(t) /\ pc[t] = "ju"
        /\ Gone(t)
    BY <1>9, <1>p, GotoFacts, LabelFacts DEF hfs_journal_unlock
  <2>2. FrameOk(t)' /\ DropsLock(t) /\ Steady(t) /\ NoUpdate(t)
    BY <1>9, <2>1, <1>f, <1>s DEF hfs_journal_unlock, At, Gone, DropsLock, Steady, NoUpdate
  <2>3. TxEffect(t) /\ OwnerEffect(t)
    BY <1>9, <2>1, <1>h, <1>f, <1>s, <1>s, ThreadAssumption DEF hfs_journal_unlock, At,
         Gone, TxEffect, OwnerEffect, Here
  <2> QED
    BY <2>1, <2>2, <2>3, PartEffects DEF Effect, LockEffect
<1>10. ASSUME EnableFails(t) PROVE Effect(t)
  <2>1. /\ PcTypes' /\ Apart(t) /\ pc[t] = "en_create"
        /\ Gone(t)
    BY <1>10, <1>p, GotoFacts, LabelFacts DEF EnableFails
  <2>2. FrameOk(t)' /\ NoLock(t) /\ Steady(t) /\ NoTx(t) /\ NoUpdate(t)
    BY <1>10, <2>1, <1>f, <1>s DEF EnableFails, At, Gone, NoLock, Steady, NoTx, NoUpdate
  <2> QED
    BY <2>1, <2>2, PlainEffect DEF LockEffect
<1> QED
  BY <1>1, <1>2, <1>3, <1>4, <1>5, <1>6, <1>7, <1>8, <1>9, <1>10 DEF JournalActions

\* A nested transaction, an interrupted freeze, a thaw and the exit of a process.
LEMMA OtherActionsEffect ==
    ASSUME NEW t \in Threads, Ready(t), 
           StartNested(t) \/ FreezeInterrupted(t) \/ hfs_thaw(t) \/ Exit(t)
    PROVE  Effect(t)
<1> USE ZenonT(60)
<1>p. PcTypes
  BY DEF Ready
<1>h. Here(t)
  BY DEF Ready
<1>f. FrameOk(t)
  BY DEF Ready
<1>s. ScanFlags(t) /\ UpdateOk(t)
  BY DEF Ready
<1>1. ASSUME StartNested(t) PROVE Effect(t)
  <2>1. /\ PcTypes' /\ Apart(t) /\ pc[t] = "in_tx"
        /\ Went(t, "in_tx")
    BY <1>1, <1>p DEF StartNested, PcTypes, Apart, Went, At
  <2>2. FrameOk(t)' /\ KeepsLock(t) /\ Steady(t) /\ NoUpdate(t)
    BY <1>1, <2>1, <1>f, <1>s DEF StartNested, At, Went, KeepsLock, Steady, NoUpdate
  <2>3. TxEffect(t)
    BY <1>1, <2>1, <1>h, SMTT(60) DEF StartNested, At, Went, TxEffect, Here
  <2>4. OwnerEffect(t)
    BY <1>1, <2>1, <1>h, <1>f, <1>s DEF StartNested, At, Went, OwnerEffect, Here
  <2> QED
    BY <2>1, <2>2, <2>3, <2>4, PartEffects DEF Effect, LockEffect
<1>2. ASSUME FreezeInterrupted(t), pc[t] = "fz_sleep1" PROVE Effect(t)
  <2>1. /\ PcTypes' /\ Apart(t) /\ pc[t] = "fz_sleep1"
        /\ Gone(t)
    BY <1>2, <1>p, GotoFacts, LabelFacts DEF FreezeInterrupted
  <2>2. FrameOk(t)' /\ NoLock(t) /\ Steady(t) /\ NoTx(t) /\ NoUpdate(t)
    BY <1>2, <2>1, <1>f, <1>s DEF FreezeInterrupted, At, Gone, NoLock, Steady, NoTx,
         NoUpdate
  <2> QED
    BY <2>1, <2>2, PlainEffect DEF LockEffect
<1>3. ASSUME FreezeInterrupted(t), pc[t] # "fz_sleep1" PROVE Effect(t)
  <2>1. /\ PcTypes' /\ Apart(t) /\ pc[t] = "fz_sleep2"
        /\ Gone(t)
    BY <1>3, <1>p, WakeFacts, LabelFacts DEF FreezeInterrupted
  <2>2. FrameOk(t)' /\ NoLock(t) /\ NoTx(t) /\ NoUpdate(t)
    BY <1>3, <2>1, <1>f, <1>s DEF FreezeInterrupted, At, Gone, NoLock, NoTx, NoUpdate
  <2>3. FreezeEffect(t) /\ CountEffect(t)
    BY <1>3, <2>1, <1>h, <1>f, <1>s, ThreadAssumption DEF FreezeInterrupted, At, Gone,
         FreezeEffect, CountEffect, Here, hfs_is_frozen
  <2> QED
    BY <2>1, <2>2, <2>3, PartEffects DEF Effect, LockEffect
<1>4. ASSUME hfs_thaw(t) PROVE Effect(t)
  <2>1. /\ PcTypes' /\ Apart(t) /\ pc[t] = "idle"
        /\ Gone(t)
    BY <1>4, <1>p, WakeFacts, LabelFacts DEF hfs_thaw
  <2>2. FrameOk(t)' /\ NoLock(t) /\ NoTx(t) /\ NoUpdate(t)
    BY <1>4, <2>1, <1>f, <1>s DEF hfs_thaw, At, Gone, NoLock, NoTx, NoUpdate
  <2>3. FreezeEffect(t) /\ CountEffect(t)
    BY <1>4, <2>1, <1>h, <1>f, <1>s, ThreadAssumption DEF hfs_thaw, At, Gone, FreezeEffect,
         CountEffect, Here, hfs_is_frozen
  <2> QED
    BY <2>1, <2>2, <2>3, PartEffects DEF Effect, LockEffect
<1>5. ASSUME Exit(t) PROVE Effect(t)
  BY <1>5, StillEffect DEF Exit
<1> QED
  BY <1>1, <1>2, <1>3, <1>4, <1>5
=============================================================================
