------------------------- MODULE JournalLocksFlush -------------------------
(***************************************************************************)
(* The life of a transaction in JournalLocks: a flush that fails can mark    *)
(* the journal invalid, a transaction is in one place at a time until it is *)
(* freed, and journal_flush returns when what it found is in the log, or    *)
(* home.  Then the end of the journal: what journal_close waits for before  *)
(* it frees the journal.                                                    *)
(***************************************************************************)
EXTENDS JournalLocksProofs

USE ThreadAssumption, BoundAssumption, ScenarioAssumption
USE DEF NoTr, Tr, Labels, Ops, Idle, Goto, Free, FreeOld, FinReturn,
        jstate, conds, flags, local, mem, hist, fin_unchanged

-----------------------------------------------------------------------------
(* The failure path of finish_end_transaction: who waits for the journal lock *)
(* once a flush has failed.                                                   *)

\* A flush fails only where errors happen, end_transaction keeps the lock only for
\* journal_relocate and journal_close, and a running flush has a thread.
ErrorInv ==
    /\ scenario \in Scenarios
    /\ write_header_failed \/ fin.pc \in {"abort", "relock"} => "errors" \in scenario
    /\ \A t \in Threads : op[t] = "relocate" => "relocate" \in scenario
    /\ \A t \in Threads : op[t] = "close" \/ pc[t] = "close" => "close" \in scenario
    /\ fin.pc # "idle" => fin.by # None

\* No step of the journal's threads makes a flush fail without an I/O error, or
\* end_transaction keep the lock for another caller.
LEMMA ErrorStep == IndInv /\ ErrorInv /\ [Next]_vars => ErrorInv'
<1> USE SMTT(300)
<1>1. SUFFICES ASSUME IndInv, ErrorInv, [Next]_vars PROVE ErrorInv'
  OBVIOUS
<1>2. LockType /\ CondType /\ ThreadType /\ FinType
  BY <1>1 DEF IndInv, TypeOK
<1> USE <1>1, <1>2 DEF ErrorInv, LockType, CondType, ThreadType, FinType
<1>3. ASSUME NEW t \in Threads, StartCheck(t) PROVE ErrorInv'
  BY <1>3 DEF StartCheck
<1>4. ASSUME NEW t \in Threads, StartLock(t) PROVE ErrorInv'
  BY <1>4 DEF StartLock
<1>5. ASSUME NEW t \in Threads, StartFails(t) PROVE ErrorInv'
  BY <1>5 DEF StartFails
<1>6. ASSUME NEW t \in Threads, StartNested(t) PROVE ErrorInv'
  BY <1>6 DEF StartNested
<1>7. ASSUME NEW t \in Threads, Modify(t) PROVE ErrorInv'
  BY <1>7 DEF Modify
<1>8. ASSUME NEW t \in Threads, EndNested(t) PROVE ErrorInv'
  BY <1>8 DEF EndNested
<1>9. ASSUME NEW t \in Threads, EndInvalid(t) PROVE ErrorInv'
  BY <1>9 DEF EndInvalid
<1>10. ASSUME NEW t \in Threads, EndGroup(t) PROVE ErrorInv'
  BY <1>10 DEF EndGroup
<1>11. ASSUME NEW t \in Threads, EndFlush(t) PROVE ErrorInv'
  BY <1>11 DEF EndFlush
<1>12. ASSUME NEW t \in Threads, FlushCheck(t) PROVE ErrorInv'
  BY <1>12 DEF FlushCheck
<1>13. ASSUME NEW t \in Threads, FlushInside(t) PROVE ErrorInv'
  BY <1>13 DEF FlushInside
<1>14. ASSUME NEW t \in Threads, RelocateBegin(t) PROVE ErrorInv'
  BY <1>14 DEF RelocateBegin
<1>15. ASSUME NEW t \in Threads, CloseLock(t) PROVE ErrorInv'
  BY <1>15 DEF CloseLock
<1>16. ASSUME NEW t \in Threads, FlushRefused(t) PROVE ErrorInv'
  BY <1>16 DEF FlushRefused, Drops
<1>17. ASSUME NEW t \in Threads, TakeFlushing(t) PROVE ErrorInv'
  BY <1>17 DEF TakeFlushing
<1>18. ASSUME NEW t \in Threads, Reserve(t) PROVE ErrorInv'
  BY <1>18 DEF Reserve, Drops
<1>19. ASSUME NEW t \in Threads, Resume(t) PROVE ErrorInv'
  BY <1>19 DEF Resume
<1>20. ASSUME NEW t \in Threads, FlushTake(t) PROVE ErrorInv'
  BY <1>20 DEF FlushTake
<1>21. ASSUME NEW t \in Threads, FlushNone(t) PROVE ErrorInv'
  BY <1>21 DEF FlushNone
<1>22. ASSUME NEW t \in Threads, FlushQuiesce(t) PROVE ErrorInv'
  BY <1>22 DEF FlushQuiesce
<1>23. ASSUME NEW t \in Threads, FlushForce(t) PROVE ErrorInv'
  BY <1>23 DEF FlushForce
<1>24. ASSUME NEW t \in Threads, FlushWait(t) PROVE ErrorInv'
  BY <1>24 DEF FlushWait
<1>25. ASSUME NEW t \in Threads, FlushIo(t) PROVE ErrorInv'
  BY <1>25 DEF FlushIo
<1>26. ASSUME NEW t \in Threads, FlushReturn(t) PROVE ErrorInv'
  BY <1>26 DEF FlushReturn
<1>27. ASSUME NEW t \in Threads, FlushHold(t) PROVE ErrorInv'
  BY <1>27 DEF FlushHold
<1>28. ASSUME NEW t \in Threads, RelocateWait(t) PROVE ErrorInv'
  BY <1>28 DEF RelocateWait
<1>29. ASSUME NEW t \in Threads, CloseFlush(t) PROVE ErrorInv'
  BY <1>29 DEF CloseFlush
<1>30. ASSUME NEW t \in Threads, CloseHeader(t) PROVE ErrorInv'
  BY <1>30 DEF CloseHeader
<1>31. ASSUME NEW t \in Threads, CloseFree(t) PROVE ErrorInv'
  BY <1>31 DEF CloseFree
<1>32. CASE FinLog
  BY <1>32 DEF FinLog
<1>33. CASE FinLogFails
  BY <1>33 DEF FinLogFails
<1>34. CASE FinCommit
  BY <1>34 DEF FinCommit
<1>35. CASE FinCommitFails
  BY <1>35 DEF FinCommitFails
<1>36. CASE FinIssue
  BY <1>36 DEF FinIssue
<1>37. CASE FinIssueNone
  BY <1>37 DEF FinIssueNone
<1>38. CASE FinRelease
  <2>1. UNCHANGED <<scenario, write_header_failed, op>> /\ fin' = Idle
    BY <1>38 DEF FinRelease
  <2>2. ASSUME NEW t \in Threads, pc'[t] = "close" PROVE pc[t] = "close"
    BY <1>38, <2>2 DEF FinRelease
  <2> QED
    BY <2>1, <2>2
<1>39. CASE FinAbort
  BY <1>39 DEF FinAbort
<1>40. CASE FinInvalidate
  <2>1. UNCHANGED <<scenario, write_header_failed, op>> /\ fin' = Idle
    BY <1>40 DEF FinInvalidate
  <2>2. ASSUME NEW t \in Threads, pc'[t] = "close" PROVE pc[t] = "close"
    BY <1>40, <2>2 DEF FinInvalidate
  <2> QED
    BY <2>1, <2>2
<1>41. CASE HeaderThread
  BY <1>41 DEF HeaderThread
<1>42. CASE IoDone
  BY <1>42 DEF IoDone
<1>43. CASE UNCHANGED vars
  BY <1>43 DEF vars
<1>44. ASSUME NEW t \in Threads, ModifyFails(t) PROVE ErrorInv'
  BY <1>44 DEF ModifyFails
<1>45. CASE Leave
  BY <1>45 DEF Leave
<1> QED
  BY <1>3, <1>4, <1>5, <1>6, <1>7, <1>8, <1>9, <1>10, <1>11, <1>12, <1>13, <1>14, <1>15,
     <1>16, <1>17, <1>18, <1>19, <1>20, <1>21, <1>22, <1>23, <1>24, <1>25, <1>26, <1>27,
     <1>28, <1>29, <1>30, <1>31, <1>32, <1>33, <1>34, <1>35, <1>36, <1>37, <1>38, <1>39,
     <1>40, <1>41, <1>42, <1>43, <1>44, <1>45, ZenonT(300)
  DEF Next, Call, Step, Finisher, Quiet

\* After a failed flush the thread that has to mark the journal invalid can always
\* get the journal lock, since it does not hold it: true of every configuration in
\* which I/O errors do not meet journal_relocate or journal_close, the callers that
\* keep the lock across finish_end_transaction.
THEOREM CanInvalidate ==
    ASSUME \A s \in Scenarios : "errors" \in s => s \cap {"relocate", "close"} = {}
    PROVE  Spec => []NoSelfWait
<1>1. Init => ErrorInv
  BY DEF Init, ErrorInv
<1>2. IndInv /\ ErrorInv => NoSelfWait
  <2>1. SUFFICES ASSUME IndInv, ErrorInv, fin.pc = "relock" PROVE owner # fin.by
    BY DEF NoSelfWait
  <2>2. CASE fin.by \in Threads
    <3>1. pc[fin.by] = "finish" /\ (Holds(fin.by) <=> owner = fin.by)
      BY <2>1, <2>2 DEF IndInv, LockInv, Finishing, LockHeld
    <3>2. Drops(fin.by)
      BY <2>1, <2>2 DEF ErrorInv, Drops
    <3> QED
      BY <3>1, <3>2 DEF Holds
  <2>3. CASE fin.by \notin Threads
    BY <2>1, <2>3 DEF IndInv, TypeOK, LockType, FinType, ErrorInv
  <2> QED
    BY <2>2, <2>3
<1> QED
  BY Inductive, <1>1, <1>2, ErrorStep, PTL DEF Spec

-----------------------------------------------------------------------------
(* The places of a transaction. *)

\* Something refers to x.
Used(x) ==
    \/ active_tr = x \/ cur_tr = x \/ fin.tr = x \/ io_tr = x \/ x \in freeme
    \/ \E t \in Threads : tr[t] = x

\* x is in one place, and in none once it is freed or before it is allocated.
Single(x) ==
    /\ active_tr = x => cur_tr # x /\ fin.tr # x /\ io_tr # x /\ x \notin freeme
    /\ cur_tr = x => fin.tr # x /\ io_tr # x /\ x \notin freeme
    /\ fin.tr = x => io_tr # x /\ x \notin freeme
    /\ io_tr = x => x \notin freeme
    /\ \A t \in Threads : tr[t] = x =>
         /\ active_tr # x /\ cur_tr # x /\ fin.tr # x /\ io_tr # x /\ x \notin freeme
         /\ \A u \in Threads : tr[u] = x => u = t
    /\ freed[x] = 0 \/ (freed[x] = 1 /\ ~Used(x))
    /\ x > last => freed[x] = 0 /\ ~Used(x)

PlaceInv == \A x \in Tr : Single(x)

\* The journal fails only where errors happen.
FailInv == invalid \/ flush_aborted => "errors" \in scenario

\* A transaction is running, buffered, in the hands of a thread, being flushed, on its way
\* home or waiting to be freed, in one of these places only, and its memory is released
\* once: true of every configuration in which I/O errors do not meet journal_relocate,
\* whose error path frees the transaction that end_transaction has freed.
THEOREM TransactionsOnce ==
    ASSUME \A s \in Scenarios : "errors" \in s => "relocate" \notin s
    PROVE  Spec => []OnePlace
<1>1. Init => ErrorInv /\ FailInv /\ PlaceInv
  <2>1. Init => ErrorInv
    BY SMTT(60) DEF Init, ErrorInv
  <2>2. Init => FailInv
    BY ZenonT(60) DEF Init, FailInv
  <2>3. ASSUME Init, NEW x \in Tr PROVE Single(x)
    <3>1. /\ active_tr = NoTr /\ cur_tr = NoTr /\ fin.tr = NoTr /\ io_tr = NoTr /\ freeme = {}
          /\ freed[x] = 0 /\ \A t \in Threads : tr[t] = NoTr
      BY <2>3, ZenonT(60) DEF Init
    <3>2. x # NoTr
      BY SMTT(60)
    <3> QED
      BY <3>1, <3>2, ZenonT(60) DEF Single, Used
  <2> QED
    BY <2>1, <2>2, <2>3, ZenonT(60) DEF PlaceInv
\* invalid and flush_aborted are set only after a failure, or when they were set.
<1>2. ErrorInv /\ FailInv /\ [Next]_vars => FailInv'
  <2> USE ZenonT(60)
  <2>1. ASSUME FailInv, NEW t \in Threads, Call(t) PROVE FailInv'
    BY <2>1 DEF FailInv, Call, StartCheck, StartNested, Modify, ModifyFails, EndNested, EndInvalid,
       EndGroup, EndFlush, FlushCheck, FlushInside, RelocateBegin, CloseLock
  <2>2. ASSUME FailInv, NEW t \in Threads, Step(t) PROVE FailInv'
    BY <2>2 DEF FailInv, Step, StartLock, StartFails, FlushRefused, TakeFlushing, Reserve, Resume,
       FlushTake, FlushNone, FlushQuiesce, FlushForce, FlushWait, FlushIo, FlushReturn, FlushHold,
       RelocateWait, CloseFlush, CloseHeader, CloseFree
  <2>3. ASSUME ErrorInv, FailInv, Finisher \/ HeaderThread \/ IoDone \/ Leave PROVE FailInv'
    BY <2>3 DEF ErrorInv, FailInv, Finisher, FinLog, FinLogFails, FinCommit, FinCommitFails, FinIssue,
       FinIssueNone, FinRelease, FinAbort, FinInvalidate, HeaderThread, IoDone, Leave
  <2>4. ASSUME FailInv, UNCHANGED vars PROVE FailInv'
    BY <2>4 DEF FailInv, vars
  <2> QED
    BY <2>1, <2>2, <2>3, <2>4 DEF Next, Quiet
\* A transaction that is allocated, buffered, carried, flushed, written home or freed leaves
\* the place where it was.
<1>3. ASSUME IndInv, ErrorInv, FailInv, PlaceInv, [Next]_vars PROVE PlaceInv'
  <2> USE <1>3
  <2> USE ZenonT(60)
  <2> SUFFICES ASSUME NEW x \in Tr PROVE Single(x)'
    BY DEF PlaceInv
  <2>1. Single(x)
    BY DEF PlaceInv
  <2>2. x # NoTr /\ x \in Nat /\ last \in Nat /\ 0 \notin Tr
    BY SMTT(60) DEF IndInv, TypeOK, MemType
  <2>3. /\ tr \in [Threads -> Tr \cup {NoTr}] /\ freed \in [Tr -> Nat]
        /\ fin \in [pc : {"idle", "log", "commit", "issue", "release", "abort", "relock"},
                    by : Threads \cup {Kernel, None}, tr : Tr \cup {NoTr}]
    BY DEF IndInv, TypeOK, ThreadType, MemType, FinType
  <2>4. ASSUME NEW t \in Threads, NEW v, tr' = [tr EXCEPT ![t] = v]
        PROVE  tr'[t] = v /\ \A u \in Threads \ {t} : tr'[u] = tr[u]
    BY <2>3, <2>4
  \* The release of memory.
  <2>5. ASSUME NEW S, Free(S) PROVE freed'[x] = IF x \in S THEN freed[x] + 1 ELSE freed[x]
    BY <2>5
  <2>6. ASSUME freed[x] = 0 PROVE freed[x] + 1 = 1
    BY <2>6, SMTT(60)
  \* Steps that move nothing, and steps that only free the old transactions.
  <2>7. ASSUME UNCHANGED <<active_tr, cur_tr, tr, io_tr, freeme, freed, last>>, fin'.tr = fin.tr
        PROVE  Single(x)'
    BY <2>1, <2>7 DEF Single, Used
  <2>8. ASSUME FreeOld, UNCHANGED <<active_tr, cur_tr, tr, fin, io_tr, last>>
        PROVE  Single(x)'
    BY <2>1, <2>5, <2>6, <2>8 DEF Single, Used
  <2>9. ASSUME NEW t \in Threads,
               \/ StartFails(t) \/ Modify(t) \/ TakeFlushing(t) \/ FlushNone(t) \/ FlushQuiesce(t)
               \/ FlushWait(t) \/ FlushIo(t) \/ FlushReturn(t) \/ FlushHold(t) \/ RelocateWait(t)
               \/ CloseLock(t) \/ CloseHeader(t) \/ ModifyFails(t)
        PROVE  Single(x)'
    BY <2>7, <2>9 DEF StartFails, Modify, TakeFlushing, FlushNone, FlushQuiesce, FlushWait, FlushIo,
       FlushReturn, FlushHold, RelocateWait, CloseLock, CloseHeader, ModifyFails
  <2>10. ASSUME FinLog \/ FinLogFails \/ FinCommit \/ FinCommitFails \/ HeaderThread
                \/ Leave \/ UNCHANGED vars
         PROVE  Single(x)'
    <3>1. fin'.tr = fin.tr
      <4>1. UNCHANGED fin \/ \E l : fin' = [fin EXCEPT !.pc = l]
        BY <2>10 DEF FinLog, FinLogFails, FinCommit, FinCommitFails, HeaderThread, Leave, vars
      <4>2. ASSUME NEW l, fin' = [fin EXCEPT !.pc = l] PROVE fin'.tr = fin.tr
        BY <2>3, <4>2
      <4> QED
        BY <4>1, <4>2
    <3> QED
      BY <2>7, <2>10, <3>1 DEF FinLog, FinLogFails, FinCommit, FinCommitFails, HeaderThread, Leave,
         vars
  <2>11. ASSUME NEW t \in Threads,
                \/ StartCheck(t) \/ StartNested(t) \/ EndNested(t) \/ FlushCheck(t)
                \/ FlushInside(t) \/ CloseFree(t)
         PROVE  Single(x)'
    BY <2>8, <2>11 DEF StartCheck, StartNested, EndNested, FlushCheck, FlushInside, CloseFree
  \* A new transaction.
  <2>12. ASSUME last' = last + 1, active_tr' = last',
                UNCHANGED <<cur_tr, tr, fin, io_tr, freeme, freed>>
         PROVE  Single(x)'
    <3>1. /\ x > last' => x > last /\ x # last'
          /\ x = last' => x > last
      BY <2>2, <2>12, SMTT(60)
    <3> QED
      BY <2>1, <2>12, <3>1 DEF Single, Used
  <2>13. ASSUME NEW t \in Threads, StartLock(t) PROVE Single(x)'
    <3>1. CASE cur_tr # NoTr
      BY <2>1, <2>2, <2>13, <3>1 DEF StartLock, Single, Used
    <3>2. CASE cur_tr = NoTr
      BY <2>12, <2>13, <3>2 DEF StartLock
    <3> QED
      BY <3>1, <3>2
  <2>14. ASSUME NEW t \in Threads, Resume(t) PROVE Single(x)'
    BY <2>7, <2>12, <2>14 DEF Resume
  \* A transaction goes from one place to another.
  <2>15. ASSUME NEW t \in Threads, EndInvalid(t) PROVE Single(x)'
    <3>1. freed'[x] = IF x \in freeme \cup {active_tr} THEN freed[x] + 1 ELSE freed[x]
      BY <2>5, <2>15 DEF EndInvalid
    <3> QED
      BY <2>1, <2>2, <2>6, <2>15, <3>1 DEF EndInvalid, Single, Used
  <2>16. ASSUME NEW t \in Threads, EndGroup(t) PROVE Single(x)'
    <3>1. freed'[x] = IF x \in freeme THEN freed[x] + 1 ELSE freed[x]
      BY <2>5, <2>16 DEF EndGroup
    <3> QED
      BY <2>1, <2>2, <2>6, <2>16, <3>1 DEF EndGroup, Single, Used
  <2>17. ASSUME NEW t \in Threads, EndFlush(t) \/ RelocateBegin(t) PROVE Single(x)'
    <3>1. freed'[x] = IF x \in freeme THEN freed[x] + 1 ELSE freed[x]
      BY <2>5, <2>17 DEF EndFlush, RelocateBegin
    <3>2. tr'[t] = active_tr /\ \A u \in Threads \ {t} : tr'[u] = tr[u]
      BY <2>4, <2>17 DEF EndFlush, RelocateBegin
    <3>3. /\ active_tr' = NoTr /\ freeme' = {}
          /\ UNCHANGED <<cur_tr, fin, io_tr, last>>
      BY <2>17 DEF EndFlush, RelocateBegin
    <3> QED
      BY <2>1, <2>2, <2>6, <3>1, <3>2, <3>3 DEF Single, Used
  <2>18. ASSUME NEW t \in Threads, FlushRefused(t) PROVE Single(x)'
    <3>1. op[t] # "relocate"
      BY <2>18 DEF FlushRefused, FailInv, ErrorInv
    <3>2. tr'[t] = NoTr /\ \A u \in Threads \ {t} : tr'[u] = tr[u]
      BY <2>4, <2>18 DEF FlushRefused
    <3>3. freed'[x] = IF x = tr[t] THEN freed[x] + 1 ELSE freed[x]
      BY <2>3, <2>18, <3>1 DEF FlushRefused
    <3>4. UNCHANGED <<active_tr, cur_tr, fin, io_tr, freeme, last>>
      BY <2>18 DEF FlushRefused
    <3> QED
      BY <2>1, <2>2, <2>6, <3>2, <3>3, <3>4 DEF Single, Used
  <2>19. ASSUME NEW t \in Threads, Reserve(t) PROVE Single(x)'
    <3>1. tr'[t] = NoTr /\ \A u \in Threads \ {t} : tr'[u] = tr[u]
      BY <2>4, <2>19 DEF Reserve
    <3>2. PICK by : fin' = [pc |-> "log", by |-> by, tr |-> tr[t]]
      BY <2>19 DEF Reserve
    <3>3. fin'.tr = tr[t]
      BY <3>2
    <3>4. UNCHANGED <<active_tr, cur_tr, io_tr, freeme, freed, last>>
      BY <2>19 DEF Reserve
    <3> QED
      BY <2>1, <2>2, <3>1, <3>3, <3>4 DEF Single, Used
  <2>20. ASSUME NEW t \in Threads, FlushTake(t) PROVE Single(x)'
    <3>1. tr'[t] = cur_tr /\ \A u \in Threads \ {t} : tr'[u] = tr[u]
      BY <2>4, <2>20 DEF FlushTake
    <3> QED
      BY <2>1, <2>2, <2>20, <3>1 DEF FlushTake, Single, Used
  <2>21. ASSUME NEW t \in Threads, FlushForce(t) PROVE Single(x)'
    <3>1. CASE tr[t] \in dirty
      BY <2>7, <2>21, <3>1 DEF FlushForce
    <3>2. CASE tr[t] \notin dirty
      <4>1. tr'[t] = NoTr /\ \A u \in Threads \ {t} : tr'[u] = tr[u]
        BY <2>4, <2>21, <3>2 DEF FlushForce
      <4>2. cur_tr' = tr[t] /\ UNCHANGED <<active_tr, fin, io_tr, freeme, freed, last>>
        BY <2>21, <3>2 DEF FlushForce
      <4> QED
        BY <2>1, <2>2, <4>1, <4>2 DEF Single, Used
    <3> QED
      BY <3>1, <3>2
  <2>22. ASSUME NEW t \in Threads, CloseFlush(t) PROVE Single(x)'
    <3>1. CASE invalid
      <4>1. freed'[x] = IF x \in {cur_tr} THEN freed[x] + 1 ELSE freed[x]
        BY <2>5, <2>22, <3>1 DEF CloseFlush
      <4> QED
        BY <2>1, <2>2, <2>6, <2>22, <3>1, <4>1 DEF CloseFlush, Single, Used
    <3>2. CASE ~invalid /\ cur_tr \in dirty
      <4>1. tr'[t] = cur_tr /\ \A u \in Threads \ {t} : tr'[u] = tr[u]
        BY <2>4, <2>22, <3>2 DEF CloseFlush
      <4> QED
        BY <2>1, <2>2, <2>22, <3>2, <4>1 DEF CloseFlush, Single, Used
    <3>3. CASE ~invalid /\ cur_tr \notin dirty
      BY <2>7, <2>22, <3>3 DEF CloseFlush
    <3> QED
      BY <3>1, <3>2, <3>3
  <2>23. ASSUME FinIssue \/ FinIssueNone \/ FinRelease \/ FinAbort \/ FinInvalidate PROVE Single(x)'
    <3>1. fin'.tr = NoTr
      <4>1. \/ \E l : fin' = [fin EXCEPT !.pc = l, !.tr = NoTr]
            \/ fin' = Idle
        BY <2>23 DEF FinIssue, FinIssueNone, FinRelease, FinAbort, FinInvalidate
      <4>2. CASE fin' = Idle
        BY <4>2
      <4>3. ASSUME NEW l, fin' = [fin EXCEPT !.pc = l, !.tr = NoTr] PROVE fin'.tr = NoTr
        BY <2>3, <4>3
      <4> QED
        BY <4>1, <4>2, <4>3
    <3>2. UNCHANGED <<active_tr, cur_tr, tr, last>>
      BY <2>23 DEF FinIssue, FinIssueNone, FinRelease, FinAbort, FinInvalidate
    <3>3. CASE FinIssue
      BY <2>1, <2>2, <3>1, <3>2, <3>3 DEF FinIssue, Single, Used
    <3>4. CASE FinIssueNone
      BY <2>1, <2>2, <3>1, <3>2, <3>4 DEF FinIssueNone, Single, Used
    <3>5. CASE FinAbort
      <4>1. freed'[x] = IF x = fin.tr THEN freed[x] + 1 ELSE freed[x]
        BY <2>3, <3>5 DEF FinAbort
      <4> QED
        BY <2>1, <2>2, <2>6, <3>1, <3>2, <3>5, <4>1 DEF FinAbort, Single, Used
    <3>6. CASE FinRelease \/ FinInvalidate
      BY <2>1, <2>2, <3>1, <3>2, <3>6 DEF FinRelease, FinInvalidate, Single, Used
    <3> QED
      BY <2>23, <3>3, <3>4, <3>5, <3>6
  <2>24. ASSUME IoDone PROVE Single(x)'
    BY <2>1, <2>2, <2>24 DEF IoDone, Single, Used
  <2> QED
    BY <2>9, <2>10, <2>11, <2>13, <2>14, <2>15, <2>16, <2>17, <2>18, <2>19, <2>20, <2>21, <2>22,
       <2>23, <2>24 DEF Next, Call, Step, Finisher, Quiet
<1>4. IndInv /\ ErrorInv /\ FailInv /\ PlaceInv /\ [Next]_vars => ErrorInv' /\ FailInv' /\ PlaceInv'
  BY ErrorStep, <1>2, <1>3, ZenonT(60)
<1>5. IndInv /\ PlaceInv => OnePlace
  <2> SUFFICES ASSUME IndInv, PlaceInv PROVE OnePlace
    OBVIOUS
  <2>1. \A x \in Tr : Single(x)
    BY Zenon DEF PlaceInv
  <2>2. /\ active_tr \in Tr \cup {NoTr} /\ cur_tr \in Tr \cup {NoTr} /\ fin.tr \in Tr \cup {NoTr}
        /\ io_tr \in Tr \cup {NoTr} /\ freeme \subseteq Tr /\ tr \in [Threads -> Tr \cup {NoTr}]
    BY ZenonT(60) DEF IndInv, TypeOK, LockType, FinType, MemType, ThreadType
  <2>3. /\ DOMAIN Places = {1, 2, 3, 4, 5}
        /\ Places[1] = {active_tr} /\ Places[2] = {cur_tr} /\ Places[3] = {fin.tr}
        /\ Places[4] = {io_tr} /\ Places[5] = freeme
    BY SMTT(60) DEF Places
  <2>4. \A i \in DOMAIN Places : \A x \in Tr : x \in Places[i] => Used(x)
    BY <2>3, ZenonT(60) DEF Used
  <2>5. \A x \in Tr : Used(x) => freed[x] = 0
    BY <2>1, ZenonT(60) DEF Single
  <2>6. \A x \in Tr : freed[x] <= 1
    <3>1. \A x \in Tr : freed[x] \in {0, 1}
      BY <2>1, ZenonT(60) DEF Single
    <3> QED
      BY <3>1, SMTT(60)
  <2>7. \A i, j \in DOMAIN Places : i # j => Places[i] \cap Places[j] \subseteq {NoTr}
    <3>1. SUFFICES ASSUME NEW i \in DOMAIN Places, NEW j \in DOMAIN Places, i # j,
                          NEW x \in Places[i] \cap Places[j], x # NoTr
                   PROVE  FALSE
      BY Zenon
    <3>2. x \in Tr
      BY <2>2, <2>3, <3>1, SMTT(60)
    <3>3. \A k \in DOMAIN Places : x \in Places[k] =>
            \/ k = 1 /\ active_tr = x
            \/ k = 2 /\ cur_tr = x
            \/ k = 3 /\ fin.tr = x
            \/ k = 4 /\ io_tr = x
            \/ k = 5 /\ x \in freeme
      BY <2>3, SMTT(60)
    <3>4. Single(x)
      BY <2>1, <3>2, Zenon
    <3> QED
      BY <3>1, <3>3, <3>4, ZenonT(60) DEF Single
  <2>8. ASSUME NEW t \in Threads, tr[t] # NoTr
        PROVE  /\ freed[tr[t]] = 0
               /\ \A i \in DOMAIN Places : tr[t] \notin Places[i]
               /\ \A u \in Threads : tr[u] = tr[t] => u = t
    <3>1. tr[t] \in Tr /\ Used(tr[t])
      BY <2>2, <2>8, ZenonT(60) DEF Used
    <3>2. Single(tr[t])
      BY <2>1, <3>1, Zenon
    <3>3. /\ active_tr # tr[t] /\ cur_tr # tr[t] /\ fin.tr # tr[t] /\ io_tr # tr[t]
          /\ tr[t] \notin freeme
          /\ \A u \in Threads : tr[u] = tr[t] => u = t
      BY <3>2, ZenonT(60) DEF Single
    <3> QED
      BY <2>3, <2>5, <3>1, <3>3, ZenonT(60)
  <2>9. \A i \in DOMAIN Places : \A x \in Places[i] \ {NoTr} : freed[x] = 0
    <3>1. \A i \in DOMAIN Places : Places[i] \subseteq Tr \cup {NoTr}
      BY <2>2, <2>3, SMTT(60)
    <3> QED
      BY <2>4, <2>5, <3>1, ZenonT(60)
  <2> QED
    BY <2>6, <2>7, <2>8, <2>9, ZenonT(60) DEF OnePlace
<1> QED
  BY Inductive, <1>1, <1>4, <1>5, PTL DEF Spec

-----------------------------------------------------------------------------
(* What journal_flush waits for *)

Carrying == {"quiesce", "quiesce_io", "force", "flush", "space", "full", "reloc", "reloc_io"}

\* The journal has not failed.
Sound == ~invalid /\ ~flush_aborted

\* Where the transactions that t must see flushed end up.
Goal(t) == IF op[t] = "syncio" THEN home \cup {io_tr} ELSE written

\* What a caller of journal_flush must see flushed is there, or is being flushed, or is what
\* the caller carries; once the caller has waited it is there.  A transaction without blocks
\* is not among it, and while the caller holds the lock and has waited nobody flushes.
Owed(t) ==
    op[t] \in {"sync", "syncio"} =>
        /\ pc[t] \in {"wait", "finish"} \cup Carrying =>
             must[t] \subseteq Goal(t) \cup {fin.tr, tr[t]}
        /\ pc[t] \in {"flushed", "io", "done"} => must[t] \subseteq Goal(t)
        /\ pc[t] = "done" /\ op[t] = "syncio" => must[t] \subseteq home
        /\ pc[t] \in {"quiesce", "quiesce_io", "force"} =>
             must[t] \subseteq Goal(t) \cup {fin.tr} \cup (dirty \cap {tr[t]})
        /\ pc[t] = "quiesce_io" \/ (pc[t] = "force" /\ op[t] = "syncio") => ~flushing

\* finish_end_transaction has handed the transaction on, after it was written to the log.
FinInv ==
    /\ fin.pc \in {"idle", "release", "relock"} => fin.tr = NoTr
    /\ fin.pc = "issue" => fin.tr \in written

\* A thread has a transaction only on its way to flush it, and waits only in journal_flush.
Waits(t) ==
    /\ tr[t] # NoTr => pc[t] \in Carrying
    /\ pc[t] \in {"wait", "io", "done", "empty"} => op[t] \in {"sync", "syncio"}

FlushInv == /\ FinInv /\ \A t \in Threads : Waits(t)
            /\ Sound => \A t \in Threads : Owed(t)

\* Nothing that somebody waits for gets lost.
Flows ==
    /\ written \subseteq written' /\ home \subseteq home' /\ dirty \subseteq dirty'
    /\ io_tr \in home' \cup {NoTr, io_tr'}
    /\ fin.tr \in {NoTr, fin'.tr} \/ fin.tr \in written' \cap (home' \cup {io_tr'})

\* t is where it was, in the same call.
Stays(t) == pc'[t] = pc[t] /\ tr'[t] = tr[t] /\ op'[t] = op[t] /\ must'[t] = must[t]

\* journal_flush keeps its promise for any number of threads and whatever fails: on return
\* every transaction that was buffered or being flushed when it got the lock is in the log,
\* and home with JOURNAL_WAIT_FOR_IO, unless the journal failed.
THEOREM FlushPromise == Spec => []FlushKept
<1>1. Init => FlushInv
  <2> SUFFICES ASSUME Init PROVE FlushInv
    OBVIOUS
  <2>1. fin.pc = "idle" /\ fin.tr = NoTr /\ \A t \in Threads : pc[t] = "out" /\ tr[t] = NoTr
    BY ZenonT(60) DEF Init
  <2> QED
    BY <2>1, ZenonT(60) DEF FlushInv, FinInv, Waits, Owed, Carrying
<1>2. FlushInv => FlushKept
  <2> SUFFICES ASSUME FlushInv, NEW t \in Threads, pc[t] = "done", Sound
               PROVE  must[t] \subseteq IF op[t] = "syncio" THEN home ELSE written
    BY ZenonT(60) DEF FlushKept, Sound
  <2>1. Owed(t) /\ op[t] \in {"sync", "syncio"}
    BY ZenonT(60) DEF FlushInv, Waits
  <2> QED
    BY <2>1, ZenonT(60) DEF Owed, Goal
\* The step of a thread that flushes, waits or goes on keeps what journal_flush owes.
<1>3. IndInv /\ FlushInv /\ [Next]_vars => FlushInv'
  <2> USE ZenonT(60)
  <2> SUFFICES ASSUME IndInv, FlushInv, [Next]_vars PROVE FlushInv'
    OBVIOUS
  <2>1. /\ pc \in [Threads -> Labels] /\ tr \in [Threads -> Tr \cup {NoTr}]
        /\ op \in [Threads -> Ops] /\ must \in [Threads -> SUBSET Tr]
        /\ fin \in [pc : {"idle", "log", "commit", "issue", "release", "abort", "relock"},
                    by : Threads \cup {Kernel, None}, tr : Tr \cup {NoTr}]
    BY DEF IndInv, TypeOK, ThreadType, FinType, HistType
  <2>2. /\ FinInv /\ (\A t \in Threads : Waits(t)) /\ (Sound => \A t \in Threads : Owed(t))
        /\ LockHeld /\ Finishing /\ OneFlush /\ CondsOwned /\ Calls
    BY DEF FlushInv, IndInv, LockInv
  <2>3. NoTr \notin Tr /\ \A t \in Threads : NoTr \notin must[t]
    <3>1. NoTr \notin Tr
      BY SMTT(60)
    <3> QED
      BY <2>1, <3>1
  <2> HIDE DEF NoTr, Tr
  <2>4. ~flushing => fin.tr = NoTr
    BY <2>1, <2>2 DEF CondsOwned, FinInv
  <2>5. ~asyncIO => io_tr = NoTr
    BY <2>2 DEF CondsOwned
  \* The locals of the threads.
  <2>6. ASSUME NEW t \in Threads, NEW l, Goto(t, l)
        PROVE  pc'[t] = l /\ \A u \in Threads \ {t} : pc'[u] = pc[u]
    BY <2>1, <2>6
  <2>7. ASSUME NEW t \in Threads, NEW v, tr' = [tr EXCEPT ![t] = v]
        PROVE  tr'[t] = v /\ \A u \in Threads \ {t} : tr'[u] = tr[u]
    BY <2>1, <2>7
  <2>8. ASSUME NEW t \in Threads, NEW v, op' = [op EXCEPT ![t] = v]
        PROVE  op'[t] = v /\ \A u \in Threads \ {t} : op'[u] = op[u]
    BY <2>1, <2>8
  <2>9. ASSUME NEW t \in Threads, NEW v, must' = [must EXCEPT ![t] = v]
        PROVE  must'[t] = v /\ \A u \in Threads \ {t} : must'[u] = must[u]
    BY <2>1, <2>9
  \* What a thread still waited for has been handed on.
  <2>handed. ASSUME NEW t \in Threads, NEW X, must[t] \subseteq X \cup {NoTr}
             PROVE  must[t] \subseteq X
    <3>1. SUFFICES ASSUME NEW x \in must[t] PROVE x \in X
      OBVIOUS
    <3>2. x # NoTr /\ x \in X \cup {NoTr}
      BY <2>3, <2>handed
    <3> QED
      BY <3>2
  \* A thread that stays where it is.
  <2>10. ASSUME NEW t \in Threads, Stays(t), Flows, Sound, flushing' => flushing \/ owner # t
         PROVE  Owed(t)'
    <3>1. Owed(t)
      BY <2>2, <2>10
    <3>2. pc[t] \in {"quiesce_io", "force"} => owner = t
      BY <2>2 DEF LockHeld, Holds
    <3>3. must[t] \subseteq Goal(t) => must[t] \subseteq Goal(t)'
      <4>1. Goal(t) \subseteq Goal(t)' \cup {NoTr}
        BY <2>10 DEF Stays, Flows, Goal
      <4>2. must[t] \subseteq Goal(t) => must[t] \subseteq Goal(t)' \cup {NoTr}
        BY <4>1
      <4> QED
        BY <2>handed, <4>2
    <3>4. must[t] \subseteq Goal(t) \cup {fin.tr, tr[t]} =>
            must[t] \subseteq Goal(t)' \cup {fin'.tr, tr[t]}
      <4>1. Goal(t) \subseteq Goal(t)' \cup {NoTr}
        BY <2>10 DEF Stays, Flows, Goal
      <4>2. fin.tr \in Goal(t)' \cup {NoTr, fin'.tr}
        BY <2>10 DEF Stays, Flows, Goal
      <4>3. SUFFICES ASSUME NEW x \in must[t], x \in Goal(t) \/ x = fin.tr \/ x = tr[t]
                     PROVE  x \in Goal(t)' \/ x = fin'.tr \/ x = tr[t]
        OBVIOUS
      <4>4. x # NoTr
        BY <2>3
      <4> QED
        BY <4>1, <4>2, <4>3, <4>4
    <3>5. must[t] \subseteq Goal(t) \cup {fin.tr} \cup (dirty \cap {tr[t]}) =>
            must[t] \subseteq Goal(t)' \cup {fin'.tr} \cup (dirty' \cap {tr[t]})
      <4>1. Goal(t) \subseteq Goal(t)' \cup {NoTr}
        BY <2>10 DEF Stays, Flows, Goal
      <4>2. fin.tr \in Goal(t)' \cup {NoTr, fin'.tr}
        BY <2>10 DEF Stays, Flows, Goal
      <4>3. dirty \cap {tr[t]} \subseteq dirty' \cap {tr[t]}
        BY <2>10 DEF Flows
      <4>4. SUFFICES ASSUME NEW x \in must[t],
                            x \in Goal(t) \/ x = fin.tr \/ x \in dirty \cap {tr[t]}
                     PROVE  x \in Goal(t)' \/ x = fin'.tr \/ x \in dirty' \cap {tr[t]}
        OBVIOUS
      <4>5. x # NoTr
        BY <2>3
      <4> QED
        BY <4>1, <4>2, <4>3, <4>4, <4>5
    <3> QED
      BY <2>10, <3>1, <3>2, <3>3, <3>4, <3>5 DEF Stays, Flows, Owed
  \* A step of t alone.
  <2>11. ASSUME NEW t \in Threads, \A u \in Threads \ {t} : Stays(u), FinInv', Flows,
                Sound' => Sound, flushing' => flushing \/ owner = t,
                Waits(t)', Sound => Owed(t)'
         PROVE  FlushInv'
    <3>1. \A u \in Threads \ {t} : Waits(u)'
      BY <2>2, <2>11 DEF Stays, Waits
    <3>2. \A u \in Threads \ {t} : flushing' => flushing \/ owner # u
      BY <2>11
    <3>3. Sound => \A u \in Threads \ {t} : Owed(u)'
      BY <2>10, <2>11, <3>2
    <3> QED
      BY <2>11, <3>1, <3>3 DEF FlushInv
  \* A step of t that concerns no other thread.
  <2>12. ASSUME NEW t \in Threads, \A u \in Threads \ {t} : Stays(u),
                UNCHANGED <<fin, io_tr, written, home, flushing, invalid, flush_aborted>>,
                dirty \subseteq dirty', Waits(t)', Sound => Owed(t)'
         PROVE  FlushInv'
    <3>1. FinInv' /\ Flows /\ (Sound' <=> Sound)
      BY <2>2, <2>12 DEF FinInv, Flows, Sound
    <3> QED
      BY <2>11, <2>12, <3>1
  \* A step of t, after which it neither carries a transaction nor waits.
  <2>13. ASSUME NEW t \in Threads, \A u \in Threads \ {t} : Stays(u),
                UNCHANGED <<fin, io_tr, written, home, flushing, invalid, flush_aborted, dirty>>,
                tr'[t] = NoTr,
                pc'[t] \notin {"wait", "finish", "flushed", "io", "done", "empty"} \cup Carrying
         PROVE  FlushInv'
    BY <2>12, <2>13 DEF Waits, Owed, Carrying
  <2>14. ASSUME NEW t \in Threads, StartCheck(t) PROVE FlushInv'
    <3>1. pc'[t] = "start" /\ \A u \in Threads \ {t} : pc'[u] = pc[u]
      BY <2>6, <2>14 DEF StartCheck
    <3>2. tr'[t] = NoTr
      BY <2>2, <2>7, <2>14 DEF StartCheck, Waits, Carrying
    <3>3. \A u \in Threads \ {t} : Stays(u)
      BY <2>7, <2>8, <2>9, <2>14, <3>1 DEF StartCheck, Stays
    <3> QED
      BY <2>13, <2>14, <3>1, <3>2, <3>3 DEF StartCheck, Carrying
  <2>15. ASSUME NEW t \in Threads, StartLock(t) PROVE FlushInv'
    <3>1. pc'[t] = "in" /\ \A u \in Threads \ {t} : pc'[u] = pc[u]
      BY <2>6, <2>15 DEF StartLock
    <3>2. tr'[t] = NoTr
      BY <2>2, <2>7, <2>15 DEF StartLock, Waits, Carrying
    <3>3. \A u \in Threads \ {t} : Stays(u)
      BY <2>7, <2>8, <2>9, <2>15, <3>1 DEF StartLock, Stays
    <3> QED
      BY <2>13, <2>15, <3>1, <3>2, <3>3 DEF StartLock, Carrying
  <2>16. ASSUME NEW t \in Threads, StartFails(t) PROVE FlushInv'
    <3>1. pc'[t] = "out" /\ \A u \in Threads \ {t} : pc'[u] = pc[u]
      BY <2>6, <2>16 DEF StartFails
    <3>2. tr'[t] = NoTr
      BY <2>2, <2>7, <2>16 DEF StartFails, Waits, Carrying
    <3>3. \A u \in Threads \ {t} : Stays(u)
      BY <2>7, <2>8, <2>9, <2>16, <3>1 DEF StartFails, Stays
    <3> QED
      BY <2>13, <2>16, <3>1, <3>2, <3>3 DEF StartFails, Carrying
  <2>17. ASSUME NEW t \in Threads, EndInvalid(t) PROVE FlushInv'
    <3>1. pc'[t] = "out" /\ \A u \in Threads \ {t} : pc'[u] = pc[u]
      BY <2>6, <2>17 DEF EndInvalid
    <3>2. tr'[t] = NoTr
      BY <2>2, <2>7, <2>17 DEF EndInvalid, Waits, Carrying
    <3>3. \A u \in Threads \ {t} : Stays(u)
      BY <2>7, <2>8, <2>9, <2>17, <3>1 DEF EndInvalid, Stays
    <3> QED
      BY <2>13, <2>17, <3>1, <3>2, <3>3 DEF EndInvalid, Carrying
  <2>18. ASSUME NEW t \in Threads, EndGroup(t) PROVE FlushInv'
    <3>1. pc'[t] = "out" /\ \A u \in Threads \ {t} : pc'[u] = pc[u]
      BY <2>6, <2>18 DEF EndGroup
    <3>2. tr'[t] = NoTr
      BY <2>2, <2>7, <2>18 DEF EndGroup, Waits, Carrying
    <3>3. \A u \in Threads \ {t} : Stays(u)
      BY <2>7, <2>8, <2>9, <2>18, <3>1 DEF EndGroup, Stays
    <3> QED
      BY <2>13, <2>18, <3>1, <3>2, <3>3 DEF EndGroup, Carrying
  <2>19. ASSUME NEW t \in Threads, FlushCheck(t) PROVE FlushInv'
    <3>1. pc'[t] = "sync" /\ \A u \in Threads \ {t} : pc'[u] = pc[u]
      BY <2>6, <2>19 DEF FlushCheck
    <3>2. tr'[t] = NoTr
      BY <2>2, <2>7, <2>19 DEF FlushCheck, Waits, Carrying
    <3>3. \A u \in Threads \ {t} : Stays(u)
      BY <2>7, <2>8, <2>9, <2>19, <3>1 DEF FlushCheck, Stays
    <3> QED
      BY <2>13, <2>19, <3>1, <3>2, <3>3 DEF FlushCheck, Carrying
  <2>20. ASSUME NEW t \in Threads, FlushInside(t) PROVE FlushInv'
    <3>1. pc'[t] = "hold" /\ \A u \in Threads \ {t} : pc'[u] = pc[u]
      BY <2>6, <2>20 DEF FlushInside
    <3>2. tr'[t] = NoTr
      BY <2>2, <2>7, <2>20 DEF FlushInside, Waits, Carrying
    <3>3. \A u \in Threads \ {t} : Stays(u)
      BY <2>7, <2>8, <2>9, <2>20, <3>1 DEF FlushInside, Stays
    <3> QED
      BY <2>13, <2>20, <3>1, <3>2, <3>3 DEF FlushInside, Carrying
  <2>21. ASSUME NEW t \in Threads, CloseLock(t) PROVE FlushInv'
    <3>1. pc'[t] = "close" /\ \A u \in Threads \ {t} : pc'[u] = pc[u]
      BY <2>6, <2>21 DEF CloseLock
    <3>2. tr'[t] = NoTr
      BY <2>2, <2>7, <2>21 DEF CloseLock, Waits, Carrying
    <3>3. \A u \in Threads \ {t} : Stays(u)
      BY <2>7, <2>8, <2>9, <2>21, <3>1 DEF CloseLock, Stays
    <3> QED
      BY <2>13, <2>21, <3>1, <3>2, <3>3 DEF CloseLock, Carrying
  <2>22. ASSUME NEW t \in Threads, CloseHeader(t) PROVE FlushInv'
    <3>1. pc'[t] = "close_io" /\ \A u \in Threads \ {t} : pc'[u] = pc[u]
      BY <2>6, <2>22 DEF CloseHeader
    <3>2. tr'[t] = NoTr
      BY <2>2, <2>7, <2>22 DEF CloseHeader, Waits, Carrying
    <3>3. \A u \in Threads \ {t} : Stays(u)
      BY <2>7, <2>8, <2>9, <2>22, <3>1 DEF CloseHeader, Stays
    <3> QED
      BY <2>13, <2>22, <3>1, <3>2, <3>3 DEF CloseHeader, Carrying
  <2>23. ASSUME NEW t \in Threads, CloseFree(t) PROVE FlushInv'
    <3>1. pc'[t] = "out" /\ \A u \in Threads \ {t} : pc'[u] = pc[u]
      BY <2>6, <2>23 DEF CloseFree
    <3>2. tr'[t] = NoTr
      BY <2>2, <2>7, <2>23 DEF CloseFree, Waits, Carrying
    <3>3. \A u \in Threads \ {t} : Stays(u)
      BY <2>7, <2>8, <2>9, <2>23, <3>1 DEF CloseFree, Stays
    <3> QED
      BY <2>13, <2>23, <3>1, <3>2, <3>3 DEF CloseFree, Carrying
  <2>24. ASSUME NEW t \in Threads, FlushReturn(t) PROVE FlushInv'
    <3>1. pc'[t] = "out" /\ \A u \in Threads \ {t} : pc'[u] = pc[u]
      BY <2>6, <2>24 DEF FlushReturn
    <3>2. tr'[t] = NoTr
      BY <2>2, <2>7, <2>24 DEF FlushReturn, Waits, Carrying
    <3>3. \A u \in Threads \ {t} : Stays(u)
      BY <2>7, <2>8, <2>9, <2>24, <3>1 DEF FlushReturn, Stays
    <3> QED
      BY <2>13, <2>24, <3>1, <3>2, <3>3 DEF FlushReturn, Carrying
  <2>25. ASSUME NEW t \in Threads,
                StartNested(t) \/ Modify(t) \/ ModifyFails(t) \/ EndNested(t)
         PROVE  FlushInv'
    <3>1. \A u \in Threads : Stays(u)
      BY <2>25 DEF StartNested, Modify, ModifyFails, EndNested, Stays
    <3>2. /\ UNCHANGED <<fin, io_tr, written, home, flushing, flush_aborted>>
          /\ dirty \subseteq dirty'
      BY <2>25 DEF StartNested, Modify, ModifyFails, EndNested
    <3>3. UNCHANGED invalid \/ invalid' = TRUE
      BY <2>25 DEF StartNested, Modify, ModifyFails, EndNested
    <3>4. Sound' => Sound
      BY <3>2, <3>3 DEF Sound
    <3>5. FinInv' /\ Flows
      BY <2>2, <3>2 DEF FinInv, Flows
    <3>6. Waits(t)' /\ (Sound => Owed(t)')
      BY <2>2, <2>10, <3>1, <3>2, <3>5 DEF Stays, Waits
    <3> QED
      BY <2>11, <3>1, <3>2, <3>4, <3>5, <3>6
  <2>26. ASSUME NEW t \in Threads, EndFlush(t) \/ RelocateBegin(t) PROVE FlushInv'
    <3>1. pc'[t] \in {"flush", "reloc"} /\ op'[t] \in {"end", "relocate"}
      BY <2>6, <2>8, <2>26 DEF EndFlush, RelocateBegin
    <3>2. \A u \in Threads \ {t} : Stays(u)
      BY <2>6, <2>7, <2>8, <2>26 DEF EndFlush, RelocateBegin, Stays
    <3>3. UNCHANGED <<fin, io_tr, written, home, flushing, invalid, flush_aborted, dirty>>
      BY <2>26 DEF EndFlush, RelocateBegin
    <3> QED
      BY <2>12, <3>1, <3>2, <3>3 DEF Waits, Owed, Carrying
  <2>27. ASSUME NEW t \in Threads, FlushRefused(t) PROVE FlushInv'
    <3>1. ~Sound /\ ~Sound'
      BY <2>27 DEF FlushRefused, Sound
    <3>2. \A u \in Threads \ {t} : Stays(u)
      BY <2>6, <2>7, <2>27 DEF FlushRefused, Stays
    <3>3. /\ tr'[t] = NoTr /\ op'[t] = op[t]
          /\ pc'[t] = CASE op[t] = "relocate" -> "in"
                        [] op[t] = "close" -> "close_home"
                        [] op[t] = "syncio" -> "io"
                        [] op[t] = "sync" -> "done"
                        [] op[t] = "end" -> "out"
      BY <2>6, <2>7, <2>27 DEF FlushRefused
    <3>4. op[t] \in Ops
      BY <2>1
    <3>5. Waits(t)'
      BY <3>3, <3>4 DEF Waits
    <3>6. FinInv' /\ Flows /\ UNCHANGED flushing
      BY <2>2, <2>27 DEF FlushRefused, FinInv, Flows
    <3> QED
      BY <2>11, <3>1, <3>2, <3>5, <3>6
  <2>28. ASSUME NEW t \in Threads, TakeFlushing(t) PROVE FlushInv'
    <3>1. pc[t] = "flush" /\ pc'[t] \in {"space", "full"} /\ UNCHANGED <<tr, op, must>>
      BY <2>6, <2>28 DEF TakeFlushing
    <3>2. \A u \in Threads \ {t} : Stays(u)
      BY <2>6, <2>28 DEF TakeFlushing, Stays
    <3>3. UNCHANGED <<fin, io_tr, written, home, invalid, flush_aborted, dirty>>
      BY <2>28 DEF TakeFlushing
    <3>4. FinInv' /\ Flows /\ (Sound' <=> Sound)
      BY <2>2, <3>3 DEF FinInv, Flows, Sound
    <3>5. owner = t
      BY <2>2, <3>1 DEF LockHeld, Holds
    <3>6. Waits(t)' /\ (Sound => Owed(t)')
      BY <2>2, <3>1, <3>3 DEF Waits, Owed, Goal, Carrying
    <3> QED
      BY <2>11, <3>2, <3>4, <3>5, <3>6
  <2>29. ASSUME NEW t \in Threads, Reserve(t) PROVE FlushInv'
    <3>1. PICK by : /\ fin' = [pc |-> "log", by |-> by, tr |-> tr[t]]
                    /\ Goto(t, IF by = t THEN "finish" ELSE "out")
                    /\ op[t] # "end" => by = t
      BY <2>29 DEF Reserve
    <3>2. /\ tr'[t] = NoTr /\ pc'[t] \in {"finish", "out"} /\ (op[t] # "end" => pc'[t] = "finish")
          /\ pc[t] \in {"space", "full"} /\ UNCHANGED <<op, must>>
      BY <2>6, <2>7, <2>29, <3>1 DEF Reserve
    <3>3. \A u \in Threads \ {t} : Stays(u)
      BY <2>6, <2>7, <2>29, <3>1 DEF Reserve, Stays
    <3>4. UNCHANGED <<io_tr, written, home, flushing, invalid, flush_aborted, dirty>>
      BY <2>29 DEF Reserve
    <3>5. fin'.pc = "log" /\ fin'.tr = tr[t]
      BY <3>1
    <3>6. fin.tr = NoTr
      BY <2>2, <3>2 DEF OneFlush, FinInv
    <3>7. FinInv' /\ Flows /\ (Sound' <=> Sound)
      BY <3>4, <3>5, <3>6 DEF FinInv, Flows, Sound
    <3>8. Waits(t)'
      BY <3>2 DEF Waits, Carrying
    <3>9. Sound => Owed(t)'
      BY <2>2, <2>3, <3>2, <3>4, <3>5, <3>6 DEF Owed, Goal, Carrying
    <3> QED
      BY <2>11, <3>3, <3>4, <3>7, <3>8, <3>9
  <2>30. ASSUME NEW t \in Threads, Resume(t) PROVE FlushInv'
    <3>1. /\ pc[t] = "flushed" /\ UNCHANGED <<tr, op, must>>
          /\ \/ pc'[t] \in {"in", "out", "close_home"}
             \/ pc'[t] = "done" /\ op[t] = "sync"
             \/ pc'[t] = "io" /\ op[t] = "syncio"
      <4>1. op[t] \in Ops
        BY <2>1
      <4>2. PICK l : Goto(t, l) /\ \/ l \in {"in", "out", "close_home"}
                                   \/ l = "done" /\ op[t] = "sync"
                                   \/ l = "io" /\ op[t] = "syncio"
        BY <2>30, <4>1 DEF Resume
      <4> QED
        BY <2>6, <2>30, <4>2 DEF Resume
    <3>2. \A u \in Threads \ {t} : Stays(u)
      BY <2>6, <2>30 DEF Resume, Stays
    <3>3. UNCHANGED <<fin, io_tr, written, home, flushing, invalid, flush_aborted, dirty>>
      BY <2>30 DEF Resume
    <3>4. Waits(t)' /\ (Sound => Owed(t)')
      BY <2>2, <3>1, <3>3 DEF Waits, Owed, Goal, Carrying
    <3> QED
      BY <2>12, <3>2, <3>3, <3>4
  <2>31. ASSUME NEW t \in Threads, FlushTake(t) PROVE FlushInv'
    <3>1. /\ pc[t] = "sync" /\ op[t] \in {"sync", "syncio"} /\ UNCHANGED op
          /\ tr'[t] = cur_tr /\ must'[t] = Inflight(t)
          /\ pc'[t] \in {"quiesce", "force"} /\ (op[t] = "syncio" => pc'[t] = "quiesce")
      <4>1. \E l \in {"quiesce", "force"} : Goto(t, l) /\ (op[t] = "syncio" => l = "quiesce")
        BY <2>31 DEF FlushTake
      <4>2. pc'[t] \in {"quiesce", "force"} /\ (op[t] = "syncio" => pc'[t] = "quiesce")
        BY <2>6, <4>1
      <4> QED
        BY <2>2, <2>7, <2>9, <2>31, <4>2 DEF FlushTake, Calls
    <3>2. \A u \in Threads \ {t} : Stays(u)
      BY <2>6, <2>7, <2>9, <2>31 DEF FlushTake, Stays
    <3>3. UNCHANGED <<fin, io_tr, written, home, flushing, invalid, flush_aborted, dirty>>
      BY <2>31 DEF FlushTake
    <3>4. must'[t] \subseteq Goal(t)' \cup {fin'.tr} \cup (dirty' \cap {tr'[t]})
      BY <3>1, <3>3 DEF Inflight, Goal
    <3>5. must'[t] \subseteq Goal(t)' \cup {fin'.tr, tr'[t]}
      BY <3>4
    <3>7. Waits(t)' /\ Owed(t)'
      BY <3>1, <3>4, <3>5 DEF Waits, Owed, Carrying
    <3> QED
      BY <2>12, <3>2, <3>3, <3>7
  <2>32. ASSUME NEW t \in Threads, FlushNone(t) PROVE FlushInv'
    <3>1. /\ pc[t] = "sync" /\ op[t] \in {"sync", "syncio"} /\ UNCHANGED <<op, tr>>
          /\ must'[t] = Inflight(t) /\ pc'[t] = "wait" /\ cur_tr = NoTr
      BY <2>2, <2>6, <2>9, <2>32 DEF FlushNone, Calls
    <3>2. \A u \in Threads \ {t} : Stays(u)
      BY <2>6, <2>9, <2>32 DEF FlushNone, Stays
    <3>3. UNCHANGED <<fin, io_tr, written, home, flushing, invalid, flush_aborted, dirty>>
      BY <2>32 DEF FlushNone
    <3>4. must'[t] \subseteq Goal(t)' \cup {fin'.tr, tr'[t]}
      BY <3>1, <3>3 DEF Inflight, Goal
    <3>5. tr'[t] = NoTr
      BY <2>2, <3>1 DEF Waits, Carrying
    <3>6. Waits(t)' /\ Owed(t)'
      BY <3>1, <3>4, <3>5 DEF Waits, Owed, Carrying
    <3> QED
      BY <2>12, <3>2, <3>3, <3>6
  <2>33. ASSUME NEW t \in Threads, FlushQuiesce(t) PROVE FlushInv'
    <3>1. /\ UNCHANGED <<tr, op, must>>
          /\ \/ pc[t] = "quiesce" /\ ~flushing /\ pc'[t] = "quiesce_io"
             \/ pc[t] = "quiesce_io" /\ pc'[t] = "force"
      BY <2>2, <2>6, <2>33 DEF FlushQuiesce, Calls
    <3>2. \A u \in Threads \ {t} : Stays(u)
      BY <2>6, <2>33 DEF FlushQuiesce, Stays
    <3>3. UNCHANGED <<fin, io_tr, written, home, flushing, invalid, flush_aborted, dirty>>
      BY <2>33 DEF FlushQuiesce
    <3>4. Waits(t)' /\ (Sound => Owed(t)')
      BY <2>2, <2>3, <2>4, <2>5, <3>1, <3>3 DEF Waits, Owed, Goal, Carrying
    <3> QED
      BY <2>12, <3>2, <3>3, <3>4
  <2>34. ASSUME NEW t \in Threads, FlushWait(t) PROVE FlushInv'
    <3>1. /\ UNCHANGED <<tr, op, must>> /\ pc[t] = "wait" /\ ~flushing
          /\ pc'[t] \in {"io", "done"} /\ (pc'[t] = "done" => op[t] # "syncio")
      <4>1. \E l \in {"io", "done"} : Goto(t, l) /\ (l = "done" => op[t] # "syncio")
        BY <2>34 DEF FlushWait
      <4>2. pc'[t] \in {"io", "done"} /\ (pc'[t] = "done" => op[t] # "syncio")
        BY <2>6, <4>1
      <4> QED
        BY <2>34, <4>2 DEF FlushWait
    <3>2. \A u \in Threads \ {t} : Stays(u)
      BY <2>6, <2>34 DEF FlushWait, Stays
    <3>3. UNCHANGED <<fin, io_tr, written, home, flushing, invalid, flush_aborted, dirty>>
      BY <2>34 DEF FlushWait
    <3>4. op[t] \in {"sync", "syncio"} /\ tr[t] = NoTr
      BY <2>2, <3>1 DEF Waits, Carrying
    <3>5. Sound => must[t] \subseteq Goal(t) \cup {fin.tr, tr[t]}
      BY <2>2, <3>1, <3>4 DEF Owed
    <3>6. Sound => must[t] \subseteq Goal(t)
      <4>1. fin.tr = NoTr /\ tr[t] = NoTr
        BY <2>4, <3>1, <3>4
      <4>2. Sound => must[t] \subseteq Goal(t) \cup {NoTr}
        BY <3>5, <4>1
      <4> QED
        BY <2>handed, <4>2
    <3>7. Goal(t)' = Goal(t)
      BY <3>1, <3>3 DEF Goal
    <3>8. Waits(t)' /\ (Sound => Owed(t)')
      <4>1. op'[t] = op[t] /\ tr'[t] = NoTr /\ must'[t] = must[t]
        BY <3>1, <3>4
      <4>2. Sound => must'[t] \subseteq Goal(t)'
        BY <3>6, <3>7, <4>1
      <4>3. Waits(t)'
        BY <3>1, <3>4, <4>1 DEF Waits
      <4> QED
        BY <3>1, <4>1, <4>2, <4>3 DEF Owed, Carrying
    <3> QED
      BY <2>12, <3>2, <3>3, <3>8
  <2>35. ASSUME NEW t \in Threads, FlushIo(t) PROVE FlushInv'
    <3>1. /\ UNCHANGED <<tr, op, must>> /\ pc[t] = "io" /\ ~asyncIO /\ pc'[t] = "done"
      BY <2>6, <2>35 DEF FlushIo
    <3>2. \A u \in Threads \ {t} : Stays(u)
      BY <2>6, <2>35 DEF FlushIo, Stays
    <3>3. UNCHANGED <<fin, io_tr, written, home, flushing, invalid, flush_aborted, dirty>>
      BY <2>35 DEF FlushIo
    <3>4. op[t] \in {"sync", "syncio"} /\ tr[t] = NoTr
      BY <2>2, <3>1 DEF Waits, Carrying
    <3>5. Sound => must[t] \subseteq Goal(t)
      BY <2>2, <3>1, <3>4 DEF Owed
    <3>6. Sound /\ op[t] = "syncio" => must[t] \subseteq home
      <4>1. io_tr = NoTr
        BY <2>5, <3>1
      <4>2. Sound /\ op[t] = "syncio" => must[t] \subseteq home \cup {NoTr}
        BY <3>5, <4>1 DEF Goal
      <4> QED
        BY <2>handed, <4>2
    <3>7. Goal(t)' = Goal(t)
      BY <3>1, <3>3 DEF Goal
    <3>8. Waits(t)' /\ (Sound => Owed(t)')
      <4>1. op'[t] = op[t] /\ tr'[t] = NoTr /\ must'[t] = must[t] /\ home' = home
        BY <3>1, <3>3, <3>4
      <4>2. Sound => must'[t] \subseteq Goal(t)'
        BY <3>5, <3>7, <4>1
      <4>3. Sound /\ op'[t] = "syncio" => must'[t] \subseteq home'
        BY <3>6, <4>1
      <4>4. Waits(t)'
        BY <3>1, <3>4, <4>1 DEF Waits
      <4> QED
        BY <3>1, <4>2, <4>3, <4>4 DEF Owed, Carrying
    <3> QED
      BY <2>12, <3>2, <3>3, <3>8
  <2>36. ASSUME NEW t \in Threads, FlushHold(t) PROVE FlushInv'
    <3>1. /\ UNCHANGED <<tr, op, must>>
          /\ pc[t] \in {"hold", "hold_io"} /\ pc'[t] \in {"in", "hold_io"}
      BY <2>2, <2>6, <2>36 DEF FlushHold, Calls
    <3>2. \A u \in Threads \ {t} : Stays(u)
      BY <2>6, <2>36 DEF FlushHold, Stays
    <3>3. UNCHANGED <<fin, io_tr, written, home, flushing, invalid, flush_aborted, dirty>>
      BY <2>36 DEF FlushHold
    <3>4. Waits(t)' /\ (Sound => Owed(t)')
      BY <2>2, <2>3, <2>4, <2>5, <3>1, <3>3 DEF Waits, Owed, Goal, Carrying
    <3> QED
      BY <2>12, <3>2, <3>3, <3>4
  <2>37. ASSUME NEW t \in Threads, RelocateWait(t) PROVE FlushInv'
    <3>1. /\ UNCHANGED <<tr, op, must>>
          /\ pc[t] \in {"reloc", "reloc_io"} /\ op[t] = "relocate" /\ pc'[t] \in {"reloc_io", "flush"}
      BY <2>2, <2>6, <2>37 DEF RelocateWait, Calls
    <3>2. \A u \in Threads \ {t} : Stays(u)
      BY <2>6, <2>37 DEF RelocateWait, Stays
    <3>3. UNCHANGED <<fin, io_tr, written, home, flushing, invalid, flush_aborted, dirty>>
      BY <2>37 DEF RelocateWait
    <3>4. Waits(t)' /\ (Sound => Owed(t)')
      BY <2>2, <2>3, <2>4, <2>5, <3>1, <3>3 DEF Waits, Owed, Goal, Carrying
    <3> QED
      BY <2>12, <3>2, <3>3, <3>4
  <2>38. ASSUME NEW t \in Threads, FlushForce(t) PROVE FlushInv'
    <3>1. \A u \in Threads \ {t} : Stays(u)
      BY <2>6, <2>7, <2>38 DEF FlushForce, Stays
    <3>2. UNCHANGED <<fin, io_tr, written, home, flushing, invalid, flush_aborted, dirty, op, must>>
      BY <2>38 DEF FlushForce
    <3>3. pc[t] = "force" /\ op[t] \in {"sync", "syncio"}
      BY <2>2, <2>38 DEF FlushForce, Calls
    <3>4. CASE tr[t] \in dirty
      <4>1. pc'[t] = "flush" /\ UNCHANGED tr
        BY <2>6, <2>38, <3>4 DEF FlushForce
      <4>2. Waits(t)' /\ (Sound => Owed(t)')
        BY <2>2, <3>2, <3>3, <4>1 DEF Waits, Owed, Goal, Carrying
      <4> QED
        BY <2>12, <3>1, <3>2, <4>2
    <3>5. CASE tr[t] \notin dirty
      <4>1. pc'[t] = (IF op[t] = "syncio" THEN "io" ELSE "empty") /\ tr'[t] = NoTr
        BY <2>6, <2>7, <2>38, <3>5 DEF FlushForce
      <4>2. Sound /\ op[t] = "syncio" => must[t] \subseteq Goal(t)
          <5>1. Sound /\ op[t] = "syncio" =>
                ~flushing /\ must[t] \subseteq Goal(t) \cup {fin.tr} \cup (dirty \cap {tr[t]})
          BY <2>2, <3>3 DEF Owed
        <5> QED
          <6>1. Sound /\ op[t] = "syncio" => must[t] \subseteq Goal(t) \cup {fin.tr}
            BY <3>5, <5>1
          <6>2. Sound /\ op[t] = "syncio" => must[t] \subseteq Goal(t) \cup {NoTr}
            BY <2>4, <5>1, <6>1
          <6> QED
            BY <2>handed, <6>2
      <4>3. Waits(t)' /\ (Sound => Owed(t)')
        BY <3>2, <3>3, <4>1, <4>2 DEF Waits, Owed, Goal, Carrying
      <4> QED
        BY <2>12, <3>1, <3>2, <4>3
    <3> QED
      BY <3>4, <3>5
  <2>39. ASSUME NEW t \in Threads, CloseFlush(t) PROVE FlushInv'
    <3>1. \A u \in Threads \ {t} : Stays(u)
      BY <2>6, <2>7, <2>8, <2>39 DEF CloseFlush, Stays
    <3>2. UNCHANGED <<fin, io_tr, written, home, flushing, invalid, flush_aborted, dirty>>
      BY <2>39 DEF CloseFlush
    <3>3. tr[t] = NoTr
      BY <2>2, <2>39 DEF CloseFlush, Waits, Carrying
    <3>4. \/ pc'[t] \in {"close_io", "close_home"} /\ UNCHANGED tr
          \/ pc'[t] = "flush" /\ op'[t] = "close"
      BY <2>6, <2>8, <2>39 DEF CloseFlush
    <3>5. Waits(t)' /\ Owed(t)'
      BY <3>3, <3>4 DEF Waits, Owed, Carrying
    <3> QED
      BY <2>12, <3>1, <3>2, <3>5
  <2>40. ASSUME \A t \in Threads : Stays(t), FinInv', Flows, Sound' => Sound, flushing' => flushing
         PROVE  FlushInv'
    <3>1. \A t \in Threads : Waits(t)'
      BY <2>2, <2>40 DEF Stays, Waits
    <3>2. Sound => \A t \in Threads : Owed(t)'
      BY <2>10, <2>40
    <3> QED
      BY <2>40, <3>1, <3>2 DEF FlushInv
  <2>41. ASSUME FinLog \/ FinLogFails \/ FinCommitFails \/ HeaderThread \/ Leave
                \/ UNCHANGED vars
         PROVE  FlushInv'
    <3>1. /\ \A t \in Threads : Stays(t)
          /\ UNCHANGED <<io_tr, written, home, flushing, dirty>> /\ (Sound' => Sound)
      <4>1. UNCHANGED <<pc, tr, op, must, io_tr, written, home, flushing, dirty, flush_aborted>>
        BY <2>41 DEF FinLog, FinLogFails, FinCommitFails, HeaderThread, Leave, vars
      <4>2. UNCHANGED invalid \/ invalid' = TRUE
        BY <2>41 DEF FinLog, FinLogFails, FinCommitFails, HeaderThread, Leave, vars
      <4>3. Sound' => Sound
        BY <4>1, <4>2 DEF Sound
      <4> QED
        BY <4>1, <4>3 DEF Stays
    <3>2. fin'.tr = fin.tr /\ (fin'.pc = fin.pc \/ fin'.pc \in {"commit", "abort"})
      <4>1. \/ UNCHANGED fin \/ fin' = [fin EXCEPT !.pc = "commit"]
            \/ fin' = [fin EXCEPT !.pc = "abort"]
        BY <2>41 DEF FinLog, FinLogFails, FinCommitFails, HeaderThread, Leave, vars
      <4>2. ASSUME NEW l, fin' = [fin EXCEPT !.pc = l] PROVE fin'.tr = fin.tr /\ fin'.pc = l
        BY <2>1, <4>2
      <4> QED
        BY <4>1, <4>2
    <3>3. FinInv' /\ Flows
      BY <2>2, <3>1, <3>2 DEF FinInv, Flows
    <3> QED
      BY <2>40, <3>1, <3>3
  <2>42. ASSUME FinCommit PROVE FlushInv'
    <3>1. /\ \A t \in Threads : Stays(t)
          /\ UNCHANGED <<io_tr, home, flushing, dirty>> /\ (Sound' => Sound)
          /\ written' = written \cup {fin.tr}
      BY <2>42 DEF FinCommit, Stays, Sound
    <3>2. fin'.tr = fin.tr /\ fin'.pc = "issue"
      BY <2>1, <2>42 DEF FinCommit
    <3>3. FinInv' /\ Flows
      BY <2>2, <3>1, <3>2 DEF FinInv, Flows
    <3> QED
      BY <2>40, <3>1, <3>3
  <2>43. ASSUME FinIssue \/ FinIssueNone PROVE FlushInv'
    <3>1. /\ \A t \in Threads : Stays(t)
          /\ UNCHANGED <<written, flushing, dirty>> /\ (Sound' => Sound)
      <4>1. UNCHANGED <<pc, tr, op, must, written, flushing, dirty, invalid, flush_aborted>>
        BY <2>43 DEF FinIssue, FinIssueNone
      <4> QED
        BY <4>1 DEF Stays, Sound
    <3>2. fin'.tr = NoTr /\ fin'.pc = "release"
      <4>1. fin' = [fin EXCEPT !.pc = "release", !.tr = NoTr]
        BY <2>43 DEF FinIssue, FinIssueNone
      <4> QED
        BY <2>1, <4>1, SMTT(60)
    <3>3. /\ io_tr = NoTr /\ fin.tr \in written /\ home \subseteq home'
          /\ fin.tr \in home' \cup {io_tr'}
      BY <2>2, <2>5, <2>43 DEF FinIssue, FinIssueNone, FinInv
    <3>4. FinInv' /\ Flows
      BY <3>1, <3>2, <3>3 DEF FinInv, Flows
    <3> QED
      BY <2>40, <3>1, <3>4
  <2>44. ASSUME IoDone PROVE FlushInv'
    <3>1. /\ \A t \in Threads : Stays(t)
          /\ UNCHANGED <<fin, written, flushing, dirty>> /\ (Sound' => Sound)
          /\ home' = home \cup {io_tr}
      BY <2>44 DEF IoDone, Stays, Sound
    <3>2. FinInv' /\ Flows
      BY <2>2, <3>1 DEF FinInv, Flows
    <3> QED
      BY <2>40, <3>1, <3>2
  <2>45. ASSUME FinRelease \/ FinInvalidate PROVE FlushInv'
    <3>1. /\ UNCHANGED <<io_tr, written, home, dirty, tr, op, must, flush_aborted>>
          /\ fin.pc \in {"release", "relock"} /\ fin' = Idle
          /\ pc' = IF fin.by \in Threads THEN [pc EXCEPT ![fin.by] = "flushed"] ELSE pc
      <4>1. CASE FinRelease
        BY <4>1 DEF FinRelease
      <4>2. CASE FinInvalidate
        BY <4>2 DEF FinInvalidate
      <4> QED
        BY <2>45, <4>1, <4>2
    <3>2. /\ fin'.pc = "idle" /\ fin'.tr = NoTr /\ fin.tr = NoTr /\ (Sound' => Sound)
          /\ flushing' => flushing
      <4>1. fin'.pc = "idle" /\ fin'.tr = NoTr
        BY <3>1
      <4>2. fin.tr = NoTr
        BY <2>2, <3>1 DEF FinInv
      <4>3. (invalid => invalid') /\ (flushing' => flushing)
        <5>1. CASE FinRelease
          BY <5>1 DEF FinRelease
        <5>2. CASE FinInvalidate
          BY <5>2 DEF FinInvalidate
        <5> QED
          BY <2>45, <5>1, <5>2
      <4>4. flush_aborted' = flush_aborted
        BY <3>1
      <4>5. Sound' => Sound
        BY <4>3, <4>4 DEF Sound
      <4> QED
        BY <4>1, <4>2, <4>3, <4>5
    <3>3. FinInv' /\ Flows
      BY <3>1, <3>2 DEF FinInv, Flows
    <3>4. CASE fin.by \notin Threads
      <4>1. \A t \in Threads : Stays(t)
        BY <3>1, <3>4 DEF Stays
      <4> QED
        BY <2>40, <3>2, <3>3, <4>1
    <3>5. CASE fin.by \in Threads
      <4>1. PICK t \in Threads : t = fin.by /\ pc[t] = "finish"
        BY <2>2, <3>1, <3>5 DEF Finishing
      <4>2. Goto(t, "flushed")
        BY <3>1, <3>5, <4>1
      <4>3. pc'[t] = "flushed" /\ \A u \in Threads \ {t} : pc'[u] = pc[u]
        BY <2>6, <4>1, <4>2
      <4>4. \A u \in Threads \ {t} : Stays(u)
        BY <3>1, <4>3 DEF Stays
      <4>5. tr[t] = NoTr /\ Goal(t)' = Goal(t)
        <5>1. tr[t] = NoTr
          BY <2>2, <4>1 DEF Waits, Carrying
        <5>2. UNCHANGED <<op, home, io_tr, written>>
          BY <3>1
        <5> QED
          BY <5>1, <5>2 DEF Goal
      <4>6. Sound /\ op[t] \in {"sync", "syncio"} => must[t] \subseteq Goal(t)
        <5>1. Sound /\ op[t] \in {"sync", "syncio"} =>
                must[t] \subseteq Goal(t) \cup {fin.tr, tr[t]}
          BY <2>2, <4>1 DEF Owed
        <5> QED
          <6>1. Sound /\ op[t] \in {"sync", "syncio"} => must[t] \subseteq Goal(t) \cup {NoTr}
            BY <3>2, <4>5, <5>1
          <6> QED
            BY <2>handed, <4>1, <6>1
      <4>7. Waits(t)' /\ (Sound => Owed(t)')
        <5>1. pc'[t] = "flushed" /\ op'[t] = op[t] /\ tr'[t] = NoTr /\ must'[t] = must[t]
          <6>1. UNCHANGED <<op, tr, must>>
            BY <3>1
          <6> QED
            BY <4>3, <4>5, <6>1
        <5>2. Sound /\ op'[t] \in {"sync", "syncio"} => must'[t] \subseteq Goal(t)
          BY <4>6, <5>1
        <5>3. Sound /\ op'[t] \in {"sync", "syncio"} => must'[t] \subseteq Goal(t)'
          BY <4>5, <5>2, SMTT(60)
        <5> QED
          BY <5>1, <5>3 DEF Waits, Owed, Carrying
      <4> QED
        BY <2>11, <3>2, <3>3, <4>1, <4>4, <4>7
    <3> QED
      BY <3>4, <3>5
  <2>46. ASSUME FinAbort PROVE FlushInv'
    <3>1. ~Sound' /\ \A t \in Threads : Stays(t)
      BY <2>46 DEF FinAbort, Stays, Sound
    <3>2. fin'.tr = NoTr /\ fin'.pc = "relock"
      <4>1. fin' = [fin EXCEPT !.pc = "relock", !.tr = NoTr]
        BY <2>46 DEF FinAbort
      <4> QED
        BY <2>1, <4>1, SMTT(60)
    <3>3. FinInv' /\ \A t \in Threads : Waits(t)'
      BY <2>2, <3>1, <3>2 DEF FinInv, Stays, Waits
    <3> QED
      BY <3>1, <3>3 DEF FlushInv
  <2> QED
    BY <2>14, <2>15, <2>16, <2>17, <2>18, <2>19, <2>20, <2>21, <2>22, <2>23, <2>24, <2>25, <2>26,
       <2>27, <2>28, <2>29, <2>30, <2>31, <2>32, <2>33, <2>34, <2>35, <2>36, <2>37, <2>38, <2>39,
       <2>41, <2>42, <2>43, <2>44, <2>45, <2>46 DEF Next, Call, Step, Finisher, Quiet
<1> QED
  BY Inductive, <1>1, <1>2, <1>3, PTL DEF Spec

-----------------------------------------------------------------------------
(* journal_close *)

\* t closes the journal: it waits, flushes the last transaction, or is about to free it.
Closes(t) ==
    \/ pc[t] \in {"close", "close_home", "close_io"}
    \/ pc[t] \in {"flush", "space", "full", "finish", "flushed"} /\ op[t] = "close"

\* One thread closes the journal, when the others are outside, and waits for the flush before
\* it frees the journal.
Shut(t) ==
    /\ Closes(t) => closed = "closing"
    /\ closed # "open" => pc[t] = "out" \/ Closes(t)
    /\ pc[t] = "close_io" => ~flushing

\* Without errors the header is written while the flush that asked for it waits.
HeaderInv ==
    /\ writing_header => fin.pc = "log" \/ "errors" \in scenario
    /\ fin.pc = "idle" => fin = Idle

CloseInv ==
    /\ HeaderInv /\ \A t \in Threads : Shut(t)
    /\ closed # "open" => "close" \in scenario
    /\ closed = "closed" => ~flushing /\ io_tr = NoTr

\* In the configurations in which nothing fails once the journal may be closed, journal_close
\* frees the journal only when its conditions are clear and the work they stand for is over:
\* no transaction is being flushed or written home, and the header thread is not writing.
\* The theorem does not say that nobody refers to the journal any more: the thread that
\* cleared flushing, or the callback that cleared asyncIO, may still be on its way out
\* (leaving), and after a failed log write the header thread may still be writing.
THEOREM CloseIsLast ==
    ASSUME \A s \in Scenarios : "errors" \in s => "close" \notin s
    PROVE  Spec => []CloseQuiet
<1>1. Init => ErrorInv /\ CloseInv
  <2> SUFFICES ASSUME Init PROVE ErrorInv /\ CloseInv
    OBVIOUS
  <2>1. ErrorInv
    BY SMTT(60) DEF Init, ErrorInv
  <2>2. /\ fin = Idle /\ ~writing_header /\ closed = "open"
        /\ \A t \in Threads : pc[t] = "out" /\ op[t] = "end"
    BY ZenonT(60) DEF Init
  <2>3. CloseInv
    BY <2>2, ZenonT(60) DEF CloseInv, HeaderInv, Shut, Closes
  <2> QED
    BY <2>1, <2>3
\* The steps of journal_close come one after the other, and no other thread, nor a flush that
\* is still running, disturbs them.
<1>2. IndInv /\ ErrorInv /\ CloseInv /\ [Next]_vars => CloseInv'
  <2> USE ZenonT(60)
  <2> SUFFICES ASSUME IndInv, ErrorInv, CloseInv, [Next]_vars PROVE CloseInv'
    OBVIOUS
  <2>1. /\ pc \in [Threads -> Labels] /\ op \in [Threads -> Ops]
        /\ fin \in [pc : {"idle", "log", "commit", "issue", "release", "abort", "relock"},
                    by : Threads \cup {Kernel, None}, tr : Tr \cup {NoTr}]
    BY DEF IndInv, TypeOK, ThreadType, FinType
  <2>2. /\ HeaderInv /\ (\A t \in Threads : Shut(t)) /\ (closed # "open" => "close" \in scenario)
        /\ (closed = "closed" => ~flushing /\ io_tr = NoTr)
        /\ LockHeld /\ Finishing /\ CondsOwned /\ Calls
    BY DEF CloseInv, IndInv, LockInv
  <2>3. /\ flushing <=> \/ fin.pc \in {"log", "commit", "issue", "release", "abort"}
                        \/ \E t \in Threads : pc[t] \in {"space", "full"}
        /\ asyncIO <=> io_tr # NoTr
    BY <2>2 DEF CondsOwned
  <2> HIDE DEF NoTr, Tr
  <2>6. ASSUME NEW t \in Threads, NEW l, Goto(t, l)
        PROVE  pc'[t] = l /\ \A u \in Threads \ {t} : pc'[u] = pc[u]
    BY <2>1, <2>6
  <2>7. ASSUME NEW t \in Threads, NEW v, op' = [op EXCEPT ![t] = v]
        PROVE  op'[t] = v /\ \A u \in Threads \ {t} : op'[u] = op[u]
    BY <2>1, <2>7
  \* The lock is held throughout journal_close, so one thread is in it.
  <2>8. \A t \in Threads : Closes(t) => owner = t
    <3>1. \A t \in Threads : Closes(t) => Holds(t)
      BY DEF Closes, Holds, Drops
    <3> QED
      BY <2>2, <3>1 DEF LockHeld
  \* A step of t after which nothing of journal_close has changed for the others.
  <2>9. ASSUME NEW t \in Threads, \A u \in Threads \ {t} : pc'[u] = pc[u] /\ op'[u] = op[u],
               UNCHANGED <<scenario, closed, io_tr>>, HeaderInv', flushing' => flushing, Shut(t)'
        PROVE  CloseInv'
    <3>1. \A u \in Threads \ {t} : Closes(u)' <=> Closes(u)
      BY <2>9 DEF Closes
    <3>2. \A u \in Threads \ {t} : Shut(u)'
      BY <2>2, <2>9, <3>1 DEF Shut
    <3>3. /\ closed' # "open" => "close" \in scenario'
          /\ closed' = "closed" => ~flushing' /\ io_tr' = NoTr
      BY <2>2, <2>9
    <3> QED
      BY <2>9, <3>2, <3>3 DEF CloseInv
  \* A step of t in the open journal.
  <2>10. ASSUME NEW t \in Threads, \A u \in Threads \ {t} : pc'[u] = pc[u] /\ op'[u] = op[u],
                UNCHANGED <<scenario, closed, io_tr, fin, writing_header, flushing>>,
                closed = "open", ~Closes(t)'
         PROVE  CloseInv'
    <3>1. HeaderInv' /\ Shut(t)'
      BY <2>2, <2>10 DEF HeaderInv, Shut, Closes
    <3> QED
      BY <2>9, <2>10, <3>1
  <2>11. \A t \in Threads : pc[t] # "out" /\ ~Closes(t) => closed = "open"
    BY <2>2 DEF Shut
  <2>12. ASSUME NEW t \in Threads, StartCheck(t) \/ StartLock(t) \/ StartFails(t) PROVE CloseInv'
    <3>1. \A u \in Threads \ {t} : pc'[u] = pc[u] /\ op'[u] = op[u]
      BY <2>6, <2>7, <2>12 DEF StartCheck, StartLock, StartFails
    <3>2. UNCHANGED <<scenario, closed, io_tr, fin, writing_header, flushing>>
      BY <2>12 DEF StartCheck, StartLock, StartFails
    <3>3. closed = "open"
      BY <2>2, <2>11, <2>12 DEF StartCheck, StartLock, StartFails, Closes, Calls
    <3>4. ~Closes(t)'
      <4>1. \E l \in {"start", "in", "out"} : Goto(t, l)
        BY <2>12 DEF StartCheck, StartLock, StartFails
      <4>2. pc'[t] \in {"start", "in", "out"}
        BY <2>6, <4>1
      <4> QED
        BY <4>2 DEF Closes
    <3> QED
      BY <2>10, <3>1, <3>2, <3>3, <3>4
  <2>13. ASSUME NEW t \in Threads,
                StartNested(t) \/ Modify(t) \/ ModifyFails(t) \/ EndNested(t)
         PROVE  CloseInv'
    <3>1. \A u \in Threads \ {t} : pc'[u] = pc[u] /\ op'[u] = op[u]
      BY <2>6, <2>7, <2>13 DEF StartNested, Modify, ModifyFails, EndNested
    <3>2. UNCHANGED <<scenario, closed, io_tr, fin, writing_header, flushing>>
      BY <2>13 DEF StartNested, Modify, ModifyFails, EndNested
    <3>3. closed = "open"
      BY <2>2, <2>11, <2>13 DEF StartNested, Modify, ModifyFails, EndNested, Closes, Calls
    <3>4. ~Closes(t)'
      BY <2>13 DEF StartNested, Modify, ModifyFails, EndNested, Closes
    <3> QED
      BY <2>10, <3>1, <3>2, <3>3, <3>4
  <2>14. ASSUME NEW t \in Threads, EndInvalid(t) \/ EndGroup(t) PROVE CloseInv'
    <3>1. \A u \in Threads \ {t} : pc'[u] = pc[u] /\ op'[u] = op[u]
      BY <2>6, <2>7, <2>14 DEF EndInvalid, EndGroup
    <3>2. UNCHANGED <<scenario, closed, io_tr, fin, writing_header, flushing>>
      BY <2>14 DEF EndInvalid, EndGroup
    <3>3. closed = "open"
      BY <2>2, <2>11, <2>14 DEF EndInvalid, EndGroup, Closes, Calls
    <3>4. ~Closes(t)'
      <4>1. \E l \in {"out"} : Goto(t, l)
        BY <2>14 DEF EndInvalid, EndGroup
      <4>2. pc'[t] \in {"out"}
        BY <2>6, <4>1
      <4> QED
        BY <4>2 DEF Closes
    <3> QED
      BY <2>10, <3>1, <3>2, <3>3, <3>4
  <2>15. ASSUME NEW t \in Threads, EndFlush(t) \/ RelocateBegin(t) PROVE CloseInv'
    <3>1. \A u \in Threads \ {t} : pc'[u] = pc[u] /\ op'[u] = op[u]
      BY <2>6, <2>7, <2>15 DEF EndFlush, RelocateBegin
    <3>2. UNCHANGED <<scenario, closed, io_tr, fin, writing_header, flushing>>
      BY <2>15 DEF EndFlush, RelocateBegin
    <3>3. closed = "open"
      BY <2>2, <2>11, <2>15 DEF EndFlush, RelocateBegin, Closes, Calls
    <3>4. ~Closes(t)'
      <4>1. CASE EndFlush(t)
        <5>1. pc'[t] = "flush" /\ op'[t] = "end"
          BY <2>6, <2>7, <4>1 DEF EndFlush
        <5> QED
          BY <5>1 DEF Closes
      <4>2. CASE RelocateBegin(t)
        <5>1. pc'[t] = "reloc"
          BY <2>6, <4>2 DEF RelocateBegin
        <5> QED
          BY <5>1 DEF Closes
      <4> QED
        BY <2>15, <4>1, <4>2
    <3> QED
      BY <2>10, <3>1, <3>2, <3>3, <3>4
  <2>16. ASSUME NEW t \in Threads, FlushCheck(t) PROVE CloseInv'
    <3>1. \A u \in Threads \ {t} : pc'[u] = pc[u] /\ op'[u] = op[u]
      BY <2>6, <2>7, <2>16 DEF FlushCheck
    <3>2. UNCHANGED <<scenario, closed, io_tr, fin, writing_header, flushing>>
      BY <2>16 DEF FlushCheck
    <3>3. closed = "open"
      BY <2>2, <2>11, <2>16 DEF FlushCheck, Closes, Calls
    <3>4. ~Closes(t)'
      <4>1. \E l \in {"sync"} : Goto(t, l)
        BY <2>16 DEF FlushCheck
      <4>2. pc'[t] \in {"sync"}
        BY <2>6, <4>1
      <4> QED
        BY <4>2 DEF Closes
    <3> QED
      BY <2>10, <3>1, <3>2, <3>3, <3>4
  <2>17. ASSUME NEW t \in Threads, FlushInside(t) \/ FlushHold(t) PROVE CloseInv'
    <3>1. \A u \in Threads \ {t} : pc'[u] = pc[u] /\ op'[u] = op[u]
      BY <2>6, <2>7, <2>17 DEF FlushInside, FlushHold
    <3>2. UNCHANGED <<scenario, closed, io_tr, fin, writing_header, flushing>>
      BY <2>17 DEF FlushInside, FlushHold
    <3>3. closed = "open"
      BY <2>2, <2>11, <2>17 DEF FlushInside, FlushHold, Closes, Calls
    <3>4. ~Closes(t)'
      <4>1. \E l \in {"in", "hold", "hold_io"} : Goto(t, l)
        BY <2>17 DEF FlushInside, FlushHold
      <4>2. pc'[t] \in {"in", "hold", "hold_io"}
        BY <2>6, <4>1
      <4> QED
        BY <4>2 DEF Closes
    <3> QED
      BY <2>10, <3>1, <3>2, <3>3, <3>4
  <2>18. ASSUME NEW t \in Threads, FlushTake(t) PROVE CloseInv'
    <3>1. \A u \in Threads \ {t} : pc'[u] = pc[u] /\ op'[u] = op[u]
      BY <2>6, <2>7, <2>18 DEF FlushTake
    <3>2. UNCHANGED <<scenario, closed, io_tr, fin, writing_header, flushing>>
      BY <2>18 DEF FlushTake
    <3>3. closed = "open"
      BY <2>2, <2>11, <2>18 DEF FlushTake, Closes, Calls
    <3>4. ~Closes(t)'
      <4>1. \E l \in {"quiesce", "force"} : Goto(t, l)
        BY <2>18 DEF FlushTake
      <4>2. pc'[t] \in {"quiesce", "force"}
        BY <2>6, <4>1
      <4> QED
        BY <4>2 DEF Closes
    <3> QED
      BY <2>10, <3>1, <3>2, <3>3, <3>4
  <2>19. ASSUME NEW t \in Threads, FlushNone(t) PROVE CloseInv'
    <3>1. \A u \in Threads \ {t} : pc'[u] = pc[u] /\ op'[u] = op[u]
      BY <2>6, <2>7, <2>19 DEF FlushNone
    <3>2. UNCHANGED <<scenario, closed, io_tr, fin, writing_header, flushing>>
      BY <2>19 DEF FlushNone
    <3>3. closed = "open"
      BY <2>2, <2>11, <2>19 DEF FlushNone, Closes, Calls
    <3>4. ~Closes(t)'
      <4>1. \E l \in {"wait"} : Goto(t, l)
        BY <2>19 DEF FlushNone
      <4>2. pc'[t] \in {"wait"}
        BY <2>6, <4>1
      <4> QED
        BY <4>2 DEF Closes
    <3> QED
      BY <2>10, <3>1, <3>2, <3>3, <3>4
  <2>20. ASSUME NEW t \in Threads, FlushQuiesce(t) \/ FlushIo(t) \/ FlushReturn(t) PROVE CloseInv'
    <3>1. \A u \in Threads \ {t} : pc'[u] = pc[u] /\ op'[u] = op[u]
      BY <2>6, <2>7, <2>20 DEF FlushQuiesce, FlushIo, FlushReturn
    <3>2. UNCHANGED <<scenario, closed, io_tr, fin, writing_header, flushing>>
      BY <2>20 DEF FlushQuiesce, FlushIo, FlushReturn
    <3>3. closed = "open"
      BY <2>2, <2>11, <2>20 DEF FlushQuiesce, FlushIo, FlushReturn, Closes, Calls
    <3>4. ~Closes(t)'
      <4>1. \E l \in {"quiesce_io", "force", "done", "out"} : Goto(t, l)
        BY <2>20 DEF FlushQuiesce, FlushIo, FlushReturn
      <4>2. pc'[t] \in {"quiesce_io", "force", "done", "out"}
        BY <2>6, <4>1
      <4> QED
        BY <4>2 DEF Closes
    <3> QED
      BY <2>10, <3>1, <3>2, <3>3, <3>4
  <2>21. ASSUME NEW t \in Threads, FlushWait(t) PROVE CloseInv'
    <3>1. \A u \in Threads \ {t} : pc'[u] = pc[u] /\ op'[u] = op[u]
      BY <2>6, <2>7, <2>21 DEF FlushWait
    <3>2. UNCHANGED <<scenario, closed, io_tr, fin, writing_header, flushing>>
      BY <2>21 DEF FlushWait
    <3>3. closed = "open"
      BY <2>2, <2>11, <2>21 DEF FlushWait, Closes, Calls
    <3>4. ~Closes(t)'
      <4>1. \E l \in {"io", "done"} : Goto(t, l)
        BY <2>21 DEF FlushWait
      <4>2. pc'[t] \in {"io", "done"}
        BY <2>6, <4>1
      <4> QED
        BY <4>2 DEF Closes
    <3> QED
      BY <2>10, <3>1, <3>2, <3>3, <3>4
  <2>22. ASSUME NEW t \in Threads, FlushForce(t) PROVE CloseInv'
    <3>1. \A u \in Threads \ {t} : pc'[u] = pc[u] /\ op'[u] = op[u]
      BY <2>6, <2>7, <2>22 DEF FlushForce
    <3>2. UNCHANGED <<scenario, closed, io_tr, fin, writing_header, flushing>>
      BY <2>22 DEF FlushForce
    <3>3. closed = "open"
      BY <2>2, <2>11, <2>22 DEF FlushForce, Closes, Calls
    <3>4. ~Closes(t)'
      <4>1. (\E l \in {"io", "empty"} : Goto(t, l)) \/ (Goto(t, "flush") /\ op'[t] # "close")
        BY <2>2, <2>7, <2>22 DEF FlushForce, Calls
      <4>2. pc'[t] \in {"io", "empty"} \/ (pc'[t] = "flush" /\ op'[t] # "close")
        BY <2>6, <4>1
      <4> QED
        BY <4>2 DEF Closes
    <3> QED
      BY <2>10, <3>1, <3>2, <3>3, <3>4
  <2>23. ASSUME NEW t \in Threads, RelocateWait(t) PROVE CloseInv'
    <3>1. \A u \in Threads \ {t} : pc'[u] = pc[u] /\ op'[u] = op[u]
      BY <2>6, <2>7, <2>23 DEF RelocateWait
    <3>2. UNCHANGED <<scenario, closed, io_tr, fin, writing_header, flushing>>
      BY <2>23 DEF RelocateWait
    <3>3. closed = "open"
      BY <2>2, <2>11, <2>23 DEF RelocateWait, Closes, Calls
    <3>4. ~Closes(t)'
      <4>1. (\E l \in {"reloc_io"} : Goto(t, l)) \/ (Goto(t, "flush") /\ op'[t] # "close")
        BY <2>2, <2>7, <2>23 DEF RelocateWait, Calls
      <4>2. pc'[t] \in {"reloc_io"} \/ (pc'[t] = "flush" /\ op'[t] # "close")
        BY <2>6, <4>1
      <4> QED
        BY <4>2 DEF Closes
    <3> QED
      BY <2>10, <3>1, <3>2, <3>3, <3>4
  \* The flush of the last transaction.
  <2>24. ASSUME NEW t \in Threads, pc[t] \in {"flush", "space", "full", "finish", "flushed"},
                op'[t] = op[t], flushing' => flushing, closed' = closed,
                \/ pc'[t] \in {"flush", "space", "full", "finish", "flushed"}
                \/ op[t] = "close" /\ pc'[t] = "close_home"
                \/ op[t] # "close" /\ pc'[t] \in {"in", "out", "io", "done"}
         PROVE  Shut(t)'
    <3>1. Closes(t)' <=> Closes(t)
      BY <2>24 DEF Closes
    <3>2. pc'[t] # "close_io" /\ pc[t] # "out"
      BY <2>24
    <3> QED
      BY <2>2, <2>24, <3>1, <3>2 DEF Shut
  <2>25. ASSUME NEW t \in Threads, FlushRefused(t) PROVE CloseInv'
    <3>1. UNCHANGED <<scenario, closed, io_tr, fin, writing_header, flushing, op>> /\ pc[t] = "flush"
      BY <2>25 DEF FlushRefused
    <3>2. /\ \/ op[t] = "close" /\ pc'[t] = "close_home"
             \/ op[t] # "close" /\ pc'[t] \in {"in", "out", "io", "done"}
          /\ \A u \in Threads \ {t} : pc'[u] = pc[u]
      <4>1. op[t] \in Ops
        BY <2>1
      <4>2. PICK l : /\ Goto(t, l)
                     /\ \/ op[t] = "close" /\ l = "close_home"
                        \/ op[t] # "close" /\ l \in {"in", "out", "io", "done"}
        BY <2>25, <4>1 DEF FlushRefused
      <4> QED
        BY <2>6, <4>2
    <3>3. HeaderInv' /\ Shut(t)'
      BY <2>2, <2>24, <3>1, <3>2 DEF HeaderInv
    <3> QED
      BY <2>9, <3>1, <3>2, <3>3
  <2>26. ASSUME NEW t \in Threads, Resume(t) PROVE CloseInv'
    <3>1. /\ UNCHANGED <<scenario, closed, io_tr, fin, writing_header, flushing, op>>
          /\ pc[t] = "flushed"
      BY <2>26 DEF Resume
    <3>2. /\ \/ op[t] = "close" /\ pc'[t] = "close_home"
             \/ op[t] # "close" /\ pc'[t] \in {"in", "out", "io", "done"}
          /\ \A u \in Threads \ {t} : pc'[u] = pc[u]
      <4>1. op[t] \in Ops
        BY <2>1
      <4>2. PICK l : /\ Goto(t, l)
                     /\ \/ op[t] = "close" /\ l = "close_home"
                        \/ op[t] # "close" /\ l \in {"in", "out", "io", "done"}
        BY <2>26, <4>1 DEF Resume
      <4> QED
        BY <2>6, <4>2
    <3>3. HeaderInv' /\ Shut(t)'
      BY <2>2, <2>24, <3>1, <3>2 DEF HeaderInv
    <3> QED
      BY <2>9, <3>1, <3>2, <3>3
  <2>27. ASSUME NEW t \in Threads, TakeFlushing(t) PROVE CloseInv'
    <3>1. UNCHANGED <<scenario, closed, io_tr, fin, writing_header, op>> /\ pc[t] = "flush"
      BY <2>27 DEF TakeFlushing
    <3>2. pc'[t] \in {"space", "full"} /\ \A u \in Threads \ {t} : pc'[u] = pc[u]
      BY <2>6, <2>27 DEF TakeFlushing
    <3>3. owner = t /\ closed # "closed"
      BY <2>2, <3>1 DEF LockHeld, Holds, Shut, Closes
    <3>4. \A u \in Threads : (Closes(u)' <=> Closes(u)) /\ (pc'[u] = "out" <=> pc[u] = "out")
      BY <3>1, <3>2 DEF Closes
    <3>5. \A u \in Threads : pc'[u] # "close_io"
      <4>1. \A u \in Threads \ {t} : pc[u] # "close_io"
        BY <2>8, <3>3 DEF Closes
      <4> QED
        BY <3>2, <4>1
    <3>6. \A u \in Threads : Shut(u)'
      BY <2>2, <3>1, <3>4, <3>5 DEF Shut
    <3>7. HeaderInv'
      BY <2>2, <3>1 DEF HeaderInv
    <3> QED
      BY <2>2, <3>1, <3>3, <3>6, <3>7 DEF CloseInv
  <2>28. ASSUME NEW t \in Threads, Reserve(t) PROVE CloseInv'
    <3>1. PICK by : /\ fin' = [pc |-> "log", by |-> by, tr |-> tr[t]]
                    /\ Goto(t, IF by = t THEN "finish" ELSE "out")
                    /\ op[t] # "end" => by = t
      BY <2>28 DEF Reserve
    <3>2. UNCHANGED <<scenario, closed, io_tr, flushing, op>> /\ pc[t] \in {"space", "full"}
      BY <2>28 DEF Reserve
    <3>3. /\ pc'[t] = "finish" \/ (op[t] # "close" /\ pc'[t] = "out")
          /\ \A u \in Threads \ {t} : pc'[u] = pc[u]
      BY <2>6, <3>1
    <3>4. fin'.pc = "log"
      BY <3>1
    <3>5. HeaderInv'
      BY <3>4 DEF HeaderInv
    <3>6. Shut(t)'
      BY <2>24, <3>2, <3>3
    <3> QED
      BY <2>9, <3>2, <3>3, <3>5, <3>6
  \* journal_close itself.
  <2>29. ASSUME NEW t \in Threads, CloseLock(t) PROVE CloseInv'
    <3>1. /\ UNCHANGED <<scenario, io_tr, fin, writing_header, flushing>>
          /\ "close" \in scenario /\ closed' = "closing"
      BY <2>29 DEF CloseLock
    <3>2. pc'[t] = "close" /\ \A u \in Threads \ {t} : pc'[u] = "out"
      BY <2>6, <2>29 DEF CloseLock
    <3>3. \A u \in Threads : Shut(u)'
      BY <3>1, <3>2 DEF Shut, Closes
    <3>4. HeaderInv'
      BY <2>2, <3>1 DEF HeaderInv
    <3> QED
      BY <3>1, <3>3, <3>4 DEF CloseInv
  <2>30. ASSUME NEW t \in Threads, CloseFlush(t) \/ CloseHeader(t) PROVE CloseInv'
    <3>1. /\ UNCHANGED <<scenario, closed, io_tr, fin, writing_header, flushing>> /\ ~flushing
          /\ pc[t] \in {"close", "close_home"}
      BY <2>30 DEF CloseFlush, CloseHeader
    <3>2. \A u \in Threads \ {t} : pc'[u] = pc[u] /\ op'[u] = op[u]
      BY <2>6, <2>7, <2>30 DEF CloseFlush, CloseHeader
    <3>3. pc'[t] \in {"close_io", "close_home"} \/ (pc'[t] = "flush" /\ op'[t] = "close")
      BY <2>6, <2>7, <2>30 DEF CloseFlush, CloseHeader
    <3>4. Closes(t) /\ Closes(t)'
      BY <3>1, <3>3 DEF Closes
    <3>5. HeaderInv' /\ Shut(t)'
      BY <2>2, <3>1, <3>4 DEF HeaderInv, Shut
    <3> QED
      BY <2>9, <3>1, <3>2, <3>5
  <2>31. ASSUME NEW t \in Threads, CloseFree(t) PROVE CloseInv'
    <3>1. /\ UNCHANGED <<scenario, io_tr, fin, writing_header, flushing>> /\ closed' = "closed"
          /\ ~asyncIO /\ pc[t] = "close_io"
      BY <2>31 DEF CloseFree
    <3>2. pc'[t] = "out" /\ \A u \in Threads \ {t} : pc'[u] = pc[u]
      BY <2>6, <2>31 DEF CloseFree
    <3>3. Closes(t) /\ ~flushing /\ closed = "closing"
      BY <2>2, <3>1 DEF Shut, Closes
    <3>4. \A u \in Threads \ {t} : ~Closes(u)
      BY <2>8, <3>3
    <3>5. \A u \in Threads \ {t} : pc[u] = "out"
      BY <2>2, <3>3, <3>4 DEF Shut
    <3>6. \A u \in Threads : pc'[u] = "out"
      BY <3>2, <3>5
    <3>7. \A u \in Threads : Shut(u)'
      BY <3>6 DEF Shut, Closes
    <3>8. HeaderInv'
      BY <2>2, <3>1 DEF HeaderInv
    <3>9. io_tr' = NoTr /\ ~flushing' /\ "close" \in scenario'
      BY <2>2, <2>3, <3>1, <3>3
    <3> QED
      BY <3>1, <3>7, <3>8, <3>9 DEF CloseInv
  \* finish_end_transaction, the header thread and the completion of the home writes.
  <2>32. ASSUME UNCHANGED <<scenario, closed, pc, op>>, HeaderInv', flushing' => flushing,
                io_tr' = io_tr \/ closed # "closed" \/ io_tr' = NoTr
         PROVE  CloseInv'
    <3>1. \A u \in Threads : Closes(u)' <=> Closes(u)
      BY <2>32 DEF Closes
    <3>2. \A u \in Threads : Shut(u)'
      BY <2>2, <2>32, <3>1 DEF Shut
    <3> QED
      BY <2>2, <2>32, <3>2 DEF CloseInv
  <2>33. ASSUME HeaderThread PROVE CloseInv'
    <3>1. UNCHANGED <<scenario, closed, pc, op, flushing>>
      BY <2>33 DEF HeaderThread, vars
    <3>2. io_tr' = io_tr \/ closed # "closed" \/ io_tr' = NoTr
      BY <2>2, <2>3, <2>33 DEF HeaderThread, vars
    <3>3. HeaderInv'
      BY <2>2, <2>33 DEF HeaderThread, HeaderInv
    <3> QED
      BY <2>32, <3>1, <3>2, <3>3
  <2>34. ASSUME IoDone PROVE CloseInv'
    <3>1. UNCHANGED <<scenario, closed, pc, op, flushing>>
      BY <2>34 DEF IoDone, vars
    <3>2. io_tr' = io_tr \/ closed # "closed" \/ io_tr' = NoTr
      BY <2>2, <2>3, <2>34 DEF IoDone, vars
    <3>3. HeaderInv'
      BY <2>2, <2>34 DEF IoDone, HeaderInv
    <3> QED
      BY <2>32, <3>1, <3>2, <3>3
  <2>35. ASSUME FinLog \/ FinLogFails PROVE CloseInv'
    <3>1. UNCHANGED <<scenario, closed, pc, op, flushing>>
      BY <2>35 DEF FinLog, FinLogFails, vars
    <3>2. io_tr' = io_tr \/ closed # "closed" \/ io_tr' = NoTr
      BY <2>2, <2>3, <2>35 DEF FinLog, FinLogFails, vars
    <3>3. HeaderInv'
      <4>1. (~writing_header \/ "errors" \in scenario) /\ UNCHANGED <<writing_header, scenario>>
        BY <2>35 DEF FinLog, FinLogFails, ErrorInv
      <4>2. fin'.pc # "idle"
        BY <2>1, <2>35, SMTT(60) DEF FinLog, FinLogFails
      <4> QED
        BY <2>2, <4>1, <4>2 DEF HeaderInv
    <3> QED
      BY <2>32, <3>1, <3>2, <3>3
  <2>36. ASSUME FinCommit \/ FinCommitFails PROVE CloseInv'
    <3>1. UNCHANGED <<scenario, closed, pc, op, flushing>>
      BY <2>36 DEF FinCommit, FinCommitFails, vars
    <3>2. io_tr' = io_tr \/ closed # "closed" \/ io_tr' = NoTr
      BY <2>2, <2>3, <2>36 DEF FinCommit, FinCommitFails, vars
    <3>3. HeaderInv'
      <4>1. fin.pc # "log" /\ UNCHANGED <<writing_header, scenario>>
        BY <2>36 DEF FinCommit, FinCommitFails, ErrorInv
      <4>2. fin'.pc # "idle"
        BY <2>1, <2>36, SMTT(60) DEF FinCommit, FinCommitFails
      <4> QED
        BY <2>2, <4>1, <4>2 DEF HeaderInv
    <3> QED
      BY <2>32, <3>1, <3>2, <3>3
  <2>37. ASSUME FinIssue \/ FinIssueNone PROVE CloseInv'
    <3>1. UNCHANGED <<scenario, closed, pc, op, flushing>>
      BY <2>37 DEF FinIssue, FinIssueNone, vars
    <3>2. io_tr' = io_tr \/ closed # "closed" \/ io_tr' = NoTr
      BY <2>2, <2>3, <2>37 DEF FinIssue, FinIssueNone, vars
    <3>3. HeaderInv'
      <4>1. fin.pc # "log" /\ UNCHANGED <<writing_header, scenario>>
        BY <2>37 DEF FinIssue, FinIssueNone, ErrorInv
      <4>2. fin'.pc # "idle"
        <5>1. fin' = [fin EXCEPT !.pc = "release", !.tr = NoTr]
          BY <2>37 DEF FinIssue, FinIssueNone
        <5> QED
          BY <2>1, <5>1, SMTT(60)
      <4> QED
        BY <2>2, <4>1, <4>2 DEF HeaderInv
    <3> QED
      BY <2>32, <3>1, <3>2, <3>3
  <2>38. ASSUME FinAbort PROVE CloseInv'
    <3>1. UNCHANGED <<scenario, closed, pc, op, io_tr, writing_header>> /\ flushing' = FALSE
          /\ fin.pc = "abort"
      BY <2>38 DEF FinAbort
    <3>2. fin'.pc # "idle"
      BY <2>1, <2>38, SMTT(60) DEF FinAbort
    <3>3. HeaderInv'
      BY <2>2, <3>1, <3>2 DEF HeaderInv
    <3> QED
      BY <2>32, <3>1, <3>3
  <2>39. ASSUME FinRelease \/ FinInvalidate PROVE CloseInv'
    <3>1. /\ UNCHANGED <<scenario, closed, op, io_tr, writing_header>>
          /\ fin' = Idle /\ fin.pc \in {"release", "relock"}
      BY <2>39 DEF FinRelease, FinInvalidate
    <3>2. flushing' => flushing
      BY <2>39 DEF FinRelease, FinInvalidate
    <3>3. pc' = IF fin.by \in Threads THEN [pc EXCEPT ![fin.by] = "flushed"] ELSE pc
      BY <2>39 DEF FinRelease, FinInvalidate
    <3>4. HeaderInv'
      BY <2>2, <3>1 DEF HeaderInv
    <3>5. CASE fin.by \notin Threads
      BY <2>32, <3>1, <3>2, <3>3, <3>4, <3>5
    <3>6. CASE fin.by \in Threads
      <4>1. PICK t \in Threads : t = fin.by /\ pc[t] = "finish"
        BY <2>2, <3>1, <3>6 DEF Finishing
      <4>2. Goto(t, "flushed")
        BY <3>3, <3>6, <4>1
      <4>3. pc'[t] = "flushed" /\ \A u \in Threads \ {t} : pc'[u] = pc[u]
        BY <2>6, <4>1, <4>2
      <4>4. Shut(t)'
        BY <2>24, <3>1, <3>2, <4>1, <4>3
      <4> QED
        BY <2>9, <3>1, <3>2, <3>4, <4>1, <4>3, <4>4
    <3> QED
      BY <3>5, <3>6
  <2>40. ASSUME Leave \/ UNCHANGED vars PROVE CloseInv'
    <3>1. UNCHANGED <<scenario, closed, pc, op, flushing, io_tr, fin, writing_header>>
      BY <2>40 DEF Leave, vars
    <3>2. HeaderInv'
      BY <2>2, <3>1 DEF HeaderInv
    <3> QED
      BY <2>32, <3>1, <3>2
  <2> QED
    BY <2>12, <2>13, <2>14, <2>15, <2>16, <2>17, <2>18, <2>19, <2>20, <2>21, <2>22, <2>23, <2>25,
       <2>26, <2>27, <2>28, <2>29, <2>30, <2>31, <2>33, <2>34, <2>35, <2>36, <2>37, <2>38, <2>39,
       <2>40 DEF Next, Call, Step, Finisher, Quiet
<1>3. IndInv /\ ErrorInv /\ CloseInv /\ [Next]_vars => ErrorInv' /\ CloseInv'
  BY ErrorStep, <1>2, ZenonT(60)
<1>4. IndInv /\ ErrorInv /\ CloseInv => CloseQuiet
  <2> SUFFICES ASSUME IndInv, ErrorInv, CloseInv, closed = "closed"
               PROVE  fin = Idle /\ io_tr = NoTr /\ ~writing_header /\ ~flushing
    BY ZenonT(60) DEF CloseQuiet
  <2>1. "close" \in scenario /\ scenario \in Scenarios /\ "errors" \notin scenario
    BY ZenonT(60) DEF CloseInv, ErrorInv
  <2>2. io_tr = NoTr /\ ~flushing /\ HeaderInv
    BY ZenonT(60) DEF CloseInv
  <2>3. fin.pc \in {"idle", "log", "commit", "issue", "release", "abort", "relock"}
    BY ZenonT(60) DEF IndInv, TypeOK, FinType
  <2>4. fin.pc \notin {"log", "commit", "issue", "release", "abort"}
    BY <2>2, ZenonT(60) DEF IndInv, LockInv, CondsOwned
  <2>5. fin.pc # "relock"
    BY <2>1, ZenonT(60) DEF ErrorInv
  <2>6. fin.pc = "idle"
    BY <2>3, <2>4, <2>5, ZenonT(60)
  <2> QED
    BY <2>1, <2>2, <2>6, ZenonT(60) DEF HeaderInv
<1> QED
  BY Inductive, <1>1, <1>3, <1>4, PTL DEF Spec
=============================================================================
