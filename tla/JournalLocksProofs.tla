------------------------- MODULE JournalLocksProofs -------------------------
(***************************************************************************)
(* Proofs about JournalLocks, for any number of threads, transactions and   *)
(* nesting levels and for every scenario, I/O errors included.              *)
(***************************************************************************)
EXTENDS JournalLocks, TLAPS

(* The inductive invariant.  None of NoPanic, CondsOwned and TypeOK is         *)
(* inductive alone: which transaction a thread carries, which call it runs     *)
(* end_transaction for and who runs finish_end_transaction all matter.         *)

\* Thread t is inside a transaction it has not ended.
InTr(t) ==
    \/ pc[t] \in {"in", "hold", "hold_io", "reloc", "reloc_io"}
    \/ pc[t] \in {"flush", "space", "full", "finish", "flushed"} /\ op[t] = "relocate"

LockHeld == \A t \in Threads : Holds(t) <=> owner = t

Unlocked == owner = None => nested_count = 0 /\ active_tr = NoTr

Nesting == \A t \in Threads : owner = t => (InTr(t) <=> nested_count > 0)

ActiveTr ==
    \A t \in Threads : owner = t =>
        IF pc[t] \in {"in", "hold", "hold_io"} THEN active_tr # NoTr \/ invalid
        ELSE active_tr = NoTr

CurTr ==
    \A t \in Threads :
        owner = t /\ pc[t] \notin {"close", "close_home", "close_io"} => cur_tr = NoTr

\* The call that a thread on its way to end_transaction is in.
Calls ==
    \A t \in Threads :
        /\ pc[t] \in {"sync", "quiesce", "quiesce_io", "force"} => op[t] \in {"sync", "syncio"}
        /\ pc[t] \in {"reloc", "reloc_io"} => op[t] = "relocate"

\* A thread that is going to flush a transaction has one.
Carried ==
    \A t \in Threads :
        pc[t] \in {"quiesce", "quiesce_io", "force", "flush", "space", "full",
                   "reloc", "reloc_io"} => tr[t] # NoTr

\* finish_end_transaction has a transaction until it hands it on, runs for a
\* thread that waits for it, and after a failure has left its mark.
Finishing ==
    /\ fin.pc \in {"log", "commit", "issue", "abort"} => fin.tr # NoTr
    /\ fin.pc # "idle" /\ fin.by \in Threads => pc[fin.by] = "finish"
    /\ \A t \in Threads : pc[t] = "finish" => fin.pc # "idle" /\ fin.by = t
    /\ fin.pc = "relock" => flush_aborted

\* "flushing" has one owner.
OneFlush ==
    \A t \in Threads : pc[t] \in {"space", "full"} => fin.pc = "idle" /\ flushing

LockInv == /\ LockHeld /\ Unlocked /\ Nesting /\ ActiveTr /\ CurTr /\ Calls
           /\ Carried /\ Finishing /\ OneFlush /\ CondsOwned

IndInv == TypeOK /\ LockInv

USE ThreadAssumption, BoundAssumption, ScenarioAssumption
USE DEF NoTr, Tr, Labels, Ops, Idle, Goto, Free, FreeOld, FinReturn,
        jstate, conds, flags, local, mem, hist, fin_unchanged

\* Every step of a client thread, of finish_end_transaction, of the header thread
\* and of the I/O completion preserves the inductive invariant.
LEMMA IndStep == IndInv /\ [Next]_vars => IndInv'
<1> USE SMTT(300)
<1>1. SUFFICES ASSUME IndInv, [Next]_vars PROVE IndInv'
  OBVIOUS
<1>2. /\ LockType /\ CondType /\ ThreadType /\ FinType /\ MemType /\ HistType
      /\ LockHeld /\ Unlocked /\ Nesting /\ ActiveTr /\ CurTr /\ Calls /\ Carried
      /\ Finishing /\ OneFlush /\ CondsOwned
  BY <1>1 DEF IndInv, TypeOK, LockInv
<1>3. ASSUME NEW t \in Threads, StartCheck(t) PROVE IndInv'
  <2>1. TypeOK'
    BY <1>2, <1>3 DEF StartCheck, TypeOK, LockType, CondType, ThreadType, FinType,
         MemType, HistType, Carried, Finishing
  <2>2. LockInv'
    BY <1>2, <1>3 DEF StartCheck, LockInv, LockType, CondType, ThreadType, FinType,
         MemType, LockHeld, Holds, Drops, Unlocked, Nesting, InTr, ActiveTr, CurTr,
         Calls, Carried, Finishing, OneFlush, CondsOwned
  <2> QED
    BY <2>1, <2>2 DEF IndInv
<1>4. ASSUME NEW t \in Threads, StartLock(t) PROVE IndInv'
  <2>1. TypeOK'
    BY <1>2, <1>4 DEF StartLock, TypeOK, LockType, CondType, ThreadType, FinType,
         MemType, HistType, Carried, Finishing
  <2>2. LockInv'
    BY <1>2, <1>4 DEF StartLock, LockInv, LockType, CondType, ThreadType, FinType,
         MemType, LockHeld, Holds, Drops, Unlocked, Nesting, InTr, ActiveTr, CurTr,
         Calls, Carried, Finishing, OneFlush, CondsOwned
  <2> QED
    BY <2>1, <2>2 DEF IndInv
<1>5. ASSUME NEW t \in Threads, StartFails(t) PROVE IndInv'
  <2>1. TypeOK'
    BY <1>2, <1>5 DEF StartFails, TypeOK, LockType, CondType, ThreadType, FinType,
         MemType, HistType, Carried, Finishing
  <2>2. LockInv'
    BY <1>2, <1>5 DEF StartFails, LockInv, LockType, CondType, ThreadType, FinType,
         MemType, LockHeld, Holds, Drops, Unlocked, Nesting, InTr, ActiveTr, CurTr,
         Calls, Carried, Finishing, OneFlush, CondsOwned
  <2> QED
    BY <2>1, <2>2 DEF IndInv
<1>6. ASSUME NEW t \in Threads, StartNested(t) PROVE IndInv'
  <2>1. TypeOK'
    BY <1>2, <1>6 DEF StartNested, TypeOK, LockType, CondType, ThreadType, FinType,
         MemType, HistType, Carried, Finishing
  <2>2. LockInv'
    BY <1>2, <1>6 DEF StartNested, LockInv, LockType, CondType, ThreadType, FinType,
         MemType, LockHeld, Holds, Drops, Unlocked, Nesting, InTr, ActiveTr, CurTr,
         Calls, Carried, Finishing, OneFlush, CondsOwned
  <2> QED
    BY <2>1, <2>2 DEF IndInv
<1>7. ASSUME NEW t \in Threads, Modify(t) PROVE IndInv'
  <2>1. TypeOK'
    BY <1>2, <1>7 DEF Modify, TypeOK, LockType, CondType, ThreadType, FinType, MemType,
         HistType, Carried, Finishing
  <2>2. LockInv'
    BY <1>2, <1>7 DEF Modify, LockInv, LockType, CondType, ThreadType, FinType, MemType,
         LockHeld, Holds, Drops, Unlocked, Nesting, InTr, ActiveTr, CurTr, Calls,
         Carried, Finishing, OneFlush, CondsOwned
  <2> QED
    BY <2>1, <2>2 DEF IndInv
<1>8. ASSUME NEW t \in Threads, EndNested(t) PROVE IndInv'
  <2>1. TypeOK'
    BY <1>2, <1>8 DEF EndNested, TypeOK, LockType, CondType, ThreadType, FinType,
         MemType, HistType, Carried, Finishing
  <2>2. LockInv'
    BY <1>2, <1>8 DEF EndNested, LockInv, LockType, CondType, ThreadType, FinType,
         MemType, LockHeld, Holds, Drops, Unlocked, Nesting, InTr, ActiveTr, CurTr,
         Calls, Carried, Finishing, OneFlush, CondsOwned
  <2> QED
    BY <2>1, <2>2 DEF IndInv
<1>9. ASSUME NEW t \in Threads, EndInvalid(t) PROVE IndInv'
  <2>1. TypeOK'
    BY <1>2, <1>9 DEF EndInvalid, TypeOK, LockType, CondType, ThreadType, FinType,
         MemType, HistType, Carried, Finishing
  <2>2. LockInv'
    BY <1>2, <1>9 DEF EndInvalid, LockInv, LockType, CondType, ThreadType, FinType,
         MemType, LockHeld, Holds, Drops, Unlocked, Nesting, InTr, ActiveTr, CurTr,
         Calls, Carried, Finishing, OneFlush, CondsOwned
  <2> QED
    BY <2>1, <2>2 DEF IndInv
<1>10. ASSUME NEW t \in Threads, EndGroup(t) PROVE IndInv'
  <2>1. TypeOK'
    BY <1>2, <1>10 DEF EndGroup, TypeOK, LockType, CondType, ThreadType, FinType,
         MemType, HistType, Carried, Finishing
  <2>2. LockInv'
    BY <1>2, <1>10 DEF EndGroup, LockInv, LockType, CondType, ThreadType, FinType,
         MemType, LockHeld, Holds, Drops, Unlocked, Nesting, InTr, ActiveTr, CurTr,
         Calls, Carried, Finishing, OneFlush, CondsOwned
  <2> QED
    BY <2>1, <2>2 DEF IndInv
<1>11. ASSUME NEW t \in Threads, EndFlush(t) PROVE IndInv'
  <2>1. TypeOK'
    BY <1>2, <1>11 DEF EndFlush, TypeOK, LockType, CondType, ThreadType, FinType,
         MemType, HistType, Carried, Finishing
  <2>2. LockInv'
    BY <1>2, <1>11 DEF EndFlush, LockInv, LockType, CondType, ThreadType, FinType,
         MemType, LockHeld, Holds, Drops, Unlocked, Nesting, InTr, ActiveTr, CurTr,
         Calls, Carried, Finishing, OneFlush, CondsOwned
  <2> QED
    BY <2>1, <2>2 DEF IndInv
<1>12. ASSUME NEW t \in Threads, FlushCheck(t) PROVE IndInv'
  <2>1. TypeOK'
    BY <1>2, <1>12 DEF FlushCheck, TypeOK, LockType, CondType, ThreadType, FinType,
         MemType, HistType, Carried, Finishing
  <2>2. LockInv'
    BY <1>2, <1>12 DEF FlushCheck, LockInv, LockType, CondType, ThreadType, FinType,
         MemType, LockHeld, Holds, Drops, Unlocked, Nesting, InTr, ActiveTr, CurTr,
         Calls, Carried, Finishing, OneFlush, CondsOwned
  <2> QED
    BY <2>1, <2>2 DEF IndInv
<1>13. ASSUME NEW t \in Threads, FlushInside(t) PROVE IndInv'
  <2>1. TypeOK'
    BY <1>2, <1>13 DEF FlushInside, TypeOK, LockType, CondType, ThreadType, FinType,
         MemType, HistType, Carried, Finishing
  <2>2. LockInv'
    BY <1>2, <1>13 DEF FlushInside, LockInv, LockType, CondType, ThreadType, FinType,
         MemType, LockHeld, Holds, Drops, Unlocked, Nesting, InTr, ActiveTr, CurTr,
         Calls, Carried, Finishing, OneFlush, CondsOwned
  <2> QED
    BY <2>1, <2>2 DEF IndInv
<1>14. ASSUME NEW t \in Threads, RelocateBegin(t) PROVE IndInv'
  <2>1. TypeOK'
    BY <1>2, <1>14 DEF RelocateBegin, TypeOK, LockType, CondType, ThreadType, FinType,
         MemType, HistType, Carried, Finishing
  <2>2. LockInv'
    BY <1>2, <1>14 DEF RelocateBegin, LockInv, LockType, CondType, ThreadType, FinType,
         MemType, LockHeld, Holds, Drops, Unlocked, Nesting, InTr, ActiveTr, CurTr,
         Calls, Carried, Finishing, OneFlush, CondsOwned
  <2> QED
    BY <2>1, <2>2 DEF IndInv
<1>15. ASSUME NEW t \in Threads, CloseLock(t) PROVE IndInv'
  <2>1. TypeOK'
    BY <1>2, <1>15 DEF CloseLock, TypeOK, LockType, CondType, ThreadType, FinType,
         MemType, HistType, Carried, Finishing
  <2>2. LockInv'
    BY <1>2, <1>15 DEF CloseLock, LockInv, LockType, CondType, ThreadType, FinType,
         MemType, LockHeld, Holds, Drops, Unlocked, Nesting, InTr, ActiveTr, CurTr,
         Calls, Carried, Finishing, OneFlush, CondsOwned
  <2> QED
    BY <2>1, <2>2 DEF IndInv
<1>16. ASSUME NEW t \in Threads, FlushRefused(t) PROVE IndInv'
  <2>1. LockType'
    BY <1>2, <1>16 DEF FlushRefused, Drops, LockType
  <2>2. CondType'
    BY <1>2, <1>16, ZenonT(300) DEF FlushRefused, Drops, CondType
  <2>3. ThreadType'
    BY <1>2, <1>16 DEF FlushRefused, Drops, ThreadType, LockType
  <2>4. MemType'
    <3>1. tr[t] \in Tr
      BY <1>2, <1>16 DEF FlushRefused, Carried, ThreadType
    <3>2. freed[tr[t]] + 1 \in Nat /\ freed[tr[t]] + 2 \in Nat
      BY <1>2, <3>1 DEF MemType
    <3>3. freed' \in [Tr -> Nat]
      BY <1>2, <1>16, <3>1, <3>2 DEF FlushRefused, MemType
    <3> QED
      BY <1>2, <1>16, <3>3 DEF FlushRefused, MemType
  <2>5. FinType' /\ HistType'
    BY <1>2, <1>16 DEF FlushRefused, FinType, HistType
  <2>6. LockInv'
    BY <1>2, <1>16 DEF FlushRefused, LockInv, LockType, CondType, ThreadType, FinType,
         MemType, LockHeld, Holds, Drops, Unlocked, Nesting, InTr, ActiveTr, CurTr,
         Calls, Carried, Finishing, OneFlush, CondsOwned
  <2> QED
    BY <2>1, <2>2, <2>3, <2>4, <2>5, <2>6 DEF IndInv, TypeOK
<1>17. ASSUME NEW t \in Threads, TakeFlushing(t) PROVE IndInv'
  <2>1. CondType' /\ ThreadType'
    BY <1>2, <1>17 DEF TakeFlushing, CondType, ThreadType, LockType
  <2>2. LockType' /\ FinType' /\ MemType' /\ HistType'
    BY <1>2, <1>17 DEF TakeFlushing, LockType, FinType, MemType, HistType
  <2>3. LockInv'
    BY <1>2, <1>17 DEF TakeFlushing, LockInv, LockType, CondType, ThreadType, FinType,
         MemType, LockHeld, Holds, Drops, Unlocked, Nesting, InTr, ActiveTr, CurTr,
         Calls, Carried, Finishing, OneFlush, CondsOwned
  <2> QED
    BY <2>1, <2>2, <2>3 DEF IndInv, TypeOK
<1>18. ASSUME NEW t \in Threads, Reserve(t) PROVE IndInv'
  <2>1. LockType'
    BY <1>2, <1>18 DEF Reserve, Drops, LockType
  <2>2. CondType'
    BY <1>2, <1>18, ZenonT(300) DEF Reserve, Drops, CondType
  <2>3. ThreadType'
    BY <1>2, <1>18 DEF Reserve, Drops, ThreadType, LockType
  <2>4. FinType'
    BY <1>2, <1>18 DEF Reserve, Drops, FinType, ThreadType
  <2>5. MemType' /\ HistType'
    BY <1>2, <1>18 DEF Reserve, MemType, HistType
  <2>6. LockInv'
    BY <1>2, <1>18 DEF Reserve, LockInv, LockType, CondType, ThreadType, FinType,
         MemType, LockHeld, Holds, Drops, Unlocked, Nesting, InTr, ActiveTr, CurTr,
         Calls, Carried, Finishing, OneFlush, CondsOwned
  <2> QED
    BY <2>1, <2>2, <2>3, <2>4, <2>5, <2>6 DEF IndInv, TypeOK
<1>19. ASSUME NEW t \in Threads, Resume(t) PROVE IndInv'
  <2>1. LockType'
    BY <1>2, <1>19 DEF Resume, LockType, MemType
  <2>2. ThreadType'
    BY <1>2, <1>19 DEF Resume, ThreadType, LockType
  <2>3. MemType'
    BY <1>2, <1>19 DEF Resume, MemType, LockType, FinType
  <2>4. CondType' /\ FinType' /\ HistType'
    BY <1>2, <1>19 DEF Resume, CondType, FinType, HistType
  <2>5. LockInv'
    BY <1>2, <1>19 DEF Resume, LockInv, LockType, CondType, ThreadType, FinType, MemType,
         LockHeld, Holds, Drops, Unlocked, Nesting, InTr, ActiveTr, CurTr, Calls,
         Carried, Finishing, OneFlush, CondsOwned
  <2> QED
    BY <2>1, <2>2, <2>3, <2>4, <2>5 DEF IndInv, TypeOK
<1>20. ASSUME NEW t \in Threads, FlushTake(t) PROVE IndInv'
  <2>1. TypeOK'
    BY <1>2, <1>20 DEF FlushTake, Inflight, TypeOK, LockType, CondType, ThreadType,
         FinType, MemType, HistType, Carried, Finishing
  <2>2. LockInv'
    BY <1>2, <1>20 DEF FlushTake, LockInv, LockType, CondType, ThreadType, FinType,
         MemType, LockHeld, Holds, Drops, Unlocked, Nesting, InTr, ActiveTr, CurTr,
         Calls, Carried, Finishing, OneFlush, CondsOwned
  <2> QED
    BY <2>1, <2>2 DEF IndInv
<1>21. ASSUME NEW t \in Threads, FlushNone(t) PROVE IndInv'
  <2>1. TypeOK'
    BY <1>2, <1>21 DEF FlushNone, Inflight, TypeOK, LockType, CondType, ThreadType,
         FinType, MemType, HistType, Carried, Finishing
  <2>2. LockInv'
    BY <1>2, <1>21 DEF FlushNone, LockInv, LockType, CondType, ThreadType, FinType,
         MemType, LockHeld, Holds, Drops, Unlocked, Nesting, InTr, ActiveTr, CurTr,
         Calls, Carried, Finishing, OneFlush, CondsOwned
  <2> QED
    BY <2>1, <2>2 DEF IndInv
<1>22. ASSUME NEW t \in Threads, FlushQuiesce(t) PROVE IndInv'
  <2>1. ThreadType'
    BY <1>2, <1>22 DEF FlushQuiesce, ThreadType, LockType
  <2>2. LockType' /\ CondType' /\ FinType' /\ MemType' /\ HistType'
    BY <1>2, <1>22 DEF FlushQuiesce, LockType, CondType, FinType, MemType, HistType
  <2>3. LockInv'
    BY <1>2, <1>22 DEF FlushQuiesce, LockInv, LockType, CondType, ThreadType, FinType,
         MemType, LockHeld, Holds, Drops, Unlocked, Nesting, InTr, ActiveTr, CurTr,
         Calls, Carried, Finishing, OneFlush, CondsOwned
  <2> QED
    BY <2>1, <2>2, <2>3 DEF IndInv, TypeOK
<1>23. ASSUME NEW t \in Threads, FlushForce(t) PROVE IndInv'
  <2>1. LockType' /\ ThreadType'
    BY <1>2, <1>23 DEF FlushForce, LockType, ThreadType
  <2>2. CondType' /\ FinType' /\ MemType' /\ HistType'
    BY <1>2, <1>23 DEF FlushForce, CondType, FinType, MemType, HistType
  <2>3. LockInv'
    BY <1>2, <1>23 DEF FlushForce, LockInv, LockType, CondType, ThreadType, FinType,
         MemType, LockHeld, Holds, Drops, Unlocked, Nesting, InTr, ActiveTr, CurTr,
         Calls, Carried, Finishing, OneFlush, CondsOwned
  <2> QED
    BY <2>1, <2>2, <2>3 DEF IndInv, TypeOK
<1>24. ASSUME NEW t \in Threads, FlushWait(t) PROVE IndInv'
  <2>1. TypeOK'
    BY <1>2, <1>24 DEF FlushWait, TypeOK, LockType, CondType, ThreadType, FinType,
         MemType, HistType, Carried, Finishing
  <2>2. LockInv'
    BY <1>2, <1>24 DEF FlushWait, LockInv, LockType, CondType, ThreadType, FinType,
         MemType, LockHeld, Holds, Drops, Unlocked, Nesting, InTr, ActiveTr, CurTr,
         Calls, Carried, Finishing, OneFlush, CondsOwned
  <2> QED
    BY <2>1, <2>2 DEF IndInv
<1>25. ASSUME NEW t \in Threads, FlushIo(t) PROVE IndInv'
  <2>1. TypeOK'
    BY <1>2, <1>25 DEF FlushIo, TypeOK, LockType, CondType, ThreadType, FinType, MemType,
         HistType, Carried, Finishing
  <2>2. LockInv'
    BY <1>2, <1>25 DEF FlushIo, LockInv, LockType, CondType, ThreadType, FinType,
         MemType, LockHeld, Holds, Drops, Unlocked, Nesting, InTr, ActiveTr, CurTr,
         Calls, Carried, Finishing, OneFlush, CondsOwned
  <2> QED
    BY <2>1, <2>2 DEF IndInv
<1>26. ASSUME NEW t \in Threads, FlushReturn(t) PROVE IndInv'
  <2>1. TypeOK'
    BY <1>2, <1>26 DEF FlushReturn, TypeOK, LockType, CondType, ThreadType, FinType,
         MemType, HistType, Carried, Finishing
  <2>2. LockInv'
    BY <1>2, <1>26 DEF FlushReturn, LockInv, LockType, CondType, ThreadType, FinType,
         MemType, LockHeld, Holds, Drops, Unlocked, Nesting, InTr, ActiveTr, CurTr,
         Calls, Carried, Finishing, OneFlush, CondsOwned
  <2> QED
    BY <2>1, <2>2 DEF IndInv
<1>27. ASSUME NEW t \in Threads, FlushHold(t) PROVE IndInv'
  <2>1. ThreadType'
    BY <1>2, <1>27 DEF FlushHold, ThreadType, LockType
  <2>2. LockType' /\ CondType' /\ FinType' /\ MemType' /\ HistType'
    BY <1>2, <1>27 DEF FlushHold, LockType, CondType, FinType, MemType, HistType
  <2>3. LockInv'
    BY <1>2, <1>27 DEF FlushHold, LockInv, LockType, CondType, ThreadType, FinType,
         MemType, LockHeld, Holds, Drops, Unlocked, Nesting, InTr, ActiveTr, CurTr,
         Calls, Carried, Finishing, OneFlush, CondsOwned
  <2> QED
    BY <2>1, <2>2, <2>3 DEF IndInv, TypeOK
<1>28. ASSUME NEW t \in Threads, RelocateWait(t) PROVE IndInv'
  <2>1. ThreadType'
    BY <1>2, <1>28 DEF RelocateWait, ThreadType, LockType
  <2>2. LockType' /\ CondType' /\ FinType' /\ MemType' /\ HistType'
    BY <1>2, <1>28 DEF RelocateWait, LockType, CondType, FinType, MemType, HistType
  <2>3. LockInv'
    BY <1>2, <1>28 DEF RelocateWait, LockInv, LockType, CondType, ThreadType, FinType,
         MemType, LockHeld, Holds, Drops, Unlocked, Nesting, InTr, ActiveTr, CurTr,
         Calls, Carried, Finishing, OneFlush, CondsOwned
  <2> QED
    BY <2>1, <2>2, <2>3 DEF IndInv, TypeOK
<1>29. ASSUME NEW t \in Threads, CloseFlush(t) PROVE IndInv'
  <2>1. LockType'
    BY <1>2, <1>29 DEF CloseFlush, LockType
  <2>2. ThreadType'
    BY <1>2, <1>29 DEF CloseFlush, ThreadType, LockType
  <2>3. MemType'
    <3>1. \A x \in Tr : freed[x] \in Nat /\ freed[x] + 1 \in Nat
      BY <1>2 DEF MemType
    <3>2. freed' = freed \/ freed' = [x \in Tr |-> IF x \in {cur_tr} THEN freed[x] + 1
                                                 ELSE freed[x]]
      BY <1>29 DEF CloseFlush
    <3>3. freed' \in [Tr -> Nat]
      BY <1>2, <3>1, <3>2 DEF MemType
    <3> QED
      BY <1>2, <1>29, <3>3 DEF CloseFlush, MemType
  <2>4. CondType' /\ FinType' /\ HistType'
    BY <1>2, <1>29 DEF CloseFlush, CondType, FinType, HistType
  <2>5. LockInv'
    BY <1>2, <1>29 DEF CloseFlush, LockInv, LockType, CondType, ThreadType, FinType,
         MemType, LockHeld, Holds, Drops, Unlocked, Nesting, InTr, ActiveTr, CurTr,
         Calls, Carried, Finishing, OneFlush, CondsOwned
  <2> QED
    BY <2>1, <2>2, <2>3, <2>4, <2>5 DEF IndInv, TypeOK
<1>30. ASSUME NEW t \in Threads, CloseHeader(t) PROVE IndInv'
  <2>1. TypeOK'
    BY <1>2, <1>30 DEF CloseHeader, TypeOK, LockType, CondType, ThreadType, FinType,
         MemType, HistType, Carried, Finishing
  <2>2. LockInv'
    BY <1>2, <1>30 DEF CloseHeader, LockInv, LockType, CondType, ThreadType, FinType,
         MemType, LockHeld, Holds, Drops, Unlocked, Nesting, InTr, ActiveTr, CurTr,
         Calls, Carried, Finishing, OneFlush, CondsOwned
  <2> QED
    BY <2>1, <2>2 DEF IndInv
<1>31. ASSUME NEW t \in Threads, CloseFree(t) PROVE IndInv'
  <2>1. TypeOK'
    BY <1>2, <1>31 DEF CloseFree, TypeOK, LockType, CondType, ThreadType, FinType,
         MemType, HistType, Carried, Finishing
  <2>2. LockInv'
    BY <1>2, <1>31 DEF CloseFree, LockInv, LockType, CondType, ThreadType, FinType,
         MemType, LockHeld, Holds, Drops, Unlocked, Nesting, InTr, ActiveTr, CurTr,
         Calls, Carried, Finishing, OneFlush, CondsOwned
  <2> QED
    BY <2>1, <2>2 DEF IndInv
<1>32. CASE FinLog
  <2>1. FinType'
    BY <1>2, <1>32 DEF FinLog, FinType, ThreadType
  <2>2. LockType' /\ CondType' /\ ThreadType' /\ MemType' /\ HistType'
    BY <1>2, <1>32 DEF FinLog, LockType, CondType, ThreadType, MemType, HistType
  <2>3. LockInv'
    BY <1>2, <1>32 DEF FinLog, LockInv, LockType, CondType, ThreadType, FinType, MemType,
         LockHeld, Holds, Drops, Unlocked, Nesting, InTr, ActiveTr, CurTr, Calls,
         Carried, Finishing, OneFlush, CondsOwned
  <2> QED
    BY <2>1, <2>2, <2>3 DEF IndInv, TypeOK
<1>33. CASE FinLogFails
  <2>1. FinType'
    BY <1>2, <1>33 DEF FinLogFails, FinType, ThreadType
  <2>2. LockType' /\ CondType' /\ ThreadType' /\ MemType' /\ HistType'
    BY <1>2, <1>33 DEF FinLogFails, LockType, CondType, ThreadType, MemType, HistType
  <2>3. LockInv'
    BY <1>2, <1>33 DEF FinLogFails, LockInv, LockType, CondType, ThreadType, FinType,
         MemType, LockHeld, Holds, Drops, Unlocked, Nesting, InTr, ActiveTr, CurTr,
         Calls, Carried, Finishing, OneFlush, CondsOwned
  <2> QED
    BY <2>1, <2>2, <2>3 DEF IndInv, TypeOK
<1>34. CASE FinCommit
  <2>1. TypeOK'
    BY <1>2, <1>34 DEF FinCommit, TypeOK, LockType, CondType, ThreadType, FinType,
         MemType, HistType, Carried, Finishing
  <2>2. LockInv'
    BY <1>2, <1>34 DEF FinCommit, LockInv, LockType, CondType, ThreadType, FinType,
         MemType, LockHeld, Holds, Drops, Unlocked, Nesting, InTr, ActiveTr, CurTr,
         Calls, Carried, Finishing, OneFlush, CondsOwned
  <2> QED
    BY <2>1, <2>2 DEF IndInv
<1>35. CASE FinCommitFails
  <2>1. CondType' /\ FinType'
    BY <1>2, <1>35 DEF FinCommitFails, CondType, FinType, ThreadType
  <2>2. LockType' /\ ThreadType' /\ MemType' /\ HistType'
    BY <1>2, <1>35 DEF FinCommitFails, LockType, ThreadType, MemType, HistType
  <2>3. LockInv'
    BY <1>2, <1>35 DEF FinCommitFails, LockInv, LockType, CondType, ThreadType, FinType,
         MemType, LockHeld, Holds, Drops, Unlocked, Nesting, InTr, ActiveTr, CurTr,
         Calls, Carried, Finishing, OneFlush, CondsOwned
  <2> QED
    BY <2>1, <2>2, <2>3 DEF IndInv, TypeOK
<1>36. CASE FinIssue
  <2>1. CondType' /\ FinType'
    BY <1>2, <1>36, ZenonT(300) DEF FinIssue, CondType, FinType, ThreadType
  <2>2. LockType' /\ ThreadType' /\ MemType' /\ HistType'
    BY <1>2, <1>36 DEF FinIssue, LockType, ThreadType, MemType, HistType
  <2>3. LockInv'
    BY <1>2, <1>36 DEF FinIssue, LockInv, LockType, CondType, ThreadType, FinType,
         MemType, LockHeld, Holds, Drops, Unlocked, Nesting, InTr, ActiveTr, CurTr,
         Calls, Carried, Finishing, OneFlush, CondsOwned
  <2> QED
    BY <2>1, <2>2, <2>3 DEF IndInv, TypeOK
<1>37. CASE FinIssueNone
  <2>1. FinType'
    BY <1>2, <1>37, ZenonT(300) DEF FinIssueNone, FinType, ThreadType
  <2>2. MemType'
    BY <1>2, <1>37 DEF FinIssueNone, MemType, LockType, FinType, Finishing
  <2>3. HistType'
    BY <1>2, <1>37 DEF FinIssueNone, HistType, FinType, LockType, MemType, Finishing
  <2>4. LockType' /\ CondType' /\ ThreadType'
    BY <1>2, <1>37 DEF FinIssueNone, LockType, CondType, ThreadType
  <2>5. LockInv'
    BY <1>2, <1>37 DEF FinIssueNone, LockInv, LockType, CondType, ThreadType, FinType,
         MemType, LockHeld, Holds, Drops, Unlocked, Nesting, InTr, ActiveTr, CurTr,
         Calls, Carried, Finishing, OneFlush, CondsOwned
  <2> QED
    BY <2>1, <2>2, <2>3, <2>4, <2>5 DEF IndInv, TypeOK
<1>38. CASE FinRelease
  <2>1. CondType' /\ ThreadType' /\ FinType'
    BY <1>2, <1>38, ZenonT(300) DEF FinRelease, CondType, ThreadType, LockType, FinType
  <2>2. LockType' /\ MemType' /\ HistType'
    BY <1>2, <1>38 DEF FinRelease, LockType, MemType, HistType
  <2>3. LockInv'
    BY <1>2, <1>38 DEF FinRelease, LockInv, LockType, CondType, ThreadType, FinType,
         MemType, LockHeld, Holds, Drops, Unlocked, Nesting, InTr, ActiveTr, CurTr,
         Calls, Carried, Finishing, OneFlush, CondsOwned
  <2> QED
    BY <2>1, <2>2, <2>3 DEF IndInv, TypeOK
<1>39. CASE FinAbort
  <2>1. CondType'
    BY <1>2, <1>39, ZenonT(300) DEF FinAbort, CondType
  <2>2. FinType'
    BY <1>2, <1>39, ZenonT(300) DEF FinAbort, FinType, ThreadType
  <2>3. MemType'
    <3>1. fin.tr \in Tr
      BY <1>2, <1>39 DEF FinAbort, Finishing, FinType
    <3>2. freed[fin.tr] + 1 \in Nat
      BY <1>2, <3>1 DEF MemType
    <3>3. freed' \in [Tr -> Nat]
      BY <1>2, <1>39, <3>1, <3>2 DEF FinAbort, MemType
    <3> QED
      BY <1>2, <1>39, <3>3 DEF FinAbort, MemType
  <2>4. LockType' /\ ThreadType' /\ HistType'
    BY <1>2, <1>39 DEF FinAbort, LockType, ThreadType, HistType
  <2>5. LockInv'
    BY <1>2, <1>39 DEF FinAbort, LockInv, LockType, CondType, ThreadType, FinType,
         MemType, LockHeld, Holds, Drops, Unlocked, Nesting, InTr, ActiveTr, CurTr,
         Calls, Carried, Finishing, OneFlush, CondsOwned
  <2> QED
    BY <2>1, <2>2, <2>3, <2>4, <2>5 DEF IndInv, TypeOK
<1>40. CASE FinInvalidate
  <2>1. CondType' /\ ThreadType' /\ FinType'
    BY <1>2, <1>40, ZenonT(300) DEF FinInvalidate, CondType, ThreadType, LockType, FinType
  <2>2. LockType' /\ MemType' /\ HistType'
    BY <1>2, <1>40 DEF FinInvalidate, LockType, MemType, HistType
  <2>3. LockInv'
    BY <1>2, <1>40 DEF FinInvalidate, LockInv, LockType, CondType, ThreadType, FinType,
         MemType, LockHeld, Holds, Drops, Unlocked, Nesting, InTr, ActiveTr, CurTr,
         Calls, Carried, Finishing, OneFlush, CondsOwned
  <2> QED
    BY <2>1, <2>2, <2>3 DEF IndInv, TypeOK
<1>41. CASE HeaderThread
  <2>1. CondType'
    BY <1>2, <1>41, ZenonT(300) DEF HeaderThread, CondType
  <2>2. LockType' /\ ThreadType' /\ FinType' /\ MemType' /\ HistType'
    BY <1>2, <1>41 DEF HeaderThread, LockType, ThreadType, FinType, MemType, HistType
  <2>3. LockInv'
    BY <1>2, <1>41 DEF HeaderThread, LockInv, LockType, CondType, ThreadType, FinType,
         MemType, LockHeld, Holds, Drops, Unlocked, Nesting, InTr, ActiveTr, CurTr,
         Calls, Carried, Finishing, OneFlush, CondsOwned
  <2> QED
    BY <2>1, <2>2, <2>3 DEF IndInv, TypeOK
<1>42. CASE IoDone
  <2>1. CondType'
    BY <1>2, <1>42, ZenonT(300) DEF IoDone, CondType
  <2>2. FinType'
    BY <1>2, <1>42 DEF IoDone, FinType, ThreadType
  <2>3. MemType'
    BY <1>2, <1>42 DEF IoDone, MemType, LockType, FinType
  <2>4. HistType'
    BY <1>2, <1>42 DEF IoDone, HistType, FinType, LockType, MemType, Finishing
  <2>5. LockType' /\ ThreadType'
    BY <1>2, <1>42, ZenonT(300) DEF IoDone, LockType, ThreadType
  <2>6. LockInv'
    BY <1>2, <1>42 DEF IoDone, LockInv, LockType, CondType, ThreadType, FinType, MemType,
         LockHeld, Holds, Drops, Unlocked, Nesting, InTr, ActiveTr, CurTr, Calls,
         Carried, Finishing, OneFlush, CondsOwned
  <2> QED
    BY <2>1, <2>2, <2>3, <2>4, <2>5, <2>6 DEF IndInv, TypeOK
<1>43. CASE UNCHANGED vars
  <2>1. TypeOK'
    BY <1>2, <1>43 DEF vars, TypeOK, LockType, CondType, ThreadType, FinType, MemType,
         HistType
  <2>2. LockInv'
    BY <1>2, <1>43, ZenonT(300) DEF vars, LockInv, LockHeld, Holds, Drops, Unlocked, Nesting,
         InTr, ActiveTr, CurTr, Calls, Carried, Finishing, OneFlush, CondsOwned
  <2> QED
    BY <2>1, <2>2 DEF IndInv
<1>44. ASSUME NEW t \in Threads, ModifyFails(t) PROVE IndInv'
  <2>1. TypeOK'
    BY <1>2, <1>44 DEF ModifyFails, TypeOK, LockType, CondType, ThreadType, FinType,
         MemType, HistType
  <2>2. LockInv'
    BY <1>2, <1>44 DEF ModifyFails, LockInv, LockType, CondType, ThreadType, FinType,
         MemType, LockHeld, Holds, Drops, Unlocked, Nesting, InTr, ActiveTr, CurTr,
         Calls, Carried, Finishing, OneFlush, CondsOwned
  <2> QED
    BY <2>1, <2>2 DEF IndInv
<1>45. CASE Leave
  <2>1. TypeOK'
    <3>1. FinType'
      BY <1>2, <1>45, ZenonT(300) DEF Leave, FinType
    <3>2. LockType' /\ CondType' /\ ThreadType' /\ MemType' /\ HistType'
      BY <1>2, <1>45 DEF Leave, LockType, CondType, ThreadType, MemType, HistType
    <3> QED
      BY <3>1, <3>2 DEF TypeOK
  <2>2. LockInv'
    BY <1>2, <1>45, ZenonT(300) DEF Leave, LockInv, LockHeld, Holds, Drops, Unlocked,
         Nesting, InTr, ActiveTr, CurTr, Calls, Carried, Finishing, OneFlush, CondsOwned
  <2> QED
    BY <2>1, <2>2 DEF IndInv
<1> QED
  BY <1>1, <1>3, <1>4, <1>5, <1>6, <1>7, <1>8, <1>9, <1>10, <1>11, <1>12, <1>13, <1>14,
     <1>15, <1>16, <1>17, <1>18, <1>19, <1>20, <1>21, <1>22, <1>23, <1>24, <1>25, <1>26,
     <1>27, <1>28, <1>29, <1>30, <1>31, <1>32, <1>33, <1>34, <1>35, <1>36, <1>37, <1>38,
     <1>39, <1>40, <1>41, <1>42, <1>43, <1>44, <1>45
  DEF Next, Call, Step, Finisher, Quiet

(* The theorems. *)

\* The inductive invariant holds in every reachable state of the journal's threads.
LEMMA Inductive == Spec => []IndInv
\* The journal as journal_open or journal_create leaves it satisfies the invariant.
<1>1. Init => IndInv
  <2>1. SUFFICES ASSUME Init PROVE IndInv
    OBVIOUS
  <2>2. TypeOK
    <3>1. LockType
      BY <2>1 DEF Init, LockType
    <3>2. ThreadType /\ FinType
      BY <2>1 DEF Init, ThreadType, FinType
    <3>3. MemType
      BY <2>1 DEF Init, MemType
    <3>4. HistType
      BY <2>1 DEF Init, HistType
    <3>5. CondType
      BY <2>1, ZenonT(300) DEF Init, CondType
    <3> QED
      BY <3>1, <3>2, <3>3, <3>4, <3>5 DEF TypeOK
  <2>3. LockInv
    BY <2>1 DEF Init, LockInv, LockHeld, Holds, Drops, Unlocked, Nesting, InTr, ActiveTr,
         CurTr, Calls, Carried, Finishing, OneFlush, CondsOwned
  <2> QED
    BY <2>2, <2>3 DEF IndInv
<1> QED
  BY <1>1, IndStep, PTL DEF Spec

\* Every variable keeps its type in every behaviour of the journal's threads: the
\* nesting count of journal_start_transaction and journal_end_transaction never
\* goes below zero, whatever fails.
THEOREM TypeCorrect == Spec => []TypeOK
<1>1. IndInv => TypeOK
  BY DEF IndInv
<1> QED
  BY Inductive, <1>1, PTL

\* The consistency panics of journal_lock, journal_start_transaction,
\* journal_end_transaction and end_transaction cannot fire, for any number of
\* threads, with I/O errors, relocation and close in any combination.
THEOREM PanicFree == Spec => []NoPanic
<1>1. IndInv => NoPanic
  <2>1. SUFFICES ASSUME IndInv PROVE NoPanic
    OBVIOUS
  <2>2. owner = None => nested_count = 0 /\ active_tr = NoTr
    BY <2>1 DEF IndInv, LockInv, Unlocked
  <2>3. \A t \in Threads : Holds(t) <=> owner = t
    BY <2>1 DEF IndInv, LockInv, LockHeld
  <2>4. ASSUME NEW t \in Threads
        PROVE  /\ pc[t] = "in" => nested_count > 0 /\ (active_tr # NoTr \/ invalid)
               /\ pc[t] \in {"in", "flush", "force"} => cur_tr = NoTr
    BY <2>1, <2>3 DEF IndInv, LockInv, Nesting, InTr, ActiveTr, CurTr, Holds
  <2> QED
    BY <2>2, <2>3, <2>4 DEF NoPanic
<1> QED
  BY Inductive, <1>1, PTL

\* The conditions flushing and asyncIO are set exactly while a thread or an I/O of
\* the journal owns them, so that nobody waits for a condition without an owner.
THEOREM ConditionsOwned == Spec => []CondsOwned
<1>1. IndInv => CondsOwned
  BY DEF IndInv, LockInv
<1> QED
  BY Inductive, <1>1, PTL
=============================================================================
