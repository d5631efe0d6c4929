---------------------------- MODULE JournalLocks ----------------------------
(***************************************************************************)
(* The control plane of the HFS+ journal (core/hfs_journal.c): which thread *)
(* owns the journal lock, where each transaction is, and how the threads    *)
(* hand transactions over through the conditions flushing, writing_header   *)
(* and asyncIO.  What is written to the device is in JournalLog.            *)
(*                                                                          *)
(* Client threads call journal_start_transaction, journal_end_transaction,  *)
(* journal_flush, journal_relocate and journal_close.  finish_end_transaction*)
(* runs in the caller or in a kernel thread of its own, write_header_thread *)
(* beside it, and buffer_flushed_callback when the home writes complete.    *)
(*                                                                          *)
(* A definition X_Y is X with a slip in it that the code could have had; no  *)
(* specification uses it.  It stands before X, and some property fails when  *)
(* X is defined as X_Y.                                                      *)
(***************************************************************************)
EXTENDS Integers, FiniteSets

CONSTANTS
    Threads,      \* client threads
    Kernel,       \* the thread started for finish_end_thread
    None,         \* no thread
    MaxTr,        \* bound: transactions allocated, numbered from 1
    MaxNest,      \* bound: nesting depth of transactions
    Scenarios     \* subsets of {"errors", "relocate", "close"} to try

ASSUME ThreadAssumption == Kernel \notin Threads /\ None \notin Threads \cup {Kernel}
ASSUME BoundAssumption == MaxTr \in Nat /\ MaxNest \in Nat \ {0}
ASSUME ScenarioAssumption == Scenarios \subseteq SUBSET {"errors", "relocate", "close"}

NoTr == 0
Tr   == 1 .. MaxTr

VARIABLES
    scenario,            \* what may happen in this behaviour
    owner,               \* jnl->owner, the holder of jlock
    nested_count, active_tr, cur_tr,
    flushing, asyncIO, writing_header,          \* the three conditions
    write_header_failed, flush_aborted, invalid,
    pc,                  \* where each client thread is
    tr,                  \* its local "tr"
    op,                  \* the call it runs end_transaction for
    fin,                 \* finish_end_transaction: [pc, by, tr]
    io_tr,               \* transaction whose home writes are outstanding
    freeme,              \* jnl->tr_freeme
    freed,               \* how often each transaction's memory was released
    dirty,               \* transactions with a modified block
    last,                \* number of the last transaction allocated
    written,             \* transactions committed to the log
    home,                \* transactions whose blocks are home
    must,                \* history: what a journal_flush call must see flushed
    closed,              \* "open", "closing" or "closed" (and freed)
    leaving              \* has a finish_end_thread or a callback released its
                         \* condition, and not yet returned?

jstate == <<owner, nested_count, active_tr, cur_tr>>
conds  == <<flushing, asyncIO, writing_header>>
flags  == <<write_header_failed, flush_aborted, invalid>>
local  == <<pc, tr, op>>
mem    == <<freeme, freed, dirty, last>>
hist   == <<written, home, must>>
vars   == <<scenario, jstate, conds, flags, local, fin, io_tr, mem, hist, closed,
            leaving>>

Idle == [pc |-> "idle", by |-> None, tr |-> NoTr]

Goto(t, l) == pc' = [pc EXCEPT ![t] = l]

\* free_old_stuff, called on entry to every operation.
Free(ts) == freed' = [x \in Tr |-> IF x \in ts THEN freed[x] + 1 ELSE freed[x]]

FreeOld_Kept == Free(freeme) /\ UNCHANGED freeme

FreeOld == freeme' = {} /\ Free(freeme)

-----------------------------------------------------------------------------
(* journal_start_transaction *)

\* The journal is checked for validity before the lock is taken.
StartCheck(t) ==
    /\ pc[t] = "out" /\ closed = "open" /\ ~invalid
    /\ FreeOld /\ Goto(t, "start")
    /\ UNCHANGED <<scenario, jstate, conds, flags, tr, op, fin, io_tr,
                   dirty, last, hist, closed, leaving>>

StartLock(t) ==
    /\ pc[t] = "start" /\ owner = None
    /\ owner' = t /\ nested_count' = 1
    /\ IF cur_tr # NoTr
       THEN active_tr' = cur_tr /\ cur_tr' = NoTr /\ UNCHANGED last
       ELSE /\ last < MaxTr /\ last' = last + 1
            /\ active_tr' = last' /\ UNCHANGED cur_tr
    /\ Goto(t, "in")
    /\ UNCHANGED <<scenario, conds, flags, tr, op, fin, io_tr, freeme,
                   freed, dirty, hist, closed, leaving>>

\* journal_allocate_transaction reports an error: bad_start.  (Its allocations
\* wait for memory, so the path is there but not taken; it is also the way out
\* for a start beyond MaxTr.)
StartFails(t) ==
    /\ pc[t] = "start" /\ owner = None /\ cur_tr = NoTr
    /\ Goto(t, "out")
    /\ UNCHANGED <<scenario, jstate, conds, flags, tr, op, fin, io_tr,
                   mem, hist, closed, leaving>>

\* A nested start by the owner.
StartNested(t) ==
    /\ pc[t] = "in" /\ ~invalid /\ nested_count < MaxNest
    /\ FreeOld /\ nested_count' = nested_count + 1
    /\ UNCHANGED <<scenario, owner, active_tr, cur_tr, conds, flags, local, fin,
                   io_tr, dirty, last, hist, closed, leaving>>

\* journal_modify_block_end cannot get a reference to the vnode of a block that is
\* new to the transaction: "nobody checks the return values, so" it invalidates the
\* journal.
ModifyFails(t) ==
    /\ pc[t] = "in" /\ ~invalid /\ active_tr # NoTr /\ "errors" \in scenario
    /\ invalid' = TRUE
    /\ UNCHANGED <<scenario, jstate, conds, write_header_failed, flush_aborted, local,
                   fin, io_tr, mem, hist, closed, leaving>>

\* journal_modify_block_start .. end on the active transaction.
Modify(t) ==
    /\ pc[t] = "in" /\ ~invalid /\ active_tr # NoTr
    /\ dirty' = dirty \cup {active_tr}
    /\ UNCHANGED <<scenario, jstate, conds, flags, local, fin, io_tr, freeme,
                   freed, last, hist, closed, leaving>>

-----------------------------------------------------------------------------
(* journal_end_transaction, and end_transaction up to finish_end_transaction *)

EndNested_Always(t) ==
    /\ pc[t] = "in"
    /\ FreeOld /\ nested_count' = nested_count - 1
    /\ UNCHANGED <<scenario, owner, active_tr, cur_tr, conds, flags, local, fin,
                   io_tr, dirty, last, hist, closed, leaving>>

EndNested(t) ==
    /\ pc[t] = "in" /\ nested_count > 1
    /\ FreeOld /\ nested_count' = nested_count - 1
    /\ UNCHANGED <<scenario, owner, active_tr, cur_tr, conds, flags, local, fin,
                   io_tr, dirty, last, hist, closed, leaving>>

\* The journal became invalid: abort the transaction.
EndInvalid(t) ==
    /\ pc[t] = "in" /\ nested_count = 1 /\ invalid
    /\ nested_count' = 0 /\ owner' = None /\ active_tr' = NoTr
    /\ freeme' = {}
    /\ Free(freeme \cup {active_tr})
    /\ Goto(t, "out")
    /\ UNCHANGED <<scenario, cur_tr, conds, flags, tr, op, fin, io_tr,
                   dirty, last, hist, closed, leaving>>

EndGroup_StillActive(t) ==
    /\ pc[t] = "in" /\ nested_count = 1 /\ ~invalid
    /\ FreeOld
    /\ nested_count' = 0 /\ owner' = None /\ cur_tr' = active_tr
    /\ Goto(t, "out")
    /\ UNCHANGED <<scenario, active_tr, conds, flags, tr, op, fin, io_tr, dirty,
                   last, hist, closed, leaving>>

\* Nothing modified, or group commit: keep the transaction.
EndGroup(t) ==
    /\ pc[t] = "in" /\ nested_count = 1 /\ ~invalid
    /\ FreeOld
    /\ nested_count' = 0 /\ owner' = None
    /\ cur_tr' = active_tr /\ active_tr' = NoTr
    /\ Goto(t, "out")
    /\ UNCHANGED <<scenario, conds, flags, tr, op, fin, io_tr, dirty,
                   last, hist, closed, leaving>>

\* The transaction is to be flushed; end_transaction goes for "flushing".
EndFlush(t) ==
    /\ pc[t] = "in" /\ nested_count = 1 /\ ~invalid /\ active_tr \in dirty
    /\ FreeOld
    /\ nested_count' = 0 /\ active_tr' = NoTr
    /\ tr' = [tr EXCEPT ![t] = active_tr]
    /\ op' = [op EXCEPT ![t] = "end"]
    /\ Goto(t, "flush")
    /\ UNCHANGED <<scenario, owner, cur_tr, conds, flags, fin, io_tr, dirty, last,
                   hist, closed, leaving>>

Drops_EndOnly(t) == op[t] = "end"

\* end_transaction unlocks the journal unless called with drop_lock FALSE.
Drops(t) == op[t] \notin {"relocate", "close"}

\* "flushing" is free, but an earlier flush failed: abort the transaction.
\* journal_relocate then aborts it once more.
FlushRefused(t) ==
    /\ pc[t] = "flush" /\ ~flushing /\ (invalid \/ flush_aborted)
    /\ IF op[t] = "relocate"
       THEN freed' = [freed EXCEPT ![tr[t]] = @ + 2] /\ invalid' = TRUE
       ELSE freed' = [freed EXCEPT ![tr[t]] = @ + 1] /\ UNCHANGED invalid
    /\ tr' = [tr EXCEPT ![t] = NoTr]
    /\ owner' = IF Drops(t) THEN None ELSE owner
    /\ Goto(t, CASE op[t] = "relocate" -> "in"
                 [] op[t] = "close" -> "close_home"
                 [] op[t] = "syncio" -> "io"
                 [] op[t] = "sync" -> "done"
                 [] op[t] = "end" -> "out")
    /\ UNCHANGED <<scenario, nested_count, active_tr, cur_tr, conds,
                   write_header_failed, flush_aborted, op, fin, io_tr, freeme,
                   dirty, last, hist, closed, leaving>>

\* Take "flushing"; check_free_space may find the journal full.
TakeFlushing(t) ==
    /\ pc[t] = "flush" /\ ~flushing /\ ~invalid /\ ~flush_aborted
    /\ flushing' = TRUE
    /\ \E l \in {"space", "full"} : Goto(t, l)
    /\ UNCHANGED <<scenario, jstate, asyncIO, writing_header, flags, tr, op, fin,
                   io_tr, mem, hist, closed, leaving>>

\* check_free_space is satisfied (a full journal: once the outstanding home
\* writes are done, and then the header must be rewritten); the header thread is
\* fired if needed, the lock dropped, and finish_end_transaction starts, in
\* this thread or, if the caller need not wait, in one of its own.
Reserve(t) ==
    /\ pc[t] = "space" \/ (pc[t] = "full" /\ ~asyncIO)
    /\ \E delayed \in IF pc[t] = "full" THEN {TRUE} ELSE BOOLEAN :
         IF delayed
         THEN ~writing_header /\ writing_header' = TRUE /\ UNCHANGED write_header_failed
         ELSE write_header_failed' = FALSE /\ UNCHANGED writing_header
    /\ owner' = IF Drops(t) THEN None ELSE owner
    /\ \E by \in IF op[t] = "end" THEN {t, Kernel} ELSE {t} :
         /\ fin' = [pc |-> "log", by |-> by, tr |-> tr[t]]
         /\ Goto(t, IF by = t THEN "finish" ELSE "out")
    /\ tr' = [tr EXCEPT ![t] = NoTr]
    /\ UNCHANGED <<scenario, nested_count, active_tr, cur_tr, flushing, asyncIO,
                   flush_aborted, invalid, op, io_tr, mem, hist, closed, leaving>>

-----------------------------------------------------------------------------
(* write_header_thread, finish_end_transaction, buffer_flushed_callback *)

HeaderThread ==
    /\ writing_header /\ writing_header' = FALSE
    /\ \/ write_header_failed' = FALSE /\ UNCHANGED invalid
       \/ "errors" \in scenario /\ write_header_failed' = TRUE /\ invalid' = TRUE
    /\ UNCHANGED <<scenario, jstate, flushing, asyncIO, flush_aborted, local, fin,
                   io_tr, mem, hist, closed, leaving>>

fin_unchanged == <<scenario, jstate, tr, op, dirty, last, must, closed>>

FinLog ==
    /\ fin.pc = "log" /\ ~writing_header /\ ~write_header_failed
    /\ fin' = [fin EXCEPT !.pc = "commit"]
    /\ UNCHANGED <<fin_unchanged, leaving, conds, flags, pc, io_tr, freeme, freed,
                   written, home>>

\* A block cannot be mapped, a log write fails, or the header thread failed.
FinLogFails ==
    /\ fin.pc = "log"
    /\ "errors" \in scenario \/ (~writing_header /\ write_header_failed)
    /\ fin' = [fin EXCEPT !.pc = "abort"]
    /\ UNCHANGED <<fin_unchanged, leaving, conds, flags, pc, io_tr, freeme, freed,
                   written, home>>

FinCommit ==
    /\ fin.pc = "commit"
    /\ fin' = [fin EXCEPT !.pc = "issue"]
    /\ written' = written \cup {fin.tr}
    /\ UNCHANGED <<fin_unchanged, leaving, conds, flags, pc, io_tr, freeme, freed,
                   home>>

FinCommitFails ==
    /\ fin.pc = "commit" /\ "errors" \in scenario
    /\ fin' = [fin EXCEPT !.pc = "abort"] /\ invalid' = TRUE
    /\ UNCHANGED <<fin_unchanged, leaving, conds, write_header_failed, flush_aborted,
                   pc, io_tr, freeme, freed, written, home>>

\* Start the home writes.
FinIssue ==
    /\ fin.pc = "issue" /\ ~asyncIO
    /\ asyncIO' = TRUE /\ io_tr' = fin.tr
    /\ fin' = [fin EXCEPT !.pc = "release", !.tr = NoTr]
    /\ UNCHANGED <<fin_unchanged, leaving, flushing, writing_header, flags, pc, freeme,
                   freed, written, home>>

\* Every block of the transaction was killed: there is nothing to write.
FinIssueNone ==
    /\ fin.pc = "issue" /\ ~asyncIO
    /\ freeme' = freeme \cup {fin.tr} /\ home' = home \cup {fin.tr}
    /\ fin' = [fin EXCEPT !.pc = "release", !.tr = NoTr]
    /\ UNCHANGED <<fin_unchanged, leaving, conds, flags, pc, io_tr, freed, written>>

\* The thread that ran finish_end_transaction is past its last unlock.  It still
\* reads jnl->fsmount and jnl->jhdr on its way out: a caller at "flushed", the
\* thread started for it (finish_end_thread) as one that is leaving.
FinReturn ==
    /\ fin' = Idle
    /\ IF fin.by \in Threads
       THEN pc' = [pc EXCEPT ![fin.by] = "flushed"] /\ UNCHANGED leaving
       ELSE leaving' = TRUE /\ UNCHANGED pc

FinRelease ==
    /\ fin.pc = "release" /\ flushing' = FALSE
    /\ FinReturn
    /\ UNCHANGED <<fin_unchanged, asyncIO, writing_header, flags, io_tr, freeme,
                   freed, written, home>>

FinAbort_Holding ==
    /\ fin.pc = "abort"
    /\ freed' = [freed EXCEPT ![fin.tr] = @ + 1]
    /\ flush_aborted' = TRUE
    /\ fin' = [fin EXCEPT !.pc = "relock", !.tr = NoTr]
    /\ UNCHANGED <<fin_unchanged, leaving, conds, write_header_failed, invalid, pc,
                   io_tr, freeme, written, home>>

\* bad_journal: free the transaction, note the failure, release "flushing" ...
FinAbort ==
    /\ fin.pc = "abort"
    /\ freed' = [freed EXCEPT ![fin.tr] = @ + 1]
    /\ flush_aborted' = TRUE /\ flushing' = FALSE
    /\ fin' = [fin EXCEPT !.pc = "relock", !.tr = NoTr]
    /\ UNCHANGED <<fin_unchanged, leaving, asyncIO, writing_header, write_header_failed,
                   invalid, pc, io_tr, freeme, written, home>>

\* ... and mark the journal invalid under the journal lock.
FinInvalidate ==
    /\ fin.pc = "relock" /\ owner = None
    /\ invalid' = TRUE
    /\ FinReturn
    /\ UNCHANGED <<fin_unchanged, conds, write_header_failed, flush_aborted,
                   io_tr, freeme, freed, written, home>>

IoDone_NoWakeup ==
    /\ io_tr # NoTr
    /\ home' = home \cup {io_tr} /\ io_tr' = NoTr
    /\ freeme' = IF invalid THEN freeme ELSE freeme \cup {io_tr}
    /\ leaving' = TRUE
    /\ UNCHANGED <<fin_unchanged, conds, flags, pc, fin, freed, written>>

\* The last home write of the transaction completes.  The callback has yet to
\* wake the waiters of asyncIO and to release flock.
IoDone ==
    /\ io_tr # NoTr
    /\ home' = home \cup {io_tr} /\ asyncIO' = FALSE /\ io_tr' = NoTr
    /\ freeme' = IF invalid THEN freeme ELSE freeme \cup {io_tr}
    /\ leaving' = TRUE
    /\ UNCHANGED <<fin_unchanged, flushing, writing_header, flags, pc, fin, freed,
                   written>>

\* The last thread or callback that was leaving has returned.
Leave ==
    /\ leaving /\ leaving' = FALSE
    /\ UNCHANGED <<scenario, jstate, conds, flags, local, fin, io_tr, mem, hist,
                   closed>>

-----------------------------------------------------------------------------
(* journal_flush *)

FlushCheck(t) ==
    /\ pc[t] = "out" /\ closed = "open" /\ ~invalid
    /\ FreeOld /\ Goto(t, "sync")
    /\ \E o \in {"sync", "syncio"} : op' = [op EXCEPT ![t] = o]
    /\ UNCHANGED <<scenario, jstate, conds, flags, tr, fin, io_tr, dirty, last,
                   hist, closed, leaving>>

\* What the journal holds when the caller gets the lock: the buffered
\* transaction, the one being flushed and, for JOURNAL_WAIT_FOR_IO, the one on
\* its way home.
Inflight(t) ==
    ({fin.tr} \cup (dirty \cap {cur_tr})
              \cup (IF op[t] = "syncio" THEN {io_tr} ELSE {})) \ {NoTr}

\* There is a buffered transaction: take it, and keep the lock.
FlushTake(t) ==
    /\ pc[t] = "sync" /\ owner = None /\ cur_tr # NoTr
    /\ owner' = t /\ tr' = [tr EXCEPT ![t] = cur_tr] /\ cur_tr' = NoTr
    /\ must' = [must EXCEPT ![t] = Inflight(t)]
    /\ Goto(t, IF op[t] = "syncio" THEN "quiesce" ELSE "force")
    /\ UNCHANGED <<scenario, nested_count, active_tr, conds, flags, op, fin,
                   io_tr, mem, written, home, closed, leaving>>

\* There is none: unlock, and wait for the flush in progress.
FlushNone(t) ==
    /\ pc[t] = "sync" /\ owner = None /\ cur_tr = NoTr
    /\ must' = [must EXCEPT ![t] = Inflight(t)]
    /\ Goto(t, "wait")
    /\ UNCHANGED <<scenario, jstate, conds, flags, tr, op, fin, io_tr, mem,
                   written, home, closed, leaving>>

\* wait_condition on flushing, then on asyncIO, with the lock held.
FlushQuiesce(t) ==
    /\ \/ pc[t] = "quiesce" /\ ~flushing /\ Goto(t, "quiesce_io")
       \/ pc[t] = "quiesce_io" /\ ~asyncIO /\ Goto(t, "force")
    /\ UNCHANGED <<scenario, jstate, conds, flags, tr, op, fin, io_tr, mem, hist,
                   closed, leaving>>

\* end_transaction(tr, 1, ...): a transaction without blocks is put back and the
\* lock dropped, any other is flushed.
FlushForce(t) ==
    /\ pc[t] = "force"
    /\ IF tr[t] \in dirty
       THEN Goto(t, "flush") /\ UNCHANGED <<owner, cur_tr, tr>>
       ELSE /\ cur_tr' = tr[t] /\ tr' = [tr EXCEPT ![t] = NoTr] /\ owner' = None
            /\ Goto(t, IF op[t] = "syncio" THEN "io" ELSE "empty")
    /\ UNCHANGED <<scenario, nested_count, active_tr, conds, flags, op, fin, io_tr,
                   mem, hist, closed, leaving>>

FlushWait_Not(t) ==
    /\ pc[t] = "wait"
    /\ Goto(t, IF op[t] = "syncio" THEN "io" ELSE "done")
    /\ UNCHANGED <<scenario, jstate, conds, flags, tr, op, fin, io_tr, mem, hist,
                   closed, leaving>>

FlushWait(t) ==
    /\ pc[t] = "wait" /\ ~flushing
    /\ Goto(t, IF op[t] = "syncio" THEN "io" ELSE "done")
    /\ UNCHANGED <<scenario, jstate, conds, flags, tr, op, fin, io_tr, mem, hist,
                   closed, leaving>>

FlushIo(t) ==
    /\ pc[t] = "io" /\ ~asyncIO /\ Goto(t, "done")
    /\ UNCHANGED <<scenario, jstate, conds, flags, tr, op, fin, io_tr, mem, hist,
                   closed, leaving>>

\* journal_flush returns 0.
FlushReturn(t) ==
    /\ pc[t] \in {"done", "empty"} /\ Goto(t, "out")
    /\ must' = [must EXCEPT ![t] = {}] /\ op' = [op EXCEPT ![t] = "end"]
    /\ UNCHANGED <<scenario, jstate, conds, flags, tr, fin, io_tr, mem, written,
                   home, closed, leaving>>

\* The owner of the running transaction calls journal_flush: nothing is taken, it
\* waits for the flush in progress with the lock held.
FlushInside(t) ==
    /\ pc[t] = "in" /\ ~invalid /\ active_tr # NoTr
    /\ FreeOld /\ Goto(t, "hold")
    /\ UNCHANGED <<scenario, jstate, conds, flags, tr, op, fin, io_tr, dirty, last,
                   hist, closed, leaving>>

FlushHold(t) ==
    /\ \/ pc[t] = "hold" /\ ~flushing /\ \E l \in {"in", "hold_io"} : Goto(t, l)
       \/ pc[t] = "hold_io" /\ ~asyncIO /\ Goto(t, "in")
    /\ UNCHANGED <<scenario, jstate, conds, flags, tr, op, fin, io_tr, mem, hist,
                   closed, leaving>>

-----------------------------------------------------------------------------
(* journal_relocate: called inside a transaction, which it hides while it      *)
(* waits for the earlier ones.                                                 *)

RelocateBegin(t) ==
    /\ pc[t] = "in" /\ "relocate" \in scenario /\ ~invalid /\ active_tr \in dirty
    /\ last < MaxTr
    /\ FreeOld
    /\ tr' = [tr EXCEPT ![t] = active_tr] /\ active_tr' = NoTr
    /\ op' = [op EXCEPT ![t] = "relocate"]
    /\ Goto(t, "reloc")
    /\ UNCHANGED <<scenario, owner, nested_count, cur_tr, conds, flags, fin, io_tr,
                   dirty, last, hist, closed, leaving>>

\* journal_flush(JOURNAL_WAIT_FOR_IO), then the flush of the active transaction
\* to the new journal, with the lock held.
RelocateWait(t) ==
    /\ \/ pc[t] = "reloc" /\ ~flushing /\ Goto(t, "reloc_io")
       \/ pc[t] = "reloc_io" /\ ~asyncIO /\ Goto(t, "flush")
    /\ UNCHANGED <<scenario, jstate, conds, flags, tr, op, fin, io_tr, mem, hist,
                   closed, leaving>>

-----------------------------------------------------------------------------
(* journal_close: called by unmount, when no thread uses the journal.          *)

CloseLock(t) ==
    /\ "close" \in scenario /\ closed = "open" /\ \A u \in Threads : pc[u] = "out"
    /\ owner = None /\ owner' = t
    /\ closed' = "closing" /\ Goto(t, "close")
    /\ UNCHANGED <<scenario, nested_count, active_tr, cur_tr, conds, flags, tr, op,
                   fin, io_tr, mem, hist, leaving>>

\* Nothing is being flushed: flush the buffered transaction, or abort it if the
\* journal is invalid.
CloseFlush(t) ==
    /\ pc[t] = "close" /\ ~flushing
    /\ IF invalid
       THEN /\ Free({cur_tr}) /\ cur_tr' = NoTr /\ Goto(t, "close_io")
            /\ UNCHANGED <<tr, op>>
       ELSE IF cur_tr \in dirty
       THEN /\ tr' = [tr EXCEPT ![t] = cur_tr] /\ cur_tr' = NoTr
            /\ op' = [op EXCEPT ![t] = "close"] /\ Goto(t, "flush")
            /\ UNCHANGED freed
       ELSE Goto(t, "close_home") /\ UNCHANGED <<tr, op, cur_tr, freed>>
    /\ UNCHANGED <<scenario, owner, nested_count, active_tr, conds, flags, fin,
                   io_tr, freeme, dirty, last, hist, closed, leaving>>

\* The header is written once the home writes are done, or after giving up on
\* them.
CloseHeader(t) ==
    /\ pc[t] = "close_home" /\ ~flushing /\ Goto(t, "close_io")
    /\ UNCHANGED <<scenario, jstate, conds, flags, tr, op, fin, io_tr, mem, hist,
                   closed, leaving>>

CloseFree_Early(t) ==
    /\ pc[t] = "close_io"
    /\ FreeOld /\ owner' = None /\ closed' = "closed" /\ Goto(t, "out")
    /\ UNCHANGED <<scenario, nested_count, active_tr, cur_tr, conds, flags, tr, op,
                   fin, io_tr, dirty, last, hist, leaving>>

CloseFree(t) ==
    /\ pc[t] = "close_io" /\ ~asyncIO
    /\ FreeOld /\ owner' = None /\ closed' = "closed" /\ Goto(t, "out")
    /\ UNCHANGED <<scenario, nested_count, active_tr, cur_tr, conds, flags, tr, op,
                   fin, io_tr, dirty, last, hist, leaving>>

\* The synchronous finish_end_transaction has returned to its caller.
Resume(t) ==
    /\ pc[t] = "flushed"
    /\ IF op[t] = "relocate"
       THEN /\ last < MaxTr /\ last' = last + 1 /\ active_tr' = last'
            /\ Goto(t, "in")
       ELSE /\ Goto(t, CASE op[t] = "end" -> "out" [] op[t] = "sync" -> "done"
                          [] op[t] = "syncio" -> "io" [] op[t] = "close" -> "close_home")
            /\ UNCHANGED <<last, active_tr>>
    /\ UNCHANGED <<scenario, owner, nested_count, cur_tr, conds, flags, tr, op, fin,
                   io_tr, freeme, freed, dirty, hist, closed, leaving>>

-----------------------------------------------------------------------------

Init ==
    /\ scenario \in Scenarios
    /\ owner = None /\ nested_count = 0 /\ active_tr = NoTr /\ cur_tr = NoTr
    /\ flushing = FALSE /\ asyncIO = FALSE /\ writing_header = FALSE
    /\ write_header_failed = FALSE /\ flush_aborted = FALSE /\ invalid = FALSE
    /\ pc = [t \in Threads |-> "out"] /\ tr = [t \in Threads |-> NoTr]
    /\ op = [t \in Threads |-> "end"]
    /\ fin = Idle /\ io_tr = NoTr
    /\ freeme = {} /\ freed = [x \in Tr |-> 0] /\ dirty = {} /\ last = 0
    /\ written = {} /\ home = {} /\ must = [t \in Threads |-> {}]
    /\ closed = "open" /\ leaving = FALSE

\* What a thread decides to do.
Call(t) ==
    \/ StartCheck(t) \/ StartNested(t) \/ Modify(t) \/ ModifyFails(t)
    \/ EndNested(t) \/ EndInvalid(t) \/ EndGroup(t) \/ EndFlush(t)
    \/ FlushCheck(t) \/ FlushInside(t) \/ RelocateBegin(t) \/ CloseLock(t)

\* What it does to complete the call.
Step(t) ==
    \/ StartLock(t) \/ StartFails(t)
    \/ FlushRefused(t) \/ TakeFlushing(t) \/ Reserve(t) \/ Resume(t)
    \/ FlushTake(t) \/ FlushNone(t) \/ FlushQuiesce(t) \/ FlushForce(t)
    \/ FlushWait(t) \/ FlushIo(t) \/ FlushReturn(t)
    \/ FlushHold(t) \/ RelocateWait(t)
    \/ CloseFlush(t) \/ CloseHeader(t) \/ CloseFree(t)

Finisher ==
    \/ FinLog \/ FinLogFails \/ FinCommit \/ FinCommitFails
    \/ FinIssue \/ FinIssueNone \/ FinRelease \/ FinAbort \/ FinInvalidate

\* Every thread is outside the journal and nothing is in progress.
Quiet ==
    /\ \A t \in Threads : pc[t] = "out"
    /\ fin = Idle /\ io_tr = NoTr /\ ~writing_header /\ ~leaving
    /\ UNCHANGED vars

Next ==
    \/ \E t \in Threads : Call(t) \/ Step(t)
    \/ Finisher \/ HeaderThread \/ IoDone \/ Leave
    \/ Quiet

Spec == Init /\ [][Next]_vars

FairSpec ==
    /\ Spec
    /\ \A t \in Threads : WF_vars(Step(t))
    /\ WF_vars(Finisher) /\ WF_vars(HeaderThread) /\ WF_vars(IoDone)

-----------------------------------------------------------------------------
(* Properties. *)

Labels == {"out", "start", "in", "flush", "space", "full", "finish", "flushed",
           "sync", "quiesce", "quiesce_io", "force", "wait", "io", "done", "empty",
           "hold", "hold_io", "reloc", "reloc_io", "close", "close_home", "close_io"}
Ops == {"end", "sync", "syncio", "relocate", "close"}

LockType ==
    /\ owner \in Threads \cup {None} /\ nested_count \in 0 .. MaxNest
    /\ active_tr \in Tr \cup {NoTr} /\ cur_tr \in Tr \cup {NoTr}

CondType ==
    /\ flushing \in BOOLEAN /\ asyncIO \in BOOLEAN /\ writing_header \in BOOLEAN
    /\ write_header_failed \in BOOLEAN /\ flush_aborted \in BOOLEAN
    /\ invalid \in BOOLEAN

ThreadType ==
    /\ pc \in [Threads -> Labels] /\ tr \in [Threads -> Tr \cup {NoTr}]
    /\ op \in [Threads -> Ops]

FinType ==
    /\ fin \in [pc : {"idle", "log", "commit", "issue", "release", "abort", "relock"},
                by : Threads \cup {Kernel, None}, tr : Tr \cup {NoTr}]
    /\ io_tr \in Tr \cup {NoTr} /\ leaving \in BOOLEAN

MemType ==
    /\ freeme \subseteq Tr /\ freed \in [Tr -> Nat] /\ dirty \subseteq Tr
    /\ last \in 0 .. MaxTr

HistType ==
    /\ scenario \subseteq {"errors", "relocate", "close"}
    /\ written \subseteq Tr /\ home \subseteq Tr /\ must \in [Threads -> SUBSET Tr]
    /\ closed \in {"open", "closing", "closed"}

\* Every variable has its type; the nesting count and the transaction numbers
\* stay in their ranges.
TypeOK == LockType /\ CondType /\ ThreadType /\ FinType /\ MemType /\ HistType

\* The places where a thread holds the journal lock.
Holds(t) ==
    \/ pc[t] \in {"in", "flush", "space", "full", "quiesce", "quiesce_io", "force",
                  "hold", "hold_io", "reloc", "reloc_io", "close", "close_home",
                  "close_io"}
    \/ pc[t] \in {"finish", "flushed"} /\ ~Drops(t)

\* None of the journal's consistency panics can fire: whoever gets the lock
\* finds no active transaction and no nesting (start_tr, journal_lock), the
\* caller of journal_end_transaction owns the journal, and end_transaction
\* never finds another transaction in cur_tr.
NoPanic ==
    /\ owner = None => nested_count = 0 /\ active_tr = NoTr
    /\ \A t \in Threads : Holds(t) <=> owner = t
    /\ \A t \in Threads :
         /\ pc[t] = "in" => nested_count > 0 /\ (active_tr # NoTr \/ invalid)
         /\ pc[t] \in {"in", "flush", "force"} => cur_tr = NoTr

\* The transactions that the shared state refers to, by place.
Places == <<{active_tr}, {cur_tr}, {fin.tr}, {io_tr}, freeme>>

\* A transaction is in one place at a time (running, buffered, in the hands of a
\* thread, being flushed, on its way home, waiting to be freed), it is freed at
\* most once, and nothing refers to a transaction that was freed.
OnePlace ==
    /\ \A i, j \in DOMAIN Places : i # j => Places[i] \cap Places[j] \subseteq {NoTr}
    /\ \A t \in Threads : tr[t] # NoTr =>
         /\ freed[tr[t]] = 0
         /\ \A i \in DOMAIN Places : tr[t] \notin Places[i]
         /\ \A u \in Threads : tr[u] = tr[t] => u = t
    /\ \A i \in DOMAIN Places : \A x \in Places[i] \ {NoTr} : freed[x] = 0
    /\ \A x \in Tr : freed[x] <= 1

\* journal_flush keeps its promise: when it returns, every transaction that was
\* buffered or being flushed when it got the lock is in the log (and home, with
\* JOURNAL_WAIT_FOR_IO), unless the journal failed.  The return through an empty
\* buffered transaction is left out: see InflightFlushed.
FlushKept ==
    \A t \in Threads : pc[t] = "done" /\ ~invalid /\ ~flush_aborted =>
        must[t] \subseteq IF op[t] = "syncio" THEN home ELSE written

\* "ensure that all inflight transactions, if any, are flushed before we return
\* success to caller" (the comment in journal_flush).
InflightFlushed ==
    \A t \in Threads : pc[t] \in {"done", "empty"} /\ ~invalid /\ ~flush_aborted =>
        must[t] \subseteq written

\* Whoever has to invalidate the journal after a failed flush can get its lock:
\* it does not hold it already.
NoSelfWait == fin.pc = "relock" => owner # fin.by

\* When journal_close has freed the journal, no flush, header write or home write is
\* under way and no condition is held: nothing the journal still had to do is lost.
\* journal_close does not wait for a thread or callback that is leaving.
CloseQuiet ==
    closed = "closed" => fin = Idle /\ io_tr = NoTr /\ ~writing_header /\ ~flushing

\* The conditions are held exactly while their owners work.
CondsOwned ==
    /\ flushing <=> \/ fin.pc \in {"log", "commit", "issue", "release", "abort"}
                    \/ \E t \in Threads : pc[t] \in {"space", "full"}
    /\ asyncIO <=> io_tr # NoTr

\* The holder of the journal lock gets out of the journal, or back to the code
\* that runs its transaction: no wait on flushing, asyncIO or the header thread
\* under the lock is forever.
HolderProgress ==
    \A t \in Threads :
        (owner = t /\ pc[t] # "in") ~> (owner # t \/ pc[t] = "in")

\* A flush in progress comes to an end.
FlushEnds == flushing ~> ~flushing
=============================================================================
