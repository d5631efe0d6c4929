---------------------------- MODULE JournalLogRef ----------------------------
(***************************************************************************)
(* JournalLog on a write-through device implements JournalAbs.  The history *)
(* variable store records what replay would make of the disk.               *)
(***************************************************************************)
EXTENDS JournalLog

VARIABLE store

RefInit == Init /\ store = Recovered(disk)
RefNext == Next /\ store' = Recovered(disk')
RefSpec == RefInit /\ [][RefNext]_<<vars, store>>

\* The transaction being written to the log, until replay would find it.
InFlight ==
    IF fpc = "log" /\ store # FsAfter(fl.id)
    THEN << [b \in Live(fl) |-> fl.id] >>
    ELSE << >>

Abs == INSTANCE JournalAbs WITH Content <- 0 .. MaxTxn, queue <- InFlight

\* What a crash would leave changes by whole transactions, in the order in which
\* end_transaction flushed them; a crash, an error, the write-back of blocks, the
\* reclamation of log space or a remount changes nothing.
AtomicTransactions == Abs!Spec

\* At every instant replay_journal accepts the disk, and its replay yields exactly
\* the transactions up to some n, none partially, all committed ones included.
Recoverable ==
    /\ Replay(disk[Hdr], LogContent(disk)).st = "ok"
    /\ \E n \in committed .. nextid : store = FsAfter(n)
=============================================================================
