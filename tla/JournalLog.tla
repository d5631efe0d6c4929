----------------------------- MODULE JournalLog -----------------------------
(***************************************************************************)
(* The data plane of the HFS+ journal (core/hfs_journal.c): the circular    *)
(* log, its header, the write-back of committed blocks to their home        *)
(* locations, the lazy reclamation of log space through old_start[], crash  *)
(* and replay.  Locking and error propagation between threads are in        *)
(* JournalLocks; here the holder of the journal lock is whoever owns        *)
(* active_tr or runs check_free_space.                                      *)
(*                                                                          *)
(* Offsets are counted in slots of jhdr_size bytes.  Slot 0 of the journal  *)
(* is the header; the log occupies slots 1 .. Slots-1; an end offset may be *)
(* left equal to Slots and is wrapped by the next I/O (do_journal_io).      *)
(*                                                                          *)
(* A definition X_Y is X with a slip in it that the code could have had; no  *)
(* specification uses it.  It stands before X, and some property fails when  *)
(* X is defined as X_Y.                                                      *)
(***************************************************************************)
EXTENDS Integers, Sequences, FiniteSets

CONSTANTS
    Block,        \* metadata blocks of the volume
    Slots,        \* jhdr->size / jhdr->jhdr_size
    OldStarts,    \* number of entries of old_start[] (16 in the code)
    BlhdrMax,     \* block_info entries one block list header can hold
    GroupSlack,   \* tbuffer_size/8 of the group commit test, in slots
    Devices,      \* kinds of device tried: "through", "cache", "fua"
    AllKilledTrs, \* may a transaction be flushed with every block killed?
    MaxMods,      \* bound: block_info entries of one transaction
    MaxTxn,       \* bound: transactions allocated
    MaxCrash      \* bound: crashes and clean remounts, those during replay aside

ASSUME BlockAssumption == 0 \notin Block
ASSUME SlotsAssumption == Slots \in Nat /\ Slots > 3
ASSUME OldStartsAssumption == OldStarts \in Nat \ {0}
ASSUME BlhdrMaxAssumption == BlhdrMax \in Nat \ {0}
ASSUME DevicesAssumption == Devices \subseteq {"through", "cache", "fua"}

VARIABLES
    device,              \* what the device does with writes, fixed at mount
    disk,                \* stable storage: location -> content
    cache,               \* the device's volatile write cache, likewise
    jhdr,                \* in-memory header: start, end
    sequence_num,        \* last sequence number handed out
    saved_sequence_num,  \* its snapshot for the flush in progress
    active_start,        \* start of the oldest transaction not yet home
    old_start,           \* starts of flushed transactions, busy = high bit
    completed_trs,       \* completed out of order: set of [from, to]
    active_tr,           \* the running transaction
    cur_tr,              \* the group-committed transaction
    mem,                 \* buffer cache: content of every block
    fl,                  \* transaction owning the "flushing" condition
    fpc,                 \* where its end_transaction/finish_... is
    scan,                \* check_free_space: next old_start index, found any
    delayed,             \* tr->delayed_header_write
    written,             \* log slots of fl already written (indices)
    hdr_thread,          \* write_header_thread: "idle", "write" or "sync"
    home,                \* transaction owning the "asyncIO" condition
    todo,                \* its blocks still on their way home
    invalid,             \* JOURNAL_INVALID
    mode,                \* "mounted", "closing", "draining", "down", "replay", "resync"
    co_buf,              \* replay: coalesced blocks still to be written
    txns,                \* history: id -> live blocks of a flushed transaction
    committed,           \* history: last id whose commit header was written
    nextid,              \* history: ids handed out
    base,                \* history: volume content at the last mount
    crashes              \* crashes and remounts so far

storage == <<device, disk, cache>>
header  == <<jhdr, sequence_num, saved_sequence_num, active_start, old_start,
             completed_trs>>
trs     == <<active_tr, cur_tr, mem>>
flush   == <<fl, fpc, scan, delayed, written, hdr_thread>>
back    == <<home, todo>>
boot    == <<mode, co_buf, crashes>>
history == <<txns, committed, nextid, base>>

vars == <<storage, header, trs, flush, back, invalid, boot, history>>

-----------------------------------------------------------------------------
(* Storage. *)

Hdr    == <<"hdr", 0>>
Log(i) == <<"log", i>>
Fs(b)  == <<"fs", b>>

Killed  == 0    \* binfo[i].bnum == -1
Garbage == -1   \* content that no transaction wrote
Blank  == [kind |-> "blank"]
Data(v) == [kind |-> "data", v |-> v]

\* What a read returns: the cached copy of a location, else the stable one.
Read(loc) == IF loc \in DOMAIN cache THEN cache[loc] ELSE disk[loc]

Upd(f, loc, v) == [l \in DOMAIN f \cup {loc} |-> IF l = loc THEN v ELSE f[l]]

\* A write of the journal itself: do_journal_io marks it FUA where it can.
PutJournal(loc, v) ==
    IF device = "cache"
    THEN cache' = Upd(cache, loc, v) /\ UNCHANGED <<device, disk>>
    ELSE disk' = Upd(disk, loc, v) /\ UNCHANGED <<device, cache>>

\* A write of a home block: never FUA.
PutFs(loc, v) ==
    IF device = "through"
    THEN disk' = Upd(disk, loc, v) /\ UNCHANGED <<device, cache>>
    ELSE cache' = Upd(cache, loc, v) /\ UNCHANGED <<device, disk>>

\* The DKIOCSYNCHRONIZE that write_journal_header issues unless the journal
\* uses FUA writes; f is the stable content after it.
Synced == IF device = "cache"
          THEN [l \in DOMAIN disk |-> Read(l)]
          ELSE disk
SyncedCache == IF device = "cache" THEN << >> ELSE cache

-----------------------------------------------------------------------------
(* Offsets. *)

Wrap(off) == IF off >= Slots THEN (off % Slots) + 1 ELSE off

After_NoWrap(off, n) == off + n

\* do_journal_io: a transfer of n slots at off leaves the offset here.
After(off, n) == LET o == off + n
                 IN IF o > Slots THEN o - Slots + 1 ELSE o

free_space ==
    IF jhdr.start < jhdr.end THEN Slots - (jhdr.end - jhdr.start) - 1
    ELSE IF jhdr.start > jhdr.end THEN jhdr.start - jhdr.end
    ELSE Slots - 1

-----------------------------------------------------------------------------
(* Transactions. *)

NoTr == [id |-> 0, seq |-> 0, lists |-> << >>, total_bytes |-> 0,
         num_killed |-> 0, num_flushed |-> 0, journal_start |-> 0,
         journal_end |-> 0, data |-> [b \in Block |-> 0]]

\* The elements of a sequence of sequences, in order.
Flatten(seqs) ==
    LET upto[n \in 0 .. Len(seqs)] == IF n = 0 THEN << >> ELSE upto[n - 1] \o seqs[n]
    IN upto[Len(seqs)]

\* The block_info entries of a transaction, and the blocks not killed since.
Entries(tr) == Flatten(tr.lists)
Live(tr)    == {b \in Block : \E i \in DOMAIN Entries(tr) : Entries(tr)[i] = b}

jlock_free == active_tr = NoTr /\ fpc # "space" /\ mode = "mounted"

\* journal_start_transaction, outermost call: adopt cur_tr or allocate.
StartTransaction ==
    /\ jlock_free /\ ~invalid
    /\ IF cur_tr # NoTr
       THEN /\ active_tr' = cur_tr /\ cur_tr' = NoTr
            /\ UNCHANGED <<sequence_num, nextid>>
       ELSE /\ nextid < MaxTxn
            /\ nextid' = nextid + 1
            /\ sequence_num' = sequence_num + 1
            /\ active_tr' = [NoTr EXCEPT !.id = nextid', !.seq = sequence_num',
                                         !.lists = << << >> >>,
                                         !.total_bytes = 1]
            /\ UNCHANGED cur_tr
    /\ UNCHANGED <<storage, jhdr, saved_sequence_num, active_start, old_start,
                   completed_trs, mem, flush, back, invalid, boot, txns,
                   committed, base>>

\* The lists after block b, not yet part of them, is appended: to the last
\* block list header while it has room, else to a new one.
AddBlock(tr, b) ==
    LET n == Len(tr.lists) IN
    IF Len(tr.lists[n]) < BlhdrMax
    THEN [tr EXCEPT !.lists[n] = Append(@, b), !.total_bytes = @ + 1]
    ELSE [tr EXCEPT !.lists = Append(@, <<b>>), !.total_bytes = @ + 2]

\* journal_modify_block_start .. journal_modify_block_end
ModifyBlock(b) ==
    /\ active_tr # NoTr /\ mode = "mounted" /\ ~invalid /\ fpc # "space"
    /\ Len(Entries(active_tr)) < MaxMods
    /\ active_tr.total_bytes + 1 < Slots - 1
    /\ active_tr' = IF b \in Live(active_tr) THEN active_tr
                    ELSE AddBlock(active_tr, b)
    /\ mem' = [mem EXCEPT ![b] = active_tr.id]
    /\ UNCHANGED <<storage, header, cur_tr, flush, back, invalid, boot, history>>

\* journal_modify_block_end cannot take a reference on the vnode of a block that is
\* new to the transaction: the journal is invalid.  (The empty block list header it
\* may just have linked does not matter: the transaction can only be aborted now.)
ModifyFails ==
    /\ active_tr # NoTr /\ mode = "mounted" /\ ~invalid /\ fpc # "space"
    /\ Live(active_tr) # Block
    /\ invalid' = TRUE
    /\ UNCHANGED <<storage, header, trs, flush, back, boot, history>>

\* journal_kill_block: the entry stays, with block number -1.
KillBlock(b) ==
    /\ active_tr # NoTr /\ mode = "mounted" /\ ~invalid /\ fpc # "space"
    /\ b \in Live(active_tr)
    /\ active_tr' =
         [active_tr EXCEPT
            !.lists = [n \in DOMAIN @ |->
                         [i \in DOMAIN @[n] |->
                            IF @[n][i] = b THEN Killed ELSE @[n][i]]],
            !.num_killed = @ + 1]
    /\ UNCHANGED <<storage, header, cur_tr, mem, flush, back, invalid, boot,
                   history>>

\* The group commit test of end_transaction.
GroupCommit(tr, force) ==
    \/ tr.total_bytes = 1
    \/ /\ ~force
       /\ Len(tr.lists) < 3
       /\ tr.total_bytes <= (BlhdrMax + 1) * Len(tr.lists) - GroupSlack

\* end_transaction keeps the transaction for the next one to join.
EndTransactionGroup ==
    /\ active_tr # NoTr /\ mode = "mounted" /\ fpc # "space"
    /\ ~invalid /\ GroupCommit(active_tr, FALSE)
    /\ cur_tr' = active_tr /\ active_tr' = NoTr
    /\ UNCHANGED <<storage, header, mem, flush, back, invalid, boot, history>>

\* end_transaction obtains the "flushing" condition for tr and enters
\* check_free_space, still holding the journal lock.
BeginFlush(tr) ==
    /\ fpc = "idle" /\ ~invalid
    /\ AllKilledTrs \/ Live(tr) # {}
    /\ saved_sequence_num' = sequence_num
    /\ fl' = tr /\ fpc' = "space" /\ delayed' = FALSE
    /\ scan' = [i |-> 0, empty |-> TRUE]
    /\ UNCHANGED <<storage, jhdr, sequence_num, active_start, old_start,
                   completed_trs, mem, written, hdr_thread, back, invalid, boot,
                   history>>

EndTransactionFlush(force) ==
    /\ active_tr # NoTr /\ mode = "mounted" /\ ~GroupCommit(active_tr, force)
    /\ BeginFlush(active_tr)
    /\ active_tr' = NoTr /\ UNCHANGED cur_tr

\* journal_flush: push out the group-committed transaction.
JournalFlush ==
    /\ jlock_free /\ cur_tr # NoTr /\ ~GroupCommit(cur_tr, TRUE)
    /\ BeginFlush(cur_tr)
    /\ cur_tr' = NoTr /\ UNCHANGED active_tr

\* journal_end_transaction or end_transaction finds the journal invalid and
\* aborts the running transaction, or the buffered one journal_flush took.
AbortTransaction ==
    /\ mode = "mounted" /\ invalid
    /\ \/ active_tr # NoTr /\ active_tr' = NoTr /\ UNCHANGED cur_tr
       \/ jlock_free /\ cur_tr # NoTr /\ ~GroupCommit(cur_tr, TRUE)
          /\ cur_tr' = NoTr /\ UNCHANGED active_tr
    /\ UNCHANGED <<storage, header, mem, flush, back, invalid, boot, history>>

-----------------------------------------------------------------------------
(* check_free_space: scan.i = 0 is the head of its outer loop. *)

space_unchanged == <<storage, sequence_num, saved_sequence_num, active_start,
                     completed_trs, trs, fl, fpc, written, hdr_thread, back,
                     invalid, boot, history>>

Fits_Exactly(space) == space >= fl.total_bytes

\* A log filled to the last slot would look empty.
Fits(space) == space > fl.total_bytes

HaveSpace == Fits(free_space) /\ old_start[1].at = 0

ScanBegin ==
    /\ fpc = "space" /\ scan.i = 0 /\ ~HaveSpace
    /\ scan' = [i |-> 1, empty |-> TRUE]
    /\ UNCHANGED <<space_unchanged, jhdr, old_start, delayed>>

\* One entry of old_start[]; a busy one is waited for, a used one moves
\* jhdr->start there.
ScanEntry ==
    /\ fpc = "space" /\ scan.i \in 1 .. OldStarts
    /\ ~old_start[scan.i].busy
    /\ IF old_start[scan.i].at = 0
       THEN /\ scan' = [scan EXCEPT !.i = @ + 1]
            /\ UNCHANGED <<jhdr, old_start, delayed>>
       ELSE /\ jhdr' = [jhdr EXCEPT !.start = old_start[scan.i].at]
            /\ old_start' = [old_start EXCEPT ![scan.i].at = 0]
            /\ IF Fits(free_space')
               THEN /\ delayed' = TRUE
                    /\ scan' = [i |-> 0, empty |-> FALSE]
               ELSE /\ scan' = [i |-> scan.i + 1, empty |-> FALSE]
                    /\ UNCHANGED delayed
    /\ UNCHANGED space_unchanged

ScanEnd ==
    /\ fpc = "space" /\ scan.i = OldStarts + 1
    /\ IF scan.empty
       THEN jhdr' = [jhdr EXCEPT !.start = active_start] /\ delayed' = TRUE
       ELSE UNCHANGED <<jhdr, delayed>>
    /\ scan' = [i |-> 0, empty |-> TRUE]
    /\ UNCHANGED <<space_unchanged, old_start>>

\* check_free_space returns; the rest of end_transaction up to the release of
\* the journal lock: fire the header thread, claim an old_start[] entry, copy
\* the blocks into the transaction buffer.  (Every block of it is still locked and
\* unchanged: the case of a buffer that lost its lock while the journal is being
\* closed, whose entry is killed, needs a forced unmount and is left out.)
Reserve ==
    /\ fpc = "space" /\ scan.i = 0 /\ HaveSpace
    /\ hdr_thread' = IF delayed THEN "write" ELSE "idle"
    /\ fl' = [fl EXCEPT !.journal_start = jhdr.end, !.data = mem]
    /\ old_start' = Append(Tail(old_start), [at |-> jhdr.end, busy |-> TRUE])
    /\ fpc' = "log" /\ written' = {}
    /\ txns' = [txns EXCEPT ![fl.id] = Live(fl)]
    /\ UNCHANGED <<storage, jhdr, sequence_num, saved_sequence_num,
                   active_start, completed_trs, trs, scan, delayed, back,
                   invalid, boot, committed, nextid, base>>

-----------------------------------------------------------------------------
(* write_header_thread and finish_end_transaction. *)

HdrValue(h, seq) == [kind |-> "hdr", start |-> h.start, end |-> h.end, seq |-> seq]

\* write_journal_header(jnl, 1, saved_sequence_num): the header first ...
HeaderThreadWrite ==
    /\ hdr_thread = "write"
    /\ PutJournal(Hdr, HdrValue(jhdr, saved_sequence_num))
    /\ hdr_thread' = "sync"
    /\ UNCHANGED <<header, trs, fl, fpc, scan, delayed, written, back, invalid,
                   boot, history>>

\* ... then the flush of the device.
HeaderThreadSync ==
    /\ hdr_thread = "sync"
    /\ disk' = Synced /\ cache' = SyncedCache
    /\ hdr_thread' = "idle"
    /\ UNCHANGED <<device, header, trs, fl, fpc, scan, delayed, written, back,
                   invalid, boot, history>>

\* The header could not be written: the journal is invalid.
HeaderThreadFails ==
    /\ hdr_thread = "write"
    /\ hdr_thread' = "failed" /\ invalid' = TRUE
    /\ UNCHANGED <<storage, header, trs, fl, fpc, scan, delayed, written, back,
                   boot, history>>

\* The image of a transaction in the log.
BlhdrImage(tr, n) ==
    [kind |-> "blhdr", seq |-> tr.seq, first |-> n = 1,
     binfo |-> [i \in DOMAIN tr.lists[n] |->
                  [bnum  |-> tr.lists[n][i],
                   cksum |-> IF tr.lists[n][i] = Killed THEN 0
                             ELSE tr.data[tr.lists[n][i]]]]]
DataImage(tr, n) ==
    [i \in DOMAIN tr.lists[n] |->
        IF tr.lists[n][i] = Killed THEN Data(0) ELSE Data(tr.data[tr.lists[n][i]])]
Image(tr) ==
    Flatten([n \in DOMAIN tr.lists |->
                  <<BlhdrImage(tr, n)>> \o DataImage(tr, n)])

\* A block list header goes out after everything before it, then its blocks
\* as one transfer, whose slots reach the device in any order.
MayWrite(img, i) ==
    LET hdrs == {j \in 1 .. i : img[j].kind = "blhdr"}
        last == CHOOSE j \in hdrs : \A k \in hdrs : k <= j
    IN IF last = i THEN 1 .. i - 1 \subseteq written ELSE 1 .. last \subseteq written

WriteLog(i) ==
    /\ fpc = "log" /\ hdr_thread = "idle"
    /\ i \in (1 .. fl.total_bytes) \ written
    /\ MayWrite(Image(fl), i)
    /\ PutJournal(Log(Wrap(jhdr.end + i - 1)), Image(fl)[i])
    /\ written' = written \cup {i}
    /\ UNCHANGED <<header, trs, fl, fpc, scan, delayed, hdr_thread, back,
                   invalid, boot, history>>

CommitHeader_Unflushed(h) == PutJournal(Hdr, h)

\* write_journal_header(jnl, 0, ...): it flushes the device before it writes the
\* header, not after.
CommitHeader(h) ==
    /\ IF device = "cache"
       THEN disk' = Synced /\ cache' = Upd(SyncedCache, Hdr, h)
       ELSE disk' = Upd(disk, Hdr, h) /\ UNCHANGED cache
    /\ UNCHANGED device

InLog_Uncounted(tr, end) == [tr EXCEPT !.journal_end = end]

\* The transaction once it is in the log: the block list headers, which are not
\* written home, count as flushed.
InLog(tr, end) == [tr EXCEPT !.journal_end = end, !.num_flushed = Len(tr.lists)]

\* The log is written: move jhdr->end and write the header.
Commit ==
    /\ fpc = "log" /\ hdr_thread = "idle" /\ written = 1 .. fl.total_bytes
    /\ jhdr' = [jhdr EXCEPT !.end = After(@, fl.total_bytes)]
    /\ fl' = InLog(fl, jhdr'.end)
    /\ CommitHeader(HdrValue(jhdr', saved_sequence_num))
    /\ fpc' = "issue" /\ committed' = fl.id
    /\ UNCHANGED <<sequence_num, saved_sequence_num, active_start,
                   old_start, completed_trs, trs, scan, delayed, written,
                   hdr_thread, back, invalid, boot, txns, nextid, base>>

\* bad_journal: the transaction is aborted, the journal invalidated and the
\* last old_start[] entry released.
AbortFlush ==
    /\ fpc = "log"
    /\ invalid' = TRUE
    /\ old_start' = [old_start EXCEPT ![OldStarts].busy = FALSE]
    /\ fl' = NoTr /\ fpc' = "idle"
    /\ UNCHANGED <<storage, jhdr, sequence_num, saved_sequence_num,
                   active_start, completed_trs, trs, scan, delayed, written,
                   hdr_thread, back, boot, history>>

\* A block cannot be mapped (the header thread may still be running), a write of
\* the log or of the commit header fails ...
FinishFails == hdr_thread # "failed" /\ AbortFlush

\* ... or the header thread is found to have failed.
FinishAborts == hdr_thread = "failed" /\ AbortFlush

\* Obtain the "asyncIO" condition, start the home writes, release "flushing".
\* A transaction without a live block is discarded here.
IssueHome ==
    /\ fpc = "issue" /\ home = NoTr
    /\ IF Live(fl) = {} THEN UNCHANGED home ELSE home' = fl
    /\ todo' = Live(fl)
    /\ fl' = NoTr /\ fpc' = "idle"
    /\ UNCHANGED <<storage, header, trs, scan, delayed, written, hdr_thread,
                   invalid, boot, history>>

\* active_start after absorbing the completed transactions that follow on.
Absorb(from, done) ==
    LET to[n \in 0 .. Cardinality(done)] ==
          IF n = 0 THEN from
          ELSE LET a == to[n - 1] IN
               IF \E c \in done : c.from = a
               THEN (CHOOSE c \in done : c.from = a).to
               ELSE a
    IN to[Cardinality(done)]

TransactionHome_Busy(tr) ==
    /\ active_start' = tr.journal_end
    /\ UNCHANGED <<old_start, completed_trs>>

\* buffer_flushed_callback for the last block of tr.
TransactionHome(tr) ==
    LET i    == CHOOSE j \in 1 .. OldStarts :
                   /\ old_start[j].at = tr.journal_start
                   /\ \A k \in 1 .. j - 1 : old_start[k].at # tr.journal_start
        done == completed_trs \cup {[from |-> tr.journal_start, to |-> tr.journal_end]}
        a    == Absorb(active_start, done)
    IN /\ old_start' = [old_start EXCEPT ![i].busy = FALSE]
       /\ active_start' = a
       /\ completed_trs' = {c \in done : Absorb(c.from, done) # a}

\* The home write of one block completes and runs buffer_flushed_callback.
HomeWrite(b) ==
    /\ home # NoTr /\ b \in todo /\ mode # "down"
    /\ PutFs(Fs(b), Data(home.data[b]))
    /\ todo' = todo \ {b}
    /\ IF home.num_killed + home.num_flushed + 1 < home.total_bytes
       THEN /\ home' = [home EXCEPT !.num_flushed = @ + 1]
            /\ UNCHANGED <<old_start, active_start, completed_trs>>
       ELSE /\ home' = NoTr
            /\ IF invalid THEN UNCHANGED <<old_start, active_start, completed_trs>>
               ELSE TransactionHome(home)
    /\ UNCHANGED <<jhdr, sequence_num, saved_sequence_num, trs, flush, invalid,
                   boot, history>>

\* The device moves a cached write to stable storage, in any order.
Destage(loc) ==
    /\ loc \in DOMAIN cache
    /\ disk' = [disk EXCEPT ![loc] = cache[loc]]
    /\ cache' = [l \in DOMAIN cache \ {loc} |-> cache[l]]
    /\ UNCHANGED <<device, header, trs, flush, back, invalid, boot, history>>

-----------------------------------------------------------------------------
(* replay_journal: the scan of the log, from the header h and the content lg *)
(* of the log slots.                                                         *)

ReplayInit(h) ==
    LET s == IF h.start = Slots THEN 1 ELSE h.start
        e == IF h.end = Slots THEN 1 ELSE h.end
    IN [start |-> s, end |-> e, orig |-> s, past |-> TRUE, uncharted |-> FALSE,
        last |-> 0, txn |-> 0, retry |-> 0, co |-> << >>,
        st |-> IF s = e THEN "ok" ELSE "run"]

\* bad_txn_handling: retry up to the last known good transaction.
BadTxn(s) ==
    IF s.txn = 0 \/ s.retry = 3 THEN [s EXCEPT !.st = "fail"]
    ELSE [s EXCEPT !.retry = @ + 1, !.start = s.orig, !.end = s.txn,
                   !.past = FALSE, !.last = 0, !.co = << >>]

\* A log slot taken for the content of a block.
Payload(slot) == IF slot.kind = "data" THEN slot.v ELSE Garbage

ChecksumBad_Ignored(binfo, slot, lg) == FALSE

\* Some block of the list, not killed, differs from its checksum.
ChecksumBad(binfo, slot, lg) ==
    \E i \in DOMAIN binfo :
        binfo[i].bnum # Killed /\ lg[slot[i]] # Data(binfo[i].cksum)

ReplayBlhdr(s, lg) ==
    LET b    == lg[s.start]
        t    == IF b.first THEN [s EXCEPT !.txn = s.start, !.last = b.seq]
                ELSE [s EXCEPT !.last = b.seq]
        slot == [i \in DOMAIN b.binfo |-> Wrap(s.start + i)]
        live == {i \in DOMAIN b.binfo : b.binfo[i].bnum # Killed}
        next == Wrap(s.start + Len(b.binfo) + 1)
    IN IF ChecksumBad(b.binfo, slot, lg) THEN BadTxn(t)
       ELSE [t EXCEPT
               !.start = next,
               !.uncharted = @ \/ next = s.end,
               !.co = [x \in DOMAIN @ \cup {b.binfo[i].bnum : i \in live} |->
                         IF \E i \in live : b.binfo[i].bnum = x
                         THEN Payload(lg[slot[CHOOSE i \in live : b.binfo[i].bnum = x]])
                         ELSE @[x]]]

ReplayStep(s, lg) ==
    LET b == lg[s.start] IN
    IF s.st # "run" THEN s
    ELSE IF ~s.past /\ s.start = s.end
    THEN [s EXCEPT !.st = "ok"]
    ELSE IF b.kind # "blhdr"
    THEN IF s.past /\ s.uncharted THEN [s EXCEPT !.past = FALSE, !.end = s.start]
         ELSE IF s.start = s.orig THEN [s EXCEPT !.st = "fail"]
         ELSE BadTxn(s)
    ELSE IF s.last # 0 /\ b.seq \notin {s.last, s.last + 1}
    THEN LET t == [s EXCEPT !.txn = s.start, !.end = s.start]
         IN IF s.past THEN [t EXCEPT !.past = FALSE] ELSE BadTxn(t)
    ELSE ReplayBlhdr(s, lg)

\* The scan to its end: at most four passes over the log.  (The singleton sets
\* bind each intermediate state to a value.)
Replay(h, lg) ==
    LET run[n \in 0 .. 4 * Slots + 4] ==
          IF n = 0 THEN ReplayInit(h)
          ELSE CHOOSE t \in {ReplayStep(s, lg) : s \in {run[n - 1]}} : TRUE
    IN run[4 * Slots + 4]

LogContent(d) == [i \in 1 .. Slots - 1 |-> d[Log(i)]]
FsContent(d)  == [b \in Block |-> d[Fs(b)].v]
Visible       == [l \in DOMAIN disk |-> Read(l)]

-----------------------------------------------------------------------------
(* journal_close, crash, journal_open. *)

\* Nothing of the journal's memory survives.
reset ==
    /\ active_tr' = NoTr /\ cur_tr' = NoTr
    /\ fl' = NoTr /\ fpc' = "idle" /\ scan' = [i |-> 0, empty |-> TRUE]
    /\ delayed' = FALSE /\ written' = {} /\ hdr_thread' = "idle"
    /\ home' = NoTr /\ todo' = {} /\ invalid' = FALSE
    /\ old_start' = [i \in 1 .. OldStarts |-> [at |-> 0, busy |-> FALSE]]
    /\ completed_trs' = {}
    /\ jhdr' = [start |-> 1, end |-> 1] /\ active_start' = 1
    /\ sequence_num' = 0 /\ saved_sequence_num' = 0
    /\ mem' = [b \in Block |-> 0] /\ co_buf' = << >>

CloseStart_End == jhdr.end

\* Where journal_close leaves the start of the log.
CloseStart == active_start

\* journal_close of a valid journal: nothing is being flushed, cur_tr has been
\* flushed (or is empty); it waits a bounded time for the home writes, so they
\* may still be running when it writes the header ...
CloseBegin ==
    /\ jlock_free /\ ~invalid /\ fpc = "idle" /\ crashes < MaxCrash
    /\ cur_tr = NoTr \/ cur_tr.total_bytes = 1
    /\ cur_tr' = NoTr
    /\ jhdr' = [jhdr EXCEPT !.start = CloseStart]
    /\ UNCHANGED <<sequence_num, saved_sequence_num, active_start, old_start,
                   completed_trs, active_tr, mem, flush, back, co_buf, crashes,
                   history>>

CloseHeader ==
    /\ CloseBegin
    /\ PutJournal(Hdr, HdrValue(jhdr', sequence_num))
    /\ mode' = "closing" /\ UNCHANGED invalid

\* ("if this fails there's not much we can do at this point")
CloseHeaderFails ==
    /\ CloseBegin
    /\ mode' = "draining" /\ invalid' = TRUE
    /\ UNCHANGED storage

\* ... flushes the device ...
CloseSync ==
    /\ mode = "closing"
    /\ disk' = Synced /\ cache' = SyncedCache
    /\ mode' = "draining"
    /\ UNCHANGED <<device, header, trs, flush, back, invalid, co_buf, crashes,
                   history>>

\* ... and waits for asyncIO: home writes that end now are not flushed.  An invalid
\* journal is closed without a write.  (Nothing makes journal_close wait for a header
\* thread that outlived its failed flush; the model does, since what that thread
\* does with a journal that was freed under it is undefined.)
CloseDone ==
    /\ home = NoTr
    /\ \/ mode = "draining"
       \/ /\ invalid /\ jlock_free /\ fpc = "idle" /\ crashes < MaxCrash
          /\ hdr_thread \in {"idle", "failed"}
    /\ mode' = "down" /\ crashes' = crashes + 1
    /\ reset
    /\ UNCHANGED <<storage, history>>

\* Power is lost: the write cache and all memory are gone.
Crash ==
    /\ mode # "down"
    /\ IF mode \in {"replay", "resync"} THEN UNCHANGED crashes
       ELSE crashes < MaxCrash /\ crashes' = crashes + 1
    /\ cache' = << >>
    /\ mode' = "down"
    /\ reset
    /\ UNCHANGED <<device, disk, history>>

\* The volume is usable with content fs and an empty journal at offset off.
Mounted(fs, off, seq) ==
    /\ mode' = "mounted"
    /\ jhdr' = [start |-> off, end |-> off] /\ active_start' = off
    /\ sequence_num' = seq /\ saved_sequence_num' = seq
    /\ mem' = fs /\ base' = fs
    /\ txns' = [i \in DOMAIN txns |-> {}] /\ committed' = nextid

\* journal_open: read the header and scan the log.
Open ==
    /\ mode = "down"
    /\ LET h == Read(Hdr)
           r == Replay(h, LogContent(Visible))
       IN /\ r.st = "ok"
          /\ IF ReplayInit(h).st = "ok"
             THEN /\ Mounted(FsContent(Visible), r.start, h.seq)
                  /\ UNCHANGED co_buf
             ELSE /\ mode' = "replay" /\ co_buf' = r.co
                  /\ jhdr' = [start |-> r.start, end |-> r.end]
                  /\ sequence_num' = h.seq
                  /\ UNCHANGED <<saved_sequence_num, active_start, mem, base,
                                 txns, committed>>
    /\ UNCHANGED <<storage, old_start, completed_trs, active_tr, cur_tr, flush,
                   back, invalid, crashes, nextid>>

\* update_fs_block, for one entry of the coalesce buffer.
ReplayBlock(b) ==
    /\ mode = "replay" /\ b \in DOMAIN co_buf
    /\ PutFs(Fs(b), Data(co_buf[b]))
    /\ co_buf' = [x \in DOMAIN co_buf \ {b} |-> co_buf[x]]
    /\ UNCHANGED <<header, trs, flush, back, invalid, mode, crashes, history>>

\* "done replaying; update jnl header", then the flush.
ReplayHeader ==
    /\ mode = "replay" /\ DOMAIN co_buf = {}
    /\ PutJournal(Hdr, HdrValue(jhdr, sequence_num))
    /\ mode' = "resync"
    /\ UNCHANGED <<header, trs, flush, back, invalid, co_buf, crashes, history>>

ReplayDone ==
    /\ mode = "resync"
    /\ disk' = Synced /\ cache' = SyncedCache
    /\ Mounted(FsContent(Visible), jhdr.start, sequence_num)
    /\ UNCHANGED <<device, old_start, completed_trs, active_tr, cur_tr, flush,
                   back, invalid, co_buf, crashes, nextid>>

-----------------------------------------------------------------------------
\* A volume just given a journal by journal_create.
Init ==
    /\ device \in Devices
    /\ disk = [l \in {Hdr} \cup {Log(i) : i \in 1 .. Slots - 1} \cup {Fs(b) : b \in Block} |->
                 IF l = Hdr THEN HdrValue([start |-> 1, end |-> 1], 1)
                 ELSE IF l[1] = "log" THEN Blank ELSE Data(0)]
    /\ cache = << >>
    /\ jhdr = [start |-> 1, end |-> 1] /\ active_start = 1
    /\ sequence_num = 1 /\ saved_sequence_num = 1
    /\ old_start = [i \in 1 .. OldStarts |-> [at |-> 0, busy |-> FALSE]]
    /\ completed_trs = {}
    /\ active_tr = NoTr /\ cur_tr = NoTr /\ mem = [b \in Block |-> 0]
    /\ fl = NoTr /\ fpc = "idle" /\ scan = [i |-> 0, empty |-> TRUE]
    /\ delayed = FALSE /\ written = {} /\ hdr_thread = "idle"
    /\ home = NoTr /\ todo = {} /\ invalid = FALSE
    /\ mode = "mounted" /\ co_buf = << >> /\ crashes = 0
    /\ txns = [i \in 1 .. MaxTxn |-> {}] /\ committed = 0 /\ nextid = 0
    /\ base = [b \in Block |-> 0]

\* What the file system asks of the journal.
Client ==
    \/ StartTransaction
    \/ \E b \in Block : ModifyBlock(b) \/ KillBlock(b)
    \/ EndTransactionGroup
    \/ \E force \in BOOLEAN : EndTransactionFlush(force)
    \/ JournalFlush
    \/ CloseHeader

\* check_free_space and the rest of end_transaction.
Space == ScanBegin \/ ScanEntry \/ ScanEnd \/ Reserve

HeaderThread == HeaderThreadWrite \/ HeaderThreadSync

\* finish_end_transaction.
Finish ==
    \/ \E i \in 1 .. Slots : WriteLog(i)
    \/ Commit \/ IssueHome \/ FinishAborts

HomeIO == \E b \in Block : HomeWrite(b)

Recovery ==
    \/ CloseSync \/ CloseDone \/ Open
    \/ \E b \in Block : ReplayBlock(b)
    \/ ReplayHeader \/ ReplayDone

Environment ==
    \/ ModifyFails \/ HeaderThreadFails \/ FinishFails \/ CloseHeaderFails \/ Crash
    \/ \E loc \in DOMAIN cache : Destage(loc)

Next == \/ Client \/ AbortTransaction
        \/ Space \/ HeaderThread \/ Finish \/ HomeIO
        \/ Recovery \/ Environment

Spec == Init /\ [][Next]_vars

\* The threads of the journal are scheduled and its I/O completes.
FairSpec ==
    /\ Spec
    /\ WF_vars(Space) /\ WF_vars(HeaderThread) /\ WF_vars(Finish)
    /\ WF_vars(HomeIO)

-----------------------------------------------------------------------------
(* Properties. *)

Offset == 1 .. Slots

\* Every variable has its type; log offsets stay within the journal, the range
\* that do_journal_io and end_transaction panic outside of.
TypeOK ==
    /\ device \in {"through", "cache", "fua"}
    /\ jhdr \in [start : Offset, end : Offset]
    /\ active_start \in Offset
    /\ old_start \in [1 .. OldStarts -> [at : Offset \cup {0}, busy : BOOLEAN]]
    /\ sequence_num \in Nat /\ saved_sequence_num \in Nat
    /\ fpc \in {"idle", "space", "log", "issue"}
    /\ hdr_thread \in {"idle", "write", "sync", "failed"}
    /\ mode \in {"mounted", "closing", "draining", "down", "replay", "resync"}
    /\ todo \subseteq Block
    /\ invalid \in BOOLEAN

\* The volume after transactions 1 .. n: each block as its last writer left it.
FsAfter(n) ==
    [b \in Block |->
        LET w == {i \in 1 .. n : b \in txns[i]}
        IN IF w = {} THEN base[b] ELSE CHOOSE i \in w : \A j \in w : j <= i]

\* What replay makes of stable storage d.
Recovered(d) ==
    CHOOSE v \in {[b \in Block |-> IF b \in DOMAIN r.co THEN r.co[b] ELSE d[Fs(b)].v] :
                     r \in {Replay(d[Hdr], lg) : lg \in {LogContent(d)}}} : TRUE

\* Replay never applies a transaction from before the last mount: "there is no
\* way we will encounter any old transactions" (the comment in journal_create).
NoOldTransactions ==
    device = "through" =>
        LET r == Replay(disk[Hdr], LogContent(disk))
        IN \A b \in DOMAIN r.co : b \in txns[r.co[b]]

\* "we have to ensure that blocks get committed to the journal before being
\* committed to their normal locations" (the comment in journal_relocate): a
\* block whose new content is stable at home belongs to a transaction that a
\* replay of stable storage would apply, or that was complete already.
JournalBeforeHome ==
    LET r == Replay(disk[Hdr], LogContent(disk))
    IN \A t \in {home} \ {NoTr} :
         (\E b \in Live(t) : disk[Fs(b)] = Data(t.data[b]))
             => Live(t) \subseteq DOMAIN r.co

\* On every device, the header on stable storage covers only whole, intact
\* transactions: the replay of [start, end) meets no bad checksum or sequence
\* number, whatever order the device wrote its cache in.
LogIntact ==
    LET h == disk[Hdr]
        run[n \in 0 .. Slots + 1] ==
          IF n = 0 THEN [ReplayInit(h) EXCEPT !.past = FALSE]
          ELSE CHOOSE t \in {ReplayStep(s, LogContent(disk)) :
                               s \in {run[n - 1]}} : TRUE
    IN run[Slots + 1].st = "ok" /\ run[Slots + 1].retry = 0

\* x lies in the ring interval [from, to).
InRing(from, x, to) ==
    IF from <= to THEN from <= x /\ x < to ELSE from <= x \/ x < to

\* Log space is not given back early: the header a reader would see still
\* covers every committed transaction whose blocks are on their way home.
HomeCovered ==
    LET h == Read(Hdr)
        busy == {t \in {home, IF fpc = "issue" THEN fl ELSE NoTr} : t # NoTr}
    IN invalid \/ \A t \in busy : InRing(h.start, t.journal_start, h.end)

\* check_free_space waits on a busy old_start[] entry until the high bit is
\* cleared and panics when nobody does: a busy entry belongs to a transaction
\* still being flushed or written home.
OldStartOwned ==
    \A i \in 1 .. OldStarts :
        old_start[i].busy /\ ~invalid =>
            old_start[i].at \in {home.journal_start,
                                 IF fpc \in {"log", "issue"} THEN fl.journal_start ELSE 0}

\* check_free_space terminates: no "buffer flushing isn't working" panic.
SpaceFound == fpc = "space" ~> fpc # "space"

\* A flushed transaction leaves the journal's hands: its blocks reach home, or
\* the journal becomes invalid, or the machine goes down.
FlushCompletes ==
    \A i \in 1 .. MaxTxn :
        (fl.id = i /\ fpc # "space") ~> (fl.id # i /\ home.id # i)
=============================================================================
