-------------------------- MODULE JournalLogSteps --------------------------
(***************************************************************************)
(* The inductive invariant of JournalLog, and that every step preserves it: *)
(* where the offsets of the log are, which old_start[] entries are in use   *)
(* and what the log, its header and the transactions in memory hold.        *)
(***************************************************************************)
EXTENDS JournalLog, TLAPS

-----------------------------------------------------------------------------
(* What the log and its header hold. *)

\* A transaction; what the offsets do not depend on is left open.
IsTr(t) ==
    t \in [id : {t.id}, seq : {t.seq}, lists : Seq(Seq(Block \cup {Killed})),
           total_bytes : Nat, num_killed : {t.num_killed},
           num_flushed : {t.num_flushed}, journal_start : Offset \cup {0},
           journal_end : Offset \cup {0}, data : {t.data}]

\* total_bytes counts the block list headers and their blocks; p[n] is the
\* count up to the n-th.
Sized(t) ==
    /\ t.total_bytes > 0
    /\ \E p \in [0 .. Len(t.lists) -> 0 .. t.total_bytes] :
         /\ p[0] = 0 /\ p[Len(t.lists)] = t.total_bytes
         /\ \A n \in 1 .. Len(t.lists) : p[n] = p[n - 1] + Len(t.lists[n]) + 1

\* A header, and a slot of the log that replay can step over.
IsHdr(c)  == c \in [kind : {"hdr"}, start : Offset, end : Offset, seq : Nat]
IsSlot(c) == c.kind = "blhdr" => Len(c.binfo) \in 0 .. Slots - 3

\* What the operators of the model compute, for the steps below.
LogFacts ==
    /\ \A x, y : Absorb(x, {[from |-> x, to |-> y]}) = y
    /\ \A t : IsTr(t) /\ Sized(t) /\ t.total_bytes < Slots - 1 =>
            \A i \in 1 .. t.total_bytes : IsSlot(Image(t)[i])
    /\ \A h, lg : IsHdr(h) /\ (\A i \in 1 .. Slots - 1 : IsSlot(lg[i])) =>
            Replay(h, lg).start \in Offset /\ Replay(h, lg).end \in Offset

-----------------------------------------------------------------------------
(* The inductive invariant. *)

\* Slots from x to y along the log.
Dist(x, y) == IF x <= y THEN y - x ELSE y - x + Slots - 1

\* The transactions in memory: what is being flushed has a block to write.
TrInv ==
    /\ \A t \in {active_tr, cur_tr, fl, home} : IsTr(t)
    /\ \A t \in {active_tr, cur_tr} : t = NoTr \/ Sized(t)
    /\ fpc # "idle" => Sized(fl) /\ Live(fl) # {}

\* What is at rest while the journal is not mounted, or invalid.
ModeInv ==
    /\ mode # "mounted" => fpc = "idle"
    /\ mode \in {"down", "replay", "resync"} =>
         /\ home = NoTr /\ completed_trs = {} /\ ~invalid
         /\ \A i \in 1 .. OldStarts : old_start[i] = [at |-> 0, busy |-> FALSE]
    /\ invalid => fpc # "space"
    /\ hdr_thread # "idle" => fpc = "log" \/ invalid

\* check_free_space leaves no old_start[] entry behind.
ScanInv ==
    /\ scan \in [i : 0 .. OldStarts + 1, empty : BOOLEAN]
    /\ fpc = "space" => \A j \in 1 .. OldStarts : j < scan.i => old_start[j].at = 0

\* The transactions on their way home lie one after the other, from
\* active_start to the end of the log.
Ahead == IF fpc = "issue" THEN fl.journal_start ELSE jhdr.end

ChainInv ==
    mode \in {"mounted", "closing", "draining"} /\ ~invalid =>
      /\ completed_trs = {}
      /\ active_start = IF home = NoTr THEN Ahead ELSE home.journal_start
      /\ home # NoTr => home.journal_end = Ahead
      /\ fpc = "log" => fl.journal_start = jhdr.end
      /\ fpc = "issue" => fl.journal_end = jhdr.end

\* No two old_start[] entries are the same, and a busy one is the entry of the
\* transaction going home or, in the last place, of the one being flushed.
BusyInv ==
    ~invalid =>
      /\ \A i, j \in 1 .. OldStarts :
            i # j /\ old_start[i].at # 0 => old_start[i].at # old_start[j].at
      /\ \A i \in 1 .. OldStarts : old_start[i].busy =>
            \/ home # NoTr /\ old_start[i].at = home.journal_start
            \/ fpc \in {"log", "issue"} /\ i = OldStarts
      /\ home # NoTr => \E i \in 1 .. OldStarts :
            old_start[i].busy /\ old_start[i].at = home.journal_start
      /\ home # NoTr => home.journal_start # 0
      /\ home # NoTr /\ fpc \in {"log", "issue"} => home.journal_start # fl.journal_start
      /\ fpc \in {"log", "issue"} =>
            /\ fl.journal_start # 0
            /\ old_start[OldStarts] = [at |-> fl.journal_start, busy |-> TRUE]

\* The old_start[] entries are in the order of the log, within what is used of
\* it; a slot always stays free.
used   == Dist(jhdr.start, jhdr.end)
Pos(i) == Dist(jhdr.start, old_start[i].at)

RingInv ==
    /\ fpc = "log" => used + fl.total_bytes < Slots - 1
    /\ mode = "mounted" /\ ~invalid =>
      /\ used < Slots - 1
      /\ \A i \in 1 .. OldStarts : old_start[i].at # 0 =>
            Pos(i) < used \/ (fpc = "log" /\ i = OldStarts)
      /\ \A i, j \in 1 .. OldStarts :
            i < j /\ old_start[i].at # 0 /\ old_start[j].at # 0 => Pos(i) < Pos(j)

\* The header and the slots of the log, on stable storage and in the cache.
Stored(f) ==
    /\ Hdr \in DOMAIN f => IsHdr(f[Hdr])
    /\ \A i \in 1 .. Slots - 1 : Log(i) \in DOMAIN f => IsSlot(f[Log(i)])

StoreInv ==
    /\ Hdr \in DOMAIN disk /\ \A i \in 1 .. Slots - 1 : Log(i) \in DOMAIN disk
    /\ Stored(disk) /\ Stored(cache)
    /\ device # "cache" => Hdr \notin DOMAIN cache

LogInv == /\ TypeOK /\ TrInv /\ ModeInv /\ ScanInv /\ ChainInv /\ BusyInv
          /\ RingInv /\ StoreInv /\ HomeCovered

\* The steps of the clients of the journal, of check_free_space, of the header thread, of
\* finish_end_transaction, of the home writes, of the device and of journal_open preserve
\* the invariant.  (Every transaction that is flushed has a block to write.)
LEMMA LogStep ==
    ASSUME AllKilledTrs = FALSE, LogFacts, LogInv, [Next]_vars PROVE LogInv'
<1> USE SlotsAssumption, OldStartsAssumption
<1>inv. /\ TypeOK /\ TrInv /\ ModeInv /\ ScanInv /\ ChainInv /\ BusyInv
        /\ RingInv /\ StoreInv /\ HomeCovered
  BY Zenon DEF LogInv
<1>facts. /\ \A x, y : Absorb(x, {[from |-> x, to |-> y]}) = y
          /\ \A t : IsTr(t) /\ Sized(t) /\ t.total_bytes < Slots - 1 =>
                  \A i \in 1 .. t.total_bytes : IsSlot(Image(t)[i])
          /\ \A h, lg : IsHdr(h) /\ (\A i \in 1 .. Slots - 1 : IsSlot(lg[i])) =>
                  Replay(h, lg).start \in Offset /\ Replay(h, lg).end \in Offset
  BY Zenon DEF LogFacts
\* What a step that does not touch it leaves as it is.
<1>type. ASSUME UNCHANGED <<device, jhdr, active_start, old_start, sequence_num,
                            saved_sequence_num, fpc, hdr_thread, mode, todo, invalid>>
         PROVE  TypeOK'
  BY <1>inv, <1>type, Zenon DEF TypeOK
<1>trs. ASSUME UNCHANGED <<active_tr, cur_tr, fl, home, fpc>> PROVE TrInv'
  BY <1>inv, <1>trs, Zenon DEF TrInv
<1>mode. ASSUME UNCHANGED <<mode, fpc, home, completed_trs, invalid, old_start, hdr_thread>>
         PROVE  ModeInv'
  BY <1>inv, <1>mode, Zenon DEF ModeInv
<1>scan. ASSUME UNCHANGED <<scan, fpc, old_start>> PROVE ScanInv'
  BY <1>inv, <1>scan, Zenon DEF ScanInv
<1>chain. ASSUME UNCHANGED <<mode, invalid, completed_trs, active_start, home, fpc, fl, jhdr>>
          PROVE  ChainInv'
  BY <1>inv, <1>chain, Zenon DEF ChainInv, Ahead
<1>busy. ASSUME UNCHANGED <<invalid, old_start, home, fpc, fl>> PROVE BusyInv'
  BY <1>inv, <1>busy, Zenon DEF BusyInv
<1>ring. ASSUME UNCHANGED <<mode, invalid, jhdr, old_start, fpc, fl>> PROVE RingInv'
  BY <1>inv, <1>ring, Zenon DEF RingInv, used, Pos
<1>store. ASSUME UNCHANGED storage PROVE StoreInv' /\ Read(Hdr)' = Read(Hdr)
  BY <1>inv, <1>store, Zenon DEF StoreInv, Stored, Read, storage
<1>cover. ASSUME UNCHANGED <<home, fpc, fl, invalid>>, Read(Hdr)' = Read(Hdr) PROVE HomeCovered'
  BY <1>inv, <1>cover, Zenon DEF HomeCovered
\* Storage: what a read of the header returns after a write.
<1>dev. device \in {"through", "cache", "fua"}
  BY <1>inv, Zenon DEF TypeOK
<1>locs. /\ \A i, b : Hdr # Log(i) /\ Hdr # Fs(b) /\ Log(i) # Fs(b)
         /\ \A i, j : Log(i) = Log(j) => i = j
  BY Zenon DEF Hdr, Log, Fs
<1> HIDE DEF Hdr, Log, Fs, Upd
<1>put. ASSUME NEW f, NEW l, NEW v, Stored(f), l = Hdr => IsHdr(v),
               \A i \in 1 .. Slots - 1 : l = Log(i) => IsSlot(v)
        PROVE  Stored(Upd(f, l, v))
  <2> DEFINE u == Upd(f, l, v)
  <2>1. DOMAIN u = DOMAIN f \cup {l} /\ u[l] = v /\ \A m \in DOMAIN f : m # l => u[m] = f[m]
    BY Zenon DEF Upd
  <2> HIDE DEF u
  <2>2. Hdr \in DOMAIN u => IsHdr(u[Hdr])
    BY <1>put, <2>1, Zenon DEF Stored
  <2>3. ASSUME NEW i \in 1 .. Slots - 1, Log(i) \in DOMAIN u
        PROVE  IsSlot(u[Log(i)])
    <3>1. CASE l = Log(i)
      BY <1>put, <2>1, <3>1, Zenon
    <3>2. CASE l # Log(i)
      BY <1>put, <2>1, <2>3, <3>2, Zenon DEF Stored
    <3> QED
      BY <3>1, <3>2, Zenon
  <2> QED
    BY <2>2, <2>3, Zenon DEF Stored, u
<1>none. DOMAIN << >> = {} /\ Stored(<< >>)
  <2>1. DOMAIN << >> = {}
    OBVIOUS
  <2> QED
    BY <2>1, Zenon DEF Stored
<1>synced. ASSUME device = "cache"
           PROVE  /\ Stored(Synced) /\ DOMAIN Synced = DOMAIN disk
                  /\ Synced[Hdr] = Read(Hdr) /\ SyncedCache = << >>
  <2>1. Synced = [l \in DOMAIN disk |-> Read(l)] /\ SyncedCache = << >>
    BY <1>synced, Zenon DEF Synced, SyncedCache
  <2> QED
    BY <1>inv, <2>1, Zenon DEF StoreInv, Stored, Read
<1>header. ASSUME NEW c, IsHdr(c), PutJournal(Hdr, c) \/ CommitHeader(c)
           PROVE  StoreInv' /\ Read(Hdr)' = c
  <2>1. Stored(Upd(cache, Hdr, c)) /\ Stored(Upd(disk, Hdr, c)) /\ Stored(Upd(<< >>, Hdr, c))
    BY <1>inv, <1>locs, <1>put, <1>none, <1>header, Zenon DEF StoreInv
  <2>2. CASE device = "cache"
    <3>1. CASE PutJournal(Hdr, c)
      <4>1. cache' = Upd(cache, Hdr, c) /\ disk' = disk /\ device' = device
        BY <2>2, <3>1, Zenon DEF PutJournal
      <4>2. Stored(cache)' /\ Stored(disk)'
        BY <1>inv, <2>1, <4>1, Zenon DEF StoreInv
      <4>3. cache'[Hdr] = c /\ Hdr \in DOMAIN cache'
        BY <4>1, Zenon DEF Upd
      <4> QED
        BY <1>inv, <2>2, <4>1, <4>2, <4>3, Zenon DEF StoreInv, Read
    <3>2. CASE CommitHeader(c)
      <4>1. disk' = Synced /\ cache' = Upd(<< >>, Hdr, c) /\ device' = device
        BY <1>synced, <2>2, <3>2, Zenon DEF CommitHeader
      <4>2. Stored(cache)' /\ Stored(disk)'
        BY <1>synced, <2>1, <2>2, <4>1, Zenon
      <4>3. cache'[Hdr] = c /\ Hdr \in DOMAIN cache'
        BY <4>1, Zenon DEF Upd
      <4> QED
        BY <1>inv, <1>synced, <2>2, <4>1, <4>2, <4>3, Zenon DEF StoreInv, Read
    <3> QED
      BY <1>header, <3>1, <3>2, Zenon
  <2>3. CASE device # "cache"
    <3>1. disk' = Upd(disk, Hdr, c) /\ cache' = cache /\ device' = device
      BY <1>header, <2>3, Zenon DEF PutJournal, CommitHeader
    <3>2. Stored(cache)' /\ Stored(disk)'
      BY <1>inv, <2>1, <3>1, Zenon DEF StoreInv
    <3>3. disk'[Hdr] = c /\ DOMAIN disk' = DOMAIN disk \cup {Hdr}
      BY <3>1, Zenon DEF Upd
    <3> QED
      BY <1>inv, <2>3, <3>1, <3>2, <3>3, Zenon DEF StoreInv, Read
  <2> QED
    BY <2>2, <2>3, Zenon
\* A write elsewhere leaves it as it was.
<1>else. ASSUME NEW l, NEW c, l # Hdr, Stored(Upd(cache, l, c)), Stored(Upd(disk, l, c)),
                \/ cache' = Upd(cache, l, c) /\ disk' = disk
                \/ disk' = Upd(disk, l, c) /\ cache' = cache,
                device' = device
         PROVE  StoreInv' /\ Read(Hdr)' = Read(Hdr)
  <2>1. Stored(cache)' /\ Stored(disk)'
    BY <1>inv, <1>else, Zenon DEF StoreInv
  <2>2. /\ DOMAIN disk \subseteq DOMAIN disk'
        /\ Hdr \in DOMAIN cache' <=> Hdr \in DOMAIN cache
        /\ Hdr \in DOMAIN cache => cache'[Hdr] = cache[Hdr]
        /\ disk'[Hdr] = disk[Hdr]
    <3>1. CASE cache' = Upd(cache, l, c) /\ disk' = disk
      BY <1>else, <3>1 DEF Upd
    <3>2. CASE disk' = Upd(disk, l, c) /\ cache' = cache
      BY <1>inv, <1>else, <3>2 DEF StoreInv, Upd
    <3> QED
      BY <1>else, <3>1, <3>2, Zenon
  <2> QED
    BY <1>inv, <1>else, <2>1, <2>2, Zenon DEF StoreInv, Read
<1>slot. ASSUME NEW i, NEW c, IsSlot(c), PutJournal(Log(i), c)
         PROVE  StoreInv' /\ Read(Hdr)' = Read(Hdr)
  <2>1. Stored(Upd(cache, Log(i), c)) /\ Stored(Upd(disk, Log(i), c))
    BY <1>inv, <1>locs, <1>put, <1>slot, Zenon DEF StoreInv
  <2>2. /\ \/ cache' = Upd(cache, Log(i), c) /\ disk' = disk
           \/ disk' = Upd(disk, Log(i), c) /\ cache' = cache
        /\ device' = device
    BY <1>slot, Zenon DEF PutJournal
  <2> QED
    BY <1>locs, <1>else, <2>1, <2>2, Zenon
<1>fs. ASSUME NEW b, NEW v, PutFs(Fs(b), v) PROVE StoreInv' /\ Read(Hdr)' = Read(Hdr)
  <2>1. Stored(Upd(cache, Fs(b), v)) /\ Stored(Upd(disk, Fs(b), v))
    BY <1>inv, <1>locs, <1>put, Zenon DEF StoreInv
  <2>2. /\ \/ cache' = Upd(cache, Fs(b), v) /\ disk' = disk
           \/ disk' = Upd(disk, Fs(b), v) /\ cache' = cache
        /\ device' = device
    BY <1>fs, Zenon DEF PutFs
  <2> QED
    BY <1>locs, <1>else, <2>1, <2>2, Zenon
<1>sync. ASSUME disk' = Synced, cache' = SyncedCache, device' = device
         PROVE  StoreInv' /\ Read(Hdr)' = Read(Hdr)
  <2>1. CASE device = "cache"
    BY <1>inv, <1>none, <1>synced, <1>sync, <2>1, Zenon DEF StoreInv, Read
  <2>2. CASE device # "cache"
    BY <1>inv, <1>sync, <2>2, Zenon DEF StoreInv, Read, Synced, SyncedCache
  <2> QED
    BY <2>1, <2>2, Zenon
\* Transactions.
<1>off. 0 \notin Offset /\ Offset \subseteq Nat
  BY DEF Offset
<1>notr. IsTr(NoTr) /\ NoTr.total_bytes = 0 /\ NoTr.journal_start = 0
  BY DEF IsTr, NoTr
<1>fresh. ASSUME NEW i, NEW q
          PROVE  /\ IsTr([NoTr EXCEPT !.id = i, !.seq = q, !.lists = << << >> >>,
                                      !.total_bytes = 1])
                 /\ Sized([NoTr EXCEPT !.id = i, !.seq = q, !.lists = << << >> >>,
                                       !.total_bytes = 1])
  <2> DEFINE t == [NoTr EXCEPT !.id = i, !.seq = q, !.lists = << << >> >>, !.total_bytes = 1]
             p == [n \in 0 .. 1 |-> n]
  <2>1. IsTr(t)
    <3>1. << << >> >> \in Seq(Seq(Block \cup {Killed}))
      OBVIOUS
    <3> QED
      BY <3>1, Zenon DEF IsTr, NoTr
  <2>2. t.lists = << << >> >> /\ t.total_bytes = 1
    BY Zenon DEF NoTr
  <2>3. Len(<< << >> >>) = 1 /\ Len(<< << >> >>[1]) = 0
    OBVIOUS
  <2>4. /\ p \in [0 .. 1 -> 0 .. 1] /\ p[0] = 0 /\ p[1] = 1
        /\ \A n \in 1 .. 1 : p[n] = p[n - 1] + 0 + 1
    OBVIOUS
  <2> HIDE DEF p, t
  <2>5. Sized(t)
    BY <2>2, <2>3, <2>4 DEF Sized
  <2> QED
    BY <2>1, <2>5, Zenon DEF t
<1>add. ASSUME NEW t, IsTr(t), Sized(t), NEW b \in Block
        PROVE  IsTr(AddBlock(t, b)) /\ Sized(AddBlock(t, b))
  <2> DEFINE n == Len(t.lists)
             L == t.lists
  <2>1. PICK p \in [0 .. n -> 0 .. t.total_bytes] :
           /\ p[0] = 0 /\ p[n] = t.total_bytes
           /\ \A k \in 1 .. n : p[k] = p[k - 1] + Len(L[k]) + 1
    BY <1>add, Zenon DEF Sized
  <2>2. /\ L \in Seq(Seq(Block \cup {Killed})) /\ n \in Nat /\ t.total_bytes \in Nat
        /\ t.total_bytes > 0
    BY <1>add DEF IsTr, Sized
  <2> HIDE DEF n
  <2>3. n > 0
    BY <2>1, <2>2
  <2>4. L[n] \in Seq(Block \cup {Killed}) /\ Len(L[n]) \in Nat
    BY <2>2, <2>3 DEF n
  <2>5. CASE Len(t.lists[n]) < BlhdrMax
    <3> DEFINE M == [L EXCEPT ![n] = Append(@, b)]
               u == [t EXCEPT !.lists = M, !.total_bytes = t.total_bytes + 1]
               q == [k \in 0 .. n |-> IF k = n THEN p[n] + 1 ELSE p[k]]
    <3>1. AddBlock(t, b) = u
      BY <2>5, Zenon DEF AddBlock, n
    <3>2. M \in Seq(Seq(Block \cup {Killed})) /\ Len(M) = n
      BY <2>2, <2>3, <2>4 DEF n
    <3>3. /\ Len(M[n]) = Len(L[n]) + 1
          /\ \A k \in 1 .. n : k # n => M[k] = L[k]
      BY <2>2, <2>3, <2>4 DEF n
    <3> HIDE DEF M
    <3>m. t.total_bytes + 1 \in Nat /\ t.total_bytes + 1 > 0
      BY <2>2
    <3>4. u.lists = M /\ u.total_bytes = t.total_bytes + 1
      BY <1>add, Zenon DEF IsTr
    <3>t. IsTr(u)
      BY <1>add, <3>2, <3>m, Zenon DEF IsTr
    <3>5. q \in [0 .. n -> 0 .. t.total_bytes + 1] /\ q[0] = 0 /\ q[n] = t.total_bytes + 1
      BY <2>1, <2>2, <2>3
    <3>6. \A k \in 1 .. n : q[k] = q[k - 1] + Len(M[k]) + 1
      <4> SUFFICES ASSUME NEW k \in 1 .. n PROVE q[k] = q[k - 1] + Len(M[k]) + 1
        OBVIOUS
      <4>1. p[k] = p[k - 1] + Len(L[k]) + 1 /\ p[k - 1] \in Nat /\ q[k - 1] = p[k - 1]
        BY <2>1, <2>2
      <4>2. CASE k = n
        BY <2>4, <3>3, <4>1, <4>2
      <4>3. CASE k # n
        BY <3>3, <4>1, <4>3
      <4> QED
        BY <4>2, <4>3, Zenon
    <3>7. Sized(u)
      <4> HIDE DEF q, u
      <4>1. q \in [0 .. Len(u.lists) -> 0 .. u.total_bytes]
        BY <3>2, <3>4, <3>5, Zenon
      <4>2. q[0] = 0 /\ q[Len(u.lists)] = u.total_bytes /\ u.total_bytes > 0
        BY <3>2, <3>m, <3>4, <3>5, Zenon
      <4>3. \A k \in 1 .. Len(u.lists) : q[k] = q[k - 1] + Len(u.lists[k]) + 1
        BY <3>2, <3>4, <3>6, Zenon
      <4> QED
        BY <4>1, <4>2, <4>3, Zenon DEF Sized
    <3> QED
      BY <3>1, <3>t, <3>7, Zenon
  <2>6. CASE ~(Len(t.lists[n]) < BlhdrMax)
    <3> DEFINE M == Append(L, <<b>>)
               u == [t EXCEPT !.lists = M, !.total_bytes = t.total_bytes + 2]
               q == [k \in 0 .. n + 1 |-> IF k = n + 1 THEN t.total_bytes + 2 ELSE p[k]]
    <3>1. AddBlock(t, b) = u
      BY <2>6, Zenon DEF AddBlock, n
    <3>2. M \in Seq(Seq(Block \cup {Killed})) /\ Len(M) = n + 1
      BY <2>2 DEF n
    <3>3. Len(M[n + 1]) = 1 /\ \A k \in 1 .. n : M[k] = L[k]
      BY <2>2 DEF n
    <3> HIDE DEF M
    <3>m. t.total_bytes + 2 \in Nat /\ t.total_bytes + 2 > 0
      BY <2>2
    <3>4. u.lists = M /\ u.total_bytes = t.total_bytes + 2
      BY <1>add, Zenon DEF IsTr
    <3>t. IsTr(u)
      BY <1>add, <3>2, <3>m, Zenon DEF IsTr
    <3>5. q \in [0 .. n + 1 -> 0 .. t.total_bytes + 2] /\ q[0] = 0 /\ q[n + 1] = t.total_bytes + 2
      BY <2>1, <2>2, <2>3
    <3>6. \A k \in 1 .. n + 1 : q[k] = q[k - 1] + Len(M[k]) + 1
      <4> SUFFICES ASSUME NEW k \in 1 .. n + 1 PROVE q[k] = q[k - 1] + Len(M[k]) + 1
        OBVIOUS
      <4>2. CASE k = n + 1
        <5>1. q[k] = t.total_bytes + 2 /\ q[k - 1] = t.total_bytes
          BY <2>1, <2>2, <4>2
        <5>2. Len(M[k]) = 1
          BY <3>3, <4>2, Zenon
        <5> QED
          BY <2>2, <5>1, <5>2
      <4>3. CASE k # n + 1
        <5>1. k \in 1 .. n /\ q[k] = p[k] /\ q[k - 1] = p[k - 1]
          BY <2>2, <4>3
        <5> QED
          BY <2>1, <3>3, <5>1, Zenon
      <4> QED
        BY <4>2, <4>3, Zenon
    <3>7. Sized(u)
      <4> HIDE DEF q, u
      <4>1. q \in [0 .. Len(u.lists) -> 0 .. u.total_bytes]
        BY <3>2, <3>4, <3>5, Zenon
      <4>2. q[0] = 0 /\ q[Len(u.lists)] = u.total_bytes /\ u.total_bytes > 0
        BY <3>2, <3>m, <3>4, <3>5, Zenon
      <4>3. \A k \in 1 .. Len(u.lists) : q[k] = q[k - 1] + Len(u.lists[k]) + 1
        BY <3>2, <3>4, <3>6, Zenon
      <4> QED
        BY <4>1, <4>2, <4>3, Zenon DEF Sized
    <3> QED
      BY <3>1, <3>t, <3>7, Zenon
  <2> QED
    BY <2>5, <2>6, Zenon
<1>kill. ASSUME NEW t, IsTr(t), Sized(t), NEW b,
                NEW M, M = [n \in DOMAIN t.lists |->
                              [i \in DOMAIN t.lists[n] |->
                                 IF t.lists[n][i] = b THEN Killed ELSE t.lists[n][i]]],
                NEW k
         PROVE  IsTr([t EXCEPT !.lists = M, !.num_killed = k])
                /\ Sized([t EXCEPT !.lists = M, !.num_killed = k])
  <2> DEFINE u == [t EXCEPT !.lists = M, !.num_killed = k]
  <2>1. t.lists \in Seq(Seq(Block \cup {Killed}))
    BY <1>kill, Zenon DEF IsTr
  <2>2. \A n \in 1 .. Len(t.lists) :
           M[n] \in Seq(Block \cup {Killed}) /\ Len(M[n]) = Len(t.lists[n])
    <3> SUFFICES ASSUME NEW n \in 1 .. Len(t.lists)
                 PROVE  M[n] \in Seq(Block \cup {Killed}) /\ Len(M[n]) = Len(t.lists[n])
      OBVIOUS
    <3> DEFINE X == t.lists[n]
    <3>1. X \in Seq(Block \cup {Killed}) /\ n \in DOMAIN t.lists
      BY <2>1
    <3>2. M[n] = [i \in DOMAIN X |-> IF X[i] = b THEN Killed ELSE X[i]]
      BY <1>kill, <3>1, Zenon
    <3> HIDE DEF X
    <3>3. DOMAIN X = 1 .. Len(X) /\ Len(X) \in Nat
      BY <3>1
    <3>4. M[n] \in [1 .. Len(X) -> Block \cup {Killed}]
      BY <3>1, <3>2, <3>3
    <3> QED
      BY <3>3, <3>4 DEF X
  <2>3. DOMAIN t.lists = 1 .. Len(t.lists) /\ Len(t.lists) \in Nat
    BY <2>1
  <2>4. M \in [1 .. Len(t.lists) -> Seq(Block \cup {Killed})]
    BY <1>kill, <2>2, <2>3, Zenon
  <2>5. M \in Seq(Seq(Block \cup {Killed})) /\ Len(M) = Len(t.lists)
    BY <2>3, <2>4
  <2>6. IsTr(u) /\ u.lists = M /\ u.total_bytes = t.total_bytes
    BY <1>kill, <2>5, Zenon DEF IsTr
  <2>7. Sized(u)
    <3>1. PICK p \in [0 .. Len(t.lists) -> 0 .. t.total_bytes] :
             /\ p[0] = 0 /\ p[Len(t.lists)] = t.total_bytes
             /\ \A n \in 1 .. Len(t.lists) : p[n] = p[n - 1] + Len(t.lists[n]) + 1
      BY <1>kill, Zenon DEF Sized
    <3>2. \A n \in 1 .. Len(M) : p[n] = p[n - 1] + Len(M[n]) + 1
      BY <2>2, <2>5, <3>1, Zenon
    <3>3. t.total_bytes \in Nat /\ t.total_bytes > 0
      BY <1>kill, Zenon DEF IsTr, Sized
    <3> HIDE DEF u
    <3> QED
      BY <2>5, <2>6, <3>1, <3>2, <3>3, Zenon DEF Sized
  <2> QED
    BY <2>6, <2>7, Zenon
\* Distances along the log.
<1>dist. \A x, y \in Offset : Dist(x, y) \in 0 .. Slots - 1 /\ Dist(x, x) = 0
  BY DEF Dist, Offset
<1>after. ASSUME NEW x \in Offset, NEW y \in Offset, NEW n \in Nat, n > 0,
                 Dist(x, y) + n < Slots - 1
          PROVE  After(y, n) \in Offset /\ Dist(x, After(y, n)) = Dist(x, y) + n
  BY <1>after DEF Dist, After, Offset
<1>move. ASSUME NEW s \in Offset, NEW x \in Offset, NEW y \in Offset,
                Dist(s, x) < Dist(s, y), Dist(s, y) < Slots - 1
         PROVE  Dist(x, y) = Dist(s, y) - Dist(s, x)
  BY <1>move DEF Dist, Offset
<1>in. ASSUME NEW s \in Offset, NEW x \in Offset, NEW y \in Offset, Dist(s, x) < Dist(s, y)
       PROVE  InRing(s, x, y) /\ x # y
  BY <1>in DEF Dist, Offset, InRing
<1>first. ASSUME NEW x \in Offset, NEW y \in Offset, x # y PROVE InRing(x, x, y)
  BY <1>first DEF Offset, InRing
<1>jhdr. jhdr.start \in Offset /\ jhdr.end \in Offset /\ active_start \in Offset
  BY <1>inv, Zenon DEF TypeOK
<1>free. free_space = Slots - 1 - used
  BY <1>jhdr DEF free_space, used, Dist, Offset
<1> HIDE DEF Dist, InRing, After
<1>olds. \A i \in 1 .. OldStarts :
           old_start[i].at \in Offset \cup {0} /\ old_start[i].busy \in BOOLEAN
  BY <1>inv, Zenon DEF TypeOK
\* The operations of the file system.
<1>1. ASSUME StartTransaction PROVE LogInv'
  <2>1. TypeOK'
    BY <1>inv, <1>1 DEF StartTransaction, TypeOK, storage, flush, back, boot
  <2>2. TrInv'
    <3>1. CASE cur_tr # NoTr
      BY <1>inv, <1>1, <1>notr, <3>1, Zenon DEF StartTransaction, TrInv, flush, back
    <3>2. CASE cur_tr = NoTr
      <4>1. IsTr(active_tr') /\ Sized(active_tr')
        <5>1. active_tr' = [NoTr EXCEPT !.id = nextid', !.seq = sequence_num',
                                        !.lists = << << >> >>, !.total_bytes = 1]
          BY <1>1, <3>2, Zenon DEF StartTransaction
        <5> QED
          BY <1>fresh, <5>1, Zenon
      <4> QED
        BY <1>inv, <1>1, <3>2, <4>1, Zenon DEF StartTransaction, TrInv, flush, back
    <3> QED
      BY <3>1, <3>2, Zenon
  <2> QED
    BY <1>1, <1>mode, <1>scan, <1>chain, <1>busy, <1>ring, <1>store, <1>cover, <2>1, <2>2, Zenon
       DEF StartTransaction, LogInv, flush, back, boot
<1>2. ASSUME NEW b \in Block, ModifyBlock(b) PROVE LogInv'
  <2>1. active_tr' = active_tr \/ active_tr' = AddBlock(active_tr, b)
    BY <1>2, Zenon DEF ModifyBlock
  <2>2. IsTr(active_tr') /\ Sized(active_tr')
    BY <1>inv, <1>2, <1>add, <2>1, Zenon DEF ModifyBlock, TrInv
  <2>3. TrInv'
    BY <1>inv, <1>2, <2>2, Zenon DEF ModifyBlock, TrInv, flush, back
  <2> QED
    BY <1>2, <1>type, <1>mode, <1>scan, <1>chain, <1>busy, <1>ring, <1>store, <1>cover, <2>3, Zenon
       DEF ModifyBlock, LogInv, storage, header, flush, back, boot
<1>3. ASSUME NEW b \in Block, KillBlock(b) PROVE LogInv'
  <2>1. active_tr' = [active_tr EXCEPT
          !.lists = [n \in DOMAIN active_tr.lists |->
                       [i \in DOMAIN active_tr.lists[n] |->
                          IF active_tr.lists[n][i] = b THEN Killed ELSE active_tr.lists[n][i]]],
          !.num_killed = active_tr.num_killed + 1]
    BY <1>3, Zenon DEF KillBlock
  <2>2. IsTr(active_tr) /\ Sized(active_tr)
    BY <1>inv, <1>3, Zenon DEF KillBlock, TrInv
  <2>3. IsTr(active_tr') /\ Sized(active_tr')
    BY <1>kill, <2>1, <2>2, Zenon
  <2>4. TrInv'
    BY <1>inv, <1>3, <2>3, Zenon DEF KillBlock, TrInv, flush, back
  <2> QED
    BY <1>3, <1>type, <1>mode, <1>scan, <1>chain, <1>busy, <1>ring, <1>store, <1>cover, <2>4, Zenon
       DEF KillBlock, LogInv, storage, header, flush, back, boot
<1>4. ASSUME EndTransactionGroup \/ AbortTransaction PROVE LogInv'
  <2>1. /\ active_tr' \in {active_tr, NoTr} /\ cur_tr' \in {active_tr, cur_tr, NoTr}
        /\ UNCHANGED <<storage, header, flush, back, invalid, boot>>
    BY <1>4, Zenon DEF EndTransactionGroup, AbortTransaction
  <2>2. TrInv'
    BY <1>inv, <1>notr, <2>1, Zenon DEF TrInv, flush, back
  <2> QED
    BY <1>type, <1>mode, <1>scan, <1>chain, <1>busy, <1>ring, <1>store, <1>cover, <2>1, <2>2, Zenon
       DEF LogInv, storage, header, flush, back, boot
\* A transaction not yet in the log may change.
<1>rest. ASSUME UNCHANGED <<mode, invalid, completed_trs, active_start, home, jhdr, old_start>>,
                fpc \notin {"log", "issue"}, fpc' \notin {"log", "issue"},
                Read(Hdr)' = Read(Hdr)
         PROVE  ChainInv' /\ BusyInv' /\ RingInv' /\ HomeCovered'
  <2>1. ChainInv'
    BY <1>inv, <1>rest, Zenon DEF ChainInv, Ahead
  <2>2. BusyInv'
    BY <1>inv, <1>rest, Zenon DEF BusyInv
  <2>3. RingInv'
    BY <1>inv, <1>rest, Zenon DEF RingInv, used, Pos
  <2>4. HomeCovered'
    BY <1>inv, <1>rest, Zenon DEF HomeCovered
  <2> QED
    BY <2>1, <2>2, <2>3, <2>4, Zenon
<1>5. ASSUME NEW t, t \in {active_tr, cur_tr}, t # NoTr, BeginFlush(t), mode = "mounted",
             active_tr' \in {active_tr, NoTr}, cur_tr' \in {cur_tr, NoTr}
      PROVE  LogInv'
  <2>1. TypeOK'
    BY <1>inv, <1>5, Zenon DEF BeginFlush, TypeOK, storage, back, boot
  <2>2. TrInv'
    <3>1. fl' = t /\ home' = home /\ IsTr(t) /\ Sized(t) /\ Live(t) # {}
      BY <1>inv, <1>5, Zenon DEF BeginFlush, TrInv, back
    <3> QED
      BY <1>inv, <1>5, <1>notr, <3>1, Zenon DEF TrInv
  <2>3. ModeInv'
    BY <1>inv, <1>5, Zenon DEF BeginFlush, ModeInv, back, boot
  <2>4. ScanInv'
    <3>1. scan' = [i |-> 0, empty |-> TRUE]
      BY <1>5, Zenon DEF BeginFlush
    <3> QED
      BY <3>1 DEF ScanInv
  <2>5. ChainInv' /\ BusyInv' /\ RingInv' /\ HomeCovered'
    BY <1>5, <1>rest, <1>store, Zenon DEF BeginFlush, back, boot
  <2> QED
    BY <1>5, <1>store, <2>1, <2>2, <2>3, <2>4, <2>5, Zenon DEF BeginFlush, LogInv
<1>6. ASSUME NEW force, EndTransactionFlush(force) PROVE LogInv'
  BY <1>5, <1>6, Zenon DEF EndTransactionFlush
<1>7. ASSUME JournalFlush PROVE LogInv'
  BY <1>5, <1>7, Zenon DEF JournalFlush, jlock_free
<1>8. ASSUME CloseHeader PROVE LogInv'
  <2>0. fpc = "idle" /\ mode = "mounted" /\ ~invalid /\ active_tr = NoTr
    BY <1>8, Zenon DEF CloseHeader, CloseBegin, jlock_free
  <2>1. jhdr' = [start |-> active_start, end |-> jhdr.end]
    BY <1>inv, <1>8, Zenon DEF CloseHeader, CloseBegin, CloseStart, TypeOK
  <2>2. IsHdr(HdrValue(jhdr', sequence_num)) /\ HdrValue(jhdr', sequence_num).start = active_start
        /\ HdrValue(jhdr', sequence_num).end = jhdr.end
    BY <1>inv, <1>jhdr, <2>1, Zenon DEF IsHdr, HdrValue, TypeOK
  <2>3. StoreInv' /\ Read(Hdr)' = HdrValue(jhdr', sequence_num)
    BY <1>8, <1>header, <2>2, Zenon DEF CloseHeader, CloseBegin
  <2>4. TypeOK'
    BY <1>inv, <1>8, <1>jhdr, <2>1 DEF CloseHeader, CloseBegin, TypeOK, PutJournal, flush, back
  <2>5. TrInv'
    BY <1>inv, <1>8, <1>notr, Zenon DEF CloseHeader, CloseBegin, TrInv, flush, back
  <2>6. ModeInv'
    BY <1>inv, <1>8, <2>0, Zenon DEF CloseHeader, CloseBegin, ModeInv, flush, back
  <2>7. ScanInv' /\ BusyInv'
    BY <1>8, <1>scan, <1>busy, Zenon DEF CloseHeader, CloseBegin, flush, back
  <2>8. ChainInv'
    <3>1. jhdr'.end = jhdr.end
      BY <2>1, Zenon
    <3> QED
      BY <1>inv, <1>8, <2>0, <3>1, Zenon DEF CloseHeader, CloseBegin, ChainInv, Ahead, flush, back
  <2>9. RingInv'
    BY <1>8, <2>0, Zenon DEF CloseHeader, CloseBegin, RingInv, flush
  <2>10. HomeCovered'
    <3>1. home # NoTr => active_start = home.journal_start /\ active_start # jhdr.end
      <4>1. SUFFICES ASSUME home # NoTr
                     PROVE  active_start = home.journal_start /\ active_start # jhdr.end
        OBVIOUS
      <4>2. active_start = home.journal_start
        BY <1>inv, <2>0, <4>1, Zenon DEF ChainInv
      <4>3. PICK i \in 1 .. OldStarts : old_start[i].at = home.journal_start
        BY <1>inv, <2>0, <4>1, Zenon DEF BusyInv
      <4>4. Dist(jhdr.start, active_start) < Dist(jhdr.start, jhdr.end)
        <5>1. old_start[i].at # 0
          BY <1>jhdr, <1>off, <4>2, <4>3, Zenon
        <5> QED
          BY <1>inv, <2>0, <4>2, <4>3, <5>1, Zenon DEF RingInv, Pos, used
      <4> QED
        BY <1>in, <1>jhdr, <4>2, <4>4, Zenon
    <3>2. home # NoTr => InRing(active_start, home.journal_start, jhdr.end)
      BY <1>first, <1>jhdr, <3>1, Zenon
    <3> QED
      BY <1>8, <2>0, <2>2, <2>3, <3>2, Zenon DEF CloseHeader, CloseBegin, HomeCovered, flush, back
  <2> QED
    BY <2>3, <2>4, <2>5, <2>6, <2>7, <2>8, <2>9, <2>10, Zenon DEF LogInv
\* journal_close cannot write the header, or has written it.
<1>closefails. ASSUME CloseHeaderFails PROVE LogInv'
  <2>0. /\ fpc = "idle" /\ mode = "mounted" /\ active_tr = NoTr /\ mode' = "draining"
        /\ invalid' = TRUE /\ cur_tr' = NoTr
        /\ UNCHANGED <<storage, sequence_num, saved_sequence_num, active_start, old_start,
                       completed_trs, active_tr, flush, back>>
    BY <1>closefails, Zenon DEF CloseHeaderFails, CloseBegin, jlock_free
  <2>1. jhdr' = [start |-> active_start, end |-> jhdr.end]
    BY <1>inv, <1>closefails, Zenon DEF CloseHeaderFails, CloseBegin, CloseStart, TypeOK
  <2>2. TypeOK'
    <3>1. jhdr' \in [start : Offset, end : Offset]
      BY <1>jhdr, <2>1, Zenon
    <3> QED
      BY <1>inv, <2>0, <3>1, Zenon DEF TypeOK, storage, flush, back
  <2>3. TrInv' /\ ScanInv'
    BY <1>inv, <1>notr, <1>scan, <2>0, Zenon DEF TrInv, flush, back
  <2>4. ModeInv'
    BY <2>0, Zenon DEF ModeInv, flush
  <2>5. ChainInv' /\ BusyInv' /\ RingInv' /\ HomeCovered'
    BY <2>0, Zenon DEF ChainInv, BusyInv, RingInv, HomeCovered, flush
  <2> QED
    BY <1>store, <2>0, <2>2, <2>3, <2>4, <2>5, Zenon DEF LogInv
<1>closesync. ASSUME CloseSync PROVE LogInv'
  <2>0. /\ mode = "closing" /\ mode' = "draining" /\ disk' = Synced /\ cache' = SyncedCache
        /\ UNCHANGED <<device, header, trs, flush, back, invalid>>
    BY <1>closesync, Zenon DEF CloseSync
  <2>1. StoreInv' /\ Read(Hdr)' = Read(Hdr)
    BY <1>sync, <2>0, Zenon
  <2>2. TypeOK'
    BY <1>inv, <2>0, Zenon DEF TypeOK, header, flush, back
  <2>3. ModeInv'
    BY <1>inv, <2>0, Zenon DEF ModeInv, flush
  <2>4. ChainInv'
    BY <1>inv, <2>0, Zenon DEF ChainInv, Ahead, header, flush, back
  <2>5. RingInv'
    BY <1>inv, <2>0, Zenon DEF ModeInv, RingInv, flush
  <2> QED
    BY <1>trs, <1>scan, <1>busy, <1>cover, <2>0, <2>1, <2>2, <2>3, <2>4, <2>5, Zenon
       DEF LogInv, header, trs, flush, back
\* journal_modify_block_end cannot add the block.
<1>modfails. ASSUME ModifyFails PROVE LogInv'
  <2>0. /\ fpc # "space" /\ mode = "mounted" /\ invalid' = TRUE
        /\ UNCHANGED <<storage, header, trs, flush, back, boot>>
    BY <1>modfails, Zenon DEF ModifyFails
  <2>1. TypeOK'
    BY <1>inv, <2>0, Zenon DEF TypeOK, storage, header, flush, back, boot
  <2>2. ModeInv'
    BY <2>0, Zenon DEF ModeInv, flush, boot
  <2>3. ChainInv' /\ BusyInv' /\ HomeCovered'
    BY <2>0, Zenon DEF ChainInv, BusyInv, HomeCovered
  <2>4. RingInv'
    BY <1>inv, <2>0, Zenon DEF RingInv, used, header, flush
  <2> QED
    BY <1>trs, <1>scan, <1>store, <2>0, <2>1, <2>2, <2>3, <2>4, Zenon
       DEF LogInv, header, trs, flush, back
\* check_free_space.
<1>space. fpc = "space" => mode = "mounted" /\ ~invalid /\ hdr_thread = "idle"
  BY <1>inv, Zenon DEF ModeInv
<1>9. ASSUME ScanBegin PROVE LogInv'
  <2>1. scan' = [i |-> 1, empty |-> TRUE] /\ UNCHANGED <<fpc, old_start>>
    BY <1>9, Zenon DEF ScanBegin, space_unchanged
  <2>2. ScanInv'
    BY <2>1 DEF ScanInv
  <2> QED
    BY <1>9, <1>type, <1>trs, <1>mode, <1>chain, <1>busy, <1>ring, <1>store, <1>cover, <2>2, Zenon
       DEF ScanBegin, space_unchanged, LogInv, trs, storage, back, boot
<1>10. ASSUME ScanEntry PROVE LogInv'
  <2> DEFINE k == scan.i
  <2>0. fpc = "space" /\ k \in 1 .. OldStarts /\ ~old_start[k].busy
    BY <1>10, Zenon DEF ScanEntry
  <2>1. CASE old_start[k].at = 0
    <3>1. scan' = [scan EXCEPT !.i = k + 1] /\ UNCHANGED <<fpc, jhdr, old_start, delayed, space_unchanged>>
      BY <1>10, <2>1, Zenon DEF ScanEntry, space_unchanged
    <3>2. scan' \in [i : 0 .. OldStarts + 1, empty : BOOLEAN] /\ scan'.i = k + 1
      BY <1>inv, <2>0, <3>1 DEF ScanInv
    <3>3. ScanInv'
      BY <1>inv, <2>0, <2>1, <3>1, <3>2 DEF ScanInv
    <3> QED
      BY <1>type, <1>trs, <1>mode, <1>chain, <1>busy, <1>ring, <1>store, <1>cover, <3>1, <3>3, Zenon
         DEF space_unchanged, LogInv, trs, storage, back, boot
  <2>2. CASE old_start[k].at # 0
    <3> DEFINE a == old_start[k].at
    <3>1. /\ jhdr' = [jhdr EXCEPT !.start = a]
          /\ old_start' = [old_start EXCEPT ![k].at = 0]
          /\ scan' = [i |-> 0, empty |-> FALSE] \/ scan' = [i |-> k + 1, empty |-> FALSE]
          /\ UNCHANGED space_unchanged
      BY <1>10, <2>2, Zenon DEF ScanEntry
    <3>2. a \in Offset
      BY <1>olds, <2>0, <2>2, Zenon
    <3>3. jhdr' = [start |-> a, end |-> jhdr.end] /\ jhdr'.start = a /\ jhdr'.end = jhdr.end
      BY <1>inv, <3>1, Zenon DEF TypeOK
    <3>4. /\ old_start' \in [1 .. OldStarts -> [at : Offset \cup {0}, busy : BOOLEAN]]
          /\ \A j \in 1 .. OldStarts : /\ j # k => old_start'[j] = old_start[j]
                                       /\ old_start'[j].busy = old_start[j].busy
          /\ old_start'[k].at = 0
      BY <1>inv, <2>0, <3>1, Zenon DEF TypeOK
    <3> HIDE DEF a
    <3>5. TypeOK'
      BY <1>inv, <1>jhdr, <3>1, <3>2, <3>3, <3>4, Zenon DEF TypeOK, space_unchanged, storage, back, boot
    <3>6. TrInv' /\ StoreInv' /\ HomeCovered'
      BY <1>trs, <1>store, <1>cover, <3>1, Zenon DEF space_unchanged, trs, storage, back
    <3>7. ModeInv'
      BY <1>inv, <1>space, <2>0, <3>1, Zenon DEF ModeInv, space_unchanged, boot, back
    <3>8. ScanInv'
      <4>1. scan' \in [i : 0 .. OldStarts + 1, empty : BOOLEAN] /\ scan'.i \in {0, k + 1}
        <5>1. k + 1 \in 0 .. OldStarts + 1 /\ 0 \in 0 .. OldStarts + 1
          BY <2>0
        <5>2. CASE scan' = [i |-> 0, empty |-> FALSE]
          BY <5>1, <5>2, Zenon
        <5>3. CASE scan' = [i |-> k + 1, empty |-> FALSE]
          BY <5>1, <5>3, Zenon
        <5> QED
          BY <3>1, <5>2, <5>3, Zenon
      <4>2. \A j \in 1 .. OldStarts : j < k + 1 => old_start'[j].at = 0
        BY <1>inv, <2>0, <3>4 DEF ScanInv
      <4> QED
        BY <2>0, <4>1, <4>2 DEF ScanInv
    <3>9. ChainInv'
      BY <1>inv, <3>1, <3>3, Zenon DEF ChainInv, Ahead, space_unchanged, boot, back
    <3>10. BusyInv'
      <4>0. ~invalid /\ ~invalid' /\ fpc' = "space" /\ home' = home
        BY <1>space, <2>0, <3>1, Zenon DEF space_unchanged, back
      <4>1. ASSUME NEW i \in 1 .. OldStarts, NEW j \in 1 .. OldStarts, i # j, old_start'[i].at # 0
            PROVE  old_start'[i].at # old_start'[j].at
        <5>1. i # k /\ old_start'[i].at = old_start[i].at
          BY <3>4, <4>1, Zenon
        <5>2. CASE j = k
          BY <3>4, <4>1, <5>2, Zenon
        <5>3. CASE j # k
          BY <1>inv, <3>4, <4>0, <4>1, <5>1, <5>3 DEF BusyInv
        <5> QED
          BY <5>2, <5>3, Zenon
      <4>2. ASSUME NEW i \in 1 .. OldStarts, old_start'[i].busy
            PROVE  home # NoTr /\ old_start'[i].at = home.journal_start
        <5>1. i # k /\ old_start'[i] = old_start[i]
          BY <2>0, <3>4, <4>2, Zenon
        <5> QED
          BY <1>inv, <2>0, <4>0, <4>2, <5>1, Zenon DEF BusyInv
      <4>3. ASSUME home # NoTr
            PROVE  \E i \in 1 .. OldStarts :
                      old_start'[i].busy /\ old_start'[i].at = home.journal_start
        <5>1. PICK i \in 1 .. OldStarts : old_start[i].busy /\ old_start[i].at = home.journal_start
          BY <1>inv, <4>0, <4>3, Zenon DEF BusyInv
        <5>2. old_start'[i] = old_start[i]
          BY <2>0, <3>4, <5>1, Zenon
        <5> QED
          BY <5>1, <5>2, Zenon
      <4>4. home # NoTr => home.journal_start # 0
        BY <1>inv, <4>0, Zenon DEF BusyInv
      <4> QED
        BY <4>0, <4>1, <4>2, <4>3, <4>4, Zenon DEF BusyInv
    <3>11. RingInv'
      <4>0. mode = "mounted" /\ ~invalid /\ fpc' = "space" /\ fl' = fl
        BY <1>space, <2>0, <3>1, Zenon DEF space_unchanged
      <4>1. /\ used < Slots - 1
            /\ \A i \in 1 .. OldStarts : old_start[i].at # 0 => Pos(i) < used
            /\ \A i, j \in 1 .. OldStarts :
                 i < j /\ old_start[i].at # 0 /\ old_start[j].at # 0 => Pos(i) < Pos(j)
        BY <1>inv, <2>0, <4>0, Zenon DEF RingInv
      <4>2. used' = used - Pos(k) /\ Pos(k) \in Nat /\ used \in Nat
        <5>1. Dist(jhdr.start, a) < Dist(jhdr.start, jhdr.end)
              /\ Dist(jhdr.start, jhdr.end) < Slots - 1
          BY <2>0, <2>2, <4>1, Zenon DEF used, Pos, a
        <5>2. Dist(a, jhdr.end) = Dist(jhdr.start, jhdr.end) - Dist(jhdr.start, a)
          BY <1>jhdr, <1>move, <3>2, <5>1, Zenon
        <5> QED
          BY <1>dist, <1>jhdr, <3>2, <3>3, <5>2 DEF used, Pos, a
      <4>3. ASSUME NEW i \in 1 .. OldStarts, old_start'[i].at # 0
            PROVE  /\ k < i /\ old_start[i].at # 0 /\ Pos(i)' = Pos(i) - Pos(k) /\ Pos(i) \in Nat
                   /\ Pos(i) < used
        <5>1. i # k /\ old_start'[i] = old_start[i] /\ old_start[i].at \in Offset
          BY <1>olds, <3>4, <4>3, Zenon
        <5>2. k < i
          BY <1>inv, <2>0, <4>3, <5>1 DEF ScanInv
        <5>3. Pos(k) < Pos(i) /\ Pos(i) < used
          BY <2>0, <2>2, <4>1, <4>3, <5>1, <5>2, Zenon
        <5>4. Dist(a, old_start[i].at) = Dist(jhdr.start, old_start[i].at) - Dist(jhdr.start, a)
          <6>1. Dist(jhdr.start, a) < Dist(jhdr.start, old_start[i].at)
            BY <5>3, Zenon DEF Pos, a
          <6>2. Dist(jhdr.start, old_start[i].at) < Slots - 1
            BY <1>dist, <1>jhdr, <4>1, <5>1, <5>3 DEF Pos, used
          <6> QED
            BY <1>jhdr, <1>move, <3>2, <5>1, <6>1, <6>2, Zenon
        <5>5. Pos(i)' = Dist(a, old_start[i].at)
          BY <3>3, <5>1, Zenon DEF Pos
        <5> QED
          BY <1>dist, <1>jhdr, <4>3, <5>1, <5>2, <5>3, <5>4, <5>5 DEF Pos, a
      <4>4. used' < Slots - 1
        BY <4>1, <4>2
      <4>5. \A i \in 1 .. OldStarts : old_start'[i].at # 0 => Pos(i)' < used'
        BY <4>2, <4>3
      <4>6. \A i, j \in 1 .. OldStarts :
              i < j /\ old_start'[i].at # 0 /\ old_start'[j].at # 0 => Pos(i)' < Pos(j)'
        BY <4>1, <4>2, <4>3
      <4> QED
        BY <4>0, <4>4, <4>5, <4>6, Zenon DEF RingInv
    <3> QED
      BY <3>5, <3>6, <3>7, <3>8, <3>9, <3>10, <3>11, Zenon DEF LogInv
  <2> QED
    BY <2>1, <2>2, Zenon
<1>11. ASSUME ScanEnd PROVE LogInv'
  <2>0. /\ fpc = "space" /\ fpc' = fpc /\ mode = "mounted" /\ ~invalid
        /\ scan' = [i |-> 0, empty |-> TRUE]
        /\ UNCHANGED <<space_unchanged, old_start>>
    BY <1>11, <1>space, Zenon DEF ScanEnd, space_unchanged
  <2>1. \A i \in 1 .. OldStarts : old_start[i].at = 0
    BY <1>inv, <1>11 DEF ScanEnd, ScanInv
  <2>2. active_start = jhdr.end
    <3>1. home = NoTr
      BY <1>inv, <2>0, <2>1, Zenon DEF BusyInv
    <3> QED
      BY <1>inv, <2>0, <3>1, Zenon DEF ChainInv, Ahead
  <2>3. jhdr' \in {jhdr, [start |-> jhdr.end, end |-> jhdr.end]}
    <3>1. CASE scan.empty
      <4>1. jhdr' = [jhdr EXCEPT !.start = active_start]
        BY <1>11, <3>1, Zenon DEF ScanEnd
      <4> QED
        BY <1>inv, <2>2, <4>1, Zenon DEF TypeOK
    <3>2. CASE ~scan.empty
      BY <1>11, <3>2, Zenon DEF ScanEnd
    <3> QED
      BY <3>1, <3>2, Zenon
  <2>4. TypeOK'
    <3>1. jhdr' \in [start : Offset, end : Offset]
      BY <1>inv, <1>jhdr, <2>3 DEF TypeOK
    <3> QED
      BY <1>inv, <2>0, <3>1, Zenon DEF TypeOK, space_unchanged, storage, back, boot
  <2>5. TrInv' /\ ModeInv' /\ BusyInv' /\ StoreInv' /\ HomeCovered'
    BY <1>trs, <1>mode, <1>busy, <1>store, <1>cover, <2>0, Zenon
       DEF space_unchanged, trs, storage, back, boot
  <2>6. ScanInv'
    BY <2>0 DEF ScanInv
  <2>7. jhdr'.end = jhdr.end
    BY <2>3
  <2>8. ChainInv'
    BY <1>inv, <2>0, <2>7, Zenon DEF ChainInv, Ahead, space_unchanged, back, boot
  <2>9. RingInv'
    <3>1. used' \in {used, 0}
      BY <1>dist, <1>jhdr, <2>3 DEF used
    <3>2. used' < Slots - 1
      BY <1>inv, <2>0, <3>1 DEF RingInv
    <3>3. \A i \in 1 .. OldStarts : old_start'[i].at = 0
      BY <2>0, <2>1, Zenon
    <3> QED
      BY <2>0, <3>2, <3>3, Zenon DEF RingInv
  <2> QED
    BY <2>4, <2>5, <2>6, <2>8, <2>9, Zenon DEF LogInv
<1>12. ASSUME Reserve PROVE LogInv'
  <2>0. /\ fpc = "space" /\ mode = "mounted" /\ ~invalid /\ HaveSpace /\ fpc' = "log"
        /\ UNCHANGED <<storage, jhdr, sequence_num, saved_sequence_num, active_start,
                       completed_trs, trs, scan, back, invalid, boot>>
    BY <1>12, <1>space, Zenon DEF Reserve
  <2>1. /\ used < Slots - 1
        /\ \A i \in 1 .. OldStarts : old_start[i].at # 0 => Pos(i) < used
        /\ \A i, j \in 1 .. OldStarts :
             i < j /\ old_start[i].at # 0 /\ old_start[j].at # 0 => Pos(i) < Pos(j)
    BY <1>inv, <2>0, Zenon DEF RingInv
  <2>2. /\ \A i, j \in 1 .. OldStarts :
             i # j /\ old_start[i].at # 0 => old_start[i].at # old_start[j].at
        /\ \A i \in 1 .. OldStarts : old_start[i].busy =>
             home # NoTr /\ old_start[i].at = home.journal_start
        /\ home # NoTr => home.journal_start # 0
    BY <1>inv, <2>0, Zenon DEF BusyInv
  <2>3. old_start[1].at = 0 /\ ~old_start[1].busy
    <3>1. old_start[1].at = 0 /\ 1 \in 1 .. OldStarts
      BY <2>0 DEF HaveSpace
    <3> QED
      BY <2>2, <3>1, Zenon
  <2>4. /\ IsTr(fl') /\ fl'.lists = fl.lists /\ fl'.total_bytes = fl.total_bytes
        /\ fl'.journal_start = jhdr.end
    <3>1. IsTr(fl) /\ fl' = [fl EXCEPT !.journal_start = jhdr.end, !.data = mem]
      BY <1>inv, <1>12, Zenon DEF TrInv, Reserve
    <3>2. /\ fl'.lists = fl.lists /\ fl'.total_bytes = fl.total_bytes
          /\ fl'.journal_start = jhdr.end
      BY <3>1, Zenon DEF IsTr
    <3>3. IsTr(fl')
      BY <1>jhdr, <3>1, Zenon DEF IsTr
    <3> QED
      BY <3>2, <3>3, Zenon
  <2>5. /\ old_start' \in [1 .. OldStarts -> [at : Offset \cup {0}, busy : BOOLEAN]]
        /\ \A j \in 1 .. OldStarts : j # OldStarts => old_start'[j] = old_start[j + 1]
        /\ old_start'[OldStarts] = [at |-> jhdr.end, busy |-> TRUE]
    <3> DEFINE E == [at : Offset \cup {0}, busy : BOOLEAN]
               e == [at |-> jhdr.end, busy |-> TRUE]
    <3>1. old_start \in [1 .. OldStarts -> E] /\ e \in E
      BY <1>inv, <1>jhdr, Zenon DEF TypeOK
    <3>2. old_start' = Append(Tail(old_start), e)
      BY <1>12, Zenon DEF Reserve
    <3> HIDE DEF E, e
    <3>3. old_start \in Seq(E) /\ Len(old_start) = OldStarts
      BY <3>1
    <3>4. /\ Tail(old_start) \in Seq(E) /\ Len(Tail(old_start)) = OldStarts - 1
          /\ \A j \in 1 .. OldStarts - 1 : Tail(old_start)[j] = old_start[j + 1]
      BY <3>3
    <3>5. /\ old_start' \in Seq(E) /\ Len(old_start') = OldStarts
          /\ \A j \in 1 .. OldStarts - 1 : old_start'[j] = Tail(old_start)[j]
          /\ old_start'[OldStarts] = e
      BY <3>1, <3>2, <3>4
    <3>6. old_start' \in [1 .. OldStarts -> E]
      BY <3>5
    <3>7. \A j \in 1 .. OldStarts : j # OldStarts => old_start'[j] = old_start[j + 1]
      BY <3>4, <3>5
    <3> QED
      BY <3>5, <3>6, <3>7, Zenon DEF E, e
  <2>6. TypeOK'
    <3>1. hdr_thread' \in {"idle", "write"} /\ fpc' \in {"idle", "space", "log", "issue"}
      BY <1>12, <2>0, Zenon DEF Reserve
    <3> QED
      BY <1>inv, <2>0, <2>5, <3>1, Zenon DEF TypeOK, storage, back, boot
  <2>7. TrInv'
    <3>1. Sized(fl) /\ Live(fl) # {}
      BY <1>inv, <2>0, Zenon DEF TrInv
    <3>2. Sized(fl')
      BY <2>4, <3>1, Zenon DEF Sized
    <3>3. Live(fl') # {}
      BY <2>4, <3>1, Zenon DEF Live, Entries
    <3> QED
      BY <1>inv, <2>0, <2>4, <3>2, <3>3, Zenon DEF TrInv, trs, back
  <2>8. ModeInv'
    BY <2>0, Zenon DEF ModeInv, boot
  <2>9. ScanInv'
    BY <1>inv, <2>0, Zenon DEF ScanInv
  <2>10. ChainInv'
    BY <1>inv, <2>0, <2>4, Zenon DEF ChainInv, Ahead, back, boot
  <2>11. RingInv'
    <3>0. used' = used /\ used \in Nat /\ jhdr' = jhdr
      BY <1>dist, <1>jhdr, <2>0 DEF used
    <3>1. used' + fl'.total_bytes < Slots - 1
      <4>1. fl.total_bytes \in Nat
        BY <1>inv, Zenon DEF TrInv, IsTr
      <4> QED
        BY <1>free, <2>0, <2>4, <3>0, <4>1 DEF HaveSpace, Fits
    <3>2. ASSUME NEW i \in 1 .. OldStarts, i # OldStarts
          PROVE  i + 1 \in 1 .. OldStarts /\ old_start'[i].at = old_start[i + 1].at /\ Pos(i)' = Pos(i + 1)
      BY <2>5, <3>0, <3>2 DEF Pos
    <3>3. Pos(OldStarts)' = used
      BY <2>5, <3>0 DEF Pos, used
    <3>4. used' < Slots - 1
      BY <2>1, <3>0, Zenon
    <3>5. \A i \in 1 .. OldStarts : old_start'[i].at # 0 => Pos(i)' < used' \/ i = OldStarts
      BY <2>1, <3>0, <3>2, Zenon
    <3>6. ASSUME NEW i \in 1 .. OldStarts, NEW j \in 1 .. OldStarts, i < j,
                 old_start'[i].at # 0, old_start'[j].at # 0
          PROVE  Pos(i)' < Pos(j)'
      <4>1. i # OldStarts /\ i + 1 \in 1 .. OldStarts /\ old_start[i + 1].at # 0 /\ Pos(i)' = Pos(i + 1)
        BY <3>2, <3>6
      <4>2. CASE j = OldStarts
        BY <2>1, <3>3, <4>1, <4>2, Zenon
      <4>3. CASE j # OldStarts
        <5>1. j + 1 \in 1 .. OldStarts /\ old_start[j + 1].at # 0 /\ Pos(j)' = Pos(j + 1) /\ i + 1 < j + 1
          BY <3>2, <3>6, <4>3
        <5> QED
          BY <2>1, <4>1, <5>1, Zenon
      <4> QED
        BY <4>2, <4>3, Zenon
    <3> QED
      BY <2>0, <3>1, <3>4, <3>5, <3>6, Zenon DEF RingInv
  <2>12. BusyInv'
    <3>0. ~invalid' /\ home' = home /\ jhdr.end # 0
      BY <1>jhdr, <1>off, <2>0, Zenon DEF back
    <3>1. ASSUME NEW i \in 1 .. OldStarts, i # OldStarts
          PROVE  i + 1 \in 1 .. OldStarts /\ old_start'[i] = old_start[i + 1] /\ old_start'[i].at # jhdr.end
      <4>1. i + 1 \in 1 .. OldStarts /\ old_start'[i] = old_start[i + 1]
        BY <2>5, <3>1
      <4>2. CASE old_start[i + 1].at = 0
        BY <3>0, <4>1, <4>2, Zenon
      <4>3. CASE old_start[i + 1].at # 0
        <5>1. old_start[i + 1].at \in Offset
          BY <1>olds, <4>1, <4>3, Zenon
        <5>2. Dist(jhdr.start, old_start[i + 1].at) < Dist(jhdr.start, jhdr.end)
          BY <2>1, <4>1, <4>3, Zenon DEF Pos, used
        <5>3. old_start[i + 1].at # jhdr.end
          BY <1>in, <1>jhdr, <5>1, <5>2, Zenon
        <5> QED
          BY <4>1, <5>3, Zenon
      <4> QED
        BY <4>2, <4>3, Zenon
    <3>2. old_start'[OldStarts].at = jhdr.end
      BY <2>5
    <3>3. ASSUME NEW i \in 1 .. OldStarts, NEW j \in 1 .. OldStarts, i # j, old_start'[i].at # 0
          PROVE  old_start'[i].at # old_start'[j].at
      <4>1. CASE i = OldStarts
        BY <3>1, <3>2, <3>3, <4>1, Zenon
      <4>2. CASE j = OldStarts
        BY <3>1, <3>2, <3>3, <4>2, Zenon
      <4>3. CASE i # OldStarts /\ j # OldStarts
        <5>1. i + 1 \in 1 .. OldStarts /\ j + 1 \in 1 .. OldStarts /\ i + 1 # j + 1
              /\ old_start'[i] = old_start[i + 1] /\ old_start'[j] = old_start[j + 1]
          BY <3>1, <3>3, <4>3
        <5> QED
          BY <2>2, <3>3, <5>1, Zenon
      <4> QED
        BY <4>1, <4>2, <4>3, Zenon
    <3>4. ASSUME NEW i \in 1 .. OldStarts, old_start'[i].busy, i # OldStarts
          PROVE  home # NoTr /\ old_start'[i].at = home.journal_start
      BY <2>2, <3>1, <3>4, Zenon
    <3>5. ASSUME home # NoTr
          PROVE  \E i \in 1 .. OldStarts :
                    old_start'[i].busy /\ old_start'[i].at = home.journal_start
      <4>1. PICK i \in 1 .. OldStarts : old_start[i].busy /\ old_start[i].at = home.journal_start
        BY <1>inv, <2>0, <3>5, Zenon DEF BusyInv
      <4>2. i # 1
        BY <2>3, <4>1, Zenon
      <4>3. i - 1 \in 1 .. OldStarts /\ i - 1 # OldStarts /\ (i - 1) + 1 = i
        BY <4>2
      <4>4. old_start'[i - 1] = old_start[i]
        BY <2>5, <4>3, Zenon
      <4> QED
        BY <4>1, <4>3, <4>4, Zenon
    <3>6. ASSUME home # NoTr PROVE home.journal_start # jhdr.end
      <4>1. PICK i \in 1 .. OldStarts : old_start[i].at = home.journal_start
        BY <1>inv, <2>0, <3>6, Zenon DEF BusyInv
      <4>2. i # 1 /\ old_start[i].at # 0
        BY <2>2, <2>3, <3>6, <4>1, Zenon
      <4>3. i - 1 \in 1 .. OldStarts /\ i - 1 # OldStarts /\ (i - 1) + 1 = i
        BY <4>2
      <4> QED
        BY <3>1, <4>1, <4>3
    <3> QED
      BY <2>0, <2>2, <2>4, <2>5, <3>0, <3>3, <3>4, <3>5, <3>6, Zenon DEF BusyInv
  <2>13. StoreInv' /\ HomeCovered'
    <3>1. StoreInv' /\ Read(Hdr)' = Read(Hdr) /\ invalid' = invalid /\ home' = home
      BY <1>store, <2>0, Zenon DEF back
    <3> QED
      BY <1>inv, <2>0, <3>1, Zenon DEF HomeCovered
  <2> QED
    BY <2>6, <2>7, <2>8, <2>9, <2>10, <2>11, <2>12, <2>13, Zenon DEF LogInv
\* write_header_thread and finish_end_transaction.
<1>hdr. ASSUME NEW h, h \in [start : Offset, end : Offset], NEW q \in Nat
        PROVE  /\ IsHdr(HdrValue(h, q)) /\ HdrValue(h, q).start = h.start
               /\ HdrValue(h, q).end = h.end
  BY <1>hdr, Zenon DEF IsHdr, HdrValue
\* The transaction going home lies in the log.
<1>homepos. ASSUME home # NoTr, mode = "mounted", ~invalid
            PROVE  home.journal_start \in Offset /\ Dist(jhdr.start, home.journal_start) < used
  <2>1. PICK i \in 1 .. OldStarts : old_start[i].at = home.journal_start
    BY <1>inv, <1>homepos, Zenon DEF BusyInv
  <2>2. old_start[i].at # 0 /\ old_start[i].at \in Offset
    BY <1>inv, <1>olds, <1>homepos, <2>1, Zenon DEF BusyInv
  <2>3. fpc = "log" => i # OldStarts
    BY <1>inv, <1>homepos, <2>1 DEF BusyInv
  <2>4. Pos(i) < used
    BY <1>inv, <1>homepos, <2>2, <2>3, Zenon DEF RingInv
  <2> QED
    BY <2>1, <2>2, <2>4, Zenon DEF Pos
<1>13. ASSUME HeaderThreadWrite PROVE LogInv'
  <2>0. /\ UNCHANGED <<header, trs, fl, fpc, scan, back, invalid, boot, device>>
        /\ hdr_thread = "write" /\ hdr_thread' = "sync"
    BY <1>13, Zenon DEF HeaderThreadWrite, PutJournal
  <2>1. jhdr \in [start : Offset, end : Offset] /\ saved_sequence_num \in Nat
    BY <1>inv, Zenon DEF TypeOK
  <2>2. StoreInv' /\ Read(Hdr)' = HdrValue(jhdr, saved_sequence_num)
    BY <1>13, <1>header, <1>hdr, <2>1, Zenon DEF HeaderThreadWrite
  <2>3. TypeOK'
    BY <1>inv, <2>0, Zenon DEF TypeOK, header, back, boot
  <2>4. ModeInv'
    BY <1>inv, <2>0, Zenon DEF ModeInv, header, back, boot
  <2>5. TrInv' /\ ScanInv' /\ ChainInv' /\ BusyInv' /\ RingInv'
    BY <1>trs, <1>scan, <1>chain, <1>busy, <1>ring, <2>0, Zenon DEF header, trs, back, boot
  <2>6. HomeCovered'
    <3>1. CASE invalid
      BY <2>0, <3>1, Zenon DEF HomeCovered
    <3>2. CASE ~invalid
      <4>1. fpc = "log" /\ mode = "mounted"
        BY <1>inv, <2>0, <3>2, Zenon DEF ModeInv
      <4>2. ASSUME home # NoTr PROVE InRing(jhdr.start, home.journal_start, jhdr.end)
        BY <1>homepos, <1>in, <1>jhdr, <3>2, <4>1, <4>2, Zenon DEF used
      <4> QED
        BY <1>hdr, <2>0, <2>1, <2>2, <4>1, <4>2, Zenon DEF HomeCovered, back
    <3> QED
      BY <3>1, <3>2, Zenon
  <2> QED
    BY <2>2, <2>3, <2>4, <2>5, <2>6, Zenon DEF LogInv
<1>14. ASSUME HeaderThreadSync PROVE LogInv'
  <2>0. /\ UNCHANGED <<header, trs, fl, fpc, scan, back, invalid, boot, device>>
        /\ hdr_thread' = "idle"
    BY <1>14, Zenon DEF HeaderThreadSync
  <2>1. StoreInv' /\ Read(Hdr)' = Read(Hdr)
    BY <1>14, <1>sync, Zenon DEF HeaderThreadSync
  <2>2. TypeOK'
    BY <1>inv, <2>0, Zenon DEF TypeOK, header, back, boot
  <2>3. ModeInv'
    <3>1. hdr_thread = "sync"
      BY <1>14, Zenon DEF HeaderThreadSync
    <3> QED
      BY <1>inv, <2>0, <3>1, Zenon DEF ModeInv, header, back, boot
  <2> QED
    BY <1>trs, <1>scan, <1>chain, <1>busy, <1>ring, <1>cover, <2>0, <2>1, <2>2, <2>3, Zenon
       DEF LogInv, header, trs, back, boot
<1>15. ASSUME HeaderThreadFails PROVE LogInv'
  <2>0. /\ UNCHANGED <<storage, header, trs, fl, fpc, scan, back, boot>>
        /\ hdr_thread = "write" /\ hdr_thread' = "failed" /\ invalid' = TRUE
    BY <1>15, Zenon DEF HeaderThreadFails
  <2>1. TypeOK'
    BY <1>inv, <2>0, Zenon DEF TypeOK, storage, header, back, boot
  <2>2. ModeInv'
    BY <1>inv, <2>0, Zenon DEF ModeInv, header, back, boot
  <2>3. ChainInv' /\ BusyInv' /\ HomeCovered'
    BY <2>0, Zenon DEF ChainInv, BusyInv, HomeCovered
  <2>4. RingInv'
    BY <1>inv, <2>0, Zenon DEF RingInv, used, header
  <2> QED
    BY <1>trs, <1>scan, <1>store, <2>0, <2>1, <2>2, <2>3, <2>4, Zenon
       DEF LogInv, header, trs, back
<1>log. fpc = "log" /\ hdr_thread = "idle" =>
          /\ mode = "mounted" /\ fl.total_bytes \in Nat /\ fl.total_bytes > 0
          /\ used \in Nat /\ used + fl.total_bytes < Slots - 1
  <2>1. SUFFICES ASSUME fpc = "log", hdr_thread = "idle"
                 PROVE  /\ mode = "mounted" /\ fl.total_bytes \in Nat
                        /\ fl.total_bytes > 0 /\ used \in Nat
                        /\ used + fl.total_bytes < Slots - 1
    OBVIOUS
  <2>2. mode = "mounted"
    BY <1>inv, <2>1, Zenon DEF ModeInv
  <2>3. fl.total_bytes \in Nat /\ fl.total_bytes > 0
    BY <1>inv, <2>1, Zenon DEF TrInv, IsTr, Sized
  <2>4. used \in Nat
    BY <1>dist, <1>jhdr DEF used
  <2> QED
    BY <1>inv, <2>1, <2>2, <2>3, <2>4, Zenon DEF RingInv
<1>16. ASSUME NEW i, WriteLog(i) PROVE LogInv'
  <2>0. /\ fpc = "log" /\ hdr_thread = "idle" /\ i \in 1 .. fl.total_bytes
        /\ UNCHANGED <<header, trs, fl, fpc, scan, hdr_thread, back, invalid, boot, device>>
    BY <1>16, Zenon DEF WriteLog, PutJournal
  <2>1. IsSlot(Image(fl)[i])
    <3>1. IsTr(fl) /\ Sized(fl)
      BY <1>inv, <2>0, Zenon DEF TrInv
    <3>2. fl.total_bytes < Slots - 1
      BY <1>log, <2>0
    <3> QED
      BY <2>0, <3>1, <3>2, <1>facts, Zenon
  <2>2. StoreInv' /\ Read(Hdr)' = Read(Hdr)
    BY <1>16, <1>slot, <2>1, Zenon DEF WriteLog
  <2> QED
    BY <1>type, <1>trs, <1>mode, <1>scan, <1>chain, <1>busy, <1>ring, <1>cover, <2>0, <2>2, Zenon
       DEF LogInv, header, trs, back, boot
<1>17. ASSUME Commit PROVE LogInv'
  <2> DEFINE n == fl.total_bytes
             e == After(jhdr.end, n)
  <2>0. /\ fpc = "log" /\ hdr_thread = "idle" /\ fpc' = "issue"
        /\ jhdr' = [jhdr EXCEPT !.end = e] /\ fl' = InLog(fl, jhdr'.end)
        /\ CommitHeader(HdrValue(jhdr', saved_sequence_num))
        /\ UNCHANGED <<device, sequence_num, saved_sequence_num, active_start, old_start,
                       completed_trs, trs, scan, hdr_thread, back, invalid, boot>>
    BY <1>17, Zenon DEF Commit, CommitHeader
  <2>1. /\ mode = "mounted" /\ n \in Nat /\ n > 0
        /\ used \in Nat /\ used + n < Slots - 1
    BY <1>log, <2>0, Zenon
  <2>2. e \in Offset /\ Dist(jhdr.start, e) = used + n
    BY <1>after, <1>jhdr, <2>1, Zenon DEF used
  <2> HIDE DEF e
  <2>3. /\ jhdr' \in [start : Offset, end : Offset] /\ jhdr'.start = jhdr.start /\ jhdr'.end = e
        /\ used' = used + n
    <3>1. /\ jhdr' \in [start : Offset, end : Offset] /\ jhdr'.start = jhdr.start /\ jhdr'.end = e
      BY <1>inv, <2>0, <2>2, Zenon DEF TypeOK
    <3> QED
      BY <2>2, <3>1, Zenon DEF used
  <2>4. /\ IsTr(fl') /\ fl'.lists = fl.lists /\ fl'.total_bytes = n
        /\ fl'.journal_start = fl.journal_start /\ fl'.journal_end = e
        /\ ~invalid => fl.journal_start = jhdr.end
    <3>1. IsTr(fl) /\ (~invalid => fl.journal_start = jhdr.end)
      BY <1>inv, <2>0, <2>1, Zenon DEF TrInv, ChainInv
    <3>2. fl' = [fl EXCEPT !.journal_end = e, !.num_flushed = Len(fl.lists)]
      BY <2>0, <2>3, Zenon DEF InLog
    <3>3. /\ fl'.lists = fl.lists /\ fl'.total_bytes = n
          /\ fl'.journal_start = fl.journal_start /\ fl'.journal_end = e
      BY <3>1, <3>2, Zenon DEF IsTr
    <3>4. IsTr(fl')
      BY <2>2, <3>1, <3>2, Zenon DEF IsTr
    <3> QED
      BY <3>1, <3>3, <3>4, Zenon
  <2>5. TypeOK'
    <3>1. fpc' \in {"idle", "space", "log", "issue"}
      BY <2>0, Zenon
    <3> QED
      BY <1>inv, <2>0, <2>3, <3>1, Zenon DEF TypeOK, back, boot
  <2>6. TrInv'
    <3>1. Sized(fl) /\ Live(fl) # {}
      BY <1>inv, <2>0, Zenon DEF TrInv
    <3>2. Sized(fl')
      BY <2>4, <3>1, Zenon DEF Sized
    <3>3. Live(fl') # {}
      BY <2>4, <3>1, Zenon DEF Live, Entries
    <3> QED
      BY <1>inv, <2>0, <2>4, <3>2, <3>3, Zenon DEF TrInv, trs, back
  <2>7. ModeInv'
    BY <2>0, <2>1, Zenon DEF ModeInv, boot
  <2>8. ScanInv'
    BY <1>inv, <2>0, Zenon DEF ScanInv
  <2>9. ChainInv'
    <3>1. ~invalid => Ahead' = Ahead
      BY <2>0, <2>4, Zenon DEF Ahead
    <3> QED
      BY <1>inv, <2>0, <2>1, <2>3, <2>4, <3>1, Zenon DEF ChainInv, back, boot
  <2>10. BusyInv'
    <3>1. fl'.journal_start = fl.journal_start /\ fpc \in {"log", "issue"} /\ fpc' \in {"log", "issue"}
      BY <2>0, <2>4, Zenon
    <3> QED
      BY <1>inv, <2>0, <3>1, Zenon DEF BusyInv, back
  <2>11. RingInv'
    <3>0. SUFFICES ASSUME ~invalid PROVE RingInv'
      BY <2>0, Zenon DEF RingInv
    <3>1. \A i \in 1 .. OldStarts : Pos(i)' = Pos(i)
      BY <2>0, <2>3, Zenon DEF Pos
    <3>2. Pos(OldStarts) = used
      BY <1>inv, <2>0, <2>1, <2>4, <3>0 DEF BusyInv, Pos, used
    <3>3. ASSUME NEW i \in 1 .. OldStarts, old_start[i].at # 0 PROVE Pos(i)' < used'
      <4>1. CASE i = OldStarts
        BY <2>1, <2>3, <3>1, <3>2, <4>1
      <4>2. CASE i # OldStarts
        <5>1. Pos(i) < used /\ Pos(i) \in Nat
          BY <1>inv, <1>dist, <1>jhdr, <1>olds, <2>1, <3>0, <3>3, <4>2 DEF RingInv, Pos
        <5> QED
          BY <2>1, <2>3, <3>1, <5>1
      <4> QED
        BY <4>1, <4>2, Zenon
    <3>4. used' < Slots - 1
      BY <2>1, <2>3, Zenon
    <3>5. \A i, j \in 1 .. OldStarts :
            i < j /\ old_start[i].at # 0 /\ old_start[j].at # 0 => Pos(i)' < Pos(j)'
      BY <1>inv, <2>1, <3>0, <3>1, Zenon DEF RingInv
    <3> QED
      BY <2>0, <3>3, <3>4, <3>5, Zenon DEF RingInv
  <2>12. StoreInv' /\ Read(Hdr)' = HdrValue(jhdr', saved_sequence_num)
    <3>1. IsHdr(HdrValue(jhdr', saved_sequence_num))
      BY <1>inv, <1>hdr, <2>3, Zenon DEF TypeOK
    <3> QED
      BY <1>header, <2>0, <3>1, Zenon
  <2>13. HomeCovered'
    <3>0. SUFFICES ASSUME ~invalid PROVE HomeCovered'
      BY <2>0, Zenon DEF HomeCovered
    <3>1. Read(Hdr)'.start = jhdr.start /\ Read(Hdr)'.end = e
      BY <2>3, <2>12 DEF HdrValue
    <3>2. ASSUME home # NoTr PROVE InRing(jhdr.start, home.journal_start, e)
      <4>1. home.journal_start \in Offset /\ Dist(jhdr.start, home.journal_start) < used
        BY <1>homepos, <2>1, <3>0, <3>2, Zenon
      <4>2. Dist(jhdr.start, home.journal_start) < Dist(jhdr.start, e)
        BY <1>dist, <1>jhdr, <2>1, <2>2, <4>1
      <4> QED
        BY <1>in, <1>jhdr, <2>2, <4>1, <4>2, Zenon
    <3>3. InRing(jhdr.start, jhdr.end, e)
      BY <1>in, <1>jhdr, <2>1, <2>2 DEF used
    <3>4. home' = home
      BY <2>0, Zenon DEF back
    <3> QED
      BY <2>0, <2>4, <3>0, <3>1, <3>2, <3>3, <3>4, Zenon DEF HomeCovered
  <2> QED
    BY <2>5, <2>6, <2>7, <2>8, <2>9, <2>10, <2>11, <2>12, <2>13, Zenon DEF LogInv
<1>18. ASSUME AbortFlush PROVE LogInv'
  <2>0. /\ fpc = "log" /\ invalid' = TRUE /\ fpc' = "idle" /\ fl' = NoTr
        /\ old_start' = [old_start EXCEPT ![OldStarts].busy = FALSE]
        /\ UNCHANGED <<storage, jhdr, sequence_num, saved_sequence_num, active_start,
                       completed_trs, trs, scan, hdr_thread, back, boot>>
    BY <1>18, Zenon DEF AbortFlush
  <2>1. old_start' \in [1 .. OldStarts -> [at : Offset \cup {0}, busy : BOOLEAN]]
    BY <1>inv, <2>0, Zenon DEF TypeOK
  <2>2. TypeOK'
    BY <1>inv, <2>0, <2>1, Zenon DEF TypeOK, storage, back, boot
  <2>3. TrInv'
    BY <1>inv, <1>notr, <2>0, Zenon DEF TrInv, trs, back
  <2>4. ModeInv'
    BY <1>inv, <2>0, Zenon DEF ModeInv, boot
  <2>5. ScanInv'
    BY <1>inv, <2>0, Zenon DEF ScanInv
  <2>6. ChainInv' /\ BusyInv' /\ RingInv' /\ HomeCovered'
    BY <2>0, Zenon DEF ChainInv, BusyInv, RingInv, HomeCovered
  <2> QED
    BY <1>store, <2>0, <2>2, <2>3, <2>4, <2>5, <2>6, Zenon DEF LogInv
<1>19. ASSUME IssueHome PROVE LogInv'
  <2>0. /\ fpc = "issue" /\ home = NoTr /\ fpc' = "idle" /\ fl' = NoTr
        /\ home' = IF Live(fl) = {} THEN home ELSE fl
        /\ todo' = Live(fl)
        /\ UNCHANGED <<storage, header, trs, scan, hdr_thread, invalid, boot>>
    BY <1>19, Zenon DEF IssueHome
  <2>1. mode = "mounted" /\ mode' = mode /\ invalid' = invalid
    BY <1>inv, <2>0, Zenon DEF ModeInv, boot
  <2>2. home' = fl /\ IsTr(fl)
    BY <1>inv, <2>0, Zenon DEF TrInv
  <2>3. ~invalid => /\ fl.journal_start # 0 /\ fl # NoTr
                    /\ old_start[OldStarts] = [at |-> fl.journal_start, busy |-> TRUE]
    BY <1>inv, <1>notr, <2>0, <2>1, Zenon DEF BusyInv
  <2>4. TypeOK'
    <3>1. todo' \subseteq Block
      BY <2>0, Zenon DEF Live
    <3>2. fpc' \in {"idle", "space", "log", "issue"}
      BY <2>0, Zenon
    <3> QED
      BY <1>inv, <2>0, <3>1, <3>2, Zenon DEF TypeOK, storage, header, boot
  <2>5. TrInv'
    BY <1>inv, <1>notr, <2>0, <2>2, Zenon DEF TrInv, trs
  <2>6. ModeInv'
    <3>1. hdr_thread' # "idle" => invalid'
      <4>1. hdr_thread # "idle" => invalid
        BY <1>inv, <2>0, Zenon DEF ModeInv
      <4> QED
        BY <2>0, <4>1
    <3> QED
      BY <2>0, <2>1, <3>1, Zenon DEF ModeInv
  <2>7. ScanInv'
    BY <1>inv, <2>0, Zenon DEF ScanInv
  <2>8. ASSUME ~invalid PROVE ChainInv'
    <3>1. completed_trs = {} /\ active_start = fl.journal_start /\ fl.journal_end = jhdr.end
      BY <1>inv, <2>0, <2>1, <2>8, Zenon DEF ChainInv, Ahead
    <3>2. Ahead' = jhdr.end
      BY <2>0, Zenon DEF Ahead, header
    <3> QED
      BY <2>0, <2>2, <2>3, <2>8, <3>1, <3>2, Zenon DEF ChainInv, header
  <2>9. ASSUME ~invalid PROVE BusyInv'
    <3>1. \A i \in 1 .. OldStarts : old_start[i].busy => i = OldStarts
      BY <1>inv, <2>0, <2>1, <2>9, Zenon DEF BusyInv
    <3>2. OldStarts \in 1 .. OldStarts /\ old_start[OldStarts].busy
          /\ old_start[OldStarts].at = fl.journal_start
      BY <2>3, <2>9
    <3>3. old_start' = old_start /\ fpc' \notin {"log", "issue"}
      BY <2>0, Zenon DEF header
    <3>4. \A i, j \in 1 .. OldStarts :
            i # j /\ old_start[i].at # 0 => old_start[i].at # old_start[j].at
      BY <1>inv, <2>1, <2>9, Zenon DEF BusyInv
    <3> QED
      BY <2>2, <2>3, <2>9, <3>1, <3>2, <3>3, <3>4, Zenon DEF BusyInv
  <2>10. RingInv'
    <3>1. jhdr' = jhdr /\ old_start' = old_start /\ fpc # "log" /\ fpc' # "log"
      BY <2>0, Zenon DEF header
    <3> QED
      BY <1>inv, <2>1, <3>1, Zenon DEF RingInv, used, Pos
  <2>11. StoreInv' /\ HomeCovered'
    <3>1. StoreInv' /\ Read(Hdr)' = Read(Hdr)
      BY <1>store, <2>0, Zenon
    <3>2. ~invalid => InRing(Read(Hdr).start, fl.journal_start, Read(Hdr).end)
      BY <1>inv, <2>0, <2>1, <2>3, Zenon DEF HomeCovered
    <3>3. CASE invalid
      BY <2>1, <3>1, <3>3, Zenon DEF HomeCovered
    <3>4. CASE ~invalid
      BY <2>0, <2>2, <3>1, <3>2, <3>4, Zenon DEF HomeCovered
    <3> QED
      BY <3>3, <3>4, Zenon
  <2>12. ASSUME invalid PROVE ChainInv' /\ BusyInv'
    BY <2>1, <2>12, Zenon DEF ChainInv, BusyInv
  <2> QED
    BY <2>4, <2>5, <2>6, <2>7, <2>8, <2>9, <2>10, <2>11, <2>12, Zenon DEF LogInv
<1>20. ASSUME NEW b, HomeWrite(b) PROVE LogInv'
  <2>0. /\ home # NoTr /\ mode # "down" /\ PutFs(Fs(b), Data(home.data[b]))
        /\ todo' = todo \ {b}
        /\ UNCHANGED <<device, jhdr, sequence_num, saved_sequence_num, trs, flush, invalid, boot>>
    BY <1>20, Zenon DEF HomeWrite, PutFs
  <2>1. /\ StoreInv' /\ Read(Hdr)' = Read(Hdr)
        /\ fl' = fl /\ fpc' = fpc /\ scan' = scan /\ hdr_thread' = hdr_thread
        /\ mode' = mode /\ invalid' = invalid /\ active_tr' = active_tr /\ cur_tr' = cur_tr
    BY <1>fs, <2>0, Zenon DEF flush, trs, boot
  <2>2. mode \in {"mounted", "closing", "draining"}
    BY <1>inv, <2>0, Zenon DEF ModeInv, TypeOK
  <2>3. todo' \subseteq Block
    BY <1>inv, <2>0, Zenon DEF TypeOK
  <2>4. CASE home' # NoTr /\ UNCHANGED <<old_start, active_start, completed_trs>>
    <3>1. IsTr(home') /\ home'.journal_start = home.journal_start
          /\ home'.journal_end = home.journal_end
      <4>1. IsTr(home) /\ home' = [home EXCEPT !.num_flushed = @ + 1]
        BY <1>20, <1>inv, <2>4, Zenon DEF HomeWrite, TrInv
      <4> QED
        BY <4>1, Zenon DEF IsTr
    <3>2. TypeOK'
      BY <1>inv, <2>0, <2>1, <2>3, <2>4, Zenon DEF TypeOK
    <3>3. TrInv'
      BY <1>inv, <2>1, <3>1, Zenon DEF TrInv
    <3>4. ModeInv'
      BY <1>inv, <2>1, <2>2, <2>4, Zenon DEF ModeInv
    <3>5. ChainInv'
      <4>1. Ahead' = Ahead
        BY <2>0, <2>1, Zenon DEF Ahead
      <4> QED
        BY <1>inv, <2>0, <2>1, <2>4, <3>1, <4>1 DEF ChainInv
    <3>6. BusyInv'
      BY <1>inv, <2>0, <2>1, <2>4, <3>1 DEF BusyInv
    <3>7. HomeCovered'
      BY <1>inv, <2>0, <2>1, <3>1 DEF HomeCovered
    <3> QED
      BY <1>scan, <1>ring, <2>0, <2>1, <2>4, <3>2, <3>3, <3>4, <3>5, <3>6, <3>7, Zenon DEF LogInv
  <2>5. CASE home' = NoTr /\ invalid /\ UNCHANGED <<old_start, active_start, completed_trs>>
    <3>1. TypeOK'
      BY <1>inv, <2>0, <2>1, <2>3, <2>5, Zenon DEF TypeOK
    <3>2. TrInv'
      BY <1>inv, <1>notr, <2>1, <2>5, Zenon DEF TrInv
    <3>3. ModeInv'
      BY <1>inv, <2>1, <2>2, <2>5, Zenon DEF ModeInv
    <3>4. ChainInv' /\ BusyInv' /\ HomeCovered'
      BY <2>1, <2>5, Zenon DEF ChainInv, BusyInv, HomeCovered
    <3> QED
      BY <1>scan, <1>ring, <2>0, <2>1, <2>5, <3>1, <3>2, <3>3, <3>4, Zenon DEF LogInv
  <2>6. CASE home' = NoTr /\ ~invalid /\ TransactionHome(home)
    <3> DEFINE k == CHOOSE j \in 1 .. OldStarts :
                       /\ old_start[j].at = home.journal_start
                       /\ \A m \in 1 .. j - 1 : old_start[m].at # home.journal_start
               c == [from |-> home.journal_start, to |-> home.journal_end]
    <3>1. /\ completed_trs = {} /\ active_start = home.journal_start
          /\ home.journal_end = Ahead
      BY <1>inv, <2>0, <2>2, <2>6, Zenon DEF ChainInv
    <3>2. /\ old_start' = [old_start EXCEPT ![k].busy = FALSE]
          /\ active_start' = home.journal_end /\ completed_trs' = {}
      <4>1. completed_trs \cup {c} = {c}
        BY <3>1, Zenon
      <4>2. Absorb(active_start, {c}) = home.journal_end /\ Absorb(c.from, {c}) = home.journal_end
        BY <3>1, <1>facts, Zenon
      <4> HIDE DEF c
      <4>3. \A d \in {c} : Absorb(d.from, {c}) = home.journal_end
        BY <4>2, Zenon
      <4>4. /\ old_start' = [old_start EXCEPT ![k].busy = FALSE]
            /\ active_start' = Absorb(active_start, {c})
            /\ completed_trs' = {d \in {c} : Absorb(d.from, {c}) # Absorb(active_start, {c})}
        BY <2>6, <4>1, Zenon DEF TransactionHome, c
      <4> QED
        BY <4>2, <4>3, <4>4, Zenon
    <3>3. k \in 1 .. OldStarts /\ old_start[k].at = home.journal_start
      <4>1. PICK j \in 1 .. OldStarts : old_start[j].at = home.journal_start
        BY <1>inv, <2>0, <2>6, Zenon DEF BusyInv
      <4>2. \A m \in 1 .. j - 1 : m \in 1 .. OldStarts /\ m # j
        OBVIOUS
      <4>3. \A m \in 1 .. j - 1 : old_start[m].at # home.journal_start
        BY <1>inv, <2>0, <2>6, <4>1, <4>2, Zenon DEF BusyInv
      <4> QED
        BY <4>1, <4>3, Zenon
    <3> HIDE DEF k, c
    <3>4. /\ old_start' \in [1 .. OldStarts -> [at : Offset \cup {0}, busy : BOOLEAN]]
          /\ \A i \in 1 .. OldStarts : old_start'[i].at = old_start[i].at
          /\ \A i \in 1 .. OldStarts : i # k => old_start'[i] = old_start[i]
          /\ ~old_start'[k].busy
      <4>1. old_start \in [1 .. OldStarts -> [at : Offset \cup {0}, busy : BOOLEAN]]
        BY <1>inv, Zenon DEF TypeOK
      <4>2. old_start' \in [1 .. OldStarts -> [at : Offset \cup {0}, busy : BOOLEAN]]
        BY <3>2, <3>3, <4>1, Zenon
      <4>3. \A i \in 1 .. OldStarts : i # k => old_start'[i] = old_start[i]
        BY <3>2, <4>1, Zenon
      <4>4. old_start'[k].at = old_start[k].at /\ ~old_start'[k].busy
        BY <3>2, <3>3, <4>1, Zenon
      <4> QED
        BY <4>2, <4>3, <4>4, Zenon
    <3>5. TypeOK'
      <4>1. home.journal_end \in Offset
        <5>1. fpc = "issue" => fl.journal_start # 0 /\ fl.journal_start \in Offset \cup {0}
          BY <1>inv, <2>6, Zenon DEF BusyInv, TrInv, IsTr
        <5> QED
          BY <1>jhdr, <3>1, <5>1, Zenon DEF Ahead
      <4> QED
        BY <1>inv, <2>0, <2>1, <2>3, <3>2, <3>4, <4>1, Zenon DEF TypeOK
    <3>6. TrInv'
      BY <1>inv, <1>notr, <2>1, <2>6, Zenon DEF TrInv
    <3>7. ModeInv'
      BY <1>inv, <2>1, <2>2, <2>6, Zenon DEF ModeInv
    <3>8. ScanInv'
      BY <1>inv, <2>1, <3>4, Zenon DEF ScanInv
    <3>9. ChainInv'
      BY <1>inv, <2>0, <2>1, <2>6, <3>1, <3>2, Zenon DEF ChainInv, Ahead
    <3>10. BusyInv'
      <4>1. \A i, j \in 1 .. OldStarts :
              i # j /\ old_start'[i].at # 0 => old_start'[i].at # old_start'[j].at
        BY <1>inv, <2>6, <3>4 DEF BusyInv
      <4>2. ASSUME NEW i \in 1 .. OldStarts, old_start'[i].busy
            PROVE  fpc \in {"log", "issue"} /\ i = OldStarts
        <5>1. i # k /\ old_start[i].busy
          BY <3>4, <4>2, Zenon
        <5>2. old_start[i].at # home.journal_start
          BY <1>inv, <2>0, <2>6, <3>3, <5>1, Zenon DEF BusyInv
        <5> QED
          BY <1>inv, <2>6, <5>1, <5>2, Zenon DEF BusyInv
      <4>3. ASSUME fpc \in {"log", "issue"}
            PROVE  /\ fl.journal_start # 0
                   /\ old_start'[OldStarts] = [at |-> fl.journal_start, busy |-> TRUE]
        <5>1. /\ fl.journal_start # 0 /\ fl.journal_start # home.journal_start
              /\ old_start[OldStarts] = [at |-> fl.journal_start, busy |-> TRUE]
          BY <1>inv, <2>0, <2>6, <4>3, Zenon DEF BusyInv
        <5>2. OldStarts \in 1 .. OldStarts /\ OldStarts # k
          BY <3>3, <5>1
        <5> QED
          BY <3>4, <5>1, <5>2, Zenon
      <4> QED
        BY <2>1, <2>6, <4>1, <4>2, <4>3, Zenon DEF BusyInv
    <3>11. RingInv'
      <4>1. \A i \in 1 .. OldStarts : Pos(i)' = Pos(i)
        BY <2>0, <3>4, Zenon DEF Pos
      <4>2. used' = used
        BY <2>0, Zenon DEF used
      <4> QED
        BY <1>inv, <2>1, <3>4, <4>1, <4>2, Zenon DEF RingInv
    <3>12. HomeCovered'
      BY <1>inv, <2>1, <2>6, Zenon DEF HomeCovered
    <3> QED
      BY <2>1, <3>5, <3>6, <3>7, <3>8, <3>9, <3>10, <3>11, <3>12, Zenon DEF LogInv
  <2>7. ASSUME home' = [home EXCEPT !.num_flushed = @ + 1] PROVE invalid \/ home' # NoTr
    <3>1. IsTr(home)
      BY <1>inv, Zenon DEF TrInv
    <3>2. home'.journal_start = home.journal_start
      BY <2>7, <3>1, Zenon DEF IsTr
    <3> QED
      BY <1>inv, <1>notr, <2>0, <3>2, Zenon DEF BusyInv
  <2> QED
    BY <1>20, <2>4, <2>5, <2>6, <2>7, Zenon DEF HomeWrite
<1>21. ASSUME NEW loc, Destage(loc) PROVE LogInv'
  <2>0. /\ loc \in DOMAIN cache
        /\ disk' = [disk EXCEPT ![loc] = cache[loc]]
        /\ cache' = [l \in DOMAIN cache \ {loc} |-> cache[l]]
        /\ UNCHANGED <<device, header, trs, flush, back, invalid, boot>>
    BY <1>21, Zenon DEF Destage
  <2>1. /\ DOMAIN disk' = DOMAIN disk /\ DOMAIN cache' = DOMAIN cache \ {loc}
        /\ \A l \in DOMAIN disk : disk'[l] = IF l = loc THEN cache[l] ELSE disk[l]
        /\ \A l \in DOMAIN cache \ {loc} : cache'[l] = cache[l]
    BY <2>0, Zenon
  <2>2. StoreInv'
    BY <1>inv, <2>0, <2>1, Zenon DEF StoreInv, Stored
  <2>3. Read(Hdr)' = Read(Hdr)
    BY <1>inv, <2>0, <2>1, Zenon DEF StoreInv, Read
  <2> QED
    BY <1>type, <1>trs, <1>mode, <1>scan, <1>chain, <1>busy, <1>ring, <1>cover, <2>0, <2>2, <2>3,
       Zenon DEF LogInv, header, trs, flush, back, boot
\* The journal is closed, or the machine goes down.
<1>22. ASSUME reset, StoreInv', mode' = "down", device' = device PROVE LogInv'
  <2>0. /\ active_tr' = NoTr /\ cur_tr' = NoTr /\ fl' = NoTr /\ home' = NoTr /\ fpc' = "idle"
        /\ scan' = [i |-> 0, empty |-> TRUE] /\ hdr_thread' = "idle" /\ todo' = {}
        /\ invalid' = FALSE /\ completed_trs' = {}
        /\ old_start' = [i \in 1 .. OldStarts |-> [at |-> 0, busy |-> FALSE]]
        /\ jhdr' = [start |-> 1, end |-> 1] /\ active_start' = 1
        /\ sequence_num' = 0 /\ saved_sequence_num' = 0
    BY <1>22, Zenon DEF reset
  <2>1. \A i \in 1 .. OldStarts : old_start'[i] = [at |-> 0, busy |-> FALSE]
    BY <2>0, Zenon
  <2>2. TypeOK'
    <3>1. old_start' \in [1 .. OldStarts -> [at : Offset \cup {0}, busy : BOOLEAN]]
      BY <2>0, Zenon
    <3>2. 1 \in Offset /\ 0 \in Nat
      BY DEF Offset
    <3>3. jhdr' \in [start : Offset, end : Offset]
      BY <2>0, <3>2, Zenon
    <3> QED
      BY <1>dev, <1>22, <2>0, <3>1, <3>2, <3>3, Zenon DEF TypeOK
  <2>3. TrInv'
    BY <1>notr, <2>0, Zenon DEF TrInv
  <2>4. ModeInv'
    BY <1>22, <2>0, <2>1, Zenon DEF ModeInv
  <2>5. ScanInv'
    BY <2>0 DEF ScanInv
  <2>6. ChainInv' /\ RingInv'
    BY <1>22, <2>0, Zenon DEF ChainInv, RingInv
  <2>7. BusyInv'
    BY <2>0, <2>1, Zenon DEF BusyInv
  <2>8. HomeCovered'
    BY <2>0, Zenon DEF HomeCovered
  <2> QED
    BY <1>22, <2>2, <2>3, <2>4, <2>5, <2>6, <2>7, <2>8, Zenon DEF LogInv
<1>23. ASSUME CloseDone \/ Crash PROVE LogInv'
  <2>1. reset /\ mode' = "down" /\ device' = device
    BY <1>23, Zenon DEF CloseDone, Crash, storage
  <2>2. ASSUME UNCHANGED storage PROVE StoreInv'
    BY <1>store, <2>2, Zenon
  <2>3. ASSUME disk' = disk /\ cache' = << >> PROVE StoreInv'
    BY <1>inv, <1>none, <2>1, <2>3, Zenon DEF StoreInv
  <2>4. StoreInv'
    BY <1>23, <2>1, <2>2, <2>3, Zenon DEF CloseDone, Crash
  <2> QED
    BY <1>22, <2>1, <2>4, Zenon
\* journal_open and replay_journal.
<1>24. ASSUME mode \in {"down", "replay", "resync"}, StoreInv',
              UNCHANGED <<device, old_start, completed_trs, active_tr, cur_tr, flush, back, invalid>>,
              sequence_num' \in Nat, saved_sequence_num' \in Nat,
              jhdr' \in [start : Offset, end : Offset], active_start' \in Offset,
              \/ mode' \in {"replay", "resync"}
              \/ mode' = "mounted" /\ jhdr'.start = active_start' /\ jhdr'.end = active_start'
       PROVE  LogInv'
  <2>1. /\ home = NoTr /\ fpc = "idle" /\ completed_trs = {} /\ ~invalid /\ hdr_thread = "idle"
        /\ \A i \in 1 .. OldStarts : old_start[i] = [at |-> 0, busy |-> FALSE]
    BY <1>inv, <1>24, Zenon DEF ModeInv
  <2>2. /\ home' = home /\ fpc' = fpc /\ fl' = fl /\ scan' = scan /\ hdr_thread' = hdr_thread
        /\ todo' = todo /\ invalid' = invalid /\ old_start' = old_start
        /\ completed_trs' = completed_trs /\ active_tr' = active_tr /\ cur_tr' = cur_tr
        /\ device' = device
    BY <1>24, Zenon DEF flush, back
  <2>3. TypeOK'
    <3>1. mode' \in {"mounted", "closing", "draining", "down", "replay", "resync"}
      BY <1>24, Zenon
    <3> QED
      BY <1>inv, <1>24, <2>2, <3>1, Zenon DEF TypeOK
  <2>4. ModeInv'
    BY <1>24, <2>1, <2>2 DEF ModeInv
  <2>5. ChainInv'
    BY <1>24, <2>1, <2>2, Zenon DEF ChainInv, Ahead
  <2>6. RingInv'
    <3>1. ASSUME mode' = "mounted" PROVE used' = 0
      BY <1>24, <3>1 DEF used, Dist, Offset
    <3> QED
      BY <2>1, <2>2, <3>1 DEF RingInv
  <2>7. HomeCovered'
    BY <2>1, <2>2, Zenon DEF HomeCovered
  <2> QED
    BY <1>trs, <1>scan, <1>busy, <1>24, <2>2, <2>3, <2>4, <2>5, <2>6, <2>7, Zenon DEF LogInv
<1>25. ASSUME Open PROVE LogInv'
  <2> DEFINE h == Read(Hdr)
             r == Replay(h, LogContent(Visible))
  <2>0. /\ mode = "down" /\ UNCHANGED <<storage, old_start, completed_trs, active_tr, cur_tr, flush,
                                          back, invalid>>
        /\ \/ Mounted(FsContent(Visible), r.start, h.seq)
           \/ /\ mode' = "replay" /\ jhdr' = [start |-> r.start, end |-> r.end]
              /\ sequence_num' = h.seq /\ UNCHANGED <<saved_sequence_num, active_start>>
    BY <1>25, Zenon DEF Open
  <2>1. IsHdr(h) /\ h.seq \in Nat
    <3>1. IsHdr(h)
      BY <1>inv, Zenon DEF StoreInv, Stored, Read
    <3> QED
      BY <3>1, Zenon DEF IsHdr
  <2>2. \A i \in 1 .. Slots - 1 : IsSlot(LogContent(Visible)[i])
    <3>1. \A i \in 1 .. Slots - 1 : LogContent(Visible)[i] = Read(Log(i))
      BY <1>inv, Zenon DEF LogContent, Visible, StoreInv
    <3>2. \A i \in 1 .. Slots - 1 : IsSlot(Read(Log(i)))
      BY <1>inv, Zenon DEF StoreInv, Stored, Read
    <3> QED
      BY <3>1, <3>2, Zenon
  <2>3. r.start \in Offset /\ r.end \in Offset
    BY <2>1, <2>2, <1>facts, Zenon
  <2>4. StoreInv' /\ device' = device
    BY <1>store, <2>0, Zenon DEF storage
  <2> HIDE DEF h, r
  <2>5. CASE Mounted(FsContent(Visible), r.start, h.seq)
    <3>1. /\ mode' = "mounted" /\ jhdr' = [start |-> r.start, end |-> r.start]
          /\ active_start' = r.start /\ sequence_num' = h.seq /\ saved_sequence_num' = h.seq
      BY <2>5, Zenon DEF Mounted
    <3>2. /\ jhdr' \in [start : Offset, end : Offset] /\ jhdr'.start = active_start'
          /\ jhdr'.end = active_start' /\ active_start' \in Offset
      BY <2>3, <3>1, Zenon
    <3>3. mode \in {"down", "replay", "resync"} /\ sequence_num' \in Nat /\ saved_sequence_num' \in Nat
      BY <2>0, <2>1, <3>1, Zenon
    <3> QED
      BY <1>24, <2>0, <2>4, <3>1, <3>2, <3>3, Zenon
  <2>6. CASE /\ mode' = "replay" /\ jhdr' = [start |-> r.start, end |-> r.end]
             /\ sequence_num' = h.seq /\ UNCHANGED <<saved_sequence_num, active_start>>
    <3>1. jhdr' \in [start : Offset, end : Offset]
      BY <2>3, <2>6, Zenon
    <3>2. /\ mode \in {"down", "replay", "resync"} /\ mode' \in {"replay", "resync"}
          /\ sequence_num' \in Nat /\ saved_sequence_num' \in Nat /\ active_start' \in Offset
      BY <1>inv, <2>0, <2>1, <2>6, Zenon DEF TypeOK
    <3> QED
      BY <1>24, <2>0, <2>4, <3>1, <3>2, Zenon
  <2> QED
    BY <2>0, <2>5, <2>6, Zenon
<1>26. ASSUME NEW b, ReplayBlock(b) PROVE LogInv'
  <2>1. /\ PutFs(Fs(b), Data(co_buf[b])) /\ device' = device
        /\ UNCHANGED <<header, trs, flush, back, invalid, mode>>
    BY <1>26, Zenon DEF ReplayBlock, PutFs
  <2>2. StoreInv' /\ Read(Hdr)' = Read(Hdr)
    BY <1>fs, <2>1, Zenon
  <2> QED
    BY <1>type, <1>trs, <1>mode, <1>scan, <1>chain, <1>busy, <1>ring, <1>cover, <2>1, <2>2,
       Zenon DEF LogInv, header, trs, flush, back
<1>27. ASSUME ReplayHeader PROVE LogInv'
  <2>1. /\ PutJournal(Hdr, HdrValue(jhdr, sequence_num)) /\ device' = device
        /\ mode = "replay" /\ mode' = "resync"
        /\ UNCHANGED <<header, trs, flush, back, invalid>>
    BY <1>27, Zenon DEF ReplayHeader, PutJournal
  <2>2. StoreInv'
    <3>1. IsHdr(HdrValue(jhdr, sequence_num))
      BY <1>inv, <1>hdr, Zenon DEF TypeOK
    <3> QED
      BY <1>header, <2>1, <3>1, Zenon
  <2>3. /\ sequence_num' \in Nat /\ saved_sequence_num' \in Nat /\ active_start' \in Offset
        /\ jhdr' \in [start : Offset, end : Offset]
    BY <1>inv, <2>1, Zenon DEF TypeOK, header
  <2>4. mode \in {"down", "replay", "resync"} /\ mode' \in {"replay", "resync"}
    BY <2>1, Zenon
  <2> QED
    BY <1>24, <2>1, <2>2, <2>3, <2>4, Zenon DEF header, trs
<1>28. ASSUME ReplayDone PROVE LogInv'
  <2>1. /\ disk' = Synced /\ cache' = SyncedCache /\ device' = device /\ mode = "resync"
        /\ Mounted(FsContent(Visible), jhdr.start, sequence_num)
        /\ UNCHANGED <<old_start, completed_trs, active_tr, cur_tr, flush, back, invalid>>
    BY <1>28, Zenon DEF ReplayDone
  <2>2. StoreInv'
    BY <1>sync, <2>1, Zenon
  <2>3. /\ mode' = "mounted" /\ jhdr' = [start |-> jhdr.start, end |-> jhdr.start]
        /\ active_start' = jhdr.start /\ sequence_num' = sequence_num
        /\ saved_sequence_num' = sequence_num
    BY <2>1, Zenon DEF Mounted
  <2>4. /\ jhdr' \in [start : Offset, end : Offset] /\ jhdr'.start = active_start'
        /\ jhdr'.end = active_start' /\ active_start' \in Offset
    BY <1>jhdr, <2>3, Zenon
  <2>5. /\ mode \in {"down", "replay", "resync"}
        /\ sequence_num' \in Nat /\ saved_sequence_num' \in Nat
    BY <1>inv, <2>1, <2>3, Zenon DEF TypeOK
  <2> QED
    BY <1>24, <2>1, <2>2, <2>3, <2>4, <2>5, Zenon
<1>29. ASSUME UNCHANGED vars PROVE LogInv'
  BY <1>type, <1>trs, <1>mode, <1>scan, <1>chain, <1>busy, <1>ring, <1>store, <1>cover, <1>29,
     Zenon DEF LogInv, vars, storage, header, trs, flush, back, boot
<1> QED
  BY <1>1, <1>2, <1>3, <1>4, <1>6, <1>7, <1>8, <1>9, <1>10, <1>11, <1>12, <1>13, <1>14, <1>15,
     <1>16, <1>17, <1>18, <1>19, <1>20, <1>21, <1>23, <1>25, <1>26, <1>27, <1>28, <1>29,
     <1>closefails, <1>closesync, <1>modfails, Zenon
     DEF Next, Client, Space, HeaderThread, Finish, HomeIO, Recovery, Environment,
         FinishFails, FinishAborts
=============================================================================
