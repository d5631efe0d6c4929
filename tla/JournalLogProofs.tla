-------------------------- MODULE JournalLogProofs --------------------------
(***************************************************************************)
(* Theorems about JournalLog: the offsets of the log stay within it, also  *)
(* those that replay_journal computes from the log; a busy old_start[]     *)
(* entry has an owner; space of the log is not given back early.           *)
(***************************************************************************)
EXTENDS JournalLogSteps, FiniteSetTheorems, WellFoundedInduction

\* A set that has 0 and, with every number, the next one, has all of them.
LEMMA SetInduction ==
    ASSUME NEW S, 0 \in S, \A n \in Nat : n \in S => n + 1 \in S
    PROVE  Nat \subseteq S
<1> SUFFICES ASSUME Nat \ S # {} PROVE FALSE
  OBVIOUS
<1>1. PICK x \in Nat \ S : \A y \in Nat \ S : <<y, x>> \notin OpToRel(<, Nat)
  BY NatLessThanWellFounded, WFMin
<1>2. x # 0 /\ x - 1 \in Nat \ S
  <2>1. x # 0
    OBVIOUS
  <2>2. x - 1 \in Nat /\ (x - 1) + 1 = x
    BY <2>1
  <2> QED
    BY <2>1, <2>2
<1>3. <<x - 1, x>> \in OpToRel(<, Nat)
  <2>1. <<x - 1, x>> \in Nat \X Nat /\ x - 1 < x
    BY <1>2
  <2> QED
    BY <2>1, Zenon DEF OpToRel
<1> QED
  BY <1>1, <1>2, <1>3

\* buffer_flushed_callback: a transaction that completes in its turn moves
\* active_start from its start to its end.
LEMMA AbsorbOne ==
    ASSUME NEW x, NEW y PROVE Absorb(x, {[from |-> x, to |-> y]}) = y
<1> DEFINE d == {[from |-> x, to |-> y]}
           F(to, n) == IF n = 0 THEN x
                       ELSE LET a == to[n - 1] IN
                            IF \E c \in d : c.from = a
                            THEN (CHOOSE c \in d : c.from = a).to
                            ELSE a
           G(to) == [n \in 0 .. Cardinality(d) |-> F(to, n)]
           to == CHOOSE to : to = G(to)
<1>1. Cardinality(d) = 1
  BY FS_Singleton
<1>2. Absorb(x, d) = to[Cardinality(d)]
  BY DEF Absorb
<1>3. (\E c \in d : c.from = x) /\ (CHOOSE c \in d : c.from = x).to = y
  <2>1. \A c \in d : c.from = x /\ c.to = y
    OBVIOUS
  <2>2. \E c \in d : c.from = x
    BY <2>1
  <2>3. (CHOOSE c \in d : c.from = x) \in d
    BY <2>2
  <2> QED
    BY <2>1, <2>2, <2>3
<1>4. \A f : f[0] = x => F(f, 1) = y
  BY <1>3
<1>5. \E f : f = G(f)
  <2> DEFINE f == [n \in 0 .. 1 |-> IF n = 0 THEN x ELSE y]
  <2>1. f[0] = x
    OBVIOUS
  <2>2. \A n \in 0 .. 1 : f[n] = F(f, n)
    BY <1>4, <2>1
  <2>3. f = [n \in 0 .. 1 |-> F(f, n)]
    BY <2>2 DEF f
  <2> HIDE DEF f, F
  <2> QED
    BY <1>1, <2>3
<1>6. to = G(to)
  <2> HIDE DEF G
  <2> QED
    BY <1>5
<1>7. to[0] = x /\ to[1] = F(to, 1)
  <2> HIDE DEF F, to
  <2>1. to[0] = F(to, 0) /\ to[1] = F(to, 1)
    BY <1>1, <1>6
  <2> QED
    BY <2>1 DEF F
<1> HIDE DEF F, to
<1> QED
  BY <1>1, <1>2, <1>4, <1>7

\* What finish_end_transaction writes to the log are slots that replay can step
\* over, if the transaction fits into the log.
LEMMA ImageSlots ==
    ASSUME NEW t, IsTr(t), Sized(t), t.total_bytes < Slots - 1
    PROVE  \A i \in 1 .. t.total_bytes : IsSlot(Image(t)[i])
<1> DEFINE N == Len(t.lists)
           B(n) == BlhdrImage(t, n)
           D(n) == DataImage(t, n)
           parts == [n \in DOMAIN t.lists |-> <<B(n)>> \o D(n)]
           C == {B(n) : n \in 1 .. N} \cup UNION {{D(n)[i] : i \in DOMAIN D(n)} : n \in 1 .. N}
           F(f, n) == IF n = 0 THEN << >> ELSE f[n - 1] \o parts[n]
           upto == CHOOSE upto : upto = [n \in 0 .. Len(parts) |-> F(upto, n)]
<1>1. t.lists \in Seq(Seq(Block \cup {Killed})) /\ t.total_bytes \in Nat
  BY DEF IsTr
<1>2. PICK p \in [0 .. N -> 0 .. t.total_bytes] :
         /\ p[0] = 0 /\ p[N] = t.total_bytes
         /\ \A n \in 1 .. N : p[n] = p[n - 1] + Len(t.lists[n]) + 1
  BY DEF Sized
<1>3. N \in Nat /\ N > 0 /\ DOMAIN t.lists = 1 .. N
  BY <1>1, <1>2 DEF Sized
<1> HIDE DEF N
<1>4. \A n \in 1 .. N : t.lists[n] \in Seq(Block \cup {Killed}) /\ Len(t.lists[n]) + 1 <= t.total_bytes
  <2>1. SUFFICES ASSUME NEW n \in 1 .. N
                 PROVE  t.lists[n] \in Seq(Block \cup {Killed}) /\ Len(t.lists[n]) + 1 <= t.total_bytes
    OBVIOUS
  <2>2. t.lists[n] \in Seq(Block \cup {Killed})
    BY <1>1, <1>3
  <2>3. p[n] \in 0 .. t.total_bytes /\ p[n - 1] \in 0 .. t.total_bytes
    BY <1>1, <1>2, <1>3
  <2>4. Len(t.lists[n]) \in Nat /\ p[n] = p[n - 1] + Len(t.lists[n]) + 1
    BY <1>2, <2>2
  <2> QED
    BY <1>1, <2>2, <2>3, <2>4, SMTT(30)
<1>5. \A n \in 1 .. N : IsSlot(B(n)) /\ \A i \in DOMAIN D(n) : IsSlot(D(n)[i])
  <2>1. SUFFICES ASSUME NEW n \in 1 .. N
                 PROVE  IsSlot(B(n)) /\ \A i \in DOMAIN D(n) : IsSlot(D(n)[i])
    OBVIOUS
  <2>2. Len(B(n).binfo) = Len(t.lists[n])
    BY <1>4 DEF BlhdrImage
  <2>3. IsSlot(B(n))
    <3>1. Len(t.lists[n]) \in Nat /\ Len(t.lists[n]) + 1 <= t.total_bytes
      BY <1>4
    <3>2. Len(B(n).binfo) \in 0 .. Slots - 3
      <4> HIDE DEF B
      <4> QED
        BY <1>1, <2>2, <3>1, SlotsAssumption
    <3> QED
      BY <3>2, Zenon DEF IsSlot
  <2>4. ASSUME NEW i \in DOMAIN D(n) PROVE D(n)[i].kind = "data"
    BY DEF DataImage, Data
  <2> QED
    BY <2>3, <2>4 DEF IsSlot
<1>6. \A c \in C : IsSlot(c)
  <2> HIDE DEF B, D
  <2> QED
    BY <1>5
<1>7. \A n \in 1 .. N : parts[n] \in Seq(C) /\ Len(parts[n]) = Len(t.lists[n]) + 1
  <2>1. SUFFICES ASSUME NEW n \in 1 .. N
                 PROVE  parts[n] \in Seq(C) /\ Len(parts[n]) = Len(t.lists[n]) + 1
    OBVIOUS
  <2>2. DOMAIN D(n) = 1 .. Len(t.lists[n]) /\ Len(t.lists[n]) \in Nat
    BY <1>4 DEF DataImage
  <2>3. \A i \in DOMAIN D(n) : D(n)[i] \in C
    OBVIOUS
  <2>4. D(n) = [i \in 1 .. Len(t.lists[n]) |-> D(n)[i]]
    BY <2>2 DEF DataImage
  <2> HIDE DEF D, B
  <2>5. D(n) \in Seq(C) /\ Len(D(n)) = Len(t.lists[n])
    <3> HIDE DEF C
    <3> QED
      BY <2>2, <2>3, <2>4
  <2>6. B(n) \in C
    OBVIOUS
  <2>7. parts[n] = <<B(n)>> \o D(n)
    BY <1>3
  <2> HIDE DEF C, parts
  <2> QED
    BY <2>2, <2>5, <2>6, <2>7
<1>8. Len(parts) = N /\ parts \in Seq(Seq(C))
  <2> HIDE DEF C
  <2>1. parts = [n \in 1 .. N |-> parts[n]]
    BY <1>3
  <2> HIDE DEF parts
  <2>2. parts \in [1 .. N -> Seq(C)]
    BY <1>7, <2>1
  <2> QED
    BY <1>3, <2>2
<1>concat. ASSUME NEW Q, NEW a \in Seq(Q), NEW b \in Seq(Q)
           PROVE  a \o b \in Seq(Q) /\ Len(a \o b) = Len(a) + Len(b)
  <2> HIDE DEF parts, C, B, D, F, upto
  <2> QED
    OBVIOUS
<1>9. Image(t) = upto[N]
  <2>1. Image(t) = Flatten(parts)
    BY DEF Image
  <2> HIDE DEF parts
  <2>2. Flatten(parts) = upto[Len(parts)]
    BY Zenon DEF Flatten
  <2> QED
    BY <1>8, <2>1, <2>2
<1> HIDE DEF parts, C, B, D
\* The recursive function exists.
<1>10. \E f : f = [i \in 0 .. N |-> F(f, i)]
  <2> DEFINE S == {n \in Nat : \E f : f = [i \in 0 .. n |-> F(f, i)]}
  <2>1. 0 \in S
    <3> DEFINE g == [i \in 0 .. 0 |-> << >>]
    <3>1. \A i \in 0 .. 0 : g[i] = F(g, i)
      OBVIOUS
    <3>2. g = [i \in 0 .. 0 |-> g[i]]
      OBVIOUS
    <3> HIDE DEF F, g
    <3> QED
      BY <3>1, <3>2
  <2>2. ASSUME NEW n \in Nat, n \in S PROVE n + 1 \in S
    <3>1. PICK f : f = [i \in 0 .. n |-> F(f, i)]
      BY <2>2
    <3> DEFINE g == [i \in 0 .. n + 1 |-> IF i = n + 1 THEN F(f, i) ELSE f[i]]
    <3>2. \A i \in 0 .. n + 1 : i # 0 => g[i - 1] = f[i - 1]
      OBVIOUS
    <3>3. \A i \in 0 .. n + 1 : F(g, i) = F(f, i)
      <4> HIDE DEF g
      <4> QED
        BY <3>2
    <3>4. \A i \in 0 .. n : f[i] = F(f, i)
      <4> HIDE DEF F
      <4> QED
        BY <3>1
    <3>5. \A i \in 0 .. n + 1 : g[i] = F(g, i)
      <4> HIDE DEF F
      <4> QED
        BY <3>3, <3>4
    <3>6. g = [i \in 0 .. n + 1 |-> F(g, i)]
      <4>1. g = [i \in 0 .. n + 1 |-> g[i]]
        OBVIOUS
      <4> HIDE DEF F, g
      <4> QED
        BY <3>5, <4>1
    <3> HIDE DEF F, g
    <3> QED
      BY <3>6
  <2> HIDE DEF S
  <2>3. N \in S
    BY <1>3, <2>1, <2>2, SetInduction
  <2> QED
    BY <2>3 DEF S
<1>11. upto = [i \in 0 .. N |-> F(upto, i)]
  <2> HIDE DEF F
  <2> QED
    BY <1>8, <1>10
<1> HIDE DEF upto
<1>12. \A i \in 0 .. N : upto[i] = F(upto, i)
  <2> HIDE DEF F
  <2> QED
    BY <1>11
\* Its values are sequences of slots, of the length that p counts.
<1>13. upto[N] \in Seq(C) /\ Len(upto[N]) = p[N]
  <2> DEFINE S == {n \in Nat : n \in 0 .. N => upto[n] \in Seq(C) /\ Len(upto[n]) = p[n]}
  <2>1. 0 \in S
    <3>1. upto[0] = << >>
      BY <1>3, <1>12
    <3>2. << >> \in Seq(C) /\ Len(<< >>) = 0
      OBVIOUS
    <3>3. upto[0] \in Seq(C) /\ Len(upto[0]) = p[0]
      BY <1>2, <3>1, <3>2, Zenon
    <3> HIDE DEF F
    <3> QED
      BY <3>3
  <2>2. ASSUME NEW n \in Nat, n \in S PROVE n + 1 \in S
    <3>1. SUFFICES ASSUME n + 1 \in 0 .. N
                   PROVE  upto[n + 1] \in Seq(C) /\ Len(upto[n + 1]) = p[n + 1]
      OBVIOUS
    <3>2. parts[n + 1] \in Seq(C) /\ Len(parts[n + 1]) = Len(t.lists[n + 1]) + 1
      BY <1>7, <3>1
    <3>3. p[n + 1] = p[n] + Len(t.lists[n + 1]) + 1 /\ p[n] \in Nat
      BY <1>1, <1>2, <1>3, <3>1
    <3>4. Len(t.lists[n + 1]) \in Nat
      BY <1>4, <3>1
    <3>5. upto[n + 1] = upto[n] \o parts[n + 1]
      <4>1. upto[n + 1] = F(upto, n + 1)
        BY <1>12, <3>1
      <4>2. n + 1 # 0 /\ (n + 1) - 1 = n
        OBVIOUS
      <4> QED
        BY <4>1, <4>2
    <3>6. upto[n] \in Seq(C) /\ Len(upto[n]) = p[n]
      BY <1>3, <2>2, <3>1
    <3>7. upto[n + 1] \in Seq(C) /\ Len(upto[n + 1]) = Len(upto[n]) + Len(parts[n + 1])
      BY <1>concat, <3>2, <3>5, <3>6, Zenon
    <3> QED
      BY <3>2, <3>3, <3>4, <3>6, <3>7
  <2> HIDE DEF S
  <2>3. N \in S
    BY <1>3, <2>1, <2>2, SetInduction
  <2> QED
    BY <1>3, <2>3 DEF S
<1>14. \A i \in 1 .. t.total_bytes : Image(t)[i] \in C
  BY <1>1, <1>2, <1>9, <1>13
<1> QED
  BY <1>6, <1>14

\* replay_journal keeps its offsets within the log, whatever it finds there.
LEMMA ReplayRange ==
    ASSUME NEW h, IsHdr(h), NEW lg, \A i \in 1 .. Slots - 1 : IsSlot(lg[i])
    PROVE  Replay(h, lg).start \in Offset /\ Replay(h, lg).end \in Offset
<1> USE SlotsAssumption
<1> DEFINE P == 1 .. Slots - 1
           IsScan(s) == s \in [start : P, end : P, orig : P, past : {s.past},
                               uncharted : {s.uncharted}, last : {s.last}, txn : P \cup {0},
                               retry : {s.retry}, co : {s.co}, st : {s.st}]
           N == 4 * Slots + 4
           F(f, n) == IF n = 0 THEN ReplayInit(h)
                      ELSE CHOOSE t \in {ReplayStep(s, lg) : s \in {f[n - 1]}} : TRUE
           run == CHOOSE run : run = [n \in 0 .. N |-> F(run, n)]
<1>1. Replay(h, lg) = run[N]
  BY DEF Replay
<1>2. N \in Nat
  OBVIOUS
<1> HIDE DEF N
\* The recursive function exists.
<1>3. \E f : f = [n \in 0 .. N |-> F(f, n)]
  <2> DEFINE S == {m \in Nat : \E f : f = [n \in 0 .. m |-> F(f, n)]}
  <2>1. 0 \in S
    <3> DEFINE f == [n \in 0 .. 0 |-> ReplayInit(h)]
    <3>1. f = [n \in 0 .. 0 |-> F(f, n)]
      <4>1. \A n \in 0 .. 0 : ReplayInit(h) = F(f, n)
        OBVIOUS
      <4> HIDE DEF F
      <4> QED
        BY <4>1
    <3> HIDE DEF F, f
    <3> QED
      BY <3>1
  <2>2. ASSUME NEW m \in Nat, m \in S PROVE m + 1 \in S
    <3>1. PICK f : f = [n \in 0 .. m |-> F(f, n)]
      BY <2>2
    <3> DEFINE g == [n \in 0 .. m + 1 |-> IF n = m + 1 THEN F(f, n) ELSE f[n]]
    <3>2. \A n \in 0 .. m + 1 : n # 0 => g[n - 1] = f[n - 1]
      OBVIOUS
    <3>3. \A n \in 0 .. m + 1 : F(g, n) = F(f, n)
      <4> HIDE DEF g
      <4> QED
        BY <3>2, Zenon
    <3>4. \A n \in 0 .. m : f[n] = F(f, n)
      <4> HIDE DEF F
      <4> QED
        BY <3>1
    <3>5. \A n \in 0 .. m + 1 : g[n] = F(g, n)
      <4> HIDE DEF F
      <4> QED
        BY <3>3, <3>4
    <3>6. g = [n \in 0 .. m + 1 |-> F(g, n)]
      <4>1. g = [n \in 0 .. m + 1 |-> g[n]]
        OBVIOUS
      <4> HIDE DEF F, g
      <4> QED
        BY <3>5, <4>1
    <3> HIDE DEF F, g
    <3> QED
      BY <3>6
  <2> HIDE DEF S
  <2>3. N \in S
    BY <1>2, <2>1, <2>2, SetInduction
  <2> QED
    BY <2>3 DEF S
<1>4. run = [n \in 0 .. N |-> F(run, n)]
  <2> HIDE DEF F
  <2> QED
    BY <1>3
<1> HIDE DEF run
<1>5. run[0] = ReplayInit(h) /\ \A n \in 0 .. N : n # 0 => run[n] = ReplayStep(run[n - 1], lg)
  <2>1. \A n \in 0 .. N : run[n] = F(run, n)
    <3> HIDE DEF F
    <3> QED
      BY <1>4
  <2>2. \A x : (CHOOSE t \in {ReplayStep(s, lg) : s \in {x}} : TRUE) = ReplayStep(x, lg)
    BY Zenon
  <2>3. 0 \in 0 .. N
    BY <1>2
  <2> QED
    BY <2>1, <2>2, <2>3, Zenon
<1>6. IsScan(ReplayInit(h))
  BY DEF IsHdr, ReplayInit, Offset
<1>7. ASSUME NEW s, IsScan(s) PROVE IsScan(BadTxn(s))
  BY <1>7 DEF BadTxn
<1>8. ASSUME NEW s, IsScan(s), lg[s.start].kind = "blhdr" PROVE IsScan(ReplayBlhdr(s, lg))
  <2> DEFINE b == lg[s.start]
             t == IF b.first THEN [s EXCEPT !.txn = s.start, !.last = b.seq]
                  ELSE [s EXCEPT !.last = b.seq]
             next == Wrap(s.start + Len(b.binfo) + 1)
  <2>1. s.start \in P
    BY <1>8
  <2>2. Len(b.binfo) \in 0 .. Slots - 3
    BY <1>8, <2>1 DEF IsSlot
  <2>3. next \in P
    <3>1. ASSUME NEW a \in Nat, Slots <= a, a < Slots + Slots PROVE a % Slots = a - Slots
      <4> HIDE DEF b, t, next, IsScan
      <4> QED
        BY <3>1, SMTT(30)
    <3>2. ASSUME NEW a \in Nat, a > 0, a < Slots + Slots - 1 PROVE Wrap(a) \in P
      <4> HIDE DEF b, t, next, IsScan
      <4>1. a >= Slots => a % Slots = a - Slots
        BY <3>1, <3>2
      <4> QED
        BY <3>2, <4>1 DEF Wrap
    <3> HIDE DEF b
    <3>3. s.start + Len(b.binfo) + 1 \in Nat /\ s.start + Len(b.binfo) + 1 > 0
          /\ s.start + Len(b.binfo) + 1 < Slots + Slots - 1
      BY <2>1, <2>2
    <3> QED
      BY <3>2, <3>3
  <2>4. IsScan(t)
    BY <1>8
  <2>5. IsScan(BadTxn(t))
    BY <1>7, <2>4
  <2>6. ASSUME NEW u, NEW c PROVE IsScan([t EXCEPT !.start = next, !.uncharted = u, !.co = c])
    <3> HIDE DEF t, next
    <3> QED
      BY <2>3, <2>4
  <2> HIDE DEF t, next, IsScan
  <2> QED
    BY <2>5, <2>6 DEF ReplayBlhdr, t, next
<1>9. ASSUME NEW s, IsScan(s) PROVE IsScan(ReplayStep(s, lg))
  <2> DEFINE t == [s EXCEPT !.txn = s.start, !.end = s.start]
  <2>1. IsScan([s EXCEPT !.st = "ok"]) /\ IsScan([s EXCEPT !.st = "fail"])
    BY <1>9
  <2>2. IsScan([s EXCEPT !.past = FALSE, !.end = s.start])
    BY <1>9
  <2>3. IsScan(t)
    BY <1>9
  <2>4. IsScan([t EXCEPT !.past = FALSE])
    <3> HIDE DEF t
    <3> QED
      BY <2>3
  <2>5. IsScan(BadTxn(s)) /\ IsScan(BadTxn(t))
    BY <1>7, <1>9, <2>3
  <2> HIDE DEF IsScan
  <2> QED
    BY <1>8, <1>9, <2>1, <2>2, <2>4, <2>5, Zenon DEF ReplayStep, t
<1>10. IsScan(run[N])
  <2> DEFINE S == {n \in Nat : n \in 0 .. N => IsScan(run[n])}
  <2> HIDE DEF IsScan
  <2>1. 0 \in S
    BY <1>5, <1>6
  <2>2. ASSUME NEW n \in Nat, n \in S PROVE n + 1 \in S
    <3>1. SUFFICES ASSUME n + 1 \in 0 .. N PROVE IsScan(run[n + 1])
      OBVIOUS
    <3>2. n \in 0 .. N /\ n + 1 # 0 /\ (n + 1) - 1 = n
      BY <1>2, <3>1
    <3>3. run[n + 1] = ReplayStep(run[n], lg)
      BY <1>5, <3>1, <3>2
    <3> QED
      BY <1>9, <2>2, <3>2, <3>3
  <2> HIDE DEF S
  <2>3. N \in S
    BY <1>2, <2>1, <2>2, SetInduction
  <2> QED
    BY <1>2, <2>3 DEF S
<1> QED
  BY <1>1, <1>10 DEF Offset

-----------------------------------------------------------------------------
(* The theorems.  Every transaction that is flushed has a block to write: one  *)
(* with all its blocks killed leaves its old_start[] entry busy.               *)

\* The log, its header and old_start[] stay consistent along every operation of the journal,
\* I/O errors, crashes and replay included.
THEOREM LogConsistent == ASSUME AllKilledTrs = FALSE PROVE Spec => []LogInv
<1>1. Init => LogInv
  <2> USE SlotsAssumption, OldStartsAssumption
  <2>1. SUFFICES ASSUME Init PROVE LogInv
    OBVIOUS
  <2>2. /\ active_tr = NoTr /\ cur_tr = NoTr /\ fl = NoTr /\ home = NoTr /\ fpc = "idle"
        /\ scan = [i |-> 0, empty |-> TRUE] /\ hdr_thread = "idle" /\ todo = {}
        /\ ~invalid /\ mode = "mounted" /\ completed_trs = {} /\ device \in Devices
        /\ jhdr = [start |-> 1, end |-> 1] /\ active_start = 1
        /\ old_start = [i \in 1 .. OldStarts |-> [at |-> 0, busy |-> FALSE]]
        /\ sequence_num = 1 /\ saved_sequence_num = 1 /\ cache = << >> /\ invalid \in BOOLEAN
    BY <2>1, Zenon DEF Init
  <2>3. 1 \in Offset /\ 0 \in Nat /\ 1 \in Nat
    BY DEF Offset
  <2>4. \A i \in 1 .. OldStarts : old_start[i] = [at |-> 0, busy |-> FALSE]
    BY <2>2
  <2>5. TypeOK
    <3>1. old_start \in [1 .. OldStarts -> [at : Offset \cup {0}, busy : BOOLEAN]]
      BY <2>2
    <3>2. jhdr \in [start : Offset, end : Offset]
      BY <2>2, <2>3
    <3> QED
      BY <2>2, <2>3, <3>1, <3>2, DevicesAssumption DEF TypeOK
  <2>6. TrInv
    <3>1. IsTr(NoTr)
      BY DEF IsTr, NoTr
    <3> QED
      BY <2>2, <3>1 DEF TrInv
  <2>7. ModeInv /\ ScanInv
    BY <2>2 DEF ModeInv, ScanInv
  <2>8. ChainInv
    BY <2>2 DEF ChainInv, Ahead
  <2>9. BusyInv
    BY <2>2, <2>4 DEF BusyInv
  <2>10. RingInv
    <3>1. used = 0
      BY <2>2 DEF used, Dist
    <3> QED
      BY <2>2, <2>4, <3>1 DEF RingInv
  <2>11. HomeCovered
    BY <2>2 DEF HomeCovered
  <2>12. StoreInv
    <3> DEFINE h == HdrValue([start |-> 1, end |-> 1], 1)
               L == {Hdr} \cup {Log(i) : i \in 1 .. Slots - 1} \cup {Fs(b) : b \in Block}
    <3>1. IsHdr(h) /\ IsSlot(Blank)
      BY <2>3 DEF HdrValue, IsHdr, IsSlot, Blank
    <3>2. disk = [l \in L |-> IF l = Hdr THEN h ELSE IF l[1] = "log" THEN Blank ELSE Data(0)]
      BY <2>1, Zenon DEF Init
    <3>3. \A i : Log(i) # Hdr /\ Log(i)[1] = "log"
      BY DEF Log, Hdr
    <3> HIDE DEF h
    <3>4. /\ Hdr \in DOMAIN disk /\ disk[Hdr] = h
          /\ \A i \in 1 .. Slots - 1 : Log(i) \in DOMAIN disk /\ disk[Log(i)] = Blank
      BY <3>2, <3>3, Zenon
    <3>5. DOMAIN cache = {}
      BY <2>2
    <3> QED
      BY <3>1, <3>4, <3>5, Zenon DEF StoreInv, Stored
  <2> QED
    BY <2>5, <2>6, <2>7, <2>8, <2>9, <2>10, <2>11, <2>12, Zenon DEF LogInv
<1>2. LogFacts
  <2>1. \A x, y : Absorb(x, {[from |-> x, to |-> y]}) = y
    BY AbsorbOne, Zenon
  <2>2. \A t : IsTr(t) /\ Sized(t) /\ t.total_bytes < Slots - 1 =>
            \A i \in 1 .. t.total_bytes : IsSlot(Image(t)[i])
    BY ImageSlots, Zenon
  <2>3. \A h, lg : IsHdr(h) /\ (\A i \in 1 .. Slots - 1 : IsSlot(lg[i])) =>
            Replay(h, lg).start \in Offset /\ Replay(h, lg).end \in Offset
    BY ReplayRange, Zenon
  <2> QED
    BY <2>1, <2>2, <2>3, Zenon DEF LogFacts
<1>3. LogInv /\ [Next]_vars => LogInv'
  BY <1>2, LogStep, Zenon
<1> QED
  BY <1>1, <1>3, PTL DEF Spec

\* The offsets of the log stay within the journal, the range that do_journal_io and
\* end_transaction panic outside of: after any number of flushes around the log, and after
\* a replay of whatever a crash left in it.
THEOREM OffsetsInRange == ASSUME AllKilledTrs = FALSE PROVE Spec => []TypeOK
<1>1. LogInv => TypeOK
  BY Zenon DEF LogInv
<1> QED
  BY <1>1, LogConsistent, PTL

\* Nobody waits in check_free_space for an old_start[] entry that no flush will release: a busy
\* entry is that of the transaction being flushed or of the one being written home.
THEOREM OldStartsOwned == ASSUME AllKilledTrs = FALSE PROVE Spec => []OldStartOwned
<1>1. LogInv => OldStartOwned
  <2>1. SUFFICES ASSUME LogInv, NEW i \in 1 .. OldStarts, old_start[i].busy, ~invalid
                 PROVE  old_start[i].at \in {home.journal_start,
                           IF fpc \in {"log", "issue"} THEN fl.journal_start ELSE 0}
    BY Zenon DEF OldStartOwned
  <2>2. \/ old_start[i].at = home.journal_start
        \/ fpc \in {"log", "issue"} /\ i = OldStarts
    BY <2>1, Zenon DEF LogInv, BusyInv
  <2>3. fpc \in {"log", "issue"} => old_start[OldStarts].at = fl.journal_start
    BY <2>1 DEF LogInv, BusyInv
  <2> QED
    BY <2>2, <2>3
<1> QED
  BY <1>1, LogConsistent, PTL

\* The space of the log is given back only when the blocks in it are home: as long as a
\* committed transaction has home writes outstanding, the journal header as it was last
\* written covers it.
THEOREM LogSpaceKept == ASSUME AllKilledTrs = FALSE PROVE Spec => []HomeCovered
<1>1. LogInv => HomeCovered
  BY Zenon DEF LogInv
<1> QED
  BY <1>1, LogConsistent, PTL
=============================================================================
