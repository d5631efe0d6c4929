----------------------------- MODULE JournalAbs -----------------------------
(***************************************************************************)
(* What the journal promises the file system: the volume a crash would      *)
(* leave behind (after replay) changes by one whole transaction at a time,  *)
(* in the order the transactions were flushed.  A transaction that has not  *)
(* become durable may be lost, never half applied.                          *)
(***************************************************************************)
EXTENDS Sequences

CONSTANTS Block, Content

VARIABLES
    store,   \* the volume as a crash at this instant would leave it
    queue    \* transactions accepted and not durable yet, oldest first

\* A transaction: new content for some of the blocks.
Update == UNION {[bs -> Content] : bs \in SUBSET Block}

Apply(vol, u) == [b \in Block |-> IF b \in DOMAIN u THEN u[b] ELSE vol[b]]

Init == store \in [Block -> Content] /\ queue = << >>

Submit  == \E u \in Update : queue' = Append(queue, u) /\ UNCHANGED store
Persist == queue # << >> /\ store' = Apply(store, Head(queue)) /\ queue' = Tail(queue)
Lose    == queue' = << >> /\ UNCHANGED store

Next == Submit \/ Persist \/ Lose

Spec == Init /\ [][Next]_<<store, queue>>
=============================================================================
