# A TLA+ model of the HFS+ journal and the global lock

This directory models the HFS+ file system of this repository, starting with
what everything else rests on: the metadata journal (`core/hfs_journal.c`) and
the lock, transactions and freezes of the file system above it
(`core/hfs_vfsutils.c`, `core/hfs_vfsops.c`). It holds TLA+ modules translated
from the source, TLC configurations that check them on small instances, and TLAPS
proofs for instances of any size.
`PROJECT.json` is the index: components, runs, theorems, hazards, and for every
definition the source lines it stands for.

## The system and its parts

| part | source | here |
|---|---|---|
| journal: log, header, write-back, replay | `core/hfs_journal.c` | `JournalLog`, `JournalLogRef`, `JournalAbs`; `JournalLogSteps`, `JournalLogProofs` |
| journal: lock, conditions, threads, errors | `core/hfs_journal.c` | `JournalLocks`; `JournalLocksProofs`, `JournalLocksFlush` |
| journal: trim lists; coalesce buffer of replay | `core/hfs_journal.c` 3078-3740; 883-1158 | planned |
| transactions of the file system, global lock, freeze and thaw, read-only changes | `core/hfs_vfsutils.c`, `hfs_vfsops.c` | `GlobalLock`; `GlobalLockFacts`, `-Kept`, `-Steps`, `-Proofs` |
| block allocator: bitmap, summary table, free extent cache, reservations | `core/VolumeAllocation.c` | planned |
| fork extents, range lists | `core/FileExtentMapping.c`, `hfs_extents.c`, `rangelist.c` | planned |
| B-trees and node reserve | `core/BTree*.c`, `hfs_btreeio.c` | planned |
| cnodes, cnode hash, hard links | `core/hfs_cnode.c`, `hfs_chash.c`, `hfs_link.c` | planned |
| resize, hot files | `core/hfs_resize.c`, `hfs_hotfiles.c` | after the allocator |
| catalog, vnode operations, xattrs, mount, quota, content protection | `core/` | not modelled: mostly formats, or state owned by the kernel |
| user space port of the driver | `livefiles_hfs_plugin/` | not modelled: same algorithms, the journal first to compare |
| fsck, newfs, mount and other tools, encodings | other directories | not modelled: sequential I/O, tables |

The file system brackets every metadata change in `journal_start_transaction`
and `journal_end_transaction`. Between the two, changed blocks stay locked in
memory. A small transaction is kept in `cur_tr` and joined by the next one (group
commit). Otherwise `end_transaction` makes room in the circular log
(`check_free_space`), and `finish_end_transaction`, in the caller or in a thread
of its own, writes the blocks to the log, then the header, then starts the
ordinary writes of the blocks to their home locations. When the last of them
completes, `buffer_flushed_callback` gives the log space back. After a crash
`journal_open` replays the log.

The file system reaches the journal through `hfs_start_transaction`, which takes
the global lock shared and then the journal lock. `hfs_freeze`, `hfs_mount` (to
read-only and back) and `hfs_sysctl` (enable or disable the journal) take the
global lock exclusive to get the volume quiet.

## Modules

**`JournalLog`**, the data plane. One action per step that touches the device or
the header. A slot is `jhdr_size` bytes; slot 0 is the header, the rest the
circular log. A block's content is the number of the transaction that wrote it,
so "which transactions are on the volume" can be read off. The offset arithmetic
is that of the source: `do_journal_io` leaves an offset equal to the size at the
end and wraps it at the next transfer, `free_space` has its three cases,
`old_start[]` its busy bit. `ReplayStep` is one round of the loop of
`replay_journal`, including the replay past the recorded end, the test of
sequence numbers and checksums, and the retry up to the last good transaction.
The device is `"through"` (writes are stable at once), `"cache"` (a volatile cache
that destages in any order and is emptied by a flush) or `"fua"` (a cache that
journal writes bypass). `journal_close` is four steps: the header (or its failing),
the flush of the device, the wait for the home writes, the end. `txns`, `committed`, `nextid` and `base` are history.

**`JournalAbs`**, what the journal promises: the volume a crash would leave
changes by one whole transaction at a time, in order. **`JournalLogRef`** maps
`JournalLog` to it: `store` is what replay makes of the disk, and the queue is the
transaction being written. **`MCJournalLog`** and **`MCJournalCache`** (of
`JournalLog` itself) add the symmetry of blocks.

**`JournalLocks`**, the control plane. `pc[t]` is where a client thread is inside
the journal's entry points, `fin` is the run of `finish_end_transaction` and who
runs it, `io_tr` the transaction being written home. `owner`, `nested_count`,
`active_tr`, `cur_tr`, the conditions `flushing`, `asyncIO`, `writing_header` and
the flags are the fields of the same names. `leaving` says that a
`finish_end_thread` or a `buffer_flushed_callback` has given its condition back and
is still on its way out, where it touches the journal once more. `must` and `written`/`home` are
history. `scenario` fixes what may happen in a behaviour: I/O errors, relocation,
close.

**`GlobalLock`**, the layer above. It models `hfs_lock_global` and
`hfs_unlock_global`, `hfs_start_transaction` and `hfs_end_transaction` with
nesting, `hfs_flush`, `hfs_journal_lock` and `hfs_journal_unlock` around a scan,
`hfs_freeze`, `hfs_thaw` and the thaw when the freezing process exits, `hfs_sync`
with its count of syncers, `hfs_mount` to read-only and back, the transaction and
the clean bit of `hfs_flushvolumeheader`, and `hfs_sysctl` enabling and disabling
the journal. `readers`, `writer` and `want` are the kernel's reader-writer lock;
`hfs_mutex` only makes single steps atomic; of the journal only its owner is kept.
`pc` and `frame` are the place and the locals of a thread, and `updater`, `exiting`
and `panic` record who changes the mount, who is exiting and whether an assertion
fired. `scenario` fixes which calls a behaviour has.

**Proof modules.** `JournalLogSteps` has the inductive invariant of the log and
its step lemma, `JournalLogProofs` the lemmas about the operators and the
theorems. `JournalLocksProofs` and `JournalLocksFlush` are about `JournalLocks`,
the four `GlobalLock...` modules about `GlobalLock`.

A definition `X_Y` is `X` with a plausible slip in it, kept to show that a
property notices; no specification uses it.

The two planes of the journal share the actions' order but not their state: `JournalLog` has no
threads (whoever runs has the lock), `JournalLocks` no log. The step from
`"bad_journal"` to `JOURNAL_INVALID` is one step in the first and two in the
second, where the gap between them matters. `GlobalLock` takes of the journal
what its callers wait for: its lock, and a `journal_flush` that needs it.

## Runs

| run | checks | states | shows |
|---|---|---|---|
| `journal_log` | `TypeOK` `Recoverable` `OldStartOwned` `AtomicTransactions` | 246,263 | on a write-through device a crash at any point, also in replay, leaves whole transactions, in order, none committed lost |
| `journal_cached` | `LogIntact` `HomeCovered` | 1,700,209 | with a write cache the stable header covers only an intact log; space is not given back early |
| `journal_full` | `SpaceFound` `FlushCompletes` | 82,864 | in a log that two transactions fill, `check_free_space` and a flush end |
| `journal_locks` | `TypeOK` `NoPanic` `OnePlace` `FlushKept` `NoSelfWait` `CloseQuiet` `CondsOwned` `HolderProgress` `FlushEnds` | 168,424 | no consistency panic, no transaction freed twice or lost, `journal_flush` keeps its promise, no deadlock |
| `global_lock` | `TypeOK` `FrozenQuiet` `SyncsDrained` `TxOwner` `NoSelfLock` `DowngradeBlocks` `JournalStable` `FreezeEnds` `FreezeWakes` `ExitThaws` | 92,268 | a frozen volume is quiet, every transaction has its owner, the journal is opened and closed only under the exclusive lock, freezes end and waiters are woken |

Seven runs end in a counterexample. Each holds the code against a statement in
its own comments:

* `torn_replay`: replay past the recorded end takes block list headers one at a
  time. A transaction with two of them, torn by a crash, is half applied.
* `stale_sequence`: after such a replay the sequence number is not moved past the
  transactions found, so it is handed out again. If the new transactions end
  exactly where an old one starts, the old one follows with a matching number and
  is replayed. `journal_create` describes this danger and overwrites the log;
  `journal_open` does not. It takes an exact coincidence of offsets (here a log
  of 7 slots), which is why the passing run uses 8.
* `home_before_journal`: on a write-cached device without FUA nothing makes the
  commit header stable before the home writes.
* `flush_empty`: with an empty buffered transaction `journal_flush` returns
  without waiting for the flush in progress.
* `relock_deadlock`: the error path of `finish_end_transaction` takes the journal
  lock, which its caller `journal_relocate` (or `journal_close`) still holds.
* `scan_freeze`: a scan keeps the journal lock (`hfs_journal_lock`) while the
  freeze keeps it out of the global lock, and the `journal_flush` of `hfs_freeze`
  waits for the journal lock (`hfs_vfsutils.c`, line 3801).
* `upgrade_header`: `hfs_mount` flushes the volume header before it clears
  `HFS_READ_ONLY`, and so the header is not written.

**Bounds.** Two blocks are needed for a transaction to be torn. Three
transactions let one be home, one be in flight and one run. Two `old_start[]`
entries (16 in the code) make the array fill up and `check_free_space` scan it. 8
slots make the log wrap within three transactions of at most two blocks. In 6
slots, with one or two blocks each (`journal_cached`, `journal_full`), two
transactions fill the log, and the scan of `check_free_space` also comes to its end
without having found room. `journal_full` has no crash and no write
cache, neither of which the waiting depends on. One crash or remount per behaviour, plus any number of
crashes during replay. In the passing runs a block list header holds a whole
transaction (`BlhdrMax` = 3), because of `torn_replay`. Transactions never
complete out of order, whatever the bounds: `asyncIO` admits one on its way home,
so the merging in `completed_trs` is modelled but has nothing to merge. In `JournalLocks`, two threads, two transactions
and two levels of nesting give every pair of positions of two threads and the
finisher. Errors are not combined with relocation or close in the passing run,
because of `relock_deadlock`, and because `journal_close` does not wait for
`writing_header` (below). In `GlobalLock`, two threads and two levels of
nesting; each of the five scenarios brings together the calls that wait for each
other, and scans are not combined with freezes because of `scan_freeze`. In the
runs of `JournalLog` deadlock is not checked: the bounds on transactions stop the
behaviour. `Quiet` is the
stuttering of a `JournalLocks` where all threads are outside.

**Fairness.** Weak fairness of the journal's own steps: the kernel schedules its
threads, an I/O completes, a lock or condition that is free is granted to a
waiter. Nothing is assumed of callers: a thread may stay inside its transaction
forever, and no call, error or crash is ever required. `HolderProgress` and
`FlushEnds` need no more than that. In `GlobalLock` it is weak fairness of every
step a thread takes inside a call, and strong fairness of the end of an outermost
transaction: a caller does not nest transactions for ever. Nobody is
obliged to call anything, to thaw, to exit or to interrupt a freeze.

## Proofs

TLAPS proves the following for every value of the constants. All safety
properties of the passing runs are proved, but for three about what replay
recovers (below).

**The log** (`JournalLogProofs`): any number of blocks and transactions, any size
of the log, of `old_start[]` and of a block list header, any device; from
`BlockAssumption`, `SlotsAssumption`, `OldStartsAssumption`, `BlhdrMaxAssumption`
and `DevicesAssumption`. Each theorem assumes `AllKilledTrs = FALSE`, the setting
of the runs: a transaction with every block killed would leave its busy bit set.

* `OffsetsInRange`: `Spec => []TypeOK`
* `OldStartsOwned`: `Spec => []OldStartOwned`
* `LogSpaceKept`: `Spec => []HomeCovered`
* `LogConsistent`: `Spec => []LogInv`, from which the three follow

None of the three is inductive. That space is not given back early depends on
where each transaction lies in the ring. So `LogInv` adds `TrInv` (`total_bytes` is
the room the headers and blocks take, and a flushed transaction has a live block),
`ChainInv` (the transactions going home lie one after another, from
`active_start` to the end), `BusyInv` (a busy `old_start[]` entry is that of the
transaction going home or, as the last one, of the one being flushed), `RingInv`
(the `old_start[]` entries are in log order within the used space, and one slot
stays free), `StoreInv` (header and slots, on the disk and in the cache, are well
formed), `ScanInv` (where the scan of `check_free_space` is) and `ModeInv` (what is
at rest when the journal is closing, down or in replay). An invalid journal is not
at rest: a failed `journal_modify_block_end` or header write sets `JOURNAL_INVALID`
while a flush goes on, so `RingInv` keeps the room of that flush also then. `LogStep` has one step per
action. TLC checked `LogInv` first, on the three kinds of device (81,356 states).

Two facts in it are about recursive functions: what `Image` lays out in the log is
a sequence of slots that replay can step over (`ImageSlots`), and the offsets that
replay computes are in range whatever the log contains (`ReplayRange`). TLAPS cannot
use the library's induction theorems, which have an operator as parameter.
`SetInduction` states induction over the set of numbers with a property, derived
from the well-founded order on `Nat`, and needs none. `LogFacts` collects these
facts for `JournalLogSteps`, which uses no theorem library: every obligation
carries all definitions in scope. For the same reason `Flatten` is the model's own.

**The threads** (`JournalLocksProofs`, `JournalLocksFlush`): any set of threads,
any number of transactions and nesting levels, any scenarios; from
`ThreadAssumption`, `BoundAssumption` and `ScenarioAssumption`.

* `TypeCorrect`: `Spec => []TypeOK`
* `PanicFree`: `Spec => []NoPanic`
* `ConditionsOwned`: `Spec => []CondsOwned`
* `FlushPromise`: `Spec => []FlushKept`
* `TransactionsOnce`: `Spec => []OnePlace`, if no scenario has errors together
  with relocation
* `CloseIsLast`: `Spec => []CloseQuiet`, if none has errors together with close.
  When the journal is freed no flush, home write or header write is under way and
  no condition is held. That no thread is still `leaving` is neither true nor
  claimed: see "What journal_close does not wait for".
* `CanInvalidate`: `Spec => []NoSelfWait`, if none has errors together with
  relocation or close; `relock_deadlock` shows that the hypothesis is needed.

The first three follow from one inductive invariant, `IndInv`. `NoPanic` is not
inductive. That the lock holder finds `active_tr` and `nested_count` as it should
depends on which call it is in (`Nesting`, `ActiveTr`, `CurTr`, `Calls`), on its
having a transaction to flush (`Carried`), on a thread waiting for
`finish_end_transaction` exactly while that runs for it (`Finishing`), and on
`flushing` having one owner (`OneFlush`, `CondsOwned`). The others add to it:
`ErrorInv` (a flush fails only where errors happen), `FailInv` and `PlaceInv` (the
one place where each transaction is), `FlushInv` (what a caller of `journal_flush`
has to see in the log is there, being flushed, or carried by a thread that will
flush it), and `CloseInv` (one thread closes while all others are outside, and the
header is written only while the flush that asked for it waits).

**The global lock** (`GlobalLockProofs`): any set of threads, nesting levels and
scenarios in which no journal is opened while a scan runs; from `ThreadAssumption`,
`NestAssumption` and, for that restriction, `ScanAssumption`. It is needed: with it
removed TLC finds `TxOwner` violated (a scan that found no journal to lock unlocks
the one opened since, which a transaction owns).

* `TypeCorrect`: `Spec => []TypeOK`
* `FrozenVolumeQuiet`: `Spec => []FrozenQuiet`
* `FreezeWaitsForSyncs`: `Spec => []SyncsDrained`
* `TransactionOwned`: `Spec => []TxOwner`
* `NeverLocksItself`: `Spec => []NoSelfLock`
* `DowngradeExcludes`: `Spec => []DowngradeBlocks`
* `JournalUnderLock`: `Spec => JournalStable`, an action property
* `Consistent`: `Spec => []IInv`, the inductive invariant they follow from

`IInv` ties the lock (`LockInv`), the transaction (`TxInv`), the owner of the journal
(`OwnerInv`), the change of the mount (`UpdateInv`) and the freeze (`FreezeInv`) to
where every thread is (`PcTypes`, `FrameInv`). Its core is `CountInv`:
`hfs_syncers` and `hfs_active_threads` are the cardinalities of the sets of threads
inside `hfs_sync` and in a transaction. A freeze that finds `hfs_syncers` at 0 has
therefore waited for all syncs, and neither counter falls below 0.
`GlobalLockFacts` has `IInv`, what an action may do to each part of it (its effects)
and lemmas about the shared steps; `GlobalLockSteps` shows that each action has its
effects, `GlobalLockKept` that the effects preserve `IInv`. TLC checked `IInv` with
the scenarios of the run `global_lock` first.

**Only model-checked.** `LogIntact`, `Recoverable` and `AtomicTransactions` (the
refinement of `JournalAbs`): they say what replay recovers from every state of the
disk, and need an invariant about the contents of each slot under every order of
destaging, which has not been worked out. The liveness properties `SpaceFound`,
`FlushCompletes`, `HolderProgress`, `FlushEnds`, `FreezeEnds`, `FreezeWakes` and
`ExitThaws`: fairness is out of the reach of TLAPS.

## What the models leave out

* Trim lists, and the group commit test on the number of trim extents.
* Barrier-only flushes, a failing flush of the device (the code only logs it), an
  external journal device, a revoked device.
* In replay: blocks of different sizes that overlap in the coalesce buffer,
  endianness, a change of block size at open.
* A transaction all of whose blocks were killed is left out of the passing runs
  of `JournalLog` (`AllKilledTrs` = FALSE). It leaves its busy bit set.
* `journal_close` inside a running transaction, `journal_relocate` of an empty
  transaction, and the effect of a relocation on the log.
* `FinCommitFails` stands for a failed header write and for a failed callback of
  `journal_relocate`; `StartFails` also ends a start beyond the bound.
* A home write that fails: the callback counts it like one that succeeded.
* Around the global lock: `hfs_sync_ejectable`, `HFS_IN_CHANGEFS`, `hfs_mountfs`
  and `hfs_unmount`, what the volume header contains, and the rest of
  `hfs_vfsutils.c`. No journal is opened while a scan runs (`ScanAssumption`):
  `hfs_journal_unlock` would release a lock that `hfs_journal_lock` did not take.
* While `JOURNAL_CLOSE_PENDING` is set, `end_transaction` turns a block whose buffer
  it cannot find into a killed entry and goes on (lines 3975-3990); in the model all
  buffers are found.

**What journal_close does not wait for.** `journal_close` waits for `flushing` and
`asyncIO` and then frees the journal. The thread that released the condition may not
have returned: `finish_end_transaction` goes on to read `jnl->fsmount` and
`jnl->jhdr`, and `unlock_condition` to release `flock` (lines 4408-4417 and
4463-4466). In `JournalLocks` a state with the journal closed and `leaving` set is
reachable; what such a thread then does is undefined and not modelled. Nor does
`journal_close` wait for `writing_header`: if a log write fails, the flush ends while
the header thread may still be writing. `JournalLocks` has this state where a
scenario combines errors and close, which is why `CloseIsLast` excludes it;
`JournalLog` leaves it out, by the guard on `hdr_thread` in `CloseDone`.

## Plan

1. `TrimList` and `Coalesce`: pure interval algorithms against a set-of-blocks
   reference, then `async_trim` with its two threads.
2. `BlockAlloc`: bitmap, summary table, free extent cache, reservations; refined
   from a set of free blocks. `RangeList` and `Extents` against reference
   definitions.
3. `CnodeHash` (creation, attachment, reclaim), `NodeReserve`, `Links`.
4. Proofs: `LogIntact`, then the step simulation of `JournalAbs` by `JournalLog`,
   which rests on it; the type and safety invariants of the modules above.
