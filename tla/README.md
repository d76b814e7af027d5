# Formal verification of SPFresh

SPFresh keeps a disk-based vector index (SPANN) up to date in place: an in-memory
graph over a small set of *head* vectors, one *posting* of vectors per head in a
key-value store, and a protocol (LIRE) that splits, merges and rebalances postings
while inserts, deletes and searches go on. This directory holds TLA+ models of the
parts where that is hard, the TLC configurations that check them, and proofs that
TLAPS checks. `PROJECT.json` maps every definition to the lines it models. Paths
below are relative to `src/AnnService/`.

How to run (with TLC, SANY and tlapm on the path):

    tlc -workers 2 -config Lire_insert.cfg MCLire.tla
    tlapm LireListProofs.tla

## 1. Inventory

| Component | Code | State | Operations |
|---|---|---|---|
| Version map | `inc/Core/Common/VersionLabel.h` | a byte per vector, `m_deleted` | `AddBatch`, `Delete`, `IncVersion`, `Save`, `Load` |
| Update protocol | `inc/Core/SPANN/ExtraDynamicSearcher.h` | `m_splitList`, `m_mergeList`, `m_mergeLock`, local lists of each split or merge | `AddIndex`, `Append`, `Split`, `MergePostings`, `Reassign`, `CollectReAssign`, `SearchIndex`, the three job classes |
| Job pool | `inc/Helper/ThreadPool.h`, `SPDKThreadPool` | queue, `m_lock`, condition variable, `currentJobs`, abort flag | `init`, `add`, `get`, `allClear`, destructor |
| Posting sizes and locks | `PostingSizeRecord.h`, `FineGrainedLock.h` | a number per head, hashed shared mutexes | `GetSize`, `UpdateSize`, `IncSize`, `AddBatch`, `operator[]` |
| Head index | `src/Core/BKT/BKTIndex.cpp`, `Labelset.h`, the graphs | head vectors, `m_deletedID`, graph | `AddIndexId`, `AddIndexIdx`, `DeleteIndex`, `ContainSample`, `SearchIndex` |
| SPANN facade | `src/Core/SPANN/SPANNIndex.cpp` | the components above | `AddIndexSPFresh`, `DeleteIndex`, `SearchIndex`, `AllFinished`, build, save, load |
| Drivers | `inc/SPFresh/SPFresh.h` | traces, threads | insert, delete, search rounds; wait for `AllFinished` |
| SPDK store | `ExtraSPDKController.h/.cpp` | block pool, block mapping, `m_buffer` | `Get`, `MultiGet`, `Put`, `Merge`, `Delete`, `Save`, `Load`, `Initialize` |
| RocksDB store | `ExtraRocksDBController.h` | the external store | `Get`, `MultiGet`, `Put`, `Merge` |
| Aggregator | `src/Aggregator` | servers and their status, an execution context per query | `SearchRequestHanlder`, `SearchResponseHanlder`, `AggregateResults`, `ConnectToPendingServers` |
| Callbacks with deadlines | `inc/Socket/ResourceManager.h` | `m_resources`, `m_timeoutList` | `Add`, `GetAndRemove`, `StartCheckTimeout` |
| Sockets | `src/Socket` | connection slots | connect, `SendPacket`, `AsyncSend`, close |
| Query client | `src/Client/ClientWrapper.cpp` | `m_unfinishedJobCount`, `m_isWaitingFinish`, connections | `SendQueryAsync`, `SearchResponseHanlder`, `WaitAllFinished` |
| Query server | `src/Server` | none of its own | `SearchHanlder` |
| Static searcher, AIO, KDT, quantizers, tools, wrappers | see `PROJECT.json` | read-only or none | build and search |

**Interaction.** `AddIndexSPFresh` gives a vector a row of the version map, asks the
head index for the nearest heads and calls `Append` for each of them. `Append` takes
the posting's lock, looks again whether the head exists, and merges the copy (vector
id, version byte, vector) into the stored posting; a posting over its limit makes it
queue a split. A worker of the pool splits a posting under its lock, creates heads,
and then, without a lock, scans for vectors whose nearest head changed and queues
reassigns. A reassign increments the version, which makes all older copies stale, and
appends new ones; that can trigger a split at once. `SearchIndex` queues a merge of a
posting it finds nearly empty. `DeleteIndex` only writes 0xfe in the version map.
Stale copies are dropped when a split or a merge next rewrites the posting.

Below that, the store keeps a posting in blocks of a device: `Put` and `Merge` write new
blocks and swap an array of block addresses into the mapping, under the lock of the
posting that their caller holds; searches read the mapping without a lock. Beside it, a
query may come over the network: a client sends it to an aggregator, which asks the
servers it is connected to and answers when all have answered or their deadline is past.
Client and aggregator keep their callbacks in a `ResourceManager` each.

**What is hard.** There is no lock over two of these components. The version map has
no lock at all. A head search names heads that a split or a merge may delete before
the posting's lock is taken. A split overwrites a posting before the rest of its
vectors have a head. A reassign invalidates everything before it writes anything.
The store gives blocks and arrays back to their pools while a search may still
use them, and spins for them with a lock held. An answer, a deadline and a failed send
race for one callback. Heads share locks by hash. Lists, job queue, size records and locks are updated in an
order that only the code says. `PROJECT.json` lists some forty such places (`hazards`),
each with the properties that would catch it going wrong.

**What makes each part correct.** *Version map*: no increment lost, no deletion
counted twice, calls return. *Update protocol*: no vector lost while it moves; locks
exclusive; a head marked as having a split or merge on its way really has one; at
most one owner of a version; no write to a posting nobody reads; the cascade ends and
vectors come to rest where they are found. *Job pool*: no wakeup lost, each job run,
the counter right, "all clear" true when it is said. *Store*: a key's blocks belong to
it alone, across a restart too; each call takes effect at once. *Query path*: a query is
called back once, by an answer or by its deadline; an answer lacks no server that could
be asked; whoever waits for the queries is woken, and not before they are done.

## 2. Modules

| Module | Models | Proofs |
|---|---|---|
| `VersionLabel`, `MCVersionLabel` | the version map, each access to shared memory a step | `VersionLabelProofs` |
| `ThreadPool`, `MCThreadPool` | the job pool and the loop over `allClear` | `ThreadPoolProofs` |
| `Lire`, `MCLire` | the update protocol over version map, head index, sizes, locks, store and queue | `LireProofs` (types), `LireLockProofs` (locks), `LireListProofs` (`m_splitList`, `m_mergeList`, what threads know of heads), `LirePostingProofs` (postings, sizes, no vector lost) |
| `KeyValueStore` | what `Lire` takes a store to be: `Put`, `Merge`, `Delete` at once | |
| `SpdkBlocks`, `MCSpdkBlocks` | the SPDK store; implements `KeyValueStore` | `SpdkProofs` |
| `ResourceManager` | callbacks with deadlines | |
| `QueryPath`, `MCQueryPath` | client, aggregator and their callbacks, with two instances of `ResourceManager` | `QueryPathProofs` |

### VersionLabel

`data` is `m_data`, `rows` the keys below `R()`. `Delete` is two steps
(`DeleteExchange`, `DeleteCount`), `IncVersion` four (`IncCheck`, `IncRead`, `IncSwap`,
`IncRetry`), because the code reads the byte twice before the compare-and-swap.
`Save` is two steps (`SaveHeader`, `SaveRows`) that calls of other threads come
between; `Load` is a restart from what `Save` finished writing. `bumps`, `everDeleted`
and `revived` are histories for the properties and are saved and restored with the
rows they describe. `VersionModulus` is 128 in the code; the run uses 2 so that the
counter wraps within four calls, and the proofs hold for every divisor of 256 up to
254. The rows are written by `Save` in one step: a vector's row is one byte, but a
save torn between two rows is not modelled.

### ThreadPool

The steps are those of `m_lock` and `m_cond`: `GetCheck` takes the lock and tests the
loop condition, `GetBlock` is the atomic release-and-wait, `GetTest` pops,
`GetReturn` reads the abort flag again and releases; `JobAdd` and `Feed` push under
the lock, `JobNotify` and `FeedNotify` notify after it; `Poll` and `PollQueue` are the
two lock-free reads of `allClear`. A wait may end spuriously. A job may add a job and
may end with an exception, which skips `currentJobs--`. The destructor's three parts
(`Destroy`, `NotifyAll`, `Join`) are separate.

### Lire

A vector is its id. `posting[h]` is the stored sequence of copies of head `h`,
`headState[h]` where the head is in its life (free, added by `AddIndexId`, linked by
`AddIndexIdx`, deleted), `size[h]` its size record. Each thread has a label `pc` and
its local variables `loc`. A step is what a thread does between two accesses to state
that others may change in between; what a posting's lock protects from the first read
to the write is split wherever an unlocked reader can look in.

| Code | Actions |
|---|---|
| `AddIndexSPFresh`, `AddIndex` | `AddIndex`, `NextReplica` |
| `DeleteIndex` | `Delete` |
| `SearchIndex`, `MergeAsync` | `SearchRead`, `SearchFind`, `SearchAdd` |
| `Append` | `AppendMiss`, `AppendMerge`, `SplitAsync`, `SplitSync`, `Appended` |
| job classes | `Take`, `SplitDone`, `Done` |
| `Reassign` | `ReassignSelect`, `ReassignCheck`, `ReassignBump`, `NextReplica` |
| `Split` | `SplitLock`, `SplitBack`, `SplitPutSame`, `SplitPutNew`, `SplitLink`, `SplitSize`, `SplitRetire`, `SplitErase` |
| `CollectReAssign` | `Collect`, `CollectSearch`, `CollectRead` |
| `MergePostings` | `MergeTry`, `MergeGone`, `MergeLockHead`, `MergeVisit`, `MergePartnerGone`, `MergeWith`, `MergeReassign`, `MergeBack` |

Abstractions, each with its reason:

- **Geometry is a choice.** A head search returns any set of linked heads up to its
  limit (the search is approximate); a clustering cuts a list in any two non-empty
  parts, keeps the old head for either or for none; a scan asks for any reassigns.
  k-means is taken to fail (one cluster) only for a list of equal points (`Twins`).
- **The store is atomic per key.** `Get`, `Put`, `Merge` of one key are one step.
  `SpdkBlocks` shows that the SPDK store does that for its writers; a search that reads
  a posting while it is written may get something else, which `Lire` does not have.
- **Merged steps.** The head search of a search and the read of one posting; `AddBatch`,
  head selection and `GetVersion` of one insert; the section of `MergePostings` that
  holds both locks; `IncVersion` after its check (`VersionLabel` takes it apart).
  `ContainSample` before the lock and under it is one test, since a head never comes
  back: failing the first is failing the second earlier.
- **Left out.** `RefineIndex` and `preReassign`, `ForceGC`, the `m_inPlace` switch,
  results with vid -1, a merge of a head with itself, the growth of `m_postingSizes`
  by `AddBatch`, and a full head index (`AddIndexId`'s ignored error): the model stops
  splitting at `HeadCapacity`.

Some properties except what the code is known to throw away. `Twins`: of a posting of
equal points one copy is kept ("Only Keep one"). `dropped`: `MergePostings` leaves out
the partner's copy of a vector that its own scan listed, even if a reassign has made
the listed copy stale since; `MergeWith` records exactly these vectors.

### KeyValueStore and SpdkBlocks

A posting is a sequence of items and a block holds `PageSize` of them (bytes and 4096
in the code). `at[k]` is the pointer in the mapping, `heap[a]` what the array behind it
holds: its `size`, `p_data[0]`, and its `addr`, the cells after it. `buffer` is
`m_buffer`, `free` is `m_blockAddresses`, `disk` the blocks, `rows` is
`m_pBlockMapping.R()`. Writers hold the lock of their key for the whole call, as
`Append`, `Split` and `MergePostings` do; readers hold none.

| Code | Actions |
|---|---|
| `Put` | `Put`, `Grow`, `Slot`, then `GetBlock`, `Write` in place, or `Pop`, `GetBlock`, `Write`, `Release`, `Swap`, `Recycle` |
| `Merge` | `Merge`, then the same without `Grow` and `Slot` |
| `Delete` | `Delete`, `DeleteSpare`, `DeleteUnmap` |
| `MultiGet` of one key | `ReadMapping`, `ReadHeader`, `ReadData` |
| `ShutDown`, `Save`; constructor, `Load`, `Initialize` | `Restart` |

`Implements` is `KeyValueStore!Spec` under a refinement mapping. The abstract posting
of a key is what the *current* array of the key names: the one in the mapping, except
that a call takes effect when it gives the old blocks back (`Release`, the first step of
`Delete`), before the swap: from then on other writers may fill the old blocks. A call
that writes in place takes effect in `Write`, which sets the size.

Abstractions: reads and writes of the blocks of one posting are one step each (the
requests of a thread to the device, their batches and timeouts are left out), as are
`memcpy` of an array and the tests of `Merge`. `MultiGet` is modelled for one key.
`ForceCompaction` (a `Save` while threads write) is left out; a restart happens when no
call runs. The queues of TBB are sequences with atomic pop and push. `Merge` of a key
without a posting reads through a pointer of -1: callers do not do that, and the guard
`Mapped` says so.

### ResourceManager and QueryPath

| Code | Actions |
|---|---|
| `ClientWrapper::SendQueryAsync` | `AddCallback`, `CountJob`, `SendQuery` |
| `WaitAllFinished`, the loop of `main` | `WaitAllFinished`, `NextQuery` |
| `Client::SendPacket`, `Connection::AsyncSend` | `SendFails`, `Delivered`, or neither: the packet is lost |
| `ClientWrapper::SearchResponseHanlder`, the two callbacks of a query | `Response`, `QueryExpires`, `Call`, `Decrease`, `Test`, `Notify` |
| `AggregatorService::SearchRequestHanlder` | `AddRequest`, `SendRequest` |
| `SearchResponseHanlder`, the callbacks of a request | `ServerResponse`, `RequestExpires`, `StoreResult`, `CountResult`, `AggregateResults` |

A callback can be called twice, by a send that failed and by an answer or a deadline:
`run` has a place for each of the two calls, with a label for how far it is. All
deadlines of a manager are equally long, so they pass in the order of its list;
`Expire` takes the head. The thread that looks for deadlines runs one callback at a
time. Time is a choice: a deadline may pass at any moment, and passes in the end.

Abstractions: the servers that are connected when a query arrives are a constant
(`Fanout`); a send that fails at once calls back as if on another thread; `Add` is one
step (nobody knows the id before it returns); `WaitAllFinished` tests once, under the
mutex, since its first test only saves taking it. Left out: that a wait may end by
itself, `HandleDeadConnection`, the reconnection of servers, the connection slots, and
the end of the processes.

## 3. Runs

| Run | Question | Bounds | Result |
|---|---|---|---|
| `version_calls` | do racing calls lose an increment or count a deletion twice; does every call return | 2 vectors, 3 threads, 4 calls, modulus 2 | holds |
| `version_deleted_count` | is the printed number of deletions right when nothing runs | 4 calls | violated (finding 1) |
| `lire_insert` | inserts overfill postings, new ones before their size is written too, while a vector is deleted | 5 vectors, 1 client, 2 workers, limit 1, 4 heads, reassigns of missed heads only | holds |
| `lire_merge` | two merges with a replica, a deletion, an insert | 3 postings, limit 3, 2 merges, 1 reassign | holds |
| `lire_split_merge` | a split and a merge at once, on heads that share locks; the split also rescans a nearby posting, and drops all but one of equal points | limit 2, 1 merge, 1 reassign, `ReassignK` 1, two of three vectors equal | holds |
| `lire_replicas` | two splits at once, two jobs reassign copies of one vector | 2 vectors, 2 replicas, limit 1, slack 3 (as in the code), 2 reassigns | holds |
| `lire_live` | does the work end, is every vector found in the end | 3 vectors, 2 replicas, 1 merge | holds under fairness |
| `pool_jobs` | wakeups, counter, every job run, the poll ends | 2 workers, 3 jobs, 2 spurious wakeups, 1 job may throw | holds |
| `pool_all_clear` | is nothing on its way when `allClear` is true | the same, no exception | violated (finding 2) |
| `spdk_store` | is the store a key-value store for its writers, do its pools stay right, does each call return, what does a search without a lock get | 2 keys with 2 calls each, 2 writers, 1 reader, 8 blocks, 5 arrays, 1 restart after which nothing is written | holds |
| `spdk_restart` | is a posting that nobody writes read as it was written, after a restart too | 1 writer, 6 blocks, 1 restart | violated (finding 3) |
| `query_path` | answered once, complete, called back, woken up | 2 queries, of 2 servers and of none; every packet may fail or be lost, every deadline may pass | holds, liveness under fairness |

**Why the bounds are enough.** Two workers and a client are the smallest number in
which a split, a merge or a reassign meets both an append and another background job;
the locals of the code never involve a third background job. Limits 1 and 2 make the
second or third append to a posting a split, and a split of one cluster another split.
The three vectors `lire_insert` inserts are the fewest with which a new posting of two
copies is appended to twice, split and overwritten in `size` by the split that made it:
with fewer, no size is ever too large and `SizeOverOnlyLate` would say nothing of it. Two lock slots
for four heads make heads share a lock. Two reassigns allow both a reassign of two
vectors and two of one vector. `MaxReassigns`, `MaxMerges`, `HeadCapacity`,
`MaxCalls`, `MaxRestarts` and `MaxSpurious` bound otherwise endless behaviour and occur only in
guards. `lire_live` has `HeadCapacity` 8 so that no split stops for want of a head.
In `spdk_store` the values and the two calls of a
key make every path of `Put` and `Merge` happen: an empty posting, a full and a partly
filled last block, in place and copied, and the size limit; two writers contend for the
last blocks and arrays (`BlockCount` and `ArrayCount` are the least the `ASSUME`
allows). In `query_path` two servers are the least for a count that can be wrong by
one, and two queries the least for a wait that one of them ends too early; `Width` 16
is far enough above the counts that only the wrap below zero is seen.
Workers, and the inserted vectors of `lire_insert`, are symmetric in the safety runs; the liveness runs use no symmetry.

**Deadlock** is not checked (`CHECK_DEADLOCK FALSE`): every model may stop where the
program does, when the clients have no more calls within the bounds. Being stuck in
the middle is caught by `CallsReturn`, `AllJobsRun`, `PollEnds` and `Quiesces`.

**Fairness.** Only threads that are in a call or a job are fair (`WF` of their steps),
and a worker that finds the queue non-empty takes a job: the operating system
schedules every thread, and the pool's loop does nothing else. Clients, restarts,
spurious wakeups, deletions and the destructor are never obliged to happen. Locks are
held for finitely many steps; in these instances a thread that waits is not overtaken
for ever because the number of appends is bounded. In `SpdkBlocks` each writer is fair
(`WF` of `Step`), readers and restarts are not: a writer that spins goes on once its
queue has something, and nobody takes it away for ever because the calls are bounded.
`QueryPath` has one weak condition for all threads and deadlines together (`Progress`):
no thread can run for ever, so each comes to its end. Packets have no fairness at all:
neither their delivery, nor a server's answer, nor the report of a failed send.

**Findings.**

1. `IncVersion` tests and reads the byte separately; a `Delete` between the two is
   undone by the increment and `m_deleted` stays one too high for good.
2. `allClear` is true while a worker holds a job that it has popped and not counted
   yet, so "Finish syncing" may be reported before the work is done.
3. After a restart every block is in the pool, those of the loaded postings too: the
   first `Put` overwrites another posting, and a read of it returns the wrong vectors.

Each property has a mutant in `PROJECT.json` that breaks it: an operator
`Mutant_...` before the definition it changes, as a plausible bug would.

## 4. Proofs

All theorems hold for every value of the constants that satisfies the named `ASSUME`
of the module: finite sets of vectors, keys, threads; a modulus that divides 256; at
least one lock slot; at least one worker; at least one query, and counters wide
enough for all callbacks of a query; for the store, heads that are the rows of the
mapping, no posting that is the value that stands for none, a block of at least one item, a device with room for a full posting of every
head and of every writer, and memory for an array of each of them beside the spare
ones. TLC evaluates them on each run.

| Theorem | States | Argument |
|---|---|---|
| `VersionLabelProofs!TypeCorrect` | a byte is 0xff, 0xfe or a counter | `TypeOK` is inductive: 255 and 254 plus one, modulo a divisor of 256, fall in range |
| `VersionLabelProofs!IncrementsCounted` | the byte of a vector never deleted counts the successful `IncVersion` calls | strengthened by: what a thread is about to write is the successor of what it read, and the same holds of the saved rows |
| `VersionLabelProofs!DeletionsCountedOnce` | `m_deleted` plus pending counts is at most deleted rows plus revived ones | one lemma per change of the two cardinalities; the saved header satisfies the bound with respect to the saved rows because the rows are written later |
| `ThreadPoolProofs!TypeCorrect` | the pool is well formed, a pop never meets an empty queue | `LockHeld` (the lock is held exactly from the check to the return of `get`) and `InHand` (what a worker saw under the lock is still so) |
| `ThreadPoolProofs!CountsRunningJobs` | `currentJobs` is the running jobs plus the jobs that threw | cardinality of `Running` by adding and removing one worker |
| `ThreadPoolProofs!NoLostWakeup` | beside a filled queue somebody is awake or about to be woken | needs `InHand`: a worker about to wait holds the lock and has seen the queue empty, so no `add` is in between |
| `LireProofs!TypeCorrect` | versions, sizes, postings, jobs, locals well formed | `Shape`: what each label knows of the lengths of its lists, so that no list is indexed beyond its end |
| `LireLockProofs!LocksHold` | locks are held exactly in the critical sections, shared slots included | `LockDiscipline` with `TypeInv`; most actions are stutters on the locks (`NoLockStep`) |
| `LireLockProofs!MutualExclusion` | two threads are never in sections of one slot, nor both in a merge | from `LocksHold` |
| `LireListProofs!SplitsComing` | a head in `m_splitList` has a queued split or a thread that takes it out | inductive with `TypeInv`: only `Take` removes a job (`JobsKept`) and becomes the thread that has it; a split keeps its head until it erases the entry (`SplitKept`) |
| `LireListProofs!MergesComing` | a head in `m_mergeList` that still exists has a queued merge or a worker on it | needs `HeadsKnown`: every head that a job, a list or a thread names is linked or deleted, never free or only added, so that a head cannot come to exist after its entry was taken for dead |
| `LirePostingProofs!AppendsFindTheirHead` | nothing is appended to the posting of a deleted head | an append comes after `ContainSample` under the lock, which only its holder can make untrue (`LocksHold`); a split of a deleted head, which the code allows, writes back no more than it read: `Lengths`, which holds because nobody else writes the posting meanwhile (`LockedPosting`) |
| `LirePostingProofs!SizesNotOver` | only the late write of a new head's size makes a size record too large | what each action does to size and posting together (`SizeStep`): both kept, both one more, or the size set to the length. `FreeSizes`: a head that is not in use yet has size 0 |
| `LirePostingProofs!HeadsRemain` | a search always finds a head | `HeadRemains`: a merge deletes one head while it holds the lock of another that exists; a split that retires its head has linked another |
| `LirePostingProofs!NothingGetsLost` | no vector is lost while it moves | see below |
| `LirePostingProofs!OwnersDiffer` | two reassigns of a vector never deleted do not write the same version, unless a counter wraps around | nobody carries a version larger than the current one, so that an increment that does not wrap gives one larger than all |
| `SpdkProofs!TypeCorrect` | the store's state is well formed: no cell is filled beyond an array, a call has the array that it fills or replaces | needs all of `Inv`, see below: `Fitting` says which cells a call fills and how far it got |
| `SpdkProofs!ArraysAreOnce` | an array has one user: the mapping, `m_buffer` or one writer | `Once` on the three maps `Mapping`, `buffer`, `Hands`; each step takes an array from one of them to another (`TakeSpare`, `HoldSpare`, `Exchange`, ...). A new array differs from all held ones because there are more arrays than keys, writers and spares (`NewArrayIsNew`, by counting) |
| `SpdkProofs!BlocksAreConserved` | until a restart every block is in exactly one place | `BlocksInv`, see below |
| `SpdkProofs!QuietReadsAreExact` | a search without a lock gets the posting of a head nobody writes | `QuietInv`: while the count of calls of its key is the one the reader saw, nobody is in a call of that key, and its pointer and its copy of the header are what the mapping leads to |
| `SpdkProofs!StoreImplements` | the store implements `KeyValueStore`, if nothing is written after a restart (or there is none) | `StoreInv`, see below |
| `QueryPathProofs!TypeCorrect` | client, aggregator, managers well formed; at most two calls and two answers | the bounds come from the counts below |
| `QueryPathProofs!CalledTwice` | a user's callback runs twice only if its query could not be sent | `Orders`: a callback that is in its manager or not yet there has not been called by an answer or deadline; `CallsCounted`: `called` is the number of calls behind it |
| `QueryPathProofs!AnsweredTwice` | a query is answered twice only if a request could not be sent | `ResultsCounted`: `m_unfinishedCount` is the servers less the calls that have counted, modulo its width, and the answers are what its tests have let through |
| `QueryPathProofs!AnswersComplete` | an answer lacks at most one server for each failed send | from `ResultsCounted`: the servers that have answered or expired are all different, and have stored before they count |
| `QueryPathProofs!ReturnsAfter` | the wait returns after the callbacks, but for failed sends and a query just expired | `JobsCounted` (`m_unfinishedJobCount` by the labels of all calls) at the return; `Returned` afterwards, because the property alone is not inductive |

**No vector lost.** `NoLostVector` looks at a moment; the proof needs to know at every label of
every thread where a current copy is and who must still do something about it. The
inductive invariant is `Tracked`, with `TypeInv`, `LockDiscipline`, `HeadsKnown`,
`HeadRemains`, `Selected` and `Placed`. `Tracked` says that every current copy that is not
excepted is *safe* in one of these ways: it rests in a posting that searches read and
that no thread is about to overwrite without it (`RestsAt`); a thread carries it, that
is, will append or write it (`Carried`: an insert or a reassign in flight, the rest of a
split or a merge); a split holds it in the clusters that it writes one by one; or a
queued reassign names it and its previous head is deleted. `Placed` says of a split or merge
between its writes which posting already holds what its local lists say; `Selected`
that whoever is about to append has somewhere left to append to. The steps that matter
are those where one way becomes another: the write of a cluster, the deletion of a head
with copies that lie elsewhere, the increment in `Reassign` (all older copies cease to
matter at once and the thread carries the new one), and the two stale reads of a merge.
Most other steps only need that a thread that does not hold the lock of a posting takes
nothing out of it. `Tracked` and `Placed` were checked by
TLC on the four safety instances of `Lire` before they were proved.

**Blocks and arrays.** `Inv` in `SpdkProofs` is inductive for all executions, restarts
included: `Types`, `Known` (what a thread at each label knows of its arrays), `Alone` (one
call of a head at a time), `Once`, `ArraysHeld` (every pointer that a thread keeps, a
stale one too, is to an array that has a place), `Fitting` (the cells that a call fills
are the last ones of its new size, and `next` says how far it got) and `Wholes` (an array
that nobody fills has a block in each cell that its size counts). On top of it comes
`BlocksInv`: `Copies` says that the cells a merge does not fill hold the full blocks of
the posting that it replaces, in the same order, and `Sharing`, until a restart, that
pool, postings and the cells that calls have filled share the blocks of the device
out among them, with no block in two cells. The step that matters is
`Release`: at once the filled cells become part of the posting, the copied ones change
the array that counts them, and what only the old version had goes to the pool;
`JoinCells` and `CutCells` are the arithmetic of it. After a restart `Sharing` is false
(finding 3), which is why it is no part of `Inv`. Both were checked by TLC on three
instances of the store before they were proved.

**The store as a map.** `StoreImplements` proves the refinement `Implements` step by step.
What a call writes to the device is only the end of the posting that it leaves, for
`Merge` the last block that was partly filled and what is appended, so that the value it
carries says nothing by itself. The invariant is a *promise* (`Promises`): the items of
the posting as it is now in the blocks before the first new one (`Before`), followed by
the value of the call, are what the call leaves: a value of `Put`, or the posting with a
value of `Merge` appended. `Writes` says that every call keeps its promise until it has
written, and from then on that reading the new array gives what was promised. With it,
`StoreInv` has `Rooms` (every posting is in a row of the mapping, which is what a restart
saves) and `Frozen` (nobody writes after a restart). A call makes its promise when it
begins (`PutEffect`; `MergeEffect` with `AppendedItems`, on sequences cut at a block).
Filling cells keeps it, and `Write` fulfils it: the cells it writes are in no posting
and in no other call's hands, by `Sharing`, so no other posting changes, and by `Copies`
the cells it does not write are those of the posting that is replaced. Item by item,
`CellBound` and `PageItem` turn places in a posting into places in blocks. Only three
steps change the map, each for its own key (`Effect`): `Write` in place, `Release`, and
the first step of `Delete`. Without `~WriteAfterRestart` the theorem is
false, for the reason that finding 3 shows. `StoreInv` was checked by TLC before.

`WakeupPending`, `CounterHonest` and `DeleteCountBound` are not inductive alone: they
need the lock and the data seen under it, respectively what a thread holds between
two accesses. Each inductive invariant was checked by TLC first.

**Only model-checked**: everything about liveness (`CallsReturn`, `AllJobsRun`,
`PollEnds`, `Quiesces`, `Findable`, `RequestAnswered`, `QueryCalledBack`, `WaitEnds`;
fairness and `ENABLED` are outside the prover).

`OneOwner` is not true of every execution: the version has seven
bits, and a reassign that sleeps while 128 others pass it writes a version that is
current again. The theorem says so in its hypothesis, and the runs are far from it.

## 5. Plan

Done in this order, since the update protocol is what the system stands on, the next
two are what it takes for granted, and the last two are what it stores and how it is
asked: `VersionLabel`, `Lire`, `ThreadPool`, `SpdkBlocks` with `KeyValueStore`,
`QueryPath` with `ResourceManager`.

Next, models:

1. The slot table of `ConnectionManager` and the states of the aggregator's servers
   (reconnection, a server that stays `Connecting`).
2. Two searching clients in `Lire`; the growth of `m_postingSizes`; the wrap of the
   version; `RefineIndex`.
3. `MultiGet` of several keys with timeouts, and `ForceCompaction`, in `SpdkBlocks`.
4. An abstract specification of the index (a set of vectors that inserts add to and
   deletes take from) that `Lire` implements up to vectors on their way.

## 6. Not modelled

RocksDB itself (what is asked of it is `KeyValueStore`), file and kernel I/O, the
connection table, heartbeats and reconnection, the static searcher, the construction and search
of trees and graphs, quantizers and distances (numerical code), parameters, metadata,
logging and statistics, build tools, language wrappers and vendored code. The reasons
are given with each component in `PROJECT.json`.
