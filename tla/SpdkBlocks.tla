----------------------------- MODULE SpdkBlocks -----------------------------
(***************************************************************************)
(* The SPDK block store (ExtraSPDKController): postings kept in blocks of  *)
(* a device, a mapping from heads to arrays of block addresses, a pool of  *)
(* free blocks and a pool of spare arrays.                                 *)
(*                                                                         *)
(* A posting is a sequence of items (bytes in the code) and a block holds  *)
(* PageSize of them.  An array of addresses is the p_data of the code:     *)
(* size is p_data[0], addr the cells after it.  Writers hold the lock of   *)
(* their posting, as ExtraDynamicSearcher does around Put and Merge;       *)
(* readers (MultiGet in SearchIndex) hold no lock.                         *)
(***************************************************************************)
EXTENDS Integers, FiniteSets, Sequences

CONSTANTS
    Keys,              \* the heads
    Writers,           \* threads that call Put, Merge and Delete
    Readers,           \* threads that call MultiGet
    BlockCount,        \* blocks of the device (kSsdImplMaxNumBlocks)
    ArrayCount,        \* arrays the allocator can make
    Items,             \* what postings are made of
    Blank,             \* a cell of a block nothing was written to
    None,              \* 0xffffffffffffffff in the mapping, -1 in an array
    PageSize,          \* items of a block
    BlockLimit,        \* m_blockLimit: cells of an array, the size included
    BufferSize,        \* m_bufferLimit: spare arrays made by the constructor
    PutValues,         \* the postings Put writes under each key
    MergeValues,       \* what Merge appends under each key
    MaxCalls,          \* bound: how many calls of writers each key sees
    MaxRestarts,       \* bound: restarts
    WriteAfterRestart  \* whether the store is written to after a restart

(* Keys are rows of the mapping; the device is large enough that no writer *)
(* waits for ever, and the memory that `new' never fails.                  *)
ASSUME SpdkAssumption ==
    /\ IsFiniteSet(Keys) /\ Keys = 0 .. Cardinality(Keys) - 1
    /\ IsFiniteSet(Writers) /\ Writers \cap Readers = {}
    /\ BlockCount \in Nat /\ ArrayCount \in Nat
    /\ Blank \notin Items /\ None \notin Nat /\ None \notin Seq(Items \cup {Blank})
    /\ PageSize \in Nat \ {0} /\ BlockLimit \in Nat \ {0} /\ BufferSize \in Nat \ {0}
    /\ \A k \in Keys : /\ PutValues[k] \subseteq Seq(Items)
                       /\ MergeValues[k] \subseteq Seq(Items) \ {<<>>}
    /\ BlockCount >= (Cardinality(Keys) + Cardinality(Writers)) * (BlockLimit - 1)
    /\ ArrayCount >= Cardinality(Keys) + Cardinality(Writers) + BufferSize
    /\ MaxCalls \in [Keys -> Nat]
    /\ MaxRestarts \in Nat /\ WriteAfterRestart \in BOOLEAN

VARIABLES
    rows,      \* m_pBlockMapping.R()
    at,        \* m_pBlockMapping: the array of each key
    heap,      \* what the arrays hold
    buffer,    \* m_buffer, a queue of arrays
    free,      \* m_blockAddresses, a queue of blocks
    disk,      \* what the blocks hold
    pc, loc,   \* where each thread is, and its local variables
    calls,     \* how many calls of writers each key has seen
    restarts   \* how many times the process was restarted

vars == <<rows, at, heap, buffer, free, disk, pc, loc, calls, restarts>>

Threads == Writers \cup Readers
Blocks  == 0 .. BlockCount - 1
Arrays  == 1 .. ArrayCount
Cells   == 1 .. BlockLimit - 1

----------------------------------------------------------------------------
(* Postings in blocks *)

Pages(n) == (n + PageSize - 1) \div PageSize

(* Page i of a value, as WriteBlocks copies it into a block. *)
Page(v, i) ==
    [j \in 1..PageSize |->
        LET p == (i - 1) * PageSize + j IN IF p <= Len(v) THEN v[p] ELSE Blank]

(* What ReadBlocks returns for an array.  A cell that was never filled is  *)
(* not the address of a block: what it reads there is no item.             *)
ReadBlocks(a) ==
    [p \in 1..a.size |->
        LET b == a.addr[((p - 1) \div PageSize) + 1] IN
        IF b = None THEN Blank ELSE disk[b][((p - 1) % PageSize) + 1]]

(* The addresses of an array from cell i on that hold its posting. *)
UsedFrom(a, i) == SubSeq(a.addr, i, Pages(a.size))

NoArray == [size |-> -1, addr |-> [i \in Cells |-> None]]

Held == {at[k] : k \in Keys} \cup {buffer[i] : i \in DOMAIN buffer}
            \cup {loc[t].arr : t \in Threads} \cup {loc[t].old : t \in Threads}

(* `new' returns memory that nobody uses; which does not matter. *)
NewArray == CHOOSE a \in Arrays \ Held : TRUE

----------------------------------------------------------------------------
(* Threads *)

(* The local variables of a call: value is what WriteBlocks writes, size   *)
(* the new size of the posting, next and last the cells to fill with new   *)
(* blocks, arr the array that is filled and old the one it replaces.  A    *)
(* reader keeps in arr the pointer it collected, in header what it read    *)
(* there and in quiet the call count of its key, or -1 when the key was    *)
(* being written.                                                          *)
Idle == [op |-> "none", key |-> 0, value |-> <<>>, size |-> 0, delta |-> 0,
         next |-> 1, last |-> 0, arr |-> None, old |-> None,
         header |-> NoArray, quiet |-> -1]

Goto(t, label, l) ==
    /\ pc' = [pc EXCEPT ![t] = label]
    /\ loc' = [loc EXCEPT ![t] = l]

Done(t) == Goto(t, "idle", Idle)

Fill(t, l) == Goto(t, IF l.next <= l.last THEN "get" ELSE "write", l)

(* The lock of a posting, held by the caller for the whole call. *)
Locked(k) == \E t \in Writers : pc[t] # "idle" /\ loc[t].key = k

Call(t, k) ==
    /\ pc[t] = "idle"
    /\ ~Locked(k)
    /\ calls[k] < MaxCalls[k]
    /\ restarts = 0 \/ WriteAfterRestart
    /\ calls' = [calls EXCEPT ![k] = @ + 1]

Init ==
    /\ rows = 0
    /\ at = [k \in Keys |-> None]
    /\ heap = [a \in Arrays |-> NoArray]
    /\ buffer = [i \in 1..BufferSize |-> i]
    /\ free = [i \in 1..BlockCount |-> i - 1]
    /\ disk = [b \in Blocks |-> [j \in 1..PageSize |-> Blank]]
    /\ pc = [t \in Threads |-> "idle"]
    /\ loc = [t \in Threads |-> Idle]
    /\ calls = [k \in Keys |-> 0]
    /\ restarts = 0

----------------------------------------------------------------------------
(* Put *)

(* A value that does not fit fails here and changes nothing.  The missing  *)
(* rows are counted before m_updateMutex is taken.                         *)
Put(t, k, v) ==
    /\ Call(t, k)
    /\ Pages(Len(v)) < BlockLimit
    /\ Goto(t, IF k + 1 > rows THEN "grow" ELSE "slot",
            [Idle EXCEPT !.op = "put", !.key = k, !.value = v, !.size = Len(v),
                         !.delta = k + 1 - rows, !.last = Pages(Len(v))])
    /\ UNCHANGED <<rows, at, heap, buffer, free, disk, restarts>>

Grow(t) ==
    /\ pc[t] = "grow"
    /\ rows' = rows + loc[t].delta
    /\ Goto(t, "slot", loc[t])
    /\ UNCHANGED <<at, heap, buffer, free, disk, calls, restarts>>

(* A key without an array gets one, a spare one only when there are more   *)
(* than m_bufferLimit; a posting of size -1 is then written in place.      *)
Slot(t) ==
    LET k == loc[t].key
        spare == Len(buffer) > BufferSize
        a == IF at[k] # None THEN at[k] ELSE IF spare THEN Head(buffer) ELSE NewArray
    IN  /\ pc[t] = "slot"
        /\ IF at[k] = None
           THEN /\ at' = [at EXCEPT ![k] = a]
                /\ heap' = [heap EXCEPT ![a] = NoArray]
                /\ buffer' = IF spare THEN Tail(buffer) ELSE buffer
           ELSE UNCHANGED <<at, heap, buffer>>
        /\ IF heap'[a].size < 0
           THEN Fill(t, [loc[t] EXCEPT !.arr = a])
           ELSE Goto(t, "pop", [loc[t] EXCEPT !.old = a])
        /\ UNCHANGED <<rows, free, disk, calls, restarts>>

(* A spare array for the new version; Merge copies the size and the full   *)
(* blocks of the old one into it.  The thread spins while there is none.   *)
Pop(t) ==
    LET l == loc[t]
        a == Head(buffer)
        o == heap[l.old]
    IN  /\ pc[t] = "pop"
        /\ buffer # <<>>
        /\ buffer' = Tail(buffer)
        /\ heap' = [heap EXCEPT ![a] =
                [size |-> IF l.op = "merge" THEN o.size ELSE @.size,
                 addr |-> [i \in Cells |-> IF i < l.next THEN o.addr[i] ELSE @.addr[i]]]]
        /\ Fill(t, [l EXCEPT !.arr = a])
        /\ UNCHANGED <<rows, at, free, disk, calls, restarts>>

(* One block of GetBlocks; the thread spins while the pool is empty. *)
GetBlock(t) ==
    LET l == loc[t] IN
    /\ pc[t] = "get"
    /\ free # <<>>
    /\ free' = Tail(free)
    /\ heap' = [heap EXCEPT ![l.arr].addr[l.next] = Head(free)]
    /\ Fill(t, [l EXCEPT !.next = @ + 1])
    /\ UNCHANGED <<rows, at, buffer, disk, calls, restarts>>

(* WriteBlocks fills the new blocks, then the new size is set: the end of  *)
(* a call that writes in place.                                            *)
Write(t) ==
    LET l == loc[t]
        first == l.last - Pages(Len(l.value))
        cell(b) == {i \in first + 1 .. l.last : heap[l.arr].addr[i] = b}
    IN  /\ pc[t] = "write"
        /\ disk' = [b \in Blocks |->
                IF cell(b) = {} THEN disk[b]
                ELSE Page(l.value, (CHOOSE i \in cell(b) : TRUE) - first)]
        /\ heap' = [heap EXCEPT ![l.arr].size = l.size]
        /\ IF l.old = None THEN Done(t) ELSE Goto(t, "release", l)
        /\ UNCHANGED <<rows, at, buffer, free, calls, restarts>>

(* A mutant: Merge releases all the blocks of the old version, as Put does. *)
Mutant_Release(t) ==
    LET l == loc[t] IN
    /\ pc[t] = "release"
    /\ free' = free \o UsedFrom(heap[l.old], 1)
    /\ Goto(t, "swap", l)
    /\ UNCHANGED <<rows, at, heap, buffer, disk, calls, restarts>>

(* A mutant: a whole array is released, not the part that is in use. *)
Mutant_ReleaseAll(t) ==
    LET l == loc[t] IN
    /\ pc[t] = "release"
    /\ free' = free \o heap[l.old].addr
    /\ Goto(t, "swap", l)
    /\ UNCHANGED <<rows, at, heap, buffer, disk, calls, restarts>>

(* The blocks that the new version replaces: all of them for Put, the last *)
(* one, partly filled, for Merge.                                          *)
Release(t) ==
    LET l == loc[t]
        o == heap[l.old]
        from == IF l.op = "merge" THEN (o.size \div PageSize) + 1 ELSE 1
    IN  /\ pc[t] = "release"
        /\ free' = free \o UsedFrom(o, from)
        /\ Goto(t, "swap", l)
        /\ UNCHANGED <<rows, at, heap, buffer, disk, calls, restarts>>

(* The loop around InterlockedCompareExchange is an exchange: it ends with *)
(* the array that was in the mapping in postingSize.                       *)
Swap(t) ==
    LET k == loc[t].key IN
    /\ pc[t] = "swap"
    /\ at' = [at EXCEPT ![k] = loc[t].arr]
    /\ Goto(t, "recycle", [loc[t] EXCEPT !.old = at[k]])
    /\ UNCHANGED <<rows, heap, buffer, free, disk, calls, restarts>>

(* A mutant: the array that was swapped in becomes a spare one. *)
Mutant_Recycle(t) ==
    /\ pc[t] = "recycle"
    /\ buffer' = Append(buffer, loc[t].arr)
    /\ Done(t)
    /\ UNCHANGED <<rows, at, heap, free, disk, calls, restarts>>

(* A mutant: the array that was swapped out is forgotten. *)
Mutant_RecycleNone(t) ==
    /\ pc[t] = "recycle"
    /\ Done(t)
    /\ UNCHANGED <<rows, at, heap, buffer, free, disk, calls, restarts>>

Recycle(t) ==
    /\ pc[t] = "recycle"
    /\ buffer' = Append(buffer, loc[t].old)
    /\ Done(t)
    /\ UNCHANGED <<rows, at, heap, free, disk, calls, restarts>>

----------------------------------------------------------------------------
(* Merge and Delete *)

(* A posting of this size is in the mapping: the callers append to heads   *)
(* they hold, the code reads through the pointer unchecked.                *)
Mapped(k) == k < rows /\ at[k] # None /\ heap[at[k]].size >= 0

(* A mutant: what is in the partly filled block is not written again. *)
Mutant_Merge(t, k, v) ==
    LET a == heap[at[k]]
        full == a.size \div PageSize
        size == a.size + Len(v)
        l == [Idle EXCEPT !.op = "merge", !.key = k, !.value = v,
                          !.size = size, !.next = full + 1, !.last = Pages(size)]
    IN  /\ Call(t, k)
        /\ Mapped(k)
        /\ Pages(size) < BlockLimit
        /\ IF a.size % PageSize # 0 THEN Goto(t, "pop", [l EXCEPT !.old = at[k]])
                                    ELSE Goto(t, "get", [l EXCEPT !.arr = at[k]])
        /\ UNCHANGED <<rows, at, heap, buffer, free, disk, restarts>>

(* Merge fills the last block up when it is partly filled: its content is  *)
(* read and written again, with what is appended, to a new block.  A       *)
(* posting that would get too long fails here and is not changed.          *)
Merge(t, k, v) ==
    LET a == heap[at[k]]
        full == a.size \div PageSize
        rest == a.size % PageSize
        size == a.size + Len(v)
        page == IF rest = 0 THEN <<>> ELSE SubSeq(disk[a.addr[full + 1]], 1, rest)
        l == [Idle EXCEPT !.op = "merge", !.key = k, !.value = page \o v,
                          !.size = size, !.next = full + 1, !.last = Pages(size)]
    IN  /\ Call(t, k)
        /\ Mapped(k)
        /\ Pages(size) < BlockLimit
        /\ IF rest # 0 THEN Goto(t, "pop", [l EXCEPT !.old = at[k]])
                       ELSE Goto(t, "get", [l EXCEPT !.arr = at[k]])
        /\ UNCHANGED <<rows, at, heap, buffer, free, disk, restarts>>

Delete(t, k) ==
    /\ Call(t, k)
    /\ Mapped(k)
    /\ free' = free \o UsedFrom(heap[at[k]], 1)
    /\ Goto(t, "spare", [Idle EXCEPT !.op = "delete", !.key = k, !.old = at[k]])
    /\ UNCHANGED <<rows, at, heap, buffer, disk, restarts>>

DeleteSpare(t) ==
    /\ pc[t] = "spare"
    /\ buffer' = Append(buffer, loc[t].old)
    /\ Goto(t, "unmap", loc[t])
    /\ UNCHANGED <<rows, at, heap, free, disk, calls, restarts>>

DeleteUnmap(t) ==
    /\ pc[t] = "unmap"
    /\ at' = [at EXCEPT ![loc[t].key] = None]
    /\ Done(t)
    /\ UNCHANGED <<rows, heap, buffer, free, disk, calls, restarts>>

----------------------------------------------------------------------------
(* MultiGet of one key, without a lock: the pointer, then the size and the *)
(* addresses behind it, then the blocks.                                   *)

ReadMapping(r, k) ==
    /\ pc[r] = "idle"
    /\ Mapped(k)
    /\ Goto(r, "header", [Idle EXCEPT !.op = "read", !.key = k, !.arr = at[k],
                                     !.quiet = IF Locked(k) THEN -1 ELSE calls[k]])
    /\ UNCHANGED <<rows, at, heap, buffer, free, disk, calls, restarts>>

ReadHeader(r) ==
    /\ pc[r] = "header"
    /\ Goto(r, "blocks", [loc[r] EXCEPT !.header = heap[loc[r].arr], !.arr = None])
    /\ UNCHANGED <<rows, at, heap, buffer, free, disk, calls, restarts>>

(* What the call returns is ReadBlocks of the header when it gets here; a  *)
(* size of -1 makes it throw, and there is no result.                      *)
ReadData(r) ==
    /\ pc[r] = "blocks"
    /\ Done(r)
    /\ UNCHANGED <<rows, at, heap, buffer, free, disk, calls, restarts>>

----------------------------------------------------------------------------
(* ShutDown saves the mapping when the threads have ended, and the next    *)
(* process loads it: every row gets an array of its own, also the rows     *)
(* without a posting.  BlockController::Initialize then puts the address   *)
(* of every block into the pool.                                           *)
Restart ==
    /\ restarts < MaxRestarts
    /\ \A t \in Threads : pc[t] = "idle"
    /\ LET saved(k) == IF at[k] = None THEN NoArray ELSE heap[at[k]]
           n == Cardinality(Keys)
       IN  /\ at' = [k \in Keys |-> IF k < rows THEN k + 1 ELSE None]
           /\ heap' = [a \in Arrays |-> IF a <= n /\ a <= rows THEN saved(a - 1) ELSE NoArray]
           /\ buffer' = [i \in 1..BufferSize |-> n + i]
    /\ free' = [i \in 1..BlockCount |-> i - 1]
    /\ restarts' = restarts + 1
    /\ UNCHANGED <<rows, disk, pc, loc, calls>>

Step(t) ==
    \/ Grow(t) \/ Slot(t) \/ Pop(t) \/ GetBlock(t) \/ Write(t)
    \/ Release(t) \/ Swap(t) \/ Recycle(t) \/ DeleteSpare(t) \/ DeleteUnmap(t)

Read(r) == ReadHeader(r) \/ ReadData(r)

Next ==
    \/ \E t \in Writers, k \in Keys :
        \/ \E v \in PutValues[k] : Put(t, k, v)
        \/ \E v \in MergeValues[k] : Merge(t, k, v)
        \/ Delete(t, k)
    \/ \E t \in Writers : Step(t)
    \/ \E r \in Readers : Read(r) \/ \E k \in Keys : ReadMapping(r, k)
    \/ Restart

Spec == Init /\ [][Next]_vars

(* The scheduler runs every writer; a thread that spins on a queue goes on *)
(* as soon as there is something in it.                                    *)
FairSpec == Spec /\ \A t \in Writers : WF_vars(Step(t))

----------------------------------------------------------------------------
(* Properties *)

TypeOK ==
    /\ rows \in Nat
    /\ at \in [Keys -> Arrays \cup {None}]
    /\ heap \in [Arrays -> [size : Nat \cup {-1}, addr : [Cells -> Blocks \cup {None}]]]
    /\ buffer \in Seq(Arrays)
    /\ free \in Seq(Blocks)
    /\ disk \in [Blocks -> [1..PageSize -> Items \cup {Blank}]]
    /\ calls \in [Keys -> Nat] /\ restarts \in Nat
    /\ \A t \in Threads :
        /\ loc[t].key \in Keys \cup {0}
        /\ loc[t].arr \in Arrays \cup {None} /\ loc[t].old \in Arrays \cup {None}
        /\ pc[t] = "get" => loc[t].arr \in Arrays /\ loc[t].next \in Cells
        /\ pc[t] \in {"pop", "release", "swap", "recycle", "spare"} => loc[t].old \in Arrays

Writer(k, labels) == \E t \in Writers : pc[t] \in labels /\ loc[t].key = k

(* The array that holds the posting of a key.  A call takes effect when it *)
(* gives the blocks of the old version back: from then on the new version  *)
(* is the posting, although the mapping still points to the old one.       *)
Current(k) ==
    IF Writer(k, {"swap"})
    THEN loc[CHOOSE t \in Writers : pc[t] = "swap" /\ loc[t].key = k].arr
    ELSE IF Writer(k, {"spare", "unmap"}) THEN None ELSE at[k]

Posting(k) ==
    IF Current(k) = None THEN None
    ELSE IF heap[Current(k)].size < 0 THEN None
    ELSE ReadBlocks(heap[Current(k)])

(* The places where block b is: in the pool, in a posting, or among the    *)
(* new blocks of a writer.                                                 *)
InPool(b) == {<<"pool", i>> : i \in {j \in DOMAIN free : free[j] = b}}
InPosting(b, k) ==
    IF Current(k) = None THEN {}
    ELSE {<<"posting", k, i>> : i \in {j \in 1 .. Pages(heap[Current(k)].size) :
                                            heap[Current(k)].addr[j] = b}}
InHand(b, t) ==
    LET l == loc[t]
        first == l.last - Pages(Len(l.value)) + 1
    IN  IF pc[t] \in {"get", "write", "release"}
        THEN {<<"hand", t, i>> : i \in {j \in first .. l.next - 1 : heap[l.arr].addr[j] = b}}
        ELSE {}

(* No block is lost and none is in two postings: before a restart every    *)
(* block is in exactly one place, whatever the writers of several postings *)
(* take from the pool and give back between each other's steps.            *)
BlocksConserved ==
    restarts = 0 => \A b \in Blocks :
        Cardinality(InPool(b) \cup (UNION {InPosting(b, k) : k \in Keys})
                        \cup (UNION {InHand(b, t) : t \in Writers})) = 1

(* No array is used twice: it is in the mapping, among the spare arrays or *)
(* in the hands of one writer.  Delete makes it spare before it takes it   *)
(* out of the mapping.                                                     *)
ArraysOnce ==
    \A a \in Arrays :
        LET mapped == {k \in Keys : at[k] = a /\ ~Writer(k, {"unmap"})}
            spares == {i \in DOMAIN buffer : buffer[i] = a}
            hands == {t \in Writers : \/ /\ pc[t] \in {"get", "write", "release", "swap"}
                                         /\ loc[t].old # None /\ loc[t].arr = a
                                      \/ pc[t] = "recycle" /\ loc[t].old = a}
        IN  Cardinality(mapped) + Cardinality(spares) + Cardinality(hands) <= 1

(* Put and Merge spin while there is no spare array, GetBlocks while the   *)
(* pool is empty, and the thread holds the lock of a posting meanwhile.    *)
(* On a device with room for one posting of full size for every key and    *)
(* one more for every writer, each call comes to an end all the same: what *)
(* the others hold always comes back.                                      *)
CallsReturn == \A t \in Writers : pc[t] # "idle" ~> pc[t] = "idle"

(* The store is a key value store: every step of a writer leaves all the   *)
(* postings as they are, or is one Put, Merge or Delete of one posting.  A *)
(* restart keeps them, as long as nothing is written afterwards.           *)
KV == INSTANCE KeyValueStore
        WITH Absent <- None, store <- [k \in Keys |-> Posting(k)]
Implements == KV!Spec

(* A search without a lock gets the posting of a key as it is when nobody  *)
(* writes that key during the call: the writers of other postings never    *)
(* touch its array or its blocks.                                          *)
QuietReadIsExact ==
    \A r \in Readers :
        LET l == loc[r] IN
        /\ pc[r] = "blocks" /\ l.quiet = calls[l.key]
        => l.header.size >= 0 /\ ReadBlocks(l.header) = Posting(l.key)

(* ReadBlocks says it reads a posting list: what it returns for a key that *)
(* nobody writes during the call was not written under another key.  This  *)
(* is not so when postings are written after a restart.                    *)
WrittenUnder(k) ==
    UNION {{v[i] : i \in DOMAIN v} : v \in PutValues[k] \cup MergeValues[k]}
QuietReadIsOwn ==
    \A r \in Readers :
        LET v == ReadBlocks(loc[r].header) IN
        pc[r] = "blocks" /\ loc[r].quiet = calls[loc[r].key]
        => \A i \in DOMAIN v, k \in Keys \ {loc[r].key} : v[i] \notin WrittenUnder(k)
=============================================================================
