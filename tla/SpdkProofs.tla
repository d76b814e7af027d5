----------------------------- MODULE SpdkProofs -----------------------------
(***************************************************************************)
(* The SPDK store for any number of heads, writers, readers, blocks and    *)
(* arrays: its types (no cell is filled beyond the array, no spare array   *)
(* is missing at the end of a call), that no array is used twice, that no  *)
(* block is lost or in two postings, that a search without a lock gets the *)
(* posting of a head nobody writes, and that it is a key value store.      *)
(***************************************************************************)
EXTENDS SpdkBlocks, FiniteSetTheorems, SequenceTheorems, TLAPS

----------------------------------------------------------------------------
(* The types of the shared state, of the threads' locals and of the places *)
(* where a thread can be.                                                  *)

Posts == Seq(Items \cup {Blank})
Array == [size : Nat \cup {-1}, addr : [Cells -> Blocks \cup {None}]]
Local ==
    [op : {"none", "put", "merge", "delete", "read"}, key : Keys \cup {0}, value : Posts,
     size : Nat, delta : Int, next : Nat \ {0}, last : Nat, arr : Arrays \cup {None},
     old : Arrays \cup {None}, header : Array, quiet : Int]

Growing   == {"grow", "slot"}
Filling   == {"get", "write"}
Replacing == {"release", "swap"}
Deleting  == {"spare", "unmap"}
Calling   == Growing \cup {"pop"} \cup Filling \cup Replacing \cup {"recycle"} \cup Deleting
Reading   == {"header", "blocks"}

SharedType ==
    /\ rows \in Nat
    /\ at \in [Keys -> Arrays \cup {None}]
    /\ heap \in [Arrays -> Array]
    /\ buffer \in Seq(Arrays)
    /\ free \in Seq(Blocks)
    /\ disk \in [Blocks -> [1..PageSize -> Items \cup {Blank}]]
    /\ calls \in [Keys -> Nat] /\ restarts \in Nat
ThreadsType ==
    /\ pc \in [Threads -> {"idle"} \cup Calling \cup Reading]
    /\ loc \in [Threads -> Local]
    /\ \A t \in Writers : pc[t] \notin Reading
    /\ \A r \in Readers : pc[r] \notin Calling
Types == SharedType /\ ThreadsType

(* What a thread at label p knows of its arrays: whether it has a new one, *)
(* and that the mapping points to the one it replaces or fills in place.   *)
Knows(p, l) ==
    /\ p = "idle" => l = Idle
    /\ p \in Calling \cup Reading => l.key \in Keys
    /\ p \in Growing => l.op = "put" /\ l.arr = None /\ l.old = None
    /\ p \in Filling \cup Replacing \cup {"recycle"} => l.arr \in Arrays
    /\ p \in {"pop"} \cup Replacing \cup {"recycle"} \cup Deleting => l.old \in Arrays
    /\ p \in {"pop"} \cup Deleting => l.arr = None
    /\ p \in {"pop"} \cup Filling \cup Replacing => l.op \in {"put", "merge"}
    /\ p \in {"pop"} \cup Replacing \cup Deleting => at[l.key] = l.old
    /\ p \in Filling => at[l.key] = IF l.old = None THEN l.arr ELSE l.old
    /\ p = "recycle" => at[l.key] = l.arr
    /\ p \in Reading => l.old = None
    /\ p = "header" => l.arr \in Arrays
Known == \A t \in Threads : Knows(pc[t], loc[t])

(* The lock of a posting has one holder. *)
Alone == \A t, u \in Writers :
    t # u /\ pc[t] # "idle" /\ pc[u] # "idle" => loc[t].key # loc[u].key

(* The array that belongs to a key; Delete has made it a spare one before  *)
(* it takes it out of the mapping.  And the one that belongs to a writer.  *)
MapOf(k) == IF \E t \in Writers : pc[t] = "unmap" /\ loc[t].key = k THEN None ELSE at[k]
Hand(t) ==
    IF pc[t] \in Filling \cup Replacing /\ loc[t].old # None THEN loc[t].arr
    ELSE IF pc[t] = "recycle" THEN loc[t].old ELSE None

(* Every cell that the size of an array counts holds a block, and there    *)
(* are cells for all of them: what QuietReadIsExact and the reads of Merge *)
(* and Delete need.                                                        *)
Whole(a) == /\ Pages(heap[a].size) < BlockLimit
            /\ \A i \in 1 .. Pages(heap[a].size) : heap[a].addr[i] \in Blocks

(* The cells that a call fills, First .. last, are the last ones of its    *)
(* new size, and next says how far it got.                                 *)
First(l) == l.last - Pages(Len(l.value)) + 1
Ranges(p, l) ==
    /\ p \in Growing \cup {"pop"} \cup Filling =>
          /\ l.last = Pages(l.size) /\ l.last < BlockLimit /\ First(l) >= 1
          /\ l.op = "put" => First(l) = 1 /\ l.size = Len(l.value)
    /\ p \in Growing \cup {"pop"} => l.next = First(l)
    /\ p = "grow" => l.delta > 0
    /\ p = "get" => First(l) <= l.next /\ l.next <= l.last
    /\ p = "write" => l.next = l.last + 1
    /\ p \in Replacing => l.last = Pages(l.size) /\ First(l) >= 1

(* The cells before next hold blocks, the ones that Merge copied and the   *)
(* ones that GetBlocks filled.                                             *)
Filled(p, l) ==
    /\ p \in Filling => \A i \in 1 .. l.next - 1 : heap[l.arr].addr[i] \in Blocks
    /\ p \in Filling /\ l.op = "put" /\ l.old = None => heap[l.arr].size = -1
    /\ p \in Replacing => heap[l.arr].size = l.size

(* A call that replaces or extends a posting of n items: a merge starts at *)
(* the block that is not full, and works in place when there is none.      *)
Extends(l, n) ==
    /\ n >= 0
    /\ l.op = "merge" => First(l) = (n \div PageSize) + 1 /\ (l.old = None <=> n % PageSize = 0)
Replaces(p, l) ==
    /\ p \in {"pop"} \cup Filling \cup {"release"} /\ l.old # None => Extends(l, heap[l.old].size)
    /\ p \in Filling /\ l.op = "merge" /\ l.old = None => Extends(l, heap[l.arr].size)

Fits(p, l) == Ranges(p, l) /\ Filled(p, l) /\ Replaces(p, l)
Fitting == \A t \in Writers : Fits(pc[t], loc[t])

(* All arrays are whole but the ones that are being filled. *)
Wholes == \A a \in Arrays : (\A t \in Writers : pc[t] \in Filling => Hand(t) # a) => Whole(a)

----------------------------------------------------------------------------
(* Whole blocks *)

(* Division with a rest, and its inverse. *)
LEMMA Division ==
    ASSUME NEW d \in Nat \ {0}, NEW n \in Int
    PROVE  n \div d \in Int /\ n % d \in 0 .. d - 1 /\ n = (n \div d) * d + (n % d)
OBVIOUS

LEMMA Quotient ==
    ASSUME NEW d \in Nat \ {0}, NEW q \in Int, NEW r \in 0 .. d - 1
    PROVE  (q * d + r) \div d = q /\ (q * d + r) % d = r
OBVIOUS

(* A block holds an item, an array has a cell for its size. *)
LEMMA PageSizeType == PageSize \in Nat \ {0} /\ BlockLimit \in Nat \ {0}
BY SpdkAssumption

(* The blocks of n items are as many as it takes. *)
LEMMA PagesBound ==
    ASSUME NEW n \in Int
    PROVE  /\ Pages(n) \in Int
           /\ n <= Pages(n) * PageSize /\ Pages(n) * PageSize <= n + PageSize - 1
<1> DEFINE m == n + PageSize - 1
<1>1. m \in Int /\ m = (m \div PageSize) * PageSize + (m % PageSize)
      /\ m \div PageSize \in Int /\ m % PageSize \in 0 .. PageSize - 1
  BY PageSizeType, Division
<1> DEFINE q == m \div PageSize
           r == m % PageSize
           z == q * PageSize
<1>2. z \in Int /\ q \in Int /\ r \in 0 .. PageSize - 1 /\ n + PageSize - 1 = z + r
  BY <1>1, PageSizeType
<1>3. Pages(n) = q
  BY DEF Pages
<1> HIDE DEF q, r, m
<1>4. n <= z /\ z <= n + PageSize - 1
  <2> HIDE DEF z
  <2> QED
    BY <1>2, PageSizeType
<1> QED
  BY <1>2, <1>3, <1>4

(* And no other number does. *)
LEMMA PagesUnique ==
    ASSUME NEW n \in Int, NEW p \in Int,
           n <= p * PageSize, p * PageSize <= n + PageSize - 1
    PROVE  Pages(n) = p
<1> DEFINE r == n + PageSize - 1 - p * PageSize
<1>1. p * PageSize \in Int /\ r \in 0 .. PageSize - 1 /\ n + PageSize - 1 = p * PageSize + r
  BY PageSizeType
<1> HIDE DEF r
<1> QED
  BY <1>1, PageSizeType, Quotient DEF Pages

(* Full blocks and what comes after them. *)
LEMMA PagesAdd ==
    ASSUME NEW f \in Int, NEW x \in Int
    PROVE  Pages(f * PageSize + x) = f + Pages(x)
<1> DEFINE y == f * PageSize
           z == Pages(x) * PageSize
<1>1. Pages(x) \in Int /\ y \in Int /\ z \in Int /\ x <= z /\ z <= x + PageSize - 1
  BY PagesBound, PageSizeType
<1>2. (f + Pages(x)) * PageSize = y + z
  BY <1>1, PageSizeType
<1> HIDE DEF y, z
<1>3. y + x <= y + z /\ y + z <= y + x + PageSize - 1 /\ y + x \in Int /\ f + Pages(x) \in Int
  BY <1>1, PageSizeType
<1>4. Pages(y + x) = f + Pages(x)
  BY <1>2, <1>3, PagesUnique
<1> QED
  BY <1>4 DEF y

(* Nothing takes no block, and what fits in one takes one. *)
LEMMA PagesSmall ==
    /\ Pages(0) = 0
    /\ \A x \in 1 .. PageSize : Pages(x) = 1
    /\ \A n \in Nat : Pages(n) \in Nat /\ (Pages(n) = 0 => n = 0)
<1>1. Pages(0) = 0
  BY PagesUnique, PageSizeType
<1>2. ASSUME NEW x \in 1 .. PageSize PROVE Pages(x) = 1
  BY PagesUnique, PageSizeType
<1>3. ASSUME NEW n \in Nat PROVE Pages(n) \in Nat /\ (Pages(n) = 0 => n = 0)
  <2>1. Pages(n) \in Int /\ n <= Pages(n) * PageSize
    BY PagesBound
  <2>2. ASSUME Pages(n) <= -1 PROVE FALSE
    <3>1. PICK p \in Int : p = Pages(n)
      BY <2>1
    <3>2. p <= -1 /\ 0 <= p * PageSize
      BY <2>1, <2>2, <3>1, PageSizeType
    <3> QED
      BY <3>2, PageSizeType
  <2>3. Pages(n) = 0 => n = 0
    BY <2>1, PageSizeType
  <2> QED
    BY <2>1, <2>2, <2>3
<1> QED
  BY <1>1, <1>2, <1>3

(* A posting of n items has n \div PageSize full blocks, and one more if    *)
(* there is a rest; appending x items leaves the full ones.                 *)
LEMMA PagesRest ==
    ASSUME NEW n \in Nat
    PROVE  /\ n \div PageSize \in Nat /\ n % PageSize \in 0 .. PageSize - 1
           /\ n = (n \div PageSize) * PageSize + (n % PageSize)
           /\ n % PageSize = 0 => Pages(n) = n \div PageSize
           /\ n % PageSize # 0 => Pages(n) = (n \div PageSize) + 1
           /\ \A x \in Nat : Pages(n + x) = (n \div PageSize) + Pages((n % PageSize) + x)
<1> DEFINE q == n \div PageSize
           r == n % PageSize
           z == q * PageSize
<1>1. q \in Int /\ r \in 0 .. PageSize - 1 /\ n = z + r /\ z \in Int
  BY PageSizeType, Division
<1>2. q \in Nat
  <2>1. ASSUME q <= -1 PROVE FALSE
    <3> HIDE DEF q, r
    <3>1. z <= -PageSize
      BY <1>1, <2>1, PageSizeType
    <3> HIDE DEF z
    <3> QED
      BY <1>1, <3>1, PageSizeType
  <2> QED
    BY <1>1, <2>1
<1> HIDE DEF q, r
<1>3. ASSUME NEW x \in Nat PROVE Pages(n + x) = q + Pages(r + x)
  <2>1. n + x = z + (r + x) /\ r + x \in Int
    BY <1>1 DEF z
  <2> QED
    BY <1>1, <2>1, PagesAdd
<1>4. Pages(n) = q + Pages(r)
  BY <1>1, PagesAdd
<1>5. r = 0 => Pages(n) = q
  BY <1>1, <1>4, PagesSmall
<1>6. ASSUME r # 0 PROVE Pages(n) = q + 1
  <2>1. r \in 1 .. PageSize
    BY <1>1, <1>6, PageSizeType
  <2>2. Pages(r) = 1
    BY <2>1, PagesSmall
  <2> QED
    BY <1>4, <2>2
<1>7. n = q * PageSize + r
  BY <1>1
<1>8. \A x \in Nat : Pages(n + x) = q + Pages(r + x)
  BY <1>3
<1>9. r \in 0 .. PageSize - 1
  BY <1>1
<1> QED
  BY <1>2, <1>5, <1>6, <1>7, <1>8, <1>9 DEF q, r

----------------------------------------------------------------------------
(* What each step does to its thread: where it goes on, with which locals *)

Others(t) == \A u \in Threads \ {t} : pc'[u] = pc[u] /\ loc'[u] = loc[u]

LEMMA KeysType == Keys \subseteq Nat /\ None \notin Arrays /\ None \notin Blocks
<1>1. Keys = 0 .. Cardinality(Keys) - 1 /\ Cardinality(Keys) \in Nat /\ None \notin Nat
  BY SpdkAssumption, FS_CardinalityType
<1> QED
  BY <1>1, SpdkAssumption DEF Arrays, Blocks

LEMMA NoArrayType == NoArray \in Array
BY DEF NoArray, Array

LEMMA IdleType == Idle \in Local
<1>1. NoArray \in Array /\ <<>> \in Posts
  BY NoArrayType DEF Posts
<1> HIDE DEF NoArray, Posts
<1> QED
  BY <1>1 DEF Idle, Local

LEMMA GotoThread ==
    ASSUME ThreadsType, NEW t \in Threads, NEW label, NEW l, Goto(t, label, l)
    PROVE  Others(t) /\ pc'[t] = label /\ loc'[t] = l
BY DEF ThreadsType, Goto, Others

LEMMA DoneThread ==
    ASSUME ThreadsType, NEW t \in Threads, Done(t)
    PROVE  Others(t) /\ pc'[t] = "idle" /\ loc'[t] = Idle
BY GotoThread DEF Done

LEMMA FillThread ==
    ASSUME ThreadsType, NEW t \in Threads, NEW l, Fill(t, l)
    PROVE  /\ Others(t) /\ loc'[t] = l
           /\ pc'[t] = IF l.next <= l.last THEN "get" ELSE "write"
BY GotoThread DEF Fill

LEMMA WriterThread == ASSUME NEW t \in Writers PROVE t \in Threads
BY DEF Threads

(* What a call was made with, and what changes on its way. *)
CallKept(t) ==
    /\ loc'[t].op = loc[t].op /\ loc'[t].key = loc[t].key /\ loc'[t].value = loc[t].value
    /\ loc'[t].size = loc[t].size /\ loc'[t].last = loc[t].last

Fills(t) == pc'[t] = IF loc'[t].next <= loc'[t].last THEN "get" ELSE "write"

(* A call is made of an idle thread, so that all other locals are the first ones. *)
LEMMA PutFrame ==
    ASSUME Types, NEW t \in Writers, NEW k \in Keys, NEW v \in PutValues[k], Put(t, k, v)
    PROVE  /\ Others(t) /\ pc'[t] = (IF k + 1 > rows THEN "grow" ELSE "slot")
           /\ loc'[t].op = "put" /\ loc'[t].key = k /\ loc'[t].value = v /\ v \in Seq(Items)
           /\ loc'[t].size = Len(v) /\ loc'[t].delta = k + 1 - rows /\ loc'[t].next = 1
           /\ loc'[t].last = Pages(Len(v)) /\ loc'[t].arr = None /\ loc'[t].old = None
           /\ loc'[t] \in Local
<1> DEFINE s == Len(v)
           d == k + 1 - rows
           n == Pages(s)
           p == IF k + 1 > rows THEN "grow" ELSE "slot"
           i == Idle
           l == [i EXCEPT !.op = "put", !.key = k, !.value = v, !.size = s, !.delta = d, !.last = n]
<1>1. Goto(t, p, l)
  BY DEF Put
<1>2. i \in Local /\ i.next = 1 /\ i.arr = None /\ i.old = None
  BY IdleType DEF Idle
<1>3. v \in Seq(Items) /\ v \in Posts
  BY SpdkAssumption DEF Posts
<1>4. s \in Nat /\ n \in Nat /\ d \in Int
  BY <1>3, KeysType, PagesSmall DEF Types, SharedType
<1> HIDE DEF s, d, n, p, i
<1>5. /\ l.op = "put" /\ l.key = k /\ l.value = v /\ l.size = s /\ l.delta = d /\ l.next = 1
      /\ l.last = n /\ l.arr = None /\ l.old = None /\ l \in Local
  BY <1>2, <1>3, <1>4 DEF Local
<1> HIDE DEF l
<1>6. Others(t) /\ pc'[t] = p /\ loc'[t] = l
  BY <1>1, GotoThread, WriterThread DEF Types
<1> QED
  BY <1>3, <1>5, <1>6 DEF s, d, n, p

LEMMA GrowFrame ==
    ASSUME Types, NEW t \in Writers, Grow(t)
    PROVE  Others(t) /\ pc'[t] = "slot" /\ loc'[t] = loc[t]
BY GotoThread, WriterThread DEF Grow, Types

(* The array that Slot finds or makes for the key of t. *)
SlotArray(t) ==
    IF at[loc[t].key] # None THEN at[loc[t].key]
    ELSE IF Len(buffer) > BufferSize THEN Head(buffer) ELSE NewArray

LEMMA SlotFrame ==
    ASSUME Types, NEW t \in Writers, Slot(t), SlotArray(t) \in Arrays
    PROVE  /\ Others(t) /\ CallKept(t) /\ loc'[t].next = loc[t].next /\ loc'[t] \in Local
           /\ \/ /\ heap'[SlotArray(t)].size < 0 /\ Fills(t)
                 /\ loc'[t].arr = SlotArray(t) /\ loc'[t].old = loc[t].old
              \/ /\ ~(heap'[SlotArray(t)].size < 0) /\ pc'[t] = "pop"
                 /\ loc'[t].arr = loc[t].arr /\ loc'[t].old = SlotArray(t)
<1> DEFINE a == SlotArray(t)
           k == loc[t]
<1>1. k \in Local
  BY WriterThread DEF Types, ThreadsType
<1>2. IF heap'[a].size < 0 THEN Fill(t, [k EXCEPT !.arr = a])
                           ELSE Goto(t, "pop", [k EXCEPT !.old = a])
  BY DEF Slot, SlotArray
<1> HIDE DEF a, k
<1>3. CASE heap'[a].size < 0
  <2> DEFINE l == [k EXCEPT !.arr = a]
  <2>1. /\ l.op = k.op /\ l.key = k.key /\ l.value = k.value /\ l.size = k.size /\ l.last = k.last
        /\ l.next = k.next /\ l.arr = a /\ l.old = k.old /\ l \in Local
    BY <1>1 DEF Local, a
  <2>2. Fill(t, l)
    BY <1>2, <1>3
  <2> HIDE DEF l
  <2>3. Others(t) /\ loc'[t] = l /\ pc'[t] = IF l.next <= l.last THEN "get" ELSE "write"
    BY <2>2, FillThread, WriterThread DEF Types
  <2> QED
    BY <1>3, <2>1, <2>3 DEF a, k, CallKept, Fills
<1>4. CASE ~(heap'[a].size < 0)
  <2> DEFINE l == [k EXCEPT !.old = a]
  <2>1. /\ l.op = k.op /\ l.key = k.key /\ l.value = k.value /\ l.size = k.size /\ l.last = k.last
        /\ l.next = k.next /\ l.arr = k.arr /\ l.old = a /\ l \in Local
    BY <1>1 DEF Local, a
  <2>2. Goto(t, "pop", l)
    BY <1>2, <1>4
  <2> HIDE DEF l
  <2>3. Others(t) /\ loc'[t] = l /\ pc'[t] = "pop"
    BY <2>2, GotoThread, WriterThread DEF Types
  <2> QED
    BY <1>4, <2>1, <2>3 DEF a, k, CallKept
<1> QED
  BY <1>3, <1>4

LEMMA PopFrame ==
    ASSUME Types, NEW t \in Writers, Pop(t)
    PROVE  /\ Others(t) /\ CallKept(t) /\ loc'[t].next = loc[t].next /\ loc'[t].old = loc[t].old
           /\ Head(buffer) \in Arrays /\ loc'[t].arr = Head(buffer) /\ Fills(t) /\ loc'[t] \in Local
<1> DEFINE a == Head(buffer)
           k == loc[t]
           l == [k EXCEPT !.arr = a]
<1>1. k \in Local /\ a \in Arrays
  BY WriterThread, HeadTailProperties DEF Pop, Types, ThreadsType, SharedType
<1>2. Fill(t, l)
  BY DEF Pop
<1> HIDE DEF a, k
<1>3. /\ l.op = k.op /\ l.key = k.key /\ l.value = k.value /\ l.size = k.size /\ l.last = k.last
      /\ l.next = k.next /\ l.arr = a /\ l.old = k.old /\ l \in Local
  BY <1>1 DEF Local
<1> HIDE DEF l
<1>4. Others(t) /\ loc'[t] = l /\ pc'[t] = IF l.next <= l.last THEN "get" ELSE "write"
  BY <1>2, FillThread, WriterThread DEF Types
<1> QED
  BY <1>1, <1>3, <1>4 DEF a, k, CallKept, Fills

LEMMA GetBlockFrame ==
    ASSUME Types, NEW t \in Writers, GetBlock(t)
    PROVE  /\ Others(t) /\ CallKept(t) /\ loc'[t].next = loc[t].next + 1
           /\ loc'[t].arr = loc[t].arr /\ loc'[t].old = loc[t].old /\ Fills(t) /\ loc'[t] \in Local
<1> DEFINE k == loc[t]
           n == k.next + 1
           l == [k EXCEPT !.next = n]
<1>1. k \in Local
  BY WriterThread DEF Types, ThreadsType
<1>2. n \in Nat \ {0}
  BY <1>1 DEF Local
<1>3. Fill(t, l)
  BY DEF GetBlock
<1> HIDE DEF k, n
<1>4. /\ l.op = k.op /\ l.key = k.key /\ l.value = k.value /\ l.size = k.size /\ l.last = k.last
      /\ l.next = n /\ l.arr = k.arr /\ l.old = k.old /\ l \in Local
  BY <1>1, <1>2 DEF Local
<1> HIDE DEF l
<1>5. Others(t) /\ loc'[t] = l /\ pc'[t] = IF l.next <= l.last THEN "get" ELSE "write"
  BY <1>3, FillThread, WriterThread DEF Types
<1> QED
  BY <1>4, <1>5 DEF k, n, CallKept, Fills

LEMMA WriteFrame ==
    ASSUME Types, NEW t \in Writers, Write(t)
    PROVE  /\ Others(t)
           /\ IF loc[t].old = None THEN pc'[t] = "idle" /\ loc'[t] = Idle
                                   ELSE pc'[t] = "release" /\ loc'[t] = loc[t]
BY GotoThread, DoneThread, WriterThread DEF Write, Types

LEMMA ReleaseFrame ==
    ASSUME Types, NEW t \in Writers, Release(t)
    PROVE  Others(t) /\ pc'[t] = "swap" /\ loc'[t] = loc[t]
BY GotoThread, WriterThread DEF Release, Types

LEMMA SwapFrame ==
    ASSUME Types, NEW t \in Writers, Swap(t), loc[t].key \in Keys
    PROVE  /\ Others(t) /\ pc'[t] = "recycle" /\ CallKept(t) /\ loc'[t].arr = loc[t].arr
           /\ loc'[t].old = at[loc[t].key] /\ loc'[t] \in Local
<1> DEFINE k == loc[t]
           a == at[k.key]
           l == [k EXCEPT !.old = a]
<1>1. k \in Local /\ a \in Arrays \cup {None}
  BY WriterThread DEF Types, ThreadsType, SharedType
<1>2. Goto(t, "recycle", l)
  BY DEF Swap
<1> HIDE DEF k, a
<1>3. /\ l.op = k.op /\ l.key = k.key /\ l.value = k.value /\ l.size = k.size /\ l.last = k.last
      /\ l.arr = k.arr /\ l.old = a /\ l \in Local
  BY <1>1 DEF Local
<1> HIDE DEF l
<1>4. Others(t) /\ loc'[t] = l /\ pc'[t] = "recycle"
  BY <1>2, GotoThread, WriterThread DEF Types
<1> QED
  BY <1>3, <1>4 DEF a, k, CallKept

LEMMA EndFrame ==
    ASSUME Types, NEW t \in Writers, Recycle(t) \/ DeleteUnmap(t)
    PROVE  Others(t) /\ pc'[t] = "idle" /\ loc'[t] = Idle
BY DoneThread, WriterThread DEF Recycle, DeleteUnmap, Types

LEMMA DeleteSpareFrame ==
    ASSUME Types, NEW t \in Writers, DeleteSpare(t)
    PROVE  Others(t) /\ pc'[t] = "unmap" /\ loc'[t] = loc[t]
BY GotoThread, WriterThread DEF DeleteSpare, Types

LEMMA DeleteFrame ==
    ASSUME Types, NEW t \in Writers, NEW k \in Keys, Delete(t, k)
    PROVE  /\ Others(t) /\ pc'[t] = "spare" /\ loc'[t].key = k /\ loc'[t].old = at[k]
           /\ loc'[t].arr = None /\ at[k] \in Arrays /\ loc'[t] \in Local
<1> DEFINE a == at[k]
           i == Idle
           l == [i EXCEPT !.op = "delete", !.key = k, !.old = a]
<1>1. i \in Local /\ i.arr = None /\ a \in Arrays
  BY IdleType DEF Idle, Delete, Mapped, Types, SharedType
<1>2. Goto(t, "spare", l)
  BY DEF Delete
<1> HIDE DEF i, a
<1>3. l.key = k /\ l.old = a /\ l.arr = None /\ l \in Local
  BY <1>1 DEF Local
<1> HIDE DEF l
<1>4. Others(t) /\ loc'[t] = l /\ pc'[t] = "spare"
  BY <1>2, GotoThread, WriterThread DEF Types
<1> QED
  BY <1>1, <1>3, <1>4 DEF a

(* What Merge writes: the last block of the posting as far as it is filled, *)
(* and then what it appends.                                                *)
RestOf(a) ==
    IF heap[a].size % PageSize = 0 THEN <<>>
    ELSE SubSeq(disk[heap[a].addr[(heap[a].size \div PageSize) + 1]], 1, heap[a].size % PageSize)

LEMMA MergeFrame ==
    ASSUME Types, NEW t \in Writers, NEW k \in Keys, NEW v \in MergeValues[k], Merge(t, k, v),
           RestOf(at[k]) \in Posts
    PROVE  LET n == heap[at[k]].size IN
           /\ Others(t) /\ at[k] \in Arrays /\ n \in Nat /\ v \in Seq(Items)
           /\ loc'[t].op = "merge" /\ loc'[t].key = k /\ loc'[t].value = RestOf(at[k]) \o v
           /\ loc'[t].size = n + Len(v) /\ loc'[t].next = (n \div PageSize) + 1
           /\ loc'[t].last = Pages(n + Len(v)) /\ loc'[t] \in Local
           /\ IF n % PageSize # 0
              THEN pc'[t] = "pop" /\ loc'[t].old = at[k] /\ loc'[t].arr = None
              ELSE pc'[t] = "get" /\ loc'[t].arr = at[k] /\ loc'[t].old = None
<1> DEFINE n == heap[at[k]].size
           w == RestOf(at[k]) \o v
           s == n + Len(v)
           f == (n \div PageSize) + 1
           p == Pages(s)
           a == at[k]
           i == Idle
           l == [i EXCEPT !.op = "merge", !.key = k, !.value = w, !.size = s, !.next = f, !.last = p]
<1>1. i \in Local /\ i.arr = None /\ i.old = None
  BY IdleType DEF Idle
<1>2. a \in Arrays /\ n \in Nat
  BY DEF Merge, Mapped, Types, SharedType, Array
<1>3. v \in Seq(Items) /\ v \in Posts
  BY SpdkAssumption DEF Posts
<1>4. w \in Posts
  BY <1>3 DEF Posts
<1>5. s \in Nat /\ f \in Nat \ {0} /\ p \in Nat
  <2>1. s \in Nat
    BY <1>2, <1>3
  <2>2. n \div PageSize \in Nat
    <3> HIDE DEF n
    <3> QED
      BY <1>2, PagesRest
  <2> HIDE DEF s, n
  <2> QED
    BY <2>1, <2>2, PagesSmall
<1>6. IF n % PageSize # 0 THEN Goto(t, "pop", [l EXCEPT !.old = a])
                          ELSE Goto(t, "get", [l EXCEPT !.arr = a])
  BY DEF Merge, RestOf
<1> HIDE DEF n, w, s, f, p, a, i
<1>7. /\ l.op = "merge" /\ l.key = k /\ l.value = w /\ l.size = s /\ l.next = f /\ l.last = p
      /\ l.arr = None /\ l.old = None /\ l \in Local
  BY <1>1, <1>4, <1>5 DEF Local
<1> HIDE DEF l
<1>8. CASE n % PageSize # 0
  <2> DEFINE m == [l EXCEPT !.old = a]
  <2>1. /\ m.op = "merge" /\ m.key = k /\ m.value = w /\ m.size = s /\ m.next = f /\ m.last = p
        /\ m.arr = None /\ m.old = a /\ m \in Local
    BY <1>2, <1>7 DEF Local
  <2>2. Goto(t, "pop", m)
    BY <1>6, <1>8
  <2> HIDE DEF m
  <2>3. Others(t) /\ loc'[t] = m /\ pc'[t] = "pop"
    BY <2>2, GotoThread, WriterThread DEF Types
  <2> QED
    BY <1>2, <1>3, <1>8, <2>1, <2>3 DEF n, w, s, f, p, a
<1>9. CASE n % PageSize = 0
  <2> DEFINE m == [l EXCEPT !.arr = a]
  <2>1. /\ m.op = "merge" /\ m.key = k /\ m.value = w /\ m.size = s /\ m.next = f /\ m.last = p
        /\ m.arr = a /\ m.old = None /\ m \in Local
    BY <1>2, <1>7 DEF Local
  <2>2. Goto(t, "get", m)
    BY <1>6, <1>9
  <2> HIDE DEF m
  <2>3. Others(t) /\ loc'[t] = m /\ pc'[t] = "get"
    BY <2>2, GotoThread, WriterThread DEF Types
  <2> QED
    BY <1>2, <1>3, <1>9, <2>1, <2>3 DEF n, w, s, f, p, a
<1> QED
  BY <1>8, <1>9

LEMMA ReadMappingFrame ==
    ASSUME Types, NEW r \in Readers, NEW k \in Keys, ReadMapping(r, k)
    PROVE  /\ Others(r) /\ pc'[r] = "header" /\ loc'[r].key = k /\ loc'[r].arr = at[k]
           /\ loc'[r].old = None /\ at[k] \in Arrays /\ loc'[r] \in Local
           /\ loc'[r].quiet = IF Locked(k) THEN -1 ELSE calls[k]
<1> DEFINE a == at[k]
           q == IF Locked(k) THEN -1 ELSE calls[k]
           i == Idle
           l == [i EXCEPT !.op = "read", !.key = k, !.arr = a, !.quiet = q]
<1>1. i \in Local /\ i.old = None /\ a \in Arrays /\ q \in Int
  BY IdleType DEF Idle, ReadMapping, Mapped, Types, SharedType
<1>2. Goto(r, "header", l)
  BY DEF ReadMapping
<1> HIDE DEF i, a, q
<1>3. l.key = k /\ l.old = None /\ l.arr = a /\ l.quiet = q /\ l \in Local
  BY <1>1 DEF Local
<1> HIDE DEF l
<1>4. Others(r) /\ loc'[r] = l /\ pc'[r] = "header"
  BY <1>2, GotoThread DEF Types, Threads
<1> QED
  BY <1>1, <1>3, <1>4 DEF a, q

LEMMA ReadHeaderFrame ==
    ASSUME Types, NEW r \in Readers, ReadHeader(r), loc[r].arr \in Arrays
    PROVE  /\ Others(r) /\ pc'[r] = "blocks" /\ loc'[r].key = loc[r].key
           /\ loc'[r].quiet = loc[r].quiet /\ loc'[r].header = heap[loc[r].arr]
           /\ loc'[r].arr = None /\ loc'[r].old = loc[r].old /\ loc'[r] \in Local
<1> DEFINE k == loc[r]
           h == heap[k.arr]
           l == [k EXCEPT !.header = h, !.arr = None]
<1>1. k \in Local /\ h \in Array
  BY DEF Types, ThreadsType, SharedType, Threads
<1>2. Goto(r, "blocks", l)
  BY DEF ReadHeader
<1> HIDE DEF k, h
<1>3. l.key = k.key /\ l.quiet = k.quiet /\ l.header = h /\ l.arr = None /\ l.old = k.old /\ l \in Local
  BY <1>1 DEF Local
<1> HIDE DEF l
<1>4. Others(r) /\ loc'[r] = l /\ pc'[r] = "blocks"
  BY <1>2, GotoThread DEF Types, Threads
<1> QED
  BY <1>3, <1>4 DEF k, h

LEMMA ReadDataFrame ==
    ASSUME Types, NEW r \in Readers, ReadData(r)
    PROVE  Others(r) /\ pc'[r] = "idle" /\ loc'[r] = Idle
BY DoneThread DEF ReadData, Types, Threads

----------------------------------------------------------------------------
(* What a thread knows of its array, and that it is alone with its posting *)

LEMMA Apart == \A t \in Writers : t \notin Readers
BY SpdkAssumption

(* A step of a thread changes the mapping for its own key only. *)
LEMMA KnownStep ==
    ASSUME Types, Known, Alone, NEW t \in Threads, Others(t), Knows(pc[t], loc[t])',
           \A k \in Keys : at'[k] = at[k] \/ (t \in Writers /\ pc[t] # "idle" /\ k = loc[t].key)
    PROVE  Known'
<1>1. ASSUME NEW u \in Threads \ {t} PROVE Knows(pc[u], loc[u])'
  <2>1. pc'[u] = pc[u] /\ loc'[u] = loc[u] /\ Knows(pc[u], loc[u])
    BY DEF Others, Known
  <2>2. CASE u \in Readers
    <3>1. pc[u] \notin Calling
      BY <2>2 DEF Types, ThreadsType
    <3> QED
      BY <2>1, <3>1 DEF Knows, Calling, Growing, Filling, Replacing, Deleting
  <2>3. CASE u \in Writers /\ pc[u] = "idle"
    BY <2>1, <2>3 DEF Knows, Calling, Growing, Filling, Replacing, Deleting, Reading
  <2>4. CASE u \in Writers /\ pc[u] # "idle"
    <3>1. pc[u] \in Calling /\ loc[u].key \in Keys
      BY <2>1, <2>4 DEF Types, ThreadsType, Threads, Knows
    <3>2. at'[loc[u].key] = at[loc[u].key]
      BY <2>4, <3>1 DEF Alone
    <3> QED
      BY <2>1, <3>2 DEF Knows
  <2> QED
    BY <2>2, <2>3, <2>4 DEF Threads
<1> QED
  BY <1>1 DEF Known

LEMMA AloneStep ==
    ASSUME Alone, NEW t \in Threads, Others(t),
           \/ t \in Readers
           \/ pc'[t] = "idle"
           \/ pc[t] # "idle" /\ loc'[t].key = loc[t].key
           \/ ~Locked(loc'[t].key)
    PROVE  Alone'
<1>1. ASSUME NEW u \in Writers, NEW w \in Writers, u # w, pc'[u] # "idle", pc'[w] # "idle",
             loc'[u].key = loc'[w].key
      PROVE  FALSE
  <2>1. \A x \in Writers : x # t => pc'[x] = pc[x] /\ loc'[x] = loc[x]
    BY WriterThread DEF Others
  <2>2. CASE u # t /\ w # t
    BY <1>1, <2>1, <2>2 DEF Alone
  <2>3. CASE (u = t \/ w = t) /\ t \in Writers
    <3>1. PICK x \in Writers \ {t} : pc'[x] # "idle" /\ loc'[x].key = loc'[t].key /\ pc'[t] # "idle"
      BY <1>1, <2>3
    <3>2. pc[x] # "idle" /\ loc[x].key = loc'[t].key
      BY <2>1, <3>1
    <3> QED
      BY <2>3, <3>1, <3>2, Apart DEF Alone, Locked
  <2> QED
    BY <2>2, <2>3
<1> QED
  BY <1>1 DEF Alone

(* The threads that are in a call of a key. *)
LEMMA CallerKnows ==
    ASSUME Types, Known, NEW t \in Writers
    PROVE  /\ loc[t] \in Local /\ Knows(pc[t], loc[t])
           /\ pc[t] # "idle" => pc[t] \in Calling /\ loc[t].key \in Keys
BY WriterThread DEF Types, ThreadsType, Known, Knows

(* The call of a writer begins. *)
Begins(t, k) ==
    /\ Others(t) /\ pc[t] = "idle" /\ ~Locked(k) /\ at' = at
    /\ pc'[t] \in {"grow", "slot", "pop", "get", "spare"} /\ loc'[t].key = k /\ loc'[t] \in Local
    /\ Knows(pc[t], loc[t])'

LEMMA PutBegins ==
    ASSUME Types, NEW t \in Writers, NEW k \in Keys, NEW v \in PutValues[k], Put(t, k, v)
    PROVE  Begins(t, k)
<1>1. /\ Others(t) /\ pc'[t] \in {"grow", "slot"} /\ loc'[t].op = "put" /\ loc'[t].key = k
      /\ loc'[t].arr = None /\ loc'[t].old = None /\ loc'[t] \in Local
  BY PutFrame
<1>2. pc[t] = "idle" /\ ~Locked(k) /\ at' = at
  BY DEF Put, Call
<1> QED
  BY <1>1, <1>2 DEF Begins, Knows, Calling, Growing, Filling, Replacing, Deleting, Reading

LEMMA MergeBegins ==
    ASSUME Types, NEW t \in Writers, NEW k \in Keys, NEW v \in MergeValues[k], Merge(t, k, v),
           RestOf(at[k]) \in Posts
    PROVE  Begins(t, k)
<1>1. /\ Others(t) /\ at[k] \in Arrays /\ loc'[t].op = "merge" /\ loc'[t].key = k
      /\ loc'[t] \in Local
      /\ \/ pc'[t] = "pop" /\ loc'[t].old = at[k] /\ loc'[t].arr = None
         \/ pc'[t] = "get" /\ loc'[t].arr = at[k] /\ loc'[t].old = None
  BY MergeFrame
<1>2. pc[t] = "idle" /\ ~Locked(k) /\ at' = at
  BY DEF Merge, Call
<1> QED
  BY <1>1, <1>2 DEF Begins, Knows, Calling, Growing, Filling, Replacing, Deleting, Reading

LEMMA DeleteBegins ==
    ASSUME Types, NEW t \in Writers, NEW k \in Keys, Delete(t, k)
    PROVE  Begins(t, k)
<1>1. pc[t] = "idle" /\ ~Locked(k) /\ at' = at
  BY DEF Delete, Call
<1> QED
  BY <1>1, DeleteFrame
     DEF Begins, Knows, Calling, Growing, Filling, Replacing, Deleting, Reading

LEMMA BeginsKnown ==
    ASSUME Types, Known, Alone, NEW t \in Writers, NEW k \in Keys, Begins(t, k)
    PROVE  Known' /\ Alone'
BY WriterThread, KnownStep, AloneStep DEF Begins

(* The call goes on. *)
Continues(t) ==
    /\ Others(t) /\ pc[t] # "idle" /\ loc'[t] \in Local /\ Knows(pc[t], loc[t])'
    /\ pc'[t] \in Calling \cup {"idle"}
    /\ pc'[t] # "idle" => loc'[t].key = loc[t].key
    /\ \A k \in Keys : at'[k] = at[k] \/ k = loc[t].key

LEMMA SlotContinues ==
    ASSUME Types, Known, NEW t \in Writers, Slot(t), SlotArray(t) \in Arrays
    PROVE  Continues(t) /\ at'[loc[t].key] = SlotArray(t)
<1> DEFINE a == SlotArray(t)
<1>1. /\ pc[t] = "slot" /\ loc[t] \in Local /\ loc[t].key \in Keys /\ loc[t].op = "put"
      /\ loc[t].arr = None /\ loc[t].old = None
  BY CallerKnows DEF Slot, Knows, Calling, Growing
<1>2. /\ Others(t) /\ CallKept(t) /\ loc'[t] \in Local
      /\ \/ pc'[t] \in Filling /\ loc'[t].arr = a /\ loc'[t].old = None
         \/ pc'[t] = "pop" /\ loc'[t].arr = None /\ loc'[t].old = a
  BY <1>1, SlotFrame DEF Fills, Filling
<1>3. at' = [at EXCEPT ![loc[t].key] = a]
  <2>1. at \in [Keys -> Arrays \cup {None}]
    BY DEF Types, SharedType
  <2>2. CASE at[loc[t].key] = None
    BY <2>2 DEF Slot, SlotArray
  <2>3. CASE at[loc[t].key] # None
    BY <2>1, <2>3 DEF Slot, SlotArray
  <2> QED
    BY <2>2, <2>3
<1>4. at'[loc[t].key] = a /\ \A k \in Keys : at'[k] = at[k] \/ k = loc[t].key
  BY <1>1, <1>3 DEF Types, SharedType
<1> HIDE DEF a
<1>5. a \in Arrays /\ None \notin Arrays
  BY KeysType DEF a
<1>6. Knows(pc[t], loc[t])'
  BY <1>1, <1>2, <1>4, <1>5
     DEF CallKept, Knows, Calling, Growing, Filling, Replacing, Deleting, Reading
<1> QED
  BY <1>1, <1>2, <1>4, <1>6 DEF Continues, CallKept, Filling, Calling, a

LEMMA StepContinues ==
    ASSUME Types, Known, NEW t \in Writers, Step(t), ~Slot(t)
    PROVE  Continues(t)
<1> USE DEF Calling, Growing, Filling, Replacing, Deleting, Reading
<1>1. /\ loc[t] \in Local /\ Knows(pc[t], loc[t]) /\ at \in [Keys -> Arrays \cup {None}]
      /\ None \notin Arrays
  BY CallerKnows, KeysType DEF Types, SharedType
<1>2. CASE Grow(t)
  <2>1. pc[t] = "grow" /\ at' = at /\ Others(t) /\ pc'[t] = "slot" /\ loc'[t] = loc[t]
    BY <1>2, GrowFrame DEF Grow
  <2> QED
    BY <1>1, <2>1 DEF Continues, Knows
<1>3. CASE Pop(t)
  <2>1. /\ pc[t] = "pop" /\ at' = at /\ Others(t) /\ CallKept(t) /\ loc'[t].old = loc[t].old
        /\ loc'[t].arr \in Arrays /\ pc'[t] \in Filling /\ loc'[t] \in Local
    BY <1>3, PopFrame DEF Pop, Fills
  <2> QED
    BY <1>1, <2>1 DEF Continues, Knows, CallKept
<1>4. CASE GetBlock(t)
  <2>1. /\ pc[t] = "get" /\ at' = at /\ Others(t) /\ CallKept(t) /\ loc'[t].old = loc[t].old
        /\ loc'[t].arr = loc[t].arr /\ pc'[t] \in Filling /\ loc'[t] \in Local
    BY <1>4, GetBlockFrame DEF GetBlock, Fills
  <2> QED
    BY <1>1, <2>1 DEF Continues, Knows, CallKept
<1>5. CASE Write(t)
  <2>1. /\ pc[t] = "write" /\ at' = at /\ Others(t)
        /\ IF loc[t].old = None THEN pc'[t] = "idle" /\ loc'[t] = Idle
                                ELSE pc'[t] = "release" /\ loc'[t] = loc[t]
    BY <1>5, WriteFrame DEF Write
  <2>2. loc[t].old \in Arrays \cup {None}
    BY <1>1 DEF Local
  <2> QED
    BY <1>1, <2>1, <2>2, IdleType DEF Continues, Knows
<1>6. CASE Release(t)
  <2>1. pc[t] = "release" /\ at' = at /\ Others(t) /\ pc'[t] = "swap" /\ loc'[t] = loc[t]
    BY <1>6, ReleaseFrame DEF Release
  <2> QED
    BY <1>1, <2>1 DEF Continues, Knows
<1>7. CASE Swap(t)
  <2>1. pc[t] = "swap" /\ loc[t].key \in Keys /\ at' = [at EXCEPT ![loc[t].key] = loc[t].arr]
    BY <1>1, <1>7 DEF Swap, Knows
  <2>2. /\ Others(t) /\ pc'[t] = "recycle" /\ CallKept(t) /\ loc'[t].arr = loc[t].arr
        /\ loc'[t].old = at[loc[t].key] /\ loc'[t] \in Local
    BY <1>7, <2>1, SwapFrame
  <2>3. at'[loc[t].key] = loc[t].arr /\ \A k \in Keys : at'[k] = at[k] \/ k = loc[t].key
    BY <1>1, <2>1
  <2> QED
    BY <1>1, <2>1, <2>2, <2>3 DEF Continues, Knows, CallKept
<1>8. CASE Recycle(t)
  <2>1. pc[t] = "recycle" /\ at' = at /\ Others(t) /\ pc'[t] = "idle" /\ loc'[t] = Idle
    BY <1>8, EndFrame DEF Recycle
  <2> QED
    BY <1>1, <2>1, IdleType DEF Continues, Knows
<1>9. CASE DeleteSpare(t)
  <2>1. pc[t] = "spare" /\ at' = at /\ Others(t) /\ pc'[t] = "unmap" /\ loc'[t] = loc[t]
    BY <1>9, DeleteSpareFrame DEF DeleteSpare
  <2> QED
    BY <1>1, <2>1 DEF Continues, Knows
<1>10. CASE DeleteUnmap(t)
  <2>1. pc[t] = "unmap" /\ at' = [at EXCEPT ![loc[t].key] = None] /\ loc[t].key \in Keys
    BY <1>1, <1>10 DEF DeleteUnmap, Knows
  <2>2. Others(t) /\ pc'[t] = "idle" /\ loc'[t] = Idle
    BY <1>10, EndFrame
  <2>3. \A k \in Keys : at'[k] = at[k] \/ k = loc[t].key
    BY <1>1, <2>1
  <2> QED
    BY <1>1, <2>1, <2>2, <2>3, IdleType DEF Continues, Knows
<1> QED
  BY <1>2, <1>3, <1>4, <1>5, <1>6, <1>7, <1>8, <1>9, <1>10 DEF Step

LEMMA ContinuesKnown ==
    ASSUME Types, Known, Alone, NEW t \in Writers, Continues(t)
    PROVE  Known' /\ Alone'
BY WriterThread, KnownStep, AloneStep DEF Continues

(* A reader. *)
Reads(r) ==
    /\ Others(r) /\ loc'[r] \in Local /\ pc'[r] \in Reading \cup {"idle"} /\ Knows(pc[r], loc[r])'
    /\ loc'[r].old = None /\ UNCHANGED <<rows, at, heap, buffer, free, disk, calls, restarts>>

LEMMA ReaderReads ==
    ASSUME Types, Known, NEW r \in Readers,
           \/ \E k \in Keys : ReadMapping(r, k)
           \/ ReadHeader(r)
           \/ ReadData(r)
    PROVE  Reads(r)
<1> USE DEF Calling, Growing, Filling, Replacing, Deleting, Reading
<1>1. loc[r] \in Local /\ Knows(pc[r], loc[r])
  BY DEF Types, ThreadsType, Threads, Known
<1>2. CASE \E k \in Keys : ReadMapping(r, k)
  <2>1. PICK k \in Keys : ReadMapping(r, k)
    BY <1>2
  <2> QED
    BY <2>1, ReadMappingFrame DEF ReadMapping, Reads, Knows
<1>3. CASE ReadHeader(r)
  <2>0. loc[r].arr \in Arrays /\ loc[r].old = None
    BY <1>1, <1>3 DEF ReadHeader, Knows
  <2>1. /\ Others(r) /\ pc'[r] = "blocks" /\ loc'[r].key = loc[r].key /\ loc'[r].old = None
        /\ loc'[r] \in Local /\ pc[r] = "header"
    BY <1>3, <2>0, ReadHeaderFrame DEF ReadHeader
  <2> QED
    BY <1>1, <1>3, <2>1 DEF ReadHeader, Reads, Knows
<1>4. CASE ReadData(r)
  BY <1>4, ReadDataFrame, IdleType DEF ReadData, Reads, Knows, Idle
<1> QED
  BY <1>2, <1>3, <1>4

LEMMA ReadsKnown ==
    ASSUME Types, Known, Alone, NEW r \in Readers, Reads(r)
    PROVE  Known' /\ Alone'
BY KnownStep, AloneStep DEF Reads, Threads

----------------------------------------------------------------------------
(* No array is used twice *)

(* The array of each key, and of each writer: the new version until it is   *)
(* in the mapping, and then the old one.                                    *)
Mapping == [k \in Keys |-> MapOf(k)]
Hands == [t \in Writers |-> Hand(t)]

(* An array is in one place of the mapping m, the spare ones b, the hands h. *)
OnceIn(m, b, h) ==
    /\ \A k, j \in Keys : m[k] = m[j] => m[k] = None \/ k = j
    /\ \A i, j \in DOMAIN b : b[i] = b[j] => i = j
    /\ \A t, u \in Writers : h[t] = h[u] => h[t] = None \/ t = u
    /\ \A k \in Keys, i \in DOMAIN b : m[k] # b[i]
    /\ \A k \in Keys, t \in Writers : m[k] = h[t] => h[t] = None
    /\ \A i \in DOMAIN b, t \in Writers : b[i] # h[t]
OwnedIn(m, b, h) ==
    {m[k] : k \in Keys} \cup {b[i] : i \in DOMAIN b} \cup {h[t] : t \in Writers}
Once == OnceIn(Mapping, buffer, Hands)
Owned == OwnedIn(Mapping, buffer, Hands)
(* The pointers that threads keep are to arrays that are in some place. *)
ArraysHeld == \A t \in Threads : {loc[t].arr, loc[t].old} \subseteq Owned \cup {None}
Kept == Once' /\ Owned \ {None} \subseteq Owned'
ArraysOf == [Keys -> Arrays \cup {None}]
HandsOf == [Writers -> Arrays \cup {None}]

----------------------------------------------------------------------------
(* Spare arrays at the two ends of the queue *)
LEMMA TailCells ==
    ASSUME NEW S, NEW b \in Seq(S), b # <<>>
    PROVE  /\ Len(b) \in Nat \ {0} /\ DOMAIN b = 1 .. Len(b) /\ Head(b) = b[1] /\ Head(b) \in S
           /\ Tail(b) \in Seq(S) /\ DOMAIN Tail(b) = 1 .. Len(b) - 1
           /\ \A i \in DOMAIN Tail(b) : i + 1 \in DOMAIN b /\ Tail(b)[i] = b[i + 1]
           /\ \A i \in DOMAIN b : i = 1 \/ (i - 1 \in DOMAIN Tail(b) /\ b[i] = Tail(b)[i - 1])
<1>1. /\ Len(b) \in Nat \ {0} /\ DOMAIN b = 1 .. Len(b) /\ Head(b) = b[1] /\ Head(b) \in S
      /\ Tail(b) \in Seq(S) /\ Len(Tail(b)) = Len(b) - 1
  BY EmptySeq, HeadTailProperties
<1>2. \A i \in 1 .. Len(b) - 1 : Tail(b)[i] = b[i + 1]
  OBVIOUS
<1>3. DOMAIN Tail(b) = 1 .. Len(b) - 1
  BY <1>1
<1> QED
  BY <1>1, <1>2, <1>3

LEMMA AppendCells ==
    ASSUME NEW S, NEW b \in Seq(S), NEW a \in S
    PROVE  /\ Append(b, a) \in Seq(S) /\ DOMAIN b = 1 .. Len(b) /\ Len(b) \in Nat
           /\ DOMAIN Append(b, a) = 1 .. Len(b) + 1
           /\ Append(b, a)[Len(b) + 1] = a
           /\ \A i \in DOMAIN b : Append(b, a)[i] = b[i]
BY AppendProperties

----------------------------------------------------------------------------
(* Arrays change hands one at a time *)
LEMMA TakeSpare ==
    ASSUME NEW m \in ArraysOf, NEW b \in Seq(Arrays), NEW h \in HandsOf, OnceIn(m, b, h),
           NEW k \in Keys, m[k] = None, b # <<>>
    PROVE  /\ OnceIn([m EXCEPT ![k] = Head(b)], Tail(b), h)
           /\ OwnedIn(m, b, h) \ {None} \subseteq OwnedIn([m EXCEPT ![k] = Head(b)], Tail(b), h)
<1> DEFINE n == [m EXCEPT ![k] = Head(b)]
           c == Tail(b)
<1>1. n[k] = b[1] /\ \A j \in Keys \ {k} : n[j] = m[j]
  BY TailCells DEF ArraysOf
<1>2. /\ Len(b) \in Nat \ {0} /\ DOMAIN b = 1 .. Len(b) /\ DOMAIN c = 1 .. Len(b) - 1
      /\ \A i \in DOMAIN c : i + 1 \in DOMAIN b /\ c[i] = b[i + 1]
      /\ \A i \in DOMAIN b : i = 1 \/ (i - 1 \in DOMAIN c /\ b[i] = c[i - 1])
      /\ 1 \in DOMAIN b /\ b[1] # None
  BY TailCells, KeysType
<1> HIDE DEF n, c
<1>3. OnceIn(n, c, h)
  <2>1. \A j, q \in Keys : n[j] = n[q] => n[j] = None \/ j = q
    BY <1>1, <1>2 DEF OnceIn
  <2>2. \A i, j \in DOMAIN c : c[i] = c[j] => i = j
    <3>1. \A i, j \in DOMAIN c : i + 1 = j + 1 => i = j
      BY <1>2
    <3> QED
      BY <1>2, <3>1 DEF OnceIn
  <2>3. \A q \in Keys, i \in DOMAIN c : n[q] # c[i]
    <3> SUFFICES ASSUME NEW q \in Keys, NEW i \in DOMAIN c PROVE n[q] # c[i]
      OBVIOUS
    <3>1. i + 1 # 1 /\ i + 1 \in DOMAIN b /\ c[i] = b[i + 1]
      BY <1>2
    <3>2. b[1] # b[i + 1] /\ m[q] # b[i + 1]
      BY <1>2, <3>1 DEF OnceIn
    <3> QED
      BY <1>1, <3>1, <3>2
  <2>4. \A j \in Keys, t \in Writers : n[j] = h[t] => h[t] = None
    BY <1>1, <1>2 DEF OnceIn
  <2>5. \A i \in DOMAIN c, t \in Writers : c[i] # h[t]
    BY <1>2 DEF OnceIn
  <2> QED
    BY <2>1, <2>2, <2>3, <2>4, <2>5 DEF OnceIn
<1>4. \A i \in DOMAIN b : b[i] \in OwnedIn(n, c, h)
  <2>1. b[1] \in {n[j] : j \in Keys}
    BY <1>1
  <2> QED
    BY <1>2, <2>1 DEF OwnedIn
<1>5. \A j \in Keys : m[j] = None \/ m[j] \in OwnedIn(n, c, h)
  BY <1>1 DEF OwnedIn
<1>6. OwnedIn(m, b, h) \ {None} \subseteq OwnedIn(n, c, h)
  <2>1. {h[t] : t \in Writers} \subseteq OwnedIn(n, c, h)
    BY DEF OwnedIn
  <2> DEFINE O == OwnedIn(n, c, h)
  <2> HIDE DEF O
  <2> QED
    BY <1>4, <1>5, <2>1 DEF OwnedIn, O
<1> QED
  BY <1>3, <1>6 DEF n, c

LEMMA MakeArray ==
    ASSUME NEW m \in ArraysOf, NEW b \in Seq(Arrays), NEW h \in HandsOf, OnceIn(m, b, h),
           NEW k \in Keys, m[k] = None, NEW a \in Arrays, a \notin OwnedIn(m, b, h)
    PROVE  /\ OnceIn([m EXCEPT ![k] = a], b, h)
           /\ OwnedIn(m, b, h) \ {None} \subseteq OwnedIn([m EXCEPT ![k] = a], b, h)
<1> DEFINE n == [m EXCEPT ![k] = a]
<1>1. n[k] = a /\ (\A j \in Keys \ {k} : n[j] = m[j]) /\ a # None
  BY KeysType DEF ArraysOf
<1> HIDE DEF n
<1>2. OnceIn(n, b, h)
  BY <1>1 DEF OnceIn, OwnedIn
<1>3. OwnedIn(m, b, h) \ {None} \subseteq OwnedIn(n, b, h)
  BY <1>1 DEF OwnedIn
<1> QED
  BY <1>2, <1>3 DEF n

LEMMA HoldSpare ==
    ASSUME NEW m \in ArraysOf, NEW b \in Seq(Arrays), NEW h \in HandsOf, OnceIn(m, b, h),
           NEW t \in Writers, h[t] = None, b # <<>>
    PROVE  /\ OnceIn(m, Tail(b), [h EXCEPT ![t] = Head(b)])
           /\ OwnedIn(m, b, h) \ {None} \subseteq OwnedIn(m, Tail(b), [h EXCEPT ![t] = Head(b)])
<1> DEFINE g == [h EXCEPT ![t] = Head(b)]
           c == Tail(b)
<1>1. g[t] = b[1] /\ \A u \in Writers \ {t} : g[u] = h[u]
  BY TailCells DEF HandsOf
<1>2. /\ Len(b) \in Nat \ {0} /\ DOMAIN b = 1 .. Len(b) /\ DOMAIN c = 1 .. Len(b) - 1
      /\ \A i \in DOMAIN c : i + 1 \in DOMAIN b /\ c[i] = b[i + 1]
      /\ \A i \in DOMAIN b : i = 1 \/ (i - 1 \in DOMAIN c /\ b[i] = c[i - 1])
      /\ 1 \in DOMAIN b /\ b[1] # None
  BY TailCells, KeysType
<1> HIDE DEF g, c
<1>3. OnceIn(m, c, g)
  <2>1. \A u, w \in Writers : g[u] = g[w] => g[u] = None \/ u = w
    BY <1>1, <1>2 DEF OnceIn
  <2>2. \A i, j \in DOMAIN c : c[i] = c[j] => i = j
    <3>1. \A i, j \in DOMAIN c : i + 1 = j + 1 => i = j
      BY <1>2
    <3> QED
      BY <1>2, <3>1 DEF OnceIn
  <2>3. \A q \in Keys, i \in DOMAIN c : m[q] # c[i]
    BY <1>2 DEF OnceIn
  <2>4. \A j \in Keys, u \in Writers : m[j] = g[u] => g[u] = None
    BY <1>1, <1>2 DEF OnceIn
  <2>5. \A i \in DOMAIN c, u \in Writers : c[i] # g[u]
    <3>1. \A i \in DOMAIN c : i + 1 # 1
      BY <1>2
    <3> QED
      BY <1>1, <1>2, <3>1 DEF OnceIn
  <2> QED
    BY <2>1, <2>2, <2>3, <2>4, <2>5 DEF OnceIn
<1>4. \A i \in DOMAIN b : b[i] \in OwnedIn(m, c, g)
  <2>1. b[1] \in {g[u] : u \in Writers}
    BY <1>1
  <2> QED
    BY <1>2, <2>1 DEF OwnedIn
<1>5. \A u \in Writers : h[u] = None \/ h[u] \in OwnedIn(m, c, g)
  BY <1>1 DEF OwnedIn
<1>6. OwnedIn(m, b, h) \ {None} \subseteq OwnedIn(m, c, g)
  <2>1. {m[k] : k \in Keys} \subseteq OwnedIn(m, c, g)
    BY DEF OwnedIn
  <2> DEFINE O == OwnedIn(m, c, g)
  <2> HIDE DEF O
  <2> QED
    BY <1>4, <1>5, <2>1 DEF OwnedIn, O
<1> QED
  BY <1>3, <1>6 DEF g, c

LEMMA Exchange ==
    ASSUME NEW m \in ArraysOf, NEW b \in Seq(Arrays), NEW h \in HandsOf, OnceIn(m, b, h),
           NEW k \in Keys, NEW t \in Writers
    PROVE  /\ OnceIn([m EXCEPT ![k] = h[t]], b, [h EXCEPT ![t] = m[k]])
           /\ OwnedIn(m, b, h) \subseteq OwnedIn([m EXCEPT ![k] = h[t]], b, [h EXCEPT ![t] = m[k]])
<1> DEFINE n == [m EXCEPT ![k] = h[t]]
           g == [h EXCEPT ![t] = m[k]]
<1>1. /\ n[k] = h[t] /\ \A j \in Keys \ {k} : n[j] = m[j]
      /\ g[t] = m[k] /\ \A u \in Writers \ {t} : g[u] = h[u]
  BY DEF ArraysOf, HandsOf
<1> HIDE DEF n, g
<1>2. OnceIn(n, b, g)
  BY <1>1 DEF OnceIn
<1>3. OwnedIn(m, b, h) \subseteq OwnedIn(n, b, g)
  BY <1>1 DEF OwnedIn
<1> QED
  BY <1>2, <1>3 DEF n, g

LEMMA DropHand ==
    ASSUME NEW m \in ArraysOf, NEW b \in Seq(Arrays), NEW h \in HandsOf, OnceIn(m, b, h),
           NEW t \in Writers, h[t] # None
    PROVE  /\ OnceIn(m, Append(b, h[t]), [h EXCEPT ![t] = None])
           /\ OwnedIn(m, b, h) \subseteq OwnedIn(m, Append(b, h[t]), [h EXCEPT ![t] = None])
<1> DEFINE g == [h EXCEPT ![t] = None]
           a == h[t]
           c == Append(b, a)
<1>1. g[t] = None /\ (\A u \in Writers \ {t} : g[u] = h[u]) /\ a \in Arrays
  BY DEF HandsOf
<1>2. /\ DOMAIN b = 1 .. Len(b) /\ Len(b) \in Nat /\ DOMAIN c = 1 .. Len(b) + 1
      /\ c[Len(b) + 1] = a /\ \A i \in DOMAIN b : c[i] = b[i]
  BY <1>1, AppendCells
<1>3. /\ \A i \in DOMAIN c : i = Len(b) + 1 \/ i \in DOMAIN b
      /\ Len(b) + 1 \in DOMAIN c /\ \A i \in DOMAIN b : i \in DOMAIN c
      /\ Len(b) + 1 \notin DOMAIN b
  BY <1>2
<1>4. \A i \in DOMAIN c : c[i] # None
  BY <1>1, <1>2, <1>3, KeysType
<1> HIDE DEF g, c
<1>5. OnceIn(m, c, g)
  BY <1>1, <1>2, <1>3, <1>4 DEF OnceIn
<1>6. OwnedIn(m, b, h) \subseteq OwnedIn(m, c, g)
  BY <1>1, <1>2, <1>3 DEF OwnedIn
<1> QED
  BY <1>5, <1>6 DEF g, c
LEMMA DropMapped ==
    ASSUME NEW m \in ArraysOf, NEW b \in Seq(Arrays), NEW h \in HandsOf, OnceIn(m, b, h),
           NEW k \in Keys, m[k] # None
    PROVE  /\ OnceIn([m EXCEPT ![k] = None], Append(b, m[k]), h)
           /\ OwnedIn(m, b, h) \subseteq OwnedIn([m EXCEPT ![k] = None], Append(b, m[k]), h)
<1> DEFINE n == [m EXCEPT ![k] = None]
           a == m[k]
           c == Append(b, a)
<1>1. n[k] = None /\ (\A j \in Keys \ {k} : n[j] = m[j]) /\ a \in Arrays
  BY DEF ArraysOf
<1>2. /\ DOMAIN b = 1 .. Len(b) /\ Len(b) \in Nat /\ DOMAIN c = 1 .. Len(b) + 1
      /\ c[Len(b) + 1] = a /\ \A i \in DOMAIN b : c[i] = b[i]
  BY <1>1, AppendCells
<1>3. /\ \A i \in DOMAIN c : i = Len(b) + 1 \/ i \in DOMAIN b
      /\ Len(b) + 1 \in DOMAIN c /\ \A i \in DOMAIN b : i \in DOMAIN c
      /\ Len(b) + 1 \notin DOMAIN b
  BY <1>2
<1>4. \A i \in DOMAIN c : c[i] # None
  BY <1>1, <1>2, <1>3, KeysType
<1> HIDE DEF n, c
<1>5. OnceIn(n, c, h)
  BY <1>1, <1>2, <1>3, <1>4 DEF OnceIn
<1>6. OwnedIn(m, b, h) \subseteq OwnedIn(n, c, h)
  BY <1>1, <1>2, <1>3 DEF OwnedIn
<1> QED
  BY <1>5, <1>6 DEF n, c

(* The places hold arrays, or nothing. *)
LEMMA PlacesType ==
    ASSUME Types, Known
    PROVE  Mapping \in ArraysOf /\ Hands \in HandsOf /\ buffer \in Seq(Arrays)
<1>1. at \in [Keys -> Arrays \cup {None}] /\ buffer \in Seq(Arrays)
  BY DEF Types, SharedType
<1>2. \A k \in Keys : MapOf(k) \in Arrays \cup {None}
  BY <1>1 DEF MapOf
<1>3. ASSUME NEW t \in Writers PROVE Hand(t) \in Arrays \cup {None}
  <2>1. loc[t].arr \in Arrays \cup {None} /\ loc[t].old \in Arrays \cup {None}
    BY CallerKnows DEF Local
  <2> QED
    BY <2>1 DEF Hand
<1> QED
  BY <1>1, <1>2, <1>3 DEF Mapping, Hands, ArraysOf, HandsOf

(* A step of t concerns the array of one key, k, and what t has. *)
OneKey(t, k) ==
    /\ Others(t)
    /\ pc[t] # "idle" => loc[t].key = k
    /\ pc'[t] # "idle" => loc'[t].key = k
    /\ pc[t] # "idle" \/ pc'[t] # "idle"
    /\ \A j \in Keys \ {k} : at'[j] = at[j]

LEMMA PlacesStep ==
    ASSUME Alone, Alone', NEW t \in Writers, NEW k \in Keys, OneKey(t, k)
    PROVE  /\ \A j \in Keys \ {k} : Mapping'[j] = Mapping[j]
           /\ \A u \in Writers \ {t} : Hands'[u] = Hands[u]
           /\ Mapping[k] = IF pc[t] = "unmap" THEN None ELSE at[k]
           /\ Mapping'[k] = IF pc'[t] = "unmap" THEN None ELSE at'[k]
           /\ Hands[t] = Hand(t) /\ Hands'[t] = Hand(t)'
<1>1. \A u \in Writers \ {t} : pc'[u] = pc[u] /\ loc'[u] = loc[u]
  BY DEF OneKey, Others, Threads
<1>2. \A u \in Writers \ {t} : Hand(u)' = Hand(u)
  BY <1>1 DEF Hand
<1>3. ASSUME NEW u \in Writers \ {t}, pc[u] # "idle" PROVE loc[u].key # k
  BY <1>1, <1>3 DEF OneKey, Alone
<1>4. ASSUME NEW j \in Keys \ {k} PROVE MapOf(j)' = MapOf(j)
  <2>1. at'[j] = at[j]
    BY DEF OneKey
  <2>2. ~(pc[t] = "unmap" /\ loc[t].key = j) /\ ~(pc'[t] = "unmap" /\ loc'[t].key = j)
    BY DEF OneKey
  <2>3. (\E u \in Writers : pc[u] = "unmap" /\ loc[u].key = j)
          <=> (\E u \in Writers : pc'[u] = "unmap" /\ loc'[u].key = j)
    BY <1>1, <2>2
  <2> QED
    BY <2>1, <2>3 DEF MapOf
<1>5. MapOf(k) = IF pc[t] = "unmap" THEN None ELSE at[k]
  BY <1>3 DEF MapOf, OneKey
<1>6. MapOf(k)' = IF pc'[t] = "unmap" THEN None ELSE at'[k]
  <2>1. \A u \in Writers \ {t} : pc'[u] = "unmap" => loc'[u].key # k
    BY <1>1, <1>3
  <2> QED
    BY <2>1 DEF MapOf, OneKey
<1> QED
  BY <1>2, <1>4, <1>5, <1>6 DEF Mapping, Hands

(* Steps that move no array. *)
LEMMA QuietPlaces ==
    ASSUME Alone, Alone', Once, NEW t \in Writers, NEW k \in Keys, OneKey(t, k),
           buffer' = buffer, Hand(t)' = Hand(t),
           (IF pc[t] = "unmap" THEN None ELSE at[k]) = (IF pc'[t] = "unmap" THEN None ELSE at'[k])
    PROVE  Kept
<1>1. Mapping' = Mapping
  <2>1. \A j \in Keys : Mapping'[j] = Mapping[j]
    BY PlacesStep
  <2> QED
    BY <2>1 DEF Mapping
<1>2. Hands' = Hands
  <2>1. \A u \in Writers : Hands'[u] = Hands[u]
    BY PlacesStep
  <2> QED
    BY <2>1 DEF Hands
<1> QED
  BY <1>1, <1>2 DEF Kept, Once, Owned

LEMMA BeginsOnce ==
    ASSUME Types, Known, Alone, Alone', Once, NEW t \in Writers, NEW k \in Keys, Begins(t, k),
           buffer' = buffer, pc'[t] = "get" => loc'[t].old = None
    PROVE  Kept
<1>1. OneKey(t, k) /\ pc[t] = "idle" /\ pc'[t] \notin {"unmap", "recycle", "write"} \cup Replacing
      /\ at' = at
  BY DEF Begins, OneKey, Replacing
<1>2. Hand(t)' = Hand(t)
  BY <1>1 DEF Hand, Filling, Replacing
<1> QED
  BY <1>1, <1>2, QuietPlaces

LEMMA ContinuesOneKey ==
    ASSUME Types, Known, NEW t \in Writers, Continues(t)
    PROVE  OneKey(t, loc[t].key) /\ loc[t].key \in Keys
<1>1. loc[t].key \in Keys
  BY CallerKnows DEF Continues
<1>2. \A j \in Keys \ {loc[t].key} : at'[j] = at[j]
  BY DEF Continues
<1> QED
  BY <1>1, <1>2 DEF OneKey, Continues

(* The step of a writer that finds its array in the mapping, or takes none. *)
LEMMA QuietStepOnce ==
    ASSUME Types, Known, Alone, Alone', Once, NEW t \in Writers, Continues(t),
           \/ Grow(t) \/ GetBlock(t) \/ Release(t) \/ Write(t) \/ DeleteUnmap(t)
           \/ Slot(t) /\ at[loc[t].key] # None
    PROVE  Kept
<1> USE DEF Filling, Replacing
<1>1. /\ OneKey(t, loc[t].key) /\ loc[t].key \in Keys /\ loc[t] \in Local /\ Knows(pc[t], loc[t])
      /\ Knows(pc[t], loc[t])' /\ at \in [Keys -> Arrays \cup {None}] /\ None \notin Arrays
  BY ContinuesOneKey, CallerKnows, KeysType DEF Continues, Types, SharedType
<1>2. CASE Grow(t)
  <2>1. pc[t] = "grow" /\ pc'[t] = "slot" /\ at' = at /\ buffer' = buffer
    BY <1>2, GrowFrame DEF Grow
  <2> QED
    BY <1>1, <2>1, QuietPlaces DEF Hand
<1>3. CASE GetBlock(t)
  <2>1. /\ pc[t] = "get" /\ pc'[t] \in {"get", "write"} /\ at' = at /\ buffer' = buffer
        /\ loc'[t].arr = loc[t].arr /\ loc'[t].old = loc[t].old
    BY <1>3, GetBlockFrame DEF GetBlock, Fills
  <2> QED
    BY <1>1, <2>1, QuietPlaces DEF Hand
<1>4. CASE Release(t)
  <2>1. pc[t] = "release" /\ pc'[t] = "swap" /\ at' = at /\ buffer' = buffer /\ loc'[t] = loc[t]
    BY <1>4, ReleaseFrame DEF Release
  <2> QED
    BY <1>1, <2>1, QuietPlaces DEF Hand
<1>5. CASE Write(t)
  <2>1. /\ pc[t] = "write" /\ at' = at /\ buffer' = buffer
        /\ IF loc[t].old = None THEN pc'[t] = "idle" /\ loc'[t] = Idle
                                ELSE pc'[t] = "release" /\ loc'[t] = loc[t]
    BY <1>5, WriteFrame DEF Write
  <2> QED
    BY <1>1, <2>1, QuietPlaces DEF Hand
<1>6. CASE DeleteUnmap(t)
  <2>1. /\ pc[t] = "unmap" /\ pc'[t] = "idle" /\ buffer' = buffer
        /\ at' = [at EXCEPT ![loc[t].key] = None]
    BY <1>6, EndFrame DEF DeleteUnmap
  <2>2. at'[loc[t].key] = None
    BY <1>1, <2>1
  <2> QED
    BY <1>1, <2>1, <2>2, QuietPlaces DEF Hand
<1>7. CASE Slot(t) /\ at[loc[t].key] # None
  <2>1. SlotArray(t) \in Arrays /\ pc[t] = "slot" /\ at' = at /\ buffer' = buffer
    BY <1>1, <1>7 DEF SlotArray, Slot
  <2>2. loc[t].old = None
    BY <1>1, <2>1 DEF Knows, Growing
  <2>3. pc'[t] = "pop" \/ (pc'[t] \in {"get", "write"} /\ loc'[t].old = None)
    BY <1>7, <2>1, <2>2, SlotFrame DEF Fills
  <2> QED
    BY <1>1, <2>1, <2>3, QuietPlaces DEF Hand
<1> QED
  BY <1>2, <1>3, <1>4, <1>5, <1>6, <1>7

----------------------------------------------------------------------------
(* A new array *)

(* The sizes of an image and of a union, for the count of the arrays in use. *)
LEMMA ValuesBound ==
    ASSUME NEW S, IsFiniteSet(S), NEW f
    PROVE  IsFiniteSet({f[x] : x \in S}) /\ Cardinality({f[x] : x \in S}) <= Cardinality(S)
<1> DEFINE T == {f[x] : x \in S}
           g == [x \in S |-> f[x]]
<1>1. g \in Surjection(S, T)
  BY DEF Surjection
<1> HIDE DEF T, g
<1>2. IsFiniteSet(T) /\ Cardinality(T) <= Cardinality(S)
  BY <1>1, FS_Surjection
<1> QED
  BY <1>2 DEF T

LEMMA UnionBound ==
    ASSUME NEW S, IsFiniteSet(S), NEW T, IsFiniteSet(T)
    PROVE  /\ IsFiniteSet(S \cup T) /\ Cardinality(S \cup T) <= Cardinality(S) + Cardinality(T)
           /\ Cardinality(S) \in Nat /\ Cardinality(T) \in Nat /\ Cardinality(S \cup T) \in Nat
<1>1. IsFiniteSet(S \cap T)
  BY FS_Subset
<1>2. Cardinality(S) \in Nat /\ Cardinality(T) \in Nat /\ Cardinality(S \cap T) \in Nat
  BY <1>1, FS_CardinalityType
<1>3. IsFiniteSet(S \cup T)
         /\ Cardinality(S \cup T) = Cardinality(S) + Cardinality(T) - Cardinality(S \cap T)
  BY FS_Union
<1>4. Cardinality(S \cup T) \in Nat
  BY <1>3, FS_CardinalityType
<1> QED
  BY <1>2, <1>3, <1>4

(* An array that is in the mapping is owned, also when it is a spare one    *)
(* already.                                                                 *)
LEMMA AtOwned ==
    ASSUME Types, Known, ArraysHeld, NEW k \in Keys
    PROVE  at[k] \in Owned \cup {None}
<1>1. CASE \E t \in Writers : pc[t] = "unmap" /\ loc[t].key = k
  <2>1. PICK t \in Writers : pc[t] = "unmap" /\ loc[t].key = k
    BY <1>1
  <2>2. at[k] = loc[t].old
    BY <2>1, CallerKnows DEF Knows, Deleting, Replacing
  <2> QED
    BY <2>2, WriterThread DEF ArraysHeld
<1>2. CASE ~\E t \in Writers : pc[t] = "unmap" /\ loc[t].key = k
  <2>1. Mapping[k] = at[k]
    BY <1>2 DEF Mapping, MapOf
  <2> QED
    BY <2>1 DEF Owned, OwnedIn
<1> QED
  BY <1>1, <1>2

LEMMA HeldOwned ==
    ASSUME Types, Known, ArraysHeld
    PROVE  Held \subseteq Owned \cup {None} /\ Owned \subseteq Held \cup {None}
<1>1. {at[k] : k \in Keys} \subseteq Owned \cup {None}
  BY AtOwned
<1>2. {buffer[i] : i \in DOMAIN buffer} \subseteq Owned
  BY DEF Owned, OwnedIn
<1>3. {loc[t].arr : t \in Threads} \cup {loc[t].old : t \in Threads} \subseteq Owned \cup {None}
  BY DEF ArraysHeld
<1>4. Held \subseteq Owned \cup {None}
  <2> DEFINE O == Owned \cup {None}
  <2> HIDE DEF O
  <2>1. {at[k] : k \in Keys} \subseteq O /\ {buffer[i] : i \in DOMAIN buffer} \subseteq O
        /\ {loc[t].arr : t \in Threads} \cup {loc[t].old : t \in Threads} \subseteq O
    BY <1>1, <1>2, <1>3 DEF O
  <2>2. Held \subseteq O
    BY <2>1 DEF Held
  <2> QED
    BY <2>2 DEF O
<1>5. \A k \in Keys : Mapping[k] \in Held \cup {None}
  BY DEF Mapping, MapOf, Held
<1>6. \A t \in Writers : Hands[t] \in Held \cup {None}
  <2>1. \A t \in Writers : loc[t].arr \in Held /\ loc[t].old \in Held
    BY WriterThread DEF Held
  <2> QED
    BY <2>1 DEF Hands, Hand
<1>7. \A i \in DOMAIN buffer : buffer[i] \in Held
  BY DEF Held
<1>8. Owned \subseteq Held \cup {None}
  <2> DEFINE H == Held \cup {None}
  <2>1. (\A k \in Keys : Mapping[k] \in H) /\ (\A t \in Writers : Hands[t] \in H)
        /\ (\A i \in DOMAIN buffer : buffer[i] \in H)
    BY <1>5, <1>6, <1>7
  <2> HIDE DEF H
  <2>2. Owned \subseteq H
    BY <2>1 DEF Owned, OwnedIn
  <2> QED
    BY <2>2 DEF H
<1> QED
  BY <1>4, <1>8

(* There is memory for an array for every key and every writer.             *)
LEMMA NewArrayIsNew ==
    ASSUME Types, Known, ArraysHeld, NEW t \in Writers, NEW k \in Keys,
           Mapping[k] = None, Hands[t] = None, ~(Len(buffer) > BufferSize)
    PROVE  NewArray \in Arrays /\ NewArray \notin Owned
<1> DEFINE K == Keys \ {k}
           W == Writers \ {t}
           M == {Mapping[j] : j \in K}
           B == {buffer[i] : i \in DOMAIN buffer}
           H == {Hands[u] : u \in W}
<1>1. IsFiniteSet(K) /\ Cardinality(K) = Cardinality(Keys) - 1 /\ Cardinality(Keys) \in Nat
  BY SpdkAssumption, FS_RemoveElement, FS_CardinalityType
<1>2. IsFiniteSet(W) /\ Cardinality(W) = Cardinality(Writers) - 1 /\ Cardinality(Writers) \in Nat
  BY SpdkAssumption, FS_RemoveElement, FS_CardinalityType
<1>3. IsFiniteSet(DOMAIN buffer) /\ Cardinality(DOMAIN buffer) <= BufferSize
      /\ Cardinality(DOMAIN buffer) \in Nat /\ BufferSize \in Nat
  <2>1. DOMAIN buffer = 1 .. Len(buffer) /\ Len(buffer) \in Nat /\ BufferSize \in Nat
    BY SpdkAssumption DEF Types, SharedType
  <2>2. PICK n \in Nat : n = Len(buffer)
    BY <2>1
  <2>3. IsFiniteSet(1 .. n) /\ Cardinality(1 .. n) = n
    <3>1. IsFiniteSet(1 .. n) /\ Cardinality(1 .. n) = IF 1 > n THEN 0 ELSE n - 1 + 1
      BY FS_Interval
    <3> QED
      BY <3>1
  <2> QED
    BY <2>1, <2>2, <2>3
<1>4. IsFiniteSet(M) /\ Cardinality(M) <= Cardinality(K)
  BY <1>1, ValuesBound
<1>5. IsFiniteSet(B) /\ Cardinality(B) <= Cardinality(DOMAIN buffer)
  BY <1>3, ValuesBound
<1>6. IsFiniteSet(H) /\ Cardinality(H) <= Cardinality(W)
  BY <1>2, ValuesBound
<1>7. Owned \subseteq (M \cup B) \cup H \cup {None}
  <2> DEFINE O == (M \cup B) \cup H \cup {None}
  <2>1. (\A j \in Keys : Mapping[j] \in O) /\ (\A u \in Writers : Hands[u] \in O)
        /\ (\A i \in DOMAIN buffer : buffer[i] \in O)
    OBVIOUS
  <2> HIDE DEF O
  <2>2. Owned \subseteq O
    BY <2>1 DEF Owned, OwnedIn
  <2> QED
    BY <2>2 DEF O
<1> HIDE DEF K, W, M, B, H
<1>8. IsFiniteSet((M \cup B) \cup H) /\ Cardinality((M \cup B) \cup H) < ArrayCount
  <2>1. IsFiniteSet(M \cup B) /\ Cardinality(M \cup B) <= Cardinality(M) + Cardinality(B)
        /\ Cardinality(M) \in Nat /\ Cardinality(B) \in Nat /\ Cardinality(M \cup B) \in Nat
    BY <1>4, <1>5, UnionBound
  <2>2. /\ IsFiniteSet((M \cup B) \cup H)
        /\ Cardinality((M \cup B) \cup H) <= Cardinality(M \cup B) + Cardinality(H)
        /\ Cardinality(H) \in Nat /\ Cardinality((M \cup B) \cup H) \in Nat
    BY <1>6, <2>1, UnionBound
  <2>3. ArrayCount >= Cardinality(Keys) + Cardinality(Writers) + BufferSize /\ ArrayCount \in Nat
    BY SpdkAssumption
  <2> QED
    BY <1>1, <1>2, <1>3, <1>4, <1>5, <1>6, <2>1, <2>2, <2>3
<1>9. Arrays \ Held # {}
  <2> SUFFICES ASSUME Arrays \subseteq Held PROVE FALSE
    OBVIOUS
  <2>1. Arrays \subseteq (M \cup B) \cup H
    BY <1>7, HeldOwned, KeysType
  <2>2. IsFiniteSet(Arrays) /\ Cardinality(Arrays) = ArrayCount
    <3>1. ArrayCount \in Nat
      BY SpdkAssumption
    <3> QED
      BY <3>1, FS_Interval DEF Arrays
  <2>3. Cardinality(Arrays) <= Cardinality((M \cup B) \cup H)
    BY <1>8, <2>1, FS_Subset
  <2>4. Cardinality((M \cup B) \cup H) \in Nat /\ ArrayCount \in Nat
    BY <1>8, FS_CardinalityType, SpdkAssumption
  <2> QED
    BY <1>8, <2>2, <2>3, <2>4
<1>10. NewArray \in Arrays \ Held
  BY <1>9 DEF NewArray
<1> QED
  BY <1>10, HeldOwned, KeysType

----------------------------------------------------------------------------
(* Arrays in the steps of writers *)

(* A step changes the place of its own key and of its own thread. *)
LEMMA PlacesMoved ==
    ASSUME Alone, Alone', NEW t \in Writers, NEW k \in Keys, OneKey(t, k), Mapping \in ArraysOf,
           Hands \in HandsOf
    PROVE  /\ Mapping' = [Mapping EXCEPT ![k] = IF pc'[t] = "unmap" THEN None ELSE at'[k]]
           /\ Hands' = [Hands EXCEPT ![t] = Hand(t)']
           /\ Mapping[k] = (IF pc[t] = "unmap" THEN None ELSE at[k]) /\ Hands[t] = Hand(t)
<1> DEFINE a == IF pc'[t] = "unmap" THEN None ELSE at'[k]
           h == Hand(t)'
<1>1. /\ \A j \in Keys \ {k} : Mapping'[j] = Mapping[j]
      /\ \A u \in Writers \ {t} : Hands'[u] = Hands[u]
      /\ Mapping[k] = IF pc[t] = "unmap" THEN None ELSE at[k]
      /\ Mapping'[k] = a
      /\ Hands[t] = Hand(t) /\ Hands'[t] = h
  BY PlacesStep
<1> HIDE DEF a, h
<1>2. DOMAIN Mapping' = Keys /\ DOMAIN Hands' = Writers /\ DOMAIN Mapping = Keys /\ DOMAIN Hands = Writers
      /\ Mapping' = [j \in Keys |-> Mapping'[j]] /\ Hands' = [u \in Writers |-> Hands'[u]]
  BY DEF Mapping, Hands
<1>3. Mapping' = [Mapping EXCEPT ![k] = a]
  <2>1. \A j \in Keys : Mapping'[j] = [Mapping EXCEPT ![k] = a][j]
    BY <1>1, <1>2
  <2> QED
    BY <1>2, <2>1
<1>4. Hands' = [Hands EXCEPT ![t] = h]
  <2>1. \A u \in Writers : Hands'[u] = [Hands EXCEPT ![t] = h][u]
    BY <1>1, <1>2
  <2> QED
    BY <1>2, <2>1
<1> QED
  BY <1>1, <1>3, <1>4 DEF a, h

(* A function that is changed to what it was is the same. *)
LEMMA SameMap ==
    /\ \A m \in ArraysOf, k \in Keys : [m EXCEPT ![k] = m[k]] = m
    /\ \A h \in HandsOf, t \in Writers : [h EXCEPT ![t] = h[t]] = h
BY DEF ArraysOf, HandsOf

(* Slot finds an array that nobody has; the others pass one on. *)
LEMMA SlotOnce ==
    ASSUME Types, Known, Alone, Alone', Once, ArraysHeld, NEW t \in Writers, Slot(t),
           at[loc[t].key] = None
    PROVE  SlotArray(t) \in Arrays /\ Kept
<1> DEFINE k == loc[t].key
           a == SlotArray(t)
<1>1. pc[t] = "slot" /\ k \in Keys /\ loc[t].arr = None /\ loc[t].old = None
  BY CallerKnows DEF Slot, Knows, Calling, Growing
<1>2. Mapping \in ArraysOf /\ Hands \in HandsOf /\ buffer \in Seq(Arrays)
  BY PlacesType
<1>3. Mapping[k] = None /\ Hands[t] = None
  BY <1>1 DEF Mapping, MapOf, Hands, Hand, Filling, Replacing
<1>4. CASE Len(buffer) > BufferSize
  <2>1. buffer # <<>>
    BY <1>4, SpdkAssumption
  <2>2. a = Head(buffer) /\ a \in Arrays /\ buffer' = Tail(buffer)
    BY <1>2, <1>4, <2>1, TailCells DEF SlotArray, Slot
  <2>3. Continues(t) /\ at'[k] = a
    BY <2>2, SlotContinues
  <2>4. OneKey(t, k)
    BY <2>3, ContinuesOneKey
  <2>5. Hand(t)' = None /\ pc'[t] # "unmap"
    BY <1>1, <2>2, SlotFrame DEF Hand, Fills, Filling, Replacing
  <2>6. Mapping' = [Mapping EXCEPT ![k] = a] /\ Hands' = [Hands EXCEPT ![t] = None]
    BY <1>1, <1>2, <2>3, <2>4, <2>5, PlacesMoved
  <2>7. Hands' = Hands
    BY <1>2, <1>3, <2>6, SameMap
  <2> HIDE DEF k, a
  <2> QED
    BY <1>1, <1>2, <1>3, <2>1, <2>2, <2>6, <2>7, TakeSpare DEF Kept, Once, Owned, a
<1>5. CASE ~(Len(buffer) > BufferSize)
  <2>2. a = NewArray /\ a \in Arrays /\ a \notin Owned /\ buffer' = buffer
    BY <1>1, <1>3, <1>5, NewArrayIsNew DEF SlotArray, Slot
  <2>3. Continues(t) /\ at'[k] = a
    BY <2>2, SlotContinues
  <2>4. OneKey(t, k)
    BY <2>3, ContinuesOneKey
  <2>5. Hand(t)' = None /\ pc'[t] # "unmap"
    BY <1>1, <2>2, SlotFrame DEF Hand, Fills, Filling, Replacing
  <2>6. Mapping' = [Mapping EXCEPT ![k] = a] /\ Hands' = [Hands EXCEPT ![t] = None]
    BY <1>1, <1>2, <2>3, <2>4, <2>5, PlacesMoved
  <2>7. Hands' = Hands
    BY <1>2, <1>3, <2>6, SameMap
  <2> HIDE DEF k, a
  <2> QED
    BY <1>1, <1>2, <1>3, <2>2, <2>6, <2>7, MakeArray DEF Kept, Once, Owned, a
<1> QED
  BY <1>4, <1>5

LEMMA PopOnce ==
    ASSUME Types, Known, Alone, Alone', Once, NEW t \in Writers, Pop(t), Continues(t)
    PROVE  Kept
<1> DEFINE k == loc[t].key
<1>1. pc[t] = "pop" /\ k \in Keys /\ loc[t].old \in Arrays /\ at' = at /\ buffer # <<>>
      /\ buffer' = Tail(buffer)
  BY CallerKnows DEF Pop, Knows, Calling
<1>2. Mapping \in ArraysOf /\ Hands \in HandsOf /\ buffer \in Seq(Arrays)
  BY PlacesType
<1>3. OneKey(t, k)
  BY ContinuesOneKey
<1>4. Hands[t] = None
  BY <1>1 DEF Hands, Hand, Filling, Replacing
<1>5. Hand(t)' = Head(buffer) /\ pc'[t] # "unmap"
  BY <1>1, PopFrame, KeysType DEF Hand, Fills, Filling, Replacing
<1>6. Mapping' = [Mapping EXCEPT ![k] = at[k]] /\ Hands' = [Hands EXCEPT ![t] = Head(buffer)]
      /\ Mapping[k] = at[k]
  BY <1>1, <1>2, <1>3, <1>5, PlacesMoved
<1>7. Mapping' = Mapping
  BY <1>1, <1>2, <1>6, SameMap
<1> QED
  BY <1>1, <1>2, <1>4, <1>6, <1>7, HoldSpare DEF Kept, Once, Owned

LEMMA SwapOnce ==
    ASSUME Types, Known, Alone, Alone', Once, NEW t \in Writers, Swap(t), Continues(t)
    PROVE  Kept
<1> DEFINE k == loc[t].key
<1>1. pc[t] = "swap" /\ k \in Keys /\ loc[t].old \in Arrays /\ loc[t].arr \in Arrays
      /\ buffer' = buffer /\ at'[k] = loc[t].arr /\ None \notin Arrays
  BY CallerKnows, KeysType DEF Swap, Knows, Calling, Replacing, Types, SharedType
<1>2. Mapping \in ArraysOf /\ Hands \in HandsOf /\ buffer \in Seq(Arrays)
  BY PlacesType
<1>3. OneKey(t, k)
  BY ContinuesOneKey
<1>4. Hand(t) = loc[t].arr
  BY <1>1 DEF Hand, Filling, Replacing
<1>5. Hand(t)' = at[k] /\ pc'[t] = "recycle"
  BY <1>1, SwapFrame DEF Hand, Filling, Replacing
<1>6. Mapping' = [Mapping EXCEPT ![k] = Hands[t]] /\ Hands' = [Hands EXCEPT ![t] = Mapping[k]]
  BY <1>1, <1>2, <1>3, <1>4, <1>5, PlacesMoved
<1> QED
  BY <1>1, <1>2, <1>6, Exchange DEF Kept, Once, Owned

LEMMA RecycleOnce ==
    ASSUME Types, Known, Alone, Alone', Once, NEW t \in Writers, Recycle(t), Continues(t)
    PROVE  Kept
<1> DEFINE k == loc[t].key
<1>1. pc[t] = "recycle" /\ k \in Keys /\ loc[t].old \in Arrays /\ None \notin Arrays
      /\ buffer' = Append(buffer, loc[t].old) /\ at' = at /\ pc'[t] = "idle"
  BY CallerKnows, KeysType, EndFrame DEF Recycle, Knows, Calling
<1>2. Mapping \in ArraysOf /\ Hands \in HandsOf /\ buffer \in Seq(Arrays)
  BY PlacesType
<1>3. OneKey(t, k)
  BY ContinuesOneKey
<1>4. Hand(t) = loc[t].old /\ Hand(t)' = None
  BY <1>1 DEF Hand, Filling, Replacing
<1>6. Mapping' = [Mapping EXCEPT ![k] = at[k]] /\ Hands' = [Hands EXCEPT ![t] = None]
      /\ Hands[t] = loc[t].old /\ Mapping[k] = at[k]
  BY <1>1, <1>2, <1>3, <1>4, PlacesMoved
<1>7. Mapping' = Mapping
  BY <1>1, <1>2, <1>6, SameMap
<1> QED
  BY <1>1, <1>2, <1>6, <1>7, DropHand DEF Kept, Once, Owned

LEMMA DeleteSpareOnce ==
    ASSUME Types, Known, Alone, Alone', Once, NEW t \in Writers, DeleteSpare(t), Continues(t)
    PROVE  Kept
<1> DEFINE k == loc[t].key
<1>1. pc[t] = "spare" /\ k \in Keys /\ loc[t].old \in Arrays /\ at[k] = loc[t].old
      /\ None \notin Arrays /\ buffer' = Append(buffer, loc[t].old) /\ pc'[t] = "unmap"
  BY CallerKnows, KeysType, DeleteSpareFrame DEF DeleteSpare, Knows, Calling, Deleting
<1>2. Mapping \in ArraysOf /\ Hands \in HandsOf /\ buffer \in Seq(Arrays)
  BY PlacesType
<1>3. OneKey(t, k)
  BY ContinuesOneKey
<1>4. Hand(t) = None /\ Hand(t)' = None
  BY <1>1 DEF Hand, Filling, Replacing
<1>6. Mapping' = [Mapping EXCEPT ![k] = None] /\ Hands' = [Hands EXCEPT ![t] = None]
      /\ Hands[t] = None /\ Mapping[k] = loc[t].old
  BY <1>1, <1>2, <1>3, <1>4, PlacesMoved
<1>7. Hands' = Hands
  BY <1>2, <1>6, SameMap
<1>8. Mapping[k] # None /\ buffer' = Append(buffer, Mapping[k])
  BY <1>1, <1>6
<1> HIDE DEF k
<1>9. /\ OnceIn([Mapping EXCEPT ![k] = None], Append(buffer, Mapping[k]), Hands)
      /\ OwnedIn(Mapping, buffer, Hands)
            \subseteq OwnedIn([Mapping EXCEPT ![k] = None], Append(buffer, Mapping[k]), Hands)
  BY <1>1, <1>2, <1>8, DropMapped DEF Once
<1> QED
  BY <1>6, <1>7, <1>8, <1>9 DEF Kept, Once, Owned

(* All steps of a writer. *)
LEMMA StepOnce ==
    ASSUME Types, Known, Alone, Once, ArraysHeld, NEW t \in Writers, Step(t)
    PROVE  /\ Continues(t) /\ Kept
           /\ Slot(t) => SlotArray(t) \in Arrays /\ at'[loc[t].key] = SlotArray(t)
<1>1. Slot(t) => SlotArray(t) \in Arrays
  <2>1. ASSUME Slot(t), at[loc[t].key] # None PROVE SlotArray(t) \in Arrays
    <3>1. loc[t].key \in Keys
      BY <2>1, CallerKnows DEF Slot, Knows, Calling, Growing
    <3> QED
      BY <2>1, <3>1 DEF SlotArray, Types, SharedType
  <2>2. ASSUME Slot(t), at[loc[t].key] = None PROVE SlotArray(t) \in Arrays
    <3>1. pc[t] = "slot" /\ loc[t].key \in Keys /\ loc[t].arr = None /\ loc[t].old = None
      BY <2>2, CallerKnows DEF Slot, Knows, Calling, Growing
    <3>2. Mapping[loc[t].key] = None /\ Hands[t] = None
      BY <2>2, <3>1 DEF Mapping, MapOf, Hands, Hand, Filling, Replacing
    <3>3. CASE Len(buffer) > BufferSize
      <4>1. buffer # <<>> /\ buffer \in Seq(Arrays)
        BY <3>3, SpdkAssumption DEF Types, SharedType
      <4> QED
        BY <2>2, <3>3, <4>1, TailCells DEF SlotArray
    <3>4. CASE ~(Len(buffer) > BufferSize)
      BY <2>2, <3>1, <3>2, <3>4, NewArrayIsNew DEF SlotArray
    <3> QED
      BY <3>3, <3>4
  <2> QED
    BY <2>1, <2>2
<1>2. Continues(t)
  BY <1>1, StepContinues, SlotContinues
<1>3. Slot(t) => at'[loc[t].key] = SlotArray(t)
  BY <1>1, SlotContinues
<1>4. Known' /\ Alone'
  BY <1>2, ContinuesKnown
<1>5. Kept
  BY <1>2, <1>4, SlotOnce, PopOnce, SwapOnce, RecycleOnce, DeleteSpareOnce, QuietStepOnce DEF Step
<1> QED
  BY <1>1, <1>2, <1>3, <1>5

----------------------------------------------------------------------------
(* What a thread has in its locals is owned *)

LEMMA HeldStep ==
    ASSUME ArraysHeld, NEW t \in Threads, Others(t), Owned \ {None} \subseteq Owned',
           {loc'[t].arr, loc'[t].old} \subseteq Owned \cup Owned' \cup {None}
    PROVE  ArraysHeld'
<1>1. Owned \cup Owned' \cup {None} \subseteq Owned' \cup {None}
  OBVIOUS
<1>2. ASSUME NEW u \in Threads \ {t} PROVE {loc'[u].arr, loc'[u].old} \subseteq Owned' \cup {None}
  BY <1>1 DEF ArraysHeld, Others
<1>3. {loc'[t].arr, loc'[t].old} \subseteq Owned' \cup {None}
  BY <1>1
<1> QED
  BY <1>2, <1>3 DEF ArraysHeld

LEMMA StepHeld ==
    ASSUME Types, Known, Alone, Once, ArraysHeld, NEW t \in Writers, Step(t)
    PROVE  ArraysHeld'
<1>1. /\ Continues(t) /\ Kept /\ (Slot(t) => SlotArray(t) \in Arrays /\ at'[loc[t].key] = SlotArray(t))
      /\ t \in Threads
  BY StepOnce, WriterThread
<1>2. Others(t) /\ Known' /\ Alone' /\ OneKey(t, loc[t].key) /\ loc[t].key \in Keys
  BY <1>1, ContinuesKnown, ContinuesOneKey DEF Continues
<1>3. {loc[t].arr, loc[t].old, None} \subseteq Owned \cup {None}
  BY <1>1 DEF ArraysHeld
<1>4. {loc'[t].arr, loc'[t].old} \subseteq Owned \cup Owned' \cup {None}
  <2>1. CASE Grow(t) \/ Release(t) \/ DeleteSpare(t)
    <3>1. loc'[t] = loc[t]
      BY <2>1, GrowFrame, ReleaseFrame, DeleteSpareFrame
    <3> QED
      BY <1>3, <3>1
  <2>2. CASE Recycle(t) \/ DeleteUnmap(t)
    <3>1. loc'[t] = Idle
      BY <2>2, EndFrame
    <3> QED
      BY <3>1 DEF Idle
  <2>3. CASE Write(t)
    <3>1. loc'[t] = loc[t] \/ loc'[t] = Idle
      BY <2>3, WriteFrame
    <3>2. Idle.arr = None /\ Idle.old = None
      BY DEF Idle
    <3> QED
      BY <1>3, <3>1, <3>2
  <2>4. CASE GetBlock(t)
    BY <1>3, <2>4, GetBlockFrame
  <2>5. CASE Pop(t)
    <3>1. loc'[t].old = loc[t].old /\ loc'[t].arr = Head(buffer)
      BY <2>5, PopFrame
    <3>2. Head(buffer) \in Owned
      <4>1. buffer \in Seq(Arrays) /\ buffer # <<>>
        BY <2>5 DEF Pop, Types, SharedType
      <4>2. 1 \in DOMAIN buffer /\ Head(buffer) = buffer[1]
        BY <4>1, TailCells
      <4> QED
        BY <4>2 DEF Owned, OwnedIn
    <3> QED
      BY <1>3, <3>1, <3>2
  <2>6. CASE Swap(t)
    <3>1. loc'[t].arr = loc[t].arr /\ loc'[t].old = at[loc[t].key]
      BY <1>2, <2>6, SwapFrame
    <3> QED
      BY <1>2, <1>3, <3>1, AtOwned
  <2>7. CASE Slot(t)
    <3>1. {loc'[t].arr, loc'[t].old} \subseteq {loc[t].arr, loc[t].old, SlotArray(t)}
      BY <1>1, <2>7, SlotFrame
    <3>2. SlotArray(t) \in Owned \cup Owned' \cup {None}
      <4>1. pc'[t] # "unmap"
        BY <1>1, <2>7, SlotFrame DEF Fills
      <4>2. Mapping'[loc[t].key] = SlotArray(t)
        BY <1>1, <1>2, <2>7, <4>1, PlacesStep
      <4> QED
        BY <1>2, <4>2 DEF Owned, OwnedIn
    <3> QED
      BY <1>3, <3>1, <3>2
  <2> QED
    BY <2>1, <2>2, <2>3, <2>4, <2>5, <2>6, <2>7 DEF Step
<1> QED
  BY <1>1, <1>2, <1>4, HeldStep DEF Kept

LEMMA BeginsHeld ==
    ASSUME Types, Known, Alone, Once, ArraysHeld, NEW t \in Writers, NEW k \in Keys, Begins(t, k),
           buffer' = buffer, pc'[t] = "get" => loc'[t].old = None,
           {loc'[t].arr, loc'[t].old} \subseteq {at[k], None}
    PROVE  Kept /\ ArraysHeld'
<1>1. Known' /\ Alone'
  BY BeginsKnown
<1>2. Kept
  BY <1>1, BeginsOnce
<1>3. {at[k], None} \subseteq Owned \cup Owned' \cup {None}
  BY AtOwned
<1> QED
  BY <1>2, <1>3, HeldStep, WriterThread DEF Kept, Begins

LEMMA ReadsHeld ==
    ASSUME Types, Known, ArraysHeld, Once, NEW r \in Readers, Reads(r),
           loc'[r].arr \in Arrays => \E k \in Keys : loc'[r].arr = at[k]
    PROVE  Kept /\ ArraysHeld' /\ Mapping' = Mapping /\ Hands' = Hands
<1>1. \A t \in Writers : pc'[t] = pc[t] /\ loc'[t] = loc[t]
  BY Apart, WriterThread DEF Reads, Others
<1>2. at' = at /\ buffer' = buffer
  BY DEF Reads
<1>3. Mapping' = Mapping
  <2>1. \A k \in Keys : MapOf(k)' = MapOf(k)
    BY <1>1, <1>2 DEF MapOf
  <2> QED
    BY <2>1 DEF Mapping
<1>4. Hands' = Hands
  <2>1. \A t \in Writers : Hand(t)' = Hand(t)
    BY <1>1 DEF Hand
  <2> QED
    BY <2>1 DEF Hands
<1>5. Kept
  BY <1>2, <1>3, <1>4 DEF Kept, Once, Owned
<1>6. {loc'[r].arr, loc'[r].old} \subseteq Owned \cup {None}
  <2>1. loc'[r].old = None /\ loc'[r].arr \in Arrays \cup {None}
    BY DEF Reads, Local
  <2>2. loc'[r].arr \in Owned \cup {None}
    BY <2>1, AtOwned
  <2> QED
    BY <2>1, <2>2
<1>7. Others(r) /\ r \in Threads
  BY DEF Reads, Threads
<1> QED
  BY <1>3, <1>4, <1>5, <1>6, <1>7, HeldStep DEF Kept

(* The array that a step of t changes. *)
Touched(t) ==
    IF pc[t] = "slot" /\ at[loc[t].key] = None THEN {SlotArray(t)}
    ELSE IF pc[t] = "pop" THEN {Head(buffer)}
    ELSE IF pc[t] \in Filling THEN {loc[t].arr} ELSE {}

(* No other array changes. *)
LEMMA HeapStep ==
    ASSUME Types, Known, Alone, Once, ArraysHeld, NEW t \in Writers, Step(t)
    PROVE  /\ Touched(t) \subseteq Arrays
           /\ \A a \in Arrays : a \notin Touched(t) => heap'[a] = heap[a]
<1>1. heap \in [Arrays -> Array] /\ loc[t].key \in Keys /\ Knows(pc[t], loc[t])
      /\ (Slot(t) => SlotArray(t) \in Arrays) /\ buffer \in Seq(Arrays)
  BY StepOnce, ContinuesOneKey, CallerKnows DEF Types, SharedType
<1>2. CASE Grow(t) \/ Release(t) \/ Swap(t) \/ Recycle(t) \/ DeleteSpare(t) \/ DeleteUnmap(t)
  <2>1. heap' = heap /\ Touched(t) = {}
    BY <1>2 DEF Grow, Release, Swap, Recycle, DeleteSpare, DeleteUnmap, Touched, Filling
  <2> QED
    BY <2>1
<1>3. CASE Slot(t)
  <2> DEFINE a == SlotArray(t)
  <2>1. a \in Arrays /\ pc[t] = "slot"
    BY <1>1, <1>3 DEF Slot
  <2>2. CASE at[loc[t].key] = None
    <3>1. heap' = [heap EXCEPT ![a] = NoArray] /\ Touched(t) = {a}
      BY <1>3, <2>1, <2>2 DEF Slot, SlotArray, Touched
    <3> HIDE DEF a
    <3> QED
      BY <1>1, <2>1, <3>1
  <2>3. CASE at[loc[t].key] # None
    <3>1. heap' = heap /\ Touched(t) = {}
      BY <1>3, <2>1, <2>3 DEF Slot, Touched, Filling
    <3> QED
      BY <3>1
  <2> QED
    BY <2>2, <2>3
<1>4. CASE Pop(t)
  <2> DEFINE a == Head(buffer)
             o == heap[loc[t].old]
             v == [size |-> IF loc[t].op = "merge" THEN o.size ELSE heap[a].size,
                   addr |-> [i \in Cells |-> IF i < loc[t].next THEN o.addr[i] ELSE heap[a].addr[i]]]
  <2>1. a \in Arrays /\ pc[t] = "pop"
    BY <1>1, <1>4, TailCells DEF Pop
  <2>2. heap' = [heap EXCEPT ![a] = v] /\ Touched(t) = {a}
    BY <1>4, <2>1 DEF Pop, Touched
  <2> HIDE DEF a, v
  <2> QED
    BY <1>1, <2>1, <2>2
<1>5. CASE GetBlock(t)
  <2>1. pc[t] = "get" /\ Touched(t) = {loc[t].arr} /\ loc[t].arr \in Arrays
    BY <1>1, <1>5 DEF GetBlock, Touched, Knows, Filling
  <2> DEFINE a == loc[t].arr
             n == loc[t].next
  <2>2. heap' = [heap EXCEPT ![a].addr[n] = Head(free)]
    BY <1>5 DEF GetBlock
  <2> HIDE DEF a, n
  <2>3. \A b \in Arrays : b # a => heap'[b] = heap[b]
    BY <1>1, <2>2
  <2> QED
    BY <2>1, <2>3 DEF a
<1>6. CASE Write(t)
  <2>1. pc[t] = "write" /\ Touched(t) = {loc[t].arr} /\ loc[t].arr \in Arrays
    BY <1>1, <1>6 DEF Write, Touched, Knows, Filling
  <2> DEFINE a == loc[t].arr
             n == loc[t].size
  <2>2. heap' = [heap EXCEPT ![a].size = n]
    BY <1>6 DEF Write
  <2> HIDE DEF a, n
  <2>3. \A b \in Arrays : b # a => heap'[b] = heap[b]
    BY <1>1, <2>2
  <2> QED
    BY <2>1, <2>3 DEF a
<1> QED
  BY <1>2, <1>3, <1>4, <1>5, <1>6 DEF Step

(* Nobody else has it, and no other key. *)
LEMMA TouchedIsMine ==
    ASSUME Types, Known, Alone, Once, ArraysHeld, NEW t \in Writers, Step(t)
    PROVE  /\ \A u \in Writers \ {t} : Hand(u) \notin Touched(t)
           /\ \A k \in Keys \ {loc[t].key} : MapOf(k) \notin Touched(t)
<1>1. /\ Continues(t) /\ Kept /\ (Slot(t) => SlotArray(t) \in Arrays /\ at'[loc[t].key] = SlotArray(t))
      /\ None \notin Arrays
  BY StepOnce, KeysType
<1>2. /\ Known' /\ Alone' /\ OneKey(t, loc[t].key) /\ loc[t].key \in Keys /\ Knows(pc[t], loc[t])
      /\ buffer \in Seq(Arrays) /\ OnceIn(Mapping, buffer, Hands)
  BY <1>1, ContinuesKnown, ContinuesOneKey, CallerKnows DEF Types, SharedType, Once
<1>3. /\ \A k \in Keys : Mapping[k] = MapOf(k)
      /\ \A u \in Writers : Hands[u] = Hand(u)
  BY DEF Mapping, Hands
<1>4. CASE pc[t] = "slot" /\ at[loc[t].key] = None
  <2> DEFINE a == SlotArray(t)
  <2>1. Slot(t) /\ Touched(t) = {a}
    BY <1>4 DEF Step, Touched, Grow, Pop, GetBlock, Write, Release, Swap, Recycle, DeleteSpare,
                DeleteUnmap
  <2>2. pc'[t] # "unmap"
    BY <1>1, <2>1, SlotFrame DEF Fills
  <2>3. /\ Mapping'[loc[t].key] = a /\ a \in Arrays
        /\ \A k \in Keys \ {loc[t].key} : Mapping'[k] = Mapping[k]
        /\ \A u \in Writers \ {t} : Hands'[u] = Hands[u]
    BY <1>1, <1>2, <2>1, <2>2, PlacesStep
  <2>4. /\ \A k \in Keys \ {loc[t].key} : Mapping'[k] # Mapping'[loc[t].key]
        /\ \A u \in Writers \ {t} : Hands'[u] # Mapping'[loc[t].key]
    BY <1>1, <1>2, <2>3 DEF Kept, Once, OnceIn
  <2> HIDE DEF a
  <2> QED
    BY <1>3, <2>1, <2>3, <2>4
<1>5. CASE pc[t] = "pop"
  <2>1. Pop(t)
    BY <1>5 DEF Step, Grow, Slot, GetBlock, Write, Release, Swap, Recycle, DeleteSpare, DeleteUnmap
  <2>2. buffer # <<>> /\ Touched(t) = {Head(buffer)}
    BY <1>5, <2>1 DEF Touched, Pop
  <2>3. 1 \in DOMAIN buffer /\ Head(buffer) = buffer[1]
    BY <1>2, <2>2, TailCells
  <2> QED
    BY <1>2, <1>3, <2>2, <2>3 DEF OnceIn
<1>6. CASE pc[t] \in Filling
  <2>1. Touched(t) = {loc[t].arr} /\ loc[t].arr \in Arrays
    BY <1>2, <1>6 DEF Touched, Filling, Knows
  <2>2. CASE loc[t].old = None
    <3>1. at[loc[t].key] = loc[t].arr
      BY <1>2, <1>6, <2>2 DEF Knows
    <3>2. Mapping[loc[t].key] = loc[t].arr
      BY <1>1, <1>2, <1>6, <3>1, PlacesStep DEF Filling
    <3> QED
      BY <1>1, <1>2, <1>3, <2>1, <3>2 DEF OnceIn
  <2>3. CASE loc[t].old # None
    <3>1. Hands[t] = loc[t].arr
      BY <1>3, <1>6, <2>3 DEF Hand
    <3> QED
      BY <1>1, <1>2, <1>3, <2>1, <3>1 DEF OnceIn
  <2> QED
    BY <2>2, <2>3
<1>7. CASE ~(pc[t] = "slot" /\ at[loc[t].key] = None) /\ pc[t] # "pop" /\ pc[t] \notin Filling
  BY <1>7 DEF Touched
<1> QED
  BY <1>4, <1>5, <1>6, <1>7

(* The arrays that a call reads and writes are its own and that of its key. *)
LEMMA CallArrays ==
    ASSUME Types, Known, Alone, NEW t \in Writers
    PROVE  /\ pc[t] \in {"pop"} \cup Filling \cup Replacing => MapOf(loc[t].key) = at[loc[t].key]
           /\ pc[t] \in Filling \cup Replacing =>
                /\ loc[t].arr \in Arrays
                /\ loc[t].arr = IF loc[t].old = None THEN MapOf(loc[t].key) ELSE Hand(t)
           /\ pc[t] \in {"pop"} \cup Filling \cup Replacing /\ loc[t].old # None =>
                loc[t].old \in Arrays /\ loc[t].old = MapOf(loc[t].key)
<1>1. Knows(pc[t], loc[t]) /\ loc[t] \in Local /\ None \notin Arrays
  BY CallerKnows, KeysType
<1>2. ASSUME pc[t] \in {"pop"} \cup Filling \cup Replacing PROVE MapOf(loc[t].key) = at[loc[t].key]
  BY <1>2 DEF Alone, MapOf, Filling, Replacing
<1>3. loc[t].old \in Arrays \cup {None}
  BY <1>1 DEF Local
<1> QED
  BY <1>1, <1>2, <1>3 DEF Knows, Hand, Filling, Replacing

----------------------------------------------------------------------------
(* What a call fills, and what arrays hold *)

(* The inductive invariant. *)
Inv == Types /\ Known /\ Alone /\ Once /\ ArraysHeld /\ Fitting /\ Wholes

(* A call whose arrays are left alone is as it was. *)
LEMMA FitsKept ==
    ASSUME NEW u, pc'[u] = pc[u], loc'[u] = loc[u], Fits(pc[u], loc[u]),
           pc[u] \in Filling \cup Replacing => heap'[loc[u].arr] = heap[loc[u].arr],
           pc[u] \in {"pop"} \cup Filling \cup Replacing /\ loc[u].old # None =>
                heap'[loc[u].old] = heap[loc[u].old]
    PROVE  Fits(pc[u], loc[u])'
<1>1. Ranges(pc[u], loc[u])'
  <2>1. (Ranges(pc[u], loc[u]))' <=> Ranges(pc'[u], loc'[u])
    BY DEF Ranges, First, Pages
  <2> QED
    BY <2>1 DEF Fits
<1>2. Filled(pc[u], loc[u])'
  BY DEF Fits, Filled
<1>3. Replaces(pc[u], loc[u])'
  BY DEF Fits, Replaces, Extends, First, Pages, Replacing
<1> QED
  BY <1>1, <1>2, <1>3 DEF Fits

(* A step of one writer leaves the calls of the others as they were. *)
LEMMA FitsOthers ==
    ASSUME Inv, NEW t \in Writers, Step(t), NEW u \in Writers \ {t}
    PROVE  Fits(pc[u], loc[u])'
<1>1. /\ Continues(t) /\ Others(t) /\ pc[t] # "idle"
  BY StepOnce DEF Inv, Continues
<1>2. pc'[u] = pc[u] /\ loc'[u] = loc[u] /\ Fits(pc[u], loc[u])
  BY <1>1, WriterThread DEF Others, Inv, Fitting
<1>3. CASE pc[u] \in {"pop"} \cup Filling \cup Replacing
  <2>1. /\ loc[u].key \in Keys /\ loc[u].key # loc[t].key
    BY <1>1, <1>3, CallerKnows DEF Inv, Alone, Filling, Replacing
  <2>2. Hand(u) \notin Touched(t) /\ MapOf(loc[u].key) \notin Touched(t)
    BY <2>1, TouchedIsMine DEF Inv
  <2>3. \A a \in Arrays : a \notin Touched(t) => heap'[a] = heap[a]
    BY HeapStep DEF Inv
  <2>4. /\ pc[u] \in Filling \cup Replacing => heap'[loc[u].arr] = heap[loc[u].arr]
        /\ loc[u].old # None => heap'[loc[u].old] = heap[loc[u].old]
    BY <1>3, <2>2, <2>3, CallArrays DEF Inv
  <2> QED
    BY <1>2, <2>4, FitsKept
<1>4. CASE pc[u] \notin {"pop"} \cup Filling \cup Replacing
  BY <1>2, <1>4, FitsKept
<1> QED
  BY <1>3, <1>4

(* What every cell range is: counted, and one more than what is filled. *)
LEMMA RangeTypes ==
    ASSUME NEW l \in Local
    PROVE  /\ Pages(Len(l.value)) \in Nat /\ First(l) \in Int /\ Pages(l.size) \in Nat
           /\ l.last \in Nat /\ l.next \in Nat \ {0} /\ First(l) <= l.last + 1
           /\ First(l) = l.last - Pages(Len(l.value)) + 1
<1>1. l.last \in Nat /\ Len(l.value) \in Nat /\ l.size \in Nat /\ l.next \in Nat \ {0}
  BY DEF Local, Posts
<1>2. Pages(Len(l.value)) \in Nat /\ Pages(l.size) \in Nat
  BY <1>1, PagesSmall
<1> QED
  BY <1>1, <1>2 DEF First

(* The array of a key that nobody writes is whole. *)
LEMMA QuietWhole ==
    ASSUME Inv, NEW k \in Keys, at[k] \in Arrays, ~Locked(k)
    PROVE  Whole(at[k]) /\ MapOf(k) = at[k]
<1>1. MapOf(k) = at[k]
  BY DEF MapOf, Locked
<1>2. Mapping[k] = at[k] /\ \A t \in Writers : Hands[t] = Hand(t)
  BY <1>1 DEF Mapping, Hands
<1>3. \A t \in Writers : Hand(t) # at[k]
  BY <1>2, KeysType DEF Inv, Once, OnceIn
<1> QED
  BY <1>1, <1>3 DEF Inv, Wholes

(* And so is the posting that a call reads or replaces. *)
LEMMA CallWhole ==
    ASSUME Inv, NEW t \in Writers, pc[t] \in {"pop"} \cup Filling \cup Replacing
    PROVE  Whole(at[loc[t].key]) /\ at[loc[t].key] \in Arrays
<1> DEFINE k == loc[t].key
<1>1. at[k] \in Arrays /\ MapOf(k) = at[k] /\ k \in Keys
  BY CallArrays, CallerKnows DEF Inv, Knows, Filling, Replacing
<1> HIDE DEF k
<1>2. Mapping[k] = at[k] /\ \A u \in Writers : Hands[u] = Hand(u)
  BY <1>1 DEF Mapping, Hands
<1>3. \A u \in Writers : Hand(u) # at[k]
  <2>1. OnceIn(Mapping, buffer, Hands) /\ None \notin Arrays
    BY KeysType DEF Inv, Once
  <2> QED
    BY <1>1, <1>2, <2>1 DEF OnceIn
<1>4. Whole(at[k])
  BY <1>1, <1>3 DEF Inv, Wholes
<1> QED
  BY <1>1, <1>4 DEF k

(* What is read of the last block. *)
LEMMA RestType ==
    ASSUME Inv, NEW a \in Arrays, Whole(a), heap[a].size >= 0
    PROVE  /\ RestOf(a) \in Seq(Items \cup {Blank}) /\ Len(RestOf(a)) = heap[a].size % PageSize
           /\ heap[a].size % PageSize # 0 => heap[a].addr[(heap[a].size \div PageSize) + 1] \in Blocks
<1> DEFINE n == heap[a].size
           q == n \div PageSize
           r == n % PageSize
           b == heap[a].addr[q + 1]
<1>1. n \in Nat
  BY DEF Inv, Types, SharedType, Array
<1>2. q \in Nat /\ r \in 0 .. PageSize - 1 /\ (r # 0 => Pages(n) = q + 1)
  <2> HIDE DEF n
  <2> QED
    BY <1>1, PagesRest
<1>3. CASE r = 0
  BY <1>3 DEF RestOf
<1>4. CASE r # 0
  <2>1. b \in Blocks
    <3>1. q + 1 \in 1 .. Pages(n)
      BY <1>2, <1>4
    <3> QED
      BY <3>1 DEF Whole
  <2>2. disk[b] \in [1..PageSize -> Items \cup {Blank}]
    BY <2>1 DEF Inv, Types, SharedType
  <2> DEFINE d == disk[b]
  <2>3. d \in Seq(Items \cup {Blank}) /\ Len(d) = PageSize
    <3> HIDE DEF d
    <3>1. d \in [1..PageSize -> Items \cup {Blank}] /\ PageSize \in Nat
      BY <2>2, PageSizeType DEF d
    <3> QED
      BY <3>1
  <2>4. RestOf(a) = SubSeq(d, 1, r)
    BY <1>4 DEF RestOf
  <2> HIDE DEF d, r, b
  <2>5. 1 \in 1 .. Len(d) + 1 /\ r \in 0 .. Len(d)
    BY <1>2, <2>3, PageSizeType
  <2>6. SubSeq(d, 1, r) \in Seq(Items \cup {Blank}) /\ Len(SubSeq(d, 1, r)) = r
    BY <1>2, <2>3, <2>5, SubSeqProperties
  <2> QED
    BY <2>1, <2>4, <2>6 DEF r, b
<1> QED
  BY <1>3, <1>4

(* The parts of Fits after a step of t, from its new label and locals. *)
LEMMA FitsAt ==
    ASSUME NEW t, Ranges(pc'[t], loc'[t]), Filled(pc[t], loc[t])', Replaces(pc[t], loc[t])'
    PROVE  Fits(pc[t], loc[t])'
<1>1. Ranges(pc[t], loc[t])' <=> Ranges(pc'[t], loc'[t])
  BY DEF Ranges, First, Pages
<1> QED
  BY <1>1 DEF Fits

LEMMA ExtendsAt ==
    ASSUME NEW t, NEW n,
           n >= 0,
           loc'[t].op = "merge" => /\ First(loc'[t]) = (n \div PageSize) + 1
                                   /\ loc'[t].old = None <=> n % PageSize = 0
    PROVE  Extends(loc'[t], n)
BY DEF Extends

LEMMA ReplacesAt ==
    ASSUME NEW t,
           pc'[t] \in {"pop"} \cup Filling \cup {"release"} /\ loc'[t].old # None =>
                Extends(loc'[t], heap'[loc'[t].old].size),
           pc'[t] \in Filling /\ loc'[t].op = "merge" /\ loc'[t].old = None =>
                Extends(loc'[t], heap'[loc'[t].arr].size)
    PROVE  Replaces(pc[t], loc[t])'
BY DEF Replaces, Extends, First, Pages

(* A call begins with the cells that it will fill; the guards of Put and    *)
(* Merge see to it that there are enough.                                   *)
LEMMA PutFits ==
    ASSUME Inv, NEW t \in Writers, NEW k \in Keys, NEW v \in PutValues[k], Put(t, k, v)
    PROVE  Fits(pc[t], loc[t])'
<1>1. /\ pc'[t] \in Growing /\ loc'[t].op = "put" /\ loc'[t].value = v /\ loc'[t].size = Len(v)
      /\ loc'[t].next = 1 /\ loc'[t].last = Pages(Len(v)) /\ loc'[t] \in Local
      /\ loc'[t].old = None /\ (pc'[t] = "grow" => loc'[t].delta > 0)
  <2>1. k \in Nat /\ rows \in Nat
    BY KeysType DEF Inv, Types, SharedType
  <2>2. k + 1 > rows => k + 1 - rows > 0
    BY <2>1
  <2>3. /\ pc'[t] = (IF k + 1 > rows THEN "grow" ELSE "slot") /\ loc'[t].delta = k + 1 - rows
        /\ loc'[t].op = "put" /\ loc'[t].value = v /\ loc'[t].size = Len(v)
        /\ loc'[t].next = 1 /\ loc'[t].last = Pages(Len(v)) /\ loc'[t] \in Local
        /\ loc'[t].old = None
    BY PutFrame DEF Inv
  <2> QED
    BY <2>2, <2>3 DEF Growing
<1>2. Pages(Len(v)) < BlockLimit
  BY DEF Put
<1>3. First(loc'[t]) = 1
  BY <1>1, RangeTypes
<1>4. Ranges(pc'[t], loc'[t])
  BY <1>1, <1>2, <1>3 DEF Ranges, Growing, Filling, Replacing
<1>5. Filled(pc[t], loc[t])'
  BY <1>1 DEF Filled, Growing, Filling, Replacing
<1>6. Replaces(pc[t], loc[t])'
  BY <1>1, ReplacesAt DEF Growing, Filling
<1> QED
  BY <1>4, <1>5, <1>6, FitsAt

LEMMA MergeFits ==
    ASSUME Inv, NEW t \in Writers, NEW k \in Keys, NEW v \in MergeValues[k], Merge(t, k, v)
    PROVE  Fits(pc[t], loc[t])' /\ RestOf(at[k]) \in Posts
<1> DEFINE n == heap[at[k]].size
           q == n \div PageSize
           r == n % PageSize
           m == Len(v)
<1>1. at[k] \in Arrays /\ n >= 0 /\ ~Locked(k) /\ Pages(n + m) < BlockLimit /\ heap' = heap
  BY DEF Inv, Types, SharedType, Merge, Mapped, Call
<1>2. Whole(at[k])
  BY <1>1, QuietWhole
<1>3. RestOf(at[k]) \in Posts /\ RestOf(at[k]) \in Seq(Items \cup {Blank}) /\ Len(RestOf(at[k])) = r
  BY <1>1, <1>2, RestType DEF Posts
<1>4. /\ n \in Nat /\ v \in Seq(Items) /\ loc'[t].op = "merge"
      /\ loc'[t].value = RestOf(at[k]) \o v /\ loc'[t].size = n + m /\ loc'[t].next = q + 1
      /\ loc'[t].last = Pages(n + m) /\ loc'[t] \in Local
      /\ IF r # 0 THEN pc'[t] = "pop" /\ loc'[t].old = at[k] /\ loc'[t].arr = None
                  ELSE pc'[t] = "get" /\ loc'[t].arr = at[k] /\ loc'[t].old = None
  BY <1>3, MergeFrame DEF Inv
<1>5. m \in Nat \ {0} /\ v \in Seq(Items \cup {Blank})
  <2>1. v # <<>> /\ v \in Seq(Items)
    BY <1>4, SpdkAssumption
  <2> QED
    BY <2>1, EmptySeq
<1>6. Len(loc'[t].value) = r + m
  <2> DEFINE w == RestOf(at[k])
             x == loc'[t].value
  <2>1. w \in Seq(Items \cup {Blank}) /\ x = w \o v /\ v \in Seq(Items \cup {Blank}) /\ Len(w) = r
    BY <1>3, <1>4, <1>5
  <2> HIDE DEF w, x, r
  <2>2. Len(w \o v) = Len(w) + Len(v)
    BY <2>1, ConcatProperties
  <2> QED
    BY <2>1, <2>2 DEF x
<1>7. /\ q \in Nat /\ r \in 0 .. PageSize - 1 /\ Pages(n + m) = q + Pages(r + m)
      /\ (r = 0 => Pages(n) = q)
  <2> HIDE DEF n
  <2> QED
    BY <1>4, <1>5, PagesRest
<1>8. Pages(r + m) \in Nat /\ Pages(r + m) >= 1
  <2>1. r + m \in Nat /\ r + m # 0
    BY <1>5, <1>7
  <2> QED
    BY <2>1, PagesSmall
<1> HIDE DEF n, q, r, m
<1>9. First(loc'[t]) = q + 1 /\ q + 1 <= Pages(n + m) /\ q + 1 >= 1
  <2>1. First(loc'[t]) = Pages(n + m) - Pages(r + m) + 1
    BY <1>4, <1>6, RangeTypes
  <2> QED
    BY <1>7, <1>8, <2>1
<1>10. Ranges(pc'[t], loc'[t])
  <2> DEFINE p == pc'[t]
             l == loc'[t]
  <2>1. p \in {"pop", "get"} /\ l.op = "merge" /\ l.next = q + 1
    BY <1>4
  <2>2. l.last = Pages(l.size) /\ l.last = Pages(n + m)
    BY <1>4
  <2>3. l.last < BlockLimit /\ First(l) >= 1 /\ l.next = First(l) /\ l.next <= l.last
        /\ First(l) <= l.next
    BY <1>1, <1>7, <1>9, <2>1, <2>2
  <2> HIDE DEF p, l
  <2>4. Ranges(p, l)
    BY <2>1, <2>2, <2>3 DEF Ranges, Growing, Filling, Replacing
  <2> QED
    BY <2>4 DEF p, l
<1>11. Filled(pc[t], loc[t])'
  <2>1. ASSUME r = 0, NEW i \in 1 .. q PROVE heap[at[k]].addr[i] \in Blocks
    <3>1. Pages(heap[at[k]].size) = q
      BY <1>7, <2>1 DEF n
    <3> QED
      BY <1>2, <3>1 DEF Whole
  <2>2. loc'[t].next - 1 = q
    BY <1>4, <1>7
  <2>3. CASE r # 0
    BY <1>4, <2>3 DEF Filled, Filling, Replacing
  <2>4. CASE r = 0
    BY <1>1, <1>4, <2>1, <2>2, <2>4 DEF Filled, Filling, Replacing
  <2> QED
    BY <2>3, <2>4
<1>12. Replaces(pc[t], loc[t])'
  <2>1. Extends(loc'[t], n)
    <3>1. loc'[t].old = None <=> r = 0
      BY <1>1, <1>4, KeysType
    <3>2. n >= 0
      BY <1>4
    <3> QED
      BY <1>9, <3>1, <3>2 DEF Extends, q, r
  <2>2. pc'[t] = "pop" => heap'[loc'[t].old].size = n
    BY <1>1, <1>4 DEF n
  <2>3. pc'[t] = "get" => heap'[loc'[t].arr].size = n /\ loc'[t].old = None
    BY <1>1, <1>4 DEF n
  <2>4. pc'[t] \in {"pop", "get"}
    BY <1>4
  <2> QED
    BY <1>4, <2>1, <2>2, <2>3, <2>4, ReplacesAt DEF Filling
<1> QED
  BY <1>3, <1>10, <1>11, <1>12, FitsAt

(* A call goes on to fill cells, or has filled them all. *)
LEMMA FillRanges ==
    ASSUME NEW l \in Local, NEW p, p = IF l.next <= l.last THEN "get" ELSE "write",
           l.last = Pages(l.size), l.last < BlockLimit, First(l) >= 1,
           l.op = "put" => First(l) = 1 /\ l.size = Len(l.value),
           First(l) <= l.next, l.next <= l.last + 1
    PROVE  Ranges(p, l)
<1>1. l.next \in Nat /\ l.last \in Nat
  BY RangeTypes
<1>2. p = "get" \/ (p = "write" /\ l.next = l.last + 1)
  BY <1>1
<1> QED
  BY <1>2 DEF Ranges, Growing, Filling, Replacing

(* Locals that keep what First and Ranges look at. *)
LEMMA SameRange ==
    ASSUME NEW t, CallKept(t)
    PROVE  First(loc'[t]) = First(loc[t])
BY DEF CallKept, First

LEMMA SlotFits ==
    ASSUME Inv, NEW t \in Writers, Slot(t)
    PROVE  Fits(pc[t], loc[t])'
<1> DEFINE a == SlotArray(t)
<1>1. /\ Continues(t) /\ a \in Arrays /\ loc'[t] \in Local /\ loc[t] \in Local
      /\ Knows(pc[t], loc[t]) /\ pc[t] = "slot" /\ None \notin Arrays
  BY StepOnce, CallerKnows, KeysType DEF Inv, Step, Continues, Slot
<1>2. /\ loc[t].op = "put" /\ loc[t].arr = None /\ loc[t].old = None
      /\ Ranges(pc[t], loc[t])
  BY <1>1 DEF Knows, Growing, Inv, Fitting, Fits
<1>3. /\ CallKept(t) /\ loc'[t].next = loc[t].next
      /\ \/ /\ heap'[a].size < 0 /\ Fills(t)
            /\ loc'[t].arr = a /\ loc'[t].old = None
         \/ /\ ~(heap'[a].size < 0) /\ pc'[t] = "pop"
            /\ loc'[t].arr = None /\ loc'[t].old = a
  BY <1>1, <1>2, SlotFrame DEF Inv
<1>4. heap'[a] \in Array
  <2>1. CASE at[loc[t].key] = None
    <3>1. heap' = [heap EXCEPT ![a] = NoArray]
      BY <2>1 DEF Slot, SlotArray
    <3> HIDE DEF a
    <3>2. heap'[a] = NoArray
      BY <1>1, <3>1 DEF Inv, Types, SharedType
    <3> QED
      BY <3>2, NoArrayType
  <2>2. CASE at[loc[t].key] # None
    <3>1. heap' = heap
      BY <2>2 DEF Slot
    <3> QED
      BY <1>1, <3>1 DEF Inv, Types, SharedType
  <2> QED
    BY <2>1, <2>2
<1>5. First(loc'[t]) = 1 /\ loc'[t].next = 1 /\ loc'[t].last = Pages(loc'[t].size)
      /\ loc'[t].last < BlockLimit /\ loc'[t].op = "put" /\ loc'[t].size = Len(loc'[t].value)
  BY <1>1, <1>2, <1>3, SameRange DEF Ranges, Growing, CallKept
<1> HIDE DEF a
<1>6. CASE heap'[a].size < 0
  <2>1. heap'[a].size = -1
    BY <1>4, <1>6 DEF Array
  <2>2. loc'[t].next <= loc'[t].last + 1 /\ pc'[t] = IF loc'[t].next <= loc'[t].last THEN "get" ELSE "write"
    BY <1>1, <1>3, <1>5, <1>6, RangeTypes DEF Fills
  <2>3. Ranges(pc'[t], loc'[t])
    BY <1>1, <1>5, <2>2, FillRanges
  <2>4. Filled(pc[t], loc[t])'
    BY <1>3, <1>5, <1>6, <2>1, <2>2 DEF Filled, Filling, Replacing
  <2>5. Replaces(pc[t], loc[t])'
    BY <1>3, <1>5, <1>6, <2>2, ReplacesAt DEF Filling
  <2> QED
    BY <2>3, <2>4, <2>5, FitsAt
<1>7. CASE ~(heap'[a].size < 0)
  <2>1. heap'[a].size >= 0
    BY <1>4, <1>7 DEF Array
  <2>2. pc'[t] = "pop" /\ loc'[t].old = a
    BY <1>3, <1>7
  <2>3. Ranges(pc'[t], loc'[t])
    BY <1>5, <2>2 DEF Ranges, Growing, Filling, Replacing
  <2>4. Filled(pc[t], loc[t])'
    BY <2>2 DEF Filled, Filling, Replacing
  <2>5. Extends(loc'[t], heap'[a].size)
    BY <1>5, <2>1, ExtendsAt
  <2>6. Replaces(pc[t], loc[t])'
    BY <2>2, <2>5, ReplacesAt DEF Filling
  <2> QED
    BY <2>3, <2>4, <2>6, FitsAt
<1> QED
  BY <1>6, <1>7

(* What a writer fills is not the posting that it replaces. *)
LEMMA ArrIsNotOld ==
    ASSUME Inv, NEW t \in Writers, pc[t] \in Filling \cup Replacing, loc[t].old # None
    PROVE  loc[t].arr # loc[t].old /\ loc[t].arr \in Arrays /\ loc[t].old \in Arrays
<1> DEFINE k == loc[t].key
<1>1. /\ loc[t].arr \in Arrays /\ loc[t].arr = Hand(t) /\ loc[t].old \in Arrays
      /\ loc[t].old = MapOf(k) /\ k \in Keys
  BY CallArrays, CallerKnows DEF Inv, Filling, Replacing
<1> HIDE DEF k
<1>2. Mapping[k] = MapOf(k) /\ Hands[t] = Hand(t)
  BY <1>1 DEF Mapping, Hands
<1>3. Mapping[k] = Hands[t] => Hands[t] = None
  BY <1>1 DEF Inv, Once, OnceIn
<1> QED
  BY <1>1, <1>2, <1>3, KeysType

(* A spare array takes what is before the cells to fill, and the posting    *)
(* that it will replace stays as it is.                                     *)
LEMMA PopHeap ==
    ASSUME Inv, NEW t \in Writers, Pop(t)
    PROVE  LET a == Head(buffer) IN
           /\ a \in Arrays /\ loc[t].old \in Arrays /\ loc[t].old = at[loc[t].key] /\ a # loc[t].old
           /\ heap'[loc[t].old] = heap[loc[t].old]
           /\ \A i \in Cells : i < loc[t].next => heap'[a].addr[i] = heap[loc[t].old].addr[i]
<1> DEFINE a == Head(buffer)
           o == loc[t].old
<1>1. pc[t] = "pop" /\ Knows(pc[t], loc[t]) /\ loc[t] \in Local /\ None \notin Arrays
  BY CallerKnows, KeysType DEF Inv, Pop
<1>2. o \in Arrays /\ at[loc[t].key] = o
  BY <1>1 DEF Knows
<1>4. a \in Arrays
  BY PopFrame DEF Inv
<1>5. a # o
  <2>1. o = MapOf(loc[t].key) /\ loc[t].key \in Keys
    BY <1>1, <1>2, CallArrays, CallerKnows DEF Inv
  <2>2. buffer \in Seq(Arrays) /\ buffer # <<>>
    BY DEF Inv, Types, SharedType, Pop
  <2>3. 1 \in DOMAIN buffer /\ a = buffer[1]
    BY <2>2, TailCells
  <2>4. Mapping[loc[t].key] = o
    BY <2>1 DEF Mapping
  <2> QED
    BY <2>1, <2>3, <2>4 DEF Inv, Once, OnceIn
<1>6. /\ heap'[o] = heap[o]
      /\ \A i \in Cells : i < loc[t].next => heap'[a].addr[i] = heap[o].addr[i]
  <2> DEFINE v == [size |-> IF loc[t].op = "merge" THEN heap[o].size ELSE heap[a].size,
                   addr |-> [i \in Cells |-> IF i < loc[t].next THEN heap[o].addr[i]
                                                                ELSE heap[a].addr[i]]]
  <2>1. heap' = [heap EXCEPT ![a] = v]
    BY DEF Pop
  <2>2. v.addr = [i \in Cells |-> IF i < loc[t].next THEN heap[o].addr[i] ELSE heap[a].addr[i]]
    OBVIOUS
  <2> HIDE DEF v, a, o
  <2>3. heap'[o] = heap[o] /\ heap'[a] = v
    BY <1>2, <1>4, <1>5, <2>1 DEF Inv, Types, SharedType
  <2> QED
    BY <2>2, <2>3
<1> QED
  BY <1>2, <1>4, <1>5, <1>6

LEMMA PopFits ==
    ASSUME Inv, NEW t \in Writers, Pop(t)
    PROVE  Fits(pc[t], loc[t])'
<1> DEFINE a == Head(buffer)
           o == loc[t].old
           l == loc'[t]
<1>1. /\ pc[t] = "pop" /\ Knows(pc[t], loc[t]) /\ loc[t] \in Local /\ None \notin Arrays
      /\ Ranges(pc[t], loc[t]) /\ Replaces(pc[t], loc[t])
  BY CallerKnows, KeysType DEF Inv, Pop, Fitting, Fits
<1>2. /\ o \in Arrays /\ loc[t].op \in {"put", "merge"} /\ at[loc[t].key] = o
      /\ Extends(loc[t], heap[o].size)
  BY <1>1 DEF Knows, Replaces
<1>3. Whole(o)
  BY <1>1, <1>2, CallWhole
<1>4. CallKept(t) /\ l.next = loc[t].next /\ l.old = o /\ a \in Arrays /\ l.arr = a /\ Fills(t)
      /\ l \in Local
  BY PopFrame DEF Inv
<1>5. a # o /\ heap'[o] = heap[o]
  BY PopHeap
<1>6. \A i \in Cells : i < loc[t].next => heap'[a].addr[i] = heap[o].addr[i]
  BY PopHeap
<1> HIDE DEF a, o
<1>7. /\ First(l) = First(loc[t]) /\ l.next = First(l) /\ l.last = Pages(l.size)
      /\ l.last < BlockLimit /\ First(l) >= 1 /\ l.op \in {"put", "merge"}
      /\ l.op = "put" => First(l) = 1 /\ l.size = Len(l.value)
  BY <1>1, <1>2, <1>4, SameRange DEF Ranges, CallKept
<1>8. First(l) <= l.next /\ l.next <= l.last + 1
  BY <1>4, <1>7, RangeTypes
<1>9. Ranges(pc'[t], l)
  BY <1>4, <1>7, <1>8, FillRanges DEF Fills
<1>10. Filled(pc[t], loc[t])'
  <2>1. pc'[t] \in Filling
    BY <1>4 DEF Fills, Filling
  <2>2. ASSUME NEW i \in 1 .. l.next - 1 PROVE heap'[a].addr[i] \in Blocks
    <3>1. i \in Nat \ {0} /\ i < l.next /\ l.next \in Nat /\ l.next <= l.last + 1 /\ l.last \in Nat
      BY <1>4, <1>8, RangeTypes
    <3>2. i \in Cells
      BY <1>7, <3>1, PageSizeType DEF Cells
    <3>3. l.op = "merge"
      BY <1>7, <3>1
    <3>4. l.next = (heap[o].size \div PageSize) + 1 /\ heap[o].size \in Nat
      <4>1. loc[t].op = "merge" /\ First(loc[t]) = l.next
        BY <1>4, <1>7, <3>3 DEF CallKept
      <4>2. heap[o].size \in Nat
        BY <1>2 DEF Inv, Types, SharedType, Array, Extends
      <4> QED
        BY <1>2, <4>1, <4>2 DEF Extends
    <3>5. i \in 1 .. Pages(heap[o].size)
      <4> DEFINE n == heap[o].size
                 q == n \div PageSize
      <4>1. n \in Nat /\ l.next = q + 1
        BY <3>4
      <4>2. q \in Nat /\ (Pages(n) = q \/ Pages(n) = q + 1)
        <5> HIDE DEF n
        <5> QED
          BY <4>1, PagesRest
      <4> HIDE DEF n, q
      <4>3. i \in 1 .. Pages(n)
        BY <3>1, <4>1, <4>2
      <4> QED
        BY <4>3 DEF n
    <3>6. heap[o].addr[i] \in Blocks
      BY <1>3, <3>5 DEF Whole
    <3>7. i < loc[t].next
      BY <1>4, <3>1
    <3> QED
      BY <1>6, <3>2, <3>6, <3>7
  <2> QED
    BY <1>2, <1>1, <1>4, <2>1, <2>2 DEF Filled, Filling, Replacing
<1>11. Replaces(pc[t], loc[t])'
  <2>1. Extends(l, heap'[o].size)
    BY <1>2, <1>4, <1>5, <1>7 DEF Extends, CallKept, o
  <2> QED
    BY <1>1, <1>2, <1>4, <2>1, ReplacesAt
<1> QED
  BY <1>9, <1>10, <1>11, FitsAt

(* One more block in the next cell. *)
LEMMA GetBlockHeap ==
    ASSUME Inv, NEW t \in Writers, GetBlock(t)
    PROVE  LET a == loc[t].arr IN
           /\ a \in Arrays /\ loc[t].next \in Cells /\ Head(free) \in Blocks
           /\ \A b \in Arrays : b # a => heap'[b] = heap[b]
           /\ heap'[a].size = heap[a].size
           /\ heap'[a].addr = [heap[a].addr EXCEPT ![loc[t].next] = Head(free)]
           /\ heap'[a].addr[loc[t].next] = Head(free)
           /\ \A i \in Cells : i # loc[t].next => heap'[a].addr[i] = heap[a].addr[i]
           /\ heap'[a] \in Array
<1> DEFINE a == loc[t].arr
           n == loc[t].next
           f == Head(free)
<1>1. /\ pc[t] = "get" /\ Knows(pc[t], loc[t]) /\ loc[t] \in Local /\ Ranges(pc[t], loc[t])
      /\ heap \in [Arrays -> Array] /\ free \in Seq(Blocks) /\ free # <<>>
  BY CallerKnows DEF Inv, GetBlock, Fitting, Fits, Types, SharedType
<1>2. a \in Arrays /\ f \in Blocks
  BY <1>1, TailCells DEF Knows, Filling
<1>3. n \in Cells
  BY <1>1, RangeTypes, PageSizeType DEF Ranges, Cells, Filling
<1>4. heap' = [heap EXCEPT ![a].addr[n] = f]
  BY DEF GetBlock
<1> HIDE DEF a, n, f
<1>5. heap[a] \in Array
  BY <1>1, <1>2
<1>6. heap'[a] = [heap[a] EXCEPT !.addr[n] = f] /\ \A b \in Arrays : b # a => heap'[b] = heap[b]
  BY <1>1, <1>2, <1>4
<1>7. heap'[a].size = heap[a].size /\ heap'[a].addr = [heap[a].addr EXCEPT ![n] = f]
  BY <1>5, <1>6 DEF Array
<1>8. heap[a].addr \in [Cells -> Blocks \cup {None}]
  BY <1>5 DEF Array
<1>9. /\ heap'[a].addr[n] = f
      /\ \A i \in Cells : i # n => heap'[a].addr[i] = heap[a].addr[i]
      /\ heap'[a].addr \in [Cells -> Blocks \cup {None}]
  BY <1>2, <1>3, <1>7, <1>8
<1>10. heap'[a] \in Array
  <2> DEFINE x == heap[a]
             y == [x EXCEPT !.addr[n] = f]
             z == [x.addr EXCEPT ![n] = f]
  <2>1. y = [x EXCEPT !.addr = z]
    OBVIOUS
  <2>2. z \in [Cells -> Blocks \cup {None}] /\ x \in Array
    BY <1>2, <1>3, <1>5, <1>8
  <2> HIDE DEF x, y, z
  <2>3. y \in Array
    BY <2>1, <2>2 DEF Array
  <2> QED
    BY <1>6, <2>3 DEF y, x
<1> QED
  BY <1>2, <1>3, <1>6, <1>7, <1>9, <1>10 DEF a, n, f

LEMMA GetBlockFits ==
    ASSUME Inv, NEW t \in Writers, GetBlock(t)
    PROVE  Fits(pc[t], loc[t])'
<1> DEFINE a == loc[t].arr
           n == loc[t].next
           l == loc'[t]
<1>1. /\ pc[t] = "get" /\ Knows(pc[t], loc[t]) /\ loc[t] \in Local
      /\ Ranges(pc[t], loc[t]) /\ Filled(pc[t], loc[t]) /\ Replaces(pc[t], loc[t])
  BY CallerKnows DEF Inv, GetBlock, Fitting, Fits
<1>2. CallKept(t) /\ l.next = n + 1 /\ l.arr = a /\ l.old = loc[t].old /\ Fills(t) /\ l \in Local
  BY GetBlockFrame DEF Inv
<1>3. /\ a \in Arrays /\ n \in Cells /\ heap'[a].size = heap[a].size
      /\ heap'[a].addr[n] \in Blocks
      /\ \A i \in Cells : i # n => heap'[a].addr[i] = heap[a].addr[i]
      /\ \A b \in Arrays : heap'[b].size = heap[b].size
  BY GetBlockHeap
<1>4. pc'[t] \in Filling
  BY <1>2 DEF Fills, Filling
<1>5. /\ l.last = Pages(l.size) /\ l.last < BlockLimit /\ First(l) >= 1 /\ First(l) = First(loc[t])
      /\ l.op = "put" => First(l) = 1 /\ l.size = Len(l.value)
      /\ First(l) <= n /\ n <= l.last
  BY <1>1, <1>2, SameRange DEF Ranges, CallKept, Filling
<1>6. First(l) <= l.next /\ l.next <= l.last + 1
  BY <1>1, <1>2, <1>5, RangeTypes
<1>7. Ranges(pc'[t], l)
  BY <1>2, <1>5, <1>6, FillRanges DEF Fills
<1>8. Filled(pc[t], loc[t])'
  <2>1. ASSUME NEW i \in 1 .. l.next - 1 PROVE heap'[a].addr[i] \in Blocks
    <3>1. i \in 1 .. n /\ i \in Cells
      <4>1. n \in Nat /\ n <= BlockLimit - 1 /\ l.next - 1 = n
        BY <1>1, <1>2, <1>3, RangeTypes DEF Cells
      <4> HIDE DEF n, l
      <4> QED
        BY <4>1, PageSizeType DEF Cells
    <3>2. i # n => heap[a].addr[i] \in Blocks
      <4>1. i # n => i \in 1 .. n - 1
        BY <3>1, <1>1, RangeTypes
      <4> QED
        BY <1>1, <4>1 DEF Filled, Filling
    <3> QED
      BY <1>3, <3>1, <3>2
  <2>2. l.op = "put" /\ l.old = None => heap'[a].size = -1
    BY <1>1, <1>2, <1>3 DEF Filled, Filling, CallKept
  <2> QED
    BY <1>2, <1>4, <2>1, <2>2 DEF Filled, Filling, Replacing
<1>9. Replaces(pc[t], loc[t])'
  <2>1. loc[t].old # None => loc[t].old \in Arrays
    BY <1>1 DEF Local
  <2>2. l.old # None => Extends(loc[t], heap'[l.old].size)
    BY <1>1, <1>2, <1>3, <2>1 DEF Replaces, Filling
  <2>3. l.op = "merge" /\ l.old = None => Extends(loc[t], heap'[l.arr].size)
    BY <1>1, <1>2, <1>3 DEF Replaces, Filling, CallKept
  <2>4. \A m : Extends(loc[t], m) => Extends(l, m)
    BY <1>2, <1>5 DEF Extends, CallKept
  <2> QED
    BY <2>2, <2>3, <2>4, ReplacesAt
<1> QED
  BY <1>7, <1>8, <1>9, FitsAt

(* The new size, all blocks of which are there. *)
LEMMA WriteHeap ==
    ASSUME Inv, NEW t \in Writers, Write(t)
    PROVE  LET a == loc[t].arr IN
           /\ a \in Arrays
           /\ \A b \in Arrays : b # a => heap'[b] = heap[b]
           /\ heap'[a].size = loc[t].size /\ heap'[a].addr = heap[a].addr
           /\ heap'[a] \in Array
           /\ \A b \in Arrays : b = a => Whole(b)'
<1> DEFINE a == loc[t].arr
           s == loc[t].size
<1>1. /\ pc[t] = "write" /\ Knows(pc[t], loc[t]) /\ loc[t] \in Local
      /\ Ranges(pc[t], loc[t]) /\ Filled(pc[t], loc[t]) /\ heap \in [Arrays -> Array]
  BY CallerKnows DEF Inv, Write, Fitting, Fits, Types, SharedType
<1>2. a \in Arrays /\ s \in Nat
  BY <1>1 DEF Knows, Filling, Local
<1>3. heap' = [heap EXCEPT ![a].size = s]
  BY DEF Write
<1>4. Pages(s) = loc[t].last /\ Pages(s) < BlockLimit /\ loc[t].next = loc[t].last + 1
      /\ loc[t].last \in Nat
  BY <1>1, RangeTypes DEF Ranges, Filling
<1>5. \A i \in 1 .. Pages(s) : heap[a].addr[i] \in Blocks
  <2>1. loc[t].next - 1 = Pages(s)
    BY <1>4
  <2> QED
    BY <1>1, <2>1 DEF Filled, Filling
<1> HIDE DEF a, s
<1>6. heap[a] \in Array
  BY <1>1, <1>2
<1>7. heap'[a] = [heap[a] EXCEPT !.size = s] /\ \A b \in Arrays : b # a => heap'[b] = heap[b]
  BY <1>1, <1>2, <1>3
<1>8. heap'[a].size = s /\ heap'[a].addr = heap[a].addr /\ heap'[a] \in Array
  <2> DEFINE x == heap[a]
  <2>1. x \in Array
    BY <1>6
  <2> HIDE DEF x
  <2>2. [x EXCEPT !.size = s].size = s /\ [x EXCEPT !.size = s].addr = x.addr
        /\ [x EXCEPT !.size = s] \in Array
    BY <1>2, <2>1 DEF Array
  <2> QED
    BY <1>7, <2>2 DEF x
<1>9. ASSUME NEW b \in Arrays, b = a PROVE Whole(b)'
  <2>1. Whole(b)' <=> /\ Pages(heap'[b].size) < BlockLimit
                      /\ \A i \in 1 .. Pages(heap'[b].size) : heap'[b].addr[i] \in Blocks
    BY DEF Whole, Pages
  <2> QED
    BY <1>4, <1>5, <1>8, <1>9, <2>1
<1> QED
  BY <1>2, <1>7, <1>8, <1>9 DEF a, s

(* The last steps of a call. *)
LEMMA WriteFits ==
    ASSUME Inv, NEW t \in Writers, Write(t)
    PROVE  Fits(pc[t], loc[t])'
<1>1. /\ pc[t] = "write" /\ Ranges(pc[t], loc[t]) /\ Replaces(pc[t], loc[t])
      /\ loc[t] \in Local
  BY CallerKnows DEF Inv, Write, Fitting, Fits
<1>2. CASE loc[t].old = None
  <2>1. pc'[t] = "idle"
    BY <1>2, WriteFrame DEF Inv
  <2> QED
    BY <2>1, FitsAt, ReplacesAt DEF Ranges, Filled, Growing, Filling, Replacing
<1>3. CASE loc[t].old # None
  <2>1. pc'[t] = "release" /\ loc'[t] = loc[t]
    BY <1>3, WriteFrame DEF Inv
  <2>2. loc[t].arr # loc[t].old /\ loc[t].old \in Arrays
    BY <1>1, <1>3, ArrIsNotOld DEF Filling
  <2>3. heap'[loc[t].arr].size = loc[t].size /\ heap'[loc[t].old] = heap[loc[t].old]
    BY <2>2, WriteHeap
  <2>4. Ranges(pc'[t], loc'[t])
    BY <1>1, <2>1 DEF Ranges, Growing, Filling, Replacing
  <2>5. Filled(pc[t], loc[t])'
    BY <2>1, <2>3 DEF Filled, Filling, Replacing
  <2>6. Extends(loc[t], heap[loc[t].old].size)
    BY <1>1, <1>3 DEF Replaces, Filling
  <2>7. Replaces(pc[t], loc[t])'
    BY <1>3, <2>1, <2>3, <2>6, ReplacesAt DEF Filling
  <2> QED
    BY <2>4, <2>5, <2>7, FitsAt
<1> QED
  BY <1>2, <1>3

LEMMA OtherFits ==
    ASSUME Inv, NEW t \in Writers,
           Grow(t) \/ Release(t) \/ Swap(t) \/ Recycle(t) \/ DeleteSpare(t) \/ DeleteUnmap(t)
    PROVE  Fits(pc[t], loc[t])'
<1> USE DEF Growing, Filling, Replacing
<1>1. Ranges(pc[t], loc[t]) /\ Filled(pc[t], loc[t]) /\ heap' = heap
  BY DEF Inv, Fitting, Fits, Grow, Release, Swap, Recycle, DeleteSpare, DeleteUnmap
<1>2. CASE Grow(t)
  <2>1. pc[t] = "grow" /\ pc'[t] = "slot" /\ loc'[t] = loc[t]
    BY <1>2, GrowFrame DEF Grow, Inv
  <2> QED
    BY <1>1, <2>1, FitsAt, ReplacesAt DEF Ranges, Filled
<1>3. CASE Release(t)
  <2>1. pc[t] = "release" /\ pc'[t] = "swap" /\ loc'[t] = loc[t]
    BY <1>3, ReleaseFrame DEF Release, Inv
  <2> QED
    BY <1>1, <2>1, FitsAt, ReplacesAt DEF Ranges, Filled
<1>4. CASE Swap(t) \/ Recycle(t) \/ DeleteSpare(t) \/ DeleteUnmap(t)
  <2>1. pc'[t] \in {"recycle", "unmap", "idle"}
    <3>1. Swap(t) => loc[t].key \in Keys
      BY CallerKnows DEF Swap, Inv
    <3> QED
      BY <1>4, <3>1, SwapFrame, EndFrame, DeleteSpareFrame DEF Inv
  <2> QED
    BY <2>1, FitsAt, ReplacesAt DEF Ranges, Filled
<1> QED
  BY <1>2, <1>3, <1>4

(* Fitting and Wholes in a step of a writer. *)
LEMMA StepFitting ==
    ASSUME Inv, NEW t \in Writers, Step(t)
    PROVE  Fitting'
<1>1. Fits(pc[t], loc[t])'
  BY SlotFits, PopFits, GetBlockFits, WriteFits, OtherFits DEF Step
<1>2. \A u \in Writers \ {t} : Fits(pc[u], loc[u])'
  BY FitsOthers
<1> QED
  BY <1>1, <1>2 DEF Fitting

LEMMA WholeKept ==
    ASSUME NEW a, Whole(a), heap'[a] = heap[a]
    PROVE  Whole(a)'
BY DEF Whole, Pages

(* An array without a posting counts no cells. *)
LEMMA NoArrayWhole == Pages(NoArray.size) < BlockLimit /\ Pages(NoArray.size) <= 0
<1>1. NoArray.size = -1
  BY DEF NoArray
<1>2. Pages(-1) \in Int /\ Pages(-1) * PageSize <= -1 + PageSize - 1
  BY PagesBound
<1>3. Pages(-1) <= 0
  <2> SUFFICES ASSUME Pages(-1) >= 1 PROVE FALSE
    BY <1>2
  <2>1. PICK p \in Int : p = Pages(-1)
    BY <1>2
  <2>2. p >= 1 /\ p * PageSize <= PageSize - 2
    BY <1>2, <2>1, PageSizeType
  <2>3. p * PageSize >= PageSize
    BY <2>2, PageSizeType
  <2> QED
    BY <2>2, <2>3, PageSizeType
<1> QED
  BY <1>1, <1>2, <1>3, PageSizeType

LEMMA StepWholes ==
    ASSUME Inv, NEW t \in Writers, Step(t)
    PROVE  Wholes'
<1>1. /\ Continues(t) /\ Others(t) /\ (Slot(t) => SlotArray(t) \in Arrays)
      /\ Known' /\ Alone'
  BY StepOnce, ContinuesKnown DEF Inv, Continues
<1>2. \A u \in Writers \ {t} : pc'[u] = pc[u] /\ loc'[u] = loc[u] /\ Hand(u)' = Hand(u)
  <2>1. \A u \in Writers \ {t} : pc'[u] = pc[u] /\ loc'[u] = loc[u]
    BY <1>1, WriterThread DEF Others
  <2> QED
    BY <2>1 DEF Hand
<1>3. SUFFICES ASSUME NEW a \in Arrays, \A u \in Writers : pc'[u] \in Filling => Hand(u)' # a
               PROVE  Whole(a)'
  BY DEF Wholes
<1>4. CASE a \notin Touched(t)
  <2>1. heap'[a] = heap[a]
    BY <1>4, HeapStep DEF Inv
  <2>2. ASSUME pc[t] \in Filling, Hand(t) = a PROVE FALSE
    <3>1. Touched(t) = {loc[t].arr}
      BY <2>2 DEF Touched, Filling
    <3>2. Hand(t) \in {loc[t].arr, None}
      BY <2>2 DEF Hand, Filling
    <3> QED
      BY <1>4, <2>2, <3>1, <3>2, KeysType
  <2>3. Whole(a)
    BY <1>2, <1>3, <2>2 DEF Inv, Wholes
  <2> QED
    BY <2>1, <2>3, WholeKept
<1>5. CASE a \in Touched(t)
  <2>1. CASE Slot(t)
    <3>1. a = SlotArray(t) /\ at[loc[t].key] = None
      BY <1>5, <2>1 DEF Touched, Slot, Filling
    <3>2. heap' = [heap EXCEPT ![a] = NoArray]
      BY <2>1, <3>1 DEF Slot, SlotArray
    <3>3. heap'[a] = NoArray
      BY <3>2 DEF Inv, Types, SharedType
    <3>4. Whole(a)' <=> /\ Pages(heap'[a].size) < BlockLimit
                        /\ \A i \in 1 .. Pages(heap'[a].size) : heap'[a].addr[i] \in Blocks
      BY DEF Whole, Pages
    <3>5. Pages(NoArray.size) \in Int
      <4>1. NoArray.size \in Int
        BY DEF NoArray
      <4> QED
        BY <4>1, PagesBound
    <3>6. 1 .. Pages(NoArray.size) = {}
      BY <3>5, NoArrayWhole
    <3> QED
      BY <3>3, <3>4, <3>6, NoArrayWhole
  <2>2. CASE Pop(t)
    <3>1. a = Head(buffer)
      BY <1>5, <2>2 DEF Touched, Pop
    <3>2. pc'[t] \in Filling /\ loc'[t].arr = a /\ loc'[t].old = loc[t].old
      BY <2>2, <3>1, PopFrame DEF Inv, Fills, Filling
    <3>3. loc[t].old # None
      BY <2>2, CallerKnows, KeysType DEF Inv, Pop, Knows
    <3>4. Hand(t)' = a
      BY <3>2, <3>3 DEF Hand
    <3> QED
      BY <1>3, <3>2, <3>4
  <2>3. CASE GetBlock(t)
    <3>1. a = loc[t].arr /\ pc[t] = "get"
      BY <1>5, <2>3 DEF Touched, GetBlock, Filling
    <3>2. pc'[t] \in Filling /\ loc'[t].arr = a /\ loc'[t].old = loc[t].old
      BY <2>3, <3>1, GetBlockFrame DEF Inv, Fills, Filling
    <3>3. Hand(t) # a
      BY <1>3, <3>1, <3>2 DEF Hand, Filling
    <3>4. Whole(a)
      BY <1>2, <1>3, <3>3 DEF Inv, Wholes
    <3>5. /\ heap'[a].size = heap[a].size
          /\ \A i \in Cells : heap'[a].addr[i] = heap[a].addr[i] \/ heap'[a].addr[i] \in Blocks
      BY <2>3, <3>1, GetBlockHeap
    <3>6. Whole(a)' <=> /\ Pages(heap'[a].size) < BlockLimit
                        /\ \A i \in 1 .. Pages(heap'[a].size) : heap'[a].addr[i] \in Blocks
      BY DEF Whole, Pages
    <3>7. 1 .. Pages(heap[a].size) \subseteq Cells
      <4>1. heap[a].size \in Int
        BY DEF Inv, Types, SharedType, Array
      <4>2. Pages(heap[a].size) \in Int /\ Pages(heap[a].size) < BlockLimit
        BY <3>4, <4>1, PagesBound DEF Whole
      <4> QED
        BY <4>2, PageSizeType DEF Cells
    <3> QED
      BY <3>4, <3>5, <3>6, <3>7 DEF Whole
  <2>4. CASE Write(t)
    <3>1. a = loc[t].arr
      BY <1>5, <2>4 DEF Touched, Write, Filling
    <3> QED
      BY <2>4, <3>1, WriteHeap
  <2>5. CASE Grow(t) \/ Release(t) \/ Swap(t) \/ Recycle(t) \/ DeleteSpare(t) \/ DeleteUnmap(t)
    BY <1>5, <2>5 DEF Touched, Grow, Release, Swap, Recycle, DeleteSpare, DeleteUnmap, Filling
  <2> QED
    BY <2>1, <2>2, <2>3, <2>4, <2>5 DEF Step
<1> QED
  BY <1>4, <1>5

----------------------------------------------------------------------------
(* Types *)

(* A thread that goes on has locals of their types. *)
LEMMA GotoType ==
    ASSUME ThreadsType, NEW t \in Threads, NEW label, NEW l, Goto(t, label, l),
           loc'[t] \in Local, pc'[t] \in {"idle"} \cup Calling \cup Reading,
           t \in Writers => pc'[t] \notin Reading, t \in Readers => pc'[t] \notin Calling
    PROVE  ThreadsType'
<1>1. Others(t)
  BY GotoThread
<1>2. pc' \in [Threads -> {"idle"} \cup Calling \cup Reading] /\ loc' \in [Threads -> Local]
  <2>1. pc' = [pc EXCEPT ![t] = label] /\ loc' = [loc EXCEPT ![t] = l]
    BY DEF Goto
  <2>2. label \in {"idle"} \cup Calling \cup Reading /\ l \in Local
    BY GotoThread
  <2> QED
    BY <2>1, <2>2 DEF ThreadsType
<1>3. \A u \in Writers : pc'[u] \notin Reading
  BY <1>1, WriterThread DEF Others, ThreadsType
<1>4. \A u \in Readers : pc'[u] \notin Calling
  BY <1>1 DEF Others, ThreadsType, Threads
<1> QED
  BY <1>2, <1>3, <1>4 DEF ThreadsType

LEMMA StepGoto ==
    ASSUME NEW t, Step(t)
    PROVE  \E label, l : Goto(t, label, l)
<1>1. ASSUME NEW l, Fill(t, l) PROVE \E label, k : Goto(t, label, k)
  BY <1>1 DEF Fill
<1>2. Done(t) => \E label, l : Goto(t, label, l)
  BY DEF Done
<1>3. CASE Slot(t)
  <2>1. (\E l : Fill(t, l)) \/ (\E l : Goto(t, "pop", l))
    BY <1>3 DEF Slot
  <2> QED
    BY <1>1, <2>1
<1>4. CASE Pop(t) \/ GetBlock(t)
  <2>1. \E l : Fill(t, l)
    BY <1>4 DEF Pop, GetBlock
  <2> QED
    BY <1>1, <2>1
<1>5. CASE Write(t)
  BY <1>2, <1>5 DEF Write
<1>6. CASE Recycle(t) \/ DeleteUnmap(t)
  BY <1>2, <1>6 DEF Recycle, DeleteUnmap
<1>7. CASE Grow(t) \/ Release(t) \/ Swap(t) \/ DeleteSpare(t)
  BY <1>7 DEF Grow, Release, Swap, DeleteSpare
<1> QED
  BY <1>3, <1>4, <1>5, <1>6, <1>7 DEF Step

LEMMA StepThreads ==
    ASSUME Inv, NEW t \in Writers, Step(t)
    PROVE  ThreadsType'
<1>1. Continues(t) /\ t \in Threads /\ t \notin Readers
  BY StepOnce, WriterThread, Apart DEF Inv
<1>2. PICK label, l : Goto(t, label, l)
  BY StepGoto
<1>3. pc'[t] \notin Reading
  BY <1>1 DEF Continues, Reading, Calling, Growing, Filling, Replacing, Deleting
<1> QED
  BY <1>1, <1>2, <1>3, GotoType DEF Continues, Inv, Types

(* The blocks of a posting from a cell on. *)
LEMMA UsedFromType ==
    ASSUME Inv, NEW a \in Arrays, Whole(a), NEW i \in Nat \ {0}
    PROVE  /\ UsedFrom(heap[a], i) \in Seq(Blocks)
           /\ Len(UsedFrom(heap[a], i)) =
                IF i <= Pages(heap[a].size) THEN Pages(heap[a].size) - i + 1 ELSE 0
           /\ \A j \in 1 .. Len(UsedFrom(heap[a], i)) :
                UsedFrom(heap[a], i)[j] = heap[a].addr[i + j - 1]
<1> DEFINE s == heap[a].addr
           n == Pages(heap[a].size)
<1>1. n \in Int
  <2>1. heap[a].size \in Int
    BY DEF Inv, Types, SharedType, Array
  <2> QED
    BY <2>1, PagesBound
<1>2. \A j \in i .. n : s[j] \in Blocks
  <2>1. \A j \in i .. n : j \in 1 .. n
    BY <1>1
  <2> QED
    BY <2>1 DEF Whole
<1>3. UsedFrom(heap[a], i) = SubSeq(s, i, n)
  BY DEF UsedFrom
<1> HIDE DEF s, n
<1>4. /\ SubSeq(s, i, n) \in Seq(Blocks)
      /\ Len(SubSeq(s, i, n)) = IF i <= n THEN n - i + 1 ELSE 0
      /\ \A j \in 1 .. n - i + 1 : SubSeq(s, i, n)[j] = s[i + j - 1]
  BY <1>1, <1>2, SubSeqProperties
<1>5. \A j \in 1 .. Len(SubSeq(s, i, n)) : SubSeq(s, i, n)[j] = s[i + j - 1]
  <2>1. \A j \in 1 .. Len(SubSeq(s, i, n)) : j \in 1 .. n - i + 1
    BY <1>1, <1>4
  <2> QED
    BY <1>4, <2>1
<1> QED
  BY <1>3, <1>4, <1>5 DEF s, n

(* The blocks that Release gives back. *)
ReleasedFrom(t) ==
    IF loc[t].op = "merge" THEN (heap[loc[t].old].size \div PageSize) + 1 ELSE 1

LEMMA ReleaseFree ==
    ASSUME Inv, NEW t \in Writers, Release(t)
    PROVE  /\ free' = free \o UsedFrom(heap[loc[t].old], ReleasedFrom(t))
           /\ loc[t].old \in Arrays /\ Whole(loc[t].old) /\ ReleasedFrom(t) \in Nat \ {0}
           /\ loc[t].old = at[loc[t].key]
<1>1. free' = free \o UsedFrom(heap[loc[t].old], ReleasedFrom(t)) /\ pc[t] = "release"
  BY DEF Release, ReleasedFrom
<1>2. loc[t].old \in Arrays /\ loc[t].old = at[loc[t].key] /\ loc[t].op \in {"put", "merge"}
      /\ loc[t] \in Local /\ Replaces(pc[t], loc[t])
  BY <1>1, CallerKnows DEF Inv, Knows, Replacing, Fitting, Fits
<1>3. Whole(loc[t].old)
  BY <1>1, <1>2, CallWhole DEF Replacing
<1>4. ReleasedFrom(t) \in Nat \ {0}
  <2> DEFINE n == heap[loc[t].old].size
  <2>1. n >= 0
    BY <1>1, <1>2, KeysType DEF Replaces, Extends
  <2>2. n \in Nat
    BY <1>2, <2>1 DEF Inv, Types, SharedType, Array
  <2>3. n \div PageSize \in Nat
    <3> HIDE DEF n
    <3> QED
      BY <2>2, PagesRest
  <2> QED
    BY <2>3 DEF ReleasedFrom
<1> QED
  BY <1>1, <1>2, <1>3, <1>4

(* What is written to a block has the size of a block. *)
LEMMA PageType ==
    ASSUME NEW v \in Posts, NEW i \in Nat \ {0}
    PROVE  Page(v, i) \in [1..PageSize -> Items \cup {Blank}]
<1> SUFFICES ASSUME NEW j \in 1 .. PageSize, (i - 1) * PageSize + j <= Len(v)
             PROVE  v[(i - 1) * PageSize + j] \in Items \cup {Blank}
  BY DEF Page
<1> DEFINE z == (i - 1) * PageSize
<1>1. z \in Nat
  BY PageSizeType
<1> HIDE DEF z
<1>2. z + j \in 1 .. Len(v)
  BY <1>1, PageSizeType DEF z, Posts
<1> QED
  BY <1>2 DEF z, Posts

(* So the device keeps its type. *)
LEMMA WriteDisk ==
    ASSUME Inv, NEW t \in Writers, Write(t)
    PROVE  disk' \in [Blocks -> [1..PageSize -> Items \cup {Blank}]]
<1> DEFINE l == loc[t]
           f == l.last - Pages(Len(l.value))
           cell(b) == {i \in f + 1 .. l.last : heap[l.arr].addr[i] = b}
           P == [1..PageSize -> Items \cup {Blank}]
<1>1. disk' = [b \in Blocks |-> IF cell(b) = {} THEN disk[b]
                                ELSE Page(l.value, (CHOOSE i \in cell(b) : TRUE) - f)]
  BY DEF Write
<1>2. l.value \in Posts /\ f \in Int /\ l.last \in Nat
  BY CallerKnows, RangeTypes DEF Inv, Local
<1>3. \A b \in Blocks : disk[b] \in P
  BY DEF Inv, Types, SharedType
<1>4. ASSUME NEW b \in Blocks, cell(b) # {}
      PROVE  Page(l.value, (CHOOSE i \in cell(b) : TRUE) - f) \in P
  <2>1. PICK i : i = CHOOSE j \in cell(b) : TRUE
    OBVIOUS
  <2>2. i \in cell(b)
    BY <1>4, <2>1
  <2> HIDE DEF f, l
  <2>3. i \in f + 1 .. l.last
    BY <2>2
  <2>4. i - f \in Nat \ {0}
    BY <1>2, <2>3
  <2>5. Page(l.value, i - f) \in P
    BY <1>2, <2>4, PageType
  <2> QED
    BY <2>1, <2>5
<1> HIDE DEF l, f, P, cell
<1>5. ASSUME NEW b \in Blocks
      PROVE  (IF cell(b) = {} THEN disk[b] ELSE Page(l.value, (CHOOSE i \in cell(b) : TRUE) - f)) \in P
  BY <1>3, <1>4
<1> QED
  BY <1>1, <1>5 DEF P

(* The shared state in a step of a writer. *)
LEMMA StepAtBuffer ==
    ASSUME Inv, NEW t \in Writers, Step(t)
    PROVE  at' \in [Keys -> Arrays \cup {None}] /\ buffer' \in Seq(Arrays)
<1>1. /\ at \in [Keys -> Arrays \cup {None}] /\ buffer \in Seq(Arrays)
      /\ Knows(pc[t], loc[t]) /\ loc[t] \in Local
      /\ (Slot(t) => SlotArray(t) \in Arrays)
  BY StepOnce, CallerKnows DEF Inv, Types, SharedType
<1>2. CASE Grow(t) \/ GetBlock(t) \/ Write(t) \/ Release(t)
  BY <1>1, <1>2 DEF Grow, GetBlock, Write, Release
<1>3. CASE Slot(t)
  <2> DEFINE a == SlotArray(t)
  <2>1. a \in Arrays
    BY <1>1, <1>3
  <2>2. CASE at[loc[t].key] = None
    <3>1. at' = [at EXCEPT ![loc[t].key] = a]
      BY <1>3, <2>2 DEF Slot, SlotArray
    <3>2. buffer' = IF Len(buffer) > BufferSize THEN Tail(buffer) ELSE buffer
      BY <1>3, <2>2 DEF Slot
    <3>3. Len(buffer) > BufferSize => buffer # <<>>
      BY SpdkAssumption
    <3>4. buffer' \in Seq(Arrays)
      BY <1>1, <3>2, <3>3, TailCells
    <3> HIDE DEF a
    <3> QED
      BY <1>1, <2>1, <3>1, <3>4
  <2>3. CASE at[loc[t].key] # None
    BY <1>1, <1>3, <2>3 DEF Slot
  <2> QED
    BY <2>2, <2>3
<1>4. CASE Pop(t)
  BY <1>1, <1>4, TailCells DEF Pop
<1>5. CASE Swap(t)
  BY <1>1, <1>5 DEF Swap, Knows, Replacing
<1>6. CASE Recycle(t)
  BY <1>1, <1>6, AppendCells DEF Recycle, Knows
<1>7. CASE DeleteSpare(t)
  BY <1>1, <1>7, AppendCells DEF DeleteSpare, Knows, Deleting
<1>8. CASE DeleteUnmap(t)
  BY <1>1, <1>8 DEF DeleteUnmap
<1> QED
  BY <1>2, <1>3, <1>4, <1>5, <1>6, <1>7, <1>8 DEF Step

LEMMA StepHeap ==
    ASSUME Inv, NEW t \in Writers, Step(t)
    PROVE  heap' \in [Arrays -> Array]
<1>1. heap \in [Arrays -> Array] /\ (Slot(t) => SlotArray(t) \in Arrays)
  BY StepOnce DEF Inv, Types, SharedType
<1>2. DOMAIN heap' = Arrays /\ heap' = [a \in Arrays |-> heap'[a]]
  <2>1. CASE Slot(t)
    BY <1>1, <2>1 DEF Slot
  <2>2. CASE Pop(t) \/ GetBlock(t) \/ Write(t)
    BY <1>1, <2>2 DEF Pop, GetBlock, Write
  <2>3. CASE Grow(t) \/ Release(t) \/ Swap(t) \/ Recycle(t) \/ DeleteSpare(t) \/ DeleteUnmap(t)
    BY <1>1, <2>3 DEF Grow, Release, Swap, Recycle, DeleteSpare, DeleteUnmap
  <2> QED
    BY <2>1, <2>2, <2>3 DEF Step
<1>3. \A a \in Arrays : a \notin Touched(t) => heap'[a] \in Array
  BY <1>1, HeapStep DEF Inv
<1>4. ASSUME NEW a \in Touched(t) PROVE heap'[a] \in Array
  <2>1. CASE Slot(t)
    <3>1. a = SlotArray(t) /\ at[loc[t].key] = None
      BY <2>1 DEF Touched, Slot, Filling
    <3>2. heap' = [heap EXCEPT ![a] = NoArray]
      BY <2>1, <3>1 DEF Slot, SlotArray
    <3>3. heap'[a] = NoArray
      BY <1>1, <2>1, <3>1, <3>2
    <3> QED
      BY <3>3, NoArrayType
  <2>2. CASE Pop(t)
    <3> DEFINE o == heap[loc[t].old]
               n == IF loc[t].op = "merge" THEN o.size ELSE heap[a].size
               f == [i \in Cells |-> IF i < loc[t].next THEN o.addr[i] ELSE heap[a].addr[i]]
               v == [size |-> n, addr |-> f]
    <3>1. a = Head(buffer) /\ a \in Arrays /\ loc[t].old \in Arrays
      BY <2>2, HeapStep, CallerKnows DEF Inv, Touched, Pop, Knows
    <3>2. heap' = [heap EXCEPT ![a] = v]
      BY <2>2, <3>1 DEF Pop
    <3>3. o \in Array /\ heap[a] \in Array
      BY <1>1, <3>1
    <3> HIDE DEF o
    <3>4. n \in Nat \cup {-1} /\ f \in [Cells -> Blocks \cup {None}]
      BY <3>3 DEF Array
    <3> HIDE DEF n, f
    <3>5. v \in Array
      BY <3>4 DEF Array
    <3> HIDE DEF v
    <3> QED
      BY <1>1, <3>1, <3>2, <3>5
  <2>3. CASE GetBlock(t)
    <3>1. a = loc[t].arr
      BY <2>3 DEF Touched, GetBlock, Filling
    <3> QED
      BY <2>3, <3>1, GetBlockHeap
  <2>4. CASE Write(t)
    <3>1. a = loc[t].arr
      BY <2>4 DEF Touched, Write, Filling
    <3> QED
      BY <2>4, <3>1, WriteHeap
  <2>5. CASE Grow(t) \/ Release(t) \/ Swap(t) \/ Recycle(t) \/ DeleteSpare(t) \/ DeleteUnmap(t)
    BY <2>5 DEF Touched, Grow, Release, Swap, Recycle, DeleteSpare, DeleteUnmap, Filling
  <2> QED
    BY <2>1, <2>2, <2>3, <2>4, <2>5 DEF Step
<1>5. \A a \in Arrays : heap'[a] \in Array
  BY <1>3, <1>4
<1> QED
  BY <1>2, <1>5

LEMMA StepShared ==
    ASSUME Inv, NEW t \in Writers, Step(t)
    PROVE  SharedType'
<1>1. at' \in [Keys -> Arrays \cup {None}] /\ buffer' \in Seq(Arrays) /\ heap' \in [Arrays -> Array]
  BY StepAtBuffer, StepHeap
<1>2. rows' \in Nat
  <2>1. CASE Grow(t)
    <3>1. pc[t] = "grow" /\ loc[t].delta \in Int /\ loc[t].delta > 0 /\ rows' = rows + loc[t].delta
          /\ rows \in Nat
      BY <2>1, CallerKnows DEF Inv, Grow, Fitting, Fits, Ranges, Local, Types, SharedType
    <3> QED
      BY <3>1
  <2>2. CASE ~Grow(t)
    <3>1. rows' = rows
      BY <2>2 DEF Step, Slot, Pop, GetBlock, Write, Release, Swap, Recycle, DeleteSpare, DeleteUnmap
    <3> QED
      BY <3>1 DEF Inv, Types, SharedType
  <2> QED
    BY <2>1, <2>2
<1>3. free' \in Seq(Blocks)
  <2>1. free \in Seq(Blocks)
    BY DEF Inv, Types, SharedType
  <2>2. CASE GetBlock(t)
    BY <2>1, <2>2, TailCells DEF GetBlock
  <2>3. CASE Release(t)
    <3>1. /\ free' = free \o UsedFrom(heap[loc[t].old], ReleasedFrom(t))
          /\ UsedFrom(heap[loc[t].old], ReleasedFrom(t)) \in Seq(Blocks)
      BY <2>3, ReleaseFree, UsedFromType
    <3> QED
      BY <2>1, <3>1, ConcatProperties
  <2>4. CASE ~GetBlock(t) /\ ~Release(t)
    <3>1. free' = free
      BY <2>4 DEF Step, Grow, Slot, Pop, Write, Swap, Recycle, DeleteSpare, DeleteUnmap
    <3> QED
      BY <2>1, <3>1
  <2> QED
    BY <2>2, <2>3, <2>4
<1>4. disk' \in [Blocks -> [1..PageSize -> Items \cup {Blank}]]
  <2>1. CASE Write(t)
    BY <2>1, WriteDisk
  <2>2. CASE ~Write(t)
    <3>1. disk' = disk
      BY <2>2 DEF Step, Grow, Slot, Pop, GetBlock, Release, Swap, Recycle, DeleteSpare, DeleteUnmap
    <3> QED
      BY <3>1 DEF Inv, Types, SharedType
  <2> QED
    BY <2>1, <2>2
<1>5. calls' = calls /\ restarts' = restarts
  BY DEF Step, Grow, Slot, Pop, GetBlock, Write, Release, Swap, Recycle, DeleteSpare, DeleteUnmap
<1>6. calls \in [Keys -> Nat] /\ restarts \in Nat
  BY DEF Inv, Types, SharedType
<1> QED
  BY <1>1, <1>2, <1>3, <1>4, <1>5, <1>6 DEF SharedType

(* All of the invariant in a step of a writer. *)
LEMMA StepInv ==
    ASSUME Inv, NEW t \in Writers, Step(t)
    PROVE  Inv'
<1>1. Types /\ Known /\ Alone /\ Once /\ ArraysHeld
  BY DEF Inv
<1>2. Known' /\ Alone' /\ Once' /\ ArraysHeld'
  BY <1>1, StepOnce, StepHeld, ContinuesKnown DEF Kept
<1>3. Types'
  BY StepShared, StepThreads DEF Types
<1> QED
  BY <1>2, <1>3, StepFitting, StepWholes DEF Inv

----------------------------------------------------------------------------
(* A call begins *)

LEMMA BeginsInv ==
    ASSUME Inv, NEW t \in Writers, NEW k \in Keys, Begins(t, k), SharedType',
           heap' = heap, buffer' = buffer, Fits(pc[t], loc[t])',
           NEW label, NEW l, Goto(t, label, l),
           pc'[t] = "get" => loc'[t].old = None, {loc'[t].arr, loc'[t].old} \subseteq {at[k], None}
    PROVE  Inv'
<1>1. Types /\ Known /\ Alone /\ Once /\ ArraysHeld /\ t \in Threads /\ t \notin Readers
  BY WriterThread, Apart DEF Inv
<1>2. Known' /\ Alone' /\ Once' /\ ArraysHeld'
  BY <1>1, BeginsKnown, BeginsHeld DEF Kept
<1>3. ThreadsType'
  BY <1>1, GotoType DEF Begins, Types, Calling, Growing, Filling, Reading, Deleting
<1>4. \A u \in Writers \ {t} : pc'[u] = pc[u] /\ loc'[u] = loc[u]
  BY WriterThread DEF Begins, Others
<1>5. Fitting'
  <2>1. \A u \in Writers \ {t} : Fits(pc[u], loc[u])'
    BY <1>4, FitsKept DEF Inv, Fitting
  <2> QED
    BY <2>1 DEF Fitting
<1>6. Wholes'
  <2>1. SUFFICES ASSUME NEW a \in Arrays, \A u \in Writers : pc'[u] \in Filling => Hand(u)' # a
                 PROVE  Whole(a)'
    BY DEF Wholes
  <2>2. \A u \in Writers \ {t} : Hand(u)' = Hand(u)
    BY <1>4 DEF Hand
  <2>3. pc[t] \notin Filling
    BY DEF Begins, Filling
  <2>4. Whole(a)
    BY <1>4, <2>1, <2>2, <2>3 DEF Inv, Wholes
  <2> QED
    BY <2>4, WholeKept
<1> QED
  BY <1>2, <1>3, <1>5, <1>6 DEF Inv, Types

(* Put, Merge and Delete count the call of their key. *)
LEMMA CallType ==
    ASSUME Inv, NEW t, NEW k \in Keys, Call(t, k)
    PROVE  calls' \in [Keys -> Nat]
BY DEF Inv, Types, SharedType, Call

LEMMA PutInv ==
    ASSUME Inv, NEW t \in Writers, NEW k \in Keys, NEW v \in PutValues[k], Put(t, k, v)
    PROVE  Inv'
<1>1. Begins(t, k) /\ Fits(pc[t], loc[t])'
  BY PutBegins, PutFits DEF Inv
<1>2. /\ UNCHANGED <<rows, at, heap, buffer, free, disk, restarts>> /\ Call(t, k)
      /\ \E label, l : Goto(t, label, l)
  BY DEF Put
<1>3. SharedType'
  BY <1>2, CallType DEF SharedType, Inv, Types
<1>4. loc'[t].arr = None /\ loc'[t].old = None
  BY PutFrame DEF Inv
<1> QED
  BY <1>1, <1>2, <1>3, <1>4, BeginsInv

LEMMA MergeInv ==
    ASSUME Inv, NEW t \in Writers, NEW k \in Keys, NEW v \in MergeValues[k], Merge(t, k, v)
    PROVE  Inv'
<1>1. Begins(t, k) /\ Fits(pc[t], loc[t])' /\ RestOf(at[k]) \in Posts
  BY MergeFits, MergeBegins DEF Inv
<1>2. /\ UNCHANGED <<rows, at, heap, buffer, free, disk, restarts>> /\ Call(t, k)
      /\ \E label, l : Goto(t, label, l)
  BY DEF Merge
<1>3. SharedType'
  BY <1>2, CallType DEF SharedType, Inv, Types
<1>4. /\ {loc'[t].arr, loc'[t].old} \subseteq {at[k], None}
      /\ pc'[t] = "get" => loc'[t].old = None
  BY <1>1, MergeFrame DEF Inv
<1> QED
  BY <1>1, <1>2, <1>3, <1>4, BeginsInv

LEMMA DeleteInv ==
    ASSUME Inv, NEW t \in Writers, NEW k \in Keys, Delete(t, k)
    PROVE  Inv'
<1>1. Begins(t, k)
  BY DeleteBegins DEF Inv
<1>2. /\ UNCHANGED <<rows, at, heap, buffer, disk, restarts>> /\ Call(t, k)
      /\ \E label, l : Goto(t, label, l)
      /\ free' = free \o UsedFrom(heap[at[k]], 1)
  BY DEF Delete
<1>3. /\ pc'[t] = "spare" /\ loc'[t].arr = None /\ loc'[t].old = at[k] /\ at[k] \in Arrays
  BY DeleteFrame DEF Inv
<1>4. free' \in Seq(Blocks)
  <2>1. Whole(at[k])
    BY <1>2, <1>3, QuietWhole DEF Call
  <2>2. UsedFrom(heap[at[k]], 1) \in Seq(Blocks)
    BY <1>3, <2>1, UsedFromType
  <2> QED
    BY <1>2, <2>2, ConcatProperties DEF Inv, Types, SharedType
<1>5. SharedType'
  BY <1>2, <1>4, CallType DEF SharedType, Inv, Types
<1>6. Fits(pc[t], loc[t])'
  <2>1. Ranges(pc'[t], loc'[t])
    BY <1>3 DEF Ranges, Growing, Filling, Replacing
  <2>2. Filled(pc[t], loc[t])' /\ Replaces(pc[t], loc[t])'
    BY <1>3, ReplacesAt DEF Filled, Filling, Replacing
  <2> QED
    BY <2>1, <2>2, FitsAt
<1> QED
  BY <1>1, <1>2, <1>3, <1>5, <1>6, BeginsInv

----------------------------------------------------------------------------
(* Readers *)

LEMMA ReadInv ==
    ASSUME Inv, NEW r \in Readers, Read(r) \/ \E k \in Keys : ReadMapping(r, k)
    PROVE  Inv' /\ Reads(r)
<1>1. Types /\ Known /\ Alone /\ Once /\ ArraysHeld /\ r \in Threads /\ r \notin Writers
  BY Apart DEF Inv, Threads
<1>2. Reads(r)
  BY <1>1, ReaderReads DEF Read
<1>3. loc'[r].arr \in Arrays => \E k \in Keys : loc'[r].arr = at[k]
  <2>1. CASE \E k \in Keys : ReadMapping(r, k)
    BY <1>1, <2>1, ReadMappingFrame
  <2>2. CASE ReadHeader(r)
    <3>1. loc[r].arr \in Arrays
      BY <1>1, <2>2 DEF Known, Knows, ReadHeader
    <3> QED
      BY <1>1, <2>2, <3>1, ReadHeaderFrame, KeysType
  <2>3. CASE ReadData(r)
    BY <1>1, <2>3, ReadDataFrame, KeysType DEF Idle
  <2> QED
    BY <2>1, <2>2, <2>3 DEF Read
<1>4. Known' /\ Alone' /\ Once' /\ ArraysHeld'
  BY <1>1, <1>2, <1>3, ReadsKnown, ReadsHeld DEF Kept
<1>5. UNCHANGED <<rows, at, heap, buffer, free, disk, calls, restarts>>
  BY <1>2 DEF Reads
<1>6. SharedType'
  BY <1>1, <1>5 DEF Types, SharedType
<1>7. ThreadsType'
  <2>1. \E label, l : Goto(r, label, l)
    BY DEF Read, ReadMapping, ReadHeader, ReadData, Done
  <2>2. loc'[r] \in Local /\ pc'[r] \in Reading \cup {"idle"}
    BY <1>2 DEF Reads
  <2>3. pc'[r] \notin Calling
    BY <2>2 DEF Reading, Calling, Growing, Filling, Replacing, Deleting
  <2> QED
    BY <1>1, <2>1, <2>2, <2>3, GotoType DEF Types
<1>8. \A u \in Writers : pc'[u] = pc[u] /\ loc'[u] = loc[u]
  BY <1>1, <1>2, WriterThread DEF Reads, Others
<1>9. Fitting'
  BY <1>5, <1>8, FitsKept DEF Inv, Fitting
<1>10. Wholes'
  <2>1. SUFFICES ASSUME NEW a \in Arrays, \A u \in Writers : pc'[u] \in Filling => Hand(u)' # a
                 PROVE  Whole(a)'
    BY DEF Wholes
  <2>2. \A u \in Writers : Hand(u)' = Hand(u)
    BY <1>8 DEF Hand
  <2>3. Whole(a)
    BY <1>8, <2>1, <2>2 DEF Inv, Wholes
  <2> QED
    BY <1>5, <2>3, WholeKept
<1> QED
  BY <1>2, <1>4, <1>6, <1>7, <1>9, <1>10 DEF Inv, Types

----------------------------------------------------------------------------
(* Idle threads *)

LEMMA AllIdle ==
    ASSUME Known, \A t \in Threads : pc[t] = "idle"
    PROVE  /\ \A t \in Threads : loc[t] = Idle
           /\ \A t \in Writers : Hand(t) = None
           /\ \A k \in Keys : MapOf(k) = at[k] /\ ~Locked(k)
<1>1. \A t \in Threads : loc[t] = Idle
  BY DEF Known, Knows
<1>2. \A t \in Writers : Hand(t) = None
  BY WriterThread DEF Hand, Filling, Replacing
<1>3. \A k \in Keys : MapOf(k) = at[k] /\ ~Locked(k)
  BY WriterThread DEF MapOf, Locked
<1> QED
  BY <1>1, <1>2, <1>3

(* A process that begins: nobody has an array, and every posting has its own. *)
Fresh ==
    /\ \A t \in Threads : pc[t] = "idle" /\ loc[t] = Idle
    /\ pc \in [Threads -> {"idle"}] /\ loc \in [Threads -> Local] /\ SharedType
    /\ \A k, j \in Keys : at[k] = at[j] => at[k] = None \/ k = j
    /\ \A i, j \in DOMAIN buffer : buffer[i] = buffer[j] => i = j
    /\ \A k \in Keys, i \in DOMAIN buffer : at[k] # buffer[i]
    /\ \A a \in Arrays : Whole(a)

LEMMA FreshInv == Fresh => Inv
<1> SUFFICES ASSUME Fresh PROVE Inv
  OBVIOUS
<1> USE DEF Fresh, Calling, Growing, Filling, Replacing, Deleting, Reading
<1>1. ThreadsType
  BY WriterThread DEF ThreadsType, Threads
<1>2. Known /\ Alone
  BY WriterThread DEF Known, Knows, Alone
<1>3. Mapping = at /\ Hands = [t \in Writers |-> None]
  <2>1. (\A t \in Writers : Hand(t) = None) /\ (\A k \in Keys : MapOf(k) = at[k])
    BY <1>2, AllIdle
  <2>2. at = [k \in Keys |-> at[k]]
    BY DEF SharedType
  <2> QED
    BY <2>1, <2>2 DEF Mapping, Hands
<1>4. Once
  <2>1. \A i \in DOMAIN buffer : buffer[i] # None
    BY KeysType DEF SharedType
  <2> QED
    BY <1>3, <2>1 DEF Once, OnceIn
<1>5. ArraysHeld
  BY DEF ArraysHeld, Idle
<1>6. Fitting
  BY WriterThread DEF Fitting, Fits, Ranges, Filled, Replaces
<1>7. Wholes
  BY DEF Wholes
<1> QED
  BY <1>1, <1>2, <1>4, <1>5, <1>6, <1>7 DEF Inv, Types

LEMMA FreshInvNext == Fresh' => Inv'
BY FreshInv, PTL

(* The pools that a process begins with. *)
LEMMA AllBlocks ==
    ASSUME NEW f, f = [i \in 1..BlockCount |-> i - 1]
    PROVE  f \in Seq(Blocks) /\ DOMAIN f = 1..BlockCount /\ \A i \in 1..BlockCount : f[i] = i - 1
<1>1. BlockCount \in Nat
  BY SpdkAssumption
<1>2. \A i \in 1..BlockCount : i - 1 \in Blocks
  BY <1>1 DEF Blocks
<1>3. f \in [1..BlockCount -> Blocks]
  BY <1>2
<1> QED
  BY <1>1, <1>3

LEMMA SpareArrays ==
    ASSUME NEW n \in Nat, n + BufferSize <= ArrayCount, NEW b, b = [i \in 1..BufferSize |-> n + i]
    PROVE  /\ b \in Seq(Arrays) /\ DOMAIN b = 1..BufferSize /\ Len(b) = BufferSize
           /\ \A i \in DOMAIN b : b[i] = n + i /\ i \in Nat \ {0}
<1>1. BufferSize \in Nat /\ ArrayCount \in Nat
  BY SpdkAssumption
<1>2. \A i \in 1..BufferSize : n + i \in Arrays
  BY <1>1 DEF Arrays
<1>3. b \in [1..BufferSize -> Arrays]
  BY <1>2
<1>4. b \in Seq(Arrays) /\ Len(b) = BufferSize /\ DOMAIN b = 1..BufferSize
  BY <1>1, <1>3
<1>5. \A i \in 1..BufferSize : b[i] = n + i /\ i \in Nat \ {0}
  BY <1>1
<1> QED
  BY <1>4, <1>5

(* The first process begins with no posting. *)
LEMMA InitInv == Init => Inv
<1> SUFFICES ASSUME Init PROVE Inv
  OBVIOUS
<1>1. BufferSize \in Nat /\ ArrayCount \in Nat /\ 0 + BufferSize <= ArrayCount
  BY SpdkAssumption, FS_CardinalityType
<1>2. buffer = [i \in 1..BufferSize |-> 0 + i]
  BY <1>1 DEF Init
<1>3. /\ buffer \in Seq(Arrays)
      /\ \A i \in DOMAIN buffer : buffer[i] = 0 + i /\ i \in Nat \ {0}
  BY <1>1, <1>2, SpareArrays
<1>4. free \in Seq(Blocks)
  BY AllBlocks DEF Init
<1>5. heap \in [Arrays -> Array] /\ \A a \in Arrays : heap[a] = NoArray
  BY NoArrayType DEF Init
<1>6. disk \in [Blocks -> [1..PageSize -> Items \cup {Blank}]]
  BY DEF Init
<1>7. SharedType
  BY <1>3, <1>4, <1>5, <1>6 DEF Init, SharedType
<1>8. \A a \in Arrays : Whole(a)
  <2>1. NoArray.size = -1
    BY DEF NoArray
  <2>2. 1 .. Pages(NoArray.size) = {}
    BY <2>1, PagesBound, NoArrayWhole
  <2> QED
    BY <1>5, <2>2, NoArrayWhole DEF Whole
<1>9. /\ \A t \in Threads : pc[t] = "idle" /\ loc[t] = Idle
      /\ pc \in [Threads -> {"idle"}] /\ loc \in [Threads -> Local]
      /\ \A k \in Keys : at[k] = None
  BY IdleType DEF Init
<1>10. \A i, j \in DOMAIN buffer : buffer[i] = buffer[j] => i = j
  BY <1>3
<1>11. \A k \in Keys, i \in DOMAIN buffer : at[k] # buffer[i]
  BY <1>3, <1>9, KeysType
<1> QED
  BY <1>7, <1>8, <1>9, <1>10, <1>11, FreshInv DEF Fresh

----------------------------------------------------------------------------
(* Restarts, and the invariant *)

(* The keys are the rows, and there is an array for each. *)
LEMMA KeyRows ==
    /\ Cardinality(Keys) \in Nat
    /\ \A k \in Keys : k \in Nat /\ k + 1 \in 1 .. Cardinality(Keys)
    /\ \A a \in 1 .. Cardinality(Keys) : a - 1 \in Keys
    /\ Cardinality(Keys) + BufferSize <= ArrayCount
    /\ ArrayCount \in Nat /\ BufferSize \in Nat
    /\ \A k \in Keys : k + 1 \in Arrays
<1>1. Keys = 0 .. Cardinality(Keys) - 1 /\ Cardinality(Keys) \in Nat /\ Cardinality(Writers) \in Nat
      /\ ArrayCount \in Nat /\ BufferSize \in Nat
      /\ ArrayCount >= Cardinality(Keys) + Cardinality(Writers) + BufferSize
  BY SpdkAssumption, FS_CardinalityType
<1> DEFINE n == Cardinality(Keys)
           w == Cardinality(Writers)
<1>2. Keys = 0 .. n - 1 /\ n \in Nat /\ w \in Nat /\ ArrayCount >= n + w + BufferSize
  BY <1>1
<1> HIDE DEF n, w
<1>3. n + BufferSize <= ArrayCount
  BY <1>1, <1>2
<1>4. \A k \in Keys : k \in Nat /\ k + 1 \in 1 .. n /\ k + 1 \in Arrays
  BY <1>1, <1>2, <1>3 DEF Arrays
<1>5. \A a \in 1 .. n : a - 1 \in Keys
  BY <1>2
<1> QED
  BY <1>1, <1>2, <1>3, <1>4, <1>5 DEF n

(* The array a process loads at a: what it saved of the row before. *)
Saved(k) == IF at[k] = None THEN NoArray ELSE heap[at[k]]

(* The next process loads what was saved, and gives each row an array. *)
LEMMA RestartState ==
    ASSUME Inv, Restart
    PROVE  /\ \A t \in Threads : pc[t] = "idle" /\ loc[t] = Idle
           /\ \A k \in Keys : at'[k] = IF k < rows THEN k + 1 ELSE None
           /\ \A a \in Arrays : heap'[a] =
                IF a <= Cardinality(Keys) /\ a <= rows THEN Saved(a - 1) ELSE NoArray
           /\ buffer' = [i \in 1..BufferSize |-> Cardinality(Keys) + i]
           /\ free' = [i \in 1..BlockCount |-> i - 1]
           /\ restarts' = restarts + 1 /\ UNCHANGED <<rows, disk, pc, loc, calls>>
           /\ at' = [k \in Keys |-> at'[k]] /\ heap' = [a \in Arrays |-> heap'[a]]
<1>1. \A t \in Threads : pc[t] = "idle"
  BY DEF Restart
<1>2. \A t \in Threads : loc[t] = Idle
  BY <1>1, AllIdle DEF Inv
<1>3. at' = [k \in Keys |-> IF k < rows THEN k + 1 ELSE None]
  BY DEF Restart
<1>4. heap' = [a \in Arrays |-> IF a <= Cardinality(Keys) /\ a <= rows THEN Saved(a - 1) ELSE NoArray]
  BY DEF Restart, Saved
<1>5. /\ buffer' = [i \in 1..BufferSize |-> Cardinality(Keys) + i]
      /\ free' = [i \in 1..BlockCount |-> i - 1]
      /\ restarts' = restarts + 1 /\ UNCHANGED <<rows, disk, pc, loc, calls>>
  BY DEF Restart
<1> HIDE DEF Saved
<1> QED
  BY <1>1, <1>2, <1>3, <1>4, <1>5

LEMMA RestartInv ==
    ASSUME Inv, Restart
    PROVE  Inv'
<1> DEFINE n == Cardinality(Keys)
<1>1. /\ n \in Nat /\ n + BufferSize <= ArrayCount
      /\ \A k \in Keys : k \in Nat /\ k + 1 \in 1 .. n /\ k + 1 \in Arrays
      /\ \A a \in 1 .. n : a - 1 \in Keys
  BY KeyRows
<1>2. /\ \A t \in Threads : pc'[t] = "idle" /\ loc'[t] = Idle
      /\ \A k \in Keys : at'[k] = IF k < rows THEN k + 1 ELSE None
      /\ \A a \in Arrays : heap'[a] = IF a <= n /\ a <= rows THEN Saved(a - 1) ELSE NoArray
      /\ buffer' = [i \in 1..BufferSize |-> n + i]
      /\ free' = [i \in 1..BlockCount |-> i - 1]
      /\ restarts' = restarts + 1 /\ UNCHANGED <<rows, disk, pc, loc, calls>>
      /\ at' = [k \in Keys |-> at'[k]] /\ heap' = [a \in Arrays |-> heap'[a]]
  BY RestartState
<1>3. /\ buffer' \in Seq(Arrays)
      /\ \A i \in DOMAIN buffer' : buffer'[i] = n + i /\ i \in Nat \ {0}
  <2>1. PICK b : b = buffer'
    OBVIOUS
  <2> HIDE DEF n
  <2>2. b \in Seq(Arrays) /\ \A i \in DOMAIN b : b[i] = n + i /\ i \in Nat \ {0}
    BY <1>1, <1>2, <2>1, SpareArrays
  <2> QED
    BY <2>1, <2>2
<1>4. free' \in Seq(Blocks)
  <2>1. PICK f : f = free'
    OBVIOUS
  <2>2. f \in Seq(Blocks)
    BY <1>2, <2>1, AllBlocks
  <2> QED
    BY <2>1, <2>2
<1>5. \A b \in Arrays : Whole(b)
  <2>1. \A t \in Writers : Hand(t) = None
    BY AllIdle DEF Inv, Restart
  <2> QED
    BY <2>1, KeysType DEF Inv, Wholes
<1> HIDE DEF n
<1>6. ASSUME NEW a \in Arrays
      PROVE  heap'[a] = NoArray \/ \E b \in Arrays : heap'[a] = heap[b]
  <2>1. CASE a <= n /\ a <= rows
    <3>1. a - 1 \in Keys
      BY <1>1, <2>1 DEF Arrays
    <3>2. at[a - 1] \in Arrays \cup {None}
      BY <3>1 DEF Inv, Types, SharedType
    <3>3. heap'[a] = Saved(a - 1)
      BY <1>2, <2>1
    <3> QED
      BY <3>2, <3>3 DEF Saved
  <2>2. CASE ~(a <= n /\ a <= rows)
    BY <1>2, <2>2
  <2> QED
    BY <2>1, <2>2
<1>7. heap' \in [Arrays -> Array]
  <2>1. \A a \in Arrays : heap'[a] \in Array
    BY <1>6, NoArrayType DEF Inv, Types, SharedType
  <2> QED
    BY <1>2, <2>1
<1>8. at' \in [Keys -> Arrays \cup {None}]
  <2>1. \A k \in Keys : at'[k] \in Arrays \cup {None}
    BY <1>1, <1>2
  <2> QED
    BY <1>2, <2>1
<1>9. SharedType'
  BY <1>2, <1>3, <1>4, <1>7, <1>8 DEF SharedType, Inv, Types
<1>10. \A a \in Arrays : Whole(a)'
  <2>1. SUFFICES ASSUME NEW a \in Arrays PROVE Whole(a)'
    OBVIOUS
  <2>2. Whole(a)' <=> /\ Pages(heap'[a].size) < BlockLimit
                      /\ \A i \in 1 .. Pages(heap'[a].size) : heap'[a].addr[i] \in Blocks
    BY DEF Whole, Pages
  <2>3. CASE heap'[a] = NoArray
    <3>1. NoArray.size = -1
      BY DEF NoArray
    <3>2. 1 .. Pages(NoArray.size) = {}
      BY <3>1, PagesBound, NoArrayWhole
    <3> QED
      BY <2>2, <2>3, <3>2, NoArrayWhole
  <2>4. CASE \E b \in Arrays : heap'[a] = heap[b]
    BY <1>5, <2>2, <2>4 DEF Whole
  <2> QED
    BY <1>6, <2>3, <2>4
<1>11. \A k, j \in Keys : at'[k] = at'[j] => at'[k] = None \/ k = j
  BY <1>1, <1>2, KeysType
<1>12. \A i, j \in DOMAIN buffer' : buffer'[i] = buffer'[j] => i = j
  BY <1>1, <1>3
<1>13. ASSUME NEW k \in Keys, NEW i \in DOMAIN buffer' PROVE at'[k] # buffer'[i]
  <2>1. buffer'[i] \in Arrays /\ buffer'[i] = n + i /\ i \in Nat \ {0}
    BY <1>3
  <2>2. CASE k < rows
    BY <1>1, <1>2, <2>1, <2>2
  <2>3. CASE ~(k < rows)
    BY <1>2, <2>1, <2>3, KeysType
  <2> QED
    BY <2>2, <2>3
<1>14. pc' \in [Threads -> {"idle"}] /\ loc' \in [Threads -> Local]
  <2>1. pc \in [Threads -> {"idle"}]
    BY <1>2 DEF Inv, Types, ThreadsType
  <2> QED
    BY <1>2, <2>1 DEF Inv, Types, ThreadsType
<1>15. Fresh'
  BY <1>2, <1>9, <1>10, <1>11, <1>12, <1>13, <1>14 DEF Fresh
<1> QED
  BY <1>15, FreshInvNext

(* Every step keeps the invariant. *)
LEMMA NextInv ==
    ASSUME Inv, [Next]_vars
    PROVE  Inv'
<1>1. CASE Next
  <2>1. ASSUME NEW t \in Writers, NEW k \in Keys,
               \/ \E v \in PutValues[k] : Put(t, k, v)
               \/ \E v \in MergeValues[k] : Merge(t, k, v)
               \/ Delete(t, k)
        PROVE  Inv'
    BY <2>1, PutInv, MergeInv, DeleteInv
  <2> QED
    BY <1>1, <2>1, StepInv, ReadInv, RestartInv DEF Next
<1>2. CASE UNCHANGED vars
  BY <1>2 DEF vars, Inv, Types, SharedType, ThreadsType, Known, Knows, Alone, Once, OnceIn, Mapping, MapOf,
              Hands, Hand, ArraysHeld, Owned, OwnedIn, Fitting, Fits, Ranges, Filled, Replaces,
              Extends, First, Wholes, Whole, Pages
<1> QED
  BY <1>1, <1>2

(* Always. *)
LEMMA SpecInv == Spec => []Inv
BY InitInv, NextInv, PTL DEF Spec

(* Type correctness of the store: GetBlocks never fills a cell beyond the  *)
(* m_blockLimit of its array, and a Put, Merge or Delete has the array it  *)
(* replaces in its hands, whatever the calls of other heads do meanwhile.  *)
THEOREM TypeCorrect == Spec => []TypeOK
<1>1. Inv => TypeOK
  <2> SUFFICES ASSUME Inv PROVE TypeOK
    OBVIOUS
  <2>1. ASSUME NEW t \in Threads
        PROVE  /\ loc[t].key \in Keys \cup {0}
               /\ loc[t].arr \in Arrays \cup {None} /\ loc[t].old \in Arrays \cup {None}
               /\ pc[t] = "get" => loc[t].arr \in Arrays /\ loc[t].next \in Cells
               /\ pc[t] \in {"pop", "release", "swap", "recycle", "spare"} => loc[t].old \in Arrays
    <3>1. loc[t] \in Local /\ Knows(pc[t], loc[t])
      BY DEF Inv, Types, ThreadsType, Known
    <3>2. ASSUME pc[t] = "get" PROVE loc[t].next \in Cells
      <4>1. t \in Writers
        BY <3>2 DEF Inv, Types, ThreadsType, Threads, Calling, Filling
      <4>2. Ranges(pc[t], loc[t])
        BY <4>1 DEF Inv, Fitting, Fits
      <4> QED
        BY <3>1, <3>2, <4>2, RangeTypes, PageSizeType DEF Ranges, Cells, Filling
    <3> QED
      BY <3>1, <3>2 DEF Knows, Filling, Replacing, Deleting, Local
  <2> QED
    BY <2>1 DEF Inv, Types, SharedType, Array, TypeOK
<1> QED
  BY <1>1, SpecInv, PTL

----------------------------------------------------------------------------
(* Arrays *)

(* A set whose members are all the same has at most one. *)
LEMMA AtMostOne ==
    ASSUME NEW S, \A x, y \in S : x = y
    PROVE  Cardinality(S) \in {0, 1} /\ (Cardinality(S) = 0 <=> S = {})
<1>1. CASE S = {}
  BY <1>1, FS_EmptySet
<1>2. CASE S # {}
  <2>1. PICK x \in S : TRUE
    BY <1>2
  <2>2. S = {x}
    BY <2>1
  <2>3. Cardinality({x}) = 1
    BY FS_Singleton
  <2> QED
    BY <1>2, <2>2, <2>3
<1> QED
  BY <1>1, <1>2

(* The p_data arrays of ExtraSPDKController never have two users: an array *)
(* that Put or Merge takes from m_buffer, that the exchange puts into the  *)
(* mapping or that Delete frees is in one of these places at a time.       *)
THEOREM ArraysAreOnce == Spec => []ArraysOnce
<1>1. Inv => ArraysOnce
  <2> SUFFICES ASSUME Inv, NEW a \in Arrays
               PROVE  LET mapped == {k \in Keys : at[k] = a /\ ~Writer(k, {"unmap"})}
                          spares == {i \in DOMAIN buffer : buffer[i] = a}
                          hands == {t \in Writers :
                                      \/ /\ pc[t] \in {"get", "write", "release", "swap"}
                                         /\ loc[t].old # None /\ loc[t].arr = a
                                      \/ pc[t] = "recycle" /\ loc[t].old = a}
                      IN  Cardinality(mapped) + Cardinality(spares) + Cardinality(hands) <= 1
    BY DEF ArraysOnce
  <2> DEFINE mapped == {k \in Keys : at[k] = a /\ ~Writer(k, {"unmap"})}
             spares == {i \in DOMAIN buffer : buffer[i] = a}
             hands == {t \in Writers : \/ /\ pc[t] \in {"get", "write", "release", "swap"}
                                          /\ loc[t].old # None /\ loc[t].arr = a
                                       \/ pc[t] = "recycle" /\ loc[t].old = a}
  <2>1. OnceIn(Mapping, buffer, Hands) /\ a # None
    BY KeysType DEF Inv, Once
  <2>2. \A k \in mapped : k \in Keys /\ Mapping[k] = a
    BY DEF Mapping, MapOf, Writer
  <2>3. \A t \in hands : t \in Writers /\ Hands[t] = a
    BY DEF Hands, Hand, Filling, Replacing
  <2>4. \A i \in spares : i \in DOMAIN buffer /\ buffer[i] = a
    OBVIOUS
  <2> HIDE DEF mapped, spares, hands
  <2>5. /\ \A x, y \in mapped : x = y
        /\ \A x, y \in spares : x = y
        /\ \A x, y \in hands : x = y
    BY <2>1, <2>2, <2>3, <2>4 DEF OnceIn
  <2>6. /\ mapped = {} \/ spares = {}
        /\ mapped = {} \/ hands = {}
        /\ spares = {} \/ hands = {}
    BY <2>1, <2>2, <2>3, <2>4 DEF OnceIn
  <2>7. /\ Cardinality(mapped) \in {0, 1} /\ (Cardinality(mapped) = 0 <=> mapped = {})
        /\ Cardinality(spares) \in {0, 1} /\ (Cardinality(spares) = 0 <=> spares = {})
        /\ Cardinality(hands) \in {0, 1} /\ (Cardinality(hands) = 0 <=> hands = {})
    BY <2>5, AtMostOne
  <2>8. Cardinality(mapped) + Cardinality(spares) + Cardinality(hands) <= 1
    BY <2>6, <2>7
  <2> QED
    BY <2>8 DEF mapped, spares, hands
<1> QED
  BY <1>1, SpecInv, PTL

----------------------------------------------------------------------------
(* Searches without a lock *)

(* A reader whose key was not called since it began: nobody is in a call   *)
(* of that key, and what it has collected is what is there.                *)
QuietOf(r) == LET l == loc[r] IN
    pc[r] \in Reading =>
        /\ l.quiet <= calls[l.key]
        /\ l.quiet = calls[l.key] =>
              /\ ~Locked(l.key) /\ at[l.key] # None /\ heap[at[l.key]].size >= 0
              /\ pc[r] = "header" => l.arr = at[l.key]
              /\ pc[r] = "blocks" => l.header = heap[at[l.key]]
QuietInv == \A r \in Readers : QuietOf(r)

(* A reader whose key is left alone is as it was. *)
LEMMA QuietKept ==
    ASSUME NEW r, QuietOf(r), pc'[r] = pc[r], loc'[r] = loc[r],
           pc[r] \in Reading /\ loc[r].quiet = calls[loc[r].key] =>
             \/ loc[r].quiet < calls'[loc[r].key]
             \/ /\ calls'[loc[r].key] = calls[loc[r].key] /\ at'[loc[r].key] = at[loc[r].key]
                /\ heap'[at[loc[r].key]] = heap[at[loc[r].key]] /\ ~Locked(loc[r].key)',
           calls'[loc[r].key] \in Nat, calls[loc[r].key] \in Nat, loc[r].quiet \in Int,
           calls[loc[r].key] <= calls'[loc[r].key]
    PROVE  QuietOf(r)'
<1> DEFINE k == loc[r].key
           q == loc[r].quiet
<1> SUFFICES ASSUME pc[r] \in Reading
             PROVE  /\ q <= calls'[k]
                    /\ q = calls'[k] =>
                         /\ ~Locked(loc[r].key)' /\ at'[k] # None /\ heap'[at'[k]].size >= 0
                         /\ pc'[r] = "header" => loc'[r].arr = at'[k]
                         /\ pc'[r] = "blocks" => loc'[r].header = heap'[at'[k]]
  BY DEF QuietOf
<1>1. q <= calls[k] /\ q \in Int /\ calls'[k] \in Nat /\ calls[k] \in Nat /\ calls[k] <= calls'[k]
  BY DEF QuietOf
<1>2. q <= calls'[k] /\ (q = calls'[k] => q = calls[k])
  <2> HIDE DEF q, k
  <2> QED
    BY <1>1
<1>3. ASSUME q = calls'[k]
      PROVE  /\ ~Locked(loc[r].key)' /\ at'[k] # None /\ heap'[at'[k]].size >= 0
             /\ pc'[r] = "header" => loc'[r].arr = at'[k]
             /\ pc'[r] = "blocks" => loc'[r].header = heap'[at'[k]]
  <2>1. ~(q < calls'[k])
    BY <1>1, <1>3
  <2>2. q = calls[k]
    BY <1>2, <1>3
  <2>3. at'[k] = at[k] /\ heap'[at[k]] = heap[at[k]] /\ ~Locked(loc[r].key)'
    BY <2>1, <2>2
  <2>4. /\ at[k] # None /\ heap[at[k]].size >= 0
        /\ pc[r] = "header" => loc[r].arr = at[k]
        /\ pc[r] = "blocks" => loc[r].header = heap[at[k]]
    BY <2>2 DEF QuietOf
  <2> QED
    BY <2>3, <2>4
<1> QED
  BY <1>2, <1>3

(* What a reader has in its locals. *)
LEMMA ReaderKnows ==
    ASSUME Inv, NEW r \in Readers
    PROVE  /\ loc[r] \in Local /\ loc[r].quiet \in Int
           /\ pc[r] \in Reading => loc[r].key \in Keys
           /\ pc[r] \in {"idle"} \cup Reading
BY DEF Inv, Types, ThreadsType, Threads, Known, Knows, Local

(* The step of a writer, the beginning of a call, and a step of a reader. *)
LEMMA QuietStep ==
    ASSUME Inv, NEW t \in Writers, Step(t), NEW r \in Readers, QuietOf(r)
    PROVE  QuietOf(r)'
<1> DEFINE k == loc[r].key
<1>1. Continues(t) /\ Others(t) /\ calls' = calls
  BY StepOnce DEF Inv, Continues, Step, Grow, Slot, Pop, GetBlock, Write, Release, Swap, Recycle,
                  DeleteSpare, DeleteUnmap
<1>2. pc'[r] = pc[r] /\ loc'[r] = loc[r]
  BY <1>1, Apart DEF Others, Threads
<1>3. CASE pc[r] \notin Reading
  BY <1>2, <1>3 DEF QuietOf
<1>4. CASE pc[r] \in Reading
  <2>1. k \in Keys /\ loc[r].quiet \in Int
    BY <1>4, ReaderKnows
  <2>2. calls[k] \in Nat /\ calls'[k] = calls[k]
    BY <1>1, <2>1 DEF Inv, Types, SharedType
  <2>3. ASSUME loc[r].quiet = calls[k]
        PROVE  at'[k] = at[k] /\ heap'[at[k]] = heap[at[k]] /\ ~Locked(loc[r].key)'
    <3>1. ~Locked(k) /\ at[k] # None
      BY <1>4, <2>3 DEF QuietOf
    <3>2. k # loc[t].key
      BY <1>1, <3>1 DEF Locked, Continues
    <3>3. at'[k] = at[k]
      BY <1>1, <2>1, <3>2 DEF Continues
    <3>4. MapOf(k) = at[k] /\ at[k] \in Arrays
      BY <2>1, <3>1 DEF MapOf, Locked, Inv, Types, SharedType
    <3>5. heap'[at[k]] = heap[at[k]]
      <4>1. at[k] \notin Touched(t)
        BY <2>1, <3>2, <3>4, TouchedIsMine DEF Inv
      <4> QED
        BY <3>4, <4>1, HeapStep DEF Inv
    <3>6. ~Locked(loc[r].key)'
      <4>1. ASSUME NEW u \in Writers, pc'[u] # "idle", loc'[u].key = k PROVE FALSE
        <5>1. CASE u = t
          BY <1>1, <3>2, <4>1, <5>1 DEF Continues
        <5>2. CASE u # t
          <6>1. pc'[u] = pc[u] /\ loc'[u] = loc[u]
            BY <1>1, <5>2, WriterThread DEF Others
          <6> QED
            BY <3>1, <4>1, <6>1 DEF Locked
        <5> QED
          BY <5>1, <5>2
      <4> QED
        BY <1>2, <4>1 DEF Locked
    <3> QED
      BY <3>3, <3>5, <3>6
  <2> QED
    BY <1>2, <2>1, <2>2, <2>3, QuietKept
<1> QED
  BY <1>3, <1>4

LEMMA QuietBegins ==
    ASSUME Inv, NEW t \in Writers, NEW c \in Keys, Begins(t, c), heap' = heap,
           calls' = [calls EXCEPT ![c] = @ + 1], NEW r \in Readers, QuietOf(r)
    PROVE  QuietOf(r)'
<1> DEFINE k == loc[r].key
           q == loc[r].quiet
<1>1. Others(t) /\ at' = at /\ loc'[t].key = c
  BY DEF Begins
<1>2. pc'[r] = pc[r] /\ loc'[r] = loc[r]
  BY <1>1, Apart DEF Others, Threads
<1>3. CASE pc[r] \notin Reading
  BY <1>2, <1>3 DEF QuietOf
<1>4. CASE pc[r] \in Reading
  <2>1. k \in Keys /\ q \in Int
    BY <1>4, ReaderKnows
  <2>2. calls \in [Keys -> Nat]
    BY DEF Inv, Types, SharedType
  <2>3. calls[k] \in Nat /\ calls'[k] = IF k = c THEN calls[k] + 1 ELSE calls[k]
    BY <2>1, <2>2
  <2>4. calls'[k] \in Nat /\ calls[k] <= calls'[k]
    BY <2>3
  <2>5. ASSUME q = calls[k]
        PROVE  \/ q < calls'[k]
               \/ /\ calls'[k] = calls[k] /\ at'[k] = at[k]
                  /\ heap'[at[k]] = heap[at[k]] /\ ~Locked(loc[r].key)'
    <3>1. CASE k = c
      BY <2>3, <2>5, <3>1
    <3>2. CASE k # c
      <4>1. ~Locked(k)
        BY <1>4, <2>5 DEF QuietOf
      <4>2. \A u \in Writers \ {t} : pc'[u] = pc[u] /\ loc'[u] = loc[u]
        BY <1>1, WriterThread DEF Others
      <4>3. ~Locked(loc[r].key)'
        BY <1>1, <1>2, <3>2, <4>1, <4>2 DEF Locked
      <4> QED
        BY <1>1, <2>3, <3>2, <4>3
    <3> QED
      BY <3>1, <3>2
  <2> QED
    BY <1>2, <2>1, <2>3, <2>4, <2>5, QuietKept
<1> QED
  BY <1>3, <1>4

LEMMA QuietRead ==
    ASSUME Inv, NEW r \in Readers, Read(r) \/ \E k \in Keys : ReadMapping(r, k), QuietOf(r)
    PROVE  QuietOf(r)'
<1>1. Types /\ Reads(r) /\ Knows(pc[r], loc[r])
  BY ReadInv DEF Inv, Known, Threads
<1>2. UNCHANGED <<rows, at, heap, buffer, free, disk, calls, restarts>>
  BY <1>1 DEF Reads
<1>3. \A u \in Writers : pc'[u] = pc[u] /\ loc'[u] = loc[u]
  BY <1>1, Apart, WriterThread DEF Reads, Others
<1>4. CASE \E k \in Keys : ReadMapping(r, k)
  <2>1. PICK k \in Keys : ReadMapping(r, k)
    BY <1>4
  <2>2. /\ pc'[r] = "header" /\ loc'[r].key = k /\ loc'[r].arr = at[k] /\ at[k] \in Arrays
        /\ loc'[r].quiet = IF Locked(k) THEN -1 ELSE calls[k]
    BY <1>1, <2>1, ReadMappingFrame
  <2>3. heap[at[k]].size >= 0 /\ at[k] # None
    BY <2>1 DEF ReadMapping, Mapped
  <2>4. calls[k] \in Nat /\ calls' = calls /\ at' = at /\ heap' = heap
    BY <1>2, <2>1 DEF Inv, Types, SharedType
  <2>5. Locked(loc[r].key)' <=> Locked(k)
    BY <1>3, <2>2 DEF Locked
  <2> QED
    BY <2>2, <2>3, <2>4, <2>5 DEF QuietOf
<1>5. CASE ReadHeader(r)
  <2>1. pc[r] = "header" /\ loc[r].arr \in Arrays
    BY <1>1, <1>5 DEF ReadHeader, Knows
  <2>2. /\ pc'[r] = "blocks" /\ loc'[r].key = loc[r].key /\ loc'[r].quiet = loc[r].quiet
        /\ loc'[r].header = heap[loc[r].arr]
    BY <1>1, <1>5, <2>1, ReadHeaderFrame
  <2>3. Locked(loc[r].key)' <=> Locked(loc[r].key)
    BY <1>3, <2>2 DEF Locked
  <2> QED
    BY <1>2, <2>1, <2>2, <2>3 DEF QuietOf, Reading
<1>6. CASE ReadData(r)
  <2>1. pc'[r] = "idle"
    BY <1>1, <1>6, ReadDataFrame
  <2> QED
    BY <2>1 DEF QuietOf, Reading
<1> QED
  BY <1>4, <1>5, <1>6 DEF Read

(* Every step, a restart included, leaves no reader with a stale header. *)
LEMMA QuietNext ==
    ASSUME Inv, [Next]_vars, QuietInv
    PROVE  QuietInv'
<1> SUFFICES ASSUME NEW r \in Readers PROVE QuietOf(r)'
  BY DEF QuietInv
<1>1. QuietOf(r)
  BY DEF QuietInv
<1>2. ASSUME NEW t \in Writers, NEW k \in Keys,
             \/ \E v \in PutValues[k] : Put(t, k, v)
             \/ \E v \in MergeValues[k] : Merge(t, k, v)
             \/ Delete(t, k)
      PROVE  QuietOf(r)'
  <2>1. Begins(t, k)
    BY <1>2, PutBegins, MergeFits, MergeBegins, DeleteBegins DEF Inv
  <2>2. heap' = heap /\ calls' = [calls EXCEPT ![k] = @ + 1]
    BY <1>2 DEF Put, Merge, Delete, Call
  <2> QED
    BY <1>1, <2>1, <2>2, QuietBegins
<1>3. ASSUME NEW t \in Writers, Step(t) PROVE QuietOf(r)'
  BY <1>1, <1>3, QuietStep
<1>4. ASSUME NEW x \in Readers, Read(x) \/ \E k \in Keys : ReadMapping(x, k)
      PROVE  QuietOf(r)'
  <2>1. CASE x = r
    BY <1>1, <1>4, <2>1, QuietRead
  <2>2. CASE x # r
    <3>1. Reads(x)
      BY <1>4, ReadInv
    <3>2. /\ \A u \in Threads \ {x} : pc'[u] = pc[u] /\ loc'[u] = loc[u]
          /\ UNCHANGED <<at, heap, calls>>
      BY <3>1 DEF Reads, Others
    <3>3. pc'[r] = pc[r] /\ loc'[r] = loc[r] /\ \A u \in Writers : pc'[u] = pc[u] /\ loc'[u] = loc[u]
      BY <2>2, <3>2, Apart DEF Threads
    <3>4. Locked(loc[r].key)' <=> Locked(loc[r].key)
      BY <3>3 DEF Locked
    <3> QED
      BY <1>1, <3>2, <3>3, <3>4 DEF QuietOf
  <2> QED
    BY <2>1, <2>2
<1>5. CASE Restart
  <2>1. pc'[r] = "idle"
    BY <1>5 DEF Restart, Threads
  <2> QED
    BY <2>1 DEF QuietOf, Reading
<1>6. CASE UNCHANGED vars
  BY <1>1, <1>6 DEF vars, QuietOf, Locked
<1> QED
  BY <1>2, <1>3, <1>4, <1>5, <1>6 DEF Next

(* A MultiGet, which takes no lock, reads the posting of a head nobody      *)
(* writes during the call: no call of another head writes the array that   *)
(* it collected, and the size and addresses it copied are still the ones.  *)
THEOREM QuietReadsAreExact == Spec => []QuietReadIsExact
<1>1. Init => QuietInv
  BY DEF Init, QuietInv, QuietOf, Reading, Threads
<1>2. Inv /\ QuietInv => QuietReadIsExact
  <2> SUFFICES ASSUME Inv, QuietInv, NEW r \in Readers, pc[r] = "blocks",
                      loc[r].quiet = calls[loc[r].key]
               PROVE  loc[r].header.size >= 0 /\ ReadBlocks(loc[r].header) = Posting(loc[r].key)
    BY DEF QuietReadIsExact
  <2> DEFINE k == loc[r].key
  <2>1. /\ ~Locked(k) /\ at[k] # None /\ heap[at[k]].size >= 0
        /\ loc[r].header = heap[at[k]]
    BY DEF QuietInv, QuietOf, Reading
  <2>2. at[k] \in Arrays
    <3>1. k \in Keys
      BY ReaderKnows DEF Reading
    <3> QED
      BY <2>1, <3>1 DEF Inv, Types, SharedType
  <2>3. heap[at[k]].size \in Nat
    BY <2>1, <2>2 DEF Inv, Types, SharedType, Array
  <2>4. Current(k) = at[k]
    BY <2>1 DEF Current, Writer, Locked
  <2> HIDE DEF k
  <2>5. Posting(k) = ReadBlocks(heap[at[k]])
    BY <2>1, <2>3, <2>4 DEF Posting
  <2> QED
    BY <2>1, <2>5 DEF k
<1>3. Spec => []QuietInv
  <2>1. Inv /\ QuietInv /\ [Next]_vars => QuietInv'
    BY QuietNext
  <2> QED
    BY <1>1, <2>1, SpecInv, PTL DEF Spec
<1> QED
  BY <1>2, <1>3, SpecInv, PTL

----------------------------------------------------------------------------
(* Postings as values *)

(* Item p of a posting is in cell Cell(p) of its array, at Place(p) there;  *)
(* ReadBlocks as a function of the device d and the array a.                *)
Cell(p) == ((p - 1) \div PageSize) + 1
Place(p) == ((p - 1) % PageSize) + 1
ReadOf(d, a) ==
    [p \in 1..a.size |->
        LET b == a.addr[Cell(p)] IN IF b = None THEN Blank ELSE d[b][Place(p)]]

(* Every item has a place in a cell. *)
LEMMA PlaceBound ==
    ASSUME NEW p \in Nat \ {0}
    PROVE  /\ Cell(p) \in Nat \ {0} /\ Place(p) \in 1 .. PageSize
           /\ p = (Cell(p) - 1) * PageSize + Place(p)
<1> DEFINE m == p - 1
           q == m \div PageSize
           r == m % PageSize
<1>1. m \in Nat
  OBVIOUS
<1>2. q \in Nat /\ r \in 0 .. PageSize - 1 /\ m = q * PageSize + r
  <2> HIDE DEF m
  <2> QED
    BY <1>1, PagesRest
<1>3. Cell(p) = q + 1 /\ Place(p) = r + 1
  BY DEF Cell, Place
<1> HIDE DEF q, r
<1>4. r + 1 \in 1 .. PageSize
  BY <1>2, PageSizeType
<1>5. (Cell(p) - 1) * PageSize = q * PageSize
  BY <1>2, <1>3
<1>6. q * PageSize \in Int
  BY <1>2, PageSizeType
<1> QED
  BY <1>2, <1>3, <1>4, <1>5, <1>6

(* The cells that are full, and the ones that a size counts. *)
LEMMA CellBound ==
    ASSUME NEW n \in Nat, NEW p \in 1 .. n
    PROVE  /\ p \in Nat \ {0} /\ Cell(p) \in Nat \ {0}
           /\ Cell(p) \in 1 .. Pages(n) /\ Place(p) \in 1 .. PageSize
           /\ \A f \in Nat : p <= f * PageSize <=> Cell(p) <= f
<1>1. PICK c \in Nat \ {0} : c = Cell(p)
  BY PlaceBound
<1>2. PICK j \in 1 .. PageSize : j = Place(p)
  BY PlaceBound
<1>3. p = (c - 1) * PageSize + j
  BY <1>1, <1>2, PlaceBound
<1>4. ASSUME NEW f \in Nat PROVE p <= f * PageSize <=> c <= f
  <2>1. PageSize \in Nat \ {0}
    BY PageSizeType
  <2>2. CASE c <= f
    <3>1. PICK g \in Nat : f = c + g
      <4>1. f - c \in Nat /\ f = c + (f - c)
        BY <2>2
      <4> QED
        BY <4>1
    <3>2. g * PageSize \in Nat /\ (c - 1) * PageSize \in Int
      BY <2>1
    <3>3. f * PageSize = (c - 1) * PageSize + PageSize + g * PageSize
      BY <2>1, <3>1
    <3> QED
      BY <1>3, <2>1, <2>2, <3>2, <3>3
  <2>3. CASE ~(c <= f)
    <3>1. PICK g \in Nat : c - 1 = f + g
      <4>1. c - 1 - f \in Nat /\ c - 1 = f + (c - 1 - f)
        BY <2>3
      <4> QED
        BY <4>1
    <3>2. g * PageSize \in Nat /\ f * PageSize \in Int
      BY <2>1
    <3>3. (c - 1) * PageSize = f * PageSize + g * PageSize
      BY <2>1, <3>1
    <3> QED
      BY <1>3, <2>1, <2>3, <3>2, <3>3
  <2> QED
    BY <2>2, <2>3
<1>5. Pages(n) \in Nat /\ n <= Pages(n) * PageSize
  BY PagesBound, PagesSmall
<1>6. PICK m \in Nat : m = Pages(n)
  BY <1>5
<1>7. p <= m * PageSize
  <2>1. m * PageSize \in Int /\ n <= m * PageSize
    BY <1>5, <1>6, PageSizeType
  <2> QED
    BY <2>1
<1>8. c <= m
  BY <1>4, <1>7
<1> QED
  BY <1>1, <1>2, <1>4, <1>6, <1>8

(* What is read depends on nothing but the cells that the size counts. *)
LEMMA ReadSame ==
    ASSUME NEW d, NEW e, NEW a, NEW c, NEW n \in Nat, a.size = n, c.size = n,
           \A i \in 1 .. Pages(n) : c.addr[i] = a.addr[i] /\ e[a.addr[i]] = d[a.addr[i]]
    PROVE  ReadOf(e, c) = ReadOf(d, a)
<1>1. \A p \in 1 .. n : c.addr[Cell(p)] = a.addr[Cell(p)] /\ e[a.addr[Cell(p)]] = d[a.addr[Cell(p)]]
  BY CellBound
<1> QED
  BY <1>1 DEF ReadOf

(* When all these cells hold blocks, what is read are items, one by one. *)
LEMMA ReadWhole ==
    ASSUME NEW d, NEW a, NEW n \in Nat, a.size = n, \A i \in 1 .. Pages(n) : a.addr[i] \in Blocks
    PROVE  ReadOf(d, a) = [p \in 1 .. n |-> d[a.addr[Cell(p)]][Place(p)]]
<1>1. \A p \in 1 .. n : a.addr[Cell(p)] # None
  BY CellBound, KeysType
<1> QED
  BY <1>1 DEF ReadOf

LEMMA ReadType ==
    ASSUME NEW d \in [Blocks -> [1..PageSize -> Items \cup {Blank}]], NEW a, NEW n \in Nat,
           a.size = n, \A i \in 1 .. Pages(n) : a.addr[i] \in Blocks
    PROVE  /\ ReadOf(d, a) \in Posts /\ Len(ReadOf(d, a)) = n /\ ReadOf(d, a) # None
           /\ \A p \in 1 .. n : ReadOf(d, a)[p] = d[a.addr[Cell(p)]][Place(p)]
<1>1. ReadOf(d, a) = [p \in 1 .. n |-> d[a.addr[Cell(p)]][Place(p)]]
  BY ReadWhole
<1>2. ASSUME NEW p \in 1 .. n PROVE d[a.addr[Cell(p)]][Place(p)] \in Items \cup {Blank}
  <2>1. a.addr[Cell(p)] \in Blocks /\ Place(p) \in 1 .. PageSize
    BY CellBound
  <2> QED
    BY <2>1
<1>3. ReadOf(d, a) \in Posts /\ Len(ReadOf(d, a)) = n
  <2>1. ReadOf(d, a) \in [1 .. n -> Items \cup {Blank}]
    BY <1>1, <1>2
  <2> HIDE DEF Posts
  <2> QED
    BY <2>1 DEF Posts
<1>4. None \notin Posts
  BY SpdkAssumption DEF Posts
<1> QED
  BY <1>1, <1>3, <1>4

(* A page of a value. *)
LEMMA PageItem ==
    ASSUME NEW v \in Posts, NEW f \in Nat, NEW n \in Nat, n = f * PageSize + Len(v),
           NEW p \in 1 .. n, ~(p <= f * PageSize)
    PROVE  Page(v, Cell(p) - f)[Place(p)] = v[p - f * PageSize]
<1>1. PICK c \in Nat \ {0} : c = Cell(p)
  BY CellBound
<1>2. PICK j \in 1 .. PageSize : j = Place(p)
  BY CellBound
<1>3. p = (c - 1) * PageSize + j
  BY <1>1, <1>2, PlaceBound
<1>4. PICK z \in Int : z = f * PageSize
  BY PageSizeType
<1>5. (c - f - 1) * PageSize + j = p - z
  <2>1. (c - f - 1) * PageSize = (c - 1) * PageSize - f * PageSize
    BY PageSizeType
  <2>2. (c - 1) * PageSize \in Int
    BY PageSizeType
  <2> QED
    BY <1>3, <1>4, <2>1, <2>2, PageSizeType
<1>6. p - z <= Len(v)
  <2>1. Len(v) \in Nat
    BY DEF Posts
  <2> QED
    BY <1>4, <2>1
<1>7. Page(v, c - f)[j] = v[p - z]
  BY <1>5, <1>6 DEF Page
<1> QED
  BY <1>1, <1>2, <1>4, <1>7

(* What is read after a call has filled the cells from f + 1 on. *)
WrittenIn(e, a, n, f, v, s) ==
    /\ n = f * PageSize + Len(v) /\ a.size = n
    /\ \A i \in 1 .. Pages(n) : a.addr[i] \in Blocks /\ (f < i => e[a.addr[i]] = Page(v, i - f))
    /\ \A p \in 1 .. n : IF Cell(p) <= f THEN e[a.addr[Cell(p)]][Place(p)] = s[p]
                                       ELSE s[p] = v[p - f * PageSize]

(* It is the posting s that the call promised. *)
LEMMA WrittenCells ==
    ASSUME NEW e, NEW a, NEW n \in Nat, NEW f \in Nat, NEW v \in Posts, NEW s,
           WrittenIn(e, a, n, f, v, s)
    PROVE  \A p \in 1 .. n : ReadOf(e, a)[p] = s[p]
<1> USE DEF WrittenIn
<1>1. ASSUME NEW p \in 1 .. n PROVE e[a.addr[Cell(p)]][Place(p)] = s[p]
  <2>1. Cell(p) \in 1 .. Pages(n) /\ (p <= f * PageSize <=> Cell(p) <= f)
    BY CellBound
  <2>2. CASE Cell(p) <= f
    BY <2>2
  <2>3. CASE ~(Cell(p) <= f)
    <3>1. e[a.addr[Cell(p)]] = Page(v, Cell(p) - f)
      <4>1. Cell(p) \in Nat
        BY CellBound
      <4>2. f < Cell(p)
        BY <2>3, <4>1
      <4> QED
        BY <2>1, <4>2
    <3> QED
      BY <2>1, <2>3, <3>1, PageItem
  <2> QED
    BY <2>2, <2>3
<1>2. ReadOf(e, a) = [p \in 1 .. n |-> e[a.addr[Cell(p)]][Place(p)]]
  BY ReadWhole
<1> QED
  BY <1>1, <1>2

----------------------------------------------------------------------------
(* Blocks *)

(* The blocks of a posting, and those that a writer has taken for its call. *)
Counted(k) == IF Current(k) = None THEN {} ELSE 1 .. Pages(heap[Current(k)].size)
PostingBlocks(k) == {heap[Current(k)].addr[i] : i \in Counted(k)}
Mine(t) == IF pc[t] \in {"get", "write", "release"} THEN First(loc[t]) .. loc[t].next - 1 ELSE {}
HandBlocks(t) == {heap[loc[t].arr].addr[i] : i \in Mine(t)}
Pool == {free[i] : i \in DOMAIN free}

Posted == [k \in Keys |-> PostingBlocks(k)]
Handed == [t \in Writers |-> HandBlocks(t)]

(* The pool f, the postings p and what the writers h have share the blocks. *)
SharedOut(f, p, h) ==
    /\ \A k, j \in Keys : k # j => p[k] \cap p[j] = {}
    /\ \A t, u \in Writers : t # u => h[t] \cap h[u] = {}
    /\ \A k \in Keys, t \in Writers : p[k] \cap h[t] = {}
    /\ \A k \in Keys : p[k] \cap f = {}
    /\ \A t \in Writers : h[t] \cap f = {}
    /\ \A b \in Blocks : b \in f \/ (\E k \in Keys : b \in p[k]) \/ (\E t \in Writers : b \in h[t])

(* No block is in two cells of the pool, of a posting or of a hand. *)
PoolOnce == \A i, j \in DOMAIN free : free[i] = free[j] => i = j
PostingOnce(k) == \A i, j \in Counted(k) :
    heap[Current(k)].addr[i] = heap[Current(k)].addr[j] => i = j
HandOnce(t) == \A i, j \in Mine(t) :
    heap[loc[t].arr].addr[i] = heap[loc[t].arr].addr[j] => i = j

(* A merge begins with the full blocks of the posting that it replaces. *)
Copied(p, l) ==
    /\ p \in {"get", "write", "release"} /\ l.old # None =>
          \A i \in 1 .. First(l) - 1 : heap[l.arr].addr[i] = heap[l.old].addr[i]
    /\ p = "release" => l.next = l.last + 1 /\ (l.op = "put" => First(l) = 1)
Copies == \A t \in Writers : Copied(pc[t], loc[t])

(* Pool, postings and hands share the blocks, and none is in two cells. *)
Sharing ==
    /\ SharedOut(Pool, Posted, Handed)
    /\ PoolOnce
    /\ \A k \in Keys : PostingOnce(k)
    /\ \A t \in Writers : HandOnce(t)
(* After a restart the pool has all the blocks, those of postings too: what *)
(* is copied is still exact, what is shared is not.                         *)
BlocksInv == Copies /\ (restarts = 0 => Sharing)

(* Blocks change hands: a writer takes one, or gives its own to a posting   *)
(* and those that the posting no longer has to the pool.                    *)
LEMMA TakeBlock ==
    ASSUME NEW f, NEW g, NEW p, NEW h, NEW c, SharedOut(f, p, h), NEW t \in Writers, NEW b \in Blocks,
           b \in f, g = f \ {b}, \A u \in Writers : c[u] = IF u = t THEN h[t] \cup {b} ELSE h[u]
    PROVE  SharedOut(g, p, c)
BY DEF SharedOut

LEMMA GiveBlocks ==
    ASSUME NEW f, NEW g, NEW p, NEW q, NEW h, NEW c, SharedOut(f, p, h), NEW t \in Writers,
           NEW k \in Keys, NEW R, R \subseteq p[k],
           g = f \cup R, \A j \in Keys : q[j] = IF j = k THEN (p[k] \ R) \cup h[t] ELSE p[j],
           \A u \in Writers : c[u] = IF u = t THEN {} ELSE h[u]
    PROVE  SharedOut(g, q, c)
BY DEF SharedOut

LEMMA SameBlocks ==
    ASSUME NEW f, NEW p, NEW q, NEW h, NEW c, SharedOut(f, p, h),
           \A k \in Keys : q[k] = p[k], \A u \in Writers : c[u] = h[u]
    PROVE  SharedOut(f, q, c)
BY DEF SharedOut

(* The array that holds the posting of a key that t writes, or nobody. *)
LEMMA CurrentBy ==
    ASSUME Alone, NEW t \in Writers, pc[t] # "idle"
    PROVE  Current(loc[t].key) = IF pc[t] = "swap" THEN loc[t].arr
                                 ELSE IF pc[t] \in Deleting THEN None ELSE at[loc[t].key]
<1> DEFINE k == loc[t].key
           c == CHOOSE u \in Writers : pc[u] = "swap" /\ loc[u].key = k
<1>1. \A u \in Writers : pc[u] # "idle" /\ loc[u].key = k => u = t
  BY DEF Alone
<1>3. /\ Writer(k, {"swap"}) <=> pc[t] = "swap"
      /\ Writer(k, {"spare", "unmap"}) <=> pc[t] \in Deleting
  BY <1>1 DEF Deleting, Writer
<1>4. pc[t] = "swap" => c = t
  BY <1>1
<1> QED
  BY <1>3, <1>4 DEF Current

LEMMA CurrentByNext ==
    ASSUME Alone', NEW t \in Writers, pc'[t] # "idle", NEW k, loc'[t].key = k
    PROVE  Current(k)' = IF pc'[t] = "swap" THEN loc'[t].arr
                         ELSE IF pc'[t] \in Deleting THEN None ELSE at'[k]
<1> DEFINE c == CHOOSE u \in Writers : pc'[u] = "swap" /\ loc'[u].key = k
<1>1. \A u \in Writers : pc'[u] # "idle" /\ loc'[u].key = k => u = t
  BY DEF Alone
<1>3. /\ Writer(k, {"swap"})' <=> pc'[t] = "swap"
      /\ Writer(k, {"spare", "unmap"})' <=> pc'[t] \in Deleting
  BY <1>1 DEF Deleting, Writer
<1>4. pc'[t] = "swap" => c = t
  BY <1>1
<1> QED
  BY <1>3, <1>4 DEF Current

LEMMA CurrentQuiet ==
    ASSUME NEW k, ~Locked(k)
    PROVE  Current(k) = at[k]
BY DEF Current, Locked, Writer

LEMMA CurrentQuietNext ==
    ASSUME NEW k, ~Locked(k)'
    PROVE  Current(k)' = at'[k]
BY DEF Current, Locked, Writer

(* The array of a posting is in the mapping, or with the writer that swaps. *)
LEMMA CurrentPlace ==
    ASSUME Inv, NEW k \in Keys, Current(k) # None
    PROVE  /\ Current(k) \in Arrays
           /\ \/ Current(k) = MapOf(k)
              \/ \E u \in Writers : pc[u] = "swap" /\ loc[u].key = k /\ Current(k) = Hand(u)
<1>1. at[k] \in Arrays \cup {None}
  BY DEF Inv, Types, SharedType
<1>2. CASE \E u \in Writers : pc[u] # "idle" /\ loc[u].key = k
  <2>1. PICK u \in Writers : pc[u] # "idle" /\ loc[u].key = k
    BY <1>2
  <2>2. Current(k) = IF pc[u] = "swap" THEN loc[u].arr
                     ELSE IF pc[u] \in Deleting THEN None ELSE at[k]
    BY <2>1, CurrentBy DEF Inv
  <2>3. \A v \in Writers : pc[v] = "unmap" /\ loc[v].key = k => v = u
    BY <2>1 DEF Inv, Alone
  <2>4. CASE pc[u] = "swap"
    <3>1. loc[u].arr \in Arrays /\ Hand(u) = loc[u].arr
      <4>1. Knows(pc[u], loc[u])
        BY DEF Inv, Known, Threads
      <4>2. loc[u].arr \in Arrays /\ loc[u].old \in Arrays
        BY <2>4, <4>1 DEF Knows, Replacing
      <4> QED
        BY <2>4, <4>2, KeysType DEF Hand, Replacing
    <3> QED
      BY <2>1, <2>2, <2>4, <3>1
  <2>5. CASE pc[u] # "swap"
    <3>1. pc[u] \notin Deleting /\ Current(k) = at[k]
      BY <2>2, <2>5
    <3>2. MapOf(k) = at[k]
      BY <2>3, <3>1 DEF MapOf, Deleting
    <3> QED
      BY <1>1, <3>1, <3>2
  <2> QED
    BY <2>4, <2>5
<1>3. CASE ~\E u \in Writers : pc[u] # "idle" /\ loc[u].key = k
  <2>1. ~Locked(k) /\ MapOf(k) = at[k]
    BY <1>3 DEF Locked, MapOf
  <2> QED
    BY <1>1, <2>1, CurrentQuiet
<1> QED
  BY <1>2, <1>3

(* No cell of a posting is empty, and nobody fills its array. *)
LEMMA CurrentWhole ==
    ASSUME Inv, NEW k \in Keys, Current(k) # None
    PROVE  /\ Whole(Current(k)) /\ Current(k) \in Arrays
           /\ \A u \in Writers : pc[u] \in Filling => Hand(u) # Current(k)
<1>1. OnceIn(Mapping, buffer, Hands)
  BY DEF Inv, Once
<1>2. Current(k) \in Arrays
  BY CurrentPlace
<1>3. ASSUME NEW u \in Writers, pc[u] \in Filling PROVE Hand(u) # Current(k)
  <2>1. Hands[u] = Hand(u) /\ Mapping[k] = MapOf(k)
    BY DEF Hands, Mapping
  <2>2. CASE Current(k) = MapOf(k)
    BY <1>1, <2>1, <2>2 DEF OnceIn
  <2>3. CASE \E v \in Writers : pc[v] = "swap" /\ loc[v].key = k /\ Current(k) = Hand(v)
    <3>1. PICK v \in Writers : pc[v] = "swap" /\ loc[v].key = k /\ Current(k) = Hand(v)
      BY <2>3
    <3>2. v # u /\ Hands[v] = Hand(v)
      BY <1>3, <3>1 DEF Filling, Hands
    <3> QED
      BY <1>1, <2>1, <3>1, <3>2 DEF OnceIn
  <2> QED
    BY <2>2, <2>3, CurrentPlace
<1> QED
  BY <1>2, <1>3 DEF Inv, Wholes

(* A posting whose array is left alone, and one whose value is. *)
SameDisk(k) == \A i \in Counted(k) :
    disk'[heap[Current(k)].addr[i]] = disk[heap[Current(k)].addr[i]]
SameValue(k) == SameDisk(k) => Posting(k)' = Posting(k)

LEMMA SameSize ==
    ASSUME Inv, NEW k \in Keys, Current(k)' = Current(k),
           Current(k) # None => heap'[Current(k)].size = heap[Current(k)].size,
           \A i \in Counted(k) : heap'[Current(k)].addr[i] = heap[Current(k)].addr[i]
    PROVE  SameValue(k)
<1> SUFFICES ASSUME SameDisk(k) PROVE Posting(k)' = Posting(k)
  BY DEF SameValue
<1>1. CASE Current(k) = None
  BY <1>1 DEF Posting
<1>2. CASE Current(k) # None /\ heap[Current(k)].size < 0
  BY <1>2 DEF Posting
<1>3. CASE Current(k) # None /\ ~(heap[Current(k)].size < 0)
  <2>1. PICK a : a = Current(k)
    OBVIOUS
  <2>2. PICK n : n = heap[a].size
    OBVIOUS
  <2>3. n \in Nat
    <3>1. a \in Arrays
      BY <1>3, <2>1, CurrentPlace
    <3>2. heap[a] \in Array
      BY <3>1 DEF Inv, Types, SharedType
    <3> QED
      BY <1>3, <2>1, <2>2, <3>2 DEF Array
  <2>4. \A i \in 1 .. Pages(n) : /\ heap'[a].addr[i] = heap[a].addr[i]
                                /\ disk'[heap[a].addr[i]] = disk[heap[a].addr[i]]
    BY <1>3, <2>1, <2>2 DEF Counted, SameDisk
  <2>5. heap'[a].size = n
    BY <1>3, <2>1, <2>2
  <2>6. ReadOf(disk', heap'[a]) = ReadOf(disk, heap[a])
    BY <2>2, <2>3, <2>4, <2>5, ReadSame
  <2>7. Posting(k) = ReadOf(disk, heap[a])
    BY <1>3, <2>1 DEF Posting, ReadBlocks, ReadOf, Cell, Place
  <2>8. Posting(k)' = ReadOf(disk', heap'[a])
    BY <1>3, <2>1, <2>2, <2>5 DEF Posting, ReadBlocks, ReadOf, Cell, Place
  <2> QED
    BY <2>6, <2>7, <2>8
<1> QED
  BY <1>1, <1>2, <1>3

LEMMA SamePosting ==
    ASSUME Inv, NEW k \in Keys, Current(k)' = Current(k),
           Current(k) # None => heap'[Current(k)] = heap[Current(k)]
    PROVE  /\ PostingBlocks(k)' = PostingBlocks(k)
           /\ PostingOnce(k) => PostingOnce(k)'
           /\ SameValue(k)
<1>1. Counted(k)' = Counted(k)
  BY DEF Counted, Pages
<1>2. Current(k) = None => Counted(k) = {}
  BY DEF Counted
<1>3. SameValue(k)
  BY <1>2, SameSize
<1> QED
  BY <1>1, <1>2, <1>3 DEF PostingBlocks, PostingOnce

(* And a writer whose array is. *)
LEMMA SameHand ==
    ASSUME NEW u, pc'[u] = pc[u], loc'[u] = loc[u],
           pc[u] \in {"get", "write", "release"} => heap'[loc[u].arr] = heap[loc[u].arr]
    PROVE  /\ HandBlocks(u)' = HandBlocks(u)
           /\ HandOnce(u) => HandOnce(u)'
<1>1. Mine(u)' = Mine(u)
  BY DEF Mine, First, Pages
<1>2. pc[u] \notin {"get", "write", "release"} => Mine(u) = {}
  BY DEF Mine
<1> QED
  BY <1>1, <1>2 DEF HandBlocks, HandOnce

LEMMA SameCopied ==
    ASSUME NEW u, pc'[u] = pc[u], loc'[u] = loc[u], Copied(pc[u], loc[u]),
           pc[u] \in {"get", "write", "release"} => heap'[loc[u].arr] = heap[loc[u].arr],
           pc[u] \in {"get", "write", "release"} /\ loc[u].old # None =>
                heap'[loc[u].old] = heap[loc[u].old]
    PROVE  Copied(pc[u], loc[u])'
BY DEF Copied, First, Pages

(* A key whose calls are left alone. *)
LEMMA SameCurrent ==
    ASSUME Alone, Alone', NEW k, at'[k] = at[k],
           \A u \in Writers : pc[u] # "idle" /\ loc[u].key = k => pc'[u] = pc[u] /\ loc'[u] = loc[u],
           \A u \in Writers : pc'[u] # "idle" /\ loc'[u].key = k => pc[u] # "idle" /\ loc[u].key = k
    PROVE  Current(k)' = Current(k)
<1>1. CASE \E u \in Writers : pc[u] # "idle" /\ loc[u].key = k
  <2>1. PICK u \in Writers : pc[u] # "idle" /\ loc[u].key = k
    BY <1>1
  <2>2. Current(k) = IF pc[u] = "swap" THEN loc[u].arr
                     ELSE IF pc[u] \in Deleting THEN None ELSE at[k]
    BY <2>1, CurrentBy
  <2>3. Current(k)' = IF pc'[u] = "swap" THEN loc'[u].arr
                      ELSE IF pc'[u] \in Deleting THEN None ELSE at'[k]
    BY <2>1, CurrentByNext
  <2> QED
    BY <2>1, <2>2, <2>3
<1>2. CASE ~\E u \in Writers : pc[u] # "idle" /\ loc[u].key = k
  <2>1. ~Locked(k)
    BY <1>2 DEF Locked
  <2>2. ~Locked(k)'
    BY <1>2 DEF Locked
  <2> QED
    BY <2>1, <2>2, CurrentQuiet, CurrentQuietNext
<1> QED
  BY <1>1, <1>2

(* A step of one writer and the postings and calls of the others. *)
LEMMA StepOtherPosting ==
    ASSUME Inv, Inv', NEW t \in Writers, Step(t), NEW k \in Keys \ {loc[t].key}
    PROVE  /\ PostingBlocks(k)' = PostingBlocks(k)
           /\ PostingOnce(k) => PostingOnce(k)'
           /\ SameValue(k)
<1>1. /\ Others(t) /\ pc[t] # "idle" /\ at'[k] = at[k]
      /\ pc'[t] # "idle" => loc'[t].key = loc[t].key
  <2>1. Continues(t)
    BY StepOnce DEF Inv
  <2> QED
    BY <2>1 DEF Continues
<1>2. Current(k)' = Current(k)
  <2>1. \A u \in Writers : u # t => pc'[u] = pc[u] /\ loc'[u] = loc[u]
    BY <1>1 DEF Others, Threads
  <2> QED
    BY <1>1, <2>1, SameCurrent DEF Inv
<1>3. Current(k) # None => heap'[Current(k)] = heap[Current(k)]
  <2>1. SUFFICES ASSUME Current(k) # None PROVE Current(k) \in Arrays /\ Current(k) \notin Touched(t)
    BY HeapStep DEF Inv
  <2>2. Current(k) \in Arrays
    BY <2>1, CurrentPlace
  <2>3. /\ \A u \in Writers \ {t} : Hand(u) \notin Touched(t)
        /\ \A j \in Keys \ {loc[t].key} : MapOf(j) \notin Touched(t)
    BY TouchedIsMine DEF Inv
  <2> QED
    BY <2>1, <2>2, <2>3, CurrentPlace
<1> QED
  BY <1>2, <1>3, SamePosting

LEMMA StepOtherHand ==
    ASSUME Inv, NEW t \in Writers, Step(t), NEW u \in Writers \ {t}
    PROVE  /\ HandBlocks(u)' = HandBlocks(u)
           /\ HandOnce(u) => HandOnce(u)'
           /\ Copied(pc[u], loc[u]) => Copied(pc[u], loc[u])'
<1>1. /\ pc'[u] = pc[u] /\ loc'[u] = loc[u] /\ pc[t] # "idle"
  <2>1. Continues(t)
    BY StepOnce DEF Inv
  <2> QED
    BY <2>1 DEF Continues, Others, Threads
<1>2. /\ \A v \in Writers \ {t} : Hand(v) \notin Touched(t)
      /\ \A j \in Keys \ {loc[t].key} : MapOf(j) \notin Touched(t)
      /\ \A a \in Arrays : a \notin Touched(t) => heap'[a] = heap[a]
  BY TouchedIsMine, HeapStep DEF Inv
<1>3. pc[u] # "idle" => loc[u].key \in Keys \ {loc[t].key}
  <2>1. pc[u] # "idle" => loc[u].key \in Keys
    BY CallerKnows DEF Inv
  <2> QED
    BY <1>1, <2>1 DEF Inv, Alone
<1>4. pc[u] \in {"get", "write", "release"} =>
        /\ heap'[loc[u].arr] = heap[loc[u].arr]
        /\ loc[u].old # None => heap'[loc[u].old] = heap[loc[u].old]
  <2>1. SUFFICES ASSUME pc[u] \in {"get", "write", "release"}
                 PROVE  /\ heap'[loc[u].arr] = heap[loc[u].arr]
                        /\ loc[u].old # None => heap'[loc[u].old] = heap[loc[u].old]
    OBVIOUS
  <2>2. pc[u] # "idle" /\ pc[u] \in Filling \cup Replacing
    BY <2>1 DEF Filling, Replacing
  <2>3. /\ loc[u].arr \in Arrays
        /\ loc[u].arr = MapOf(loc[u].key) \/ loc[u].arr = Hand(u)
        /\ loc[u].old # None => loc[u].old \in Arrays /\ loc[u].old = MapOf(loc[u].key)
    BY <2>2, CallArrays DEF Inv
  <2> QED
    BY <1>2, <1>3, <2>2, <2>3
<1> QED
  BY <1>1, <1>4, SameHand, SameCopied

(* The array of the posting of its own key, before and after a step. *)
LEMMA OwnCurrent ==
    ASSUME Inv, Inv', NEW t \in Writers, Step(t), NEW k, k = loc[t].key
    PROVE  /\ k \in Keys
           /\ Current(k) = IF pc[t] = "swap" THEN loc[t].arr
                           ELSE IF pc[t] \in Deleting THEN None ELSE at[k]
           /\ Current(k)' = IF pc'[t] = "swap" THEN loc'[t].arr
                            ELSE IF pc'[t] \in Deleting THEN None ELSE at'[k]
<1>1. /\ Others(t) /\ pc[t] # "idle" /\ (pc'[t] # "idle" => loc'[t].key = k)
  <2>1. Continues(t)
    BY StepOnce DEF Inv
  <2> QED
    BY <2>1 DEF Continues
<1>2. k \in Keys
  BY <1>1, CallerKnows DEF Inv
<1>3. pc'[t] = "idle" => ~Locked(k)'
  BY <1>1 DEF Inv, Alone, Locked, Others, Threads
<1>4. pc'[t] = "idle" => Current(k)' = at'[k] /\ pc'[t] \notin Deleting
  BY <1>3, CurrentQuietNext DEF Deleting
<1>5. pc'[t] # "idle" => Current(k)' = IF pc'[t] = "swap" THEN loc'[t].arr
                                       ELSE IF pc'[t] \in Deleting THEN None ELSE at'[k]
  BY <1>1, CurrentByNext DEF Inv
<1> QED
  BY <1>1, <1>2, <1>4, <1>5, CurrentBy DEF Inv

(* What a writer has before the first block, and after the last. *)
LEMMA NothingInHand ==
    ASSUME NEW t, pc[t] \notin {"get", "write", "release"}
    PROVE  HandBlocks(t) = {} /\ HandOnce(t) /\ Copied(pc[t], loc[t])
BY DEF HandBlocks, HandOnce, Mine, Copied

LEMMA NothingYet ==
    ASSUME NEW t, loc[t] \in Local, loc[t].next = First(loc[t])
    PROVE  HandBlocks(t) = {} /\ HandOnce(t)
<1>1. First(loc[t]) .. loc[t].next - 1 = {}
  BY RangeTypes
<1> QED
  BY <1>1 DEF HandBlocks, HandOnce, Mine

LEMMA NothingInHandNext ==
    ASSUME NEW t, pc'[t] \notin {"get", "write", "release"}
    PROVE  HandBlocks(t)' = {} /\ HandOnce(t)' /\ Copied(pc[t], loc[t])'
BY DEF HandBlocks, HandOnce, Mine, Copied

LEMMA NothingYetNext ==
    ASSUME NEW t, loc'[t] \in Local, loc'[t].next = First(loc'[t])
    PROVE  HandBlocks(t)' = {} /\ HandOnce(t)'
<1>1. First(loc'[t]) .. loc'[t].next - 1 = {}
  BY RangeTypes
<1>2. Mine(t)' = IF pc'[t] \in {"get", "write", "release"}
                 THEN First(loc'[t]) .. loc'[t].next - 1 ELSE {}
  BY DEF Mine, First, Pages
<1>3. Mine(t)' = {}
  BY <1>1, <1>2
<1> QED
  BY <1>3 DEF HandBlocks, HandOnce

(* The steps that move no block. *)
Moveless(t) ==
    Grow(t) \/ Slot(t) \/ Pop(t) \/ Swap(t) \/ Recycle(t) \/ DeleteSpare(t) \/ DeleteUnmap(t)

LEMMA MovelessHand ==
    ASSUME Inv, Inv', NEW t \in Writers, Moveless(t)
    PROVE  /\ HandBlocks(t) = {} /\ HandBlocks(t)' = {}
           /\ HandOnce(t)' /\ Copied(pc[t], loc[t])' /\ free' = free /\ restarts' = restarts
<1>1. pc[t] \notin {"get", "write", "release"} /\ free' = free /\ restarts' = restarts
  BY DEF Moveless, Grow, Slot, Pop, Swap, Recycle, DeleteSpare, DeleteUnmap
<1>2. CASE Grow(t) \/ Swap(t) \/ Recycle(t) \/ DeleteSpare(t) \/ DeleteUnmap(t)
  <2>1. pc'[t] \notin {"get", "write", "release"}
    <3>1. Grow(t) => pc'[t] = "slot"
      BY GrowFrame DEF Inv
    <3>2. Swap(t) => pc'[t] = "recycle"
      <4>1. Swap(t) => Knows(pc[t], loc[t])
        BY CallerKnows DEF Inv
      <4>2. Swap(t) => loc[t].key \in Keys
        BY <4>1 DEF Knows, Swap, Calling, Replacing
      <4> QED
        BY <4>2, SwapFrame DEF Inv
    <3>3. DeleteSpare(t) => pc'[t] = "unmap"
      BY DeleteSpareFrame DEF Inv
    <3>4. Recycle(t) \/ DeleteUnmap(t) => pc'[t] = "idle"
      BY EndFrame DEF Inv
    <3> QED
      BY <1>2, <3>1, <3>2, <3>3, <3>4
  <2> QED
    BY <1>1, <2>1, NothingInHand, NothingInHandNext
<1>3. ASSUME NEW l, l = loc'[t], CallKept(t), l.next = loc[t].next, l \in Local,
             pc[t] \in Growing \cup {"pop"}
      PROVE  HandBlocks(t)' = {} /\ HandOnce(t)'
  <2>1. Ranges(pc[t], loc[t])
    BY DEF Inv, Fitting, Fits
  <2>2. loc[t].next = First(loc[t])
    BY <1>3, <2>1 DEF Ranges
  <2> QED
    BY <1>3, <2>2, SameRange, NothingYetNext
<1>4. CASE Slot(t)
  <2>1. /\ SlotArray(t) \in Arrays /\ pc[t] = "slot" /\ Knows(pc[t], loc[t])
    BY <1>4, StepOnce, CallerKnows DEF Inv, Step, Slot
  <2>2. /\ CallKept(t) /\ loc'[t].next = loc[t].next /\ loc'[t] \in Local
        /\ loc'[t].old = loc[t].old \/ pc'[t] = "pop"
        /\ pc'[t] \in {"get", "write", "pop"}
    BY <1>4, <2>1, SlotFrame DEF Inv, Fills
  <2>3. loc[t].old = None
    BY <2>1 DEF Knows, Growing
  <2>4. Copied(pc[t], loc[t])'
    BY <2>2, <2>3 DEF Copied
  <2> QED
    BY <1>1, <1>3, <2>1, <2>2, <2>4, NothingInHand DEF Growing
<1>5. CASE Pop(t)
  <2>1. /\ CallKept(t) /\ loc'[t].next = loc[t].next /\ loc'[t].old = loc[t].old
        /\ loc'[t].arr = Head(buffer) /\ Fills(t) /\ loc'[t] \in Local /\ pc[t] = "pop"
    BY <1>5, PopFrame DEF Inv, Pop
  <2>2. /\ heap'[loc[t].old] = heap[loc[t].old] /\ loc[t] \in Local
        /\ \A i \in Cells : i < loc[t].next => heap'[Head(buffer)].addr[i] = heap[loc[t].old].addr[i]
    BY <1>5, PopHeap, CallerKnows DEF Inv
  <2>3. First(loc'[t]) = loc[t].next /\ loc[t].last < BlockLimit
    <3>1. Ranges(pc[t], loc[t])
      BY DEF Inv, Fitting, Fits
    <3> QED
      BY <2>1, <3>1, SameRange DEF Ranges
  <2>4. \A i \in 1 .. First(loc'[t]) - 1 :
            heap'[loc'[t].arr].addr[i] = heap'[loc'[t].old].addr[i]
    <3>1. ASSUME NEW i \in 1 .. First(loc'[t]) - 1 PROVE i \in Cells /\ i < loc[t].next
      <4>1. loc[t].next \in Nat /\ loc[t].next <= loc[t].last + 1 /\ loc[t].last \in Nat
        BY <2>1, <2>2, <2>3, RangeTypes, SameRange
      <4> HIDE DEF First
      <4> QED
        BY <2>3, <4>1, PageSizeType DEF Cells
    <3> QED
      BY <2>1, <2>2, <3>1
  <2>5. Copied(pc[t], loc[t])'
    <3>1. First(loc[t])' = First(loc'[t])
      BY DEF First, Pages
    <3> QED
      BY <2>1, <2>4, <3>1 DEF Copied, Fills
  <2> QED
    BY <1>1, <1>3, <2>1, <2>5, NothingInHand
<1> QED
  BY <1>2, <1>4, <1>5 DEF Moveless

LEMMA MovelessPosting ==
    ASSUME Inv, Inv', NEW t \in Writers, Moveless(t), NEW k, k = loc[t].key
    PROVE  /\ PostingBlocks(k)' = PostingBlocks(k) /\ (PostingOnce(k) => PostingOnce(k)')
           /\ SameValue(k)
<1>1. /\ Step(t) /\ Knows(pc[t], loc[t])
  BY CallerKnows DEF Moveless, Step, Inv
<1>2. /\ k \in Keys
      /\ Current(k) = IF pc[t] = "swap" THEN loc[t].arr
                      ELSE IF pc[t] \in Deleting THEN None ELSE at[k]
      /\ Current(k)' = IF pc'[t] = "swap" THEN loc'[t].arr
                       ELSE IF pc'[t] \in Deleting THEN None ELSE at'[k]
  BY <1>1, OwnCurrent
<1>3. CASE Grow(t)
  <2>1. pc[t] = "grow" /\ pc'[t] = "slot" /\ at' = at /\ heap' = heap
    BY <1>3, GrowFrame DEF Inv, Grow
  <2> QED
    BY <1>2, <2>1, SamePosting DEF Deleting
<1>4. CASE Slot(t) /\ at[k] # None
  <2>1. pc[t] = "slot" /\ at' = at /\ heap' = heap
    BY <1>4 DEF Slot
  <2>2. pc'[t] \in {"get", "write", "pop"}
    BY <1>1, <1>4, StepOnce, SlotFrame DEF Inv, Fills
  <2> QED
    BY <1>2, <2>1, <2>2, SamePosting DEF Deleting
<1>5. CASE Slot(t) /\ at[k] = None
  <2>1. pc[t] = "slot" /\ SlotArray(t) \in Arrays /\ at'[k] = SlotArray(t)
    BY <1>1, <1>5, StepOnce DEF Inv, Slot
  <2>2. pc'[t] \in {"get", "write", "pop"}
    BY <1>1, <1>5, StepOnce, SlotFrame DEF Inv, Fills
  <2>3. heap'[SlotArray(t)] = NoArray
    <3>1. heap' = [heap EXCEPT ![SlotArray(t)] = NoArray]
      BY <1>5 DEF Slot, SlotArray
    <3> QED
      BY <2>1, <3>1 DEF Inv, Types, SharedType
  <2>4. Current(k) = None /\ Current(k)' = SlotArray(t)
    BY <1>2, <1>5, <2>1, <2>2 DEF Deleting
  <2>5. Counted(k) = {} /\ Counted(k)' = {}
    <3>1. 1 .. Pages(NoArray.size) = {}
      <4>1. Pages(NoArray.size) \in Int
        BY PagesBound DEF NoArray
      <4> QED
        BY <4>1, NoArrayWhole
    <3>2. Counted(k)' = IF Current(k)' = None THEN {} ELSE 1 .. Pages(heap'[Current(k)'].size)
      BY DEF Counted, Pages
    <3> QED
      BY <2>3, <2>4, <3>1, <3>2 DEF Counted
  <2>6. Posting(k) = None
    BY <2>4 DEF Posting
  <2>7. Posting(k)' = None
    <3>2. Current(k)' # None /\ heap'[Current(k)'].size < 0
      BY <2>1, <2>3, <2>4, KeysType DEF NoArray
    <3> QED
      BY <3>2 DEF Posting
  <2> QED
    BY <2>5, <2>6, <2>7 DEF PostingBlocks, PostingOnce, SameValue
<1>6. CASE Pop(t)
  <2>1. pc[t] = "pop" /\ at' = at /\ pc'[t] \in {"get", "write"}
    BY <1>6, PopFrame DEF Inv, Pop, Fills
  <2>2. loc[t].old = at[k] /\ heap'[loc[t].old] = heap[loc[t].old]
    BY <1>6, PopHeap
  <2> QED
    BY <1>2, <2>1, <2>2, SamePosting DEF Deleting
<1>7. CASE Swap(t)
  <2>1. pc[t] = "swap" /\ at'[k] = loc[t].arr /\ heap' = heap /\ pc'[t] = "recycle"
    <3>1. at' = [at EXCEPT ![k] = loc[t].arr]
      BY <1>7 DEF Swap
    <3>2. at'[k] = loc[t].arr
      BY <1>2, <3>1 DEF Inv, Types, SharedType
    <3> QED
      BY <1>2, <1>7, <3>2, SwapFrame DEF Swap, Inv
  <2> QED
    BY <1>2, <2>1, SamePosting DEF Deleting
<1>8. CASE Recycle(t)
  <2>1. pc[t] = "recycle" /\ at' = at /\ heap' = heap /\ pc'[t] = "idle"
    BY <1>8, EndFrame DEF Inv, Recycle
  <2> QED
    BY <1>2, <2>1, SamePosting DEF Deleting
<1>9. CASE DeleteSpare(t)
  <2>1. pc[t] = "spare" /\ pc'[t] = "unmap" /\ heap' = heap
    BY <1>9, DeleteSpareFrame DEF Inv, DeleteSpare
  <2> QED
    BY <1>2, <2>1, SamePosting DEF Deleting
<1>10. CASE DeleteUnmap(t)
  <2>1. pc[t] = "unmap" /\ pc'[t] = "idle" /\ heap' = heap /\ at'[k] = None
    <3>1. at' = [at EXCEPT ![k] = None]
      BY <1>10 DEF DeleteUnmap
    <3>2. at'[k] = None
      BY <1>2, <3>1 DEF Inv, Types, SharedType
    <3> QED
      BY <1>10, <3>2, EndFrame DEF Inv, DeleteUnmap
  <2> QED
    BY <1>2, <2>1, SamePosting DEF Deleting
<1> QED
  BY <1>3, <1>4, <1>5, <1>6, <1>7, <1>8, <1>9, <1>10 DEF Moveless

(* Blocks that are put at the end of the pool. *)
LEMMA PoolGrows ==
    ASSUME NEW f \in Seq(Blocks), NEW s \in Seq(Blocks),
           \A i, j \in DOMAIN f : f[i] = f[j] => i = j,
           \A i, j \in DOMAIN s : s[i] = s[j] => i = j,
           \A i \in DOMAIN f, j \in DOMAIN s : f[i] # s[j]
    PROVE  /\ \A i, j \in DOMAIN (f \o s) : (f \o s)[i] = (f \o s)[j] => i = j
           /\ {(f \o s)[i] : i \in DOMAIN (f \o s)} =
                {f[i] : i \in DOMAIN f} \cup {s[j] : j \in DOMAIN s}
<1> DEFINE g == f \o s
<1>1. /\ Len(f) \in Nat /\ Len(s) \in Nat /\ DOMAIN f = 1 .. Len(f) /\ DOMAIN s = 1 .. Len(s)
      /\ DOMAIN g = 1 .. Len(f) + Len(s)
      /\ \A i \in 1 .. Len(f) : g[i] = f[i]
      /\ \A i \in Len(f) + 1 .. Len(f) + Len(s) : g[i] = s[i - Len(f)]
  OBVIOUS
<1> HIDE DEF g
<1>2. /\ \A i \in DOMAIN f : i \in DOMAIN g /\ g[i] = f[i]
      /\ \A j \in DOMAIN s : j + Len(f) \in DOMAIN g /\ g[j + Len(f)] = s[j]
      /\ \A i \in DOMAIN g : \/ i \in DOMAIN f /\ g[i] = f[i]
                             \/ i - Len(f) \in DOMAIN s /\ g[i] = s[i - Len(f)]
  BY <1>1
<1>3. \A i, j \in DOMAIN g : g[i] = g[j] => i = j
  BY <1>1, <1>2
<1>4. {g[i] : i \in DOMAIN g} = {f[i] : i \in DOMAIN f} \cup {s[j] : j \in DOMAIN s}
  BY <1>2
<1> QED
  BY <1>3, <1>4 DEF g

(* And one that is taken from its head. *)
LEMMA PoolShrinks ==
    ASSUME NEW f \in Seq(Blocks), f # <<>>, \A i, j \in DOMAIN f : f[i] = f[j] => i = j
    PROVE  /\ \A i, j \in DOMAIN Tail(f) : Tail(f)[i] = Tail(f)[j] => i = j
           /\ Head(f) \in {f[i] : i \in DOMAIN f}
           /\ {Tail(f)[i] : i \in DOMAIN Tail(f)} = {f[i] : i \in DOMAIN f} \ {Head(f)}
<1> DEFINE g == Tail(f)
           b == Head(f)
<1>1. /\ Len(f) \in Nat \ {0} /\ DOMAIN f = 1 .. Len(f) /\ b = f[1]
      /\ DOMAIN g = 1 .. Len(f) - 1
      /\ \A i \in DOMAIN g : i + 1 \in DOMAIN f /\ g[i] = f[i + 1]
      /\ \A i \in DOMAIN f : i = 1 \/ (i - 1 \in DOMAIN g /\ f[i] = g[i - 1])
  BY TailCells
<1> HIDE DEF g, b
<1>2. \A i, j \in DOMAIN g : g[i] = g[j] => i = j
  BY <1>1
<1>3. 1 \in DOMAIN f /\ \A i \in DOMAIN g : g[i] # b
  BY <1>1
<1>4. {g[i] : i \in DOMAIN g} \subseteq {f[i] : i \in DOMAIN f} \ {b}
  BY <1>1, <1>3
<1>5. ASSUME NEW x \in {f[i] : i \in DOMAIN f} \ {b} PROVE x \in {g[i] : i \in DOMAIN g}
  BY <1>1
<1> QED
  BY <1>1, <1>2, <1>3, <1>4, <1>5 DEF g, b

(* The blocks of a whole array from a cell on. *)
LEMMA UsedBlocks ==
    ASSUME Inv, NEW a \in Arrays, Whole(a), NEW i \in Nat \ {0},
           \A j, m \in 1 .. Pages(heap[a].size) : heap[a].addr[j] = heap[a].addr[m] => j = m
    PROVE  /\ UsedFrom(heap[a], i) \in Seq(Blocks)
           /\ {UsedFrom(heap[a], i)[j] : j \in DOMAIN UsedFrom(heap[a], i)} =
                {heap[a].addr[j] : j \in i .. Pages(heap[a].size)}
           /\ \A j, m \in DOMAIN UsedFrom(heap[a], i) :
                UsedFrom(heap[a], i)[j] = UsedFrom(heap[a], i)[m] => j = m
<1> DEFINE s == UsedFrom(heap[a], i)
           n == Pages(heap[a].size)
           c == heap[a].addr
<1>1. /\ s \in Seq(Blocks) /\ Len(s) = IF i <= n THEN n - i + 1 ELSE 0
      /\ \A j \in 1 .. Len(s) : s[j] = c[i + j - 1]
  BY UsedFromType
<1>2. n \in Int
  <2>1. heap[a].size \in Int
    BY DEF Inv, Types, SharedType, Array
  <2> QED
    BY <2>1, PagesBound
<1>3. \A j, m \in 1 .. n : c[j] = c[m] => j = m
  OBVIOUS
<1> HIDE DEF s, n, c
<1>4. DOMAIN s = 1 .. Len(s) /\ Len(s) \in Nat
  BY <1>1
<1>5. /\ \A j \in DOMAIN s : i + j - 1 \in i .. n /\ i + j - 1 \in 1 .. n /\ s[j] = c[i + j - 1]
      /\ \A m \in i .. n : m - i + 1 \in DOMAIN s /\ s[m - i + 1] = c[m]
  BY <1>1, <1>2, <1>4
<1>6. {s[j] : j \in DOMAIN s} = {c[j] : j \in i .. n}
  BY <1>5
<1>7. \A j, m \in DOMAIN s : s[j] = s[m] => j = m
  <2> SUFFICES ASSUME NEW j \in DOMAIN s, NEW m \in DOMAIN s, s[j] = s[m] PROVE j = m
    OBVIOUS
  <2>1. i + j - 1 = i + m - 1
    BY <1>3, <1>5
  <2> QED
    BY <1>4, <2>1
<1> QED
  BY <1>1, <1>6, <1>7 DEF s, n, c

(* A call in place fills the cells after those of the posting. *)
LEMMA InPlace ==
    ASSUME Inv, NEW t \in Writers, pc[t] \in Filling, loc[t].old = None
    PROVE  /\ Current(loc[t].key) = loc[t].arr
           /\ Counted(loc[t].key) = 1 .. First(loc[t]) - 1
<1> DEFINE n == heap[loc[t].arr].size
<1>1. /\ Ranges(pc[t], loc[t]) /\ Filled(pc[t], loc[t]) /\ Replaces(pc[t], loc[t])
      /\ Knows(pc[t], loc[t]) /\ loc[t] \in Local /\ loc[t].arr \in Arrays /\ None \notin Arrays
  <2>1. Knows(pc[t], loc[t]) /\ loc[t] \in Local
    BY CallerKnows DEF Inv
  <2> QED
    BY <2>1, KeysType DEF Inv, Fitting, Fits, Knows
<1>2. Current(loc[t].key) = loc[t].arr
  BY <1>1, CurrentBy DEF Inv, Knows, Filling, Deleting
<1>3. loc[t].op \in {"put", "merge"} /\ n \in Nat \cup {-1}
  BY <1>1 DEF Knows, Inv, Types, SharedType, Array
<1>4. Counted(loc[t].key) = 1 .. Pages(n)
  BY <1>1, <1>2 DEF Counted
<1>5. CASE loc[t].op = "put"
  <2>1. First(loc[t]) = 1 /\ n = -1
    BY <1>1, <1>5 DEF Ranges, Filled
  <2>2. Pages(n) <= 0 /\ Pages(n) \in Int
    BY <2>1, NoArrayWhole, PagesBound DEF NoArray
  <2> HIDE DEF n
  <2>3. 1 .. Pages(n) = {} /\ 1 .. First(loc[t]) - 1 = {}
    BY <2>1, <2>2
  <2> QED
    BY <1>2, <1>4, <2>3
<1>6. CASE loc[t].op = "merge"
  <2>1. n >= 0 /\ First(loc[t]) = (n \div PageSize) + 1 /\ n % PageSize = 0
    BY <1>1, <1>6 DEF Replaces, Extends
  <2>2. n \in Nat
    BY <1>3, <2>1
  <2> HIDE DEF n
  <2>3. Pages(n) = n \div PageSize /\ n \div PageSize \in Nat
    BY <2>1, <2>2, PagesRest
  <2>4. Pages(n) = First(loc[t]) - 1
    BY <2>1, <2>3
  <2> QED
    BY <1>2, <1>4, <2>4
<1> QED
  BY <1>3, <1>5, <1>6

(* The cells of a call: Mine is First .. next - 1. *)
LEMMA CallCells ==
    ASSUME Inv, NEW t \in Writers, pc[t] \in {"get", "write", "release"}
    PROVE  /\ loc[t] \in Local /\ loc[t].arr \in Arrays
           /\ First(loc[t]) \in Nat \ {0} /\ loc[t].next \in Nat \ {0} /\ loc[t].last \in Nat
           /\ Mine(t) = First(loc[t]) .. loc[t].next - 1
           /\ pc[t] = "get" => First(loc[t]) <= loc[t].next /\ loc[t].next <= loc[t].last
           /\ First(loc[t]) <= loc[t].last + 1
<1>1. Ranges(pc[t], loc[t]) /\ Knows(pc[t], loc[t]) /\ loc[t] \in Local
  BY CallerKnows DEF Inv, Fitting, Fits
<1>2. loc[t].arr \in Arrays /\ First(loc[t]) >= 1
  BY <1>1 DEF Knows, Ranges, Filling, Replacing
<1>3. Mine(t) = First(loc[t]) .. loc[t].next - 1
  BY DEF Mine
<1>4. pc[t] = "get" => First(loc[t]) <= loc[t].next /\ loc[t].next <= loc[t].last
  BY <1>1 DEF Ranges
<1>5. First(loc[t]) \in Int /\ First(loc[t]) <= loc[t].last + 1
      /\ loc[t].next \in Nat \ {0} /\ loc[t].last \in Nat
  BY <1>1, RangeTypes
<1> QED
  BY <1>1, <1>2, <1>3, <1>4, <1>5

(* What a step of t on k leaves to the other keys and writers. *)
LeavesOthers(t, k) ==
    /\ k \in Keys
    /\ \A j \in Keys \ {k} : /\ Posted'[j] = Posted[j] /\ (PostingOnce(j) => PostingOnce(j)')
                             /\ SameValue(j)
    /\ \A u \in Writers \ {t} : /\ Handed'[u] = Handed[u] /\ (HandOnce(u) => HandOnce(u)')
                                /\ Copied(pc[u], loc[u])'
    /\ Posted[k] = PostingBlocks(k) /\ Posted'[k] = PostingBlocks(k)'
    /\ Handed[t] = HandBlocks(t) /\ Handed'[t] = HandBlocks(t)'

LEMMA OthersShare ==
    ASSUME Inv, Inv', Copies, NEW t \in Writers, Step(t), NEW k, k = loc[t].key
    PROVE  LeavesOthers(t, k)
<1>1. k \in Keys
  BY OwnCurrent
<1>2. /\ \A j \in Keys : Posted[j] = PostingBlocks(j) /\ Posted'[j] = PostingBlocks(j)'
      /\ \A u \in Writers : Handed[u] = HandBlocks(u) /\ Handed'[u] = HandBlocks(u)'
  BY DEF Posted, Handed
<1>3. \A j \in Keys \ {k} : /\ PostingBlocks(j)' = PostingBlocks(j) /\ (PostingOnce(j) => PostingOnce(j)')
                            /\ SameValue(j)
  BY StepOtherPosting
<1>4. \A u \in Writers \ {t} : /\ HandBlocks(u)' = HandBlocks(u) /\ (HandOnce(u) => HandOnce(u)')
                               /\ Copied(pc[u], loc[u])'
  BY StepOtherHand DEF Copies
<1> QED
  BY <1>1, <1>2, <1>3, <1>4 DEF LeavesOthers

(* Sharing again, from the step of one writer and the rest left alone. *)
LEMMA SharesAll ==
    ASSUME Sharing, NEW t, NEW k, LeavesOthers(t, k), SharedOut(Pool', Posted', Handed'),
           PoolOnce', PostingOnce(k)', HandOnce(t)'
    PROVE  Sharing'
<1>1. \A j \in Keys : PostingOnce(j)'
  BY DEF Sharing, LeavesOthers
<1>2. \A u \in Writers : HandOnce(u)'
  BY DEF Sharing, LeavesOthers
<1>3. SharedOut(Pool, Posted, Handed)'
  BY DEF SharedOut
<1> QED
  BY <1>1, <1>2, <1>3 DEF Sharing

(* Steps that move no block. *)
LEMMA MovelessShares ==
    ASSUME Inv, Inv', Copies, NEW t \in Writers, Moveless(t)
    PROVE  Copied(pc[t], loc[t])' /\ (Sharing => Sharing')
<1>1. Step(t)
  BY DEF Moveless, Step
<1>2. PICK k : k = loc[t].key
  OBVIOUS
<1>3. /\ HandBlocks(t) = {} /\ HandBlocks(t)' = {} /\ HandOnce(t)' /\ Copied(pc[t], loc[t])'
      /\ free' = free
      /\ PostingBlocks(k)' = PostingBlocks(k) /\ (PostingOnce(k) => PostingOnce(k)')
  BY <1>2, MovelessHand, MovelessPosting
<1>4. ASSUME Sharing PROVE Sharing'
  <2>1. Pool' = Pool /\ PoolOnce'
    BY <1>3, <1>4 DEF Sharing, Pool, PoolOnce
  <2>2. /\ \A j \in Keys : Posted'[j] = Posted[j]
        /\ \A u \in Writers : Handed'[u] = Handed[u]
    <3>1. LeavesOthers(t, k)
      BY <1>1, <1>2, OthersShare
    <3> QED
      BY <1>3, <3>1 DEF LeavesOthers
  <2>3. SharedOut(Pool, Posted, Handed)
    BY <1>4 DEF Sharing
  <2>4. SharedOut(Pool', Posted', Handed')
    BY <2>1, <2>2, <2>3, SameBlocks
  <2>5. PostingOnce(k)'
    BY <1>1, <1>2, <1>3, <1>4, OthersShare DEF LeavesOthers, Sharing
  <2> QED
    BY <1>1, <1>2, <1>3, <1>4, <2>1, <2>4, <2>5, SharesAll, OthersShare
<1> QED
  BY <1>3, <1>4

(* A block of the pool goes to the next cell. *)
LEMMA GetBlockShares ==
    ASSUME Inv, Inv', Copies, NEW t \in Writers, GetBlock(t)
    PROVE  Copied(pc[t], loc[t])' /\ (Sharing => Sharing') /\ SameValue(loc[t].key)
<1> DEFINE a == loc[t].arr
           n == loc[t].next
           b == Head(free)
           f == First(loc[t])
<1>1. PICK k : k = loc[t].key
  OBVIOUS
<1>2. /\ Step(t) /\ pc[t] = "get" /\ free # <<>> /\ free' = Tail(free) /\ at' = at
      /\ Knows(pc[t], loc[t]) /\ Replaces(pc[t], loc[t]) /\ free \in Seq(Blocks)
  BY CallerKnows DEF Inv, GetBlock, Step, Fitting, Fits, Types, SharedType
<1>3. /\ loc'[t].arr = a /\ loc'[t].old = loc[t].old /\ loc'[t].next = n + 1
      /\ First(loc'[t]) = f /\ pc'[t] \in {"get", "write"} /\ loc'[t] \in Local
  BY GetBlockFrame, SameRange DEF Inv, Fills
<1>4. /\ a \in Arrays /\ n \in Cells /\ b \in Blocks
      /\ \A c \in Arrays : c # a => heap'[c] = heap[c]
      /\ heap'[a].size = heap[a].size /\ heap'[a].addr[n] = b
      /\ \A i \in Cells : i # n => heap'[a].addr[i] = heap[a].addr[i]
  BY GetBlockHeap
<1>5. /\ f \in Nat \ {0} /\ n \in Nat \ {0} /\ f <= n /\ Mine(t) = f .. n - 1
      /\ n <= BlockLimit - 1 /\ BlockLimit \in Nat
  BY <1>2, <1>4, CallCells, PageSizeType DEF Cells
<1>6. Mine(t)' = f .. n
  <2>1. Mine(t)' = First(loc'[t]) .. loc'[t].next - 1
    BY <1>3 DEF Mine, First, Pages
  <2> QED
    BY <1>3, <1>5, <2>1
<1>7. loc[t].old # None => a # loc[t].old /\ loc[t].old \in Arrays /\ heap'[loc[t].old] = heap[loc[t].old]
  BY <1>2, <1>4, ArrIsNotOld DEF Filling
<1> HIDE DEF a, n, b, f
<1>8. \A i \in 1 .. f - 1 : i \in Cells /\ i # n
  BY <1>5 DEF Cells
<1>9. \A i \in f .. n - 1 : i \in Cells /\ i # n
  BY <1>5 DEF Cells
<1>10. Copied(pc[t], loc[t])'
  <2>1. Copied(pc[t], loc[t])
    BY DEF Copies
  <2>2. loc[t].old # None => \A i \in 1 .. f - 1 : heap[a].addr[i] = heap[loc[t].old].addr[i]
    BY <1>2, <2>1 DEF Copied, a, f
  <2>3. First(loc[t])' = First(loc'[t])
    BY DEF First, Pages
  <2>4. loc'[t].old # None =>
            \A i \in 1 .. First(loc'[t]) - 1 : heap'[loc'[t].arr].addr[i] = heap'[loc'[t].old].addr[i]
    BY <1>3, <1>4, <1>7, <1>8, <2>2
  <2> QED
    BY <1>3, <2>3, <2>4 DEF Copied
<1>11. Current(k) = at[k] /\ Current(k)' = at[k]
  BY <1>1, <1>2, <1>3, OwnCurrent DEF Deleting
<1>16. k \in Keys
  BY <1>1, <1>2, OwnCurrent
<1>12. /\ PostingBlocks(k)' = PostingBlocks(k) /\ (PostingOnce(k) => PostingOnce(k)')
       /\ SameValue(k)
  <2>1. CASE loc[t].old # None
    <3>1. at[k] = loc[t].old
      BY <1>1, <1>2, <2>1 DEF Knows, Filling
    <3> QED
      BY <1>7, <1>11, <1>16, <2>1, <3>1, SamePosting
  <2>2. CASE loc[t].old = None
    <3>1. Current(k) = a /\ Counted(k) = 1 .. f - 1
      BY <1>1, <1>2, <2>2, InPlace DEF Filling, a, f
    <3>2. Counted(k)' = Counted(k)
      <4>1. Counted(k)' = IF Current(k)' = None THEN {} ELSE 1 .. Pages(heap'[Current(k)'].size)
        BY DEF Counted, Pages
      <4> QED
        BY <1>4, <1>11, <3>1, <4>1 DEF Counted
    <3>3. \A i \in Counted(k) : heap'[Current(k)'].addr[i] = heap[Current(k)].addr[i]
      BY <1>4, <1>8, <1>11, <3>1
    <3>4. SameValue(k)
      BY <1>4, <1>11, <1>16, <3>1, <3>3, SameSize
    <3> QED
      BY <3>2, <3>3, <3>4 DEF PostingBlocks, PostingOnce
  <2> QED
    BY <2>1, <2>2
<1>13. HandBlocks(t)' = HandBlocks(t) \cup {b}
  <2>1. HandBlocks(t)' = {heap'[a].addr[i] : i \in f .. n}
    BY <1>3, <1>6 DEF HandBlocks
  <2>2. HandBlocks(t) = {heap[a].addr[i] : i \in f .. n - 1}
    BY <1>5 DEF HandBlocks, a
  <2>3. \A i : i \in f .. n <=> i \in f .. n - 1 \/ i = n
    BY <1>5
  <2> QED
    BY <1>4, <1>9, <2>1, <2>2, <2>3
<1>14. ASSUME Sharing PROVE Sharing'
  <2>1. SharedOut(Pool, Posted, Handed) /\ PoolOnce /\ PostingOnce(k) /\ HandOnce(t) /\ k \in Keys
    BY <1>1, <1>2, <1>14, OthersShare DEF LeavesOthers, Sharing
  <2>3. b \in Pool /\ Pool' = Pool \ {b} /\ PoolOnce'
    <3>1. \A i, j \in DOMAIN free : free[i] = free[j] => i = j
      BY <2>1 DEF PoolOnce
    <3>2. /\ \A i, j \in DOMAIN Tail(free) : Tail(free)[i] = Tail(free)[j] => i = j
          /\ Head(free) \in {free[i] : i \in DOMAIN free}
          /\ {Tail(free)[i] : i \in DOMAIN Tail(free)} = {free[i] : i \in DOMAIN free} \ {Head(free)}
      BY <1>2, <3>1, PoolShrinks
    <3>3. /\ \A i, j \in DOMAIN free' : free'[i] = free'[j] => i = j
          /\ {free'[i] : i \in DOMAIN free'} = {free[i] : i \in DOMAIN free} \ {b}
          /\ b \in {free[i] : i \in DOMAIN free}
      BY <1>2, <3>2 DEF b
    <3> QED
      BY <3>3 DEF Pool, PoolOnce
  <2>4. /\ \A j \in Keys : Posted'[j] = Posted[j]
        /\ \A u \in Writers : Handed'[u] = IF u = t THEN Handed[t] \cup {b} ELSE Handed[u]
    <3>1. /\ \A j \in Keys \ {k} : Posted'[j] = Posted[j]
          /\ \A u \in Writers \ {t} : Handed'[u] = Handed[u]
          /\ Posted[k] = PostingBlocks(k) /\ Posted'[k] = PostingBlocks(k)'
          /\ Handed[t] = HandBlocks(t) /\ Handed'[t] = HandBlocks(t)'
      BY <1>1, <1>2, OthersShare DEF LeavesOthers
    <3> QED
      BY <1>12, <1>13, <3>1
  <2>5. SharedOut(Pool', Posted, Handed')
    BY <1>4, <2>1, <2>3, <2>4, TakeBlock
  <2>6. SharedOut(Pool', Posted', Handed')
    BY <2>4, <2>5, SameBlocks
  <2>7. b \notin HandBlocks(t)
    <3>1. Handed[t] \cap Pool = {} /\ Handed[t] = HandBlocks(t)
      BY <1>1, <1>2, <2>1, OthersShare DEF LeavesOthers, SharedOut
    <3> QED
      BY <2>3, <3>1
  <2>8. HandOnce(t)'
    <3>1. \A i, j \in f .. n - 1 : heap[a].addr[i] = heap[a].addr[j] => i = j
      BY <1>5, <2>1 DEF HandOnce, a
    <3>2. \A i \in f .. n - 1 : heap[a].addr[i] # b
      BY <1>5, <2>7 DEF HandBlocks, a
    <3>3. \A i : i \in f .. n <=> i \in f .. n - 1 \/ i = n
      BY <1>5
    <3>4. \A i, j \in f .. n : heap'[a].addr[i] = heap'[a].addr[j] => i = j
      BY <1>4, <1>9, <3>1, <3>2, <3>3
    <3> QED
      BY <1>3, <1>6, <3>4 DEF HandOnce
  <2> QED
    BY <1>1, <1>2, <1>12, <1>14, <2>1, <2>3, <2>6, <2>8, SharesAll, OthersShare
<1> QED
  BY <1>1, <1>10, <1>12, <1>14

(* The cells of a new version: those before f, and those from f on. *)
LEMMA JoinCells ==
    ASSUME NEW c, NEW f \in Nat \ {0}, NEW n \in Nat, f <= n + 1,
           \A i, j \in 1 .. f - 1 : c[i] = c[j] => i = j,
           \A i, j \in f .. n : c[i] = c[j] => i = j,
           {c[i] : i \in 1 .. f - 1} \cap {c[i] : i \in f .. n} = {}
    PROVE  /\ \A i, j \in 1 .. n : c[i] = c[j] => i = j
           /\ {c[i] : i \in 1 .. n} = {c[i] : i \in 1 .. f - 1} \cup {c[i] : i \in f .. n}
<1>1. \A i : i \in 1 .. n <=> i \in 1 .. f - 1 \/ i \in f .. n
  OBVIOUS
<1>2. \A i \in 1 .. f - 1, j \in f .. n : c[i] # c[j]
  OBVIOUS
<1> QED
  BY <1>1, <1>2

(* And the other way around. *)
LEMMA CutCells ==
    ASSUME NEW c, NEW f \in Nat \ {0}, NEW n \in Nat, f <= n + 1,
           \A i, j \in 1 .. n : c[i] = c[j] => i = j
    PROVE  /\ {c[i] : i \in 1 .. f - 1} = {c[i] : i \in 1 .. n} \ {c[i] : i \in f .. n}
           /\ \A i, j \in 1 .. f - 1 : c[i] = c[j] => i = j
           /\ {c[i] : i \in f .. n} \subseteq {c[i] : i \in 1 .. n}
<1>1. \A i : i \in 1 .. n <=> i \in 1 .. f - 1 \/ i \in f .. n
  OBVIOUS
<1>2. \A i \in 1 .. f - 1, j \in f .. n : i # j
  OBVIOUS
<1> QED
  BY <1>1, <1>2

(* What a call that writes in place has taken is part of the posting. *)
LEMMA WriteInPlaceShares ==
    ASSUME Inv, Inv', Copies, NEW t \in Writers, Write(t), loc[t].old = None
    PROVE  Copied(pc[t], loc[t])' /\ (Sharing => Sharing')
<1> DEFINE a == loc[t].arr
           c == heap[a].addr
           f == First(loc[t])
           n == loc[t].last
<1>1. PICK k : k = loc[t].key
  OBVIOUS
<1>2. /\ Step(t) /\ pc[t] = "write" /\ at' = at /\ pc'[t] = "idle" /\ free' = free
      /\ Knows(pc[t], loc[t]) /\ Ranges(pc[t], loc[t])
  BY CallerKnows, WriteFrame DEF Inv, Write, Step, Fitting, Fits
<1>3. LeavesOthers(t, k)
  BY <1>1, <1>2, OthersShare
<1>4. a \in Arrays /\ heap'[a].size = loc[t].size /\ heap'[a].addr = c
  BY WriteHeap
<1>5. /\ f \in Nat \ {0} /\ n \in Nat /\ f <= n + 1 /\ Mine(t) = f .. n
      /\ n = Pages(loc[t].size)
  <2>1. loc[t].next = n + 1 /\ n = Pages(loc[t].size)
    BY <1>2 DEF Ranges, Filling
  <2> QED
    BY <1>2, <2>1, CallCells
<1>6. Current(k) = a /\ Counted(k) = 1 .. f - 1 /\ Current(k)' = a /\ a # None
  BY <1>1, <1>2, <1>4, InPlace, OwnCurrent, KeysType DEF Filling, Deleting
<1>7. Counted(k)' = 1 .. n
  <2>1. Counted(k)' = IF Current(k)' = None THEN {} ELSE 1 .. Pages(heap'[Current(k)'].size)
    BY DEF Counted, Pages
  <2> QED
    BY <1>4, <1>5, <1>6, <2>1
<1>8. HandBlocks(t)' = {} /\ HandOnce(t)' /\ Copied(pc[t], loc[t])'
  BY <1>2, NothingInHandNext
<1>9. /\ Posted[k] = {c[i] : i \in 1 .. f - 1} /\ Handed[t] = {c[i] : i \in f .. n}
      /\ Posted'[k] = {c[i] : i \in 1 .. n} /\ Handed'[t] = {}
  <2>1. PostingBlocks(k) = {c[i] : i \in 1 .. f - 1}
    BY <1>6 DEF PostingBlocks
  <2>2. HandBlocks(t) = {c[i] : i \in f .. n}
    BY <1>5 DEF HandBlocks
  <2>3. PostingBlocks(k)' = {c[i] : i \in 1 .. n}
    BY <1>4, <1>6, <1>7 DEF PostingBlocks
  <2> QED
    BY <1>3, <1>8, <2>1, <2>2, <2>3 DEF LeavesOthers
<1>10. ASSUME Sharing PROVE Sharing'
  <2>1. /\ SharedOut(Pool, Posted, Handed) /\ PostingOnce(k) /\ HandOnce(t) /\ k \in Keys
    BY <1>3, <1>10 DEF Sharing, LeavesOthers
  <2>2. /\ \A i, j \in 1 .. f - 1 : c[i] = c[j] => i = j
        /\ \A i, j \in f .. n : c[i] = c[j] => i = j
    BY <1>5, <1>6, <2>1 DEF PostingOnce, HandOnce
  <2>3. Posted[k] \cap Handed[t] = {}
    BY <2>1 DEF SharedOut
  <2> HIDE DEF c, f, n
  <2>4. /\ \A i, j \in 1 .. n : c[i] = c[j] => i = j
        /\ Posted'[k] = Posted[k] \cup Handed[t]
    <3>1. {c[i] : i \in 1 .. f - 1} \cap {c[i] : i \in f .. n} = {}
      BY <1>9, <2>3
    <3>2. /\ \A i, j \in 1 .. n : c[i] = c[j] => i = j
          /\ {c[i] : i \in 1 .. n} = {c[i] : i \in 1 .. f - 1} \cup {c[i] : i \in f .. n}
      BY <1>5, <2>2, <3>1, JoinCells
    <3> QED
      BY <1>9, <3>2
  <2>5. PostingOnce(k)'
    BY <1>4, <1>6, <1>7, <2>4 DEF PostingOnce
  <2>6. Pool' = Pool /\ PoolOnce'
    BY <1>2, <1>10 DEF Sharing, Pool, PoolOnce
  <2>7. /\ \A j \in Keys : Posted'[j] = IF j = k THEN (Posted[k] \ {}) \cup Handed[t] ELSE Posted[j]
        /\ \A u \in Writers : Handed'[u] = IF u = t THEN {} ELSE Handed[u]
    BY <1>3, <1>9, <2>4 DEF LeavesOthers
  <2>8. Pool' = Pool \cup {} /\ {} \subseteq Posted[k]
    BY <2>6
  <2>9. SharedOut(Pool', Posted', Handed')
    BY <2>1, <2>7, <2>8, GiveBlocks
  <2> QED
    BY <1>3, <1>8, <1>10, <2>5, <2>6, <2>9, SharesAll
<1> QED
  BY <1>8, <1>10

(* A call that writes to another array hands nothing over yet. *)
LEMMA WriteNewShares ==
    ASSUME Inv, Inv', Copies, NEW t \in Writers, Write(t), loc[t].old # None
    PROVE  Copied(pc[t], loc[t])' /\ (Sharing => Sharing') /\ SameValue(loc[t].key)
<1> DEFINE a == loc[t].arr
<1>1. PICK k : k = loc[t].key
  OBVIOUS
<1>2. /\ Step(t) /\ pc[t] = "write" /\ at' = at /\ pc'[t] = "release" /\ loc'[t] = loc[t]
      /\ free' = free
      /\ Knows(pc[t], loc[t]) /\ Ranges(pc[t], loc[t])
  BY CallerKnows, WriteFrame DEF Inv, Write, Step, Fitting, Fits
<1>3. LeavesOthers(t, k)
  BY <1>1, <1>2, OthersShare
<1>4. a \in Arrays /\ heap'[a].addr = heap[a].addr /\ \A b \in Arrays : b # a => heap'[b] = heap[b]
  BY WriteHeap
<1>5. a # loc[t].old /\ loc[t].old \in Arrays /\ loc[t].old = at[k]
  BY <1>1, <1>2, ArrIsNotOld DEF Filling, Knows
<1>6. Current(k) = at[k] /\ Current(k)' = at[k]
  BY <1>1, <1>2, OwnCurrent DEF Deleting
<1>7. /\ PostingBlocks(k)' = PostingBlocks(k) /\ (PostingOnce(k) => PostingOnce(k)')
      /\ SameValue(k)
  BY <1>3, <1>4, <1>5, <1>6, SamePosting DEF LeavesOthers
<1>8. Mine(t)' = Mine(t)
  BY <1>2 DEF Mine, First, Pages
<1>9. HandBlocks(t)' = HandBlocks(t) /\ (HandOnce(t) => HandOnce(t)')
  BY <1>2, <1>4, <1>8 DEF HandBlocks, HandOnce
<1>10. Copied(pc[t], loc[t])'
  <2>1. Copied(pc[t], loc[t])
    BY DEF Copies
  <2>2. loc[t].next = loc[t].last + 1 /\ (loc[t].op = "put" => First(loc[t]) = 1)
    BY <1>2 DEF Ranges, Filling
  <2>3. First(loc[t])' = First(loc[t])
    BY <1>2 DEF First, Pages
  <2>4. \A i \in 1 .. First(loc[t]) - 1 : heap'[a].addr[i] = heap'[loc[t].old].addr[i]
    BY <1>2, <1>4, <1>5, <2>1 DEF Copied
  <2> QED
    BY <1>2, <2>2, <2>3, <2>4 DEF Copied
<1>11. ASSUME Sharing PROVE Sharing'
  <2>1. SharedOut(Pool, Posted, Handed) /\ PostingOnce(k) /\ HandOnce(t)
    BY <1>3, <1>11 DEF Sharing, LeavesOthers
  <2>2. Pool' = Pool /\ PoolOnce'
    BY <1>2, <1>11 DEF Sharing, Pool, PoolOnce
  <2>3. /\ \A j \in Keys : Posted'[j] = Posted[j]
        /\ \A u \in Writers : Handed'[u] = Handed[u]
    BY <1>3, <1>7, <1>9 DEF LeavesOthers
  <2>4. SharedOut(Pool', Posted', Handed')
    BY <2>1, <2>2, <2>3, SameBlocks
  <2> QED
    BY <1>3, <1>7, <1>9, <1>11, <2>1, <2>2, <2>4, SharesAll
<1> QED
  BY <1>1, <1>7, <1>10, <1>11

(* The new version takes the place of the old one, and the blocks that only *)
(* the old one has go to the pool.                                          *)
LEMMA ReleaseShares ==
    ASSUME Inv, Inv', Copies, NEW t \in Writers, Release(t)
    PROVE  Copied(pc[t], loc[t])' /\ (Sharing => Sharing')
<1> DEFINE a == loc[t].arr
           o == loc[t].old
           c == heap[a].addr
           d == heap[o].addr
           f == First(loc[t])
           n == loc[t].last
           m == Pages(heap[o].size)
           R == {d[i] : i \in f .. m}
<1>1. PICK k : k = loc[t].key
  OBVIOUS
<1>2. /\ Step(t) /\ pc[t] = "release" /\ at' = at /\ heap' = heap /\ pc'[t] = "swap"
      /\ loc'[t] = loc[t] /\ loc[t] \in Local
      /\ Knows(pc[t], loc[t]) /\ Ranges(pc[t], loc[t]) /\ Filled(pc[t], loc[t])
      /\ Replaces(pc[t], loc[t]) /\ Copied(pc[t], loc[t])
  BY CallerKnows, ReleaseFrame DEF Inv, Release, Step, Fitting, Fits, Copies
<1>3. LeavesOthers(t, k)
  BY <1>1, <1>2, OthersShare
<1>4. /\ free' = free \o UsedFrom(heap[o], ReleasedFrom(t))
      /\ o \in Arrays /\ Whole(o) /\ o = at[k] /\ a \in Arrays /\ a # None /\ o # None
  <2>1. a \in Arrays /\ None \notin Arrays
    BY <1>2, KeysType DEF Knows, Replacing
  <2> QED
    BY <1>1, <2>1, ReleaseFree
<1>5. /\ f \in Nat \ {0} /\ n \in Nat /\ f <= n + 1 /\ Mine(t) = f .. n
      /\ n = Pages(heap[a].size)
      /\ \A i \in 1 .. f - 1 : c[i] = d[i]
  <2>1. loc[t].next = n + 1 /\ n = Pages(loc[t].size) /\ heap[a].size = loc[t].size
        /\ \A i \in 1 .. f - 1 : c[i] = d[i]
    BY <1>2, <1>4 DEF Ranges, Filled, Replacing, Copied
  <2> QED
    BY <1>2, <2>1, CallCells
<1>6. ReleasedFrom(t) = f /\ f <= m + 1 /\ m \in Nat
  <2>1. loc[t].op \in {"put", "merge"} /\ Extends(loc[t], heap[o].size)
    BY <1>2, <1>4 DEF Knows, Replaces, Replacing
  <2>2. heap[o].size \in Nat
    BY <1>4, <2>1 DEF Extends, Inv, Types, SharedType, Array
  <2>3. loc[t].op = "put" => f = 1
    BY <1>2 DEF Copied
  <2>4. loc[t].op = "merge" => f = (heap[o].size \div PageSize) + 1
    BY <2>1 DEF Extends
  <2>5. ReleasedFrom(t) = f
    BY <2>1, <2>3, <2>4 DEF ReleasedFrom
  <2>6. /\ m \in Nat /\ heap[o].size \div PageSize \in Nat
        /\ heap[o].size \div PageSize <= m
    <3> DEFINE x == heap[o].size
               q == x \div PageSize
    <3>1. x \in Nat
      BY <2>2
    <3> HIDE DEF x
    <3>2. q \in Nat /\ (Pages(x) = q \/ Pages(x) = q + 1)
      BY <3>1, PagesRest
    <3>3. Pages(x) \in Nat /\ q <= Pages(x)
      BY <3>2
    <3> QED
      BY <3>2, <3>3 DEF x
  <2> HIDE DEF m, f
  <2>7. f <= m + 1
    BY <2>1, <2>3, <2>4, <2>6
  <2> QED
    BY <2>5, <2>6, <2>7
<1>7. Current(k) = o /\ Current(k)' = a
  BY <1>1, <1>2, <1>4, OwnCurrent DEF Deleting
<1>8. Counted(k) = 1 .. m /\ Counted(k)' = 1 .. n
  <2>1. Counted(k)' = IF Current(k)' = None THEN {} ELSE 1 .. Pages(heap'[Current(k)'].size)
    BY DEF Counted, Pages
  <2> QED
    BY <1>2, <1>4, <1>5, <1>7, <2>1 DEF Counted
<1>9. HandBlocks(t)' = {} /\ HandOnce(t)' /\ Copied(pc[t], loc[t])'
  BY <1>2, NothingInHandNext
<1>10. /\ Posted[k] = {d[i] : i \in 1 .. m} /\ Handed[t] = {c[i] : i \in f .. n}
       /\ Posted'[k] = {c[i] : i \in 1 .. n} /\ Handed'[t] = {}
  <2>1. PostingBlocks(k) = {d[i] : i \in 1 .. m}
    BY <1>7, <1>8 DEF PostingBlocks
  <2>2. HandBlocks(t) = {c[i] : i \in f .. n}
    BY <1>5 DEF HandBlocks
  <2>3. PostingBlocks(k)' = {c[i] : i \in 1 .. n}
    BY <1>2, <1>7, <1>8 DEF PostingBlocks
  <2> QED
    BY <1>3, <1>9, <2>1, <2>2, <2>3 DEF LeavesOthers
<1>11. ASSUME Sharing PROVE Sharing'
  <2>1. /\ SharedOut(Pool, Posted, Handed) /\ PostingOnce(k) /\ HandOnce(t) /\ k \in Keys /\ PoolOnce
    BY <1>3, <1>11 DEF Sharing, LeavesOthers
  <2>2. /\ \A i, j \in 1 .. m : d[i] = d[j] => i = j
        /\ \A i, j \in f .. n : c[i] = c[j] => i = j
    BY <1>5, <1>7, <1>8, <2>1 DEF PostingOnce, HandOnce
  <2>3. Posted[k] \cap Handed[t] = {} /\ Posted[k] \cap Pool = {}
    BY <2>1 DEF SharedOut
  <2>4. /\ UsedFrom(heap[o], f) \in Seq(Blocks)
        /\ {UsedFrom(heap[o], f)[j] : j \in DOMAIN UsedFrom(heap[o], f)} = R
        /\ \A j, i \in DOMAIN UsedFrom(heap[o], f) :
                UsedFrom(heap[o], f)[j] = UsedFrom(heap[o], f)[i] => j = i
    BY <1>4, <1>5, <2>2, UsedBlocks
  <2>5. PICK s : s = UsedFrom(heap[o], f)
    OBVIOUS
  <2> HIDE DEF c, d, f, n, m, R
  <2>6. /\ {d[i] : i \in 1 .. f - 1} = Posted[k] \ R
        /\ \A i, j \in 1 .. f - 1 : d[i] = d[j] => i = j
        /\ R \subseteq Posted[k]
    BY <1>5, <1>6, <1>10, <2>2, CutCells DEF R
  <2>7. {c[i] : i \in 1 .. f - 1} = {d[i] : i \in 1 .. f - 1}
    BY <1>5
  <2>8. /\ \A i, j \in 1 .. n : c[i] = c[j] => i = j
        /\ Posted'[k] = (Posted[k] \ R) \cup Handed[t]
    <3>1. \A i, j \in 1 .. f - 1 : c[i] = c[j] => i = j
      BY <1>5, <2>6
    <3>2. {c[i] : i \in 1 .. f - 1} \cap {c[i] : i \in f .. n} = {}
      BY <1>10, <2>3, <2>6, <2>7
    <3>3. /\ \A i, j \in 1 .. n : c[i] = c[j] => i = j
          /\ {c[i] : i \in 1 .. n} = {c[i] : i \in 1 .. f - 1} \cup {c[i] : i \in f .. n}
      BY <1>5, <2>2, <3>1, <3>2, JoinCells
    <3> QED
      BY <1>10, <2>6, <2>7, <3>3
  <2>9. PostingOnce(k)'
    BY <1>2, <1>7, <1>8, <2>8 DEF PostingOnce, c
  <2>10. free' = free \o s /\ s \in Seq(Blocks) /\ {s[j] : j \in DOMAIN s} = R
         /\ \A j, i \in DOMAIN s : s[j] = s[i] => j = i
    BY <1>4, <1>6, <2>4, <2>5
  <2>11. Pool' = Pool \cup R /\ PoolOnce'
    <3>1. free \in Seq(Blocks) /\ \A i, j \in DOMAIN free : free[i] = free[j] => i = j
      BY <2>1 DEF PoolOnce, Inv, Types, SharedType
    <3>2. R \cap Pool = {}
      BY <2>3, <2>6
    <3>3. \A i \in DOMAIN free, j \in DOMAIN s : free[i] # s[j]
      BY <2>10, <3>2 DEF Pool
    <3>4. /\ \A i, j \in DOMAIN (free \o s) : (free \o s)[i] = (free \o s)[j] => i = j
          /\ {(free \o s)[i] : i \in DOMAIN (free \o s)} =
                {free[i] : i \in DOMAIN free} \cup {s[j] : j \in DOMAIN s}
      BY <2>10, <3>1, <3>3, PoolGrows
    <3>5. /\ \A i, j \in DOMAIN free' : free'[i] = free'[j] => i = j
          /\ {free'[i] : i \in DOMAIN free'} = {free[i] : i \in DOMAIN free} \cup R
      BY <2>10, <3>4
    <3> QED
      BY <3>5 DEF Pool, PoolOnce
  <2>12. /\ \A j \in Keys : Posted'[j] = IF j = k THEN (Posted[k] \ R) \cup Handed[t] ELSE Posted[j]
         /\ \A u \in Writers : Handed'[u] = IF u = t THEN {} ELSE Handed[u]
    BY <1>3, <1>10, <2>8 DEF LeavesOthers
  <2>13. SharedOut(Pool', Posted', Handed')
    <3>1. k \in Keys /\ R \subseteq Posted[k] /\ Pool' = Pool \cup R
      BY <2>1, <2>6, <2>11
    <3> HIDE DEF Pool, Posted, Handed
    <3> QED
      BY <2>1, <2>12, <3>1, GiveBlocks
  <2> QED
    BY <1>3, <1>9, <1>11, <2>9, <2>11, <2>13, SharesAll
<1> QED
  BY <1>9, <1>11

(* A call begins: nothing moves but what Delete gives back. *)
LEMMA BeginsLeaves ==
    ASSUME Inv, Inv', Copies, NEW t \in Writers, NEW k \in Keys, Begins(t, k), heap' = heap
    PROVE  /\ LeavesOthers(t, k) /\ HandBlocks(t) = {}
           /\ Current(k) = at[k]
           /\ Current(k)' = IF pc'[t] \in Deleting THEN None ELSE at[k]
<1>1. /\ Others(t) /\ pc[t] = "idle" /\ ~Locked(k) /\ at' = at /\ loc'[t].key = k
      /\ pc'[t] \in {"grow", "slot", "pop", "get", "spare"}
  BY DEF Begins
<1>2. \A u \in Writers \ {t} : pc'[u] = pc[u] /\ loc'[u] = loc[u]
  BY <1>1 DEF Others, Threads
<1>3. ASSUME NEW j \in Keys \ {k}
      PROVE  /\ PostingBlocks(j)' = PostingBlocks(j) /\ (PostingOnce(j) => PostingOnce(j)')
             /\ SameValue(j)
  <2>1. Current(j)' = Current(j)
    BY <1>1, <1>2, SameCurrent DEF Inv
  <2> QED
    BY <2>1, SamePosting
<1>4. \A u \in Writers \ {t} : /\ HandBlocks(u)' = HandBlocks(u) /\ (HandOnce(u) => HandOnce(u)')
                               /\ Copied(pc[u], loc[u])'
  BY <1>2, SameHand, SameCopied DEF Copies
<1>5. HandBlocks(t) = {}
  BY <1>1, NothingInHand
<1>6. LeavesOthers(t, k)
  BY <1>3, <1>4 DEF LeavesOthers, Posted, Handed
<1>7. Current(k)' = IF pc'[t] \in Deleting THEN None ELSE at[k]
  BY <1>1, CurrentByNext DEF Inv
<1> QED
  BY <1>1, <1>5, <1>6, <1>7, CurrentQuiet

LEMMA BeginsShares ==
    ASSUME Inv, Inv', Copies, NEW t \in Writers, NEW k \in Keys, Begins(t, k), heap' = heap,
           free' = free, pc'[t] # "spare",
           pc'[t] = "get" => loc'[t].next = First(loc'[t]) /\ loc'[t].old = None
    PROVE  Copied(pc[t], loc[t])' /\ (Sharing => Sharing') /\ SameValue(k)
<1>1. /\ LeavesOthers(t, k) /\ HandBlocks(t) = {} /\ Current(k)' = Current(k)
      /\ pc'[t] \in {"grow", "slot", "pop", "get"} /\ loc'[t] \in Local
  BY BeginsLeaves DEF Begins, Deleting
<1>2. /\ PostingBlocks(k)' = PostingBlocks(k) /\ (PostingOnce(k) => PostingOnce(k)')
      /\ SameValue(k)
  BY <1>1, SamePosting
<1>3. HandBlocks(t)' = {} /\ HandOnce(t)' /\ Copied(pc[t], loc[t])'
  <2>1. CASE pc'[t] = "get"
    <3>1. Copied(pc[t], loc[t])'
      BY <2>1 DEF Copied
    <3> QED
      BY <1>1, <2>1, <3>1, NothingYetNext
  <2>2. CASE pc'[t] # "get"
    BY <1>1, <2>2, NothingInHandNext
  <2> QED
    BY <2>1, <2>2
<1>4. ASSUME Sharing PROVE Sharing'
  <2>1. SharedOut(Pool, Posted, Handed) /\ PostingOnce(k)
    BY <1>4 DEF Sharing
  <2>2. Pool' = Pool /\ PoolOnce'
    BY <1>4 DEF Sharing, Pool, PoolOnce
  <2>3. /\ \A j \in Keys : Posted'[j] = Posted[j]
        /\ \A u \in Writers : Handed'[u] = Handed[u]
    BY <1>1, <1>2, <1>3 DEF LeavesOthers
  <2>4. SharedOut(Pool', Posted', Handed')
    BY <2>1, <2>2, <2>3, SameBlocks
  <2> QED
    BY <1>1, <1>2, <1>3, <1>4, <2>1, <2>2, <2>4, SharesAll
<1> QED
  BY <1>2, <1>3, <1>4

LEMMA PutShares ==
    ASSUME Inv, Inv', Copies, NEW t \in Writers, NEW k \in Keys, NEW v \in PutValues[k], Put(t, k, v)
    PROVE  /\ Copied(pc[t], loc[t])' /\ (Sharing => Sharing')
           /\ LeavesOthers(t, k) /\ restarts' = restarts /\ SameValue(k)
<1>1. Begins(t, k) /\ heap' = heap /\ free' = free /\ restarts' = restarts
  BY PutBegins DEF Inv, Put
<1>2. pc'[t] \in {"grow", "slot"}
  BY PutFrame DEF Inv
<1> QED
  BY <1>1, <1>2, BeginsShares, BeginsLeaves

LEMMA MergeShares ==
    ASSUME Inv, Inv', Copies, NEW t \in Writers, NEW k \in Keys, NEW v \in MergeValues[k], Merge(t, k, v)
    PROVE  /\ Copied(pc[t], loc[t])' /\ (Sharing => Sharing')
           /\ LeavesOthers(t, k) /\ restarts' = restarts /\ SameValue(k)
<1>1. RestOf(at[k]) \in Posts /\ Fits(pc[t], loc[t])'
  BY MergeFits
<1>2. Begins(t, k) /\ heap' = heap /\ free' = free /\ restarts' = restarts
  BY <1>1, MergeBegins DEF Inv, Merge
<1>3. /\ loc'[t].op = "merge" /\ loc'[t].next = (heap[at[k]].size \div PageSize) + 1
      /\ \/ pc'[t] = "pop"
         \/ pc'[t] = "get" /\ loc'[t].arr = at[k] /\ loc'[t].old = None
  BY <1>1, MergeFrame DEF Inv
<1>4. ASSUME pc'[t] = "get" PROVE loc'[t].next = First(loc'[t]) /\ loc'[t].old = None
  <2>1. loc'[t].arr = at[k] /\ loc'[t].old = None
    BY <1>3, <1>4
  <2>2. Replaces(pc[t], loc[t])'
    BY <1>1 DEF Fits
  <2>3. Extends(loc[t], heap[loc[t].arr].size)'
    BY <1>3, <1>4, <2>1, <2>2 DEF Replaces, Filling
  <2>4. First(loc[t])' = First(loc'[t])
    BY DEF First, Pages
  <2>5. First(loc'[t]) = (heap[at[k]].size \div PageSize) + 1
    BY <1>2, <1>3, <2>1, <2>3, <2>4 DEF Extends
  <2> QED
    BY <1>3, <2>1, <2>5
<1> QED
  BY <1>2, <1>3, <1>4, BeginsShares, BeginsLeaves

LEMMA DeleteShares ==
    ASSUME Inv, Inv', Copies, NEW t \in Writers, NEW k \in Keys, Delete(t, k)
    PROVE  /\ Copied(pc[t], loc[t])' /\ (Sharing => Sharing')
           /\ LeavesOthers(t, k) /\ restarts' = restarts
<1> DEFINE o == at[k]
           R == PostingBlocks(k)
<1>1. /\ Begins(t, k) /\ heap' = heap /\ restarts' = restarts
      /\ free' = free \o UsedFrom(heap[o], 1)
  BY DeleteBegins DEF Inv, Delete
<1>2. pc'[t] = "spare" /\ o \in Arrays /\ ~Locked(k) /\ o # None
  BY DeleteFrame, KeysType DEF Inv, Delete, Call
<1>3. /\ LeavesOthers(t, k) /\ HandBlocks(t) = {} /\ Current(k) = o /\ Current(k)' = None
  BY <1>1, <1>2, BeginsLeaves DEF Deleting
<1>4. HandBlocks(t)' = {} /\ HandOnce(t)' /\ Copied(pc[t], loc[t])'
  BY <1>2, NothingInHandNext
<1>5. PostingBlocks(k)' = {} /\ PostingOnce(k)'
  <2>1. Counted(k)' = {}
    BY <1>3 DEF Counted
  <2> QED
    BY <2>1 DEF PostingBlocks, PostingOnce
<1>6. ASSUME Sharing PROVE Sharing'
  <2>1. SharedOut(Pool, Posted, Handed) /\ PostingOnce(k) /\ PoolOnce
    BY <1>6 DEF Sharing
  <2>2. Whole(o)
    BY <1>2, QuietWhole
  <2>3. R = {heap[o].addr[i] : i \in 1 .. Pages(heap[o].size)}
        /\ \A i, j \in 1 .. Pages(heap[o].size) : heap[o].addr[i] = heap[o].addr[j] => i = j
    BY <1>2, <1>3, <2>1 DEF PostingBlocks, PostingOnce, Counted
  <2>10. /\ UsedFrom(heap[o], 1) \in Seq(Blocks)
         /\ {UsedFrom(heap[o], 1)[j] : j \in DOMAIN UsedFrom(heap[o], 1)} =
                {heap[o].addr[i] : i \in 1 .. Pages(heap[o].size)}
         /\ \A j, i \in DOMAIN UsedFrom(heap[o], 1) :
                UsedFrom(heap[o], 1)[j] = UsedFrom(heap[o], 1)[i] => j = i
    <3>1. o \in Arrays /\ Whole(o) /\ 1 \in Nat \ {0}
          /\ \A i, j \in 1 .. Pages(heap[o].size) : heap[o].addr[i] = heap[o].addr[j] => i = j
      BY <1>2, <2>2, <2>3
    <3> HIDE DEF o, R
    <3> QED
      BY <3>1, UsedBlocks
  <2>4. PICK s : s = UsedFrom(heap[o], 1)
    OBVIOUS
  <2>5. /\ s \in Seq(Blocks) /\ {s[j] : j \in DOMAIN s} = R
        /\ \A j, i \in DOMAIN s : s[j] = s[i] => j = i
    BY <2>3, <2>4, <2>10
  <2>6. Posted[k] \cap Pool = {} /\ Posted[k] = R
    BY <1>3, <2>1 DEF SharedOut, LeavesOthers
  <2> HIDE DEF R
  <2>7. Pool' = Pool \cup R /\ PoolOnce'
    <3>1. free \in Seq(Blocks) /\ \A i, j \in DOMAIN free : free[i] = free[j] => i = j
      BY <2>1 DEF PoolOnce, Inv, Types, SharedType
    <3>2. \A i \in DOMAIN free, j \in DOMAIN s : free[i] # s[j]
      BY <2>5, <2>6 DEF Pool
    <3>3. /\ \A i, j \in DOMAIN (free \o s) : (free \o s)[i] = (free \o s)[j] => i = j
          /\ {(free \o s)[i] : i \in DOMAIN (free \o s)} =
                {free[i] : i \in DOMAIN free} \cup {s[j] : j \in DOMAIN s}
      BY <2>5, <3>1, <3>2, PoolGrows
    <3>4. /\ \A i, j \in DOMAIN free' : free'[i] = free'[j] => i = j
          /\ {free'[i] : i \in DOMAIN free'} = {free[i] : i \in DOMAIN free} \cup R
      <4>1. free' = free \o s
        BY <1>1, <2>4
      <4> QED
        BY <2>5, <3>3, <4>1
    <3> QED
      BY <3>4 DEF Pool, PoolOnce
  <2>8. /\ \A j \in Keys : Posted'[j] = IF j = k THEN (Posted[k] \ R) \cup Handed[t] ELSE Posted[j]
        /\ \A u \in Writers : Handed'[u] = IF u = t THEN {} ELSE Handed[u]
    BY <1>3, <1>4, <1>5, <2>6 DEF LeavesOthers
  <2>9. SharedOut(Pool', Posted', Handed')
    <3>1. R \subseteq Posted[k]
      BY <2>6
    <3> HIDE DEF Pool, Posted, Handed
    <3> QED
      BY <2>1, <2>7, <2>8, <3>1, GiveBlocks
  <2> QED
    BY <1>3, <1>4, <1>5, <1>6, <2>7, <2>9, SharesAll
<1> QED
  BY <1>1, <1>3, <1>4, <1>6

(* Reads, and steps of nobody. *)
LEMMA WritersKept ==
    ASSUME Inv, Inv', \A u \in Writers : pc'[u] = pc[u] /\ loc'[u] = loc[u],
           UNCHANGED <<at, heap, free>>
    PROVE  (Copies => Copies') /\ (Sharing => Sharing') /\ \A k \in Keys : SameValue(k)
<1>1. \A k \in Keys : /\ PostingBlocks(k)' = PostingBlocks(k) /\ (PostingOnce(k) => PostingOnce(k)')
                     /\ SameValue(k)
  BY SameCurrent, SamePosting DEF Inv
<1>2. \A u \in Writers : HandBlocks(u)' = HandBlocks(u) /\ (HandOnce(u) => HandOnce(u)')
  BY SameHand
<1>3. Copies => Copies'
  BY SameCopied DEF Copies
<1>4. Posted' = Posted /\ Handed' = Handed
  BY <1>1, <1>2 DEF Posted, Handed
<1>5. Pool' = Pool /\ PoolOnce' = PoolOnce
  BY DEF Pool, PoolOnce
<1>6. SharedOut(Pool, Posted, Handed)' = SharedOut(Pool, Posted, Handed)
  BY <1>4, <1>5 DEF SharedOut
<1> QED
  BY <1>1, <1>2, <1>3, <1>5, <1>6 DEF Sharing

(* The steps of writers. *)
LEMMA StepShares ==
    ASSUME Inv, Inv', Copies, NEW t \in Writers, Step(t), NEW k, k = loc[t].key
    PROVE  /\ Copied(pc[t], loc[t])' /\ (Sharing => Sharing')
           /\ LeavesOthers(t, k) /\ restarts' = restarts
<1>1. LeavesOthers(t, k)
  BY OthersShare
<1>2. restarts' = restarts
  BY DEF Step, Grow, Slot, Pop, GetBlock, Write, Release, Swap, Recycle, DeleteSpare, DeleteUnmap
<1>3. CASE Moveless(t)
  BY <1>1, <1>2, <1>3, MovelessShares
<1>4. CASE GetBlock(t)
  BY <1>1, <1>2, <1>4, GetBlockShares
<1>5. CASE Write(t)
  BY <1>1, <1>2, <1>5, WriteInPlaceShares, WriteNewShares
<1>6. CASE Release(t)
  BY <1>1, <1>2, <1>6, ReleaseShares
<1> QED
  BY <1>3, <1>4, <1>5, <1>6 DEF Step, Moveless

(* Copies and Sharing speak of nothing that a reader changes. *)
LEMMA BlocksKept ==
    ASSUME BlocksInv, NEW t \in Writers, NEW k, LeavesOthers(t, k), Copied(pc[t], loc[t])',
           Sharing => Sharing', restarts' = restarts
    PROVE  BlocksInv'
<1>1. Copies'
  BY DEF Copies, LeavesOthers
<1> QED
  BY <1>1 DEF BlocksInv

(* Every step. *)
LEMMA BlocksNext ==
    ASSUME Inv, Inv', [Next]_vars, BlocksInv
    PROVE  BlocksInv'
<1>1. Copies
  BY DEF BlocksInv
<1>2. ASSUME NEW t \in Writers, NEW k \in Keys,
             \/ \E v \in PutValues[k] : Put(t, k, v)
             \/ \E v \in MergeValues[k] : Merge(t, k, v)
             \/ Delete(t, k)
      PROVE  BlocksInv'
  <2>1. CASE \E v \in PutValues[k] : Put(t, k, v)
    <3>1. PICK v \in PutValues[k] : Put(t, k, v)
      BY <2>1
    <3>2. /\ Copied(pc[t], loc[t])' /\ (Sharing => Sharing')
          /\ LeavesOthers(t, k) /\ restarts' = restarts
      BY <1>1, <3>1, PutShares
    <3> QED
      BY <3>2, BlocksKept
  <2>2. CASE \E v \in MergeValues[k] : Merge(t, k, v)
    <3>1. PICK v \in MergeValues[k] : Merge(t, k, v)
      BY <2>2
    <3>2. /\ Copied(pc[t], loc[t])' /\ (Sharing => Sharing')
          /\ LeavesOthers(t, k) /\ restarts' = restarts
      BY <1>1, <3>1, MergeShares
    <3> QED
      BY <3>2, BlocksKept
  <2>3. CASE Delete(t, k)
    <3>1. /\ Copied(pc[t], loc[t])' /\ (Sharing => Sharing')
          /\ LeavesOthers(t, k) /\ restarts' = restarts
      BY <1>1, <2>3, DeleteShares
    <3> QED
      BY <3>1, BlocksKept
  <2> QED
    BY <1>2, <2>1, <2>2, <2>3
<1>3. ASSUME NEW t \in Writers, Step(t) PROVE BlocksInv'
  <2>1. PICK k : k = loc[t].key
    OBVIOUS
  <2>2. /\ Copied(pc[t], loc[t])' /\ (Sharing => Sharing')
        /\ LeavesOthers(t, k) /\ restarts' = restarts
    BY <1>1, <1>3, <2>1, StepShares
  <2> QED
    BY <2>2, BlocksKept
<1>4. ASSUME NEW r \in Readers, Read(r) \/ \E k \in Keys : ReadMapping(r, k) PROVE BlocksInv'
  <2>1. Reads(r)
    BY <1>4, ReadInv
  <2>2. (\A u \in Writers : pc'[u] = pc[u] /\ loc'[u] = loc[u])
        /\ UNCHANGED <<at, heap, free>> /\ restarts' = restarts
    BY <2>1, Apart DEF Reads, Others, Threads
  <2> QED
    BY <2>2, WritersKept DEF BlocksInv
<1>5. CASE Restart
  <2>1. restarts' # 0 /\ \A t \in Writers : pc'[t] = "idle"
    <3>1. restarts \in Nat
      BY DEF Inv, Types, SharedType
    <3>2. restarts' = restarts + 1 /\ pc' = pc /\ \A t \in Threads : pc[t] = "idle"
      BY <1>5 DEF Restart
    <3> QED
      BY <3>1, <3>2 DEF Threads
  <2>2. Copies'
    BY <2>1, NothingInHandNext DEF Copies
  <2> QED
    BY <2>1, <2>2 DEF BlocksInv
<1>6. CASE UNCHANGED vars
  <2>1. (\A u \in Writers : pc'[u] = pc[u] /\ loc'[u] = loc[u])
        /\ UNCHANGED <<at, heap, free>> /\ restarts' = restarts
    BY <1>6 DEF vars
  <2> QED
    BY <2>1, WritersKept DEF BlocksInv
<1> QED
  BY <1>2, <1>3, <1>4, <1>5, <1>6 DEF Next

(* At first all blocks are in the pool. *)
LEMMA BlocksInit == Init => BlocksInv
<1> SUFFICES ASSUME Init PROVE BlocksInv
  OBVIOUS
<1>1. Inv /\ (\A t \in Threads : pc[t] = "idle") /\ (\A k \in Keys : at[k] = None)
      /\ free = [i \in 1..BlockCount |-> i - 1]
  BY InitInv DEF Init
<1>2. \A k \in Keys : ~Locked(k)
  BY <1>1 DEF Locked, Threads
<1>3. \A k \in Keys : PostingBlocks(k) = {} /\ PostingOnce(k)
  <2>1. \A k \in Keys : Counted(k) = {}
    BY <1>1, <1>2, CurrentQuiet DEF Counted
  <2> QED
    BY <2>1 DEF PostingBlocks, PostingOnce
<1>4. \A t \in Writers : HandBlocks(t) = {} /\ HandOnce(t) /\ Copied(pc[t], loc[t])
  BY <1>1, NothingInHand DEF Threads
<1>5. BlockCount \in Nat /\ DOMAIN free = 1..BlockCount /\ \A i \in 1..BlockCount : free[i] = i - 1
  BY <1>1, AllBlocks, SpdkAssumption
<1>6. PoolOnce /\ \A b \in Blocks : b \in Pool
  <2>1. PoolOnce
    BY <1>5 DEF PoolOnce
  <2>2. ASSUME NEW b \in Blocks PROVE b \in Pool
    <3>1. b + 1 \in DOMAIN free /\ free[b + 1] = b
      BY <1>5 DEF Blocks
    <3> QED
      BY <3>1 DEF Pool
  <2> QED
    BY <2>1, <2>2
<1>7. SharedOut(Pool, Posted, Handed)
  <2>1. (\A k \in Keys : Posted[k] = {}) /\ (\A t \in Writers : Handed[t] = {})
    BY <1>3, <1>4 DEF Posted, Handed
  <2> QED
    BY <1>6, <2>1 DEF SharedOut
<1> QED
  BY <1>3, <1>4, <1>6, <1>7 DEF BlocksInv, Copies, Sharing

(* A set with one element. *)
LEMMA ExactlyOne ==
    ASSUME NEW S, S # {}, \A x, y \in S : x = y
    PROVE  Cardinality(S) = 1
BY AtMostOne

(* Places of a block, one by one. *)
IsPool(b, x) == \E i \in DOMAIN free : free[i] = b /\ x = <<"pool", i>>
IsPosting(b, x) == \E k \in Keys : \E i \in Counted(k) :
    heap[Current(k)].addr[i] = b /\ x = <<"posting", k, i>>
IsHand(b, x) == \E t \in Writers : \E i \in Mine(t) :
    heap[loc[t].arr].addr[i] = b /\ x = <<"hand", t, i>>
PlacesOf(b) == InPool(b) \cup (UNION {InPosting(b, k) : k \in Keys})
                  \cup (UNION {InHand(b, t) : t \in Writers})

(* What BlocksConserved counts. *)
LEMMA PlaceOf ==
    ASSUME NEW b
    PROVE  \A x : x \in PlacesOf(b) <=> IsPool(b, x) \/ IsPosting(b, x) \/ IsHand(b, x)
<1>1. \A x : x \in InPool(b) <=> \E i \in DOMAIN free : free[i] = b /\ x = <<"pool", i>>
  BY DEF InPool
<1>2. \A k, x : x \in InPosting(b, k) <=> \E i \in Counted(k) :
                        heap[Current(k)].addr[i] = b /\ x = <<"posting", k, i>>
  BY DEF InPosting, Counted
<1>3. \A t, x : x \in InHand(b, t) <=> \E i \in Mine(t) :
                        heap[loc[t].arr].addr[i] = b /\ x = <<"hand", t, i>>
  BY DEF InHand, Mine, First
<1>4. \A x : x \in (UNION {InPosting(b, k) : k \in Keys}) <=> \E k \in Keys : x \in InPosting(b, k)
  OBVIOUS
<1>5. \A x : x \in (UNION {InHand(b, t) : t \in Writers}) <=> \E t \in Writers : x \in InHand(b, t)
  OBVIOUS
<1> QED
  BY <1>1, <1>2, <1>3, <1>4, <1>5 DEF PlacesOf, IsPool, IsPosting, IsHand

(* Before a restart, every block of the device is in exactly one place: a   *)
(* Put, Merge or Delete loses none and gives none back twice, whatever the  *)
(* calls of other heads take from m_blockAddresses meanwhile.               *)
THEOREM BlocksAreConserved == Spec => []BlocksConserved
<1>1. Inv /\ BlocksInv => BlocksConserved
  <2> SUFFICES ASSUME Inv, Sharing, NEW b \in Blocks
               PROVE  Cardinality(PlacesOf(b)) = 1
    BY DEF BlocksConserved, BlocksInv, PlacesOf
  <2>1. \A x : x \in PlacesOf(b) <=> IsPool(b, x) \/ IsPosting(b, x) \/ IsHand(b, x)
    BY PlaceOf
  <2>2. /\ SharedOut(Pool, Posted, Handed) /\ PoolOnce
        /\ \A k \in Keys : PostingOnce(k) /\ Posted[k] = PostingBlocks(k)
        /\ \A t \in Writers : HandOnce(t) /\ Handed[t] = HandBlocks(t)
    BY DEF Sharing, Posted, Handed
  <2>3. /\ (\E i \in DOMAIN free : free[i] = b) <=> b \in Pool
        /\ \A k \in Keys : ((\E i \in Counted(k) : heap[Current(k)].addr[i] = b) <=> b \in Posted[k])
        /\ \A t \in Writers : ((\E i \in Mine(t) : heap[loc[t].arr].addr[i] = b) <=> b \in Handed[t])
    BY <2>2 DEF Pool, PostingBlocks, HandBlocks
  <2>4. PlacesOf(b) # {}
    <3>1. b \in Pool \/ (\E k \in Keys : b \in Posted[k]) \/ (\E t \in Writers : b \in Handed[t])
      BY <2>2 DEF SharedOut
    <3>2. b \in Pool => \E x : IsPool(b, x)
      BY <2>3 DEF IsPool
    <3>3. (\E k \in Keys : b \in Posted[k]) => \E x : IsPosting(b, x)
      BY <2>3 DEF IsPosting
    <3>4. (\E t \in Writers : b \in Handed[t]) => \E x : IsHand(b, x)
      BY <2>3 DEF IsHand
    <3> QED
      BY <2>1, <3>1, <3>2, <3>3, <3>4
  <2>5. \A x, y : IsPool(b, x) /\ IsPool(b, y) => x = y
    BY <2>2 DEF PoolOnce, IsPool
  <2>6. \A x, y : IsPosting(b, x) /\ IsPosting(b, y) => x = y
    <3> SUFFICES ASSUME NEW x, NEW y, IsPosting(b, x), IsPosting(b, y) PROVE x = y
      OBVIOUS
    <3>1. PICK k \in Keys : \E i \in Counted(k) : heap[Current(k)].addr[i] = b /\ x = <<"posting", k, i>>
      BY DEF IsPosting
    <3>5. PICK i \in Counted(k) : heap[Current(k)].addr[i] = b /\ x = <<"posting", k, i>>
      BY <3>1
    <3>2. PICK j \in Keys : \E m \in Counted(j) : heap[Current(j)].addr[m] = b /\ y = <<"posting", j, m>>
      BY DEF IsPosting
    <3>6. PICK m \in Counted(j) : heap[Current(j)].addr[m] = b /\ y = <<"posting", j, m>>
      BY <3>2
    <3>3. k = j
      BY <2>2, <2>3, <3>5, <3>6 DEF SharedOut
    <3>4. i = m
      BY <2>2, <3>5, <3>6, <3>3 DEF PostingOnce
    <3> QED
      BY <3>5, <3>6, <3>3, <3>4
  <2>7. \A x, y : IsHand(b, x) /\ IsHand(b, y) => x = y
    <3> SUFFICES ASSUME NEW x, NEW y, IsHand(b, x), IsHand(b, y) PROVE x = y
      OBVIOUS
    <3>1. PICK t \in Writers : \E i \in Mine(t) : heap[loc[t].arr].addr[i] = b /\ x = <<"hand", t, i>>
      BY DEF IsHand
    <3>5. PICK i \in Mine(t) : heap[loc[t].arr].addr[i] = b /\ x = <<"hand", t, i>>
      BY <3>1
    <3>2. PICK u \in Writers : \E m \in Mine(u) : heap[loc[u].arr].addr[m] = b /\ y = <<"hand", u, m>>
      BY DEF IsHand
    <3>6. PICK m \in Mine(u) : heap[loc[u].arr].addr[m] = b /\ y = <<"hand", u, m>>
      BY <3>2
    <3>3. t = u
      BY <2>2, <2>3, <3>5, <3>6 DEF SharedOut
    <3>4. i = m
      BY <2>2, <3>5, <3>6, <3>3 DEF HandOnce
    <3> QED
      BY <3>5, <3>6, <3>3, <3>4
  <2>8. /\ \A x : IsPool(b, x) => b \in Pool
        /\ \A x : IsPosting(b, x) => \E k \in Keys : b \in Posted[k]
        /\ \A x : IsHand(b, x) => \E t \in Writers : b \in Handed[t]
    BY <2>3 DEF IsPool, IsPosting, IsHand
  <2>9. /\ \A x, y : ~(IsPool(b, x) /\ IsPosting(b, y))
        /\ \A x, y : ~(IsPool(b, x) /\ IsHand(b, y))
        /\ \A x, y : ~(IsPosting(b, x) /\ IsHand(b, y))
    BY <2>2, <2>8 DEF SharedOut
  <2>10. \A x, y \in PlacesOf(b) : x = y
    BY <2>1, <2>5, <2>6, <2>7, <2>9
  <2>11. Cardinality(PlacesOf(b)) = 1
    BY <2>4, <2>10, ExactlyOne
  <2> QED
    BY <2>11
<1>2. Init => Inv /\ BlocksInv
  BY InitInv, BlocksInit
<1>3. Inv /\ BlocksInv /\ [Next]_vars => Inv' /\ BlocksInv'
  BY NextInv, BlocksNext
<1> QED
  BY <1>1, <1>2, <1>3, PTL DEF Spec

----------------------------------------------------------------------------
(* Values that are appended *)

(* A sequence of items, one by one. *)
LEMMA AppendItems ==
    ASSUME NEW s \in Posts, NEW x \in Posts
    PROVE  /\ s \o x \in Posts /\ Len(s \o x) = Len(s) + Len(x)
           /\ Len(s) \in Nat /\ Len(x) \in Nat
           /\ \A p \in 1 .. Len(s) + Len(x) : (s \o x)[p] = IF p <= Len(s) THEN s[p] ELSE x[p - Len(s)]
<1> DEFINE S == Items \cup {Blank}
<1>1. s \in Seq(S) /\ x \in Seq(S)
  BY DEF Posts
<1> HIDE DEF S
<1>2. /\ Len(s \o x) = Len(s) + Len(x) /\ s \o x \in Seq(S)
      /\ \A p \in 1 .. Len(s) + Len(x) : (s \o x)[p] = IF p <= Len(s) THEN s[p] ELSE x[p - Len(s)]
  BY <1>1, ConcatProperties
<1> QED
  BY <1>1, <1>2 DEF Posts, S

(* Two postings with the same items are the same. *)
LEMMA SamePosts ==
    ASSUME NEW s \in Posts, NEW w \in Posts, Len(w) = Len(s), \A p \in 1 .. Len(s) : w[p] = s[p]
    PROVE  w = s
BY SeqEqual DEF Posts

(* The last block of a posting as far as it is filled. *)
LEMMA RestItems ==
    ASSUME NEW d \in [Blocks -> [1..PageSize -> Items \cup {Blank}]], NEW b \in Blocks,
           NEW q \in 0 .. PageSize - 1
    PROVE  /\ SubSeq(d[b], 1, q) \in Posts /\ Len(SubSeq(d[b], 1, q)) = q
           /\ \A i \in 1 .. q : SubSeq(d[b], 1, q)[i] = d[b][i]
<1>1. PICK w : w = d[b]
  OBVIOUS
<1>2. w \in [1..PageSize -> Items \cup {Blank}] /\ PageSize \in Nat
  BY <1>1, PageSizeType
<1>3. w \in Posts /\ Len(w) = PageSize
  BY <1>2 DEF Posts
<1>4. 1 \in 1 .. Len(w) + 1 /\ q \in 0 .. Len(w)
  BY <1>3, PageSizeType
<1>5. /\ SubSeq(w, 1, q) \in Posts /\ Len(SubSeq(w, 1, q)) = q
      /\ \A i \in 1 .. q : SubSeq(w, 1, q)[i] = w[i]
  <2>1. w \in Seq(Items \cup {Blank}) /\ q \in Int
    BY <1>3 DEF Posts
  <2>2. /\ SubSeq(w, 1, q) \in Seq(Items \cup {Blank})
        /\ Len(SubSeq(w, 1, q)) = IF 1 <= q THEN q - 1 + 1 ELSE 0
        /\ \A i \in 1 .. q - 1 + 1 : SubSeq(w, 1, q)[i] = w[1 + i - 1]
    BY <2>1, <1>4, SubSeqProperties
  <2>3. q - 1 + 1 = q /\ \A i \in 1 .. q : 1 + i - 1 = i
    BY <2>1
  <2> QED
    BY <2>1, <2>2, <2>3 DEF Posts
<1> QED
  BY <1>1, <1>5

(* A posting s of z items in full blocks and q more, and what Merge writes: *)
(* v, the q ones and x, is what follows the first z items of s \o x.        *)
SplitAt(s, z, q, r) == Len(s) = z + q /\ Len(r) = q /\ \A i \in 1 .. q : r[i] = s[z + i]
Joined(s, z, q, r, x, y, v) == SplitAt(s, z, q, r) /\ y = Len(x) /\ v = r \o x

Appends(s, z, q, x, y, v) ==
    /\ v \in Posts /\ Len(v) = q + y /\ s \o x \in Posts /\ Len(s \o x) = z + q + y
    /\ \A p \in 1 .. z + q + y : (s \o x)[p] = IF p <= z THEN s[p] ELSE v[p - z]

LEMMA AppendedItems ==
    ASSUME NEW z \in Nat, NEW q \in Nat, NEW s \in Posts, NEW r \in Posts,
           NEW x \in Posts, NEW y \in Nat, NEW v, Joined(s, z, q, r, x, y, v)
    PROVE  Appends(s, z, q, x, y, v)
<1> USE DEF SplitAt, Joined, Appends
<1>1. PICK n \in Nat : n = z + q /\ n = Len(s)
  OBVIOUS
<1>2. PICK u : u = s \o x
  OBVIOUS
<1>3. /\ v \in Posts /\ Len(v) = q + y
      /\ \A i \in 1 .. q + y : v[i] = IF i <= q THEN r[i] ELSE x[i - q]
  <2>1. /\ r \o x \in Posts /\ Len(r \o x) = Len(r) + Len(x)
        /\ \A p \in 1 .. Len(r) + Len(x) : (r \o x)[p] = IF p <= Len(r) THEN r[p] ELSE x[p - Len(r)]
    BY AppendItems
  <2> QED
    BY <2>1
<1>4. u \in Posts /\ Len(u) = n + y /\ \A p \in 1 .. n + y : u[p] = IF p <= n THEN s[p] ELSE x[p - n]
  <2>1. /\ s \o x \in Posts /\ Len(s \o x) = Len(s) + Len(x)
        /\ \A p \in 1 .. Len(s) + Len(x) : (s \o x)[p] = IF p <= Len(s) THEN s[p] ELSE x[p - Len(s)]
    BY AppendItems
  <2>2. \A p \in 1 .. n + y : (s \o x)[p] = IF p <= n THEN s[p] ELSE x[p - n]
    BY <1>1, <2>1
  <2> QED
    BY <1>1, <1>2, <2>1, <2>2
<1>5. ASSUME NEW p \in 1 .. z + q + y
      PROVE  (IF p <= z THEN s[p] ELSE v[p - z]) = IF p <= z + q THEN s[p] ELSE x[p - (z + q)]
  <2>1. CASE p <= z
    BY <2>1
  <2>2. CASE z < p /\ p <= z + q
    <3>1. PICK i \in 1 .. q : p = z + i
      <4>1. p - z \in 1 .. q /\ p = z + (p - z)
        BY <2>2
      <4> QED
        BY <4>1
    <3>2. i \in 1 .. q + y /\ i <= q /\ p - z = i
      BY <3>1
    <3>3. v[i] = s[p]
      BY <1>3, <3>1, <3>2
    <3> QED
      BY <2>2, <3>2, <3>3
  <2>3. CASE z + q < p
    <3>1. p - z \in 1 .. q + y /\ ~(p - z <= q) /\ p - z - q = p - (z + q)
      BY <2>3
    <3>2. v[p - z] = x[p - z - q]
      BY <1>3, <3>1
    <3> QED
      BY <2>3, <3>1, <3>2
  <2> QED
    BY <2>1, <2>2, <2>3
<1>6. \A p \in 1 .. z + q + y : u[p] = IF p <= z THEN s[p] ELSE v[p - z]
  <2>1. \A p \in 1 .. z + q + y : u[p] = IF p <= z + q THEN s[p] ELSE x[p - (z + q)]
    BY <1>1, <1>4
  <2> QED
    BY <1>5, <2>1
<1>7. Len(u) = z + q + y /\ u \in Posts
  BY <1>1, <1>4
<1> QED
  BY <1>2, <1>3, <1>6, <1>7

(* The items of a posting in its last block. *)
LEMMA LastItems ==
    ASSUME NEW m \in Nat, NEW i \in 1 .. m % PageSize
    PROVE  /\ (m \div PageSize) * PageSize + i \in 1 .. m
           /\ Cell((m \div PageSize) * PageSize + i) = (m \div PageSize) + 1
           /\ Place((m \div PageSize) * PageSize + i) = i
<1>1. PICK f \in Nat : f = m \div PageSize
  BY PagesRest
<1>2. PICK q \in 0 .. PageSize - 1 : q = m % PageSize
  BY PagesRest
<1>3. PICK z \in Nat : z = f * PageSize
  BY PageSizeType
<1>4. m = z + q
  BY <1>1, <1>2, <1>3, PagesRest
<1>5. i \in Nat /\ 1 <= i /\ i <= q
  BY <1>2
<1>6. i - 1 \in 0 .. PageSize - 1 /\ z + i - 1 = z + (i - 1) /\ z + i \in 1 .. m
  BY <1>2, <1>4, <1>5, PageSizeType
<1>7. (z + i - 1) \div PageSize = f /\ (z + i - 1) % PageSize = i - 1
  BY <1>3, <1>6, PageSizeType, Quotient
<1>8. Cell(z + i) = f + 1 /\ Place(z + i) = i
  BY <1>5, <1>7 DEF Cell, Place
<1> QED
  BY <1>1, <1>3, <1>6, <1>8

(* What Merge writes is the posting with its value appended: the full       *)
(* blocks, what is in the last one, and the value.                          *)
RestIn(d, a, m, f, q, z, r) ==
    /\ d \in [Blocks -> [1..PageSize -> Items \cup {Blank}]]
    /\ a.size = m /\ \A i \in 1 .. Pages(m) : a.addr[i] \in Blocks
    /\ f = m \div PageSize /\ q = m % PageSize /\ z = f * PageSize
    /\ r = IF q = 0 THEN <<>> ELSE SubSeq(d[a.addr[f + 1]], 1, q)

LEMMA RestOfPosting ==
    ASSUME NEW d, NEW a, NEW m \in Nat, NEW f \in Nat, NEW q \in 0 .. PageSize - 1,
           NEW z \in Nat, NEW r, RestIn(d, a, m, f, q, z, r)
    PROVE  r \in Posts /\ Len(r) = q /\ \A i \in 1 .. q : r[i] = ReadOf(d, a)[z + i]
<1> USE DEF RestIn
<1>1. q # 0 => Pages(m) = f + 1
  BY PagesRest
<1>2. \A i \in 1 .. q : z + i \in 1 .. m /\ Cell(z + i) = f + 1 /\ Place(z + i) = i
  BY LastItems
<1>3. \A p \in 1 .. m : ReadOf(d, a)[p] = d[a.addr[Cell(p)]][Place(p)]
  BY ReadType
<1>4. r \in Posts /\ Len(r) = q /\ \A i \in 1 .. q : r[i] = d[a.addr[f + 1]][i]
  <2>1. CASE q = 0
    <3>1. r = <<>>
      BY <2>1
    <3>2. 1 .. q = {}
      BY <2>1
    <3> QED
      BY <2>1, <3>1, <3>2 DEF Posts
  <2>2. CASE q # 0
    <3>1. f + 1 \in 1 .. Pages(m)
      BY <1>1, <2>2
    <3>2. a.addr[f + 1] \in Blocks
      BY <3>1
    <3>3. PICK b \in Blocks : b = a.addr[f + 1]
      BY <3>2
    <3>4. r = SubSeq(d[b], 1, q)
      BY <2>2, <3>3
    <3>5. /\ SubSeq(d[b], 1, q) \in Posts /\ Len(SubSeq(d[b], 1, q)) = q
          /\ \A i \in 1 .. q : SubSeq(d[b], 1, q)[i] = d[b][i]
      BY RestItems
    <3> QED
      BY <3>3, <3>4, <3>5
  <2> QED
    BY <2>1, <2>2
<1> QED
  BY <1>2, <1>3, <1>4

----------------------------------------------------------------------------
(* What calls write *)

(* The posting of a key as ReadBlocks returns it. *)
Here(k) == Current(k) # None /\ ~(heap[Current(k)].size < 0)
PostingOf(k) ==
    /\ ~Here(k) => Posting(k) = None
    /\ Here(k) => /\ Posting(k) = ReadOf(disk, heap[Current(k)])
                  /\ Posting(k) \in Posts /\ Posting(k) # None
                  /\ heap[Current(k)].size \in Nat /\ Len(Posting(k)) = heap[Current(k)].size
                  /\ Current(k) \in Arrays /\ Whole(Current(k))
                  /\ \A p \in 1 .. heap[Current(k)].size :
                        Posting(k)[p] = disk[heap[Current(k)].addr[Cell(p)]][Place(p)]

Postings == \A k \in Keys : PostingOf(k)

LEMMA PostingIs == Inv => Postings
<1> SUFFICES ASSUME Inv, NEW k \in Keys PROVE PostingOf(k)
  BY DEF Postings
<1>1. CASE ~Here(k)
  BY <1>1 DEF Here, PostingOf, Posting
<1>2. CASE Here(k)
  <2>1. PICK a : a = Current(k)
    OBVIOUS
  <2>2. a \in Arrays /\ Whole(a) /\ heap[a] \in Array
    BY <1>2, <2>1, CurrentWhole DEF Here, Inv, Types, SharedType
  <2>3. PICK n \in Nat : n = heap[a].size
    BY <1>2, <2>1, <2>2 DEF Here, Array
  <2>4. disk \in [Blocks -> [1..PageSize -> Items \cup {Blank}]]
    BY DEF Inv, Types, SharedType
  <2>5. \A i \in 1 .. Pages(n) : heap[a].addr[i] \in Blocks
    BY <2>2, <2>3 DEF Whole
  <2>6. /\ ReadOf(disk, heap[a]) \in Posts /\ Len(ReadOf(disk, heap[a])) = n
        /\ ReadOf(disk, heap[a]) # None
        /\ \A p \in 1 .. n : ReadOf(disk, heap[a])[p] = disk[heap[a].addr[Cell(p)]][Place(p)]
    BY <2>3, <2>4, <2>5, ReadType
  <2>7. Posting(k) = ReadOf(disk, heap[a])
    BY <1>2, <2>1 DEF Here, Posting, ReadBlocks, ReadOf, Cell, Place
  <2> QED
    BY <1>2, <2>1, <2>2, <2>3, <2>6, <2>7 DEF PostingOf
<1> QED
  BY <1>1, <1>2

(* And after a step. *)
LEMMA PostingIsNext == Inv' => \A k \in Keys : PostingOf(k)'
<1>1. Inv' => Postings'
  BY PostingIs, PTL
<1> QED
  BY <1>1 DEF Postings

(* What a call leaves under its key, where q is now: the value of Put, or   *)
(* q with the value of Merge appended.                                      *)
Leaves(l, q, s) ==
    \/ l.op = "put" /\ s \in PutValues[l.key]
    \/ l.op = "merge" /\ q # None /\ \E v \in MergeValues[l.key] : s = q \o v

(* The items in the blocks that the call does not write, and the promise of *)
(* a call: what is in them and what it writes make what it leaves.          *)
Before(l) == (First(l) - 1) * PageSize
Promises(l, q) ==
    /\ l.size = Before(l) + Len(l.value)
    /\ \E s \in Posts :
          /\ Leaves(l, q, s) /\ Len(s) = l.size
          /\ \A p \in 1 .. l.size : s[p] = IF p <= Before(l) THEN q[p] ELSE l.value[p - Before(l)]

(* The writes of a call to the device. *)
LEMMA WrittenBlocks ==
    ASSUME Inv, NEW t \in Writers, Write(t), HandOnce(t)
    PROVE  /\ \A b \in Blocks : b \notin HandBlocks(t) => disk'[b] = disk[b]
           /\ \A i \in First(loc[t]) .. loc[t].last :
                heap[loc[t].arr].addr[i] \in Blocks =>
                    disk'[heap[loc[t].arr].addr[i]] = Page(loc[t].value, i - (First(loc[t]) - 1))
<1> DEFINE l == loc[t]
           f == l.last - Pages(Len(l.value))
           cell(b) == {i \in f + 1 .. l.last : heap[l.arr].addr[i] = b}
<1>1. disk' = [b \in Blocks |-> IF cell(b) = {} THEN disk[b]
                                ELSE Page(l.value, (CHOOSE i \in cell(b) : TRUE) - f)]
  BY DEF Write
<1>2. pc[t] = "write" /\ l.next = l.last + 1
  BY DEF Write, Inv, Fitting, Fits, Ranges
<1>3. /\ First(l) \in Nat \ {0} /\ l.last \in Nat /\ First(l) = f + 1 /\ f \in Int
      /\ Mine(t) = First(l) .. l.last
  <2>1. /\ First(l) \in Nat \ {0} /\ l.last \in Nat /\ Mine(t) = First(l) .. l.next - 1 /\ l \in Local
    BY <1>2, CallCells
  <2>2. First(l) = l.last - Pages(Len(l.value)) + 1 /\ Pages(Len(l.value)) \in Nat
    BY <2>1, RangeTypes
  <2>3. f \in Int /\ First(l) = f + 1
    BY <2>1, <2>2
  <2> HIDE DEF l, f
  <2> QED
    BY <1>2, <2>1, <2>3
<1>4. \A b : b \in HandBlocks(t) <=> \E i \in f + 1 .. l.last : heap[l.arr].addr[i] = b
  BY <1>3 DEF HandBlocks
<1>5. ASSUME NEW b \in Blocks, b \notin HandBlocks(t) PROVE disk'[b] = disk[b]
  BY <1>1, <1>4, <1>5
<1>6. ASSUME NEW i \in First(l) .. l.last, heap[l.arr].addr[i] \in Blocks
      PROVE  disk'[heap[l.arr].addr[i]] = Page(l.value, i - (First(l) - 1))
  <2>1. PICK b \in Blocks : b = heap[l.arr].addr[i]
    BY <1>6
  <2>2. i \in cell(b)
    BY <1>3, <2>1
  <2>3. \A j \in cell(b) : j = i
    BY <1>3, <2>1 DEF HandOnce
  <2>4. (CHOOSE j \in cell(b) : TRUE) = i
    BY <2>2, <2>3
  <2>5. disk'[b] = Page(l.value, i - f)
    BY <1>1, <2>2, <2>4
  <2>6. f = First(l) - 1
    BY <1>3
  <2> QED
    BY <2>1, <2>5, <2>6
<1> QED
  BY <1>5, <1>6

(* The full blocks of the posting that Merge appends to. *)
LEMMA FullBlocks ==
    ASSUME Inv, Copies, NEW t \in Writers, pc[t] = "write", loc[t].op = "merge",
           NEW k, k = loc[t].key, NEW p \in Nat \ {0}, p <= Before(loc[t])
    PROVE  /\ Posting(k)[p] = disk[heap[loc[t].arr].addr[Cell(p)]][Place(p)]
           /\ heap[loc[t].arr].addr[Cell(p)] \in PostingBlocks(k)
<1>1. /\ Knows(pc[t], loc[t]) /\ Replaces(pc[t], loc[t]) /\ Copied(pc[t], loc[t])
      /\ loc[t].arr \in Arrays /\ First(loc[t]) \in Nat \ {0} /\ k \in Keys
  BY CallerKnows, CallCells DEF Inv, Fitting, Fits, Copies
<1>2. PICK o : o = IF loc[t].old = None THEN loc[t].arr ELSE loc[t].old
  OBVIOUS
<1>3. Current(k) = o /\ o \in Arrays /\ at[k] = o /\ o # None
  <2>1. at[k] = o
    BY <1>1, <1>2 DEF Knows, Filling
  <2>2. Current(k) = at[k]
    BY CurrentBy DEF Inv, Deleting
  <2>3. at[k] \in Arrays
    BY <1>1, CallWhole DEF Filling
  <2> QED
    BY <2>1, <2>2, <2>3, KeysType
<1>4. PICK m : m = heap[o].size
  OBVIOUS
<1>5. m >= 0 /\ First(loc[t]) = (m \div PageSize) + 1
  BY <1>1, <1>2, <1>4 DEF Replaces, Extends, Filling
<1>6. m \in Nat
  BY <1>3, <1>4, <1>5 DEF Inv, Types, SharedType, Array
<1>7. PICK f \in Nat : f = First(loc[t]) - 1
  BY <1>1
<1>8. f = m \div PageSize
  <2>1. m \div PageSize \in Nat
    BY <1>6, PagesRest
  <2> QED
    BY <1>5, <1>7, <2>1
<1>9. p <= f * PageSize
  BY <1>7 DEF Before
<1>10. f * PageSize <= m
  <2>1. m = (m \div PageSize) * PageSize + (m % PageSize) /\ m % PageSize \in 0 .. PageSize - 1
    BY <1>6, PagesRest
  <2>2. PICK q \in Nat : q = m % PageSize
    BY <2>1, PageSizeType
  <2>3. PICK z \in Int : z = f * PageSize
    BY PageSizeType
  <2>4. m = z + q
    BY <1>8, <2>1, <2>2, <2>3
  <2> QED
    BY <2>3, <2>4
<1>11. p \in 1 .. m
  <2>1. PICK z \in Int : z = f * PageSize
    BY PageSizeType
  <2> QED
    BY <1>6, <1>9, <1>10, <2>1
<1>12. Cell(p) \in 1 .. Pages(m) /\ Cell(p) \in Nat \ {0} /\ Cell(p) <= f
  BY <1>6, <1>9, <1>11, CellBound
<1>13. heap[loc[t].arr].addr[Cell(p)] = heap[o].addr[Cell(p)]
  <2>1. CASE loc[t].old = None
    BY <1>2, <2>1
  <2>2. CASE loc[t].old # None
    <3>1. \A i \in 1 .. First(loc[t]) - 1 : heap[loc[t].arr].addr[i] = heap[loc[t].old].addr[i]
      BY <1>1, <2>2 DEF Copied
    <3>2. Cell(p) \in 1 .. First(loc[t]) - 1
      BY <1>7, <1>12
    <3> QED
      BY <1>2, <2>2, <3>1, <3>2
  <2> QED
    BY <2>1, <2>2
<1>14. Posting(k)[p] = disk[heap[o].addr[Cell(p)]][Place(p)]
  <2>1. Here(k) /\ PostingOf(k)
    BY <1>1, <1>3, <1>4, <1>6, PostingIs DEF Here, Postings
  <2> QED
    BY <1>3, <1>4, <1>11, <2>1 DEF PostingOf
<1>15. Cell(p) \in Counted(k)
  BY <1>3, <1>4, <1>12 DEF Counted
<1> QED
  BY <1>3, <1>13, <1>14, <1>15 DEF PostingBlocks

(* Write keeps the promise, in the array that it filled. *)
LEMMA WrittenValue ==
    ASSUME Inv, Copies, Sharing, NEW t \in Writers, Write(t), NEW k, k = loc[t].key,
           Promises(loc[t], Posting(k))
    PROVE  /\ Leaves(loc[t], Posting(k), ReadOf(disk', heap'[loc[t].arr]))
           /\ heap'[loc[t].arr].size \in Nat
<1>1. /\ pc[t] = "write" /\ Knows(pc[t], loc[t]) /\ Ranges(pc[t], loc[t]) /\ Filled(pc[t], loc[t])
      /\ loc[t] \in Local /\ loc[t].arr \in Arrays /\ First(loc[t]) \in Nat \ {0} /\ k \in Keys
      /\ loc[t].last \in Nat
  BY CallerKnows, CallCells DEF Inv, Fitting, Fits, Write
<1>2. PICK f \in Nat : f = First(loc[t]) - 1
  BY <1>1
<1>3. PICK n \in Nat : n = loc[t].size
  BY <1>1 DEF Local
<1>4. PICK v \in Posts : v = loc[t].value
  BY <1>1 DEF Local
<1>5. PICK s \in Posts : /\ Leaves(loc[t], Posting(k), s) /\ Len(s) = n
                        /\ \A p \in 1 .. n : s[p] = IF p <= f * PageSize THEN Posting(k)[p]
                                                                      ELSE v[p - f * PageSize]
  BY <1>2, <1>3, <1>4 DEF Promises, Before
<1>6. n = f * PageSize + Len(v)
  BY <1>2, <1>3, <1>4 DEF Promises, Before
<1>7. PICK e : e = disk'
  OBVIOUS
<1>8. PICK c : c = heap'[loc[t].arr]
  OBVIOUS
<1>9. c.size = n /\ c.addr = heap[loc[t].arr].addr
  BY <1>3, <1>8, WriteHeap
<1>10. loc[t].last = Pages(n) /\ \A i \in 1 .. Pages(n) : c.addr[i] \in Blocks
  <2>1. loc[t].last = Pages(n) /\ loc[t].next = loc[t].last + 1
    BY <1>1, <1>3 DEF Ranges, Filling
  <2>2. \A i \in 1 .. loc[t].next - 1 : heap[loc[t].arr].addr[i] \in Blocks
    BY <1>1 DEF Filled, Filling
  <2>3. loc[t].next - 1 = Pages(n)
    BY <1>1, <2>1
  <2> QED
    BY <1>9, <2>1, <2>2, <2>3
<1>11. /\ \A b \in Blocks : b \notin HandBlocks(t) => e[b] = disk[b]
       /\ \A i \in First(loc[t]) .. loc[t].last : c.addr[i] \in Blocks => e[c.addr[i]] = Page(v, i - f)
  BY <1>2, <1>4, <1>7, <1>9, WrittenBlocks DEF Sharing
<1>12. \A i \in 1 .. Pages(n) : f < i => e[c.addr[i]] = Page(v, i - f)
  BY <1>1, <1>2, <1>10, <1>11
<1>13. ASSUME NEW p \in 1 .. n, Cell(p) <= f PROVE e[c.addr[Cell(p)]][Place(p)] = s[p]
  <2>1. p \in Nat \ {0} /\ Cell(p) \in Nat \ {0} /\ Cell(p) \in 1 .. Pages(n) /\ p <= f * PageSize
    BY <1>13, CellBound
  <2>2. s[p] = Posting(k)[p]
    BY <1>5, <2>1
  <2>3. loc[t].op = "merge"
    <3>1. loc[t].op \in {"put", "merge"} /\ (loc[t].op = "put" => First(loc[t]) = 1)
      BY <1>1 DEF Knows, Ranges, Filling
    <3>2. f # 0
      BY <1>13, <2>1
    <3> QED
      BY <1>2, <3>1, <3>2
  <2>4. p <= Before(loc[t])
    BY <1>2, <2>1 DEF Before
  <2>5. /\ Posting(k)[p] = disk[c.addr[Cell(p)]][Place(p)]
        /\ c.addr[Cell(p)] \in PostingBlocks(k)
    BY <1>1, <1>9, <2>1, <2>3, <2>4, FullBlocks
  <2>6. c.addr[Cell(p)] \notin HandBlocks(t)
    <3>1. PostingBlocks(k) \cap HandBlocks(t) = {}
      BY <1>1 DEF Sharing, SharedOut, Posted, Handed
    <3> QED
      BY <2>5, <3>1
  <2>7. e[c.addr[Cell(p)]] = disk[c.addr[Cell(p)]]
    BY <1>10, <1>11, <2>1, <2>6
  <2> QED
    BY <2>2, <2>5, <2>7
<1>14. \A p \in 1 .. n : IF Cell(p) <= f THEN e[c.addr[Cell(p)]][Place(p)] = s[p]
                                        ELSE s[p] = v[p - f * PageSize]
  <2>1. \A p \in 1 .. n : p <= f * PageSize <=> Cell(p) <= f
    BY CellBound
  <2> QED
    BY <1>5, <1>13, <2>1
<1>15. e \in [Blocks -> [1..PageSize -> Items \cup {Blank}]]
  BY <1>7, WriteDisk
<1>16. ReadOf(e, c) \in Posts /\ Len(ReadOf(e, c)) = n
  BY <1>9, <1>10, <1>15, ReadType
<1>17. \A p \in 1 .. n : ReadOf(e, c)[p] = s[p]
  <2>1. WrittenIn(e, c, n, f, v, s)
    BY <1>6, <1>9, <1>10, <1>12, <1>14 DEF WrittenIn
  <2> QED
    BY <2>1, WrittenCells
<1>18. ReadOf(e, c) = s
  BY <1>5, <1>16, <1>17, SamePosts
<1> QED
  BY <1>5, <1>7, <1>8, <1>9, <1>18

----------------------------------------------------------------------------
(* The store as a map *)

(* A call that has not given blocks back keeps its promise. *)
WritesOf(t) == \A k \in Keys : loc[t].key = k =>
    /\ pc[t] \in Growing \cup {"pop"} \cup Filling => Promises(loc[t], Posting(k))
    /\ pc[t] = "release" => Leaves(loc[t], Posting(k), ReadOf(disk, heap[loc[t].arr]))
Writes == \A t \in Writers : WritesOf(t)

(* The postings are in rows of the mapping, and so is what Put makes. *)
RoomsOf(t) ==
    /\ pc[t] = "grow" => loc[t].key < rows + loc[t].delta
    /\ pc[t] = "slot" => loc[t].key < rows
Rooms == /\ \A k \in Keys : at[k] # None => k < rows
         /\ \A t \in Writers : RoomsOf(t)

(* Nothing is written after a restart. *)
Frozen == restarts > 0 => ~WriteAfterRestart /\ \A t \in Writers : pc[t] = "idle"

StoreInv == Writes /\ Rooms /\ Frozen

(* What a step may do to the postings. *)
OthersSame(k) == \A j \in Keys \ {k} : Posting(j)' = Posting(j)
Effect(k) ==
    /\ OthersSame(k)
    /\ \/ Posting(k)' = Posting(k)
       \/ Posting(k)' \in PutValues[k]
       \/ Posting(k) # None /\ \E v \in MergeValues[k] : Posting(k)' = Posting(k) \o v
       \/ Posting(k) # None /\ Posting(k)' = None

(* One posting changes: the map changes there. *)
LEMMA StoreMaps ==
    ASSUME NEW k \in Keys, OthersSame(k), NEW v, Posting(k)' = v
    PROVE  [j \in Keys |-> Posting(j)]' = [[j \in Keys |-> Posting(j)] EXCEPT ![k] = v]
BY DEF OthersSame

(* So the step is one of the map, or none. *)
LEMMA EffectMaps ==
    ASSUME NEW k \in Keys, Effect(k)
    PROVE  KV!Next \/ UNCHANGED [j \in Keys |-> Posting(j)]
<1>1. [j \in Keys |-> Posting(j)][k] = Posting(k)
  OBVIOUS
<1>2. OthersSame(k)
  BY DEF Effect
<1>3. CASE Posting(k)' = Posting(k)
  BY <1>2, <1>3 DEF OthersSame
<1>4. CASE Posting(k)' \in PutValues[k]
  <2>1. PICK v \in PutValues[k] : Posting(k)' = v
    BY <1>4
  <2>2. KV!Put(k, v)
    BY <1>2, <2>1, StoreMaps DEF KV!Put
  <2> QED
    BY <2>2 DEF KV!Next
<1>5. CASE Posting(k) # None /\ \E v \in MergeValues[k] : Posting(k)' = Posting(k) \o v
  <2>1. PICK v \in MergeValues[k] : Posting(k)' = Posting(k) \o v
    BY <1>5
  <2>2. PICK w : w = Posting(k) \o v
    OBVIOUS
  <2>3. [j \in Keys |-> Posting(j)]' = [[j \in Keys |-> Posting(j)] EXCEPT ![k] = w]
    BY <1>2, <2>1, <2>2, StoreMaps
  <2>4. KV!Merge(k, v)
    BY <1>1, <1>5, <2>2, <2>3 DEF KV!Merge
  <2> QED
    BY <2>4 DEF KV!Next
<1>6. CASE Posting(k) # None /\ Posting(k)' = None
  <2>1. [j \in Keys |-> Posting(j)]' = [[j \in Keys |-> Posting(j)] EXCEPT ![k] = None]
    BY <1>2, <1>6, StoreMaps
  <2>2. KV!Delete(k)
    BY <1>1, <1>6, <2>1 DEF KV!Delete
  <2> QED
    BY <2>2 DEF KV!Next
<1> QED
  BY <1>3, <1>4, <1>5, <1>6 DEF Effect

(* A step writes only to new blocks. *)
LEMMA PostingCells ==
    ASSUME Inv, NEW k \in Keys, NEW i \in Counted(k)
    PROVE  heap[Current(k)].addr[i] \in Blocks /\ heap[Current(k)].addr[i] \in PostingBlocks(k)
<1>1. Current(k) # None /\ i \in 1 .. Pages(heap[Current(k)].size)
  BY DEF Counted
<1>2. Whole(Current(k))
  BY <1>1, CurrentWhole
<1> QED
  BY <1>1, <1>2 DEF Whole, PostingBlocks

(* Only Write writes, to the blocks that its call took from the pool. *)
LEMMA DiskStep ==
    ASSUME Inv, Sharing, NEW t \in Writers, Step(t)
    PROVE  \A b \in Blocks : b \notin HandBlocks(t) => disk'[b] = disk[b]
<1>1. CASE Write(t)
  BY <1>1, WrittenBlocks DEF Sharing
<1>2. CASE ~Write(t)
  <2>1. disk' = disk
    BY <1>2 DEF Step, Grow, Slot, Pop, GetBlock, Release, Swap, Recycle, DeleteSpare, DeleteUnmap
  <2> QED
    BY <2>1
<1> QED
  BY <1>1, <1>2

(* They are in no posting, *)
LEMMA StepSameDisk ==
    ASSUME Inv, Sharing, NEW t \in Writers, Step(t), NEW k \in Keys
    PROVE  SameDisk(k)
<1>1. PostingBlocks(k) \cap HandBlocks(t) = {}
  BY DEF Sharing, SharedOut, Posted, Handed
<1> QED
  BY <1>1, DiskStep, PostingCells DEF SameDisk

(* so no other posting changes. *)
LEMMA StepOthersSame ==
    ASSUME Inv, Sharing, NEW t \in Writers, Step(t), NEW k, LeavesOthers(t, k)
    PROVE  OthersSame(k)
BY StepSameDisk DEF LeavesOthers, OthersSame, SameValue

(* The blocks of the array that a call is about to swap in. *)
LEMMA ReplacingCells ==
    ASSUME Inv, Copies, NEW u \in Writers, pc[u] = "release"
    PROVE  /\ loc[u].arr \in Arrays /\ heap[loc[u].arr].size \in Nat
           /\ \A i \in 1 .. Pages(heap[loc[u].arr].size) :
                /\ heap[loc[u].arr].addr[i] \in Blocks
                /\ \/ heap[loc[u].arr].addr[i] \in HandBlocks(u)
                   \/ heap[loc[u].arr].addr[i] \in PostingBlocks(loc[u].key)
<1>1. /\ Knows(pc[u], loc[u]) /\ Ranges(pc[u], loc[u]) /\ Filled(pc[u], loc[u])
      /\ Replaces(pc[u], loc[u]) /\ Copied(pc[u], loc[u]) /\ loc[u] \in Local
      /\ loc[u].arr \in Arrays /\ loc[u].old \in Arrays /\ First(loc[u]) \in Nat \ {0}
      /\ Mine(u) = First(loc[u]) .. loc[u].next - 1 /\ loc[u].key \in Keys
      /\ loc[u].last \in Nat /\ loc[u].next \in Nat
  BY CallerKnows, CallCells DEF Inv, Fitting, Fits, Copies, Knows, Replacing
<1>2. heap[loc[u].arr].size = loc[u].size /\ loc[u].size \in Nat
  BY <1>1 DEF Filled, Replacing, Local
<1>3. loc[u].last = Pages(loc[u].size) /\ loc[u].next = loc[u].last + 1
  BY <1>1, KeysType DEF Ranges, Copied, Replacing
<1>4. Whole(loc[u].arr)
  <2>1. Hand(u) = loc[u].arr
    BY <1>1, KeysType DEF Hand, Replacing
  <2>2. \A w \in Writers : pc[w] \in Filling => Hand(w) # loc[u].arr
    <3>1. Hands[u] = Hand(u) /\ \A w \in Writers : Hands[w] = Hand(w)
      BY DEF Hands
    <3>2. OnceIn(Mapping, buffer, Hands)
      BY DEF Inv, Once
    <3> QED
      BY <1>1, <2>1, <3>1, <3>2, KeysType DEF OnceIn, Filling
  <2> QED
    BY <1>1, <2>2 DEF Inv, Wholes
<1>5. ASSUME NEW i \in 1 .. loc[u].last
      PROVE  \/ heap[loc[u].arr].addr[i] \in HandBlocks(u)
             \/ heap[loc[u].arr].addr[i] \in PostingBlocks(loc[u].key)
  <2>1. CASE i >= First(loc[u])
    <3>1. i \in Mine(u)
      BY <1>1, <1>3, <2>1
    <3> QED
      BY <3>1 DEF HandBlocks
  <2>2. CASE ~(i >= First(loc[u]))
    <3>1. i \in 1 .. First(loc[u]) - 1 /\ First(loc[u]) # 1
      BY <1>1, <2>2
    <3>2. loc[u].op = "merge"
      BY <1>1, <3>1 DEF Knows, Copied, Replacing
    <3>3. PICK m : m = heap[loc[u].old].size
      OBVIOUS
    <3>4. m >= 0 /\ First(loc[u]) = (m \div PageSize) + 1
      BY <1>1, <3>2, <3>3, KeysType DEF Replaces, Extends
    <3>5. m \in Nat
      BY <1>1, <3>3, <3>4 DEF Inv, Types, SharedType, Array
    <3>6. i \in 1 .. Pages(m)
      <4>1. m \div PageSize \in Nat /\ (Pages(m) = m \div PageSize \/ Pages(m) = (m \div PageSize) + 1)
        BY <3>5, PagesRest
      <4>2. PICK g \in Nat : g = m \div PageSize
        BY <4>1
      <4> QED
        BY <1>1, <3>1, <3>4, <4>1, <4>2
    <3>7. Current(loc[u].key) = loc[u].old
      BY <1>1, CurrentBy DEF Inv, Knows, Replacing, Deleting
    <3>8. i \in Counted(loc[u].key)
      BY <1>1, <3>3, <3>6, <3>7, KeysType DEF Counted
    <3>9. heap[loc[u].arr].addr[i] = heap[loc[u].old].addr[i]
      BY <1>1, <3>1, KeysType DEF Copied
    <3> QED
      BY <3>7, <3>8, <3>9 DEF PostingBlocks
  <2> QED
    BY <2>1, <2>2
<1> QED
  BY <1>1, <1>2, <1>3, <1>4, <1>5 DEF Whole

(* What a writer has promised is kept by the steps of the others. *)
LEMMA WritesKept ==
    ASSUME NEW u, WritesOf(u), pc'[u] = pc[u], loc'[u] = loc[u],
           \A k \in Keys : loc[u].key = k /\ pc[u] # "idle" => Posting(k)' = Posting(k),
           pc[u] = "release" => ReadOf(disk', heap'[loc[u].arr]) = ReadOf(disk, heap[loc[u].arr])
    PROVE  WritesOf(u)'
<1> SUFFICES ASSUME NEW k \in Keys, loc'[u].key = k
             PROVE  /\ pc'[u] \in Growing \cup {"pop"} \cup Filling => Promises(loc'[u], Posting(k)')
                    /\ pc'[u] = "release" =>
                         Leaves(loc'[u], Posting(k)', ReadOf(disk', heap'[loc'[u].arr]))
  BY DEF WritesOf
<1>1. /\ pc[u] \in Growing \cup {"pop"} \cup Filling => Promises(loc[u], Posting(k))
      /\ pc[u] = "release" => Leaves(loc[u], Posting(k), ReadOf(disk, heap[loc[u].arr]))
  BY DEF WritesOf
<1>2. pc[u] # "idle" => Posting(k)' = Posting(k)
  OBVIOUS
<1>3. pc'[u] \in Growing \cup {"pop"} \cup Filling => Promises(loc'[u], Posting(k)')
  BY <1>1, <1>2 DEF Growing, Filling
<1>4. pc'[u] = "release" => Leaves(loc'[u], Posting(k)', ReadOf(disk', heap'[loc'[u].arr]))
  BY <1>1, <1>2
<1> QED
  BY <1>3, <1>4

(* Neither what they promised to append to nor the array they fill changes. *)
LEMMA StepOthersWrites ==
    ASSUME Inv, Copies, Sharing, NEW t \in Writers, Step(t), NEW k, k = loc[t].key, OthersSame(k),
           NEW u \in Writers \ {t}, WritesOf(u)
    PROVE  WritesOf(u)'
<1>1. pc'[u] = pc[u] /\ loc'[u] = loc[u] /\ pc[t] # "idle"
  <2>1. Continues(t)
    BY StepOnce DEF Inv
  <2> QED
    BY <2>1 DEF Continues, Others, Threads
<1>2. pc[u] # "idle" => loc[u].key \in Keys \ {k}
  <2>1. pc[u] # "idle" => loc[u].key \in Keys
    BY CallerKnows DEF Inv
  <2> QED
    BY <1>1, <2>1 DEF Inv, Alone
<1>3. \A j \in Keys : loc[u].key = j /\ pc[u] # "idle" => Posting(j)' = Posting(j)
  BY <1>2 DEF OthersSame
<1>4. ASSUME pc[u] = "release"
      PROVE  ReadOf(disk', heap'[loc[u].arr]) = ReadOf(disk, heap[loc[u].arr])
  <2>1. PICK a \in Arrays : a = loc[u].arr
    BY <1>4, ReplacingCells
  <2>2. PICK n \in Nat : n = heap[a].size
    BY <1>4, <2>1, ReplacingCells
  <2>3. heap'[a] = heap[a]
    <3>1. a = MapOf(loc[u].key) \/ a = Hand(u)
      BY <1>4, <2>1, CallArrays DEF Inv, Replacing
    <3>2. /\ \A v \in Writers \ {t} : Hand(v) \notin Touched(t)
          /\ \A j \in Keys \ {loc[t].key} : MapOf(j) \notin Touched(t)
      BY TouchedIsMine DEF Inv
    <3>3. a \notin Touched(t)
      BY <1>2, <1>4, <3>1, <3>2
    <3> QED
      BY <3>3, HeapStep DEF Inv
  <2>4. ASSUME NEW i \in 1 .. Pages(n) PROVE disk'[heap[a].addr[i]] = disk[heap[a].addr[i]]
    <3>1. PICK b : b = heap[a].addr[i]
      OBVIOUS
    <3>2. b \in Blocks /\ (b \in HandBlocks(u) \/ b \in PostingBlocks(loc[u].key))
      BY <1>4, <2>1, <2>2, <3>1, ReplacingCells
    <3>3. HandBlocks(u) \cap HandBlocks(t) = {} /\ PostingBlocks(loc[u].key) \cap HandBlocks(t) = {}
      BY <1>2, <1>4 DEF Sharing, SharedOut, Posted, Handed
    <3>4. b \notin HandBlocks(t)
      BY <3>2, <3>3
    <3> QED
      BY <3>1, <3>2, <3>4, DiskStep
  <2>5. ReadOf(disk', heap'[a]) = ReadOf(disk, heap[a])
    BY <2>2, <2>3, <2>4, ReadSame
  <2> QED
    BY <2>1, <2>5
<1> QED
  BY <1>1, <1>3, <1>4, WritesKept

(* A call that goes on to fill cells makes the same promise. *)
LEMMA PromiseKept ==
    ASSUME NEW t, CallKept(t), NEW q, Promises(loc[t], q)
    PROVE  Promises(loc'[t], q)
<1>1. First(loc'[t]) = First(loc[t])
  BY SameRange
<1>2. Before(loc'[t]) = Before(loc[t])
  BY <1>1 DEF Before
<1>3. \A s : Leaves(loc'[t], q, s) <=> Leaves(loc[t], q, s)
  BY DEF Leaves, CallKept
<1> QED
  BY <1>2, <1>3 DEF Promises, CallKept

(* Grow, Slot, Pop and GetBlock are such steps. *)
LEMMA GrowthKeeps ==
    ASSUME Inv, NEW t \in Writers, Grow(t) \/ Slot(t) \/ Pop(t) \/ GetBlock(t), WritesOf(t),
           NEW k, k = loc[t].key, Posting(k)' = Posting(k)
    PROVE  WritesOf(t)'
<1>1. pc[t] \in Growing \cup {"pop"} \cup Filling /\ Step(t)
  BY DEF Grow, Slot, Pop, GetBlock, Growing, Filling, Step
<1>2. CallKept(t) /\ pc'[t] # "release"
  <2>1. CASE Grow(t)
    BY <2>1, GrowFrame DEF Inv, CallKept
  <2>2. CASE Slot(t)
    <3>1. SlotArray(t) \in Arrays
      BY <1>1, <2>2, StepOnce DEF Inv
    <3> QED
      BY <2>2, <3>1, SlotFrame DEF Inv, Fills
  <2>3. CASE Pop(t)
    BY <2>3, PopFrame DEF Inv, Fills
  <2>4. CASE GetBlock(t)
    BY <2>4, GetBlockFrame DEF Inv, Fills
  <2> QED
    BY <2>1, <2>2, <2>3, <2>4
<1>3. k \in Keys /\ loc'[t].key = k
  <2>1. pc[t] # "idle"
    BY <1>1 DEF Growing, Filling
  <2> QED
    BY <1>2, <2>1, CallerKnows DEF Inv, CallKept
<1>4. Promises(loc[t], Posting(k))
  BY <1>1, <1>3 DEF WritesOf
<1>5. Promises(loc'[t], Posting(k)')
  BY <1>2, <1>4, PromiseKept
<1> QED
  BY <1>2, <1>3, <1>5 DEF WritesOf

(* A call takes effect. *)
LEMMA LeavesEffect ==
    ASSUME NEW t, NEW k, k = loc[t].key, OthersSame(k), NEW s, Posting(k)' = s,
           Leaves(loc[t], Posting(k), s)
    PROVE  Effect(k)
BY DEF Leaves, Effect

(* Afterwards there is nothing left to promise. *)
LEMMA NoPromise ==
    ASSUME NEW t, pc'[t] \in {"idle", "swap", "recycle"} \cup Deleting
    PROVE  WritesOf(t)'
BY DEF WritesOf, Growing, Filling, Deleting

(* No step before the call takes effect changes a posting. *)
LEMMA MovelessEffect ==
    ASSUME Inv, Inv', Sharing, NEW t \in Writers, Moveless(t), NEW k, k = loc[t].key, k \in Keys,
           OthersSame(k), WritesOf(t)
    PROVE  Effect(k) /\ WritesOf(t)'
<1>1. Step(t) /\ SameValue(k)
  BY MovelessPosting DEF Moveless, Step
<1>2. Posting(k)' = Posting(k)
  BY <1>1, StepSameDisk DEF SameValue
<1>3. CASE Grow(t) \/ Slot(t) \/ Pop(t)
  BY <1>2, <1>3, GrowthKeeps DEF Effect
<1>4. CASE Swap(t) \/ Recycle(t) \/ DeleteSpare(t) \/ DeleteUnmap(t)
  <2>1. pc'[t] \in {"idle", "swap", "recycle"} \cup Deleting
    BY <1>4, SwapFrame, EndFrame, DeleteSpareFrame DEF Inv, Deleting
  <2> QED
    BY <1>2, <2>1, NoPromise DEF Effect
<1> QED
  BY <1>3, <1>4 DEF Moveless

LEMMA GetBlockEffect ==
    ASSUME Inv, Inv', Copies, Sharing, NEW t \in Writers, GetBlock(t), NEW k, k = loc[t].key, k \in Keys,
           OthersSame(k), WritesOf(t)
    PROVE  Effect(k) /\ WritesOf(t)'
<1>1. Step(t) /\ SameValue(k)
  BY GetBlockShares DEF Step
<1>2. Posting(k)' = Posting(k)
  BY <1>1, StepSameDisk DEF SameValue
<1> QED
  BY <1>2, GrowthKeeps DEF Effect

(* Write takes effect when it is done in place. *)
LEMMA WriteEffect ==
    ASSUME Inv, Inv', Copies, Sharing, NEW t \in Writers, Write(t), NEW k, k = loc[t].key, k \in Keys,
           OthersSame(k), WritesOf(t)
    PROVE  Effect(k) /\ WritesOf(t)'
<1>1. Step(t) /\ pc[t] = "write" /\ Promises(loc[t], Posting(k)) /\ loc[t].arr \in Arrays
  BY CallCells DEF Step, Write, WritesOf, Filling
<1>2. /\ Leaves(loc[t], Posting(k), ReadOf(disk', heap'[loc[t].arr]))
      /\ heap'[loc[t].arr].size \in Nat
  BY <1>1, WrittenValue
<1>3. CASE loc[t].old = None
  <2>1. pc'[t] = "idle" /\ at' = at
    BY <1>3, WriteFrame DEF Inv, Write
  <2>2. Current(k)' = loc[t].arr
    <3>1. Current(k)' = at[k]
      BY <1>1, <2>1, OwnCurrent DEF Deleting
    <3>2. at[k] = loc[t].arr
      BY <1>1, <1>3, CallerKnows DEF Inv, Knows, Filling
    <3> QED
      BY <3>1, <3>2
  <2>3. Posting(k)' = ReadOf(disk', heap'[loc[t].arr])
    <3>1. Here(k)'
      BY <1>1, <1>2, <2>2, KeysType DEF Here
    <3> QED
      BY <2>2, <3>1, PostingIsNext DEF PostingOf
  <2>4. Effect(k)
    BY <1>2, <2>3, LeavesEffect
  <2> QED
    BY <2>1, <2>4, NoPromise
<1>4. CASE loc[t].old # None
  <2>1. pc'[t] = "release" /\ loc'[t] = loc[t]
    BY <1>4, WriteFrame DEF Inv
  <2>2. Posting(k)' = Posting(k)
    <3>1. SameValue(k)
      BY <1>4, WriteNewShares
    <3> QED
      BY <1>1, <3>1, StepSameDisk DEF SameValue
  <2>3. Leaves(loc'[t], Posting(k)', ReadOf(disk', heap'[loc'[t].arr]))
    BY <1>2, <2>1, <2>2
  <2>4. WritesOf(t)'
    BY <2>1, <2>3 DEF WritesOf, Growing, Filling
  <2> QED
    BY <2>2, <2>4 DEF Effect
<1> QED
  BY <1>3, <1>4

(* Otherwise Release does, which gives the old blocks back. *)
LEMMA ReleaseEffect ==
    ASSUME Inv, Inv', Copies, Sharing, NEW t \in Writers, Release(t), NEW k, k = loc[t].key, k \in Keys,
           OthersSame(k), WritesOf(t)
    PROVE  Effect(k) /\ WritesOf(t)'
<1>1. /\ Step(t) /\ pc[t] = "release" /\ pc'[t] = "swap" /\ loc'[t] = loc[t]
      /\ heap' = heap /\ disk' = disk
  BY ReleaseFrame DEF Inv, Step, Release
<1>2. Leaves(loc[t], Posting(k), ReadOf(disk, heap[loc[t].arr]))
  BY <1>1 DEF WritesOf
<1>3. loc[t].arr \in Arrays /\ heap[loc[t].arr].size \in Nat
  BY <1>1, ReplacingCells
<1>4. Current(k)' = loc[t].arr
  BY <1>1, OwnCurrent
<1>5. Posting(k)' = ReadOf(disk', heap'[loc[t].arr])
  <2>1. Here(k)'
    BY <1>1, <1>3, <1>4, KeysType DEF Here
  <2> QED
    BY <1>4, <2>1, PostingIsNext DEF PostingOf
<1>6. Effect(k)
  BY <1>1, <1>2, <1>5, LeavesEffect
<1> QED
  BY <1>1, <1>6, NoPromise

(* Each step of a writer. *)
LEMMA StepEffect ==
    ASSUME Inv, Inv', Copies, Sharing, Writes, NEW t \in Writers, Step(t), NEW k, k = loc[t].key
    PROVE  k \in Keys /\ Effect(k) /\ Writes'
<1>1. LeavesOthers(t, k) /\ k \in Keys
  BY OthersShare DEF LeavesOthers
<1>2. OthersSame(k)
  BY <1>1, StepOthersSame
<1>3. WritesOf(t) /\ \A u \in Writers \ {t} : WritesOf(u)'
  BY <1>2, StepOthersWrites DEF Writes
<1>4. Effect(k) /\ WritesOf(t)'
  <2>1. CASE Moveless(t)
    BY <1>1, <1>2, <1>3, <2>1, MovelessEffect
  <2>2. CASE GetBlock(t)
    BY <1>1, <1>2, <1>3, <2>2, GetBlockEffect
  <2>3. CASE Write(t)
    BY <1>1, <1>2, <1>3, <2>3, WriteEffect
  <2>4. CASE Release(t)
    BY <1>1, <1>2, <1>3, <2>4, ReleaseEffect
  <2> QED
    BY <2>1, <2>2, <2>3, <2>4 DEF Step, Moveless
<1> QED
  BY <1>1, <1>3, <1>4 DEF Writes

----------------------------------------------------------------------------
(* Calls that begin *)

(* A call begins: only Delete takes effect then. *)
LEMMA BeginsOthers ==
    ASSUME Inv, Writes, NEW t \in Writers, NEW k \in Keys, Begins(t, k), heap' = heap, disk' = disk,
           LeavesOthers(t, k)
    PROVE  OthersSame(k) /\ \A u \in Writers \ {t} : WritesOf(u)'
<1>1. OthersSame(k)
  BY DEF LeavesOthers, SameValue, SameDisk, OthersSame
<1>2. ASSUME NEW u \in Writers \ {t} PROVE WritesOf(u)'
  <2>1. pc'[u] = pc[u] /\ loc'[u] = loc[u] /\ (pc[u] # "idle" => loc[u].key # k)
    BY DEF Begins, Others, Threads, Locked
  <2>2. \A j \in Keys : loc[u].key = j /\ pc[u] # "idle" => Posting(j)' = Posting(j)
    BY <1>1, <2>1 DEF OthersSame
  <2>3. ReadOf(disk', heap'[loc[u].arr]) = ReadOf(disk, heap[loc[u].arr])
    OBVIOUS
  <2> QED
    BY <2>1, <2>2, <2>3, WritesKept DEF Writes
<1> QED
  BY <1>1, <1>2

(* Put and Merge begin with a promise. *)
LEMMA BeginsSame ==
    ASSUME Inv, Writes, NEW t \in Writers, NEW k \in Keys, Begins(t, k), heap' = heap, disk' = disk,
           LeavesOthers(t, k), SameValue(k), pc'[t] \notin {"release"},
           Posting(k)' = Posting(k) => pc'[t] = "spare" \/ Promises(loc'[t], Posting(k))
    PROVE  Effect(k) /\ Writes'
<1>1. Posting(k)' = Posting(k)
  BY DEF SameValue, SameDisk
<1>2. OthersSame(k) /\ \A u \in Writers \ {t} : WritesOf(u)'
  BY BeginsOthers
<1>3. loc'[t].key = k
  BY DEF Begins
<1>4. pc'[t] \in Growing \cup {"pop"} \cup Filling => Promises(loc'[t], Posting(k)')
  BY <1>1 DEF Growing, Filling
<1>5. WritesOf(t)'
  BY <1>3, <1>4 DEF WritesOf
<1> QED
  BY <1>1, <1>2, <1>5 DEF Effect, Writes

(* That of Put is its value. *)
LEMMA PutEffect ==
    ASSUME Inv, Inv', Copies, Writes, NEW t \in Writers, NEW k \in Keys, NEW v \in PutValues[k], Put(t, k, v)
    PROVE  Effect(k) /\ Writes'
<1>1. Begins(t, k) /\ LeavesOthers(t, k) /\ SameValue(k)
  BY PutBegins, PutShares DEF Inv
<1>2. /\ pc'[t] = (IF k + 1 > rows THEN "grow" ELSE "slot") /\ v \in Seq(Items)
      /\ loc'[t].op = "put" /\ loc'[t].key = k /\ loc'[t].value = v
      /\ loc'[t].size = Len(v) /\ loc'[t].last = Pages(Len(v))
      /\ heap' = heap /\ disk' = disk
  BY PutFrame DEF Inv, Put
<1>3. v \in Posts /\ Len(v) \in Nat
  BY <1>2, SeqDef, ElementOfSeq DEF Posts
<1>4. Before(loc'[t]) = 0
  <2>1. PICK m : m = Pages(Len(v))
    OBVIOUS
  <2>2. m \in Nat
    BY <1>3, <2>1, PagesSmall
  <2>3. First(loc'[t]) = m - m + 1
    BY <1>2, <2>1 DEF First
  <2>4. First(loc'[t]) = 1
    BY <2>2, <2>3
  <2> QED
    BY <2>4, PageSizeType DEF Before
<1>5. ASSUME NEW q PROVE Promises(loc'[t], q)
  <2>1. Leaves(loc'[t], q, v)
    BY <1>2 DEF Leaves
  <2>2. \A p \in 1 .. Len(v) : ~(p <= 0) /\ p - 0 = p
    BY <1>3
  <2> QED
    BY <1>2, <1>3, <1>4, <2>1, <2>2 DEF Promises
<1> QED
  BY <1>1, <1>2, <1>5, BeginsSame

(* The cells that Merge fills begin after the full ones. *)
LEMMA MergeCells ==
    ASSUME Inv, Inv', NEW t \in Writers, NEW k \in Keys, NEW v \in MergeValues[k], Merge(t, k, v)
    PROVE  /\ First(loc'[t]) = (heap[at[k]].size \div PageSize) + 1
           /\ RestOf(at[k]) \in Posts
<1>1. Fits(pc[t], loc[t])' /\ RestOf(at[k]) \in Posts
  BY MergeFits
<1>2. /\ loc'[t].op = "merge" /\ heap' = heap /\ at[k] \in Arrays
      /\ \/ pc'[t] = "pop" /\ loc'[t].old = at[k]
         \/ pc'[t] = "get" /\ loc'[t].arr = at[k] /\ loc'[t].old = None
  BY <1>1, MergeFrame DEF Inv, Merge
<1>3. Replaces(pc[t], loc[t])'
  BY <1>1 DEF Fits
<1>4. PICK n : n = heap[at[k]].size
  OBVIOUS
<1>5. Extends(loc'[t], n)
  BY <1>2, <1>3, <1>4, KeysType DEF Replaces, Filling
<1> QED
  BY <1>1, <1>2, <1>4, <1>5 DEF Extends

(* That of Merge is the posting with its value appended. *)
LEMMA MergeEffect ==
    ASSUME Inv, Inv', Copies, Writes, NEW t \in Writers, NEW k \in Keys, NEW x \in MergeValues[k],
           Merge(t, k, x)
    PROVE  Effect(k) /\ Writes'
<1>1. First(loc'[t]) = (heap[at[k]].size \div PageSize) + 1 /\ RestOf(at[k]) \in Posts
  BY MergeCells
<1>2. Begins(t, k) /\ LeavesOthers(t, k) /\ SameValue(k) /\ ~Locked(k)
  BY <1>1, MergeBegins, MergeShares DEF Inv, Merge, Call
<1>3. PICK m : m = heap[at[k]].size
  OBVIOUS
<1>4. /\ at[k] \in Arrays /\ m \in Nat /\ x \in Seq(Items)
      /\ loc'[t].op = "merge" /\ loc'[t].key = k /\ loc'[t].value = RestOf(at[k]) \o x
      /\ loc'[t].size = m + Len(x) /\ pc'[t] \in {"pop", "get"}
      /\ heap' = heap /\ disk' = disk
  <2>1. heap' = heap /\ disk' = disk
    BY DEF Merge
  <2>2. /\ at[k] \in Arrays /\ heap[at[k]].size \in Nat /\ x \in Seq(Items)
        /\ loc'[t].op = "merge" /\ loc'[t].key = k /\ loc'[t].value = RestOf(at[k]) \o x
        /\ loc'[t].size = heap[at[k]].size + Len(x) /\ pc'[t] \in {"pop", "get"}
    BY <1>1, MergeFrame DEF Inv
  <2> QED
    BY <1>3, <2>1, <2>2
<1>5. x \in Posts /\ Len(x) \in Nat
  BY <1>4, SeqDef, ElementOfSeq DEF Posts
<1>6. PICK f \in Nat : f = m \div PageSize
  BY <1>4, PagesRest
<1>7. PICK q \in 0 .. PageSize - 1 : q = m % PageSize
  BY <1>4, PagesRest
<1>8. PICK z \in Nat : z = f * PageSize
  BY <1>6, PageSizeType
<1>9. q \in Nat /\ m = z + q
  <2>1. q \in Nat
    BY <1>7, PageSizeType
  <2> QED
    BY <1>4, <1>6, <1>7, <1>8, <2>1, PagesRest
<1>10. PICK s : s = Posting(k)
  OBVIOUS
<1>11. /\ s \in Posts /\ s # None /\ Len(s) = m /\ s = ReadOf(disk, heap[at[k]])
       /\ \A i \in 1 .. Pages(m) : heap[at[k]].addr[i] \in Blocks
  <2>1. Current(k) = at[k]
    BY <1>2, CurrentQuiet
  <2>2. Here(k) /\ PostingOf(k)
    BY <1>3, <1>4, <2>1, KeysType, PostingIs DEF Here, Postings
  <2> QED
    BY <1>3, <1>10, <2>1, <2>2 DEF PostingOf, Whole
<1>12. PICK r \in Posts : r = RestOf(at[k])
  BY <1>1
<1>13. Len(r) = q /\ \A i \in 1 .. q : r[i] = s[z + i]
  <2>1. r = IF q = 0 THEN <<>> ELSE SubSeq(disk[heap[at[k]].addr[f + 1]], 1, q)
    BY <1>3, <1>6, <1>7, <1>12 DEF RestOf
  <2>2. disk \in [Blocks -> [1..PageSize -> Items \cup {Blank}]]
    BY DEF Inv, Types, SharedType
  <2>3. PICK a : a = heap[at[k]]
    OBVIOUS
  <2>4. PICK d : d = disk
    OBVIOUS
  <2>5. /\ a.size = m /\ \A i \in 1 .. Pages(m) : a.addr[i] \in Blocks
        /\ r = IF q = 0 THEN <<>> ELSE SubSeq(d[a.addr[f + 1]], 1, q)
        /\ d \in [Blocks -> [1..PageSize -> Items \cup {Blank}]]
    BY <1>3, <1>11, <2>1, <2>2, <2>3, <2>4
  <2>6. Len(r) = q /\ \A i \in 1 .. q : r[i] = ReadOf(d, a)[z + i]
    <3>1. RestIn(d, a, m, f, q, z, r)
      BY <1>6, <1>7, <1>8, <2>5 DEF RestIn
    <3>2. m \in Nat
      BY <1>4
    <3> QED
      BY <3>1, <3>2, RestOfPosting
  <2> QED
    BY <1>11, <2>3, <2>4, <2>6
<1>14. PICK y \in Nat : y = Len(x)
  BY <1>5
<1>15. PICK v : v = r \o x
  OBVIOUS
<1>16. /\ v \in Posts /\ Len(v) = q + y /\ s \o x \in Posts /\ Len(s \o x) = z + q + y
       /\ \A p \in 1 .. z + q + y : (s \o x)[p] = IF p <= z THEN s[p] ELSE v[p - z]
  <2>1. SplitAt(s, z, q, r)
    BY <1>9, <1>11, <1>13 DEF SplitAt
  <2> QED
    <3>1. Joined(s, z, q, r, x, y, v)
      BY <1>14, <1>15, <2>1 DEF Joined
    <3>2. z \in Nat /\ q \in Nat /\ y \in Nat /\ s \in Posts /\ r \in Posts /\ x \in Posts
      BY <1>5, <1>9, <1>11
    <3>3. Appends(s, z, q, x, y, v)
      BY <3>1, <3>2, AppendedItems
    <3> QED
      BY <3>3 DEF Appends
<1>17. Promises(loc'[t], s)
  <2>1. loc'[t].value = v /\ loc'[t].size = z + q + y
    BY <1>4, <1>9, <1>12, <1>14, <1>15
  <2>2. Before(loc'[t]) = z
    <3>1. First(loc'[t]) = f + 1
      BY <1>1, <1>3, <1>6
    <3>2. First(loc'[t]) - 1 = f
      BY <3>1
    <3> QED
      BY <1>8, <3>2 DEF Before
  <2>3. loc'[t].size = Before(loc'[t]) + Len(loc'[t].value)
    <3>1. PICK w : w = Len(v)
      OBVIOUS
    <3>2. w = q + y
      BY <1>16, <3>1
    <3>3. z + q + y = z + w
      BY <1>9, <3>2
    <3> QED
      BY <2>1, <2>2, <3>1, <3>3
  <2>4. Leaves(loc'[t], s, s \o x)
    BY <1>4, <1>11 DEF Leaves
  <2>5. \A p \in 1 .. loc'[t].size :
             (s \o x)[p] = IF p <= Before(loc'[t]) THEN s[p] ELSE loc'[t].value[p - Before(loc'[t])]
    BY <1>16, <2>1, <2>2
  <2> QED
    BY <1>16, <2>1, <2>3, <2>4, <2>5 DEF Promises
<1> QED
  BY <1>2, <1>4, <1>10, <1>17, BeginsSame

(* Delete takes effect at once: its blocks are given back. *)
LEMMA DeleteEffect ==
    ASSUME Inv, Inv', Copies, Writes, NEW t \in Writers, NEW k \in Keys, Delete(t, k)
    PROVE  Effect(k) /\ Writes'
<1>1. Begins(t, k) /\ LeavesOthers(t, k) /\ ~Locked(k)
  BY DeleteBegins, DeleteShares DEF Inv, Delete, Call
<1>2. /\ pc'[t] = "spare" /\ loc'[t].key = k /\ at[k] \in Arrays /\ heap[at[k]].size >= 0
      /\ heap' = heap /\ disk' = disk
  BY DeleteFrame DEF Inv, Delete, Mapped
<1>3. OthersSame(k) /\ \A u \in Writers \ {t} : WritesOf(u)'
  BY <1>1, <1>2, BeginsOthers
<1>4. Posting(k) # None
  <2>1. Current(k) = at[k]
    BY <1>1, CurrentQuiet
  <2>2. heap[at[k]].size \in Nat
    BY <1>2 DEF Inv, Types, SharedType, Array
  <2>3. Here(k) /\ PostingOf(k)
    BY <1>2, <2>1, <2>2, KeysType, PostingIs DEF Here, Postings
  <2> QED
    BY <2>3 DEF PostingOf
<1>5. Posting(k)' = None
  <2>1. Current(k)' = None
    BY <1>2, CurrentByNext DEF Inv, Deleting
  <2> QED
    BY <2>1, PostingIsNext DEF PostingOf, Here
<1>6. WritesOf(t)'
  BY <1>2, NoPromise DEF Deleting
<1> QED
  BY <1>3, <1>4, <1>5, <1>6 DEF Effect, Writes

----------------------------------------------------------------------------
(* Rows, restarts, and the store *)

(* Rows are only added to the mapping. *)
LEMMA RoomsKept ==
    ASSUME NEW u, RoomsOf(u), pc'[u] = pc[u], loc'[u] = loc[u], rows \in Nat, rows' \in Nat, rows <= rows',
           pc[u] \in Growing => loc[u].key \in Nat /\ loc[u].delta \in Int
    PROVE  RoomsOf(u)'
<1>1. CASE pc[u] \in Growing
  <2>1. PICK k \in Nat : k = loc[u].key
    BY <1>1
  <2>2. PICK d \in Int : d = loc[u].delta
    BY <1>1
  <2>3. (pc[u] = "grow" => k < rows + d) /\ (pc[u] = "slot" => k < rows)
    BY <2>1, <2>2 DEF RoomsOf
  <2>4. (pc[u] = "grow" => k < rows' + d) /\ (pc[u] = "slot" => k < rows')
    <3>1. PICK m \in Nat : m = rows
      OBVIOUS
    <3>2. PICK n \in Nat : n = rows'
      OBVIOUS
    <3>3. m <= n
      BY <3>1, <3>2
    <3>4. (k < m => k < n) /\ (k < m + d => k < n + d)
      BY <3>3
    <3> QED
      BY <2>3, <3>1, <3>2, <3>4
  <2> QED
    BY <2>1, <2>2, <2>4 DEF RoomsOf
<1>2. CASE pc[u] \notin Growing
  BY <1>2 DEF RoomsOf, Growing
<1> QED
  BY <1>1, <1>2

(* The rows that a call has counted on stay, *)
LEMMA RoomsOthers ==
    ASSUME Inv, Rooms, NEW t \in Writers, Others(t), rows' \in Nat, rows <= rows'
    PROVE  \A u \in Writers \ {t} : RoomsOf(u)'
<1> SUFFICES ASSUME NEW u \in Writers \ {t} PROVE RoomsOf(u)'
  OBVIOUS
<1>1. pc'[u] = pc[u] /\ loc'[u] = loc[u] /\ RoomsOf(u) /\ rows \in Nat
  BY DEF Others, Threads, Rooms, Inv, Types, SharedType
<1>2. pc[u] \in Growing => loc[u].key \in Nat /\ loc[u].delta \in Int
  BY CallerKnows, KeysType DEF Inv, Knows, Local, Calling
<1> QED
  BY <1>1, <1>2, RoomsKept

(* and a step of a writer maps no key beyond them. *)
LEMMA RoomsStep ==
    ASSUME Inv, Inv', Rooms, NEW t \in Writers, Step(t)
    PROVE  Rooms'
<1> USE DEF Growing
<1>1. /\ Knows(pc[t], loc[t]) /\ loc[t] \in Local /\ Others(t) /\ rows \in Nat
      /\ RoomsOf(t) /\ \A k \in Keys : at[k] # None => k < rows
      /\ \A k \in Keys : at'[k] = at[k] \/ k = loc[t].key
  <2>1. Continues(t)
    BY StepOnce DEF Inv
  <2> QED
    BY <2>1, CallerKnows DEF Inv, Types, SharedType, Rooms, Continues
<1>2. CASE Grow(t)
  <2>1. pc[t] = "grow" /\ rows' = rows + loc[t].delta /\ at' = at
    BY <1>2 DEF Grow
  <2>2. Others(t) /\ pc'[t] = "slot" /\ loc'[t] = loc[t] /\ loc[t].delta \in Int
        /\ loc[t].delta > 0 /\ loc[t].key \in Nat
    BY <1>1, <1>2, <2>1, GrowFrame, KeysType DEF Inv, Knows, Calling, Local, Fitting, Fits, Ranges
  <2>3. PICK d \in Int : d = loc[t].delta
    BY <2>2
  <2>4. PICK k \in Nat : k = loc[t].key
    BY <2>2
  <2>5. rows' = rows + d /\ d > 0 /\ k < rows + d
    BY <1>1, <2>1, <2>2, <2>3, <2>4 DEF RoomsOf
  <2>6. rows' \in Nat /\ rows <= rows' /\ k < rows'
    <3>1. PICK m \in Nat : m = rows
      BY <1>1
    <3>2. m + d \in Nat /\ m <= m + d /\ k < m + d
      BY <2>5, <3>1
    <3> QED
      BY <2>5, <3>1, <3>2
  <2>7. RoomsOf(t)'
    BY <2>2, <2>4, <2>6 DEF RoomsOf
  <2>8. ASSUME NEW j \in Keys, at'[j] # None PROVE j < rows'
    <3>1. j < rows /\ j \in Nat
      BY <1>1, <2>1, <2>8, KeysType
    <3>2. PICK m \in Nat : m = rows
      BY <1>1
    <3>3. PICK n \in Nat : n = rows'
      BY <2>6
    <3>4. m <= n /\ j < m
      BY <2>6, <3>1, <3>2, <3>3
    <3> QED
      BY <3>1, <3>3, <3>4
  <2> QED
    BY <2>2, <2>6, <2>7, <2>8, RoomsOthers DEF Rooms
<1>3. CASE ~Grow(t)
  <2>1. rows' = rows
    BY <1>3 DEF Step, Slot, Pop, GetBlock, Write, Release, Swap, Recycle, DeleteSpare, DeleteUnmap
  <2>2. RoomsOf(t)'
    <3>1. pc'[t] \notin {"grow", "slot"}
      <4>1. CASE Slot(t)
        BY <4>1, StepOnce, SlotFrame DEF Fills, Inv, Step
      <4>2. CASE Pop(t) \/ GetBlock(t)
        BY <4>2, PopFrame, GetBlockFrame DEF Fills, Inv
      <4>3. CASE Write(t) \/ Release(t)
        BY <4>3, WriteFrame, ReleaseFrame DEF Inv
      <4>4. CASE Swap(t)
        BY <1>1, <4>4, SwapFrame DEF Inv, Swap, Knows, Calling, Replacing
      <4>5. CASE Recycle(t) \/ DeleteUnmap(t) \/ DeleteSpare(t)
        BY <4>5, EndFrame, DeleteSpareFrame DEF Inv
      <4> QED
        BY <1>3, <4>1, <4>2, <4>3, <4>4, <4>5 DEF Step
    <3> QED
      BY <3>1 DEF RoomsOf
  <2>3. at'[loc[t].key] # at[loc[t].key] => at'[loc[t].key] = None \/ loc[t].key < rows
    <3>1. CASE Slot(t)
      BY <1>1, <3>1 DEF RoomsOf, Slot
    <3>2. CASE Swap(t)
      <4>1. pc[t] = "swap"
        BY <3>2 DEF Swap
      <4>2. loc[t].key \in Keys /\ at[loc[t].key] \in Arrays
        BY <1>1, <4>1 DEF Knows, Calling, Replacing
      <4> QED
        BY <1>1, <4>2, KeysType
    <3>3. CASE DeleteUnmap(t)
      <4>1. loc[t].key \in Keys /\ at' = [at EXCEPT ![loc[t].key] = None]
        BY <1>1, <3>3 DEF Knows, Calling, Deleting, DeleteUnmap
      <4> QED
        BY <4>1 DEF Inv, Types, SharedType
    <3>4. CASE ~Slot(t) /\ ~Swap(t) /\ ~DeleteUnmap(t)
      BY <3>4 DEF Step, Grow, Pop, GetBlock, Write, Release, Recycle, DeleteSpare
    <3> QED
      BY <3>1, <3>2, <3>3, <3>4
  <2>4. \A k \in Keys : at'[k] # None => k < rows'
    BY <1>1, <2>1, <2>3
  <2> QED
    BY <1>1, <2>1, <2>2, <2>4, RoomsOthers DEF Rooms
<1> QED
  BY <1>2, <1>3

(* Put counts the rows that are missing. *)
LEMMA RoomsBegin ==
    ASSUME Inv, Rooms, NEW t \in Writers, NEW k \in Keys,
           \/ \E v \in PutValues[k] : Put(t, k, v)
           \/ \E v \in MergeValues[k] : Merge(t, k, v)
           \/ Delete(t, k)
    PROVE  Rooms'
<1>1. rows' = rows /\ at' = at /\ rows \in Nat /\ k \in Nat
  BY KeysType DEF Put, Merge, Delete, Inv, Types, SharedType
<1>2. Others(t) /\ RoomsOf(t)'
  <2>1. ASSUME NEW v \in PutValues[k], Put(t, k, v) PROVE Others(t) /\ RoomsOf(t)'
    <3>1. Others(t) /\ pc'[t] = (IF k + 1 > rows THEN "grow" ELSE "slot")
          /\ loc'[t].key = k /\ loc'[t].delta = k + 1 - rows
      BY <2>1, PutFrame DEF Inv
    <3>2. k < rows + (k + 1 - rows) /\ (~(k + 1 > rows) => k < rows)
      BY <1>1
    <3> QED
      BY <1>1, <3>1, <3>2 DEF RoomsOf
  <2>2. ASSUME NEW v \in MergeValues[k], Merge(t, k, v) PROVE Others(t) /\ RoomsOf(t)'
    <3>1. Others(t) /\ pc'[t] \in {"pop", "get"}
      BY <2>2, MergeFits, MergeFrame DEF Inv
    <3> QED
      BY <3>1 DEF RoomsOf
  <2>3. CASE Delete(t, k)
    BY <2>3, DeleteFrame DEF Inv, RoomsOf
  <2> QED
    BY <2>1, <2>2, <2>3
<1> QED
  BY <1>1, <1>2, RoomsOthers DEF Rooms

(* Reads, and steps of nobody. *)
LEMMA NobodyWrites ==
    ASSUME Inv, Inv', StoreInv, \A u \in Writers : pc'[u] = pc[u] /\ loc'[u] = loc[u],
           UNCHANGED <<rows, at, heap, free, disk, restarts>>
    PROVE  StoreInv' /\ \A k \in Keys : Posting(k)' = Posting(k)
<1>1. \A k \in Keys : Posting(k)' = Posting(k)
  <2>1. \A k \in Keys : SameValue(k)
    BY WritersKept
  <2> QED
    BY <2>1 DEF SameValue, SameDisk
<1>2. Writes'
  <2>1. ASSUME NEW u \in Writers PROVE WritesOf(u)'
    <3>1. WritesOf(u) /\ pc'[u] = pc[u] /\ loc'[u] = loc[u]
      BY DEF StoreInv, Writes
    <3>2. ReadOf(disk', heap'[loc[u].arr]) = ReadOf(disk, heap[loc[u].arr])
      OBVIOUS
    <3> QED
      BY <1>1, <3>1, <3>2, WritesKept
  <2> QED
    BY <2>1 DEF Writes
<1>3. Rooms'
  BY DEF StoreInv, Rooms, RoomsOf
<1>4. Frozen'
  BY DEF StoreInv, Frozen
<1> QED
  BY <1>1, <1>2, <1>3, <1>4 DEF StoreInv

(* The next process reads back what was saved. *)
LEMMA RestartSame ==
    ASSUME Inv, Inv', Rooms, Restart, NEW k \in Keys
    PROVE  Posting(k)' = Posting(k)
<1>1. /\ \A t \in Threads : pc[t] = "idle" /\ loc[t] = Idle
      /\ \A j \in Keys : at'[j] = IF j < rows THEN j + 1 ELSE None
      /\ \A a \in Arrays : heap'[a] =
            IF a <= Cardinality(Keys) /\ a <= rows THEN Saved(a - 1) ELSE NoArray
      /\ UNCHANGED <<rows, disk, pc, loc, calls>>
  BY RestartState
<1>2. Current(k) = at[k] /\ Current(k)' = at'[k]
  <2>1. ~Locked(k) /\ ~Locked(k)'
    BY <1>1 DEF Locked, Threads
  <2> QED
    BY <2>1, CurrentQuiet, CurrentQuietNext
<1>3. /\ (at[k] # None => k < rows) /\ PostingOf(k) /\ PostingOf(k)'
  BY PostingIs, PostingIsNext DEF Rooms, Postings
<1>4. CASE k < rows
  <2>1. k + 1 \in Arrays /\ k + 1 <= Cardinality(Keys) /\ k + 1 <= rows /\ k + 1 - 1 = k /\ k + 1 # None
    <3>1. k \in Nat /\ k + 1 \in 1 .. Cardinality(Keys) /\ k + 1 \in Arrays /\ rows \in Nat
      BY KeyRows DEF Inv, Types, SharedType
    <3> QED
      BY <1>4, <3>1, KeysType
  <2>2. at'[k] = k + 1 /\ heap'[k + 1] = Saved(k)
    <3>1. PICK a : a = k + 1
      OBVIOUS
    <3>2. a \in Arrays /\ a <= Cardinality(Keys) /\ a <= rows /\ a - 1 = k
      <4>1. a - 1 = k
        BY <3>1, KeysType
      <4> QED
        BY <2>1, <3>1, <4>1
    <3>3. heap'[a] = Saved(a - 1)
      BY <1>1, <3>2
    <3>4. Saved(a - 1) = Saved(k)
      BY <3>2
    <3> QED
      BY <1>1, <1>4, <3>1, <3>3, <3>4
  <2>3. CASE at[k] = None
    <3>1. heap'[at'[k]].size = -1
      BY <2>2, <2>3 DEF Saved, NoArray
    <3>2. ~Here(k)' /\ ~Here(k)
      BY <1>2, <2>3, <3>1 DEF Here
    <3> QED
      BY <1>3, <3>2 DEF PostingOf
  <2>4. CASE at[k] # None
    <3>1. heap'[at'[k]] = heap[at[k]] /\ at'[k] # None
      BY <2>1, <2>2, <2>4 DEF Saved
    <3>2. Here(k)' <=> Here(k)
      BY <1>2, <2>4, <3>1 DEF Here
    <3>3. ReadOf(disk', heap'[Current(k)']) = ReadOf(disk, heap[Current(k)])
      BY <1>1, <1>2, <3>1
    <3> QED
      BY <1>3, <3>2, <3>3 DEF PostingOf
  <2> QED
    BY <2>3, <2>4
<1>5. CASE ~(k < rows)
  <2>1. at[k] = None /\ at'[k] = None
    BY <1>1, <1>3, <1>5
  <2>2. ~Here(k)' /\ ~Here(k)
    BY <1>2, <2>1 DEF Here
  <2> QED
    BY <1>3, <2>2 DEF PostingOf
<1> QED
  BY <1>4, <1>5

(* No call is under way then, and none comes after it. *)
LEMMA RestartStore ==
    ASSUME ~WriteAfterRestart \/ MaxRestarts = 0, Inv, Inv', StoreInv, Restart
    PROVE  StoreInv' /\ \A k \in Keys : Posting(k)' = Posting(k)
<1>1. /\ \A t \in Writers : pc'[t] = "idle"
      /\ \A j \in Keys : at'[j] = IF j < rows THEN j + 1 ELSE None
      /\ rows' = rows
  BY RestartState DEF Threads
<1>2. ~WriteAfterRestart
  <2>1. restarts < MaxRestarts /\ restarts \in Nat
    BY DEF Restart, Inv, Types, SharedType
  <2> QED
    BY <2>1
<1>3. Writes'
  BY <1>1, NoPromise DEF Writes
<1>4. Rooms'
  BY <1>1 DEF Rooms, RoomsOf
<1>5. Frozen'
  BY <1>1, <1>2 DEF Frozen
<1> QED
  BY <1>3, <1>4, <1>5, RestartSame DEF StoreInv

(* Each step is one of the key value store, or leaves the postings alone. *)
LEMMA CallStore ==
    ASSUME Inv, Inv', BlocksInv, StoreInv, NEW t \in Writers, NEW k \in Keys,
           \/ \E v \in PutValues[k] : Put(t, k, v)
           \/ \E v \in MergeValues[k] : Merge(t, k, v)
           \/ Delete(t, k)
    PROVE  StoreInv' /\ Effect(k)
<1>1. Copies /\ Writes /\ Rooms
  BY DEF BlocksInv, StoreInv
<1>2. Effect(k) /\ Writes'
  BY <1>1, PutEffect, MergeEffect, DeleteEffect
<1>3. Rooms'
  BY <1>1, RoomsBegin
<1>4. Frozen'
  <2>1. restarts' = restarts /\ (restarts = 0 \/ WriteAfterRestart) /\ restarts \in Nat
    BY DEF Put, Merge, Delete, Call, Inv, Types, SharedType
  <2>2. restarts' = 0
    BY <2>1 DEF StoreInv, Frozen
  <2> QED
    BY <2>2 DEF Frozen
<1> QED
  BY <1>2, <1>3, <1>4 DEF StoreInv

(* So is each step of a call that goes on. *)
LEMMA StepStore ==
    ASSUME Inv, Inv', BlocksInv, StoreInv, NEW t \in Writers, Step(t), NEW k, k = loc[t].key
    PROVE  StoreInv' /\ k \in Keys /\ Effect(k)
<1>1. restarts' = restarts /\ restarts = 0
  <2>1. pc[t] # "idle"
    BY DEF Step, Grow, Slot, Pop, GetBlock, Write, Release, Swap, Recycle, DeleteSpare, DeleteUnmap
  <2>2. restarts' = restarts /\ restarts \in Nat
    BY DEF Step, Grow, Slot, Pop, GetBlock, Write, Release, Swap, Recycle, DeleteSpare, DeleteUnmap,
           Inv, Types, SharedType
  <2> QED
    BY <2>1, <2>2 DEF StoreInv, Frozen
<1>2. Copies /\ Sharing /\ Writes /\ Rooms
  BY <1>1 DEF BlocksInv, StoreInv
<1>3. k \in Keys /\ Effect(k) /\ Writes'
  BY <1>2, StepEffect
<1>4. Rooms' /\ Frozen'
  BY <1>1, <1>2, RoomsStep DEF Frozen
<1> QED
  BY <1>3, <1>4 DEF StoreInv

(* Every step. *)
LEMMA StoreNext ==
    ASSUME ~WriteAfterRestart \/ MaxRestarts = 0, Inv, Inv', BlocksInv, [Next]_vars, StoreInv
    PROVE  StoreInv' /\ (KV!Next \/ UNCHANGED [k \in Keys |-> Posting(k)])
<1>1. ASSUME NEW t \in Writers, NEW k \in Keys,
             \/ \E v \in PutValues[k] : Put(t, k, v)
             \/ \E v \in MergeValues[k] : Merge(t, k, v)
             \/ Delete(t, k)
      PROVE  StoreInv' /\ (KV!Next \/ UNCHANGED [j \in Keys |-> Posting(j)])
  BY <1>1, CallStore, EffectMaps
<1>2. ASSUME NEW t \in Writers, Step(t)
      PROVE  StoreInv' /\ (KV!Next \/ UNCHANGED [j \in Keys |-> Posting(j)])
  <2>1. PICK k : k = loc[t].key
    OBVIOUS
  <2> QED
    BY <1>2, <2>1, StepStore, EffectMaps
<1>3. ASSUME NEW r \in Readers, Read(r) \/ \E k \in Keys : ReadMapping(r, k)
      PROVE  StoreInv' /\ \A j \in Keys : Posting(j)' = Posting(j)
  <2>1. Reads(r)
    BY <1>3, ReadInv
  <2>2. (\A u \in Writers : pc'[u] = pc[u] /\ loc'[u] = loc[u])
        /\ UNCHANGED <<rows, at, heap, free, disk, restarts>>
    BY <2>1, Apart DEF Reads, Others, Threads
  <2> QED
    BY <2>2, NobodyWrites
<1>4. CASE Restart
  BY <1>4, RestartStore
<1>5. CASE UNCHANGED vars
  <2>1. (\A u \in Writers : pc'[u] = pc[u] /\ loc'[u] = loc[u])
        /\ UNCHANGED <<rows, at, heap, free, disk, restarts>>
    BY <1>5 DEF vars
  <2>2. StoreInv' /\ \A j \in Keys : Posting(j)' = Posting(j)
    BY <2>1, NobodyWrites
  <2> QED
    BY <2>2
<1> QED
  BY <1>1, <1>2, <1>3, <1>4, <1>5 DEF Next

(* The first process has no posting. *)
LEMMA StoreInit == Init => StoreInv /\ KV!Init
<1> SUFFICES ASSUME Init PROVE StoreInv /\ KV!Init
  OBVIOUS
<1>1. /\ \A t \in Threads : pc[t] = "idle"
      /\ \A k \in Keys : at[k] = None
      /\ restarts = 0
  BY DEF Init
<1>2. \A k \in Keys : Posting(k) = None
  BY <1>1 DEF Posting, Current, Writer, Threads
<1>3. StoreInv
  BY <1>1 DEF StoreInv, Writes, WritesOf, Rooms, RoomsOf, Frozen, Threads, Growing, Filling
<1> QED
  BY <1>2, <1>3 DEF KV!Init

(* The store is a key value store for all that anybody can read of it: every *)
(* step of Put, Merge, Delete, of a reader or of a restart is one Put, Merge *)
(* or Delete of one posting in KeyValueStore, or changes no posting; as long *)
(* as nothing is written after a restart.                                    *)
THEOREM StoreImplements ==
    ASSUME ~WriteAfterRestart \/ MaxRestarts = 0
    PROVE  Spec => Implements
<1>1. Init => Inv /\ BlocksInv /\ StoreInv /\ KV!Init
  BY InitInv, BlocksInit, StoreInit
<1>2. Inv /\ BlocksInv /\ StoreInv /\ [Next]_vars => Inv' /\ BlocksInv'
  BY NextInv, BlocksNext
<1>3. Inv /\ BlocksInv /\ StoreInv /\ [Next]_vars /\ Inv' =>
          StoreInv' /\ [KV!Next]_([k \in Keys |-> Posting(k)])
  BY StoreNext
<1> QED
  BY <1>1, <1>2, <1>3, PTL DEF Spec, Implements, KV!Spec
=============================================================================
