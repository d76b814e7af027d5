----------------------------- MODULE LireProofs -----------------------------
(***************************************************************************)
(* Proofs about the update protocol of SPFresh for any number of vectors,  *)
(* heads, client threads and background threads.                           *)
(***************************************************************************)
EXTENDS Lire, FiniteSetTheorems, SequenceTheorems, WellFoundedInduction, TLAPS

----------------------------------------------------------------------------
(* The inductive invariant *)

Appending == {"next", "append", "appended"}

(* Where the head at hand is a head. *)
HasHead == {"mergeFind", "mergeAdd", "append", "appended", "mergeTry"} \cup Splitting \cup InMerge

(* What a thread at label p knows of its local variables l, beyond their    *)
(* types: that the lists a step indexes are long enough.                    *)
Shape(p, l) ==
    /\ p \in Appending \cup Selecting => l.op \in {"insert", "reassign"}
    /\ l.op \in {"insert", "reassign"} => l.copy \in Copy
    /\ p \in HasHead => l.head \in Heads
    /\ p \in {"splitPut", "splitLink", "splitSize", "splitRetire", "splitErase", "collect"}
          => Len(l.parts) = 2
    /\ p = "splitPut" => Len(l.heads) \in {0, 1}
    /\ p \in {"splitLink", "splitSize"} => Len(l.heads) \in {1, 2}
    /\ p \in {"splitRetire", "splitErase", "collect"} => Len(l.heads) = 2
    /\ p = "rescan" => Len(l.parts) = Len(l.heads)
    /\ p \in {"mergeVisit", "mergeWith"} =>
          Len(l.parts) = 1 /\ Len(l.list) <= Len(l.parts[1])
    /\ p = "mergeWith" => l.prev \in Heads
    /\ p = "mergeReassign" => Len(l.heads) = 1

Shaped == \A t \in Threads : Shape(pc[t], loc[t])

(* TypeOK in two parts: the shared state, and the threads. *)
SharedType ==
    /\ added \in SUBSET Vids
    /\ version \in [Vids -> 0..255]
    /\ headState \in [Heads -> HeadStates]
    /\ posting \in [Heads -> Seq(Copy)]
    /\ size \in [Heads -> Nat]
    /\ lock \in [Slots -> Threads \cup {None}]
    /\ mergeLock \in Threads \cup {None}
    /\ splitList \in SUBSET Heads
    /\ mergeList \in SUBSET Heads
    /\ queue \in Seq(Job)
    /\ spent \in [reassigns : Nat, merges : Nat]
    /\ dropped \in SUBSET Vids

ThreadsType ==
    /\ pc \in [Threads -> Labels]
    /\ loc \in [Threads -> Loc]
    /\ Shaped

TypeInv == SharedType /\ ThreadsType

LEMMA TypeInvType == TypeInv => TypeOK
BY DEF TypeInv, SharedType, ThreadsType, TypeOK

----------------------------------------------------------------------------
(* Sequences *)

LEMMA SlotType == \A h \in Heads : LockOf(h) \in Slots
<1>1. LockSlots \in Nat \ {0}
  BY LireAssumption
<1> QED
  BY <1>1 DEF Heads, LockOf, Slots

(* A sublist is a sequence of the same kind, of as many elements as there   *)
(* are positions.                                                           *)
LEMMA SublistType ==
    ASSUME NEW S, NEW s \in Seq(S), NEW I \in SUBSET (DOMAIN s), NEW r \in Sublists(s, I)
    PROVE  r \in Seq(S) /\ Len(r) = Cardinality(I) /\ Len(r) <= Len(s)
<1> DEFINE n == Cardinality(I)
<1>1. DOMAIN s = 1..Len(s) /\ Len(s) \in Nat
  OBVIOUS
<1>2. IsFiniteSet(1..Len(s)) /\ Cardinality(1..Len(s)) = Len(s)
  <2> DEFINE m == Len(s)
  <2>1. m \in Nat
    BY <1>1
  <2> HIDE DEF m
  <2>2. IsFiniteSet(1..m) /\ Cardinality(1..m) = m
    BY <2>1, FS_Interval
  <2> QED
    BY <2>2 DEF m
<1>3. n \in Nat /\ n <= Len(s)
  BY <1>1, <1>2, FS_Subset, FS_CardinalityType
<1>4. PICK f \in [1..n -> I] : r = [i \in 1..n |-> s[f[i]]]
  BY DEF Sublists
<1>5. \A i \in 1..n : s[f[i]] \in S
  BY <1>1, <1>4
<1> HIDE DEF n
<1>6. r \in [1..n -> S]
  BY <1>4, <1>5
<1>7. r \in Seq(S) /\ Len(r) = n
  BY <1>3, <1>6, SeqDef, LenProperties
<1> QED
  BY <1>3, <1>7 DEF n

LEMMA LiveOfType ==
    ASSUME NEW s \in Seq(Copy), NEW r \in LiveOf(s)
    PROVE  r \in Seq(Copy) /\ Len(r) <= Len(s)
<1>1. LivePos(s) \in SUBSET (DOMAIN s)
  BY DEF LivePos
<1> QED
  BY <1>1, SublistType DEF LiveOf

LEMMA ClusteringType ==
    ASSUME NEW s \in Seq(Copy), NEW parts \in Clusterings(s)
    PROVE  parts \in Seq(Seq(Copy)) /\ Len(parts) = 2
<1>1. PICK I \in SUBSET (DOMAIN s) :
         parts \in Sublists(s, I) \X Sublists(s, (DOMAIN s) \ I)
  BY DEF Clusterings
<1>2. PICK a \in Sublists(s, I), b \in Sublists(s, (DOMAIN s) \ I) : parts = <<a, b>>
  BY <1>1
<1>3. a \in Seq(Copy) /\ b \in Seq(Copy)
  BY <1>2, SublistType
<1> QED
  BY <1>2, <1>3

(* NewHead is a free head if there is one. *)
LEMMA NewHeadType ==
    ASSUME FreeHeads # {}
    PROVE  NewHead \in FreeHeads
<1>1. FreeHeads \subseteq Nat
  BY DEF FreeHeads, Heads
<1> DEFINE R == OpToRel(<, Nat)
<1>2. IsWellFoundedOn(R, Nat) /\ \A g, h \in FreeHeads : g < h => <<g, h>> \in R
  BY <1>1, NatLessThanWellFounded DEF OpToRel
<1> HIDE DEF R
<1>3. \E h \in FreeHeads : \A g \in FreeHeads : ~ (<<g, h>> \in R)
  <2> DEFINE T == FreeHeads
  <2>1. T \subseteq Nat /\ T # {}
    BY <1>1
  <2> HIDE DEF T
  <2>2. \E h \in T : \A g \in T : ~ (<<g, h>> \in R)
    <3>1. IsWellFoundedOn(R, Nat)
      BY <1>2
    <3>2. \A U, V, W : IsWellFoundedOn(U, V) /\ W \subseteq V /\ W # {} =>
             \E x \in W : \A y \in W : ~ (<<y, x>> \in U)
      BY WFMin, Zenon
    <3> QED
      BY <3>1, <3>2, <2>1, Zenon
  <2> QED
    BY <2>2 DEF T
<1>4. \E h \in FreeHeads : \A g \in FreeHeads : h <= g
  <2>1. PICK h \in FreeHeads : \A g \in FreeHeads : ~ (<<g, h>> \in R)
    BY <1>3
  <2>2. ASSUME NEW g \in FreeHeads PROVE h <= g
    <3>1. ~ (g < h)
      BY <1>2, <2>1
    <3> QED
      BY <1>1, <3>1
  <2> QED
    BY <2>2
<1> QED
  BY <1>4 DEF NewHead

LEMMA SelectionType ==
    ASSUME NEW S \in RNGSelections
    PROVE  S \in SUBSET Heads
BY DEF RNGSelections, NearHeads, Searchable

LEMMA NextVersionByte ==
    ASSUME NEW v \in 0..255
    PROVE  NextVersion(v) \in 0..255
BY DEF NextVersion

LEMMA JobType ==
    /\ \A h \in Heads : SplitJob(h) \in Job
    /\ \A h \in Heads : \A r \in BOOLEAN : MergeJob(h, r) \in Job
    /\ \A c \in Copy : \A h \in Heads : ReassignJob(c, h) \in Job
BY DEF SplitJob, MergeJob, ReassignJob, Job

----------------------------------------------------------------------------
(* The ways a step changes the local variables of its thread *)

LEMMA IdleType == Idle \in Loc /\ Shape("idle", Idle)
BY DEF Idle, Loc, Shape, Fresh, Appending, Selecting, HasHead, Splitting, InMerge

LEMMA UpdateType ==
    ASSUME ThreadsType, NEW t \in Threads, NEW label \in Labels, NEW l \in Loc,
           Shape(label, l), Update(t, label, l)
    PROVE  ThreadsType'
<1>1. pc' = [pc EXCEPT ![t] = label] /\ loc' = [loc EXCEPT ![t] = l]
  BY DEF Update, Goto
<1>2. pc' \in [Threads -> Labels] /\ loc' \in [Threads -> Loc]
  BY <1>1 DEF ThreadsType
<1>3. ASSUME NEW u \in Threads PROVE Shape(pc'[u], loc'[u])
  <2>1. CASE u = t
    BY <1>1, <2>1 DEF ThreadsType
  <2>2. CASE u # t
    <3>1. pc'[u] = pc[u] /\ loc'[u] = loc[u] /\ Shape(pc[u], loc[u])
      BY <1>1, <2>2 DEF ThreadsType, Shaped
    <3> QED
      BY <3>1
  <2> QED
    BY <2>1, <2>2
<1> QED
  BY <1>2, <1>3 DEF ThreadsType, Shaped

LEMMA GotoType ==
    ASSUME ThreadsType, NEW t \in Threads, NEW label \in Labels,
           Shape(label, loc[t]), Goto(t, label), loc' = loc
    PROVE  ThreadsType'
<1>1. loc[t] \in Loc /\ loc' = [loc EXCEPT ![t] = loc[t]]
  BY DEF ThreadsType
<1> QED
  BY <1>1, UpdateType DEF Update

LEMMA DoneType ==
    ASSUME ThreadsType, NEW t \in Threads, Done(t)
    PROVE  ThreadsType'
<1>1. Update(t, "idle", Idle) /\ "idle" \in Labels
  BY DEF Done, Update, Goto, Labels
<1> QED
  BY <1>1, IdleType, UpdateType

LEMMA SplitDoneType ==
    ASSUME ThreadsType, NEW t \in Threads, SplitDone(t)
    PROVE  ThreadsType'
<1>1. CASE loc[t].op = "reassign"
  <2> DEFINE c == loc[t].copy
             S == loc[t].sel
             k == Idle
             l == [k EXCEPT !.op = "reassign", !.copy = c, !.sel = S]
  <2>1. /\ c \in Copy /\ c \in [vid : Vids \cup {None}, ver : 0..255]
        /\ S \in SUBSET Heads
    BY <1>1 DEF ThreadsType, Shaped, Shape, Loc
  <2>2. k \in Loc
    BY IdleType
  <2>3. Update(t, "next", l) /\ "next" \in Labels
    BY <1>1 DEF SplitDone, Update, Labels
  <2> HIDE DEF c, S, k
  <2>4. l \in Loc /\ l.op = "reassign" /\ l.copy = c
    BY <2>1, <2>2, ZenonT(60) DEF Loc
  <2> HIDE DEF l
  <2>5. Shape("next", l)
    BY <2>1, <2>4 DEF Shape, Appending, Selecting, HasHead, Splitting, InMerge
  <2> QED
    BY <2>3, <2>4, <2>5, UpdateType
<1>2. CASE loc[t].op # "reassign"
  BY <1>2, DoneType DEF SplitDone
<1> QED
  BY <1>1, <1>2

LEMMA ThreadType ==
    ASSUME ThreadsType, NEW t \in Threads
    PROVE  loc[t] \in Loc /\ pc[t] \in Labels /\ Shape(pc[t], loc[t])
BY DEF ThreadsType, Shaped

----------------------------------------------------------------------------
(* Every step preserves the invariant: the clients and Append *)

LEMMA AddIndexType ==
    ASSUME TypeInv, NEW t \in Clients, NEW v \in Vids, AddIndex(t, v)
    PROVE  TypeInv'
<1> DEFINE c == [vid |-> v, ver |-> version[v]]
           k == Idle
<1>1. c \in Copy /\ c \in [vid : Vids \cup {None}, ver : 0..255]
  BY DEF TypeInv, SharedType, Copy
<1>2. k \in Loc /\ t \in Threads
  BY IdleType DEF Threads
<1>3. PICK S \in RNGSelections :
         Update(t, "next", [k EXCEPT !.op = "insert", !.sel = S, !.copy = c])
  BY DEF AddIndex
<1>4. S \in SUBSET Heads
  BY <1>3, SelectionType
<1> HIDE DEF c, k
<1> DEFINE l == [k EXCEPT !.op = "insert", !.copy = c, !.sel = S]
<1>5. l \in Loc /\ l.op = "insert" /\ l.copy = c
  BY <1>1, <1>2, <1>4, ZenonT(60) DEF Loc
<1>6. Update(t, "next", l) /\ "next" \in Labels
  BY <1>3 DEF Labels
<1> HIDE DEF l
<1>7. Shape("next", l)
  BY <1>1, <1>5 DEF Shape, Appending, Selecting, HasHead, Splitting, InMerge
<1>8. ThreadsType'
  BY <1>2, <1>5, <1>6, <1>7, UpdateType DEF TypeInv
<1>9. SharedType'
  BY DEF AddIndex, TypeInv, SharedType
<1> QED
  BY <1>8, <1>9 DEF TypeInv

LEMMA DeleteType ==
    ASSUME TypeInv, NEW v \in Vids, Delete(v)
    PROVE  TypeInv'
BY DEF Delete, DELETED, TypeInv, SharedType, ThreadsType, Shaped

LEMMA SearchReadType ==
    ASSUME TypeInv, NEW t \in Clients, NEW h \in Heads, SearchRead(t, h)
    PROVE  TypeInv'
<1> DEFINE k == Idle
           l == [k EXCEPT !.op = "search", !.head = h]
<1>1. k \in Loc /\ t \in Threads
  BY IdleType DEF Threads
<1>2. Update(t, "mergeFind", l) /\ "mergeFind" \in Labels
  BY DEF SearchRead, Labels
<1> HIDE DEF k
<1>3. l \in Loc /\ l.op = "search" /\ l.head = h
  BY <1>1 DEF Loc
<1> HIDE DEF l
<1>4. Shape("mergeFind", l)
  BY <1>3 DEF Shape, Appending, Selecting
<1>5. ThreadsType'
  BY <1>1, <1>2, <1>3, <1>4, UpdateType DEF TypeInv
<1>6. spent' \in [reassigns : Nat, merges : Nat]
  <2>1. spent.merges \in Nat /\ spent.merges > 0 /\ spent' = [spent EXCEPT !.merges = @ - 1]
    BY DEF SearchRead, TypeInv, SharedType
  <2>2. spent.merges - 1 \in Nat
    BY <2>1
  <2> QED
    BY <2>1, <2>2 DEF TypeInv, SharedType
<1>7. SharedType'
  BY <1>6 DEF SearchRead, shared, TypeInv, SharedType
<1> QED
  BY <1>5, <1>7 DEF TypeInv

LEMMA SearchFindType ==
    ASSUME TypeInv, NEW t \in Threads, SearchFind(t)
    PROVE  TypeInv'
<1>1. SharedType'
  BY DEF SearchFind, shared, TypeInv, SharedType
<1>2. CASE Done(t)
  BY <1>1, <1>2, DoneType DEF TypeInv
<1>3. CASE Goto(t, "mergeAdd") /\ loc' = loc
  <2>1. Shape("mergeAdd", loc[t])
    BY ThreadType DEF SearchFind, TypeInv, Shape, Appending, Selecting, HasHead,
                      Splitting, InMerge
  <2>2. "mergeAdd" \in Labels
    BY DEF Labels
  <2> QED
    BY <1>1, <1>3, <2>1, <2>2, GotoType DEF TypeInv
<1> QED
  BY <1>2, <1>3 DEF SearchFind

LEMMA SearchAddType ==
    ASSUME TypeInv, NEW t \in Threads, SearchAdd(t)
    PROVE  TypeInv'
<1>1. loc[t].head \in Heads
  BY ThreadType DEF SearchAdd, TypeInv, Shape, HasHead
<1>2. MergeJob(loc[t].head, ~DisableReassign) \in Job
  BY <1>1, JobType
<1>3. queue' \in Seq(Job)
  BY <1>2, AppendProperties DEF SearchAdd, TypeInv, SharedType
<1>4. SharedType'
  BY <1>1, <1>3 DEF SearchAdd, TypeInv, SharedType
<1> QED
  BY <1>4, DoneType DEF SearchAdd, TypeInv

LEMMA NextReplicaType ==
    ASSUME TypeInv, NEW t \in Threads, NextReplica(t)
    PROVE  TypeInv'
<1> DEFINE k == loc[t]
<1>1. k \in Loc /\ k.op \in {"insert", "reassign"} /\ k.copy \in Copy
  BY ThreadType DEF NextReplica, TypeInv, Shape, Appending
<1>2. SharedType'
  BY DEF NextReplica, shared, TypeInv, SharedType
<1>3. CASE Done(t)
  BY <1>2, <1>3, DoneType DEF TypeInv
<1>4. ASSUME NEW h \in k.sel, Update(t, "append", [k EXCEPT !.head = h, !.sel = @ \ {h}])
      PROVE  ThreadsType'
  <2> DEFINE l == [k EXCEPT !.head = h, !.sel = @ \ {h}]
  <2>1. Update(t, "append", l) /\ "append" \in Labels
    BY <1>4 DEF Labels
  <2> HIDE DEF k
  <2>2. h \in Heads
    BY <1>1, <1>4 DEF Loc
  <2>3. l \in Loc /\ l.op = k.op /\ l.copy = k.copy /\ l.head = h
    BY <1>1, <2>2 DEF Loc
  <2> HIDE DEF l
  <2>4. Shape("append", l)
    BY <1>1, <2>2, <2>3 DEF Shape, Splitting, InMerge
  <2> QED
    BY <2>1, <2>3, <2>4, UpdateType DEF TypeInv
<1> QED
  BY <1>2, <1>3, <1>4 DEF NextReplica, TypeInv

(* An insert goes on with its next replica. *)
LEMMA ReplicaDone ==
    ASSUME TypeInv, NEW t \in Threads, pc[t] \in {"append", "appended"},
           Update(t, "next", [loc[t] EXCEPT !.head = 0])
    PROVE  ThreadsType'
<1> DEFINE k == loc[t]
           l == [k EXCEPT !.head = 0]
<1>1. k \in Loc /\ k.op \in {"insert", "reassign"} /\ k.copy \in Copy
  BY ThreadType DEF TypeInv, Shape, Appending
<1>2. Update(t, "next", l) /\ "next" \in Labels
  BY DEF Labels
<1> HIDE DEF k
<1>3. l \in Loc /\ l.op = k.op /\ l.copy = k.copy
  BY <1>1 DEF Loc
<1> HIDE DEF l
<1>4. Shape("next", l)
  BY <1>1, <1>3 DEF Shape, HasHead, Splitting, InMerge
<1> QED
  BY <1>2, <1>3, <1>4, UpdateType DEF TypeInv

LEMMA AppendMissType ==
    ASSUME TypeInv, NEW t \in Threads, AppendMiss(t)
    PROVE  TypeInv'
<1> DEFINE k == loc[t]
<1>1. /\ k \in Loc /\ k.op \in {"insert", "reassign"} /\ k.copy \in Copy
      /\ k.head \in Heads /\ pc[t] = "append"
  BY ThreadType DEF AppendMiss, TypeInv, Shape, Appending, HasHead
<1>2. ReassignJob(k.copy, k.head) \in Job
  BY <1>1, JobType
<1>3. queue' \in Seq(Job)
  BY <1>2, AppendProperties DEF AppendMiss, TypeInv, SharedType
<1>4. SharedType'
  BY <1>3 DEF AppendMiss, TypeInv, SharedType
<1> QED
  BY <1>4, DoneType, ReplicaDone DEF AppendMiss, TypeInv

LEMMA AppendMergeType ==
    ASSUME TypeInv, NEW t \in Threads, AppendMerge(t)
    PROVE  TypeInv'
<1> DEFINE h == loc[t].head
<1>1. h \in Heads /\ loc[t].copy \in Copy /\ Shape("append", loc[t]) /\ pc[t] = "append"
  BY ThreadType DEF AppendMerge, TypeInv, Shape, HasHead, Appending
<1>2. Append(posting[h], loc[t].copy) \in Seq(Copy) /\ size[h] + 1 \in Nat
  BY <1>1, AppendProperties DEF TypeInv, SharedType
<1>3. SharedType'
  BY <1>1, <1>2 DEF AppendMerge, TypeInv, SharedType
<1>4. Shape("appended", loc[t]) /\ "appended" \in Labels
  BY <1>1 DEF Shape, Appending, Selecting, HasHead, Splitting, InMerge, Labels
<1> QED
  BY <1>3, <1>4, GotoType DEF AppendMerge, TypeInv

LEMMA SplitAsyncType ==
    ASSUME TypeInv, NEW t \in Threads, SplitAsync(t)
    PROVE  TypeInv'
<1>1. loc[t].head \in Heads
  BY ThreadType DEF SplitAsync, TypeInv, Shape, HasHead
<1>2. SplitJob(loc[t].head) \in Job
  BY <1>1, JobType
<1>3. queue' \in Seq(Job)
  BY <1>2, AppendProperties DEF SplitAsync, TypeInv, SharedType
<1>4. SharedType'
  BY <1>1, <1>3 DEF SplitAsync, TypeInv, SharedType
<1> QED
  BY <1>4, ReplicaDone DEF SplitAsync, TypeInv

LEMMA AppendedType ==
    ASSUME TypeInv, NEW t \in Threads, Appended(t)
    PROVE  TypeInv'
<1>1. SharedType'
  BY DEF Appended, shared, TypeInv, SharedType
<1> QED
  BY <1>1, ReplicaDone DEF Appended, TypeInv

LEMMA SplitSyncType ==
    ASSUME TypeInv, NEW t \in Threads, SplitSync(t)
    PROVE  TypeInv'
<1> DEFINE k == loc[t]
           r == ~DisableReassign
           l == [k EXCEPT !.reassign = r]
<1>1. k \in Loc /\ k.op = "reassign" /\ k.copy \in Copy /\ k.head \in Heads
  BY ThreadType DEF SplitSync, TypeInv, Shape, HasHead
<1>2. Update(t, "splitLock", l) /\ "splitLock" \in Labels
  BY DEF SplitSync, Labels
<1>3. r \in BOOLEAN
  OBVIOUS
<1> HIDE DEF k, r
<1>4. l \in Loc /\ l.op = k.op /\ l.copy = k.copy /\ l.head = k.head
  BY <1>1, <1>3 DEF Loc
<1> HIDE DEF l
<1>5. Shape("splitLock", l)
  BY <1>1, <1>4 DEF Shape, Appending, Selecting
<1>6. ThreadsType'
  BY <1>2, <1>4, <1>5, UpdateType DEF TypeInv
<1>7. SharedType'
  BY DEF SplitSync, shared, TypeInv, SharedType
<1> QED
  BY <1>6, <1>7 DEF TypeInv

----------------------------------------------------------------------------
(* Every step preserves the invariant: the workers and Reassign *)

LEMMA TakeType ==
    ASSUME TypeInv, NEW t \in Workers, Take(t)
    PROVE  TypeInv'
<1> DEFINE j == Head(queue)
           k == Idle
<1>1. k \in Loc /\ t \in Threads /\ Shape("idle", k)
  BY IdleType DEF Threads
<1>2. j \in Job /\ Tail(queue) \in Seq(Job)
  BY HeadTailProperties DEF Take, TypeInv, SharedType
<1>3. SharedType'
  BY <1>2 DEF Take, TypeInv, SharedType
<1>4. CASE j.type = "split"
  <2> DEFINE r == ~DisableReassign
             l == [k EXCEPT !.op = "split", !.head = j.head, !.reassign = r]
  <2>1. j.head \in Heads /\ r \in BOOLEAN
    BY <1>2, <1>4 DEF Job
  <2>2. Update(t, "splitLock", l) /\ "splitLock" \in Labels
    BY <1>4 DEF Take, Labels
  <2> HIDE DEF j, k, r
  <2>3. l \in Loc /\ l.op = "split" /\ l.head = j.head
    BY <1>1, <2>1 DEF Loc
  <2> HIDE DEF l
  <2>4. Shape("splitLock", l)
    BY <2>1, <2>3 DEF Shape, Appending, Selecting
  <2> QED
    BY <1>1, <1>3, <2>2, <2>3, <2>4, UpdateType DEF TypeInv
<1>5. CASE j.type = "merge"
  <2> DEFINE l == [k EXCEPT !.op = "merge", !.head = j.head, !.reassign = j.reassign]
  <2>1. j.head \in Heads /\ j.reassign \in BOOLEAN
    BY <1>2, <1>5 DEF Job
  <2>2. Update(t, "mergeTry", l) /\ "mergeTry" \in Labels
    BY <1>5 DEF Take, Labels
  <2> HIDE DEF j, k
  <2>3. l \in Loc /\ l.op = "merge" /\ l.head = j.head
    BY <1>1, <2>1 DEF Loc
  <2> HIDE DEF l
  <2>4. Shape("mergeTry", l)
    BY <2>1, <2>3 DEF Shape, Appending, Selecting
  <2> QED
    BY <1>1, <1>3, <2>2, <2>3, <2>4, UpdateType DEF TypeInv
<1>6. CASE j.type = "reassign"
  <2> DEFINE l == [k EXCEPT !.op = "reassign", !.copy = j.copy, !.prev = j.prev]
  <2>1. /\ j.copy \in Copy /\ j.copy \in [vid : Vids \cup {None}, ver : 0..255]
        /\ j.prev \in Heads
    BY <1>2, <1>6 DEF Job, Copy
  <2>2. Update(t, "reassign", l) /\ "reassign" \in Labels
    BY <1>6 DEF Take, Labels
  <2> HIDE DEF j, k
  <2>3. l \in Loc /\ l.op = "reassign" /\ l.copy = j.copy
    BY <1>1, <2>1 DEF Loc
  <2> HIDE DEF l
  <2>4. Shape("reassign", l)
    BY <2>1, <2>3 DEF Shape, HasHead, Splitting, InMerge
  <2> QED
    BY <1>1, <1>3, <2>2, <2>3, <2>4, UpdateType DEF TypeInv
<1>7. j.type \in {"split", "merge", "reassign"}
  BY <1>2 DEF Job
<1> QED
  BY <1>4, <1>5, <1>6, <1>7

LEMMA ReassignSelectType ==
    ASSUME TypeInv, NEW t \in Threads, ReassignSelect(t)
    PROVE  TypeInv'
<1> DEFINE k == loc[t]
<1>1. k \in Loc /\ k.op \in {"insert", "reassign"} /\ k.copy \in Copy
  BY ThreadType DEF ReassignSelect, TypeInv, Shape, Selecting
<1>2. SharedType'
  BY DEF ReassignSelect, shared, TypeInv, SharedType
<1>3. ASSUME NEW S \in RNGSelections, Update(t, "reassignCheck", [k EXCEPT !.sel = S])
      PROVE  ThreadsType'
  <2> DEFINE l == [k EXCEPT !.sel = S]
  <2>1. S \in SUBSET Heads
    BY <1>3, SelectionType
  <2>2. Update(t, "reassignCheck", l) /\ "reassignCheck" \in Labels
    BY <1>3 DEF Labels
  <2> HIDE DEF k
  <2>3. l \in Loc /\ l.op = k.op /\ l.copy = k.copy
    BY <1>1, <2>1 DEF Loc
  <2> HIDE DEF l
  <2>4. Shape("reassignCheck", l)
    BY <1>1, <2>3 DEF Shape, HasHead, Splitting, InMerge
  <2> QED
    BY <2>2, <2>3, <2>4, UpdateType DEF TypeInv
<1> QED
  BY <1>2, <1>3, DoneType DEF ReassignSelect, TypeInv

LEMMA ReassignCheckType ==
    ASSUME TypeInv, NEW t \in Threads, ReassignCheck(t)
    PROVE  TypeInv'
<1>1. SharedType'
  BY DEF ReassignCheck, shared, TypeInv, SharedType
<1>2. Shape("bump", loc[t]) /\ "bump" \in Labels
  BY ThreadType DEF ReassignCheck, TypeInv, Shape, Appending, Selecting, HasHead,
     Splitting, InMerge, Labels
<1> QED
  BY <1>1, <1>2, DoneType, GotoType DEF ReassignCheck, TypeInv

LEMMA ReassignBumpType ==
    ASSUME TypeInv, NEW t \in Threads, ReassignBump(t)
    PROVE  TypeInv'
<1> DEFINE k == loc[t]
           c == k.copy
           new == NextVersion(version[c.vid])
           l == [k EXCEPT !.copy.ver = new]
<1>1. k \in Loc /\ k.op \in {"insert", "reassign"} /\ c \in Copy
  BY ThreadType DEF ReassignBump, TypeInv, Shape, Selecting
<1>2. c.vid \in Vids
  BY <1>1 DEF Copy
<1>3. new \in 0..255
  BY <1>2, NextVersionByte DEF TypeInv, SharedType
<1>4. SharedType'
  BY <1>2, <1>3 DEF ReassignBump, TypeInv, SharedType
<1>5. Update(t, "next", l) /\ "next" \in Labels
  BY DEF ReassignBump, Labels
<1> HIDE DEF new, k
<1>6. [c EXCEPT !.ver = new] \in Copy
  BY <1>1, <1>3 DEF Copy
<1>7. l \in Loc /\ l.op = k.op /\ l.copy = [c EXCEPT !.ver = new]
  BY <1>1, <1>3 DEF Loc
<1> HIDE DEF l, c
<1>8. Shape("next", l)
  BY <1>1, <1>6, <1>7 DEF Shape, HasHead, Splitting, InMerge
<1> QED
  BY <1>4, <1>5, <1>7, <1>8, UpdateType DEF TypeInv

----------------------------------------------------------------------------
(* Every step preserves the invariant: Split *)

LEMMA AcquireType ==
    ASSUME TypeInv, NEW t \in Threads, NEW h \in Heads, Acquire(t, LockOf(h))
    PROVE  lock' \in [Slots -> Threads \cup {None}]
BY SlotType DEF Acquire, TypeInv, SharedType

LEMMA UnlockedType ==
    ASSUME TypeInv, NEW t \in Threads
    PROVE  Unlocked(t) \in [Slots -> Threads \cup {None}]
BY DEF Unlocked, TypeInv, SharedType

LEMMA LocPut ==
    ASSUME NEW k \in Loc, NEW parts \in Seq(Seq(Copy)), NEW same \in 0..2, NEW hs \in Seq(Heads)
    PROVE  [k EXCEPT !.parts = parts, !.same = same, !.heads = hs] \in Loc
BY DEF Loc

LEMMA SplitLockType ==
    ASSUME TypeInv, NEW t \in Threads, SplitLock(t)
    PROVE  TypeInv'
<1> DEFINE k == loc[t]
           h == k.head
<1>1. /\ k \in Loc /\ h \in Heads /\ pc[t] = "splitLock"
      /\ k.op \in {"insert", "reassign"} => k.copy \in Copy
  BY ThreadType DEF SplitLock, TypeInv, Shape, HasHead, Splitting
<1>2. SharedType'
  BY <1>1, AcquireType DEF SplitLock, shared, TypeInv, SharedType
<1>3. ASSUME NEW list \in Seq(Copy), Update(t, "splitBack", [k EXCEPT !.list = list])
      PROVE  ThreadsType'
  <2> DEFINE l == [k EXCEPT !.list = list]
  <2>1. Update(t, "splitBack", l) /\ "splitBack" \in Labels
    BY <1>3 DEF Labels
  <2> HIDE DEF k
  <2>2. l \in Loc /\ l.op = k.op /\ l.copy = k.copy /\ l.head = k.head
    BY <1>1 DEF Loc
  <2> HIDE DEF l
  <2>3. Shape("splitBack", l)
    BY <1>1, <2>2 DEF Shape, Appending, Selecting
  <2> QED
    BY <2>1, <2>2, <2>3, UpdateType DEF TypeInv
<1>4. ASSUME NEW list \in Seq(Copy), NEW parts \in Clusterings(list), NEW same \in 0..2,
             Update(t, "splitPut", [k EXCEPT !.parts = parts, !.same = same, !.heads = <<>>])
      PROVE  ThreadsType'
  <2> DEFINE e == <<>>
             l == [k EXCEPT !.parts = parts, !.same = same, !.heads = e]
  <2>1. parts \in Seq(Seq(Copy)) /\ Len(parts) = 2
    BY ClusteringType
  <2>2. e \in Seq(Heads) /\ Len(e) = 0
    OBVIOUS
  <2>3. Update(t, "splitPut", l) /\ "splitPut" \in Labels
    BY <1>4 DEF Labels
  <2> HIDE DEF k, e
  <2>4. /\ l \in Loc
        /\ l.op = k.op /\ l.copy = k.copy /\ l.head = k.head
        /\ l.parts = parts /\ l.heads = e
    <3>1. l \in Loc
      BY <1>1, <2>1, <2>2, LocPut
    <3>2. /\ l.op = k.op /\ l.copy = k.copy /\ l.head = k.head
          /\ l.parts = parts /\ l.heads = e
      BY <1>1 DEF Loc
    <3> QED
      BY <3>1, <3>2
  <2> HIDE DEF l
  <2>5. Shape("splitPut", l)
    BY <1>1, <2>1, <2>2, <2>4 DEF Shape, Appending, Selecting, InMerge
  <2> QED
    BY <2>3, <2>4, <2>5, UpdateType DEF TypeInv
<1>5. posting[h] \in Seq(Copy)
  BY <1>1 DEF TypeInv, SharedType
<1>6. \A list \in LiveOf(posting[h]) :
         list \in Seq(Copy) /\ \A c \in CopiesIn(list) : <<c>> \in Seq(Copy)
  <2>1. \A list \in LiveOf(posting[h]) : list \in Seq(Copy)
    BY <1>5, LiveOfType
  <2>2. \A list \in Seq(Copy) : \A c \in CopiesIn(list) : c \in Copy
    BY DEF CopiesIn
  <2> QED
    BY <2>1, <2>2
<1> QED
  BY <1>2, <1>3, <1>4, <1>6 DEF SplitLock, TypeInv

LEMMA SplitBackType ==
    ASSUME TypeInv, NEW t \in Threads, SplitBack(t)
    PROVE  TypeInv'
<1>1. loc[t] \in Loc /\ loc[t].head \in Heads
  BY ThreadType DEF SplitBack, TypeInv, Shape, HasHead, Splitting
<1>2. loc[t].list \in Seq(Copy) /\ Len(loc[t].list) \in Nat
  BY <1>1 DEF Loc
<1>3. SharedType'
  BY <1>1, <1>2, UnlockedType DEF SplitBack, TypeInv, SharedType
<1> QED
  BY <1>3, SplitDoneType DEF SplitBack, TypeInv

LEMMA OneMore == \A n \in {0, 1} : n + 1 \in 1..2 /\ n + 1 \in {1, 2}
OBVIOUS

LEMMA OneOrTwo == \A n \in {1, 2} : n \in 1..n
OBVIOUS

(* A thread that has written one more cluster. *)
LEMMA PartDone ==
    ASSUME NEW k \in Loc, NEW h \in Heads, Len(k.parts) = 2, k.head \in Heads,
           k.op \in {"insert", "reassign"} => k.copy \in Copy, Len(k.heads) \in {0, 1}
    PROVE  /\ [k EXCEPT !.heads = Append(k.heads, h)] \in Loc
           /\ Shape(AfterPart(Append(k.heads, h)), [k EXCEPT !.heads = Append(k.heads, h)])
           /\ Shape("splitLink", [k EXCEPT !.heads = Append(k.heads, h)])
<1> DEFINE hs == Append(k.heads, h)
           l == [k EXCEPT !.heads = hs]
<1>1. hs \in Seq(Heads) /\ Len(hs) \in {1, 2}
  <2>1. k.heads \in Seq(Heads)
    BY DEF Loc
  <2>2. hs \in Seq(Heads) /\ Len(hs) = Len(k.heads) + 1
    BY <2>1, AppendProperties
  <2> QED
    BY <2>2, OneMore
<1> HIDE DEF hs
<1>2. /\ l \in Loc /\ l.op = k.op /\ l.copy = k.copy /\ l.head = k.head
      /\ l.parts = k.parts /\ l.heads = hs
  BY <1>1 DEF Loc
<1> HIDE DEF l
<1>3. Shape(AfterPart(hs), l) /\ Shape("splitLink", l)
  BY <1>1, <1>2 DEF Shape, AfterPart, Appending, Selecting, InMerge
<1> QED
  BY <1>2, <1>3 DEF hs, l

LEMMA AfterPartLabel == \A hs : AfterPart(hs) \in Labels /\ "splitLink" \in Labels
BY DEF AfterPart, Labels

LEMMA SplitPutSameType ==
    ASSUME TypeInv, NEW t \in Threads, SplitPutSame(t)
    PROVE  TypeInv'
<1> DEFINE l == loc[t]
           k == Len(l.heads) + 1
<1>1. /\ l \in Loc /\ l.head \in Heads /\ Len(l.parts) = 2 /\ Len(l.heads) \in {0, 1}
      /\ l.op \in {"insert", "reassign"} => l.copy \in Copy
  BY ThreadType DEF SplitPutSame, TypeInv, Shape, HasHead, Splitting
<1>2. l.parts[k] \in Seq(Copy) /\ Len(l.parts[k]) \in Nat
  <2>1. l.parts \in Seq(Seq(Copy))
    BY <1>1 DEF Loc
  <2>2. k \in 1..Len(l.parts)
    BY <1>1, OneMore
  <2>3. l.parts[k] \in Seq(Copy)
    BY <2>1, <2>2, ElementOfSeq
  <2> QED
    BY <2>3
<1>3. SharedType'
  BY <1>1, <1>2 DEF SplitPutSame, TypeInv, SharedType
<1> DEFINE hs == Append(l.heads, l.head)
<1>4. Update(t, AfterPart(hs), [l EXCEPT !.heads = hs])
  BY DEF SplitPutSame
<1>5. [l EXCEPT !.heads = hs] \in Loc /\ Shape(AfterPart(hs), [l EXCEPT !.heads = hs])
  BY <1>1, PartDone
<1>6. ThreadsType'
  BY <1>4, <1>5, AfterPartLabel, UpdateType DEF TypeInv
<1> QED
  BY <1>3, <1>6 DEF TypeInv

LEMMA SplitPutNewType ==
    ASSUME TypeInv, NEW t \in Threads, SplitPutNew(t)
    PROVE  TypeInv'
<1> DEFINE l == loc[t]
           k == Len(l.heads) + 1
<1>1. /\ l \in Loc /\ l.head \in Heads /\ Len(l.parts) = 2 /\ Len(l.heads) \in {0, 1}
      /\ l.op \in {"insert", "reassign"} => l.copy \in Copy
  BY ThreadType DEF SplitPutNew, TypeInv, Shape, HasHead, Splitting
<1>2. l.parts[k] \in Seq(Copy)
  <2>1. l.parts \in Seq(Seq(Copy))
    BY <1>1 DEF Loc
  <2>2. k \in 1..Len(l.parts)
    BY <1>1, OneMore
  <2> QED
    BY <2>1, <2>2, ElementOfSeq
<1>3. NewHead \in Heads
  BY NewHeadType DEF SplitPutNew, FreeHeads
<1>4. SharedType'
  BY <1>2, <1>3 DEF SplitPutNew, TypeInv, SharedType, HeadStates
<1> DEFINE hs == Append(l.heads, NewHead)
<1>5. Update(t, "splitLink", [l EXCEPT !.heads = hs])
  BY DEF SplitPutNew
<1>6. [l EXCEPT !.heads = hs] \in Loc /\ Shape("splitLink", [l EXCEPT !.heads = hs])
  BY <1>1, <1>3, PartDone
<1>7. ThreadsType'
  BY <1>5, <1>6, AfterPartLabel, UpdateType DEF TypeInv
<1> QED
  BY <1>4, <1>7 DEF TypeInv

LEMMA SplitLinkType ==
    ASSUME TypeInv, NEW t \in Threads, SplitLink(t)
    PROVE  TypeInv'
<1> DEFINE l == loc[t]
<1>1. /\ l \in Loc /\ l.head \in Heads /\ Len(l.parts) = 2 /\ Len(l.heads) \in {1, 2}
      /\ l.op \in {"insert", "reassign"} => l.copy \in Copy
  BY ThreadType DEF SplitLink, TypeInv, Shape, HasHead, Splitting
<1>2. LastHead(l) \in Heads
  <2>1. l.heads \in Seq(Heads)
    BY <1>1 DEF Loc
  <2> QED
    BY <1>1, <2>1, OneOrTwo, ElementOfSeq DEF LastHead
<1>3. SharedType'
  BY <1>2 DEF SplitLink, TypeInv, SharedType, HeadStates
<1>4. Shape("splitSize", l) /\ "splitSize" \in Labels
  BY <1>1 DEF Shape, Appending, Selecting, InMerge, Labels
<1> QED
  BY <1>3, <1>4, GotoType DEF SplitLink, TypeInv

LEMMA SplitSizeType ==
    ASSUME TypeInv, NEW t \in Threads, SplitSize(t)
    PROVE  TypeInv'
<1> DEFINE l == loc[t]
           m == Len(l.heads)
<1>1. /\ l \in Loc /\ l.head \in Heads /\ Len(l.parts) = 2 /\ m \in {1, 2}
      /\ l.op \in {"insert", "reassign"} => l.copy \in Copy
  BY ThreadType DEF SplitSize, TypeInv, Shape, HasHead, Splitting
<1>2. LastHead(l) \in Heads
  <2>1. l.heads \in Seq(Heads)
    BY <1>1 DEF Loc
  <2> QED
    BY <1>1, <2>1, OneOrTwo, ElementOfSeq DEF LastHead
<1>3. Len(l.parts[m]) \in Nat
  <2>1. l.parts \in Seq(Seq(Copy))
    BY <1>1 DEF Loc
  <2>2. m \in 1..Len(l.parts)
    BY <1>1
  <2>3. l.parts[m] \in Seq(Copy)
    BY <2>1, <2>2, ElementOfSeq
  <2> QED
    BY <2>3
<1>4. SharedType'
  BY <1>2, <1>3 DEF SplitSize, TypeInv, SharedType
<1>5. Shape(AfterPart(l.heads), l)
  BY <1>1 DEF Shape, AfterPart, Appending, Selecting, InMerge
<1> QED
  BY <1>4, <1>5, AfterPartLabel, GotoType DEF SplitSize, TypeInv

LEMMA SplitRetireType ==
    ASSUME TypeInv, NEW t \in Threads, SplitRetire(t)
    PROVE  TypeInv'
<1> DEFINE l == loc[t]
<1>1. /\ l \in Loc /\ l.head \in Heads /\ Len(l.parts) = 2 /\ Len(l.heads) = 2
      /\ l.op \in {"insert", "reassign"} => l.copy \in Copy
  BY ThreadType DEF SplitRetire, TypeInv, Shape, HasHead, Splitting
<1>2. SharedType'
  <2>1. headState \in [Heads -> HeadStates] /\ size \in [Heads -> Nat] /\ l.head \in Heads
    BY <1>1 DEF TypeInv, SharedType
  <2>1a. headState' \in [Heads -> HeadStates] /\ size' \in [Heads -> Nat]
    BY <2>1 DEF SplitRetire, HeadStates
  <2>2. lock' \in [Slots -> Threads \cup {None}]
    BY UnlockedType DEF SplitRetire
  <2> QED
    BY <2>1a, <2>2 DEF SplitRetire, TypeInv, SharedType
<1>3. Shape("splitErase", l) /\ "splitErase" \in Labels
  BY <1>1 DEF Shape, Appending, Selecting, InMerge, Labels
<1> QED
  BY <1>2, <1>3, GotoType DEF SplitRetire, TypeInv

LEMMA SplitEraseType ==
    ASSUME TypeInv, NEW t \in Threads, SplitErase(t)
    PROVE  TypeInv'
<1> DEFINE l == loc[t]
<1>1. /\ l \in Loc /\ l.head \in Heads /\ Len(l.parts) = 2 /\ Len(l.heads) = 2
      /\ l.op \in {"insert", "reassign"} => l.copy \in Copy
  BY ThreadType DEF SplitErase, TypeInv, Shape, HasHead, Splitting
<1>2. SharedType'
  BY DEF SplitErase, TypeInv, SharedType
<1>3. Shape("collect", l) /\ "collect" \in Labels
  BY <1>1 DEF Shape, Appending, Selecting, HasHead, Splitting, InMerge, Labels
<1> QED
  BY <1>2, <1>3, GotoType, SplitDoneType DEF SplitErase, TypeInv

(* Taking n jobs from the budget of reassignments leaves a budget.         *)
LEMMA SpendType ==
    ASSUME NEW s \in [reassigns : Nat, merges : Nat], NEW n \in 0..s.reassigns
    PROVE  /\ n \in Nat
           /\ [s EXCEPT !.reassigns = @ - n] \in [reassigns : Nat, merges : Nat]
<1>1. s.reassigns \in Nat
  OBVIOUS
<1>2. n \in Nat /\ s.reassigns - n \in Nat
  BY <1>1
<1> QED
  BY <1>2

LEMMA CollectType ==
    ASSUME TypeInv, NEW t \in Threads, Collect(t)
    PROVE  TypeInv'
<1> DEFINE l == loc[t]
           at(p) == l.parts[p[1]][p[2]]
           job(p) == ReassignJob(at(p), l.heads[p[1]])
<1>1. /\ l \in Loc /\ Len(l.parts) = Len(l.heads)
      /\ l.op \in {"insert", "reassign"} => l.copy \in Copy
  BY ThreadType DEF Collect, TypeInv, Shape
<1>2. l.parts \in Seq(Seq(Copy)) /\ l.heads \in Seq(Heads)
  BY <1>1 DEF Loc
<1>3. \A p \in ScanPos(l) : at(p) \in Copy /\ job(p) \in Job
  <2> SUFFICES ASSUME NEW p \in ScanPos(l) PROVE at(p) \in Copy /\ job(p) \in Job
    OBVIOUS
  <2>1. PICK k \in DOMAIN l.parts : p \in {k} \X LivePos(l.parts[k])
    BY DEF ScanPos
  <2>2. p[1] = k /\ p[2] \in DOMAIN l.parts[k]
    BY <2>1 DEF LivePos
  <2>3. k \in 1..Len(l.parts) /\ k \in 1..Len(l.heads)
    BY <1>1, <1>2
  <2>4. l.parts[k] \in Seq(Copy) /\ l.heads[k] \in Heads
    BY <1>2, <2>3, ElementOfSeq
  <2>5. l.parts[k][p[2]] \in Copy
    BY <2>2, <2>4
  <2> QED
    BY <2>2, <2>4, <2>5, JobType
<1>2a. spent \in [reassigns : Nat, merges : Nat]
  BY DEF TypeInv, SharedType
<1> DEFINE Queued(n, f) ==
    /\ spent' = [spent EXCEPT !.reassigns = @ - n]
    /\ queue' = queue \o [i \in 1..n |-> job(f[i])]
    /\ IF pc[t] = "collect" /\ ReassignK > 0
       THEN Update(t, "nearby", [l EXCEPT !.parts = <<>>,
                                    !.taken = {at(f[i]).vid : i \in 1..n}])
       ELSE SplitDone(t)
<1>3a. PICK n \in 0..spent.reassigns : \E f \in [1..n -> ScanPos(l)] : Queued(n, f)
  BY DEF Collect
<1>4. PICK f \in [1..n -> ScanPos(l)] : Queued(n, f)
  BY <1>3a
<1>5. /\ n \in Nat
      /\ [spent EXCEPT !.reassigns = @ - n] \in [reassigns : Nat, merges : Nat]
  <2> HIDE DEF at, job, Queued
  <2> QED
    BY <1>2a, SpendType
<1>6. spent' \in [reassigns : Nat, merges : Nat]
  <2>1. spent' = [spent EXCEPT !.reassigns = @ - n]
    BY <1>4
  <2> HIDE DEF at, job, Queued
  <2> QED
    BY <1>5, <2>1
<1>7. queue' \in Seq(Job)
  <2> DEFINE jobs == [i \in 1..n |-> job(f[i])]
  <2>1. \A i \in 1..n : job(f[i]) \in Job
    BY <1>3, <1>4
  <2> HIDE DEF job
  <2>2. jobs \in [1..n -> Job]
    BY <2>1
  <2>3. jobs \in Seq(Job)
    BY <1>5, <2>2, SeqDef
  <2> HIDE DEF jobs
  <2>4. queue \o jobs \in Seq(Job)
    BY <2>3, ConcatProperties DEF TypeInv, SharedType
  <2> QED
    BY <1>4, <2>4 DEF jobs
<1>8. SharedType'
  BY <1>6, <1>7 DEF Collect, TypeInv, SharedType
<1>9. ASSUME Update(t, "nearby", [l EXCEPT !.parts = <<>>,
                                     !.taken = {at(f[i]).vid : i \in 1..n}])
      PROVE  ThreadsType'
  <2> DEFINE e == <<>>
             T == {at(f[i]).vid : i \in 1..n}
             m == [l EXCEPT !.parts = e, !.taken = T]
  <2>1. T \in SUBSET Vids
    <3>1. \A i \in 1..n : at(f[i]) \in Copy
      BY <1>3, <1>4
    <3> HIDE DEF at
    <3> QED
      BY <3>1 DEF Copy
  <2>2. e \in Seq(Seq(Copy))
    OBVIOUS
  <2>3. Update(t, "nearby", m) /\ "nearby" \in Labels
    BY <1>9 DEF Labels
  <2> HIDE DEF l, e, T
  <2>4. m \in Loc /\ m.op = l.op /\ m.copy = l.copy
    BY <1>1, <2>1, <2>2 DEF Loc
  <2> HIDE DEF m
  <2>5. Shape("nearby", m)
    BY <1>1, <2>4 DEF Shape, Appending, Selecting, HasHead, Splitting, InMerge
  <2> QED
    BY <2>3, <2>4, <2>5, UpdateType DEF TypeInv
<1> QED
  BY <1>4, <1>8, <1>9, SplitDoneType DEF TypeInv

LEMMA CollectSearchType ==
    ASSUME TypeInv, NEW t \in Threads, CollectSearch(t)
    PROVE  TypeInv'
<1> DEFINE k == loc[t]
<1>1. /\ k \in Loc
      /\ k.op \in {"insert", "reassign"} => k.copy \in Copy
  BY ThreadType DEF TypeInv, Shape
<1>2. PICK n \in 0..ReassignK :
         \E hs \in [1..n -> Searchable \ {k.heads[1], k.heads[2]}] :
            Update(t, "read", [k EXCEPT !.heads = hs])
  BY DEF CollectSearch
<1>2a. PICK hs \in [1..n -> Searchable \ {k.heads[1], k.heads[2]}] :
         Update(t, "read", [k EXCEPT !.heads = hs])
  BY <1>2
<1>3. hs \in Seq(Heads)
  <2>1. n \in Nat
    BY <1>2, LireAssumption
  <2>2. hs \in [1..n -> Heads]
    BY <1>2a DEF Searchable
  <2> QED
    BY <2>1, <2>2, SeqDef
<1> DEFINE l == [k EXCEPT !.heads = hs]
<1>4. Update(t, "read", l) /\ "read" \in Labels
  BY <1>2a DEF Labels
<1> HIDE DEF k
<1>5. l \in Loc /\ l.op = k.op /\ l.copy = k.copy
  BY <1>1, <1>3 DEF Loc
<1> HIDE DEF l
<1>6. Shape("read", l)
  BY <1>1, <1>5 DEF Shape, Appending, Selecting, HasHead, Splitting, InMerge
<1>7. SharedType'
  BY DEF CollectSearch, shared, TypeInv, SharedType
<1> QED
  BY <1>4, <1>5, <1>6, <1>7, UpdateType DEF TypeInv

LEMMA CollectReadType ==
    ASSUME TypeInv, NEW t \in Threads, CollectRead(t)
    PROVE  TypeInv'
<1> DEFINE k == loc[t]
           ps == [i \in DOMAIN k.heads |-> posting[k.heads[i]]]
           l == [k EXCEPT !.parts = ps]
<1>1. /\ k \in Loc
      /\ k.op \in {"insert", "reassign"} => k.copy \in Copy
  BY ThreadType DEF TypeInv, Shape
<1>2. k.heads \in Seq(Heads)
  BY <1>1 DEF Loc
<1>3. ps \in Seq(Seq(Copy)) /\ Len(ps) = Len(k.heads)
  <2> DEFINE n == Len(k.heads)
  <2>1. DOMAIN k.heads = 1..n /\ n \in Nat
    BY <1>2
  <2>2. \A i \in 1..n : posting[k.heads[i]] \in Seq(Copy)
    BY <1>2, <2>1 DEF TypeInv, SharedType
  <2>3. ps \in [1..n -> Seq(Copy)]
    BY <2>1, <2>2
  <2> HIDE DEF n, ps
  <2>4. ps \in Seq(Seq(Copy)) /\ Len(ps) = n
    BY <2>1, <2>3, SeqDef, LenProperties
  <2> QED
    BY <2>4 DEF n
<1>4. Update(t, "rescan", l) /\ "rescan" \in Labels
  BY DEF CollectRead, Labels
<1> HIDE DEF k, ps
<1>5. /\ l \in Loc /\ l.op = k.op /\ l.copy = k.copy
      /\ l.parts = ps /\ l.heads = k.heads
  BY <1>1, <1>3 DEF Loc
<1> HIDE DEF l
<1>6. Shape("rescan", l)
  BY <1>1, <1>3, <1>5 DEF Shape, Appending, Selecting, HasHead, Splitting, InMerge
<1>7. SharedType'
  BY DEF CollectRead, shared, TypeInv, SharedType
<1> QED
  BY <1>4, <1>5, <1>6, <1>7, UpdateType DEF TypeInv

----------------------------------------------------------------------------
(* Every step preserves the invariant: MergePostings *)

LEMMA MergeTryType ==
    ASSUME TypeInv, NEW t \in Threads, MergeTry(t)
    PROVE  TypeInv'
<1> DEFINE l == loc[t]
<1>1. /\ l \in Loc /\ l.head \in Heads /\ pc[t] = "mergeTry"
      /\ l.op \in {"insert", "reassign"} => l.copy \in Copy
  BY ThreadType DEF MergeTry, TypeInv, Shape, HasHead
<1>2. MergeJob(l.head, ~l.reassign) \in Job
  BY <1>1, JobType DEF Loc
<1>3. queue' \in Seq(Job)
  <2>1. queue \in Seq(Job)
    BY DEF TypeInv, SharedType
  <2>2. queue' = queue \/ queue' = Append(queue, MergeJob(l.head, ~l.reassign))
    BY DEF MergeTry
  <2> QED
    BY <1>2, <2>1, <2>2, AppendProperties
<1>4. SharedType'
  BY <1>3 DEF MergeTry, TypeInv, SharedType
<1>5. Shape("mergeLockHead", l) /\ "mergeLockHead" \in Labels
  BY <1>1 DEF Shape, Appending, Selecting, Labels
<1> QED
  BY <1>4, <1>5, GotoType, DoneType DEF MergeTry, TypeInv

LEMMA MergeGoneType ==
    ASSUME TypeInv, NEW t \in Threads, MergeGone(t)
    PROVE  TypeInv'
<1>1. SharedType'
  BY DEF MergeGone, shared, TypeInv, SharedType
<1> QED
  BY <1>1, DoneType DEF MergeGone, TypeInv

LEMMA MergeLockHeadType ==
    ASSUME TypeInv, NEW t \in Threads, MergeLockHead(t)
    PROVE  TypeInv'
<1> DEFINE k == loc[t]
           h == k.head
           all == posting[h]
<1>1. /\ k \in Loc /\ h \in Heads
      /\ k.op \in {"insert", "reassign"} => k.copy \in Copy
  BY ThreadType DEF MergeLockHead, TypeInv, Shape, HasHead, InMerge
<1>2. all \in Seq(Copy) /\ <<all>> \in Seq(Seq(Copy)) /\ Len(<<all>>) = 1 /\ <<all>>[1] = all
  BY <1>1 DEF TypeInv, SharedType
<1>3. SharedType'
  BY <1>1, AcquireType DEF MergeLockHead, shared, TypeInv, SharedType
<1>4. ASSUME NEW list \in LiveOf(all), Update(t, "mergeBack", [k EXCEPT !.list = list])
      PROVE  ThreadsType'
  <2> DEFINE l == [k EXCEPT !.list = list]
  <2>1. Update(t, "mergeBack", l) /\ "mergeBack" \in Labels
    BY <1>4 DEF Labels
  <2>2. list \in Seq(Copy)
    BY <1>2, LiveOfType
  <2> HIDE DEF k
  <2>3. l \in Loc /\ l.op = k.op /\ l.copy = k.copy /\ l.head = k.head
    BY <1>1, <2>2 DEF Loc
  <2> HIDE DEF l
  <2>4. Shape("mergeBack", l)
    BY <1>1, <2>3 DEF Shape, Appending, Selecting
  <2> QED
    BY <2>1, <2>3, <2>4, UpdateType DEF TypeInv
<1>5. ASSUME NEW list \in LiveOf(all), NEW S \in SUBSET (Searchable \ {h}),
             Update(t, "mergeVisit", [k EXCEPT !.list = list, !.sel = S, !.parts = <<all>>])
      PROVE  ThreadsType'
  <2> DEFINE ps == <<all>>
             l == [k EXCEPT !.list = list, !.sel = S, !.parts = ps]
  <2>1. Update(t, "mergeVisit", l) /\ "mergeVisit" \in Labels
    BY <1>5 DEF Labels
  <2>2. list \in Seq(Copy) /\ Len(list) <= Len(all) /\ S \in SUBSET Heads
    BY <1>2, LiveOfType DEF Searchable
  <2>3. ps \in Seq(Seq(Copy)) /\ Len(ps) = 1 /\ ps[1] = all
    BY <1>2
  <2> HIDE DEF k, all, ps
  <2>4. l \in Loc
    BY <1>1, <2>2, <2>3 DEF Loc
  <2>5. /\ l.op = k.op /\ l.copy = k.copy /\ l.head = k.head
        /\ l.list = list /\ l.parts = ps
    BY <1>1 DEF Loc
  <2> HIDE DEF l
  <2>6. Shape("mergeVisit", l)
    BY <1>1, <2>2, <2>3, <2>5 DEF Shape, Appending, Selecting
  <2> QED
    BY <2>1, <2>4, <2>6, UpdateType DEF TypeInv
<1> QED
  BY <1>3, <1>4, <1>5 DEF MergeLockHead, TypeInv

LEMMA MergeVisitType ==
    ASSUME TypeInv, NEW t \in Threads, MergeVisit(t)
    PROVE  TypeInv'
<1> DEFINE k == loc[t]
<1>1. /\ k \in Loc /\ k.head \in Heads
      /\ k.op \in {"insert", "reassign"} => k.copy \in Copy
      /\ Len(k.parts) = 1 /\ Len(k.list) <= Len(k.parts[1])
  BY ThreadType DEF MergeVisit, TypeInv, Shape, HasHead, InMerge
<1>2. SharedType'
  BY DEF MergeVisit, shared, TypeInv, SharedType
<1>3. ASSUME Update(t, "mergeBack", [k EXCEPT !.parts = <<>>])
      PROVE  ThreadsType'
  <2> DEFINE e == <<>>
             l == [k EXCEPT !.parts = e]
  <2>1. Update(t, "mergeBack", l) /\ "mergeBack" \in Labels
    BY <1>3 DEF Labels
  <2>2. e \in Seq(Seq(Copy))
    OBVIOUS
  <2> HIDE DEF k, e
  <2>3. l \in Loc /\ l.op = k.op /\ l.copy = k.copy /\ l.head = k.head
    BY <1>1, <2>2 DEF Loc
  <2> HIDE DEF l
  <2>4. Shape("mergeBack", l)
    BY <1>1, <2>3 DEF Shape, Appending, Selecting
  <2> QED
    BY <2>1, <2>3, <2>4, UpdateType DEF TypeInv
<1>4. ASSUME NEW c \in k.sel, NEW label \in {"mergeWith", "mergeVisit"}, NEW l,
             Update(t, label, l),
             \/ label = "mergeWith" /\ l = [[k EXCEPT !.sel = @ \ {c}] EXCEPT !.prev = c]
             \/ label = "mergeVisit" /\ l = [k EXCEPT !.sel = @ \ {c}]
      PROVE  ThreadsType'
  <2> DEFINE m == [k EXCEPT !.sel = @ \ {c}]
  <2>1. label \in Labels
    BY DEF Labels
  <2>2. l = m \/ l = [m EXCEPT !.prev = c]
    BY <1>4
  <2>3. label = "mergeWith" => l = [m EXCEPT !.prev = c]
    BY <1>4
  <2> HIDE DEF k
  <2>4. c \in Heads
    BY <1>1, <1>4 DEF Loc
  <2>5. /\ m \in Loc /\ m.op = k.op /\ m.copy = k.copy /\ m.head = k.head
        /\ m.list = k.list /\ m.parts = k.parts
    BY <1>1 DEF Loc
  <2> HIDE DEF m
  <2>6. /\ l \in Loc /\ l.op = m.op /\ l.copy = m.copy /\ l.head = m.head
        /\ l.list = m.list /\ l.parts = m.parts
    <3>1. CASE l = m
      BY <2>5, <3>1
    <3>2. CASE l = [m EXCEPT !.prev = c]
      BY <2>4, <2>5, <3>2 DEF Loc
    <3> QED
      BY <2>2, <3>1, <3>2
  <2>7. label = "mergeWith" => l.prev \in Heads
    BY <2>3, <2>4, <2>5 DEF Loc
  <2>8. Shape(label, l)
    BY <1>1, <2>5, <2>6, <2>7 DEF Shape, Appending, Selecting
  <2> QED
    BY <1>4, <2>1, <2>6, <2>8, UpdateType DEF TypeInv
<1> QED
  BY <1>2, <1>3, <1>4 DEF MergeVisit, TypeInv

LEMMA MergePartnerGoneType ==
    ASSUME TypeInv, NEW t \in Threads, MergePartnerGone(t)
    PROVE  TypeInv'
<1>1. SharedType'
  BY DEF MergePartnerGone, shared, TypeInv, SharedType
<1>2. Shape("mergeWith", loc[t])
  BY ThreadType DEF MergePartnerGone, TypeInv
<1>3. Shape("mergeVisit", loc[t]) /\ "mergeVisit" \in Labels
  BY <1>2 DEF Shape, Appending, Selecting, HasHead, InMerge, Labels
<1> QED
  BY <1>1, <1>3, GotoType DEF MergePartnerGone, TypeInv

(* What a merge keeps for the reassigns is cut from the posting of the head *)
(* it deletes: as many copies as it had current ones, so never more.        *)
LEMMA CutType ==
    ASSUME NEW s \in Seq(Copy), NEW n \in Nat, n <= Len(s)
    PROVE  SubSeq(s, 1, n) \in Seq(Copy)
<1>1. \A i \in 1..n : s[i] \in Copy
  OBVIOUS
<1> QED
  BY <1>1, SubSeqProperties

LEMMA MergeWithType ==
    ASSUME TypeInv, NEW t \in Threads, MergeWith(t)
    PROVE  TypeInv'
<1> DEFINE l == loc[t]
           h == l.head
           c == l.prev
           New(s) == {i \in DOMAIN s : s[i].vid \notin VidsIn(l.list)}
<1>1. /\ l \in Loc /\ h \in Heads /\ c \in Heads
      /\ l.op \in {"insert", "reassign"} => l.copy \in Copy
      /\ Len(l.parts) = 1 /\ Len(l.list) <= Len(l.parts[1])
  BY ThreadType DEF MergeWith, TypeInv, Shape, HasHead, InMerge
<1>2. l.list \in Seq(Copy) /\ l.parts \in Seq(Seq(Copy)) /\ l.parts[1] \in Seq(Copy)
  <2>1. l.list \in Seq(Copy) /\ l.parts \in Seq(Seq(Copy))
    BY <1>1 DEF Loc
  <2>2. 1 \in 1..Len(l.parts)
    BY <1>1
  <2> QED
    BY <2>1, <2>2, ElementOfSeq
<1>3. posting[c] \in Seq(Copy)
  BY <1>1 DEF TypeInv, SharedType
<1> DEFINE Merged(theirs, new) ==
    LET merged == l.list \o new
        keepH  == Len(l.list) > Len(theirs)
        winner == IF keepH THEN h ELSE c
        loser  == IF keepH THEN c ELSE h
        raw    == IF keepH THEN posting[c] ELSE l.parts[1]
        count  == IF keepH THEN Len(theirs) ELSE Len(l.list)
    IN
    /\ headState' = [headState EXCEPT ![loser] = "deleted"]
    /\ posting' = [posting EXCEPT ![winner] = merged]
    /\ size' = [size EXCEPT ![winner] = Len(merged), ![loser] = 0]
    /\ dropped' = dropped \cup
          {v \in VidsIn(theirs) : [vid |-> v, ver |-> version[v]] \notin CopiesIn(merged)}
    /\ Update(t, "mergeReassign", [l EXCEPT !.list = SubSeq(raw, 1, count),
                                     !.parts = <<>>, !.heads = <<winner>>, !.sel = {}])
<1>4. PICK theirs \in LiveOf(posting[c]) :
         \E new \in Sublists(theirs, New(theirs)) : Merged(theirs, new)
  BY DEF MergeWith
<1>5. PICK new \in Sublists(theirs, New(theirs)) : Merged(theirs, new)
  BY <1>4
<1>6. theirs \in Seq(Copy) /\ Len(theirs) <= Len(posting[c])
  BY <1>3, <1>4, LiveOfType
<1>7. new \in Seq(Copy)
  <2>1. New(theirs) \in SUBSET (DOMAIN theirs)
    OBVIOUS
  <2> HIDE DEF New
  <2> QED
    BY <1>5, <1>6, <2>1, SublistType
<1> DEFINE merged == l.list \o new
           keepH  == Len(l.list) > Len(theirs)
           winner == IF keepH THEN h ELSE c
           loser  == IF keepH THEN c ELSE h
           raw    == IF keepH THEN posting[c] ELSE l.parts[1]
           count  == IF keepH THEN Len(theirs) ELSE Len(l.list)
           cut    == SubSeq(raw, 1, count)
<1>8. merged \in Seq(Copy) /\ Len(merged) \in Nat
  <2>1. merged \in Seq(Copy)
    BY <1>2, <1>7, ConcatProperties
  <2> HIDE DEF merged
  <2> QED
    BY <2>1
<1>9. winner \in Heads /\ loser \in Heads
  BY <1>1
<1>10. cut \in Seq(Copy)
  <2>1. raw \in Seq(Copy) /\ count \in Nat /\ count <= Len(raw)
    BY <1>1, <1>2, <1>3, <1>6
  <2> HIDE DEF raw, count
  <2> QED
    BY <2>1, CutType
<1>11. VidsIn(theirs) \subseteq Vids
  <2>1. \A i \in DOMAIN theirs : theirs[i] \in Copy
    BY <1>6
  <2> QED
    BY <2>1 DEF VidsIn, Copy
<1>12. SharedType'
  <2>1. /\ headState' = [headState EXCEPT ![loser] = "deleted"]
        /\ posting' = [posting EXCEPT ![winner] = merged]
        /\ size' = [size EXCEPT ![winner] = Len(merged), ![loser] = 0]
        /\ dropped' \subseteq dropped \cup VidsIn(theirs)
    BY <1>5
  <2>2. /\ lock' = Unlocked(t) /\ mergeLock' = None
        /\ UNCHANGED <<added, version, splitList, mergeList, queue, spent>>
    BY DEF MergeWith
  <2> HIDE DEF merged, winner, loser
  <2>3. /\ headState' \in [Heads -> HeadStates]
        /\ posting' \in [Heads -> Seq(Copy)]
        /\ size' \in [Heads -> Nat]
        /\ dropped' \in SUBSET Vids
    BY <1>8, <1>9, <1>11, <2>1 DEF TypeInv, SharedType, HeadStates
  <2> QED
    BY <2>2, <2>3, UnlockedType DEF TypeInv, SharedType
<1>13. ThreadsType'
  <2> DEFINE e  == <<>>
             ws == <<winner>>
             no == {}
             m  == [l EXCEPT !.list = cut, !.parts = e, !.heads = ws, !.sel = no]
  <2>1. Update(t, "mergeReassign", m) /\ "mergeReassign" \in Labels
    BY <1>5 DEF Labels
  <2>2. e \in Seq(Seq(Copy)) /\ ws \in Seq(Heads) /\ Len(ws) = 1 /\ no \in SUBSET Heads
    BY <1>9
  <2> HIDE DEF l, e, ws, no, cut
  <2>3. m \in Loc
    BY <1>1, <1>10, <2>2 DEF Loc
  <2>4. m.op = l.op /\ m.copy = l.copy /\ m.heads = ws
    BY <1>1 DEF Loc
  <2> HIDE DEF m
  <2>5. Shape("mergeReassign", m)
    BY <1>1, <2>2, <2>4 DEF Shape, Appending, Selecting, HasHead, Splitting, InMerge
  <2> QED
    BY <2>1, <2>3, <2>5, UpdateType DEF TypeInv
<1> QED
  BY <1>12, <1>13 DEF TypeInv

LEMMA MergeReassignType ==
    ASSUME TypeInv, NEW t \in Threads, MergeReassign(t)
    PROVE  TypeInv'
<1> DEFINE l == loc[t]
<1>1. /\ l \in Loc /\ Len(l.heads) = 1
  BY ThreadType DEF MergeReassign, TypeInv, Shape
<1>2. l.list \in Seq(Copy) /\ l.heads[1] \in Heads
  <2>1. l.list \in Seq(Copy) /\ l.heads \in Seq(Heads)
    BY <1>1 DEF Loc
  <2>2. 1 \in 1..Len(l.heads)
    BY <1>1
  <2> QED
    BY <2>1, <2>2, ElementOfSeq
<1>3. PICK I \in SUBSET (DOMAIN l.list) :
         /\ Cardinality(I) <= spent.reassigns
         /\ spent' = [spent EXCEPT !.reassigns = @ - Cardinality(I)]
         /\ \E copies \in Sublists(l.list, I) :
               queue' = queue \o [i \in DOMAIN copies |-> ReassignJob(copies[i], l.heads[1])]
  BY DEF MergeReassign
<1>4. PICK copies \in Sublists(l.list, I) :
         queue' = queue \o [i \in DOMAIN copies |-> ReassignJob(copies[i], l.heads[1])]
  BY <1>3
<1>5. copies \in Seq(Copy) /\ Len(copies) = Cardinality(I)
  BY <1>2, <1>3, <1>4, SublistType
<1>6. queue' \in Seq(Job)
  <2> DEFINE jobs == [i \in DOMAIN copies |-> ReassignJob(copies[i], l.heads[1])]
             n == Len(copies)
  <2>1. DOMAIN copies = 1..n /\ n \in Nat
    BY <1>5
  <2>2. \A i \in 1..n : ReassignJob(copies[i], l.heads[1]) \in Job
    BY <1>2, <1>5, <2>1, JobType
  <2>3. jobs \in [1..n -> Job]
    BY <2>1, <2>2
  <2> HIDE DEF jobs, n
  <2>4. jobs \in Seq(Job)
    BY <2>1, <2>3, SeqDef
  <2>5. queue \o jobs \in Seq(Job)
    BY <2>4, ConcatProperties DEF TypeInv, SharedType
  <2> QED
    BY <1>4, <2>5 DEF jobs
<1>7. spent' \in [reassigns : Nat, merges : Nat]
  <2> DEFINE n == Cardinality(I)
  <2>1. spent \in [reassigns : Nat, merges : Nat] /\ n \in Nat
    BY <1>5 DEF TypeInv, SharedType
  <2> HIDE DEF n
  <2>2. spent.reassigns - n \in Nat
    BY <1>3, <2>1 DEF n
  <2>3. spent' = [spent EXCEPT !.reassigns = spent.reassigns - n]
    BY <1>3 DEF n
  <2> QED
    BY <2>1, <2>2, <2>3
<1>8. SharedType'
  BY <1>6, <1>7 DEF MergeReassign, TypeInv, SharedType
<1> QED
  BY <1>8, DoneType DEF MergeReassign, TypeInv

LEMMA MergeBackType ==
    ASSUME TypeInv, NEW t \in Threads, MergeBack(t)
    PROVE  TypeInv'
<1>1. loc[t] \in Loc /\ loc[t].head \in Heads
  BY ThreadType DEF MergeBack, TypeInv, Shape, HasHead, InMerge
<1>2. loc[t].list \in Seq(Copy) /\ Len(loc[t].list) \in Nat
  BY <1>1 DEF Loc
<1>3. SharedType'
  BY <1>1, <1>2, UnlockedType DEF MergeBack, TypeInv, SharedType
<1> QED
  BY <1>3, DoneType DEF MergeBack, TypeInv

----------------------------------------------------------------------------
(* Type correctness *)

LEMMA TypeInit == Init => TypeInv
<1> SUFFICES ASSUME Init PROVE TypeInv
  OBVIOUS
<1>1. \A h \in DOMAIN InitPosting : InitPosting[h] \in Seq(Vids)
  BY LireAssumption
<1>2. ASSUME NEW h \in DOMAIN InitPosting
      PROVE  /\ {InitPosting[h][i] : i \in DOMAIN InitPosting[h]} \subseteq Vids
             /\ [i \in DOMAIN InitPosting[h] |-> [vid |-> InitPosting[h][i], ver |-> Fresh]]
                   \in Seq(Copy)
  <2> DEFINE s == InitPosting[h]
             copies == [i \in DOMAIN s |-> [vid |-> s[i], ver |-> Fresh]]
             n == Len(s)
  <2>1. s \in Seq(Vids) /\ DOMAIN s = 1..n /\ n \in Nat
    BY <1>1, <1>2
  <2>2. \A i \in 1..n : s[i] \in Vids /\ [vid |-> s[i], ver |-> Fresh] \in Copy
    BY <2>1 DEF Copy, Fresh
  <2>3. copies \in [1..n -> Copy]
    BY <2>1, <2>2
  <2> HIDE DEF copies, n
  <2>4. copies \in Seq(Copy)
    BY <2>1, <2>3, SeqDef
  <2>5. {s[i] : i \in DOMAIN s} \subseteq Vids
    BY <2>1, <2>2
  <2> QED
    BY <2>4, <2>5 DEF copies
<1>3. added \in SUBSET Vids
  BY <1>2 DEF Init
<1>4. posting \in [Heads -> Seq(Copy)]
  <2>1. ASSUME NEW h \in Heads PROVE posting[h] \in Seq(Copy)
    <3>1. CASE h <= Len(InitPosting)
      <4>1. h \in DOMAIN InitPosting
        BY <3>1, LireAssumption DEF Heads
      <4> QED
        BY <1>2, <3>1, <4>1 DEF Init
    <3>2. CASE ~ (h <= Len(InitPosting))
      BY <3>2 DEF Init
    <3> QED
      BY <3>1, <3>2
  <2>2. posting = [h \in Heads |-> posting[h]]
    BY DEF Init
  <2> QED
    BY <2>1, <2>2
<1>5. size \in [Heads -> Nat]
  <2>1. \A h \in Heads : Len(posting[h]) \in Nat
    BY <1>4
  <2> QED
    BY <2>1 DEF Init
<1>6. version \in [Vids -> 0..255] /\ headState \in [Heads -> HeadStates]
  BY DEF Init, Fresh, HeadStates
<1>7. SharedType
  BY <1>3, <1>4, <1>5, <1>6, LireAssumption DEF Init, SharedType
<1>8. ThreadsType
  BY IdleType DEF Init, ThreadsType, Shaped, Labels
<1> QED
  BY <1>7, <1>8 DEF TypeInv

LEMMA TypeStep == TypeInv /\ [Next]_vars => TypeInv'
<1> SUFFICES ASSUME TypeInv, [Next]_vars PROVE TypeInv'
  OBVIOUS
<1>1. ASSUME NEW t \in Clients, NEW v \in Vids, AddIndex(t, v) PROVE TypeInv'
  BY <1>1, AddIndexType
<1>2. ASSUME NEW v \in Vids, Delete(v) PROVE TypeInv'
  BY <1>2, DeleteType
<1>3. ASSUME NEW t \in Clients, NEW h \in Heads, SearchRead(t, h) PROVE TypeInv'
  BY <1>3, SearchReadType
<1>4. ASSUME NEW t \in Workers, Take(t) PROVE TypeInv'
  BY <1>4, TakeType
<1>5. ASSUME NEW t \in Threads, Step(t) PROVE TypeInv'
  BY <1>5, SearchFindType, SearchAddType, NextReplicaType, AppendMissType, AppendMergeType,
     SplitAsyncType, SplitSyncType, AppendedType, ReassignSelectType,
     ReassignCheckType, ReassignBumpType, SplitLockType, SplitBackType,
     SplitPutSameType, SplitPutNewType, SplitLinkType, SplitSizeType,
     SplitRetireType, SplitEraseType, CollectType, CollectSearchType,
     CollectReadType, MergeTryType, MergeGoneType, MergeLockHeadType,
     MergeVisitType, MergePartnerGoneType, MergeWithType, MergeReassignType,
     MergeBackType
     DEF Step
<1>6. CASE UNCHANGED vars
  BY <1>6 DEF vars, shared, TypeInv, SharedType, ThreadsType, Shaped
<1> QED
  BY <1>1, <1>2, <1>3, <1>4, <1>5, <1>6 DEF Next

(* In every reachable state versions and sizes stay in range, every entry   *)
(* of a posting, of the queue and of a split's or a merge's lists is a copy *)
(* of a vector, and no list is indexed beyond its end.                      *)
THEOREM TypeCorrect == Spec => []TypeOK
<1> QED
  BY TypeInit, TypeStep, TypeInvType, PTL DEF Spec
=============================================================================
