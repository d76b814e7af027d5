--------------------------- MODULE LireLockProofs ---------------------------
(***************************************************************************)
(* The posting locks and m_mergeLock of the update protocol exclude, for   *)
(* any number of threads, heads and lock slots, two heads that share a     *)
(* slot included.                                                          *)
(***************************************************************************)
EXTENDS LireProofs

----------------------------------------------------------------------------
(* What a step of thread t does to the locks *)

Others(t) == \A u \in Threads \ {t} : pc'[u] = pc[u] /\ loc'[u] = loc[u]

LEMMA UpdateThread ==
    ASSUME TypeInv, NEW t \in Threads, NEW label, NEW l, Update(t, label, l)
    PROVE  Others(t) /\ pc'[t] = label /\ loc'[t] = l
BY DEF TypeInv, ThreadsType, Update, Goto, Others

LEMMA GotoThread ==
    ASSUME TypeInv, NEW t \in Threads, NEW label, Goto(t, label), loc' = loc
    PROVE  Others(t) /\ pc'[t] = label /\ loc'[t] = loc[t]
BY DEF TypeInv, ThreadsType, Goto, Others

LEMMA DoneThread ==
    ASSUME TypeInv, NEW t \in Threads, Done(t)
    PROVE  Others(t) /\ pc'[t] = "idle"
BY DEF TypeInv, ThreadsType, Done, Others

LEMMA SplitDoneThread ==
    ASSUME TypeInv, NEW t \in Threads, SplitDone(t)
    PROVE  Others(t) /\ pc'[t] \in {"next", "idle"}
BY DoneThread DEF TypeInv, ThreadsType, SplitDone, Goto, Others

LEMMA NoneNoThread == None \notin Threads
BY LireAssumption

(* The step touches no lock and stays inside or outside a critical section. *)
LEMMA NoLockStep ==
    ASSUME TypeInv, LockDiscipline, NEW t \in Threads, Others(t),
           lock' = lock, mergeLock' = mergeLock,
           pc'[t] \in Locked <=> pc[t] \in Locked,
           pc'[t] \in Locked => loc'[t].head = loc[t].head,
           pc'[t] \in InMerge <=> pc[t] \in InMerge
    PROVE  LockDiscipline'
<1>1. ASSUME NEW u \in Threads
      PROVE  /\ pc'[u] \in Locked <=> pc[u] \in Locked
             /\ pc'[u] \in Locked => loc'[u].head = loc[u].head
             /\ pc'[u] \in InMerge <=> pc[u] \in InMerge
  BY DEF Others
<1>2. ASSUME NEW s \in Slots, lock'[s] # None
      PROVE  pc'[lock'[s]] \in Locked /\ s = LockOf(loc'[lock'[s]].head)
  <2>1. pc[lock[s]] \in Locked /\ s = LockOf(loc[lock[s]].head)
    BY <1>2 DEF LockDiscipline
  <2>2. lock[s] \in Threads
    BY <1>2 DEF TypeInv, SharedType
  <2> QED
    BY <1>1, <2>1, <2>2
<1>3. \A u \in Threads : pc'[u] \in InMerge <=> mergeLock' = u
  BY <1>1 DEF LockDiscipline
<1> QED
  BY <1>1, <1>2, <1>3 DEF LockDiscipline

(* The step takes the lock of its head and enters a critical section. *)
LEMMA TakesLock ==
    ASSUME TypeInv, LockDiscipline, NEW t \in Threads, Others(t),
           loc[t].head \in Heads, Acquire(t, LockOf(loc[t].head)),
           mergeLock' = mergeLock,
           pc[t] \notin Locked, pc'[t] \in Locked, loc'[t].head = loc[t].head,
           pc'[t] \in InMerge <=> pc[t] \in InMerge
    PROVE  LockDiscipline'
<1> DEFINE mine == LockOf(loc[t].head)
<1>1. /\ mine \in Slots /\ lock[mine] = None /\ lock'[mine] = t
      /\ \A s \in Slots \ {mine} : lock'[s] = lock[s]
  BY SlotType DEF Acquire, TypeInv, SharedType
<1>2. ASSUME NEW u \in Threads, pc'[u] \in Locked PROVE lock'[LockOf(loc'[u].head)] = u
  <2>1. CASE u = t
    BY <1>1, <2>1
  <2>2. CASE u # t
    <3>1. pc[u] \in Locked /\ loc'[u] = loc[u]
      BY <1>2, <2>2 DEF Others
    <3>2. lock[LockOf(loc[u].head)] = u
      BY <3>1 DEF LockDiscipline
    <3>3. loc[u].head \in Heads
      BY <3>1, ThreadType DEF TypeInv, Shape, HasHead, Locked, Splitting, InMerge
    <3>4. LockOf(loc[u].head) \in Slots /\ LockOf(loc[u].head) # mine
      BY <1>1, <3>2, <3>3, SlotType, NoneNoThread
    <3> QED
      BY <1>1, <3>1, <3>2, <3>4
  <2> QED
    BY <2>1, <2>2
<1>3. ASSUME NEW s \in Slots, lock'[s] # None
      PROVE  pc'[lock'[s]] \in Locked /\ s = LockOf(loc'[lock'[s]].head)
  <2>1. CASE s = mine
    BY <1>1, <2>1
  <2>2. CASE s # mine
    <3>1. lock'[s] = lock[s] /\ pc[lock[s]] \in Locked /\ s = LockOf(loc[lock[s]].head)
      BY <1>1, <1>3, <2>2 DEF LockDiscipline
    <3>2. lock[s] \in Threads \ {t}
      BY <1>3, <3>1 DEF TypeInv, SharedType
    <3> QED
      BY <3>1, <3>2 DEF Others
  <2> QED
    BY <2>1, <2>2
<1>4. \A u \in Threads : pc'[u] \in InMerge <=> mergeLock' = u
  BY DEF LockDiscipline, Others
<1> QED
  BY <1>2, <1>3, <1>4 DEF LockDiscipline

(* The step gives up all its thread holds and leaves the critical section. *)
LEMMA GivesLock ==
    ASSUME TypeInv, LockDiscipline, NEW t \in Threads, Others(t),
           lock' = Unlocked(t), pc'[t] \notin Locked,
           \/ /\ mergeLock' = mergeLock
              /\ pc'[t] \notin InMerge /\ pc[t] \notin InMerge
           \/ /\ mergeLock' = None
              /\ pc'[t] \notin InMerge /\ pc[t] \in InMerge
    PROVE  LockDiscipline'
<1>1. \A s \in Slots : lock'[s] = IF lock[s] = t THEN None ELSE lock[s]
  BY DEF Unlocked
<1>2. ASSUME NEW u \in Threads, pc'[u] \in Locked PROVE lock'[LockOf(loc'[u].head)] = u
  <2>1. u # t /\ pc[u] \in Locked /\ loc'[u] = loc[u]
    BY <1>2 DEF Others
  <2>2. lock[LockOf(loc[u].head)] = u
    BY <2>1 DEF LockDiscipline
  <2>3. loc[u].head \in Heads
    BY <2>1, ThreadType DEF TypeInv, Shape, HasHead, Locked, Splitting, InMerge
  <2> QED
    BY <1>1, <2>1, <2>2, <2>3, SlotType
<1>3. ASSUME NEW s \in Slots, lock'[s] # None
      PROVE  pc'[lock'[s]] \in Locked /\ s = LockOf(loc'[lock'[s]].head)
  <2>1. lock'[s] = lock[s] /\ lock[s] # t /\ lock[s] # None
    BY <1>1, <1>3
  <2>2. pc[lock[s]] \in Locked /\ s = LockOf(loc[lock[s]].head)
    BY <2>1 DEF LockDiscipline
  <2>3. lock[s] \in Threads \ {t}
    BY <2>1 DEF TypeInv, SharedType
  <2> QED
    BY <2>1, <2>2, <2>3 DEF Others
<1>4. \A u \in Threads : pc'[u] \in InMerge <=> mergeLock' = u
  BY NoneNoThread DEF LockDiscipline, Others
<1> QED
  BY <1>2, <1>3, <1>4 DEF LockDiscipline

(* The step takes or gives up m_mergeLock alone. *)
LEMMA MergeLockStep ==
    ASSUME TypeInv, LockDiscipline, NEW t \in Threads, Others(t),
           lock' = lock, pc[t] \notin Locked, pc'[t] \notin Locked,
           \/ /\ mergeLock = None /\ mergeLock' = t /\ pc'[t] \in InMerge
           \/ /\ mergeLock' = None /\ pc'[t] \notin InMerge /\ pc[t] \in InMerge
    PROVE  LockDiscipline'
<1>1. ASSUME NEW u \in Threads, pc'[u] \in Locked PROVE lock'[LockOf(loc'[u].head)] = u
  BY <1>1 DEF LockDiscipline, Others
<1>2. ASSUME NEW s \in Slots, lock'[s] # None
      PROVE  pc'[lock'[s]] \in Locked /\ s = LockOf(loc'[lock'[s]].head)
  <2>1. pc[lock[s]] \in Locked /\ s = LockOf(loc[lock[s]].head)
    BY <1>2 DEF LockDiscipline
  <2>2. lock[s] \in Threads \ {t}
    BY <1>2, <2>1 DEF TypeInv, SharedType
  <2> QED
    BY <2>1, <2>2 DEF Others
<1>3. \A u \in Threads : pc'[u] \in InMerge <=> mergeLock' = u
  BY NoneNoThread DEF LockDiscipline, Others
<1> QED
  BY <1>1, <1>2, <1>3 DEF LockDiscipline

----------------------------------------------------------------------------
(* Mutual exclusion *)

LEMMA LockInit == Init => LockDiscipline
BY NoneNoThread DEF Init, LockDiscipline, Locked, InMerge, Slots

(* Steps outside all critical sections. *)
LEMMA OutsideStep ==
    ASSUME TypeInv, LockDiscipline, NEW t \in Threads, Others(t),
           lock' = lock, mergeLock' = mergeLock,
           pc[t] \notin Locked \cup InMerge, pc'[t] \notin Locked \cup InMerge
    PROVE  LockDiscipline'
BY NoLockStep

LEMMA ClientLock ==
    ASSUME TypeInv, LockDiscipline, NEW t \in Threads,
           \/ \E v \in Vids : AddIndex(t, v)
           \/ \E h \in Heads : SearchRead(t, h)
           \/ SearchFind(t) \/ SearchAdd(t) \/ NextReplica(t) \/ AppendMiss(t) \/ AppendMerge(t)
           \/ SplitAsync(t) \/ SplitSync(t) \/ Appended(t)
    PROVE  LockDiscipline'
<1> USE DEF Locked, InMerge
<1>1. ASSUME NEW v \in Vids, AddIndex(t, v) PROVE LockDiscipline'
  <2>1. Others(t) /\ pc'[t] = "next"
    BY <1>1, UpdateThread DEF AddIndex
  <2> QED
    BY <1>1, <2>1, OutsideStep DEF AddIndex
<1>2. ASSUME NEW h \in Heads, SearchRead(t, h) PROVE LockDiscipline'
  <2>1. Others(t) /\ pc'[t] = "mergeFind"
    BY <1>2, UpdateThread DEF SearchRead
  <2> QED
    BY <1>2, <2>1, OutsideStep DEF SearchRead
<1>3. CASE SearchAdd(t)
  BY <1>3, DoneThread, OutsideStep DEF SearchAdd
<1>10. CASE SearchFind(t)
  <2>1. Others(t) /\ pc'[t] \in {"idle", "mergeAdd"}
    BY <1>10, DoneThread, GotoThread DEF SearchFind
  <2> QED
    BY <1>10, <2>1, OutsideStep DEF SearchFind
<1>4. CASE NextReplica(t)
  <2>1. Others(t) /\ pc'[t] \in {"idle", "append"}
    BY <1>4, DoneThread, UpdateThread DEF NextReplica
  <2> QED
    BY <1>4, <2>1, OutsideStep DEF NextReplica
<1>5. CASE AppendMiss(t)
  <2>1. Others(t) /\ pc'[t] \in {"idle", "next"}
    BY <1>5, DoneThread, UpdateThread DEF AppendMiss
  <2> QED
    BY <1>5, <2>1, OutsideStep DEF AppendMiss
<1>6. CASE AppendMerge(t)
  BY <1>6, GotoThread, OutsideStep DEF AppendMerge
<1>7. CASE SplitAsync(t)
  <2>1. Others(t) /\ pc'[t] = "next"
    BY <1>7, UpdateThread DEF SplitAsync
  <2> QED
    BY <1>7, <2>1, OutsideStep DEF SplitAsync
<1>8. CASE SplitSync(t)
  BY <1>8, UpdateThread, OutsideStep DEF SplitSync
<1>9. CASE Appended(t)
  BY <1>9, UpdateThread, OutsideStep DEF Appended
<1> QED
  BY <1>1, <1>2, <1>3, <1>4, <1>5, <1>6, <1>7, <1>8, <1>9, <1>10

LEMMA WorkerLock ==
    ASSUME TypeInv, LockDiscipline, NEW t \in Threads,
           \/ Take(t) \/ ReassignSelect(t) \/ ReassignCheck(t) \/ ReassignBump(t)
           \/ SplitErase(t) \/ Collect(t) \/ CollectSearch(t) \/ CollectRead(t)
           \/ MergeReassign(t)
    PROVE  LockDiscipline'
<1> USE DEF Locked, InMerge
<1>1. CASE Take(t)
  <2>1. Head(queue) \in Job
    BY <1>1, HeadTailProperties DEF Take, TypeInv, SharedType
  <2>2. Head(queue).type \in {"split", "merge", "reassign"}
    BY <2>1 DEF Job
  <2>3. Others(t) /\ pc'[t] \in {"splitLock", "mergeTry", "reassign"}
    BY <1>1, <2>2, UpdateThread DEF Take
  <2> QED
    BY <1>1, <2>3, OutsideStep DEF Take
<1>2. CASE ReassignSelect(t)
  <2>1. Others(t) /\ pc'[t] \in {"idle", "reassignCheck"}
    BY <1>2, DoneThread, UpdateThread DEF ReassignSelect
  <2> QED
    BY <1>2, <2>1, OutsideStep DEF ReassignSelect
<1>3. CASE ReassignCheck(t)
  BY <1>3, DoneThread, GotoThread, OutsideStep DEF ReassignCheck
<1>4. CASE ReassignBump(t)
  BY <1>4, UpdateThread, OutsideStep DEF ReassignBump
<1>5. CASE SplitErase(t)
  BY <1>5, GotoThread, SplitDoneThread, OutsideStep DEF SplitErase
<1>6. CASE Collect(t)
  <2>1. Others(t) /\ pc'[t] \in {"nearby", "next", "idle"}
    BY <1>6, UpdateThread, SplitDoneThread DEF Collect
  <2> QED
    BY <1>6, <2>1, OutsideStep DEF Collect
<1>7. CASE CollectSearch(t)
  BY <1>7, UpdateThread, OutsideStep DEF CollectSearch
<1>8. CASE CollectRead(t)
  BY <1>8, UpdateThread, OutsideStep DEF CollectRead
<1>9. CASE MergeReassign(t)
  BY <1>9, DoneThread, OutsideStep DEF MergeReassign
<1> QED
  BY <1>1, <1>2, <1>3, <1>4, <1>5, <1>6, <1>7, <1>8, <1>9

(* The steps of a split that keep its lock, or take it, keep its head. *)
LEMMA SplitLockFrame ==
    ASSUME TypeInv, NEW t \in Threads, SplitLock(t)
    PROVE  /\ loc[t].head \in Heads /\ Others(t)
           /\ pc'[t] \in {"splitBack", "splitPut"} /\ loc'[t].head = loc[t].head
<1>1. loc[t] \in Loc /\ loc[t].head \in Heads
  BY ThreadType DEF SplitLock, TypeInv, Shape, HasHead, Splitting
<1>2. ASSUME NEW list, Update(t, "splitBack", [loc[t] EXCEPT !.list = list])
      PROVE  Others(t) /\ pc'[t] = "splitBack" /\ loc'[t].head = loc[t].head
  <2>1. [loc[t] EXCEPT !.list = list].head = loc[t].head
    BY <1>1 DEF Loc
  <2> QED
    BY <1>2, <2>1, UpdateThread
<1>3. ASSUME NEW parts, NEW same,
             Update(t, "splitPut", [loc[t] EXCEPT !.parts = parts, !.same = same,
                                                  !.heads = <<>>])
      PROVE  Others(t) /\ pc'[t] = "splitPut" /\ loc'[t].head = loc[t].head
  <2> DEFINE m == [loc[t] EXCEPT !.parts = parts, !.same = same, !.heads = <<>>]
  <2>1. m.head = loc[t].head
    BY <1>1 DEF Loc
  <2>2. Update(t, "splitPut", m)
    BY <1>3
  <2> HIDE DEF m
  <2> QED
    BY <2>1, <2>2, UpdateThread
<1> QED
  BY <1>1, <1>2, <1>3 DEF SplitLock

LEMMA SplitPutFrame ==
    ASSUME TypeInv, NEW t \in Threads, SplitPutSame(t) \/ SplitPutNew(t)
    PROVE  /\ Others(t) /\ loc'[t].head = loc[t].head
           /\ pc'[t] \in {"splitRetire", "splitPut", "splitLink"}
<1>1. loc[t] \in Loc
  BY ThreadType DEF TypeInv
<1>2. ASSUME NEW label, NEW hs, Update(t, label, [loc[t] EXCEPT !.heads = hs])
      PROVE  Others(t) /\ pc'[t] = label /\ loc'[t].head = loc[t].head
  <2>1. [loc[t] EXCEPT !.heads = hs].head = loc[t].head
    BY <1>1 DEF Loc
  <2> QED
    BY <1>2, <2>1, UpdateThread
<1> QED
  BY <1>2 DEF SplitPutSame, SplitPutNew, AfterPart

LEMMA SplitLockStep ==
    ASSUME TypeInv, LockDiscipline, NEW t \in Threads,
           \/ SplitLock(t) \/ SplitBack(t) \/ SplitPutSame(t) \/ SplitPutNew(t)
           \/ SplitLink(t) \/ SplitSize(t) \/ SplitRetire(t)
    PROVE  LockDiscipline'
<1> USE DEF Locked, InMerge
<1>1. CASE SplitLock(t)
  BY <1>1, SplitLockFrame, TakesLock DEF SplitLock
<1>2. CASE SplitBack(t)
  BY <1>2, SplitDoneThread, GivesLock DEF SplitBack
<1>3. CASE SplitPutSame(t) \/ SplitPutNew(t)
  <2>1. pc[t] = "splitPut" /\ lock' = lock /\ mergeLock' = mergeLock
    BY <1>3 DEF SplitPutSame, SplitPutNew
  <2> QED
    BY <1>3, <2>1, SplitPutFrame, NoLockStep
<1>4. CASE SplitLink(t)
  BY <1>4, GotoThread, NoLockStep DEF SplitLink
<1>5. CASE SplitSize(t)
  <2>1. Others(t) /\ pc'[t] \in {"splitRetire", "splitPut"} /\ loc'[t] = loc[t]
    BY <1>5, GotoThread DEF SplitSize, AfterPart
  <2> QED
    BY <1>5, <2>1, NoLockStep DEF SplitSize
<1>6. CASE SplitRetire(t)
  BY <1>6, GotoThread, GivesLock DEF SplitRetire
<1> QED
  BY <1>1, <1>2, <1>3, <1>4, <1>5, <1>6

(* The steps of a merge that keep its locks, or take one, keep its head. *)
LEMMA MergeLockFrame ==
    ASSUME TypeInv, NEW t \in Threads, MergeLockHead(t)
    PROVE  /\ loc[t].head \in Heads /\ Others(t)
           /\ pc'[t] \in {"mergeBack", "mergeVisit"}
           /\ loc'[t].head = loc[t].head /\ loc'[t].op = loc[t].op
<1>1. loc[t] \in Loc /\ loc[t].head \in Heads
  BY ThreadType DEF MergeLockHead, TypeInv, Shape, HasHead, InMerge
<1>2. ASSUME NEW list, Update(t, "mergeBack", [loc[t] EXCEPT !.list = list])
      PROVE  /\ Others(t) /\ pc'[t] = "mergeBack"
             /\ loc'[t].head = loc[t].head /\ loc'[t].op = loc[t].op
  <2> DEFINE m == [loc[t] EXCEPT !.list = list]
  <2>1. m.head = loc[t].head /\ m.op = loc[t].op
    BY <1>1 DEF Loc
  <2>2. Update(t, "mergeBack", m)
    BY <1>2
  <2> HIDE DEF m
  <2> QED
    BY <2>1, <2>2, UpdateThread
<1>3. ASSUME NEW list, NEW S, NEW ps,
             Update(t, "mergeVisit", [loc[t] EXCEPT !.list = list, !.sel = S, !.parts = ps])
      PROVE  /\ Others(t) /\ pc'[t] = "mergeVisit"
             /\ loc'[t].head = loc[t].head /\ loc'[t].op = loc[t].op
  <2> DEFINE m == [loc[t] EXCEPT !.list = list, !.sel = S, !.parts = ps]
  <2>1. m.head = loc[t].head /\ m.op = loc[t].op
    BY <1>1 DEF Loc
  <2>2. Update(t, "mergeVisit", m)
    BY <1>3
  <2> HIDE DEF m
  <2> QED
    BY <2>1, <2>2, UpdateThread
<1> QED
  BY <1>1, <1>2, <1>3 DEF MergeLockHead

LEMMA MergeVisitFrame ==
    ASSUME TypeInv, NEW t \in Threads, MergeVisit(t)
    PROVE  /\ Others(t) /\ pc'[t] \in {"mergeBack", "mergeWith", "mergeVisit"}
           /\ loc'[t].head = loc[t].head /\ loc'[t].op = loc[t].op
<1>1. loc[t] \in Loc
  BY ThreadType DEF TypeInv
<1>2. ASSUME NEW label, NEW m, m.head = loc[t].head, m.op = loc[t].op, Update(t, label, m)
      PROVE  /\ Others(t) /\ pc'[t] = label
             /\ loc'[t].head = loc[t].head /\ loc'[t].op = loc[t].op
  BY <1>2, UpdateThread
<1>3. ASSUME NEW ps
      PROVE  /\ [loc[t] EXCEPT !.parts = ps].head = loc[t].head
             /\ [loc[t] EXCEPT !.parts = ps].op = loc[t].op
  BY <1>1 DEF Loc
<1>4. ASSUME NEW S
      PROVE  /\ [loc[t] EXCEPT !.sel = S].head = loc[t].head
             /\ [loc[t] EXCEPT !.sel = S].op = loc[t].op
  BY <1>1 DEF Loc
<1>5. ASSUME NEW S, NEW c
      PROVE  /\ [[loc[t] EXCEPT !.sel = S] EXCEPT !.prev = c].head = loc[t].head
             /\ [[loc[t] EXCEPT !.sel = S] EXCEPT !.prev = c].op = loc[t].op
  BY <1>1 DEF Loc
<1>6. \/ \E ps : Update(t, "mergeBack", [loc[t] EXCEPT !.parts = ps])
      \/ \E S, c : Update(t, "mergeWith", [[loc[t] EXCEPT !.sel = S] EXCEPT !.prev = c])
      \/ \E S : Update(t, "mergeVisit", [loc[t] EXCEPT !.sel = S])
  BY DEF MergeVisit
<1>7. CASE \E ps : Update(t, "mergeBack", [loc[t] EXCEPT !.parts = ps])
  BY <1>2, <1>3, <1>7
<1>8. CASE \E S, c : Update(t, "mergeWith", [[loc[t] EXCEPT !.sel = S] EXCEPT !.prev = c])
  BY <1>2, <1>5, <1>8
<1>9. CASE \E S : Update(t, "mergeVisit", [loc[t] EXCEPT !.sel = S])
  BY <1>2, <1>4, <1>9
<1> QED
  BY <1>6, <1>7, <1>8, <1>9

LEMMA MergeLock ==
    ASSUME TypeInv, LockDiscipline, NEW t \in Threads,
           \/ MergeTry(t) \/ MergeGone(t) \/ MergeLockHead(t) \/ MergeVisit(t)
           \/ MergePartnerGone(t) \/ MergeWith(t) \/ MergeBack(t)
    PROVE  LockDiscipline'
<1> USE DEF Locked, InMerge
<1>1. CASE MergeTry(t)
  <2>1. CASE mergeLock = None
    BY <1>1, <2>1, GotoThread, MergeLockStep DEF MergeTry
  <2>2. CASE mergeLock # None
    BY <1>1, <2>2, DoneThread, OutsideStep DEF MergeTry
  <2> QED
    BY <2>1, <2>2
<1>2. CASE MergeGone(t)
  BY <1>2, DoneThread, MergeLockStep DEF MergeGone
<1>3. CASE MergeLockHead(t)
  BY <1>3, MergeLockFrame, TakesLock DEF MergeLockHead
<1>4. CASE MergeVisit(t)
  BY <1>4, MergeVisitFrame, NoLockStep DEF MergeVisit
<1>5. CASE MergePartnerGone(t)
  BY <1>5, GotoThread, NoLockStep DEF MergePartnerGone
<1>6. CASE MergeWith(t)
  <2>1. \E l : Update(t, "mergeReassign", l)
    BY <1>6 DEF MergeWith
  <2>2. Others(t) /\ pc'[t] = "mergeReassign"
    BY <2>1, UpdateThread
  <2> QED
    BY <1>6, <2>2, GivesLock DEF MergeWith
<1>7. CASE MergeBack(t)
  BY <1>7, DoneThread, GivesLock DEF MergeBack
<1> QED
  BY <1>1, <1>2, <1>3, <1>4, <1>5, <1>6, <1>7

LEMMA LockStep == TypeInv /\ LockDiscipline /\ [Next]_vars => LockDiscipline'
<1> SUFFICES ASSUME TypeInv, LockDiscipline, [Next]_vars PROVE LockDiscipline'
  OBVIOUS
<1>1. ASSUME NEW t \in Clients, NEW v \in Vids, AddIndex(t, v) PROVE LockDiscipline'
  BY <1>1, ClientLock DEF Threads
<1>2. ASSUME NEW v \in Vids, Delete(v) PROVE LockDiscipline'
  BY <1>2 DEF Delete, LockDiscipline
<1>3. ASSUME NEW t \in Clients, NEW h \in Heads, SearchRead(t, h) PROVE LockDiscipline'
  BY <1>3, ClientLock DEF Threads
<1>4. ASSUME NEW t \in Workers, Take(t) PROVE LockDiscipline'
  BY <1>4, WorkerLock DEF Threads
<1>5. ASSUME NEW t \in Threads, Step(t) PROVE LockDiscipline'
  BY <1>5, ClientLock, WorkerLock, SplitLockStep, MergeLock DEF Step
<1>6. CASE UNCHANGED vars
  BY <1>6 DEF vars, LockDiscipline
<1> QED
  BY <1>1, <1>2, <1>3, <1>4, <1>5, <1>6 DEF Next

(* A thread is in a critical section of a head only while it holds the slot *)
(* the head hashes to, and no slot stays locked behind it: the scan of a    *)
(* posting, its rewriting and the merge of two are atomic for each other.   *)
THEOREM LocksHold == Spec => []LockDiscipline
<1> QED
  BY TypeInit, TypeStep, LockInit, LockStep, PTL DEF Spec

(* Two threads are never in the critical sections of heads that share a     *)
(* slot, the same head included, nor both in a merge.                       *)
Excluded(t, u) ==
    /\ pc[t] \in Locked /\ pc[u] \in Locked => LockOf(loc[t].head) # LockOf(loc[u].head)
    /\ pc[t] \notin InMerge \/ pc[u] \notin InMerge

(* The lock of a posting, and m_mergeLock, exclude any two threads.         *)
THEOREM MutualExclusion == Spec => [](\A t, u \in Threads : t # u => Excluded(t, u))
<1>1. LockDiscipline => \A t, u \in Threads : t # u => Excluded(t, u)
  BY DEF LockDiscipline, Excluded
<1> QED
  BY <1>1, LocksHold, PTL
=============================================================================
