--------------------------- MODULE LireListProofs ---------------------------
(***************************************************************************)
(* The lists of heads that wait for a split or a merge, for any number of  *)
(* threads, heads and lock slots: a head in m_splitList, or in m_mergeList *)
(* while it exists, has a queued job, or a thread at work, that takes it   *)
(* out again; and what the threads know of the heads they are at.          *)
(***************************************************************************)
EXTENDS LireLockProofs

----------------------------------------------------------------------------
(* What each step does to its thread: where it goes on, with which locals *)

(* A thread that is done forgets everything. *)
LEMMA DoneFrame ==
    ASSUME TypeInv, NEW t \in Threads, Done(t)
    PROVE  Others(t) /\ pc'[t] = "idle" /\ loc'[t] = Idle
BY DEF TypeInv, ThreadsType, Done, Others

(* A split inside a reassign goes on with the next replica. *)
Resumes(t) ==
    \/ /\ loc[t].op # "reassign" /\ pc'[t] = "idle" /\ loc'[t] = Idle
    \/ /\ loc[t].op = "reassign" /\ pc'[t] = "next" /\ loc'[t].op = "reassign"
       /\ loc'[t].copy = loc[t].copy /\ loc'[t].sel = loc[t].sel

LEMMA SplitDoneFrame ==
    ASSUME TypeInv, NEW t \in Threads, SplitDone(t)
    PROVE  Others(t) /\ Resumes(t)
<1>1. CASE loc[t].op = "reassign"
  <2> DEFINE c == loc[t].copy
             S == loc[t].sel
             k == Idle
             l == [k EXCEPT !.op = "reassign", !.copy = c, !.sel = S]
  <2>1. k \in Loc
    BY IdleType
  <2>2. Update(t, "next", l)
    BY <1>1 DEF SplitDone, Update
  <2> HIDE DEF c, S, k
  <2>3. l.op = "reassign" /\ l.copy = c /\ l.sel = S
    BY <2>1 DEF Loc
  <2> HIDE DEF l
  <2>4. Others(t) /\ pc'[t] = "next" /\ loc'[t] = l
    BY <2>2, UpdateThread
  <2> QED
    BY <1>1, <2>3, <2>4 DEF Resumes, c, S
<1>2. CASE loc[t].op # "reassign"
  BY <1>2, DoneFrame DEF SplitDone, Resumes
<1> QED
  BY <1>1, <1>2

(* A step changes some of the locals, and others not. *)
KeepsCall(t) == loc'[t].op = loc[t].op /\ loc'[t].copy = loc[t].copy
KeepsSplit(t) ==
    /\ KeepsCall(t) /\ loc'[t].sel = loc[t].sel /\ loc'[t].head = loc[t].head

LEMMA AddIndexFrame ==
    ASSUME TypeInv, NEW t \in Threads, NEW v \in Vids, AddIndex(t, v)
    PROVE  /\ Others(t) /\ pc'[t] = "next" /\ loc'[t].sel \in RNGSelections
           /\ loc'[t].op = "insert" /\ loc'[t].copy = [vid |-> v, ver |-> version[v]]
<1> DEFINE k == Idle
           c == [vid |-> v, ver |-> version[v]]
<1>1. PICK S \in RNGSelections :
         Update(t, "next", [k EXCEPT !.op = "insert", !.sel = S, !.copy = c])
  BY DEF AddIndex
<1> DEFINE l == [k EXCEPT !.op = "insert", !.sel = S, !.copy = c]
<1>2. k \in Loc
  BY IdleType
<1> HIDE DEF k, c
<1>3. l.op = "insert" /\ l.sel = S /\ l.copy = c
  BY <1>2 DEF Loc
<1> HIDE DEF l
<1>4. Others(t) /\ pc'[t] = "next" /\ loc'[t] = l
  BY <1>1, UpdateThread DEF l
<1> QED
  BY <1>3, <1>4 DEF c

LEMMA SearchReadFrame ==
    ASSUME TypeInv, NEW t \in Threads, NEW h \in Heads, SearchRead(t, h)
    PROVE  /\ Others(t) /\ pc'[t] = "mergeFind" /\ loc'[t].op = "search"
           /\ loc'[t].head = h /\ loc'[t].sel = {}
<1> DEFINE k == Idle
           l == [k EXCEPT !.op = "search", !.head = h]
<1>1. Update(t, "mergeFind", l)
  BY DEF SearchRead
<1>2. k \in Loc /\ k.sel = {}
  BY IdleType DEF Idle
<1> HIDE DEF k
<1>3. l.op = "search" /\ l.head = h /\ l.sel = {}
  BY <1>2 DEF Loc
<1> HIDE DEF l
<1> QED
  BY <1>1, <1>3, UpdateThread

LEMMA SearchFindFrame ==
    ASSUME TypeInv, NEW t \in Threads, SearchFind(t)
    PROVE  /\ Others(t)
           /\ \/ pc'[t] = "idle" /\ loc'[t] = Idle
              \/ pc'[t] = "mergeAdd" /\ loc'[t] = loc[t]
BY DoneFrame, GotoThread DEF SearchFind

LEMMA NextReplicaFrame ==
    ASSUME TypeInv, NEW t \in Threads, NextReplica(t)
    PROVE  /\ Others(t)
           /\ \/ /\ pc'[t] = "idle" /\ loc'[t] = Idle
                 /\ loc[t].sel = {} \/ version[loc[t].copy.vid] # loc[t].copy.ver
              \/ /\ pc'[t] = "append" /\ KeepsCall(t) /\ loc'[t].head \in loc[t].sel
                 /\ loc'[t].sel = loc[t].sel \ {loc'[t].head}
<1> DEFINE stop == loc[t].sel = {} \/ (loc[t].op = "reassign" /\ version[loc[t].copy.vid] # loc[t].copy.ver)
<1>1. CASE stop
  BY <1>1, DoneFrame DEF NextReplica
<1>2. CASE ~stop
  <2>1. PICK h \in loc[t].sel :
           Update(t, "append", [loc[t] EXCEPT !.head = h, !.sel = @ \ {h}])
    BY <1>2 DEF NextReplica
  <2> DEFINE k == loc[t]
             S == k.sel \ {h}
             l == [k EXCEPT !.head = h, !.sel = S]
  <2>2. Update(t, "append", l) /\ k \in Loc
    BY <2>1, ThreadType DEF TypeInv
  <2> HIDE DEF k, S
  <2>3. l.head = h /\ l.sel = S /\ l.op = k.op /\ l.copy = k.copy
    BY <2>2 DEF Loc
  <2> HIDE DEF l
  <2>4. Others(t) /\ pc'[t] = "append" /\ loc'[t] = l
    BY <2>2, UpdateThread
  <2> QED
    BY <2>3, <2>4 DEF k, S, KeepsCall
<1> QED
  BY <1>1, <1>2

(* The append goes on, with no head at hand. *)
GoesOn(t) == pc'[t] = "next" /\ KeepsCall(t) /\ loc'[t].sel = loc[t].sel

LEMMA GoesOnFrame ==
    ASSUME TypeInv, NEW t \in Threads, Update(t, "next", [loc[t] EXCEPT !.head = 0])
    PROVE  Others(t) /\ GoesOn(t)
<1> DEFINE k == loc[t]
           l == [k EXCEPT !.head = 0]
<1>1. Update(t, "next", l) /\ k \in Loc
  BY ThreadType DEF TypeInv
<1> HIDE DEF k
<1>2. l.sel = k.sel /\ l.op = k.op /\ l.copy = k.copy
  BY <1>1 DEF Loc
<1> HIDE DEF l
<1>3. Others(t) /\ pc'[t] = "next" /\ loc'[t] = l
  BY <1>1, UpdateThread
<1> QED
  BY <1>2, <1>3 DEF k, GoesOn, KeepsCall

LEMMA AppendMissFrame ==
    ASSUME TypeInv, NEW t \in Threads, AppendMiss(t)
    PROVE  Others(t) /\ (GoesOn(t) \/ (pc'[t] = "idle" /\ loc'[t] = Idle))
BY DoneFrame, GoesOnFrame DEF AppendMiss

LEMMA SplitSyncFrame ==
    ASSUME TypeInv, NEW t \in Threads, SplitSync(t)
    PROVE  Others(t) /\ pc'[t] = "splitLock" /\ KeepsSplit(t)
<1> DEFINE k == loc[t]
           r == ~DisableReassign
           l == [k EXCEPT !.reassign = r]
<1>1. Update(t, "splitLock", l) /\ k \in Loc
  BY ThreadType DEF TypeInv, SplitSync
<1> HIDE DEF k, r
<1>2. l.sel = k.sel /\ l.op = k.op /\ l.copy = k.copy /\ l.head = k.head
  BY <1>1 DEF Loc
<1> HIDE DEF l
<1>3. Others(t) /\ pc'[t] = "splitLock" /\ loc'[t] = l
  BY <1>1, UpdateThread
<1> QED
  BY <1>2, <1>3 DEF k, KeepsSplit, KeepsCall

LEMMA TakeFrame ==
    ASSUME TypeInv, NEW t \in Threads, Take(t)
    PROVE  /\ Others(t) /\ loc'[t].sel = {} /\ loc'[t].op = Head(queue).type
           /\ \/ Head(queue).type = "split" /\ pc'[t] = "splitLock"
                 /\ loc'[t].head = Head(queue).head
              \/ Head(queue).type = "merge" /\ pc'[t] = "mergeTry"
                 /\ loc'[t].head = Head(queue).head
              \/ Head(queue).type = "reassign" /\ pc'[t] = "reassign"
                 /\ loc'[t].copy = Head(queue).copy /\ loc'[t].prev = Head(queue).prev
<1> DEFINE j == Head(queue)
           k == Idle
           r == ~DisableReassign
<1>1. j \in Job
  BY HeadTailProperties DEF Take, TypeInv, SharedType
<1>2. k \in Loc /\ k.sel = {}
  BY IdleType DEF Idle
<1>3. CASE j.type = "split"
  <2> DEFINE l == [k EXCEPT !.op = "split", !.head = j.head, !.reassign = r]
  <2>1. Update(t, "splitLock", l)
    BY <1>3 DEF Take
  <2> HIDE DEF j, k, r
  <2>2. l.sel = {} /\ l.op = "split" /\ l.head = j.head
    BY <1>2 DEF Loc
  <2> HIDE DEF l
  <2>3. Others(t) /\ pc'[t] = "splitLock" /\ loc'[t] = l
    BY <2>1, UpdateThread
  <2> QED
    BY <1>3, <2>2, <2>3 DEF j
<1>4. CASE j.type = "merge"
  <2> DEFINE f == j.reassign
             l == [k EXCEPT !.op = "merge", !.head = j.head, !.reassign = f]
  <2>1. Update(t, "mergeTry", l)
    BY <1>4 DEF Take
  <2> HIDE DEF j, k, f
  <2>2. l.sel = {} /\ l.op = "merge" /\ l.head = j.head
    BY <1>2 DEF Loc
  <2> HIDE DEF l
  <2>3. Others(t) /\ pc'[t] = "mergeTry" /\ loc'[t] = l
    BY <2>1, UpdateThread
  <2> QED
    BY <1>4, <2>2, <2>3 DEF j
<1>5. CASE j.type = "reassign"
  <2> DEFINE l == [k EXCEPT !.op = "reassign", !.copy = j.copy, !.prev = j.prev]
  <2>1. Update(t, "reassign", l)
    BY <1>5 DEF Take
  <2> HIDE DEF j, k
  <2>2. l.sel = {} /\ l.op = "reassign" /\ l.copy = j.copy /\ l.prev = j.prev
    BY <1>2 DEF Loc
  <2> HIDE DEF l
  <2>3. Others(t) /\ pc'[t] = "reassign" /\ loc'[t] = l
    BY <2>1, UpdateThread
  <2> QED
    BY <1>5, <2>2, <2>3 DEF j
<1> QED
  BY <1>1, <1>3, <1>4, <1>5 DEF Job

LEMMA ReassignSelectFrame ==
    ASSUME TypeInv, NEW t \in Threads, ReassignSelect(t)
    PROVE  /\ Others(t)
           /\ \/ /\ pc'[t] = "idle" /\ loc'[t] = Idle
                 /\ ~Live(loc[t].copy) \/ loc[t].prev \in Searchable
              \/ pc'[t] = "reassignCheck" /\ KeepsCall(t) /\ loc'[t].sel \in RNGSelections
<1>1. CASE Live(loc[t].copy)
  <2>1. PICK S \in RNGSelections :
           IF loc[t].prev \in S THEN Done(t)
           ELSE Update(t, "reassignCheck", [loc[t] EXCEPT !.sel = S])
    BY <1>1 DEF ReassignSelect
  <2>2. CASE loc[t].prev \in S
    BY <2>1, <2>2, DoneFrame DEF RNGSelections, NearHeads
  <2>3. CASE loc[t].prev \notin S
    <3> DEFINE k == loc[t]
               l == [k EXCEPT !.sel = S]
    <3>1. Update(t, "reassignCheck", l) /\ k \in Loc
      BY <2>1, <2>3, ThreadType DEF TypeInv
    <3> HIDE DEF k
    <3>2. l.sel = S /\ l.op = k.op /\ l.copy = k.copy
      BY <3>1 DEF Loc
    <3> HIDE DEF l
    <3>3. Others(t) /\ pc'[t] = "reassignCheck" /\ loc'[t] = l
      BY <3>1, UpdateThread
    <3> QED
      BY <3>2, <3>3 DEF k, KeepsCall
  <2> QED
    BY <2>2, <2>3
<1>2. CASE ~Live(loc[t].copy)
  BY <1>2, DoneFrame DEF ReassignSelect
<1> QED
  BY <1>1, <1>2

LEMMA ReassignCheckFrame ==
    ASSUME TypeInv, NEW t \in Threads, ReassignCheck(t)
    PROVE  /\ Others(t)
           /\ \/ pc'[t] = "idle" /\ loc'[t] = Idle /\ ~Live(loc[t].copy)
              \/ pc'[t] = "bump" /\ loc'[t] = loc[t]
BY DoneFrame, GotoThread DEF ReassignCheck

LEMMA ReassignBumpFrame ==
    ASSUME TypeInv, NEW t \in Threads, ReassignBump(t)
    PROVE  /\ Others(t) /\ pc'[t] = "next"
           /\ loc'[t].op = loc[t].op /\ loc'[t].sel = loc[t].sel
           /\ loc[t].copy \in Copy
           /\ loc'[t].copy = [vid |-> loc[t].copy.vid, ver |-> NextVersion(version[loc[t].copy.vid])]
<1> DEFINE k == loc[t]
           n == NextVersion(version[k.copy.vid])
           l == [k EXCEPT !.copy.ver = n]
<1>1. Update(t, "next", l) /\ pc[t] = "bump"
  BY DEF ReassignBump
<1>2. k \in Loc /\ k.copy \in Copy
  BY <1>1, ThreadType DEF TypeInv, Shape, Selecting
<1> HIDE DEF k, n
<1>3. l.sel = k.sel /\ l.op = k.op /\ l.copy = [k.copy EXCEPT !.ver = n]
  BY <1>2 DEF Loc
<1>4. [k.copy EXCEPT !.ver = n] = [vid |-> k.copy.vid, ver |-> n]
  BY <1>2 DEF Copy
<1> HIDE DEF l
<1>5. Others(t) /\ pc'[t] = "next" /\ loc'[t] = l
  BY <1>1, UpdateThread
<1> QED
  BY <1>2, <1>3, <1>4, <1>5 DEF k, n

(* The three ways the scan of a posting ends under its lock. *)
LEMMA SplitLockEnds ==
    ASSUME TypeInv, NEW t \in Threads, SplitLock(t)
    PROVE  /\ Others(t) /\ KeepsSplit(t)
           /\ \E list \in LiveOf(posting[loc[t].head]) :
                 \/ /\ pc'[t] = "splitBack" /\ loc'[t].list = list
                 \/ /\ pc'[t] = "splitBack"
                    /\ Cardinality({Point(v) : v \in VidsIn(list)}) = 1
                    /\ \E c \in CopiesIn(list) : loc'[t].list = <<c>>
                 \/ /\ pc'[t] = "splitPut" /\ loc'[t].heads = <<>>
                    /\ loc'[t].parts \in Clusterings(list) /\ loc'[t].same \in 0..2
<1> DEFINE k == loc[t]
<1>1. k \in Loc
  BY ThreadType DEF TypeInv
<1>2. ASSUME NEW s, Update(t, "splitBack", [k EXCEPT !.list = s])
      PROVE  Others(t) /\ KeepsSplit(t) /\ pc'[t] = "splitBack" /\ loc'[t].list = s
  <2> DEFINE l == [k EXCEPT !.list = s]
  <2> HIDE DEF k
  <2>1. l.sel = k.sel /\ l.op = k.op /\ l.copy = k.copy /\ l.head = k.head /\ l.list = s
    BY <1>1 DEF Loc
  <2>2. Update(t, "splitBack", l)
    BY <1>2
  <2> HIDE DEF l
  <2>3. Others(t) /\ pc'[t] = "splitBack" /\ loc'[t] = l
    BY <2>2, UpdateThread
  <2> QED
    BY <2>1, <2>3 DEF k, KeepsSplit, KeepsCall
<1>3. ASSUME NEW p, NEW same,
             Update(t, "splitPut", [k EXCEPT !.parts = p, !.same = same, !.heads = <<>>])
      PROVE  /\ Others(t) /\ KeepsSplit(t) /\ pc'[t] = "splitPut"
             /\ loc'[t].parts = p /\ loc'[t].same = same /\ loc'[t].heads = <<>>
  <2> DEFINE l == [k EXCEPT !.parts = p, !.same = same, !.heads = <<>>]
  <2> HIDE DEF k
  <2>1. /\ l.sel = k.sel /\ l.op = k.op /\ l.copy = k.copy /\ l.head = k.head
        /\ l.parts = p /\ l.same = same /\ l.heads = <<>>
    BY <1>1 DEF Loc
  <2>2. Update(t, "splitPut", l)
    BY <1>3
  <2> HIDE DEF l
  <2>3. Others(t) /\ pc'[t] = "splitPut" /\ loc'[t] = l
    BY <2>2, UpdateThread
  <2> QED
    BY <2>1, <2>3 DEF k, KeepsSplit, KeepsCall
<1> HIDE DEF k
<1>4. PICK list \in LiveOf(posting[loc[t].head]) :
         \/ Update(t, "splitBack", [k EXCEPT !.list = list])
         \/ /\ Cardinality({Point(v) : v \in VidsIn(list)}) = 1
            /\ \E c \in CopiesIn(list) : Update(t, "splitBack", [k EXCEPT !.list = <<c>>])
         \/ \E p \in Clusterings(list), same \in 0..2 :
               Update(t, "splitPut", [k EXCEPT !.parts = p, !.same = same, !.heads = <<>>])
  BY DEF SplitLock, k
<1>5. CASE Update(t, "splitBack", [k EXCEPT !.list = list])
  BY <1>2, <1>5
<1>6. CASE /\ Cardinality({Point(v) : v \in VidsIn(list)}) = 1
           /\ \E c \in CopiesIn(list) : Update(t, "splitBack", [k EXCEPT !.list = <<c>>])
  BY <1>2, <1>6
<1>7. CASE \E p \in Clusterings(list), same \in 0..2 :
               Update(t, "splitPut", [k EXCEPT !.parts = p, !.same = same, !.heads = <<>>])
  BY <1>3, <1>7
<1> QED
  BY <1>4, <1>5, <1>6, <1>7

(* A cluster is written: one more head. *)
PartPut(t, h) ==
    /\ KeepsSplit(t) /\ loc'[t].parts = loc[t].parts /\ loc'[t].same = loc[t].same
    /\ loc'[t].heads = Append(loc[t].heads, h)

LEMMA PartPutFrame ==
    ASSUME TypeInv, NEW t \in Threads, NEW label, NEW h,
           Update(t, label, [loc[t] EXCEPT !.heads = Append(loc[t].heads, h)])
    PROVE  Others(t) /\ pc'[t] = label /\ PartPut(t, h)
<1> DEFINE k == loc[t]
           hs == Append(k.heads, h)
           l == [k EXCEPT !.heads = hs]
<1>1. Update(t, label, l) /\ k \in Loc
  BY ThreadType DEF TypeInv
<1> HIDE DEF k, hs
<1>2. /\ l.sel = k.sel /\ l.op = k.op /\ l.copy = k.copy /\ l.head = k.head
      /\ l.parts = k.parts /\ l.same = k.same /\ l.heads = hs
  BY <1>1 DEF Loc
<1> HIDE DEF l
<1>3. Others(t) /\ pc'[t] = label /\ loc'[t] = l
  BY <1>1, UpdateThread
<1> QED
  BY <1>2, <1>3 DEF k, hs, PartPut, KeepsSplit, KeepsCall

LEMMA SplitPutSameFrame ==
    ASSUME TypeInv, NEW t \in Threads, SplitPutSame(t)
    PROVE  /\ Others(t) /\ PartPut(t, loc[t].head)
           /\ pc'[t] = AfterPart(Append(loc[t].heads, loc[t].head))
BY PartPutFrame DEF SplitPutSame

LEMMA SplitPutNewFrame ==
    ASSUME TypeInv, NEW t \in Threads, SplitPutNew(t)
    PROVE  Others(t) /\ PartPut(t, NewHead) /\ pc'[t] = "splitLink"
BY PartPutFrame DEF SplitPutNew

LEMMA SplitEraseFrame ==
    ASSUME TypeInv, NEW t \in Threads, SplitErase(t)
    PROVE  Others(t) /\ (Resumes(t) \/ (pc'[t] = "collect" /\ loc'[t] = loc[t]))
BY GotoThread, SplitDoneFrame DEF SplitErase

LEMMA CollectFrame ==
    ASSUME TypeInv, NEW t \in Threads, Collect(t)
    PROVE  Others(t) /\ (Resumes(t) \/ (pc'[t] = "nearby" /\ KeepsSplit(t)))
<1> DEFINE k == loc[t]
<1>1. (\E T : Update(t, "nearby", [k EXCEPT !.parts = <<>>, !.taken = T])) \/ SplitDone(t)
  BY DEF Collect
<1>2. ASSUME NEW T, Update(t, "nearby", [k EXCEPT !.parts = <<>>, !.taken = T])
      PROVE  Others(t) /\ pc'[t] = "nearby" /\ KeepsSplit(t)
  <2> DEFINE l == [k EXCEPT !.parts = <<>>, !.taken = T]
  <2>1. Update(t, "nearby", l) /\ k \in Loc
    BY <1>2, ThreadType DEF TypeInv
  <2> HIDE DEF k
  <2>2. l.sel = k.sel /\ l.op = k.op /\ l.copy = k.copy /\ l.head = k.head
    BY <2>1 DEF Loc
  <2> HIDE DEF l
  <2>3. Others(t) /\ pc'[t] = "nearby" /\ loc'[t] = l
    BY <2>1, UpdateThread
  <2> QED
    BY <2>2, <2>3 DEF k, KeepsSplit, KeepsCall
<1> HIDE DEF k
<1> QED
  BY <1>1, <1>2, SplitDoneFrame

LEMMA CollectSearchFrame ==
    ASSUME TypeInv, NEW t \in Threads, CollectSearch(t)
    PROVE  Others(t) /\ pc'[t] = "read" /\ KeepsSplit(t)
<1> DEFINE k == loc[t]
<1>1. PICK hs : Update(t, "read", [k EXCEPT !.heads = hs])
  BY DEF CollectSearch
<1> DEFINE l == [k EXCEPT !.heads = hs]
<1>2. k \in Loc
  BY ThreadType DEF TypeInv
<1> HIDE DEF k
<1>3. l.sel = k.sel /\ l.op = k.op /\ l.copy = k.copy /\ l.head = k.head
  BY <1>2 DEF Loc
<1> HIDE DEF l
<1>4. Others(t) /\ pc'[t] = "read" /\ loc'[t] = l
  BY <1>1, UpdateThread DEF l
<1> QED
  BY <1>3, <1>4 DEF k, KeepsSplit, KeepsCall

LEMMA CollectReadFrame ==
    ASSUME TypeInv, NEW t \in Threads, CollectRead(t)
    PROVE  Others(t) /\ pc'[t] = "rescan" /\ KeepsSplit(t)
<1> DEFINE k == loc[t]
           p == [i \in DOMAIN k.heads |-> posting[k.heads[i]]]
           l == [k EXCEPT !.parts = p]
<1>1. Update(t, "rescan", l) /\ k \in Loc
  BY ThreadType DEF TypeInv, CollectRead
<1> HIDE DEF k, p
<1>2. l.sel = k.sel /\ l.op = k.op /\ l.copy = k.copy /\ l.head = k.head
  BY <1>1 DEF Loc
<1> HIDE DEF l
<1>3. Others(t) /\ pc'[t] = "rescan" /\ loc'[t] = l
  BY <1>1, UpdateThread
<1> QED
  BY <1>2, <1>3 DEF k, KeepsSplit, KeepsCall

LEMMA MergeTryFrame ==
    ASSUME TypeInv, NEW t \in Threads, MergeTry(t)
    PROVE  /\ Others(t)
           /\ \/ /\ mergeLock = None /\ mergeLock' = t /\ queue' = queue
                 /\ pc'[t] = "mergeLockHead" /\ loc'[t] = loc[t]
              \/ /\ mergeLock' = mergeLock /\ pc'[t] = "idle" /\ loc'[t] = Idle
                 /\ queue' = Append(queue, MergeJob(loc[t].head, ~loc[t].reassign))
BY DoneFrame, GotoThread DEF MergeTry

LEMMA MergeLockHeadFrame ==
    ASSUME TypeInv, NEW t \in Threads, MergeLockHead(t)
    PROVE  /\ Others(t) /\ KeepsCall(t) /\ loc'[t].head = loc[t].head
           /\ loc'[t].list \in LiveOf(posting[loc[t].head])
           /\ \/ pc'[t] = "mergeBack" /\ loc'[t].sel = loc[t].sel
              \/ pc'[t] = "mergeVisit" /\ loc'[t].sel \subseteq Searchable \ {loc[t].head}
<1> DEFINE k == loc[t]
<1>1. k \in Loc
  BY ThreadType DEF TypeInv
<1>2. PICK s \in LiveOf(posting[k.head]) :
         \/ Update(t, "mergeBack", [k EXCEPT !.list = s])
         \/ \E S \in SUBSET (Searchable \ {k.head}) : \E p :
               Update(t, "mergeVisit", [k EXCEPT !.list = s, !.sel = S, !.parts = p])
  BY DEF MergeLockHead
<1>3. CASE Update(t, "mergeBack", [k EXCEPT !.list = s])
  <2> DEFINE l == [k EXCEPT !.list = s]
  <2> HIDE DEF k
  <2>1. l.sel = k.sel /\ l.op = k.op /\ l.copy = k.copy /\ l.head = k.head /\ l.list = s
    BY <1>1 DEF Loc
  <2>2. Update(t, "mergeBack", l)
    BY <1>3
  <2> HIDE DEF l
  <2>3. Others(t) /\ pc'[t] = "mergeBack" /\ loc'[t] = l
    BY <2>2, UpdateThread
  <2> QED
    BY <1>2, <2>1, <2>3 DEF k, KeepsCall
<1>4. ASSUME NEW S \in SUBSET (Searchable \ {k.head}), NEW p,
             Update(t, "mergeVisit", [k EXCEPT !.list = s, !.sel = S, !.parts = p])
      PROVE  /\ Others(t) /\ KeepsCall(t) /\ loc'[t].head = k.head /\ loc'[t].list = s
             /\ pc'[t] = "mergeVisit" /\ loc'[t].sel = S
  <2> DEFINE l == [k EXCEPT !.list = s, !.sel = S, !.parts = p]
  <2> HIDE DEF k
  <2>1. l.sel = S /\ l.op = k.op /\ l.copy = k.copy /\ l.head = k.head /\ l.list = s
    BY <1>1 DEF Loc
  <2>2. Update(t, "mergeVisit", l)
    BY <1>4
  <2> HIDE DEF l
  <2>3. Others(t) /\ pc'[t] = "mergeVisit" /\ loc'[t] = l
    BY <2>2, UpdateThread
  <2> QED
    BY <2>1, <2>3 DEF k, KeepsCall
<1> QED
  BY <1>2, <1>3, <1>4

LEMMA MergeVisitEnds ==
    ASSUME TypeInv, NEW t \in Threads, MergeVisit(t)
    PROVE  /\ Others(t) /\ KeepsCall(t) /\ loc'[t].head = loc[t].head
           /\ loc'[t].list = loc[t].list /\ loc'[t].sel \subseteq loc[t].sel
           /\ pc'[t] \in {"mergeBack", "mergeVisit", "mergeWith"}
           /\ pc'[t] = "mergeWith" => loc'[t].prev \in loc[t].sel
<1> DEFINE k == loc[t]
<1>1. k \in Loc
  BY ThreadType DEF TypeInv
<1>2. \/ Update(t, "mergeBack", [k EXCEPT !.parts = <<>>])
      \/ \E c \in k.sel :
            \/ Update(t, "mergeWith", [[k EXCEPT !.sel = k.sel \ {c}] EXCEPT !.prev = c])
            \/ Update(t, "mergeVisit", [k EXCEPT !.sel = k.sel \ {c}])
  BY DEF MergeVisit
<1>3. CASE Update(t, "mergeBack", [k EXCEPT !.parts = <<>>])
  <2> DEFINE l == [k EXCEPT !.parts = <<>>]
  <2> HIDE DEF k
  <2>1. l.sel = k.sel /\ l.op = k.op /\ l.copy = k.copy /\ l.head = k.head /\ l.list = k.list
    BY <1>1 DEF Loc
  <2>2. Update(t, "mergeBack", l)
    BY <1>3
  <2> HIDE DEF l
  <2>3. Others(t) /\ pc'[t] = "mergeBack" /\ loc'[t] = l
    BY <2>2, UpdateThread
  <2> QED
    BY <2>1, <2>3 DEF k, KeepsCall
<1>4. ASSUME NEW c \in k.sel,
             Update(t, "mergeWith", [[k EXCEPT !.sel = k.sel \ {c}] EXCEPT !.prev = c])
      PROVE  /\ Others(t) /\ KeepsCall(t) /\ loc'[t].head = k.head /\ loc'[t].list = k.list
             /\ loc'[t].sel \subseteq k.sel /\ pc'[t] = "mergeWith" /\ loc'[t].prev = c
  <2> DEFINE S == k.sel \ {c}
             l == [[k EXCEPT !.sel = S] EXCEPT !.prev = c]
  <2> HIDE DEF k
  <2> HIDE DEF S
  <2>1. /\ l.sel = S /\ l.op = k.op /\ l.copy = k.copy /\ l.head = k.head
        /\ l.list = k.list /\ l.prev = c
    BY <1>1 DEF Loc
  <2>2. Update(t, "mergeWith", l)
    BY <1>4 DEF S
  <2> HIDE DEF l
  <2>3. Others(t) /\ pc'[t] = "mergeWith" /\ loc'[t] = l
    BY <2>2, UpdateThread
  <2> QED
    BY <2>1, <2>3 DEF k, S, KeepsCall
<1>5. ASSUME NEW c \in k.sel, Update(t, "mergeVisit", [k EXCEPT !.sel = k.sel \ {c}])
      PROVE  /\ Others(t) /\ KeepsCall(t) /\ loc'[t].head = k.head /\ loc'[t].list = k.list
             /\ loc'[t].sel \subseteq k.sel /\ pc'[t] = "mergeVisit"
  <2> DEFINE S == k.sel \ {c}
             l == [k EXCEPT !.sel = S]
  <2> HIDE DEF k
  <2> HIDE DEF S
  <2>1. l.sel = S /\ l.op = k.op /\ l.copy = k.copy /\ l.head = k.head /\ l.list = k.list
    BY <1>1 DEF Loc
  <2>2. Update(t, "mergeVisit", l)
    BY <1>5 DEF S
  <2> HIDE DEF l
  <2>3. Others(t) /\ pc'[t] = "mergeVisit" /\ loc'[t] = l
    BY <2>2, UpdateThread
  <2> QED
    BY <2>1, <2>3 DEF k, S, KeepsCall
<1> QED
  BY <1>2, <1>3, <1>4, <1>5

LEMMA MergeWithFrame ==
    ASSUME TypeInv, NEW t \in Threads, MergeWith(t)
    PROVE  /\ Others(t) /\ pc'[t] = "mergeReassign" /\ KeepsCall(t)
           /\ loc'[t].head = loc[t].head /\ loc'[t].sel = {}
<1> DEFINE k == loc[t]
<1>1. PICK s, w : Update(t, "mergeReassign",
                    [k EXCEPT !.list = s, !.parts = <<>>, !.heads = <<w>>, !.sel = {}])
  BY DEF MergeWith
<1> DEFINE hs == <<w>>
           l == [k EXCEPT !.list = s, !.parts = <<>>, !.heads = hs, !.sel = {}]
<1>2. k \in Loc
  BY ThreadType DEF TypeInv
<1> HIDE DEF k, hs
<1>3. l.sel = {} /\ l.op = k.op /\ l.copy = k.copy /\ l.head = k.head
  BY <1>2 DEF Loc
<1> HIDE DEF l
<1>4. Others(t) /\ pc'[t] = "mergeReassign" /\ loc'[t] = l
  BY <1>1, UpdateThread DEF l, hs
<1> QED
  BY <1>3, <1>4 DEF k, KeepsCall

(* What a merge of the heads h and c with the current copies theirs of c    *)
(* does: merged are its own list and the part new of theirs that is not in  *)
(* it yet.                                                                  *)
Merges(t, theirs, new, winner, loser) ==
    LET merged == loc[t].list \o new
    IN  /\ headState' = [headState EXCEPT ![loser] = "deleted"]
        /\ posting' = [posting EXCEPT ![winner] = merged]
        /\ dropped' = dropped \cup
              {v \in VidsIn(theirs) : [vid |-> v, ver |-> version[v]] \notin CopiesIn(merged)}

LEMMA MergeWithEffect ==
    ASSUME NEW t \in Threads, MergeWith(t)
    PROVE  \E theirs \in LiveOf(posting[loc[t].prev]) :
           \E new \in Sublists(theirs, {i \in DOMAIN theirs : theirs[i].vid \notin VidsIn(loc[t].list)}) :
              \/ Merges(t, theirs, new, loc[t].head, loc[t].prev)
              \/ Merges(t, theirs, new, loc[t].prev, loc[t].head)
BY DEF MergeWith, Merges

----------------------------------------------------------------------------
(* The queue *)

(* No step but Take removes a job. *)
JobsKept == \A i \in DOMAIN queue : \E j \in DOMAIN queue' : queue'[j] = queue[i]

(* A step that leaves the queue alone keeps its jobs... *)
LEMMA SameQueue == ASSUME queue' = queue PROVE JobsKept
BY DEF JobsKept

(* ... one that adds a job at the end does, and the new one is there... *)
LEMMA AppendedJob ==
    ASSUME queue \in Seq(Job), NEW j \in Job, queue' = Append(queue, j)
    PROVE  JobsKept /\ \E i \in DOMAIN queue' : queue'[i] = j
<1>1. /\ DOMAIN queue = 1..Len(queue) /\ Len(queue) \in Nat
      /\ DOMAIN queue' = 1..(Len(queue) + 1)
      /\ \A i \in 1..Len(queue) : queue'[i] = queue[i]
      /\ queue'[Len(queue) + 1] = j
  OBVIOUS
<1>2. Len(queue) + 1 \in DOMAIN queue' /\ DOMAIN queue \subseteq DOMAIN queue'
  BY <1>1
<1> QED
  BY <1>1, <1>2 DEF JobsKept

(* ... and so does one that adds several. *)
LEMMA AddedJobs ==
    ASSUME queue \in Seq(Job), NEW n \in Nat, NEW js, js = [i \in 1..n |-> js[i]],
           queue' = queue \o js
    PROVE  JobsKept
<1>1. js \in Seq({js[i] : i \in 1..n})
  <2> DEFINE S == {js[i] : i \in 1..n}
  <2>1. js \in [1..n -> S]
    OBVIOUS
  <2> HIDE DEF S
  <2>2. js \in Seq(S)
    BY <2>1, SeqDef
  <2> QED
    BY <2>2 DEF S
<1>2. queue \in Seq(Job \cup {js[i] : i \in 1..n}) /\ js \in Seq(Job \cup {js[i] : i \in 1..n})
  BY <1>1
<1>3. /\ DOMAIN queue = 1..Len(queue) /\ Len(queue) \in Nat /\ Len(js) \in Nat
      /\ DOMAIN queue' = 1..(Len(queue) + Len(js))
      /\ \A i \in 1..Len(queue) : queue'[i] = queue[i]
  BY <1>2
<1>4. DOMAIN queue \subseteq DOMAIN queue'
  BY <1>3
<1> QED
  BY <1>3, <1>4 DEF JobsKept

(* Take removes the first one. *)
LEMMA TakenJob ==
    ASSUME queue \in Seq(Job), queue # <<>>, queue' = Tail(queue)
    PROVE  /\ Head(queue) \in Job
           /\ \A i \in DOMAIN queue : queue[i] # Head(queue) =>
                 \E j \in DOMAIN queue' : queue'[j] = queue[i]
<1>1. /\ DOMAIN queue = 1..Len(queue) /\ Len(queue) \in Nat \ {0}
      /\ Head(queue) = queue[1] /\ Head(queue) \in Job
      /\ DOMAIN queue' = 1..(Len(queue) - 1)
      /\ \A j \in 1..(Len(queue) - 1) : queue'[j] = queue[j + 1]
  OBVIOUS
<1>2. ASSUME NEW i \in DOMAIN queue, queue[i] # Head(queue)
      PROVE  \E j \in DOMAIN queue' : queue'[j] = queue[i]
  <2>1. i # 1 /\ i \in 1..Len(queue)
    BY <1>1, <1>2
  <2>2. i - 1 \in 1..(Len(queue) - 1) /\ (i - 1) + 1 = i
    BY <1>1, <2>1
  <2> QED
    BY <1>1, <2>2
<1> QED
  BY <1>1, <1>2

(* The scan for reassigns adds the jobs it found. *)
LEMMA CollectQueue ==
    ASSUME TypeInv, NEW t \in Threads, Collect(t)
    PROVE  JobsKept
<1> DEFINE at(p) == loc[t].parts[p[1]][p[2]]
           js(n, f) == [i \in 1..n |-> ReassignJob(at(f[i]), loc[t].heads[f[i][1]])]
<1>1. PICK n \in 0..spent.reassigns : \E f : queue' = queue \o js(n, f)
  BY DEF Collect
<1>2. PICK f : queue' = queue \o js(n, f)
  BY <1>1
<1>3. spent.reassigns \in Nat
  BY DEF TypeInv, SharedType
<1>4. n \in Nat
  BY <1>3
<1>5. js(n, f) = [i \in 1..n |-> js(n, f)[i]]
  OBVIOUS
<1>6. queue \in Seq(Job)
  BY DEF TypeInv, SharedType
<1> HIDE DEF js
<1> QED
  BY <1>2, <1>4, <1>5, <1>6, AddedJobs

LEMMA MergeReassignQueue ==
    ASSUME TypeInv, NEW t \in Threads, MergeReassign(t)
    PROVE  JobsKept
<1> DEFINE js(copies) == [i \in DOMAIN copies |-> ReassignJob(copies[i], loc[t].heads[1])]
<1>1. PICK I \in SUBSET (IF loc[t].reassign THEN DOMAIN loc[t].list ELSE {}) :
         \E copies \in Sublists(loc[t].list, I) : queue' = queue \o js(copies)
  BY DEF MergeReassign
<1>2. PICK copies \in Sublists(loc[t].list, I) : queue' = queue \o js(copies)
  BY <1>1
<1>3. I \in SUBSET (DOMAIN loc[t].list) /\ loc[t].list \in Seq(Copy)
  BY <1>1, ThreadType DEF TypeInv, Loc
<1>4. copies \in Seq(Copy)
  BY <1>2, <1>3, SublistType
<1>5. DOMAIN copies = 1..Len(copies) /\ Len(copies) \in Nat
  BY <1>4
<1>6. js(copies) = [i \in 1..Len(copies) |-> js(copies)[i]]
  BY <1>5
<1>7. queue \in Seq(Job)
  BY DEF TypeInv, SharedType
<1> HIDE DEF js
<1> QED
  BY <1>2, <1>5, <1>6, <1>7, AddedJobs

----------------------------------------------------------------------------
(* m_splitList *)

(* A step that keeps the jobs, and the head of its thread while it splits,  *)
(* or takes that head out, keeps the promise.                               *)
LEMMA SplitKept ==
    ASSUME TypeInv, SplitListBacked, NEW t \in Threads, Others(t), JobsKept,
           splitList' \subseteq splitList,
           pc[t] \in Splitting =>
              \/ loc[t].head \notin splitList'
              \/ pc'[t] \in Splitting /\ loc'[t].head = loc[t].head
    PROVE  SplitListBacked'
<1> SUFFICES ASSUME NEW h \in splitList'
             PROVE  \/ SplitJob(h) \in {queue'[i] : i \in DOMAIN queue'}
                    \/ \E u \in Threads : pc'[u] \in Splitting /\ loc'[u].head = h
  BY DEF SplitListBacked, SplitJob
<1>1. CASE SplitJob(h) \in {queue[i] : i \in DOMAIN queue}
  BY <1>1 DEF JobsKept
<1>2. ASSUME NEW u \in Threads, pc[u] \in Splitting, loc[u].head = h
      PROVE  \E v \in Threads : pc'[v] \in Splitting /\ loc'[v].head = h
  <2>1. CASE u = t
    BY <1>2, <2>1
  <2>2. CASE u # t
    BY <1>2, <2>2 DEF Others
  <2> QED
    BY <2>1, <2>2
<1> QED
  BY <1>1, <1>2 DEF SplitListBacked

(* The steps of a thread that is not splitting. *)
LEMMA SplitElsewhere ==
    ASSUME TypeInv, SplitListBacked, NEW t \in Threads, Others(t), JobsKept,
           splitList' = splitList, pc[t] \notin Splitting
    PROVE  SplitListBacked'
BY SplitKept

LEMMA ClientSplitList ==
    ASSUME TypeInv, SplitListBacked, NEW t \in Threads,
           \/ \E v \in Vids : AddIndex(t, v)
           \/ \E h \in Heads : SearchRead(t, h)
           \/ SearchFind(t) \/ SearchAdd(t) \/ NextReplica(t) \/ AppendMiss(t)
           \/ AppendMerge(t) \/ SplitSync(t) \/ Appended(t)
    PROVE  SplitListBacked'
<1> USE DEF Splitting
<1>1. ASSUME NEW v \in Vids, AddIndex(t, v) PROVE SplitListBacked'
  BY <1>1, UpdateThread, SameQueue, SplitElsewhere DEF AddIndex
<1>2. ASSUME NEW h \in Heads, SearchRead(t, h) PROVE SplitListBacked'
  BY <1>2, UpdateThread, SameQueue, SplitElsewhere DEF SearchRead, shared
<1>3. CASE SearchFind(t)
  <2>1. Others(t)
    BY <1>3, DoneThread, GotoThread DEF SearchFind
  <2> QED
    BY <1>3, <2>1, SameQueue, SplitElsewhere DEF SearchFind, shared
<1>4. CASE SearchAdd(t)
  <2> DEFINE j == MergeJob(loc[t].head, ~DisableReassign)
  <2>1. j \in Job /\ queue \in Seq(Job)
    BY <1>4, ThreadType, JobType DEF SearchAdd, TypeInv, SharedType, Shape, HasHead
  <2>2. Others(t) /\ pc[t] \notin Splitting /\ splitList' = splitList
    BY <1>4, DoneThread DEF SearchAdd
  <2>3. queue' = Append(queue, j)
    BY <1>4 DEF SearchAdd
  <2> HIDE DEF j
  <2> QED
    BY <2>1, <2>2, <2>3, AppendedJob, SplitElsewhere
<1>5. CASE NextReplica(t)
  <2>1. Others(t)
    BY <1>5, DoneThread, UpdateThread DEF NextReplica
  <2> QED
    BY <1>5, <2>1, SameQueue, SplitElsewhere DEF NextReplica, shared
<1>6. CASE AppendMiss(t)
  <2>1. Others(t) /\ pc[t] \notin Splitting /\ splitList' = splitList
    BY <1>6, DoneThread, UpdateThread DEF AppendMiss
  <2>2. ReassignJob(loc[t].copy, loc[t].head) \in Job /\ queue \in Seq(Job)
    BY <1>6, ThreadType, JobType DEF AppendMiss, TypeInv, SharedType, Shape, HasHead, Appending
  <2>3. JobsKept
    BY <1>6, <2>2, AppendedJob, SameQueue DEF AppendMiss
  <2> QED
    BY <2>1, <2>3, SplitElsewhere
<1>7. CASE AppendMerge(t)
  BY <1>7, GotoThread, SameQueue, SplitElsewhere DEF AppendMerge
<1>8. CASE SplitSync(t)
  BY <1>8, UpdateThread, SameQueue, SplitElsewhere DEF SplitSync, shared
<1>9. CASE Appended(t)
  BY <1>9, UpdateThread, SameQueue, SplitElsewhere DEF Appended, shared
<1> QED
  BY <1>1, <1>2, <1>3, <1>4, <1>5, <1>6, <1>7, <1>8, <1>9

(* SplitAsync makes the promise: it adds the job when it adds the head. *)
LEMMA SplitAsyncList ==
    ASSUME TypeInv, SplitListBacked, NEW t \in Threads, SplitAsync(t)
    PROVE  SplitListBacked'
<1> DEFINE h == loc[t].head
<1>1. SplitJob(h) \in Job /\ queue \in Seq(Job)
  BY ThreadType, JobType DEF SplitAsync, TypeInv, SharedType, Shape, HasHead
<1>2. Others(t) /\ pc[t] \notin Splitting
  BY UpdateThread DEF SplitAsync, Splitting
<1>3. CASE h \in splitList
  <2>1. splitList' = splitList /\ JobsKept
    BY <1>3, SameQueue DEF SplitAsync
  <2> QED
    BY <1>2, <2>1, SplitElsewhere
<1>4. CASE h \notin splitList
  <2>1. queue' = Append(queue, SplitJob(h)) /\ splitList' = splitList \cup {h}
    BY <1>4 DEF SplitAsync
  <2>2. JobsKept /\ SplitJob(h) \in {queue'[i] : i \in DOMAIN queue'}
    BY <1>1, <2>1, AppendedJob
  <2>3. ASSUME NEW g \in splitList
        PROVE  \/ SplitJob(g) \in {queue'[i] : i \in DOMAIN queue'}
               \/ \E u \in Threads : pc'[u] \in Splitting /\ loc'[u].head = g
    BY <1>2, <2>2 DEF SplitListBacked, JobsKept, Others
  <2> QED
    BY <2>1, <2>2, <2>3 DEF SplitListBacked, SplitJob
<1> QED
  BY <1>3, <1>4

(* Take hands the promise of a split job over to its thread. *)
LEMMA TakeSplitList ==
    ASSUME TypeInv, SplitListBacked, NEW t \in Threads, Take(t)
    PROVE  SplitListBacked'
<1> DEFINE j == Head(queue)
           k == Idle
           r == ~DisableReassign
<1>1. /\ j \in Job
      /\ \A i \in DOMAIN queue : queue[i] # j => \E m \in DOMAIN queue' : queue'[m] = queue[i]
  BY TakenJob DEF Take, TypeInv, SharedType
<1>2. Others(t) /\ (j.type = "split" => pc'[t] = "splitLock" /\ loc'[t].head = j.head)
  <2>1. CASE j.type = "split"
    <3>1. j.head \in Heads /\ k \in Loc
      BY <1>1, <2>1, IdleType DEF Job
    <3>2. Update(t, "splitLock", [k EXCEPT !.op = "split", !.head = j.head, !.reassign = r])
      BY <2>1 DEF Take
    <3> HIDE DEF j, k, r
    <3>3. [k EXCEPT !.op = "split", !.head = j.head, !.reassign = r].head = j.head
      BY <3>1 DEF Loc
    <3> DEFINE l == [k EXCEPT !.op = "split", !.head = j.head, !.reassign = r]
    <3>4. l.head = j.head /\ Update(t, "splitLock", l)
      BY <3>2, <3>3
    <3> HIDE DEF l
    <3> QED
      BY <3>4, UpdateThread
  <2>2. CASE j.type # "split"
    <3>1. j.type \in {"merge", "reassign"}
      BY <1>1, <2>2 DEF Job
    <3>2. \E label, l : Update(t, label, l)
      BY <3>1 DEF Take
    <3> QED
      BY <2>2, <3>2, UpdateThread
  <2> QED
    BY <2>1, <2>2
<1>3. pc[t] \notin Splitting /\ splitList' = splitList
  BY DEF Take, Splitting
<1> SUFFICES ASSUME NEW h \in splitList
             PROVE  \/ SplitJob(h) \in {queue'[i] : i \in DOMAIN queue'}
                    \/ \E u \in Threads : pc'[u] \in Splitting /\ loc'[u].head = h
  BY <1>3 DEF SplitListBacked, SplitJob
<1>4. CASE SplitJob(h) = j
  <2>1. j.type = "split" /\ j.head = h
    BY <1>4 DEF SplitJob
  <2> QED
    BY <1>2, <2>1 DEF Splitting
<1>5. CASE SplitJob(h) # j
  <2>1. CASE SplitJob(h) \in {queue[i] : i \in DOMAIN queue}
    BY <1>1, <1>5, <2>1
  <2>2. ASSUME NEW u \in Threads, pc[u] \in Splitting, loc[u].head = h
        PROVE  pc'[u] \in Splitting /\ loc'[u].head = h
    BY <1>2, <1>3, <2>2 DEF Others
  <2> QED
    BY <2>1, <2>2 DEF SplitListBacked
<1> QED
  BY <1>4, <1>5

LEMMA WorkerSplitList ==
    ASSUME TypeInv, SplitListBacked, NEW t \in Threads,
           \/ ReassignSelect(t) \/ ReassignCheck(t) \/ ReassignBump(t)
           \/ Collect(t) \/ CollectSearch(t) \/ CollectRead(t)
    PROVE  SplitListBacked'
<1> USE DEF Splitting
<1>1. CASE ReassignSelect(t)
  <2>1. Others(t)
    BY <1>1, DoneThread, UpdateThread DEF ReassignSelect
  <2> QED
    BY <1>1, <2>1, SameQueue, SplitElsewhere DEF ReassignSelect, shared
<1>2. CASE ReassignCheck(t)
  <2>1. Others(t)
    BY <1>2, DoneThread, GotoThread DEF ReassignCheck
  <2> QED
    BY <1>2, <2>1, SameQueue, SplitElsewhere DEF ReassignCheck, shared
<1>3. CASE ReassignBump(t)
  BY <1>3, UpdateThread, SameQueue, SplitElsewhere DEF ReassignBump
<1>4. CASE Collect(t)
  <2>1. Others(t) /\ pc[t] \notin Splitting /\ splitList' = splitList
    BY <1>4, UpdateThread, SplitDoneThread DEF Collect
  <2> QED
    BY <1>4, <2>1, CollectQueue, SplitElsewhere
<1>5. CASE CollectSearch(t)
  BY <1>5, UpdateThread, SameQueue, SplitElsewhere DEF CollectSearch, shared
<1>6. CASE CollectRead(t)
  BY <1>6, UpdateThread, SameQueue, SplitElsewhere DEF CollectRead, shared
<1> QED
  BY <1>1, <1>2, <1>3, <1>4, <1>5, <1>6

(* A split keeps its head until it takes the entry out. *)
LEMMA SplitStepList ==
    ASSUME TypeInv, SplitListBacked, NEW t \in Threads,
           \/ SplitLock(t) \/ SplitBack(t) \/ SplitPutSame(t) \/ SplitPutNew(t)
           \/ SplitLink(t) \/ SplitSize(t) \/ SplitRetire(t) \/ SplitErase(t)
    PROVE  SplitListBacked'
<1>1. CASE SplitLock(t)
  BY <1>1, SplitLockFrame, SameQueue, SplitKept DEF SplitLock, shared, Splitting
<1>2. CASE SplitBack(t)
  <2>1. Others(t) /\ queue' = queue /\ splitList' = splitList \ {loc[t].head}
    BY <1>2, SplitDoneThread DEF SplitBack
  <2> QED
    BY <2>1, SameQueue, SplitKept
<1>3. CASE SplitPutSame(t) \/ SplitPutNew(t)
  <2>1. queue' = queue /\ splitList' = splitList
    BY <1>3 DEF SplitPutSame, SplitPutNew
  <2> QED
    BY <1>3, <2>1, SplitPutFrame, SameQueue, SplitKept DEF Splitting
<1>4. CASE SplitLink(t)
  BY <1>4, GotoThread, SameQueue, SplitKept DEF SplitLink, Splitting
<1>5. CASE SplitSize(t)
  <2>1. Others(t) /\ pc'[t] \in {"splitRetire", "splitPut"} /\ loc'[t] = loc[t]
    BY <1>5, GotoThread DEF SplitSize, AfterPart
  <2> QED
    BY <1>5, <2>1, SameQueue, SplitKept DEF SplitSize, Splitting
<1>6. CASE SplitRetire(t)
  BY <1>6, GotoThread, SameQueue, SplitKept DEF SplitRetire, Splitting
<1>7. CASE SplitErase(t)
  <2>1. Others(t) /\ queue' = queue /\ splitList' = splitList \ {loc[t].head}
    BY <1>7, GotoThread, SplitDoneThread DEF SplitErase
  <2> QED
    BY <2>1, SameQueue, SplitKept
<1> QED
  BY <1>1, <1>2, <1>3, <1>4, <1>5, <1>6, <1>7

LEMMA MergeStepSplitList ==
    ASSUME TypeInv, SplitListBacked, NEW t \in Threads,
           \/ MergeTry(t) \/ MergeGone(t) \/ MergeLockHead(t) \/ MergeVisit(t)
           \/ MergePartnerGone(t) \/ MergeWith(t) \/ MergeReassign(t) \/ MergeBack(t)
    PROVE  SplitListBacked'
<1> USE DEF Splitting
<1>1. CASE MergeTry(t)
  <2>1. Others(t) /\ pc[t] \notin Splitting /\ splitList' = splitList
    BY <1>1, GotoThread, DoneThread DEF MergeTry
  <2>2. MergeJob(loc[t].head, ~loc[t].reassign) \in Job /\ queue \in Seq(Job)
    BY <1>1, ThreadType, JobType DEF MergeTry, TypeInv, SharedType, Shape, HasHead, Loc
  <2>3. JobsKept
    BY <1>1, <2>2, AppendedJob, SameQueue DEF MergeTry
  <2> QED
    BY <2>1, <2>3, SplitElsewhere
<1>2. CASE MergeGone(t)
  BY <1>2, DoneThread, SameQueue, SplitElsewhere DEF MergeGone, shared
<1>3. CASE MergeLockHead(t)
  BY <1>3, MergeLockFrame, SameQueue, SplitElsewhere DEF MergeLockHead, shared
<1>4. CASE MergeVisit(t)
  BY <1>4, MergeVisitFrame, SameQueue, SplitElsewhere DEF MergeVisit, shared
<1>5. CASE MergePartnerGone(t)
  BY <1>5, GotoThread, SameQueue, SplitElsewhere DEF MergePartnerGone, shared
<1>6. CASE MergeWith(t)
  <2>1. \E l : Update(t, "mergeReassign", l)
    BY <1>6 DEF MergeWith
  <2> QED
    BY <1>6, <2>1, UpdateThread, SameQueue, SplitElsewhere DEF MergeWith
<1>7. CASE MergeReassign(t)
  BY <1>7, DoneThread, MergeReassignQueue, SplitElsewhere DEF MergeReassign
<1>8. CASE MergeBack(t)
  BY <1>8, DoneThread, SameQueue, SplitElsewhere DEF MergeBack
<1> QED
  BY <1>1, <1>2, <1>3, <1>4, <1>5, <1>6, <1>7, <1>8

LEMMA SplitListStep == TypeInv /\ SplitListBacked /\ [Next]_vars => SplitListBacked'
<1> SUFFICES ASSUME TypeInv, SplitListBacked, [Next]_vars PROVE SplitListBacked'
  OBVIOUS
<1>1. ASSUME NEW t \in Clients, NEW v \in Vids, AddIndex(t, v) PROVE SplitListBacked'
  BY <1>1, ClientSplitList DEF Threads
<1>2. ASSUME NEW v \in Vids, Delete(v) PROVE SplitListBacked'
  BY <1>2 DEF Delete, SplitListBacked
<1>3. ASSUME NEW t \in Clients, NEW h \in Heads, SearchRead(t, h) PROVE SplitListBacked'
  BY <1>3, ClientSplitList DEF Threads
<1>4. ASSUME NEW t \in Workers, Take(t) PROVE SplitListBacked'
  BY <1>4, TakeSplitList DEF Threads
<1>5. ASSUME NEW t \in Threads, Step(t) PROVE SplitListBacked'
  BY <1>5, ClientSplitList, SplitAsyncList, WorkerSplitList, SplitStepList,
     MergeStepSplitList DEF Step
<1>6. CASE UNCHANGED vars
  BY <1>6 DEF vars, shared, SplitListBacked
<1> QED
  BY <1>1, <1>2, <1>3, <1>4, <1>5, <1>6 DEF Next

(* A head in m_splitList always has a split in the queue or a thread that   *)
(* is splitting it and takes it out: no posting is barred from being split. *)
THEOREM SplitsComing == Spec => []SplitListBacked
<1>1. Init => SplitListBacked
  BY DEF Init, SplitListBacked
<1> QED
  BY <1>1, TypeInit, TypeStep, SplitListStep, PTL DEF Spec

----------------------------------------------------------------------------
(* What is known of the heads *)

(* The head has been in the graph: searches and the update calls have seen  *)
(* it, and it never becomes free or unlinked again.                         *)
Seen(h) == headState[h] \in {"linked", "deleted"}

(* ... and so it is after a step. *)
SeenNext(h) == headState'[h] \in {"linked", "deleted"}

(* What a thread at label p with locals l knows of the heads it is at.  A   *)
(* merge that holds its locks knows more: nobody deletes its head.          *)
Knows(p, l) ==
    /\ p \in HasHead \cup {"mergeReassign"} => l.head \in Heads /\ Seen(l.head)
    /\ \A h \in l.sel : Seen(h)
    /\ p \in {"mergeVisit", "mergeWith"} => l.head \notin l.sel
    /\ p \in {"mergeVisit", "mergeWith", "mergeBack"} => headState[l.head] = "linked"
    /\ p = "mergeWith" => Seen(l.prev) /\ l.prev # l.head
    /\ p = "splitLink" => headState[LastHead(l)] = "added"
    /\ p = "splitSize" => Seen(LastHead(l))

HeadsKnown ==
    /\ \A h \in splitList \cup mergeList : Seen(h)
    /\ \A i \in DOMAIN queue : queue[i].type # "reassign" => Seen(queue[i].head)
    /\ \A t \in Threads : Knows(pc[t], loc[t])
    /\ \A t, u \in Threads :
          t # u /\ pc[t] = "splitLink" /\ pc[u] = "splitLink"
              => LastHead(loc[t]) # LastHead(loc[u])

(* The heads a thread at label p can name are heads. *)
LEMMA NamedHeads ==
    ASSUME TypeInv, NEW t \in Threads
    PROVE  /\ loc[t].sel \subseteq Heads
           /\ pc[t] \in {"splitLink", "splitSize"} => LastHead(loc[t]) \in Heads
<1>1. loc[t] \in Loc /\ Shape(pc[t], loc[t])
  BY ThreadType DEF TypeInv
<1>2. loc[t].sel \subseteq Heads /\ loc[t].heads \in Seq(Heads)
  BY <1>1 DEF Loc
<1>3. ASSUME pc[t] \in {"splitLink", "splitSize"} PROVE LastHead(loc[t]) \in Heads
  <2> DEFINE hs == loc[t].heads
  <2>1. Len(hs) \in {1, 2} /\ hs \in Seq(Heads)
    BY <1>1, <1>2, <1>3 DEF Shape
  <2> HIDE DEF hs
  <2>2. Len(hs) \in DOMAIN hs
    BY <2>1
  <2>3. hs[Len(hs)] \in Heads
    BY <2>1, <2>2
  <2> QED
    BY <2>3 DEF hs, LastHead
<1> QED
  BY <1>2, <1>3

(* What the other threads know stays true, whatever thread t does to the    *)
(* heads, as long as no head it names is unlinked or unseen.                *)
LEMMA OthersKnow ==
    ASSUME TypeInv, HeadsKnown, NEW t \in Threads, Others(t),
           \A h \in Heads : Seen(h) => SeenNext(h),
           \A u \in Threads \ {t} :
              /\ pc[u] = "splitLink" => headState'[LastHead(loc[u])] = "added"
              /\ pc[u] \in {"mergeVisit", "mergeWith", "mergeBack"}
                    => headState'[loc[u].head] = "linked"
    PROVE  \A u \in Threads \ {t} : Knows(pc[u], loc[u])'
<1> SUFFICES ASSUME NEW u \in Threads \ {t} PROVE Knows(pc[u], loc[u])'
  OBVIOUS
<1>1. Knows(pc[u], loc[u])
  BY DEF HeadsKnown
<1>2. pc'[u] = pc[u] /\ loc'[u] = loc[u]
  BY DEF Others
<1>3. pc[u] = "mergeWith" => loc[u].prev \in Heads
  BY ThreadType DEF TypeInv, Shape
<1> DEFINE p == pc[u]
           l == loc[u]
<1>4. /\ p \in HasHead \cup {"mergeReassign"} => l.head \in Heads /\ SeenNext(l.head)
      /\ \A h \in l.sel : SeenNext(h)
  BY <1>1, <1>2, NamedHeads DEF Knows
<1>5. /\ p = "mergeWith" => SeenNext(l.prev) /\ l.prev # l.head
      /\ p = "splitSize" => SeenNext(LastHead(l))
  BY <1>1, <1>2, <1>3, NamedHeads DEF Knows
<1>6. /\ p \in {"mergeVisit", "mergeWith"} => l.head \notin l.sel
      /\ p \in {"mergeVisit", "mergeWith", "mergeBack"} => headState'[l.head] = "linked"
      /\ p = "splitLink" => headState'[LastHead(l)] = "added"
  BY <1>1 DEF Knows
<1> QED
  BY <1>2, <1>4, <1>5, <1>6 DEF Knows, Seen, SeenNext

(* A job was there before, or was added for a head that is known. *)
QueueKnown == \A i \in DOMAIN queue' :
    queue'[i].type = "reassign" \/ queue'[i] \in {queue[j] : j \in DOMAIN queue}
                             \/ SeenNext(queue'[i].head)

(* The four parts of HeadsKnown, for a step that may change the heads... *)
LEMMA HeadsChange ==
    ASSUME TypeInv, HeadsKnown, NEW t \in Threads, Others(t), QueueKnown,
           \A h \in Heads : Seen(h) => SeenNext(h),
           \A u \in Threads \ {t} :
              /\ pc[u] = "splitLink" => headState'[LastHead(loc[u])] = "added"
              /\ pc[u] \in {"mergeVisit", "mergeWith", "mergeBack"}
                    => headState'[loc[u].head] = "linked",
           \A h \in splitList' \cup mergeList' : h \in splitList \cup mergeList \/ SeenNext(h),
           Knows(pc[t], loc[t])',
           pc'[t] = "splitLink" =>
              \A u \in Threads \ {t} :
                 pc[u] = "splitLink" => LastHead(loc[u]) # LastHead(loc'[t])
    PROVE  HeadsKnown'
<1>1. ASSUME NEW h \in splitList' \cup mergeList' PROVE SeenNext(h)
  <2>1. splitList \subseteq Heads /\ mergeList \subseteq Heads
    BY DEF TypeInv, SharedType
  <2> QED
    BY <1>1, <2>1 DEF HeadsKnown
<1>2. ASSUME NEW i \in DOMAIN queue', queue'[i].type # "reassign" PROVE SeenNext(queue'[i].head)
  <2>1. CASE SeenNext(queue'[i].head)
    BY <2>1
  <2>2. CASE queue'[i] \in {queue[j] : j \in DOMAIN queue}
    <3>1. PICK j \in DOMAIN queue : queue'[i] = queue[j]
      BY <2>2
    <3>2. queue[j] \in Job
      BY DEF TypeInv, SharedType
    <3>3. queue[j].head \in Heads /\ Seen(queue[j].head)
      BY <1>2, <3>1, <3>2 DEF HeadsKnown, Job
    <3> QED
      BY <3>1, <3>3
  <2> QED
    BY <1>2, <2>1, <2>2 DEF QueueKnown
<1>3. \A u \in Threads : Knows(pc[u], loc[u])'
  BY OthersKnow
<1>4. ASSUME NEW u \in Threads, NEW w \in Threads, u # w,
             pc'[u] = "splitLink", pc'[w] = "splitLink"
      PROVE  LastHead(loc'[u]) # LastHead(loc'[w])
  BY <1>4 DEF Others, HeadsKnown
<1> QED
  BY <1>1, <1>2, <1>3, <1>4 DEF HeadsKnown, Seen, SeenNext

(* ... and for one that leaves them alone. *)
LEMMA HeadsSame ==
    ASSUME TypeInv, HeadsKnown, NEW t \in Threads, Others(t), QueueKnown,
           headState' = headState,
           \A h \in splitList' \cup mergeList' : h \in splitList \cup mergeList \/ SeenNext(h),
           Knows(pc[t], loc[t])', pc'[t] # "splitLink"
    PROVE  HeadsKnown'
<1>1. \A h : Seen(h) <=> SeenNext(h)
  BY DEF Seen, SeenNext
<1>2. \A u \in Threads \ {t} :
         /\ pc[u] = "splitLink" => headState'[LastHead(loc[u])] = "added"
         /\ pc[u] \in {"mergeVisit", "mergeWith", "mergeBack"}
               => headState'[loc[u].head] = "linked"
  BY DEF HeadsKnown, Knows
<1> QED
  BY <1>1, <1>2, HeadsChange

(* What a step that leaves the queue alone, or adds to it, has to show. *)
LEMMA QueueSame == queue' = queue => QueueKnown
BY DEF QueueKnown

LEMMA QueueOneMore ==
    ASSUME TypeInv, NEW j \in Job, queue' = Append(queue, j),
           j.type = "reassign" \/ SeenNext(j.head)
    PROVE  QueueKnown
<1>1. queue \in Seq(Job)
  BY DEF TypeInv, SharedType
<1>2. /\ DOMAIN queue = 1..Len(queue) /\ Len(queue) \in Nat
      /\ DOMAIN queue' = 1..(Len(queue) + 1)
      /\ \A i \in 1..Len(queue) : queue'[i] = queue[i]
      /\ queue'[Len(queue) + 1] = j
  BY <1>1
<1> SUFFICES \A i \in DOMAIN queue' :
                queue'[i] = j \/ queue'[i] \in {queue[k] : k \in DOMAIN queue}
  BY DEF QueueKnown
<1> TAKE i \in DOMAIN queue'
<1>3. CASE i = Len(queue) + 1
  BY <1>2, <1>3
<1>4. CASE i # Len(queue) + 1
  <2>1. i \in DOMAIN queue
    BY <1>2, <1>4
  <2> QED
    BY <1>2, <2>1
<1> QED
  BY <1>3, <1>4

LEMMA QueueReassigns ==
    ASSUME TypeInv, NEW n \in Nat, NEW js, js = [i \in 1..n |-> js[i]],
           \A i \in 1..n : js[i].type = "reassign", queue' = queue \o js
    PROVE  QueueKnown
<1>1. js \in Seq({js[i] : i \in 1..n}) /\ Len(js) = n
  <2> DEFINE S == {js[i] : i \in 1..n}
  <2>1. js \in [1..n -> S]
    OBVIOUS
  <2> HIDE DEF S
  <2>2. js \in Seq(S) /\ Len(js) = n
    BY <2>1, SeqDef, LenProperties
  <2> QED
    BY <2>2 DEF S
<1>2. queue \in Seq(Job \cup {js[i] : i \in 1..n}) /\ js \in Seq(Job \cup {js[i] : i \in 1..n})
  BY <1>1 DEF TypeInv, SharedType
<1>3. /\ DOMAIN queue = 1..Len(queue) /\ Len(queue) \in Nat
      /\ DOMAIN queue' = 1..(Len(queue) + n)
      /\ \A i \in 1..Len(queue) : queue'[i] = queue[i]
      /\ \A i \in 1..n : queue'[Len(queue) + i] = js[i]
  BY <1>1, <1>2
<1> SUFFICES ASSUME NEW i \in DOMAIN queue'
             PROVE  queue'[i].type = "reassign" \/ queue'[i] \in {queue[k] : k \in DOMAIN queue}
  BY DEF QueueKnown
<1>4. CASE i \in 1..Len(queue)
  BY <1>3, <1>4
<1>5. CASE i \notin 1..Len(queue)
  <2>1. i - Len(queue) \in 1..n /\ i = Len(queue) + (i - Len(queue))
    BY <1>3, <1>5
  <2>2. queue'[i] = js[i - Len(queue)]
    BY <1>3, <2>1
  <2> QED
    BY <2>1, <2>2
<1> QED
  BY <1>4, <1>5

(* Where a thread only knows that its heads have been seen. *)
Special == {"mergeVisit", "mergeWith", "mergeBack", "splitLink", "splitSize", "mergeReassign"}

LEMMA PlainStep ==
    ASSUME TypeInv, HeadsKnown, NEW t \in Threads, Others(t), QueueKnown,
           headState' = headState,
           \A h \in splitList' \cup mergeList' : h \in splitList \cup mergeList \/ Seen(h),
           pc'[t] \notin Special, \A h \in loc'[t].sel : Seen(h),
           pc'[t] \in HasHead => loc'[t].head \in Heads /\ Seen(loc'[t].head)
    PROVE  HeadsKnown'
<1>1. Knows(pc[t], loc[t])' /\ pc'[t] # "splitLink"
  BY DEF Knows, Seen, Special
<1>2. \A h \in splitList' \cup mergeList' : h \in splitList \cup mergeList \/ SeenNext(h)
  BY DEF Seen, SeenNext
<1> QED
  BY <1>1, <1>2, HeadsSame

(* A thread that is done names no heads. *)
LEMMA IdleStep ==
    ASSUME TypeInv, HeadsKnown, NEW t \in Threads, Others(t), QueueKnown,
           headState' = headState,
           \A h \in splitList' \cup mergeList' : h \in splitList \cup mergeList \/ Seen(h),
           pc'[t] = "idle", loc'[t] = Idle
    PROVE  HeadsKnown'
<1>1. loc'[t].sel = {} /\ pc'[t] \notin HasHead \cup Special
  BY DEF Idle, HasHead, Splitting, InMerge, Special
<1> QED
  BY <1>1, PlainStep

LEMMA SelectionSeen ==
    ASSUME NEW S \in RNGSelections
    PROVE  \A h \in S : h \in Heads /\ Seen(h)
BY DEF RNGSelections, NearHeads, Searchable, Seen

(* What a thread knows now. *)
LEMMA ThreadKnows ==
    ASSUME HeadsKnown, NEW t \in Threads
    PROVE  Knows(pc[t], loc[t])
BY DEF HeadsKnown

(* A thread that goes on after an append, or a split, keeps its heads. *)
LEMMA GoOnHeads ==
    ASSUME TypeInv, HeadsKnown, NEW t \in Threads, Others(t), QueueKnown,
           headState' = headState,
           \A h \in splitList' \cup mergeList' : h \in splitList \cup mergeList \/ Seen(h),
           pc'[t] \notin HasHead \cup Special, loc'[t].sel = loc[t].sel
    PROVE  HeadsKnown'
BY ThreadKnows, PlainStep DEF Knows

(* ... and so does one that keeps its head at hand. *)
LEMMA KeepHeads ==
    ASSUME TypeInv, HeadsKnown, NEW t \in Threads, Others(t), QueueKnown,
           headState' = headState,
           \A h \in splitList' \cup mergeList' : h \in splitList \cup mergeList \/ Seen(h),
           pc[t] \in HasHead, pc'[t] \notin Special,
           loc'[t].sel = loc[t].sel, loc'[t].head = loc[t].head
    PROVE  HeadsKnown'
BY ThreadKnows, PlainStep DEF Knows

LEMMA ClientHeads ==
    ASSUME TypeInv, HeadsKnown, NEW t \in Threads,
           \/ \E v \in Vids : AddIndex(t, v)
           \/ \E h \in Heads : SearchRead(t, h)
           \/ SearchFind(t) \/ SearchAdd(t) \/ NextReplica(t) \/ AppendMerge(t)
    PROVE  HeadsKnown'
<1>1. ASSUME NEW v \in Vids, AddIndex(t, v) PROVE HeadsKnown'
  <2>1. /\ Others(t) /\ pc'[t] = "next" /\ loc'[t].sel \in RNGSelections
        /\ headState' = headState /\ queue' = queue /\ splitList' = splitList
        /\ mergeList' = mergeList
    BY <1>1, AddIndexFrame DEF AddIndex
  <2>2. pc'[t] \notin HasHead \cup Special
    BY <2>1 DEF HasHead, Special, Splitting, InMerge
  <2> QED
    BY <2>1, <2>2, SelectionSeen, QueueSame, PlainStep
<1>2. ASSUME NEW h \in Heads, SearchRead(t, h) PROVE HeadsKnown'
  <2>1. /\ Others(t) /\ pc'[t] = "mergeFind" /\ loc'[t].sel = {} /\ loc'[t].head = h
        /\ headState' = headState /\ queue' = queue /\ splitList' = splitList
        /\ mergeList' = mergeList /\ Seen(h)
    BY <1>2, SearchReadFrame DEF SearchRead, shared, Searchable, Seen
  <2> QED
    BY <2>1, QueueSame, PlainStep DEF Special
<1>3. CASE SearchFind(t)
  <2>1. /\ Others(t) /\ headState' = headState /\ queue' = queue /\ splitList' = splitList
        /\ mergeList' = mergeList /\ pc[t] = "mergeFind"
        /\ \/ pc'[t] = "idle" /\ loc'[t] = Idle
           \/ pc'[t] = "mergeAdd" /\ loc'[t] = loc[t]
    BY <1>3, SearchFindFrame DEF SearchFind, shared
  <2> QED
    BY <2>1, QueueSame, IdleStep, KeepHeads DEF HasHead, Special
<1>4. CASE SearchAdd(t)
  <2>1. /\ Others(t) /\ pc'[t] = "idle" /\ loc'[t] = Idle /\ pc[t] = "mergeAdd"
        /\ headState' = headState /\ splitList' = splitList
        /\ mergeList' = mergeList \cup {loc[t].head}
        /\ queue' = Append(queue, MergeJob(loc[t].head, ~DisableReassign))
    BY <1>4, DoneFrame DEF SearchAdd
  <2>2. loc[t].head \in Heads /\ Seen(loc[t].head) /\ SeenNext(loc[t].head)
    BY <2>1, ThreadKnows DEF Knows, HasHead, Seen, SeenNext
  <2>3. QueueKnown
    <3> DEFINE j == MergeJob(loc[t].head, ~DisableReassign)
    <3>1. j \in Job /\ j.head = loc[t].head
      BY <2>2, JobType DEF MergeJob
    <3>2. queue' = Append(queue, j)
      BY <2>1
    <3> HIDE DEF j
    <3> QED
      BY <2>2, <3>1, <3>2, QueueOneMore
  <2> QED
    BY <2>1, <2>2, <2>3, IdleStep
<1>5. CASE NextReplica(t)
  <2>1. /\ Others(t) /\ headState' = headState /\ queue' = queue /\ splitList' = splitList
        /\ mergeList' = mergeList
        /\ \/ pc'[t] = "idle" /\ loc'[t] = Idle
           \/ pc'[t] = "append" /\ loc'[t].head \in loc[t].sel /\ loc'[t].sel \subseteq loc[t].sel
    BY <1>5, NextReplicaFrame DEF NextReplica, shared
  <2>2. \A h \in loc[t].sel : h \in Heads /\ Seen(h)
    BY ThreadKnows, NamedHeads DEF Knows
  <2> QED
    BY <2>1, <2>2, QueueSame, IdleStep, PlainStep DEF Special
<1>6. CASE AppendMerge(t)
  <2>1. /\ Others(t) /\ headState' = headState /\ queue' = queue /\ splitList' = splitList
        /\ mergeList' = mergeList /\ pc[t] = "append" /\ pc'[t] = "appended" /\ loc'[t] = loc[t]
    BY <1>6, GotoThread DEF AppendMerge
  <2> QED
    BY <2>1, QueueSame, KeepHeads DEF HasHead, Special
<1> QED
  BY <1>1, <1>2, <1>3, <1>4, <1>5, <1>6

LEMMA AppendHeads ==
    ASSUME TypeInv, HeadsKnown, NEW t \in Threads,
           AppendMiss(t) \/ SplitAsync(t) \/ SplitSync(t) \/ Appended(t)
    PROVE  HeadsKnown'
<1> USE DEF Special
<1>1. "next" \notin HasHead
  BY DEF HasHead, Splitting, InMerge
<1>2. CASE AppendMiss(t)
  <2>1. /\ Others(t) /\ headState' = headState /\ splitList' = splitList
        /\ mergeList' = mergeList /\ pc[t] = "append"
        /\ GoesOn(t) \/ (pc'[t] = "idle" /\ loc'[t] = Idle)
    BY <1>2, AppendMissFrame DEF AppendMiss
  <2>2. QueueKnown
    <3> DEFINE j == ReassignJob(loc[t].copy, loc[t].head)
    <3>1. j \in Job /\ j.type = "reassign"
      BY <2>1, ThreadType, JobType DEF TypeInv, Shape, HasHead, Appending, ReassignJob
    <3>2. queue' = queue \/ queue' = Append(queue, j)
      BY <1>2 DEF AppendMiss
    <3> HIDE DEF j
    <3> QED
      BY <3>1, <3>2, QueueSame, QueueOneMore
  <2> QED
    BY <1>1, <2>1, <2>2, IdleStep, GoOnHeads DEF GoesOn
<1>3. CASE SplitAsync(t)
  <2>1. /\ Others(t) /\ headState' = headState /\ splitList' = splitList \cup {loc[t].head}
        /\ mergeList' = mergeList /\ pc[t] = "appended" /\ GoesOn(t)
    BY <1>3, GoesOnFrame DEF SplitAsync
  <2>2. loc[t].head \in Heads /\ Seen(loc[t].head) /\ SeenNext(loc[t].head)
    BY <2>1, ThreadKnows DEF Knows, HasHead, Seen, SeenNext
  <2>3. QueueKnown
    <3> DEFINE j == SplitJob(loc[t].head)
    <3>1. j \in Job /\ j.head = loc[t].head
      BY <2>2, JobType DEF SplitJob
    <3>2. queue' = queue \/ queue' = Append(queue, j)
      BY <1>3 DEF SplitAsync
    <3> HIDE DEF j
    <3> QED
      BY <2>2, <3>1, <3>2, QueueSame, QueueOneMore
  <2> QED
    BY <1>1, <2>1, <2>2, <2>3, GoOnHeads DEF GoesOn
<1>4. CASE SplitSync(t)
  <2>1. /\ Others(t) /\ headState' = headState /\ queue' = queue /\ splitList' = splitList
        /\ mergeList' = mergeList /\ pc[t] = "appended" /\ pc'[t] = "splitLock" /\ KeepsSplit(t)
    BY <1>4, SplitSyncFrame DEF SplitSync, shared
  <2> QED
    BY <2>1, QueueSame, KeepHeads DEF HasHead, KeepsSplit
<1>5. CASE Appended(t)
  <2>1. /\ Others(t) /\ headState' = headState /\ queue' = queue /\ splitList' = splitList
        /\ mergeList' = mergeList /\ GoesOn(t)
    BY <1>5, GoesOnFrame DEF Appended, shared
  <2> QED
    BY <1>1, <2>1, QueueSame, GoOnHeads DEF GoesOn
<1> QED
  BY <1>2, <1>3, <1>4, <1>5

LEMMA TakeHeads ==
    ASSUME TypeInv, HeadsKnown, NEW t \in Threads, Take(t)
    PROVE  HeadsKnown'
<1> DEFINE j == Head(queue)
<1>1. queue \in Seq(Job) /\ queue # <<>> /\ queue' = Tail(queue)
  BY DEF Take, TypeInv, SharedType
<1>2. /\ DOMAIN queue = 1..Len(queue) /\ Len(queue) \in Nat \ {0}
      /\ j = queue[1] /\ j \in Job /\ 1 \in DOMAIN queue
      /\ DOMAIN queue' = 1..(Len(queue) - 1)
      /\ \A i \in 1..(Len(queue) - 1) : queue'[i] = queue[i + 1] /\ i + 1 \in DOMAIN queue
  BY <1>1
<1>3. QueueKnown
  BY <1>2 DEF QueueKnown
<1>4. j.type # "reassign" => j.head \in Heads /\ Seen(j.head)
  <2>1. j.type # "reassign" => j.head \in Heads
    BY <1>2 DEF Job
  <2> QED
    BY <1>2, <2>1 DEF HeadsKnown
<1> HIDE DEF j
<1>5. /\ headState' = headState /\ splitList' = splitList /\ mergeList' = mergeList
      /\ Others(t) /\ loc'[t].sel = {}
      /\ \/ j.type = "split" /\ pc'[t] = "splitLock" /\ loc'[t].head = j.head
         \/ j.type = "merge" /\ pc'[t] = "mergeTry" /\ loc'[t].head = j.head
         \/ pc'[t] = "reassign"
  BY TakeFrame DEF Take, j
<1>6. pc'[t] \notin Special /\ (pc'[t] = "reassign" => pc'[t] \notin HasHead)
  BY <1>5 DEF Special, HasHead, Splitting, InMerge
<1> QED
  BY <1>3, <1>4, <1>5, <1>6, PlainStep

LEMMA CollectJobs ==
    ASSUME TypeInv, NEW t \in Threads, Collect(t)
    PROVE  QueueKnown
<1> DEFINE at(p) == loc[t].parts[p[1]][p[2]]
           js(n, f) == [i \in 1..n |-> ReassignJob(at(f[i]), loc[t].heads[f[i][1]])]
<1>1. PICK n \in 0..spent.reassigns : \E f : queue' = queue \o js(n, f)
  BY DEF Collect
<1>2. PICK f : queue' = queue \o js(n, f)
  BY <1>1
<1>3. n \in Nat
  BY DEF TypeInv, SharedType
<1>4. js(n, f) = [i \in 1..n |-> js(n, f)[i]] /\ \A i \in 1..n : js(n, f)[i].type = "reassign"
  BY DEF ReassignJob
<1> HIDE DEF js
<1> QED
  BY <1>2, <1>3, <1>4, QueueReassigns

LEMMA MergeReassignJobs ==
    ASSUME TypeInv, NEW t \in Threads, MergeReassign(t)
    PROVE  QueueKnown
<1> DEFINE js(copies) == [i \in DOMAIN copies |-> ReassignJob(copies[i], loc[t].heads[1])]
<1>1. PICK I \in SUBSET (IF loc[t].reassign THEN DOMAIN loc[t].list ELSE {}) :
         \E copies \in Sublists(loc[t].list, I) : queue' = queue \o js(copies)
  BY DEF MergeReassign
<1>2. PICK copies \in Sublists(loc[t].list, I) : queue' = queue \o js(copies)
  BY <1>1
<1>3. I \in SUBSET (DOMAIN loc[t].list) /\ loc[t].list \in Seq(Copy)
  BY <1>1, ThreadType DEF TypeInv, Loc
<1>4. copies \in Seq(Copy)
  BY <1>2, <1>3, SublistType
<1>5. DOMAIN copies = 1..Len(copies) /\ Len(copies) \in Nat
  BY <1>4
<1>6. /\ js(copies) = [i \in 1..Len(copies) |-> js(copies)[i]]
      /\ \A i \in 1..Len(copies) : js(copies)[i].type = "reassign"
  BY <1>5 DEF ReassignJob
<1> HIDE DEF js
<1> QED
  BY <1>2, <1>5, <1>6, QueueReassigns

(* A thread at the end of a split keeps what it has selected. *)
LEMMA ResumeHeads ==
    ASSUME TypeInv, HeadsKnown, NEW t \in Threads, Others(t), QueueKnown, Resumes(t),
           headState' = headState, splitList' \subseteq splitList, mergeList' = mergeList
    PROVE  HeadsKnown'
<1>1. "next" \notin HasHead \cup Special
  BY DEF HasHead, Splitting, InMerge, Special
<1> QED
  BY <1>1, IdleStep, GoOnHeads DEF Resumes

LEMMA WorkerHeads ==
    ASSUME TypeInv, HeadsKnown, NEW t \in Threads,
           \/ ReassignSelect(t) \/ ReassignCheck(t) \/ ReassignBump(t)
           \/ Collect(t) \/ CollectSearch(t) \/ CollectRead(t)
    PROVE  HeadsKnown'
<1>1. {"next", "reassignCheck", "bump", "nearby", "read", "rescan"} \cap (HasHead \cup Special) = {}
  BY DEF HasHead, Splitting, InMerge, Special
<1>2. headState' = headState /\ splitList' = splitList /\ mergeList' = mergeList
  BY DEF ReassignSelect, ReassignCheck, ReassignBump, Collect, CollectSearch, CollectRead, shared
<1>3. CASE ReassignSelect(t)
  <2>1. queue' = queue
    BY <1>3 DEF ReassignSelect, shared
  <2> QED
    <3>1. Others(t) /\ QueueKnown
      BY <1>3, <2>1, ReassignSelectFrame, QueueSame
    <3>2. CASE pc'[t] = "idle" /\ loc'[t] = Idle
      BY <1>2, <3>1, <3>2, IdleStep
    <3>3. CASE pc'[t] = "reassignCheck" /\ loc'[t].sel \in RNGSelections
      <4>1. pc'[t] \notin HasHead /\ pc'[t] \notin Special
        BY <1>1, <3>3
      <4>2. \A h \in loc'[t].sel : Seen(h)
        BY <3>3, SelectionSeen
      <4> QED
        BY <1>2, <3>1, <4>1, <4>2, PlainStep
    <3> QED
      BY <1>3, <3>2, <3>3, ReassignSelectFrame
<1>4. CASE ReassignCheck(t)
  <2>1. queue' = queue
    BY <1>4 DEF ReassignCheck, shared
  <2> QED
    BY <1>1, <1>2, <1>4, <2>1, ReassignCheckFrame, QueueSame, IdleStep, GoOnHeads
<1>5. CASE ReassignBump(t)
  <2>1. queue' = queue
    BY <1>5 DEF ReassignBump
  <2> QED
    BY <1>1, <1>2, <1>5, <2>1, ReassignBumpFrame, QueueSame, GoOnHeads
<1>6. CASE Collect(t)
  BY <1>1, <1>2, <1>6, CollectFrame, CollectJobs, ResumeHeads, GoOnHeads DEF KeepsSplit
<1>7. CASE CollectSearch(t)
  <2>1. queue' = queue
    BY <1>7 DEF CollectSearch, shared
  <2> QED
    BY <1>1, <1>2, <1>7, <2>1, CollectSearchFrame, QueueSame, GoOnHeads DEF KeepsSplit
<1>8. CASE CollectRead(t)
  <2>1. queue' = queue
    BY <1>8 DEF CollectRead, shared
  <2> QED
    BY <1>1, <1>2, <1>8, <2>1, CollectReadFrame, QueueSame, GoOnHeads DEF KeepsSplit
<1> QED
  BY <1>3, <1>4, <1>5, <1>6, <1>7, <1>8

(* Two threads are not both in a merge. *)
LEMMA OneMerge ==
    ASSUME LockDiscipline, NEW t \in Threads, NEW u \in Threads \ {t}, pc[t] \in InMerge
    PROVE  pc[u] \notin InMerge
BY DEF LockDiscipline

(* Two threads are not both in critical sections of the same head. *)
LEMMA OneHolder ==
    ASSUME LockDiscipline, NEW t \in Threads, NEW u \in Threads \ {t},
           pc[t] \in Locked, pc[u] \in Locked
    PROVE  loc[u].head # loc[t].head
BY DEF LockDiscipline

LEMMA SplitHeads ==
    ASSUME TypeInv, LockDiscipline, HeadsKnown, NEW t \in Threads,
           \/ SplitLock(t) \/ SplitBack(t) \/ SplitPutSame(t) \/ SplitErase(t) \/ SplitSize(t)
    PROVE  HeadsKnown'
<1>1. {"splitLock", "splitBack", "splitPut", "splitSize", "splitRetire", "splitErase"} \subseteq HasHead
  BY DEF HasHead, Splitting
<1>2. {"splitBack", "splitPut", "splitRetire", "collect"} \cap Special = {} /\ "collect" \notin HasHead
  BY DEF Special, HasHead, Splitting, InMerge
<1>3. headState' = headState /\ splitList' \subseteq splitList /\ mergeList' = mergeList /\ queue' = queue
  BY DEF SplitLock, SplitBack, SplitPutSame, SplitErase, SplitSize, shared
<1>4. CASE SplitLock(t)
  <2>1. pc[t] = "splitLock"
    BY <1>4 DEF SplitLock
  <2> QED
    BY <1>1, <1>2, <1>3, <1>4, <2>1, SplitLockEnds, QueueSame, KeepHeads DEF KeepsSplit
<1>5. CASE SplitBack(t)
  <2>1. SplitDone(t)
    BY <1>5 DEF SplitBack
  <2> QED
    BY <1>3, <2>1, SplitDoneFrame, QueueSame, ResumeHeads
<1>6. CASE SplitPutSame(t)
  <2>1. pc[t] = "splitPut"
    BY <1>6 DEF SplitPutSame
  <2>2. Others(t) /\ PartPut(t, loc[t].head) /\ pc'[t] \in {"splitRetire", "splitPut"}
    BY <1>6, SplitPutSameFrame DEF AfterPart
  <2> QED
    BY <1>1, <1>2, <1>3, <2>1, <2>2, QueueSame, KeepHeads DEF PartPut, KeepsSplit
<1>7. CASE SplitErase(t)
  BY <1>2, <1>3, <1>7, SplitEraseFrame, QueueSame, GoOnHeads, ResumeHeads
<1>8. CASE SplitSize(t)
  <2>1. Others(t) /\ pc'[t] \in {"splitRetire", "splitPut"} /\ loc'[t] = loc[t] /\ pc[t] = "splitSize"
    BY <1>8, GotoThread DEF SplitSize, AfterPart
  <2> QED
    BY <1>1, <1>2, <1>3, <2>1, QueueSame, KeepHeads
<1> QED
  BY <1>4, <1>5, <1>6, <1>7, <1>8

(* A new head: nobody knew it, and only this split is going to link it. *)
LEMMA SplitPutNewHeads ==
    ASSUME TypeInv, HeadsKnown, NEW t \in Threads, SplitPutNew(t)
    PROVE  HeadsKnown'
<1>1. NewHead \in Heads /\ headState[NewHead] = "free"
  BY NewHeadType DEF SplitPutNew, FreeHeads
<1>2. headState' = [headState EXCEPT ![NewHead] = "added"] /\ headState \in [Heads -> HeadStates]
  BY DEF SplitPutNew, TypeInv, SharedType
<1>3. /\ pc[t] = "splitPut" /\ queue' = queue /\ splitList' = splitList /\ mergeList' = mergeList
      /\ Others(t) /\ PartPut(t, NewHead) /\ pc'[t] = "splitLink"
  BY SplitPutNewFrame DEF SplitPutNew
<1>4. LastHead(loc'[t]) = NewHead
  <2> DEFINE hs == loc[t].heads
             n == NewHead
  <2>1. hs \in Seq(Heads)
    BY ThreadType DEF TypeInv, Loc
  <2>2. loc'[t].heads = Append(hs, n)
    BY <1>3 DEF PartPut
  <2>3. n \in Heads
    BY <1>1
  <2> HIDE DEF hs, n
  <2>4. Len(Append(hs, n)) = Len(hs) + 1 /\ Append(hs, n)[Len(hs) + 1] = n
    BY <2>1, <2>3
  <2> QED
    BY <2>2, <2>4 DEF LastHead, n
<1> DEFINE new == NewHead
<1> HIDE DEF new
<1>5. \A h \in Heads : Seen(h) => h # new /\ SeenNext(h)
  BY <1>1, <1>2 DEF Seen, SeenNext, new
<1>6. ASSUME NEW u \in Threads \ {t}
      PROVE  /\ pc[u] = "splitLink" => LastHead(loc[u]) # new /\ headState'[LastHead(loc[u])] = "added"
             /\ pc[u] \in {"mergeVisit", "mergeWith", "mergeBack"} => headState'[loc[u].head] = "linked"
  <2>1. Knows(pc[u], loc[u])
    BY ThreadKnows
  <2>2. pc[u] = "splitLink" => LastHead(loc[u]) \in Heads /\ headState[LastHead(loc[u])] = "added"
    BY <2>1, NamedHeads DEF Knows
  <2>3. pc[u] \in {"mergeVisit", "mergeWith", "mergeBack"}
           => loc[u].head \in Heads /\ headState[loc[u].head] = "linked"
    BY <2>1 DEF Knows, HasHead, InMerge
  <2> QED
    BY <1>1, <1>2, <2>2, <2>3 DEF new
<1>7. Knows(pc[t], loc[t])'
  <2>1. Knows(pc[t], loc[t]) /\ pc[t] \in HasHead
    BY <1>3, ThreadKnows DEF HasHead, Splitting
  <2>2. loc'[t].head \in Heads /\ SeenNext(loc'[t].head) /\ \A h \in loc'[t].sel : SeenNext(h)
    BY <1>3, <1>5, <2>1, NamedHeads DEF Knows, PartPut, KeepsSplit
  <2>3. headState'[LastHead(loc'[t])] = "added"
    BY <1>1, <1>2, <1>4
  <2> QED
    BY <1>3, <2>2, <2>3 DEF Knows, Seen, SeenNext
<1>8. \A u \in Threads \ {t} : pc[u] = "splitLink" => LastHead(loc[u]) # LastHead(loc'[t])
  BY <1>4, <1>6 DEF new
<1>9. \A h \in splitList' \cup mergeList' : h \in splitList \cup mergeList
  BY <1>3
<1>10. QueueKnown
  BY <1>3, QueueSame
<1> QED
  BY <1>3, <1>5, <1>6, <1>7, <1>8, <1>9, <1>10, HeadsChange

(* The head is linked. *)
LEMMA SplitLinkHeads ==
    ASSUME TypeInv, HeadsKnown, NEW t \in Threads, SplitLink(t)
    PROVE  HeadsKnown'
<1> DEFINE new == LastHead(loc[t])
<1>1. new \in Heads /\ headState[new] = "added" /\ Knows(pc[t], loc[t]) /\ pc[t] = "splitLink"
  BY NamedHeads, ThreadKnows DEF SplitLink, Knows
<1>2. headState' = [headState EXCEPT ![new] = "linked"] /\ headState \in [Heads -> HeadStates]
  BY DEF SplitLink, TypeInv, SharedType
<1>3. /\ queue' = queue /\ splitList' = splitList /\ mergeList' = mergeList
      /\ Others(t) /\ loc'[t] = loc[t] /\ pc'[t] = "splitSize"
  BY GotoThread DEF SplitLink
<1>4. \A u \in Threads \ {t} : pc[u] = "splitLink" => LastHead(loc[u]) # new
  BY <1>1 DEF HeadsKnown
<1>5. LastHead(loc'[t]) = new
  BY <1>3
<1> HIDE DEF new
<1>6. \A h \in Heads : Seen(h) => SeenNext(h)
  BY <1>1, <1>2 DEF Seen, SeenNext
<1>7. ASSUME NEW u \in Threads \ {t}
      PROVE  /\ pc[u] = "splitLink" => headState'[LastHead(loc[u])] = "added"
             /\ pc[u] \in {"mergeVisit", "mergeWith", "mergeBack"} => headState'[loc[u].head] = "linked"
  <2>1. Knows(pc[u], loc[u])
    BY ThreadKnows
  <2>2. pc[u] = "splitLink" => LastHead(loc[u]) \in Heads /\ headState[LastHead(loc[u])] = "added"
    BY <2>1, NamedHeads DEF Knows
  <2>3. pc[u] \in {"mergeVisit", "mergeWith", "mergeBack"}
           => loc[u].head \in Heads /\ headState[loc[u].head] = "linked"
    BY <2>1 DEF Knows, HasHead, InMerge
  <2> QED
    BY <1>2, <1>4, <2>2, <2>3
<1>8. Knows(pc[t], loc[t])'
  <2>1. loc[t].head \in Heads /\ SeenNext(loc[t].head) /\ \A h \in loc[t].sel : SeenNext(h)
    BY <1>1, <1>6, NamedHeads DEF Knows, HasHead, Splitting
  <2>2. SeenNext(LastHead(loc'[t]))
    BY <1>1, <1>2, <1>5 DEF SeenNext
  <2> QED
    BY <1>3, <2>1, <2>2 DEF Knows, Seen, SeenNext
<1>9. QueueKnown
  BY <1>3, QueueSame
<1> QED
  BY <1>3, <1>6, <1>7, <1>8, <1>9, HeadsChange

(* A head is deleted by the only thread that has it locked, or that is in a *)
(* merge.                                                                   *)
LEMMA DeletedHead ==
    ASSUME TypeInv, HeadsKnown, NEW t \in Threads, NEW dead \in Heads, Seen(dead),
           headState' = [headState EXCEPT ![dead] = "deleted"],
           \A u \in Threads \ {t} :
              pc[u] \in {"mergeVisit", "mergeWith", "mergeBack"} => loc[u].head # dead
    PROVE  /\ \A h \in Heads : Seen(h) => SeenNext(h)
           /\ \A u \in Threads \ {t} :
                 /\ pc[u] = "splitLink" => headState'[LastHead(loc[u])] = "added"
                 /\ pc[u] \in {"mergeVisit", "mergeWith", "mergeBack"}
                       => headState'[loc[u].head] = "linked"
<1>1. headState \in [Heads -> HeadStates]
  BY DEF TypeInv, SharedType
<1>2. \A h \in Heads : Seen(h) => SeenNext(h)
  BY <1>1 DEF Seen, SeenNext
<1>3. ASSUME NEW u \in Threads \ {t}
      PROVE  /\ pc[u] = "splitLink" => headState'[LastHead(loc[u])] = "added"
             /\ pc[u] \in {"mergeVisit", "mergeWith", "mergeBack"} => headState'[loc[u].head] = "linked"
  <2>1. Knows(pc[u], loc[u])
    BY ThreadKnows
  <2>2. pc[u] = "splitLink" => LastHead(loc[u]) \in Heads /\ headState[LastHead(loc[u])] = "added"
    BY <2>1, NamedHeads DEF Knows
  <2>3. pc[u] \in {"mergeVisit", "mergeWith", "mergeBack"}
           => loc[u].head \in Heads /\ headState[loc[u].head] = "linked"
    BY <2>1 DEF Knows, HasHead, InMerge
  <2> QED
    BY <1>1, <2>2, <2>3 DEF Seen
<1> QED
  BY <1>2, <1>3

LEMMA SplitRetireHeads ==
    ASSUME TypeInv, LockDiscipline, HeadsKnown, NEW t \in Threads, SplitRetire(t)
    PROVE  HeadsKnown'
<1>1. /\ queue' = queue /\ splitList' = splitList /\ mergeList' = mergeList
      /\ Others(t) /\ loc'[t] = loc[t] /\ pc[t] = "splitRetire" /\ pc'[t] = "splitErase"
  BY GotoThread DEF SplitRetire
<1>2. QueueKnown /\ pc[t] \in HasHead \cap Locked /\ pc'[t] \in HasHead \ Special
  BY <1>1, QueueSame DEF HasHead, Splitting, Locked, Special
<1>3. CASE headState' = headState
  BY <1>1, <1>2, <1>3, KeepHeads
<1>4. CASE headState' # headState
  <2> DEFINE dead == loc[t].head
  <2>1. headState' = [headState EXCEPT ![dead] = "deleted"]
    BY <1>4 DEF SplitRetire
  <2>2. Knows(pc[t], loc[t]) /\ dead \in Heads /\ Seen(dead)
    BY <1>2, ThreadKnows DEF Knows
  <2>3. \A u \in Threads \ {t} :
           pc[u] \in {"mergeVisit", "mergeWith", "mergeBack"} => loc[u].head # dead
    BY <1>2, OneHolder DEF Locked
  <2>4. Knows(pc[t], loc[t])'
    <3>1. \A h \in Heads : Seen(h) => SeenNext(h)
      BY <2>1, <2>2, <2>3, DeletedHead
    <3>2. SeenNext(loc[t].head) /\ \A h \in loc[t].sel : SeenNext(h)
      BY <2>2, <3>1, NamedHeads DEF Knows
    <3> QED
      BY <1>1, <2>2, <3>2 DEF Knows, Seen, SeenNext
  <2> HIDE DEF dead
  <2> QED
    BY <1>1, <1>2, <2>1, <2>2, <2>3, <2>4, DeletedHead, HeadsChange
<1> QED
  BY <1>3, <1>4

LEMMA MergeHeads ==
    ASSUME TypeInv, LockDiscipline, HeadsKnown, NEW t \in Threads,
           \/ MergeTry(t) \/ MergeGone(t) \/ MergeLockHead(t) \/ MergeVisit(t)
           \/ MergePartnerGone(t) \/ MergeReassign(t) \/ MergeBack(t)
    PROVE  HeadsKnown'
<1>1. headState' = headState /\ splitList' = splitList /\ mergeList' \subseteq mergeList
  BY DEF MergeTry, MergeGone, MergeLockHead, MergeVisit, MergePartnerGone, MergeReassign,
         MergeBack, shared
<1>2. /\ {"mergeTry", "mergeLockHead", "mergeVisit", "mergeWith", "mergeBack"} \subseteq HasHead
      /\ "mergeLockHead" \notin Special
  BY DEF HasHead, InMerge, Special
<1>3. \A h : Seen(h) <=> SeenNext(h)
  BY <1>1 DEF Seen, SeenNext
<1>4. Knows(pc[t], loc[t])
  BY ThreadKnows
<1>5. CASE MergeTry(t)
  <2>1. pc[t] = "mergeTry"
    BY <1>5 DEF MergeTry
  <2>2. loc[t].head \in Heads /\ SeenNext(loc[t].head) /\ loc[t].reassign \in BOOLEAN
    BY <1>2, <1>3, <1>4, <2>1, ThreadType DEF Knows, TypeInv, Loc
  <2>3. QueueKnown
    <3> DEFINE j == MergeJob(loc[t].head, ~loc[t].reassign)
    <3>1. j \in Job /\ j.head = loc[t].head
      BY <2>2, JobType DEF MergeJob
    <3>2. queue' = queue \/ queue' = Append(queue, j)
      BY <1>5 DEF MergeTry
    <3> HIDE DEF j
    <3> QED
      BY <2>2, <3>1, <3>2, QueueSame, QueueOneMore
  <2> QED
    BY <1>1, <1>2, <1>5, <2>1, <2>3, MergeTryFrame, IdleStep, KeepHeads
<1>6. CASE MergeGone(t)
  <2>1. Done(t) /\ queue' = queue
    BY <1>6 DEF MergeGone, shared
  <2> QED
    BY <1>1, <2>1, DoneFrame, QueueSame, IdleStep
<1>7. CASE MergeLockHead(t)
  <2>1. /\ pc[t] = "mergeLockHead" /\ Contains(loc[t].head) /\ queue' = queue
        /\ Others(t) /\ loc'[t].head = loc[t].head
        /\ \/ pc'[t] = "mergeBack" /\ loc'[t].sel = loc[t].sel
           \/ pc'[t] = "mergeVisit" /\ loc'[t].sel \subseteq Searchable \ {loc[t].head}
    BY <1>7, MergeLockHeadFrame DEF MergeLockHead, shared
  <2>2. loc[t].head \in Heads /\ headState[loc[t].head] = "linked" /\ \A h \in loc[t].sel : Seen(h)
    BY <1>2, <1>4, <2>1 DEF Knows, Contains, Seen
  <2>3. \A h \in loc'[t].sel : Seen(h)
    BY <2>1, <2>2 DEF Searchable, Seen
  <2>4. Knows(pc[t], loc[t])'
    BY <1>1, <2>1, <2>2, <2>3 DEF Knows, Seen
  <2> QED
    BY <1>1, <2>1, <2>4, QueueSame, HeadsSame
<1>8. CASE MergeVisit(t)
  <2>1. /\ pc[t] = "mergeVisit" /\ queue' = queue /\ Others(t) /\ loc'[t].head = loc[t].head
        /\ loc'[t].sel \subseteq loc[t].sel
        /\ pc'[t] \in {"mergeBack", "mergeVisit", "mergeWith"}
        /\ pc'[t] = "mergeWith" => loc'[t].prev \in loc[t].sel
    BY <1>8, MergeVisitEnds DEF MergeVisit, shared
  <2>2. /\ loc[t].head \in Heads /\ headState[loc[t].head] = "linked"
        /\ \A h \in loc[t].sel : Seen(h) /\ h # loc[t].head
    BY <1>2, <1>4, <2>1 DEF Knows
  <2>3. Knows(pc[t], loc[t])'
    BY <1>1, <2>1, <2>2 DEF Knows, Seen
  <2>4. pc'[t] # "splitLink"
    BY <2>1
  <2> QED
    BY <1>1, <2>1, <2>3, <2>4, QueueSame, HeadsSame
<1>9. CASE MergePartnerGone(t)
  <2>1. /\ pc[t] = "mergeWith" /\ queue' = queue /\ Others(t) /\ loc'[t] = loc[t]
        /\ pc'[t] = "mergeVisit"
    BY <1>9, GotoThread DEF MergePartnerGone, shared
  <2>2. Knows(pc[t], loc[t])'
    BY <1>1, <1>2, <1>4, <2>1 DEF Knows, Seen
  <2> QED
    BY <1>1, <2>1, <2>2, QueueSame, HeadsSame
<1>10. CASE MergeReassign(t)
  <2>1. Done(t)
    BY <1>10 DEF MergeReassign
  <2> QED
    BY <1>1, <1>10, <2>1, DoneFrame, MergeReassignJobs, IdleStep
<1>11. CASE MergeBack(t)
  <2>1. Done(t) /\ queue' = queue
    BY <1>11 DEF MergeBack
  <2> QED
    BY <1>1, <2>1, DoneFrame, QueueSame, IdleStep
<1> QED
  BY <1>5, <1>6, <1>7, <1>8, <1>9, <1>10, <1>11

(* The loser of a merge is deleted: its head or the partner.                *)
LEMMA MergeWithHeads ==
    ASSUME TypeInv, LockDiscipline, HeadsKnown, NEW t \in Threads, MergeWith(t)
    PROVE  HeadsKnown'
<1>1. /\ pc[t] = "mergeWith" /\ queue' = queue /\ splitList' = splitList /\ mergeList' = mergeList
      /\ Others(t) /\ loc'[t].head = loc[t].head /\ loc'[t].sel = {} /\ pc'[t] = "mergeReassign"
  BY MergeWithFrame DEF MergeWith
<1>2. /\ loc[t].head \in Heads /\ Seen(loc[t].head)
      /\ loc[t].prev \in Heads /\ Seen(loc[t].prev)
  BY <1>1, ThreadKnows, ThreadType DEF Knows, HasHead, InMerge, TypeInv, Shape
<1>3. PICK dead \in {loc[t].head, loc[t].prev} : headState' = [headState EXCEPT ![dead] = "deleted"]
  BY MergeWithEffect DEF Merges
<1>4. dead \in Heads /\ Seen(dead)
  BY <1>2, <1>3
<1>5. \A u \in Threads \ {t} : pc[u] \notin {"mergeVisit", "mergeWith", "mergeBack"}
  BY <1>1, OneMerge DEF InMerge
<1>6. \A h \in Heads : Seen(h) => SeenNext(h)
  BY <1>3, <1>4, <1>5, DeletedHead
<1>7. Knows(pc[t], loc[t])'
  BY <1>1, <1>2, <1>6 DEF Knows, Seen, SeenNext
<1> QED
  BY <1>1, <1>3, <1>4, <1>5, <1>7, QueueSame, DeletedHead, HeadsChange

LEMMA HeadsInit == Init => HeadsKnown
BY DEF Init, HeadsKnown, Knows, HasHead, Splitting, InMerge, Idle

LEMMA HeadsStep == TypeInv /\ LockDiscipline /\ HeadsKnown /\ [Next]_vars => HeadsKnown'
<1> SUFFICES ASSUME TypeInv, LockDiscipline, HeadsKnown, [Next]_vars PROVE HeadsKnown'
  OBVIOUS
<1>1. ASSUME NEW t \in Clients, NEW v \in Vids, AddIndex(t, v) PROVE HeadsKnown'
  BY <1>1, ClientHeads DEF Threads
<1>2. ASSUME NEW v \in Vids, Delete(v) PROVE HeadsKnown'
  BY <1>2 DEF Delete, HeadsKnown, Knows, Seen
<1>3. ASSUME NEW t \in Clients, NEW h \in Heads, SearchRead(t, h) PROVE HeadsKnown'
  BY <1>3, ClientHeads DEF Threads
<1>4. ASSUME NEW t \in Workers, Take(t) PROVE HeadsKnown'
  BY <1>4, TakeHeads DEF Threads
<1>5. ASSUME NEW t \in Threads, Step(t) PROVE HeadsKnown'
  BY <1>5, ClientHeads, AppendHeads, WorkerHeads, SplitHeads, SplitPutNewHeads, SplitLinkHeads,
     SplitRetireHeads, MergeHeads, MergeWithHeads DEF Step
<1>6. CASE UNCHANGED vars
  BY <1>6 DEF vars, shared, HeadsKnown, Knows, Seen
<1> QED
  BY <1>1, <1>2, <1>3, <1>4, <1>5, <1>6 DEF Next

----------------------------------------------------------------------------
(* m_mergeList *)

DeletedStays == \A h \in Heads : headState[h] = "deleted" => headState'[h] = "deleted"

(* A deleted head never comes back. *)
LEMMA DeletedForGood ==
    ASSUME TypeInv, HeadsKnown, NEW t \in Threads, Step(t)
    PROVE  DeletedStays
<1>1. headState \in [Heads -> HeadStates]
  BY DEF TypeInv, SharedType
<1>2. CASE SplitPutNew(t)
  <2>1. headState[NewHead] = "free"
    BY <1>2, NewHeadType DEF SplitPutNew, FreeHeads
  <2> DEFINE new == NewHead
  <2>2. headState' = [headState EXCEPT ![new] = "added"]
    BY <1>2 DEF SplitPutNew
  <2> HIDE DEF new
  <2> QED
    BY <1>1, <2>1, <2>2 DEF DeletedStays, new
<1>3. CASE SplitLink(t)
  <2>1. headState[LastHead(loc[t])] = "added"
    BY <1>3, ThreadKnows DEF SplitLink, Knows
  <2> DEFINE new == LastHead(loc[t])
  <2>2. headState' = [headState EXCEPT ![new] = "linked"]
    BY <1>3 DEF SplitLink
  <2> HIDE DEF new
  <2> QED
    BY <1>1, <2>1, <2>2 DEF DeletedStays, new
<1>4. CASE SplitRetire(t)
  BY <1>1, <1>4 DEF SplitRetire, DeletedStays
<1>5. CASE MergeWith(t)
  BY <1>1, <1>5, MergeWithEffect DEF Merges, DeletedStays
<1>6. CASE headState' = headState
  BY <1>6 DEF DeletedStays
<1> QED
  BY <1>2, <1>3, <1>4, <1>5, <1>6 DEF Step, SearchFind, SearchAdd, NextReplica, AppendMiss,
     AppendMerge, SplitAsync, SplitSync, Appended, ReassignSelect, ReassignCheck, ReassignBump,
     SplitLock, SplitBack, SplitPutSame, SplitSize, SplitErase, Collect, CollectSearch,
     CollectRead, MergeTry, MergeGone, MergeLockHead, MergeVisit, MergePartnerGone,
     MergeReassign, MergeBack, shared

(* The labels of MergePostings, where alone a thread is in a merge. *)
Merging == InMerge \cup {"mergeTry", "mergeReassign"}

MergeInv ==
    /\ \A t \in Threads : loc[t].op = "merge" => pc[t] \in Merging
    /\ MergeListBacked

(* A step that keeps the jobs and the merge of its thread, or ends it with  *)
(* the head out of the list or gone, keeps the promise.                     *)
LEMMA MergeKept ==
    ASSUME TypeInv, HeadsKnown, MergeInv, NEW t \in Threads, Others(t), JobsKept,
           DeletedStays, mergeList' \subseteq mergeList,
           loc'[t].op = "merge" => pc'[t] \in Merging,
           loc[t].op = "merge" =>
              \/ loc[t].head \notin mergeList'
              \/ headState'[loc[t].head] = "deleted"
              \/ loc'[t].op = "merge" /\ loc'[t].head = loc[t].head
    PROVE  MergeInv'
<1>1. ASSUME NEW h \in mergeList', headState'[h] \in {"added", "linked"}
      PROVE  \/ \E i \in DOMAIN queue' : queue'[i].type = "merge" /\ queue'[i].head = h
             \/ \E u \in Workers : loc'[u].op = "merge" /\ loc'[u].head = h
  <2>1. h \in mergeList /\ h \in Heads /\ Seen(h)
    BY DEF HeadsKnown, TypeInv, SharedType
  <2>2. headState[h] = "linked"
    BY <1>1, <2>1 DEF Seen, DeletedStays
  <2>3. CASE \E i \in DOMAIN queue : queue[i].type = "merge" /\ queue[i].head = h
    BY <2>3 DEF JobsKept
  <2>4. ASSUME NEW u \in Workers, loc[u].op = "merge", loc[u].head = h
        PROVE  loc'[u].op = "merge" /\ loc'[u].head = h
    <3>1. CASE u = t
      BY <1>1, <2>4, <3>1
    <3>2. CASE u # t
      BY <2>4, <3>2 DEF Others, Threads
    <3> QED
      BY <3>1, <3>2
  <2> QED
    BY <2>1, <2>2, <2>3, <2>4 DEF MergeInv, MergeListBacked, Contains
<1>2. \A u \in Threads : loc'[u].op = "merge" => pc'[u] \in Merging
  BY DEF Others, MergeInv
<1> QED
  BY <1>1, <1>2 DEF MergeInv, MergeListBacked, Contains

(* The steps of a thread that is not in a merge... *)
LEMMA MergeElsewhere ==
    ASSUME TypeInv, HeadsKnown, MergeInv, NEW t \in Threads, Others(t), JobsKept,
           DeletedStays, mergeList' \subseteq mergeList,
           pc[t] \notin Merging, loc'[t] = Idle \/ loc'[t].op # "merge" \/ loc'[t].op = loc[t].op
    PROVE  MergeInv'
<1>1. loc[t].op # "merge" /\ Idle.op # "merge"
  BY DEF MergeInv, Idle
<1> QED
  BY <1>1, MergeKept

(* ... and the ones that stay in it. *)
LEMMA MergeGoesOn ==
    ASSUME TypeInv, HeadsKnown, MergeInv, NEW t \in Threads, Others(t), JobsKept,
           DeletedStays, mergeList' \subseteq mergeList,
           pc'[t] \in Merging, loc'[t].op = loc[t].op, loc'[t].head = loc[t].head
    PROVE  MergeInv'
BY MergeKept

LEMMA ClientMergeList ==
    ASSUME TypeInv, HeadsKnown, MergeInv, NEW t \in Threads,
           \/ \E v \in Vids : AddIndex(t, v)
           \/ \E h \in Heads : SearchRead(t, h)
    PROVE  MergeInv'
<1>1. DeletedStays /\ mergeList' = mergeList /\ queue' = queue /\ pc[t] \notin Merging
  BY DEF AddIndex, SearchRead, shared, DeletedStays, Merging, InMerge
<1>2. Others(t) /\ loc'[t].op # "merge"
  BY AddIndexFrame, SearchReadFrame
<1> QED
  BY <1>1, <1>2, SameQueue, MergeElsewhere

(* SearchAdd makes the promise: it adds the job when it adds the head. *)
LEMMA SearchAddList ==
    ASSUME TypeInv, HeadsKnown, MergeInv, NEW t \in Threads, SearchAdd(t)
    PROVE  MergeInv'
<1> DEFINE h == loc[t].head
           j == MergeJob(h, ~DisableReassign)
<1>1. /\ Others(t) /\ loc'[t] = Idle /\ queue' = Append(queue, j) /\ headState' = headState
      /\ mergeList' = mergeList \cup {h} /\ pc[t] \notin Merging
  BY DoneFrame DEF SearchAdd, Merging, InMerge
<1>2. j \in Job /\ queue \in Seq(Job) /\ j.type = "merge" /\ j.head = h
  BY ThreadType, JobType DEF SearchAdd, TypeInv, SharedType, Shape, HasHead, MergeJob
<1> HIDE DEF j
<1>3. JobsKept /\ \E i \in DOMAIN queue' : queue'[i].type = "merge" /\ queue'[i].head = h
  BY <1>1, <1>2, AppendedJob
<1>4. Idle.op # "merge" /\ loc[t].op # "merge"
  BY <1>1 DEF Idle, MergeInv
<1>5. \A u \in Threads : loc'[u].op = "merge" => pc'[u] \in Merging
  BY <1>1, <1>4 DEF Others, MergeInv
<1>6. ASSUME NEW g \in mergeList, headState[g] \in {"added", "linked"}
      PROVE  \/ \E i \in DOMAIN queue' : queue'[i].type = "merge" /\ queue'[i].head = g
             \/ \E u \in Workers : loc'[u].op = "merge" /\ loc'[u].head = g
  <2>1. CASE \E i \in DOMAIN queue : queue[i].type = "merge" /\ queue[i].head = g
    BY <1>3, <2>1 DEF JobsKept
  <2>2. ASSUME NEW u \in Workers, loc[u].op = "merge", loc[u].head = g
        PROVE  loc'[u].op = "merge" /\ loc'[u].head = g
    BY <1>1, <1>4, <2>2 DEF Others, Threads
  <2> QED
    BY <1>6, <2>1, <2>2 DEF MergeInv, MergeListBacked, Contains
<1> QED
  BY <1>1, <1>3, <1>5, <1>6 DEF MergeInv, MergeListBacked, Contains

(* Take hands the promise of a merge job over to its thread, a worker. *)
LEMMA TakeMergeList ==
    ASSUME TypeInv, HeadsKnown, MergeInv, NEW t \in Workers, Take(t)
    PROVE  MergeInv'
<1> DEFINE j == Head(queue)
<1>1. t \in Threads
  BY DEF Threads
<1>2. \A i \in DOMAIN queue : queue[i] # j => \E m \in DOMAIN queue' : queue'[m] = queue[i]
  BY TakenJob DEF Take, TypeInv, SharedType
<1>3. /\ Others(t) /\ loc'[t].op = j.type
      /\ j.type = "merge" => loc'[t].head = j.head /\ pc'[t] = "mergeTry"
  BY <1>1, TakeFrame
<1>4. headState' = headState /\ mergeList' = mergeList /\ pc[t] = "idle"
  BY DEF Take
<1> HIDE DEF j
<1>5. loc[t].op # "merge"
  BY <1>1, <1>4 DEF MergeInv, Merging, InMerge
<1>6. \A u \in Threads : loc'[u].op = "merge" => pc'[u] \in Merging
  BY <1>1, <1>3, <1>5 DEF Others, MergeInv, Merging
<1>7. ASSUME NEW g \in mergeList, headState[g] \in {"added", "linked"}
      PROVE  \/ \E i \in DOMAIN queue' : queue'[i].type = "merge" /\ queue'[i].head = g
             \/ \E u \in Workers : loc'[u].op = "merge" /\ loc'[u].head = g
  <2>1. ASSUME NEW i \in DOMAIN queue, queue[i].type = "merge", queue[i].head = g
        PROVE  \/ \E m \in DOMAIN queue' : queue'[m].type = "merge" /\ queue'[m].head = g
               \/ loc'[t].op = "merge" /\ loc'[t].head = g
    BY <1>2, <1>3, <2>1
  <2>2. ASSUME NEW u \in Workers, loc[u].op = "merge", loc[u].head = g
        PROVE  loc'[u].op = "merge" /\ loc'[u].head = g
    BY <1>3, <1>5, <2>2 DEF Others, Threads
  <2> QED
    BY <1>7, <2>1, <2>2 DEF MergeInv, MergeListBacked, Contains
<1> QED
  BY <1>4, <1>6, <1>7 DEF MergeInv, MergeListBacked, Contains

LEMMA OtherMergeList ==
    ASSUME TypeInv, HeadsKnown, MergeInv, NEW t \in Threads,
           \/ SearchFind(t) \/ NextReplica(t) \/ AppendMiss(t) \/ AppendMerge(t)
           \/ SplitAsync(t) \/ SplitSync(t) \/ Appended(t)
           \/ ReassignSelect(t) \/ ReassignCheck(t) \/ ReassignBump(t)
    PROVE  MergeInv'
<1>1. DeletedStays /\ mergeList' = mergeList
  BY DEF SearchFind, NextReplica, AppendMiss, AppendMerge, SplitAsync, SplitSync, Appended,
         ReassignSelect, ReassignCheck, ReassignBump, shared, DeletedStays
<1>2. pc[t] \notin Merging
  BY DEF SearchFind, NextReplica, AppendMiss, AppendMerge, SplitAsync, SplitSync, Appended,
         ReassignSelect, ReassignCheck, ReassignBump, Merging, InMerge
<1>3. Others(t) /\ (loc'[t] = Idle \/ loc'[t].op = loc[t].op)
  <2>1. CASE SearchFind(t)
    BY <2>1, SearchFindFrame
  <2>2. CASE NextReplica(t)
    BY <2>2, NextReplicaFrame DEF KeepsCall
  <2>3. CASE AppendMiss(t)
    BY <2>3, AppendMissFrame DEF GoesOn, KeepsCall
  <2>4. CASE AppendMerge(t)
    BY <2>4, GotoThread DEF AppendMerge
  <2>5. CASE SplitAsync(t) \/ Appended(t)
    BY <2>5, GoesOnFrame DEF SplitAsync, Appended, GoesOn, KeepsCall
  <2>6. CASE SplitSync(t)
    BY <2>6, SplitSyncFrame DEF KeepsSplit, KeepsCall
  <2>7. CASE ReassignSelect(t)
    BY <2>7, ReassignSelectFrame DEF KeepsCall
  <2>8. CASE ReassignCheck(t)
    BY <2>8, ReassignCheckFrame
  <2>9. CASE ReassignBump(t)
    BY <2>9, ReassignBumpFrame
  <2> QED
    BY <2>1, <2>2, <2>3, <2>4, <2>5, <2>6, <2>7, <2>8, <2>9
<1>4. JobsKept
  <2>1. CASE queue' = queue
    BY <2>1, SameQueue
  <2>2. CASE AppendMiss(t)
    <3> DEFINE j == ReassignJob(loc[t].copy, loc[t].head)
    <3>1. j \in Job /\ queue \in Seq(Job)
      BY <2>2, ThreadType, JobType DEF AppendMiss, TypeInv, SharedType, Shape, HasHead, Appending
    <3>2. queue' = queue \/ queue' = Append(queue, j)
      BY <2>2 DEF AppendMiss
    <3> HIDE DEF j
    <3> QED
      BY <3>1, <3>2, AppendedJob, SameQueue
  <2>3. CASE SplitAsync(t)
    <3> DEFINE j == SplitJob(loc[t].head)
    <3>1. j \in Job /\ queue \in Seq(Job)
      BY <2>3, ThreadType, JobType DEF SplitAsync, TypeInv, SharedType, Shape, HasHead
    <3>2. queue' = queue \/ queue' = Append(queue, j)
      BY <2>3 DEF SplitAsync
    <3> HIDE DEF j
    <3> QED
      BY <3>1, <3>2, AppendedJob, SameQueue
  <2> QED
    BY <2>1, <2>2, <2>3 DEF SearchFind, NextReplica, AppendMerge, SplitSync, Appended,
       ReassignSelect, ReassignCheck, ReassignBump, shared
<1> QED
  BY <1>1, <1>2, <1>3, <1>4, MergeElsewhere

LEMMA SplitMergeList ==
    ASSUME TypeInv, HeadsKnown, MergeInv, NEW t \in Threads, Step(t),
           \/ SplitLock(t) \/ SplitBack(t) \/ SplitPutSame(t) \/ SplitPutNew(t)
           \/ SplitLink(t) \/ SplitSize(t) \/ SplitRetire(t) \/ SplitErase(t)
           \/ Collect(t) \/ CollectSearch(t) \/ CollectRead(t)
    PROVE  MergeInv'
<1>1. DeletedStays /\ mergeList' = mergeList /\ JobsKept
  BY DeletedForGood, CollectQueue, SameQueue
     DEF SplitLock, SplitBack, SplitPutSame, SplitPutNew, SplitLink, SplitSize, SplitRetire,
         SplitErase, Collect, CollectSearch, CollectRead, shared
<1>2. pc[t] \notin Merging
  BY DEF SplitLock, SplitBack, SplitPutSame, SplitPutNew, SplitLink, SplitSize, SplitRetire,
         SplitErase, Collect, CollectSearch, CollectRead, Merging, InMerge
<1>3. Others(t) /\ (loc'[t] = Idle \/ loc'[t].op # "merge" \/ loc'[t].op = loc[t].op)
  <2> USE DEF KeepsSplit, KeepsCall
  <2>1. CASE SplitLock(t)
    BY <2>1, SplitLockEnds
  <2>2. CASE SplitBack(t)
    BY <2>2, SplitDoneFrame DEF SplitBack, Resumes
  <2>3. CASE SplitPutSame(t) \/ SplitPutNew(t)
    BY <2>3, SplitPutSameFrame, SplitPutNewFrame DEF PartPut
  <2>4. CASE SplitLink(t) \/ SplitSize(t) \/ SplitRetire(t)
    BY <2>4, GotoThread DEF SplitLink, SplitSize, SplitRetire
  <2>5. CASE SplitErase(t)
    BY <2>5, SplitEraseFrame DEF Resumes
  <2>6. CASE Collect(t)
    BY <2>6, CollectFrame DEF Resumes
  <2>7. CASE CollectSearch(t) \/ CollectRead(t)
    BY <2>7, CollectSearchFrame, CollectReadFrame
  <2> QED
    BY <2>1, <2>2, <2>3, <2>4, <2>5, <2>6, <2>7
<1> QED
  BY <1>1, <1>2, <1>3, MergeElsewhere

(* A merge keeps its head until the head leaves the list or is gone, or its *)
(* job is added again.                                                      *)
LEMMA MergeStepList ==
    ASSUME TypeInv, HeadsKnown, MergeInv, NEW t \in Threads, Step(t),
           \/ MergeTry(t) \/ MergeGone(t) \/ MergeLockHead(t) \/ MergeVisit(t)
           \/ MergePartnerGone(t) \/ MergeWith(t) \/ MergeReassign(t) \/ MergeBack(t)
    PROVE  MergeInv'
<1> USE DEF KeepsCall
<1>1. DeletedStays /\ mergeList' \subseteq mergeList
  BY DeletedForGood DEF MergeTry, MergeGone, MergeLockHead, MergeVisit, MergePartnerGone,
     MergeWith, MergeReassign, MergeBack, shared
<1>2. {"mergeBack", "mergeVisit", "mergeWith", "mergeReassign", "mergeLockHead"} \subseteq Merging
  BY DEF Merging, InMerge
<1>3. Idle.op # "merge"
  BY DEF Idle
<1>4. CASE MergeTry(t)
  <2> DEFINE j == MergeJob(loc[t].head, ~loc[t].reassign)
  <2>1. CASE pc'[t] = "mergeLockHead"
    <3>1. queue' = queue /\ loc'[t] = loc[t] /\ Others(t)
      BY <1>4, <2>1, MergeTryFrame
    <3> QED
      BY <1>1, <1>2, <2>1, <3>1, SameQueue, MergeGoesOn
  <2>2. CASE pc'[t] # "mergeLockHead"
    <3>1. loc'[t] = Idle /\ Others(t) /\ queue' = Append(queue, j)
      BY <1>4, <2>2, MergeTryFrame
    <3>2. j \in Job /\ queue \in Seq(Job) /\ j.type = "merge" /\ j.head = loc[t].head
      BY <1>4, ThreadType, JobType DEF MergeTry, TypeInv, SharedType, Shape, HasHead, Loc, MergeJob
    <3> HIDE DEF j
    <3>3. JobsKept /\ \E i \in DOMAIN queue' : queue'[i].type = "merge" /\ queue'[i].head = loc[t].head
      BY <3>1, <3>2, AppendedJob
    <3>4. ASSUME NEW g \in mergeList, headState[g] \in {"added", "linked"}
          PROVE  \/ \E i \in DOMAIN queue' : queue'[i].type = "merge" /\ queue'[i].head = g
                 \/ \E u \in Workers : loc'[u].op = "merge" /\ loc'[u].head = g
      <4>1. CASE \E i \in DOMAIN queue : queue[i].type = "merge" /\ queue[i].head = g
        BY <3>3, <4>1 DEF JobsKept
      <4>2. ASSUME NEW u \in Workers, u # t, loc[u].op = "merge", loc[u].head = g
            PROVE  loc'[u].op = "merge" /\ loc'[u].head = g
        BY <3>1, <4>2 DEF Others, Threads
      <4> QED
        BY <3>3, <3>4, <4>1, <4>2 DEF MergeInv, MergeListBacked, Contains
    <3>5. headState' = headState /\ mergeList' = mergeList
      BY <1>4 DEF MergeTry
    <3>6. \A u \in Threads : loc'[u].op = "merge" => pc'[u] \in Merging
      BY <1>3, <3>1 DEF Others, MergeInv
    <3> QED
      BY <3>4, <3>5, <3>6 DEF MergeInv, MergeListBacked, Contains
  <2> QED
    BY <2>1, <2>2
<1>5. CASE MergeGone(t)
  <2>1. Others(t) /\ loc'[t] = Idle /\ queue' = queue /\ headState' = headState
    BY <1>5, DoneFrame DEF MergeGone, shared
  <2>2. headState[loc[t].head] = "deleted"
    <3>1. Seen(loc[t].head)
      BY <1>5, ThreadKnows DEF MergeGone, Knows, HasHead, InMerge
    <3> QED
      BY <1>5, <3>1 DEF MergeGone, Contains, Seen
  <2> QED
    BY <1>1, <1>3, <2>1, <2>2, SameQueue, MergeKept
<1>6. CASE MergeLockHead(t)
  <2>1. queue' = queue
    BY <1>6 DEF MergeLockHead, shared
  <2> QED
    BY <1>1, <1>2, <1>6, <2>1, MergeLockHeadFrame, SameQueue, MergeGoesOn
<1>7. CASE MergeVisit(t)
  <2>1. queue' = queue
    BY <1>7 DEF MergeVisit, shared
  <2> QED
    BY <1>1, <1>2, <1>7, <2>1, MergeVisitEnds, SameQueue, MergeGoesOn
<1>8. CASE MergePartnerGone(t)
  BY <1>1, <1>2, <1>8, GotoThread, SameQueue, MergeGoesOn DEF MergePartnerGone, shared
<1>9. CASE MergeWith(t)
  <2>1. queue' = queue
    BY <1>9 DEF MergeWith
  <2> QED
    BY <1>1, <1>2, <1>9, <2>1, MergeWithFrame, SameQueue, MergeGoesOn
<1>10. CASE MergeReassign(t)
  <2>1. Others(t) /\ loc'[t] = Idle /\ loc[t].head \notin mergeList'
    BY <1>10, DoneFrame DEF MergeReassign
  <2> QED
    BY <1>1, <1>3, <1>10, <2>1, MergeReassignQueue, MergeKept
<1>11. CASE MergeBack(t)
  <2>1. Others(t) /\ loc'[t] = Idle /\ loc[t].head \notin mergeList' /\ queue' = queue
    BY <1>11, DoneFrame DEF MergeBack
  <2> QED
    BY <1>1, <1>3, <2>1, SameQueue, MergeKept
<1> QED
  BY <1>4, <1>5, <1>6, <1>7, <1>8, <1>9, <1>10, <1>11

LEMMA MergeListStep == TypeInv /\ HeadsKnown /\ MergeInv /\ [Next]_vars => MergeInv'
<1> SUFFICES ASSUME TypeInv, HeadsKnown, MergeInv, [Next]_vars PROVE MergeInv'
  OBVIOUS
<1>1. ASSUME NEW t \in Clients, NEW v \in Vids, AddIndex(t, v) PROVE MergeInv'
  BY <1>1, ClientMergeList DEF Threads
<1>2. ASSUME NEW v \in Vids, Delete(v) PROVE MergeInv'
  BY <1>2 DEF Delete, MergeInv, MergeListBacked, Contains
<1>3. ASSUME NEW t \in Clients, NEW h \in Heads, SearchRead(t, h) PROVE MergeInv'
  BY <1>3, ClientMergeList DEF Threads
<1>4. ASSUME NEW t \in Workers, Take(t) PROVE MergeInv'
  BY <1>4, TakeMergeList
<1>5. ASSUME NEW t \in Threads, Step(t) PROVE MergeInv'
  BY <1>5, SearchAddList, OtherMergeList, SplitMergeList, MergeStepList DEF Step
<1>6. CASE UNCHANGED vars
  BY <1>6 DEF vars, shared, MergeInv, MergeListBacked, Contains
<1> QED
  BY <1>1, <1>2, <1>3, <1>4, <1>5, <1>6 DEF Next

(* A head in m_mergeList that still exists always has a merge in the queue  *)
(* or a worker that is merging it: either takes it out of the list again,   *)
(* so that no nearly empty posting is barred from being merged.             *)
THEOREM MergesComing == Spec => []MergeListBacked
<1>1. Init => MergeInv
  BY DEF Init, MergeInv, MergeListBacked, Idle
<1>2. MergeInv => MergeListBacked
  BY DEF MergeInv
<1> QED
  BY <1>1, <1>2, TypeInit, TypeStep, LockInit, LockStep, HeadsInit, HeadsStep, MergeListStep,
     PTL DEF Spec
=============================================================================
