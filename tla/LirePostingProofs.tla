-------------------------- MODULE LirePostingProofs --------------------------
(***************************************************************************)
(* The postings, for any number of vectors, threads, heads and lock slots: *)
(* nothing is appended to a deleted head, the size records do not say too  *)
(* much, no vector gets lost, and no version has two owners.               *)
(***************************************************************************)
EXTENDS LireListProofs

----------------------------------------------------------------------------
(* The postings under a lock *)

(* Where a split has its posting in hand. *)
Cutting == {"splitBack", "splitPut", "splitLink", "splitSize", "splitRetire"}

(* Only a split gets there. *)
LEMMA OnlySplitsCut ==
    ASSUME TypeInv, NEW t \in Threads,
           \/ SearchFind(t) \/ SearchAdd(t) \/ NextReplica(t) \/ AppendMiss(t) \/ AppendMerge(t)
           \/ SplitAsync(t) \/ SplitSync(t) \/ Appended(t)
           \/ ReassignSelect(t) \/ ReassignCheck(t) \/ ReassignBump(t)
           \/ SplitBack(t) \/ SplitErase(t) \/ Collect(t) \/ CollectSearch(t) \/ CollectRead(t)
           \/ MergeTry(t) \/ MergeGone(t) \/ MergeLockHead(t) \/ MergeVisit(t)
           \/ MergePartnerGone(t) \/ MergeWith(t) \/ MergeReassign(t) \/ MergeBack(t)
    PROVE  Others(t) /\ pc'[t] \notin Cutting
<1> USE DEF Cutting
<1>1. CASE SearchFind(t)
  BY <1>1, SearchFindFrame
<1>2. CASE SearchAdd(t) \/ MergeGone(t) \/ MergeReassign(t) \/ MergeBack(t)
  BY <1>2, DoneFrame DEF SearchAdd, MergeGone, MergeReassign, MergeBack
<1>3. CASE NextReplica(t)
  BY <1>3, NextReplicaFrame
<1>4. CASE AppendMiss(t)
  BY <1>4, AppendMissFrame DEF GoesOn
<1>5. CASE AppendMerge(t) \/ MergePartnerGone(t)
  BY <1>5, GotoThread DEF AppendMerge, MergePartnerGone
<1>6. CASE SplitAsync(t) \/ Appended(t)
  BY <1>6, GoesOnFrame DEF SplitAsync, Appended, GoesOn
<1>7. CASE SplitSync(t)
  BY <1>7, SplitSyncFrame
<1>8. CASE ReassignSelect(t)
  BY <1>8, ReassignSelectFrame
<1>9. CASE ReassignCheck(t) \/ ReassignBump(t)
  BY <1>9, ReassignCheckFrame, ReassignBumpFrame
<1>10. CASE SplitBack(t)
  BY <1>10, SplitDoneFrame DEF SplitBack, Resumes
<1>11. CASE SplitErase(t)
  BY <1>11, SplitEraseFrame DEF Resumes
<1>12. CASE Collect(t)
  BY <1>12, CollectFrame DEF Resumes
<1>13. CASE CollectSearch(t) \/ CollectRead(t)
  BY <1>13, CollectSearchFrame, CollectReadFrame
<1>14. CASE MergeTry(t)
  BY <1>14, MergeTryFrame
<1>15. CASE MergeLockHead(t)
  BY <1>15, MergeLockHeadFrame
<1>16. CASE MergeVisit(t)
  BY <1>16, MergeVisitEnds
<1>17. CASE MergeWith(t)
  BY <1>17, MergeWithFrame
<1> QED
  BY <1>1, <1>2, <1>3, <1>4, <1>5, <1>6, <1>7, <1>8, <1>9, <1>10, <1>11, <1>12, <1>13, <1>14,
     <1>15, <1>16, <1>17

(* The heads whose posting a step of thread t may write: its own under the  *)
(* lock, or one it holds no lock of but that is free to take; or a new one. *)
Writes(t, h) ==
    \/ h = loc[t].head /\ pc[t] \in Locked
    \/ lock[LockOf(h)] \in {None, t}
    \/ headState[h] = "free"

LEMMA PostingStep ==
    ASSUME TypeInv, NEW t \in Threads, Step(t)
    PROVE  \A h \in Heads : Writes(t, h) \/ posting'[h] = posting[h]
<1> USE DEF Writes
<1>1. posting \in [Heads -> Seq(Copy)]
  BY DEF TypeInv, SharedType
<1>2. CASE posting' = posting
  BY <1>2
<1>3. CASE AppendMerge(t)
  BY <1>1, <1>3 DEF AppendMerge
<1>4. CASE SplitBack(t) \/ SplitPutSame(t) \/ MergeBack(t)
  <2>1. pc[t] \in Locked
    BY <1>4 DEF SplitBack, SplitPutSame, MergeBack, Locked
  <2> QED
    BY <1>1, <1>4, <2>1 DEF SplitBack, SplitPutSame, MergeBack
<1>5. CASE SplitPutNew(t)
  <2>1. headState[NewHead] = "free"
    BY <1>5, NewHeadType DEF SplitPutNew, FreeHeads
  <2> DEFINE new == NewHead
  <2>2. \E s : posting' = [posting EXCEPT ![new] = s]
    BY <1>5 DEF SplitPutNew
  <2> HIDE DEF new
  <2> QED
    BY <1>1, <2>1, <2>2 DEF new
<1>6. CASE MergeWith(t)
  <2>1. pc[t] \in Locked /\ lock[LockOf(loc[t].prev)] \in {None, t}
    BY <1>6 DEF MergeWith, Locked, PartnerFree
  <2>2. \E h \in {loc[t].head, loc[t].prev} : \E s : posting' = [posting EXCEPT ![h] = s]
    BY <1>6, MergeWithEffect DEF Merges
  <2> QED
    BY <1>1, <2>1, <2>2
<1> QED
  BY <1>2, <1>3, <1>4, <1>5, <1>6 DEF Step, SearchFind, SearchAdd, NextReplica, AppendMiss,
     SplitAsync, SplitSync, Appended, ReassignSelect, ReassignCheck, ReassignBump,
     SplitLock, SplitLink, SplitSize, SplitRetire, SplitErase, Collect, CollectSearch,
     CollectRead, MergeTry, MergeGone, MergeLockHead, MergeVisit, MergePartnerGone,
     MergeReassign, shared

(* The posting of a head that a thread has locked is changed by no other.   *)
LEMMA LockedPosting ==
    ASSUME TypeInv, LockDiscipline, HeadsKnown, NEW t \in Threads, Step(t),
           NEW u \in Threads \ {t}, pc[u] \in Locked
    PROVE  /\ loc[u].head \in Heads /\ Seen(loc[u].head)
           /\ posting'[loc[u].head] = posting[loc[u].head]
<1> DEFINE h == loc[u].head
<1>1. h \in Heads /\ Seen(h)
  BY ThreadKnows DEF Knows, HasHead, Locked, Splitting, InMerge
<1>2. lock[LockOf(h)] = u /\ u # None
  BY NoneNoThread DEF LockDiscipline
<1>3. ~Writes(t, h)
  BY <1>1, <1>2 DEF Writes, Seen, LockDiscipline
<1> QED
  BY <1>1, <1>3, PostingStep

(* What a split is going to write over its posting is no longer than that.  *)
Shorter(p, l) ==
    /\ p = "splitBack" => Len(l.list) <= Len(posting[l.head])
    /\ p \in {"splitPut", "splitLink", "splitSize"} /\ l.same > Len(l.heads)
          => Len(l.parts[l.same]) <= Len(posting[l.head])

Lengths == \A t \in Threads : Shorter(pc[t], loc[t])

LEMMA SublistShorter ==
    ASSUME NEW s \in Seq(Copy), NEW parts \in Clusterings(s), NEW k \in 1..2
    PROVE  Len(parts[k]) <= Len(s)
<1>1. PICK I \in SUBSET (DOMAIN s) :
         parts \in Sublists(s, I) \X Sublists(s, (DOMAIN s) \ I)
  BY DEF Clusterings
<1>2. PICK a \in Sublists(s, I), b \in Sublists(s, (DOMAIN s) \ I) : parts = <<a, b>>
  BY <1>1
<1>3. Len(a) <= Len(s) /\ Len(b) <= Len(s)
  BY <1>2, SublistType
<1> QED
  BY <1>2, <1>3

(* The thread that takes a step of a split. *)
LEMMA CutLengths ==
    ASSUME TypeInv, LockDiscipline, HeadsKnown, Lengths, NEW t \in Threads,
           \/ SplitLock(t) \/ SplitPutSame(t) \/ SplitPutNew(t) \/ SplitLink(t) \/ SplitSize(t)
           \/ SplitRetire(t)
    PROVE  Others(t) /\ Shorter(pc[t], loc[t])'
<1>1. loc[t] \in Loc /\ loc[t].head \in Heads /\ Seen(loc[t].head) /\ posting[loc[t].head] \in Seq(Copy)
  <2>1. pc[t] \in HasHead
    BY DEF SplitLock, SplitPutSame, SplitPutNew, SplitLink, SplitSize, SplitRetire, HasHead, Splitting
  <2> QED
    BY <2>1, ThreadKnows, ThreadType DEF Knows, TypeInv, SharedType
<1>2. Shorter(pc[t], loc[t])
  BY DEF Lengths
<1>3. loc[t].heads \in Seq(Heads) /\ Len(loc[t].heads) \in Nat /\ loc[t].same \in 0..2
  BY <1>1 DEF Loc
<1>4. CASE SplitLock(t)
  <2>1. posting' = posting
    BY <1>4 DEF SplitLock, shared
  <2>2. Others(t) /\ loc'[t].head = loc[t].head
    BY <1>4, SplitLockEnds DEF KeepsSplit
  <2>3. PICK list \in LiveOf(posting[loc[t].head]) :
           \/ /\ pc'[t] = "splitBack" /\ loc'[t].list = list
           \/ /\ pc'[t] = "splitBack"
              /\ \E c \in CopiesIn(list) : loc'[t].list = <<c>>
           \/ /\ pc'[t] = "splitPut" /\ loc'[t].heads = <<>>
              /\ loc'[t].parts \in Clusterings(list) /\ loc'[t].same \in 0..2
    BY <1>4, SplitLockEnds
  <2>4. list \in Seq(Copy) /\ Len(list) <= Len(posting[loc[t].head]) /\ Len(list) \in Nat
        /\ Len(posting[loc[t].head]) \in Nat
    BY <1>1, LiveOfType
  <2>5. CASE pc'[t] = "splitBack" /\ loc'[t].list = list
    BY <2>1, <2>2, <2>4, <2>5 DEF Shorter
  <2>6. CASE pc'[t] = "splitBack" /\ \E c \in CopiesIn(list) : loc'[t].list = <<c>>
    <3>1. Len(list) >= 1
      BY <2>4, <2>6 DEF CopiesIn
    <3>2. Len(loc'[t].list) = 1
      BY <2>6
    <3> QED
      BY <2>1, <2>2, <2>4, <2>6, <3>1, <3>2 DEF Shorter
  <2>7. CASE pc'[t] = "splitPut" /\ loc'[t].parts \in Clusterings(list) /\ loc'[t].same \in 0..2
             /\ loc'[t].heads = <<>>
    <3>1. ASSUME loc'[t].same > Len(loc'[t].heads)
          PROVE  Len(loc'[t].parts[loc'[t].same]) <= Len(posting[loc[t].head])
      <4> DEFINE parts == loc'[t].parts
                 same == loc'[t].same
      <4>1. same \in 1..2 /\ parts \in Clusterings(list)
        BY <2>7, <3>1
      <4> HIDE DEF parts, same
      <4>2. Len(parts[same]) <= Len(list) /\ parts[same] \in Seq(Copy)
        BY <2>4, <4>1, SublistShorter, ClusteringType
      <4>3. Len(parts[same]) \in Nat
        BY <4>2
      <4> QED
        BY <2>4, <4>2, <4>3 DEF parts, same
    <3> QED
      BY <2>1, <2>2, <2>7, <3>1 DEF Shorter
  <2> QED
    BY <2>2, <2>3, <2>5, <2>6, <2>7
<1>5. CASE SplitPutSame(t)
  <2> DEFINE hs == loc[t].heads
             h == loc[t].head
  <2>1. /\ Others(t) /\ loc'[t].heads = Append(hs, h) /\ loc'[t].same = loc[t].same
        /\ pc'[t] \in {"splitRetire", "splitPut"} /\ loc[t].same = Len(hs) + 1
    BY <1>5, SplitPutSameFrame DEF PartPut, AfterPart, SplitPutSame
  <2>2. hs \in Seq(Heads) /\ h \in Heads
    BY <1>1, <1>3
  <2> HIDE DEF hs, h
  <2>3. Len(Append(hs, h)) = Len(hs) + 1 /\ Len(hs) \in Nat
    BY <2>2
  <2>4. ~(loc'[t].same > Len(loc'[t].heads))
    BY <2>1, <2>3
  <2> QED
    BY <2>1, <2>4 DEF Shorter
<1>6. CASE SplitPutNew(t)
  <2> DEFINE hs == loc[t].heads
             n == NewHead
             h == loc[t].head
  <2>1. /\ Others(t) /\ loc'[t].heads = Append(hs, n) /\ loc'[t].same = loc[t].same
        /\ loc'[t].parts = loc[t].parts /\ loc'[t].head = h
        /\ pc'[t] = "splitLink" /\ pc[t] = "splitPut"
    BY <1>6, SplitPutNewFrame DEF PartPut, KeepsSplit, SplitPutNew
  <2>2. hs \in Seq(Heads) /\ n \in Heads /\ h # n
    BY <1>1, <1>3, <1>6, NewHeadType DEF SplitPutNew, FreeHeads, Seen
  <2>3. posting'[h] = posting[h]
    BY <1>6, <2>2 DEF SplitPutNew, TypeInv, SharedType
  <2> HIDE DEF hs, n, h
  <2>4. Len(Append(hs, n)) = Len(hs) + 1 /\ Len(hs) \in Nat
    BY <2>2
  <2>5. loc'[t].same > Len(loc'[t].heads) => loc[t].same > Len(hs)
    BY <1>3, <2>1, <2>4
  <2> QED
    BY <1>2, <2>1, <2>3, <2>5 DEF Shorter, hs, h
<1>7. CASE SplitLink(t)
  <2>1. Others(t) /\ loc'[t] = loc[t] /\ posting' = posting /\ pc'[t] = "splitSize" /\ pc[t] = "splitLink"
    BY <1>7, GotoThread DEF SplitLink
  <2> QED
    BY <1>2, <2>1 DEF Shorter
<1>8. CASE SplitSize(t)
  <2>1. /\ Others(t) /\ loc'[t] = loc[t] /\ posting' = posting
        /\ pc'[t] \in {"splitPut", "splitRetire"} /\ pc[t] = "splitSize"
    BY <1>8, GotoThread DEF SplitSize, AfterPart
  <2> QED
    BY <1>2, <2>1 DEF Shorter
<1>9. CASE SplitRetire(t)
  <2>1. Others(t) /\ pc'[t] = "splitErase"
    BY <1>9, GotoThread DEF SplitRetire
  <2> QED
    BY <2>1 DEF Shorter
<1> QED
  BY <1>4, <1>5, <1>6, <1>7, <1>8, <1>9

(* What a split has in hand stays shorter, whatever the other threads do.   *)
LEMMA OthersShorter ==
    ASSUME TypeInv, LockDiscipline, HeadsKnown, Lengths, NEW t \in Threads, Step(t), Others(t),
           NEW u \in Threads \ {t}
    PROVE  Shorter(pc[u], loc[u])'
<1>1. Shorter(pc[u], loc[u]) /\ pc'[u] = pc[u] /\ loc'[u] = loc[u]
  BY DEF Lengths, Others
<1>2. CASE pc[u] \in Locked
  BY <1>1, <1>2, LockedPosting DEF Shorter
<1>3. CASE pc[u] \notin Locked
  BY <1>1, <1>3 DEF Shorter, Locked
<1> QED
  BY <1>2, <1>3

LEMMA LengthsStep == TypeInv /\ LockDiscipline /\ HeadsKnown /\ Lengths /\ [Next]_vars => Lengths'
<1> SUFFICES ASSUME TypeInv, LockDiscipline, HeadsKnown, Lengths, [Next]_vars PROVE Lengths'
  OBVIOUS
<1> USE DEF Lengths
<1>1. ASSUME NEW t \in Threads, Others(t), posting' = posting,
             pc'[t] \notin {"splitBack", "splitPut", "splitLink", "splitSize"}
      PROVE  Lengths'
  BY <1>1 DEF Others, Shorter
<1>2. ASSUME NEW t \in Clients, NEW v \in Vids, AddIndex(t, v) PROVE Lengths'
  BY <1>1, <1>2, AddIndexFrame DEF AddIndex, Threads
<1>3. ASSUME NEW v \in Vids, Delete(v) PROVE Lengths'
  BY <1>3 DEF Delete, Shorter
<1>4. ASSUME NEW t \in Clients, NEW h \in Heads, SearchRead(t, h) PROVE Lengths'
  BY <1>1, <1>4, SearchReadFrame DEF SearchRead, shared, Threads
<1>5. ASSUME NEW t \in Workers, Take(t) PROVE Lengths'
  BY <1>1, <1>5, TakeFrame DEF Take, Threads
<1>6. ASSUME NEW t \in Threads, Step(t) PROVE Lengths'
  <2>1. Others(t) /\ Shorter(pc[t], loc[t])'
    <3>1. CASE pc'[t] \notin Cutting /\ Others(t)
      BY <3>1 DEF Cutting, Shorter
    <3> QED
      BY <1>6, <3>1, OnlySplitsCut, CutLengths DEF Step
  <2>2. \A u \in Threads \ {t} : Shorter(pc[u], loc[u])'
    BY <1>6, <2>1, OthersShorter
  <2> QED
    BY <2>1, <2>2
<1>7. CASE UNCHANGED vars
  BY <1>7 DEF vars, shared, Shorter
<1> QED
  BY <1>2, <1>3, <1>4, <1>5, <1>6, <1>7 DEF Next

(* A posting that grows is that of a head that is in use. *)
LEMMA GrowsInUse ==
    ASSUME TypeInv, LockDiscipline, HeadsKnown, Lengths, [Next]_vars,
           NEW h \in Heads, headState[h] = "deleted"
    PROVE  Len(posting'[h]) <= Len(posting[h])
<1>1. posting \in [Heads -> Seq(Copy)] /\ Len(posting[h]) \in Nat
  BY DEF TypeInv, SharedType
<1>2. CASE posting'[h] = posting[h]
  BY <1>1, <1>2
<1>3. ASSUME NEW t \in Threads, AppendMerge(t) PROVE posting'[h] = posting[h]
  BY <1>1, <1>3 DEF AppendMerge, Contains
<1>4. ASSUME NEW t \in Threads, SplitBack(t) PROVE Len(posting'[h]) <= Len(posting[h])
  <2>1. Len(loc[t].list) <= Len(posting[loc[t].head])
    BY <1>4 DEF SplitBack, Lengths, Shorter
  <2> QED
    BY <1>1, <1>2, <1>4, <2>1 DEF SplitBack
<1>5. ASSUME NEW t \in Threads, SplitPutSame(t) PROVE Len(posting'[h]) <= Len(posting[h])
  <2>1. /\ pc[t] = "splitPut" /\ loc[t].same = Len(loc[t].heads) + 1
        /\ posting' = [posting EXCEPT ![loc[t].head] = loc[t].parts[loc[t].same]]
    BY <1>5 DEF SplitPutSame
  <2>2. loc[t].heads \in Seq(Heads)
    BY ThreadType DEF TypeInv, Loc
  <2>3. loc[t].same > Len(loc[t].heads)
    BY <2>1, <2>2
  <2>4. Len(loc[t].parts[loc[t].same]) <= Len(posting[loc[t].head])
    BY <2>1, <2>3 DEF Lengths, Shorter
  <2> QED
    BY <1>1, <1>2, <2>1, <2>4
<1>6. ASSUME NEW t \in Threads, SplitPutNew(t) PROVE posting'[h] = posting[h]
  <2>1. NewHead # h
    BY <1>6, NewHeadType DEF SplitPutNew, FreeHeads
  <2> QED
    BY <1>1, <1>6, <2>1 DEF SplitPutNew
<1>7. ASSUME NEW t \in Threads, MergeWith(t) PROVE posting'[h] = posting[h]
  <2>1. headState[loc[t].head] = "linked" /\ Contains(loc[t].prev)
    BY <1>7, ThreadKnows DEF MergeWith, Knows
  <2>2. \E g \in {loc[t].head, loc[t].prev} : \E s : posting' = [posting EXCEPT ![g] = s]
    BY <1>7, MergeWithEffect DEF Merges
  <2> QED
    BY <1>1, <2>1, <2>2 DEF Contains
<1>8. ASSUME NEW t \in Threads, MergeBack(t) PROVE posting'[h] = posting[h]
  <2>1. headState[loc[t].head] = "linked"
    BY <1>8, ThreadKnows DEF MergeBack, Knows
  <2> QED
    BY <1>1, <1>8, <2>1 DEF MergeBack
<1>9. CASE posting' = posting
  BY <1>2, <1>9
<1>10. ASSUME NEW t \in Threads, Step(t) PROVE Len(posting'[h]) <= Len(posting[h])
  BY <1>2, <1>3, <1>4, <1>5, <1>6, <1>7, <1>8, <1>9, <1>10 DEF Step, SearchFind, SearchAdd, NextReplica, AppendMiss,
     SplitAsync, SplitSync, Appended, ReassignSelect, ReassignCheck, ReassignBump,
     SplitLock, SplitLink, SplitSize, SplitRetire, SplitErase, Collect, CollectSearch,
     CollectRead, MergeTry, MergeGone, MergeLockHead, MergeVisit, MergePartnerGone,
     MergeReassign, shared
<1> QED
  BY <1>9, <1>10 DEF Next, AddIndex, Delete, SearchRead, Take, vars, shared

(* Nothing is appended to the posting of a deleted head, whatever splits,   *)
(* merges and appends do at the same time.                                  *)
THEOREM AppendsFindTheirHead == Spec => NoAppendToDeletedHead
<1>1. Init => Lengths
  BY DEF Init, Lengths, Shorter
<1>2. TypeInv /\ LockDiscipline /\ HeadsKnown /\ Lengths /\ [Next]_vars
         => [\A h \in Heads : headState[h] = "deleted" => Len(posting'[h]) <= Len(posting[h])]_vars
  BY GrowsInUse
<1> QED
  BY <1>1, <1>2, TypeInit, TypeStep, LockInit, LockStep, HeadsInit, HeadsStep, LengthsStep,
     PTL DEF Spec, NoAppendToDeletedHead

----------------------------------------------------------------------------
(* m_postingSizes *)

(* A head that is not in use has no size left over from earlier.            *)
FreeSizes == \A h \in Heads : headState[h] = "free" => size[h] = 0

(* What a step does to the size record: nothing, or the sizes it writes are *)
(* those of the postings, but for the late one of a new head.               *)
SizeKept(h) == posting'[h] = posting[h] /\ size'[h] = size[h]
SizeRight(h) == size'[h] <= Len(posting'[h])
SizeGrows(h) == size'[h] = size[h] + 1 /\ Len(posting'[h]) = Len(posting[h]) + 1

LEMMA SizeStep ==
    ASSUME TypeInv, HeadsKnown, FreeSizes, NEW t \in Threads, Step(t), NEW h \in Heads
    PROVE  /\ SizeKept(h) \/ SizeRight(h) \/ SizeGrows(h) \/ LateSize(h)
           /\ headState'[h] = "free" => headState[h] = "free" /\ size'[h] = size[h]
<1>1. /\ posting \in [Heads -> Seq(Copy)] /\ posting[h] \in Seq(Copy)
      /\ size \in [Heads -> Nat] /\ headState \in [Heads -> HeadStates]
  BY DEF TypeInv, SharedType
<1>2. loc[t] \in Loc /\ Knows(pc[t], loc[t])
  BY ThreadKnows, ThreadType DEF TypeInv
<1>3. CASE posting' = posting /\ size' = size /\ headState' = headState
  BY <1>3 DEF SizeKept
<1>4. CASE AppendMerge(t)
  <2> DEFINE c == loc[t].copy
             g == loc[t].head
  <2>1. c \in Copy /\ g \in Heads
    BY <1>4, ThreadType DEF AppendMerge, TypeInv, Shape, Appending, HasHead
  <2>2. /\ posting' = [posting EXCEPT ![g] = Append(posting[g], c)]
        /\ size' = [size EXCEPT ![g] = size[g] + 1] /\ headState' = headState
        /\ headState[g] \in {"added", "linked"}
    BY <1>4 DEF AppendMerge, Contains
  <2> HIDE DEF c, g
  <2>3. Len(Append(posting[g], c)) = Len(posting[g]) + 1
    BY <1>1, <2>1
  <2> QED
    BY <1>1, <2>1, <2>2, <2>3 DEF SizeGrows, SizeKept
<1>5. CASE SplitBack(t) \/ MergeBack(t)
  <2> DEFINE s == loc[t].list
             g == loc[t].head
  <2>1. s \in Seq(Copy) /\ g \in Heads /\ Seen(g)
    BY <1>2, <1>5 DEF SplitBack, MergeBack, Loc, Knows, HasHead, Splitting, InMerge
  <2>2. /\ posting' = [posting EXCEPT ![g] = s] /\ size' = [size EXCEPT ![g] = Len(s)]
        /\ headState' = headState
    BY <1>5 DEF SplitBack, MergeBack
  <2> HIDE DEF s, g
  <2>3. Len(s) <= Len(s)
    BY <2>1
  <2> QED
    BY <1>1, <2>1, <2>2, <2>3 DEF SizeRight, SizeKept, Seen
<1>6. CASE SplitPutSame(t)
  <2> DEFINE s == loc[t].parts[Len(loc[t].heads) + 1]
             g == loc[t].head
  <2>1. /\ posting' = [posting EXCEPT ![g] = s] /\ size' = [size EXCEPT ![g] = Len(s)]
        /\ headState' = headState
    BY <1>6 DEF SplitPutSame
  <2>2. g \in Heads /\ Seen(g)
    BY <1>2, <1>6 DEF SplitPutSame, Knows, HasHead, Splitting
  <2>3. s \in Seq(Copy)
    <3>1. Len(loc[t].parts) = 2 /\ Len(loc[t].heads) \in {0, 1} /\ loc[t].parts \in Seq(Seq(Copy))
      BY <1>2, <1>6, ThreadType DEF SplitPutSame, TypeInv, Shape, Loc
    <3>2. Len(loc[t].heads) + 1 \in 1..2
      BY <3>1, OneMore
    <3> QED
      BY <3>1, <3>2
  <2> HIDE DEF s, g
  <2>4. Len(s) <= Len(s)
    BY <2>3
  <2> QED
    BY <1>1, <2>1, <2>2, <2>4 DEF SizeRight, SizeKept, Seen
<1>7. CASE SplitPutNew(t)
  <2> DEFINE n == NewHead
             s == loc[t].parts[Len(loc[t].heads) + 1]
  <2>1. n \in Heads /\ headState[n] = "free" /\ size[n] = 0
    BY <1>7, NewHeadType DEF SplitPutNew, FreeHeads, FreeSizes
  <2>2. s \in Seq(Copy)
    <3>1. Len(loc[t].parts) = 2 /\ Len(loc[t].heads) \in {0, 1} /\ loc[t].parts \in Seq(Seq(Copy))
      BY <1>2, <1>7, ThreadType DEF SplitPutNew, TypeInv, Shape, Loc
    <3>2. Len(loc[t].heads) + 1 \in 1..2
      BY <3>1, OneMore
    <3> QED
      BY <3>1, <3>2
  <2>3. /\ posting' = [posting EXCEPT ![n] = s] /\ size' = size
        /\ headState' = [headState EXCEPT ![n] = "added"]
    BY <1>7 DEF SplitPutNew
  <2> HIDE DEF n, s
  <2>4. 0 <= Len(s)
    BY <2>2
  <2> QED
    BY <1>1, <2>1, <2>3, <2>4 DEF SizeRight, SizeKept
<1>8. CASE SplitLink(t)
  <2> DEFINE n == LastHead(loc[t])
  <2>1. headState[n] = "added" /\ headState' = [headState EXCEPT ![n] = "linked"]
    BY <1>2, <1>8 DEF SplitLink, Knows
  <2>2. posting' = posting /\ size' = size
    BY <1>8 DEF SplitLink
  <2> HIDE DEF n
  <2> QED
    BY <1>1, <2>1, <2>2 DEF SizeKept
<1>9. CASE SplitSize(t)
  <2> DEFINE n == LastHead(loc[t])
             m == Len(loc[t].parts[Len(loc[t].heads)])
  <2>1. n \in Heads /\ Seen(n) /\ size' = [size EXCEPT ![n] = m]
    BY <1>2, <1>9, NamedHeads DEF SplitSize, Knows
  <2>2. posting' = posting /\ headState' = headState
    BY <1>9 DEF SplitSize
  <2>3. h = n => LateSize(h)
    <3>1. pc[t] = "splitSize" /\ pc'[t] \in {"splitPut", "splitRetire"}
      BY <1>9, GotoThread DEF SplitSize, AfterPart
    <3> QED
      BY <3>1 DEF LateSize
  <2> HIDE DEF n, m
  <2> QED
    BY <1>1, <2>1, <2>2, <2>3 DEF SizeKept, Seen
<1>10. CASE SplitRetire(t)
  <2> DEFINE g == loc[t].head
  <2>1. g \in Heads /\ Seen(g)
    BY <1>2, <1>10 DEF SplitRetire, Knows, HasHead, Splitting
  <2>2. posting' = posting /\ 0 <= Len(posting[h])
    BY <1>1, <1>10 DEF SplitRetire
  <2>3. \/ headState' = headState /\ size' = size
        \/ headState' = [headState EXCEPT ![g] = "deleted"] /\ size' = [size EXCEPT ![g] = 0]
    BY <1>10 DEF SplitRetire
  <2> HIDE DEF g
  <2> QED
    BY <1>1, <2>1, <2>2, <2>3 DEF SizeKept, SizeRight, Seen
<1>11. CASE MergeWith(t)
  <2>1. /\ loc[t].head \in Heads /\ loc[t].prev \in Heads /\ loc[t].head # loc[t].prev
        /\ Seen(loc[t].head) /\ Seen(loc[t].prev)
    BY <1>2, <1>11, ThreadType DEF MergeWith, Knows, HasHead, InMerge, TypeInv, Shape
  <2>2. \E theirs \in LiveOf(posting[loc[t].prev]) :
        \E new \in Sublists(theirs, {i \in DOMAIN theirs : theirs[i].vid \notin VidsIn(loc[t].list)}) :
        \E w, l \in {loc[t].head, loc[t].prev} :
           /\ w # l /\ headState' = [headState EXCEPT ![l] = "deleted"]
           /\ posting' = [posting EXCEPT ![w] = loc[t].list \o new]
           /\ size' = [size EXCEPT ![w] = Len(loc[t].list \o new), ![l] = 0]
    BY <1>11, <2>1 DEF MergeWith
  <2>3. PICK theirs \in LiveOf(posting[loc[t].prev]) :
        \E new \in Sublists(theirs, {i \in DOMAIN theirs : theirs[i].vid \notin VidsIn(loc[t].list)}) :
        \E w, l \in {loc[t].head, loc[t].prev} :
           /\ w # l /\ headState' = [headState EXCEPT ![l] = "deleted"]
           /\ posting' = [posting EXCEPT ![w] = loc[t].list \o new]
           /\ size' = [size EXCEPT ![w] = Len(loc[t].list \o new), ![l] = 0]
    BY <2>2
  <2>4. PICK new \in Sublists(theirs, {i \in DOMAIN theirs : theirs[i].vid \notin VidsIn(loc[t].list)}) :
        \E w, l \in {loc[t].head, loc[t].prev} :
           /\ w # l /\ headState' = [headState EXCEPT ![l] = "deleted"]
           /\ posting' = [posting EXCEPT ![w] = loc[t].list \o new]
           /\ size' = [size EXCEPT ![w] = Len(loc[t].list \o new), ![l] = 0]
    BY <2>3
  <2>5. loc[t].list \in Seq(Copy) /\ new \in Seq(Copy)
    <3>1. theirs \in Seq(Copy)
      BY <1>1, <2>1, LiveOfType
    <3> QED
      BY <1>2, <2>4, <3>1, SublistType DEF Loc
  <2> DEFINE s == loc[t].list \o new
  <2>6. PICK w \in {loc[t].head, loc[t].prev}, l \in {loc[t].head, loc[t].prev} :
           /\ w # l /\ headState' = [headState EXCEPT ![l] = "deleted"]
           /\ posting' = [posting EXCEPT ![w] = s]
           /\ size' = [size EXCEPT ![w] = Len(s), ![l] = 0]
    BY <2>4
  <2>7. Len(s) <= Len(s) /\ 0 <= Len(posting[h])
    <3>1. s \in Seq(Copy)
      BY <2>5
    <3> QED
      BY <1>1, <3>1
  <2> HIDE DEF s
  <2>8. w \in Heads /\ l \in Heads /\ Seen(w) /\ Seen(l)
    BY <2>1, <2>6
  <2> QED
    BY <1>1, <2>6, <2>7, <2>8 DEF SizeKept, SizeRight, Seen
<1> QED
  BY <1>3, <1>4, <1>5, <1>6, <1>7, <1>8, <1>9, <1>10, <1>11 DEF Step, SearchFind, SearchAdd, NextReplica,
     AppendMiss, SplitAsync, SplitSync, Appended, ReassignSelect, ReassignCheck, ReassignBump,
     SplitLock, SplitErase, Collect, CollectSearch, CollectRead, MergeTry, MergeGone,
     MergeLockHead, MergeVisit, MergePartnerGone, MergeReassign, shared

LEMMA SizesStep ==
    ASSUME TypeInv, HeadsKnown, FreeSizes, [Next]_vars
    PROVE  /\ FreeSizes'
           /\ \A h \in Heads : SizeOver(h)' => SizeOver(h) \/ LateSize(h)
<1>1. CASE posting' = posting /\ size' = size /\ headState' = headState
  BY <1>1 DEF FreeSizes, SizeOver
<1>2. ASSUME NEW t \in Threads, Step(t)
      PROVE  /\ FreeSizes'
             /\ \A h \in Heads : SizeOver(h)' => SizeOver(h) \/ LateSize(h)
  <2>1. FreeSizes'
    BY <1>2, SizeStep DEF FreeSizes
  <2>2. ASSUME NEW h \in Heads, SizeOver(h)', ~LateSize(h) PROVE SizeOver(h)
    <3>1. /\ size[h] \in Nat /\ Len(posting[h]) \in Nat
          /\ size'[h] \in Nat /\ Len(posting'[h]) \in Nat
      <4>1. TypeInv'
        BY TypeStep
      <4> QED
        BY <4>1 DEF TypeInv, SharedType
    <3>2. SizeKept(h) \/ SizeRight(h) \/ SizeGrows(h)
      BY <1>2, <2>2, SizeStep
    <3> QED
      BY <2>2, <3>1, <3>2 DEF SizeOver, SizeKept, SizeRight, SizeGrows
  <2> QED
    BY <2>1, <2>2
<1> QED
  BY <1>1, <1>2 DEF Next, AddIndex, Delete, SearchRead, Take, vars, shared

(* No step but the late write of a new head's size makes a size record say  *)
(* more than the posting holds, with merging on as well.                    *)
THEOREM SizesNotOver == Spec => SizeOverOnlyLate
<1>1. Init => FreeSizes
  BY DEF Init, FreeSizes
<1>2. TypeInv /\ HeadsKnown /\ FreeSizes /\ [Next]_vars
         => FreeSizes' /\ [\A h \in Heads : SizeOver(h)' => SizeOver(h) \/ LateSize(h)]_vars
  BY SizesStep
<1> QED
  BY <1>1, <1>2, TypeInit, TypeStep, LockInit, LockStep, HeadsInit, HeadsStep,
     PTL DEF Spec, SizeOverOnlyLate

----------------------------------------------------------------------------
(* A head search always finds a head *)

(* Thread t is about to delete h, all of whose copies are elsewhere.        *)
Retires(t, h) == pc[t] \in {"splitSize", "splitRetire"} /\ loc[t].same = 0 /\ loc[t].head = h

(* There is a linked head that no split is about to delete.                 *)
HeadRemains == \E h \in Searchable : \A t \in Threads : ~Retires(t, h)

(* A reassign that goes on to write has somewhere to write to, and the jobs *)
(* of the pool are done by its workers alone.                               *)
Selected == \A t \in Threads :
    /\ pc[t] \in {"reassignCheck", "bump"} => loc[t].sel # {}
    /\ pc[t] \in Selecting => t \in Workers

(* The linked heads that stay, and what their deletion takes. *)
LEMMA RemainsStep ==
    ASSUME TypeInv, NEW t \in Threads, HeadRemains, Others(t),
           \A h \in Heads : headState[h] = "linked" /\ ~Retires(t, h) => headState'[h] = "linked",
           pc'[t] \in {"splitSize", "splitRetire"} =>
              /\ pc[t] \in {"splitSize", "splitRetire"} \/ loc[t].same # 0
              /\ loc'[t].same = loc[t].same /\ loc'[t].head = loc[t].head
    PROVE  HeadRemains'
<1>1. PICK h \in Searchable : \A u \in Threads : ~Retires(u, h)
  BY DEF HeadRemains
<1>2. h \in Heads /\ headState'[h] = "linked"
  BY <1>1 DEF Searchable
<1>3. \A u \in Threads : ~Retires(u, h)'
  BY <1>1 DEF Retires, Others
<1> QED
  BY <1>2, <1>3 DEF HeadRemains, Searchable

(* The steps that leave the heads alone and lead to no deletion. *)
LEMMA RemainsSame ==
    ASSUME TypeInv, NEW t \in Threads, HeadRemains, Others(t), headState' = headState,
           pc'[t] \notin {"splitSize", "splitRetire"}
    PROVE  HeadRemains'
BY RemainsStep

(* A new head is linked: it may take the place of the old one. *)
LEMMA SplitLinkRemains ==
    ASSUME TypeInv, HeadsKnown, NEW t \in Threads, SplitLink(t)
    PROVE  HeadRemains'
<1>1. PICK new \in Heads :
         /\ headState[new] = "added"
         /\ headState' = [headState EXCEPT ![new] = "linked"] /\ headState \in [Heads -> HeadStates]
  BY ThreadKnows, NamedHeads DEF SplitLink, Knows, TypeInv, SharedType
<1>2. Others(t) /\ loc'[t] = loc[t]
  BY GotoThread DEF SplitLink
<1>3. new \in Heads /\ headState'[new] = "linked"
  BY <1>1
<1>4. ASSUME NEW u \in Threads PROVE ~Retires(u, new)'
  <2>1. u # t => pc'[u] = pc[u]
    BY <1>2 DEF Others
  <2>2. loc'[u].head = loc[u].head
    BY <1>2 DEF Others
  <2>3. pc[u] \in {"splitLink", "splitSize", "splitRetire"} => Seen(loc[u].head)
    BY ThreadKnows DEF Knows, HasHead, Splitting
  <2>4. pc[t] = "splitLink"
    BY DEF SplitLink
  <2> QED
    BY <1>1, <2>1, <2>2, <2>3, <2>4 DEF Retires, Seen
<1> QED
  BY <1>3, <1>4 DEF HeadRemains, Searchable

(* The head that a merge keeps is searched, and nobody else has it locked.  *)
LEMMA WinnerStays ==
    ASSUME TypeInv, LockDiscipline, HeadsKnown, NEW t \in Threads, MergeWith(t),
           NEW w \in {loc[t].head, loc[t].prev}
    PROVE  /\ w \in Heads /\ headState[w] = "linked" /\ loc[t].head # loc[t].prev
           /\ \A u \in Threads \ {t} : pc[u] \in Locked => loc[u].head # w
<1>1. /\ loc[t].head \in Heads /\ headState[loc[t].head] = "linked"
      /\ loc[t].prev \in Heads /\ Seen(loc[t].prev) /\ loc[t].head # loc[t].prev
  BY ThreadKnows, ThreadType DEF MergeWith, Knows, HasHead, InMerge, TypeInv, Shape
<1>2. headState[loc[t].prev] = "linked"
  BY <1>1 DEF MergeWith, Contains, Seen
<1>3. lock[LockOf(w)] \in {None, t}
  BY NoneNoThread DEF MergeWith, PartnerFree, LockDiscipline, Locked
<1>4. ASSUME NEW u \in Threads \ {t}, pc[u] \in Locked PROVE loc[u].head # w
  BY <1>3, <1>4, NoneNoThread DEF LockDiscipline
<1> QED
  BY <1>1, <1>2, <1>4

LEMMA MergeWithRemains ==
    ASSUME TypeInv, LockDiscipline, HeadsKnown, NEW t \in Threads, MergeWith(t)
    PROVE  HeadRemains'
<1>1. PICK w \in {loc[t].head, loc[t].prev}, l \in {loc[t].head, loc[t].prev} :
         w # l /\ headState' = [headState EXCEPT ![l] = "deleted"]
  BY MergeWithEffect, WinnerStays DEF Merges
<1>2. /\ w \in Heads /\ headState[w] = "linked"
      /\ \A u \in Threads \ {t} : pc[u] \in Locked => loc[u].head # w
  BY WinnerStays
<1>3. headState'[w] = "linked"
  BY <1>1, <1>2 DEF TypeInv, SharedType
<1>4. Others(t) /\ pc'[t] = "mergeReassign"
  BY MergeWithFrame
<1>5. \A u \in Threads : ~Retires(u, w)'
  BY <1>2, <1>4 DEF Retires, Others, Locked
<1> QED
  BY <1>2, <1>3, <1>5 DEF HeadRemains, Searchable

LEMMA HeadRemainsStep ==
    ASSUME TypeInv, LockDiscipline, HeadsKnown, HeadRemains, [Next]_vars
    PROVE  HeadRemains'
<1>1. ASSUME NEW t \in Clients, NEW v \in Vids, AddIndex(t, v) PROVE HeadRemains'
  BY <1>1, AddIndexFrame, RemainsSame DEF AddIndex, Threads
<1>2. ASSUME NEW v \in Vids, Delete(v) PROVE HeadRemains'
  BY <1>2 DEF Delete, HeadRemains, Searchable, Retires
<1>3. ASSUME NEW t \in Clients, NEW h \in Heads, SearchRead(t, h) PROVE HeadRemains'
  BY <1>3, SearchReadFrame, RemainsSame DEF SearchRead, shared, Threads
<1>4. ASSUME NEW t \in Workers, Take(t) PROVE HeadRemains'
  BY <1>4, TakeFrame, RemainsSame DEF Take, Threads
<1>5. ASSUME NEW t \in Threads, Step(t) PROVE HeadRemains'
  <2>1. CASE Others(t) /\ pc'[t] \notin Cutting /\ headState' = headState
    BY <2>1, RemainsSame DEF Cutting
  <2>2. CASE SplitLock(t)
    BY <2>2, SplitLockEnds, RemainsSame DEF SplitLock, shared
  <2>3. CASE SplitPutSame(t)
    <3>1. /\ Others(t) /\ headState' = headState /\ loc'[t].same = loc[t].same
          /\ loc'[t].head = loc[t].head /\ pc[t] = "splitPut"
      BY <2>3, SplitPutSameFrame DEF SplitPutSame, PartPut, KeepsSplit
    <3>2. loc[t].same # 0
      <4>1. Len(loc[t].heads) \in {0, 1} /\ loc[t].same = Len(loc[t].heads) + 1
        BY <2>3, ThreadType DEF SplitPutSame, TypeInv, Shape, Loc
      <4> QED
        BY <4>1
    <3> QED
      BY <3>1, <3>2, RemainsStep
  <2>4. CASE SplitPutNew(t)
    <3>1. headState[NewHead] = "free"
      BY <2>4, NewHeadType DEF SplitPutNew, FreeHeads
    <3> DEFINE new == NewHead
    <3>2. headState' = [headState EXCEPT ![new] = "added"] /\ headState \in [Heads -> HeadStates]
      BY <2>4 DEF SplitPutNew, TypeInv, SharedType
    <3>3. Others(t) /\ pc'[t] = "splitLink" /\ headState[new] = "free"
      BY <2>4, <3>1, SplitPutNewFrame
    <3> HIDE DEF new
    <3> QED
      BY <3>2, <3>3, RemainsStep
  <2>5. CASE SplitLink(t)
    BY <2>5, SplitLinkRemains
  <2>6. CASE SplitSize(t)
    BY <2>6, GotoThread, RemainsStep DEF SplitSize
  <2>7. CASE SplitRetire(t)
    <3>1. Others(t) /\ pc[t] = "splitRetire" /\ pc'[t] = "splitErase"
      BY <2>7, GotoThread DEF SplitRetire
    <3>2. \A h \in Heads : headState[h] = "linked" /\ ~Retires(t, h) => headState'[h] = "linked"
      <4>1. headState \in [Heads -> HeadStates]
        BY DEF TypeInv, SharedType
      <4> QED
        BY <2>7, <3>1, <4>1 DEF SplitRetire, Retires
    <3> QED
      BY <3>1, <3>2, RemainsStep
  <2>8. CASE MergeWith(t)
    BY <2>8, MergeWithRemains
  <2> QED
    BY <1>5, <2>1, <2>2, <2>3, <2>4, <2>5, <2>6, <2>7, <2>8, OnlySplitsCut
       DEF Step, SearchFind, SearchAdd, NextReplica, AppendMiss, AppendMerge, SplitAsync, SplitSync,
           Appended, ReassignSelect, ReassignCheck, ReassignBump, SplitBack, SplitErase, Collect,
           CollectSearch, CollectRead, MergeTry, MergeGone, MergeLockHead, MergeVisit,
           MergePartnerGone, MergeReassign, MergeBack, shared
<1>6. CASE UNCHANGED vars
  BY <1>6 DEF vars, shared, HeadRemains, Searchable, Retires
<1> QED
  BY <1>1, <1>2, <1>3, <1>4, <1>5, <1>6 DEF Next

LEMMA HeadRemainsInit == Init => HeadRemains
<1> SUFFICES ASSUME Init PROVE HeadRemains
  OBVIOUS
<1>1. Len(InitPosting) \in Nat /\ Len(InitPosting) > 0 /\ HeadCapacity \in Nat
      /\ Len(InitPosting) <= HeadCapacity
  BY LireAssumption
<1>2. 1 \in Heads /\ headState[1] = "linked"
  BY <1>1 DEF Heads, Init
<1>3. \A t \in Threads : ~Retires(t, 1)
  BY DEF Init, Retires
<1> QED
  BY <1>2, <1>3 DEF HeadRemains, Searchable

LEMMA SelectionNotEmpty ==
    ASSUME HeadRemains, NEW S \in RNGSelections
    PROVE  S # {}
BY DEF HeadRemains, RNGSelections

LEMMA SelectedStep ==
    ASSUME TypeInv, HeadRemains, Selected, [Next]_vars
    PROVE  Selected'
<1> USE DEF Selected, Selecting
<1>1. ASSUME NEW t \in Threads, Others(t), pc'[t] \notin Selecting PROVE Selected'
  BY <1>1 DEF Others
<1>2. ASSUME NEW t \in Clients, NEW v \in Vids, AddIndex(t, v) PROVE Selected'
  BY <1>1, <1>2, AddIndexFrame DEF Threads
<1>3. ASSUME NEW v \in Vids, Delete(v) PROVE Selected'
  BY <1>3 DEF Delete
<1>4. ASSUME NEW t \in Clients, NEW h \in Heads, SearchRead(t, h) PROVE Selected'
  BY <1>1, <1>4, SearchReadFrame DEF Threads
<1>5. ASSUME NEW t \in Workers, Take(t) PROVE Selected'
  <2>1. t \in Threads /\ Others(t) /\ pc'[t] \notin {"reassignCheck", "bump"}
    BY <1>5, TakeFrame DEF Threads
  <2> QED
    BY <2>1 DEF Others
<1>6. ASSUME NEW t \in Threads, Step(t) PROVE Selected'
  <2>1. CASE ReassignSelect(t)
    <3>1. pc[t] = "reassign"
      BY <2>1 DEF ReassignSelect
    <3>2. Others(t) /\ (pc'[t] = "idle" \/ (pc'[t] = "reassignCheck" /\ loc'[t].sel # {}))
      BY <2>1, ReassignSelectFrame, SelectionNotEmpty
    <3> QED
      BY <3>1, <3>2 DEF Others
  <2>2. CASE ReassignCheck(t)
    <3>1. pc[t] = "reassignCheck" /\ Others(t)
          /\ (pc'[t] = "idle" \/ (pc'[t] = "bump" /\ loc'[t] = loc[t]))
      BY <2>2, ReassignCheckFrame DEF ReassignCheck
    <3> QED
      BY <3>1 DEF Others
  <2>3. CASE SplitLock(t)
    BY <1>1, <2>3, SplitLockEnds
  <2>4. CASE SplitPutSame(t) \/ SplitPutNew(t)
    BY <1>1, <2>4, SplitPutSameFrame, SplitPutNewFrame DEF AfterPart
  <2>5. CASE SplitLink(t) \/ SplitSize(t) \/ SplitRetire(t)
    BY <1>1, <2>5, GotoThread DEF SplitLink, SplitSize, SplitRetire, AfterPart
  <2>6. CASE SearchFind(t) \/ NextReplica(t) \/ AppendMiss(t)
    BY <1>1, <2>6, SearchFindFrame, NextReplicaFrame, AppendMissFrame DEF GoesOn
  <2>7. CASE SearchAdd(t) \/ MergeGone(t) \/ MergeReassign(t) \/ MergeBack(t)
    BY <1>1, <2>7, DoneFrame DEF SearchAdd, MergeGone, MergeReassign, MergeBack
  <2>8. CASE AppendMerge(t) \/ MergePartnerGone(t)
    BY <1>1, <2>8, GotoThread DEF AppendMerge, MergePartnerGone
  <2>9. CASE SplitAsync(t) \/ Appended(t)
    BY <1>1, <2>9, GoesOnFrame DEF SplitAsync, Appended, GoesOn
  <2>10. CASE SplitSync(t) \/ ReassignBump(t)
    BY <1>1, <2>10, SplitSyncFrame, ReassignBumpFrame
  <2>11. CASE SplitBack(t) \/ SplitErase(t) \/ Collect(t)
    BY <1>1, <2>11, SplitDoneFrame, SplitEraseFrame, CollectFrame DEF SplitBack, Resumes
  <2>12. CASE CollectSearch(t) \/ CollectRead(t)
    BY <1>1, <2>12, CollectSearchFrame, CollectReadFrame
  <2>13. CASE MergeTry(t) \/ MergeLockHead(t)
    BY <1>1, <2>13, MergeTryFrame, MergeLockHeadFrame
  <2>14. CASE MergeVisit(t) \/ MergeWith(t)
    BY <1>1, <2>14, MergeVisitEnds, MergeWithFrame
  <2> QED
    BY <1>6, <2>1, <2>2, <2>3, <2>4, <2>5, <2>6, <2>7, <2>8, <2>9, <2>10, <2>11, <2>12, <2>13,
       <2>14 DEF Step
<1>7. CASE UNCHANGED vars
  BY <1>7 DEF vars
<1> QED
  BY <1>2, <1>3, <1>4, <1>5, <1>6, <1>7 DEF Next

(* A search always finds a head: the splits and merges that delete heads    *)
(* leave a linked one, however they interleave, so that an insertion or a   *)
(* reassign never finds itself with nowhere to write its vector to.         *)
THEOREM HeadsRemain == Spec => [](Searchable # {})
<1>1. Init => TypeInv /\ LockDiscipline /\ HeadsKnown /\ HeadRemains
  BY TypeInit, LockInit, HeadsInit, HeadRemainsInit
<1>2. TypeInv /\ LockDiscipline /\ HeadsKnown /\ HeadRemains /\ [Next]_vars
      => TypeInv' /\ LockDiscipline' /\ HeadsKnown' /\ HeadRemains'
  BY TypeStep, LockStep, HeadsStep, HeadRemainsStep
<1>3. HeadRemains => Searchable # {}
  BY DEF HeadRemains
<1> QED
  BY <1>1, <1>2, <1>3, PTL DEF Spec

----------------------------------------------------------------------------
(* The copies a scan of a posting picks out *)

(* A sublist has a copy at each of the positions it is taken from. *)
LEMMA SublistCopies ==
    ASSUME NEW s \in Seq(Copy), NEW I \in SUBSET (DOMAIN s), NEW r \in Sublists(s, I),
           NEW i \in I
    PROVE  s[i] \in CopiesIn(r)
<1> DEFINE n == Cardinality(I)
<1>1. DOMAIN s = 1..Len(s) /\ Len(s) \in Nat
  OBVIOUS
<1>2. IsFiniteSet(I) /\ n \in Nat
  <2> DEFINE m == Len(s)
  <2>1. m \in Nat
    BY <1>1
  <2> HIDE DEF m
  <2>2. IsFiniteSet(1..m)
    BY <2>1, FS_Interval
  <2>3. I \subseteq 1..m
    BY <1>1 DEF m
  <2> QED
    BY <2>2, <2>3, FS_Subset, FS_CardinalityType
<1>3. PICK f \in [1..n -> I] :
         /\ \A j, k \in 1..n : j < k => f[j] < f[k]
         /\ r = [j \in 1..n |-> s[f[j]]]
  <2>1. PICK f \in {g \in [1..n -> I] : \A j, k \in DOMAIN g : j < k => g[j] < g[k]} :
           r = [j \in 1..n |-> s[f[j]]]
    BY DEF Sublists
  <2>2. f \in [1..n -> I] /\ DOMAIN f = 1..n
    BY <2>1
  <2> QED
    BY <2>1, <2>2
<1> HIDE DEF n
<1>4. f \in Injection(1..n, I)
  <2>1. \A j, k \in 1..n : j # k => f[j] # f[k]
    <3> SUFFICES ASSUME NEW j \in 1..n, NEW k \in 1..n, j # k PROVE f[j] # f[k]
      OBVIOUS
    <3>1. f[j] \in Int /\ f[k] \in Int
      BY <1>1, <1>3
    <3>2. j < k \/ k < j
      BY <1>2
    <3> QED
      BY <1>3, <3>1, <3>2
  <2> QED
    BY <1>3, <2>1 DEF Injection, IsInjective
<1>5. f \in Surjection(1..n, I)
  <2>1. Cardinality(1..n) = n
    BY <1>2, FS_Interval
  <2> QED
    BY <1>2, <1>4, <2>1, FS_Injection DEF n
<1>6. PICK j \in 1..n : f[j] = i
  BY <1>5 DEF Surjection
<1>7. DOMAIN r = 1..n /\ r[j] = s[i]
  BY <1>3, <1>6
<1> QED
  BY <1>6, <1>7 DEF CopiesIn

(* The current copies of a posting are picked out, each of them. *)
LEMMA LiveOfCopies ==
    ASSUME NEW s \in Seq(Copy), NEW r \in LiveOf(s), NEW c \in CopiesIn(s), Live(c)
    PROVE  c \in CopiesIn(r)
<1>1. PICK i \in DOMAIN s : s[i] = c
  BY DEF CopiesIn
<1>2. i \in LivePos(s) /\ LivePos(s) \in SUBSET (DOMAIN s)
  BY <1>1 DEF LivePos
<1> QED
  BY <1>1, <1>2, SublistCopies DEF LiveOf

(* ... and only those. *)
LEMMA LiveOfLive ==
    ASSUME NEW s \in Seq(Copy), NEW r \in LiveOf(s), NEW c \in CopiesIn(r)
    PROVE  c \in CopiesIn(s) /\ Live(c)
<1> DEFINE n == Cardinality(LivePos(s))
<1>1. PICK f \in [1..n -> LivePos(s)] : r = [j \in 1..n |-> s[f[j]]]
  BY DEF LiveOf, Sublists
<1>2. PICK j \in 1..n : c = s[f[j]]
  BY <1>1 DEF CopiesIn
<1>3. f[j] \in LivePos(s)
  BY <1>1, <1>2
<1> QED
  BY <1>2, <1>3 DEF LivePos, CopiesIn

(* The two clusters of a list have all its copies. *)
LEMMA ClusterCopies ==
    ASSUME NEW s \in Seq(Copy), NEW parts \in Clusterings(s), NEW c \in CopiesIn(s)
    PROVE  \E k \in 1..2 : c \in CopiesIn(parts[k])
<1>1. PICK I \in SUBSET (DOMAIN s) \ {{}, DOMAIN s} :
         parts \in Sublists(s, I) \X Sublists(s, (DOMAIN s) \ I)
  BY DEF Clusterings
<1>2. PICK i \in DOMAIN s : s[i] = c
  BY DEF CopiesIn
<1>3. CASE i \in I
  <2>1. c \in CopiesIn(parts[1])
    BY <1>1, <1>2, <1>3, SublistCopies
  <2> QED
    BY <2>1
<1>4. CASE i \notin I
  <2> DEFINE J == (DOMAIN s) \ I
  <2>1. J \in SUBSET (DOMAIN s) /\ i \in J /\ parts[2] \in Sublists(s, J)
    BY <1>1, <1>2, <1>4
  <2> HIDE DEF J
  <2>2. c \in CopiesIn(parts[2])
    BY <1>2, <2>1, SublistCopies
  <2> QED
    BY <2>2
<1> QED
  BY <1>3, <1>4

(* A list of current copies that are all the one point of a vector that is  *)
(* not among the twins has just one copy.                                   *)
LEMMA OnePointOneCopy ==
    ASSUME TypeInv, NEW s \in Seq(Copy), NEW list \in LiveOf(s),
           Cardinality({Point(v) : v \in VidsIn(list)}) = 1,
           NEW c \in CopiesIn(list), c.vid \notin Twins, NEW d \in CopiesIn(list)
    PROVE  d = c
<1>1. Live(c) /\ Live(d) /\ c \in Copy /\ d \in Copy
  <2>1. c \in CopiesIn(s) /\ d \in CopiesIn(s) /\ Live(c) /\ Live(d)
    BY LiveOfLive
  <2> QED
    BY <2>1 DEF CopiesIn
<1>2. c.vid \in VidsIn(list) /\ d.vid \in VidsIn(list)
  BY DEF CopiesIn, VidsIn
<1> DEFINE P == {Point(v) : v \in VidsIn(list)}
<1>3. Point(c.vid) \in P /\ Point(d.vid) \in P
  BY <1>2
<1>4. Cardinality(P) = 1
  OBVIOUS
<1>5. IsFiniteSet(P)
  <2>1. list \in Seq(Copy)
    BY LiveOfType
  <2> DEFINE m == Len(list)
             g == [i \in 1..m |-> Point(list[i].vid)]
  <2>2. m \in Nat /\ DOMAIN list = 1..m
    BY <2>1
  <2>3. g \in Surjection(1..m, P)
    <3>1. \A i \in 1..m : g[i] \in P
      BY <2>2 DEF VidsIn
    <3>2. \A p \in P : \E i \in 1..m : g[i] = p
      BY <2>2 DEF VidsIn
    <3> HIDE DEF P
    <3>3. g \in [1..m -> P]
      BY <3>1
    <3> QED
      BY <3>2, <3>3 DEF Surjection
  <2>4. IsFiniteSet(1..m)
    <3> HIDE DEF m
    <3> QED
      BY <2>2, FS_Interval
  <2> HIDE DEF P, g, m
  <2> QED
    BY <2>3, <2>4, FS_Surjection
<1> HIDE DEF P
<1>6. PICK x : P = {x}
  BY <1>4, <1>5, FS_Singleton
<1>7. Point(c.vid) = Point(d.vid)
  BY <1>3, <1>6
<1>8. c.vid = d.vid
  <2>1. Point(c.vid) = {c.vid}
    BY DEF Point
  <2>2. d.vid \in Point(d.vid)
    BY DEF Point
  <2> QED
    BY <1>7, <2>1, <2>2
<1> QED
  BY <1>1, <1>8 DEF Live, Copy

----------------------------------------------------------------------------
(* Where the current copy of a vector is, for sure *)

Gone(h) == h \in Heads /\ headState[h] = "deleted"

(* Thread t is going to overwrite the posting of its head, or to delete the *)
(* head, and what it puts in its place does not have c.                     *)
Overwrites(t, c) ==
    \/ /\ pc[t] \in {"splitBack", "mergeVisit", "mergeWith", "mergeBack"}
       /\ c \notin CopiesIn(loc[t].list)
    \/ /\ pc[t] \in {"splitPut", "splitLink", "splitSize", "splitRetire"}
       /\ ~(loc[t].same \in 1..Len(loc[t].heads))

(* c is in a posting that is searched, and nobody is about to take it out.  *)
RestsAt(c, h) ==
    /\ h \in Searchable
    /\ c \in CopiesIn(posting[h])
    /\ \A t \in Threads : loc[t].head = h => ~Overwrites(t, c)

(* Thread t is going to append c, or a newer copy, somewhere; a reassign    *)
(* that has not selected its heads yet gives up if the head it comes from   *)
(* is among them, so it counts only if that head is deleted.                *)
Carries(t, c) ==
    /\ loc[t].copy = c
    /\ \/ pc[t] = "next" /\ loc[t].sel # {}
       \/ pc[t] \in {"append", "reassignCheck", "bump"}
       \/ pc[t] = "reassign" /\ Gone(loc[t].prev)

(* c is in a cluster whose posting a split has yet to write; the one of the *)
(* old head counts only if that is searched.                                *)
Cuts(t, c) ==
    \E k \in Unlinked(t) :
        /\ c \in CopiesIn(loc[t].parts[k])
        /\ k = loc[t].same => headState[loc[t].head] = "linked"

Queued(c) ==
    \E i \in DOMAIN queue :
        queue[i].type = "reassign" /\ queue[i].copy = c /\ Gone(queue[i].prev)

Safe(c) ==
    \/ \E h \in Heads : RestsAt(c, h)
    \/ \E t \in Threads : Carries(t, c) \/ Cuts(t, c)
    \/ Queued(c)

(* Every copy the property is about is. *)
Matters(c) == c.vid \in added \ (Twins \cup dropped) /\ Live(c)

Tracked == \A c \in Copy : Matters(c) => Safe(c)

(* The posting of a new head is there before the head is linked. *)
Placed ==
    \A t \in Threads : pc[t] = "splitLink" =>
        CopiesIn(loc[t].parts[Len(loc[t].heads)]) \subseteq CopiesIn(posting[LastHead(loc[t])])

----------------------------------------------------------------------------
(* What a step does to the others *)

LEMMA StepOthers ==
    ASSUME TypeInv, NEW t \in Threads, Step(t)
    PROVE  Others(t)
<1>1. CASE SplitLock(t)
  BY <1>1, SplitLockEnds
<1>2. CASE SplitPutSame(t) \/ SplitPutNew(t)
  BY <1>2, SplitPutSameFrame, SplitPutNewFrame
<1>3. CASE SplitLink(t) \/ SplitSize(t) \/ SplitRetire(t)
  BY <1>3, GotoThread DEF SplitLink, SplitSize, SplitRetire
<1> QED
  BY <1>1, <1>2, <1>3, OnlySplitsCut DEF Step

LEMMA StepJobs ==
    ASSUME TypeInv, HeadsKnown, NEW t \in Threads, Step(t)
    PROVE  JobsKept
<1>1. queue \in Seq(Job)
  BY DEF TypeInv, SharedType
<1>2. CASE queue' = queue
  BY <1>2, SameQueue
<1>3. CASE SearchAdd(t)
  <2>1. loc[t].head \in Heads /\ (~DisableReassign) \in BOOLEAN
    BY <1>3, ThreadKnows, LireAssumption DEF SearchAdd, Knows, HasHead
  <2>2. MergeJob(loc[t].head, ~DisableReassign) \in Job
    BY <2>1, JobType
  <2> QED
    BY <1>1, <1>3, <2>2, AppendedJob DEF SearchAdd
<1>4. CASE AppendMiss(t)
  <2>1. loc[t].head \in Heads /\ loc[t].copy \in Copy
    BY <1>4, ThreadType DEF AppendMiss, Shape, HasHead, Appending, TypeInv
  <2>2. ReassignJob(loc[t].copy, loc[t].head) \in Job
    BY <2>1, JobType
  <2> QED
    BY <1>1, <1>2, <1>4, <2>2, AppendedJob DEF AppendMiss
<1>5. CASE SplitAsync(t)
  <2>1. loc[t].head \in Heads
    BY <1>5, ThreadKnows DEF SplitAsync, Knows, HasHead
  <2>2. SplitJob(loc[t].head) \in Job
    BY <2>1, JobType
  <2> QED
    BY <1>1, <1>2, <1>5, <2>2, AppendedJob DEF SplitAsync
<1>6. CASE MergeTry(t)
  <2>1. loc[t].head \in Heads /\ loc[t].reassign \in BOOLEAN
    BY <1>6, ThreadKnows, ThreadType DEF MergeTry, Knows, HasHead, TypeInv, Loc
  <2>2. MergeJob(loc[t].head, ~loc[t].reassign) \in Job
    BY <2>1, JobType
  <2> QED
    BY <1>1, <1>2, <1>6, <2>2, AppendedJob, MergeTryFrame
<1> QED
  BY <1>2, <1>3, <1>4, <1>5, <1>6, CollectQueue, MergeReassignQueue
     DEF Step, SearchFind, NextReplica, AppendMerge, SplitSync, Appended, ReassignSelect,
         ReassignCheck, ReassignBump, SplitLock, SplitBack, SplitPutSame, SplitPutNew, SplitLink,
         SplitSize, SplitRetire, SplitErase, CollectSearch, CollectRead, MergeGone,
         MergeLockHead, MergeVisit, MergePartnerGone, MergeWith, MergeBack, shared

(* Nobody deletes the head that another thread has locked. *)
LEMMA HeldHeads ==
    ASSUME TypeInv, LockDiscipline, HeadsKnown, NEW t \in Threads, Step(t),
           NEW u \in Threads \ {t}, pc[u] \in Locked, headState[loc[u].head] = "linked"
    PROVE  headState'[loc[u].head] = "linked"
<1>1. PICK h \in Heads : h = loc[u].head /\ headState[h] = "linked"
  BY ThreadKnows DEF Knows, HasHead, Locked, Splitting, InMerge
<1>2. headState \in [Heads -> HeadStates]
  BY DEF TypeInv, SharedType
<1>3. pc[t] \in Locked => loc[t].head # h
  BY <1>1, OneHolder
<1>4. ASSUME NEW w \in {loc[t].head, loc[t].prev}, MergeWith(t) PROVE w # h
  BY <1>1, <1>4, WinnerStays
<1>5. headState'[h] = "linked"
  <2>1. CASE headState' = headState
    BY <1>1, <2>1
  <2>2. CASE SplitPutNew(t)
    <3>1. headState[NewHead] = "free"
      BY <2>2, NewHeadType DEF SplitPutNew, FreeHeads
    <3> DEFINE new == NewHead
    <3>2. headState' = [headState EXCEPT ![new] = "added"]
      BY <2>2 DEF SplitPutNew
    <3>3. new # h
      BY <1>1, <3>1
    <3> HIDE DEF new
    <3> QED
      BY <1>1, <1>2, <3>2, <3>3
  <2>3. CASE SplitLink(t)
    <3> DEFINE new == LastHead(loc[t])
    <3>1. headState' = [headState EXCEPT ![new] = "linked"]
      BY <2>3 DEF SplitLink
    <3> HIDE DEF new
    <3> QED
      BY <1>1, <1>2, <3>1
  <2>4. CASE SplitRetire(t)
    BY <1>1, <1>2, <1>3, <2>4 DEF SplitRetire, Locked
  <2>5. CASE MergeWith(t)
    <3>1. PICK l \in {loc[t].head, loc[t].prev} : headState' = [headState EXCEPT ![l] = "deleted"]
      BY <2>5, MergeWithEffect DEF Merges
    <3> QED
      BY <1>1, <1>2, <1>4, <2>5, <3>1
  <2> QED
    BY <2>1, <2>2, <2>3, <2>4, <2>5 DEF Step, SearchFind, SearchAdd, NextReplica, AppendMiss,
       AppendMerge, SplitAsync, SplitSync, Appended, ReassignSelect, ReassignCheck, ReassignBump,
       SplitLock, SplitBack, SplitPutSame, SplitSize, SplitErase, Collect, CollectSearch,
       CollectRead, MergeTry, MergeGone, MergeLockHead, MergeVisit, MergePartnerGone,
       MergeReassign, MergeBack, shared
<1> QED
  BY <1>1, <1>5

(* What the other threads carry stays with them, and so do the jobs. *)
LEMMA OthersCarry ==
    ASSUME TypeInv, LockDiscipline, HeadsKnown, NEW t \in Threads, Others(t), DeletedStays,
           \A u \in Threads \ {t} :
              pc[u] \in Locked /\ headState[loc[u].head] = "linked"
                 => headState'[loc[u].head] = "linked",
           NEW c \in Copy, NEW u \in Threads \ {t}
    PROVE  (Carries(u, c) => Carries(u, c)') /\ (Cuts(u, c) => Cuts(u, c)')
<1>1. pc'[u] = pc[u] /\ loc'[u] = loc[u]
  BY DEF Others
<1>2. Gone(loc[u].prev) => Gone(loc[u].prev)'
  BY <1>1 DEF Gone, DeletedStays
<1>3. Carries(u, c) => Carries(u, c)'
  BY <1>1, <1>2 DEF Carries
<1>4. Unlinked(u)' = Unlinked(u)
  BY <1>1 DEF Unlinked
<1>5. Unlinked(u) # {} => pc[u] \in Locked
  BY DEF Unlinked, Locked
<1>6. Cuts(u, c) => Cuts(u, c)'
  <2> SUFFICES ASSUME NEW k \in Unlinked(u), c \in CopiesIn(loc[u].parts[k]),
                      k = loc[u].same => headState[loc[u].head] = "linked"
               PROVE  Cuts(u, c)'
    BY DEF Cuts
  <2>1. k = loc'[u].same => headState'[loc'[u].head] = "linked"
    BY <1>1, <1>5
  <2>2. c \in CopiesIn(loc[u].parts[k])'
    BY <1>1 DEF CopiesIn
  <2> QED
    BY <1>4, <2>1, <2>2 DEF Cuts
<1> QED
  BY <1>3, <1>6

LEMMA QueuedStays ==
    ASSUME TypeInv, JobsKept, DeletedStays, NEW c \in Copy, Queued(c)
    PROVE  Queued(c)'
<1>1. PICK i \in DOMAIN queue :
         queue[i].type = "reassign" /\ queue[i].copy = c /\ Gone(queue[i].prev)
  BY DEF Queued
<1>2. PICK j \in DOMAIN queue' : queue'[j] = queue[i]
  BY <1>1 DEF JobsKept
<1>3. PICK g \in Heads : g = queue[i].prev /\ headState'[g] = "deleted"
  BY <1>1 DEF Gone, DeletedStays
<1>4. queue'[j].type = "reassign" /\ queue'[j].copy = c /\ queue'[j].prev = g
  BY <1>1, <1>2, <1>3
<1> QED
  BY <1>3, <1>4 DEF Queued, Gone

(* A step that leaves its traces in order: what rests goes on resting or is *)
(* safe anyway, and what its thread carried or had cut is safe.             *)
LEMMA Settle ==
    ASSUME TypeInv, LockDiscipline, HeadsKnown, NEW t \in Threads, Step(t),
           NEW c \in Copy, Safe(c),
           \A h \in Heads : RestsAt(c, h) => Safe(c)',
           Carries(t, c) => Safe(c)', Cuts(t, c) => Safe(c)'
    PROVE  Safe(c)'
<1>1. Others(t) /\ DeletedStays /\ JobsKept
  BY StepOthers, DeletedForGood, StepJobs
<1>2. \A u \in Threads \ {t} :
         pc[u] \in Locked /\ headState[loc[u].head] = "linked" => headState'[loc[u].head] = "linked"
  BY HeldHeads
<1>3. CASE Queued(c)
  <2>1. Queued(c)'
    BY <1>1, <1>3, QueuedStays
  <2> QED
    BY <2>1 DEF Safe
<1>4. ASSUME NEW u \in Threads, Carries(u, c) \/ Cuts(u, c) PROVE Safe(c)'
  <2>1. CASE u = t
    BY <1>4, <2>1
  <2>2. CASE u # t
    <3>1. Carries(u, c)' \/ Cuts(u, c)'
      BY <1>1, <1>2, <1>4, <2>2, OthersCarry
    <3> QED
      BY <3>1 DEF Safe
  <2> QED
    BY <2>1, <2>2
<1> QED
  BY <1>3, <1>4 DEF Safe

(* A copy goes on resting where it is. *)
LEMMA RestKept ==
    ASSUME NEW t \in Threads, Others(t), NEW c \in Copy, NEW h \in Heads,
           headState'[h] = "linked", c \in CopiesIn(posting'[h]),
           \A u \in Threads \ {t} : loc[u].head = h => ~Overwrites(u, c),
           loc'[t].head = h => ~Overwrites(t, c)'
    PROVE  RestsAt(c, h)' /\ Safe(c)'
<1>1. ASSUME NEW u \in Threads, loc'[u].head = h PROVE ~Overwrites(u, c)'
  <2>1. CASE u = t
    BY <1>1, <2>1
  <2>2. CASE u # t
    <3>1. pc'[u] = pc[u] /\ loc'[u] = loc[u] /\ ~Overwrites(u, c)
      BY <1>1, <2>2 DEF Others
    <3>2. (c \notin CopiesIn(loc[u].list))' <=> c \notin CopiesIn(loc[u].list)
      BY <3>1 DEF CopiesIn
    <3> QED
      BY <3>1, <3>2 DEF Overwrites
  <2> QED
    BY <2>1, <2>2
<1>2. (h \in Searchable)'
  BY DEF Searchable
<1>3. (c \in CopiesIn(posting[h]))'
  BY DEF CopiesIn
<1>4. RestsAt(c, h)'
  BY <1>1, <1>2, <1>3 DEF RestsAt
<1> QED
  BY <1>4 DEF Safe

(* A thread outside the critical sections overwrites nothing. *)
LEMMA NotLocked ==
    ASSUME NEW t, NEW c, pc[t] \notin Locked
    PROVE  ~Overwrites(t, c)
BY DEF Overwrites, Locked

(* What a copy that rests tells of the state. *)
LEMMA Resting ==
    ASSUME NEW c, NEW h \in Heads, RestsAt(c, h)
    PROVE  /\ headState[h] = "linked" /\ c \in CopiesIn(posting[h])
           /\ \A t \in Threads : loc[t].head = h => ~Overwrites(t, c)
BY DEF RestsAt, Searchable

(* The steps that leave the postings and the heads alone and end outside    *)
(* the critical sections: only what their thread carries is at stake.       *)
LEMMA QuietStep ==
    ASSUME TypeInv, LockDiscipline, HeadsKnown, NEW t \in Threads, Step(t),
           headState' = headState, posting' = posting,
           pc[t] \notin {"splitPut", "splitLink", "splitSize"}, pc'[t] \notin Locked,
           NEW c \in Copy, Safe(c), Carries(t, c) => Safe(c)'
    PROVE  Safe(c)'
<1>1. ~Cuts(t, c)
  BY DEF Cuts, Unlinked
<1>2. ASSUME NEW h \in Heads, RestsAt(c, h) PROVE Safe(c)'
  <2>1. ~Overwrites(t, c)'
    BY DEF Overwrites, Locked
  <2> QED
    BY <1>2, <2>1, Resting, StepOthers, RestKept
<1> QED
  BY <1>1, <1>2, Settle

----------------------------------------------------------------------------
(* The steps, one by one: a safe copy stays safe *)

(* The steps whose thread carries nothing. *)
LEMMA PlainSafe ==
    ASSUME TypeInv, LockDiscipline, HeadsKnown, NEW t \in Threads, Step(t),
           \/ SearchFind(t) \/ SearchAdd(t) \/ SplitAsync(t) \/ Appended(t) \/ SplitSync(t)
           \/ SplitErase(t) \/ Collect(t) \/ CollectSearch(t) \/ CollectRead(t)
           \/ MergeTry(t) \/ MergeGone(t) \/ MergeReassign(t),
           NEW c \in Copy, Safe(c)
    PROVE  Safe(c)'
<1>1. headState' = headState /\ posting' = posting
  BY DEF SearchFind, SearchAdd, SplitAsync, Appended, SplitSync, SplitErase, Collect,
         CollectSearch, CollectRead, MergeTry, MergeGone, MergeReassign, shared
<1>2. /\ ~Carries(t, c)
      /\ pc[t] \notin {"splitPut", "splitLink", "splitSize"}
  BY DEF SearchFind, SearchAdd, SplitAsync, Appended, SplitSync, SplitErase, Collect,
         CollectSearch, CollectRead, MergeTry, MergeGone, MergeReassign, Carries
<1>3. pc'[t] \notin Locked
  <2> USE DEF Locked
  <2>1. CASE SearchFind(t) \/ CollectSearch(t) \/ CollectRead(t) \/ SplitSync(t)
    BY <2>1, SearchFindFrame, CollectSearchFrame, CollectReadFrame, SplitSyncFrame
  <2>2. CASE SearchAdd(t) \/ MergeGone(t) \/ MergeReassign(t)
    BY <2>2, DoneFrame DEF SearchAdd, MergeGone, MergeReassign
  <2>3. CASE SplitAsync(t) \/ Appended(t)
    BY <2>3, GoesOnFrame DEF SplitAsync, Appended, GoesOn
  <2>4. CASE SplitErase(t) \/ Collect(t)
    BY <2>4, SplitEraseFrame, CollectFrame DEF Resumes
  <2>5. CASE MergeTry(t)
    BY <2>5, MergeTryFrame
  <2> QED
    BY <2>1, <2>2, <2>3, <2>4, <2>5
<1> QED
  BY <1>1, <1>2, <1>3, QuietStep

LEMMA CarriedOn ==
    ASSUME NEW t \in Threads, NEW c, Carries(t, c)'
    PROVE  Safe(c)'
BY DEF Safe

LEMMA NextReplicaSafe ==
    ASSUME TypeInv, LockDiscipline, HeadsKnown, NEW t \in Threads, Step(t), NextReplica(t),
           NEW c \in Copy, Live(c), Safe(c)
    PROVE  Safe(c)'
<1>1. headState' = headState /\ posting' = posting /\ pc[t] = "next"
  BY DEF NextReplica, shared
<1>2. pc'[t] \notin Locked
  BY NextReplicaFrame DEF Locked
<1>3. ASSUME Carries(t, c) PROVE Safe(c)'
  <2>1. pc'[t] = "append" /\ loc'[t].copy = c
    BY <1>1, <1>3, NextReplicaFrame DEF Carries, Live, KeepsCall
  <2> QED
    BY <2>1, CarriedOn DEF Carries
<1> QED
  BY <1>1, <1>2, <1>3, QuietStep

(* A missed head is deleted for good: the job that is added for the copy    *)
(* will select heads without it.                                            *)
LEMMA AppendMissSafe ==
    ASSUME TypeInv, LockDiscipline, HeadsKnown, NEW t \in Threads, Step(t), AppendMiss(t),
           NEW c \in Copy, Live(c), Safe(c)
    PROVE  Safe(c)'
<1>1. headState' = headState /\ posting' = posting /\ pc[t] = "append"
  BY DEF AppendMiss
<1>2. pc'[t] \notin Locked
  BY AppendMissFrame DEF Locked, GoesOn
<1>3. ASSUME Carries(t, c) PROVE Safe(c)'
  <2>1. PICK h \in Heads : h = loc[t].head /\ headState[h] = "deleted"
    BY <1>1, ThreadKnows DEF AppendMiss, Knows, HasHead, Seen, Contains
  <2>2. queue' = Append(queue, ReassignJob(c, h))
    BY <1>3, <2>1 DEF AppendMiss, Carries, Live
  <2>3. ReassignJob(c, h) \in Job /\ queue \in Seq(Job)
    BY JobType DEF TypeInv, SharedType
  <2>4. PICK i \in DOMAIN queue' : queue'[i] = ReassignJob(c, h)
    BY <2>2, <2>3, AppendedJob
  <2>5. queue'[i].type = "reassign" /\ queue'[i].copy = c /\ queue'[i].prev = h
    BY <2>4 DEF ReassignJob
  <2>6. Queued(c)'
    BY <1>1, <2>1, <2>5 DEF Queued, Gone
  <2> QED
    BY <2>6 DEF Safe
<1> QED
  BY <1>1, <1>2, <1>3, QuietStep

(* Under the lock of the head nobody else has its posting in hand: what is  *)
(* appended there rests.                                                    *)
LEMMA AppendMergeSafe ==
    ASSUME TypeInv, LockDiscipline, HeadsKnown, NEW t \in Threads, Step(t), AppendMerge(t),
           NEW c \in Copy, Safe(c)
    PROVE  Safe(c)'
<1>1. Others(t) /\ pc[t] = "append" /\ pc'[t] = "appended" /\ headState' = headState
  BY GotoThread DEF AppendMerge
<1>2. PICK h \in Heads : h = loc[t].head /\ headState[h] = "linked"
  BY <1>1, ThreadKnows DEF AppendMerge, Knows, HasHead, Seen, Contains
<1>3. posting \in [Heads -> Seq(Copy)]
  BY DEF TypeInv, SharedType
<1>4. posting' = [posting EXCEPT ![h] = Append(posting[h], loc[t].copy)]
  BY <1>2 DEF AppendMerge
<1>5. loc[t].copy \in Copy
  BY <1>1, ThreadType DEF Shape, Appending, TypeInv
<1>6. CopiesIn(posting[h]) \cup {loc[t].copy} \subseteq CopiesIn(posting'[h])
  <2> DEFINE s == posting[h]
             d == loc[t].copy
  <2>1. s \in Seq(Copy) /\ d \in Copy /\ posting'[h] = Append(s, d)
    BY <1>3, <1>4, <1>5
  <2> HIDE DEF s, d
  <2>2. /\ DOMAIN Append(s, d) = 1..Len(s) + 1 /\ DOMAIN s = 1..Len(s) /\ Len(s) \in Nat
        /\ \A i \in 1..Len(s) : Append(s, d)[i] = s[i]
        /\ Append(s, d)[Len(s) + 1] = d
    BY <2>1
  <2>3. CopiesIn(s) \cup {d} \subseteq CopiesIn(Append(s, d))
    BY <2>2 DEF CopiesIn
  <2> QED
    BY <2>1, <2>3 DEF s, d
<1>7. ~Overwrites(t, c)'
  BY <1>1 DEF Overwrites
<1>8. ASSUME NEW g \in Heads, RestsAt(c, g) PROVE Safe(c)'
  <2>1. c \in CopiesIn(posting'[g])
    <3>1. c \in CopiesIn(posting[g])
      BY <1>8, Resting
    <3>2. CASE g = h
      BY <1>6, <3>1, <3>2
    <3>3. CASE g # h
      BY <1>3, <1>4, <3>1, <3>3
    <3> QED
      BY <3>2, <3>3
  <2> QED
    BY <1>1, <1>7, <1>8, <2>1, Resting, RestKept
<1>9. ASSUME Carries(t, c) PROVE Safe(c)'
  <2>1. c \in CopiesIn(posting'[h])
    BY <1>6, <1>9 DEF Carries
  <2>2. \A u \in Threads \ {t} : loc[u].head = h => ~Overwrites(u, c)
    <3>1. \A u \in Threads : loc[u].head = h => pc[u] \notin Locked
      BY <1>2, NoneNoThread DEF AppendMerge, LockDiscipline
    <3> QED
      BY <3>1, NotLocked
  <2> QED
    BY <1>1, <1>2, <1>7, <2>1, <2>2, RestKept
<1>10. ~Cuts(t, c)
  BY <1>1 DEF Cuts, Unlinked
<1> QED
  BY <1>8, <1>9, <1>10, Settle

(* A reassign of a current copy whose head is deleted does not give up. *)
LEMMA ReassignSafe ==
    ASSUME TypeInv, LockDiscipline, HeadsKnown, NEW t \in Threads, Step(t),
           ReassignSelect(t) \/ ReassignCheck(t),
           NEW c \in Copy, Live(c), Safe(c)
    PROVE  Safe(c)'
<1>1. headState' = headState /\ posting' = posting /\ pc[t] \in {"reassign", "reassignCheck"}
  BY DEF ReassignSelect, ReassignCheck, shared
<1>2. pc'[t] \notin Locked
  BY ReassignSelectFrame, ReassignCheckFrame DEF Locked
<1>3. ASSUME Carries(t, c) PROVE Carries(t, c)'
  <2>1. loc[t].copy = c /\ (pc[t] = "reassign" => headState[loc[t].prev] = "deleted")
    BY <1>3, <1>1 DEF Carries, Gone
  <2>2. CASE ReassignSelect(t)
    <3>1. loc[t].prev \notin Searchable
      BY <2>1, <2>2 DEF ReassignSelect, Searchable
    <3>2. pc'[t] = "reassignCheck" /\ loc'[t].copy = c
      BY <2>1, <2>2, <3>1, ReassignSelectFrame DEF KeepsCall
    <3> QED
      BY <3>2 DEF Carries
  <2>3. CASE ReassignCheck(t)
    <3>1. pc'[t] = "bump" /\ loc'[t].copy = c
      BY <2>1, <2>3, ReassignCheckFrame
    <3> QED
      BY <3>1 DEF Carries
  <2> QED
    BY <2>2, <2>3
<1>4. Carries(t, c) => Safe(c)'
  BY <1>3, CarriedOn
<1> QED
  BY <1>1, <1>2, <1>4, QuietStep

(* The new version is the current one, and its copy is on its way. *)
LEMMA ReassignBumpTracked ==
    ASSUME TypeInv, LockDiscipline, HeadsKnown, Selected, Tracked, NEW t \in Threads, Step(t),
           ReassignBump(t)
    PROVE  Tracked'
<1>1. PICK w \in Vids : w = loc[t].copy.vid
  BY ReassignBumpFrame DEF Copy
<1>2. /\ added' = added /\ dropped' = dropped /\ headState' = headState /\ posting' = posting
      /\ pc[t] = "bump" /\ pc'[t] = "next"
      /\ version' = [version EXCEPT ![w] = NextVersion(version[w])]
  BY <1>1, ReassignBumpFrame DEF ReassignBump
<1>3. loc'[t].sel # {} /\ loc'[t].copy = [vid |-> w, ver |-> NextVersion(version[w])]
  BY <1>1, <1>2, ReassignBumpFrame DEF Selected
<1>4. version \in [Vids -> 0..255]
  BY DEF TypeInv, SharedType
<1>5. ASSUME NEW c \in Copy, Matters(c)' PROVE Safe(c)'
  <2>1. c = [vid |-> c.vid, ver |-> c.ver] /\ c.vid \in Vids
    BY DEF Copy
  <2>2. CASE c.vid = w
    <3>1. c.ver = NextVersion(version[w])
      BY <1>2, <1>4, <1>5, <2>2 DEF Matters, Live
    <3>2. Carries(t, c)'
      BY <1>2, <1>3, <2>1, <2>2, <3>1 DEF Carries
    <3> QED
      BY <3>2, CarriedOn
  <2>3. CASE c.vid # w
    <3>1. Matters(c)
      BY <1>2, <1>4, <1>5, <2>1, <2>3 DEF Matters, Live
    <3>2. Safe(c)
      BY <3>1 DEF Tracked
    <3>3. ~Carries(t, c)
      BY <1>1, <2>3 DEF Carries
    <3>4. pc'[t] \notin Locked
      BY <1>2 DEF Locked
    <3> QED
      BY <1>2, <3>2, <3>3, <3>4, QuietStep
  <2> QED
    BY <2>2, <2>3
<1> QED
  BY <1>5 DEF Tracked

----------------------------------------------------------------------------
(* The steps of a split *)

(* A copy at rest in a posting that a split takes in hand is in the list    *)
(* the split writes back, or in one of its clusters.                        *)
LEMMA SplitLockSafe ==
    ASSUME TypeInv, LockDiscipline, HeadsKnown, NEW t \in Threads, Step(t), SplitLock(t),
           NEW c \in Copy, Live(c), c.vid \notin Twins, Safe(c)
    PROVE  Safe(c)'
<1>1. headState' = headState /\ posting' = posting /\ pc[t] = "splitLock"
  BY DEF SplitLock, shared
<1>2. Others(t) /\ loc'[t].head = loc[t].head
  BY SplitLockEnds DEF KeepsSplit
<1>3. PICK h \in Heads : h = loc[t].head
  BY <1>1, ThreadKnows DEF Knows, HasHead, Splitting
<1>4. PICK list \in LiveOf(posting[h]) :
         \/ /\ pc'[t] = "splitBack" /\ loc'[t].list = list
         \/ /\ pc'[t] = "splitBack"
            /\ Cardinality({Point(v) : v \in VidsIn(list)}) = 1
            /\ \E d \in CopiesIn(list) : loc'[t].list = <<d>>
         \/ /\ pc'[t] = "splitPut" /\ loc'[t].heads = <<>>
            /\ loc'[t].parts \in Clusterings(list) /\ loc'[t].same \in 0..2
  BY <1>3, SplitLockEnds
<1>5. posting[h] \in Seq(Copy) /\ list \in Seq(Copy)
  BY LiveOfType DEF TypeInv, SharedType
<1>6. ASSUME NEW g \in Heads, g # h, RestsAt(c, g) PROVE Safe(c)'
  BY <1>1, <1>2, <1>3, <1>6, Resting, RestKept
<1>7. ASSUME RestsAt(c, h) PROVE Safe(c)'
  <2>1. c \in CopiesIn(list)
    BY <1>5, <1>7, Resting, LiveOfCopies
  <2>2. CASE pc'[t] = "splitBack"
    <3>1. c \in CopiesIn(loc'[t].list)
      <4>1. CASE loc'[t].list = list
        BY <2>1, <4>1
      <4>2. ASSUME NEW d \in CopiesIn(list), loc'[t].list = <<d>>,
                   Cardinality({Point(v) : v \in VidsIn(list)}) = 1
            PROVE  c \in CopiesIn(loc'[t].list)
        <5>1. d = c
          BY <1>5, <2>1, <4>2, OnePointOneCopy
        <5> QED
          BY <4>2, <5>1 DEF CopiesIn
      <4> QED
        BY <1>4, <2>2, <4>1, <4>2
    <3>2. ~Overwrites(t, c)'
      BY <2>2, <3>1 DEF Overwrites, CopiesIn
    <3> QED
      BY <1>1, <1>2, <1>7, <3>2, Resting, RestKept
  <2>3. CASE /\ pc'[t] = "splitPut" /\ loc'[t].heads = <<>>
             /\ loc'[t].parts \in Clusterings(list) /\ loc'[t].same \in 0..2
    <3>1. PICK k \in 1..2 : c \in CopiesIn(loc'[t].parts[k])
      BY <1>5, <2>1, <2>3, ClusterCopies
    <3>2. k \in Unlinked(t)'
      <4>1. Len(loc'[t].heads) = 0
        BY <2>3
      <4> QED
        BY <2>3, <4>1 DEF Unlinked
    <3>3. headState'[loc'[t].head] = "linked"
      BY <1>1, <1>2, <1>3, <1>7, Resting
    <3>4. (c \in CopiesIn(loc[t].parts[k]))'
      BY <3>1 DEF CopiesIn
    <3>5. Cuts(t, c)'
      BY <3>2, <3>3, <3>4 DEF Cuts
    <3> QED
      BY <3>5 DEF Safe
  <2> QED
    BY <1>4, <2>2, <2>3
<1>8. ~Carries(t, c) /\ ~Cuts(t, c)
  BY <1>1 DEF Carries, Cuts, Unlinked
<1> QED
  BY <1>6, <1>7, <1>8, Settle

(* The list that is written back has the copies that rest. *)
LEMMA BackSafe ==
    ASSUME TypeInv, LockDiscipline, HeadsKnown, NEW t \in Threads, Step(t),
           SplitBack(t) \/ MergeBack(t),
           NEW c \in Copy, Safe(c)
    PROVE  Safe(c)'
<1>1. headState' = headState /\ pc[t] \in {"splitBack", "mergeBack"}
  BY DEF SplitBack, MergeBack
<1>2. Others(t) /\ pc'[t] \notin Locked
  <2>1. CASE SplitBack(t)
    BY <2>1, SplitDoneFrame DEF SplitBack, Resumes, Locked
  <2>2. CASE MergeBack(t)
    BY <2>2, DoneFrame DEF MergeBack, Locked
  <2> QED
    BY <2>1, <2>2
<1>3. PICK h \in Heads : h = loc[t].head
  BY <1>1, ThreadKnows DEF Knows, HasHead, Splitting, InMerge
<1>4. posting' = [posting EXCEPT ![h] = loc[t].list] /\ posting \in [Heads -> Seq(Copy)]
  BY <1>3 DEF SplitBack, MergeBack, TypeInv, SharedType
<1>5. ~Overwrites(t, c)'
  BY <1>2 DEF Overwrites, Locked
<1>6. ASSUME NEW g \in Heads, RestsAt(c, g) PROVE Safe(c)'
  <2>1. c \in CopiesIn(posting'[g])
    <3>1. CASE g = h
      <4>1. c \in CopiesIn(loc[t].list)
        BY <1>1, <1>3, <1>6, <3>1, Resting DEF Overwrites
      <4> QED
        BY <1>4, <3>1, <4>1
    <3>2. CASE g # h
      <4>1. c \in CopiesIn(posting[g])
        BY <1>6, Resting
      <4> QED
        BY <1>4, <3>2, <4>1
    <3> QED
      BY <3>1, <3>2
  <2> QED
    BY <1>1, <1>2, <1>5, <1>6, <2>1, Resting, RestKept
<1>7. ~Carries(t, c) /\ ~Cuts(t, c)
  BY <1>1 DEF Carries, Cuts, Unlinked
<1> QED
  BY <1>6, <1>7, Settle

(* The cluster around the old head: its copies rest from now on, the other  *)
(* cluster is still to come or linked already.                              *)
LEMMA SplitPutSameSafe ==
    ASSUME TypeInv, LockDiscipline, HeadsKnown, NEW t \in Threads, Step(t), SplitPutSame(t),
           NEW c \in Copy, Safe(c)
    PROVE  Safe(c)'
<1>1. headState' = headState /\ pc[t] = "splitPut"
  BY DEF SplitPutSame
<1>2. PICK h \in Heads : h = loc[t].head
  BY <1>1, ThreadKnows DEF Knows, HasHead, Splitting
<1>3. PICK k \in 1..2 : k = Len(loc[t].heads) + 1 /\ loc[t].same = k
      /\ Len(loc[t].heads) \in {0, 1} /\ Len(loc[t].heads) = k - 1
  <2>1. Len(loc[t].heads) \in {0, 1}
    BY <1>1, ThreadType DEF TypeInv, Shape
  <2>2. loc[t].same = Len(loc[t].heads) + 1
    BY DEF SplitPutSame
  <2>3. PICK n \in {0, 1} : n = Len(loc[t].heads)
    BY <2>1
  <2>4. n + 1 \in 1..2 /\ n = (n + 1) - 1
    OBVIOUS
  <2> QED
    BY <2>2, <2>3, <2>4
<1>4. posting' = [posting EXCEPT ![h] = loc[t].parts[k]] /\ posting \in [Heads -> Seq(Copy)]
  BY <1>2, <1>3 DEF SplitPutSame, TypeInv, SharedType
<1>5. /\ Others(t) /\ loc'[t].head = h /\ loc'[t].parts = loc[t].parts /\ loc'[t].same = k
      /\ Len(loc'[t].heads) = k
      /\ pc'[t] = IF k = 2 THEN "splitRetire" ELSE "splitPut"
  <2> DEFINE hs == loc[t].heads
  <2>1. hs \in Seq(Heads) /\ Len(hs) = k - 1
    BY <1>3, ThreadType DEF TypeInv, Loc
  <2>2. /\ Others(t) /\ loc'[t].head = h /\ loc'[t].parts = loc[t].parts /\ loc'[t].same = k
        /\ loc'[t].heads = Append(hs, h)
        /\ pc'[t] = AfterPart(Append(hs, h))
    BY <1>2, <1>3, SplitPutSameFrame DEF PartPut, KeepsSplit
  <2> HIDE DEF hs
  <2>3. Len(Append(hs, h)) = k
    BY <2>1
  <2> QED
    BY <2>2, <2>3 DEF AfterPart
<1>6. ~Overwrites(t, c)'
  BY <1>3, <1>5 DEF Overwrites
<1>7. ASSUME NEW g \in Heads, RestsAt(c, g) PROVE Safe(c)'
  <2>1. g # h
    BY <1>1, <1>2, <1>3, <1>7, Resting DEF Overwrites
  <2>2. c \in CopiesIn(posting'[g])
    BY <1>4, <1>7, <2>1, Resting
  <2> QED
    BY <1>1, <1>5, <1>6, <1>7, <2>2, Resting, RestKept
<1>8. ASSUME Cuts(t, c) PROVE Safe(c)'
  <2>1. PICK j \in k..2 : /\ c \in CopiesIn(loc[t].parts[j])
                          /\ j = k => headState[h] = "linked"
    BY <1>1, <1>2, <1>3, <1>8 DEF Cuts, Unlinked
  <2>2. CASE j = k
    <3>1. c \in CopiesIn(posting'[h])
      BY <1>4, <2>1, <2>2
    <3>2. \A u \in Threads \ {t} : loc[u].head = h => ~Overwrites(u, c)
      <4>1. pc[t] \in Locked
        BY <1>1 DEF Locked
      <4> QED
        BY <1>2, <4>1, OneHolder, NotLocked
    <3> QED
      BY <1>1, <1>5, <1>6, <2>1, <2>2, <3>1, <3>2, RestKept
  <2>3. CASE j # k
    <3>1. j = 2 /\ k = 1
      BY <2>1, <2>3
    <3>2. j \in Unlinked(t)'
      BY <1>5, <3>1 DEF Unlinked
    <3>3. (c \in CopiesIn(loc[t].parts[j]))' /\ j # loc'[t].same
      BY <1>5, <2>1, <3>1 DEF CopiesIn
    <3>4. Cuts(t, c)'
      BY <3>2, <3>3 DEF Cuts
    <3> QED
      BY <3>4 DEF Safe
  <2> QED
    BY <2>2, <2>3
<1>9. ~Carries(t, c)
  BY <1>1 DEF Carries
<1> QED
  BY <1>7, <1>8, <1>9, Settle

(* The posting of a new head is written where no copy rests yet. *)
LEMMA SplitPutNewSafe ==
    ASSUME TypeInv, LockDiscipline, HeadsKnown, NEW t \in Threads, Step(t), SplitPutNew(t),
           NEW c \in Copy, Safe(c)
    PROVE  Safe(c)'
<1>1. PICK new \in Heads : new = NewHead /\ headState[new] = "free"
  BY NewHeadType DEF SplitPutNew, FreeHeads
<1>2. PICK n \in 0..1 : n = Len(loc[t].heads)
  BY ThreadType DEF SplitPutNew, TypeInv, Shape
<1>3. /\ headState' = [headState EXCEPT ![new] = "added"] /\ headState \in [Heads -> HeadStates]
      /\ posting' = [posting EXCEPT ![new] = loc[t].parts[n + 1]] /\ posting \in [Heads -> Seq(Copy)]
      /\ pc[t] = "splitPut"
  BY <1>1, <1>2 DEF SplitPutNew, TypeInv, SharedType
<1>4. PICK h \in Heads : h = loc[t].head /\ h # new
  BY <1>1, <1>3, ThreadKnows DEF Knows, HasHead, Splitting, Seen
<1>5. /\ Others(t) /\ loc'[t].head = h /\ loc'[t].parts = loc[t].parts
      /\ loc'[t].same = loc[t].same /\ Len(loc'[t].heads) = n + 1 /\ pc'[t] = "splitLink"
  <2> DEFINE hs == loc[t].heads
  <2>1. hs \in Seq(Heads) /\ Len(hs) = n
    BY <1>2, ThreadType DEF TypeInv, Loc
  <2>2. /\ Others(t) /\ loc'[t].head = h /\ loc'[t].parts = loc[t].parts
        /\ loc'[t].same = loc[t].same /\ loc'[t].heads = Append(hs, new) /\ pc'[t] = "splitLink"
    BY <1>1, <1>4, SplitPutNewFrame DEF PartPut, KeepsSplit
  <2> HIDE DEF hs
  <2>3. Len(Append(hs, new)) = n + 1
    BY <2>1
  <2> QED
    BY <2>2, <2>3
<1>6. ASSUME NEW g \in Heads, RestsAt(c, g) PROVE Safe(c)'
  <2>1. g # new /\ headState'[g] = "linked" /\ c \in CopiesIn(posting'[g])
    BY <1>1, <1>3, <1>6, Resting
  <2>2. loc'[t].head = g => ~Overwrites(t, c)'
    <3>1. h = g => loc[t].same \in 1..n
      BY <1>2, <1>3, <1>4, <1>6, Resting DEF Overwrites
    <3>2. h = g => loc'[t].same \in 1..Len(loc'[t].heads)
      BY <1>5, <3>1
    <3> QED
      BY <1>5, <3>2 DEF Overwrites
  <2> QED
    BY <1>5, <1>6, <2>1, <2>2, Resting, RestKept
<1>7. ASSUME Cuts(t, c) PROVE Safe(c)'
  <2>1. PICK j \in n + 1..2 : /\ c \in CopiesIn(loc[t].parts[j])
                              /\ j = loc[t].same => headState[h] = "linked"
    BY <1>2, <1>3, <1>4, <1>7 DEF Cuts, Unlinked
  <2>2. j \in Unlinked(t)'
    BY <1>5, <2>1 DEF Unlinked
  <2>3. (c \in CopiesIn(loc[t].parts[j]))' /\ (j = loc'[t].same => headState'[loc'[t].head] = "linked")
    BY <1>3, <1>4, <1>5, <2>1 DEF CopiesIn
  <2>4. Cuts(t, c)'
    BY <2>2, <2>3 DEF Cuts
  <2> QED
    BY <2>4 DEF Safe
<1>8. ~Carries(t, c)
  BY <1>3 DEF Carries
<1> QED
  BY <1>6, <1>7, <1>8, Settle

(* What a new head's posting has rests from when the head is linked on. *)
LEMMA SplitLinkSafe ==
    ASSUME TypeInv, LockDiscipline, HeadsKnown, Placed, NEW t \in Threads, Step(t), SplitLink(t),
           NEW c \in Copy, Safe(c)
    PROVE  Safe(c)'
<1>1. /\ Others(t) /\ loc'[t] = loc[t] /\ pc[t] = "splitLink" /\ pc'[t] = "splitSize"
      /\ posting' = posting
  BY GotoThread DEF SplitLink
<1>2. PICK new \in Heads :
         /\ new = LastHead(loc[t]) /\ headState[new] = "added"
         /\ headState' = [headState EXCEPT ![new] = "linked"] /\ headState \in [Heads -> HeadStates]
  BY <1>1, ThreadKnows, NamedHeads DEF SplitLink, Knows, TypeInv, SharedType
<1>3. Overwrites(t, c)' <=> Overwrites(t, c)
  BY <1>1 DEF Overwrites
<1>4. PICK n \in 1..2 : n = Len(loc[t].heads)
  BY <1>1, ThreadType DEF TypeInv, Shape
<1>5. ASSUME NEW g \in Heads, RestsAt(c, g) PROVE Safe(c)'
  <2>1. headState'[g] = "linked" /\ c \in CopiesIn(posting'[g])
    BY <1>1, <1>2, <1>5, Resting
  <2>2. \A u \in Threads : loc[u].head = g => ~Overwrites(u, c)
    BY <1>5, Resting
  <2> QED
    BY <1>1, <1>3, <2>1, <2>2, RestKept
<1>6. ASSUME Cuts(t, c) PROVE Safe(c)'
  <2>1. PICK j \in n..2 : /\ c \in CopiesIn(loc[t].parts[j])
                          /\ j = loc[t].same => headState[loc[t].head] = "linked"
    BY <1>1, <1>4, <1>6 DEF Cuts, Unlinked
  <2>2. CASE j = n
    <3>1. c \in CopiesIn(posting'[new]) /\ headState'[new] = "linked"
      BY <1>1, <1>2, <1>4, <2>1, <2>2 DEF Placed
    <3>2. ASSUME NEW u \in Threads, loc[u].head = new PROVE pc[u] \notin Locked
      BY <1>2, <3>2, ThreadKnows DEF Knows, HasHead, Locked, Splitting, InMerge, Seen
    <3>3. \A u \in Threads : loc[u].head = new => ~Overwrites(u, c)
      BY <3>2, NotLocked
    <3> QED
      BY <1>1, <1>3, <3>1, <3>3, RestKept
  <2>3. CASE j # n
    <3>1. j \in n + 1..2
      BY <2>1, <2>3
    <3>2. j \in Unlinked(t)'
      BY <1>1, <1>4, <3>1 DEF Unlinked
    <3>3. (c \in CopiesIn(loc[t].parts[j]))' /\ (j = loc'[t].same => headState'[loc'[t].head] = "linked")
      <4>1. headState[loc[t].head] = "linked" => headState'[loc[t].head] = "linked"
        BY <1>1, <1>2, ThreadKnows DEF Knows, HasHead, Splitting
      <4> QED
        BY <1>1, <2>1, <4>1 DEF CopiesIn
    <3>4. Cuts(t, c)'
      BY <3>2, <3>3 DEF Cuts
    <3> QED
      BY <3>4 DEF Safe
  <2> QED
    BY <2>2, <2>3
<1>7. ~Carries(t, c)
  BY <1>1 DEF Carries
<1> QED
  BY <1>5, <1>6, <1>7, Settle

LEMMA SplitSizeSafe ==
    ASSUME TypeInv, LockDiscipline, HeadsKnown, NEW t \in Threads, Step(t), SplitSize(t),
           NEW c \in Copy, Safe(c)
    PROVE  Safe(c)'
<1>1. PICK n \in 1..2 : n = Len(loc[t].heads)
  BY ThreadType DEF SplitSize, TypeInv, Shape
<1>2. /\ Others(t) /\ loc'[t] = loc[t] /\ pc[t] = "splitSize"
      /\ pc'[t] = IF n = 2 THEN "splitRetire" ELSE "splitPut"
      /\ posting' = posting /\ headState' = headState
  BY <1>1, GotoThread DEF SplitSize, AfterPart
<1>3. Overwrites(t, c)' <=> Overwrites(t, c)
  BY <1>2 DEF Overwrites
<1>4. ASSUME NEW g \in Heads, RestsAt(c, g) PROVE Safe(c)'
  BY <1>2, <1>3, <1>4, Resting, RestKept
<1>5. ASSUME Cuts(t, c) PROVE Safe(c)'
  <2>1. PICK j \in n + 1..2 : /\ c \in CopiesIn(loc[t].parts[j])
                              /\ j = loc[t].same => headState[loc[t].head] = "linked"
    BY <1>1, <1>2, <1>5 DEF Cuts, Unlinked
  <2>2. n = 1
    BY <2>1
  <2>3. j \in Unlinked(t)'
    BY <1>1, <1>2, <2>1, <2>2 DEF Unlinked
  <2>4. (c \in CopiesIn(loc[t].parts[j]))' /\ (j = loc'[t].same => headState'[loc'[t].head] = "linked")
    BY <1>2, <2>1 DEF CopiesIn
  <2>5. Cuts(t, c)'
    BY <2>3, <2>4 DEF Cuts
  <2> QED
    BY <2>5 DEF Safe
<1>6. ~Carries(t, c)
  BY <1>2 DEF Carries
<1> QED
  BY <1>4, <1>5, <1>6, Settle

(* Nothing rests at a head that is deleted now. *)
LEMMA SplitRetireSafe ==
    ASSUME TypeInv, LockDiscipline, HeadsKnown, NEW t \in Threads, Step(t), SplitRetire(t),
           NEW c \in Copy, Safe(c)
    PROVE  Safe(c)'
<1>1. /\ Others(t) /\ pc[t] = "splitRetire" /\ pc'[t] = "splitErase" /\ posting' = posting
      /\ headState \in [Heads -> HeadStates]
  BY GotoThread DEF SplitRetire, TypeInv, SharedType
<1>2. ASSUME NEW g \in Heads, RestsAt(c, g) PROVE Safe(c)'
  <2>1. headState'[g] = "linked"
    <3>1. loc[t].head = g => loc[t].same # 0
      BY <1>1, <1>2, Resting DEF Overwrites
    <3> QED
      BY <1>1, <1>2, <3>1, Resting DEF SplitRetire
  <2>2. ~Overwrites(t, c)'
    BY <1>1 DEF Overwrites
  <2> QED
    BY <1>1, <1>2, <2>1, <2>2, Resting, RestKept
<1>3. ~Carries(t, c) /\ ~Cuts(t, c)
  BY <1>1 DEF Carries, Cuts, Unlinked
<1> QED
  BY <1>2, <1>3, Settle

----------------------------------------------------------------------------
(* The steps of a merge *)

LEMMA MergeListSafe ==
    ASSUME TypeInv, LockDiscipline, HeadsKnown, NEW t \in Threads, Step(t),
           MergeLockHead(t) \/ MergeVisit(t) \/ MergePartnerGone(t),
           NEW c \in Copy, Live(c), Safe(c)
    PROVE  Safe(c)'
<1>1. /\ headState' = headState /\ posting' = posting
      /\ pc[t] \in {"mergeLockHead", "mergeVisit", "mergeWith"}
  BY DEF MergeLockHead, MergeVisit, MergePartnerGone, shared
<1>2. /\ Others(t) /\ loc'[t].head = loc[t].head
      /\ pc'[t] \in {"mergeVisit", "mergeWith", "mergeBack"}
  <2>1. CASE MergeLockHead(t) \/ MergeVisit(t)
    BY <2>1, MergeLockHeadFrame, MergeVisitEnds
  <2>2. CASE MergePartnerGone(t)
    BY <2>2, GotoThread DEF MergePartnerGone
  <2> QED
    BY <2>1, <2>2
<1>3. PICK h \in Heads : h = loc[t].head
  BY <1>1, ThreadKnows DEF Knows, HasHead, InMerge
<1>4. ASSUME NEW g \in Heads, RestsAt(c, g) PROVE Safe(c)'
  <2>1. loc'[t].head = g => c \in CopiesIn(loc'[t].list)
    <3>1. CASE MergeLockHead(t) /\ h = g
      <4>1. loc'[t].list \in LiveOf(posting[h]) /\ posting[h] \in Seq(Copy)
        BY <1>3, <3>1, MergeLockHeadFrame DEF TypeInv, SharedType
      <4> QED
        BY <1>4, <3>1, <4>1, Resting, LiveOfCopies
    <3>2. CASE (MergeVisit(t) \/ MergePartnerGone(t)) /\ h = g
      <4>1. loc'[t].list = loc[t].list
        BY <3>2, MergeVisitEnds, GotoThread DEF MergePartnerGone
      <4>2. pc[t] \in {"mergeVisit", "mergeWith"}
        BY <3>2 DEF MergeVisit, MergePartnerGone
      <4> QED
        BY <1>3, <1>4, <3>2, <4>1, <4>2, Resting DEF Overwrites
    <3> QED
      BY <1>2, <1>3, <3>1, <3>2
  <2>2. loc'[t].head = g => ~Overwrites(t, c)'
    BY <1>2, <2>1 DEF Overwrites, CopiesIn
  <2> QED
    BY <1>1, <1>2, <1>4, <2>2, Resting, RestKept
<1>5. ~Carries(t, c) /\ ~Cuts(t, c)
  BY <1>1 DEF Carries, Cuts, Unlinked
<1> QED
  BY <1>4, <1>5, Settle

(* The posting that a merge writes has the copies of both that rested, but  *)
(* for the ones it leaves behind because the list has their vector already. *)
LEMMA MergedCopies ==
    ASSUME TypeInv, LockDiscipline, HeadsKnown, NEW t \in Threads, MergeWith(t),
           NEW c \in Copy, Live(c), c.vid \notin dropped',
           NEW g \in {loc[t].head, loc[t].prev}, RestsAt(c, g)
    PROVE  \E w, l \in {loc[t].head, loc[t].prev} :
              /\ w # l /\ headState' = [headState EXCEPT ![l] = "deleted"]
              /\ c \in CopiesIn(posting'[w])
<1>1. PICK theirs \in LiveOf(posting[loc[t].prev]) :
      \E new \in Sublists(theirs, {i \in DOMAIN theirs : theirs[i].vid \notin VidsIn(loc[t].list)}) :
         \/ Merges(t, theirs, new, loc[t].head, loc[t].prev)
         \/ Merges(t, theirs, new, loc[t].prev, loc[t].head)
  BY MergeWithEffect
<1>2. PICK new \in Sublists(theirs, {i \in DOMAIN theirs : theirs[i].vid \notin VidsIn(loc[t].list)}) :
         \/ Merges(t, theirs, new, loc[t].head, loc[t].prev)
         \/ Merges(t, theirs, new, loc[t].prev, loc[t].head)
  BY <1>1
<1>3. PICK h \in Heads, p \in Heads : h = loc[t].head /\ p = loc[t].prev /\ h # p
  BY WinnerStays
<1>4. posting \in [Heads -> Seq(Copy)] /\ theirs \in Seq(Copy) /\ loc[t].list \in Seq(Copy)
  BY <1>3, LiveOfType, ThreadType DEF TypeInv, SharedType, Loc
<1> DEFINE list == loc[t].list
           I == {i \in DOMAIN theirs : theirs[i].vid \notin VidsIn(list)}
<1>5. new \in Seq(Copy)
  <2>1. I \in SUBSET (DOMAIN theirs)
    OBVIOUS
  <2> QED
    BY <1>2, <1>4, <2>1, SublistType
<1> DEFINE merged == list \o new
<1>6. CopiesIn(list) \subseteq CopiesIn(merged) /\ CopiesIn(new) \subseteq CopiesIn(merged)
  <2>1. list \in Seq(Copy) /\ new \in Seq(Copy)
    BY <1>4, <1>5
  <2> HIDE DEF list
  <2>2. /\ DOMAIN list = 1..Len(list) /\ DOMAIN new = 1..Len(new)
        /\ DOMAIN merged = 1..Len(list) + Len(new)
        /\ Len(list) \in Nat /\ Len(new) \in Nat
        /\ \A i \in 1..Len(list) : merged[i] = list[i]
        /\ \A i \in 1..Len(new) : merged[Len(list) + i] = new[i] /\ Len(list) + i \in 1..Len(list) + Len(new)
    BY <2>1
  <2> HIDE DEF merged
  <2>3. ASSUME NEW i \in 1..Len(list) PROVE list[i] \in CopiesIn(merged)
    <3>1. i \in DOMAIN merged /\ merged[i] = list[i]
      BY <2>2
    <3> QED
      BY <3>1 DEF CopiesIn
  <2>4. ASSUME NEW i \in 1..Len(new) PROVE new[i] \in CopiesIn(merged)
    <3>1. Len(list) + i \in DOMAIN merged /\ merged[Len(list) + i] = new[i]
      BY <2>2
    <3> QED
      BY <3>1 DEF CopiesIn
  <2> QED
    BY <2>2, <2>3, <2>4 DEF CopiesIn
<1>7. c \in CopiesIn(merged)
  <2>1. CASE g = h
    <3>1. c \in CopiesIn(list)
      BY <1>3, <2>1, Resting DEF Overwrites, MergeWith
    <3> QED
      BY <1>6, <3>1
  <2>2. CASE g = p
    <3>1. c \in CopiesIn(theirs)
      BY <1>3, <1>4, <2>2, Resting, LiveOfCopies
    <3>2. c.vid \in VidsIn(theirs) /\ [vid |-> c.vid, ver |-> version[c.vid]] = c
      BY <3>1 DEF CopiesIn, VidsIn, Live, Copy
    <3>3. dropped' = dropped \cup
             {v \in VidsIn(theirs) : [vid |-> v, ver |-> version[v]] \notin CopiesIn(merged)}
      BY <1>2 DEF Merges
    <3> HIDE DEF merged
    <3> QED
      BY <3>2, <3>3
  <2> QED
    BY <1>3, <2>1, <2>2
<1>8. CASE Merges(t, theirs, new, loc[t].head, loc[t].prev)
  <2>1. headState' = [headState EXCEPT ![p] = "deleted"] /\ posting' = [posting EXCEPT ![h] = merged]
    BY <1>3, <1>8 DEF Merges
  <2> HIDE DEF merged
  <2>2. posting'[h] = merged
    BY <1>4, <2>1
  <2> QED
    BY <1>3, <1>7, <2>1, <2>2
<1>9. CASE Merges(t, theirs, new, loc[t].prev, loc[t].head)
  <2>1. headState' = [headState EXCEPT ![h] = "deleted"] /\ posting' = [posting EXCEPT ![p] = merged]
    BY <1>3, <1>9 DEF Merges
  <2> HIDE DEF merged
  <2>2. posting'[p] = merged
    BY <1>4, <2>1
  <2> QED
    BY <1>3, <1>7, <2>1, <2>2
<1> QED
  BY <1>2, <1>8, <1>9

LEMMA MergeWithSafe ==
    ASSUME TypeInv, LockDiscipline, HeadsKnown, NEW t \in Threads, Step(t), MergeWith(t),
           NEW c \in Copy, Live(c), c.vid \notin dropped', Safe(c)
    PROVE  Safe(c)'
<1>1. Others(t) /\ pc[t] = "mergeWith" /\ pc'[t] = "mergeReassign"
  BY MergeWithFrame DEF MergeWith
<1>2. headState \in [Heads -> HeadStates] /\ posting \in [Heads -> Seq(Copy)]
  BY DEF TypeInv, SharedType
<1>3. ~Overwrites(t, c)'
  BY <1>1 DEF Overwrites
<1>4. ASSUME NEW g \in Heads, RestsAt(c, g) PROVE Safe(c)'
  <2>1. CASE g \in {loc[t].head, loc[t].prev}
    <3>1. PICK w \in {loc[t].head, loc[t].prev}, l \in {loc[t].head, loc[t].prev} :
             /\ w # l /\ headState' = [headState EXCEPT ![l] = "deleted"]
             /\ c \in CopiesIn(posting'[w])
      BY <1>4, <2>1, MergedCopies
    <3>2. /\ w \in Heads /\ headState[w] = "linked"
          /\ \A u \in Threads \ {t} : pc[u] \in Locked => loc[u].head # w
      BY WinnerStays
    <3>3. headState'[w] = "linked"
      BY <1>2, <3>1, <3>2
    <3>4. \A u \in Threads \ {t} : loc[u].head = w => ~Overwrites(u, c)
      BY <3>2, NotLocked
    <3> QED
      BY <1>1, <1>3, <3>1, <3>2, <3>3, <3>4, RestKept
  <2>2. CASE g \notin {loc[t].head, loc[t].prev}
    <3>1. PICK w \in {loc[t].head, loc[t].prev}, l \in {loc[t].head, loc[t].prev} :
             /\ headState' = [headState EXCEPT ![l] = "deleted"]
             /\ \E s : posting' = [posting EXCEPT ![w] = s]
      BY MergeWithEffect DEF Merges
    <3>2. headState'[g] = "linked" /\ c \in CopiesIn(posting'[g])
      BY <1>2, <1>4, <2>2, <3>1, Resting
    <3> QED
      BY <1>1, <1>3, <1>4, <3>2, Resting, RestKept
  <2> QED
    BY <2>1, <2>2
<1>5. ~Carries(t, c) /\ ~Cuts(t, c)
  BY <1>1 DEF Carries, Cuts, Unlinked
<1> QED
  BY <1>4, <1>5, Settle

----------------------------------------------------------------------------
(* No vector gets lost *)

(* The steps that leave the versions alone. *)
LEMMA TrackedSame ==
    ASSUME Tracked, added' = added, version' = version, dropped \subseteq dropped',
           \A c \in Copy : Live(c) /\ c.vid \notin Twins \cup dropped' /\ Safe(c) => Safe(c)'
    PROVE  Tracked'
<1>1. ASSUME NEW c \in Copy, Matters(c)' PROVE Safe(c)'
  <2>1. Matters(c) /\ c.vid \notin Twins \cup dropped' /\ Live(c)
    BY <1>1 DEF Matters, Live
  <2> QED
    BY <2>1 DEF Tracked
<1> QED
  BY <1>1 DEF Tracked

LEMMA StepTracked ==
    ASSUME TypeInv, LockDiscipline, HeadsKnown, Selected, Placed, Tracked, NEW t \in Threads, Step(t)
    PROVE  Tracked'
<1>1. CASE ReassignBump(t)
  BY <1>1, ReassignBumpTracked
<1>2. ASSUME ~ReassignBump(t) PROVE added' = added /\ version' = version /\ dropped \subseteq dropped'
  BY <1>2 DEF Step, SearchFind, SearchAdd, NextReplica, AppendMiss, AppendMerge, SplitAsync,
     SplitSync, Appended, ReassignSelect, ReassignCheck, SplitLock, SplitBack, SplitPutSame,
     SplitPutNew, SplitLink, SplitSize, SplitRetire, SplitErase, Collect, CollectSearch,
     CollectRead, MergeTry, MergeGone, MergeLockHead, MergeVisit, MergePartnerGone, MergeWith,
     MergeReassign, MergeBack, shared
<1>3. ASSUME ~ReassignBump(t), NEW c \in Copy, Live(c), c.vid \notin Twins \cup dropped', Safe(c)
      PROVE  Safe(c)'
  BY <1>3, PlainSafe, NextReplicaSafe, AppendMissSafe, AppendMergeSafe, ReassignSafe,
     SplitLockSafe, BackSafe, SplitPutSameSafe, SplitPutNewSafe, SplitLinkSafe, SplitSizeSafe,
     SplitRetireSafe, MergeListSafe, MergeWithSafe DEF Step
<1> QED
  BY <1>1, <1>2, <1>3, TrackedSame

(* A job is taken: the reassign of a copy that counts is carried on. *)
LEMMA TakeTracked ==
    ASSUME TypeInv, LockDiscipline, HeadsKnown, Tracked, NEW t \in Threads, Take(t)
    PROVE  Tracked'
<1>1. /\ Others(t) /\ headState' = headState /\ posting' = posting /\ pc[t] = "idle"
      /\ added' = added /\ version' = version /\ dropped' = dropped
      /\ queue # <<>> /\ queue' = Tail(queue) /\ queue \in Seq(Job)
  BY TakeFrame DEF Take, TypeInv, SharedType
<1>2. pc'[t] \notin Locked
  BY TakeFrame DEF Locked
<1>3. DeletedStays /\ \A u \in Threads \ {t} :
         pc[u] \in Locked /\ headState[loc[u].head] = "linked" => headState'[loc[u].head] = "linked"
  BY <1>1 DEF DeletedStays
<1>4. ASSUME NEW c \in Copy, Safe(c) PROVE Safe(c)'
  <2>1. ASSUME NEW g \in Heads, RestsAt(c, g) PROVE Safe(c)'
    <3>1. ~Overwrites(t, c)'
      BY <1>2 DEF Overwrites, Locked
    <3> QED
      BY <1>1, <2>1, <3>1, Resting, RestKept
  <2>2. ASSUME NEW u \in Threads, Carries(u, c) \/ Cuts(u, c) PROVE Safe(c)'
    <3>1. u # t
      BY <1>1, <2>2 DEF Carries, Cuts, Unlinked
    <3>2. Carries(u, c)' \/ Cuts(u, c)'
      BY <1>1, <1>3, <2>2, <3>1, OthersCarry
    <3> QED
      BY <3>2 DEF Safe
  <2>3. ASSUME Queued(c) PROVE Safe(c)'
    <3>1. PICK i \in DOMAIN queue :
             queue[i].type = "reassign" /\ queue[i].copy = c /\ Gone(queue[i].prev)
      BY <2>3 DEF Queued
    <3>2. PICK p \in Heads : p = queue[i].prev /\ headState[p] = "deleted"
      BY <3>1 DEF Gone
    <3>3. CASE queue[i] = Head(queue)
      <4>1. pc'[t] = "reassign" /\ loc'[t].copy = c /\ loc'[t].prev = p
        BY <3>1, <3>2, <3>3, TakeFrame
      <4>2. Carries(t, c)'
        BY <1>1, <3>2, <4>1 DEF Carries, Gone
      <4> QED
        BY <4>2 DEF Safe
    <3>4. CASE queue[i] # Head(queue)
      <4>1. PICK j \in DOMAIN queue' : queue'[j] = queue[i]
        BY <1>1, <3>4, TakenJob
      <4>2. queue'[j].type = "reassign" /\ queue'[j].copy = c /\ queue'[j].prev = p
        BY <3>1, <3>2, <4>1
      <4>3. Queued(c)'
        BY <1>1, <3>2, <4>2 DEF Queued, Gone
      <4> QED
        BY <4>3 DEF Safe
    <3> QED
      BY <3>3, <3>4
  <2> QED
    BY <1>4, <2>1, <2>2, <2>3 DEF Safe
<1> QED
  BY <1>1, <1>4, TrackedSame

(* A call of a client leaves its thread nothing but a new vector's copy. *)
LEMMA CallTracked ==
    ASSUME TypeInv, LockDiscipline, HeadsKnown, NEW t \in Threads, Others(t),
           headState' = headState, posting' = posting, queue' = queue,
           pc[t] = "idle", pc'[t] \notin Locked,
           NEW c \in Copy, Safe(c)
    PROVE  Safe(c)'
<1>1. DeletedStays /\ JobsKept /\ \A u \in Threads \ {t} :
         pc[u] \in Locked /\ headState[loc[u].head] = "linked" => headState'[loc[u].head] = "linked"
  BY SameQueue DEF DeletedStays
<1>2. ASSUME NEW g \in Heads, RestsAt(c, g) PROVE Safe(c)'
  <2>1. ~Overwrites(t, c)'
    BY DEF Overwrites, Locked
  <2> QED
    BY <1>2, <2>1, Resting, RestKept
<1>3. ASSUME NEW u \in Threads, Carries(u, c) \/ Cuts(u, c) PROVE Safe(c)'
  <2>1. u # t
    BY <1>3 DEF Carries, Cuts, Unlinked
  <2>2. Carries(u, c)' \/ Cuts(u, c)'
    BY <1>1, <1>3, <2>1, OthersCarry
  <2> QED
    BY <2>2 DEF Safe
<1>4. ASSUME Queued(c) PROVE Safe(c)'
  <2>1. Queued(c)'
    BY <1>1, <1>4, QueuedStays
  <2> QED
    BY <2>1 DEF Safe
<1> QED
  BY <1>2, <1>3, <1>4 DEF Safe

(* A new vector is on its way from the start: there are heads to select.    *)
LEMMA AddIndexTracked ==
    ASSUME TypeInv, LockDiscipline, HeadsKnown, HeadRemains, Tracked,
           NEW t \in Threads, NEW v \in Vids, AddIndex(t, v)
    PROVE  Tracked'
<1>1. /\ Others(t) /\ pc[t] = "idle" /\ pc'[t] = "next" /\ loc'[t].sel # {}
      /\ loc'[t].copy = [vid |-> v, ver |-> version[v]]
  BY AddIndexFrame, SelectionNotEmpty DEF AddIndex
<1>2. /\ added' = added \cup {v} /\ version' = version /\ dropped' = dropped
      /\ headState' = headState /\ posting' = posting /\ queue' = queue
  BY DEF AddIndex
<1>3. ASSUME NEW c \in Copy, Matters(c)' PROVE Safe(c)'
  <2>1. CASE c.vid = v
    <3>1. c = [vid |-> v, ver |-> version[v]]
      BY <1>2, <1>3, <2>1 DEF Matters, Live, Copy
    <3>2. Carries(t, c)'
      BY <1>1, <3>1 DEF Carries
    <3> QED
      BY <3>2, CarriedOn
  <2>2. CASE c.vid # v
    <3>1. Matters(c)
      BY <1>2, <1>3, <2>2 DEF Matters, Live
    <3>2. Safe(c) /\ pc'[t] \notin Locked
      BY <1>1, <3>1 DEF Tracked, Locked
    <3> QED
      BY <1>1, <1>2, <3>2, CallTracked
  <2> QED
    BY <2>1, <2>2
<1> QED
  BY <1>3 DEF Tracked

LEMMA DeleteTracked ==
    ASSUME TypeInv, Tracked, NEW v \in Vids, Delete(v)
    PROVE  Tracked'
<1>1. version \in [Vids -> 0..255] /\ version' = [version EXCEPT ![v] = DELETED]
  BY DEF Delete, TypeInv, SharedType
<1>2. ASSUME NEW c \in Copy, Matters(c)' PROVE Safe(c)'
  <2>1. c.vid # v
    BY <1>1, <1>2 DEF Matters, Live
  <2>2. c.vid \in Vids
    BY DEF Copy
  <2>3. Matters(c)
    BY <1>1, <1>2, <2>1, <2>2 DEF Matters, Live, Delete
  <2>4. Safe(c)
    BY <2>3 DEF Tracked
  <2> QED
    BY <2>4 DEF Delete, Safe, RestsAt, Searchable, CopiesIn, Overwrites, Carries, Cuts, Unlinked,
                Gone, Queued
<1> QED
  BY <1>2 DEF Tracked

LEMMA TrackedStep ==
    ASSUME TypeInv, LockDiscipline, HeadsKnown, HeadRemains, Selected, Placed, Tracked, [Next]_vars
    PROVE  Tracked'
<1>1. ASSUME NEW t \in Clients, NEW v \in Vids, AddIndex(t, v) PROVE Tracked'
  BY <1>1, AddIndexTracked DEF Threads
<1>2. ASSUME NEW v \in Vids, Delete(v) PROVE Tracked'
  BY <1>2, DeleteTracked
<1>3. ASSUME NEW t \in Clients, NEW h \in Heads, SearchRead(t, h) PROVE Tracked'
  <2>1. /\ t \in Threads /\ Others(t) /\ pc[t] = "idle" /\ pc'[t] \notin Locked
        /\ headState' = headState /\ posting' = posting /\ queue' = queue
        /\ added' = added /\ version' = version /\ dropped' = dropped
    BY <1>3, SearchReadFrame DEF SearchRead, shared, Threads, Locked
  <2> QED
    BY <2>1, CallTracked, TrackedSame
<1>4. ASSUME NEW t \in Workers, Take(t) PROVE Tracked'
  BY <1>4, TakeTracked DEF Threads
<1>5. ASSUME NEW t \in Threads, Step(t) PROVE Tracked'
  BY <1>5, StepTracked
<1>6. CASE UNCHANGED vars
  <2>1. ASSUME NEW c \in Copy, Safe(c) PROVE Safe(c)'
    BY <1>6, <2>1 DEF vars, shared, Safe, RestsAt, Searchable, CopiesIn, Overwrites, Carries, Cuts,
                Unlinked, Gone, Queued
  <2> QED
    BY <1>6, <2>1, TrackedSame DEF vars, shared
<1> QED
  BY <1>1, <1>2, <1>3, <1>4, <1>5, <1>6 DEF Next

LEMMA TrackedInit == Init => Tracked
<1> SUFFICES ASSUME Init, NEW c \in Copy, Matters(c) PROVE Safe(c)
  BY DEF Tracked
<1>1. PICK h \in DOMAIN InitPosting : \E i \in DOMAIN InitPosting[h] : InitPosting[h][i] = c.vid
  BY DEF Matters, Init
<1>2. PICK i \in DOMAIN InitPosting[h] : InitPosting[h][i] = c.vid
  BY <1>1
<1>3. h \in Heads /\ h <= Len(InitPosting) /\ headState[h] = "linked"
  <2>1. InitPosting \in Seq(Seq(Vids)) /\ HeadCapacity \in Nat /\ Len(InitPosting) <= HeadCapacity
    BY LireAssumption
  <2>2. h \in 1..Len(InitPosting) /\ Len(InitPosting) \in Nat
    BY <2>1
  <2>3. h \in Heads /\ h <= Len(InitPosting)
    BY <2>1, <2>2 DEF Heads
  <2> QED
    BY <2>3 DEF Init
<1>4. c = [vid |-> c.vid, ver |-> Fresh]
  <2>1. c.vid \in Vids /\ c = [vid |-> c.vid, ver |-> c.ver]
    BY DEF Copy
  <2>2. c.ver = Fresh
    BY <2>1 DEF Matters, Live, Init
  <2> QED
    BY <2>1, <2>2
<1>5. c \in CopiesIn(posting[h])
  <2>1. posting[h] = [j \in DOMAIN InitPosting[h] |-> [vid |-> InitPosting[h][j], ver |-> Fresh]]
    BY <1>3 DEF Init
  <2> QED
    BY <1>2, <1>4, <2>1 DEF CopiesIn
<1>6. \A t \in Threads : ~Overwrites(t, c)
  BY DEF Init, Overwrites
<1>7. RestsAt(c, h)
  BY <1>3, <1>5, <1>6 DEF RestsAt, Searchable
<1> QED
  BY <1>3, <1>7 DEF Safe

(* The postings of heads that are not linked yet are left alone. *)
LEMMA AddedPosting ==
    ASSUME TypeInv, HeadsKnown, NEW t \in Threads, Step(t),
           NEW h \in Heads, headState[h] = "added"
    PROVE  posting'[h] = posting[h]
<1>1. posting \in [Heads -> Seq(Copy)]
  BY DEF TypeInv, SharedType
<1>2. CASE posting' = posting
  BY <1>2
<1>3. CASE AppendMerge(t) \/ SplitBack(t) \/ SplitPutSame(t) \/ MergeBack(t)
  <2>1. pc[t] \in HasHead
    BY <1>3 DEF AppendMerge, SplitBack, SplitPutSame, MergeBack, HasHead, Splitting, InMerge
  <2>2. loc[t].head # h
    BY <2>1, ThreadKnows DEF Knows, Seen
  <2> QED
    BY <1>1, <1>3, <2>2 DEF AppendMerge, SplitBack, SplitPutSame, MergeBack
<1>4. CASE SplitPutNew(t)
  <2>1. headState[NewHead] = "free"
    BY <1>4, NewHeadType DEF SplitPutNew, FreeHeads
  <2> DEFINE new == NewHead
  <2>2. new # h /\ \E s : posting' = [posting EXCEPT ![new] = s]
    BY <1>4, <2>1 DEF SplitPutNew
  <2> HIDE DEF new
  <2> QED
    BY <1>1, <2>2
<1>5. CASE MergeWith(t)
  <2>1. PICK w \in {loc[t].head, loc[t].prev} : \E s : posting' = [posting EXCEPT ![w] = s]
    BY <1>5, MergeWithEffect DEF Merges
  <2>2. Seen(w)
    <3>1. Seen(loc[t].head) /\ Seen(loc[t].prev)
      BY <1>5, ThreadKnows DEF MergeWith, Knows, HasHead, InMerge
    <3> QED
      BY <3>1
  <2> QED
    BY <1>1, <2>1, <2>2 DEF Seen
<1> QED
  BY <1>2, <1>3, <1>4, <1>5 DEF Step, SearchFind, SearchAdd, NextReplica, AppendMiss,
     SplitAsync, SplitSync, Appended, ReassignSelect, ReassignCheck, ReassignBump,
     SplitLock, SplitLink, SplitSize, SplitRetire, SplitErase, Collect, CollectSearch,
     CollectRead, MergeTry, MergeGone, MergeLockHead, MergeVisit, MergePartnerGone,
     MergeReassign, shared

(* Thread t has put the posting of the head it is going to link. *)
Put(t) == CopiesIn(loc[t].parts[Len(loc[t].heads)]) \subseteq CopiesIn(posting[LastHead(loc[t])])

LEMMA PlacedOthers ==
    ASSUME TypeInv, HeadsKnown, Placed, NEW t \in Threads, Others(t),
           \A h \in Heads : headState[h] = "added" => posting'[h] = posting[h],
           pc'[t] = "splitLink" => Put(t)'
    PROVE  Placed'
<1>1. ASSUME NEW u \in Threads, u # t, pc'[u] = "splitLink" PROVE Put(u)'
  <2>1. pc[u] = "splitLink" /\ loc'[u] = loc[u]
    BY <1>1 DEF Others
  <2>2. PICK h \in Heads : h = LastHead(loc[u]) /\ headState[h] = "added"
    BY <2>1, ThreadKnows, NamedHeads DEF Knows
  <2>3. CopiesIn(loc[u].parts[Len(loc[u].heads)]) \subseteq CopiesIn(posting[h])
    BY <2>1, <2>2 DEF Placed
  <2>4. LastHead(loc'[u]) = h /\ posting'[h] = posting[h]
    BY <2>1, <2>2
  <2> QED
    BY <2>1, <2>3, <2>4 DEF Put
<1> QED
  BY <1>1 DEF Placed, Put

LEMMA SplitPutNewPut ==
    ASSUME TypeInv, NEW t \in Threads, SplitPutNew(t)
    PROVE  Put(t)'
<1>1. PICK new \in Heads : new = NewHead
  BY NewHeadType DEF SplitPutNew, FreeHeads
<1>2. PICK n \in 0..1 : n = Len(loc[t].heads)
  BY ThreadType DEF SplitPutNew, TypeInv, Shape
<1>3. posting' = [posting EXCEPT ![new] = loc[t].parts[n + 1]] /\ posting \in [Heads -> Seq(Copy)]
  BY <1>1, <1>2 DEF SplitPutNew, TypeInv, SharedType
<1>4. loc'[t].parts = loc[t].parts /\ Len(loc'[t].heads) = n + 1 /\ LastHead(loc'[t]) = new
  <2> DEFINE hs == loc[t].heads
  <2>1. hs \in Seq(Heads) /\ Len(hs) = n
    BY <1>2, ThreadType DEF SplitPutNew, TypeInv, Loc
  <2>2. loc'[t].parts = loc[t].parts /\ loc'[t].heads = Append(hs, new)
    BY <1>1, SplitPutNewFrame DEF PartPut
  <2> HIDE DEF hs
  <2>3. Len(Append(hs, new)) = n + 1 /\ Append(hs, new)[n + 1] = new
    BY <2>1
  <2> QED
    BY <2>2, <2>3 DEF LastHead
<1>5. posting'[new] = loc[t].parts[n + 1]
  BY <1>3
<1> QED
  BY <1>4, <1>5 DEF Put

LEMMA PlacedStep ==
    ASSUME TypeInv, HeadsKnown, Placed, [Next]_vars
    PROVE  Placed'
<1>1. ASSUME NEW t \in Clients, NEW v \in Vids, AddIndex(t, v) PROVE Placed'
  <2>1. t \in Threads /\ Others(t) /\ posting' = posting /\ pc'[t] # "splitLink"
    BY <1>1, AddIndexFrame DEF AddIndex, Threads
  <2> QED
    BY <2>1, PlacedOthers
<1>2. ASSUME NEW v \in Vids, Delete(v) PROVE Placed'
  <2>1. ASSUME NEW u \in Threads, Put(u) PROVE Put(u)'
    BY <1>2, <2>1 DEF Delete, Put
  <2>2. ASSUME NEW u \in Threads, pc[u] = "splitLink" PROVE Put(u)'
    BY <2>1, <2>2 DEF Placed, Put
  <2> QED
    BY <1>2, <2>2 DEF Delete, Placed, Put
<1>3. ASSUME NEW t \in Clients, NEW h \in Heads, SearchRead(t, h) PROVE Placed'
  <2>1. t \in Threads /\ Others(t) /\ posting' = posting /\ pc'[t] # "splitLink"
    BY <1>3, SearchReadFrame DEF SearchRead, shared, Threads
  <2> QED
    BY <2>1, PlacedOthers
<1>4. ASSUME NEW t \in Workers, Take(t) PROVE Placed'
  <2>1. t \in Threads /\ Others(t) /\ posting' = posting /\ pc'[t] # "splitLink"
    BY <1>4, TakeFrame DEF Take, Threads
  <2> QED
    BY <2>1, PlacedOthers
<1>5. ASSUME NEW t \in Threads, Step(t) PROVE Placed'
  <2>1. Others(t) /\ \A h \in Heads : headState[h] = "added" => posting'[h] = posting[h]
    BY <1>5, StepOthers, AddedPosting
  <2>2. pc'[t] = "splitLink" => SplitPutNew(t)
    <3>1. CASE SplitLock(t) \/ SplitPutSame(t)
      BY <3>1, SplitLockEnds, SplitPutSameFrame DEF AfterPart
    <3>2. CASE SplitLink(t) \/ SplitSize(t) \/ SplitRetire(t)
      BY <3>2, GotoThread DEF SplitLink, SplitSize, SplitRetire, AfterPart
    <3> QED
      BY <1>5, <3>1, <3>2, OnlySplitsCut DEF Step, Cutting
  <2> QED
    BY <2>1, <2>2, SplitPutNewPut, PlacedOthers
<1>6. CASE UNCHANGED vars
  <2>1. ASSUME NEW u \in Threads, Put(u) PROVE Put(u)'
    BY <1>6, <2>1 DEF vars, shared, Put
  <2>2. ASSUME NEW u \in Threads, pc[u] = "splitLink" PROVE Put(u)'
    BY <2>1, <2>2 DEF Placed, Put
  <2> QED
    BY <1>6, <2>2 DEF vars, Placed, Put
<1> QED
  BY <1>1, <1>2, <1>3, <1>4, <1>5, <1>6 DEF Next

(* A copy that is safe is stored or carried. *)
LEMMA TrackedNotLost == Selected /\ Tracked /\ TypeInv => NoLostVector
<1> SUFFICES ASSUME Selected, Tracked, TypeInv, NEW v \in added \ (Twins \cup dropped),
                    version[v] # DELETED
             PROVE  Stored(v) \/ Carried(v)
  BY DEF NoLostVector
<1>1. v \in Vids /\ version[v] \in 0..255
  BY DEF TypeInv, SharedType
<1>2. PICK c \in Copy : c = [vid |-> v, ver |-> version[v]]
  BY <1>1 DEF Copy
<1>3. Matters(c)
  BY <1>2 DEF Matters, Live
<1>4. Safe(c)
  BY <1>3 DEF Tracked
<1>5. ASSUME NEW h \in Heads, RestsAt(c, h) PROVE Stored(v)
  BY <1>2, <1>5 DEF RestsAt, Stored
<1>6. ASSUME NEW t \in Threads, Carries(t, c) PROVE Carried(v)
  BY <1>2, <1>6 DEF Carries, Carried, Selected, Selecting
<1>7. ASSUME NEW t \in Threads, Cuts(t, c) PROVE Carried(v)
  BY <1>2, <1>7 DEF Cuts, Carried
<1>8. ASSUME Queued(c) PROVE Carried(v)
  BY <1>2, <1>8 DEF Queued, Carried
<1> QED
  BY <1>4, <1>5, <1>6, <1>7, <1>8 DEF Safe

(* No vector gets lost: whatever splits, merges and reassigns do at the     *)
(* same time, the current copy of a vector that was not deleted is in a     *)
(* posting that searches read, or on its way to one, unless a split took it *)
(* for the same point as another or a merge left it behind.                 *)
THEOREM NothingGetsLost == Spec => []NoLostVector
<1>1. Init => TypeInv /\ LockDiscipline /\ HeadsKnown /\ HeadRemains /\ Selected /\ Placed /\ Tracked
  <2>1. Init => Selected /\ Placed
    BY DEF Init, Selected, Selecting, Placed
  <2> QED
    BY <2>1, TypeInit, LockInit, HeadsInit, HeadRemainsInit, TrackedInit
<1>2. /\ TypeInv /\ LockDiscipline /\ HeadsKnown /\ HeadRemains /\ Selected /\ Placed /\ Tracked
      /\ [Next]_vars
      => TypeInv' /\ LockDiscipline' /\ HeadsKnown' /\ HeadRemains' /\ Selected' /\ Placed' /\ Tracked'
  BY TypeStep, LockStep, HeadsStep, HeadRemainsStep, SelectedStep, PlacedStep, TrackedStep
<1>3. TypeInv /\ LockDiscipline /\ HeadsKnown /\ HeadRemains /\ Selected /\ Placed /\ Tracked
      => NoLostVector
  BY TrackedNotLost
<1> QED
  BY <1>1, <1>2, <1>3, PTL DEF Spec


----------------------------------------------------------------------------
(* The versions that reassigns write *)

(* Only the increment makes a thread a writer of a version. *)
LEMMA WritingOn ==
    ASSUME TypeInv, NEW t \in Threads, Step(t), ~ReassignBump(t), Writing(t)'
    PROVE  Writing(t) /\ loc'[t].copy = loc[t].copy
<1> USE DEF Writing, Selecting
<1>1. pc'[t] \notin Selecting /\ loc'[t].op = "reassign" /\ Idle.op # "reassign"
  BY DEF Idle
<1>2. ASSUME pc'[t] = "idle" /\ loc'[t] = Idle PROVE FALSE
  BY <1>1, <1>2
<1>3. ASSUME loc'[t].op = loc[t].op, loc'[t].copy = loc[t].copy, pc[t] \notin Selecting
      PROVE  Writing(t) /\ loc'[t].copy = loc[t].copy
  BY <1>1, <1>3
<1>4. ASSUME pc[t] \notin Selecting,
             KeepsCall(t) \/ Resumes(t) \/ loc'[t] = loc[t] \/ loc'[t] = Idle
      PROVE  Writing(t) /\ loc'[t].copy = loc[t].copy
  BY <1>1, <1>3, <1>4 DEF KeepsCall, Resumes
<1>5. CASE SearchFind(t) \/ SearchAdd(t)
  BY <1>4, <1>5, SearchFindFrame, DoneFrame DEF SearchFind, SearchAdd
<1>6. CASE NextReplica(t) \/ AppendMiss(t)
  BY <1>4, <1>6, NextReplicaFrame, AppendMissFrame DEF NextReplica, AppendMiss, GoesOn
<1>7. CASE AppendMerge(t) \/ MergePartnerGone(t) \/ SplitLink(t) \/ SplitSize(t) \/ SplitRetire(t)
  BY <1>4, <1>7, GotoThread
     DEF AppendMerge, MergePartnerGone, SplitLink, SplitSize, SplitRetire
<1>8. CASE SplitAsync(t) \/ Appended(t)
  BY <1>4, <1>8, GoesOnFrame DEF SplitAsync, Appended, GoesOn
<1>9. CASE SplitSync(t) \/ SplitLock(t)
  BY <1>4, <1>9, SplitSyncFrame, SplitLockEnds DEF SplitSync, SplitLock, KeepsSplit
<1>10. CASE ReassignSelect(t) \/ ReassignCheck(t)
  BY <1>1, <1>2, <1>10, ReassignSelectFrame, ReassignCheckFrame
<1>11. CASE SplitBack(t) \/ SplitErase(t)
  BY <1>4, <1>11, SplitDoneFrame, SplitEraseFrame DEF SplitBack, SplitErase
<1>12. CASE SplitPutSame(t) \/ SplitPutNew(t)
  BY <1>4, <1>12, SplitPutSameFrame, SplitPutNewFrame
     DEF SplitPutSame, SplitPutNew, PartPut, KeepsSplit
<1>13. CASE Collect(t)
  BY <1>4, <1>13, CollectFrame DEF Collect, KeepsSplit
<1>14. CASE CollectSearch(t) \/ CollectRead(t)
  BY <1>4, <1>14, CollectSearchFrame, CollectReadFrame DEF CollectSearch, CollectRead, KeepsSplit
<1>15. CASE MergeTry(t) \/ MergeLockHead(t)
  BY <1>4, <1>15, MergeTryFrame, MergeLockHeadFrame DEF MergeTry, MergeLockHead
<1>16. CASE MergeVisit(t) \/ MergeWith(t)
  BY <1>4, <1>16, MergeVisitEnds, MergeWithFrame DEF MergeVisit, MergeWith
<1>17. CASE MergeGone(t) \/ MergeReassign(t) \/ MergeBack(t)
  BY <1>4, <1>17, DoneFrame DEF MergeGone, MergeReassign, MergeBack
<1> QED
  BY <1>5, <1>6, <1>7, <1>8, <1>9, <1>10, <1>11, <1>12, <1>13, <1>14, <1>15, <1>16, <1>17 DEF Step

(* Nobody writes a version that is still to come. *)
Rises == \A v \in Vids \ Deletable : version'[v] >= version[v]
Bounded(t) ==
    Writing(t) /\ loc[t].copy.vid \notin Deletable
        => loc[t].copy.ver <= version[loc[t].copy.vid]
Owned == OneOwner /\ \A t \in Threads : Bounded(t)

(* A step that makes nobody a writer changes no owner... *)
LEMMA OwnersKept ==
    ASSUME TypeInv, TypeInv', Owned, Rises,
           \A t \in Threads : Writing(t)' => Writing(t) /\ loc'[t].copy = loc[t].copy
    PROVE  Owned'
<1>1. OneOwner'
  BY DEF Owned, OneOwner
<1>2. ASSUME NEW t \in Threads, Writing(t)', loc'[t].copy.vid \notin Deletable
      PROVE  loc'[t].copy.ver <= version'[loc'[t].copy.vid]
  <2>1. Writing(t) /\ loc'[t].copy = loc[t].copy /\ loc[t].copy \in Copy
    BY <1>2, ThreadType DEF Writing, TypeInv, Shape
  <2>2. PICK c \in Copy : c = loc[t].copy
    BY <2>1
  <2>3. c.vid \in Vids \ Deletable /\ c.ver \in 0..255
    BY <1>2, <2>1, <2>2 DEF Copy
  <2>4. c.ver <= version[c.vid]
    BY <2>1, <2>2, <2>3 DEF Owned, Bounded
  <2>5. version'[c.vid] >= version[c.vid] /\ version[c.vid] \in 0..255 /\ version'[c.vid] \in 0..255
    BY <2>3 DEF Rises, TypeInv, SharedType
  <2>6. c.ver <= version'[c.vid]
    <3>1. \A x, y, z \in 0..255 : x <= y /\ z >= y => x <= z
      OBVIOUS
    <3> QED
      BY <2>3, <2>4, <2>5, <3>1
  <2>7. loc'[t].copy = c
    BY <2>1, <2>2
  <2> QED
    BY <2>6, <2>7
<1> QED
  BY <1>1, <1>2 DEF Owned, Bounded

(* ... and the increment writes a version that is larger than all others.   *)
LEMMA OwnersBump ==
    ASSUME TypeInv, TypeInv', Owned, Rises, NEW t \in Threads, ReassignBump(t)
    PROVE  Owned'
<1>1. PICK w \in Vids : w = loc[t].copy.vid
  BY ReassignBumpFrame DEF Copy
<1> DEFINE n == NextVersion(version[w])
<1>2. /\ version' = [version EXCEPT ![w] = n] /\ Others(t) /\ pc'[t] = "next"
      /\ loc'[t].copy = [vid |-> w, ver |-> n]
  BY <1>1, ReassignBumpFrame DEF ReassignBump
<1>3. version \in [Vids -> 0..255] /\ n \in 0..127 /\ version'[w] = n
  <2>1. version \in [Vids -> 0..255] /\ version[w] \in 0..255
    BY DEF TypeInv, SharedType
  <2>2. n \in 0..127
    BY <2>1 DEF NextVersion
  <2> QED
    BY <1>2, <2>1, <2>2
<1>4. w \notin Deletable => n > version[w]
  BY <1>1, <1>2, <1>3 DEF Rises, NextVersion
<1> HIDE DEF n
<1>5. ASSUME NEW u \in Threads \ {t}, Writing(u)', loc'[u].copy.vid \notin Deletable
      PROVE  /\ Writing(u) /\ loc'[u].copy = loc[u].copy
             /\ loc[u].copy.ver <= version'[loc[u].copy.vid]
             /\ loc[u].copy.vid = w => loc[u].copy.ver < n
  <2>1. Writing(u) /\ loc'[u].copy = loc[u].copy /\ loc[u].copy \in Copy
    BY <1>2, <1>5, ThreadType DEF Others, Writing, TypeInv, Shape
  <2>2. PICK c \in Copy : c = loc[u].copy
    BY <2>1
  <2>3. c.vid \in Vids \ Deletable /\ c.ver \in 0..255
    BY <1>5, <2>1, <2>2 DEF Copy
  <2>4. c.ver <= version[c.vid] /\ version[c.vid] \in 0..255
    BY <1>3, <2>1, <2>2, <2>3 DEF Owned, Bounded
  <2>5. c.vid # w => version'[c.vid] = version[c.vid]
    BY <1>2, <1>3, <2>3
  <2>6. c.vid = w => c.ver < n
    <3>1. CASE c.vid = w
      <4>1. n > version[w] /\ c.ver <= version[w] /\ version[w] \in 0..255
        BY <1>4, <2>3, <2>4, <3>1
      <4>2. \A x, y \in 0..255, z \in 0..127 : z > y /\ x <= y => x < z
        OBVIOUS
      <4> QED
        BY <1>3, <2>3, <4>1, <4>2
    <3> QED
      BY <3>1
  <2>7. c.ver <= version'[c.vid]
    BY <1>3, <2>3, <2>4, <2>5, <2>6
  <2> QED
    BY <2>1, <2>2, <2>6, <2>7
<1>6. Bounded(t)'
  BY <1>2, <1>3 DEF Bounded
<1>7. \A u \in Threads : Bounded(u)'
  BY <1>5, <1>6 DEF Bounded
<1>8. ASSUME NEW u \in Threads \ {t}, Writing(u)', loc'[u].copy.vid \notin Deletable,
             loc'[u].copy = loc'[t].copy
      PROVE  FALSE
  <2>1. loc[u].copy = [vid |-> w, ver |-> n] /\ loc[u].copy.ver < n
    BY <1>2, <1>5, <1>8
  <2> QED
    BY <1>3, <2>1
<1>9. ASSUME NEW u \in Threads, NEW s \in Threads, u # s, Writing(u)', Writing(s)',
             loc'[u].copy.vid \notin Deletable, loc'[u].copy = loc'[s].copy
      PROVE  FALSE
  <2>1. CASE u = t \/ s = t
    BY <1>8, <1>9, <2>1
  <2>2. CASE u # t /\ s # t
    BY <1>5, <1>9, <2>2 DEF Owned, OneOwner
  <2> QED
    BY <2>1, <2>2
<1>10. OneOwner'
  BY <1>9 DEF OneOwner
<1> QED
  BY <1>7, <1>10 DEF Owned

LEMMA OwnedStep ==
    ASSUME TypeInv, Owned, [Next]_vars, [Rises]_vars
    PROVE  Owned'
<1>1. TypeInv'
  BY TypeStep
<1>2. CASE UNCHANGED vars
  <2> SUFFICES Owned'
    OBVIOUS
  <2>1. pc' = pc /\ loc' = loc /\ version' = version
    BY <1>2 DEF vars, shared
  <2> QED
    BY <2>1 DEF Owned, OneOwner, Bounded, Writing
<1>3. ASSUME Rises, NEW t \in Threads, Others(t), Writing(t)' => Writing(t) /\ loc'[t].copy = loc[t].copy
      PROVE  Owned'
  BY <1>1, <1>3, OwnersKept DEF Others, Writing
<1>4. ASSUME Rises, NEW t \in Clients, NEW v \in Vids, AddIndex(t, v) PROVE Owned'
  BY <1>3, <1>4, AddIndexFrame DEF Threads, Writing
<1>5. ASSUME Rises, NEW v \in Vids, Delete(v) PROVE Owned'
  BY <1>1, <1>5, OwnersKept DEF Delete, Writing
<1>6. ASSUME Rises, NEW t \in Clients, NEW h \in Heads, SearchRead(t, h) PROVE Owned'
  BY <1>3, <1>6, SearchReadFrame DEF Threads, Writing
<1>7. ASSUME Rises, NEW t \in Workers, Take(t) PROVE Owned'
  BY <1>3, <1>7, TakeFrame DEF Threads, Writing, Selecting
<1>8. ASSUME Rises, NEW t \in Threads, Step(t) PROVE Owned'
  BY <1>1, <1>3, <1>8, StepOthers, WritingOn, OwnersBump
<1> QED
  BY <1>2, <1>4, <1>5, <1>6, <1>7, <1>8 DEF Next

(* Two reassigns of a vector nobody deletes never write the same version,   *)
(* in any execution in which no counter of seven bits wraps around: then    *)
(* IncVersion gives each of them a version larger than all before.          *)
THEOREM OwnersDiffer ==
    Spec /\ [][\A v \in Vids \ Deletable : version'[v] >= version[v]]_vars => []OneOwner
<1>1. Init => TypeInv /\ Owned
  <2>1. Init => Owned
    BY DEF Init, Owned, OneOwner, Bounded, Writing, Idle
  <2> QED
    BY <2>1, TypeInit
<1>2. TypeInv /\ Owned /\ [Next]_vars
      /\ [\A v \in Vids \ Deletable : version'[v] >= version[v]]_vars
      => TypeInv' /\ Owned'
  BY TypeStep, OwnedStep DEF Rises
<1>3. Owned => OneOwner
  BY DEF Owned
<1> QED
  BY <1>1, <1>2, <1>3, PTL DEF Spec
=============================================================================
