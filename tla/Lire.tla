-------------------------------- MODULE Lire --------------------------------
(***************************************************************************)
(* The update protocol of SPFresh (LIRE) as                                *)
(* inc/Core/SPANN/ExtraDynamicSearcher.h implements it: vectors are        *)
(* appended to the postings of the nearest heads, a posting that grows     *)
(* over its limit is split by a background job, a posting that a search    *)
(* finds nearly empty is merged into a neighbour, and the vectors whose    *)
(* nearest head changed are reassigned: their version is increased, which  *)
(* makes all their older copies stale, and new copies are appended.        *)
(*                                                                         *)
(* A vector is its id; geometry (distances, k-means, the graph search) is  *)
(* a nondeterministic choice.  A step is what one thread does between two  *)
(* accesses to state another thread may change in between; the scan of one *)
(* posting that its lock protects is one step.                             *)
(***************************************************************************)
EXTENDS Integers, Sequences, FiniteSets

CONSTANTS
    Vids,              \* the vectors a behaviour may insert
    Clients,           \* threads that call AddIndex, DeleteIndex and SearchIndex
    Workers,           \* the threads of m_splitThreadPool
    None,              \* the owner of a free lock, and an unused vid
    InitPosting,       \* what BuildIndex wrote: a sequence of postings of vids
    Deletable,         \* the vectors DeleteIndex is called on
    Twins,             \* vectors that are all the same point
    PostingSizeLimit,  \* m_postingSizeLimit
    ReassignSlack,     \* how far over the limit a reassign may fill a posting (3)
    MergeThreshold,    \* m_mergeThreshold; -1 turns merging off
    ReplicaCount,      \* m_replicaCount
    ReassignK,         \* m_reassignK, how many nearby heads a split rescans
    DisableReassign,   \* m_disableReassign
    LockSlots,         \* how many locks m_rwLocks hashes the heads to
    HeadCapacity,      \* bound: how many heads there may be
    MaxReassigns,      \* bound: how many reassigns the scans may find needed
    MaxMerges          \* bound: how many merges the searches may trigger

Fresh   == 255                 \* the version of a vector never reassigned
DELETED == 254                 \* the version of a deleted vector
Threads == Clients \cup Workers

Heads    == 1..HeadCapacity
Slots    == 0..LockSlots - 1
LockOf(h) == h % LockSlots     \* hash_func: distinct heads may share a lock

ASSUME LireAssumption ==
    /\ IsFiniteSet(Vids) /\ IsFiniteSet(Clients) /\ IsFiniteSet(Workers)
    /\ Clients \cap Workers = {}
    /\ None \notin Threads \cup Vids
    /\ InitPosting \in Seq(Seq(Vids)) /\ Len(InitPosting) > 0
    /\ Deletable \subseteq Vids /\ Twins \subseteq Vids
    /\ PostingSizeLimit \in Nat \ {0} /\ ReassignSlack \in Nat
    /\ MergeThreshold \in Int /\ ReplicaCount \in Nat \ {0} /\ ReassignK \in Nat
    /\ DisableReassign \in BOOLEAN
    /\ LockSlots \in Nat \ {0}
    /\ HeadCapacity \in Nat /\ Len(InitPosting) <= HeadCapacity
    /\ MaxReassigns \in Nat /\ MaxMerges \in Nat

VARIABLES
    added,      \* the vids AddBatch has given a row of the version map
    version,    \* m_versionMap
    headState,  \* the in-memory head index: see HeadStates
    posting,    \* db: the posting of each head, a sequence of copies
    size,       \* m_postingSizes
    lock,       \* m_rwLocks
    mergeLock,  \* m_mergeLock
    splitList,  \* m_splitList: heads with a split on its way
    mergeList,  \* m_mergeList: heads with a merge on its way
    queue,      \* the jobs of m_splitThreadPool
    pc,         \* where each thread is
    loc,        \* the local variables of each thread
    spent,      \* what the bounds have left
    dropped     \* history: vectors whose current copy a merge left behind

shared == <<added, version, headState, posting, size, splitList, mergeList, queue>>
vars   == <<shared, lock, mergeLock, pc, loc, spent, dropped>>

(* free: the id is not in use.  added: AddIndexId has stored the head       *)
(* vector, ContainSample holds.  linked: AddIndexIdx has linked it into the *)
(* graph, searches return it.  deleted: in m_deletedID, for good.           *)
HeadStates == {"free", "added", "linked", "deleted"}

Copy  == [vid : Vids, ver : 0..255]     \* one vectorInfo of a posting
Job   == [type : {"split"}, head : Heads]
           \cup [type : {"merge"}, head : Heads, reassign : BOOLEAN]
           \cup [type : {"reassign"}, copy : Copy, prev : Heads]

(* The local variables of a thread: op is the outermost call it is in, copy *)
(* and sel what Append still has to write and where, head the head at hand, *)
(* list, parts and heads the lists of a split or a merge.                   *)
Idle == [op |-> "none", copy |-> [vid |-> None, ver |-> Fresh], prev |-> 0,
         sel |-> {}, head |-> 0, list |-> <<>>, parts |-> <<>>, same |-> 0,
         heads |-> <<>>, taken |-> {}, reassign |-> FALSE]

----------------------------------------------------------------------------
(* Helpers *)

Contains(h)   == headState[h] \in {"added", "linked"}
Searchable    == {h \in Heads : headState[h] = "linked"}
Live(c)       == version[c.vid] # DELETED /\ version[c.vid] = c.ver
Mutant_NextVersion(v) == v + 1                        \* the & 0x7f is missing
NextVersion(v) == (v + 1) % 128
CopiesIn(s)   == {s[i] : i \in DOMAIN s}
VidsIn(s)     == {s[i].vid : i \in DOMAIN s}
Point(v)      == IF v \in Twins THEN Twins ELSE {v}

(* The subsequence of s at the positions in I, as the one member of a set:  *)
(* it is determined by I, no recursion says how to compute it.              *)
Sublists(s, I) ==
    LET increasing == {f \in [1..Cardinality(I) -> I] :
                          \A i, j \in DOMAIN f : i < j => f[i] < f[j]}
    IN  {[i \in 1..Cardinality(I) |-> s[f[i]]] : f \in increasing}

LivePos(s) == {i \in DOMAIN s : Live(s[i])}
LiveOf(s)  == Sublists(s, LivePos(s))

(* Any answer of the approximate head search: up to k searchable heads. *)
NearHeads(k) == {S \in SUBSET Searchable : Cardinality(S) <= k}

(* RNGSelection: the heads a vector is written to, none only if the head    *)
(* search finds none.                                                       *)
RNGSelections ==
    IF Searchable = {} THEN {{}} ELSE NearHeads(ReplicaCount) \ {{}}

ReassignJob(c, h) == [type |-> "reassign", copy |-> c, prev |-> h]
SplitJob(h)       == [type |-> "split", head |-> h]
MergeJob(h, r)    == [type |-> "merge", head |-> h, reassign |-> r]

(* A mutant: the lock is taken over from a thread that holds it. *)
Mutant_Acquire(t, s) == lock' = [lock EXCEPT ![s] = t]

(* A thread takes the free lock of slot s; ... *)
Acquire(t, s) ==
    /\ lock[s] = None
    /\ lock' = [lock EXCEPT ![s] = t]

(* A mutant: the lock outlives the block it was taken for. *)
Mutant_Unlocked(t) == lock

(* ... a thread gives up all it holds. *)
Unlocked(t) == [s \in Slots |-> IF lock[s] = t THEN None ELSE lock[s]]

Goto(t, label) == pc' = [pc EXCEPT ![t] = label]
Done(t) == /\ pc' = [pc EXCEPT ![t] = "idle"]
           /\ loc' = [loc EXCEPT ![t] = Idle]

(* The end of a split: a reassign that split synchronously goes on with its *)
(* next replica, a job is done.                                             *)
SplitDone(t) ==
    IF loc[t].op = "reassign"
    THEN /\ Goto(t, "next")
         /\ loc' = [loc EXCEPT ![t] = [Idle EXCEPT !.op = "reassign",
                                         !.copy = loc[t].copy, !.sel = loc[t].sel]]
    ELSE Done(t)

Update(t, label, l) == /\ Goto(t, label)
                       /\ loc' = [loc EXCEPT ![t] = l]

----------------------------------------------------------------------------

Init ==
    /\ added = UNION {{InitPosting[h][i] : i \in DOMAIN InitPosting[h]} :
                          h \in DOMAIN InitPosting}
    /\ version = [v \in Vids |-> Fresh]
    /\ headState = [h \in Heads |->
                       IF h <= Len(InitPosting) THEN "linked" ELSE "free"]
    /\ posting = [h \in Heads |->
                     IF h <= Len(InitPosting)
                     THEN [i \in DOMAIN InitPosting[h] |->
                              [vid |-> InitPosting[h][i], ver |-> Fresh]]
                     ELSE <<>>]
    /\ size = [h \in Heads |-> Len(posting[h])]
    /\ lock = [s \in Slots |-> None]
    /\ mergeLock = None
    /\ splitList = {}
    /\ mergeList = {}
    /\ queue = <<>>
    /\ pc  = [t \in Threads |-> "idle"]
    /\ loc = [t \in Threads |-> Idle]
    /\ spent = [reassigns |-> MaxReassigns, merges |-> MaxMerges]
    /\ dropped = {}

----------------------------------------------------------------------------
(* Calls of the clients *)

(* AddIndexSPFresh gives the vector a row of the version map, and AddIndex  *)
(* selects the heads it is going to be appended to.                         *)
AddIndex(t, v) ==
    /\ pc[t] = "idle"
    /\ v \notin added
    /\ added' = added \cup {v}
    /\ \E S \in RNGSelections :
           Update(t, "next", [Idle EXCEPT !.op = "insert", !.sel = S,
                                !.copy = [vid |-> v, ver |-> version[v]]])
    /\ UNCHANGED <<version, headState, posting, size, lock, mergeLock, splitList,
                   mergeList, queue, spent, dropped>>

(* DeleteIndex only marks the vector: its copies stay where they are. *)
Delete(v) ==
    /\ v \in added \cap Deletable
    /\ version[v] # DELETED
    /\ version' = [version EXCEPT ![v] = DELETED]
    /\ UNCHANGED <<added, headState, posting, size, lock, mergeLock, splitList,
                   mergeList, queue, pc, loc, spent, dropped>>

(* SearchIndex reads the posting of a head it found and counts the copies   *)
(* whose vector is not deleted (stale copies included); if they are few,    *)
(* MergeAsync is called, whatever became of the head since...               *)
SearchRead(t, h) ==
    /\ pc[t] = "idle"
    /\ h \in Searchable
    /\ Cardinality({i \in DOMAIN posting[h] : version[posting[h][i].vid] # DELETED})
           <= MergeThreshold
    /\ spent.merges > 0
    /\ spent' = [spent EXCEPT !.merges = @ - 1]
    /\ Update(t, "mergeFind", [Idle EXCEPT !.op = "search", !.head = h])
    /\ UNCHANGED <<shared, lock, mergeLock, dropped>>

(* ... which looks for the head in m_mergeList... *)
SearchFind(t) ==
    /\ pc[t] = "mergeFind"
    /\ IF loc[t].head \in mergeList THEN Done(t) ELSE Goto(t, "mergeAdd") /\ loc' = loc
    /\ UNCHANGED <<shared, lock, mergeLock, spent, dropped>>

(* ... and, in a second step, inserts it and adds the job. *)
SearchAdd(t) ==
    /\ pc[t] = "mergeAdd"
    /\ mergeList' = mergeList \cup {loc[t].head}
    /\ queue' = Append(queue, MergeJob(loc[t].head, ~DisableReassign))
    /\ Done(t)
    /\ UNCHANGED <<added, version, headState, posting, size, lock, mergeLock,
                   splitList, spent, dropped>>

----------------------------------------------------------------------------
(* Append *)

(* The loop over the selected heads: AddIndex writes every replica, a       *)
(* reassign stops once the version it writes is no longer the current one.  *)
NextReplica(t) ==
    LET l == loc[t] IN
    /\ pc[t] = "next"
    /\ IF l.sel = {} \/ (l.op = "reassign" /\ version[l.copy.vid] # l.copy.ver)
       THEN Done(t)
       ELSE \E h \in l.sel :
                Update(t, "append", [l EXCEPT !.head = h, !.sel = @ \ {h}])
    /\ UNCHANGED <<shared, lock, mergeLock, spent, dropped>>

(* A mutant: a missed head is not reported to a reassign. *)
Mutant_AppendMiss(t) ==
    /\ pc[t] = "append"
    /\ ~Contains(loc[t].head)
    /\ IF loc[t].op = "reassign" THEN Done(t) ELSE Goto(t, "next") /\ loc' = loc
    /\ UNCHANGED <<shared, lock, mergeLock, spent, dropped>>

(* ContainSample fails, before the lock is taken or under it: the vector    *)
(* goes to a reassign of its own if its copy is still the current one.      *)
(* AddIndex goes on with the next replica, a reassign gives up.             *)
AppendMiss(t) ==
    LET l == loc[t] IN
    /\ pc[t] = "append"
    /\ ~Contains(l.head)
    /\ queue' = IF version[l.copy.vid] = l.copy.ver
                THEN Append(queue, ReassignJob(l.copy, l.head)) ELSE queue
    /\ IF l.op = "reassign" THEN Done(t)
                            ELSE Update(t, "next", [l EXCEPT !.head = 0])
    /\ UNCHANGED <<added, version, headState, posting, size, lock, mergeLock,
                   splitList, mergeList, spent, dropped>>

(* A mutant: ContainSample is not looked at again under the lock. *)
Mutant_AppendMerge(t) ==
    LET l == loc[t] IN
    /\ pc[t] = "append"
    /\ lock[LockOf(l.head)] = None
    /\ posting' = [posting EXCEPT ![l.head] = Append(@, l.copy)]
    /\ size' = [size EXCEPT ![l.head] = @ + 1]
    /\ Goto(t, "appended")
    /\ UNCHANGED <<added, version, headState, lock, mergeLock, splitList,
                   mergeList, queue, loc, spent, dropped>>

(* The head's lock is taken, ContainSample holds under it, the copy is      *)
(* appended to the posting, and the lock is released.                       *)
AppendMerge(t) ==
    LET l == loc[t] IN
    /\ pc[t] = "append"
    /\ lock[LockOf(l.head)] = None
    /\ Contains(l.head)
    /\ posting' = [posting EXCEPT ![l.head] = Append(@, l.copy)]
    /\ size' = [size EXCEPT ![l.head] = @ + 1]
    /\ Goto(t, "appended")
    /\ UNCHANGED <<added, version, headState, lock, mergeLock, splitList,
                   mergeList, queue, loc, spent, dropped>>

Slack(op) == IF op = "reassign" THEN ReassignSlack ELSE 0

(* With the lock released, the size decides: an insert has the posting      *)
(* split in the background unless that is on its way already...             *)
SplitAsync(t) ==
    LET h == loc[t].head IN
    /\ pc[t] = "appended"
    /\ loc[t].op = "insert"
    /\ size[h] > PostingSizeLimit
    /\ splitList' = splitList \cup {h}
    /\ queue' = IF h \in splitList THEN queue ELSE Append(queue, SplitJob(h))
    /\ Update(t, "next", [loc[t] EXCEPT !.head = 0])
    /\ UNCHANGED <<added, version, headState, posting, size, lock, mergeLock,
                   mergeList, spent, dropped>>

(* ... a reassign splits it right away, with no entry in m_splitList. *)
SplitSync(t) ==
    LET l == loc[t] IN
    /\ pc[t] = "appended"
    /\ l.op = "reassign"
    /\ size[l.head] > PostingSizeLimit + ReassignSlack
    /\ Update(t, "splitLock", [l EXCEPT !.reassign = ~DisableReassign])
    /\ UNCHANGED <<shared, lock, mergeLock, spent, dropped>>

Appended(t) ==
    LET l == loc[t] IN
    /\ pc[t] = "appended"
    /\ size[l.head] <= PostingSizeLimit + Slack(l.op)
    /\ Update(t, "next", [l EXCEPT !.head = 0])
    /\ UNCHANGED <<shared, lock, mergeLock, spent, dropped>>

----------------------------------------------------------------------------
(* The workers of m_splitThreadPool, and Reassign *)

Take(t) ==
    LET j == Head(queue) IN
    /\ t \in Workers
    /\ pc[t] = "idle"
    /\ queue # <<>>
    /\ queue' = Tail(queue)
    /\ CASE j.type = "split" ->
              Update(t, "splitLock", [Idle EXCEPT !.op = "split", !.head = j.head,
                                        !.reassign = ~DisableReassign])
         [] j.type = "merge" ->
              Update(t, "mergeTry", [Idle EXCEPT !.op = "merge", !.head = j.head,
                                       !.reassign = j.reassign])
         [] j.type = "reassign" ->
              Update(t, "reassign", [Idle EXCEPT !.op = "reassign",
                                       !.copy = j.copy, !.prev = j.prev])
    /\ UNCHANGED <<added, version, headState, posting, size, lock, mergeLock,
                   splitList, mergeList, spent, dropped>>

(* A copy that is not the current one is dropped.  Otherwise the heads are  *)
(* selected anew; no reassign is needed if the one it comes from is there.  *)
ReassignSelect(t) ==
    LET l == loc[t] IN
    /\ pc[t] = "reassign"
    /\ IF Live(l.copy)
       THEN \E S \in RNGSelections :
                IF l.prev \in S THEN Done(t)
                ELSE Update(t, "reassignCheck", [l EXCEPT !.sel = S])
       ELSE Done(t)
    /\ UNCHANGED <<shared, lock, mergeLock, spent, dropped>>

(* The second look at the version, and IncVersion's look at Deleted. *)
ReassignCheck(t) ==
    /\ pc[t] = "reassignCheck"
    /\ IF Live(loc[t].copy) THEN Goto(t, "bump") /\ loc' = loc ELSE Done(t)
    /\ UNCHANGED <<shared, lock, mergeLock, spent, dropped>>

(* A mutant: the new version is computed from the one the job was made with. *)
Mutant_ReassignBump(t) ==
    LET l == loc[t]
        new == NextVersion(l.copy.ver)
    IN
    /\ pc[t] = "bump"
    /\ version' = [version EXCEPT ![l.copy.vid] = new]
    /\ Update(t, "next", [l EXCEPT !.copy.ver = new])
    /\ UNCHANGED <<added, headState, posting, size, lock, mergeLock, splitList,
                   mergeList, queue, spent, dropped>>

(* IncVersion: whatever the byte is by now, its successor becomes current   *)
(* (VersionLabel.tla takes this step apart).                                *)
ReassignBump(t) ==
    LET l == loc[t]
        new == NextVersion(version[l.copy.vid])
    IN
    /\ pc[t] = "bump"
    /\ version' = [version EXCEPT ![l.copy.vid] = new]
    /\ Update(t, "next", [l EXCEPT !.copy.ver = new])
    /\ UNCHANGED <<added, headState, posting, size, lock, mergeLock, splitList,
                   mergeList, queue, spent, dropped>>

----------------------------------------------------------------------------
(* Split *)

(* The ways to cut a list in two clusters: neither is empty. *)
Clusterings(list) ==
    UNION {Sublists(list, I) \X Sublists(list, (DOMAIN list) \ I) :
              I \in SUBSET (DOMAIN list) \ {{}, DOMAIN list}}

FreeHeads == {h \in Heads : headState[h] = "free"}
NewHead   == CHOOSE h \in FreeHeads : \A g \in FreeHeads : h <= g

(* Under the lock of the head (which may be deleted by now: nobody looks)   *)
(* the current copies are picked out.  Too few of them are written back     *)
(* (garbage collection), of several copies of one point one is kept, else   *)
(* the list is clustered; same is the cluster whose center is the old head. *)
SplitLock(t) ==
    LET l == loc[t]
        h == l.head
    IN
    /\ pc[t] = "splitLock"
    /\ Acquire(t, LockOf(h))
    /\ \E list \in LiveOf(posting[h]) :
          \/ /\ Len(list) < PostingSizeLimit
             /\ Update(t, "splitBack", [l EXCEPT !.list = list])
          \/ /\ Len(list) >= PostingSizeLimit
             /\ Cardinality({Point(v) : v \in VidsIn(list)}) = 1
             /\ \E c \in CopiesIn(list) :
                    Update(t, "splitBack", [l EXCEPT !.list = <<c>>])
          \/ /\ Len(list) >= PostingSizeLimit
             /\ Cardinality({Point(v) : v \in VidsIn(list)}) > 1
             /\ \E parts \in Clusterings(list), same \in 0..2 :
                    Update(t, "splitPut", [l EXCEPT !.parts = parts, !.same = same,
                                                    !.heads = <<>>])
    /\ UNCHANGED <<shared, mergeLock, spent, dropped>>

(* The shortened posting is written and the split is over. *)
SplitBack(t) ==
    LET h == loc[t].head IN
    /\ pc[t] = "splitBack"
    /\ posting' = [posting EXCEPT ![h] = loc[t].list]
    /\ size' = [size EXCEPT ![h] = Len(loc[t].list)]
    /\ splitList' = splitList \ {h}
    /\ lock' = Unlocked(t)
    /\ SplitDone(t)
    /\ UNCHANGED <<added, version, headState, mergeLock, mergeList, queue, spent, dropped>>

(* A mutant: the split stops after its first cluster. *)
Mutant_AfterPart(heads) == "splitRetire"

AfterPart(heads) == IF Len(heads) = 2 THEN "splitRetire" ELSE "splitPut"

(* A mutant: the size of the shortened posting is not written. *)
Mutant_SplitPutSame(t) ==
    LET l == loc[t]
        heads == Append(l.heads, l.head)
    IN
    /\ pc[t] = "splitPut"
    /\ l.same = Len(heads)
    /\ posting' = [posting EXCEPT ![l.head] = l.parts[Len(heads)]]
    /\ Update(t, AfterPart(heads), [l EXCEPT !.heads = heads])
    /\ UNCHANGED <<added, version, headState, size, lock, mergeLock, splitList,
                   mergeList, queue, spent, dropped>>

(* The cluster around the old head overwrites its posting. *)
SplitPutSame(t) ==
    LET l == loc[t]
        h == l.head
        k == Len(l.heads) + 1
        heads == Append(l.heads, h)
    IN
    /\ pc[t] = "splitPut"
    /\ l.same = k
    /\ posting' = [posting EXCEPT ![h] = l.parts[k]]
    /\ size' = [size EXCEPT ![h] = Len(l.parts[k])]
    /\ Update(t, AfterPart(heads), [l EXCEPT !.heads = heads])
    /\ UNCHANGED <<added, version, headState, lock, mergeLock, splitList, mergeList,
                   queue, spent, dropped>>

(* Any other cluster gets a new head and a posting of its own... *)
SplitPutNew(t) ==
    LET l == loc[t]
        k == Len(l.heads) + 1
    IN
    /\ pc[t] = "splitPut"
    /\ l.same # k
    /\ FreeHeads # {}
    /\ headState' = [headState EXCEPT ![NewHead] = "added"]
    /\ posting' = [posting EXCEPT ![NewHead] = l.parts[k]]
    /\ Update(t, "splitLink", [l EXCEPT !.heads = Append(@, NewHead)])
    /\ UNCHANGED <<added, version, size, lock, mergeLock, splitList, mergeList,
                   queue, spent, dropped>>

LastHead(l) == l.heads[Len(l.heads)]

(* ... is linked into the graph, from when on it is searched and appended   *)
(* to, under a lock the split does not hold...                              *)
SplitLink(t) ==
    /\ pc[t] = "splitLink"
    /\ headState' = [headState EXCEPT ![LastHead(loc[t])] = "linked"]
    /\ Goto(t, "splitSize")
    /\ UNCHANGED <<added, version, posting, size, lock, mergeLock, splitList,
                   mergeList, queue, loc, spent, dropped>>

(* ... and only then has its size written. *)
SplitSize(t) ==
    LET l == loc[t] IN
    /\ pc[t] = "splitSize"
    /\ size' = [size EXCEPT ![LastHead(l)] = Len(l.parts[Len(l.heads)])]
    /\ Goto(t, AfterPart(l.heads))
    /\ UNCHANGED <<added, version, headState, posting, lock, mergeLock, splitList,
                   mergeList, queue, loc, spent, dropped>>

(* An old head that no cluster kept is deleted, its posting stays; the lock *)
(* is released.                                                             *)
SplitRetire(t) ==
    LET h == loc[t].head IN
    /\ pc[t] = "splitRetire"
    /\ IF loc[t].same = 0
       THEN /\ headState' = [headState EXCEPT ![h] = "deleted"]
            /\ size' = [size EXCEPT ![h] = 0]
       ELSE UNCHANGED <<headState, size>>
    /\ lock' = Unlocked(t)
    /\ Goto(t, "splitErase")
    /\ UNCHANGED <<added, version, posting, mergeLock, splitList, mergeList, queue,
                   loc, spent, dropped>>

(* A mutant: the end of a split does not erase the head from m_splitList. *)
Mutant_SplitErase(t) ==
    /\ pc[t] = "splitErase"
    /\ IF loc[t].reassign
       THEN Goto(t, "collect") /\ loc' = loc
       ELSE SplitDone(t)
    /\ UNCHANGED <<shared, lock, mergeLock, spent, dropped>>

SplitErase(t) ==
    /\ pc[t] = "splitErase"
    /\ splitList' = splitList \ {loc[t].head}
    /\ IF loc[t].reassign
       THEN Goto(t, "collect") /\ loc' = loc
       ELSE SplitDone(t)
    /\ UNCHANGED <<added, version, headState, posting, size, lock, mergeLock,
                   mergeList, queue, spent, dropped>>

(* CollectReAssign looks at the current copies of the lists parts (of the   *)
(* heads heads), one list after the other.                                  *)
ScanPos(l)   == UNION {{k} \X LivePos(l.parts[k]) : k \in DOMAIN l.parts}
Before(p, q) == p[1] < q[1] \/ (p[1] = q[1] /\ p[2] < q[2])

(* Distances decide which of them need a reassign: any choice that takes a  *)
(* vector once.  Where the scan of the two clusters ends, the nearby heads  *)
(* are searched for, if m_reassignK says so.                                *)
Collect(t) ==
    LET l == loc[t]
        at(p) == l.parts[p[1]][p[2]]
    IN
    /\ pc[t] \in {"collect", "rescan"}
    /\ \E n \in 0..spent.reassigns : \E f \in [1..n -> ScanPos(l)] :
          /\ \A i \in 1..n : at(f[i]).vid \notin l.taken
          /\ \A i, j \in 1..n : i < j =>
                Before(f[i], f[j]) /\ at(f[i]).vid # at(f[j]).vid
          /\ spent' = [spent EXCEPT !.reassigns = @ - n]
          /\ queue' = queue \o
                [i \in 1..n |-> ReassignJob(at(f[i]), l.heads[f[i][1]])]
          /\ IF pc[t] = "collect" /\ ReassignK > 0
             THEN Update(t, "nearby", [l EXCEPT !.parts = <<>>,
                            !.taken = {at(f[i]).vid : i \in 1..n}])
             ELSE SplitDone(t)
    /\ UNCHANGED <<added, version, headState, posting, size, lock, mergeLock,
                   splitList, mergeList, dropped>>

(* The nearby heads that are not the new ones, in any order. *)
CollectSearch(t) ==
    /\ pc[t] = "nearby"
    /\ \E n \in 0..ReassignK :
          \E hs \in [1..n -> Searchable \ {loc[t].heads[1], loc[t].heads[2]}] :
              /\ \A i, j \in 1..n : hs[i] = hs[j] => i = j
              /\ Update(t, "read", [loc[t] EXCEPT !.heads = hs])
    /\ UNCHANGED <<shared, lock, mergeLock, spent, dropped>>

(* MultiGet takes no lock: the postings may belong to deleted heads by now. *)
CollectRead(t) ==
    LET l == loc[t] IN
    /\ pc[t] = "read"
    /\ Update(t, "rescan", [l EXCEPT !.parts =
                               [i \in DOMAIN l.heads |-> posting[l.heads[i]]]])
    /\ UNCHANGED <<shared, lock, mergeLock, spent, dropped>>

----------------------------------------------------------------------------
(* MergePostings *)

(* m_mergeLock is only tried.  If another merge holds it, the job is added  *)
(* again; the argument MergeAsyncJob calls disableReassign is then given    *)
(* the value of reassign, so the flag is inverted each time.                *)
MergeTry(t) ==
    LET l == loc[t] IN
    /\ pc[t] = "mergeTry"
    /\ IF mergeLock = None
       THEN /\ mergeLock' = t
            /\ Goto(t, "mergeLockHead")
            /\ UNCHANGED <<queue, loc>>
       ELSE /\ queue' = Append(queue, MergeJob(l.head, ~l.reassign))
            /\ Done(t)
            /\ UNCHANGED mergeLock
    /\ UNCHANGED <<added, version, headState, posting, size, lock, splitList,
                   mergeList, spent, dropped>>

(* A mutant: m_mergeLock is kept when the head is gone. *)
Mutant_MergeGone(t) ==
    /\ pc[t] = "mergeLockHead"
    /\ lock[LockOf(loc[t].head)] = None
    /\ ~Contains(loc[t].head)
    /\ Done(t)
    /\ UNCHANGED <<shared, lock, mergeLock, spent, dropped>>

(* A head deleted since then is left alone, and left in m_mergeList. *)
MergeGone(t) ==
    /\ pc[t] = "mergeLockHead"
    /\ lock[LockOf(loc[t].head)] = None
    /\ ~Contains(loc[t].head)
    /\ mergeLock' = None
    /\ Done(t)
    /\ UNCHANGED <<shared, lock, spent, dropped>>

(* Under the lock of the head its current copies are picked out; if they    *)
(* are few, the heads near it are the candidates to merge with.             *)
MergeLockHead(t) ==
    LET l == loc[t]
        h == l.head
    IN
    /\ pc[t] = "mergeLockHead"
    /\ Acquire(t, LockOf(h))
    /\ Contains(h)
    /\ \E list \in LiveOf(posting[h]) :
          IF Len(list) > MergeThreshold
          THEN Update(t, "mergeBack", [l EXCEPT !.list = list])
          ELSE \E S \in SUBSET (Searchable \ {h}) :
                  Update(t, "mergeVisit", [l EXCEPT !.list = list, !.sel = S,
                                                    !.parts = <<posting[h]>>])
    /\ UNCHANGED <<shared, mergeLock, spent, dropped>>

(* The candidates one by one: the size record says whether the two fit in   *)
(* one posting, m_mergeList whether the other waits for a merge itself.     *)
MergeVisit(t) ==
    LET l == loc[t] IN
    /\ pc[t] = "mergeVisit"
    /\ IF l.sel = {}
       THEN Update(t, "mergeBack", [l EXCEPT !.parts = <<>>])
       ELSE \E c \in l.sel :
                LET rest == [l EXCEPT !.sel = @ \ {c}]
                IN  IF Len(l.list) + size[c] < PostingSizeLimit /\ c \notin mergeList
                    THEN Update(t, "mergeWith", [rest EXCEPT !.prev = c])
                    ELSE Update(t, "mergeVisit", rest)
    /\ UNCHANGED <<shared, lock, mergeLock, spent, dropped>>

(* Two heads may hash to the same lock, which is not taken twice. *)
PartnerFree(t, c) == lock[LockOf(c)] \in {None, t}

(* The candidate was deleted before its lock was taken: on to the next. *)
MergePartnerGone(t) ==
    /\ pc[t] = "mergeWith"
    /\ PartnerFree(t, loc[t].prev)
    /\ ~Contains(loc[t].prev)
    /\ Goto(t, "mergeVisit")
    /\ UNCHANGED <<shared, lock, mergeLock, loc, spent, dropped>>

(* The current copies of the partner c whose vector is not listed yet join  *)
(* the list.  The head with more of them stays and gets the list, the other *)
(* is deleted; then the locks are released.                                 *)
MergeWith(t) ==
    LET l == loc[t]
        h == l.head
        c == l.prev
        New(s) == {i \in DOMAIN s : s[i].vid \notin VidsIn(l.list)}
    IN
    /\ pc[t] = "mergeWith"
    /\ PartnerFree(t, c)
    /\ Contains(c)
    /\ \E theirs \in LiveOf(posting[c]) : \E new \in Sublists(theirs, New(theirs)) :
          LET merged == l.list \o new
              keepH  == Len(l.list) > Len(theirs)
              winner == IF keepH THEN h ELSE c
              loser  == IF keepH THEN c ELSE h
              raw    == IF keepH THEN posting[c] ELSE l.parts[1]
              count  == IF keepH THEN Len(theirs) ELSE Len(l.list)
          IN
          /\ headState' = [headState EXCEPT ![loser] = "deleted"]
          /\ posting' = [posting EXCEPT ![winner] = merged]
          /\ size' = [size EXCEPT ![winner] = Len(merged), ![loser] = 0]
          /\ dropped' = dropped \cup
                {v \in VidsIn(theirs) : [vid |-> v, ver |-> version[v]] \notin CopiesIn(merged)}
          /\ Update(t, "mergeReassign", [l EXCEPT !.list = SubSeq(raw, 1, count),
                                           !.parts = <<>>, !.heads = <<winner>>, !.sel = {}])
    /\ lock' = Unlocked(t)
    /\ mergeLock' = None
    /\ UNCHANGED <<added, version, splitList, mergeList, queue, spent>>

(* With the flag set, as many copies of the deleted head's posting as it    *)
(* had current ones, taken from its front, are looked at for a reassign.    *)
MergeReassign(t) ==
    LET l == loc[t] IN
    /\ pc[t] = "mergeReassign"
    /\ \E I \in SUBSET (IF l.reassign THEN DOMAIN l.list ELSE {}) :
          /\ Cardinality(I) <= spent.reassigns
          /\ spent' = [spent EXCEPT !.reassigns = @ - Cardinality(I)]
          /\ \E copies \in Sublists(l.list, I) :
                queue' = queue \o
                    [i \in DOMAIN copies |-> ReassignJob(copies[i], l.heads[1])]
    /\ mergeList' = mergeList \ {l.head}
    /\ Done(t)
    /\ UNCHANGED <<added, version, headState, posting, size, lock, mergeLock,
                   splitList, dropped>>

(* A mutant: a merge that finds no partner stays in m_mergeList. *)
Mutant_MergeBack(t) ==
    LET h == loc[t].head IN
    /\ pc[t] = "mergeBack"
    /\ size' = [size EXCEPT ![h] = Len(loc[t].list)]
    /\ posting' = [posting EXCEPT ![h] = loc[t].list]
    /\ mergeLock' = None
    /\ lock' = Unlocked(t)
    /\ Done(t)
    /\ UNCHANGED <<added, version, headState, splitList, mergeList, queue, spent, dropped>>

(* Too long for a merge, or no partner: the current copies are written back. *)
MergeBack(t) ==
    LET h == loc[t].head IN
    /\ pc[t] = "mergeBack"
    /\ size' = [size EXCEPT ![h] = Len(loc[t].list)]
    /\ posting' = [posting EXCEPT ![h] = loc[t].list]
    /\ mergeList' = mergeList \ {h}
    /\ mergeLock' = None
    /\ lock' = Unlocked(t)
    /\ Done(t)
    /\ UNCHANGED <<added, version, headState, splitList, queue, spent, dropped>>

----------------------------------------------------------------------------

(* The next step of a thread that is in a call or a job. *)
Step(t) ==
    \/ SearchFind(t) \/ SearchAdd(t) \/ NextReplica(t)
    \/ AppendMiss(t) \/ AppendMerge(t)
    \/ SplitAsync(t) \/ SplitSync(t) \/ Appended(t)
    \/ ReassignSelect(t) \/ ReassignCheck(t) \/ ReassignBump(t)
    \/ SplitLock(t) \/ SplitBack(t) \/ SplitPutSame(t) \/ SplitPutNew(t)
    \/ SplitLink(t) \/ SplitSize(t) \/ SplitRetire(t) \/ SplitErase(t)
    \/ Collect(t) \/ CollectSearch(t) \/ CollectRead(t)
    \/ MergeTry(t) \/ MergeGone(t) \/ MergeLockHead(t) \/ MergeVisit(t)
    \/ MergePartnerGone(t) \/ MergeWith(t) \/ MergeReassign(t) \/ MergeBack(t)

Next ==
    \/ \E t \in Clients, v \in Vids : AddIndex(t, v)
    \/ \E v \in Vids : Delete(v)
    \/ \E t \in Clients, h \in Heads : SearchRead(t, h)
    \/ \E t \in Workers : Take(t)
    \/ \E t \in Threads : Step(t)

Spec == Init /\ [][Next]_vars

(* The threads keep running, and an idle worker waits on the queue.  Nobody *)
(* is obliged to insert, to delete or to search.                            *)
FairSpec ==
    /\ Spec
    /\ \A t \in Threads : WF_vars(Step(t))
    /\ \A t \in Workers : WF_vars(Take(t))

----------------------------------------------------------------------------
(* Properties *)

Labels ==
    {"idle", "mergeFind", "mergeAdd", "next", "append", "appended", "reassign",
     "reassignCheck", "bump", "splitLock", "splitBack", "splitPut", "splitLink",
     "splitSize", "splitRetire", "splitErase", "collect", "nearby", "read",
     "rescan", "mergeTry", "mergeLockHead", "mergeVisit", "mergeWith",
     "mergeReassign", "mergeBack"}

(* The critical sections: where a thread holds the lock of its head. *)
Locked == {"splitBack", "splitPut", "splitLink", "splitSize", "splitRetire",
           "mergeVisit", "mergeWith", "mergeBack"}

InMerge == {"mergeLockHead", "mergeVisit", "mergeWith", "mergeBack"}

Loc == [op : {"none", "insert", "reassign", "split", "merge", "search"},
        copy : [vid : Vids \cup {None}, ver : 0..255], prev : Heads \cup {0},
        sel : SUBSET Heads, head : Heads \cup {0}, list : Seq(Copy),
        parts : Seq(Seq(Copy)), same : 0..2, heads : Seq(Heads),
        taken : SUBSET Vids, reassign : BOOLEAN]

TypeOK ==
    /\ added \in SUBSET Vids
    /\ version \in [Vids -> 0..255]
    /\ headState \in [Heads -> HeadStates]
    /\ posting \in [Heads -> Seq(Copy)]
    /\ size \in [Heads -> Nat]
    /\ lock \in [Slots -> Threads \cup {None}]
    /\ mergeLock \in Threads \cup {None}
    /\ splitList \in SUBSET Heads
    /\ mergeList \in SUBSET Heads
    /\ queue \in Seq(Job)
    /\ pc \in [Threads -> Labels]
    /\ loc \in [Threads -> Loc]
    /\ spent \in [reassigns : Nat, merges : Nat]
    /\ dropped \in SUBSET Vids

(* The locks are right: a thread holds the slot of its head exactly in the  *)
(* critical sections, and m_mergeLock exactly in a merge.                   *)
LockDiscipline ==
    /\ \A t \in Threads :
          pc[t] \in Locked => lock[LockOf(loc[t].head)] = t
    /\ \A s \in Slots : lock[s] # None =>
          pc[lock[s]] \in Locked /\ s = LockOf(loc[lock[s]].head)
    /\ \A t \in Threads : pc[t] \in InMerge <=> mergeLock = t

(* The current copy of v is in the posting of a head that searches return. *)
Stored(v) ==
    \E h \in Searchable : [vid |-> v, ver |-> version[v]] \in CopiesIn(posting[h])

(* The clusters of a split whose head searches do not return yet. *)
Unlinked(t) ==
    CASE pc[t] \in {"splitPut", "splitSize"} -> Len(loc[t].heads) + 1..2
      [] pc[t] = "splitLink"                -> Len(loc[t].heads)..2
      [] OTHER                              -> {}

Selecting == {"reassign", "reassignCheck", "bump"}

(* The current copy of v is on its way to such a posting: in the hands of   *)
(* an append or a reassign, in a queued one, or in a cluster of a split     *)
(* that has not linked its new heads yet.                                   *)
Carried(v) ==
    LET current == [vid |-> v, ver |-> version[v]] IN
    \/ \E t \in Threads :
          /\ pc[t] \in {"next", "append"}
          /\ loc[t].copy = current
          /\ loc[t].sel # {} \/ pc[t] = "append"
    \/ \E t \in Workers : pc[t] \in Selecting /\ loc[t].copy = current
    \/ \E i \in DOMAIN queue : queue[i].type = "reassign" /\ queue[i].copy = current
    \/ \E t \in Threads : \E k \in Unlinked(t) : current \in CopiesIn(loc[t].parts[k])

(* No vector gets lost: a vector that was not deleted is, whatever splits,  *)
(* merges and reassigns do at the same time, found in a posting a search    *)
(* reads, or on its way to one.  The vectors that split keeps one of (all   *)
(* the same point) and the ones a merge left behind are excepted.           *)
NoLostVector ==
    \A v \in added \ (Twins \cup dropped) :
        version[v] # DELETED => Stored(v) \/ Carried(v)

(* m_splitList is a promise: a head in it has a split in the queue or a     *)
(* thread that is going to erase it; else the head would never be split     *)
(* again.                                                                   *)
Splitting == {"splitLock", "splitBack", "splitPut", "splitLink", "splitSize",
              "splitRetire", "splitErase"}

SplitListBacked ==
    \A h \in splitList :
        \/ SplitJob(h) \in {queue[i] : i \in DOMAIN queue}
        \/ \E t \in Threads : pc[t] \in Splitting /\ loc[t].head = h

(* m_mergeList is one too, but only for the heads that still exist. *)
MergeListBacked ==
    \A h \in mergeList : Contains(h) =>
        \/ \E i \in DOMAIN queue : queue[i].type = "merge" /\ queue[i].head = h
        \/ \E t \in Workers : loc[t].op = "merge" /\ loc[t].head = h

(* Two reassigns of a vector nobody deletes (a deletion resets the counter) *)
(* never write the same version: what the one that lost writes is stale.    *)
(* The counter has seven bits, so this is said of instances with fewer      *)
(* reassigns than that: a reassign that sleeps while 128 others pass it     *)
(* wakes up with a version that is current again.                           *)
Writing(t) == loc[t].op = "reassign" /\ pc[t] \notin Selecting

OneOwner ==
    \A t, u \in Threads :
        t # u /\ Writing(t) /\ Writing(u) /\ loc[t].copy.vid \notin Deletable
            => loc[t].copy # loc[u].copy

(* m_postingSizes comes to say more than a posting holds, so that it is     *)
(* split for nothing, in one case only: a split writes the size of its new  *)
(* head after somebody else has shortened that posting.  No append, garbage *)
(* collection, merge, split of an old posting or retired head makes a size  *)
(* too large.  (It may say less while SplitLink and SplitSize are apart.)   *)
SizeOver(h) == size[h] > Len(posting[h])

LateSize(h) ==
    \E t \in Threads :
        pc[t] = "splitSize" /\ pc'[t] # "splitSize" /\ LastHead(loc[t]) = h

SizeOverOnlyLate ==
    [][\A h \in Heads : SizeOver(h)' => SizeOver(h) \/ LateSize(h)]_vars

(* ContainSample is looked at again under the lock: nothing is appended to  *)
(* a posting no search will ever read.                                      *)
NoAppendToDeletedHead ==
    [][\A h \in Heads : headState[h] = "deleted"
           => Len(posting'[h]) <= Len(posting[h])]_vars

(* In the end every vector is found by a search, whatever it went through:  *)
(* it comes to rest in a posting of a head that searches return.            *)
Findable ==
    \A v \in Vids \ Twins :
        (v \in added) ~> (v \in dropped \/ version[v] = DELETED \/ Stored(v))

(* The background work ends: once the clients have no more calls to make,   *)
(* the queue runs empty, the workers wait, and no lock is held.             *)
Quiet == /\ queue = <<>>
         /\ \A t \in Threads : pc[t] = "idle"
         /\ \A s \in Slots : lock[s] = None
         /\ mergeLock = None
Quiesces == <>[]Quiet
=============================================================================
