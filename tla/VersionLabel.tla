---------------------------- MODULE VersionLabel ----------------------------
(***************************************************************************)
(* The version map of a SPANN index (inc/Core/Common/VersionLabel.h): one  *)
(* byte per vector.  0xff is a vector that was never reassigned, 0xfe a    *)
(* deleted one, anything else the 7-bit reassign counter that the copies   *)
(* of the vector in the postings are compared with.  Every step below is   *)
(* one access to the shared byte or to the shared counter m_deleted: the   *)
(* class takes no lock, so the calls of several threads interleave here.   *)
(***************************************************************************)
EXTENDS Integers, FiniteSets

CONSTANTS
    Keys,              \* the vector ids, the rows m_data may come to hold
    Threads,           \* the threads that call Delete and IncVersion
    NoKey,             \* the argument of a thread that is not in a call
    VersionModulus,    \* 0x7f + 1 in the code: the counter wraps at this value
    MaxCalls           \* bound: how many calls a behaviour may start

Fresh   == 255         \* 0xff, what Dataset fills a new row with
DELETED == 254         \* 0xfe

ASSUME VersionLabelAssumption ==
    /\ IsFiniteSet(Keys) /\ IsFiniteSet(Threads)
    /\ NoKey \notin Keys
    /\ VersionModulus \in 1..DELETED
    /\ 256 % VersionModulus = 0
    /\ MaxCalls \in Nat

VARIABLES
    rows,        \* the keys below m_data.R(): AddBatch has created their row
    data,        \* m_data, the version byte of each key
    m_deleted,   \* the counter of deletions
    pc,          \* where each thread is in its call
    key,         \* the key argument of each thread's call
    old,         \* IncVersion's local oldVersion
    new,         \* IncVersion's *newVersion, what the caller will write in its copies
    disk,        \* what Save last wrote: the header and the rows
    calls,       \* how many calls were started, for MaxCalls
    bumps,       \* history: successful IncVersion calls on each key
    everDeleted, \* history: the keys some Delete has hit
    revived      \* history: IncVersion calls that took a key out of 0xfe

vars == <<rows, data, m_deleted, pc, key, old, new, disk, calls, bumps,
          everDeleted, revived>>

Version    == 0..VersionModulus - 1
Byte       == Version \cup {Fresh, DELETED}
Steps      == {"idle", "exchange", "count", "check", "read", "swap", "rows"}
DeletedRows(f) == {k \in Keys : f[k] = DELETED}

----------------------------------------------------------------------------
(* Reads of the byte, and the arithmetic of IncVersion. *)

Deleted(k)            == data[k] = DELETED
Mutant_NextVersion(v) == v + 1                        \* the & 0x7f is missing
NextVersion(v)        == (v + 1) % VersionModulus
Count                 == Cardinality(rows) - m_deleted

----------------------------------------------------------------------------

Init ==
    /\ rows = {}
    /\ data = [k \in Keys |-> Fresh]
    /\ m_deleted = 0
    /\ pc  = [t \in Threads |-> "idle"]
    /\ key = [t \in Threads |-> NoKey]
    /\ old = [t \in Threads |-> Fresh]
    /\ new = [t \in Threads |-> Fresh]
    /\ disk = [deleted |-> 0, rows |-> {}, data |-> [k \in Keys |-> Fresh],
               bumps |-> [k \in Keys |-> 0], everDeleted |-> {}, revived |-> 0]
    /\ calls = 0
    /\ bumps = [k \in Keys |-> 0]
    /\ everDeleted = {}
    /\ revived = 0

(* AddBatch(1): the next row becomes valid, filled with 0xff. *)
AddBatch(k) ==
    /\ k \notin rows
    /\ rows' = rows \cup {k}
    /\ UNCHANGED <<data, m_deleted, pc, key, old, new, disk, calls, bumps,
                   everDeleted, revived>>

(* A thread enters Delete(k) or IncVersion(k) on an existing row. *)
Call(t, k, step) ==
    /\ pc[t] = "idle"
    /\ k \in rows
    /\ calls < MaxCalls
    /\ calls' = calls + 1
    /\ pc' = [pc EXCEPT ![t] = step]
    /\ key' = [key EXCEPT ![t] = k]
    /\ UNCHANGED <<rows, data, m_deleted, old, new, disk, bumps, everDeleted, revived>>

Return(t) ==
    /\ pc' = [pc EXCEPT ![t] = "idle"]
    /\ key' = [key EXCEPT ![t] = NoKey]

Goto(t, step) ==
    /\ pc' = [pc EXCEPT ![t] = step]
    /\ key' = key

(* A mutant: a key that was deleted before is counted again. *)
Mutant_DeleteExchange(t) ==
    /\ pc[t] = "exchange"
    /\ data' = [data EXCEPT ![key[t]] = DELETED]
    /\ everDeleted' = everDeleted \cup {key[t]}
    /\ Goto(t, "count")
    /\ UNCHANGED <<rows, m_deleted, old, new, disk, calls, bumps, revived>>

(* Delete: exchange the byte with 0xfe; a key that was 0xfe already is     *)
(* reported as not deleted and is not counted again.                       *)
DeleteExchange(t) ==
    LET k == key[t] IN
    /\ pc[t] = "exchange"
    /\ data' = [data EXCEPT ![k] = DELETED]
    /\ everDeleted' = everDeleted \cup {k}
    /\ IF Deleted(k) THEN Return(t) ELSE Goto(t, "count")
    /\ UNCHANGED <<rows, m_deleted, old, new, disk, calls, bumps, revived>>

(* Delete: m_deleted++, a separate atomic step after the exchange. *)
DeleteCount(t) ==
    /\ pc[t] = "count"
    /\ m_deleted' = m_deleted + 1
    /\ Return(t)
    /\ UNCHANGED <<rows, data, old, new, disk, calls, bumps, everDeleted, revived>>

(* IncVersion: if (Deleted(key)) return false. *)
IncCheck(t) ==
    /\ pc[t] = "check"
    /\ IF Deleted(key[t]) THEN Return(t) ELSE Goto(t, "read")
    /\ UNCHANGED <<rows, data, m_deleted, old, new, disk, calls, bumps,
                   everDeleted, revived>>

(* IncVersion: a second, independent read of the byte. *)
IncRead(t) ==
    LET v == data[key[t]] IN
    /\ pc[t] = "read"
    /\ old' = [old EXCEPT ![t] = v]
    /\ new' = [new EXCEPT ![t] = NextVersion(v)]
    /\ Goto(t, "swap")
    /\ UNCHANGED <<rows, data, m_deleted, disk, calls, bumps, everDeleted, revived>>

(* A mutant: the byte is stored without the comparison. *)
Mutant_IncSwap(t) ==
    LET k == key[t] IN
    /\ pc[t] = "swap"
    /\ data' = [data EXCEPT ![k] = new[t]]
    /\ bumps' = [bumps EXCEPT ![k] = @ + 1]
    /\ revived' = IF Deleted(k) THEN revived + 1 ELSE revived
    /\ Return(t)
    /\ UNCHANGED <<rows, m_deleted, old, new, disk, calls, everDeleted>>

(* IncVersion: the compare-and-swap succeeds and the call returns true... *)
IncSwap(t) ==
    LET k == key[t] IN
    /\ pc[t] = "swap"
    /\ data[k] = old[t]
    /\ data' = [data EXCEPT ![k] = new[t]]
    /\ bumps' = [bumps EXCEPT ![k] = @ + 1]
    /\ revived' = IF Deleted(k) THEN revived + 1 ELSE revived
    /\ Return(t)
    /\ UNCHANGED <<rows, m_deleted, old, new, disk, calls, everDeleted>>

(* A mutant: the loop tries again with the value it read before. *)
Mutant_IncRetry(t) ==
    /\ pc[t] = "swap"
    /\ data[key[t]] # old[t]
    /\ UNCHANGED vars

(* ... or another thread changed the byte and the loop starts over. *)
IncRetry(t) ==
    /\ pc[t] = "swap"
    /\ data[key[t]] # old[t]
    /\ Goto(t, "check")
    /\ UNCHANGED <<rows, data, m_deleted, old, new, disk, calls, bumps,
                   everDeleted, revived>>

(* Save writes m_deleted first (the index saves from one thread)... *)
SaveHeader(t) ==
    /\ pc[t] = "idle"
    /\ \A u \in Threads : pc[u] # "rows"
    /\ calls < MaxCalls
    /\ calls' = calls + 1
    /\ disk' = [disk EXCEPT !.deleted = m_deleted]
    /\ Goto(t, "rows")
    /\ UNCHANGED <<rows, data, m_deleted, old, new, bumps, everDeleted, revived>>

(* ... and the rows after it, with no lock held over the two. *)
SaveRows(t) ==
    /\ pc[t] = "rows"
    /\ disk' = [disk EXCEPT !.rows = rows, !.data = data, !.bumps = bumps,
                            !.everDeleted = everDeleted, !.revived = revived]
    /\ Return(t)
    /\ UNCHANGED <<rows, data, m_deleted, old, new, calls, bumps, everDeleted, revived>>

(* The process restarts and Load reads back what Save finished writing. *)
Load ==
    /\ \A t \in Threads : pc[t] # "rows"
    /\ disk.rows # {}
    /\ rows' = disk.rows
    /\ data' = disk.data
    /\ m_deleted' = disk.deleted
    /\ pc' = [t \in Threads |-> "idle"]
    /\ key' = [t \in Threads |-> NoKey]
    /\ bumps' = disk.bumps
    /\ everDeleted' = disk.everDeleted
    /\ revived' = disk.revived
    /\ UNCHANGED <<old, new, disk, calls>>

Progress(t) ==
    \/ DeleteExchange(t) \/ DeleteCount(t)
    \/ IncCheck(t) \/ IncRead(t) \/ IncSwap(t) \/ IncRetry(t)
    \/ SaveRows(t)

Next ==
    \/ \E k \in Keys : AddBatch(k)
    \/ \E t \in Threads, k \in Keys : Call(t, k, "exchange") \/ Call(t, k, "check")
    \/ \E t \in Threads : SaveHeader(t) \/ Progress(t)
    \/ Load

Spec == Init /\ [][Next]_vars

(* Every thread keeps running: the operating system schedules it.  Nobody  *)
(* is obliged to start a call, to save or to restart.                      *)
FairSpec == Spec /\ \A t \in Threads : WF_vars(Progress(t))

----------------------------------------------------------------------------
(* Properties *)

(* Every byte is 0xff, 0xfe or a 7-bit counter, and a thread in a call     *)
(* works on an existing row.                                               *)
TypeOK ==
    /\ rows \in SUBSET Keys
    /\ data \in [Keys -> Byte]
    /\ m_deleted \in Nat
    /\ pc \in [Threads -> Steps]
    /\ key \in [Threads -> Keys \cup {NoKey}]
    /\ \A t \in Threads : pc[t] \notin {"idle", "rows"} => key[t] \in Keys
    /\ old \in [Threads -> Byte]
    /\ new \in [Threads -> Byte]
    /\ disk \in [deleted : Nat, rows : SUBSET Keys, data : [Keys -> Byte],
                 bumps : [Keys -> Nat], everDeleted : SUBSET Keys, revived : Nat]
    /\ calls \in Nat
    /\ bumps \in [Keys -> Nat]
    /\ everDeleted \in SUBSET Keys
    /\ revived \in Nat

(* No reassignment of a vector is lost: the byte of a vector that nobody   *)
(* deleted says how often IncVersion succeeded on it, whatever the race of *)
(* the compare-and-swap loops, so two winners never hold the same version. *)
NoLostIncrement ==
    \A k \in rows \ everDeleted :
        data[k] = IF bumps[k] = 0 THEN Fresh ELSE (bumps[k] - 1) % VersionModulus

Counting == {t \in Threads : pc[t] = "count"}

(* GetNumDeleted never counts a deletion twice: m_deleted and the Deletes  *)
(* still about to count are covered by the rows that read 0xfe and the     *)
(* rows an IncVersion took out of 0xfe.  A header saved before the rows    *)
(* can only make the reloaded counter smaller.                             *)
DeleteCountBound ==
    m_deleted + Cardinality(Counting) <= Cardinality(DeletedRows(data)) + revived

(* The compare-and-swap loop is lock free: whatever the other threads do,  *)
(* a call of Delete or IncVersion returns.                                 *)
CallsReturn == \A t \in Threads : (pc[t] # "idle") ~> (pc[t] = "idle")

(* What "Current Vector Num: %d, Deleted: %d" (SPANN/Index.h:164) prints:  *)
(* with no call in progress and no restart, m_deleted is the number of     *)
(* vectors that are deleted.                                               *)
DeletedCountExact ==
    (disk.rows = {} /\ \A t \in Threads : pc[t] = "idle")
        => m_deleted = Cardinality(DeletedRows(data))
=============================================================================
