--------------------------- MODULE KeyValueStore ---------------------------
(***************************************************************************)
(* What the posting searcher expects of Helper::KeyValueIO: a map from     *)
(* heads to postings on which Put, Merge and Delete take effect at once.   *)
(* The interface has no code of its own; ExtraDynamicSearcher reads back   *)
(* what it wrote, and appends with Merge to postings that are there.       *)
(* SpdkBlocks is shown to implement it.                                    *)
(***************************************************************************)
EXTENDS Sequences

CONSTANTS
    Keys,          \* the heads
    PutValues,     \* the postings a call of Put may write under a key
    MergeValues,   \* what a call of Merge may append under a key
    Absent         \* no posting under this key

VARIABLE store     \* the posting of each key

Init == store = [k \in Keys |-> Absent]

(* Put replaces the posting of a key, or creates it. *)
Put(k, v) == store' = [store EXCEPT ![k] = v]

(* Merge appends to a posting that is there. *)
Merge(k, v) ==
    /\ store[k] # Absent
    /\ store' = [store EXCEPT ![k] = @ \o v]

Delete(k) ==
    /\ store[k] # Absent
    /\ store' = [store EXCEPT ![k] = Absent]

Next ==
    \E k \in Keys :
        \/ \E v \in PutValues[k] : Put(k, v)
        \/ \E v \in MergeValues[k] : Merge(k, v)
        \/ Delete(k)

Spec == Init /\ [][Next]_store
=============================================================================
