-------------------------- MODULE ResourceManager --------------------------
(***************************************************************************)
(* Socket::ResourceManager: callbacks that wait for an answer, and the     *)
(* list of their deadlines.  The aggregator keeps one for what it asks the *)
(* servers and the client one for its queries.  All deadlines of a manager *)
(* are equally far away, so they pass in the order of the list.            *)
(***************************************************************************)
EXTENDS Sequences

CONSTANT Resources     \* what the ids stand for

VARIABLES resources,   \* m_resources
          timeoutList  \* m_timeoutList

ResourceInit == resources = {} /\ timeoutList = <<>>

(* A mutant: a timeout of 0 milliseconds, which is none. *)
Mutant_Add(r) ==
    /\ resources' = resources \cup {r}
    /\ UNCHANGED timeoutList

Add(r) ==
    /\ resources' = resources \cup {r}
    /\ timeoutList' = Append(timeoutList, r)

(* A mutant: the callback is found and not erased. *)
Mutant_GetAndRemove(r) == UNCHANGED resources

(* Whoever gets the callback is the only one to get it. *)
GetAndRemove(r) == resources' = resources \ {r}

(* An answer has arrived. *)
Answer(r) == GetAndRemove(r) /\ UNCHANGED timeoutList

(* The deadline of r has passed.  The thread that looks for deadlines runs *)
(* one timeout callback at a time, so it pops them one at a time.          *)
Expire(r) ==
    /\ timeoutList # <<>> /\ r = Head(timeoutList)
    /\ timeoutList' = Tail(timeoutList)
    /\ GetAndRemove(r)
=============================================================================
