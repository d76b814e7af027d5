------------------------- MODULE VersionLabelProofs -------------------------
(***************************************************************************)
(* Proofs about VersionLabel for any number of vectors, threads and calls. *)
(***************************************************************************)
EXTENDS VersionLabel, FiniteSetTheorems, TLAPS

----------------------------------------------------------------------------
(* Arithmetic of the counter *)

(* The successor of a version is a version again: the mask of IncVersion    *)
(* keeps the counter clear of 0xfe and 0xff.                                *)
LEMMA NextVersionType ==
    ASSUME NEW v \in Nat
    PROVE  NextVersion(v) \in Version
BY VersionLabelAssumption DEF NextVersion, Version, DELETED

LEMMA ByteType == Byte \subseteq Nat /\ Version \subseteq Byte /\ Fresh \in Byte /\ DELETED \in Byte
BY VersionLabelAssumption DEF Byte, Version, Fresh, DELETED

----------------------------------------------------------------------------
(* Type correctness *)

LEMMA TypeInit == Init => TypeOK
BY ByteType DEF Init, TypeOK, Steps

LEMMA TypeStep == TypeOK /\ [Next]_vars => TypeOK'
<1> SUFFICES ASSUME TypeOK, [Next]_vars PROVE TypeOK'
  OBVIOUS
<1> USE ByteType DEF TypeOK, Steps
<1>1. ASSUME NEW k \in Keys, AddBatch(k) PROVE TypeOK'
  BY <1>1 DEF AddBatch
<1>2. ASSUME NEW t \in Threads, NEW k \in Keys, NEW step \in {"exchange", "check"},
             Call(t, k, step)
      PROVE  TypeOK'
  BY <1>2 DEF Call
<1>3. ASSUME NEW t \in Threads, DeleteExchange(t) PROVE TypeOK'
  BY <1>3 DEF DeleteExchange, Return, Goto
<1>4. ASSUME NEW t \in Threads, DeleteCount(t) PROVE TypeOK'
  BY <1>4 DEF DeleteCount, Return
<1>5. ASSUME NEW t \in Threads, IncCheck(t) PROVE TypeOK'
  BY <1>5 DEF IncCheck, Return, Goto
<1>6. ASSUME NEW t \in Threads, IncRead(t) PROVE TypeOK'
  <2>1. data[key[t]] \in Byte
    BY <1>6 DEF IncRead
  <2>2. NextVersion(data[key[t]]) \in Byte
    BY <2>1, NextVersionType
  <2> QED
    BY <1>6, <2>1, <2>2 DEF IncRead, Goto
<1>7. ASSUME NEW t \in Threads, IncSwap(t) PROVE TypeOK'
  BY <1>7 DEF IncSwap, Return
<1>8. ASSUME NEW t \in Threads, IncRetry(t) PROVE TypeOK'
  BY <1>8 DEF IncRetry, Goto
<1>9. ASSUME NEW t \in Threads, SaveHeader(t) PROVE TypeOK'
  BY <1>9 DEF SaveHeader, Goto
<1>10. ASSUME NEW t \in Threads, SaveRows(t) PROVE TypeOK'
  BY <1>10 DEF SaveRows, Return
<1>11. ASSUME Load PROVE TypeOK'
  BY <1>11 DEF Load
<1>12. CASE UNCHANGED vars
  BY <1>12 DEF vars
<1> QED
  BY <1>1, <1>2, <1>3, <1>4, <1>5, <1>6, <1>7, <1>8, <1>9, <1>10, <1>11, <1>12
     DEF Next, Progress

(* Every byte of the version map is 0xff, 0xfe or a 7-bit counter, in every *)
(* reachable state: no wrap of IncVersion makes a live vector look deleted  *)
(* or new.                                                                  *)
THEOREM TypeCorrect == Spec => []TypeOK
<1> QED
  BY TypeInit, TypeStep, PTL DEF Spec

----------------------------------------------------------------------------
(* No increment is lost *)

(* The byte of a vector that was reassigned n times and never deleted. *)
Encoded(n) == IF n = 0 THEN Fresh ELSE (n - 1) % VersionModulus

(* NoLostIncrement is not inductive: a thread about to swap must hold the   *)
(* successor of the value it compares with, and a reload must bring back    *)
(* rows of which the same is true.                                          *)
IncrementInv ==
    /\ \A k \in Keys \ everDeleted : data[k] = Encoded(bumps[k])
    /\ \A k \in Keys \ disk.everDeleted : disk.data[k] = Encoded(disk.bumps[k])
    /\ \A t \in Threads : pc[t] = "swap" => new[t] = NextVersion(old[t])

LEMMA DivIdentity ==
    ASSUME NEW M \in Nat \ {0}, NEW n \in Nat
    PROVE  n = M * (n \div M) + (n % M)
OBVIOUS

LEMMA ModRange ==
    ASSUME NEW M \in Nat \ {0}, NEW n \in Nat
    PROVE  n % M \in 0..M - 1
OBVIOUS

LEMMA DivNat ==
    ASSUME NEW M \in Nat \ {0}, NEW n \in Nat
    PROVE  n \div M \in Nat
OBVIOUS

LEMMA ModUnique ==
    ASSUME NEW M \in Nat \ {0}, NEW n \in Nat,
           NEW q \in Nat, NEW r \in 0..M - 1, n = M * q + r
    PROVE  n % M = r
OBVIOUS

LEMMA ModSuccessor ==
    ASSUME NEW M \in Nat \ {0}, NEW n \in Nat
    PROVE  ((n % M) + 1) % M = (n + 1) % M
<1> DEFINE q == n \div M
           r == n % M
<1>1. q \in Nat /\ r \in 0..M - 1 /\ n = M * q + r
  BY DivIdentity, ModRange, DivNat
<1> HIDE DEF q
<1>2. CASE r + 1 < M
  <2>1. n + 1 = M * q + (r + 1)
    BY <1>1
  <2>2. n + 1 \in Nat /\ r + 1 \in 0..M - 1
    BY <1>1, <1>2
  <2>3. (n + 1) % M = r + 1
    <3> DEFINE N == n + 1
               R == r + 1
    <3>1. N \in Nat /\ R \in 0..M - 1 /\ N = M * q + R
      BY <2>1, <2>2
    <3> HIDE DEF N, R
    <3>2. N % M = R
      BY <1>1, <3>1, ModUnique
    <3> QED
      BY <3>2 DEF N, R
  <2>4. (r + 1) % M = r + 1
    <3>1. r + 1 = M * 0 + (r + 1)
      BY <1>1
    <3> QED
      BY <1>1, <1>2, <3>1, ModUnique
  <2> QED
    BY <2>3, <2>4
<1>3. CASE r + 1 = M
  <2>1. n + 1 = M * (q + 1) + 0
    BY <1>1, <1>3
  <2>2. (n + 1) % M = 0
    <3> DEFINE N == n + 1
               Q == q + 1
    <3>1. N \in Nat /\ Q \in Nat /\ 0 \in 0..M - 1 /\ N = M * Q + 0
      BY <1>1, <2>1
    <3> HIDE DEF N, Q
    <3>2. N % M = 0
      BY <3>1, ModUnique
    <3> QED
      BY <3>2 DEF N
  <2>3. (r + 1) % M = 0
    <3>1. r + 1 = M * 1 + 0
      BY <1>1, <1>3
    <3> QED
      BY <1>1, <3>1, ModUnique
  <2> QED
    BY <2>2, <2>3
<1> QED
  BY <1>1, <1>2, <1>3

(* IncVersion applied to the byte after n increments gives the byte after   *)
(* n + 1 of them: 0xff counts as the predecessor of 0.                      *)
LEMMA EncodedSuccessor ==
    ASSUME NEW n \in Nat
    PROVE  NextVersion(Encoded(n)) = Encoded(n + 1)
<1>1. VersionModulus \in Nat \ {0} /\ 256 % VersionModulus = 0
  BY VersionLabelAssumption DEF DELETED
<1>2. CASE n = 0
  <2>1. 0 % VersionModulus = 0
    <3>1. 0 = VersionModulus * 0 + 0
      BY <1>1
    <3> QED
      BY <1>1, <3>1, ModUnique
  <2>2. NextVersion(Encoded(0)) = 0
    BY <1>1 DEF NextVersion, Encoded, Fresh
  <2>3. Encoded(1) = 0
    BY <2>1 DEF Encoded
  <2> QED
    BY <1>2, <2>2, <2>3
<1>3. CASE n # 0
  <2>1. n - 1 \in Nat
    BY <1>3
  <2>2. (((n - 1) % VersionModulus) + 1) % VersionModulus = ((n - 1) + 1) % VersionModulus
    BY <1>1, <2>1, ModSuccessor
  <2> QED
    BY <1>3, <2>1, <2>2 DEF NextVersion, Encoded
<1> QED
  BY <1>2, <1>3

LEMMA IncrementInit == Init => IncrementInv
BY DEF Init, IncrementInv, Encoded

LEMMA IncrementStep == TypeOK /\ IncrementInv /\ [Next]_vars => IncrementInv'
<1> SUFFICES ASSUME TypeOK, IncrementInv, [Next]_vars PROVE IncrementInv'
  OBVIOUS
<1> USE DEF TypeOK, IncrementInv
<1>1. ASSUME NEW k \in Keys, AddBatch(k) PROVE IncrementInv'
  BY <1>1 DEF AddBatch
<1>2. ASSUME NEW t \in Threads, NEW k \in Keys, NEW step \in {"exchange", "check"},
             Call(t, k, step)
      PROVE  IncrementInv'
  BY <1>2 DEF Call
<1>3. ASSUME NEW t \in Threads, DeleteExchange(t) PROVE IncrementInv'
  <2>1. \A k \in Keys \ everDeleted' : k # key[t] /\ data'[k] = data[k]
    BY <1>3 DEF DeleteExchange
  <2> QED
    BY <1>3, <2>1 DEF DeleteExchange, Return, Goto
<1>4. ASSUME NEW t \in Threads, DeleteCount(t) PROVE IncrementInv'
  BY <1>4 DEF DeleteCount, Return
<1>5. ASSUME NEW t \in Threads, IncCheck(t) PROVE IncrementInv'
  BY <1>5 DEF IncCheck, Return, Goto
<1>6. ASSUME NEW t \in Threads, IncRead(t) PROVE IncrementInv'
  BY <1>6 DEF IncRead, Goto
<1>7. ASSUME NEW t \in Threads, IncSwap(t) PROVE IncrementInv'
  <2> DEFINE k == key[t]
  <2>1. k \in Keys /\ bumps[k] \in Nat
    BY <1>7 DEF IncSwap
  <2>2. data' = [data EXCEPT ![k] = NextVersion(data[k])]
    BY <1>7 DEF IncSwap
  <2>3. bumps' = [bumps EXCEPT ![k] = bumps[k] + 1]
    BY <1>7 DEF IncSwap
  <2>4. NextVersion(Encoded(bumps[k])) = Encoded(bumps[k] + 1)
    BY <2>1, EncodedSuccessor
  <2>5. \A j \in Keys \ everDeleted' : data'[j] = Encoded(bumps'[j])
    <3> SUFFICES ASSUME NEW j \in Keys \ everDeleted' PROVE data'[j] = Encoded(bumps'[j])
      OBVIOUS
    <3>1. j \notin everDeleted /\ data[j] = Encoded(bumps[j])
      BY <1>7 DEF IncSwap
    <3>2. CASE j = k
      BY <2>1, <2>2, <2>3, <2>4, <3>1, <3>2
    <3>3. CASE j # k
      BY <2>2, <2>3, <3>1, <3>3
    <3> QED
      BY <3>2, <3>3
  <2> QED
    BY <1>7, <2>5 DEF IncSwap, Return
<1>8. ASSUME NEW t \in Threads, IncRetry(t) PROVE IncrementInv'
  BY <1>8 DEF IncRetry, Goto
<1>9. ASSUME NEW t \in Threads, SaveHeader(t) PROVE IncrementInv'
  BY <1>9 DEF SaveHeader, Goto
<1>10. ASSUME NEW t \in Threads, SaveRows(t) PROVE IncrementInv'
  BY <1>10 DEF SaveRows, Return
<1>11. ASSUME Load PROVE IncrementInv'
  BY <1>11 DEF Load
<1>12. CASE UNCHANGED vars
  BY <1>12 DEF vars
<1> QED
  BY <1>1, <1>2, <1>3, <1>4, <1>5, <1>6, <1>7, <1>8, <1>9, <1>10, <1>11, <1>12
     DEF Next, Progress

(* However many threads increment the version of a vector at once, across   *)
(* saves and reloads, the byte counts every success.                        *)
THEOREM IncrementsCounted == Spec => []NoLostIncrement
<1>1. TypeOK /\ IncrementInv => NoLostIncrement
  BY DEF TypeOK, IncrementInv, NoLostIncrement, Encoded
<1> QED
  BY <1>1, TypeInit, TypeStep, IncrementInit, IncrementStep, PTL DEF Spec

----------------------------------------------------------------------------
(* No deletion is counted twice *)

(* What m_deleted may not exceed: the deleted rows, and the rows that an    *)
(* IncVersion brought back.                                                 *)
Covered == Cardinality(DeletedRows(data)) + revived

Saving == \E t \in Threads : pc[t] = "rows"

(* DeleteCountBound must survive a restart, so the saved header has to be   *)
(* covered too: by the saved rows, and while Save is between the header and *)
(* the rows by the rows in memory, which it is about to write.              *)
CountInv ==
    /\ DeleteCountBound
    /\ \A t, u \in Threads : pc[t] = "rows" /\ pc[u] = "rows" => t = u
    /\ ~Saving => disk.deleted <= Cardinality(DeletedRows(disk.data)) + disk.revived
    /\ Saving => disk.deleted <= Covered
    /\ \A t \in Threads : pc[t] = "swap" => new[t] \in Version

LEMMA FiniteParts ==
    /\ \A f : IsFiniteSet(DeletedRows(f)) /\ Cardinality(DeletedRows(f)) \in Nat
    /\ IsFiniteSet(Counting) /\ Cardinality(Counting) \in Nat
<1>1. \A f : DeletedRows(f) \subseteq Keys
  BY DEF DeletedRows
<1>2. Counting \subseteq Threads
  BY DEF Counting
<1> QED
  BY <1>1, <1>2, FS_Subset, FS_CardinalityType, VersionLabelAssumption

LEMMA DeletedNotVersion == DELETED \notin Version /\ Fresh # DELETED
BY VersionLabelAssumption DEF Version, DELETED, Fresh

LEMMA CountInit == Init => CountInv
<1> SUFFICES ASSUME Init PROVE CountInv
  OBVIOUS
<1>1. Counting = {} /\ DeletedRows(data) = {} /\ DeletedRows(disk.data) = {}
  BY DeletedNotVersion DEF Init, Counting, DeletedRows
<1>2. Cardinality({}) = 0
  BY FS_EmptySet
<1> QED
  BY <1>1, <1>2 DEF Init, CountInv, DeleteCountBound, Saving, Covered

(* A step that changes neither the bytes nor who is about to count keeps    *)
(* the bound, and so does the cover of a header that is being saved.        *)
LEMMA CountFrame ==
    ASSUME TypeOK, CountInv, UNCHANGED <<data, m_deleted, revived, disk>>,
           Counting' = Counting, Saving' = Saving,
           \A t \in Threads : pc'[t] = "rows" <=> pc[t] = "rows",
           \A t \in Threads : pc'[t] = "swap" => new'[t] \in Version
    PROVE  CountInv'
BY DEF CountInv, DeleteCountBound, Covered, DeletedRows

LEMMA CountStep == TypeOK /\ CountInv /\ [Next]_vars => CountInv'
<1> SUFFICES ASSUME TypeOK, CountInv, [Next]_vars PROVE CountInv'
  OBVIOUS
<1>1. ASSUME NEW k \in Keys, AddBatch(k) PROVE CountInv'
  BY <1>1, CountFrame DEF AddBatch, CountInv, Counting, Saving
<1>2. ASSUME NEW t \in Threads, NEW k \in Keys, NEW step \in {"exchange", "check"},
             Call(t, k, step)
      PROVE  CountInv'
  <2>1. \A u \in Threads : /\ pc'[u] = "count" <=> pc[u] = "count"
                           /\ pc'[u] = "rows" <=> pc[u] = "rows"
                           /\ pc'[u] = "swap" <=> pc[u] = "swap"
    BY <1>2 DEF Call, TypeOK
  <2> QED
    BY <1>2, <2>1, CountFrame DEF Call, CountInv, Counting, Saving
<1>3. ASSUME NEW t \in Threads, DeleteExchange(t) PROVE CountInv'
  <2> DEFINE k == key[t]
  <2>1. pc[t] = "exchange" /\ k \in Keys /\ data' = [data EXCEPT ![k] = DELETED]
    BY <1>3 DEF DeleteExchange, TypeOK
  <2>2. DeletedRows(data)' = DeletedRows(data) \cup {k}
    BY <2>1 DEF TypeOK, DeletedRows
  <2>3. m_deleted' = m_deleted /\ revived' = revived /\ disk' = disk /\ new' = new
    BY <1>3 DEF DeleteExchange
  <2>4. \A u \in Threads : /\ pc'[u] = "rows" <=> pc[u] = "rows"
                           /\ pc'[u] = "swap" <=> pc[u] = "swap"
    BY <1>3, <2>1 DEF DeleteExchange, Return, Goto, TypeOK
  <2>5. Saving' = Saving
    BY <2>4 DEF Saving
  <2>6. CASE Deleted(k)
    <3>1. DeletedRows(data)' = DeletedRows(data)
      BY <2>1, <2>2, <2>6 DEF Deleted, DeletedRows
    <3>2. Counting' = Counting
      BY <1>3, <2>1, <2>6 DEF DeleteExchange, Return, Counting, TypeOK
    <3> QED
      BY <2>3, <2>4, <2>5, <3>1, <3>2 DEF CountInv, DeleteCountBound, Covered
  <2>7. CASE ~Deleted(k)
    <3>1. k \notin DeletedRows(data)
      BY <2>7 DEF Deleted, DeletedRows
    <3>2. Cardinality(DeletedRows(data)') = Cardinality(DeletedRows(data)) + 1
      BY <2>2, <3>1, FiniteParts, FS_AddElement
    <3>3. t \notin Counting /\ Counting' = Counting \cup {t}
      BY <1>3, <2>1, <2>7 DEF DeleteExchange, Goto, Counting, TypeOK
    <3>4. Cardinality(Counting') = Cardinality(Counting) + 1
      BY <3>3, FiniteParts, FS_AddElement
    <3> QED
      BY <2>3, <2>4, <2>5, <3>2, <3>4, FiniteParts
         DEF CountInv, DeleteCountBound, Covered, TypeOK
  <2> QED
    BY <2>6, <2>7
<1>4. ASSUME NEW t \in Threads, DeleteCount(t) PROVE CountInv'
  <2>1. t \in Counting /\ Counting' = Counting \ {t}
    BY <1>4 DEF DeleteCount, Return, Counting, TypeOK
  <2>2. Cardinality(Counting') = Cardinality(Counting) - 1
    BY <2>1, FiniteParts, FS_RemoveElement
  <2>3. \A u \in Threads : /\ pc'[u] = "rows" <=> pc[u] = "rows"
                           /\ pc'[u] = "swap" <=> pc[u] = "swap"
    BY <1>4 DEF DeleteCount, Return, TypeOK
  <2>4. Saving' = Saving /\ Covered' = Covered
    BY <1>4, <2>3 DEF DeleteCount, Saving, Covered, DeletedRows
  <2>5. m_deleted' = m_deleted + 1 /\ UNCHANGED <<data, revived, disk, new>>
    BY <1>4 DEF DeleteCount
  <2>6. DeleteCountBound'
    BY <2>2, <2>5, FiniteParts DEF CountInv, DeleteCountBound, DeletedRows, TypeOK
  <2> QED
    BY <2>3, <2>4, <2>5, <2>6 DEF CountInv
<1>5. ASSUME NEW t \in Threads, IncCheck(t) \/ IncRetry(t) PROVE CountInv'
  <2>1. \A u \in Threads : /\ pc'[u] = "count" <=> pc[u] = "count"
                           /\ pc'[u] = "rows" <=> pc[u] = "rows"
                           /\ pc'[u] = "swap" => pc[u] = "swap"
    BY <1>5 DEF IncCheck, IncRetry, Return, Goto, TypeOK
  <2> QED
    BY <1>5, <2>1, CountFrame DEF IncCheck, IncRetry, CountInv, Counting, Saving
<1>6. ASSUME NEW t \in Threads, IncRead(t) PROVE CountInv'
  <2>1. \A u \in Threads : /\ pc'[u] = "count" <=> pc[u] = "count"
                           /\ pc'[u] = "rows" <=> pc[u] = "rows"
    BY <1>6 DEF IncRead, Goto, TypeOK
  <2>2. key[t] \in Keys
    BY <1>6 DEF IncRead, TypeOK
  <2>3. data[key[t]] \in Nat
    BY <2>2, ByteType DEF TypeOK
  <2>4. NextVersion(data[key[t]]) \in Version
    BY <2>3, NextVersionType
  <2>5. \A u \in Threads : pc'[u] = "swap" => new'[u] \in Version
    BY <1>6, <2>4 DEF IncRead, Goto, TypeOK, CountInv
  <2> QED
    BY <1>6, <2>1, <2>5, CountFrame DEF IncRead, Counting, Saving
<1>7. ASSUME NEW t \in Threads, IncSwap(t) PROVE CountInv'
  <2> DEFINE k == key[t]
  <2>1. /\ pc[t] = "swap" /\ k \in Keys /\ new[t] \in Version
        /\ data' = [data EXCEPT ![k] = new[t]]
        /\ revived' = IF Deleted(k) THEN revived + 1 ELSE revived
    BY <1>7 DEF IncSwap, CountInv, TypeOK
  <2>2. DeletedRows(data)' = DeletedRows(data) \ {k}
    BY <2>1, DeletedNotVersion DEF DeletedRows, TypeOK
  <2>3. Covered' = Covered
    <3>1. CASE Deleted(k)
      <4>1. k \in DeletedRows(data)
        BY <2>1, <3>1 DEF Deleted, DeletedRows
      <4>2. Cardinality(DeletedRows(data)') = Cardinality(DeletedRows(data)) - 1
        BY <2>2, <4>1, FiniteParts, FS_RemoveElement
      <4> QED
        BY <2>1, <3>1, <4>2, FiniteParts DEF Covered, TypeOK
    <3>2. CASE ~Deleted(k)
      <4>1. DeletedRows(data)' = DeletedRows(data)
        BY <2>2, <3>2 DEF Deleted, DeletedRows
      <4> QED
        BY <2>1, <3>2, <4>1 DEF Covered
    <3> QED
      BY <3>1, <3>2
  <2>4. \A u \in Threads : /\ pc'[u] = "count" <=> pc[u] = "count"
                           /\ pc'[u] = "rows" <=> pc[u] = "rows"
                           /\ pc'[u] = "swap" => pc[u] = "swap"
    BY <1>7, <2>1 DEF IncSwap, Return, TypeOK
  <2>5. Saving' = Saving /\ Counting' = Counting
    BY <2>4 DEF Saving, Counting
  <2>6. UNCHANGED <<m_deleted, disk, new>>
    BY <1>7 DEF IncSwap
  <2> QED
    BY <2>3, <2>4, <2>5, <2>6 DEF CountInv, DeleteCountBound, Covered
<1>8. ASSUME NEW t \in Threads, SaveHeader(t) PROVE CountInv'
  <2>1. /\ ~Saving /\ pc[t] = "idle"
        /\ disk' = [disk EXCEPT !.deleted = m_deleted]
        /\ pc' = [pc EXCEPT ![t] = "rows"]
        /\ UNCHANGED <<data, m_deleted, new, revived>>
    BY <1>8 DEF SaveHeader, Goto, Saving
  <2>2. \A u \in Threads : /\ pc'[u] = "count" <=> pc[u] = "count"
                           /\ pc'[u] = "rows" <=> u = t
                           /\ pc'[u] = "swap" <=> pc[u] = "swap"
    BY <2>1 DEF TypeOK, Saving
  <2>3. Counting' = Counting /\ Covered' = Covered /\ Saving'
    BY <2>1, <2>2 DEF Counting, Covered, DeletedRows, Saving
  <2>4. m_deleted <= Covered
    BY FiniteParts DEF CountInv, DeleteCountBound, Covered, TypeOK
  <2>5. disk'.deleted = m_deleted
    BY <2>1 DEF TypeOK
  <2>6. DeleteCountBound'
    BY <2>1, <2>3 DEF CountInv, DeleteCountBound, DeletedRows
  <2> QED
    BY <2>1, <2>2, <2>3, <2>4, <2>5, <2>6 DEF CountInv
<1>9. ASSUME NEW t \in Threads, SaveRows(t) PROVE CountInv'
  <2>1. /\ pc[t] = "rows" /\ pc' = [pc EXCEPT ![t] = "idle"]
        /\ UNCHANGED <<data, m_deleted, new, revived>>
        /\ disk'.deleted = disk.deleted /\ disk'.data = data /\ disk'.revived = revived
    BY <1>9 DEF SaveRows, Return, TypeOK
  <2>2. Saving /\ ~Saving'
    BY <2>1 DEF Saving, CountInv, TypeOK
  <2>3. Counting' = Counting
    BY <2>1 DEF Counting, TypeOK
  <2>4. disk.deleted <= Covered
    BY <2>2 DEF CountInv
  <2>5. \A u \in Threads : pc'[u] = "swap" => pc[u] = "swap"
    BY <2>1 DEF TypeOK
  <2>6. disk'.deleted <= Cardinality(DeletedRows(disk'.data)) + disk'.revived
    BY <2>1, <2>4 DEF Covered
  <2>7. DeleteCountBound'
    BY <2>1, <2>3 DEF CountInv, DeleteCountBound, DeletedRows
  <2>8. Cardinality(DeletedRows(disk.data))' = Cardinality(DeletedRows(disk'.data))
    BY DEF DeletedRows
  <2> QED
    BY <2>1, <2>2, <2>5, <2>6, <2>7, <2>8 DEF CountInv, Saving
<1>10. ASSUME Load PROVE CountInv'
  <2>1. /\ ~Saving /\ data' = disk.data /\ m_deleted' = disk.deleted
        /\ revived' = disk.revived /\ disk' = disk
        /\ pc' = [t \in Threads |-> "idle"]
    BY <1>10 DEF Load, Saving
  <2>2. Counting' = {} /\ ~Saving'
    BY <2>1 DEF Counting, Saving
  <2>3. Cardinality({}) = 0
    BY FS_EmptySet
  <2>4. disk.deleted <= Cardinality(DeletedRows(disk.data)) + disk.revived
    BY <2>1 DEF CountInv
  <2>5. DeletedRows(data)' = DeletedRows(disk.data) /\ DeletedRows(disk.data)' = DeletedRows(disk.data)
    BY <2>1 DEF DeletedRows
  <2>6. m_deleted' + 0 = disk.deleted
    BY <2>1 DEF TypeOK
  <2>7. DeleteCountBound'
    BY <2>1, <2>2, <2>3, <2>4, <2>5, <2>6 DEF DeleteCountBound
  <2> QED
    BY <2>1, <2>2, <2>4, <2>5, <2>7 DEF CountInv, Saving
<1>11. CASE UNCHANGED vars
  BY <1>11, CountFrame DEF vars, CountInv, Counting, Saving
<1> QED
  BY <1>1, <1>2, <1>3, <1>4, <1>5, <1>6, <1>7, <1>8, <1>9, <1>10, <1>11
     DEF Next, Progress

(* GetNumDeleted is never more than the deletions that happened: not when   *)
(* deletes of one vector race, and not after a reload of a map that was     *)
(* saved while deletes were running.                                        *)
THEOREM DeletionsCountedOnce == Spec => []DeleteCountBound
<1>1. CountInv => DeleteCountBound
  BY DEF CountInv
<1> QED
  BY <1>1, TypeInit, TypeStep, CountInit, CountStep, PTL DEF Spec
=============================================================================
