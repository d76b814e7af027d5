--------------------------- MODULE ThreadPoolProofs ---------------------------
(***************************************************************************)
(* The thread pool, for any number of workers and any jobs: a worker never *)
(* pops from an empty queue, currentJobs counts what it should, and no     *)
(* wakeup is lost.                                                         *)
(***************************************************************************)
EXTENDS ThreadPool, FiniteSetTheorems, SequenceTheorems, TLAPS

----------------------------------------------------------------------------
(* The inductive invariant *)

Holding == {"block", "test", "return"}
Busy    == {"count", "add", "notify", "end"}

ThreadsType ==
    /\ \A w \in Workers : pc[w] \in WorkerSteps
    /\ pc[Driver] \in DriverSteps

(* m_lock is held exactly between the check and the return of get. *)
LockHeld ==
    \A w \in Workers : pc[w] \in Holding <=> lock = w

(* What a worker has learnt under the lock is still true while it holds it; *)
(* outside get it has a job until the job's end.                            *)
InHand ==
    \A w \in Workers :
        /\ pc[w] = "block"  => queue = <<>>
        /\ pc[w] = "test"   => queue # <<>> \/ stopped
        /\ pc[w] = "return" => job[w] \in Jobs \/ stopped
        /\ pc[w] \in Busy   => job[w] \in Jobs
        /\ pc[w] = "add"    => Child[job[w]] # None

IInv ==
    /\ TypeOK
    /\ ThreadsType
    /\ LockHeld
    /\ InHand
    /\ CounterHonest
    /\ WakeupPending

USE DEF WorkerSteps, DriverSteps, Holding, Busy

LEMMA Constants ==
    /\ Driver \notin Workers
    /\ None \notin Workers
    /\ Workers # {}
    /\ IsFiniteSet(Workers)
    /\ MaxSpurious \in Nat
    /\ \A j \in Jobs : Child[j] \in Jobs \cup {None}
BY ThreadPoolAssumption DEF Threads

----------------------------------------------------------------------------
(* Counting the running jobs *)

LEMMA RunningFinite == IsFiniteSet(Running) /\ Cardinality(Running) \in Nat
BY Constants, FS_Subset, FS_CardinalityType DEF Running

(* No worker begins or ends a job. *)
LEMMA SameRunning ==
    ASSUME CounterHonest,
           \A w \in Workers :
               pc'[w] \in {"add", "notify", "end"} <=> pc[w] \in {"add", "notify", "end"},
           currentJobs' = currentJobs, threw' = threw
    PROVE  CounterHonest'
<1>1. Running' = Running
  BY DEF Running
<1> QED
  BY <1>1 DEF CounterHonest

(* Worker w alone begins a job. *)
LEMMA OneMore ==
    ASSUME NEW w \in Workers, w \notin Running, Running' = Running \cup {w}
    PROVE  Cardinality(Running') = Cardinality(Running) + 1
BY RunningFinite, FS_AddElement

(* Worker w alone ends its job. *)
LEMMA OneLess ==
    ASSUME NEW w \in Workers, w \in Running, Running' = Running \ {w}
    PROVE  /\ Cardinality(Running') = Cardinality(Running) - 1
           /\ Cardinality(Running) > 0
<1>1. Cardinality(Running') = Cardinality(Running) - 1
  BY RunningFinite, FS_RemoveElement
<1>2. IsFiniteSet(Running') /\ Cardinality(Running') \in Nat
  BY RunningFinite, FS_Subset, FS_CardinalityType
<1> QED
  BY <1>1, <1>2, RunningFinite

----------------------------------------------------------------------------
(* One lemma per group of actions *)

LEMMA InitInv == Init => IInv
<1> SUFFICES ASSUME Init PROVE IInv
  OBVIOUS
<1>1. TypeOK
  <2>1. queue \in Seq(Jobs) /\ left \in Seq(Jobs)
    BY ThreadPoolAssumption, EmptySeq DEF Init
  <2>2. spurious \in 0..MaxSpurious
    BY ThreadPoolAssumption DEF Init
  <2> QED
    BY <2>1, <2>2 DEF Init, TypeOK
<1>2. ThreadsType /\ LockHeld /\ InHand
  BY Constants DEF Init, Threads, ThreadsType, LockHeld, InHand
<1>3. Running = {}
  BY Constants DEF Init, Threads, Running
<1>4. CounterHonest
  BY <1>3, FS_EmptySet DEF Init, CounterHonest
<1> QED
  BY <1>1, <1>2, <1>4 DEF Init, IInv, WakeupPending

(* get, up to the pop: the lock is taken and released. *)
LEMMA GetInv ==
    ASSUME IInv, NEW w \in Workers,
           GetCheck(w) \/ GetBlock(w) \/ SpuriousWakeup(w)
    PROVE  IInv'
<1> USE Constants
<1>1. \A u \in Workers \ {w} : pc'[u] = pc[u]
  BY DEF IInv, TypeOK, GetCheck, GetBlock, SpuriousWakeup, Goto, Threads
<1>2. pc'[Driver] = pc[Driver]
  BY DEF IInv, TypeOK, GetCheck, GetBlock, SpuriousWakeup, Goto, Threads
<1>3. CASE GetCheck(w)
  <2>1. pc'[w] = IF queue = <<>> /\ ~stopped THEN "block" ELSE "test"
    BY <1>3 DEF IInv, TypeOK, GetCheck, Goto, Threads
  <2>2. TypeOK'
    BY <1>3 DEF IInv, TypeOK, GetCheck, Goto
  <2>3. ThreadsType' /\ LockHeld' /\ InHand'
    BY <1>1, <1>2, <1>3, <2>1 DEF IInv, GetCheck, ThreadsType, LockHeld, InHand
  <2>4. CounterHonest'
    BY <1>1, <1>3, <2>1, SameRunning DEF IInv, GetCheck
  <2>5. WakeupPending'
    BY <2>1, <1>2 DEF WakeupPending, Waiting
  <2> QED
    BY <2>2, <2>3, <2>4, <2>5 DEF IInv
<1>4. CASE GetBlock(w)
  <2>1. pc'[w] = "waiting" /\ queue' = <<>>
    BY <1>4 DEF IInv, TypeOK, InHand, GetBlock, Goto, Threads
  <2>2. TypeOK'
    BY <1>4 DEF IInv, TypeOK, GetBlock, Goto
  <2>3. ThreadsType' /\ LockHeld' /\ InHand'
    BY <1>1, <1>2, <1>4, <2>1 DEF IInv, GetBlock, ThreadsType, LockHeld, InHand
  <2>4. CounterHonest'
    BY <1>1, <1>4, <2>1, SameRunning DEF IInv, GetBlock
  <2>5. WakeupPending'
    BY <2>1 DEF WakeupPending
  <2> QED
    BY <2>2, <2>3, <2>4, <2>5 DEF IInv
<1>5. CASE SpuriousWakeup(w)
  <2>1. pc'[w] = "check"
    BY <1>5 DEF IInv, TypeOK, SpuriousWakeup, Goto, Threads
  <2>2. TypeOK'
    <3>1. spurious' \in 0..MaxSpurious
      BY <1>5 DEF IInv, TypeOK, SpuriousWakeup
    <3> QED
      BY <1>5, <3>1 DEF IInv, TypeOK, SpuriousWakeup, Goto
  <2>3. ThreadsType' /\ LockHeld' /\ InHand'
    BY <1>1, <1>2, <1>5, <2>1 DEF IInv, SpuriousWakeup, ThreadsType, LockHeld, InHand
  <2>4. CounterHonest'
    BY <1>1, <1>5, <2>1, SameRunning DEF IInv, SpuriousWakeup
  <2>5. WakeupPending'
    BY <2>1 DEF WakeupPending, Waiting
  <2> QED
    BY <2>2, <2>3, <2>4, <2>5 DEF IInv
<1> QED
  BY <1>3, <1>4, <1>5

(* get, from the pop: the queue the worker pops from is not empty. *)
LEMMA PopInv ==
    ASSUME IInv, NEW w \in Workers, GetTest(w) \/ GetReturn(w)
    PROVE  IInv'
<1> USE Constants
<1>1. \A u \in Workers \ {w} : pc'[u] = pc[u] /\ job'[u] = job[u]
  BY DEF IInv, TypeOK, GetTest, GetReturn, Goto, Threads
<1>2. pc'[Driver] = pc[Driver]
  BY DEF IInv, TypeOK, GetTest, GetReturn, Goto, Threads
<1>3. CASE GetTest(w)
  <2>1. pc'[w] = "return" /\ pc[w] = "test"
    BY <1>3 DEF IInv, TypeOK, GetTest, Goto, Threads
  <2>2. ~stopped => queue # <<>>
    BY <2>1 DEF IInv, InHand
  <2>3. ~stopped => Head(queue) \in Jobs /\ Tail(queue) \in Seq(Jobs)
    BY <2>2, HeadTailProperties DEF IInv, TypeOK
  <2>4. queue' \in Seq(Jobs) /\ job' \in [Threads -> Jobs \cup {None}]
    BY <1>3, <2>3 DEF IInv, TypeOK, GetTest
  <2>5. TypeOK'
    BY <1>3, <2>4 DEF IInv, TypeOK, GetTest, Goto
  <2>6. job'[w] \in Jobs \/ stopped'
    BY <1>3, <2>3 DEF IInv, TypeOK, GetTest, Threads
  <2>7. \A u \in Workers \ {w} : pc[u] \notin Holding
    BY <2>1 DEF IInv, LockHeld
  <2>8. ThreadsType' /\ LockHeld'
    BY <1>1, <1>2, <1>3, <2>1 DEF IInv, GetTest, ThreadsType, LockHeld
  <2>9. InHand'
    BY <1>1, <2>1, <2>6, <2>7 DEF IInv, InHand
  <2>10. CounterHonest'
    BY <1>1, <1>3, <2>1, SameRunning DEF IInv, GetTest
  <2>11. WakeupPending'
    BY <2>1 DEF WakeupPending, Waiting
  <2> QED
    BY <2>5, <2>8, <2>9, <2>10, <2>11 DEF IInv
<1>4. CASE GetReturn(w)
  <2>1. pc'[w] = (IF stopped THEN "exited" ELSE "count") /\ pc[w] = "return"
    BY <1>4 DEF IInv, TypeOK, GetReturn, Goto, Threads
  <2>2. TypeOK'
    BY <1>4 DEF IInv, TypeOK, GetReturn, Goto
  <2>3. ThreadsType' /\ LockHeld'
    BY <1>1, <1>2, <1>4, <2>1 DEF IInv, GetReturn, ThreadsType, LockHeld
  <2>4. ~stopped => job'[w] \in Jobs
    BY <1>4, <2>1 DEF IInv, InHand, GetReturn
  <2>5. InHand'
    BY <1>1, <1>4, <2>1, <2>4 DEF IInv, InHand, GetReturn
  <2>6. CounterHonest'
    BY <1>1, <1>4, <2>1, SameRunning DEF IInv, GetReturn
  <2>7. WakeupPending'
    BY <2>1 DEF WakeupPending, Waiting
  <2> QED
    BY <2>2, <2>3, <2>5, <2>6, <2>7 DEF IInv
<1> QED
  BY <1>3, <1>4

(* The counter around exec. *)
LEMMA CountInv ==
    ASSUME IInv, NEW w \in Workers, JobCount(w) \/ JobEnd(w)
    PROVE  IInv'
<1> USE Constants
<1>1. \A u \in Workers \ {w} : pc'[u] = pc[u] /\ job'[u] = job[u]
  BY DEF IInv, TypeOK, JobCount, JobEnd, Goto, Threads
<1>2. pc'[Driver] = pc[Driver]
  BY DEF IInv, TypeOK, JobCount, JobEnd, Goto, Threads
<1>3. CASE JobCount(w)
  <2>1. /\ pc[w] = "count"
        /\ pc'[w] = IF Child[job[w]] = None THEN "end" ELSE "add"
    BY <1>3 DEF IInv, TypeOK, JobCount, Goto, Threads
  <2>2. w \notin Running /\ Running' = Running \cup {w}
    BY <1>1, <2>1 DEF Running
  <2>3. CounterHonest' /\ currentJobs' \in Nat
    <3>1. Cardinality(Running') = Cardinality(Running) + 1
      BY <2>2, OneMore
    <3>2. currentJobs' = currentJobs + 1 /\ threw' = threw
      BY <1>3 DEF JobCount
    <3>3. currentJobs = Cardinality(Running) + threw
      BY DEF IInv, CounterHonest
    <3>4. threw \in Nat /\ Cardinality(Running) \in Nat
      BY RunningFinite DEF IInv, TypeOK
    <3> QED
      BY <3>1, <3>2, <3>3, <3>4 DEF CounterHonest
  <2>4. TypeOK'
    BY <1>3, <2>3 DEF IInv, TypeOK, JobCount, Goto
  <2>5. ThreadsType' /\ LockHeld' /\ InHand'
    BY <1>1, <1>2, <1>3, <2>1 DEF IInv, JobCount, ThreadsType, LockHeld, InHand
  <2>6. WakeupPending'
    BY <2>1 DEF WakeupPending, Waiting
  <2> QED
    BY <2>3, <2>4, <2>5, <2>6 DEF IInv
<1>4. CASE JobEnd(w)
  <2>1. pc[w] = "end" /\ pc'[w] = "check" /\ job[w] \in Jobs
    BY <1>4 DEF IInv, TypeOK, InHand, JobEnd, Goto, Threads
  <2>2. w \in Running /\ Running' = Running \ {w}
    BY <1>1, <2>1 DEF Running
  <2>3. /\ Cardinality(Running') = Cardinality(Running) - 1
        /\ Cardinality(Running) > 0
    BY <2>2, OneLess
  <2>4. CounterHonest' /\ currentJobs' \in Nat /\ threw' \in Nat
    <3>1. \/ currentJobs' = currentJobs - 1 /\ threw' = threw
          \/ currentJobs' = currentJobs /\ threw' = threw + 1
      BY <1>4 DEF JobEnd
    <3>2. currentJobs = Cardinality(Running) + threw
      BY DEF IInv, CounterHonest
    <3>3. threw \in Nat /\ Cardinality(Running) \in Nat
      BY RunningFinite DEF IInv, TypeOK
    <3> QED
      BY <2>3, <3>1, <3>2, <3>3 DEF CounterHonest
  <2>5. finished' \in SUBSET Jobs /\ job' \in [Threads -> Jobs \cup {None}]
    BY <1>4, <2>1 DEF IInv, TypeOK, JobEnd
  <2>6. TypeOK'
    BY <1>4, <2>4, <2>5 DEF IInv, TypeOK, JobEnd, Goto
  <2>7. ThreadsType' /\ LockHeld' /\ InHand'
    BY <1>1, <1>2, <1>4, <2>1 DEF IInv, JobEnd, ThreadsType, LockHeld, InHand
  <2>8. WakeupPending'
    BY <2>1 DEF WakeupPending, Waiting
  <2> QED
    BY <2>4, <2>6, <2>7, <2>8 DEF IInv
<1> QED
  BY <1>3, <1>4

(* add pushes while no worker is inside get, and the thread that pushed is  *)
(* awake until it has notified.                                             *)
LEMMA AddInv ==
    ASSUME IInv, (\E w \in Workers : JobAdd(w)) \/ Feed
    PROVE  IInv'
<1> USE Constants
<1>1. lock = None
  BY DEF JobAdd, Feed
<1>2. \A u \in Workers : pc[u] \notin Holding
  BY <1>1 DEF IInv, LockHeld
<1>3. ASSUME NEW w \in Workers, JobAdd(w) PROVE IInv'
  <2>1. pc[w] = "add" /\ pc'[w] = "notify" /\ pc'[Driver] = pc[Driver]
    BY <1>3 DEF IInv, TypeOK, JobAdd, Goto, Threads
  <2>2. \A u \in Workers \ {w} : pc'[u] = pc[u]
    BY <1>3 DEF IInv, TypeOK, JobAdd, Goto, Threads
  <2>3. job[w] \in Jobs /\ Child[job[w]] \in Jobs
    BY <2>1 DEF IInv, InHand
  <2>4. queue' \in Seq(Jobs)
    BY <1>3, <2>3, AppendProperties DEF IInv, TypeOK, JobAdd
  <2>5. TypeOK'
    BY <1>3, <2>4 DEF IInv, TypeOK, JobAdd, Goto
  <2>6. ThreadsType' /\ LockHeld' /\ InHand'
    BY <1>2, <1>3, <2>1, <2>2 DEF IInv, JobAdd, ThreadsType, LockHeld, InHand
  <2>7. CounterHonest'
    BY <1>3, <2>1, <2>2, SameRunning DEF IInv, JobAdd
  <2>8. WakeupPending'
    BY <2>1 DEF WakeupPending, Waiting
  <2> QED
    BY <2>5, <2>6, <2>7, <2>8 DEF IInv
<1>4. CASE Feed
  <2>1. pc'[Driver] = "feedNotify" /\ \A u \in Workers : pc'[u] = pc[u]
    BY <1>4 DEF IInv, TypeOK, Feed, Goto, Threads
  <2>2. Head(left) \in Jobs /\ Tail(left) \in Seq(Jobs)
    BY <1>4, HeadTailProperties DEF IInv, TypeOK, Feed
  <2>3. queue' \in Seq(Jobs)
    BY <1>4, <2>2, AppendProperties DEF IInv, TypeOK, Feed
  <2>4. TypeOK'
    BY <1>4, <2>2, <2>3 DEF IInv, TypeOK, Feed, Goto
  <2>5. ThreadsType' /\ LockHeld' /\ InHand'
    BY <1>2, <1>4, <2>1 DEF IInv, Feed, ThreadsType, LockHeld, InHand
  <2>6. CounterHonest'
    BY <1>4, <2>1, SameRunning DEF IInv, Feed
  <2>7. WakeupPending'
    BY <2>1 DEF WakeupPending
  <2> QED
    BY <2>4, <2>5, <2>6, <2>7 DEF IInv
<1> QED
  BY <1>3, <1>4

(* After notify_one by t somebody is awake: t itself, if it is a worker, or *)
(* the worker it woke, or one that did not wait.                            *)
LEMMA NotifyInv ==
    ASSUME IInv,
           \/ \E w \in Workers : JobNotify(w)
           \/ FeedNotify
    PROVE  IInv'
<1> USE Constants
<1>1. PICK t \in Threads, step \in {"end", "poll", "feed"} :
          /\ NotifyOne(t, step)
          /\ \/ t \in Workers /\ pc[t] = "notify" /\ step = "end"
             \/ t = Driver /\ step \in {"poll", "feed"}
          /\ UNCHANGED <<queue, lock, stopped, currentJobs, job, left, finished, threw, spurious>>
  BY DEF JobNotify, FeedNotify, Threads
<1>2. /\ pc'[t] = step
      /\ \A u \in Threads \ {t} :
             pc'[u] = pc[u] \/ (u \in Waiting /\ pc'[u] = "check")
      /\ pc' \in [Threads -> WorkerSteps \cup DriverSteps]
  <2> pc \in [Threads -> WorkerSteps \cup DriverSteps] /\ step \in WorkerSteps \cup DriverSteps
    BY DEF IInv, TypeOK
  <2>1. CASE Waiting = {}
    <3>1. pc' = [pc EXCEPT ![t] = step]
      BY <1>1, <2>1 DEF NotifyOne, Goto
    <3> QED
      BY <3>1
  <2>2. CASE Waiting # {}
    <3>1. PICK w \in Waiting : pc' = [pc EXCEPT ![t] = step, ![w] = "check"]
      BY <1>1, <2>2 DEF NotifyOne
    <3>2. w \in Workers /\ pc[w] = "waiting" /\ w # t
      BY <1>1 DEF Waiting
    <3> w \in Threads
      BY <3>2 DEF Threads
    <3>3. pc' \in [Threads -> WorkerSteps \cup DriverSteps]
      BY <3>1
    <3>4. pc'[t] = step /\ pc'[w] = "check"
      BY <3>1, <3>2
    <3>5. \A u \in Threads \ {t, w} : pc'[u] = pc[u]
      BY <3>1
    <3> QED
      BY <3>3, <3>4, <3>5
  <2> QED
    BY <2>1, <2>2
<1>3. \A u \in Workers \ {t} :
          pc'[u] = pc[u] \/ (pc[u] = "waiting" /\ pc'[u] = "check")
  BY <1>2 DEF Threads, Waiting
<1>4. t # Driver => pc'[Driver] = pc[Driver]
  BY <1>2 DEF Threads, Waiting
<1>5. TypeOK'
  BY <1>1, <1>2 DEF IInv, TypeOK
<1>6. ThreadsType' /\ LockHeld' /\ InHand'
  BY <1>1, <1>2, <1>3, <1>4 DEF IInv, ThreadsType, LockHeld, InHand
<1>7. CounterHonest'
  BY <1>1, <1>2, <1>3, SameRunning DEF IInv
<1>8. \E u \in Workers : pc'[u] # "waiting"
  <2>1. CASE t \in Workers
    BY <1>1, <1>2, <2>1
  <2>2. CASE t = Driver /\ Waiting = {}
    BY <1>3, <2>2 DEF Waiting
  <2>3. CASE t = Driver /\ Waiting # {}
    <3>1. PICK w \in Waiting : pc' = [pc EXCEPT ![t] = step, ![w] = "check"]
      BY <1>1, <2>3 DEF NotifyOne
    <3>2. w \in Workers /\ pc'[w] = "check"
      BY <3>1 DEF Waiting, Threads, IInv, TypeOK
    <3> QED
      BY <3>2
  <2> QED
    BY <2>1, <2>2, <2>3 DEF Threads
<1>9. WakeupPending'
  BY <1>8 DEF WakeupPending, Waiting
<1> QED
  BY <1>5, <1>6, <1>7, <1>9 DEF IInv

(* The rest of the driver wakes workers and puts none to sleep. *)
LEMMA DriverInv ==
    ASSUME IInv, Poll \/ PollQueue \/ Destroy \/ NotifyAll \/ Join
    PROVE  IInv'
<1> USE Constants
<1>1. /\ UNCHANGED <<queue, lock, currentJobs, job, left, finished, threw, spurious>>
      /\ stopped' \in BOOLEAN /\ (stopped => stopped')
  BY DEF IInv, TypeOK, Poll, PollQueue, Destroy, NotifyAll, Join
<1>2. /\ pc' \in [Threads -> WorkerSteps \cup DriverSteps]
      /\ pc'[Driver] \in DriverSteps
      /\ pc[Driver] # "feedNotify"
  BY DEF IInv, TypeOK, Poll, PollQueue, Destroy, NotifyAll, Join, Goto, Threads
<1>3. \A u \in Workers :
          pc'[u] = pc[u] \/ (pc[u] = "waiting" /\ pc'[u] = "check")
  <2>1. CASE NotifyAll
    BY <2>1 DEF NotifyAll, Threads, Waiting
  <2>2. CASE Poll \/ PollQueue \/ Destroy \/ Join
    BY <2>2 DEF IInv, TypeOK, Poll, PollQueue, Destroy, Join, Goto, Threads
  <2> QED
    BY <2>1, <2>2
<1>4. TypeOK'
  BY <1>1, <1>2 DEF IInv, TypeOK
<1>5. ThreadsType' /\ LockHeld' /\ InHand'
  BY <1>1, <1>2, <1>3 DEF IInv, ThreadsType, LockHeld, InHand
<1>6. CounterHonest'
  BY <1>1, <1>3, SameRunning DEF IInv
<1>7. WakeupPending'
  BY <1>1, <1>2, <1>3 DEF IInv, WakeupPending, Waiting
<1> QED
  BY <1>4, <1>5, <1>6, <1>7 DEF IInv

LEMMA StutterInv == IInv /\ UNCHANGED vars => IInv'
BY DEF vars, IInv, TypeOK, ThreadsType, LockHeld, InHand, CounterHonest,
       Running, WakeupPending, Waiting

LEMMA StepInv == IInv /\ [Next]_vars => IInv'
<1> SUFFICES ASSUME IInv, [Next]_vars PROVE IInv'
  OBVIOUS
<1>1. ASSUME NEW w \in Workers, WorkerStep(w) \/ SpuriousWakeup(w) PROVE IInv'
  BY <1>1, GetInv, PopInv, CountInv, AddInv, NotifyInv DEF WorkerStep
<1>2. CASE DriverStep \/ Destroy
  BY <1>2, AddInv, NotifyInv, DriverInv DEF DriverStep
<1> QED
  BY <1>1, <1>2, StutterInv DEF Next

LEMMA Invariance == Spec => []IInv
BY InitInv, StepInv, PTL DEF Spec

----------------------------------------------------------------------------
(* The pool's state is well formed; in particular a worker pops from a      *)
(* queue that is not empty, although it looked at it before it waited, and  *)
(* currentJobs never goes below zero (get; the loop of init).               *)
THEOREM TypeCorrect == Spec => []TypeOK
<1>1. IInv => TypeOK
  BY DEF IInv
<1> QED
  BY <1>1, Invariance, PTL

(* currentJobs, which no lock protects, is the number of jobs that run plus *)
(* the jobs that threw (the loop of init).                                  *)
THEOREM CountsRunningJobs == Spec => []CounterHonest
<1>1. IInv => CounterHonest
  BY DEF IInv
<1> QED
  BY <1>1, Invariance, PTL

(* Although add notifies after it has released the lock, no wakeup is lost  *)
(* between it and get: beside a queue with jobs somebody is awake, or is    *)
(* about to be woken by the driver.                                         *)
THEOREM NoLostWakeup == Spec => []WakeupPending
<1>1. IInv => WakeupPending
  BY DEF IInv
<1> QED
  BY <1>1, Invariance, PTL
=============================================================================
