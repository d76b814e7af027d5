----------------------------- MODULE ThreadPool -----------------------------
(***************************************************************************)
(* The thread pool that runs the background jobs of SPFresh                *)
(* (inc/Helper/ThreadPool.h, with the loop of SPDKThreadPool in            *)
(* ExtraDynamicSearcher.h): a queue under m_lock, a condition variable, an *)
(* atomic counter of the running jobs, and a destructor.  A driver adds    *)
(* jobs, polls allClear until it returns true, and destroys the pool.      *)
(* What a job does is left open, except that it may add jobs itself (a     *)
(* split adds reassigns) and may end with an exception.                    *)
(***************************************************************************)
EXTENDS Integers, Sequences, FiniteSets

CONSTANTS
    Workers,    \* the threads init starts
    Driver,     \* the thread that adds the first jobs and waits for the end
    None,       \* no thread, no job
    Jobs,
    First,      \* the jobs the driver adds, in this order
    Child,      \* the job a job adds when it runs, or None
    Throwing,   \* the jobs whose exec may throw
    MaxSpurious \* bound: how many waits end without a notification

Threads == Workers \cup {Driver}

ASSUME ThreadPoolAssumption ==
    /\ Driver \notin Workers /\ None \notin Threads \cup Jobs
    /\ IsFiniteSet(Workers) /\ Workers # {}
    /\ First \in Seq(Jobs)
    /\ Child \in [Jobs -> Jobs \cup {None}]
    /\ Throwing \subseteq Jobs
    /\ MaxSpurious \in Nat

VARIABLES
    queue,       \* m_jobs
    lock,        \* m_lock
    stopped,     \* m_abort.m_stopped
    currentJobs, \* currentJobs
    pc,          \* where each thread is
    job,         \* the job in each thread's hands
    left,        \* what the driver has not added yet
    finished,    \* history: the jobs whose exec has ended...
    threw,       \* ... and how many times it ended with an exception
    spurious     \* how many waits ended by themselves, for MaxSpurious

vars == <<queue, lock, stopped, currentJobs, pc, job, left, finished, threw, spurious>>

WorkerSteps == {"check", "block", "waiting", "test", "return", "count", "add",
                "notify", "end", "exited"}
DriverSteps == {"feed", "feedNotify", "poll", "pollQueue", "clear", "notifyAll",
                "join", "destroyed"}

Goto(t, step) == pc' = [pc EXCEPT ![t] = step]
Waiting       == {w \in Workers : pc[w] = "waiting"}

Init ==
    /\ queue = <<>>
    /\ lock = None
    /\ stopped = FALSE
    /\ currentJobs = 0
    /\ pc = [t \in Threads |-> IF t = Driver THEN "feed" ELSE "check"]
    /\ job = [t \in Threads |-> None]
    /\ left = First
    /\ finished = {}
    /\ threw = 0
    /\ spurious = 0

----------------------------------------------------------------------------
(* get *)

(* A mutant: a worker waits whatever is in the queue. *)
Mutant_GetCheck(w) ==
    /\ pc[w] = "check"
    /\ lock = None
    /\ lock' = w
    /\ Goto(w, IF ~stopped THEN "block" ELSE "test")
    /\ UNCHANGED <<queue, stopped, currentJobs, job, left, finished, threw, spurious>>

(* With m_lock taken, the condition of the while loop. *)
GetCheck(w) ==
    /\ pc[w] = "check"
    /\ lock = None
    /\ lock' = w
    /\ Goto(w, IF queue = <<>> /\ ~stopped THEN "block" ELSE "test")
    /\ UNCHANGED <<queue, stopped, currentJobs, job, left, finished, threw, spurious>>

(* m_cond.wait: the lock is released and the worker blocks, in one step. *)
GetBlock(w) ==
    /\ pc[w] = "block"
    /\ lock' = None
    /\ Goto(w, "waiting")
    /\ UNCHANGED <<queue, stopped, currentJobs, job, left, finished, threw, spurious>>

(* The standard lets a wait end without a notification. *)
SpuriousWakeup(w) ==
    /\ pc[w] = "waiting"
    /\ spurious < MaxSpurious
    /\ spurious' = spurious + 1
    /\ Goto(w, "check")
    /\ UNCHANGED <<queue, lock, stopped, currentJobs, job, left, finished, threw>>

(* Unless the pool was stopped since, the first job is popped. *)
GetTest(w) ==
    /\ pc[w] = "test"
    /\ IF stopped
       THEN UNCHANGED <<queue, job>>
       ELSE /\ job' = [job EXCEPT ![w] = Head(queue)]
            /\ queue' = Tail(queue)
    /\ Goto(w, "return")
    /\ UNCHANGED <<lock, stopped, currentJobs, left, finished, threw, spurious>>

(* m_abort is read once more for the result: a worker that popped a job     *)
(* just before the pool was stopped leaves with it.                         *)
GetReturn(w) ==
    /\ pc[w] = "return"
    /\ lock' = None
    /\ IF stopped THEN /\ Goto(w, "exited")
                       /\ job' = [job EXCEPT ![w] = None]
                  ELSE Goto(w, "count") /\ job' = job
    /\ UNCHANGED <<queue, stopped, currentJobs, left, finished, threw, spurious>>

----------------------------------------------------------------------------
(* The loop around exec *)

(* A mutant: only the end of a job is counted. *)
Mutant_JobCount(w) ==
    /\ pc[w] = "count"
    /\ Goto(w, IF Child[job[w]] = None THEN "end" ELSE "add")
    /\ UNCHANGED <<queue, lock, stopped, currentJobs, job, left, finished, threw, spurious>>

(* The job in hand is counted as running. *)
JobCount(w) ==
    /\ pc[w] = "count"
    /\ currentJobs' = currentJobs + 1
    /\ Goto(w, IF Child[job[w]] = None THEN "end" ELSE "add")
    /\ UNCHANGED <<queue, lock, stopped, job, left, finished, threw, spurious>>

(* add, called from exec: the job is pushed under m_lock... *)
JobAdd(w) ==
    /\ pc[w] = "add"
    /\ lock = None
    /\ queue' = Append(queue, Child[job[w]])
    /\ Goto(w, "notify")
    /\ UNCHANGED <<lock, stopped, currentJobs, job, left, finished, threw, spurious>>

(* notify_one by thread t, which goes on at step: any one waiting worker    *)
(* wakes up, if there is one.                                               *)
NotifyOne(t, step) ==
    IF Waiting = {}
    THEN Goto(t, step)
    ELSE \E w \in Waiting : pc' = [pc EXCEPT ![t] = step, ![w] = "check"]

(* ... and after it a worker is notified. *)
JobNotify(w) ==
    /\ pc[w] = "notify"
    /\ NotifyOne(w, "end")
    /\ UNCHANGED <<queue, lock, stopped, currentJobs, job, left, finished, threw, spurious>>

(* A mutant: currentJobs counts jobs started, not running. *)
Mutant_JobEnd(w) ==
    /\ pc[w] = "end"
    /\ finished' = finished \cup {job[w]}
    /\ job' = [job EXCEPT ![w] = None]
    /\ Goto(w, "check")
    /\ UNCHANGED <<queue, lock, stopped, currentJobs, left, threw, spurious>>

(* The end of exec.  An exception skips the decrement. *)
JobEnd(w) ==
    /\ pc[w] = "end"
    /\ \/ /\ currentJobs' = currentJobs - 1
          /\ threw' = threw
       \/ /\ job[w] \in Throwing
          /\ currentJobs' = currentJobs
          /\ threw' = threw + 1
    /\ finished' = finished \cup {job[w]}
    /\ job' = [job EXCEPT ![w] = None]
    /\ Goto(w, "check")
    /\ UNCHANGED <<queue, lock, stopped, left, spurious>>

----------------------------------------------------------------------------
(* The driver *)

(* A mutant: nobody is notified of the job. *)
Mutant_Feed ==
    /\ pc[Driver] = "feed"
    /\ left # <<>>
    /\ lock = None
    /\ queue' = Append(queue, Head(left))
    /\ left' = Tail(left)
    /\ Goto(Driver, IF Len(left) = 1 THEN "poll" ELSE "feed")
    /\ UNCHANGED <<lock, stopped, currentJobs, job, finished, threw, spurious>>

(* add, called by the driver for each of its jobs in turn. *)
Feed ==
    /\ pc[Driver] = "feed"
    /\ left # <<>>
    /\ lock = None
    /\ queue' = Append(queue, Head(left))
    /\ left' = Tail(left)
    /\ Goto(Driver, "feedNotify")
    /\ UNCHANGED <<lock, stopped, currentJobs, job, finished, threw, spurious>>

FeedNotify ==
    /\ pc[Driver] = "feedNotify"
    /\ NotifyOne(Driver, IF left = <<>> THEN "poll" ELSE "feed")
    /\ UNCHANGED <<queue, lock, stopped, currentJobs, job, left, finished, threw, spurious>>

(* allClear takes no lock: currentJobs is read... *)
Poll ==
    /\ pc[Driver] = "poll"
    /\ currentJobs = 0
    /\ Goto(Driver, "pollQueue")
    /\ UNCHANGED <<queue, lock, stopped, currentJobs, job, left, finished, threw, spurious>>

(* ... and then the size of the queue.  (A poll that fails leaves no trace.) *)
PollQueue ==
    /\ pc[Driver] = "pollQueue"
    /\ Goto(Driver, IF queue = <<>> THEN "clear" ELSE "poll")
    /\ UNCHANGED <<queue, lock, stopped, currentJobs, job, left, finished, threw, spurious>>

(* The destructor stops the pool without taking m_lock, ... *)
Destroy ==
    /\ pc[Driver] = "clear"
    /\ stopped' = TRUE
    /\ Goto(Driver, "notifyAll")
    /\ UNCHANGED <<queue, lock, currentJobs, job, left, finished, threw, spurious>>

(* ... wakes the workers that wait at this moment, ... *)
NotifyAll ==
    /\ pc[Driver] = "notifyAll"
    /\ pc' = [t \in Threads |-> IF t = Driver THEN "join"
                                ELSE IF t \in Waiting THEN "check" ELSE pc[t]]
    /\ UNCHANGED <<queue, lock, stopped, currentJobs, job, left, finished, threw, spurious>>

(* ... and joins them. *)
Join ==
    /\ pc[Driver] = "join"
    /\ \A w \in Workers : pc[w] = "exited"
    /\ Goto(Driver, "destroyed")
    /\ UNCHANGED <<queue, lock, stopped, currentJobs, job, left, finished, threw, spurious>>

WorkerStep(w) ==
    \/ GetCheck(w) \/ GetBlock(w) \/ GetTest(w) \/ GetReturn(w)
    \/ JobCount(w) \/ JobAdd(w) \/ JobNotify(w) \/ JobEnd(w)

DriverStep == Feed \/ FeedNotify \/ Poll \/ PollQueue \/ NotifyAll \/ Join

Next ==
    \/ \E w \in Workers : WorkerStep(w) \/ SpuriousWakeup(w)
    \/ DriverStep
    \/ Destroy

Spec == Init /\ [][Next]_vars

(* Every thread that is not blocked keeps running; since each holds m_lock  *)
(* for a few steps and finitely often, each gets it too.  A wait need not   *)
(* end by itself, and nobody is obliged to destroy the pool.                *)
FairSpec ==
    /\ Spec
    /\ \A w \in Workers : WF_vars(WorkerStep(w))
    /\ WF_vars(DriverStep)

----------------------------------------------------------------------------
(* Properties *)

Running == {w \in Workers : pc[w] \in {"add", "notify", "end"}}

TypeOK ==
    /\ queue \in Seq(Jobs)
    /\ lock \in Workers \cup {None}
    /\ stopped \in BOOLEAN
    /\ currentJobs \in Nat
    /\ pc \in [Threads -> WorkerSteps \cup DriverSteps]
    /\ job \in [Threads -> Jobs \cup {None}]
    /\ left \in Seq(Jobs)
    /\ finished \in SUBSET Jobs
    /\ threw \in Nat
    /\ spurious \in 0..MaxSpurious

(* currentJobs is the number of jobs that run, plus, for good, the jobs     *)
(* that ended with an exception: after one of these allClear is never true  *)
(* again.                                                                   *)
CounterHonest ==
    currentJobs = Cardinality(Running) + threw

(* No wakeup is lost between add and get: while there are jobs and the pool *)
(* is not stopped, not all the workers sleep, or a notification is coming.  *)
WakeupPending ==
    (queue # <<>> /\ ~stopped) =>
        \/ Waiting # Workers
        \/ pc[Driver] = "feedNotify"

(* Every job that was added is run to its end, unless the pool is stopped. *)
AllJobsRun ==
    \A j \in Jobs :
        (\E i \in DOMAIN queue : queue[i] = j) ~> (j \in finished \/ stopped)

(* The driver's loop ends: once the jobs have run, allClear says so; only   *)
(* an exception can make it poll for good.                                  *)
PollEnds ==
    <>(pc[Driver] \notin {"feed", "feedNotify", "poll", "pollQueue"} \/ threw > 0)

(* What a driver that waits with while(!AllFinished()) takes for granted,   *)
(* and reports as "Finish syncing": when allClear has returned true, no job *)
(* that was added is still on its way.                                      *)
ClearMeansDone ==
    pc[Driver] = "clear" =>
        /\ queue = <<>>
        /\ \A w \in Workers : job[w] = None
=============================================================================
