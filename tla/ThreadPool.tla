----------------------------- MODULE ThreadPool -----------------------------
(***************************************************************************)
(* TC_ThreadPool with the TC_Thread start handshake and the                *)
(* TC_ThreadQueue its workers take jobs from.  One owner thread starts,    *)
(* waits for, stops and restarts the pool; jobs may be added at any time.  *)
(*                                                                         *)
(* A step that holds one lock throughout is one action.  A TC_Monitor      *)
(* delivers notify() when it is unlocked, so what a thread does under the  *)
(* lock before and after its notify() is one step.                         *)
(***************************************************************************)
EXTENDS Naturals, Sequences, FiniteSets, SequencesExt

CONSTANTS
    NumWorkers,   \* init(num)
    Jobs,         \* the functions given to exec()
    NoJob,        \* an empty function
    MaxStarts     \* bound: calls of start()

ASSUME ThreadPoolAssumption ==
    /\ NumWorkers \in Nat \ {0} /\ MaxStarts \in Nat
    /\ NoJob \notin Jobs

Workers == 1 .. NumWorkers

VARIABLES
    jobqueue,     \* _jobqueue
    startqueue,   \* _startqueue: "tf" or "empty", a moved-from function
    busthread,    \* _busthread
    allDone,      \* _bAllDone
    terminate,    \* _bTerminate of each worker
    running,      \* _running of each worker
    wpc,          \* where each worker is
    job,          \* pfw, the function a worker has taken
    opc,          \* where the owner is
    next,         \* the worker start() or stop() is at
    forever,      \* waitForAllDone(-1)
    result,       \* what waitForAllDone returned last
    added,        \* jobs given to exec()
    early,        \* a job was added while the pool was not up
    done,         \* jobs that were run
    dropped,      \* jobs cleared from the queue by exit()
    starts        \* calls of start()

queues == <<jobqueue, startqueue>>
flags == <<busthread, allDone>>
workers == <<terminate, running, wpc, job>>
owner == <<opc, next, forever, result, starts>>
ghosts == <<added, early, done, dropped>>
vars == <<jobqueue, startqueue, busthread, allDone, terminate, running, wpc,
          job, opc, next, forever, result, added, early, done, dropped, starts>>

(* The constructor and init(). *)
Init ==
    /\ jobqueue = << >> /\ startqueue = << >>
    /\ busthread = {}
    /\ allDone = TRUE
    /\ terminate = [w \in Workers |-> FALSE]
    /\ running = [w \in Workers |-> FALSE]
    /\ wpc = [w \in Workers |-> "none"]
    /\ job = [w \in Workers |-> NoJob]
    /\ opc = "stopped" /\ next = 0 /\ forever = FALSE /\ result = "none"
    /\ added = {} /\ early = FALSE /\ done = {} /\ dropped = {}
    /\ starts = 0

-----------------------------------------------------------------------------
MutantExecSilent(j) ==
    /\ j \notin added
    /\ added' = added \cup {j}
    /\ early' = (early \/ opc \notin {"up", "test", "waiting"})
    /\ jobqueue' = Append(jobqueue, j)
    /\ UNCHANGED <<startqueue, flags, workers, owner, done, dropped>>

(* exec(), with TC_ThreadQueue::push_back: signal() wakes one of the       *)
(* workers that wait, if there is one.                                     *)
Exec(j) ==
    /\ j \notin added
    /\ added' = added \cup {j}
    /\ early' = (early \/ opc \notin {"up", "test", "waiting"})
    /\ jobqueue' = Append(jobqueue, j)
    /\ LET waiting == {w \in Workers : wpc[w] = "waiting"}
       IN  IF waiting = {}
             THEN UNCHANGED wpc
             ELSE \E w \in waiting : wpc' = [wpc EXCEPT ![w] = "retest"]
    /\ UNCHANGED <<startqueue, flags, terminate, running, job, owner, done, dropped>>

-----------------------------------------------------------------------------
(* A worker: TC_Thread::threadEntry and ThreadWorker::run. *)
At(w, here) == wpc[w] = here
Go(w, there) == wpc' = [wpc EXCEPT ![w] = there]

(* _running is set; _lock is taken, which start() gives up in its wait(),  *)
(* and start() is notified.                                                *)
ThreadEntry(w) ==
    /\ At(w, "entry")
    /\ running' = [running EXCEPT ![w] = TRUE]
    /\ Go(w, "notify")
    /\ UNCHANGED <<queues, flags, terminate, job, owner, ghosts>>

NotifyStart(w) ==
    /\ At(w, "notify")
    /\ opc = "created" => next # w
    /\ Go(w, "initialize")
    /\ opc' = IF opc = "entered" /\ next = w THEN "starting" ELSE opc
    /\ next' = IF opc = "entered" /\ next = w THEN next + 1 ELSE next
    /\ UNCHANGED <<queues, flags, terminate, running, job, forever, result,
                   starts, ghosts>>

(* get(), whose pop_front does not wait. *)
Initialize(w) ==
    /\ At(w, "initialize")
    /\ startqueue' = IF startqueue = << >> THEN << >> ELSE Tail(startqueue)
    /\ Go(w, "loop")
    /\ UNCHANGED <<jobqueue, flags, terminate, running, job, owner, ghosts>>

LoopTest(w) ==
    /\ At(w, "loop")
    /\ Go(w, IF terminate[w] THEN "exit" ELSE "pop")
    /\ UNCHANGED <<queues, flags, terminate, running, job, owner, ghosts>>

MutantPopKeeps(w) ==
    /\ wpc[w] \in {"pop", "retest"} /\ jobqueue # << >>
    /\ job' = [job EXCEPT ![w] = Head(jobqueue)]
    /\ Go(w, "popped")
    /\ UNCHANGED <<queues, flags, terminate, running, owner, ghosts>>

(* get(this): pop_front under the lock of the queue. *)
Take(w) ==
    /\ wpc[w] \in {"pop", "retest"} /\ jobqueue # << >>
    /\ job' = [job EXCEPT ![w] = Head(jobqueue)]
    /\ jobqueue' = Tail(jobqueue)
    /\ Go(w, "popped")
    /\ UNCHANGED <<startqueue, flags, terminate, running, owner, ghosts>>

TakeNothing(w) ==
    /\ jobqueue = << >>
    /\ \/ At(w, "pop") /\ Go(w, "waiting")
       \/ At(w, "retest") /\ Go(w, "loop")
    /\ UNCHANGED <<queues, flags, terminate, running, job, owner, ghosts>>

MutantPopForever(w) == At(w, "waiting") /\ Go(w, "waiting") /\ UNCHANGED vars

(* timedWait(1000) returns false. *)
PopTimeout(w) ==
    /\ At(w, "waiting")
    /\ Go(w, "loop")
    /\ UNCHANGED <<queues, flags, terminate, running, job, owner, ghosts>>

(* ... and only then _tmutex is locked and the worker becomes busy. *)
Busy(w) ==
    /\ At(w, "popped")
    /\ busthread' = busthread \cup {w}
    /\ Go(w, "run")
    /\ UNCHANGED <<queues, allDone, terminate, running, job, owner, ghosts>>

(* pfw(), which may throw. *)
RunJob(w) ==
    /\ At(w, "run")
    /\ done' = done \cup {job[w]}
    /\ job' = [job EXCEPT ![w] = NoJob]
    /\ Go(w, "idle")
    /\ UNCHANGED <<queues, flags, terminate, running, owner, added, early, dropped>>

(* idle(), under _tmutex. *)
Idle(w) ==
    /\ At(w, "idle")
    /\ busthread' = busthread \ {w}
    /\ IF busthread' = {}
         THEN /\ allDone' = TRUE
              /\ opc' = IF opc = "waiting" THEN "test" ELSE opc
         ELSE UNCHANGED <<allDone, opc>>
    /\ Go(w, "loop")
    /\ UNCHANGED <<queues, terminate, running, job, next, forever, result, starts,
                   ghosts>>

(* exit() of a terminated worker clears the queue of all. *)
Exit(w) ==
    /\ At(w, "exit")
    /\ dropped' = dropped \cup ToSet(jobqueue)
    /\ jobqueue' = << >>
    /\ Go(w, "exited")
    /\ UNCHANGED <<startqueue, flags, terminate, running, job, owner, added, early,
                   done>>

ThreadEnd(w) ==
    /\ At(w, "exited")
    /\ running' = [running EXCEPT ![w] = FALSE]
    /\ Go(w, "none")
    /\ UNCHANGED <<queues, flags, terminate, job, owner, ghosts>>

WorkerStep(w) ==
    \/ ThreadEntry(w) \/ NotifyStart(w) \/ Initialize(w) \/ LoopTest(w)
    \/ Take(w) \/ TakeNothing(w) \/ Busy(w) \/ RunJob(w) \/ Idle(w)
    \/ Exit(w) \/ ThreadEnd(w)

-----------------------------------------------------------------------------
(* The owner. *)
OwnerGo(there) == opc' = there

(* init() after stop(): new workers. *)
InitPool ==
    /\ opc = "stopped" /\ \A w \in Workers : wpc[w] = "none"
    /\ \E w \in Workers : terminate[w]
    /\ terminate' = [w \in Workers |-> FALSE]
    /\ busthread' = {}
    /\ UNCHANGED <<queues, allDone, running, wpc, job, owner, ghosts>>

(* start() and start(tf), which moves tf into the first entry of the queue *)
(* and leaves an empty function for the others.                            *)
StartCall(withTf) ==
    /\ opc = "stopped" /\ starts < MaxStarts
    /\ starts' = starts + 1
    /\ startqueue' = IF withTf
                       THEN startqueue \o [w \in Workers |-> IF w = 1 THEN "tf" ELSE "empty"]
                       ELSE startqueue
    /\ OwnerGo("starting")
    /\ next' = 1
    /\ UNCHANGED <<jobqueue, flags, workers, forever, result, ghosts>>

MutantCreateOnly ==
    /\ opc = "starting" /\ next \in Workers
    /\ wpc' = [wpc EXCEPT ![next] = "entry"]
    /\ next' = next + 1
    /\ UNCHANGED <<queues, flags, terminate, running, job, opc, forever, result,
                   starts, ghosts>>

(* TC_Thread::start: pthread_create with _lock held ... *)
CreateThread ==
    /\ opc = "starting" /\ next \in Workers
    /\ wpc' = [wpc EXCEPT ![next] = "entry"]
    /\ OwnerGo("created")
    /\ UNCHANGED <<queues, flags, terminate, running, job, next, forever, result,
                   starts, ghosts>>

(* ... until wait() gives it up. *)
WaitEntered ==
    /\ opc = "created"
    /\ OwnerGo("entered")
    /\ UNCHANGED <<queues, flags, workers, next, forever, result, starts, ghosts>>

StartReturn ==
    /\ opc = "starting" /\ next \notin Workers
    /\ allDone' = FALSE
    /\ OwnerGo("up")
    /\ UNCHANGED <<queues, busthread, workers, next, forever, result, starts, ghosts>>

WaitForAllDone(ever) ==
    /\ opc = "up"
    /\ forever' = ever
    /\ result' = "none"
    /\ OwnerGo("test")
    /\ UNCHANGED <<queues, flags, workers, next, starts, ghosts>>

finish == startqueue = << >> /\ jobqueue = << >> /\ busthread = {} /\ allDone

(* The test under _tmutex, which timedWait gives up. *)
WaitTest ==
    /\ opc = "test"
    /\ IF finish
         THEN result' = "true" /\ OwnerGo("up")
         ELSE OwnerGo("waiting") /\ UNCHANGED result
    /\ UNCHANGED <<queues, flags, workers, next, forever, starts, ghosts>>

(* timedWait times out: waitForAllDone(-1) tests again, one with a limit   *)
(* tests for the last time.                                                *)
WaitTimeout ==
    /\ opc = "waiting"
    /\ IF forever
         THEN OwnerGo("test") /\ UNCHANGED result
         ELSE result' = (IF finish THEN "true" ELSE "false") /\ OwnerGo("up")
    /\ UNCHANGED <<queues, flags, workers, next, forever, starts, ghosts>>

StopCall ==
    /\ opc = "up"
    /\ OwnerGo("stopping")
    /\ next' = 1
    /\ UNCHANGED <<queues, flags, workers, forever, result, starts, ghosts>>

(* terminate() of a worker that is alive, with notifyT(), and join(). *)
StopWorker ==
    /\ opc = "stopping" /\ next \in Workers
    /\ IF running[next]
         THEN /\ terminate' = [terminate EXCEPT ![next] = TRUE]
              /\ wpc' = [w \in Workers |->
                           IF wpc[w] = "waiting" THEN "retest" ELSE wpc[w]]
              /\ OwnerGo("joining")
              /\ UNCHANGED next
         ELSE /\ next' = next + 1
              /\ UNCHANGED <<terminate, wpc, opc>>
    /\ UNCHANGED <<queues, flags, running, job, forever, result, starts, ghosts>>

Join ==
    /\ opc = "joining" /\ At(next, "none")
    /\ OwnerGo("stopping")
    /\ next' = next + 1
    /\ UNCHANGED <<queues, flags, workers, forever, result, starts, ghosts>>

StopReturn ==
    /\ opc = "stopping" /\ next \notin Workers
    /\ allDone' = TRUE
    /\ OwnerGo("stopped")
    /\ UNCHANGED <<queues, busthread, workers, next, forever, result, starts, ghosts>>

OwnerStep ==
    \/ CreateThread \/ WaitEntered \/ StartReturn \/ WaitTest
    \/ StopWorker \/ Join \/ StopReturn

(* The owner is done with the pool. *)
Ended == opc = "stopped" /\ UNCHANGED vars

Next ==
    \/ \E w \in Workers : WorkerStep(w) \/ PopTimeout(w)
    \/ \E j \in Jobs : Exec(j)
    \/ \E b \in BOOLEAN : StartCall(b) \/ WaitForAllDone(b)
    \/ OwnerStep \/ WaitTimeout \/ InitPool \/ StopCall \/ Ended

Spec == Init /\ [][Next]_vars

(* Every thread gets the processor and every job returns.  No timeout is   *)
(* assumed to expire.                                                      *)
LiveSpec ==
    /\ Spec
    /\ \A w \in Workers : WF_vars(WorkerStep(w))
    /\ WF_vars(OwnerStep)

(* The timeouts of pop_front and waitForAllDone expire. *)
TimeoutsExpire ==
    (\A w \in Workers : WF_vars(PopTimeout(w))) /\ WF_vars(WaitTimeout)

-----------------------------------------------------------------------------
\* The variables have the types of the pool's and its threads' members.
TypeOK ==
    /\ jobqueue \in Seq(Jobs)
    /\ startqueue \in Seq({"tf", "empty"})
    /\ busthread \subseteq Workers
    /\ {allDone, forever, early} \subseteq BOOLEAN
    /\ {terminate, running} \subseteq [Workers -> BOOLEAN]
    /\ wpc \in [Workers -> {"none", "entry", "notify", "initialize", "loop", "pop",
                            "waiting", "retest", "popped", "run", "idle", "exit",
                            "exited"}]
    /\ job \in [Workers -> Jobs \cup {NoJob}]
    /\ opc \in {"stopped", "starting", "created", "entered", "up", "test",
                "waiting", "stopping", "joining"}
    /\ next \in 0 .. NumWorkers + 1
    /\ result \in {"none", "true", "false"}
    /\ added \subseteq Jobs /\ done \subseteq Jobs /\ dropped \subseteq Jobs
    /\ starts \in 0 .. MaxStarts

(* finish() is false while any job is being run, whatever the workers and  *)
(* the owner are doing: _busthread names them all.                         *)
NotDoneWhileRunning == finish => \A w \in Workers : wpc[w] # "run"

(* A job given to exec() is at any time in exactly one place: queued once, *)
(* taken by one worker, run, or cleared by a worker's exit().  No job is   *)
(* run by two workers and none disappears between them.                    *)
JobInOnePlace ==
    /\ TypeOK /\ NotDoneWhileRunning
    /\ Len(jobqueue) = Cardinality(ToSet(jobqueue))
    /\ \A j \in added :
         LET places == {p \in {"queue", "done", "dropped"} :
                          \/ p = "queue" /\ j \in ToSet(jobqueue)
                          \/ p = "done" /\ j \in done
                          \/ p = "dropped" /\ j \in dropped}
         IN  Cardinality(places) + Cardinality({w \in Workers : job[w] = j}) = 1

(* When stop() has returned no worker is left, not even one whose thread   *)
(* had only just been created: start() waits until _running is set, by     *)
(* which stop() decides whom to join.                                      *)
StoppedMeansGone ==
    opc = "stopped" => \A w \in Workers : wpc[w] = "none"

(* A job given to a pool in its first start is run unless the pool is      *)
(* stopped, even if no timedWait ever times out.  (Workers of a pool that  *)
(* is started again without init() find _bTerminate set and end at once.)  *)
JobRuns ==
    \A j \in Jobs :
        j \in added /\ starts = 1 ~> j \in done \/ opc \in {"stopping", "joining", "stopped"}

(* stop() returns, if timedWait times out: a worker may test _bTerminate   *)
(* just before it is set and miss the notification.                        *)
StopReturns == TimeoutsExpire => (opc = "stopping" ~> opc = "stopped")

(* waitForAllDone(-1) returns once every job was run, if there was one     *)
(* since start() and none was added before it returned: only a job resets  *)
(* what start() sets.                                                      *)
WaitReturns ==
    TimeoutsExpire =>
        (opc = "waiting" /\ starts = 1 /\ ~early /\ added # {} /\ done = added
           ~> opc \notin {"waiting", "test"} \/ early)

(* The calls of the owner that wait for the workers return.                *)
CallsReturn == StopReturns /\ WaitReturns

(* tc_thread_pool.h:117: waitForAllDone returns true when all jobs have    *)
(* been processed.                                                         *)
TrueMeansDone ==
    [][result' = "true" /\ result # "true" => \A w \in Workers : job[w] = NoJob]_vars
=============================================================================
