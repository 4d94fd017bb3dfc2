-------------------------- MODULE ThreadPoolProofs --------------------------
(***************************************************************************)
(* Proofs about the thread pool for every number of workers, every set of  *)
(* jobs and every number of restarts: stop() leaves no thread behind, and  *)
(* no job is lost or run twice.                                            *)
(***************************************************************************)
EXTENDS ThreadPool, SequenceFacts

USE ThreadPoolAssumption

-----------------------------------------------------------------------------
(* The start handshake.  _running says that the thread has come past its   *)
(* entry; only the worker start() is waiting for can be before that point; *)
(* the workers start() has not reached and those stop() has joined do not  *)
(* exist.                                                                  *)
Handshake ==
  /\ \A w \in Workers : running[w] <=> wpc[w] \notin {"none", "entry"}
  /\ \A w \in Workers : wpc[w] \in {"entry", "notify"} =>
                          opc \in {"created", "entered"} /\ next = w
  /\ opc \in {"created", "entered", "joining"} => next \in Workers
  /\ opc \in {"starting", "stopping"} => next \in 1 .. NumWorkers + 1
  /\ opc = "starting" => \A w \in Workers : w >= next => wpc[w] = "none"
  /\ opc \in {"created", "entered"} => \A w \in Workers : w > next => wpc[w] = "none"
  /\ opc \in {"stopping", "joining"} => \A w \in Workers : w < next => wpc[w] = "none"
  /\ opc = "stopped" => \A w \in Workers : wpc[w] = "none"

(* _busthread holds every worker from the lock of _tmutex before the job   *)
(* to the one after it.                                                    *)
BusyWhileRunning ==
  \A w \in Workers : wpc[w] \in {"run", "idle"} => w \in busthread

(* The places of a job, without counting: a worker holds a job exactly     *)
(* between taking and running it, two workers never the same one, and the  *)
(* four places exclude each other and leave nothing out.                   *)
JobPlaces ==
  /\ IsInjective(jobqueue)
  /\ \A w \in Workers : job[w] # NoJob <=> wpc[w] \in {"popped", "run"}
  /\ \A w, v \in Workers : job[w] = job[v] /\ job[w] # NoJob => w = v
  /\ \A w \in Workers : job[w] # NoJob =>
       job[w] \in added \ (ToSet(jobqueue) \cup done \cup dropped)
  /\ ToSet(jobqueue) \cap done = {} /\ ToSet(jobqueue) \cap dropped = {}
  /\ done \cap dropped = {}
  /\ ToSet(jobqueue) \cup done \cup dropped \subseteq added
  /\ \A j \in added : \/ j \in ToSet(jobqueue) \cup done \cup dropped
                      \/ \E w \in Workers : job[w] = j

PoolInv == TypeOK /\ Handshake /\ BusyWhileRunning /\ JobPlaces

(* The constructor establishes the invariant.                              *)
LEMMA PoolInvInit == Init => PoolInv
<1> SUFFICES ASSUME Init PROVE PoolInv
  OBVIOUS
<1>1. TypeOK
  <2>1. /\ {allDone, forever, early} \subseteq BOOLEAN
        /\ {terminate, running} \subseteq [Workers -> BOOLEAN]
    BY Zenon DEF Init
  <2> QED BY <2>1 DEF Init, TypeOK, Workers
<1>2. Handshake /\ BusyWhileRunning
  BY DEF Init, Handshake, BusyWhileRunning
<1>3. ToSet(jobqueue) = {} /\ IsInjective(jobqueue)
  BY DEF Init, ToSet, IsInjective
<1>4. JobPlaces
  BY <1>3 DEF Init, JobPlaces
<1> QED BY <1>1, <1>2, <1>4 DEF PoolInv

(* Every step keeps the types.  That a job which is run is one, and that   *)
(* next does not pass the last worker, is due to the other two parts.      *)
LEMMA TypeStep ==
  TypeOK /\ Handshake /\ JobPlaces /\ [Next]_vars => TypeOK'
<1> SUFFICES ASSUME TypeOK, Handshake, JobPlaces, [Next]_vars PROVE TypeOK'
  OBVIOUS
<1> USE DEF At, Go, OwnerGo, queues, flags, workers, owner, ghosts, Workers,
            TypeOK
<1>1. ASSUME NEW w \in Workers, ThreadEntry(w) PROVE TypeOK'
  BY <1>1 DEF ThreadEntry
<1>2. ASSUME NEW w \in Workers, NotifyStart(w) PROVE TypeOK'
  BY <1>2 DEF NotifyStart
<1>3. ASSUME NEW w \in Workers, Initialize(w) PROVE TypeOK'
  BY <1>3 DEF Initialize
<1>4. ASSUME NEW w \in Workers, LoopTest(w) PROVE TypeOK'
  BY <1>4 DEF LoopTest
<1>5. ASSUME NEW w \in Workers, Take(w) PROVE TypeOK'
  BY <1>5 DEF Take
<1>6. ASSUME NEW w \in Workers, TakeNothing(w) PROVE TypeOK'
  BY <1>6 DEF TakeNothing
<1>7. ASSUME NEW w \in Workers, PopTimeout(w) PROVE TypeOK'
  BY <1>7 DEF PopTimeout
<1>8. ASSUME NEW w \in Workers, Busy(w) PROVE TypeOK'
  BY <1>8 DEF Busy
<1>9. ASSUME NEW w \in Workers, RunJob(w) PROVE TypeOK'
  <2>1. job[w] \in Jobs
    BY <1>9 DEF RunJob, JobPlaces
  <2> QED BY <1>9, <2>1 DEF RunJob
<1>10. ASSUME NEW w \in Workers, Idle(w) PROVE TypeOK'
  BY <1>10 DEF Idle
<1>11. ASSUME NEW w \in Workers, Exit(w) PROVE TypeOK'
  <2>1. ToSet(jobqueue) \subseteq Jobs
    BY ToSetType
  <2> QED BY <1>11, <2>1 DEF Exit
<1>12. ASSUME NEW w \in Workers, ThreadEnd(w) PROVE TypeOK'
  BY <1>12 DEF ThreadEnd
<1>13. ASSUME NEW j \in Jobs, Exec(j) PROVE TypeOK'
  BY <1>13 DEF Exec
<1>14. ASSUME NEW b \in BOOLEAN, StartCall(b) PROVE TypeOK'
  <2>1. [w \in Workers |-> IF w = 1 THEN "tf" ELSE "empty"] \in Seq({"tf", "empty"})
    BY IsASeq
  <2>2. startqueue' \in Seq({"tf", "empty"})
    BY <1>14, <2>1, ConcatProperties DEF StartCall
  <2> QED BY <1>14, <2>2 DEF StartCall
<1>15. ASSUME NEW b \in BOOLEAN, WaitForAllDone(b) PROVE TypeOK'
  BY <1>15 DEF WaitForAllDone
<1>16. CASE CreateThread
  BY <1>16 DEF CreateThread
<1>17. CASE WaitEntered
  BY <1>17 DEF WaitEntered
<1>18. CASE StartReturn
  BY <1>18 DEF StartReturn
<1>19. CASE WaitTest
  BY <1>19 DEF WaitTest
<1>20. CASE WaitTimeout
  BY <1>20 DEF WaitTimeout
<1>21. CASE StopCall
  BY <1>21 DEF StopCall
<1>22. CASE StopWorker
  <2>1. terminate \in [Workers -> BOOLEAN] /\ running \in [Workers -> BOOLEAN]
    BY Zenon
  <2>2. wpc' \in [Workers -> {"none", "entry", "notify", "initialize", "loop", "pop",
                             "waiting", "retest", "popped", "run", "idle", "exit",
                             "exited"}]
    BY <1>22 DEF StopWorker
  <2>3. {terminate', running'} \subseteq [Workers -> BOOLEAN]
    <3>1. terminate' = terminate \/ terminate' = [terminate EXCEPT ![next] = TRUE]
      BY <1>22 DEF StopWorker
    <3>2. [terminate EXCEPT ![next] = TRUE] \in [Workers -> BOOLEAN]
      BY <2>1
    <3>3. running' = running
      BY <1>22 DEF StopWorker
    <3> QED BY <2>1, <3>1, <3>2, <3>3, Zenon
  <2>4. next' \in 0 .. NumWorkers + 1
    BY <1>22 DEF StopWorker
  <2> QED BY <1>22, <2>2, <2>3, <2>4 DEF StopWorker
<1>23. CASE Join
  BY <1>23 DEF Join, Handshake
<1>24. CASE StopReturn
  BY <1>24 DEF StopReturn
<1>25. CASE InitPool
  BY <1>25 DEF InitPool
<1>26. CASE UNCHANGED vars
  BY <1>26 DEF vars
<1> QED
  BY <1>1, <1>2, <1>3, <1>4, <1>5, <1>6, <1>7, <1>8, <1>9, <1>10, <1>11,
     <1>12, <1>13, <1>14, <1>15, <1>16, <1>17, <1>18, <1>19, <1>20, <1>21,
     <1>22, <1>23, <1>24, <1>25, <1>26
     DEF Next, WorkerStep, OwnerStep, Ended

(* Every step keeps the handshake.                                         *)
LEMMA HandshakeStep ==
  TypeOK /\ Handshake /\ [Next]_vars => Handshake'
<1> SUFFICES ASSUME TypeOK, Handshake, [Next]_vars PROVE Handshake'
  OBVIOUS
<1> USE DEF At, Go, OwnerGo, queues, flags, workers, owner, ghosts, Workers,
            TypeOK, Handshake
<1>1. ASSUME NEW w \in Workers, ThreadEntry(w) PROVE Handshake'
  BY <1>1 DEF ThreadEntry
<1>2. ASSUME NEW w \in Workers, NotifyStart(w) PROVE Handshake'
  BY <1>2 DEF NotifyStart
<1>3. ASSUME NEW w \in Workers, Initialize(w) PROVE Handshake'
  BY <1>3 DEF Initialize
<1>4. ASSUME NEW w \in Workers, LoopTest(w) PROVE Handshake'
  BY <1>4 DEF LoopTest
<1>5. ASSUME NEW w \in Workers, Take(w) PROVE Handshake'
  BY <1>5 DEF Take
<1>6. ASSUME NEW w \in Workers, TakeNothing(w) PROVE Handshake'
  BY <1>6 DEF TakeNothing
<1>7. ASSUME NEW w \in Workers, PopTimeout(w) PROVE Handshake'
  BY <1>7 DEF PopTimeout
<1>8. ASSUME NEW w \in Workers, Busy(w) PROVE Handshake'
  BY <1>8 DEF Busy
<1>9. ASSUME NEW w \in Workers, RunJob(w) PROVE Handshake'
  BY <1>9 DEF RunJob
<1>10. ASSUME NEW w \in Workers, Idle(w) PROVE Handshake'
  BY <1>10 DEF Idle
<1>11. ASSUME NEW w \in Workers, Exit(w) PROVE Handshake'
  BY <1>11 DEF Exit
<1>12. ASSUME NEW w \in Workers, ThreadEnd(w) PROVE Handshake'
  BY <1>12 DEF ThreadEnd
<1>13. ASSUME NEW j \in Jobs, Exec(j) PROVE Handshake'
  BY <1>13 DEF Exec
<1>14. ASSUME NEW b \in BOOLEAN, StartCall(b) PROVE Handshake'
  BY <1>14 DEF StartCall
<1>15. ASSUME NEW b \in BOOLEAN, WaitForAllDone(b) PROVE Handshake'
  BY <1>15 DEF WaitForAllDone
<1>16. CASE CreateThread
  BY <1>16 DEF CreateThread
<1>17. CASE WaitEntered
  BY <1>17 DEF WaitEntered
<1>18. CASE StartReturn
  BY <1>18 DEF StartReturn
<1>19. CASE WaitTest
  BY <1>19 DEF WaitTest
<1>20. CASE WaitTimeout
  BY <1>20 DEF WaitTimeout
<1>21. CASE StopCall
  BY <1>21 DEF StopCall
<1>22. CASE StopWorker
  BY <1>22 DEF StopWorker
<1>23. CASE Join
  BY <1>23 DEF Join
<1>24. CASE StopReturn
  BY <1>24 DEF StopReturn
<1>25. CASE InitPool
  BY <1>25 DEF InitPool
<1>26. CASE UNCHANGED vars
  BY <1>26 DEF vars
<1> QED
  BY <1>1, <1>2, <1>3, <1>4, <1>5, <1>6, <1>7, <1>8, <1>9, <1>10, <1>11,
     <1>12, <1>13, <1>14, <1>15, <1>16, <1>17, <1>18, <1>19, <1>20, <1>21,
     <1>22, <1>23, <1>24, <1>25, <1>26
     DEF Next, WorkerStep, OwnerStep, Ended

(* Every step keeps the busy set complete.                                 *)
LEMMA BusyStep ==
  TypeOK /\ BusyWhileRunning /\ [Next]_vars => BusyWhileRunning'
<1> SUFFICES ASSUME TypeOK, BusyWhileRunning, [Next]_vars PROVE BusyWhileRunning'
  OBVIOUS
<1> USE DEF At, Go, OwnerGo, queues, flags, workers, owner, ghosts, Workers,
            TypeOK, BusyWhileRunning
<1>1. ASSUME NEW w \in Workers, ThreadEntry(w) PROVE BusyWhileRunning'
  BY <1>1 DEF ThreadEntry
<1>2. ASSUME NEW w \in Workers, NotifyStart(w) PROVE BusyWhileRunning'
  BY <1>2 DEF NotifyStart
<1>3. ASSUME NEW w \in Workers, Initialize(w) PROVE BusyWhileRunning'
  BY <1>3 DEF Initialize
<1>4. ASSUME NEW w \in Workers, LoopTest(w) PROVE BusyWhileRunning'
  BY <1>4 DEF LoopTest
<1>5. ASSUME NEW w \in Workers, Take(w) PROVE BusyWhileRunning'
  BY <1>5 DEF Take
<1>6. ASSUME NEW w \in Workers, TakeNothing(w) PROVE BusyWhileRunning'
  BY <1>6 DEF TakeNothing
<1>7. ASSUME NEW w \in Workers, PopTimeout(w) PROVE BusyWhileRunning'
  BY <1>7 DEF PopTimeout
<1>8. ASSUME NEW w \in Workers, Busy(w) PROVE BusyWhileRunning'
  BY <1>8 DEF Busy
<1>9. ASSUME NEW w \in Workers, RunJob(w) PROVE BusyWhileRunning'
  BY <1>9 DEF RunJob
<1>10. ASSUME NEW w \in Workers, Idle(w) PROVE BusyWhileRunning'
  BY <1>10 DEF Idle
<1>11. ASSUME NEW w \in Workers, Exit(w) PROVE BusyWhileRunning'
  BY <1>11 DEF Exit
<1>12. ASSUME NEW w \in Workers, ThreadEnd(w) PROVE BusyWhileRunning'
  BY <1>12 DEF ThreadEnd
<1>13. ASSUME NEW j \in Jobs, Exec(j) PROVE BusyWhileRunning'
  BY <1>13 DEF Exec
<1>14. ASSUME NEW b \in BOOLEAN, StartCall(b) PROVE BusyWhileRunning'
  BY <1>14 DEF StartCall
<1>15. ASSUME NEW b \in BOOLEAN, WaitForAllDone(b) PROVE BusyWhileRunning'
  BY <1>15 DEF WaitForAllDone
<1>16. CASE CreateThread
  BY <1>16 DEF CreateThread
<1>17. CASE WaitEntered
  BY <1>17 DEF WaitEntered
<1>18. CASE StartReturn
  BY <1>18 DEF StartReturn
<1>19. CASE WaitTest
  BY <1>19 DEF WaitTest
<1>20. CASE WaitTimeout
  BY <1>20 DEF WaitTimeout
<1>21. CASE StopCall
  BY <1>21 DEF StopCall
<1>22. CASE StopWorker
  BY <1>22 DEF StopWorker
<1>23. CASE Join
  BY <1>23 DEF Join
<1>24. CASE StopReturn
  BY <1>24 DEF StopReturn
<1>25. CASE InitPool
  BY <1>25 DEF InitPool
<1>26. CASE UNCHANGED vars
  BY <1>26 DEF vars
<1> QED
  BY <1>1, <1>2, <1>3, <1>4, <1>5, <1>6, <1>7, <1>8, <1>9, <1>10, <1>11,
     <1>12, <1>13, <1>14, <1>15, <1>16, <1>17, <1>18, <1>19, <1>20, <1>21,
     <1>22, <1>23, <1>24, <1>25, <1>26
     DEF Next, WorkerStep, OwnerStep, Ended

(* Every step keeps each job in one place.                                 *)
LEMMA JobStep ==
  TypeOK /\ Handshake /\ JobPlaces /\ [Next]_vars => JobPlaces'
<1> SUFFICES ASSUME TypeOK, Handshake, JobPlaces, [Next]_vars PROVE JobPlaces'
  OBVIOUS
<1> USE DEF At, Go, OwnerGo, queues, flags, workers, owner, ghosts, Workers,
            TypeOK, JobPlaces
<1>1. ASSUME NEW w \in Workers, ThreadEntry(w) PROVE JobPlaces'
  BY <1>1 DEF ThreadEntry
<1>2. ASSUME NEW w \in Workers, NotifyStart(w) PROVE JobPlaces'
  BY <1>2 DEF NotifyStart
<1>3. ASSUME NEW w \in Workers, Initialize(w) PROVE JobPlaces'
  BY <1>3 DEF Initialize
<1>4. ASSUME NEW w \in Workers, LoopTest(w) PROVE JobPlaces'
  BY <1>4 DEF LoopTest
<1>5. ASSUME NEW w \in Workers, Take(w) PROVE JobPlaces'
  <2> DEFINE h == Head(jobqueue)
  <2>1. /\ h \in ToSet(jobqueue) /\ h \in Jobs /\ IsInjective(Tail(jobqueue))
        /\ h \notin ToSet(Tail(jobqueue))
        /\ ToSet(jobqueue) = ToSet(Tail(jobqueue)) \cup {h}
    BY <1>5, TailFacts DEF Take
  <2>2. job' = [job EXCEPT ![w] = h] /\ jobqueue' = Tail(jobqueue)
    BY <1>5 DEF Take
  <2>3. job[w] = NoJob
    BY <1>5 DEF Take
  <2> HIDE DEF h
  <2>4. \A v, u \in Workers : job'[v] = job'[u] /\ job'[v] # NoJob => v = u
    BY <2>1, <2>2, <2>3
  <2>5. \A v \in Workers : job'[v] # NoJob =>
          job'[v] \in added' \ (ToSet(jobqueue') \cup done' \cup dropped')
    BY <1>5, <2>1, <2>2, <2>3 DEF Take
  <2>6. \A v \in Workers : job'[v] # NoJob <=> wpc'[v] \in {"popped", "run"}
    BY <1>5, <2>1, <2>2 DEF Take
  <2>7. ASSUME NEW j \in added'
        PROVE  \/ j \in ToSet(jobqueue') \cup done' \cup dropped'
               \/ \E v \in Workers : job'[v] = j
    <3>1. CASE j = h
      BY <3>1, <2>2
    <3>2. CASE \E v \in Workers : job[v] = j
      BY <3>2, <2>2, <2>3, <2>7, <1>5 DEF Take
    <3>3. CASE j \in ToSet(Tail(jobqueue)) \cup done \cup dropped
      BY <3>3, <2>2, <1>5 DEF Take
    <3> QED BY <3>1, <3>2, <3>3, <2>1, <2>7, <1>5 DEF Take
  <2> QED BY <1>5, <2>1, <2>2, <2>4, <2>5, <2>6, <2>7 DEF Take
<1>6. ASSUME NEW w \in Workers, TakeNothing(w) PROVE JobPlaces'
  BY <1>6 DEF TakeNothing
<1>7. ASSUME NEW w \in Workers, PopTimeout(w) PROVE JobPlaces'
  BY <1>7 DEF PopTimeout
<1>8. ASSUME NEW w \in Workers, Busy(w) PROVE JobPlaces'
  BY <1>8 DEF Busy
<1>9. ASSUME NEW w \in Workers, RunJob(w) PROVE JobPlaces'
  BY <1>9 DEF RunJob
<1>10. ASSUME NEW w \in Workers, Idle(w) PROVE JobPlaces'
  BY <1>10 DEF Idle
<1>11. ASSUME NEW w \in Workers, Exit(w) PROVE JobPlaces'
  <2>1. ToSet(jobqueue') = {} /\ IsInjective(jobqueue')
    BY <1>11 DEF Exit, ToSet, IsInjective
  <2> QED BY <1>11, <2>1 DEF Exit
<1>12. ASSUME NEW w \in Workers, ThreadEnd(w) PROVE JobPlaces'
  BY <1>12 DEF ThreadEnd
<1>13. ASSUME NEW j \in Jobs, Exec(j) PROVE JobPlaces'
  <2>1. /\ j \notin ToSet(jobqueue) /\ IsInjective(jobqueue')
        /\ ToSet(jobqueue') = ToSet(jobqueue) \cup {j}
    BY <1>13, AppendFacts DEF Exec
  <2>2. \A w \in Workers : wpc'[w] \in {"popped", "run"} <=> wpc[w] \in {"popped", "run"}
    BY <1>13 DEF Exec
  <2> QED BY <1>13, <2>1, <2>2 DEF Exec
<1>14. ASSUME NEW b \in BOOLEAN, StartCall(b) PROVE JobPlaces'
  BY <1>14 DEF StartCall
<1>15. ASSUME NEW b \in BOOLEAN, WaitForAllDone(b) PROVE JobPlaces'
  BY <1>15 DEF WaitForAllDone
<1>16. CASE CreateThread
  BY <1>16 DEF CreateThread, Handshake
<1>17. CASE WaitEntered
  BY <1>17 DEF WaitEntered
<1>18. CASE StartReturn
  BY <1>18 DEF StartReturn
<1>19. CASE WaitTest
  BY <1>19 DEF WaitTest
<1>20. CASE WaitTimeout
  BY <1>20 DEF WaitTimeout
<1>21. CASE StopCall
  BY <1>21 DEF StopCall
<1>22. CASE StopWorker
  <2>1. \A w \in Workers : wpc'[w] \in {"popped", "run"} <=> wpc[w] \in {"popped", "run"}
    BY <1>22 DEF StopWorker
  <2> QED BY <1>22, <2>1 DEF StopWorker
<1>23. CASE Join
  BY <1>23 DEF Join
<1>24. CASE StopReturn
  BY <1>24 DEF StopReturn
<1>25. CASE InitPool
  BY <1>25 DEF InitPool
<1>26. CASE UNCHANGED vars
  BY <1>26 DEF vars
<1> QED
  BY <1>1, <1>2, <1>3, <1>4, <1>5, <1>6, <1>7, <1>8, <1>9, <1>10, <1>11,
     <1>12, <1>13, <1>14, <1>15, <1>16, <1>17, <1>18, <1>19, <1>20, <1>21,
     <1>22, <1>23, <1>24, <1>25, <1>26
     DEF Next, WorkerStep, OwnerStep, Ended

(* The invariant holds in every reachable state.                           *)
LEMMA PoolInvariant == Spec => []PoolInv
<1>1. PoolInv /\ [Next]_vars => PoolInv'
  BY TypeStep, HandshakeStep, BusyStep, JobStep DEF PoolInv
<1> QED BY PoolInvInit, <1>1, PTL DEF Spec

-----------------------------------------------------------------------------
(* stop() returns when no thread of the pool is left, for every number of  *)
(* workers, although it joins only those whose _running it finds set.      *)
THEOREM StopLeavesNoThread == Spec => []StoppedMeansGone
<1>1. PoolInv => StoppedMeansGone
  BY DEF PoolInv, Handshake, StoppedMeansGone
<1> QED BY PoolInvariant, <1>1, PTL

(* The count of JobInOnePlace for one job.                                 *)
LEMMA PlacesCount ==
  ASSUME TypeOK, JobPlaces, NEW j \in added
  PROVE  LET places == {p \in {"queue", "done", "dropped"} :
                          \/ p = "queue" /\ j \in ToSet(jobqueue)
                          \/ p = "done" /\ j \in done
                          \/ p = "dropped" /\ j \in dropped}
         IN  Cardinality(places) + Cardinality({w \in Workers : job[w] = j}) = 1
<1> DEFINE places == {p \in {"queue", "done", "dropped"} :
                        \/ p = "queue" /\ j \in ToSet(jobqueue)
                        \/ p = "done" /\ j \in done
                        \/ p = "dropped" /\ j \in dropped}
           holders == {w \in Workers : job[w] = j}
<1>0. j # NoJob
  BY DEF TypeOK
<1>1. CASE \E w \in Workers : job[w] = j
  <2>1. PICK w \in Workers : job[w] = j
    BY <1>1
  <2>2. holders = {w} /\ places = {}
    BY <2>1, <1>0 DEF JobPlaces
  <2>3. Cardinality(holders) = 1 /\ Cardinality(places) = 0
    BY <2>2, FS_Singleton, FS_EmptySet
  <2> QED BY <2>3
<1>2. CASE ~\E w \in Workers : job[w] = j
  <2>1. holders = {}
    BY <1>2
  <2>2. \E p : places = {p}
    <3>1. CASE j \in ToSet(jobqueue)
      <4>1. places = {"queue"}
        BY <3>1 DEF JobPlaces
      <4> QED BY <4>1
    <3>2. CASE j \in done
      <4>1. places = {"done"}
        BY <3>2 DEF JobPlaces
      <4> QED BY <4>1
    <3>3. CASE j \in dropped
      <4>1. places = {"dropped"}
        BY <3>3 DEF JobPlaces
      <4> QED BY <4>1
    <3> QED BY <3>1, <3>2, <3>3, <1>2 DEF JobPlaces
  <2>3. Cardinality(holders) = 0 /\ Cardinality(places) = 1
    BY <2>1, <2>2, FS_Singleton, FS_EmptySet
  <2> QED BY <2>3
<1> QED BY <1>1, <1>2

(* However many workers take jobs while others are added and the pool is   *)
(* stopped and started, a job is in one place and is run at most once, and *)
(* waitForAllDone() cannot return true while a job is being run.           *)
THEOREM EveryJobInOnePlace == Spec => []JobInOnePlace
<1>1. ASSUME PoolInv PROVE JobInOnePlace
  <2>1. NotDoneWhileRunning
    BY <1>1 DEF PoolInv, BusyWhileRunning, NotDoneWhileRunning, finish
  <2>2. Len(jobqueue) = Cardinality(ToSet(jobqueue))
    BY <1>1, InjectiveCardinality DEF PoolInv, TypeOK, JobPlaces
  <2> QED BY <1>1, <2>1, <2>2, PlacesCount DEF PoolInv, JobInOnePlace
<1> QED BY PoolInvariant, <1>1, PTL
=============================================================================
