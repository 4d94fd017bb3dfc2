------------------------ MODULE CoroutineScheduler ------------------------
(***************************************************************************)
(* The coroutine scheduler of libservant: one thread runs coroutines of a  *)
(* pool that grows on demand, from five intrusive lists.  Other threads    *)
(* put() the ids of coroutines whose result has arrived.                   *)
(*                                                                         *)
(* The scheduler's own thread is both the main coroutine (current = 0) and *)
(* the coroutine it has switched to; only put() and terminate() come from  *)
(* other threads.  A ServantHandle runs the loop tars_run, a Coroutine     *)
(* thread the loop run.                                                    *)
(***************************************************************************)
EXTENDS Naturals, Sequences, FiniteSets, SequencesExt

CONSTANTS
    PoolSize,     \* _poolSize, the largest number of coroutines
    Batch,        \* coroutines allocated at a time (100 in the code)
    Quantum,      \* coroutines resumed per list and round (100 in the code)
    AllocFails,   \* mmap may refuse a stack
    Settings,     \* the pairs of loop and disciplined considered
    MaxCreate,    \* bound: calls of createCoroutine
    MaxTime,      \* bound: the clock
    MaxTimeouts,  \* bound: entries of _timeoutCoroId
    MaxQueued     \* bound: entries of _activeCoroQueue

ASSUME CoroutineAssumption ==
    /\ {PoolSize, Batch, Quantum} \subseteq Nat \ {0}
    /\ {MaxCreate, MaxTime, MaxTimeouts, MaxQueued} \subseteq Nat
    /\ AllocFails \in BOOLEAN
    /\ Settings \subseteq {"run", "tars_run"} \X BOOLEAN

Ids == 1 .. PoolSize
Status == {"FREE", "ACTIVE", "AVAIL", "INACTIVE", "TIMEOUT"}

VARIABLES
    all,          \* the ids whose _all_coro entry is not NULL
    lists,        \* _free, _active, _avail, _inactive and _timeout
    status,       \* _eStatus of each coroutine
    uniqId,       \* _uniqId
    currentSize,  \* _currentSize
    usedSize,     \* _usedSize
    current,      \* uid of _currentCoro, 0 for the main coroutine
    terminal,     \* _terminal
    timeouts,     \* _timeoutCoroId, in the order of the multimap
    needActive,   \* _needActiveCoroId
    activeQueue,  \* _activeCoroQueue
    coroIds,      \* the ids wakeup() has swapped out and not yet moved
    pc,           \* where the main coroutine is
    left,         \* iLoop
    down,         \* the server of a ServantHandle has terminated
    notifying,    \* put() and terminate() (0) calls before their notifyAll
    context,      \* the call a suspended coroutine will return from
    due,          \* the end of its sleep
    asked,        \* a result is on its way to the coroutine
    answered,     \* ... and has been put()
    now,          \* gettimeofday
    calls,        \* calls of createCoroutine so far
    loop,         \* the loop the scheduler's thread runs
    disciplined   \* a callback that has asked for a result only waits for it

choice == <<loop, disciplined>>
pool  == <<all, uniqId, currentSize, choice>>
queues == <<timeouts, needActive, activeQueue, coroIds>>
coros == <<context, due, asked, answered>>
env   == <<terminal, down, notifying, now>>
vars == <<all, lists, status, uniqId, currentSize, usedSize, current, terminal,
          timeouts, needActive, activeQueue, coroIds, pc, left, down,
          notifying, context, due, asked, answered, now, calls, choice>>

Smaller(a, b) == IF a < b THEN a ELSE b

-----------------------------------------------------------------------------
(* CoroutineDel and CoroutineAddTail. *)
Without(s, c) == RemoveFirst(s, c)

(* moveToActive, moveToAvail, moveToInactive, moveToTimeout and            *)
(* moveToFreeList: c goes to the end of the list to if its status is one   *)
(* of from; otherwise nothing happens.                                     *)
Move(c, from, to) ==
    IF status[c] \in from
      THEN /\ lists' = [lists EXCEPT ![status[c]] = Without(@, c),
                                     ![to] = Append(@, c)]
           /\ status' = [status EXCEPT ![c] = to]
      ELSE UNCHANGED <<lists, status>>

MoveToActive(c)   == Move(c, {"INACTIVE", "TIMEOUT"}, "ACTIVE")
MoveToAvail(c)    == Move(c, {"INACTIVE"}, "AVAIL")
MoveToInactive(c) == Move(c, {"ACTIVE", "AVAIL"}, "INACTIVE")
MoveToTimeout(c)  == Move(c, {"ACTIVE", "AVAIL"}, "TIMEOUT")
MoveToFreeList(c) == Move(c, Status \ {"FREE"}, "FREE")

-----------------------------------------------------------------------------
(* The constructor and init(): a stack is allocated before its id is       *)
(* taken, and the first failure ends the loop.                             *)
Init ==
    \E n \in 0 .. Smaller(PoolSize, Batch) :
        /\ n < Smaller(PoolSize, Batch) => AllocFails
        /\ all = 1 .. n
        /\ lists = [s \in Status |-> IF s = "FREE" THEN [i \in 1 .. n |-> i]
                                                   ELSE << >>]
        /\ status = [c \in Ids |-> "FREE"]
        /\ uniqId = n
        /\ currentSize = n
        /\ usedSize = 0
        /\ current = 0
        /\ terminal = FALSE
        /\ timeouts = << >> /\ needActive = << >>
        /\ activeQueue = << >> /\ coroIds = << >>
        /\ pc = "start"
        /\ left = 0
        /\ down = FALSE
        /\ notifying = {}
        /\ context = [c \in Ids |-> "none"]
        /\ due = [c \in Ids |-> 0]
        /\ asked = [c \in Ids |-> FALSE]
        /\ answered = [c \in Ids |-> FALSE]
        /\ now = 0
        /\ calls = 0
        /\ \E p \in Settings : loop = p[1] /\ disciplined = p[2]

(* increaseCoroPoolSize() gets n stacks: here the id is taken first, so a  *)
(* refused stack costs its id.                                             *)
Wanted == Smaller(PoolSize - currentSize, Batch)
Taken(n) == uniqId + (IF n < Wanted THEN n + 1 ELSE n)

MutantOccupyFirst(free) ==
    /\ usedSize' = usedSize + 1
    /\ status' = [status EXCEPT ![Head(free)] = "AVAIL"]
    /\ lists' = [lists EXCEPT !["FREE"] = Tail(free),
                              !["AVAIL"] = <<Head(free)>> \o @]
    /\ context' = [context EXCEPT ![Head(free)] = "none"]

(* The rest of createCoroutine(): the first free coroutine becomes         *)
(* available and runs the new callback from its start.                     *)
Occupy(free) ==
    /\ usedSize' = usedSize + 1
    /\ status' = [status EXCEPT ![Head(free)] = "AVAIL"]
    /\ lists' = [lists EXCEPT !["FREE"] = Tail(free),
                              !["AVAIL"] = Append(@, Head(free))]
    /\ context' = [context EXCEPT ![Head(free)] = "none"]

(* createCoroutine(), by the thread before it enters its loop or by a      *)
(* coroutine that runs; "aborted" is the failed assert of generateId().    *)
CreateCoroutine ==
    /\ calls < MaxCreate
    /\ pc = "start" \/ current # 0
    /\ calls' = calls + 1
    /\ IF usedSize >= currentSize \/ lists["FREE"] = << >>
         THEN \E n \in 0 .. Wanted :
                /\ n < Wanted => AllocFails
                /\ IF Taken(n) > PoolSize
                     THEN /\ pc' = "aborted"
                          /\ UNCHANGED <<pool, lists, status, usedSize, context>>
                     ELSE LET new == (uniqId + 1) .. (uniqId + n)
                              free == lists["FREE"] \o [i \in 1 .. n |-> uniqId + i]
                          IN  /\ all' = all \cup new
                              /\ uniqId' = Taken(n)
                              /\ currentSize' = currentSize + n
                              /\ UNCHANGED choice
                              /\ pc' = pc
                              /\ IF n = 0
                                   THEN UNCHANGED <<lists, status, usedSize, context>>
                                   ELSE Occupy(free)
         ELSE /\ Occupy(lists["FREE"])
              /\ UNCHANGED <<pool, pc>>
    /\ UNCHANGED <<current, queues, left, due, asked, answered, env>>

-----------------------------------------------------------------------------
(* The main coroutine. *)
Main(here) == pc = here /\ current = 0

(* One step of the main coroutine that touches neither pool nor lists. *)
Goto(next) == pc' = next

(* Coroutine::handleCoro and ServantHandle::handleCoroutine have created   *)
(* the first coroutines and enter the loop.                                *)
Start ==
    /\ Main("start")
    /\ Goto("loop")
    /\ UNCHANGED <<pool, lists, status, usedSize, current, queues, left, coros,
                   env, calls>>

MutantLoopForever ==
    /\ Main("loop")
    /\ Goto(IF lists["AVAIL"] = << >> /\ lists["ACTIVE"] = << >>
              THEN "lock" ELSE "timeouts")
    /\ UNCHANGED <<pool, lists, status, usedSize, current, queues, left, coros,
                   env, calls>>

(* The head of the loop.  A Coroutine thread leaves it when it is          *)
(* terminal, and locks _monitor when nothing is runnable; a ServantHandle  *)
(* looks at its server and then terminates the scheduler itself.           *)
Loop ==
    /\ Main("loop")
    /\ IF loop = "tars_run"
         THEN /\ Goto(IF down THEN "destroyed" ELSE "timeouts")
              /\ terminal' = (terminal \/ down)
         ELSE /\ Goto(IF terminal THEN "destroyed"
                      ELSE IF lists["AVAIL"] = << >> /\ lists["ACTIVE"] = << >>
                             THEN "lock" ELSE "timeouts")
              /\ UNCHANGED terminal
    /\ UNCHANGED <<pool, lists, status, usedSize, current, queues, left, coros,
                   down, notifying, now, calls>>

(* With _monitor locked (pc "locked") the queue is tested; the lock is     *)
(* kept until timedWait() gives it up.                                     *)
LockAndTest ==
    /\ Main("lock")
    /\ Goto(IF activeQueue = << >> THEN "locked" ELSE "timeouts")
    /\ UNCHANGED <<pool, lists, status, usedSize, current, queues, left, coros,
                   env, calls>>

TimedWait ==
    /\ Main("locked")
    /\ Goto("waiting")
    /\ UNCHANGED <<pool, lists, status, usedSize, current, queues, left, coros,
                   env, calls>>

WaitTimeout ==
    /\ Main("waiting")
    /\ Goto("timeouts")
    /\ UNCHANGED <<pool, lists, status, usedSize, current, queues, left, coros,
                   env, calls>>

(* wakeupbytimeout(), one entry of the multimap at a time; the time is     *)
(* read once, so the clock stands still meanwhile (see Tick).              *)
WakeupByTimeout ==
    /\ Main("timeouts")
    /\ IF ~terminal /\ timeouts # << >> /\ Head(timeouts)[1] <= now
         THEN /\ MoveToActive(Head(timeouts)[2])
              /\ timeouts' = Tail(timeouts)
              /\ pc' = pc
         ELSE /\ Goto("self")
              /\ UNCHANGED <<lists, status, timeouts>>
    /\ UNCHANGED <<pool, usedSize, current, needActive, activeQueue, coroIds,
                   left, coros, env, calls>>

(* wakeupbyself(), one entry of the list at a time. *)
WakeupBySelf ==
    /\ Main("self")
    /\ IF ~terminal /\ needActive # << >>
         THEN /\ MoveToAvail(Head(needActive))
              /\ needActive' = Tail(needActive)
              /\ pc' = pc
         ELSE /\ Goto("swap")
              /\ UNCHANGED <<lists, status, needActive>>
    /\ UNCHANGED <<pool, usedSize, current, timeouts, activeQueue, coroIds,
                   left, coros, env, calls>>

(* wakeup(): the queue is swapped out in one piece ... *)
WakeupSwap ==
    /\ Main("swap")
    /\ Goto("wakeup")
    /\ IF terminal
         THEN UNCHANGED <<activeQueue, coroIds>>
         ELSE coroIds' = activeQueue /\ activeQueue' = << >>
    /\ UNCHANGED <<pool, lists, status, usedSize, current, timeouts, needActive,
                   left, coros, env, calls>>

(* ... and its ids are moved one at a time. *)
Wakeup ==
    /\ Main("wakeup")
    /\ IF coroIds # << >>
         THEN /\ MoveToActive(Head(coroIds))
              /\ coroIds' = Tail(coroIds)
              /\ UNCHANGED <<pc, left>>
         ELSE /\ Goto("active")
              /\ left' = Quantum
              /\ UNCHANGED <<lists, status, coroIds>>
    /\ UNCHANGED <<pool, usedSize, current, timeouts, needActive, activeQueue,
                   coros, env, calls>>

(* switchCoro(&_mainCoro, coro) to the first of a list, from the loops     *)
(* over _active and _avail.  A callback that waited now has its result.    *)
Resume ==
    /\ \/ Main("active") /\ lists["ACTIVE"] # << >>
          /\ current' = Head(lists["ACTIVE"])
       \/ Main("avail") /\ lists["AVAIL"] # << >>
          /\ current' = Head(lists["AVAIL"])
    /\ left > 0
    /\ left' = left - 1
    /\ context' = [context EXCEPT ![current'] = "none"]
    /\ answered' = [answered EXCEPT ![current'] = @ /\ context[current'] # "await"]
    /\ UNCHANGED <<pool, lists, status, usedSize, queues, pc, due, asked, env,
                   calls>>

(* The ends of the two loops.  run() resumes one available coroutine per   *)
(* round, and ends when no coroutine is in use.                            *)
ActiveDone ==
    /\ Main("active")
    /\ left = 0 \/ lists["ACTIVE"] = << >>
    /\ Goto("avail")
    /\ left' = IF loop = "tars_run" THEN Quantum ELSE 1
    /\ UNCHANGED <<pool, lists, status, usedSize, current, queues, coros, env,
                   calls>>

AvailDone ==
    /\ Main("avail")
    /\ left = 0 \/ lists["AVAIL"] = << >>
    /\ Goto(IF loop = "run" /\ usedSize = 0 THEN "destroyed" ELSE "loop")
    /\ left' = 0
    /\ UNCHANGED <<pool, lists, status, usedSize, current, queues, coros, env,
                   calls>>

-----------------------------------------------------------------------------
(* The running coroutine.  Its callback may do anything; disciplined       *)
(* restricts it, from the moment it has asked another thread for a result, *)
(* to waiting for that result.                                             *)
MayDo == current # 0 /\ (disciplined => ~asked[current] /\ ~answered[current])

Ask ==
    /\ MayDo /\ ~asked[current]
    /\ asked' = [asked EXCEPT ![current] = TRUE]
    /\ answered' = [answered EXCEPT ![current] = FALSE]
    /\ UNCHANGED <<pool, lists, status, usedSize, current, queues, pc, left,
                   context, due, env, calls>>

(* switchCoro(_currentCoro, &_mainCoro) inside a call of the scheduler. *)
Suspend(call) ==
    /\ context' = [context EXCEPT ![current] = call]
    /\ current' = 0

MutantYieldForgotten ==
    /\ MayDo
    /\ MoveToInactive(current)
    /\ Suspend("yield")
    /\ UNCHANGED <<pool, usedSize, queues, pc, left, due, asked, answered, env,
                   calls>>

(* yield(true), with putbyself(). *)
YieldSelf ==
    /\ MayDo
    /\ needActive' = IF terminal THEN needActive ELSE Append(needActive, current)
    /\ MoveToInactive(current)
    /\ Suspend("yield")
    /\ UNCHANGED <<pool, usedSize, timeouts, activeQueue, coroIds, pc, left,
                   due, asked, answered, env, calls>>

MutantAwaitPuts ==
    /\ current # 0 /\ (asked[current] \/ answered[current])
    /\ needActive' = Append(needActive, current)
    /\ MoveToInactive(current)
    /\ Suspend("await")
    /\ UNCHANGED <<pool, usedSize, timeouts, activeQueue, coroIds, pc, left,
                   due, asked, answered, env, calls>>

(* yield(false): the coroutine waits for the put() of its result. *)
Await ==
    /\ current # 0 /\ (asked[current] \/ answered[current])
    /\ MoveToInactive(current)
    /\ Suspend("await")
    /\ UNCHANGED <<pool, usedSize, queues, pc, left, due, asked, answered, env,
                   calls>>

(* multimap::insert puts an entry behind those with the same key. *)
InsertTimeout(t, c) ==
    LET k == Cardinality({i \in DOMAIN timeouts : timeouts[i][1] <= t})
    IN  SubSeq(timeouts, 1, k) \o <<<<t, c>>>>
          \o SubSeq(timeouts, k + 1, Len(timeouts))

Sleep(ms) ==
    /\ MayDo
    /\ now + ms <= MaxTime /\ Len(timeouts) < MaxTimeouts
    /\ due' = [due EXCEPT ![current] = now + ms]
    /\ timeouts' = InsertTimeout(now + ms, current)
    /\ MoveToTimeout(current)
    /\ Suspend("sleep")
    /\ UNCHANGED <<pool, usedSize, needActive, activeQueue, coroIds, pc, left,
                   asked, answered, env, calls>>

(* The callback returns or throws; corotineProc() frees the coroutine. *)
Finish ==
    /\ MayDo
    /\ usedSize' = usedSize - 1
    /\ MoveToFreeList(current)
    /\ Suspend("none")
    /\ UNCHANGED <<pool, queues, pc, left, due, asked, answered, env, calls>>

-----------------------------------------------------------------------------
(* Other threads.  put() pushes under the queue's own lock and then        *)
(* notifies under _monitor, which the scheduler may hold; a terminal       *)
(* scheduler takes nothing.  With a handle the notification goes to the    *)
(* handle's monitor instead.                                               *)
Put(c) ==
    /\ asked[c] /\ c \notin notifying
    /\ Len(activeQueue) < MaxQueued
    /\ asked' = [asked EXCEPT ![c] = FALSE]
    /\ answered' = [answered EXCEPT ![c] = TRUE]
    /\ IF terminal
         THEN UNCHANGED <<activeQueue, notifying>>
         ELSE /\ activeQueue' = Append(activeQueue, c)
              /\ notifying' = IF loop = "tars_run" THEN notifying ELSE notifying \cup {c}
    /\ UNCHANGED <<pool, lists, status, usedSize, current, timeouts, needActive,
                   coroIds, pc, left, context, due, terminal, down, now, calls>>

(* terminate() of a Coroutine thread, or the end of a handle's server. *)
Terminate ==
    /\ ~terminal /\ ~down
    /\ IF loop = "tars_run"
         THEN down' = TRUE /\ UNCHANGED <<terminal, notifying>>
         ELSE /\ terminal' = TRUE
              /\ notifying' = notifying \cup {0}
              /\ UNCHANGED down
    /\ UNCHANGED <<pool, lists, status, usedSize, current, queues, pc, left,
                   coros, now, calls>>

MutantNotifyUnlocked(c) ==
    /\ c \in notifying
    /\ notifying' = notifying \ {c}
    /\ pc' = IF pc = "waiting" THEN "timeouts" ELSE pc
    /\ UNCHANGED <<pool, lists, status, usedSize, current, queues, left, coros,
                   terminal, down, now, calls>>

(* notifyAll() under _monitor. *)
NotifyAll(c) ==
    /\ c \in notifying /\ pc # "locked"
    /\ notifying' = notifying \ {c}
    /\ pc' = IF pc = "waiting" THEN "timeouts" ELSE pc
    /\ UNCHANGED <<pool, lists, status, usedSize, current, queues, left, coros,
                   terminal, down, now, calls>>

Tick ==
    /\ now < MaxTime /\ pc # "timeouts"
    /\ now' = now + 1
    /\ UNCHANGED <<pool, lists, status, usedSize, current, queues, pc, left,
                   coros, terminal, down, notifying, calls>>

(* The thread has left its loop, or the process has aborted. *)
Ended ==
    /\ pc \in {"destroyed", "aborted"}
    /\ UNCHANGED vars

MainStep ==
    \/ Start \/ Loop \/ LockAndTest \/ TimedWait \/ WakeupByTimeout
    \/ WakeupBySelf \/ WakeupSwap \/ Wakeup \/ Resume \/ ActiveDone \/ AvailDone

GiveUp == YieldSelf \/ Await \/ (\E ms \in 0 .. 1 : Sleep(ms)) \/ Finish

Next ==
    \/ MainStep \/ WaitTimeout
    \/ CreateCoroutine \/ Ask \/ GiveUp
    \/ \E c \in Ids : Put(c)
    \/ \E c \in Ids \cup {0} : NotifyAll(c)
    \/ Terminate \/ Tick \/ Ended

Spec == Init /\ [][Next]_vars

(* The thread runs; callbacks give up the processor after finitely many    *)
(* calls; put() and terminate() return.                                    *)
FairSpec ==
    /\ Spec
    /\ WF_vars(MainStep) /\ WF_vars(GiveUp)
    /\ \A c \in Ids \cup {0} : WF_vars(NotifyAll(c))

(* timedWait times out and the clock runs; SF because Tick is only held    *)
(* back while the model's wakeupbytimeout works with the time it read.     *)
TimeRuns == SF_vars(Tick) /\ WF_vars(WaitTimeout)

-----------------------------------------------------------------------------
\* The variables have the types of the scheduler's members.
TypeOK ==
    /\ all \subseteq Ids
    /\ lists \in [Status -> Seq(Ids)]
    /\ status \in [Ids -> Status]
    /\ {uniqId, currentSize, usedSize} \subseteq 0 .. PoolSize
    /\ current \in Ids \cup {0}
    /\ {terminal, down} \subseteq BOOLEAN
    /\ timeouts \in Seq((0 .. MaxTime) \X Ids)
    /\ {needActive, activeQueue, coroIds} \subseteq Seq(Ids)
    /\ pc \in {"start", "loop", "lock", "locked", "waiting", "timeouts", "self",
               "swap", "wakeup", "active", "avail", "destroyed", "aborted"}
    /\ left \in 0 .. Quantum
    /\ notifying \subseteq Ids \cup {0}
    /\ context \in [Ids -> {"none", "yield", "await", "sleep"}]
    /\ due \in [Ids -> 0 .. MaxTime]
    /\ {asked, answered} \subseteq [Ids -> BOOLEAN]
    /\ now \in 0 .. MaxTime
    /\ calls \in 0 .. MaxCreate
    /\ choice \in Settings

(* The status of a coroutine names the one list it is on, whatever order   *)
(* timeouts, yields and put()s of it arrive in: no coroutine is resumed    *)
(* twice or lost from all lists.                                           *)
OnListOfStatus ==
    /\ \A s \in Status : \A i, j \in DOMAIN lists[s] :
         lists[s][i] = lists[s][j] => i = j
    /\ \A s \in Status : ToSet(lists[s]) = {c \in all : status[c] = s}

(* _usedSize, by which run() decides that all work is done and             *)
(* createCoroutine() that the pool must grow, counts the coroutines in     *)
(* use, also when coroutines create coroutines and allocation fails.       *)
SizesAgree ==
    /\ usedSize = Cardinality({c \in all : status[c] # "FREE"})
    /\ currentSize = Cardinality(all)

(* The running coroutine is still the first of the list it was taken from, *)
(* so that yield() and sleep() take the right one off it, and every id     *)
(* that will be looked up in _all_coro has an entry there (the asserts of  *)
(* wakeup, wakeupbyself and wakeupbytimeout).                              *)
SchedulerAsserts ==
    /\ current # 0 =>
         \/ pc = "active" /\ lists["ACTIVE"] # << >> /\ Head(lists["ACTIVE"]) = current
         \/ pc = "avail" /\ lists["AVAIL"] # << >> /\ Head(lists["AVAIL"]) = current
         \/ pc = "aborted"
    /\ ToSet(needActive) \cup ToSet(activeQueue) \cup ToSet(coroIds)
         \cup {e[2] : e \in ToSet(timeouts)} \subseteq all

(* No coroutine is lost, neither from the lists nor from the counts, and   *)
(* the scheduler finds the ones it looks for.                              *)
CoroutinesAccounted == TypeOK /\ OnListOfStatus /\ SizesAgree /\ SchedulerAsserts

(* As long as a coroutine that has asked for a result only waits for it, a *)
(* coroutine returns from sleep() when its time has come and from          *)
(* yield(false) when its result was put(): no entry left over in           *)
(* _timeoutCoroId, _needActiveCoroId or _activeCoroQueue wakes it early,   *)
(* although ids and entries carry no generation.                           *)
WakesWhenDue ==
    disciplined /\ current' # 0 /\ current = 0 =>
        /\ context[current'] = "sleep" => now >= due[current']
        /\ context[current'] = "await" => answered[current']

ResumedWhenDue == [][WakesWhenDue]_vars

(* A coroutine whose result was put() goes on, even if timedWait never     *)
(* timed out: neither the wait of run() nor the wakeup of a coroutine that *)
(* was put() before it suspended itself loses the notification.            *)
AnswerResumes ==
    \A c \in Ids :
        context[c] = "await" /\ answered[c] ~>
            context[c] # "await" \/ terminal \/ down

(* A coroutine that sleeps, or has yielded to the others, goes on, if      *)
(* timedWait times out and time passes.                                    *)
SleeperResumes ==
    TimeRuns =>
        \A c \in Ids :
            context[c] \in {"sleep", "yield"} ~>
                context[c] \notin {"sleep", "yield"} \/ terminal \/ down

(* The thread leaves its loop once it is told to.  terminate() may notify  *)
(* just before run() waits, so this too needs the timeout of timedWait.    *)
TerminateEnds ==
    TimeRuns => (terminal \/ down ~> pc \in {"destroyed", "aborted"})
=============================================================================
