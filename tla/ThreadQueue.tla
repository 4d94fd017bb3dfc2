---------------------------- MODULE ThreadQueue ----------------------------
(***************************************************************************)
(* TC_ThreadQueue: a deque behind a TC_Monitor.  It carries the jobs of a  *)
(* TC_ThreadPool, the requests and responses of the server and the         *)
(* coroutines to be made active.  Any thread may make any call; what a     *)
(* call does between lock and unlock is one action.  swap() is called with *)
(* an empty queue, as everywhere in the repository.                        *)
(***************************************************************************)
EXTENDS Monitor, Sequences, SequencesExt

CONSTANTS
    Value,        \* the elements, each pushed once
    Takers        \* threads that only pop and swap

ASSUME TakersAssumption == Takers \subseteq Thread

VARIABLES
    queue,        \* _queue
    size,         \* _size
    call,         \* the call each thread is in
    taken,        \* history: elements handed out, in this order
    cleared       \* history: elements thrown away by clear()

threadQueueVars == <<monitor, queue, size, call, taken, cleared>>

Pushes == {"push_back", "push_front"}
Pops == {"pop_front", "swap"}

(* A batch is any sequence of elements, millsecond 0, -1 or a number.      *)
Batch == {s \in UNION {[1 .. n -> Value] : n \in 1 .. 2} : IsInjective(s)}
Calls ==
    [op : Pushes, batch : Batch] \cup
    [op : Pops, millsecond : {"zero", "ever", "some"}] \cup
    [op : {"notifyT", "clear", "size"}]
NoCall == [op |-> "none"]

Pushed == ToSet(queue) \cup ToSet(taken) \cup cleared
InHand == UNION {ToSet(call[t].batch) :
                   t \in {u \in Thread : at[u] \in {"lock", "in"} /\ call[u].op \in Pushes}}

ThreadQueueInit ==
    /\ MonitorInit
    /\ queue = << >> /\ size = 0
    /\ call = [t \in Thread |-> NoCall]
    /\ taken = << >> /\ cleared = {}

(* A thread calls a method, whose Lock begins to wait for the mutex.       *)
Call(t, c) ==
    /\ at[t] = "out"
    /\ t \in Takers => c.op \in Pops
    /\ c.op \in Pushes => ToSet(c.batch) \cap (Pushed \cup InHand) = {}
    /\ call' = [call EXCEPT ![t] = c]
    /\ at' = [at EXCEPT ![t] = "lock"]
    /\ UNCHANGED <<mutex, nnotify, queue, size, taken, cleared>>

Lock(t) == MonitorLock(t) /\ UNCHANGED <<queue, size, call, taken, cleared>>

(* The destructor of Lock                                                  *)
Unlock(t) ==
    /\ MonitorUnlock(t)
    /\ call' = [call EXCEPT ![t] = NoCall]
    /\ UNCHANGED <<queue, size, taken, cleared>>

(* notify(), n times                                                       *)
Notify(n) == nnotify' = IF nnotify = -1 THEN -1 ELSE nnotify + n

Return(t) == at' = [at EXCEPT ![t] = "held"] /\ UNCHANGED mutex

-----------------------------------------------------------------------------
(* push_back of one element or a queue of them, each with its notify().    *)
PushBack(t) ==
    /\ at[t] = "in" /\ call[t].op = "push_back"
    /\ queue' = queue \o call[t].batch
    /\ size' = size + Len(call[t].batch)
    /\ Notify(Len(call[t].batch)) /\ Return(t)
    /\ UNCHANGED <<call, taken, cleared>>

(* push_front; a queue of elements ends up in reverse order.               *)
PushFront(t) ==
    /\ at[t] = "in" /\ call[t].op = "push_front"
    /\ queue' = Reverse(call[t].batch) \o queue
    /\ size' = size + Len(call[t].batch)
    /\ Notify(Len(call[t].batch)) /\ Return(t)
    /\ UNCHANGED <<call, taken, cleared>>

(* pop_front and swap wait, once, when they find the queue empty.          *)
WaitForElement(t) ==
    /\ at[t] = "in" /\ call[t].op \in Pops /\ queue = << >>
    /\ CASE call[t].millsecond = "zero" -> Return(t) /\ UNCHANGED nnotify
         [] call[t].millsecond = "ever" -> MonitorWait(t)
         [] call[t].millsecond = "some" -> MonitorTimedWait(t)
    /\ UNCHANGED <<queue, size, call, taken, cleared>>

(* They return false after a timeout, whatever has come meanwhile, and     *)
(* when another thread has been faster.                                    *)
NothingFound(t) ==
    /\ \/ at[t] = "late"
       \/ at[t] = "awake" /\ queue = << >>
    /\ Return(t)
    /\ UNCHANGED <<nnotify, queue, size, call, taken, cleared>>

Found(t, op) == at[t] \in {"in", "awake"} /\ call[t].op = op /\ queue # << >>

PopFront(t) ==
    /\ Found(t, "pop_front")
    /\ taken' = Append(taken, Head(queue))
    /\ queue' = Tail(queue)
    /\ size' = size - 1
    /\ Return(t)
    /\ UNCHANGED <<nnotify, call, cleared>>

MutantSwapOtherSize(t) ==
    /\ Found(t, "swap")
    /\ taken' = taken \o queue
    /\ queue' = << >>
    /\ size' = Len(queue)
    /\ Return(t)
    /\ UNCHANGED <<nnotify, call, cleared>>

(* The caller's queue, which is empty, becomes _queue.                     *)
Swap(t) ==
    /\ Found(t, "swap")
    /\ taken' = taken \o queue
    /\ queue' = << >>
    /\ size' = Len(queue')
    /\ Return(t)
    /\ UNCHANGED <<nnotify, call, cleared>>

(* notifyT()                                                               *)
NotifyT(t) ==
    /\ at[t] = "in" /\ call[t].op = "notifyT"
    /\ nnotify' = -1
    /\ Return(t)
    /\ UNCHANGED <<queue, size, call, taken, cleared>>

ClearQueue(t) ==
    /\ at[t] = "in" /\ call[t].op = "clear"
    /\ cleared' = cleared \cup ToSet(queue)
    /\ queue' = << >> /\ size' = 0
    /\ Return(t)
    /\ UNCHANGED <<nnotify, call, taken>>

(* size() and empty() only read.                                           *)
SizeOrEmpty(t) ==
    /\ at[t] = "in" /\ call[t].op = "size"
    /\ Return(t)
    /\ UNCHANGED <<nnotify, queue, size, call, taken, cleared>>

Wakes(t) ==
    /\ SpuriousWakeup(t) \/ WaitExpires(t)
    /\ UNCHANGED <<queue, size, call, taken, cleared>>

Relock(t) == WaitReturns(t) /\ UNCHANGED <<queue, size, call, taken, cleared>>

Body(t) ==
    \/ PushBack(t) \/ PushFront(t) \/ WaitForElement(t) \/ NothingFound(t)
    \/ PopFront(t) \/ Swap(t) \/ NotifyT(t) \/ ClearQueue(t) \/ SizeOrEmpty(t)

ThreadQueueNext ==
    \E t \in Thread :
        \/ \E c \in Calls : Call(t, c)
        \/ Lock(t) \/ Relock(t) \/ Body(t) \/ Unlock(t) \/ Wakes(t)

ThreadQueueSpec == ThreadQueueInit /\ [][ThreadQueueNext]_threadQueueVars

-----------------------------------------------------------------------------
(* The variables have the types of the queue's members, and only the       *)
(* holder of the mutex is inside.                                          *)
ThreadQueueTypeOK ==
    /\ MonitorTypeOK /\ MutualExclusion
    /\ queue \in Seq(Value) /\ size \in Nat
    /\ taken \in Seq(Value) /\ cleared \subseteq Value

(* No element is handed out twice or in two places, to whichever callers   *)
(* pop_front and swap hand it, and _size, which size() reports and         *)
(* pop_front() asserts positive, is the number of elements, although       *)
(* swap() has put another deque in place.                                  *)
ElementOnce ==
    /\ ThreadQueueTypeOK
    /\ IsInjective(queue \o taken)
    /\ ToSet(queue \o taken) \cap cleared = {}
    /\ size = Len(queue)

(* A thread sleeps on only as long as others have been signalled, or will  *)
(* be at unlock, for all the elements there are: no element is stranded in *)
(* the queue before a sleeper, although pop_front tests once, signals go   *)
(* to any waiter and other threads take elements in between.               *)
NoElementStranded ==
    Waiters # {} /\ nnotify # -1 =>
        Len(queue) <= nnotify * (IF mutex = Nobody THEN 0 ELSE 1)
                        + Cardinality({t \in Thread : at[t] \in {"signalled", "awake"}})
=============================================================================
