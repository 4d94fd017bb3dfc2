------------------------------ MODULE Monitor ------------------------------
(***************************************************************************)
(* TC_Monitor over TC_ThreadMutex and TC_ThreadCond, the lock of every     *)
(* queue of this library.  notify() only counts: the signals are sent      *)
(* under the mutex when the monitor is unlocked or waited on.  The mutex   *)
(* is not handed over: a thread that was signalled competes for it with    *)
(* every thread that calls lock().                                         *)
(***************************************************************************)
EXTENDS Integers, FiniteSets

CONSTANTS
    Thread,       \* the threads that use the monitor
    Nobody        \* no thread holds the mutex

ASSUME NobodyAssumption == Nobody \notin Thread /\ IsFiniteSet(Thread)

VARIABLES
    mutex,        \* the thread that holds _mutex, or Nobody
    nnotify,      \* _nnotify: signals to be sent, -1 for a broadcast
    at            \* where each thread is

monitor == <<mutex, nnotify, at>>

Place == {"out",        \* outside the monitor
          "lock",       \* in lock()
          "in",         \* holds the mutex
          "held",       \* holds the mutex and is about to unlock it
          "wait",       \* in wait()
          "timedWait",  \* in timedWait(millsecond)
          "signalled",  \* has been woken and must get the mutex again
          "expired",    \* so too, after the timeout of timedWait
          "awake",      \* wait() has returned, or timedWait() with true
          "late"}       \* timedWait() has returned false

(* The places in which a thread has the mutex.                             *)
Inside == {"in", "held", "awake", "late"}

MonitorInit ==
    /\ mutex = Nobody /\ nnotify = 0
    /\ at = [t \in Thread |-> "out"]

Waiters == {t \in Thread : at[t] \in {"wait", "timedWait"}}

(* lock()                                                                  *)
MonitorLock(t) ==
    /\ at[t] = "lock" /\ mutex = Nobody
    /\ mutex' = t
    /\ nnotify' = 0
    /\ at' = [at EXCEPT ![t] = "in"]

MutantWokenByOneSignal(n) ==
    IF n = 0 THEN {{}} ELSE IF Waiters = {} THEN {{}} ELSE {{t} : t \in Waiters}

(* notifyImpl(n): broadcast() wakes all who wait, signal() one of them.    *)
WokenBy(n) ==
    IF n = -1
      THEN {Waiters}
      ELSE {W \in SUBSET Waiters :
              Cardinality(W) = IF n < Cardinality(Waiters) THEN n ELSE Cardinality(Waiters)}

(* The signals are sent, the mutex is given up and t goes there.           *)
LeaveMutex(t, there) ==
    /\ mutex' = Nobody
    /\ \E W \in WokenBy(nnotify) :
         at' = [u \in Thread |-> IF u = t THEN there
                                 ELSE IF u \in W THEN "signalled" ELSE at[u]]
    /\ UNCHANGED nnotify

(* unlock()                                                                *)
MonitorUnlock(t) == at[t] = "held" /\ LeaveMutex(t, "out")

(* wait() and timedWait(), up to the call of pthread_cond_wait.            *)
MonitorWait(t) == LeaveMutex(t, "wait")
MonitorTimedWait(t) == LeaveMutex(t, "timedWait")

(* pthread_cond_wait may also return without a signal.                     *)
SpuriousWakeup(t) ==
    /\ t \in Waiters
    /\ at' = [at EXCEPT ![t] = "signalled"]
    /\ UNCHANGED <<mutex, nnotify>>

(* ETIMEDOUT                                                               *)
WaitExpires(t) ==
    /\ at[t] = "timedWait"
    /\ at' = [at EXCEPT ![t] = "expired"]
    /\ UNCHANGED <<mutex, nnotify>>

(* The mutex is locked again and wait() or timedWait() returns.            *)
WaitReturns(t) ==
    /\ at[t] \in {"signalled", "expired"} /\ mutex = Nobody
    /\ mutex' = t
    /\ nnotify' = 0
    /\ at' = [at EXCEPT ![t] = IF at[t] = "signalled" THEN "awake" ELSE "late"]

MonitorTypeOK ==
    /\ mutex \in Thread \cup {Nobody}
    /\ nnotify \in Nat \cup {-1}
    /\ at \in [Thread -> Place]

(* Only the holder of the mutex is inside the monitor.                     *)
MutualExclusion == \A t \in Thread : at[t] \in Inside <=> mutex = t
=============================================================================
