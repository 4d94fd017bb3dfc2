----------------------------- MODULE Singleton -----------------------------
(***************************************************************************)
(* TC_Singleton, of which ServantHelperManager and TarsNodeFHelper are     *)
(* made: an object that the first caller of getInstance creates, found     *)
(* without the lock by later ones, and destroyed by exit() while other     *)
(* threads may still call.  The object is published after it is complete,  *)
(* and stores are seen in order, as on x86-64.                             *)
(***************************************************************************)
EXTENDS Naturals, FiniteSets

CONSTANTS
    User,         \* threads that call getInstance
    Unlocked,     \* nobody holds _tl
    Lifetime,     \* the LifetimePolicies considered
    MaxObjects    \* bound: objects that are created

ASSUME SingletonAssumption ==
    /\ Unlocked \notin User
    /\ Lifetime \subseteq {"Default", "Phoneix", "NoDestroy"}
    /\ MaxObjects \in Nat

VARIABLES
    pInstance,    \* _pInstance, 0 for NULL
    destroyed,    \* _destroyed
    tl,           \* who holds _tl
    policy,       \* the LifetimePolicy
    destroyedOnce,\* _bDestroyedOnce of PhoneixLifetime
    handlers,     \* destroySingleton calls registered with atexit
    exiting,      \* where exit() is
    using,        \* where each thread is in getInstance
    instance,     \* what it returned to the thread
    alive,        \* objects that exist
    created       \* objects created so far

singletonVars == <<pInstance, destroyed, tl, policy, destroyedOnce, handlers, exiting,
                   using, instance, alive, created>>

SingletonInit ==
    /\ pInstance = 0 /\ destroyed = FALSE /\ tl = Unlocked
    /\ policy \in Lifetime /\ destroyedOnce = FALSE
    /\ handlers = 0 /\ exiting = "no"
    /\ using = [t \in User |-> "idle"] /\ instance = [t \in User |-> 0]
    /\ alive = {} /\ created = 0

Using(t, here) == using[t] = here /\ exiting # "aborted"
Step(t, next) == using' = [using EXCEPT ![t] = next]

(* The first test, without the lock                                        *)
GetInstance(t) ==
    /\ Using(t, "idle")
    /\ Step(t, IF pInstance # 0 THEN "return" ELSE "lock")
    /\ UNCHANGED <<pInstance, destroyed, tl, policy, destroyedOnce, handlers, exiting,
                   instance, alive, created>>

MutantLockUntested(t) ==
    /\ Using(t, "lock") /\ tl = Unlocked
    /\ tl' = t
    /\ Step(t, "create")
    /\ UNCHANGED <<pInstance, destroyed, policy, destroyedOnce, handlers, exiting,
                   instance, alive, created>>

(* The lock and the second test; the lock is given up when it fails.       *)
LockAndTest(t) ==
    /\ Using(t, "lock") /\ tl = Unlocked
    /\ IF pInstance # 0
         THEN Step(t, "return") /\ UNCHANGED tl
         ELSE Step(t, "create") /\ tl' = t
    /\ UNCHANGED <<pInstance, destroyed, policy, destroyedOnce, handlers, exiting,
                   instance, alive, created>>

(* deadReference throws under DefaultLifetime.                             *)
DeadReference(t) ==
    /\ Using(t, "create") /\ destroyed
    /\ IF policy = "Default"
         THEN /\ Step(t, "idle") /\ tl' = Unlocked
              /\ UNCHANGED <<destroyed, destroyedOnce>>
         ELSE /\ destroyedOnce' = (policy = "Phoneix" \/ destroyedOnce)
              /\ destroyed' = FALSE
              /\ UNCHANGED <<using, tl>>
    /\ UNCHANGED <<pInstance, policy, handlers, exiting, instance, alive, created>>

(* CreatePolicy::create, before the pointer is stored                      *)
CreateInstance(t) ==
    /\ Using(t, "create") /\ ~destroyed /\ created < MaxObjects
    /\ created' = created + 1
    /\ alive' = alive \cup {created + 1}
    /\ Step(t, "publish")
    /\ UNCHANGED <<pInstance, destroyed, tl, policy, destroyedOnce, handlers, exiting, instance>>

Publish(t) ==
    /\ Using(t, "publish")
    /\ pInstance' = created
    /\ Step(t, "schedule")
    /\ UNCHANGED <<destroyed, tl, policy, destroyedOnce, handlers, exiting, instance,
                   alive, created>>

(* scheduleDestruction, and the end of the locked block                    *)
ScheduleDestruction(t) ==
    /\ Using(t, "schedule")
    /\ handlers' = IF policy = "Default" \/ (policy = "Phoneix" /\ ~destroyedOnce)
                     THEN handlers + 1 ELSE handlers
    /\ tl' = Unlocked
    /\ Step(t, "return")
    /\ UNCHANGED <<pInstance, destroyed, policy, destroyedOnce, exiting, instance,
                   alive, created>>

(* return _pInstance, which is read again                                  *)
ReturnInstance(t) ==
    /\ Using(t, "return")
    /\ instance' = [instance EXCEPT ![t] = pInstance]
    /\ Step(t, "idle")
    /\ UNCHANGED <<pInstance, destroyed, tl, policy, destroyedOnce, handlers, exiting,
                   alive, created>>

(* exit() calls destroySingleton, without the lock: the assert, the        *)
(* destructor, and the two stores.                                         *)
DestroySingleton ==
    /\ exiting \in {"no", "exits"} /\ handlers > 0
    /\ handlers' = handlers - 1
    /\ IF destroyed
         THEN exiting' = "aborted" /\ UNCHANGED alive
         ELSE exiting' = "destroyed" /\ alive' = alive \ {pInstance}
    /\ UNCHANGED <<pInstance, destroyed, tl, policy, destroyedOnce, using, instance, created>>
ForgetInstance ==
    /\ exiting = "destroyed"
    /\ exiting' = "forgotten" /\ pInstance' = 0
    /\ UNCHANGED <<destroyed, tl, policy, destroyedOnce, handlers, using, instance, alive, created>>
MarkDestroyed ==
    /\ exiting = "forgotten"
    /\ exiting' = "exits" /\ destroyed' = TRUE
    /\ UNCHANGED <<pInstance, tl, policy, destroyedOnce, handlers, using, instance, alive, created>>

SingletonNext ==
    \/ \E t \in User :
         \/ GetInstance(t) \/ LockAndTest(t) \/ DeadReference(t) \/ CreateInstance(t)
         \/ Publish(t) \/ ScheduleDestruction(t) \/ ReturnInstance(t)
    \/ DestroySingleton \/ ForgetInstance \/ MarkDestroyed

SingletonSpec == SingletonInit /\ [][SingletonNext]_singletonVars

-----------------------------------------------------------------------------
(* There are never two objects, whoever calls first and however the calls  *)
(* overlap, also with exit(); until exit() every caller has the one that   *)
(* exists.  An object that exit() destroys was published before, and it    *)
(* has been forgotten before another one is made.                          *)
OneInstance ==
    /\ Cardinality(alive) <= 1
    /\ exiting = "no" => \A t \in User : instance[t] # 0 => instance[t] \in alive
    /\ pInstance # 0 /\ exiting # "destroyed" => pInstance \in alive
============================================================================
