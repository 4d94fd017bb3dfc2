--------------------- MODULE CoroutineSchedulerProofs ---------------------
(***************************************************************************)
(* Proofs about the coroutine scheduler, for every size of the pool, batch *)
(* and quantum, both loops, and stacks that may be refused: no coroutine   *)
(* is lost from the lists or the counts, and none is resumed before what   *)
(* it waits for has come.                                                  *)
(***************************************************************************)
EXTENDS CoroutineScheduler, SequenceFacts

-----------------------------------------------------------------------------
(* Ids are taken in order, and a coroutine that does not exist yet will    *)
(* begin on the free list.                                                 *)
Allocated == all \subseteq 1 .. uniqId /\ \A c \in Ids \ all : status[c] = "FREE"

(* Only a coroutine that exists has asked for a result.                    *)
AskersExist == \A c \in Ids : asked[c] => c \in all

(* The coroutine that runs is on the list it was resumed from, also after  *)
(* a failed assert.                                                        *)
Running ==
    current # 0 =>
        current \in all /\ status[current] \in {"ACTIVE", "AVAIL"} /\ context[current] = "none"

CoroInv ==
    /\ TypeOK /\ OnListOfStatus /\ SizesAgree /\ SchedulerAsserts
    /\ Allocated /\ AskersExist /\ Running

(* While callbacks that have asked for a result only wait for it, a        *)
(* coroutine has at most one entry in the multimap and the queues, of the  *)
(* kind of the call it is in.                                              *)
TimeoutEntries ==
    /\ IsInjective(timeouts)
    /\ \A e \in ToSet(timeouts) :
         status[e[2]] = "TIMEOUT" /\ context[e[2]] = "sleep" /\ due[e[2]] = e[1]

YieldEntries ==
    /\ IsInjective(needActive)
    /\ \A c \in ToSet(needActive) : status[c] = "INACTIVE" /\ context[c] = "yield"

Waits(c) == c = current \/ (status[c] = "INACTIVE" /\ context[c] = "await")

AnswerEntries ==
    /\ IsInjective(activeQueue) /\ IsInjective(coroIds)
    /\ ToSet(activeQueue) \cap ToSet(coroIds) = {}
    /\ \A c \in ToSet(activeQueue) \cup ToSet(coroIds) : answered[c] /\ ~asked[c] /\ Waits(c)
    /\ \A c \in Ids : asked[c] => Waits(c)

(* A runnable coroutine has what it waited for.                            *)
Runnable ==
    \A c \in Ids \ {current} : status[c] \in {"ACTIVE", "AVAIL"} =>
        /\ context[c] = "sleep" => now >= due[c]
        /\ context[c] = "await" => answered[c]

EntriesMatch ==
    disciplined => TimeoutEntries /\ YieldEntries /\ AnswerEntries /\ Runnable

PcValues == {"start", "loop", "lock", "locked", "waiting", "timeouts", "self",
             "swap", "wakeup", "active", "avail", "destroyed", "aborted"}

(* TypeOK, one member at a time.                                           *)
Types ==
    /\ all \subseteq Ids /\ lists \in [Status -> Seq(Ids)] /\ status \in [Ids -> Status]
    /\ uniqId \in 0 .. PoolSize /\ currentSize \in 0 .. PoolSize /\ usedSize \in 0 .. PoolSize
    /\ current \in Ids \cup {0} /\ terminal \in BOOLEAN /\ down \in BOOLEAN
    /\ timeouts \in Seq((0 .. MaxTime) \X Ids)
    /\ needActive \in Seq(Ids) /\ activeQueue \in Seq(Ids) /\ coroIds \in Seq(Ids)
    /\ pc \in PcValues /\ left \in 0 .. Quantum /\ notifying \subseteq Ids \cup {0}
    /\ context \in [Ids -> {"none", "yield", "await", "sleep"}]
    /\ due \in [Ids -> 0 .. MaxTime]
    /\ asked \in [Ids -> BOOLEAN] /\ answered \in [Ids -> BOOLEAN]
    /\ now \in 0 .. MaxTime /\ calls \in 0 .. MaxCreate /\ choice \in Settings

(* They say the same.                                                      *)
LEMMA TypesEq == TypeOK <=> Types
BY DEF TypeOK, Types, PcValues

(* 0 is no coroutine.                                                      *)
LEMMA IdFacts ==
  /\ PoolSize \in Nat /\ Ids \subseteq Nat /\ 0 \notin Ids
  /\ IsFiniteSet(Ids) /\ Cardinality(Ids) = PoolSize
<1>1. PoolSize \in Nat \ {0}
  BY CoroutineAssumption
<1>2. IsFiniteSet(1 .. PoolSize) /\ Cardinality(1 .. PoolSize) = PoolSize
  BY <1>1, FS_Interval
<1> QED BY <1>1, <1>2 DEF Ids

(* moveToActive, moveToAvail, moveToInactive, moveToTimeout and            *)
(* moveToFreeList take a coroutine from the list of its status to the list *)
(* of the new one, or do nothing.                                          *)
LEMMA MoveFacts ==
  ASSUME Types, OnListOfStatus, NEW c \in all, NEW from \in SUBSET Status,
         NEW to \in Status \ from, Move(c, from, to), all' = all
  PROVE  /\ lists' \in [Status -> Seq(Ids)] /\ status' \in [Ids -> Status] /\ OnListOfStatus'
         /\ \A d \in Ids \ {c} : status'[d] = status[d]
         /\ status[c] \in from => status'[c] = to
         /\ status[c] \notin from => status'[c] = status[c]
<1>1. lists \in [Status -> Seq(Ids)] /\ status \in [Ids -> Status] /\ c \in Ids /\ all \subseteq Ids
  BY DEF Types
<1>2. CASE status[c] \notin from
  <2>1. lists' = lists /\ status' = status
    BY <1>2 DEF Move
  <2> QED BY <1>1, <1>2, <2>1 DEF OnListOfStatus
<1>3. CASE status[c] \in from
  <2> DEFINE old == status[c]
  <2>1. /\ lists' = [lists EXCEPT ![old] = RemoveFirst(@, c), ![to] = Append(@, c)]
        /\ status' = [status EXCEPT ![c] = to]
    BY <1>3 DEF Move, Without
  <2>2. old \in Status /\ old # to
    BY <1>1, <1>3
  <2>3. /\ \A s \in Status : lists[s] \in Seq(Ids) /\ IsInjective(lists[s])
        /\ \A s \in Status : ToSet(lists[s]) = {d \in all : status[d] = s}
    BY <1>1 DEF OnListOfStatus, IsInjective
  <2>s. status'[c] = to /\ \A d \in Ids \ {c} : status'[d] = status[d]
    BY <1>1, <2>1
  <2>t. status' \in [Ids -> Status] /\ old = status[c]
    BY <1>1, <2>1
  <2> HIDE DEF old
  <2>4. /\ RemoveFirst(lists[old], c) \in Seq(Ids) /\ IsInjective(RemoveFirst(lists[old], c))
        /\ ToSet(RemoveFirst(lists[old], c)) = ToSet(lists[old]) \ {c}
    BY <2>2, <2>3, RemoveFirstFacts
  <2>5. c \notin ToSet(lists[to])
    BY <2>2, <2>3, <2>t
  <2>6. /\ Append(lists[to], c) \in Seq(Ids) /\ IsInjective(Append(lists[to], c))
        /\ ToSet(Append(lists[to], c)) = ToSet(lists[to]) \cup {c}
    BY <1>1, <2>3, <2>5, AppendFacts
  <2>7. /\ lists'[old] = RemoveFirst(lists[old], c) /\ lists'[to] = Append(lists[to], c)
        /\ \A s \in Status \ {old, to} : lists'[s] = lists[s]
        /\ lists' \in [Status -> Seq(Ids)]
    <3>1. lists' = [[lists EXCEPT ![old] = RemoveFirst(lists[old], c)]
                      EXCEPT ![to] = Append(lists[to], c)]
      BY <1>1, <2>1, <2>2
    <3> QED BY <1>1, <2>2, <2>4, <2>6, <3>1
  <2>8. \A s \in Status : IsInjective(lists'[s])
    BY <2>3, <2>4, <2>6, <2>7
  <2>9. ASSUME NEW s \in Status PROVE ToSet(lists'[s]) = {d \in all : status'[d] = s}
    <3>1. CASE s = old
      <4>1. ToSet(lists'[s]) = {d \in all : status[d] = old} \ {c}
        BY <2>2, <2>3, <2>4, <2>7, <3>1
      <4> QED BY <1>1, <2>2, <2>s, <3>1, <4>1
    <3>2. CASE s = to
      <4>1. ToSet(lists'[s]) = {d \in all : status[d] = to} \cup {c}
        BY <2>3, <2>6, <2>7, <3>2
      <4> QED BY <1>1, <2>s, <3>2, <4>1
    <3>3. CASE s \notin {old, to}
      <4>1. ToSet(lists'[s]) = {d \in all : status[d] = s}
        BY <2>3, <2>7, <3>3
      <4> QED BY <1>1, <2>s, <2>t, <3>3, <4>1
    <3> QED BY <3>1, <3>2, <3>3
  <2>10. OnListOfStatus'
    BY <2>8, <2>9 DEF OnListOfStatus, IsInjective
  <2> QED BY <1>3, <2>7, <2>s, <2>t, <2>10
<1> QED BY <1>2, <1>3

(* While a coroutine stays in use, or free, the counts do not change.      *)
LEMMA SizesKept ==
  ASSUME Types, SizesAgree, UNCHANGED <<all, currentSize, usedSize>>,
         \A d \in all : (status'[d] = "FREE") <=> (status[d] = "FREE")
  PROVE  SizesAgree'
<1>1. {d \in all : status[d] # "FREE"}' = {d \in all : status[d] # "FREE"}
  OBVIOUS
<1> QED BY <1>1 DEF SizesAgree

-----------------------------------------------------------------------------
Entries == ToSet(needActive) \cup ToSet(activeQueue) \cup ToSet(coroIds)
             \cup {e[2] : e \in ToSet(timeouts)}

MainFrame == <<pool, lists, status, usedSize, current, queues, coros>>

(* A step of the main coroutine, of another thread or of the clock that    *)
(* leaves pool, lists and queues alone.                                    *)
LEMMA QuietStep ==
  ASSUME CoroInv, UNCHANGED MainFrame,
         pc' \in PcValues, left' \in 0 .. Quantum, terminal' \in BOOLEAN, down' \in BOOLEAN,
         notifying' \subseteq Ids \cup {0}, now' \in 0 .. MaxTime, calls' \in 0 .. MaxCreate,
         current = 0 \/ pc' = pc \/ pc' = "aborted"
  PROVE  CoroInv'
<1>0. UNCHANGED <<all, uniqId, currentSize, loop, disciplined, lists, status, usedSize, current,
                  timeouts, needActive, activeQueue, coroIds, context, due, asked, answered>>
  BY DEF MainFrame, pool, choice, queues, coros
<1>1. TypeOK'
  <2>1. Types
    BY TypesEq DEF CoroInv
  <2>2. Types'
    BY <1>0, <2>1 DEF Types, choice
  <2> QED BY <2>2, TypesEq DEF TypeOK, Types, PcValues
<1>2. OnListOfStatus' /\ SizesAgree' /\ Allocated' /\ AskersExist' /\ Running'
  BY <1>0 DEF CoroInv, OnListOfStatus, SizesAgree, Allocated, AskersExist, Running
<1>3. SchedulerAsserts'
  BY <1>0 DEF CoroInv, SchedulerAsserts
<1> QED BY <1>1, <1>2, <1>3 DEF CoroInv

(* The steps of the main coroutine between the lists.                      *)
LEMMA LoopSteps ==
  ASSUME CoroInv,
         Start \/ Loop \/ LockAndTest \/ TimedWait \/ WaitTimeout \/ ActiveDone \/ AvailDone
  PROVE  CoroInv'
<1>1. Types
  BY TypesEq DEF CoroInv
<1>2. UNCHANGED MainFrame /\ current = 0 /\ UNCHANGED <<down, notifying, now, calls>>
  BY DEF Start, Loop, LockAndTest, TimedWait, WaitTimeout, ActiveDone, AvailDone, Main, MainFrame, env
<1>3. pc' \in PcValues
  BY DEF Start, Loop, LockAndTest, TimedWait, WaitTimeout, ActiveDone, AvailDone, Goto, PcValues
<1>4. left' \in 0 .. Quantum
  <2>1. left' \in {left, Quantum, 1, 0}
    BY DEF Start, Loop, LockAndTest, TimedWait, WaitTimeout, ActiveDone, AvailDone
  <2>2. left \in 0 .. Quantum /\ Quantum \in Nat \ {0}
    BY <1>1, CoroutineAssumption DEF Types
  <2>3. Quantum \in 0 .. Quantum /\ 1 \in 0 .. Quantum /\ 0 \in 0 .. Quantum
    BY <2>2
  <2> QED BY <2>1, <2>2, <2>3
<1>5. terminal' \in BOOLEAN
  BY <1>1 DEF Start, Loop, LockAndTest, TimedWait, WaitTimeout, ActiveDone, AvailDone, env, Types
<1> QED BY <1>1, <1>2, <1>3, <1>4, <1>5, QuietStep DEF Types

(* Other threads and the clock.                                            *)
LEMMA OtherSteps ==
  ASSUME CoroInv, Terminate \/ Tick \/ Ended \/ UNCHANGED vars \/ \E c \in Ids \cup {0} : NotifyAll(c)
  PROVE  CoroInv'
<1>1. Types
  BY TypesEq DEF CoroInv
<1>2. UNCHANGED MainFrame /\ UNCHANGED <<left, calls>>
  BY DEF Terminate, Tick, Ended, NotifyAll, MainFrame, vars, pool, queues, coros
<1>3. pc' \in PcValues /\ (current = 0 \/ pc' = pc)
  BY <1>1 DEF Terminate, Tick, Ended, NotifyAll, vars, PcValues, Types, CoroInv, SchedulerAsserts
<1>4. terminal' \in BOOLEAN /\ down' \in BOOLEAN
  BY <1>1 DEF Terminate, Tick, Ended, NotifyAll, vars, Types
<1>5. notifying' \subseteq Ids \cup {0}
  BY <1>1 DEF Terminate, Tick, Ended, NotifyAll, vars, Types
<1>6. now' \in 0 .. MaxTime
  <2>1. now' = now \/ (now < MaxTime /\ now' = now + 1)
    BY DEF Terminate, Tick, Ended, NotifyAll, vars
  <2>2. now \in 0 .. MaxTime /\ MaxTime \in Nat
    BY <1>1, CoroutineAssumption DEF Types
  <2> QED BY <2>1, <2>2
<1> QED BY <1>1, <1>2, <1>3, <1>4, <1>5, <1>6, QuietStep DEF Types

(* Moving a coroutine that is in use from one list to another.             *)
LEMMA MoveKeeps ==
  ASSUME CoroInv, NEW c \in all, NEW from \in SUBSET (Status \ {"FREE"}),
         NEW to \in Status \ (from \cup {"FREE"}), Move(c, from, to),
         UNCHANGED <<all, uniqId, currentSize, usedSize>>
  PROVE  /\ lists' \in [Status -> Seq(Ids)] /\ status' \in [Ids -> Status] /\ OnListOfStatus'
         /\ \A d \in Ids \ {c} : status'[d] = status[d]
         /\ status[c] \in from => status'[c] = to
         /\ status[c] \notin from => status'[c] = status[c]
         /\ SizesAgree' /\ Allocated'
<1>1. Types /\ all \subseteq Ids /\ "FREE" \in Status
  BY TypesEq DEF CoroInv, Types, Status
<1>2. /\ lists' \in [Status -> Seq(Ids)] /\ status' \in [Ids -> Status] /\ OnListOfStatus'
      /\ \A d \in Ids \ {c} : status'[d] = status[d]
      /\ status[c] \in from => status'[c] = to
      /\ status[c] \notin from => status'[c] = status[c]
  BY <1>1, MoveFacts DEF CoroInv
<1>3. \A d \in all : (status'[d] = "FREE") <=> (status[d] = "FREE")
  BY <1>1, <1>2
<1>4. SizesAgree'
  BY <1>1, <1>3, SizesKept DEF CoroInv
<1>5. Allocated'
  BY <1>1, <1>2 DEF CoroInv, Allocated
<1> QED BY <1>2, <1>4, <1>5

(* The three wakeup functions.                                             *)
LEMMA WakeupSteps ==
  ASSUME CoroInv, WakeupByTimeout \/ WakeupBySelf \/ WakeupSwap \/ Wakeup
  PROVE  CoroInv'
<1>1. Types
  BY TypesEq DEF CoroInv
<1>2. /\ current = 0 /\ current' = 0
      /\ UNCHANGED <<all, uniqId, currentSize, loop, disciplined, usedSize, context, due, asked,
                     answered, terminal, down, notifying, now, calls>>
  BY DEF WakeupByTimeout, WakeupBySelf, WakeupSwap, Wakeup, Main, pool, choice, coros, env
<1>3. pc' \in PcValues /\ left' \in 0 .. Quantum
  <2>1. pc' \in PcValues
    BY <1>1 DEF WakeupByTimeout, WakeupBySelf, WakeupSwap, Wakeup, Types, Goto, PcValues
  <2>2. left' = left \/ left' = Quantum
    BY DEF WakeupByTimeout, WakeupBySelf, WakeupSwap, Wakeup
  <2>3. left \in 0 .. Quantum /\ Quantum \in Nat
    BY <1>1, CoroutineAssumption DEF Types
  <2> QED BY <2>1, <2>2, <2>3
<1>4. AskersExist' /\ Running'
  BY <1>2 DEF CoroInv, AskersExist, Running
<1>e. Entries \subseteq all
  BY DEF CoroInv, SchedulerAsserts, Entries
(* From the parts to the whole                                             *)
<1>g. ASSUME lists' \in [Status -> Seq(Ids)], status' \in [Ids -> Status], OnListOfStatus',
             SizesAgree', Allocated', timeouts' \in Seq((0 .. MaxTime) \X Ids),
             needActive' \in Seq(Ids), activeQueue' \in Seq(Ids), coroIds' \in Seq(Ids),
             Entries' \subseteq Entries
      PROVE  CoroInv'
  <2>1. TypeOK'
    <3>1. Types'
      BY <1>1, <1>2, <1>3, <1>g DEF Types, choice
    <3> QED BY <3>1, TypesEq DEF TypeOK, Types, PcValues
  <2>2. SchedulerAsserts'
    BY <1>2, <1>e, <1>g DEF SchedulerAsserts, Entries
  <2> QED BY <1>4, <1>g, <2>1, <2>2 DEF CoroInv
<1>h. ASSUME UNCHANGED <<lists, status>>
      PROVE  /\ lists' \in [Status -> Seq(Ids)] /\ status' \in [Ids -> Status] /\ OnListOfStatus'
             /\ SizesAgree' /\ Allocated'
  BY <1>1, <1>2, <1>h DEF Types, CoroInv, OnListOfStatus, SizesAgree, Allocated
<1>5. CASE WakeupByTimeout
  <2>1. UNCHANGED <<needActive, activeQueue, coroIds>>
    BY <1>5 DEF WakeupByTimeout
  <2>2. CASE UNCHANGED <<lists, status, timeouts>>
    BY <1>1, <1>g, <1>h, <2>1, <2>2 DEF Types, Entries
  <2>3. CASE timeouts # << >> /\ MoveToActive(Head(timeouts)[2]) /\ timeouts' = Tail(timeouts)
    <3>1. /\ Head(timeouts) \in ToSet(timeouts) /\ timeouts' \in Seq((0 .. MaxTime) \X Ids)
          /\ ToSet(timeouts') \subseteq ToSet(timeouts)
      BY <1>1, <2>3, TailFacts DEF Types
    <3>2. Head(timeouts)[2] \in all
      BY <1>e, <3>1 DEF Entries
    <3>3. Entries' \subseteq Entries
      BY <2>1, <3>1 DEF Entries
    <3>4. /\ lists' \in [Status -> Seq(Ids)] /\ status' \in [Ids -> Status] /\ OnListOfStatus'
          /\ SizesAgree' /\ Allocated'
      BY <1>2, <2>3, <3>2, MoveKeeps DEF MoveToActive, Status
    <3> QED BY <1>1, <1>g, <2>1, <3>1, <3>3, <3>4 DEF Types
  <2> QED BY <1>5, <2>2, <2>3 DEF WakeupByTimeout
<1>6. CASE WakeupBySelf
  <2>1. UNCHANGED <<timeouts, activeQueue, coroIds>>
    BY <1>6 DEF WakeupBySelf
  <2>2. CASE UNCHANGED <<lists, status, needActive>>
    BY <1>1, <1>g, <1>h, <2>1, <2>2 DEF Types, Entries
  <2>3. CASE needActive # << >> /\ MoveToAvail(Head(needActive)) /\ needActive' = Tail(needActive)
    <3>1. /\ Head(needActive) \in ToSet(needActive) /\ needActive' \in Seq(Ids)
          /\ ToSet(needActive') \subseteq ToSet(needActive)
      BY <1>1, <2>3, TailFacts DEF Types
    <3>2. Head(needActive) \in all
      BY <1>e, <3>1 DEF Entries
    <3>3. Entries' \subseteq Entries
      BY <2>1, <3>1 DEF Entries
    <3>4. /\ lists' \in [Status -> Seq(Ids)] /\ status' \in [Ids -> Status] /\ OnListOfStatus'
          /\ SizesAgree' /\ Allocated'
      BY <1>2, <2>3, <3>2, MoveKeeps DEF MoveToAvail, Status
    <3> QED BY <1>1, <1>g, <2>1, <3>1, <3>3, <3>4 DEF Types
  <2> QED BY <1>6, <2>2, <2>3 DEF WakeupBySelf
<1>7. CASE WakeupSwap
  <2>1. UNCHANGED <<lists, status, timeouts, needActive>>
    BY <1>7 DEF WakeupSwap
  <2>2. CASE UNCHANGED <<activeQueue, coroIds>>
    BY <1>1, <1>g, <1>h, <2>1, <2>2 DEF Types, Entries
  <2>3. CASE coroIds' = activeQueue /\ activeQueue' = << >>
    <3>1. ToSet(activeQueue') = {} /\ activeQueue' \in Seq(Ids) /\ coroIds' \in Seq(Ids)
      BY <1>1, <2>3 DEF ToSet, Types
    <3>2. Entries' \subseteq Entries
      BY <2>1, <2>3, <3>1 DEF Entries
    <3> QED BY <1>1, <1>g, <1>h, <2>1, <3>1, <3>2 DEF Types
  <2> QED BY <1>7, <2>2, <2>3 DEF WakeupSwap
<1>8. CASE Wakeup
  <2>1. UNCHANGED <<timeouts, needActive, activeQueue>>
    BY <1>8 DEF Wakeup
  <2>2. CASE UNCHANGED <<lists, status, coroIds>>
    BY <1>1, <1>g, <1>h, <2>1, <2>2 DEF Types, Entries
  <2>3. CASE coroIds # << >> /\ MoveToActive(Head(coroIds)) /\ coroIds' = Tail(coroIds)
    <3>1. /\ Head(coroIds) \in ToSet(coroIds) /\ coroIds' \in Seq(Ids)
          /\ ToSet(coroIds') \subseteq ToSet(coroIds)
      BY <1>1, <2>3, TailFacts DEF Types
    <3>2. Head(coroIds) \in all
      BY <1>e, <3>1 DEF Entries
    <3>3. Entries' \subseteq Entries
      BY <2>1, <3>1 DEF Entries
    <3>4. /\ lists' \in [Status -> Seq(Ids)] /\ status' \in [Ids -> Status] /\ OnListOfStatus'
          /\ SizesAgree' /\ Allocated'
      BY <1>2, <2>3, <3>2, MoveKeeps DEF MoveToActive, Status
    <3> QED BY <1>1, <1>g, <2>1, <3>1, <3>3, <3>4 DEF Types
  <2> QED BY <1>8, <2>2, <2>3 DEF Wakeup
<1> QED BY <1>5, <1>6, <1>7, <1>8

(* switchCoro to the first runnable coroutine.                             *)
LEMMA ResumeStep == ASSUME CoroInv, Resume PROVE CoroInv'
<1>1. Types /\ OnListOfStatus /\ 0 \notin Ids
  BY TypesEq, IdFacts DEF CoroInv
<1>2. /\ current = 0 /\ left > 0 /\ left' = left - 1
      /\ context' = [context EXCEPT ![current'] = "none"]
      /\ answered' = [answered EXCEPT ![current'] = @ /\ context[current'] # "await"]
      /\ UNCHANGED <<all, uniqId, currentSize, loop, disciplined, lists, status, usedSize,
                     timeouts, needActive, activeQueue, coroIds, pc, due, asked, terminal, down,
                     notifying, now, calls>>
  BY DEF Resume, Main, pool, choice, queues, env
<1>3. \/ pc = "active" /\ lists["ACTIVE"] # << >> /\ current' = Head(lists["ACTIVE"])
      \/ pc = "avail" /\ lists["AVAIL"] # << >> /\ current' = Head(lists["AVAIL"])
  BY DEF Resume, Main
<1>4. current' \in all /\ status[current'] \in {"ACTIVE", "AVAIL"}
  <2>1. ASSUME NEW s \in Status, lists[s] # << >> PROVE Head(lists[s]) \in {c \in all : status[c] = s}
    <3>1. lists[s] \in Seq(Ids)
      BY <1>1 DEF Types
    <3>2. Head(lists[s]) \in ToSet(lists[s])
      BY <2>1, <3>1, TailFacts
    <3> QED BY <1>1, <3>2 DEF OnListOfStatus
  <2> QED BY <1>3, <2>1 DEF Status
<1>5. current' \in Ids
  BY <1>1, <1>4 DEF Types
<1>6. Types'
  <2>1. left' \in 0 .. Quantum
    BY <1>1, <1>2, CoroutineAssumption DEF Types
  <2>2. context' \in [Ids -> {"none", "yield", "await", "sleep"}]
    BY <1>1, <1>2, <1>5 DEF Types
  <2>3. answered' \in [Ids -> BOOLEAN]
    BY <1>1, <1>2, <1>5 DEF Types
  <2> QED BY <1>1, <1>2, <1>5, <2>1, <2>2, <2>3 DEF Types, choice
<1>7. TypeOK'
  BY <1>6 DEF TypeOK, Types, PcValues
<1>8. OnListOfStatus' /\ SizesAgree' /\ Allocated' /\ AskersExist'
  BY <1>2 DEF CoroInv, OnListOfStatus, SizesAgree, Allocated, AskersExist
<1>9. context'[current'] = "none"
  BY <1>1, <1>2, <1>5 DEF Types
<1>10. Running'
  BY <1>2, <1>4, <1>9 DEF Running
<1>11. SchedulerAsserts'
  BY <1>2, <1>3 DEF CoroInv, SchedulerAsserts
<1> QED BY <1>7, <1>8, <1>10, <1>11 DEF CoroInv

(* A coroutine asks for a result, and another thread put()s it.            *)
LEMMA AskStep == ASSUME CoroInv, Ask PROVE CoroInv'
<1>1. Types /\ 0 \notin Ids
  BY TypesEq, IdFacts DEF CoroInv
<1>2. /\ current # 0
      /\ asked' = [asked EXCEPT ![current] = TRUE] /\ answered' = [answered EXCEPT ![current] = FALSE]
      /\ UNCHANGED <<all, uniqId, currentSize, loop, disciplined, lists, status, usedSize, current,
                     timeouts, needActive, activeQueue, coroIds, pc, left, context, due,
                     terminal, down, notifying, now, calls>>
  BY DEF Ask, MayDo, pool, choice, queues, env
<1>3. current \in all /\ current \in Ids
  BY <1>1, <1>2 DEF CoroInv, Running, Types
<1>4. asked' \in [Ids -> BOOLEAN] /\ answered' \in [Ids -> BOOLEAN]
  BY <1>1, <1>2 DEF Types
<1>5. TypeOK'
  <2>1. Types'
    BY <1>1, <1>2, <1>4 DEF Types, choice
  <2> QED BY <2>1 DEF TypeOK, Types, PcValues
<1>6. OnListOfStatus' /\ SizesAgree' /\ Allocated' /\ Running' /\ SchedulerAsserts'
  BY <1>2 DEF CoroInv, OnListOfStatus, SizesAgree, Allocated, Running, SchedulerAsserts
<1>7. AskersExist'
  <2>1. \A c \in Ids \ {current} : asked'[c] = asked[c]
    BY <1>1, <1>2 DEF Types
  <2> QED BY <1>2, <1>3, <2>1 DEF CoroInv, AskersExist
<1> QED BY <1>5, <1>6, <1>7 DEF CoroInv

(* put() finds the coroutine in _all_coro.                                 *)
LEMMA PutStep == ASSUME CoroInv, NEW c \in Ids, Put(c) PROVE CoroInv'
<1>1. Types
  BY TypesEq DEF CoroInv
<1>2. /\ asked[c]
      /\ asked' = [asked EXCEPT ![c] = FALSE] /\ answered' = [answered EXCEPT ![c] = TRUE]
      /\ UNCHANGED <<all, uniqId, currentSize, loop, disciplined, lists, status, usedSize, current,
                     timeouts, needActive, coroIds, pc, left, context, due, terminal, down,
                     now, calls>>
  BY DEF Put, pool, choice
<1>3. /\ activeQueue' = activeQueue \/ activeQueue' = Append(activeQueue, c)
      /\ notifying' = notifying \/ notifying' = notifying \cup {c}
  BY DEF Put
<1>4. c \in all
  BY <1>2 DEF CoroInv, AskersExist
<1>5. activeQueue' \in Seq(Ids) /\ ToSet(activeQueue') \subseteq ToSet(activeQueue) \cup {c}
  <2>1. activeQueue \in Seq(Ids)
    BY <1>1 DEF Types
  <2>2. /\ Append(activeQueue, c) \in Seq(Ids)
        /\ ToSet(Append(activeQueue, c)) = ToSet(activeQueue) \cup {c}
    BY <2>1, AppendFacts
  <2> QED BY <1>3, <2>1, <2>2
<1>6. asked' \in [Ids -> BOOLEAN] /\ answered' \in [Ids -> BOOLEAN]
  BY <1>1, <1>2 DEF Types
<1>7. TypeOK'
  <2>1. Types'
    BY <1>1, <1>2, <1>3, <1>5, <1>6 DEF Types, choice
  <2> QED BY <2>1 DEF TypeOK, Types, PcValues
<1>8. OnListOfStatus' /\ SizesAgree' /\ Allocated' /\ Running'
  BY <1>2 DEF CoroInv, OnListOfStatus, SizesAgree, Allocated, Running
<1>9. SchedulerAsserts'
  BY <1>2, <1>4, <1>5 DEF CoroInv, SchedulerAsserts
<1>10. AskersExist'
  <2>1. \A d \in Ids : asked'[d] => asked[d]
    BY <1>1, <1>2 DEF Types
  <2> QED BY <1>2, <2>1 DEF CoroInv, AskersExist
<1> QED BY <1>7, <1>8, <1>9, <1>10 DEF CoroInv

(* Where multimap::insert puts an entry.                                   *)
LEMMA InsertTimeoutFacts ==
  ASSUME Types, NEW t \in 0 .. MaxTime, NEW c \in Ids
  PROVE  /\ InsertTimeout(t, c) \in Seq((0 .. MaxTime) \X Ids)
         /\ ToSet(InsertTimeout(t, c)) = ToSet(timeouts) \cup {<<t, c>>}
         /\ IsInjective(timeouts) /\ <<t, c>> \notin ToSet(timeouts) =>
              IsInjective(InsertTimeout(t, c))
<1> DEFINE I == {i \in DOMAIN timeouts : timeouts[i][1] <= t}
           k == Cardinality(I)
           S == (0 .. MaxTime) \X Ids
           x == <<t, c>>
<1>1. timeouts \in Seq(S) /\ x \in S
  BY DEF Types
<1>2. Len(timeouts) \in Nat /\ DOMAIN timeouts = 1 .. Len(timeouts)
  BY <1>1, LenProperties
<1>3. IsFiniteSet(1 .. Len(timeouts)) /\ Cardinality(1 .. Len(timeouts)) = Len(timeouts)
  <2>1. \A n \in Nat : IsFiniteSet(1 .. n) /\ Cardinality(1 .. n) = n
    BY FS_Interval
  <2> QED BY <1>2, <2>1
<1>4. I \in SUBSET (1 .. Len(timeouts))
  BY <1>2
<1>5. IsFiniteSet(I) /\ k \in Nat /\ k <= Len(timeouts)
  BY <1>3, <1>4, FS_Subset, FS_CardinalityType
<1>6. InsertTimeout(t, c) = SubSeq(timeouts, 1, k) \o <<x>> \o SubSeq(timeouts, k + 1, Len(timeouts))
  BY DEF InsertTimeout
<1> HIDE DEF k, S, x
<1>7. k \in 0 .. Len(timeouts)
  BY <1>2, <1>5
<1>8. LET r == SubSeq(timeouts, 1, k) \o <<x>> \o SubSeq(timeouts, k + 1, Len(timeouts))
      IN  /\ r \in Seq(S)
          /\ ToSet(r) = ToSet(timeouts) \cup {x}
          /\ IsInjective(timeouts) /\ x \notin ToSet(timeouts) => IsInjective(r)
  BY <1>1, <1>7, InsertFacts
<1> QED BY <1>6, <1>8 DEF x, S

(* The running coroutine yields, waits or sleeps.                          *)
LEMMA SuspendSteps ==
  ASSUME CoroInv, YieldSelf \/ Await \/ \E ms \in 0 .. 1 : Sleep(ms)
  PROVE  CoroInv'
<1>1. Types /\ 0 \notin Ids
  BY TypesEq, IdFacts DEF CoroInv
<1>2. /\ current # 0 /\ current' = 0
      /\ UNCHANGED <<all, uniqId, currentSize, loop, disciplined, usedSize, activeQueue, coroIds,
                     pc, left, asked, answered, terminal, down, notifying, now, calls>>
  BY DEF YieldSelf, Await, Sleep, MayDo, Suspend, pool, choice, queues, env
<1>3. current \in all /\ current \in Ids
  BY <1>1, <1>2 DEF CoroInv, Running, Types
<1>4. \E to \in {"INACTIVE", "TIMEOUT"} : Move(current, {"ACTIVE", "AVAIL"}, to)
  BY DEF YieldSelf, Await, Sleep, MoveToInactive, MoveToTimeout
<1>5. /\ lists' \in [Status -> Seq(Ids)] /\ status' \in [Ids -> Status] /\ OnListOfStatus'
      /\ SizesAgree' /\ Allocated'
  BY <1>2, <1>3, <1>4, MoveKeeps DEF Status
<1>6. \E call \in {"yield", "await", "sleep"} : context' = [context EXCEPT ![current] = call]
  BY DEF YieldSelf, Await, Sleep, Suspend
<1>7. context' \in [Ids -> {"none", "yield", "await", "sleep"}]
  BY <1>1, <1>3, <1>6 DEF Types
<1>8. needActive' \in Seq(Ids) /\ ToSet(needActive') \subseteq ToSet(needActive) \cup {current}
  <2>1. needActive' = needActive \/ needActive' = Append(needActive, current)
    BY DEF YieldSelf, Await, Sleep, queues
  <2>2. needActive \in Seq(Ids)
    BY <1>1 DEF Types
  <2>3. /\ Append(needActive, current) \in Seq(Ids)
        /\ ToSet(Append(needActive, current)) = ToSet(needActive) \cup {current}
    BY <1>3, <2>2, AppendFacts
  <2> QED BY <2>1, <2>2, <2>3
<1>9. /\ due' \in [Ids -> 0 .. MaxTime] /\ timeouts' \in Seq((0 .. MaxTime) \X Ids)
      /\ {e[2] : e \in ToSet(timeouts')} \subseteq {e[2] : e \in ToSet(timeouts)} \cup {current}
  <2>1. CASE UNCHANGED <<due, timeouts>>
    BY <1>1, <2>1 DEF Types
  <2>2. ASSUME NEW ms \in 0 .. 1, Sleep(ms)
        PROVE  /\ due' \in [Ids -> 0 .. MaxTime] /\ timeouts' \in Seq((0 .. MaxTime) \X Ids)
               /\ {e[2] : e \in ToSet(timeouts')} \subseteq {e[2] : e \in ToSet(timeouts)} \cup {current}
    <3>1. /\ now + ms <= MaxTime /\ due' = [due EXCEPT ![current] = now + ms]
          /\ timeouts' = InsertTimeout(now + ms, current)
      BY <2>2 DEF Sleep
    <3>2. now + ms \in 0 .. MaxTime
      BY <1>1, <3>1, CoroutineAssumption DEF Types
    <3>3. /\ timeouts' \in Seq((0 .. MaxTime) \X Ids)
          /\ ToSet(timeouts') = ToSet(timeouts) \cup {<<now + ms, current>>}
      BY <1>1, <1>3, <3>1, <3>2, InsertTimeoutFacts
    <3>4. due' \in [Ids -> 0 .. MaxTime]
      BY <1>1, <3>1, <3>2 DEF Types
    <3>5. <<now + ms, current>>[2] = current
      OBVIOUS
    <3> QED BY <3>3, <3>4, <3>5
  <2> QED BY <2>1, <2>2 DEF YieldSelf, Await, queues
<1>10. TypeOK'
  <2>1. Types'
    BY <1>1, <1>2, <1>5, <1>7, <1>8, <1>9 DEF Types, choice
  <2> QED BY <2>1 DEF TypeOK, Types, PcValues
<1>11. SchedulerAsserts'
  BY <1>2, <1>3, <1>8, <1>9 DEF CoroInv, SchedulerAsserts
<1>12. AskersExist' /\ Running'
  BY <1>2 DEF CoroInv, AskersExist, Running
<1> QED BY <1>5, <1>10, <1>11, <1>12 DEF CoroInv

(* The running coroutine ends and is free again.                           *)
LEMMA FinishStep == ASSUME CoroInv, Finish PROVE CoroInv'
<1>1. Types /\ 0 \notin Ids /\ OnListOfStatus
  BY TypesEq, IdFacts DEF CoroInv
<1>2. /\ current # 0 /\ current' = 0 /\ usedSize' = usedSize - 1
      /\ Move(current, Status \ {"FREE"}, "FREE")
      /\ context' = [context EXCEPT ![current] = "none"]
      /\ UNCHANGED <<all, uniqId, currentSize, loop, disciplined, timeouts, needActive,
                     activeQueue, coroIds, pc, left, due, asked, answered, terminal, down,
                     notifying, now, calls>>
  BY DEF Finish, MayDo, MoveToFreeList, Suspend, pool, choice, queues, env
<1>3. current \in all /\ current \in Ids /\ status[current] \in Status \ {"FREE"}
  BY <1>1, <1>2 DEF CoroInv, Running, Types, Status
<1>4. /\ lists' \in [Status -> Seq(Ids)] /\ status' \in [Ids -> Status] /\ OnListOfStatus'
      /\ \A d \in Ids \ {current} : status'[d] = status[d]
      /\ status'[current] = "FREE"
  <2>1. "FREE" \in Status \ (Status \ {"FREE"}) /\ Status \ {"FREE"} \in SUBSET Status
    BY DEF Status
  <2> QED BY <1>1, <1>2, <1>3, <2>1, MoveFacts
<1>5. SizesAgree' /\ usedSize' \in 0 .. PoolSize
  <2> DEFINE Used == {d \in all : status[d] # "FREE"}
  <2>1. {d \in all : status'[d] # "FREE"} = Used \ {current}
    BY <1>1, <1>3, <1>4 DEF Types
  <2>2. Used \subseteq Ids /\ current \in Used
    BY <1>1, <1>3 DEF Types
  <2>3. IsFiniteSet(Used) /\ Cardinality(Used) \in Nat /\ Cardinality(Used) <= PoolSize
    BY <2>2, IdFacts, FS_Subset, FS_CardinalityType
  <2>4. usedSize = Cardinality(Used) /\ currentSize = Cardinality(all)
    BY DEF CoroInv, SizesAgree
  <2> HIDE DEF Used
  <2>5. Cardinality(Used \ {current}) = Cardinality(Used) - 1 /\ Cardinality(Used \ {current}) \in Nat
    BY <2>2, <2>3, FS_RemoveElement, FS_CardinalityType
  <2>6. usedSize' = Cardinality(Used \ {current})
    BY <1>2, <2>4, <2>5
  <2>7. usedSize' \in 0 .. PoolSize
    BY <2>3, <2>5, <2>6, IdFacts
  <2> QED BY <1>2, <2>1, <2>4, <2>6, <2>7 DEF SizesAgree
<1>6. Allocated'
  BY <1>1, <1>2, <1>3, <1>4 DEF CoroInv, Allocated
<1>7. context' \in [Ids -> {"none", "yield", "await", "sleep"}]
  BY <1>1, <1>2, <1>3 DEF Types
<1>8. TypeOK'
  <2>1. Types'
    BY <1>1, <1>2, <1>4, <1>5, <1>7 DEF Types, choice
  <2> QED BY <2>1 DEF TypeOK, Types, PcValues
<1>9. SchedulerAsserts' /\ AskersExist' /\ Running'
  BY <1>2 DEF CoroInv, SchedulerAsserts, AskersExist, Running
<1> QED BY <1>4, <1>5, <1>6, <1>8, <1>9 DEF CoroInv

(* The first of the free coroutines, the new ones included, is occupied.   *)
LEMMA OccupyFacts ==
  ASSUME CoroInv, NEW free \in Seq(Ids), free # << >>, IsInjective(free),
         all \subseteq all', all' \subseteq Ids,
         ToSet(free) = ToSet(lists["FREE"]) \cup (all' \ all), Occupy(free)
  PROVE  /\ lists' \in [Status -> Seq(Ids)] /\ status' \in [Ids -> Status] /\ OnListOfStatus'
         /\ Head(free) \in all' /\ status[Head(free)] = "FREE" /\ status'[Head(free)] = "AVAIL"
         /\ \A d \in Ids \ {Head(free)} : status'[d] = status[d]
         /\ context' = [context EXCEPT ![Head(free)] = "none"]
         /\ usedSize' \in 0 .. PoolSize
         /\ usedSize' = Cardinality({d \in all' : status'[d] # "FREE"})
         /\ lists'["ACTIVE"] = lists["ACTIVE"]
         /\ lists["AVAIL"] # << >> =>
              lists'["AVAIL"] # << >> /\ Head(lists'["AVAIL"]) = Head(lists["AVAIL"])
<1> DEFINE h == Head(free)
<1>1. /\ lists \in [Status -> Seq(Ids)] /\ status \in [Ids -> Status] /\ all \subseteq Ids
      /\ \A s \in Status : lists[s] \in Seq(Ids) /\ IsInjective(lists[s])
      /\ \A s \in Status : ToSet(lists[s]) = {d \in all : status[d] = s}
      /\ \A d \in Ids \ all : status[d] = "FREE"
      /\ {"FREE", "AVAIL", "ACTIVE", "INACTIVE", "TIMEOUT"} = Status
  BY TypesEq DEF CoroInv, Types, OnListOfStatus, IsInjective, Allocated, Status
<1>2. /\ usedSize' = usedSize + 1 /\ status' = [status EXCEPT ![h] = "AVAIL"]
      /\ lists' = [lists EXCEPT !["FREE"] = Tail(free), !["AVAIL"] = Append(@, h)]
      /\ context' = [context EXCEPT ![h] = "none"]
  BY DEF Occupy
<1>3. /\ h \in ToSet(free) /\ h \in Ids /\ Tail(free) \in Seq(Ids) /\ IsInjective(Tail(free))
      /\ ToSet(free) = ToSet(Tail(free)) \cup {h} /\ h \notin ToSet(Tail(free))
  BY TailFacts
<1>4. ToSet(free) = {d \in all' : status[d] = "FREE"}
  BY <1>1
<1> HIDE DEF h
<1>5. h \in all' /\ status[h] = "FREE"
  BY <1>3, <1>4
<1>6. status' \in [Ids -> Status] /\ status'[h] = "AVAIL" /\ \A d \in Ids \ {h} : status'[d] = status[d]
  BY <1>1, <1>2, <1>3
<1>7. /\ Append(lists["AVAIL"], h) \in Seq(Ids) /\ IsInjective(Append(lists["AVAIL"], h))
      /\ ToSet(Append(lists["AVAIL"], h)) = ToSet(lists["AVAIL"]) \cup {h}
  <2>1. h \notin ToSet(lists["AVAIL"])
    BY <1>1, <1>5
  <2> QED BY <1>1, <1>3, <2>1, AppendFacts
<1>8. /\ lists'["FREE"] = Tail(free) /\ lists'["AVAIL"] = Append(lists["AVAIL"], h)
      /\ \A s \in Status \ {"FREE", "AVAIL"} : lists'[s] = lists[s]
      /\ lists' \in [Status -> Seq(Ids)]
  <2>1. lists' = [[lists EXCEPT !["FREE"] = Tail(free)] EXCEPT !["AVAIL"] = Append(lists["AVAIL"], h)]
    BY <1>1, <1>2
  <2> QED BY <1>1, <1>3, <1>7, <2>1
<1>9. \A s \in Status : IsInjective(lists'[s])
  BY <1>1, <1>3, <1>7, <1>8
<1>10. ASSUME NEW s \in Status PROVE ToSet(lists'[s]) = {d \in all' : status'[d] = s}
  <2>1. CASE s = "FREE"
    <3>1. ToSet(lists'[s]) = {d \in all' : status[d] = "FREE"} \ {h}
      BY <1>3, <1>4, <1>8, <2>1
    <3> QED BY <1>6, <2>1, <3>1
  <2>2. CASE s = "AVAIL"
    <3>1. ToSet(lists'[s]) = {d \in all : status[d] = "AVAIL"} \cup {h}
      BY <1>1, <1>7, <1>8, <2>2
    <3>2. {d \in all' : status[d] = "AVAIL"} = {d \in all : status[d] = "AVAIL"}
      BY <1>1
    <3> QED BY <1>5, <1>6, <2>2, <3>1, <3>2
  <2>3. CASE s \notin {"FREE", "AVAIL"}
    <3>1. ToSet(lists'[s]) = {d \in all : status[d] = s}
      BY <1>1, <1>8, <2>3
    <3>2. {d \in all' : status[d] = s} = {d \in all : status[d] = s}
      BY <1>1, <2>3
    <3> QED BY <1>5, <1>6, <2>3, <3>1, <3>2
  <2> QED BY <2>1, <2>2, <2>3
<1>11. OnListOfStatus'
  BY <1>9, <1>10 DEF OnListOfStatus, IsInjective
<1>12. usedSize' = Cardinality({d \in all' : status'[d] # "FREE"}) /\ usedSize' \in 0 .. PoolSize
  <2> DEFINE Used == {d \in all : status[d] # "FREE"}
  <2>1. {d \in all' : status'[d] # "FREE"} = Used \cup {h}
    BY <1>1, <1>5, <1>6
  <2>2. Used \subseteq Ids /\ h \notin Used /\ Used \cup {h} \subseteq Ids
    BY <1>1, <1>3, <1>5
  <2>3. IsFiniteSet(Used) /\ Cardinality(Used) \in Nat
    BY <2>2, IdFacts, FS_Subset, FS_CardinalityType
  <2>4. usedSize = Cardinality(Used)
    BY DEF CoroInv, SizesAgree
  <2> HIDE DEF Used
  <2>5. Cardinality(Used \cup {h}) = Cardinality(Used) + 1
    BY <2>2, <2>3, FS_AddElement
  <2>6. Cardinality(Used \cup {h}) <= PoolSize
    BY <2>2, IdFacts, FS_Subset
  <2>7. usedSize' = Cardinality(Used \cup {h})
    BY <1>2, <2>4, <2>5
  <2>8. Cardinality(Used) + 1 \in 0 .. PoolSize
    BY <2>3, <2>5, <2>6, IdFacts
  <2>9. usedSize' \in 0 .. PoolSize
    BY <2>5, <2>7, <2>8
  <2>10. usedSize' = Cardinality({d \in all' : status'[d] # "FREE"})
    BY <2>1, <2>7
  <2> QED BY <2>9, <2>10
<1>13. lists'["ACTIVE"] = lists["ACTIVE"]
  BY <1>1, <1>8
<1>14. ASSUME lists["AVAIL"] # << >>
       PROVE  lists'["AVAIL"] # << >> /\ Head(lists'["AVAIL"]) = Head(lists["AVAIL"])
  <2>1. lists["AVAIL"] \in Seq(Ids) /\ Len(lists["AVAIL"]) \in Nat \ {0}
    BY <1>1, <1>14, EmptySeq, LenProperties
  <2>2. /\ Append(lists["AVAIL"], h)[1] = lists["AVAIL"][1] /\ Append(lists["AVAIL"], h) # << >>
        /\ Append(lists["AVAIL"], h) \in Seq(Ids)
    BY <1>3, <2>1, AppendProperties
  <2> QED BY <1>8, <2>1, <2>2
<1> QED BY <1>2, <1>5, <1>6, <1>8, <1>11, <1>12, <1>13, <1>14 DEF h

(* createCoroutine() gives one free coroutine, if any, a callback.          *)
Occupies ==
    \/ UNCHANGED <<status, context>>
    \/ \E h \in Ids :
         /\ status[h] = "FREE" /\ status'[h] = "AVAIL"
         /\ \A d \in Ids \ {h} : status'[d] = status[d]
         /\ context' = [context EXCEPT ![h] = "none"]

(* createCoroutine(), with and without growing the pool.                   *)
LEMMA CreateStep == ASSUME CoroInv, CreateCoroutine PROVE CoroInv' /\ Occupies
<1>1. Types /\ 0 \notin Ids /\ PoolSize \in Nat
  BY TypesEq, IdFacts DEF CoroInv
<1>2. /\ calls < MaxCreate /\ calls' = calls + 1
      /\ UNCHANGED <<loop, disciplined, current, timeouts, needActive, activeQueue, coroIds, left,
                     due, asked, answered, terminal, down, notifying, now>>
  BY DEF CreateCoroutine, pool, choice, queues, env
<1>c. calls' \in 0 .. MaxCreate
  BY <1>1, <1>2, CoroutineAssumption DEF Types
<1>a. /\ all \subseteq 1 .. uniqId /\ uniqId \in Nat /\ currentSize \in Nat /\ currentSize <= PoolSize
      /\ currentSize = Cardinality(all) /\ IsFiniteSet(all)
      /\ \A d \in Ids \ all : status[d] = "FREE"
  <2>1. all \subseteq Ids
    BY <1>1 DEF Types
  <2>2. IsFiniteSet(all)
    BY <2>1, IdFacts, FS_Subset
  <2> QED BY <1>1, <2>2 DEF CoroInv, Allocated, SizesAgree, Types
<1>f. lists["FREE"] \in Seq(Ids) /\ IsInjective(lists["FREE"]) /\ ToSet(lists["FREE"]) \subseteq all
  <2>1. "FREE" \in Status
    BY DEF Status
  <2> QED BY <1>1, <2>1 DEF Types, CoroInv, OnListOfStatus, IsInjective
(* What is left to show when a coroutine is occupied                       *)
<1>o. ASSUME NEW free \in Seq(Ids), free # << >>, IsInjective(free),
             all \subseteq all', all' \subseteq Ids, all' \subseteq 1 .. uniqId',
             ToSet(free) = ToSet(lists["FREE"]) \cup (all' \ all), Occupy(free),
             uniqId' \in 0 .. PoolSize, currentSize' \in 0 .. PoolSize,
             currentSize' = Cardinality(all'), pc' = pc
      PROVE  CoroInv' /\ Occupies
  <2>1. /\ lists' \in [Status -> Seq(Ids)] /\ status' \in [Ids -> Status] /\ OnListOfStatus'
        /\ Head(free) \in all' /\ status[Head(free)] = "FREE" /\ status'[Head(free)] = "AVAIL"
        /\ \A d \in Ids \ {Head(free)} : status'[d] = status[d]
        /\ context' = [context EXCEPT ![Head(free)] = "none"]
        /\ usedSize' \in 0 .. PoolSize
        /\ usedSize' = Cardinality({d \in all' : status'[d] # "FREE"})
        /\ lists'["ACTIVE"] = lists["ACTIVE"]
        /\ lists["AVAIL"] # << >> =>
             lists'["AVAIL"] # << >> /\ Head(lists'["AVAIL"]) = Head(lists["AVAIL"])
    BY <1>o, OccupyFacts
  <2>2. Head(free) \in Ids
    BY <1>o, <2>1
  <2>3. /\ context' \in [Ids -> {"none", "yield", "await", "sleep"}]
        /\ \A d \in Ids \ {Head(free)} : context'[d] = context[d]
    BY <1>1, <2>1, <2>2 DEF Types
  <2>4. TypeOK'
    <3>1. Types'
      BY <1>1, <1>2, <1>c, <1>o, <2>1, <2>3 DEF Types, choice
    <3> QED BY <3>1 DEF TypeOK, Types, PcValues
  <2>5. SizesAgree'
    BY <1>o, <2>1 DEF SizesAgree
  <2>6. Allocated'
    BY <1>a, <1>o, <2>1, <2>2 DEF Allocated
  <2>7. AskersExist'
    BY <1>2, <1>o DEF CoroInv, AskersExist
  <2>8. Running'
    <3>1. current # 0 => current # Head(free) /\ current \in Ids
      BY <1>1, <2>1 DEF CoroInv, Running, Types
    <3> QED BY <1>2, <1>o, <2>1, <2>3, <3>1 DEF CoroInv, Running
  <2>9. SchedulerAsserts'
    BY <1>2, <1>o, <2>1 DEF CoroInv, SchedulerAsserts
  <2>10. Occupies
    BY <2>1, <2>2 DEF Occupies
  <2> QED BY <2>1, <2>4, <2>5, <2>6, <2>7, <2>8, <2>9, <2>10 DEF CoroInv
<1>3. CASE ~(usedSize >= currentSize \/ lists["FREE"] = << >>)
  <2>1. Occupy(lists["FREE"]) /\ UNCHANGED <<all, uniqId, currentSize, pc>>
    BY <1>3 DEF CreateCoroutine, pool
  <2>2. lists["FREE"] # << >> /\ all \subseteq Ids
    BY <1>1, <1>3 DEF Types
  <2>3. ToSet(lists["FREE"]) = ToSet(lists["FREE"]) \cup (all' \ all)
    BY <2>1
  <2> QED BY <1>1, <1>a, <1>f, <1>o, <2>1, <2>2, <2>3 DEF Types
<1>4. CASE usedSize >= currentSize \/ lists["FREE"] = << >>
  <2>1. PICK n \in 0 .. Wanted :
          IF Taken(n) > PoolSize
            THEN /\ pc' = "aborted"
                 /\ UNCHANGED <<pool, lists, status, usedSize, context>>
            ELSE /\ all' = all \cup ((uniqId + 1) .. (uniqId + n))
                 /\ uniqId' = Taken(n) /\ currentSize' = currentSize + n /\ pc' = pc
                 /\ IF n = 0
                      THEN UNCHANGED <<lists, status, usedSize, context>>
                      ELSE Occupy(lists["FREE"] \o [i \in 1 .. n |-> uniqId + i])
    BY <1>4 DEF CreateCoroutine
  <2>2. n \in Nat /\ currentSize + n <= PoolSize /\ Taken(n) >= uniqId + n /\ Taken(n) \in Nat
    <3>1. Wanted \in Nat /\ Wanted <= PoolSize - currentSize
      BY <1>1, <1>a, CoroutineAssumption DEF Wanted, Smaller
    <3>2. n \in Nat /\ n <= Wanted
      BY <3>1
    <3> QED BY <1>1, <1>a, <3>1, <3>2 DEF Taken
  <2>3. CASE Taken(n) > PoolSize
    <3>1. UNCHANGED MainFrame /\ pc' = "aborted"
      BY <1>2, <2>1, <2>3 DEF MainFrame, queues, coros, pool, choice
    <3>2. Occupies
      BY <3>1 DEF Occupies, MainFrame, coros
    <3> QED BY <1>1, <1>2, <1>c, <3>1, <3>2, QuietStep DEF Types, PcValues
  <2>4. CASE ~(Taken(n) > PoolSize)
    <3> DEFINE new == (uniqId + 1) .. (uniqId + n)
               fresh == [i \in 1 .. n |-> uniqId + i]
    <3>1. all' = all \cup new /\ uniqId' = Taken(n) /\ currentSize' = currentSize + n /\ pc' = pc
      BY <2>1, <2>4
    <3>2. new \subseteq Ids /\ new \cap all = {} /\ all' \subseteq 1 .. uniqId' /\ uniqId' \in 0 .. PoolSize
      BY <1>1, <1>a, <2>2, <2>4, <3>1 DEF Ids
    <3>3. /\ IsFiniteSet(new) /\ Cardinality(new) = n
          /\ uniqId + 1 \in Int /\ uniqId + n \in Int
      <4>1. uniqId + 1 \in Int /\ uniqId + n \in Int
        BY <1>a, <2>2
      <4>2. /\ IsFiniteSet(new)
            /\ Cardinality(new) = IF uniqId + 1 > uniqId + n THEN 0 ELSE (uniqId + n) - (uniqId + 1) + 1
        BY <4>1, FS_Interval
      <4> HIDE DEF new
      <4> QED BY <1>a, <2>2, <4>1, <4>2
    <3>4. currentSize' = Cardinality(all') /\ currentSize' \in 0 .. PoolSize
      <4> HIDE DEF new
      <4>1. Cardinality(all \cup new) = Cardinality(all) + Cardinality(new) - Cardinality(all \cap new)
        BY <1>a, <3>3, FS_Union
      <4>2. Cardinality(all \cap new) = 0
        BY <3>2, FS_EmptySet
      <4> QED BY <1>1, <1>a, <2>2, <3>1, <3>3, <4>1, <4>2
    <3>5. all \subseteq all' /\ all' \subseteq Ids /\ all' \ all = new
      BY <1>1, <3>1, <3>2 DEF Types
    <3>6. CASE n = 0
      <4>1. UNCHANGED <<lists, status, usedSize, context>> /\ new = {}
        BY <1>a, <2>1, <2>4, <3>6
      <4>2. all' = all
        BY <3>1, <4>1
      <4>3. TypeOK'
        <5>1. Types'
          BY <1>1, <1>2, <1>c, <3>1, <3>2, <3>4, <4>1, <4>2 DEF Types, choice
        <5> QED BY <5>1 DEF TypeOK, Types, PcValues
      <4>4. OnListOfStatus' /\ AskersExist' /\ Running' /\ SchedulerAsserts'
        BY <1>2, <3>1, <4>1, <4>2 DEF CoroInv, OnListOfStatus, AskersExist, Running, SchedulerAsserts
      <4>5. SizesAgree'
        BY <3>4, <4>1, <4>2 DEF CoroInv, SizesAgree
      <4>6. Allocated'
        BY <1>a, <3>2, <4>1, <4>2 DEF Allocated
      <4>7. Occupies
        BY <4>1 DEF Occupies
      <4> QED BY <4>3, <4>4, <4>5, <4>6, <4>7 DEF CoroInv
    <3>7. CASE n # 0
      <4>1. Occupy(lists["FREE"] \o fresh)
        BY <2>1, <2>4, <3>7
      <4>2. fresh \in Seq(Ids) /\ Len(fresh) = n /\ fresh # << >>
        <5>1. \A i \in 1 .. n : uniqId + i \in Ids
          BY <1>a, <2>2, <3>2
        <5>2. fresh \in [1 .. n -> Ids]
          BY <5>1
        <5>3. fresh \in Seq(Ids) /\ Len(fresh) = n
          BY <2>2, <5>2
        <5> QED BY <2>2, <3>7, <5>3
      <4>3. ToSet(fresh) = new /\ IsInjective(fresh)
        <5>1. DOMAIN fresh = 1 .. n /\ \A i \in 1 .. n : fresh[i] = uniqId + i
          OBVIOUS
        <5>2. IsInjective(fresh)
          BY <1>a, <2>2, <5>1 DEF IsInjective
        <5>3. ASSUME NEW x \in new PROVE x \in ToSet(fresh)
          <6>1. x - uniqId \in 1 .. n /\ fresh[x - uniqId] = x
            BY <1>a, <2>2
          <6> QED BY <5>1, <6>1 DEF ToSet
        <5>4. \A i \in 1 .. n : uniqId + i \in new
          BY <1>a, <2>2
        <5>5. ToSet(fresh) \subseteq new
          BY <5>1, <5>4 DEF ToSet
        <5> QED BY <5>2, <5>3, <5>5
      <4> HIDE DEF fresh, new
      <4>4. /\ lists["FREE"] \o fresh \in Seq(Ids)
            /\ Len(lists["FREE"] \o fresh) = Len(lists["FREE"]) + Len(fresh)
            /\ ToSet(lists["FREE"] \o fresh) = ToSet(lists["FREE"]) \cup (all' \ all)
            /\ IsInjective(lists["FREE"] \o fresh)
        <5>1. ToSet(lists["FREE"]) \cap ToSet(fresh) = {}
          BY <1>f, <3>2, <4>3
        <5> QED BY <1>f, <3>5, <4>2, <4>3, <5>1, ConcatFacts
      <4>5. lists["FREE"] \o fresh # << >>
        BY <1>f, <2>2, <3>7, <4>2, <4>4
      <4> QED BY <1>o, <3>1, <3>2, <3>4, <3>5, <4>1, <4>4, <4>5
    <3> QED BY <3>6, <3>7
  <2> QED BY <2>3, <2>4
<1> QED BY <1>3, <1>4

(* The pool the constructor allocates.                                     *)
LEMMA CoroInvInit == Init => CoroInv
<1> SUFFICES ASSUME Init PROVE CoroInv
  OBVIOUS
<1>1. PICK n \in 0 .. Smaller(PoolSize, Batch) :
        /\ all = 1 .. n
        /\ lists = [s \in Status |-> IF s = "FREE" THEN [i \in 1 .. n |-> i] ELSE << >>]
        /\ uniqId = n /\ currentSize = n
  BY DEF Init
<1>2. n \in Nat /\ n <= PoolSize /\ PoolSize \in Nat
  BY CoroutineAssumption DEF Smaller
<1>3. /\ status = [c \in Ids |-> "FREE"] /\ usedSize = 0 /\ current = 0
      /\ asked = [c \in Ids |-> FALSE] /\ answered = [c \in Ids |-> FALSE]
      /\ needActive = << >> /\ activeQueue = << >> /\ coroIds = << >> /\ timeouts = << >>
  BY DEF Init
<1>4. all \subseteq Ids
  BY <1>1, <1>2 DEF Ids
<1>5. /\ lists \in [Status -> Seq(Ids)]
      /\ lists["FREE"] = [i \in 1 .. n |-> i]
      /\ \A s \in Status \ {"FREE"} : lists[s] = << >>
  <2>1. [i \in 1 .. n |-> i] \in Seq(Ids)
    <3>1. [i \in 1 .. n |-> i] \in [1 .. n -> Ids]
      BY <1>1, <1>4
    <3> QED BY <1>2, <3>1
  <2>2. "FREE" \in Status
    BY DEF Status
  <2> QED BY <1>1, <2>1, <2>2
<1>6. TypeOK
  <2>1. choice \in Settings
    <3>1. PICK p \in Settings : loop = p[1] /\ disciplined = p[2]
      BY DEF Init
    <3>2. p \in {"run", "tars_run"} \X BOOLEAN
      BY CoroutineAssumption
    <3>3. p = <<p[1], p[2]>>
      BY <3>2
    <3> QED BY <3>1, <3>3 DEF choice
  <2>2. Types
    <3>1. {PoolSize, Batch, Quantum, MaxTime, MaxCreate} \subseteq Nat
      BY CoroutineAssumption
    <3>2. /\ terminal = FALSE /\ down = FALSE /\ pc = "start" /\ left = 0 /\ notifying = {}
          /\ context = [c \in Ids |-> "none"] /\ due = [c \in Ids |-> 0] /\ now = 0 /\ calls = 0
      BY DEF Init
    <3>3. /\ status \in [Ids -> Status] /\ due \in [Ids -> 0 .. MaxTime]
          /\ context \in [Ids -> {"none", "yield", "await", "sleep"}]
      BY <1>3, <3>1, <3>2 DEF Status
    <3>4. asked \in [Ids -> BOOLEAN] /\ answered \in [Ids -> BOOLEAN]
      BY <1>3, Zenon
    <3>5. /\ uniqId \in 0 .. PoolSize /\ currentSize \in 0 .. PoolSize /\ usedSize \in 0 .. PoolSize
          /\ left \in 0 .. Quantum /\ now \in 0 .. MaxTime /\ calls \in 0 .. MaxCreate
      BY <1>1, <1>2, <1>3, <3>1, <3>2
    <3>6. /\ timeouts \in Seq((0 .. MaxTime) \X Ids) /\ needActive \in Seq(Ids)
          /\ activeQueue \in Seq(Ids) /\ coroIds \in Seq(Ids)
      BY <1>3, EmptySeq
    <3>7. terminal \in BOOLEAN /\ down \in BOOLEAN
      BY <3>2, Zenon
    <3>8. pc \in PcValues /\ notifying \subseteq Ids \cup {0} /\ current \in Ids \cup {0}
      BY <1>3, <3>2 DEF PcValues
    <3> QED BY <1>4, <1>5, <2>1, <3>3, <3>4, <3>5, <3>6, <3>7, <3>8 DEF Types
  <2> QED BY <2>2, TypesEq
<1>7. OnListOfStatus
  <2>1. ASSUME NEW s \in Status PROVE IsInjective(lists[s]) /\ ToSet(lists[s]) = {c \in all : status[c] = s}
    <3>1. CASE s = "FREE"
      <4>1. DOMAIN lists[s] = 1 .. n /\ \A i \in 1 .. n : lists[s][i] = i
        BY <1>5, <3>1
      <4>2. IsInjective(lists[s]) /\ ToSet(lists[s]) = 1 .. n
        BY <4>1 DEF IsInjective, ToSet
      <4> QED BY <1>1, <1>3, <1>4, <3>1, <4>2
    <3>2. CASE s # "FREE"
      <4>1. lists[s] = << >>
        BY <1>5, <3>2
      <4>2. IsInjective(lists[s]) /\ ToSet(lists[s]) = {}
        BY <4>1 DEF IsInjective, ToSet
      <4> QED BY <1>3, <1>4, <3>2, <4>2
    <3> QED BY <3>1, <3>2
  <2> QED BY <2>1 DEF OnListOfStatus, IsInjective
<1>8. SizesAgree
  <2>1. {c \in all : status[c] # "FREE"} = {}
    BY <1>3, <1>4
  <2>2. \A k \in Nat : Cardinality(1 .. k) = k
    BY FS_Interval
  <2>3. Cardinality(all) = n
    BY <1>1, <1>2, <2>2
  <2> QED BY <1>1, <1>3, <2>1, <2>3, FS_EmptySet DEF SizesAgree
<1>9. SchedulerAsserts
  BY <1>3 DEF SchedulerAsserts, ToSet
<1>10. Allocated /\ AskersExist /\ Running
  BY <1>1, <1>3 DEF Allocated, AskersExist, Running
<1> QED BY <1>6, <1>7, <1>8, <1>9, <1>10 DEF CoroInv

(* Every step of the scheduler keeps the invariant.                        *)
LEMMA CoroInvStep == CoroInv /\ [Next]_vars => CoroInv'
BY LoopSteps, OtherSteps, WakeupSteps, ResumeStep, AskStep, PutStep, SuspendSteps, FinishStep,
   CreateStep DEF Next, MainStep, GiveUp

(* The invariant holds throughout.                                         *)
LEMMA CoroInvariant == Spec => []CoroInv
BY CoroInvInit, CoroInvStep, PTL DEF Spec

(* No coroutine is lost from the lists or from the counts, and the asserts *)
(* of the wakeup functions hold, for every size of the pool, in both loops *)
(* and whatever the callbacks do.                                          *)
THEOREM NoCoroutineIsLost == Spec => []CoroutinesAccounted
<1>1. CoroInv => CoroutinesAccounted
  BY DEF CoroInv, CoroutinesAccounted
<1> QED BY <1>1, CoroInvariant, PTL

-----------------------------------------------------------------------------
(* The entries of the multimap and of the queues name coroutines.          *)
LEMMA EntryTypes ==
  ASSUME CoroInv
  PROVE  /\ Types /\ 0 \notin Ids
         /\ \A e \in ToSet(timeouts) : e[2] \in Ids /\ e[2] \in all /\ e = <<e[1], e[2]>>
         /\ ToSet(needActive) \subseteq Ids /\ ToSet(needActive) \subseteq all
         /\ ToSet(activeQueue) \subseteq Ids /\ ToSet(activeQueue) \subseteq all
         /\ ToSet(coroIds) \subseteq Ids /\ ToSet(coroIds) \subseteq all
         /\ current # 0 => current \in Ids /\ current \in all /\ status[current] \in {"ACTIVE", "AVAIL"}
<1>1. Types /\ 0 \notin Ids
  BY TypesEq, IdFacts DEF CoroInv
<1>2. ToSet(timeouts) \subseteq (0 .. MaxTime) \X Ids
  BY <1>1, ToSetType DEF Types
<1>3. \A e \in (0 .. MaxTime) \X Ids : e[2] \in Ids /\ e = <<e[1], e[2]>>
  OBVIOUS
<1>4. /\ ToSet(needActive) \subseteq Ids /\ ToSet(activeQueue) \subseteq Ids /\ ToSet(coroIds) \subseteq Ids
  BY <1>1, ToSetType DEF Types
<1>5. current # 0 => current \in Ids /\ current \in all /\ status[current] \in {"ACTIVE", "AVAIL"}
  BY <1>1 DEF CoroInv, Running, Types
<1>6. /\ \A e \in ToSet(timeouts) : e[2] \in all
      /\ ToSet(needActive) \subseteq all /\ ToSet(activeQueue) \subseteq all /\ ToSet(coroIds) \subseteq all
  BY DEF CoroInv, SchedulerAsserts
<1> QED BY <1>1, <1>2, <1>3, <1>4, <1>5, <1>6

(* Steps that leave the coroutines and the queues alone.                   *)
LEMMA QuietEntries ==
  ASSUME EntriesMatch, CoroInv, CoroInv', now' >= now,
         UNCHANGED <<disciplined, status, current, timeouts, needActive, activeQueue, coroIds, context,
                     due, asked, answered>>
  PROVE  EntriesMatch'
<1> SUFFICES ASSUME disciplined PROVE (TimeoutEntries /\ YieldEntries /\ AnswerEntries /\ Runnable)'
  BY DEF EntriesMatch
<1>1. TimeoutEntries /\ YieldEntries /\ AnswerEntries /\ Runnable
  BY DEF EntriesMatch
<1>2. TimeoutEntries' /\ YieldEntries'
  BY <1>1 DEF TimeoutEntries, YieldEntries
<1>3. AnswerEntries'
  BY <1>1 DEF AnswerEntries, Waits
<1>4. Runnable'
  <2>1. now \in Nat /\ now' \in Nat /\ due \in [Ids -> Nat]
    BY EntryTypes DEF Types, CoroInv, TypeOK
  <2>2. \A c \in Ids : now >= due[c] => now' >= due[c]
    BY <2>1
  <2> QED BY <1>1, <2>2 DEF Runnable
<1> QED BY <1>2, <1>3, <1>4

(* The entry the loop of wakeupbytimeout() takes.                          *)
LEMMA TimeoutWakes ==
  ASSUME EntriesMatch, CoroInv, CoroInv', WakeupByTimeout PROVE EntriesMatch'
<1>1. /\ current = 0 /\ current' = 0
      /\ UNCHANGED <<all, uniqId, currentSize, usedSize, disciplined, needActive, activeQueue, coroIds,
                     context, due, asked, answered, now>>
  BY DEF WakeupByTimeout, Main, pool, choice, coros, env
<1>2. CASE UNCHANGED <<status, timeouts>>
  <2>1. now' >= now
    BY <1>1, EntryTypes DEF Types
  <2> QED BY <1>1, <1>2, <2>1, QuietEntries
<1>3. CASE /\ timeouts # << >> /\ Head(timeouts)[1] <= now
           /\ MoveToActive(Head(timeouts)[2]) /\ timeouts' = Tail(timeouts)
  <2> SUFFICES ASSUME disciplined PROVE (TimeoutEntries /\ YieldEntries /\ AnswerEntries /\ Runnable)'
    BY <1>1 DEF EntriesMatch
  <2>1. TimeoutEntries /\ YieldEntries /\ AnswerEntries /\ Runnable
    BY DEF EntriesMatch
  <2> DEFINE h == Head(timeouts)
             c == h[2]
  <2>2. /\ h \in ToSet(timeouts) /\ ToSet(timeouts) = ToSet(timeouts') \cup {h}
        /\ IsInjective(timeouts') /\ h \notin ToSet(timeouts')
    BY <1>3, <2>1, EntryTypes, TailFacts DEF Types, TimeoutEntries
  <2>3. /\ c \in Ids /\ c \in all /\ status[c] = "TIMEOUT" /\ context[c] = "sleep" /\ due[c] = h[1]
        /\ due[c] <= now
    BY <1>3, <2>1, <2>2, EntryTypes DEF TimeoutEntries
  <2>4. status'[c] = "ACTIVE" /\ \A d \in Ids \ {c} : status'[d] = status[d]
    <3>1. Move(c, {"INACTIVE", "TIMEOUT"}, "ACTIVE")
      BY <1>3 DEF MoveToActive
    <3> HIDE DEF c, h
    <3> QED BY <1>1, <2>3, <3>1, MoveKeeps DEF Status
  <2>5. \A e \in ToSet(timeouts') : e[2] \in Ids \ {c}
    <3> SUFFICES ASSUME NEW e \in ToSet(timeouts') PROVE e[2] \in Ids /\ e[2] # c
      OBVIOUS
    <3>1. e \in ToSet(timeouts) /\ e # h
      BY <2>2
    <3>2. /\ e = <<e[1], e[2]>> /\ h = <<h[1], h[2]>> /\ e[2] \in Ids /\ due[e[2]] = e[1]
          /\ due[h[2]] = h[1]
      BY <2>1, <2>2, <3>1, EntryTypes DEF TimeoutEntries
    <3> QED BY <3>1, <3>2
  <2> HIDE DEF c, h
  <2>6. TimeoutEntries'
    BY <1>1, <2>1, <2>2, <2>4, <2>5 DEF TimeoutEntries
  <2>7. \A d \in Ids : status[d] = "INACTIVE" => d # c
    BY <2>3
  <2>8. YieldEntries'
    BY <1>1, <2>1, <2>4, <2>7, EntryTypes DEF YieldEntries
  <2>9. \A d \in Ids : Waits(d) => Waits(d)'
    BY <1>1, <2>4, <2>7, EntryTypes DEF Waits
  <2>10. AnswerEntries'
    BY <1>1, <2>1, <2>9, EntryTypes DEF AnswerEntries
  <2>11. Runnable'
    <3>1. now >= due[c]
      BY <2>3, EntryTypes DEF Types
    <3> QED BY <1>1, <2>1, <2>3, <2>4, <3>1, EntryTypes DEF Runnable
  <2> QED BY <2>6, <2>8, <2>10, <2>11
<1> QED BY <1>2, <1>3 DEF WakeupByTimeout

(* The entry the loop of wakeupbyself() takes.                             *)
LEMMA SelfWakes ==
  ASSUME EntriesMatch, CoroInv, CoroInv', WakeupBySelf PROVE EntriesMatch'
<1>1. /\ current = 0 /\ current' = 0
      /\ UNCHANGED <<all, uniqId, currentSize, usedSize, disciplined, timeouts, activeQueue, coroIds,
                     context, due, asked, answered, now>>
  BY DEF WakeupBySelf, Main, pool, choice, coros, env
<1>2. CASE UNCHANGED <<status, needActive>>
  <2>1. now' >= now
    BY <1>1, EntryTypes DEF Types
  <2> QED BY <1>1, <1>2, <2>1, QuietEntries
<1>3. CASE /\ needActive # << >> /\ MoveToAvail(Head(needActive)) /\ needActive' = Tail(needActive)
  <2> SUFFICES ASSUME disciplined PROVE (TimeoutEntries /\ YieldEntries /\ AnswerEntries /\ Runnable)'
    BY <1>1 DEF EntriesMatch
  <2>1. TimeoutEntries /\ YieldEntries /\ AnswerEntries /\ Runnable
    BY DEF EntriesMatch
  <2> DEFINE c == Head(needActive)
  <2>2. /\ c \in ToSet(needActive) /\ ToSet(needActive) = ToSet(needActive') \cup {c}
        /\ IsInjective(needActive') /\ c \notin ToSet(needActive')
    BY <1>3, <2>1, EntryTypes, TailFacts DEF Types, YieldEntries
  <2>3. c \in Ids /\ c \in all /\ status[c] = "INACTIVE" /\ context[c] = "yield"
    BY <2>1, <2>2, EntryTypes DEF YieldEntries
  <2>4. status'[c] = "AVAIL" /\ \A d \in Ids \ {c} : status'[d] = status[d]
    BY <1>1, <1>3, <2>3, MoveKeeps DEF MoveToAvail, Status
  <2> HIDE DEF c
  <2>5. TimeoutEntries'
    <3>1. \A e \in ToSet(timeouts) : e[2] \in Ids \ {c}
      BY <2>1, <2>3, EntryTypes DEF TimeoutEntries
    <3> QED BY <1>1, <2>1, <2>4, <3>1 DEF TimeoutEntries
  <2>6. YieldEntries'
    BY <1>1, <2>1, <2>2, <2>4, EntryTypes DEF YieldEntries
  <2>7. \A d \in Ids : Waits(d) => Waits(d)'
    BY <1>1, <2>3, <2>4, EntryTypes DEF Waits
  <2>8. AnswerEntries'
    BY <1>1, <2>1, <2>7, EntryTypes DEF AnswerEntries
  <2>9. Runnable'
    BY <1>1, <2>1, <2>3, <2>4, EntryTypes DEF Runnable
  <2> QED BY <2>5, <2>6, <2>8, <2>9
<1> QED BY <1>2, <1>3 DEF WakeupBySelf

(* wakeup() swaps out the ids that were put() and moves them.              *)
LEMMA PutWakes ==
  ASSUME EntriesMatch, CoroInv, CoroInv', WakeupSwap \/ Wakeup PROVE EntriesMatch'
<1>1. /\ current = 0 /\ current' = 0
      /\ UNCHANGED <<all, uniqId, currentSize, usedSize, disciplined, timeouts, needActive,
                     context, due, asked, answered, now>>
  BY DEF WakeupSwap, Wakeup, Main, pool, choice, coros, env
<1>2. CASE UNCHANGED <<status, activeQueue, coroIds>>
  <2>1. now' >= now
    BY <1>1, EntryTypes DEF Types
  <2> QED BY <1>1, <1>2, <2>1, QuietEntries
<1> SUFFICES ASSUME disciplined PROVE (TimeoutEntries /\ YieldEntries /\ AnswerEntries /\ Runnable)'
  BY <1>1 DEF EntriesMatch
<1>3. TimeoutEntries /\ YieldEntries /\ AnswerEntries /\ Runnable
  BY DEF EntriesMatch
<1>4. CASE status' = status /\ coroIds' = activeQueue /\ activeQueue' = << >>
  <2>1. TimeoutEntries' /\ YieldEntries' /\ Runnable'
    BY <1>1, <1>3, <1>4 DEF TimeoutEntries, YieldEntries, Runnable
  <2>2. ToSet(activeQueue') = {} /\ IsInjective(activeQueue')
    BY <1>4 DEF ToSet, IsInjective
  <2>3. \A d \in Ids : Waits(d) => Waits(d)'
    BY <1>1, <1>4 DEF Waits
  <2>4. AnswerEntries'
    BY <1>1, <1>3, <1>4, <2>2, <2>3, EntryTypes DEF AnswerEntries
  <2> QED BY <2>1, <2>4
<1>5. CASE /\ coroIds # << >> /\ MoveToActive(Head(coroIds)) /\ coroIds' = Tail(coroIds)
           /\ activeQueue' = activeQueue
  <2> DEFINE c == Head(coroIds)
  <2>2. /\ c \in ToSet(coroIds) /\ ToSet(coroIds) = ToSet(coroIds') \cup {c}
        /\ IsInjective(coroIds') /\ c \notin ToSet(coroIds')
    BY <1>3, <1>5, EntryTypes, TailFacts DEF Types, AnswerEntries
  <2>3. /\ c \in Ids /\ c \in all /\ status[c] = "INACTIVE" /\ context[c] = "await"
        /\ answered[c] /\ ~asked[c] /\ c \notin ToSet(activeQueue)
    BY <1>1, <1>3, <2>2, EntryTypes DEF AnswerEntries, Waits
  <2>4. status'[c] = "ACTIVE" /\ \A d \in Ids \ {c} : status'[d] = status[d]
    BY <1>1, <1>5, <2>3, MoveKeeps DEF MoveToActive, Status
  <2> HIDE DEF c
  <2>5. TimeoutEntries'
    <3>1. \A e \in ToSet(timeouts) : e[2] \in Ids \ {c}
      BY <1>3, <2>3, EntryTypes DEF TimeoutEntries
    <3> QED BY <1>1, <1>3, <2>4, <3>1 DEF TimeoutEntries
  <2>6. YieldEntries'
    <3>1. \A d \in ToSet(needActive) : d \in Ids \ {c}
      BY <1>3, <2>3, EntryTypes DEF YieldEntries
    <3> QED BY <1>1, <1>3, <2>4, <3>1 DEF YieldEntries
  <2>7. \A d \in Ids \ {c} : Waits(d) => Waits(d)'
    BY <1>1, <2>4, EntryTypes DEF Waits
  <2>8. AnswerEntries'
    <3>1. \A d \in ToSet(activeQueue) \cup ToSet(coroIds') : d \in Ids \ {c}
      BY <2>2, <2>3, EntryTypes
    <3>2. \A d \in Ids : asked[d] => d # c
      BY <2>3
    <3> QED BY <1>1, <1>3, <1>5, <2>2, <2>7, <3>1, <3>2 DEF AnswerEntries
  <2>9. Runnable'
    BY <1>1, <1>3, <2>3, <2>4, EntryTypes DEF Runnable
  <2> QED BY <2>5, <2>6, <2>8, <2>9
<1>6. CASE UNCHANGED <<status, activeQueue, coroIds>>
  BY <1>1, <1>2, <1>6 DEF EntriesMatch
<1> QED BY <1>4, <1>5, <1>6 DEF WakeupSwap, Wakeup

(* switchCoro to the first runnable coroutine.                             *)
LEMMA ResumeEntries ==
  ASSUME EntriesMatch, CoroInv, CoroInv', Resume PROVE EntriesMatch' /\ WakesWhenDue
<1>1. /\ current = 0 /\ current' # 0
      /\ UNCHANGED <<status, disciplined, timeouts, needActive, activeQueue, coroIds, due, asked, now>>
      /\ context' = [context EXCEPT ![current'] = "none"]
      /\ answered' = [answered EXCEPT ![current'] = @ /\ context[current'] # "await"]
      /\ current' \in Ids /\ status[current'] \in {"ACTIVE", "AVAIL"}
  <2>1. /\ current = 0
        /\ UNCHANGED <<status, disciplined, timeouts, needActive, activeQueue, coroIds, due, asked, now>>
        /\ context' = [context EXCEPT ![current'] = "none"]
        /\ answered' = [answered EXCEPT ![current'] = @ /\ context[current'] # "await"]
    BY DEF Resume, Main, pool, choice, queues, env
  <2>2. \E s \in {"ACTIVE", "AVAIL"} : lists[s] # << >> /\ current' = Head(lists[s])
    BY DEF Resume
  <2>3. \A s \in {"ACTIVE", "AVAIL"} : /\ lists[s] \in Seq(Ids)
                                       /\ ToSet(lists[s]) = {c \in all : status[c] = s}
    BY EntryTypes DEF Types, Status, CoroInv, OnListOfStatus
  <2>4. PICK s \in {"ACTIVE", "AVAIL"} : lists[s] # << >> /\ current' = Head(lists[s])
    BY <2>2
  <2>5. current' \in ToSet(lists[s]) /\ current' \in Ids
    BY <2>3, <2>4, TailFacts
  <2> QED BY <2>1, <2>3, <2>5, EntryTypes
<1>2. PICK c \in Ids : c = current'
  BY <1>1
<1>3. /\ status[c] \in {"ACTIVE", "AVAIL"} /\ c # 0 /\ \A d \in Ids \ {c} : context'[d] = context[d]
      /\ \A d \in Ids \ {c} : answered'[d] = answered[d]
  <2>1. context \in [Ids -> {"none", "yield", "await", "sleep"}] /\ answered \in [Ids -> BOOLEAN]
    BY EntryTypes DEF Types
  <2>2. \A d \in Ids \ {c} : context'[d] = context[d]
    BY <1>1, <1>2, <2>1
  <2>3. \A d \in Ids \ {c} : answered'[d] = answered[d]
    BY <1>1, <1>2, <2>1
  <2> QED BY <1>1, <1>2, <2>2, <2>3
<1>4. ASSUME disciplined PROVE WakesWhenDue
  BY <1>1, <1>2, <1>3, <1>4 DEF EntriesMatch, Runnable, WakesWhenDue
<1>5. ASSUME disciplined PROVE (TimeoutEntries /\ YieldEntries /\ AnswerEntries /\ Runnable)'
  <2>1. TimeoutEntries /\ YieldEntries /\ AnswerEntries /\ Runnable
    BY <1>5 DEF EntriesMatch
  <2>2. TimeoutEntries'
    <3>1. \A e \in ToSet(timeouts) : e[2] \in Ids \ {c}
      BY <1>3, <2>1, EntryTypes DEF TimeoutEntries
    <3> QED BY <1>1, <1>3, <2>1, <3>1 DEF TimeoutEntries
  <2>3. YieldEntries'
    <3>1. \A d \in ToSet(needActive) : d \in Ids \ {c}
      BY <1>3, <2>1, EntryTypes DEF YieldEntries
    <3> QED BY <1>1, <1>3, <2>1, <3>1 DEF YieldEntries
  <2>4. \A d \in Ids : Waits(d) => d # c /\ Waits(d)'
    BY <1>1, <1>3, EntryTypes DEF Waits
  <2>5. AnswerEntries'
    <3>1. \A d \in ToSet(activeQueue) \cup ToSet(coroIds) : answered'[d] /\ ~asked'[d] /\ Waits(d)'
      BY <1>1, <1>3, <2>1, <2>4, EntryTypes DEF AnswerEntries
    <3>2. \A d \in Ids : asked'[d] => Waits(d)'
      BY <1>1, <2>1, <2>4 DEF AnswerEntries
    <3> QED BY <1>1, <2>1, <3>1, <3>2 DEF AnswerEntries
  <2>6. Runnable'
    BY <1>1, <1>2, <1>3, <2>1, EntryTypes DEF Runnable
  <2> QED BY <2>2, <2>3, <2>5, <2>6
<1> QED BY <1>1, <1>4, <1>5 DEF EntriesMatch, WakesWhenDue

(* The running coroutine asks for a result.                                *)
LEMMA AskEntries ==
  ASSUME EntriesMatch, CoroInv, CoroInv', Ask PROVE EntriesMatch'
<1>1. /\ current # 0 /\ current \in Ids
      /\ UNCHANGED <<current, status, disciplined, timeouts, needActive, activeQueue, coroIds, due, context, now>>
      /\ asked' = [asked EXCEPT ![current] = TRUE]
      /\ answered' = [answered EXCEPT ![current] = FALSE]
  BY EntryTypes DEF Ask, MayDo, pool, choice, queues, env
<1>2. \A d \in Ids \ {current} : asked'[d] = asked[d] /\ answered'[d] = answered[d]
  BY <1>1, EntryTypes DEF Types
<1> SUFFICES ASSUME disciplined PROVE (TimeoutEntries /\ YieldEntries /\ AnswerEntries /\ Runnable)'
  BY <1>1 DEF EntriesMatch
<1>3. TimeoutEntries /\ YieldEntries /\ AnswerEntries /\ Runnable /\ ~answered[current]
  BY DEF EntriesMatch, Ask, MayDo
<1>4. TimeoutEntries' /\ YieldEntries'
  BY <1>1, <1>3 DEF TimeoutEntries, YieldEntries
<1>5. AnswerEntries'
  <2>1. \A d \in ToSet(activeQueue) \cup ToSet(coroIds) : d \in Ids \ {current} /\ answered'[d] /\ ~asked'[d]
    BY <1>2, <1>3, EntryTypes DEF AnswerEntries
  <2>2. \A d \in Ids : asked'[d] => d = current \/ Waits(d)
    BY <1>2, <1>3 DEF AnswerEntries
  <2> QED BY <1>1, <1>3, <2>1, <2>2 DEF AnswerEntries, Waits
<1>6. Runnable'
  BY <1>1, <1>2, <1>3 DEF Runnable
<1> QED BY <1>4, <1>5, <1>6

(* Another thread put()s the result of a coroutine.                        *)
LEMMA PutEntries ==
  ASSUME EntriesMatch, CoroInv, CoroInv', NEW c \in Ids, Put(c) PROVE EntriesMatch'
<1>1. /\ asked[c]
      /\ UNCHANGED <<current, status, disciplined, timeouts, needActive, coroIds, due, context, now>>
      /\ asked' = [asked EXCEPT ![c] = FALSE]
      /\ answered' = [answered EXCEPT ![c] = TRUE]
      /\ activeQueue' = activeQueue \/ activeQueue' = Append(activeQueue, c)
  BY DEF Put, pool, choice
<1>2. /\ \A d \in Ids \ {c} : asked'[d] = asked[d] /\ answered'[d] = answered[d]
      /\ answered'[c] /\ ~asked'[c]
  BY <1>1, EntryTypes DEF Types
<1> SUFFICES ASSUME disciplined PROVE (TimeoutEntries /\ YieldEntries /\ AnswerEntries /\ Runnable)'
  BY <1>1 DEF EntriesMatch
<1>3. TimeoutEntries /\ YieldEntries /\ AnswerEntries /\ Runnable
  BY DEF EntriesMatch
<1>4. TimeoutEntries' /\ YieldEntries'
  BY <1>1, <1>3 DEF TimeoutEntries, YieldEntries
<1>5. AnswerEntries'
  <2>1. c \notin ToSet(activeQueue) /\ c \notin ToSet(coroIds) /\ Waits(c)
    BY <1>1, <1>3 DEF AnswerEntries
  <2>2. IsInjective(activeQueue') /\ ToSet(activeQueue') \subseteq ToSet(activeQueue) \cup {c}
    <3>1. activeQueue \in Seq(Ids)
      BY EntryTypes DEF Types
    <3>2. /\ ToSet(Append(activeQueue, c)) = ToSet(activeQueue) \cup {c}
          /\ IsInjective(Append(activeQueue, c))
      BY <1>3, <2>1, <3>1, AppendFacts DEF AnswerEntries
    <3> QED BY <1>1, <1>3, <3>2 DEF AnswerEntries
  <2>3. \A d \in ToSet(activeQueue') \cup ToSet(coroIds) : answered'[d] /\ ~asked'[d] /\ Waits(d)
    BY <1>2, <1>3, <2>1, <2>2, EntryTypes DEF AnswerEntries
  <2>4. \A d \in Ids : asked'[d] => Waits(d)
    BY <1>2, <1>3 DEF AnswerEntries
  <2>5. \A d \in Ids : Waits(d) => Waits(d)'
    BY <1>1 DEF Waits
  <2>6. ToSet(activeQueue') \subseteq Ids /\ ToSet(coroIds) \subseteq Ids
    BY <2>2, EntryTypes
  <2> QED BY <1>1, <1>3, <2>1, <2>2, <2>3, <2>4, <2>5, <2>6 DEF AnswerEntries
<1>6. Runnable'
  BY <1>1, <1>2, <1>3 DEF Runnable
<1> QED BY <1>4, <1>5, <1>6

(* The running coroutine yields, waits, sleeps or ends.                    *)
LEMMA GiveUpEntries ==
  ASSUME EntriesMatch, CoroInv, CoroInv', GiveUp PROVE EntriesMatch'
<1>1. /\ current # 0 /\ current' = 0 /\ current \in Ids /\ current \in all
      /\ UNCHANGED <<all, disciplined, activeQueue, coroIds, asked, answered, now>>
      /\ status[current] \in {"ACTIVE", "AVAIL"}
  BY EntryTypes DEF GiveUp, YieldSelf, Await, Sleep, Finish, MayDo, Suspend, pool, choice, queues, env
<1>2. PICK c \in Ids : c = current
  BY <1>1
<1>3. ASSUME NEW from \in SUBSET Status, NEW to \in Status \ from, Move(current, from, to),
             {"ACTIVE", "AVAIL"} \subseteq from
      PROVE  status'[c] = to /\ \A d \in Ids \ {c} : status'[d] = status[d]
  BY <1>1, <1>2, <1>3, EntryTypes, MoveFacts DEF CoroInv
<1>4. ASSUME NEW call, context' = [context EXCEPT ![current] = call]
      PROVE  context'[c] = call /\ \A d \in Ids \ {c} : context'[d] = context[d]
  BY <1>1, <1>2, <1>4, EntryTypes DEF Types
<1> SUFFICES ASSUME disciplined PROVE (TimeoutEntries /\ YieldEntries /\ AnswerEntries /\ Runnable)'
  BY <1>1 DEF EntriesMatch
<1>5. TimeoutEntries /\ YieldEntries /\ AnswerEntries /\ Runnable
  BY DEF EntriesMatch
<1>6. /\ \A e \in ToSet(timeouts) : e[2] \in Ids \ {c}
      /\ \A d \in ToSet(needActive) : d \in Ids \ {c}
  BY <1>1, <1>2, <1>5, EntryTypes DEF TimeoutEntries, YieldEntries
(* Nothing that is answered or asked but the coroutine itself is touched   *)
<1>7. ASSUME \A d \in Ids \ {c} : status'[d] = status[d] /\ context'[d] = context[d],
             \/ ~asked[c] /\ ~answered[c]
             \/ status'[c] = "INACTIVE" /\ context'[c] = "await"
      PROVE  AnswerEntries'
  <2>1. \A d \in Ids \ {c} : Waits(d) => Waits(d)'
    BY <1>1, <1>2, <1>7, EntryTypes DEF Waits
  <2>2. \A d \in Ids : (asked[d] \/ answered[d]) /\ Waits(d) => Waits(d)'
    BY <1>7, <2>1 DEF Waits
  <2> QED BY <1>1, <1>5, <2>2, EntryTypes DEF AnswerEntries
<1>8. ASSUME \A d \in Ids \ {c} : status'[d] = status[d] /\ context'[d] = context[d] /\ due'[d] = due[d],
             status'[c] \notin {"ACTIVE", "AVAIL"}
      PROVE  Runnable'
  BY <1>1, <1>2, <1>5, <1>8, EntryTypes DEF Runnable
<1>9. ASSUME \A d \in Ids \ {c} : status'[d] = status[d] /\ context'[d] = context[d],
             UNCHANGED <<due, timeouts>>
      PROVE  TimeoutEntries'
  BY <1>5, <1>6, <1>9 DEF TimeoutEntries
<1>10. ASSUME \A d \in Ids \ {c} : status'[d] = status[d] /\ context'[d] = context[d],
             UNCHANGED needActive
       PROVE  YieldEntries'
  BY <1>5, <1>6, <1>10 DEF YieldEntries
<1>11. CASE YieldSelf
  <2>1. /\ UNCHANGED <<due, timeouts>> /\ ~asked[c] /\ ~answered[c]
        /\ needActive' = needActive \/ needActive' = Append(needActive, c)
        /\ Move(current, {"ACTIVE", "AVAIL"}, "INACTIVE") /\ context' = [context EXCEPT ![current] = "yield"]
    BY <1>2, <1>11 DEF YieldSelf, MayDo, MoveToInactive, Suspend
  <2>2. /\ status'[c] = "INACTIVE" /\ \A d \in Ids \ {c} : status'[d] = status[d]
    BY <1>3, <2>1 DEF Status
  <2>3. /\ context'[c] = "yield" /\ \A d \in Ids \ {c} : context'[d] = context[d]
    BY <1>4, <2>1
  <2>4. YieldEntries'
    <3>1. needActive \in Seq(Ids) /\ c \notin ToSet(needActive) /\ IsInjective(needActive)
      BY <1>5, <1>6, EntryTypes DEF Types, YieldEntries
    <3>2. /\ ToSet(Append(needActive, c)) = ToSet(needActive) \cup {c}
          /\ IsInjective(Append(needActive, c))
      BY <3>1, AppendFacts
    <3>3. IsInjective(needActive') /\ ToSet(needActive') \subseteq ToSet(needActive) \cup {c}
      BY <2>1, <3>1, <3>2
    <3> QED BY <1>5, <1>6, <2>2, <2>3, <3>3 DEF YieldEntries
  <2> QED BY <1>7, <1>8, <1>9, <2>1, <2>2, <2>3, <2>4
<1>12. CASE Await
  <2>1. /\ UNCHANGED <<due, timeouts, needActive>>
        /\ Move(current, {"ACTIVE", "AVAIL"}, "INACTIVE") /\ context' = [context EXCEPT ![current] = "await"]
    BY <1>12 DEF Await, MoveToInactive, Suspend, queues
  <2>2. /\ status'[c] = "INACTIVE" /\ \A d \in Ids \ {c} : status'[d] = status[d]
    BY <1>3, <2>1 DEF Status
  <2>3. /\ context'[c] = "await" /\ \A d \in Ids \ {c} : context'[d] = context[d]
    BY <1>4, <2>1
  <2> QED BY <1>7, <1>8, <1>9, <1>10, <2>1, <2>2, <2>3
<1>13. ASSUME NEW ms \in 0 .. 1, Sleep(ms)
       PROVE  (TimeoutEntries /\ YieldEntries /\ AnswerEntries /\ Runnable)'
  <2>1. PICK t \in 0 .. MaxTime : t = now + ms
    <3>1. now \in 0 .. MaxTime /\ MaxTime \in Nat
      BY EntryTypes, CoroutineAssumption DEF Types
    <3>2. now + ms <= MaxTime
      BY <1>13 DEF Sleep
    <3>3. now + ms \in 0 .. MaxTime
      BY <3>1, <3>2
    <3> QED BY <3>3
  <2>2. /\ UNCHANGED needActive /\ ~asked[c] /\ ~answered[c]
        /\ due' = [due EXCEPT ![c] = t] /\ timeouts' = InsertTimeout(t, c)
        /\ Move(current, {"ACTIVE", "AVAIL"}, "TIMEOUT") /\ context' = [context EXCEPT ![current] = "sleep"]
    BY <1>2, <1>13, <2>1 DEF Sleep, MayDo, MoveToTimeout, Suspend
  <2>3. /\ status'[c] = "TIMEOUT" /\ \A d \in Ids \ {c} : status'[d] = status[d]
    BY <1>3, <2>2 DEF Status
  <2>4. /\ context'[c] = "sleep" /\ \A d \in Ids \ {c} : context'[d] = context[d]
    BY <1>4, <2>2
  <2>5. /\ due'[c] = t /\ \A d \in Ids \ {c} : due'[d] = due[d]
    BY <2>2, EntryTypes DEF Types
  <2>6. TimeoutEntries'
    <3>1. <<t, c>>[1] = t /\ <<t, c>>[2] = c
      OBVIOUS
    <3>2. <<t, c>> \notin ToSet(timeouts)
      BY <1>6, <3>1
    <3>3. ToSet(timeouts') = ToSet(timeouts) \cup {<<t, c>>} /\ IsInjective(timeouts')
      BY <1>5, <2>2, <3>2, EntryTypes, InsertTimeoutFacts DEF TimeoutEntries
    <3>4. \A e \in ToSet(timeouts) : status'[e[2]] = "TIMEOUT" /\ context'[e[2]] = "sleep" /\ due'[e[2]] = e[1]
      BY <1>5, <1>6, <2>3, <2>4, <2>5 DEF TimeoutEntries
    <3>5. ASSUME NEW e \in ToSet(timeouts')
          PROVE  status'[e[2]] = "TIMEOUT" /\ context'[e[2]] = "sleep" /\ due'[e[2]] = e[1]
      BY <2>3, <2>4, <2>5, <3>1, <3>3, <3>4
    <3> QED BY <3>3, <3>5 DEF TimeoutEntries
  <2> QED BY <1>7, <1>8, <1>10, <2>2, <2>3, <2>4, <2>5, <2>6
<1>14. CASE Finish
  <2>1. /\ UNCHANGED <<due, timeouts, needActive>> /\ ~asked[c] /\ ~answered[c]
        /\ Move(current, Status \ {"FREE"}, "FREE") /\ context' = [context EXCEPT ![current] = "none"]
    BY <1>2, <1>14 DEF Finish, MayDo, MoveToFreeList, Suspend, queues
  <2>2. /\ status'[c] = "FREE" /\ \A d \in Ids \ {c} : status'[d] = status[d]
    BY <1>3, <2>1 DEF Status
  <2>3. /\ \A d \in Ids \ {c} : context'[d] = context[d]
    BY <1>4, <2>1
  <2> QED BY <1>7, <1>8, <1>9, <1>10, <2>1, <2>2, <2>3
<1> QED BY <1>11, <1>12, <1>13, <1>14 DEF GiveUp

(* createCoroutine() takes a coroutine no entry names.                     *)
LEMMA CreateEntries ==
  ASSUME EntriesMatch, CoroInv, CoroInv', CreateCoroutine PROVE EntriesMatch'
<1>1. UNCHANGED <<current, disciplined, timeouts, needActive, activeQueue, coroIds, due, asked, answered, now>>
  BY DEF CreateCoroutine, pool, choice, queues, env
<1>2. CASE UNCHANGED <<status, context>>
  <2>1. now' >= now
    BY <1>1, EntryTypes DEF Types
  <2> QED BY <1>1, <1>2, <2>1, QuietEntries
<1>3. ASSUME NEW h \in Ids, status[h] = "FREE", \A d \in Ids \ {h} : status'[d] = status[d],
             context' = [context EXCEPT ![h] = "none"]
      PROVE  EntriesMatch'
  <2> SUFFICES ASSUME disciplined PROVE (TimeoutEntries /\ YieldEntries /\ AnswerEntries /\ Runnable)'
    BY <1>1 DEF EntriesMatch
  <2>1. TimeoutEntries /\ YieldEntries /\ AnswerEntries /\ Runnable
    BY DEF EntriesMatch
  <2>2. context'[h] = "none" /\ \A d \in Ids \ {h} : context'[d] = context[d]
    BY <1>3, EntryTypes DEF Types
  <2>3. /\ \A e \in ToSet(timeouts) : e[2] \in Ids \ {h}
        /\ \A d \in ToSet(needActive) : d \in Ids \ {h}
    BY <1>3, <2>1, EntryTypes DEF TimeoutEntries, YieldEntries
  <2>4. TimeoutEntries' /\ YieldEntries'
    BY <1>1, <1>3, <2>1, <2>2, <2>3 DEF TimeoutEntries, YieldEntries
  <2>5. \A d \in Ids : Waits(d) => Waits(d)'
    BY <1>1, <1>3, <2>2, EntryTypes DEF Waits
  <2>6. AnswerEntries'
    BY <1>1, <2>1, <2>5, EntryTypes DEF AnswerEntries
  <2>7. Runnable'
    BY <1>1, <1>3, <2>1, <2>2 DEF Runnable
  <2> QED BY <2>4, <2>6, <2>7
<1> QED BY <1>2, <1>3, CreateStep DEF Occupies

(* Every step keeps the entries right, and resumes only what is due.       *)
LEMMA EntriesStep ==
  ASSUME EntriesMatch, CoroInv, CoroInv', [Next]_vars PROVE EntriesMatch' /\ (WakesWhenDue \/ UNCHANGED vars)
<1>1. CASE \/ Start \/ Loop \/ LockAndTest \/ TimedWait \/ WaitTimeout \/ ActiveDone \/ AvailDone
           \/ Terminate \/ Tick \/ Ended \/ UNCHANGED vars \/ \E c \in Ids \cup {0} : NotifyAll(c)
  <2>1. UNCHANGED <<disciplined, status, current, timeouts, needActive, activeQueue, coroIds, context,
                    due, asked, answered>>
    BY <1>1 DEF Start, Loop, LockAndTest, TimedWait, WaitTimeout, ActiveDone, AvailDone, Terminate, Tick,
                Ended, NotifyAll, vars, pool, choice, queues, coros
  <2>2. now' = now \/ now' = now + 1
    BY <1>1 DEF Start, Loop, LockAndTest, TimedWait, WaitTimeout, ActiveDone, AvailDone, Terminate, Tick,
                Ended, NotifyAll, vars, env
  <2>3. now' >= now
    BY <2>2, EntryTypes DEF Types
  <2> QED BY <2>1, <2>3, QuietEntries DEF WakesWhenDue
<1>2. CASE Resume
  BY <1>2, ResumeEntries
<1>3. CASE WakeupByTimeout \/ WakeupBySelf \/ WakeupSwap \/ Wakeup
  <2>1. EntriesMatch'
    BY <1>3, TimeoutWakes, SelfWakes, PutWakes
  <2>2. current' = 0
    BY <1>3 DEF WakeupByTimeout, WakeupBySelf, WakeupSwap, Wakeup, Main
  <2> QED BY <2>1, <2>2 DEF WakesWhenDue
<1>4. CASE CreateCoroutine \/ Ask \/ \E c \in Ids : Put(c)
  <2>1. EntriesMatch'
    BY <1>4, CreateEntries, AskEntries, PutEntries
  <2>2. current' = current
    BY <1>4 DEF CreateCoroutine, Ask, Put
  <2> QED BY <2>1, <2>2 DEF WakesWhenDue
<1>5. CASE GiveUp
  <2>1. EntriesMatch'
    BY <1>5, GiveUpEntries
  <2>2. current' = 0
    BY <1>5 DEF GiveUp, YieldSelf, Await, Sleep, Finish, Suspend
  <2> QED BY <2>1, <2>2 DEF WakesWhenDue
<1> QED BY <1>1, <1>2, <1>3, <1>4, <1>5 DEF Next, MainStep

(* A new scheduler has no entries.                                         *)
LEMMA EntriesInit == Init => EntriesMatch
<1> SUFFICES ASSUME Init PROVE TimeoutEntries /\ YieldEntries /\ AnswerEntries /\ Runnable
  BY DEF EntriesMatch
<1>1. /\ status = [c \in Ids |-> "FREE"] /\ asked = [c \in Ids |-> FALSE]
      /\ timeouts = << >> /\ needActive = << >> /\ activeQueue = << >> /\ coroIds = << >>
  BY DEF Init
<1>2. /\ ToSet(timeouts) = {} /\ ToSet(needActive) = {} /\ ToSet(activeQueue) = {} /\ ToSet(coroIds) = {}
      /\ IsInjective(timeouts) /\ IsInjective(needActive) /\ IsInjective(activeQueue) /\ IsInjective(coroIds)
  BY <1>1 DEF ToSet, IsInjective
<1> QED BY <1>1, <1>2 DEF TimeoutEntries, YieldEntries, AnswerEntries, Runnable

(* As long as callbacks that have asked for a result only wait for it, a   *)
(* coroutine returns from sleep() when its time has come and from          *)
(* yield(false) when its result was put(), for every size of the pool:     *)
(* although ids are used again and entries carry no generation, none is    *)
(* left over to wake the next user of an id.                               *)
THEOREM WokenOnlyWhenDue == Spec => ResumedWhenDue
<1>1. CoroInv /\ EntriesMatch /\ [Next]_vars => (CoroInv /\ EntriesMatch)' /\ [WakesWhenDue]_vars
  BY CoroInvStep, EntriesStep
<1> QED BY <1>1, CoroInvInit, EntriesInit, PTL DEF Spec, ResumedWhenDue

============================================================================
