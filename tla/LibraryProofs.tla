--------------------------- MODULE LibraryProofs ---------------------------
(***************************************************************************)
(* Proofs about the parts the client, the server and the node are made of, *)
(* each for every number of threads, adapters, descriptors and numbers:    *)
(* the heartbeat, the thread data and its numbers, the singleton, the      *)
(* children of the NodeServer, the thread queue, the output buffer of the  *)
(* streams, the timeout queue, the buffer of a connection and the lists of *)
(* coroutines.                                                             *)
(***************************************************************************)
EXTENDS HeartBeat, ThreadData, Singleton, CommandStart, ThreadQueue, BufferWriter, TimeoutQueue,
        ByteBuffer, CoroutineList, SequenceFacts

-----------------------------------------------------------------------------
(***************************************************************************)
(* The heartbeat.                                                          *)
(***************************************************************************)
BeatTypes ==
    /\ adapterSet \subseteq Adapter
    /\ doingBeat \in [Beater -> {"idle", "set", "keepAlive", "send"}]
    /\ batch \in [Beater -> SUBSET Adapter] /\ owed \subseteq Adapter

(* Only a handle that sends has a batch, so a batch that is taken replaces *)
(* none; and without a node nothing is ever owed.                          *)
OnlySenderHasBatch == \A h \in Beater : doingBeat[h] # "send" => batch[h] = {}
OwedToNode == nodePrx # "proxy" => owed = {}

BeatInv == BeatTypes /\ HeartBeatKept /\ OnlySenderHasBatch /\ OwedToNode

(* Every step of a handle and of the clock keeps the invariant.            *)
LEMMA BeatInvStep == BeatInv /\ [BeatNext]_beatVars => BeatInv'
<1> SUFFICES ASSUME BeatInv, [BeatNext]_beatVars PROVE BeatInv'
  OBVIOUS
<1> USE BeatAssumption DEF BeatInv, BeatTypes, OnlySenderHasBatch, OwedToNode, BeatAt, BeatGoto
<1>1. CASE TimePassesOrIsSet
  BY <1>1 DEF TimePassesOrIsSet, HeartBeatKept
<1>2. ASSUME NEW h \in Beater, TestHeartBeat(h) PROVE BeatInv'
  <2>1. /\ doingBeat' = [doingBeat EXCEPT ![h] = "set"] /\ doingBeat[h] = "idle"
        /\ owed' = IF nodePrx = "proxy" THEN owed \cup {AdapterOf[h]} ELSE owed
        /\ UNCHANGED <<adapterSet, nodePrx, batch>>
    BY <1>2 DEF TestHeartBeat
  <2>2. HeartBeatKept'
    BY <2>1 DEF HeartBeatKept
  <2> QED BY <2>1, <2>2
<1>3. ASSUME NEW h \in Beater, SetHeartBeatTime(h) PROVE BeatInv'
  <2>1. /\ doingBeat' = [doingBeat EXCEPT ![h] = "keepAlive"] /\ doingBeat[h] = "set"
        /\ UNCHANGED <<adapterSet, nodePrx, batch, owed>>
    BY <1>3 DEF SetHeartBeatTime
  <2>2. HeartBeatKept'
    BY <2>1 DEF HeartBeatKept
  <2> QED BY <2>1, <2>2
<1>4. ASSUME NEW h \in Beater, KeepAlive(h) PROVE BeatInv'
  <2>1. doingBeat[h] = "keepAlive" /\ UNCHANGED <<nodePrx, owed>>
    BY <1>4 DEF KeepAlive
  <2>2. CASE AdapterOf[h] # AdminAdapter
    <3>1. /\ adapterSet' = adapterSet \cup {AdapterOf[h]} /\ UNCHANGED batch
          /\ doingBeat' = [doingBeat EXCEPT ![h] = "idle"]
      BY <1>4, <2>2 DEF KeepAlive
    <3>2. HeartBeatKept'
      BY <2>1, <3>1 DEF HeartBeatKept
    <3> QED BY <2>1, <3>1, <3>2
  <2>3. CASE AdapterOf[h] = AdminAdapter
    <3>1. /\ adapterSet' = {} /\ batch' = [batch EXCEPT ![h] = adapterSet \cup {AdapterOf[h]}]
          /\ doingBeat' = [doingBeat EXCEPT ![h] = "send"]
      BY <1>4, <2>3 DEF KeepAlive
    <3>2. batch[h] = {}
      BY <2>1
    <3>3. HeartBeatKept'
      BY <2>1, <3>1, <3>2 DEF HeartBeatKept
    <3> QED BY <2>1, <3>1, <3>3
  <2> QED BY <2>2, <2>3
<1>5. ASSUME NEW h \in Beater, KeepAliveAlone(h) PROVE BeatInv'
  BY <1>5 DEF KeepAliveAlone, HeartBeatKept
<1>6. ASSUME NEW h \in Beater, KeepAliveJunk(h) PROVE BeatInv'
  BY <1>6 DEF KeepAliveJunk, HeartBeatKept
<1>7. ASSUME NEW h \in Beater, SendKeepAlive(h) PROVE BeatInv'
  <2>1. PICK a \in batch[h] :
          /\ batch' = [batch EXCEPT ![h] = @ \ {a}] /\ owed' = owed \ {a}
          /\ doingBeat' = [doingBeat EXCEPT ![h] = IF batch[h] = {a} THEN "idle" ELSE "send"]
    BY <1>7 DEF SendKeepAlive
  <2>2. doingBeat[h] = "send" /\ UNCHANGED <<adapterSet, nodePrx>>
    BY <1>7 DEF SendKeepAlive
  <2>3. /\ batch'[h] = batch[h] \ {a}
        /\ \A g \in Beater : g # h => batch'[g] = batch[g] /\ doingBeat'[g] = doingBeat[g]
    BY <2>1
  <2>4. HeartBeatKept'
    BY <2>1, <2>2, <2>3 DEF HeartBeatKept
  <2>5. OnlySenderHasBatch'
    BY <2>1, <2>2, <2>3
  <2>6. batch' \in [Beater -> SUBSET Adapter]
        /\ doingBeat' \in [Beater -> {"idle", "set", "keepAlive", "send"}]
    BY <2>1
  <2> QED BY <2>1, <2>2, <2>4, <2>5, <2>6
<1>8. CASE UNCHANGED beatVars
  BY <1>8 DEF beatVars, HeartBeatKept
<1> QED BY <1>1, <1>2, <1>3, <1>4, <1>5, <1>6, <1>7, <1>8 DEF BeatNext

(* A heartbeat that was due is noted, being sent or on its way until the   *)
(* node has been told, however the handles of the adapters and of the      *)
(* AdminAdapter interleave and whatever the clock does.                    *)
THEOREM HeartBeatsReachTheNode == BeatSpec => []HeartBeatKept
<1>1. BeatInit => BeatInv
  BY BeatAssumption DEF BeatInit, BeatInv, BeatTypes, HeartBeatKept, OnlySenderHasBatch, OwedToNode
<1>2. BeatInv => HeartBeatKept
  BY DEF BeatInv
<1> QED BY <1>1, <1>2, BeatInvStep, PTL DEF BeatSpec

-----------------------------------------------------------------------------
(***************************************************************************)
(* The data of the calling threads.                                        *)
(***************************************************************************)
ThreadTypes ==
    /\ key \in Keys /\ nextKey \in Keys
    /\ specific \in [Caller -> [Keys -> Seqs \cup {NoData}]]
    /\ doing \in [Caller -> {"idle", "create", "find", "make", "select"}]
    /\ pSptd \in [Caller -> (Seqs \cup {NoData}) \X Keys]
    /\ used \in [Caller -> (Seqs \cup {NoData}) \X Keys]

(* The data a thread has used under a key other than 0 is still there, and *)
(* so is the key.                                                          *)
UsedIsStored ==
    \A t \in Caller : used[t][2] # 0 =>
        /\ used[t][2] = key /\ used[t][1] # NoData
        /\ specific[t][key] = used[t][1]
        /\ doing[t] # "make"
        /\ doing[t] = "select" => pSptd[t] = used[t]

(* What a thread has found or made is what is stored under that key.       *)
SelectedIsStored ==
    \A t \in Caller : doing[t] = "select" =>
        /\ pSptd[t][1] # NoData /\ specific[t][pSptd[t][2]] = pSptd[t][1]
        /\ pSptd[t][2] # 0 => pSptd[t][2] = key

ThreadInv == ThreadTypes /\ UsedIsStored /\ SelectedIsStored

(* Every step of a call keeps it.                                          *)
LEMMA ThreadInvStep == ThreadInv /\ [ThreadNext]_threadVars => ThreadInv'
<1> SUFFICES ASSUME ThreadInv, [ThreadNext]_threadVars PROVE ThreadInv'
  OBVIOUS
<1> USE ThreadDataAssumption, SeqAssumption DEF Do, Keys
<1>1. ASSUME NEW t \in Caller, TestKey(t) PROVE ThreadInv'
  <2>1. /\ \E p \in {"create", "find"} : doing' = [doing EXCEPT ![t] = p]
        /\ UNCHANGED <<key, nextKey, specific, pSptd, used>>
    BY <1>1 DEF TestKey
  <2>2. doing' \in [Caller -> {"idle", "create", "find", "make", "select"}]
        /\ \A u \in Caller : doing'[u] \in {"make", "select"} => doing'[u] = doing[u]
    BY <2>1 DEF ThreadInv, ThreadTypes
  <2> QED BY <2>1, <2>2 DEF ThreadInv, ThreadTypes, UsedIsStored, SelectedIsStored
<1>2. ASSUME NEW t \in Caller, CreateKey(t) PROVE ThreadInv'
  <2>1. /\ doing' = [doing EXCEPT ![t] = "find"] /\ UNCHANGED <<specific, pSptd, used>>
        /\ (key = 0 /\ nextKey < MaxKeys /\ key' = nextKey /\ nextKey' = nextKey + 1)
             \/ UNCHANGED <<key, nextKey>>
    BY <1>2 DEF CreateKey
  <2>2. ThreadTypes'
    BY <2>1 DEF ThreadInv, ThreadTypes
  <2>3. \A u \in Caller : doing'[u] \in {"make", "select"} => doing'[u] = doing[u]
    BY <2>1 DEF ThreadInv, ThreadTypes
  <2>4. UsedIsStored' /\ SelectedIsStored'
    BY <2>1, <2>3 DEF ThreadInv, ThreadTypes, UsedIsStored, SelectedIsStored
  <2> QED BY <2>2, <2>4 DEF ThreadInv
<1>3. ASSUME NEW t \in Caller, FindData(t) PROVE ThreadInv'
  <2>1. /\ pSptd' = [pSptd EXCEPT ![t] = <<specific[t][key], key>>]
        /\ doing' = [doing EXCEPT ![t] = IF specific[t][key] = NoData THEN "make" ELSE "select"]
        /\ UNCHANGED <<key, nextKey, specific, used>>
    BY <1>3 DEF FindData
  <2>2. specific[t][key] \in Seqs \cup {NoData} /\ key \in Keys
    BY DEF ThreadInv, ThreadTypes
  <2>3. ThreadTypes'
    BY <2>1, <2>2 DEF ThreadInv, ThreadTypes
  <2>4. /\ pSptd'[t] = <<specific[t][key], key>>
        /\ doing'[t] = IF specific[t][key] = NoData THEN "make" ELSE "select"
        /\ \A u \in Caller : u # t => pSptd'[u] = pSptd[u] /\ doing'[u] = doing[u]
    BY <2>1 DEF ThreadInv, ThreadTypes
  <2>5. used[t][2] # 0 => used[t] = <<specific[t][key], key>>
    BY DEF ThreadInv, ThreadTypes, UsedIsStored
  <2>6. UsedIsStored'
    BY <2>1, <2>4, <2>5 DEF ThreadInv, UsedIsStored
  <2>7. SelectedIsStored'
    BY <2>1, <2>2, <2>4 DEF ThreadInv, SelectedIsStored
  <2> QED BY <2>3, <2>6, <2>7 DEF ThreadInv
<1>4. ASSUME NEW t \in Caller, MakeData(t) PROVE ThreadInv'
  <2>1. PICK n \in Seqs : /\ specific' = [specific EXCEPT ![t][key] = n]
                          /\ pSptd' = [pSptd EXCEPT ![t] = <<n, key>>]
    BY <1>4 DEF MakeData
  <2>2. doing[t] = "make" /\ doing' = [doing EXCEPT ![t] = "select"]
        /\ UNCHANGED <<key, nextKey, used>>
    BY <1>4 DEF MakeData
  <2>3. ThreadTypes'
    BY <2>1, <2>2 DEF ThreadInv, ThreadTypes
  <2>4. /\ pSptd'[t] = <<n, key>> /\ doing'[t] = "select" /\ specific'[t][key] = n
        /\ \A u \in Caller : u # t => /\ pSptd'[u] = pSptd[u] /\ doing'[u] = doing[u]
                                      /\ specific'[u] = specific[u]
    BY <2>1, <2>2 DEF ThreadInv, ThreadTypes
  <2>5. UsedIsStored'
    BY <2>2, <2>4 DEF ThreadInv, UsedIsStored
  <2>6. n # NoData
    OBVIOUS
  <2>7. SelectedIsStored'
    BY <2>2, <2>4, <2>6 DEF ThreadInv, SelectedIsStored
  <2> QED BY <2>3, <2>5, <2>7 DEF ThreadInv
<1>5. ASSUME NEW t \in Caller, MakeDataFails(t) PROVE ThreadInv'
  BY <1>5 DEF MakeDataFails, ThreadInv, ThreadTypes, UsedIsStored, SelectedIsStored
<1>6. ASSUME NEW t \in Caller, SelectNetThreadInfo(t) PROVE ThreadInv'
  <2>1. /\ doing[t] = "select" /\ doing' = [doing EXCEPT ![t] = "idle"]
        /\ used' = [used EXCEPT ![t] = pSptd[t]] /\ UNCHANGED <<key, nextKey, specific, pSptd>>
    BY <1>6 DEF SelectNetThreadInfo
  <2>2. ThreadTypes'
    BY <2>1 DEF ThreadInv, ThreadTypes
  <2>3. /\ used'[t] = pSptd[t] /\ doing'[t] = "idle"
        /\ \A u \in Caller : u # t => used'[u] = used[u] /\ doing'[u] = doing[u]
    BY <2>1 DEF ThreadInv, ThreadTypes
  <2>4. UsedIsStored' /\ SelectedIsStored'
    BY <2>1, <2>3 DEF ThreadInv, UsedIsStored, SelectedIsStored
  <2> QED BY <2>2, <2>4 DEF ThreadInv
<1>7. ASSUME NEW t \in Caller, ThreadEnds(t) PROVE ThreadInv'
  <2>1. /\ doing[t] = "idle" /\ doing' = [doing EXCEPT ![t] = "idle"]
        /\ specific' = [specific EXCEPT ![t] = [k \in Keys |-> NoData]]
        /\ pSptd' = [pSptd EXCEPT ![t] = <<NoData, 0>>]
        /\ used' = [used EXCEPT ![t] = <<NoData, 0>>] /\ UNCHANGED <<key, nextKey>>
    BY <1>7 DEF ThreadEnds
  <2>2. ThreadTypes'
    BY <2>1 DEF ThreadInv, ThreadTypes
  <2>3. /\ used'[t] = <<NoData, 0>> /\ doing'[t] = "idle"
        /\ \A u \in Caller : u # t => /\ used'[u] = used[u] /\ doing'[u] = doing[u]
                                      /\ specific'[u] = specific[u] /\ pSptd'[u] = pSptd[u]
    BY <2>1 DEF ThreadInv, ThreadTypes
  <2>4. UsedIsStored' /\ SelectedIsStored'
    BY <2>1, <2>3 DEF ThreadInv, UsedIsStored, SelectedIsStored
  <2> QED BY <2>2, <2>4 DEF ThreadInv
<1>8. CASE UNCHANGED threadVars
  BY <1>8 DEF threadVars, ThreadInv, ThreadTypes, UsedIsStored, SelectedIsStored
<1> QED BY <1>1, <1>2, <1>3, <1>4, <1>5, <1>6, <1>7, <1>8 DEF ThreadNext

(* The data of a thread is what its earlier calls used, unless it was      *)
(* stored under key 0: threads whose first calls overlap create one key.   *)
THEOREM ThreadKeepsItsNumber == ThreadSpec => NumberKept
<1>1. ThreadInit => ThreadInv
  BY ThreadDataAssumption, SeqAssumption
     DEF ThreadInit, ThreadInv, ThreadTypes, UsedIsStored, SelectedIsStored, Keys
<1>2. ASSUME ThreadInv, [ThreadNext]_threadVars
      PROVE  [\A t \in Caller : used'[t] # used[t] /\ doing[t] = "select" /\ used[t][1] # NoData
                                  => used[t][2] = 0]_threadVars
  <2> SUFFICES ASSUME ThreadNext, NEW u \in Caller, used'[u] # used[u], doing[u] = "select",
                      used[u][2] # 0
               PROVE  FALSE
    BY <1>2
  <2>1. PICK t \in Caller : SelectNetThreadInfo(t) \/ ThreadEnds(t)
    BY DEF ThreadNext, TestKey, CreateKey, FindData, MakeData, MakeDataFails
  <2>2. t = u
    BY <1>2, <2>1 DEF SelectNetThreadInfo, ThreadEnds, ThreadInv, ThreadTypes
  <2>3. used'[u] = pSptd[u]
    BY <1>2, <2>1, <2>2 DEF SelectNetThreadInfo, ThreadEnds, Do, ThreadInv, ThreadTypes
  <2> QED BY <1>2, <2>3 DEF ThreadInv, UsedIsStored
<1> QED BY <1>1, <1>2, ThreadInvStep, PTL DEF ThreadSpec, NumberKept

-----------------------------------------------------------------------------
(***************************************************************************)
(* The singleton.                                                          *)
(***************************************************************************)
SingletonTypes ==
    /\ pInstance \in Nat /\ created \in Nat /\ handlers \in Nat
    /\ destroyed \in BOOLEAN /\ destroyedOnce \in BOOLEAN
    /\ policy \in {"Default", "Phoneix", "NoDestroy"}
    /\ exiting \in {"no", "destroyed", "forgotten", "exits", "aborted"}
    /\ using \in [User -> {"idle", "lock", "create", "publish", "schedule", "return"}]
    /\ instance \in [User -> Nat]

Creating(t) == using[t] \in {"create", "publish", "schedule"}

(* A thread creates an object exactly while it has the lock, and only when *)
(* there is none.                                                          *)
LockHolder ==
    /\ tl \in User \cup {Unlocked}
    /\ \A t \in User : Creating(t) <=> tl = t
    /\ \A t \in User : using[t] \in {"create", "publish"} => pInstance = 0
    /\ \A t \in User : using[t] = "schedule" => pInstance # 0

(* The object that exists is the published one, or the one being created,  *)
(* except between the two steps of its destruction.                        *)
Existing ==
    /\ exiting = "destroyed" => alive = {} /\ pInstance # 0
    /\ exiting # "destroyed" =>
         /\ pInstance # 0 => alive = {pInstance}
         /\ (\E t \in User : using[t] = "publish") => alive = {created} /\ created > 0
         /\ pInstance = 0 /\ ~(\E t \in User : using[t] = "publish") => alive = {}

(* exit() destroys one object at most: the destructor that is registered   *)
(* for a later one finds _destroyed set.                                   *)
Exiting ==
    /\ exiting \in {"no", "destroyed", "forgotten"} => ~destroyed
    /\ exiting \in {"no", "forgotten", "exits"} /\ handlers > 0 =>
         pInstance # 0 /\ tl = Unlocked
    /\ exiting = "destroyed" => tl = Unlocked
    /\ exiting \in {"no", "forgotten", "exits"} => handlers <= 1
    /\ exiting = "destroyed" => handlers = 0
    /\ exiting = "exits" /\ ~destroyed =>
         /\ handlers = 0 /\ policy # "Default"
         /\ policy = "Phoneix" => destroyedOnce

Returned == exiting = "no" => \A t \in User : instance[t] # 0 => instance[t] = pInstance

SingletonInv == SingletonTypes /\ LockHolder /\ Existing /\ Exiting /\ Returned

(* Every step of a thread in getInstance and of exit() keeps the invariant: *)
(* the second test makes the creator the only one, and exit() starts only  *)
(* when an object was published and nobody creates another.                *)
LEMMA SingletonInvStep == SingletonInv /\ [SingletonNext]_singletonVars => SingletonInv'
<1> SUFFICES ASSUME SingletonInv, [SingletonNext]_singletonVars PROVE SingletonInv'
  OBVIOUS
<1>t. SingletonTypes /\ LockHolder /\ Existing /\ Exiting /\ Returned
  BY DEF SingletonInv
<1>f. ASSUME NEW t \in User, NEW goal, Step(t, goal)
      PROVE  using'[t] = goal /\ \A u \in User \ {t} : using'[u] = using[u]
  BY <1>f, <1>t DEF Step, SingletonTypes
<1>1. ASSUME NEW t \in User, GetInstance(t) PROVE SingletonInv'
  <2>1. UNCHANGED <<pInstance, destroyed, tl, policy, destroyedOnce, handlers, exiting,
                    instance, alive, created>> /\ using[t] = "idle"
    BY <1>1 DEF GetInstance, Using
  <2>2. PICK goal \in {"return", "lock"} : Step(t, goal)
    BY <1>1 DEF GetInstance
  <2>3. using'[t] = goal /\ \A u \in User \ {t} : using'[u] = using[u]
    BY <1>f, <2>2
  <2>4. SingletonTypes'
    BY <1>t, <2>1, <2>2 DEF SingletonTypes, Step
  <2>5. LockHolder'
    BY <1>t, <2>1, <2>3 DEF LockHolder, Creating
  <2>6. Existing'
    BY <1>t, <2>1, <2>3 DEF Existing
  <2> QED BY <1>t, <2>1, <2>4, <2>5, <2>6 DEF SingletonInv, Exiting, Returned
<1>2. ASSUME NEW t \in User, LockAndTest(t) PROVE SingletonInv'
  <2>1. /\ UNCHANGED <<pInstance, destroyed, policy, destroyedOnce, handlers, exiting,
                       instance, alive, created>>
        /\ using[t] = "lock" /\ tl = Unlocked /\ exiting # "aborted"
    BY <1>2 DEF LockAndTest, Using
  <2>2. CASE pInstance # 0
    <3>1. Step(t, "return") /\ tl' = tl
      BY <1>2, <2>2 DEF LockAndTest
    <3>2. using'[t] = "return" /\ \A u \in User \ {t} : using'[u] = using[u]
      BY <1>f, <3>1
    <3>3. SingletonTypes'
      BY <1>t, <2>1, <3>1 DEF SingletonTypes, Step
    <3>4. LockHolder'
      BY <1>t, <2>1, <3>1, <3>2 DEF LockHolder, Creating
    <3>5. Existing'
      BY <1>t, <2>1, <3>2 DEF Existing
    <3> QED BY <1>t, <2>1, <3>1, <3>3, <3>4, <3>5 DEF SingletonInv, Exiting, Returned
  <2>3. CASE pInstance = 0
    <3>1. Step(t, "create") /\ tl' = t
      BY <1>2, <2>3 DEF LockAndTest
    <3>2. using'[t] = "create" /\ \A u \in User \ {t} : using'[u] = using[u]
      BY <1>f, <3>1
    <3>3. SingletonTypes'
      BY <1>t, <2>1, <3>1 DEF SingletonTypes, Step
    <3>4. LockHolder'
      BY <1>t, <2>1, <2>3, <3>1, <3>2, SingletonAssumption DEF LockHolder, Creating
    <3>5. Existing'
      BY <1>t, <2>1, <3>2 DEF Existing
    <3>6. Exiting'
      BY <1>t, <2>1, <2>3, <3>1 DEF Exiting, Existing, SingletonTypes
    <3> QED BY <1>t, <2>1, <3>3, <3>4, <3>5, <3>6 DEF SingletonInv, Returned
  <2> QED BY <2>2, <2>3
<1>3. ASSUME NEW t \in User, DeadReference(t) PROVE SingletonInv'
  <2>1. /\ UNCHANGED <<pInstance, policy, handlers, exiting, instance, alive, created>>
        /\ using[t] = "create" /\ destroyed /\ exiting # "aborted" /\ tl = t
    BY <1>3, <1>t DEF DeadReference, Using, LockHolder, Creating
  <2>e. exiting = "exits" /\ handlers = 0 /\ pInstance = 0
    BY <1>t, <2>1, SingletonAssumption DEF Exiting, SingletonTypes, LockHolder
  <2>2. CASE policy = "Default"
    <3>1. Step(t, "idle") /\ tl' = Unlocked /\ UNCHANGED <<destroyed, destroyedOnce>>
      BY <1>3, <2>2 DEF DeadReference
    <3>2. using'[t] = "idle" /\ \A u \in User \ {t} : using'[u] = using[u]
      BY <1>f, <3>1
    <3>3. SingletonTypes'
      BY <1>t, <2>1, <3>1 DEF SingletonTypes, Step
    <3>4. LockHolder'
      BY <1>t, <2>1, <3>1, <3>2, SingletonAssumption DEF LockHolder, Creating
    <3>5. Existing'
      BY <1>t, <2>1, <3>2 DEF Existing
    <3>6. Exiting'
      BY <1>t, <2>1, <2>e, <3>1 DEF Exiting
    <3> QED BY <1>t, <2>1, <3>3, <3>4, <3>5, <3>6 DEF SingletonInv, Returned
  <2>3. CASE policy # "Default"
    <3>1. /\ destroyedOnce' = (policy = "Phoneix" \/ destroyedOnce)
          /\ destroyed' = FALSE /\ UNCHANGED <<using, tl>>
      BY <1>3, <2>3 DEF DeadReference
    <3>2. SingletonTypes'
      BY <1>t, <2>1, <3>1 DEF SingletonTypes
    <3>3. LockHolder' /\ Existing' /\ Returned'
      BY <1>t, <2>1, <3>1 DEF LockHolder, Creating, Existing, Returned
    <3>4. Exiting'
      BY <1>t, <2>1, <2>3, <2>e, <3>1 DEF Exiting
    <3> QED BY <3>2, <3>3, <3>4 DEF SingletonInv
  <2> QED BY <2>2, <2>3
<1>4. ASSUME NEW t \in User, CreateInstance(t) PROVE SingletonInv'
  <2>1. /\ UNCHANGED <<pInstance, destroyed, tl, policy, destroyedOnce, handlers, exiting, instance>>
        /\ using[t] = "create" /\ ~destroyed /\ created' = created + 1
        /\ alive' = alive \cup {created + 1} /\ Step(t, "publish")
    BY <1>4 DEF CreateInstance, Using
  <2>2. using'[t] = "publish" /\ \A u \in User \ {t} : using'[u] = using[u]
    BY <1>f, <2>1
  <2>3. tl = t /\ pInstance = 0 /\ \A u \in User : using[u] # "publish"
    BY <1>t, <2>1 DEF LockHolder, Creating
  <2>4. exiting # "destroyed" /\ alive = {} /\ created \in Nat
    BY <1>t, <2>3 DEF Existing, SingletonTypes
  <2>5. SingletonTypes'
    BY <1>t, <2>1 DEF SingletonTypes, Step
  <2>6. LockHolder'
    BY <1>t, <2>1, <2>2 DEF LockHolder, Creating
  <2>7. Existing'
    <3>1. alive' = {created'} /\ created' > 0
      BY <2>1, <2>4
    <3> QED BY <2>1, <2>2, <2>3, <2>4, <3>1 DEF Existing
  <2> QED BY <1>t, <2>1, <2>5, <2>6, <2>7 DEF SingletonInv, Exiting, Returned
<1>5. ASSUME NEW t \in User, Publish(t) PROVE SingletonInv'
  <2>1. /\ UNCHANGED <<destroyed, tl, policy, destroyedOnce, handlers, exiting, instance,
                       alive, created>>
        /\ using[t] = "publish" /\ pInstance' = created /\ Step(t, "schedule")
    BY <1>5 DEF Publish, Using
  <2>2. using'[t] = "schedule" /\ \A u \in User \ {t} : using'[u] = using[u]
    BY <1>f, <2>1
  <2>3. /\ tl = t /\ pInstance = 0
        /\ \A u \in User \ {t} : ~Creating(u)
    BY <1>t, <2>1 DEF LockHolder, Creating
  <2>4. exiting # "destroyed" /\ alive = {created} /\ created > 0 /\ created \in Nat
    BY <1>t, <2>1, <2>3 DEF Existing, SingletonTypes
  <2>5. SingletonTypes'
    BY <1>t, <2>1 DEF SingletonTypes, Step
  <2>6. LockHolder'
    BY <1>t, <2>1, <2>2, <2>3, <2>4 DEF LockHolder, Creating
  <2>7. Existing'
    BY <2>1, <2>2, <2>3, <2>4 DEF Existing, Creating
  <2>8. Exiting'
    BY <1>t, <2>1, <2>3, <2>4, SingletonAssumption DEF Exiting
  <2>9. Returned'
    BY <1>t, <2>1, <2>3 DEF Returned
  <2> QED BY <2>5, <2>6, <2>7, <2>8, <2>9 DEF SingletonInv
<1>6. ASSUME NEW t \in User, ScheduleDestruction(t) PROVE SingletonInv'
  <2>1. /\ UNCHANGED <<pInstance, destroyed, policy, destroyedOnce, exiting, instance,
                       alive, created>>
        /\ using[t] = "schedule" /\ tl' = Unlocked /\ Step(t, "return") /\ exiting # "aborted"
    BY <1>6 DEF ScheduleDestruction, Using
  <2>h. \/ handlers' = handlers
        \/ /\ handlers' = handlers + 1
           /\ policy = "Default" \/ (policy = "Phoneix" /\ ~destroyedOnce)
    BY <1>6 DEF ScheduleDestruction
  <2>2. using'[t] = "return" /\ \A u \in User \ {t} : using'[u] = using[u]
    BY <1>f, <2>1
  <2>3. tl = t /\ pInstance # 0
    BY <1>t, <2>1 DEF LockHolder, Creating
  <2>4. exiting \in {"no", "forgotten", "exits"} /\ handlers = 0
    BY <1>t, <2>1, <2>3, SingletonAssumption DEF Exiting, SingletonTypes
  <2>5. SingletonTypes'
    BY <1>t, <2>1, <2>h DEF SingletonTypes, Step
  <2>6. LockHolder'
    BY <1>t, <2>1, <2>2, <2>3, SingletonAssumption DEF LockHolder, Creating
  <2>7. Existing'
    BY <1>t, <2>1, <2>2, <2>3 DEF Existing
  <2>8. Exiting'
    BY <1>t, <2>1, <2>3, <2>4, <2>h DEF Exiting
  <2> QED BY <1>t, <2>1, <2>5, <2>6, <2>7, <2>8 DEF SingletonInv, Returned
<1>7. ASSUME NEW t \in User, ReturnInstance(t) PROVE SingletonInv'
  <2>1. /\ UNCHANGED <<pInstance, destroyed, tl, policy, destroyedOnce, handlers, exiting,
                       alive, created>>
        /\ using[t] = "return" /\ instance' = [instance EXCEPT ![t] = pInstance]
        /\ Step(t, "idle")
    BY <1>7 DEF ReturnInstance, Using
  <2>2. using'[t] = "idle" /\ \A u \in User \ {t} : using'[u] = using[u]
    BY <1>f, <2>1
  <2>3. SingletonTypes'
    BY <1>t, <2>1 DEF SingletonTypes, Step
  <2>4. LockHolder'
    BY <1>t, <2>1, <2>2 DEF LockHolder, Creating
  <2>5. Existing'
    BY <1>t, <2>1, <2>2 DEF Existing
  <2>6. Returned'
    BY <1>t, <2>1 DEF Returned, SingletonTypes
  <2> QED BY <1>t, <2>1, <2>3, <2>4, <2>5, <2>6 DEF SingletonInv, Exiting
<1>8. CASE DestroySingleton
  <2>1. /\ exiting \in {"no", "exits"} /\ handlers > 0 /\ handlers' = handlers - 1
        /\ UNCHANGED <<pInstance, destroyed, tl, policy, destroyedOnce, using, instance, created>>
    BY <1>8 DEF DestroySingleton
  <2>2. pInstance # 0 /\ tl = Unlocked /\ handlers = 1 /\ alive = {pInstance}
    BY <1>t, <2>1 DEF Exiting, Existing, SingletonTypes
  <2>3. CASE destroyed
    <3>1. exiting' = "aborted" /\ alive' = alive
      BY <1>8, <2>3 DEF DestroySingleton
    <3>2. SingletonTypes'
      BY <1>t, <2>1, <2>2, <3>1 DEF SingletonTypes
    <3>3. LockHolder' /\ Returned' /\ Exiting'
      BY <1>t, <2>1, <3>1 DEF LockHolder, Creating, Returned, Exiting
    <3>4. Existing'
      BY <1>t, <2>1, <2>2, <3>1 DEF Existing
    <3> QED BY <3>2, <3>3, <3>4 DEF SingletonInv
  <2>4. CASE ~destroyed
    <3>1. exiting' = "destroyed" /\ alive' = alive \ {pInstance}
      BY <1>8, <2>4 DEF DestroySingleton
    <3>2. SingletonTypes'
      BY <1>t, <2>1, <2>2, <3>1 DEF SingletonTypes
    <3>3. LockHolder' /\ Returned' /\ Exiting'
      BY <1>t, <2>1, <2>2, <2>4, <3>1 DEF LockHolder, Creating, Returned, Exiting
    <3>4. Existing'
      BY <2>1, <2>2, <3>1 DEF Existing
    <3> QED BY <3>2, <3>3, <3>4 DEF SingletonInv
  <2> QED BY <2>3, <2>4
<1>9. CASE ForgetInstance
  <2>1. /\ exiting = "destroyed" /\ exiting' = "forgotten" /\ pInstance' = 0
        /\ UNCHANGED <<destroyed, tl, policy, destroyedOnce, handlers, using, instance, alive, created>>
    BY <1>9 DEF ForgetInstance
  <2>2. SingletonTypes'
    BY <1>t, <2>1 DEF SingletonTypes
  <2>3. \A t \in User : ~Creating(t)
    BY <1>t, <2>1, SingletonAssumption DEF Exiting, LockHolder
  <2>4. LockHolder' /\ Existing'
    BY <1>t, <2>1, <2>3 DEF LockHolder, Creating, Existing
  <2>5. Exiting' /\ Returned'
    BY <1>t, <2>1 DEF Exiting, Returned
  <2> QED BY <2>2, <2>4, <2>5 DEF SingletonInv
<1>10. CASE MarkDestroyed
  <2>1. /\ exiting = "forgotten" /\ exiting' = "exits" /\ destroyed' = TRUE
        /\ UNCHANGED <<pInstance, tl, policy, destroyedOnce, handlers, using, instance, alive, created>>
    BY <1>10 DEF MarkDestroyed
  <2>2. SingletonTypes'
    BY <1>t, <2>1 DEF SingletonTypes
  <2>3. LockHolder' /\ Existing'
    BY <1>t, <2>1 DEF LockHolder, Creating, Existing
  <2>4. Exiting' /\ Returned'
    BY <1>t, <2>1 DEF Exiting, Returned
  <2> QED BY <2>2, <2>3, <2>4 DEF SingletonInv
<1>11. CASE UNCHANGED singletonVars
  BY <1>t, <1>11 DEF singletonVars, SingletonInv, SingletonTypes, LockHolder, Creating, Existing, Exiting, Returned
<1> QED BY <1>1, <1>2, <1>3, <1>4, <1>5, <1>6, <1>7, <1>8, <1>9, <1>10, <1>11 DEF SingletonNext

(* There are never two objects of a singleton, and until exit() every      *)
(* caller of getInstance has the one that exists, for every number of      *)
(* threads and every lifetime policy.                                      *)
THEOREM OneObjectEver == SingletonSpec => []OneInstance
<1>1. SingletonInit => SingletonInv
  <2> SUFFICES ASSUME SingletonInit PROVE SingletonInv
    OBVIOUS
  <2>1. SingletonTypes
    BY SingletonAssumption DEF SingletonInit, SingletonTypes
  <2>2. LockHolder /\ Existing
    BY SingletonAssumption DEF SingletonInit, LockHolder, Creating, Existing
  <2>3. Exiting /\ Returned
    BY DEF SingletonInit, Exiting, Returned
  <2> QED BY <2>1, <2>2, <2>3 DEF SingletonInv
<1>2. SingletonInv => OneInstance
  <2> SUFFICES ASSUME SingletonInv PROVE OneInstance
    OBVIOUS
  <2>1. alive = {} \/ \E x \in Nat : alive = {x}
    BY DEF SingletonInv, Existing, SingletonTypes
  <2>2. Cardinality(alive) <= 1
    <3>1. CASE alive = {}
      BY <3>1, FS_EmptySet
    <3>2. ASSUME NEW x \in Nat, alive = {x} PROVE Cardinality(alive) = 1
      BY <3>2, FS_Singleton
    <3> QED BY <2>1, <3>1, <3>2
  <2>3. pInstance # 0 /\ exiting # "destroyed" => pInstance \in alive
    BY DEF SingletonInv, Existing
  <2>4. exiting = "no" => \A t \in User : instance[t] # 0 => instance[t] \in alive
    BY DEF SingletonInv, Existing, Returned
  <2> QED BY <2>2, <2>3, <2>4 DEF OneInstance
<1> QED BY <1>1, <1>2, SingletonInvStep, PTL DEF SingletonSpec

-----------------------------------------------------------------------------
(***************************************************************************)
(* The children of the NodeServer.                                         *)
(***************************************************************************)
StartTypes ==
    /\ tables \in Seq([Fd -> Child \cup {NoPid, JunkPid}])
    /\ where \in [Starter -> {"idle", "new", "clear", "pipe", "store", "close", "fclose", "wait"}]
    /\ stream \in [Starter -> Fd \cup {NoFd}]
    /\ child \in [Starter -> Child \cup {NoPid, JunkPid}]
    /\ forked \in [Starter -> Child \cup {NoPid}]
    /\ open \subseteq Fd
    /\ children \in Seq({"runs", "exited", "reaped"}) /\ Len(children) <= MaxChildren
    /\ clobbered \in BOOLEAN

Streaming(t) == InCall(t) /\ where[t] # "wait"

(* Behind the first test there is a table, and behind fork a stream.       *)
TableMade ==
    \A t \in Starter : /\ where[t] \notin {"idle", "new"} => tables # << >>
                       /\ InCall(t) => stream[t] \in Fd

(* As long as no table in use was replaced, every call has a descriptor of *)
(* its own, which is open, and finds its own child behind it.              *)
OwnStream ==
    \A t \in Starter : Streaming(t) =>
        /\ stream[t] \in Fd /\ stream[t] \in open
        /\ \A u \in Starter : Streaming(u) /\ stream[u] = stream[t] => u = t

OwnChild ==
    \A t \in Starter :
        /\ InCall(t) => forked[t] \in 1 .. Len(children) /\ child[t] = forked[t]
        /\ where[t] = "close" => Entry(stream[t]) = forked[t]

StartInv == /\ StartTypes /\ TableMade
            /\ ~clobbered => OwnStream /\ OwnChild
            /\ ChildReaped

(* What the steps before fork leave alone                                  *)
StartFrame == <<stream, child, forked, open, children>>

(* Every step of a handle and of a child keeps the invariant: a descriptor *)
(* belongs to one call from pipe to fclose, so its entry in the table does *)
(* too, and pclose2 clears it before the descriptor can be another call's. *)
LEMMA StartInvStep == StartInv /\ [StartNext]_startVars => StartInv'
<1> SUFFICES ASSUME StartInv, [StartNext]_startVars PROVE StartInv'
  OBVIOUS
<1> DEFINE Table == [Fd -> Child \cup {NoPid, JunkPid}]
<1>t. StartTypes /\ TableMade /\ (~clobbered => OwnStream /\ OwnChild) /\ ChildReaped
  BY DEF StartInv
<1>f. ASSUME NEW t \in Starter, NEW goal, Goto(t, goal)
      PROVE  where'[t] = goal /\ \A u \in Starter \ {t} : where'[u] = where[u]
  BY <1>f, <1>t DEF Goto, StartTypes
<1>c. ASSUME NEW t \in Starter, ~InCall(t), ~InCall(t)',
             \A u \in Starter \ {t} : where'[u] = where[u],
             UNCHANGED StartFrame, UNCHANGED clobbered, UNCHANGED tables
      PROVE  (~clobbered => OwnStream /\ OwnChild)' /\ ChildReaped'
  <2> SUFFICES ASSUME ~clobbered' PROVE OwnStream' /\ OwnChild' /\ ChildReaped'
    BY DEF ChildReaped
  <2>0. ~clobbered /\ UNCHANGED <<stream, child, forked, open, children>>
    BY <1>c DEF StartFrame
  <2>1. \A u \in Starter : InCall(u)' <=> InCall(u)
    BY <1>c DEF InCall
  <2>2. \A u \in Starter : InCall(u) => where'[u] = where[u]
    BY <1>c
  <2>3. \A u \in Starter : Streaming(u)' <=> Streaming(u)
    BY <2>1, <2>2 DEF Streaming
  <2>4. OwnStream'
    BY <1>t, <2>0, <2>3 DEF OwnStream
  <2>5. OwnChild'
    BY <1>t, <1>c, <2>0, <2>1, <2>2 DEF OwnChild, Entry, InCall
  <2>6. {u \in Starter : InCall(u) /\ where[u] # "wait"}'
          = {u \in Starter : InCall(u) /\ where[u] # "wait"}
    BY <2>3 DEF Streaming
  <2>7. ChildReaped'
    BY <1>t, <2>0, <2>1, <2>6 DEF ChildReaped
  <2> QED BY <2>4, <2>5, <2>7
(* When no call uses the table there is no child and no stream to lose.    *)
<1>n. ASSUME NEW t \in Starter, clobbered' = (clobbered \/ Used),
             where[t] \in {"new", "clear"}, where'[t] \in {"clear", "pipe"},
             \A u \in Starter \ {t} : where'[u] = where[u],
             UNCHANGED StartFrame
      PROVE  (~clobbered => OwnStream /\ OwnChild)' /\ ChildReaped'
  <2> SUFFICES ASSUME ~clobbered' PROVE OwnStream' /\ OwnChild' /\ ChildReaped'
    BY DEF ChildReaped
  <2>0. ~clobbered /\ ~Used /\ UNCHANGED <<stream, child, forked, open, children>>
    BY <1>n DEF StartFrame
  <2>1. \A u \in Starter : ~InCall(u) /\ ~InCall(u)'
    BY <1>n, <2>0 DEF Used, InCall
  <2>2. OwnStream' /\ OwnChild'
    BY <2>1 DEF OwnStream, OwnChild, Streaming, InCall
  <2>3. /\ \A c \in DOMAIN children : children[c] = "reaped"
        /\ {u \in Starter : InCall(u) /\ where[u] # "wait"}
             = {u \in Starter : InCall(u) /\ where[u] # "wait"}'
    BY <1>t, <2>0, <2>1 DEF ChildReaped
  <2>4. open = {stream[u] : u \in {v \in Starter : InCall(v) /\ where[v] # "wait"}}
    BY <1>t, <2>0 DEF ChildReaped
  <2>5. ChildReaped'
    BY <2>0, <2>3, <2>4 DEF ChildReaped
  <2> QED BY <2>2, <2>5
<1>e. ASSUME tables # << >>, NEW fd \in Fd, NEW pid \in Child \cup {NoPid, JunkPid},
             SetEntry(fd, pid)
      PROVE  /\ tables' \in Seq(Table) /\ tables' # << >>
             /\ Entry(fd)' = pid
             /\ \A g \in Fd \ {fd} : Entry(g)' = Entry(g)
  <2>1. tables \in Seq(Table) /\ Len(tables) \in 1 .. Len(tables)
    BY <1>t, <1>e, EmptySeq DEF StartTypes
  <2>2. tables[Len(tables)] \in Table
    BY <2>1
  <2>3. tables' = [tables EXCEPT ![Len(tables)] = [tables[Len(tables)] EXCEPT ![fd] = pid]]
    BY <1>e DEF SetEntry
  <2>4. [tables[Len(tables)] EXCEPT ![fd] = pid] \in Table
    BY <2>2
  <2> HIDE DEF Table
  <2>5. tables' \in Seq(Table) /\ Len(tables') = Len(tables)
    BY <2>1, <2>3, <2>4
  <2>6. tables'[Len(tables')] = [tables[Len(tables)] EXCEPT ![fd] = pid]
    BY <2>1, <2>3, <2>5
  <2>7. tables' # << >>
    BY <2>1, <2>5
  <2> QED BY <2>2, <2>5, <2>6, <2>7 DEF Entry, Table
<1> HIDE DEF Table
<1>1. ASSUME NEW t \in Starter, StartServer(t) PROVE StartInv'
  <2>1. UNCHANGED <<tables, clobbered>> /\ UNCHANGED StartFrame /\ where[t] = "idle"
    BY <1>1 DEF StartServer, StartFrame, At
  <2>2. PICK goal \in {"new", "pipe"} : Goto(t, goal) /\ (goal = "pipe" => tables # << >>)
    BY <1>1 DEF StartServer
  <2>3. where'[t] = goal /\ \A u \in Starter \ {t} : where'[u] = where[u]
    BY <1>f, <2>2
  <2>4. (~clobbered => OwnStream /\ OwnChild)' /\ ChildReaped'
    <3>1. ~InCall(t) /\ ~InCall(t)'
      BY <2>1, <2>2, <2>3 DEF InCall
    <3> QED BY <1>c, <2>1, <2>3, <3>1
  <2>5. StartTypes'
    BY <1>t, <2>1, <2>2 DEF StartTypes, StartFrame, Goto
  <2>6. TableMade'
    BY <1>t, <2>1, <2>2, <2>3 DEF TableMade, StartFrame, InCall
  <2> QED BY <2>4, <2>5, <2>6 DEF StartInv
<1>2. ASSUME NEW t \in Starter, NewTable(t) PROVE StartInv'
  <2>1. /\ UNCHANGED StartFrame /\ where[t] = "new" /\ Goto(t, "clear")
        /\ clobbered' = (clobbered \/ Used)
    BY <1>2 DEF NewTable, StartFrame, At
  <2>2. PICK pid \in {NoPid, JunkPid} : tables' = Append(tables, [fd \in Fd |-> pid])
    BY <1>2 DEF NewTable
  <2>3. where'[t] = "clear" /\ \A u \in Starter \ {t} : where'[u] = where[u]
    BY <1>f, <2>1
  <2>4. (~clobbered => OwnStream /\ OwnChild)' /\ ChildReaped'
    BY <1>n, <2>1, <2>3
  <2>5. tables' \in Seq(Table) /\ tables' # << >>
    <3>1. [fd \in Fd |-> pid] \in Table
      BY DEF Table
    <3>2. tables \in Seq(Table)
      BY <1>t DEF StartTypes, Table
    <3> QED BY <2>2, <3>1, <3>2
  <2>6. StartTypes'
    BY <1>t, <2>1, <2>5 DEF StartTypes, StartFrame, Goto, Table
  <2>7. TableMade'
    BY <1>t, <2>1, <2>3, <2>5 DEF TableMade, StartFrame, InCall
  <2> QED BY <2>4, <2>6, <2>7 DEF StartInv
<1>3. ASSUME NEW t \in Starter, ClearTable(t) PROVE StartInv'
  <2>1. /\ UNCHANGED StartFrame /\ where[t] = "clear" /\ Goto(t, "pipe")
        /\ clobbered' = (clobbered \/ Used)
        /\ tables' = [tables EXCEPT ![Len(tables)] = [fd \in Fd |-> NoPid]]
    BY <1>3 DEF ClearTable, StartFrame, At
  <2>3. where'[t] = "pipe" /\ \A u \in Starter \ {t} : where'[u] = where[u]
    BY <1>f, <2>1
  <2>4. (~clobbered => OwnStream /\ OwnChild)' /\ ChildReaped'
    BY <1>n, <2>1, <2>3
  <2>5. tables' \in Seq(Table) /\ tables' # << >>
    <3>1. [fd \in Fd |-> NoPid] \in Table
      BY DEF Table
    <3>2. tables \in Seq(Table) /\ tables # << >>
      BY <1>t, <2>1 DEF StartTypes, Table, TableMade
    <3>3. Len(tables) \in 1 .. Len(tables)
      BY <3>2, EmptySeq
    <3>4. tables' \in Seq(Table) /\ Len(tables') = Len(tables)
      BY <2>1, <3>1, <3>2, <3>3
    <3> QED BY <3>3, <3>4
  <2>6. StartTypes'
    BY <1>t, <2>1, <2>5 DEF StartTypes, StartFrame, Goto, Table
  <2>7. TableMade'
    BY <1>t, <2>1, <2>3, <2>5 DEF TableMade, StartFrame, InCall
  <2> QED BY <2>4, <2>6, <2>7 DEF StartInv
<1>4. ASSUME NEW t \in Starter, Fork(t) PROVE StartInv'
  <2>1. /\ UNCHANGED <<tables, clobbered>> /\ where[t] = "pipe" /\ Goto(t, "store")
        /\ children' = Append(children, "runs") /\ Len(children) < MaxChildren
        /\ child' = [child EXCEPT ![t] = Len(children) + 1]
        /\ forked' = [forked EXCEPT ![t] = Len(children) + 1]
    BY <1>4 DEF Fork, At
  <2>2. PICK fd \in Fd \ open : /\ open' = open \cup {fd}
                                /\ stream' = [stream EXCEPT ![t] = fd]
    BY <1>4 DEF Fork
  <2>3. where'[t] = "store" /\ \A u \in Starter \ {t} : where'[u] = where[u]
    BY <1>f, <2>1
  <2>4. /\ Len(children') = Len(children) + 1 /\ children' \in Seq({"runs", "exited", "reaped"})
        /\ Len(children) \in Nat /\ Len(children) + 1 \in Child
        /\ DOMAIN children = 1 .. Len(children) /\ DOMAIN children' = 1 .. Len(children) + 1
        /\ \A c \in DOMAIN children : children'[c] = children[c]
    BY <1>t, <2>1, StartAssumption DEF StartTypes, Child
  <2>5. /\ stream'[t] = fd /\ child'[t] = Len(children) + 1 /\ forked'[t] = Len(children) + 1
        /\ \A u \in Starter \ {t} :
             stream'[u] = stream[u] /\ child'[u] = child[u] /\ forked'[u] = forked[u]
    BY <1>t, <2>1, <2>2 DEF StartTypes
  <2>6. StartTypes'
    <3>1. where' \in [Starter -> {"idle", "new", "clear", "pipe", "store", "close", "fclose", "wait"}]
      BY <1>t, <2>1 DEF StartTypes, Goto
    <3>2. stream' \in [Starter -> Fd \cup {NoFd}] /\ open' \subseteq Fd
      BY <1>t, <2>2 DEF StartTypes
    <3>3. child' \in [Starter -> Child \cup {NoPid, JunkPid}] /\ forked' \in [Starter -> Child \cup {NoPid}]
      BY <1>t, <2>1, <2>4 DEF StartTypes
    <3>4. Len(children') <= MaxChildren
      BY <2>1, <2>4, StartAssumption
    <3> QED BY <1>t, <2>1, <2>4, <3>1, <3>2, <3>3, <3>4 DEF StartTypes
  <2>7. TableMade'
    BY <1>t, <2>1, <2>2, <2>3, <2>5 DEF TableMade, InCall
  <2>8. (~clobbered => OwnStream /\ OwnChild)' /\ ChildReaped'
    <3> SUFFICES ASSUME ~clobbered' PROVE OwnStream' /\ OwnChild' /\ ChildReaped'
      BY DEF ChildReaped
    <3>0. OwnStream /\ OwnChild /\ ~clobbered
      BY <1>t, <2>1
    <3>1. /\ InCall(t)' /\ Streaming(t)' /\ ~InCall(t) /\ ~Streaming(t)
          /\ \A u \in Starter \ {t} : (InCall(u)' <=> InCall(u)) /\ (Streaming(u)' <=> Streaming(u))
      BY <2>1, <2>3 DEF InCall, Streaming
    <3>2. OwnStream'
      BY <2>2, <2>5, <3>0, <3>1 DEF OwnStream
    <3>3. OwnChild'
      BY <2>1, <2>3, <2>4, <2>5, <3>0, <3>1 DEF OwnChild, Entry
    <3>4. ASSUME NEW c \in DOMAIN children', children'[c] # "reaped"
          PROVE  \E u \in Starter : InCall(u)' /\ forked'[u] = c /\ child'[u] = c
      <4>1. CASE c = Len(children) + 1
        BY <2>5, <3>1, <4>1
      <4>2. CASE c # Len(children) + 1
        <5>1. c \in DOMAIN children /\ children[c] # "reaped"
          BY <2>4, <3>4, <4>2
        <5>2. PICK u \in Starter : InCall(u) /\ forked[u] = c /\ child[u] = c
          BY <1>t, <3>0, <5>1 DEF ChildReaped
        <5>3. u # t
          BY <3>1, <5>2
        <5> QED BY <2>5, <3>1, <5>2, <5>3
      <4> QED BY <4>1, <4>2
    <3>5. open' = {stream'[u] : u \in {v \in Starter : InCall(v)' /\ where'[v] # "wait"}}
      <4>1. open = {stream[u] : u \in {v \in Starter : InCall(v) /\ where[v] # "wait"}}
        BY <1>t, <3>0 DEF ChildReaped
      <4>2. {v \in Starter : InCall(v)' /\ where'[v] # "wait"}
              = {v \in Starter : InCall(v) /\ where[v] # "wait"} \cup {t}
        BY <2>3, <3>1
      <4>3. t \notin {v \in Starter : InCall(v) /\ where[v] # "wait"}
        BY <3>1
      <4> QED BY <2>2, <2>5, <4>1, <4>2, <4>3
    <3> QED BY <3>2, <3>3, <3>4, <3>5 DEF ChildReaped
  <2> QED BY <2>6, <2>7, <2>8 DEF StartInv
<1>5. ASSUME NEW t \in Starter, PopenFails(t) PROVE StartInv'
  BY <1>t, <1>5 DEF PopenFails, StartInv, StartTypes, TableMade, OwnStream, OwnChild, ChildReaped,
                    Streaming, InCall, Entry
<1>6. ASSUME NEW t \in Starter, Remember(t) PROVE StartInv'
  <2>1. /\ SetEntry(stream[t], child[t]) /\ Goto(t, "close") /\ where[t] = "store"
        /\ UNCHANGED <<stream, child, forked, open, children, clobbered>>
    BY <1>6 DEF Remember, At
  <2>3. where'[t] = "close" /\ \A u \in Starter \ {t} : where'[u] = where[u]
    BY <1>f, <2>1
  <2>4. tables # << >>
    BY <1>t, <2>1 DEF TableMade
  <2>5. stream[t] \in Fd /\ child[t] \in Child \cup {NoPid, JunkPid}
    BY <1>t, <2>1 DEF TableMade, InCall, StartTypes
  <2>6. /\ tables' \in Seq(Table) /\ tables' # << >> /\ Entry(stream[t])' = child[t]
        /\ \A g \in Fd \ {stream[t]} : Entry(g)' = Entry(g)
    <3> PICK fd \in Fd : fd = stream[t]
      BY <2>5
    <3> PICK pid \in Child \cup {NoPid, JunkPid} : pid = child[t]
      BY <2>5
    <3>1. SetEntry(fd, pid) /\ stream' = stream
      BY <2>1
    <3>2. /\ tables' \in Seq(Table) /\ tables' # << >> /\ Entry(fd)' = pid
          /\ \A g \in Fd \ {fd} : Entry(g)' = Entry(g)
      BY <1>e, <2>4, <3>1
    <3> QED BY <3>1, <3>2 DEF Entry
  <2>7. StartTypes'
    BY <1>t, <2>1, <2>6 DEF StartTypes, Goto, Table
  <2>8. TableMade'
    BY <1>t, <2>1, <2>3, <2>5, <2>6 DEF TableMade, InCall
  <2>9. (~clobbered => OwnStream /\ OwnChild)' /\ ChildReaped'
    <3> SUFFICES ASSUME ~clobbered' PROVE OwnStream' /\ OwnChild' /\ ChildReaped'
      BY DEF ChildReaped
    <3>0. OwnStream /\ OwnChild /\ ~clobbered
      BY <1>t, <2>1
    <3>1. \A u \in Starter : (InCall(u)' <=> InCall(u)) /\ (Streaming(u)' <=> Streaming(u))
      BY <2>1, <2>3 DEF InCall, Streaming
    <3>2. OwnStream'
      BY <2>1, <3>0, <3>1 DEF OwnStream
    <3>3. ASSUME NEW u \in Starter, where'[u] = "close" PROVE Entry(stream[u])' = forked'[u]
      <4>1. CASE u = t
        <5>1. child[t] = forked[t]
          BY <2>1, <3>0 DEF OwnChild, InCall
        <5> QED BY <2>1, <2>6, <4>1, <5>1
      <4>2. CASE u # t
        <5>1. where[u] = "close"
          BY <2>3, <3>3, <4>2
        <5>2. Streaming(u) /\ Streaming(t)
          BY <2>1, <5>1 DEF Streaming, InCall
        <5>3. stream[u] \in Fd \ {stream[t]}
          BY <3>0, <4>2, <5>2 DEF OwnStream
        <5>4. Entry(stream[u])' = Entry(stream[u])
          BY <2>1, <2>6, <5>3 DEF Entry
        <5> QED BY <2>1, <3>0, <5>1, <5>4 DEF OwnChild
      <4> QED BY <4>1, <4>2
    <3>4. OwnChild'
      BY <2>1, <3>0, <3>1, <3>3 DEF OwnChild
    <3>5. {u \in Starter : InCall(u) /\ where[u] # "wait"}'
            = {u \in Starter : InCall(u) /\ where[u] # "wait"}
      BY <3>1 DEF Streaming
    <3>6. ChildReaped'
      BY <1>t, <2>1, <3>0, <3>1, <3>5 DEF ChildReaped
    <3> QED BY <3>2, <3>4, <3>6
  <2> QED BY <2>7, <2>8, <2>9 DEF StartInv
<1>7. ASSUME NEW t \in Starter, Forget(t) PROVE StartInv'
  <2>1. where[t] = "close" /\ UNCHANGED <<stream, forked, open, children, clobbered>>
    BY <1>7 DEF Forget, At
  <2>2. tables # << >> /\ stream[t] \in Fd
    BY <1>t, <2>1 DEF TableMade, InCall
  <2>3. CASE Entry(stream[t]) = NoPid
    <3>1. Goto(t, "idle") /\ UNCHANGED <<tables, child>>
      BY <1>7, <2>3 DEF Forget
    <3>2. where'[t] = "idle" /\ \A u \in Starter \ {t} : where'[u] = where[u]
      BY <1>f, <3>1
    <3>3. clobbered
      <4> SUFFICES ASSUME ~clobbered PROVE FALSE
        BY DEF OwnChild
      <4>1. InCall(t)
        BY <2>1 DEF InCall
      <4>2. Entry(stream[t]) = forked[t] /\ forked[t] \in 1 .. Len(children)
        BY <1>t, <2>1, <4>1 DEF OwnChild
      <4>3. forked[t] \in Child
        BY <1>t, <4>2, StartAssumption DEF StartTypes, Child
      <4> QED BY <2>3, <4>2, <4>3, StartAssumption
    <3>4. StartTypes'
      BY <1>t, <2>1, <3>1 DEF StartTypes, Goto
    <3>5. TableMade'
      BY <1>t, <2>1, <2>2, <3>1, <3>2 DEF TableMade, InCall
    <3> QED BY <2>1, <3>3, <3>4, <3>5 DEF StartInv, ChildReaped
  <2>4. CASE Entry(stream[t]) # NoPid
    <3>1. /\ child' = [child EXCEPT ![t] = Entry(stream[t])]
          /\ SetEntry(stream[t], NoPid) /\ Goto(t, "fclose")
      BY <1>7, <2>4 DEF Forget
    <3>2. where'[t] = "fclose" /\ \A u \in Starter \ {t} : where'[u] = where[u]
      BY <1>f, <3>1
    <3>3. tables' \in Seq(Table) /\ tables' # << >> /\ \A g \in Fd \ {stream[t]} : Entry(g)' = Entry(g)
      <4> PICK fd \in Fd : fd = stream[t]
        BY <2>2
      <4> PICK pid \in Child \cup {NoPid, JunkPid} : pid = NoPid
        OBVIOUS
      <4>1. SetEntry(fd, pid)
        BY <3>1
      <4> QED BY <1>e, <2>2, <4>1
    <3>4. Entry(stream[t]) \in Child \cup {NoPid, JunkPid}
      <4>1. tables \in Seq(Table) /\ Len(tables) \in 1 .. Len(tables)
        BY <1>t, <2>2, EmptySeq DEF StartTypes, Table
      <4>2. tables[Len(tables)] \in Table
        BY <4>1
      <4> QED BY <2>2, <4>2 DEF Entry, Table
    <3>5. /\ child'[t] = Entry(stream[t])
          /\ child' \in [Starter -> Child \cup {NoPid, JunkPid}]
          /\ \A u \in Starter \ {t} : child'[u] = child[u]
      BY <1>t, <3>1, <3>4 DEF StartTypes
    <3>6. StartTypes'
      BY <1>t, <2>1, <3>1, <3>3, <3>5 DEF StartTypes, Goto, Table
    <3>7. TableMade'
      BY <1>t, <2>1, <2>2, <3>2, <3>3 DEF TableMade, InCall
    <3>8. (~clobbered => OwnStream /\ OwnChild)' /\ ChildReaped'
      <4> SUFFICES ASSUME ~clobbered' PROVE OwnStream' /\ OwnChild' /\ ChildReaped'
        BY DEF ChildReaped
      <4>0. OwnStream /\ OwnChild /\ ~clobbered
        BY <1>t, <2>1
      <4>1. \A u \in Starter : (InCall(u)' <=> InCall(u)) /\ (Streaming(u)' <=> Streaming(u))
        BY <2>1, <3>2 DEF InCall, Streaming
      <4>2. OwnStream'
        BY <2>1, <4>0, <4>1 DEF OwnStream
      <4>3. \A u \in Starter : InCall(u) => child'[u] = child[u]
        BY <2>1, <3>5, <4>0 DEF OwnChild
      <4>4. ASSUME NEW u \in Starter, where'[u] = "close" PROVE Entry(stream[u])' = forked'[u]
        <5>1. u # t /\ where[u] = "close"
          BY <3>2, <4>4
        <5>2. Streaming(u) /\ Streaming(t)
          BY <2>1, <5>1 DEF Streaming, InCall
        <5>3. stream[u] \in Fd \ {stream[t]}
          BY <4>0, <5>1, <5>2 DEF OwnStream
        <5>4. Entry(stream[u])' = Entry(stream[u])
          BY <2>1, <3>3, <5>3 DEF Entry
        <5> QED BY <2>1, <4>0, <5>1, <5>4 DEF OwnChild
      <4>5. OwnChild'
        BY <2>1, <4>0, <4>1, <4>3, <4>4 DEF OwnChild
      <4>6. {u \in Starter : InCall(u) /\ where[u] # "wait"}'
              = {u \in Starter : InCall(u) /\ where[u] # "wait"}
        BY <4>1 DEF Streaming
      <4>7. ChildReaped'
        BY <1>t, <2>1, <4>0, <4>1, <4>3, <4>6 DEF ChildReaped
      <4> QED BY <4>2, <4>5, <4>7
    <3> QED BY <3>6, <3>7, <3>8 DEF StartInv
  <2> QED BY <2>3, <2>4
<1>8. ASSUME NEW t \in Starter, Close(t) PROVE StartInv'
  <2>1. /\ where[t] = "fclose" /\ open' = open \ {stream[t]} /\ Goto(t, "wait")
        /\ UNCHANGED <<tables, stream, child, forked, children, clobbered>>
    BY <1>8 DEF Close, At
  <2>2. where'[t] = "wait" /\ \A u \in Starter \ {t} : where'[u] = where[u]
    BY <1>f, <2>1
  <2>3. StartTypes'
    BY <1>t, <2>1 DEF StartTypes, Goto
  <2>4. TableMade'
    BY <1>t, <2>1, <2>2 DEF TableMade, InCall
  <2>5. (~clobbered => OwnStream /\ OwnChild)' /\ ChildReaped'
    <3> SUFFICES ASSUME ~clobbered' PROVE OwnStream' /\ OwnChild' /\ ChildReaped'
      BY DEF ChildReaped
    <3>0. OwnStream /\ OwnChild /\ ~clobbered
      BY <1>t, <2>1
    <3>1. /\ \A u \in Starter : InCall(u)' <=> InCall(u)
          /\ \A u \in Starter \ {t} : Streaming(u)' <=> Streaming(u)
          /\ Streaming(t) /\ ~Streaming(t)'
      BY <2>1, <2>2 DEF InCall, Streaming
    <3>2. \A u \in Starter \ {t} : Streaming(u) => stream[u] \in open'
      BY <2>1, <3>0, <3>1 DEF OwnStream
    <3>3. OwnStream'
      BY <2>1, <3>0, <3>1, <3>2 DEF OwnStream
    <3>4. OwnChild'
      BY <2>1, <2>2, <3>0, <3>1 DEF OwnChild, Entry
    <3>5. open' = {stream'[u] : u \in {v \in Starter : InCall(v)' /\ where'[v] # "wait"}}
      <4>1. open = {stream[u] : u \in {v \in Starter : Streaming(v)}}
        BY <1>t, <3>0 DEF ChildReaped, Streaming
      <4>2. {v \in Starter : InCall(v)' /\ where'[v] # "wait"} = {v \in Starter : Streaming(v)} \ {t}
        BY <3>1 DEF Streaming
      <4>3. \A u \in Starter \ {t} : Streaming(u) => stream[u] # stream[t]
        BY <3>0, <3>1 DEF OwnStream
      <4> QED BY <2>1, <4>1, <4>2, <4>3
    <3>6. ChildReaped'
      BY <1>t, <2>1, <3>0, <3>1, <3>5 DEF ChildReaped
    <3> QED BY <3>3, <3>4, <3>6
  <2> QED BY <2>3, <2>4, <2>5 DEF StartInv
<1>9. ASSUME NEW t \in Starter, WaitPid(t) PROVE StartInv'
  <2>1. /\ where[t] = "wait" /\ Goto(t, "idle")
        /\ UNCHANGED <<tables, stream, child, forked, open, clobbered>>
    BY <1>9 DEF WaitPid, At
  <2>2. where'[t] = "idle" /\ \A u \in Starter \ {t} : where'[u] = where[u]
    BY <1>f, <2>1
  <2>3. \/ children' = children /\ ~(child[t] \in DOMAIN children /\ children[child[t]] # "reaped")
        \/ child[t] \in DOMAIN children /\ children' = [children EXCEPT ![child[t]] = "reaped"]
    BY <1>9 DEF WaitPid
  <2>4. /\ children' \in Seq({"runs", "exited", "reaped"}) /\ Len(children') = Len(children)
        /\ DOMAIN children' = DOMAIN children
        /\ \A c \in DOMAIN children : c # child[t] => children'[c] = children[c]
        /\ child[t] \in DOMAIN children => children'[child[t]] = "reaped"
    BY <1>t, <2>3 DEF StartTypes
  <2>5. StartTypes'
    BY <1>t, <2>1, <2>4 DEF StartTypes, Goto
  <2>6. TableMade'
    BY <1>t, <2>1, <2>2 DEF TableMade, InCall
  <2>7. (~clobbered => OwnStream /\ OwnChild)' /\ ChildReaped'
    <3> SUFFICES ASSUME ~clobbered' PROVE OwnStream' /\ OwnChild' /\ ChildReaped'
      BY DEF ChildReaped
    <3>0. OwnStream /\ OwnChild /\ ~clobbered
      BY <1>t, <2>1
    <3>1. /\ \A u \in Starter \ {t} : InCall(u)' <=> InCall(u)
          /\ InCall(t) /\ ~InCall(t)'
          /\ \A u \in Starter : Streaming(u)' <=> Streaming(u)
      BY <2>1, <2>2 DEF InCall, Streaming
    <3>2. OwnStream'
      BY <2>1, <3>0, <3>1 DEF OwnStream
    <3>3. OwnChild'
      BY <2>1, <2>2, <2>4, <3>0, <3>1 DEF OwnChild, Entry
    <3>4. ASSUME NEW c \in DOMAIN children', children'[c] # "reaped"
          PROVE  \E u \in Starter : InCall(u)' /\ forked'[u] = c /\ child'[u] = c
      <4>1. c \in DOMAIN children /\ c # child[t] /\ children[c] # "reaped"
        BY <2>4, <3>4
      <4>2. PICK u \in Starter : InCall(u) /\ forked[u] = c /\ child[u] = c
        BY <1>t, <3>0, <4>1 DEF ChildReaped
      <4> QED BY <2>1, <3>1, <4>1, <4>2
    <3>5. {u \in Starter : InCall(u)' /\ where'[u] # "wait"}
            = {u \in Starter : InCall(u) /\ where[u] # "wait"}
      BY <3>1 DEF Streaming
    <3>6. ChildReaped'
      BY <1>t, <2>1, <3>0, <3>4, <3>5 DEF ChildReaped
    <3> QED BY <3>2, <3>3, <3>6
  <2> QED BY <2>5, <2>6, <2>7 DEF StartInv
<1>10. ASSUME NEW c \in DOMAIN children, ChildExits(c) PROVE StartInv'
  <2>1. /\ children[c] = "runs" /\ children' = [children EXCEPT ![c] = "exited"]
        /\ UNCHANGED <<tables, where, stream, child, forked, open, clobbered>>
    BY <1>10 DEF ChildExits
  <2>2. /\ children' \in Seq({"runs", "exited", "reaped"}) /\ Len(children') = Len(children)
        /\ DOMAIN children' = DOMAIN children
        /\ \A d \in DOMAIN children : children'[d] # "reaped" => children[d] # "reaped"
    BY <1>t, <2>1 DEF StartTypes
  <2>3. StartTypes' /\ TableMade'
    BY <1>t, <2>1, <2>2 DEF StartTypes, TableMade, InCall
  <2>4. (~clobbered => OwnStream /\ OwnChild)'
    BY <1>t, <2>1, <2>2 DEF OwnStream, OwnChild, Streaming, InCall, Entry
  <2>5. ChildReaped'
    BY <1>t, <2>1, <2>2 DEF ChildReaped, InCall
  <2> QED BY <2>3, <2>4, <2>5 DEF StartInv
<1>11. CASE UNCHANGED startVars
  BY <1>t, <1>11 DEF startVars, StartInv, StartTypes, TableMade, OwnStream, OwnChild, ChildReaped,
                     Streaming, InCall, Entry
<1> QED BY <1>1, <1>2, <1>3, <1>4, <1>5, <1>6, <1>7, <1>8, <1>9, <1>10, <1>11 DEF StartNext

(* As long as no call overlapped with the one that made the table, every   *)
(* child that startServer forked is waited for by the call that forked it, *)
(* and every open stream belongs to a call, for every number of handles,   *)
(* descriptors and children.                                               *)
THEOREM ChildrenAreReaped == StartSpec => []ChildReaped
<1>1. StartInit => StartInv
  <2> SUFFICES ASSUME StartInit PROVE StartInv
    OBVIOUS
  <2>1. StartTypes
    <3>1. tables \in Seq([Fd -> Child \cup {NoPid, JunkPid}])
      BY DEF StartInit
    <3>2. children \in Seq({"runs", "exited", "reaped"}) /\ Len(children) = 0
      BY DEF StartInit
    <3>3. Len(children) <= MaxChildren
      BY <3>2, StartAssumption
    <3> QED BY <3>1, <3>2, <3>3 DEF StartInit, StartTypes
  <2>2. \A t \in Starter : where[t] = "idle" /\ ~InCall(t)
    BY DEF StartInit, InCall
  <2>3. TableMade /\ OwnStream /\ OwnChild
    BY <2>2 DEF TableMade, OwnStream, OwnChild, Streaming
  <2>4. ChildReaped
    <3>1. {u \in Starter : InCall(u) /\ where[u] # "wait"} = {}
      BY <2>2
    <3> QED BY <3>1 DEF ChildReaped, StartInit
  <2> QED BY <2>1, <2>3, <2>4 DEF StartInv
<1>2. StartInv => ChildReaped
  BY DEF StartInv
<1> QED BY <1>1, <1>2, StartInvStep, PTL DEF StartSpec

-----------------------------------------------------------------------------
(***************************************************************************)
(* The thread queue and its monitor.                                       *)
(***************************************************************************)
CallsKnown == call \in [Thread -> Calls \cup {NoCall}]

Pending(t) == at[t] \in {"lock", "in"} /\ call[t].op \in Pushes

(* What a thread is about to push is nowhere else yet.                     *)
BatchesFresh ==
    \A t \in Thread : Pending(t) =>
        /\ ToSet(call[t].batch) \cap Pushed = {}
        /\ \A u \in Thread \ {t} : Pending(u) => ToSet(call[t].batch) \cap ToSet(call[u].batch) = {}

QueueInv == ElementOnce /\ CallsKnown /\ BatchesFresh

(* What the record of a call carries.                                      *)
LEMMA CallFacts ==
  ASSUME NEW c \in Calls \cup {NoCall}
  PROVE  /\ c.op \in Pushes => /\ c.batch \in Seq(Value) /\ IsInjective(c.batch)
                               /\ Len(c.batch) \in Nat
         /\ c.op \in Pops => c.millsecond \in {"zero", "ever", "some"}
<1>1. c.op \in Pushes => c.batch \in Batch
  BY DEF Calls, NoCall, Pushes, Pops
<1>2. c.op \in Pops => c.millsecond \in {"zero", "ever", "some"}
  BY DEF Calls, NoCall, Pushes, Pops
<1>3. \A s \in Batch : s \in Seq(Value) /\ IsInjective(s) /\ Len(s) \in Nat
  <2> SUFFICES ASSUME NEW s \in Batch PROVE s \in Seq(Value) /\ IsInjective(s) /\ Len(s) \in Nat
    OBVIOUS
  <2>1. IsInjective(s) /\ \E n \in 1 .. 2 : s \in [1 .. n -> Value]
    BY DEF Batch
  <2>2. s \in Seq(Value)
    BY <2>1
  <2> QED BY <2>1, <2>2
<1> QED BY <1>1, <1>2, <1>3

(* Leaving the mutex: the signalled threads are among those that wait.     *)
LEMMA LeaveFacts ==
  ASSUME MonitorTypeOK, MutualExclusion, NEW t \in Thread, at[t] \in Inside,
         NEW there \in Place \ Inside, LeaveMutex(t, there)
  PROVE  /\ MonitorTypeOK' /\ MutualExclusion' /\ at'[t] = there /\ mutex = t
         /\ \E W \in WokenBy(nnotify) :
              /\ W \subseteq Waiters /\ t \notin W
              /\ \A u \in W : at'[u] = "signalled"
              /\ \A u \in Thread \ (W \cup {t}) : at'[u] = at[u]
<1>1. PICK W \in WokenBy(nnotify) :
        at' = [u \in Thread |-> IF u = t THEN there ELSE IF u \in W THEN "signalled" ELSE at[u]]
  BY DEF LeaveMutex
<1>2. W \subseteq Waiters /\ W \subseteq Thread
  BY DEF WokenBy, Waiters
<1>3. mutex' = Nobody /\ nnotify' = nnotify /\ mutex = t
  BY DEF LeaveMutex, MutualExclusion
<1>4. t \notin W
  BY <1>2 DEF Waiters, Inside
<1>5. /\ at'[t] = there
      /\ \A u \in W : at'[u] = "signalled"
      /\ \A u \in Thread \ (W \cup {t}) : at'[u] = at[u]
  BY <1>1, <1>2, <1>4
<1>6. \A u \in Thread : at'[u] \in Place \ Inside
  <2> SUFFICES ASSUME NEW u \in Thread PROVE at'[u] \in Place \ Inside
    OBVIOUS
  <2>1. CASE u \in W
    BY <1>5, <2>1 DEF Place, Inside
  <2>2. CASE u \notin W /\ u # t
    BY <1>3, <1>5, <2>2 DEF MutualExclusion, MonitorTypeOK
  <2> QED BY <1>5, <2>1, <2>2
<1>7. MonitorTypeOK'
  <2>1. at' \in [Thread -> Place]
    BY <1>1, <1>6
  <2> QED BY <1>3, <2>1 DEF MonitorTypeOK
<1>8. MutualExclusion'
  BY <1>3, <1>6, NobodyAssumption DEF MutualExclusion
<1> QED BY <1>2, <1>3, <1>4, <1>5, <1>7, <1>8

(* The end of a call that keeps the mutex until its destructor.            *)
LEMMA ReturnFacts ==
  ASSUME MonitorTypeOK, MutualExclusion, NEW t \in Thread, at[t] \in Inside, Return(t)
  PROVE  /\ at' \in [Thread -> Place] /\ mutex' \in Thread \cup {Nobody} /\ MutualExclusion'
         /\ at'[t] = "held" /\ mutex = t /\ mutex' = t
         /\ \A u \in Thread \ {t} : at'[u] = at[u]
<1>1. at' = [at EXCEPT ![t] = "held"] /\ mutex' = mutex
  BY DEF Return
<1>2. at' \in [Thread -> Place] /\ at'[t] = "held" /\ \A u \in Thread \ {t} : at'[u] = at[u]
  BY <1>1 DEF MonitorTypeOK, Place
<1>3. MutualExclusion'
  BY <1>1, <1>2 DEF MutualExclusion, Inside
<1>4. mutex = t
  BY DEF MutualExclusion
<1> QED BY <1>1, <1>2, <1>3, <1>4 DEF MonitorTypeOK

(* Every step of a call keeps the invariant.                               *)
LEMMA QueueInvStep == QueueInv /\ [ThreadQueueNext]_threadQueueVars => QueueInv'
<1> SUFFICES ASSUME QueueInv, [ThreadQueueNext]_threadQueueVars PROVE QueueInv'
  OBVIOUS
<1>t. /\ MonitorTypeOK /\ MutualExclusion /\ CallsKnown /\ BatchesFresh /\ ElementOnce
      /\ queue \in Seq(Value) /\ taken \in Seq(Value) /\ cleared \subseteq Value
      /\ size = Len(queue) /\ size \in Nat
  BY DEF QueueInv, ElementOnce, ThreadQueueTypeOK
<1>a. /\ IsInjective(queue) /\ IsInjective(taken) /\ ToSet(queue) \cap ToSet(taken) = {}
      /\ ToSet(queue) \cap cleared = {} /\ ToSet(taken) \cap cleared = {}
      /\ ToSet(queue) \subseteq Value /\ ToSet(taken) \subseteq Value
  BY <1>t, ConcatFacts, ToSetType DEF ElementOnce
<1>b. ASSUME NEW t \in Thread, call[t].op \in Pushes
      PROVE  /\ call[t].batch \in Seq(Value) /\ IsInjective(call[t].batch)
             /\ Len(call[t].batch) \in Nat /\ ToSet(call[t].batch) \subseteq Value
  BY <1>t, <1>b, CallFacts, ToSetType DEF CallsKnown
(* The invariant holds after a step if its parts do.                       *)
<1>g. ASSUME MonitorTypeOK', MutualExclusion', CallsKnown', BatchesFresh',
             queue' \in Seq(Value), taken' \in Seq(Value), cleared' \subseteq Value,
             size' = Len(queue'), IsInjective(queue'), IsInjective(taken'),
             ToSet(queue') \cap ToSet(taken') = {},
             ToSet(queue') \cap cleared' = {}, ToSet(taken') \cap cleared' = {}
      PROVE  QueueInv'
  <2>1. IsInjective(queue' \o taken') /\ ToSet(queue' \o taken') = ToSet(queue') \cup ToSet(taken')
    BY <1>g, ConcatFacts
  <2>2. size' \in Nat
    BY <1>g
  <2>3. ToSet(queue' \o taken') \cap cleared' = {}
    BY <1>g, <2>1
  <2> QED BY <1>g, <2>1, <2>2, <2>3 DEF QueueInv, ElementOnce, ThreadQueueTypeOK
(* A step that moves no element and begins no push                         *)
<1>q. ASSUME MonitorTypeOK', MutualExclusion', CallsKnown',
             UNCHANGED <<queue, size, taken, cleared>>,
             \A u \in Thread : Pending(u)' => Pending(u) /\ call'[u] = call[u]
      PROVE  QueueInv'
  <2>1. Pushed' = Pushed
    BY <1>q DEF Pushed
  <2>2. BatchesFresh'
    BY <1>t, <1>q, <2>1 DEF BatchesFresh
  <2> QED BY <1>g, <1>q, <1>t, <1>a, <2>2
<1>1. ASSUME NEW t \in Thread, NEW c \in Calls, Call(t, c) PROVE QueueInv'
  <2>1. /\ at[t] = "out" /\ UNCHANGED <<mutex, nnotify, queue, size, taken, cleared>>
        /\ c.op \in Pushes => ToSet(c.batch) \cap (Pushed \cup InHand) = {}
        /\ call' = [call EXCEPT ![t] = c] /\ at' = [at EXCEPT ![t] = "lock"]
    BY <1>1 DEF Call
  <2>2. /\ at'[t] = "lock" /\ \A u \in Thread \ {t} : at'[u] = at[u]
        /\ at' \in [Thread -> Place]
    BY <1>t, <2>1 DEF MonitorTypeOK, Place
  <2>3. /\ call'[t] = c /\ \A u \in Thread \ {t} : call'[u] = call[u]
        /\ CallsKnown'
    BY <1>t, <2>1 DEF CallsKnown
  <2>4. MonitorTypeOK' /\ MutualExclusion'
    BY <1>t, <2>1, <2>2 DEF MonitorTypeOK, MutualExclusion, Inside
  <2>5. Pushed' = Pushed
    BY <2>1 DEF Pushed
  <2>6. \A u \in Thread \ {t} : Pending(u)' <=> Pending(u)
    BY <2>2, <2>3 DEF Pending
  <2>7. \A u \in Thread : Pending(u) => ToSet(call[u].batch) \subseteq InHand
    BY DEF Pending, InHand
  <2>8. c.op \in Pushes => \A u \in Thread \ {t} : Pending(u) => ToSet(c.batch) \cap ToSet(call[u].batch) = {}
    BY <2>1, <2>7
  <2>9. BatchesFresh'
    <3> SUFFICES ASSUME NEW u \in Thread, Pending(u)'
                 PROVE  /\ ToSet(call'[u].batch) \cap Pushed = {}
                        /\ \A v \in Thread \ {u} : Pending(v)' =>
                             ToSet(call'[u].batch) \cap ToSet(call'[v].batch) = {}
      BY <2>5 DEF BatchesFresh
    <3>1. CASE u = t
      <4>1. c.op \in Pushes
        BY <2>3, <3>1 DEF Pending
      <4> QED BY <2>1, <2>3, <2>6, <2>8, <3>1, <4>1
    <3>2. CASE u # t
      <4>1. Pending(u) /\ call'[u] = call[u]
        BY <2>3, <2>6, <3>2
      <4>2. ASSUME NEW v \in Thread \ {u}, Pending(v)'
            PROVE  ToSet(call[u].batch) \cap ToSet(call'[v].batch) = {}
        <5>1. CASE v = t
          <6>1. c.op \in Pushes
            BY <2>3, <4>2, <5>1 DEF Pending
          <6> QED BY <2>3, <2>8, <3>2, <4>1, <5>1, <6>1
        <5>2. CASE v # t
          BY <1>t, <2>3, <2>6, <4>1, <4>2, <5>2 DEF BatchesFresh
        <5> QED BY <5>1, <5>2
      <4> QED BY <1>t, <4>1, <4>2 DEF BatchesFresh
    <3> QED BY <3>1, <3>2
  <2> QED BY <1>g, <1>t, <1>a, <2>1, <2>3, <2>4, <2>9
<1>2. ASSUME NEW t \in Thread, Lock(t) PROVE QueueInv'
  <2>1. /\ at[t] = "lock" /\ mutex = Nobody /\ mutex' = t /\ nnotify' = 0
        /\ at' = [at EXCEPT ![t] = "in"] /\ UNCHANGED <<queue, size, call, taken, cleared>>
    BY <1>2 DEF Lock, MonitorLock
  <2>2. /\ at'[t] = "in" /\ \A u \in Thread \ {t} : at'[u] = at[u]
        /\ at' \in [Thread -> Place]
    BY <1>t, <2>1 DEF MonitorTypeOK, Place
  <2>3. MonitorTypeOK' /\ MutualExclusion'
    BY <1>t, <2>1, <2>2, NobodyAssumption DEF MonitorTypeOK, MutualExclusion, Inside
  <2>4. CallsKnown' /\ \A u \in Thread : Pending(u)' => Pending(u) /\ call'[u] = call[u]
    BY <1>t, <2>1, <2>2 DEF CallsKnown, Pending
  <2> QED BY <1>q, <2>1, <2>3, <2>4
<1>3. ASSUME NEW t \in Thread, Relock(t) PROVE QueueInv'
  <2>1. /\ at[t] \in {"signalled", "expired"} /\ mutex = Nobody /\ mutex' = t /\ nnotify' = 0
        /\ UNCHANGED <<queue, size, call, taken, cleared>>
    BY <1>3 DEF Relock, WaitReturns
  <2>2. PICK goal \in {"awake", "late"} : at' = [at EXCEPT ![t] = goal]
    BY <1>3 DEF Relock, WaitReturns
  <2>3. /\ at'[t] = goal /\ \A u \in Thread \ {t} : at'[u] = at[u]
        /\ at' \in [Thread -> Place]
    BY <1>t, <2>2 DEF MonitorTypeOK, Place
  <2>4. MonitorTypeOK' /\ MutualExclusion'
    BY <1>t, <2>1, <2>3, NobodyAssumption DEF MonitorTypeOK, MutualExclusion, Inside
  <2>5. CallsKnown' /\ \A u \in Thread : Pending(u)' => Pending(u) /\ call'[u] = call[u]
    BY <1>t, <2>1, <2>3 DEF CallsKnown, Pending
  <2> QED BY <1>q, <2>1, <2>4, <2>5
<1>4. ASSUME NEW t \in Thread, Wakes(t) PROVE QueueInv'
  <2>1. /\ at[t] \in {"wait", "timedWait"}
        /\ UNCHANGED <<mutex, nnotify, queue, size, call, taken, cleared>>
    BY <1>4 DEF Wakes, SpuriousWakeup, WaitExpires, Waiters
  <2>2. PICK goal \in {"signalled", "expired"} : at' = [at EXCEPT ![t] = goal]
    BY <1>4 DEF Wakes, SpuriousWakeup, WaitExpires
  <2>3. /\ at'[t] = goal /\ \A u \in Thread \ {t} : at'[u] = at[u]
        /\ at' \in [Thread -> Place]
    BY <1>t, <2>2 DEF MonitorTypeOK, Place
  <2>4. MonitorTypeOK' /\ MutualExclusion'
    BY <1>t, <2>1, <2>3 DEF MonitorTypeOK, MutualExclusion, Inside
  <2>5. CallsKnown' /\ \A u \in Thread : Pending(u)' => Pending(u) /\ call'[u] = call[u]
    BY <1>t, <2>1, <2>3 DEF CallsKnown, Pending
  <2> QED BY <1>q, <2>1, <2>4, <2>5
(* Giving up the mutex                                                     *)
<1>l. ASSUME NEW t \in Thread, at[t] \in Inside, NEW there \in {"out", "wait", "timedWait"},
             LeaveMutex(t, there)
      PROVE  /\ MonitorTypeOK' /\ MutualExclusion' /\ at'[t] = there
             /\ \A u \in Thread \ {t} : at'[u] = "signalled" \/ at'[u] = at[u]
  BY <1>t, <1>l, LeaveFacts DEF Place, Inside
<1>5. ASSUME NEW t \in Thread, Unlock(t) PROVE QueueInv'
  <2>1. /\ at[t] = "held" /\ LeaveMutex(t, "out") /\ call' = [call EXCEPT ![t] = NoCall]
        /\ UNCHANGED <<queue, size, taken, cleared>>
    BY <1>5 DEF Unlock, MonitorUnlock
  <2>2. /\ MonitorTypeOK' /\ MutualExclusion' /\ at'[t] = "out"
        /\ \A u \in Thread \ {t} : at'[u] = "signalled" \/ at'[u] = at[u]
    BY <1>l, <2>1 DEF Inside
  <2>3. CallsKnown' /\ \A u \in Thread : Pending(u)' => Pending(u) /\ call'[u] = call[u]
    BY <1>t, <2>1, <2>2 DEF CallsKnown, Pending
  <2> QED BY <1>q, <2>1, <2>2, <2>3
<1>r. ASSUME NEW t \in Thread, at[t] \in Inside, Return(t), nnotify' \in Nat \cup {-1}, UNCHANGED call
      PROVE  /\ MonitorTypeOK' /\ MutualExclusion' /\ CallsKnown'
             /\ at'[t] = "held" /\ \A u \in Thread \ {t} : at'[u] = at[u]
             /\ \A u \in Thread : Pending(u)' => u # t /\ Pending(u) /\ call'[u] = call[u]
  <2>1. /\ at' \in [Thread -> Place] /\ mutex' \in Thread \cup {Nobody} /\ MutualExclusion'
        /\ at'[t] = "held" /\ \A u \in Thread \ {t} : at'[u] = at[u]
    BY <1>t, <1>r, ReturnFacts
  <2>2. MonitorTypeOK' /\ CallsKnown'
    BY <1>t, <1>r, <2>1 DEF MonitorTypeOK, CallsKnown
  <2> QED BY <1>r, <2>1, <2>2 DEF Pending
<1>6. ASSUME NEW t \in Thread, WaitForElement(t) PROVE QueueInv'
  <2>1. /\ at[t] = "in" /\ call[t].op \in Pops /\ UNCHANGED <<queue, size, call, taken, cleared>>
    BY <1>6 DEF WaitForElement
  <2>2. call[t].millsecond \in {"zero", "ever", "some"}
    BY <1>t, <2>1, CallFacts DEF CallsKnown
  <2>3. \/ Return(t) /\ UNCHANGED nnotify
        \/ \E there \in {"wait", "timedWait"} : LeaveMutex(t, there)
    BY <1>6, <2>2 DEF WaitForElement, MonitorWait, MonitorTimedWait
  <2>4. CASE Return(t) /\ UNCHANGED nnotify
    <3>1. nnotify' \in Nat \cup {-1} /\ at[t] \in Inside
      BY <1>t, <2>1, <2>4 DEF MonitorTypeOK, Inside
    <3> QED BY <1>q, <1>r, <2>1, <2>4, <3>1
  <2>5. ASSUME NEW there \in {"wait", "timedWait"}, LeaveMutex(t, there) PROVE QueueInv'
    <3>1. /\ MonitorTypeOK' /\ MutualExclusion' /\ at'[t] = there
          /\ \A u \in Thread \ {t} : at'[u] = "signalled" \/ at'[u] = at[u]
      BY <1>l, <2>1, <2>5 DEF Inside
    <3>2. CallsKnown' /\ \A u \in Thread : Pending(u)' => Pending(u) /\ call'[u] = call[u]
      BY <1>t, <2>1, <3>1 DEF CallsKnown, Pending
    <3> QED BY <1>q, <2>1, <3>1, <3>2
  <2> QED BY <2>3, <2>4, <2>5
<1>7. ASSUME NEW t \in Thread, NothingFound(t) \/ SizeOrEmpty(t) PROVE QueueInv'
  <2>1. /\ at[t] \in Inside /\ Return(t)
        /\ UNCHANGED <<nnotify, queue, size, call, taken, cleared>>
    BY <1>7 DEF NothingFound, SizeOrEmpty, Inside
  <2>2. nnotify' \in Nat \cup {-1}
    BY <1>t, <2>1 DEF MonitorTypeOK
  <2> QED BY <1>q, <1>r, <2>1, <2>2
<1>8. ASSUME NEW t \in Thread, NotifyT(t) PROVE QueueInv'
  <2>1. /\ at[t] \in Inside /\ Return(t) /\ nnotify' = -1
        /\ UNCHANGED <<queue, size, call, taken, cleared>>
    BY <1>8 DEF NotifyT, Inside
  <2>2. nnotify' \in Nat \cup {-1}
    BY <2>1
  <2> QED BY <1>q, <1>r, <2>1, <2>2
(* A push puts the batch of t among the pushed elements.                   *)
<1>p. ASSUME NEW t \in Thread, at[t] = "in", call[t].op \in Pushes, Return(t),
             Notify(Len(call[t].batch)), UNCHANGED <<call, taken, cleared>>,
             queue' \in Seq(Value), size' = Len(queue'), IsInjective(queue'),
             ToSet(queue') = ToSet(queue) \cup ToSet(call[t].batch)
      PROVE  QueueInv'
  <2>1. nnotify' \in Nat \cup {-1}
    BY <1>t, <1>b, <1>p DEF Notify, MonitorTypeOK
  <2>2. /\ MonitorTypeOK' /\ MutualExclusion' /\ CallsKnown'
        /\ \A u \in Thread : Pending(u)' => u # t /\ Pending(u) /\ call'[u] = call[u]
    BY <1>p, <1>r, <2>1 DEF Inside
  <2>3. Pushed' = Pushed \cup ToSet(call[t].batch) /\ Pending(t)
    BY <1>p DEF Pushed, Pending
  <2>4. BatchesFresh'
    BY <1>t, <2>2, <2>3 DEF BatchesFresh
  <2>5. ToSet(call[t].batch) \cap ToSet(taken) = {} /\ ToSet(call[t].batch) \cap cleared = {}
    BY <1>t, <2>3 DEF BatchesFresh, Pushed
  <2>6. /\ ToSet(queue') \cap ToSet(taken') = {} /\ ToSet(queue') \cap cleared' = {}
        /\ ToSet(taken') \cap cleared' = {} /\ IsInjective(taken')
        /\ taken' \in Seq(Value) /\ cleared' \subseteq Value
    BY <1>t, <1>a, <1>p, <2>5
  <2> QED BY <1>g, <1>p, <2>2, <2>4, <2>6
<1>9. ASSUME NEW t \in Thread, PushBack(t) PROVE QueueInv'
  <2> DEFINE b == call[t].batch
  <2>1. /\ at[t] = "in" /\ call[t].op \in Pushes /\ Return(t) /\ Notify(Len(call[t].batch))
        /\ queue' = queue \o b /\ size' = size + Len(b) /\ UNCHANGED <<call, taken, cleared>>
    BY <1>9 DEF PushBack, Pushes
  <2>2. b \in Seq(Value) /\ IsInjective(b) /\ Len(b) \in Nat
    BY <1>b, <2>1
  <2>3. ToSet(b) \cap ToSet(queue) = {}
    BY <1>t, <2>1 DEF BatchesFresh, Pending, Pushed
  <2> HIDE DEF b
  <2>4. /\ queue' \in Seq(Value) /\ Len(queue') = Len(queue) + Len(b)
        /\ IsInjective(queue') /\ ToSet(queue') = ToSet(queue) \cup ToSet(b)
    BY <1>t, <1>a, <2>1, <2>2, <2>3, ConcatFacts
  <2>5. size' = Len(queue')
    BY <1>t, <2>1, <2>4
  <2> QED BY <1>p, <2>1, <2>4, <2>5 DEF b
<1>10. ASSUME NEW t \in Thread, PushFront(t) PROVE QueueInv'
  <2> DEFINE b == call[t].batch
             r == Reverse(b)
  <2>1. /\ at[t] = "in" /\ call[t].op \in Pushes /\ Return(t) /\ Notify(Len(call[t].batch))
        /\ queue' = r \o queue /\ size' = size + Len(b) /\ UNCHANGED <<call, taken, cleared>>
    BY <1>10 DEF PushFront, Pushes
  <2>2. b \in Seq(Value) /\ IsInjective(b) /\ Len(b) \in Nat
    BY <1>b, <2>1
  <2>3. ToSet(b) \cap ToSet(queue) = {}
    BY <1>t, <2>1 DEF BatchesFresh, Pending, Pushed
  <2> HIDE DEF b
  <2>4. r \in Seq(Value) /\ Len(r) = Len(b) /\ ToSet(r) = ToSet(b) /\ IsInjective(r)
    BY <2>2, ReverseFacts
  <2> HIDE DEF r
  <2>5. /\ queue' \in Seq(Value) /\ Len(queue') = Len(r) + Len(queue)
        /\ IsInjective(queue') /\ ToSet(queue') = ToSet(r) \cup ToSet(queue)
    <3>1. ToSet(r) \cap ToSet(queue) = {}
      BY <2>3, <2>4
    <3> QED BY <1>t, <1>a, <2>1, <2>4, <3>1, ConcatFacts
  <2>6. size' = Len(queue') /\ ToSet(queue') = ToSet(queue) \cup ToSet(b)
    BY <1>t, <2>1, <2>2, <2>4, <2>5
  <2> QED BY <1>p, <2>1, <2>5, <2>6 DEF b
(* An element that is taken or cleared stays among the pushed ones.        *)
<1>k. ASSUME NEW t \in Thread, at[t] \in Inside, Return(t), UNCHANGED <<nnotify, call>>,
             Pushed' = Pushed
      PROVE  MonitorTypeOK' /\ MutualExclusion' /\ CallsKnown' /\ BatchesFresh'
  <2>1. nnotify' \in Nat \cup {-1}
    BY <1>t, <1>k DEF MonitorTypeOK
  <2>2. /\ MonitorTypeOK' /\ MutualExclusion' /\ CallsKnown'
        /\ \A u \in Thread : Pending(u)' => u # t /\ Pending(u) /\ call'[u] = call[u]
    BY <1>k, <1>r, <2>1
  <2>3. BatchesFresh'
    BY <1>t, <1>k, <2>2 DEF BatchesFresh
  <2> QED BY <2>2, <2>3
<1>11. ASSUME NEW t \in Thread, PopFront(t) PROVE QueueInv'
  <2>1. /\ at[t] \in Inside /\ queue # << >> /\ Return(t) /\ UNCHANGED <<nnotify, call, cleared>>
        /\ taken' = Append(taken, Head(queue)) /\ queue' = Tail(queue) /\ size' = size - 1
    BY <1>11 DEF PopFront, Found, Inside
  <2>2. /\ queue' \in Seq(Value) /\ Len(queue') = Len(queue) - 1 /\ Head(queue) \in Value
        /\ ToSet(queue) = ToSet(queue') \cup {Head(queue)}
        /\ IsInjective(queue') /\ Head(queue) \notin ToSet(queue') /\ Head(queue) \in ToSet(queue)
    BY <1>t, <1>a, <2>1, TailFacts
  <2>3. /\ taken' \in Seq(Value) /\ ToSet(taken') = ToSet(taken) \cup {Head(queue)}
        /\ IsInjective(taken')
    <3>1. Head(queue) \notin ToSet(taken)
      BY <1>a, <2>2
    <3> QED BY <1>t, <1>a, <2>1, <2>2, <3>1, AppendFacts
  <2>4. Pushed' = Pushed
    BY <2>1, <2>2, <2>3 DEF Pushed
  <2>5. MonitorTypeOK' /\ MutualExclusion' /\ CallsKnown' /\ BatchesFresh'
    BY <1>k, <2>1, <2>4
  <2>6. /\ ToSet(queue') \cap ToSet(taken') = {} /\ ToSet(queue') \cap cleared' = {}
        /\ ToSet(taken') \cap cleared' = {} /\ cleared' \subseteq Value
    BY <1>t, <1>a, <2>1, <2>2, <2>3
  <2>7. size' = Len(queue')
    BY <1>t, <2>1, <2>2
  <2> QED BY <1>g, <2>2, <2>3, <2>5, <2>6, <2>7
<1>12. ASSUME NEW t \in Thread, Swap(t) PROVE QueueInv'
  <2>1. /\ at[t] \in Inside /\ Return(t) /\ UNCHANGED <<nnotify, call, cleared>>
        /\ taken' = taken \o queue /\ queue' = << >> /\ size' = Len(queue')
    BY <1>12 DEF Swap, Found, Inside
  <2>2. queue' \in Seq(Value) /\ ToSet(queue') = {} /\ IsInjective(queue')
    BY <2>1 DEF ToSet, IsInjective
  <2>3. /\ taken' \in Seq(Value) /\ ToSet(taken') = ToSet(taken) \cup ToSet(queue)
        /\ IsInjective(taken')
    BY <1>t, <1>a, <2>1, ConcatFacts
  <2>4. Pushed' = Pushed
    BY <2>1, <2>2, <2>3 DEF Pushed
  <2>5. MonitorTypeOK' /\ MutualExclusion' /\ CallsKnown' /\ BatchesFresh'
    BY <1>k, <2>1, <2>4
  <2>6. /\ ToSet(queue') \cap ToSet(taken') = {} /\ ToSet(queue') \cap cleared' = {}
        /\ ToSet(taken') \cap cleared' = {} /\ cleared' \subseteq Value
    BY <1>t, <1>a, <2>1, <2>2, <2>3
  <2> QED BY <1>g, <2>1, <2>2, <2>3, <2>5, <2>6
<1>13. ASSUME NEW t \in Thread, ClearQueue(t) PROVE QueueInv'
  <2>1. /\ at[t] \in Inside /\ Return(t) /\ UNCHANGED <<nnotify, call, taken>>
        /\ cleared' = cleared \cup ToSet(queue) /\ queue' = << >> /\ size' = 0
    BY <1>13 DEF ClearQueue, Inside
  <2>2. queue' \in Seq(Value) /\ ToSet(queue') = {} /\ IsInjective(queue') /\ size' = Len(queue')
    BY <2>1 DEF ToSet, IsInjective
  <2>4. Pushed' = Pushed
    BY <2>1, <2>2 DEF Pushed
  <2>5. MonitorTypeOK' /\ MutualExclusion' /\ CallsKnown' /\ BatchesFresh'
    BY <1>k, <2>1, <2>4
  <2>6. /\ ToSet(queue') \cap ToSet(taken') = {} /\ ToSet(queue') \cap cleared' = {}
        /\ ToSet(taken') \cap cleared' = {} /\ cleared' \subseteq Value
        /\ taken' \in Seq(Value) /\ IsInjective(taken')
    BY <1>t, <1>a, <2>1, <2>2
  <2> QED BY <1>g, <2>2, <2>5, <2>6
<1>14. CASE UNCHANGED threadQueueVars
  <2>1. UNCHANGED <<mutex, nnotify, at, queue, size, call, taken, cleared>>
    BY <1>14 DEF threadQueueVars, monitor
  <2>2. MonitorTypeOK' /\ MutualExclusion' /\ CallsKnown'
    BY <1>t, <2>1 DEF MonitorTypeOK, MutualExclusion, CallsKnown
  <2>3. \A u \in Thread : Pending(u)' => Pending(u) /\ call'[u] = call[u]
    BY <2>1 DEF Pending
  <2> QED BY <1>q, <2>1, <2>2, <2>3
<1> QED BY <1>1, <1>2, <1>3, <1>4, <1>5, <1>6, <1>7, <1>8, <1>9, <1>10, <1>11, <1>12, <1>13,
           <1>14 DEF ThreadQueueNext, Body

(* It holds in the empty queue that nobody uses.                           *)
LEMMA QueueInvInit == ThreadQueueInit => QueueInv
<1> SUFFICES ASSUME ThreadQueueInit PROVE QueueInv
  OBVIOUS
<1>1. MonitorTypeOK /\ MutualExclusion
  BY NobodyAssumption DEF ThreadQueueInit, MonitorInit, MonitorTypeOK, MutualExclusion, Place, Inside
<1>2. CallsKnown /\ \A t \in Thread : ~Pending(t)
  BY DEF ThreadQueueInit, MonitorInit, CallsKnown, Pending
<1>3. /\ queue = << >> /\ taken = << >> /\ size = 0 /\ cleared = {}
      /\ queue \o taken = << >>
  BY DEF ThreadQueueInit
<1>4. queue \in Seq(Value) /\ taken \in Seq(Value) /\ size = Len(queue) /\ size \in Nat
  BY <1>3
<1>5. IsInjective(queue \o taken) /\ ToSet(queue \o taken) \cap cleared = {}
  BY <1>3 DEF IsInjective, ToSet
<1> QED BY <1>1, <1>2, <1>3, <1>4, <1>5 DEF QueueInv, ElementOnce, ThreadQueueTypeOK, BatchesFresh

(* No element of a TC_ThreadQueue is handed out twice, is in two places or *)
(* is lost count of, and only the holder of the mutex is inside, for every *)
(* number of threads and elements.                                         *)
THEOREM EveryElementOnce == ThreadQueueSpec => []ElementOnce
<1>1. QueueInv => ElementOnce
  BY DEF QueueInv
<1> QED BY <1>1, QueueInvInit, QueueInvStep, PTL DEF ThreadQueueSpec

Woken == {t \in Thread : at[t] \in {"signalled", "awake"}}

(* Signals are counted from zero whenever the mutex is taken, so a thread  *)
(* that waits has none of its own to send; and a broadcast leaves nobody   *)
(* waiting.                                                                *)
SignalsCounted ==
    /\ \A t \in Thread : at[t] \in {"in", "awake", "late"} => nnotify = 0
    /\ mutex = Nobody /\ nnotify = -1 => Waiters = {}

StrandInv == QueueInv /\ SignalsCounted /\ NoElementStranded

(* The threads that wait or were woken are finitely many.                  *)
LEMMA WokenFinite ==
  /\ IsFiniteSet(Woken) /\ Cardinality(Woken) \in Nat
  /\ IsFiniteSet(Waiters) /\ Cardinality(Waiters) \in Nat
<1>1. Woken \subseteq Thread /\ Waiters \subseteq Thread
  BY DEF Woken, Waiters
<1> QED BY <1>1, NobodyAssumption, FS_Subset, FS_CardinalityType

(* What the property says while the mutex is free, and while it is held.   *)
LEMMA StrandedCases ==
  ASSUME QueueInv, SignalsCounted
  PROVE  NoElementStranded <=>
           /\ mutex = Nobody /\ Waiters # {} => Len(queue) <= Cardinality(Woken)
           /\ mutex # Nobody /\ Waiters # {} /\ nnotify # -1 =>
                Len(queue) <= nnotify + Cardinality(Woken)
<1>1. nnotify \in Nat \cup {-1} /\ Len(queue) \in Nat /\ Cardinality(Woken) \in Nat
  BY WokenFinite DEF QueueInv, ElementOnce, ThreadQueueTypeOK, MonitorTypeOK
<1>2. nnotify * 0 = 0 /\ nnotify * 1 = nnotify
  BY <1>1
<1>3. NoElementStranded <=>
        (Waiters # {} /\ nnotify # -1 =>
           Len(queue) <= nnotify * (IF mutex = Nobody THEN 0 ELSE 1) + Cardinality(Woken))
  BY DEF NoElementStranded, Woken
<1>4. CASE mutex = Nobody
  <2>1. NoElementStranded <=> (Waiters # {} /\ nnotify # -1 => Len(queue) <= 0 + Cardinality(Woken))
    BY <1>2, <1>3, <1>4
  <2>2. Waiters # {} => nnotify # -1
    BY <1>4 DEF SignalsCounted
  <2> QED BY <1>1, <1>4, <2>1, <2>2
<1>5. CASE mutex # Nobody
  BY <1>2, <1>3, <1>5
<1> QED BY <1>4, <1>5

(* A call that is taken to its end wakes as many sleepers as it pushed     *)
(* elements, or all of them, so those that sleep on miss none.             *)
LEMMA StrandStep == StrandInv /\ [ThreadQueueNext]_threadQueueVars => StrandInv'
<1> SUFFICES ASSUME StrandInv, [ThreadQueueNext]_threadQueueVars PROVE StrandInv'
  OBVIOUS
<1>t. /\ QueueInv /\ SignalsCounted /\ QueueInv' /\ MonitorTypeOK /\ MutualExclusion
      /\ CallsKnown /\ queue \in Seq(Value) /\ Len(queue) \in Nat
  BY QueueInvStep DEF StrandInv, QueueInv, ElementOnce, ThreadQueueTypeOK
<1>i. /\ queue' \in Seq(Value) /\ Len(queue') \in Nat /\ MonitorTypeOK'
      /\ nnotify \in Nat \cup {-1} /\ nnotify' \in Nat \cup {-1}
  BY <1>t DEF QueueInv, ElementOnce, ThreadQueueTypeOK, MonitorTypeOK
<1>j. nnotify' \in Int
  <2>1. nnotify' \in Nat \/ nnotify' = -1
    BY <1>i
  <2> QED BY <2>1
<1>c. /\ IsFiniteSet(Woken) /\ Cardinality(Woken) \in Nat
      /\ IsFiniteSet(Woken') /\ Cardinality(Woken') \in Nat
      /\ IsFiniteSet(Waiters) /\ Cardinality(Waiters) \in Nat
  <2>1. IsFiniteSet(Woken') /\ Cardinality(Woken') \in Nat
    <3>1. Woken' \subseteq Thread
      BY DEF Woken
    <3> QED BY <3>1, NobodyAssumption, FS_Subset, FS_CardinalityType
  <2> QED BY <2>1, WokenFinite
<1>s. /\ mutex = Nobody /\ Waiters # {} => Len(queue) <= Cardinality(Woken)
      /\ mutex # Nobody /\ Waiters # {} /\ nnotify # -1 =>
                Len(queue) <= nnotify + Cardinality(Woken)
  BY <1>t, StrandedCases DEF StrandInv
<1>m. \A t \in Thread : at[t] \in Inside => mutex = t /\ mutex # Nobody
  BY <1>t, NobodyAssumption DEF MutualExclusion
(* The property in the two cases, after the step                           *)
<1>g. ASSUME SignalsCounted',
             mutex' = Nobody /\ Waiters' # {} => Len(queue') <= Cardinality(Woken'),
             mutex' # Nobody /\ Waiters' # {} /\ nnotify' # -1 =>
                Len(queue') <= nnotify' + Cardinality(Woken')
      PROVE  StrandInv'
  <2>1. NoElementStranded' <=>
          /\ mutex' = Nobody /\ Waiters' # {} => Len(queue') <= Cardinality(Woken')
          /\ mutex' # Nobody /\ Waiters' # {} /\ nnotify' # -1 =>
               Len(queue') <= nnotify' + Cardinality(Woken')
    <3>1. nnotify' * 0 = 0 /\ nnotify' * 1 = nnotify'
      <4>1. \A n \in Int : n * 0 = 0 /\ n * 1 = n
        OBVIOUS
      <4> QED BY <1>j, <4>1
    <3>2. NoElementStranded' <=>
            (Waiters' # {} /\ nnotify' # -1 =>
               Len(queue') <= nnotify' * (IF mutex' = Nobody THEN 0 ELSE 1) + Cardinality(Woken'))
      BY DEF NoElementStranded, Woken
    <3>3. mutex' = Nobody /\ Waiters' # {} => nnotify' # -1
      BY <1>g DEF SignalsCounted
    <3>4. CASE mutex' = Nobody
      <4>1. NoElementStranded' <=>
              (Waiters' # {} /\ nnotify' # -1 => Len(queue') <= 0 + Cardinality(Woken'))
        BY <3>1, <3>2, <3>4
      <4> QED BY <1>c, <1>i, <3>3, <3>4, <4>1
    <3>5. CASE mutex' # Nobody
      BY <3>1, <3>2, <3>5
    <3> QED BY <3>4, <3>5
  <2> QED BY <1>g, <1>t, <2>1 DEF StrandInv
<1>1. ASSUME NEW t \in Thread, NEW c \in Calls, Call(t, c) PROVE StrandInv'
  <2>1. /\ at[t] = "out" /\ UNCHANGED <<mutex, nnotify, queue>>
        /\ at' = [at EXCEPT ![t] = "lock"]
    BY <1>1 DEF Call
  <2>2. at'[t] = "lock" /\ \A u \in Thread \ {t} : at'[u] = at[u]
    BY <1>t, <2>1 DEF MonitorTypeOK
  <2>3. Waiters' = Waiters /\ Woken' = Woken
    BY <2>1, <2>2 DEF Waiters, Woken
  <2>4. SignalsCounted'
    BY <1>t, <2>1, <2>2, <2>3 DEF SignalsCounted
  <2> QED BY <1>g, <1>s, <2>1, <2>3, <2>4
<1>2. ASSUME NEW t \in Thread, Lock(t) PROVE StrandInv'
  <2>1. /\ at[t] = "lock" /\ mutex = Nobody /\ mutex' = t /\ nnotify' = 0 /\ queue' = queue
        /\ at' = [at EXCEPT ![t] = "in"]
    BY <1>2 DEF Lock, MonitorLock
  <2>2. at'[t] = "in" /\ \A u \in Thread \ {t} : at'[u] = at[u]
    BY <1>t, <2>1 DEF MonitorTypeOK
  <2>3. Waiters' = Waiters /\ Woken' = Woken
    BY <2>1, <2>2 DEF Waiters, Woken
  <2>4. SignalsCounted'
    BY <2>1, NobodyAssumption DEF SignalsCounted
  <2>5. Waiters' # {} => Len(queue') <= nnotify' + Cardinality(Woken')
    BY <1>s, <1>c, <2>1, <2>3
  <2> QED BY <1>g, <2>1, <2>4, <2>5, NobodyAssumption
<1>3. ASSUME NEW t \in Thread, Relock(t) PROVE StrandInv'
  <2>1. /\ at[t] \in {"signalled", "expired"} /\ mutex = Nobody /\ mutex' = t /\ nnotify' = 0
        /\ queue' = queue
    BY <1>3 DEF Relock, WaitReturns
  <2>2. PICK goal \in {"awake", "late"} :
          at' = [at EXCEPT ![t] = goal] /\ (goal = "awake" <=> at[t] = "signalled")
    BY <1>3 DEF Relock, WaitReturns
  <2>3. at'[t] = goal /\ \A u \in Thread \ {t} : at'[u] = at[u]
    BY <1>t, <2>2 DEF MonitorTypeOK
  <2>4. Waiters' = Waiters /\ Woken' = Woken
    BY <2>1, <2>2, <2>3 DEF Waiters, Woken
  <2>5. SignalsCounted'
    BY <2>1, NobodyAssumption DEF SignalsCounted
  <2>6. Waiters' # {} => Len(queue') <= nnotify' + Cardinality(Woken')
    BY <1>s, <1>c, <2>1, <2>4
  <2> QED BY <1>g, <2>1, <2>5, <2>6, NobodyAssumption
<1>4. ASSUME NEW t \in Thread, Wakes(t) PROVE StrandInv'
  <2>1. at[t] \in {"wait", "timedWait"} /\ UNCHANGED <<mutex, nnotify, queue>>
    BY <1>4 DEF Wakes, SpuriousWakeup, WaitExpires, Waiters
  <2>2. PICK goal \in {"signalled", "expired"} : at' = [at EXCEPT ![t] = goal]
    BY <1>4 DEF Wakes, SpuriousWakeup, WaitExpires
  <2>3. at'[t] = goal /\ \A u \in Thread \ {t} : at'[u] = at[u]
    BY <1>t, <2>2 DEF MonitorTypeOK
  <2>4. Waiters' \subseteq Waiters /\ Woken \subseteq Woken'
    BY <2>1, <2>2, <2>3 DEF Waiters, Woken
  <2>5. Cardinality(Woken) <= Cardinality(Woken')
    BY <1>c, <2>4, FS_Subset
  <2>6. SignalsCounted'
    BY <1>t, <2>1, <2>2, <2>3, <2>4 DEF SignalsCounted
  <2>7. /\ mutex' = Nobody /\ Waiters' # {} => Len(queue') <= Cardinality(Woken')
        /\ mutex' # Nobody /\ Waiters' # {} /\ nnotify' # -1 =>
             Len(queue') <= nnotify' + Cardinality(Woken')
    <3>1. Waiters' # {} => Waiters # {}
      BY <2>4
    <3> QED BY <1>s, <1>t, <1>c, <1>i, <2>1, <2>5, <3>1
  <2> QED BY <1>g, <2>6, <2>7
(* The calls that end without a wait keep the mutex, and their thread is   *)
(* no longer among the woken ones.                                         *)
<1>r. ASSUME NEW t \in Thread, at[t] \in Inside, Return(t)
      PROVE  /\ SignalsCounted' /\ mutex = t /\ mutex' = t /\ t # Nobody
             /\ Waiters' = Waiters /\ Woken' = Woken \ {t}
             /\ Cardinality(Woken') = IF at[t] = "awake" THEN Cardinality(Woken) - 1
                                      ELSE Cardinality(Woken)
  <2>1. /\ at'[t] = "held" /\ mutex = t /\ mutex' = t
        /\ \A u \in Thread \ {t} : at'[u] = at[u]
    BY <1>t, <1>r, ReturnFacts
  <2>2. \A u \in Thread \ {t} : at[u] \notin Inside
    BY <1>t, <2>1 DEF MutualExclusion
  <2>3. SignalsCounted'
    BY <2>1, <2>2, NobodyAssumption DEF SignalsCounted, Inside
  <2>4. Waiters' = Waiters /\ Woken' = Woken \ {t} /\ (t \in Woken <=> at[t] = "awake")
    BY <1>r, <2>1 DEF Waiters, Woken, Inside
  <2>5. Cardinality(Woken \ {t}) = IF t \in Woken THEN Cardinality(Woken) - 1 ELSE Cardinality(Woken)
    BY <1>c, FS_RemoveElement
  <2> QED BY <2>1, <2>3, <2>4, <2>5, NobodyAssumption
<1>5. ASSUME NEW t \in Thread, PushBack(t) \/ PushFront(t) PROVE StrandInv'
  <2>1. /\ at[t] = "in" /\ call[t].op \in Pushes /\ Return(t) /\ Notify(Len(call[t].batch))
        /\ queue' = queue \o call[t].batch \/ queue' = Reverse(call[t].batch) \o queue
    BY <1>5 DEF PushBack, PushFront, Pushes
  <2> DEFINE b == call[t].batch
  <2>2. b \in Seq(Value) /\ Len(b) \in Nat
    BY <1>t, <2>1, CallFacts DEF CallsKnown
  <2>3. nnotify = 0 /\ nnotify' = nnotify + Len(b)
    BY <1>t, <2>1 DEF SignalsCounted, Notify
  <2>q. queue' = queue \o b \/ queue' = Reverse(b) \o queue
    BY <2>1
  <2> HIDE DEF b
  <2>4. Len(queue') = Len(queue) + Len(b)
    <3>1. Reverse(b) \in Seq(Value) /\ Len(Reverse(b)) = Len(b)
      BY <2>2, ReverseFacts
    <3>2. Len(queue \o b) = Len(queue) + Len(b) /\ Len(Reverse(b) \o queue) = Len(b) + Len(queue)
      BY <1>t, <2>2, <3>1, ConcatFacts
    <3> QED BY <1>t, <2>2, <2>q, <3>2
  <2>5. /\ SignalsCounted' /\ mutex = t /\ mutex' = t /\ t # Nobody /\ Waiters' = Waiters
        /\ Cardinality(Woken') = Cardinality(Woken)
    BY <1>r, <2>1 DEF Inside
  <2>6. Waiters' # {} => Len(queue') <= nnotify' + Cardinality(Woken')
    BY <1>s, <1>c, <1>t, <2>2, <2>3, <2>4, <2>5
  <2> QED BY <1>g, <2>5, <2>6
<1>6. ASSUME NEW t \in Thread, NothingFound(t) \/ SizeOrEmpty(t) PROVE StrandInv'
  <2>1. /\ at[t] \in Inside /\ Return(t) /\ UNCHANGED <<nnotify, queue>>
        /\ at[t] = "awake" => queue = << >>
    BY <1>6 DEF NothingFound, SizeOrEmpty, Inside
  <2>2. /\ SignalsCounted' /\ mutex = t /\ mutex' = t /\ t # Nobody /\ Waiters' = Waiters
        /\ at[t] # "awake" => Cardinality(Woken') = Cardinality(Woken)
    BY <1>r, <2>1
  <2>3. Waiters' # {} /\ nnotify' # -1 => Len(queue') <= nnotify' + Cardinality(Woken')
    <3>1. CASE at[t] = "awake"
      <4>1. Len(queue') = 0
        BY <2>1, <3>1
      <4> QED BY <1>c, <1>i, <4>1
    <3>2. CASE at[t] # "awake"
      BY <1>s, <2>1, <2>2, <3>2
    <3> QED BY <3>1, <3>2
  <2> QED BY <1>g, <2>2, <2>3
<1>7. ASSUME NEW t \in Thread, PopFront(t) PROVE StrandInv'
  <2>1. /\ at[t] \in {"in", "awake"} /\ at[t] \in Inside /\ queue # << >> /\ Return(t)
        /\ nnotify' = nnotify /\ queue' = Tail(queue)
    BY <1>7 DEF PopFront, Found, Inside
  <2>2. nnotify = 0 /\ nnotify' = 0
    BY <1>t, <2>1 DEF SignalsCounted
  <2>3. Len(queue') = Len(queue) - 1
    BY <1>t, <2>1, TailFacts
  <2>4. /\ SignalsCounted' /\ mutex = t /\ mutex' = t /\ t # Nobody /\ Waiters' = Waiters
        /\ \/ Cardinality(Woken') = Cardinality(Woken)
           \/ Cardinality(Woken') = Cardinality(Woken) - 1
    BY <1>r, <2>1
  <2>5. Waiters' # {} => Len(queue') <= nnotify' + Cardinality(Woken')
    BY <1>s, <1>c, <1>t, <1>i, <2>2, <2>3, <2>4
  <2> QED BY <1>g, <2>4, <2>5
<1>8. ASSUME NEW t \in Thread, Swap(t) \/ ClearQueue(t) \/ NotifyT(t) PROVE StrandInv'
  <2>1. at[t] \in Inside /\ Return(t) /\ (nnotify' = -1 \/ queue' = << >>)
    BY <1>8 DEF Swap, ClearQueue, NotifyT, Found, Inside
  <2>2. SignalsCounted' /\ mutex' = t /\ t # Nobody
    BY <1>r, <2>1
  <2>3. nnotify' # -1 => Len(queue') <= nnotify' + Cardinality(Woken')
    <3>1. queue' = << >> => Len(queue') = 0
      OBVIOUS
    <3> QED BY <1>c, <1>i, <2>1, <3>1
  <2> QED BY <1>g, <2>2, <2>3
(* A thread that begins to wait has found the queue empty and owes nobody  *)
(* a signal.                                                               *)
<1>9. ASSUME NEW t \in Thread, WaitForElement(t) PROVE StrandInv'
  <2>1. /\ at[t] = "in" /\ at[t] \in Inside /\ call[t].op \in Pops /\ queue = << >> /\ queue' = queue
    BY <1>9 DEF WaitForElement, Inside
  <2>2. nnotify = 0 /\ Len(queue') = 0
    BY <1>t, <2>1 DEF SignalsCounted
  <2>3. call[t].millsecond \in {"zero", "ever", "some"}
    BY <1>t, <2>1, CallFacts DEF CallsKnown
  <2>4. \/ Return(t) /\ UNCHANGED nnotify
        \/ \E there \in {"wait", "timedWait"} : LeaveMutex(t, there)
    BY <1>9, <2>3 DEF WaitForElement, MonitorWait, MonitorTimedWait
  <2>5. nnotify' = 0
    BY <2>2, <2>4 DEF LeaveMutex
  <2>6. SignalsCounted'
    BY <2>5 DEF SignalsCounted
  <2>7. Len(queue') <= nnotify' + Cardinality(Woken') /\ Len(queue') <= Cardinality(Woken')
    BY <1>c, <2>2, <2>5
  <2> QED BY <1>g, <2>6, <2>7
<1>10. ASSUME NEW t \in Thread, Unlock(t) PROVE StrandInv'
  <2>1. at[t] = "held" /\ at[t] \in Inside /\ LeaveMutex(t, "out") /\ queue' = queue
    BY <1>10 DEF Unlock, MonitorUnlock, Inside
  <2>2. "out" \in Place \ Inside
    BY DEF Place, Inside
  <2>3. /\ MutualExclusion' /\ at'[t] = "out" /\ mutex = t
        /\ \E W \in WokenBy(nnotify) :
              /\ W \subseteq Waiters /\ t \notin W
              /\ \A u \in W : at'[u] = "signalled"
              /\ \A u \in Thread \ (W \cup {t}) : at'[u] = at[u]
    BY <1>t, <2>1, <2>2, LeaveFacts
  <2>4. PICK W \in WokenBy(nnotify) :
              /\ W \subseteq Waiters /\ t \notin W
              /\ \A u \in W : at'[u] = "signalled"
              /\ \A u \in Thread \ (W \cup {t}) : at'[u] = at[u]
    BY <2>3
  <2>5. mutex' = Nobody /\ nnotify' = nnotify /\ mutex # Nobody
    BY <2>1, <2>3, NobodyAssumption DEF LeaveMutex
  <2>6. W \subseteq Thread /\ t \notin Waiters /\ t \notin Woken
    BY <2>1, <2>4 DEF Waiters, Woken
  <2>7. Waiters' = Waiters \ W
    BY <2>3, <2>4, <2>6 DEF Waiters
  <2>8. Woken' = Woken \cup W /\ Woken \cap W = {}
    BY <2>3, <2>4, <2>6 DEF Waiters, Woken
  <2>9. IsFiniteSet(W) /\ Cardinality(W) \in Nat
    BY <1>c, <2>4, FS_Subset, FS_CardinalityType
  <2>10. Cardinality(Woken') = Cardinality(Woken) + Cardinality(W)
    <3>1. Cardinality(Woken \cup W) = Cardinality(Woken) + Cardinality(W) - Cardinality(Woken \cap W)
      BY <1>c, <2>9, FS_Union
    <3>2. Cardinality(Woken \cap W) = 0
      BY <2>8, FS_EmptySet
    <3> QED BY <1>c, <2>8, <2>9, <3>1, <3>2
  <2>11. CASE nnotify = -1
    <3>1. W = Waiters /\ Waiters' = {}
      BY <2>4, <2>7, <2>11 DEF WokenBy
    <3>2. SignalsCounted'
      BY <2>3, <2>5, <3>1, NobodyAssumption DEF SignalsCounted, MutualExclusion, Inside
    <3> QED BY <1>g, <2>5, <3>1, <3>2
  <2>12. CASE nnotify # -1
    <3>1. nnotify \in Nat
      BY <1>i, <2>12
    <3>2. SignalsCounted'
      BY <2>3, <2>5, <2>12, NobodyAssumption DEF SignalsCounted, MutualExclusion, Inside
    <3>3. Cardinality(W) = nnotify \/ Cardinality(W) = Cardinality(Waiters)
      BY <2>4, <2>12 DEF WokenBy
    <3>4. CASE Cardinality(W) = Cardinality(Waiters)
      <4>1. W = Waiters
        BY <1>c, <2>4, <3>4, FS_Subset
      <4> QED BY <1>g, <2>5, <2>7, <3>2, <4>1
    <3>5. CASE Cardinality(W) = nnotify
      <4>1. Waiters' # {} => Waiters # {}
        BY <2>7
      <4>2. Waiters' # {} => Len(queue') <= Cardinality(Woken')
        BY <1>s, <1>c, <2>1, <2>5, <2>10, <2>12, <3>1, <3>5, <4>1
      <4> QED BY <1>g, <2>5, <3>2, <4>2
    <3> QED BY <3>3, <3>4, <3>5
  <2> QED BY <2>11, <2>12
<1>11. CASE UNCHANGED threadQueueVars
  <2>1. UNCHANGED <<mutex, nnotify, at, queue>>
    BY <1>11 DEF threadQueueVars, monitor
  <2>2. Waiters' = Waiters /\ Woken' = Woken
    BY <2>1 DEF Waiters, Woken
  <2>3. SignalsCounted'
    BY <1>t, <2>1, <2>2 DEF SignalsCounted
  <2> QED BY <1>g, <1>s, <2>1, <2>2, <2>3
<1> QED BY <1>1, <1>2, <1>3, <1>4, <1>5, <1>6, <1>7, <1>8, <1>9, <1>10, <1>11
     DEF ThreadQueueNext, Body

(* No element is stranded in the queue before a thread that sleeps in      *)
(* pop_front or swap, for every number of threads: those that were         *)
(* signalled, or will be when the mutex is given up, are as many as the    *)
(* elements, although the signals are counted and sent late.               *)
THEOREM NoSleeperBesideElements == ThreadQueueSpec => []NoElementStranded
<1>1. ThreadQueueInit => StrandInv
  <2> SUFFICES ASSUME ThreadQueueInit PROVE StrandInv
    OBVIOUS
  <2>1. Waiters = {} /\ SignalsCounted
    BY DEF ThreadQueueInit, MonitorInit, Waiters, SignalsCounted
  <2>2. NoElementStranded
    BY <2>1 DEF NoElementStranded
  <2> QED BY <2>1, <2>2, QueueInvInit DEF StrandInv
<1>2. StrandInv => NoElementStranded
  BY DEF StrandInv
<1> QED BY <1>1, <1>2, StrandStep, PTL DEF ThreadQueueSpec

-----------------------------------------------------------------------------
(***************************************************************************)
(* The output buffer of the streams.                                       *)
(***************************************************************************)
Cell == Octet \cup {Uninit}

(* What a writer has in its block, byte by byte.                           *)
WriterTypes ==
    /\ block \in [Writer -> Seq(Cell)] /\ len \in [Writer -> Nat]
    /\ written \in [Writer -> Seq(Octet)] /\ mixed \in [Writer -> BOOLEAN]

Held(w) ==
    /\ len[w] <= Len(block[w])
    /\ \A i \in 1 .. len[w] : block[w][i] # Uninit
    /\ ~mixed[w] => Len(written[w]) = len[w] /\ \A i \in 1 .. len[w] : block[w][i] = written[w][i]

WriterInv == WriterTypes /\ \A w \in Writer : Held(w)

(* The front of a block is the sequence with the same bytes.               *)
LEMMA FrontIs ==
  ASSUME NEW S, NEW b \in Seq(S), NEW n \in Nat, n <= Len(b), NEW s \in Seq(S)
  PROVE  /\ SubSeq(b, 1, n) \in Seq(S) /\ Len(SubSeq(b, 1, n)) = n
         /\ \A i \in 1 .. n : SubSeq(b, 1, n)[i] = b[i]
         /\ SubSeq(b, 1, n) = s <=> Len(s) = n /\ \A i \in 1 .. n : b[i] = s[i]
<1>1. Len(b) \in Nat /\ \A i \in 1 .. n : b[i] \in S
  BY LenProperties, ElementOfSeq
<1>2. SubSeq(b, 1, n) \in Seq(S) /\ Len(SubSeq(b, 1, n)) = n /\ \A i \in 1 .. n : SubSeq(b, 1, n)[i] = b[i]
  BY <1>1, SubSeqProperties
<1>3. ASSUME Len(s) = n, \A i \in 1 .. n : b[i] = s[i] PROVE SubSeq(b, 1, n) = s
  BY <1>2, <1>3, SeqEqual
<1> QED BY <1>2, <1>3

(* A moved block begins with the bytes in use.                             *)
LEMMA MovedFacts ==
  ASSUME NEW b \in Seq(Cell), NEW held \in Nat, held <= Len(b), NEW n \in Nat, held <= n
  PROVE  /\ Moved(b, held, n) \in Seq(Cell) /\ Len(Moved(b, held, n)) = n
         /\ \A i \in 1 .. held : Moved(b, held, n)[i] = b[i]
<1>1. Len(b) \in Nat /\ \A i \in 1 .. Len(b) : b[i] \in Cell
  BY LenProperties, ElementOfSeq
<1>2. \A i \in 1 .. n : (IF i <= held THEN b[i] ELSE Uninit) \in Cell
  BY <1>1 DEF Cell
<1>3. Moved(b, held, n) \in [1 .. n -> Cell] /\ \A i \in 1 .. held : Moved(b, held, n)[i] = b[i]
  BY <1>2 DEF Moved
<1> QED BY <1>3

(* The write macros: the block is large enough, keeps the bytes in use and *)
(* has the new ones behind them.                                           *)
LEMMA AppendedFacts ==
  ASSUME NEW b \in Seq(Cell), NEW held \in Nat, held <= Len(b), NEW bytes \in Seq(Cell)
  PROVE  /\ Appended(b, held, bytes) \in Seq(Cell)
         /\ held + Len(bytes) <= Len(Appended(b, held, bytes))
         /\ \A i \in 1 .. held : Appended(b, held, bytes)[i] = b[i]
         /\ \A i \in 1 .. Len(bytes) : Appended(b, held, bytes)[held + i] = bytes[i]
<1>1. Len(bytes) \in Nat /\ Len(b) \in Nat /\ \A i \in 1 .. Len(bytes) : bytes[i] \in Cell
  BY LenProperties, ElementOfSeq
<1>2. PICK k \in Nat : k = Len(bytes)
  BY <1>1
<1>3. PICK r : r = ReserveBuf(b, held, held + k)
  OBVIOUS
<1>4. r \in Seq(Cell) /\ Len(r) \in Nat /\ held + k <= Len(r) /\ \A i \in 1 .. held : r[i] = b[i]
  <2>1. CASE Len(b) < held + k
    <3>1. 2 * (held + k) \in Nat /\ held <= 2 * (held + k) /\ held + k <= 2 * (held + k)
      OBVIOUS
    <3>2. r = Moved(b, held, 2 * (held + k))
      BY <1>3, <2>1 DEF ReserveBuf
    <3> QED BY <3>1, <3>2, MovedFacts
  <2>2. CASE ~(Len(b) < held + k)
    BY <1>1, <1>3, <2>2 DEF ReserveBuf
  <2> QED BY <2>1, <2>2
<1>5. \A i \in 1 .. Len(r) : r[i] \in Cell
  BY <1>4, ElementOfSeq
<1>6. Appended(b, held, bytes)
        = [i \in 1 .. Len(r) |-> IF i > held /\ i <= held + k THEN bytes[i - held] ELSE r[i]]
  BY <1>2, <1>3 DEF Appended, Stored
<1>7. \A i \in 1 .. Len(r) : (IF i > held /\ i <= held + k THEN bytes[i - held] ELSE r[i]) \in Cell
  <2> SUFFICES ASSUME NEW i \in 1 .. Len(r), i > held, i <= held + k PROVE bytes[i - held] \in Cell
    BY <1>5
  <2>1. i - held \in 1 .. k
    BY <1>4
  <2> QED BY <1>1, <1>2, <2>1
<1>8. Appended(b, held, bytes) \in [1 .. Len(r) -> Cell]
  BY <1>6, <1>7
<1>9. Appended(b, held, bytes) \in Seq(Cell) /\ Len(Appended(b, held, bytes)) = Len(r)
  <2>1. \A n \in Nat : \A q \in [1 .. n -> Cell] : q \in Seq(Cell) /\ Len(q) = n
    OBVIOUS
  <2> QED BY <1>4, <1>8, <2>1
<1>10. ASSUME NEW i \in 1 .. held PROVE Appended(b, held, bytes)[i] = b[i]
  <2>1. i \in 1 .. Len(r) /\ ~(i > held)
    BY <1>4
  <2> QED BY <1>4, <1>6, <2>1
<1>11. ASSUME NEW i \in 1 .. k PROVE Appended(b, held, bytes)[held + i] = bytes[i]
  <2>1. held + i \in 1 .. Len(r) /\ held + i > held /\ held + i <= held + k /\ (held + i) - held = i
    BY <1>4
  <2> QED BY <1>6, <2>1
<1> QED BY <1>2, <1>4, <1>9, <1>10, <1>11

(* A step that gives one writer what it holds, and leaves the others.      *)
LEMMA OneWriter ==
  ASSUME WriterInv, NEW w \in Writer, NEW b \in Seq(Cell), NEW n \in Nat, NEW s \in Seq(Octet),
         NEW m \in BOOLEAN,
         block' = [block EXCEPT ![w] = b], len' = [len EXCEPT ![w] = n],
         written' = [written EXCEPT ![w] = s], mixed' = [mixed EXCEPT ![w] = m],
         n <= Len(b), \A i \in 1 .. n : b[i] # Uninit,
         ~m => Len(s) = n /\ \A i \in 1 .. n : b[i] = s[i]
  PROVE  WriterInv'
<1>1. block' \in [Writer -> Seq(Cell)] /\ len' \in [Writer -> Nat] /\ written' \in [Writer -> Seq(Octet)]
  BY DEF WriterInv, WriterTypes
<1>2. mixed' \in [Writer -> BOOLEAN]
  BY DEF WriterInv, WriterTypes
<1>3. /\ block'[w] = b /\ len'[w] = n /\ written'[w] = s
      /\ \A v \in Writer \ {w} : block'[v] = block[v] /\ len'[v] = len[v] /\ written'[v] = written[v]
  BY DEF WriterInv, WriterTypes
<1>4. mixed'[w] = m /\ \A v \in Writer \ {w} : mixed'[v] = mixed[v]
  BY DEF WriterInv, WriterTypes
<1>5. ASSUME NEW v \in Writer PROVE Held(v)'
  <2>1. CASE v = w
    BY <1>3, <1>4, <2>1 DEF Held
  <2>2. CASE v # w
    BY <1>3, <1>4, <2>2 DEF WriterInv, Held
  <2> QED BY <2>1, <2>2
<1> QED BY <1>1, <1>2, <1>5 DEF WriterInv, WriterTypes

(* What is known of one writer                                             *)
LEMMA WriterFacts ==
  ASSUME WriterInv, NEW w \in Writer
  PROVE  /\ block[w] \in Seq(Cell) /\ Len(block[w]) \in Nat /\ len[w] \in Nat /\ written[w] \in Seq(Octet)
         /\ mixed[w] \in BOOLEAN /\ Held(w) /\ len[w] <= Len(block[w])
         /\ Content(w) \in Seq(Cell) /\ Len(Content(w)) = len[w]
         /\ \A i \in 1 .. len[w] : Content(w)[i] = block[w][i]
<1>1. /\ block[w] \in Seq(Cell) /\ len[w] \in Nat /\ written[w] \in Seq(Octet) /\ Held(w)
      /\ len[w] <= Len(block[w])
  BY DEF WriterInv, WriterTypes, Held
<1>2. mixed[w] \in BOOLEAN
  BY DEF WriterInv, WriterTypes
<1>3. Len(block[w]) \in Nat
  BY <1>1, LenProperties
<1>4. /\ SubSeq(block[w], 1, len[w]) \in Seq(Cell) /\ Len(SubSeq(block[w], 1, len[w])) = len[w]
      /\ \A i \in 1 .. len[w] : SubSeq(block[w], 1, len[w])[i] = block[w][i]
  BY <1>1, FrontIs
<1> QED BY <1>1, <1>2, <1>3, <1>4 DEF Content

(* writeBuf and the write macros                                           *)
LEMMA WriteStep ==
  ASSUME WriterInv, NEW w \in Writer, NEW bytes \in Seq(Octet), WriteBuf(w, bytes) PROVE WriterInv'
<1> DEFINE b == Appended(block[w], len[w], bytes)
           n == len[w] + Len(bytes)
           s == written[w] \o bytes
<1>1. Octet \subseteq Cell /\ Uninit \notin Octet
  BY WriterAssumption DEF Cell
<1>2. bytes \in Seq(Cell) /\ Len(bytes) \in Nat /\ \A i \in 1 .. Len(bytes) : bytes[i] \in Octet
  BY <1>1, LenProperties, ElementOfSeq
<1>3. /\ b \in Seq(Cell) /\ n <= Len(b) /\ \A i \in 1 .. len[w] : b[i] = block[w][i]
      /\ \A i \in 1 .. Len(bytes) : b[len[w] + i] = bytes[i]
  BY <1>2, WriterFacts, AppendedFacts
<1>4. /\ block' = [block EXCEPT ![w] = b] /\ len' = [len EXCEPT ![w] = n]
      /\ written' = [written EXCEPT ![w] = s] /\ mixed' = mixed
  BY DEF WriteBuf
<1>5. /\ s \in Seq(Octet) /\ Len(s) = Len(written[w]) + Len(bytes)
      /\ \A i \in 1 .. Len(s) :
           s[i] = IF i <= Len(written[w]) THEN written[w][i] ELSE bytes[i - Len(written[w])]
  BY WriterFacts, ConcatProperties
<1> HIDE DEF b, s
<1>6. len[w] \in Nat /\ n \in Nat
  BY <1>2, WriterFacts
<1>7. ASSUME NEW i \in 1 .. n PROVE i \in 1 .. len[w] \/ \E j \in 1 .. Len(bytes) : i = len[w] + j
  <2>1. ASSUME i > len[w] PROVE i - len[w] \in 1 .. Len(bytes) /\ i = len[w] + (i - len[w])
    BY <1>2, <1>6, <2>1
  <2> QED BY <1>6, <2>1
<1>8. \A i \in 1 .. n : b[i] # Uninit
  <2>1. \A i \in 1 .. len[w] : b[i] # Uninit
    BY <1>3, WriterFacts DEF Held
  <2>2. \A j \in 1 .. Len(bytes) : b[len[w] + j] # Uninit
    BY <1>1, <1>2, <1>3
  <2> QED BY <1>7, <2>1, <2>2
<1>9. ASSUME ~mixed[w] PROVE Len(s) = n /\ \A i \in 1 .. n : b[i] = s[i]
  <2>1. Len(written[w]) = len[w] /\ \A i \in 1 .. len[w] : block[w][i] = written[w][i]
    BY <1>9, WriterFacts DEF Held
  <2>2. Len(s) = n
    BY <1>5, <2>1
  <2>3. ASSUME NEW i \in 1 .. len[w] PROVE b[i] = s[i]
    <3>1. i \in 1 .. Len(s) /\ i <= Len(written[w])
      BY <1>2, <1>6, <2>1, <2>2
    <3> QED BY <1>3, <1>5, <2>1, <3>1
  <2>4. ASSUME NEW j \in 1 .. Len(bytes) PROVE b[len[w] + j] = s[len[w] + j]
    <3>1. /\ len[w] + j \in 1 .. Len(s) /\ ~(len[w] + j <= Len(written[w]))
          /\ (len[w] + j) - Len(written[w]) = j
      BY <1>2, <1>6, <2>1, <2>2
    <3> QED BY <1>3, <1>5, <3>1
  <2> QED BY <1>7, <2>2, <2>3, <2>4
<1>10. mixed' = [mixed EXCEPT ![w] = mixed[w]]
  BY <1>4 DEF WriterInv, WriterTypes
<1>11. mixed[w] \in BOOLEAN
  BY WriterFacts
<1> HIDE DEF n
<1> QED BY <1>3, <1>4, <1>5, <1>6, <1>8, <1>9, <1>10, <1>11, OneWriter

(* reserve() and reset()                                                   *)
LEMMA ReserveStep ==
  ASSUME WriterInv, NEW w \in Writer, (\E n \in 1 .. MaxLen : Reserve(w, n)) \/ Reset(w) PROVE WriterInv'
<1>1. CASE Reset(w)
  <2>1. << >> \in Seq(Octet) /\ Len(<< >>) = 0 /\ 0 <= Len(block[w])
    BY WriterFacts
  <2>2. /\ block' = [block EXCEPT ![w] = block[w]] /\ len' = [len EXCEPT ![w] = 0]
        /\ written' = [written EXCEPT ![w] = << >>]
    BY <1>1 DEF Reset, WriterInv, WriterTypes
  <2>3. mixed' = [mixed EXCEPT ![w] = FALSE]
    BY <1>1 DEF Reset
  <2>4. block[w] \in Seq(Cell) /\ 0 \in Nat /\ FALSE \in BOOLEAN /\ 1 .. 0 = {}
    BY WriterFacts
  <2> QED BY <2>1, <2>2, <2>3, <2>4, OneWriter
<1>2. ASSUME NEW n \in 1 .. MaxLen, Reserve(w, n) PROVE WriterInv'
  <2>1. PICK b : /\ b = IF Len(block[w]) >= n THEN block[w]
                        ELSE Moved(block[w], len[w], IF 2 * n < MinReserve THEN MinReserve ELSE 2 * n)
                 /\ block' = [block EXCEPT ![w] = b]
    BY <1>2 DEF Reserve
  <2>2. b \in Seq(Cell) /\ len[w] <= Len(b) /\ \A i \in 1 .. len[w] : b[i] = block[w][i]
    <3>1. CASE Len(block[w]) >= n
      BY <2>1, <3>1, WriterFacts
    <3>2. CASE ~(Len(block[w]) >= n)
      <4>1. PICK k \in Nat : /\ k = IF 2 * n < MinReserve THEN MinReserve ELSE 2 * n
                             /\ n <= k
        BY WriterAssumption
      <4>2. b = Moved(block[w], len[w], k) /\ len[w] <= k
        BY <2>1, <3>2, <4>1, WriterFacts
      <4>3. block[w] \in Seq(Cell) /\ len[w] \in Nat /\ len[w] <= Len(block[w])
        BY WriterFacts
      <4>4. /\ Moved(block[w], len[w], k) \in Seq(Cell) /\ Len(Moved(block[w], len[w], k)) = k
            /\ \A i \in 1 .. len[w] : Moved(block[w], len[w], k)[i] = block[w][i]
        BY <4>1, <4>2, <4>3, MovedFacts
      <4> QED BY <4>2, <4>4
    <3> QED BY <3>1, <3>2
  <2>3. len' = [len EXCEPT ![w] = len[w]] /\ written' = [written EXCEPT ![w] = written[w]]
    BY <1>2 DEF Reserve, WriterInv, WriterTypes
  <2>4. mixed' = [mixed EXCEPT ![w] = mixed[w]]
    BY <1>2 DEF Reserve, WriterInv, WriterTypes
  <2>5. (\A i \in 1 .. len[w] : b[i] # Uninit) /\
        (~mixed[w] => Len(written[w]) = len[w] /\ \A i \in 1 .. len[w] : b[i] = written[w][i])
    BY <2>2, WriterFacts DEF Held
  <2>6. mixed[w] \in BOOLEAN /\ len[w] \in Nat /\ written[w] \in Seq(Octet)
    BY WriterFacts
  <2> QED BY <2>1, <2>2, <2>3, <2>4, <2>5, <2>6, OneWriter
<1> QED BY <1>1, <1>2

(* The copy constructor and operator=                                      *)
LEMMA CopyStep ==
  ASSUME WriterInv, NEW w \in Writer, NEW v \in Writer, Copy(w, v) \/ Assign(w, v) PROVE WriterInv'
<1>1. PICK u \in Nat, a \in Seq(Cell), m \in BOOLEAN :
        /\ u <= Len(a) /\ block' = [block EXCEPT ![w] = Appended(a, u, Content(v))]
        /\ \A i \in 1 .. u : a[i] # Uninit
        /\ mixed' = [mixed EXCEPT ![w] = m] /\ (~m => u = 0 /\ ~mixed[v])
  <2>1. CASE Copy(w, v)
    <3>1. /\ 0 \in Nat /\ << >> \in Seq(Cell) /\ 0 <= Len(<< >>)
          /\ block' = [block EXCEPT ![w] = Appended(<< >>, 0, Content(v))]
          /\ \A i \in 1 .. 0 : << >>[i] # Uninit
      BY <2>1 DEF Copy
    <3>2. mixed' = [mixed EXCEPT ![w] = mixed[v]] /\ mixed[v] \in BOOLEAN
      BY <2>1, WriterFacts DEF Copy
    <3> QED BY <3>1, <3>2
  <2>2. CASE Assign(w, v)
    <3>1. /\ len[w] \in Nat /\ block[w] \in Seq(Cell) /\ len[w] <= Len(block[w])
          /\ block' = [block EXCEPT ![w] = Appended(block[w], len[w], Content(v))]
          /\ \A i \in 1 .. len[w] : block[w][i] # Uninit
      BY <2>2, WriterFacts DEF Assign, Held
    <3>2. PICK m \in BOOLEAN : m = (len[w] > 0 \/ mixed[v])
      OBVIOUS
    <3>3. mixed' = [mixed EXCEPT ![w] = m]
      BY <2>2, <3>2 DEF Assign
    <3>4. ~m => ~(len[w] > 0) /\ ~mixed[v]
      BY <3>2, Zenon
    <3>5. ~(len[w] > 0) => len[w] = 0
      BY <3>1
    <3>6. ~m => len[w] = 0 /\ ~mixed[v]
      BY <3>4, <3>5
    <3> QED BY <3>1, <3>3, <3>6
  <2> QED BY <2>1, <2>2
<1>2. /\ len' = [len EXCEPT ![w] = len[v]] /\ written' = [written EXCEPT ![w] = written[v]]
      /\ len[v] \in Nat /\ written[v] \in Seq(Octet)
  BY WriterFacts DEF Copy, Assign
<1>3. PICK b : b = Appended(a, u, Content(v))
  OBVIOUS
<1>4. /\ b \in Seq(Cell) /\ u + len[v] <= Len(b) /\ \A i \in 1 .. u : b[i] = a[i]
      /\ \A i \in 1 .. len[v] : b[u + i] = block[v][i]
  <2>1. PICK bytes \in Seq(Cell) : bytes = Content(v)
    BY WriterFacts
  <2>2. Len(bytes) = len[v] /\ \A i \in 1 .. len[v] : bytes[i] = block[v][i]
    BY <2>1, WriterFacts
  <2>3. /\ b \in Seq(Cell) /\ u + Len(bytes) <= Len(b) /\ \A i \in 1 .. u : b[i] = a[i]
        /\ \A i \in 1 .. Len(bytes) : b[u + i] = bytes[i]
    BY <1>1, <1>3, <2>1, AppendedFacts
  <2> QED BY <2>2, <2>3
<1>5. len[v] <= Len(b)
  BY <1>2, <1>4, LenProperties
<1>6. ASSUME NEW i \in 1 .. len[v] PROVE b[i] # Uninit
  <2>1. CASE i <= u
    <3>1. i \in 1 .. u
      BY <2>1
    <3> QED BY <1>1, <1>4, <3>1
  <2>2. CASE ~(i <= u)
    <3>1. i - u \in 1 .. len[v] /\ u + (i - u) = i
      BY <1>2, <2>2
    <3>2. block[v][i - u] # Uninit
      BY <3>1, WriterFacts DEF Held
    <3> QED BY <1>4, <3>1, <3>2
  <2> QED BY <2>1, <2>2
<1>7. ASSUME ~m PROVE Len(written[v]) = len[v] /\ \A i \in 1 .. len[v] : b[i] = written[v][i]
  <2>1. u = 0 /\ ~mixed[v] /\ \A i \in 1 .. len[v] : 0 + i = i
    BY <1>1, <1>7
  <2>2. Len(written[v]) = len[v] /\ \A i \in 1 .. len[v] : block[v][i] = written[v][i]
    BY <2>1, WriterFacts DEF Held
  <2> QED BY <1>4, <2>1, <2>2
<1> QED BY <1>1, <1>2, <1>3, <1>4, <1>5, <1>6, <1>7, OneWriter

(* swap(BufferWriter&)                                                     *)
LEMMA SwapStep ==
  ASSUME WriterInv, NEW w \in Writer, NEW v \in Writer, SwapWriters(w, v) PROVE WriterInv'
<1>1. /\ block' = [block EXCEPT ![w] = block[v], ![v] = block[w]]
      /\ len' = [len EXCEPT ![w] = len[v], ![v] = len[w]]
      /\ written' = [written EXCEPT ![w] = written[v], ![v] = written[w]]
      /\ mixed' = [mixed EXCEPT ![w] = mixed[v], ![v] = mixed[w]]
  BY DEF SwapWriters
<1>2. block' \in [Writer -> Seq(Cell)] /\ len' \in [Writer -> Nat] /\ written' \in [Writer -> Seq(Octet)]
  BY <1>1 DEF WriterInv, WriterTypes
<1>3. mixed' \in [Writer -> BOOLEAN]
  BY <1>1 DEF WriterInv, WriterTypes
<1>4. ASSUME NEW x \in Writer
      PROVE  \E y \in Writer : /\ block'[x] = block[y] /\ len'[x] = len[y] /\ written'[x] = written[y]
                               /\ mixed'[x] = mixed[y]
  <2>1. PICK y \in Writer : /\ x = v => y = w
                            /\ x # v /\ x = w => y = v
                            /\ x # v /\ x # w => y = x
    OBVIOUS
  <2>2. block'[x] = block[y] /\ len'[x] = len[y] /\ written'[x] = written[y]
    BY <1>1, <2>1 DEF WriterInv, WriterTypes
  <2>3. mixed'[x] = mixed[y]
    BY <1>1, <2>1 DEF WriterInv, WriterTypes
  <2> QED BY <2>2, <2>3
<1>5. \A x \in Writer : Held(x)'
  <2> SUFFICES ASSUME NEW x \in Writer PROVE Held(x)'
    OBVIOUS
  <2>1. PICK y \in Writer : /\ block'[x] = block[y] /\ len'[x] = len[y] /\ written'[x] = written[y]
                            /\ mixed'[x] = mixed[y]
    BY <1>4
  <2>2. Held(y)
    BY DEF WriterInv
  <2> QED BY <2>1, <2>2 DEF Held
<1> QED BY <1>2, <1>3, <1>5 DEF WriterInv, WriterTypes

(* Every step of a writer keeps the invariant.                             *)
LEMMA WriterInvStep == WriterInv /\ [WriterNext]_writerVars => WriterInv'
<1> SUFFICES ASSUME WriterInv, [WriterNext]_writerVars PROVE WriterInv'
  OBVIOUS
<1>1. CASE UNCHANGED writerVars
  BY <1>1 DEF WriterInv, WriterTypes, Held, writerVars
<1>2. ASSUME NEW n \in 1 .. MaxWrite, NEW o \in Octet PROVE [i \in 1 .. n |-> o] \in Seq(Octet)
  <2>1. n \in Nat /\ [i \in 1 .. n |-> o] \in [1 .. n -> Octet]
    BY WriterAssumption
  <2> QED BY <2>1
<1> QED BY <1>1, <1>2, WriteStep, ReserveStep, CopyStep, SwapStep DEF WriterNext

(* A stream holds the bytes written since it was reset, for every number   *)
(* of writers, every write and every size reserve() is asked for: growth,  *)
(* copy and swap keep them, _len stays inside the block, and no reader is  *)
(* given uninitialized memory.                                             *)
THEOREM StreamHoldsItsBytes == WriterSpec => []WriterHolds
<1>1. WriterInit => WriterInv
  <2> SUFFICES ASSUME WriterInit PROVE WriterInv
    OBVIOUS
  <2>1. block \in [Writer -> Seq(Cell)] /\ len \in [Writer -> Nat] /\ written \in [Writer -> Seq(Octet)]
    BY DEF WriterInit
  <2>2. mixed \in [Writer -> BOOLEAN]
    BY DEF WriterInit
  <2>3. \A w \in Writer : Held(w)
    <3> SUFFICES ASSUME NEW w \in Writer PROVE Held(w)
      OBVIOUS
    <3>1. block[w] = << >> /\ len[w] = 0 /\ written[w] = << >>
      BY DEF WriterInit
    <3>2. Len(block[w]) = 0 /\ Len(written[w]) = 0 /\ 1 .. len[w] = {}
      BY <3>1
    <3> QED BY <3>1, <3>2 DEF Held
  <2> QED BY <2>1, <2>2, <2>3 DEF WriterInv, WriterTypes
<1>2. WriterInv => WriterHolds
  <2> SUFFICES ASSUME WriterInv, NEW w \in Writer
               PROVE  /\ len[w] <= Len(block[w])
                      /\ \A i \in 1 .. len[w] : block[w][i] # Uninit
                      /\ ~mixed[w] => Content(w) = written[w]
    BY DEF WriterHolds
  <2>1. written[w] \in Seq(Cell)
    BY WriterFacts DEF Cell
  <2>2. ~mixed[w] => SubSeq(block[w], 1, len[w]) = written[w]
    BY <2>1, WriterFacts, FrontIs DEF Held
  <2> QED BY <2>2, WriterFacts DEF Held, Content
<1> QED BY <1>1, <1>2, WriterInvStep, PTL DEF WriterSpec


-----------------------------------------------------------------------------
(***************************************************************************)
(* The numbers of the threads.                                             *)
(***************************************************************************)

(* w is the list: the free numbers, once each, from _free along next to    *)
(* _freeTail.                                                              *)
FreeChain(w) ==
    /\ w \in Seq(Seqs) /\ IsInjective(w)
    /\ ToSet(w) = {i \in Seqs : isFree[i]}
    /\ w = << >> => free = MAX_UNSIGN_SHORT /\ freeTail = MAX_UNSIGN_SHORT
    /\ w # << >> => /\ free = w[1] /\ freeTail = w[Len(w)]
                    /\ next[w[Len(w)]] = MAX_UNSIGN_SHORT
    /\ \A i \in 1 .. Len(w) - 1 : next[w[i]] = w[i + 1]

SeqInv ==
    /\ next \in [Seqs -> Seqs \cup {MAX_UNSIGN_SHORT}] /\ isFree \in [Seqs -> BOOLEAN]
    /\ \E w \in Seq(Seqs) : FreeChain(w)

(* The constructor chains all numbers in their order.                      *)
LEMMA SeqInvInit == SeqInit => SeqInv
<1> SUFFICES ASSUME SeqInit PROVE SeqInv
  OBVIOUS
<1> DEFINE w == [i \in 1 .. Num |-> i - 1]
<1>1. /\ Num \in Nat \ {0} /\ MAX_UNSIGN_SHORT \in Nat
  BY SeqAssumption
<1>2. /\ w \in Seq(Seqs) /\ Len(w) = Num /\ DOMAIN w = 1 .. Num
      /\ \A i \in 1 .. Num : w[i] = i - 1
  BY <1>1 DEF Seqs
<1> HIDE DEF w
<1>3. \A i \in Seqs : i + 1 \in 1 .. Num /\ w[i + 1] = i
  <2>1. ASSUME NEW i \in Seqs PROVE i + 1 \in 1 .. Num /\ (i + 1) - 1 = i
    BY <1>1 DEF Seqs
  <2> QED BY <1>2, <2>1
<1>4. ToSet(w) = Seqs
  <2>1. ToSet(w) \subseteq Seqs
    BY <1>2, ToSetType
  <2>2. Seqs \subseteq ToSet(w)
    BY <1>2, <1>3 DEF ToSet
  <2> QED BY <2>1, <2>2
<1>5. IsInjective(w)
  <2> SUFFICES ASSUME NEW i \in 1 .. Num, NEW j \in 1 .. Num, w[i] = w[j] PROVE i = j
    BY <1>2 DEF IsInjective
  <2>1. i - 1 = j - 1
    BY <1>2
  <2> QED BY <1>1, <2>1
<1>6. next \in [Seqs -> Seqs \cup {MAX_UNSIGN_SHORT}] /\ isFree \in [Seqs -> BOOLEAN]
  BY <1>1 DEF SeqInit, Seqs
<1>7. ToSet(w) = {i \in Seqs : isFree[i]}
  BY <1>4 DEF SeqInit
<1>8. w # << >>
  BY <1>1, <1>2
<1>9. free = w[1] /\ freeTail = w[Len(w)] /\ next[w[Len(w)]] = MAX_UNSIGN_SHORT
  BY <1>1, <1>2 DEF SeqInit, Seqs
<1>10. ASSUME NEW i \in 1 .. Len(w) - 1 PROVE next[w[i]] = w[i + 1]
  <2>1. i \in 1 .. Num /\ i + 1 \in 1 .. Num /\ i - 1 \in Seqs /\ i - 1 # Num - 1
        /\ (i - 1) + 1 = (i + 1) - 1
    BY <1>1, <1>2 DEF Seqs
  <2> QED BY <1>2, <2>1 DEF SeqInit
<1>11. FreeChain(w)
  BY <1>2, <1>5, <1>7, <1>8, <1>9, <1>10 DEF FreeChain
<1> QED BY <1>2, <1>6, <1>11 DEF SeqInv

(* get() takes the first number of the list.                               *)
LEMMA GetKeepsChain ==
  ASSUME SeqInv, NEW n \in Seqs, SeqGet(n)
  PROVE  SeqInv'
<1>1. PICK w \in Seq(Seqs) : FreeChain(w)
  BY DEF SeqInv
<1>2. /\ w # << >> /\ Len(w) \in Nat \ {0} /\ DOMAIN w = 1 .. Len(w)
      /\ IsInjective(w) /\ ToSet(w) = {i \in Seqs : isFree[i]}
      /\ free = w[1] /\ freeTail = w[Len(w)] /\ next[w[Len(w)]] = MAX_UNSIGN_SHORT
      /\ \A i \in 1 .. Len(w) - 1 : next[w[i]] = w[i + 1]
      /\ free \in Seqs /\ n = free
  <2>1. w # << >>
    BY <1>1 DEF FreeChain, SeqGet
  <2>2. Len(w) \in Nat \ {0} /\ DOMAIN w = 1 .. Len(w)
    BY <2>1, LenProperties, EmptySeq
  <2> QED BY <1>1, <2>1, <2>2 DEF FreeChain, SeqGet
<1> DEFINE r == Tail(w)
<1>3. /\ r \in Seq(Seqs) /\ Len(r) = Len(w) - 1 /\ \A i \in 1 .. Len(r) : r[i] = w[i + 1]
      /\ ToSet(w) = ToSet(r) \cup {free} /\ IsInjective(r) /\ free \notin ToSet(r)
      /\ r = << >> <=> Len(w) = 1
  <2>1. /\ Head(w) = free /\ r \in Seq(Seqs) /\ Len(r) = Len(w) - 1
        /\ \A i \in 1 .. Len(r) : r[i] = w[i + 1]
    BY <1>2, HeadTailProperties
  <2>2. ToSet(w) = ToSet(r) \cup {Head(w)} /\ IsInjective(r) /\ Head(w) \notin ToSet(r)
    BY <1>2, TailFacts
  <2>3. r = << >> <=> Len(r) = 0
    BY <2>1, EmptySeq
  <2>4. Len(w) - 1 = 0 <=> Len(w) = 1
    BY <1>2
  <2> QED BY <2>1, <2>2, <2>3, <2>4
<1>4. /\ isFree' = [isFree EXCEPT ![free] = FALSE] /\ next' = next /\ free' = next[free]
      /\ freeTail' = IF free = freeTail THEN MAX_UNSIGN_SHORT ELSE freeTail
  BY DEF SeqGet
<1>5. next \in [Seqs -> Seqs \cup {MAX_UNSIGN_SHORT}] /\ isFree \in [Seqs -> BOOLEAN]
  BY DEF SeqInv
<1> HIDE DEF r
<1>6. ToSet(r) = {i \in Seqs : isFree'[i]}
  BY <1>2, <1>3, <1>4, <1>5
<1>7. CASE Len(w) = 1
  <2>1. r = << >> /\ free' = MAX_UNSIGN_SHORT /\ freeTail' = MAX_UNSIGN_SHORT /\ Len(r) = 0
    BY <1>2, <1>3, <1>4, <1>7
  <2>2. \A i \in 1 .. Len(r) - 1 : next'[r[i]] = r[i + 1]
    <3>1. Len(r) = 0
      BY <2>1
    <3>2. 1 .. Len(r) - 1 = {}
      BY <3>1
    <3> QED BY <3>2
  <2>3. FreeChain(r)'
    BY <1>3, <1>6, <2>1, <2>2 DEF FreeChain
  <2> QED BY <1>3, <1>4, <1>5, <2>3 DEF SeqInv
<1>8. CASE Len(w) # 1
  <2>1. /\ r # << >> /\ Len(r) \in 1 .. Len(w) - 1 /\ 1 \in 1 .. Len(w) - 1 /\ 1 \in 1 .. Len(r)
        /\ Len(r) + 1 = Len(w) /\ 1 # Len(w) /\ {1, Len(w)} \subseteq DOMAIN w
    BY <1>2, <1>3, <1>8
  <2>2. free # freeTail
    BY <1>2, <2>1 DEF IsInjective
  <2>3. free' = r[1] /\ freeTail' = r[Len(r)] /\ next'[r[Len(r)]] = MAX_UNSIGN_SHORT
    <3>1. r[1] = w[2] /\ free' = w[2]
      BY <1>2, <1>3, <1>4, <2>1
    <3>2. Len(r) \in 1 .. Len(r)
      BY <2>1
    <3>3. r[Len(r)] = w[Len(w)]
      BY <1>3, <2>1, <3>2
    <3> QED BY <1>2, <1>4, <2>2, <3>1, <3>3
  <2>4. ASSUME NEW i \in 1 .. Len(r) - 1 PROVE next'[r[i]] = r[i + 1]
    <3>1. i \in 1 .. Len(r) /\ i + 1 \in 1 .. Len(r) /\ i + 1 \in 1 .. Len(w) - 1
      BY <1>3, <2>1
    <3>2. r[i] = w[i + 1] /\ r[i + 1] = w[(i + 1) + 1]
      BY <1>3, <3>1
    <3> QED BY <1>2, <1>4, <3>1, <3>2
  <2>5. FreeChain(r)'
    BY <1>3, <1>6, <2>1, <2>3, <2>4 DEF FreeChain
  <2> QED BY <1>3, <1>4, <1>5, <2>5 DEF SeqInv
<1> QED BY <1>7, <1>8

(* del() adds a number behind the last one, also of an empty list.         *)
LEMMA DelKeepsChain ==
  ASSUME SeqInv, NEW n \in Seqs, SeqDel(n)
  PROVE  SeqInv'
<1>1. PICK w \in Seq(Seqs) : FreeChain(w)
  BY DEF SeqInv
<1>2. /\ IsInjective(w) /\ ToSet(w) = {i \in Seqs : isFree[i]} /\ n \notin ToSet(w)
      /\ \A i \in 1 .. Len(w) - 1 : next[w[i]] = w[i + 1]
      /\ next \in [Seqs -> Seqs \cup {MAX_UNSIGN_SHORT}] /\ isFree \in [Seqs -> BOOLEAN]
  BY <1>1 DEF FreeChain, SeqInv, SeqDel
<1>3. Len(w) \in Nat /\ DOMAIN w = 1 .. Len(w) /\ \A i \in 1 .. Len(w) : w[i] \in Seqs
  BY LenProperties, ElementOfSeq
<1>4. MAX_UNSIGN_SHORT \notin Seqs
  BY SeqAssumption DEF Seqs
<1> DEFINE r == Append(w, n)
<1>5. /\ r \in Seq(Seqs) /\ r # << >> /\ Len(r) = Len(w) + 1 /\ ToSet(r) = ToSet(w) \cup {n}
      /\ IsInjective(r)
  BY <1>2, AppendFacts
<1>6. r[Len(w) + 1] = n /\ \A i \in 1 .. Len(w) : r[i] = w[i]
  BY AppendProperties
<1>7. isFree' = [isFree EXCEPT ![n] = TRUE] /\ freeTail' = n
  BY DEF SeqDel
<1> HIDE DEF r
<1>8. ToSet(r) = {i \in Seqs : isFree'[i]} /\ isFree' \in [Seqs -> BOOLEAN]
  BY <1>2, <1>5, <1>7
<1>9. freeTail' = r[Len(r)]
  BY <1>5, <1>6, <1>7
<1>10. CASE w = << >>
  <2>1. freeTail = MAX_UNSIGN_SHORT /\ Len(w) = 0
    BY <1>1, <1>10 DEF FreeChain
  <2>2. free' = n /\ next' = [next EXCEPT ![n] = MAX_UNSIGN_SHORT]
    BY <2>1 DEF SeqDel
  <2>3. /\ free' = r[1] /\ next'[r[Len(r)]] = MAX_UNSIGN_SHORT
        /\ next' \in [Seqs -> Seqs \cup {MAX_UNSIGN_SHORT}]
    BY <1>2, <1>5, <1>6, <2>1, <2>2
  <2>4. FreeChain(r)'
    BY <1>5, <1>8, <1>9, <2>1, <2>3 DEF FreeChain
  <2> QED BY <1>5, <1>8, <2>3, <2>4 DEF SeqInv
<1>11. CASE w # << >>
  <2>0. Len(w) \in 1 .. Len(w) /\ Len(w) \in Nat \ {0} /\ 1 \in 1 .. Len(w)
    BY <1>3, <1>11, EmptySeq
  <2>1. free = w[1] /\ freeTail = w[Len(w)] /\ freeTail \in Seqs /\ freeTail # MAX_UNSIGN_SHORT
    BY <1>1, <1>3, <1>4, <1>11, <2>0 DEF FreeChain
  <2>2. free' = free /\ next' = [next EXCEPT ![n] = MAX_UNSIGN_SHORT, ![freeTail] = n]
    BY <2>1 DEF SeqDel
  <2>3. freeTail # n /\ \A i \in 1 .. Len(w) : w[i] # n
    BY <1>2, <1>3, <2>0, <2>1 DEF ToSet
  <2>4. /\ next'[n] = MAX_UNSIGN_SHORT /\ next'[freeTail] = n
        /\ \A i \in Seqs \ {n, freeTail} : next'[i] = next[i]
        /\ next' \in [Seqs -> Seqs \cup {MAX_UNSIGN_SHORT}]
    BY <1>2, <2>1, <2>2, <2>3
  <2>5. free' = r[1] /\ next'[r[Len(r)]] = MAX_UNSIGN_SHORT
    BY <1>5, <1>6, <2>0, <2>1, <2>2, <2>4
  <2>6. ASSUME NEW i \in 1 .. Len(r) - 1 PROVE next'[r[i]] = r[i + 1]
    <3>1. CASE i = Len(w)
      BY <1>6, <2>0, <2>1, <2>4, <3>1
    <3>2. CASE i # Len(w)
      <4>0. Len(w) \in Nat /\ Len(r) - 1 = Len(w)
        BY <1>3, <1>5
      <4>1. i \in 1 .. Len(w) - 1 /\ i \in 1 .. Len(w) /\ i + 1 \in 1 .. Len(w)
        BY <3>2, <4>0
      <4>2. w[i] \in Seqs \ {n, freeTail}
        BY <1>2, <1>3, <2>0, <2>1, <2>3, <3>2, <4>1 DEF IsInjective
      <4> QED BY <1>2, <1>6, <2>4, <4>1, <4>2
    <3> QED BY <3>1, <3>2
  <2>7. FreeChain(r)'
    BY <1>5, <1>8, <1>9, <2>5, <2>6 DEF FreeChain
  <2> QED BY <1>5, <1>8, <2>4, <2>7 DEF SeqInv
<1> QED BY <1>10, <1>11

(* The walk of OnList along next is the chain, by induction on its length. *)
LEMMA OnListIs ==
  ASSUME NEW w \in Seq(Seqs), FreeChain(w)
  PROVE  Len(w) \in 0 .. Num /\ \A k \in 1 .. Len(w) : OnList[k] = w[k]
<1> DEFINE g == [k \in 1 .. Num |-> IF k <= Len(w) THEN w[k] ELSE MAX_UNSIGN_SHORT]
           Along(f) == [k \in 1 .. Num |->
                          IF k = 1 THEN free
                          ELSE IF f[k - 1] \in Seqs THEN next[f[k - 1]] ELSE MAX_UNSIGN_SHORT]
<1>1. /\ Len(w) \in Nat /\ \A i \in 1 .. Len(w) : w[i] \in Seqs
      /\ w = << >> <=> Len(w) = 0
  BY LenProperties, ElementOfSeq, EmptySeq
<1>2. /\ Num \in Nat \ {0} /\ MAX_UNSIGN_SHORT \notin Seqs
  BY SeqAssumption DEF Seqs
<1>3. Len(w) \in 0 .. Num
  <2>1. Cardinality(ToSet(w)) = Len(w)
    BY InjectiveCardinality DEF FreeChain
  <2>2. IsFiniteSet(Seqs) /\ Cardinality(Seqs) = Num
    <3>1. IsFiniteSet(0 .. Num - 1) /\ Cardinality(0 .. Num - 1) = IF 0 > Num - 1 THEN 0 ELSE Num - 1 - 0 + 1
      BY <1>2, FS_Interval
    <3> QED BY <1>2, <3>1 DEF Seqs
  <2>3. ToSet(w) \subseteq Seqs
    BY ToSetType
  <2>4. Cardinality(ToSet(w)) <= Cardinality(Seqs)
    BY <2>2, <2>3, FS_Subset
  <2> QED BY <1>1, <1>2, <2>1, <2>2, <2>4
<1>4. g = Along(g)
  <2> SUFFICES ASSUME NEW k \in 1 .. Num PROVE g[k] = Along(g)[k]
    OBVIOUS
  <2>1. CASE k = 1
    <3>1. CASE w = << >>
      BY <1>1, <2>1, <3>1 DEF FreeChain
    <3>2. CASE w # << >>
      BY <1>1, <2>1, <3>2 DEF FreeChain
    <3> QED BY <3>1, <3>2
  <2>2. CASE k # 1
    <3>0. k - 1 \in 1 .. Num /\ k - 1 >= 1
      BY <1>2, <2>2
    <3>1. CASE k - 1 < Len(w)
      <4>1. k - 1 \in 1 .. Len(w) - 1 /\ k - 1 \in 1 .. Len(w) /\ (k - 1) + 1 = k /\ k <= Len(w)
        BY <1>1, <3>0, <3>1
      <4>2. g[k - 1] = w[k - 1] /\ w[k - 1] \in Seqs /\ g[k] = w[k]
        BY <1>1, <3>0, <4>1
      <4>3. next[w[k - 1]] = w[k]
        BY <4>1 DEF FreeChain
      <4> QED BY <2>2, <4>2, <4>3
    <3>2. CASE k - 1 = Len(w)
      <4>1. k - 1 \in 1 .. Len(w) /\ ~(k <= Len(w)) /\ w # << >>
        BY <1>1, <3>0, <3>2
      <4>2. g[k - 1] = w[k - 1] /\ w[k - 1] \in Seqs /\ g[k] = MAX_UNSIGN_SHORT
        BY <1>1, <3>0, <4>1
      <4>3. next[w[k - 1]] = MAX_UNSIGN_SHORT
        BY <3>2, <4>1 DEF FreeChain
      <4> QED BY <2>2, <4>2, <4>3
    <3>3. CASE k - 1 > Len(w)
      <4>1. ~(k - 1 <= Len(w)) /\ ~(k <= Len(w))
        BY <1>1, <3>0, <3>3
      <4>2. g[k - 1] = MAX_UNSIGN_SHORT /\ g[k] = MAX_UNSIGN_SHORT
        BY <3>0, <4>1
      <4> QED BY <1>2, <2>2, <4>2
    <3> QED BY <1>1, <3>0, <3>1, <3>2, <3>3
  <2> QED BY <2>1, <2>2
<1> HIDE DEF g
<1>5. OnList = Along(OnList)
  <2> DEFINE nth == CHOOSE f : f = Along(f)
  <2>1. OnList = nth
    BY DEF OnList
  <2>2. nth = Along(nth)
    BY <1>4
  <2> QED BY <2>1, <2>2
<1> DEFINE S == {j \in Nat : j + 1 \in 1 .. Num => OnList[j + 1] = g[j + 1]}
<1>6. Nat \subseteq S
  <2>1. 0 \in S
    <3>1. 1 \in 1 .. Num /\ OnList[1] = free /\ g[1] = free
      BY <1>2, <1>4, <1>5
    <3> QED BY <3>1
  <2>2. ASSUME NEW j \in Nat, j \in S PROVE j + 1 \in S
    <3> SUFFICES ASSUME (j + 1) + 1 \in 1 .. Num PROVE OnList[(j + 1) + 1] = g[(j + 1) + 1]
      OBVIOUS
    <3>1. j + 1 \in 1 .. Num /\ ((j + 1) + 1) - 1 = j + 1 /\ (j + 1) + 1 # 1
      BY <1>2
    <3>2. OnList[j + 1] = g[j + 1]
      BY <2>2, <3>1
    <3>3. OnList[(j + 1) + 1] = IF OnList[j + 1] \in Seqs THEN next[OnList[j + 1]] ELSE MAX_UNSIGN_SHORT
      BY <1>5, <3>1
    <3>4. g[(j + 1) + 1] = IF g[j + 1] \in Seqs THEN next[g[j + 1]] ELSE MAX_UNSIGN_SHORT
      BY <1>4, <3>1
    <3> QED BY <3>2, <3>3, <3>4
  <2> HIDE DEF S
  <2> QED BY <2>1, <2>2, SetInduction
<1>7. ASSUME NEW k \in 1 .. Len(w) PROVE OnList[k] = w[k]
  <2>1. k \in 1 .. Num /\ k - 1 \in Nat /\ (k - 1) + 1 = k /\ k <= Len(w)
    <3>1. Num \in Nat /\ Len(w) \in Nat /\ Len(w) <= Num
      BY <1>2, <1>3
    <3> QED BY <3>1
  <2>2. OnList[k] = g[k]
    BY <1>6, <2>1
  <2>3. g[k] = w[k]
    BY <2>1 DEF g
  <2> QED BY <2>2, <2>3
<1> QED BY <1>3, <1>7

(* For every number of threads: after numbers have been taken and given    *)
(* back in any order, also through an empty list, the free list has every  *)
(* free number once between _free and _freeTail.                           *)
THEOREM FreeListStaysSound == SeqSpec => []FreeListSound
<1>1. SeqInit => SeqInv
  BY SeqInvInit
<1>2. SeqInv /\ [SeqNext]_seqVars => SeqInv'
  <2> SUFFICES ASSUME SeqInv, [SeqNext]_seqVars PROVE SeqInv'
    OBVIOUS
  <2>1. CASE SeqGetFails \/ UNCHANGED seqVars
    <3>1. UNCHANGED <<free, freeTail, next, isFree>>
      BY <2>1 DEF SeqGetFails, seqVars
    <3> QED BY <3>1 DEF SeqInv, FreeChain
  <2>2. ASSUME NEW n \in Seqs, SeqGet(n) PROVE SeqInv'
    BY <2>2, GetKeepsChain
  <2>3. ASSUME NEW n \in Seqs, SeqDel(n) PROVE SeqInv'
    BY <2>3, DelKeepsChain
  <2> QED BY <2>1, <2>2, <2>3 DEF SeqNext
<1>3. SeqInv => FreeListSound
  <2> SUFFICES ASSUME SeqInv PROVE FreeListSound
    OBVIOUS
  <2>1. PICK w \in Seq(Seqs) : FreeChain(w)
    BY DEF SeqInv
  <2> DEFINE isFreeSet == {i \in Seqs : isFree[i]}
             n == Cardinality(isFreeSet)
  <2>2. n = Len(w) /\ Len(w) \in Nat /\ ToSet(w) = isFreeSet /\ DOMAIN w = 1 .. Len(w)
    BY <2>1, InjectiveCardinality, LenProperties DEF FreeChain
  <2>3. w = << >> <=> Len(w) = 0
    BY EmptySeq
  <2>4. \A k \in 1 .. Len(w) : OnList[k] = w[k]
    BY <2>1, OnListIs
  <2>5. {OnList[k] : k \in 1 .. Len(w)} = ToSet(w)
    BY <2>2, <2>4 DEF ToSet
  <2> HIDE DEF n, isFreeSet
  <2>6. n = 0 => free = MAX_UNSIGN_SHORT /\ freeTail = MAX_UNSIGN_SHORT
    BY <2>1, <2>2, <2>3 DEF FreeChain
  <2>7. n > 0 => OnList[n] = freeTail /\ next[freeTail] = MAX_UNSIGN_SHORT
    <3> SUFFICES ASSUME n > 0 PROVE OnList[n] = freeTail /\ next[freeTail] = MAX_UNSIGN_SHORT
      OBVIOUS
    <3>1. w # << >> /\ n \in 1 .. Len(w)
      BY <2>2, <2>3
    <3> QED BY <2>1, <2>2, <2>4, <3>1 DEF FreeChain
  <2>8. {OnList[k] : k \in 1 .. n} = isFreeSet
    BY <2>2, <2>5
  <2> QED BY <2>6, <2>7, <2>8 DEF FreeListSound, n, isFreeSet
<1> QED BY <1>1, <1>2, <1>3, PTL DEF SeqSpec

-----------------------------------------------------------------------------
(***************************************************************************)
(* The timeout queue.                                                      *)
(***************************************************************************)

(* Kept computes its recursion: there is a function that obeys it, made    *)
(* longer by one element at a time.                                        *)
LEMMA KeptExists ==
  ASSUME NEW A, NEW s \in Seq(A), NEW S
  PROVE  \E f : /\ f = [n \in 0 .. Len(s) |->
                          IF n = 0 THEN << >>
                          ELSE IF s[n] \in S THEN Append(f[n - 1], s[n]) ELSE f[n - 1]]
                /\ Kept(s, S) = f[Len(s)]
<1> DEFINE Obeys(m, f) == f = [n \in 0 .. m |->
                                 IF n = 0 THEN << >>
                                 ELSE IF s[n] \in S THEN Append(f[n - 1], s[n]) ELSE f[n - 1]]
           M == {m \in Nat : \E f : Obeys(m, f)}
<1>1. 0 \in M
  <2> DEFINE g == [n \in 0 .. 0 |-> << >>]
  <2>1. Obeys(0, g)
    OBVIOUS
  <2> QED BY <2>1
<1>2. ASSUME NEW m \in Nat, m \in M PROVE m + 1 \in M
  <2>1. PICK f : Obeys(m, f)
    BY <1>2
  <2> DEFINE g == [n \in 0 .. m + 1 |->
                     IF n <= m THEN f[n]
                     ELSE IF s[m + 1] \in S THEN Append(f[m], s[m + 1]) ELSE f[m]]
  <2>2. Obeys(m + 1, g)
    <3> SUFFICES ASSUME NEW n \in 0 .. m + 1
                 PROVE  g[n] = IF n = 0 THEN << >>
                               ELSE IF s[n] \in S THEN Append(g[n - 1], s[n]) ELSE g[n - 1]
      OBVIOUS
    <3>1. CASE n = 0
      <4>1. n \in 0 .. m /\ n <= m
        BY <3>1
      <4>2. f[n] = << >>
        BY <2>1, <3>1, <4>1
      <4> QED BY <3>1, <4>1, <4>2
    <3>2. CASE n \in 1 .. m
      <4>1. n \in 0 .. m /\ n - 1 \in 0 .. m + 1 /\ n - 1 <= m /\ n <= m /\ n # 0
        BY <3>2
      <4>2. g[n] = f[n] /\ g[n - 1] = f[n - 1]
        BY <4>1
      <4>3. f[n] = IF s[n] \in S THEN Append(f[n - 1], s[n]) ELSE f[n - 1]
        BY <2>1, <4>1
      <4> QED BY <4>1, <4>2, <4>3
    <3>3. CASE n = m + 1
      <4>1. n - 1 = m /\ ~(n <= m) /\ m \in 0 .. m + 1 /\ n # 0
        BY <3>3
      <4>2. g[m] = f[m] /\ g[n] = IF s[n] \in S THEN Append(f[m], s[n]) ELSE f[m]
        BY <3>3, <4>1
      <4> QED BY <4>1, <4>2
    <3>4. n = 0 \/ n \in 1 .. m \/ n = m + 1
      OBVIOUS
    <3> QED BY <3>1, <3>2, <3>3, <3>4
  <2> HIDE DEF g, Obeys
  <2> QED BY <2>2
<1>3. Len(s) \in M
  <2>1. Len(s) \in Nat
    BY LenProperties
  <2> HIDE DEF M
  <2> QED BY <1>1, <1>2, <2>1, SetInduction
<1> DEFINE upTo == CHOOSE f : Obeys(Len(s), f)
<1>4. Obeys(Len(s), upTo)
  BY <1>3
<1>5. Kept(s, S) = upTo[Len(s)]
  BY DEF Kept
<1> HIDE DEF upTo
<1> QED BY <1>4, <1>5

(* The kept elements stand at increasing places of the sequence, and none  *)
(* that is to be kept is missing.                                          *)
KeptAs(s, S, n, r) ==
    /\ \E place \in [1 .. Len(r) -> 1 .. n] :
         /\ \A i \in 1 .. Len(r) : r[i] = s[place[i]] /\ r[i] \in S
         /\ \A i, j \in 1 .. Len(r) : i < j => place[i] < place[j]
    /\ \A i \in 1 .. n : s[i] \in S => \E j \in 1 .. Len(r) : r[j] = s[i]

(* An element that is kept has a place in what is left.                     *)
LEMMA KeptPlaces ==
  ASSUME NEW A, NEW s \in Seq(A), NEW S
  PROVE  Kept(s, S) \in Seq(A) /\ KeptAs(s, S, Len(s), Kept(s, S))
<1>1. PICK f : /\ f = [n \in 0 .. Len(s) |->
                         IF n = 0 THEN << >>
                         ELSE IF s[n] \in S THEN Append(f[n - 1], s[n]) ELSE f[n - 1]]
               /\ Kept(s, S) = f[Len(s)]
  BY KeptExists
<1>2. Len(s) \in Nat /\ \A i \in 1 .. Len(s) : s[i] \in A
  BY LenProperties, ElementOfSeq
<1> DEFINE M == {n \in Nat : n <= Len(s) => f[n] \in Seq(A) /\ KeptAs(s, S, n, f[n])}
<1>3. 0 \in M
  <2>1. f[0] = << >>
    BY <1>1, <1>2
  <2>2. << >> \in Seq(A) /\ Len(<< >>) = 0
    OBVIOUS
  <2>3. KeptAs(s, S, 0, << >>)
    <3> DEFINE place == [i \in 1 .. 0 |-> 0]
    <3>1. place \in [1 .. Len(<< >>) -> 1 .. 0]
      BY <2>2
    <3>2. \A i \in 1 .. 0 : FALSE
      OBVIOUS
    <3>3. \A i \in 1 .. Len(<< >>) : FALSE
      BY <2>2
    <3> HIDE DEF place
    <3> QED BY <3>1, <3>2, <3>3 DEF KeptAs
  <2> QED BY <2>1, <2>2, <2>3
<1>4. ASSUME NEW n \in Nat, n \in M PROVE n + 1 \in M
  <2> SUFFICES ASSUME n + 1 <= Len(s)
               PROVE  f[n + 1] \in Seq(A) /\ KeptAs(s, S, n + 1, f[n + 1])
    OBVIOUS
  <2> DEFINE r == f[n]
             x == s[n + 1]
  <2>0. n + 1 \in 0 .. Len(s) /\ n + 1 \in 1 .. Len(s) /\ n + 1 # 0 /\ (n + 1) - 1 = n /\ n <= Len(s)
    BY <1>2
  <2>1. r \in Seq(A) /\ KeptAs(s, S, n, r) /\ x \in A
    BY <1>2, <1>4, <2>0
  <2>2. f[n + 1] = IF x \in S THEN Append(r, x) ELSE r
    BY <1>1, <2>0
  <2> HIDE DEF r, x
  <2>3. PICK place \in [1 .. Len(r) -> 1 .. n] :
          /\ \A i \in 1 .. Len(r) : r[i] = s[place[i]] /\ r[i] \in S
          /\ \A i, j \in 1 .. Len(r) : i < j => place[i] < place[j]
    BY <2>1 DEF KeptAs
  <2>4. Len(r) \in Nat
    BY <2>1, LenProperties
  <2>5. CASE x \notin S
    <3>1. place \in [1 .. Len(r) -> 1 .. n + 1]
      <4>1. 1 .. n \subseteq 1 .. n + 1
        OBVIOUS
      <4> QED BY <4>1
    <3>2. ASSUME NEW i \in 1 .. n + 1, s[i] \in S PROVE \E j \in 1 .. Len(r) : r[j] = s[i]
      <4>1. i \in 1 .. n
        BY <2>5, <3>2 DEF x
      <4> QED BY <2>1, <3>2, <4>1 DEF KeptAs
    <3>3. KeptAs(s, S, n + 1, r)
      BY <2>3, <3>1, <3>2 DEF KeptAs
    <3> QED BY <2>1, <2>2, <2>5, <3>3
  <2>6. CASE x \in S
    <3> DEFINE q == Append(r, x)
               to == [i \in 1 .. Len(r) + 1 |-> IF i <= Len(r) THEN place[i] ELSE n + 1]
    <3>1. q \in Seq(A) /\ Len(q) = Len(r) + 1 /\ q[Len(r) + 1] = x /\ \A i \in 1 .. Len(r) : q[i] = r[i]
      BY <2>1, AppendProperties
    <3> HIDE DEF q
    <3>2. to \in [1 .. Len(q) -> 1 .. n + 1]
      <4>1. \A i \in 1 .. Len(r) : place[i] \in 1 .. n + 1
        BY <2>3
      <4>2. ASSUME NEW i \in 1 .. Len(r) + 1
            PROVE  (IF i <= Len(r) THEN place[i] ELSE n + 1) \in 1 .. n + 1
        <5>1. CASE i <= Len(r)
          <6>1. i \in 1 .. Len(r)
            BY <2>4, <5>1
          <6> QED BY <4>1, <5>1, <6>1
        <5>2. CASE ~(i <= Len(r))
          BY <5>2
        <5> QED BY <5>1, <5>2
      <4> QED BY <3>1, <4>2
    <3>3. /\ to[Len(r) + 1] = n + 1
          /\ \A i \in 1 .. Len(r) : to[i] = place[i]
      BY <2>4
    <3> HIDE DEF to
    <3>4. \A i \in 1 .. Len(q) : i \in 1 .. Len(r) \/ i = Len(r) + 1
      BY <2>4, <3>1
    <3>5. ASSUME NEW i \in 1 .. Len(q) PROVE q[i] = s[to[i]] /\ q[i] \in S
      <4>1. CASE i \in 1 .. Len(r)
        BY <2>3, <3>1, <3>3, <4>1
      <4>2. CASE i = Len(r) + 1
        BY <2>6, <3>1, <3>3, <4>2 DEF x
      <4> QED BY <3>4, <4>1, <4>2
    <3>6. ASSUME NEW i \in 1 .. Len(q), NEW j \in 1 .. Len(q), i < j PROVE to[i] < to[j]
      <4>1. i \in 1 .. Len(r)
        BY <2>4, <3>1, <3>6
      <4>2. to[i] = place[i] /\ place[i] \in 1 .. n
        BY <2>3, <3>3, <4>1
      <4>3. CASE j \in 1 .. Len(r)
        BY <2>3, <3>3, <3>6, <4>1, <4>3
      <4>4. CASE j = Len(r) + 1
        BY <3>3, <4>2, <4>4
      <4> QED BY <3>4, <4>3, <4>4
    <3>7. ASSUME NEW i \in 1 .. n + 1, s[i] \in S PROVE \E j \in 1 .. Len(q) : q[j] = s[i]
      <4>1. CASE i = n + 1
        <5>1. Len(r) + 1 \in 1 .. Len(q) /\ q[Len(r) + 1] = s[i]
          BY <2>4, <3>1, <4>1 DEF x
        <5> QED BY <5>1
      <4>2. CASE i # n + 1
        <5>1. i \in 1 .. n
          BY <4>2
        <5>2. PICK j \in 1 .. Len(r) : r[j] = s[i]
          BY <2>1, <3>7, <5>1 DEF KeptAs
        <5>3. j \in 1 .. Len(q) /\ q[j] = s[i]
          BY <2>4, <3>1, <5>2
        <5> QED BY <5>3
      <4> QED BY <4>1, <4>2
    <3>8. KeptAs(s, S, n + 1, q)
      BY <3>2, <3>5, <3>6, <3>7 DEF KeptAs
    <3> QED BY <2>2, <2>6, <3>1, <3>8 DEF q
  <2> QED BY <2>5, <2>6
<1>5. Len(s) \in M
  <2> HIDE DEF M
  <2> QED BY <1>2, <1>3, <1>4, SetInduction
<1> QED BY <1>1, <1>2, <1>5

(* So what is kept is what was there of the set, each once if it was.      *)
LEMMA KeptFacts ==
  ASSUME NEW A, NEW s \in Seq(A), NEW S
  PROVE  /\ Kept(s, S) \in Seq(A)
         /\ ToSet(Kept(s, S)) = ToSet(s) \cap S
         /\ IsInjective(s) => IsInjective(Kept(s, S))
<1> DEFINE r == Kept(s, S)
<1>1. r \in Seq(A) /\ KeptAs(s, S, Len(s), r)
  BY KeptPlaces
<1> HIDE DEF r
<1>2. PICK place \in [1 .. Len(r) -> 1 .. Len(s)] :
        /\ \A i \in 1 .. Len(r) : r[i] = s[place[i]] /\ r[i] \in S
        /\ \A i, j \in 1 .. Len(r) : i < j => place[i] < place[j]
  BY <1>1 DEF KeptAs
<1>3. DOMAIN s = 1 .. Len(s) /\ DOMAIN r = 1 .. Len(r) /\ Len(s) \in Nat /\ Len(r) \in Nat
  BY <1>1, LenProperties
<1>4. ToSet(r) \subseteq ToSet(s) \cap S
  BY <1>2, <1>3 DEF ToSet
<1>5. ToSet(s) \cap S \subseteq ToSet(r)
  BY <1>1, <1>3 DEF ToSet, KeptAs
<1>6. ASSUME IsInjective(s) PROVE IsInjective(r)
  <2> SUFFICES ASSUME NEW i \in 1 .. Len(r), NEW j \in 1 .. Len(r), r[i] = r[j] PROVE i = j
    BY <1>3 DEF IsInjective
  <2>1. place[i] = place[j] /\ place[i] \in Int /\ place[j] \in Int
    BY <1>2, <1>3, <1>6 DEF IsInjective
  <2>2. ~(i < j) /\ ~(j < i)
    BY <1>2, <2>1
  <2> QED BY <2>2
<1> QED BY <1>1, <1>4, <1>5, <1>6 DEF r

(* _time is in the order of the deadlines and has one entry for each id of *)
(* D.                                                                      *)
Ordered(t) == \A i, j \in 1 .. Len(t) : i < j => t[i][1] <= t[j][1]
OneEach(t) == \A i, j \in 1 .. Len(t) : t[i][2] = t[j][2] => i = j

TimesOf(t, D) ==
    /\ t \in Seq((0 .. MaxClock) \X Id)
    /\ Ordered(t) /\ OneEach(t)
    /\ {e[2] : e \in ToSet(t)} = D

(* _send has the entries of d that are still to be sent, once each.        *)
SendsOf(l, d) ==
    /\ l \in Seq(Id) /\ IsInjective(l)
    /\ ToSet(l) = {i \in DOMAIN d : ~d[i].hasSend}

PtrInfo == [ptr : Message, hasSend : BOOLEAN]

QueuesAgree ==
    /\ ~dangling
    /\ DOMAIN data \subseteq Id /\ data \in [DOMAIN data -> PtrInfo]
    /\ TimesOf(time, DOMAIN data)
    /\ SendsOf(send, data)

(* What is kept of _time is still in order, one entry for each id.         *)
LEMMA KeptTimes ==
  ASSUME NEW t, NEW D, TimesOf(t, D), NEW S
  PROVE  /\ Kept(t, S) \in Seq((0 .. MaxClock) \X Id)
         /\ ToSet(Kept(t, S)) = ToSet(t) \cap S
         /\ Ordered(Kept(t, S)) /\ OneEach(Kept(t, S))
<1> DEFINE r == Kept(t, S)
<1>1. r \in Seq((0 .. MaxClock) \X Id) /\ KeptAs(t, S, Len(t), r) /\ ToSet(r) = ToSet(t) \cap S
  BY KeptPlaces, KeptFacts DEF TimesOf
<1> HIDE DEF r
<1>2. PICK place \in [1 .. Len(r) -> 1 .. Len(t)] :
        /\ \A i \in 1 .. Len(r) : r[i] = t[place[i]] /\ r[i] \in S
        /\ \A i, j \in 1 .. Len(r) : i < j => place[i] < place[j]
  BY <1>1 DEF KeptAs
<1>3. Ordered(r)
  BY <1>2 DEF Ordered, TimesOf
<1>4. OneEach(r)
  <2> SUFFICES ASSUME NEW i \in 1 .. Len(r), NEW j \in 1 .. Len(r), r[i][2] = r[j][2] PROVE i = j
    BY DEF OneEach
  <2>0. place[i] \in 1 .. Len(t) /\ place[j] \in 1 .. Len(t) /\ t[place[i]] = r[i] /\ t[place[j]] = r[j]
    BY <1>2
  <2>1. place[i] = place[j]
    BY <2>0 DEF OneEach, TimesOf
  <2>2. ~(i < j) /\ ~(j < i)
    <3>1. ~(place[i] < place[j]) /\ ~(place[j] < place[i])
      BY <2>0, <2>1
    <3> QED BY <1>2, <3>1
  <2> QED BY <2>2
<1> QED BY <1>1, <1>3, <1>4 DEF r

(* multimap::erase of the entries of some ids                              *)
LEMMA EraseTimes ==
  ASSUME NEW D, TimesOf(time, D), NEW ids
  PROVE  TimesOf(TimeWithout(ids), D \ ids)
<1> DEFINE S == {e \in ToSet(time) : e[2] \notin ids}
           r == Kept(time, S)
<1>1. /\ r \in Seq((0 .. MaxClock) \X Id) /\ ToSet(r) = ToSet(time) \cap S
      /\ Ordered(r) /\ OneEach(r)
  BY KeptTimes
<1> HIDE DEF r
<1>2. {e[2] : e \in ToSet(r)} = D \ ids
  BY <1>1 DEF TimesOf
<1> QED BY <1>1, <1>2 DEF TimesOf, TimeWithout, r

(* multimap::insert of an id that has no entry                             *)
LEMMA InsertTimes ==
  ASSUME NEW D, TimesOf(time, D), NEW id \in Id \ D, NEW d \in 0 .. MaxClock
  PROVE  TimesOf(Inserted(d, id), D \cup {id})
<1> DEFINE E == (0 .. MaxClock) \X Id
           x == <<d, id>>
           a == Kept(time, {e \in ToSet(time) : e[1] <= d})
           b == Kept(time, {e \in ToSet(time) : e[1] > d})
           q == Append(a, x)
           r == q \o b
<1>0. time \in Seq(E) /\ ToSet(time) \subseteq E /\ OneEach(time) /\ D = {e[2] : e \in ToSet(time)}
      /\ x \in E /\ \A e \in ToSet(time) : e[1] \in Int
  <2>1. time \in Seq(E) /\ OneEach(time) /\ D = {e[2] : e \in ToSet(time)}
    BY DEF TimesOf
  <2>2. ToSet(time) \subseteq E
    BY <2>1, ToSetType
  <2> QED BY <2>1, <2>2
<1>1. /\ a \in Seq(E) /\ b \in Seq(E) /\ Ordered(a) /\ OneEach(a) /\ Ordered(b) /\ OneEach(b)
      /\ ToSet(a) = ToSet(time) \cap {e \in ToSet(time) : e[1] <= d}
      /\ ToSet(b) = ToSet(time) \cap {e \in ToSet(time) : e[1] > d}
  BY KeptTimes
<1> HIDE DEF a, b, E
<1>2. /\ ToSet(a) \cup ToSet(b) = ToSet(time) /\ \A e \in ToSet(a) : e[1] <= d
      /\ \A e \in ToSet(b) : e[1] > d
  <2>1. \A e \in ToSet(time) : e[1] \in Int /\ (e[1] <= d \/ e[1] > d)
    BY <1>0
  <2> QED BY <1>1, <2>1
<1>3. /\ q \in Seq(E) /\ Len(q) = Len(a) + 1 /\ q[Len(a) + 1] = x
      /\ \A i \in 1 .. Len(a) : q[i] = a[i]
      /\ ToSet(q) = ToSet(a) \cup {x}
  <2>1. a \in Seq(E) /\ x \in E
    BY <1>0, <1>1
  <2> HIDE DEF x
  <2>2. /\ q \in Seq(E) /\ Len(q) = Len(a) + 1 /\ q[Len(a) + 1] = x
        /\ \A i \in 1 .. Len(a) : q[i] = a[i]
    BY <2>1, AppendProperties
  <2>3. ToSet(q) = ToSet(a) \cup {x}
    BY <2>1, AppendFacts
  <2> QED BY <2>2, <2>3
<1>4. Len(a) \in Nat /\ Len(b) \in Nat
  BY <1>1, LenProperties
<1>r. Inserted(d, id) = r
  <2>1. Append(a, x) = a \o <<x>>
    BY <1>0, <1>1, AppendIsConcat
  <2> QED BY <2>1 DEF Inserted, a, b
<1> HIDE DEF q, x
<1>5. /\ r \in Seq(E) /\ Len(r) = Len(a) + 1 + Len(b)
      /\ ToSet(r) = ToSet(time) \cup {x}
      /\ \A i \in 1 .. Len(r) : r[i] = IF i <= Len(a) + 1 THEN q[i] ELSE b[i - (Len(a) + 1)]
  <2>1. r \in Seq(E) /\ Len(r) = Len(q) + Len(b) /\ ToSet(r) = ToSet(q) \cup ToSet(b)
    <3>1. q \in Seq(E) /\ b \in Seq(E)
      BY <1>1, <1>3
    <3> QED BY <3>1, ConcatFacts
  <2>2. \A i \in 1 .. Len(q) + Len(b) : r[i] = IF i <= Len(q) THEN q[i] ELSE b[i - Len(q)]
    BY <1>1, <1>3, ConcatProperties
  <2> HIDE DEF r
  <2> QED BY <1>2, <1>3, <1>4, <2>1, <2>2
<1> HIDE DEF r
(* Every place of the result is of one of three kinds.                     *)
<1>6. ASSUME NEW i \in 1 .. Len(r)
      PROVE  \/ i \in 1 .. Len(a) /\ r[i] = a[i] /\ r[i] \in ToSet(a)
             \/ i = Len(a) + 1 /\ r[i] = x
             \/ /\ i > Len(a) + 1 /\ i - (Len(a) + 1) \in 1 .. Len(b)
                /\ r[i] = b[i - (Len(a) + 1)] /\ r[i] \in ToSet(b)
  <2>1. CASE i <= Len(a)
    <3>1. i \in 1 .. Len(a) /\ i <= Len(a) + 1
      BY <1>4, <2>1
    <3>2. r[i] = a[i]
      BY <1>3, <1>5, <3>1
    <3> QED BY <1>1, <3>1, <3>2, ToSetType
  <2>2. CASE i = Len(a) + 1
    BY <1>3, <1>4, <1>5, <2>2
  <2>3. CASE i > Len(a) + 1
    <3>1. i - (Len(a) + 1) \in 1 .. Len(b) /\ ~(i <= Len(a) + 1)
      BY <1>4, <1>5, <2>3
    <3>2. r[i] = b[i - (Len(a) + 1)]
      BY <1>5, <3>1
    <3> QED BY <1>1, <2>3, <3>1, <3>2, ToSetType
  <2> QED BY <1>4, <2>1, <2>2, <2>3
<1>7. x[1] = d /\ x[2] = id /\ \A e \in ToSet(time) : e[2] # id
  BY <1>0 DEF x
<1>8. ASSUME NEW e \in ToSet(a), NEW f \in ToSet(b) PROVE e[2] # f[2]
  <2>1. e # f
    BY <1>0, <1>2, <1>8
  <2>2. e \in ToSet(time) /\ f \in ToSet(time)
    BY <1>1
  <2>3. PICK i \in 1 .. Len(time), j \in 1 .. Len(time) : time[i] = e /\ time[j] = f
    BY <1>0, <2>2, ToSetType
  <2> QED BY <1>0, <2>1, <2>3 DEF OneEach
<1>9. Ordered(r)
  <2> SUFFICES ASSUME NEW i \in 1 .. Len(r), NEW j \in 1 .. Len(r), i < j PROVE r[i][1] <= r[j][1]
    BY DEF Ordered
  <2>0. \A e \in ToSet(a) \cup ToSet(b) : e[1] \in Int
    BY <1>0, <1>2
  <2>1. CASE i \in 1 .. Len(a) /\ j \in 1 .. Len(a)
    <3>0. ~(i > Len(a) + 1) /\ i # Len(a) + 1 /\ ~(j > Len(a) + 1) /\ j # Len(a) + 1
      BY <1>4, <2>1
    <3>1. r[i] = a[i] /\ r[j] = a[j]
      BY <1>6, <3>0
    <3> QED BY <1>1, <2>1, <3>1 DEF Ordered
  <2>2. CASE i > Len(a) + 1 /\ j > Len(a) + 1
    <3>1. /\ r[i] = b[i - (Len(a) + 1)] /\ r[j] = b[j - (Len(a) + 1)]
          /\ i - (Len(a) + 1) \in 1 .. Len(b) /\ j - (Len(a) + 1) \in 1 .. Len(b)
      BY <1>4, <1>6, <2>2
    <3>2. i - (Len(a) + 1) < j - (Len(a) + 1)
      BY <1>4
    <3> QED BY <1>1, <3>1, <3>2 DEF Ordered
  <2>3. CASE (r[i] \in ToSet(a) \/ r[i] = x) /\ (r[j] = x \/ r[j] \in ToSet(b))
    BY <1>2, <1>7, <2>0, <2>3
  <2>4. \/ i \in 1 .. Len(a) /\ j \in 1 .. Len(a)
        \/ i > Len(a) + 1 /\ j > Len(a) + 1
        \/ (r[i] \in ToSet(a) \/ r[i] = x) /\ (r[j] = x \/ r[j] \in ToSet(b))
    <3>1. CASE i \in 1 .. Len(a)
      BY <1>6, <3>1
    <3>2. CASE i = Len(a) + 1
      <4>1. j > Len(a) + 1
        BY <3>2
      <4>2. r[i] = x /\ r[j] \in ToSet(b)
        BY <1>4, <1>6, <3>2, <4>1
      <4> QED BY <4>2
    <3>3. CASE i > Len(a) + 1
      <4>1. j > Len(a) + 1
        BY <1>4, <3>3
      <4> QED BY <3>3, <4>1
    <3> QED BY <1>6, <3>1, <3>2, <3>3
  <2> QED BY <2>1, <2>2, <2>3, <2>4
<1>10. OneEach(r)
  <2> SUFFICES ASSUME NEW i \in 1 .. Len(r), NEW j \in 1 .. Len(r), r[i][2] = r[j][2] PROVE i = j
    BY DEF OneEach
  <2>1. \A e \in ToSet(a) \cup ToSet(b) : e \in ToSet(time)
    BY <1>2
  <2>2. CASE i = Len(a) + 1 \/ j = Len(a) + 1
    BY <1>6, <1>7, <2>1, <2>2
  <2>3. CASE i \in 1 .. Len(a) /\ j \in 1 .. Len(a)
    <3>1. r[i] = a[i] /\ r[j] = a[j]
      BY <1>4, <1>6, <2>3
    <3> QED BY <1>1, <2>3, <3>1 DEF OneEach
  <2>4. CASE i > Len(a) + 1 /\ j > Len(a) + 1
    <3>1. /\ r[i] = b[i - (Len(a) + 1)] /\ r[j] = b[j - (Len(a) + 1)]
          /\ i - (Len(a) + 1) \in 1 .. Len(b) /\ j - (Len(a) + 1) \in 1 .. Len(b)
      BY <1>4, <1>6, <2>4
    <3>2. i - (Len(a) + 1) = j - (Len(a) + 1)
      BY <1>1, <3>1 DEF OneEach
    <3> QED BY <1>4, <3>2
  <2>5. ~(r[i] \in ToSet(a) /\ r[j] \in ToSet(b)) /\ ~(r[j] \in ToSet(a) /\ r[i] \in ToSet(b))
    BY <1>8
  <2> QED BY <1>6, <2>2, <2>3, <2>4, <2>5
<1>11. {e[2] : e \in ToSet(r)} = D \cup {id}
  BY <1>0, <1>5, <1>7
<1> QED BY <1>5, <1>9, <1>10, <1>11, <1>r DEF TimesOf, E

(* As many entries in _time as there are ids.                              *)
LEMMA TimesLength ==
  ASSUME NEW t, NEW D, TimesOf(t, D)
  PROVE  Len(t) = Cardinality(D)
<1> DEFINE l == [i \in 1 .. Len(t) |-> t[i][2]]
<1>1. /\ t \in Seq((0 .. MaxClock) \X Id) /\ Len(t) \in Nat
      /\ \A i \in 1 .. Len(t) : t[i][2] \in Id
  <2>1. t \in Seq((0 .. MaxClock) \X Id)
    BY DEF TimesOf
  <2>2. Len(t) \in Nat /\ \A i \in 1 .. Len(t) : t[i] \in (0 .. MaxClock) \X Id
    BY <2>1, LenProperties, ElementOfSeq
  <2> QED BY <2>1, <2>2
<1>2. l \in Seq(Id) /\ Len(l) = Len(t) /\ DOMAIN l = 1 .. Len(t) /\ \A i \in 1 .. Len(t) : l[i] = t[i][2]
  BY <1>1
<1> HIDE DEF l
<1>3. IsInjective(l)
  BY <1>2 DEF IsInjective, TimesOf, OneEach
<1>4. ToSet(l) = D
  <2>1. \A e : e \in ToSet(t) <=> \E i \in 1 .. Len(t) : t[i] = e
    BY <1>1, ToSetType
  <2> QED BY <1>2, <2>1 DEF ToSet, TimesOf
<1> QED BY <1>2, <1>3, <1>4, InjectiveCardinality

(* pop_back of _send                                                       *)
LEMMA FrontFacts ==
  ASSUME NEW S, NEW s \in Seq(S), s # << >>, IsInjective(s)
  PROVE  /\ Last(s) \in ToSet(s)
         /\ Front(s) \in Seq(S) /\ IsInjective(Front(s))
         /\ ToSet(Front(s)) = ToSet(s) \ {Last(s)}
<1>1. Len(s) \in Nat \ {0} /\ DOMAIN s = 1 .. Len(s)
  BY LenProperties, EmptySeq
<1>2. Len(s) \in 1 .. Len(s) /\ Len(s) - 1 \in 0 .. Len(s) /\ (Len(s) - 1) + 1 = Len(s)
  BY <1>1
<1>3. /\ SubSeq(s, 1, Len(s) - 1) \in Seq(S)
      /\ SubSeq(s, Len(s), Len(s)) \in Seq(S)
      /\ ToSet(SubSeq(s, 1, Len(s) - 1)) \cup ToSet(SubSeq(s, Len(s), Len(s))) = ToSet(s)
      /\ IsInjective(SubSeq(s, 1, Len(s) - 1))
      /\ ToSet(SubSeq(s, 1, Len(s) - 1)) \cap ToSet(SubSeq(s, Len(s), Len(s))) = {}
  BY <1>2, SplitFacts
<1>4. ToSet(SubSeq(s, Len(s), Len(s))) = {Last(s)}
  <2> DEFINE b == SubSeq(s, Len(s), Len(s))
  <2>1. Len(b) = 1 /\ b[1] = s[Len(s)]
    BY <1>1, <1>2
  <2>2. DOMAIN b = 1 .. 1
    BY <1>3, <2>1, LenProperties
  <2> HIDE DEF b
  <2>3. ToSet(b) = {s[Len(s)]}
    BY <2>1, <2>2 DEF ToSet
  <2> QED BY <2>3 DEF b, Last
<1>5. Last(s) \in ToSet(s)
  BY <1>3, <1>4
<1> QED BY <1>3, <1>4, <1>5 DEF Front

(* Entries are erased from all three containers: those that _send still    *)
(* leads to are erased there too, and no iterator dangles.                 *)
LEMMA EraseAgrees ==
  ASSUME QueuesAgree, NEW ids \in SUBSET DOMAIN data, NEW l,
         l \in Seq(Id), IsInjective(l),
         ToSet(l) = ToSet(send) \ ids
  PROVE  /\ DOMAIN DataWithout(ids) = DOMAIN data \ ids
         /\ DataWithout(ids) \in [DOMAIN data \ ids -> PtrInfo]
         /\ TimesOf(TimeWithout(ids), DOMAIN data \ ids)
         /\ SendsOf(l, DataWithout(ids))
<1>1. /\ DOMAIN DataWithout(ids) = DOMAIN data \ ids
      /\ \A i \in DOMAIN data \ ids : DataWithout(ids)[i] = data[i]
      /\ DataWithout(ids) \in [DOMAIN data \ ids -> PtrInfo]
  BY DEF DataWithout, QueuesAgree
<1>2. TimesOf(TimeWithout(ids), DOMAIN data \ ids)
  BY EraseTimes DEF QueuesAgree
<1>3. SendsOf(l, DataWithout(ids))
  BY <1>1 DEF QueuesAgree, SendsOf
<1> QED BY <1>1, <1>2, <1>3

(* push adds the node to the data, the send list and the time list together.*)
LEMMA PushAgrees ==
  ASSUME QueuesAgree, NEW m \in Message, NEW id \in Id, NEW d \in 0 .. MaxClock, NEW b \in BOOLEAN,
         Push(m, id, d, b)
  PROVE  QueuesAgree'
<1> DEFINE r == [ptr |-> m, hasSend |-> b]
           D == DOMAIN data \cup {id}
<1>1. id \notin DOMAIN data /\ dangling' = dangling
  BY DEF Push
<1>2. /\ DOMAIN data' = D /\ data' \in [D -> PtrInfo] /\ data'[id] = r
      /\ \A i \in DOMAIN data : data'[i] = data[i]
  <2>1. r \in PtrInfo
    BY DEF PtrInfo
  <2>2. data' = [i \in D |-> IF i = id THEN r ELSE data[i]]
    BY DEF Push
  <2>3. data \in [DOMAIN data -> PtrInfo]
    BY DEF QueuesAgree
  <2> HIDE DEF r
  <2> QED BY <1>1, <2>1, <2>2, <2>3
<1>3. TimesOf(time', D)
  <2>1. time' = Inserted(d, id)
    BY DEF Push
  <2> QED BY <1>1, <2>1, InsertTimes DEF QueuesAgree
<1>4. SendsOf(send', data')
  <2>1. /\ send \in Seq(Id) /\ IsInjective(send) /\ id \notin ToSet(send)
        /\ ToSet(send) = {i \in DOMAIN data : ~data[i].hasSend}
    BY <1>1 DEF QueuesAgree, SendsOf
  <2>2. CASE b
    <3>1. send' = send /\ data'[id].hasSend
      BY <1>2, <2>2 DEF Push
    <3> QED BY <1>2, <2>1, <3>1 DEF SendsOf
  <2>3. CASE ~b
    <3> DEFINE one == <<id>>
    <3>1. send' = one \o send /\ ~data'[id].hasSend
      BY <1>2, <2>3 DEF Push
    <3>2. one \in Seq(Id) /\ ToSet(one) = {id} /\ IsInjective(one)
      BY DEF ToSet, IsInjective
    <3> HIDE DEF one
    <3>3. /\ one \o send \in Seq(Id) /\ ToSet(one \o send) = ToSet(one) \cup ToSet(send)
          /\ IsInjective(one \o send) <=>
               IsInjective(one) /\ IsInjective(send) /\ ToSet(one) \cap ToSet(send) = {}
      BY <2>1, <3>2, ConcatFacts
    <3>4. ToSet(one) \cap ToSet(send) = {}
      BY <2>1, <3>2
    <3>5. send' \in Seq(Id) /\ IsInjective(send') /\ ToSet(send') = {id} \cup ToSet(send)
      BY <2>1, <3>1, <3>2, <3>3, <3>4
    <3>6. {i \in DOMAIN data' : ~data'[i].hasSend} = {id} \cup {i \in DOMAIN data : ~data[i].hasSend}
      BY <1>2, <3>1
    <3> QED BY <2>1, <3>5, <3>6 DEF SendsOf
  <2> QED BY <2>2, <2>3
<1>5. D \subseteq Id
  BY DEF QueuesAgree
<1> HIDE DEF D
<1> QED BY <1>1, <1>2, <1>3, <1>4, <1>5 DEF QueuesAgree

(* popSend takes the node off the send list, and off the others if it deletes it.*)
LEMMA PopSendAgrees ==
  ASSUME QueuesAgree, NEW del \in BOOLEAN, PopSend(del)
  PROVE  QueuesAgree'
<1> DEFINE id == Last(send)
<1>1. /\ id \in ToSet(send) /\ send' \in Seq(Id) /\ IsInjective(send')
      /\ ToSet(send') = ToSet(send) \ {id}
  BY FrontFacts DEF QueuesAgree, SendsOf, PopSend
<1>2. id \in DOMAIN data /\ ~data[id].hasSend
  BY <1>1 DEF QueuesAgree, SendsOf
<1>3. ~dangling'
  BY <1>2 DEF QueuesAgree, PopSend
<1>4. CASE del
  <2>1. data' = DataWithout({id}) /\ time' = TimeWithout({id})
    BY <1>4 DEF PopSend
  <2>2. {id} \in SUBSET DOMAIN data
    BY <1>2
  <2>3. /\ DOMAIN data' = DOMAIN data \ {id} /\ data' \in [DOMAIN data \ {id} -> PtrInfo]
        /\ TimesOf(time', DOMAIN data \ {id}) /\ SendsOf(send', data')
    BY <1>1, <2>1, <2>2, EraseAgrees
  <2> QED BY <1>3, <2>3 DEF QueuesAgree
<1>5. CASE ~del
  <2>1. data' = [data EXCEPT ![id].hasSend = TRUE] /\ time' = time
    BY <1>5 DEF PopSend
  <2>2. data \in [DOMAIN data -> PtrInfo] /\ data[id] \in PtrInfo
    BY <1>2 DEF QueuesAgree
  <2>3. /\ DOMAIN data' = DOMAIN data /\ data' \in [DOMAIN data -> PtrInfo] /\ data'[id].hasSend
        /\ \A i \in DOMAIN data \ {id} : data'[i] = data[i]
    BY <1>2, <2>1, <2>2 DEF PtrInfo
  <2>4. SendsOf(send', data')
    <3>1. {i \in DOMAIN data' : ~data'[i].hasSend} = {i \in DOMAIN data : ~data[i].hasSend} \ {id}
      BY <1>2, <2>3
    <3> QED BY <1>1, <3>1 DEF QueuesAgree, SendsOf
  <2> QED BY <1>3, <2>1, <2>3, <2>4 DEF QueuesAgree
<1> QED BY <1>4, <1>5

(* get takes the node off all three when it erases it.                      *)
LEMMA GetAgrees ==
  ASSUME QueuesAgree, NEW id \in Id, NEW bErase \in BOOLEAN, Get(id, bErase)
  PROVE  QueuesAgree'
<1>1. id \in DOMAIN data /\ dangling' = dangling /\ {id} \in SUBSET DOMAIN data
  BY DEF Get
<1>2. CASE ~bErase
  BY <1>1, <1>2 DEF Get, QueuesAgree
<1>3. CASE bErase
  <2>0. send \in Seq(Id) /\ IsInjective(send) /\ ToSet(send) = {i \in DOMAIN data : ~data[i].hasSend}
    BY DEF QueuesAgree, SendsOf
  <2>1. send' \in Seq(Id) /\ IsInjective(send') /\ ToSet(send') = ToSet(send) \ {id}
    <3>1. CASE data[id].hasSend
      BY <1>3, <2>0, <3>1 DEF Get
    <3>2. CASE ~data[id].hasSend
      <4>1. send' = Kept(send, ToSet(send) \ {id})
        BY <1>3, <3>2 DEF Get, SendWithout
      <4>2. /\ Kept(send, ToSet(send) \ {id}) \in Seq(Id)
            /\ ToSet(Kept(send, ToSet(send) \ {id})) = ToSet(send) \cap (ToSet(send) \ {id})
            /\ IsInjective(Kept(send, ToSet(send) \ {id}))
        BY <2>0, KeptFacts
      <4> QED BY <4>1, <4>2
    <3> QED BY <3>1, <3>2
  <2>2. data' = DataWithout({id}) /\ time' = TimeWithout({id})
    BY <1>3 DEF Get
  <2>3. /\ DOMAIN data' = DOMAIN data \ {id} /\ data' \in [DOMAIN data \ {id} -> PtrInfo]
        /\ TimesOf(time', DOMAIN data \ {id}) /\ SendsOf(send', data')
    BY <1>1, <2>1, <2>2, EraseAgrees
  <2> QED BY <1>1, <2>3 DEF QueuesAgree
<1> QED BY <1>2, <1>3

(* What the two timeout functions do with the entries they find.           *)
LEMMA RemoveAgrees ==
  ASSUME QueuesAgree, NEW ids \in SUBSET DOMAIN data, RemoveEntries(ids)
  PROVE  QueuesAgree' /\ DOMAIN data' = DOMAIN data \ ids
<1> DEFINE gone == {i \in ids \cap DOMAIN data : ~data[i].hasSend}
<1>0. send \in Seq(Id) /\ IsInjective(send) /\ ToSet(send) = {i \in DOMAIN data : ~data[i].hasSend}
  BY DEF QueuesAgree, SendsOf
<1>1. send' \in Seq(Id) /\ IsInjective(send') /\ ToSet(send') = ToSet(send) \ ids
  <2>1. send' = Kept(send, ToSet(send) \ gone)
    BY DEF RemoveEntries, SendWithout
  <2>2. /\ send' \in Seq(Id) /\ IsInjective(send')
        /\ ToSet(send') = ToSet(send) \cap (ToSet(send) \ gone)
    BY <1>0, <2>1, KeptFacts
  <2>3. ToSet(send) \cap (ToSet(send) \ gone) = ToSet(send) \ ids
    BY <1>0
  <2> QED BY <2>2, <2>3
<1>2. data' = DataWithout(ids) /\ time' = TimeWithout(ids) /\ ~dangling'
  BY DEF RemoveEntries, QueuesAgree
<1>3. /\ DOMAIN data' = DOMAIN data \ ids /\ data' \in [DOMAIN data \ ids -> PtrInfo]
      /\ TimesOf(time', DOMAIN data \ ids) /\ SendsOf(send', data')
  BY <1>1, <1>2, EraseAgrees
<1> QED BY <1>2, <1>3 DEF QueuesAgree

(* The ids that leave with a timeout are ids of entries.                   *)
LEMMA TimeIds ==
  ASSUME QueuesAgree
  PROVE  /\ time \in Seq((0 .. MaxClock) \X Id)
         /\ \A i \in DOMAIN time : time[i][2] \in DOMAIN data /\ time[i][1] \in Int
         /\ \A e : e \in ToSet(time) <=> \E i \in DOMAIN time : time[i] = e
         /\ DOMAIN time = 1 .. Len(time) /\ Len(time) \in Nat
<1>1. time \in Seq((0 .. MaxClock) \X Id)
  BY DEF QueuesAgree, TimesOf
<1>2. /\ DOMAIN time = 1 .. Len(time) /\ Len(time) \in Nat
      /\ \A i \in 1 .. Len(time) : time[i] \in (0 .. MaxClock) \X Id
  BY <1>1, LenProperties, ElementOfSeq
<1>3. \A e : e \in ToSet(time) <=> \E i \in DOMAIN time : time[i] = e
  BY <1>1, <1>2, ToSetType
<1>4. \A i \in DOMAIN time : time[i][1] \in Int
  BY <1>2
<1>5. {e[2] : e \in ToSet(time)} = DOMAIN data
  BY DEF QueuesAgree, TimesOf
<1> QED BY <1>1, <1>2, <1>3, <1>4, <1>5

(* timeout takes what it expires off all three.                             *)
LEMMA TimeoutsAgree ==
  ASSUME QueuesAgree, TimeoutAll \/ TimeoutOne
  PROVE  QueuesAgree'
<1>1. CASE TimeoutAll
  <2>1. {time[i][2] : i \in {j \in DOMAIN time : \A k \in 1 .. j : time[k][1] <= clock}}
          \in SUBSET DOMAIN data
    BY TimeIds
  <2> QED BY <1>1, <2>1, RemoveAgrees DEF TimeoutAll
<1>2. CASE TimeoutOne
  <2>1. {Head(time)[2]} \in SUBSET DOMAIN data
    <3>1. time # << >>
      BY <1>2 DEF TimeoutOne
    <3>2. 1 \in DOMAIN time /\ Head(time) = time[1]
      BY <3>1, TimeIds, EmptySeq
    <3> QED BY <3>2, TimeIds
  <2> QED BY <1>2, <2>1, RemoveAgrees DEF TimeoutOne
<1> QED BY <1>1, <1>2

TimerInv == QueuesAgree /\ clock \in 0 .. MaxClock

(* The invariant holds of an empty queue                                    *)
LEMMA TimerInvInit == QueueInit => TimerInv
<1> SUFFICES ASSUME QueueInit PROVE TimerInv
  OBVIOUS
<1>1. data = << >> /\ time = << >> /\ send = << >> /\ ~dangling
  BY DEF QueueInit
<1>2. DOMAIN data = {} /\ data \in [{} -> PtrInfo]
  BY <1>1
<1>3. << >> \in Seq(Id) /\ << >> \in Seq((0 .. MaxClock) \X Id) /\ ToSet(<< >>) = {}
      /\ IsInjective(<< >>) /\ Len(<< >>) = 0
  BY DEF ToSet, IsInjective
<1>4. TimesOf(time, {})
  <2>1. \A i \in 1 .. Len(<< >>) : FALSE
    BY <1>3
  <2>2. Ordered(<< >>) /\ OneEach(<< >>)
    BY <2>1 DEF Ordered, OneEach
  <2> QED BY <1>1, <1>3, <2>2 DEF TimesOf
<1>5. SendsOf(send, data)
  BY <1>1, <1>2, <1>3 DEF SendsOf
<1>6. clock \in 0 .. MaxClock
  BY QueueAssumption DEF QueueInit
<1>7. QueuesAgree
  <2>1. TimesOf(time, DOMAIN data) /\ DOMAIN data \subseteq Id /\ data \in [DOMAIN data -> PtrInfo]
    BY <1>2, <1>4
  <2> QED BY <1>1, <1>5, <2>1 DEF QueuesAgree
<1> QED BY <1>6, <1>7 DEF TimerInv

(* and every operation keeps it.                                            *)
LEMMA TimerInvStep == TimerInv /\ [QueueNext]_queueVars => TimerInv'
<1> SUFFICES ASSUME TimerInv, [QueueNext]_queueVars PROVE TimerInv'
  OBVIOUS
<1>0. QueuesAgree
  BY DEF TimerInv
<1>1. ASSUME NEW m \in Message, NEW id \in Id, NEW d \in 0 .. MaxClock, NEW b \in BOOLEAN,
             Push(m, id, d, b)
      PROVE  QueuesAgree'
  BY <1>1, <1>0, PushAgrees
<1>2. ASSUME GetSend PROVE QueuesAgree'
  <2>1. Last(send) \in DOMAIN data
    <3>1. Last(send) \in ToSet(send)
      BY <1>0, <1>2, FrontFacts DEF GetSend, QueuesAgree, SendsOf
    <3> QED BY <1>0, <3>1 DEF QueuesAgree, SendsOf
  <2> QED BY <1>0, <1>2, <2>1 DEF GetSend, QueuesAgree
<1>3. ASSUME NEW del \in BOOLEAN, PopSend(del) PROVE QueuesAgree'
  BY <1>3, <1>0, PopSendAgrees
<1>4. ASSUME NEW id \in Id, NEW b \in BOOLEAN, Get(id, b) PROVE QueuesAgree'
  BY <1>4, <1>0, GetAgrees
<1>5. ASSUME TimeoutAll \/ TimeoutOne PROVE QueuesAgree'
  BY <1>5, <1>0, TimeoutsAgree
<1>6. ASSUME TimePasses \/ UNCHANGED queueVars PROVE QueuesAgree'
  BY <1>0, <1>6 DEF TimePasses, queueVars, QueuesAgree
<1>7. QueuesAgree'
  BY <1>1, <1>2, <1>3, <1>4, <1>5, <1>6 DEF QueueNext
<1>8. clock' \in 0 .. MaxClock
  <2>1. clock' = clock \/ (clock < MaxClock /\ clock' = clock + 1)
    BY DEF QueueNext, queueVars, Push, GetSend, PopSend, Get, TimeoutAll, TimeoutOne, TimePasses
  <2>2. clock \in 0 .. MaxClock /\ MaxClock \in Nat
    BY QueueAssumption DEF TimerInv
  <2> QED BY <2>1, <2>2
<1> QED BY <1>7, <1>8 DEF TimerInv

(* For every set of ids and messages, and every range of deadlines: the    *)
(* map, the multimap and the list of the queue have the same entries, each *)
(* once, and no iterator in one of them points at an entry another has     *)
(* erased.                                                                 *)
THEOREM ContainersStayTogether == QueueSpec => []ContainersAgree
<1>1. QueuesAgree => ContainersAgree
  <2> SUFFICES ASSUME QueuesAgree PROVE ContainersAgree
    OBVIOUS
  <2>1. Len(time) = Cardinality(DOMAIN data)
    BY TimesLength DEF QueuesAgree
  <2> QED BY <2>1 DEF QueuesAgree, TimesOf, SendsOf, ContainersAgree
<1>2. TimerInv => ContainersAgree
  BY <1>1 DEF TimerInv
<1> QED BY <1>2, TimerInvInit, TimerInvStep, PTL DEF QueueSpec

(* timeout() removes all entries that are due and no other, and timeout(t) *)
(* one that no other was due before: what is behind an entry of the        *)
(* multimap that is not due is not due either.                             *)
THEOREM TimeoutsTakeTheDue == QueueSpec => TimeoutsExact
<1> DEFINE Exact == /\ TimeoutAll => DOMAIN data' = DOMAIN data \ Due
                    /\ TimeoutOne =>
                         \A e \in ToSet(time) : e[2] \in DOMAIN data' => e[1] >= Head(time)[1]
<1>1. TimerInv => [Exact]_queueVars
  <2> SUFFICES ASSUME TimerInv PROVE Exact
    OBVIOUS
  <2>0. QueuesAgree
    BY DEF TimerInv
  <2>1. Ordered(time) /\ OneEach(time)
    BY <2>0 DEF QueuesAgree, TimesOf
  <2>2. ASSUME TimeoutAll PROVE DOMAIN data' = DOMAIN data \ Due
    <3> DEFINE ids == {time[i][2] : i \in {j \in DOMAIN time : \A k \in 1 .. j : time[k][1] <= clock}}
    <3>1. ids \in SUBSET DOMAIN data /\ RemoveEntries(ids)
      BY <2>2, <2>0, TimeIds DEF TimeoutAll
    <3>2. ids \subseteq Due
      <4> SUFFICES ASSUME NEW i \in DOMAIN time, \A k \in 1 .. i : time[k][1] <= clock
                   PROVE  time[i][2] \in Due
        OBVIOUS
      <4>1. i \in 1 .. i /\ time[i] \in ToSet(time)
        BY <2>0, TimeIds
      <4> QED BY <4>1 DEF Due
    <3>3. Due \subseteq ids
      <4> SUFFICES ASSUME NEW x \in Due PROVE x \in ids
        OBVIOUS
      <4>1. PICK i \in DOMAIN time : time[i][1] <= clock /\ x = time[i][2]
        BY <2>0, TimeIds DEF Due
      <4>2. ASSUME NEW k \in 1 .. i PROVE time[k][1] <= clock
        <5>1. k \in 1 .. Len(time) /\ i \in 1 .. Len(time) /\ (k < i \/ k = i)
          BY <2>0, TimeIds
        <5>2. time[k][1] <= time[i][1]
          <6>1. CASE k < i
            BY <2>1, <5>1, <6>1 DEF Ordered
          <6>2. CASE k = i
            BY <5>1, <6>2, <2>0, TimeIds
          <6> QED BY <5>1, <6>1, <6>2
        <5>3. time[k][1] \in Int /\ time[i][1] \in Int
          BY <5>1, <2>0, TimeIds
        <5>4. clock \in Int
          BY DEF TimerInv
        <5> QED BY <4>1, <5>2, <5>3, <5>4
      <4> QED BY <4>1, <4>2
    <3>4. ids = Due
      BY <3>2, <3>3
    <3> HIDE DEF ids
    <3> QED BY <3>1, <3>4, <2>0, RemoveAgrees
  <2>3. ASSUME TimeoutOne, NEW e \in ToSet(time) PROVE e[1] >= Head(time)[1]
    <3>1. time # << >> /\ Head(time) = time[1] /\ 1 \in 1 .. Len(time)
      BY <2>3, <2>0, TimeIds, EmptySeq DEF TimeoutOne
    <3>2. PICK i \in 1 .. Len(time) : time[i] = e
      BY <2>0, TimeIds
    <3>3. time[1][1] \in Int /\ time[i][1] \in Int
      BY <3>1, <2>0, TimeIds
    <3>4. CASE i = 1
      BY <3>1, <3>2, <3>3, <3>4
    <3>5. CASE i # 1
      <4>1. 1 < i
        BY <3>2, <3>5
      <4>2. time[1][1] <= time[i][1]
        BY <2>1, <3>1, <4>1 DEF Ordered
      <4> QED BY <3>1, <3>2, <3>3, <4>2
    <3> QED BY <3>4, <3>5
  <2> QED BY <2>2, <2>3
<1> QED BY <1>1, TimerInvInit, TimerInvStep, PTL DEF QueueSpec, TimeoutsExact

-----------------------------------------------------------------------------
(***************************************************************************)
(* The buffer.                                                             *)
(***************************************************************************)

(* TwoTo computes its recursion: as for Kept, a function that obeys it is  *)
(* made longer by one number at a time.                                    *)
LEMMA TwoToIs ==
  /\ Width - 1 \in Nat
  /\ TwoTo = [k \in 0 .. Width - 1 |-> IF k = 0 THEN 1 ELSE 2 * TwoTo[k - 1]]
<1> DEFINE Obeys(m, f) == f = [k \in 0 .. m |-> IF k = 0 THEN 1 ELSE 2 * f[k - 1]]
           M == {m \in Nat : \E f : Obeys(m, f)}
<1>1. 0 \in M
  <2> DEFINE g == [k \in 0 .. 0 |-> 1]
  <2>1. Obeys(0, g)
    OBVIOUS
  <2> QED BY <2>1
<1>2. ASSUME NEW m \in Nat, m \in M PROVE m + 1 \in M
  <2>1. PICK f : Obeys(m, f)
    BY <1>2
  <2> DEFINE g == [k \in 0 .. m + 1 |-> IF k <= m THEN f[k] ELSE 2 * f[m]]
  <2>2. Obeys(m + 1, g)
    <3> SUFFICES ASSUME NEW k \in 0 .. m + 1
                 PROVE  g[k] = IF k = 0 THEN 1 ELSE 2 * g[k - 1]
      OBVIOUS
    <3>1. CASE k = 0
      <4>1. k \in 0 .. m /\ k <= m
        BY <3>1
      <4>2. f[k] = 1
        BY <2>1, <3>1, <4>1
      <4> QED BY <3>1, <4>1, <4>2
    <3>2. CASE k \in 1 .. m
      <4>1. k \in 0 .. m /\ k - 1 \in 0 .. m + 1 /\ k - 1 <= m /\ k <= m /\ k # 0
        BY <3>2
      <4>2. g[k] = f[k] /\ g[k - 1] = f[k - 1]
        BY <4>1
      <4>3. f[k] = 2 * f[k - 1]
        BY <2>1, <4>1
      <4> QED BY <4>1, <4>2, <4>3
    <3>3. CASE k = m + 1
      <4>1. k - 1 = m /\ ~(k <= m) /\ m \in 0 .. m + 1 /\ k # 0
        BY <3>3
      <4>2. g[m] = f[m] /\ g[k] = 2 * f[m]
        BY <3>3, <4>1
      <4> QED BY <4>1, <4>2
    <3>4. k = 0 \/ k \in 1 .. m \/ k = m + 1
      OBVIOUS
    <3> QED BY <3>1, <3>2, <3>3, <3>4
  <2> HIDE DEF g, Obeys
  <2> QED BY <2>2
<1>3. Width - 1 \in Nat
  BY BufferAssumption
<1>4. Width - 1 \in M
  <2> HIDE DEF M
  <2> QED BY <1>1, <1>2, <1>3, SetInduction
<1> DEFINE two == CHOOSE f : Obeys(Width - 1, f)
<1>5. Obeys(Width - 1, two)
  BY <1>4
<1>6. TwoTo = two
  BY DEF TwoTo
<1> HIDE DEF two
<1> QED BY <1>3, <1>5, <1>6

(* The powers grow, so the largest is not below any other, and one that    *)
(* is below the largest can be doubled.                                    *)
LEMMA PowerFacts ==
  /\ kMaxBufferSize \in Nat /\ kMaxBufferSize + 1 \in Power2
  /\ \A p \in Power2 : p \in Nat /\ 1 <= p /\ p <= kMaxBufferSize + 1
  /\ \A p \in Power2 : p < kMaxBufferSize + 1 => 2 * p \in Power2
<1>1. /\ Width - 1 \in Nat
      /\ TwoTo = [k \in 0 .. Width - 1 |-> IF k = 0 THEN 1 ELSE 2 * TwoTo[k - 1]]
  BY TwoToIs
<1>2. \A k \in 0 .. Width - 1 : TwoTo[k] = IF k = 0 THEN 1 ELSE 2 * TwoTo[k - 1]
  BY <1>1
<1> DEFINE M == {m \in Nat : m <= Width - 1 =>
                   /\ TwoTo[m] \in Nat /\ 1 <= TwoTo[m]
                   /\ \A k \in 0 .. m : TwoTo[k] \in Nat /\ 1 <= TwoTo[k] /\ TwoTo[k] <= TwoTo[m]}
<1>3. 0 \in M
  <2>1. TwoTo[0] = 1
    BY <1>1, <1>2
  <2>2. \A k \in 0 .. 0 : k = 0
    OBVIOUS
  <2> QED BY <2>1, <2>2
<1>4. ASSUME NEW m \in Nat, m \in M PROVE m + 1 \in M
  <2> SUFFICES ASSUME m + 1 <= Width - 1
               PROVE  /\ TwoTo[m + 1] \in Nat /\ 1 <= TwoTo[m + 1]
                      /\ \A k \in 0 .. m + 1 :
                           TwoTo[k] \in Nat /\ 1 <= TwoTo[k] /\ TwoTo[k] <= TwoTo[m + 1]
    OBVIOUS
  <2>1. m <= Width - 1 /\ m + 1 \in 0 .. Width - 1 /\ m + 1 # 0 /\ (m + 1) - 1 = m
    BY <1>1
  <2>2. TwoTo[m + 1] = 2 * TwoTo[m]
    BY <1>2, <2>1
  <2>3. /\ TwoTo[m] \in Nat /\ 1 <= TwoTo[m]
        /\ \A k \in 0 .. m : TwoTo[k] \in Nat /\ 1 <= TwoTo[k] /\ TwoTo[k] <= TwoTo[m]
    BY <1>4, <2>1
  <2>4. TwoTo[m + 1] \in Nat /\ 1 <= TwoTo[m + 1] /\ TwoTo[m] <= TwoTo[m + 1]
    BY <2>2, <2>3
  <2>5. ASSUME NEW k \in 0 .. m + 1
        PROVE  TwoTo[k] \in Nat /\ 1 <= TwoTo[k] /\ TwoTo[k] <= TwoTo[m + 1]
    <3>1. CASE k = m + 1
      BY <2>4, <3>1
    <3>2. CASE k # m + 1
      <4>1. k \in 0 .. m
        BY <3>2
      <4> QED BY <2>3, <2>4, <4>1
    <3> QED BY <3>1, <3>2
  <2> QED BY <2>4, <2>5
<1>5. Width - 1 \in M
  <2> HIDE DEF M
  <2> QED BY <1>1, <1>3, <1>4, SetInduction
<1> DEFINE G == TwoTo[Width - 1]
<1>6. G \in Nat /\ 1 <= G /\ \A k \in 0 .. Width - 1 : TwoTo[k] \in Nat /\ 1 <= TwoTo[k] /\ TwoTo[k] <= G
  BY <1>1, <1>5
<1>7. kMaxBufferSize \in Nat /\ kMaxBufferSize + 1 = G /\ G \in Power2
  <2>1. kMaxBufferSize = G - 1
    BY DEF kMaxBufferSize
  <2>2. G - 1 \in Nat /\ (G - 1) + 1 = G
    <3> HIDE DEF G
    <3> QED BY <1>6
  <2>3. Width - 1 \in 0 .. Width - 1
    <3> DEFINE w == Width - 1
    <3>1. w \in Nat
      BY <1>1
    <3> HIDE DEF w
    <3>2. w \in 0 .. w
      BY <3>1
    <3> QED BY <3>2 DEF w
  <2>4. G \in Power2
    BY <2>3 DEF Power2
  <2> QED BY <2>1, <2>2, <2>4
<1>8. \A p \in Power2 : p \in Nat /\ 1 <= p /\ p <= G
  BY <1>6 DEF Power2
<1>9. ASSUME NEW p \in Power2, p < G PROVE 2 * p \in Power2
  <2>1. PICK k \in 0 .. Width - 1 : p = TwoTo[k]
    BY DEF Power2
  <2>2. k # Width - 1
    BY <1>6, <1>9, <2>1
  <2>3. k + 1 \in 0 .. Width - 1 /\ (k + 1) - 1 = k /\ k + 1 # 0
    BY <1>1, <2>2
  <2>4. TwoTo[k + 1] = 2 * TwoTo[k]
    BY <1>2, <2>3
  <2> QED BY <2>1, <2>3, <2>4 DEF Power2
<1> HIDE DEF G
<1> QED BY <1>7, <1>8, <1>9

(* The least element of a set of natural numbers                           *)
LEMMA MinIs ==
  ASSUME NEW S \in SUBSET Nat, S # {}
  PROVE  Min(S) \in S /\ \A y \in S : Min(S) <= y
<1> DEFINE Below == {m \in Nat : \A y \in S : m <= y}
<1>1. \E x \in S : \A y \in S : x <= y
  <2> SUFFICES ASSUME \A x \in S : \E y \in S : ~(x <= y) PROVE FALSE
    OBVIOUS
  <2>1. 0 \in Below
    OBVIOUS
  <2>2. ASSUME NEW m \in Nat, m \in Below PROVE m + 1 \in Below
    <3>1. m \notin S
      BY <2>2
    <3>2. ASSUME NEW y \in S PROVE m + 1 <= y
      <4>1. m <= y /\ m # y /\ y \in Nat
        BY <2>2, <3>1
      <4> QED BY <4>1
    <3> QED BY <3>2
  <2>3. PICK z \in S : TRUE
    OBVIOUS
  <2>4. z + 1 \in Nat /\ ~(z + 1 <= z)
    BY <2>3
  <2>5. z + 1 \in Below
    <3> HIDE DEF Below
    <3> QED BY <2>1, <2>2, <2>4, SetInduction
  <2> QED BY <2>3, <2>4, <2>5
<1> QED BY <1>1 DEF Min

(* What AssureSpace makes of a capacity is a power of two, is enough, and  *)
(* is more than before when the old one was not enough.                    *)
LEMMA GrownIs ==
  ASSUME NEW c \in {0} \cup Power2, NEW wanted \in Nat, wanted < kMaxBufferSize
  PROVE  /\ Grown(c, wanted) \in {0} \cup Power2
         /\ Grown(c, wanted) >= c /\ Grown(c, wanted) >= wanted
         /\ c < wanted => Grown(c, wanted) > c
<1>1. c \in Nat /\ kDefaultSize \in Power2 /\ Power2 \in SUBSET Nat
  BY PowerFacts, BufferAssumption
<1>2. CASE c >= wanted
  BY <1>1, <1>2 DEF Grown
<1>3. CASE ~(c >= wanted)
  <2> DEFINE S == {p \in Power2 : p >= NextCapacity(c) /\ p >= wanted}
  <2>1. c < wanted /\ c < kMaxBufferSize /\ kMaxBufferSize \in Nat
    BY <1>1, <1>3, PowerFacts
  <2>2. NextCapacity(c) \in Power2 /\ NextCapacity(c) > c
    <3>1. CASE c < kDefaultSize
      BY <1>1, <3>1 DEF NextCapacity
    <3>2. CASE ~(c < kDefaultSize)
      <4>1. kDefaultSize \in Nat /\ 1 <= kDefaultSize
        BY <1>1, PowerFacts
      <4>2. c # 0 /\ c \in Power2 /\ 1 <= c
        BY <1>1, <3>2, <4>1
      <4> DEFINE T == {p \in Power2 : p >= c}
      <4>3. c \in T /\ T \in SUBSET Nat
        <5>1. c \in T
          BY <1>1, <4>2
        <5>2. T \in SUBSET Power2
          OBVIOUS
        <5> HIDE DEF T
        <5> QED BY <1>1, <5>1, <5>2
      <4>4. Min(T) \in T /\ Min(T) <= c
        <5> HIDE DEF T
        <5> QED BY <4>3, MinIs
      <4>5. RoundUp2Power(c) = Min(T)
        BY <4>2 DEF RoundUp2Power
      <4>6. RoundUp2Power(c) = c
        <5>1. Min(T) \in Nat /\ Min(T) >= c
          BY <4>3, <4>4
        <5> HIDE DEF T
        <5> QED BY <1>1, <4>4, <4>5, <5>1
      <4>7. 2 * c \in Power2
        BY <2>1, <4>2, PowerFacts
      <4>8. NextCapacity(c) = 2 * c
        BY <1>1, <3>2, <4>6 DEF NextCapacity
      <4> QED BY <1>1, <4>2, <4>7, <4>8
    <3> QED BY <3>1, <3>2
  <2>3. kMaxBufferSize + 1 \in S /\ S \in SUBSET Nat
    <3>1. kMaxBufferSize + 1 \in Power2 /\ NextCapacity(c) <= kMaxBufferSize + 1
      BY <2>2, PowerFacts
    <3>2. kMaxBufferSize + 1 >= wanted /\ kMaxBufferSize + 1 >= NextCapacity(c)
      BY <1>1, <2>1, <2>2, <3>1
    <3>3. S \in SUBSET Power2
      OBVIOUS
    <3>4. kMaxBufferSize + 1 \in S
      BY <3>1, <3>2
    <3> HIDE DEF S
    <3> QED BY <1>1, <3>3, <3>4
  <2>4. Min(S) \in S
    <3> HIDE DEF S
    <3> QED BY <2>3, MinIs
  <2>5. Grown(c, wanted) = Min(S)
    BY <1>3 DEF Grown
  <2>6. Min(S) \in Power2 /\ Min(S) >= NextCapacity(c) /\ Min(S) >= wanted
    BY <2>4
  <2>7. Min(S) \in Nat /\ NextCapacity(c) \in Nat
    BY <1>1, <2>2, <2>6
  <2> HIDE DEF S
  <2> QED BY <1>1, <2>1, <2>2, <2>5, <2>6, <2>7
<1> QED BY <1>2, <1>3

(* A block with its positions holds exp: what is readable is exp.          *)
BlockByte == Byte \cup {Junk}

Holds(mem, rd, wr, cap, exp) ==
    /\ rd \in Nat /\ wr \in Nat /\ rd <= wr /\ wr <= cap
    /\ cap \in {0} \cup Power2
    /\ mem \in Seq(BlockByte) /\ Len(mem) = cap
    /\ exp \in Seq(BlockByte) /\ Len(exp) = wr - rd
    /\ \A i \in 1 .. Len(exp) : exp[i] = mem[rd + i]

BufInv == ~assertFailed /\ Holds(buffer, readPos, writePos, capacity, expected)

(* Bytes written at the write position are put behind what there is.       *)
LEMMA WrittenHolds ==
  ASSUME NEW mem, NEW rd, NEW wr, NEW cap, NEW exp, Holds(mem, rd, wr, cap, exp),
         NEW piece \in Seq(Byte), wr + Len(piece) <= cap
  PROVE  Holds(Written(mem, wr, piece), rd, wr + Len(piece), cap, exp \o piece)
<1> DEFINE w == Written(mem, wr, piece)
           d == Len(piece)
           x == Len(exp)
<1>1. /\ d \in Nat /\ piece \in Seq(BlockByte) /\ x \in Nat /\ x = wr - rd
      /\ rd \in Nat /\ wr \in Nat /\ rd <= wr /\ wr + d <= cap /\ cap \in Nat
      /\ cap \in {0} \cup Power2
      /\ DOMAIN mem = 1 .. cap /\ \A i \in 1 .. cap : mem[i] \in BlockByte
      /\ \A i \in 1 .. d : piece[i] \in BlockByte
  <2>1. piece \in Seq(BlockByte)
    BY DEF BlockByte
  <2> QED BY <2>1, LenProperties, ElementOfSeq, PowerFacts DEF Holds
<1>2. w = [i \in 1 .. cap |-> IF i \in wr + 1 .. wr + d THEN piece[i - wr] ELSE mem[i]]
  BY <1>1 DEF Written
<1>3. \A i \in 1 .. cap : i \in wr + 1 .. wr + d => i - wr \in 1 .. d
  BY <1>1
<1>4. w \in [1 .. cap -> BlockByte]
  BY <1>1, <1>2, <1>3
<1>5. w \in Seq(BlockByte) /\ Len(w) = cap
  <2> HIDE DEF w
  <2> QED BY <1>1, <1>4, BlockIs
<1> DEFINE e == exp \o piece
<1>6. /\ e \in Seq(BlockByte) /\ Len(e) = x + d
      /\ \A i \in 1 .. x + d : e[i] = IF i <= x THEN exp[i] ELSE piece[i - x]
  BY <1>1, ConcatProperties DEF Holds
<1>7. ASSUME NEW i \in 1 .. x + d PROVE e[i] = w[rd + i]
  <2>1. i \in Int /\ 1 <= i /\ i <= x + d
    BY <1>1
  <2>2. rd + i \in 1 .. cap
    BY <1>1, <2>1
  <2>3. CASE i <= x
    <3>1. ~(rd + i \in wr + 1 .. wr + d) /\ i \in 1 .. x
      BY <1>1, <2>1, <2>3
    <3>2. w[rd + i] = mem[rd + i]
      BY <1>2, <2>2, <3>1
    <3>3. exp[i] = mem[rd + i]
      BY <3>1 DEF Holds
    <3> QED BY <1>6, <2>3, <3>2, <3>3
  <2>4. CASE ~(i <= x)
    <3>1. rd + i \in wr + 1 .. wr + d /\ (rd + i) - wr = i - x
      BY <1>1, <2>1, <2>4
    <3>2. w[rd + i] = piece[(rd + i) - wr]
      BY <1>2, <2>2, <3>1
    <3> QED BY <1>6, <2>4, <3>1, <3>2
  <2> QED BY <2>3, <2>4
<1>8. /\ wr + d \in Nat /\ rd <= wr + d /\ x + d = (wr + d) - rd
  BY <1>1
<1> HIDE DEF w, e, d, x
<1>9. Holds(w, rd, wr + d, cap, e)
  BY <1>1, <1>5, <1>6, <1>7, <1>8 DEF Holds
<1> QED BY <1>9 DEF w, e, d, x

(* What is read is taken from the front.                                   *)
LEMMA ConsumedHolds ==
  ASSUME NEW mem, NEW rd, NEW wr, NEW cap, NEW exp, Holds(mem, rd, wr, cap, exp),
         NEW n \in Nat, n <= wr - rd
  PROVE  LET rest == SubSeq(exp, n + 1, Len(exp))
         IN  /\ rd + n # wr => Holds(mem, rd + n, wr, cap, rest)
             /\ rd + n = wr => Holds(mem, 0, 0, cap, rest)
<1> DEFINE x == Len(exp)
           rest == SubSeq(exp, n + 1, x)
<1>1. /\ x \in Nat /\ x = wr - rd /\ rd \in Nat /\ wr \in Nat /\ rd <= wr /\ wr <= cap
      /\ cap \in Nat /\ \A i \in 1 .. x : exp[i] \in BlockByte
  BY LenProperties, ElementOfSeq, PowerFacts DEF Holds
<1>2. \A i \in n + 1 .. x : exp[i] \in BlockByte
  BY <1>1
<1>3. /\ rest \in Seq(BlockByte)
      /\ Len(rest) = IF n + 1 <= x THEN x - (n + 1) + 1 ELSE 0
      /\ \A i \in 1 .. x - (n + 1) + 1 : rest[i] = exp[(n + 1) + i - 1]
  BY <1>1, <1>2, SubSeqProperties
<1>4. Len(rest) = x - n
  BY <1>1, <1>3
<1>5. \A i \in 1 .. x - n : i + n \in 1 .. x /\ (n + 1) + i - 1 = i + n /\ i \in 1 .. x - (n + 1) + 1
  BY <1>1
<1>6. ASSUME NEW i \in 1 .. x - n PROVE rest[i] = mem[(rd + n) + i]
  <2>1. rest[i] = exp[i + n]
    BY <1>3, <1>5
  <2>2. exp[i + n] = mem[rd + (i + n)]
    BY <1>5 DEF Holds
  <2>3. rd + (i + n) = (rd + n) + i
    BY <1>1
  <2> QED BY <2>1, <2>2, <2>3
<1> HIDE DEF rest
<1>7. CASE rd + n # wr
  <2>1. rd + n \in Nat /\ rd + n <= wr /\ x - n = wr - (rd + n)
    BY <1>1
  <2>2. Holds(mem, rd + n, wr, cap, rest)
    BY <1>3, <1>4, <1>6, <2>1 DEF Holds
  <2> QED BY <1>7, <2>2 DEF rest
<1>8. CASE rd + n = wr
  <2>1. x - n = 0 - 0 /\ \A i \in 1 .. x - n : FALSE
    BY <1>1, <1>8
  <2>2. Holds(mem, 0, 0, cap, rest)
    BY <1>1, <1>3, <1>4, <2>1 DEF Holds
  <2> QED BY <1>8, <2>2 DEF rest
<1> QED BY <1>7, <1>8

(* A block that is compacted holds the data from its first byte.           *)
LEMMA CompactedHolds ==
  ASSUME BufInv, NEW n \in {0} \cup Power2, n >= ReadableSize
  PROVE  Holds(Compacted(n), 0, ReadableSize, n, expected)
<1> DEFINE R == ReadableSize
           c == Compacted(n)
<1>1. /\ R \in Nat /\ R = writePos - readPos /\ R = Len(expected)
      /\ readPos \in Nat /\ writePos \in Nat /\ writePos <= capacity /\ n \in Nat
      /\ capacity \in Nat /\ capacity = Len(buffer)
      /\ \A i \in 1 .. capacity : buffer[i] \in BlockByte
  BY LenProperties, ElementOfSeq, PowerFacts DEF BufInv, Holds, ReadableSize
<1>2. \A i \in 1 .. n : i <= R => readPos + i \in 1 .. capacity
  BY <1>1
<1>3. c = [i \in 1 .. n |-> IF i <= R THEN buffer[readPos + i]
                            ELSE IF n = Len(buffer) THEN buffer[i] ELSE Junk]
  BY DEF Compacted
<1>4. ASSUME NEW i \in 1 .. n PROVE c[i] \in BlockByte
  <2>1. Junk \in BlockByte
    BY DEF BlockByte
  <2> QED BY <1>1, <1>2, <1>3, <2>1
<1>5. c \in [1 .. n -> BlockByte]
  BY <1>3, <1>4
<1>6. c \in Seq(BlockByte) /\ Len(c) = n
  <2> HIDE DEF c
  <2> QED BY <1>1, <1>5, BlockIs
<1>7. ASSUME NEW i \in 1 .. Len(expected) PROVE expected[i] = c[0 + i]
  <2>1. expected[i] = buffer[readPos + i]
    BY DEF BufInv, Holds
  <2>2. i \in 1 .. n /\ i <= R /\ 0 + i = i
    BY <1>1
  <2> QED BY <1>3, <2>1, <2>2
<1>8. expected \in Seq(BlockByte) /\ Len(expected) = R - 0
  BY <1>1 DEF BufInv, Holds
<1> HIDE DEF c, R
<1>9. Holds(c, 0, R, n, expected)
  <2>1. R <= n
    BY <1>1 DEF R
  <2> QED BY <1>1, <1>6, <1>7, <1>8, <2>1 DEF Holds
<1> QED BY <1>9 DEF c, R

(* AssureSpace makes room and keeps the data; its asserts hold.            *)
LEMMA AssuredHolds ==
  ASSUME BufInv, NEW n \in Nat, ReadableSize + n < kMaxBufferSize
  PROVE  LET a == Assured(n)
         IN  /\ a.ok /\ a.wr + n <= a.cap
             /\ Holds(a.mem, a.rd, a.wr, a.cap, expected)
<1> DEFINE cap == Grown(capacity, ReadableSize + n)
           R == ReadableSize
<1>1. /\ R \in Nat /\ R = writePos - readPos /\ capacity \in {0} \cup Power2
      /\ readPos \in Nat /\ writePos \in Nat /\ writePos <= capacity /\ capacity \in Nat
      /\ capacity = Len(buffer)
  BY PowerFacts DEF BufInv, Holds, ReadableSize
<1>2. /\ cap \in {0} \cup Power2 /\ cap \in Nat /\ cap >= capacity /\ cap >= R + n
      /\ capacity < R + n => cap > capacity
  BY <1>1, GrownIs, PowerFacts
<1> HIDE DEF cap
<1>3. CASE WritableSize >= n
  <2>1. Assured(n) = [mem |-> buffer, rd |-> readPos, wr |-> writePos, cap |-> capacity, ok |-> TRUE]
    BY <1>3 DEF Assured
  <2>2. writePos + n <= capacity
    BY <1>1, <1>3 DEF WritableSize
  <2> QED BY <2>1, <2>2 DEF BufInv
<1>4. CASE ~(WritableSize >= n)
  <2> DEFINE m == IF cap > capacity THEN Compacted(cap) ELSE Compacted(Len(buffer))
  <2>1. Assured(n) = [mem |-> m, rd |-> 0, wr |-> R, cap |-> cap,
                      ok |-> (cap > capacity \/ readPos > 0) /\ n <= cap - R]
    BY <1>4 DEF Assured, cap
  <2>2. m = Compacted(cap)
    BY <1>1, <1>2
  <2>3. Holds(Compacted(cap), 0, R, cap, expected)
    <3>1. cap >= R
      BY <1>1, <1>2
    <3> QED BY <1>2, <3>1, CompactedHolds
  <2>4. cap > capacity \/ readPos > 0
    BY <1>1, <1>2, <1>4 DEF WritableSize
  <2>5. n <= cap - R /\ R + n <= cap
    BY <1>1, <1>2
  <2>6. /\ Assured(n).mem = m /\ Assured(n).rd = 0 /\ Assured(n).wr = R /\ Assured(n).cap = cap
        /\ Assured(n).ok = ((cap > capacity \/ readPos > 0) /\ n <= cap - R)
    <3> HIDE DEF m, R
    <3> QED BY <2>1
  <2> HIDE DEF m, R
  <2>7. Assured(n).ok
    BY <2>4, <2>5, <2>6
  <2>8. Holds(Assured(n).mem, Assured(n).rd, Assured(n).wr, Assured(n).cap, expected)
    BY <2>2, <2>3, <2>6
  <2> QED BY <2>5, <2>6, <2>7, <2>8
<1> QED BY <1>3, <1>4

(* The invariant holds of an empty buffer.                                  *)
LEMMA BufInvInit == BufferInit => BufInv
<1> SUFFICES ASSUME BufferInit PROVE BufInv
  OBVIOUS
<1>1. << >> \in Seq(BlockByte) /\ Len(<< >>) = 0 /\ \A i \in 1 .. 0 : FALSE
  BY EmptySeq
<1> QED BY <1>1 DEF BufInv, Holds, BufferInit

(* Every call keeps the invariant.                                         *)
LEMMA BufInvStep == BufInv /\ [BufferNext]_bufferVars => BufInv'
<1> SUFFICES ASSUME BufInv, [BufferNext]_bufferVars PROVE BufInv'
  OBVIOUS
<1>1. /\ ~assertFailed /\ Holds(buffer, readPos, writePos, capacity, expected)
      /\ readPos \in Nat /\ writePos \in Nat /\ readPos <= writePos /\ writePos <= capacity
      /\ capacity \in Nat /\ ReadableSize = writePos - readPos /\ ReadableSize \in Nat
      /\ Len(expected) = ReadableSize /\ expected \in Seq(BlockByte)
  BY PowerFacts DEF BufInv, Holds, ReadableSize
<1>2. << >> \in Seq(BlockByte) /\ Len(<< >>) = 0 /\ \A i \in 1 .. 0 : FALSE
  BY EmptySeq
<1>3. ASSUME NEW piece \in Pieces PROVE piece \in Seq(Byte) /\ Len(piece) \in Nat
  <2>1. PICK n \in 1 .. MaxPiece : piece \in [1 .. n -> Byte]
    BY DEF Pieces
  <2>2. n \in Nat
    BY <2>1, BufferAssumption
  <2> QED BY <2>1, <2>2, BlockIs
<1>4. ASSUME NEW piece \in Pieces, PushData(piece) PROVE BufInv'
  <2> DEFINE a == Assured(Len(piece))
  <2>1. /\ a.ok /\ a.wr + Len(piece) <= a.cap
        /\ Holds(a.mem, a.rd, a.wr, a.cap, expected)
    BY <1>3, <1>4, AssuredHolds DEF PushData
  <2> HIDE DEF a
  <2>2. Holds(Written(a.mem, a.wr, piece), a.rd, a.wr + Len(piece), a.cap, expected \o piece)
    BY <1>3, <2>1, WrittenHolds
  <2>3. /\ buffer' = Written(a.mem, a.wr, piece) /\ readPos' = a.rd
        /\ writePos' = a.wr + Len(piece) /\ capacity' = a.cap
        /\ assertFailed' = (assertFailed \/ ~a.ok) /\ expected' = expected \o piece
    BY <1>4 DEF PushData, a
  <2>4. ~assertFailed'
    BY <1>1, <2>1, <2>3
  <2>5. Holds(buffer', readPos', writePos', capacity', expected')
    BY <2>2, <2>3
  <2> QED BY <2>4, <2>5 DEF BufInv, Holds
<1>5. ASSUME NEW piece \in Pieces, Produce(piece) PROVE BufInv'
  <2>1. writePos + Len(piece) <= capacity
    BY <1>1, <1>3, <1>5 DEF Produce, WritableSize
  <2>2. Holds(Written(buffer, writePos, piece), readPos, writePos + Len(piece), capacity, expected \o piece)
    BY <1>1, <1>3, <2>1, WrittenHolds
  <2>3. Holds(buffer', readPos', writePos', capacity', expected') /\ ~assertFailed'
    BY <1>1, <1>5, <2>2 DEF Produce
  <2> QED BY <2>3 DEF BufInv, Holds
<1>6. ASSUME NEW n \in 1 .. MaxPiece, AssureSpace(n) PROVE BufInv'
  <2> DEFINE a == Assured(n)
  <2>0. n \in Nat
    BY BufferAssumption
  <2>1. a.ok /\ Holds(a.mem, a.rd, a.wr, a.cap, expected)
    BY <1>6, <2>0, AssuredHolds DEF AssureSpace
  <2> HIDE DEF a
  <2>2. /\ buffer' = a.mem /\ readPos' = a.rd /\ writePos' = a.wr /\ capacity' = a.cap
        /\ assertFailed' = (assertFailed \/ ~a.ok) /\ expected' = expected
    BY <1>6 DEF AssureSpace, a
  <2>3. ~assertFailed'
    BY <1>1, <2>1, <2>2
  <2>4. Holds(buffer', readPos', writePos', capacity', expected')
    BY <2>1, <2>2
  <2> QED BY <2>3, <2>4 DEF BufInv, Holds
<1>7. ASSUME NEW n \in Nat, n <= ReadableSize, Consume(n),
             expected' = SubSeq(expected, n + 1, Len(expected))
      PROVE  BufInv'
  <2>1. /\ readPos + n # writePos =>
             Holds(buffer, readPos + n, writePos, capacity, expected')
        /\ readPos + n = writePos => Holds(buffer, 0, 0, capacity, expected')
    BY <1>1, <1>7, ConsumedHolds
  <2>2. Holds(buffer', readPos', writePos', capacity', expected') /\ ~assertFailed'
    BY <1>1, <1>7, <2>1 DEF Consume
  <2> QED BY <2>2 DEF BufInv, Holds
<1>8. ASSUME NEW n \in 1 .. MaxPiece, ConsumeSome(n) PROVE BufInv'
  <2>1. n \in Nat
    BY BufferAssumption
  <2> QED BY <1>7, <1>8, <2>1 DEF ConsumeSome
<1>9. ASSUME NEW n \in 1 .. MaxPiece, PopData(n) PROVE BufInv'
  <2> DEFINE m == Min({n, ReadableSize})
  <2>1. n \in Nat
    BY BufferAssumption
  <2>2. m \in Nat /\ m <= ReadableSize
    BY <1>1, <2>1, MinIs
  <2>3. Consume(m) /\ expected' = SubSeq(expected, m + 1, Len(expected))
    BY <1>9 DEF PopData
  <2> HIDE DEF m
  <2> QED BY <1>7, <2>2, <2>3
<1>10. ASSUME Clear PROVE BufInv'
  <2>1. Holds(buffer', readPos', writePos', capacity', expected') /\ ~assertFailed'
    BY <1>1, <1>2, <1>10 DEF Clear, Holds
  <2> QED BY <2>1 DEF BufInv, Holds
<1>11. ASSUME ShrinkEmpty PROVE BufInv'
  <2>1. Len(expected) = 0
    BY <1>1, <1>11 DEF ShrinkEmpty, IsEmpty
  <2>2. Holds(buffer', readPos', writePos', capacity', expected') /\ ~assertFailed'
    BY <1>1, <1>2, <1>11, <2>1 DEF ShrinkEmpty, Holds
  <2> QED BY <2>2 DEF BufInv, Holds
<1>12. ASSUME ShrinkData PROVE BufInv'
  <2> DEFINE S == {p \in Power2 : p >= ReadableSize}
             n == RoundUp2Power(ReadableSize)
  <2>1. ReadableSize # 0 /\ capacity # 0
    BY <1>1, <1>12 DEF ShrinkData, IsEmpty
  <2>2. capacity \in Power2 /\ capacity >= ReadableSize
    BY <1>1, <2>1 DEF Holds
  <2>3. capacity \in S
    BY <2>2
  <2>4. S \in SUBSET Nat
    <3>1. S \in SUBSET Power2
      OBVIOUS
    <3> HIDE DEF S
    <3> QED BY <3>1, PowerFacts
  <2>5. Min(S) \in S
    <3> HIDE DEF S
    <3> QED BY <2>3, <2>4, MinIs
  <2>6. n = Min(S)
    BY <2>1 DEF RoundUp2Power
  <2>7. n \in {0} \cup Power2 /\ n >= ReadableSize
    <3>1. Min(S) \in Power2 /\ Min(S) >= ReadableSize
      BY <2>5
    <3> HIDE DEF S, n
    <3> QED BY <2>6, <3>1
  <2> HIDE DEF S, n
  <2>8. Holds(Compacted(n), 0, ReadableSize, n, expected)
    BY <2>7, CompactedHolds
  <2>9. /\ capacity' = n /\ buffer' = Compacted(n)
        /\ readPos' = 0 /\ writePos' = ReadableSize /\ expected' = expected
        /\ ~assertFailed'
    BY <1>1, <1>12 DEF ShrinkData, n
  <2>10. Holds(buffer', readPos', writePos', capacity', expected')
    BY <2>8, <2>9
  <2> QED BY <2>9, <2>10 DEF BufInv, Holds
<1>13. ASSUME NEW p \in Percents, SetHighWaterPercent(p) PROVE BufInv'
  BY <1>13 DEF SetHighWaterPercent, BufInv, Holds
<1>14. ASSUME UNCHANGED bufferVars PROVE BufInv'
  BY <1>14 DEF bufferVars, BufInv, Holds
<1> QED BY <1>4, <1>5, <1>6, <1>8, <1>9, <1>10, <1>11, <1>12, <1>13, <1>14 DEF BufferNext

(* What a reader of the TC_Buffer is shown is what was put in and has not  *)
(* been taken out, through growing, compacting and shrinking, the          *)
(* positions stay in the block and no assert fails, whatever the width of  *)
(* a size, the least capacity and the sizes of the pieces are.             *)
THEOREM BufferKeepsBytes == BufferSpec => []BytesKept
<1>1. ASSUME BufInv PROVE BytesKept
  <2>1. /\ readPos \in Nat /\ writePos \in Nat /\ readPos <= writePos /\ writePos <= capacity
        /\ capacity \in Nat /\ Len(buffer) = capacity /\ ~assertFailed
        /\ \A i \in 1 .. capacity : buffer[i] \in BlockByte
        /\ expected \in Seq(BlockByte) /\ Len(expected) = writePos - readPos
    BY <1>1, PowerFacts, ElementOfSeq DEF BufInv, Holds
  <2> DEFINE x == writePos - readPos
             p == SubSeq(buffer, readPos + 1, writePos)
  <2>2. /\ x \in Nat
        /\ \A i \in readPos + 1 .. writePos : buffer[i] \in BlockByte
        /\ writePos - (readPos + 1) + 1 = x /\ (readPos + 1 <= writePos \/ x = 0)
    BY <2>1
  <2>3. /\ p \in Seq(BlockByte) /\ Len(p) = x
        /\ \A i \in 1 .. x : p[i] = buffer[readPos + 1 + i - 1]
    <3>1. readPos + 1 \in Int /\ writePos \in Int
      BY <2>1
    <3>2. /\ p \in Seq(BlockByte)
          /\ Len(p) = IF readPos + 1 <= writePos THEN writePos - (readPos + 1) + 1 ELSE 0
          /\ \A i \in 1 .. writePos - (readPos + 1) + 1 : p[i] = buffer[readPos + 1 + i - 1]
      BY <2>2, <3>1, SubSeqProperties
    <3> HIDE DEF p
    <3>3. Len(p) = x
      BY <2>1, <2>2, <3>2
    <3> QED BY <2>2, <3>2, <3>3
  <2>4. \A i \in 1 .. Len(p) : p[i] = expected[i]
    <3> SUFFICES ASSUME NEW i \in 1 .. x PROVE p[i] = expected[i]
      BY <2>3
    <3>1. readPos + 1 + i - 1 = readPos + i
      BY <2>1, <2>2
    <3>2. expected[i] = buffer[readPos + i]
      BY <1>1, <2>1 DEF BufInv, Holds
    <3> QED BY <2>3, <3>1, <3>2
  <2>5. p = expected
    <3> HIDE DEF p
    <3> QED BY <2>1, <2>3, <2>4, SeqEqual
  <2> QED BY <2>1, <2>5 DEF BytesKept, BufferInBounds, PeekData
<1> QED BY <1>1, BufInvInit, BufInvStep, PTL DEF BufferSpec

-----------------------------------------------------------------------------
(***************************************************************************)
(* The intrusive lists, for every set of coroutines and of lists.          *)
(***************************************************************************)
USE ListAssumption

(* The four stores of __CoroutineAdd keep well-formed pointers well formed *)
(* when prev and succ are neighbours and the coroutine is on no list; an   *)
(* empty list, where they are the same head, included.                     *)
LEMMA LinkKeeps ==
  ASSUME NEW p, NEW n, WellLinked(p, n),
         NEW c \in Coro, n[c] = Null,
         NEW prev \in Info, NEW succ \in Info,
         n[prev] = succ, p[succ] = prev
  PROVE  LET out == Link(p, n, c, prev, succ) IN WellLinked(out[1], out[2])
<1> DEFINE p2 == [[p EXCEPT ![succ] = c] EXCEPT ![c] = prev]
           n2 == [[n EXCEPT ![c] = succ] EXCEPT ![prev] = c]
<1>1. c \in Info /\ c # prev /\ c # succ /\ c # Null /\ prev # Null /\ succ # Null
  BY DEF WellLinked, Info
<1>2. p2 \in [Info -> Info \cup {Null}] /\ n2 \in [Info -> Info \cup {Null}]
  BY <1>1 DEF WellLinked
<1>3. /\ p2[c] = prev /\ p2[succ] = c
      /\ \A i \in Info \ {c, succ} : p2[i] = p[i]
  BY <1>1 DEF WellLinked
<1>4. /\ n2[c] = succ /\ n2[prev] = c
      /\ \A i \in Info \ {c, prev} : n2[i] = n[i]
  BY <1>1 DEF WellLinked
<1> HIDE DEF p2, n2
<1>5. WellLinked(p2, n2)
  <2>1. \A h \in ListHead : n2[h] # Null
    BY <1>1, <1>4 DEF WellLinked, Info
  <2>2. ASSUME NEW i \in Info, n2[i] # Null PROVE n2[n2[i]] # Null /\ p2[n2[i]] = i
    <3>1. CASE i = c
      BY <3>1, <1>1, <1>3, <1>4 DEF WellLinked
    <3>2. CASE i = prev
      BY <3>2, <1>1, <1>3, <1>4
    <3>3. CASE i # c /\ i # prev
      <4>1. n2[i] = n[i] /\ n[i] \in Info /\ n[n[i]] # Null /\ p[n[i]] = i
        BY <3>3, <1>4, <2>2 DEF WellLinked
      <4>2. n[i] # succ /\ n[i] # c
        BY <4>1, <3>3
      <4> QED BY <4>1, <4>2, <1>1, <1>3, <1>4
    <3> QED BY <3>1, <3>2, <3>3
  <2>3. ASSUME NEW i \in Info, p2[i] # Null PROVE n2[p2[i]] = i
    <3>1. CASE i = c
      BY <3>1, <1>3, <1>4
    <3>2. CASE i = succ
      BY <3>2, <1>3, <1>4
    <3>3. CASE i # c /\ i # succ
      <4>1. p2[i] = p[i] /\ p[i] \in Info /\ n[p[i]] = i
        BY <3>3, <1>3, <2>3 DEF WellLinked
      <4>2. p[i] # prev /\ p[i] # c
        BY <4>1, <3>3, <1>1 DEF Info
      <4> QED BY <4>1, <4>2, <1>4
    <3> QED BY <3>1, <3>2, <3>3
  <2>4. ASSUME NEW i \in Info PROVE n2[i] # Null <=> p2[i] # Null
    <3>1. CASE i = c
      BY <3>1, <1>1, <1>3, <1>4
    <3>2. CASE i # c /\ i = prev
      BY <3>2, <1>1, <1>3, <1>4 DEF WellLinked
    <3>3. CASE i # c /\ i # prev
      BY <3>3, <1>1, <1>3, <1>4 DEF WellLinked
    <3> QED BY <3>1, <3>2, <3>3
  <2> QED BY <1>2, <2>1, <2>2, <2>3, <2>4 DEF WellLinked
<1> QED BY <1>5 DEF Link, p2, n2

(* CoroutineDel keeps them well formed and leaves its coroutine on no      *)
(* list, whether it was the only one of its list or not.                   *)
LEMMA UnlinkKeeps ==
  ASSUME NEW p, NEW n, WellLinked(p, n), NEW c \in Coro, n[c] # Null
  PROVE  LET out == Unlink(p, n, c)
         IN  WellLinked(out[1], out[2]) /\ out[2][c] = Null
<1> DEFINE p2 == [[p EXCEPT ![n[c]] = p[c]] EXCEPT ![c] = Null]
           n2 == [[n EXCEPT ![p[c]] = n[c]] EXCEPT ![c] = Null]
<1>1. /\ c \in Info /\ n[c] \in Info /\ p[c] \in Info
      /\ p[n[c]] = c /\ n[p[c]] = c
  BY DEF WellLinked, Info
<1>2. p2 \in [Info -> Info \cup {Null}] /\ n2 \in [Info -> Info \cup {Null}]
  BY <1>1 DEF WellLinked
<1>3. /\ p2[c] = Null
      /\ n[c] # c => p2[n[c]] = p[c]
      /\ \A i \in Info \ {c, n[c]} : p2[i] = p[i]
  BY <1>1 DEF WellLinked
<1>4. /\ n2[c] = Null
      /\ p[c] # c => n2[p[c]] = n[c]
      /\ \A i \in Info \ {c, p[c]} : n2[i] = n[i]
  BY <1>1 DEF WellLinked
<1>5. n[c] = c <=> p[c] = c
  BY <1>1
<1> HIDE DEF p2, n2
<1>6. WellLinked(p2, n2)
  <2>1. \A h \in ListHead : n2[h] # Null
    BY <1>1, <1>4 DEF WellLinked, Info
  <2>2. ASSUME NEW i \in Info, n2[i] # Null PROVE n2[n2[i]] # Null /\ p2[n2[i]] = i
    <3>1. i # c
      BY <2>2, <1>4
    <3>2. CASE i = p[c]
      <4>1. n2[i] = n[c] /\ n[c] # c /\ n[n[c]] # Null
        BY <3>1, <3>2, <1>1, <1>4, <1>5 DEF WellLinked
      <4>2. n2[n[c]] # Null
        BY <4>1, <1>1, <1>4
      <4> QED BY <4>1, <4>2, <1>1, <1>3, <3>2
    <3>3. CASE i # p[c]
      <4>1. n2[i] = n[i] /\ n[i] \in Info /\ n[n[i]] # Null /\ p[n[i]] = i
        BY <3>1, <3>3, <1>4, <2>2 DEF WellLinked
      <4>2. n[i] # c /\ n[i] # n[c]
        BY <4>1, <3>1, <3>3, <1>1
      <4> QED BY <4>1, <4>2, <1>1, <1>3, <1>4
    <3> QED BY <3>2, <3>3
  <2>3. ASSUME NEW i \in Info, p2[i] # Null PROVE n2[p2[i]] = i
    <3>1. i # c
      BY <2>3, <1>3
    <3>2. CASE i = n[c]
      BY <3>1, <3>2, <1>1, <1>3, <1>4, <1>5
    <3>3. CASE i # n[c]
      <4>1. p2[i] = p[i] /\ p[i] \in Info /\ n[p[i]] = i
        BY <3>1, <3>3, <1>3, <2>3 DEF WellLinked
      <4>2. p[i] # c /\ p[i] # p[c]
        BY <4>1, <3>1, <3>3, <1>1
      <4> QED BY <4>1, <4>2, <1>4
    <3> QED BY <3>2, <3>3
  <2>4. ASSUME NEW i \in Info PROVE n2[i] # Null <=> p2[i] # Null
    <3>1. CASE i = c
      BY <3>1, <1>3, <1>4
    <3>2. CASE i # c /\ i # p[c] /\ i # n[c]
      BY <3>2, <1>3, <1>4 DEF WellLinked
    <3>3. CASE i # c /\ (i = p[c] \/ i = n[c])
      <4>1. n[c] # Null /\ p[c] # Null /\ n[i] # Null /\ p[i] # Null
        BY <3>3, <1>1 DEF WellLinked, Info
      <4> QED BY <4>1, <3>3, <1>1, <1>3, <1>4, <1>5
    <3> QED BY <3>1, <3>2, <3>3
  <2> QED BY <1>2, <2>1, <2>2, <2>3, <2>4 DEF WellLinked
<1> QED BY <1>4, <1>6 DEF Unlink, p2, n2

(* A coroutine is added behind or before a head: the neighbours            *)
(* __CoroutineAdd is given are neighbours.                                 *)
LEMMA AddKeeps ==
  ASSUME NEW p, NEW n, WellLinked(p, n),
         NEW c \in Coro, n[c] = Null, NEW h \in ListHead
  PROVE  /\ LET out == LinkFirst(p, n, c, h) IN WellLinked(out[1], out[2])
         /\ LET out == LinkLast(p, n, c, h) IN WellLinked(out[1], out[2])
<1>1. /\ h \in Info /\ n[h] \in Info /\ p[h] \in Info
      /\ p[n[h]] = h /\ n[p[h]] = h
  BY DEF WellLinked, Info
<1>2. LET out == Link(p, n, c, h, n[h]) IN WellLinked(out[1], out[2])
  BY <1>1, LinkKeeps
<1>3. LET out == Link(p, n, c, p[h], h) IN WellLinked(out[1], out[2])
  BY <1>1, LinkKeeps
<1> QED BY <1>2, <1>3 DEF LinkFirst, LinkLast

(* Whatever sequence of adds, deletes and moves is made on however many    *)
(* lists, _prev and _next of every linked CoroutineInfo undo each other,   *)
(* and one that was deleted is reached from nowhere.                       *)
THEOREM LinksAlwaysInverse == ListSpec => []LinksInverse
<1>1. ListInit => LinksInverse
  BY DEF ListInit, LinksInverse, WellLinked, Info
<1>2. LinksInverse /\ [ListNext]_listVars => LinksInverse'
  <2> SUFFICES ASSUME LinksInverse, [ListNext]_listVars PROVE LinksInverse'
    OBVIOUS
  <2> USE DEF LinksInverse
  <2>1. ASSUME NEW c \in Coro, CoroutineDel(c) PROVE LinksInverse'
    BY <2>1, UnlinkKeeps DEF CoroutineDel, Store, Linked
  <2>2. ASSUME NEW c \in Coro, NEW h \in ListHead,
               CoroutineAdd(c, h) \/ CoroutineAddTail(c, h)
        PROVE  LinksInverse'
    BY <2>2, AddKeeps DEF CoroutineAdd, CoroutineAddTail, Store, Linked
  <2>3. ASSUME NEW c \in Coro, NEW h \in ListHead,
               CoroutineMove(c, h) \/ CoroutineMoveTail(c, h)
        PROVE  LinksInverse'
    <3> DEFINE out == Unlink(prv, nxt, c)
    <3>1. WellLinked(out[1], out[2]) /\ out[2][c] = Null
      BY <2>3, UnlinkKeeps DEF CoroutineMove, CoroutineMoveTail, Linked
    <3> HIDE DEF out
    <3>2. /\ LET in == LinkFirst(out[1], out[2], c, h) IN WellLinked(in[1], in[2])
          /\ LET in == LinkLast(out[1], out[2], c, h) IN WellLinked(in[1], in[2])
      BY <3>1, AddKeeps
    <3> QED BY <2>3, <3>2 DEF CoroutineMove, CoroutineMoveTail, Store, out
  <2>4. CASE UNCHANGED listVars
    BY <2>4 DEF listVars
  <2> QED BY <2>1, <2>2, <2>3, <2>4 DEF ListNext
<1> QED BY <1>1, <1>2, PTL DEF ListSpec
-----------------------------------------------------------------------------
(* From the links to the sequences.  The k-th CoroutineInfo met on a walk  *)
(* from head h along a list that is the sequence s; the walk begins and    *)
(* ends at the head.                                                       *)
Met(s, h, k) == IF k \in 1 .. Len(s) THEN s[k] ELSE h

Walk(n, s, h) == \A k \in 0 .. Len(s) : n[Met(s, h, k)] = Met(s, h, k + 1)

(* The inductive invariant of the lists: the links undo each other, every  *)
(* walk along _next is its sequence, no coroutine is in two sequences or   *)
(* twice in one, and those in a sequence are the linked ones.              *)
Sequences(o) ==
    /\ o \in [ListHead -> Seq(Coro)]
    /\ \A h \in ListHead : IsInjective(o[h])
    /\ \A h, g \in ListHead : h # g => ToSet(o[h]) \cap ToSet(o[g]) = {}

ListInv(p, n, o) ==
    /\ WellLinked(p, n)
    /\ Sequences(o)
    /\ \A h \in ListHead : Walk(n, o[h], h)
    /\ \A c \in Coro : n[c] # Null <=> \E h \in ListHead : c \in ToSet(o[h])

(* A walk meets its head and the coroutines of its sequence only.          *)
LEMMA MetFacts ==
  ASSUME NEW s \in Seq(Coro), NEW h \in ListHead
  PROVE  /\ Len(s) \in Nat
         /\ Met(s, h, 0) = h /\ Met(s, h, Len(s) + 1) = h
         /\ \A k \in 1 .. Len(s) : Met(s, h, k) = s[k] /\ s[k] \in Coro /\ s[k] \in ToSet(s)
         /\ \A k \in 0 .. Len(s) + 1 : Met(s, h, k) \in ToSet(s) \cup {h}
         /\ \A k \in 0 .. Len(s) + 1 : Met(s, h, k) \in Info
<1>1. Len(s) \in Nat /\ \A k \in 1 .. Len(s) : s[k] \in Coro
  BY LenProperties, ElementOfSeq
<1>2. \A k \in 1 .. Len(s) : s[k] \in ToSet(s)
  BY ToSetType
<1>3. 0 \notin 1 .. Len(s) /\ Len(s) + 1 \notin 1 .. Len(s)
  BY <1>1
<1> QED BY <1>1, <1>2, <1>3 DEF Met, Info

(* What one store of _next leaves alone: a walk that passes neither of the *)
(* two CoroutineInfos that are written.                                    *)
LEMMA WalkFrame ==
  ASSUME NEW n, NEW n2, NEW s \in Seq(Coro), NEW h \in ListHead, Walk(n, s, h),
         \A k \in 0 .. Len(s) : n2[Met(s, h, k)] = n[Met(s, h, k)]
  PROVE  Walk(n2, s, h)
BY DEF Walk

(* CoroutineDel takes its coroutine out of the walk it is on and out of    *)
(* no other.                                                               *)
LEMMA UnlinkInv ==
  ASSUME NEW p, NEW n, NEW o, ListInv(p, n, o), NEW c \in Coro, n[c] # Null
  PROVE  LET out == Unlink(p, n, c)
         IN  /\ ListInv(out[1], out[2], [h \in ListHead |-> RemoveFirst(o[h], c)])
             /\ out[2][c] = Null
<1> DEFINE n2 == [[n EXCEPT ![p[c]] = n[c]] EXCEPT ![c] = Null]
           o2 == [h \in ListHead |-> RemoveFirst(o[h], c)]
<1>0. /\ WellLinked(p, n) /\ Sequences(o)
      /\ \A h \in ListHead : Walk(n, o[h], h)
      /\ \A d \in Coro : n[d] # Null <=> \E h \in ListHead : d \in ToSet(o[h])
  BY DEF ListInv
<1>1. LET out == Unlink(p, n, c) IN WellLinked(out[1], out[2]) /\ out[2][c] = Null
  BY <1>0, UnlinkKeeps
<1>2. /\ c \in Info /\ n[c] \in Info /\ p[c] \in Info /\ n[p[c]] = c
      /\ DOMAIN n = Info
  BY <1>0 DEF WellLinked, Info
<1>3. /\ n2[c] = Null
      /\ p[c] # c => n2[p[c]] = n[c]
      /\ \A i \in Info \ {c} : n[i] # c => n2[i] = n[i]
  BY <1>2, <1>0 DEF WellLinked
<1>4. \A i \in Info : n[i] = c => i = p[c]
  BY <1>0, <1>2 DEF WellLinked, Info
<1> HIDE DEF n2
<1>5. \A h \in ListHead : /\ o[h] \in Seq(Coro) /\ IsInjective(o[h])
                          /\ o2[h] \in Seq(Coro) /\ IsInjective(o2[h])
                          /\ ToSet(o2[h]) = ToSet(o[h]) \ {c}
  BY <1>0, RemoveFirstFacts DEF Sequences
<1>6. Sequences(o2)
  <2>1. o2 \in [ListHead -> Seq(Coro)]
    BY <1>5
  <2> HIDE DEF o2
  <2> QED BY <2>1, <1>0, <1>5 DEF Sequences
<1>7. ASSUME NEW h \in ListHead, c \notin ToSet(o[h]) PROVE Walk(n2, o2[h], h)
  <2>1. o2[h] = o[h]
    BY <1>5, <1>7, RemoveFirstPlace
  <2>2. ASSUME NEW k \in 0 .. Len(o[h]) PROVE n2[Met(o[h], h, k)] = n[Met(o[h], h, k)]
    <3>1. k \in 0 .. Len(o[h]) + 1 /\ k + 1 \in 0 .. Len(o[h]) + 1
      BY <1>5, MetFacts
    <3>2. /\ Met(o[h], h, k) \in Info /\ Met(o[h], h, k) # c
          /\ Met(o[h], h, k + 1) # c
      BY <1>5, <1>7, <3>1, MetFacts
    <3>3. n[Met(o[h], h, k)] = Met(o[h], h, k + 1)
      BY <1>0 DEF Walk
    <3> QED BY <1>3, <3>2, <3>3
  <2> QED BY <1>0, <1>5, <2>1, <2>2, WalkFrame
<1>8. ASSUME NEW h \in ListHead, c \in ToSet(o[h]) PROVE Walk(n2, o2[h], h)
  <2> DEFINE s == o[h]
             r == o2[h]
  <2>1. PICK j \in 1 .. Len(s) : s[j] = c
    BY <1>5, <1>8, ToSetType
  <2>2. s \in Seq(Coro) /\ IsInjective(s) /\ DOMAIN s = 1 .. Len(s) /\ Len(s) \in Nat
    BY <1>5, LenProperties
  <2>3. /\ r \in Seq(Coro) /\ Len(r) = Len(s) - 1
        /\ \A i \in 1 .. Len(s) - 1 : r[i] = IF i < j THEN s[i] ELSE s[i + 1]
    <3>1. r = RemoveAt(s, j)
      BY <2>1, <2>2, RemoveFirstPlace
    <3> QED BY <2>2, <3>1, RemoveAtPositions
  <2>w. \A k \in 0 .. Len(s) : n[Met(s, h, k)] = Met(s, h, k + 1)
    BY <1>0 DEF Walk
  <2> HIDE DEF s, r
  <2>4. ASSUME NEW k \in 0 .. Len(s)
        PROVE  Met(r, h, k) = IF k < j THEN Met(s, h, k) ELSE Met(s, h, k + 1)
    <3>1. CASE k \in 1 .. Len(s) - 1
      BY <2>2, <2>3, <3>1 DEF Met
    <3>2. CASE k = 0
      BY <2>2, <2>3, <3>2 DEF Met
    <3>3. CASE k = Len(s)
      <4>1. k \notin 1 .. Len(r) /\ k + 1 \notin 1 .. Len(s) /\ ~(k < j)
        BY <2>2, <2>3, <3>3
      <4> QED BY <4>1 DEF Met
    <3>4. k = 0 \/ k = Len(s) \/ k \in 1 .. Len(s) - 1
      <4>1. Len(s) \in Nat
        BY <2>2
      <4> QED BY <4>1
    <3> QED BY <3>1, <3>2, <3>3, <3>4
  <2>5. ASSUME NEW k \in 0 .. Len(s) + 1, k # j PROVE Met(s, h, k) # c /\ Met(s, h, k) \in Info
    <3>1. CASE k \in 1 .. Len(s)
      BY <2>1, <2>2, <2>5, <3>1, MetFacts DEF IsInjective
    <3>2. CASE k \notin 1 .. Len(s)
      BY <2>2, <3>2 DEF Met, Info
    <3> QED BY <3>1, <3>2
  <2>6. Met(s, h, j) = c
    BY <2>1 DEF Met
  <2>7. ASSUME NEW k \in 0 .. Len(r) PROVE n2[Met(r, h, k)] = Met(r, h, k + 1)
    <3>0. k \in 0 .. Len(s) /\ k + 1 \in 0 .. Len(s)
      BY <2>2, <2>3
    <3>1. CASE k + 1 < j
      <4>1. Met(r, h, k) = Met(s, h, k) /\ Met(r, h, k + 1) = Met(s, h, k + 1)
        BY <2>4, <3>0, <3>1
      <4>2. Met(s, h, k) # c /\ Met(s, h, k + 1) # c /\ Met(s, h, k) \in Info
        BY <2>2, <2>5, <3>0, <3>1
      <4> QED BY <1>3, <2>w, <3>0, <4>1, <4>2
    <3>2. CASE k + 1 = j
      <4>1. Met(r, h, k) = Met(s, h, k) /\ Met(r, h, k + 1) = Met(s, h, j + 1)
        BY <2>4, <3>0, <3>2
      <4>2. Met(s, h, k) = p[c] /\ Met(s, h, k) # c
        BY <1>4, <2>2, <2>5, <2>6, <2>w, <3>0, <3>2
      <4>3. n[c] = Met(s, h, j + 1)
        BY <2>1, <2>2, <2>6, <2>w
      <4> QED BY <1>3, <4>1, <4>2, <4>3
    <3>3. CASE k >= j
      <4>1. Met(r, h, k) = Met(s, h, k + 1) /\ Met(r, h, k + 1) = Met(s, h, (k + 1) + 1)
        BY <2>4, <3>0, <3>3
      <4>2. Met(s, h, k + 1) # c /\ Met(s, h, (k + 1) + 1) # c /\ Met(s, h, k + 1) \in Info
        BY <2>2, <2>5, <3>0, <3>3
      <4> QED BY <1>3, <2>w, <3>0, <4>1, <4>2
    <3> QED BY <2>1, <2>2, <3>0, <3>1, <3>2, <3>3
  <2> QED BY <2>7 DEF Walk, r
<1>9. ASSUME NEW d \in Coro PROVE n2[d] # Null <=> \E h \in ListHead : d \in ToSet(o2[h])
  <2>1. CASE d = c
    BY <1>3, <1>5, <2>1
  <2>2. CASE d # c
    <3>1. n2[d] # Null <=> n[d] # Null
      <4>1. CASE n[d] = c
        BY <1>2, <1>3, <1>4, <2>2, <4>1 DEF Info
      <4>2. CASE n[d] # c
        BY <1>3, <2>2, <4>2 DEF Info
      <4> QED BY <4>1, <4>2
    <3> QED BY <1>0, <1>5, <2>2, <3>1
  <2> QED BY <2>1, <2>2
<1> HIDE DEF o2
<1>10. \A p2 : WellLinked(p2, n2) => ListInv(p2, n2, o2)
  BY <1>6, <1>7, <1>8, <1>9 DEF ListInv
<1> QED BY <1>1, <1>10 DEF Unlink, n2, o2

(* The walk of a list a coroutine is added to meets it first, or last, and *)
(* the other walks are as they were.                                       *)
LEMMA LinkFirstInv ==
  ASSUME NEW p, NEW n, NEW o, ListInv(p, n, o), NEW c \in Coro, n[c] = Null, NEW h \in ListHead
  PROVE  LET out == LinkFirst(p, n, c, h)
         IN  ListInv(out[1], out[2], [o EXCEPT ![h] = <<c>> \o @])
<1> DEFINE n2 == [[n EXCEPT ![c] = n[h]] EXCEPT ![h] = c]
           o2 == [o EXCEPT ![h] = <<c>> \o @]
           s == o[h]
           r == <<c>> \o s
<1>0. /\ WellLinked(p, n) /\ Sequences(o)
      /\ \A g \in ListHead : Walk(n, o[g], g)
      /\ \A d \in Coro : n[d] # Null <=> \E g \in ListHead : d \in ToSet(o[g])
  BY DEF ListInv
<1>1. LET out == LinkFirst(p, n, c, h) IN WellLinked(out[1], out[2])
  BY <1>0, AddKeeps
<1>2. /\ c \in Info /\ h \in Info /\ c # h /\ DOMAIN n = Info /\ n[h] \in Info /\ c # Null
      /\ n[h] # Null
  BY <1>0 DEF WellLinked, Info
<1>3. n2[c] = n[h] /\ n2[h] = c /\ \A i \in Info \ {c, h} : n2[i] = n[i]
  BY <1>0, <1>2 DEF WellLinked
<1> HIDE DEF n2
<1>4. \A g \in ListHead : o[g] \in Seq(Coro) /\ IsInjective(o[g]) /\ c \notin ToSet(o[g])
  BY <1>0 DEF Sequences
<1>5. /\ r \in Seq(Coro) /\ IsInjective(r) /\ Len(r) = Len(s) + 1
      /\ ToSet(r) = ToSet(s) \cup {c}
  <2>1. <<c>> \in Seq(Coro) /\ Len(<<c>>) = 1 /\ ToSet(<<c>>) = {c} /\ IsInjective(<<c>>)
    BY DEF ToSet, IsInjective
  <2>2. s \in Seq(Coro) /\ Len(s) \in Nat /\ ToSet(s) \cap {c} = {} /\ IsInjective(s)
    BY <1>4, LenProperties
  <2> HIDE DEF s
  <2> DEFINE one == <<c>>
  <2>3. one \in Seq(Coro) /\ Len(one) = 1 /\ ToSet(one) = {c} /\ IsInjective(one)
    BY <2>1
  <2> HIDE DEF one
  <2>4. /\ one \o s \in Seq(Coro) /\ Len(one \o s) = Len(one) + Len(s)
        /\ ToSet(one \o s) = ToSet(one) \cup ToSet(s)
        /\ IsInjective(one \o s) <=>
             IsInjective(one) /\ IsInjective(s) /\ ToSet(one) \cap ToSet(s) = {}
    BY <2>2, <2>3, ConcatFacts
  <2>5. ToSet(one) \cap ToSet(s) = {}
    BY <2>2, <2>3
  <2>6. one \o s \in Seq(Coro) /\ IsInjective(one \o s)
    BY <2>2, <2>3, <2>4, <2>5
  <2>7. Len(one \o s) = Len(s) + 1 /\ ToSet(one \o s) = ToSet(s) \cup {c}
    BY <2>2, <2>3, <2>4
  <2> QED BY <2>6, <2>7 DEF one
<1>6. r[1] = c /\ \A i \in 2 .. Len(s) + 1 : r[i] = s[i - 1]
  <2>1. <<c>> \in Seq(Coro) /\ Len(<<c>>) = 1 /\ <<c>>[1] = c
    OBVIOUS
  <2>2. s \in Seq(Coro) /\ Len(s) \in Nat
    BY <1>4, LenProperties
  <2> HIDE DEF s
  <2> QED BY <2>1, <2>2, ConcatProperties
<1>7. /\ o2 \in [ListHead -> Seq(Coro)] /\ o2[h] = r
      /\ \A g \in ListHead \ {h} : o2[g] = o[g]
  BY <1>0, <1>5 DEF Sequences
<1> HIDE DEF o2, r
<1>8. Sequences(o2)
  <2>1. \A g \in ListHead : IsInjective(o2[g])
    BY <1>4, <1>5, <1>7
  <2>2. ASSUME NEW f \in ListHead, NEW g \in ListHead, f # g
        PROVE  ToSet(o2[f]) \cap ToSet(o2[g]) = {}
    <3>1. ToSet(o[f]) \cap ToSet(o[g]) = {} /\ c \notin ToSet(o[f]) /\ c \notin ToSet(o[g])
      BY <1>0, <1>4, <2>2 DEF Sequences
    <3>2. CASE f = h
      BY <1>5, <1>7, <2>2, <3>1, <3>2
    <3>3. CASE g = h
      BY <1>5, <1>7, <2>2, <3>1, <3>3
    <3>4. CASE f # h /\ g # h
      BY <1>5, <1>7, <3>1, <3>4
    <3> QED BY <3>2, <3>3, <3>4
  <2> QED BY <1>7, <2>1, <2>2 DEF Sequences
<1>9. ASSUME NEW g \in ListHead, g # h PROVE Walk(n2, o2[g], g)
  <2>1. ASSUME NEW k \in 0 .. Len(o[g]) PROVE n2[Met(o[g], g, k)] = n[Met(o[g], g, k)]
    <3>1. k \in 0 .. Len(o[g]) + 1
      BY <1>4, MetFacts
    <3>2. Met(o[g], g, k) \in ToSet(o[g]) \cup {g} /\ ToSet(o[g]) \subseteq Coro
      BY <1>4, <3>1, MetFacts, ToSetType
    <3>3. Met(o[g], g, k) \in Info \ {c, h}
      BY <1>4, <1>9, <3>2 DEF Info
    <3> QED BY <1>3, <3>3
  <2>2. o2[g] = o[g]
    BY <1>7, <1>9
  <2> QED BY <1>0, <1>4, <2>1, <2>2, WalkFrame
<1>10. Walk(n2, o2[h], h)
  <2>1. s \in Seq(Coro) /\ Len(s) \in Nat
    BY <1>4, LenProperties
  <2>2. \A k \in 0 .. Len(s) : n[Met(s, h, k)] = Met(s, h, k + 1)
    BY <1>0 DEF Walk
  <2>3. \A k \in 1 .. Len(s) : Met(s, h, k) \in Info \ {c, h}
    BY <1>4, MetFacts DEF Info
  <2>4. Met(s, h, 0) = h
    BY <1>4, MetFacts
  <2> HIDE DEF s
  <2>5. ASSUME NEW k \in 0 .. Len(r) PROVE n2[Met(r, h, k)] = Met(r, h, k + 1)
    <3>1. CASE k = 0
      <4>1. Met(r, h, k) = h /\ Met(r, h, k + 1) = c
        BY <1>5, <1>6, <2>1, <3>1 DEF Met
      <4> QED BY <1>3, <4>1
    <3>2. CASE k = 1
      <4>1. Met(r, h, k) = c
        BY <1>5, <1>6, <2>1, <3>2 DEF Met
      <4>2. Met(r, h, k + 1) = Met(s, h, 1)
        BY <1>5, <1>6, <2>1, <3>2 DEF Met
      <4>3. n[h] = Met(s, h, 1)
        BY <2>1, <2>2, <2>4
      <4> QED BY <1>3, <4>1, <4>2, <4>3
    <3>3. CASE k \in 2 .. Len(s) + 1
      <4>1. Met(r, h, k) = Met(s, h, k - 1)
        BY <1>5, <1>6, <2>1, <3>3 DEF Met
      <4>2. Met(r, h, k + 1) = Met(s, h, k)
        <5>1. CASE k <= Len(s)
          BY <1>5, <1>6, <2>1, <3>3, <5>1 DEF Met
        <5>2. CASE k = Len(s) + 1
          BY <1>5, <1>6, <2>1, <3>3, <5>2 DEF Met
        <5> QED BY <2>1, <3>3, <5>1, <5>2
      <4>3. k - 1 \in 1 .. Len(s) /\ k - 1 \in 0 .. Len(s) /\ (k - 1) + 1 = k
        BY <2>1, <3>3
      <4>4. n[Met(s, h, k - 1)] = Met(s, h, k)
        BY <2>2, <4>3
      <4> QED BY <1>3, <2>3, <4>1, <4>2, <4>3, <4>4
    <3> QED BY <1>5, <2>1, <3>1, <3>2, <3>3
  <2> QED BY <1>7, <2>5 DEF Walk
<1>11. ASSUME NEW d \in Coro PROVE n2[d] # Null <=> \E g \in ListHead : d \in ToSet(o2[g])
  <2>1. CASE d = c
    <3>1. n2[d] # Null /\ d \in ToSet(o2[h])
      BY <1>2, <1>3, <1>5, <1>7, <2>1
    <3> QED BY <3>1
  <2>2. CASE d # c
    <3>1. n2[d] = n[d]
      BY <1>3, <2>2 DEF Info
    <3>2. \A g \in ListHead : d \in ToSet(o2[g]) <=> d \in ToSet(o[g])
      BY <1>5, <1>7, <2>2
    <3> QED BY <1>0, <3>1, <3>2
  <2> QED BY <2>1, <2>2
<1> HIDE DEF s
<1>12. \A p2 : WellLinked(p2, n2) => ListInv(p2, n2, o2)
  BY <1>8, <1>9, <1>10, <1>11 DEF ListInv
<1> QED BY <1>1, <1>12 DEF LinkFirst, Link, n2, o2

(* LinkLast keeps the lists linked both ways.                               *)
LEMMA LinkLastInv ==
  ASSUME NEW p, NEW n, NEW o, ListInv(p, n, o), NEW c \in Coro, n[c] = Null, NEW h \in ListHead
  PROVE  LET out == LinkLast(p, n, c, h)
         IN  ListInv(out[1], out[2], [o EXCEPT ![h] = Append(@, c)])
<1> DEFINE n2 == [[n EXCEPT ![c] = h] EXCEPT ![p[h]] = c]
           o2 == [o EXCEPT ![h] = Append(@, c)]
           s == o[h]
           r == Append(s, c)
<1>0. /\ WellLinked(p, n) /\ Sequences(o)
      /\ \A g \in ListHead : Walk(n, o[g], g)
      /\ \A d \in Coro : n[d] # Null <=> \E g \in ListHead : d \in ToSet(o[g])
  BY DEF ListInv
<1>1. LET out == LinkLast(p, n, c, h) IN WellLinked(out[1], out[2])
  BY <1>0, AddKeeps
<1>2. /\ c \in Info /\ h \in Info /\ p[h] \in Info /\ n[p[h]] = h /\ p[h] # c
      /\ DOMAIN n = Info /\ c # Null /\ h # Null
  BY <1>0 DEF WellLinked, Info
<1>3. n2[c] = h /\ n2[p[h]] = c /\ \A i \in Info \ {c} : n[i] # h => n2[i] = n[i]
  BY <1>0, <1>2 DEF WellLinked
<1>4. \A i \in Info : n[i] = h => i = p[h]
  BY <1>0, <1>2 DEF WellLinked, Info
<1> HIDE DEF n2
<1>5. \A g \in ListHead : o[g] \in Seq(Coro) /\ IsInjective(o[g]) /\ c \notin ToSet(o[g])
  BY <1>0 DEF Sequences
<1>6. /\ r \in Seq(Coro) /\ IsInjective(r) /\ Len(r) = Len(s) + 1
      /\ ToSet(r) = ToSet(s) \cup {c}
  BY <1>5, AppendFacts
<1>7. r[Len(s) + 1] = c /\ \A i \in 1 .. Len(s) : r[i] = s[i]
  BY <1>5, AppendProperties
<1>8. /\ o2 \in [ListHead -> Seq(Coro)] /\ o2[h] = r
      /\ \A g \in ListHead \ {h} : o2[g] = o[g]
  BY <1>0, <1>6 DEF Sequences
<1> HIDE DEF o2, r
<1>9. Sequences(o2)
  <2>1. \A g \in ListHead : IsInjective(o2[g])
    BY <1>5, <1>6, <1>8
  <2>2. ASSUME NEW f \in ListHead, NEW g \in ListHead, f # g
        PROVE  ToSet(o2[f]) \cap ToSet(o2[g]) = {}
    <3>1. ToSet(o[f]) \cap ToSet(o[g]) = {} /\ c \notin ToSet(o[f]) /\ c \notin ToSet(o[g])
      BY <1>0, <1>5, <2>2 DEF Sequences
    <3>2. CASE f = h
      BY <1>6, <1>8, <2>2, <3>1, <3>2
    <3>3. CASE g = h
      BY <1>6, <1>8, <2>2, <3>1, <3>3
    <3>4. CASE f # h /\ g # h
      BY <1>6, <1>8, <3>1, <3>4
    <3> QED BY <3>2, <3>3, <3>4
  <2> QED BY <1>8, <2>1, <2>2 DEF Sequences
<1>10. ASSUME NEW g \in ListHead, g # h PROVE Walk(n2, o2[g], g)
  <2>1. ASSUME NEW k \in 0 .. Len(o[g]) PROVE n2[Met(o[g], g, k)] = n[Met(o[g], g, k)]
    <3>1. k \in 0 .. Len(o[g]) + 1 /\ k + 1 \in 0 .. Len(o[g]) + 1
      BY <1>5, MetFacts
    <3>2. /\ Met(o[g], g, k) \in ToSet(o[g]) \cup {g} /\ ToSet(o[g]) \subseteq Coro
          /\ Met(o[g], g, k + 1) \in ToSet(o[g]) \cup {g}
      BY <1>5, <3>1, MetFacts, ToSetType
    <3>3. Met(o[g], g, k) \in Info \ {c} /\ Met(o[g], g, k + 1) # h
      BY <1>5, <1>10, <3>2 DEF Info
    <3>4. n[Met(o[g], g, k)] = Met(o[g], g, k + 1)
      BY <1>0 DEF Walk
    <3> QED BY <1>3, <3>3, <3>4
  <2>2. o2[g] = o[g]
    BY <1>8, <1>10
  <2> QED BY <1>0, <1>5, <2>1, <2>2, WalkFrame
<1>11. Walk(n2, o2[h], h)
  <2>1. s \in Seq(Coro) /\ Len(s) \in Nat
    BY <1>5, LenProperties
  <2>2. \A k \in 0 .. Len(s) : n[Met(s, h, k)] = Met(s, h, k + 1)
    BY <1>0 DEF Walk
  <2>3. \A k \in 1 .. Len(s) : Met(s, h, k) # h
    BY <1>5, MetFacts
  <2>4. \A k \in 0 .. Len(s) : Met(s, h, k) \in Info \ {c}
    BY <1>5, MetFacts DEF Info
  <2>5. Met(s, h, Len(s) + 1) = h
    BY <1>5, MetFacts
  <2> HIDE DEF s
  <2>6. ASSUME NEW k \in 0 .. Len(s) PROVE Met(r, h, k) = Met(s, h, k)
    BY <1>6, <1>7, <2>1 DEF Met
  <2>7. Met(r, h, Len(s) + 1) = c /\ Met(r, h, (Len(s) + 1) + 1) = h
    BY <1>6, <1>7, <2>1 DEF Met
  <2>8. ASSUME NEW k \in 0 .. Len(r) PROVE n2[Met(r, h, k)] = Met(r, h, k + 1)
    <3>1. CASE k \in 0 .. Len(s) - 1
      <4>1. k \in 0 .. Len(s) /\ k + 1 \in 0 .. Len(s) /\ k + 1 \in 1 .. Len(s)
        BY <2>1, <3>1
      <4>2. Met(r, h, k) = Met(s, h, k) /\ Met(r, h, k + 1) = Met(s, h, k + 1)
        BY <2>6, <4>1
      <4> QED BY <1>3, <2>2, <2>3, <2>4, <4>1, <4>2
    <3>2. CASE k = Len(s)
      <4>1. k \in 0 .. Len(s)
        BY <2>1, <3>2
      <4>2. Met(r, h, k) = Met(s, h, k) /\ Met(s, h, k) \in Info /\ n[Met(s, h, k)] = h
        BY <2>2, <2>4, <2>5, <2>6, <3>2, <4>1
      <4>3. Met(r, h, k) = p[h]
        BY <1>4, <4>2
      <4> QED BY <1>3, <2>7, <3>2, <4>3
    <3>3. CASE k = Len(s) + 1
      BY <1>3, <2>7, <3>3
    <3> QED BY <1>6, <2>1, <3>1, <3>2, <3>3
  <2> QED BY <1>8, <2>8 DEF Walk
<1>12. ASSUME NEW d \in Coro PROVE n2[d] # Null <=> \E g \in ListHead : d \in ToSet(o2[g])
  <2>1. CASE d = c
    <3>1. n2[d] # Null /\ d \in ToSet(o2[h])
      BY <1>2, <1>3, <1>6, <1>8, <2>1
    <3> QED BY <3>1
  <2>2. CASE d # c
    <3>1. n2[d] # Null <=> n[d] # Null
      <4>1. CASE n[d] = h
        BY <1>2, <1>3, <1>4, <2>2, <4>1 DEF Info
      <4>2. CASE n[d] # h
        BY <1>3, <2>2, <4>2 DEF Info
      <4> QED BY <4>1, <4>2
    <3>2. \A g \in ListHead : d \in ToSet(o2[g]) <=> d \in ToSet(o[g])
      BY <1>6, <1>8, <2>2
    <3> QED BY <1>0, <3>1, <3>2
  <2> QED BY <2>1, <2>2
<1> HIDE DEF s
<1>13. \A p2 : WellLinked(p2, n2) => ListInv(p2, n2, o2)
  BY <1>9, <1>10, <1>11, <1>12 DEF ListInv
<1> QED BY <1>1, <1>13 DEF LinkLast, Link, n2, o2

(* What ListInv says of the sequences and the pointers is ListsLinked.     *)
LEMMA ListInvSuffices ==
  ASSUME ListInv(prv, nxt, order)
  PROVE  ListsLinked
<1>0. /\ WellLinked(prv, nxt) /\ Sequences(order)
      /\ \A g \in ListHead : Walk(nxt, order[g], g)
      /\ \A d \in Coro : nxt[d] # Null <=> \E g \in ListHead : d \in ToSet(order[g])
  BY DEF ListInv
<1>1. ASSUME NEW h \in ListHead
      PROVE  LET cycle == <<h>> \o order[h] \o <<h>>
             IN  \A k \in 1 .. Len(cycle) - 1 :
                   nxt[cycle[k]] = cycle[k + 1] /\ prv[cycle[k + 1]] = cycle[k]
  <2> DEFINE s == order[h]
             one == <<h>>
             cycle == one \o s \o one
  <2>1. s \in Seq(Coro) /\ s \in Seq(Info) /\ Len(s) \in Nat
    <3>1. s \in Seq(Coro)
      BY <1>0 DEF Sequences
    <3>2. Len(s) \in Nat /\ \A i \in 1 .. Len(s) : s[i] \in Info
      BY <3>1, LenProperties, ElementOfSeq DEF Info
    <3> QED BY <3>1, <3>2
  <2>2. one \in Seq(Info) /\ Len(one) = 1 /\ one[1] = h
    BY DEF Info
  <2>w. \A k \in 0 .. Len(s) : nxt[Met(s, h, k)] = Met(s, h, k + 1)
    BY <1>0 DEF Walk
  <2>m. \A k \in 0 .. Len(s) : Met(s, h, k) \in Info
    BY <2>1, MetFacts
  <2>n. \A k \in 0 .. Len(s) + 1 : Met(s, h, k) \in Info
    BY <2>1, MetFacts
  <2> HIDE DEF s, one
  <2>3. /\ one \o s \in Seq(Info) /\ Len(one \o s) = Len(s) + 1
        /\ \A i \in 1 .. Len(s) + 1 : (one \o s)[i] = IF i = 1 THEN h ELSE s[i - 1]
    <3>0. one \in Seq(Info) /\ s \in Seq(Info)
      BY <2>1, <2>2
    <3>1. /\ one \o s \in Seq(Info) /\ Len(one \o s) = Len(one) + Len(s)
          /\ \A i \in 1 .. Len(one) + Len(s) :
               (one \o s)[i] = IF i <= Len(one) THEN one[i] ELSE s[i - Len(one)]
      BY <3>0, ConcatProperties
    <3> QED BY <2>1, <2>2, <3>1
  <2>4. /\ Len(cycle) = Len(s) + 2
        /\ \A i \in 1 .. Len(s) + 2 :
             cycle[i] = IF i <= Len(s) + 1 THEN (one \o s)[i] ELSE h
    <3>1. Len(cycle) = (Len(s) + 1) + 1
          /\ \A i \in 1 .. (Len(s) + 1) + 1 :
               cycle[i] = IF i <= Len(s) + 1 THEN (one \o s)[i] ELSE one[i - (Len(s) + 1)]
      BY <2>2, <2>3, ConcatProperties
    <3> QED BY <2>1, <2>2, <3>1
  <2> HIDE DEF cycle
  <2>5. ASSUME NEW k \in 0 .. Len(s) + 1 PROVE cycle[k + 1] = Met(s, h, k)
    <3>1. CASE k = 0
      BY <2>1, <2>3, <2>4, <3>1 DEF Met
    <3>2. CASE k \in 1 .. Len(s)
      BY <2>1, <2>3, <2>4, <3>2 DEF Met
    <3>3. CASE k = Len(s) + 1
      BY <2>1, <2>3, <2>4, <3>3 DEF Met
    <3> QED BY <2>1, <3>1, <3>2, <3>3
  <2>6. ASSUME NEW k \in 1 .. Len(cycle) - 1
        PROVE  nxt[cycle[k]] = cycle[k + 1] /\ prv[cycle[k + 1]] = cycle[k]
    <3>1. k - 1 \in 0 .. Len(s) /\ k - 1 \in 0 .. Len(s) + 1 /\ k \in 0 .. Len(s) + 1 /\ (k - 1) + 1 = k
      BY <2>1, <2>4
    <3>2. cycle[k] = Met(s, h, k - 1) /\ cycle[k + 1] = Met(s, h, k)
      BY <2>5, <3>1
    <3>3. nxt[cycle[k]] = cycle[k + 1] /\ cycle[k] \in Info /\ cycle[k + 1] \in Info
      BY <2>w, <2>m, <2>n, <3>1, <3>2
    <3>4. cycle[k + 1] # Null
      BY <3>3 DEF Info
    <3> QED BY <1>0, <3>3, <3>4 DEF WellLinked
  <2> QED BY <2>6 DEF cycle, s, one
<1>2. ASSUME NEW h \in ListHead PROVE HeadEmpty(h) <=> order[h] = << >>
  <2>1. /\ order[h] \in Seq(Coro) /\ Len(order[h]) \in Nat
        /\ order[h] = << >> <=> Len(order[h]) = 0
    BY <1>0, LenProperties, EmptySeq DEF Sequences
  <2>2. nxt[h] = Met(order[h], h, 1)
    <3>1. nxt[Met(order[h], h, 0)] = Met(order[h], h, 0 + 1) /\ Met(order[h], h, 0) = h
      BY <1>0, <2>1, MetFacts DEF Walk
    <3> QED BY <3>1
  <2>3. CASE Len(order[h]) = 0
    BY <2>1, <2>2, <2>3 DEF HeadEmpty, Met
  <2>4. CASE Len(order[h]) # 0
    <3>1. 1 \in 1 .. Len(order[h])
      BY <2>1, <2>4
    <3>2. Met(order[h], h, 1) \in Coro
      BY <2>1, <3>1, MetFacts
    <3> QED BY <2>1, <2>2, <2>4, <3>2 DEF HeadEmpty
  <2> QED BY <2>3, <2>4
<1>3. \A c \in Coro : Linked(c) <=> \E h \in ListHead : c \in ToSet(order[h])
  BY <1>0 DEF Linked
<1> QED BY <1>0, <1>1, <1>2, <1>3 DEF ListsLinked, LinksInverse

(* However coroutines are added to, deleted from and moved between the     *)
(* lists, a walk from any head along the pointers, forwards or backwards,  *)
(* meets just the coroutines put on that list, once each and in order, and *)
(* comes back to the head; a coroutine is linked exactly when it is on a   *)
(* list.                                                                   *)
THEOREM ListsAlwaysLinked == ListSpec => []ListsLinked
<1> DEFINE Inv == ListInv(prv, nxt, order)
<1>1. ListInit => Inv
  <2> SUFFICES ASSUME ListInit PROVE Inv
    OBVIOUS
  <2>1. WellLinked(prv, nxt)
    BY DEF ListInit, WellLinked, Info
  <2>2. \A h \in ListHead : order[h] = << >> /\ nxt[h] = h
    BY DEF ListInit, Info
  <2>3. << >> \in Seq(Coro) /\ IsInjective(<< >>) /\ ToSet(<< >>) = {} /\ Len(<< >>) = 0
    BY DEF IsInjective, ToSet
  <2>4. Sequences(order)
    BY <2>2, <2>3 DEF ListInit, Sequences
  <2>5. \A h \in ListHead : Walk(nxt, order[h], h)
    BY <2>2, <2>3 DEF Walk, Met
  <2>6. \A c \in Coro : nxt[c] = Null /\ ~ \E h \in ListHead : c \in ToSet(order[h])
    BY <2>2, <2>3 DEF ListInit, Info
  <2> QED BY <2>1, <2>4, <2>5, <2>6 DEF ListInv
<1>2. Inv /\ [ListNext]_listVars => Inv'
  <2> SUFFICES ASSUME Inv, [ListNext]_listVars PROVE Inv'
    OBVIOUS
  <2>1. ASSUME NEW c \in Coro, CoroutineDel(c) PROVE Inv'
    BY <2>1, UnlinkInv DEF CoroutineDel, Store, Linked, Without
  <2>2. ASSUME NEW c \in Coro, NEW h \in ListHead, CoroutineAdd(c, h) PROVE Inv'
    BY <2>2, LinkFirstInv DEF CoroutineAdd, Store, Linked
  <2>3. ASSUME NEW c \in Coro, NEW h \in ListHead, CoroutineAddTail(c, h) PROVE Inv'
    BY <2>3, LinkLastInv DEF CoroutineAddTail, Store, Linked
  <2>4. ASSUME NEW c \in Coro, NEW h \in ListHead, CoroutineMove(c, h) \/ CoroutineMoveTail(c, h)
        PROVE  Inv'
    <3> DEFINE out == Unlink(prv, nxt, c)
    <3>1. ListInv(out[1], out[2], Without(c)) /\ out[2][c] = Null
      BY <2>4, UnlinkInv DEF CoroutineMove, CoroutineMoveTail, Linked, Without
    <3> HIDE DEF out
    <3>2. CASE CoroutineMove(c, h)
      BY <3>1, <3>2, LinkFirstInv DEF CoroutineMove, Store, out
    <3>3. CASE CoroutineMoveTail(c, h)
      BY <3>1, <3>3, LinkLastInv DEF CoroutineMoveTail, Store, out
    <3> QED BY <2>4, <3>2, <3>3
  <2>5. CASE UNCHANGED listVars
    BY <2>5 DEF listVars
  <2> QED BY <2>1, <2>2, <2>3, <2>4, <2>5 DEF ListNext
<1>3. Inv => ListsLinked
  BY ListInvSuffices
<1> QED BY <1>1, <1>2, <1>3, PTL DEF ListSpec
============================================================================
