----------------------------- MODULE HeartBeat -----------------------------
(***************************************************************************)
(* The heartbeat of a server to its node.  Every handle tests, between two *)
(* requests, whether its adapter is due; TarsNodeFHelper collects the      *)
(* adapters that were and the handle of the AdminAdapter sends them all.   *)
(* The handles of one adapter share its _iHeartBeatTime without a lock,    *)
(* those of all adapters share _adapterSet under the helper's mutex.       *)
(***************************************************************************)
EXTENDS Integers, FiniteSets

CONSTANTS
    Beater,       \* the ServantHandles
    Adapter,      \* the BindAdapters; a handle group has one each
    AdminAdapter,
    AdapterOf,    \* the adapter of each handle
    Interval,     \* HEART_BEAT_INTERVAL
    MaxSeconds    \* bound: the clock

ASSUME BeatAssumption ==
    /\ AdminAdapter \in Adapter
    /\ AdapterOf \in [Beater -> Adapter]
    /\ {Interval, MaxSeconds} \subseteq Nat

VARIABLES
    seconds,      \* gettimeofday, which may be set back
    beatTime,     \* _iHeartBeatTime of each adapter
    adapterSet,   \* _adapterSet
    nodePrx,      \* _nodePrx
    doingBeat,    \* where each handle is in heartbeat()
    fcur,         \* its fcur
    batch,        \* its s, without the adapters it has sent
    owed,         \* history: adapters that were due and have not been sent
    crashed       \* an invalid _nodePrx was used

beatVars == <<seconds, beatTime, adapterSet, nodePrx, doingBeat, fcur, batch, owed, crashed>>

(* setNodeInfo: without the address of a node _nodePrx stays what the      *)
(* memory of the helper contained.                                         *)
BeatInit ==
    /\ seconds \in 0 .. MaxSeconds
    /\ beatTime = [a \in Adapter |-> 0]
    /\ adapterSet = {}
    /\ nodePrx \in {"proxy", "null", "junk"}
    /\ doingBeat = [h \in Beater |-> "idle"]
    /\ fcur = [h \in Beater |-> 0]
    /\ batch = [h \in Beater |-> {}]
    /\ owed = {} /\ crashed = FALSE

BeatAt(h, here) == ~crashed /\ doingBeat[h] = here
BeatGoto(h, next) == doingBeat' = [doingBeat EXCEPT ![h] = next]

TimePassesOrIsSet ==
    /\ \E s \in 0 .. MaxSeconds : seconds' = s
    /\ UNCHANGED <<beatTime, adapterSet, nodePrx, doingBeat, fcur, batch, owed, crashed>>

Distance(a, b) == IF a > b THEN a - b ELSE b - a

(* heartbeat() up to the test; another handle of the adapter may pass it   *)
(* too before the time is set.                                             *)
TestHeartBeat(h) ==
    LET a == AdapterOf[h]
    IN  /\ BeatAt(h, "idle")
        /\ Distance(seconds, beatTime[a]) > Interval
        /\ fcur' = [fcur EXCEPT ![h] = seconds]
        /\ owed' = IF nodePrx = "proxy" THEN owed \cup {a} ELSE owed
        /\ BeatGoto(h, "set")
        /\ UNCHANGED <<seconds, beatTime, adapterSet, nodePrx, batch, crashed>>

SetHeartBeatTime(h) ==
    /\ BeatAt(h, "set")
    /\ beatTime' = [beatTime EXCEPT ![AdapterOf[h]] = fcur[h]]
    /\ BeatGoto(h, "keepAlive")
    /\ UNCHANGED <<seconds, adapterSet, nodePrx, fcur, batch, owed, crashed>>

(* keepAlive under the mutex: the adapter is noted, and the AdminAdapter   *)
(* takes everything that has been noted.                                   *)
KeepAlive(h) ==
    LET a == AdapterOf[h]
    IN  /\ BeatAt(h, "keepAlive") /\ nodePrx = "proxy"
        /\ IF a # AdminAdapter
             THEN /\ adapterSet' = adapterSet \cup {a}
                  /\ BeatGoto(h, "idle")
                  /\ UNCHANGED batch
             ELSE /\ batch' = [batch EXCEPT ![h] = adapterSet \cup {a}]
                  /\ adapterSet' = {}
                  /\ BeatGoto(h, "send")
        /\ UNCHANGED <<seconds, beatTime, nodePrx, fcur, owed, crashed>>

(* keepAlive without a node, and with an uninitialized _nodePrx            *)
KeepAliveAlone(h) ==
    /\ BeatAt(h, "keepAlive") /\ nodePrx = "null"
    /\ BeatGoto(h, "idle")
    /\ UNCHANGED <<seconds, beatTime, adapterSet, nodePrx, fcur, batch, owed, crashed>>
KeepAliveJunk(h) ==
    /\ BeatAt(h, "keepAlive") /\ nodePrx = "junk"
    /\ crashed' = TRUE
    /\ UNCHANGED <<seconds, beatTime, adapterSet, nodePrx, doingBeat, fcur, batch, owed>>

MutantClearAfterSending(h) ==
    /\ BeatAt(h, "send")
    /\ \E a \in batch[h] :
         /\ batch' = [batch EXCEPT ![h] = @ \ {a}]
         /\ owed' = owed \ {a}
         /\ BeatGoto(h, IF batch[h] = {a} THEN "idle" ELSE "send")
         /\ adapterSet' = IF batch[h] = {a} THEN {} ELSE adapterSet
    /\ UNCHANGED <<seconds, beatTime, nodePrx, fcur, crashed>>

(* async_keepAlive for the next adapter of s, outside the mutex            *)
SendKeepAlive(h) ==
    /\ BeatAt(h, "send")
    /\ \E a \in batch[h] :
         /\ batch' = [batch EXCEPT ![h] = @ \ {a}]
         /\ owed' = owed \ {a}
         /\ BeatGoto(h, IF batch[h] = {a} THEN "idle" ELSE "send")
    /\ UNCHANGED <<seconds, beatTime, adapterSet, nodePrx, fcur, crashed>>

BeatNext ==
    \/ TimePassesOrIsSet
    \/ \E h \in Beater :
         \/ TestHeartBeat(h) \/ SetHeartBeatTime(h)
         \/ KeepAlive(h) \/ KeepAliveAlone(h) \/ KeepAliveJunk(h) \/ SendKeepAlive(h)

BeatSpec == BeatInit /\ [][BeatNext]_beatVars

-----------------------------------------------------------------------------
(* A heartbeat that was due reaches the node with the next report of the   *)
(* AdminAdapter: until it is sent its adapter is noted, in the batch being *)
(* sent, or a handle of it is on the way to note it, although handles note *)
(* adapters while a batch is being sent and pass the same test twice.      *)
HeartBeatKept ==
    \A a \in owed :
        \/ a \in adapterSet
        \/ \E h \in Beater : a \in batch[h]
        \/ \E h \in Beater : AdapterOf[h] = a /\ doingBeat[h] \in {"set", "keepAlive"}
============================================================================
