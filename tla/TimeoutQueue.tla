---------------------------- MODULE TimeoutQueue ----------------------------
(***************************************************************************)
(* TC_TimeoutQueueNew, in which an ObjectProxy keeps the calls it waits    *)
(* for: three containers with iterators into each other.  _data finds an   *)
(* entry by its id, _time has the entries by their deadline, _send the     *)
(* ones still to be sent.  An iterator is modelled by the id of the entry  *)
(* it points at: it dangles when _data has no such entry.                  *)
(*                                                                         *)
(* generateId and timeout(df) are left out: they name members the class    *)
(* does not have, so no program can instantiate them.                      *)
(***************************************************************************)
EXTENDS Integers, FiniteSets, Sequences, SequencesExt

CONSTANTS
    Id,           \* uniqId
    Message,      \* the T that are queued
    NoMessage,    \* nothing has been handed out
    MaxClock      \* bound: the time, and the largest deadline

ASSUME QueueAssumption == NoMessage \notin Message /\ MaxClock \in Nat

VARIABLES
    data,         \* _data: a PtrInfo for each id that is present
    time,         \* _time: pairs of deadline and id, in the order of the multimap
    send,         \* _send: ids, the front of the list first
    clock,        \* gettimeofday, in milliseconds
    handed,       \* the T& of the last call
    dangling      \* an iterator was used that points at no entry

queueVars == <<data, time, send, clock, handed, dangling>>

QueueInit ==
    /\ data = << >> /\ time = << >> /\ send = << >>
    /\ clock = 0
    /\ handed = NoMessage /\ dangling = FALSE

(* The elements of s that are in S, in their order: SelectSeq with a set,  *)
(* as a function, so that proofs can unfold it.                            *)
Kept(s, S) ==
    LET upTo[n \in 0 .. Len(s)] ==
          IF n = 0 THEN << >>
          ELSE IF s[n] \in S THEN Append(upTo[n - 1], s[n]) ELSE upTo[n - 1]
    IN  upTo[Len(s)]

DataWithout(ids) == [i \in DOMAIN data \ ids |-> data[i]]
TimeWithout(ids) == Kept(time, {e \in ToSet(time) : e[2] \notin ids})
SendWithout(ids) == Kept(send, ToSet(send) \ ids)

MutantInsertedLast(deadline, id) == Append(time, <<deadline, id>>)

(* multimap::insert puts equal keys behind each other.                     *)
Inserted(deadline, id) ==
    Kept(time, {e \in ToSet(time) : e[1] <= deadline}) \o <<<<deadline, id>>>>
        \o Kept(time, {e \in ToSet(time) : e[1] > deadline})

(* push, which refuses an id that is present                               *)
Push(m, id, deadline, hasSend) ==
    /\ id \notin DOMAIN data
    /\ data' = [i \in DOMAIN data \cup {id} |->
                  IF i = id THEN [ptr |-> m, hasSend |-> hasSend] ELSE data[i]]
    /\ time' = Inserted(deadline, id)
    /\ send' = IF hasSend THEN send ELSE <<id>> \o send
    /\ UNCHANGED <<clock, handed, dangling>>

(* getSend: the back of the list, which was pushed first                   *)
GetSend ==
    /\ send # << >>
    /\ IF Last(send) \in DOMAIN data
         THEN handed' = data[Last(send)].ptr /\ UNCHANGED dangling
         ELSE dangling' = TRUE /\ UNCHANGED handed
    /\ UNCHANGED <<data, time, send, clock>>

(* popSend(del), of what getSend has shown                                 *)
PopSend(del) ==
    /\ send # << >>
    /\ LET id == Last(send)
       IN  /\ dangling' = (dangling \/ id \notin DOMAIN data)
           /\ IF del
                THEN data' = DataWithout({id}) /\ time' = TimeWithout({id})
                ELSE /\ data' = [data EXCEPT ![id].hasSend = TRUE]
                     /\ UNCHANGED time
    /\ send' = Front(send)
    /\ UNCHANGED <<clock, handed>>

(* get(id, t, bErase), and erase(id, t), which is the same with bErase     *)
Get(id, bErase) ==
    /\ id \in DOMAIN data
    /\ handed' = data[id].ptr
    /\ IF bErase
         THEN /\ data' = DataWithout({id})
              /\ time' = TimeWithout({id})
              /\ send' = IF data[id].hasSend THEN send ELSE SendWithout({id})
         ELSE UNCHANGED <<data, time, send>>
    /\ UNCHANGED <<clock, dangling>>

Due == {e[2] : e \in {d \in ToSet(time) : d[1] <= clock}}

MutantRemoveLeavesSend(ids) ==
    /\ data' = DataWithout(ids)
    /\ time' = TimeWithout(ids)
    /\ UNCHANGED <<send, dangling>>

(* The entries are removed through their iterators in _time.               *)
RemoveEntries(ids) ==
    /\ dangling' = (dangling \/ ~ids \subseteq DOMAIN data)
    /\ send' = SendWithout({i \in ids \cap DOMAIN data : ~data[i].hasSend})
    /\ data' = DataWithout(ids)
    /\ time' = TimeWithout(ids)

(* timeout(): entries are removed from the front of _time until one is     *)
(* not due                                                                 *)
TimeoutAll ==
    /\ RemoveEntries({time[i][2] : i \in {j \in DOMAIN time : \A k \in 1 .. j : time[k][1] <= clock}})
    /\ UNCHANGED <<clock, handed>>

(* timeout(t): the first entry, if it is due                               *)
TimeoutOne ==
    /\ time # << >> /\ Head(time)[1] <= clock
    /\ IF Head(time)[2] \in DOMAIN data
         THEN handed' = data[Head(time)[2]].ptr ELSE UNCHANGED handed
    /\ RemoveEntries({Head(time)[2]})
    /\ UNCHANGED clock

TimePasses ==
    /\ clock < MaxClock
    /\ clock' = clock + 1
    /\ UNCHANGED <<data, time, send, handed, dangling>>

QueueNext ==
    \/ \E m \in Message, id \in Id, d \in 0 .. MaxClock, s \in BOOLEAN : Push(m, id, d, s)
    \/ GetSend
    \/ \E del \in BOOLEAN : PopSend(del)
    \/ \E id \in Id, b \in BOOLEAN : Get(id, b)
    \/ TimeoutAll \/ TimeoutOne \/ TimePasses

QueueSpec == QueueInit /\ [][QueueNext]_queueVars

-----------------------------------------------------------------------------
(* The three containers agree: every entry has one place in _time and, if  *)
(* it is still to be sent, one in _send, and no iterator points at an      *)
(* entry that is gone, in whichever way and order entries leave.           *)
ContainersAgree ==
    /\ ~dangling
    /\ {e[2] : e \in ToSet(time)} = DOMAIN data /\ Len(time) = Cardinality(DOMAIN data)
    /\ ToSet(send) = {i \in DOMAIN data : ~data[i].hasSend} /\ IsInjective(send)

(* timeout() removes every entry that is due and no other, although it     *)
(* stops at the first of _time that is not; timeout(t) removes one that no *)
(* other is due before.                                                    *)
TimeoutsExact ==
    [][/\ TimeoutAll => DOMAIN data' = DOMAIN data \ Due
       /\ TimeoutOne =>
            \A e \in ToSet(time) : e[2] \in DOMAIN data' => e[1] >= Head(time)[1]]_queueVars
=============================================================================
