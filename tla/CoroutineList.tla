---------------------------- MODULE CoroutineList ----------------------------
(***************************************************************************)
(* The intrusive lists of CoroutineInfo: a coroutine carries one pair of   *)
(* pointers, _prev and _next, and is linked with it into at most one of    *)
(* the circular lists of the scheduler, each of which begins at a head     *)
(* that is a CoroutineInfo too.  CoroutineScheduler takes a list to be a   *)
(* sequence; here is the one the pointers stand for.                       *)
(*                                                                         *)
(* What the callers guarantee is in the guards: they add a coroutine that  *)
(* was just constructed or deleted, and delete one that is on the list of  *)
(* its status (CoroutineScheduler!CoroutinesAccounted).                    *)
(***************************************************************************)
EXTENDS Naturals, Sequences, SequencesExt

CONSTANTS
    Coro,         \* the coroutines of the pool
    ListHead,     \* _free, _active, _avail, _inactive and _timeout
    Null          \* NULL

ASSUME ListAssumption ==
    /\ Coro \cap ListHead = {}
    /\ Null \notin Coro \cup ListHead

Info == Coro \cup ListHead

VARIABLES
    prv,          \* _prev of every CoroutineInfo
    nxt,          \* _next
    order         \* the sequence of coroutines each list is meant to be

listVars == <<prv, nxt, order>>

(* The constructor of CoroutineInfo, and CoroutineHeadInit for the heads   *)
ListInit ==
    /\ prv = [i \in Info |-> IF i \in ListHead THEN i ELSE Null]
    /\ nxt = [i \in Info |-> IF i \in ListHead THEN i ELSE Null]
    /\ order = [h \in ListHead |-> << >>]

Linked(c) == nxt[c] # Null

(* CoroutineHeadEmpty                                                      *)
HeadEmpty(h) == nxt[h] = h

(* __CoroutineAdd: four stores in their order, of which the last wins when *)
(* the list is empty and prev and next are the same head.                  *)
Link(p, n, c, prev, next) ==
    <<[[p EXCEPT ![next] = c] EXCEPT ![c] = prev],
      [[n EXCEPT ![c] = next] EXCEPT ![prev] = c]>>

MutantUnlinkOneWay(p, n, c) ==
    <<[p EXCEPT ![c] = Null], [[n EXCEPT ![p[c]] = n[c]] EXCEPT ![c] = Null]>>

(* CoroutineDel with __CoroutineDel(_prev, _next)                          *)
Unlink(p, n, c) ==
    <<[[p EXCEPT ![n[c]] = p[c]] EXCEPT ![c] = Null],
      [[n EXCEPT ![p[c]] = n[c]] EXCEPT ![c] = Null]>>

Store(pair) == prv' = pair[1] /\ nxt' = pair[2]

(* CoroutineAdd: behind the head                                           *)
LinkFirst(p, n, c, h) == Link(p, n, c, h, n[h])

(* CoroutineAddTail: before the head                                       *)
LinkLast(p, n, c, h) == Link(p, n, c, p[h], h)

Without(c) == [h \in ListHead |-> RemoveFirst(order[h], c)]

CoroutineAdd(c, h) ==
    /\ ~Linked(c)
    /\ Store(LinkFirst(prv, nxt, c, h))
    /\ order' = [order EXCEPT ![h] = <<c>> \o @]

CoroutineAddTail(c, h) ==
    /\ ~Linked(c)
    /\ Store(LinkLast(prv, nxt, c, h))
    /\ order' = [order EXCEPT ![h] = Append(@, c)]

CoroutineDel(c) ==
    /\ Linked(c)
    /\ Store(Unlink(prv, nxt, c))
    /\ order' = Without(c)

(* CoroutineMove and CoroutineMoveTail: deleted, then added, also to the   *)
(* list it comes from                                                      *)
CoroutineMove(c, h) ==
    /\ Linked(c)
    /\ LET out == Unlink(prv, nxt, c) IN Store(LinkFirst(out[1], out[2], c, h))
    /\ order' = [Without(c) EXCEPT ![h] = <<c>> \o @]

CoroutineMoveTail(c, h) ==
    /\ Linked(c)
    /\ LET out == Unlink(prv, nxt, c) IN Store(LinkLast(out[1], out[2], c, h))
    /\ order' = [Without(c) EXCEPT ![h] = Append(@, c)]

ListNext ==
    \E c \in Coro :
        \/ CoroutineDel(c)
        \/ \E h \in ListHead :
             \/ CoroutineAdd(c, h) \/ CoroutineAddTail(c, h)
             \/ CoroutineMove(c, h) \/ CoroutineMoveTail(c, h)

ListSpec == ListInit /\ [][ListNext]_listVars

-----------------------------------------------------------------------------
(* The pointers are well formed: a CoroutineInfo is linked both ways or    *)
(* not at all, every head is linked, and _prev and _next of linked ones    *)
(* undo each other, so that no step of CoroutineDel goes through NULL or   *)
(* leaves a pointer to a coroutine that was taken out.                     *)
WellLinked(p, n) ==
    /\ p \in [Info -> Info \cup {Null}]
    /\ n \in [Info -> Info \cup {Null}]
    /\ \A h \in ListHead : n[h] # Null
    /\ \A i \in Info : n[i] # Null => n[n[i]] # Null /\ p[n[i]] = i
    /\ \A i \in Info : p[i] # Null => n[p[i]] = i
    /\ \A i \in Info : n[i] # Null <=> p[i] # Null

LinksInverse == WellLinked(prv, nxt)

(* Walked from its head in either direction, a list is the sequence of the *)
(* calls made on it: no coroutine is skipped, reached twice or reached     *)
(* from two heads, however coroutines move between the lists.              *)
ListsLinked ==
    /\ LinksInverse
    /\ \A h \in ListHead :
         LET cycle == <<h>> \o order[h] \o <<h>>
         IN  \A k \in 1 .. Len(cycle) - 1 :
               nxt[cycle[k]] = cycle[k + 1] /\ prv[cycle[k + 1]] = cycle[k]
    /\ \A c \in Coro : Linked(c) <=> \E h \in ListHead : c \in ToSet(order[h])
    /\ \A h \in ListHead : HeadEmpty(h) <=> order[h] = << >>
==============================================================================
