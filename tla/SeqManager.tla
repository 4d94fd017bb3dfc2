----------------------------- MODULE SeqManager -----------------------------
(***************************************************************************)
(* SeqManager, the numbers from 0 on that calling threads get: a free list *)
(* threaded through an array, with an index for each end.  A number is     *)
(* taken at the front and given back at the tail.  ServantProxyThreadData  *)
(* calls get() under its mutex; nothing in the repository calls del().     *)
(***************************************************************************)
EXTENDS Integers, FiniteSets

CONSTANTS
    Num,             \* iNum of the constructor
    MAX_UNSIGN_SHORT \* the end of the list

ASSUME SeqAssumption ==
    /\ MAX_UNSIGN_SHORT \in Nat
    /\ Num \in 1 .. MAX_UNSIGN_SHORT - 1

Seqs == 0 .. Num - 1

VARIABLES
    free,            \* _free
    freeTail,        \* _freeTail
    next,            \* _p[i].next
    isFree,          \* _p[i].free
    exhausted        \* get() was called with no number left: its assert fails

seqVars == <<free, freeTail, next, isFree, exhausted>>

(* The constructor                                                         *)
SeqInit ==
    /\ free = 0 /\ freeTail = Num - 1
    /\ next = [i \in Seqs |-> IF i = Num - 1 THEN MAX_UNSIGN_SHORT ELSE i + 1]
    /\ isFree = [i \in Seqs |-> TRUE]
    /\ exhausted = FALSE

MutantGetKeepsTail(n) ==
    /\ ~exhausted /\ free # MAX_UNSIGN_SHORT
    /\ n = free
    /\ free' = next[free]
    /\ isFree' = [isFree EXCEPT ![free] = FALSE]
    /\ UNCHANGED <<freeTail, next, exhausted>>

(* get() returns n                                                         *)
SeqGet(n) ==
    /\ ~exhausted /\ free # MAX_UNSIGN_SHORT
    /\ n = free
    /\ freeTail' = IF free = freeTail THEN MAX_UNSIGN_SHORT ELSE freeTail
    /\ free' = next[free]
    /\ isFree' = [isFree EXCEPT ![free] = FALSE]
    /\ UNCHANGED <<next, exhausted>>

SeqGetFails ==
    /\ ~exhausted /\ free = MAX_UNSIGN_SHORT
    /\ exhausted' = TRUE
    /\ UNCHANGED <<free, freeTail, next, isFree>>

(* del(i), for a number that get() returned                                *)
SeqDel(i) ==
    /\ ~exhausted /\ ~isFree[i]
    /\ IF freeTail = MAX_UNSIGN_SHORT
         THEN /\ free' = i
              /\ next' = [next EXCEPT ![i] = MAX_UNSIGN_SHORT]
         ELSE /\ next' = [next EXCEPT ![i] = MAX_UNSIGN_SHORT, ![freeTail] = i]
              /\ UNCHANGED free
    /\ isFree' = [isFree EXCEPT ![i] = TRUE]
    /\ freeTail' = i
    /\ UNCHANGED exhausted

SeqNext ==
    \/ \E n \in Seqs : SeqGet(n) \/ SeqDel(n)
    \/ SeqGetFails

SeqSpec == SeqInit /\ [][SeqNext]_seqVars

-----------------------------------------------------------------------------
(* The k-th number on the list                                             *)
OnList ==
    LET nth[k \in 1 .. Num] ==
          IF k = 1 THEN free
          ELSE IF nth[k - 1] \in Seqs THEN next[nth[k - 1]] ELSE MAX_UNSIGN_SHORT
    IN  nth

(* From _free along next the list has every free number once, ends at      *)
(* _freeTail and is empty for both ends or for neither, after numbers have *)
(* been taken and given back in any order and the list has been empty: no  *)
(* number is given to two threads, and none is lost.                       *)
FreeListSound ==
    LET n == Cardinality({i \in Seqs : isFree[i]})
    IN  /\ {OnList[k] : k \in 1 .. n} = {i \in Seqs : isFree[i]}
        /\ n = 0 => free = MAX_UNSIGN_SHORT /\ freeTail = MAX_UNSIGN_SHORT
        /\ n > 0 => OnList[n] = freeTail /\ next[freeTail] = MAX_UNSIGN_SHORT
=============================================================================
