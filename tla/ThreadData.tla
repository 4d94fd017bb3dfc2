----------------------------- MODULE ThreadData -----------------------------
(***************************************************************************)
(* ServantProxyThreadData::getData and ServantProxy::selectNetThreadInfo,  *)
(* with which every call begins: the data of the calling thread is kept    *)
(* under a pthread key that the first call of the process creates; it      *)
(* holds the number of the thread, by which its requests are announced to  *)
(* the net threads, and the net thread whose turn it is.                   *)
(*                                                                         *)
(* _key = 0 stands for "no key yet", but pthread_key_create may return 0.  *)
(***************************************************************************)
EXTENDS SeqManager

CONSTANTS
    Caller,          \* the threads that make calls
    NoData,          \* pthread_getspecific returns NULL
    MaxKeys,         \* bound: keys pthread_key_create can make
    ObjectProxyNum   \* _objectProxyNum, the number of net threads

ASSUME ThreadDataAssumption ==
    /\ MaxKeys \in Nat \ {0} /\ ObjectProxyNum \in Nat \ {0}
    /\ NoData \notin Seqs

VARIABLES
    key,             \* _key
    nextKey,         \* the key pthread_key_create makes next
    specific,        \* what each thread has stored under each key
    netSeq,          \* _netSeq of the data with that number
    doing,           \* where each thread is in its call
    pSptd,           \* the number in the data of a call, and the key it is under
    used             \* history: pSptd of the last call of each thread

threadVars == <<seqVars, key, nextKey, specific, netSeq, doing, pSptd, used>>

Keys == 0 .. MaxKeys

(* Other code of the process may have taken key 0 before.                  *)
ThreadInit ==
    /\ SeqInit
    /\ key = 0 /\ nextKey \in {0, 1}
    /\ specific = [t \in Caller |-> [k \in Keys |-> NoData]]
    /\ netSeq = [n \in Seqs |-> 0]
    /\ doing = [t \in Caller |-> "idle"]
    /\ pSptd = [t \in Caller |-> <<NoData, 0>>]
    /\ used = [t \in Caller |-> <<NoData, 0>>]

Do(t, here, there) == doing[t] = here /\ doing' = [doing EXCEPT ![t] = there]

(* The first test of _key is made without the mutex.                       *)
TestKey(t) ==
    /\ Do(t, "idle", IF key = 0 THEN "create" ELSE "find")
    /\ UNCHANGED <<seqVars, key, nextKey, specific, netSeq, pSptd, used>>

MutantCreateUntested(t) ==
    /\ Do(t, "create", "find")
    /\ nextKey < MaxKeys /\ key' = nextKey /\ nextKey' = nextKey + 1
    /\ UNCHANGED <<seqVars, specific, netSeq, pSptd, used>>

(* Under the mutex _key is tested again and created.                       *)
CreateKey(t) ==
    /\ Do(t, "create", "find")
    /\ IF key = 0
         THEN nextKey < MaxKeys /\ key' = nextKey /\ nextKey' = nextKey + 1
         ELSE UNCHANGED <<key, nextKey>>
    /\ UNCHANGED <<seqVars, specific, netSeq, pSptd, used>>

FindData(t) ==
    /\ Do(t, "find", IF specific[t][key] = NoData THEN "make" ELSE "select")
    /\ pSptd' = [pSptd EXCEPT ![t] = <<specific[t][key], key>>]
    /\ UNCHANGED <<seqVars, key, nextKey, specific, netSeq, used>>

(* Under the mutex: new data with the next number.                         *)
MakeData(t) ==
    /\ Do(t, "make", "select")
    /\ \E n \in Seqs :
         /\ SeqGet(n)
         /\ specific' = [specific EXCEPT ![t][key] = n]
         /\ netSeq' = [netSeq EXCEPT ![n] = 0]
         /\ pSptd' = [pSptd EXCEPT ![t] = <<n, key>>]
    /\ UNCHANGED <<key, nextKey, used>>

(* All numbers are in use: assert() ends the process.                      *)
MakeDataFails(t) ==
    /\ doing[t] = "make"
    /\ SeqGetFails
    /\ UNCHANGED <<key, nextKey, specific, netSeq, doing, pSptd, used>>

(* selectNetThreadInfo: the net threads take turns.                        *)
SelectNetThreadInfo(t) ==
    /\ Do(t, "select", "idle")
    /\ netSeq' = [netSeq EXCEPT ![pSptd[t][1]] = (@ + 1) % ObjectProxyNum]
    /\ used' = [used EXCEPT ![t] = pSptd[t]]
    /\ UNCHANGED <<seqVars, key, nextKey, specific, pSptd>>

(* The thread ends and another begins: destructor() deletes the data, its  *)
(* number is not given back.                                               *)
ThreadEnds(t) ==
    /\ Do(t, "idle", "idle")
    /\ specific' = [specific EXCEPT ![t] = [k \in Keys |-> NoData]]
    /\ pSptd' = [pSptd EXCEPT ![t] = <<NoData, 0>>]
    /\ used' = [used EXCEPT ![t] = <<NoData, 0>>]
    /\ UNCHANGED <<seqVars, key, nextKey, netSeq>>

ThreadNext ==
    /\ ~exhausted
    /\ \E t \in Caller :
         \/ TestKey(t) \/ CreateKey(t) \/ FindData(t) \/ MakeData(t) \/ MakeDataFails(t)
         \/ SelectNetThreadInfo(t) \/ ThreadEnds(t)

ThreadSpec == ThreadInit /\ [][ThreadNext]_threadVars

-----------------------------------------------------------------------------
(* A thread keeps its number from call to call, although _key is tested    *)
(* without the mutex by threads whose first calls overlap; only data that  *)
(* was stored under key 0, which getData takes for no key, is made again.  *)
NumberKept ==
    [][\A t \in Caller :
         used'[t] # used[t] /\ doing[t] = "select" /\ used[t][1] # NoData
           => used[t][2] = 0]_threadVars
=============================================================================
