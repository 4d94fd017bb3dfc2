-------------------------- MODULE RpcClientProofs --------------------------
(***************************************************************************)
(* Proofs about the client for every number of calling threads, calls and  *)
(* AsyncProcThreads, every queue length and every behaviour of the network *)
(* and the server: no queue or table leads to a deleted ReqMessage, and a  *)
(* caller gets at most one answer, which is its own.                       *)
(***************************************************************************)
EXTENDS RpcClient, SequenceFacts

USE CallAssumption, KindAssumption, CapAssumption

-----------------------------------------------------------------------------
(* The variables that lead to messages.  Connections, their contents and   *)
(* the epoll can hold anything: finishInvoke looks every response up.      *)
ClientTypes ==
  /\ kind \in [Call -> {"none", "sync", "async"}]
  /\ alive \subseteq Call
  /\ response \in [Call -> Call \cup {None}]
  /\ fin \in [Call -> BOOLEAN]
  /\ result \in [Call -> Seq(Call \cup {None})]
  /\ pc \in [Thread -> {"idle", "notify", "check", "lock", "wait", "woken", "return"}]
  /\ msg \in [Thread -> Call \cup {None}]
  /\ reqQ \in [Thread -> Seq(Call)]
  /\ netPc = "pop" => event[1] \in Thread
  /\ data \subseteq Call
  /\ sendList \in Seq(Call)
  /\ asyncSeq \in Async
  /\ asyncQ \in [Async -> Seq(Call)]

(* A message on its way: it exists and nobody has had an answer from it.   *)
Unanswered(c) == c \in alive /\ kind[c] # "none" /\ ~fin[c] /\ result[c] = << >>

Finishing == {"lock", "fin", "async"}

(* A message on its way is in one place: the request queue of one thread,  *)
(* the table of pending requests, finishInvoke, or the queue of one        *)
(* AsyncProcThread, which gets the messages of callbacks only.             *)
InRequestQueue ==
  \A t \in Thread :
    /\ IsInjective(reqQ[t])
    /\ \A c \in ToSet(reqQ[t]) :
         /\ Unanswered(c) /\ c \notin data /\ c # netMsg
         /\ \A a \in Async : c \notin ToSet(asyncQ[a])
         /\ \A u \in Thread : c \in ToSet(reqQ[u]) => t = u

InTable ==
  \A c \in data : /\ Unanswered(c) /\ c # netMsg
                  /\ \A a \in Async : c \notin ToSet(asyncQ[a])

InFinish ==
  /\ netPc \in Finishing => /\ netMsg \in Call /\ Unanswered(netMsg)
                            /\ response[netMsg] = netMsg
                            /\ kind[netMsg] = IF netPc = "async" THEN "async" ELSE "sync"
                            /\ \A a \in Async : netMsg \notin ToSet(asyncQ[a])
  /\ netPc = "unlock" => netMsg \in Call /\ fin[netMsg]
  /\ netPc \notin Finishing \cup {"unlock"} => netMsg = None

InAsyncQueue ==
  \A a \in Async :
    /\ IsInjective(asyncQ[a])
    /\ \A c \in ToSet(asyncQ[a]) :
         /\ Unanswered(c) /\ kind[c] = "async" /\ response[c] = c
         /\ \A b \in Async : c \in ToSet(asyncQ[b]) => a = b

OnePlace == InRequestQueue /\ InTable /\ InFinish /\ InAsyncQueue

(* The send list holds pending requests, each once.                        *)
SendPending == ToSet(sendList) \subseteq data /\ IsInjective(sendList)

(* A thread in a synchronous call is the only one to have its message, has *)
(* had no answer, and leaves the monitor only when bMonitorFin is set.     *)
Callers ==
  /\ \A t \in Thread : pc[t] # "idle" => msg[t] \in Call /\ kind[msg[t]] # "none"
  /\ \A t \in Thread : pc[t] \notin {"idle", "notify"} => kind[msg[t]] = "sync"
  /\ \A t \in Thread : pc[t] # "idle" /\ kind[msg[t]] = "sync" => result[msg[t]] = << >>
  /\ \A t \in Thread : pc[t] \in {"woken", "return"} => fin[msg[t]]
  /\ \A t, u \in Thread : pc[t] # "idle" /\ pc[u] # "idle" /\ msg[t] = msg[u] => t = u

(* bMonitorFin is set behind the response, and answers are the call's own. *)
Answers ==
  /\ \A c \in Call : fin[c] => kind[c] = "sync" /\ response[c] = c
  /\ \A c \in Call : result[c] \in {<< >>, <<c>>}
  /\ \A c \in Call : kind[c] = "none" => ~fin[c] /\ result[c] = << >>

ClientInv == ClientTypes /\ OnePlace /\ SendPending /\ Callers /\ Answers

(* The constructors establish the invariant.                               *)
LEMMA ClientInvInit == Init => ClientInv
<1> SUFFICES ASSUME Init PROVE ClientInv
  OBVIOUS
<1>0. fin \in [Call -> BOOLEAN]
  BY Zenon DEF Init
<1>1. ClientTypes
  BY <1>0 DEF Init, ClientTypes, Async
<1>2. ToSet(<< >>) = {} /\ IsInjective(<< >>)
  BY DEF ToSet, IsInjective
<1>3. OnePlace /\ SendPending
  BY <1>2 DEF Init, OnePlace, InRequestQueue, InTable, InFinish, InAsyncQueue,
                  SendPending, Finishing
<1>4. Callers /\ Answers
  BY DEF Init, Callers, Answers
<1> QED BY <1>1, <1>3, <1>4 DEF ClientInv

(* Every step keeps the types.                                             *)
LEMMA TypesStep ==
  ClientTypes /\ OnePlace /\ SendPending /\ Callers /\ Answers /\ [Next]_vars => ClientTypes'
<1> SUFFICES ASSUME ClientTypes, OnePlace, SendPending, Callers, Answers, [Next]_vars
             PROVE  ClientTypes'
  OBVIOUS
<1> USE DEF msgVars, callVars, netVars, sockVars, objVars, asyncVars, others,
            callSide, clientSide, worldRest, ClientTypes
<1>1. ASSUME NEW t \in Thread, NEW c \in Call, NEW k \in Kind, Invoke(t, c, k)
      PROVE  ClientTypes'
  <2>1. reqQ' \in [Thread -> Seq(Call)]
    <3>1. reqQ' = reqQ \/ reqQ' = [reqQ EXCEPT ![t] = Append(@, c)]
      BY <1>1 DEF Invoke
    <3>2. Append(reqQ[t], c) \in Seq(Call)
      BY AppendFacts
    <3> QED BY <3>1, <3>2
  <2>2. alive' \subseteq Call /\ kind' \in [Call -> {"none", "sync", "async"}]
    BY <1>1 DEF Invoke
  <2> QED BY <1>1, <2>1, <2>2 DEF Invoke
<1>2. ASSUME NEW t \in Thread, Notify(t) PROVE ClientTypes'
  BY <1>2 DEF Notify
<1>3. ASSUME NEW t \in Thread, NullMessage(t) PROVE ClientTypes'
  BY <1>3 DEF NullMessage
<1>4. ASSUME NEW t \in Thread, Check(t) PROVE ClientTypes'
  BY <1>4 DEF Check
<1>5. ASSUME NEW t \in Thread, LockAndWait(t) PROVE ClientTypes'
  BY <1>5 DEF LockAndWait
<1>6. ASSUME NEW t \in Thread, Woken(t) PROVE ClientTypes'
  BY <1>6 DEF Woken
<1>7. ASSUME NEW t \in Thread, Return(t) PROVE ClientTypes'
  <2>1. msg[t] \in Call
    BY <1>7 DEF Return, Callers
  <2>2. Append(result[msg[t]], response[msg[t]]) \in Seq(Call \cup {None})
    BY <2>1, AppendFacts
  <2>3. result' \in [Call -> Seq(Call \cup {None})]
    BY <1>7, <2>1, <2>2 DEF Return
  <2> QED BY <1>7, <2>3 DEF Return
<1>8. CASE NetWait
  BY <1>8 DEF NetWait
<1>9. CASE NetEvent
  BY <1>9 DEF NetEvent
<1>10. CASE PopRequest
  <2> DEFINE t == event[1]
  <2>1. t \in Thread
    BY <1>10 DEF PopRequest
  <2>2. CASE reqQ[t] = << >>
    BY <1>10, <2>2 DEF PopRequest
  <2>3. CASE reqQ[t] # << >>
    <3> DEFINE c == Head(reqQ[t])
    <3>1. c \in Call /\ Tail(reqQ[t]) \in Seq(Call)
      BY <2>1, <2>3, TailFacts
    <3>2. reqQ' = [reqQ EXCEPT ![t] = Tail(@)] /\ ObjectInvoke(c)
      BY <1>10, <2>3 DEF PopRequest
    <3>3. reqQ' \in [Thread -> Seq(Call)]
      BY <2>1, <3>1, <3>2
    <3> HIDE DEF c
    <3>4. data' = data \cup {c}
          /\ (sendList' = sendList \/ sendList' = Append(sendList, c))
      BY <3>2 DEF ObjectInvoke
    <3>5. Append(sendList, c) \in Seq(Call)
      BY <3>1, AppendFacts
    <3>6. data' \subseteq Call /\ sendList' \in Seq(Call)
      BY <3>1, <3>4, <3>5
    <3> QED BY <1>10, <3>3, <3>6 DEF PopRequest
  <2> QED BY <2>2, <2>3
<1>11. CASE PopThrows
  <2>1. Tail(reqQ[event[1]]) \in Seq(Call)
    BY <1>11, TailFacts DEF PopThrows
  <2> QED BY <1>11, <2>1 DEF PopThrows
<1>12. CASE HandleInput
  <2> DEFINE c == Head(rx[fd])
  <2>1. netPc' # "pop"
    BY <1>12 DEF HandleInput, FinishInvoke, AfterInput
  <2>2. CASE c \in data
    <3>1. sendList' = RemoveFirst(sendList, c) /\ data' = data \ {c}
          /\ response' = [response EXCEPT ![c] = c]
      BY <1>12, <2>2 DEF HandleInput, FinishInvoke
    <3>2. sendList' \in Seq(Call)
      BY <3>1, RemoveFirstFacts DEF SendPending
    <3> QED BY <1>12, <2>1, <2>2, <3>1, <3>2 DEF HandleInput
  <2>3. CASE c \notin data
    BY <1>12, <2>1, <2>3 DEF HandleInput
  <2> QED BY <2>2, <2>3
<1>13. CASE HandleNoInput
  BY <1>13 DEF HandleNoInput, AfterInput
<1>14. CASE FinishLock
  BY <1>14 DEF FinishLock
<1>15. CASE FinishNotify
  BY <1>15 DEF FinishNotify
<1>16. CASE FinishUnlock
  BY <1>16 DEF FinishUnlock, AfterInput
<1>17. CASE PushAsyncThreadQueue
  <2>1. netMsg \in Call
    BY <1>17 DEF PushAsyncThreadQueue, OnePlace, InFinish, Finishing
  <2>2. Append(asyncQ[asyncSeq], netMsg) \in Seq(Call)
    BY <2>1, AppendFacts
  <2>3. asyncQ' = asyncQ \/ asyncQ' = [asyncQ EXCEPT ![asyncSeq] = Append(@, netMsg)]
    BY <1>17 DEF PushAsyncThreadQueue
  <2>4. asyncQ' \in [Async -> Seq(Call)]
    BY <2>2, <2>3
  <2>5. asyncSeq' \in Async
    BY <1>17 DEF PushAsyncThreadQueue, Async
  <2>6. alive' \subseteq Call /\ netPc' # "pop"
    BY <1>17 DEF PushAsyncThreadQueue, AfterInput
  <2> QED BY <1>17, <2>4, <2>5, <2>6 DEF PushAsyncThreadQueue
<1>18. CASE DoRequest
  BY <1>18 DEF DoRequest
<1>19. CASE DoInvoke
  BY <1>19 DEF DoInvoke
<1>20. ASSUME NEW a \in Async, AsyncPop(a) PROVE ClientTypes'
  <2> DEFINE c == Head(asyncQ[a])
  <2>1. c \in Call /\ Tail(asyncQ[a]) \in Seq(Call)
    BY <1>20, TailFacts DEF AsyncPop
  <2>2. Append(result[c], response[c]) \in Seq(Call \cup {None})
    BY <2>1, AppendFacts
  <2>3. /\ result' = [result EXCEPT ![c] = Append(@, response[c])]
        /\ alive' = alive \ {c} /\ asyncQ' = [asyncQ EXCEPT ![a] = Tail(@)]
    BY <1>20 DEF AsyncPop
  <2> HIDE DEF c
  <2>4. /\ result' \in [Call -> Seq(Call \cup {None})] /\ alive' \subseteq Call
        /\ asyncQ' \in [Async -> Seq(Call)]
    BY <2>1, <2>2, <2>3
  <2> QED BY <1>20, <2>4 DEF AsyncPop
<1>21. ASSUME NEW a \in Async, AsyncTest(a) PROVE ClientTypes'
  BY <1>21 DEF AsyncTest
<1>22. ASSUME NEW a \in Async, AsyncWait(a) PROVE ClientTypes'
  BY <1>22 DEF AsyncWait
<1>23. ASSUME NEW a \in Async, AsyncTimeout(a) PROVE ClientTypes'
  BY <1>23 DEF AsyncTimeout
<1>24. ASSUME NEW f \in Call, Connected(f) PROVE ClientTypes'
  BY <1>24 DEF Connected
<1>25. ASSUME NEW f \in Call, ServerReply(f) PROVE ClientTypes'
  BY <1>25 DEF ServerReply
<1>26. ASSUME NEW f \in Call, ServerClose(f) PROVE ClientTypes'
  BY <1>26 DEF ServerClose
<1>27. CASE UNCHANGED vars
  BY <1>27 DEF vars
<1> QED
  BY <1>1, <1>2, <1>3, <1>4, <1>5, <1>6, <1>7, <1>8, <1>9, <1>10, <1>11,
     <1>12, <1>13, <1>14, <1>15, <1>16, <1>17, <1>18, <1>19, <1>20, <1>21,
     <1>22, <1>23, <1>24, <1>25, <1>26, <1>27
     DEF Next, CallStep, NetStep, AsyncStep

(* Every answer given is the call's own, and its first.                    *)
LEMMA AnswersStep ==
  ClientTypes /\ OnePlace /\ Callers /\ Answers /\ [Next]_vars => Answers'
<1> SUFFICES ASSUME ClientTypes, OnePlace, Callers, Answers, [Next]_vars
             PROVE  Answers'
  OBVIOUS
<1> USE DEF msgVars, callVars, netVars, sockVars, objVars, asyncVars, others,
            callSide, clientSide, worldRest, ClientTypes, Answers
<1>1. ASSUME NEW t \in Thread, NEW c \in Call, NEW k \in Kind, Invoke(t, c, k)
      PROVE  Answers'
  BY <1>1 DEF Invoke
<1>2. ASSUME NEW t \in Thread, Notify(t) PROVE Answers'
  BY <1>2 DEF Notify
<1>3. ASSUME NEW t \in Thread, NullMessage(t) PROVE Answers'
  BY <1>3 DEF NullMessage
<1>4. ASSUME NEW t \in Thread, Check(t) PROVE Answers'
  BY <1>4 DEF Check
<1>5. ASSUME NEW t \in Thread, LockAndWait(t) PROVE Answers'
  BY <1>5 DEF LockAndWait
<1>6. ASSUME NEW t \in Thread, Woken(t) PROVE Answers'
  BY <1>6 DEF Woken
<1>7. ASSUME NEW t \in Thread, Return(t) PROVE Answers'
  <2> DEFINE c == msg[t]
  <2>1. c \in Call /\ result[c] = << >> /\ response[c] = c /\ kind[c] = "sync"
    BY <1>7 DEF Return, Callers
  <2>2. Append(result[c], response[c]) = <<c>>
    BY <2>1
  <2>3. result' = [result EXCEPT ![c] = <<c>>]
    BY <1>7, <2>2 DEF Return
  <2>4. UNCHANGED <<fin, kind, response>>
    BY <1>7 DEF Return
  <2> HIDE DEF c
  <2>5. \A d \in Call : result'[d] = IF d = c THEN <<c>> ELSE result[d]
    BY <2>1, <2>3
  <2> QED BY <2>1, <2>4, <2>5
<1>8. CASE NetWait
  BY <1>8 DEF NetWait
<1>9. CASE NetEvent
  BY <1>9 DEF NetEvent
<1>10. CASE PopRequest
  BY <1>10 DEF PopRequest
<1>11. CASE PopThrows
  BY <1>11 DEF PopThrows
<1>12. CASE HandleInput
  BY <1>12 DEF HandleInput, AfterInput, FinishInvoke, OnePlace, InTable, Unanswered
<1>13. CASE HandleNoInput
  BY <1>13 DEF HandleNoInput, AfterInput
<1>14. CASE FinishLock
  BY <1>14 DEF FinishLock
<1>15. CASE FinishNotify
  BY <1>15 DEF FinishNotify, OnePlace, InFinish, Finishing
<1>16. CASE FinishUnlock
  BY <1>16 DEF FinishUnlock
<1>17. CASE PushAsyncThreadQueue
  BY <1>17 DEF PushAsyncThreadQueue
<1>18. CASE DoRequest
  BY <1>18 DEF DoRequest
<1>19. CASE DoInvoke
  BY <1>19 DEF DoInvoke
<1>20. ASSUME NEW a \in Async, AsyncPop(a) PROVE Answers'
  <2> DEFINE c == Head(asyncQ[a])
  <2>1. c \in Call /\ c \in ToSet(asyncQ[a])
    BY <1>20, TailFacts DEF AsyncPop
  <2>2. result[c] = << >> /\ response[c] = c /\ kind[c] = "async"
    BY <2>1 DEF OnePlace, InAsyncQueue, Unanswered
  <2>3. Append(result[c], response[c]) = <<c>>
    BY <2>2
  <2>4. result' = [result EXCEPT ![c] = <<c>>]
    BY <1>20, <2>3 DEF AsyncPop
  <2>5. UNCHANGED <<fin, kind, response>>
    BY <1>20 DEF AsyncPop
  <2> HIDE DEF c
  <2>6. \A d \in Call : result'[d] = IF d = c THEN <<c>> ELSE result[d]
    BY <2>1, <2>4
  <2> QED BY <2>1, <2>2, <2>5, <2>6
<1>21. ASSUME NEW a \in Async, AsyncTest(a) PROVE Answers'
  BY <1>21 DEF AsyncTest
<1>22. ASSUME NEW a \in Async, AsyncWait(a) PROVE Answers'
  BY <1>22 DEF AsyncWait
<1>23. ASSUME NEW a \in Async, AsyncTimeout(a) PROVE Answers'
  BY <1>23 DEF AsyncTimeout
<1>24. ASSUME NEW f \in Call, Connected(f) PROVE Answers'
  BY <1>24 DEF Connected
<1>25. ASSUME NEW f \in Call, ServerReply(f) PROVE Answers'
  BY <1>25 DEF ServerReply
<1>26. ASSUME NEW f \in Call, ServerClose(f) PROVE Answers'
  BY <1>26 DEF ServerClose
<1>27. CASE UNCHANGED vars
  BY <1>27 DEF vars
<1> QED
  BY <1>1, <1>2, <1>3, <1>4, <1>5, <1>6, <1>7, <1>8, <1>9, <1>10, <1>11,
     <1>12, <1>13, <1>14, <1>15, <1>16, <1>17, <1>18, <1>19, <1>20, <1>21,
     <1>22, <1>23, <1>24, <1>25, <1>26, <1>27
     DEF Next, CallStep, NetStep, AsyncStep

(* Every step keeps what is known of the calling threads.                  *)
LEMMA CallersStep ==
  ClientTypes /\ OnePlace /\ Callers /\ Answers /\ [Next]_vars => Callers'
<1> SUFFICES ASSUME ClientTypes, OnePlace, Callers, Answers, [Next]_vars
             PROVE  Callers'
  OBVIOUS
<1> USE DEF msgVars, callVars, netVars, sockVars, objVars, asyncVars, others,
            callSide, clientSide, worldRest, ClientTypes, Callers
<1>1. ASSUME NEW t \in Thread, NEW c \in Call, NEW k \in Kind, Invoke(t, c, k)
      PROVE  Callers'
  <2>1. \A u \in Thread : pc[u] # "idle" => msg[u] # c
    BY <1>1 DEF Invoke
  <2>2. result[c] = << >>
    BY <1>1 DEF Invoke, Answers
  <2>3. k \in {"sync", "async"} /\ pc[t] = "idle"
    BY <1>1 DEF Invoke
  <2>4. /\ kind' = [kind EXCEPT ![c] = k]
        /\ pc' = [pc EXCEPT ![t] = "notify"]
        /\ msg' = [msg EXCEPT ![t] = c]
    BY <1>1 DEF Invoke
  <2>5. UNCHANGED <<fin, result>>
    BY <1>1 DEF Invoke
  <2>6. \A u \in Thread : pc'[u] # "idle" => msg'[u] \in Call /\ kind'[msg'[u]] # "none"
    BY <2>3, <2>4
  <2>7. \A u \in Thread : pc'[u] \notin {"idle", "notify"} => kind'[msg'[u]] = "sync"
    BY <2>1, <2>4
  <2>8. \A u \in Thread : pc'[u] # "idle" /\ kind'[msg'[u]] = "sync" =>
                         result'[msg'[u]] = << >>
    BY <2>1, <2>2, <2>4, <2>5
  <2>9. \A u \in Thread : pc'[u] \in {"woken", "return"} => fin'[msg'[u]]
    BY <2>1, <2>4, <2>5
  <2>10. \A u, v \in Thread : pc'[u] # "idle" /\ pc'[v] # "idle" /\ msg'[u] = msg'[v] => u = v
    BY <2>1, <2>4
  <2> QED BY <2>6, <2>7, <2>8, <2>9, <2>10
<1>2. ASSUME NEW t \in Thread, Notify(t) PROVE Callers'
  BY <1>2 DEF Notify
<1>3. ASSUME NEW t \in Thread, NullMessage(t) PROVE Callers'
  BY <1>3 DEF NullMessage
<1>4. ASSUME NEW t \in Thread, Check(t) PROVE Callers'
  BY <1>4 DEF Check
<1>5. ASSUME NEW t \in Thread, LockAndWait(t) PROVE Callers'
  BY <1>5 DEF LockAndWait
<1>6. ASSUME NEW t \in Thread, Woken(t) PROVE Callers'
  BY <1>6 DEF Woken
<1>7. ASSUME NEW t \in Thread, Return(t) PROVE Callers'
  BY <1>7 DEF Return
<1>8. CASE NetWait
  BY <1>8 DEF NetWait
<1>9. CASE NetEvent
  BY <1>9 DEF NetEvent
<1>10. CASE PopRequest
  BY <1>10 DEF PopRequest
<1>11. CASE PopThrows
  BY <1>11 DEF PopThrows
<1>12. CASE HandleInput
  BY <1>12 DEF HandleInput
<1>13. CASE HandleNoInput
  BY <1>13 DEF HandleNoInput
<1>14. CASE FinishLock
  BY <1>14 DEF FinishLock
<1>15. CASE FinishNotify
  BY <1>15 DEF FinishNotify
<1>16. CASE FinishUnlock
  BY <1>16 DEF FinishUnlock, OnePlace, InFinish
<1>17. CASE PushAsyncThreadQueue
  BY <1>17 DEF PushAsyncThreadQueue
<1>18. CASE DoRequest
  BY <1>18 DEF DoRequest
<1>19. CASE DoInvoke
  BY <1>19 DEF DoInvoke
<1>20. ASSUME NEW a \in Async, AsyncPop(a) PROVE Callers'
  <2> DEFINE c == Head(asyncQ[a])
  <2>1. c \in Call /\ c \in ToSet(asyncQ[a])
    BY <1>20, TailFacts DEF AsyncPop
  <2>2. kind[c] = "async"
    BY <2>1 DEF OnePlace, InAsyncQueue
  <2>3. \A d \in Call : d # c => result'[d] = result[d]
    BY <1>20, <2>1 DEF AsyncPop
  <2> HIDE DEF c
  <2> QED BY <1>20, <2>1, <2>2, <2>3 DEF AsyncPop
<1>21. ASSUME NEW a \in Async, AsyncTest(a) PROVE Callers'
  BY <1>21 DEF AsyncTest
<1>22. ASSUME NEW a \in Async, AsyncWait(a) PROVE Callers'
  BY <1>22 DEF AsyncWait
<1>23. ASSUME NEW a \in Async, AsyncTimeout(a) PROVE Callers'
  BY <1>23 DEF AsyncTimeout
<1>24. ASSUME NEW f \in Call, Connected(f) PROVE Callers'
  BY <1>24 DEF Connected
<1>25. ASSUME NEW f \in Call, ServerReply(f) PROVE Callers'
  BY <1>25 DEF ServerReply
<1>26. ASSUME NEW f \in Call, ServerClose(f) PROVE Callers'
  BY <1>26 DEF ServerClose
<1>27. CASE UNCHANGED vars
  BY <1>27 DEF vars
<1> QED
  BY <1>1, <1>2, <1>3, <1>4, <1>5, <1>6, <1>7, <1>8, <1>9, <1>10, <1>11,
     <1>12, <1>13, <1>14, <1>15, <1>16, <1>17, <1>18, <1>19, <1>20, <1>21,
     <1>22, <1>23, <1>24, <1>25, <1>26, <1>27
     DEF Next, CallStep, NetStep, AsyncStep

(* Every step keeps the send list within the table.                        *)
LEMMA SendStep ==
  ClientTypes /\ OnePlace /\ SendPending /\ [Next]_vars => SendPending'
<1> SUFFICES ASSUME ClientTypes, OnePlace, SendPending, [Next]_vars
             PROVE  SendPending'
  OBVIOUS
<1> USE DEF msgVars, callVars, netVars, sockVars, objVars, asyncVars, others,
            callSide, clientSide, worldRest, ClientTypes, SendPending
<1>1. ASSUME NEW t \in Thread, NEW c \in Call, NEW k \in Kind, Invoke(t, c, k)
      PROVE  SendPending'
  BY <1>1 DEF Invoke
<1>2. ASSUME NEW t \in Thread, Notify(t) PROVE SendPending'
  BY <1>2 DEF Notify
<1>3. ASSUME NEW t \in Thread, NullMessage(t) PROVE SendPending'
  BY <1>3 DEF NullMessage
<1>4. ASSUME NEW t \in Thread, Check(t) PROVE SendPending'
  BY <1>4 DEF Check
<1>5. ASSUME NEW t \in Thread, LockAndWait(t) PROVE SendPending'
  BY <1>5 DEF LockAndWait
<1>6. ASSUME NEW t \in Thread, Woken(t) PROVE SendPending'
  BY <1>6 DEF Woken
<1>7. ASSUME NEW t \in Thread, Return(t) PROVE SendPending'
  BY <1>7 DEF Return
<1>8. CASE NetWait
  BY <1>8 DEF NetWait
<1>9. CASE NetEvent
  BY <1>9 DEF NetEvent
<1>10. CASE PopRequest
  <2> DEFINE t == event[1]
             c == Head(reqQ[t])
  <2>1. CASE reqQ[t] = << >>
    BY <1>10, <2>1 DEF PopRequest
  <2>2. CASE reqQ[t] # << >>
    <3>1. t \in Thread
      BY <1>10 DEF PopRequest
    <3>2. c \in Call /\ c \in ToSet(reqQ[t])
      BY <2>2, <3>1, TailFacts
    <3>3. c \notin data
      BY <3>1, <3>2 DEF OnePlace, InRequestQueue
    <3>4. ObjectInvoke(c)
      BY <1>10, <2>2 DEF PopRequest
    <3> HIDE DEF c
    <3>5. data' = data \cup {c}
          /\ (sendList' = sendList \/ sendList' = Append(sendList, c))
      BY <3>4 DEF ObjectInvoke
    <3>6. /\ ToSet(Append(sendList, c)) = ToSet(sendList) \cup {c}
          /\ c \notin ToSet(sendList) => IsInjective(Append(sendList, c))
      BY <3>2, AppendFacts
    <3> QED BY <3>3, <3>5, <3>6
  <2> QED BY <2>1, <2>2
<1>11. CASE PopThrows
  BY <1>11 DEF PopThrows
<1>12. CASE HandleInput
  <2> DEFINE c == Head(rx[fd])
  <2>1. CASE c \in data
    <3>1. data' = data \ {c} /\ sendList' = RemoveFirst(sendList, c)
      BY <1>12, <2>1 DEF HandleInput, FinishInvoke
    <3>2. /\ ToSet(RemoveFirst(sendList, c)) = ToSet(sendList) \ {c}
          /\ IsInjective(RemoveFirst(sendList, c))
      BY RemoveFirstFacts
    <3> QED BY <3>1, <3>2
  <2>2. CASE c \notin data
    BY <1>12, <2>2 DEF HandleInput
  <2> QED BY <2>1, <2>2
<1>13. CASE HandleNoInput
  BY <1>13 DEF HandleNoInput
<1>14. CASE FinishLock
  BY <1>14 DEF FinishLock
<1>15. CASE FinishNotify
  BY <1>15 DEF FinishNotify
<1>16. CASE FinishUnlock
  BY <1>16 DEF FinishUnlock
<1>17. CASE PushAsyncThreadQueue
  BY <1>17 DEF PushAsyncThreadQueue
<1>18. CASE DoRequest
  BY <1>18 DEF DoRequest
<1>19. CASE DoInvoke
  BY <1>19 DEF DoInvoke
<1>20. ASSUME NEW a \in Async, AsyncPop(a) PROVE SendPending'
  BY <1>20 DEF AsyncPop
<1>21. ASSUME NEW a \in Async, AsyncTest(a) PROVE SendPending'
  BY <1>21 DEF AsyncTest
<1>22. ASSUME NEW a \in Async, AsyncWait(a) PROVE SendPending'
  BY <1>22 DEF AsyncWait
<1>23. ASSUME NEW a \in Async, AsyncTimeout(a) PROVE SendPending'
  BY <1>23 DEF AsyncTimeout
<1>24. ASSUME NEW f \in Call, Connected(f) PROVE SendPending'
  BY <1>24 DEF Connected
<1>25. ASSUME NEW f \in Call, ServerReply(f) PROVE SendPending'
  BY <1>25 DEF ServerReply
<1>26. ASSUME NEW f \in Call, ServerClose(f) PROVE SendPending'
  BY <1>26 DEF ServerClose
<1>27. CASE UNCHANGED vars
  BY <1>27 DEF vars
<1> QED
  BY <1>1, <1>2, <1>3, <1>4, <1>5, <1>6, <1>7, <1>8, <1>9, <1>10, <1>11,
     <1>12, <1>13, <1>14, <1>15, <1>16, <1>17, <1>18, <1>19, <1>20, <1>21,
     <1>22, <1>23, <1>24, <1>25, <1>26, <1>27
     DEF Next, CallStep, NetStep, AsyncStep

(* Every step keeps each message in one place.                             *)
LEMMA OnePlaceStep ==
  ClientTypes /\ OnePlace /\ Callers /\ Answers /\ [Next]_vars => OnePlace'
<1> SUFFICES ASSUME ClientTypes, OnePlace, Callers, Answers, [Next]_vars
             PROVE  OnePlace'
  OBVIOUS
<1> USE DEF msgVars, callVars, netVars, sockVars, objVars, asyncVars, others,
            callSide, clientSide, worldRest, ClientTypes, OnePlace,
            InRequestQueue, InTable, InFinish, InAsyncQueue, Unanswered,
            Finishing
<1>1. ASSUME NEW t \in Thread, NEW c \in Call, NEW k \in Kind, Invoke(t, c, k)
      PROVE  OnePlace'
  <2>1. /\ \A u \in Thread : c \notin ToSet(reqQ[u])
        /\ c \notin data /\ \A a \in Async : c \notin ToSet(asyncQ[a])
        /\ netPc \in Finishing => netMsg # c
    BY <1>1 DEF Invoke
  <2>2. netMsg # c
    BY <1>1, <2>1 DEF Invoke, Answers
  <2>3. ~fin[c] /\ result[c] = << >> /\ k # "none"
    BY <1>1 DEF Invoke, Answers
  <2>4. \A d \in Call : d # c /\ Unanswered(d) => Unanswered(d)'
    BY <1>1 DEF Invoke
  <2>5. \A d \in Call : d # c => kind'[d] = kind[d]
    BY <1>1 DEF Invoke
  <2>6. UNCHANGED <<data, asyncQ, netPc, netMsg, fin, response>>
    BY <1>1 DEF Invoke
  <2>7. \A u \in Thread : u # t => reqQ'[u] = reqQ[u]
    BY <1>1 DEF Invoke
  <2>8. \/ reqQ'[t] = reqQ[t]
        \/ reqQ'[t] = Append(reqQ[t], c) /\ Unanswered(c)'
    BY <1>1, <2>3 DEF Invoke
  <2>9. /\ ToSet(Append(reqQ[t], c)) = ToSet(reqQ[t]) \cup {c}
        /\ IsInjective(Append(reqQ[t], c))
    BY <2>1, AppendFacts
  <2> HIDE DEF Unanswered
  <2>10. \A u \in Thread :
           /\ IsInjective(reqQ'[u])
           /\ \A d \in ToSet(reqQ'[u]) : \/ d \in ToSet(reqQ[u]) /\ d # c
                                         \/ u = t /\ d = c /\ Unanswered(c)'
    <3>1. CASE reqQ'[t] = reqQ[t]
      BY <2>1, <2>7, <3>1
    <3>2. CASE reqQ'[t] = Append(reqQ[t], c) /\ Unanswered(c)'
      <4>1. ToSet(reqQ'[t]) = ToSet(reqQ[t]) \cup {c} /\ IsInjective(reqQ'[t])
        BY <2>9, <3>2
      <4>2. \A u \in Thread : u # t => reqQ'[u] = reqQ[u] /\ IsInjective(reqQ[u])
        BY <2>7
      <4>3. \A u \in Thread : IsInjective(reqQ'[u])
        BY <4>1, <4>2
      <4>4. ASSUME NEW u \in Thread, NEW d \in ToSet(reqQ'[u])
            PROVE  \/ d \in ToSet(reqQ[u]) /\ d # c
                   \/ u = t /\ d = c
        BY <2>1, <4>1, <4>2
      <4> QED BY <3>2, <4>3, <4>4
    <3> QED BY <2>8, <3>1, <3>2
  <2>11. \A u \in Thread : ToSet(reqQ[u]) \subseteq Call
    BY ToSetType
  <2>12. \A a \in Async : ToSet(asyncQ[a]) \subseteq Call
    BY ToSetType
  <2>13. InRequestQueue'
    <3> SUFFICES ASSUME NEW u \in Thread, NEW d \in ToSet(reqQ'[u])
                 PROVE  /\ Unanswered(d)' /\ d \notin data /\ d # netMsg
                        /\ \A a \in Async : d \notin ToSet(asyncQ[a])
                        /\ \A v \in Thread : d \in ToSet(reqQ'[v]) => u = v
      BY <2>6, <2>10
    <3>1. CASE d = c
      BY <2>1, <2>2, <2>10, <3>1
    <3>2. CASE d # c
      <4>1. d \in ToSet(reqQ[u]) /\ d \in Call
        BY <2>10, <2>11, <3>2
      <4>2. \A v \in Thread : d \in ToSet(reqQ'[v]) => d \in ToSet(reqQ[v])
        BY <2>10, <3>2
      <4> QED BY <2>4, <3>2, <4>1, <4>2
    <3> QED BY <3>1, <3>2
  <2>14. InTable'
    BY <2>1, <2>4, <2>6
  <2>15. InFinish'
    BY <2>1, <2>4, <2>5, <2>6
  <2>16. InAsyncQueue'
    BY <2>1, <2>4, <2>5, <2>6, <2>12
  <2> QED BY <2>13, <2>14, <2>15, <2>16
<1>2. ASSUME NEW t \in Thread, Notify(t) PROVE OnePlace'
  BY <1>2 DEF Notify
<1>3. ASSUME NEW t \in Thread, NullMessage(t) PROVE OnePlace'
  BY <1>3 DEF NullMessage
<1>4. ASSUME NEW t \in Thread, Check(t) PROVE OnePlace'
  BY <1>4 DEF Check
<1>5. ASSUME NEW t \in Thread, LockAndWait(t) PROVE OnePlace'
  BY <1>5 DEF LockAndWait
<1>6. ASSUME NEW t \in Thread, Woken(t) PROVE OnePlace'
  BY <1>6 DEF Woken
<1>7. ASSUME NEW t \in Thread, Return(t) PROVE OnePlace'
  <2> DEFINE c == msg[t]
  <2>1. c \in Call /\ fin[c]
    BY <1>7 DEF Return, Callers
  <2>2. UNCHANGED <<kind, response, fin, reqQ, data, netPc, netMsg, asyncQ>>
    BY <1>7 DEF Return
  <2>3. \A d \in Call : Unanswered(d) => Unanswered(d)'
    BY <1>7, <2>1, <2>2 DEF Return
  <2>4. /\ \A u \in Thread : ToSet(reqQ[u]) \subseteq Call
        /\ \A a \in Async : ToSet(asyncQ[a]) \subseteq Call
    BY ToSetType
  <2> HIDE DEF Unanswered, c
  <2>5. InRequestQueue'
    BY <2>2, <2>3, <2>4
  <2>6. InTable'
    BY <2>2, <2>3, <2>4
  <2>7. InFinish'
    BY <2>2, <2>3, <2>4
  <2>8. InAsyncQueue'
    BY <2>2, <2>3, <2>4
  <2> QED BY <2>5, <2>6, <2>7, <2>8
<1>8. CASE NetWait
  BY <1>8 DEF NetWait
<1>9. CASE NetEvent
  BY <1>9 DEF NetEvent
<1>10. CASE PopRequest
  <2> DEFINE t == event[1]
             c == Head(reqQ[t])
  <2>0. CASE reqQ[t] = << >>
    BY <1>10, <2>0 DEF PopRequest
  <2>1. CASE reqQ[t] # << >>
    <3>1. t \in Thread
      BY <1>10 DEF PopRequest
    <3>2. /\ c \in Call /\ c \in ToSet(reqQ[t])
          /\ c \notin ToSet(Tail(reqQ[t])) /\ IsInjective(Tail(reqQ[t]))
          /\ ToSet(reqQ[t]) = ToSet(Tail(reqQ[t])) \cup {c}
      BY <2>1, <3>1, TailFacts
    <3>3. /\ Unanswered(c) /\ c \notin data /\ c # netMsg
          /\ \A a \in Async : c \notin ToSet(asyncQ[a])
          /\ \A u \in Thread : c \in ToSet(reqQ[u]) => u = t
      BY <3>1, <3>2
    <3>4. reqQ' = [reqQ EXCEPT ![t] = Tail(@)]
      BY <1>10, <2>1 DEF PopRequest
    <3>5. data' = data \cup {c} /\ netPc' = netPc
      BY <1>10, <2>1 DEF PopRequest, ObjectInvoke
    <3>6. UNCHANGED <<kind, alive, response, fin, result, netMsg, asyncQ>>
      BY <1>10 DEF PopRequest
    <3>7. \A d : Unanswered(d) => Unanswered(d)'
      BY <3>6
    <3> HIDE DEF c, t, Unanswered
    <3>8. \A u \in Thread : IsInjective(reqQ'[u]) /\ ToSet(reqQ'[u]) = ToSet(reqQ[u]) \ {c}
      BY <3>1, <3>2, <3>3, <3>4
    <3>9. InRequestQueue'
      <4> SUFFICES ASSUME NEW u \in Thread, NEW d \in ToSet(reqQ'[u])
                   PROVE  /\ Unanswered(d)' /\ d \notin data' /\ d # netMsg
                          /\ \A a \in Async : d \notin ToSet(asyncQ[a])
                          /\ \A v \in Thread : d \in ToSet(reqQ'[v]) => u = v
        BY <3>6, <3>8
      <4>1. d \in ToSet(reqQ[u]) /\ d # c
        BY <3>8
      <4>2. \A v \in Thread : d \in ToSet(reqQ'[v]) => d \in ToSet(reqQ[v])
        BY <3>8
      <4> QED BY <3>5, <3>7, <4>1, <4>2
    <3>10. InTable'
      BY <3>3, <3>5, <3>6, <3>7
    <3>11. InFinish'
      BY <3>5, <3>6, <3>7
    <3>12. InAsyncQueue'
      BY <3>5, <3>6, <3>7
    <3> QED BY <3>9, <3>10, <3>11, <3>12
  <2> QED BY <2>0, <2>1
<1>11. CASE PopThrows
  <2> DEFINE t == event[1]
             c == Head(reqQ[t])
  <2>0. reqQ[t] # << >>
    BY <1>11 DEF PopThrows
  <2>1. t \in Thread
    BY <1>11 DEF PopThrows
  <2>2. /\ c \in Call /\ c \in ToSet(reqQ[t])
        /\ c \notin ToSet(Tail(reqQ[t])) /\ IsInjective(Tail(reqQ[t]))
        /\ ToSet(reqQ[t]) = ToSet(Tail(reqQ[t])) \cup {c}
    BY <2>0, <2>1, TailFacts
  <2>3. /\ Unanswered(c) /\ c \notin data /\ c # netMsg
        /\ \A a \in Async : c \notin ToSet(asyncQ[a])
        /\ \A u \in Thread : c \in ToSet(reqQ[u]) => u = t
    BY <2>1, <2>2
  <2>4. reqQ' = [reqQ EXCEPT ![t] = Tail(@)]
    BY <1>11 DEF PopThrows
  <2>5. data' = data /\ netPc = "pop" /\ netPc' = "run"
    BY <1>11 DEF PopThrows
  <2>6. UNCHANGED <<kind, alive, response, fin, result, netMsg, asyncQ>>
    BY <1>11 DEF PopThrows
  <2>7. \A d : Unanswered(d) => Unanswered(d)'
    BY <2>6
  <2> HIDE DEF c, t, Unanswered
  <2>8. \A u \in Thread : IsInjective(reqQ'[u]) /\ ToSet(reqQ'[u]) = ToSet(reqQ[u]) \ {c}
    BY <2>1, <2>2, <2>3, <2>4
  <2>9. InRequestQueue'
    <3> SUFFICES ASSUME NEW u \in Thread, NEW d \in ToSet(reqQ'[u])
                 PROVE  /\ Unanswered(d)' /\ d \notin data' /\ d # netMsg
                        /\ \A a \in Async : d \notin ToSet(asyncQ[a])
                        /\ \A v \in Thread : d \in ToSet(reqQ'[v]) => u = v
      BY <2>6, <2>8
    <3>1. d \in ToSet(reqQ[u]) /\ d # c
      BY <2>8
    <3>2. \A v \in Thread : d \in ToSet(reqQ'[v]) => d \in ToSet(reqQ[v])
      BY <2>8
    <3> QED BY <2>5, <2>7, <3>1, <3>2
  <2>10. InTable'
    BY <2>3, <2>5, <2>6, <2>7
  <2>11. InFinish'
    BY <2>5, <2>6, <2>7
  <2>12. InAsyncQueue'
    BY <2>5, <2>6, <2>7
  <2> QED BY <2>9, <2>10, <2>11, <2>12
<1>12. CASE HandleInput
  <2> DEFINE c == Head(rx[fd])
  <2>1. netPc = "in" /\ netMsg = None
    BY <1>12 DEF HandleInput
  <2>2. UNCHANGED <<kind, alive, fin, result, reqQ, asyncQ>>
    BY <1>12 DEF HandleInput
  <2>3. \A d : Unanswered(d) => Unanswered(d)'
    BY <2>2
  <2>4. CASE c \in data
    <3>1. /\ data' = data \ {c} /\ netMsg' = c
          /\ response' = [response EXCEPT ![c] = c]
          /\ netPc' = IF kind[c] = "sync" THEN "lock" ELSE "async"
      BY <1>12, <2>4 DEF HandleInput, FinishInvoke
    <3>2. /\ c \in Call /\ Unanswered(c) /\ kind[c] \in {"sync", "async"}
          /\ \A a \in Async : c \notin ToSet(asyncQ[a])
          /\ \A u \in Thread : c \notin ToSet(reqQ[u])
      BY <2>4
    <3>3. response'[c] = c /\ \A d \in Call : d # c => response'[d] = response[d]
      BY <3>1, <3>2
    <3>4. \A a \in Async : ToSet(asyncQ[a]) \subseteq Call
      BY ToSetType
    <3> HIDE DEF c, Unanswered
    <3>5. InRequestQueue'
      BY <2>2, <2>3, <3>1, <3>2
    <3>6. InTable'
      BY <2>2, <2>3, <3>1
    <3>7. InFinish'
      BY <2>2, <2>3, <3>1, <3>2, <3>3
    <3>8. InAsyncQueue'
      BY <2>2, <2>3, <3>2, <3>3, <3>4
    <3> QED BY <3>5, <3>6, <3>7, <3>8
  <2>5. CASE c \notin data
    BY <1>12, <2>1, <2>5 DEF HandleInput, AfterInput
  <2> QED BY <2>4, <2>5
<1>13. CASE HandleNoInput
  BY <1>13 DEF HandleNoInput, AfterInput
<1>14. CASE FinishLock
  BY <1>14 DEF FinishLock
<1>15. CASE FinishNotify
  BY <1>15 DEF FinishNotify
<1>16. CASE FinishUnlock
  BY <1>16 DEF FinishUnlock, AfterInput
<1>17. CASE PushAsyncThreadQueue
  <2>0. PICK m \in Call : m = netMsg
    BY <1>17 DEF PushAsyncThreadQueue
  <2>1. /\ Unanswered(m) /\ response[m] = m /\ kind[m] = "async"
        /\ \A b \in Async : m \notin ToSet(asyncQ[b])
        /\ \A u \in Thread : m \notin ToSet(reqQ[u])
        /\ m \notin data
    BY <1>17, <2>0 DEF PushAsyncThreadQueue
  <2>2. UNCHANGED <<kind, response, fin, result, reqQ, data>>
    BY <1>17 DEF PushAsyncThreadQueue
  <2>3. netMsg' = None /\ netPc' \notin Finishing \cup {"unlock"}
    BY <1>17 DEF PushAsyncThreadQueue, AfterInput
  <2>4. \A d : d # m /\ Unanswered(d) => Unanswered(d)'
    BY <1>17, <2>0, <2>2 DEF PushAsyncThreadQueue
  <2>5. \/ asyncQ' = asyncQ
        \/ asyncQ' = [asyncQ EXCEPT ![asyncSeq] = Append(@, m)] /\ Unanswered(m)'
    BY <1>17, <2>0, <2>1, <2>2 DEF PushAsyncThreadQueue
  <2>6. /\ IsInjective(Append(asyncQ[asyncSeq], m))
        /\ ToSet(Append(asyncQ[asyncSeq], m)) = ToSet(asyncQ[asyncSeq]) \cup {m}
    BY <2>1, AppendFacts
  <2> HIDE DEF Unanswered
  <2>7. \A b \in Async :
          /\ IsInjective(asyncQ'[b])
          /\ \A d \in ToSet(asyncQ'[b]) : \/ d \in ToSet(asyncQ[b]) /\ d # m
                                          \/ b = asyncSeq /\ d = m /\ Unanswered(m)'
    <3>1. CASE asyncQ' = asyncQ
      BY <2>1, <3>1
    <3>2. CASE asyncQ' = [asyncQ EXCEPT ![asyncSeq] = Append(@, m)] /\ Unanswered(m)'
      BY <2>1, <2>6, <3>2
    <3> QED BY <2>5, <3>1, <3>2
  <2>8. m # None /\ \A u \in Thread : None \notin ToSet(reqQ[u])
    BY <2>1, ToSetType
  <2>9. InRequestQueue'
    BY <2>1, <2>2, <2>3, <2>4, <2>7, <2>8
  <2>10. InTable'
    BY <2>1, <2>2, <2>3, <2>4, <2>7
  <2>11. InFinish'
    BY <2>3
  <2>12. InAsyncQueue'
    <3> SUFFICES ASSUME NEW b \in Async, NEW d \in ToSet(asyncQ'[b])
                 PROVE  /\ Unanswered(d)' /\ kind[d] = "async" /\ response[d] = d
                        /\ \A e \in Async : d \in ToSet(asyncQ'[e]) => b = e
      BY <2>2, <2>7
    <3>1. CASE d = m
      BY <2>1, <2>7, <3>1
    <3>2. CASE d # m
      <4>1. d \in ToSet(asyncQ[b])
        BY <2>7, <3>2
      <4>2. \A e \in Async : d \in ToSet(asyncQ'[e]) => d \in ToSet(asyncQ[e])
        BY <2>7, <3>2
      <4> QED BY <2>4, <3>2, <4>1, <4>2
    <3> QED BY <3>1, <3>2
  <2> QED BY <2>9, <2>10, <2>11, <2>12
<1>18. CASE DoRequest
  BY <1>18 DEF DoRequest
<1>19. CASE DoInvoke
  BY <1>19 DEF DoInvoke
<1>20. ASSUME NEW a \in Async, AsyncPop(a) PROVE OnePlace'
  <2> DEFINE c == Head(asyncQ[a])
  <2>1. /\ c \in Call /\ c \in ToSet(asyncQ[a])
        /\ c \notin ToSet(Tail(asyncQ[a])) /\ IsInjective(Tail(asyncQ[a]))
        /\ ToSet(asyncQ[a]) = ToSet(Tail(asyncQ[a])) \cup {c}
    BY <1>20, TailFacts DEF AsyncPop
  <2>2. /\ \A u \in Thread : c \notin ToSet(reqQ[u])
        /\ c \notin data /\ (netPc \in Finishing => netMsg # c)
        /\ \A b \in Async : c \in ToSet(asyncQ[b]) => a = b
    BY <2>1
  <2>3. UNCHANGED <<kind, response, fin, reqQ, data, netPc, netMsg>>
    BY <1>20 DEF AsyncPop
  <2>4. asyncQ' = [asyncQ EXCEPT ![a] = Tail(@)]
    BY <1>20 DEF AsyncPop
  <2>5. /\ alive' = alive \ {c}
        /\ \A d \in Call : d # c => result'[d] = result[d]
    BY <1>20, <2>1 DEF AsyncPop
  <2>6. \A d \in Call : d # c /\ Unanswered(d) => Unanswered(d)'
    BY <2>3, <2>5
  <2> HIDE DEF c, Unanswered
  <2>7. \A b \in Async : IsInjective(asyncQ'[b]) /\ ToSet(asyncQ'[b]) = ToSet(asyncQ[b]) \ {c}
    BY <2>1, <2>2, <2>4
  <2>8. /\ \A u \in Thread : ToSet(reqQ[u]) \subseteq Call
        /\ \A b \in Async : ToSet(asyncQ[b]) \subseteq Call
    BY ToSetType
  <2>9. InRequestQueue'
    BY <2>2, <2>3, <2>6, <2>7, <2>8
  <2>10. InTable'
    BY <2>2, <2>3, <2>6, <2>7
  <2>11. InFinish'
    BY <2>2, <2>3, <2>6, <2>7
  <2>12. InAsyncQueue'
    BY <2>3, <2>6, <2>7, <2>8
  <2> QED BY <2>9, <2>10, <2>11, <2>12
<1>21. ASSUME NEW a \in Async, AsyncTest(a) PROVE OnePlace'
  BY <1>21 DEF AsyncTest
<1>22. ASSUME NEW a \in Async, AsyncWait(a) PROVE OnePlace'
  BY <1>22 DEF AsyncWait
<1>23. ASSUME NEW a \in Async, AsyncTimeout(a) PROVE OnePlace'
  BY <1>23 DEF AsyncTimeout
<1>24. ASSUME NEW f \in Call, Connected(f) PROVE OnePlace'
  BY <1>24 DEF Connected
<1>25. ASSUME NEW f \in Call, ServerReply(f) PROVE OnePlace'
  BY <1>25 DEF ServerReply
<1>26. ASSUME NEW f \in Call, ServerClose(f) PROVE OnePlace'
  BY <1>26 DEF ServerClose
<1>27. CASE UNCHANGED vars
  BY <1>27 DEF vars
<1> QED
  BY <1>1, <1>2, <1>3, <1>4, <1>5, <1>6, <1>7, <1>8, <1>9, <1>10, <1>11,
     <1>12, <1>13, <1>14, <1>15, <1>16, <1>17, <1>18, <1>19, <1>20, <1>21,
     <1>22, <1>23, <1>24, <1>25, <1>26, <1>27
     DEF Next, CallStep, NetStep, AsyncStep

(* The invariant holds in every reachable state.                           *)
LEMMA ClientInvariant == Spec => []ClientInv
<1>1. ClientInv /\ [Next]_vars => ClientInv'
  BY TypesStep, OnePlaceStep, SendStep, CallersStep, AnswersStep DEF ClientInv
<1> QED BY ClientInvInit, <1>1, PTL DEF Spec

-----------------------------------------------------------------------------
(* No request queue, pending table, finishInvoke or callback queue leads to*)
(* a deleted ReqMessage, and getSend finds every queued request pending,   *)
(* whatever the threads, the network and the server do.                    *)
THEOREM MessagesOutliveTheirUses == Spec => []NoDanglingMessage
<1>1. ClientInv => NoDanglingMessage
  BY DEF ClientInv, OnePlace, InRequestQueue, InTable, InFinish, InAsyncQueue,
         SendPending, Unanswered, Finishing, NoDanglingMessage
<1> QED BY ClientInvariant, <1>1, PTL

(* A caller or callback gets at most one answer, the one to its own call,  *)
(* although responses of many calls come back over changing connections.   *)
THEOREM AnswersAreOwn == Spec => []OwnAnswer
<1>1. ClientInv => OwnAnswer
  BY DEF ClientInv, Answers, OwnAnswer
<1> QED BY ClientInvariant, <1>1, PTL
============================================================================
