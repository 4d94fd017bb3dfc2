----------------------------- MODULE RpcClient -----------------------------
(***************************************************************************)
(* The client side: threads that call a ServantProxy, synchronously or     *)
(* with a callback, one CommunicatorEpoll net thread with the ObjectProxy, *)
(* the TC_TimeoutQueueNew and the Transceiver it owns, and the             *)
(* AsyncProcThreads that run callbacks (servant/libservant).               *)
(*                                                                         *)
(* A call is identified with its ReqMessage, with its request and with the *)
(* response to it.  ObjectProxy::invoke opens a new connection for every   *)
(* call, so a call also names the connection opened for it.                *)
(***************************************************************************)
EXTENDS Integers, Sequences, FiniteSets, SequencesExt

CONSTANTS
  Thread,      \* the calling threads
  Call,        \* bound: the calls made
  Kind,        \* the kinds of calls they make, among "sync" and "async"
  QueueSize,   \* capacity of a ReqInfoQueue (1000)
  AsyncNum,    \* number of AsyncProcThreads (3)
  AsyncCap,    \* capacity of the queue of one (10000)
  SockCap,     \* bound: requests or responses a connection can hold
  Partial,     \* whether the kernel may take part of a request
  Unreliable,  \* whether connections may be refused, or closed by the server
  None

ASSUME CallAssumption == Call \cap Thread = {} /\ None \notin Call \cup Thread
ASSUME KindAssumption == Kind \subseteq {"sync", "async"}
ASSUME CapAssumption == /\ QueueSize \in Nat \ {0} /\ AsyncNum \in Nat \ {0}
                        /\ AsyncCap \in Nat \ {0} /\ SockCap \in Nat \ {0}
                        /\ Partial \in BOOLEAN /\ Unreliable \in BOOLEAN

Async == 0 .. AsyncNum - 1

VARIABLES
  kind,      \* ReqMessage::eType, "none" before the call
  alive,     \* the ReqMessages that exist
  response,  \* ReqMessage::response
  fin,       \* ReqMessage::bMonitorFin
  locked,    \* the messages whose monitor the net thread has locked
  result,    \* responses given to the caller, by return or by callback
  pc,        \* where the calling thread is
  msg,       \* the message of its call
  reqQ,      \* its ReqInfoQueue
  ready,     \* sources with an edge the epoll has not reported
  batch,     \* events reported and not handled: <<source, EPOLLIN, EPOLLOUT>>
  netPc,     \* where the net thread is
  event,     \* the event it handles
  netMsg,    \* the message it is finishing
  fd,        \* Transceiver::_fd
  sendBuf,   \* _sendBuffer: << >>, or the call and the connection that has
             \* its first bytes
  conn,      \* state of each connection
  srv,       \* requests on their way to the server
  rx,        \* responses the kernel holds for the client
  data,      \* _timeoutQueue->_data
  sendList,  \* _timeoutQueue->_send, oldest first
  asyncSeq,  \* CommunicatorEpoll::_asyncSeq
  asyncQ,    \* AsyncProcThread::_msgQueue
  asyncPc,   \* where the AsyncProcThread is
  crashed    \* the process has died

msgVars  == <<kind, alive, response, fin, locked, result>>
callVars == <<pc, msg>>
netVars  == <<batch, netPc, event, netMsg>>
sockVars == <<conn, srv, rx>>
objVars  == <<fd, sendBuf, data, sendList>>
asyncVars == <<asyncSeq, asyncQ, asyncPc>>
vars == <<msgVars, callVars, reqQ, ready, netVars, sockVars, objVars, asyncVars, crashed>>

Init ==
  /\ kind = [c \in Call |-> "none"]
  /\ alive = {}
  /\ response = [c \in Call |-> None]
  /\ fin = [c \in Call |-> FALSE]
  /\ locked = {}
  /\ result = [c \in Call |-> << >>]
  /\ pc = [t \in Thread |-> "idle"]
  /\ msg = [t \in Thread |-> None]
  /\ reqQ = [t \in Thread |-> << >>]
  /\ ready = {}
  /\ batch = {}
  /\ netPc = "wait"
  /\ event = <<None, FALSE, FALSE>>
  /\ netMsg = None
  /\ fd = None
  /\ sendBuf = << >>
  /\ conn = [c \in Call |-> "none"]
  /\ srv = [c \in Call |-> << >>]
  /\ rx = [c \in Call |-> << >>]
  /\ data = {}
  /\ sendList = << >>
  /\ asyncSeq = 0
  /\ asyncQ = [a \in Async |-> << >>]
  /\ asyncPc = [a \in Async |-> "test"]
  /\ crashed = FALSE
-----------------------------------------------------------------------------
(***************************************************************************)
(* A calling thread.                                                       *)
(***************************************************************************)
others == <<netVars, sockVars, objVars, asyncVars>>

(* tars_invoke and tars_invoke_async up to push_back; a message that finds *)
(* the queue full is deleted.                                              *)
Invoke(t, c, k) ==
  /\ pc[t] = "idle"
  /\ kind[c] = "none"
  /\ kind' = [kind EXCEPT ![c] = k]
  /\ msg' = [msg EXCEPT ![t] = c]
  /\ pc' = [pc EXCEPT ![t] = "notify"]
  /\ IF Len(reqQ[t]) < QueueSize
     THEN reqQ' = [reqQ EXCEPT ![t] = Append(@, c)] /\ alive' = alive \cup {c}
     ELSE UNCHANGED <<reqQ, alive>>
  /\ UNCHANGED <<response, fin, locked, result, ready, others, crashed>>

MutantNotifySkipped(t) ==
  /\ pc[t] = "notify"
  /\ ready' = IF event[1] = t /\ netPc # "wait" THEN ready ELSE ready \cup {t}
  /\ pc' = [pc EXCEPT ![t] = IF kind[msg[t]] = "sync" THEN "check" ELSE "idle"]
  /\ UNCHANGED <<msgVars, msg, reqQ, others, crashed>>

(* CommunicatorEpoll::notify, an edge on the thread's notify socket.  A    *)
(* synchronous call whose message was deleted goes on with a null pointer. *)
Notify(t) ==
  /\ pc[t] = "notify"
  /\ ready' = ready \cup {t}
  /\ pc' = [pc EXCEPT ![t] = IF kind[msg[t]] = "sync" THEN "check" ELSE "idle"]
  /\ UNCHANGED <<msgVars, msg, reqQ, others, crashed>>

NullMessage(t) ==
  /\ pc[t] = "check"
  /\ msg[t] \notin alive
  /\ crashed' = TRUE
  /\ UNCHANGED <<msgVars, callVars, reqQ, ready, others>>

(* The first test of bMonitorFin takes no lock.                            *)
Check(t) ==
  /\ pc[t] = "check"
  /\ msg[t] \in alive
  /\ pc' = [pc EXCEPT ![t] = IF fin[msg[t]] THEN "return" ELSE "lock"]
  /\ UNCHANGED <<msgVars, msg, reqQ, ready, others, crashed>>

MutantWaitUntested(t) ==
  /\ pc[t] = "lock"
  /\ msg[t] \notin locked
  /\ pc' = [pc EXCEPT ![t] = "wait"]
  /\ UNCHANGED <<msgVars, msg, reqQ, ready, others, crashed>>

(* With the monitor locked, test again and wait, which unlocks it.         *)
LockAndWait(t) ==
  /\ pc[t] = "lock"
  /\ msg[t] \notin locked
  /\ pc' = [pc EXCEPT ![t] = IF fin[msg[t]] THEN "return" ELSE "wait"]
  /\ UNCHANGED <<msgVars, msg, reqQ, ready, others, crashed>>

(* wait() returns with the monitor locked, and unlocks it.                 *)
Woken(t) ==
  /\ pc[t] = "woken"
  /\ msg[t] \notin locked
  /\ pc' = [pc EXCEPT ![t] = "return"]
  /\ UNCHANGED <<msgVars, msg, reqQ, ready, others, crashed>>

(* tars_invoke takes the response and deletes the message.                 *)
Return(t) ==
  /\ pc[t] = "return"
  /\ result' = [result EXCEPT ![msg[t]] = Append(@, response[msg[t]])]
  /\ alive' = alive \ {msg[t]}
  /\ pc' = [pc EXCEPT ![t] = "idle"]
  /\ msg' = [msg EXCEPT ![t] = None]
  /\ UNCHANGED <<kind, response, fin, locked, reqQ, ready, others, crashed>>

(* What the thread does of its own accord once it has begun a call.        *)
CallStep(t) ==
  Notify(t) \/ NullMessage(t) \/ Check(t) \/ LockAndWait(t) \/ Woken(t) \/ Return(t)
-----------------------------------------------------------------------------
(***************************************************************************)
(* The net thread: CommunicatorEpoll::run and handle.                      *)
(***************************************************************************)
callSide == <<callVars, reqQ>>

Readable(s) == s \in Call /\ (rx[s] # << >> \/ conn[s] \in {"refused", "fin", "rst"})
Writable(s) == s \in Call /\ conn[s] \notin {"none", "connecting", "shut"}
                 /\ Len(srv[s]) < SockCap

NetWait ==
  /\ netPc = "wait"
  /\ ready # {}
  /\ batch' = {<<s, Readable(s), Writable(s)>> : s \in ready}
  /\ ready' = {}
  /\ netPc' = "run"
  /\ UNCHANGED <<msgVars, callSide, event, netMsg, sockVars, objVars, asyncVars, crashed>>

(* Take the next event, or go back to wait.                                *)
NetEvent ==
  /\ netPc = "run"
  /\ \/ /\ batch = {}
        /\ netPc' = "wait"
        /\ UNCHANGED <<batch, event>>
     \/ \E e \in batch :
          /\ batch' = batch \ {e}
          /\ event' = e
          /\ netPc' = CASE e[1] \in Thread -> "pop"
                        [] e[1] \in Call /\ e[2] -> "in"
                        [] e[1] \in Call /\ ~e[2] /\ e[3] -> "out"
                        [] OTHER -> "run"
  /\ UNCHANGED <<msgVars, callSide, ready, netMsg, sockVars, objVars, asyncVars, crashed>>

(* Where handle() goes on after EPOLLIN.                                   *)
AfterInput == IF event[3] THEN "out" ELSE "run"

(* Transceiver::send of request c on connection f: the kernel takes all of *)
(* it, nothing, or a part; what is left goes into _sendBuffer.  A          *)
(* connection the server has closed takes it once and loses it.            *)
Send(c, f) ==
  \/ /\ conn[f] = "up" /\ Len(srv[f]) < SockCap
     /\ srv' = [srv EXCEPT ![f] = Append(@, c)]
     /\ UNCHANGED <<sendBuf, conn>>
  \/ /\ conn[f] = "up" /\ Len(srv[f]) < SockCap /\ Partial
     /\ sendBuf' = <<c, f>>
     /\ UNCHANGED <<srv, conn>>
  \/ /\ conn[f] = "connecting" \/ (conn[f] = "up" /\ Len(srv[f]) >= SockCap)
     /\ sendBuf' = <<c, None>>
     /\ UNCHANGED <<srv, conn>>
  \/ /\ conn[f] = "fin"
     /\ conn' = [conn EXCEPT ![f] = "rst"]
     /\ UNCHANGED <<srv, sendBuf>>

(* ObjectProxy::invoke.  Transceiver::connect opens a connection and makes *)
(* it the current one, whatever was going on on the one before; it is up   *)
(* at once or later.  The request is sent if nothing is waiting to be sent *)
(* and else it is queued.                                                  *)
ObjectInvoke(c) ==
  /\ fd' = c
  /\ data' = data \cup {c}
  /\ \E state \in {"connecting", "up"} :
       /\ conn' = [conn EXCEPT ![c] = state]
       /\ ready' = IF state = "up" THEN ready \cup {c} ELSE ready
       /\ \/ /\ sendList # << >> \/ sendBuf # << >>
             /\ sendList' = Append(sendList, c)
             /\ UNCHANGED <<srv, sendBuf>>
          \/ /\ sendList = << >> /\ sendBuf = << >> /\ state = "up"
             /\ srv' = [srv EXCEPT ![c] = <<c>>]
             /\ UNCHANGED <<sendList, sendBuf>>
          \/ /\ sendList = << >> /\ sendBuf = << >>
             /\ state = "up" => Partial
             /\ sendBuf' = <<c, IF state = "up" THEN c ELSE None>>
             /\ UNCHANGED <<sendList, srv>>
  /\ UNCHANGED rx

(* ET_C_NOTIFY: pop until the queue is empty.                              *)
PopRequest ==
  /\ netPc = "pop"
  /\ LET t == event[1]
     IN IF reqQ[t] = << >>
        THEN /\ netPc' = "run"
             /\ UNCHANGED <<reqQ, ready, sockVars, objVars>>
        ELSE /\ reqQ' = [reqQ EXCEPT ![t] = Tail(@)]
             /\ ObjectInvoke(Head(reqQ[t]))
             /\ UNCHANGED netPc
  /\ UNCHANGED <<msgVars, callVars, batch, event, netMsg, asyncVars, crashed>>

(* connect() fails at once: doConnect throws, handle() catches, and the    *)
(* loop over the queue is left with the message popped.                    *)
PopThrows ==
  /\ netPc = "pop" /\ Unreliable
  /\ reqQ[event[1]] # << >>
  /\ reqQ' = [reqQ EXCEPT ![event[1]] = Tail(@)]
  /\ netPc' = "run"
  /\ UNCHANGED <<msgVars, callVars, ready, batch, event, netMsg, sockVars, objVars,
                 asyncVars, crashed>>

MutantKeepsPending(c) ==
  /\ response' = [response EXCEPT ![c] = c]
  /\ netMsg' = c
  /\ netPc' = IF kind[c] = "sync" THEN "lock" ELSE "async"
  /\ UNCHANGED <<data, sendList>>

MutantAnyPending(c) ==
  \E d \in data :
    /\ data' = data \ {d}
    /\ sendList' = RemoveFirst(sendList, d)
    /\ response' = [response EXCEPT ![d] = c]
    /\ netMsg' = d
    /\ netPc' = IF kind[d] = "sync" THEN "lock" ELSE "async"

(* finishInvoke(rsp) finds the request of the response pending: erase, of  *)
(* the send list too if it is there.                                       *)
FinishInvoke(c) ==
  /\ data' = data \ {c}
  /\ sendList' = RemoveFirst(sendList, c)
  /\ response' = [response EXCEPT ![c] = c]
  /\ netMsg' = c
  /\ netPc' = IF kind[c] = "sync" THEN "lock" ELSE "async"

(* handleInputImp with data: everything on the current connection is read  *)
(* as one response, the first, and finishInvoke looks its request up.      *)
HandleInput ==
  /\ netPc = "in"
  /\ fd # None /\ conn[fd] = "up" /\ rx[fd] # << >>
  /\ LET c == Head(rx[fd])
     IN IF c \in data
        THEN FinishInvoke(c)
        ELSE /\ netPc' = AfterInput
             /\ UNCHANGED <<data, sendList, response, netMsg>>
  /\ rx' = [rx EXCEPT ![fd] = << >>]
  /\ UNCHANGED <<kind, alive, fin, locked, result, callSide, ready, batch, event,
                 conn, srv, fd, sendBuf, asyncVars, crashed>>

(* handleInputImp without: the event was for another connection, or readv  *)
(* meets the end of the current one and close() drops its buffers.         *)
HandleNoInput ==
  /\ netPc = "in"
  /\ \/ /\ IF fd = None THEN TRUE
           ELSE conn[fd] = "connecting" \/ (conn[fd] = "up" /\ rx[fd] = << >>)
        /\ UNCHANGED <<conn, rx, ready, fd, sendBuf>>
     \/ /\ fd # None /\ conn[fd] \in {"refused", "fin", "rst"}
        /\ conn' = [conn EXCEPT ![fd] = "shut"]
        /\ rx' = [rx EXCEPT ![fd] = << >>]
        /\ ready' = ready \ {fd}
        /\ fd' = None
        /\ sendBuf' = << >>
  /\ netPc' = AfterInput
  /\ UNCHANGED <<msgVars, callSide, batch, event, netMsg, srv, data, sendList,
                 asyncVars, crashed>>

(* finishInvoke of a synchronous call: lock the monitor, ...               *)
FinishLock ==
  /\ netPc = "lock"
  /\ locked' = locked \cup {netMsg}
  /\ netPc' = "fin"
  /\ UNCHANGED <<kind, alive, response, fin, result, callSide, ready, batch, event,
                 netMsg, sockVars, objVars, asyncVars, crashed>>

(* ... notify() and set bMonitorFin, ...                                   *)
FinishNotify ==
  /\ netPc = "fin"
  /\ fin' = [fin EXCEPT ![netMsg] = TRUE]
  /\ netPc' = "unlock"
  /\ UNCHANGED <<kind, alive, response, locked, result, callSide, ready, batch,
                 event, netMsg, sockVars, objVars, asyncVars, crashed>>

(* ... and unlock, which is when the signal is given.                      *)
FinishUnlock ==
  /\ netPc = "unlock"
  /\ locked' = locked \ {netMsg}
  /\ pc' = [t \in Thread |-> IF pc[t] = "wait" /\ msg[t] = netMsg THEN "woken"
                                                                   ELSE pc[t]]
  /\ netMsg' = None
  /\ netPc' = AfterInput
  /\ UNCHANGED <<kind, alive, response, fin, result, msg, reqQ, ready, batch, event,
                 sockVars, objVars, asyncVars, crashed>>

(* finishInvoke of an asynchronous call: pushAsyncThreadQueue, in turn, and*)
(* AsyncProcThread::push_back, which deletes what the queue does not take. *)
PushAsyncThreadQueue ==
  /\ netPc = "async"
  /\ IF Len(asyncQ[asyncSeq]) < AsyncCap
     THEN asyncQ' = [asyncQ EXCEPT ![asyncSeq] = Append(@, netMsg)] /\ UNCHANGED alive
     ELSE alive' = alive \ {netMsg} /\ UNCHANGED asyncQ
  /\ asyncPc' = [asyncPc EXCEPT ![asyncSeq] = IF @ = "wait" THEN "test" ELSE @]
  /\ asyncSeq' = (asyncSeq + 1) % AsyncNum
  /\ netMsg' = None
  /\ netPc' = AfterInput
  /\ UNCHANGED <<kind, response, fin, locked, result, callSide, ready, batch, event,
                 sockVars, objVars, crashed>>

(* doRequest: what is left of a request goes out on the current connection,*)
(* even if its first bytes went out on another.  Sending on a connection   *)
(* that is reset raises SIGPIPE.                                           *)
DoRequest ==
  /\ netPc = "out"
  /\ \/ /\ sendBuf = << >>
        /\ netPc' = "invoke"
        /\ UNCHANGED <<srv, conn, sendBuf, crashed>>
     \/ /\ sendBuf # << >> /\ fd # None /\ conn[fd] = "up" /\ Len(srv[fd]) < SockCap
        /\ srv' = IF sendBuf[2] \in {None, fd}
                  THEN [srv EXCEPT ![fd] = Append(@, sendBuf[1])]
                  ELSE srv
        /\ sendBuf' = << >>
        /\ netPc' = "invoke"
        /\ UNCHANGED <<conn, crashed>>
     \/ /\ sendBuf # << >>
        /\ IF fd = None THEN TRUE
           ELSE conn[fd] = "connecting" \/ (conn[fd] = "up" /\ Len(srv[fd]) >= SockCap)
        /\ netPc' = "run"
        /\ UNCHANGED <<srv, conn, sendBuf, crashed>>
     \/ /\ sendBuf # << >> /\ fd # None /\ conn[fd] = "fin"
        /\ conn' = [conn EXCEPT ![fd] = "rst"]
        /\ sendBuf' = << >>
        /\ netPc' = "invoke"
        /\ UNCHANGED <<srv, crashed>>
     \/ /\ sendBuf # << >> /\ fd # None /\ conn[fd] \in {"refused", "rst"}
        /\ netPc' = "run"
        /\ crashed' = (conn[fd] = "rst")
        /\ conn' = [conn EXCEPT ![fd] = "rst"]
        /\ UNCHANGED <<srv, sendBuf>>
  /\ UNCHANGED <<msgVars, callSide, ready, batch, event, netMsg, rx, fd, data, sendList,
                 asyncVars>>

(* doInvoke: send the oldest queued request and look at the queue again.   *)
(* The request stays in the queue.                                         *)
DoInvoke ==
  /\ netPc = "invoke"
  /\ \/ /\ sendList = << >> \/ sendBuf # << >> \/ fd = None
        /\ netPc' = "run"
        /\ UNCHANGED <<srv, conn, sendBuf, crashed>>
     \/ /\ sendList # << >> /\ sendBuf = << >> /\ fd # None
        /\ Send(Head(sendList), fd)
        /\ netPc' = IF sendBuf' = << >> THEN "invoke" ELSE "run"
        /\ UNCHANGED crashed
     \/ /\ sendList # << >> /\ sendBuf = << >> /\ fd # None
        /\ conn[fd] \in {"refused", "rst"}
        /\ netPc' = "run"
        /\ crashed' = (conn[fd] = "rst")
        /\ conn' = [conn EXCEPT ![fd] = "rst"]
        /\ UNCHANGED <<srv, sendBuf>>
  /\ UNCHANGED <<msgVars, callSide, ready, batch, event, netMsg, rx, fd, data, sendList,
                 asyncVars>>

NetStep ==
  \/ NetWait \/ NetEvent
  \/ PopRequest \/ PopThrows
  \/ HandleInput \/ HandleNoInput
  \/ FinishLock \/ FinishNotify \/ FinishUnlock \/ PushAsyncThreadQueue
  \/ DoRequest \/ DoInvoke
-----------------------------------------------------------------------------
(***************************************************************************)
(* An AsyncProcThread.                                                     *)
(***************************************************************************)
clientSide == <<kind, response, fin, locked, callSide, ready, netVars, sockVars,
                objVars, asyncSeq, crashed>>

(* pop_front; onDispatch gives the response to the callback, and the last  *)
(* shared_ptr deletes the message.                                         *)
AsyncPop(a) ==
  /\ asyncPc[a] = "test" /\ asyncQ[a] # << >>
  /\ LET c == Head(asyncQ[a])
     IN /\ result' = [result EXCEPT ![c] = Append(@, response[c])]
        /\ alive' = alive \ {c}
  /\ asyncQ' = [asyncQ EXCEPT ![a] = Tail(@)]
  /\ UNCHANGED <<clientSide, asyncPc>>

(* The queue is empty; a response may come before the lock is taken to     *)
(* wait.                                                                   *)
AsyncTest(a) ==
  /\ asyncPc[a] = "test" /\ asyncQ[a] = << >>
  /\ asyncPc' = [asyncPc EXCEPT ![a] = "sleep"]
  /\ UNCHANGED <<clientSide, alive, result, asyncQ>>

AsyncWait(a) ==
  /\ asyncPc[a] = "sleep"
  /\ asyncPc' = [asyncPc EXCEPT ![a] = "wait"]
  /\ UNCHANGED <<clientSide, alive, result, asyncQ>>

MutantWaitForever(a) == FALSE /\ UNCHANGED vars

AsyncTimeout(a) ==
  /\ asyncPc[a] = "wait"
  /\ asyncPc' = [asyncPc EXCEPT ![a] = "test"]
  /\ UNCHANGED <<clientSide, alive, result, asyncQ>>

AsyncStep(a) == AsyncPop(a) \/ AsyncTest(a) \/ AsyncWait(a) \/ AsyncTimeout(a)
-----------------------------------------------------------------------------
(***************************************************************************)
(* The network and the server (environment).                               *)
(***************************************************************************)
Edge(f) == ready' = IF conn'[f] = "shut" THEN ready ELSE ready \cup {f}

worldRest == <<msgVars, callVars, reqQ, netVars, objVars, asyncVars, crashed>>

(* A connection is established or refused.                                 *)
Connected(f) ==
  /\ conn[f] = "connecting"
  /\ \/ conn' = [conn EXCEPT ![f] = "up"]
     \/ Unreliable /\ conn' = [conn EXCEPT ![f] = "refused"]
  /\ Edge(f)
  /\ UNCHANGED <<srv, rx, worldRest>>

(* The server reads some of what it was sent on the connection and answers *)
(* the first request of it.                                                *)
ServerReply(f) ==
  /\ conn[f] = "up"
  /\ srv[f] # << >> /\ Len(rx[f]) < SockCap
  /\ \E n \in 1 .. Len(srv[f]) : srv' = [srv EXCEPT ![f] = SubSeq(@, n + 1, Len(@))]
  /\ rx' = [rx EXCEPT ![f] = Append(@, Head(srv[f]))]
  /\ UNCHANGED conn
  /\ Edge(f)
  /\ UNCHANGED worldRest

ServerClose(f) ==
  /\ Unreliable
  /\ conn[f] = "up"
  /\ conn' = [conn EXCEPT ![f] = "fin"]
  /\ srv' = [srv EXCEPT ![f] = << >>]
  /\ Edge(f)
  /\ UNCHANGED <<rx, worldRest>>

Next ==
  /\ ~crashed
  /\ \/ \E t \in Thread : \/ \E c \in Call, k \in Kind : Invoke(t, c, k)
                          \/ CallStep(t)
     \/ NetStep
     \/ \E a \in Async : AsyncStep(a)
     \/ \E f \in Call : Connected(f) \/ ServerReply(f) \/ ServerClose(f)

Spec == Init /\ [][Next]_vars

(* Every thread runs, timed waits end, connections are decided and the     *)
(* server answers.                                                         *)
Fairness ==
  /\ \A t \in Thread : WF_vars(~crashed /\ CallStep(t))
  /\ WF_vars(~crashed /\ NetStep)
  /\ \A a \in Async : WF_vars(~crashed /\ AsyncStep(a))
  /\ \A f \in Call : WF_vars(~crashed /\ Connected(f)) /\ WF_vars(~crashed /\ ServerReply(f))

FairSpec == Spec /\ Fairness
-----------------------------------------------------------------------------
(***************************************************************************)
(* Properties.                                                             *)
(***************************************************************************)

(* ReqMessages are passed between three kinds of threads as raw pointers   *)
(* and deleted by whoever has them last: none is deleted while a queue, the*)
(* table of pending requests or the net thread's finishInvoke leads to it. *)
(* The send list, whose nodes point back at their requests, holds pending  *)
(* requests only and each once, as the assertion in getSend demands.       *)
NoDanglingMessage ==
  /\ \A t \in Thread : ToSet(reqQ[t]) \subseteq alive
  /\ data \subseteq alive
  /\ \A a \in Async : ToSet(asyncQ[a]) \subseteq alive
  /\ netPc \in {"lock", "fin", "async"} => netMsg \in alive
  /\ ToSet(sendList) \subseteq data /\ IsInjective(sendList)

(* A caller gets one answer, and it is the answer to its own call.         *)
OwnAnswer == \A c \in Call : result[c] \in {<< >>, <<c>>}

(* Once the net thread has finished a synchronous call, its caller returns:*)
(* the wakeup is not lost between the unlocked test of bMonitorFin, the    *)
(* locked one and wait().                                                  *)
WakeupNotLost ==
  \A c \in Call : fin[c] ~> (result[c] # << >> \/ crashed)

(* A callback whose response has come is run.                              *)
CallbackRuns ==
  \A c \in Call : (kind[c] = "async" /\ response[c] = c) ~> (result[c] # << >> \/ crashed)

(* A request that is pushed is taken by the net thread.                    *)
RequestTaken ==
  \A t \in Thread : (reqQ[t] # << >>) ~> (reqQ[t] = << >> \/ crashed)

(* invoke waits "until the net thread notifies" (the comment at            *)
(* ServantProxy.cpp:245): every call is answered in the end.               *)
CallAnswered ==
  \A c \in Call : (kind[c] # "none") ~> (result[c] # << >> \/ crashed)
=============================================================================
