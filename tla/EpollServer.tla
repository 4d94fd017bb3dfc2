---------------------------- MODULE EpollServer ----------------------------
(***************************************************************************)
(* The server side: TC_EpollServer (util/src/tc_epoll_server.cpp), its net *)
(* threads and the ServantHandle threads behind it                         *)
(* (servant/libservant/ServantHandle.cpp), from accept to the response and *)
(* the shutdown of Application::waitForQuit.                               *)
(*                                                                         *)
(* Net thread 0 accepts every connection and hands it to thread fd % N by  *)
(* calling addTcpConnection on that thread's tables itself.  A net thread  *)
(* takes a batch of edge-triggered events from its epoll and handles them  *)
(* one after another; handles pop what it read from the adapter's queue    *)
(* and answer through the send queue of the net thread of the fd.          *)
(*                                                                         *)
(* A request is <<connection, position>>.  What one recv() finds on a      *)
(* socket becomes one tagRecvData, however many requests it holds: it is   *)
(* answered as its first request.                                          *)
(***************************************************************************)
EXTENDS Integers, Sequences, FiniteSets

CONSTANTS
  N,             \* number of net threads (3 in Application.cpp)
  Fd,            \* the file descriptors the kernel may give to accept
  Conn,          \* bound: the connections clients open, one object each
  Total,         \* _total of createEpoll (200000): uids of a net thread
  MaxReq,        \* bound: requests a client sends on a connection
  Handle,        \* the handle threads of the adapter's group
  Modes,         \* the values ServerConfig::OpenCoroutine may be configured to
  CoroPool,      \* coroutines a handle can create at a time
  SocketFull,    \* whether the kernel may take less than a whole response
  Shutdown,      \* whether an administrator shuts the server down
  None

ASSUME NAssumption == N \in Nat \ {0}
ASSUME FdAssumption == Fd \subseteq Nat
ASSUME TotalAssumption == Total \in Nat /\ IsFiniteSet(Conn) /\ Cardinality(Conn) <= Total
ASSUME MaxReqAssumption == MaxReq \in Nat
ASSUME ModeAssumption == Modes \subseteq BOOLEAN /\ SocketFull \in BOOLEAN
                           /\ Shutdown \in BOOLEAN /\ CoroPool \in Nat
ASSUME NoneAssumption == None \notin Conn

NetThread == 0 .. N - 1
Uid       == 1 .. Total
NoFd      == -1
Notify    == 0                     \* the event of the _notify socket
Listen    == -1                    \* the event of the listening socket
Request   == Conn \X (1 .. MaxReq)

RecvData == [uid : Uid, fd : Fd \cup {NoFd}, isClosed : BOOLEAN, req : Conn \X (0 .. MaxReq)]
SendData == [cmd : {"s", "c"}, uid : Uid, req : Request]

VARIABLES
  peer,       \* the client's end: "none", "open", "fin" or "rst"
  accepted,   \* connections the server has taken from the backlog
  written,    \* requests the client has written on the connection
  taken,      \* requests the server has read from the socket
  delivered,  \* the responses the client's socket has received, in order
  unsent,     \* responses of which the kernel has not taken every byte
  fdOf,       \* Connection::_sock
  uidOf,      \* Connection::_uid
  free,       \* NetThread::_free
  uidConn,    \* NetThread::_uid_connection
  epoll,      \* the fds registered in the thread's epoll, with their data
  ready,      \* events the epoll of the thread has to report
  batch,      \* events reported and not yet handled: <<data, EPOLLHUP>>
  netPc,      \* where the net thread is
  cur,        \* the Connection it is adding or deleting, and its fd
  pipe,       \* deSendData of processPipe
  sbuffer,    \* NetThread::_sbuffer
  rbuffer,    \* BindAdapter::_rbuffer
  hPc,        \* where the handle is; in "wait" it waits on the group's monitor
  work,       \* requests popped by the handle and not yet handled
  bTerminate, \* TC_EpollServer::_bTerminate
  netTerm,    \* NetThread::_bTerminate
  OpenCoroutine, \* ServerConfig::OpenCoroutine, read once at startup
  mainPc,     \* waitForQuit: the net thread it stops next, N + 1 when done
  crashed     \* the process has died

clientVars == <<peer, written, delivered, unsent>>
connVars   == <<accepted, fdOf, uidOf, free, uidConn>>
netVars    == <<batch, netPc, cur, pipe>>
handleVars == <<hPc, work>>
stopVars   == <<bTerminate, netTerm, mainPc, OpenCoroutine>>
vars == <<clientVars, taken, connVars, epoll, ready, netVars, sbuffer, rbuffer,
          handleVars, stopVars, crashed>>

(* getNetThreadOfFd                                                        *)
ThreadOf(fd) == fd % N

Open(c) == fdOf[c] # NoFd

Init ==
  /\ peer = [c \in Conn |-> "none"]
  /\ accepted = {}
  /\ written = [c \in Conn |-> 0]
  /\ taken = [c \in Conn |-> 0]
  /\ delivered = [c \in Conn |-> << >>]
  /\ unsent = [c \in Conn |-> {}]
  /\ fdOf = [c \in Conn |-> NoFd]
  /\ uidOf = [c \in Conn |-> 0]
  /\ free = [n \in NetThread |-> [i \in 1 .. Total |-> i]]
  /\ uidConn = [n \in NetThread |-> [u \in Uid |-> None]]
  /\ epoll = [n \in NetThread |-> [f \in Fd |-> 0]]
  /\ ready = [n \in NetThread |-> {}]
  /\ batch = [n \in NetThread |-> {}]
  /\ netPc = [n \in NetThread |-> "wait"]
  /\ cur = [n \in NetThread |-> <<None, NoFd>>]
  /\ pipe = [n \in NetThread |-> << >>]
  /\ sbuffer = [n \in NetThread |-> << >>]
  /\ rbuffer = << >>
  /\ hPc = [h \in Handle |-> "loop"]
  /\ work = [h \in Handle |-> {}]
  /\ bTerminate = FALSE
  /\ netTerm = [n \in NetThread |-> FALSE]
  /\ mainPc = -1
  /\ OpenCoroutine \in Modes
  /\ crashed = FALSE
-----------------------------------------------------------------------------
(***************************************************************************)
(* The clients (environment).                                              *)
(***************************************************************************)

(* Something happened on the client's end: if the server's end is in an    *)
(* epoll, its edge is reported there.                                      *)
Edge(c) ==
  LET n == ThreadOf(fdOf[c])
  IN ready' = IF Open(c) /\ epoll[n][fdOf[c]] # 0
              THEN [ready EXCEPT ![n] = @ \cup {epoll[n][fdOf[c]]}]
              ELSE ready

serverVars == <<taken, connVars, epoll, netVars, sbuffer, rbuffer, handleVars,
                stopVars, crashed>>

Connect(c) ==
  /\ peer[c] = "none"
  /\ peer' = [peer EXCEPT ![c] = "open"]
  /\ ready' = [ready EXCEPT ![0] = @ \cup {Listen}]
  /\ UNCHANGED <<written, delivered, unsent, serverVars>>

Write(c) ==
  /\ peer[c] = "open"
  /\ written[c] < MaxReq
  /\ written' = [written EXCEPT ![c] = @ + 1]
  /\ Edge(c)
  /\ UNCHANGED <<peer, delivered, unsent, serverVars>>

ClientClose(c) ==
  /\ peer[c] = "open"
  /\ peer' = [peer EXCEPT ![c] = "fin"]
  /\ Edge(c)
  /\ UNCHANGED <<written, delivered, unsent, serverVars>>

Client == \E c \in Conn : Connect(c) \/ Write(c) \/ ClientClose(c)
-----------------------------------------------------------------------------
(***************************************************************************)
(* Net thread 0 accepts.  Between the steps of addTcpConnection, which it  *)
(* runs on the tables of thread fd % N, that thread goes on working.       *)
(***************************************************************************)

(* The thread is between two events of its batch.                          *)
NextEvent(n) == netPc[n] = "run" /\ pipe[n] = << >>

Backlog == {c \in Conn : peer[c] # "none" /\ c \notin accepted}

(* ET_LISTEN: accept until EAGAIN.  Any other error, no descriptor being   *)
(* left for one, makes the loop try again.                                 *)
AcceptLoop ==
  /\ \/ /\ NextEvent(0) /\ <<Listen, FALSE>> \in batch[0]
        /\ batch' = [batch EXCEPT ![0] = @ \ {<<Listen, FALSE>>}]
        /\ netPc' = [netPc EXCEPT ![0] = "accept"]
     \/ /\ netPc[0] = "accept" /\ Backlog = {}
        /\ netPc' = [netPc EXCEPT ![0] = "run"]
        /\ UNCHANGED batch
  /\ UNCHANGED <<clientVars, taken, connVars, epoll, ready, cur, pipe, sbuffer,
                 rbuffer, handleVars, stopVars, crashed>>

(* The kernel gives the connection any descriptor that is not in use.      *)
Accept(c, fd) ==
  /\ netPc[0] = "accept"
  /\ c \in Backlog
  /\ \A d \in Conn : fdOf[d] # fd
  /\ accepted' = accepted \cup {c}
  /\ fdOf' = [fdOf EXCEPT ![c] = fd]
  /\ cur' = [cur EXCEPT ![0] = <<c, fd>>]
  /\ netPc' = [netPc EXCEPT ![0] = "insert"]
  /\ UNCHANGED <<clientVars, taken, uidOf, free, uidConn, epoll, ready, batch,
                 pipe, sbuffer, rbuffer, handleVars, stopVars, crashed>>

(* The connection gets the first free uid of its thread and enters the     *)
(* thread's map.                                                           *)
AddTcpConnection ==
  /\ netPc[0] = "insert"
  /\ LET c == cur[0][1]
         n == ThreadOf(cur[0][2])
         uid == Head(free[n])
     IN /\ uidOf' = [uidOf EXCEPT ![c] = uid]
        /\ free' = [free EXCEPT ![n] = Tail(@)]
        /\ uidConn' = [uidConn EXCEPT ![n][uid] = c]
  /\ netPc' = [netPc EXCEPT ![0] = "add"]
  /\ UNCHANGED <<clientVars, taken, accepted, fdOf, epoll, ready, batch, cur,
                 pipe, sbuffer, rbuffer, handleVars, stopVars, crashed>>

(* _epoller.add with EPOLLIN | EPOLLOUT: a fresh socket is writable, so an *)
(* event is due at once.                                                   *)
EpollAdd ==
  /\ netPc[0] = "add"
  /\ LET c == cur[0][1]
         fd == cur[0][2]
         n == ThreadOf(fd)
     IN /\ epoll' = [epoll EXCEPT ![n][fd] = uidOf[c]]
        /\ ready' = [ready EXCEPT ![n] = @ \cup {uidOf[c]}]
  /\ netPc' = [netPc EXCEPT ![0] = "accept"]
  /\ cur' = [cur EXCEPT ![0] = <<None, NoFd>>]
  /\ UNCHANGED <<clientVars, taken, connVars, batch, pipe, sbuffer, rbuffer,
                 handleVars, stopVars, crashed>>

AcceptStep == \/ AcceptLoop
              \/ \E c \in Conn, fd \in Fd : Accept(c, fd)
              \/ AddTcpConnection
              \/ EpollAdd
-----------------------------------------------------------------------------
(***************************************************************************)
(* A net thread.                                                           *)
(***************************************************************************)

(* insertRecvQueue: append to the adapter's queue, then notify the monitor *)
(* of the handle group, which wakes one waiting handle if there is one.    *)
InsertRecvQueue(recv) ==
  /\ rbuffer' = Append(rbuffer, recv)
  /\ IF \E h \in Handle : hPc[h] = "wait"
     THEN \E h \in Handle : hPc[h] = "wait" /\ hPc' = [hPc EXCEPT ![h] = "drain"]
     ELSE UNCHANGED hPc

(* epoll_wait returns: all ready events, with EPOLLHUP | EPOLLERR for the  *)
(* connections the peer has reset.                                         *)
NetWait(n) ==
  /\ netPc[n] = "wait"
  /\ ready[n] # {}
  /\ batch' = [batch EXCEPT ![n] =
       {<<u, u \in Uid /\ peer[uidConn[n][u]] = "rst">> : u \in ready[n]}]
  /\ ready' = [ready EXCEPT ![n] = {}]
  /\ netPc' = [netPc EXCEPT ![n] = "run"]
  /\ UNCHANGED <<clientVars, taken, connVars, epoll, cur, pipe, sbuffer, rbuffer,
                 handleVars, stopVars, crashed>>

MutantLoopForever(n) ==
  /\ netPc[n] = "run" /\ batch[n] = {} /\ pipe[n] = << >>
  /\ netPc' = [netPc EXCEPT ![n] = "wait"]
  /\ UNCHANGED <<clientVars, taken, connVars, epoll, ready, batch, cur, pipe,
                 sbuffer, rbuffer, handleVars, stopVars, crashed>>

(* The batch is done: the loop tests _bTerminate.                          *)
NetLoop(n) ==
  /\ \/ netPc[n] = "run" /\ batch[n] = {} /\ pipe[n] = << >>
     \/ netPc[n] = "wait" /\ ready[n] = {} /\ netTerm[n]
  /\ netPc' = [netPc EXCEPT ![n] = IF netTerm[n] THEN "exit" ELSE "wait"]
  /\ UNCHANGED <<clientVars, taken, connVars, epoll, ready, batch, cur, pipe,
                 sbuffer, rbuffer, handleVars, stopVars, crashed>>

MutantCloseOvertakes(n, c) ==
  /\ rbuffer' = <<[uid |-> uidOf[c], fd |-> fdOf[c], isClosed |-> TRUE,
                   req |-> <<c, 0>>]>> \o rbuffer
  /\ cur' = [cur EXCEPT ![n] = <<c, fdOf[c]>>]
  /\ netPc' = [netPc EXCEPT ![n] = "del"]
  /\ UNCHANGED hPc

(* delConnection tells the handles first; the epoll and the socket follow  *)
(* in steps of their own.                                                  *)
DelConnection(n, c) ==
  /\ InsertRecvQueue([uid |-> uidOf[c], fd |-> fdOf[c], isClosed |-> TRUE,
                      req |-> <<c, 0>>])
  /\ cur' = [cur EXCEPT ![n] = <<c, fdOf[c]>>]
  /\ netPc' = [netPc EXCEPT ![n] = "del"]

(* _epoller.del; the kernel refuses a descriptor that is not registered.   *)
EpollDel(n) ==
  /\ netPc[n] = "del"
  /\ LET fd == fdOf[cur[n][1]]
     IN IF fd \in Fd
        THEN /\ epoll' = [epoll EXCEPT ![n][fd] = 0]
             /\ ready' = [ready EXCEPT ![n] = @ \ {epoll[n][fd]}]
        ELSE UNCHANGED <<epoll, ready>>
  /\ netPc' = [netPc EXCEPT ![n] = "close"]
  /\ UNCHANGED <<clientVars, taken, connVars, batch, cur, pipe, sbuffer, rbuffer,
                 handleVars, stopVars, crashed>>

MutantUidReused(n) ==
  /\ netPc[n] = "close"
  /\ fdOf' = [fdOf EXCEPT ![cur[n][1]] = NoFd]
  /\ free' = [free EXCEPT ![n] = <<uidOf[cur[n][1]]>> \o @]
  /\ peer' = [peer EXCEPT ![cur[n][1]] = "rst"]
  /\ cur' = [cur EXCEPT ![n] = <<None, NoFd>>]
  /\ netPc' = [netPc EXCEPT ![n] = "run"]
  /\ UNCHANGED <<written, delivered, unsent, taken, accepted, uidOf, uidConn,
                 epoll, ready, batch, pipe, sbuffer, rbuffer, handleVars, stopVars, crashed>>

(* Connection::close: the descriptor is free again.  The client's reads    *)
(* end, and what it writes from now on meets a reset.                      *)
CloseSocket(n) ==
  /\ netPc[n] = "close"
  /\ fdOf' = [fdOf EXCEPT ![cur[n][1]] = NoFd]
  /\ peer' = [peer EXCEPT ![cur[n][1]] = "rst"]
  /\ cur' = [cur EXCEPT ![n] = <<None, NoFd>>]
  /\ netPc' = [netPc EXCEPT ![n] = "run"]
  /\ UNCHANGED <<written, delivered, unsent, taken, accepted, uidOf, free, uidConn,
                 epoll, ready, batch, pipe, sbuffer, rbuffer, handleVars, stopVars, crashed>>

MutantCloseFirst(n) ==
  LET c == cur[n][1]
      fd == cur[n][2]
  IN \/ /\ netPc[n] = "del"
        /\ fdOf' = [fdOf EXCEPT ![c] = NoFd]
        /\ peer' = [peer EXCEPT ![c] = "rst"]
        /\ epoll' = IF fd \in Fd THEN [epoll EXCEPT ![n][fd] = 0] ELSE epoll
        /\ netPc' = [netPc EXCEPT ![n] = "close"]
        /\ UNCHANGED <<written, delivered, unsent, taken, accepted, uidOf, free,
             uidConn, cur, ready, batch, pipe, sbuffer, rbuffer, handleVars, stopVars, crashed>>
     \/ /\ netPc[n] = "close"
        /\ epoll' = IF fd \in Fd THEN [epoll EXCEPT ![n][fd] = 0] ELSE epoll
        /\ cur' = [cur EXCEPT ![n] = <<None, NoFd>>]
        /\ netPc' = [netPc EXCEPT ![n] = "run"]
        /\ UNCHANGED <<clientVars, taken, connVars, ready, batch, pipe, sbuffer,
             rbuffer, handleVars, stopVars, crashed>>

(* The order matters: a descriptor that is closed first may be given to a  *)
(* new connection before it leaves the epoll.                              *)
FinishDel(n) == EpollDel(n) \/ CloseSocket(n)

(* processNet, EPOLLHUP or EPOLLERR.                                       *)
NetHup(n, u) ==
  /\ NextEvent(n)
  /\ <<u, TRUE>> \in batch[n]
  /\ batch' = [batch EXCEPT ![n] = @ \ {<<u, TRUE>>}]
  /\ DelConnection(n, uidConn[n][u])
  /\ UNCHANGED <<clientVars, taken, connVars, epoll, ready, pipe, sbuffer, work,
                 stopVars, crashed>>

Unread(c) == Open(c) /\ taken[c] < written[c]

(* processNet, EPOLLIN: everything on the socket becomes one tagRecvData.  *)
NetRecv(n, u) ==
  /\ NextEvent(n)
  /\ <<u, FALSE>> \in batch[n]
  /\ LET c == uidConn[n][u]
     IN /\ Unread(c)
        /\ taken' = [taken EXCEPT ![c] = written[c]]
        /\ InsertRecvQueue([uid |-> u, fd |-> fdOf[c], isClosed |-> FALSE,
                            req |-> <<c, taken[c] + 1>>])
  /\ batch' = [batch EXCEPT ![n] = @ \ {<<u, FALSE>>}]
  /\ UNCHANGED <<clientVars, connVars, epoll, ready, netPc, cur, pipe, sbuffer,
                 work, stopVars, crashed>>

(* Nothing to read, or nothing when epoll_wait returned and the event does *)
(* not say EPOLLIN, but then another is due; nothing to send either,       *)
(* _sendbuffer is empty.                                                   *)
NetIdle(n, u) ==
  /\ NextEvent(n)
  /\ <<u, FALSE>> \in batch[n]
  /\ LET c == uidConn[n][u]
     IN Open(c) /\ ((~Unread(c) /\ peer[c] = "open") \/ u \in ready[n])
  /\ batch' = [batch EXCEPT ![n] = @ \ {<<u, FALSE>>}]
  /\ UNCHANGED <<clientVars, taken, connVars, epoll, ready, netPc, cur, pipe,
                 sbuffer, rbuffer, handleVars, stopVars, crashed>>

(* recv() returns -1: end of file, an error, or a descriptor that an       *)
(* earlier event of the batch has closed.  If the data fill the 32K buffer *)
(* exactly, the end of file is met in the same recv() and they are lost.   *)
NetEof(n, u) ==
  /\ NextEvent(n)
  /\ <<u, FALSE>> \in batch[n]
  /\ LET c == uidConn[n][u]
     IN /\ ~Open(c) \/ peer[c] # "open"
        /\ taken' = IF Open(c) THEN [taken EXCEPT ![c] = written[c]] ELSE taken
        /\ DelConnection(n, c)
  /\ batch' = [batch EXCEPT ![n] = @ \ {<<u, FALSE>>}]
  /\ UNCHANGED <<clientVars, connVars, epoll, ready, pipe, sbuffer, work, stopVars,
                 crashed>>

(* processPipe takes the whole send queue ...                              *)
ProcessPipe(n) ==
  /\ NextEvent(n)
  /\ <<Notify, FALSE>> \in batch[n]
  /\ batch' = [batch EXCEPT ![n] = @ \ {<<Notify, FALSE>>}]
  /\ pipe' = [pipe EXCEPT ![n] = sbuffer[n]]
  /\ sbuffer' = [sbuffer EXCEPT ![n] = << >>]
  /\ UNCHANGED <<clientVars, taken, connVars, epoll, ready, netPc, cur, rbuffer,
                 handleVars, stopVars, crashed>>

(* ... and works it off: command 'c' closes (setClose finds _sendbuffer    *)
(* empty) ...                                                              *)
PipeClose(n) ==
  /\ netPc[n] = "run" /\ pipe[n] # << >>
  /\ Head(pipe[n]).cmd = "c"
  /\ DelConnection(n, uidConn[n][Head(pipe[n]).uid])
  /\ pipe' = [pipe EXCEPT ![n] = Tail(@)]
  /\ UNCHANGED <<clientVars, taken, connVars, epoll, ready, batch, sbuffer, work,
                 stopVars, crashed>>

(* ... and command 's' sends.  What the kernel does not take at once is    *)
(* dropped.  Sending to a client that has closed brings a reset back;      *)
(* sending once more raises SIGPIPE, which nothing handles.  A closed      *)
(* descriptor gives EBADF, which is only logged.                           *)
PipeSend(n) ==
  /\ netPc[n] = "run" /\ pipe[n] # << >>
  /\ Head(pipe[n]).cmd = "s"
  /\ LET c == uidConn[n][Head(pipe[n]).uid]
         req == Head(pipe[n]).req
     IN \/ /\ Open(c) /\ peer[c] = "open"
           /\ delivered' = [delivered EXCEPT ![c] = Append(@, req)]
           /\ UNCHANGED <<peer, unsent, ready, crashed>>
        \/ /\ Open(c) /\ peer[c] = "open" /\ SocketFull
           /\ unsent' = [unsent EXCEPT ![c] = @ \cup {req}]
           /\ Edge(c)
           /\ UNCHANGED <<peer, delivered, crashed>>
        \/ /\ Open(c) /\ peer[c] = "fin"
           /\ peer' = [peer EXCEPT ![c] = "rst"]
           /\ Edge(c)
           /\ UNCHANGED <<delivered, unsent, crashed>>
        \/ /\ Open(c) /\ peer[c] = "rst"
           /\ crashed' = TRUE
           /\ UNCHANGED <<peer, delivered, unsent, ready>>
        \/ /\ ~Open(c)
           /\ UNCHANGED <<peer, delivered, unsent, ready, crashed>>
  /\ pipe' = [pipe EXCEPT ![n] = Tail(@)]
  /\ UNCHANGED <<written, taken, connVars, epoll, batch, netPc, cur, sbuffer,
                 rbuffer, handleVars, stopVars>>

(* A lookup in the map while thread 0 inserts into it, with no lock, may   *)
(* follow a pointer that is being rewritten.                               *)
TornLookup(n) ==
  /\ n # 0 /\ netPc[0] = "insert" /\ ThreadOf(cur[0][2]) = n
  /\ netPc[n] = "run"
  /\ pipe[n] # << >> \/ \E e \in batch[n] : e[1] \in Uid
  /\ crashed' = TRUE
  /\ UNCHANGED <<clientVars, taken, connVars, epoll, ready, netVars, sbuffer,
                 rbuffer, handleVars, stopVars>>

NetStep(n) ==
  \/ NetWait(n) \/ NetLoop(n)
  \/ FinishDel(n)
  \/ \E u \in Uid : NetHup(n, u) \/ NetRecv(n, u) \/ NetIdle(n, u) \/ NetEof(n, u)
  \/ ProcessPipe(n) \/ PipeClose(n) \/ PipeSend(n)
-----------------------------------------------------------------------------
(***************************************************************************)
(* A handle thread.                                                        *)
(***************************************************************************)
netSide == <<clientVars, taken, connVars, epoll, netVars, stopVars, crashed>>

(* The top of the loop of handleImp and handleRequest: test, lock, wait.   *)
HandleLoop(h) ==
  /\ hPc[h] = "loop"
  /\ hPc' = [hPc EXCEPT ![h] = IF bTerminate THEN "exit" ELSE "wait"]
  /\ UNCHANGED <<netSide, ready, sbuffer, rbuffer, work>>

(* timedWait runs out.                                                     *)
HandleTimeout(h) ==
  /\ hPc[h] = "wait"
  /\ hPc' = [hPc EXCEPT ![h] = "drain"]
  /\ UNCHANGED <<netSide, ready, sbuffer, rbuffer, work>>

(* waitForRecvQueue(recv, 0) succeeds.  A close event is only logged.      *)
(* Without coroutines the request is handled before the next is popped;    *)
(* with them it gets a coroutine of its own, or is lost if none is left.   *)
HandlePop(h) ==
  /\ hPc[h] = "drain" /\ rbuffer # << >>
  /\ OpenCoroutine \/ work[h] = {}
  /\ LET recv == Head(rbuffer)
     IN work' = IF recv.isClosed \/ (OpenCoroutine /\ Cardinality(work[h]) >= CoroPool)
                THEN work
                ELSE [work EXCEPT ![h] = @ \cup {recv}]
  /\ rbuffer' = Tail(rbuffer)
  /\ UNCHANGED <<netSide, ready, sbuffer, hPc>>

Running(h, recv) == recv \in work[h] /\ hPc[h] = IF OpenCoroutine THEN "coro" ELSE "drain"

MutantSendWithoutNotify(n, send) ==
  /\ sbuffer' = [sbuffer EXCEPT ![n] = Append(@, send)]
  /\ UNCHANGED ready

(* NetThread::send and close: queue, then wake the net thread.             *)
PushSend(n, send) ==
  /\ sbuffer' = [sbuffer EXCEPT ![n] = Append(@, send)]
  /\ ready' = [ready EXCEPT ![n] = @ \cup {Notify}]

(* handle(): dispatch, then sendResponse to the net thread of the fd, which*)
(* ignores it once it is told to terminate.                                *)
HandleRequest(h, recv) ==
  /\ Running(h, recv)
  /\ work' = [work EXCEPT ![h] = @ \ {recv}]
  /\ LET n == ThreadOf(recv.fd)
     IN IF netTerm[n]
        THEN UNCHANGED <<sbuffer, ready>>
        ELSE PushSend(n, [cmd |-> "s", uid |-> recv.uid, req |-> recv.req])
  /\ UNCHANGED <<netSide, rbuffer, hPc>>

(* The servant throws.  handleImp closes the connection and leaves the     *)
(* drain loop; a coroutine swallows the exception and answers nothing.     *)
HandleThrow(h, recv) ==
  /\ Running(h, recv)
  /\ work' = [work EXCEPT ![h] = @ \ {recv}]
  /\ IF OpenCoroutine
     THEN UNCHANGED <<sbuffer, ready, hPc>>
     ELSE /\ PushSend(ThreadOf(recv.fd), [cmd |-> "c", uid |-> recv.uid, req |-> recv.req])
          /\ hPc' = [hPc EXCEPT ![h] = "loop"]
  /\ UNCHANGED <<netSide, rbuffer>>

(* The queue is empty; with coroutines, the handle now runs them.          *)
HandleDrained(h) ==
  /\ \/ hPc[h] = "drain" /\ rbuffer = << >> /\ (OpenCoroutine \/ work[h] = {})
     \/ hPc[h] = "coro" /\ work[h] = {}
  /\ hPc' = [hPc EXCEPT ![h] = IF OpenCoroutine /\ @ = "drain" THEN "coro" ELSE "loop"]
  /\ UNCHANGED <<netSide, ready, sbuffer, rbuffer, work>>

HandleStep(h) ==
  \/ HandleLoop(h) \/ HandleTimeout(h) \/ HandlePop(h) \/ HandleDrained(h)
  \/ \E recv \in work[h] : HandleRequest(h, recv) \/ HandleThrow(h, recv)
-----------------------------------------------------------------------------
(***************************************************************************)
(* Shutdown.                                                               *)
(***************************************************************************)
workVars == <<clientVars, taken, connVars, epoll, ready, netVars, sbuffer, rbuffer,
              work, OpenCoroutine, crashed>>

(* TC_EpollServer::terminate, from the admin servant.                      *)
Terminate ==
  /\ Shutdown /\ ~bTerminate
  /\ bTerminate' = TRUE
  /\ UNCHANGED <<workVars, hPc, netTerm, mainPc>>

(* waitForQuit: leave the wait, stop the net threads one by one ...        *)
MainStopNet ==
  /\ bTerminate
  /\ \/ mainPc = -1
     \/ mainPc \in NetThread /\ netPc[mainPc] = "exit"
  /\ mainPc' = mainPc + 1
  /\ netTerm' = IF mainPc' \in NetThread THEN [netTerm EXCEPT ![mainPc'] = TRUE]
                                         ELSE netTerm
  /\ UNCHANGED <<workVars, hPc, bTerminate>>

(* ... then stopThread wakes the handles ...                               *)
MainNotifyHandles ==
  /\ mainPc = N
  /\ hPc' = [h \in Handle |-> IF hPc[h] = "wait" THEN "drain" ELSE hPc[h]]
  /\ mainPc' = N + 1
  /\ UNCHANGED <<workVars, bTerminate, netTerm>>

(* ... and joins them.                                                     *)
MainJoinHandles ==
  /\ mainPc = N + 1
  /\ \A h \in Handle : hPc[h] = "exit"
  /\ mainPc' = N + 2
  /\ UNCHANGED <<workVars, hPc, bTerminate, netTerm>>

Main == MainStopNet \/ MainNotifyHandles \/ MainJoinHandles

Next ==
  /\ ~crashed
  /\ \/ Client
     \/ AcceptStep
     \/ \E n \in NetThread : NetStep(n) \/ TornLookup(n)
     \/ \E h \in Handle : HandleStep(h)
     \/ Terminate \/ Main

Spec == Init /\ [][Next]_vars

(* Every thread keeps running and every timed wait ends.  Thread 0 takes   *)
(* its accept steps and its events alike.                                  *)
Fairness ==
  /\ WF_vars(~crashed /\ (AcceptStep \/ NetStep(0)))
  /\ \A n \in NetThread \ {0} : WF_vars(~crashed /\ NetStep(n))
  /\ \A h \in Handle : WF_vars(~crashed /\ HandleStep(h))
  /\ WF_vars(~crashed /\ Main)

FairSpec == Spec /\ Fairness
-----------------------------------------------------------------------------
(***************************************************************************)
(* Properties.                                                             *)
(***************************************************************************)

(* The variables keep their types.                                         *)
TypeOK ==
  /\ peer \in [Conn -> {"none", "open", "fin", "rst"}]
  /\ written \in [Conn -> 0 .. MaxReq]
  /\ taken \in [Conn -> 0 .. MaxReq]
  /\ delivered \in [Conn -> Seq(Request)]
  /\ unsent \in [Conn -> SUBSET Request]
  /\ accepted \subseteq Conn
  /\ fdOf \in [Conn -> Fd \cup {NoFd}]
  /\ uidOf \in [Conn -> Uid \cup {0}]
  /\ free \in [NetThread -> Seq(Uid)]
  /\ uidConn \in [NetThread -> [Uid -> Conn \cup {None}]]
  /\ epoll \in [NetThread -> [Fd -> Uid \cup {0}]]
  /\ ready \in [NetThread -> SUBSET (Uid \cup {Notify, Listen})]
  /\ batch \in [NetThread -> SUBSET ((Uid \cup {Notify, Listen}) \X BOOLEAN)]
  /\ netPc \in [NetThread -> {"wait", "run", "accept", "insert", "add", "del",
                              "close", "exit"}]
  /\ cur \in [NetThread -> (Conn \cup {None}) \X (Fd \cup {NoFd})]
  /\ pipe \in [NetThread -> Seq(SendData)]
  /\ sbuffer \in [NetThread -> Seq(SendData)]
  /\ rbuffer \in Seq(RecvData)
  /\ hPc \in [Handle -> {"loop", "wait", "drain", "coro", "exit"}]
  /\ work \in [Handle -> SUBSET RecvData]
  /\ bTerminate \in BOOLEAN
  /\ netTerm \in [NetThread -> BOOLEAN]
  /\ mainPc \in -1 .. N + 2
  /\ OpenCoroutine \in Modes
  /\ crashed \in BOOLEAN

(* A client only ever receives responses to its own requests, and each at  *)
(* most once, although a response carries nothing but a uid and the fd of  *)
(* a socket that may be closed and given to another client by the time it  *)
(* is sent.                                                                *)
ResponseIsolation ==
  \A c \in Conn :
    /\ \A i \in 1 .. Len(delivered[c]) : delivered[c][i][1] = c
    /\ \A i, j \in 1 .. Len(delivered[c]) :
         delivered[c][i] = delivered[c][j] => i = j

(* A connection that is neither being added nor being deleted is in the    *)
(* epoll of the thread of its descriptor, under its own uid, and that uid  *)
(* leads back to it: no deletion on one thread takes away what an accept   *)
(* on thread 0 has just added for a reused descriptor.  The tables hold    *)
(* what TypeOK says.                                                       *)
RegisteredWhileOpen ==
  TypeOK /\ \A c \in Conn :
    (Open(c) /\ \A n \in NetThread : cur[n][1] # c) =>
      LET n == ThreadOf(fdOf[c])
      IN epoll[n][fdOf[c]] = uidOf[c] /\ uidConn[n][uidOf[c]] = c

(* The business code is told that a connection is closed after it has been *)
(* given every request read from it.                                       *)
CloseEventLast ==
  \A i, j \in 1 .. Len(rbuffer) :
    (i < j /\ rbuffer[i].isClosed /\ rbuffer[i].req[1] = rbuffer[j].req[1])
      => rbuffer[j].isClosed

(* The server still holds something of the connection.                     *)
Pending(c) ==
  \/ \E i \in 1 .. Len(rbuffer) : rbuffer[i].req[1] = c
  \/ \E h \in Handle : \E r \in work[h] : r.req[1] = c
  \/ \E n \in NetThread : \E i \in 1 .. Len(sbuffer[n]) : sbuffer[n][i].req[1] = c
  \/ \E n \in NetThread : \E i \in 1 .. Len(pipe[n]) : pipe[n][i].req[1] = c

(* A request written on a connection is eventually read and answered, and  *)
(* nothing of it stays behind in a queue, unless the connection or the     *)
(* process ends first: no edge of the edge-triggered epoll and no wakeup   *)
(* of a handle or of a net thread is lost for good.                        *)
RequestServed ==
  \A c \in Conn, i \in 1 .. MaxReq :
    (written[c] >= i) ~>
      \/ peer[c] # "open" \/ crashed \/ bTerminate
      \/ taken[c] >= i /\ delivered[c] # << >> /\ ~Pending(c)

(* Once shut down, the server stops: every net thread and every handle     *)
(* leaves its loop and waitForQuit returns.                                *)
StopsWhenTold == bTerminate ~> (mainPc = N + 2 \/ crashed)
=============================================================================
