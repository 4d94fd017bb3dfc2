------------------------- MODULE EpollServerProofs -------------------------
(***************************************************************************)
(* Proofs about the server for every number of net threads, handles,       *)
(* descriptors, connections and requests: the epoll and the uid table of a *)
(* net thread lead to the right connection although thread 0 writes to     *)
(* both, a close event follows the requests of its connection, and no      *)
(* client gets the response to another's request or one response twice.    *)
(***************************************************************************)
EXTENDS EpollServer, SequenceFacts

-----------------------------------------------------------------------------
(* The tables behind a connection.  Uids are given out in order, each to   *)
(* one connection, and never come back; a connection has one uid, in the   *)
(* table of the thread of its descriptor; a descriptor in use is one       *)
(* connection's.                                                           *)
Tables ==
  /\ \A n \in NetThread : /\ Len(free[n]) <= Total
                          /\ \A i \in 1 .. Len(free[n]) : free[n][i] = Total - Len(free[n]) + i
                          /\ \A u \in Uid : uidConn[n][u] # None <=> u <= Total - Len(free[n])
  /\ \A n \in NetThread, u \in Uid : uidConn[n][u] # None => uidOf[uidConn[n][u]] = u
  /\ \A n, m \in NetThread, u \in Uid :
       uidConn[n][u] # None /\ uidConn[n][u] = uidConn[m][u] => n = m
  /\ \A c \in Conn : Open(c) /\ uidOf[c] # 0 => uidConn[ThreadOf(fdOf[c])][uidOf[c]] = c
  /\ \A c, d \in Conn : Open(c) /\ fdOf[c] = fdOf[d] => c = d
  /\ \A c \in Conn : c \notin accepted => ~Open(c) /\ uidOf[c] = 0

(* The uid is known to more than the accepting thread: the connection has  *)
(* been put into the epoll.                                                *)
Known(n, u) ==
  /\ u \in Uid /\ uidConn[n][u] # None
  /\ netPc[0] = "add" => cur[0][1] # uidConn[n][u]

(* What a net thread has in hand at each of its steps: nothing, or on      *)
(* thread 0 the connection it adds, or a connection of its own it deletes. *)
HandsEmpty ==
  /\ \A n \in NetThread : netPc[n] \in {"accept", "insert", "add"} => n = 0
  /\ \A n \in NetThread : netPc[n] \notin {"insert", "add", "del", "close"} =>
                            cur[n] = <<None, NoFd>>

Adding ==
  /\ netPc[0] \in {"insert", "add"} =>
       /\ cur[0][1] \in accepted /\ cur[0][2] \in Fd
       /\ fdOf[cur[0][1]] = cur[0][2]
       /\ uidOf[cur[0][1]] = 0 <=> netPc[0] = "insert"
  /\ \A c \in accepted : uidOf[c] = 0 => netPc[0] = "insert" /\ cur[0][1] = c

OwnConn(n, c) == c \in Conn /\ Known(n, uidOf[c]) /\ uidConn[n][uidOf[c]] = c

Deleting ==
  \A n \in NetThread : netPc[n] \in {"del", "close"} => OwnConn(n, cur[n][1])

InHand == HandsEmpty /\ Adding /\ Deleting

(* Whatever names a connection by its uid names one that is known to the   *)
(* thread it is used on: the epoll, the events it has to report, those     *)
(* reported, and the responses on their way through the send queue.        *)
EpollUids == \A n \in NetThread, f \in Fd : epoll[n][f] # 0 => Known(n, epoll[n][f])
ReadyUids == \A n \in NetThread : \A u \in ready[n] : u \in Uid => Known(n, u)
BatchUids == \A n \in NetThread : \A e \in batch[n] : e[1] \in Uid => Known(n, e[1])

Addressed(n, send) == Known(n, send.uid) /\ uidConn[n][send.uid] = send.req[1]

SendUids == \A n \in NetThread : \A i \in 1 .. Len(sbuffer[n]) : Addressed(n, sbuffer[n][i])
PipeUids == \A n \in NetThread : \A i \in 1 .. Len(pipe[n]) : Addressed(n, pipe[n][i])

KnownUids == EpollUids /\ ReadyUids /\ BatchUids /\ SendUids /\ PipeUids

(* A request read from a connection names the connection, its uid and a    *)
(* thread that knows it, whatever has become of the descriptor since.      *)
FromConnection(recv) ==
  /\ recv.req \in Request /\ recv.fd \in Fd /\ Known(ThreadOf(recv.fd), recv.uid)
  /\ uidConn[ThreadOf(recv.fd)][recv.uid] = recv.req[1]

RequestsKnown ==
  /\ \A i \in 1 .. Len(rbuffer) : ~rbuffer[i].isClosed => FromConnection(rbuffer[i])
  /\ \A h \in Handle : \A r \in work[h] : ~r.isClosed /\ FromConnection(r)

(* A connection that no thread is adding or deleting is in the epoll of    *)
(* its thread under its own uid.                                           *)
InEpoll ==
  \A c \in Conn : Open(c) /\ (\A n \in NetThread : cur[n][1] # c)
                    => epoll[ThreadOf(fdOf[c])][fdOf[c]] = uidOf[c]

(* A connection whose close event is in the queue is closed or about to be *)
(* and will not be opened again.                                           *)
Closing(c) ==
  /\ c \in accepted
  /\ Open(c) => \E n \in NetThread : netPc[n] \in {"del", "close"} /\ cur[n][1] = c

CloseOrder ==
  /\ CloseEventLast
  /\ \A i \in 1 .. Len(rbuffer) : rbuffer[i].isClosed => Closing(rbuffer[i].req[1])

(* The requests in a queue, and that each is in it once.  A close event    *)
(* has position 0, which is no request's.                                  *)
Asked(s) == {s[i].req : i \in 1 .. Len(s)} \cap Request
Once(s)  == \A i, j \in 1 .. Len(s) : s[i].req \in Request /\ s[i].req = s[j].req => i = j

InQueue    == Asked(rbuffer)
InWork(h)  == {r.req : r \in work[h]}
InSend(n)  == Asked(sbuffer[n])
InPipe(n)  == Asked(pipe[n])
Arrived(c) == ToSet(delivered[c])

OncePerQueue ==
  /\ Once(rbuffer)
  /\ \A h \in Handle : \A r, s \in work[h] : r.req = s.req => r = s
  /\ \A n \in NetThread : Once(sbuffer[n]) /\ Once(pipe[n])
  /\ \A c \in Conn : IsInjective(delivered[c])

(* A request is in one place: the adapter's queue, a handle, a send queue  *)
(* on its way to processPipe or in it, or the client's socket.             *)
OnePlace ==
  /\ \A h \in Handle : InWork(h) \cap InQueue = {}
  /\ \A h, g \in Handle : h # g => InWork(h) \cap InWork(g) = {}
  /\ \A n \in NetThread : InSend(n) \cap InQueue = {} /\ InPipe(n) \cap InQueue = {}
  /\ \A n \in NetThread, h \in Handle :
       InSend(n) \cap InWork(h) = {} /\ InPipe(n) \cap InWork(h) = {}
  /\ \A n, m \in NetThread : InSend(n) \cap InPipe(m) = {}
  /\ \A n, m \in NetThread :
       n # m => InSend(n) \cap InSend(m) = {} /\ InPipe(n) \cap InPipe(m) = {}
  /\ \A c \in Conn : Arrived(c) \cap InQueue = {}
  /\ \A c \in Conn, h \in Handle : Arrived(c) \cap InWork(h) = {}
  /\ \A c \in Conn, n \in NetThread :
       Arrived(c) \cap InSend(n) = {} /\ Arrived(c) \cap InPipe(n) = {}

(* No request is anywhere before it has been read.                         *)
Read(q) == q[2] <= taken[q[1]]

ReadBefore ==
  /\ \A c \in Conn : taken[c] <= written[c]
  /\ \A q \in InQueue : Read(q)
  /\ \A h \in Handle : \A q \in InWork(h) : Read(q)
  /\ \A n \in NetThread : \A q \in InSend(n) \cup InPipe(n) : Read(q)
  /\ \A c \in Conn : \A q \in Arrived(c) : Read(q)

(* What a client has got is the answer to a request of its own.            *)
OwnResponses == \A c \in Conn : \A q \in Arrived(c) : q[1] = c

RequestOnce == OncePerQueue /\ OnePlace /\ ReadBefore /\ OwnResponses

ServerInv == /\ TypeOK /\ Tables /\ InHand /\ KnownUids /\ RequestsKnown /\ InEpoll
             /\ CloseOrder /\ RequestOnce

USE NAssumption, FdAssumption, TotalAssumption, MaxReqAssumption, ModeAssumption,
    NoneAssumption

(* getNetThreadOfFd names a net thread.                                    *)
LEMMA ThreadOfType == \A f \in Fd : ThreadOf(f) \in NetThread
  BY DEF ThreadOf, NetThread

(* Notifying the epoll of a connection's thread keeps the type of ready.   *)
LEMMA EdgeType ==
  ASSUME TypeOK, NEW c \in Conn, Edge(c)
  PROVE  ready' \in [NetThread -> SUBSET (Uid \cup {Notify, Listen})]
<1>1. CASE Open(c) /\ epoll[ThreadOf(fdOf[c])][fdOf[c]] # 0
  <2>1. fdOf[c] \in Fd /\ ThreadOf(fdOf[c]) \in NetThread
    BY <1>1, ThreadOfType DEF TypeOK, Open
  <2>2. epoll[ThreadOf(fdOf[c])][fdOf[c]] \in Uid
    <3>1. epoll[ThreadOf(fdOf[c])] \in [Fd -> Uid \cup {0}]
      BY <2>1 DEF TypeOK
    <3> QED BY <1>1, <2>1, <3>1
  <2> QED BY <1>1, <2>1, <2>2 DEF TypeOK, Edge
<1>2. CASE ~(Open(c) /\ epoll[ThreadOf(fdOf[c])][fdOf[c]] # 0)
  BY <1>2 DEF TypeOK, Edge
<1> QED BY <1>1, <1>2

(* insertRecvQueue keeps the types of the queue and of the handles.        *)
LEMMA InsertType ==
  ASSUME TypeOK, NEW recv \in RecvData, InsertRecvQueue(recv)
  PROVE  /\ rbuffer' \in Seq(RecvData) /\ rbuffer' = Append(rbuffer, recv)
         /\ hPc' \in [Handle -> {"loop", "wait", "drain", "coro", "exit"}]
<1>1. rbuffer' = Append(rbuffer, recv)
  BY DEF InsertRecvQueue
<1>2. hPc' = hPc \/ \E h \in Handle : hPc' = [hPc EXCEPT ![h] = "drain"]
  BY DEF InsertRecvQueue
<1>3. rbuffer' \in Seq(RecvData)
  BY <1>1, AppendFacts DEF TypeOK
<1>4. hPc' \in [Handle -> {"loop", "wait", "drain", "coro", "exit"}]
  BY <1>2 DEF TypeOK
<1> QED BY <1>1, <1>3, <1>4

(* A known uid leads to a connection, and to no other thread's.            *)
LEMMA KnownConn ==
  ASSUME TypeOK, Tables, NEW n \in NetThread, NEW u, Known(n, u)
  PROVE  u \in Uid /\ uidConn[n][u] \in Conn /\ uidOf[uidConn[n][u]] = u
  BY DEF TypeOK, Tables, Known

(* An event names a known uid.                                             *)
LEMMA BatchKnown ==
  ASSUME KnownUids, NEW n \in NetThread, NEW u \in Uid, NEW b, <<u, b>> \in batch[n]
  PROVE  Known(n, u)
<1>1. <<u, b>>[1] = u
  OBVIOUS
<1> QED BY <1>1 DEF KnownUids, BatchUids

(* So does what processPipe takes next.                                    *)
LEMMA PipeKnown ==
  ASSUME TypeOK, KnownUids, NEW n \in NetThread, pipe[n] # << >>
  PROVE  /\ Known(n, Head(pipe[n]).uid) /\ Head(pipe[n]) = pipe[n][1]
         /\ 1 \in 1 .. Len(pipe[n]) /\ Head(pipe[n]) \in SendData
         /\ Head(pipe[n]).req \in Request
         /\ uidConn[n][Head(pipe[n]).uid] = Head(pipe[n]).req[1]
<1>1. pipe[n] \in Seq(SendData)
  BY DEF TypeOK
<1>2. 1 \in 1 .. Len(pipe[n]) /\ Head(pipe[n]) = pipe[n][1] /\ Head(pipe[n]) \in SendData
  BY <1>1, EmptySeq, LenProperties, HeadTailProperties
<1>3. Head(pipe[n]).req \in Request
  BY <1>2 DEF SendData
<1> QED BY <1>2, <1>3 DEF KnownUids, PipeUids, Addressed

(* The close event of delConnection is a tagRecvData.                      *)
LEMMA DelType ==
  ASSUME TypeOK, NEW n \in NetThread, NEW c \in Conn, uidOf[c] \in Uid,
         DelConnection(n, c)
  PROVE  /\ rbuffer' \in Seq(RecvData)
         /\ rbuffer' = Append(rbuffer, [uid |-> uidOf[c], fd |-> fdOf[c],
                                        isClosed |-> TRUE, req |-> <<c, 0>>])
         /\ hPc' \in [Handle -> {"loop", "wait", "drain", "coro", "exit"}]
         /\ cur' = [cur EXCEPT ![n] = <<c, fdOf[c]>>]
         /\ cur' \in [NetThread -> (Conn \cup {None}) \X (Fd \cup {NoFd})]
         /\ netPc' = [netPc EXCEPT ![n] = "del"]
<1> DEFINE recv == [uid |-> uidOf[c], fd |-> fdOf[c], isClosed |-> TRUE, req |-> <<c, 0>>]
<1>1. recv \in RecvData
  BY DEF TypeOK, RecvData
<1>2. InsertRecvQueue(recv) /\ cur' = [cur EXCEPT ![n] = <<c, fdOf[c]>>]
      /\ netPc' = [netPc EXCEPT ![n] = "del"]
  BY DEF DelConnection
<1> HIDE DEF recv
<1>3. /\ rbuffer' \in Seq(RecvData) /\ rbuffer' = Append(rbuffer, recv)
      /\ hPc' \in [Handle -> {"loop", "wait", "drain", "coro", "exit"}]
  BY <1>1, <1>2, InsertType
<1>4. cur' \in [NetThread -> (Conn \cup {None}) \X (Fd \cup {NoFd})]
  BY <1>2 DEF TypeOK
<1> QED BY <1>2, <1>3, <1>4 DEF recv

(* NetThread::send and close keep the types of the send queue and of ready.*)
LEMMA PushType ==
  ASSUME TypeOK, NEW n \in NetThread, NEW send \in SendData, PushSend(n, send)
  PROVE  /\ sbuffer' \in [NetThread -> Seq(SendData)]
         /\ sbuffer' = [sbuffer EXCEPT ![n] = Append(@, send)]
         /\ ready' \in [NetThread -> SUBSET (Uid \cup {Notify, Listen})]
<1>1. Append(sbuffer[n], send) \in Seq(SendData)
  BY AppendFacts DEF TypeOK
<1> QED BY <1>1 DEF TypeOK, PushSend

(* There is a free uid for the connection being added: the uids given out  *)
(* belong to other connections, of which there are fewer than Total.       *)
LEMMA FreeUid ==
  ASSUME TypeOK, Tables, InHand, netPc[0] = "insert"
  PROVE  /\ ThreadOf(cur[0][2]) \in NetThread
         /\ free[ThreadOf(cur[0][2])] # << >>
<1> DEFINE n == ThreadOf(cur[0][2])
           c == cur[0][1]
           k == Total - Len(free[n])
           f == [u \in 1 .. k |-> uidConn[n][u]]
<1>1. n \in NetThread /\ c \in Conn /\ uidOf[c] = 0
  BY ThreadOfType DEF InHand, HandsEmpty, Adding, Deleting, OwnConn, TypeOK
<1>2. Len(free[n]) \in Nat /\ Len(free[n]) <= Total /\ Total \in Nat
  BY <1>1, LenProperties DEF TypeOK, Tables
<1> HIDE DEF n, c
<1>3. k \in 0 .. Total
  BY <1>2
<1>4. f \in Injection(1 .. k, Conn \ {c})
  <2>1. \A u \in 1 .. k : u \in Uid /\ uidConn[n][u] # None
    BY <1>1, <1>2, <1>3 DEF Tables, Uid
  <2>2. \A u \in 1 .. k : uidConn[n][u] \in Conn /\ uidOf[uidConn[n][u]] = u
    BY <1>1, <2>1 DEF Tables, TypeOK
  <2>3. \A u \in 1 .. k : uidConn[n][u] # c
    BY <1>1, <2>2
  <2> HIDE DEF k
  <2>4. f \in [1 .. k -> Conn \ {c}]
    BY <2>2, <2>3
  <2>5. \A u, v \in 1 .. k : f[u] = f[v] => u = v
    BY <2>2
  <2> HIDE DEF f
  <2> QED BY <2>4, <2>5 DEF Injection, IsInjective
<1>5. IsFiniteSet(Conn \ {c}) /\ Cardinality(Conn \ {c}) = Cardinality(Conn) - 1
  BY <1>1, FS_RemoveElement
<1>6. Cardinality(Conn) \in Nat
  BY FS_CardinalityType
<1>7. Cardinality(1 .. k) = k
  BY <1>3, FS_Interval
<1> HIDE DEF f, k
<1>8. k <= Cardinality(Conn) - 1
  BY <1>4, <1>5, <1>7, FS_Injection
<1>9. k < Total
  BY <1>3, <1>6, <1>8
<1>10. Len(free[n]) # 0
  BY <1>2, <1>9 DEF k
<1> QED BY <1>1, <1>10, EmptySeq DEF n

(* Every step keeps the types.                                             *)
LEMMA TypeStep ==
  TypeOK /\ Tables /\ InHand /\ KnownUids /\ RequestsKnown /\ [Next]_vars => TypeOK'
<1> SUFFICES ASSUME TypeOK, Tables, InHand, KnownUids, RequestsKnown, [Next]_vars
             PROVE  TypeOK'
  OBVIOUS
<1> USE DEF clientVars, connVars, netVars, handleVars, stopVars, serverVars,
            netSide, workVars, TypeOK, NextEvent, Notify, Listen
<1>1. ASSUME NEW c \in Conn, Connect(c) PROVE TypeOK'
  BY <1>1 DEF Connect
<1>2. ASSUME NEW c \in Conn, Write(c) PROVE TypeOK'
  <2>1. Edge(c)
    BY <1>2 DEF Write
  <2>2. ready' \in [NetThread -> SUBSET (Uid \cup {Notify, Listen})]
    BY <2>1, EdgeType
  <2> QED BY <1>2, <2>2 DEF Write
<1>3. ASSUME NEW c \in Conn, ClientClose(c) PROVE TypeOK'
  <2>1. Edge(c)
    BY <1>3 DEF ClientClose
  <2>2. ready' \in [NetThread -> SUBSET (Uid \cup {Notify, Listen})]
    BY <2>1, EdgeType
  <2> QED BY <1>3, <2>2 DEF ClientClose
<1>4. CASE AcceptLoop
  <2>0. 0 \in NetThread
    BY DEF NetThread
  <2>1. /\ batch' \in [NetThread -> SUBSET ((Uid \cup {Notify, Listen}) \X BOOLEAN)]
        /\ netPc' \in [NetThread -> {"wait", "run", "accept", "insert", "add", "del",
                                     "close", "exit"}]
    <3>1. /\ batch' = batch \/ batch' = [batch EXCEPT ![0] = @ \ {<<Listen, FALSE>>}]
          /\ \E p \in {"accept", "run"} : netPc' = [netPc EXCEPT ![0] = p]
      BY <1>4 DEF AcceptLoop
    <3>2. batch[0] \ {<<Listen, FALSE>>} \in SUBSET ((Uid \cup {Notify, Listen}) \X BOOLEAN)
      BY <2>0
    <3> HIDE DEF Notify, Listen
    <3>3. batch' \in [NetThread -> SUBSET ((Uid \cup {Notify, Listen}) \X BOOLEAN)]
      BY <2>0, <3>1, <3>2
    <3>4. netPc' \in [NetThread -> {"wait", "run", "accept", "insert", "add", "del",
                                    "close", "exit"}]
      BY <2>0, <3>1
    <3> QED BY <3>3, <3>4
  <2>2. UNCHANGED <<clientVars, taken, connVars, epoll, ready, cur, pipe, sbuffer,
                    rbuffer, handleVars, stopVars, crashed>>
    BY <1>4 DEF AcceptLoop
  <2> QED BY <2>1, <2>2
<1>5. ASSUME NEW c \in Conn, NEW fd \in Fd, Accept(c, fd) PROVE TypeOK'
  BY <1>5 DEF Accept
<1>6. CASE AddTcpConnection
  <2> DEFINE c == cur[0][1]
             n == ThreadOf(cur[0][2])
             uid == Head(free[n])
  <2>1. c \in Conn /\ n \in NetThread /\ free[n] # << >>
    BY <1>6, FreeUid DEF AddTcpConnection, InHand, HandsEmpty, Adding, Deleting, OwnConn
  <2>2. uid \in Uid /\ Tail(free[n]) \in Seq(Uid)
    BY <2>1, TailFacts
  <2>3. /\ uidOf' = [uidOf EXCEPT ![c] = uid] /\ free' = [free EXCEPT ![n] = Tail(@)]
        /\ uidConn' = [uidConn EXCEPT ![n][uid] = c]
    BY <1>6 DEF AddTcpConnection
  <2> HIDE DEF c, n, uid
  <2>4. /\ uidOf' \in [Conn -> Uid \cup {0}] /\ free' \in [NetThread -> Seq(Uid)]
        /\ uidConn' \in [NetThread -> [Uid -> Conn \cup {None}]]
    BY <2>1, <2>2, <2>3
  <2> QED BY <1>6, <2>4 DEF AddTcpConnection
<1>7. CASE EpollAdd
  <2> DEFINE c == cur[0][1]
             fd == cur[0][2]
             n == ThreadOf(fd)
  <2>1. c \in Conn /\ fd \in Fd /\ n \in NetThread /\ uidOf[c] \in Uid
    BY <1>7, ThreadOfType DEF EpollAdd, InHand, HandsEmpty, Adding, Deleting, OwnConn
  <2>2. /\ epoll' = [epoll EXCEPT ![n][fd] = uidOf[c]]
        /\ ready' = [ready EXCEPT ![n] = @ \cup {uidOf[c]}]
    BY <1>7 DEF EpollAdd
  <2> HIDE DEF c, fd, n
  <2>3. epoll' \in [NetThread -> [Fd -> Uid \cup {0}]]
    BY <2>1, <2>2
  <2>4. ready' \in [NetThread -> SUBSET (Uid \cup {Notify, Listen})]
    BY <2>1, <2>2
  <2> QED BY <1>7, <2>3, <2>4 DEF EpollAdd
<1>8. ASSUME NEW n \in NetThread, NetWait(n) PROVE TypeOK'
  <2> DEFINE hup(u) == u \in Uid /\ peer[uidConn[n][u]] = "rst"
             events == {<<u, hup(u)>> : u \in ready[n]}
  <2>1. \A u : hup(u) \in BOOLEAN
    BY Zenon
  <2>2. batch' = [batch EXCEPT ![n] = events]
    BY <1>8 DEF NetWait
  <2> HIDE DEF hup
  <2>3. batch' \in [NetThread -> SUBSET ((Uid \cup {Notify, Listen}) \X BOOLEAN)]
    <3>1. \A u \in ready[n] : <<u, hup(u)>> \in (Uid \cup {Notify, Listen}) \X BOOLEAN
      BY <2>1
    <3>2. events \subseteq (Uid \cup {Notify, Listen}) \X BOOLEAN
      BY <3>1
    <3> HIDE DEF events
    <3> QED BY <2>2, <3>2
  <2>4. /\ ready' = [ready EXCEPT ![n] = {}]
        /\ netPc' = [netPc EXCEPT ![n] = "run"]
    BY <1>8 DEF NetWait
  <2>5. UNCHANGED <<clientVars, taken, connVars, epoll, cur, pipe, sbuffer, rbuffer,
                    handleVars, stopVars, crashed>>
    BY <1>8 DEF NetWait
  <2> QED BY <2>3, <2>4, <2>5
<1>9. ASSUME NEW n \in NetThread, NetLoop(n) PROVE TypeOK'
  BY <1>9 DEF NetLoop
<1>10. ASSUME NEW n \in NetThread, EpollDel(n) PROVE TypeOK'
  <2> DEFINE fd == fdOf[cur[n][1]]
  <2>1. /\ epoll' = epoll \/ (fd \in Fd /\ epoll' = [epoll EXCEPT ![n][fd] = 0])
        /\ ready' = ready \/ ready' = [ready EXCEPT ![n] = @ \ {epoll[n][fd]}]
    BY <1>10 DEF EpollDel
  <2> HIDE DEF fd
  <2>2. epoll' \in [NetThread -> [Fd -> Uid \cup {0}]]
    <3>1. CASE fd \in Fd /\ epoll' = [epoll EXCEPT ![n][fd] = 0]
      <4>1. [epoll[n] EXCEPT ![fd] = 0] \in [Fd -> Uid \cup {0}]
        OBVIOUS
      <4> QED BY <3>1, <4>1
    <3> QED BY <2>1, <3>1
  <2>3. ready' \in [NetThread -> SUBSET (Uid \cup {Notify, Listen})]
    <3>1. ready[n] \ {epoll[n][fd]} \in SUBSET (Uid \cup {Notify, Listen})
      OBVIOUS
    <3> QED BY <2>1, <3>1
  <2> QED BY <1>10, <2>2, <2>3 DEF EpollDel
<1>11. ASSUME NEW n \in NetThread, CloseSocket(n) PROVE TypeOK'
  BY <1>11 DEF CloseSocket
<1>12. ASSUME NEW n \in NetThread, NEW u \in Uid, NetHup(n, u) PROVE TypeOK'
  <2> DEFINE c == uidConn[n][u]
  <2>1. c \in Conn /\ uidOf[c] \in Uid
    <3>1. Known(n, u)
      BY <1>12, BatchKnown DEF NetHup
    <3> QED BY <3>1, KnownConn
  <2>2. DelConnection(n, c)
    BY <1>12 DEF NetHup
  <2> HIDE DEF c
  <2>3. /\ rbuffer' \in Seq(RecvData)
        /\ hPc' \in [Handle -> {"loop", "wait", "drain", "coro", "exit"}]
        /\ cur' \in [NetThread -> (Conn \cup {None}) \X (Fd \cup {NoFd})]
        /\ netPc' = [netPc EXCEPT ![n] = "del"]
    BY <2>1, <2>2, DelType
  <2> QED BY <1>12, <2>3 DEF NetHup
<1>13. ASSUME NEW n \in NetThread, NEW u \in Uid, NetRecv(n, u) PROVE TypeOK'
  <2> DEFINE c == uidConn[n][u]
             recv == [uid |-> u, fd |-> fdOf[c], isClosed |-> FALSE,
                      req |-> <<c, taken[c] + 1>>]
  <2>1. c \in Conn
    <3>1. Known(n, u)
      BY <1>13, BatchKnown DEF NetRecv
    <3> QED BY <3>1, KnownConn
  <2>2. taken[c] < written[c] /\ InsertRecvQueue(recv) /\ taken' = [taken EXCEPT ![c] = written[c]]
    BY <1>13 DEF NetRecv, Unread
  <2>3. recv \in RecvData
    <3>1. taken[c] \in 0 .. MaxReq /\ written[c] \in 0 .. MaxReq
      BY <2>1
    <3>2. taken[c] + 1 \in 0 .. MaxReq
      BY <2>2, <3>1
    <3>3. fdOf[c] \in Fd \cup {NoFd}
      BY <2>1
    <3> HIDE DEF c
    <3> QED BY <2>1, <3>2, <3>3 DEF RecvData
  <2> HIDE DEF c, recv
  <2>4. /\ rbuffer' \in Seq(RecvData)
        /\ hPc' \in [Handle -> {"loop", "wait", "drain", "coro", "exit"}]
    BY <2>2, <2>3, InsertType
  <2>5. taken' \in [Conn -> 0 .. MaxReq]
    BY <2>1, <2>2
  <2> QED BY <1>13, <2>4, <2>5 DEF NetRecv
<1>14. ASSUME NEW n \in NetThread, NEW u \in Uid, NetIdle(n, u) PROVE TypeOK'
  BY <1>14 DEF NetIdle
<1>15. ASSUME NEW n \in NetThread, NEW u \in Uid, NetEof(n, u) PROVE TypeOK'
  <2> DEFINE c == uidConn[n][u]
  <2>1. c \in Conn /\ uidOf[c] \in Uid
    <3>1. Known(n, u)
      BY <1>15, BatchKnown DEF NetEof
    <3> QED BY <3>1, KnownConn
  <2>2. DelConnection(n, c)
    BY <1>15 DEF NetEof
  <2> HIDE DEF c
  <2>3. /\ rbuffer' \in Seq(RecvData)
        /\ hPc' \in [Handle -> {"loop", "wait", "drain", "coro", "exit"}]
        /\ cur' \in [NetThread -> (Conn \cup {None}) \X (Fd \cup {NoFd})]
        /\ netPc' = [netPc EXCEPT ![n] = "del"]
    BY <2>1, <2>2, DelType
  <2>4. taken' = taken \/ taken' = [taken EXCEPT ![c] = written[c]]
    BY <1>15 DEF NetEof, c
  <2>5. taken' \in [Conn -> 0 .. MaxReq]
    BY <2>1, <2>4
  <2>6. batch' \in [NetThread -> SUBSET ((Uid \cup {Notify, Listen}) \X BOOLEAN)]
    BY <1>15 DEF NetEof
  <2>7. UNCHANGED <<clientVars, connVars, epoll, ready, pipe, sbuffer, work, stopVars,
                    crashed>>
    BY <1>15 DEF NetEof
  <2> QED BY <2>3, <2>5, <2>6, <2>7
<1>16. ASSUME NEW n \in NetThread, ProcessPipe(n) PROVE TypeOK'
  BY <1>16 DEF ProcessPipe
<1>17. ASSUME NEW n \in NetThread, PipeClose(n) PROVE TypeOK'
  <2> DEFINE c == uidConn[n][Head(pipe[n]).uid]
  <2>1. c \in Conn /\ uidOf[c] \in Uid
    <3>1. pipe[n] # << >>
      BY <1>17 DEF PipeClose
    <3>2. Known(n, Head(pipe[n]).uid)
      BY <3>1, PipeKnown
    <3> QED BY <3>2, KnownConn
  <2>2. DelConnection(n, c)
    BY <1>17 DEF PipeClose
  <2> HIDE DEF c
  <2>3. /\ rbuffer' \in Seq(RecvData)
        /\ hPc' \in [Handle -> {"loop", "wait", "drain", "coro", "exit"}]
        /\ cur' \in [NetThread -> (Conn \cup {None}) \X (Fd \cup {NoFd})]
        /\ netPc' = [netPc EXCEPT ![n] = "del"]
    BY <2>1, <2>2, DelType
  <2>4. pipe' \in [NetThread -> Seq(SendData)]
    <3>1. Tail(pipe[n]) \in Seq(SendData)
      BY <1>17, TailFacts DEF PipeClose
    <3> QED BY <1>17, <3>1 DEF PipeClose
  <2> QED BY <1>17, <2>3, <2>4 DEF PipeClose
<1>18. ASSUME NEW n \in NetThread, PipeSend(n) PROVE TypeOK'
  <2> DEFINE c == uidConn[n][Head(pipe[n]).uid]
             req == Head(pipe[n]).req
  <2>1. c \in Conn
    <3>1. pipe[n] # << >>
      BY <1>18 DEF PipeSend
    <3>2. Known(n, Head(pipe[n]).uid)
      BY <3>1, PipeKnown
    <3> QED BY <3>2, KnownConn
  <2>2. req \in Request /\ Tail(pipe[n]) \in Seq(SendData)
    BY <1>18, PipeKnown, TailFacts DEF PipeSend
  <2>3. \/ UNCHANGED ready
        \/ Edge(c)
    BY <1>18 DEF PipeSend
  <2>4. \/ UNCHANGED delivered
        \/ delivered' = [delivered EXCEPT ![c] = Append(@, req)]
    BY <1>18 DEF PipeSend
  <2>5. /\ peer' = peer \/ peer' = [peer EXCEPT ![c] = "rst"]
        /\ unsent' = unsent \/ unsent' = [unsent EXCEPT ![c] = @ \cup {req}]
        /\ crashed' = crashed \/ crashed' = TRUE
        /\ pipe' = [pipe EXCEPT ![n] = Tail(@)]
    BY <1>18 DEF PipeSend
  <2>6. UNCHANGED <<written, taken, connVars, epoll, batch, netPc, cur, sbuffer,
                    rbuffer, handleVars, stopVars>>
    BY <1>18 DEF PipeSend
  <2> HIDE DEF c, req
  <2>7. ready' \in [NetThread -> SUBSET (Uid \cup {Notify, Listen})]
    BY <2>1, <2>3, EdgeType
  <2>8. delivered' \in [Conn -> Seq(Request)]
    <3>1. Append(delivered[c], req) \in Seq(Request)
      BY <2>1, <2>2, AppendFacts
    <3> QED BY <2>1, <2>4, <3>1
  <2>9. unsent' \in [Conn -> SUBSET Request]
    <3>1. unsent[c] \cup {req} \in SUBSET Request
      BY <2>1, <2>2
    <3>2. [unsent EXCEPT ![c] = @ \cup {req}] \in [Conn -> SUBSET Request]
      BY <2>1, <3>1
    <3>3. unsent \in [Conn -> SUBSET Request]
      OBVIOUS
    <3> QED BY <2>5, <3>2, <3>3
  <2>10. crashed' \in BOOLEAN
    BY <2>5, Zenon
  <2>11. pipe' \in [NetThread -> Seq(SendData)]
    BY <2>2, <2>5
  <2>12. peer' \in [Conn -> {"none", "open", "fin", "rst"}]
    BY <2>1, <2>5
  <2> QED BY <2>6, <2>7, <2>8, <2>9, <2>10, <2>11, <2>12
<1>19. ASSUME NEW n \in NetThread, TornLookup(n) PROVE TypeOK'
  BY <1>19 DEF TornLookup
<1>20. ASSUME NEW h \in Handle, HandleLoop(h) PROVE TypeOK'
  BY <1>20 DEF HandleLoop
<1>21. ASSUME NEW h \in Handle, HandleTimeout(h) PROVE TypeOK'
  BY <1>21 DEF HandleTimeout
<1>22. ASSUME NEW h \in Handle, HandlePop(h) PROVE TypeOK'
  BY <1>22 DEF HandlePop
<1>23. ASSUME NEW h \in Handle, HandleDrained(h) PROVE TypeOK'
  BY <1>23 DEF HandleDrained
<1>24. ASSUME NEW h \in Handle, NEW recv \in work[h], HandleRequest(h, recv)
      PROVE  TypeOK'
  <2> DEFINE n == ThreadOf(recv.fd)
             send == [cmd |-> "s", uid |-> recv.uid, req |-> recv.req]
  <2>1. n \in NetThread /\ send \in SendData
    <3>1. FromConnection(recv) /\ recv \in RecvData
      BY DEF RequestsKnown
    <3>2. recv.uid \in Uid /\ recv.req \in Request /\ recv.fd \in Fd
      BY <3>1 DEF FromConnection, RecvData
    <3> QED BY <3>2, ThreadOfType DEF SendData
  <2>3. \/ UNCHANGED <<sbuffer, ready>>
        \/ PushSend(n, send)
    BY <1>24 DEF HandleRequest
  <2>4. work' = [work EXCEPT ![h] = @ \ {recv}]
    BY <1>24 DEF HandleRequest
  <2> HIDE DEF n, send
  <2>5. /\ sbuffer' \in [NetThread -> Seq(SendData)]
        /\ ready' \in [NetThread -> SUBSET (Uid \cup {Notify, Listen})]
    BY <2>1, <2>3, PushType
  <2> QED BY <1>24, <2>4, <2>5 DEF HandleRequest
<1>25. ASSUME NEW h \in Handle, NEW recv \in work[h], HandleThrow(h, recv)
      PROVE  TypeOK'
  <2> DEFINE n == ThreadOf(recv.fd)
             send == [cmd |-> "c", uid |-> recv.uid, req |-> recv.req]
  <2>1. n \in NetThread /\ send \in SendData
    <3>1. FromConnection(recv) /\ recv \in RecvData
      BY DEF RequestsKnown
    <3>2. recv.uid \in Uid /\ recv.req \in Request /\ recv.fd \in Fd
      BY <3>1 DEF FromConnection, RecvData
    <3> QED BY <3>2, ThreadOfType DEF SendData
  <2>3. \/ UNCHANGED <<sbuffer, ready>>
        \/ PushSend(n, send)
    BY <1>25 DEF HandleThrow
  <2>4. work' = [work EXCEPT ![h] = @ \ {recv}]
    BY <1>25 DEF HandleThrow
  <2> HIDE DEF n, send
  <2>5. /\ sbuffer' \in [NetThread -> Seq(SendData)]
        /\ ready' \in [NetThread -> SUBSET (Uid \cup {Notify, Listen})]
    BY <2>1, <2>3, PushType
  <2> QED BY <1>25, <2>4, <2>5 DEF HandleThrow
<1>26. CASE Terminate
  BY <1>26 DEF Terminate
<1>27. CASE MainStopNet
  <2>1. mainPc' \in -1 .. N + 2
    BY <1>27 DEF MainStopNet, NetThread
  <2>2. netTerm' = netTerm \/ netTerm' = [netTerm EXCEPT ![mainPc'] = TRUE]
    BY <1>27 DEF MainStopNet
  <2>3. netTerm' \in [NetThread -> BOOLEAN]
    BY <2>2, Zenon
  <2> QED BY <1>27, <2>1, <2>3 DEF MainStopNet
<1>28. CASE MainNotifyHandles
  BY <1>28 DEF MainNotifyHandles
<1>29. CASE MainJoinHandles
  BY <1>29 DEF MainJoinHandles
<1>30. CASE UNCHANGED vars
  BY <1>30 DEF vars
<1> QED
  BY <1>1, <1>2, <1>3, <1>4, <1>5, <1>6, <1>7, <1>8, <1>9, <1>10, <1>11,
     <1>12, <1>13, <1>14, <1>15, <1>16, <1>17, <1>18, <1>19, <1>20, <1>21,
     <1>22, <1>23, <1>24, <1>25, <1>26, <1>27, <1>28, <1>29, <1>30
     DEF Next, Client, AcceptStep, NetStep, FinishDel, HandleStep, Main

(* The tables depend on nothing but the connections.                       *)
LEMMA TablesFrame == Tables /\ UNCHANGED connVars => Tables'
<1> SUFFICES ASSUME Tables, UNCHANGED connVars PROVE Tables'
  OBVIOUS
<1>1. UNCHANGED <<accepted, fdOf, uidOf, free, uidConn>>
  BY DEF connVars
<1> QED BY <1>1, Zenon DEF Tables, Open

(* Every step keeps the tables.                                            *)
LEMMA TablesStep ==
  TypeOK /\ Tables /\ InHand /\ [Next]_vars => Tables'
<1> SUFFICES ASSUME TypeOK, Tables, InHand, [Next]_vars PROVE Tables'
  OBVIOUS
<1> USE DEF clientVars, connVars, netVars, handleVars, stopVars, serverVars,
            netSide, workVars
<1>1. ASSUME NEW c \in Conn, Connect(c) PROVE Tables'
  BY <1>1, TablesFrame DEF Connect
<1>2. ASSUME NEW c \in Conn, Write(c) PROVE Tables'
  BY <1>2, TablesFrame DEF Write
<1>3. ASSUME NEW c \in Conn, ClientClose(c) PROVE Tables'
  BY <1>3, TablesFrame DEF ClientClose
<1>4. CASE AcceptLoop
  BY <1>4, TablesFrame DEF AcceptLoop
<1>5. ASSUME NEW c \in Conn, NEW fd \in Fd, Accept(c, fd) PROVE Tables'
  <2>1. c \notin accepted /\ ~Open(c) /\ uidOf[c] = 0
    BY <1>5 DEF Accept, Backlog, Tables
  <2>2. fdOf' = [fdOf EXCEPT ![c] = fd] /\ accepted' = accepted \cup {c}
        /\ \A d \in Conn : fdOf[d] # fd
    BY <1>5 DEF Accept
  <2>3. UNCHANGED <<uidOf, free, uidConn>>
    BY <1>5 DEF Accept
  <2> QED BY <2>1, <2>2, <2>3 DEF TypeOK, Tables, Open
<1>6. CASE AddTcpConnection
  <2> DEFINE c == cur[0][1]
             n == ThreadOf(cur[0][2])
             uid == Head(free[n])
             k == Total - Len(free[n])
  <2>1. c \in accepted /\ c \in Conn /\ uidOf[c] = 0 /\ fdOf[c] = cur[0][2]
    BY <1>6 DEF AddTcpConnection, InHand, HandsEmpty, Adding, Deleting, OwnConn, TypeOK
  <2>2. n \in NetThread /\ free[n] # << >> /\ free[n] \in Seq(Uid)
    BY <1>6, FreeUid DEF AddTcpConnection, TypeOK
  <2>3. n = ThreadOf(fdOf[c])
    BY <2>1
  <2>4. /\ uidOf' = [uidOf EXCEPT ![c] = uid] /\ free' = [free EXCEPT ![n] = Tail(@)]
        /\ uidConn' = [uidConn EXCEPT ![n][uid] = c]
        /\ UNCHANGED <<accepted, fdOf>>
    BY <1>6 DEF AddTcpConnection
  <2>5. /\ Len(free[n]) \in 1 .. Total /\ uid = free[n][1] /\ uid \in Uid
        /\ Len(Tail(free[n])) = Len(free[n]) - 1
        /\ \A i \in 1 .. Len(Tail(free[n])) : Tail(free[n])[i] = free[n][i + 1]
    BY <2>2, HeadTailProperties, EmptySeq, LenProperties DEF Tables
  <2>6. uid = k + 1 /\ k \in 0 .. Total - 1
    <3>1. 1 \in 1 .. Len(free[n])
      BY <2>5
    <3>2. free[n][1] = Total - Len(free[n]) + 1
      BY <2>2, <3>1 DEF Tables
    <3> QED BY <2>5, <3>2
  <2> HIDE DEF c, n, uid
  <2>7. uidConn[n][uid] = None
    <3>1. ~(uid <= Total - Len(free[n]))
      BY <2>5, <2>6
    <3> QED BY <2>2, <2>5, <3>1 DEF Tables
  <2>8. \A m \in NetThread, u \in Uid : uidConn[m][u] # c
    BY <2>1 DEF Tables, Uid
  <2>9. /\ uidConn'[n][uid] = c
        /\ \A m \in NetThread, u \in Uid : m # n \/ u # uid => uidConn'[m][u] = uidConn[m][u]
    BY <2>2, <2>4, <2>5 DEF TypeOK
  <2>10. uidOf'[c] = uid /\ \A d \in Conn : d # c => uidOf'[d] = uidOf[d]
    BY <2>1, <2>4 DEF TypeOK
  <2>11. ASSUME NEW m \in NetThread
         PROVE  /\ Len(free'[m]) <= Total
                /\ \A i \in 1 .. Len(free'[m]) : free'[m][i] = Total - Len(free'[m]) + i
                /\ \A u \in Uid : uidConn'[m][u] # None <=> u <= Total - Len(free'[m])
    <3>1. CASE m # n
      BY <2>2, <2>4, <2>9, <3>1 DEF TypeOK, Tables
    <3>2. CASE m = n
      <4>1. free'[m] = Tail(free[n]) /\ Len(free'[m]) = Len(free[n]) - 1
        BY <2>2, <2>4, <2>5, <3>2 DEF TypeOK
      <4>2. \A i \in 1 .. Len(free'[m]) : free'[m][i] = Total - Len(free'[m]) + i
        <5> SUFFICES ASSUME NEW i \in 1 .. Len(free'[m])
                     PROVE  free'[m][i] = Total - Len(free'[m]) + i
          OBVIOUS
        <5>1. i + 1 \in 1 .. Len(free[n]) /\ free'[m][i] = free[n][i + 1]
          BY <2>5, <4>1
        <5>2. free[n][i + 1] = Total - Len(free[n]) + (i + 1)
          BY <2>2, <5>1 DEF Tables
        <5>3. Total - Len(free[n]) + (i + 1) = Total - (Len(free[n]) - 1) + i
          BY <2>5
        <5> QED BY <4>1, <5>1, <5>2, <5>3
      <4>3. \A u \in Uid : uidConn'[m][u] # None <=> u <= Total - Len(free'[m])
        <5> SUFFICES ASSUME NEW u \in Uid
                     PROVE  uidConn'[m][u] # None <=> u <= Total - Len(free'[m])
          OBVIOUS
        <5>1. u \in 1 .. Total
          BY DEF Uid
        <5>2. CASE u = uid
          <6>1. u <= Total - Len(free'[m])
            BY <2>5, <2>6, <4>1, <5>2
          <6> QED BY <2>1, <2>9, <3>2, <5>2, <6>1
        <5>3. CASE u # uid
          <6>1. uidConn'[m][u] = uidConn[m][u]
            BY <2>9, <5>3
          <6>2. u <= Total - Len(free'[m]) <=> u <= Total - Len(free[n])
            BY <2>5, <2>6, <4>1, <5>1, <5>3 DEF k
          <6> QED BY <2>2, <3>2, <6>1, <6>2 DEF Tables
        <5> QED BY <5>2, <5>3
      <4> QED BY <2>5, <4>1, <4>2, <4>3
    <3> QED BY <3>1, <3>2
  <2>12. \A m \in NetThread, u \in Uid : uidConn'[m][u] # None => uidOf'[uidConn'[m][u]] = u
    <3> SUFFICES ASSUME NEW m \in NetThread, NEW u \in Uid, uidConn'[m][u] # None
                 PROVE  uidOf'[uidConn'[m][u]] = u
      OBVIOUS
    <3>1. CASE m = n /\ u = uid
      BY <2>9, <2>10, <3>1
    <3>2. CASE m # n \/ u # uid
      <4>1. uidConn'[m][u] = uidConn[m][u] /\ uidConn[m][u] \in Conn /\ uidConn[m][u] # c
        BY <2>8, <2>9, <3>2 DEF TypeOK
      <4>2. uidOf[uidConn[m][u]] = u
        BY <4>1 DEF Tables
      <4> QED BY <2>10, <4>1, <4>2
    <3> QED BY <3>1, <3>2
  <2>13. \A m, l \in NetThread, u \in Uid :
           uidConn'[m][u] # None /\ uidConn'[m][u] = uidConn'[l][u] => m = l
    <3> SUFFICES ASSUME NEW m \in NetThread, NEW l \in NetThread, NEW u \in Uid,
                        uidConn'[m][u] # None, uidConn'[m][u] = uidConn'[l][u]
                 PROVE  m = l
      OBVIOUS
    <3>1. CASE u = uid
      BY <2>8, <2>9, <3>1 DEF Tables
    <3>2. CASE u # uid
      BY <2>9, <3>2 DEF Tables
    <3> QED BY <3>1, <3>2
  <2>14. ASSUME NEW d \in Conn, Open(d), uidOf'[d] # 0
         PROVE  uidConn'[ThreadOf(fdOf[d])][uidOf'[d]] = d
    <3>1. CASE d = c
      BY <2>2, <2>3, <2>5, <2>9, <2>10, <3>1
    <3>2. CASE d # c
      <4>1. uidOf'[d] = uidOf[d] /\ uidOf[d] \in Uid
        BY <2>10, <2>14, <3>2 DEF TypeOK
      <4>2. ThreadOf(fdOf[d]) \in NetThread
        BY <2>14, ThreadOfType DEF Open, TypeOK
      <4>3. uidConn[ThreadOf(fdOf[d])][uidOf[d]] = d
        BY <2>14, <4>1 DEF Tables
      <4>4. ThreadOf(fdOf[d]) # n \/ uidOf[d] # uid
        BY <2>7, <4>1, <4>3
      <4>5. uidConn'[ThreadOf(fdOf[d])][uidOf[d]] = uidConn[ThreadOf(fdOf[d])][uidOf[d]]
        BY <2>9, <4>1, <4>2, <4>4
      <4> QED BY <4>1, <4>3, <4>5
    <3> QED BY <3>1, <3>2
  <2>15. \A d \in Conn : d \notin accepted => ~Open(d) /\ uidOf'[d] = 0
    BY <2>1, <2>10 DEF Tables
  <2>16. \A d, e \in Conn : Open(d) /\ fdOf[d] = fdOf[e] => d = e
    BY DEF Tables
  <2> QED BY <2>4, <2>11, <2>12, <2>13, <2>14, <2>15, <2>16 DEF Tables, Open
<1>7. CASE EpollAdd
  BY <1>7, TablesFrame DEF EpollAdd
<1>8. ASSUME NEW n \in NetThread, NetWait(n) PROVE Tables'
  BY <1>8, TablesFrame DEF NetWait
<1>9. ASSUME NEW n \in NetThread, NetLoop(n) PROVE Tables'
  BY <1>9, TablesFrame DEF NetLoop
<1>10. ASSUME NEW n \in NetThread, EpollDel(n) PROVE Tables'
  BY <1>10, TablesFrame DEF EpollDel
<1>11. ASSUME NEW n \in NetThread, CloseSocket(n) PROVE Tables'
  <2>1. cur[n][1] \in Conn /\ fdOf' = [fdOf EXCEPT ![cur[n][1]] = NoFd]
    BY <1>11 DEF CloseSocket, InHand, HandsEmpty, Adding, Deleting, OwnConn
  <2>2. UNCHANGED <<accepted, uidOf, free, uidConn>>
    BY <1>11 DEF CloseSocket
  <2>3. \A c \in Conn : Open(c)' => Open(c) /\ fdOf'[c] = fdOf[c]
    BY <2>1 DEF TypeOK, Open
  <2> QED BY <2>2, <2>3 DEF Tables, Open
<1>12. ASSUME NEW n \in NetThread, NEW u \in Uid, NetHup(n, u) PROVE Tables'
  BY <1>12, TablesFrame DEF NetHup
<1>13. ASSUME NEW n \in NetThread, NEW u \in Uid, NetRecv(n, u) PROVE Tables'
  BY <1>13, TablesFrame DEF NetRecv
<1>14. ASSUME NEW n \in NetThread, NEW u \in Uid, NetIdle(n, u) PROVE Tables'
  BY <1>14, TablesFrame DEF NetIdle
<1>15. ASSUME NEW n \in NetThread, NEW u \in Uid, NetEof(n, u) PROVE Tables'
  BY <1>15, TablesFrame DEF NetEof
<1>16. ASSUME NEW n \in NetThread, ProcessPipe(n) PROVE Tables'
  BY <1>16, TablesFrame DEF ProcessPipe
<1>17. ASSUME NEW n \in NetThread, PipeClose(n) PROVE Tables'
  BY <1>17, TablesFrame DEF PipeClose
<1>18. ASSUME NEW n \in NetThread, PipeSend(n) PROVE Tables'
  BY <1>18, TablesFrame DEF PipeSend
<1>19. ASSUME NEW n \in NetThread, TornLookup(n) PROVE Tables'
  BY <1>19, TablesFrame DEF TornLookup
<1>20. ASSUME NEW h \in Handle, HandleLoop(h) PROVE Tables'
  BY <1>20, TablesFrame DEF HandleLoop
<1>21. ASSUME NEW h \in Handle, HandleTimeout(h) PROVE Tables'
  BY <1>21, TablesFrame DEF HandleTimeout
<1>22. ASSUME NEW h \in Handle, HandlePop(h) PROVE Tables'
  BY <1>22, TablesFrame DEF HandlePop
<1>23. ASSUME NEW h \in Handle, HandleDrained(h) PROVE Tables'
  BY <1>23, TablesFrame DEF HandleDrained
<1>24. ASSUME NEW h \in Handle, NEW recv \in work[h], HandleRequest(h, recv)
      PROVE  Tables'
  BY <1>24, TablesFrame DEF HandleRequest
<1>25. ASSUME NEW h \in Handle, NEW recv \in work[h], HandleThrow(h, recv)
      PROVE  Tables'
  BY <1>25, TablesFrame DEF HandleThrow
<1>26. CASE Terminate
  BY <1>26, TablesFrame DEF Terminate
<1>27. CASE MainStopNet
  BY <1>27, TablesFrame DEF MainStopNet
<1>28. CASE MainNotifyHandles
  BY <1>28, TablesFrame DEF MainNotifyHandles
<1>29. CASE MainJoinHandles
  BY <1>29, TablesFrame DEF MainJoinHandles
<1>30. CASE UNCHANGED vars
  BY <1>30, TablesFrame DEF vars
<1> QED
  BY <1>1, <1>2, <1>3, <1>4, <1>5, <1>6, <1>7, <1>8, <1>9, <1>10, <1>11,
     <1>12, <1>13, <1>14, <1>15, <1>16, <1>17, <1>18, <1>19, <1>20, <1>21,
     <1>22, <1>23, <1>24, <1>25, <1>26, <1>27, <1>28, <1>29, <1>30
     DEF Next, Client, AcceptStep, NetStep, FinishDel, HandleStep, Main

(* A known uid stays known, and leads to the same connection.              *)
KnownKept ==
  \A n \in NetThread, u \in Uid :
    Known(n, u) => Known(n, u)' /\ uidConn'[n][u] = uidConn[n][u]

(* Only the accepting thread can make a uid unknown, while it adds it.     *)
LEMMA KnownFrame ==
  ASSUME uidConn' = uidConn,
         netPc'[0] = "add" => netPc[0] = "add" /\ cur'[0] = cur[0]
  PROVE  KnownKept
  BY DEF KnownKept, Known

(* Every step keeps known uids known.                                      *)
LEMMA KnownStep ==
  TypeOK /\ Tables /\ InHand /\ [Next]_vars => KnownKept
<1> SUFFICES ASSUME TypeOK, Tables, InHand, [Next]_vars PROVE KnownKept
  OBVIOUS
<1> USE DEF clientVars, connVars, netVars, handleVars, stopVars, serverVars,
            netSide, workVars
<1>1. ASSUME NEW c \in Conn, Connect(c) PROVE KnownKept
  BY <1>1, KnownFrame DEF Connect
<1>2. ASSUME NEW c \in Conn, Write(c) PROVE KnownKept
  BY <1>2, KnownFrame DEF Write
<1>3. ASSUME NEW c \in Conn, ClientClose(c) PROVE KnownKept
  BY <1>3, KnownFrame DEF ClientClose
<1>4. CASE AcceptLoop
  <2>1. 0 \in NetThread /\ uidConn' = uidConn
    BY <1>4 DEF AcceptLoop, NetThread
  <2>2. \E p \in {"accept", "run"} : netPc' = [netPc EXCEPT ![0] = p]
    BY <1>4 DEF AcceptLoop
  <2>3. netPc'[0] # "add"
    BY <2>1, <2>2 DEF TypeOK
  <2> QED BY <2>1, <2>3, KnownFrame
<1>5. ASSUME NEW c \in Conn, NEW fd \in Fd, Accept(c, fd) PROVE KnownKept
  <2>1. netPc'[0] # "add" /\ uidConn' = uidConn
    BY <1>5 DEF Accept, TypeOK, NetThread
  <2> QED BY <2>1, KnownFrame
<1>6. CASE AddTcpConnection
  <2> DEFINE c == cur[0][1]
             m == ThreadOf(cur[0][2])
             uid == Head(free[m])
  <2>1. c \in Conn /\ uidOf[c] = 0
    BY <1>6 DEF AddTcpConnection, InHand, HandsEmpty, Adding, Deleting, OwnConn, TypeOK
  <2>2. m \in NetThread /\ free[m] # << >> /\ free[m] \in Seq(Uid)
    BY <1>6, FreeUid DEF AddTcpConnection, TypeOK
  <2>3. uid \in Uid /\ uid = free[m][1] /\ Len(free[m]) \in Nat \ {0}
    BY <2>2, HeadTailProperties, EmptySeq, LenProperties
  <2>4. uid = Total - Len(free[m]) + 1
    <3>1. 1 \in 1 .. Len(free[m])
      BY <2>3
    <3> QED BY <2>2, <2>3, <3>1 DEF Tables
  <2>5. uidConn[m][uid] = None
    <3>1. ~(uid <= Total - Len(free[m]))
      BY <2>3, <2>4
    <3> QED BY <2>2, <2>3, <3>1 DEF Tables
  <2>6. uidConn' = [uidConn EXCEPT ![m][uid] = c] /\ UNCHANGED cur
    BY <1>6 DEF AddTcpConnection
  <2> HIDE DEF m, uid
  <2> SUFFICES ASSUME NEW n \in NetThread, NEW u \in Uid, Known(n, u)
               PROVE  Known(n, u)' /\ uidConn'[n][u] = uidConn[n][u]
    BY DEF KnownKept
  <2>7. uidConn[n][u] # None /\ uidConn[n][u] # c
    BY <2>1 DEF Known, Tables, Uid
  <2>8. uidConn'[n][u] = uidConn[n][u]
    BY <2>2, <2>3, <2>5, <2>6, <2>7 DEF TypeOK
  <2> QED BY <2>6, <2>7, <2>8 DEF Known
<1>7. CASE EpollAdd
  <2>1. netPc'[0] # "add" /\ uidConn' = uidConn
    BY <1>7 DEF EpollAdd, TypeOK, NetThread
  <2> QED BY <2>1, KnownFrame
<1>8. ASSUME NEW n \in NetThread, NetWait(n) PROVE KnownKept
  <2>1. uidConn' = uidConn /\ (n = 0 => netPc'[0] # "add")
        /\ (n # 0 => netPc'[0] = netPc[0] /\ cur'[0] = cur[0])
    BY <1>8 DEF NetWait, DelConnection, TypeOK
  <2> QED BY <2>1, KnownFrame
<1>9. ASSUME NEW n \in NetThread, NetLoop(n) PROVE KnownKept
  <2>1. uidConn' = uidConn /\ (n = 0 => netPc'[0] # "add")
        /\ (n # 0 => netPc'[0] = netPc[0] /\ cur'[0] = cur[0])
    BY <1>9 DEF NetLoop, DelConnection, TypeOK
  <2> QED BY <2>1, KnownFrame
<1>10. ASSUME NEW n \in NetThread, EpollDel(n) PROVE KnownKept
  <2>1. uidConn' = uidConn /\ (n = 0 => netPc'[0] # "add")
        /\ (n # 0 => netPc'[0] = netPc[0] /\ cur'[0] = cur[0])
    BY <1>10 DEF EpollDel, DelConnection, TypeOK
  <2> QED BY <2>1, KnownFrame
<1>11. ASSUME NEW n \in NetThread, CloseSocket(n) PROVE KnownKept
  <2>1. uidConn' = uidConn /\ (n = 0 => netPc'[0] # "add")
        /\ (n # 0 => netPc'[0] = netPc[0] /\ cur'[0] = cur[0])
    BY <1>11 DEF CloseSocket, DelConnection, TypeOK
  <2> QED BY <2>1, KnownFrame
<1>12. ASSUME NEW n \in NetThread, NEW u \in Uid, NetHup(n, u) PROVE KnownKept
  <2>1. uidConn' = uidConn /\ (n = 0 => netPc'[0] # "add")
        /\ (n # 0 => netPc'[0] = netPc[0] /\ cur'[0] = cur[0])
    BY <1>12 DEF NetHup, DelConnection, TypeOK
  <2> QED BY <2>1, KnownFrame
<1>13. ASSUME NEW n \in NetThread, NEW u \in Uid, NetRecv(n, u) PROVE KnownKept
  BY <1>13, KnownFrame DEF NetRecv
<1>14. ASSUME NEW n \in NetThread, NEW u \in Uid, NetIdle(n, u) PROVE KnownKept
  BY <1>14, KnownFrame DEF NetIdle
<1>15. ASSUME NEW n \in NetThread, NEW u \in Uid, NetEof(n, u) PROVE KnownKept
  <2>1. uidConn' = uidConn /\ (n = 0 => netPc'[0] # "add")
        /\ (n # 0 => netPc'[0] = netPc[0] /\ cur'[0] = cur[0])
    BY <1>15 DEF NetEof, DelConnection, TypeOK
  <2> QED BY <2>1, KnownFrame
<1>16. ASSUME NEW n \in NetThread, ProcessPipe(n) PROVE KnownKept
  BY <1>16, KnownFrame DEF ProcessPipe
<1>17. ASSUME NEW n \in NetThread, PipeClose(n) PROVE KnownKept
  <2>1. uidConn' = uidConn /\ (n = 0 => netPc'[0] # "add")
        /\ (n # 0 => netPc'[0] = netPc[0] /\ cur'[0] = cur[0])
    BY <1>17 DEF PipeClose, DelConnection, TypeOK
  <2> QED BY <2>1, KnownFrame
<1>18. ASSUME NEW n \in NetThread, PipeSend(n) PROVE KnownKept
  BY <1>18, KnownFrame DEF PipeSend
<1>19. ASSUME NEW n \in NetThread, TornLookup(n) PROVE KnownKept
  BY <1>19, KnownFrame DEF TornLookup
<1>20. ASSUME NEW h \in Handle, HandleLoop(h) PROVE KnownKept
  BY <1>20, KnownFrame DEF HandleLoop
<1>21. ASSUME NEW h \in Handle, HandleTimeout(h) PROVE KnownKept
  BY <1>21, KnownFrame DEF HandleTimeout
<1>22. ASSUME NEW h \in Handle, HandlePop(h) PROVE KnownKept
  BY <1>22, KnownFrame DEF HandlePop
<1>23. ASSUME NEW h \in Handle, HandleDrained(h) PROVE KnownKept
  BY <1>23, KnownFrame DEF HandleDrained
<1>24. ASSUME NEW h \in Handle, NEW recv \in work[h], HandleRequest(h, recv)
      PROVE  KnownKept
  BY <1>24, KnownFrame DEF HandleRequest
<1>25. ASSUME NEW h \in Handle, NEW recv \in work[h], HandleThrow(h, recv)
      PROVE  KnownKept
  BY <1>25, KnownFrame DEF HandleThrow
<1>26. CASE Terminate
  BY <1>26, KnownFrame DEF Terminate
<1>27. CASE MainStopNet
  BY <1>27, KnownFrame DEF MainStopNet
<1>28. CASE MainNotifyHandles
  BY <1>28, KnownFrame DEF MainNotifyHandles
<1>29. CASE MainJoinHandles
  BY <1>29, KnownFrame DEF MainJoinHandles
<1>30. CASE UNCHANGED vars
  BY <1>30, KnownFrame DEF vars
<1> QED
  BY <1>1, <1>2, <1>3, <1>4, <1>5, <1>6, <1>7, <1>8, <1>9, <1>10, <1>11,
     <1>12, <1>13, <1>14, <1>15, <1>16, <1>17, <1>18, <1>19, <1>20, <1>21,
     <1>22, <1>23, <1>24, <1>25, <1>26, <1>27, <1>28, <1>29, <1>30
     DEF Next, Client, AcceptStep, NetStep, FinishDel, HandleStep, Main

(* What the threads have in hand depends on their place and the tables.    *)
LEMMA InHandFrame == InHand /\ UNCHANGED <<netPc, cur, connVars>> => InHand'
<1> SUFFICES ASSUME InHand, UNCHANGED <<netPc, cur, connVars>> PROVE InHand'
  OBVIOUS
<1>1. UNCHANGED <<netPc, cur, accepted, fdOf, uidOf, free, uidConn>>
  BY DEF connVars
<1> QED BY <1>1, Zenon DEF InHand, HandsEmpty, Adding, Deleting, OwnConn, Known

(* A connection stays its thread's own while it keeps its uid.             *)
LEMMA OwnKept ==
  ASSUME TypeOK, KnownKept, NEW n \in NetThread, NEW c, OwnConn(n, c), uidOf'[c] = uidOf[c]
  PROVE  OwnConn(n, c)'
  BY DEF OwnConn, KnownKept, Known, TypeOK

(* delConnection takes a connection of the thread in hand.                 *)
LEMMA DelInHand ==
  ASSUME TypeOK, Tables, InHand, KnownKept, NEW n \in NetThread, NEW c, OwnConn(n, c),
         netPc[n] = "run", UNCHANGED connVars, DelConnection(n, c)
  PROVE  InHand'
<1>1. /\ cur' = [cur EXCEPT ![n] = <<c, fdOf[c]>>]
      /\ netPc' = [netPc EXCEPT ![n] = "del"]
  BY DEF DelConnection
<1>2. /\ netPc'[n] = "del" /\ cur'[n][1] = c
      /\ \A m \in NetThread : m # n => netPc'[m] = netPc[m] /\ cur'[m] = cur[m]
      /\ 0 \in NetThread
  BY <1>1 DEF TypeOK, NetThread
<1>3. UNCHANGED <<accepted, fdOf, uidOf, uidConn>>
  BY DEF connVars
<1>4. HandsEmpty'
  BY <1>2 DEF InHand, HandsEmpty
<1>5. Adding'
  <2>1. CASE n = 0
    BY <1>2, <1>3, <2>1 DEF InHand, Adding
  <2>2. CASE n # 0
    BY <1>2, <1>3, <2>2 DEF InHand, Adding
  <2> QED BY <2>1, <2>2
<1>6. Deleting'
  <2> SUFFICES ASSUME NEW m \in NetThread, netPc'[m] \in {"del", "close"}
               PROVE  OwnConn(m, cur[m][1])'
    BY DEF Deleting
  <2>1. CASE m = n
    <3>1. OwnConn(n, c)'
      BY <1>3, OwnKept
    <3> QED BY <1>2, <2>1, <3>1 DEF OwnConn, Known
  <2>2. CASE m # n
    <3>1. OwnConn(m, cur[m][1])
      BY <1>2, <2>2 DEF InHand, Deleting
    <3>2. Known(m, uidOf[cur[m][1]])' /\ uidConn'[m][uidOf[cur[m][1]]] = cur[m][1]
      BY <1>2, <1>3, <2>2, <3>1 DEF OwnConn, KnownKept, Known
    <3> QED BY <1>2, <1>3, <2>2, <3>1, <3>2 DEF OwnConn
  <2> QED BY <2>1, <2>2
<1> QED BY <1>4, <1>5, <1>6 DEF InHand

(* An event of a thread is about a connection of its own.                  *)
LEMMA OwnEvent ==
  ASSUME TypeOK, Tables, NEW n \in NetThread, NEW u, Known(n, u)
  PROVE  OwnConn(n, uidConn[n][u])
  BY KnownConn DEF OwnConn

(* Every step keeps what the threads have in hand.                         *)
LEMMA InHandStep ==
  TypeOK /\ Tables /\ InHand /\ KnownUids /\ [Next]_vars => InHand'
<1> SUFFICES ASSUME TypeOK, Tables, InHand, KnownUids, [Next]_vars PROVE InHand'
  OBVIOUS
<1> USE DEF clientVars, connVars, netVars, handleVars, stopVars, serverVars,
            netSide, workVars
<1>1. ASSUME NEW c \in Conn, Connect(c) PROVE InHand'
  BY <1>1, InHandFrame DEF Connect
<1>2. ASSUME NEW c \in Conn, Write(c) PROVE InHand'
  BY <1>2, InHandFrame DEF Write
<1>3. ASSUME NEW c \in Conn, ClientClose(c) PROVE InHand'
  BY <1>3, InHandFrame DEF ClientClose
<1>4. CASE AcceptLoop
  <2>1. 0 \in NetThread /\ UNCHANGED <<cur, connVars>>
    BY <1>4 DEF AcceptLoop, NetThread
  <2>2. netPc[0] \in {"run", "accept"}
    BY <1>4 DEF AcceptLoop, NextEvent
  <2>3. \E p \in {"accept", "run"} : netPc' = [netPc EXCEPT ![0] = p]
    BY <1>4 DEF AcceptLoop
  <2>4. netPc'[0] \in {"run", "accept"} /\ \A m \in NetThread : m # 0 => netPc'[m] = netPc[m]
    BY <2>1, <2>3 DEF TypeOK
  <2>5. UNCHANGED <<accepted, fdOf, uidOf, uidConn>>
    BY <2>1 DEF connVars
  <2>6. HandsEmpty' /\ Adding'
    BY <2>1, <2>2, <2>4, <2>5 DEF InHand, HandsEmpty, Adding
  <2>7. Deleting'
    BY <2>1, <2>2, <2>4, <2>5, KnownStep DEF InHand, Deleting, OwnConn, KnownKept, Known
  <2> QED BY <2>6, <2>7 DEF InHand
<1>5. ASSUME NEW c \in Conn, NEW fd \in Fd, Accept(c, fd) PROVE InHand'
  <2>1. 0 \in NetThread /\ netPc[0] = "accept" /\ c \notin accepted
    BY <1>5 DEF Accept, NetThread, Backlog
  <2>2. /\ netPc' = [netPc EXCEPT ![0] = "insert"] /\ cur' = [cur EXCEPT ![0] = <<c, fd>>]
        /\ accepted' = accepted \cup {c} /\ fdOf' = [fdOf EXCEPT ![c] = fd]
        /\ UNCHANGED <<uidOf, uidConn>>
    BY <1>5 DEF Accept
  <2>3. /\ netPc'[0] = "insert" /\ cur'[0][1] = c /\ cur'[0][2] = fd /\ fdOf'[c] = fd
        /\ \A m \in NetThread : m # 0 => netPc'[m] = netPc[m] /\ cur'[m] = cur[m]
    BY <2>1, <2>2 DEF TypeOK
  <2>4. uidOf[c] = 0
    BY <2>1 DEF Tables
  <2>5. HandsEmpty'
    BY <2>3 DEF InHand, HandsEmpty
  <2>6. Adding'
    BY <2>1, <2>2, <2>3, <2>4 DEF InHand, Adding
  <2>7. Deleting'
    BY <2>2, <2>3, KnownStep DEF InHand, Deleting, OwnConn, KnownKept, Known
  <2> QED BY <2>5, <2>6, <2>7 DEF InHand
<1>6. CASE AddTcpConnection
  <2> DEFINE c == cur[0][1]
             m == ThreadOf(cur[0][2])
             uid == Head(free[m])
  <2>1. /\ 0 \in NetThread /\ netPc[0] = "insert" /\ c \in accepted /\ c \in Conn
        /\ uidOf[c] = 0
    BY <1>6 DEF AddTcpConnection, NetThread, InHand, Adding, TypeOK
  <2>2. uid \in Uid
    BY <1>6, FreeUid, TailFacts DEF AddTcpConnection, TypeOK
  <2>3. /\ uidOf' = [uidOf EXCEPT ![c] = uid] /\ netPc' = [netPc EXCEPT ![0] = "add"]
        /\ UNCHANGED <<cur, accepted, fdOf>>
    BY <1>6 DEF AddTcpConnection
  <2> HIDE DEF uid
  <2>4. /\ netPc'[0] = "add" /\ uidOf'[c] = uid /\ uid # 0
        /\ \A d \in Conn : d # c => uidOf'[d] = uidOf[d]
        /\ \A n \in NetThread : n # 0 => netPc'[n] = netPc[n]
    BY <2>1, <2>2, <2>3 DEF TypeOK, Uid
  <2>5. HandsEmpty'
    BY <2>1, <2>3, <2>4 DEF InHand, HandsEmpty
  <2>6. Adding'
    BY <2>1, <2>3, <2>4 DEF InHand, Adding, TypeOK
  <2>7. Deleting'
    <3> SUFFICES ASSUME NEW n \in NetThread, netPc'[n] \in {"del", "close"}
                 PROVE  OwnConn(n, cur[n][1])'
      BY DEF Deleting
    <3>1. netPc[n] \in {"del", "close"} /\ OwnConn(n, cur[n][1])
      BY <2>4 DEF InHand, Deleting
    <3>2. cur[n][1] \in Conn /\ uidOf[cur[n][1]] \in Uid
      BY <3>1 DEF OwnConn, Known
    <3>3. uidOf'[cur[n][1]] = uidOf[cur[n][1]]
      BY <2>1, <2>4, <3>2 DEF Uid
    <3> QED BY <2>3, <3>1, <3>2, <3>3, KnownStep DEF OwnConn, KnownKept, Known
  <2> QED BY <2>5, <2>6, <2>7 DEF InHand
<1>7. CASE EpollAdd
  <2>1. 0 \in NetThread /\ netPc[0] = "add"
    BY <1>7 DEF EpollAdd, NetThread
  <2>2. /\ netPc' = [netPc EXCEPT ![0] = "accept"]
        /\ cur' = [cur EXCEPT ![0] = <<None, NoFd>>]
        /\ UNCHANGED <<accepted, fdOf, uidOf, uidConn>>
    BY <1>7 DEF EpollAdd
  <2>3. /\ netPc'[0] = "accept" /\ cur'[0] = <<None, NoFd>>
        /\ \A m \in NetThread : m # 0 => netPc'[m] = netPc[m] /\ cur'[m] = cur[m]
    BY <2>1, <2>2 DEF TypeOK
  <2>4. HandsEmpty'
    BY <2>3 DEF InHand, HandsEmpty
  <2>5. Adding'
    BY <2>1, <2>2, <2>3 DEF InHand, Adding
  <2>6. Deleting'
    BY <2>2, <2>3, KnownStep DEF InHand, Deleting, OwnConn, KnownKept, Known
  <2> QED BY <2>4, <2>5, <2>6 DEF InHand
<1>8. ASSUME NEW n \in NetThread, NetWait(n) PROVE InHand'
  <2>1. /\ netPc[n] \in {"run", "wait"} /\ UNCHANGED <<cur, accepted, fdOf, uidOf, uidConn>>
        /\ \E p \in {"run", "wait", "exit"} : netPc' = [netPc EXCEPT ![n] = p]
    BY <1>8 DEF NetWait
  <2>2. /\ netPc'[n] \in {"run", "wait", "exit"}
        /\ \A m \in NetThread : m # n => netPc'[m] = netPc[m]
        /\ 0 \in NetThread
    BY <2>1 DEF TypeOK, NetThread
  <2>3. HandsEmpty' /\ Adding'
    BY <2>1, <2>2 DEF InHand, HandsEmpty, Adding
  <2>4. Deleting'
    BY <2>1, <2>2, KnownStep DEF InHand, Deleting, OwnConn, KnownKept, Known
  <2> QED BY <2>3, <2>4 DEF InHand
<1>9. ASSUME NEW n \in NetThread, NetLoop(n) PROVE InHand'
  <2>1. /\ netPc[n] \in {"run", "wait"} /\ UNCHANGED <<cur, accepted, fdOf, uidOf, uidConn>>
        /\ \E p \in {"run", "wait", "exit"} : netPc' = [netPc EXCEPT ![n] = p]
    BY <1>9 DEF NetLoop
  <2>2. /\ netPc'[n] \in {"run", "wait", "exit"}
        /\ \A m \in NetThread : m # n => netPc'[m] = netPc[m]
        /\ 0 \in NetThread
    BY <2>1 DEF TypeOK, NetThread
  <2>3. HandsEmpty' /\ Adding'
    BY <2>1, <2>2 DEF InHand, HandsEmpty, Adding
  <2>4. Deleting'
    BY <2>1, <2>2, KnownStep DEF InHand, Deleting, OwnConn, KnownKept, Known
  <2> QED BY <2>3, <2>4 DEF InHand
<1>10. ASSUME NEW n \in NetThread, EpollDel(n) PROVE InHand'
  <2>1. netPc[n] = "del" /\ netPc' = [netPc EXCEPT ![n] = "close"]
        /\ UNCHANGED <<cur, accepted, fdOf, uidOf, uidConn>>
    BY <1>10 DEF EpollDel
  <2>2. netPc'[n] = "close" /\ \A m \in NetThread : m # n => netPc'[m] = netPc[m]
    BY <2>1 DEF TypeOK
  <2>3. HandsEmpty'
    BY <2>1, <2>2 DEF InHand, HandsEmpty
  <2>4. Adding'
    BY <2>1, <2>2 DEF InHand, Adding, NetThread
  <2>5. Deleting'
    BY <2>1, <2>2, KnownStep DEF InHand, Deleting, OwnConn, KnownKept, Known
  <2> QED BY <2>3, <2>4, <2>5 DEF InHand
<1>11. ASSUME NEW n \in NetThread, CloseSocket(n) PROVE InHand'
  <2> DEFINE c == cur[n][1]
  <2>1. /\ netPc[n] = "close" /\ netPc' = [netPc EXCEPT ![n] = "run"]
        /\ cur' = [cur EXCEPT ![n] = <<None, NoFd>>] /\ fdOf' = [fdOf EXCEPT ![c] = NoFd]
        /\ UNCHANGED <<accepted, uidOf, uidConn>>
    BY <1>11 DEF CloseSocket
  <2>2. /\ netPc'[n] = "run" /\ cur'[n] = <<None, NoFd>>
        /\ \A m \in NetThread : m # n => netPc'[m] = netPc[m] /\ cur'[m] = cur[m]
        /\ 0 \in NetThread
    BY <2>1 DEF TypeOK, NetThread
  <2>3. OwnConn(n, c)
    BY <2>1 DEF InHand, Deleting
  <2>4. netPc[0] \in {"insert", "add"} => cur[0][1] # c
    BY <2>3 DEF InHand, Adding, OwnConn, Known, Uid
  <2>5. \A d \in Conn : d # c => fdOf'[d] = fdOf[d]
    BY <2>1 DEF TypeOK
  <2> HIDE DEF c
  <2>6. HandsEmpty'
    BY <2>2 DEF InHand, HandsEmpty
  <2>7. Adding'
    <3>1. CASE n = 0
      BY <2>1, <2>2, <3>1 DEF InHand, Adding
    <3>2. CASE n # 0
      <4>1. netPc'[0] = netPc[0] /\ cur'[0] = cur[0]
        BY <2>2, <3>2
      <4>2. netPc[0] \in {"insert", "add"} => fdOf'[cur[0][1]] = fdOf[cur[0][1]]
        BY <2>4, <2>5 DEF InHand, Adding, TypeOK
      <4> QED BY <2>1, <4>1, <4>2 DEF InHand, Adding
    <3> QED BY <3>1, <3>2
  <2>8. Deleting'
    BY <2>1, <2>2, KnownStep DEF InHand, Deleting, OwnConn, KnownKept, Known
  <2> QED BY <2>6, <2>7, <2>8 DEF InHand
<1>12. ASSUME NEW n \in NetThread, NEW u \in Uid, NetHup(n, u) PROVE InHand'
  <2>1. Known(n, u)
    BY <1>12, BatchKnown DEF NetHup
  <2>2. OwnConn(n, uidConn[n][u])
    BY <2>1, OwnEvent
  <2>3. netPc[n] = "run" /\ UNCHANGED connVars /\ DelConnection(n, uidConn[n][u])
    BY <1>12 DEF NetHup, NextEvent
  <2> QED BY <2>2, <2>3, KnownStep, DelInHand
<1>13. ASSUME NEW n \in NetThread, NEW u \in Uid, NetRecv(n, u) PROVE InHand'
  BY <1>13, InHandFrame DEF NetRecv
<1>14. ASSUME NEW n \in NetThread, NEW u \in Uid, NetIdle(n, u) PROVE InHand'
  BY <1>14, InHandFrame DEF NetIdle
<1>15. ASSUME NEW n \in NetThread, NEW u \in Uid, NetEof(n, u) PROVE InHand'
  <2>1. Known(n, u)
    BY <1>15, BatchKnown DEF NetEof
  <2>2. OwnConn(n, uidConn[n][u])
    BY <2>1, OwnEvent
  <2>3. netPc[n] = "run" /\ UNCHANGED connVars /\ DelConnection(n, uidConn[n][u])
    BY <1>15 DEF NetEof, NextEvent
  <2> QED BY <2>2, <2>3, KnownStep, DelInHand
<1>16. ASSUME NEW n \in NetThread, ProcessPipe(n) PROVE InHand'
  BY <1>16, InHandFrame DEF ProcessPipe
<1>17. ASSUME NEW n \in NetThread, PipeClose(n) PROVE InHand'
  <2> DEFINE u == Head(pipe[n]).uid
  <2>1. Known(n, u)
    BY <1>17, PipeKnown DEF PipeClose
  <2>2. netPc[n] = "run" /\ UNCHANGED connVars /\ DelConnection(n, uidConn[n][u])
    BY <1>17 DEF PipeClose
  <2> HIDE DEF u
  <2>3. OwnConn(n, uidConn[n][u])
    BY <2>1, OwnEvent
  <2> QED BY <2>2, <2>3, KnownStep, DelInHand
<1>18. ASSUME NEW n \in NetThread, PipeSend(n) PROVE InHand'
  BY <1>18, InHandFrame DEF PipeSend
<1>19. ASSUME NEW n \in NetThread, TornLookup(n) PROVE InHand'
  BY <1>19, InHandFrame DEF TornLookup
<1>20. ASSUME NEW h \in Handle, HandleLoop(h) PROVE InHand'
  BY <1>20, InHandFrame DEF HandleLoop
<1>21. ASSUME NEW h \in Handle, HandleTimeout(h) PROVE InHand'
  BY <1>21, InHandFrame DEF HandleTimeout
<1>22. ASSUME NEW h \in Handle, HandlePop(h) PROVE InHand'
  BY <1>22, InHandFrame DEF HandlePop
<1>23. ASSUME NEW h \in Handle, HandleDrained(h) PROVE InHand'
  BY <1>23, InHandFrame DEF HandleDrained
<1>24. ASSUME NEW h \in Handle, NEW recv \in work[h], HandleRequest(h, recv)
      PROVE  InHand'
  BY <1>24, InHandFrame DEF HandleRequest
<1>25. ASSUME NEW h \in Handle, NEW recv \in work[h], HandleThrow(h, recv)
      PROVE  InHand'
  BY <1>25, InHandFrame DEF HandleThrow
<1>26. CASE Terminate
  BY <1>26, InHandFrame DEF Terminate
<1>27. CASE MainStopNet
  BY <1>27, InHandFrame DEF MainStopNet
<1>28. CASE MainNotifyHandles
  BY <1>28, InHandFrame DEF MainNotifyHandles
<1>29. CASE MainJoinHandles
  BY <1>29, InHandFrame DEF MainJoinHandles
<1>30. CASE UNCHANGED vars
  BY <1>30, InHandFrame DEF vars
<1> QED
  BY <1>1, <1>2, <1>3, <1>4, <1>5, <1>6, <1>7, <1>8, <1>9, <1>10, <1>11,
     <1>12, <1>13, <1>14, <1>15, <1>16, <1>17, <1>18, <1>19, <1>20, <1>21,
     <1>22, <1>23, <1>24, <1>25, <1>26, <1>27, <1>28, <1>29, <1>30
     DEF Next, Client, AcceptStep, NetStep, FinishDel, HandleStep, Main

(* What names a connection by a known uid goes on doing so while no other  *)
(* is added to it.                                                         *)
LEMMA UidsKept ==
  ASSUME KnownUids, KnownKept
  PROVE  /\ epoll' = epoll => EpollUids'
         /\ (\A n \in NetThread : ready'[n] \subseteq ready[n] \cup {Notify, Listen})
              => ReadyUids'
         /\ (\A n \in NetThread : batch'[n] \subseteq batch[n]) => BatchUids'
         /\ sbuffer' = sbuffer => SendUids'
         /\ pipe' = pipe => PipeUids'
<1>1. \A n \in NetThread : \A u : Known(n, u) => Known(n, u)' /\ uidConn'[n][u] = uidConn[n][u]
  BY DEF KnownKept, Known
<1>2. epoll' = epoll => EpollUids'
  BY <1>1 DEF KnownUids, EpollUids
<1>3. (\A n \in NetThread : ready'[n] \subseteq ready[n] \cup {Notify, Listen}) => ReadyUids'
  BY <1>1 DEF KnownUids, ReadyUids, Uid, Notify, Listen
<1>4. (\A n \in NetThread : batch'[n] \subseteq batch[n]) => BatchUids'
  BY <1>1 DEF KnownUids, BatchUids
<1>5. sbuffer' = sbuffer => SendUids'
  BY <1>1 DEF KnownUids, SendUids, Addressed
<1>6. pipe' = pipe => PipeUids'
  BY <1>1 DEF KnownUids, PipeUids, Addressed
<1> QED BY <1>2, <1>3, <1>4, <1>5, <1>6

(* So a step that leaves them alone keeps them all.                        *)
LEMMA UidsFrame ==
  ASSUME KnownUids, KnownKept, UNCHANGED <<epoll, ready, batch, sbuffer, pipe>>
  PROVE  KnownUids'
  BY UidsKept DEF KnownUids

(* The edge of a connection is reported under the uid its epoll has.       *)
LEMMA EdgeKnown ==
  ASSUME TypeOK, KnownUids, KnownKept, NEW c \in Conn, Edge(c)
  PROVE  ReadyUids'
<1> DEFINE m == ThreadOf(fdOf[c])
           u == epoll[m][fdOf[c]]
<1>1. CASE Open(c) /\ u # 0
  <2>1. fdOf[c] \in Fd /\ m \in NetThread
    BY <1>1, ThreadOfType DEF TypeOK, Open
  <2>2. ready' = [ready EXCEPT ![m] = @ \cup {u}]
    BY <1>1 DEF Edge
  <2>3. Known(m, u)
    BY <1>1, <2>1 DEF KnownUids, EpollUids
  <2> HIDE DEF m, u
  <2>4. \A n \in NetThread : \A v \in ready'[n] : v \in ready[n] \/ (n = m /\ v = u)
    BY <2>1, <2>2 DEF TypeOK
  <2> QED BY <2>3, <2>4 DEF KnownUids, ReadyUids, KnownKept, Known
<1>2. CASE ~(Open(c) /\ u # 0)
  <2>1. ready' = ready
    BY <1>2 DEF Edge
  <2> QED BY <2>1, UidsKept
<1> QED BY <1>1, <1>2

(* A response goes to the send queue of a thread that knows its uid.       *)
LEMMA PushKnown ==
  ASSUME TypeOK, KnownUids, KnownKept, NEW n \in NetThread, NEW send \in SendData,
         Addressed(n, send), PushSend(n, send)
  PROVE  SendUids' /\ ReadyUids'
<1>1. sbuffer' = [sbuffer EXCEPT ![n] = Append(@, send)] /\ sbuffer[n] \in Seq(SendData)
  BY PushType DEF TypeOK
<1>2. /\ Len(sbuffer'[n]) = Len(sbuffer[n]) + 1 /\ Len(sbuffer[n]) \in Nat
      /\ \A i \in 1 .. Len(sbuffer[n]) : sbuffer'[n][i] = sbuffer[n][i]
      /\ sbuffer'[n][Len(sbuffer[n]) + 1] = send
      /\ \A m \in NetThread : m # n => sbuffer'[m] = sbuffer[m]
  BY <1>1, AppendProperties, LenProperties DEF TypeOK
<1>4. SendUids'
  <2> SUFFICES ASSUME NEW m \in NetThread, NEW i \in 1 .. Len(sbuffer'[m])
               PROVE  Addressed(m, sbuffer[m][i])'
    BY DEF SendUids
  <2>1. CASE m # n \/ i # Len(sbuffer[n]) + 1
    <3>1. i \in 1 .. Len(sbuffer[m]) /\ sbuffer'[m][i] = sbuffer[m][i]
      BY <1>2, <2>1
    <3>2. Addressed(m, sbuffer[m][i])
      BY <3>1 DEF KnownUids, SendUids
    <3> QED BY <3>1, <3>2, KnownKept DEF Addressed, KnownKept, Known
  <2>2. CASE m = n /\ i = Len(sbuffer[n]) + 1
    <3>1. sbuffer'[m][i] = send
      BY <1>2, <2>2
    <3>2. /\ send.uid \in Uid /\ uidConn[n][send.uid] # None
          /\ netPc[0] = "add" => cur[0][1] # uidConn[n][send.uid]
          /\ uidConn[n][send.uid] = send.req[1]
      BY DEF Addressed, Known
    <3>3. /\ uidConn'[n][send.uid] # None /\ uidConn'[n][send.uid] = uidConn[n][send.uid]
          /\ netPc'[0] = "add" => cur'[0][1] # uidConn'[n][send.uid]
      BY <3>2 DEF KnownKept, Known
    <3> QED BY <2>2, <3>1, <3>2, <3>3 DEF Addressed, Known
  <2> QED BY <2>1, <2>2
<1>5. \A m \in NetThread : ready'[m] \subseteq ready[m] \cup {Notify, Listen}
  BY DEF PushSend, TypeOK
<1> QED BY <1>4, <1>5, UidsKept

(* processPipe takes what it has sent out of its list.                     *)
LEMMA PipeTailKnown ==
  ASSUME TypeOK, KnownUids, KnownKept, NEW n \in NetThread, pipe[n] # << >>,
         pipe' = [pipe EXCEPT ![n] = Tail(@)]
  PROVE  PipeUids'
<1>1. pipe[n] \in Seq(SendData)
  BY DEF TypeOK
<1>2. /\ Len(pipe'[n]) = Len(pipe[n]) - 1 /\ Len(pipe[n]) \in Nat
      /\ \A i \in 1 .. Len(pipe'[n]) : pipe'[n][i] = pipe[n][i + 1]
      /\ \A m \in NetThread : m # n => pipe'[m] = pipe[m]
  BY <1>1, HeadTailProperties, LenProperties DEF TypeOK
<1> SUFFICES ASSUME NEW m \in NetThread, NEW i \in 1 .. Len(pipe'[m])
             PROVE  Addressed(m, pipe[m][i])'
  BY DEF PipeUids
<1>3. \E j \in 1 .. Len(pipe[m]) : pipe'[m][i] = pipe[m][j]
  <2>1. CASE m = n
    <3>1. i + 1 \in 1 .. Len(pipe[n])
      BY <1>2, <2>1
    <3> QED BY <1>2, <2>1, <3>1
  <2>2. CASE m # n
    BY <1>2, <2>2
  <2> QED BY <2>1, <2>2
<1>4. PICK s : (\E j \in 1 .. Len(pipe[m]) : s = pipe[m][j]) /\ pipe'[m][i] = s
  BY <1>3
<1>5. /\ s.uid \in Uid /\ uidConn[m][s.uid] # None /\ uidConn[m][s.uid] = s.req[1]
      /\ netPc[0] = "add" => cur[0][1] # uidConn[m][s.uid]
  BY <1>4 DEF KnownUids, PipeUids, Addressed, Known
<1>6. /\ uidConn'[m][s.uid] # None /\ uidConn'[m][s.uid] = uidConn[m][s.uid]
      /\ netPc'[0] = "add" => cur'[0][1] # uidConn'[m][s.uid]
  BY <1>5 DEF KnownKept, Known
<1> QED BY <1>4, <1>5, <1>6 DEF Addressed, Known

(* Every step keeps known what names a connection.                         *)
LEMMA KnownUidsStep ==
  TypeOK /\ Tables /\ InHand /\ KnownUids /\ RequestsKnown /\ [Next]_vars => KnownUids'
<1> SUFFICES ASSUME TypeOK, Tables, InHand, KnownUids, RequestsKnown, [Next]_vars
             PROVE  KnownUids'
  OBVIOUS
<1> USE DEF clientVars, connVars, netVars, handleVars, stopVars, serverVars,
            netSide, workVars
<1>0. KnownKept
  BY KnownStep
<1>1. ASSUME NEW c \in Conn, Connect(c) PROVE KnownUids'
  <2>1. ready' = [ready EXCEPT ![0] = @ \cup {Listen}] /\ UNCHANGED <<epoll, batch, sbuffer, pipe>>
    BY <1>1 DEF Connect
  <2>2. \A n \in NetThread : ready'[n] \subseteq ready[n] \cup {Notify, Listen}
    BY <2>1 DEF TypeOK
  <2> QED BY <2>1, <2>2, <1>0, UidsKept DEF KnownUids
<1>2. ASSUME NEW c \in Conn, Write(c) PROVE KnownUids'
  <2>1. Edge(c) /\ UNCHANGED <<epoll, batch, sbuffer, pipe>>
    BY <1>2 DEF Write
  <2> QED BY <2>1, <1>0, EdgeKnown, UidsKept DEF KnownUids
<1>3. ASSUME NEW c \in Conn, ClientClose(c) PROVE KnownUids'
  <2>1. Edge(c) /\ UNCHANGED <<epoll, batch, sbuffer, pipe>>
    BY <1>3 DEF ClientClose
  <2> QED BY <2>1, <1>0, EdgeKnown, UidsKept DEF KnownUids
<1>4. CASE AcceptLoop
  <2>1. /\ batch' = batch \/ batch' = [batch EXCEPT ![0] = @ \ {<<Listen, FALSE>>}]
        /\ UNCHANGED <<epoll, ready, sbuffer, pipe>>
    BY <1>4 DEF AcceptLoop
  <2>2. \A n \in NetThread : batch'[n] \subseteq batch[n]
    <3>1. CASE batch' = batch
      BY <3>1
    <3>2. CASE batch' = [batch EXCEPT ![0] = @ \ {<<Listen, FALSE>>}]
      BY <3>2 DEF TypeOK
    <3> QED BY <2>1, <3>1, <3>2
  <2> QED BY <2>1, <2>2, <1>0, UidsKept DEF KnownUids
<1>5. ASSUME NEW c \in Conn, NEW fd \in Fd, Accept(c, fd) PROVE KnownUids'
  BY <1>0, <1>5, UidsFrame DEF Accept
<1>6. CASE AddTcpConnection
  BY <1>0, <1>6, UidsFrame DEF AddTcpConnection
<1>7. CASE EpollAdd
  <2>1. PICK c \in Conn, fd \in Fd, m \in NetThread, u \in Uid :
          c = cur[0][1] /\ fd = cur[0][2] /\ m = ThreadOf(fd) /\ u = uidOf[c] /\ fdOf[c] = fd
    <3>1. cur[0][1] \in accepted /\ cur[0][2] \in Fd /\ fdOf[cur[0][1]] = cur[0][2]
          /\ uidOf[cur[0][1]] # 0
      BY <1>7 DEF EpollAdd, InHand, Adding
    <3>2. cur[0][1] \in Conn /\ uidOf[cur[0][1]] \in Uid
      BY <3>1 DEF TypeOK
    <3>3. ThreadOf(cur[0][2]) \in NetThread
      BY <3>1, ThreadOfType
    <3> QED BY <3>1, <3>2, <3>3
  <2>2. /\ epoll' = [epoll EXCEPT ![m][fd] = u] /\ ready' = [ready EXCEPT ![m] = @ \cup {u}]
        /\ netPc' = [netPc EXCEPT ![0] = "accept"] /\ UNCHANGED <<uidConn, batch, sbuffer, pipe>>
    BY <1>7, <2>1 DEF EpollAdd
  <2>3. uidConn'[m][u] = c /\ netPc'[0] = "accept"
    <3>1. uidConn[m][u] = c
      BY <2>1 DEF Tables, Open, NoFd, Uid
    <3>2. netPc'[0] = "accept"
      BY <2>2 DEF TypeOK, NetThread
    <3> QED BY <2>2, <3>1, <3>2
  <2>4. \A n \in NetThread, f \in Fd : epoll'[n][f] = epoll[n][f] \/ (n = m /\ epoll'[n][f] = u)
    BY <2>1, <2>2 DEF TypeOK
  <2>5. \A n \in NetThread : \A v \in ready'[n] : v \in ready[n] \/ (n = m /\ v = u)
    BY <2>1, <2>2 DEF TypeOK
  <2>6. EpollUids'
    <3> SUFFICES ASSUME NEW n \in NetThread, NEW f \in Fd, epoll'[n][f] # 0
                 PROVE  Known(n, epoll[n][f])'
      BY DEF EpollUids
    <3>1. CASE epoll'[n][f] = epoll[n][f]
      <4>1. Known(n, epoll[n][f])
        BY <3>1 DEF KnownUids, EpollUids
      <4> QED BY <1>0, <3>1, <4>1 DEF KnownKept, Known
    <3>2. CASE n = m /\ epoll'[n][f] = u
      BY <2>3, <3>2 DEF Known
    <3> QED BY <2>4, <3>1, <3>2
  <2>7. ReadyUids'
    <3> SUFFICES ASSUME NEW n \in NetThread, NEW v \in ready'[n], v \in Uid
                 PROVE  Known(n, v)'
      BY DEF ReadyUids
    <3>1. CASE v \in ready[n]
      BY <1>0, <3>1 DEF KnownUids, ReadyUids, KnownKept
    <3>2. CASE n = m /\ v = u
      BY <2>3, <3>2 DEF Known
    <3> QED BY <2>5, <3>1, <3>2
  <2> QED BY <1>0, <2>2, <2>6, <2>7, UidsKept DEF KnownUids
<1>8. ASSUME NEW n \in NetThread, NetWait(n) PROVE KnownUids'
  <2>1. /\ batch' = [batch EXCEPT ![n] =
             {<<u, u \in Uid /\ peer[uidConn[n][u]] = "rst">> : u \in ready[n]}]
        /\ ready' = [ready EXCEPT ![n] = {}] /\ UNCHANGED <<epoll, sbuffer, pipe>>
    BY <1>8 DEF NetWait
  <2>2. \A m \in NetThread : ready'[m] \subseteq ready[m] \cup {Notify, Listen}
    BY <2>1 DEF TypeOK
  <2>3. BatchUids'
    <3> SUFFICES ASSUME NEW m \in NetThread, NEW e \in batch'[m], e[1] \in Uid
                 PROVE  Known(m, e[1])'
      BY DEF BatchUids
    <3>1. CASE m = n
      <4>1. PICK u \in ready[n] : e = <<u, u \in Uid /\ peer[uidConn[n][u]] = "rst">>
        BY <2>1, <3>1 DEF TypeOK
      <4>2. e[1] = u
        BY <4>1
      <4> QED BY <1>0, <3>1, <4>2 DEF KnownUids, ReadyUids, KnownKept, Known
    <3>2. CASE m # n
      <4>1. e \in batch[m]
        BY <2>1, <3>2 DEF TypeOK
      <4> QED BY <1>0, <4>1 DEF KnownUids, BatchUids, KnownKept, Known
    <3> QED BY <3>1, <3>2
  <2> QED BY <2>1, <2>2, <2>3, <1>0, UidsKept DEF KnownUids
<1>9. ASSUME NEW n \in NetThread, NetLoop(n) PROVE KnownUids'
  BY <1>0, <1>9, UidsFrame DEF NetLoop
<1>10. ASSUME NEW n \in NetThread, EpollDel(n) PROVE KnownUids'
  <2>1. UNCHANGED <<batch, sbuffer, pipe>>
    BY <1>10 DEF EpollDel
  <2>2. CASE fdOf[cur[n][1]] \in Fd
    <3> DEFINE f == fdOf[cur[n][1]]
    <3>1. /\ epoll' = [epoll EXCEPT ![n][f] = 0]
          /\ ready' = [ready EXCEPT ![n] = @ \ {epoll[n][f]}]
      BY <1>10, <2>2 DEF EpollDel
    <3> HIDE DEF f
    <3>2. \A m \in NetThread, g \in Fd : epoll'[m][g] # 0 => epoll'[m][g] = epoll[m][g]
      BY <3>1 DEF TypeOK
    <3>3. \A m \in NetThread : ready'[m] \subseteq ready[m] \cup {Notify, Listen}
      BY <3>1 DEF TypeOK
    <3>4. EpollUids'
      BY <1>0, <3>2 DEF KnownUids, EpollUids, KnownKept, Known
    <3> QED BY <1>0, <2>1, <3>3, <3>4, UidsKept DEF KnownUids
  <2>3. CASE fdOf[cur[n][1]] \notin Fd
    <3>1. UNCHANGED <<epoll, ready>>
      BY <1>10, <2>3 DEF EpollDel
    <3> QED BY <1>0, <2>1, <3>1, UidsFrame
  <2> QED BY <2>2, <2>3
<1>11. ASSUME NEW n \in NetThread, CloseSocket(n) PROVE KnownUids'
  BY <1>0, <1>11, UidsFrame DEF CloseSocket
<1>12. ASSUME NEW n \in NetThread, NEW u \in Uid, NetHup(n, u) PROVE KnownUids'
  <2>1. /\ batch' = [batch EXCEPT ![n] = @ \ {<<u, TRUE>>}]
        /\ UNCHANGED <<epoll, ready, sbuffer, pipe>>
    BY <1>12 DEF NetHup
  <2>2. \A m \in NetThread : batch'[m] \subseteq batch[m]
    BY <2>1 DEF TypeOK
  <2> QED BY <2>1, <2>2, <1>0, UidsKept DEF KnownUids
<1>13. ASSUME NEW n \in NetThread, NEW u \in Uid, NetRecv(n, u) PROVE KnownUids'
  <2>1. /\ batch' = [batch EXCEPT ![n] = @ \ {<<u, FALSE>>}]
        /\ UNCHANGED <<epoll, ready, sbuffer, pipe>>
    BY <1>13 DEF NetRecv
  <2>2. \A m \in NetThread : batch'[m] \subseteq batch[m]
    BY <2>1 DEF TypeOK
  <2> QED BY <2>1, <2>2, <1>0, UidsKept DEF KnownUids
<1>14. ASSUME NEW n \in NetThread, NEW u \in Uid, NetIdle(n, u) PROVE KnownUids'
  <2>1. /\ batch' = [batch EXCEPT ![n] = @ \ {<<u, FALSE>>}]
        /\ UNCHANGED <<epoll, ready, sbuffer, pipe>>
    BY <1>14 DEF NetIdle
  <2>2. \A m \in NetThread : batch'[m] \subseteq batch[m]
    BY <2>1 DEF TypeOK
  <2> QED BY <2>1, <2>2, <1>0, UidsKept DEF KnownUids
<1>15. ASSUME NEW n \in NetThread, NEW u \in Uid, NetEof(n, u) PROVE KnownUids'
  <2>1. /\ batch' = [batch EXCEPT ![n] = @ \ {<<u, FALSE>>}]
        /\ UNCHANGED <<epoll, ready, sbuffer, pipe>>
    BY <1>15 DEF NetEof
  <2>2. \A m \in NetThread : batch'[m] \subseteq batch[m]
    BY <2>1 DEF TypeOK
  <2> QED BY <2>1, <2>2, <1>0, UidsKept DEF KnownUids
<1>16. ASSUME NEW n \in NetThread, ProcessPipe(n) PROVE KnownUids'
  <2>1. /\ batch' = [batch EXCEPT ![n] = @ \ {<<Notify, FALSE>>}]
        /\ pipe' = [pipe EXCEPT ![n] = sbuffer[n]]
        /\ sbuffer' = [sbuffer EXCEPT ![n] = << >>]
        /\ UNCHANGED <<epoll, ready>>
    BY <1>16 DEF ProcessPipe
  <2>2. \A m \in NetThread : batch'[m] \subseteq batch[m]
    BY <2>1 DEF TypeOK
  <2>3. /\ pipe'[n] = sbuffer[n] /\ sbuffer'[n] = << >>
        /\ \A m \in NetThread : m # n => pipe'[m] = pipe[m] /\ sbuffer'[m] = sbuffer[m]
    BY <2>1 DEF TypeOK
  <2>4. Len(<< >>) = 0
    BY EmptySeq
  <2>5. SendUids'
    BY <1>0, <2>3, <2>4 DEF KnownUids, SendUids, Addressed, KnownKept, Known
  <2>6. PipeUids'
    <3> SUFFICES ASSUME NEW m \in NetThread, NEW i \in 1 .. Len(pipe'[m])
                 PROVE  Addressed(m, pipe[m][i])'
      BY DEF PipeUids
    <3>1. CASE m = n
      <4>1. i \in 1 .. Len(sbuffer[n]) /\ pipe'[m][i] = sbuffer[n][i]
        BY <2>3, <3>1
      <4> QED BY <1>0, <3>1, <4>1 DEF KnownUids, SendUids, Addressed, KnownKept, Known
    <3>2. CASE m # n
      <4>1. i \in 1 .. Len(pipe[m]) /\ pipe'[m][i] = pipe[m][i]
        BY <2>3, <3>2
      <4> QED BY <1>0, <4>1 DEF KnownUids, PipeUids, Addressed, KnownKept, Known
    <3> QED BY <3>1, <3>2
  <2> QED BY <1>0, <2>1, <2>2, <2>5, <2>6, UidsKept DEF KnownUids
<1>17. ASSUME NEW n \in NetThread, PipeClose(n) PROVE KnownUids'
  <2>1. /\ pipe[n] # << >> /\ pipe' = [pipe EXCEPT ![n] = Tail(@)]
        /\ UNCHANGED <<epoll, ready, batch, sbuffer>>
    BY <1>17 DEF PipeClose
  <2> QED BY <2>1, <1>0, PipeTailKnown, UidsKept DEF KnownUids
<1>18. ASSUME NEW n \in NetThread, PipeSend(n) PROVE KnownUids'
  <2>1. /\ pipe[n] # << >> /\ pipe' = [pipe EXCEPT ![n] = Tail(@)]
        /\ UNCHANGED <<epoll, batch, sbuffer>>
    BY <1>18 DEF PipeSend
  <2>2. uidConn[n][Head(pipe[n]).uid] \in Conn
    BY <2>1, PipeKnown, KnownConn
  <2>3. ready' = ready \/ Edge(uidConn[n][Head(pipe[n]).uid])
    BY <1>18 DEF PipeSend
  <2>4. ReadyUids'
    BY <1>0, <2>2, <2>3, EdgeKnown, UidsKept
  <2> QED BY <2>1, <2>4, <1>0, PipeTailKnown, UidsKept DEF KnownUids
<1>19. ASSUME NEW n \in NetThread, TornLookup(n) PROVE KnownUids'
  BY <1>0, <1>19, UidsFrame DEF TornLookup
<1>20. ASSUME NEW h \in Handle, HandleLoop(h) PROVE KnownUids'
  BY <1>0, <1>20, UidsFrame DEF HandleLoop
<1>21. ASSUME NEW h \in Handle, HandleTimeout(h) PROVE KnownUids'
  BY <1>0, <1>21, UidsFrame DEF HandleTimeout
<1>22. ASSUME NEW h \in Handle, HandlePop(h) PROVE KnownUids'
  BY <1>0, <1>22, UidsFrame DEF HandlePop
<1>23. ASSUME NEW h \in Handle, HandleDrained(h) PROVE KnownUids'
  BY <1>0, <1>23, UidsFrame DEF HandleDrained
<1>24. ASSUME NEW h \in Handle, NEW recv \in work[h], HandleRequest(h, recv)
      PROVE  KnownUids'
  <2> DEFINE m == ThreadOf(recv.fd)
             send == [cmd |-> "s", uid |-> recv.uid, req |-> recv.req]
  <2>1. FromConnection(recv) /\ recv \in RecvData
    BY <1>24 DEF RequestsKnown, TypeOK
  <2>2. m \in NetThread /\ send \in SendData /\ Addressed(m, send)
    BY <2>1, ThreadOfType DEF FromConnection, SendData, RecvData, Addressed
  <2>3. UNCHANGED <<epoll, batch, pipe>> /\ (UNCHANGED <<sbuffer, ready>> \/ PushSend(m, send))
    BY <1>24 DEF HandleRequest
  <2> HIDE DEF m, send
  <2>4. SendUids' /\ ReadyUids'
    BY <1>0, <2>2, <2>3, PushKnown, UidsKept
  <2> QED BY <2>3, <2>4, <1>0, UidsKept DEF KnownUids
<1>25. ASSUME NEW h \in Handle, NEW recv \in work[h], HandleThrow(h, recv)
      PROVE  KnownUids'
  <2> DEFINE m == ThreadOf(recv.fd)
             send == [cmd |-> "c", uid |-> recv.uid, req |-> recv.req]
  <2>1. FromConnection(recv) /\ recv \in RecvData
    BY <1>25 DEF RequestsKnown, TypeOK
  <2>2. m \in NetThread /\ send \in SendData /\ Addressed(m, send)
    BY <2>1, ThreadOfType DEF FromConnection, SendData, RecvData, Addressed
  <2>3. UNCHANGED <<epoll, batch, pipe>> /\ (UNCHANGED <<sbuffer, ready>> \/ PushSend(m, send))
    BY <1>25 DEF HandleThrow
  <2> HIDE DEF m, send
  <2>4. SendUids' /\ ReadyUids'
    BY <1>0, <2>2, <2>3, PushKnown, UidsKept
  <2> QED BY <2>3, <2>4, <1>0, UidsKept DEF KnownUids
<1>26. CASE Terminate
  BY <1>0, <1>26, UidsFrame DEF Terminate
<1>27. CASE MainStopNet
  BY <1>0, <1>27, UidsFrame DEF MainStopNet
<1>28. CASE MainNotifyHandles
  BY <1>0, <1>28, UidsFrame DEF MainNotifyHandles
<1>29. CASE MainJoinHandles
  BY <1>0, <1>29, UidsFrame DEF MainJoinHandles
<1>30. CASE UNCHANGED vars
  BY <1>30, <1>0, UidsFrame DEF vars
<1> QED
  BY <1>1, <1>2, <1>3, <1>4, <1>5, <1>6, <1>7, <1>8, <1>9, <1>10, <1>11,
     <1>12, <1>13, <1>14, <1>15, <1>16, <1>17, <1>18, <1>19, <1>20, <1>21,
     <1>22, <1>23, <1>24, <1>25, <1>26, <1>27, <1>28, <1>29, <1>30
     DEF Next, Client, AcceptStep, NetStep, FinishDel, HandleStep, Main

(* A connection that is open lives on the thread of its descriptor alone.  *)
LEMMA HomeThread ==
  ASSUME TypeOK, Tables, NEW n \in NetThread, NEW u, Known(n, u), Open(uidConn[n][u])
  PROVE  fdOf[uidConn[n][u]] \in Fd /\ ThreadOf(fdOf[uidConn[n][u]]) = n
<1> DEFINE c == uidConn[n][u]
           m == ThreadOf(fdOf[c])
<1>1. c \in Conn /\ u \in Uid /\ uidOf[c] = u /\ u # 0
  BY KnownConn DEF Uid
<1>2. fdOf[c] \in Fd
  BY <1>1 DEF TypeOK, Open
<1>3. m \in NetThread
  BY <1>2, ThreadOfType
<1> HIDE DEF c
<1>4. uidConn[m][u] = c /\ c # None
  BY <1>1 DEF Tables, c
<1> QED BY <1>1, <1>2, <1>3, <1>4 DEF Tables, c

(* What is known of a request stays true.                                  *)
LEMMA FromKept ==
  ASSUME KnownKept
  PROVE  \A r : FromConnection(r) => FromConnection(r)'
<1> SUFFICES ASSUME NEW r, FromConnection(r)
             PROVE  FromConnection(r)'
  OBVIOUS
<1>1. ThreadOf(r.fd) \in NetThread /\ r.uid \in Uid
  BY ThreadOfType DEF FromConnection, Known
<1> QED BY <1>1 DEF FromConnection, KnownKept

(* So a step that moves no request keeps them known.                       *)
LEMMA RequestsFrame ==
  ASSUME RequestsKnown, KnownKept, UNCHANGED <<rbuffer, work>>
  PROVE  RequestsKnown'
<1>1. /\ \A i \in 1 .. Len(rbuffer') : ~rbuffer'[i].isClosed => FromConnection(rbuffer'[i])
      /\ \A h \in Handle : \A r \in work'[h] : ~r.isClosed /\ FromConnection(r)
  BY DEF RequestsKnown
<1>2. ASSUME NEW i \in 1 .. Len(rbuffer'), ~rbuffer'[i].isClosed
      PROVE  FromConnection(rbuffer[i])'
  <2>1. PICK r : r = rbuffer'[i] /\ FromConnection(r)
    BY <1>1, <1>2
  <2>2. FromConnection(r)'
    BY <2>1, FromKept
  <2> QED BY <2>1, <2>2 DEF FromConnection, Known
<1>3. \A h \in Handle : \A r \in work'[h] : ~r.isClosed /\ FromConnection(r)'
  BY <1>1, FromKept
<1> QED BY <1>2, <1>3 DEF RequestsKnown

(* What insertRecvQueue appends is a close event or a known request.       *)
LEMMA InsertKnown ==
  ASSUME TypeOK, RequestsKnown, KnownKept, NEW recv \in RecvData,
         rbuffer' = Append(rbuffer, recv), UNCHANGED work,
         recv.isClosed \/ FromConnection(recv)
  PROVE  RequestsKnown'
<1>1. /\ Len(rbuffer') = Len(rbuffer) + 1 /\ Len(rbuffer) \in Nat
      /\ \A i \in 1 .. Len(rbuffer) : rbuffer'[i] = rbuffer[i]
      /\ rbuffer'[Len(rbuffer) + 1] = recv
  BY AppendProperties, LenProperties DEF TypeOK
<1>2. ASSUME NEW i \in 1 .. Len(rbuffer'), ~rbuffer'[i].isClosed
      PROVE  FromConnection(rbuffer[i])'
  <2>1. FromConnection(rbuffer'[i])
    <3>1. CASE i = Len(rbuffer) + 1
      BY <1>1, <1>2, <3>1
    <3>2. CASE i # Len(rbuffer) + 1
      <4>1. i \in 1 .. Len(rbuffer) /\ rbuffer'[i] = rbuffer[i]
        BY <1>1, <3>2
      <4>2. FromConnection(rbuffer[i])
        BY <1>2, <4>1 DEF RequestsKnown
      <4> QED BY <4>1, <4>2
    <3> QED BY <3>1, <3>2
  <2>2. PICK r : r = rbuffer'[i] /\ FromConnection(r)
    BY <2>1
  <2>3. FromConnection(r)'
    BY <2>2, FromKept
  <2> QED BY <2>2, <2>3 DEF FromConnection, Known
<1>3. \A h \in Handle : \A r \in work'[h] : ~r.isClosed /\ FromConnection(r)'
  BY FromKept DEF RequestsKnown
<1> QED BY <1>2, <1>3 DEF RequestsKnown

(* delConnection appends a close event.                                    *)
LEMMA DelRequests ==
  ASSUME TypeOK, Tables, RequestsKnown, KnownKept, NEW n \in NetThread, NEW u,
         Known(n, u), DelConnection(n, uidConn[n][u]), UNCHANGED work
  PROVE  RequestsKnown'
<1> DEFINE c == uidConn[n][u]
           recv == [uid |-> uidOf[c], fd |-> fdOf[c], isClosed |-> TRUE, req |-> <<c, 0>>]
<1>1. c \in Conn /\ uidOf[c] \in Uid
  BY KnownConn
<1>2. rbuffer' = Append(rbuffer, recv) /\ recv \in RecvData /\ recv.isClosed
  <2> HIDE DEF c
  <2>1. DelConnection(n, c)
    BY DEF c
  <2>2. rbuffer' = Append(rbuffer, recv)
    BY <1>1, <2>1, DelType
  <2>3. recv \in RecvData /\ recv.isClosed
    BY <1>1 DEF TypeOK, RecvData
  <2> QED BY <2>2, <2>3
<1> HIDE DEF recv
<1> QED BY <1>2, InsertKnown

(* Every step keeps requests known.                                        *)
LEMMA RequestsStep ==
  TypeOK /\ Tables /\ InHand /\ KnownUids /\ RequestsKnown /\ [Next]_vars => RequestsKnown'
<1> SUFFICES ASSUME TypeOK, Tables, InHand, KnownUids, RequestsKnown, [Next]_vars
             PROVE  RequestsKnown'
  OBVIOUS
<1> USE DEF clientVars, connVars, netVars, handleVars, stopVars, serverVars,
            netSide, workVars
<1>0. KnownKept
  BY KnownStep
<1>1. ASSUME NEW c \in Conn, Connect(c) PROVE RequestsKnown'
  BY <1>0, <1>1, RequestsFrame DEF Connect
<1>2. ASSUME NEW c \in Conn, Write(c) PROVE RequestsKnown'
  BY <1>0, <1>2, RequestsFrame DEF Write
<1>3. ASSUME NEW c \in Conn, ClientClose(c) PROVE RequestsKnown'
  BY <1>0, <1>3, RequestsFrame DEF ClientClose
<1>4. CASE AcceptLoop
  BY <1>0, <1>4, RequestsFrame DEF AcceptLoop
<1>5. ASSUME NEW c \in Conn, NEW fd \in Fd, Accept(c, fd) PROVE RequestsKnown'
  BY <1>0, <1>5, RequestsFrame DEF Accept
<1>6. CASE AddTcpConnection
  BY <1>0, <1>6, RequestsFrame DEF AddTcpConnection
<1>7. CASE EpollAdd
  BY <1>0, <1>7, RequestsFrame DEF EpollAdd
<1>8. ASSUME NEW n \in NetThread, NetWait(n) PROVE RequestsKnown'
  BY <1>0, <1>8, RequestsFrame DEF NetWait
<1>9. ASSUME NEW n \in NetThread, NetLoop(n) PROVE RequestsKnown'
  BY <1>0, <1>9, RequestsFrame DEF NetLoop
<1>10. ASSUME NEW n \in NetThread, EpollDel(n) PROVE RequestsKnown'
  BY <1>0, <1>10, RequestsFrame DEF EpollDel
<1>11. ASSUME NEW n \in NetThread, CloseSocket(n) PROVE RequestsKnown'
  BY <1>0, <1>11, RequestsFrame DEF CloseSocket
<1>12. ASSUME NEW n \in NetThread, NEW u \in Uid, NetHup(n, u)
      PROVE  RequestsKnown'
  <2>1. Known(n, u)
    BY <1>12, BatchKnown DEF NetHup
  <2>2. DelConnection(n, uidConn[n][u]) /\ UNCHANGED work
    BY <1>12 DEF NetHup
  <2> QED BY <1>0, <2>1, <2>2, DelRequests
<1>13. ASSUME NEW n \in NetThread, NEW u \in Uid, NetRecv(n, u)
      PROVE  RequestsKnown'
  <2> DEFINE c == uidConn[n][u]
             recv == [uid |-> u, fd |-> fdOf[c], isClosed |-> FALSE, req |-> <<c, taken[c] + 1>>]
  <2>1. Known(n, u) /\ Open(c)
    BY <1>13, BatchKnown DEF NetRecv, Unread
  <2>2. c \in Conn /\ fdOf[c] \in Fd /\ ThreadOf(fdOf[c]) = n
    BY <2>1, KnownConn, HomeThread
  <2>3. taken[c] + 1 \in 1 .. MaxReq
    BY <1>13, <2>2 DEF NetRecv, Unread, TypeOK
  <2>4. rbuffer' = Append(rbuffer, recv) /\ UNCHANGED work
    BY <1>13 DEF NetRecv, InsertRecvQueue
  <2>5. recv \in RecvData
    BY <2>2, <2>3 DEF RecvData
  <2>6. FromConnection(recv)
    <3>1. recv.req \in Request /\ recv.fd = fdOf[c] /\ recv.uid = u /\ recv.req[1] = c
      BY <2>2, <2>3 DEF Request
    <3> HIDE DEF recv
    <3> QED BY <2>1, <2>2, <3>1 DEF FromConnection
  <2> HIDE DEF recv
  <2> QED BY <1>0, <2>4, <2>5, <2>6, InsertKnown
<1>14. ASSUME NEW n \in NetThread, NEW u \in Uid, NetIdle(n, u)
      PROVE  RequestsKnown'
  BY <1>0, <1>14, RequestsFrame DEF NetIdle
<1>15. ASSUME NEW n \in NetThread, NEW u \in Uid, NetEof(n, u)
      PROVE  RequestsKnown'
  <2>1. Known(n, u)
    BY <1>15, BatchKnown DEF NetEof
  <2>2. DelConnection(n, uidConn[n][u]) /\ UNCHANGED work
    BY <1>15 DEF NetEof
  <2> QED BY <1>0, <2>1, <2>2, DelRequests
<1>16. ASSUME NEW n \in NetThread, ProcessPipe(n) PROVE RequestsKnown'
  BY <1>0, <1>16, RequestsFrame DEF ProcessPipe
<1>17. ASSUME NEW n \in NetThread, PipeClose(n) PROVE RequestsKnown'
  <2>1. PICK u : u = Head(pipe[n]).uid
    OBVIOUS
  <2>2. Known(n, u)
    BY <1>17, <2>1, PipeKnown DEF PipeClose
  <2>3. DelConnection(n, uidConn[n][u]) /\ UNCHANGED work
    BY <1>17, <2>1 DEF PipeClose
  <2> QED BY <1>0, <2>2, <2>3, DelRequests
<1>18. ASSUME NEW n \in NetThread, PipeSend(n) PROVE RequestsKnown'
  BY <1>0, <1>18, RequestsFrame DEF PipeSend
<1>19. ASSUME NEW n \in NetThread, TornLookup(n) PROVE RequestsKnown'
  BY <1>0, <1>19, RequestsFrame DEF TornLookup
<1>20. ASSUME NEW h \in Handle, HandleLoop(h) PROVE RequestsKnown'
  BY <1>0, <1>20, RequestsFrame DEF HandleLoop
<1>21. ASSUME NEW h \in Handle, HandleTimeout(h) PROVE RequestsKnown'
  BY <1>0, <1>21, RequestsFrame DEF HandleTimeout
<1>22. ASSUME NEW h \in Handle, HandlePop(h) PROVE RequestsKnown'
  <2>1. /\ rbuffer # << >> /\ rbuffer' = Tail(rbuffer)
        /\ work' = work \/ (~Head(rbuffer).isClosed
                            /\ work' = [work EXCEPT ![h] = @ \cup {Head(rbuffer)}])
    BY <1>22 DEF HandlePop
  <2>2. /\ Len(rbuffer') = Len(rbuffer) - 1 /\ Len(rbuffer) \in Nat \ {0}
        /\ \A i \in 1 .. Len(rbuffer') : rbuffer'[i] = rbuffer[i + 1]
        /\ Head(rbuffer) = rbuffer[1]
    BY <2>1, HeadTailProperties, LenProperties, EmptySeq DEF TypeOK
  <2>3. ASSUME NEW i \in 1 .. Len(rbuffer'), ~rbuffer'[i].isClosed
        PROVE  FromConnection(rbuffer[i])'
    <3>1. PICK r : r = rbuffer[i + 1] /\ rbuffer'[i] = r
      BY <2>2
    <3>2. i + 1 \in 1 .. Len(rbuffer)
      BY <2>2
    <3>3. FromConnection(r)
      BY <2>3, <3>1, <3>2 DEF RequestsKnown
    <3>4. FromConnection(r)'
      BY <1>0, <3>3, FromKept
    <3> QED BY <3>1, <3>4 DEF FromConnection, Known
  <2>4. ASSUME NEW g \in Handle, NEW r \in work'[g]
        PROVE  ~r.isClosed /\ FromConnection(r)'
    <3>1. ~r.isClosed /\ FromConnection(r)
      <4>1. CASE r \in work[g]
        BY <4>1 DEF RequestsKnown
      <4>2. CASE r \notin work[g]
        <5>0. work' # work
          BY <2>4, <4>2
        <5>1. ~rbuffer[1].isClosed /\ work' = [work EXCEPT ![h] = @ \cup {rbuffer[1]}]
          BY <2>1, <2>2, <5>0
        <5>3. r = rbuffer[1] /\ 1 \in 1 .. Len(rbuffer)
          BY <2>2, <2>4, <4>2, <5>1 DEF TypeOK
        <5>2. FromConnection(rbuffer[1])
          BY <5>1, <5>3 DEF RequestsKnown
        <5> QED BY <5>1, <5>2, <5>3
      <4> QED BY <4>1, <4>2
    <3> QED BY <1>0, <3>1, FromKept
  <2> QED BY <2>3, <2>4 DEF RequestsKnown
<1>23. ASSUME NEW h \in Handle, HandleDrained(h) PROVE RequestsKnown'
  BY <1>0, <1>23, RequestsFrame DEF HandleDrained
<1>24. ASSUME NEW h \in Handle, NEW recv \in work[h], HandleRequest(h, recv)
      PROVE  RequestsKnown'
  <2>1. work' = [work EXCEPT ![h] = @ \ {recv}] /\ rbuffer' = rbuffer
    BY <1>24 DEF HandleRequest
  <2>2. \A g \in Handle : work'[g] \subseteq work[g]
    BY <2>1 DEF TypeOK
  <2>3. ASSUME NEW i \in 1 .. Len(rbuffer'), ~rbuffer'[i].isClosed
        PROVE  FromConnection(rbuffer[i])'
    <3>1. PICK r : r = rbuffer[i] /\ rbuffer'[i] = r
      BY <2>1
    <3>2. FromConnection(r)
      BY <2>1, <2>3, <3>1 DEF RequestsKnown
    <3>3. FromConnection(r)'
      BY <1>0, <3>2, FromKept
    <3> QED BY <3>1, <3>3 DEF FromConnection, Known
  <2>4. \A g \in Handle : \A r \in work'[g] : ~r.isClosed /\ FromConnection(r)'
    BY <1>0, <2>2, FromKept DEF RequestsKnown
  <2> QED BY <2>3, <2>4 DEF RequestsKnown
<1>25. ASSUME NEW h \in Handle, NEW recv \in work[h], HandleThrow(h, recv)
      PROVE  RequestsKnown'
  <2>1. work' = [work EXCEPT ![h] = @ \ {recv}] /\ rbuffer' = rbuffer
    BY <1>25 DEF HandleThrow
  <2>2. \A g \in Handle : work'[g] \subseteq work[g]
    BY <2>1 DEF TypeOK
  <2>3. ASSUME NEW i \in 1 .. Len(rbuffer'), ~rbuffer'[i].isClosed
        PROVE  FromConnection(rbuffer[i])'
    <3>1. PICK r : r = rbuffer[i] /\ rbuffer'[i] = r
      BY <2>1
    <3>2. FromConnection(r)
      BY <2>1, <2>3, <3>1 DEF RequestsKnown
    <3>3. FromConnection(r)'
      BY <1>0, <3>2, FromKept
    <3> QED BY <3>1, <3>3 DEF FromConnection, Known
  <2>4. \A g \in Handle : \A r \in work'[g] : ~r.isClosed /\ FromConnection(r)'
    BY <1>0, <2>2, FromKept DEF RequestsKnown
  <2> QED BY <2>3, <2>4 DEF RequestsKnown
<1>26. CASE Terminate
  BY <1>0, <1>26, RequestsFrame DEF Terminate
<1>27. CASE MainStopNet
  BY <1>0, <1>27, RequestsFrame DEF MainStopNet
<1>28. CASE MainNotifyHandles
  BY <1>0, <1>28, RequestsFrame DEF MainNotifyHandles
<1>29. CASE MainJoinHandles
  BY <1>0, <1>29, RequestsFrame DEF MainJoinHandles
<1>30. CASE UNCHANGED vars
  BY <1>30, <1>0, RequestsFrame DEF vars
<1> QED
  BY <1>1, <1>2, <1>3, <1>4, <1>5, <1>6, <1>7, <1>8, <1>9, <1>10, <1>11,
     <1>12, <1>13, <1>14, <1>15, <1>16, <1>17, <1>18, <1>19, <1>20, <1>21,
     <1>22, <1>23, <1>24, <1>25, <1>26, <1>27, <1>28, <1>29, <1>30
     DEF Next, Client, AcceptStep, NetStep, FinishDel, HandleStep, Main

(* The entries of the epolls depend on the connections and on the threads  *)
(* that have one in hand.                                                  *)
LEMMA InEpollFrame == InEpoll /\ UNCHANGED <<fdOf, uidOf, cur, epoll>> => InEpoll'
  BY Zenon DEF InEpoll, Open

(* A thread that takes a connection in hand had none.                      *)
LEMMA DelInEpoll ==
  ASSUME TypeOK, InHand, InEpoll, NEW n \in NetThread, netPc[n] = "run", NEW x,
         cur' = [cur EXCEPT ![n] = x], UNCHANGED <<fdOf, uidOf, epoll>>
  PROVE  InEpoll'
<1>1. cur[n][1] = None
  BY DEF InHand, HandsEmpty
<1>2. \A m \in NetThread : m # n => cur'[m] = cur[m]
  BY DEF TypeOK
<1> SUFFICES ASSUME NEW c \in Conn, Open(c), \A m \in NetThread : cur'[m][1] # c
             PROVE  epoll[ThreadOf(fdOf[c])][fdOf[c]] = uidOf[c]
  BY DEF InEpoll, Open
<1>3. \A m \in NetThread : cur[m][1] # c
  BY <1>1, <1>2
<1> QED BY <1>3 DEF InEpoll

(* Every step keeps the entries of the epolls.                             *)
LEMMA InEpollStep ==
  TypeOK /\ Tables /\ InHand /\ InEpoll /\ [Next]_vars => InEpoll'
<1> SUFFICES ASSUME TypeOK, Tables, InHand, InEpoll, [Next]_vars PROVE InEpoll'
  OBVIOUS
<1> USE DEF clientVars, connVars, netVars, handleVars, stopVars, serverVars,
            netSide, workVars
<1>1. ASSUME NEW c \in Conn, Connect(c) PROVE InEpoll'
  BY <1>1, InEpollFrame DEF Connect
<1>2. ASSUME NEW c \in Conn, Write(c) PROVE InEpoll'
  BY <1>2, InEpollFrame DEF Write
<1>3. ASSUME NEW c \in Conn, ClientClose(c) PROVE InEpoll'
  BY <1>3, InEpollFrame DEF ClientClose
<1>4. CASE AcceptLoop
  BY <1>4, InEpollFrame DEF AcceptLoop
<1>5. ASSUME NEW c \in Conn, NEW fd \in Fd, Accept(c, fd) PROVE InEpoll'
  <2>1. /\ fdOf' = [fdOf EXCEPT ![c] = fd] /\ cur' = [cur EXCEPT ![0] = <<c, fd>>]
        /\ netPc[0] = "accept" /\ 0 \in NetThread /\ UNCHANGED <<uidOf, epoll>>
    BY <1>5 DEF Accept, NetThread
  <2>2. cur[0][1] = None
    BY <2>1 DEF InHand, HandsEmpty
  <2>3. /\ cur'[0][1] = c /\ \A m \in NetThread : m # 0 => cur'[m] = cur[m]
        /\ \A d \in Conn : d # c => fdOf'[d] = fdOf[d]
    BY <2>1 DEF TypeOK
  <2> SUFFICES ASSUME NEW d \in Conn, Open(d)', \A m \in NetThread : cur'[m][1] # d
               PROVE  epoll'[ThreadOf(fdOf'[d])][fdOf'[d]] = uidOf'[d]
    BY DEF InEpoll, ThreadOf
  <2>4. d # c /\ \A m \in NetThread : cur[m][1] # d
    BY <2>1, <2>2, <2>3
  <2> QED BY <2>1, <2>3, <2>4 DEF InEpoll, Open
<1>6. CASE AddTcpConnection
  <2>1. PICK c \in Conn : c = cur[0][1]
    BY <1>6 DEF AddTcpConnection, InHand, Adding, TypeOK
  <2>2. /\ uidOf' = [uidOf EXCEPT ![c] = Head(free[ThreadOf(cur[0][2])])]
        /\ UNCHANGED <<fdOf, cur, epoll>> /\ 0 \in NetThread
    BY <1>6, <2>1 DEF AddTcpConnection, NetThread
  <2>3. \A d \in Conn : d # c => uidOf'[d] = uidOf[d]
    BY <2>2 DEF TypeOK
  <2> QED BY <2>1, <2>2, <2>3 DEF InEpoll, Open
<1>7. CASE EpollAdd
  <2>1. PICK c \in Conn, fd \in Fd, n \in NetThread :
          c = cur[0][1] /\ fd = cur[0][2] /\ n = ThreadOf(fd) /\ fdOf[c] = fd
    <3>1. cur[0][1] \in accepted /\ cur[0][2] \in Fd /\ fdOf[cur[0][1]] = cur[0][2]
      BY <1>7 DEF EpollAdd, InHand, Adding
    <3>2. cur[0][1] \in Conn /\ ThreadOf(cur[0][2]) \in NetThread
      BY <3>1, ThreadOfType DEF TypeOK
    <3> QED BY <3>1, <3>2
  <2>2. /\ epoll' = [epoll EXCEPT ![n][fd] = uidOf[c]] /\ UNCHANGED <<fdOf, uidOf>>
        /\ cur' = [cur EXCEPT ![0] = <<None, NoFd>>] /\ 0 \in NetThread
    BY <1>7, <2>1 DEF EpollAdd, NetThread
  <2>3. /\ \A m \in NetThread : m # 0 => cur'[m] = cur[m]
        /\ epoll'[n][fd] = uidOf[c]
        /\ \A m \in NetThread, f \in Fd : f # fd => epoll'[m][f] = epoll[m][f]
    BY <2>1, <2>2 DEF TypeOK
  <2> SUFFICES ASSUME NEW d \in Conn, Open(d), \A m \in NetThread : cur'[m][1] # d
               PROVE  epoll'[ThreadOf(fdOf[d])][fdOf[d]] = uidOf[d]
    BY <2>2 DEF InEpoll, Open, ThreadOf
  <2>4. CASE d = c
    BY <2>1, <2>3, <2>4
  <2>5. CASE d # c
    <3>1. \A m \in NetThread : cur[m][1] # d
      BY <2>1, <2>3, <2>5
    <3>2. fdOf[d] # fd
      BY <2>1, <2>5 DEF Tables
    <3>3. fdOf[d] \in Fd /\ ThreadOf(fdOf[d]) \in NetThread
      BY ThreadOfType DEF TypeOK, Open
    <3> QED BY <2>3, <3>1, <3>2, <3>3 DEF InEpoll
  <2> QED BY <2>4, <2>5
<1>8. ASSUME NEW n \in NetThread, NetWait(n) PROVE InEpoll'
  BY <1>8, InEpollFrame DEF NetWait
<1>9. ASSUME NEW n \in NetThread, NetLoop(n) PROVE InEpoll'
  BY <1>9, InEpollFrame DEF NetLoop
<1>10. ASSUME NEW n \in NetThread, EpollDel(n) PROVE InEpoll'
  <2>1. CASE fdOf[cur[n][1]] \in Fd
    <3>1. PICK c \in Conn, fd \in Fd : c = cur[n][1] /\ fd = fdOf[c]
      BY <1>10, <2>1 DEF EpollDel, InHand, Deleting, OwnConn
    <3>2. epoll' = [epoll EXCEPT ![n][fd] = 0] /\ UNCHANGED <<fdOf, uidOf, cur>>
      BY <1>10, <2>1, <3>1 DEF EpollDel
    <3>3. \A m \in NetThread, f \in Fd : f # fd => epoll'[m][f] = epoll[m][f]
      BY <3>2 DEF TypeOK
    <3> SUFFICES ASSUME NEW d \in Conn, Open(d), \A m \in NetThread : cur[m][1] # d
                 PROVE  epoll'[ThreadOf(fdOf[d])][fdOf[d]] = uidOf[d]
      BY <3>2 DEF InEpoll, Open, ThreadOf
    <3>4. fdOf[d] # fd
      BY <3>1 DEF Tables
    <3>5. fdOf[d] \in Fd /\ ThreadOf(fdOf[d]) \in NetThread
      BY ThreadOfType DEF TypeOK, Open
    <3> QED BY <3>3, <3>4, <3>5 DEF InEpoll
  <2>2. CASE fdOf[cur[n][1]] \notin Fd
    BY <1>10, <2>2, InEpollFrame DEF EpollDel
  <2> QED BY <2>1, <2>2
<1>11. ASSUME NEW n \in NetThread, CloseSocket(n) PROVE InEpoll'
  <2>1. PICK c \in Conn : c = cur[n][1]
    BY <1>11 DEF CloseSocket, InHand, Deleting, OwnConn
  <2>2. /\ fdOf' = [fdOf EXCEPT ![c] = NoFd] /\ cur' = [cur EXCEPT ![n] = <<None, NoFd>>]
        /\ UNCHANGED <<uidOf, epoll>>
    BY <1>11, <2>1 DEF CloseSocket
  <2>3. /\ fdOf'[c] = NoFd /\ \A d \in Conn : d # c => fdOf'[d] = fdOf[d]
        /\ \A m \in NetThread : m # n => cur'[m] = cur[m]
    BY <2>2 DEF TypeOK
  <2> SUFFICES ASSUME NEW d \in Conn, Open(d)', \A m \in NetThread : cur'[m][1] # d
               PROVE  epoll'[ThreadOf(fdOf'[d])][fdOf'[d]] = uidOf'[d]
    BY DEF InEpoll, ThreadOf
  <2>4. d # c /\ Open(d)
    BY <2>3 DEF Open
  <2>5. \A m \in NetThread : cur[m][1] # d
    BY <2>1, <2>3, <2>4
  <2> QED BY <2>2, <2>3, <2>4, <2>5 DEF InEpoll
<1>12. ASSUME NEW n \in NetThread, NEW u \in Uid, NetHup(n, u) PROVE InEpoll'
  <2>1. /\ netPc[n] = "run" /\ UNCHANGED <<fdOf, uidOf, epoll>>
        /\ cur' = [cur EXCEPT ![n] = <<uidConn[n][u], fdOf[uidConn[n][u]]>>]
    BY <1>12 DEF NetHup, NextEvent, DelConnection
  <2> QED BY <2>1, DelInEpoll
<1>13. ASSUME NEW n \in NetThread, NEW u \in Uid, NetRecv(n, u) PROVE InEpoll'
  BY <1>13, InEpollFrame DEF NetRecv
<1>14. ASSUME NEW n \in NetThread, NEW u \in Uid, NetIdle(n, u) PROVE InEpoll'
  BY <1>14, InEpollFrame DEF NetIdle
<1>15. ASSUME NEW n \in NetThread, NEW u \in Uid, NetEof(n, u) PROVE InEpoll'
  <2>1. /\ netPc[n] = "run" /\ UNCHANGED <<fdOf, uidOf, epoll>>
        /\ cur' = [cur EXCEPT ![n] = <<uidConn[n][u], fdOf[uidConn[n][u]]>>]
    BY <1>15 DEF NetEof, NextEvent, DelConnection
  <2> QED BY <2>1, DelInEpoll
<1>16. ASSUME NEW n \in NetThread, ProcessPipe(n) PROVE InEpoll'
  BY <1>16, InEpollFrame DEF ProcessPipe
<1>17. ASSUME NEW n \in NetThread, PipeClose(n) PROVE InEpoll'
  <2>1. PICK c : c = uidConn[n][Head(pipe[n]).uid]
    OBVIOUS
  <2>2. /\ netPc[n] = "run" /\ UNCHANGED <<fdOf, uidOf, epoll>>
        /\ cur' = [cur EXCEPT ![n] = <<c, fdOf[c]>>]
    BY <1>17, <2>1 DEF PipeClose, DelConnection
  <2> QED BY <2>2, DelInEpoll
<1>18. ASSUME NEW n \in NetThread, PipeSend(n) PROVE InEpoll'
  BY <1>18, InEpollFrame DEF PipeSend
<1>19. ASSUME NEW n \in NetThread, TornLookup(n) PROVE InEpoll'
  BY <1>19, InEpollFrame DEF TornLookup
<1>20. ASSUME NEW h \in Handle, HandleLoop(h) PROVE InEpoll'
  BY <1>20, InEpollFrame DEF HandleLoop
<1>21. ASSUME NEW h \in Handle, HandleTimeout(h) PROVE InEpoll'
  BY <1>21, InEpollFrame DEF HandleTimeout
<1>22. ASSUME NEW h \in Handle, HandlePop(h) PROVE InEpoll'
  BY <1>22, InEpollFrame DEF HandlePop
<1>23. ASSUME NEW h \in Handle, HandleDrained(h) PROVE InEpoll'
  BY <1>23, InEpollFrame DEF HandleDrained
<1>24. ASSUME NEW h \in Handle, NEW recv \in work[h], HandleRequest(h, recv)
      PROVE  InEpoll'
  BY <1>24, InEpollFrame DEF HandleRequest
<1>25. ASSUME NEW h \in Handle, NEW recv \in work[h], HandleThrow(h, recv)
      PROVE  InEpoll'
  BY <1>25, InEpollFrame DEF HandleThrow
<1>26. CASE Terminate
  BY <1>26, InEpollFrame DEF Terminate
<1>27. CASE MainStopNet
  BY <1>27, InEpollFrame DEF MainStopNet
<1>28. CASE MainNotifyHandles
  BY <1>28, InEpollFrame DEF MainNotifyHandles
<1>29. CASE MainJoinHandles
  BY <1>29, InEpollFrame DEF MainJoinHandles
<1>30. CASE UNCHANGED vars
  BY <1>30, InEpollFrame DEF vars
<1> QED
  BY <1>1, <1>2, <1>3, <1>4, <1>5, <1>6, <1>7, <1>8, <1>9, <1>10, <1>11,
     <1>12, <1>13, <1>14, <1>15, <1>16, <1>17, <1>18, <1>19, <1>20, <1>21,
     <1>22, <1>23, <1>24, <1>25, <1>26, <1>27, <1>28, <1>29, <1>30
     DEF Next, Client, AcceptStep, NetStep, FinishDel, HandleStep, Main

(* Nothing is left to be said for the property.                            *)
LEMMA RegisteredFollows == TypeOK /\ Tables /\ InHand /\ InEpoll => RegisteredWhileOpen
<1> SUFFICES ASSUME TypeOK, Tables, InHand, InEpoll,
                    NEW c \in Conn, Open(c), \A n \in NetThread : cur[n][1] # c
             PROVE  /\ epoll[ThreadOf(fdOf[c])][fdOf[c]] = uidOf[c]
                    /\ uidConn[ThreadOf(fdOf[c])][uidOf[c]] = c
  BY DEF RegisteredWhileOpen
<1>1. c \in accepted /\ 0 \in NetThread
  BY DEF Tables, NetThread
<1>2. uidOf[c] # 0
  BY <1>1 DEF InHand, Adding
<1> QED BY <1>2 DEF Tables, InEpoll

-----------------------------------------------------------------------------
(* A connection on its way to being closed stays so.                       *)
ClosingKept == \A c : Closing(c) => Closing(c)'

(* It does while no socket is opened for it and the deleting thread goes   *)
(* on with it.                                                             *)
LEMMA ClosingFrame ==
  ASSUME accepted \subseteq accepted',
         \A c \in accepted : Open(c)' => Open(c),
         \A n \in NetThread : netPc[n] \in {"del", "close"} =>
                                netPc'[n] \in {"del", "close"} /\ cur'[n] = cur[n]
  PROVE  ClosingKept
  BY DEF ClosingKept, Closing

(* Every step keeps a closing connection closing.                          *)
LEMMA ClosingStep ==
  TypeOK /\ InHand /\ [Next]_vars => ClosingKept
<1> SUFFICES ASSUME TypeOK, InHand, [Next]_vars PROVE ClosingKept
  OBVIOUS
<1> USE DEF clientVars, connVars, netVars, handleVars, stopVars, serverVars,
            netSide, workVars
<1>1. ASSUME NEW c \in Conn, Connect(c) PROVE ClosingKept
  BY <1>1, ClosingFrame DEF Connect, Open
<1>2. ASSUME NEW c \in Conn, Write(c) PROVE ClosingKept
  BY <1>2, ClosingFrame DEF Write, Open
<1>3. ASSUME NEW c \in Conn, ClientClose(c) PROVE ClosingKept
  BY <1>3, ClosingFrame DEF ClientClose, Open
<1>4. CASE AcceptLoop
  <2>1. /\ UNCHANGED <<accepted, fdOf, cur>> /\ netPc[0] \in {"run", "accept"}
        /\ \E p \in {"accept", "run"} : netPc' = [netPc EXCEPT ![0] = p]
    BY <1>4 DEF AcceptLoop, NextEvent
  <2>2. \A n \in NetThread : n # 0 => netPc'[n] = netPc[n]
    BY <2>1 DEF TypeOK
  <2> QED BY <2>1, <2>2, ClosingFrame DEF Open
<1>5. ASSUME NEW c \in Conn, NEW fd \in Fd, Accept(c, fd) PROVE ClosingKept
  <2>1. /\ c \notin accepted /\ accepted' = accepted \cup {c} /\ 0 \in NetThread
        /\ fdOf' = [fdOf EXCEPT ![c] = fd] /\ netPc[0] = "accept"
        /\ netPc' = [netPc EXCEPT ![0] = "insert"] /\ cur' = [cur EXCEPT ![0] = <<c, fd>>]
    BY <1>5 DEF Accept, Backlog, NetThread
  <2>2. \A d \in accepted : fdOf'[d] = fdOf[d]
    BY <2>1 DEF TypeOK
  <2>3. \A n \in NetThread : n # 0 => netPc'[n] = netPc[n] /\ cur'[n] = cur[n]
    BY <2>1 DEF TypeOK
  <2> QED BY <2>1, <2>2, <2>3, ClosingFrame DEF Open
<1>6. CASE AddTcpConnection
  <2>1. /\ UNCHANGED <<accepted, fdOf>> /\ 0 \in NetThread /\ netPc[0] = "insert"
        /\ \A n \in NetThread : n # 0 => netPc'[n] = netPc[n] /\ cur'[n] = cur[n]
    BY <1>6 DEF AddTcpConnection, TypeOK, NetThread
  <2> QED BY <2>1, ClosingFrame DEF Open
<1>7. CASE EpollAdd
  <2>1. /\ UNCHANGED <<accepted, fdOf>> /\ 0 \in NetThread /\ netPc[0] = "add"
        /\ \A n \in NetThread : n # 0 => netPc'[n] = netPc[n] /\ cur'[n] = cur[n]
    BY <1>7 DEF EpollAdd, TypeOK, NetThread
  <2> QED BY <2>1, ClosingFrame DEF Open
<1>8. ASSUME NEW n \in NetThread, NetWait(n) PROVE ClosingKept
  <2>1. /\ UNCHANGED <<accepted, fdOf, cur>> /\ netPc[n] \in {"run", "wait"}
        /\ \A m \in NetThread : m # n => netPc'[m] = netPc[m]
    BY <1>8 DEF NetWait, TypeOK
  <2> QED BY <2>1, ClosingFrame DEF Open
<1>9. ASSUME NEW n \in NetThread, NetLoop(n) PROVE ClosingKept
  <2>1. /\ UNCHANGED <<accepted, fdOf, cur>> /\ netPc[n] \in {"run", "wait"}
        /\ \A m \in NetThread : m # n => netPc'[m] = netPc[m]
    BY <1>9 DEF NetLoop, TypeOK
  <2> QED BY <2>1, ClosingFrame DEF Open
<1>10. ASSUME NEW n \in NetThread, EpollDel(n) PROVE ClosingKept
  <2>1. /\ UNCHANGED <<accepted, fdOf, cur>> /\ netPc'[n] = "close"
        /\ \A m \in NetThread : m # n => netPc'[m] = netPc[m]
    BY <1>10 DEF EpollDel, TypeOK
  <2> QED BY <2>1, ClosingFrame DEF Open
<1>11. ASSUME NEW n \in NetThread, CloseSocket(n) PROVE ClosingKept
  <2>1. PICK c \in Conn : c = cur[n][1]
    BY <1>11 DEF CloseSocket, InHand, Deleting, OwnConn
  <2>2. /\ fdOf' = [fdOf EXCEPT ![c] = NoFd] /\ netPc' = [netPc EXCEPT ![n] = "run"]
        /\ cur' = [cur EXCEPT ![n] = <<None, NoFd>>] /\ UNCHANGED accepted
    BY <1>11, <2>1 DEF CloseSocket
  <2>3. /\ fdOf'[c] = NoFd /\ \A d \in Conn : d # c => fdOf'[d] = fdOf[d]
        /\ \A m \in NetThread : m # n => netPc'[m] = netPc[m] /\ cur'[m] = cur[m]
        /\ accepted \subseteq Conn
    BY <2>2 DEF TypeOK
  <2> QED BY <2>1, <2>2, <2>3 DEF ClosingKept, Closing, Open
<1>12. ASSUME NEW n \in NetThread, NEW u \in Uid, NetHup(n, u) PROVE ClosingKept
  <2>1. /\ UNCHANGED <<accepted, fdOf>> /\ netPc[n] = "run"
        /\ \A m \in NetThread : m # n => netPc'[m] = netPc[m] /\ cur'[m] = cur[m]
    BY <1>12 DEF NetHup, DelConnection, NextEvent, TypeOK
  <2> QED BY <2>1, ClosingFrame DEF Open
<1>13. ASSUME NEW n \in NetThread, NEW u \in Uid, NetRecv(n, u) PROVE ClosingKept
  BY <1>13, ClosingFrame DEF NetRecv, Open
<1>14. ASSUME NEW n \in NetThread, NEW u \in Uid, NetIdle(n, u) PROVE ClosingKept
  BY <1>14, ClosingFrame DEF NetIdle, Open
<1>15. ASSUME NEW n \in NetThread, NEW u \in Uid, NetEof(n, u) PROVE ClosingKept
  <2>1. /\ UNCHANGED <<accepted, fdOf>> /\ netPc[n] = "run"
        /\ \A m \in NetThread : m # n => netPc'[m] = netPc[m] /\ cur'[m] = cur[m]
    BY <1>15 DEF NetEof, DelConnection, NextEvent, TypeOK
  <2> QED BY <2>1, ClosingFrame DEF Open
<1>16. ASSUME NEW n \in NetThread, ProcessPipe(n) PROVE ClosingKept
  BY <1>16, ClosingFrame DEF ProcessPipe, Open
<1>17. ASSUME NEW n \in NetThread, PipeClose(n) PROVE ClosingKept
  <2>1. /\ UNCHANGED <<accepted, fdOf>> /\ netPc[n] = "run"
        /\ \A m \in NetThread : m # n => netPc'[m] = netPc[m] /\ cur'[m] = cur[m]
    BY <1>17 DEF PipeClose, DelConnection, NextEvent, TypeOK
  <2> QED BY <2>1, ClosingFrame DEF Open
<1>18. ASSUME NEW n \in NetThread, PipeSend(n) PROVE ClosingKept
  BY <1>18, ClosingFrame DEF PipeSend, Open
<1>19. ASSUME NEW n \in NetThread, TornLookup(n) PROVE ClosingKept
  BY <1>19, ClosingFrame DEF TornLookup, Open
<1>20. ASSUME NEW h \in Handle, HandleLoop(h) PROVE ClosingKept
  BY <1>20, ClosingFrame DEF HandleLoop, Open
<1>21. ASSUME NEW h \in Handle, HandleTimeout(h) PROVE ClosingKept
  BY <1>21, ClosingFrame DEF HandleTimeout, Open
<1>22. ASSUME NEW h \in Handle, HandlePop(h) PROVE ClosingKept
  BY <1>22, ClosingFrame DEF HandlePop, Open
<1>23. ASSUME NEW h \in Handle, HandleDrained(h) PROVE ClosingKept
  BY <1>23, ClosingFrame DEF HandleDrained, Open
<1>24. ASSUME NEW h \in Handle, NEW recv \in work[h], HandleRequest(h, recv)
      PROVE  ClosingKept
  BY <1>24, ClosingFrame DEF HandleRequest, Open
<1>25. ASSUME NEW h \in Handle, NEW recv \in work[h], HandleThrow(h, recv)
      PROVE  ClosingKept
  BY <1>25, ClosingFrame DEF HandleThrow, Open
<1>26. CASE Terminate
  BY <1>26, ClosingFrame DEF Terminate, Open
<1>27. CASE MainStopNet
  BY <1>27, ClosingFrame DEF MainStopNet, Open
<1>28. CASE MainNotifyHandles
  BY <1>28, ClosingFrame DEF MainNotifyHandles, Open
<1>29. CASE MainJoinHandles
  BY <1>29, ClosingFrame DEF MainJoinHandles, Open
<1>30. CASE UNCHANGED vars
  BY <1>30, ClosingFrame DEF Open, vars
<1> QED
  BY <1>1, <1>2, <1>3, <1>4, <1>5, <1>6, <1>7, <1>8, <1>9, <1>10, <1>11,
     <1>12, <1>13, <1>14, <1>15, <1>16, <1>17, <1>18, <1>19, <1>20, <1>21,
     <1>22, <1>23, <1>24, <1>25, <1>26, <1>27, <1>28, <1>29, <1>30
     DEF Next, Client, AcceptStep, NetStep, FinishDel, HandleStep, Main

(* The order in the queue holds while the queue stays as it is ...         *)
LEMMA CloseFrame ==
  ASSUME CloseOrder, ClosingKept, UNCHANGED rbuffer
  PROVE  CloseOrder'
<1>1. CloseEventLast'
  BY DEF CloseOrder, CloseEventLast
<1>2. \A i \in 1 .. Len(rbuffer) : rbuffer[i].isClosed => Closing(rbuffer[i].req[1])'
  <2> SUFFICES ASSUME NEW i \in 1 .. Len(rbuffer), rbuffer[i].isClosed
               PROVE  Closing(rbuffer[i].req[1])'
    OBVIOUS
  <2>1. PICK c : c = rbuffer[i].req[1] /\ Closing(c)
    BY DEF CloseOrder
  <2>2. Closing(c)'
    BY <2>1 DEF ClosingKept
  <2> QED BY <2>1, <2>2 DEF Closing, Open
<1> QED BY <1>1, <1>2 DEF CloseOrder

(* ... or something is appended: a close event of a connection that is     *)
(* closing, or a request of one that is not.                               *)
LEMMA AppendOrder ==
  ASSUME TypeOK, CloseOrder, ClosingKept, NEW recv \in RecvData,
         rbuffer' = Append(rbuffer, recv),
         IF recv.isClosed THEN Closing(recv.req[1])' ELSE ~Closing(recv.req[1])
  PROVE  CloseOrder'
<1>1. /\ Len(rbuffer') = Len(rbuffer) + 1 /\ Len(rbuffer) \in Nat
      /\ \A i \in 1 .. Len(rbuffer) : rbuffer'[i] = rbuffer[i]
      /\ rbuffer'[Len(rbuffer) + 1] = recv
  BY AppendProperties, LenProperties DEF TypeOK
<1>2. CloseEventLast'
  <2> SUFFICES ASSUME NEW i \in 1 .. Len(rbuffer'), NEW j \in 1 .. Len(rbuffer'), i < j,
                      rbuffer'[i].isClosed, rbuffer'[i].req[1] = rbuffer'[j].req[1]
               PROVE  rbuffer'[j].isClosed
    BY DEF CloseEventLast
  <2>1. i \in 1 .. Len(rbuffer) /\ rbuffer'[i] = rbuffer[i]
    BY <1>1
  <2>2. CASE j = Len(rbuffer) + 1
    <3>1. Closing(rbuffer[i].req[1])
      BY <2>1 DEF CloseOrder
    <3>2. Closing(recv.req[1])
      BY <1>1, <2>1, <2>2, <3>1
    <3> QED BY <1>1, <2>2, <3>2
  <2>3. CASE j # Len(rbuffer) + 1
    <3>1. j \in 1 .. Len(rbuffer) /\ rbuffer'[j] = rbuffer[j]
      BY <1>1, <2>3
    <3> QED BY <2>1, <3>1 DEF CloseOrder, CloseEventLast
  <2> QED BY <2>2, <2>3
<1>3. ASSUME NEW i \in 1 .. Len(rbuffer'), rbuffer'[i].isClosed
      PROVE  Closing(rbuffer[i].req[1])'
  <2>1. CASE i = Len(rbuffer) + 1
    <3>1. rbuffer'[i] = recv /\ recv.isClosed
      BY <1>1, <1>3, <2>1
    <3>2. Closing(recv.req[1])'
      BY <3>1
    <3> QED BY <3>1, <3>2 DEF Closing, Open
  <2>2. CASE i # Len(rbuffer) + 1
    <3>1. i \in 1 .. Len(rbuffer) /\ rbuffer'[i] = rbuffer[i]
      BY <1>1, <2>2
    <3>2. PICK c : c = rbuffer[i].req[1] /\ Closing(c)
      BY <1>3, <3>1 DEF CloseOrder
    <3>3. Closing(c)'
      BY <3>2 DEF ClosingKept
    <3> QED BY <3>1, <3>2, <3>3 DEF Closing, Open
  <2> QED BY <2>1, <2>2
<1> QED BY <1>2, <1>3 DEF CloseOrder

(* delConnection tells the handles of a connection it now has in hand.     *)
LEMMA DelOrder ==
  ASSUME TypeOK, Tables, CloseOrder, ClosingKept, NEW n \in NetThread, NEW u,
         Known(n, u), DelConnection(n, uidConn[n][u]), UNCHANGED connVars
  PROVE  CloseOrder'
<1>1. PICK c \in Conn : c = uidConn[n][u] /\ uidOf[c] \in Uid
  BY KnownConn
<1>2. PICK recv : recv = [uid |-> uidOf[c], fd |-> fdOf[c], isClosed |-> TRUE, req |-> <<c, 0>>]
  OBVIOUS
<1>3. DelConnection(n, c)
  BY <1>1
<1>4. rbuffer' = Append(rbuffer, recv) /\ cur' = [cur EXCEPT ![n] = <<c, fdOf[c]>>]
      /\ netPc' = [netPc EXCEPT ![n] = "del"]
  BY <1>1, <1>2, <1>3, DelType
<1>5. recv \in RecvData /\ recv.isClosed /\ recv.req[1] = c
  BY <1>1, <1>2 DEF TypeOK, RecvData
<1>6. c \in accepted
  BY <1>1 DEF Tables, Uid
<1>7. Closing(c)'
  <2>1. netPc'[n] = "del" /\ cur'[n][1] = c
    BY <1>4 DEF TypeOK
  <2>2. accepted' = accepted
    BY DEF connVars
  <2> QED BY <1>6, <2>1, <2>2 DEF Closing
<1> QED BY <1>4, <1>5, <1>7, AppendOrder

(* Every step keeps close events behind the requests of their connection.  *)
LEMMA CloseOrderStep ==
  TypeOK /\ Tables /\ InHand /\ KnownUids /\ CloseOrder /\ [Next]_vars => CloseOrder'
<1> SUFFICES ASSUME TypeOK, Tables, InHand, KnownUids, CloseOrder, [Next]_vars
             PROVE  CloseOrder'
  OBVIOUS
<1> USE DEF clientVars, connVars, netVars, handleVars, stopVars, serverVars,
            netSide, workVars
<1>0. ClosingKept
  BY ClosingStep
<1>1. ASSUME NEW c \in Conn, Connect(c) PROVE CloseOrder'
  BY <1>0, <1>1, CloseFrame DEF Connect
<1>2. ASSUME NEW c \in Conn, Write(c) PROVE CloseOrder'
  BY <1>0, <1>2, CloseFrame DEF Write
<1>3. ASSUME NEW c \in Conn, ClientClose(c) PROVE CloseOrder'
  BY <1>0, <1>3, CloseFrame DEF ClientClose
<1>4. CASE AcceptLoop
  BY <1>0, <1>4, CloseFrame DEF AcceptLoop
<1>5. ASSUME NEW c \in Conn, NEW fd \in Fd, Accept(c, fd) PROVE CloseOrder'
  BY <1>0, <1>5, CloseFrame DEF Accept
<1>6. CASE AddTcpConnection
  BY <1>0, <1>6, CloseFrame DEF AddTcpConnection
<1>7. CASE EpollAdd
  BY <1>0, <1>7, CloseFrame DEF EpollAdd
<1>8. ASSUME NEW n \in NetThread, NetWait(n) PROVE CloseOrder'
  BY <1>0, <1>8, CloseFrame DEF NetWait
<1>9. ASSUME NEW n \in NetThread, NetLoop(n) PROVE CloseOrder'
  BY <1>0, <1>9, CloseFrame DEF NetLoop
<1>10. ASSUME NEW n \in NetThread, EpollDel(n) PROVE CloseOrder'
  BY <1>0, <1>10, CloseFrame DEF EpollDel
<1>11. ASSUME NEW n \in NetThread, CloseSocket(n) PROVE CloseOrder'
  BY <1>0, <1>11, CloseFrame DEF CloseSocket
<1>12. ASSUME NEW n \in NetThread, NEW u \in Uid, NetHup(n, u) PROVE CloseOrder'
  <2>1. Known(n, u)
    BY <1>12, BatchKnown DEF NetHup
  <2>2. DelConnection(n, uidConn[n][u]) /\ UNCHANGED connVars
    BY <1>12 DEF NetHup
  <2> QED BY <1>0, <2>1, <2>2, DelOrder
<1>13. ASSUME NEW n \in NetThread, NEW u \in Uid, NetRecv(n, u) PROVE CloseOrder'
  <2>1. PICK c : c = uidConn[n][u]
    OBVIOUS
  <2>2. PICK recv :
          recv = [uid |-> u, fd |-> fdOf[c], isClosed |-> FALSE, req |-> <<c, taken[c] + 1>>]
    OBVIOUS
  <2>3. Known(n, u) /\ Open(c)
    BY <1>13, <2>1, BatchKnown DEF NetRecv, Unread
  <2>4. c \in Conn /\ uidOf[c] = u /\ u \in Uid /\ c # None
    BY <2>1, <2>3, KnownConn
  <2>5. netPc[n] = "run" /\ rbuffer' = Append(rbuffer, recv)
    BY <1>13, <2>1, <2>2 DEF NetRecv, NextEvent, InsertRecvQueue
  <2>6. recv \in RecvData /\ ~recv.isClosed /\ recv.req[1] = c
    <3>1. taken[c] + 1 \in 0 .. MaxReq
      BY <1>13, <2>1, <2>4 DEF NetRecv, Unread, TypeOK
    <3>2. fdOf[c] \in Fd \cup {NoFd}
      BY <2>4 DEF TypeOK
    <3> QED BY <2>2, <2>4, <3>1, <3>2 DEF RecvData
  <2>7. ASSUME Closing(c) PROVE FALSE
    <3>1. PICK m \in NetThread : netPc[m] \in {"del", "close"} /\ cur[m][1] = c
      BY <2>3, <2>7 DEF Closing
    <3>2. uidConn[m][u] = c
      BY <2>4, <3>1 DEF InHand, Deleting, OwnConn
    <3>3. m = n
      BY <2>1, <2>4, <3>2 DEF Tables
    <3> QED BY <2>5, <3>1, <3>3
  <2> QED BY <1>0, <2>5, <2>6, <2>7, AppendOrder
<1>14. ASSUME NEW n \in NetThread, NEW u \in Uid, NetIdle(n, u) PROVE CloseOrder'
  BY <1>0, <1>14, CloseFrame DEF NetIdle
<1>15. ASSUME NEW n \in NetThread, NEW u \in Uid, NetEof(n, u) PROVE CloseOrder'
  <2>1. Known(n, u)
    BY <1>15, BatchKnown DEF NetEof
  <2>2. DelConnection(n, uidConn[n][u]) /\ UNCHANGED connVars
    BY <1>15 DEF NetEof
  <2> QED BY <1>0, <2>1, <2>2, DelOrder
<1>16. ASSUME NEW n \in NetThread, ProcessPipe(n) PROVE CloseOrder'
  BY <1>0, <1>16, CloseFrame DEF ProcessPipe
<1>17. ASSUME NEW n \in NetThread, PipeClose(n) PROVE CloseOrder'
  <2>1. PICK u : u = Head(pipe[n]).uid
    OBVIOUS
  <2>2. Known(n, u)
    BY <1>17, <2>1, PipeKnown DEF PipeClose
  <2>3. DelConnection(n, uidConn[n][u]) /\ UNCHANGED connVars
    BY <1>17, <2>1 DEF PipeClose
  <2> QED BY <1>0, <2>2, <2>3, DelOrder
<1>18. ASSUME NEW n \in NetThread, PipeSend(n) PROVE CloseOrder'
  BY <1>0, <1>18, CloseFrame DEF PipeSend
<1>19. ASSUME NEW n \in NetThread, TornLookup(n) PROVE CloseOrder'
  BY <1>0, <1>19, CloseFrame DEF TornLookup
<1>20. ASSUME NEW h \in Handle, HandleLoop(h) PROVE CloseOrder'
  BY <1>0, <1>20, CloseFrame DEF HandleLoop
<1>21. ASSUME NEW h \in Handle, HandleTimeout(h) PROVE CloseOrder'
  BY <1>0, <1>21, CloseFrame DEF HandleTimeout
<1>22. ASSUME NEW h \in Handle, HandlePop(h) PROVE CloseOrder'
  <2>1. rbuffer # << >> /\ rbuffer' = Tail(rbuffer)
    BY <1>22 DEF HandlePop
  <2>2. /\ Len(rbuffer') = Len(rbuffer) - 1 /\ Len(rbuffer) \in Nat \ {0}
        /\ \A i \in 1 .. Len(rbuffer') : rbuffer'[i] = rbuffer[i + 1]
    BY <2>1, HeadTailProperties, LenProperties, EmptySeq DEF TypeOK
  <2>3. \A i \in 1 .. Len(rbuffer') : i + 1 \in 1 .. Len(rbuffer)
    BY <2>2
  <2>4. CloseEventLast'
    <3> SUFFICES ASSUME NEW i \in 1 .. Len(rbuffer'), NEW j \in 1 .. Len(rbuffer'), i < j,
                        rbuffer'[i].isClosed, rbuffer'[i].req[1] = rbuffer'[j].req[1]
                 PROVE  rbuffer'[j].isClosed
      BY DEF CloseEventLast
    <3>1. i + 1 < j + 1 /\ rbuffer'[i] = rbuffer[i + 1] /\ rbuffer'[j] = rbuffer[j + 1]
      BY <2>2
    <3> QED BY <2>3, <3>1 DEF CloseOrder, CloseEventLast
  <2>5. ASSUME NEW i \in 1 .. Len(rbuffer'), rbuffer'[i].isClosed
        PROVE  Closing(rbuffer[i].req[1])'
    <3>1. PICK c : c = rbuffer[i + 1].req[1] /\ Closing(c)
      BY <2>2, <2>3, <2>5 DEF CloseOrder
    <3>2. Closing(c)'
      BY <1>0, <3>1 DEF ClosingKept
    <3> QED BY <2>2, <3>1, <3>2 DEF Closing, Open
  <2> QED BY <2>4, <2>5 DEF CloseOrder
<1>23. ASSUME NEW h \in Handle, HandleDrained(h) PROVE CloseOrder'
  BY <1>0, <1>23, CloseFrame DEF HandleDrained
<1>24. ASSUME NEW h \in Handle, NEW recv \in work[h], HandleRequest(h, recv)
      PROVE  CloseOrder'
  BY <1>0, <1>24, CloseFrame DEF HandleRequest
<1>25. ASSUME NEW h \in Handle, NEW recv \in work[h], HandleThrow(h, recv)
      PROVE  CloseOrder'
  BY <1>0, <1>25, CloseFrame DEF HandleThrow
<1>26. CASE Terminate
  BY <1>0, <1>26, CloseFrame DEF Terminate
<1>27. CASE MainStopNet
  BY <1>0, <1>27, CloseFrame DEF MainStopNet
<1>28. CASE MainNotifyHandles
  BY <1>0, <1>28, CloseFrame DEF MainNotifyHandles
<1>29. CASE MainJoinHandles
  BY <1>0, <1>29, CloseFrame DEF MainJoinHandles
<1>30. CASE UNCHANGED vars
  BY <1>30, <1>0, CloseFrame DEF vars
<1> QED
  BY <1>1, <1>2, <1>3, <1>4, <1>5, <1>6, <1>7, <1>8, <1>9, <1>10, <1>11,
     <1>12, <1>13, <1>14, <1>15, <1>16, <1>17, <1>18, <1>19, <1>20, <1>21,
     <1>22, <1>23, <1>24, <1>25, <1>26, <1>27, <1>28, <1>29, <1>30
     DEF Next, Client, AcceptStep, NetStep, FinishDel, HandleStep, Main

-----------------------------------------------------------------------------
(* What is in a queue after an append.                                     *)
LEMMA AskedAppend ==
  ASSUME NEW S, NEW s \in Seq(S), NEW x \in S
  PROVE  /\ x.req \in Request => Asked(Append(s, x)) = Asked(s) \cup {x.req}
         /\ x.req \notin Request => Asked(Append(s, x)) = Asked(s)
         /\ Once(s) /\ x.req \notin Asked(s) => Once(Append(s, x))
<1> DEFINE t == Append(s, x)
<1>1. /\ Len(t) = Len(s) + 1 /\ Len(s) \in Nat
      /\ \A i \in 1 .. Len(s) : t[i] = s[i]
      /\ t[Len(s) + 1] = x
  BY AppendProperties, LenProperties
<1> HIDE DEF t
<1>2. \A i \in 1 .. Len(t) : i \in 1 .. Len(s) \/ i = Len(s) + 1
  BY <1>1
<1>3. \A i \in 1 .. Len(s) : i \in 1 .. Len(t)
  BY <1>1
<1>4. Len(s) + 1 \in 1 .. Len(t)
  BY <1>1
<1>5. \A q : q \in Asked(t) <=> q \in Request /\ (q \in Asked(s) \/ q = x.req)
  <2>1. ASSUME NEW q \in Asked(t) PROVE q \in Request /\ (q \in Asked(s) \/ q = x.req)
    <3>1. PICK i \in 1 .. Len(t) : q = t[i].req
      BY <2>1 DEF Asked
    <3> QED BY <1>1, <1>2, <2>1, <3>1 DEF Asked
  <2>2. ASSUME NEW q \in Asked(s) PROVE q \in Asked(t)
    <3>1. PICK i \in 1 .. Len(s) : q = s[i].req
      BY <2>2 DEF Asked
    <3>2. t[i].req = q /\ i \in 1 .. Len(t)
      BY <1>1, <1>3, <3>1
    <3> QED BY <2>2, <3>2 DEF Asked
  <2>3. x.req \in Request => x.req \in Asked(t)
    BY <1>1, <1>4 DEF Asked
  <2> QED BY <2>1, <2>2, <2>3
<1>6. Asked(s) \subseteq Request /\ Asked(t) \subseteq Request
  BY DEF Asked
<1>7. Once(s) /\ x.req \notin Asked(s) => Once(t)
  <2> SUFFICES ASSUME Once(s), x.req \notin Asked(s),
                      NEW i \in 1 .. Len(t), NEW j \in 1 .. Len(t),
                      t[i].req \in Request, t[i].req = t[j].req
               PROVE  i = j
    BY DEF Once
  <2>1. ASSUME NEW k \in 1 .. Len(s), s[k].req = x.req, x.req \in Request PROVE FALSE
    BY <2>1 DEF Asked
  <2>2. CASE i \in 1 .. Len(s) /\ j \in 1 .. Len(s)
    BY <1>1, <2>2 DEF Once
  <2>3. CASE i \in 1 .. Len(s) /\ j = Len(s) + 1
    BY <1>1, <2>1, <2>3
  <2>4. CASE i = Len(s) + 1 /\ j \in 1 .. Len(s)
    BY <1>1, <2>1, <2>4
  <2> QED BY <1>2, <2>2, <2>3, <2>4
<1>8. x.req \in Request => Asked(t) = Asked(s) \cup {x.req}
  BY <1>5, <1>6
<1>9. x.req \notin Request => Asked(t) = Asked(s)
  BY <1>5, <1>6
<1> QED BY <1>7, <1>8, <1>9 DEF t

(* And after its first element is taken.                                   *)
LEMMA AskedTail ==
  ASSUME NEW S, NEW s \in Seq(S), s # << >>
  PROVE  /\ Asked(Tail(s)) \subseteq Asked(s)
         /\ Head(s).req \in Request => Head(s).req \in Asked(s)
         /\ Once(s) => Once(Tail(s)) /\ Head(s).req \notin Asked(Tail(s))
<1> DEFINE t == Tail(s)
<1>1. /\ Len(t) = Len(s) - 1 /\ Len(s) \in Nat \ {0}
      /\ \A i \in 1 .. Len(t) : t[i] = s[i + 1]
      /\ Head(s) = s[1]
  BY HeadTailProperties, LenProperties, EmptySeq
<1> HIDE DEF t
<1>2. \A i \in 1 .. Len(t) : i + 1 \in 1 .. Len(s) /\ i + 1 # 1
  BY <1>1
<1>3. 1 \in 1 .. Len(s)
  BY <1>1
<1>4. Asked(t) \subseteq Asked(s)
  <2> SUFFICES ASSUME NEW q \in Asked(t) PROVE q \in Asked(s)
    OBVIOUS
  <2>1. PICK i \in 1 .. Len(t) : q = t[i].req
    BY DEF Asked
  <2>2. q = s[i + 1].req /\ i + 1 \in 1 .. Len(s) /\ q \in Request
    BY <1>1, <1>2, <2>1 DEF Asked
  <2> QED BY <2>2 DEF Asked
<1>5. Head(s).req \in Request => Head(s).req \in Asked(s)
  BY <1>1, <1>3 DEF Asked
<1>6. ASSUME Once(s) PROVE Once(t)
  <2> SUFFICES ASSUME NEW i \in 1 .. Len(t), NEW j \in 1 .. Len(t),
                      t[i].req \in Request, t[i].req = t[j].req
               PROVE  i = j
    BY DEF Once
  <2>1. i + 1 = j + 1
    BY <1>1, <1>2, <1>6 DEF Once
  <2> QED BY <2>1
<1>7. ASSUME Once(s), Head(s).req \in Asked(t) PROVE FALSE
  <2>1. PICK i \in 1 .. Len(t) : Head(s).req = t[i].req
    BY <1>7 DEF Asked
  <2>2. s[1].req \in Request /\ s[1].req = s[i + 1].req
    BY <1>1, <1>7, <2>1 DEF Asked
  <2>3. 1 = i + 1
    BY <1>2, <1>3, <1>7, <2>2 DEF Once
  <2> QED BY <1>2, <2>3
<1> QED BY <1>4, <1>5, <1>6, <1>7 DEF t

(* All that is in the queues are requests.                                 *)
LEMMA AllRequests ==
  ASSUME TypeOK, RequestsKnown
  PROVE  /\ InQueue \subseteq Request
         /\ \A h \in Handle : InWork(h) \subseteq Request
         /\ \A n \in NetThread : InSend(n) \subseteq Request /\ InPipe(n) \subseteq Request
         /\ \A c \in Conn : Arrived(c) \subseteq Request
<1>1. \A h \in Handle : \A r \in work[h] : r.req \in Request
  BY DEF RequestsKnown, FromConnection
<1>2. \A c \in Conn : delivered[c] \in Seq(Request)
  BY DEF TypeOK
<1>3. \A c \in Conn : Arrived(c) \subseteq Request
  BY <1>2, ToSetType DEF Arrived
<1> QED BY <1>1, <1>3 DEF InQueue, InWork, InSend, InPipe, Asked

(* A step that moves no request keeps each in its place.                   *)
LEMMA PlacesFrame ==
  ASSUME OncePerQueue, OnePlace, OwnResponses,
         UNCHANGED <<rbuffer, work, sbuffer, pipe, delivered>>
  PROVE  OncePerQueue' /\ OnePlace' /\ OwnResponses'
<1>1. OncePerQueue'
  BY Zenon DEF OncePerQueue, Once
<1>2. /\ InQueue' = InQueue
      /\ \A h \in Handle : InWork(h)' = InWork(h)
      /\ \A n \in NetThread : InSend(n)' = InSend(n) /\ InPipe(n)' = InPipe(n)
      /\ \A c \in Conn : Arrived(c)' = Arrived(c)
  BY DEF InQueue, InWork, InSend, InPipe, Arrived, Asked
<1>3. OnePlace' /\ OwnResponses'
  BY <1>2 DEF OnePlace, OwnResponses
<1> QED BY <1>1, <1>3

(* Nor does one that reads more make anything unread.                      *)
LEMMA ReadFrame ==
  ASSUME TypeOK, RequestsKnown, ReadBefore,
         UNCHANGED <<rbuffer, work, sbuffer, pipe, delivered>>,
         \A c \in Conn : /\ taken'[c] \in Nat /\ taken[c] <= taken'[c]
                         /\ taken'[c] <= written'[c]
  PROVE  ReadBefore'
<1>1. \A q \in Request : Read(q) => Read(q)'
  <2> SUFFICES ASSUME NEW q \in Request, Read(q) PROVE Read(q)'
    OBVIOUS
  <2>1. q[1] \in Conn /\ q[2] \in Nat /\ taken[q[1]] \in Nat
    BY DEF Request, TypeOK
  <2> QED BY <2>1 DEF Read
<1>2. /\ InQueue' = InQueue
      /\ \A h \in Handle : InWork(h)' = InWork(h)
      /\ \A n \in NetThread : InSend(n)' = InSend(n) /\ InPipe(n)' = InPipe(n)
      /\ \A c \in Conn : Arrived(c)' = Arrived(c)
  BY DEF InQueue, InWork, InSend, InPipe, Arrived, Asked
<1>3. /\ \A q \in InQueue : q \in Request
      /\ \A h \in Handle : \A q \in InWork(h) : q \in Request
      /\ \A n \in NetThread : \A q \in InSend(n) \cup InPipe(n) : q \in Request
      /\ \A c \in Conn : \A q \in Arrived(c) : q \in Request
  BY AllRequests
<1> QED BY <1>1, <1>2, <1>3 DEF ReadBefore

(* So a step that moves and reads nothing keeps each request in one place. *)
LEMMA OnceFrame ==
  ASSUME TypeOK, RequestsKnown, RequestOnce,
         UNCHANGED <<rbuffer, work, sbuffer, pipe, delivered, taken, written>>
  PROVE  RequestOnce'
<1>1. \A c \in Conn : /\ taken'[c] \in Nat /\ taken[c] <= taken'[c]
                      /\ taken'[c] <= written'[c]
  BY DEF TypeOK, RequestOnce, ReadBefore
<1> QED BY <1>1, PlacesFrame, ReadFrame DEF RequestOnce

(* Requests that leave a place for none leave the others where they are.   *)
LEMMA PlacesShrink ==
  ASSUME TypeOK, RequestsKnown, OnePlace, ReadBefore, OwnResponses,
         InQueue' \subseteq InQueue,
         \A h \in Handle : InWork(h)' \subseteq InWork(h),
         \A n \in NetThread : InSend(n)' \subseteq InSend(n) /\ InPipe(n)' \subseteq InPipe(n),
         \A c \in Conn : Arrived(c)' \subseteq Arrived(c),
         \A c \in Conn : /\ taken'[c] \in Nat /\ taken[c] <= taken'[c]
                         /\ taken'[c] <= written'[c]
  PROVE  OnePlace' /\ ReadBefore' /\ OwnResponses'
<1>1. \A q \in Request : Read(q) => Read(q)'
  <2> SUFFICES ASSUME NEW q \in Request, Read(q) PROVE Read(q)'
    OBVIOUS
  <2>1. q[1] \in Conn /\ q[2] \in Nat /\ taken[q[1]] \in Nat
    BY DEF Request, TypeOK
  <2> QED BY <2>1 DEF Read
<1>2. /\ \A q \in InQueue : q \in Request
      /\ \A h \in Handle : \A q \in InWork(h) : q \in Request
      /\ \A n \in NetThread : \A q \in InSend(n) \cup InPipe(n) : q \in Request
      /\ \A c \in Conn : \A q \in Arrived(c) : q \in Request
  BY AllRequests
<1>3. ReadBefore'
  BY <1>1, <1>2 DEF ReadBefore
<1>4. OnePlace'
  BY DEF OnePlace
<1>5. OwnResponses'
  BY DEF OwnResponses
<1> QED BY <1>3, <1>4, <1>5

(* A close event adds no request to the queue.                             *)
LEMMA CloseAppended ==
  ASSUME TypeOK, Tables, Once(rbuffer), NEW n \in NetThread, NEW u, Known(n, u),
         DelConnection(n, uidConn[n][u])
  PROVE  InQueue' = InQueue /\ Once(rbuffer)'
<1>1. PICK c \in Conn : c = uidConn[n][u] /\ uidOf[c] \in Uid
  BY KnownConn
<1>2. PICK recv : recv = [uid |-> uidOf[c], fd |-> fdOf[c], isClosed |-> TRUE, req |-> <<c, 0>>]
  OBVIOUS
<1>3. DelConnection(n, c)
  BY <1>1
<1>4. rbuffer' = Append(rbuffer, recv)
  BY <1>1, <1>2, <1>3, DelType
<1>5. recv \in RecvData /\ recv.req = <<c, 0>>
  BY <1>1, <1>2 DEF TypeOK, RecvData
<1>6. recv.req \notin Request /\ recv.req \notin Asked(rbuffer)
  BY <1>5 DEF Request, Asked
<1>7. rbuffer \in Seq(RecvData)
  BY DEF TypeOK
<1>8. Asked(rbuffer') = Asked(rbuffer) /\ Once(rbuffer')
  BY <1>4, <1>5, <1>6, <1>7, AskedAppend
<1> QED BY <1>8 DEF InQueue, Asked, Once

(* Reading more of a connection, or nothing, keeps the count in order.     *)
LEMMA TakenGrows ==
  ASSUME TypeOK, ReadBefore, UNCHANGED written,
         taken' = taken \/ \E c \in Conn : taken' = [taken EXCEPT ![c] = written[c]]
  PROVE  \A c \in Conn : /\ taken'[c] \in Nat /\ taken[c] <= taken'[c]
                         /\ taken'[c] <= written'[c]
<1>1. \A c \in Conn : taken[c] \in Nat /\ written[c] \in Nat /\ taken[c] <= written[c]
  BY DEF TypeOK, ReadBefore
<1>2. CASE taken' = taken
  BY <1>1, <1>2
<1>3. ASSUME NEW c \in Conn, taken' = [taken EXCEPT ![c] = written[c]]
      PROVE  \A d \in Conn : taken'[d] = taken[d] \/ taken'[d] = written[d]
  BY <1>3 DEF TypeOK
<1> QED BY <1>1, <1>2, <1>3

(* delConnection and the reset of the read position move no request.       *)
LEMMA DelOnce ==
  ASSUME TypeOK, Tables, RequestsKnown, RequestOnce, NEW n \in NetThread, NEW u,
         Known(n, u), DelConnection(n, uidConn[n][u]),
         UNCHANGED <<work, sbuffer, delivered, written>>,
         taken' = taken \/ \E c \in Conn : taken' = [taken EXCEPT ![c] = written[c]],
         \A m \in NetThread : InPipe(m)' \subseteq InPipe(m) /\ Once(pipe[m])'
  PROVE  RequestOnce'
<1>1. InQueue' = InQueue /\ Once(rbuffer)'
  BY CloseAppended DEF RequestOnce, OncePerQueue
<1>2. /\ \A h \in Handle : InWork(h)' = InWork(h)
      /\ \A m \in NetThread : InSend(m)' = InSend(m)
      /\ \A c \in Conn : Arrived(c)' = Arrived(c)
  BY DEF InWork, InSend, Arrived, Asked
<1>3. OnePlace' /\ ReadBefore' /\ OwnResponses'
  BY <1>1, <1>2, TakenGrows, PlacesShrink DEF RequestOnce
<1>4. OncePerQueue'
  <2>1. \A m \in NetThread : Once(sbuffer[m])'
    BY DEF RequestOnce, OncePerQueue, Once
  <2>2. \A h \in Handle : \A r, s \in work'[h] : r.req = s.req => r = s
    BY DEF RequestOnce, OncePerQueue
  <2>3. \A c \in Conn : IsInjective(delivered'[c])
    BY DEF RequestOnce, OncePerQueue
  <2> QED BY <1>1, <2>1, <2>2, <2>3 DEF OncePerQueue
<1> QED BY <1>3, <1>4 DEF RequestOnce

(* processPipe takes the first request of its list.                        *)
LEMMA PipeTaken ==
  ASSUME TypeOK, RequestOnce, NEW n \in NetThread, pipe[n] # << >>,
         pipe' = [pipe EXCEPT ![n] = Tail(@)]
  PROVE  /\ \A m \in NetThread : InPipe(m)' \subseteq InPipe(m) /\ Once(pipe[m])'
         /\ \A m \in NetThread : Head(pipe[n]).req \notin InPipe(m)'
         /\ Head(pipe[n]).req \in InPipe(n)
<1>1. pipe[n] \in Seq(SendData) /\ Head(pipe[n]) \in SendData
  BY TailFacts DEF TypeOK
<1>2. Head(pipe[n]).req \in Request
  BY <1>1 DEF SendData
<1>3. /\ pipe'[n] = Tail(pipe[n])
      /\ \A m \in NetThread : m # n => pipe'[m] = pipe[m]
  BY DEF TypeOK
<1>4. \A m \in NetThread : Once(pipe[m])
  BY DEF RequestOnce, OncePerQueue
<1>5. /\ Asked(pipe'[n]) \subseteq Asked(pipe[n]) /\ Once(pipe'[n])
      /\ Head(pipe[n]).req \in Asked(pipe[n]) /\ Head(pipe[n]).req \notin Asked(pipe'[n])
  BY <1>1, <1>2, <1>3, <1>4, AskedTail
<1>6. \A m \in NetThread : InPipe(m)' = Asked(pipe'[m]) /\ (Once(pipe[m])' <=> Once(pipe'[m]))
  BY DEF InPipe, Asked, Once
<1>7. \A m \in NetThread : InPipe(m)' \subseteq InPipe(m) /\ Once(pipe[m])'
  BY <1>3, <1>4, <1>5, <1>6 DEF InPipe
<1>8. \A m \in NetThread : m # n => Head(pipe[n]).req \notin InPipe(m)
  BY <1>5 DEF RequestOnce, OnePlace, InPipe
<1>9. Head(pipe[n]).req \notin InPipe(n)'
  BY <1>5, <1>6
<1> QED BY <1>5, <1>7, <1>8, <1>9 DEF InPipe

(* A handle that is done with a request gives it up, and what it sends     *)
(* goes to one send queue.                                                 *)
LEMMA DoneOnce ==
  ASSUME TypeOK, RequestsKnown, RequestOnce, NEW h \in Handle, NEW recv \in work[h],
         work' = [work EXCEPT ![h] = @ \ {recv}], NEW send \in SendData,
         send.req = recv.req, NEW n \in NetThread,
         sbuffer' = sbuffer \/ sbuffer' = [sbuffer EXCEPT ![n] = Append(@, send)],
         UNCHANGED <<rbuffer, pipe, delivered, taken, written>>
  PROVE  RequestOnce'
<1>1. PICK q : q = recv.req
  OBVIOUS
<1>2. q \in Request /\ q \in InWork(h)
  BY <1>1 DEF RequestsKnown, FromConnection, InWork
<1>3. /\ work'[h] = work[h] \ {recv} /\ \A g \in Handle : g # h => work'[g] = work[g]
  BY DEF TypeOK
<1>4. /\ \A g \in Handle : InWork(g)' \subseteq InWork(g)
      /\ \A g \in Handle : q \notin InWork(g)'
  <2>1. \A g \in Handle : InWork(g)' \subseteq InWork(g)
    BY <1>3 DEF InWork
  <2>2. q \notin InWork(h)'
    BY <1>1, <1>3 DEF InWork, RequestOnce, OncePerQueue
  <2>3. \A g \in Handle : g # h => q \notin InWork(g)
    BY <1>2 DEF RequestOnce, OnePlace
  <2> QED BY <2>1, <2>2, <2>3
<1>5. /\ InQueue' = InQueue
      /\ \A m \in NetThread : InPipe(m)' = InPipe(m)
      /\ \A c \in Conn : Arrived(c)' = Arrived(c)
  BY DEF InQueue, InPipe, Arrived, Asked
<1>6. /\ q \notin InQueue
      /\ \A m \in NetThread : q \notin InSend(m) /\ q \notin InPipe(m)
      /\ \A c \in Conn : q \notin Arrived(c)
  BY <1>2 DEF RequestOnce, OnePlace
<1>7. /\ \A m \in NetThread : Once(sbuffer[m])'
      /\ \A m \in NetThread : m # n => InSend(m)' = InSend(m)
      /\ InSend(n)' \subseteq InSend(n) \cup {q}
  <2>1. CASE sbuffer' = sbuffer
    BY <2>1 DEF InSend, Asked, Once, RequestOnce, OncePerQueue
  <2>2. CASE sbuffer' = [sbuffer EXCEPT ![n] = Append(@, send)]
    <3>1. sbuffer[n] \in Seq(SendData) /\ sbuffer'[n] = Append(sbuffer[n], send)
          /\ \A m \in NetThread : m # n => sbuffer'[m] = sbuffer[m]
      BY <2>2 DEF TypeOK
    <3>2. Once(sbuffer[n]) /\ q \notin Asked(sbuffer[n])
      BY <1>6 DEF RequestOnce, OncePerQueue, InSend
    <3>3. Asked(sbuffer'[n]) = Asked(sbuffer[n]) \cup {q} /\ Once(sbuffer'[n])
      BY <1>1, <1>2, <3>1, <3>2, AskedAppend
    <3>4. \A m \in NetThread : /\ InSend(m)' = Asked(sbuffer'[m])
                               /\ Once(sbuffer[m])' <=> Once(sbuffer'[m])
      BY DEF InSend, Asked, Once
    <3>5. \A m \in NetThread : m # n => Once(sbuffer'[m]) /\ Asked(sbuffer'[m]) = InSend(m)
      BY <3>1 DEF RequestOnce, OncePerQueue, InSend
    <3> QED BY <3>3, <3>4, <3>5 DEF InSend
  <2> QED BY <2>1, <2>2
<1>8. OncePerQueue'
  <2>1. Once(rbuffer)' /\ \A m \in NetThread : Once(pipe[m])'
    BY DEF RequestOnce, OncePerQueue, Once
  <2>2. \A g \in Handle : \A r, s \in work'[g] : r.req = s.req => r = s
    BY <1>3 DEF RequestOnce, OncePerQueue
  <2>3. \A c \in Conn : IsInjective(delivered'[c])
    BY DEF RequestOnce, OncePerQueue
  <2> QED BY <1>7, <2>1, <2>2, <2>3 DEF OncePerQueue
<1>9. OnePlace'
  BY <1>4, <1>5, <1>6, <1>7 DEF OnePlace, RequestOnce
<1>10. ReadBefore'
  <2>1. \A r : Read(r)' <=> Read(r)
    BY DEF Read
  <2>2. Read(q) /\ \A c \in Conn : taken'[c] <= written'[c]
    BY <1>2 DEF RequestOnce, ReadBefore
  <2>3. \A m \in NetThread : \A r \in InSend(m)' : r \in InSend(m) \/ r = q
    BY <1>7
  <2> QED BY <1>4, <1>5, <2>1, <2>2, <2>3 DEF ReadBefore, RequestOnce
<1>11. OwnResponses'
  BY <1>5 DEF OwnResponses, RequestOnce
<1> QED BY <1>8, <1>9, <1>10, <1>11 DEF RequestOnce

(* Every step keeps each request in one place.                             *)
LEMMA OnceStep ==
  TypeOK /\ Tables /\ KnownUids /\ RequestsKnown /\ RequestOnce /\ [Next]_vars => RequestOnce'
<1> SUFFICES ASSUME TypeOK, Tables, KnownUids, RequestsKnown, RequestOnce, [Next]_vars
             PROVE  RequestOnce'
  OBVIOUS
<1> USE DEF clientVars, connVars, netVars, handleVars, stopVars, serverVars,
            netSide, workVars
<1>1. ASSUME NEW c \in Conn, Connect(c) PROVE RequestOnce'
  BY <1>1, OnceFrame DEF Connect
<1>2. ASSUME NEW c \in Conn, Write(c) PROVE RequestOnce'
  <2>1. /\ written' = [written EXCEPT ![c] = @ + 1]
        /\ UNCHANGED <<rbuffer, work, sbuffer, pipe, delivered, taken>>
    BY <1>2 DEF Write
  <2>2. \A d \in Conn : /\ taken[d] \in Nat /\ taken[d] <= written[d] /\ written[d] \in Nat
                        /\ (written'[d] = written[d] \/ written'[d] = written[d] + 1)
    BY <2>1 DEF TypeOK, RequestOnce, ReadBefore
  <2>3. \A d \in Conn : /\ taken'[d] \in Nat /\ taken[d] <= taken'[d]
                        /\ taken'[d] <= written'[d]
    BY <2>1, <2>2
  <2> QED BY <2>1, <2>3, PlacesFrame, ReadFrame DEF RequestOnce
<1>3. ASSUME NEW c \in Conn, ClientClose(c) PROVE RequestOnce'
  BY <1>3, OnceFrame DEF ClientClose
<1>4. CASE AcceptLoop
  BY <1>4, OnceFrame DEF AcceptLoop
<1>5. ASSUME NEW c \in Conn, NEW fd \in Fd, Accept(c, fd) PROVE RequestOnce'
  BY <1>5, OnceFrame DEF Accept
<1>6. CASE AddTcpConnection
  BY <1>6, OnceFrame DEF AddTcpConnection
<1>7. CASE EpollAdd
  BY <1>7, OnceFrame DEF EpollAdd
<1>8. ASSUME NEW n \in NetThread, NetWait(n) PROVE RequestOnce'
  BY <1>8, OnceFrame DEF NetWait
<1>9. ASSUME NEW n \in NetThread, NetLoop(n) PROVE RequestOnce'
  BY <1>9, OnceFrame DEF NetLoop
<1>10. ASSUME NEW n \in NetThread, EpollDel(n) PROVE RequestOnce'
  BY <1>10, OnceFrame DEF EpollDel
<1>11. ASSUME NEW n \in NetThread, CloseSocket(n) PROVE RequestOnce'
  BY <1>11, OnceFrame DEF CloseSocket
<1>12. ASSUME NEW n \in NetThread, NEW u \in Uid, NetHup(n, u) PROVE RequestOnce'
  <2>1. Known(n, u)
    BY <1>12, BatchKnown DEF NetHup
  <2>2. uidConn[n][u] \in Conn
    BY <2>1, KnownConn
  <2>3. /\ DelConnection(n, uidConn[n][u]) /\ UNCHANGED <<work, sbuffer, pipe, delivered, written>>
        /\ taken' = taken \/ \E c \in Conn : taken' = [taken EXCEPT ![c] = written[c]]
    BY <1>12, <2>2 DEF NetHup
  <2>4. \A m \in NetThread : InPipe(m)' \subseteq InPipe(m) /\ Once(pipe[m])'
    BY <2>3 DEF InPipe, Asked, Once, RequestOnce, OncePerQueue
  <2> QED BY <2>1, <2>3, <2>4, DelOnce
<1>13. ASSUME NEW n \in NetThread, NEW u \in Uid, NetRecv(n, u)
      PROVE  RequestOnce'
  <2>1. PICK c : c = uidConn[n][u]
    OBVIOUS
  <2>2. PICK q : q = <<c, taken[c] + 1>>
    OBVIOUS
  <2>3. PICK recv : recv = [uid |-> u, fd |-> fdOf[c], isClosed |-> FALSE, req |-> q]
    OBVIOUS
  <2>4. c \in Conn
    BY <1>13, <2>1, BatchKnown, KnownConn DEF NetRecv
  <2>5. /\ rbuffer' = Append(rbuffer, recv) /\ taken' = [taken EXCEPT ![c] = written[c]]
        /\ taken[c] < written[c] /\ UNCHANGED <<work, sbuffer, pipe, delivered, written>>
    BY <1>13, <2>1, <2>2, <2>3 DEF NetRecv, Unread, InsertRecvQueue
  <2>6. taken[c] \in Nat /\ written[c] \in 0 .. MaxReq /\ taken[c] + 1 \in 1 .. MaxReq
    BY <2>4, <2>5 DEF TypeOK
  <2>7. q \in Request /\ q[1] = c /\ q[2] = taken[c] + 1
    BY <2>2, <2>4, <2>6 DEF Request
  <2>8. recv \in RecvData /\ recv.req = q
    <3>1. fdOf[c] \in Fd \cup {NoFd} /\ q \in Conn \X (0 .. MaxReq)
      BY <2>4, <2>7 DEF TypeOK, Request
    <3> QED BY <1>13, <2>3, <3>1 DEF RecvData
  <2>9. ~Read(q) /\ Read(q)'
    BY <2>4, <2>5, <2>6, <2>7 DEF Read, TypeOK
  <2>10. /\ q \notin InQueue /\ \A h \in Handle : q \notin InWork(h)
         /\ \A m \in NetThread : q \notin InSend(m) /\ q \notin InPipe(m)
         /\ \A d \in Conn : q \notin Arrived(d)
    BY <2>9 DEF RequestOnce, ReadBefore
  <2>11. rbuffer \in Seq(RecvData) /\ Once(rbuffer)
    BY DEF TypeOK, RequestOnce, OncePerQueue
  <2>12. Asked(rbuffer') = Asked(rbuffer) \cup {q} /\ Once(rbuffer')
    BY <2>5, <2>7, <2>8, <2>10, <2>11, AskedAppend DEF InQueue
  <2>13. InQueue' = InQueue \cup {q} /\ Once(rbuffer)'
    BY <2>12 DEF InQueue, Asked, Once
  <2>14. /\ \A h \in Handle : InWork(h)' = InWork(h)
         /\ \A m \in NetThread : InSend(m)' = InSend(m) /\ InPipe(m)' = InPipe(m)
         /\ \A d \in Conn : Arrived(d)' = Arrived(d)
    BY <2>5 DEF InWork, InSend, InPipe, Arrived, Asked
  <2>15. OncePerQueue'
    <3>1. \A m \in NetThread : Once(sbuffer[m])' /\ Once(pipe[m])'
      BY <2>5 DEF RequestOnce, OncePerQueue, Once
    <3>2. \A h \in Handle : \A r, s \in work'[h] : r.req = s.req => r = s
      BY <2>5 DEF RequestOnce, OncePerQueue
    <3>3. \A d \in Conn : IsInjective(delivered'[d])
      BY <2>5 DEF RequestOnce, OncePerQueue
    <3> QED BY <2>13, <3>1, <3>2, <3>3 DEF OncePerQueue
  <2>16. OnePlace'
    BY <2>10, <2>13, <2>14 DEF OnePlace, RequestOnce
  <2>17. OwnResponses'
    BY <2>14 DEF OwnResponses, RequestOnce
  <2>18. \A d \in Conn : /\ taken'[d] \in Nat /\ taken[d] <= taken'[d]
                         /\ taken'[d] <= written'[d]
    BY <2>4, <2>5, TakenGrows DEF RequestOnce
  <2>19. \A r \in Request : Read(r) => Read(r)'
    <3> SUFFICES ASSUME NEW r \in Request, Read(r) PROVE Read(r)'
      OBVIOUS
    <3>1. r[1] \in Conn /\ r[2] \in Nat /\ taken[r[1]] \in Nat
      BY DEF Request, TypeOK
    <3> QED BY <2>18, <3>1 DEF Read
  <2>20. /\ \A r \in InQueue : r \in Request
         /\ \A h \in Handle : \A r \in InWork(h) : r \in Request
         /\ \A m \in NetThread : \A r \in InSend(m) \cup InPipe(m) : r \in Request
         /\ \A d \in Conn : \A r \in Arrived(d) : r \in Request
    BY AllRequests
  <2>21. ReadBefore'
    BY <2>9, <2>13, <2>14, <2>18, <2>19, <2>20 DEF ReadBefore, RequestOnce
  <2> QED BY <2>15, <2>16, <2>17, <2>21 DEF RequestOnce
<1>14. ASSUME NEW n \in NetThread, NEW u \in Uid, NetIdle(n, u)
      PROVE  RequestOnce'
  BY <1>14, OnceFrame DEF NetIdle
<1>15. ASSUME NEW n \in NetThread, NEW u \in Uid, NetEof(n, u) PROVE RequestOnce'
  <2>1. Known(n, u)
    BY <1>15, BatchKnown DEF NetEof
  <2>2. uidConn[n][u] \in Conn
    BY <2>1, KnownConn
  <2>3. /\ DelConnection(n, uidConn[n][u]) /\ UNCHANGED <<work, sbuffer, pipe, delivered, written>>
        /\ taken' = taken \/ \E c \in Conn : taken' = [taken EXCEPT ![c] = written[c]]
    BY <1>15, <2>2 DEF NetEof
  <2>4. \A m \in NetThread : InPipe(m)' \subseteq InPipe(m) /\ Once(pipe[m])'
    BY <2>3 DEF InPipe, Asked, Once, RequestOnce, OncePerQueue
  <2> QED BY <2>1, <2>3, <2>4, DelOnce
<1>16. ASSUME NEW n \in NetThread, ProcessPipe(n) PROVE RequestOnce'
  <2>1. /\ pipe[n] = << >> /\ pipe' = [pipe EXCEPT ![n] = sbuffer[n]]
        /\ sbuffer' = [sbuffer EXCEPT ![n] = << >>]
        /\ UNCHANGED <<rbuffer, work, delivered, taken, written>>
    BY <1>16 DEF ProcessPipe, NextEvent
  <2>2. /\ pipe'[n] = sbuffer[n] /\ sbuffer'[n] = << >>
        /\ \A m \in NetThread : m # n => pipe'[m] = pipe[m] /\ sbuffer'[m] = sbuffer[m]
    BY <2>1 DEF TypeOK
  <2>3. Asked(<< >>) = {} /\ Once(<< >>)
    BY EmptySeq DEF Asked, Once
  <2>4. \A m \in NetThread : /\ InSend(m)' = Asked(sbuffer'[m]) /\ InPipe(m)' = Asked(pipe'[m])
                             /\ Once(sbuffer[m])' <=> Once(sbuffer'[m])
                             /\ Once(pipe[m])' <=> Once(pipe'[m])
    BY DEF InSend, InPipe, Asked, Once
  <2>5. /\ InPipe(n)' = InSend(n) /\ InSend(n)' = {}
        /\ \A m \in NetThread : m # n => InPipe(m)' = InPipe(m) /\ InSend(m)' = InSend(m)
    BY <2>2, <2>3, <2>4 DEF InSend, InPipe
  <2>6. /\ InQueue' = InQueue /\ \A h \in Handle : InWork(h)' = InWork(h)
        /\ \A c \in Conn : Arrived(c)' = Arrived(c)
    BY <2>1 DEF InQueue, InWork, Arrived, Asked
  <2>7. OncePerQueue'
    <3>1. \A m \in NetThread : Once(sbuffer[m])' /\ Once(pipe[m])'
      BY <2>2, <2>3, <2>4 DEF RequestOnce, OncePerQueue
    <3>2. \A h \in Handle : \A r, s \in work'[h] : r.req = s.req => r = s
      BY <2>1 DEF RequestOnce, OncePerQueue
    <3>3. Once(rbuffer)' /\ \A c \in Conn : IsInjective(delivered'[c])
      BY <2>1 DEF RequestOnce, OncePerQueue, Once
    <3> QED BY <3>1, <3>2, <3>3 DEF OncePerQueue
  <2>8. OnePlace'
    BY <2>5, <2>6 DEF OnePlace, RequestOnce
  <2>9. ReadBefore'
    <3>1. (\A r : Read(r)' <=> Read(r)) /\ \A c \in Conn : taken'[c] <= written'[c]
      BY <2>1 DEF Read, RequestOnce, ReadBefore
    <3>2. \A m \in NetThread : \A r \in InSend(m)' \cup InPipe(m)' :
            r \in InSend(m) \cup InPipe(m)
      BY <2>5
    <3> QED BY <2>6, <3>1, <3>2 DEF ReadBefore, RequestOnce
  <2>10. OwnResponses'
    BY <2>6 DEF OwnResponses, RequestOnce
  <2> QED BY <2>7, <2>8, <2>9, <2>10 DEF RequestOnce
<1>17. ASSUME NEW n \in NetThread, PipeClose(n) PROVE RequestOnce'
  <2>1. PICK u : u = Head(pipe[n]).uid
    OBVIOUS
  <2>2. Known(n, u)
    BY <1>17, <2>1, PipeKnown DEF PipeClose
  <2>3. DelConnection(n, uidConn[n][u]) /\ UNCHANGED <<work, sbuffer, delivered, taken, written>>
    BY <1>17, <2>1 DEF PipeClose
  <2>4. \A m \in NetThread : InPipe(m)' \subseteq InPipe(m) /\ Once(pipe[m])'
    BY <1>17, PipeTaken DEF PipeClose
  <2> QED BY <2>2, <2>3, <2>4, DelOnce
<1>18. ASSUME NEW n \in NetThread, PipeSend(n) PROVE RequestOnce'
  <2>1. PICK q, u, c : q = Head(pipe[n]).req /\ u = Head(pipe[n]).uid /\ c = uidConn[n][u]
    OBVIOUS
  <2>2. /\ pipe[n] # << >> /\ pipe' = [pipe EXCEPT ![n] = Tail(@)]
        /\ UNCHANGED <<rbuffer, work, sbuffer, taken, written>>
        /\ delivered' = delivered \/ delivered' = [delivered EXCEPT ![c] = Append(@, q)]
    BY <1>18, <2>1 DEF PipeSend
  <2>3. c \in Conn /\ q \in Request /\ q[1] = c
    BY <2>1, <2>2, PipeKnown, KnownConn
  <2>4. /\ \A m \in NetThread : InPipe(m)' \subseteq InPipe(m) /\ Once(pipe[m])'
        /\ \A m \in NetThread : q \notin InPipe(m)'
        /\ q \in InPipe(n)
    BY <2>1, <2>2, PipeTaken
  <2>5. /\ InQueue' = InQueue /\ \A h \in Handle : InWork(h)' = InWork(h)
        /\ \A m \in NetThread : InSend(m)' = InSend(m)
    BY <2>2 DEF InQueue, InWork, InSend, Asked
  <2>6. /\ q \notin InQueue /\ \A h \in Handle : q \notin InWork(h)
        /\ \A m \in NetThread : q \notin InSend(m)
        /\ \A d \in Conn : q \notin Arrived(d)
    BY <2>4 DEF RequestOnce, OnePlace
  <2>7. /\ \A d \in Conn : d # c => Arrived(d)' = Arrived(d)
        /\ Arrived(c)' \subseteq Arrived(c) \cup {q}
        /\ \A d \in Conn : IsInjective(delivered'[d])
    <3>1. \A d \in Conn : IsInjective(delivered[d])
      BY DEF RequestOnce, OncePerQueue
    <3>2. CASE delivered' = delivered
      BY <3>1, <3>2 DEF Arrived
    <3>3. CASE delivered' = [delivered EXCEPT ![c] = Append(@, q)]
      <4>1. /\ delivered[c] \in Seq(Request) /\ delivered'[c] = Append(delivered[c], q)
            /\ \A d \in Conn : d # c => delivered'[d] = delivered[d]
        BY <2>3, <3>3 DEF TypeOK
      <4>2. ToSet(delivered'[c]) = ToSet(delivered[c]) \cup {q} /\ IsInjective(delivered'[c])
        BY <2>3, <2>6, <3>1, <4>1, AppendFacts DEF Arrived
      <4> QED BY <3>1, <4>1, <4>2 DEF Arrived
    <3> QED BY <2>2, <3>2, <3>3
  <2>8. OncePerQueue'
    <3>1. Once(rbuffer)' /\ \A m \in NetThread : Once(sbuffer[m])'
      BY <2>2 DEF RequestOnce, OncePerQueue, Once
    <3>2. \A h \in Handle : \A r, s \in work'[h] : r.req = s.req => r = s
      BY <2>2 DEF RequestOnce, OncePerQueue
    <3> QED BY <2>4, <2>7, <3>1, <3>2 DEF OncePerQueue
  <2>9. OnePlace'
    BY <2>4, <2>5, <2>6, <2>7 DEF OnePlace, RequestOnce
  <2>10. \A d \in Conn : \A r \in Arrived(d)' : r \in Arrived(d) \/ (d = c /\ r = q)
    BY <2>7
  <2>11. ReadBefore'
    <3>1. (\A r : Read(r)' <=> Read(r)) /\ \A d \in Conn : taken'[d] <= written'[d]
      BY <2>2 DEF Read, RequestOnce, ReadBefore
    <3>2. Read(q)
      BY <2>4 DEF RequestOnce, ReadBefore
    <3> QED BY <2>4, <2>5, <2>10, <3>1, <3>2 DEF ReadBefore, RequestOnce
  <2>12. OwnResponses'
    BY <2>3, <2>10 DEF OwnResponses, RequestOnce
  <2> QED BY <2>8, <2>9, <2>11, <2>12 DEF RequestOnce
<1>19. ASSUME NEW n \in NetThread, TornLookup(n) PROVE RequestOnce'
  BY <1>19, OnceFrame DEF TornLookup
<1>20. ASSUME NEW h \in Handle, HandleLoop(h) PROVE RequestOnce'
  BY <1>20, OnceFrame DEF HandleLoop
<1>21. ASSUME NEW h \in Handle, HandleTimeout(h) PROVE RequestOnce'
  BY <1>21, OnceFrame DEF HandleTimeout
<1>22. ASSUME NEW h \in Handle, HandlePop(h) PROVE RequestOnce'
  <2>1. PICK recv : recv = Head(rbuffer)
    OBVIOUS
  <2>2. PICK q : q = recv.req
    OBVIOUS
  <2>3. /\ rbuffer # << >> /\ rbuffer' = Tail(rbuffer)
        /\ work' = work \/ (~recv.isClosed /\ work' = [work EXCEPT ![h] = @ \cup {recv}])
        /\ UNCHANGED <<sbuffer, pipe, delivered, taken, written>>
    BY <1>22, <2>1 DEF HandlePop
  <2>4. rbuffer \in Seq(RecvData) /\ Once(rbuffer)
    BY DEF TypeOK, RequestOnce, OncePerQueue
  <2>5. /\ Asked(rbuffer') \subseteq Asked(rbuffer) /\ Once(rbuffer') /\ q \notin Asked(rbuffer')
        /\ q \in Request => q \in Asked(rbuffer)
    BY <2>1, <2>2, <2>3, <2>4, AskedTail
  <2>6. /\ InQueue' \subseteq InQueue /\ q \notin InQueue' /\ Once(rbuffer)'
        /\ q \in Request => q \in InQueue
    BY <2>5 DEF InQueue, Asked, Once
  <2>7. /\ \A m \in NetThread : InSend(m)' = InSend(m) /\ InPipe(m)' = InPipe(m)
        /\ \A c \in Conn : Arrived(c)' = Arrived(c)
    BY <2>3 DEF InSend, InPipe, Arrived, Asked
  <2>8. /\ \A m \in NetThread : Once(sbuffer[m])' /\ Once(pipe[m])'
        /\ \A c \in Conn : IsInjective(delivered'[c])
    BY <2>3 DEF RequestOnce, OncePerQueue, Once
  <2>9. CASE work' = work
    <3>1. \A g \in Handle : InWork(g)' = InWork(g)
      BY <2>9 DEF InWork
    <3>2. OncePerQueue'
      BY <2>6, <2>8, <2>9 DEF RequestOnce, OncePerQueue
    <3>3. OnePlace' /\ ReadBefore' /\ OwnResponses'
      BY <2>3, <2>6, <2>7, <3>1, TakenGrows, PlacesShrink DEF RequestOnce
    <3> QED BY <3>2, <3>3 DEF RequestOnce
  <2>10. CASE ~recv.isClosed /\ work' = [work EXCEPT ![h] = @ \cup {recv}]
    <3>1. q \in Request
      <4>1. 1 \in 1 .. Len(rbuffer) /\ recv = rbuffer[1]
        BY <2>1, <2>3, <2>4, EmptySeq, LenProperties
      <4> QED BY <2>2, <2>10, <4>1 DEF RequestsKnown, FromConnection
    <3>2. /\ q \in InQueue /\ \A g \in Handle : q \notin InWork(g)
          /\ \A m \in NetThread : q \notin InSend(m) /\ q \notin InPipe(m)
          /\ \A c \in Conn : q \notin Arrived(c)
      BY <2>6, <3>1 DEF RequestOnce, OnePlace
    <3>3. work'[h] = work[h] \cup {recv} /\ \A g \in Handle : g # h => work'[g] = work[g]
      BY <2>10 DEF TypeOK
    <3>4. InWork(h)' = InWork(h) \cup {q} /\ \A g \in Handle : g # h => InWork(g)' = InWork(g)
      BY <2>2, <3>3 DEF InWork
    <3>5. \A r \in work[h] : r.req # q
      BY <3>2 DEF InWork
    <3>6. \A g \in Handle : \A r, s \in work'[g] : r.req = s.req => r = s
      BY <2>2, <3>3, <3>5 DEF RequestOnce, OncePerQueue
    <3>7. OncePerQueue'
      BY <2>6, <2>8, <3>6 DEF OncePerQueue
    <3>8. OnePlace'
      BY <2>6, <2>7, <3>2, <3>4 DEF OnePlace, RequestOnce
    <3>9. ReadBefore'
      <4>1. (\A r : Read(r)' <=> Read(r)) /\ \A c \in Conn : taken'[c] <= written'[c]
        BY <2>3 DEF Read, RequestOnce, ReadBefore
      <4>2. Read(q)
        BY <3>2 DEF RequestOnce, ReadBefore
      <4>3. \A g \in Handle : \A r \in InWork(g)' : r \in InWork(g) \/ r = q
        BY <3>4
      <4> QED BY <2>6, <2>7, <4>1, <4>2, <4>3 DEF ReadBefore, RequestOnce
    <3>10. OwnResponses'
      BY <2>7 DEF OwnResponses, RequestOnce
    <3> QED BY <3>7, <3>8, <3>9, <3>10 DEF RequestOnce
  <2> QED BY <2>3, <2>9, <2>10
<1>23. ASSUME NEW h \in Handle, HandleDrained(h) PROVE RequestOnce'
  BY <1>23, OnceFrame DEF HandleDrained
<1>24. ASSUME NEW h \in Handle, NEW recv \in work[h], HandleRequest(h, recv)
      PROVE  RequestOnce'
  <2>1. PICK m, send : /\ m = ThreadOf(recv.fd)
                       /\ send = [cmd |-> "s", uid |-> recv.uid, req |-> recv.req]
    OBVIOUS
  <2>2. FromConnection(recv) /\ recv \in RecvData
    BY <1>24 DEF RequestsKnown, TypeOK
  <2>3. m \in NetThread /\ send \in SendData /\ send.req = recv.req
    BY <2>1, <2>2, ThreadOfType DEF FromConnection, SendData, RecvData
  <2>4. /\ work' = [work EXCEPT ![h] = @ \ {recv}]
        /\ sbuffer' = sbuffer \/ sbuffer' = [sbuffer EXCEPT ![m] = Append(@, send)]
        /\ UNCHANGED <<rbuffer, pipe, delivered, taken, written>>
    BY <1>24, <2>1 DEF HandleRequest, PushSend
  <2> QED BY <1>24, <2>3, <2>4, DoneOnce
<1>25. ASSUME NEW h \in Handle, NEW recv \in work[h], HandleThrow(h, recv)
      PROVE  RequestOnce'
  <2>1. PICK m, send : /\ m = ThreadOf(recv.fd)
                       /\ send = [cmd |-> "c", uid |-> recv.uid, req |-> recv.req]
    OBVIOUS
  <2>2. FromConnection(recv) /\ recv \in RecvData
    BY <1>25 DEF RequestsKnown, TypeOK
  <2>3. m \in NetThread /\ send \in SendData /\ send.req = recv.req
    BY <2>1, <2>2, ThreadOfType DEF FromConnection, SendData, RecvData
  <2>4. /\ work' = [work EXCEPT ![h] = @ \ {recv}]
        /\ sbuffer' = sbuffer \/ sbuffer' = [sbuffer EXCEPT ![m] = Append(@, send)]
        /\ UNCHANGED <<rbuffer, pipe, delivered, taken, written>>
    BY <1>25, <2>1 DEF HandleThrow, PushSend
  <2> QED BY <1>25, <2>3, <2>4, DoneOnce
<1>26. CASE Terminate
  BY <1>26, OnceFrame DEF Terminate
<1>27. CASE MainStopNet
  BY <1>27, OnceFrame DEF MainStopNet
<1>28. CASE MainNotifyHandles
  BY <1>28, OnceFrame DEF MainNotifyHandles
<1>29. CASE MainJoinHandles
  BY <1>29, OnceFrame DEF MainJoinHandles
<1>30. CASE UNCHANGED vars
  BY <1>30, OnceFrame DEF vars
<1> QED
  BY <1>1, <1>2, <1>3, <1>4, <1>5, <1>6, <1>7, <1>8, <1>9, <1>10, <1>11,
     <1>12, <1>13, <1>14, <1>15, <1>16, <1>17, <1>18, <1>19, <1>20, <1>21,
     <1>22, <1>23, <1>24, <1>25, <1>26, <1>27, <1>28, <1>29, <1>30
     DEF Next, Client, AcceptStep, NetStep, FinishDel, HandleStep, Main

-----------------------------------------------------------------------------
(* The server starts with empty queues, no connection and every uid free.  *)
LEMMA ServerInvInit == Init => ServerInv
<1> SUFFICES ASSUME Init PROVE ServerInv
  OBVIOUS
<1>1. TypeOK
  <2>1. /\ peer \in [Conn -> {"none", "open", "fin", "rst"}]
        /\ written \in [Conn -> 0 .. MaxReq] /\ taken \in [Conn -> 0 .. MaxReq]
        /\ unsent \in [Conn -> SUBSET Request] /\ accepted \subseteq Conn
        /\ fdOf \in [Conn -> Fd \cup {NoFd}] /\ uidOf \in [Conn -> Uid \cup {0}]
    BY DEF Init
  <2>2. delivered \in [Conn -> Seq(Request)] /\ rbuffer \in Seq(RecvData)
        /\ pipe \in [NetThread -> Seq(SendData)] /\ sbuffer \in [NetThread -> Seq(SendData)]
    BY EmptySeq DEF Init
  <2>3. free \in [NetThread -> Seq(Uid)]
    <3>1. [i \in 1 .. Total |-> i] \in Seq(Uid)
      BY IsASeq DEF Uid
    <3> QED BY <3>1 DEF Init
  <2>4. uidConn \in [NetThread -> [Uid -> Conn \cup {None}]]
        /\ epoll \in [NetThread -> [Fd -> Uid \cup {0}]]
        /\ cur \in [NetThread -> (Conn \cup {None}) \X (Fd \cup {NoFd})]
    BY DEF Init
  <2>5. /\ ready \in [NetThread -> SUBSET (Uid \cup {Notify, Listen})]
        /\ batch \in [NetThread -> SUBSET ((Uid \cup {Notify, Listen}) \X BOOLEAN)]
        /\ netPc \in [NetThread -> {"wait", "run", "accept", "insert", "add", "del",
                                    "close", "exit"}]
        /\ hPc \in [Handle -> {"loop", "wait", "drain", "coro", "exit"}]
        /\ work \in [Handle -> SUBSET RecvData]
    BY Zenon DEF Init
  <2>6. netTerm \in [NetThread -> BOOLEAN] /\ bTerminate \in BOOLEAN /\ crashed \in BOOLEAN
    BY Zenon DEF Init
  <2>7. mainPc \in -1 .. N + 2 /\ OpenCoroutine \in Modes
    BY DEF Init
  <2> QED BY <2>1, <2>2, <2>3, <2>4, <2>5, <2>6, <2>7 DEF TypeOK
<1>2. Tables
  <2>1. \A n \in NetThread : free[n] = [i \in 1 .. Total |-> i] /\ free[n] \in Seq(Uid)
    BY <1>1 DEF Init, TypeOK
  <2>2. \A n \in NetThread : Len(free[n]) = Total
    <3> SUFFICES ASSUME NEW n \in NetThread PROVE Len(free[n]) = Total
      OBVIOUS
    <3>1. DOMAIN free[n] = 1 .. Total /\ DOMAIN free[n] = 1 .. Len(free[n])
      BY <2>1, LenProperties
    <3>2. Len(free[n]) \in Nat /\ Total \in Nat
      BY <2>1, LenProperties
    <3>3. Len(free[n]) \in 1 .. Len(free[n]) => Len(free[n]) <= Total
      BY <3>1
    <3>4. Total \in 1 .. Total => Total <= Len(free[n])
      BY <3>1
    <3> QED BY <3>2, <3>3, <3>4
  <2>3. \A n \in NetThread, u \in Uid : uidConn[n][u] = None
    BY DEF Init
  <2>4. \A n \in NetThread : \A i \in 1 .. Len(free[n]) : free[n][i] = Total - Len(free[n]) + i
    <3> SUFFICES ASSUME NEW n \in NetThread, NEW i \in 1 .. Len(free[n])
                 PROVE  free[n][i] = Total - Len(free[n]) + i
      OBVIOUS
    <3>1. i \in 1 .. Total /\ Total - Len(free[n]) + i = i
      BY <2>2
    <3> QED BY <2>1, <3>1
  <2>5. \A n \in NetThread : \A u \in Uid : ~(u <= Total - Len(free[n]))
    BY <2>2 DEF Uid
  <2>6. \A c \in Conn : ~Open(c) /\ uidOf[c] = 0
    BY DEF Init, Open
  <2>7. \A n \in NetThread : Len(free[n]) <= Total
    BY <2>2
  <2> QED BY <2>3, <2>4, <2>5, <2>6, <2>7, Zenon DEF Tables
<1>3. InHand
  <2>1. \A n \in NetThread : netPc[n] = "wait" /\ cur[n] = <<None, NoFd>>
    BY DEF Init
  <2>2. 0 \in NetThread /\ accepted = {}
    BY DEF Init, NetThread
  <2> QED BY <2>1, <2>2 DEF InHand, HandsEmpty, Adding, Deleting
<1>4. Len(<< >>) = 0
  BY EmptySeq
<1>5. KnownUids
  BY <1>4 DEF Init, KnownUids, EpollUids, ReadyUids, BatchUids, SendUids, PipeUids
<1>6. RequestsKnown /\ CloseOrder
  BY <1>4 DEF Init, RequestsKnown, CloseOrder, CloseEventLast
<1>7. InEpoll
  BY DEF Init, InEpoll, Open
<1>8. RequestOnce
  <2>1. Asked(<< >>) = {} /\ Once(<< >>)
    BY <1>4 DEF Asked, Once
  <2>2. DOMAIN << >> = {}
    BY <1>4, EmptySeq, LenProperties
  <2>3. ToSet(<< >>) = {} /\ IsInjective(<< >>)
    BY <2>2 DEF ToSet, IsInjective
  <2>4. /\ InQueue = {} /\ \A h \in Handle : InWork(h) = {}
        /\ \A n \in NetThread : InSend(n) = {} /\ InPipe(n) = {}
        /\ \A c \in Conn : Arrived(c) = {}
    BY <2>1, <2>3 DEF Init, InQueue, InWork, InSend, InPipe, Arrived
  <2>5. OncePerQueue
    BY <2>1, <2>3 DEF Init, OncePerQueue
  <2>6. \A c \in Conn : taken[c] <= written[c]
    BY DEF Init
  <2> QED BY <2>4, <2>5, <2>6 DEF RequestOnce, OnePlace, ReadBefore, OwnResponses
<1> QED BY <1>1, <1>2, <1>3, <1>5, <1>6, <1>7, <1>8 DEF ServerInv

(* The invariant of the server: it holds at the start and every step of    *)
(* every thread keeps it.                                                  *)
LEMMA ServerInvariant == Spec => []ServerInv
<1>1. Init => ServerInv
  BY ServerInvInit
<1>2. ServerInv /\ [Next]_vars => ServerInv'
  BY TypeStep, TablesStep, InHandStep, KnownUidsStep, RequestsStep, InEpollStep,
     CloseOrderStep, OnceStep DEF ServerInv
<1> QED BY <1>1, <1>2, PTL DEF Spec

(* Every connection of the server that no thread is adding or deleting is  *)
(* in the epoll of its thread under its own uid, and the uid leads back to *)
(* it, whatever descriptors the kernel reuses and however thread 0's       *)
(* accepts interleave with the deletions on the other net threads; and the *)
(* variables keep their types.                                             *)
THEOREM ConnectionsStayRegistered == Spec => []RegisteredWhileOpen
<1>1. ServerInv => RegisteredWhileOpen
  BY RegisteredFollows DEF ServerInv
<1> QED BY <1>1, ServerInvariant, PTL

(* The handles take the close event of a connection from the adapter's     *)
(* queue after every request that was read from it.                        *)
THEOREM CloseComesLast == Spec => []CloseEventLast
<1>1. ServerInv => CloseEventLast
  BY DEF ServerInv, CloseOrder
<1> QED BY <1>1, ServerInvariant, PTL

(* No client gets the response to another client's request, and none gets  *)
(* a response twice.                                                       *)
THEOREM ResponsesReachTheirClient == Spec => []ResponseIsolation
<1>1. ServerInv => ResponseIsolation
  <2> SUFFICES ASSUME ServerInv, NEW c \in Conn
               PROVE  /\ \A i \in 1 .. Len(delivered[c]) : delivered[c][i][1] = c
                      /\ \A i, j \in 1 .. Len(delivered[c]) :
                           delivered[c][i] = delivered[c][j] => i = j
    BY DEF ResponseIsolation
  <2>1. delivered[c] \in Seq(Request) /\ IsInjective(delivered[c])
    BY DEF ServerInv, TypeOK, RequestOnce, OncePerQueue
  <2>2. DOMAIN delivered[c] = 1 .. Len(delivered[c])
    BY <2>1, LenProperties
  <2>3. \A i \in 1 .. Len(delivered[c]) : delivered[c][i] \in Arrived(c)
    BY <2>2 DEF Arrived, ToSet
  <2>4. \A q \in Arrived(c) : q[1] = c
    BY DEF ServerInv, RequestOnce, OwnResponses
  <2>5. \A i, j \in 1 .. Len(delivered[c]) : delivered[c][i] = delivered[c][j] => i = j
    BY <2>1, <2>2 DEF IsInjective
  <2> QED BY <2>3, <2>4, <2>5
<1> QED BY <1>1, ServerInvariant, PTL

============================================================================
