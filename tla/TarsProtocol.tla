---------------------------- MODULE TarsProtocol ----------------------------
(***************************************************************************)
(* Packets over a byte stream: tarsRequest frames a RequestPacket and      *)
(* AppProtocol::parse takes it apart ("server"); a ResponsePacket is       *)
(* framed as tup/main.cpp does it and ProxyProtocol::tarsResponse takes it *)
(* apart ("client"); ProxyProtocol::tupResponse reads a RequestPacket as   *)
(* the answer of a TUP call ("tup").  The bytes arrive in pieces of any    *)
(* size and the receiver parses after each piece.                          *)
(***************************************************************************)
EXTENDS TarsPacket

CONSTANTS Receivers,   \* the pairs of side and iMaxLength to consider
          Packets(_),  \* the packets sent to a receiver
          MaxSent,     \* bound on the number of packets sent
          Junk         \* what unreceived bytes of the buffer may hold

VARIABLES side, sent,  \* the receiver, the packets sent to it
          wire,        \* the bytes sent and not yet received
          recv,        \* the receiver's buffer, without what it has parsed
          done,        \* the packets it has parsed
          state,       \* "open", "closed" (parse returned -1), "thrown"
          iMaxLength   \* the parsers' template parameter, 10000000 in the code

protocolVars == <<side, sent, wire, recv, done, state, iMaxLength>>

PacketOf(s) == IF s = "client" THEN ResponsePacket ELSE RequestPacket

Frame(s, p) == Framed(WriteTo(PacketOf(s), p))

\* A packet has a length that fits in its four bytes; none is so long that
\* iHeaderLen is negative as an Int32.
ASSUME ProtocolAssumption ==
  /\ \A r \in Receivers : r[1] \in {"server", "client", "tup"} /\ r[2] \in Nat
  /\ \A s \in {"server", "client", "tup"} : \A p \in Packets(s) :
       IsPacket(PacketOf(s), p) /\ IsSize(Len(Frame(s, p)))
  /\ MaxSent \in Nat /\ Junk \subseteq WireByte

HeaderLen(buf) == NetToHost(SubSeq(buf, 1, sizeofLen))

-----------------------------------------------------------------------------
(* AppProtocol::parseLen: 0 not complete, 1 a packet in out, -1 refused.   *)

\* Mutant: a packet that has just arrived in full is taken for incomplete.
MutantParseStrict(in) ==
  LET n == HeaderLen(in)
      ret(r) == [ret |-> r, out |-> << >>, in |-> in]
  IN  IF Len(in) < sizeofLen THEN ret(0)
      ELSE IF n < sizeofLen \/ n > iMaxLength THEN ret(-1)
      ELSE IF Len(in) <= n THEN ret(0)
      ELSE [ret |-> 1, out |-> SubSeq(in, sizeofLen + 1, n),
            in |-> SubSeq(in, n + 1, Len(in))]

ParseLen(in) ==
  LET n == HeaderLen(in)
      ret(r) == [ret |-> r, out |-> << >>, in |-> in]
  IN  IF Len(in) < sizeofLen THEN ret(0)
      ELSE IF n < sizeofLen \/ n > iMaxLength THEN ret(-1)
      ELSE IF Len(in) < n THEN ret(0)
      ELSE [ret |-> 1, out |-> SubSeq(in, sizeofLen + 1, n),
            in |-> SubSeq(in, n + 1, Len(in))]

\* A receiver after some rounds of its loop: the packets, what is left of the
\* buffer, and the state, "more" if there is another round.
Result(ps, rest, st) == [done |-> ps, rest |-> rest, state |-> st]

\* The server's receive loop: parse until it returns something else than 1, and
\* decode each packet with readFrom.
ParseOne(r) ==
  LET p == ParseLen(r.rest)
  IN  CASE p.ret = 0  -> [r EXCEPT !.state = "open"]
        [] p.ret = -1 -> [r EXCEPT !.state = "closed"]
        [] OTHER -> TryCatch(ReadFrom(RequestPacket, p.out, 0),
                             LAMBDA v, c : Result(Append(r.done, v), p.in, "more"),
                             LAMBDA c : Result(r.done, p.in, "thrown"))

-----------------------------------------------------------------------------
(* ProxyProtocol::tarsResponseLen and tupResponseLen.  The checks of the   *)
(* length, the version and the return value have no effect: the throw of   *)
(* each is commented out.                                                  *)

head == 20

\* The members read from the head of a packet that is not complete.
HeadMembers(s) ==
  IF s = "client"
  THEN [i \in 1 .. 5 |-> [ResponsePacket[i] EXCEPT !.req = FALSE]]
  ELSE SubSeq(RequestPacket, 1, 4)

\* The head is read from head bytes after the length, although only len - 4 of
\* them have been received: the others hold j.
HeadReads(s, buf, j) ==
  LET have == SubSeq(buf, sizeofLen + 1, Len(buf))
      bytes == [i \in 1 .. head |-> IF i <= Len(have) THEN have[i] ELSE j]
  IN  ReadFrom(HeadMembers(s), bytes, 0).ex = ""

\* What is put on done for a packet v: tupResponse makes a ResponsePacket whose
\* sBuffer is the whole packet, its length included.
Answer(s, v, packet) ==
  IF s = "tup" THEN <<v[1], v[2], v[4], v[3], I(0), packet, << >>, << >>, v[9]>> ELSE v

\* A round of the loop; the caller drops what was parsed.
ResponseOne(s, r, j) ==
  LET buf == r.rest
      n == HeaderLen(buf)
  IN  CASE Len(buf) < sizeofLen -> [r EXCEPT !.state = "open"]
        [] Len(buf) >= sizeofLen /\ Len(buf) < n ->
             [r EXCEPT !.state = IF Len(buf) >= head /\ ~HeadReads(s, buf, j)
                                 THEN "thrown" ELSE "open"]
        [] OTHER ->
             TryCatch(ReadFrom(PacketOf(s), SubSeq(buf, sizeofLen + 1, n), 0),
                      LAMBDA v, c : Result(Append(r.done, Answer(s, v, SubSeq(buf, 1, n))),
                                           SubSeq(buf, n + 1, Len(buf)), "more"),
                      LAMBDA c : [r EXCEPT !.state = "thrown"])

Round(s, r, j) ==
  CASE r.state # "more" -> r
    [] r.state = "more" /\ s = "server" -> ParseOne(r)
    [] r.state = "more" /\ s # "server" -> ResponseOne(s, r, j)

\* The loop over what has arrived.  A round that is not the last one takes
\* sizeofLen bytes or more.
Parsed(s, in, ps, j) ==
  LET n == Len(in) \div sizeofLen + 1
      after[i \in 0 .. n] ==
        IF i = 0 THEN Result(ps, in, "more") ELSE Round(s, after[i - 1], j)
  IN  after[n]

-----------------------------------------------------------------------------
ProtocolInit ==
  /\ \E r \in Receivers : side = r[1] /\ iMaxLength = r[2]
  /\ sent = << >> /\ wire = << >> /\ recv = << >> /\ done = << >>
  /\ state = "open"

Send(p) ==
  /\ Len(sent) < MaxSent
  /\ sent' = Append(sent, p)
  /\ wire' = wire \o Frame(side, p)
  /\ UNCHANGED <<side, recv, done, state, iMaxLength>>

\* k more bytes arrive and the receiver parses what it has.
Recv(k) ==
  /\ state = "open"
  /\ LET parsed(r) == done' = r.done /\ recv' = r.rest /\ state' = r.state
     IN  \E j \in Junk : parsed(Parsed(side, recv \o SubSeq(wire, 1, k), done, j))
  /\ wire' = SubSeq(wire, k + 1, Len(wire))
  /\ UNCHANGED <<side, sent, iMaxLength>>

ProtocolNext ==
  \/ \E p \in Packets(side) : Send(p)
  \/ \E k \in 1 .. Len(wire) : Recv(k)

ProtocolSpec == ProtocolInit /\ [][ProtocolNext]_protocolVars

-----------------------------------------------------------------------------
LengthOf(p) == Len(Frame(side, p))

Frames == [i \in DOMAIN sent |-> Frame(side, sent[i])]

\* Where the first n packets end in the stream.
EndOf(n) == Len(Joined(Frames)[n])

\* How many of the packets sent have arrived in full.
Arrived == Cardinality({n \in 1 .. Len(sent) : EndOf(n) <= EndOf(Len(sent)) - Len(wire)})

\* A packet is handed on as soon as its last byte has arrived: none is held
\* back until the next one comes, and no stream is refused unless one of its
\* packets is longer than iMaxLength.  No split of it makes a receiver throw,
\* the look into the head of an incomplete packet included, whatever the bytes
\* after the received ones are.
NoPacketHeldBack ==
  /\ state # "thrown"
  /\ (state = "open" \/ \A i \in DOMAIN sent : LengthOf(sent[i]) <= iMaxLength)
       => Len(done) = Arrived

\* Wherever the stream is split, the receiver parses the packets that were
\* sent, in the order they were sent, each once and with every member intact,
\* and as soon as they have arrived.
FramesKeepPackets ==
  /\ IsPrefix(done, [i \in DOMAIN sent |-> Answer(side, sent[i], Frames[i])])
  /\ NoPacketHeldBack
=============================================================================
