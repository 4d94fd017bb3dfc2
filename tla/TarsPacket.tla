----------------------------- MODULE TarsPacket -----------------------------
(***************************************************************************)
(* The two packets of RequestF.h, as lists of members for TarsStream, and  *)
(* the length in front of a packet.                                        *)
(***************************************************************************)
EXTENDS TarsStream

Member(tag, type) == [tag |-> tag, type |-> type, req |-> TRUE, def |-> << >>]
MayMiss(tag, type) == [tag |-> tag, type |-> type, req |-> FALSE, def |-> << >>]

Kind(name) == [t |-> name]
StringMap == [t |-> "map", k |-> Kind("string"), e |-> Kind("string")]

\* RequestPacket: iVersion, cPacketType, iMessageType, iRequestId, sServantName,
\* sFuncName, sBuffer, iTimeout, context, status.
RequestPacket ==
  <<Member(1, Kind("Short")), Member(2, Kind("Char")), Member(3, Kind("Int32")),
    Member(4, Kind("Int32")), Member(5, Kind("string")), Member(6, Kind("string")),
    Member(7, Kind("bytes")), Member(8, Kind("Int32")), Member(9, StringMap),
    Member(10, StringMap)>>

\* ResponsePacket: iVersion, cPacketType, iRequestId, iMessageType, iRet,
\* sBuffer, status, sResultDesc, context.
ResponsePacket ==
  <<Member(1, Kind("Short")), Member(2, Kind("Char")), Member(3, Kind("Int32")),
    Member(4, Kind("Int32")), Member(5, Kind("Int32")), Member(6, Kind("bytes")),
    Member(7, StringMap), MayMiss(8, Kind("string")), MayMiss(9, StringMap)>>

-----------------------------------------------------------------------------
(* What the members may hold: every value of their C++ types.              *)

Between(a, c) == {n \in Int : a <= n /\ n <= c}

Int32Value == Between(-2147483647 - 1, 2147483647)

Limits == [Bool |-> Between(0, 1), Char |-> Between(-128, 127), UInt8 |-> Between(0, 255),
           Short |-> Between(-32768, 32767), UInt16 |-> Between(0, 65535), Int32 |-> Int32Value]

IsNumber(t, p) ==
  CASE t \in DOMAIN Limits -> p[2] \in Limits[t] /\ p = I(p[2])
    [] t = "UInt32"        -> p[2] \in Int32Value /\ p = <<0, p[2]>>
    [] t = "Int64"         -> p[1] \in Int32Value /\ p[2] \in Int32Value /\ p = <<p[1], p[2]>>

IsString(v) == v \in Seq(WireByte) /\ Len(v) <= TARS_MAX_STRING_LENGTH

\* The size of a map, a vector or a packet fits the Int32 as which it is written.
IsSize(n) == n <= 2147483647

\* map<string, string> as the sequence of its pairs, whose keys are different.
IsTextMap(m) ==
  /\ m \in Seq(Seq(WireByte) \X Seq(WireByte)) /\ IsSize(Len(m))
  /\ \A i \in 1 .. Len(m) : IsString(m[i][1]) /\ IsString(m[i][2])
  /\ \A i, j \in 1 .. Len(m) : m[i][1] = m[j][1] => i = j

IsValue(T, v) ==
  CASE IsInteger(T)   -> IsNumber(T.t, v)
    [] T.t = "string" -> IsString(v)
    [] T.t = "bytes"  -> v \in Seq(WireByte) /\ IsSize(Len(v))
    [] T = StringMap  -> IsTextMap(v)

IsPacket(members, p) ==
  /\ p = [i \in 1 .. Len(members) |-> p[i]]
  /\ \A i \in 1 .. Len(members) : IsValue(members[i].type, p[i])

-----------------------------------------------------------------------------
sizeofLen == 4

\* tarsRequest and the encode methods of UniPacket: the length counts its own
\* four bytes.
Framed(body) == HostToNet(sizeofLen + Len(body), 4) \o body
=============================================================================
