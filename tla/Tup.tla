-------------------------------- MODULE Tup --------------------------------
(***************************************************************************)
(* A call with the packets of tup.h.  A UniPacket is a RequestPacket with  *)
(* a map of attributes, which travels in its sBuffer.  The client builds   *)
(* req and encodes it, the server decodes it into got, makes rsp with      *)
(* createResponse and encodes that, and the client decodes the answer into *)
(* req again.  All three objects are used for one call after the other.    *)
(* The buffer may lose its end on the way, and the attributes may also be  *)
(* sent alone, with the methods of UniAttribute.                           *)
(***************************************************************************)
EXTENDS TarsPacket

CONSTANTS
    Attribute,   \* what is put: [name, type, value]
    Setting,     \* what the client's setters are given: [tag, value]
    Cuts,        \* bound: the lengths to which a buffer may be cut
    MaxCalls     \* bound: calls of the client

ASSUME TupAssumption ==
    /\ \A s \in Setting : s.tag \in 1 .. 8
    /\ MaxCalls \in Nat

VARIABLES
    header,      \* the RequestPacket of each object, by tag
    data,        \* _data of each object: bytes by name
    flight,      \* what is on the way
    step,        \* whose turn it is
    calls,       \* calls made
    meant,       \* history: the attributes of each object, as they were put
    asked        \* history: the header of req when it was encoded

tupVars == <<header, data, flight, step, calls, meant, asked>>

Packet == {"req", "got", "rsp"}
AttributeMap == [t |-> "map", k |-> Kind("string"), e |-> Kind("bytes")]

\* The constructor of UniPacket
Fresh == <<I(3), I(0), I(0), I(0), << >>, << >>, << >>, I(0), << >>, << >>>>

Nothing == [bytes |-> << >>, alone |-> FALSE, meant |-> << >>]

TupInit ==
    /\ header = [o \in Packet |-> Fresh]
    /\ data = [o \in Packet |-> << >>]
    /\ flight = Nothing
    /\ step = "build" /\ calls = 0
    /\ meant = [o \in Packet |-> << >>]
    /\ asked = Fresh

-----------------------------------------------------------------------------
(* UniAttribute                                                            *)

\* std::less<string>
Less(a, b) ==
    \/ IsStrictPrefix(a, b)
    \/ \E i \in DOMAIN a \cap DOMAIN b :
         a[i] < b[i] /\ \A j \in 1 .. i - 1 : a[j] = b[j]

\* encode: the map in the order of its keys, at tag 0
EncodeData(d) ==
    LET names == SetToSortSeq(DOMAIN d, Less)
    IN  Write(AttributeMap, [i \in DOMAIN names |-> <<names[i], d[names[i]]>>], 0)

AsMap(pairs) ==
    [n \in {p[1] : p \in ToSet(pairs)} |-> (CHOOSE p \in ToSet(pairs) : p[1] = n)[2]]

\* decode: the exception, and _data, which is cleared before it is read and
\* keeps the pairs read before an exception
DecodeData(bytes) ==
    LET result(r) == [ex |-> r.ex, data |-> AsMap(r.v)]
    IN  result(Read(AttributeMap, bytes, 0, 0, TRUE, << >>))

\* get<T>, once the name has been found
Get(d, name, T) == Read(T, d[name], 0, 0, TRUE, << >>)

\* getUnknown drops the heads that putUnknown, or put of a struct, has written.
HasUnknown(d, name) == name \in DOMAIN d /\ Len(d[name]) > 2
UnknownOf(d, name) == SubSeq(d[name], 2, Len(d[name]) - 1)

PutUnknown(d, name, raw) ==
    (name :> TarsWriteToHead(eStructBegin, 0) \o raw \o TarsWriteToHead(eStructEnd, 0)) @@ d

Put(d, a) == (a.name :> Write(a.type, a.value, 0)) @@ d

-----------------------------------------------------------------------------
(* The client and the server                                               *)

Builder == [build |-> "req", answer |-> "rsp"]
Building == step \in DOMAIN Builder

\* The setters of UniPacket and TarsUniPacket
SetMember(s) ==
    /\ step = "build"
    /\ header' = [header EXCEPT !["req"][s.tag] = s.value]
    /\ UNCHANGED <<data, flight, step, calls, meant, asked>>

\* put(name, t)
PutAttribute(a) ==
    /\ Building
    /\ LET o == Builder[step]
       IN  /\ data' = [data EXCEPT ![o] = Put(@, a)]
           /\ meant' = [meant EXCEPT ![o] = (a.name :> a) @@ @]
    /\ UNCHANGED <<header, flight, step, calls, asked>>

\* The server passes an attribute on whose type, a struct, it does not know.
PassUnknown(name) ==
    /\ step = "answer" /\ HasUnknown(data["got"], name)
    /\ name \in DOMAIN meant["got"] /\ meant["got"][name].type.t = "struct"
    /\ data' = [data EXCEPT !["rsp"] = PutUnknown(@, name, UnknownOf(data["got"], name))]
    /\ meant' = [meant EXCEPT !["rsp"] = (name :> meant["got"][name]) @@ @]
    /\ UNCHANGED <<header, flight, step, calls, asked>>

\* clear()
ClearData ==
    /\ Building
    /\ data' = [data EXCEPT ![Builder[step]] = << >>]
    /\ meant' = [meant EXCEPT ![Builder[step]] = << >>]
    /\ UNCHANGED <<header, flight, step, calls, asked>>

Named(o) == header[o][5] # << >> /\ header[o][6] # << >>

MutantEncodedOnce(o) ==
    [header[o] EXCEPT ![7] = IF @ = << >> THEN EncodeData(data[o]) ELSE @]

\* doEncode, which throws without the names: sBuffer is overwritten.
Encoded(o) == [header[o] EXCEPT ![7] = EncodeData(data[o])]

\* encode(), and encode(buff, len) with room enough
Encode ==
    /\ Building /\ Named(Builder[step])
    /\ step = "build" => calls < MaxCalls
    /\ LET o == Builder[step]
       IN  /\ header' = [header EXCEPT ![o] = Encoded(o)]
           /\ flight' = [bytes |-> Framed(WriteTo(RequestPacket, header'[o])),
                         alone |-> FALSE, meant |-> meant[o]]
           /\ asked' = IF o = "req" THEN header'[o] ELSE asked
    /\ step' = IF step = "build" THEN "request" ELSE "response"
    /\ calls' = IF step = "build" THEN calls + 1 ELSE calls
    /\ UNCHANGED <<data, meant>>

\* encode(buff, len) with a buffer that is too short throws after doEncode.
EncodeTooShort ==
    /\ Building /\ Named(Builder[step])
    /\ header' = [header EXCEPT ![Builder[step]] = Encoded(Builder[step])]
    /\ UNCHANGED <<data, flight, step, calls, meant, asked>>

\* UniAttribute::encode
EncodeAlone ==
    /\ step = "build" /\ calls < MaxCalls
    /\ flight' = [bytes |-> EncodeData(data["req"]), alone |-> TRUE, meant |-> meant["req"]]
    /\ step' = "request" /\ calls' = calls + 1
    /\ UNCHANGED <<header, data, meant, asked>>

-----------------------------------------------------------------------------
\* resetDefautlt leaves sBuffer, context and status.
ResetDefault(h) ==
    [t \in DOMAIN h |-> IF t \in {7, 9, 10} THEN h[t] ELSE IF t \in {5, 6} THEN << >> ELSE I(0)]

\* readFrom: the members before the exception are read.  (context and status,
\* which may be cleared by a read that throws, are empty in these calls.)
HeaderAfter(h, buf) ==
    LET after(r, f, x) == [ex |-> x.ex, cur |-> x.cur,
                           v |-> IF x.ex = "" THEN [r.v EXCEPT ![f.tag] = x.v] ELSE r.v]
    IN  FoldLeft(LAMBDA r, f :
                   IF r.ex # "" THEN r
                   ELSE after(r, f, Read(f.type, buf, r.cur, f.tag, f.req, r.v[f.tag])),
                 [ex |-> "", cur |-> 0, v |-> ResetDefault(h)], RequestPacket)

\* UniPacket::decode after readFrom: _data is left alone if that has thrown.
DecodeBuffer(o, h) ==
    IF h.ex # "" THEN [ex |-> h.ex, header |-> h.v, data |-> data[o]]
    ELSE [header |-> h.v] @@ DecodeData(h.v[7])

\* The header and _data of o after decode of buf, and what it threw
DecodePacket(o, buf) ==
    IF Len(buf) < sizeofLen THEN [ex |-> "TooShort", header |-> header[o], data |-> data[o]]
    ELSE DecodeBuffer(o, HeaderAfter(header[o], SubSeq(buf, sizeofLen + 1, Len(buf))))

\* UniAttribute::decode
DecodeAlone(o, buf) == [header |-> header[o]] @@ DecodeData(buf)

\* The first k bytes are decoded.  After an exception the client builds another
\* request, as it does when only attributes were sent.
Decode(k) ==
    LET o == IF step = "request" THEN "got" ELSE "req"
        buf == SubSeq(flight.bytes, 1, k)
        sentOf(d) == [n \in DOMAIN d \cap DOMAIN flight.meant |-> flight.meant[n]]
        applied(r) ==
          /\ header' = [header EXCEPT ![o] = r.header]
          /\ data' = [data EXCEPT ![o] = r.data]
          /\ meant' = [meant EXCEPT ![o] = IF r.ex = "" THEN flight.meant
                                           ELSE IF flight.alone THEN sentOf(r.data) ELSE @]
          /\ step' = CASE r.ex # "" \/ flight.alone -> "build"
                       [] step = "response"         -> "answered"
                       [] OTHER                     -> "serve"
    IN  /\ step \in {"request", "response"}
        /\ applied(IF flight.alone THEN DecodeAlone(o, buf) ELSE DecodePacket(o, buf))
        /\ flight' = Nothing
        /\ UNCHANGED <<calls, asked>>

\* The whole buffer, or what is left of it when it was cut
Lengths == {Len(flight.bytes)} \cup {k \in Cuts : k < Len(flight.bytes)}

\* createResponse
Response ==
    [Fresh EXCEPT ![4] = header["got"][4], ![5] = header["got"][5], ![6] = header["got"][6]]

CreateResponse ==
    /\ step = "serve"
    /\ header' = [header EXCEPT !["rsp"] = Response]
    /\ data' = [data EXCEPT !["rsp"] = << >>]
    /\ meant' = [meant EXCEPT !["rsp"] = << >>]
    /\ step' = "answer"
    /\ UNCHANGED <<flight, calls, asked>>

\* The client has its answer and uses the object again.
NextCall ==
    /\ step = "answered"
    /\ step' = "build"
    /\ UNCHANGED <<header, data, flight, calls, meant, asked>>

TupNext ==
    \/ \E s \in Setting : SetMember(s)
    \/ \E a \in Attribute : PutAttribute(a)
    \/ \E a \in Attribute : PassUnknown(a.name)
    \/ ClearData \/ Encode \/ EncodeTooShort \/ EncodeAlone
    \/ \E k \in Lengths : Decode(k)
    \/ CreateResponse \/ NextCall

TupSpec == TupInit /\ [][TupNext]_tupVars

-----------------------------------------------------------------------------
(* The answer a client has decoded, whatever it decoded into the same      *)
(* object before, is to its request: it has its number, servant and        *)
(* function.                                                               *)
AnswerIsToRequest ==
    step = "answered" => \A t \in {4, 5, 6} : header["req"][t] = asked[t]

(* Every object has the attributes that were put into it or into the       *)
(* packet it was decoded from, with their values, and no other: objects    *)
(* that are used again mix nothing of an earlier call in, attributes of an *)
(* unknown type pass through, and a decode that throws leaves the          *)
(* attributes that were there, or whole ones of those that were sent.      *)
(* An answer is to the client's last request.                              *)
AttributesKept ==
    /\ AnswerIsToRequest
    /\ \A o \in Packet :
        /\ DOMAIN data[o] = DOMAIN meant[o]
        /\ \A n \in DOMAIN meant[o] :
             LET is(r) == r.ex = "" /\ r.v = meant[o][n].value
             IN  is(Get(data[o], n, meant[o][n].type))
=============================================================================
