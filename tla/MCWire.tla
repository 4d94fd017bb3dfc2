------------------------------- MODULE MCWire -------------------------------
(***************************************************************************)
(* What travels between client and server, for TLC: pairs of versions of a *)
(* struct with values at the edges of every width, packets with the        *)
(* shortest and the longest encodings of the members read from an          *)
(* incomplete head, and TUP calls.  A behaviour is about one of the three. *)
(***************************************************************************)
EXTENDS TarsMessage, TarsProtocol, Tup

VARIABLE subject

wireVars == <<subject, messageVars, protocolVars, tupVars>>

(* Of the subjects a behaviour is not about there is one initial state.    *)
Init ==
  /\ subject \in {"message", "protocol", "tup"}
  /\ MessageInit
  /\ subject # "message" => ver = CHOOSE v \in Versions : TRUE
  /\ ProtocolInit
  /\ subject # "protocol" => <<side, iMaxLength>> = CHOOSE r \in Receivers : TRUE
  /\ TupInit

MessageStep == subject = "message" /\ MessageNext /\ UNCHANGED <<subject, protocolVars, tupVars>>
ProtocolStep == subject = "protocol" /\ ProtocolNext /\ UNCHANGED <<subject, messageVars, tupVars>>
TupStep == subject = "tup" /\ TupNext /\ UNCHANGED <<subject, messageVars, protocolVars>>

Next == MessageStep \/ ProtocolStep \/ TupStep

Spec == Init /\ [][Next]_wireVars

-----------------------------------------------------------------------------
(* Messages                                                                *)

Required(tag, type) == [tag |-> tag, type |-> type, req |-> TRUE, def |-> << >>]
Optional(tag, type, def) == [tag |-> tag, type |-> type, req |-> FALSE, def |-> def]

T(name) == [t |-> name]
ListOf(e) == [t |-> "list", e |-> e]
MapOf(k, e) == [t |-> "map", k |-> k, e |-> e]
Struct(members) == [t |-> "struct", members |-> members]

Text(n) == [i \in 1 .. n |-> 97]

Ints(S) == {I(n) : n \in S}

\* -2^31 - 1, 2^31, 2^32 - 1 (the largest UInt32), the least Int64.
WideInts == {<<-1, 2147483647>>, <<0, -2147483647 - 1>>, <<0, -1>>,
             <<-2147483647 - 1, 0>>}

Edges == [Bool   |-> Ints({0, 1}),
          Char   |-> Ints({0, 127, -128}),
          UInt8  |-> Ints({0, 127, 128, 255}),
          Short  |-> Ints({0, -129, 128, 32767}),
          UInt16 |-> Ints({0, 255, 32768, 65535}),
          Int32  |-> Ints({0, 127, 128, -32768, -32769, 2147483647,
                           -2147483647 - 1}),
          UInt32 |-> Ints({0, 2147483647}) \cup {<<0, -2147483647 - 1>>, <<0, -1>>},
          Int64  |-> Ints({-1, 65535, -2147483647 - 1}) \cup WideInts,
          float  |-> {<<63, 128, 0, 0>>},
          double |-> {<<63, 240, 0, 0, 0, 0, 0, 0>>},
          string |-> {Text(0), Text(1), Text(255), Text(256)},
          \* bytes that look like heads: an end of struct, a long head
          bytes  |-> {<< >>, <<11, 255, 42>>}]

RECURSIVE Samples(_)
Samples(type) ==
  CASE type.t = "list"   -> {<< >>} \cup {<<v, v>> : v \in Samples(type.e)}
    [] type.t = "map"    -> {<< >>} \cup {<<<<Text(1), v>>, <<Text(2), v>>>> :
                                             v \in Samples(type.e)}
    [] type.t = "struct" ->
         {[t \in {f.tag : f \in ToSet(type.members)} |->
             LET f == CHOOSE f \in ToSet(type.members) : f.tag = t IN pick[f]] :
           pick \in {p \in [ToSet(type.members) ->
                             UNION {Samples(f.type) : f \in ToSet(type.members)}] :
                       \A f \in ToSet(type.members) : p[f] \in Samples(f.type)}}
    [] OTHER -> Edges[type.t]

-----------------------------------------------------------------------------
\* Every scalar, with the tags around the one-byte head's limit.
Scalars == <<Required(0, T("Int64")), Required(14, T("Int32")),
             Required(15, T("UInt32")), Required(255, T("UInt8"))>>

Small == <<Required(1, T("Bool")), Required(2, T("Char")), Required(3, T("Short")),
           Required(4, T("UInt16"))>>

Wider == <<Required(1, T("Short")), Required(2, T("Int32")), Required(3, T("Int64")),
           Required(4, T("Int64"))>>

Narrow == <<Required(0, T("Int32")), Required(14, T("Short"))>>

Reals == <<Required(1, T("float")), Required(2, T("double")), Required(3, T("string"))>>
RealsRead == <<Required(1, T("double")), Required(3, T("string"))>>

\* A struct inside a struct: the newer reader expects a member the inner one
\* does not have, with a tag the outer one uses.
Inner == Struct(<<Required(0, T("Char")), Required(1, T("bytes"))>>)
InnerNew == Struct(<<Required(0, T("Char")), Optional(2, T("Int32"), I(7))>>)
Outer == <<Required(1, Inner), Required(2, T("Int32"))>>
OuterNew == <<Required(1, InnerNew), Required(2, T("Int32")),
              Optional(3, T("string"), Text(3))>>

\* Containers, and a reader that knows only what follows them.
Containers == <<Required(1, MapOf(T("string"), T("Short"))),
                Required(2, ListOf(Struct(<<Required(0, T("Int32"))>>))),
                Required(3, T("bytes")), Required(20, T("Char")),
                Optional(21, T("string"), Text(0))>>
LastOnly == <<Required(20, T("Char"))>>
Nested == <<Required(1, ListOf(MapOf(T("string"), T("Char")))), Required(2, Inner)>>
NestedNew == <<Required(1, ListOf(MapOf(T("string"), T("Int32")))), Required(2, InnerNew)>>

Pair(w, r) == [w |-> w, r |-> r]

\* The reader is of the writer's version.
SameVersion == {Pair(m, m) : m \in {Scalars, Small, Reals, Outer, Containers, Nested}}

\* It is of another one: older, newer, wider, narrower.
OtherVersion == {Pair(Small, Wider), Pair(Scalars, Narrow), Pair(Reals, RealsRead),
                 Pair(Outer, OuterNew), Pair(OuterNew, Outer), Pair(Containers, LastOnly),
                 Pair(Nested, NestedNew)}

\* It knows the first members only.
OlderVersion == {Pair(Containers, SubSeq(Containers, 1, n)) : n \in 1 .. 4}
                \cup {Pair(Scalars, SubSeq(Scalars, 1, 2)), Pair(Outer, SubSeq(Outer, 1, 1)),
                      Pair(Nested, SubSeq(Nested, 1, 1)), Pair(Reals, SubSeq(Reals, 1, 1))}

\* The members of every kind, to be cut at every byte.
Every == <<Required(1, T("Int64")), Required(15, Inner),
           Required(16, MapOf(T("string"), T("Short"))), Optional(17, T("Short"), I(5))>>
MCCutVersions == {Pair(Every, Every), Pair(Nested, Nested), Pair(Small, Small)}

AllVersions == SameVersion \cup OtherVersion \cup OlderVersion \cup MCCutVersions
-----------------------------------------------------------------------------
(* Packets                                                                 *)

Pairs(n) == [i \in 1 .. n |-> <<Text(i), << >>>>]

Request(v, mt, id, name, bytes, timeout, ctx) ==
  <<I(v), I(0), I(mt), I(id), name, name, bytes, I(timeout), Pairs(ctx), Pairs(0)>>

Answered(v, id, mt, ret, bytes, desc, ctx) ==
  <<I(v), I(0), I(id), I(mt), I(ret), bytes, Pairs(0), desc, Pairs(ctx)>>

MCPackets(s) ==
  IF s = "client"
  THEN {Answered(1, 1, 0, 0, << >>, << >>, 0),
        Answered(1, 2147483647, 65536, -2147483647, <<11, 255>>, Text(1), 0),
        Answered(1, 200, 128, -99, <<83>>, << >>, 1)}
  ELSE {Request(3, 0, 1, Text(1), << >>, 0, 0),
        Request(3, 65536, 2147483647, Text(2), <<0, 0, 0, 4>>, 3000, 1)}

\* The server also with the length of the shorter request as its limit.
MCReceivers == {<<"server", 1000>>, <<"server", 24>>, <<"client", 1000>>, <<"tup", 1000>>}
-----------------------------------------------------------------------------
(* TUP calls: one name with two types, one with one.                       *)

Holder == Struct(<<Required(0, T("Char")), Required(1, T("string"))>>)
MCAttribute ==
  {[name |-> Text(1), type |-> T("Int32"), value |-> I(0)],
   [name |-> Text(1), type |-> Holder, value |-> (0 :> I(0)) @@ (1 :> Text(2))],
   [name |-> <<98>>, type |-> T("Int32"), value |-> I(300)]}

\* setRequestId, setServantName, setFuncName
MCSetting == {[tag |-> 4, value |-> I(7)], [tag |-> 5, value |-> Text(1)],
              [tag |-> 6, value |-> Text(1)]}
=============================================================================
