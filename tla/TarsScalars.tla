---------------------------- MODULE TarsScalars ----------------------------
(***************************************************************************)
(* The part of the codec of tup/Tars.h below the nested types: the heads   *)
(* of fields, the bytes of integers, and how a scalar or a string is       *)
(* written and, once its head was found, read back.                        *)
(*                                                                         *)
(* A type is a record whose field t is its kind.  An integer is a pair     *)
(* <<hi, lo>> of signed 32-bit halves, a real number the sequence of its   *)
(* IEEE bytes, a string a sequence of bytes.                               *)
(*                                                                         *)
(* A reader returns [ex, v, cur]: the exception it throws ("" if none),    *)
(* the value, and where it leaves _cur.  A cursor counts from 0.           *)
(***************************************************************************)
EXTENDS Integers, Sequences, SequencesExt

WireByte == 0 .. 255

eChar == 0
eShort == 1
eInt32 == 2
eInt64 == 3
eFloat == 4
eDouble == 5
eString1 == 6
eString4 == 7
eMap == 8
eList == 9
eStructBegin == 10
eStructEnd == 11
eZeroTag == 12
eSimpleList == 13

\* The bytes after the head of a scalar, by head type.
SizeOf == [type \in eChar .. eDouble |->
             CASE type = eChar -> 1 [] type = eShort -> 2
               [] type \in {eInt32, eFloat} -> 4 [] OTHER -> 8]

\* The widest head the reader of an integer type accepts: the unsigned types,
\* Bool and enumerations travel as the signed type that holds them.
Carrier == [Bool |-> eChar, Char |-> eChar, UInt8 |-> eShort, Short |-> eShort,
            UInt16 |-> eInt32, Int32 |-> eInt32, UInt32 |-> eInt64,
            Int64 |-> eInt64]

IsInteger(T) == T.t \in DOMAIN Carrier

-----------------------------------------------------------------------------
(* Integers of 64 bits and their bytes.                                    *)

I(n) == <<IF n < 0 THEN -1 ELSE 0, n>>

FitsInt32(p) == p[1] = IF p[2] < 0 THEN -1 ELSE 0

\* 256 ^ 3 and so on down to 1.
Weight == <<16777216, 65536, 256, 1>>

\* htons, htonl: the k low bytes of n, the most significant first.
HostToNet(n, k) == [i \in 1 .. k |-> (n \div Weight[4 - k + i]) % 256]

\* ntohs, ntohl: the signed value of one, two or four bytes.
NetToHost(bs) ==
  LET top == IF bs[1] >= 128 THEN bs[1] - 256 ELSE bs[1]
  IN  CASE Len(bs) = 1 -> top
        [] Len(bs) = 2 -> top * 256 + bs[2]
        [] Len(bs) = 4 -> ((top * 256 + bs[2]) * 256 + bs[3]) * 256 + bs[4]

\* tars_ntohll swaps the halves as well.
NetToHostLL(bs) == <<NetToHost(SubSeq(bs, 1, 4)), NetToHost(SubSeq(bs, 5, 8))>>

-----------------------------------------------------------------------------
(* TarsOutputStream.                                                       *)

TarsWriteToHead(type, tag) ==
  IF tag < 15 THEN <<type + tag * 16>> ELSE <<type + 240, tag>>

WriteChar(n, tag) ==
  IF n = 0 THEN TarsWriteToHead(eZeroTag, tag)
           ELSE TarsWriteToHead(eChar, tag) \o HostToNet(n, 1)

WriteShort(n, tag) ==
  IF n \in -128 .. 127 THEN WriteChar(n, tag)
                       ELSE TarsWriteToHead(eShort, tag) \o HostToNet(n, 2)

WriteInt32(n, tag) ==
  IF n >= -32768 /\ n <= 32767
  THEN WriteShort(n, tag)
  ELSE TarsWriteToHead(eInt32, tag) \o HostToNet(n, 4)

WriteInt64(p, tag) ==
  IF FitsInt32(p)
  THEN WriteInt32(p[2], tag)
  ELSE TarsWriteToHead(eInt64, tag) \o HostToNet(p[1], 4) \o HostToNet(p[2], 4)

\* write(Float), write(Double): no zero is left out here.
WriteReal(type, bytes, tag) == TarsWriteToHead(type, tag) \o bytes

\* Strings longer than TARS_MAX_STRING_LENGTH are refused with an exception;
\* none of the modelled ones is.
TARS_MAX_STRING_LENGTH == 100 * 1024 * 1024

WriteString(s, tag) ==
  IF Len(s) > 255
  THEN TarsWriteToHead(eString4, tag) \o HostToNet(Len(s), 4) \o s
  ELSE TarsWriteToHead(eString1, tag) \o HostToNet(Len(s), 1) \o s

-----------------------------------------------------------------------------
(* BufferReader: peeking is checked, TarsReadHeadSkip is not.              *)

Ok(v, cur) == [ex |-> "", v |-> v, cur |-> cur]
Throw(ex, cur) == [ex |-> ex, v |-> << >>, cur |-> cur]

\* The statements F after r, which an exception in r leaves out; and the same
\* in a try block, with its handler H.
Then(r, F(_, _)) == IF r.ex # "" THEN r ELSE F(r.v, r.cur)
TryCatch(r, F(_, _), H(_)) == IF r.ex # "" THEN H(r.cur) ELSE F(r.v, r.cur)

HasEnd(buf, cur) == cur >= Len(buf)

TarsPeek(buf, cur, k) ==
  IF cur + k > Len(buf) THEN Throw("Overflow", cur)
                        ELSE Ok(SubSeq(buf, cur + 1, cur + k), cur)

\* TarsReadTypeBuf, readBuf, TarsReadStringBuf: k bytes, and the cursor moves.
TarsReadBuf(buf, cur, k) ==
  Then(TarsPeek(buf, cur, k), LAMBDA b, c : Ok(b, c + k))

\* The next head: v is [type, tag, n], n the bytes it takes.
TarsPeekFromHead(buf, cur) ==
  LET header(b, tag, n) == [type |-> b % 16, tag |-> tag, n |-> n]
  IN  Then(TarsPeek(buf, cur, 1), LAMBDA b, c :
        IF b[1] \div 16 < 15 THEN Ok(header(b[1], b[1] \div 16, 1), c)
        ELSE Then(TarsPeek(buf, cur, 2), LAMBDA b2, c2 : Ok(header(b2[1], b2[2], 2), c2)))

\* The conversion to T after the read of its carrier.
Cast(T, p) ==
  CASE T.t = "Bool"   -> IF p[2] = 0 THEN I(0) ELSE I(1)
    [] T.t = "UInt8"  -> I(p[2] % 256)
    [] T.t = "UInt16" -> I(p[2] % 65536)
    [] T.t = "UInt32" -> <<0, p[2]>>
    [] OTHER          -> p

Number(type, b) == IF type = eInt64 THEN NetToHostLL(b) ELSE I(NetToHost(b))

ReadInteger(T, buf, cur, type) ==
  CASE type = eZeroTag -> Ok(I(0), cur)
    [] type \in eChar .. Carrier[T.t] ->
         Then(TarsReadBuf(buf, cur, SizeOf[type]), LAMBDA b, c : Ok(Cast(T, Number(type, b)), c))
    [] OTHER -> Throw("Mismatch", cur)

\* A float read as a double keeps its value: the bytes stand for the number,
\* and no bytes for 0.
ReadReal(T, buf, cur, type) ==
  CASE type = eZeroTag -> Ok(<< >>, cur)
    [] type = eFloat \/ (T.t = "double" /\ type = eDouble)
         -> TarsReadBuf(buf, cur, SizeOf[type])
    [] OTHER -> Throw("Mismatch", cur)

\* What follows the length of a string.
ReadChars(buf, len, cur) ==
  IF len < 0 \/ len > TARS_MAX_STRING_LENGTH THEN Throw("InvalidValue", cur)
                                             ELSE TarsReadBuf(buf, cur, len)

ReadString(buf, cur, type) ==
  CASE type = eString1 -> Then(TarsReadBuf(buf, cur, 1), LAMBDA b, c : ReadChars(buf, b[1], c))
    [] type = eString4 ->
         Then(TarsReadBuf(buf, cur, 4), LAMBDA b, c : ReadChars(buf, NetToHost(b), c))
    [] OTHER -> Throw("Mismatch", cur)
=============================================================================
