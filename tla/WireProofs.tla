----------------------------- MODULE WireProofs -----------------------------
(***************************************************************************)
(* Proofs about what travels between client and server: the scalars and    *)
(* the fields of the codec, the packets, and their framing.                *)
(***************************************************************************)
EXTENDS TarsProtocol, SequenceFacts

-----------------------------------------------------------------------------
(***************************************************************************)
(* The scalars of the codec.  Leaves with large numerals name SMT, since   *)
(* Zenon writes a numeral in unary.                                        *)
(***************************************************************************)

(* Division by 256, in the form the steps below use                        *)
LEMMA DivideByte ==
  ASSUME NEW n \in Int
  PROVE  /\ n \div 256 \in Int /\ n % 256 \in Int /\ 0 <= n % 256 /\ n % 256 <= 255
         /\ n = 256 * (n \div 256) + (n % 256)
BY SMT

(* A shift by 16 or by 24 bits is a shift by a byte, again and again.      *)
LEMMA DivideTwice ==
  ASSUME NEW n \in Int
  PROVE  /\ n \div 65536 = (n \div 256) \div 256
         /\ n \div 16777216 = ((n \div 256) \div 256) \div 256
<1>1. PICK q \in Int, r \in Int : q = n \div 256 /\ 0 <= r /\ r <= 255 /\ n = 256 * q + r
  BY DivideByte
<1>2. PICK p \in Int, s \in Int : p = q \div 256 /\ 0 <= s /\ s <= 255 /\ q = 256 * p + s
  BY DivideByte
<1>3. PICK o \in Int, u \in Int : o = p \div 256 /\ 0 <= u /\ u <= 255 /\ p = 256 * o + u
  BY DivideByte
<1> DEFINE x == 256 * s + r
           y == 65536 * u + x
<1>4. x \in Int /\ 0 <= x /\ x <= 65535 /\ n = 65536 * p + x
  BY <1>1, <1>2, SMT
<1>5. y \in Int /\ 0 <= y /\ y <= 16777215 /\ n = 16777216 * o + y
  BY <1>3, <1>4, SMT
<1> HIDE DEF x, y
<1>6. n \div 65536 = p
  BY <1>4, SMT
<1>7. n \div 16777216 = o
  BY <1>5, SMT
<1> QED BY <1>1, <1>2, <1>3, <1>6, <1>7

(* The sign of a number is that of its first byte.                         *)
Signed(b) == IF b >= 128 THEN b - 256 ELSE b

(* A byte read as a signed Char is the Char that was written.              *)
LEMMA SignedByte ==
  ASSUME NEW n \in Int, -128 <= n, n <= 127
  PROVE  Signed(n % 256) = n
BY SMT DEF Signed

Half == Int32Value

(* htons and htonl keep the number, in one, two or four bytes.             *)
LEMMA OneByte ==
  ASSUME NEW n \in Int, -128 <= n, n <= 127
  PROVE  /\ HostToNet(n, 1) \in Seq(WireByte) /\ Len(HostToNet(n, 1)) = 1
         /\ NetToHost(HostToNet(n, 1)) = n
<1> DEFINE b == HostToNet(n, 1)
<1>1. b = [i \in 1 .. 1 |-> (n \div Weight[4 - 1 + i]) % 256]
  BY DEF HostToNet
<1>2. Weight[4] = 1 /\ n \div 1 = n /\ 4 - 1 + 1 = 4
  BY SMT DEF Weight
<1>3. b[1] = n % 256
  BY <1>1, <1>2
<1>4. \A i \in 1 .. 1 : i = 1
  OBVIOUS
<1>5. n % 256 \in WireByte
  BY DivideByte DEF WireByte
<1>6. b \in [1 .. 1 -> WireByte]
  BY <1>1, <1>2, <1>4, <1>5
<1> HIDE DEF b
<1>7. b \in Seq(WireByte) /\ Len(b) = 1
  <2>1. 1 \in Nat
    OBVIOUS
  <2> QED BY ONLY <1>6, <2>1, BlockIs
<1>8. NetToHost(b) = Signed(b[1])
  BY <1>7 DEF NetToHost, Signed
<1> QED BY <1>3, <1>7, <1>8, SignedByte DEF b

(* htons, and ntohs of what it writes,                                     *)
LEMMA TwoBytes ==
  ASSUME NEW n \in Int, -32768 <= n, n <= 32767
  PROVE  /\ HostToNet(n, 2) \in Seq(WireByte) /\ Len(HostToNet(n, 2)) = 2
         /\ NetToHost(HostToNet(n, 2)) = n
<1> DEFINE b == HostToNet(n, 2)
<1>1. b = [i \in 1 .. 2 |-> (n \div Weight[4 - 2 + i]) % 256]
  BY DEF HostToNet
<1>2. /\ Weight[3] = 256 /\ Weight[4] = 1 /\ n \div 1 = n /\ 4 - 2 + 1 = 3 /\ 4 - 2 + 2 = 4
  BY SMT DEF Weight
<1>3. b[1] = (n \div 256) % 256 /\ b[2] = n % 256
  BY <1>1, <1>2
<1>4. \A i \in 1 .. 2 : i = 1 \/ i = 2
  OBVIOUS
<1>5. b[1] \in WireByte /\ b[2] \in WireByte
  BY <1>3, DivideByte DEF WireByte
<1>6. b \in [1 .. 2 -> WireByte]
  BY <1>1, <1>4, <1>5
<1> HIDE DEF b
<1>7. b \in Seq(WireByte) /\ Len(b) = 2
  <2>1. 2 \in Nat
    OBVIOUS
  <2> QED BY ONLY <1>6, <2>1, BlockIs
<1>8. NetToHost(b) = Signed(b[1]) * 256 + b[2]
  BY <1>7 DEF NetToHost, Signed
<1>9. PICK q \in Int, r \in Int :
         q = n \div 256 /\ r = n % 256 /\ 0 <= r /\ r <= 255 /\ n = 256 * q + r
  BY DivideByte
<1>10. -128 <= q /\ q <= 127
  BY <1>9, SMT
<1>11. Signed(b[1]) = q /\ b[2] = r
  BY <1>3, <1>9, <1>10, SignedByte
<1>12. Signed(b[1]) * 256 + b[2] = n
  BY <1>9, <1>11, SMT
<1> QED BY <1>7, <1>8, <1>12 DEF b

(* htonl, and ntohl of what it writes.                                     *)
LEMMA FourBytes ==
  ASSUME NEW n \in Half
  PROVE  /\ HostToNet(n, 4) \in Seq(WireByte) /\ Len(HostToNet(n, 4)) = 4
         /\ NetToHost(HostToNet(n, 4)) = n
<1> DEFINE b == HostToNet(n, 4)
<1>0. n \in Int /\ -2147483648 <= n /\ n <= 2147483647
  BY SMT DEF Half, Int32Value, Between
<1>1. b = [i \in 1 .. 4 |-> (n \div Weight[4 - 4 + i]) % 256]
  BY DEF HostToNet
<1>2. /\ Weight[1] = 16777216 /\ Weight[2] = 65536 /\ Weight[3] = 256 /\ Weight[4] = 1
      /\ n \div 1 = n
      /\ 4 - 4 + 1 = 1 /\ 4 - 4 + 2 = 2 /\ 4 - 4 + 3 = 3 /\ 4 - 4 + 4 = 4
  BY <1>0, SMT DEF Weight
<1>3. /\ b[1] = (n \div 16777216) % 256 /\ b[2] = (n \div 65536) % 256
      /\ b[3] = (n \div 256) % 256 /\ b[4] = n % 256
  BY <1>1, <1>2, SMT
<1>4. \A i \in 1 .. 4 : i = 1 \/ i = 2 \/ i = 3 \/ i = 4
  OBVIOUS
<1>5. PICK q \in Int, r \in Int :
         q = n \div 256 /\ r = n % 256 /\ 0 <= r /\ r <= 255 /\ n = 256 * q + r
  BY <1>0, DivideByte
<1>6. PICK p \in Int, s \in Int :
         p = q \div 256 /\ s = q % 256 /\ 0 <= s /\ s <= 255 /\ q = 256 * p + s
  BY DivideByte
<1>7. PICK o \in Int, u \in Int :
         o = p \div 256 /\ u = p % 256 /\ 0 <= u /\ u <= 255 /\ p = 256 * o + u
  BY DivideByte
<1>8. n \div 65536 = p /\ n \div 16777216 = o
  BY <1>0, <1>5, <1>6, <1>7, DivideTwice, SMT
<1>9. b[1] = o % 256 /\ b[2] = u /\ b[3] = s /\ b[4] = r
  BY <1>3, <1>5, <1>6, <1>7, <1>8, SMT
<1>10. o % 256 \in WireByte /\ u \in WireByte /\ s \in WireByte /\ r \in WireByte
  BY <1>5, <1>6, <1>7, DivideByte DEF WireByte
<1>11. b \in [1 .. 4 -> WireByte]
  <2> SUFFICES ASSUME NEW i \in 1 .. 4 PROVE b[i] \in WireByte
    BY <1>1
  <2> HIDE DEF b
  <2> QED BY <1>4, <1>9, <1>10
<1> HIDE DEF b
<1>12. b \in Seq(WireByte) /\ Len(b) = 4
  <2>1. 4 \in Nat
    OBVIOUS
  <2> QED BY ONLY <1>11, <2>1, BlockIs
<1>13. NetToHost(b) = ((Signed(b[1]) * 256 + b[2]) * 256 + b[3]) * 256 + b[4]
  BY <1>12 DEF NetToHost, Signed
<1>14. -128 <= o /\ o <= 127
  BY <1>0, <1>5, <1>6, <1>7, SMT
<1>15. Signed(b[1]) = o
  BY <1>9, <1>14, SignedByte
<1>16. ((o * 256 + u) * 256 + s) * 256 + r = n
  BY <1>5, <1>6, <1>7, SMT
<1> QED BY <1>9, <1>12, <1>13, <1>15, <1>16 DEF b

(* The bytes s are what buf holds at cur.                                  *)
Lies(buf, cur, s) ==
    /\ buf \in Seq(WireByte) /\ cur \in Nat /\ cur + Len(s) <= Len(buf)
    /\ \A i \in 1 .. Len(s) : buf[cur + i] = s[i]

(* Where a text lies, its two parts lie one behind the other.              *)
LEMMA LiesParts ==
  ASSUME NEW s \in Seq(WireByte), NEW t \in Seq(WireByte), NEW buf, NEW cur, Lies(buf, cur, s \o t)
  PROVE  Lies(buf, cur, s) /\ Lies(buf, cur + Len(s), t)
<1> DEFINE m == Len(s)
           n == Len(t)
<1>1. /\ m \in Nat /\ n \in Nat /\ buf \in Seq(WireByte) /\ cur \in Nat /\ Len(buf) \in Nat
      /\ Len(s \o t) = m + n /\ cur + (m + n) <= Len(buf)
      /\ \A i \in 1 .. m + n : (s \o t)[i] = IF i <= m THEN s[i] ELSE t[i - m]
      /\ \A i \in 1 .. m + n : buf[cur + i] = (s \o t)[i]
  BY ConcatProperties, LenProperties DEF Lies
<1>2. ASSUME NEW i \in 1 .. m PROVE buf[cur + i] = s[i]
  <2>1. i \in 1 .. m + n /\ i <= m
    BY <1>1
  <2> QED BY <1>1, <2>1
<1>3. ASSUME NEW i \in 1 .. n PROVE buf[(cur + m) + i] = t[i]
  <2>1. m + i \in 1 .. m + n /\ ~(m + i <= m) /\ (m + i) - m = i /\ (cur + m) + i = cur + (m + i)
    BY <1>1
  <2>2. buf[cur + (m + i)] = (s \o t)[m + i] /\ (s \o t)[m + i] = t[(m + i) - m]
    BY <1>1, <2>1
  <2> QED BY <2>1, <2>2
<1>4. cur + m <= Len(buf) /\ (cur + m) + n <= Len(buf) /\ cur + m \in Nat
  BY <1>1
<1> QED BY <1>1, <1>2, <1>3, <1>4 DEF Lies

(* What lies in the buffer is what a read of that length returns.          *)
LEMMA LyingIsRead ==
  ASSUME NEW s \in Seq(WireByte), NEW buf, NEW cur, Lies(buf, cur, s)
  PROVE  /\ SubSeq(buf, cur + 1, cur + Len(s)) = s /\ ~(cur + Len(s) > Len(buf))
         /\ TarsReadBuf(buf, cur, Len(s)) = Ok(s, cur + Len(s))
<1> DEFINE k == Len(s)
<1> DEFINE p == SubSeq(buf, cur + 1, cur + k)
<1>1. /\ k \in Nat /\ cur \in Nat /\ Len(buf) \in Nat /\ cur + k <= Len(buf)
      /\ \A i \in 1 .. Len(buf) : buf[i] \in WireByte
      /\ \A i \in 1 .. k : buf[cur + i] = s[i]
  BY LenProperties, ElementOfSeq DEF Lies
<1>2. /\ cur + 1 \in Int /\ cur + k \in Int /\ \A i \in cur + 1 .. cur + k : buf[i] \in WireByte
      /\ (cur + k) - (cur + 1) + 1 = k /\ (cur + 1 <= cur + k \/ k = 0)
      /\ \A i \in 1 .. k : cur + 1 + i - 1 = cur + i
  BY <1>1
<1>3. /\ p \in Seq(WireByte)
      /\ Len(p) = IF cur + 1 <= cur + k THEN (cur + k) - (cur + 1) + 1 ELSE 0
      /\ \A i \in 1 .. (cur + k) - (cur + 1) + 1 : p[i] = buf[cur + 1 + i - 1]
  BY <1>2, SubSeqProperties
<1> HIDE DEF p
<1>4. Len(p) = k
  BY <1>1, <1>2, <1>3
<1>5. \A i \in 1 .. Len(p) : p[i] = s[i]
  BY <1>1, <1>2, <1>3, <1>4
<1>6. p = s
  BY <1>3, <1>4, <1>5, SeqEqual
<1>7. ~(cur + k > Len(buf))
  BY <1>1
<1>8. TarsReadBuf(buf, cur, k) = Ok(s, cur + k)
  <2> HIDE DEF k
  <2> QED BY <1>6, <1>7 DEF TarsReadBuf, TarsPeek, Then, Ok, Throw, p
<1> QED BY <1>6, <1>7, <1>8 DEF p

HeadType == 0 .. 13
Tag == 0 .. 255

(* A head is read as it was written, in one byte or two.                   *)
LEMMA HeadIsRead ==
  ASSUME NEW type \in HeadType, NEW tag \in Tag
  PROVE  LET w == TarsWriteToHead(type, tag)
         IN  /\ w \in Seq(WireByte) /\ Len(w) \in {1, 2}
             /\ \A buf, cur : Lies(buf, cur, w) =>
                  TarsPeekFromHead(buf, cur) = Ok([type |-> type, tag |-> tag, n |-> Len(w)], cur)
<1> DEFINE w == TarsWriteToHead(type, tag)
<1>0. type \in Int /\ 0 <= type /\ type <= 13 /\ tag \in Int /\ 0 <= tag /\ tag <= 255
  BY DEF HeadType, Tag
<1>1. CASE tag < 15
  <2> DEFINE b == type + tag * 16
  <2>1. b \in WireByte /\ b % 16 = type /\ b \div 16 = tag
    BY <1>0, <1>1, SMT DEF WireByte
  <2> HIDE DEF b
  <2>2. w = <<b>>
    BY <1>1 DEF TarsWriteToHead, b
  <2>3. w \in Seq(WireByte) /\ Len(w) = 1 /\ w[1] = b
    BY <2>1, <2>2
  <2> HIDE DEF w
  <2>4. ASSUME NEW buf, NEW cur, Lies(buf, cur, w)
        PROVE  TarsPeekFromHead(buf, cur) = Ok([type |-> type, tag |-> tag, n |-> 1], cur)
    <3>1. SubSeq(buf, cur + 1, cur + 1) = w /\ ~(cur + 1 > Len(buf))
      BY <2>3, <2>4, LyingIsRead
    <3>2. w[1] \div 16 < 15
      BY <1>1, <2>1, <2>3
    <3> QED BY <2>1, <2>3, <3>1, <3>2 DEF TarsPeekFromHead, TarsPeek, Then, Ok, Throw
  <2> QED BY <2>3, <2>4 DEF w
<1>2. CASE ~(tag < 15)
  <2> DEFINE b == type + 240
  <2>1. b \in WireByte /\ b % 16 = type /\ b \div 16 = 15 /\ tag \in WireByte
    BY <1>0, SMT DEF WireByte
  <2> HIDE DEF b
  <2>2. w = <<b, tag>>
    BY <1>2 DEF TarsWriteToHead, b
  <2>3. w \in Seq(WireByte) /\ Len(w) = 2 /\ w[1] = b /\ w[2] = tag
    BY <2>1, <2>2
  <2>4. <<b>> \in Seq(WireByte) /\ <<tag>> \in Seq(WireByte) /\ w = <<b>> \o <<tag>>
        /\ Len(<<b>>) = 1 /\ <<b>>[1] = b
    BY <2>1, <2>2
  <2> HIDE DEF w
  <2>5. ASSUME NEW buf, NEW cur, Lies(buf, cur, w)
        PROVE  TarsPeekFromHead(buf, cur) = Ok([type |-> type, tag |-> tag, n |-> 2], cur)
    <3>1. SubSeq(buf, cur + 1, cur + 2) = w /\ ~(cur + 2 > Len(buf))
      BY <2>3, <2>5, LyingIsRead
    <3>2. Lies(buf, cur, <<b>>)
      BY <2>4, <2>5, LiesParts
    <3>3. SubSeq(buf, cur + 1, cur + 1) = <<b>> /\ ~(cur + 1 > Len(buf))
      BY <2>4, <3>2, LyingIsRead
    <3>4. ~(b \div 16 < 15)
      BY <2>1
    <3> QED BY <2>1, <2>3, <2>4, <3>1, <3>3, <3>4
            DEF TarsPeekFromHead, TarsPeek, Then, Ok, Throw
  <2> QED BY <2>3, <2>5 DEF w
<1> QED BY <1>1, <1>2

(* The values of the integer types: those a byte, two bytes and so on can  *)
(* hold, in halves.                                                        *)
IntegersOf(t) ==
  CASE t = "Bool"   -> {I(n) : n \in Between(0, 1)}
    [] t = "Char"   -> {I(n) : n \in Between(-128, 127)}
    [] t = "UInt8"  -> {I(n) : n \in Between(0, 255)}
    [] t = "Short"  -> {I(n) : n \in Between(-32768, 32767)}
    [] t = "UInt16" -> {I(n) : n \in Between(0, 65535)}
    [] t = "Int32"  -> {I(n) : n \in Half}
    [] t = "UInt32" -> {<<0, lo>> : lo \in Half}
    [] t = "Int64"  -> {<<hi, lo>> : hi \in Half, lo \in Half}

(* The head type and the bytes behind it by which n is written.            *)
Small(type, b, n) ==
    /\ b \in Seq(WireByte)
    /\ \/ type = eZeroTag /\ b = << >> /\ n = 0
       \/ type \in {eChar, eShort, eInt32} /\ Len(b) = SizeOf[type] /\ NetToHost(b) = n
    /\ n \in Between(-128, 127) => type \in {eZeroTag, eChar}
    /\ n \in Between(-32768, 32767) => type \in {eZeroTag, eChar, eShort}

(* How many bytes each type of the wire takes.                             *)
LEMMA Sizes ==
  /\ SizeOf[eChar] = 1 /\ SizeOf[eShort] = 2 /\ SizeOf[eInt32] = 4 /\ SizeOf[eInt64] = 8
  /\ SizeOf[eFloat] = 4 /\ SizeOf[eDouble] = 8
BY DEF SizeOf, eChar, eShort, eInt32, eInt64, eFloat, eDouble

(* An integer is written with the fewest bytes that hold it.               *)
LEMMA SmallForm ==
  ASSUME NEW n \in Half, NEW tag \in Tag
  PROVE  \E type \in HeadType, b \in Seq(WireByte) :
           WriteInt32(n, tag) = TarsWriteToHead(type, tag) \o b /\ Small(type, b, n)
<1>0. n \in Int
  BY SMT DEF Half, Int32Value, Between
<1>1. /\ eChar \in HeadType /\ eShort \in HeadType /\ eInt32 \in HeadType /\ eZeroTag \in HeadType
  BY DEF eChar, eShort, eInt32, eZeroTag, HeadType
<1>2. CASE n = 0
  <2>1. WriteInt32(n, tag) = TarsWriteToHead(eZeroTag, tag)
    BY <1>2, SMT DEF WriteInt32, WriteShort, WriteChar
  <2>2. TarsWriteToHead(eZeroTag, tag) \o << >> = TarsWriteToHead(eZeroTag, tag)
    BY <1>1, HeadIsRead, ConcatEmptySeq
  <2>3. << >> \in Seq(WireByte)
    BY EmptySeq
  <2>4. Small(eZeroTag, << >>, n)
    BY <1>2, <2>3 DEF Small
  <2> QED BY <1>1, <2>1, <2>2, <2>3, <2>4
<1>3. CASE n # 0 /\ n \in Between(-128, 127)
  <2>1. -128 <= n /\ n <= 127
    BY <1>3 DEF Between
  <2>2. WriteInt32(n, tag) = TarsWriteToHead(eChar, tag) \o HostToNet(n, 1)
    BY <1>0, <1>3, <2>1, SMT DEF WriteInt32, WriteShort, WriteChar
  <2>3. Small(eChar, HostToNet(n, 1), n)
    BY <1>0, <2>1, OneByte, Sizes DEF Small
  <2>4. HostToNet(n, 1) \in Seq(WireByte)
    BY <1>0, <2>1, OneByte
  <2> QED BY <1>1, <2>2, <2>3, <2>4
<1>4. CASE n \notin Between(-128, 127) /\ n \in Between(-32768, 32767)
  <2>1. -32768 <= n /\ n <= 32767 /\ ~(-128 <= n /\ n <= 127)
    BY <1>0, <1>4 DEF Between
  <2>2. WriteInt32(n, tag) = TarsWriteToHead(eShort, tag) \o HostToNet(n, 2)
    <3>1. n \notin -128 .. 127
      BY <1>0, <2>1, SMT
    <3>2. n >= -32768 /\ n <= 32767
      BY <1>0, <2>1, SMT
    <3>3. WriteInt32(n, tag) = WriteShort(n, tag)
      BY <3>2 DEF WriteInt32
    <3> QED BY <3>1, <3>3 DEF WriteShort
  <2>3. Small(eShort, HostToNet(n, 2), n)
    BY <1>0, <1>4, <2>1, TwoBytes, Sizes DEF Small
  <2>4. HostToNet(n, 2) \in Seq(WireByte)
    BY <1>0, <2>1, TwoBytes
  <2> QED BY <1>1, <2>2, <2>3, <2>4
<1>5. CASE n \notin Between(-128, 127) /\ n \notin Between(-32768, 32767)
  <2>1. ~(n >= -32768 /\ n <= 32767)
    BY <1>0, <1>5 DEF Between
  <2>2. WriteInt32(n, tag) = TarsWriteToHead(eInt32, tag) \o HostToNet(n, 4)
    BY <2>1 DEF WriteInt32
  <2>3. Small(eInt32, HostToNet(n, 4), n)
    BY <1>5, FourBytes, Sizes DEF Small
  <2>4. HostToNet(n, 4) \in Seq(WireByte)
    BY FourBytes
  <2> QED BY <1>1, <2>2, <2>3, <2>4
<1>6. n = 0 => n \in Between(-128, 127)
  BY DEF Between
<1> QED BY <1>2, <1>3, <1>4, <1>5, <1>6

(* What the reader of type T finds: a head its carrier admits, and bytes   *)
(* that give p.                                                            *)
Form(T, type, b, p) ==
    /\ b \in Seq(WireByte)
    /\ \/ type = eZeroTag /\ b = << >> /\ p = I(0)
       \/ /\ type \in eChar .. Carrier[T.t] /\ Len(b) = SizeOf[type]
          /\ p = IF type = eInt64 THEN NetToHostLL(b) ELSE I(NetToHost(b))

(* The type of the wire as which each integer type is read.                *)
LEMMA CarrierIs ==
  /\ Carrier["Bool"] = eChar /\ Carrier["Char"] = eChar /\ Carrier["UInt8"] = eShort
  /\ Carrier["Short"] = eShort /\ Carrier["UInt16"] = eInt32 /\ Carrier["Int32"] = eInt32
  /\ Carrier["UInt32"] = eInt64 /\ Carrier["Int64"] = eInt64
  /\ DOMAIN Carrier = {"Bool", "Char", "UInt8", "Short", "UInt16", "Int32", "UInt32", "Int64"}
BY DEF Carrier

(* Eight bytes are two halves.                                             *)
LEMMA EightBytes ==
  ASSUME NEW hi \in Half, NEW lo \in Half
  PROVE  LET b == HostToNet(hi, 4) \o HostToNet(lo, 4)
         IN  b \in Seq(WireByte) /\ Len(b) = 8 /\ NetToHostLL(b) = <<hi, lo>>
<1> DEFINE x == HostToNet(hi, 4)
           y == HostToNet(lo, 4)
           b == x \o y
<1>1. /\ x \in Seq(WireByte) /\ Len(x) = 4 /\ NetToHost(x) = hi
      /\ y \in Seq(WireByte) /\ Len(y) = 4 /\ NetToHost(y) = lo
  BY FourBytes
<1> HIDE DEF x, y
<1>2. /\ b \in Seq(WireByte) /\ Len(b) = 8
      /\ \A i \in 1 .. 8 : b[i] = IF i <= 4 THEN x[i] ELSE y[i - 4]
  <2>1. /\ x \o y \in Seq(WireByte) /\ Len(x \o y) = Len(x) + Len(y)
        /\ \A i \in 1 .. Len(x) + Len(y) :
             (x \o y)[i] = IF i <= Len(x) THEN x[i] ELSE y[i - Len(x)]
    BY <1>1, ConcatProperties
  <2>2. Len(x) + Len(y) = 8
    BY <1>1
  <2> QED BY <1>1, <2>1, <2>2
<1> HIDE DEF b
<1>3. \A i \in 1 .. 8 : b[i] \in WireByte
  BY <1>2, ElementOfSeq
<1>4. SubSeq(b, 1, 4) = x
  <2>1. \A i \in 1 .. 4 : b[i] \in WireByte
    BY <1>3
  <2>2. /\ SubSeq(b, 1, 4) \in Seq(WireByte) /\ Len(SubSeq(b, 1, 4)) = 4
        /\ \A i \in 1 .. 4 : SubSeq(b, 1, 4)[i] = b[1 + i - 1]
    BY <2>1, SubSeqProperties
  <2>3. \A i \in 1 .. 4 : 1 + i - 1 = i /\ i \in 1 .. 8 /\ i <= 4
    OBVIOUS
  <2>4. \A i \in 1 .. 4 : SubSeq(b, 1, 4)[i] = x[i]
    BY <1>2, <2>2, <2>3
  <2> QED BY <1>1, <2>2, <2>4, SeqEqual
<1>5. SubSeq(b, 5, 8) = y
  <2>1. \A i \in 5 .. 8 : b[i] \in WireByte
    BY <1>3
  <2>2. /\ SubSeq(b, 5, 8) \in Seq(WireByte) /\ Len(SubSeq(b, 5, 8)) = 4
        /\ \A i \in 1 .. 4 : SubSeq(b, 5, 8)[i] = b[5 + i - 1]
    BY <2>1, SubSeqProperties
  <2>3. \A i \in 1 .. 4 : 5 + i - 1 \in 1 .. 8 /\ ~(5 + i - 1 <= 4) /\ (5 + i - 1) - 4 = i
    OBVIOUS
  <2>4. \A i \in 1 .. 4 : SubSeq(b, 5, 8)[i] = y[i]
    BY <1>2, <2>2, <2>3
  <2> QED BY <1>1, <2>2, <2>4, SeqEqual
<1>6. NetToHostLL(b) = <<hi, lo>>
  BY <1>1, <1>4, <1>5 DEF NetToHostLL
<1> QED BY <1>2, <1>6 DEF b, x, y

(* The values of the types up to 32 bits are in the lower half, and how    *)
(* many bytes the carrier of the type has is enough for them.              *)
LEMMA LowerHalf ==
  ASSUME NEW t \in DOMAIN Carrier, NEW p \in IntegersOf(t)
  PROVE  /\ p[1] \in Half /\ p[2] \in Half /\ p = <<p[1], p[2]>>
         /\ Carrier[t] = eChar => p[2] \in Between(-128, 127)
         /\ Carrier[t] = eShort => p[2] \in Between(-32768, 32767)
         /\ Carrier[t] # eInt64 => p = I(p[2])
         /\ t = "UInt32" => p[1] = 0
<1> DEFINE Fits(a, c) == \A n \in Between(a, c) : n \in Int /\ a <= n /\ n <= c
<1>1. /\ t \in {"Bool", "Char", "UInt8", "Short", "UInt16", "Int32", "UInt32", "Int64"}
      /\ eChar # eShort /\ eChar # eInt32 /\ eChar # eInt64 /\ eShort # eInt32
      /\ eShort # eInt64 /\ eInt32 # eInt64
  BY CarrierIs DEF eChar, eShort, eInt32, eInt64
<1>2. ASSUME NEW n \in Half, p = I(n)
      PROVE  p[1] \in Half /\ p[2] = n /\ p = <<p[1], p[2]>> /\ p = I(p[2])
  <2>1. -1 \in Half /\ 0 \in Half
    BY SMT DEF Half, Int32Value, Between
  <2> QED BY <1>2, <2>1 DEF I
<1>3. CASE t = "Bool"
  <2>1. PICK n \in Between(0, 1) : p = I(n)
    BY <1>3 DEF IntegersOf
  <2>2. n \in Half /\ n \in Between(-128, 127)
    BY SMT DEF Between, Half, Int32Value
  <2> QED BY <1>1, <1>2, <1>3, <2>1, <2>2, CarrierIs
<1>4. CASE t = "Char"
  <2>1. PICK n \in Between(-128, 127) : p = I(n)
    BY <1>4 DEF IntegersOf
  <2>2. n \in Half
    BY SMT DEF Between, Half, Int32Value
  <2> QED BY <1>1, <1>2, <1>4, <2>1, <2>2, CarrierIs
<1>5. CASE t = "UInt8"
  <2>1. PICK n \in Between(0, 255) : p = I(n)
    BY <1>5 DEF IntegersOf
  <2>2. n \in Half /\ n \in Between(-32768, 32767)
    BY SMT DEF Between, Half, Int32Value
  <2> QED BY <1>1, <1>2, <1>5, <2>1, <2>2, CarrierIs
<1>6. CASE t = "Short"
  <2>1. PICK n \in Between(-32768, 32767) : p = I(n)
    BY <1>6 DEF IntegersOf
  <2>2. n \in Half
    BY SMT DEF Between, Half, Int32Value
  <2> QED BY <1>1, <1>2, <1>6, <2>1, <2>2, CarrierIs
<1>7. CASE t = "UInt16"
  <2>1. PICK n \in Between(0, 65535) : p = I(n)
    BY <1>7 DEF IntegersOf
  <2>2. n \in Half
    BY SMT DEF Between, Half, Int32Value
  <2> QED BY <1>1, <1>2, <1>7, <2>1, <2>2, CarrierIs
<1>8. CASE t = "Int32"
  <2>1. PICK n \in Half : p = I(n)
    BY <1>8 DEF IntegersOf
  <2> QED BY <1>1, <1>2, <1>8, <2>1, CarrierIs
<1>9. CASE t = "UInt32"
  <2>1. PICK lo \in Half : p = <<0, lo>>
    BY <1>9 DEF IntegersOf
  <2>2. 0 \in Half
    BY SMT DEF Half, Int32Value, Between
  <2>3. p[1] = 0 /\ p[2] = lo
    BY <2>1
  <2> QED BY <1>1, <1>9, <2>1, <2>2, <2>3, CarrierIs
<1>10. CASE t = "Int64"
  <2>1. PICK hi \in Half, lo \in Half : p = <<hi, lo>>
    BY <1>10 DEF IntegersOf
  <2>2. p[1] = hi /\ p[2] = lo
    BY <2>1
  <2> QED BY <1>1, <1>10, <2>1, <2>2, CarrierIs
<1> QED BY <1>1, <1>3, <1>4, <1>5, <1>6, <1>7, <1>8, <1>9, <1>10

(* Every integer is written in a form the reader of its type accepts.      *)
LEMMA IntegerForm ==
  ASSUME NEW T, IsInteger(T), NEW p \in IntegersOf(T.t), NEW tag \in Tag
  PROVE  \E type \in HeadType, b \in Seq(WireByte) :
           WriteInt64(p, tag) = TarsWriteToHead(type, tag) \o b /\ Form(T, type, b, p)
<1> DEFINE t == T.t
<1>1. t \in DOMAIN Carrier
  BY DEF IsInteger
<1>2. /\ p[1] \in Half /\ p[2] \in Half /\ p = <<p[1], p[2]>>
      /\ Carrier[t] = eChar => p[2] \in Between(-128, 127)
      /\ Carrier[t] = eShort => p[2] \in Between(-32768, 32767)
      /\ Carrier[t] # eInt64 => p = I(p[2])
  BY <1>1, LowerHalf
<1>3. Carrier[t] \in {eChar, eShort, eInt32, eInt64}
  BY <1>1, CarrierIs
<1>4. FitsInt32(p) <=> p = I(p[2])
  <2>1. I(p[2])[1] = (IF p[2] < 0 THEN -1 ELSE 0) /\ I(p[2]) = <<IF p[2] < 0 THEN -1 ELSE 0, p[2]>>
    BY DEF I
  <2> QED BY <1>2, <2>1 DEF FitsInt32
<1> HIDE DEF t
<1>5. CASE FitsInt32(p)
  <2>1. PICK type \in HeadType, b \in Seq(WireByte) :
          WriteInt32(p[2], tag) = TarsWriteToHead(type, tag) \o b /\ Small(type, b, p[2])
    BY <1>2, SmallForm
  <2>2. WriteInt64(p, tag) = TarsWriteToHead(type, tag) \o b
    BY <1>5, <2>1 DEF WriteInt64
  <2>3. type = eZeroTag => b = << >> /\ p = I(0)
    <3>1. eZeroTag \notin {eChar, eShort, eInt32}
      BY DEF eZeroTag, eChar, eShort, eInt32
    <3> QED BY <1>4, <1>5, <2>1, <3>1 DEF Small
  <2>4. ASSUME type # eZeroTag
        PROVE  /\ type \in eChar .. Carrier[t] /\ Len(b) = SizeOf[type]
               /\ type # eInt64 /\ p = I(NetToHost(b))
    <3>1. /\ type \in {eChar, eShort, eInt32} /\ Len(b) = SizeOf[type] /\ NetToHost(b) = p[2]
          /\ p[2] \in Between(-128, 127) => type = eChar
          /\ p[2] \in Between(-32768, 32767) => type \in {eChar, eShort}
      BY <2>1, <2>4 DEF Small
    <3>2. type \in eChar .. Carrier[t]
      BY <1>2, <1>3, <3>1 DEF eChar, eShort, eInt32, eInt64
    <3>3. type # eInt64
      BY <3>1 DEF eChar, eShort, eInt32, eInt64
    <3> QED BY <1>4, <1>5, <3>1, <3>2, <3>3
  <2>5. Form(T, type, b, p)
    BY <2>1, <2>3, <2>4 DEF Form, t
  <2> QED BY <2>2, <2>5
<1>6. CASE ~FitsInt32(p)
  <2> DEFINE x == HostToNet(p[1], 4)
             y == HostToNet(p[2], 4)
             h == TarsWriteToHead(eInt64, tag)
  <2>1. WriteInt64(p, tag) = (h \o x) \o y
    BY <1>6 DEF WriteInt64
  <2>2. eInt64 \in HeadType /\ h \in Seq(WireByte) /\ x \in Seq(WireByte) /\ y \in Seq(WireByte)
    <3>1. eInt64 \in HeadType
      BY DEF eInt64, HeadType
    <3>2. h \in Seq(WireByte)
      BY <3>1, HeadIsRead
    <3>3. x \in Seq(WireByte) /\ y \in Seq(WireByte)
      BY <1>2, FourBytes
    <3> QED BY <3>1, <3>2, <3>3
  <2>3. (h \o x) \o y = h \o (x \o y)
    <3> HIDE DEF h, x, y
    <3> QED BY <2>2, ConcatAssociative
  <2>4. x \o y \in Seq(WireByte) /\ Len(x \o y) = 8 /\ NetToHostLL(x \o y) = <<p[1], p[2]>>
    BY <1>2, EightBytes
  <2>5. Carrier[t] = eInt64
    BY <1>2, <1>4, <1>6
  <2>6. eInt64 \in eChar .. eInt64
    BY DEF eInt64, eChar
  <2>7. Form(T, eInt64, x \o y, p)
    <3> HIDE DEF x, y
    <3> QED BY <1>2, <2>4, <2>5, <2>6, Sizes DEF Form, t
  <2> HIDE DEF x, y, h
  <2> QED BY <2>1, <2>2, <2>3, <2>4, <2>7 DEF h
<1> QED BY <1>5, <1>6

(* The conversions after the read do not change a value of their type.     *)
LEMMA CastIs ==
  ASSUME NEW T, IsInteger(T), NEW p \in IntegersOf(T.t)
  PROVE  Cast(T, p) = p
<1> DEFINE t == T.t
<1>1. CASE t = "Bool"
  <2>1. PICK n \in Between(0, 1) : p = I(n)
    BY <1>1 DEF IntegersOf
  <2>2. n = 0 \/ n = 1
    BY DEF Between
  <2>3. p[2] = n
    BY <2>1 DEF I
  <2> QED BY <1>1, <2>1, <2>2, <2>3 DEF Cast
<1>2. CASE t = "UInt8"
  <2>1. PICK n \in Between(0, 255) : p = I(n)
    BY <1>2 DEF IntegersOf
  <2>2. n % 256 = n
    BY SMT DEF Between
  <2>3. p[2] = n
    BY <2>1 DEF I
  <2>4. I(p[2] % 256) = p
    BY <2>1, <2>2, <2>3
  <2> QED BY <1>2, <2>4 DEF Cast
<1>3. CASE t = "UInt16"
  <2>1. PICK n \in Between(0, 65535) : p = I(n)
    BY <1>3 DEF IntegersOf
  <2>2. n % 65536 = n
    BY SMT DEF Between
  <2>3. p[2] = n
    BY <2>1 DEF I
  <2>4. I(p[2] % 65536) = p
    BY <2>1, <2>2, <2>3, SMT
  <2> QED BY <1>3, <2>4, SMT DEF Cast
<1>4. CASE t = "UInt32"
  <2>1. "UInt32" \in DOMAIN Carrier
    BY CarrierIs
  <2>2. p = <<p[1], p[2]>> /\ p[1] = 0
    BY <1>4, <2>1, LowerHalf
  <2> QED BY <1>4, <2>2, SMT DEF Cast
<1>5. CASE t \notin {"Bool", "UInt8", "UInt16", "UInt32"}
  BY <1>5, SMT DEF Cast
<1> QED BY <1>1, <1>2, <1>3, <1>4, <1>5

(* Every form in which an integer is written is read back as the integer.  *)
LEMMA FormIsRead ==
  ASSUME NEW T, IsInteger(T), NEW p \in IntegersOf(T.t), NEW type, NEW b, Form(T, type, b, p),
         NEW buf, NEW cur, Lies(buf, cur, b)
  PROVE  ReadInteger(T, buf, cur, type) = Ok(p, cur + Len(b))
<1>0. Carrier[T.t] \in {eChar, eShort, eInt32, eInt64}
  BY CarrierIs DEF IsInteger
<1>1. CASE type = eZeroTag /\ b = << >> /\ p = I(0)
  <2>1. cur + Len(b) = cur
    BY <1>1 DEF Lies
  <2>2. eZeroTag \notin eChar .. Carrier[T.t]
    BY <1>0 DEF eChar, eShort, eInt32, eInt64, eZeroTag
  <2>3. ReadInteger(T, buf, cur, eZeroTag) = Ok(I(0), cur)
    BY <2>2 DEF ReadInteger, TarsReadBuf, TarsPeek, Then, Ok, Throw
  <2> QED BY <1>1, <2>1, <2>3
<1>2. CASE /\ type \in eChar .. Carrier[T.t] /\ Len(b) = SizeOf[type]
           /\ p = IF type = eInt64 THEN NetToHostLL(b) ELSE I(NetToHost(b))
  <2>1. type # eZeroTag
    BY <1>0, <1>2 DEF eChar, eShort, eInt32, eInt64, eZeroTag
  <2>2. SubSeq(buf, cur + 1, cur + SizeOf[type]) = b /\ ~(cur + SizeOf[type] > Len(buf))
    BY <1>2, LyingIsRead DEF Form
  <2>3. Cast(T, Number(type, b)) = p
    BY <1>2, CastIs DEF Number
  <2>4. ReadInteger(T, buf, cur, type) =
          Ok(Cast(T, Number(type, b)), cur + SizeOf[type])
    BY <1>2, <2>1, <2>2 DEF ReadInteger, TarsReadBuf, TarsPeek, Then, Ok, Throw
  <2> QED BY <1>2, <2>3, <2>4
<1> QED BY <1>1, <1>2 DEF Form

(* Every integer of every type, written under any tag anywhere in a        *)
(* buffer, is read back: the head shows its tag, the reader of its type    *)
(* accepts the narrower head under which it may have been written, gives   *)
(* the same value, and leaves the cursor behind it.                        *)
THEOREM IntegerReadBack ==
  ASSUME NEW T, IsInteger(T), NEW p \in IntegersOf(T.t), NEW tag \in Tag,
         NEW buf, NEW cur, Lies(buf, cur, WriteInt64(p, tag))
  PROVE  \E type \in HeadType, n \in {1, 2} :
           /\ TarsPeekFromHead(buf, cur) = Ok([type |-> type, tag |-> tag, n |-> n], cur)
           /\ ReadInteger(T, buf, cur + n, type) = Ok(p, cur + Len(WriteInt64(p, tag)))
<1>1. PICK type \in HeadType, b \in Seq(WireByte) :
        WriteInt64(p, tag) = TarsWriteToHead(type, tag) \o b /\ Form(T, type, b, p)
  BY IntegerForm
<1> DEFINE h == TarsWriteToHead(type, tag)
<1>2. /\ h \in Seq(WireByte) /\ Len(h) \in {1, 2}
      /\ \A f, c : Lies(f, c, h) =>
           TarsPeekFromHead(f, c) = Ok([type |-> type, tag |-> tag, n |-> Len(h)], c)
  BY HeadIsRead
<1>3. WriteInt64(p, tag) = h \o b
  BY <1>1
<1> HIDE DEF h
<1>4. Lies(buf, cur, h) /\ Lies(buf, cur + Len(h), b)
  BY <1>2, <1>3, LiesParts
<1>5. ReadInteger(T, buf, cur + Len(h), type) = Ok(p, (cur + Len(h)) + Len(b))
  BY <1>1, <1>4, FormIsRead
<1>6. (cur + Len(h)) + Len(b) = cur + Len(h \o b)
  <2>1. Len(h \o b) = Len(h) + Len(b) /\ Len(h) \in Nat /\ Len(b) \in Nat
    BY <1>2, ConcatProperties, LenProperties
  <2>2. cur \in Nat
    BY <1>4 DEF Lies
  <2> QED BY <2>1, <2>2
<1> QED BY <1>2, <1>3, <1>4, <1>5, <1>6

(* The byte in front of a short string is its length.                      *)
LEMMA LengthByte ==
  ASSUME NEW n \in WireByte
  PROVE  /\ HostToNet(n, 1) \in Seq(WireByte) /\ Len(HostToNet(n, 1)) = 1
         /\ HostToNet(n, 1)[1] = n
<1> DEFINE b == HostToNet(n, 1)
<1>0. n \in Int /\ 0 <= n /\ n <= 255
  BY DEF WireByte
<1>1. b = [i \in 1 .. 1 |-> (n \div Weight[4 - 1 + i]) % 256]
  BY DEF HostToNet
<1>2. Weight[4] = 1 /\ n \div 1 = n /\ 4 - 1 + 1 = 4 /\ n % 256 = n
  BY <1>0, SMT DEF Weight
<1>3. b[1] = n
  BY <1>1, <1>2
<1>4. \A i \in 1 .. 1 : i = 1
  OBVIOUS
<1>5. b \in [1 .. 1 -> WireByte]
  BY <1>1, <1>2, <1>4
<1> HIDE DEF b
<1>6. b \in Seq(WireByte) /\ Len(b) = 1
  <2>1. 1 \in Nat
    OBVIOUS
  <2> QED BY ONLY <1>5, <2>1, BlockIs
<1> QED BY <1>3, <1>6 DEF b

(* The head type, the bytes of the length and how ReadString gets it.      *)
Prefix(type, l, n) ==
    /\ type \in {eString1, eString4} /\ l \in Seq(WireByte)
    /\ type = eString1 => Len(l) = 1 /\ l[1] = n
    /\ type = eString4 => Len(l) = 4 /\ NetToHost(l) = n

(* A string is written as its head, its length and its bytes.              *)
LEMMA StringForm ==
  ASSUME NEW s \in Seq(WireByte), Len(s) <= TARS_MAX_STRING_LENGTH, NEW tag \in Tag
  PROVE  \E type \in HeadType, l \in Seq(WireByte) :
           /\ WriteString(s, tag) = TarsWriteToHead(type, tag) \o (l \o s)
           /\ Prefix(type, l, Len(s))
<1>0. /\ Len(s) \in Nat /\ eString1 \in HeadType /\ eString4 \in HeadType /\ eString1 # eString4
  BY LenProperties DEF eString1, eString4, HeadType
<1>1. CASE Len(s) > 255
  <2> DEFINE h == TarsWriteToHead(eString4, tag)
             l == HostToNet(Len(s), 4)
  <2>1. Len(s) \in Half
    <3>1. Len(s) <= 104857600
      BY SMT DEF TARS_MAX_STRING_LENGTH
    <3> QED BY <1>0, <3>1, SMT DEF Half, Int32Value, Between
  <2>2. h \in Seq(WireByte) /\ l \in Seq(WireByte) /\ Len(l) = 4 /\ NetToHost(l) = Len(s)
    <3>1. h \in Seq(WireByte)
      BY <1>0, HeadIsRead
    <3> QED BY <2>1, <3>1, FourBytes
  <2>3. WriteString(s, tag) = (h \o l) \o s
    BY <1>1 DEF WriteString
  <2> HIDE DEF h, l
  <2>4. (h \o l) \o s = h \o (l \o s)
    BY <2>2, ConcatAssociative
  <2>5. Prefix(eString4, l, Len(s))
    BY <1>0, <2>2 DEF Prefix
  <2> QED BY <1>0, <2>2, <2>3, <2>4, <2>5 DEF h
<1>2. CASE ~(Len(s) > 255)
  <2> DEFINE h == TarsWriteToHead(eString1, tag)
             l == HostToNet(Len(s), 1)
  <2>1. Len(s) \in WireByte
    <3> DEFINE n == Len(s)
    <3>1. n \in Nat /\ ~(n > 255)
      BY <1>0, <1>2
    <3> HIDE DEF n
    <3>2. n \in 0 .. 255
      BY <3>1
    <3> QED BY <3>2 DEF n, WireByte
  <2>2. h \in Seq(WireByte) /\ l \in Seq(WireByte) /\ Len(l) = 1 /\ l[1] = Len(s)
    <3>1. h \in Seq(WireByte)
      BY <1>0, HeadIsRead
    <3> QED BY <2>1, <3>1, LengthByte
  <2>3. WriteString(s, tag) = (h \o l) \o s
    BY <1>2 DEF WriteString
  <2> HIDE DEF h, l
  <2>4. (h \o l) \o s = h \o (l \o s)
    BY <2>2, ConcatAssociative
  <2>5. Prefix(eString1, l, Len(s))
    BY <1>0, <2>2 DEF Prefix
  <2> QED BY <1>0, <2>2, <2>3, <2>4, <2>5 DEF h
<1> QED BY <1>1, <1>2

(* ReadString gets the length, and then reads so many bytes.               *)
LEMMA LengthIsRead ==
  ASSUME NEW type, NEW l, NEW n \in Nat, n <= TARS_MAX_STRING_LENGTH, Prefix(type, l, n),
         NEW buf, NEW cur, Lies(buf, cur, l)
  PROVE  ReadString(buf, cur, type) = TarsReadBuf(buf, cur + Len(l), n)
<1>1. SubSeq(buf, cur + 1, cur + Len(l)) = l /\ ~(cur + Len(l) > Len(buf))
  BY LyingIsRead DEF Prefix
<1>2. eString1 # eString4
  BY DEF eString1, eString4
<1>3. \A c : ReadChars(buf, n, c) = TarsReadBuf(buf, c, n)
  <2>1. ~(n < 0 \/ n > TARS_MAX_STRING_LENGTH)
    <3> DEFINE max == TARS_MAX_STRING_LENGTH
    <3>1. max \in Int
      BY SMT DEF TARS_MAX_STRING_LENGTH
    <3> HIDE DEF max
    <3>2. n <= max
      BY DEF max
    <3> QED BY <3>1, <3>2 DEF max
  <2> QED BY <2>1 DEF ReadChars
<1>4. CASE type = eString1
  <2>1. Len(l) = 1 /\ l[1] = n
    BY <1>4 DEF Prefix
  <2>2. ReadString(buf, cur, type) = ReadChars(buf, l[1], cur + 1)
    BY <1>1, <1>2, <1>4, <2>1 DEF ReadString, TarsReadBuf, TarsPeek, Then, Ok, Throw
  <2> QED BY <1>3, <2>1, <2>2
<1>5. CASE type = eString4
  <2>1. Len(l) = 4 /\ NetToHost(l) = n
    BY <1>5 DEF Prefix
  <2>2. ReadString(buf, cur, type) = ReadChars(buf, NetToHost(l), cur + 4)
    BY <1>1, <1>2, <1>5, <2>1 DEF ReadString, TarsReadBuf, TarsPeek, Then, Ok, Throw
  <2> QED BY <1>3, <2>1, <2>2
<1> QED BY <1>4, <1>5 DEF Prefix

(* Every string up to the length the writer accepts is read back, also     *)
(* with the bytes 0 and those that would be heads in it, from its length   *)
(* in one byte or in four.                                                 *)
THEOREM StringReadBack ==
  ASSUME NEW s \in Seq(WireByte), Len(s) <= TARS_MAX_STRING_LENGTH, NEW tag \in Tag,
         NEW buf, NEW cur, Lies(buf, cur, WriteString(s, tag))
  PROVE  \E type \in HeadType, n \in {1, 2} :
           /\ TarsPeekFromHead(buf, cur) = Ok([type |-> type, tag |-> tag, n |-> n], cur)
           /\ ReadString(buf, cur + n, type) = Ok(s, cur + Len(WriteString(s, tag)))
<1>1. PICK type \in HeadType, l \in Seq(WireByte) :
        /\ WriteString(s, tag) = TarsWriteToHead(type, tag) \o (l \o s)
        /\ Prefix(type, l, Len(s))
  BY StringForm
<1> DEFINE h == TarsWriteToHead(type, tag)
<1>2. /\ h \in Seq(WireByte) /\ Len(h) \in {1, 2}
      /\ \A f, c : Lies(f, c, h) =>
           TarsPeekFromHead(f, c) = Ok([type |-> type, tag |-> tag, n |-> Len(h)], c)
  BY HeadIsRead
<1>3. WriteString(s, tag) = h \o (l \o s)
  BY <1>1
<1> HIDE DEF h
<1>4. /\ l \o s \in Seq(WireByte) /\ Len(l \o s) = Len(l) + Len(s)
      /\ Len(h \o (l \o s)) = Len(h) + Len(l \o s)
      /\ Len(h) \in Nat /\ Len(l) \in Nat /\ Len(s) \in Nat
  <2>1. l \o s \in Seq(WireByte) /\ Len(l \o s) = Len(l) + Len(s)
    BY ConcatProperties
  <2>2. Len(h \o (l \o s)) = Len(h) + Len(l \o s)
    BY <1>2, <2>1, ConcatProperties
  <2> QED BY <1>2, <2>1, <2>2, LenProperties
<1>5. Lies(buf, cur, h) /\ Lies(buf, cur + Len(h), l \o s)
  BY <1>2, <1>3, <1>4, LiesParts
<1>6. Lies(buf, cur + Len(h), l) /\ Lies(buf, (cur + Len(h)) + Len(l), s)
  BY <1>5, LiesParts
<1>7. ReadString(buf, cur + Len(h), type) = TarsReadBuf(buf, (cur + Len(h)) + Len(l), Len(s))
  BY <1>1, <1>4, <1>6, LengthIsRead
<1>8. TarsReadBuf(buf, (cur + Len(h)) + Len(l), Len(s))
        = Ok(s, ((cur + Len(h)) + Len(l)) + Len(s))
  BY <1>6, LyingIsRead
<1>9. ((cur + Len(h)) + Len(l)) + Len(s) = cur + Len(WriteString(s, tag))
  <2>1. cur \in Nat
    BY <1>5 DEF Lies
  <2> QED BY <1>3, <1>4, <2>1
<1> QED BY <1>2, <1>5, <1>7, <1>8, <1>9

(* The buffer ends before the bytes w, which it was to hold at cur, do.    *)
EndsIn(buf, cur, w) ==
    /\ buf \in Seq(WireByte) /\ cur \in Nat
    /\ cur <= Len(buf) /\ Len(buf) < cur + Len(w)
    /\ \A i \in 1 .. Len(w) : cur + i <= Len(buf) => buf[cur + i] = w[i]

(* A buffer that ends inside two texts ends in one of them.                *)
LEMMA EndsInPart ==
  ASSUME NEW s \in Seq(WireByte), NEW t \in Seq(WireByte), NEW buf, NEW cur, EndsIn(buf, cur, s \o t)
  PROVE  \/ EndsIn(buf, cur, s)
         \/ Lies(buf, cur, s) /\ EndsIn(buf, cur + Len(s), t)
<1> DEFINE m == Len(s)
           n == Len(t)
<1>1. /\ m \in Nat /\ n \in Nat /\ buf \in Seq(WireByte) /\ cur \in Nat /\ Len(buf) \in Nat
      /\ Len(s \o t) = m + n /\ cur <= Len(buf) /\ Len(buf) < cur + (m + n)
      /\ \A i \in 1 .. m + n : (s \o t)[i] = IF i <= m THEN s[i] ELSE t[i - m]
      /\ \A i \in 1 .. m + n : cur + i <= Len(buf) => buf[cur + i] = (s \o t)[i]
  BY ConcatProperties, LenProperties DEF EndsIn
<1>2. ASSUME NEW i \in 1 .. m, cur + i <= Len(buf) PROVE buf[cur + i] = s[i]
  <2>1. i \in 1 .. m + n /\ i <= m
    BY <1>1
  <2> QED BY <1>1, <1>2, <2>1
<1>3. ASSUME NEW i \in 1 .. n, (cur + m) + i <= Len(buf) PROVE buf[(cur + m) + i] = t[i]
  <2>1. m + i \in 1 .. m + n /\ ~(m + i <= m) /\ (m + i) - m = i /\ (cur + m) + i = cur + (m + i)
    BY <1>1
  <2>2. buf[cur + (m + i)] = (s \o t)[m + i] /\ (s \o t)[m + i] = t[(m + i) - m]
    BY <1>1, <1>3, <2>1
  <2> QED BY <2>1, <2>2
<1>4. CASE Len(buf) < cur + m
  BY <1>1, <1>2, <1>4 DEF EndsIn
<1>5. CASE cur + m <= Len(buf)
  <2>1. \A i \in 1 .. m : cur + i <= Len(buf)
    BY <1>1, <1>5
  <2>2. Lies(buf, cur, s)
    BY <1>1, <1>2, <1>5, <2>1 DEF Lies
  <2>3. cur + m \in Nat /\ Len(buf) < (cur + m) + n
    BY <1>1
  <2>4. EndsIn(buf, cur + m, t)
    BY <1>1, <1>3, <1>5, <2>3 DEF EndsIn
  <2> QED BY <2>2, <2>4
<1> QED BY <1>1, <1>4, <1>5

(* A read of bytes that are not all there is refused.                      *)
LEMMA EndIsSeen ==
  ASSUME NEW s \in Seq(WireByte), NEW buf, NEW cur, EndsIn(buf, cur, s)
  PROVE  cur + Len(s) > Len(buf) /\ TarsReadBuf(buf, cur, Len(s)) = Throw("Overflow", cur)
<1> DEFINE k == Len(s)
<1>1. cur + k > Len(buf)
  <2>1. k \in Nat /\ cur \in Nat /\ Len(buf) \in Nat /\ Len(buf) < cur + k
    BY LenProperties DEF EndsIn
  <2> QED BY <2>1
<1> HIDE DEF k
<1>2. TarsReadBuf(buf, cur, k) = Throw("Overflow", cur)
  BY <1>1 DEF TarsReadBuf, TarsPeek, Then, Ok, Throw
<1> QED BY <1>1, <1>2 DEF k

(* So is a head of two bytes of which only the first is there.             *)
LEMMA HeadEndIsSeen ==
  ASSUME NEW type \in HeadType, NEW tag \in Tag, NEW buf, NEW cur,
         EndsIn(buf, cur, TarsWriteToHead(type, tag))
  PROVE  TarsPeekFromHead(buf, cur) = Throw("Overflow", cur)
<1>0. /\ type \in Int /\ 0 <= type /\ type <= 13 /\ tag \in Int /\ 0 <= tag /\ tag <= 255
      /\ cur \in Nat /\ Len(buf) \in Nat /\ cur <= Len(buf)
  BY LenProperties DEF HeadType, Tag, EndsIn
<1>1. CASE cur + 1 > Len(buf)
  BY <1>1 DEF TarsPeekFromHead, TarsPeek, Then, Ok, Throw
<1>2. CASE ~(cur + 1 > Len(buf))
  <2> DEFINE w == TarsWriteToHead(type, tag)
             b == type + 240
  <2>1. w \in Seq(WireByte) /\ Len(w) \in {1, 2}
    BY HeadIsRead
  <2>2. Len(w) = 2 /\ cur + 1 = Len(buf) /\ buf[cur + 1] = w[1]
    <3>1. Len(buf) < cur + Len(w)
      BY DEF EndsIn
    <3>2. Len(w) = 2 /\ cur + 1 <= Len(buf) /\ cur + 1 = Len(buf)
      <4> DEFINE n == Len(w)
                 e == Len(buf)
      <4>1. n \in {1, 2} /\ e \in Nat /\ e < cur + n /\ ~(cur + 1 > e)
        BY <1>0, <1>2, <2>1, <3>1
      <4> HIDE DEF n, e
      <4>2. n = 2 /\ cur + 1 <= e /\ cur + 1 = e
        BY <1>0, <4>1
      <4> QED BY <4>2 DEF n, e
    <3>3. 1 \in 1 .. Len(w)
      BY <3>2
    <3>4. buf[cur + 1] = w[1]
      BY <3>2, <3>3 DEF EndsIn
    <3> QED BY <3>2, <3>4
  <2>3. ~(tag < 15)
    <3>1. tag < 15 => Len(w) = 1
      BY DEF TarsWriteToHead
    <3> QED BY <2>2, <3>1
  <2>4. w[1] = b
    BY <2>3 DEF TarsWriteToHead
  <2>5. b \in WireByte /\ b \div 16 = 15
    BY <1>0, SMT DEF WireByte
  <2> HIDE DEF w, b
  <2>6. <<b>> \in Seq(WireByte) /\ Len(<<b>>) = 1 /\ <<b>>[1] = b
    BY <2>5
  <2>7. Lies(buf, cur, <<b>>)
    <3>1. \A i \in 1 .. Len(<<b>>) : i = 1
      BY <2>6
    <3>2. buf \in Seq(WireByte) /\ cur + Len(<<b>>) <= Len(buf)
      BY <1>0, <1>2, <2>6 DEF EndsIn
    <3> QED BY <1>0, <2>2, <2>4, <2>6, <3>1, <3>2 DEF Lies
  <2>8. SubSeq(buf, cur + 1, cur + 1) = <<b>> /\ ~(cur + 1 > Len(buf))
    BY <2>6, <2>7, LyingIsRead
  <2>9. cur + 2 > Len(buf) /\ ~(<<b>>[1] \div 16 < 15)
    BY <1>0, <2>2, <2>5, <2>6
  <2> QED BY <2>8, <2>9 DEF TarsPeekFromHead, TarsPeek, Then, Ok, Throw
<1> QED BY <1>1, <1>2

(* An integer that was cut off anywhere, in its head or behind it, is      *)
(* refused with the decode exception and never taken for another value.    *)
THEOREM CutIntegerRefused ==
  ASSUME NEW T, IsInteger(T), NEW p \in IntegersOf(T.t), NEW tag \in Tag,
         NEW buf, NEW cur, EndsIn(buf, cur, WriteInt64(p, tag))
  PROVE  \/ TarsPeekFromHead(buf, cur) = Throw("Overflow", cur)
         \/ \E type \in HeadType, n \in {1, 2} :
              /\ TarsPeekFromHead(buf, cur) = Ok([type |-> type, tag |-> tag, n |-> n], cur)
              /\ ReadInteger(T, buf, cur + n, type) = Throw("Overflow", cur + n)
<1>1. PICK type \in HeadType, b \in Seq(WireByte) :
        WriteInt64(p, tag) = TarsWriteToHead(type, tag) \o b /\ Form(T, type, b, p)
  BY IntegerForm
<1> DEFINE h == TarsWriteToHead(type, tag)
<1>2. /\ h \in Seq(WireByte) /\ Len(h) \in {1, 2}
      /\ \A f, c : Lies(f, c, h) =>
           TarsPeekFromHead(f, c) = Ok([type |-> type, tag |-> tag, n |-> Len(h)], c)
      /\ \A f, c : EndsIn(f, c, h) => TarsPeekFromHead(f, c) = Throw("Overflow", c)
  BY HeadIsRead, HeadEndIsSeen
<1>3. WriteInt64(p, tag) = h \o b
  BY <1>1
<1> HIDE DEF h
<1>4. EndsIn(buf, cur, h) \/ (Lies(buf, cur, h) /\ EndsIn(buf, cur + Len(h), b))
  BY <1>2, <1>3, EndsInPart
<1>5. ASSUME NEW c, EndsIn(buf, c, b)
      PROVE  ReadInteger(T, buf, c, type) = Throw("Overflow", c)
  <2>1. b # << >>
    <3>1. Len(b) # 0
      BY <1>5, LenProperties DEF EndsIn
    <3> QED BY <3>1
  <2>2. type \in eChar .. Carrier[T.t] /\ Len(b) = SizeOf[type]
    BY <1>1, <2>1 DEF Form
  <2>3. type # eZeroTag
    <3>1. Carrier[T.t] \in {eChar, eShort, eInt32, eInt64}
      BY CarrierIs DEF IsInteger
    <3> QED BY <2>2, <3>1 DEF eChar, eShort, eInt32, eInt64, eZeroTag
  <2>4. c + SizeOf[type] > Len(buf)
    BY <1>5, <2>2, EndIsSeen
  <2> QED BY <2>2, <2>3, <2>4 DEF ReadInteger, TarsReadBuf, TarsPeek, Then, Ok, Throw
<1> QED BY <1>2, <1>4, <1>5

(* Nor is a string that was cut off in its head, its length or its bytes.  *)
THEOREM CutStringRefused ==
  ASSUME NEW s \in Seq(WireByte), Len(s) <= TARS_MAX_STRING_LENGTH, NEW tag \in Tag,
         NEW buf, NEW cur, EndsIn(buf, cur, WriteString(s, tag))
  PROVE  \/ TarsPeekFromHead(buf, cur) = Throw("Overflow", cur)
         \/ \E type \in HeadType, n \in {1, 2}, c \in Nat :
              /\ TarsPeekFromHead(buf, cur) = Ok([type |-> type, tag |-> tag, n |-> n], cur)
              /\ ReadString(buf, cur + n, type) = Throw("Overflow", c)
<1>1. PICK type \in HeadType, l \in Seq(WireByte) :
        /\ WriteString(s, tag) = TarsWriteToHead(type, tag) \o (l \o s)
        /\ Prefix(type, l, Len(s))
  BY StringForm
<1> DEFINE h == TarsWriteToHead(type, tag)
<1>2. /\ h \in Seq(WireByte) /\ Len(h) \in {1, 2}
      /\ \A f, c : Lies(f, c, h) =>
           TarsPeekFromHead(f, c) = Ok([type |-> type, tag |-> tag, n |-> Len(h)], c)
      /\ \A f, c : EndsIn(f, c, h) => TarsPeekFromHead(f, c) = Throw("Overflow", c)
  BY HeadIsRead, HeadEndIsSeen
<1>3. WriteString(s, tag) = h \o (l \o s) /\ l \o s \in Seq(WireByte)
  BY <1>1, ConcatProperties
<1> HIDE DEF h
<1>4. EndsIn(buf, cur, h) \/ (Lies(buf, cur, h) /\ EndsIn(buf, cur + Len(h), l \o s))
  BY <1>2, <1>3, EndsInPart
<1>5. ASSUME NEW c, EndsIn(buf, c, l)
      PROVE  ReadString(buf, c, type) = Throw("Overflow", c)
  <2>1. c + Len(l) > Len(buf) /\ eString1 # eString4
    BY <1>5, EndIsSeen DEF eString1, eString4
  <2>2. \/ type = eString1 /\ Len(l) = 1
        \/ type = eString4 /\ Len(l) = 4
    BY <1>1 DEF Prefix
  <2>3. CASE type = eString1 /\ Len(l) = 1
    BY <2>1, <2>3 DEF ReadString, TarsReadBuf, TarsPeek, Then, Ok, Throw
  <2>4. CASE type = eString4 /\ Len(l) = 4
    BY <2>1, <2>4 DEF ReadString, TarsReadBuf, TarsPeek, Then, Ok, Throw
  <2> QED BY <2>2, <2>3, <2>4
<1>6. ASSUME NEW c, Lies(buf, c, l), EndsIn(buf, c + Len(l), s)
      PROVE  ReadString(buf, c, type) = Throw("Overflow", c + Len(l))
  <2>1. Len(s) \in Nat
    BY LenProperties
  <2>2. ReadString(buf, c, type) = TarsReadBuf(buf, c + Len(l), Len(s))
    BY <1>1, <1>6, <2>1, LengthIsRead
  <2> QED BY <1>6, <2>2, EndIsSeen
<1>7. ASSUME Lies(buf, cur, h), EndsIn(buf, cur + Len(h), l \o s)
      PROVE  \E c \in Nat : ReadString(buf, cur + Len(h), type) = Throw("Overflow", c)
  <2>1. \/ EndsIn(buf, cur + Len(h), l)
        \/ Lies(buf, cur + Len(h), l) /\ EndsIn(buf, (cur + Len(h)) + Len(l), s)
    BY <1>7, EndsInPart
  <2>2. cur + Len(h) \in Nat /\ Len(l) \in Nat /\ (cur + Len(h)) + Len(l) \in Nat
    <3>1. cur + Len(h) \in Nat /\ Len(l) \in Nat
      BY <1>7, LenProperties DEF EndsIn
    <3> QED BY <3>1
  <2> QED BY <1>5, <1>6, <2>1, <2>2
<1> QED BY <1>2, <1>4, <1>7

-----------------------------------------------------------------------------
(***************************************************************************)
(* Loops.  A recursive function stands for a loop; that there is one that  *)
(* obeys its recursion is shown by making it longer by a round at a time.  *)
(***************************************************************************)

(* Joined puts one sequence behind the other.                              *)
LEMMA JoinedIs ==
  ASSUME NEW ss, Len(ss) \in Nat
  PROVE  /\ Joined(ss)[0] = << >>
         /\ \A i \in 1 .. Len(ss) : Joined(ss)[i] = Joined(ss)[i - 1] \o ss[i]
<1> DEFINE Base == << >>
           Step(i, r) == r \o ss[i]
           Obeys(m, f) == f = [i \in 0 .. m |-> IF i = 0 THEN Base ELSE Step(i, f[i - 1])]
           M == {m \in Nat : \E f : Obeys(m, f)}
<1> HIDE DEF Base, Step
<1>1. 0 \in M
  <2> DEFINE g == [i \in 0 .. 0 |-> Base]
  <2>1. Obeys(0, g)
    OBVIOUS
  <2> QED BY <2>1
<1>2. ASSUME NEW m \in Nat, m \in M PROVE m + 1 \in M
  <2>1. PICK f : Obeys(m, f)
    BY <1>2
  <2> DEFINE g == [i \in 0 .. m + 1 |-> IF i <= m THEN f[i] ELSE Step(i, f[m])]
  <2>2. ASSUME NEW i \in 0 .. m + 1 PROVE g[i] = IF i = 0 THEN Base ELSE Step(i, g[i - 1])
    <3>1. CASE i <= m
      <4>1. i \in 0 .. m /\ g[i] = f[i] /\ (i # 0 => g[i - 1] = f[i - 1])
        BY <3>1
      <4>2. f[i] = IF i = 0 THEN Base ELSE Step(i, f[i - 1])
        BY <2>1, <4>1
      <4> QED BY <4>1, <4>2
    <3>2. CASE ~(i <= m)
      <4>1. i - 1 = m /\ i # 0 /\ g[i - 1] = f[m] /\ g[i] = Step(i, f[m])
        BY <3>2
      <4> QED BY <4>1
    <3> QED BY <3>1, <3>2
  <2>3. Obeys(m + 1, g)
    BY <2>2
  <2> HIDE DEF g, Obeys
  <2> QED BY <2>3
<1>t. Len(ss) \in Nat
  OBVIOUS
<1>3. Len(ss) \in M
  <2> HIDE DEF M
  <2> QED BY <1>1, <1>2, <1>t, SetInduction
<1> DEFINE h == CHOOSE f : Obeys(Len(ss), f)
<1>4. Obeys(Len(ss), h)
  BY <1>3
<1>5. Joined(ss) = h
  BY DEF Joined, Base, Step
<1> HIDE DEF h
<1>6. \A i \in 0 .. Len(ss) : h[i] = IF i = 0 THEN Base ELSE Step(i, h[i - 1])
  BY <1>4
<1> HIDE DEF Obeys, M
<1>7. 0 \in 0 .. Len(ss) /\ \A i \in 1 .. Len(ss) : i \in 0 .. Len(ss) /\ i # 0
  BY <1>t
<1> QED BY <1>5, <1>6, <1>7 DEF Base, Step

(* The search for a tag starts with a look at the head under the cursor.   *)
LEMMA SkipToTagIs ==
  ASSUME NEW skip, NEW buf, NEW cur \in Nat, NEW tag, Len(buf) + 1 \in Nat, Len(buf) + 1 # 0
  PROVE  \E next : SkipToTag(skip, buf, cur, tag) = SearchTag(skip, buf, tag, next, cur)
<1> DEFINE Base == [c \in Nat |-> NotFound(c)]
           Step(i, r) == [c \in Nat |-> SearchTag(skip, buf, tag, r, c)]
           Obeys(m, f) == f = [i \in 0 .. m |-> IF i = 0 THEN Base ELSE Step(i, f[i - 1])]
           M == {m \in Nat : \E f : Obeys(m, f)}
<1> HIDE DEF Base, Step
<1>1. 0 \in M
  <2> DEFINE g == [i \in 0 .. 0 |-> Base]
  <2>1. Obeys(0, g)
    OBVIOUS
  <2> QED BY <2>1
<1>2. ASSUME NEW m \in Nat, m \in M PROVE m + 1 \in M
  <2>1. PICK f : Obeys(m, f)
    BY <1>2
  <2> DEFINE g == [i \in 0 .. m + 1 |-> IF i <= m THEN f[i] ELSE Step(i, f[m])]
  <2>2. ASSUME NEW i \in 0 .. m + 1 PROVE g[i] = IF i = 0 THEN Base ELSE Step(i, g[i - 1])
    <3>1. CASE i <= m
      <4>1. i \in 0 .. m /\ g[i] = f[i] /\ (i # 0 => g[i - 1] = f[i - 1])
        BY <3>1
      <4>2. f[i] = IF i = 0 THEN Base ELSE Step(i, f[i - 1])
        BY <2>1, <4>1
      <4> QED BY <4>1, <4>2
    <3>2. CASE ~(i <= m)
      <4>1. i - 1 = m /\ i # 0 /\ g[i - 1] = f[m] /\ g[i] = Step(i, f[m])
        BY <3>2
      <4> QED BY <4>1
    <3> QED BY <3>1, <3>2
  <2>3. Obeys(m + 1, g)
    BY <2>2
  <2> HIDE DEF g, Obeys
  <2> QED BY <2>3
<1>t. Len(buf) + 1 \in Nat
  OBVIOUS
<1>3. Len(buf) + 1 \in M
  <2> HIDE DEF M
  <2> QED BY <1>1, <1>2, <1>t, SetInduction
<1> DEFINE h == CHOOSE f : Obeys(Len(buf) + 1, f)
<1>4. Obeys(Len(buf) + 1, h)
  BY <1>3
<1>5. SkipToTag(skip, buf, cur, tag) = h[Len(buf) + 1][cur]
  BY DEF SkipToTag, Base, Step
<1> HIDE DEF h
<1>6. \A i \in 0 .. Len(buf) + 1 : h[i] = IF i = 0 THEN Base ELSE Step(i, h[i - 1])
  BY <1>4
<1> HIDE DEF Obeys, M
<1>7. 0 \in 0 .. Len(buf) + 1 /\ \A i \in 1 .. Len(buf) + 1 : i \in 0 .. Len(buf) + 1 /\ i # 0
  BY <1>t
<1>8. h[Len(buf) + 1] = Step(Len(buf) + 1, h[(Len(buf) + 1) - 1])
  <2>1. Len(buf) + 1 \in 0 .. Len(buf) + 1
    BY <1>t
  <2> QED BY <1>6, <2>1
<1> DEFINE next == h[(Len(buf) + 1) - 1]
<1>9. SkipToTag(skip, buf, cur, tag) = [c \in Nat |-> SearchTag(skip, buf, tag, next, c)][cur]
  BY <1>5, <1>8 DEF Step
<1> QED BY <1>9

(* readFrom reads one member after the other.                              *)
LEMMA ReadMembersIs ==
  ASSUME NEW reads, NEW members, NEW cur, Len(members) \in Nat
  PROVE  LET after == ReadMembers(reads, members, cur)
         IN  /\ after[0] = Ok(<< >>, cur)
             /\ \A i \in 1 .. Len(members) :
                  after[i] = ReadMember(reads[i], members[i].tag, after[i - 1])
<1> DEFINE Base == Ok(<< >>, cur)
           Step(i, r) == ReadMember(reads[i], members[i].tag, r)
           Obeys(m, f) == f = [i \in 0 .. m |-> IF i = 0 THEN Base ELSE Step(i, f[i - 1])]
           M == {m \in Nat : \E f : Obeys(m, f)}
<1> HIDE DEF Base, Step
<1>1. 0 \in M
  <2> DEFINE g == [i \in 0 .. 0 |-> Base]
  <2>1. Obeys(0, g)
    OBVIOUS
  <2> QED BY <2>1
<1>2. ASSUME NEW m \in Nat, m \in M PROVE m + 1 \in M
  <2>1. PICK f : Obeys(m, f)
    BY <1>2
  <2> DEFINE g == [i \in 0 .. m + 1 |-> IF i <= m THEN f[i] ELSE Step(i, f[m])]
  <2>2. ASSUME NEW i \in 0 .. m + 1 PROVE g[i] = IF i = 0 THEN Base ELSE Step(i, g[i - 1])
    <3>1. CASE i <= m
      <4>1. i \in 0 .. m /\ g[i] = f[i] /\ (i # 0 => g[i - 1] = f[i - 1])
        BY <3>1
      <4>2. f[i] = IF i = 0 THEN Base ELSE Step(i, f[i - 1])
        BY <2>1, <4>1
      <4> QED BY <4>1, <4>2
    <3>2. CASE ~(i <= m)
      <4>1. i - 1 = m /\ i # 0 /\ g[i - 1] = f[m] /\ g[i] = Step(i, f[m])
        BY <3>2
      <4> QED BY <4>1
    <3> QED BY <3>1, <3>2
  <2>3. Obeys(m + 1, g)
    BY <2>2
  <2> HIDE DEF g, Obeys
  <2> QED BY <2>3
<1>t. Len(members) \in Nat
  OBVIOUS
<1>3. Len(members) \in M
  <2> HIDE DEF M
  <2> QED BY <1>1, <1>2, <1>t, SetInduction
<1> DEFINE h == CHOOSE f : Obeys(Len(members), f)
<1>4. Obeys(Len(members), h)
  BY <1>3
<1>5. ReadMembers(reads, members, cur) = h
  BY DEF ReadMembers, Base, Step
<1> HIDE DEF h
<1>6. \A i \in 0 .. Len(members) : h[i] = IF i = 0 THEN Base ELSE Step(i, h[i - 1])
  BY <1>4
<1> HIDE DEF Obeys, M
<1>7. 0 \in 0 .. Len(members) /\ \A i \in 1 .. Len(members) : i \in 0 .. Len(members) /\ i # 0
  BY <1>t
<1> QED BY <1>5, <1>6, <1>7 DEF Base, Step

(* The read of a map reads one pair after the other.                       *)
LEMMA ReadPairsIs ==
  ASSUME NEW K, NEW E, NEW cur, NEW n \in Nat
  PROVE  \E after :
           /\ ReadPairs(K, E, cur, n) = after[n] /\ after[0] = Ok(<< >>, cur)
           /\ \A i \in 1 .. n : after[i] = ReadPair(K, E, after[i - 1])
<1> DEFINE Base == Ok(<< >>, cur)
           Step(i, r) == ReadPair(K, E, r)
           Obeys(m, f) == f = [i \in 0 .. m |-> IF i = 0 THEN Base ELSE Step(i, f[i - 1])]
           M == {m \in Nat : \E f : Obeys(m, f)}
<1> HIDE DEF Base, Step
<1>1. 0 \in M
  <2> DEFINE g == [i \in 0 .. 0 |-> Base]
  <2>1. Obeys(0, g)
    OBVIOUS
  <2> QED BY <2>1
<1>2. ASSUME NEW m \in Nat, m \in M PROVE m + 1 \in M
  <2>1. PICK f : Obeys(m, f)
    BY <1>2
  <2> DEFINE g == [i \in 0 .. m + 1 |-> IF i <= m THEN f[i] ELSE Step(i, f[m])]
  <2>2. ASSUME NEW i \in 0 .. m + 1 PROVE g[i] = IF i = 0 THEN Base ELSE Step(i, g[i - 1])
    <3>1. CASE i <= m
      <4>1. i \in 0 .. m /\ g[i] = f[i] /\ (i # 0 => g[i - 1] = f[i - 1])
        BY <3>1
      <4>2. f[i] = IF i = 0 THEN Base ELSE Step(i, f[i - 1])
        BY <2>1, <4>1
      <4> QED BY <4>1, <4>2
    <3>2. CASE ~(i <= m)
      <4>1. i - 1 = m /\ i # 0 /\ g[i - 1] = f[m] /\ g[i] = Step(i, f[m])
        BY <3>2
      <4> QED BY <4>1
    <3> QED BY <3>1, <3>2
  <2>3. Obeys(m + 1, g)
    BY <2>2
  <2> HIDE DEF g, Obeys
  <2> QED BY <2>3
<1>t. n \in Nat
  OBVIOUS
<1>3. n \in M
  <2> HIDE DEF M
  <2> QED BY <1>1, <1>2, <1>t, SetInduction
<1> DEFINE h == CHOOSE f : Obeys(n, f)
<1>4. Obeys(n, h)
  BY <1>3
<1>5. ReadPairs(K, E, cur, n) = h[n]
  BY DEF ReadPairs, Base, Step
<1> HIDE DEF h
<1>6. \A i \in 0 .. n : h[i] = IF i = 0 THEN Base ELSE Step(i, h[i - 1])
  BY <1>4
<1> HIDE DEF Obeys, M
<1>7. 0 \in 0 .. n /\ \A i \in 1 .. n : i \in 0 .. n /\ i # 0
  BY <1>t
<1> QED BY <1>5, <1>6, <1>7 DEF Base, Step

(* The receiver after each of n rounds of its loop over in.                *)
IsLoop(after, s, in, ps, j, n) ==
    /\ after[0] = Result(ps, in, "more")
    /\ \A i \in 1 .. n : after[i] = Round(s, after[i - 1], j)

(* The receiver takes round after round.                                   *)
LEMMA ParsedIs ==
  ASSUME NEW s, NEW in, NEW ps, NEW j, NEW n \in Nat, n = Len(in) \div sizeofLen + 1
  PROVE  \E after : Parsed(s, in, ps, j) = after[n] /\ IsLoop(after, s, in, ps, j, n)
<1> DEFINE Base == Result(ps, in, "more")
           Step(i, r) == Round(s, r, j)
           Obeys(m, f) == f = [i \in 0 .. m |-> IF i = 0 THEN Base ELSE Step(i, f[i - 1])]
           M == {m \in Nat : \E f : Obeys(m, f)}
<1> HIDE DEF Base, Step
<1>1. 0 \in M
  <2> DEFINE g == [i \in 0 .. 0 |-> Base]
  <2>1. Obeys(0, g)
    OBVIOUS
  <2> QED BY <2>1
<1>2. ASSUME NEW m \in Nat, m \in M PROVE m + 1 \in M
  <2>1. PICK f : Obeys(m, f)
    BY <1>2
  <2> DEFINE g == [i \in 0 .. m + 1 |-> IF i <= m THEN f[i] ELSE Step(i, f[m])]
  <2>2. ASSUME NEW i \in 0 .. m + 1 PROVE g[i] = IF i = 0 THEN Base ELSE Step(i, g[i - 1])
    <3>1. CASE i <= m
      <4>1. i \in 0 .. m /\ g[i] = f[i] /\ (i # 0 => g[i - 1] = f[i - 1])
        BY <3>1
      <4>2. f[i] = IF i = 0 THEN Base ELSE Step(i, f[i - 1])
        BY <2>1, <4>1
      <4> QED BY <4>1, <4>2
    <3>2. CASE ~(i <= m)
      <4>1. i - 1 = m /\ i # 0 /\ g[i - 1] = f[m] /\ g[i] = Step(i, f[m])
        BY <3>2
      <4> QED BY <4>1
    <3> QED BY <3>1, <3>2
  <2>3. Obeys(m + 1, g)
    BY <2>2
  <2> HIDE DEF g, Obeys
  <2> QED BY <2>3
<1>t. n \in Nat
  OBVIOUS
<1>3. n \in M
  <2> HIDE DEF M
  <2> QED BY <1>1, <1>2, <1>t, SetInduction
<1> DEFINE h == CHOOSE f : Obeys(n, f)
<1>4. Obeys(n, h)
  BY <1>3
<1>5. Parsed(s, in, ps, j) = h[n]
  BY DEF Parsed, Base, Step
<1> HIDE DEF h
<1>6. \A i \in 0 .. n : h[i] = IF i = 0 THEN Base ELSE Step(i, h[i - 1])
  BY <1>4
<1> HIDE DEF Obeys, M
<1>7. 0 \in 0 .. n /\ \A i \in 1 .. n : i \in 0 .. n /\ i # 0
  BY <1>t
<1>8. IsLoop(h, s, in, ps, j, n)
  BY <1>6, <1>7 DEF Base, Step, IsLoop
<1> QED BY <1>5, <1>8


-----------------------------------------------------------------------------
(***************************************************************************)
(* Fields.                                                                 *)
(***************************************************************************)

(* A field with tag begins under the cursor.                               *)
Begins(buf, cur, type, tag, n) ==
    /\ buf \in Seq(WireByte) /\ cur \in Nat /\ cur < Len(buf)
    /\ type \in HeadType /\ type # eStructEnd /\ n \in {1, 2} /\ tag \in Tag
    /\ TarsPeekFromHead(buf, cur) = Ok([type |-> type, tag |-> tag, n |-> n], cur)

(* A result that is no exception                                           *)
LEMMA OkIs ==
  ASSUME NEW v, NEW c
  PROVE  Ok(v, c).ex = "" /\ Ok(v, c).v = v /\ Ok(v, c).cur = c
BY DEF Ok

(* The same, for all values.                                               *)
LEMMA AllOk == \A u, z : Ok(u, z).ex = "" /\ Ok(u, z).v = u /\ Ok(u, z).cur = z
BY Zenon DEF Ok

(* A field under the cursor is found by its tag, and not by a smaller one. *)
LEMMA FieldIsFound ==
  ASSUME NEW buf, NEW cur, NEW type, NEW tag, NEW n, Begins(buf, cur, type, tag, n)
  PROVE  /\ TarsSkipToTag(buf, cur, tag) = [found |-> TRUE, type |-> type, cur |-> cur + n]
         /\ \A t \in Int : t < tag => TarsSkipToTag(buf, cur, t) = NotFound(cur)
<1> DEFINE skip == SkipFields(buf)
<1>1. /\ cur \in Nat /\ Len(buf) \in Nat /\ cur < Len(buf) /\ tag \in Int /\ tag >= 0
      /\ type # eStructEnd
      /\ TarsPeekFromHead(buf, cur) = Ok([type |-> type, tag |-> tag, n |-> n], cur)
  BY LenProperties DEF Begins, Tag
<1>2. Len(buf) + 1 \in Nat /\ Len(buf) + 1 # 0 /\ ~HasEnd(buf, cur)
  BY <1>1 DEF HasEnd
<1> DEFINE p == TarsPeekFromHead(buf, cur)
<1>h. p.ex = "" /\ p.v.type = type /\ p.v.tag = tag /\ p.v.n = n /\ p.cur = cur
  <2> DEFINE e == [type |-> type, tag |-> tag, n |-> n]
  <2>1. p = Ok(e, cur) /\ e.type = type /\ e.tag = tag /\ e.n = n
    BY <1>1
  <2> HIDE DEF p, e
  <2>2. p.ex = "" /\ p.v = e /\ p.cur = cur
    BY <2>1, OkIs, Zenon
  <2> QED BY <2>1, <2>2, Zenon
<1> HIDE DEF p
<1>3. TarsSkipToTag(buf, cur, tag) = [found |-> TRUE, type |-> type, cur |-> cur + n]
  <2>1. PICK next : SkipToTag(skip, buf, cur, tag) = SearchTag(skip, buf, tag, next, cur)
    BY <1>1, <1>2, SkipToTagIs
  <2>2. ~(tag < tag)
    BY <1>1
  <2> HIDE DEF skip
  <2>3. SearchTag(skip, buf, tag, next, cur) = [found |-> TRUE, type |-> type, cur |-> cur + n]
    BY <1>1, <1>2, <1>h, <2>2, Zenon DEF SearchTag, TryCatch, p
  <2> QED BY <2>1, <2>3 DEF TarsSkipToTag, skip
<1>4. ASSUME NEW t \in Int, t < tag PROVE TarsSkipToTag(buf, cur, t) = NotFound(cur)
  <2>1. PICK next : SkipToTag(skip, buf, cur, t) = SearchTag(skip, buf, t, next, cur)
    BY <1>1, <1>2, SkipToTagIs
  <2> HIDE DEF skip
  <2>3. SearchTag(skip, buf, t, next, cur) = NotFound(cur)
    BY <1>1, <1>2, <1>4, <1>h, Zenon DEF SearchTag, TryCatch, p
  <2> QED BY <2>1, <2>3 DEF TarsSkipToTag, skip
<1> QED BY <1>3, <1>4

(* Nothing is found at the end.                                            *)
LEMMA NothingAtEnd ==
  ASSUME NEW buf \in Seq(WireByte), NEW cur \in Nat, cur >= Len(buf), NEW tag
  PROVE  TarsSkipToTag(buf, cur, tag) = NotFound(cur)
<1> DEFINE skip == SkipFields(buf)
<1>1. Len(buf) + 1 \in Nat /\ Len(buf) + 1 # 0 /\ HasEnd(buf, cur)
  BY LenProperties DEF HasEnd
<1>2. PICK next : SkipToTag(skip, buf, cur, tag) = SearchTag(skip, buf, tag, next, cur)
  BY <1>1, SkipToTagIs
<1> HIDE DEF skip
<1>3. SearchTag(skip, buf, tag, next, cur) = NotFound(cur)
  BY <1>1 DEF SearchTag, TryCatch
<1> QED BY <1>2, <1>3 DEF TarsSkipToTag, skip

(* A non-empty text leaves its first byte before the end of the buffer.    *)
LEMMA LyingIsInside ==
  ASSUME NEW s \in Seq(WireByte), Len(s) > 0, NEW buf, NEW cur, Lies(buf, cur, s)
  PROVE  buf \in Seq(WireByte) /\ cur \in Nat /\ cur < Len(buf) /\ cur + Len(s) <= Len(buf)
<1>1. buf \in Seq(WireByte) /\ cur \in Nat /\ cur + Len(s) <= Len(buf)
  BY DEF Lies
<1>2. Len(s) \in Nat /\ Len(buf) \in Nat
  BY <1>1, LenProperties
<1> QED BY <1>1, <1>2

(* The bytes of an integer, how many there are, and that they are read.    *)
LEMMA IntegerField ==
  ASSUME NEW T, IsInteger(T), NEW p \in IntegersOf(T.t), NEW tag \in Tag
  PROVE  LET w == WriteInt64(p, tag)
         IN  /\ w \in Seq(WireByte) /\ Len(w) > 0
             /\ tag < 15 => Len(w) <= 1 + SizeOf[Carrier[T.t]]
             /\ \A buf, cur : Lies(buf, cur, w) =>
                  \E type, n : /\ Begins(buf, cur, type, tag, n)
                               /\ ReadInteger(T, buf, cur + n, type) = Ok(p, cur + Len(w))
<1> DEFINE w == WriteInt64(p, tag)
<1>1. PICK type \in HeadType, b \in Seq(WireByte) :
        w = TarsWriteToHead(type, tag) \o b /\ Form(T, type, b, p)
  BY IntegerForm
<1> DEFINE h == TarsWriteToHead(type, tag)
<1>2. /\ h \in Seq(WireByte) /\ Len(h) \in {1, 2} /\ (tag < 15 => Len(h) = 1)
      /\ \A f, c : Lies(f, c, h) =>
           TarsPeekFromHead(f, c) = Ok([type |-> type, tag |-> tag, n |-> Len(h)], c)
  <2>1. tag < 15 => Len(h) = 1
    BY DEF TarsWriteToHead
  <2> QED BY <2>1, HeadIsRead
<1>3. Len(b) <= SizeOf[Carrier[T.t]] /\ Len(b) \in Nat /\ SizeOf[Carrier[T.t]] \in Nat
  <2>1. Carrier[T.t] \in {eChar, eShort, eInt32, eInt64}
    BY CarrierIs DEF IsInteger
  <2>2. CASE b = << >>
    BY <2>1, <2>2, Sizes, LenProperties
  <2>3. CASE type \in eChar .. Carrier[T.t] /\ Len(b) = SizeOf[type]
    <3>1. type \in 0 .. 3 /\ type <= Carrier[T.t]
      BY <2>1, <2>3 DEF eChar, eShort, eInt32, eInt64
    <3>2. type \in {0, 1, 2, 3}
      BY <3>1
    <3> QED BY <2>1, <2>3, <3>1, <3>2, Sizes, SMT DEF eChar, eShort, eInt32, eInt64
  <2> QED BY <1>1, <2>2, <2>3 DEF Form
<1>4. w = h \o b
  BY <1>1
<1> HIDE DEF h
<1>5. w \in Seq(WireByte) /\ Len(w) = Len(h) + Len(b)
  BY <1>2, <1>4, ConcatProperties
<1>6. Len(w) > 0 /\ (tag < 15 => Len(w) <= 1 + SizeOf[Carrier[T.t]])
  <2> DEFINE x == Len(w)
             y == Len(h)
             z == Len(b)
             m == SizeOf[Carrier[T.t]]
  <2>1. y \in {1, 2} /\ (tag < 15 => y = 1) /\ z <= m /\ z \in Nat /\ m \in Nat /\ x = y + z
    BY <1>2, <1>3, <1>5
  <2> HIDE DEF x, y, z, m
  <2>2. x > 0 /\ (tag < 15 => x <= 1 + m)
    BY <2>1
  <2> QED BY <2>2 DEF x, m
<1>7. type # eStructEnd
  <2>1. Carrier[T.t] \in {eChar, eShort, eInt32, eInt64}
    BY CarrierIs DEF IsInteger
  <2>2. eStructEnd # eZeroTag /\ eStructEnd \notin eChar .. Carrier[T.t]
    BY <2>1 DEF eStructEnd, eZeroTag, eChar, eShort, eInt32, eInt64
  <2> QED BY <1>1, <2>2 DEF Form
<1>8. ASSUME NEW buf, NEW cur, Lies(buf, cur, w)
      PROVE  /\ Begins(buf, cur, type, tag, Len(h))
             /\ ReadInteger(T, buf, cur + Len(h), type) = Ok(p, cur + Len(w))
  <2> HIDE DEF w
  <2>1. Lies(buf, cur, h) /\ Lies(buf, cur + Len(h), b)
    BY <1>2, <1>4, <1>8, LiesParts
  <2>2. buf \in Seq(WireByte) /\ cur \in Nat /\ cur < Len(buf)
    BY <1>5, <1>6, <1>8, LyingIsInside
  <2>3. Begins(buf, cur, type, tag, Len(h))
    BY <1>2, <1>7, <2>1, <2>2 DEF Begins
  <2>4. ReadInteger(T, buf, cur + Len(h), type) = Ok(p, (cur + Len(h)) + Len(b))
    BY <1>1, <2>1, FormIsRead
  <2>5. (cur + Len(h)) + Len(b) = cur + Len(w)
    BY <1>2, <1>3, <1>5, <2>2
  <2> QED BY <2>3, <2>4, <2>5
<1> HIDE DEF w
<1> QED BY <1>5, <1>6, <1>8 DEF w

(* So for a string,                                                        *)
LEMMA StringField ==
  ASSUME NEW s, IsString(s), NEW tag \in Tag
  PROVE  LET w == WriteString(s, tag)
         IN  /\ w \in Seq(WireByte) /\ Len(w) > 0
             /\ \A buf, cur : Lies(buf, cur, w) =>
                  \E type, n : /\ Begins(buf, cur, type, tag, n)
                               /\ ReadString(buf, cur + n, type) = Ok(s, cur + Len(w))
<1> DEFINE w == WriteString(s, tag)
<1>0. s \in Seq(WireByte) /\ Len(s) <= TARS_MAX_STRING_LENGTH
  BY DEF IsString
<1>1. PICK type \in HeadType, l \in Seq(WireByte) :
        w = TarsWriteToHead(type, tag) \o (l \o s) /\ Prefix(type, l, Len(s))
  BY <1>0, StringForm
<1> DEFINE h == TarsWriteToHead(type, tag)
<1>2. h \in Seq(WireByte) /\ Len(h) \in {1, 2}
  BY HeadIsRead
<1>4. w = h \o (l \o s)
  BY <1>1
<1> HIDE DEF h
<1>5. w \in Seq(WireByte) /\ Len(w) > 0
  <2>1. l \o s \in Seq(WireByte) /\ Len(l \o s) \in Nat
    BY <1>0, ConcatProperties, LenProperties
  <2> DEFINE r == l \o s
             x == Len(h)
  <2>2. w \in Seq(WireByte) /\ Len(w) = x + Len(r)
    <3> HIDE DEF w
    <3> QED BY <1>2, <1>4, <2>1, ConcatProperties
  <2>3. Len(r) \in Nat /\ x \in {1, 2}
    BY <1>2, <2>1
  <2> HIDE DEF r, x
  <2> QED BY <2>2, <2>3
<1>7. ASSUME NEW buf, NEW cur, Lies(buf, cur, w)
      PROVE  \E ty, n : /\ Begins(buf, cur, ty, tag, n)
                        /\ ReadString(buf, cur + n, ty) = Ok(s, cur + Len(w))
  <2>1. PICK ty \in HeadType, n \in {1, 2} :
           /\ TarsPeekFromHead(buf, cur) = Ok([type |-> ty, tag |-> tag, n |-> n], cur)
           /\ ReadString(buf, cur + n, ty) = Ok(s, cur + Len(w))
    BY <1>0, <1>7, StringReadBack
  <2>2. ty # eStructEnd
    <3>3. ReadString(buf, cur + n, eStructEnd) = Throw("Mismatch", cur + n)
      BY DEF ReadString, eStructEnd, eString1, eString4
    <3>4. Throw("Mismatch", cur + n).ex # Ok(s, cur + Len(w)).ex
      BY DEF Throw, Ok
    <3> QED BY <2>1, <3>3, <3>4
  <2>3. buf \in Seq(WireByte) /\ cur \in Nat /\ cur < Len(buf)
    BY <1>5, <1>7, LyingIsInside
  <2> QED BY <2>1, <2>2, <2>3 DEF Begins
<1> HIDE DEF w
<1> QED BY <1>5, <1>7 DEF w

(* the number in front of elements,                                        *)
LEMMA CountIsRead ==
  ASSUME NEW k \in Nat, IsSize(k)
  PROVE  LET w == WriteInt32(k, 0)
         IN  /\ w \in Seq(WireByte) /\ Len(w) > 0
             /\ \A buf, cur : Lies(buf, cur, w) /\ k <= Len(buf) =>
                  ReadCount(SkipFields(buf), buf, cur) = Ok(k, cur + Len(w))
<1> DEFINE w == WriteInt32(k, 0)
           U == [t |-> "UInt32"]
<1>1. I(k) = <<0, k>> /\ I(k)[1] = 0 /\ I(k)[2] = k /\ ~(k < 0)
  BY DEF I
<1>2. w = WriteInt64(I(k), 0)
  BY <1>1 DEF WriteInt64, FitsInt32
<1>3. IsInteger(U) /\ I(k) \in IntegersOf(U.t) /\ 0 \in Tag /\ U.t = "UInt32"
  <2>1. k \in Half
    BY SMT DEF Half, Int32Value, Between, IsSize
  <2>2. IsInteger(U)
    BY CarrierIs DEF IsInteger
  <2> QED BY <1>1, <2>1, <2>2 DEF IntegersOf, Tag
<1>4. /\ w \in Seq(WireByte) /\ Len(w) > 0
      /\ \A buf, cur : Lies(buf, cur, w) =>
           \E type, n : /\ Begins(buf, cur, type, 0, n)
                        /\ ReadInteger(U, buf, cur + n, type) = Ok(I(k), cur + Len(w))
  <2> DEFINE q == I(k)
             x == WriteInt64(q, 0)
  <2>1. q \in IntegersOf(U.t) /\ IsInteger(U) /\ 0 \in Tag /\ w = x
    BY <1>2, <1>3, Zenon
  <2> HIDE DEF U, w, q
  <2>2. /\ x \in Seq(WireByte) /\ Len(x) > 0
        /\ \A buf, cur : Lies(buf, cur, x) =>
             \E type, n : /\ Begins(buf, cur, type, 0, n)
                          /\ ReadInteger(U, buf, cur + n, type) = Ok(q, cur + Len(x))
    BY ONLY <2>1, IntegerField, Zenon
  <2> HIDE DEF x
  <2> QED BY <2>1, <2>2, Zenon DEF q
<1>5. ASSUME NEW buf, NEW cur, Lies(buf, cur, w), k <= Len(buf)
      PROVE  ReadCount(SkipFields(buf), buf, cur) = Ok(k, cur + Len(w))
  <2>1. PICK type, n : /\ Begins(buf, cur, type, 0, n)
                       /\ ReadInteger(U, buf, cur + n, type) = Ok(I(k), cur + Len(w))
    BY <1>4, <1>5
  <2>2. TarsSkipToTag(buf, cur, 0) = [found |-> TRUE, type |-> type, cur |-> cur + n]
    BY <2>1, FieldIsFound
  <2>3. RequiredInteger(U, buf, TarsSkipToTag(buf, cur, 0)) = Ok(I(k), cur + Len(w))
    BY <2>1, <2>2 DEF RequiredInteger
  <2>4. ~(I(k)[2] < 0 \/ I(k)[2] > Len(buf))
    <3>1. Len(buf) \in Nat
      BY <2>1, LenProperties DEF Begins
    <3> QED BY <1>1, <1>5, <3>1
  <2> DEFINE r == RequiredInteger(U, buf, TarsSkipToTag(buf, cur, 0))
  <2>5. r.ex = "" /\ r.v = I(k) /\ r.cur = cur + Len(w)
    <3> DEFINE v == I(k)
               z == cur + Len(w)
    <3>1. r = Ok(v, z)
      BY <2>3, Zenon
    <3> HIDE DEF r, v, z
    <3>2. r.ex = "" /\ r.v = v /\ r.cur = z
      BY ONLY <3>1, AllOk, Zenon
    <3> QED BY ONLY <3>2, Zenon DEF v, z
  <2>6. ReadCount(SkipFields(buf), buf, cur) = IF r.ex # "" THEN r
                              ELSE IF r.v[2] < 0 \/ r.v[2] > Len(buf) THEN Throw("InvalidValue", r.cur)
                              ELSE Ok(r.v[2], r.cur)
    BY Zenon DEF ReadCount, Then, TarsSkipToTag, U, r
  <2> HIDE DEF w, r
  <2> QED BY <1>1, <2>4, <2>5, <2>6, Zenon
<1> HIDE DEF w
<1> QED BY <1>4, <1>5 DEF w

(* and a vector of bytes, whose length is read before them.                *)
LEMMA BytesField ==
  ASSUME NEW v \in Seq(WireByte), IsSize(Len(v)), NEW tag \in Tag
  PROVE  LET w == WriteBytes(v, tag)
         IN  /\ w \in Seq(WireByte) /\ Len(w) > 0
             /\ \A buf, cur : Lies(buf, cur, w) =>
                  \E type, n : /\ Begins(buf, cur, type, tag, n)
                               /\ ReadBytes(SkipFields(buf), buf, cur + n, type) = Ok(v, cur + Len(w))
<1> DEFINE w == WriteBytes(v, tag)
           h == TarsWriteToHead(eSimpleList, tag)
           c == TarsWriteToHead(eChar, 0)
           l == WriteInt32(Len(v), 0)
<1>0. /\ eSimpleList \in HeadType /\ eChar \in HeadType /\ 0 \in Tag /\ eSimpleList # eStructEnd
      /\ Len(v) \in Nat
  BY LenProperties DEF eSimpleList, eChar, HeadType, Tag, eStructEnd
<1>1. /\ h \in Seq(WireByte) /\ Len(h) \in {1, 2}
      /\ \A buf, cur : Lies(buf, cur, h) => TarsPeekFromHead(buf, cur)
             = Ok([type |-> eSimpleList, tag |-> tag, n |-> Len(h)], cur)
      /\ c \in Seq(WireByte) /\ Len(c) \in {1, 2}
      /\ \A buf, cur : Lies(buf, cur, c) => TarsPeekFromHead(buf, cur)
             = Ok([type |-> eChar, tag |-> 0, n |-> Len(c)], cur)
  BY <1>0, HeadIsRead
<1>2. /\ l \in Seq(WireByte)
      /\ \A buf, cur : Lies(buf, cur, l) /\ Len(v) <= Len(buf) =>
           ReadCount(SkipFields(buf), buf, cur) = Ok(Len(v), cur + Len(l))
  BY <1>0, CountIsRead
<1>3. w = ((h \o c) \o l) \o v
  BY DEF WriteBytes
<1> HIDE DEF h, c, l, w
<1>4. /\ h \o c \in Seq(WireByte) /\ Len(h \o c) = Len(h) + Len(c)
      /\ (h \o c) \o l \in Seq(WireByte) /\ Len((h \o c) \o l) = Len(h \o c) + Len(l)
      /\ w \in Seq(WireByte) /\ Len(w) = Len((h \o c) \o l) + Len(v)
  <2>1. h \o c \in Seq(WireByte) /\ Len(h \o c) = Len(h) + Len(c)
    BY <1>1, ConcatProperties
  <2>2. (h \o c) \o l \in Seq(WireByte) /\ Len((h \o c) \o l) = Len(h \o c) + Len(l)
    BY <1>2, <2>1, ConcatProperties
  <2> QED BY <1>3, <2>1, <2>2, ConcatProperties
<1>5. Len(l) \in Nat /\ Len(w) = ((Len(h) + Len(c)) + Len(l)) + Len(v) /\ Len(w) > 0
  <2>1. Len(l) \in Nat
    BY <1>2, LenProperties
  <2> DEFINE x == Len(w)
             a == Len(h)
             b == Len(c)
             d == Len(l)
             e == Len(v)
             hc == Len(h \o c)
             hcl == Len((h \o c) \o l)
  <2>2. /\ x = hcl + e /\ hcl = hc + d /\ hc = a + b
        /\ a \in {1, 2} /\ b \in {1, 2} /\ d \in Nat /\ e \in Nat
    BY <1>0, <1>1, <1>4, <2>1, Zenon
  <2> HIDE DEF x, a, b, d, e, hc, hcl
  <2>3. d \in Nat /\ x = ((a + b) + d) + e /\ x > 0
    BY ONLY <2>2, SMT
  <2> QED BY <2>3, Zenon DEF x, a, b, d, e
<1>6. ASSUME NEW buf, NEW cur, Lies(buf, cur, w)
      PROVE  /\ Begins(buf, cur, eSimpleList, tag, Len(h))
             /\ ReadBytes(SkipFields(buf), buf, cur + Len(h), eSimpleList) = Ok(v, cur + Len(w))
  <2>1. /\ Lies(buf, cur, (h \o c) \o l) /\ Lies(buf, cur + Len((h \o c) \o l), v)
    BY <1>3, <1>4, <1>6, LiesParts
  <2>2. Lies(buf, cur, h \o c) /\ Lies(buf, cur + Len(h \o c), l)
    BY <1>2, <1>4, <2>1, LiesParts
  <2>3. Lies(buf, cur, h) /\ Lies(buf, cur + Len(h), c)
    BY <1>1, <2>2, LiesParts
  <2>4. buf \in Seq(WireByte) /\ cur \in Nat /\ cur < Len(buf) /\ cur + Len(w) <= Len(buf)
    BY <1>4, <1>5, <1>6, LyingIsInside
  <2> DEFINE d == (cur + Len(h)) + Len(c)
  <2>5. /\ cur + Len(h \o c) = d /\ cur + Len((h \o c) \o l) = d + Len(l)
        /\ (d + Len(l)) + Len(v) = cur + Len(w) /\ Len(v) <= Len(buf)
    <3>1. Len(buf) \in Nat
      BY <2>4, LenProperties
    <3> QED BY <1>0, <1>1, <1>4, <1>5, <2>4, <3>1
  <2>6. /\ TarsPeekFromHead(buf, cur + Len(h))
             = Ok([type |-> eChar, tag |-> 0, n |-> Len(c)], cur + Len(h))
        /\ ReadCount(SkipFields(buf), buf, d) = Ok(Len(v), d + Len(l))
        /\ TarsReadBuf(buf, d + Len(l), Len(v)) = Ok(v, cur + Len(w))
    <3> HIDE DEF d
    <3>1. ReadCount(SkipFields(buf), buf, d) = Ok(Len(v), d + Len(l))
      BY <1>2, <2>2, <2>5
    <3>2. TarsReadBuf(buf, d + Len(l), Len(v)) = Ok(v, cur + Len(w))
      BY <2>1, <2>5, LyingIsRead
    <3> QED BY <1>1, <2>3, <3>1, <3>2
  <2>7. ReadBytes(SkipFields(buf), buf, cur + Len(h), eSimpleList) = Ok(v, cur + Len(w))
    <3> DEFINE p == cur + Len(h)
               e == [type |-> eChar, tag |-> 0, n |-> Len(c)]
               peek == TarsPeekFromHead(buf, p)
               count == ReadCount(SkipFields(buf), buf, d)
               end == d + Len(l)
               k == Len(v)
    <3>1. e.type = eChar /\ e.n = Len(c) /\ p + e.n = d
      BY Zenon
    <3>2. peek = Ok(e, p) /\ count = Ok(k, end) /\ TarsReadBuf(buf, end, k) = Ok(v, cur + Len(w))
      BY <2>6, Zenon
    <3> HIDE DEF d, p, e, peek, count, end, k
    <3>3. /\ peek.ex = "" /\ peek.v = e /\ peek.cur = p
          /\ count.ex = "" /\ count.v = k /\ count.cur = end
      BY ONLY <3>2, AllOk, Zenon
    <3>4. ReadBytes(SkipFields(buf), buf, p, eSimpleList) =
            IF peek.ex # "" THEN peek
            ELSE IF peek.v.type # eChar THEN Throw("Mismatch", peek.cur + peek.v.n)
            ELSE LET r == ReadCount(SkipFields(buf), buf, peek.cur + peek.v.n)
                 IN  IF r.ex # "" THEN r ELSE TarsReadBuf(buf, r.cur, r.v)
      BY Zenon DEF ReadBytes, Then, peek
    <3>5. peek.v.type = eChar /\ ReadCount(SkipFields(buf), buf, peek.cur + peek.v.n) = count
      BY <3>1, <3>3, Zenon DEF count
    <3> QED BY <3>2, <3>3, <3>4, <3>5, Zenon DEF p
  <2>8. Begins(buf, cur, eSimpleList, tag, Len(h))
    BY <1>0, <1>1, <2>3, <2>4 DEF Begins
  <2> QED BY <2>7, <2>8
<1> QED BY <1>4, <1>5, <1>6 DEF w

-----------------------------------------------------------------------------
(***************************************************************************)
(* Texts one behind the other.                                             *)
(***************************************************************************)

(* Every text of ss is a sequence of bytes.                                *)
Texts(ss) == Len(ss) \in Nat /\ \A i \in 1 .. Len(ss) : ss[i] \in Seq(WireByte)

(* How long the first i are together.                                      *)
Off(ss, i) == Len(Joined(ss)[i])

(* The texts before each place are bytes, as long as all of them together. *)
LEMMA JoinedFacts ==
  ASSUME NEW ss, Texts(ss)
  PROVE  /\ Joined(ss)[0] = << >> /\ Off(ss, 0) = 0
         /\ \A i \in 0 .. Len(ss) : Joined(ss)[i] \in Seq(WireByte) /\ Off(ss, i) \in Nat
         /\ \A i \in 1 .. Len(ss) :
              /\ Joined(ss)[i] = Joined(ss)[i - 1] \o ss[i]
              /\ Len(ss[i]) \in Nat /\ Off(ss, i) = Off(ss, i - 1) + Len(ss[i])
<1> DEFINE J(i) == Joined(ss)[i]
           n == Len(ss)
<1>1. /\ n \in Nat /\ J(0) = << >>
      /\ \A i \in 1 .. n : J(i) = J(i - 1) \o ss[i]
      /\ \A i \in 1 .. n : ss[i] \in Seq(WireByte)
  BY JoinedIs DEF Texts
<1> HIDE DEF J, n
<1>2. \A i \in 0 .. n : J(i) \in Seq(WireByte)
  <2> DEFINE S == {i \in Nat : i <= n => J(i) \in Seq(WireByte)}
  <2>1. 0 \in S
    <3>1. << >> \in Seq(WireByte) /\ 0 \in Nat
      BY EmptySeq
    <3> QED BY <1>1, <3>1, Zenon
  <2>2. ASSUME NEW i \in Nat, i \in S PROVE i + 1 \in S
    <3> SUFFICES ASSUME i + 1 <= n PROVE J(i + 1) \in Seq(WireByte)
      OBVIOUS
    <3>1. i + 1 \in 1 .. n /\ (i + 1) - 1 = i /\ J(i) \in Seq(WireByte)
      BY <1>1, <2>2
    <3>2. J(i + 1) = J(i) \o ss[i + 1] /\ ss[i + 1] \in Seq(WireByte)
      BY <1>1, <3>1
    <3> QED BY <3>1, <3>2, ConcatProperties
  <2> HIDE DEF S
  <2>3. Nat \subseteq S
    BY <2>1, <2>2, SetInduction
  <2> QED BY <1>1, <2>3 DEF S
<1>3. ASSUME NEW i \in 1 .. n
      PROVE  Len(ss[i]) \in Nat /\ Len(J(i)) = Len(J(i - 1)) + Len(ss[i])
  <2>1. i - 1 \in 0 .. n
    BY <1>1
  <2> QED BY <1>1, <1>2, <2>1, ConcatProperties, LenProperties
<1>4. \A i \in 0 .. n : Len(J(i)) \in Nat
  BY <1>2, LenProperties
<1>5. Len(J(0)) = 0
  BY <1>1
<1> QED BY <1>1, <1>2, <1>3, <1>4, <1>5 DEF J, n, Off

(* A later text does not begin before an earlier one.                      *)
LEMMA OffGrows ==
  ASSUME NEW ss, Texts(ss), NEW i \in 0 .. Len(ss), NEW j \in i .. Len(ss)
  PROVE  Off(ss, i) <= Off(ss, j)
<1> DEFINE n == Len(ss)
           o(k) == Off(ss, k)
           S == {k \in Nat : i + k <= n => o(i) <= o(i + k)}
<1>1. /\ n \in Nat /\ \A k \in 0 .. n : o(k) \in Nat
      /\ \A k \in 1 .. n : o(k) = o(k - 1) + Len(ss[k]) /\ Len(ss[k]) \in Nat
  BY JoinedFacts DEF Texts
<1>0. i \in 0 .. n /\ j \in i .. n
  OBVIOUS
<1> HIDE DEF n, o
<1>2. 0 \in S
  <2>1. i + 0 = i /\ o(i) \in Nat
    BY <1>0, <1>1
  <2> QED BY <2>1
<1>3. ASSUME NEW k \in Nat, k \in S PROVE k + 1 \in S
  <2> SUFFICES ASSUME i + (k + 1) <= n PROVE o(i) <= o(i + (k + 1))
    OBVIOUS
  <2>1. i + (k + 1) \in 1 .. n /\ (i + (k + 1)) - 1 = i + k /\ i + k \in 0 .. n /\ i + k <= n
    BY <1>0, <1>1
  <2>2. o(i) <= o(i + k)
    BY <1>3, <2>1
  <2>3. o(i + (k + 1)) = o(i + k) + Len(ss[i + (k + 1)]) /\ Len(ss[i + (k + 1)]) \in Nat
    BY <1>1, <2>1
  <2>4. o(i + k) \in Nat /\ o(i) \in Nat
    BY <1>0, <1>1, <2>1
  <2>5. \A a, b, c, d \in Nat : a <= b /\ c = b + d => a <= c
    OBVIOUS
  <2>6. o(i + (k + 1)) \in Nat
    BY <1>1, <2>1
  <2> QED BY <2>2, <2>3, <2>4, <2>5, <2>6, Zenon
<1> HIDE DEF S
<1>4. Nat \subseteq S
  BY <1>2, <1>3, SetInduction
<1>5. j - i \in Nat /\ i + (j - i) = j /\ j <= n
  BY <1>0, <1>1
<1>6. i + (j - i) <= n => o(i) <= o(i + (j - i))
  BY <1>4, <1>5 DEF S
<1> QED BY <1>5, <1>6 DEF o

(* Texts that are not empty are together as long as they are many.         *)
LEMMA OffCounts ==
  ASSUME NEW ss, Texts(ss), \A i \in 1 .. Len(ss) : Len(ss[i]) > 0, NEW i \in 0 .. Len(ss)
  PROVE  i <= Off(ss, i)
<1> DEFINE n == Len(ss)
           o(k) == Off(ss, k)
           S == {k \in Nat : k <= n => k <= o(k)}
<1>1. /\ n \in Nat /\ o(0) = 0 /\ \A k \in 0 .. n : o(k) \in Nat
      /\ \A k \in 1 .. n : o(k) = o(k - 1) + Len(ss[k]) /\ Len(ss[k]) \in Nat /\ Len(ss[k]) > 0
  BY JoinedFacts DEF Texts
<1>0. i \in 0 .. n
  OBVIOUS
<1> HIDE DEF n, o
<1>2. 0 \in S
  BY <1>1
<1>3. ASSUME NEW k \in Nat, k \in S PROVE k + 1 \in S
  <2> SUFFICES ASSUME k + 1 <= n PROVE k + 1 <= o(k + 1)
    OBVIOUS
  <2>1. k + 1 \in 1 .. n /\ (k + 1) - 1 = k /\ k \in 0 .. n
    BY <1>1
  <2>2. k <= o(k) /\ o(k) \in Nat
    BY <1>1, <1>3, <2>1
  <2>3. o(k + 1) = o(k) + Len(ss[k + 1]) /\ Len(ss[k + 1]) \in Nat /\ Len(ss[k + 1]) > 0
    BY <1>1, <2>1
  <2> QED BY <2>2, <2>3
<1> HIDE DEF S
<1>4. Nat \subseteq S
  BY <1>2, <1>3, SetInduction
<1>5. i <= o(i)
  BY <1>0, <1>1, <1>4 DEF S
<1> QED BY <1>5 DEF o

(* Where the texts lie together, each lies at its place.                   *)
LEMMA PartsLie ==
  ASSUME NEW ss, Texts(ss), NEW buf, NEW cur, NEW m \in 0 .. Len(ss), Lies(buf, cur, Joined(ss)[m])
  PROVE  \A i \in 1 .. m : Lies(buf, cur, Joined(ss)[i]) /\ Lies(buf, cur + Off(ss, i - 1), ss[i])
<1> DEFINE n == Len(ss)
           J(k) == Joined(ss)[k]
           S == {k \in Nat : k <= m => Lies(buf, cur, J(m - k))}
<1>1. /\ n \in Nat /\ \A k \in 0 .. n : J(k) \in Seq(WireByte)
      /\ \A k \in 1 .. n : J(k) = J(k - 1) \o ss[k] /\ ss[k] \in Seq(WireByte)
      /\ m \in 0 .. n /\ Lies(buf, cur, J(m))
  BY JoinedFacts DEF Texts
<1> HIDE DEF n, J
<1>2. ASSUME NEW k \in 1 .. m, Lies(buf, cur, J(k))
      PROVE  Lies(buf, cur, J(k - 1)) /\ Lies(buf, cur + Len(J(k - 1)), ss[k])
  <2>1. k \in 1 .. n /\ k - 1 \in 0 .. n
    BY <1>1
  <2>2. J(k) = J(k - 1) \o ss[k] /\ J(k - 1) \in Seq(WireByte) /\ ss[k] \in Seq(WireByte)
    BY <1>1, <2>1
  <2> QED BY <1>2, <2>2, LiesParts
<1>3. 0 \in S
  <2>1. m - 0 = m
    BY <1>1
  <2> QED BY <1>1, <2>1
<1>4. ASSUME NEW k \in Nat, k \in S PROVE k + 1 \in S
  <2> SUFFICES ASSUME k + 1 <= m PROVE Lies(buf, cur, J(m - (k + 1)))
    OBVIOUS
  <2>1. m - k \in 1 .. m /\ (m - k) - 1 = m - (k + 1) /\ k <= m
    BY <1>1
  <2> QED BY <1>2, <1>4, <2>1
<1> HIDE DEF S
<1>5. Nat \subseteq S
  BY <1>3, <1>4, SetInduction
<1>6. ASSUME NEW i \in 1 .. m PROVE Lies(buf, cur, J(i))
  <2>1. m - i \in Nat /\ m - i <= m /\ m - (m - i) = i
    BY <1>1
  <2>2. Lies(buf, cur, J(m - (m - i)))
    BY <1>5, <2>1 DEF S
  <2> QED BY <2>1, <2>2
<1> QED BY <1>2, <1>6 DEF J, Off

-----------------------------------------------------------------------------
(***************************************************************************)
(* Reading a member back.                                                  *)
(***************************************************************************)

(* The types without others inside them that a packet has                  *)
IsPlain(T) == IsInteger(T) \/ T.t = "string" \/ T.t = "bytes"

(* are written and read in the same way wherever they are.                 *)
LEMMA PlainLevels ==
  ASSUME NEW T, IsPlain(T), NEW v, NEW tag, NEW buf, NEW cur, NEW type
  PROVE  /\ Write(T, v, tag) = WritePlain(T, v, tag) /\ Write2(T, v, tag) = WritePlain(T, v, tag)
         /\ ReadBody(T, SkipFields(buf), buf, cur, type) = ReadPlain(T, SkipFields(buf), buf, cur, type)
         /\ Read2(T, SkipFields(buf), buf, cur, type) = ReadPlain(T, SkipFields(buf), buf, cur, type)
<1>1. T.t # "list" /\ T.t # "map" /\ T.t # "struct"
  BY CarrierIs DEF IsPlain, IsInteger
<1>2. /\ Write(T, v, tag) = WritePlain(T, v, tag) /\ Write2(T, v, tag) = WritePlain(T, v, tag)
  BY <1>1, Zenon DEF Write, Write2, WriteNested
<1>3. /\ ReadBody(T, SkipFields(buf), buf, cur, type) = ReadPlain(T, SkipFields(buf), buf, cur, type)
      /\ Read2(T, SkipFields(buf), buf, cur, type) = ReadPlain(T, SkipFields(buf), buf, cur, type)
  BY <1>1, Zenon DEF ReadBody, Read2, ReadNested
<1> QED BY <1>2, <1>3

(* A value of an integer type is one that its bytes can hold.              *)
LEMMA NumberIs ==
  ASSUME NEW t \in DOMAIN Carrier, NEW p, IsNumber(t, p)
  PROVE  p \in IntegersOf(t)
<1>0. Int32Value = Half
  BY Zenon DEF Half
<1>1. /\ DOMAIN Limits = {"Bool", "Char", "UInt8", "Short", "UInt16", "Int32"}
      /\ Limits["Bool"] = Between(0, 1) /\ Limits["Char"] = Between(-128, 127)
      /\ Limits["UInt8"] = Between(0, 255) /\ Limits["Short"] = Between(-32768, 32767)
      /\ Limits["UInt16"] = Between(0, 65535) /\ Limits["Int32"] = Half
  BY <1>0, SMT DEF Limits
<1>2. CASE t \in DOMAIN Limits
  <2>1. p[2] \in Limits[t] /\ p = I(p[2])
    <3>1. t # "UInt32" /\ t # "Int64"
      BY <1>1, <1>2
    <3> QED BY <1>2, <3>1, Zenon DEF IsNumber
  <2> DEFINE n == p[2]
  <2>2. n \in Limits[t] /\ p = I(n)
    BY <2>1
  <2> HIDE DEF n
  <2> QED BY <1>1, <1>2, <2>2 DEF IntegersOf
<1>3. CASE t = "UInt32"
  <2>1. p[2] \in Half /\ p = <<0, p[2]>>
    BY <1>0, <1>1, <1>3 DEF IsNumber
  <2> QED BY <1>3, <2>1 DEF IntegersOf
<1>4. CASE t = "Int64"
  <2>1. p[1] \in Half /\ p[2] \in Half /\ p = <<p[1], p[2]>>
    BY <1>0, <1>1, <1>4 DEF IsNumber
  <2> QED BY <1>4, <2>1 DEF IntegersOf
<1> QED BY <1>1, <1>2, <1>3, <1>4, CarrierIs

(* A value that is no list, map or struct is found by its tag and read.    *)
LEMMA PlainReadBack ==
  ASSUME NEW T, IsPlain(T), NEW v, IsValue(T, v), NEW tag \in Tag
  PROVE  LET w == WritePlain(T, v, tag)
         IN  /\ w \in Seq(WireByte) /\ Len(w) > 0
             /\ \A buf, cur : Lies(buf, cur, w) =>
                  \E type, n : /\ Begins(buf, cur, type, tag, n)
                               /\ ReadPlain(T, SkipFields(buf), buf, cur + n, type) = Ok(v, cur + Len(w))
<1>0. /\ "string" \notin DOMAIN Carrier /\ "bytes" \notin DOMAIN Carrier /\ "map" \notin DOMAIN Carrier
      /\ "float" \notin DOMAIN Carrier /\ "double" \notin DOMAIN Carrier /\ StringMap.t = "map"
  BY CarrierIs DEF StringMap
<1>1. CASE IsInteger(T)
  <2>0. /\ T.t \in DOMAIN Carrier /\ T.t # "string" /\ T.t # "bytes" /\ T.t # "float"
        /\ T.t # "double" /\ T # StringMap
    BY <1>0, <1>1 DEF IsInteger
  <2>1. v \in IntegersOf(T.t)
    <3>1. IsNumber(T.t, v)
      BY <1>1, <2>0, Zenon DEF IsValue
    <3> QED BY <2>0, <3>1, NumberIs
  <2>2. WritePlain(T, v, tag) = WriteInt64(v, tag)
    BY <1>1, <2>0, Zenon DEF WritePlain
  <2>3. \A buf, cur, type :
          ReadPlain(T, SkipFields(buf), buf, cur, type) = ReadInteger(T, buf, cur, type)
    BY <1>1, <2>0, Zenon DEF ReadPlain
  <2> QED BY <1>1, <2>1, <2>2, <2>3, IntegerField
<1>2. CASE T.t = "string"
  <2>1. ~IsInteger(T) /\ T # StringMap
    BY <1>0, <1>2 DEF IsInteger
  <2>2. IsString(v)
    BY <1>2, <2>1, Zenon DEF IsValue
  <2>3. WritePlain(T, v, tag) = WriteString(v, tag)
    BY <1>2, <2>1 DEF WritePlain
  <2>4. \A buf, cur, type : ReadPlain(T, SkipFields(buf), buf, cur, type) = ReadString(buf, cur, type)
    BY <1>2, <2>1 DEF ReadPlain
  <2> QED BY <2>2, <2>3, <2>4, StringField
<1>3. CASE T.t = "bytes"
  <2>1. ~IsInteger(T) /\ T # StringMap
    BY <1>0, <1>3 DEF IsInteger
  <2>2. v \in Seq(WireByte) /\ IsSize(Len(v))
    BY <1>3, <2>1, Zenon DEF IsValue
  <2>3. WritePlain(T, v, tag) = WriteBytes(v, tag)
    BY <1>3, <2>1 DEF WritePlain
  <2>4. \A buf, cur, type : ReadPlain(T, SkipFields(buf), buf, cur, type)
                             = ReadBytes(SkipFields(buf), buf, cur, type)
    BY <1>3, <2>1 DEF ReadPlain
  <2> QED BY <2>2, <2>3, <2>4, BytesField
<1> QED BY <1>1, <1>2, <1>3 DEF IsPlain

(* The search for a tag and the read at what it finds, for a string in a   *)
(* map; Read is the one for a member.                                      *)
InnerRead(T, buf, cur, tag) == ReadField(Read2, T, SkipFields(buf), buf, cur, tag, TRUE, << >>)

(* The functions of the cursor that the reads of a map and of a packet are *)
(* given.                                                                  *)
InnerReader(T, buf, tag) == Reader(Read2, T, SkipFields(buf), buf, tag, TRUE, << >>)
MemberReader(f, buf) == Reader(ReadBody, f.type, SkipFields(buf), buf, f.tag, f.req, f.def)

(* Such a function is the read itself.                                     *)
LEMMA ReaderReads ==
  ASSUME NEW buf, NEW cur \in Nat
  PROVE  /\ \A T, tag : InnerReader(T, buf, tag)[cur] = InnerRead(T, buf, cur, tag)
         /\ \A f : MemberReader(f, buf)[cur] = Read(f.type, buf, cur, f.tag, f.req, f.def)
<1>1. ASSUME NEW T, NEW tag PROVE InnerReader(T, buf, tag)[cur] = InnerRead(T, buf, cur, tag)
  BY Zenon DEF InnerReader, InnerRead, Reader, ReadField, ReadFound, TarsSkipToTag
<1>2. ASSUME NEW f PROVE MemberReader(f, buf)[cur] = Read(f.type, buf, cur, f.tag, f.req, f.def)
  BY Zenon DEF MemberReader, Read, Reader, ReadField, ReadFound, TarsSkipToTag
<1> QED BY <1>1, <1>2

(* A field that is there is read,                                          *)
LEMMA FieldIsRead ==
  ASSUME NEW buf, NEW cur, NEW type, NEW tag, NEW n, Begins(buf, cur, type, tag, n)
  PROVE  /\ \A T, req, x : Read(T, buf, cur, tag, req, x)
                            = ReadBody(T, SkipFields(buf), buf, cur + n, type)
         /\ \A T : InnerRead(T, buf, cur, tag) = Read2(T, SkipFields(buf), buf, cur + n, type)
<1> DEFINE f == TarsSkipToTag(buf, cur, tag)
<1>1. f = [found |-> TRUE, type |-> type, cur |-> cur + n]
  BY FieldIsFound
<1>2. f.found /\ f.type = type /\ f.cur = cur + n
  BY <1>1
<1> HIDE DEF f
<1> QED BY <1>2, Zenon DEF Read, InnerRead, ReadField, ReadFound, TarsSkipToTag, f

(* and one that was left out keeps its default.                            *)
Beyond(buf, cur, i) ==
    \/ buf \in Seq(WireByte) /\ cur \in Nat /\ cur >= Len(buf)
    \/ \E type, tag, n : Begins(buf, cur, type, tag, n) /\ tag > i

(* An optional member that is not there is read as its default.            *)
LEMMA MissingIsRead ==
  ASSUME NEW buf, NEW cur, NEW i \in Int, Beyond(buf, cur, i)
  PROVE  \A T, x : Read(T, buf, cur, i, FALSE, x) = Ok(x, cur)
<1> DEFINE f == TarsSkipToTag(buf, cur, i)
<1>1. f = NotFound(cur)
  <2>1. CASE buf \in Seq(WireByte) /\ cur \in Nat /\ cur >= Len(buf)
    BY <2>1, NothingAtEnd
  <2>2. CASE \E type, tag, n : Begins(buf, cur, type, tag, n) /\ tag > i
    <3>1. PICK type, tag, n : Begins(buf, cur, type, tag, n) /\ tag > i
      BY <2>2
    <3>2. tag \in Int /\ i < tag
      BY <3>1 DEF Begins, Tag
    <3> QED BY <3>1, <3>2, FieldIsFound
  <2> QED BY <2>1, <2>2 DEF Beyond
<1>2. ~f.found /\ f.cur = cur
  BY <1>1 DEF NotFound
<1> HIDE DEF f
<1> QED BY <1>2, Zenon DEF Read, ReadField, ReadFound, TarsSkipToTag, f

-----------------------------------------------------------------------------
(***************************************************************************)
(* Maps of strings.                                                        *)
(***************************************************************************)

Text == Kind("string")

(* A round of the loop that reads its pairs.                               *)
PairRead(buf, r) == ReadPair(InnerReader(Text, buf, 0), InnerReader(Text, buf, 1), r)

(* A pair of a map of strings, as it is written                            *)
PairText(q) == WriteString(q[1], 0) \o WriteString(q[2], 1)

(* and as the loop of the reader takes it into the map: insert leaves the  *)
(* pairs that are there, and no key is there twice.                        *)
LEMMA PairIsRead ==
  ASSUME NEW q, IsString(q[1]), IsString(q[2])
  PROVE  /\ PairText(q) \in Seq(WireByte) /\ Len(PairText(q)) > 0
         /\ \A m, buf, cur : Lies(buf, cur, PairText(q)) /\ (\A i \in DOMAIN m : m[i][1] # q[1]) =>
              PairRead(buf, Ok(m, cur))
                = Ok(Append(m, <<q[1], q[2]>>), cur + Len(PairText(q)))
<1> DEFINE k == q[1]
           e == q[2]
           a == WriteString(k, 0)
           b == WriteString(e, 1)
           T == StringMap
<1>0. T.k = Text /\ T.e = Text /\ Text.t = "string" /\ 0 \in Tag /\ 1 \in Tag
  BY DEF StringMap, Text, Kind, Tag
<1>1. /\ a \in Seq(WireByte) /\ Len(a) > 0
      /\ \A buf, cur : Lies(buf, cur, a) =>
           \E type, n : /\ Begins(buf, cur, type, 0, n)
                        /\ ReadString(buf, cur + n, type) = Ok(k, cur + Len(a))
  BY <1>0, StringField
<1>2. /\ b \in Seq(WireByte) /\ Len(b) > 0
      /\ \A buf, cur : Lies(buf, cur, b) =>
           \E type, n : /\ Begins(buf, cur, type, 1, n)
                        /\ ReadString(buf, cur + n, type) = Ok(e, cur + Len(b))
  BY <1>0, StringField
<1>3. PairText(q) = a \o b
  BY DEF PairText
<1>4. \A buf, cur, type : Read2(Text, SkipFields(buf), buf, cur, type) = ReadString(buf, cur, type)
  <2>1. IsPlain(Text) /\ ~IsInteger(Text)
    BY <1>0, CarrierIs DEF IsPlain, IsInteger
  <2>2. \A buf, cur, type : ReadPlain(Text, SkipFields(buf), buf, cur, type) = ReadString(buf, cur, type)
    BY <1>0, <2>1 DEF ReadPlain
  <2> QED BY <2>1, <2>2, PlainLevels
<1> HIDE DEF a, b, T
<1>5. a \o b \in Seq(WireByte) /\ Len(a \o b) = Len(a) + Len(b) /\ Len(a) \in Nat /\ Len(b) \in Nat
  BY <1>1, <1>2, ConcatProperties, LenProperties
<1>6. Len(a \o b) > 0
  BY <1>1, <1>5
<1>7. ASSUME NEW m, NEW buf, NEW cur, Lies(buf, cur, a \o b), \A i \in DOMAIN m : m[i][1] # k
      PROVE  PairRead(buf, Ok(m, cur)) = Ok(Append(m, <<k, e>>), cur + Len(a \o b))
  <2>1. Lies(buf, cur, a) /\ Lies(buf, cur + Len(a), b)
    BY <1>1, <1>2, <1>7, LiesParts
  <2>2. PICK t1, n1 : Begins(buf, cur, t1, 0, n1) /\ ReadString(buf, cur + n1, t1) = Ok(k, cur + Len(a))
    BY <1>1, <2>1
  <2> DEFINE c == cur + Len(a)
  <2>3. PICK t2, n2 : Begins(buf, c, t2, 1, n2) /\ ReadString(buf, c + n2, t2) = Ok(e, c + Len(b))
    BY <1>2, <2>1
  <2>4. c + Len(b) = cur + Len(a \o b)
    <3>1. cur \in Nat
      BY <2>1 DEF Lies
    <3> QED BY <1>5, <3>1
  <2>11. cur \in Nat /\ c \in Nat
    BY <1>5, <2>1 DEF Lies
  <2> HIDE DEF c
  <2> DEFINE r1 == InnerRead(T.k, buf, cur, 0)
             r2 == InnerRead(T.e, buf, c, 1)
             new == Append(m, <<k, e>>)
  <2>5. r1 = Ok(k, c)
    <3>1. \A U : InnerRead(U, buf, cur, 0) = Read2(U, SkipFields(buf), buf, cur + n1, t1)
      BY <2>2, FieldIsRead
    <3> QED BY <1>0, <1>4, <2>2, <3>1 DEF c
  <2>6. r2 = Ok(e, c + Len(b))
    <3>1. \A U : InnerRead(U, buf, c, 1) = Read2(U, SkipFields(buf), buf, c + n2, t2)
      BY <2>3, FieldIsRead
    <3> QED BY <1>0, <1>4, <2>3, <3>1
  <2>7. /\ r1.ex = "" /\ r1.v = k /\ r1.cur = c
        /\ r2.ex = "" /\ r2.v = e /\ r2.cur = cur + Len(a \o b)
        /\ Ok(m, cur).ex = "" /\ Ok(m, cur).v = m /\ Ok(m, cur).cur = cur
        /\ Ok(new, r2.cur).ex = ""
    <3> HIDE DEF r1, r2, new, k, e
    <3>1. r2 = Ok(e, cur + Len(a \o b))
      BY <2>4, <2>6
    <3>2. r1.ex = "" /\ r1.v = k /\ r1.cur = c
      BY <2>5, OkIs, Zenon
    <3>3. r2.ex = "" /\ r2.v = e /\ r2.cur = cur + Len(a \o b)
      <4> DEFINE z == cur + Len(a \o b)
      <4> HIDE DEF z
      <4>1. r2 = Ok(e, z)
        BY <3>1 DEF z
      <4>2. r2.ex = "" /\ r2.v = e /\ r2.cur = z
        BY <4>1, OkIs, Zenon
      <4> QED BY <4>2, Zenon DEF z
    <3>4. Ok(m, cur).ex = "" /\ Ok(m, cur).v = m /\ Ok(m, cur).cur = cur
      BY OkIs, Zenon
    <3>5. Ok(new, r2.cur).ex = ""
      BY Zenon DEF Ok
    <3> QED BY <3>2, <3>3, <3>4, <3>5, Zenon
  <2>8. Insert(m, k, e) = new
    BY <1>7 DEF Insert
  <2> HIDE DEF new, k, e
  <2>9. PairRead(buf, Ok(m, cur)) = Ok(new, r2.cur)
    <3> DEFINE K == InnerReader(Text, buf, 0)
               E == InnerReader(Text, buf, 1)
    <3>1. K[cur] = r1 /\ E[c] = r2
      BY <1>0, <2>11, ReaderReads DEF r1, r2
    <3> HIDE DEF K, E, r1, r2
    <3>2. ReadPair(K, E, Ok(m, cur)) = Ok(new, r2.cur)
      BY <2>7, <2>8, <3>1, Zenon DEF ReadPair, Then
    <3> QED BY <3>2, Zenon DEF PairRead, K, E
  <2>10. PairRead(buf, Ok(m, cur)) = Ok(new, cur + Len(a \o b))
    BY <2>7, <2>9, Zenon
  <2> QED BY <2>10 DEF new, k, e
<1> QED BY <1>3, <1>5, <1>6, <1>7 DEF T

(* A map is read back with its pairs in their order.                       *)
LEMMA MapReadBack ==
  ASSUME NEW m, IsTextMap(m), NEW tag \in Tag
  PROVE  LET w == Write(StringMap, m, tag)
         IN  /\ w \in Seq(WireByte) /\ Len(w) > 0
             /\ \A buf, cur : Lies(buf, cur, w) =>
                  \E type, n : /\ Begins(buf, cur, type, tag, n)
                               /\ ReadBody(StringMap, SkipFields(buf), buf, cur + n, type)
                                    = Ok(m, cur + Len(w))
<1> DEFINE w == Write(StringMap, m, tag)
           N == Len(m)
           h == TarsWriteToHead(eMap, tag)
           l == WriteInt32(N, 0)
           parts == [i \in 1 .. N |-> Write2(StringMap.k, m[i][1], 0) \o Write2(StringMap.e, m[i][2], 1)]
<1>0. /\ m \in Seq(Seq(WireByte) \X Seq(WireByte)) /\ IsSize(N)
      /\ \A i \in 1 .. N : IsString(m[i][1]) /\ IsString(m[i][2])
      /\ \A i, j \in 1 .. N : m[i][1] = m[j][1] => i = j
  BY DEF IsTextMap
<1>1. N \in Nat /\ m = [i \in 1 .. N |-> m[i]] /\ \A i \in 1 .. N : m[i] = <<m[i][1], m[i][2]>>
  <2>1. N \in Nat /\ m \in [1 .. N -> Seq(WireByte) \X Seq(WireByte)]
    BY <1>0, LenProperties
  <2>2. \A x \in Seq(WireByte) \X Seq(WireByte) : x = <<x[1], x[2]>>
    OBVIOUS
  <2> QED BY <2>1, <2>2
<1>2. /\ eMap \in HeadType /\ eMap # eStructEnd
      /\ StringMap.t = "map" /\ StringMap.k = Text /\ StringMap.e = Text /\ Text.t = "string"
  BY DEF eMap, HeadType, eStructEnd, StringMap, Text, Kind
<1>3. \A v, g : Write2(Text, v, g) = WriteString(v, g)
  <2>1. IsPlain(Text) /\ ~IsInteger(Text)
    BY <1>2, CarrierIs DEF IsPlain, IsInteger
  <2>2. \A v, g : WritePlain(Text, v, g) = WriteString(v, g)
    BY <1>2, <2>1 DEF WritePlain
  <2> QED BY <2>1, <2>2, PlainLevels
<1>4. w = (h \o l) \o Concat(parts)
  <2>1. w = WriteMap(parts, tag)
    BY <1>2, Zenon DEF Write, WriteNested
  <2>2. Len(parts) = N
    BY <1>1
  <2> HIDE DEF parts, N
  <2> QED BY <2>1, <2>2, Zenon DEF WriteMap
<1>5. /\ Len(parts) = N /\ \A i \in 1 .. N : parts[i] = PairText(m[i])
  <2>1. Len(parts) = N
    BY <1>1
  <2> QED BY <1>2, <1>3, <2>1 DEF PairText
<1> HIDE DEF parts
<1>6. Texts(parts) /\ \A i \in 1 .. Len(parts) : Len(parts[i]) > 0
  <2>1. \A i \in 1 .. N : PairText(m[i]) \in Seq(WireByte) /\ Len(PairText(m[i])) > 0
    <3> SUFFICES ASSUME NEW i \in 1 .. N PROVE PairText(m[i]) \in Seq(WireByte) /\ Len(PairText(m[i])) > 0
      OBVIOUS
    <3> DEFINE q == m[i]
    <3>1. IsString(q[1]) /\ IsString(q[2])
      BY <1>0
    <3> HIDE DEF q
    <3>2. PairText(q) \in Seq(WireByte) /\ Len(PairText(q)) > 0
      BY <3>1, PairIsRead
    <3> QED BY <3>2 DEF q
  <2> HIDE DEF N
  <2> QED BY <1>1, <1>5, <2>1 DEF Texts
<1>7. /\ Joined(parts)[0] = << >> /\ Off(parts, 0) = 0
      /\ \A i \in 0 .. N : Joined(parts)[i] \in Seq(WireByte) /\ Off(parts, i) \in Nat
      /\ \A i \in 1 .. N : /\ Joined(parts)[i] = Joined(parts)[i - 1] \o parts[i]
                           /\ Len(parts[i]) \in Nat /\ Off(parts, i) = Off(parts, i - 1) + Len(parts[i])
  BY <1>5, <1>6, JoinedFacts
<1> DEFINE b == Concat(parts)
<1>8. b = Joined(parts)[N] /\ b \in Seq(WireByte) /\ Len(b) \in Nat /\ N <= Len(b) /\ Len(b) = Off(parts, N)
  <2>1. b = Joined(parts)[N] /\ N \in 0 .. N
    BY <1>1, <1>5 DEF Concat
  <2>2. N <= Off(parts, N)
    BY <1>5, <1>6, <2>1, OffCounts
  <2> QED BY <1>7, <2>1, <2>2, LenProperties DEF Off
<1>9. /\ h \in Seq(WireByte) /\ Len(h) \in {1, 2}
      /\ \A buf, cur : Lies(buf, cur, h) => TarsPeekFromHead(buf, cur)
             = Ok([type |-> eMap, tag |-> tag, n |-> Len(h)], cur)
  BY <1>2, HeadIsRead
<1>10. /\ l \in Seq(WireByte) /\ Len(l) > 0
       /\ \A buf, cur : Lies(buf, cur, l) /\ N <= Len(buf) =>
                          ReadCount(SkipFields(buf), buf, cur) = Ok(N, cur + Len(l))
  BY <1>0, <1>1, CountIsRead
<1> HIDE DEF h, l, b, w
<1>11. w = (h \o l) \o b
  BY <1>4 DEF b
<1>12. /\ Len(l) \in Nat /\ h \o l \in Seq(WireByte) /\ Len(h \o l) = Len(h) + Len(l)
       /\ w \in Seq(WireByte) /\ Len(w) = (Len(h) + Len(l)) + Len(b) /\ Len(w) > 0
  <2>1. Len(l) \in Nat /\ h \o l \in Seq(WireByte) /\ Len(h \o l) = Len(h) + Len(l)
    BY <1>9, <1>10, ConcatProperties, LenProperties
  <2>2. w \in Seq(WireByte) /\ Len(w) = Len(h \o l) + Len(b)
    <3> DEFINE s == h \o l
    <3>1. s \in Seq(WireByte) /\ b \in Seq(WireByte) /\ w = s \o b
      BY <1>8, <1>11, <2>1
    <3> HIDE DEF s
    <3>2. w \in Seq(WireByte) /\ Len(w) = Len(s) + Len(b)
      BY <3>1, ConcatProperties
    <3> QED BY <3>2 DEF s
  <2> QED BY <1>8, <1>9, <1>10, <2>1, <2>2
<1>13. ASSUME NEW buf, NEW cur, Lies(buf, cur, w)
       PROVE  /\ Begins(buf, cur, eMap, tag, Len(h))
              /\ ReadBody(StringMap, SkipFields(buf), buf, cur + Len(h), eMap) = Ok(m, cur + Len(w))
  <2> DEFINE c0 == (cur + Len(h)) + Len(l)
  <2>1. buf \in Seq(WireByte) /\ cur \in Nat /\ cur < Len(buf) /\ cur + Len(w) <= Len(buf) /\ Len(buf) \in Nat
    BY <1>12, <1>13, LyingIsInside, LenProperties
  <2>2. Lies(buf, cur, h) /\ Lies(buf, cur + Len(h), l) /\ Lies(buf, c0, b)
    <3>1. Lies(buf, cur, h \o l) /\ Lies(buf, cur + Len(h \o l), b)
      BY <1>8, <1>11, <1>12, <1>13, LiesParts
    <3>2. cur + Len(h \o l) = c0
      BY <1>9, <1>12, <2>1
    <3> QED BY <1>9, <1>10, <3>1, <3>2, LiesParts
  <2>3. Begins(buf, cur, eMap, tag, Len(h))
    BY <1>2, <1>9, <2>1, <2>2 DEF Begins
  <2>4. N <= Len(buf) /\ c0 \in Nat /\ c0 + Len(b) = cur + Len(w)
    <3> DEFINE x == Len(buf)
               y == Len(w)
               z == Len(b)
               g == Len(h)
               d == Len(l)
    <3>1. /\ N \in Nat /\ N <= z /\ z \in Nat /\ g \in {1, 2} /\ d \in Nat /\ y = (g + d) + z
          /\ cur \in Nat /\ x \in Nat /\ cur + y <= x
      BY <1>1, <1>8, <1>9, <1>12, <2>1
    <3> HIDE DEF x, y, z, g, d, N
    <3>2. N <= x /\ (cur + g) + d \in Nat /\ ((cur + g) + d) + z = cur + y
      BY <3>1
    <3> QED BY <3>2 DEF x, y, z, g, d
  <2>5. ReadCount(SkipFields(buf), buf, cur + Len(h)) = Ok(N, c0)
    BY <1>10, <2>2, <2>4
  <2> DEFINE K == InnerReader(Text, buf, 0)
             E == InnerReader(Text, buf, 1)
  <2>6. PICK after : /\ ReadPairs(K, E, c0, N) = after[N] /\ after[0] = Ok(<< >>, c0)
                     /\ \A i \in 1 .. N : after[i] = PairRead(buf, after[i - 1])
    BY <1>1, ReadPairsIs DEF PairRead
  <2> DEFINE first(i) == [k \in 1 .. i |-> m[k]]
             S == {i \in Nat : i <= N => after[i] = Ok(first(i), c0 + Off(parts, i))}
  <2> HIDE DEF c0, N
  <2>7. 0 \in S
    <3>1. first(0) = << >> /\ c0 + Off(parts, 0) = c0
      BY <1>7, <2>4
    <3> QED BY <2>6, <3>1
  <2>8. ASSUME NEW i \in Nat, i \in S PROVE i + 1 \in S
    <3> SUFFICES ASSUME i + 1 <= N PROVE after[i + 1] = Ok(first(i + 1), c0 + Off(parts, i + 1))
      OBVIOUS
    <3> DEFINE q == m[i + 1]
               f == first(i)
    <3>1. i + 1 \in 1 .. N /\ (i + 1) - 1 = i /\ i \in 0 .. N /\ i <= N
      BY <1>1
    <3>2. after[i + 1] = PairRead(buf, Ok(f, c0 + Off(parts, i)))
      BY <2>6, <2>8, <3>1
    <3>3. Lies(buf, c0 + Off(parts, i), PairText(q))
      <4>1. Lies(buf, c0, Joined(parts)[N]) /\ N \in 0 .. Len(parts)
        BY <1>1, <1>5, <1>8, <2>2
      <4> QED BY <1>5, <1>6, <3>1, <4>1, PartsLie
    <3>4. DOMAIN f = 1 .. i /\ \A k \in 1 .. i : f[k] = m[k]
      OBVIOUS
    <3>5. \A k \in DOMAIN f : f[k][1] # q[1]
      <4>1. \A k \in 1 .. i : k \in 1 .. N /\ k # i + 1
        BY <1>1, <3>1
      <4> QED BY <1>0, <3>1, <3>4, <4>1 DEF N
    <3>6. q = <<q[1], q[2]>> /\ IsString(q[1]) /\ IsString(q[2])
      BY <1>0, <1>1, <3>1 DEF N
    <3>7. Append(f, q) = first(i + 1)
      <4>1. f \in Seq(Seq(WireByte) \X Seq(WireByte)) /\ Len(f) = i
        <5>1. \A k \in 1 .. i : m[k] \in Seq(WireByte) \X Seq(WireByte)
          <6>1. \A k \in 1 .. i : k \in 1 .. N
            BY <1>1, <3>1
          <6> QED BY <1>0, <6>1, ElementOfSeq DEF N
        <5> QED BY <5>1, BlockIs
      <4> HIDE DEF f
      <4>2. q \in Seq(WireByte) \X Seq(WireByte)
        BY <1>0, <3>1, ElementOfSeq DEF N
      <4> HIDE DEF q
      <4>3. /\ Append(f, q) \in Seq(Seq(WireByte) \X Seq(WireByte)) /\ Len(Append(f, q)) = i + 1
            /\ \A k \in 1 .. i : Append(f, q)[k] = f[k]
            /\ Append(f, q)[i + 1] = q
        BY <4>1, <4>2, AppendProperties
      <4>4. \A k \in 1 .. i + 1 : Append(f, q)[k] = m[k]
        BY <3>4, <4>3 DEF q
      <4>5. Append(f, q) = [k \in 1 .. i + 1 |-> Append(f, q)[k]]
        <5> DEFINE z == Append(f, q)
        <5>1. z \in Seq(Seq(WireByte) \X Seq(WireByte)) /\ Len(z) = i + 1
          BY <4>3
        <5> HIDE DEF z
        <5>2. z = [k \in 1 .. Len(z) |-> z[k]]
          BY <5>1
        <5> QED BY <5>1, <5>2 DEF z
      <4> QED BY <4>4, <4>5
    <3>8. (c0 + Off(parts, i)) + Len(PairText(q)) = c0 + Off(parts, i + 1)
      <4>1. /\ Off(parts, i + 1) = Off(parts, i) + Len(parts[i + 1]) /\ Off(parts, i) \in Nat
            /\ Len(parts[i + 1]) \in Nat /\ parts[i + 1] = PairText(q)
        BY <1>5, <1>7, <3>1
      <4> HIDE DEF q
      <4> QED BY <2>4, <4>1
    <3> HIDE DEF f, q, first
    <3>9. PairRead(buf, Ok(f, c0 + Off(parts, i)))
            = Ok(Append(f, <<q[1], q[2]>>), (c0 + Off(parts, i)) + Len(PairText(q)))
      BY <3>3, <3>5, <3>6, PairIsRead
    <3> QED BY <3>2, <3>6, <3>7, <3>8, <3>9
  <2> HIDE DEF S
  <2>9. Nat \subseteq S
    BY <2>7, <2>8, SetInduction
  <2>10. after[N] = Ok(m, cur + Len(w))
    <3>1. after[N] = Ok(first(N), c0 + Off(parts, N))
      BY <1>1, <2>9 DEF S
    <3>2. first(N) = m
      BY <1>1
    <3> HIDE DEF first
    <3> QED BY <1>8, <2>4, <3>1, <3>2
  <2>11. ReadBody(StringMap, SkipFields(buf), buf, cur + Len(h), eMap)
           = ReadMap(K, E, SkipFields(buf), buf, cur + Len(h), eMap)
    BY <1>2, Zenon DEF ReadBody, ReadNested, InnerReader, Inside
  <2> DEFINE r == ReadCount(SkipFields(buf), buf, cur + Len(h))
  <2>12. r.ex = "" /\ r.v = N /\ r.cur = c0
    <3>1. r = Ok(N, c0)
      BY <2>5
    <3> HIDE DEF r
    <3> QED BY <3>1, OkIs, Zenon
  <2> HIDE DEF r, K, E
  <2>13. ReadMap(K, E, SkipFields(buf), buf, cur + Len(h), eMap) = ReadPairs(K, E, c0, N)
    BY <2>12, Zenon DEF ReadMap, Then, r
  <2> QED BY <2>3, <2>6, <2>10, <2>11, <2>13
<1> QED BY <1>12, <1>13 DEF w

-----------------------------------------------------------------------------
(***************************************************************************)
(* Packets: members in the order of their tags.                            *)
(***************************************************************************)

IsMemberType(T) == IsPlain(T) \/ T = StringMap

(* The value of a member is read back wherever it lies, by a reader that   *)
(* requires it and by one that does not.                                   *)
LEMMA ValueReadBack ==
  ASSUME NEW T, IsMemberType(T), NEW v, IsValue(T, v), NEW tag \in Tag
  PROVE  LET w == Write(T, v, tag)
         IN  /\ w \in Seq(WireByte) /\ Len(w) > 0
             /\ \A buf, cur : Lies(buf, cur, w) =>
                  /\ \E type, n : Begins(buf, cur, type, tag, n)
                  /\ \A req, x : Read(T, buf, cur, tag, req, x) = Ok(v, cur + Len(w))
<1> DEFINE w == Write(T, v, tag)
<1>1. /\ w \in Seq(WireByte) /\ Len(w) > 0
      /\ \A buf, cur : Lies(buf, cur, w) =>
           \E type, n : /\ Begins(buf, cur, type, tag, n)
                        /\ ReadBody(T, SkipFields(buf), buf, cur + n, type) = Ok(v, cur + Len(w))
  <2>1. CASE IsPlain(T)
    <3> DEFINE u == WritePlain(T, v, tag)
    <3>1. /\ u \in Seq(WireByte) /\ Len(u) > 0
          /\ \A buf, cur : Lies(buf, cur, u) =>
               \E type, n : /\ Begins(buf, cur, type, tag, n)
                            /\ ReadPlain(T, SkipFields(buf), buf, cur + n, type) = Ok(v, cur + Len(u))
      BY <2>1, PlainReadBack
    <3>2. w = u
      BY <2>1, PlainLevels
    <3>3. \A buf, cur, type : ReadBody(T, SkipFields(buf), buf, cur, type)
                               = ReadPlain(T, SkipFields(buf), buf, cur, type)
      BY <2>1, PlainLevels
    <3> HIDE DEF w, u
    <3> QED BY <3>1, <3>2, <3>3
  <2>2. CASE T = StringMap
    <3>1. IsTextMap(v)
      <4>1. ~IsInteger(T) /\ T.t # "string" /\ T.t # "bytes"
        BY <2>2, CarrierIs DEF StringMap, IsInteger
      <4> QED BY <2>2, <4>1, Zenon DEF IsValue
    <3> QED BY <2>2, <3>1, MapReadBack
  <2> QED BY <2>1, <2>2 DEF IsMemberType
<1> HIDE DEF w
<1>2. ASSUME NEW buf, NEW cur, Lies(buf, cur, w)
      PROVE  /\ \E type, n : Begins(buf, cur, type, tag, n)
             /\ \A req, x : Read(T, buf, cur, tag, req, x) = Ok(v, cur + Len(w))
  <2>1. PICK type, n : /\ Begins(buf, cur, type, tag, n)
                       /\ ReadBody(T, SkipFields(buf), buf, cur + n, type) = Ok(v, cur + Len(w))
    BY <1>1, <1>2
  <2>2. \A U, req, x : Read(U, buf, cur, tag, req, x) = ReadBody(U, SkipFields(buf), buf, cur + n, type)
    BY <2>1, FieldIsRead
  <2> QED BY <2>1, <2>2
<1> QED BY <1>1, <1>2 DEF w

(* One member after another.                                               *)
MemberRead(f, buf, r) == ReadMember(MemberReader(f, buf), f.tag, r)

AfterMembers(Q, buf, cur, i) == ReadMembers(Readers(ReadBody, Q, SkipFields(buf), buf), Q, cur)[i]

(* The values in p of the first i members of Q, and of the tags 1 to i.    *)
ByTag(Q, p, i) == [t \in {Q[k].tag : k \in 1 .. i} |-> p[t]]
FirstOf(p, i) == [k \in 1 .. i |-> p[k]]

(* Each member of Q is read between two places of e and has the value in p.*)
EachIsRead(Q, p, buf, e) ==
    /\ Len(Q) \in Nat /\ \A i \in 0 .. Len(Q) : e[i] \in Nat
    /\ \A i \in 1 .. Len(Q) : Read(Q[i].type, buf, e[i - 1], Q[i].tag, Q[i].req, Q[i].def)
                               = Ok(p[Q[i].tag], e[i])

(* When each member is read back, so are the first i of them, in order.    *)
LEMMA MembersRead ==
  ASSUME NEW Q, NEW p, NEW buf, NEW e, EachIsRead(Q, p, buf, e)
  PROVE  \A i \in 0 .. Len(Q) : AfterMembers(Q, buf, e[0], i) = Ok(ByTag(Q, p, i), e[i])
<1> USE DEF EachIsRead
<1> DEFINE reads == Readers(ReadBody, Q, SkipFields(buf), buf)
           after == ReadMembers(reads, Q, e[0])
           N == Len(Q)
           S == {i \in Nat : i <= N => after[i] = Ok(ByTag(Q, p, i), e[i])}
<1>6. \A i \in 1 .. N : reads[i] = MemberReader(Q[i], buf)
  BY Zenon DEF Readers, MemberReader
<1> HIDE DEF reads
<1>1. after[0] = Ok(<< >>, e[0]) /\ \A i \in 1 .. N : after[i] = MemberRead(Q[i], buf, after[i - 1])
  BY <1>6, ReadMembersIs DEF MemberRead
<1>0. N \in Nat
  OBVIOUS
<1> HIDE DEF after
<1>2. 0 \in S
  <2>1. ByTag(Q, p, 0) = << >>
    BY DEF ByTag
  <2> QED BY <1>1, <2>1
<1>3. ASSUME NEW i \in Nat, i \in S PROVE i + 1 \in S
  <2> SUFFICES ASSUME i + 1 <= N PROVE after[i + 1] = Ok(ByTag(Q, p, i + 1), e[i + 1])
    OBVIOUS
  <2>1. i + 1 \in 1 .. N /\ (i + 1) - 1 = i /\ i <= N /\ i \in 0 .. N
    BY <1>0
  <2> DEFINE f == Q[i + 1]
             v == ByTag(Q, p, i)
             r == Read(f.type, buf, e[i], f.tag, f.req, f.def)
             g == [t \in DOMAIN v \cup {f.tag} |-> IF t = f.tag THEN p[f.tag] ELSE v[t]]
  <2>2. r = Ok(p[f.tag], e[i + 1]) /\ e[i] \in Nat
    BY <2>1
  <2>3. after[i + 1] = MemberRead(f, buf, Ok(v, e[i]))
    BY <1>1, <1>3, <2>1
  <2>4. g = ByTag(Q, p, i + 1)
    <3> DEFINE A == {Q[k].tag : k \in 1 .. i}
               B == {Q[k].tag : k \in 1 .. i + 1}
    <3>1. A \cup {f.tag} = B
      <4>1. \A k \in 1 .. i + 1 : k \in 1 .. i \/ k = i + 1
        BY <2>1
      <4>2. i + 1 \in 1 .. i + 1 /\ \A k \in 1 .. i : k \in 1 .. i + 1
        BY <2>1
      <4> QED BY <4>1, <4>2
    <3> HIDE DEF f
    <3>2. v = [t \in A |-> p[t]] /\ ByTag(Q, p, i + 1) = [t \in B |-> p[t]]
      BY Zenon DEF ByTag
    <3> HIDE DEF v, A, B
    <3> QED BY <3>1, <3>2
  <2> HIDE DEF v, f, g
  <2>5. r.ex = "" /\ r.v = p[f.tag] /\ r.cur = e[i + 1]
    <3> DEFINE x == p[f.tag]
               y == e[i + 1]
    <3>1. r = Ok(x, y)
      BY <2>2
    <3> HIDE DEF r, x, y
    <3>2. r.ex = "" /\ r.v = x /\ r.cur = y
      BY <3>1, OkIs, Zenon
    <3> QED BY <3>2, Zenon DEF x, y
  <2>6. Ok(v, e[i]).ex = "" /\ Ok(v, e[i]).v = v /\ Ok(v, e[i]).cur = e[i]
    <3> DEFINE z == e[i]
    <3> HIDE DEF z
    <3>1. Ok(v, z).ex = "" /\ Ok(v, z).v = v /\ Ok(v, z).cur = z
      BY OkIs, Zenon
    <3> QED BY <3>1, Zenon DEF z
  <2>7. MemberRead(f, buf, Ok(v, e[i])) = Ok(g, e[i + 1])
    <3> DEFINE read == MemberReader(f, buf)
    <3>1. read[e[i]] = r
      BY <2>2, ReaderReads
    <3> HIDE DEF r, read
    <3>2. ReadMember(read, f.tag, Ok(v, e[i])) = Ok(g, e[i + 1])
      BY <2>5, <2>6, <3>1, Zenon DEF ReadMember, Then, g
    <3> QED BY <3>2, Zenon DEF MemberRead, read
  <2> QED BY <2>3, <2>4, <2>7
<1> HIDE DEF S, N
<1>4. Nat \subseteq S
  BY <1>2, <1>3, SetInduction
<1>5. \A i \in 0 .. N : after[i] = Ok(ByTag(Q, p, i), e[i])
  BY <1>4, <1>0 DEF S
<1> QED BY <1>5 DEF after, N, AfterMembers, reads

(* Tags that are 1, 2, 3, ...                                              *)
LEMMA ByTagIsFirst ==
  ASSUME NEW Q, NEW p, NEW i \in Nat, \A k \in 1 .. i : Q[k].tag = k
  PROVE  ByTag(Q, p, i) = FirstOf(p, i)
<1>1. {Q[k].tag : k \in 1 .. i} = 1 .. i
  OBVIOUS
<1> QED BY <1>1 DEF ByTag, FirstOf

(* What a packet's lists of members have in common: the tags are those of  *)
(* the positions.                                                          *)
IsPacketType(M) ==
    /\ Len(M) \in 1 .. 15
    /\ \A i \in 1 .. Len(M) : M[i].tag = i /\ IsMemberType(M[i].type)

(* Both packets have members of the types proved about, tagged 1, 2, 3, ...*)
LEMMA PacketTypes ==
  /\ IsPacketType(RequestPacket) /\ Len(RequestPacket) = 10
  /\ \A i \in 1 .. 10 : RequestPacket[i].req
  /\ IsPacketType(ResponsePacket) /\ Len(ResponsePacket) = 9
<1> DEFINE Q == RequestPacket
           R == ResponsePacket
<1>1. /\ IsMemberType(Kind("Short")) /\ IsMemberType(Kind("Char")) /\ IsMemberType(Kind("Int32"))
      /\ IsMemberType(Kind("string")) /\ IsMemberType(Kind("bytes")) /\ IsMemberType(StringMap)
  BY CarrierIs DEF IsMemberType, IsPlain, IsInteger, Kind
<1>2. \A i, T : /\ Member(i, T).tag = i /\ Member(i, T).type = T /\ Member(i, T).req
                /\ MayMiss(i, T).tag = i /\ MayMiss(i, T).type = T
  BY DEF Member, MayMiss
<1>3. /\ Len(Q) = 10
      /\ Q[1] = Member(1, Kind("Short")) /\ Q[2] = Member(2, Kind("Char"))
      /\ Q[3] = Member(3, Kind("Int32")) /\ Q[4] = Member(4, Kind("Int32"))
      /\ Q[5] = Member(5, Kind("string")) /\ Q[6] = Member(6, Kind("string"))
      /\ Q[7] = Member(7, Kind("bytes")) /\ Q[8] = Member(8, Kind("Int32"))
      /\ Q[9] = Member(9, StringMap) /\ Q[10] = Member(10, StringMap)
  BY DEF RequestPacket
<1>4. /\ Len(R) = 9
      /\ R[1] = Member(1, Kind("Short")) /\ R[2] = Member(2, Kind("Char"))
      /\ R[3] = Member(3, Kind("Int32")) /\ R[4] = Member(4, Kind("Int32"))
      /\ R[5] = Member(5, Kind("Int32")) /\ R[6] = Member(6, Kind("bytes"))
      /\ R[7] = Member(7, StringMap) /\ R[8] = MayMiss(8, Kind("string"))
      /\ R[9] = MayMiss(9, StringMap)
  BY DEF ResponsePacket
<1> HIDE DEF Q, R
<1>5. \A i \in 1 .. 10 : Q[i].tag = i /\ IsMemberType(Q[i].type) /\ Q[i].req
  <2> DEFINE G(i) == Q[i].tag = i /\ IsMemberType(Q[i].type) /\ Q[i].req
  <2>1. /\ G(1) /\ G(2) /\ G(3) /\ G(4) /\ G(5)
        /\ G(6) /\ G(7) /\ G(8) /\ G(9) /\ G(10)
    BY <1>1, <1>2, <1>3
  <2> HIDE DEF G
  <2>2. \A i \in 1 .. 10 : G(i)
    BY <2>1
  <2> QED BY <2>2 DEF G
<1>6. \A i \in 1 .. 9 : R[i].tag = i /\ IsMemberType(R[i].type)
  <2> DEFINE G(i) == R[i].tag = i /\ IsMemberType(R[i].type)
  <2>1. /\ G(1) /\ G(2) /\ G(3) /\ G(4) /\ G(5)
        /\ G(6) /\ G(7) /\ G(8) /\ G(9)
    BY <1>1, <1>2, <1>4
  <2> HIDE DEF G
  <2>2. \A i \in 1 .. 9 : G(i)
    BY <2>1
  <2> QED BY <2>2 DEF G
<1> QED BY <1>3, <1>4, <1>5, <1>6 DEF IsPacketType, Q, R

(* The texts of the members, empty for one that is left out.               *)
Parts(M, p) == Fields(Write, M, p)

(* A packet is written as its members in order; only defaults are left out.*)
LEMMA PartsOfPacket ==
  ASSUME NEW M, IsPacketType(M), NEW p, IsPacket(M, p)
  PROVE  /\ Len(Parts(M, p)) = Len(M) /\ Texts(Parts(M, p))
         /\ WriteTo(M, p) = Joined(Parts(M, p))[Len(M)]
         /\ p = FirstOf(p, Len(M))
         /\ \A i \in 1 .. Len(M) :
              /\ i \in Tag /\ IsValue(M[i].type, p[i])
              /\ \/ Parts(M, p)[i] = << >> /\ ~M[i].req /\ p[i] = M[i].def
                 \/ Parts(M, p)[i] = Write(M[i].type, p[i], i) /\ Len(Parts(M, p)[i]) > 0
<1> DEFINE P == Parts(M, p)
           N == Len(M)
<1>0. N \in Nat /\ \A i \in 1 .. N : i \in Tag /\ i \in Int
  <2>1. N \in 1 .. 15
    BY DEF IsPacketType
  <2> HIDE DEF N
  <2> QED BY <2>1 DEF Tag
<1>1. /\ p = FirstOf(p, N) /\ \A i \in 1 .. N : IsValue(M[i].type, p[i])
      /\ \A i \in 1 .. N : M[i].tag = i /\ IsMemberType(M[i].type)
  BY DEF IsPacket, IsPacketType, FirstOf
<1>2. /\ P = [i \in 1 .. N |-> P[i]]
      /\ \A i \in 1 .. N : P[i] = IF ~M[i].req /\ p[i] = M[i].def THEN << >>
                                  ELSE Write(M[i].type, p[i], i)
  BY <1>1, Zenon DEF Parts, Fields, LeftOut
<1> HIDE DEF P, N
<1>3. ASSUME NEW i \in 1 .. N
      PROVE  /\ P[i] \in Seq(WireByte)
             /\ \/ P[i] = << >> /\ ~M[i].req /\ p[i] = M[i].def
                \/ P[i] = Write(M[i].type, p[i], i) /\ Len(P[i]) > 0
  <2> DEFINE w == Write(M[i].type, p[i], i)
  <2>1. w \in Seq(WireByte) /\ Len(w) > 0
    <3> DEFINE T == M[i].type
               v == p[i]
    <3>1. IsMemberType(T) /\ IsValue(T, v) /\ i \in Tag
      BY <1>0, <1>1
    <3> HIDE DEF T, v
    <3>2. Write(T, v, i) \in Seq(WireByte) /\ Len(Write(T, v, i)) > 0
      BY <3>1, ValueReadBack
    <3> QED BY <3>2 DEF T, v
  <2>2. (P[i] = << >> /\ ~M[i].req /\ p[i] = M[i].def) \/ P[i] = w
    BY <1>2
  <2> HIDE DEF w
  <2>3. << >> \in Seq(WireByte)
    OBVIOUS
  <2> QED BY <2>1, <2>2, <2>3 DEF w
<1>4. Len(P) = N
  BY <1>0, <1>2
<1>5. WriteTo(M, p) = Joined(P)[N]
  BY <1>4 DEF WriteTo, Concat, P, Parts
<1>6. Texts(P)
  BY <1>0, <1>3, <1>4 DEF Texts
<1> QED BY <1>0, <1>1, <1>3, <1>4, <1>5, <1>6 DEF P, N

(* A member is read from its place, and one that was left out is missed,   *)
(* since the next one there has a greater tag.                             *)
LEMMA MemberLies ==
  ASSUME NEW M, IsPacketType(M), NEW p, IsPacket(M, p), NEW i \in 1 .. Len(M), NEW buf, NEW cur,
         Lies(buf, cur, Parts(M, p)[i]), Beyond(buf, cur + Len(Parts(M, p)[i]), i)
  PROVE  /\ Read(M[i].type, buf, cur, i, M[i].req, M[i].def) = Ok(p[i], cur + Len(Parts(M, p)[i]))
         /\ Beyond(buf, cur, i - 1)
<1> DEFINE s == Parts(M, p)[i]
           T == M[i].type
           v == p[i]
<1>1. /\ IsMemberType(T) /\ IsValue(T, v) /\ i \in Tag /\ i \in Int
      /\ \/ s = << >> /\ ~M[i].req /\ v = M[i].def
         \/ s = Write(T, v, i) /\ Len(s) > 0
  <2>1. \A x \in Tag : x \in Int
    BY DEF Tag
  <2>2. IsMemberType(T)
    BY DEF IsPacketType
  <2> QED BY <2>1, <2>2, PartsOfPacket
<1>2. Lies(buf, cur, s) /\ Beyond(buf, cur + Len(s), i) /\ cur \in Nat
  BY DEF Lies
<1>3. CASE s = << >> /\ ~M[i].req /\ v = M[i].def
  <2>1. cur + Len(s) = cur
    BY <1>2, <1>3
  <2> HIDE DEF s, T, v
  <2>2. \A U, x : Read(U, buf, cur, i, FALSE, x) = Ok(x, cur)
    BY <1>1, <1>2, <2>1, MissingIsRead
  <2>3. Read(T, buf, cur, i, M[i].req, v) = Ok(v, cur)
    <3>1. Read(T, buf, cur, i, FALSE, v) = Ok(v, cur)
      BY <2>2
    <3> QED BY <1>3, <3>1, Zenon DEF Read, ReadField, ReadFound, TarsSkipToTag
  <2>4. Beyond(buf, cur, i - 1)
    <3>1. \A tag \in Int : tag > i => tag > i - 1
      BY <1>1
    <3>2. \A type, tag, n : Begins(buf, cur, type, tag, n) => tag \in Int
      BY DEF Begins, Tag
    <3> QED BY <1>2, <2>1, <3>1, <3>2 DEF Beyond
  <2> QED BY <1>3, <2>1, <2>3, <2>4 DEF s, T, v
<1>4. CASE s = Write(T, v, i) /\ Len(s) > 0
  <2> DEFINE w == Write(T, v, i)
  <2>1. \A f, c : Lies(f, c, w) =>
          /\ \E type, n : Begins(f, c, type, i, n)
          /\ \A req, x : Read(T, f, c, i, req, x) = Ok(v, c + Len(w))
    <3> HIDE DEF T, v
    <3> QED BY <1>1, ValueReadBack
  <2>2. /\ \E type, n : Begins(buf, cur, type, i, n)
        /\ \A req, x : Read(T, buf, cur, i, req, x) = Ok(v, cur + Len(s))
    <3> HIDE DEF T, v, s, w
    <3> QED BY <1>2, <1>4, <2>1 DEF w
  <2>3. i > i - 1
    BY <1>1
  <2>4. Beyond(buf, cur, i - 1)
    BY <2>2, <2>3 DEF Beyond
  <2> QED BY <2>2, <2>4
<1> QED BY <1>1, <1>3, <1>4

(* A RequestPacket or a ResponsePacket that fills the rest of a buffer is  *)
(* read back, member by member, whatever its values are and wherever its   *)
(* optional members are left out: writeTo and readFrom agree.              *)
THEOREM PacketReadBack ==
  ASSUME NEW M, IsPacketType(M), NEW p, IsPacket(M, p), NEW buf, NEW cur,
         Lies(buf, cur, WriteTo(M, p)), cur + Len(WriteTo(M, p)) = Len(buf)
  PROVE  ReadFrom(M, buf, cur) = Ok(p, Len(buf))
<1> DEFINE P == Parts(M, p)
           N == Len(M)
           at(i) == cur + Off(P, i)
<1>1. /\ Len(P) = N /\ Texts(P) /\ WriteTo(M, p) = Joined(P)[N] /\ p = FirstOf(p, N)
      /\ N \in Nat /\ \A i \in 1 .. N : M[i].tag = i
  BY PartsOfPacket DEF IsPacketType
<1>2. /\ Off(P, 0) = 0 /\ \A i \in 0 .. N : Off(P, i) \in Nat
      /\ \A i \in 1 .. N : Off(P, i) = Off(P, i - 1) + Len(P[i]) /\ Len(P[i]) \in Nat
  BY <1>1, JoinedFacts
<1>3. buf \in Seq(WireByte) /\ cur \in Nat
  BY DEF Lies
<1>4. \A i \in 1 .. N : Lies(buf, cur + Off(P, i - 1), P[i])
  <2>1. N \in 0 .. Len(P) /\ Lies(buf, cur, Joined(P)[N])
    BY <1>1
  <2> HIDE DEF P, N
  <2> QED BY <1>1, <2>1, PartsLie
<1>5. at(N) = Len(buf) /\ at(0) = cur
  BY <1>1, <1>2, <1>3 DEF Off
<1>6. ASSUME NEW i \in 1 .. N
      PROVE  i - 1 \in 0 .. N /\ at(i - 1) \in Nat /\ at(i - 1) + Len(P[i]) = at(i)
  <2> HIDE DEF P, N
  <2>1. i - 1 \in 0 .. N /\ i \in 0 .. N
    BY <1>1
  <2> DEFINE x == Off(P, i - 1)
             y == Len(P[i])
             z == Off(P, i)
  <2>2. z = x + y /\ y \in Nat /\ x \in Nat
    BY <1>2, <2>1
  <2> HIDE DEF x, y, z
  <2>3. cur + x \in Nat /\ (cur + x) + y = cur + z
    BY <1>3, <2>2
  <2> QED BY <2>1, <2>3 DEF x, y, z
<1> DEFINE S == {k \in Nat : k <= N => Beyond(buf, at(N - k), N - k)}
<1> HIDE DEF P, N, at
<1>7. ASSUME NEW i \in 1 .. N, Beyond(buf, at(i), i)
      PROVE  /\ Read(M[i].type, buf, at(i - 1), i, M[i].req, M[i].def) = Ok(p[i], at(i))
             /\ Beyond(buf, at(i - 1), i - 1)
  <2> DEFINE c == at(i - 1)
             s == Parts(M, p)[i]
  <2>1. Lies(buf, c, s) /\ c + Len(s) = at(i) /\ i \in 1 .. Len(M)
    BY <1>4, <1>6 DEF P, N, at
  <2> HIDE DEF c, s
  <2>2. /\ Read(M[i].type, buf, c, i, M[i].req, M[i].def) = Ok(p[i], c + Len(s))
        /\ Beyond(buf, c, i - 1)
    BY <1>7, <2>1, MemberLies DEF s
  <2> QED BY <2>1, <2>2 DEF c
<1>8. Nat \subseteq S
  <2>1. 0 \in S
    <3>1. N - 0 = N
      BY <1>1
    <3> QED BY <1>3, <1>5, <3>1, LenProperties DEF Beyond
  <2>2. ASSUME NEW k \in Nat, k \in S PROVE k + 1 \in S
    <3> SUFFICES ASSUME k + 1 <= N PROVE Beyond(buf, at(N - (k + 1)), N - (k + 1))
      OBVIOUS
    <3>1. N - k \in 1 .. N /\ (N - k) - 1 = N - (k + 1) /\ k <= N
      BY <1>1
    <3> QED BY <1>7, <2>2, <3>1
  <2> HIDE DEF S
  <2> QED BY <2>1, <2>2, SetInduction
<1>9. \A i \in 1 .. N : Beyond(buf, at(i), i)
  <2> SUFFICES ASSUME NEW i \in 1 .. N PROVE Beyond(buf, at(i), i)
    OBVIOUS
  <2>1. N - i \in Nat /\ N - i <= N /\ N - (N - i) = i
    BY <1>1
  <2>2. Beyond(buf, at(N - (N - i)), N - (N - i))
    BY <1>8, <2>1
  <2> QED BY <2>1, <2>2
<1> HIDE DEF S
<1> DEFINE e == [i \in 0 .. N |-> at(i)]
<1>10. /\ e[0] = cur /\ e[N] = Len(buf) /\ N \in 0 .. N /\ \A i \in 0 .. N : e[i] \in Nat
       /\ \A i \in 1 .. N : Read(M[i].type, buf, e[i - 1], i, M[i].req, M[i].def) = Ok(p[i], e[i])
  <2>1. 0 \in 0 .. N /\ N \in 0 .. N
    BY <1>1
  <2>2. \A i \in 1 .. N : i \in 0 .. N
    BY <1>1
  <2>3. \A i \in 0 .. N : at(i) \in Nat
    <3>1. at(N) \in Nat
      BY <1>3, <1>5, LenProperties
    <3>2. ASSUME NEW i \in 0 .. N, i # N PROVE at(i) \in Nat
      <4>1. i + 1 \in 1 .. N /\ (i + 1) - 1 = i
        BY <1>1, <3>2
      <4> QED BY <1>6, <4>1
    <3> QED BY <3>1, <3>2
  <2>4. /\ \A i \in 0 .. N : e[i] = at(i)
        /\ \A i \in 1 .. N : i - 1 \in 0 .. N
    BY <1>6
  <2> HIDE DEF e
  <2> QED BY <1>5, <1>6, <1>7, <1>9, <2>1, <2>2, <2>3, <2>4
<1> HIDE DEF e
<1>11. \A i \in 0 .. N : AfterMembers(M, buf, e[0], i) = Ok(ByTag(M, p, i), e[i])
  <2>1. EachIsRead(M, p, buf, e)
    BY <1>1, <1>10 DEF N, EachIsRead
  <2>2. \A i \in 0 .. Len(M) : AfterMembers(M, buf, e[0], i) = Ok(ByTag(M, p, i), e[i])
    BY <2>1, MembersRead
  <2> QED BY <2>2 DEF N
<1>12. AfterMembers(M, buf, cur, N) = Ok(p, Len(buf))
  <2>1. ByTag(M, p, N) = p
    BY <1>1, ByTagIsFirst
  <2> QED BY <1>1, <1>10, <1>11, <2>1
<1> QED BY <1>12 DEF ReadFrom, N, AfterMembers

-----------------------------------------------------------------------------
(***************************************************************************)
(* The look into the head of a packet that is not complete.                *)
(***************************************************************************)

(* The members that are looked at are numbers, with the types and tags of  *)
(* the packet.                                                             *)
LEMMA HeadTypes ==
  ASSUME NEW s \in {"client", "tup"}
  PROVE  /\ Len(HeadMembers(s)) = (IF s = "client" THEN 5 ELSE 4)
         /\ \A i \in 1 .. Len(HeadMembers(s)) :
              HeadMembers(s)[i].tag = i /\ HeadMembers(s)[i].type = PacketOf(s)[i].type
         /\ \A i \in 1 .. 5 : PacketOf(s)[i].req
         /\ PacketOf(s)[1].type = Kind("Short") /\ PacketOf(s)[2].type = Kind("Char")
         /\ PacketOf(s)[3].type = Kind("Int32") /\ PacketOf(s)[4].type = Kind("Int32")
         /\ s = "client" => PacketOf(s)[5].type = Kind("Int32")
         /\ IsPacketType(PacketOf(s)) /\ Len(PacketOf(s)) \in 5 .. 15
<1> DEFINE Q == RequestPacket
           R == ResponsePacket
<1>0. PacketOf(s) = (IF s = "client" THEN R ELSE Q)
  BY DEF PacketOf
<1>1. \A i, T : Member(i, T).tag = i /\ Member(i, T).type = T /\ Member(i, T).req
  BY DEF Member
<1>2. \A i, T : /\ [Member(i, T) EXCEPT !.req = FALSE].tag = i
                /\ [Member(i, T) EXCEPT !.req = FALSE].type = T
  BY DEF Member
<1>3. /\ Q[1] = Member(1, Kind("Short")) /\ Q[2] = Member(2, Kind("Char"))
      /\ Q[3] = Member(3, Kind("Int32")) /\ Q[4] = Member(4, Kind("Int32"))
      /\ Q[5] = Member(5, Kind("string"))
  BY DEF RequestPacket
<1>4. /\ R[1] = Member(1, Kind("Short")) /\ R[2] = Member(2, Kind("Char"))
      /\ R[3] = Member(3, Kind("Int32")) /\ R[4] = Member(4, Kind("Int32"))
      /\ R[5] = Member(5, Kind("Int32"))
  BY DEF ResponsePacket
<1>5. /\ IsPacketType(Q) /\ Len(Q) = 10 /\ IsPacketType(R) /\ Len(R) = 9
  BY PacketTypes
<1> HIDE DEF Q, R
<1>6. \A i \in 1 .. 5 : i = 1 \/ i = 2 \/ i = 3 \/ i = 4 \/ i = 5
  OBVIOUS
<1>7. \A i \in 1 .. 5 : PacketOf(s)[i].req
  <2>1. /\ Q[1].req /\ Q[2].req /\ Q[3].req /\ Q[4].req /\ Q[5].req
        /\ R[1].req /\ R[2].req /\ R[3].req /\ R[4].req /\ R[5].req
    BY <1>1, <1>3, <1>4
  <2> QED BY <1>0, <1>6, <2>1, Zenon
<1>8. CASE s = "client"
  <2> DEFINE H == HeadMembers(s)
             B(i) == [R[i] EXCEPT !.req = FALSE]
  <2>1. H = [i \in 1 .. 5 |-> B(i)]
    BY <1>8 DEF HeadMembers, R
  <2>2. /\ B(1).tag = 1 /\ B(2).tag = 2 /\ B(3).tag = 3 /\ B(4).tag = 4 /\ B(5).tag = 5
        /\ B(1).type = R[1].type /\ B(2).type = R[2].type /\ B(3).type = R[3].type
        /\ B(4).type = R[4].type /\ B(5).type = R[5].type
    BY <1>1, <1>2, <1>4
  <2> HIDE DEF B
  <2>3. \A i \in 1 .. 5 : B(i).tag = i /\ B(i).type = R[i].type
    BY <1>6, <2>2, Zenon
  <2> HIDE DEF H
  <2>4. Len(H) = 5 /\ \A i \in 1 .. 5 : H[i] = B(i)
    BY <2>1
  <2>5. /\ R[1].type = Kind("Short") /\ R[2].type = Kind("Char") /\ R[3].type = Kind("Int32")
        /\ R[4].type = Kind("Int32") /\ R[5].type = Kind("Int32")
    BY <1>1, <1>4
  <2>6. Len(R) \in 5 .. 15
    BY <1>5
  <2> QED BY <1>0, <1>5, <1>7, <1>8, <2>3, <2>4, <2>5, <2>6 DEF H
<1>9. CASE s = "tup"
  <2> DEFINE H == HeadMembers(s)
  <2>1. H = SubSeq(Q, 1, 4)
    BY <1>9 DEF HeadMembers, Q
  <2>2. Len(H) = 4 /\ \A i \in 1 .. 4 : H[i] = Q[i]
    <3>1. H = [i \in 1 .. 4 |-> Q[i]]
      BY <2>1 DEF Q, RequestPacket
    <3> HIDE DEF H
    <3> QED BY <3>1
  <2>3. \A i \in 1 .. 4 : Q[i].tag = i
    <3>1. Q[1].tag = 1 /\ Q[2].tag = 2 /\ Q[3].tag = 3 /\ Q[4].tag = 4
      BY <1>1, <1>3
    <3>2. \A i \in 1 .. 4 : i = 1 \/ i = 2 \/ i = 3 \/ i = 4
      OBVIOUS
    <3> QED BY <3>1, <3>2, Zenon
  <2>5. /\ Q[1].type = Kind("Short") /\ Q[2].type = Kind("Char") /\ Q[3].type = Kind("Int32")
        /\ Q[4].type = Kind("Int32")
    BY <1>1, <1>3
  <2>6. Len(Q) \in 5 .. 15
    BY <1>5
  <2> HIDE DEF H
  <2> QED BY <1>0, <1>5, <1>7, <1>9, <2>2, <2>3, <2>5, <2>6 DEF H
<1> QED BY <1>8, <1>9

(* A text lies in a copy of the bytes in which it lies.                    *)
LEMMA CopyLies ==
  ASSUME NEW body, NEW c, NEW s \in Seq(WireByte), Lies(body, c, s), NEW buf \in Seq(WireByte),
         NEW m \in Nat, m <= Len(buf), c + Len(s) <= m, \A i \in 1 .. m : buf[i] = body[i]
  PROVE  Lies(buf, c, s)
<1>1. c \in Nat /\ Len(s) \in Nat /\ Len(buf) \in Nat /\ \A i \in 1 .. Len(s) : body[c + i] = s[i]
  BY LenProperties DEF Lies
<1>2. c + Len(s) <= Len(buf)
  BY <1>1
<1>3. \A i \in 1 .. Len(s) : c + i \in 1 .. m
  BY <1>1
<1> QED BY <1>1, <1>2, <1>3 DEF Lies

(* A number whose head alone is there is read too, from whatever follows.  *)
LEMMA HalfNumber ==
  ASSUME NEW T, T = Kind("Int32"), NEW v, IsValue(T, v), NEW tag \in Tag, tag < 15,
         NEW body, NEW c, Lies(body, c, Write(T, v, tag)), NEW buf \in Seq(WireByte),
         \A i \in 1 .. c + 1 : buf[i] = body[i], c + 5 <= Len(buf), NEW req, NEW d
  PROVE  \E x, e : e \in Nat /\ Read(T, buf, c, tag, req, d) = Ok(x, e)
<1>0. IsInteger(T) /\ T.t = "Int32" /\ Carrier[T.t] = eInt32 /\ IsPlain(T) /\ T # StringMap
  BY CarrierIs DEF Kind, IsInteger, IsPlain, StringMap
<1>1. v \in IntegersOf(T.t)
  <2>1. IsNumber(T.t, v)
    <3>1. T.t # "string" /\ T.t # "bytes"
      BY <1>0
    <3> QED BY <1>0, <3>1, Zenon DEF IsValue
  <2> QED BY <1>0, <2>1, NumberIs DEF IsInteger
<1>2. Write(T, v, tag) = WriteInt64(v, tag)
  <2>1. T.t # "string" /\ T.t # "bytes" /\ T.t # "float" /\ T.t # "double"
    BY <1>0
  <2>2. WritePlain(T, v, tag) = WriteInt64(v, tag)
    BY <1>0, <2>1, Zenon DEF WritePlain
  <2> QED BY <1>0, <2>2, PlainLevels
<1>3. PICK type \in HeadType, b \in Seq(WireByte) :
        WriteInt64(v, tag) = TarsWriteToHead(type, tag) \o b /\ Form(T, type, b, v)
  BY <1>0, <1>1, IntegerForm
<1> DEFINE h == TarsWriteToHead(type, tag)
<1>4. /\ h \in Seq(WireByte) /\ Len(h) = 1
      /\ \A f, g : Lies(f, g, h) =>
           TarsPeekFromHead(f, g) = Ok([type |-> type, tag |-> tag, n |-> Len(h)], g)
  <2>1. Len(h) = 1
    BY DEF TarsWriteToHead
  <2> QED BY <2>1, HeadIsRead
<1>5. Lies(body, c, h \o b)
  BY <1>2, <1>3
<1> HIDE DEF h
<1>6. Lies(buf, c, h) /\ c \in Nat
  <2>1. Lies(body, c, h)
    BY <1>4, <1>5, LiesParts
  <2>2. c \in Nat /\ Len(buf) \in Nat
    BY <2>1, LenProperties DEF Lies
  <2>3. c + 1 \in Nat /\ c + 1 <= Len(buf) /\ c + Len(h) <= c + 1
    BY <1>4, <2>2
  <2> QED BY <1>4, <2>1, <2>2, <2>3, CopyLies
<1>7. type = eZeroTag \/ type \in {eChar, eShort, eInt32}
  <2>1. type = eZeroTag \/ type \in eChar .. eInt32
    BY <1>0, <1>3 DEF Form
  <2>2. \A x \in eChar .. eInt32 : x \in {eChar, eShort, eInt32}
    BY DEF eChar, eShort, eInt32
  <2> QED BY <2>1, <2>2
<1>8. Begins(buf, c, type, tag, 1)
  <2>1. type # eStructEnd
    BY <1>7 DEF eChar, eShort, eInt32, eZeroTag, eStructEnd
  <2>2. c < Len(buf)
    BY <1>6, LenProperties
  <2> QED BY <1>4, <1>6, <2>1, <2>2 DEF Begins
<1>9. Read(T, buf, c, tag, req, d) = ReadInteger(T, buf, c + 1, type)
  <2>1. \A U, q, x : Read(U, buf, c, tag, q, x) = ReadBody(U, SkipFields(buf), buf, c + 1, type)
    BY <1>8, FieldIsRead
  <2>2. ReadBody(T, SkipFields(buf), buf, c + 1, type) = ReadPlain(T, SkipFields(buf), buf, c + 1, type)
    BY <1>0, PlainLevels
  <2>3. ReadPlain(T, SkipFields(buf), buf, c + 1, type) = ReadInteger(T, buf, c + 1, type)
    <3>1. T.t # "string" /\ T.t # "bytes" /\ T.t # "float" /\ T.t # "double"
      BY <1>0
    <3> QED BY <1>0, <3>1, Zenon DEF ReadPlain
  <2> QED BY <2>1, <2>2, <2>3
<1>10. CASE type = eZeroTag
  <2>1. eZeroTag \notin eChar .. Carrier[T.t]
    BY <1>0 DEF eChar, eInt32, eZeroTag
  <2>2. ReadInteger(T, buf, c + 1, eZeroTag) = Ok(I(0), c + 1)
    BY <2>1, Zenon DEF ReadInteger
  <2>3. c + 1 \in Nat
    BY <1>6
  <2> QED BY <1>9, <1>10, <2>2, <2>3
<1>11. CASE type \in {eChar, eShort, eInt32}
  <2>1. type # eZeroTag /\ type \in eChar .. Carrier[T.t]
    BY <1>0, <1>11 DEF eChar, eShort, eInt32, eZeroTag
  <2> DEFINE k == SizeOf[type]
             r == TarsReadBuf(buf, c + 1, k)
  <2>2. ~((c + 1) + k > Len(buf))
    <3>1. k \in {1, 2, 4}
      BY <1>11, Sizes
    <3>2. Len(buf) \in Nat
      BY LenProperties
    <3> HIDE DEF k
    <3> QED BY <1>6, <3>1, <3>2
  <2>3. r.ex = "" /\ r.cur \in Nat
    <3>0. k \in Nat
      BY <1>11, Sizes
    <3> HIDE DEF k
    <3> DEFINE y == SubSeq(buf, (c + 1) + 1, (c + 1) + k)
               z == c + 1
               pk == TarsPeek(buf, c + 1, k)
    <3>1. pk = Ok(y, z)
      BY <2>2, Zenon DEF TarsPeek
    <3> HIDE DEF y, z, pk
    <3>2. pk.ex = "" /\ pk.cur = z
      BY <3>1, OkIs, Zenon
    <3>3. r = Ok(pk.v, pk.cur + k)
      BY <3>2, Zenon DEF TarsReadBuf, Then, pk
    <3> HIDE DEF r
    <3>4. \A u, w : Ok(u, w).ex = "" /\ Ok(u, w).cur = w
      BY OkIs, Zenon
    <3>5. r.ex = "" /\ r.cur = pk.cur + k
      BY <3>3, <3>4, Zenon
    <3>6. z \in Nat /\ z + k \in Nat
      BY <1>6, <3>0 DEF z
    <3>7. r.cur \in Nat
      BY <3>2, <3>5, <3>6, Zenon
    <3> QED BY <3>5, <3>7, Zenon
  <2>4. ReadInteger(T, buf, c + 1, type) = Ok(Cast(T, Number(type, r.v)), r.cur)
    <3> HIDE DEF r, k
    <3> QED BY <2>1, <2>3, Zenon DEF ReadInteger, Then, r, k
  <2> QED BY <1>9, <2>3, <2>4
<1> QED BY <1>7, <1>10, <1>11

Sides == {"server", "client", "tup"}

(* A framed packet begins with its length, behind which lies its text.     *)
LEMMA FrameFacts ==
  ASSUME NEW s \in Sides, NEW p \in Packets(s)
  PROVE  LET F == Frame(s, p)
             body == WriteTo(PacketOf(s), p)
         IN  /\ IsPacket(PacketOf(s), p) /\ IsPacketType(PacketOf(s))
             /\ body \in Seq(WireByte) /\ Len(body) \in Nat /\ F \in Seq(WireByte)
             /\ Len(F) \in Nat /\ Len(F) = 4 + Len(body)
             /\ Lies(F, 4, body) /\ NetToHost(SubSeq(F, 1, 4)) = Len(F)
<1> DEFINE F == Frame(s, p)
           M == PacketOf(s)
           body == WriteTo(M, p)
           x == 4 + Len(body)
           l == HostToNet(x, 4)
<1>1. IsPacket(M, p) /\ IsSize(Len(F))
  BY ProtocolAssumption DEF Sides
<1>2. IsPacketType(M)
  BY PacketTypes DEF PacketOf
<1>3. body \in Seq(WireByte) /\ Len(body) \in Nat
  <2>1. /\ Len(Parts(M, p)) = Len(M) /\ Texts(Parts(M, p)) /\ body = Joined(Parts(M, p))[Len(M)]
    BY <1>1, <1>2, PartsOfPacket
  <2>2. Len(M) \in 0 .. Len(M)
    BY <1>2 DEF IsPacketType
  <2> HIDE DEF M, body
  <2>3. body \in Seq(WireByte)
    BY <2>1, <2>2, JoinedFacts
  <2> QED BY <2>3, LenProperties
<1>4. F = l \o body
  BY DEF Frame, Framed, sizeofLen
<1> HIDE DEF F, M, body
<1>5. IsSize(x) /\ x \in Nat
  <2> DEFINE S == {l[i] : i \in 1 .. 4} \cup WireByte
  <2>1. l \in Seq(S) /\ Len(l) = 4
    <3>1. l = [i \in 1 .. 4 |-> l[i]]
      BY DEF HostToNet
    <3> HIDE DEF l
    <3>2. l \in [1 .. 4 -> S]
      BY <3>1
    <3>3. 4 \in Nat
      OBVIOUS
    <3> HIDE DEF S
    <3> QED BY <3>1, <3>2, <3>3, BlockIs
  <2> HIDE DEF l
  <2>2. body \in Seq(S)
    BY <1>3, SeqMonotonic DEF S
  <2> HIDE DEF S
  <2>3. Len(F) = 4 + Len(body)
    <3>1. Len(l \o body) = Len(l) + Len(body)
      BY <2>1, <2>2, ConcatProperties, Zenon
    <3> QED BY <1>4, <2>1, <3>1
  <2> QED BY <1>1, <1>3, <2>3
<1>6. l \in Seq(WireByte) /\ Len(l) = 4 /\ NetToHost(l) = x
  <2>1. x \in Half
    <3> HIDE DEF x
    <3> QED BY <1>5, SMT DEF Half, Int32Value, Between, IsSize
  <2> HIDE DEF x
  <2> QED BY <2>1, FourBytes
<1> HIDE DEF l
<1>7. F \in Seq(WireByte) /\ Len(F) = 4 + Len(body)
  <2>1. l \o body \in Seq(WireByte) /\ Len(l \o body) = Len(l) + Len(body)
    BY <1>3, <1>6, ConcatProperties, Zenon
  <2> QED BY <1>4, <1>6, <2>1
<1>8. Lies(F, 0, l \o body)
  <2>1. Lies(F, 0, F)
    BY <1>3, <1>7 DEF Lies
  <2> QED BY <1>4, <2>1
<1>9. Lies(F, 0, l) /\ Lies(F, 0 + Len(l), body)
  BY <1>3, <1>6, <1>8, LiesParts
<1>10. SubSeq(F, 1, 4) = l
  <2>1. SubSeq(F, 0 + 1, 0 + Len(l)) = l
    BY <1>6, <1>9, LyingIsRead
  <2> QED BY <1>6, <2>1
<1>11. 0 + Len(l) = 4
  BY <1>6
<1>12. NetToHost(SubSeq(F, 1, 4)) = Len(F)
  BY <1>6, <1>7, <1>10
<1>13. IsPacket(M, p) /\ Len(F) \in Nat
  BY <1>1, <1>7, LenProperties
<1> QED BY <1>2, <1>3, <1>7, <1>9, <1>11, <1>12, <1>13 DEF F, M, body

(* The look into the head of an incomplete packet throws no exception,     *)
(* whatever the bytes are that were not received: the first members end    *)
(* before them, and of iRet at least the head was received.                *)
THEOREM HeadLooks ==
  ASSUME NEW s \in {"client", "tup"}, NEW p \in Packets(s), NEW buf \in Seq(WireByte),
         Len(buf) >= head, Len(buf) <= Len(Frame(s, p)),
         \A i \in 1 .. Len(buf) : buf[i] = Frame(s, p)[i], NEW j \in WireByte
  PROVE  HeadReads(s, buf, j)
<1> DEFINE F == Frame(s, p)
           M == PacketOf(s)
           body == WriteTo(M, p)
           P == Parts(M, p)
           Q == HeadMembers(s)
           have == SubSeq(buf, sizeofLen + 1, Len(buf))
           at(i) == IF i <= Len(have) THEN have[i] ELSE j
           bytes == [i \in 1 .. head |-> at(i)]
<1>1. /\ IsPacket(M, p) /\ IsPacketType(M) /\ body \in Seq(WireByte) /\ Len(body) \in Nat
      /\ F \in Seq(WireByte) /\ Len(F) = 4 + Len(body) /\ Lies(F, 4, body)
  BY FrameFacts DEF Sides
<1>2. /\ Len(Q) = (IF s = "client" THEN 5 ELSE 4)
      /\ \A i \in 1 .. Len(Q) : Q[i].tag = i /\ Q[i].type = M[i].type
      /\ \A i \in 1 .. 5 : M[i].req
      /\ M[1].type = Kind("Short") /\ M[2].type = Kind("Char")
      /\ M[3].type = Kind("Int32") /\ M[4].type = Kind("Int32")
      /\ s = "client" => M[5].type = Kind("Int32")
      /\ Len(M) \in 5 .. 15
  BY HeadTypes
<1>3. /\ Len(P) = Len(M) /\ Texts(P) /\ body = Joined(P)[Len(M)]
      /\ \A i \in 1 .. Len(M) :
           /\ i \in Tag /\ IsValue(M[i].type, p[i])
           /\ \/ P[i] = << >> /\ ~M[i].req /\ p[i] = M[i].def
              \/ P[i] = Write(M[i].type, p[i], i) /\ Len(P[i]) > 0
  BY <1>1, PartsOfPacket
<1>b. buf \in Seq(WireByte) /\ Len(buf) \in Nat /\ Len(buf) >= 20 /\ Len(buf) <= Len(F)
      /\ \A i \in 1 .. Len(buf) : buf[i] = F[i]
  BY LenProperties DEF head
<1>4. bytes \in Seq(WireByte) /\ Len(bytes) = 20 /\ \A i \in 1 .. 16 : bytes[i] = body[i]
  <2> HIDE DEF F, body
  <2> DEFINE N == Len(buf)
  <2>1. have \in Seq(WireByte) /\ Len(have) = N - 4 /\ \A i \in 1 .. N - 4 : have[i] = buf[4 + i]
    <3>1. \A i \in 5 .. N : buf[i] \in WireByte
      <4>1. \A i \in 5 .. N : i \in 1 .. Len(buf)
        BY <1>b
      <4> QED BY <1>b, <4>1, ElementOfSeq
    <3>2. /\ have \in Seq(WireByte) /\ Len(have) = IF 5 <= N THEN N - 5 + 1 ELSE 0
          /\ \A i \in 1 .. N - 5 + 1 : have[i] = buf[5 + i - 1]
      <4>1. have = SubSeq(buf, 5, N)
        BY DEF sizeofLen
      <4>2. N \in Int /\ 5 \in Int /\ \A i \in 5 .. N : buf[i] \in WireByte
        BY <1>b, <3>1
      <4> HIDE DEF have, N
      <4> QED BY <4>1, <4>2, SubSeqProperties
    <3> HIDE DEF have, N
    <3>3. N \in Nat /\ N >= 20
      BY <1>b DEF N
    <3>4. N - 5 + 1 = N - 4 /\ 5 <= N /\ \A i \in 1 .. N - 4 : 5 + i - 1 = 4 + i
      BY <3>3
    <3> QED BY <3>2, <3>4
  <2> HIDE DEF have, N
  <2>2. N \in Nat /\ N >= 20 /\ N <= Len(F) /\ Len(F) = 4 + Len(body) /\ Len(body) \in Nat
    BY <1>1, <1>b DEF N
  <2>3. \A i \in 1 .. N - 4 : have[i] \in WireByte
    BY <2>1, ElementOfSeq
  <2>4. bytes \in [1 .. head -> WireByte]
    <3>1. \A i \in 1 .. head : at(i) \in WireByte
      <4>1. \A i \in 1 .. head : i <= Len(have) => i \in 1 .. N - 4
        BY <2>1, <2>2 DEF head
      <4> QED BY <2>3, <4>1
    <3> HIDE DEF at
    <3> QED BY <3>1
  <2> HIDE DEF at
  <2>5. bytes \in Seq(WireByte) /\ Len(bytes) = 20
    <3>1. head \in Nat
      BY DEF head
    <3> HIDE DEF bytes
    <3>2. bytes \in Seq(WireByte) /\ Len(bytes) = head
      BY <2>4, <3>1, BlockIs
    <3> QED BY <3>2 DEF head
  <2>6. ASSUME NEW i \in 1 .. 16 PROVE bytes[i] = body[i]
    <3>1. i \in 1 .. N - 4 /\ i \in 1 .. head /\ i <= N - 4 /\ 4 + i \in 1 .. N /\ i \in 1 .. Len(body)
      BY <2>2 DEF head
    <3>2. bytes[i] = have[i] /\ have[i] = buf[4 + i]
      <4>1. bytes[i] = at(i)
        BY <3>1
      <4>2. at(i) = have[i]
        BY <2>1, <3>1 DEF at
      <4> QED BY <2>1, <3>1, <4>1, <4>2
    <3>3. buf[4 + i] = F[4 + i]
      BY <1>b, <3>1 DEF N
    <3>4. F[4 + i] = body[i]
      BY <1>1, <3>1 DEF Lies
    <3> QED BY <3>2, <3>3, <3>4
  <2> QED BY <2>5, <2>6
<1> HIDE DEF bytes, at
<1>5. /\ Off(P, 0) = 0 /\ \A i \in 0 .. 5 : Off(P, i) \in Nat
      /\ \A i \in 1 .. 5 : Off(P, i) = Off(P, i - 1) + Len(P[i]) /\ Len(P[i]) \in Nat
      /\ \A i \in 0 .. 5 : Joined(P)[i] \in Seq(WireByte)
  <2>1. \A i \in 0 .. 5 : i \in 0 .. Len(P)
    BY <1>2, <1>3
  <2>2. \A i \in 1 .. 5 : i \in 1 .. Len(P)
    BY <1>2, <1>3
  <2> HIDE DEF P
  <2> QED BY <1>3, <2>1, <2>2, JoinedFacts
<1>6. \A i \in 1 .. 5 : P[i] = Write(M[i].type, p[i], i) /\ i \in Tag /\ IsValue(M[i].type, p[i])
  <2>1. \A i \in 1 .. 5 : i \in 1 .. Len(M)
    BY <1>2
  <2> QED BY <1>2, <1>3, <2>1
<1> HIDE DEF P, M, Q
<1>7. Len(P[1]) <= 3 /\ Len(P[2]) <= 2 /\ Len(P[3]) <= 5 /\ Len(P[4]) <= 5
  <2>1. ASSUME NEW i \in 1 .. 4, NEW k \in {"Short", "Char", "Int32"}, M[i].type = Kind(k)
        PROVE  Len(P[i]) <= 1 + SizeOf[Carrier[k]]
    <3> DEFINE T == M[i].type
               v == p[i]
    <3>0. i \in 1 .. 5 /\ i < 15
      OBVIOUS
    <3>1. IsInteger(T) /\ T.t = k /\ IsPlain(T) /\ T # StringMap
      BY <2>1, CarrierIs DEF Kind, IsInteger, IsPlain, StringMap
    <3>2. T.t # "string" /\ T.t # "bytes" /\ T.t # "float" /\ T.t # "double"
      BY <3>1
    <3>3. IsValue(T, v) /\ i \in Tag /\ P[i] = Write(T, v, i)
      BY <1>6, <3>0
    <3> HIDE DEF T, v
    <3>4. v \in IntegersOf(T.t)
      <4>1. IsNumber(T.t, v)
        BY <3>1, <3>2, <3>3, Zenon DEF IsValue
      <4> QED BY <3>1, <4>1, NumberIs DEF IsInteger
    <3>5. P[i] = WriteInt64(v, i)
      <4>1. WritePlain(T, v, i) = WriteInt64(v, i)
        BY <3>1, <3>2, Zenon DEF WritePlain
      <4> QED BY <3>1, <3>3, <4>1, PlainLevels
    <3>6. Len(WriteInt64(v, i)) <= 1 + SizeOf[Carrier[T.t]]
      BY <3>0, <3>1, <3>3, <3>4, IntegerField
    <3> QED BY <3>1, <3>5, <3>6
  <2>2. /\ Len(P[1]) <= 1 + SizeOf[Carrier["Short"]] /\ Len(P[2]) <= 1 + SizeOf[Carrier["Char"]]
        /\ Len(P[3]) <= 1 + SizeOf[Carrier["Int32"]] /\ Len(P[4]) <= 1 + SizeOf[Carrier["Int32"]]
    BY <1>2, <2>1
  <2> QED BY <2>2, CarrierIs, Sizes
<1>8. /\ Off(P, 1) <= 15 /\ Off(P, 2) <= 15 /\ Off(P, 3) <= 15 /\ Off(P, 4) <= 15
      /\ Off(P, 1) = Off(P, 0) + Len(P[1])
      /\ Off(P, 2) = Off(P, 1) + Len(P[2]) /\ Off(P, 3) = Off(P, 2) + Len(P[3])
      /\ Off(P, 4) = Off(P, 3) + Len(P[4])
  <2> DEFINE o0 == Off(P, 0)
             o1 == Off(P, 1)
             o2 == Off(P, 2)
             o3 == Off(P, 3)
             o4 == Off(P, 4)
             l1 == Len(P[1])
             l2 == Len(P[2])
             l3 == Len(P[3])
             l4 == Len(P[4])
  <2>1. /\ o0 = 0 /\ o1 = o0 + l1 /\ o2 = o1 + l2 /\ o3 = o2 + l3 /\ o4 = o3 + l4
        /\ l1 \in Nat /\ l2 \in Nat /\ l3 \in Nat /\ l4 \in Nat
    <3>1. 1 \in 1 .. 5 /\ 2 \in 1 .. 5 /\ 3 \in 1 .. 5 /\ 4 \in 1 .. 5
      OBVIOUS
    <3>2. 1 - 1 = 0 /\ 2 - 1 = 1 /\ 3 - 1 = 2 /\ 4 - 1 = 3
      OBVIOUS
    <3>3. /\ Off(P, 1) = Off(P, 1 - 1) + Len(P[1]) /\ Off(P, 2) = Off(P, 2 - 1) + Len(P[2])
          /\ Off(P, 3) = Off(P, 3 - 1) + Len(P[3]) /\ Off(P, 4) = Off(P, 4 - 1) + Len(P[4])
          /\ Len(P[1]) \in Nat /\ Len(P[2]) \in Nat /\ Len(P[3]) \in Nat /\ Len(P[4]) \in Nat
      BY <1>5, <3>1
    <3> QED BY <1>5, <3>2, <3>3
  <2>2. l1 <= 3 /\ l2 <= 2 /\ l3 <= 5 /\ l4 <= 5
    BY <1>7
  <2> HIDE DEF o0, o1, o2, o3, o4, l1, l2, l3, l4
  <2>3. o1 <= 15 /\ o2 <= 15 /\ o3 <= 15 /\ o4 <= 15
    BY <2>1, <2>2
  <2> QED BY <2>1, <2>3 DEF o0, o1, o2, o3, o4, l1, l2, l3, l4
<1>9. \A i \in 1 .. 5 : Lies(body, Off(P, i - 1), P[i]) /\ Lies(body, 0, Joined(P)[i])
  <2>1. Lies(body, 0, body) /\ Len(M) \in 0 .. Len(P)
    BY <1>1, <1>2, <1>3 DEF Lies
  <2>2. \A i \in 1 .. Len(M) : Lies(body, 0, Joined(P)[i]) /\ Lies(body, 0 + Off(P, i - 1), P[i])
    BY <1>3, <2>1, PartsLie
  <2>3. \A i \in 1 .. 5 : i \in 1 .. Len(M) /\ i - 1 \in 0 .. 5
    BY <1>2
  <2>4. \A i \in 1 .. 5 : 0 + Off(P, i - 1) = Off(P, i - 1)
    BY <1>5, <2>3
  <2> QED BY <2>2, <2>3, <2>4
<1> HIDE DEF body
<1>10. ASSUME NEW i \in 1 .. 4
       PROVE  \A req, d : Read(M[i].type, bytes, Off(P, i - 1), i, req, d) = Ok(p[i], Off(P, i))
  <2> DEFINE c == Off(P, i - 1)
             T == M[i].type
             v == p[i]
             w == Write(T, v, i)
  <2>0. i \in 1 .. 5 /\ i - 1 \in 0 .. 5 /\ i \in {1, 2, 3, 4}
    OBVIOUS
  <2>1. /\ c \in Nat /\ c + Len(w) = Off(P, i) /\ Off(P, i) <= 15 /\ i \in Tag /\ IsValue(T, v)
        /\ w = P[i] /\ w \in Seq(WireByte) /\ Lies(body, c, w) /\ IsMemberType(T)
    <3>1. c \in Nat /\ c + Len(P[i]) = Off(P, i) /\ Off(P, i) <= 15 /\ w = P[i] /\ Lies(body, c, P[i])
      BY <1>5, <1>6, <1>8, <1>9, <2>0
    <3>2. i \in Tag /\ IsValue(T, v) /\ IsMemberType(T)
      <4>1. i \in 1 .. Len(M)
        BY <1>2, <2>0
      <4> QED BY <1>1, <1>6, <2>0, <4>1 DEF IsPacketType
    <3> HIDE DEF T, v
    <3>3. w \in Seq(WireByte)
      BY <3>2, ValueReadBack
    <3> QED BY <3>1, <3>2, <3>3
  <2> HIDE DEF c, T, v
  <2>2. Lies(bytes, c, w)
    <3> HIDE DEF w
    <3> DEFINE m == 16
    <3>1. c + Len(w) <= m /\ m <= Len(bytes) /\ m \in Nat
      BY <1>4, <1>5, <2>0, <2>1
    <3>2. \A k \in 1 .. m : bytes[k] = body[k]
      BY <1>4
    <3> HIDE DEF m
    <3> QED BY <1>4, <2>1, <3>1, <3>2, CopyLies
  <2>3. \A req, d : Read(T, bytes, c, i, req, d) = Ok(v, c + Len(w))
    BY <2>1, <2>2, ValueReadBack
  <2> QED BY <2>1, <2>3 DEF c, T, v
<1>11. PICK x, e5 :
          e5 \in Nat
          /\ (s = "client" =>
                Read(M[5].type, bytes, Off(P, 4), 5, Q[5].req, Q[5].def) = Ok(x, e5))
  <2>1. CASE s # "client"
    <3>1. 0 \in Nat
      OBVIOUS
    <3> QED BY <2>1, <3>1
  <2>2. CASE s = "client"
    <3> DEFINE c == Off(P, 4)
               T == M[5].type
               v == p[5]
               q == Q[5].req
               d == Q[5].def
    <3>0. 5 \in 1 .. 5 /\ 5 - 1 = 4 /\ 5 < 15 /\ 4 \in 0 .. 5
      OBVIOUS
    <3>1. T = Kind("Int32") /\ IsValue(T, v) /\ 5 \in Tag /\ Lies(body, c, Write(T, v, 5))
      <4>1. Lies(body, Off(P, 5 - 1), P[5]) /\ P[5] = Write(T, v, 5) /\ 5 \in Tag /\ IsValue(T, v)
        BY <1>6, <1>9, <3>0
      <4> QED BY <1>2, <2>2, <3>0, <4>1
    <3>2. c \in Nat /\ c <= 15
      BY <1>5, <1>8, <3>0
    <3> HIDE DEF c, T, v, q, d
    <3>3. (\A i \in 1 .. c + 1 : bytes[i] = body[i]) /\ c + 5 <= Len(bytes)
      <4>1. \A i \in 1 .. c + 1 : i \in 1 .. 16
        BY <3>2
      <4>2. \A i \in 1 .. c + 1 : bytes[i] = body[i]
        BY <1>4, <4>1
      <4>3. c + 5 <= Len(bytes)
        BY <1>4, <3>2
      <4> QED BY <4>2, <4>3
    <3>4. \E x, e : e \in Nat /\ Read(T, bytes, c, 5, q, d) = Ok(x, e)
      <4> DEFINE k == 5
      <4>1. k \in Tag /\ k < 15 /\ Lies(body, c, Write(T, v, k))
        BY <3>0, <3>1
      <4>2. T = Kind("Int32") /\ IsValue(T, v) /\ bytes \in Seq(WireByte) /\ c + 5 <= Len(bytes)
        BY <1>4, <3>1, <3>3
      <4>3. \A i \in 1 .. c + 1 : bytes[i] = body[i]
        BY <3>3
      <4> HIDE DEF k
      <4>4. \E x, e : e \in Nat /\ Read(T, bytes, c, k, q, d) = Ok(x, e)
        BY <4>1, <4>2, <4>3, HalfNumber
      <4> QED BY <4>4 DEF k
    <3> QED BY <3>4 DEF c, T, q, d
  <2> QED BY <2>1, <2>2
<1> DEFINE pp == [k \in 1 .. 5 |-> IF k = 5 THEN x ELSE p[k]]
           ee == [k \in 0 .. 5 |-> IF k = 5 THEN e5 ELSE Off(P, k)]
<1>12. EachIsRead(Q, pp, bytes, ee)
  <2>1. Len(Q) \in {4, 5} /\ (Len(Q) = 5 => s = "client")
    BY <1>2
  <2>2. ASSUME NEW i \in 1 .. Len(Q)
        PROVE  Read(Q[i].type, bytes, ee[i - 1], i, Q[i].req, Q[i].def) = Ok(pp[i], ee[i])
    <3>1. CASE i \in 1 .. 4
      <4>1. ee[i - 1] = Off(P, i - 1) /\ ee[i] = Off(P, i) /\ pp[i] = p[i]
        BY <3>1
      <4> HIDE DEF ee, pp
      <4> QED BY <1>2, <1>10, <3>1, <4>1
    <3>2. CASE i = 5
      <4>1. s = "client" /\ ee[i - 1] = Off(P, 4) /\ ee[i] = e5 /\ pp[i] = x /\ Q[i].type = M[5].type
        BY <1>2, <2>1, <3>2
      <4> HIDE DEF ee, pp
      <4> QED BY <1>11, <3>2, <4>1
    <3> QED BY <2>1, <3>1, <3>2
  <2>3. \A i \in 0 .. 5 : ee[i] \in Nat
    BY <1>5, <1>11
  <2> HIDE DEF pp, ee
  <2>4. /\ Len(Q) \in Nat /\ \A i \in 1 .. Len(Q) : Q[i].tag = i
        /\ \A i \in 0 .. Len(Q) : ee[i] \in Nat
    BY <1>2, <2>1, <2>3
  <2> QED BY <2>2, <2>4 DEF EachIsRead
<1>13. ee[0] = 0 /\ Len(Q) \in 0 .. Len(Q)
  BY <1>2, <1>5
<1> HIDE DEF ee, pp
<1> DEFINE v5 == ByTag(Q, pp, Len(Q))
           c5 == ee[Len(Q)]
           r == ReadFrom(Q, bytes, 0)
<1>14. r = Ok(v5, c5)
  <2>1. AfterMembers(Q, bytes, ee[0], Len(Q)) = Ok(ByTag(Q, pp, Len(Q)), ee[Len(Q)])
    BY <1>12, <1>13, MembersRead
  <2> QED BY <1>13, <2>1 DEF AfterMembers, ReadFrom
<1> HIDE DEF v5, c5, r
<1>15. r.ex = ""
  <2>1. Ok(v5, c5).ex = ""
    BY OkIs, Zenon
  <2> QED BY <1>14, <2>1, Zenon
<1> QED BY <1>15, Zenon DEF HeadReads, r, Q, bytes, at, have

-----------------------------------------------------------------------------
(***************************************************************************)
(* The stream of frames, and the pieces of it that the receiver holds.     *)
(***************************************************************************)

(* The two pieces of a text that is cut lie one behind the other.          *)
LEMMA LiesCut ==
  ASSUME NEW s \in Seq(WireByte), NEW buf, NEW cur, Lies(buf, cur, s), NEW k \in 0 .. Len(s)
  PROVE  /\ SubSeq(s, 1, k) \in Seq(WireByte) /\ Len(SubSeq(s, 1, k)) = k
         /\ Lies(buf, cur, SubSeq(s, 1, k))
         /\ SubSeq(s, k + 1, Len(s)) \in Seq(WireByte)
         /\ Len(SubSeq(s, k + 1, Len(s))) = Len(s) - k
         /\ Lies(buf, cur + k, SubSeq(s, k + 1, Len(s)))
<1> DEFINE n == Len(s)
           a == SubSeq(s, 1, k)
           b == SubSeq(s, k + 1, n)
<1>1. /\ n \in Nat /\ k \in 0 .. n /\ buf \in Seq(WireByte) /\ cur \in Nat
      /\ Len(buf) \in Nat /\ cur + n <= Len(buf) /\ \A i \in 1 .. n : buf[cur + i] = s[i]
      /\ \A i \in 1 .. n : s[i] \in WireByte
  BY LenProperties, ElementOfSeq DEF Lies
<1>2. /\ a \in Seq(WireByte) /\ Len(a) = (IF 1 <= k THEN k - 1 + 1 ELSE 0)
      /\ \A i \in 1 .. k - 1 + 1 : a[i] = s[1 + i - 1]
  <2>1. 1 \in Int /\ k \in Int /\ \A i \in 1 .. k : s[i] \in WireByte
    BY <1>1
  <2> QED BY <2>1, SubSeqProperties
<1>3. /\ b \in Seq(WireByte) /\ Len(b) = (IF k + 1 <= n THEN n - (k + 1) + 1 ELSE 0)
      /\ \A i \in 1 .. n - (k + 1) + 1 : b[i] = s[(k + 1) + i - 1]
  <2>1. k + 1 \in Int /\ n \in Int /\ \A i \in k + 1 .. n : s[i] \in WireByte
    BY <1>1
  <2> HIDE DEF n
  <2> QED BY <2>1, SubSeqProperties
<1> HIDE DEF n, a, b
<1>4. Len(a) = k /\ \A i \in 1 .. k : a[i] = s[i]
  <2>1. k - 1 + 1 = k /\ (k < 1 => k = 0) /\ \A i \in 1 .. k : 1 + i - 1 = i
    BY <1>1
  <2> QED BY <1>2, <2>1
<1>5. Len(b) = n - k /\ \A i \in 1 .. n - k : b[i] = s[k + i]
  <2>1. /\ n - (k + 1) + 1 = n - k /\ (~(k + 1 <= n) => n - k = 0)
        /\ \A i \in 1 .. n - k : (k + 1) + i - 1 = k + i
    BY <1>1
  <2> QED BY <1>3, <2>1
<1>6. Lies(buf, cur, a)
  <2>1. cur + k <= Len(buf) /\ \A i \in 1 .. k : i \in 1 .. n
    BY <1>1
  <2> QED BY <1>1, <1>4, <2>1 DEF Lies
<1>7. Lies(buf, cur + k, b)
  <2>1. /\ cur + k \in Nat /\ (cur + k) + (n - k) <= Len(buf)
        /\ \A i \in 1 .. n - k : k + i \in 1 .. n /\ (cur + k) + i = cur + (k + i)
    BY <1>1
  <2> QED BY <1>1, <1>5, <2>1 DEF Lies
<1> QED BY <1>2, <1>3, <1>4, <1>5, <1>6, <1>7 DEF a, b, n

(* Two texts that lie one behind the other lie there as one.               *)
LEMMA LiesJoined ==
  ASSUME NEW s \in Seq(WireByte), NEW t \in Seq(WireByte), NEW buf, NEW cur,
         Lies(buf, cur, s), Lies(buf, cur + Len(s), t)
  PROVE  s \o t \in Seq(WireByte) /\ Len(s \o t) = Len(s) + Len(t) /\ Lies(buf, cur, s \o t)
<1> DEFINE m == Len(s)
           n == Len(t)
           u == s \o t
<1>1. /\ m \in Nat /\ n \in Nat /\ u \in Seq(WireByte) /\ Len(u) = m + n
      /\ \A i \in 1 .. m + n : u[i] = IF i <= m THEN s[i] ELSE t[i - m]
  BY ConcatProperties, LenProperties
<1>2. /\ buf \in Seq(WireByte) /\ Len(buf) \in Nat /\ cur \in Nat /\ (cur + m) + n <= Len(buf)
      /\ \A i \in 1 .. m : buf[cur + i] = s[i]
      /\ \A i \in 1 .. n : buf[(cur + m) + i] = t[i]
  BY LenProperties DEF Lies
<1> HIDE DEF m, n, u
<1>3. ASSUME NEW i \in 1 .. m + n PROVE buf[cur + i] = u[i]
  <2>1. CASE i <= m
    <3>1. i \in 1 .. m
      BY <1>1, <2>1
    <3> QED BY <1>1, <1>2, <2>1, <3>1
  <2>2. CASE ~(i <= m)
    <3>1. i - m \in 1 .. n /\ (cur + m) + (i - m) = cur + i
      BY <1>1, <1>2, <2>2
    <3>2. buf[(cur + m) + (i - m)] = t[i - m]
      BY <1>2, <3>1
    <3> QED BY <1>1, <2>2, <3>1, <3>2
  <2> QED BY <2>1, <2>2
<1>4. cur + (m + n) <= Len(buf)
  BY <1>1, <1>2
<1>5. Lies(buf, cur, u)
  BY <1>1, <1>2, <1>3, <1>4 DEF Lies
<1> QED BY <1>1, <1>5 DEF m, n, u

(* What lies in a text lies where the text does.                           *)
LEMMA LiesWithin ==
  ASSUME NEW s \in Seq(WireByte), NEW t \in Seq(WireByte), NEW buf, NEW cur, NEW c,
         Lies(buf, cur, s), Lies(s, c, t)
  PROVE  Lies(buf, cur + c, t)
<1> DEFINE m == Len(s)
           n == Len(t)
<1>1. /\ m \in Nat /\ n \in Nat /\ buf \in Seq(WireByte) /\ Len(buf) \in Nat /\ cur \in Nat
      /\ c \in Nat /\ cur + m <= Len(buf) /\ c + n <= m
      /\ \A i \in 1 .. m : buf[cur + i] = s[i]
      /\ \A i \in 1 .. n : s[c + i] = t[i]
  BY LenProperties DEF Lies
<1> HIDE DEF m, n
<1>2. /\ cur + c \in Nat /\ (cur + c) + n <= Len(buf)
      /\ \A i \in 1 .. n : c + i \in 1 .. m /\ (cur + c) + i = cur + (c + i)
  BY <1>1
<1>3. \A i \in 1 .. n : buf[(cur + c) + i] = t[i]
  BY <1>1, <1>2
<1> QED BY <1>1, <1>2, <1>3 DEF Lies, n

(* A buffer that grows keeps what lies in it.                              *)
LEMMA LiesStays ==
  ASSUME NEW buf \in Seq(WireByte), NEW t \in Seq(WireByte)
  PROVE  /\ buf \o t \in Seq(WireByte) /\ Len(buf \o t) = Len(buf) + Len(t)
         /\ Lies(buf \o t, Len(buf), t)
         /\ \A s \in Seq(WireByte) : \A cur : Lies(buf, cur, s) => Lies(buf \o t, cur, s)
<1> DEFINE b == buf \o t
<1>1. b \in Seq(WireByte) /\ Len(b) = Len(buf) + Len(t) /\ Len(b) \in Nat /\ Len(buf) \in Nat
  BY ConcatProperties, LenProperties
<1>2. Lies(b, 0, b)
  <2> HIDE DEF b
  <2> QED BY <1>1 DEF Lies
<1>3. Lies(b, 0, buf) /\ Lies(b, 0 + Len(buf), t)
  BY <1>2, LiesParts
<1>4. 0 + Len(buf) = Len(buf)
  BY <1>1
<1> HIDE DEF b
<1>5. ASSUME NEW s \in Seq(WireByte), NEW cur, Lies(buf, cur, s) PROVE Lies(b, cur, s)
  <2>1. Lies(b, 0 + cur, s)
    BY <1>3, <1>5, LiesWithin
  <2>2. cur \in Nat
    BY <1>5 DEF Lies
  <2> QED BY <2>1, <2>2
<1>6. Lies(b, Len(buf), t)
  BY <1>3, <1>4
<1> QED BY <1>1, <1>5, <1>6 DEF b

(* Of two texts that lie at one place the longer begins with the shorter.  *)
LEMMA LiesAgree ==
  ASSUME NEW s \in Seq(WireByte), NEW t \in Seq(WireByte), NEW buf, NEW cur,
         Lies(buf, cur, s), Lies(buf, cur, t), Len(t) <= Len(s)
  PROVE  Lies(s, 0, t) /\ \A i \in 1 .. Len(t) : t[i] = s[i]
<1>1. /\ Len(s) \in Nat /\ Len(t) \in Nat
      /\ \A i \in 1 .. Len(s) : buf[cur + i] = s[i]
      /\ \A i \in 1 .. Len(t) : buf[cur + i] = t[i]
  BY LenProperties DEF Lies
<1>2. \A i \in 1 .. Len(t) : i \in 1 .. Len(s) /\ 0 + i = i
  BY <1>1
<1>3. \A i \in 1 .. Len(t) : t[i] = s[i]
  BY <1>1, <1>2
<1>4. 0 + Len(t) <= Len(s)
  BY <1>1
<1> QED BY <1>1, <1>2, <1>3, <1>4 DEF Lies

(* tt has one text more than ss, x.                                        *)
HasOneMore(tt, ss, x) ==
    Len(tt) = Len(ss) + 1 /\ tt[Len(ss) + 1] = x /\ \A i \in 1 .. Len(ss) : tt[i] = ss[i]

(* One more text changes nothing of where the others end.                  *)
LEMMA JoinedAppend ==
  ASSUME NEW ss, Texts(ss), NEW x \in Seq(WireByte), NEW tt, HasOneMore(tt, ss, x)
  PROVE  /\ Texts(tt) /\ \A i \in 0 .. Len(ss) : Joined(tt)[i] = Joined(ss)[i]
         /\ Joined(tt)[Len(ss) + 1] = Joined(ss)[Len(ss)] \o x
<1> DEFINE n == Len(ss)
           J(k) == Joined(ss)[k]
           K(k) == Joined(tt)[k]
           S == {k \in Nat : k <= n => K(k) = J(k)}
<1>1. /\ n \in Nat /\ Len(tt) = n + 1 /\ n + 1 \in 1 .. n + 1 /\ (n + 1) - 1 = n
      /\ \A i \in 1 .. n : ss[i] \in Seq(WireByte) /\ tt[i] = ss[i] /\ i \in 1 .. n + 1
      /\ \A i \in 1 .. n + 1 : i # n + 1 => i \in 1 .. n
      /\ tt[n + 1] = x
  BY DEF Texts, HasOneMore
<1>2. Texts(tt)
  <2> HIDE DEF n
  <2>1. \A i \in 1 .. n + 1 : tt[i] \in Seq(WireByte)
    BY <1>1
  <2>2. n + 1 \in Nat
    BY <1>1
  <2> QED BY <1>1, <2>1, <2>2 DEF Texts
<1>3. J(0) = << >> /\ \A i \in 1 .. n : J(i) = J(i - 1) \o ss[i]
  BY JoinedFacts
<1>4. K(0) = << >> /\ \A i \in 1 .. n + 1 : K(i) = K(i - 1) \o tt[i]
  <2>1. K(0) = << >> /\ \A i \in 1 .. Len(tt) : K(i) = K(i - 1) \o tt[i]
    BY <1>2, JoinedFacts
  <2> QED BY <1>1, <2>1
<1> HIDE DEF n, J, K
<1>5. 0 \in S
  BY <1>3, <1>4
<1>6. ASSUME NEW k \in Nat, k \in S PROVE k + 1 \in S
  <2> SUFFICES ASSUME k + 1 <= n PROVE K(k + 1) = J(k + 1)
    OBVIOUS
  <2>1. k + 1 \in 1 .. n /\ k + 1 \in 1 .. n + 1 /\ (k + 1) - 1 = k /\ k <= n
    BY <1>1
  <2>2. K(k) = J(k)
    BY <1>6, <2>1
  <2>3. K(k + 1) = K(k) \o tt[k + 1] /\ J(k + 1) = J(k) \o ss[k + 1]
    BY <1>3, <1>4, <2>1
  <2>4. tt[k + 1] = ss[k + 1]
    BY <1>1, <2>1
  <2> QED BY <2>2, <2>3, <2>4
<1> HIDE DEF S
<1>7. Nat \subseteq S
  BY <1>5, <1>6, SetInduction
<1>8. \A i \in 0 .. n : K(i) = J(i)
  BY <1>1, <1>7 DEF S
<1>9. K(n + 1) = J(n) \o x
  <2>1. n \in 0 .. n
    BY <1>1
  <2>2. K(n + 1) = K(n) \o tt[n + 1] /\ K(n) = J(n)
    BY <1>1, <1>4, <1>8, <2>1
  <2> QED BY <1>1, <2>2
<1> QED BY <1>2, <1>8, <1>9 DEF n, J, K

-----------------------------------------------------------------------------
(***************************************************************************)
(* The receiver of the stream.                                             *)
(***************************************************************************)

(* All the frames that were sent.                                          *)
Stream == Joined(Frames)[Len(sent)]

(* The packets of r are the first ones that were sent, and what is left of *)
(* the buffer is the stream behind them, up to the place e.                *)
Keeps(r, e) ==
    /\ r = Result(r.done, r.rest, r.state)
    /\ Len(r.done) \in 0 .. Len(sent)
    /\ r.done = [i \in 1 .. Len(r.done) |-> Answer(side, sent[i], Frames[i])]
    /\ r.rest \in Seq(WireByte) /\ Lies(Stream, EndOf(Len(r.done)), r.rest)
    /\ EndOf(Len(r.done)) + Len(r.rest) = e

(* It stops because the next packet is not complete, or because the server *)
(* refuses its length.                                                     *)
Stops(r) ==
    \/ /\ r.state = "open"
       /\ Len(r.done) < Len(sent) => Len(r.rest) < LengthOf(sent[Len(r.done) + 1])
    \/ /\ r.state = "closed" /\ side = "server" /\ Len(r.done) < Len(sent)
       /\ LengthOf(sent[Len(r.done) + 1]) > iMaxLength

Typed == side \in Sides /\ iMaxLength \in Nat /\ sent \in Seq(Packets(side))

(* The inductive invariant: what is left in the buffer and what is still   *)
(* on the wire are the rest of the stream behind the packets handed on.    *)
StreamInv ==
    /\ Typed
    /\ Keeps(Result(done, recv, state), EndOf(Len(done)) + Len(recv))
    /\ Stops(Result(done, recv, state))
    /\ wire \in Seq(WireByte) /\ Lies(Stream, EndOf(Len(done)) + Len(recv), wire)
    /\ (EndOf(Len(done)) + Len(recv)) + Len(wire) = Len(Stream)

(* The frames of the packets sent, and where they end.                     *)
LEMMA FramesAre ==
  ASSUME Typed
  PROVE  /\ Len(Frames) = Len(sent) /\ Len(sent) \in Nat /\ Texts(Frames)
         /\ Stream \in Seq(WireByte) /\ EndOf(0) = 0 /\ EndOf(Len(sent)) = Len(Stream)
         /\ \A i \in 0 .. Len(sent) : EndOf(i) \in Nat
         /\ \A i \in 1 .. Len(sent) :
              /\ sent[i] \in Packets(side) /\ Frames[i] = Frame(side, sent[i])
              /\ Frames[i] \in Seq(WireByte) /\ Len(Frames[i]) \in Nat /\ Len(Frames[i]) >= 4
              /\ Lies(Stream, EndOf(i - 1), Frames[i])
              /\ EndOf(i) = EndOf(i - 1) + Len(Frames[i])
<1> DEFINE N == Len(sent)
<1>1. N \in Nat /\ DOMAIN sent = 1 .. N /\ \A i \in 1 .. N : sent[i] \in Packets(side)
  BY LenProperties, ElementOfSeq DEF Typed
<1>2. Frames = [i \in 1 .. N |-> Frame(side, sent[i])]
  BY <1>1 DEF Frames
<1> HIDE DEF N
<1>3. \A i \in 1 .. N : Frames[i] = Frame(side, sent[i])
  BY <1>2
<1>4. Len(Frames) = N
  BY <1>1, <1>2
<1>5. ASSUME NEW i \in 1 .. N
      PROVE  Frames[i] \in Seq(WireByte) /\ Len(Frames[i]) \in Nat /\ Len(Frames[i]) >= 4
  <2> DEFINE p == sent[i]
             F == Frame(side, p)
             n == Len(WriteTo(PacketOf(side), p))
  <2>1. F \in Seq(WireByte) /\ Len(F) = 4 + n /\ Len(F) \in Nat /\ n \in Nat
    BY <1>1, FrameFacts DEF Typed
  <2>2. Frames[i] = F
    BY <1>3
  <2> HIDE DEF F, n
  <2>3. Len(F) >= 4
    BY <2>1
  <2> QED BY <2>1, <2>2, <2>3
<1>6. Texts(Frames)
  BY <1>1, <1>4, <1>5 DEF Texts
<1>7. \A i \in 0 .. N : EndOf(i) = Off(Frames, i)
  BY DEF EndOf, Off
<1>8. /\ Off(Frames, 0) = 0
      /\ \A i \in 0 .. N : Joined(Frames)[i] \in Seq(WireByte) /\ Off(Frames, i) \in Nat
      /\ \A i \in 1 .. N : Off(Frames, i) = Off(Frames, i - 1) + Len(Frames[i])
  BY <1>4, <1>6, JoinedFacts
<1>9. N \in 0 .. N /\ 0 \in 0 .. N /\ \A i \in 1 .. N : i \in 0 .. N /\ i - 1 \in 0 .. N
  BY <1>1
<1>10. Stream \in Seq(WireByte) /\ EndOf(N) = Len(Stream)
  BY <1>8, <1>9 DEF Stream, EndOf, N
<1>11. Lies(Stream, 0, Joined(Frames)[N])
  <2>1. Lies(Stream, 0, Stream)
    BY <1>10, LenProperties DEF Lies
  <2> QED BY <2>1 DEF Stream, N
<1>12. \A i \in 1 .. N : Lies(Stream, 0 + Off(Frames, i - 1), Frames[i])
  <2>1. N \in 0 .. Len(Frames)
    BY <1>4, <1>9
  <2> QED BY <1>6, <1>11, <2>1, PartsLie
<1>13. \A i \in 1 .. N : Lies(Stream, EndOf(i - 1), Frames[i])
  <2>1. \A i \in 1 .. N : 0 + Off(Frames, i - 1) = EndOf(i - 1)
    BY <1>7, <1>8, <1>9
  <2> QED BY <1>12, <2>1
<1> QED BY <1>1, <1>3, <1>4, <1>5, <1>6, <1>7, <1>8, <1>9, <1>10, <1>13 DEF N

(* A buffer of four bytes or more begins with the frame of the next packet,*)
(* or is the beginning of it.                                              *)
LEMMA NextFrame ==
  ASSUME Typed, NEW r, NEW e, Keeps(r, e), Len(r.rest) >= 4
  PROVE  LET d == Len(r.done)
             F == Frame(side, sent[d + 1])
         IN  /\ d + 1 \in 1 .. Len(sent) /\ sent[d + 1] \in Packets(side)
             /\ F = Frames[d + 1] /\ F \in Seq(WireByte) /\ Len(F) \in Nat /\ Len(F) >= 4
             /\ EndOf(d + 1) = EndOf(d) + Len(F) /\ EndOf(d) \in Nat
             /\ HeaderLen(r.rest) = Len(F)
             /\ Len(F) <= Len(r.rest) => Lies(r.rest, 0, F)
             /\ Len(r.rest) <= Len(F) => \A i \in 1 .. Len(r.rest) : r.rest[i] = F[i]
<1> DEFINE d == Len(r.done)
           N == Len(sent)
           F == Frame(side, sent[d + 1])
           q == r.rest
           c == EndOf(d)
<1>1. d \in 0 .. N /\ q \in Seq(WireByte) /\ Len(q) \in Nat /\ Lies(Stream, c, q) /\ Len(q) >= 4
  BY LenProperties DEF Keeps
<1>2. /\ N \in Nat /\ Stream \in Seq(WireByte) /\ EndOf(N) = Len(Stream) /\ c \in Nat
      /\ \A i \in 1 .. N :
              /\ sent[i] \in Packets(side) /\ Frames[i] = Frame(side, sent[i])
              /\ Frames[i] \in Seq(WireByte) /\ Len(Frames[i]) \in Nat /\ Len(Frames[i]) >= 4
              /\ Lies(Stream, EndOf(i - 1), Frames[i])
              /\ EndOf(i) = EndOf(i - 1) + Len(Frames[i])
  BY <1>1, FramesAre
<1> HIDE DEF d, N, q, c
<1>3. d # N
  <2> SUFFICES ASSUME d = N PROVE FALSE
    OBVIOUS
  <2>1. c = Len(Stream) /\ c + Len(q) <= Len(Stream)
    BY <1>1, <1>2 DEF Lies, c
  <2> QED BY <1>1, <1>2, <2>1
<1>4. d + 1 \in 1 .. N /\ (d + 1) - 1 = d
  BY <1>1, <1>2, <1>3
<1>5. /\ sent[d + 1] \in Packets(side) /\ F = Frames[d + 1] /\ F \in Seq(WireByte)
      /\ Len(F) \in Nat /\ Len(F) >= 4 /\ Lies(Stream, c, F) /\ EndOf(d + 1) = c + Len(F)
  <2>1. /\ sent[d + 1] \in Packets(side) /\ Frames[d + 1] = Frame(side, sent[d + 1])
        /\ Frames[d + 1] \in Seq(WireByte) /\ Len(Frames[d + 1]) \in Nat /\ Len(Frames[d + 1]) >= 4
        /\ Lies(Stream, EndOf((d + 1) - 1), Frames[d + 1])
        /\ EndOf(d + 1) = EndOf((d + 1) - 1) + Len(Frames[d + 1])
    BY <1>2, <1>4
  <2> QED BY <1>4, <2>1 DEF c
<1>6. NetToHost(SubSeq(F, 1, 4)) = Len(F)
  <2> DEFINE p == sent[d + 1]
  <2>1. NetToHost(SubSeq(Frame(side, p), 1, 4)) = Len(Frame(side, p))
    BY <1>5, FrameFacts DEF Typed
  <2> QED BY <2>1
<1> HIDE DEF F
<1>7. Len(F) <= Len(q) => Lies(q, 0, F)
  BY <1>1, <1>5, LiesAgree
<1>8. Len(q) <= Len(F) => \A i \in 1 .. Len(q) : q[i] = F[i]
  BY <1>1, <1>5, LiesAgree
<1>9. HeaderLen(q) = Len(F)
  <2> DEFINE a == SubSeq(q, 1, 4)
             b == SubSeq(F, 1, 4)
  <2>1. 4 \in 0 .. Len(q) /\ 4 \in 0 .. Len(F)
    BY <1>1, <1>5
  <2>2. a \in Seq(WireByte) /\ Len(a) = 4 /\ Lies(Stream, c, a)
    BY <1>1, <2>1, LiesCut
  <2>3. b \in Seq(WireByte) /\ Len(b) = 4 /\ Lies(Stream, c, b)
    BY <1>5, <2>1, LiesCut
  <2> HIDE DEF a, b
  <2>4. \A i \in 1 .. 4 : a[i] = b[i]
    BY <2>2, <2>3 DEF Lies
  <2>5. a = b
    BY <2>2, <2>3, <2>4, SeqEqual
  <2> QED BY <1>6, <2>5 DEF HeaderLen, sizeofLen, a, b
<1> QED BY <1>2, <1>4, <1>5, <1>7, <1>8, <1>9 DEF d, N, F, q, c

(* A packet that is complete is decoded and handed on.                     *)
LEMMA PacketTaken ==
  ASSUME Typed, NEW r, NEW e, Keeps(r, e), Len(r.rest) >= 4, HeaderLen(r.rest) <= Len(r.rest)
  PROVE  LET n == HeaderLen(r.rest)
             out == SubSeq(r.rest, sizeofLen + 1, n)
             p == sent[Len(r.done) + 1]
             next == Result(Append(r.done, Answer(side, p, SubSeq(r.rest, 1, n))),
                            SubSeq(r.rest, n + 1, Len(r.rest)), "more")
         IN  /\ ReadFrom(PacketOf(side), out, 0) = Ok(p, Len(out))
             /\ Keeps(next, e) /\ Len(next.rest) + 4 <= Len(r.rest)
<1> DEFINE d == Len(r.done)
           N == Len(sent)
           q == r.rest
           n == HeaderLen(q)
           p == sent[d + 1]
           F == Frame(side, p)
           M == PacketOf(side)
           body == WriteTo(M, p)
           out == SubSeq(q, sizeofLen + 1, n)
           a == Answer(side, p, SubSeq(q, 1, n))
           ps == Append(r.done, a)
           rest == SubSeq(q, n + 1, Len(q))
<1>1. /\ d + 1 \in 1 .. N /\ p \in Packets(side) /\ F = Frames[d + 1] /\ F \in Seq(WireByte)
      /\ n \in Nat /\ n >= 4 /\ n = Len(F) /\ EndOf(d + 1) = EndOf(d) + n /\ EndOf(d) \in Nat
      /\ Lies(q, 0, F)
  BY NextFrame
<1>2. /\ q \in Seq(WireByte) /\ Len(q) \in Nat /\ Lies(Stream, EndOf(d), q) /\ n <= Len(q)
      /\ EndOf(d) + Len(q) = e /\ d \in 0 .. N
      /\ r.done = [i \in 1 .. d |-> Answer(side, sent[i], Frames[i])]
  BY LenProperties DEF Keeps
<1>3. /\ IsPacket(M, p) /\ IsPacketType(M) /\ body \in Seq(WireByte) /\ Len(body) \in Nat
      /\ Len(F) = 4 + Len(body) /\ Lies(F, 4, body)
  <2>1. side \in Sides
    BY DEF Typed
  <2> QED BY <1>1, <2>1, FrameFacts
<1> HIDE DEF n, q, F, p, M, body
<1>4. SubSeq(q, 1, n) = F
  <2>1. SubSeq(q, 0 + 1, 0 + Len(F)) = F
    BY <1>1, LyingIsRead
  <2> QED BY <1>1, <2>1
<1>5. out = body
  <2>1. Lies(q, 0 + 4, body)
    BY <1>1, <1>3, LiesWithin
  <2>2. 0 + 4 = 4 /\ 4 + Len(body) = n
    BY <1>1, <1>3
  <2>3. SubSeq(q, 4 + 1, 4 + Len(body)) = body
    BY <1>3, <2>1, <2>2, LyingIsRead
  <2> QED BY <2>2, <2>3 DEF sizeofLen
<1>6. ReadFrom(M, out, 0) = Ok(p, Len(out))
  <2>1. Lies(body, 0, body) /\ 0 + Len(body) = Len(body)
    BY <1>3 DEF Lies
  <2>2. ReadFrom(M, body, 0) = Ok(p, Len(body))
    <3> DEFINE b == body
    <3>1. Lies(b, 0, WriteTo(M, p)) /\ 0 + Len(WriteTo(M, p)) = Len(b)
      BY <2>1 DEF body
    <3> HIDE DEF b
    <3>2. ReadFrom(M, b, 0) = Ok(p, Len(b))
      BY <1>3, <3>1, PacketReadBack
    <3> QED BY <3>2 DEF b
  <2> QED BY <1>5, <2>2, Zenon
<1>7. rest \in Seq(WireByte) /\ Len(rest) = Len(q) - n /\ Lies(Stream, EndOf(d) + n, rest)
  <2>1. n \in 0 .. Len(q)
    BY <1>1, <1>2
  <2> QED BY <1>2, <2>1, LiesCut
<1>8. Len(ps) = d + 1 /\ ps = [i \in 1 .. d + 1 |-> Answer(side, sent[i], Frames[i])]
  <2> DEFINE A(i) == Answer(side, sent[i], Frames[i])
  <2>1. d \in Nat /\ r.done = [i \in 1 .. d |-> A(i)]
    BY <1>2
  <2>2. a = A(d + 1)
    BY <1>1, <1>4 DEF p
  <2> HIDE DEF A, d, a
  <2>3. Len(ps) = d + 1 /\ ps = [i \in 1 .. d + 1 |-> A(i)]
    BY <2>1, <2>2
  <2> QED BY <2>3 DEF A
<1> DEFINE next == Result(ps, rest, "more")
<1>9. next.done = ps /\ next.rest = rest /\ next.state = "more"
  BY DEF Result
<1> HIDE DEF rest, ps, out, a
<1>10. Keeps(next, e)
  <2>1. EndOf(d + 1) + Len(rest) = e /\ d + 1 \in 0 .. N
    BY <1>1, <1>2, <1>7
  <2>2. Lies(Stream, EndOf(d + 1), rest)
    BY <1>1, <1>7
  <2> HIDE DEF next, d
  <2>3. Len(next.done) = d + 1
    BY <1>8, <1>9
  <2>4. next = Result(next.done, next.rest, next.state)
    BY <1>9 DEF next
  <2>5. /\ Len(ps) \in 0 .. N
        /\ ps = [i \in 1 .. Len(ps) |-> Answer(side, sent[i], Frames[i])]
        /\ Lies(Stream, EndOf(Len(ps)), rest) /\ EndOf(Len(ps)) + Len(rest) = e
    BY <1>8, <2>1, <2>2
  <2> QED BY <1>7, <1>9, <2>4, <2>5 DEF Keeps
<1>11. Len(next.rest) + 4 <= Len(q)
  BY <1>1, <1>2, <1>7, <1>9
<1> QED BY <1>6, <1>10, <1>11, Zenon DEF n, q, p, M, out, a, ps, rest

(* A round of the loop of a receiver.                                      *)
LEMMA RoundKeeps ==
  ASSUME Typed, NEW r, NEW e, Keeps(r, e), r.state = "more", NEW j \in WireByte
  PROVE  LET next == Round(side, r, j)
         IN  /\ Keeps(next, e)
             /\ \/ next.state = "more" /\ Len(next.rest) + 4 <= Len(r.rest)
                \/ Stops(next)
<1> DEFINE d == Len(r.done)
           q == r.rest
           n == HeaderLen(q)
           p == sent[d + 1]
           F == Frame(side, p)
           Ends(s) == [r EXCEPT !.state = s]
           out == SubSeq(q, sizeofLen + 1, n)
           rest == SubSeq(q, n + 1, Len(q))
           taken == Result(Append(r.done, Answer(side, p, SubSeq(q, 1, n))), rest, "more")
           next == Round(side, r, j)
<1>1. /\ side \in Sides /\ iMaxLength \in Nat /\ q \in Seq(WireByte) /\ Len(q) \in Nat
      /\ d \in 0 .. Len(sent) /\ Len(sent) \in Nat
  BY LenProperties DEF Typed, Keeps
<1>2. \A s : /\ Ends(s) = Result(r.done, q, s)
             /\ Ends(s).done = r.done /\ Ends(s).rest = q /\ Ends(s).state = s
  BY DEF Keeps, Result
<1>3. \A s : Keeps(Ends(s), e)
  <2> HIDE DEF Ends
  <2> QED BY <1>2 DEF Keeps
<1> HIDE DEF q, d, taken, rest, out, n, Ends
<1>4. next = IF side = "server" THEN ParseOne(r) ELSE ResponseOne(side, r, j)
  <2>1. r.state = "more"
    OBVIOUS
  <2> QED BY <2>1 DEF Round
<1> DEFINE Goal == /\ Keeps(next, e)
                   /\ \/ next.state = "more" /\ Len(next.rest) + 4 <= Len(r.rest)
                      \/ Stops(next)
<1>5. CASE Len(q) < 4
  <2>1. next = Ends("open")
    <3>1. CASE side = "server"
      <4>1. ParseLen(q).ret = 0
        BY <1>5 DEF ParseLen, sizeofLen
      <4>2. ParseOne(r) = Ends("open")
        BY <4>1 DEF ParseOne, q, Ends
      <4> QED BY <1>4, <3>1, <4>2
    <3>2. CASE side # "server"
      <4>0. Len(r.rest) < sizeofLen /\ ~(Len(r.rest) >= sizeofLen)
        BY <1>1, <1>5 DEF q, sizeofLen
      <4>1. ResponseOne(side, r, j) = Ends("open")
        BY <4>0, Zenon DEF ResponseOne, Ends
      <4> QED BY <1>4, <3>2, <4>1
    <3> QED BY <3>1, <3>2
  <2>2. d < Len(sent) => Len(q) < LengthOf(p)
    <3> SUFFICES ASSUME d < Len(sent) PROVE Len(q) < LengthOf(p)
      OBVIOUS
    <3>1. d + 1 \in 1 .. Len(sent)
      BY <1>1
    <3>2. Len(Frames[d + 1]) \in Nat /\ Len(Frames[d + 1]) >= 4 /\ Frames[d + 1] = Frame(side, p)
      BY <3>1, FramesAre
    <3> QED BY <1>1, <1>5, <3>2 DEF LengthOf
  <2>3. Stops(next)
    BY <1>2, <2>1, <2>2 DEF Stops, d
  <2> QED BY <1>3, <2>1, <2>3
<1>6. CASE ~(Len(q) < 4)
  <2>1. /\ d + 1 \in 1 .. Len(sent) /\ p \in Packets(side) /\ F \in Seq(WireByte)
        /\ n = Len(F) /\ n \in Nat /\ n >= 4
        /\ Len(q) <= Len(F) => \A i \in 1 .. Len(q) : q[i] = F[i]
    <3>1. Len(r.rest) >= 4
      BY <1>1, <1>6 DEF q
    <3> QED BY <3>1, NextFrame DEF q, d, n
  <2> HIDE DEF p, F
  <2>2. n = LengthOf(p) /\ d < Len(sent)
    BY <1>1, <2>1 DEF LengthOf, F
  <2>3. ASSUME side = "server", n > iMaxLength PROVE Goal
    <3>1. ParseLen(q).ret = -1
      BY <1>6, <2>3 DEF ParseLen, sizeofLen, n
    <3>2. ParseOne(r) = Ends("closed")
      BY <3>1 DEF ParseOne, q, Ends
    <3>3. next = Ends("closed")
      BY <1>4, <2>3, <3>2
    <3>4. Stops(next)
      BY <1>2, <2>2, <2>3, <3>3 DEF Stops, d, p
    <3> QED BY <1>3, <3>3, <3>4
  <2>4. ASSUME side = "server" => ~(n > iMaxLength), Len(q) < n PROVE Goal
    <3>1. next = Ends("open")
      <4>1. CASE side = "server"
        <5>1. ~(Len(q) < sizeofLen) /\ ~(n < sizeofLen \/ n > iMaxLength)
          BY <1>1, <1>6, <2>1, <2>4, <4>1 DEF sizeofLen
        <5>2. ParseLen(q).ret = 0
          BY <2>4, <5>1 DEF ParseLen, n
        <5>3. ParseOne(r) = Ends("open")
          BY <5>2 DEF ParseOne, q, Ends
        <5> QED BY <1>4, <4>1, <5>3
      <4>2. CASE side # "server"
        <5>1. Len(q) >= head => HeadReads(side, q, j)
          <6> SUFFICES ASSUME Len(q) >= head PROVE HeadReads(side, q, j)
            OBVIOUS
          <6>1. side \in {"client", "tup"}
            BY <1>1, <4>2 DEF Sides
          <6>2. Len(q) <= Len(F) /\ \A i \in 1 .. Len(q) : q[i] = F[i]
            BY <1>1, <2>1, <2>4
          <6> QED BY <1>1, <2>1, <6>1, <6>2, HeadLooks DEF F
        <5>2. ~(Len(q) < sizeofLen) /\ Len(q) >= sizeofLen
          BY <1>1, <1>6 DEF sizeofLen
        <5>3. ResponseOne(side, r, j) = Ends("open")
          BY <2>4, <5>1, <5>2, Zenon DEF ResponseOne, q, n, Ends
        <5> QED BY <1>4, <4>2, <5>3
      <4> QED BY <4>1, <4>2
    <3>2. Stops(next)
      BY <1>2, <2>2, <2>4, <3>1 DEF Stops, d, p
    <3> QED BY <1>3, <3>1, <3>2
  <2>5. ASSUME side = "server" => ~(n > iMaxLength), ~(Len(q) < n) PROVE Goal
    <3>1. /\ ReadFrom(PacketOf(side), out, 0) = Ok(p, Len(out))
          /\ Keeps(taken, e) /\ Len(taken.rest) + 4 <= Len(q)
      <4>1. Len(r.rest) >= 4 /\ HeaderLen(r.rest) <= Len(r.rest)
        BY <1>1, <1>6, <2>1, <2>5 DEF q, n
      <4> QED BY <4>1, PacketTaken DEF q, n, p, d, out, taken, rest
    <3>2. taken.state = "more"
      BY DEF taken, Result
    <3>3. next = taken
      <4> DEFINE w == ReadFrom(PacketOf(side), out, 0)
      <4>1. w.ex = "" /\ w.v = p
        <5> DEFINE l == Len(out)
        <5>1. w = Ok(p, l)
          BY <3>1
        <5> HIDE DEF w, l
        <5> QED BY ONLY <5>1, AllOk, Zenon
      <4>2. CASE side = "server"
        <5>1. ~(Len(q) < sizeofLen) /\ ~(n < sizeofLen \/ n > iMaxLength)
          BY <1>1, <1>6, <2>1, <2>5, <4>2 DEF sizeofLen
        <5>2. ParseLen(q) = [ret |-> 1, out |-> out, in |-> rest]
          BY <2>5, <5>1 DEF ParseLen, n, out, rest
        <5>3. /\ ParseLen(q).ret = 1 /\ ParseLen(q).ret # 0 /\ ParseLen(q).ret # -1
              /\ ParseLen(q).out = out /\ ParseLen(q).in = rest
          BY <5>2
        <5>4. PacketOf(side) = RequestPacket
          BY <4>2 DEF PacketOf
        <5>5. ParseOne(r) = Result(Append(r.done, p), rest, "more")
          <6> DEFINE K == ParseLen(q)
          <6>1. K.ret # 0 /\ K.ret # -1 /\ K.out = out /\ K.in = rest
            BY <5>3
          <6>2. ParseLen(r.rest) = K
            BY DEF q
          <6>3. w = ReadFrom(RequestPacket, out, 0)
            BY <5>4
          <6> HIDE DEF K, w
          <6> QED BY <4>1, <6>1, <6>2, <6>3, Zenon DEF ParseOne, TryCatch
        <5>6. Answer(side, p, SubSeq(q, 1, n)) = p
          BY <4>2 DEF Answer
        <5> QED BY <1>4, <4>2, <5>5, <5>6 DEF taken
      <4>3. CASE side # "server"
        <5>1. ~(Len(q) < sizeofLen) /\ ~(Len(q) >= sizeofLen /\ Len(q) < n)
          BY <1>1, <1>6, <2>5 DEF sizeofLen
        <5>2. ResponseOne(side, r, j) = taken
          <6> HIDE DEF w
          <6>1. Len(r.rest) = Len(q) /\ HeaderLen(r.rest) = n
            BY DEF q, n
          <6> QED BY <4>1, <5>1, Zenon DEF ResponseOne, TryCatch, q, n, taken, rest, out, w
        <5> QED BY <1>4, <4>3, <5>2
      <4> QED BY <4>2, <4>3
    <3> QED BY <3>1, <3>2, <3>3 DEF q
  <2> QED BY <2>3, <2>4, <2>5
<1> QED BY <1>5, <1>6

(* The loop ends: its last round is not followed by another one.           *)
LEMMA LoopKeeps ==
  ASSUME Typed, NEW in, NEW e, Keeps(Result(done, in, "more"), e), NEW j \in WireByte
  PROVE  LET r == Parsed(side, in, done, j)
         IN  Keeps(r, e) /\ Stops(r)
<1> DEFINE r0 == Result(done, in, "more")
           n == Len(in) \div sizeofLen + 1
<1>1. r0.done = done /\ r0.rest = in /\ r0.state = "more"
  BY DEF Result
<1>2. in \in Seq(WireByte) /\ Len(in) \in Nat
  <2> HIDE DEF r0
  <2>1. Keeps(r0, e)
    BY DEF r0
  <2>2. r0.rest \in Seq(WireByte)
    BY <2>1 DEF Keeps
  <2> QED BY <1>1, <2>2, LenProperties
<1>3. n \in Nat /\ 4 * n > Len(in) /\ n = Len(in) \div sizeofLen + 1
  <2> DEFINE x == Len(in)
             y == x \div 4
  <2>1. y \in Nat /\ x < 4 * y + 4
    <3> HIDE DEF x
    <3> QED BY <1>2 DEF x
  <2> HIDE DEF x, y
  <2> QED BY <1>2, <2>1 DEF sizeofLen, x, y
<1> HIDE DEF n
<1>a. PICK after : Parsed(side, in, done, j) = after[n] /\ IsLoop(after, side, in, done, j, n)
  BY <1>3, ParsedIs
<1>4. /\ Parsed(side, in, done, j) = after[n] /\ after[0] = r0
      /\ \A i \in 1 .. n : after[i] = Round(side, after[i - 1], j)
  BY <1>a DEF IsLoop
<1> DEFINE left(i) == Len(after[i].rest)
           Good(i) == /\ Keeps(after[i], e)
                      /\ \/ after[i].state = "more" /\ left(i) + 4 * i <= Len(in)
                         \/ Stops(after[i])
           S == {i \in Nat : i <= n => Good(i)}
<1>5. 0 \in S
  <2>1. left(0) = Len(in) /\ after[0].state = "more" /\ Keeps(after[0], e)
    BY <1>1, <1>4
  <2>2. left(0) + 4 * 0 <= Len(in)
    BY <1>2, <2>1
  <2> QED BY <2>1, <2>2
<1> HIDE DEF Good
<1>6. ASSUME NEW i \in Nat, i \in S PROVE i + 1 \in S
  <2> SUFFICES ASSUME i + 1 <= n PROVE Good(i + 1)
    OBVIOUS
  <2> DEFINE r == after[i]
             q == after[i + 1]
  <2>1. q = Round(side, r, j) /\ Good(i)
    <3>1. i + 1 \in 1 .. n /\ (i + 1) - 1 = i /\ i <= n
      BY <1>3
    <3>2. after[i + 1] = Round(side, after[(i + 1) - 1], j)
      BY <1>4, <3>1
    <3> QED BY <1>6, <3>1, <3>2
  <2>2. CASE r.state = "more" /\ left(i) + 4 * i <= Len(in)
    <3> HIDE DEF r, q
    <3>1. /\ Keeps(q, e)
          /\ \/ q.state = "more" /\ Len(q.rest) + 4 <= Len(r.rest)
             \/ Stops(q)
      <4>1. Keeps(r, e) /\ r.state = "more"
        BY <2>1, <2>2 DEF r, Good
      <4> QED BY <2>1, <4>1, RoundKeeps
    <3>2. Len(q.rest) \in Nat /\ Len(r.rest) \in Nat
      <4>1. Keeps(r, e) /\ Keeps(q, e)
        BY <2>1, <3>1 DEF r, Good
      <4> QED BY <4>1, LenProperties DEF Keeps
    <3>3. Len(q.rest) + 4 <= Len(r.rest) => Len(q.rest) + 4 * (i + 1) <= Len(in)
      <4> DEFINE x == Len(q.rest)
                 y == Len(r.rest)
                 z == Len(in)
      <4>1. y + 4 * i <= z /\ x \in Nat /\ y \in Nat /\ z \in Nat
        BY <1>2, <2>2, <3>2 DEF r
      <4> HIDE DEF x, y, z
      <4>2. x + 4 <= y => x + 4 * (i + 1) <= z
        BY <4>1
      <4> QED BY <4>2 DEF x, y, z
    <3> QED BY <3>1, <3>3 DEF q, Good
  <2>3. CASE Stops(r)
    <3>1. r.state # "more"
      BY <2>3 DEF Stops
    <3>2. q = r
      <4> HIDE DEF q, r
      <4> QED BY <2>1, <3>1, Zenon DEF Round
    <3> QED BY <2>1, <2>3, <3>2 DEF Good
  <2> QED BY <2>1, <2>2, <2>3 DEF Good
<1> HIDE DEF S
<1>7. Nat \subseteq S
  BY <1>5, <1>6, SetInduction
<1>8. Good(n)
  BY <1>3, <1>7 DEF S
<1>9. ~(left(n) + 4 * n <= Len(in))
  <2>1. left(n) \in Nat
    BY <1>8, LenProperties DEF Keeps, Good
  <2> HIDE DEF left
  <2> QED BY <1>2, <1>3, <2>1
<1> QED BY <1>4, <1>8, <1>9 DEF Good

(* The fields of a receiver                                                *)
LEMMA ResultIs ==
  ASSUME NEW a, NEW b, NEW c
  PROVE  Result(a, b, c).done = a /\ Result(a, b, c).rest = b /\ Result(a, b, c).state = c
BY DEF Result

(* Before anything is sent the stream is empty.                            *)
LEMMA StreamInvInit == ProtocolInit => StreamInv
<1> SUFFICES ASSUME ProtocolInit PROVE StreamInv
  OBVIOUS
<1>1. Typed /\ sent = << >> /\ wire = << >> /\ recv = << >> /\ done = << >> /\ state = "open"
  BY ProtocolAssumption DEF ProtocolInit, Typed, Sides
<1>2. Stream \in Seq(WireByte) /\ EndOf(0) = 0 /\ Len(Stream) = 0
  <2>1. Len(sent) = 0
    BY <1>1
  <2> QED BY <1>1, <2>1, FramesAre
<1>3. Len(done) = 0 /\ Len(recv) = 0 /\ Len(wire) = 0 /\ Len(sent) = 0
  BY <1>1
<1>4. Lies(Stream, 0, << >>) /\ << >> \in Seq(WireByte)
  BY <1>2 DEF Lies
<1> DEFINE r == Result(done, recv, state)
<1>5. r.done = << >> /\ r.rest = << >> /\ r.state = "open" /\ r = Result(r.done, r.rest, r.state)
  BY <1>1, ResultIs
<1> HIDE DEF r
<1>6. Keeps(r, EndOf(Len(done)) + Len(recv))
  <2>1. Len(r.done) = 0 /\ Len(r.rest) = 0
    BY <1>5
  <2>2. r.done = [i \in 1 .. Len(r.done) |-> Answer(side, sent[i], Frames[i])]
    BY <1>5
  <2> QED BY <1>2, <1>3, <1>4, <1>5, <2>1, <2>2 DEF Keeps
<1>7. Stops(r)
  <2>1. ~(Len(r.done) < Len(sent))
    BY <1>3, <1>5
  <2> QED BY <1>5, <2>1 DEF Stops
<1> QED BY <1>1, <1>2, <1>3, <1>4, <1>6, <1>7 DEF StreamInv, r

(* The parts of the inductive invariant, without the record of a receiver  *)
LEMMA StreamInvIs ==
  StreamInv <=>
    /\ Typed
    /\ Len(done) \in 0 .. Len(sent)
    /\ done = [i \in 1 .. Len(done) |-> Answer(side, sent[i], Frames[i])]
    /\ recv \in Seq(WireByte) /\ Lies(Stream, EndOf(Len(done)), recv)
    /\ \/ /\ state = "open"
          /\ Len(done) < Len(sent) => Len(recv) < LengthOf(sent[Len(done) + 1])
       \/ /\ state = "closed" /\ side = "server" /\ Len(done) < Len(sent)
          /\ LengthOf(sent[Len(done) + 1]) > iMaxLength
    /\ wire \in Seq(WireByte) /\ Lies(Stream, EndOf(Len(done)) + Len(recv), wire)
    /\ (EndOf(Len(done)) + Len(recv)) + Len(wire) = Len(Stream)
<1> DEFINE r == Result(done, recv, state)
<1>1. r.done = done /\ r.rest = recv /\ r.state = state
  BY ResultIs
<1> HIDE DEF r
<1>2. r = Result(r.done, r.rest, r.state)
  BY <1>1 DEF r
<1> QED BY <1>1, <1>2 DEF StreamInv, Keeps, Stops, r

(* What is sent is put behind the stream.                                  *)
LEMMA SendKeeps ==
  ASSUME StreamInv, NEW p \in Packets(side), Send(p)
  PROVE  StreamInv'
<1> DEFINE N == Len(sent)
           d == Len(done)
           F == Frame(side, p)
           ff == Frames
           tt == Frames'
           E(i) == EndOf(i)
<1>1. /\ Typed /\ d \in 0 .. N
      /\ done = [i \in 1 .. d |-> Answer(side, sent[i], Frames[i])]
      /\ recv \in Seq(WireByte) /\ Lies(Stream, E(d), recv)
      /\ wire \in Seq(WireByte) /\ Lies(Stream, E(d) + Len(recv), wire)
      /\ (E(d) + Len(recv)) + Len(wire) = Len(Stream)
      /\ \/ state = "open" /\ (d < N => Len(recv) < LengthOf(sent[d + 1]))
         \/ state = "closed" /\ side = "server" /\ d < N /\ LengthOf(sent[d + 1]) > iMaxLength
  BY StreamInvIs
<1>2. /\ sent' = Append(sent, p) /\ wire' = wire \o F /\ side' = side /\ recv' = recv
      /\ done' = done /\ state' = state /\ iMaxLength' = iMaxLength
  BY DEF Send
<1>3. /\ Len(ff) = N /\ N \in Nat /\ Texts(ff) /\ Stream \in Seq(WireByte)
      /\ E(N) = Len(Stream) /\ \A i \in 0 .. N : E(i) \in Nat
      /\ \A i \in 1 .. N : ff[i] = Frame(side, sent[i])
  BY <1>1, FramesAre
<1>4. F \in Seq(WireByte) /\ Len(F) \in Nat /\ Len(F) > 0
  <2> DEFINE n == Len(WriteTo(PacketOf(side), p))
  <2>1. F \in Seq(WireByte) /\ Len(F) = 4 + n /\ Len(F) \in Nat /\ n \in Nat
    BY <1>1, FrameFacts DEF Typed
  <2> HIDE DEF F, n
  <2> QED BY <2>1
<1>5. /\ sent' \in Seq(Packets(side)) /\ Len(sent') = N + 1 /\ sent'[N + 1] = p
      /\ \A i \in 1 .. N : sent'[i] = sent[i]
      /\ DOMAIN sent' = 1 .. N + 1
  <2>1. sent \in Seq(Packets(side))
    BY <1>1 DEF Typed
  <2>2. /\ sent' \in Seq(Packets(side)) /\ Len(sent') = Len(sent) + 1 /\ sent'[Len(sent) + 1] = p
        /\ \A i \in 1 .. Len(sent) : sent'[i] = sent[i]
    BY <1>2, <2>1, AppendProperties
  <2> QED BY <2>2, LenProperties
<1>6. Len(tt) = N + 1 /\ tt[N + 1] = F /\ \A i \in 1 .. N : tt[i] = ff[i]
  <2>1. tt = [i \in 1 .. N + 1 |-> Frame(side, sent'[i])]
    BY <1>2, <1>5 DEF Frames, Frame, PacketOf
  <2> HIDE DEF tt, F, N, ff
  <2>2. N + 1 \in 1 .. N + 1 /\ N + 1 \in Nat /\ \A i \in 1 .. N : i \in 1 .. N + 1
    BY <1>3
  <2>3. Len(tt) = N + 1
    BY <2>1, <2>2
  <2>4. tt[N + 1] = F
    BY <1>5, <2>1, <2>2 DEF F
  <2>5. \A i \in 1 .. N : tt[i] = ff[i]
    BY <1>3, <1>5, <2>1, <2>2
  <2> QED BY <2>3, <2>4, <2>5
<1>7. /\ \A i \in 0 .. N : Joined(tt)[i] = Joined(ff)[i]
      /\ Joined(tt)[N + 1] = Joined(ff)[N] \o F
  <2> HIDE DEF tt, ff, F
  <2>1. HasOneMore(tt, ff, F)
    BY <1>3, <1>6 DEF HasOneMore
  <2>2. /\ \A i \in 0 .. Len(ff) : Joined(tt)[i] = Joined(ff)[i]
        /\ Joined(tt)[Len(ff) + 1] = Joined(ff)[Len(ff)] \o F
    BY <1>3, <1>4, <2>1, JoinedAppend
  <2> QED BY <1>3, <2>2
<1>8. Stream' = Stream \o F /\ \A i \in 0 .. N : EndOf(i)' = E(i)
  BY <1>5, <1>7 DEF Stream, EndOf
<1> DEFINE c == E(d)
<1>9. Typed'
  BY <1>1, <1>2, <1>5 DEF Typed
<1>10. EndOf(Len(done))' = c /\ c \in Nat
  BY <1>1, <1>2, <1>3, <1>8 DEF EndOf
<1>11. Len(done)' = d /\ Len(sent)' = N + 1 /\ Len(recv)' = Len(recv) /\ recv' = recv
  BY <1>2, <1>5
<1>12. (done = [i \in 1 .. Len(done) |-> Answer(side, sent[i], Frames[i])])'
  <2>1. \A i \in 1 .. d : Answer(side', sent'[i], tt[i]) = Answer(side, sent[i], ff[i])
    <3>1. \A i \in 1 .. d : i \in 1 .. N
      BY <1>1, <1>3
    <3> QED BY <1>2, <1>5, <1>6, <3>1 DEF Answer
  <2>2. done = [i \in 1 .. d |-> Answer(side', sent'[i], tt[i])]
    <3> DEFINE A(i) == Answer(side, sent[i], ff[i])
               B(i) == Answer(side', sent'[i], tt[i])
    <3>1. done = [i \in 1 .. d |-> A(i)] /\ \A i \in 1 .. d : A(i) = B(i)
      BY <1>1, <2>1
    <3> HIDE DEF A, B
    <3>2. done = [i \in 1 .. d |-> B(i)]
      BY <3>1
    <3> QED BY <3>2 DEF B
  <2> QED BY <1>2, <2>2
<1> HIDE DEF F, c
<1>13. Lies(Stream', c, recv) /\ Lies(Stream', c + Len(recv), wire) /\ Lies(Stream', Len(Stream), F)
       /\ Len(Stream') = Len(Stream) + Len(F)
  BY <1>1, <1>3, <1>4, <1>8, LiesStays DEF c
<1> DEFINE b == c + Len(recv)
<1>14. /\ wire' \in Seq(WireByte) /\ Len(wire') = Len(wire) + Len(F)
       /\ Lies(Stream', b, wire')
  <2>1. b + Len(wire) = Len(Stream)
    BY <1>1 DEF c
  <2> HIDE DEF b
  <2>2. Lies(Stream', b, wire) /\ Lies(Stream', b + Len(wire), F)
    BY <1>13, <2>1 DEF b
  <2> QED BY <1>1, <1>2, <1>4, <2>2, LiesJoined
<1>15. b + Len(wire') = Len(Stream')
  <2>1. b + Len(wire) = Len(Stream) /\ b \in Nat /\ Len(wire) \in Nat
    BY <1>1, <1>10, LenProperties DEF c
  <2> DEFINE x == Len(wire)
             y == Len(F)
             z == Len(Stream)
  <2>2. Len(wire') = x + y /\ Len(Stream') = z + y /\ x \in Nat /\ y \in Nat /\ b + x = z
    BY <1>4, <1>13, <1>14, <2>1
  <2> HIDE DEF b, x, y, z
  <2>3. b + (x + y) = z + y
    BY <2>1, <2>2
  <2> QED BY <2>2, <2>3
<1>16. \/ state' = "open" /\ (d < N + 1 => Len(recv) < Len(Frame(side, sent'[d + 1])))
       \/ state' = "closed" /\ side = "server" /\ d < N + 1
          /\ Len(Frame(side, sent'[d + 1])) > iMaxLength
  <2>0. d \in 0 .. N /\ N \in Nat
    BY <1>1, <1>3
  <2> HIDE DEF d, N
  <2>1. CASE d < N
    <3>1. d + 1 \in 1 .. N /\ d < N + 1
      BY <2>0, <2>1
    <3>2. sent'[d + 1] = sent[d + 1]
      BY <1>5, <3>1
    <3> QED BY <1>1, <1>2, <2>1, <3>1, <3>2 DEF LengthOf
  <2>2. CASE ~(d < N)
    <3>1. d = N /\ d + 1 = N + 1
      BY <2>0, <2>2
    <3>2. Len(recv) = 0
      <4>1. E(N) = Len(Stream) /\ E(N) + Len(recv) <= Len(Stream) /\ E(N) \in Nat /\ Len(recv) \in Nat
        BY <1>1, <1>3, <3>1, LenProperties DEF Lies
      <4> DEFINE x == E(N)
                 y == Len(recv)
                 z == Len(Stream)
      <4> HIDE DEF x, y, z
      <4>2. x = z /\ x + y <= z /\ x \in Nat /\ y \in Nat
        BY <4>1 DEF x, y, z
      <4>3. y = 0
        BY <4>2
      <4> QED BY <4>3 DEF y
    <3>3. Frame(side, sent'[d + 1]) = F
      BY <1>5, <3>1 DEF F
    <3> QED BY <1>1, <1>2, <1>4, <2>2, <3>2, <3>3
  <2> QED BY <2>1, <2>2
<1>17. \A x : LengthOf(x)' = Len(Frame(side, x))
  BY <1>2 DEF LengthOf, Frame, PacketOf
<1>18. LengthOf(sent[Len(done) + 1])' = Len(Frame(side, sent'[d + 1]))
  BY <1>2 DEF LengthOf, Frame, PacketOf
<1>19. d \in 0 .. N + 1
  BY <1>1, <1>3
<1>20. (EndOf(Len(done)) + Len(recv))' = b /\ Stream' \in Seq(WireByte)
  <2>1. (EndOf(Len(done)) + Len(recv))' = EndOf(Len(done))' + Len(recv)'
    OBVIOUS
  <2>2. Stream' \in Seq(WireByte)
    BY <1>14 DEF Lies
  <2> QED BY <1>10, <1>11, <2>1, <2>2
<1> HIDE DEF b, d, N
<1>21. /\ Len(done)' \in 0 .. Len(sent)'
       /\ recv' \in Seq(WireByte) /\ Lies(Stream', EndOf(Len(done))', recv')
       /\ wire' \in Seq(WireByte) /\ Lies(Stream', (EndOf(Len(done)) + Len(recv))', wire')
       /\ (EndOf(Len(done)) + Len(recv))' + Len(wire') = Len(Stream')
  BY <1>1, <1>10, <1>11, <1>13, <1>14, <1>15, <1>19, <1>20
<1>22. \/ state' = "open" /\ (Len(done)' < Len(sent)' => Len(recv)' < LengthOf(sent[Len(done) + 1])')
       \/ /\ state' = "closed" /\ side' = "server" /\ Len(done)' < Len(sent)'
          /\ LengthOf(sent[Len(done) + 1])' > iMaxLength'
  BY <1>2, <1>11, <1>16, <1>18
<1> QED BY <1>9, <1>12, <1>21, <1>22 DEF StreamInv, Keeps, Stops, Result

(* What arrives is taken from the wire and put behind the buffer.          *)
LEMMA RecvKeeps ==
  ASSUME StreamInv, NEW k \in 1 .. Len(wire), Recv(k)
  PROVE  StreamInv'
<1> DEFINE d == Len(done)
           m == Len(recv)
           c == EndOf(d)
           x == SubSeq(wire, 1, k)
           y == SubSeq(wire, k + 1, Len(wire))
           in == recv \o x
           e == c + (m + k)
<1>1. /\ Typed /\ d \in 0 .. Len(sent)
      /\ done = [i \in 1 .. d |-> Answer(side, sent[i], Frames[i])]
      /\ recv \in Seq(WireByte) /\ Lies(Stream, c, recv)
      /\ wire \in Seq(WireByte) /\ Lies(Stream, c + m, wire)
      /\ (c + m) + Len(wire) = Len(Stream)
  BY StreamInvIs
<1>2. /\ y = wire' /\ side' = side /\ sent' = sent /\ iMaxLength' = iMaxLength
  BY DEF Recv
<1>3. PICK j \in Junk : LET r == Parsed(side, in, done, j)
                        IN  done' = r.done /\ recv' = r.rest /\ state' = r.state
  BY DEF Recv
<1>4. m \in Nat /\ c \in Nat /\ Len(wire) \in Nat /\ k \in 0 .. Len(wire) /\ k \in Nat
  BY <1>1, FramesAre, LenProperties
<1> HIDE DEF c, m
<1>5. /\ x \in Seq(WireByte) /\ Len(x) = k /\ Lies(Stream, c + m, x)
      /\ y \in Seq(WireByte) /\ Len(y) = Len(wire) - k /\ Lies(Stream, (c + m) + k, y)
  BY <1>1, <1>4, LiesCut
<1> HIDE DEF x, y
<1>6. in \in Seq(WireByte) /\ Len(in) = m + k /\ Lies(Stream, c, in)
  BY <1>1, <1>5, LiesJoined DEF m
<1> HIDE DEF in
<1> DEFINE r == Result(done, in, "more")
           q == Parsed(side, in, done, j)
<1>7. Keeps(r, e)
  <2>1. r.done = done /\ r.rest = in /\ r.state = "more"
    BY ResultIs
  <2>2. r = Result(r.done, r.rest, r.state)
    BY <2>1
  <2> HIDE DEF r
  <2>3. c + Len(in) = e
    BY <1>6
  <2> QED BY <1>1, <1>6, <2>1, <2>2, <2>3 DEF Keeps, c
<1> HIDE DEF e
<1>8. Keeps(q, e) /\ Stops(q)
  <2>1. j \in WireByte
    BY ProtocolAssumption
  <2> QED BY <1>1, <1>7, <2>1, LoopKeeps
<1>9. q = Result(done', recv', state') /\ q.done = done' /\ q.rest = recv' /\ q.state = state'
  <2>1. q.done = done' /\ q.rest = recv' /\ q.state = state'
    BY <1>3
  <2>2. q = Result(q.done, q.rest, q.state)
    <3> HIDE DEF q
    <3> QED BY <1>8 DEF Keeps
  <2> QED BY <2>1, <2>2
<1> HIDE DEF q
<1>10. /\ Frames' = Frames /\ Stream' = Stream /\ EndOf(Len(done))' = EndOf(Len(done'))
       /\ Typed'
  BY <1>1, <1>2 DEF Frames, Frame, PacketOf, Stream, EndOf, Typed
<1>11. /\ Len(done') \in 0 .. Len(sent)
       /\ done' = [i \in 1 .. Len(done') |-> Answer(side, sent[i], Frames[i])]
       /\ recv' \in Seq(WireByte) /\ Lies(Stream, EndOf(Len(done')), recv')
       /\ EndOf(Len(done')) + Len(recv') = e
  BY <1>8, <1>9 DEF Keeps
<1>12. \/ /\ state' = "open"
          /\ Len(done') < Len(sent) => Len(recv') < LengthOf(sent[Len(done') + 1])
       \/ /\ state' = "closed" /\ side = "server" /\ Len(done') < Len(sent)
          /\ LengthOf(sent[Len(done') + 1]) > iMaxLength
  BY <1>8, <1>9 DEF Stops
<1>13. /\ y \in Seq(WireByte) /\ Lies(Stream, e, y) /\ e + Len(y) = Len(Stream)
  <2> DEFINE l == Len(wire)
             o == Len(y)
             z == Len(Stream)
  <2>1. (c + m) + l = z /\ o = l - k /\ l \in Nat /\ e = c + (m + k)
    BY <1>1, <1>4, <1>5 DEF e, m
  <2> HIDE DEF l, o, z
  <2>2. e + o = z /\ (c + m) + k = e
    BY <1>4, <2>1
  <2>3. Lies(Stream, e, y)
    BY <1>5, <2>2
  <2> QED BY <1>5, <2>2, <2>3 DEF o, z
<1>14. LengthOf(sent[Len(done) + 1])' = LengthOf(sent[Len(done') + 1])
  BY <1>2 DEF LengthOf, Frame, PacketOf
<1>15. (done = [i \in 1 .. Len(done) |-> Answer(side, sent[i], Frames[i])])'
  <2> DEFINE A(i) == Answer(side, sent[i], Frames[i])
             B(i) == Answer(side', sent'[i], Frames'[i])
  <2>1. \A i : A(i) = B(i)
    BY <1>2, <1>10 DEF Answer
  <2>2. done' = [i \in 1 .. Len(done') |-> A(i)]
    BY <1>11
  <2> HIDE DEF A, B
  <2>3. done' = [i \in 1 .. Len(done') |-> B(i)]
    BY <2>1, <2>2
  <2> QED BY <2>3 DEF B
<1>16. /\ Len(done)' \in 0 .. Len(sent)'
       /\ recv' \in Seq(WireByte) /\ Lies(Stream', EndOf(Len(done))', recv')
       /\ wire' \in Seq(WireByte) /\ Lies(Stream', EndOf(Len(done))' + Len(recv'), wire')
       /\ (EndOf(Len(done))' + Len(recv')) + Len(wire') = Len(Stream')
  BY <1>2, <1>10, <1>11, <1>13
<1>17. \/ state' = "open" /\ (Len(done)' < Len(sent)' => Len(recv)' < LengthOf(sent[Len(done) + 1])')
       \/ /\ state' = "closed" /\ side' = "server" /\ Len(done)' < Len(sent)'
          /\ LengthOf(sent[Len(done) + 1])' > iMaxLength'
  BY <1>2, <1>12, <1>14
<1> QED BY <1>10, <1>15, <1>16, <1>17 DEF StreamInv, Keeps, Stops, Result

(* The packets handed on are those that have arrived in full.              *)
LEMMA ArrivedAre ==
  ASSUME StreamInv, state = "open"
  PROVE  Len(done) = Arrived
<1> DEFINE N == Len(sent)
           d == Len(done)
           a == EndOf(N) - Len(wire)
           S == {n \in 1 .. N : EndOf(n) <= a}
<1>1. /\ Typed /\ d \in 0 .. N /\ recv \in Seq(WireByte) /\ wire \in Seq(WireByte)
      /\ (EndOf(d) + Len(recv)) + Len(wire) = Len(Stream)
      /\ d < N => Len(recv) < LengthOf(sent[d + 1])
  BY StreamInvIs
<1>2. /\ Len(Frames) = N /\ N \in Nat /\ Texts(Frames) /\ EndOf(N) = Len(Stream)
      /\ \A i \in 0 .. N : EndOf(i) \in Nat
      /\ \A i \in 1 .. N : /\ Frames[i] = Frame(side, sent[i]) /\ Len(Frames[i]) \in Nat
                           /\ EndOf(i) = EndOf(i - 1) + Len(Frames[i])
  BY <1>1, FramesAre
<1> HIDE DEF N, d
<1>3. a = EndOf(d) + Len(recv) /\ EndOf(d) \in Nat /\ Len(recv) \in Nat /\ a \in Nat
  <2> DEFINE x == EndOf(d)
             y == Len(recv)
             z == Len(wire)
             w == EndOf(N)
  <2>1. x \in Nat /\ y \in Nat /\ z \in Nat /\ (x + y) + z = w
    BY <1>1, <1>2, LenProperties
  <2> HIDE DEF x, y, z, w
  <2>2. w - z = x + y /\ x + y \in Nat
    BY <2>1
  <2> QED BY <2>1, <2>2 DEF x, y, z, w
<1> HIDE DEF a
<1>4. \A i \in 0 .. N : \A n \in i .. N : EndOf(i) <= EndOf(n)
  <2>1. \A i : EndOf(i) = Off(Frames, i)
    BY DEF EndOf, Off
  <2> QED BY <1>2, <2>1, OffGrows
<1>5. S = 1 .. d
  <2>1. ASSUME NEW n \in 1 .. d PROVE n \in 1 .. N /\ EndOf(n) <= a
    <3>1. n \in 1 .. N /\ n \in 0 .. N /\ d \in n .. N
      BY <1>1, <1>2
    <3>2. EndOf(n) <= EndOf(d) /\ EndOf(n) \in Nat
      BY <1>2, <1>4, <3>1
    <3> QED BY <1>3, <3>1, <3>2
  <2>2. ASSUME NEW n \in 1 .. N, EndOf(n) <= a PROVE n \in 1 .. d
    <3> SUFFICES ASSUME ~(n <= d) PROVE FALSE
      BY <1>1, <1>2
    <3>1. d < N /\ d + 1 \in 1 .. N /\ d + 1 \in 0 .. N /\ (d + 1) - 1 = d /\ n \in d + 1 .. N
          /\ n \in 0 .. N
      BY <1>1, <1>2
    <3> DEFINE l == Len(Frames[d + 1])
    <3>2. l \in Nat /\ EndOf(d + 1) = EndOf(d) + l /\ Len(recv) < l
      BY <1>1, <1>2, <3>1 DEF LengthOf
    <3>3. EndOf(d + 1) <= EndOf(n) /\ EndOf(n) \in Nat
      BY <1>2, <1>4, <3>1
    <3> HIDE DEF l
    <3> QED BY <1>3, <2>2, <3>2, <3>3
  <2> QED BY <2>1, <2>2
<1> HIDE DEF S
<1>6. Cardinality(1 .. d) = d
  <2>1. d \in Nat /\ (1 > d => d = 0) /\ 1 \in Int
    BY <1>1, <1>2
  <2>2. Cardinality(1 .. d) = IF 1 > d THEN 0 ELSE d - 1 + 1
    BY <2>1, FS_Interval
  <2> QED BY <2>1, <2>2
<1>7. Arrived = Cardinality(S)
  BY DEF Arrived, S, a, N
<1> QED BY <1>5, <1>6, <1>7 DEF d

(* In a state of the invariant every packet handed on is the one that was  *)
(* sent, and none that has arrived is held back.                           *)
LEMMA StreamInvKeepsPackets == StreamInv => FramesKeepPackets
<1> SUFFICES ASSUME StreamInv PROVE FramesKeepPackets
  OBVIOUS
<1> DEFINE N == Len(sent)
           d == Len(done)
           A(i) == Answer(side, sent[i], Frames[i])
           all == [i \in DOMAIN sent |-> A(i)]
<1>1. /\ Typed /\ d \in 0 .. N /\ done = [i \in 1 .. d |-> A(i)]
      /\ state = "open" \/ /\ state = "closed" /\ d < N
                           /\ LengthOf(sent[d + 1]) > iMaxLength
  BY StreamInvIs
<1>2. N \in Nat /\ DOMAIN sent = 1 .. N
  BY <1>1, LenProperties DEF Typed
<1> HIDE DEF N, d, A
<1>3. IsPrefix(done, all)
  <2>1. all = [i \in 1 .. N |-> A(i)] /\ Len(all) = N
    BY <1>2
  <2> HIDE DEF all
  <2>2. d <= N /\ Len(done) = d
    BY <1>1, <1>2 DEF d
  <2>3. SubSeq(done, 1, d) = SubSeq(all, 1, d)
    BY <1>1, <1>2, <2>1
  <2> QED BY <2>1, <2>2, <2>3 DEF IsPrefix
<1>4. state # "thrown"
  BY <1>1
<1>5. (state = "open" \/ \A i \in DOMAIN sent : LengthOf(sent[i]) <= iMaxLength)
        => Len(done) = Arrived
  <2>1. CASE state = "open"
    BY <2>1, ArrivedAre
  <2>2. CASE state # "open"
    <3>1. d + 1 \in DOMAIN sent /\ LengthOf(sent[d + 1]) > iMaxLength
      BY <1>1, <1>2, <2>2
    <3>2. LengthOf(sent[d + 1]) \in Nat /\ iMaxLength \in Nat
      <4>1. Len(Frames[d + 1]) \in Nat /\ Frames[d + 1] = Frame(side, sent[d + 1])
        BY <1>1, <1>2, <3>1, FramesAre DEF N
      <4> QED BY <1>1, <4>1 DEF LengthOf, Typed
    <3>3. ~(LengthOf(sent[d + 1]) <= iMaxLength)
      BY <3>1, <3>2
    <3> QED BY <2>2, <3>1, <3>3
  <2> QED BY <2>1, <2>2
<1> QED BY <1>3, <1>4, <1>5 DEF FramesKeepPackets, NoPacketHeldBack, all, A

(* Wherever a stream of packets is split, and whatever unreceived bytes of *)
(* the buffer hold, the server and both kinds of client hand on the        *)
(* packets that were sent, each once, intact, in order, and as soon as     *)
(* their last byte has arrived; only the server stops, at a packet that is *)
(* longer than iMaxLength, and no receiver throws.                         *)
THEOREM FramesAlwaysKeepPackets == ProtocolSpec => []FramesKeepPackets
<1>1. ProtocolInit => StreamInv
  BY StreamInvInit
<1>2. StreamInv /\ [ProtocolNext]_protocolVars => StreamInv'
  <2> SUFFICES ASSUME StreamInv, [ProtocolNext]_protocolVars PROVE StreamInv'
    OBVIOUS
  <2>1. ASSUME NEW p \in Packets(side), Send(p) PROVE StreamInv'
    BY <2>1, SendKeeps
  <2>2. ASSUME NEW k \in 1 .. Len(wire), Recv(k) PROVE StreamInv'
    BY <2>2, RecvKeeps
  <2>3. CASE UNCHANGED protocolVars
    BY <2>3 DEF protocolVars, StreamInv, Typed, Keeps, Stops, Stream, EndOf, Frames, Frame,
                PacketOf, LengthOf
  <2> QED BY <2>1, <2>2, <2>3 DEF ProtocolNext
<1>3. StreamInv => FramesKeepPackets
  BY StreamInvKeepsPackets
<1> QED BY <1>1, <1>2, <1>3, PTL DEF ProtocolSpec
=============================================================================
