----------------------------- MODULE TarsStream -----------------------------
(***************************************************************************)
(* The tag-length-value codec of tup/Tars.h: TarsOutputStream::write and   *)
(* TarsInputStream::read, as operators on sequences of bytes.              *)
(*                                                                         *)
(* The types of TarsScalars, "bytes" (vector<Char>), "list" with element   *)
(* type e, "map" with key and element types k and e, and "struct" with a   *)
(* sequence of members [tag, type, req, def], as the generated readFrom    *)
(* and writeTo list them.  A vector is a sequence, a map the sequence of   *)
(* its pairs in key order, a struct a function of tags.                    *)
(*                                                                         *)
(* The overloads for the containers call those of the types in them.  They *)
(* are given the texts of these when they write, and, when they read, for  *)
(* each a function read: read[c] is what the read at the cursor c returns. *)
(* Bound: a type nests three deep.  Loops are recursive functions of the   *)
(* number of rounds.                                                       *)
(***************************************************************************)
EXTENDS Integers, Sequences, SequencesExt, TarsScalars

-----------------------------------------------------------------------------
(* TarsOutputStream.                                                       *)

WriteBytes(v, tag) ==
  TarsWriteToHead(eSimpleList, tag) \o TarsWriteToHead(eChar, 0)
    \o WriteInt32(Len(v), 0) \o v

\* The first i of the sequences ss, one behind the other.
Joined(ss) ==
  LET upTo[i \in 0 .. Len(ss)] == IF i = 0 THEN << >> ELSE upTo[i - 1] \o ss[i]
  IN  upTo

Concat(ss) == Joined(ss)[Len(ss)]

WritePlain(T, v, tag) ==
  CASE IsInteger(T)   -> WriteInt64(v, tag)
    [] T.t = "float"  -> WriteReal(eFloat, v, tag)
    [] T.t = "double" -> WriteReal(eDouble, v, tag)
    [] T.t = "string" -> WriteString(v, tag)
    [] T.t = "bytes"  -> WriteBytes(v, tag)

WriteList(elements, tag) ==
  TarsWriteToHead(eList, tag) \o WriteInt32(Len(elements), 0) \o Concat(elements)

WriteMap(pairs, tag) ==
  TarsWriteToHead(eMap, tag) \o WriteInt32(Len(pairs), 0) \o Concat(pairs)

WriteStruct(fields, tag) ==
  TarsWriteToHead(eStructBegin, tag) \o Concat(fields) \o TarsWriteToHead(eStructEnd, 0)

\* A generated writeTo leaves out an optional member that has its default value.
LeftOut(f, v) == ~f.req /\ v[f.tag] = f.def

\* The fields of a struct; W writes a member.
Fields(W(_, _, _), members, v) ==
  [i \in 1 .. Len(members) |->
     LET f == members[i] IN IF LeftOut(f, v) THEN << >> ELSE W(f.type, v[f.tag], f.tag)]

\* W writes what is inside.
WriteNested(W(_, _, _), T, v, tag) ==
  CASE T.t = "list"   -> WriteList([i \in 1 .. Len(v) |-> W(T.e, v[i], 0)], tag)
    [] T.t = "map"    -> WriteMap([i \in 1 .. Len(v) |-> W(T.k, v[i][1], 0) \o W(T.e, v[i][2], 1)], tag)
    [] T.t = "struct" -> WriteStruct(Fields(W, T.members, v), tag)
    [] OTHER          -> WritePlain(T, v, tag)

Write1(T, v, tag) == WriteNested(WritePlain, T, v, tag)
Write2(T, v, tag) == WriteNested(Write1, T, v, tag)
Write(T, v, tag)  == WriteNested(Write2, T, v, tag)

WriteTo(members, v) == Concat(Fields(Write, members, v))

-----------------------------------------------------------------------------
(* TarsInputStream: finding a field.  Where fields are passed over, skip   *)
(* is skipField(type) at a cursor, for the fields inside the present one.  *)

\* skipField(): a head and its field.  The head's type is in v.
SkipHead(skip, buf, cur) ==
  Then(TarsPeekFromHead(buf, cur), LAMBDA h, c :
    Then(skip[c + h.n][h.type], LAMBDA v, end : Ok(h.type, end)))

\* Mutant: the last element of a map or a list is not skipped.
MutantSkipOneLess(skip, buf, cur, n) ==
  LET after[i \in 0 .. n] ==
        IF i = 0 THEN Ok(<< >>, cur)
        ELSE Then(after[i - 1], LAMBDA type, c : SkipHead(skip, buf, c))
  IN  IF n <= 1 THEN Ok(<< >>, cur) ELSE after[n - 1]

\* The loops of skipField over the elements of a map or a list.
SkipHeads(skip, buf, cur, n) ==
  LET after[i \in 0 .. n] ==
        IF i = 0 THEN Ok(<< >>, cur)
        ELSE Then(after[i - 1], LAMBDA type, c : SkipHead(skip, buf, c))
  IN  IF n <= 0 THEN Ok(<< >>, cur) ELSE after[n]

\* Every round takes a head from buf, so they end before left is 0.
SkipToStructEnd(skip, buf, cur) ==
  LET from[left \in 0 .. Len(buf) + 1] ==
        [c \in Nat |->
           IF left = 0 THEN Throw("Overflow", c)
           ELSE Then(SkipHead(skip, buf, c), LAMBDA type, d :
                  IF type = eStructEnd THEN Ok(type, d) ELSE from[left - 1][d])]
  IN  from[Len(buf) + 1][cur]

NotFound(cur) == [found |-> FALSE, type |-> 0, cur |-> cur]

\* Mutant: the search for a tag does not stop at the end of the struct.
MutantPastStructEnd(skip, buf, tag, next, cur) ==
  IF HasEnd(buf, cur) THEN NotFound(cur)
  ELSE TryCatch(TarsPeekFromHead(buf, cur),
         LAMBDA h, c :
           IF tag < h.tag THEN NotFound(c)
           ELSE IF tag = h.tag THEN [found |-> TRUE, type |-> h.type, cur |-> c + h.n]
           ELSE TryCatch(skip[c + h.n][h.type], LAMBDA v, end : next[end], NotFound),
         NotFound)

\* A round of TarsSkipToTag; next is what it does behind a field passed over, and
\* found the flag.  A decode exception ends it.
SearchTag(skip, buf, tag, next, cur) ==
  IF HasEnd(buf, cur) THEN NotFound(cur)
  ELSE TryCatch(TarsPeekFromHead(buf, cur),
         LAMBDA h, c :
           IF h.type = eStructEnd \/ tag < h.tag THEN NotFound(c)
           ELSE IF tag = h.tag THEN [found |-> TRUE, type |-> h.type, cur |-> c + h.n]
           ELSE TryCatch(skip[c + h.n][h.type], LAMBDA v, end : next[end], NotFound),
         NotFound)

SkipToTag(skip, buf, cur, tag) ==
  LET from[left \in 0 .. Len(buf) + 1] ==
        IF left = 0 THEN [c \in Nat |-> NotFound(c)]
        ELSE [c \in Nat |-> SearchTag(skip, buf, tag, from[left - 1], c)]
  IN  from[Len(buf) + 1][cur]

\* A required integer, where f is what the search for its tag found.
RequiredInteger(T, buf, f) ==
  IF f.found THEN ReadInteger(T, buf, f.cur, f.type) ELSE Throw("RequireNotExist", f.cur)

\* The size in front of elements that are passed over: read(size, 0).
SkippedSize(skip, buf, cur) ==
  RequiredInteger([t |-> "Int32"], buf, SkipToTag(skip, buf, cur, 0))

\* skipField(type): the head is already consumed.
SkipBody(skip, buf, cur, type) ==
  CASE type \in DOMAIN SizeOf -> Ok(<< >>, cur + SizeOf[type])
    [] type = eString1 -> Then(TarsReadBuf(buf, cur, 1),
                               LAMBDA b, c : Ok(<< >>, c + b[1]))
    [] type = eString4 -> Then(TarsReadBuf(buf, cur, 4),
                               LAMBDA b, c : Ok(<< >>, c + NetToHost(b)))
    [] type \in {eMap, eList} ->
         Then(SkippedSize(skip, buf, cur), LAMBDA n, c :
           SkipHeads(skip, buf, c, (IF type = eMap THEN 2 ELSE 1) * n[2]))
    [] type = eSimpleList ->
         Then(TarsPeekFromHead(buf, cur), LAMBDA h, c :
           IF h.type # eChar THEN Throw("Mismatch", c + h.n)
           ELSE Then(SkippedSize(skip, buf, c + h.n), LAMBDA n, d : Ok(<< >>, d + n[2])))
    [] type = eStructBegin              -> SkipToStructEnd(skip, buf, cur)
    [] type \in {eStructEnd, eZeroTag}  -> Ok(<< >>, cur)
    [] OTHER                            -> Throw("Mismatch", cur)

\* skipField for fields that nest at most n deep.  A field inside another takes
\* a byte more of buf, so Len(buf) is deep enough.
Skips(buf) ==
  LET skips[n \in 0 .. Len(buf)] ==
        [c \in Nat |-> [type \in 0 .. 15 |->
           IF n = 0 THEN Throw("Overflow", c) ELSE SkipBody(skips[n - 1], buf, c, type)]]
  IN  skips

SkipFields(buf) == Skips(buf)[Len(buf)]

SkipField(buf, cur, type) == SkipFields(buf)[cur][type]
TarsSkipToTag(buf, cur, tag) == SkipToTag(SkipFields(buf), buf, cur, tag)

-----------------------------------------------------------------------------
(* TarsInputStream: reading a field.  skip is SkipFields(buf).             *)

\* What follows the search for a tag: an optional field that is not there leaves
\* x as it was; an exception inside a field that is there is thrown in both cases.
ReadFound(f, body, isRequire, x) ==
  IF f.found THEN body
  ELSE IF isRequire THEN Throw("RequireNotExist", f.cur)
  ELSE Ok(x, f.cur)

\* read(x, tag, isRequire) where R reads what is behind the head,
ReadField(R(_, _, _, _, _), T, skip, buf, cur, tag, isRequire, x) ==
  LET f == SkipToTag(skip, buf, cur, tag)
  IN  ReadFound(f, R(T, skip, buf, f.cur, f.type), isRequire, x)

\* as a function of the cursor,
Reader(R(_, _, _, _, _), T, skip, buf, tag, isRequire, x) ==
  [c \in Nat |-> ReadField(R, T, skip, buf, c, tag, isRequire, x)]

\* and for the members of a struct.
Readers(R(_, _, _, _, _), members, skip, buf) ==
  [i \in 1 .. Len(members) |->
     LET f == members[i] IN Reader(R, f.type, skip, buf, f.tag, f.req, f.def)]

\* The size of a list, map or byte vector is checked against the whole buffer.
\* It is unsigned: a negative lower half is a size of 2^31 or more.
ReadCount(skip, buf, cur) ==
  Then(RequiredInteger([t |-> "UInt32"], buf, SkipToTag(skip, buf, cur, 0)), LAMBDA s, c :
    IF s[2] < 0 \/ s[2] > Len(buf) THEN Throw("InvalidValue", c) ELSE Ok(s[2], c))

\* Mutant: a list ends where its elements cannot be read any more.
MutantElementsThatFit(read, cur, n) ==
  LET after[i \in 0 .. n] ==
        IF i = 0 THEN Ok(<< >>, cur)
        ELSE Then(after[i - 1], LAMBDA v, c :
               TryCatch(read[c], LAMBDA e, end : Ok(Append(v, e), end), LAMBDA end : Ok(v, c)))
  IN  after[n]

ReadElements(read, cur, n) ==
  LET after[i \in 0 .. n] ==
        IF i = 0 THEN Ok(<< >>, cur)
        ELSE Then(after[i - 1], LAMBDA v, c :
               Then(read[c], LAMBDA e, end : Ok(Append(v, e), end)))
  IN  after[n]

ReadList(read, skip, buf, cur, type) ==
  IF type # eList THEN Throw("Mismatch", cur)
  ELSE Then(ReadCount(skip, buf, cur), LAMBDA n, c : ReadElements(read, c, n))

\* vector<Char> is read from a SimpleList or from a List of Char.
ReadBytes(skip, buf, cur, type) ==
  IF type # eSimpleList
  THEN ReadList([c \in Nat |-> RequiredInteger([t |-> "Char"], buf, SkipToTag(skip, buf, c, 0))],
                skip, buf, cur, type)
  ELSE Then(TarsPeekFromHead(buf, cur), LAMBDA h, c :
         IF h.type # eChar THEN Throw("Mismatch", c + h.n)
         ELSE Then(ReadCount(skip, buf, c + h.n), LAMBDA n, d : TarsReadBuf(buf, d, n)))

\* m.insert keeps the pair that is already there.
Insert(m, k, e) == IF \E i \in DOMAIN m : m[i][1] = k THEN m ELSE Append(m, <<k, e>>)

\* One more pair after r.  The pairs before an exception stay in the map.
ReadPair(readKey, readElement, r) ==
  LET pair(m, c) ==
        Then(readKey[c], LAMBDA k, d :
          Then(readElement[d], LAMBDA e, end : Ok(Insert(m, k, e), end)))
      kept(s, m) == IF s.ex = "" THEN s ELSE [s EXCEPT !.v = m]
  IN  Then(r, LAMBDA m, c : kept(pair(m, c), m))

ReadPairs(readKey, readElement, cur, n) ==
  LET after[i \in 0 .. n] ==
        IF i = 0 THEN Ok(<< >>, cur) ELSE ReadPair(readKey, readElement, after[i - 1])
  IN  after[n]

ReadMap(readKey, readElement, skip, buf, cur, type) ==
  IF type # eMap THEN Throw("Mismatch", cur)
  ELSE Then(ReadCount(skip, buf, cur), LAMBDA n, c : ReadPairs(readKey, readElement, c, n))

\* A read of a generated readFrom: v holds the members already read.
ReadMember(read, tag, r) ==
  Then(r, LAMBDA v, c :
    Then(read[c], LAMBDA x, end :
      Ok([t \in DOMAIN v \cup {tag} |-> IF t = tag THEN x ELSE v[t]], end)))

\* A generated readFrom: resetDefautlt, then the first i members in order.
ReadMembers(reads, members, cur) ==
  LET after[i \in 0 .. Len(members)] ==
        IF i = 0 THEN Ok(<< >>, cur) ELSE ReadMember(reads[i], members[i].tag, after[i - 1])
  IN  after

ReadStruct(reads, members, skip, buf, cur, type) ==
  IF type # eStructBegin THEN Throw("Mismatch", cur)
  ELSE Then(ReadMembers(reads, members, cur)[Len(members)], LAMBDA v, c :
         Then(SkipToStructEnd(skip, buf, c), LAMBDA t, end : Ok(v, end)))

ReadPlain(T, skip, buf, cur, type) ==
  CASE IsInteger(T)   -> ReadInteger(T, buf, cur, type)
    [] T.t \in {"float", "double"} -> ReadReal(T, buf, cur, type)
    [] T.t = "string" -> ReadString(buf, cur, type)
    [] T.t = "bytes"  -> ReadBytes(skip, buf, cur, type)

\* R reads what is inside.
Inside(R(_, _, _, _, _), T, skip, buf, tag) == Reader(R, T, skip, buf, tag, TRUE, << >>)

ReadNested(R(_, _, _, _, _), T, skip, buf, cur, type) ==
  CASE T.t = "list"   -> ReadList(Inside(R, T.e, skip, buf, 0), skip, buf, cur, type)
    [] T.t = "map"    -> ReadMap(Inside(R, T.k, skip, buf, 0), Inside(R, T.e, skip, buf, 1),
                                 skip, buf, cur, type)
    [] T.t = "struct" -> ReadStruct(Readers(R, T.members, skip, buf), T.members,
                                    skip, buf, cur, type)
    [] OTHER          -> ReadPlain(T, skip, buf, cur, type)

Read1(T, skip, buf, cur, type)    == ReadNested(ReadPlain, T, skip, buf, cur, type)
Read2(T, skip, buf, cur, type)    == ReadNested(Read1, T, skip, buf, cur, type)
ReadBody(T, skip, buf, cur, type) == ReadNested(Read2, T, skip, buf, cur, type)

\* read(x, tag, isRequire)
Read(T, buf, cur, tag, isRequire, x) ==
  ReadField(ReadBody, T, SkipFields(buf), buf, cur, tag, isRequire, x)

ReadFrom(members, buf, cur) ==
  ReadMembers(Readers(ReadBody, members, SkipFields(buf), buf), members, cur)[Len(members)]

\* readUnknown: the fields after tag, up to a head whose tag does not grow.
ReadUnknown(buf, cur, tag) ==
  LET from[left \in 0 .. Len(buf) + 1] ==
        [c \in Nat, last \in 0 .. 255 |->
           IF left = 0 \/ HasEnd(buf, c) THEN Ok(<< >>, c)
           ELSE Then(TarsPeekFromHead(buf, c), LAMBDA h, d :
                  IF h.tag <= last THEN Ok(<< >>, d)
                  ELSE Then(SkipField(buf, d + h.n, h.type), LAMBDA v, next :
                         Then(from[left - 1][next, h.tag], LAMBDA rest, end :
                           Ok(SubSeq(buf, c + 1, next) \o rest, end))))]
  IN  from[Len(buf) + 1][cur, tag]
=============================================================================
