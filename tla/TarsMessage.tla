---------------------------- MODULE TarsMessage ----------------------------
(***************************************************************************)
(* One struct from a writer to a reader that was generated from another    *)
(* version of the same .tars file.  The writer writes its members one by   *)
(* one, the message may be cut short on the way, the reader reads its own  *)
(* members one by one and may keep the rest with readUnknown, to send it   *)
(* on with writeUnknown.                                                   *)
(***************************************************************************)
EXTENDS TarsStream

CONSTANTS Versions,   \* pairs [w, r] of member lists: what the writer and the
                      \* reader were generated from
          Values(_),  \* the values of a type that the writer may send
          CutVersions,\* the versions whose messages may lose their end
          MaxCut      \* bound: the longest message that does

VARIABLES ver,        \* the pair of this run
          val,        \* the members written so far, by tag
          out,        \* TarsOutputStream's _buf up to _len
          buf,        \* TarsInputStream's _buf
          cur,        \* its _cur
          got,        \* the members read so far, by tag
          ex,         \* the exception the reader has thrown, "" if none
          unknown,    \* what readUnknown returned
          phase       \* "write", "read", "rest" (readUnknown done)

messageVars == <<ver, val, out, buf, cur, got, ex, unknown, phase>>

Size(f) == Cardinality(DOMAIN f)

MessageInit ==
  /\ ver \in Versions
  /\ val = << >> /\ out = << >>
  /\ buf = << >> /\ cur = 0 /\ got = << >> /\ ex = "" /\ unknown = << >>
  /\ phase = "write"

\* One _os.write of a generated writeTo.
PutMember ==
  /\ phase = "write" /\ Size(val) < Len(ver.w)
  /\ LET f == ver.w[Size(val) + 1]
     IN  \E x \in Values(f.type) \cup (IF f.req THEN {} ELSE {f.def}) :
           /\ val' = (f.tag :> x) @@ val
           /\ out' = out \o WriteTo(<<f>>, val')
  /\ UNCHANGED <<ver, buf, cur, got, ex, unknown, phase>>

\* setBuffer with the k bytes that arrived.
Receive(k) ==
  /\ phase = "write" /\ Size(val) = Len(ver.w)
  /\ buf' = SubSeq(out, 1, k) /\ cur' = 0 /\ phase' = "read"
  /\ UNCHANGED <<ver, val, out, got, ex, unknown>>

Arrive == Receive(Len(out))

Cut ==
  /\ ver \in CutVersions /\ Len(out) <= MaxCut
  /\ \E k \in 0 .. Len(out) - 1 : Receive(k)

\* One _is.read of a generated readFrom; an exception ends it.
GetMember ==
  /\ phase = "read" /\ ex = "" /\ Size(got) < Len(ver.r)
  /\ LET f == ver.r[Size(got) + 1]
         returned(e) == /\ ex' = e.ex /\ cur' = e.cur
                        /\ got' = IF e.ex = "" THEN (f.tag :> e.v) @@ got ELSE got
     IN  returned(Read(f.type, buf, cur, f.tag, f.req, f.def))
  /\ UNCHANGED <<ver, val, out, buf, unknown, phase>>

\* readUnknown after the last member the reader knows, on a whole message.
GetUnknown ==
  /\ phase = "read" /\ ex = "" /\ Size(got) = Len(ver.r) /\ buf = out
  /\ LET returned(u) == unknown' = u.v /\ cur' = u.cur /\ ex' = u.ex
     IN  returned(ReadUnknown(buf, cur, ver.r[Len(ver.r)].tag))
  /\ phase' = "rest"
  /\ UNCHANGED <<ver, val, out, buf, got>>

MessageNext == PutMember \/ Arrive \/ Cut \/ GetMember \/ GetUnknown

MessageSpec == MessageInit /\ [][MessageNext]_messageVars

-----------------------------------------------------------------------------
(* What the reader should see, without the codec.                          *)

Find(members, tag) == {g \in ToSet(members) : g.tag = tag}

\* The value of writer's type W, as a reader of type R should see it: members
\* it knows, defaults for those the writer does not have.
RECURSIVE Seen(_, _, _)
SeenStruct(rm, wm, v) ==
  [t \in {f.tag : f \in ToSet(rm)} |->
     LET f == CHOOSE f \in ToSet(rm) : f.tag = t
     IN  IF Find(wm, t) = {} THEN f.def
         ELSE Seen(f.type, (CHOOSE g \in Find(wm, t) : TRUE).type, v[t])]

Seen(R, W, v) ==
  CASE R.t = "struct" -> SeenStruct(R.members, W.members, v)
    [] R.t = "list"   -> [i \in DOMAIN v |-> Seen(R.e, W.e, v[i])]
    [] R.t = "map"    -> [i \in DOMAIN v |-> <<v[i][1], Seen(R.e, W.e, v[i][2])>>]
    [] OTHER          -> v

\* Every value of W can be read as R.
RECURSIVE Reads(_, _)
ReadsMembers(rm, wm) ==
  \A f \in ToSet(rm) :
    /\ f.req => \E g \in Find(wm, f.tag) : g.req
    /\ \A g \in Find(wm, f.tag) : Reads(f.type, g.type)

Reads(R, W) ==
  CASE R.t = "struct" -> W.t = "struct" /\ ReadsMembers(R.members, W.members)
    [] R.t = "list"   -> W.t = "list" /\ Reads(R.e, W.e)
    [] R.t = "map"    -> W.t = "map" /\ R.k = W.k /\ Reads(R.e, W.e)
    [] IsInteger(R)   -> IsInteger(W) /\ Carrier[W.t] <= Carrier[R.t]
    [] R.t = "double" -> W.t \in {"float", "double"}
    [] OTHER          -> R = W

Whole == phase # "write" /\ buf = out

\* Whatever the two versions are, a member read from a whole message has the
\* value that was written, or its default if the writer does not know it: no
\* read returns part of another field, a truncated integer, or a member of
\* the enclosing struct.  A reader of a compatible version (the members it
\* requires are written, its types are at least as wide) decodes every message.
DecodedIsWritten ==
  Whole => LET seen == SeenStruct(ver.r, ver.w, val)
           IN  /\ \A t \in DOMAIN got : got[t] = seen[t]
               /\ ReadsMembers(ver.r, ver.w) => ex = ""

\* A field passed over by skipField ends where the next one begins: readUnknown
\* leaves no byte of the message, and an older reader that writes its members
\* and then what readUnknown kept sends on the message it received.
RelayKeepsAll ==
  (phase = "rest" /\ ex = "")
     => /\ cur = Len(buf)
        /\ IsPrefix(ver.r, ver.w) => WriteTo(ver.r, got) \o unknown = out

\* A message that was cut short is never misread by a reader that knows every
\* member of it: a member it returns is the one written, or the default of an
\* optional one.
CutNeverMisread ==
  (phase = "read" /\ ver.r = ver.w)
     => \A f \in ToSet(ver.r) : f.tag \in DOMAIN got
          => \/ got[f.tag] = val[f.tag]
             \/ ~f.req /\ got[f.tag] = f.def
============================================================================
