---------------------------- MODULE BufferWriter ----------------------------
(***************************************************************************)
(* BufferWriter of Tars.h, the output buffer of every stream: a block that *)
(* the write macros grow through TarsReserveBuf, kept for the next message *)
(* by reset(), copied with the object that owns it.  TarsStream takes it   *)
(* to be a sequence of bytes; here is the block behind it.                 *)
(*                                                                         *)
(* BufferWriterBuff, which nothing instantiates, is left out.              *)
(***************************************************************************)
EXTENDS Naturals, Sequences

CONSTANTS
    Writer,       \* the BufferWriter objects
    Octet,        \* what is written; the bytes of one write are alike
    Uninit,       \* the content of memory from new char[]
    MinReserve,   \* the least block reserve() allocates (128 in the code)
    MaxWrite,     \* bound: bytes in one write
    MaxLen        \* bound: bytes in one buffer

ASSUME WriterAssumption ==
    /\ {MinReserve, MaxWrite, MaxLen} \subseteq Nat \ {0}
    /\ Uninit \notin Octet

VARIABLES
    block,        \* _buf of each writer, with _buf_len bytes; empty when NULL
    len,          \* _len
    written,      \* history: the bytes the writer should hold
    mixed         \* it was assigned to while it held bytes, see Assign

writerVars == <<block, len, written, mixed>>

(* The default constructor                                                 *)
WriterInit ==
    /\ block = [w \in Writer |-> << >>]
    /\ len = [w \in Writer |-> 0]
    /\ written = [w \in Writer |-> << >>]
    /\ mixed = [w \in Writer |-> FALSE]

(* getByteBuffer, swap(vector), and getBuffer with getLength               *)
Content(w) == SubSeq(block[w], 1, len[w])

(* A block of n bytes that begins with the first used bytes of b.          *)
Moved(b, used, n) == [i \in 1 .. n |-> IF i <= used THEN b[i] ELSE Uninit]

MutantReserveOneLess(b, used, n) == IF Len(b) < n - 1 THEN Moved(b, used, 2 * n) ELSE b

(* TarsReserveBuf, always with _reverse set                                *)
ReserveBuf(b, used, n) == IF Len(b) < n THEN Moved(b, used, 2 * n) ELSE b

(* The stores behind TarsReserveBuf: bytes at the position used.           *)
Stored(b, used, bytes) ==
    [i \in 1 .. Len(b) |->
        IF i > used /\ i <= used + Len(bytes) THEN bytes[i - used] ELSE b[i]]

(* writeBuf and the macros TarsWrite*TypeBuf                               *)
Appended(b, used, bytes) ==
    Stored(ReserveBuf(b, used, used + Len(bytes)), used, bytes)

WriteBuf(w, bytes) ==
    /\ len[w] + Len(bytes) <= MaxLen
    /\ block' = [block EXCEPT ![w] = Appended(@, len[w], bytes)]
    /\ len' = [len EXCEPT ![w] = @ + Len(bytes)]
    /\ written' = [written EXCEPT ![w] = @ \o bytes]
    /\ UNCHANGED mixed

Reserve(w, n) ==
    /\ block' = [block EXCEPT ![w] =
          IF Len(@) >= n THEN @
          ELSE Moved(@, len[w], IF 2 * n < MinReserve THEN MinReserve ELSE 2 * n)]
    /\ UNCHANGED <<len, written, mixed>>

Reset(w) ==
    /\ len' = [len EXCEPT ![w] = 0]
    /\ written' = [written EXCEPT ![w] = << >>]
    /\ mixed' = [mixed EXCEPT ![w] = FALSE]
    /\ UNCHANGED block

(* The copy constructor: w is a new object                                 *)
Copy(w, from) ==
    /\ w # from
    /\ block' = [block EXCEPT ![w] = Appended(<< >>, 0, Content(from))]
    /\ len' = [len EXCEPT ![w] = len[from]]
    /\ written' = [written EXCEPT ![w] = written[from]]
    /\ mixed' = [mixed EXCEPT ![w] = mixed[from]]

(* operator=: the bytes of from go behind those w has, and then _len is    *)
(* that of from.  A writer that held bytes has the old ones first; every   *)
(* user resets the writer before it writes or reads it again.              *)
Assign(w, from) ==
    /\ w # from /\ len[w] + len[from] <= MaxLen
    /\ block' = [block EXCEPT ![w] = Appended(@, len[w], Content(from))]
    /\ len' = [len EXCEPT ![w] = len[from]]
    /\ written' = [written EXCEPT ![w] = written[from]]
    /\ mixed' = [mixed EXCEPT ![w] = len[w] > 0 \/ mixed[from]]

(* swap(BufferWriter&)                                                     *)
SwapWriters(w, v) ==
    LET swapped(f) == [f EXCEPT ![w] = f[v], ![v] = f[w]]
    IN  /\ block' = swapped(block) /\ len' = swapped(len)
        /\ written' = swapped(written) /\ mixed' = swapped(mixed)

WriterNext ==
    \E w \in Writer :
        \/ \E n \in 1 .. MaxWrite, o \in Octet : WriteBuf(w, [i \in 1 .. n |-> o])
        \/ \E n \in 1 .. MaxLen : Reserve(w, n)
        \/ Reset(w)
        \/ \E v \in Writer : Copy(w, v) \/ Assign(w, v) \/ SwapWriters(w, v)

WriterSpec == WriterInit /\ [][WriterNext]_writerVars

-----------------------------------------------------------------------------
(* A stream holds the bytes written since it was last reset, across every  *)
(* growth, copy and swap and in blocks that held longer messages before;   *)
(* _len never passes the end of the block, also after an assignment, and   *)
(* no byte a reader is given is uninitialized.                             *)
WriterHolds ==
    \A w \in Writer :
        /\ len[w] <= Len(block[w])
        /\ \A i \in 1 .. len[w] : block[w][i] # Uninit
        /\ ~mixed[w] => Content(w) = written[w]
=============================================================================
