----------------------------- MODULE ByteBuffer -----------------------------
(***************************************************************************)
(* TC_Buffer, the send and the receive buffer of a Transceiver: one block  *)
(* of memory with a read and a write position, which grows when data is    *)
(* pushed, is compacted when there is room in front, and is given back by  *)
(* Shrink.  Sizes are size_t of Width bits.                                *)
(***************************************************************************)
EXTENDS Integers, Sequences, SequencesExt, FiniteSetsExt

CONSTANTS
    Byte,             \* what is stored
    Junk,             \* the content of fresh memory
    Width,            \* the bits of size_t
    kDefaultSize,     \* the least capacity that is allocated
    Percents,         \* the values given to SetHighWaterPercent
    MaxPiece          \* bound: bytes in one call

(* 2^k, by doubling, so that proofs can unfold it                          *)
TwoTo[k \in 0 .. Width - 1] == IF k = 0 THEN 1 ELSE 2 * TwoTo[k - 1]

Power2 == {TwoTo[k] : k \in 0 .. Width - 1}

(* numeric_limits<size_t>::max() / 2                                       *)
kMaxBufferSize == TwoTo[Width - 1] - 1

ASSUME BufferAssumption ==
    /\ Width \in Nat \ {0} /\ MaxPiece \in Nat \ {0}
    /\ kDefaultSize \in Power2
    /\ Percents \subseteq Nat
    /\ Junk \notin Byte

VARIABLES
    readPos,          \* _readPos
    writePos,         \* _writePos
    capacity,         \* _capacity
    buffer,           \* the block at _buffer, byte _buffer[i] at i + 1
    highWaterPercent, \* _highWaterPercent
    expected,         \* history: the bytes put in and not yet taken out
    assertFailed      \* an assert() has failed

bufferVars == <<readPos, writePos, capacity, buffer, highWaterPercent, expected, assertFailed>>

Pieces == UNION {[1 .. n -> Byte] : n \in 1 .. MaxPiece}

(* The constructor                                                         *)
BufferInit ==
    /\ readPos = 0 /\ writePos = 0 /\ capacity = 0
    /\ buffer = << >>
    /\ highWaterPercent = 50
    /\ expected = << >> /\ assertFailed = FALSE

ReadableSize == writePos - readPos
WritableSize == capacity - writePos
IsEmpty == ReadableSize = 0

(* PeekData, ReadAddr: what a reader is shown                              *)
PeekData == SubSeq(buffer, readPos + 1, writePos)

-----------------------------------------------------------------------------
RoundUp2Power(n) == IF n = 0 THEN 0 ELSE Min({p \in Power2 : p >= n})

(* One turn of the loop in AssureSpace, and where the loop ends: the       *)
(* capacities it goes through are kDefaultSize and then powers of two.     *)
NextCapacity(c) ==
    IF c < kDefaultSize THEN kDefaultSize
    ELSE IF c < RoundUp2Power(c) THEN RoundUp2Power(c) ELSE 2 * RoundUp2Power(c)

Grown(c, wanted) ==
    IF c >= wanted THEN c
    ELSE Min({p \in Power2 : p >= NextCapacity(c) /\ p >= wanted})

(* A block of n bytes that begins with the data.                           *)
Compacted(n) ==
    [i \in 1 .. n |-> IF i <= ReadableSize THEN buffer[readPos + i]
                      ELSE IF n = Len(buffer) THEN buffer[i] ELSE Junk]

(* The block, the two positions and the capacity after AssureSpace(n).     *)
Assured(n) ==
    LET cap == Grown(capacity, ReadableSize + n)
    IN  IF WritableSize >= n
          THEN [mem |-> buffer, rd |-> readPos, wr |-> writePos, cap |-> capacity, ok |-> TRUE]
          ELSE [mem |-> IF cap > capacity THEN Compacted(cap) ELSE Compacted(Len(buffer)),
                rd  |-> 0, wr |-> ReadableSize, cap |-> cap,
                ok  |-> /\ cap > capacity \/ readPos > 0
                        /\ n <= cap - ReadableSize]

(* memcpy of data to position pos of a block                               *)
Written(mem, pos, data) ==
    [i \in DOMAIN mem |-> IF i \in pos + 1 .. pos + Len(data) THEN data[i - pos] ELSE mem[i]]

(* PushData; 0 is returned, and nothing done, when the buffer would        *)
(* overflow.                                                               *)
PushData(data) ==
    /\ ReadableSize + Len(data) < kMaxBufferSize
    /\ LET a == Assured(Len(data))
       IN  /\ buffer' = Written(a.mem, a.wr, data)
           /\ readPos' = a.rd /\ writePos' = a.wr + Len(data) /\ capacity' = a.cap
           /\ assertFailed' = (assertFailed \/ ~a.ok)
    /\ expected' = expected \o data
    /\ UNCHANGED highWaterPercent

(* AssureSpace, as called before a read; the caller does not ask for more  *)
(* than PushData would accept.                                             *)
AssureSpace(n) ==
    /\ ReadableSize + n < kMaxBufferSize
    /\ LET a == Assured(n)
       IN  /\ buffer' = a.mem
           /\ readPos' = a.rd /\ writePos' = a.wr /\ capacity' = a.cap
           /\ assertFailed' = (assertFailed \/ ~a.ok)
    /\ UNCHANGED <<highWaterPercent, expected>>

(* readv has stored data at WriteAddr(), within WritableSize(); Produce.   *)
Produce(data) ==
    /\ Len(data) <= WritableSize
    /\ buffer' = Written(buffer, writePos, data)
    /\ writePos' = writePos + Len(data)
    /\ expected' = expected \o data
    /\ UNCHANGED <<readPos, capacity, highWaterPercent, assertFailed>>

(* Consume, which clears a buffer that has become empty.                   *)
Consume(n) ==
    /\ IF readPos + n = writePos
         THEN readPos' = 0 /\ writePos' = 0
         ELSE readPos' = readPos + n /\ UNCHANGED writePos
    /\ UNCHANGED <<capacity, buffer, highWaterPercent, assertFailed>>

(* Consume of what was sent, at most what PeekData showed.                 *)
ConsumeSome(n) ==
    /\ n <= ReadableSize
    /\ Consume(n)
    /\ expected' = SubSeq(expected, n + 1, Len(expected))

(* PopData, which truncates size to what there is.                         *)
PopData(n) ==
    /\ ~IsEmpty
    /\ Consume(Min({n, ReadableSize}))
    /\ expected' = SubSeq(expected, Min({n, ReadableSize}) + 1, Len(expected))

Clear ==
    /\ readPos' = 0 /\ writePos' = 0
    /\ expected' = << >>
    /\ UNCHANGED <<capacity, buffer, highWaterPercent, assertFailed>>

(* Shrink: an empty buffer gives up its block, another one that is less    *)
(* full than the high water mark gets the smallest block.  The products of *)
(* the test stay far below 2^64, since sizes are bounded by kMaxBufferSize.*)
ShrinkEmpty ==
    /\ IsEmpty
    /\ readPos' = 0 /\ writePos' = 0 /\ capacity' = 0
    /\ buffer' = << >>
    /\ UNCHANGED <<highWaterPercent, expected, assertFailed>>

MutantShrinkKeepsPosition ==
    /\ ~IsEmpty /\ capacity > kDefaultSize
    /\ ReadableSize * 100 <= capacity * highWaterPercent
    /\ capacity' = RoundUp2Power(ReadableSize)
    /\ buffer' = Compacted(capacity')
    /\ readPos' = 0
    /\ UNCHANGED <<writePos, highWaterPercent, expected, assertFailed>>

ShrinkData ==
    /\ ~IsEmpty /\ capacity > kDefaultSize
    /\ ReadableSize * 100 <= capacity * highWaterPercent
    /\ capacity' = RoundUp2Power(ReadableSize)
    /\ buffer' = Compacted(capacity')
    /\ readPos' = 0 /\ writePos' = ReadableSize
    /\ UNCHANGED <<highWaterPercent, expected, assertFailed>>

SetHighWaterPercent(p) ==
    /\ p >= 10 /\ p < 100
    /\ highWaterPercent' = p
    /\ UNCHANGED <<readPos, writePos, capacity, buffer, expected, assertFailed>>

BufferNext ==
    \/ \E data \in Pieces : PushData(data) \/ Produce(data)
    \/ \E n \in 1 .. MaxPiece : AssureSpace(n) \/ ConsumeSome(n) \/ PopData(n)
    \/ Clear \/ ShrinkEmpty \/ ShrinkData
    \/ \E p \in Percents : SetHighWaterPercent(p)

BufferSpec == BufferInit /\ [][BufferNext]_bufferVars

-----------------------------------------------------------------------------
(* The positions stay in order and inside the block, whose size _capacity  *)
(* is although AssureSpace and Shrink change it apart from the block, and  *)
(* no assert() of the class fails up to the largest size.                  *)
BufferInBounds ==
    /\ 0 <= readPos /\ readPos <= writePos /\ writePos <= capacity
    /\ Len(buffer) = capacity
    /\ ~assertFailed

(* Growing, compacting and shrinking, in any order with reads and writes,  *)
(* lose, repeat or reorder no byte: a reader is shown what was put in and  *)
(* has not been consumed.  The positions never leave the block.            *)
BytesKept == BufferInBounds /\ PeekData = expected
=============================================================================
