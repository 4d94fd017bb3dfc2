-------------------------- MODULE LoopQueueProofs --------------------------
(***************************************************************************)
(* Proofs about LoopQueue for every ring size, every set of elements and   *)
(* every batch length.  RingOrder carries the argument: the four index     *)
(* values are met in a fixed order within one turn of the ring.            *)
(***************************************************************************)
EXTENDS LoopQueue, SequenceTheorems, TLAPS

USE SizeAssumption

(***************************************************************************)
(* Arithmetic of the ring.                                                 *)
(***************************************************************************)

(* Moving an index forward stays inside the ring.                          *)
LEMMA IncType == \A i \in Index : Inc(i) \in Index
  BY DEF Inc, Index, CapacitySub

(* size() of two indices is a number of elements the ring can hold, zero   *)
(* exactly when the indices are equal.                                     *)
LEMMA SizeBetweenType ==
  \A e, b \in Index : /\ SizeBetween(e, b) \in 0 .. Size
                      /\ SizeBetween(e, b) = 0 <=> e = b
  BY DEF SizeBetween, Index, Capacity, CapacitySub

(* Advancing the front index of a ring that is not full adds one element.  *)
LEMMA SizeBetweenIncBegin ==
  \A e, b \in Index : SizeBetween(e, b) < Size =>
                        SizeBetween(e, Inc(b)) = SizeBetween(e, b) + 1
  BY DEF SizeBetween, Inc, Index, Capacity, CapacitySub

(* Advancing the back index of a ring that is not empty removes one.       *)
LEMMA SizeBetweenIncEnd ==
  \A e, b \in Index : e # b => SizeBetween(Inc(e), b) = SizeBetween(e, b) - 1
  BY DEF SizeBetween, Inc, Index, Capacity, CapacitySub

(* Distances add up as long as they stay within one turn.                  *)
LEMMA SizeBetweenAdd ==
  \A e, m, b \in Index :
    SizeBetween(e, m) + SizeBetween(m, b) <= Size =>
      SizeBetween(e, b) = SizeBetween(e, m) + SizeBetween(m, b)
  BY DEF SizeBetween, Index, Capacity, CapacitySub

(* The test of push_back(t) at line 78 refuses exactly when the number of  *)
(* elements the pushing thread sees is already Size, whichever way the two *)
(* indices are wrapped.                                                    *)
THEOREM RefusedExactlyWhenFull ==
  \A e, b \in Index : OneSlotMissing(e, b) <=> SizeBetween(e, b) + 1 > Size
  BY DEF OneSlotMissing, SizeBetween, Index, Capacity, CapacitySub

(* The test of push_back(vt) at line 116 refuses exactly when the batch    *)
(* does not fit beside the elements the pushing thread sees.               *)
THEOREM BatchRefusedExactlyWhenNoRoom ==
  \A e, b \in Index, n \in Nat :
    SlotsMissing(e, b, n) <=> SizeBetween(e, b) + n > Size
  BY DEF SlotsMissing, SizeBetween, Index, Capacity, CapacitySub
-----------------------------------------------------------------------------
(***************************************************************************)
(* Invariance.                                                             *)
(***************************************************************************)

(* What a batch is.                                                        *)
LEMMA BatchType == \A vt \in Batch : vt \in Seq(Value)
  BY MaxBatchAssumption DEF Batch

(* Everything the two threads do with the ring keeps RingOrder, given the  *)
(* types.                                                                  *)
RingInv == TypeOK /\ RingOrder

(* The ring the constructor makes satisfies the invariant.                 *)
LEMMA RingInvInit == Init => RingInv
  <1> SUFFICES ASSUME Init PROVE RingInv
    OBVIOUS
  <1>1. TypeOK
    BY DEF Init, TypeOK, Index, CapacitySub
  <1>2. RingOrder
    BY DEF Init, RingOrder, SizeBetween
  <1> QED
    BY <1>1, <1>2 DEF RingInv

(* Every step of push_back and pop_front keeps it.                         *)
LEMMA RingInvStep == RingInv /\ [Next]_vars => RingInv'
  <1> SUFFICES ASSUME TypeOK, RingOrder, [Next]_vars
               PROVE  TypeOK' /\ RingOrder'
    BY DEF RingInv
  <1> DEFINE d1 == SizeBetween(iEndSeen, iEnd)
             d2 == SizeBetween(iEnd, iBeginSeen)
             d3 == SizeBetween(iBeginSeen, iBegin)
  <1>a. d1 \in Nat /\ d2 \in Nat /\ d3 \in Nat
    BY SizeBetweenType DEF TypeOK
  <1>b. SizeBetween(iEndSeen, iBegin) = d1 + d2 + d3
    <2>1. rest \in Seq(Value) /\ Len(rest) \in Nat
      BY DEF TypeOK
    <2>2. SizeBetween(iEndSeen, iBeginSeen) = d1 + d2
      BY <2>1, <1>a, SizeBetweenAdd DEF TypeOK, RingOrder
    <2> QED
      BY <2>1, <2>2, <1>a, SizeBetweenAdd DEF TypeOK, RingOrder
  <1>1. ASSUME NEW v \in Value, PushOne(v) PROVE TypeOK' /\ RingOrder'
    <2>0. UNCHANGED <<iBegin, iBeginSeen, iEnd, iEndSeen, slot, popPc, t, got>>
      BY <1>1 DEF PushOne, popVars
    <2>1. TypeOK'
      <3>1. bEmpty' \in BOOLEAN
        BY <1>1, Zenon DEF PushOne
      <3>2. rest' \in Seq(Value)
        <4>1. <<v>> \in Seq(Value)
          OBVIOUS
        <4> QED
          BY <1>1, <4>1 DEF PushOne, TypeOK
      <3>3. pushPc' \in {"idle", "copy"}
        BY <1>1 DEF PushOne
      <3> QED
        BY <2>0, <3>1, <3>2, <3>3 DEF TypeOK
    <2>2. CASE OneSlotMissing(iEndSeen, iBegin)
      BY <1>1, <2>0, <2>1, <2>2 DEF PushOne, RingOrder
    <2>3. CASE ~OneSlotMissing(iEndSeen, iBegin)
      <3>1. d1 + d2 + d3 + 1 <= Size
        BY <2>3, RefusedExactlyWhenFull, <1>a, <1>b DEF TypeOK
      <3>2. rest' = <<v>> /\ pushPc' = "copy"
        BY <1>1, <2>3 DEF PushOne
      <3>3. Len(rest') = 1 /\ rest' # << >>
        BY <3>2
      <3> QED
        BY <2>0, <2>1, <3>1, <3>2, <3>3 DEF RingOrder
    <2> QED
      BY <2>1, <2>2, <2>3
  <1>2. ASSUME NEW vt \in Batch, PushBatch(vt) PROVE TypeOK' /\ RingOrder'
    <2>0. UNCHANGED <<iBegin, iBeginSeen, iEnd, iEndSeen, slot, bEmpty, popPc, t, got>>
      BY <1>2 DEF PushBatch, popVars
    <2>v. vt \in Seq(Value) /\ Len(vt) \in Nat
      BY BatchType
    <2>1. TypeOK'
      <3>1. rest' \in Seq(Value) /\ pushPc' \in {"idle", "batchCopy"}
        BY <1>2, <2>v DEF PushBatch, TypeOK
      <3> QED
        BY <2>0, <3>1 DEF TypeOK
    <2>2. CASE SlotsMissing(iEndSeen, iBegin, Len(vt)) \/ vt = << >>
      BY <1>2, <2>0, <2>1, <2>2 DEF PushBatch, RingOrder
    <2>3. CASE ~(SlotsMissing(iEndSeen, iBegin, Len(vt)) \/ vt = << >>)
      <3>1. d1 + d2 + d3 + Len(vt) <= Size
        <4>1. ~SlotsMissing(iEndSeen, iBegin, Len(vt))
          BY <2>3
        <4>2. iEndSeen \in Index /\ iBegin \in Index
          BY DEF TypeOK
        <4>3. ~(SizeBetween(iEndSeen, iBegin) + Len(vt) > Size)
          BY <4>1, <4>2, <2>v, BatchRefusedExactlyWhenNoRoom
        <4> QED
          BY <4>3, <2>v, <1>a, <1>b
      <3>2. rest' = vt /\ pushPc' = "batchCopy" /\ vt # << >>
        BY <1>2, <2>3 DEF PushBatch
      <3> QED
        BY <2>0, <2>1, <3>1, <3>2 DEF RingOrder
    <2> QED
      BY <2>1, <2>2, <2>3
  <1>3. CASE PushCopy
    <2>1. rest # << >> /\ Head(rest) \in Value
      BY <1>3 DEF PushCopy, TypeOK, RingOrder
    <2>2. TypeOK'
      BY <1>3, <2>1 DEF PushCopy, TypeOK, popVars
    <2> QED
      BY <1>3, <2>2 DEF PushCopy, RingOrder, popVars
  <1>4. CASE PushTestEmpty
    <2>1. bEmpty' \in BOOLEAN
      BY <1>4, Zenon DEF PushTestEmpty
    <2>2. TypeOK'
      BY <1>4, <2>1 DEF PushTestEmpty, TypeOK, popVars
    <2> QED
      BY <1>4, <2>2 DEF PushTestEmpty, RingOrder, popVars
  <1>5. CASE PushPublish
    <2>0. rest \in Seq(Value) /\ Len(rest) = 1 /\ << >> \in Seq(Value) /\ Len(<< >>) = 0
      BY <1>5 DEF PushPublish, TypeOK, RingOrder
    <2>1. TypeOK'
      BY <1>5, <2>0, IncType DEF PushPublish, TypeOK, popVars
    <2>2. SizeBetween(iBeginSeen, Inc(iBegin)) = d3 + 1
      BY <2>0, <1>a, SizeBetweenIncBegin DEF TypeOK, RingOrder
    <2> QED
      BY <1>5, <2>0, <2>1, <2>2, <1>a DEF PushPublish, RingOrder, popVars
  <1>6. CASE PushTestSize
    <2>1. bEmpty' \in BOOLEAN
      BY <1>6, Zenon DEF PushTestSize
    <2>2. TypeOK'
      BY <1>6, <2>1 DEF PushTestSize, TypeOK, popVars
    <2> QED
      BY <1>6, <2>2 DEF PushTestSize, RingOrder, popVars
  <1>7. CASE BatchCopy
    <2>1. rest # << >> /\ Head(rest) \in Value
      BY <1>7 DEF BatchCopy, TypeOK, RingOrder
    <2>2. TypeOK'
      BY <1>7, <2>1 DEF BatchCopy, TypeOK, popVars
    <2> QED
      BY <1>7, <2>2 DEF BatchCopy, RingOrder, popVars
  <1>8. CASE BatchPublish
    <2>1. /\ rest # << >> /\ rest \in Seq(Value) /\ Len(rest) \in Nat
          /\ Tail(rest) \in Seq(Value) /\ Len(Tail(rest)) = Len(rest) - 1
      BY <1>8 DEF BatchPublish, TypeOK, RingOrder
    <2>2. TypeOK'
      BY <1>8, <2>1, IncType DEF BatchPublish, TypeOK, popVars
    <2>3. SizeBetween(iBeginSeen, Inc(iBegin)) = d3 + 1
      <3>1. Len(rest) # 0
        BY <2>1
      <3> QED
        BY <2>1, <3>1, <1>a, SizeBetweenIncBegin DEF TypeOK, RingOrder
    <2> QED
      BY <1>8, <2>1, <2>2, <2>3, <1>a DEF BatchPublish, RingOrder, popVars
  <1>9. CASE PopOne
    <2>1. TypeOK'
      BY <1>9 DEF PopOne, TypeOK, pushVars
    <2> QED
      BY <1>9, <2>1 DEF PopOne, RingOrder, pushVars
  <1>10. CASE PopCopy
    <2>1. TypeOK'
      BY <1>10 DEF PopCopy, TypeOK, pushVars
    <2> QED
      BY <1>10, <2>1 DEF PopCopy, RingOrder, pushVars
  <1>11. ASSUME PopPublish \/ PopDrop PROVE TypeOK' /\ RingOrder'
    <2>0. /\ iEnd # iBeginSeen /\ iEnd' = Inc(iEnd) /\ popPc' = "idle"
          /\ UNCHANGED <<slot, iBegin, pushPc, rest, bEmpty, iBeginSeen, iEndSeen, t>>
          /\ got' \in {t, got}
      BY <1>11 DEF PopPublish, PopDrop, RingOrder, pushVars
    <2>1. TypeOK'
      BY <2>0, IncType DEF TypeOK
    <2>2. SizeBetween(Inc(iEnd), iBeginSeen) = d2 - 1
      BY <2>0, SizeBetweenIncEnd DEF TypeOK
    <2>3. SizeBetween(iEndSeen, Inc(iEnd)) = d1 + 1
      <3>1. rest \in Seq(Value) /\ Len(rest) \in Nat /\ d2 # 0
        BY <2>0, SizeBetweenType DEF TypeOK
      <3> QED
        BY <3>1, <1>a, SizeBetweenIncBegin DEF TypeOK, RingOrder
    <2> QED
      BY <2>0, <2>1, <2>2, <2>3, <1>a DEF RingOrder
  <1>12. CASE GetFront
    <2>1. TypeOK'
      BY <1>12 DEF GetFront, TypeOK, pushVars
    <2> QED
      BY <1>12, <2>1 DEF GetFront, RingOrder, pushVars
  <1>13. CASE FlushBegin
    <2>1. TypeOK'
      BY <1>13, IncType DEF FlushBegin, TypeOK, pushVars, popVars
    <2>2. SizeBetween(Inc(iBeginSeen), iBegin) = d3 - 1
      BY <1>13, SizeBetweenIncEnd DEF FlushBegin, TypeOK
    <2>3. SizeBetween(iEnd, Inc(iBeginSeen)) = d2 + 1
      <3>1. rest \in Seq(Value) /\ Len(rest) \in Nat /\ d3 # 0
        BY <1>13, SizeBetweenType DEF FlushBegin, TypeOK
      <3> QED
        BY <3>1, <1>a, SizeBetweenIncBegin DEF TypeOK, RingOrder
    <2>4. iEnd # Inc(iBeginSeen)
      BY <2>3, <1>a, SizeBetweenType, IncType DEF TypeOK
    <2> QED
      BY <1>13, <2>1, <2>2, <2>3, <2>4, <1>a DEF FlushBegin, RingOrder, pushVars, popVars
  <1>14. CASE FlushEnd
    <2>1. TypeOK'
      BY <1>14, IncType DEF FlushEnd, TypeOK, pushVars, popVars
    <2>2. SizeBetween(Inc(iEndSeen), iEnd) = d1 - 1
      BY <1>14, SizeBetweenIncEnd DEF FlushEnd, TypeOK
    <2>3. d1 - 1 + d2 + d3 + Len(rest) <= Size
      <3>1. rest \in Seq(Value) /\ Len(rest) \in Nat
        BY DEF TypeOK
      <3> QED
        BY <3>1, <1>a DEF RingOrder
    <2> QED
      BY <1>14, <2>1, <2>2, <2>3, <1>a DEF FlushEnd, RingOrder, pushVars, popVars
  <1>15. CASE UNCHANGED vars
    <2>1. TypeOK'
      BY <1>15 DEF vars, TypeOK
    <2> QED
      BY <1>15, <2>1 DEF vars, RingOrder
  <1> QED
    BY <1>1, <1>2, <1>3, <1>4, <1>5, <1>6, <1>7, <1>8, <1>9, <1>10, <1>11,
       <1>12, <1>13, <1>14, <1>15 DEF Next, Push, Pop, Flush

(* For every size of ring, every set of elements and every interleaving of *)
(* the two threads, indices stay in range and in order and the space       *)
(* tested for stays reserved.                                              *)
THEOREM RingInvariant == Spec => [](TypeOK /\ RingOrder)
  <1>1. RingInv => TypeOK /\ RingOrder
    BY DEF RingInv
  <1> QED
    BY RingInvInit, RingInvStep, <1>1, PTL DEF Spec

(* While a pop is under way the front slot is not the next slot to fill.   *)
LEMMA FrontIsNotBack ==
  ASSUME RingInv, iEnd # iBeginSeen
  PROVE  iEnd # iBegin
  <1> DEFINE d1 == SizeBetween(iEndSeen, iEnd)
             d2 == SizeBetween(iEnd, iBeginSeen)
             d3 == SizeBetween(iBeginSeen, iBegin)
  <1>1. d1 \in Nat /\ d2 \in Nat /\ d3 \in Nat /\ d2 # 0
    BY SizeBetweenType DEF RingInv, TypeOK
  <1>2. d1 + d2 + d3 <= Size
    <2>1. rest \in Seq(Value) /\ Len(rest) \in Nat
      BY DEF RingInv, TypeOK
    <2> QED
      BY <1>1, <2>1 DEF RingInv, RingOrder
  <1>3. SizeBetween(iEnd, iBegin) = d2 + d3
    BY <1>1, <1>2, SizeBetweenAdd DEF RingInv, TypeOK
  <1>4. SizeBetween(iEnd, iBegin) # 0
    BY <1>1, <1>3
  <1> QED
    BY <1>4, SizeBetweenType DEF RingInv, TypeOK

(* The lock-free ring has no data race on a slot.                          *)
THEOREM NoSlotRace == Spec => []SlotRaceFree
  <1>1. RingInv => SlotRaceFree
    <2> SUFFICES ASSUME RingInv, popPc \in {"copy", "front"} PROVE iBegin # iEnd
      BY DEF SlotRaceFree
    <2>1. iEnd # iBeginSeen
      BY DEF RingInv, RingOrder
    <2> QED
      BY <2>1, FrontIsNotBack
  <1>2. TypeOK /\ RingOrder => RingInv
    BY DEF RingInv
  <1> QED
    BY RingInvariant, <1>1, <1>2, PTL

(* No step of one thread disturbs what the other has found out.            *)
LEMMA SlotStableStep == RingInv /\ SlotStable /\ [Next]_vars => SlotStable'
  <1> SUFFICES ASSUME RingInv, SlotStable, [Next]_vars
               PROVE  SlotStable'
    OBVIOUS
  <1> USE DEF SlotStable
  <1>t. TypeOK /\ RingOrder
    BY DEF RingInv
  <1>1. ASSUME NEW v \in Value, PushOne(v) PROVE SlotStable'
    BY <1>1, <1>t DEF PushOne, popVars, TypeOK
  <1>2. ASSUME NEW vt \in Batch, PushBatch(vt) PROVE SlotStable'
    BY <1>2 DEF PushBatch, popVars
  <1>3. ASSUME PushCopy \/ BatchCopy PROVE SlotStable'
    <2>0. /\ slot' = [slot EXCEPT ![iBegin] = Head(rest)]
          /\ UNCHANGED <<iBegin, rest, iEnd, popPc, t>>
      BY <1>3 DEF PushCopy, BatchCopy, popVars
    <2>1. slot'[iBegin] = Head(rest)
      BY <2>0, <1>t DEF TypeOK
    <2>2. popPc = "publish" => slot'[iEnd] = slot[iEnd]
      BY <2>0, <1>t, FrontIsNotBack DEF RingOrder, TypeOK
    <2> QED
      BY <2>0, <2>1, <2>2
  <1>4. ASSUME PushTestEmpty \/ PushPublish \/ PushTestSize \/ BatchPublish
        PROVE  SlotStable'
    BY <1>4 DEF PushTestEmpty, PushPublish, PushTestSize, BatchPublish, popVars
  <1>5. ASSUME PopOne \/ PopCopy \/ PopPublish \/ GetFront \/ PopDrop
        PROVE  SlotStable'
    BY <1>5 DEF PopOne, PopCopy, PopPublish, GetFront, PopDrop, pushVars
  <1>6. ASSUME Flush \/ UNCHANGED vars PROVE SlotStable'
    BY <1>6 DEF Flush, FlushBegin, FlushEnd, vars, pushVars, popVars
  <1> QED
    BY <1>1, <1>2, <1>3, <1>4, <1>5, <1>6 DEF Next, Push, Pop

(* Between its two steps, a push and a pop keep what they rely on.         *)
THEOREM SlotsStable == Spec => []SlotStable
  <1>1. Init => SlotStable
    BY DEF Init, SlotStable
  <1> QED
    BY <1>1, RingInvInit, RingInvStep, SlotStableStep, PTL DEF Spec
-----------------------------------------------------------------------------
(***************************************************************************)
(* Refinement of BoundedFifo.                                              *)
(***************************************************************************)

(* Where the places of the queue are in the ring.                          *)
LEMMA PlaceFacts ==
  \A e, b \in Index :
    /\ Place(e, 0) = e
    /\ Place(e, SizeBetween(e, b)) = b
    /\ \A n \in 0 .. SizeBetween(e, b) : Place(e, n) \in Index
    /\ \A n \in Nat : n < SizeBetween(e, b) => Place(e, n) # b
    /\ \A n \in 1 .. SizeBetween(e, b) : Place(Inc(e), n - 1) = Place(e, n)
  BY DEF Place, SizeBetween, Inc, Index, Capacity, CapacitySub

(* The queue is as long as size() says, and its head is the slot at _iEnd. *)
LEMMA QueueFacts ==
  ASSUME RingInv
  PROVE  /\ Queue \in Seq(Value \cup {None})
         /\ Len(Queue) = SizeBetween(iEnd, iBegin)
         /\ \A n \in 1 .. Len(Queue) : Queue[n] = slot[Place(iEnd, n - 1)]
  <1> DEFINE len == SizeBetween(iEnd, iBegin)
  <1>1. iEnd \in Index /\ iBegin \in Index /\ slot \in [Index -> Value \cup {None}]
    BY DEF RingInv, TypeOK
  <1>2. len \in Nat
    BY <1>1, SizeBetweenType
  <1>3. \A n \in 1 .. len : slot[Place(iEnd, n - 1)] \in Value \cup {None}
    <2> SUFFICES ASSUME NEW n \in 1 .. len
                 PROVE  slot[Place(iEnd, n - 1)] \in Value \cup {None}
      OBVIOUS
    <2>1. n - 1 \in 0 .. len
      BY <1>2
    <2>2. Place(iEnd, n - 1) \in Index
      BY <1>1, <2>1, PlaceFacts
    <2> QED
      BY <1>1, <2>2
  <1>4. Queue = [n \in 1 .. len |-> slot[Place(iEnd, n - 1)]]
    BY DEF Queue
  <1> HIDE DEF len
  <1>5. Queue \in [1 .. len -> Value \cup {None}]
    BY <1>3, <1>4
  <1>6. Queue \in Seq(Value \cup {None}) /\ Len(Queue) = len
    BY <1>2, <1>5
  <1> QED
    BY <1>4, <1>6 DEF len

(* Publishing the element just stored appends it to the queue.             *)
LEMMA PublishAppends ==
  ASSUME RingInv, RingInv', SlotStable, PushPublish \/ BatchPublish
  PROVE  Fifo!Enqueue
  <1> DEFINE len == SizeBetween(iEnd, iBegin)
             v == Head(rest)
  <1>1. /\ iBegin' = Inc(iBegin) /\ UNCHANGED <<slot, iEnd, got, iEndSeen, iBeginSeen>>
        /\ slot[iBegin] = v /\ rest # << >> /\ rest \in Seq(Value)
    BY DEF PushPublish, BatchPublish, popVars, SlotStable, RingInv, TypeOK, RingOrder
  <1>2. v \in Value /\ Len(rest) \in Nat /\ Len(rest) # 0
    BY <1>1
  <1>3. iEnd \in Index /\ iBegin \in Index /\ len \in Nat
    BY SizeBetweenType DEF RingInv, TypeOK
  <1>4. len < Size
    <2> DEFINE d1 == SizeBetween(iEndSeen, iEnd)
               d2 == SizeBetween(iEnd, iBeginSeen)
               d3 == SizeBetween(iBeginSeen, iBegin)
    <2>1. d1 \in Nat /\ d2 \in Nat /\ d3 \in Nat
      BY SizeBetweenType DEF RingInv, TypeOK
    <2>2. d2 + d3 < Size
      BY <2>1, <1>2 DEF RingInv, RingOrder
    <2>3. len = d2 + d3
      BY <2>1, <2>2, SizeBetweenAdd DEF RingInv, TypeOK
    <2> QED
      BY <2>2, <2>3
  <1>5. SizeBetween(iEnd, iBegin)' = len + 1
    BY <1>1, <1>3, <1>4, SizeBetweenIncBegin
  <1>6. /\ Queue \in Seq(Value \cup {None}) /\ Len(Queue) = len
        /\ \A n \in 1 .. len : Queue[n] = slot[Place(iEnd, n - 1)]
    BY QueueFacts
  <1>7. Queue' = [n \in 1 .. len + 1 |-> slot[Place(iEnd, n - 1)]]
    BY <1>1, <1>5 DEF Queue
  <1>8. slot[Place(iEnd, len)] = v
    BY <1>1, <1>3, PlaceFacts
  <1> HIDE DEF len, v
  <1>9. Queue' = Append(Queue, v)
    <2> DEFINE S == Value \cup {None}
               app == Append(Queue, v)
    <2>1. /\ app \in Seq(S) /\ Len(app) = len + 1 /\ app[len + 1] = v
          /\ \A n \in 1 .. len : app[n] = Queue[n]
      BY <1>2, <1>6, AppendProperties
    <2>2. \A n \in 1 .. len + 1 : slot[Place(iEnd, n - 1)] = app[n]
      <3> TAKE n \in 1 .. len + 1
      <3>1. CASE n = len + 1
        <4>1. n - 1 = len
          BY <3>1, <1>3
        <4> QED
          BY <3>1, <4>1, <1>8, <2>1
      <3>2. CASE n # len + 1
        <4>1. n \in 1 .. len
          BY <3>2, <1>3
        <4> QED
          BY <4>1, <1>6, <2>1
      <3> QED
        BY <3>1, <3>2
    <2> HIDE DEF app
    <2>3. app = [n \in 1 .. len + 1 |-> app[n]]
      BY <1>3, <2>1
    <2> QED
      BY <1>7, <2>2, <2>3 DEF app
  <1> QED
    BY <1>1, <1>2, <1>4, <1>6, <1>9 DEF Fifo!Enqueue

(* A pop under way finds a queue whose head is the slot at _iEnd.          *)
LEMMA QueueHead ==
  ASSUME RingInv, iEnd # iBeginSeen
  PROVE  Queue # << >> /\ Head(Queue) = slot[iEnd]
  <1> DEFINE len == SizeBetween(iEnd, iBegin)
  <1>1. iEnd \in Index /\ iBegin \in Index /\ len \in Nat /\ len # 0
    <2>1. iEnd # iBegin
      BY FrontIsNotBack
    <2> QED
      BY <2>1, SizeBetweenType DEF RingInv, TypeOK
  <1>2. /\ Queue \in Seq(Value \cup {None}) /\ Len(Queue) = len
        /\ \A n \in 1 .. len : Queue[n] = slot[Place(iEnd, n - 1)]
    BY QueueFacts
  <1>3. Place(iEnd, 0) = iEnd
    BY <1>1, PlaceFacts
  <1>4. Queue[1] = slot[Place(iEnd, 1 - 1)]
    BY <1>1, <1>2
  <1>5. Queue # << >> /\ Head(Queue) = Queue[1]
    BY <1>1, <1>2
  <1> QED
    BY <1>3, <1>4, <1>5

(* Moving _iEnd removes the head of the queue.                             *)
LEMMA PopRemovesHead ==
  ASSUME RingInv, RingInv', iEnd # iBeginSeen, iEnd' = Inc(iEnd),
         UNCHANGED <<slot, iBegin>>
  PROVE  Queue # << >> /\ Head(Queue) = slot[iEnd] /\ Queue' = Tail(Queue)
  <1> DEFINE len == SizeBetween(iEnd, iBegin)
  <1>1. iEnd \in Index /\ iBegin \in Index /\ len \in Nat /\ len # 0
    <2>1. iEnd # iBegin
      BY FrontIsNotBack
    <2> QED
      BY <2>1, SizeBetweenType DEF RingInv, TypeOK
  <1>2. /\ Queue \in Seq(Value \cup {None}) /\ Len(Queue) = len
        /\ \A n \in 1 .. len : Queue[n] = slot[Place(iEnd, n - 1)]
    BY QueueFacts
  <1>3. SizeBetween(iEnd, iBegin)' = len - 1
    BY <1>1, FrontIsNotBack, SizeBetweenIncEnd
  <1>4. Queue' = [n \in 1 .. len - 1 |-> slot[Place(Inc(iEnd), n - 1)]]
    BY <1>3 DEF Queue
  <1>5. \A n \in 1 .. len - 1 : Place(Inc(iEnd), n - 1) = Place(iEnd, n)
    <2> SUFFICES ASSUME NEW n \in 1 .. len - 1
                 PROVE  Place(Inc(iEnd), n - 1) = Place(iEnd, n)
      OBVIOUS
    <2>1. n \in 1 .. len
      BY <1>1
    <2> QED
      BY <1>1, <2>1, PlaceFacts
  <1> HIDE DEF len
  <1>7. Queue # << >> /\ Head(Queue) = slot[iEnd]
    BY QueueHead
  <1>8. Queue' = Tail(Queue)
    <2> DEFINE tail == Tail(Queue)
    <2>1. /\ tail \in Seq(Value \cup {None}) /\ Len(tail) = len - 1
          /\ \A n \in 1 .. len - 1 : tail[n] = Queue[n + 1]
      BY <1>1, <1>2, <1>7, HeadTailProperties
    <2>2. \A n \in 1 .. len - 1 : slot[Place(Inc(iEnd), n - 1)] = tail[n]
      <3> TAKE n \in 1 .. len - 1
      <3>1. n + 1 \in 1 .. len /\ (n + 1) - 1 = n
        BY <1>1
      <3>2. Queue[n + 1] = slot[Place(iEnd, n)]
        BY <3>1, <1>2
      <3> QED
        BY <3>2, <1>5, <2>1
    <2> HIDE DEF tail
    <2>3. tail = [n \in 1 .. len - 1 |-> tail[n]]
      BY <1>1, <2>1
    <2> QED
      BY <1>4, <2>2, <2>3 DEF tail
  <1> QED
    BY <1>7, <1>8

(* Storing an element into the free slot leaves the queue alone.           *)
LEMMA CopyKeepsQueue ==
  ASSUME RingInv, RingInv', PushCopy \/ BatchCopy
  PROVE  Queue' = Queue
  <1> DEFINE len == SizeBetween(iEnd, iBegin)
  <1>1. iEnd \in Index /\ iBegin \in Index /\ len \in Nat
        /\ slot \in [Index -> Value \cup {None}]
    BY SizeBetweenType DEF RingInv, TypeOK
  <1>2. slot' = [slot EXCEPT ![iBegin] = Head(rest)] /\ iEnd' = iEnd /\ iBegin' = iBegin
    BY DEF PushCopy, BatchCopy, popVars
  <1>3. \A n \in 1 .. len : slot'[Place(iEnd, n - 1)] = slot[Place(iEnd, n - 1)]
    <2> TAKE n \in 1 .. len
    <2>1. n - 1 \in 0 .. len /\ n - 1 \in Nat /\ n - 1 < len
      BY <1>1
    <2>2. Place(iEnd, n - 1) \in Index /\ Place(iEnd, n - 1) # iBegin
      BY <1>1, <2>1, PlaceFacts
    <2> QED
      BY <1>1, <1>2, <2>2
  <1> QED
    BY <1>2, <1>3 DEF Queue

(* Every step of the two threads is a step of the abstract queue or none.  *)
LEMMA FifoStep ==
  RingInv /\ RingInv' /\ SlotStable /\ [Next]_vars => [Fifo!Next]_(Fifo!vars)
  <1> SUFFICES ASSUME RingInv, RingInv', SlotStable, [Next]_vars
               PROVE  Fifo!Next \/ UNCHANGED <<Queue, got>>
    BY DEF Fifo!vars
  <1>0. UNCHANGED <<slot, iEnd, iBegin>> => Queue' = Queue
    BY DEF Queue
  <1>1. ASSUME NEW v \in Value, PushOne(v) PROVE UNCHANGED <<Queue, got>>
    BY <1>0, <1>1 DEF PushOne, popVars
  <1>2. ASSUME NEW vt \in Batch, PushBatch(vt) PROVE UNCHANGED <<Queue, got>>
    BY <1>0, <1>2 DEF PushBatch, popVars
  <1>3. ASSUME PushCopy \/ BatchCopy PROVE UNCHANGED <<Queue, got>>
    <2>1. got' = got
      BY <1>3 DEF PushCopy, BatchCopy, popVars
    <2> QED
      BY <1>3, <2>1, CopyKeepsQueue
  <1>4. ASSUME PushTestEmpty \/ PushTestSize PROVE UNCHANGED <<Queue, got>>
    BY <1>0, <1>4 DEF PushTestEmpty, PushTestSize, popVars
  <1>5. ASSUME PushPublish \/ BatchPublish PROVE Fifo!Enqueue
    BY <1>5, PublishAppends
  <1>6. ASSUME PopOne \/ PopCopy PROVE UNCHANGED <<Queue, got>>
    BY <1>0, <1>6 DEF PopOne, PopCopy, pushVars
  <1>7. CASE PopPublish
    <2>1. /\ iEnd # iBeginSeen /\ iEnd' = Inc(iEnd) /\ UNCHANGED <<slot, iBegin>>
          /\ got' = slot[iEnd]
      BY <1>7 DEF PopPublish, pushVars, RingInv, RingOrder, SlotStable
    <2>2. Queue # << >> /\ Head(Queue) = slot[iEnd] /\ Queue' = Tail(Queue)
      BY <2>1, PopRemovesHead
    <2>3. Fifo!Dequeue
      BY <2>1, <2>2 DEF Fifo!Dequeue
    <2> QED
      BY <2>3 DEF Fifo!Next
  <1>8. CASE PopDrop
    <2>1. /\ iEnd # iBeginSeen /\ iEnd' = Inc(iEnd) /\ UNCHANGED <<slot, iBegin>>
          /\ got' = got
      BY <1>8 DEF PopDrop, pushVars
    <2>2. Queue # << >> /\ Queue' = Tail(Queue)
      BY <2>1, PopRemovesHead
    <2>3. Fifo!Drop
      BY <2>1, <2>2 DEF Fifo!Drop
    <2> QED
      BY <2>3 DEF Fifo!Next
  <1>9. CASE GetFront
    <2>1. /\ iEnd # iBeginSeen /\ UNCHANGED <<slot, iBegin, iEnd>>
          /\ got' = slot[iEnd]
      BY <1>9 DEF GetFront, pushVars, RingInv, RingOrder
    <2>2. Queue' = Queue
      BY <2>1, <1>0
    <2>3. Queue # << >> /\ Head(Queue) = slot[iEnd]
      BY <2>1, QueueHead
    <2>4. Fifo!Front
      BY <2>1, <2>2, <2>3 DEF Fifo!Front
    <2> QED
      BY <2>4 DEF Fifo!Next
  <1>10. ASSUME Flush \/ UNCHANGED vars PROVE UNCHANGED <<Queue, got>>
    BY <1>0, <1>10 DEF Flush, FlushBegin, FlushEnd, vars, pushVars, popVars
  <1> QED
    BY <1>1, <1>2, <1>3, <1>4, <1>5, <1>6, <1>7, <1>8, <1>9, <1>10
    DEF Next, Push, Pop, Fifo!Next

(* The ring the constructor builds is empty, and nothing has been popped.  *)
LEMMA FifoInit == Init => Fifo!Init
  <1> SUFFICES ASSUME Init PROVE Queue = << >> /\ got = None
    BY DEF Fifo!Init
  <1>1. SizeBetween(iEnd, iBegin) = 0
    BY DEF Init, SizeBetween
  <1>2. Queue = [n \in 1 .. 0 |-> slot[Place(iEnd, n - 1)]]
    BY <1>1 DEF Queue
  <1>3. Queue = << >>
    BY <1>2
  <1> QED
    BY <1>3 DEF Init

(* The lock-free ring implements the bounded first-in first-out queue:     *)
(* what pop_front returns is what push_back was given, in order, once.     *)
THEOREM LoopQueueIsFifo == Spec => FifoQueue
  <1>1. Init => SlotStable
    BY DEF Init, SlotStable
  <1> QED
    BY <1>1, RingInvInit, RingInvStep, SlotStableStep, FifoInit, FifoStep, PTL
    DEF Spec, FifoQueue, Fifo!Spec
=============================================================================
