----------------------------- MODULE LoopQueue -----------------------------
(***************************************************************************)
(* TC_LoopQueue (util/include/tc_loop_queue.h): the ring that carries      *)
(* requests from a calling thread to a client net thread and messages from *)
(* a net thread to an AsyncProcThread.  It takes no lock: the pushing      *)
(* thread alone writes _iBegin, the popping thread alone writes _iEnd, and *)
(* each reads the other's index while it may be moving.                    *)
(*                                                                         *)
(* The indices are plain uint32_t, so each thread reads the other's index  *)
(* late: on the x86-64 the build targets, stores become visible in program *)
(* order but after a delay.  iBeginSeen and iEndSeen are the values in     *)
(* memory, iBegin and iEnd the values their owners last stored.  A slot is *)
(* stored before the index that publishes it and so is visible no later.   *)
(***************************************************************************)
EXTENDS Naturals, Sequences, TLC

CONSTANTS Value,     \* the elements (pointers in every use of the queue)
          Size,      \* iSize, the number of elements the ring can hold
          MaxBatch,  \* bound: the longest vector given to push_back(vt)
          None       \* contents of an uninitialised slot or variable

ASSUME SizeAssumption == Size \in Nat \ {0}
ASSUME NoneAssumption == None \notin Value
ASSUME MaxBatchAssumption == MaxBatch \in Nat

VARIABLES
  slot,        \* _p
  iBegin,      \* _iBegin as the pushing thread last stored it
  iBeginSeen,  \* _iBegin as the popping thread reads it
  iEnd,        \* _iEnd as the popping thread last stored it
  iEndSeen,    \* _iEnd as the pushing thread reads it
  pushPc,      \* where the pushing thread is
  rest,        \* elements the push in progress has still to store
  bEmpty,      \* the out parameter of push_back
  popPc,       \* where the popping thread is
  t,           \* the popping thread's copy of the front element
  got          \* the element last returned by pop_front(t) or get_front(t)

pushVars == <<slot, iBegin, pushPc, rest, bEmpty>>
popVars  == <<iEnd, popPc, t, got>>
vars     == <<slot, iBegin, iBeginSeen, iEnd, iEndSeen, pushPc, rest, bEmpty,
              popPc, t, got>>

Capacity    == Size + 1     \* _iCapacity
CapacitySub == Size         \* _iCapacitySub
Index       == 0 .. CapacitySub

Batch == UNION {[1 .. n -> Value] : n \in 0 .. MaxBatch}

(* The next index in the ring.                                             *)
Inc(i) == IF i = CapacitySub THEN 0 ELSE i + 1

(* size(): the number of elements between two indices.                     *)
SizeBetween(end, begin) ==
  IF begin < end THEN begin + Capacity - end ELSE begin - end

MutantFillsLastSlot(end, begin) ==
  \/ end > begin /\ end - begin < 1
  \/ begin > end /\ begin - end > Capacity - 2

(* The condition under which push_back(t) returns false.                   *)
OneSlotMissing(end, begin) ==
  \/ end > begin /\ end - begin < 2
  \/ begin > end /\ begin - end > Capacity - 2

MutantBatchOffByOne(end, begin, n) ==
  \/ n > Capacity - 1
  \/ end > begin /\ end - begin < n
  \/ begin > end /\ begin - end > Capacity - n - 1

(* The condition under which push_back(vt) returns false.                  *)
SlotsMissing(end, begin, n) ==
  \/ n > Capacity - 1
  \/ end > begin /\ end - begin < n + 1
  \/ begin > end /\ begin - end > Capacity - n - 1

Init ==
  /\ slot = [i \in Index |-> None]
  /\ iBegin = 0 /\ iBeginSeen = 0
  /\ iEnd = 0 /\ iEndSeen = 0
  /\ pushPc = "idle" /\ rest = << >> /\ bEmpty = FALSE
  /\ popPc = "idle" /\ t = None /\ got = None
-----------------------------------------------------------------------------
(***************************************************************************)
(* The pushing thread.                                                     *)
(***************************************************************************)

(* push_back(t, bEmpty) reads _iEnd once and gives up if no slot is free.  *)
PushOne(v) ==
  /\ pushPc = "idle"
  /\ bEmpty' = FALSE
  /\ IF OneSlotMissing(iEndSeen, iBegin)
     THEN UNCHANGED <<pushPc, rest>>
     ELSE pushPc' = "copy" /\ rest' = <<v>>
  /\ UNCHANGED <<slot, iBegin, iBeginSeen, iEndSeen, popVars>>

(* push_back(vt): room for the whole batch or nothing.                     *)
PushBatch(vt) ==
  /\ pushPc = "idle"
  /\ IF SlotsMissing(iEndSeen, iBegin, Len(vt)) \/ vt = << >>
     THEN UNCHANGED <<pushPc, rest>>
     ELSE pushPc' = "batchCopy" /\ rest' = vt
  /\ UNCHANGED <<slot, iBegin, iBeginSeen, iEndSeen, bEmpty, popVars>>

(* memcpy into the slot at _iBegin, then the first look at emptiness.      *)
PushCopy ==
  /\ pushPc = "copy"
  /\ slot' = [slot EXCEPT ![iBegin] = Head(rest)]
  /\ pushPc' = "empty"
  /\ UNCHANGED <<iBegin, iBeginSeen, iEndSeen, rest, bEmpty, popVars>>

PushTestEmpty ==
  /\ pushPc = "empty"
  /\ bEmpty' = (iEndSeen = iBegin)
  /\ pushPc' = "publish"
  /\ UNCHANGED <<slot, iBegin, iBeginSeen, iEndSeen, rest, popVars>>

PushPublish ==
  /\ pushPc = "publish"
  /\ iBegin' = Inc(iBegin)
  /\ rest' = << >>
  /\ pushPc' = "size"
  /\ UNCHANGED <<slot, iBeginSeen, iEndSeen, bEmpty, popVars>>

(* The second look: the popping thread may have drained the queue between  *)
(* the first look and the publication.                                     *)
PushTestSize ==
  /\ pushPc = "size"
  /\ bEmpty' = (bEmpty \/ SizeBetween(iEndSeen, iBegin) = 1)
  /\ pushPc' = "idle"
  /\ UNCHANGED <<slot, iBegin, iBeginSeen, iEndSeen, rest, popVars>>

(* The body of the loop over the batch: copy one element ...               *)
BatchCopy ==
  /\ pushPc = "batchCopy"
  /\ slot' = [slot EXCEPT ![iBegin] = Head(rest)]
  /\ pushPc' = "batchPublish"
  /\ UNCHANGED <<iBegin, iBeginSeen, iEndSeen, rest, bEmpty, popVars>>

(* ... and publish it.                                                     *)
BatchPublish ==
  /\ pushPc = "batchPublish"
  /\ iBegin' = Inc(iBegin)
  /\ rest' = Tail(rest)
  /\ pushPc' = IF Tail(rest) = << >> THEN "idle" ELSE "batchCopy"
  /\ UNCHANGED <<slot, iBeginSeen, iEndSeen, bEmpty, popVars>>
-----------------------------------------------------------------------------
(***************************************************************************)
(* The popping thread.                                                     *)
(***************************************************************************)

MutantPopWithoutTest ==
  /\ popPc = "idle"
  /\ popPc' \in {"copy", "front"}
  /\ UNCHANGED <<pushVars, iBeginSeen, iEnd, iEndSeen, t, got>>

(* pop_front(t) and get_front(t) return false on an empty queue.           *)
PopOne ==
  /\ popPc = "idle"
  /\ iEnd # iBeginSeen
  /\ popPc' \in {"copy", "front"}
  /\ UNCHANGED <<pushVars, iBeginSeen, iEnd, iEndSeen, t, got>>

PopCopy ==
  /\ popPc = "copy"
  /\ t' = slot[iEnd]
  /\ popPc' = "publish"
  /\ UNCHANGED <<pushVars, iBeginSeen, iEnd, iEndSeen, got>>

PopPublish ==
  /\ popPc = "publish"
  /\ iEnd' = Inc(iEnd)
  /\ got' = t
  /\ popPc' = "idle"
  /\ UNCHANGED <<pushVars, iBeginSeen, iEndSeen, t>>

(* get_front(t): the copy without moving _iEnd.                            *)
GetFront ==
  /\ popPc = "front"
  /\ got' = slot[iEnd]
  /\ popPc' = "idle"
  /\ UNCHANGED <<pushVars, iBeginSeen, iEnd, iEndSeen, t>>

(* pop_front(): move _iEnd without a copy.                                 *)
PopDrop ==
  /\ popPc = "idle"
  /\ iEnd # iBeginSeen
  /\ iEnd' = Inc(iEnd)
  /\ UNCHANGED <<pushVars, iBeginSeen, iEndSeen, popPc, t, got>>
-----------------------------------------------------------------------------
(***************************************************************************)
(* The store buffers of the two processors.                                *)
(***************************************************************************)
FlushBegin ==
  /\ iBeginSeen # iBegin
  /\ iBeginSeen' = Inc(iBeginSeen)
  /\ UNCHANGED <<pushVars, popVars, iEndSeen>>

FlushEnd ==
  /\ iEndSeen # iEnd
  /\ iEndSeen' = Inc(iEndSeen)
  /\ UNCHANGED <<pushVars, popVars, iBeginSeen>>

Push  == PushCopy \/ PushTestEmpty \/ PushPublish \/ PushTestSize
            \/ BatchCopy \/ BatchPublish
Pop   == PopCopy \/ PopPublish \/ GetFront
Flush == FlushBegin \/ FlushEnd

Next ==
  \/ \E v \in Value : PushOne(v)
  \/ \E vt \in Batch : PushBatch(vt)
  \/ Push
  \/ PopOne \/ PopDrop \/ Pop
  \/ Flush

Spec == Init /\ [][Next]_vars
-----------------------------------------------------------------------------
(***************************************************************************)
(* Properties.                                                             *)
(***************************************************************************)

(* The variables keep their types; both indices stay inside the ring.      *)
TypeOK ==
  /\ slot \in [Index -> Value \cup {None}]
  /\ iBegin \in Index /\ iBeginSeen \in Index
  /\ iEnd \in Index /\ iEndSeen \in Index
  /\ pushPc \in {"idle", "copy", "empty", "publish", "size",
                 "batchCopy", "batchPublish"}
  /\ rest \in Seq(Value)
  /\ bEmpty \in BOOLEAN
  /\ popPc \in {"idle", "copy", "front", "publish"}
  /\ t \in Value \cup {None}
  /\ got \in Value \cup {None}

(* Going round the ring from the oldest index a thread may still read, one *)
(* meets _iEnd in memory, _iEnd, _iBegin in memory and _iBegin, in this    *)
(* order and within one turn, and the slots that the push in progress has  *)
(* tested for are still free: a stale index only ever makes the queue look *)
(* fuller to the pushing thread and emptier to the popping one.            *)
RingOrder ==
  /\ SizeBetween(iEndSeen, iEnd) + SizeBetween(iEnd, iBeginSeen)
       + SizeBetween(iBeginSeen, iBegin) + Len(rest) <= Size
  /\ (pushPc \in {"idle", "size"}) <=> (rest = << >>)
  /\ pushPc \in {"copy", "empty", "publish"} => Len(rest) = 1
  /\ popPc # "idle" => iEnd # iBeginSeen

(* The pushing thread never stores into a slot that the popping thread is  *)
(* reading, although neither takes a lock: memcpy at line 85 or 126        *)
(* against memcpy at line 143 or 172.                                      *)
SlotRaceFree ==
  ~ /\ pushPc \in {"copy", "batchCopy"}
    /\ popPc \in {"copy", "front"}
    /\ iBegin = iEnd

(* Between its two steps a push or a pop relies on a slot it no longer     *)
(* looks at: the element stored is still in the slot when _iBegin          *)
(* publishes it, and the element copied is still in the slot when _iEnd    *)
(* gives the slot back.                                                    *)
SlotStable ==
  /\ pushPc \in {"empty", "publish", "batchPublish"} => slot[iBegin] = Head(rest)
  /\ popPc = "publish" => t = slot[iEnd]

(* The slot a number of places after index i.                              *)
Place(i, n) == IF i + n > CapacitySub THEN i + n - Capacity ELSE i + n

(* The elements in the ring, oldest first.                                 *)
Queue == [n \in 1 .. SizeBetween(iEnd, iBegin) |-> slot[Place(iEnd, n - 1)]]

Fifo == INSTANCE BoundedFifo WITH q <- Queue

(* Pushing and popping concurrently, one at a time or in batches, the ring *)
(* is a first-in first-out queue of at most Size elements: what pop_front  *)
(* and get_front return is what was pushed, in order, once.                *)
FifoQueue == Fifo!Spec
=============================================================================
