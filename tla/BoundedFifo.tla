---------------------------- MODULE BoundedFifo ----------------------------
(***************************************************************************)
(* What TC_LoopQueue promises its two users, one thread that pushes and    *)
(* one that pops: a first-in first-out queue that never holds more than    *)
(* Size elements, loses none and makes none up.  A push or a pop may be    *)
(* refused at any time; what a refusal requires is stated in LoopQueue.    *)
(***************************************************************************)
EXTENDS Naturals, Sequences

CONSTANTS Value,  \* the elements that are queued
          Size,   \* iSize of the constructor
          None    \* "no element handed out yet"

VARIABLES q,      \* the elements pushed and not yet popped, oldest first
          got     \* the element last handed to the popping thread

vars == <<q, got>>

Init == q = << >> /\ got = None

(* An element is pushed; a batch is pushed one element at a time.          *)
Enqueue ==
  /\ Len(q) < Size
  /\ \E v \in Value : q' = Append(q, v)
  /\ UNCHANGED got

(* pop_front(t)                                                            *)
Dequeue ==
  /\ q # << >>
  /\ got' = Head(q)
  /\ q' = Tail(q)

(* get_front(t)                                                            *)
Front ==
  /\ q # << >>
  /\ got' = Head(q)
  /\ UNCHANGED q

(* pop_front()                                                             *)
Drop ==
  /\ q # << >>
  /\ q' = Tail(q)
  /\ UNCHANGED got

Next == Enqueue \/ Dequeue \/ Front \/ Drop

Spec == Init /\ [][Next]_vars
=============================================================================
