--------------------------- MODULE SequenceFacts ---------------------------
(***************************************************************************)
(* What appending to a queue, taking its head, erasing from its middle and *)
(* reversing a batch do to the set of its elements, and that a queue       *)
(* without repetitions stays one.  The proofs about queues and lists rest  *)
(* on these facts.                                                         *)
(***************************************************************************)
EXTENDS Integers, SequencesExt, SequenceTheorems, FiniteSetTheorems, TLAPS

(* Induction on the natural numbers, over a set: were m missing, the       *)
(* successor would map the part of S up to m one to one into itself        *)
(* without 0.                                                              *)
LEMMA SetInduction ==
  ASSUME NEW S, 0 \in S, \A n \in Nat : n \in S => n + 1 \in S
  PROVE  Nat \subseteq S
<1> SUFFICES ASSUME NEW m \in Nat, m \notin S PROVE FALSE
  OBVIOUS
<1> DEFINE A == S \cap (0 .. m)
           B == {k + 1 : k \in A}
           f == [k \in A |-> k + 1]
<1>1. IsFiniteSet(A) /\ 0 \in A
  <2>1. IsFiniteSet(0 .. m)
    BY FS_Interval
  <2> QED BY <2>1, FS_Subset
<1>2. B \subseteq A \ {0}
  OBVIOUS
<1>3. f \in Bijection(A, B)
  <2>1. f \in [A -> B]
    OBVIOUS
  <2>2. \A a, b \in A : f[a] = f[b] => a = b
    OBVIOUS
  <2>3. \A b \in B : \E a \in A : f[a] = b
    OBVIOUS
  <2> QED BY <2>1, <2>2, <2>3 DEF Bijection, Injection, Surjection, IsInjective
<1> HIDE DEF f, B, A
<1>4. IsFiniteSet(B) /\ Cardinality(B) = Cardinality(A)
  BY <1>1, <1>3, FS_Bijection DEF ExistsBijection
<1>5. IsFiniteSet(A \ {0}) /\ Cardinality(A \ {0}) = Cardinality(A) - 1
  BY <1>1, FS_RemoveElement
<1>6. Cardinality(B) <= Cardinality(A \ {0})
  BY <1>2, <1>5, FS_Subset
<1>7. Cardinality(A) \in Nat
  BY <1>1, FS_CardinalityType
<1> QED BY <1>4, <1>5, <1>6, <1>7

(* The elements of a sequence.                                             *)
LEMMA ToSetType ==
  ASSUME NEW S, NEW s \in Seq(S)
  PROVE  /\ ToSet(s) \subseteq S
         /\ ToSet(s) = {} <=> s = << >>
         /\ \A x : x \in ToSet(s) <=> \E i \in 1 .. Len(s) : s[i] = x
<1>1. /\ Len(s) \in Nat /\ DOMAIN s = 1 .. Len(s) /\ s \in [1 .. Len(s) -> S]
      /\ s # << >> => Len(s) \in Nat \ {0}
      /\ s = << >> => Len(s) = 0
  BY LenProperties, EmptySeq
<1>2. \A x : x \in ToSet(s) <=> \E i \in 1 .. Len(s) : s[i] = x
  BY <1>1 DEF ToSet
<1>3. ToSet(s) \subseteq S
  BY <1>1, <1>2
<1>4. s # << >> => s[1] \in ToSet(s)
  BY <1>1, <1>2
<1>5. s = << >> => ToSet(s) = {}
  BY <1>1, <1>2
<1> QED BY <1>2, <1>3, <1>4, <1>5

(* push_back adds one element, which must be new to keep them distinct.    *)
LEMMA AppendFacts ==
  ASSUME NEW S, NEW s \in Seq(S), NEW x \in S
  PROVE  /\ Append(s, x) \in Seq(S) /\ Append(s, x) # << >>
         /\ Len(Append(s, x)) = Len(s) + 1
         /\ ToSet(Append(s, x)) = ToSet(s) \cup {x}
         /\ IsInjective(s) /\ x \notin ToSet(s) => IsInjective(Append(s, x))
<1>1. /\ Append(s, x) \in Seq(S) /\ Append(s, x) # << >>
      /\ Len(Append(s, x)) = Len(s) + 1
      /\ \A i \in 1 .. Len(s) : Append(s, x)[i] = s[i]
      /\ Append(s, x)[Len(s) + 1] = x
  BY AppendProperties
<1>2. Len(s) \in Nat /\ DOMAIN s = 1 .. Len(s) /\ DOMAIN Append(s, x) = 1 .. Len(s) + 1
  BY <1>1, LenProperties
<1>3. ToSet(Append(s, x)) = ToSet(s) \cup {x}
  BY <1>1, <1>2 DEF ToSet
<1>4. IsInjective(s) /\ x \notin ToSet(s) => IsInjective(Append(s, x))
  BY <1>1, <1>2 DEF ToSet, IsInjective
<1> QED BY <1>1, <1>3, <1>4

(* pop_front removes the head, and no other element equal to it is left if *)
(* the elements are distinct.                                              *)
LEMMA TailFacts ==
  ASSUME NEW S, NEW s \in Seq(S), s # << >>
  PROVE  /\ Head(s) \in ToSet(s) /\ Head(s) \in S
         /\ Tail(s) \in Seq(S) /\ Len(Tail(s)) = Len(s) - 1
         /\ ToSet(Tail(s)) \subseteq ToSet(s)
         /\ ToSet(s) = ToSet(Tail(s)) \cup {Head(s)}
         /\ IsInjective(s) => IsInjective(Tail(s)) /\ Head(s) \notin ToSet(Tail(s))
<1>1. /\ Head(s) \in S /\ Tail(s) \in Seq(S) /\ Len(Tail(s)) = Len(s) - 1
      /\ \A i \in 1 .. Len(Tail(s)) : Tail(s)[i] = s[i + 1]
  BY HeadTailProperties
<1>2. /\ Len(s) \in Nat \ {0} /\ DOMAIN s = 1 .. Len(s)
      /\ DOMAIN Tail(s) = 1 .. Len(s) - 1 /\ Head(s) = s[1]
  BY <1>1, LenProperties, EmptySeq
<1>3. ToSet(s) = ToSet(Tail(s)) \cup {Head(s)}
  <2>1. ASSUME NEW y \in ToSet(s) PROVE y \in ToSet(Tail(s)) \cup {Head(s)}
    <3>1. PICK i \in 1 .. Len(s) : y = s[i]
      BY <1>2 DEF ToSet
    <3>2. CASE i = 1
      BY <3>1, <3>2, <1>2
    <3>3. CASE i # 1
      <4>1. i - 1 \in DOMAIN Tail(s) /\ Tail(s)[i - 1] = y
        BY <3>1, <3>3, <1>1, <1>2
      <4> QED BY <4>1 DEF ToSet
    <3> QED BY <3>2, <3>3
  <2>2. ASSUME NEW y \in ToSet(Tail(s)) PROVE y \in ToSet(s)
    BY <1>1, <1>2 DEF ToSet
  <2>3. Head(s) \in ToSet(s)
    BY <1>2 DEF ToSet
  <2> QED BY <2>1, <2>2, <2>3
<1>4. IsInjective(s) => IsInjective(Tail(s)) /\ Head(s) \notin ToSet(Tail(s))
  BY <1>1, <1>2 DEF ToSet, IsInjective
<1> QED BY <1>1, <1>2, <1>3, <1>4

(* erase(it) moves the elements behind the iterator up by one.             *)
LEMMA RemoveAtPositions ==
  ASSUME NEW S, NEW s \in Seq(S), NEW k \in 1 .. Len(s)
  PROVE  /\ RemoveAt(s, k) \in Seq(S)
         /\ Len(RemoveAt(s, k)) = Len(s) - 1
         /\ \A i \in 1 .. Len(s) - 1 :
              RemoveAt(s, k)[i] = IF i < k THEN s[i] ELSE s[i + 1]
<1> DEFINE a == SubSeq(s, 1, k - 1)
           b == SubSeq(s, k + 1, Len(s))
           r == a \o b
<1>0. Len(s) \in Nat /\ DOMAIN s = 1 .. Len(s) /\ \A i \in 1 .. Len(s) : s[i] \in S
  BY LenProperties, ElementOfSeq
<1>1. /\ a \in Seq(S) /\ Len(a) = k - 1
      /\ \A i \in 1 .. k - 1 : a[i] = s[i]
  <2>1. \A i \in 1 .. k - 1 : s[i] \in S
    BY <1>0
  <2> QED BY <2>1, <1>0, SubSeqProperties
<1>2. /\ b \in Seq(S) /\ Len(b) = Len(s) - k
      /\ \A i \in 1 .. Len(s) - k : b[i] = s[k + i]
  <2>1. \A i \in k + 1 .. Len(s) : s[i] \in S
    BY <1>0
  <2>2. /\ b \in Seq(S) /\ Len(b) = IF k + 1 <= Len(s) THEN Len(s) - (k + 1) + 1 ELSE 0
        /\ \A i \in 1 .. Len(s) - (k + 1) + 1 : b[i] = s[k + 1 + i - 1]
    BY <2>1, <1>0, SubSeqProperties
  <2> HIDE DEF b
  <2>3. Len(b) = Len(s) - k /\ Len(s) - (k + 1) + 1 = Len(s) - k
    <3>1. k \in Int /\ Len(s) \in Int /\ 0 <= k /\ k <= Len(s)
      BY <1>0
    <3>2. Len(s) - (k + 1) + 1 = Len(s) - k
      BY <3>1
    <3>3. CASE k + 1 <= Len(s)
      BY <2>2, <3>2, <3>3
    <3>4. CASE ~(k + 1 <= Len(s))
      BY <2>2, <3>1, <3>4
    <3> QED BY <3>2, <3>3, <3>4
  <2>4. ASSUME NEW i \in 1 .. Len(s) - k PROVE b[i] = s[k + i]
    <3>1. k + 1 + i - 1 = k + i
      OBVIOUS
    <3> QED BY <3>1, <2>2, <2>3
  <2> QED BY <2>2, <2>3, <2>4
<1> HIDE DEF a, b
<1>3. /\ r \in Seq(S) /\ Len(r) = Len(s) - 1
      /\ \A i \in 1 .. Len(s) - 1 : r[i] = IF i < k THEN s[i] ELSE s[i + 1]
  <2>1. /\ r \in Seq(S) /\ Len(r) = Len(a) + Len(b)
        /\ \A i \in 1 .. Len(a) + Len(b) :
             r[i] = IF i <= Len(a) THEN a[i] ELSE b[i - Len(a)]
    BY <1>1, <1>2, ConcatProperties
  <2> HIDE DEF r
  <2>2. ASSUME NEW i \in 1 .. Len(s) - 1
        PROVE  r[i] = IF i < k THEN s[i] ELSE s[i + 1]
    <3>1. CASE i < k
      BY <3>1, <2>1, <1>0, <1>1, <1>2
    <3>2. CASE i >= k
      <4>1. i - Len(a) \in 1 .. Len(s) - k /\ k + (i - Len(a)) = i + 1
        BY <3>2, <1>0, <1>1
      <4>2. r[i] = b[i - Len(a)]
        <5>1. i \in 1 .. Len(a) + Len(b) /\ ~(i <= Len(a))
          BY <3>2, <1>0, <1>1, <1>2
        <5> QED BY <5>1, <2>1
      <4>3. b[i - Len(a)] = s[k + (i - Len(a))]
        BY <4>1, <1>2
      <4> QED BY <4>1, <4>2, <4>3, <3>2
    <3> QED BY <3>1, <3>2, <1>0
  <2> QED BY <2>1, <2>2, <1>0, <1>1, <1>2
<1> QED BY <1>3 DEF RemoveAt, r, a, b

(* erase(it) removes the element the iterator points at.                   *)
LEMMA RemoveAtFacts ==
  ASSUME NEW S, NEW s \in Seq(S), NEW k \in 1 .. Len(s), IsInjective(s)
  PROVE  /\ RemoveAt(s, k) \in Seq(S)
         /\ ToSet(RemoveAt(s, k)) = ToSet(s) \ {s[k]}
         /\ IsInjective(RemoveAt(s, k))
<1> DEFINE r == RemoveAt(s, k)
<1>0. Len(s) \in Nat /\ DOMAIN s = 1 .. Len(s)
  BY LenProperties
<1>3. /\ r \in Seq(S) /\ Len(r) = Len(s) - 1
      /\ \A i \in 1 .. Len(s) - 1 : r[i] = IF i < k THEN s[i] ELSE s[i + 1]
  BY RemoveAtPositions
<1> HIDE DEF r
<1>4. DOMAIN r = 1 .. Len(s) - 1
  BY <1>3, LenProperties
<1>5. ToSet(r) = ToSet(s) \ {s[k]}
  <2>1. ASSUME NEW y \in ToSet(r) PROVE y \in ToSet(s) /\ y # s[k]
    <3>1. PICK i \in 1 .. Len(s) - 1 : y = r[i]
      BY <1>4 DEF ToSet
    <3>2. CASE i < k
      <4>1. y = s[i] /\ i \in 1 .. Len(s) /\ i # k
        BY <3>1, <3>2, <1>0, <1>3
      <4> QED BY <4>1, <1>0 DEF ToSet, IsInjective
    <3>3. CASE i >= k
      <4>1. y = s[i + 1] /\ i + 1 \in 1 .. Len(s) /\ i + 1 # k
        BY <3>1, <3>3, <1>0, <1>3
      <4> QED BY <4>1, <1>0 DEF ToSet, IsInjective
    <3> QED BY <3>2, <3>3, <1>0
  <2>2. ASSUME NEW y \in ToSet(s), y # s[k] PROVE y \in ToSet(r)
    <3>1. PICK i \in 1 .. Len(s) : y = s[i]
      BY <1>0 DEF ToSet
    <3>2. CASE i < k
      BY <3>1, <3>2, <1>0, <1>3, <1>4 DEF ToSet
    <3>3. CASE i > k
      <4>1. i - 1 \in DOMAIN r /\ r[i - 1] = y
        BY <3>1, <3>3, <1>0, <1>3, <1>4
      <4> QED BY <4>1 DEF ToSet
    <3> QED BY <2>2, <3>1, <3>2, <3>3
  <2> QED BY <2>1, <2>2
<1>6. IsInjective(r)
  <2> SUFFICES ASSUME NEW i \in 1 .. Len(s) - 1, NEW j \in 1 .. Len(s) - 1, r[i] = r[j]
               PROVE  i = j
    BY <1>4 DEF IsInjective
  <2> DEFINE from(m) == IF m < k THEN m ELSE m + 1
  <2>1. \A m \in 1 .. Len(s) - 1 : from(m) \in DOMAIN s /\ r[m] = s[from(m)]
    BY <1>0, <1>3
  <2>2. from(i) = from(j)
    BY <2>1 DEF IsInjective
  <2> QED BY <1>0, <2>2
<1> QED BY <1>3, <1>5, <1>6 DEF r

(* remove(x) on a list without repetitions erases at the place of x, if    *)
(* it has one.                                                             *)
LEMMA RemoveFirstPlace ==
  ASSUME NEW S, NEW s \in Seq(S), IsInjective(s), NEW x
  PROVE  /\ \A k \in 1 .. Len(s) : s[k] = x => RemoveFirst(s, x) = RemoveAt(s, k)
         /\ x \notin ToSet(s) => RemoveFirst(s, x) = s
<1>1. ASSUME NEW k \in 1 .. Len(s), s[k] = x PROVE RemoveFirst(s, x) = RemoveAt(s, k)
  <2> DEFINE I == {i \in 1 .. Len(s) : s[i] = x}
  <2>2. I = {k}
    <3>1. DOMAIN s = 1 .. Len(s)
      BY LenProperties
    <3> QED BY <1>1, <3>1 DEF IsInjective
  <2>3. Len(s) \in Nat /\ k \in Nat
    BY LenProperties
  <2>4. SelectInSeq(s, LAMBDA v : v = x) = IF I # {} THEN Min(I) ELSE 0
    BY DEF SelectInSeq
  <2>5. Min(I) = k
    BY <2>2, <2>3 DEF Min
  <2> QED BY <1>1, <2>2, <2>4, <2>5 DEF RemoveFirst
<1>2. ASSUME x \notin ToSet(s) PROVE RemoveFirst(s, x) = s
  <2>1. ~ \E i \in 1 .. Len(s) : s[i] = x
    BY <1>2, ToSetType
  <2> QED BY <2>1 DEF RemoveFirst
<1> QED BY <1>1, <1>2

(* A list without repetitions is left without the erased element; an       *)
(* element that is not in the list erases nothing.                         *)
LEMMA RemoveFirstFacts ==
  ASSUME NEW S, NEW s \in Seq(S), IsInjective(s), NEW x
  PROVE  /\ RemoveFirst(s, x) \in Seq(S)
         /\ ToSet(RemoveFirst(s, x)) = ToSet(s) \ {x}
         /\ IsInjective(RemoveFirst(s, x))
<1>1. CASE x \in ToSet(s)
  <2>1. PICK k \in 1 .. Len(s) : s[k] = x
    BY <1>1, ToSetType
  <2> QED BY <2>1, RemoveFirstPlace, RemoveAtFacts
<1>2. CASE x \notin ToSet(s)
  BY <1>2, RemoveFirstPlace
<1> QED BY <1>1, <1>2

(* A sequence without repetitions has as many elements as places.          *)
LEMMA InjectiveCardinality ==
  ASSUME NEW S, NEW s \in Seq(S), IsInjective(s)
  PROVE  IsFiniteSet(ToSet(s)) /\ Cardinality(ToSet(s)) = Len(s)
<1>1. Len(s) \in Nat /\ DOMAIN s = 1 .. Len(s) /\ s \in [1 .. Len(s) -> ToSet(s)]
  BY LenProperties DEF ToSet
<1>2. IsFiniteSet(1 .. Len(s)) /\ Cardinality(1 .. Len(s)) = Len(s)
  BY <1>1, FS_Interval
<1>3. s \in Bijection(1 .. Len(s), ToSet(s))
  BY <1>1 DEF Bijection, Injection, Surjection, ToSet, IsInjective
<1> QED BY <1>2, <1>3, FS_Bijection DEF ExistsBijection

(* A function on 1 .. n is a sequence of length n.                         *)
LEMMA BlockIs ==
  ASSUME NEW B, NEW n \in Nat, NEW f \in [1 .. n -> B]
  PROVE  f \in Seq(B) /\ Len(f) = n
OBVIOUS

(* Appending a whole batch: its elements are added, and the elements of    *)
(* the result are distinct just when those of the parts are and the parts  *)
(* have none in common.                                                    *)
LEMMA ConcatFacts ==
  ASSUME NEW S, NEW s \in Seq(S), NEW r \in Seq(S)
  PROVE  /\ s \o r \in Seq(S) /\ Len(s \o r) = Len(s) + Len(r)
         /\ ToSet(s \o r) = ToSet(s) \cup ToSet(r)
         /\ IsInjective(s \o r) <=>
              IsInjective(s) /\ IsInjective(r) /\ ToSet(s) \cap ToSet(r) = {}
<1>1. /\ s \o r \in Seq(S) /\ Len(s \o r) = Len(s) + Len(r)
      /\ Len(s) \in Nat /\ Len(r) \in Nat
      /\ DOMAIN s = 1 .. Len(s) /\ DOMAIN r = 1 .. Len(r)
      /\ DOMAIN (s \o r) = 1 .. Len(s) + Len(r)
  BY LenProperties, ConcatProperties
<1>2. /\ \A i \in 1 .. Len(s) : i \in DOMAIN (s \o r) /\ (s \o r)[i] = s[i]
      /\ \A i \in 1 .. Len(r) : Len(s) + i \in DOMAIN (s \o r) /\ (s \o r)[Len(s) + i] = r[i]
  BY <1>1, ConcatProperties
<1>3. \A i \in DOMAIN (s \o r) : i \in DOMAIN s \/ (i - Len(s) \in DOMAIN r /\ i = Len(s) + (i - Len(s)))
  BY <1>1
<1>4. ToSet(s \o r) = ToSet(s) \cup ToSet(r)
  <2>1. ASSUME NEW x \in ToSet(s \o r) PROVE x \in ToSet(s) \cup ToSet(r)
    <3>1. PICK i \in DOMAIN (s \o r) : x = (s \o r)[i]
      BY DEF ToSet
    <3>2. CASE i \in DOMAIN s
      BY <1>1, <1>2, <3>1, <3>2 DEF ToSet
    <3>3. CASE i - Len(s) \in DOMAIN r /\ i = Len(s) + (i - Len(s))
      <4>1. x = r[i - Len(s)]
        BY <1>1, <1>2, <3>1, <3>3
      <4> QED BY <3>3, <4>1 DEF ToSet
    <3> QED BY <1>3, <3>2, <3>3
  <2>2. ToSet(s) \subseteq ToSet(s \o r)
    BY <1>1, <1>2 DEF ToSet
  <2>3. ToSet(r) \subseteq ToSet(s \o r)
    BY <1>1, <1>2 DEF ToSet
  <2> QED BY <2>1, <2>2, <2>3
<1>5. ASSUME IsInjective(s \o r)
      PROVE  IsInjective(s) /\ IsInjective(r) /\ ToSet(s) \cap ToSet(r) = {}
  <2>1. IsInjective(s)
    BY <1>1, <1>2, <1>5 DEF IsInjective
  <2>2. IsInjective(r)
    <3> SUFFICES ASSUME NEW i \in DOMAIN r, NEW j \in DOMAIN r, r[i] = r[j] PROVE i = j
      BY DEF IsInjective
    <3>1. Len(s) + i = Len(s) + j
      BY <1>1, <1>2, <1>5 DEF IsInjective
    <3> QED BY <1>1, <3>1
  <2>3. ASSUME NEW i \in DOMAIN s, NEW j \in DOMAIN r PROVE s[i] # r[j]
    <3>1. i # Len(s) + j
      BY <1>1
    <3> QED BY <1>1, <1>2, <1>5, <3>1 DEF IsInjective
  <2> QED BY <2>1, <2>2, <2>3 DEF ToSet
<1>6. ASSUME IsInjective(s), IsInjective(r), ToSet(s) \cap ToSet(r) = {}
      PROVE  IsInjective(s \o r)
  <2> SUFFICES ASSUME NEW i \in DOMAIN (s \o r), NEW j \in DOMAIN (s \o r), (s \o r)[i] = (s \o r)[j]
               PROVE  i = j
    BY DEF IsInjective
  <2>1. ASSUME NEW a \in DOMAIN s, NEW b \in DOMAIN r PROVE s[a] # r[b]
    BY <1>6 DEF ToSet
  <2>2. CASE i \in DOMAIN s /\ j \in DOMAIN s
    BY <1>1, <1>2, <1>6, <2>2 DEF IsInjective
  <2>3. CASE i - Len(s) \in DOMAIN r /\ j - Len(s) \in DOMAIN r
    <3>1. r[i - Len(s)] = r[j - Len(s)]
      BY <1>1, <1>2, <2>3
    <3>2. i - Len(s) = j - Len(s)
      BY <1>6, <2>3, <3>1 DEF IsInjective
    <3> QED BY <1>1, <3>2
  <2>4. CASE i \in DOMAIN s /\ j - Len(s) \in DOMAIN r
    <3>1. s[i] = r[j - Len(s)]
      BY <1>1, <1>2, <2>4
    <3> QED BY <2>1, <2>4, <3>1
  <2>5. CASE j \in DOMAIN s /\ i - Len(s) \in DOMAIN r
    <3>1. s[j] = r[i - Len(s)]
      BY <1>1, <1>2, <2>5
    <3> QED BY <2>1, <2>5, <3>1
  <2> QED BY <1>3, <2>2, <2>3, <2>4, <2>5
<1> QED BY <1>1, <1>4, <1>5, <1>6

(* A batch that is pushed to the front one by one comes out in reverse:    *)
(* the same elements, each as often.                                       *)
LEMMA ReverseFacts ==
  ASSUME NEW S, NEW s \in Seq(S)
  PROVE  /\ Reverse(s) \in Seq(S) /\ Len(Reverse(s)) = Len(s)
         /\ ToSet(Reverse(s)) = ToSet(s)
         /\ IsInjective(s) => IsInjective(Reverse(s))
<1>1. Len(s) \in Nat /\ DOMAIN s = 1 .. Len(s) /\ \A i \in 1 .. Len(s) : s[i] \in S
  BY LenProperties
<1>2. \A i \in 1 .. Len(s) : (Len(s) - i) + 1 \in 1 .. Len(s)
  BY <1>1
<1>3. /\ Reverse(s) \in [1 .. Len(s) -> S]
      /\ \A i \in 1 .. Len(s) : Reverse(s)[i] = s[(Len(s) - i) + 1]
  BY <1>1, <1>2 DEF Reverse
<1>4. Reverse(s) \in Seq(S) /\ Len(Reverse(s)) = Len(s) /\ DOMAIN Reverse(s) = 1 .. Len(s)
  BY <1>1, <1>3
<1>5. ToSet(Reverse(s)) \subseteq ToSet(s)
  BY <1>1, <1>2, <1>3, <1>4 DEF ToSet
<1>6. ASSUME NEW i \in 1 .. Len(s) PROVE s[i] \in ToSet(Reverse(s))
  <2>1. (Len(s) - i) + 1 \in 1 .. Len(s) /\ (Len(s) - ((Len(s) - i) + 1)) + 1 = i
    BY <1>1
  <2>2. Reverse(s)[(Len(s) - i) + 1] = s[i]
    BY <1>3, <2>1
  <2> QED BY <1>4, <2>1, <2>2 DEF ToSet
<1>7. ASSUME IsInjective(s) PROVE IsInjective(Reverse(s))
  <2> SUFFICES ASSUME NEW i \in 1 .. Len(s), NEW j \in 1 .. Len(s), Reverse(s)[i] = Reverse(s)[j]
               PROVE  i = j
    BY <1>4 DEF IsInjective
  <2>1. (Len(s) - i) + 1 = (Len(s) - j) + 1
    BY <1>1, <1>2, <1>3, <1>7 DEF IsInjective
  <2> QED BY <1>1, <2>1
<1>8. ToSet(s) \subseteq ToSet(Reverse(s))
  BY <1>1, <1>6 DEF ToSet
<1> QED BY <1>4, <1>5, <1>7, <1>8

(* The elements before and behind a position of a sequence.                *)
LEMMA SplitFacts ==
  ASSUME NEW S, NEW s \in Seq(S), NEW k \in 0 .. Len(s)
  PROVE  /\ SubSeq(s, 1, k) \in Seq(S) /\ SubSeq(s, k + 1, Len(s)) \in Seq(S)
         /\ ToSet(SubSeq(s, 1, k)) \cup ToSet(SubSeq(s, k + 1, Len(s))) = ToSet(s)
         /\ IsInjective(s) =>
              /\ IsInjective(SubSeq(s, 1, k)) /\ IsInjective(SubSeq(s, k + 1, Len(s)))
              /\ ToSet(SubSeq(s, 1, k)) \cap ToSet(SubSeq(s, k + 1, Len(s))) = {}
<1> DEFINE a == SubSeq(s, 1, k)
           b == SubSeq(s, k + 1, Len(s))
<1>0. Len(s) \in Nat /\ DOMAIN s = 1 .. Len(s) /\ \A i \in 1 .. Len(s) : s[i] \in S
  BY LenProperties, ElementOfSeq
<1>1. a \in Seq(S) /\ Len(a) = k /\ \A i \in 1 .. k : a[i] = s[i]
  <2>1. \A i \in 1 .. k : s[i] \in S
    BY <1>0
  <2>2. /\ a \in Seq(S) /\ Len(a) = IF 1 <= k THEN k - 1 + 1 ELSE 0
        /\ \A i \in 1 .. k - 1 + 1 : a[i] = s[1 + i - 1]
    BY <2>1, <1>0, SubSeqProperties
  <2> HIDE DEF a
  <2>3. Len(a) = k /\ k - 1 + 1 = k /\ \A i \in 1 .. k : 1 + i - 1 = i
    BY <2>2, <1>0
  <2> QED BY <2>2, <2>3
<1>2. b \in Seq(S) /\ Len(b) = Len(s) - k /\ \A i \in 1 .. Len(s) - k : b[i] = s[k + i]
  <2>1. \A i \in k + 1 .. Len(s) : s[i] \in S
    BY <1>0
  <2>2. /\ b \in Seq(S) /\ Len(b) = IF k + 1 <= Len(s) THEN Len(s) - (k + 1) + 1 ELSE 0
        /\ \A i \in 1 .. Len(s) - (k + 1) + 1 : b[i] = s[k + 1 + i - 1]
    BY <2>1, <1>0, SubSeqProperties
  <2> HIDE DEF b
  <2>3. Len(b) = Len(s) - k /\ Len(s) - (k + 1) + 1 = Len(s) - k
    <3>1. k \in Int /\ Len(s) \in Int /\ 0 <= k /\ k <= Len(s)
      BY <1>0
    <3>2. Len(s) - (k + 1) + 1 = Len(s) - k
      BY <3>1
    <3>3. CASE k + 1 <= Len(s)
      BY <2>2, <3>2, <3>3
    <3>4. CASE ~(k + 1 <= Len(s))
      BY <2>2, <3>1, <3>4
    <3> QED BY <3>2, <3>3, <3>4
  <2>4. ASSUME NEW i \in 1 .. Len(s) - k PROVE b[i] = s[k + i]
    <3>1. k + 1 + i - 1 = k + i
      OBVIOUS
    <3> QED BY <3>1, <2>2, <2>3
  <2> QED BY <2>2, <2>3, <2>4
<1> HIDE DEF a, b
<1>3. DOMAIN a = 1 .. k /\ DOMAIN b = 1 .. Len(s) - k
  BY <1>0, <1>1, <1>2, LenProperties
<1>4. \A i \in 1 .. Len(s) - k : k + i \in 1 .. Len(s)
  BY <1>0
<1>5. ToSet(a) \subseteq ToSet(s) /\ ToSet(b) \subseteq ToSet(s)
  <2>1. \A i \in 1 .. k : i \in 1 .. Len(s) /\ a[i] = s[i]
    BY <1>0, <1>1
  <2>2. \A i \in 1 .. Len(s) - k : k + i \in 1 .. Len(s) /\ b[i] = s[k + i]
    BY <1>2, <1>4
  <2>3. ToSet(a) \subseteq ToSet(s)
    BY <1>0, <1>3, <2>1 DEF ToSet
  <2>4. ToSet(b) \subseteq ToSet(s)
    BY <1>0, <1>3, <2>2 DEF ToSet
  <2> QED BY <2>3, <2>4
<1>6. ASSUME NEW i \in 1 .. Len(s) PROVE s[i] \in ToSet(a) \cup ToSet(b)
  <2>1. CASE i <= k
    BY <1>0, <1>1, <1>3, <2>1 DEF ToSet
  <2>2. CASE ~(i <= k)
    <3>1. i - k \in 1 .. Len(s) - k /\ k + (i - k) = i
      BY <1>0, <2>2
    <3>2. b[i - k] = s[i]
      BY <1>2, <3>1
    <3> QED BY <1>3, <3>1, <3>2 DEF ToSet
  <2> QED BY <2>1, <2>2
<1>7. ASSUME IsInjective(s) PROVE IsInjective(a) /\ IsInjective(b) /\ ToSet(a) \cap ToSet(b) = {}
  <2>1. IsInjective(a)
    BY <1>0, <1>1, <1>3, <1>7 DEF IsInjective
  <2>2. IsInjective(b)
    <3> SUFFICES ASSUME NEW i \in 1 .. Len(s) - k, NEW j \in 1 .. Len(s) - k, b[i] = b[j] PROVE i = j
      BY <1>3 DEF IsInjective
    <3>1. k + i = k + j
      BY <1>0, <1>2, <1>4, <1>7 DEF IsInjective
    <3> QED BY <1>0, <3>1
  <2>3. ASSUME NEW i \in 1 .. k, NEW j \in 1 .. Len(s) - k PROVE a[i] # b[j]
    <3>1. i # k + j /\ i \in 1 .. Len(s)
      BY <1>0
    <3>2. s[i] # s[k + j]
      BY <1>0, <1>4, <1>7, <3>1 DEF IsInjective
    <3> QED BY <1>1, <1>2, <3>2
  <2>4. ToSet(a) \cap ToSet(b) = {}
    BY <1>3, <2>3 DEF ToSet
  <2> QED BY <2>1, <2>2, <2>4
<1>8. ToSet(s) \subseteq ToSet(a) \cup ToSet(b)
  BY <1>0, <1>6 DEF ToSet
<1> QED BY <1>1, <1>2, <1>5, <1>7, <1>8 DEF a, b

(* multimap::insert puts one entry between the others.                     *)
LEMMA InsertFacts ==
  ASSUME NEW S, NEW s \in Seq(S), NEW k \in 0 .. Len(s), NEW x \in S
  PROVE  LET r == SubSeq(s, 1, k) \o <<x>> \o SubSeq(s, k + 1, Len(s))
         IN  /\ r \in Seq(S)
             /\ ToSet(r) = ToSet(s) \cup {x}
             /\ IsInjective(s) /\ x \notin ToSet(s) => IsInjective(r)
<1> DEFINE a == SubSeq(s, 1, k)
           b == SubSeq(s, k + 1, Len(s))
           x1 == <<x>>
<1>1. /\ a \in Seq(S) /\ b \in Seq(S) /\ ToSet(a) \cup ToSet(b) = ToSet(s)
      /\ IsInjective(s) => IsInjective(a) /\ IsInjective(b) /\ ToSet(a) \cap ToSet(b) = {}
  BY SplitFacts
<1>2. x1 \in Seq(S) /\ ToSet(x1) = {x} /\ IsInjective(x1)
  BY DEF ToSet, IsInjective
<1> HIDE DEF a, b, x1
<1>3. /\ a \o x1 \in Seq(S) /\ ToSet(a \o x1) = ToSet(a) \cup {x}
      /\ IsInjective(a) /\ x \notin ToSet(a) => IsInjective(a \o x1)
  BY <1>1, <1>2, ConcatFacts
<1>4. /\ (a \o x1) \o b \in Seq(S) /\ ToSet((a \o x1) \o b) = ToSet(a \o x1) \cup ToSet(b)
      /\ IsInjective((a \o x1) \o b) <=>
           IsInjective(a \o x1) /\ IsInjective(b) /\ ToSet(a \o x1) \cap ToSet(b) = {}
  BY <1>1, <1>3, ConcatFacts
<1>5. ToSet((a \o x1) \o b) = ToSet(s) \cup {x}
  BY <1>1, <1>3, <1>4
<1>6. IsInjective(s) /\ x \notin ToSet(s) => IsInjective((a \o x1) \o b)
  BY <1>1, <1>3, <1>4
<1> QED BY <1>4, <1>5, <1>6 DEF a, b, x1
============================================================================
