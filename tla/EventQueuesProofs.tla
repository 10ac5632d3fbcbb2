------------------------ MODULE EventQueuesProofs --------------------------
(***************************************************************************)
(* Facts about the list handling of EventQueues that the proofs about the  *)
(* client and the server session rest on: the pass over the retained       *)
(* events takes and keeps the elements it says it does, once each and in   *)
(* their order.                                                            *)
(***************************************************************************)
EXTENDS EventQueues, FiniteSetTheorems, SequenceTheorems, TLAPS

\* The elements of a list, and whether its ids are distinct and in order.
Elems(s) == {s[i] : i \in DOMAIN s}
Once(s) == \A j, k \in DOMAIN s : s[j].id = s[k].id => j = k
Ordered(s) == \A j, k \in DOMAIN s : j < k => s[j].id < s[k].id

-----------------------------------------------------------------------------
(* The rank numbers the indices of a set from 1 on. *)
LEMMA RankRange ==
  ASSUME NEW I \in SUBSET Nat, IsFiniteSet(I), NEW i \in I
  PROVE  Rank(I, i) \in 1 .. Cardinality(I)
<1> DEFINE B == {j \in I : j <= i}
<1>1. B \in SUBSET I /\ i \in B
  OBVIOUS
<1>2. IsFiniteSet(B) /\ Cardinality(B) <= Cardinality(I)
  BY <1>1, FS_Subset
<1>3. Cardinality(B) \in Nat /\ Cardinality(I) \in Nat
  BY <1>2, FS_CardinalityType
<1>4. Cardinality(B) # 0
  BY <1>1, <1>2, FS_EmptySet
<1> QED
  BY <1>2, <1>3, <1>4 DEF Rank

(* A later index has a higher rank. *)
LEMMA RankMonotone ==
  ASSUME NEW I \in SUBSET Nat, IsFiniteSet(I), NEW i \in I, NEW j \in I, i < j
  PROVE  Rank(I, i) < Rank(I, j)
<1> DEFINE B == {k \in I : k <= i}
           C == {k \in I : k <= j}
<1>1. B \in SUBSET C /\ C \in SUBSET I /\ j \in C /\ j \notin B
  <2>1. I \subseteq Nat /\ i \in Nat /\ j \in Nat
    OBVIOUS
  <2>2. \A k \in Nat : k <= i => k <= j
    BY <2>1
  <2>3. ~(j <= i)
    BY <2>1
  <2>4. \A k \in B : k \in C
    BY <2>1, <2>2
  <2>5. j <= j
    BY <2>1
  <2>6. j \in C /\ j \notin B
    BY <2>3, <2>5
  <2> QED
    BY <2>4, <2>6
<1>2. IsFiniteSet(C)
  BY <1>1, FS_Subset
<1>3. IsFiniteSet(B) /\ Cardinality(B) <= Cardinality(C) /\ (Cardinality(C) = Cardinality(B) => C = B)
  BY <1>1, <1>2, FS_Subset
<1>4. Cardinality(B) \in Nat /\ Cardinality(C) \in Nat
  BY <1>2, <1>3, FS_CardinalityType
<1> QED
  BY <1>1, <1>3, <1>4 DEF Rank

(* Every number up to the size of the set is the rank of one of its indices. *)
LEMMA RankOnto ==
  ASSUME NEW I \in SUBSET Nat, IsFiniteSet(I), NEW k \in 1 .. Cardinality(I)
  PROVE  \E i \in I : Rank(I, i) = k
<1> DEFINE n == Cardinality(I)
           r == [i \in I |-> Rank(I, i)]
<1>1. n \in Nat
  BY FS_CardinalityType
<1>2. r \in [I -> 1 .. n]
  BY RankRange
<1>3. \A i, j \in I : r[i] = r[j] => i = j
  <2>1. ASSUME NEW i \in I, NEW j \in I, i # j PROVE Rank(I, i) # Rank(I, j)
    <3>1. i < j \/ j < i
      BY <2>1
    <3>2. Rank(I, i) < Rank(I, j) \/ Rank(I, j) < Rank(I, i)
      BY <3>1, RankMonotone
    <3>3. Rank(I, i) \in Nat /\ Rank(I, j) \in Nat
      BY <1>1, RankRange
    <3> QED
      BY <3>2, <3>3
  <2> QED
    BY <2>1
<1>4. r \in Injection(I, 1 .. n)
  BY <1>2, <1>3 DEF Injection, IsInjective
<1>5. IsFiniteSet(1 .. n) /\ Cardinality(1 .. n) = n
  BY <1>1, FS_Interval
<1>6. r \in Surjection(I, 1 .. n)
  BY <1>4, <1>5, FS_Injection
<1> QED
  BY <1>6 DEF Surjection

\* The index of rank k.
Pos(I, k) == CHOOSE i \in I : Rank(I, i) = k

(* The index of rank k is in the set, has that rank, and grows with k. *)
LEMMA PosProperties ==
  ASSUME NEW I \in SUBSET Nat, IsFiniteSet(I)
  PROVE  /\ \A k \in 1 .. Cardinality(I) : Pos(I, k) \in I /\ Rank(I, Pos(I, k)) = k
         /\ \A i \in I : Rank(I, i) \in 1 .. Cardinality(I) /\ Pos(I, Rank(I, i)) = i
         /\ \A j, k \in 1 .. Cardinality(I) : j < k => Pos(I, j) < Pos(I, k)
<1>1. ASSUME NEW k \in 1 .. Cardinality(I) PROVE Pos(I, k) \in I /\ Rank(I, Pos(I, k)) = k
  BY RankOnto DEF Pos
<1>2. Cardinality(I) \in Nat
  BY FS_CardinalityType
<1>3. ASSUME NEW i \in I, NEW j \in I, Rank(I, i) >= Rank(I, j) PROVE i >= j
  <2>1. Rank(I, i) \in Nat /\ Rank(I, j) \in Nat
    BY <1>2, RankRange
  <2> QED
    BY <1>3, <2>1, RankMonotone
<1>4. ASSUME NEW i \in I PROVE Rank(I, i) \in 1 .. Cardinality(I) /\ Pos(I, Rank(I, i)) = i
  <2>1. Rank(I, i) \in 1 .. Cardinality(I)
    BY RankRange
  <2>2. Pos(I, Rank(I, i)) \in I /\ Rank(I, Pos(I, Rank(I, i))) = Rank(I, i)
    BY <1>1, <2>1
  <2> DEFINE r == Rank(I, i)
             p == Pos(I, r)
  <2>3. r \in Nat /\ Rank(I, p) = r /\ p \in I
    BY <1>2, <2>1, <2>2
  <2>4. Rank(I, p) >= Rank(I, i) /\ Rank(I, i) >= Rank(I, p)
    BY <2>3
  <2>5. p >= i /\ i >= p
    BY <1>3, <2>3, <2>4
  <2>6. p \in Nat /\ i \in Nat
    BY <2>3
  <2>7. p = i
    BY <2>5, <2>6
  <2> QED
    BY <2>1, <2>7
<1>5. ASSUME NEW j \in 1 .. Cardinality(I), NEW k \in 1 .. Cardinality(I), j < k
      PROVE  Pos(I, j) < Pos(I, k)
  <2>1. /\ Pos(I, j) \in I /\ Rank(I, Pos(I, j)) = j
        /\ Pos(I, k) \in I /\ Rank(I, Pos(I, k)) = k
    BY <1>1
  <2>2. j \in Nat /\ k \in Nat /\ Pos(I, j) \in Nat /\ Pos(I, k) \in Nat
    <3>1. j \in Nat /\ k \in Nat
      BY <1>2
    <3>2. Pos(I, j) \in Nat /\ Pos(I, k) \in Nat
      BY <2>1
    <3> QED
      BY <3>1, <3>2
  <2>3. Rank(I, Pos(I, k)) >= Rank(I, Pos(I, j))
    BY <1>5, <2>1, <2>2
  <2>4. Pos(I, k) >= Pos(I, j)
    BY <1>3, <2>1, <2>3
  <2>5. Pos(I, k) # Pos(I, j)
    BY <1>5, <2>1, <2>2
  <2> QED
    BY <2>2, <2>4, <2>5
<1> QED
  BY <1>1, <1>4, <1>5

-----------------------------------------------------------------------------
(* The indices of a list are a finite set of numbers, and so is each part of them. *)
LEMMA IndexSet ==
  ASSUME NEW E, NEW s \in Seq(E), NEW I \in SUBSET (DOMAIN s)
  PROVE  I \in SUBSET Nat /\ IsFiniteSet(I) /\ Cardinality(I) \in Nat
<1>1. DOMAIN s = 1 .. Len(s) /\ Len(s) \in Nat
  BY LenProperties
<1>2. IsFiniteSet(DOMAIN s)
  BY <1>1, FS_Interval
<1>3. IsFiniteSet(I)
  BY <1>2, FS_Subset
<1> QED
  BY <1>1, <1>3, FS_CardinalityType

(* The elements of a list at some of its indices: those elements, in a list again, in
   the order they had and none more often than before. *)
LEMMA AtProperties ==
  ASSUME NEW E, NEW s \in Seq(E), NEW I \in SUBSET (DOMAIN s)
  PROVE  /\ At(s, I) \in Seq(E)
         /\ Len(At(s, I)) = Cardinality(I)
         /\ Elems(At(s, I)) = {s[i] : i \in I}
         /\ Ids(At(s, I)) = {s[i].id : i \in I}
         /\ Once(s) => Once(At(s, I))
         /\ Ordered(s) => Ordered(At(s, I))
<1> DEFINE n == Cardinality(I)
           a == At(s, I)
<1>1. I \in SUBSET Nat /\ IsFiniteSet(I) /\ n \in Nat
  BY IndexSet
<1>2. /\ \A k \in 1 .. n : Pos(I, k) \in I /\ Rank(I, Pos(I, k)) = k
      /\ \A i \in I : Rank(I, i) \in 1 .. n /\ Pos(I, Rank(I, i)) = i
      /\ \A j, k \in 1 .. n : j < k => Pos(I, j) < Pos(I, k)
  BY <1>1, PosProperties
<1>3. a = [k \in 1 .. n |-> s[Pos(I, k)]]
  BY DEF At, Pos
<1>4. DOMAIN s = 1 .. Len(s) /\ Len(s) \in Nat /\ s \in [1 .. Len(s) -> E]
  BY LenProperties
<1>5. a \in [1 .. n -> E]
  BY <1>2, <1>3, <1>4
<1>6. a \in Seq(E)
  BY <1>1, <1>5, SeqDef
<1>7. DOMAIN a = 1 .. n /\ \A k \in 1 .. n : a[k] = s[Pos(I, k)]
  BY <1>3
<1>8. Len(a) = n
  BY <1>1, <1>6, <1>7, LenProperties
<1>9. \A x : x \in Elems(a) <=> \E i \in I : x = s[i]
  BY <1>2, <1>7 DEF Elems
<1>10. Ids(a) = {s[i].id : i \in I}
  <2>1. \A k \in 1 .. n : \E i \in I : a[k] = s[i]
    BY <1>2, <1>7
  <2>2. \A i \in I : \E k \in 1 .. n : a[k] = s[i]
    BY <1>2, <1>7
  <2> QED
    BY <1>7, <2>1, <2>2 DEF Ids
<1>11. Once(s) => Once(a)
  BY <1>2, <1>7 DEF Once
<1>12. Ordered(s) => Ordered(a)
  BY <1>2, <1>7 DEF Ordered
<1> QED
  BY <1>6, <1>8, <1>9, <1>10, <1>11, <1>12

-----------------------------------------------------------------------------
\* Every id of A is older than every id of B.
Before(A, B) == \A a \in A, b \in B : a < b

(* Two lists one after the other. *)
LEMMA ConcatShape ==
  ASSUME NEW E, NEW s \in Seq(E), NEW t \in Seq(E)
  PROVE  /\ s \o t \in Seq(E)
         /\ DOMAIN s = 1 .. Len(s) /\ DOMAIN t = 1 .. Len(t)
         /\ DOMAIN (s \o t) = 1 .. (Len(s) + Len(t))
         /\ Len(s) \in Nat /\ Len(t) \in Nat
         /\ \A i \in 1 .. Len(s) : (s \o t)[i] = s[i]
         /\ \A i \in 1 .. Len(t) : (s \o t)[Len(s) + i] = t[i]
         /\ \A i \in 1 .. (Len(s) + Len(t)) :
              i \in 1 .. Len(s) \/ \E j \in 1 .. Len(t) : i = Len(s) + j
<1>1. s \o t \in Seq(E) /\ Len(s \o t) = Len(s) + Len(t)
  BY ConcatProperties
<1>2. Len(s) \in Nat /\ Len(t) \in Nat /\ DOMAIN s = 1 .. Len(s) /\ DOMAIN t = 1 .. Len(t)
  BY LenProperties
<1>3. DOMAIN (s \o t) = 1 .. (Len(s) + Len(t))
  BY <1>1, LenProperties
<1>4. \A i \in 1 .. Len(s) : (s \o t)[i] = s[i]
  BY <1>2, ConcatProperties
<1>5. \A i \in 1 .. Len(t) : (s \o t)[Len(s) + i] = t[i]
  BY <1>2, ConcatProperties
<1>6. ASSUME NEW i \in 1 .. (Len(s) + Len(t)), i \notin 1 .. Len(s)
      PROVE  \E j \in 1 .. Len(t) : i = Len(s) + j
  <2>1. i - Len(s) \in 1 .. Len(t) /\ i = Len(s) + (i - Len(s))
    BY <1>2, <1>6
  <2> QED
    BY <2>1
<1> QED
  BY <1>1, <1>2, <1>3, <1>4, <1>5, <1>6

(* What the two have, and when the whole is in order, without repeats. *)
LEMMA ConcatContents ==
  ASSUME NEW E, NEW s \in Seq(E), NEW t \in Seq(E)
  PROVE  /\ Elems(s \o t) = Elems(s) \cup Elems(t)
         /\ Ids(s \o t) = Ids(s) \cup Ids(t)
         /\ Ordered(s \o t) <=> Ordered(s) /\ Ordered(t) /\ Before(Ids(s), Ids(t))
         /\ Once(s \o t) <=> Once(s) /\ Once(t) /\ Ids(s) \cap Ids(t) = {}
<1> DEFINE q == s \o t
           m == Len(s)
           n == Len(t)
<1>1. /\ DOMAIN s = 1 .. m /\ DOMAIN t = 1 .. n /\ DOMAIN q = 1 .. (m + n)
      /\ m \in Nat /\ n \in Nat
      /\ \A i \in 1 .. m : q[i] = s[i]
      /\ \A i \in 1 .. n : q[m + i] = t[i]
      /\ \A i \in 1 .. (m + n) : i \in 1 .. m \/ \E j \in 1 .. n : i = m + j
  BY ConcatShape
<1> HIDE DEF q, m, n
<1>2. /\ \A i \in 1 .. m : i \in 1 .. (m + n)
      /\ \A i \in 1 .. n : m + i \in 1 .. (m + n)
  BY <1>1
<1>3. \A i \in DOMAIN q : (\E j \in DOMAIN s : q[i] = s[j]) \/ \E j \in DOMAIN t : q[i] = t[j]
  <2>1. ASSUME NEW i \in 1 .. (m + n)
        PROVE  (\E j \in 1 .. m : q[i] = s[j]) \/ \E j \in 1 .. n : q[i] = t[j]
    BY <1>1
  <2> QED
    BY <1>1, <2>1
<1>4. /\ \A j \in DOMAIN s : \E i \in DOMAIN q : q[i] = s[j]
      /\ \A j \in DOMAIN t : \E i \in DOMAIN q : q[i] = t[j]
  BY <1>1, <1>2
<1>5. Elems(q) = Elems(s) \cup Elems(t)
  BY <1>3, <1>4 DEF Elems
<1>6. Ids(q) = Ids(s) \cup Ids(t)
  BY <1>3, <1>4 DEF Ids
<1>7. ASSUME Ordered(q) PROVE Ordered(s) /\ Ordered(t) /\ Before(Ids(s), Ids(t))
  <2>1. Ordered(s)
    BY <1>1, <1>2, <1>7 DEF Ordered
  <2>2. Ordered(t)
    <3>1. ASSUME NEW i \in 1 .. n, NEW j \in 1 .. n, i < j PROVE t[i].id < t[j].id
      <4>1. m + i \in DOMAIN q /\ m + j \in DOMAIN q /\ m + i < m + j
        BY <1>1, <1>2, <3>1
      <4>2. q[m + i].id < q[m + j].id
        BY <1>7, <4>1 DEF Ordered
      <4> QED
        BY <1>1, <4>2
    <3> QED
      BY <1>1, <3>1 DEF Ordered
  <2>3. ASSUME NEW i \in 1 .. m, NEW j \in 1 .. n PROVE s[i].id < t[j].id
    <3>1. i \in DOMAIN q /\ m + j \in DOMAIN q /\ i < m + j
      BY <1>1, <1>2
    <3>2. q[i].id < q[m + j].id
      BY <1>7, <3>1 DEF Ordered
    <3> QED
      BY <1>1, <3>2
  <2> QED
    BY <1>1, <2>1, <2>2, <2>3 DEF Before, Ids
<1>8. ASSUME Ordered(s), Ordered(t), Before(Ids(s), Ids(t)) PROVE Ordered(q)
  <2>1. SUFFICES ASSUME NEW i \in DOMAIN q, NEW j \in DOMAIN q, i < j
                 PROVE  q[i].id < q[j].id
    BY DEF Ordered
  <2>2. i \in Nat /\ j \in Nat
    BY <1>1
  <2>3. CASE i \in 1 .. m /\ j \in 1 .. m
    BY <1>1, <1>8, <2>1, <2>3 DEF Ordered
  <2>4. CASE i \in 1 .. m /\ \E l \in 1 .. n : j = m + l
    <3>1. PICK l \in 1 .. n : j = m + l
      BY <2>4
    <3>2. q[i].id \in Ids(s) /\ q[j].id \in Ids(t)
      BY <1>1, <2>4, <3>1 DEF Ids
    <3> QED
      BY <1>8, <3>2 DEF Before
  <2>5. CASE (\E k \in 1 .. n : i = m + k) /\ \E l \in 1 .. n : j = m + l
    <3>1. PICK k \in 1 .. n, l \in 1 .. n : i = m + k /\ j = m + l
      BY <2>5
    <3>2. k < l
      BY <1>1, <2>1, <3>1
    <3>3. t[k].id < t[l].id
      BY <1>1, <1>8, <3>2 DEF Ordered
    <3> QED
      BY <1>1, <3>1, <3>3
  <2>6. CASE (\E k \in 1 .. n : i = m + k) /\ j \in 1 .. m
    BY <1>1, <2>1, <2>6
  <2> QED
    BY <1>1, <2>3, <2>4, <2>5, <2>6
<1>9. ASSUME Once(q) PROVE Once(s) /\ Once(t) /\ Ids(s) \cap Ids(t) = {}
  <2>1. Once(s)
    BY <1>1, <1>2, <1>9 DEF Once
  <2>2. Once(t)
    <3>1. ASSUME NEW i \in 1 .. n, NEW j \in 1 .. n, t[i].id = t[j].id PROVE i = j
      <4>1. m + i \in DOMAIN q /\ m + j \in DOMAIN q /\ q[m + i].id = q[m + j].id
        BY <1>1, <1>2, <3>1
      <4>2. m + i = m + j
        BY <1>9, <4>1 DEF Once
      <4> QED
        BY <1>1, <4>2
    <3> QED
      BY <1>1, <3>1 DEF Once
  <2>3. ASSUME NEW i \in 1 .. m, NEW j \in 1 .. n PROVE s[i].id # t[j].id
    <3>1. i \in DOMAIN q /\ m + j \in DOMAIN q /\ i # m + j
      BY <1>1, <1>2
    <3>2. q[i].id # q[m + j].id
      BY <1>9, <3>1 DEF Once
    <3> QED
      BY <1>1, <3>2
  <2> QED
    BY <1>1, <2>1, <2>2, <2>3 DEF Ids
<1>10. ASSUME Once(s), Once(t), Ids(s) \cap Ids(t) = {} PROVE Once(q)
  <2>1. SUFFICES ASSUME NEW i \in DOMAIN q, NEW j \in DOMAIN q, q[i].id = q[j].id
                 PROVE  i = j
    BY DEF Once
  <2>2. \A k \in 1 .. m, l \in 1 .. n : s[k].id # t[l].id
    BY <1>1, <1>10 DEF Ids
  <2>3. CASE i \in 1 .. m /\ j \in 1 .. m
    BY <1>1, <1>10, <2>1, <2>3 DEF Once
  <2>4. CASE i \in 1 .. m /\ \E l \in 1 .. n : j = m + l
    <3>1. PICK l \in 1 .. n : j = m + l
      BY <2>4
    <3>2. q[i] = s[i] /\ q[j] = t[l]
      BY <1>1, <2>4, <3>1
    <3> QED
      BY <2>1, <2>2, <2>4, <3>2
  <2>5. CASE (\E k \in 1 .. n : i = m + k) /\ \E l \in 1 .. n : j = m + l
    <3>1. PICK k \in 1 .. n, l \in 1 .. n : i = m + k /\ j = m + l
      BY <2>5
    <3>2. q[i] = t[k] /\ q[j] = t[l]
      BY <1>1, <3>1
    <3>3. k = l
      BY <1>1, <1>10, <2>1, <3>2 DEF Once
    <3> QED
      BY <3>1, <3>3
  <2>6. CASE (\E k \in 1 .. n : i = m + k) /\ j \in 1 .. m
    <3>1. PICK k \in 1 .. n : i = m + k
      BY <2>6
    <3>2. q[j] = s[j] /\ q[i] = t[k]
      BY <1>1, <2>6, <3>1
    <3> QED
      BY <2>1, <2>2, <2>6, <3>2
  <2> QED
    BY <1>1, <2>3, <2>4, <2>5, <2>6
<1> QED
  BY <1>5, <1>6, <1>7, <1>8, <1>9, <1>10 DEF q

(* A list is what its first n elements and the rest make. *)
LEMMA SplitAt ==
  ASSUME NEW E, NEW s \in Seq(E), NEW n \in 0 .. Len(s)
  PROVE  /\ SubSeq(s, 1, n) \in Seq(E)
         /\ SubSeq(s, n + 1, Len(s)) \in Seq(E)
         /\ s = SubSeq(s, 1, n) \o SubSeq(s, n + 1, Len(s))
<1> DEFINE a == SubSeq(s, 1, n)
           b == SubSeq(s, n + 1, Len(s))
           m == Len(s)
<1>1. m \in Nat /\ DOMAIN s = 1 .. m /\ n \in Nat /\ n <= m
  BY LenProperties
<1>2. a \in Seq(E) /\ Len(a) = n /\ \A i \in 1 .. n : a[i] = s[i]
  BY <1>1, SubSeqProperties
<1>3. b \in Seq(E) /\ Len(b) = m - n /\ \A i \in 1 .. (m - n) : b[i] = s[n + i]
  <2>1. \A i \in (n + 1) .. m : s[i] \in E
    BY <1>1
  <2>2. n + 1 \in Int /\ m \in Int /\ m - (n + 1) + 1 = m - n
    BY <1>1
  <2>3. /\ b \in Seq(E)
        /\ Len(b) = IF n + 1 <= m THEN m - (n + 1) + 1 ELSE 0
        /\ \A i \in 1 .. (m - (n + 1) + 1) : b[i] = s[n + 1 + i - 1]
    BY <2>1, <2>2, SubSeqProperties
  <2>4. Len(b) = m - n
    <3>1. CASE n + 1 <= m
      BY <2>2, <2>3, <3>1
    <3>2. CASE ~(n + 1 <= m)
      <4> HIDE DEF m
      <4>1. m - n = 0
        BY <1>1, <3>2
      <4> QED
        BY <2>3, <3>2, <4>1
    <3> QED
      BY <3>1, <3>2
  <2>5. ASSUME NEW i \in 1 .. (m - n) PROVE b[i] = s[n + i]
    <3>1. n + 1 + i - 1 = n + i /\ i \in 1 .. (m - (n + 1) + 1)
      BY <1>1
    <3> QED
      BY <2>3, <3>1
  <2> QED
    BY <2>3, <2>4, <2>5
<1> HIDE DEF a, b, m
<1>4. /\ a \o b \in Seq(E) /\ Len(a \o b) = m
      /\ \A i \in 1 .. n : (a \o b)[i] = a[i]
      /\ \A i \in 1 .. (m - n) : (a \o b)[n + i] = b[i]
  <2>1. a \o b \in Seq(E) /\ Len(a \o b) = Len(a) + Len(b)
    BY <1>2, <1>3, ConcatProperties
  <2>2. a \in Seq(E) /\ b \in Seq(E)
    BY <1>2, <1>3
  <2>4. \A i \in 1 .. Len(a) : (a \o b)[i] = a[i]
    BY <2>2, ConcatShape
  <2>5. \A i \in 1 .. Len(b) : (a \o b)[Len(a) + i] = b[i]
    BY <2>2, ConcatShape
  <2>3. n + (m - n) = m
    BY <1>1
  <2> QED
    BY <1>2, <1>3, <2>1, <2>3, <2>4, <2>5
<1>5. ASSUME NEW i \in 1 .. m PROVE (a \o b)[i] = s[i]
  <2>1. CASE i \in 1 .. n
    BY <1>2, <1>4, <2>1
  <2>2. CASE i \notin 1 .. n
    <3>1. i - n \in 1 .. (m - n) /\ i = n + (i - n)
      BY <1>1, <2>2
    <3>2. (a \o b)[n + (i - n)] = b[i - n]
      BY <1>4, <3>1
    <3>3. b[i - n] = s[n + (i - n)]
      BY <1>3, <3>1
    <3> QED
      BY <3>1, <3>2, <3>3
  <2> QED
    BY <2>1, <2>2
<1>6. s = a \o b
  BY <1>1, <1>4, <1>5, SeqEqual DEF m
<1> QED
  BY <1>2, <1>3, <1>6 DEF a, b, m

(* The empty list. *)
LEMMA EmptyList ==
  /\ Elems(<<>>) = {} /\ Ids(<<>>) = {} /\ Once(<<>>) /\ Ordered(<<>>)
  /\ \A E : <<>> \in Seq(E) /\ \A s \in Seq(E) : s \o <<>> = s /\ <<>> \o s = s
<1>1. DOMAIN <<>> = {}
  OBVIOUS
<1>2. Elems(<<>>) = {} /\ Ids(<<>>) = {} /\ Once(<<>>) /\ Ordered(<<>>)
  BY <1>1 DEF Elems, Ids, Once, Ordered
<1>3. \A E : <<>> \in Seq(E)
  OBVIOUS
<1>4. \A E : \A s \in Seq(E) : s \o <<>> = s /\ <<>> \o s = s
  BY ConcatEmptySeq
<1> QED
  BY <1>2, <1>3, <1>4

(* A list with one event more, younger than all it has. *)
LEMMA AppendContents ==
  ASSUME NEW E, NEW s \in Seq(E), NEW e \in E
  PROVE  /\ Append(s, e) \in Seq(E)
         /\ Elems(Append(s, e)) = Elems(s) \cup {e}
         /\ Ids(Append(s, e)) = Ids(s) \cup {e.id}
         /\ Ordered(s) /\ (\A a \in Ids(s) : a < e.id) => Ordered(Append(s, e))
<1> DEFINE q == Append(s, e)
           n == Len(s)
<1>1. n \in Nat /\ DOMAIN s = 1 .. n
  BY LenProperties
<1>2. /\ q \in Seq(E) /\ Len(q) = n + 1
      /\ \A i \in 1 .. n : q[i] = s[i]
      /\ q[n + 1] = e
  BY AppendProperties
<1>3. DOMAIN q = 1 .. (n + 1)
  BY <1>2, LenProperties
<1> HIDE DEF q, n
<1>4. /\ \A i \in 1 .. (n + 1) : i \in 1 .. n \/ i = n + 1
      /\ \A i \in 1 .. n : i \in 1 .. (n + 1)
      /\ n + 1 \in 1 .. (n + 1)
  BY <1>1
<1>5. Elems(q) = Elems(s) \cup {e}
  <2>1. \A i \in DOMAIN q : q[i] \in Elems(s) \/ q[i] = e
    BY <1>1, <1>2, <1>3, <1>4 DEF Elems
  <2>2. /\ \A i \in DOMAIN s : \E j \in DOMAIN q : q[j] = s[i]
        /\ \E j \in DOMAIN q : q[j] = e
    BY <1>1, <1>2, <1>3, <1>4
  <2> QED
    BY <2>1, <2>2 DEF Elems
<1>6. Ids(q) = Ids(s) \cup {e.id}
  <2>1. \A i \in DOMAIN q : q[i].id \in Ids(s) \/ q[i].id = e.id
    BY <1>1, <1>2, <1>3, <1>4 DEF Ids
  <2>2. /\ \A i \in DOMAIN s : \E j \in DOMAIN q : q[j].id = s[i].id
        /\ \E j \in DOMAIN q : q[j].id = e.id
    BY <1>1, <1>2, <1>3, <1>4
  <2> QED
    BY <2>1, <2>2 DEF Ids
<1>7. ASSUME Ordered(s), \A a \in Ids(s) : a < e.id,
             NEW j \in DOMAIN q, NEW k \in DOMAIN q, j < k
      PROVE  q[j].id < q[k].id
  <2>1. j \in 1 .. n
    BY <1>1, <1>3, <1>4, <1>7
  <2>2. CASE k \in 1 .. n
    BY <1>1, <1>2, <1>7, <2>1, <2>2 DEF Ordered
  <2>3. CASE k = n + 1
    <3>1. q[j].id \in Ids(s) /\ q[k] = e
      BY <1>1, <1>2, <2>1, <2>3 DEF Ids
    <3> QED
      BY <1>7, <3>1
  <2> QED
    BY <1>3, <1>4, <2>2, <2>3
<1>8. Ordered(s) /\ (\A a \in Ids(s) : a < e.id) => Ordered(q)
  BY <1>7 DEF Ordered
<1> QED
  BY <1>2, <1>5, <1>6, <1>8 DEF q

(* It does not matter whether an event is added before or after another list is
   put in front. *)
LEMMA ConcatAppend ==
  ASSUME NEW E, NEW s \in Seq(E), NEW t \in Seq(E), NEW e \in E
  PROVE  s \o Append(t, e) = Append(s \o t, e)
<1>1. s \o t \in Seq(E) /\ <<e>> \in Seq(E)
  BY ConcatShape
<1>2. Append(t, e) = t \o <<e>>
  BY AppendIsConcat
<1>3. Append(s \o t, e) = (s \o t) \o <<e>>
  BY <1>1, AppendIsConcat
<1>4. (s \o t) \o <<e>> = s \o (t \o <<e>>)
  BY <1>1, ConcatAssociative
<1> QED
  BY <1>2, <1>3, <1>4

(* What is in order has no repeats. *)
LEMMA OrderedOnce ==
  ASSUME NEW E, NEW s \in Seq(E), \A e \in E : e.id \in Nat, Ordered(s)
  PROVE  Once(s)
<1>1. DOMAIN s \subseteq Nat /\ \A j \in DOMAIN s : s[j].id \in Nat
  BY LenProperties
<1>2. ASSUME NEW j \in DOMAIN s, NEW k \in DOMAIN s, s[j].id = s[k].id PROVE j = k
  <2>1. ~(j < k) /\ ~(k < j)
    BY <1>1, <1>2 DEF Ordered
  <2> QED
    BY <1>1, <2>1
<1> QED
  BY <1>2 DEF Once

(* The two parts that a pass over a list makes of it. *)
LEMMA PartsOf ==
  ASSUME NEW E, NEW s \in Seq(E), NEW I \in SUBSET (DOMAIN s)
  PROVE  /\ At(s, I) \in Seq(E) /\ At(s, DOMAIN s \ I) \in Seq(E)
         /\ Elems(s) = Elems(At(s, I)) \cup Elems(At(s, DOMAIN s \ I))
         /\ Ids(s) = Ids(At(s, I)) \cup Ids(At(s, DOMAIN s \ I))
         /\ Once(s) => /\ Ids(At(s, I)) \cap Ids(At(s, DOMAIN s \ I)) = {}
                       /\ Once(At(s, I)) /\ Once(At(s, DOMAIN s \ I))
         /\ Ordered(s) => Ordered(At(s, I)) /\ Ordered(At(s, DOMAIN s \ I))
<1> DEFINE J == DOMAIN s \ I
           a == At(s, I)
           b == At(s, J)
<1>1. J \in SUBSET (DOMAIN s)
  OBVIOUS
<1>2. /\ a \in Seq(E) /\ Elems(a) = {s[i] : i \in I} /\ Ids(a) = {s[i].id : i \in I}
      /\ Once(s) => Once(a)
      /\ Ordered(s) => Ordered(a)
  BY AtProperties
<1>3. /\ b \in Seq(E) /\ Elems(b) = {s[i] : i \in J} /\ Ids(b) = {s[i].id : i \in J}
      /\ Once(s) => Once(b)
      /\ Ordered(s) => Ordered(b)
  BY <1>1, AtProperties
<1> HIDE DEF a, b
<1>4. Elems(s) = Elems(a) \cup Elems(b)
  BY <1>2, <1>3 DEF Elems
<1>5. Ids(s) = Ids(a) \cup Ids(b)
  BY <1>2, <1>3 DEF Ids
<1>6. Once(s) => Ids(a) \cap Ids(b) = {}
  BY <1>2, <1>3 DEF Once
<1> QED
  BY <1>2, <1>3, <1>4, <1>5, <1>6 DEF a, b

(* A pass that takes at most one event takes one exactly when one is wanted. *)
LEMMA FirstOfOne ==
  ASSUME NEW W \in SUBSET Nat, IsFiniteSet(W)
  PROVE  /\ FirstOf(W, 1) \in SUBSET W
         /\ W # {} => \E i \in W : FirstOf(W, 1) = {i}
<1>1. FirstOf(W, 1) \in SUBSET W
  BY DEF FirstOf
<1>2. ASSUME W # {} PROVE \E i \in W : FirstOf(W, 1) = {i}
  <2>1. Cardinality(W) \in Nat /\ Cardinality(W) # 0
    BY <1>2, FS_EmptySet, FS_CardinalityType
  <2>2. 1 \in 1 .. Cardinality(W)
    BY <2>1
  <2>3. PICK i \in W : Rank(W, i) = 1
    BY <2>2, RankOnto
  <2>4. ASSUME NEW j \in W, Rank(W, j) <= 1 PROVE j = i
    <3>1. Rank(W, j) \in 1 .. Cardinality(W)
      BY RankRange
    <3>2. Rank(W, j) = 1
      BY <2>1, <2>4, <3>1
    <3>3. Pos(W, 1) = i /\ Pos(W, 1) = j
      BY <2>3, <3>2, PosProperties
    <3> QED
      BY <3>3
  <2>5. FirstOf(W, 1) = {i}
    <3>1. Rank(W, i) <= 1
      BY <2>3
    <3>2. \A j \in W : Rank(W, j) <= 1 <=> j = i
      BY <2>4, <3>1
    <3> QED
      BY <3>2 DEF FirstOf
  <2> QED
    BY <2>5
<1> QED
  BY <1>1, <1>2

(* What a pass takes comes before what it wanted and left. *)
LEMMA FirstOfBefore ==
  ASSUME NEW W \in SUBSET Nat, IsFiniteSet(W), NEW room \in Int,
         NEW i \in FirstOf(W, room), NEW j \in W \ FirstOf(W, room)
  PROVE  i < j
<1>1. i \in W /\ Rank(W, i) <= room /\ ~(Rank(W, j) <= room)
  BY DEF FirstOf
<1>2. Rank(W, i) \in 1 .. Cardinality(W) /\ Rank(W, j) \in 1 .. Cardinality(W) /\ Cardinality(W) \in Nat
  BY <1>1, RankRange, FS_CardinalityType
<1>3. ~(j < i)
  <2>1. SUFFICES ASSUME j < i PROVE FALSE
    OBVIOUS
  <2>2. Rank(W, j) < Rank(W, i)
    BY <1>1, <2>1, RankMonotone
  <2> QED
    BY <1>1, <1>2, <2>2
<1>4. i # j
  BY <1>1
<1>5. i \in Nat /\ j \in Nat
  BY <1>1
<1> QED
  BY <1>3, <1>4, <1>5

(* A pass takes no more than it has room for, and all that it wants when there is
   room left or when all of it fits. *)
LEMMA FirstOfSize ==
  ASSUME NEW W \in SUBSET Nat, IsFiniteSet(W), NEW room \in Nat
  PROVE  /\ Cardinality(FirstOf(W, room)) <= room
         /\ Cardinality(FirstOf(W, room)) < room => FirstOf(W, room) = W
         /\ Cardinality(W) <= room => FirstOf(W, room) = W
<1> DEFINE F == FirstOf(W, room)
<1>1. F \in SUBSET W /\ \A i \in W : i \in F <=> Rank(W, i) <= room
  BY DEF FirstOf
<1>2. IsFiniteSet(F) /\ Cardinality(F) \in Nat /\ Cardinality(W) \in Nat
  BY <1>1, FS_Subset, FS_CardinalityType
<1>3. IsFiniteSet(1 .. room) /\ Cardinality(1 .. room) = room
  BY FS_Interval
<1>4. \A i \in W : Rank(W, i) \in 1 .. Cardinality(W)
  BY RankRange
<1>5. \A i, j \in W : Rank(W, i) = Rank(W, j) => i = j
  BY PosProperties
<1> HIDE DEF F
<1>6. Cardinality(F) <= room
  <2> DEFINE f == [i \in F |-> Rank(W, i)]
  <2>1. f \in [F -> 1 .. room]
    BY <1>1, <1>2, <1>4
  <2>2. f \in Injection(F, 1 .. room)
    BY <1>1, <1>5, <2>1 DEF Injection, IsInjective
  <2> QED
    BY <1>3, <2>2, FS_Injection
<1>7. ASSUME Cardinality(W) <= room PROVE F = W
  <2>1. \A i \in W : Rank(W, i) <= room
    BY <1>2, <1>4, <1>7
  <2> QED
    BY <1>1, <2>1
<1>8. ASSUME Cardinality(F) < room PROVE F = W
  <2>1. SUFFICES Cardinality(W) <= room
    BY <1>7
  <2>2. SUFFICES ASSUME room < Cardinality(W) PROVE FALSE
    BY <1>2
  <2> DEFINE g == [k \in 1 .. room |-> Pos(W, k)]
  <2>3. ASSUME NEW k \in 1 .. room PROVE Pos(W, k) \in F /\ Rank(W, Pos(W, k)) = k
    <3>1. k \in 1 .. Cardinality(W)
      BY <1>2, <2>2
    <3>2. Pos(W, k) \in W /\ Rank(W, Pos(W, k)) = k
      BY <3>1, PosProperties
    <3>3. k <= room
      OBVIOUS
    <3> QED
      BY <1>1, <3>2, <3>3
  <2>4. g \in [1 .. room -> F]
    BY <2>3
  <2>5. \A j, k \in 1 .. room : g[j] = g[k] => j = k
    <3>1. \A k \in 1 .. room : Rank(W, g[k]) = k
      BY <2>3
    <3> QED
      BY <3>1
  <2>6. g \in Injection(1 .. room, F)
    BY <2>4, <2>5 DEF Injection, IsInjective
  <2>7. room <= Cardinality(F)
    BY <1>2, <1>3, <2>6, FS_Injection
  <2> QED
    BY <1>2, <1>8, <2>7
<1> QED
  BY <1>6, <1>7, <1>8 DEF F

(* Indices of events with distinct ids of a finite range are no more than it has. *)
LEMMA IndexBound ==
  ASSUME NEW s, Once(s), NEW W \in SUBSET (DOMAIN s), NEW n \in Nat,
         \A i \in DOMAIN s : s[i].id \in 1 .. n
  PROVE  IsFiniteSet(W) => Cardinality(W) <= n
<1> DEFINE f == [i \in W |-> s[i].id]
<1>1. f \in Injection(W, 1 .. n)
  BY DEF Injection, IsInjective, Once
<1>2. IsFiniteSet(1 .. n) /\ Cardinality(1 .. n) = n
  BY FS_Interval
<1> QED
  BY <1>1, <1>2, FS_Injection

(* The first index of a set of indices. *)
LEMMA LeastOf ==
  ASSUME NEW W \in SUBSET Nat, IsFiniteSet(W), W # {}
  PROVE  \E i \in W : \A j \in W : i <= j
<1>1. Cardinality(W) \in Nat /\ Cardinality(W) # 0
  BY FS_EmptySet, FS_CardinalityType
<1>2. 1 \in 1 .. Cardinality(W)
  BY <1>1
<1>3. PICK i \in W : Rank(W, i) = 1
  BY <1>2, RankOnto
<1>4. ASSUME NEW j \in W PROVE i <= j
  <2>1. ~(j < i)
    <3>1. SUFFICES ASSUME j < i PROVE FALSE
      OBVIOUS
    <3>2. Rank(W, j) < Rank(W, i)
      BY <3>1, RankMonotone
    <3>3. Rank(W, j) \in 1 .. Cardinality(W)
      BY RankRange
    <3> QED
      BY <1>1, <1>3, <3>2, <3>3
  <2>2. i \in Nat /\ j \in Nat
    OBVIOUS
  <2> QED
    BY <2>1, <2>2
<1> QED
  BY <1>4

-----------------------------------------------------------------------------
(* The accounting of a session: q is what waits in the session and in the
   native queue, h what each of its threads holds or has returned, l the ids
   that are out of reach, n how many events there were. *)
Kept(q, h, l, n) ==
  /\ Ordered(q)
  /\ Ids(q) \cap l = {}
  /\ \A t \in DOMAIN h : Once(h[t]) /\ Ids(h[t]) \cap Ids(q) = {} /\ Ids(h[t]) \cap l = {}
  /\ \A t, u \in DOMAIN h : t # u => Ids(h[t]) \cap Ids(h[u]) = {}
  /\ Ids(q) \subseteq 1 .. n /\ l \subseteq 1 .. n /\ \A t \in DOMAIN h : Ids(h[t]) \subseteq 1 .. n
  /\ \A i \in 1 .. n : i \in Ids(q) \/ i \in l \/ \E t \in DOMAIN h : i \in Ids(h[t])

(* A step of one thread that moves events between the queue, its own hands and
   the ids out of reach keeps the accounting. *)
LEMMA MoveKeeps ==
  ASSUME NEW T, NEW t \in T, NEW q, NEW q2, NEW h, NEW h2, NEW l, NEW l2, NEW n,
         DOMAIN h = T, DOMAIN h2 = T, \A u \in T \ {t} : h2[u] = h[u],
         Kept(q, h, l, n),
         Ordered(q2), Once(h2[t]), l \subseteq l2,
         Ids(q2) \cap Ids(h2[t]) = {}, Ids(q2) \cap l2 = {}, Ids(h2[t]) \cap l2 = {},
         Ids(q2) \cup Ids(h2[t]) \cup l2 = Ids(q) \cup Ids(h[t]) \cup l
  PROVE  Kept(q2, h2, l2, n)
<1> DEFINE all == Ids(q) \cup Ids(h[t]) \cup l
<1>1. \A u \in T \ {t} : h2[u] = h[u] /\ Once(h2[u]) /\ Ids(h2[u]) \cap all = {}
  BY DEF Kept
<1>2. Ids(q2) \subseteq all /\ Ids(h2[t]) \subseteq all /\ l2 \subseteq all
  OBVIOUS
<1>3. \A u \in T : Once(h2[u]) /\ Ids(h2[u]) \cap Ids(q2) = {} /\ Ids(h2[u]) \cap l2 = {}
  <2> SUFFICES ASSUME NEW u \in T
               PROVE  Once(h2[u]) /\ Ids(h2[u]) \cap Ids(q2) = {} /\ Ids(h2[u]) \cap l2 = {}
    OBVIOUS
  <2>1. CASE u = t
    BY <2>1
  <2>2. CASE u # t
    BY <1>1, <1>2, <2>2
  <2> QED
    BY <2>1, <2>2
<1>4. \A u, v \in T : u # v => Ids(h2[u]) \cap Ids(h2[v]) = {}
  <2> SUFFICES ASSUME NEW u \in T, NEW v \in T, u # v PROVE Ids(h2[u]) \cap Ids(h2[v]) = {}
    OBVIOUS
  <2>1. CASE u # t /\ v # t
    BY <1>1, <2>1 DEF Kept
  <2>2. CASE u = t
    BY <1>1, <1>2, <2>2
  <2>3. CASE v = t
    BY <1>1, <1>2, <2>3
  <2> QED
    BY <2>1, <2>2, <2>3
<1>5. ASSUME NEW i
      PROVE  i \in 1 .. n <=> i \in Ids(q2) \/ i \in l2 \/ \E u \in T : i \in Ids(h2[u])
  <2>1. i \in 1 .. n <=> i \in all \/ \E u \in T \ {t} : i \in Ids(h[u])
    BY DEF Kept
  <2>2. (\E u \in T \ {t} : i \in Ids(h[u])) <=> \E u \in T \ {t} : i \in Ids(h2[u])
    OBVIOUS
  <2>3. i \in all <=> i \in Ids(q2) \/ i \in l2 \/ i \in Ids(h2[t])
    OBVIOUS
  <2> QED
    BY <2>1, <2>2, <2>3
<1> QED
  BY <1>3, <1>4, <1>5 DEF Kept

(* So does an event that arrives at the end of the queue. *)
LEMMA ArrivalKeeps ==
  ASSUME NEW T, NEW E, NEW q \in Seq(E), NEW e \in E, NEW h, NEW l, NEW n \in Nat,
         DOMAIN h = T, Kept(q, h, l, n), e.id = n + 1
  PROVE  Kept(Append(q, e), h, l, n + 1)
<1> DEFINE q2 == Append(q, e)
<1>1. \A i : i \in 1 .. (n + 1) <=> i \in 1 .. n \/ i = n + 1
  OBVIOUS
<1>2. n + 1 \notin 1 .. n /\ \A i \in 1 .. n : i < n + 1
  OBVIOUS
<1>3. Ids(q) \subseteq 1 .. n /\ l \subseteq 1 .. n /\ \A t \in T : Ids(h[t]) \subseteq 1 .. n
  BY DEF Kept
<1>4. Ids(q2) = Ids(q) \cup {n + 1} /\ Ordered(q2)
  <2>1. \A a \in Ids(q) : a < e.id
    BY <1>2, <1>3
  <2> QED
    BY <2>1, AppendContents DEF Kept
<1>5. Ids(q2) \cap l = {} /\ \A t \in T : Ids(h[t]) \cap Ids(q2) = {}
  BY <1>2, <1>3, <1>4 DEF Kept
<1> HIDE DEF q2
<1>6. \A i : i \in 1 .. (n + 1) <=> i \in Ids(q2) \/ i \in l \/ \E t \in T : i \in Ids(h[t])
  BY <1>1, <1>4 DEF Kept
<1>7. Kept(q2, h, l, n + 1)
  BY <1>4, <1>5, <1>6 DEF Kept
<1> QED
  BY <1>7 DEF q2

(* Three lists one after the other. *)
LEMMA ThreeParts ==
  ASSUME NEW E, NEW a \in Seq(E), NEW s \in Seq(E), NEW b \in Seq(E)
  PROVE  /\ (a \o s) \o b \in Seq(E)
         /\ \A e : e \in Elems((a \o s) \o b) <=> e \in Elems(a) \/ e \in Elems(s) \/ e \in Elems(b)
         /\ \A i : i \in Ids((a \o s) \o b) <=> i \in Ids(a) \/ i \in Ids(s) \/ i \in Ids(b)
         /\ Ordered((a \o s) \o b) <=>
              /\ Ordered(a) /\ Ordered(s) /\ Ordered(b)
              /\ Before(Ids(a), Ids(s)) /\ Before(Ids(a) \cup Ids(s), Ids(b))
<1> DEFINE c == a \o s
<1>1. /\ c \in Seq(E) /\ Elems(c) = Elems(a) \cup Elems(s) /\ Ids(c) = Ids(a) \cup Ids(s)
      /\ Ordered(c) <=> Ordered(a) /\ Ordered(s) /\ Before(Ids(a), Ids(s))
  BY ConcatShape, ConcatContents
<1> HIDE DEF c
<1>2. /\ c \o b \in Seq(E) /\ Elems(c \o b) = Elems(c) \cup Elems(b) /\ Ids(c \o b) = Ids(c) \cup Ids(b)
      /\ Ordered(c \o b) <=> Ordered(c) /\ Ordered(b) /\ Before(Ids(c), Ids(b))
  BY <1>1, ConcatShape, ConcatContents, ZenonT(30)
<1>3. \A e : e \in Elems(c \o b) <=> e \in Elems(a) \/ e \in Elems(s) \/ e \in Elems(b)
  BY <1>1, <1>2
<1>4. \A i : i \in Ids(c \o b) <=> i \in Ids(a) \/ i \in Ids(s) \/ i \in Ids(b)
  BY <1>1, <1>2
<1>5. Ordered(c \o b) <=>
        /\ Ordered(a) /\ Ordered(s) /\ Ordered(b)
        /\ Before(Ids(a), Ids(s)) /\ Before(Ids(a) \cup Ids(s), Ids(b))
  BY <1>1, <1>2
<1> QED
  BY <1>2, <1>3, <1>4, <1>5 DEF c

(* A call of thread t takes the events s from between a and b in the queue,
   leaves k of them behind in their place, and ends up with h2[t] in hand; what is
   in neither is out of reach from then on. *)
Shift(T, t, E, a, s, b, k, h, h2, l, l2) ==
  /\ \A e \in E : e.id \in Nat
  /\ a \in Seq(E) /\ s \in Seq(E) /\ b \in Seq(E) /\ k \in Seq(E)
  /\ t \in T /\ DOMAIN h = T /\ DOMAIN h2 = T
  /\ \A u \in T \ {t} : h2[u] = h[u]
  /\ Ordered(k) /\ Ids(k) \subseteq Ids(s)
  /\ Once(h2[t]) /\ Ids(h2[t]) \subseteq Ids(h[t]) \cup Ids(s)
  /\ Ids(h2[t]) \cap Ids(k) = {}
  /\ l2 = l \cup ((Ids(s) \cup Ids(h[t])) \ (Ids(k) \cup Ids(h2[t])))

(* Such a step keeps the accounting. *)
LEMMA ShiftKeeps ==
  ASSUME NEW T, NEW t, NEW E, NEW a, NEW s, NEW b, NEW k, NEW h, NEW h2, NEW l, NEW l2, NEW n,
         Shift(T, t, E, a, s, b, k, h, h2, l, l2), Kept((a \o s) \o b, h, l, n)
  PROVE  Kept((a \o k) \o b, h2, l2, n)
<1> USE DEF Shift
<1> DEFINE q  == (a \o s) \o b
           q2 == (a \o k) \o b
<1>1. Ids(q) = Ids(a) \cup Ids(s) \cup Ids(b)
  <2>1. \A i : i \in Ids(q) <=> i \in Ids(a) \/ i \in Ids(s) \/ i \in Ids(b)
    BY ThreeParts
  <2> QED
    BY <2>1
<1>2. Ids(q2) = Ids(a) \cup Ids(k) \cup Ids(b)
  <2>1. \A i : i \in Ids(q2) <=> i \in Ids(a) \/ i \in Ids(k) \/ i \in Ids(b)
    BY ThreeParts
  <2> QED
    BY <2>1
<1>3. Ordered(q)
  BY DEF Kept
<1>4. /\ Ordered(a) /\ Ordered(s) /\ Ordered(b)
      /\ Before(Ids(a), Ids(s)) /\ Before(Ids(a) \cup Ids(s), Ids(b))
  BY <1>3, ThreeParts
<1>5. Before(Ids(a), Ids(k)) /\ Before(Ids(a) \cup Ids(k), Ids(b))
  BY <1>4 DEF Before
<1>6. Ordered(q2)
  BY <1>4, <1>5, ThreeParts
<1>7. Ids(s) \subseteq Nat
  <2>1. \A i \in DOMAIN s : s[i] \in E
    BY LenProperties
  <2> QED
    BY <2>1 DEF Ids
<1>8. \A i \in Nat : ~(i < i)
  OBVIOUS
<1>9. Ids(s) \cap Ids(a) = {} /\ Ids(s) \cap Ids(b) = {}
  BY <1>4, <1>7, <1>8 DEF Before
<1>10. Ids(h[t]) \cap Ids(q) = {} /\ Ids(h[t]) \cap l = {} /\ Ids(q) \cap l = {}
  BY DEF Kept
<1> HIDE DEF q, q2
<1>11. Ids(q2) \cap Ids(h2[t]) = {}
  BY <1>1, <1>2, <1>9, <1>10
<1>12. Ids(q2) \cap l2 = {}
  BY <1>1, <1>2, <1>9, <1>10
<1>13. Ids(h2[t]) \cap l2 = {}
  BY <1>1, <1>10
<1>14. Ids(q2) \cup Ids(h2[t]) \cup l2 = Ids(q) \cup Ids(h[t]) \cup l
  BY <1>1, <1>2
<1>15. Kept(q, h, l, n)
  BY DEF q
<1>16. Kept(q2, h2, l2, n)
  BY <1>6, <1>11, <1>12, <1>13, <1>14, <1>15, MoveKeeps
<1> QED
  BY <1>16 DEF q2

Single(S) == \E x : S = {x}

(* Where an id is in a list. *)
LEMMA CopiesOf ==
  ASSUME NEW x, NEW i
  PROVE  /\ Copies(x, i) = {} <=> i \notin Ids(x)
         /\ Once(x) /\ i \in Ids(x) => Single(Copies(x, i))
<1>1. Copies(x, i) = {} <=> i \notin Ids(x)
  BY DEF Copies, Ids
<1>2. ASSUME Once(x), i \in Ids(x) PROVE Single(Copies(x, i))
  <2>1. PICK k \in DOMAIN x : x[k].id = i
    BY <1>2 DEF Ids
  <2>2. \A j \in DOMAIN x : x[j].id = i <=> j = k
    BY <1>2, <2>1 DEF Once
  <2>3. Copies(x, i) = {k}
    BY <2>1, <2>2 DEF Copies
  <2> QED
    BY <2>3 DEF Single
<1> QED
  BY <1>1, <1>2

\* Exactly one of the lists x[t] has the event i, and has it once.
InOne(T, x, i) ==
  \E t \in T : Single(Copies(x[t], i)) /\ \A u \in T \ {t} : Copies(x[u], i) = {}
InNone(T, x, i) == \A t \in T : Copies(x[t], i) = {}

(* The event i is in exactly one place: p is what the session retains, m the
   native queue, s and a what each thread has returned and holds, l out of reach. *)
InOnePlace(T, p, m, s, a, l, i) ==
  \/ /\ Single(Copies(m, i))
     /\ Copies(p, i) = {} /\ InNone(T, s, i) /\ InNone(T, a, i) /\ i \notin l
  \/ /\ Single(Copies(p, i))
     /\ Copies(m, i) = {} /\ InNone(T, s, i) /\ InNone(T, a, i) /\ i \notin l
  \/ /\ InOne(T, s, i)
     /\ Copies(m, i) = {} /\ Copies(p, i) = {} /\ InNone(T, a, i) /\ i \notin l
  \/ /\ InOne(T, a, i)
     /\ Copies(m, i) = {} /\ Copies(p, i) = {} /\ InNone(T, s, i) /\ i \notin l
  \/ /\ i \in l
     /\ Copies(m, i) = {} /\ Copies(p, i) = {} /\ InNone(T, s, i) /\ InNone(T, a, i)

(* The accounting says so of every event. *)
LEMMA KeptOnce ==
  ASSUME NEW T, NEW E, \A e \in E : e.id \in Nat,
         NEW p \in Seq(E), NEW m \in Seq(E), NEW s \in [T -> Seq(E)], NEW a \in [T -> Seq(E)],
         NEW h, DOMAIN h = T, \A t \in T : h[t] = s[t] \o a[t],
         NEW l, NEW n, Kept(p \o m, h, l, n), NEW i \in 1 .. n
  PROVE  InOnePlace(T, p, m, s, a, l, i)
<1> USE DEF InOnePlace
<1>1. /\ Ids(p \o m) = Ids(p) \cup Ids(m)
      /\ Ordered(p \o m) => Ordered(p) /\ Ordered(m) /\ Before(Ids(p), Ids(m))
  BY ConcatContents
<1>2. Ordered(p) /\ Ordered(m) /\ Before(Ids(p), Ids(m))
  BY <1>1 DEF Kept
<1>3. Once(p) /\ Once(m)
  BY <1>2, OrderedOnce
<1>4. Ids(p) \cap Ids(m) = {}
  <2>1. Ids(p) \subseteq Nat
    <3>1. \A j \in DOMAIN p : p[j] \in E
      BY LenProperties
    <3> QED
      BY <3>1 DEF Ids
  <2>2. \A j \in Nat : ~(j < j)
    OBVIOUS
  <2> QED
    BY <1>2, <2>1, <2>2 DEF Before
<1>5. ASSUME NEW t \in T
      PROVE  /\ Ids(h[t]) = Ids(s[t]) \cup Ids(a[t])
             /\ Once(s[t]) /\ Once(a[t]) /\ Ids(s[t]) \cap Ids(a[t]) = {}
  <2>1. s[t] \in Seq(E) /\ a[t] \in Seq(E) /\ h[t] = s[t] \o a[t]
    OBVIOUS
  <2>2. Once(h[t])
    BY DEF Kept
  <2> QED
    BY <2>1, <2>2, ConcatContents
<1>6. /\ Ids(p) \cap l = {} /\ Ids(m) \cap l = {}
      /\ \A t \in T : Ids(h[t]) \cap Ids(p) = {} /\ Ids(h[t]) \cap Ids(m) = {} /\ Ids(h[t]) \cap l = {}
      /\ \A t, u \in T : t # u => Ids(h[t]) \cap Ids(h[u]) = {}
      /\ i \in Ids(p) \/ i \in Ids(m) \/ i \in l \/ \E t \in T : i \in Ids(h[t])
  BY <1>1 DEF Kept
<1>7. /\ Copies(p, i) = {} <=> i \notin Ids(p)
      /\ Copies(m, i) = {} <=> i \notin Ids(m)
      /\ i \in Ids(p) => Single(Copies(p, i))
      /\ i \in Ids(m) => Single(Copies(m, i))
  BY <1>3, CopiesOf
<1>8. /\ InNone(T, s, i) <=> \A t \in T : i \notin Ids(s[t])
      /\ InNone(T, a, i) <=> \A t \in T : i \notin Ids(a[t])
  BY CopiesOf DEF InNone
<1>9. CASE i \in Ids(p)
  BY <1>4, <1>5, <1>6, <1>7, <1>8, <1>9
<1>10. CASE i \in Ids(m)
  BY <1>4, <1>5, <1>6, <1>7, <1>8, <1>10
<1>11. CASE i \in l
  BY <1>5, <1>6, <1>7, <1>8, <1>11
<1>12. CASE \E t \in T : i \in Ids(h[t])
  <2>1. PICK t \in T : i \in Ids(h[t])
    BY <1>12
  <2>2. \A u \in T \ {t} : i \notin Ids(s[u]) /\ i \notin Ids(a[u])
    BY <1>5, <1>6, <2>1
  <2>3. i \notin Ids(p) /\ i \notin Ids(m) /\ i \notin l
    BY <1>6, <2>1
  <2>4. CASE i \in Ids(s[t])
    <3>1. InNone(T, a, i)
      BY <1>5, <1>8, <2>2, <2>4
    <3>2. Single(Copies(s[t], i)) /\ \A u \in T \ {t} : Copies(s[u], i) = {}
      BY <1>5, <2>2, <2>4, CopiesOf
    <3>3. InOne(T, s, i)
      BY <3>2 DEF InOne
    <3> QED
      BY <1>7, <2>3, <3>1, <3>3
  <2>5. CASE i \in Ids(a[t])
    <3>1. InNone(T, s, i)
      BY <1>5, <1>8, <2>2, <2>5
    <3>2. Single(Copies(a[t], i)) /\ \A u \in T \ {t} : Copies(a[u], i) = {}
      BY <1>5, <2>2, <2>5, CopiesOf
    <3>3. InOne(T, a, i)
      BY <3>2 DEF InOne
    <3> QED
      BY <1>7, <2>3, <3>1, <3>3
  <2> QED
    BY <1>5, <2>1, <2>4, <2>5
<1> QED
  BY <1>6, <1>9, <1>10, <1>11, <1>12

(* Named by the place they are in, the positions of an event are as many as
   there were. *)
LEMMA PlacedOne ==
  ASSUME NEW t, NEW where, NEW C
  PROVE  /\ Single(C) => Single(Placed(t, where, C))
         /\ C = {} => Placed(t, where, C) = {}
<1>1. ASSUME NEW k, C = {k} PROVE Placed(t, where, C) = {<<t, where, k>>}
  BY <1>1 DEF Placed
<1>2. ASSUME C = {} PROVE Placed(t, where, C) = {}
  BY <1>2 DEF Placed
<1> QED
  BY <1>1, <1>2 DEF Single

(* An event that one thread has, once, is in one place over all threads. *)
LEMMA PlacedInThreads ==
  ASSUME NEW T, NEW where, NEW x, NEW i
  PROVE  /\ InOne(T, x, i) => Single(PlacedAll(T, where, x, i))
         /\ InNone(T, x, i) => PlacedAll(T, where, x, i) = {}
<1> DEFINE U == PlacedAll(T, where, x, i)
<1>1. \A y : y \in U <=> \E t \in T : y \in Placed(t, where, Copies(x[t], i))
  BY DEF PlacedAll
<1> HIDE DEF U
<1>2. ASSUME InOne(T, x, i) PROVE Single(U)
  <2>1. PICK t \in T : /\ Single(Copies(x[t], i))
                       /\ \A u \in T \ {t} : Copies(x[u], i) = {}
    BY <1>2 DEF InOne
  <2>2. Single(Placed(t, where, Copies(x[t], i)))
    BY <2>1, PlacedOne
  <2>3. PICK y : Placed(t, where, Copies(x[t], i)) = {y}
    BY <2>2 DEF Single
  <2>4. \A u \in T \ {t} : Placed(u, where, Copies(x[u], i)) = {}
    BY <2>1, PlacedOne
  <2>5. U = {y}
    BY <1>1, <2>3, <2>4
  <2> QED
    BY <2>5 DEF Single
<1>3. ASSUME InNone(T, x, i) PROVE U = {}
  <2>1. \A t \in T : Placed(t, where, Copies(x[t], i)) = {}
    BY <1>3, PlacedOne DEF InNone
  <2> QED
    BY <1>1, <2>1
<1> QED
  BY <1>2, <1>3 DEF U

-----------------------------------------------------------------------------
(* Picking from a list by content *)

\* The elements of s that are in P, in the order of s.
Pick(s, P) == At(s, {i \in DOMAIN s : s[i] \in P})

(* The rank of an index in I is its place in any list of I in ascending order. *)
LEMMA AscendingRank ==
  ASSUME NEW I \in SUBSET Nat, NEW n \in Nat, NEW g \in [1 .. n -> I],
         \A j, k \in 1 .. n : j < k => g[j] < g[k],
         \A i \in I : \E k \in 1 .. n : g[k] = i
  PROVE  /\ IsFiniteSet(I) /\ Cardinality(I) = n
         /\ \A k \in 1 .. n : Pos(I, k) = g[k]
<1>1. \A j, k \in 1 .. n : g[j] = g[k] => j = k
  <2> SUFFICES ASSUME NEW j \in 1 .. n, NEW k \in 1 .. n, g[j] = g[k], j # k PROVE FALSE
    OBVIOUS
  <2>1. j < k \/ k < j
    OBVIOUS
  <2>2. g[j] \in Nat /\ g[k] \in Nat
    OBVIOUS
  <2> QED
    BY <2>1, <2>2
<1>2. g \in Bijection(1 .. n, I)
  <2>1. IsInjective(g)
    BY <1>1 DEF IsInjective
  <2>2. g \in Injection(1 .. n, I)
    BY <2>1 DEF Injection
  <2>3. g \in Surjection(1 .. n, I)
    BY DEF Surjection
  <2> QED
    BY <2>2, <2>3 DEF Bijection
<1>3. IsFiniteSet(I) /\ Cardinality(I) = n
  <2>1. IsFiniteSet(1 .. n) /\ Cardinality(1 .. n) = n
    BY FS_Interval
  <2> QED
    BY <1>2, <2>1, FS_Bijection DEF ExistsBijection
<1>4. \A k \in 1 .. n : Rank(I, g[k]) = k
  <2> SUFFICES ASSUME NEW k \in 1 .. n PROVE Rank(I, g[k]) = k
    OBVIOUS
  <2> DEFINE B == {j \in I : j <= g[k]}
             h == [j \in 1 .. k |-> g[j]]
  <2>1. \A j \in 1 .. k : j \in 1 .. n /\ g[j] \in I /\ g[j] \in Nat /\ (j = k \/ j < k)
    <3>1. 1 .. k \subseteq 1 .. n /\ I \subseteq Nat
      OBVIOUS
    <3>2. \A j \in 1 .. n : g[j] \in I
      OBVIOUS
    <3>3. \A j \in 1 .. k : j = k \/ j < k
      OBVIOUS
    <3> QED
      BY <3>1, <3>2, <3>3
  <2>2. \A j \in 1 .. k : g[j] \in B
    BY <2>1
  <2>3. \A i \in B : \E j \in 1 .. k : g[j] = i
    <3> SUFFICES ASSUME NEW i \in B PROVE \E j \in 1 .. k : g[j] = i
      OBVIOUS
    <3>1. PICK j \in 1 .. n : g[j] = i
      OBVIOUS
    <3>2. ~(k < j)
      <4>1. g[j] <= g[k] /\ g[j] \in Nat /\ g[k] \in Nat
        BY <3>1
      <4> QED
        BY <4>1
    <3>3. j \in 1 .. k
      BY <3>2
    <3> QED
      BY <3>1, <3>3
  <2>4. h \in Bijection(1 .. k, B)
    <3>1. h \in [1 .. k -> B]
      BY <2>2
    <3>2. \A i, j \in 1 .. k : h[i] = h[j] => i = j
      BY <1>1, <2>1
    <3>3. h \in Injection(1 .. k, B)
      BY <3>1, <3>2 DEF Injection, IsInjective
    <3>4. h \in Surjection(1 .. k, B)
      BY <3>1, <2>3 DEF Surjection
    <3> QED
      BY <3>3, <3>4 DEF Bijection
  <2>5. IsFiniteSet(1 .. k) /\ Cardinality(1 .. k) = k
    <3>1. k \in Nat /\ 1 \in Int /\ k \in Int
      OBVIOUS
    <3> QED
      BY <3>1, FS_Interval
  <2>6. Cardinality(B) = k
    BY <2>4, <2>5, FS_Bijection DEF ExistsBijection
  <2> QED
    BY <2>6 DEF Rank
<1>5. ASSUME NEW k \in 1 .. n PROVE Pos(I, k) = g[k]
  <2>1. g[k] \in I /\ Rank(I, g[k]) = k
    BY <1>4
  <2>2. Pos(I, Rank(I, g[k])) = g[k]
    BY <1>3, <2>1, PosProperties
  <2> QED
    BY <2>1, <2>2
<1> QED
  BY <1>3, <1>5

(* At lists the elements at the indices that an ascending list of them names. *)
LEMMA AscendingAt ==
  ASSUME NEW s, NEW I \in SUBSET Nat, NEW n \in Nat, NEW g \in [1 .. n -> I],
         \A j, k \in 1 .. n : j < k => g[j] < g[k],
         \A i \in I : \E k \in 1 .. n : g[k] = i
  PROVE  At(s, I) = [k \in 1 .. n |-> s[g[k]]]
<1>1. Cardinality(I) = n /\ \A k \in 1 .. n : Pos(I, k) = g[k]
  BY AscendingRank
<1>2. At(s, I) = [k \in 1 .. Cardinality(I) |-> s[Pos(I, k)]]
  BY DEF At, Pos
<1> QED
  BY <1>1, <1>2

-----------------------------------------------------------------------------
(* What is picked from a list is a list, whose elements are the ones asked for. *)
LEMMA PickShape ==
  ASSUME NEW E, NEW s \in Seq(E), NEW P
  PROVE  /\ Pick(s, P) \in Seq(E)
         /\ {i \in DOMAIN s : s[i] \in P} \in SUBSET (DOMAIN s)
         /\ Elems(Pick(s, P)) = Elems(s) \cap P
<1> DEFINE I == {i \in DOMAIN s : s[i] \in P}
<1>1. I \in SUBSET (DOMAIN s)
  OBVIOUS
<1>2. At(s, I) \in Seq(E) /\ Elems(At(s, I)) = {s[i] : i \in I}
  BY <1>1, AtProperties
<1>3. {s[i] : i \in I} = Elems(s) \cap P
  BY DEF Elems
<1> QED
  BY <1>1, <1>2, <1>3 DEF Pick

\* The indices in J, counted behind the first n.
Behind(n, J) == {n + j : j \in J}

\* The elements of q at the indices in I, then those at the ones in J behind n.
AtBoth(q, n, I, J) ==
  [k \in 1 .. (Cardinality(I) + Cardinality(J)) |->
     q[IF k <= Cardinality(I) THEN Pos(I, k) ELSE n + Pos(J, k - Cardinality(I))]]

(* The ascending list of indices of one set and those of another behind it. *)
LEMMA AtBehind ==
  ASSUME NEW q, NEW n \in Nat, NEW I \in SUBSET (1 .. n), NEW J \in SUBSET (Nat \ {0}), IsFiniteSet(J)
  PROVE  At(q, I \cup Behind(n, J)) = AtBoth(q, n, I, J)
<1>1. I \in SUBSET Nat /\ IsFiniteSet(I)
  <2>1. IsFiniteSet(1 .. n)
    BY FS_Interval
  <2>2. I \in SUBSET (1 .. n)
    OBVIOUS
  <2>3. IsFiniteSet(I)
    BY <2>1, <2>2, FS_Subset
  <2>4. 1 .. n \subseteq Nat
    OBVIOUS
  <2> QED
    BY <2>2, <2>3, <2>4
<1>2. J \in SUBSET Nat /\ \A j \in J : j \in Nat /\ j > 0
  <2>1. \A j \in Nat \ {0} : j \in Nat /\ j > 0
    OBVIOUS
  <2> QED
    BY <2>1
<1>3. PICK a \in Nat, b \in Nat : a = Cardinality(I) /\ b = Cardinality(J)
  BY <1>1, FS_CardinalityType
<1>14. PICK K : K = I \cup Behind(n, J)
  OBVIOUS
<1> DEFINE g == [k \in 1 .. (a + b) |-> IF k <= a THEN Pos(I, k) ELSE n + Pos(J, k - a)]
<1>0. /\ K \in SUBSET Nat /\ I \subseteq K /\ \A j \in J : n + j \in K
      /\ \A i \in K : i \in I \/ \E j \in J : i = n + j
  <2>1. \A i : i \in K <=> i \in I \/ \E j \in J : i = n + j
    BY <1>14 DEF Behind
  <2>2. \A j \in J : n + j \in Nat
    BY <1>2
  <2>3. K \in SUBSET Nat
    BY <2>1, <2>2, <1>1
  <2> QED
    BY <2>1, <2>3
<1>4. /\ \A k \in 1 .. a : Pos(I, k) \in I
      /\ \A i \in I : Rank(I, i) \in 1 .. a /\ Pos(I, Rank(I, i)) = i
      /\ \A j, k \in 1 .. a : j < k => Pos(I, j) < Pos(I, k)
  BY <1>1, <1>3, PosProperties
<1>5. /\ \A k \in 1 .. b : Pos(J, k) \in J
      /\ \A i \in J : Rank(J, i) \in 1 .. b /\ Pos(J, Rank(J, i)) = i
      /\ \A j, k \in 1 .. b : j < k => Pos(J, j) < Pos(J, k)
  BY <1>2, <1>3, PosProperties
<1>6. /\ \A k \in 1 .. a : k \in 1 .. (a + b) /\ g[k] = Pos(I, k)
      /\ \A k \in 1 .. b : a + k \in 1 .. (a + b) /\ g[a + k] = n + Pos(J, k)
  <2>1. \A k \in 1 .. a : k \in 1 .. (a + b) /\ k <= a
    BY <1>3
  <2>2. \A k \in 1 .. b : a + k \in 1 .. (a + b) /\ ~(a + k <= a) /\ (a + k) - a = k
    BY <1>3
  <2> QED
    BY <2>1, <2>2
<1>7. \A k \in 1 .. (a + b) : k \in 1 .. a \/ \E j \in 1 .. b : k = a + j
  <2> SUFFICES ASSUME NEW k \in 1 .. (a + b), k \notin 1 .. a PROVE \E j \in 1 .. b : k = a + j
    OBVIOUS
  <2>1. k - a \in 1 .. b /\ k = a + (k - a)
    BY <1>3
  <2> QED
    BY <2>1
<1>8. DOMAIN g = 1 .. (a + b)
  OBVIOUS
<1> HIDE DEF g
<1>9. \A k \in 1 .. (a + b) : g[k] \in K
  <2> SUFFICES ASSUME NEW k \in 1 .. (a + b) PROVE g[k] \in K
    OBVIOUS
  <2>1. CASE k \in 1 .. a
    BY <2>1, <1>0, <1>4, <1>6
  <2>2. CASE \E j \in 1 .. b : k = a + j
    <3>1. PICK j \in 1 .. b : k = a + j
      BY <2>2
    <3>2. Pos(J, j) \in J /\ g[k] = n + Pos(J, j)
      BY <3>1, <1>5, <1>6
    <3> QED
      BY <3>2, <1>0
  <2> QED
    BY <2>1, <2>2, <1>7
<1>10. \A j, k \in 1 .. (a + b) : j < k => g[j] < g[k]
  <2> SUFFICES ASSUME NEW j \in 1 .. (a + b), NEW k \in 1 .. (a + b), j < k PROVE g[j] < g[k]
    OBVIOUS
  <2>1. CASE j \in 1 .. a /\ k \in 1 .. a
    BY <2>1, <1>4, <1>6
  <2>2. CASE j \in 1 .. a /\ k \notin 1 .. a
    <3>1. PICK l \in 1 .. b : k = a + l
      BY <2>2, <1>7
    <3>2. g[j] \in I /\ g[k] = n + Pos(J, l) /\ Pos(J, l) \in J
      BY <2>2, <3>1, <1>4, <1>5, <1>6
    <3>3. g[j] \in 1 .. n /\ Pos(J, l) \in Nat /\ Pos(J, l) > 0
      BY <3>2, <1>2
    <3> QED
      BY <3>2, <3>3
  <2>3. CASE j \notin 1 .. a
    <3>1. PICK i \in 1 .. b : j = a + i
      BY <2>3, <1>7
    <3>2. k \notin 1 .. a
      BY <2>3, <1>3
    <3>3. PICK l \in 1 .. b : k = a + l
      BY <3>2, <1>7
    <3>4. i < l
      BY <3>1, <3>3, <1>3
    <3>5. Pos(J, i) < Pos(J, l) /\ Pos(J, i) \in Nat /\ Pos(J, l) \in Nat
      BY <3>4, <1>2, <1>5
    <3>6. g[j] = n + Pos(J, i) /\ g[k] = n + Pos(J, l)
      BY <3>1, <3>3, <1>6
    <3> QED
      BY <3>5, <3>6
  <2> QED
    BY <2>1, <2>2, <2>3
<1>11. \A i \in K : \E k \in 1 .. (a + b) : g[k] = i
  <2> SUFFICES ASSUME NEW i \in K PROVE \E k \in 1 .. (a + b) : g[k] = i
    OBVIOUS
  <2>1. CASE i \in I
    <3>1. Rank(I, i) \in 1 .. a /\ g[Rank(I, i)] = i
      BY <2>1, <1>4, <1>6
    <3> QED
      BY <3>1, <1>6
  <2>2. CASE \E j \in J : i = n + j
    <3>1. PICK j \in J : i = n + j
      BY <2>2
    <3>2. Rank(J, j) \in 1 .. b /\ g[a + Rank(J, j)] = n + j
      BY <1>5, <1>6
    <3> QED
      BY <3>1, <3>2, <1>6
  <2> QED
    BY <2>1, <2>2, <1>0
<1>12. At(q, K) = [k \in 1 .. (a + b) |-> q[g[k]]]
  <2>1. PICK m, h : m \in Nat /\ m = a + b /\ h = g
    BY <1>3
  <2>2. h \in [1 .. m -> K]
    BY <2>1, <1>9 DEF g
  <2>3. /\ \A j, k \in 1 .. m : j < k => h[j] < h[k]
        /\ \A i \in K : \E k \in 1 .. m : h[k] = i
    BY <2>1, <1>10, <1>11
  <2>4. At(q, K) = [k \in 1 .. m |-> q[h[k]]]
    BY <1>0, <2>1, <2>2, <2>3, AscendingAt
  <2> QED
    BY <2>1, <2>4
<1>13. At(q, K) = [k \in 1 .. (a + b) |-> q[IF k <= a THEN Pos(I, k) ELSE n + Pos(J, k - a)]]
  BY <1>12 DEF g
<1> QED
  BY <1>3, <1>13, <1>14 DEF AtBoth

(* A list is two others, one after the other, when its parts are. *)
LEMMA ConcatParts ==
  ASSUME NEW E, NEW x \in Seq(E), NEW y \in Seq(E), NEW z \in Seq(E), Len(z) = Len(x) + Len(y),
         \A k \in 1 .. Len(x) : z[k] = x[k],
         \A k \in 1 .. Len(y) : z[Len(x) + k] = y[k]
  PROVE  z = x \o y
<1>1. /\ x \o y \in Seq(E)
      /\ \A k \in 1 .. Len(x) : (x \o y)[k] = x[k]
      /\ \A k \in 1 .. Len(y) : (x \o y)[Len(x) + k] = y[k]
      /\ \A k \in 1 .. (Len(x) + Len(y)) : k \in 1 .. Len(x) \/ \E j \in 1 .. Len(y) : k = Len(x) + j
  BY ConcatShape
<1>2. Len(x \o y) = Len(x) + Len(y)
  BY ConcatProperties
<1>3. \A k \in 1 .. Len(z) : z[k] = (x \o y)[k]
  BY <1>1
<1> QED
  BY <1>1, <1>2, <1>3, SeqEqual

(* The elements of two lists, one after the other, at indices of both. *)
LEMMA AtConcat ==
  ASSUME NEW E, NEW s \in Seq(E), NEW t \in Seq(E),
         NEW I \in SUBSET (DOMAIN s), NEW J \in SUBSET (DOMAIN t)
  PROVE  At(s \o t, I \cup Behind(Len(s), J)) = At(s, I) \o At(t, J)
<1>1. PICK n \in Nat, m \in Nat, q \in Seq(E) : n = Len(s) /\ m = Len(t) /\ q = s \o t
  BY ConcatShape
<1>2. /\ DOMAIN s = 1 .. n /\ DOMAIN t = 1 .. m /\ DOMAIN q = 1 .. (n + m)
      /\ \A i \in 1 .. n : q[i] = s[i] /\ i \in 1 .. (n + m)
      /\ \A i \in 1 .. m : q[n + i] = t[i] /\ n + i \in 1 .. (n + m)
  BY <1>1, ConcatShape
<1>3. PICK a, b, x, y, z, K : /\ a = Cardinality(I) /\ b = Cardinality(J)
                              /\ x = At(s, I) /\ y = At(t, J) /\ z = At(q, K)
                              /\ K = I \cup Behind(n, J)
  OBVIOUS
<1>4. /\ IsFiniteSet(J) /\ J \in SUBSET (Nat \ {0}) /\ I \in SUBSET (1 .. n)
      /\ IsFiniteSet(I) /\ I \in SUBSET Nat /\ J \in SUBSET Nat
      /\ K \in SUBSET (DOMAIN q) /\ a \in Nat /\ b \in Nat
  <2>1. IsFiniteSet(J) /\ IsFiniteSet(I) /\ I \in SUBSET Nat /\ J \in SUBSET Nat /\ a \in Nat /\ b \in Nat
    BY <1>3, IndexSet
  <2>2. 1 .. m \subseteq Nat \ {0}
    OBVIOUS
  <2>3. J \in SUBSET (Nat \ {0}) /\ I \in SUBSET (1 .. n)
    BY <1>2, <2>2
  <2>4. K \in SUBSET (1 .. (n + m))
    BY <1>2, <1>3 DEF Behind
  <2> QED
    BY <1>2, <2>1, <2>3, <2>4
<1>5. z = [k \in 1 .. (a + b) |-> q[IF k <= a THEN Pos(I, k) ELSE n + Pos(J, k - a)]]
  <2>1. At(q, I \cup Behind(n, J)) = AtBoth(q, n, I, J)
    BY <1>4, AtBehind
  <2> QED
    BY <1>3, <2>1 DEF AtBoth
<1>8. /\ \A k \in 1 .. a : Pos(I, k) \in I
      /\ \A k \in 1 .. b : Pos(J, k) \in J
  BY <1>3, <1>4, PosProperties
<1>6. x = [k \in 1 .. a |-> s[Pos(I, k)]] /\ y = [k \in 1 .. b |-> t[Pos(J, k)]]
  BY <1>3 DEF At, Pos
<1>7. x \in Seq(E) /\ y \in Seq(E) /\ z \in Seq(E) /\ Len(x) = a /\ Len(y) = b
  BY <1>3, <1>4, AtProperties
<1>9. Len(z) = a + b
  <2>1. DOMAIN z = 1 .. (a + b)
    BY <1>5
  <2> QED
    BY <1>4, <1>7, <2>1, LenProperties
<1>10. ASSUME NEW k \in 1 .. a PROVE z[k] = x[k]
  <2>1. k \in 1 .. (a + b) /\ k <= a
    BY <1>4
  <2>2. z[k] = q[Pos(I, k)] /\ Pos(I, k) \in 1 .. n
    BY <2>1, <1>4, <1>5, <1>8
  <2> QED
    BY <2>2, <1>2, <1>6
<1>11. ASSUME NEW k \in 1 .. b PROVE z[a + k] = y[k]
  <2>1. a + k \in 1 .. (a + b) /\ ~(a + k <= a) /\ (a + k) - a = k
    BY <1>4
  <2>2. z[a + k] = q[n + Pos(J, k)] /\ Pos(J, k) \in 1 .. m
    BY <2>1, <1>2, <1>5, <1>8
  <2> QED
    BY <2>2, <1>2, <1>6
<1>12. z = x \o y
  BY <1>7, <1>9, <1>10, <1>11, ConcatParts, ZenonT(30)
<1> QED
  BY <1>1, <1>3, <1>12

(* Picking from two lists, one after the other. *)
LEMMA PickConcat ==
  ASSUME NEW E, NEW s \in Seq(E), NEW t \in Seq(E), NEW P
  PROVE  Pick(s \o t, P) = Pick(s, P) \o Pick(t, P)
<1>1. PICK q, I, J, K : /\ q = s \o t
                        /\ I = {i \in DOMAIN s : s[i] \in P}
                        /\ J = {i \in DOMAIN t : t[i] \in P}
                        /\ K = {i \in DOMAIN q : q[i] \in P}
  OBVIOUS
<1>2. PICK n \in Nat, m \in Nat : n = Len(s) /\ m = Len(t)
  BY ConcatShape
<1>3. /\ DOMAIN s = 1 .. n /\ DOMAIN t = 1 .. m /\ DOMAIN q = 1 .. (n + m)
      /\ \A i \in 1 .. n : q[i] = s[i] /\ i \in 1 .. (n + m)
      /\ \A i \in 1 .. m : q[n + i] = t[i] /\ n + i \in 1 .. (n + m)
      /\ \A i \in 1 .. (n + m) : i \in 1 .. n \/ \E j \in 1 .. m : i = n + j
  BY <1>1, <1>2, ConcatShape
<1>4. K = I \cup Behind(n, J)
  <2>1. ASSUME NEW i \in I PROVE i \in K
    BY <1>1, <1>3, <2>1
  <2>2. ASSUME NEW j \in J PROVE n + j \in K
    <3>1. j \in 1 .. m /\ t[j] \in P
      BY <1>1, <1>3
    <3> QED
      BY <1>1, <1>3, <2>2, <3>1
  <2>3. ASSUME NEW i \in K, i \notin I PROVE \E j \in J : i = n + j
    <3>1. i \in 1 .. (n + m) /\ q[i] \in P
      BY <1>1, <1>3, <2>3
    <3>2. i \notin 1 .. n
      BY <1>1, <1>3, <2>3, <3>1
    <3>3. PICK j \in 1 .. m : i = n + j
      BY <1>3, <3>1, <3>2
    <3>4. j \in J
      BY <1>1, <1>3, <3>1, <3>3
    <3> QED
      BY <3>3, <3>4
  <2> QED
    BY <2>1, <2>2, <2>3 DEF Behind
<1>5. At(q, K) = At(s, I) \o At(t, J)
  <2>1. I \in SUBSET (DOMAIN s) /\ J \in SUBSET (DOMAIN t)
    BY <1>1
  <2>2. At(s \o t, I \cup Behind(Len(s), J)) = At(s, I) \o At(t, J)
    BY <2>1, AtConcat
  <2> QED
    BY <1>1, <1>2, <1>4, <2>2
<1> QED
  BY <1>1, <1>5 DEF Pick

(* Picking again from what was picked. *)
LEMMA PickPick ==
  ASSUME NEW E, NEW s \in Seq(E), NEW Q, NEW P \in SUBSET Q
  PROVE  Pick(Pick(s, Q), P) = Pick(s, P)
<1>1. PICK I, K, x, J : /\ I = {i \in DOMAIN s : s[i] \in Q} /\ K = {i \in DOMAIN s : s[i] \in P}
                        /\ x = At(s, I) /\ J = {k \in DOMAIN x : x[k] \in P}
  OBVIOUS
<1>2. /\ I \in SUBSET Nat /\ IsFiniteSet(I) /\ K \in SUBSET Nat /\ x \in Seq(E)
      /\ J \in SUBSET Nat /\ IsFiniteSet(J)
  <2>1. I \in SUBSET (DOMAIN s) /\ K \in SUBSET (DOMAIN s)
    BY <1>1
  <2>2. x \in Seq(E) /\ I \in SUBSET Nat /\ IsFiniteSet(I) /\ K \in SUBSET Nat
    BY <1>1, <2>1, IndexSet, AtProperties
  <2>3. J \in SUBSET (DOMAIN x)
    BY <1>1
  <2> QED
    BY <2>2, <2>3, IndexSet
<1>3. PICK n \in Nat, m \in Nat : n = Cardinality(J) /\ m = Cardinality(I)
  BY <1>2, FS_CardinalityType
<1>4. /\ \A k \in 1 .. m : Pos(I, k) \in I
      /\ \A i \in I : Rank(I, i) \in 1 .. m /\ Pos(I, Rank(I, i)) = i
      /\ \A j, k \in 1 .. m : j < k => Pos(I, j) < Pos(I, k)
  BY <1>2, <1>3, PosProperties
<1>5. /\ \A k \in 1 .. n : Pos(J, k) \in J
      /\ \A i \in J : Rank(J, i) \in 1 .. n /\ Pos(J, Rank(J, i)) = i
      /\ \A j, k \in 1 .. n : j < k => Pos(J, j) < Pos(J, k)
  BY <1>2, <1>3, PosProperties
<1>6. x = [k \in 1 .. m |-> s[Pos(I, k)]]
  BY <1>1, <1>3 DEF At, Pos
<1>7. At(x, J) = [k \in 1 .. n |-> x[Pos(J, k)]]
  BY <1>3 DEF At, Pos
<1>8. J \in SUBSET (1 .. m) /\ \A k \in 1 .. m : k \in J <=> s[Pos(I, k)] \in P
  BY <1>1, <1>6
<1>9. PICK g : g = [k \in 1 .. n |-> Pos(I, Pos(J, k))]
  OBVIOUS
<1>10. g \in [1 .. n -> K]
  <2>1. ASSUME NEW k \in 1 .. n PROVE g[k] \in K
    <3>1. Pos(J, k) \in J /\ Pos(J, k) \in 1 .. m
      BY <1>5, <1>8
    <3>2. Pos(I, Pos(J, k)) \in I /\ s[Pos(I, Pos(J, k))] \in P
      BY <3>1, <1>4, <1>8
    <3> QED
      BY <3>2, <1>1, <1>9
  <2> QED
    BY <2>1, <1>9
<1>11. \A j, k \in 1 .. n : j < k => g[j] < g[k]
  <2> SUFFICES ASSUME NEW j \in 1 .. n, NEW k \in 1 .. n, j < k PROVE g[j] < g[k]
    OBVIOUS
  <2>1. Pos(J, j) \in 1 .. m /\ Pos(J, k) \in 1 .. m /\ Pos(J, j) < Pos(J, k)
    BY <1>5, <1>8
  <2> QED
    BY <2>1, <1>4, <1>9
<1>12. \A i \in K : \E k \in 1 .. n : g[k] = i
  <2> SUFFICES ASSUME NEW i \in K PROVE \E k \in 1 .. n : g[k] = i
    OBVIOUS
  <2>1. i \in I /\ s[i] \in P
    BY <1>1
  <2>2. PICK j \in 1 .. m : Pos(I, j) = i
    BY <2>1, <1>4
  <2>3. j \in J
    BY <2>1, <2>2, <1>8
  <2>4. PICK k \in 1 .. n : Pos(J, k) = j
    BY <2>3, <1>5
  <2> QED
    BY <2>2, <2>4, <1>9
<1>13. At(s, K) = [k \in 1 .. n |-> s[g[k]]]
  BY <1>2, <1>10, <1>11, <1>12, AscendingAt, SMTT(60)
<1>14. At(x, J) = At(s, K)
  <2>1. ASSUME NEW k \in 1 .. n PROVE x[Pos(J, k)] = s[g[k]]
    BY <1>5, <1>6, <1>8, <1>9
  <2> QED
    BY <2>1, <1>7, <1>13
<1>15. Pick(s, Q) = x /\ Pick(s, P) = At(s, K) /\ Pick(x, P) = At(x, J)
  BY <1>1 DEF Pick
<1> QED
  BY <1>14, <1>15

(* Picking from a list all of whose elements are asked for, or none. *)
LEMMA PickAll ==
  ASSUME NEW E, NEW s \in Seq(E), NEW P
  PROVE  /\ (\A i \in DOMAIN s : s[i] \in P) => Pick(s, P) = s
         /\ (\A i \in DOMAIN s : s[i] \notin P) => Pick(s, P) = <<>>
<1>1. PICK n \in Nat, I \in SUBSET (DOMAIN s) :
        n = Len(s) /\ I = {i \in DOMAIN s : s[i] \in P} /\ DOMAIN s = 1 .. n
  BY LenProperties
<1>2. ASSUME \A i \in DOMAIN s : s[i] \in P PROVE Pick(s, P) = s
  <2>1. I = 1 .. n
    BY <1>1, <1>2
  <2>2. PICK g : g = [k \in 1 .. n |-> k]
    OBVIOUS
  <2>3. /\ I \in SUBSET Nat /\ g \in [1 .. n -> I]
        /\ \A j, k \in 1 .. n : j < k => g[j] < g[k]
        /\ \A i \in I : \E k \in 1 .. n : g[k] = i
    <3>1. \A k \in 1 .. n : k \in Nat /\ g[k] = k
      BY <2>2
    <3> QED
      BY <2>1, <2>2, <3>1
  <2>4. At(s, I) = [k \in 1 .. n |-> s[g[k]]]
    <3>1. PICK J \in SUBSET Nat : J = I
      BY <2>3
    <3>2. PICK h \in [1 .. n -> J] : h = g
      BY <2>3, <3>1
    <3>3. /\ \A j, k \in 1 .. n : j < k => h[j] < h[k]
          /\ \A i \in J : \E k \in 1 .. n : h[k] = i
      BY <2>3, <3>1, <3>2
    <3>4. At(s, J) = [k \in 1 .. n |-> s[h[k]]]
      BY <3>3, AscendingAt
    <3> QED
      BY <3>1, <3>2, <3>4
  <2>5. At(s, I) = s
    <3>1. s = [k \in 1 .. n |-> s[k]]
      BY <1>1, LenProperties
    <3> QED
      BY <2>2, <2>4, <3>1
  <2> QED
    BY <1>1, <2>5 DEF Pick
<1>3. ASSUME \A i \in DOMAIN s : s[i] \notin P PROVE Pick(s, P) = <<>>
  <2>1. I = {}
    BY <1>1, <1>3
  <2>2. Cardinality(I) = 0
    BY <2>1, FS_EmptySet
  <2>3. At(s, I) = <<>>
    BY <2>2 DEF At
  <2> QED
    BY <1>1, <2>3 DEF Pick
<1> QED
  BY <1>2, <1>3

(* Picking from a list with one element more. *)
LEMMA PickAppend ==
  ASSUME NEW E, NEW s \in Seq(E), NEW e \in E, NEW P
  PROVE  Pick(Append(s, e), P) = IF e \in P THEN Append(Pick(s, P), e) ELSE Pick(s, P)
<1>1. <<e>> \in Seq(E) /\ DOMAIN <<e>> = {1} /\ <<e>>[1] = e
  OBVIOUS
<1>2. Pick(Append(s, e), P) = Pick(s, P) \o Pick(<<e>>, P)
  <2>1. PICK u \in Seq(E) : u = <<e>>
    BY <1>1
  <2>2. Append(s, e) = s \o u
    BY <2>1, AppendIsConcat
  <2>3. Pick(s \o u, P) = Pick(s, P) \o Pick(u, P)
    BY PickConcat
  <2> QED
    BY <2>1, <2>2, <2>3
<1>3. Pick(s, P) \in Seq(E)
  BY PickShape
<1>4. CASE e \in P
  <2>1. Pick(<<e>>, P) = <<e>>
    BY <1>1, <1>4, PickAll
  <2> QED
    BY <1>2, <1>3, <1>4, <2>1, AppendIsConcat
<1>5. CASE e \notin P
  <2>1. Pick(<<e>>, P) = <<>>
    BY <1>1, <1>5, PickAll
  <2> QED
    BY <1>2, <1>3, <1>5, <2>1, ConcatEmptySeq
<1> QED
  BY <1>4, <1>5

(* Picking from the head of a list and from the rest. *)
LEMMA PickHead ==
  ASSUME NEW E, NEW s \in Seq(E), s # <<>>, NEW P
  PROVE  /\ Head(s) \in E /\ Tail(s) \in Seq(E) /\ s = <<Head(s)>> \o Tail(s)
         /\ Pick(s, P) = IF Head(s) \in P THEN <<Head(s)>> \o Pick(Tail(s), P) ELSE Pick(Tail(s), P)
<1>1. /\ Head(s) \in E /\ Tail(s) \in Seq(E) /\ Len(Tail(s)) = Len(s) - 1
      /\ \A i \in 1 .. Len(Tail(s)) : Tail(s)[i] = s[i + 1]
  BY HeadTailProperties
<1>2. PICK e \in E, t \in Seq(E), n \in Nat : e = Head(s) /\ t = Tail(s) /\ n = Len(t)
  BY <1>1, LenProperties
<1>3. <<e>> \in Seq(E) /\ DOMAIN <<e>> = {1} /\ <<e>>[1] = e /\ Len(<<e>>) = 1
  OBVIOUS
<1>4. s = <<e>> \o t
  <2>1. Len(s) = 1 + n
    BY <1>1, <1>2, LenProperties
  <2>2. \A k \in 1 .. 1 : s[k] = <<e>>[k]
    BY <1>2, <1>3
  <2>3. \A k \in 1 .. n : s[1 + k] = t[k]
    BY <1>1, <1>2
  <2> QED
    BY <1>2, <1>3, <2>1, <2>2, <2>3, ConcatParts
<1>5. Pick(s, P) = Pick(<<e>>, P) \o Pick(t, P)
  <2>1. PICK u \in Seq(E) : u = <<e>>
    BY <1>3
  <2>2. Pick(u \o t, P) = Pick(u, P) \o Pick(t, P)
    BY PickConcat
  <2> QED
    BY <1>4, <2>1, <2>2
<1>6. Pick(<<e>>, P) = IF e \in P THEN <<e>> ELSE <<>>
  BY <1>3, PickAll
<1>7. Pick(t, P) \in Seq(E)
  BY PickShape
<1> QED
  BY <1>1, <1>2, <1>4, <1>5, <1>6, <1>7, ConcatEmptySeq

=============================================================================
