--------------------------- MODULE LinkedListProofs ---------------------------
(***************************************************************************)
(* What the operators of LinkedLists compute on a list that ends: which    *)
(* nodes and values it has, how both change when the head moves, and that  *)
(* links elsewhere do not matter.  The proofs number the nodes of a list:  *)
(* a list is a piece of some length that leads to null.                    *)
(***************************************************************************)
EXTENDS LinkedLists, TLAPS, FiniteSetTheorems, SequenceTheorems, WellFoundedInduction, NaturalsInduction

\* The L nodes s of a piece of list that starts at h and leads to e.
Segment(next, h, e, L, s) ==
    /\ L \in Nat
    /\ s \in [1 .. L -> DOMAIN next]
    /\ \A i, j \in 1 .. L : s[i] = s[j] => i = j
    /\ h = IF L = 0 THEN e ELSE s[1]
    /\ \A i \in 1 .. L : next[s[i]] = IF i = L THEN e ELSE s[i + 1]

Places(L, s) == {s[i] : i \in 1 .. L}

\* The heap is finite, and the list that starts at h ends.
IsList(next, null, h) == /\ IsFiniteSet(DOMAIN next)
                         /\ null \notin DOMAIN next
                         /\ \E L, s : Segment(next, h, null, L, s)
-------------------------------------------------------------------------------
(* Numbers. *)

\* A set of numbers that is not empty has a least element.
LEMMA LeastNumber ==
  ASSUME NEW S \in SUBSET Nat, S # {}
  PROVE  \E n \in S : \A m \in S : n <= m
<1>1. IsWellFoundedOn(OpToRel(<, Nat), Nat)
  BY NatLessThanWellFounded
<1>2. PICK n \in S : \A m \in S : ~(<<m, n>> \in OpToRel(<, Nat))
  BY <1>1, WFMin
<1>3. \A m \in S : ~(m < n)
  BY <1>2 DEF OpToRel
<1> QED
  BY <1>3

\* Induction, over a set of numbers.
LEMMA SetInduction ==
  ASSUME NEW S, 0 \in S, \A k \in Nat : k \in S => k + 1 \in S
  PROVE  \A k \in Nat : k \in S
<1> DEFINE B == {k \in Nat : k \notin S}
<1> SUFFICES ASSUME B # {} PROVE FALSE
  OBVIOUS
<1>1. PICK n \in B : \A m \in B : n <= m
  <2>1. B \in SUBSET Nat
    OBVIOUS
  <2> HIDE DEF B
  <2> QED
    BY <2>1, LeastNumber
<1>2. n \in Nat /\ n \notin S /\ n # 0
  OBVIOUS
<1>3. n - 1 \in Nat /\ (n - 1) + 1 = n /\ n - 1 \notin B
  BY <1>1, <1>2
<1>4. n - 1 \in S
  BY <1>3
<1> QED
  BY <1>2, <1>3, <1>4
-------------------------------------------------------------------------------
(* What the definitions of LinkedLists say of a list. *)

\* The equation of the recursive function in Path.
WalkOf(next, null, h, P) ==
    [k \in 0 .. Cardinality(DOMAIN next) |->
        IF k = 0 THEN h ELSE IF P[k - 1] = null THEN null ELSE next[P[k - 1]]]

\* Path satisfies its equation, when some function does.
LEMMA PathEquation ==
  ASSUME NEW next, NEW null, NEW h, NEW w, w = WalkOf(next, null, h, w)
  PROVE  Path(next, null, h) = WalkOf(next, null, h, Path(next, null, h))
  BY Zenon DEF Path, WalkOf

\* A walk goes through the places of a list.
LEMMA WalkIs ==
  ASSUME NEW next, NEW null, null \notin DOMAIN next, NEW h, NEW L, NEW s, Segment(next, h, null, L, s),
         Cardinality(DOMAIN next) \in Nat, L <= Cardinality(DOMAIN next),
         NEW P, P = WalkOf(next, null, h, P)
  PROVE  \A k \in 0 .. Cardinality(DOMAIN next) : P[k] = IF k < L THEN s[k + 1] ELSE null
<1> DEFINE N == Cardinality(DOMAIN next)
           D == DOMAIN next
<1>3. /\ L \in Nat /\ s \in [1 .. L -> D] /\ null \notin D
      /\ h = IF L = 0 THEN null ELSE s[1]
      /\ \A i \in 1 .. L : next[s[i]] = IF i = L THEN null ELSE s[i + 1]
  BY DEF Segment
<1>4. \A k \in 0 .. N : P[k] = IF k = 0 THEN h ELSE IF P[k - 1] = null THEN null ELSE next[P[k - 1]]
  BY DEF WalkOf
<1>5. N \in Nat /\ L <= N
  OBVIOUS
<1> HIDE DEF N, D
<1> DEFINE S == {k \in Nat : k <= N => P[k] = IF k < L THEN s[k + 1] ELSE null}
<1>1. 0 \in S
  BY <1>3, <1>4, <1>5
<1>2. ASSUME NEW k \in Nat, k \in S PROVE k + 1 \in S
  <2> SUFFICES ASSUME k + 1 <= N PROVE P[k + 1] = IF k + 1 < L THEN s[k + 2] ELSE null
    OBVIOUS
  <2>1. /\ k + 1 \in 0 .. N /\ k \in 0 .. N /\ k + 1 # 0 /\ (k + 1) - 1 = k
        /\ P[k] = IF k < L THEN s[k + 1] ELSE null
    BY <1>2, <1>5
  <2> HIDE DEF S
  <2>2. P[k + 1] = IF P[k] = null THEN null ELSE next[P[k]]
    BY <1>4, <2>1
  <2>3. CASE k < L
    <3>1. P[k] = s[k + 1] /\ k + 1 \in 1 .. L /\ s[k + 1] \in D
      BY <1>3, <2>1, <2>3
    <3>2. P[k + 1] = next[s[k + 1]]
      BY <1>3, <2>2, <3>1
    <3>3. next[s[k + 1]] = IF k + 1 = L THEN null ELSE s[k + 2]
      <4>1. (k + 1) + 1 = k + 2
        OBVIOUS
      <4> QED
        BY <1>3, <3>1, <4>1
    <3>4. k + 1 < L <=> k + 1 # L
      BY <1>3, <2>3
    <3> QED
      BY <3>2, <3>3, <3>4
  <2>4. CASE ~(k < L)
    <3>1. ~(k + 1 < L)
      BY <1>3, <2>4
    <3> QED
      BY <2>1, <2>2, <2>4, <3>1
  <2> QED
    BY <2>3, <2>4
<1> HIDE DEF S
<1>6. \A k \in Nat : k \in S
  BY <1>1, <1>2, SetInduction
<1>7. \A k \in 0 .. N : P[k] = IF k < L THEN s[k + 1] ELSE null
  BY <1>5, <1>6 DEF S
<1> QED
  BY <1>7 DEF N

\* A list has no more nodes than the heap, and as many as places.
LEMMA SegmentSize ==
  ASSUME NEW next, IsFiniteSet(DOMAIN next), NEW h, NEW e, NEW L, NEW s, Segment(next, h, e, L, s)
  PROVE  /\ L <= Cardinality(DOMAIN next) /\ Cardinality(DOMAIN next) \in Nat
         /\ Cardinality(Places(L, s)) = L
<1> DEFINE S == DOMAIN next
           R == Places(L, s)
<1>0. L \in Nat /\ s \in [1 .. L -> S] /\ \A i, j \in 1 .. L : s[i] = s[j] => i = j
  BY DEF Segment
<1>1. IsFiniteSet(1 .. L) /\ Cardinality(1 .. L) = L
  <2>1. Cardinality(1 .. L) = IF 1 > L THEN 0 ELSE L - 1 + 1
    BY <1>0, FS_Interval
  <2>2. IsFiniteSet(1 .. L)
    BY <1>0, FS_Interval
  <2> QED
    BY <1>0, <2>1, <2>2
<1>2. R \subseteq S
  BY <1>0 DEF Places
<1>3. s \in Bijection(1 .. L, R)
  BY <1>0 DEF Places, Bijection, Injection, Surjection, IsInjective
<1>4. ExistsBijection(1 .. L, R)
  BY <1>3 DEF ExistsBijection
<1> HIDE DEF R
<1>5. IsFiniteSet(R) /\ Cardinality(R) <= Cardinality(S) /\ Cardinality(S) \in Nat
  BY <1>2, FS_Subset, FS_CardinalityType
<1>6. Cardinality(R) = L
  BY <1>1, <1>4, <1>5, FS_Bijection
<1> QED
  BY <1>0, <1>5, <1>6 DEF R

\* The path, the nodes and the length of a list.
LEMMA SegmentIs ==
  ASSUME NEW next, NEW null, NEW h, IsFiniteSet(DOMAIN next), null \notin DOMAIN next,
         NEW L, NEW s, Segment(next, h, null, L, s)
  PROVE  /\ L \in Nat /\ L <= Cardinality(DOMAIN next) /\ Cardinality(DOMAIN next) \in Nat
         /\ Path(next, null, h) =
               [k \in 0 .. Cardinality(DOMAIN next) |-> Path(next, null, h)[k]]
         /\ \A k \in 0 .. Cardinality(DOMAIN next) :
               Path(next, null, h)[k] = IF k < L THEN s[k + 1] ELSE null
         /\ NodesFrom(next, null, h) = Places(L, s)
         /\ Cardinality(NodesFrom(next, null, h)) = L
<1> DEFINE D == DOMAIN next
           N == Cardinality(D)
           P == Path(next, null, h)
           w == [k \in 0 .. N |-> IF k < L THEN s[k + 1] ELSE null]
<1>1. /\ L \in Nat /\ s \in [1 .. L -> D] /\ \A i, j \in 1 .. L : s[i] = s[j] => i = j
      /\ h = IF L = 0 THEN null ELSE s[1]
      /\ \A i \in 1 .. L : next[s[i]] = IF i = L THEN null ELSE s[i + 1]
  BY DEF Segment
<1>2. null \notin D /\ IsFiniteSet(D)
  OBVIOUS
<1> HIDE DEF D
<1>3. L <= N /\ N \in Nat /\ Cardinality(Places(L, s)) = L
  BY SegmentSize DEF D
<1> HIDE DEF N
<1>4. ASSUME NEW k \in 0 .. N
      PROVE  w[k] = IF k = 0 THEN h ELSE IF w[k - 1] = null THEN null ELSE next[w[k - 1]]
  <2>1. CASE k = 0
    BY <1>1, <1>3, <2>1
  <2>2. CASE k # 0 /\ k <= L
    <3>1. k \in 1 .. L /\ k - 1 \in 0 .. N /\ k - 1 < L /\ (k - 1) + 1 = k
      BY <1>1, <1>3, <2>2
    <3>2. w[k - 1] = s[k]
      BY <3>1
    <3>3. s[k] \in D /\ next[s[k]] = IF k = L THEN null ELSE s[k + 1]
      BY <1>1, <3>1
    <3>4. w[k] = IF k = L THEN null ELSE s[k + 1]
      BY <1>1, <3>1
    <3> HIDE DEF w
    <3> QED
      BY <1>2, <2>2, <3>2, <3>3, <3>4
  <2>3. CASE k > L
    <3>1. k - 1 \in 0 .. N /\ ~(k - 1 < L) /\ ~(k < L) /\ k # 0
      BY <1>1, <1>3, <2>3
    <3> QED
      BY <3>1
  <2> QED
    BY <1>1, <1>3, <2>1, <2>2, <2>3
<1>5. P = WalkOf(next, null, h, P)
  <2> DEFINE g == [k \in 0 .. N |-> IF k = 0 THEN h ELSE IF w[k - 1] = null THEN null ELSE next[w[k - 1]]]
  <2>1. DOMAIN w = 0 .. N /\ DOMAIN g = 0 .. N /\ w = [k \in 0 .. N |-> w[k]] /\ g = [k \in 0 .. N |-> g[k]]
    OBVIOUS
  <2>2. \A k \in 0 .. N : g[k] = IF k = 0 THEN h ELSE IF w[k - 1] = null THEN null ELSE next[w[k - 1]]
    OBVIOUS
  <2>3. \A k \in 0 .. N : w[k] = g[k]
    <3> HIDE DEF w, g
    <3> QED
      BY <1>4, <2>2
  <2>4. w = g
    <3> HIDE DEF w, g
    <3> QED
      BY <2>1, <2>3
  <2>5. w = WalkOf(next, null, h, w)
    <3>1. g = WalkOf(next, null, h, w)
      <4> HIDE DEF w
      <4> QED
        BY DEF WalkOf, N, D
    <3> HIDE DEF w, g
    <3> QED
      BY <2>4, <3>1
  <2> HIDE DEF w
  <2> QED
    BY <2>5, PathEquation DEF P
<1> HIDE DEF P, w
<1>6. DOMAIN P = 0 .. N /\ P = [k \in 0 .. N |-> P[k]]
  BY <1>5 DEF WalkOf, N, D
<1>8. \A k \in 0 .. N : P[k] = IF k < L THEN s[k + 1] ELSE null
  BY <1>3, <1>5, WalkIs DEF N, D
<1>9. {P[k] : k \in 0 .. N} \ {null} = Places(L, s)
  <2>1. ASSUME NEW k \in 0 .. N, P[k] # null PROVE \E i \in 1 .. L : P[k] = s[i]
    <3>1. k < L /\ P[k] = s[k + 1]
      BY <1>8, <2>1
    <3>2. k + 1 \in 1 .. L
      BY <1>1, <1>3, <3>1
    <3> QED
      BY <3>1, <3>2
  <2>2. ASSUME NEW i \in 1 .. L PROVE s[i] # null /\ \E k \in 0 .. N : P[k] = s[i]
    <3>1. i - 1 \in 0 .. N /\ i - 1 < L /\ (i - 1) + 1 = i
      BY <1>1, <1>3
    <3>2. P[i - 1] = s[i]
      BY <1>8, <3>1
    <3> QED
      BY <1>1, <1>2, <3>1, <3>2
  <2> QED
    BY <2>1, <2>2 DEF Places
<1>10. NodesFrom(next, null, h) = {P[k] : k \in DOMAIN P} \ {null}
  BY DEF NodesFrom, P
<1>11. NodesFrom(next, null, h) = Places(L, s)
  BY <1>6, <1>9, <1>10
<1> QED
  BY <1>1, <1>3, <1>6, <1>8, <1>11 DEF D, N, P
-------------------------------------------------------------------------------
(* Pieces of lists. *)

\* A piece may have no nodes.
LEMMA SegmentNone ==
  ASSUME NEW next, NEW e
  PROVE  \E s : Segment(next, e, e, 0, s)
<1> DEFINE s == [i \in 1 .. 0 |-> i]
<1>1. Segment(next, e, e, 0, s)
  BY DEF Segment
<1> HIDE DEF s
<1> QED
  BY <1>1

\* A node put before a piece.
Before(n, L, s) == [i \in 1 .. L + 1 |-> IF i = 1 THEN n ELSE s[i - 1]]

\* Then it begins with that node.
LEMMA SegmentCons ==
  ASSUME NEW next, NEW n \in DOMAIN next, NEW e, NEW L, NEW s, Segment(next, next[n], e, L, s),
         n \notin Places(L, s)
  PROVE  Segment(next, n, e, L + 1, Before(n, L, s))
<1> DEFINE D == DOMAIN next
           r == Before(n, L, s)
<1>1. /\ L \in Nat /\ s \in [1 .. L -> D] /\ n \in D
      /\ \A i, j \in 1 .. L : s[i] = s[j] => i = j
      /\ next[n] = IF L = 0 THEN e ELSE s[1]
      /\ \A i \in 1 .. L : next[s[i]] = IF i = L THEN e ELSE s[i + 1]
      /\ \A i \in 1 .. L : s[i] # n
  BY DEF Segment, Places
<1> HIDE DEF D
<1>2. /\ L + 1 \in Nat /\ L + 1 # 0
      /\ \A i \in 1 .. L + 1 : r[i] = IF i = 1 THEN n ELSE s[i - 1]
      /\ \A i \in 1 .. L + 1 : i = 1 \/ i - 1 \in 1 .. L
      /\ \A i \in 1 .. L + 1, j \in 1 .. L + 1 : i - 1 = j - 1 => i = j
      /\ 1 \in 1 .. L + 1
  BY <1>1 DEF Before
<1>3. r \in [1 .. L + 1 -> D]
  BY <1>1, <1>2 DEF Before
<1> HIDE DEF r
<1>4. \A i, j \in 1 .. L + 1 : r[i] = r[j] => i = j
  BY <1>1, <1>2
<1>5. ASSUME NEW i \in 1 .. L + 1 PROVE next[r[i]] = IF i = L + 1 THEN e ELSE r[i + 1]
  <2>1. CASE i = 1 /\ L = 0
    BY <1>1, <1>2, <2>1
  <2>2. CASE i = 1 /\ L # 0
    <3>1. i + 1 \in 1 .. L + 1 /\ i # L + 1 /\ (i + 1) - 1 = 1 /\ i + 1 # 1
      BY <1>1, <2>2
    <3> QED
      BY <1>1, <1>2, <2>2, <3>1
  <2>3. CASE i # 1
    <3>1. i - 1 \in 1 .. L /\ (i - 1 = L <=> i = L + 1) /\ (i - 1) + 1 = i
      BY <1>1, <2>3
    <3>2. r[i] = s[i - 1] /\ next[s[i - 1]] = IF i - 1 = L THEN e ELSE s[i]
      BY <1>1, <1>2, <2>3, <3>1
    <3>3. i # L + 1 => i + 1 \in 1 .. L + 1 /\ (i + 1) - 1 = i /\ i + 1 # 1
      BY <1>1, <2>3
    <3>4. i # L + 1 => r[i + 1] = s[i]
      BY <1>2, <3>3
    <3> QED
      BY <3>1, <3>2, <3>4
  <2> QED
    BY <2>1, <2>2, <2>3
<1>6. n = IF L + 1 = 0 THEN e ELSE r[1]
  BY <1>2
<1> QED
  BY <1>2, <1>3, <1>4, <1>5, <1>6 DEF Segment, D, r

\* The node before a piece is one more.
LEMMA PlacesBefore ==
  ASSUME NEW n, NEW L \in Nat, NEW s
  PROVE  Places(L + 1, Before(n, L, s)) = {n} \cup Places(L, s)
<1> DEFINE r == Before(n, L, s)
<1>1. \A i \in 1 .. L + 1 : r[i] = IF i = 1 THEN n ELSE s[i - 1]
  BY DEF Before
<1>2. /\ \A i \in 1 .. L + 1 : i = 1 \/ i - 1 \in 1 .. L
      /\ \A i \in 1 .. L : i + 1 \in 1 .. L + 1 /\ (i + 1) - 1 = i /\ i + 1 # 1
      /\ 1 \in 1 .. L + 1
  OBVIOUS
<1> HIDE DEF r
<1>3. ASSUME NEW i \in 1 .. L + 1 PROVE r[i] = n \/ \E j \in 1 .. L : r[i] = s[j]
  BY <1>1, <1>2
<1>4. ASSUME NEW j \in 1 .. L PROVE \E i \in 1 .. L + 1 : s[j] = r[i]
  BY <1>1, <1>2
<1>5. \E i \in 1 .. L + 1 : n = r[i]
  BY <1>1, <1>2
<1> QED
  BY <1>3, <1>4, <1>5 DEF Places, r

\* A piece without its first node.
Behind(L, s) == [i \in 1 .. L - 1 |-> s[i + 1]]

\* It begins where the link of that node leads.
LEMMA SegmentTail ==
  ASSUME NEW next, NEW h, NEW e, NEW L, NEW s, Segment(next, h, e, L, s), L # 0
  PROVE  /\ Segment(next, next[h], e, L - 1, Behind(L, s))
         /\ h = s[1] /\ h \in DOMAIN next /\ 1 \in 1 .. L
         /\ Places(L, s) = {h} \cup Places(L - 1, Behind(L, s))
         /\ h \notin Places(L - 1, Behind(L, s))
<1> DEFINE D == DOMAIN next
           r == Behind(L, s)
<1>1. /\ L \in Nat /\ L # 0 /\ s \in [1 .. L -> D]
      /\ \A i, j \in 1 .. L : s[i] = s[j] => i = j
      /\ h = s[1]
      /\ \A i \in 1 .. L : next[s[i]] = IF i = L THEN e ELSE s[i + 1]
  BY DEF Segment
<1> HIDE DEF D
<1>2. /\ L - 1 \in Nat /\ 1 \in 1 .. L
      /\ \A i \in 1 .. L - 1 : i + 1 \in 1 .. L /\ i + 1 # 1 /\ (i + 1 = L <=> i = L - 1)
      /\ \A i \in 1 .. L - 1, j \in 1 .. L - 1 : i + 1 = j + 1 => i = j
      /\ \A i \in 1 .. L - 1 : i # L - 1 => i + 1 \in 1 .. L - 1
      /\ \A i \in 1 .. L : i = 1 \/ (i - 1 \in 1 .. L - 1 /\ (i - 1) + 1 = i)
      /\ L - 1 = 0 <=> L = 1
      /\ L - 1 # 0 => 1 \in 1 .. L - 1
  BY <1>1
<1>3. /\ r \in [1 .. L - 1 -> D]
      /\ \A i \in 1 .. L - 1 : r[i] = s[i + 1]
  BY <1>1, <1>2 DEF Behind
<1> HIDE DEF r
<1>4. \A i, j \in 1 .. L - 1 : r[i] = r[j] => i = j
  BY <1>1, <1>2, <1>3
<1>5. next[h] = IF L - 1 = 0 THEN e ELSE r[1]
  <2>1. next[h] = IF 1 = L THEN e ELSE s[1 + 1]
    BY <1>1, <1>2
  <2>2. L # 1 => r[1] = s[1 + 1]
    BY <1>2, <1>3
  <2> QED
    BY <1>2, <2>1, <2>2
<1>6. ASSUME NEW i \in 1 .. L - 1 PROVE next[r[i]] = IF i = L - 1 THEN e ELSE r[i + 1]
  <2>1. i + 1 \in 1 .. L /\ (i + 1 = L <=> i = L - 1) /\ r[i] = s[i + 1]
    BY <1>2, <1>3
  <2>2. next[s[i + 1]] = IF i + 1 = L THEN e ELSE s[(i + 1) + 1]
    BY <1>1, <2>1
  <2>3. i # L - 1 => r[i + 1] = s[(i + 1) + 1]
    BY <1>2, <1>3
  <2> QED
    BY <2>1, <2>2, <2>3
<1>7. Segment(next, next[h], e, L - 1, r)
  BY <1>2, <1>3, <1>4, <1>5, <1>6 DEF Segment, D
<1>8. h \in D /\ \A i \in 1 .. L - 1 : r[i] # h
  BY <1>1, <1>2, <1>3
<1>9. Places(L, s) = {h} \cup Places(L - 1, r)
  <2>1. ASSUME NEW i \in 1 .. L PROVE s[i] = h \/ \E j \in 1 .. L - 1 : s[i] = r[j]
    BY <1>1, <1>2, <1>3
  <2>2. ASSUME NEW j \in 1 .. L - 1 PROVE \E i \in 1 .. L : r[j] = s[i]
    BY <1>2, <1>3
  <2>3. \E i \in 1 .. L : h = s[i]
    BY <1>1, <1>2
  <2> QED
    BY <2>1, <2>2, <2>3 DEF Places
<1>10. h \notin Places(L - 1, r) /\ h = s[1] /\ h \in D /\ 1 \in 1 .. L
  BY <1>1, <1>2, <1>8 DEF Places
<1> QED
  BY <1>7, <1>9, <1>10 DEF D, r

\* A piece is not disturbed by changes of other nodes.
LEMMA SegmentSame ==
  ASSUME NEW next, NEW next2, DOMAIN next2 = DOMAIN next, NEW h, NEW e, NEW L, NEW s,
         Segment(next, h, e, L, s), \A i \in 1 .. L : next2[s[i]] = next[s[i]]
  PROVE  Segment(next2, h, e, L, s)
  BY DEF Segment

\* The heaps next and next2 differ at most in the link of n, which becomes p.
Relinked(next, next2, n, p) == /\ DOMAIN next2 = DOMAIN next
                               /\ next2[n] = p
                               /\ \A m \in DOMAIN next \ {n} : next2[m] = next[m]

\* The last node of a piece may be linked to something else.
LEMMA SegmentEnd ==
  ASSUME NEW next, NEW h, NEW e, NEW L, NEW s, Segment(next, h, e, L, s), L # 0,
         NEW p, NEW next2, Relinked(next, next2, s[L], p)
  PROVE  Segment(next2, h, p, L, s)
<1>1. L \in 1 .. L
  BY DEF Segment
<1> QED
  BY <1>1 DEF Segment, Relinked

\* A piece with one more node at its end.
After(L, s, m) == [i \in 1 .. L + 1 |-> IF i <= L THEN s[i] ELSE m]

\* It leads to where the link of that node leads.
LEMMA SegmentSnoc ==
  ASSUME NEW next, NEW h, NEW m \in DOMAIN next, NEW L, NEW s, Segment(next, h, m, L, s),
         m \notin Places(L, s)
  PROVE  /\ Segment(next, h, next[m], L + 1, After(L, s, m))
         /\ Places(L + 1, After(L, s, m)) = Places(L, s) \cup {m}
<1> DEFINE D == DOMAIN next
           r == After(L, s, m)
<1>1. /\ L \in Nat /\ s \in [1 .. L -> D]
      /\ \A i, j \in 1 .. L : s[i] = s[j] => i = j
      /\ h = IF L = 0 THEN m ELSE s[1]
      /\ \A i \in 1 .. L : next[s[i]] = IF i = L THEN m ELSE s[i + 1]
      /\ \A i \in 1 .. L : s[i] # m
  BY DEF Segment, Places
<1> HIDE DEF D
<1>2. /\ L + 1 \in Nat /\ L + 1 # 0 /\ 1 \in 1 .. L + 1 /\ L + 1 \in 1 .. L + 1
      /\ \A i \in 1 .. L + 1 : i \in 1 .. L \/ i = L + 1
      /\ \A i \in 1 .. L : i \in 1 .. L + 1 /\ i # L + 1 /\ i + 1 \in 1 .. L + 1
      /\ \A i \in 1 .. L : i # L => i + 1 \in 1 .. L
      /\ L # 0 => 1 \in 1 .. L
  BY <1>1
<1>3. /\ r \in [1 .. L + 1 -> D] /\ r[L + 1] = m
      /\ \A i \in 1 .. L : r[i] = s[i]
  <2>1. r \in [1 .. L + 1 -> D]
    BY <1>1, <1>2 DEF After, D
  <2> QED
    BY <1>1, <1>2, <2>1 DEF After
<1> HIDE DEF r
<1>4. \A i, j \in 1 .. L + 1 : r[i] = r[j] => i = j
  BY <1>1, <1>2, <1>3
<1>5. h = r[1]
  <2>1. L = 0 => h = m /\ L + 1 = 1
    BY <1>1
  <2> QED
    BY <1>1, <1>2, <1>3, <2>1
<1>6. ASSUME NEW i \in 1 .. L + 1 PROVE next[r[i]] = IF i = L + 1 THEN next[m] ELSE r[i + 1]
  <2>1. CASE i = L + 1
    BY <1>3, <2>1
  <2>2. CASE i \in 1 .. L
    <3>1. next[r[i]] = IF i = L THEN m ELSE s[i + 1]
      BY <1>1, <1>3, <2>2
    <3>2. i # L => r[i + 1] = s[i + 1]
      BY <1>2, <1>3, <2>2
    <3> QED
      BY <1>2, <1>3, <2>2, <3>1, <3>2
  <2> QED
    BY <1>2, <2>1, <2>2
<1>7. Segment(next, h, next[m], L + 1, r)
  BY <1>2, <1>3, <1>4, <1>5, <1>6 DEF Segment, D
<1>8. Places(L + 1, r) = Places(L, s) \cup {m}
  BY <1>2, <1>3 DEF Places
<1> QED
  BY <1>7, <1>8 DEF r


\* Two pieces put together.
Joined(L, s, M, r) == [i \in 1 .. L + M |-> IF i <= L THEN s[i] ELSE r[i - L]]

\* They are one piece if they share no node.
LEMMA SegmentJoin ==
  ASSUME NEW next, NEW h, NEW m, NEW e, NEW L, NEW s, Segment(next, h, m, L, s),
         NEW M, NEW r, Segment(next, m, e, M, r),
         Places(L, s) \cap Places(M, r) = {}
  PROVE  \E K, q : Segment(next, h, e, K, q) /\ Places(K, q) = Places(L, s) \cup Places(M, r)
<1> DEFINE D == DOMAIN next
           q == Joined(L, s, M, r)
<1>1. /\ L \in Nat /\ s \in [1 .. L -> D]
      /\ \A i, j \in 1 .. L : s[i] = s[j] => i = j
      /\ h = IF L = 0 THEN m ELSE s[1]
      /\ \A i \in 1 .. L : next[s[i]] = IF i = L THEN m ELSE s[i + 1]
  BY DEF Segment
<1>2. /\ M \in Nat /\ r \in [1 .. M -> D]
      /\ \A i, j \in 1 .. M : r[i] = r[j] => i = j
      /\ m = IF M = 0 THEN e ELSE r[1]
      /\ \A i \in 1 .. M : next[r[i]] = IF i = M THEN e ELSE r[i + 1]
  BY DEF Segment
<1>3. \A i \in 1 .. L, j \in 1 .. M : s[i] # r[j]
  BY DEF Places
<1> HIDE DEF D
<1>4. /\ L + M \in Nat
      /\ \A i \in 1 .. L + M : i \in 1 .. L <=> i <= L
      /\ \A i \in 1 .. L + M : ~(i <= L) => i - L \in 1 .. M
      /\ \A i \in 1 .. L : i \in 1 .. L + M
      /\ \A j \in 1 .. M : L + j \in 1 .. L + M /\ ~(L + j <= L) /\ (L + j) - L = j
      /\ \A i, j \in 1 .. L + M : i - L = j - L => i = j
  BY <1>1, <1>2
<1>5. /\ \A i \in 1 .. L + M : q[i] = IF i <= L THEN s[i] ELSE r[i - L]
      /\ q \in [1 .. L + M -> D]
  BY <1>1, <1>2, <1>4 DEF Joined
<1> HIDE DEF q
<1>6. \A i, j \in 1 .. L + M : q[i] = q[j] => i = j
  <2> TAKE i, j \in 1 .. L + M
  <2>1. CASE i <= L /\ j <= L
    BY <1>1, <1>4, <1>5, <2>1
  <2>2. CASE i <= L /\ ~(j <= L)
    BY <1>3, <1>4, <1>5, <2>2
  <2>3. CASE ~(i <= L) /\ j <= L
    BY <1>3, <1>4, <1>5, <2>3
  <2>4. CASE ~(i <= L) /\ ~(j <= L)
    BY <1>2, <1>4, <1>5, <2>4
  <2> QED
    BY <2>1, <2>2, <2>3, <2>4
<1>7. h = IF L + M = 0 THEN e ELSE q[1]
  <2>1. CASE L = 0 /\ M = 0
    BY <1>1, <1>2, <2>1
  <2>2. CASE L = 0 /\ M # 0
    <3>1. 1 \in 1 .. L + M /\ ~(1 <= L) /\ 1 - L = 1 /\ L + M # 0
      BY <1>2, <2>2
    <3> QED
      BY <1>1, <1>2, <1>5, <2>2, <3>1
  <2>3. CASE L # 0
    <3>1. 1 \in 1 .. L + M /\ 1 <= L /\ L + M # 0
      BY <1>1, <1>2, <2>3
    <3> QED
      BY <1>1, <1>5, <2>3, <3>1
  <2> QED
    BY <2>1, <2>2, <2>3
<1>8. ASSUME NEW i \in 1 .. L + M PROVE next[q[i]] = IF i = L + M THEN e ELSE q[i + 1]
  <2>1. CASE i < L
    <3>1. i \in 1 .. L /\ i # L /\ i + 1 \in 1 .. L + M /\ i + 1 <= L /\ i <= L /\ i # L + M
      BY <1>1, <1>2, <2>1
    <3> QED
      BY <1>1, <1>5, <3>1
  <2>2. CASE i = L
    <3>1. i \in 1 .. L /\ i <= L /\ next[q[i]] = m
      BY <1>1, <1>5, <2>2
    <3>2. CASE M = 0
      <4>1. i = L + M
        BY <1>1, <2>2, <3>2
      <4> QED
        BY <1>2, <3>1, <3>2, <4>1
    <3>3. CASE M # 0
      <4>1. i # L + M /\ i + 1 \in 1 .. L + M /\ ~(i + 1 <= L) /\ (i + 1) - L = 1
        BY <1>1, <1>2, <2>2, <3>3
      <4> QED
        BY <1>2, <1>5, <3>1, <3>3, <4>1
    <3> QED
      BY <3>2, <3>3
  <2>3. CASE i > L
    <3>1. ~(i <= L) /\ i - L \in 1 .. M /\ (i - L = M <=> i = L + M) /\ q[i] = r[i - L]
      BY <1>1, <1>2, <1>5, <2>3
    <3>2. next[r[i - L]] = IF i - L = M THEN e ELSE r[(i - L) + 1]
      BY <1>2, <3>1
    <3>3. i # L + M => i + 1 \in 1 .. L + M /\ ~(i + 1 <= L) /\ (i + 1) - L = (i - L) + 1
      BY <1>1, <1>2, <2>3
    <3>4. i # L + M => q[i + 1] = r[(i - L) + 1]
      BY <1>5, <3>3
    <3> QED
      BY <3>1, <3>2, <3>4
  <2> QED
    BY <1>1, <2>1, <2>2, <2>3
<1>9. Places(L + M, q) = Places(L, s) \cup Places(M, r)
  <2>1. ASSUME NEW i \in 1 .. L + M PROVE (\E j \in 1 .. L : q[i] = s[j]) \/ \E j \in 1 .. M : q[i] = r[j]
    BY <1>4, <1>5
  <2>2. ASSUME NEW j \in 1 .. L PROVE \E i \in 1 .. L + M : s[j] = q[i]
    <3>1. j \in 1 .. L + M /\ j <= L
      BY <1>1, <1>4
    <3> QED
      BY <1>5, <3>1
  <2>3. ASSUME NEW j \in 1 .. M PROVE \E i \in 1 .. L + M : r[j] = q[i]
    <3>1. L + j \in 1 .. L + M /\ ~(L + j <= L) /\ (L + j) - L = j
      BY <1>4
    <3>2. r[j] = q[L + j]
      BY <1>5, <3>1
    <3> QED
      BY <3>1, <3>2
  <2> QED
    BY <2>1, <2>2, <2>3 DEF Places
<1>10. Segment(next, h, e, L + M, q)
  BY <1>4, <1>5, <1>6, <1>7, <1>8 DEF Segment, D
<1> QED
  BY <1>9, <1>10

\* In next2 the link of c, a node of a piece, leads past its successor n.
Skipping(next, h, e, L, s, c, n, next2) ==
    /\ Segment(next, h, e, L, s)
    /\ c \in Places(L, s) /\ n \in Places(L, s) /\ e \notin Places(L, s)
    /\ next[c] = n
    /\ DOMAIN next2 = DOMAIN next
    /\ next2[c] = next[n]
    /\ \A m \in Places(L, s) \ {c, n} : next2[m] = next[m]

\* A piece without the node behind its p-th.
Passing(L, s, p) == [i \in 1 .. L - 1 |-> IF i <= p THEN s[i] ELSE s[i + 1]]

\* Then the piece is there without n.
LEMMA SegmentSkip ==
  ASSUME NEW next, NEW h, NEW e, NEW L, NEW s, NEW c, NEW n, NEW next2,
         Skipping(next, h, e, L, s, c, n, next2)
  PROVE  \E p \in 1 .. L - 1 : /\ s[p] = c /\ s[p + 1] = n
                               /\ Segment(next2, h, e, L - 1, Passing(L, s, p))
                               /\ Places(L - 1, Passing(L, s, p)) = Places(L, s) \ {n}
<1> DEFINE D == DOMAIN next
<1>1. /\ L \in Nat /\ s \in [1 .. L -> D]
      /\ \A i, j \in 1 .. L : s[i] = s[j] => i = j
      /\ h = IF L = 0 THEN e ELSE s[1]
      /\ \A i \in 1 .. L : next[s[i]] = IF i = L THEN e ELSE s[i + 1]
  BY DEF Skipping, Segment
<1>2. /\ \A i \in 1 .. L : s[i] # e
      /\ next[c] = n /\ next2[c] = next[n] /\ DOMAIN next2 = D
      /\ \A i \in 1 .. L : s[i] # c /\ s[i] # n => next2[s[i]] = next[s[i]]
  BY DEF Skipping, Places
<1>3. PICK p \in 1 .. L : c = s[p]
  BY DEF Skipping, Places
<1>4. PICK q \in 1 .. L : n = s[q]
  BY DEF Skipping, Places
<1> HIDE DEF D
<1>5. p # L /\ q = p + 1
  <2>1. n = IF p = L THEN e ELSE s[p + 1]
    BY <1>1, <1>2, <1>3
  <2>2. p # L
    BY <1>2, <1>4, <2>1
  <2>3. p + 1 \in 1 .. L
    BY <1>1, <2>2
  <2> QED
    BY <1>1, <1>4, <2>1, <2>2, <2>3
<1> DEFINE K == L - 1
           r == Passing(L, s, p)
<1>6. /\ K \in Nat /\ K # 0 /\ L # 0 /\ 1 \in 1 .. K /\ p \in 1 .. K /\ 1 <= p
      /\ \A i \in 1 .. K : i \in 1 .. L /\ i + 1 \in 1 .. L /\ (i = K <=> i + 1 = L)
      /\ \A i \in 1 .. K : i # K => i + 1 \in 1 .. K
  BY <1>1, <1>5
<1>7. \A i \in 1 .. K : r[i] = IF i <= p THEN s[i] ELSE s[i + 1]
  BY DEF Passing
<1>8. r \in [1 .. K -> D]
  BY <1>1, <1>6 DEF Passing
<1> HIDE DEF K, r
<1>9. ASSUME NEW i \in 1 .. K, NEW j \in 1 .. K, r[i] = r[j] PROVE i = j
  <2>1. /\ i \in 1 .. L /\ i + 1 \in 1 .. L /\ j \in 1 .. L /\ j + 1 \in 1 .. L
        /\ \A k, l \in 1 .. L : s[k] = s[l] => k = l
    BY <1>1, <1>6
  <2>2. CASE i <= p /\ j <= p
    BY <1>7, <1>9, <2>1, <2>2
  <2>3. CASE ~(i <= p) /\ ~(j <= p)
    <3>1. s[i + 1] = s[j + 1]
      BY <1>7, <1>9, <2>3
    <3>2. i + 1 = j + 1
      BY <2>1, <3>1
    <3> QED
      BY <3>2
  <2>4. CASE i <= p /\ ~(j <= p)
    <3>1. s[i] = s[j + 1]
      BY <1>7, <1>9, <2>4
    <3>2. i = j + 1
      BY <2>1, <3>1
    <3> QED
      BY <2>4, <3>2
  <2>5. CASE ~(i <= p) /\ j <= p
    <3>1. s[i + 1] = s[j]
      BY <1>7, <1>9, <2>5
    <3>2. i + 1 = j
      BY <2>1, <3>1
    <3> QED
      BY <2>5, <3>2
  <2> QED
    BY <2>2, <2>3, <2>4, <2>5
<1>10. ASSUME NEW i \in 1 .. K PROVE next2[r[i]] = IF i = K THEN e ELSE r[i + 1]
  <2>0. i \in 1 .. L /\ i + 1 \in 1 .. L /\ (i = K <=> i + 1 = L) /\ (i # K => i + 1 \in 1 .. K)
    BY <1>6
  <2>1. CASE i < p
    <3>1. i <= p /\ i + 1 <= p /\ i # p /\ i # p + 1 /\ i # L /\ i # K
      BY <1>5, <1>6, <2>0, <2>1
    <3>2. r[i] = s[i] /\ r[i + 1] = s[i + 1]
      BY <1>7, <2>0, <3>1
    <3>3. s[i] # c /\ s[i] # n
      BY <1>1, <1>3, <1>4, <1>5, <2>0, <3>1
    <3> QED
      BY <1>1, <1>2, <2>0, <3>1, <3>2, <3>3
  <2>2. CASE i = p
    <3>1. r[i] = c
      BY <1>3, <1>7, <2>2
    <3>2. next2[c] = IF p + 1 = L THEN e ELSE s[(p + 1) + 1]
      BY <1>1, <1>2, <1>4, <1>5
    <3>3. i # K => r[i + 1] = s[(i + 1) + 1]
      <4>1. ~(i + 1 <= p)
        BY <2>2
      <4> QED
        BY <1>7, <2>0, <4>1
    <3> QED
      BY <2>0, <2>2, <3>1, <3>2, <3>3
  <2>3. CASE i > p
    <3>1. ~(i <= p) /\ ~(i + 1 <= p) /\ i + 1 # p /\ i + 1 # p + 1
      BY <2>3
    <3>2. r[i] = s[i + 1] /\ (i # K => r[i + 1] = s[(i + 1) + 1])
      BY <1>7, <2>0, <3>1
    <3>3. s[i + 1] # c /\ s[i + 1] # n
      BY <1>1, <1>3, <1>4, <1>5, <2>0, <3>1
    <3>4. next2[s[i + 1]] = IF i + 1 = L THEN e ELSE s[(i + 1) + 1]
      BY <1>1, <1>2, <2>0, <3>3
    <3> QED
      BY <2>0, <3>2, <3>4
  <2> QED
    BY <2>1, <2>2, <2>3
<1>11. h = IF K = 0 THEN e ELSE r[1]
  BY <1>1, <1>6, <1>7
<1>12. Segment(next2, h, e, K, r)
  BY <1>2, <1>6, <1>8, <1>9, <1>10, <1>11 DEF Segment, D
<1>13. Places(K, r) = Places(L, s) \ {n}
  <2>1. ASSUME NEW i \in 1 .. K PROVE r[i] # n /\ \E j \in 1 .. L : r[i] = s[j]
    <3>1. CASE i <= p
      <4>1. i # p + 1
        BY <3>1
      <4> QED
        BY <1>1, <1>4, <1>5, <1>6, <1>7, <3>1, <4>1
    <3>2. CASE ~(i <= p)
      <4>1. i + 1 # p + 1
        BY <3>2
      <4> QED
        BY <1>1, <1>4, <1>5, <1>6, <1>7, <3>2, <4>1
    <3> QED
      BY <3>1, <3>2
  <2>2. ASSUME NEW j \in 1 .. L, s[j] # n PROVE \E i \in 1 .. K : s[j] = r[i]
    <3>1. CASE j <= p
      <4>1. j \in 1 .. K
        BY <1>1, <1>5, <3>1 DEF K
      <4> QED
        BY <1>7, <3>1, <4>1
    <3>2. CASE ~(j <= p)
      <4>1. j - 1 \in 1 .. K /\ ~(j - 1 <= p) /\ (j - 1) + 1 = j
        <5>1. j # p + 1 /\ L \in Nat
          BY <1>1, <1>4, <1>5, <2>2
        <5> QED
          BY <3>2, <5>1 DEF K
      <4> QED
        BY <1>7, <4>1
    <3> QED
      BY <3>1, <3>2
  <2> QED
    BY <2>1, <2>2 DEF Places
<1> QED
  BY <1>3, <1>4, <1>5, <1>6, <1>12, <1>13 DEF K, r
-------------------------------------------------------------------------------
(* Lists. *)

\* A list is the segment that its nodes and its path show.
LEMMA ListIs ==
  ASSUME NEW next, NEW null, NEW h, IsList(next, null, h)
  PROVE  \E L, s : /\ Segment(next, h, null, L, s)
                   /\ L \in Nat /\ L <= Cardinality(DOMAIN next) /\ Cardinality(DOMAIN next) \in Nat
                   /\ NodesFrom(next, null, h) = Places(L, s)
                   /\ Cardinality(NodesFrom(next, null, h)) = L
                   /\ Path(next, null, h) =
                         [k \in 0 .. Cardinality(DOMAIN next) |-> Path(next, null, h)[k]]
                   /\ \A k \in 0 .. Cardinality(DOMAIN next) :
                         Path(next, null, h)[k] = IF k < L THEN s[k + 1] ELSE null
<1>1. IsFiniteSet(DOMAIN next) /\ null \notin DOMAIN next
  BY DEF IsList
<1>2. PICK L, s : Segment(next, h, null, L, s)
  BY DEF IsList
<1> QED
  BY <1>1, <1>2, SegmentIs

\* The list that a segment makes has its nodes.
LEMMA ListOf ==
  ASSUME NEW next, NEW null, NEW h, IsFiniteSet(DOMAIN next), null \notin DOMAIN next,
         NEW L, NEW s, Segment(next, h, null, L, s)
  PROVE  IsList(next, null, h) /\ NodesFrom(next, null, h) = Places(L, s)
<1>1. NodesFrom(next, null, h) = Places(L, s)
  BY SegmentIs
<1>2. IsList(next, null, h)
  BY DEF IsList
<1> QED
  BY <1>1, <1>2

\* The piece s leads from h to tail, and cut is the heap in which the link of tail is
\* replaced by null.
CutAt(next, null, h, tail, L, s, cut) ==
    /\ IsFiniteSet(DOMAIN next) /\ null \notin DOMAIN next
    /\ tail \in DOMAIN next /\ tail \notin Places(L, s)
    /\ Segment(next, h, tail, L, s)
    /\ Relinked(next, cut, tail, null)

\* There the piece and tail are a list.
LEMMA CutPath ==
  ASSUME NEW next, NEW null, NEW h, NEW tail, NEW L, NEW s, NEW cut,
         CutAt(next, null, h, tail, L, s, cut)
  PROVE  /\ NodesFrom(cut, null, h) = Places(L, s) \cup {tail}
         /\ Cardinality(NodesFrom(cut, null, h)) = L + 1 /\ L \in Nat
         /\ \A k \in 1 .. L : Path(cut, null, h)[k - 1] = s[k]
<1> USE DEF CutAt
<1> DEFINE r == After(L, s, tail)
<1>1. DOMAIN cut = DOMAIN next /\ cut[tail] = null /\ L \in Nat
  BY DEF Segment, Relinked
<1>2. \A i \in 1 .. L : cut[s[i]] = next[s[i]]
  BY DEF Segment, Places, Relinked
<1>3. Segment(cut, h, tail, L, s)
  BY <1>1, <1>2, SegmentSame
<1>4. Segment(cut, h, null, L + 1, r) /\ Places(L + 1, r) = Places(L, s) \cup {tail}
  <2>1. tail \in DOMAIN cut
    BY <1>1
  <2>2. /\ Segment(cut, h, cut[tail], L + 1, After(L, s, tail))
        /\ Places(L + 1, After(L, s, tail)) = Places(L, s) \cup {tail}
    BY <1>3, <2>1, SegmentSnoc
  <2> QED
    BY <1>1, <2>2
<1> HIDE DEF r
<1> DEFINE M == L + 1
<1>0. IsFiniteSet(DOMAIN cut) /\ null \notin DOMAIN cut /\ Segment(cut, h, null, M, r)
  BY <1>1, <1>4
<1> HIDE DEF M
<1>5. /\ M <= Cardinality(DOMAIN cut) /\ Cardinality(DOMAIN cut) \in Nat
      /\ \A k \in 0 .. Cardinality(DOMAIN cut) :
            Path(cut, null, h)[k] = IF k < M THEN r[k + 1] ELSE null
      /\ NodesFrom(cut, null, h) = Places(M, r)
      /\ Cardinality(NodesFrom(cut, null, h)) = M
  BY <1>0, SegmentIs
<1> USE DEF M
<1>6. ASSUME NEW k \in 1 .. L PROVE Path(cut, null, h)[k - 1] = s[k]
  <2>1. k - 1 \in 0 .. Cardinality(DOMAIN cut) /\ k - 1 < L + 1 /\ (k - 1) + 1 = k /\ k \in 1 .. L + 1 /\ k <= L
    BY <1>1, <1>5
  <2>2. Path(cut, null, h)[k - 1] = r[k]
    BY <1>5, <2>1
  <2> QED
    BY <2>1, <2>2 DEF r, After
<1> QED
  BY <1>1, <1>4, <1>5, <1>6

\* The nodes of a list are finitely many of the heap.
LEMMA ListNodes ==
  ASSUME NEW next, NEW null, NEW h, IsList(next, null, h)
  PROVE  /\ NodesFrom(next, null, h) \subseteq DOMAIN next
         /\ null \notin NodesFrom(next, null, h)
         /\ Cardinality(NodesFrom(next, null, h)) \in 0 .. Cardinality(DOMAIN next)
         /\ Path(next, null, h)[Cardinality(DOMAIN next)] = null
<1>1. PICK L, s : /\ Segment(next, h, null, L, s)
                  /\ L \in Nat /\ L <= Cardinality(DOMAIN next) /\ Cardinality(DOMAIN next) \in Nat
                  /\ NodesFrom(next, null, h) = Places(L, s)
                  /\ Cardinality(NodesFrom(next, null, h)) = L
                  /\ \A k \in 0 .. Cardinality(DOMAIN next) :
                        Path(next, null, h)[k] = IF k < L THEN s[k + 1] ELSE null
  BY ListIs
<1>2. NodesFrom(next, null, h) \subseteq DOMAIN next
  BY <1>1 DEF Segment, Places
<1>3. null \notin DOMAIN next
  BY DEF IsList
<1>4. Cardinality(NodesFrom(next, null, h)) \in 0 .. Cardinality(DOMAIN next)
  BY <1>1
<1>5. Path(next, null, h)[Cardinality(DOMAIN next)] = null
  BY <1>1
<1> QED
  BY <1>2, <1>3, <1>4, <1>5

\* The empty list.
LEMMA ListNull ==
  ASSUME NEW next, NEW null, IsFiniteSet(DOMAIN next), null \notin DOMAIN next
  PROVE  IsList(next, null, null) /\ NodesFrom(next, null, null) = {}
<1>1. PICK s : Segment(next, null, null, 0, s)
  BY SegmentNone
<1>2. IsList(next, null, null) /\ NodesFrom(next, null, null) = Places(0, s)
  BY <1>1, ListOf
<1> QED
  BY <1>2 DEF Places

\* A list that is not empty: its first node, and the list behind it.
LEMMA ListHead ==
  ASSUME NEW next, NEW null, NEW h, IsList(next, null, h), h # null
  PROVE  /\ h \in DOMAIN next
         /\ IsList(next, null, next[h])
         /\ NodesFrom(next, null, h) = {h} \cup NodesFrom(next, null, next[h])
         /\ h \notin NodesFrom(next, null, next[h])
         /\ Cardinality(NodesFrom(next, null, h)) = Cardinality(NodesFrom(next, null, next[h])) + 1
         /\ \A k \in Nat : k < Cardinality(DOMAIN next) =>
               Path(next, null, h)[k + 1] = Path(next, null, next[h])[k]
         /\ Path(next, null, h)[0] = h
<1>0. IsFiniteSet(DOMAIN next) /\ null \notin DOMAIN next
  BY DEF IsList
<1>1. PICK L, s : /\ Segment(next, h, null, L, s)
                  /\ L \in Nat /\ L <= Cardinality(DOMAIN next) /\ Cardinality(DOMAIN next) \in Nat
                  /\ NodesFrom(next, null, h) = Places(L, s)
                  /\ Cardinality(NodesFrom(next, null, h)) = L
                  /\ \A k \in 0 .. Cardinality(DOMAIN next) :
                        Path(next, null, h)[k] = IF k < L THEN s[k + 1] ELSE null
  BY ListIs
<1>2. L # 0
  BY <1>1 DEF Segment
<1> DEFINE r == Behind(L, s)
<1>3. /\ Segment(next, next[h], null, L - 1, r)
      /\ h = s[1] /\ h \in DOMAIN next
      /\ Places(L, s) = {h} \cup Places(L - 1, r)
      /\ h \notin Places(L - 1, r)
  BY <1>1, <1>2, SegmentTail
<1>4. \A i \in 1 .. L - 1 : r[i] = s[i + 1]
  BY DEF Behind
<1> HIDE DEF r
<1>5. /\ NodesFrom(next, null, next[h]) = Places(L - 1, r)
      /\ Cardinality(NodesFrom(next, null, next[h])) = L - 1
      /\ \A k \in 0 .. Cardinality(DOMAIN next) :
            Path(next, null, next[h])[k] = IF k < L - 1 THEN r[k + 1] ELSE null
  BY <1>0, <1>3, SegmentIs
<1>6. IsList(next, null, next[h])
  BY <1>0, <1>3, ListOf
<1>7. ASSUME NEW k \in Nat, k < Cardinality(DOMAIN next)
      PROVE  Path(next, null, h)[k + 1] = Path(next, null, next[h])[k]
  <2>1. k \in 0 .. Cardinality(DOMAIN next) /\ k + 1 \in 0 .. Cardinality(DOMAIN next)
    BY <1>1, <1>7
  <2>2. /\ Path(next, null, h)[k + 1] = IF k + 1 < L THEN s[(k + 1) + 1] ELSE null
        /\ Path(next, null, next[h])[k] = IF k < L - 1 THEN r[k + 1] ELSE null
    BY <1>1, <1>5, <2>1
  <2>3. k + 1 < L <=> k < L - 1
    BY <1>1
  <2>4. k < L - 1 => r[k + 1] = s[(k + 1) + 1]
    <3>1. k < L - 1 => k + 1 \in 1 .. L - 1
      BY <1>1
    <3> QED
      BY <1>4, <3>1
  <2> QED
    BY <2>2, <2>3, <2>4
<1>8. Path(next, null, h)[0] = h
  <2>1. 0 \in 0 .. Cardinality(DOMAIN next) /\ 0 < L /\ 0 + 1 = 1
    BY <1>1, <1>2
  <2> QED
    BY <1>1, <1>3, <2>1
<1>9. Cardinality(NodesFrom(next, null, h)) = Cardinality(NodesFrom(next, null, next[h])) + 1
  BY <1>1, <1>5
<1>10. /\ NodesFrom(next, null, h) = {h} \cup NodesFrom(next, null, next[h])
       /\ h \notin NodesFrom(next, null, next[h])
  BY <1>1, <1>3, <1>5
<1> QED
  BY <1>3, <1>6, <1>7, <1>8, <1>9, <1>10

\* A node put before a list.
LEMMA ListCons ==
  ASSUME NEW next, NEW null, NEW n \in DOMAIN next, IsList(next, null, next[n]),
         n \notin NodesFrom(next, null, next[n])
  PROVE  /\ IsList(next, null, n)
         /\ NodesFrom(next, null, n) = {n} \cup NodesFrom(next, null, next[n])
<1>0. IsFiniteSet(DOMAIN next) /\ null \notin DOMAIN next
  BY DEF IsList
<1>1. PICK L, s : /\ Segment(next, next[n], null, L, s)
                  /\ NodesFrom(next, null, next[n]) = Places(L, s)
  BY ListIs
<1>2. Segment(next, n, null, L + 1, Before(n, L, s))
  BY <1>1, SegmentCons
<1>3. IsList(next, null, n)
  BY <1>0, <1>2, ListOf
<1>4. n # null
  BY <1>0
<1> QED
  BY <1>3, <1>4, ListHead

\* Changes of nodes that are not on a list do not disturb it.
LEMMA ListSame ==
  ASSUME NEW next, NEW null, NEW h, IsList(next, null, h),
         NEW next2, DOMAIN next2 = DOMAIN next,
         \A n \in NodesFrom(next, null, h) : next2[n] = next[n]
  PROVE  /\ IsList(next2, null, h)
         /\ NodesFrom(next2, null, h) = NodesFrom(next, null, h)
         /\ Path(next2, null, h) = Path(next, null, h)
<1>0. IsFiniteSet(DOMAIN next) /\ null \notin DOMAIN next
  BY DEF IsList
<1>1. PICK L, s : /\ Segment(next, h, null, L, s)
                  /\ NodesFrom(next, null, h) = Places(L, s)
                  /\ Path(next, null, h) =
                        [k \in 0 .. Cardinality(DOMAIN next) |-> Path(next, null, h)[k]]
                  /\ \A k \in 0 .. Cardinality(DOMAIN next) :
                        Path(next, null, h)[k] = IF k < L THEN s[k + 1] ELSE null
  BY ListIs
<1>15. \A i \in 1 .. L : next2[s[i]] = next[s[i]]
  BY <1>1 DEF Places
<1>2. Segment(next2, h, null, L, s)
  BY <1>1, <1>15, SegmentSame
<1>3. /\ NodesFrom(next2, null, h) = Places(L, s)
      /\ Path(next2, null, h) = [k \in 0 .. Cardinality(DOMAIN next) |-> Path(next2, null, h)[k]]
      /\ \A k \in 0 .. Cardinality(DOMAIN next) :
            Path(next2, null, h)[k] = IF k < L THEN s[k + 1] ELSE null
  BY <1>0, <1>2, SegmentIs
<1>4. IsList(next2, null, h)
  BY <1>0, <1>2, ListOf
<1>5. \A k \in 0 .. Cardinality(DOMAIN next) : Path(next2, null, h)[k] = Path(next, null, h)[k]
  BY <1>1, <1>3
<1>6. Path(next2, null, h) = Path(next, null, h)
  BY <1>1, <1>3, <1>5
<1> QED
  BY <1>1, <1>3, <1>4, <1>6

\* Two lists without a common node, and a heap in which n, the last node of the
\* first, leads to the second.
Linked(next, null, h, n, p, next2) ==
    /\ IsList(next, null, h) /\ n \in NodesFrom(next, null, h) /\ next[n] = null
    /\ IsList(next, null, p) /\ NodesFrom(next, null, h) \cap NodesFrom(next, null, p) = {}
    /\ Relinked(next, next2, n, p)

\* They are one list there.
LEMMA ListJoin ==
  ASSUME NEW next, NEW null, NEW h, NEW n, NEW p, NEW next2, Linked(next, null, h, n, p, next2)
  PROVE  /\ IsList(next2, null, h)
         /\ NodesFrom(next2, null, h) = NodesFrom(next, null, h) \cup NodesFrom(next, null, p)
<1> USE DEF Linked
<1>0. /\ IsFiniteSet(DOMAIN next) /\ null \notin DOMAIN next /\ DOMAIN next2 = DOMAIN next
      /\ IsFiniteSet(DOMAIN next2) /\ null \notin DOMAIN next2
  BY DEF IsList, Relinked
<1>1. PICK L, s : /\ Segment(next, h, null, L, s)
                  /\ NodesFrom(next, null, h) = Places(L, s)
  BY ListIs
<1>2. PICK M, r : /\ Segment(next, p, null, M, r)
                  /\ NodesFrom(next, null, p) = Places(M, r)
  BY ListIs
<1>3. L # 0 /\ n = s[L]
  <2>1. PICK i \in 1 .. L : n = s[i]
    BY <1>1 DEF Places
  <2>2. L \in Nat /\ next[s[i]] = IF i = L THEN null ELSE s[i + 1]
    BY <1>1 DEF Segment
  <2>3. i # L => i + 1 \in 1 .. L
    BY <2>2
  <2>4. i # L => s[i + 1] \in DOMAIN next
    BY <1>1, <2>3 DEF Segment
  <2>5. i = L
    BY <1>0, <2>1, <2>2, <2>4
  <2> QED
    BY <2>1, <2>2, <2>5
<1>4. Segment(next2, h, p, L, s)
  BY <1>1, <1>3, SegmentEnd
<1>5. \A i \in 1 .. M : next2[r[i]] = next[r[i]]
  <2> TAKE i \in 1 .. M
  <2>1. r[i] # n /\ r[i] \in DOMAIN next
    BY <1>2 DEF Segment, Places
  <2> QED
    BY <2>1 DEF Relinked
<1>6. Segment(next2, p, null, M, r)
  BY <1>0, <1>2, <1>5, SegmentSame
<1>7. Places(L, s) \cap Places(M, r) = {}
  BY <1>1, <1>2
<1>8. PICK K, q : Segment(next2, h, null, K, q) /\ Places(K, q) = Places(L, s) \cup Places(M, r)
  BY <1>4, <1>6, <1>7, SegmentJoin
<1>9. IsList(next2, null, h) /\ NodesFrom(next2, null, h) = Places(K, q)
  BY <1>0, <1>8, ListOf
<1> QED
  BY <1>1, <1>2, <1>8, <1>9
-------------------------------------------------------------------------------
(* The values of a list. *)

\* The sequence g has one value more in front than f, which has n.
Longer(n, f, g) == /\ f = [k \in 1 .. n |-> f[k]] /\ g = [k \in 1 .. n + 1 |-> g[k]]
                   /\ \A k \in 1 .. n : g[k + 1] = f[k]

\* A sequence that is longer by one in front.
LEMMA ConsIs ==
  ASSUME NEW n \in Nat, NEW f, NEW g, Longer(n, f, g)
  PROVE  /\ g # <<>> /\ g[1] = Head(g) /\ f = Tail(g)
         /\ g = <<g[1]>> \o f
<1>0. /\ f = [k \in 1 .. n |-> f[k]] /\ g = [k \in 1 .. n + 1 |-> g[k]]
      /\ \A k \in 1 .. n : g[k + 1] = f[k]
  BY DEF Longer
<1>1. g \in Seq({g[k] : k \in 1 .. n + 1}) /\ Len(g) = n + 1
  BY <1>0
<1>2. f \in Seq({f[k] : k \in 1 .. n}) /\ Len(f) = n
  BY <1>0
<1>3. g # <<>> /\ g[1] = Head(g)
  BY <1>1
<1>4. f = Tail(g)
  <2>1. Tail(g) = [k \in 1 .. n |-> g[k + 1]]
    BY <1>0, <1>1, <1>3
  <2> QED
    BY <1>0, <2>1
<1>5. g = <<g[1]>> \o f
  <2> DEFINE S == {g[k] : k \in 1 .. n + 1} \cup {f[k] : k \in 1 .. n}
             e == <<g[1]>>
             c == e \o f
  <2>1. e \in Seq(S) /\ f \in Seq(S) /\ Len(e) = 1 /\ e[1] = g[1] /\ g \in Seq(S)
    <3>1. g \in Seq(S) /\ f \in Seq(S)
      BY <1>0
    <3>2. g[1] \in S
      OBVIOUS
    <3> HIDE DEF S
    <3> QED
      BY <3>1, <3>2
  <2> HIDE DEF S, e
  <2>2. c \in Seq(S) /\ Len(c) = 1 + n /\ \A i \in 1 .. 1 + n : c[i] = IF i <= 1 THEN e[i] ELSE f[i - 1]
    <3>1. /\ e \o f \in Seq(S)
          /\ Len(e \o f) = Len(e) + Len(f)
          /\ \A i \in 1 .. Len(e) + Len(f) : (e \o f)[i] = IF i <= Len(e) THEN e[i] ELSE f[i - Len(e)]
      BY <2>1, ConcatProperties, Zenon
    <3> HIDE DEF c
    <3>2. c = e \o f
      BY DEF c
    <3> QED
      BY <1>2, <2>1, <3>1, <3>2
  <2> HIDE DEF c
  <2>3. Len(c) = Len(g) /\ Len(g) = n + 1
    BY <1>1, <2>2
  <2>4. ASSUME NEW i \in 1 .. n + 1 PROVE c[i] = g[i]
    <3>1. CASE i = 1
      <4>1. 1 \in 1 .. 1 + n /\ 1 <= 1
        OBVIOUS
      <4>2. c[1] = e[1]
        BY <2>2, <4>1
      <4> QED
        BY <2>1, <3>1, <4>2
    <3>2. CASE i # 1
      <4>1. i - 1 \in 1 .. n /\ (i - 1) + 1 = i /\ ~(i <= 1) /\ i \in 1 .. 1 + n
        BY <3>2
      <4> QED
        BY <1>0, <2>2, <4>1
    <3> QED
      BY <3>1, <3>2
  <2>5. c = g
    BY <2>1, <2>2, <2>3, <2>4, SeqEqual
  <2> QED
    BY <2>5 DEF c, e
<1> QED
  BY <1>3, <1>4, <1>5

\* The empty list has no values.
LEMMA NoValues ==
  ASSUME NEW next, NEW null, NEW data, IsFiniteSet(DOMAIN next), null \notin DOMAIN next
  PROVE  ValuesFrom(next, null, data, null) = <<>>
<1>1. NodesFrom(next, null, null) = {}
  BY ListNull
<1>2. Cardinality(NodesFrom(next, null, null)) = 0
  BY <1>1, FS_EmptySet
<1>3. ValuesFrom(next, null, data, null) = [k \in 1 .. 0 |-> data[Path(next, null, null)[k - 1]]]
  BY <1>2 DEF ValuesFrom
<1> QED
  BY <1>3

\* The first value of a list, and those behind it.
LEMMA ListValuesLonger ==
  ASSUME NEW next, NEW null, NEW data, NEW h, IsList(next, null, h), h # null
  PROVE  \E n \in Nat : Longer(n, ValuesFrom(next, null, data, next[h]), ValuesFrom(next, null, data, h))
                        /\ ValuesFrom(next, null, data, h)[1] = data[h]
<1> DEFINE f == ValuesFrom(next, null, data, next[h])
           g == ValuesFrom(next, null, data, h)
           n == Cardinality(NodesFrom(next, null, next[h]))
           P == Path(next, null, h)
           Q == Path(next, null, next[h])
<1>1. /\ IsList(next, null, next[h])
      /\ Cardinality(NodesFrom(next, null, h)) = n + 1
      /\ \A k \in Nat : k < Cardinality(DOMAIN next) => P[k + 1] = Q[k]
      /\ P[0] = h
  BY ListHead
<1>2. n \in Nat /\ Cardinality(DOMAIN next) \in Nat /\ n <= Cardinality(DOMAIN next)
  <2>1. n \in 0 .. Cardinality(DOMAIN next)
    BY <1>1, ListNodes
  <2>2. IsFiniteSet(DOMAIN next)
    BY DEF IsList
  <2>3. Cardinality(DOMAIN next) \in Nat
    BY <2>2, FS_CardinalityType
  <2> QED
    BY <2>1, <2>3
<1>3. f = [k \in 1 .. n |-> data[Q[k - 1]]] /\ g = [k \in 1 .. n + 1 |-> data[P[k - 1]]]
  BY <1>1 DEF ValuesFrom
<1> HIDE DEF P, Q, n, f, g
<1>4. f = [k \in 1 .. n |-> f[k]] /\ g = [k \in 1 .. n + 1 |-> g[k]]
  BY <1>3
<1>5. \A k \in 1 .. n : g[k + 1] = f[k]
  <2> TAKE k \in 1 .. n
  <2>1. k + 1 \in 1 .. n + 1 /\ (k + 1) - 1 = k /\ k - 1 \in Nat /\ (k - 1) + 1 = k
        /\ k - 1 < Cardinality(DOMAIN next)
    BY <1>2
  <2>2. g[k + 1] = data[P[k]] /\ f[k] = data[Q[k - 1]]
    BY <1>3, <2>1
  <2>3. P[k] = Q[k - 1]
    BY <1>1, <2>1
  <2> QED
    BY <2>2, <2>3
<1>6. g[1] = data[h]
  <2>1. 1 \in 1 .. n + 1 /\ 1 - 1 = 0
    BY <1>2
  <2> QED
    BY <1>1, <1>3, <2>1
<1>7. Longer(n, f, g)
  BY <1>4, <1>5 DEF Longer
<1> QED
  BY <1>2, <1>6, <1>7 DEF f, g

\* The first value of a list and the rest.
LEMMA ListValues ==
  ASSUME NEW next, NEW null, NEW data, NEW h, IsList(next, null, h), h # null
  PROVE  /\ ValuesFrom(next, null, data, h) # <<>>
         /\ Head(ValuesFrom(next, null, data, h)) = data[h]
         /\ Tail(ValuesFrom(next, null, data, h)) = ValuesFrom(next, null, data, next[h])
<1>1. PICK n \in Nat : /\ Longer(n, ValuesFrom(next, null, data, next[h]), ValuesFrom(next, null, data, h))
                       /\ ValuesFrom(next, null, data, h)[1] = data[h]
  BY ListValuesLonger
<1> QED
  BY <1>1, ConsIs

\* A list has the value of its first node before those of the rest.
LEMMA ListValuesCons ==
  ASSUME NEW next, NEW null, NEW data, NEW h, IsList(next, null, h), h # null
  PROVE  ValuesFrom(next, null, data, h) = <<data[h]>> \o ValuesFrom(next, null, data, next[h])
<1>1. PICK n \in Nat : /\ Longer(n, ValuesFrom(next, null, data, next[h]), ValuesFrom(next, null, data, h))
                       /\ ValuesFrom(next, null, data, h)[1] = data[h]
  BY ListValuesLonger
<1> QED
  BY <1>1, ConsIs

\* Changes elsewhere do not change the values of a list.
LEMMA ListValuesSame ==
  ASSUME NEW next, NEW null, NEW data, NEW h, IsList(next, null, h),
         NEW next2, DOMAIN next2 = DOMAIN next, NEW data2,
         \A n \in NodesFrom(next, null, h) : next2[n] = next[n] /\ data2[n] = data[n]
  PROVE  ValuesFrom(next2, null, data2, h) = ValuesFrom(next, null, data, h)
<1>1. /\ NodesFrom(next2, null, h) = NodesFrom(next, null, h)
      /\ Path(next2, null, h) = Path(next, null, h)
  BY ListSame
<1> DEFINE n == Cardinality(NodesFrom(next, null, h))
           P == Path(next, null, h)
<1>2. PICK L, s : /\ L \in Nat /\ L <= Cardinality(DOMAIN next) /\ Cardinality(DOMAIN next) \in Nat
                  /\ NodesFrom(next, null, h) = Places(L, s)
                  /\ n = L
                  /\ \A k \in 0 .. Cardinality(DOMAIN next) : P[k] = IF k < L THEN s[k + 1] ELSE null
  BY ListIs
<1>3. \A k \in 1 .. n : data2[P[k - 1]] = data[P[k - 1]]
  <2> TAKE k \in 1 .. n
  <2>1. k - 1 \in 0 .. Cardinality(DOMAIN next) /\ k - 1 < L /\ (k - 1) + 1 = k /\ k \in 1 .. L
    BY <1>2
  <2>2. P[k - 1] = s[k]
    BY <1>2, <2>1
  <2>3. P[k - 1] \in NodesFrom(next, null, h)
    BY <1>2, <2>1, <2>2 DEF Places
  <2> QED
    BY <2>3
<1>4. /\ ValuesFrom(next2, null, data2, h) = [k \in 1 .. n |-> data2[P[k - 1]]]
      /\ ValuesFrom(next, null, data, h) = [k \in 1 .. n |-> data[P[k - 1]]]
  BY <1>1 DEF ValuesFrom
<1> HIDE DEF n, P
<1> QED
  BY <1>3, <1>4
-------------------------------------------------------------------------------
(* The values of a piece. *)

\* The data of a piece of list, in its order.
Shown(data, L, s) == [k \in 1 .. L |-> data[s[k]]]

\* A piece with no node has none.
LEMMA ShownNone ==
  ASSUME NEW data, NEW s
  PROVE  Shown(data, 0, s) = <<>>
<1>1. 1 .. 0 = {}
  OBVIOUS
<1> QED
  BY <1>1 DEF Shown

\* One more node brings its value to the end.
LEMMA ShownAppend ==
  ASSUME NEW data, NEW L \in Nat, NEW s, NEW m
  PROVE  Shown(data, L + 1, After(L, s, m)) = Append(Shown(data, L, s), data[m])
<1> DEFINE f == Shown(data, L, s)
           g == Shown(data, L + 1, After(L, s, m))
           V == {data[s[k]] : k \in 1 .. L} \cup {data[m]}
<1>1. f \in [1 .. L -> V] /\ data[m] \in V
  BY DEF Shown
<1>2. f \in Seq(V) /\ Len(f) = L
  <2>1. f \in Seq(V)
    BY <1>1
  <2>2. DOMAIN f = 1 .. L
    BY DEF Shown
  <2> QED
    BY <2>1, <2>2, LenProperties
<1>3. \A k \in 1 .. L : f[k] = data[s[k]]
  BY DEF Shown
<1>4. /\ DOMAIN g = 1 .. L + 1 /\ g[L + 1] = data[m]
      /\ \A k \in 1 .. L : g[k] = data[s[k]]
  BY DEF Shown, After
<1>5. g = [k \in 1 .. L + 1 |-> g[k]]
  BY DEF Shown
<1> HIDE DEF f, g, V
<1>6. /\ Append(f, data[m]) \in Seq(V) /\ Len(Append(f, data[m])) = L + 1
      /\ \A k \in 1 .. L : Append(f, data[m])[k] = f[k]
      /\ Append(f, data[m])[L + 1] = data[m]
  BY <1>1, <1>2, AppendProperties
<1>7. Append(f, data[m]) = [k \in 1 .. L + 1 |-> Append(f, data[m])[k]]
  BY <1>6, LenProperties
<1>8. \A k \in 1 .. L + 1 : g[k] = Append(f, data[m])[k]
  BY <1>3, <1>4, <1>6
<1>9. g = Append(f, data[m])
  BY <1>5, <1>7, <1>8
<1> QED
  BY <1>9 DEF f, g

\* Without its first node the first value is gone.
LEMMA ShownTail ==
  ASSUME NEW data, NEW L \in Nat, L # 0, NEW s
  PROVE  /\ Shown(data, L, s) # <<>>
         /\ Head(Shown(data, L, s)) = data[s[1]]
         /\ Tail(Shown(data, L, s)) = Shown(data, L - 1, Behind(L, s))
<1> DEFINE f == Shown(data, L - 1, Behind(L, s))
           g == Shown(data, L, s)
<1>1. L - 1 \in Nat /\ (L - 1) + 1 = L /\ 1 \in 1 .. L
  OBVIOUS
<1>2. g[1] = data[s[1]]
  BY <1>1 DEF Shown
<1>3. \A k \in 1 .. L - 1 : g[k + 1] = f[k]
  BY DEF Shown, Behind
<1>4. Longer(L - 1, f, g)
  BY <1>1, <1>3 DEF Longer, Shown
<1> HIDE DEF f, g
<1>5. g # <<>> /\ g[1] = Head(g) /\ f = Tail(g)
  BY <1>1, <1>4, ConsIs
<1> QED
  BY <1>2, <1>5 DEF f, g
===============================================================================
