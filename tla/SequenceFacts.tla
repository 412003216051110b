---------------------------- MODULE SequenceFacts ----------------------------
(***************************************************************************)
(* Facts about sequences that the proofs of this project share: what the   *)
(* library's InsertAt and RemoveAt do to each position, how elements move  *)
(* across a concatenation, and what becomes of sequences whose elements    *)
(* are distinct.                                                           *)
(***************************************************************************)
EXTENDS SequencesExt, SequenceTheorems, FiniteSetTheorems, WellFoundedInduction, TLAPS

(* A non-empty set of naturals has a least member. *)
LEMMA LeastNatural ==
  ASSUME NEW T, T \subseteq Nat, T # {}
  PROVE  \E m \in T : \A k \in T : m <= k
<1>1. PICK m \in T : \A k \in T : ~ (<<k, m>> \in OpToRel(<, Nat))
  BY NatLessThanWellFounded, WFMin
<1>2. ASSUME NEW k \in T PROVE m <= k
  <2>1. k < m => <<k, m>> \in OpToRel(<, Nat)
    <3>1. ASSUME k < m
          PROVE  <<k, m>> \in Nat \X Nat /\ <<k, m>>[1] < <<k, m>>[2]
      BY <3>1
    <3> QED BY <3>1 DEF OpToRel
  <2>2. ~ (k < m)
    BY <2>1, <1>1
  <2> HIDE <1>1, <2>1
  <2> QED BY <2>2
<1> QED BY <1>2

(* Inserting makes one gap, removing closes one. *)
LEMMA InsertAtShifts ==
  ASSUME NEW S, NEW s \in Seq(S), NEW i \in 1..Len(s) + 1, NEW e \in S
  PROVE  /\ InsertAt(s, i, e) \in Seq(S)
         /\ Len(InsertAt(s, i, e)) = Len(s) + 1
         /\ \A k \in 1..Len(s) + 1 :
              InsertAt(s, i, e)[k] =
                IF k < i THEN s[k] ELSE IF k = i THEN e ELSE s[k - 1]
<1> DEFINE low == SubSeq(s, 1, i - 1)
           high == SubSeq(s, i, Len(s))
           one == <<e>>
           left == low \o one
<1>1. Len(s) \in Nat /\ \A k \in 1..Len(s) : s[k] \in S
  BY LenProperties, ElementOfSeq
<1>2. /\ low \in Seq(S) /\ Len(low) = i - 1
      /\ \A k \in 1..i - 1 : low[k] = s[k]
  <2>1. \A k \in 1..i - 1 : s[k] \in S
    BY <1>1
  <2>2. i - 1 \in Int /\ 1 \in Int
    BY <1>1
  <2> QED BY <2>1, <2>2, <1>1, SubSeqProperties
<1>3. /\ high \in Seq(S) /\ Len(high) = Len(s) - i + 1
      /\ \A k \in 1..Len(s) - i + 1 : high[k] = s[k + i - 1]
  <2>1. \A k \in i..Len(s) : s[k] \in S
    BY <1>1
  <2>2. i \in Int /\ Len(s) \in Int
    BY <1>1
  <2>3. /\ high \in Seq(S)
        /\ Len(high) = IF i <= Len(s) THEN Len(s) - i + 1 ELSE 0
        /\ \A k \in 1..Len(s) - i + 1 : high[k] = s[i + k - 1]
    BY <2>1, <2>2, SubSeqProperties
  <2> QED BY <2>3, <1>1
<1>4. one \in Seq(S) /\ Len(one) = 1 /\ one[1] = e
  OBVIOUS
<1>5. InsertAt(s, i, e) = left \o high
  BY DEF InsertAt
<1>6. /\ left \in Seq(S) /\ Len(left) = i
      /\ \A k \in 1..i : left[k] = IF k < i THEN s[k] ELSE e
  <2>1. /\ left \in Seq(S)
        /\ Len(left) = Len(low) + Len(one)
        /\ \A k \in 1..Len(low) + Len(one) : left[k] =
             IF k <= Len(low) THEN low[k] ELSE one[k - Len(low)]
    <3> HIDE DEF low, one
    <3> QED BY <1>2, <1>4, ConcatProperties
  <2>2. Len(left) = i
    BY <2>1, <1>2, <1>4, <1>1
  <2>3. ASSUME NEW k \in 1..i PROVE left[k] = IF k < i THEN s[k] ELSE e
    <3> HIDE DEF left, low, one
    <3>1. k < i => left[k] = s[k]
      BY <2>1, <1>1, <1>2, <1>4
    <3>2. k = i => left[k] = one[1]
      BY <2>1, <1>1, <1>2, <1>4
    <3> QED BY <3>1, <3>2, <1>4, <1>1
  <2> QED BY <2>1, <2>2, <2>3
<1> HIDE DEF low, high, one, left
<1>7. /\ left \o high \in Seq(S)
      /\ Len(left \o high) = Len(left) + Len(high)
      /\ \A k \in 1..Len(left) + Len(high) : (left \o high)[k] =
           IF k <= Len(left) THEN left[k] ELSE high[k - Len(left)]
  BY <1>3, <1>6, ConcatProperties
<1>8. ASSUME NEW k \in 1..Len(s) + 1
      PROVE  (left \o high)[k] =
               IF k < i THEN s[k] ELSE IF k = i THEN e ELSE s[k - 1]
  <2>1. CASE k <= i
    BY <2>1, <1>1, <1>3, <1>6, <1>7
  <2>2. CASE k > i
    <3>1. (left \o high)[k] = high[k - i] /\ k - i \in 1..Len(s) - i + 1
      BY <2>2, <1>1, <1>3, <1>6, <1>7
    <3> QED BY <3>1, <2>2, <1>1, <1>3
  <2>3. k <= i \/ k > i
    BY <1>1
  <2> QED BY <2>1, <2>2, <2>3
<1> QED BY <1>1, <1>3, <1>5, <1>6, <1>7, <1>8

(* Removing an element moves those after it one place down. *)
LEMMA RemoveAtShifts ==
  ASSUME NEW S, NEW s \in Seq(S), NEW i \in 1..Len(s)
  PROVE  /\ RemoveAt(s, i) \in Seq(S)
         /\ Len(RemoveAt(s, i)) = Len(s) - 1
         /\ \A k \in 1..Len(s) - 1 :
              RemoveAt(s, i)[k] = IF k < i THEN s[k] ELSE s[k + 1]
<1> DEFINE low == SubSeq(s, 1, i - 1)
           high == SubSeq(s, i + 1, Len(s))
<1>1. Len(s) \in Nat /\ \A k \in 1..Len(s) : s[k] \in S
  BY LenProperties, ElementOfSeq
<1>2. /\ low \in Seq(S) /\ Len(low) = i - 1
      /\ \A k \in 1..i - 1 : low[k] = s[k]
  <2>1. \A k \in 1..i - 1 : s[k] \in S
    BY <1>1
  <2>2. i - 1 \in Int /\ 1 \in Int
    BY <1>1
  <2> QED BY <2>1, <2>2, <1>1, SubSeqProperties
<1>3. /\ high \in Seq(S) /\ Len(high) = Len(s) - i
      /\ \A k \in 1..Len(s) - i : high[k] = s[k + i]
  <2>1. \A k \in i + 1..Len(s) : s[k] \in S
    BY <1>1
  <2>2. i + 1 \in Int /\ Len(s) \in Int
    BY <1>1
  <2>3. /\ high \in Seq(S)
        /\ Len(high) = IF i + 1 <= Len(s) THEN Len(s) - (i + 1) + 1 ELSE 0
        /\ \A k \in 1..Len(s) - (i + 1) + 1 : high[k] = s[i + 1 + k - 1]
    BY <2>1, <2>2, SubSeqProperties
  <2> QED BY <2>3, <1>1
<1>4. RemoveAt(s, i) = low \o high
  BY DEF RemoveAt
<1>5. /\ low \o high \in Seq(S) /\ Len(low \o high) = Len(low) + Len(high)
      /\ \A k \in 1..Len(low) + Len(high) : (low \o high)[k] =
           IF k <= Len(low) THEN low[k] ELSE high[k - Len(low)]
  <2> HIDE DEF low, high
  <2> QED BY <1>2, <1>3, ConcatProperties
<1> HIDE DEF low, high
<1> QED BY <1>1, <1>2, <1>3, <1>4, <1>5

(* Moving an element from one sequence of a concatenation to the next. *)
LEMMA MoveToMiddle ==
  ASSUME NEW S, NEW a \in Seq(S), NEW b \in Seq(S), NEW c \in Seq(S), NEW e \in S
  PROVE  (a \o (b \o Append(c, e))) \o <<>> = (a \o (b \o c)) \o <<e>>
OBVIOUS

(* Moving the head of a sequence of a concatenation to the end of the one   *)
(* before it.                                                               *)
LEMMA MoveHead ==
  ASSUME NEW S, NEW a \in Seq(S), NEW b \in Seq(S), NEW c \in Seq(S), b # <<>>
  PROVE  Append(a, Head(b)) \o (Tail(b) \o c) = a \o (b \o c)
OBVIOUS

(* Where the head of the middle of a concatenation is. *)
LEMMA HeadOfMiddle ==
  ASSUME NEW S, NEW a \in Seq(S), NEW b \in Seq(S), NEW c \in Seq(S), NEW d \in Seq(S),
         b # <<>>
  PROVE  /\ Len(a) < Len((a \o (b \o c)) \o d)
         /\ ((a \o (b \o c)) \o d)[Len(a) + 1] = Head(b)
OBVIOUS

(* Appending to the last sequence of a concatenation. *)
LEMMA AppendToEnd ==
  ASSUME NEW S, NEW a \in Seq(S), NEW e \in S
  PROVE  Append(a \o <<>>, e) = a \o <<e>>
OBVIOUS

(* What is appended to a part of a concatenation comes after all of it. *)
LEMMA AppendToLast ==
  ASSUME NEW S, NEW a \in Seq(S), NEW b \in Seq(S), NEW c \in Seq(S), NEW e \in S
  PROVE  a \o (b \o Append(c, e)) = (a \o (b \o c)) \o <<e>>
OBVIOUS

(* The head of a sequence moves to a place of its own. *)
LEMMA HeadThenTail ==
  ASSUME NEW S, NEW a \in Seq(S), a # <<>>
  PROVE  <<Head(a)>> \o Tail(a) = <<>> \o a
OBVIOUS

(* It moves from there to the place before. *)
LEMMA PassOn ==
  ASSUME NEW S, NEW a \in Seq(S), NEW b \in Seq(S), NEW e \in S
  PROVE  (a \o <<e>>) \o (<<>> \o b) = (a \o <<>>) \o (<<e>> \o b)
OBVIOUS

(* And to the end of the sequence before that. *)
LEMMA StoreLast ==
  ASSUME NEW S, NEW a \in Seq(S), NEW b \in Seq(S), NEW e \in S
  PROVE  (a \o Append(b, e)) \o <<>> = (a \o b) \o <<e>>
OBVIOUS

(* ------------------------------------------------------------------------ *)
(* Sequences of distinct elements                                           *)

(* The elements of a sequence, and that a sequence has each only once.      *)
LEMMA Elements ==
  ASSUME NEW S, NEW s \in Seq(S)
  PROVE  /\ Len(s) \in Nat /\ DOMAIN s = 1..Len(s)
         /\ ToSet(s) \subseteq S
         /\ \A i \in 1..Len(s) : s[i] \in S /\ s[i] \in ToSet(s)
         /\ \A e \in ToSet(s) : \E i \in 1..Len(s) : s[i] = e
<1>1. Len(s) \in Nat /\ DOMAIN s = 1..Len(s) /\ \A i \in 1..Len(s) : s[i] \in S
  BY LenProperties, ElementOfSeq
<1> QED BY <1>1 DEF ToSet

(* Distinct elements, by their places. *)
LEMMA Distinct ==
  ASSUME NEW S, NEW s \in Seq(S)
  PROVE  IsInjective(s) <=> \A i, k \in 1..Len(s) : s[i] = s[k] => i = k
<1>1. DOMAIN s = 1..Len(s)
  BY Elements
<1> QED BY <1>1 DEF IsInjective

(* A sequence of distinct pids is no longer than there are pids.            *)
LEMMA DistinctLength ==
  ASSUME NEW n \in Nat, NEW s \in Seq(1..n), IsInjective(s)
  PROVE  Len(s) <= n
<1>1. Len(s) \in Nat /\ s \in [1..Len(s) -> 1..n]
  BY Elements, LenProperties
<1>2. s \in Injection(1..Len(s), 1..n)
  BY <1>1, Distinct DEF Injection
<1>3. IsFiniteSet(1..n) /\ Cardinality(1..n) = n
  BY FS_Interval
<1>4. Cardinality(1..Len(s)) = Len(s)
  <2>1. \A m \in Nat : Cardinality(1..m) = m
    BY FS_Interval
  <2> QED BY <1>1, <2>1
<1>5. Cardinality(1..Len(s)) <= Cardinality(1..n)
  BY <1>2, <1>3, FS_Injection
<1> QED BY <1>3, <1>4, <1>5

(* Removing one of distinct elements.                                       *)
LEMMA RemoveDistinct ==
  ASSUME NEW S, NEW s \in Seq(S), NEW i \in 1..Len(s), IsInjective(s)
  PROVE  /\ RemoveAt(s, i) \in Seq(S) /\ IsInjective(RemoveAt(s, i))
         /\ ToSet(RemoveAt(s, i)) = ToSet(s) \ {s[i]}
<1> DEFINE r == RemoveAt(s, i)
<1>1. /\ r \in Seq(S) /\ Len(r) = Len(s) - 1 /\ Len(s) \in Nat
      /\ \A k \in 1..Len(s) - 1 : r[k] = IF k < i THEN s[k] ELSE s[k + 1]
  BY RemoveAtShifts, Elements
<1>2. \A a, b \in 1..Len(s) : s[a] = s[b] => a = b
  BY Distinct
<1> HIDE DEF r
<1>3. \A a, b \in 1..Len(r) : r[a] = r[b] => a = b
  <2> SUFFICES ASSUME NEW a \in 1..Len(r), NEW b \in 1..Len(r), r[a] = r[b]
               PROVE  a = b
    OBVIOUS
  <2> DEFINE x == IF a < i THEN a ELSE a + 1
             y == IF b < i THEN b ELSE b + 1
  <2>1. x \in 1..Len(s) /\ y \in 1..Len(s) /\ (x = y => a = b)
    BY <1>1
  <2>2. r[a] = s[x] /\ r[b] = s[y]
    BY <1>1
  <2> HIDE DEF x, y
  <2> QED BY <2>1, <2>2, <1>2
<1>4. ASSUME NEW e \in ToSet(r) PROVE e \in ToSet(s) \ {s[i]}
  <2>1. PICK k \in 1..Len(r) : r[k] = e
    BY <1>1, Elements
  <2>2. /\ k \in 1..Len(s) /\ k + 1 \in 1..Len(s)
        /\ e = IF k < i THEN s[k] ELSE s[k + 1]
    BY <2>1, <1>1
  <2>3. s[k] \in ToSet(s) /\ s[k + 1] \in ToSet(s)
    BY <2>2, Elements
  <2> QED BY <2>2, <2>3, <1>2
<1>5. ASSUME NEW e \in ToSet(s) \ {s[i]} PROVE e \in ToSet(r)
  <2>1. PICK k \in 1..Len(s) : s[k] = e
    BY Elements
  <2>2. CASE k < i
    <3>1. k \in 1..Len(r) /\ r[k] = e
      BY <2>1, <2>2, <1>1
    <3> QED BY <3>1, <1>1, Elements
  <2>3. CASE k > i
    <3>1. k - 1 \in 1..Len(r) /\ r[k - 1] = e
      BY <2>1, <2>3, <1>1
    <3> QED BY <3>1, <1>1, Elements
  <2> QED BY <2>1, <2>2, <2>3, <1>1
<1>6. IsInjective(r) /\ ToSet(r) = ToSet(s) \ {s[i]}
  BY <1>1, <1>3, <1>4, <1>5, Distinct
<1> QED BY <1>1, <1>6 DEF r

(* Putting together two sequences that have no element in common.           *)
LEMMA ConcatDistinct ==
  ASSUME NEW S, NEW a \in Seq(S), NEW b \in Seq(S)
  PROVE  /\ a \o b \in Seq(S) /\ ToSet(a \o b) = ToSet(a) \cup ToSet(b)
         /\ IsInjective(a) /\ IsInjective(b) /\ ToSet(a) \cap ToSet(b) = {}
              => IsInjective(a \o b)
<1> DEFINE c == a \o b
<1>1. /\ c \in Seq(S) /\ Len(c) = Len(a) + Len(b) /\ Len(a) \in Nat /\ Len(b) \in Nat
      /\ \A k \in 1..Len(a) + Len(b) : c[k] = IF k <= Len(a) THEN a[k] ELSE b[k - Len(a)]
  BY ConcatProperties, Elements
<1> HIDE DEF c
<1>2. ASSUME NEW k \in 1..Len(c)
      PROVE  \/ k <= Len(a) /\ k \in 1..Len(a) /\ c[k] = a[k]
             \/ k > Len(a) /\ k - Len(a) \in 1..Len(b) /\ c[k] = b[k - Len(a)]
  BY <1>1
<1>3. \A k \in 1..Len(a) : k \in 1..Len(c) /\ c[k] = a[k]
  BY <1>1
<1>4. ASSUME NEW k \in 1..Len(b)
      PROVE  k + Len(a) \in 1..Len(c) /\ c[k + Len(a)] = b[k]
  <2>1. /\ k + Len(a) \in 1..Len(a) + Len(b) /\ ~ (k + Len(a) <= Len(a))
        /\ (k + Len(a)) - Len(a) = k
    BY <1>1
  <2>2. c[k + Len(a)] = b[(k + Len(a)) - Len(a)]
    BY <1>1, <2>1
  <2> QED BY <1>1, <2>1, <2>2
<1>5. ToSet(c) = ToSet(a) \cup ToSet(b)
  <2>1. \A e \in ToSet(c) : e \in ToSet(a) \cup ToSet(b)
    BY <1>1, <1>2, Elements
  <2>2. ASSUME NEW e \in ToSet(a) PROVE e \in ToSet(c)
    <3>1. PICK k \in 1..Len(a) : a[k] = e
      BY Elements
    <3>2. k \in 1..Len(c) /\ c[k] = e
      BY <1>3, <3>1
    <3> QED BY <1>1, <3>2, Elements
  <2>3. ASSUME NEW e \in ToSet(b) PROVE e \in ToSet(c)
    <3>1. PICK k \in 1..Len(b) : b[k] = e
      BY Elements
    <3>2. k + Len(a) \in 1..Len(c) /\ c[k + Len(a)] = e
      BY <1>4, <3>1
    <3> QED BY <1>1, <3>2, Elements
  <2> QED BY <2>1, <2>2, <2>3
<1>6. ASSUME IsInjective(a), IsInjective(b), ToSet(a) \cap ToSet(b) = {}
      PROVE  IsInjective(c)
  <2>1. /\ \A i, k \in 1..Len(a) : a[i] = a[k] => i = k
        /\ \A i, k \in 1..Len(b) : b[i] = b[k] => i = k
        /\ \A i \in 1..Len(a), k \in 1..Len(b) : a[i] # b[k]
    BY <1>6, Distinct, Elements
  <2>2. ASSUME NEW i \in 1..Len(c), NEW k \in 1..Len(c), c[i] = c[k] PROVE i = k
    <3>1. CASE i <= Len(a) /\ k <= Len(a)
      BY <1>1, <1>2, <2>1, <2>2, <3>1
    <3>2. CASE i > Len(a) /\ k > Len(a)
      <4>1. /\ i - Len(a) \in 1..Len(b) /\ k - Len(a) \in 1..Len(b)
            /\ b[i - Len(a)] = b[k - Len(a)]
        BY <1>1, <1>2, <2>2, <3>2
      <4>2. i - Len(a) = k - Len(a)
        BY <2>1, <4>1
      <4> QED BY <1>1, <4>2
    <3>3. CASE i <= Len(a) /\ k > Len(a)
      <4>1. i \in 1..Len(a) /\ k - Len(a) \in 1..Len(b) /\ a[i] = b[k - Len(a)]
        BY <1>1, <1>2, <2>2, <3>3
      <4> QED BY <2>1, <4>1
    <3>4. CASE i > Len(a) /\ k <= Len(a)
      <4>1. k \in 1..Len(a) /\ i - Len(a) \in 1..Len(b) /\ a[k] = b[i - Len(a)]
        BY <1>1, <1>2, <2>2, <3>4
      <4> QED BY <2>1, <4>1
    <3> QED BY <1>1, <3>1, <3>2, <3>3, <3>4
  <2> QED BY <1>1, <2>2, Distinct
<1> QED BY <1>1, <1>5, <1>6 DEF c

(* Turning a sequence round.                                                *)
LEMMA ReverseDistinct ==
  ASSUME NEW S, NEW s \in Seq(S)
  PROVE  /\ Reverse(s) \in Seq(S) /\ ToSet(Reverse(s)) = ToSet(s)
         /\ IsInjective(s) => IsInjective(Reverse(s))
<1> DEFINE r == Reverse(s)
           n == Len(s)
<1>1. n \in Nat /\ \A i \in 1..n : s[i] \in S
  BY Elements
<1>2. r = [i \in 1..n |-> s[n - i + 1]]
  BY DEF Reverse
<1>3. r \in Seq(S) /\ Len(r) = n
  <2>1. \A i \in 1..n : s[n - i + 1] \in S
    <3> HIDE DEF n
    <3> QED BY <1>1
  <2> HIDE DEF r, n
  <2>2. r \in [1..n -> S]
    BY <1>2, <2>1
  <2> QED BY <1>1, <2>2, IsASeq, LenProperties
<1>4. ASSUME NEW i \in 1..n
      PROVE  n - i + 1 \in 1..n /\ r[i] = s[n - i + 1] /\ r[n - i + 1] = s[i]
  <2> HIDE DEF r, n
  <2>1. n - i + 1 \in 1..n /\ n - (n - i + 1) + 1 = i
    BY <1>1
  <2> QED BY <1>2, <2>1
<1>5. ToSet(r) = ToSet(s)
  <2>1. \A e \in ToSet(r) : e \in ToSet(s)
    <3> HIDE DEF r
    <3> QED BY <1>3, <1>4, Elements
  <2>2. \A e \in ToSet(s) : e \in ToSet(r)
    <3> HIDE DEF r
    <3> QED BY <1>3, <1>4, Elements
  <2> QED BY <2>1, <2>2
<1>6. IsInjective(s) => IsInjective(r)
  <2> SUFFICES ASSUME IsInjective(s) PROVE IsInjective(r)
    OBVIOUS
  <2>1. \A i, k \in 1..n : s[i] = s[k] => i = k
    BY Distinct
  <2> HIDE DEF r, n
  <2>2. ASSUME NEW i \in 1..n, NEW k \in 1..n, r[i] = r[k] PROVE i = k
    <3>1. n - i + 1 = n - k + 1
      BY <1>4, <2>1, <2>2
    <3> QED BY <1>1, <3>1
  <2> QED BY <1>3, <2>2, Distinct
<1> QED BY <1>3, <1>5, <1>6

(* The elements before one place and those behind it.                       *)
LEMMA Parts ==
  ASSUME NEW S, NEW s \in Seq(S), NEW i \in 1..Len(s), IsInjective(s)
  PROVE  LET low == SubSeq(s, 1, i - 1)
             high == SubSeq(s, i + 1, Len(s))
         IN  /\ low \in Seq(S) /\ high \in Seq(S) /\ Len(low) = i - 1
             /\ \A k \in 1..i - 1 : low[k] = s[k]
             /\ IsInjective(low) /\ IsInjective(high) /\ ToSet(low) \cap ToSet(high) = {}
             /\ ToSet(low) \cup ToSet(high) = ToSet(s) \ {s[i]}
<1> DEFINE low == SubSeq(s, 1, i - 1)
           high == SubSeq(s, i + 1, Len(s))
<1>1. Len(s) \in Nat /\ \A k \in 1..Len(s) : s[k] \in S
  BY Elements
<1>2. /\ low \in Seq(S) /\ Len(low) = i - 1
      /\ \A k \in 1..i - 1 : low[k] = s[k]
  <2>1. \A k \in 1..i - 1 : s[k] \in S
    BY <1>1
  <2>2. i - 1 \in Int /\ 1 \in Int
    BY <1>1
  <2> QED BY <2>1, <2>2, <1>1, SubSeqProperties
<1>3. /\ high \in Seq(S) /\ Len(high) = Len(s) - i
      /\ \A k \in 1..Len(s) - i : high[k] = s[k + i]
  <2>1. \A k \in i + 1..Len(s) : s[k] \in S
    BY <1>1
  <2>2. i + 1 \in Int /\ Len(s) \in Int
    BY <1>1
  <2>3. /\ high \in Seq(S)
        /\ Len(high) = IF i + 1 <= Len(s) THEN Len(s) - (i + 1) + 1 ELSE 0
        /\ \A k \in 1..Len(s) - (i + 1) + 1 : high[k] = s[i + 1 + k - 1]
    BY <2>1, <2>2, SubSeqProperties
  <2> QED BY <2>3, <1>1
<1>4. \A a, b \in 1..Len(s) : s[a] = s[b] => a = b
  BY Distinct
<1> HIDE DEF low, high
<1>5. IsInjective(low) /\ IsInjective(high)
  <2>1. \A a, b \in 1..Len(low) : low[a] = low[b] => a = b
    BY <1>1, <1>2, <1>4
  <2>2. \A a, b \in 1..Len(high) : high[a] = high[b] => a = b
    <3> SUFFICES ASSUME NEW a \in 1..Len(high), NEW b \in 1..Len(high), high[a] = high[b]
                 PROVE  a = b
      OBVIOUS
    <3>1. a + i = b + i
      BY <1>1, <1>3, <1>4
    <3> QED BY <3>1, <1>1, <1>3
  <2> QED BY <2>1, <2>2, <1>2, <1>3, Distinct
<1>6. ASSUME NEW e \in ToSet(low) \cap ToSet(high) PROVE FALSE
  <2>1. PICK a \in 1..Len(low) : low[a] = e
    BY <1>2, Elements
  <2>2. PICK b \in 1..Len(high) : high[b] = e
    BY <1>3, Elements
  <2>3. a \in 1..Len(s) /\ b + i \in 1..Len(s) /\ a < i /\ b + i > i
    BY <2>1, <2>2, <1>1, <1>2, <1>3
  <2>4. s[a] = s[b + i]
    BY <2>1, <2>2, <1>1, <1>2, <1>3
  <2>5. a = b + i
    BY <2>3, <2>4, <1>4
  <2> QED BY <2>3, <2>5, <1>1
<1>7. ASSUME NEW e \in ToSet(low) \cup ToSet(high) PROVE e \in ToSet(s) \ {s[i]}
  <2>1. CASE e \in ToSet(low)
    <3>1. PICK a \in 1..Len(low) : low[a] = e
      BY <1>2, <2>1, Elements
    <3>2. a \in 1..Len(s) /\ a # i /\ s[a] = e
      BY <3>1, <1>1, <1>2
    <3> QED BY <3>2, <1>4, Elements
  <2>2. CASE e \in ToSet(high)
    <3>1. PICK b \in 1..Len(high) : high[b] = e
      BY <1>3, <2>2, Elements
    <3>2. b + i \in 1..Len(s) /\ b + i # i /\ s[b + i] = e
      BY <3>1, <1>1, <1>3
    <3> QED BY <3>2, <1>4, Elements
  <2> QED BY <1>7, <2>1, <2>2
<1>8. ASSUME NEW e \in ToSet(s) \ {s[i]} PROVE e \in ToSet(low) \cup ToSet(high)
  <2>1. PICK k \in 1..Len(s) : s[k] = e
    BY Elements
  <2>2. CASE k < i
    <3>1. k \in 1..Len(low) /\ low[k] = e
      BY <2>1, <2>2, <1>1, <1>2
    <3> QED BY <3>1, <1>2, Elements
  <2>3. CASE k > i
    <3>1. k - i \in 1..Len(high) /\ high[k - i] = s[(k - i) + i] /\ (k - i) + i = k
      BY <2>1, <2>3, <1>1, <1>3
    <3>2. high[k - i] = e
      BY <3>1, <2>1
    <3> QED BY <3>1, <3>2, <1>3, Elements
  <2> QED BY <2>1, <2>2, <2>3, <1>1
<1>9. ToSet(low) \cap ToSet(high) = {} /\ ToSet(low) \cup ToSet(high) = ToSet(s) \ {s[i]}
  BY <1>6, <1>7, <1>8
<1> QED BY <1>2, <1>3, <1>5, <1>9 DEF low, high

(* With distinct elements, removing a value is removing its place. *)
LEMMA FirstRemoved ==
  ASSUME NEW S, NEW s \in Seq(S), NEW i \in 1..Len(s), IsInjective(s)
  PROVE  RemoveFirst(s, s[i]) = RemoveAt(s, i)
<1> DEFINE I == {k \in 1..Len(s) : s[k] = s[i]}
<1>1. I = {i}
  BY Distinct
<1>2. Min(I) = i
  <2>1. i <= i /\ \A k \in I : k = i
    BY <1>1
  <2> HIDE DEF I
  <2> QED BY <1>1, <2>1 DEF Min
<1>3. SelectInSeq(s, LAMBDA v : v = s[i]) = i
  <2>1. I # {}
    BY <1>1
  <2>2. SelectInSeq(s, LAMBDA v : v = s[i]) = IF I # {} THEN Min(I) ELSE 0
    BY DEF SelectInSeq
  <2> HIDE DEF I
  <2> QED BY <2>1, <2>2, <1>2
<1>4. \E k \in 1..Len(s) : s[k] = s[i]
  OBVIOUS
<1> QED BY <1>3, <1>4 DEF RemoveFirst

(* A sequence that has no element twice has as many as it is long.          *)
LEMMA DistinctCounted ==
  ASSUME NEW S, NEW s \in Seq(S), IsInjective(s)
  PROVE  IsFiniteSet(ToSet(s)) /\ Cardinality(ToSet(s)) = Len(s)
<1>1. Len(s) \in Nat /\ s \in [1..Len(s) -> S] /\ ToSet(s) = {s[i] : i \in 1..Len(s)}
  BY Elements, LenProperties DEF ToSet
<1>2. \A i, k \in 1..Len(s) : s[i] = s[k] => i = k
  BY Distinct
<1>3. s \in Bijection(1..Len(s), ToSet(s))
  BY <1>1, <1>2 DEF Bijection, Injection, Surjection, IsInjective
<1>4. IsFiniteSet(1..Len(s)) /\ Cardinality(1..Len(s)) = Len(s)
  <2>1. \A m \in Nat : IsFiniteSet(1..m) /\ Cardinality(1..m) = m
    BY ONLY FS_Interval
  <2> QED BY <1>1, <2>1
<1>5. ExistsBijection(1..Len(s), ToSet(s))
  BY <1>3 DEF ExistsBijection
<1> QED BY <1>4, <1>5, FS_Bijection

(* ------------------------------------------------------------------------ *)
(* Sequences of sequences                                                   *)

(* FlattenSeq's function: what has been put together so far. *)
Flattens(ss, m, f) == f = [i \in 1..m |-> IF i = 1 THEN ss[i] ELSE f[i - 1] \o ss[i]]
SoFarFlat(ss) == CHOOSE f : Flattens(ss, Len(ss), f)

(* FlattenSeq is its last value. *)
LEMMA FlattenIs ==
  ASSUME NEW ss
  PROVE  FlattenSeq(ss) = IF Len(ss) = 0 THEN ss ELSE SoFarFlat(ss)[Len(ss)]
BY DEF FlattenSeq, SoFarFlat, Flattens

(* There is such a function. *)
LEMMA FlatFrom ==
  ASSUME NEW ss, NEW m \in Nat
  PROVE  \E f : Flattens(ss, m, f)
<1> DEFINE Bad == {n \in Nat : \A f : ~ Flattens(ss, n, f)}
<1> SUFFICES ASSUME Bad # {} PROVE FALSE
  OBVIOUS
<1>1. PICK b \in Bad : \A k \in Bad : b <= k
  <2>1. Bad \subseteq Nat
    OBVIOUS
  <2> HIDE DEF Bad
  <2> QED BY <2>1, LeastNatural
<1>2. b # 0
  <2>1. Flattens(ss, 0, [i \in 1..0 |-> ss[i]])
    BY DEF Flattens
  <2> QED BY <1>1, <2>1
<1>3. PICK f : Flattens(ss, b - 1, f)
  <2>1. b - 1 \in Nat /\ ~ (b <= b - 1)
    BY <1>2
  <2>2. b - 1 \notin Bad
    BY <1>1, <2>1
  <2> QED BY <2>1, <2>2
<1> DEFINE last == IF b = 1 THEN ss[b] ELSE f[b - 1] \o ss[b]
           more == [i \in 1..b |-> IF i = b THEN last ELSE f[i]]
<1>4. ASSUME NEW i \in 1..b
      PROVE  more[i] = IF i = 1 THEN ss[i] ELSE more[i - 1] \o ss[i]
  <2>1. CASE i = b
    <3>1. i # 1 => b - 1 \in 1..b /\ b - 1 # b
      BY <2>1, <1>2
    <3>2. i # 1 => more[i - 1] = f[b - 1]
      BY <2>1, <3>1
    <3> QED BY <2>1, <3>2
  <2>2. CASE i # b
    <3>1. i \in 1..b - 1 /\ more[i] = f[i]
      BY <2>2
    <3>2. f[i] = IF i = 1 THEN ss[i] ELSE f[i - 1] \o ss[i]
      BY <3>1, <1>3 DEF Flattens
    <3>3. i # 1 => i - 1 \in 1..b /\ i - 1 # b
      BY <3>1
    <3>4. i # 1 => more[i - 1] = f[i - 1]
      BY <3>3
    <3> HIDE DEF more
    <3> QED BY <3>1, <3>2, <3>4
  <2> QED BY <2>1, <2>2
<1>5. more = [i \in 1..b |-> IF i = 1 THEN ss[i] ELSE more[i - 1] \o ss[i]]
  <2>1. more = [i \in 1..b |-> more[i]]
    OBVIOUS
  <2> HIDE DEF more
  <2> QED BY <2>1, <1>4
<1>6. Flattens(ss, b, more)
  BY <1>5 DEF Flattens
<1> QED BY <1>6, <1>1

(* Its values. *)
LEMMA FlatValues ==
  ASSUME NEW ss, Len(ss) \in Nat, NEW i \in 1..Len(ss)
  PROVE  SoFarFlat(ss)[i] = IF i = 1 THEN ss[i] ELSE SoFarFlat(ss)[i - 1] \o ss[i]
<1>1. Flattens(ss, Len(ss), SoFarFlat(ss))
  <2>1. \E f : Flattens(ss, Len(ss), f)
    BY FlatFrom
  <2> QED BY <2>1 DEF SoFarFlat
<1> DEFINE f == SoFarFlat(ss)
<1> HIDE DEF f
<1>2. f = [k \in 1..Len(ss) |-> IF k = 1 THEN ss[k] ELSE f[k - 1] \o ss[k]]
  BY <1>1 DEF Flattens, f
<1>3. f[i] = IF i = 1 THEN ss[i] ELSE f[i - 1] \o ss[i]
  BY <1>2
<1> QED BY <1>3 DEF f

(* What has been put together so far is a sequence.                         *)
LEMMA FlatSeqs ==
  ASSUME NEW S, NEW ss \in Seq(Seq(S)), NEW i \in 1..Len(ss)
  PROVE  SoFarFlat(ss)[i] \in Seq(S)
<1> DEFINE f == SoFarFlat(ss)
           Bad == {k \in 1..Len(ss) : f[k] \notin Seq(S)}
<1>1. /\ Len(ss) \in Nat /\ \A k \in 1..Len(ss) : ss[k] \in Seq(S)
      /\ \A k \in 1..Len(ss) : f[k] = IF k = 1 THEN ss[k] ELSE f[k - 1] \o ss[k]
  <2>1. Len(ss) \in Nat /\ \A k \in 1..Len(ss) : ss[k] \in Seq(S)
    BY Elements
  <2> QED BY <2>1, FlatValues
<1> HIDE DEF f
<1> SUFFICES ASSUME Bad # {} PROVE FALSE
  BY DEF f
<1>2. PICK b \in Bad : \A k \in Bad : b <= k
  <2>1. Bad \subseteq Nat
    OBVIOUS
  <2> HIDE DEF Bad
  <2> QED BY <2>1, LeastNatural
<1>3. b # 1
  BY <1>1, <1>2
<1>4. b - 1 \in 1..Len(ss) /\ ~ (b <= b - 1)
  BY <1>1, <1>2, <1>3
<1>5. f[b - 1] \in Seq(S)
  BY <1>2, <1>4
<1>6. f[b - 1] \o ss[b] \in Seq(S)
  BY <1>1, <1>5, ConcatProperties
<1> QED BY <1>1, <1>2, <1>3, <1>6

(* A sequence of sequences put together: its elements are theirs, and if    *)
(* each has its own only once and no two have one in common, so has it.     *)
LEMMA Flattened ==
  ASSUME NEW S, NEW ss \in Seq(Seq(S))
  PROVE  /\ FlattenSeq(ss) \in Seq(S)
         /\ ToSet(FlattenSeq(ss)) = UNION {ToSet(ss[i]) : i \in 1..Len(ss)}
         /\ (\A i \in 1..Len(ss) : IsInjective(ss[i]))
              /\ (\A i, k \in 1..Len(ss) : i # k => ToSet(ss[i]) \cap ToSet(ss[k]) = {})
              => IsInjective(FlattenSeq(ss))
<1> DEFINE f == SoFarFlat(ss)
           n == Len(ss)
           U(i) == UNION {ToSet(ss[k]) : k \in 1..i}
           Own == /\ \A i \in 1..n : IsInjective(ss[i])
                  /\ \A i, k \in 1..n : i # k => ToSet(ss[i]) \cap ToSet(ss[k]) = {}
           Bad == {i \in 1..n : ~ (ToSet(f[i]) = U(i) /\ (Own => IsInjective(f[i])))}
<1>1. n \in Nat /\ \A k \in 1..n : ss[k] \in Seq(S)
  BY Elements
<1>2. \A k \in 1..n : f[k] = IF k = 1 THEN ss[k] ELSE f[k - 1] \o ss[k]
  BY <1>1, FlatValues
<1>3. \A k \in 1..n : f[k] \in Seq(S)
  BY FlatSeqs
<1>4. FlattenSeq(ss) = IF n = 0 THEN ss ELSE f[n]
  BY FlattenIs
<1> HIDE DEF f
<1>5. Bad = {}
  <2> SUFFICES ASSUME Bad # {} PROVE FALSE
    OBVIOUS
  <2>1. PICK b \in Bad : \A k \in Bad : b <= k
    <3>1. Bad \subseteq Nat
      BY <1>1
    <3> HIDE DEF Bad
    <3> QED BY <3>1, LeastNatural
  <2>2. CASE b = 1
    <3>1. f[b] = ss[1] /\ 1..b = {1}
      BY <2>1, <2>2, <1>2
    <3>2. U(b) = ToSet(ss[1])
      BY <3>1
    <3> QED BY <2>1, <2>2, <3>1, <3>2
  <2>3. CASE b # 1
    <3>1. b \in 1..n /\ b - 1 \in 1..n /\ ~ (b <= b - 1)
      BY <2>1, <2>3, <1>1
    <3>2. ToSet(f[b - 1]) = U(b - 1) /\ (Own => IsInjective(f[b - 1]))
      BY <2>1, <3>1
    <3>3. f[b] = f[b - 1] \o ss[b] /\ f[b - 1] \in Seq(S) /\ ss[b] \in Seq(S)
      BY <2>3, <3>1, <1>1, <1>2, <1>3
    <3>4. /\ ToSet(f[b]) = ToSet(f[b - 1]) \cup ToSet(ss[b])
          /\ IsInjective(f[b - 1]) /\ IsInjective(ss[b]) /\ ToSet(f[b - 1]) \cap ToSet(ss[b]) = {}
               => IsInjective(f[b])
      BY <3>3, ConcatDistinct
    <3>5. 1..b = (1..b - 1) \cup {b} /\ \A k \in 1..b - 1 : k \in 1..n /\ k # b
      BY <3>1, <1>1
    <3>6. U(b) = U(b - 1) \cup ToSet(ss[b])
      BY ONLY <3>5
    <3>7. Own => IsInjective(ss[b]) /\ U(b - 1) \cap ToSet(ss[b]) = {}
      <4> SUFFICES ASSUME Own PROVE IsInjective(ss[b]) /\ U(b - 1) \cap ToSet(ss[b]) = {}
        OBVIOUS
      <4> HIDE DEF n
      <4>1. IsInjective(ss[b])
        BY <3>1
      <4>2. \A k \in 1..b - 1 : ToSet(ss[k]) \cap ToSet(ss[b]) = {}
        BY <3>1, <3>5
      <4> QED BY ONLY <4>1, <4>2
    <3> HIDE DEF U, Own, n
    <3> QED BY <2>1, <3>2, <3>4, <3>6, <3>7
  <2> QED BY <2>2, <2>3
<1>6. CASE n = 0
  <2>1. ss = << >> /\ FlattenSeq(ss) = << >>
    BY <1>4, <1>6
  <2>2. ToSet(<< >>) = {} /\ << >> \in Seq(S) /\ Len(<< >>) = 0
    BY DEF ToSet
  <2>3. IsInjective(<< >>)
    BY DEF IsInjective
  <2>4. UNION {ToSet(ss[i]) : i \in 1..n} = {}
    BY <1>6
  <2> QED BY <2>1, <2>2, <2>3, <2>4
<1>7. CASE n # 0
  <2>1. n \in 1..n
    BY <1>1, <1>7
  <2>2. FlattenSeq(ss) = f[n]
    BY <1>4, <1>7
  <2>3. ToSet(f[n]) = U(n) /\ (Own => IsInjective(f[n]))
    <3> HIDE DEF n, U, Own
    <3> QED BY <2>1, <1>5
  <2>4. f[n] \in Seq(S)
    BY <2>1, <1>3
  <2> QED BY <2>2, <2>3, <2>4
<1> QED BY <1>6, <1>7

(* Where the i-th sequence begins in those put together, counted from 0.    *)
Offset(ss, i) == IF i = 1 THEN 0 ELSE Len(SoFarFlat(ss)[i - 1])

(* It begins after all that are before it.                                  *)
LEMMA OffsetNext ==
  ASSUME NEW S, NEW ss \in Seq(Seq(S)), NEW i \in 1..Len(ss)
  PROVE  /\ Offset(ss, i) \in Nat
         /\ i # 1 => Offset(ss, i) = Offset(ss, i - 1) + Len(ss[i - 1])
         /\ Len(SoFarFlat(ss)[i]) = Offset(ss, i) + Len(ss[i])
<1> DEFINE f == SoFarFlat(ss)
<1>1. Len(ss) \in Nat /\ \A k \in 1..Len(ss) : ss[k] \in Seq(S) /\ Len(ss[k]) \in Nat
  BY Elements, LenProperties
<1>2. \A k \in 1..Len(ss) : f[k] = IF k = 1 THEN ss[k] ELSE f[k - 1] \o ss[k]
  BY <1>1, FlatValues
<1>3. \A k \in 1..Len(ss) : f[k] \in Seq(S) /\ Len(f[k]) \in Nat
  BY FlatSeqs, LenProperties
<1> HIDE DEF f
<1>4. ASSUME NEW k \in 1..Len(ss)
      PROVE  Len(f[k]) = (IF k = 1 THEN 0 ELSE Len(f[k - 1])) + Len(ss[k])
  <2>1. CASE k = 1
    BY <2>1, <1>1, <1>2
  <2>2. CASE k # 1
    <3>1. k - 1 \in 1..Len(ss)
      BY <2>2, <1>1
    <3>2. Len(f[k - 1] \o ss[k]) = Len(f[k - 1]) + Len(ss[k])
      BY <3>1, <1>1, <1>3, ConcatProperties
    <3> QED BY <2>2, <3>2, <1>2
  <2> QED BY <2>1, <2>2
<1>5. i # 1 => i - 1 \in 1..Len(ss)
  BY <1>1
<1>6. \A k \in 1..Len(ss) : Offset(ss, k) = IF k = 1 THEN 0 ELSE Len(f[k - 1])
  BY DEF Offset, f
<1>7. Offset(ss, i) \in Nat /\ Len(f[i]) = Offset(ss, i) + Len(ss[i])
  <2>1. i \in 1..Len(ss) /\ Offset(ss, i) = IF i = 1 THEN 0 ELSE Len(f[i - 1])
    BY <1>6
  <2>2. Len(f[i]) = (IF i = 1 THEN 0 ELSE Len(f[i - 1])) + Len(ss[i])
    BY <1>4
  <2>3. i # 1 => Len(f[i - 1]) \in Nat
    BY <1>3, <1>5
  <2> QED BY <2>1, <2>2, <2>3
<1>8. ASSUME i # 1 PROVE Offset(ss, i) = Offset(ss, i - 1) + Len(ss[i - 1])
  <2>1. i - 1 \in 1..Len(ss)
    BY <1>5, <1>8
  <2>2. Offset(ss, i) = Len(f[i - 1])
    BY <1>6, <1>8
  <2>3. Len(f[i - 1]) = Offset(ss, i - 1) + Len(ss[i - 1])
    BY <2>1, <1>4, <1>6
  <2> QED BY <2>2, <2>3
<1> QED BY <1>7, <1>8 DEF f

(* Each element is found again behind where its sequence begins.            *)
LEMMA FlatPlaces ==
  ASSUME NEW S, NEW ss \in Seq(Seq(S)), NEW i \in 1..Len(ss), NEW k \in 1..Len(ss[i])
  PROVE  /\ Offset(ss, i) + k \in 1..Len(FlattenSeq(ss))
         /\ FlattenSeq(ss)[Offset(ss, i) + k] = ss[i][k]
<1> DEFINE f == SoFarFlat(ss)
           n == Len(ss)
           off == Offset(ss, i)
           at == off + k
           Fine(m) == at \in 1..Len(f[m]) /\ f[m][at] = ss[i][k]
           Bad == {m \in i..n : ~ Fine(m)}
<1>1. n \in Nat /\ \A m \in 1..n : ss[m] \in Seq(S) /\ Len(ss[m]) \in Nat
  BY Elements, LenProperties
<1>2. \A m \in 1..n : f[m] = IF m = 1 THEN ss[m] ELSE f[m - 1] \o ss[m]
  BY <1>1, FlatValues
<1>3. \A m \in 1..n : f[m] \in Seq(S) /\ Len(f[m]) \in Nat
  BY FlatSeqs, LenProperties
<1>4. off \in Nat /\ off = (IF i = 1 THEN 0 ELSE Len(f[i - 1])) /\ Len(f[i]) = off + Len(ss[i])
  BY OffsetNext DEF Offset
<1>5. FlattenSeq(ss) = f[n]
  BY <1>1, FlattenIs
<1> HIDE DEF f, off, n
<1>6. /\ i \in Nat /\ i \in 1..n /\ n \in 1..n
      /\ k \in 1..Len(ss[i]) /\ Len(ss[i]) \in Nat /\ k \in Nat
  <2>1. i \in 1..n /\ k \in 1..Len(ss[i])
    BY DEF n
  <2>2. Len(ss[i]) \in Nat
    BY <2>1, <1>1
  <2> QED BY <2>1, <2>2, <1>1
<1>7. Fine(i)
  <2>1. at \in 1..Len(f[i])
    <3> DEFINE l == Len(ss[i])
    <3>1. off \in Nat /\ Len(f[i]) = off + l
      BY <1>4
    <3>2. l \in Nat /\ k \in 1..l
      BY <1>6
    <3> HIDE DEF l
    <3>3. off + k \in 1..off + l
      BY ONLY <3>1, <3>2
    <3> QED BY <3>1, <3>3
  <2>2. CASE i = 1
    BY <2>1, <2>2, <1>2, <1>4, <1>6
  <2>3. CASE i # 1
    <3>1. i - 1 \in 1..n
      BY <2>3, <1>6, <1>1
    <3>2. f[i] = f[i - 1] \o ss[i] /\ off = Len(f[i - 1])
      BY <2>3, <1>2, <1>4, <1>6
    <3>3. f[i - 1] \in Seq(S) /\ ss[i] \in Seq(S) /\ Len(f[i - 1]) \in Nat /\ Len(ss[i]) \in Nat
      BY <3>1, <1>1, <1>3, <1>6
    <3> DEFINE a == f[i - 1]
               b == ss[i]
    <3>7. at = Len(a) + k
      BY <3>2
    <3> HIDE DEF a, b, at
    <3>4. \A j \in 1..Len(a) + Len(b) : (a \o b)[j] = IF j <= Len(a) THEN a[j] ELSE b[j - Len(a)]
      BY <3>3, ConcatProperties DEF a, b
    <3>5. at \in 1..Len(a) + Len(b) /\ ~ (at <= Len(a)) /\ at - Len(a) = k
      <4>1. Len(a) \in Nat /\ Len(b) \in Nat /\ k \in 1..Len(b)
        BY <3>3, <1>6 DEF a, b
      <4> QED BY <3>7, <4>1
    <3>6. (a \o b)[at] = b[k]
      BY <3>4, <3>5
    <3> QED BY <2>1, <3>2, <3>6 DEF a, b
  <2> QED BY <2>2, <2>3
<1> HIDE DEF at
<1>8. Bad = {}
  <2> SUFFICES ASSUME Bad # {} PROVE FALSE
    OBVIOUS
  <2>1. PICK m \in Bad : \A j \in Bad : m <= j
    <3>1. Bad \subseteq Nat
      BY <1>6, <1>1
    <3> HIDE DEF Bad
    <3> QED BY <3>1, LeastNatural
  <2>2. m # i
    BY <2>1, <1>7
  <2>3. m \in i..n /\ m - 1 \in i..n /\ ~ (m <= m - 1) /\ m \in 1..n /\ m - 1 \in 1..n /\ m # 1
    BY <2>1, <2>2, <1>1, <1>6
  <2>4. Fine(m - 1)
    BY <2>1, <2>3
  <2>5. f[m] = f[m - 1] \o ss[m]
    BY <2>3, <1>2
  <2>6. /\ f[m - 1] \in Seq(S) /\ ss[m] \in Seq(S)
        /\ Len(f[m - 1]) \in Nat /\ Len(ss[m]) \in Nat
    BY <2>3, <1>1, <1>3
  <2> DEFINE a == f[m - 1]
             b == ss[m]
  <2> HIDE DEF a, b
  <2>7. /\ Len(a \o b) = Len(a) + Len(b)
        /\ \A j \in 1..Len(a) + Len(b) : (a \o b)[j] = IF j <= Len(a) THEN a[j] ELSE b[j - Len(a)]
    BY <2>6, ConcatProperties DEF a, b
  <2>8. at \in 1..Len(a) /\ Len(a) \in Nat /\ Len(b) \in Nat /\ a[at] = ss[i][k]
    BY <2>4, <2>6 DEF a, b
  <2>9. at \in 1..Len(a) + Len(b) /\ at <= Len(a)
    BY <2>8
  <2>10. (a \o b)[at] = ss[i][k] /\ at \in 1..Len(a \o b)
    BY <2>7, <2>8, <2>9
  <2> QED BY <2>1, <2>5, <2>10 DEF a, b
<1>9. Fine(n)
  BY <1>6, <1>8
<1> QED BY <1>5, <1>9 DEF at, off
==============================================================================
