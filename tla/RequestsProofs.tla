--------------------------- MODULE RequestsProofs ---------------------------
(***************************************************************************)
(* For every set of clients, configurations, tokens, requests and bounds:  *)
(* who is let in, on whose behalf a request is carried out, and who is     *)
(* turned away.  Lists, credentials, numbers and plain bodies are read as  *)
(* they were meant, whatever they are.                                     *)
(***************************************************************************)
EXTENDS Requests, Integers, FiniteSetTheorems, SequenceTheorems, TLAPS

(***************************************************************************)
(* Induction: a set of numbers that has 0 and, with n, n + 1 has them all. *)
(* It follows from the pigeonhole principle: up to a number that it lacks, *)
(* adding 1 would map the set into itself without 0.                       *)
(***************************************************************************)
LEMMA NatSets ==
  ASSUME NEW T, 0 \in T, \A n \in Nat : n \in T => n + 1 \in T
  PROVE  \A n \in Nat : n \in T
<1> SUFFICES ASSUME NEW m \in Nat, m \notin T PROVE FALSE
  OBVIOUS
<1> DEFINE S == T \cap (0..m)
<1>1. IsFiniteSet(S) /\ Cardinality(S) \in Nat
  <2>1. IsFiniteSet(0..m)
    BY FS_Interval
  <2>2. S \in SUBSET (0..m)
    OBVIOUS
  <2> QED BY <2>1, <2>2, FS_Subset, FS_CardinalityType
<1>2. 0 \in S
  OBVIOUS
<1>3. IsFiniteSet(S \ {0}) /\ Cardinality(S \ {0}) < Cardinality(S)
  <2>1. IsFiniteSet(S \ {0}) /\ Cardinality(S \ {0}) = Cardinality(S) - 1
    BY <1>1, <1>2, FS_RemoveElement
  <2> QED BY <2>1, <1>1
<1>4. \A x \in S : x \in Nat /\ x + 1 \in S \ {0}
  OBVIOUS
<1> DEFINE next == [x \in S |-> x + 1]
<1> HIDE DEF S
<1>5. next \in [S -> S \ {0}] /\ \A x \in S : next[x] = x + 1
  BY <1>4
<1> HIDE DEF next
<1>6. \E x, y \in S : x # y /\ next[x] = next[y]
  BY <1>1, <1>3, <1>5, FS_PigeonHole
<1> QED BY <1>4, <1>5, <1>6

LEMMA LeastNat ==
  ASSUME NEW S \in SUBSET Nat, S # {}
  PROVE  \E m \in S : \A n \in S : m <= n
<1> DEFINE T == {k \in Nat : \A n \in S : k <= n}
<1>1. 0 \in T
  OBVIOUS
<1>2. PICK k \in Nat : k \in T /\ k + 1 \notin T
  <2> SUFFICES ASSUME \A k \in Nat : k \in T => k + 1 \in T PROVE FALSE
    OBVIOUS
  <2>1. PICK n \in S : TRUE
    OBVIOUS
  <2>2. n + 1 \in T
    <3> HIDE DEF T
    <3> QED BY <1>1, NatSets
  <2> QED BY <2>2
<1>3. PICK n \in S : ~(k + 1 <= n)
  BY <1>2
<1>4. n = k
  BY <1>2, <1>3
<1> QED BY <1>2, <1>4

LEMMA MostIs ==
  ASSUME NEW K \in Nat, NEW S \in SUBSET (0..K), S # {}
  PROVE  \E i \in S : \A j \in S : j <= i
<1> DEFINE R == {K - i : i \in S}
<1>1. R \in SUBSET Nat /\ R # {}
  <2>1. \A i \in S : i \in 0..K
    OBVIOUS
  <2>2. \A i \in S : K - i \in Nat
    BY <2>1
  <2> QED BY <2>2
<1>2. PICK r \in R : \A x \in R : r <= x
  BY <1>1, LeastNat
<1>3. PICK i \in S : r = K - i
  BY <1>2
<1>4. ASSUME NEW j \in S PROVE j <= i
  <2>1. K - j \in R
    OBVIOUS
  <2>2. r <= K - j
    BY <1>2, <2>1
  <2>3. i \in Nat /\ j \in Nat
    OBVIOUS
  <2> QED BY <1>3, <2>2, <2>3
<1> QED BY <1>4

(***************************************************************************)
(* The allowlist, for every list.                                          *)
(***************************************************************************)
LEMMA LeastIs ==
  ASSUME NEW S \in SUBSET Nat, S # {}
  PROVE  Least(S) \in S /\ \A j \in S : Least(S) <= j
<1>1. \E i \in S : \A j \in S : i <= j
  BY LeastNat
<1> QED BY <1>1 DEF Least

LEMMA SkipIs ==
  ASSUME NEW Chr, NEW s \in Seq(Chr), NEW i \in 1..Len(s) + 1, NEW S
  PROVE  /\ SkipFrom(s, i, S) \in i..Len(s) + 1
         /\ \A j \in i..SkipFrom(s, i, S) - 1 : s[j] \in S
         /\ SkipFrom(s, i, S) <= Len(s) => s[SkipFrom(s, i, S)] \notin S
<1> DEFINE H == {j \in i..Len(s) : s[j] \notin S} \cup {Len(s) + 1}
<1>1. Len(s) \in Nat
  BY LenProperties
<1>2. H \in SUBSET Nat /\ H # {}
  BY <1>1
<1>3. Least(H) \in H /\ \A j \in H : Least(H) <= j
  BY <1>2, LeastIs
<1>4. SkipFrom(s, i, S) = Least(H)
  BY DEF SkipFrom
<1> DEFINE k == Least(H)
<1>5. k \in i..Len(s) + 1 /\ (k <= Len(s) => s[k] \notin S)
  BY <1>1, <1>3
<1>6. ASSUME NEW j \in i..k - 1 PROVE s[j] \in S
  BY <1>1, <1>3, <1>5
<1> QED BY <1>4, <1>5, <1>6

LEMMA UntilIs ==
  ASSUME NEW Chr, NEW s \in Seq(Chr), NEW i \in 1..Len(s) + 1, NEW S
  PROVE  /\ UntilFrom(s, i, S) \in i..Len(s) + 1
         /\ \A j \in i..UntilFrom(s, i, S) - 1 : s[j] \notin S
         /\ UntilFrom(s, i, S) <= Len(s) => s[UntilFrom(s, i, S)] \in S
<1> DEFINE H == {j \in i..Len(s) : s[j] \in S} \cup {Len(s) + 1}
<1>1. Len(s) \in Nat
  BY LenProperties
<1>2. H \in SUBSET Nat /\ H # {}
  BY <1>1
<1>3. Least(H) \in H /\ \A j \in H : Least(H) <= j
  BY <1>2, LeastIs
<1>4. UntilFrom(s, i, S) = Least(H)
  BY DEF UntilFrom
<1> DEFINE k == Least(H)
<1>5. k \in i..Len(s) + 1 /\ (k <= Len(s) => s[k] \in S)
  BY <1>1, <1>3
<1>6. ASSUME NEW j \in i..k - 1 PROVE s[j] \notin S
  BY <1>1, <1>3, <1>5
<1> QED BY <1>4, <1>5, <1>6

\* A part of a text.
LEMMA PartIs ==
  ASSUME NEW Chr, NEW s \in Seq(Chr), NEW p \in 1..Len(s) + 1, NEW q \in p - 1..Len(s)
  PROVE  /\ SubSeq(s, p, q) \in Seq(Chr) /\ Len(SubSeq(s, p, q)) = q - p + 1
         /\ \A i \in 1..q - p + 1 : SubSeq(s, p, q)[i] = s[p + i - 1]
<1>1. Len(s) \in Nat /\ p \in Int /\ q \in Int /\ \A i \in 1..Len(s) : s[i] \in Chr
  BY LenProperties, ElementOfSeq
<1>2. \A i \in p..q : s[i] \in Chr
  BY <1>1
<1>3. /\ SubSeq(s, p, q) \in Seq(Chr)
      /\ Len(SubSeq(s, p, q)) = IF p <= q THEN q - p + 1 ELSE 0
      /\ \A i \in 1..q - p + 1 : SubSeq(s, p, q)[i] = s[p + i - 1]
  BY <1>1, <1>2, SubSeqProperties
<1> QED BY <1>1, <1>3

\* What is left of a part from p to q: from its first to its last symbol that is
\* no blank.
LEMMA TrimIs ==
  ASSUME NEW Chr, NEW s \in Seq(Chr), NEW p \in 1..Len(s) + 1, NEW q \in p - 1..Len(s)
  PROVE  \/ /\ \A j \in p..q : s[j] \in Space
            /\ Trim(SubSeq(s, p, q)) = <<>>
         \/ \E m \in p..q, n \in p..q :
              /\ m <= n /\ s[m] \notin Space /\ s[n] \notin Space
              /\ \A j \in p..q : s[j] \notin Space => m <= j /\ j <= n
              /\ Trim(SubSeq(s, p, q)) = SubSeq(s, m, n)
<1> DEFINE t == SubSeq(s, p, q)
           last == {i \in 1..Len(t) : t[i] \notin Space}
           M == CHOOSE i \in last : \A j \in last : j <= i
           k == SkipFrom(t, 1, Space)
<1>1. /\ t \in Seq(Chr) /\ Len(t) = q - p + 1 /\ Len(s) \in Nat
      /\ \A i \in 1..q - p + 1 : t[i] = s[p + i - 1]
  BY PartIs, LenProperties
<1>2. Trim(t) = IF last = {} THEN <<>> ELSE SubSeq(t, k, M)
  BY DEF Trim
<1> HIDE DEF t
<1>3. CASE last = {}
  <2>1. ASSUME NEW j \in p..q PROVE s[j] \in Space
    <3>1. j - p + 1 \in 1..Len(t) /\ p + (j - p + 1) - 1 = j
      BY <1>1
    <3>2. t[j - p + 1] = s[j]
      BY <1>1, <3>1
    <3> QED BY <1>3, <3>1, <3>2
  <2> QED BY <1>2, <1>3, <2>1 DEF t
<1>4. /\ \A x : x \in last <=> x \in 1..Len(t) /\ t[x] \notin Space
      /\ \A x \in last : x \in Nat /\ Len(t) - x \in Nat
  BY <1>1
<1>5. CASE last # {}
  <2> HIDE DEF last
  <2>1. M \in last /\ \A j \in last : j <= M
    <3>1. \E i \in last : \A j \in last : j <= i
      <4>1. last \in SUBSET (0..Len(t)) /\ Len(t) \in Nat
        BY <1>1, <1>4
      <4> QED BY <1>5, <4>1, MostIs
    <3> QED BY <3>1
  <2>2. /\ k \in 1..Len(t) + 1 /\ \A j \in 1..k - 1 : t[j] \in Space
        /\ k <= Len(t) => t[k] \notin Space
    <3>1. 1 \in 1..Len(t) + 1
      BY <1>1
    <3> QED BY <1>1, <3>1, SkipIs
  <2> HIDE DEF M, k
  <2>3. k \in last /\ k <= M /\ \A j \in last : k <= j
    <3>1. ASSUME NEW j \in last PROVE k <= j
      <4>1. j \in 1..Len(t) /\ t[j] \notin Space
        BY <1>4
      <4>2. j \notin 1..k - 1
        BY <2>2, <4>1
      <4> QED BY <2>2, <4>1, <4>2
    <3>2. k <= Len(t)
      <4>1. k <= M /\ M \in 1..Len(t)
        BY <1>4, <2>1, <3>1
      <4> QED BY <1>1, <2>2, <4>1
    <3>3. k \in last
      BY <1>1, <1>4, <2>2, <3>2
    <3> QED BY <2>1, <3>1, <3>3
  <2> DEFINE m == p + k - 1
             n == p + M - 1
  <2>4. m \in p..q /\ n \in p..q /\ m <= n /\ s[m] \notin Space /\ s[n] \notin Space
    <3>1. /\ k \in 1..Len(t) /\ t[k] \notin Space
          /\ M \in 1..Len(t) /\ t[M] \notin Space
      BY <1>4, <2>1, <2>3
    <3>2. m \in p..q /\ n \in p..q /\ m <= n
      BY <1>1, <2>3, <3>1
    <3>3. t[k] = s[m] /\ t[M] = s[n]
      BY <1>1, <3>1
    <3> QED BY <3>1, <3>2, <3>3
  <2>5. ASSUME NEW j \in p..q, s[j] \notin Space PROVE m <= j /\ j <= n
    <3>1. j - p + 1 \in 1..Len(t) /\ p + (j - p + 1) - 1 = j
      BY <1>1
    <3>2. j - p + 1 \in last
      BY <1>1, <1>4, <2>5, <3>1
    <3>3. k <= j - p + 1 /\ j - p + 1 <= M
      BY <2>1, <2>3, <3>2
    <3>4. k \in Int /\ M \in Int /\ p \in Int /\ j \in Int
      BY <1>1, <1>4, <2>1, <2>3
    <3> QED BY <3>3, <3>4
  <2>6. SubSeq(t, k, M) = SubSeq(s, m, n)
    <3>1. k \in 1..Len(t) + 1 /\ M \in k - 1..Len(t)
      BY <1>1, <1>4, <2>1, <2>3
    <3>2. /\ SubSeq(t, k, M) \in Seq(Chr) /\ Len(SubSeq(t, k, M)) = M - k + 1
          /\ \A i \in 1..M - k + 1 : SubSeq(t, k, M)[i] = t[k + i - 1]
      BY <1>1, <3>1, PartIs
    <3>3. m \in 1..Len(s) + 1 /\ n \in m - 1..Len(s) /\ n - m + 1 = M - k + 1
      BY <1>1, <2>4, <3>1
    <3>4. /\ SubSeq(s, m, n) \in Seq(Chr) /\ Len(SubSeq(s, m, n)) = n - m + 1
          /\ \A i \in 1..n - m + 1 : SubSeq(s, m, n)[i] = s[m + i - 1]
      BY <3>3, PartIs
    <3>5. ASSUME NEW i \in 1..M - k + 1 PROVE SubSeq(t, k, M)[i] = SubSeq(s, m, n)[i]
      <4>1. k + i - 1 \in 1..q - p + 1 /\ p + (k + i - 1) - 1 = m + i - 1
        BY <1>1, <3>1
      <4>2. t[k + i - 1] = s[m + i - 1]
        BY <1>1, <4>1
      <4> HIDE DEF m, n
      <4> QED BY <3>2, <3>3, <3>4, <4>2
    <3>6. /\ SubSeq(t, k, M) \in Seq(Chr) /\ SubSeq(s, m, n) \in Seq(Chr)
          /\ Len(SubSeq(t, k, M)) = Len(SubSeq(s, m, n))
          /\ \A i \in 1..Len(SubSeq(t, k, M)) : SubSeq(t, k, M)[i] = SubSeq(s, m, n)[i]
      <4> HIDE DEF m, n
      <4> QED BY <3>2, <3>3, <3>4, <3>5
    <3> DEFINE one == SubSeq(t, k, M)
               other == SubSeq(s, m, n)
    <3> HIDE DEF one, other
    <3>7. /\ one \in Seq(Chr) /\ other \in Seq(Chr) /\ Len(one) = Len(other)
          /\ \A i \in 1..Len(one) : one[i] = other[i]
      BY <3>6 DEF one, other
    <3>8. one = other
      BY <3>7, SeqEqual
    <3> QED BY <3>8 DEF one, other
  <2> HIDE DEF m, n
  <2>7. Trim(t) = SubSeq(s, m, n)
    BY <1>2, <1>5, <2>6 DEF M, k
  <2> QED BY <2>4, <2>5, <2>7 DEF t
<1> QED BY <1>3, <1>5

\* Blanks at the front do not count.
LEMMA TrimSkips ==
  ASSUME NEW Chr, NEW s \in Seq(Chr), NEW p \in 1..Len(s) + 1, NEW q \in p - 1..Len(s),
         NEW a \in p..q + 1, \A j \in p..a - 1 : s[j] \in Space
  PROVE  Trim(SubSeq(s, a, q)) = Trim(SubSeq(s, p, q))
<1>1. Len(s) \in Nat
  BY LenProperties
<1>2. a \in 1..Len(s) + 1 /\ q \in a - 1..Len(s)
  BY <1>1
<1>3. CASE \A j \in p..q : s[j] \in Space
  <2>1. Trim(SubSeq(s, p, q)) = <<>>
    BY <1>3, TrimIs
  <2>2. \A j \in a..q : s[j] \in Space
    BY <1>1, <1>3
  <2>3. Trim(SubSeq(s, a, q)) = <<>>
    BY <1>2, <2>2, TrimIs
  <2> QED BY <2>1, <2>3
<1>4. CASE \E j \in p..q : s[j] \notin Space
  <2>1. PICK m \in p..q, n \in p..q :
          /\ m <= n /\ s[m] \notin Space /\ s[n] \notin Space
          /\ \A j \in p..q : s[j] \notin Space => m <= j /\ j <= n
          /\ Trim(SubSeq(s, p, q)) = SubSeq(s, m, n)
    BY <1>4, TrimIs
  <2>2. PICK c \in a..q : s[c] \notin Space
    <3>1. PICK c \in p..q : s[c] \notin Space
      BY <1>4
    <3>2. c \notin p..a - 1
      BY <3>1
    <3>3. c \in a..q
      BY <1>1, <3>2
    <3> QED BY <3>1, <3>3
  <2>3. PICK u \in a..q, v \in a..q :
          /\ u <= v /\ s[u] \notin Space /\ s[v] \notin Space
          /\ \A j \in a..q : s[j] \notin Space => u <= j /\ j <= v
          /\ Trim(SubSeq(s, a, q)) = SubSeq(s, u, v)
    <3>1. ~ \A j \in a..q : s[j] \in Space
      BY <2>2
    <3>2. \/ /\ \A j \in a..q : s[j] \in Space
             /\ Trim(SubSeq(s, a, q)) = <<>>
          \/ \E u \in a..q, v \in a..q :
               /\ u <= v /\ s[u] \notin Space /\ s[v] \notin Space
               /\ \A j \in a..q : s[j] \notin Space => u <= j /\ j <= v
               /\ Trim(SubSeq(s, a, q)) = SubSeq(s, u, v)
      BY <1>2, TrimIs, ZenonT(60)
    <3> QED BY <3>1, <3>2, Zenon
  <2>4. m \in a..q /\ n \in a..q /\ u \in p..q /\ v \in p..q
    BY <1>1, <2>1, <2>3
  <2>5. m = u /\ n = v
    <3>1. u <= m /\ n <= v
      BY <2>1, <2>3, <2>4
    <3>2. m <= u /\ v <= n
      BY <2>1, <2>3, <2>4
    <3>3. m \in Int /\ n \in Int /\ u \in Int /\ v \in Int
      OBVIOUS
    <3> QED BY <3>1, <3>2, <3>3
  <2> QED BY <2>1, <2>3, <2>5
<1> QED BY <1>3, <1>4

\* config_is_client_allowed lets in who is named and nobody else, for every list
\* and every id.
THEOREM AllowedIsNamed ==
  ASSUME NEW Chr, NEW list \in Seq(Chr), list # <<>>, NEW id, id # <<>>
  PROVE  Allowed(list, id) <=> id \in Items(list)
<1> DEFINE Sep == {","}
<1>t. Sep \cap Space = {}
  BY DEF Space
<1> HIDE DEF Sep
<1> DEFINE L        == Len(list)
           D        == 1..L + 1
           A(p)     == SkipFrom(list, p, Space)
           Z(p)     == UntilFrom(list, A(p), Sep)
           Own(p)   == Trim(SubSeq(list, A(p), Z(p) - 1)) = id
           Val(f, p) == /\ p <= L
                        /\ Own(p) \/ (Z(p) <= L /\ f[Z(p) + 1])
           Item(i)  == Trim(SubSeq(list, i, UntilFrom(list, i, Sep) - 1))
           From(p) == {p} \cup {i + 1 : i \in {k \in p..L : list[k] \in Sep}}
           Is(p)    == \E i \in From(p) : Item(i) = id
<1>1. L \in Nat
  BY LenProperties
\* The item at p, and where the next one begins.
<1>2. ASSUME NEW p \in 1..L
      PROVE  /\ Z(p) \in p..L + 1
             /\ Own(p) <=> Item(p) = id
             /\ From(p) = {p} \cup (IF Z(p) <= L THEN From(Z(p) + 1) ELSE {})
  <2>1. p \in 1..L + 1
    BY <1>1
  <2>a. PICK a : a = A(p)
    OBVIOUS
  <2>2. /\ a \in p..L + 1 /\ \A j \in p..a - 1 : list[j] \in Space
    BY <2>1, <2>a, SkipIs
  <2>3. a \in 1..L + 1
    BY <1>1, <2>2
  <2>z. PICK z : z = UntilFrom(list, a, Sep)
    OBVIOUS
  <2>4. /\ z \in a..L + 1 /\ \A j \in a..z - 1 : list[j] \notin Sep
        /\ z <= L => list[z] \in Sep
    BY <2>3, <2>z, UntilIs
  <2>y. PICK y : y = UntilFrom(list, p, Sep)
    OBVIOUS
  <2>5. /\ y \in p..L + 1 /\ \A j \in p..y - 1 : list[j] \notin Sep
        /\ y <= L => list[y] \in Sep
    BY <2>1, <2>y, UntilIs
  <2>i. a \in Int /\ y \in Int /\ z \in Int /\ p \in Int
    BY <1>1, <2>2, <2>4, <2>5
  <2>6. \A j \in p..z - 1 : list[j] \notin Sep
    <3> SUFFICES ASSUME NEW j \in p..z - 1 PROVE list[j] \notin Sep
      OBVIOUS
    <3>1. j \in p..a - 1 \/ j \in a..z - 1
      BY <2>i
    <3> QED BY <1>t, <2>2, <2>4, <3>1
  <2>7. y = z
    <3>1. ~(y < z)
      <4>1. y < z => y \in p..z - 1 /\ y <= L
        BY <1>1, <2>i, <2>4, <2>5
      <4> QED BY <2>5, <2>6, <4>1
    <3>2. ~(z < y)
      <4>1. z < y => z \in p..y - 1 /\ z <= L
        BY <1>1, <2>i, <2>2, <2>4, <2>5
      <4> QED BY <2>4, <2>5, <4>1
    <3> QED BY <2>i, <3>1, <3>2
  <2>8. Trim(SubSeq(list, a, z - 1)) = Trim(SubSeq(list, p, z - 1))
    <3>1. z - 1 \in p - 1..L /\ a \in p..(z - 1) + 1
      BY <1>1, <2>i, <2>2, <2>4
    <3> QED BY <2>1, <2>2, <3>1, TrimSkips
  <2>9. From(p) = {p} \cup (IF z <= L THEN From(z + 1) ELSE {})
    <3>1. CASE z <= L
      <4>1. \A k \in p..L : list[k] \in Sep <=> k = z \/ (k \in z + 1..L /\ list[k] \in Sep)
        BY <1>1, <2>i, <2>2, <2>4, <2>6, <3>1
      <4>2. z \in p..L /\ z + 1..L \subseteq p..L
        BY <1>1, <2>i, <2>2, <2>4, <3>1
      <4>3. {k \in p..L : list[k] \in Sep} = {z} \cup {k \in z + 1..L : list[k] \in Sep}
        BY <4>1, <4>2
      <4> QED BY <3>1, <4>3
    <3>2. CASE ~(z <= L)
      <4>1. {k \in p..L : list[k] \in Sep} = {}
        BY <1>1, <2>i, <2>4, <2>6, <3>2
      <4> QED BY <3>2, <4>1
    <3> QED BY <3>1, <3>2
  <2> QED BY <2>2, <2>i, <2>a, <2>z, <2>y, <2>4, <2>5, <2>7, <2>8, <2>9
<1>3. ASSUME NEW p \in D PROVE Is(p) <=> p <= L /\ (Own(p) \/ (Z(p) <= L /\ Is(Z(p) + 1)))
  <2>1. CASE p <= L
    <3>1. p \in 1..L
      BY <1>1, <2>1
    <3> HIDE DEF Own, Z, Item, From
    <3> QED BY <1>2, <2>1, <3>1
  <2>2. CASE p = L + 1
    <3>1. From(p) = {p}
      BY <1>1, <2>2
    <3>2. UntilFrom(list, p, Sep) = p
      <4>1. UntilFrom(list, p, Sep) \in p..L + 1
        BY UntilIs
      <4> QED BY <1>1, <2>2, <4>1
    <3>3. SubSeq(list, p, p - 1) = <<>>
      BY <1>1, SubSeqEmpty
    <3>4. Trim(<<>>) = <<>>
      BY DEF Trim
    <3>5. Item(p) # id
      BY <3>2, <3>3, <3>4
    <3> HIDE DEF Item, From
    <3> QED BY <1>1, <2>2, <3>1, <3>5
  <2> QED BY <1>1, <2>1, <2>2
<1> HIDE DEF Own, Z, Item, From
<1> DEFINE P(f) == f = [p \in D |-> Val(f, p)]
           from == CHOOSE f : P(f)
<1>4. P(from)
  <2> DEFINE W == [p \in D |-> Is(p)]
  <2>1. ASSUME NEW p \in D PROVE Is(p) = Val(W, p)
    <3>1. Val(W, p) \in BOOLEAN /\ Is(p) \in BOOLEAN
      OBVIOUS
    <3>2. p <= L /\ Z(p) <= L => W[Z(p) + 1] = Is(Z(p) + 1)
      <4>1. p <= L /\ Z(p) <= L => Z(p) + 1 \in D
        BY <1>1, <1>2
      <4> HIDE DEF Is
      <4> QED BY <4>1
    <3>3. Val(W, p) <=> Is(p)
      <4> HIDE DEF W, Is
      <4> QED BY <1>3, <3>2
    <3> QED BY <3>1, <3>3, Zenon
  <2>2. W = [p \in D |-> Val(W, p)]
    <3> HIDE DEF Is, Val
    <3> QED BY <2>1
  <2>3. P(W)
    BY <2>2, Zenon
  <2> HIDE DEF P, W
  <2> QED BY <2>3
<1>5. ASSUME NEW p \in D PROVE from[p] <=> Val(from, p)
  BY <1>4, Zenon
<1> HIDE DEF from, P
<1> DEFINE T == {n \in Nat : \A p \in D : L + 1 - p <= n => (from[p] <=> Is(p))}
<1>6. 0 \in T
  <2> HIDE DEF Is
  <2>1. ASSUME NEW p \in D, L + 1 - p <= 0 PROVE from[p] <=> Is(p)
    <3>1. ~(p <= L)
      BY <1>1, <2>1
    <3> QED BY <1>3, <1>5, <3>1
  <2> QED BY <2>1
<1>7. ASSUME NEW n \in Nat, n \in T PROVE n + 1 \in T
  <2> HIDE DEF Is
  <2>1. ASSUME NEW p \in D, L + 1 - p <= n + 1 PROVE from[p] <=> Is(p)
    <3>1. p <= L => Z(p) \in p..L + 1
      BY <1>1, <1>2
    <3>2. p <= L /\ Z(p) <= L => Z(p) + 1 \in D /\ L + 1 - (Z(p) + 1) <= n
      BY <1>1, <2>1, <3>1
    <3>3. p <= L /\ Z(p) <= L => (from[Z(p) + 1] <=> Is(Z(p) + 1))
      BY <1>7, <3>2
    <3> QED BY <1>3, <1>5, <3>3
  <2> QED BY <2>1
<1>8. \A n \in Nat : n \in T
  <2> HIDE DEF T
  <2> QED BY <1>6, <1>7, NatSets
<1>9. from[1] <=> Is(1)
  <2>1. L \in T
    <3> HIDE DEF T
    <3> QED BY <1>1, <1>8
  <2>2. 1 \in D /\ L + 1 - 1 <= L
    BY <1>1
  <2> HIDE DEF Is
  <2> QED BY <2>1, <2>2
<1>10. Allowed(list, id) <=> from[1]
  BY DEF Allowed, from, P, Own, Z, Sep
<1>11. Is(1) <=> id \in Items(list)
  BY DEF Items, Item, From, Sep
<1> QED BY <1>9, <1>10, <1>11

\* A cut that does not cut.
LEMMA CopiedWhole ==
  ASSUME NEW Chr, NEW s \in Seq(Chr), NEW size, Len(s) < size
  PROVE  Copied(s, size) = s
BY SubSeqFull DEF Copied

\* config_is_client_allowed and what handle_oauth asks it, if the configuration
\* fits.
LEMMA AllowedIsEntitled ==
  ASSUME NEW id, conf \in Confs, ConfFits
  PROVE  /\ ClientSerial(id) # <<>>
         /\ \A code : MayRegister(ClientSerial(id), code) <=> EntitledTo(ClientSerial(id), code)
<1>1. ClientSerial(id) # <<>>
  BY DEF ClientSerial, Unknown
<1>2. conf.list \in Texts /\ conf.eas \in Texts /\ conf.names = Items(conf.list)
  BY ConfsAssumption
<1>3. List = conf.list /\ Eas = conf.eas
  BY <1>2, CopiedWhole DEF Texts, ConfFits, List, Eas
<1>4. Allowed(conf.list, ClientSerial(id)) <=>
        conf.list = <<>> \/ ClientSerial(id) \in conf.names
  <2>1. CASE conf.list = <<>>
    BY <2>1 DEF Allowed
  <2>2. CASE conf.list # <<>>
    BY <1>1, <1>2, <2>2, AllowedIsNamed DEF Texts
  <2> QED BY <2>1, <2>2
<1> QED BY <1>1, <1>3, <1>4 DEF MayRegister, EntitledTo

(***************************************************************************)
(* Base64, for all bytes.                                                  *)
(***************************************************************************)
Bytes    == 0..255
Sextets  == 0..63
States64 == [buf : Nat, bits : {0, 2, 4, 6}, out : Seq(Bytes)]
Start64  == [buf |-> 0, bits |-> 0, out |-> <<>>]

\* The four digits of three bytes, the buffer with one more digit, and the byte
\* that k stands for.
D1(a)    == a \div 4
D2(a, b) == 16 * (a % 4) + (b \div 16)
D3(b, c) == 4 * (b % 16) + (c \div 64)
D4(c)    == c % 64

Shifted(buf, d) == (buf % 1024) * 64 + d
Out(buf, k)     == (buf \div k) % 256

LEMMA Division ==
  ASSUME NEW k \in Nat \ {0}, NEW q \in Int, NEW r \in 0..k - 1
  PROVE  (q * k + r) \div k = q /\ (q * k + r) % k = r
BY SMT

LEMMA Divided ==
  ASSUME NEW n \in Nat, NEW k \in Nat \ {0}
  PROVE  n \div k \in Nat /\ n % k \in 0..k - 1 /\ k * (n \div k) + (n % k) = n
<1>1. n \div k \in Int /\ n \div k >= 0
  BY SMT
<1>2. n % k \in 0..k - 1
  BY SMT
<1>3. k * (n \div k) + (n % k) = n
  BY SMT
<1> QED BY <1>1, <1>2, <1>3

LEMMA StartType == Start64 \in States64
<1>1. <<>> \in Seq(Bytes)
  BY EmptySeq
<1> QED BY <1>1 DEF States64, Bytes, Start64

LEMMA DigitType ==
  ASSUME NEW s \in States64, NEW d \in Nat PROVE Digit64(s, d) \in States64
<1> DEFINE buf == (s.buf % 1024) * 64 + d
           bits == s.bits + 6
<1>1. /\ s.buf \in Nat /\ s.bits \in {0, 2, 4, 6} /\ s.out \in Seq(Bytes)
      /\ buf \in Nat
  <2>1. s.buf \in Nat /\ s.bits \in {0, 2, 4, 6} /\ s.out \in Seq(Bytes)
    BY DEF States64, Bytes
  <2>2. s.buf % 1024 \in Nat
    BY <2>1, SMT
  <2> QED BY <2>1, <2>2
<1>2. CASE d \notin 0..63
  BY <1>2 DEF Digit64
<1>3. CASE d \in 0..63 /\ s.bits = 0
  <2>1. Digit64(s, d) = [buf |-> buf, bits |-> 6, out |-> s.out]
    BY <1>3 DEF Digit64
  <2> QED BY <1>1, <2>1 DEF States64, Bytes
<1>4. CASE d \in 0..63 /\ s.bits # 0
  <2> DEFINE b == (buf \div Shift[bits - 7]) % 256
  <2>1. Digit64(s, d) = [buf |-> buf, bits |-> bits - 8, out |-> Append(s.out, b)]
    BY <1>1, <1>4 DEF Digit64
  <2>2. buf \div Shift[bits - 7] \in Nat
    <3> HIDE DEF buf
    <3> QED BY <1>1, <1>4 DEF Shift
  <2>3. b \in 0..255
    <3> DEFINE x == buf \div Shift[bits - 7]
    <3>1. x \in Nat
      BY <2>2
    <3> HIDE DEF x
    <3>2. x % 256 \in 0..255
      BY <3>1, SMT
    <3> QED BY <3>2 DEF x
  <2>4. bits - 8 \in {0, 2, 4, 6}
    BY <1>1, <1>4
  <2>5. Append(s.out, b) \in Seq(Bytes)
    <3>1. b \in Bytes
      BY <2>3 DEF Bytes
    <3> HIDE DEF b
    <3> QED BY <1>1, <3>1, AppendProperties
  <2> HIDE DEF buf, bits, b
  <2> QED BY <1>1, <2>1, <2>4, <2>5 DEF States64, Bytes
<1> QED BY <1>2, <1>3, <1>4

\* The decoder's states, one digit after the other.
LEMMA DecodeIs ==
  ASSUME NEW in \in Seq(Nat)
  PROVE  \E at : /\ at[0] = Start64
                 /\ \A i \in 1..Len(in) : at[i] = Digit64(at[i - 1], in[i])
                 /\ \A i \in 0..Len(in) : at[i] \in States64
                 /\ Base64Decode(in) = at[Len(in)].out
<1> DEFINE Val(f, i) == IF i = 0 THEN Start64 ELSE Digit64(f[i - 1], in[i])
           Has(n)    == \E f : f = [i \in 0..n |-> Val(f, i)]
           S         == {n \in Nat : Has(n)}
<1>0. Len(in) \in Nat /\ \A i \in 1..Len(in) : in[i] \in Nat
  BY LenProperties, ElementOfSeq
<1>1. 0 \in S
  <2> DEFINE f == [i \in 0..0 |-> Start64]
  <2>1. f = [i \in 0..0 |-> Val(f, i)]
    OBVIOUS
  <2> QED BY <2>1
<1>2. ASSUME NEW n \in Nat, n \in S PROVE n + 1 \in S
  <2>1. PICK f : f = [i \in 0..n |-> Val(f, i)]
    BY <1>2
  <2> DEFINE h == [i \in 0..n + 1 |-> IF i = n + 1 THEN Val(f, i) ELSE f[i]]
  <2>2. ASSUME NEW i \in 0..n + 1 PROVE h[i] = Val(h, i)
    <3>1. i # 0 => i - 1 \in 0..n + 1 /\ i - 1 # n + 1
      OBVIOUS
    <3>2. i # 0 => h[i - 1] = f[i - 1]
      BY <3>1
    <3>3. i # n + 1 => f[i] = Val(f, i)
      <4>1. i # n + 1 => i \in 0..n
        OBVIOUS
      <4> QED BY <2>1, <4>1
    <3> QED BY <3>2, <3>3
  <2>3. h = [i \in 0..n + 1 |-> Val(h, i)]
    BY <2>2
  <2> HIDE DEF h
  <2>4. Has(n + 1)
    BY <2>3, Zenon
  <2> HIDE DEF Has
  <2> QED BY <2>4
<1>3. Len(in) \in S
  <2> HIDE DEF S
  <2> QED BY <1>0, <1>1, <1>2, NatSets
<1> DEFINE P(f) == f = [i \in 0..Len(in) |-> Val(f, i)]
           at == CHOOSE f : P(f)
<1>4. \E f : P(f)
  BY <1>3
<1>5. P(at)
  <2> HIDE DEF P
  <2> QED BY <1>4
<1>6. Base64Decode(in) = at[Len(in)].out
  BY DEF Base64Decode, Start64
<1> HIDE DEF at
<1>7. \A i \in 0..Len(in) : at[i] = Val(at, i)
  BY <1>5, Zenon
<1>8. at[0] = Start64
  BY <1>0, <1>7
<1>9. ASSUME NEW i \in 1..Len(in) PROVE at[i] = Digit64(at[i - 1], in[i])
  BY <1>0, <1>7
<1> DEFINE T == {n \in Nat : n <= Len(in) => at[n] \in States64}
<1>10. 0 \in T
  BY <1>8, StartType
<1>11. ASSUME NEW n \in Nat, n \in T PROVE n + 1 \in T
  <2> SUFFICES ASSUME n + 1 <= Len(in) PROVE at[n + 1] \in States64
    OBVIOUS
  <2>1. n + 1 \in 1..Len(in) /\ at[n] \in States64 /\ (n + 1) - 1 = n
    BY <1>0, <1>11
  <2> QED BY <1>0, <1>9, <2>1, DigitType
<1>12. \A n \in Nat : n \in T
  <2> HIDE DEF T
  <2> QED BY <1>10, <1>11, NatSets
<1> QED BY <1>0, <1>6, <1>8, <1>9, <1>12

\* Three bytes of eight bits as four digits of six.
LEMMA FourDigits ==
  ASSUME NEW a \in Bytes, NEW b \in Bytes, NEW c \in Bytes,
         NEW n, n = 65536 * a + 256 * b + c
  PROVE  /\ n \div 262144 = D1(a) /\ (n \div 4096) % 64 = D2(a, b)
         /\ (n \div 64) % 64 = D3(b, c) /\ n % 64 = D4(c)
<1> USE DEF Bytes, Sextets
<1>1. n \div 262144 = a \div 4
  BY SMT
<1>2. (n \div 4096) % 64 = 16 * (a % 4) + (b \div 16)
  <2>1. n \div 4096 = a * 16 + (b \div 16)
    BY SMT
  <2>2. (a * 16 + (b \div 16)) % 64 = 16 * (a % 4) + (b \div 16)
    BY SMT
  <2> QED BY <2>1, <2>2, SMT
<1>3. (n \div 64) % 64 = 4 * (b % 16) + (c \div 64)
  <2>1. n \div 64 = a * 1024 + b * 4 + (c \div 64)
    BY SMT
  <2>2. (a * 1024 + b * 4 + (c \div 64)) % 64 = 4 * (b % 16) + (c \div 64)
    BY SMT
  <2> QED BY <2>1, <2>2, SMT
<1>4. n % 64 = c % 64
  BY SMT
<1> QED BY <1>1, <1>2, <1>3, <1>4 DEF D1, D2, D3, D4

\* One digit, by the bits that are still to be put out.
LEMMA DigitIs ==
  ASSUME NEW s \in States64, NEW d \in Sextets
  PROVE  /\ s.bits = 0 => Digit64(s, d) = [buf |-> Shifted(s.buf, d), bits |-> 6,
                                           out |-> s.out]
         /\ s.bits = 6 => Digit64(s, d) = [buf |-> Shifted(s.buf, d), bits |-> 4,
                                           out |-> Append(s.out, Out(Shifted(s.buf, d), 16))]
         /\ s.bits = 4 => Digit64(s, d) = [buf |-> Shifted(s.buf, d), bits |-> 2,
                                           out |-> Append(s.out, Out(Shifted(s.buf, d), 4))]
         /\ s.bits = 2 => Digit64(s, d) = [buf |-> Shifted(s.buf, d), bits |-> 0,
                                           out |-> Append(s.out, Out(Shifted(s.buf, d), 1))]
<1> USE DEF Bytes, Sextets
<1> DEFINE buf == (s.buf % 1024) * 64 + d
<1> DEFINE bits == s.bits + 6
<1>1. /\ s.bits = 0 => bits = 6 /\ ~(bits >= 8)
      /\ s.bits = 6 => bits >= 8 /\ bits - 8 = 4 /\ bits - 7 = 5
      /\ s.bits = 4 => bits >= 8 /\ bits - 8 = 2 /\ bits - 7 = 3
      /\ s.bits = 2 => bits >= 8 /\ bits - 8 = 0 /\ bits - 7 = 1
  OBVIOUS
<1>2. Digit64(s, d) =
        IF bits >= 8 THEN [buf |-> buf, bits |-> bits - 8,
                           out |-> Append(s.out, (buf \div Shift[bits - 7]) % 256)]
        ELSE [buf |-> buf, bits |-> bits, out |-> s.out]
  BY Zenon DEF Digit64
<1>3. Shift[5] = 16 /\ Shift[3] = 4 /\ Shift[1] = 1
  BY DEF Shift
<1> DEFINE R(x, y) == [buf |-> buf, bits |-> x,
                       out |-> Append(s.out, (buf \div Shift[y]) % 256)]
<1>r. bits >= 8 => Digit64(s, d) = R(bits - 8, bits - 7)
  BY <1>2, ZenonT(60)
<1> HIDE DEF bits, R, buf
<1>4. ASSUME s.bits = 0 PROVE Digit64(s, d) = [buf |-> buf, bits |-> 6, out |-> s.out]
  BY <1>1, <1>2, <1>4
<1>5. ASSUME s.bits = 6
      PROVE  Digit64(s, d) = [buf |-> buf, bits |-> 4,
                              out |-> Append(s.out, (buf \div Shift[5]) % 256)]
  <2>1. bits >= 8 /\ bits - 8 = 4 /\ bits - 7 = 5
    BY <1>1, <1>5
  <2>2. Digit64(s, d) = R(4, 5)
    BY <1>r, <2>1
  <2> QED BY <2>2, Zenon DEF R
<1>6. ASSUME s.bits = 4
      PROVE  Digit64(s, d) = [buf |-> buf, bits |-> 2,
                              out |-> Append(s.out, (buf \div Shift[3]) % 256)]
  <2>1. bits >= 8 /\ bits - 8 = 2 /\ bits - 7 = 3
    BY <1>1, <1>6
  <2>2. Digit64(s, d) = R(2, 3)
    BY <1>r, <2>1
  <2> QED BY <2>2, Zenon DEF R
<1>7. ASSUME s.bits = 2
      PROVE  Digit64(s, d) = [buf |-> buf, bits |-> 0,
                              out |-> Append(s.out, (buf \div Shift[1]) % 256)]
  <2>1. bits >= 8 /\ bits - 8 = 0 /\ bits - 7 = 1
    BY <1>1, <1>7
  <2>2. Digit64(s, d) = R(0, 1)
    BY <1>r, <2>1
  <2> QED BY <2>2, Zenon DEF R
<1>8. buf = Shifted(s.buf, d) /\ \A k : Out(buf, k) = (buf \div k) % 256
  BY DEF buf, Shifted, Out
<1> QED BY <1>1, <1>3, <1>4, <1>5, <1>6, <1>7, <1>8, SMT

\* What the decoder puts out of two digits.
LEMMA TwoDigits ==
  ASSUME NEW x \in Nat, NEW d \in Sextets, NEW e \in Sextets
  PROVE  /\ Shifted(x, d) \in Nat
         /\ Out(Shifted(Shifted(x, d), e), 16) = d * 4 + (e \div 16)
         /\ Out(Shifted(Shifted(x, d), e), 4)  = (d % 16) * 16 + (e \div 4)
         /\ Out(Shifted(Shifted(x, d), e), 1)  = (d % 4) * 64 + e
<1> USE DEF Bytes, Sextets
<1> DEFINE y == (x % 1024) * 64 + d
           z == (y % 1024) * 64 + e
<1>1. y \in Nat /\ y % 64 = d /\ y % 16 = d % 16 /\ y % 4 = d % 4
  <2>1. PICK r \in Nat : r = x % 1024
    BY SMT
  <2>2. y = r * 64 + d
    BY <2>1, SMT
  <2> HIDE DEF y
  <2>3. y \in Nat /\ y % 64 = d
    BY <2>2, SMT
  <2>4. y % 16 = d % 16
    BY <2>2, SMT
  <2>5. y % 4 = d % 4
    BY <2>2, SMT
  <2> QED BY <2>3, <2>4, <2>5
<1> HIDE DEF y
<1>2. PICK r \in 0..1023 : r = y % 1024
  BY <1>1, SMT
<1>2a. r % 64 = y % 64
  BY <1>1, <1>2, SMT
<1>2b. r % 16 = y % 16
  BY <1>1, <1>2, SMT
<1>2c. r % 4 = y % 4
  BY <1>1, <1>2, SMT
<1>3. z = r * 64 + e
  BY <1>2
<1> HIDE DEF z
<1>4. (z \div 16) % 256 = d * 4 + (e \div 16)
  <2>1. z \div 16 = r * 4 + (e \div 16)
    BY <1>3, SMT
  <2>2. (r * 4 + (e \div 16)) % 256 = (r % 64) * 4 + (e \div 16)
    BY SMT
  <2> QED BY <1>1, <1>2a, <2>1, <2>2
<1>5. (z \div 4) % 256 = (d % 16) * 16 + (e \div 4)
  <2>1. z \div 4 = r * 16 + (e \div 4)
    BY <1>3, SMT
  <2>2. (r * 16 + (e \div 4)) % 256 = (r % 16) * 16 + (e \div 4)
    BY SMT
  <2> QED BY <1>1, <1>2b, <2>1, <2>2
<1>6. (z \div 1) % 256 = (d % 4) * 64 + e
  <2>1. z \div 1 = r * 64 + e
    BY <1>3, SMT
  <2>2. (r * 64 + e) % 256 = (r % 4) * 64 + e
    BY SMT
  <2> QED BY <1>1, <1>2c, <2>1, <2>2
<1>7. Shifted(x, d) = y /\ Shifted(y, e) = z /\ \A k : Out(z, k) = (z \div k) % 256
  BY DEF Shifted, Out, y, z
<1> QED BY <1>1, <1>4, <1>5, <1>6, <1>7

LEMMA DigitsBack ==
  ASSUME NEW a \in Bytes, NEW b \in Bytes, NEW c \in Bytes
  PROVE  /\ D1(a) * 4 + (D2(a, b) \div 16) = a
         /\ (D2(a, b) % 16) * 16 + (D3(b, c) \div 4) = b
         /\ (D3(b, c) % 4) * 64 + D4(c) = c
<1> USE DEF Bytes, Sextets
<1>1. D1(a) * 4 + (D2(a, b) \div 16) = a
  BY SMT DEF D1, D2
<1>2. (D2(a, b) % 16) * 16 + (D3(b, c) \div 4) = b
  <2>1. (16 * (a % 4) + (b \div 16)) % 16 = b \div 16
    BY SMT
  <2>2. (4 * (b % 16) + (c \div 64)) \div 4 = b % 16
    BY SMT
  <2> QED BY <2>1, <2>2, SMT DEF D2, D3
<1>3. (D3(b, c) % 4) * 64 + D4(c) = c
  <2>1. (4 * (b % 16) + (c \div 64)) % 4 = c \div 64
    BY SMT
  <2> QED BY <2>1, SMT DEF D3, D4
<1> QED BY <1>1, <1>2, <1>3

LEMMA DigitTypes ==
  ASSUME NEW a \in Bytes, NEW b \in Bytes, NEW c \in Bytes
  PROVE  D1(a) \in Sextets /\ D2(a, b) \in Sextets /\ D3(b, c) \in Sextets /\ D4(c) \in Sextets
<1> USE DEF Bytes, Sextets
<1>1. a \div 4 \in 0..63 /\ a % 4 \in 0..3
  BY SMT
<1>2. b \div 16 \in 0..15 /\ b % 16 \in 0..15
  BY SMT
<1>3. c \div 64 \in 0..3 /\ c % 64 \in 0..63
  BY SMT
<1> QED BY <1>1, <1>2, <1>3 DEF D1, D2, D3, D4

\* The decoder behind two, three and four digits of a group.
Two(s, a, b)      == Digit64(Digit64(s, D1(a)), D2(a, b))
Three(s, a, b, c) == Digit64(Two(s, a, b), D3(b, c))
Four(s, a, b, c)  == Digit64(Three(s, a, b, c), D4(c))

\* The decoder reads a group of four digits.
LEMMA GroupRead ==
  ASSUME NEW s \in States64, s.bits = 0,
         NEW a \in Bytes, NEW b \in Bytes, NEW c \in Bytes
  PROVE  /\ Two(s, a, b).out = Append(s.out, a)
         /\ Three(s, a, b, c).out = Append(Two(s, a, b).out, b)
         /\ Four(s, a, b, c).out = Append(Three(s, a, b, c).out, c)
         /\ Four(s, a, b, c).bits = 0
<1> DEFINE s1 == Digit64(s, D1(a))
           s2 == Two(s, a, b)
           s3 == Three(s, a, b, c)
           s4 == Four(s, a, b, c)
<1>4. /\ s1 = Digit64(s, D1(a)) /\ s2 = Digit64(s1, D2(a, b))
      /\ s3 = Digit64(s2, D3(b, c)) /\ s4 = Digit64(s3, D4(c))
  BY DEF Two, Three, Four
<1> HIDE DEF s1, s2, s3, s4
<1> DEFINE b1 == Shifted(s.buf, D1(a))
           b2 == Shifted(b1, D2(a, b))
           b3 == Shifted(b2, D3(b, c))
           b4 == Shifted(b3, D4(c))
<1>1. s.buf \in Nat
  BY DEF States64
<1>2. D1(a) \in Sextets /\ D2(a, b) \in Sextets /\ D3(b, c) \in Sextets /\ D4(c) \in Sextets
  BY DigitTypes
<1>3. Out(b2, 16) = a /\ Out(b3, 4) = b /\ Out(b4, 1) = c
  BY <1>1, <1>2, TwoDigits, DigitsBack
<1>5. s1 \in States64 /\ s2 \in States64 /\ s3 \in States64
  <2>1. \A d \in Sextets : d \in Nat
    BY DEF Sextets
  <2> QED BY <1>4, <1>2, <2>1, DigitType
<1>6. s1 = [buf |-> b1, bits |-> 6, out |-> s.out]
  BY <1>4, <1>2, DigitIs
<1> HIDE DEF b1
<1>7. s2 = [buf |-> b2, bits |-> 4, out |-> Append(s.out, a)]
  <2>1. s1.bits = 6 /\ b2 = Shifted(s1.buf, D2(a, b)) /\ s1.out = s.out
    BY <1>6
  <2> HIDE DEF b2
  <2> QED BY <1>4, <1>2, <1>3, <1>5, <2>1, DigitIs
<1> HIDE DEF b2
<1>8. s3 = [buf |-> b3, bits |-> 2, out |-> Append(s2.out, b)]
  <2>1. s2.bits = 4 /\ b3 = Shifted(s2.buf, D3(b, c))
    BY <1>7
  <2> HIDE DEF b3
  <2> QED BY <1>4, <1>2, <1>3, <1>5, <2>1, DigitIs
<1> HIDE DEF b3
<1>9. s4 = [buf |-> b4, bits |-> 0, out |-> Append(s3.out, c)]
  <2>1. s3.bits = 2 /\ b4 = Shifted(s3.buf, D4(c))
    BY <1>8
  <2> HIDE DEF b4
  <2> QED BY <1>4, <1>2, <1>3, <1>5, <2>1, DigitIs
<1>10. s2.out = Append(s.out, a)
  BY <1>7
<1>11. s3.out = Append(s2.out, b)
  BY <1>8
<1>12. s4.out = Append(s3.out, c) /\ s4.bits = 0
  BY <1>9
<1> QED BY <1>10, <1>11, <1>12 DEF s2, s3, s4

(***************************************************************************)
(* The encoder, group by group.                                            *)
(***************************************************************************)
\* The byte at i, 0 behind the end.
ByteAt(in, i) == IF i <= Len(in) THEN in[i] ELSE 0

LEMMA EncodeIs ==
  ASSUME NEW in \in Seq(Bytes), NEW g \in 0..((Len(in) + 2) \div 3) - 1
  PROVE  LET a == ByteAt(in, 3 * g + 1)
             b == ByteAt(in, 3 * g + 2)
             c == ByteAt(in, 3 * g + 3)
             enc == Base64Encode(in)
         IN  /\ a \in Bytes /\ b \in Bytes /\ c \in Bytes
             /\ enc[4 * g + 1] = D1(a) /\ enc[4 * g + 2] = D2(a, b)
             /\ enc[4 * g + 3] = IF 3 * g + 2 <= Len(in) THEN D3(b, c) ELSE Pad
             /\ enc[4 * g + 4] = IF 3 * g + 3 <= Len(in) THEN D4(c) ELSE Pad
<1> DEFINE G == (Len(in) + 2) \div 3
           a == ByteAt(in, 3 * g + 1)
           b == ByteAt(in, 3 * g + 2)
           c == ByteAt(in, 3 * g + 3)
           enc == Base64Encode(in)
<1>1. Len(in) \in Nat /\ G \in Nat /\ g \in Nat /\ 3 * g + 1 <= Len(in)
  <2>1. Len(in) \in Nat
    BY LenProperties
  <2> QED BY <2>1, SMT
<1>2. ASSUME NEW i \in Nat, i > 0 PROVE ByteAt(in, i) \in Bytes
  <2>1. i <= Len(in) => in[i] \in Bytes
    BY <1>1, <1>2, ElementOfSeq
  <2>2. 0 \in Bytes
    BY DEF Bytes
  <2> QED BY <2>1, <2>2 DEF ByteAt
<1>3. a \in Bytes /\ b \in Bytes /\ c \in Bytes
  BY <1>1, <1>2
<1> DEFINE n == 65536 * a + 256 * b + c
           Group == << n \div 262144, (n \div 4096) % 64,
                       IF (3 * g + 1) + 1 <= Len(in) THEN (n \div 64) % 64 ELSE Pad,
                       IF (3 * g + 1) + 2 <= Len(in) THEN n % 64 ELSE Pad >>
<1>4. ASSUME NEW k \in 1..4 * G, (k - 1) \div 4 = g PROVE enc[k] = Group[((k - 1) % 4) + 1]
  <2> DEFINE B(i) == IF i <= Len(in) THEN in[i] ELSE 0
             m(i) == 65536 * B(i) + 256 * B(i + 1) + B(i + 2)
             All(h) == << m(3 * h + 1) \div 262144, (m(3 * h + 1) \div 4096) % 64,
                          IF (3 * h + 1) + 1 <= Len(in) THEN (m(3 * h + 1) \div 64) % 64 ELSE Pad,
                          IF (3 * h + 1) + 2 <= Len(in) THEN m(3 * h + 1) % 64 ELSE Pad >>
  <2>1. enc = [j \in 1..4 * G |-> All((j - 1) \div 4)[((j - 1) % 4) + 1]]
    BY DEF Base64Encode
  <2>2. (3 * g + 1) + 1 = 3 * g + 2 /\ (3 * g + 1) + 2 = 3 * g + 3
    BY <1>1
  <2>3. n = m(3 * g + 1)
    BY <2>2 DEF ByteAt
  <2> HIDE DEF n, m
  <2>4. All(g) = Group
    BY <2>3
  <2> HIDE DEF All, Group
  <2> QED BY <1>4, <2>1, <2>4
<1>5. /\ n \div 262144 = D1(a) /\ (n \div 4096) % 64 = D2(a, b)
      /\ (n \div 64) % 64 = D3(b, c) /\ n % 64 = D4(c)
  BY <1>3, FourDigits
<1> HIDE DEF n
<1>6. /\ Group[1] = D1(a) /\ Group[2] = D2(a, b)
      /\ Group[3] = IF (3 * g + 1) + 1 <= Len(in) THEN D3(b, c) ELSE Pad
      /\ Group[4] = IF (3 * g + 1) + 2 <= Len(in) THEN D4(c) ELSE Pad
  BY <1>5
<1> HIDE DEF Group
<1>7. ASSUME NEW r \in 1..4 PROVE enc[4 * g + r] = Group[r]
  <2> DEFINE k == 4 * g + r
  <2>1. k \in 1..4 * G
    BY <1>1
  <2>2. (k - 1) \div 4 = g /\ ((k - 1) % 4) + 1 = r
    BY <1>1, SMT
  <2> HIDE DEF k
  <2>3. enc[k] = Group[r]
    BY <1>4, <2>1, <2>2
  <2> QED BY <2>3 DEF k
<1>8. /\ enc[4 * g + 1] = Group[1] /\ enc[4 * g + 2] = Group[2]
      /\ enc[4 * g + 3] = Group[3] /\ enc[4 * g + 4] = Group[4]
  BY <1>7
<1>9. (3 * g + 1) + 1 = 3 * g + 2 /\ (3 * g + 1) + 2 = 3 * g + 3
  BY <1>1
<1> QED BY <1>3, <1>6, <1>8, <1>9

\* The encoding's type: digits and padding, four of them for each group.
LEMMA EncodeType ==
  ASSUME NEW in \in Seq(Bytes), NEW G, G = (Len(in) + 2) \div 3
  PROVE  Base64Encode(in) \in Seq(Nat) /\ Len(Base64Encode(in)) = 4 * G /\ G \in Nat
<1> DEFINE enc == Base64Encode(in)
<1>1. Len(in) \in Nat /\ G \in Nat
  <2>1. Len(in) \in Nat
    BY LenProperties
  <2> QED BY <2>1, SMT
<1>2. \E e : enc = [k \in 1..4 * G |-> e[k]]
  <2>1. enc = [k \in 1..4 * G |-> enc[k]]
    BY DEF Base64Encode
  <2> HIDE DEF enc
  <2> QED BY <2>1
<1>3. ASSUME NEW k \in 1..4 * G PROVE enc[k] \in Nat
  <2> DEFINE g == (k - 1) \div 4
  <2>1. g \in 0..G - 1 /\ k \in {4 * g + 1, 4 * g + 2, 4 * g + 3, 4 * g + 4}
    BY <1>1, SMT
  <2> HIDE DEF g
  <2> DEFINE a == ByteAt(in, 3 * g + 1)
             b == ByteAt(in, 3 * g + 2)
             c == ByteAt(in, 3 * g + 3)
  <2>2. /\ a \in Bytes /\ b \in Bytes /\ c \in Bytes
        /\ enc[4 * g + 1] = D1(a) /\ enc[4 * g + 2] = D2(a, b)
        /\ enc[4 * g + 3] = IF 3 * g + 2 <= Len(in) THEN D3(b, c) ELSE Pad
        /\ enc[4 * g + 4] = IF 3 * g + 3 <= Len(in) THEN D4(c) ELSE Pad
    BY <2>1, EncodeIs, SMTT(30)
  <2> HIDE DEF a, b, c, enc
  <2>3. D1(a) \in Nat /\ D2(a, b) \in Nat /\ D3(b, c) \in Nat /\ D4(c) \in Nat /\ Pad \in Nat
    <3>1. Pad \in Nat /\ \A d \in Sextets : d \in Nat
      BY DEF Sextets, Pad
    <3> QED BY <2>2, <3>1, DigitTypes
  <2> QED BY <2>1, <2>2, <2>3
<1> HIDE DEF enc
<1>4. enc \in [1..4 * G -> Nat]
  BY <1>2, <1>3
<1>5. 4 * G \in Nat
  BY <1>1
<1> QED BY <1>1, <1>4, <1>5, SeqDef, LenProperties DEF enc

\* What is put out as far as the first n bytes of in.
Upto(in, out, n) ==
  out \in Seq(Bytes) /\ Len(out) = n /\ \A i \in 1..n : out[i] = in[i]

LEMMA OneMore ==
  ASSUME NEW in \in Seq(Bytes), NEW out, NEW n \in Nat, Upto(in, out, n), n + 1 <= Len(in)
  PROVE  Upto(in, Append(out, ByteAt(in, n + 1)), n + 1)
<1>1. Len(in) \in Nat /\ n + 1 \in 1..Len(in)
  <2>1. Len(in) \in Nat
    BY LenProperties
  <2> QED BY <2>1
<1>2. ByteAt(in, n + 1) = in[n + 1] /\ in[n + 1] \in Bytes
  BY <1>1, ElementOfSeq DEF ByteAt
<1> DEFINE h == Append(out, in[n + 1])
<1>3. /\ h \in Seq(Bytes) /\ Len(h) = n + 1 /\ h[n + 1] = in[n + 1]
      /\ \A i \in 1..n : h[i] = out[i]
  BY <1>2, AppendProperties DEF Upto
<1> HIDE DEF h
<1>4. \A i \in 1..n + 1 : h[i] = in[i]
  BY <1>3 DEF Upto
<1>5. Upto(in, h, n + 1)
  BY <1>3, <1>4 DEF Upto
<1> QED BY <1>2, <1>5 DEF h

\* util_base64_decode gives back what util_base64_encode was given, for all bytes.
THEOREM RoundTrip ==
  ASSUME NEW in \in Seq(Bytes)
  PROVE  Base64Decode(Base64Encode(in)) = in
<1> DEFINE N == Len(in)
           G == (N + 2) \div 3
           enc == Base64Encode(in)
<1>1. N \in Nat /\ G \in Nat /\ N <= 3 * G /\ 3 * G <= N + 2
  <2>1. N \in Nat
    BY LenProperties
  <2> QED BY <2>1, SMT
<1>2. enc \in Seq(Nat) /\ Len(enc) = 4 * G
  BY EncodeType
<1>3. \A g \in 0..G - 1 :
        LET a == ByteAt(in, 3 * g + 1)
            b == ByteAt(in, 3 * g + 2)
            c == ByteAt(in, 3 * g + 3)
        IN  /\ a \in Bytes /\ b \in Bytes /\ c \in Bytes
            /\ enc[4 * g + 1] = D1(a) /\ enc[4 * g + 2] = D2(a, b)
            /\ enc[4 * g + 3] = IF 3 * g + 2 <= N THEN D3(b, c) ELSE Pad
            /\ enc[4 * g + 4] = IF 3 * g + 3 <= N THEN D4(c) ELSE Pad
  BY EncodeIs, SMTT(30)
<1> HIDE DEF enc, G
<1>4. PICK at : /\ at[0] = Start64
                /\ \A i \in 1..Len(enc) : at[i] = Digit64(at[i - 1], enc[i])
                /\ \A i \in 0..Len(enc) : at[i] \in States64
                /\ Base64Decode(enc) = at[Len(enc)].out
  BY <1>2, DecodeIs
<1>5. ASSUME NEW s PROVE Digit64(s, Pad) = s
  BY DEF Digit64, Pad
\* One group, whole or not.
<1>6. ASSUME NEW g \in 0..G - 1, at[4 * g].bits = 0, Upto(in, at[4 * g].out, 3 * g)
      PROVE  /\ 3 * g + 3 <= N => /\ at[4 * g + 4].bits = 0
                                  /\ Upto(in, at[4 * g + 4].out, 3 * g + 3)
             /\ N <= 3 * g + 3 => Upto(in, at[4 * g + 4].out, N)
  <2> DEFINE a == ByteAt(in, 3 * g + 1)
             b == ByteAt(in, 3 * g + 2)
             c == ByteAt(in, 3 * g + 3)
  <2>1. /\ a \in Bytes /\ b \in Bytes /\ c \in Bytes
        /\ enc[4 * g + 1] = D1(a) /\ enc[4 * g + 2] = D2(a, b)
        /\ enc[4 * g + 3] = IF 3 * g + 2 <= N THEN D3(b, c) ELSE Pad
        /\ enc[4 * g + 4] = IF 3 * g + 3 <= N THEN D4(c) ELSE Pad
    BY <1>3
  <2>2. /\ at[4 * g] \in States64
        /\ at[4 * g + 1] = Digit64(at[4 * g], enc[4 * g + 1])
        /\ at[4 * g + 2] = Digit64(at[4 * g + 1], enc[4 * g + 2])
        /\ at[4 * g + 3] = Digit64(at[4 * g + 2], enc[4 * g + 3])
        /\ at[4 * g + 4] = Digit64(at[4 * g + 3], enc[4 * g + 4])
    <3>1. /\ 4 * g \in 0..4 * G /\ 4 * g + 1 \in 1..4 * G /\ 4 * g + 2 \in 1..4 * G
          /\ 4 * g + 3 \in 1..4 * G /\ 4 * g + 4 \in 1..4 * G
      BY <1>1
    <3>2. /\ (4 * g + 1) - 1 = 4 * g /\ (4 * g + 2) - 1 = 4 * g + 1
          /\ (4 * g + 3) - 1 = 4 * g + 2 /\ (4 * g + 4) - 1 = 4 * g + 3
      OBVIOUS
    <3> QED BY <1>2, <1>4, <3>1, <3>2
  <2> DEFINE s  == at[4 * g]
             s2 == at[4 * g + 2]
             s3 == Digit64(s2, D3(b, c))
             s4 == Digit64(s3, D4(c))
  <2>3. /\ s2.out = Append(s.out, a) /\ s3.out = Append(s2.out, b)
        /\ s4.out = Append(s3.out, c) /\ s4.bits = 0
    <3> DEFINE s1 == at[4 * g + 1]
    <3> HIDE DEF a, b, c
    <3>1. s \in States64 /\ s.bits = 0 /\ s1 = Digit64(s, D1(a)) /\ s2 = Digit64(s1, D2(a, b))
      BY <1>6, <2>1, <2>2
    <3>2. s3 = Digit64(s2, D3(b, c)) /\ s4 = Digit64(s3, D4(c))
      OBVIOUS
    <3>3. a \in Bytes /\ b \in Bytes /\ c \in Bytes
      BY <2>1
    <3> HIDE DEF s, s1, s2, s3, s4
    <3>4. s2 = Two(s, a, b) /\ s3 = Three(s, a, b, c) /\ s4 = Four(s, a, b, c)
      BY <3>1, <3>2 DEF Two, Three, Four
    <3>5. /\ Two(s, a, b).out = Append(s.out, a)
          /\ Three(s, a, b, c).out = Append(Two(s, a, b).out, b)
          /\ Four(s, a, b, c).out = Append(Three(s, a, b, c).out, c)
          /\ Four(s, a, b, c).bits = 0
      BY <3>1, <3>3, GroupRead
    <3> QED BY <3>4, <3>5
  <2>4. at[4 * g + 4] = IF 3 * g + 3 <= N THEN s4 ELSE IF 3 * g + 2 <= N THEN s3 ELSE s2
    <3> HIDE DEF a, b, c
    <3>1. CASE 3 * g + 3 <= N
      <4>1. 3 * g + 2 <= N
        BY <1>1, <3>1
      <4> QED BY <2>1, <2>2, <3>1, <4>1
    <3>2. CASE ~(3 * g + 3 <= N) /\ 3 * g + 2 <= N
      BY <1>5, <2>1, <2>2, <3>2
    <3>3. CASE ~(3 * g + 3 <= N) /\ ~(3 * g + 2 <= N)
      BY <1>5, <2>1, <2>2, <3>3
    <3> QED BY <3>1, <3>2, <3>3
  <2>n. g \in Nat /\ 3 * g + 1 <= N
    BY <1>1
  <2>5. Upto(in, s2.out, 3 * g + 1)
    <3> HIDE DEF s2, s
    <3>1. 3 * g \in Nat /\ 3 * g + 1 <= Len(in) /\ Upto(in, s.out, 3 * g)
      BY <1>6, <2>n DEF s
    <3>2. Upto(in, Append(s.out, ByteAt(in, 3 * g + 1)), 3 * g + 1)
      BY <3>1, OneMore
    <3> QED BY <2>3, <3>2
  <2>6. 3 * g + 2 <= N => Upto(in, s3.out, 3 * g + 2)
    <3> HIDE DEF s2, s3
    <3>1. 3 * g + 1 \in Nat /\ (3 * g + 1) + 1 = 3 * g + 2
      BY <2>n
    <3>2. 3 * g + 2 <= N => Upto(in, Append(s2.out, ByteAt(in, (3 * g + 1) + 1)), (3 * g + 1) + 1)
      BY <2>5, <3>1, OneMore
    <3> QED BY <2>3, <3>1, <3>2
  <2>7. 3 * g + 3 <= N => Upto(in, s4.out, 3 * g + 3)
    <3> HIDE DEF s3, s4
    <3>1. 3 * g + 2 \in Nat /\ (3 * g + 2) + 1 = 3 * g + 3 /\ (3 * g + 3 <= N => 3 * g + 2 <= N)
      BY <1>1, <2>n
    <3>2. 3 * g + 3 <= N => Upto(in, Append(s3.out, ByteAt(in, (3 * g + 2) + 1)), (3 * g + 2) + 1)
      BY <2>6, <3>1, OneMore
    <3> QED BY <2>3, <3>1, <3>2
  <2> HIDE DEF s2, s3, s4
  <2>8. /\ 3 * g + 3 <= N => at[4 * g + 4] = s4
        /\ N <= 3 * g + 3 => \/ N = 3 * g + 3 /\ at[4 * g + 4] = s4
                             \/ N = 3 * g + 2 /\ at[4 * g + 4] = s3
                             \/ N = 3 * g + 1 /\ at[4 * g + 4] = s2
    BY <1>1, <2>n, <2>4
  <2>9. 3 * g + 3 <= N => at[4 * g + 4].bits = 0 /\ Upto(in, at[4 * g + 4].out, 3 * g + 3)
    BY <2>3, <2>7, <2>8
  <2>10. ASSUME N <= 3 * g + 3 PROVE Upto(in, at[4 * g + 4].out, N)
    <3>1. CASE N = 3 * g + 3 /\ at[4 * g + 4] = s4
      <4>1. Upto(in, s4.out, 3 * g + 3)
        BY <1>1, <2>n, <2>7, <3>1
      <4> QED BY <3>1, <4>1
    <3>2. CASE N = 3 * g + 2 /\ at[4 * g + 4] = s3
      <4>1. Upto(in, s3.out, 3 * g + 2)
        BY <1>1, <2>n, <2>6, <3>2
      <4> QED BY <3>2, <4>1
    <3>3. CASE N = 3 * g + 1 /\ at[4 * g + 4] = s2
      BY <2>5, <3>3
    <3> QED BY <2>8, <2>10, <3>1, <3>2, <3>3
  <2> QED BY <2>9, <2>10
<1>7. at[0].bits = 0 /\ Upto(in, at[0].out, 0)
  <2>1. at[0].bits = 0 /\ at[0].out = <<>>
    BY <1>4 DEF Start64
  <2> QED BY <2>1, EmptySeq DEF Upto
<1> DEFINE T == {g \in Nat : 3 * g <= N => at[4 * g].bits = 0 /\ Upto(in, at[4 * g].out, 3 * g)}
<1>8. 0 \in T
  BY <1>7
<1>9. ASSUME NEW g \in Nat, g \in T PROVE g + 1 \in T
  <2> SUFFICES ASSUME 3 * (g + 1) <= N
               PROVE  at[4 * (g + 1)].bits = 0 /\ Upto(in, at[4 * (g + 1)].out, 3 * (g + 1))
    OBVIOUS
  <2>1. g \in 0..G - 1 /\ 3 * g <= N /\ 3 * (g + 1) = 3 * g + 3 /\ 4 * (g + 1) = 4 * g + 4
    BY <1>1
  <2> QED BY <1>6, <1>9, <2>1
<1>10. \A g \in Nat : g \in T
  <2> HIDE DEF T
  <2> QED BY <1>8, <1>9, NatSets
<1>11. Upto(in, at[4 * G].out, N)
  <2>1. CASE G = 0
    <3>1. N = 0 /\ 4 * G = 0
      BY <1>1, <2>1
    <3> QED BY <1>7, <3>1
  <2>2. CASE G # 0
    <3>1. G - 1 \in Nat /\ G - 1 \in 0..G - 1 /\ 3 * (G - 1) <= N /\ N <= 3 * (G - 1) + 3
      BY <1>1, <2>2
    <3>2. 4 * (G - 1) + 4 = 4 * G
      BY <1>1
    <3> QED BY <1>6, <1>10, <3>1, <3>2
  <2> QED BY <2>1, <2>2
<1>12. at[4 * G].out = in
  BY <1>11, SeqEqual DEF Upto
<1> QED BY <1>2, <1>4, <1>12 DEF enc

(***************************************************************************)
(* The credentials.                                                        *)
(***************************************************************************)
LEMMA NoBlanks ==
  ASSUME NEW Chr, NEW s \in Seq(Chr), \A i \in 1..Len(s) : s[i] \notin Space
  PROVE  Trim(s) = s
<1>1. Len(s) \in Nat /\ SubSeq(s, 1, Len(s)) = s
  BY LenProperties, SubSeqFull
<1>2. 1 \in 1..Len(s) + 1 /\ Len(s) \in 1 - 1..Len(s)
  BY <1>1
<1>3. CASE Len(s) = 0
  <2>1. s = <<>>
    BY <1>3, EmptySeq
  <2>2. Len(<<>>) = 0 /\ {i \in 1..0 : <<>>[i] \notin Space} = {}
    BY EmptySeq
  <2> QED BY <2>1, <2>2 DEF Trim
<1>4. CASE Len(s) # 0
  <2>1. 1 \in 1..Len(s) /\ Len(s) \in 1..Len(s)
    BY <1>1, <1>4
  <2>2. ~ \A j \in 1..Len(s) : s[j] \in Space
    BY <2>1
  <2>3. PICK m \in 1..Len(s), n \in 1..Len(s) :
          /\ \A j \in 1..Len(s) : s[j] \notin Space => m <= j /\ j <= n
          /\ Trim(SubSeq(s, 1, Len(s))) = SubSeq(s, m, n)
    <3>1. \/ /\ \A j \in 1..Len(s) : s[j] \in Space
             /\ Trim(SubSeq(s, 1, Len(s))) = <<>>
          \/ \E m \in 1..Len(s), n \in 1..Len(s) :
               /\ m <= n /\ s[m] \notin Space /\ s[n] \notin Space
               /\ \A j \in 1..Len(s) : s[j] \notin Space => m <= j /\ j <= n
               /\ Trim(SubSeq(s, 1, Len(s))) = SubSeq(s, m, n)
      BY <1>2, TrimIs, ZenonT(60)
    <3> QED BY <2>2, <3>1, Zenon
  <2>4. m = 1 /\ n = Len(s)
    <3>1. m <= 1
      BY <2>1, <2>3
    <3>2. Len(s) <= n
      BY <2>1, <2>3
    <3>3. m = 1
      BY <3>1
    <3>4. n = Len(s)
      <4>1. Len(s) \in Nat
        BY <1>1
      <4>2. n <= Len(s)
        BY <4>1
      <4> QED BY <3>2, <4>1, <4>2
    <3> QED BY <3>3, <3>4
  <2> QED BY <1>1, <2>3, <2>4
<1> QED BY <1>3, <1>4

\* The byte of each letter, and the letter of each byte.
ByteOf(x)   == Byte[CHOOSE l \in 1..Len(Letters) : Letters[l] = x]
LetterOf(b) == IF \E l \in 1..Len(Byte) : Byte[l] = b
               THEN Letters[CHOOSE l \in 1..Len(Byte) : Byte[l] = b] ELSE "?"

Legible == {LetterOf(b) : b \in Bytes}

LEMMA LettersAre ==
  /\ Len(Letters) = 6 /\ Len(Byte) = 6
  /\ \A l \in 1..6 : Letters[l] \notin Space /\ Byte[l] \in Bytes
  /\ \A l, m \in 1..6 : Byte[l] = Byte[m] => l = m
<1>1. Len(Letters) = 6 /\ Len(Byte) = 6
  BY DEF Letters, Byte
<1>2. ASSUME NEW l \in 1..6
      PROVE  Letters[l] \notin Space /\ Byte[l] \in Bytes
  <2>1. l = 1 \/ l = 2 \/ l = 3 \/ l = 4 \/ l = 5 \/ l = 6
    OBVIOUS
  <2>2. Letters[l] \notin Space
    <3>1. /\ Letters[1] = "A" /\ Letters[2] = "B" /\ Letters[3] = "C"
          /\ Letters[4] = "x" /\ Letters[5] = "y" /\ Letters[6] = ":"
      BY DEF Letters
    <3>2. Letters[l] # " " /\ Letters[l] # CR /\ Letters[l] # LF
      BY <2>1, <3>1 DEF CR, LF
    <3> QED BY <3>2, Zenon DEF Space
  <2>3. Byte[l] \in Bytes
    BY <2>1 DEF Byte, Bytes
  <2> QED BY <2>2, <2>3
<1>3. ASSUME NEW l \in 1..6, NEW m \in 1..6, Byte[l] = Byte[m] PROVE l = m
  <2>1. /\ l = 1 \/ l = 2 \/ l = 3 \/ l = 4 \/ l = 5 \/ l = 6
        /\ m = 1 \/ m = 2 \/ m = 3 \/ m = 4 \/ m = 5 \/ m = 6
    OBVIOUS
  <2>2. Byte[1] = 65 /\ Byte[2] = 66 /\ Byte[3] = 67 /\ Byte[4] = 120 /\ Byte[5] = 121 /\ Byte[6] = 58
    BY DEF Byte
  <2> QED BY <1>3, <2>1, <2>2
<1> QED BY <1>1, <1>2, <1>3

LEMMA LetterBack ==
  ASSUME NEW x \in Symbols
  PROVE  ByteOf(x) \in Bytes /\ LetterOf(ByteOf(x)) = x
<1> DEFINE k == CHOOSE l \in 1..6 : Letters[l] = x
           m == CHOOSE l \in 1..6 : Byte[l] = Byte[k]
<1>1. k \in 1..6 /\ Letters[k] = x
  <2>1. \E l \in 1..6 : Letters[l] = x
    BY LettersAre DEF Symbols
  <2> QED BY <2>1
<1>2. ByteOf(x) = Byte[k]
  BY LettersAre, Zenon DEF ByteOf
<1> HIDE DEF k
<1>3. m \in 1..6 /\ Byte[m] = Byte[k]
  BY <1>1
<1>4. m = k
  BY <1>1, <1>3, LettersAre
<1>5. LetterOf(Byte[k]) = Letters[m]
  <2>1. \E l \in 1..Len(Byte) : Byte[l] = Byte[k]
    BY <1>1, LettersAre
  <2> QED BY <2>1, LettersAre, Zenon DEF LetterOf
<1> HIDE DEF m
<1> QED BY <1>1, <1>2, <1>4, <1>5, LettersAre

LEMMA CharsAre ==
  ASSUME NEW bytes \in Seq(Bytes)
  PROVE  /\ Chars(bytes) \in Seq(Legible) /\ Len(Chars(bytes)) = Len(bytes)
         /\ \A i \in 1..Len(bytes) : Chars(bytes)[i] = LetterOf(bytes[i])
         /\ \A i \in 1..Len(bytes) : Chars(bytes)[i] \notin Space
<1>1. Len(bytes) \in Nat
  BY LenProperties
<1>2. Chars(bytes) = [i \in 1..Len(bytes) |-> LetterOf(bytes[i])]
  BY DEF Chars, LetterOf
<1>3. ASSUME NEW b PROVE LetterOf(b) \notin Space
  <2>1. CASE \E l \in 1..Len(Byte) : Byte[l] = b
    <3> DEFINE l == CHOOSE l \in 1..Len(Byte) : Byte[l] = b
    <3>1. l \in 1..6 /\ LetterOf(b) = Letters[l]
      BY <2>1, LettersAre DEF LetterOf
    <3> HIDE DEF l
    <3> QED BY <3>1, LettersAre
  <2>2. CASE ~ \E l \in 1..Len(Byte) : Byte[l] = b
    <3>1. LetterOf(b) = "?"
      BY <2>2, Zenon DEF LetterOf
    <3>2. "?" # " " /\ "?" # CR /\ "?" # LF
      BY DEF CR, LF
    <3> QED BY <3>1, <3>2, Zenon DEF Space
  <2> QED BY <2>1, <2>2
<1> DEFINE h == [i \in 1..Len(bytes) |-> LetterOf(bytes[i])]
<1>4. /\ h \in [1..Len(bytes) -> Legible]
      /\ \A i \in 1..Len(bytes) : h[i] = LetterOf(bytes[i])
  BY ElementOfSeq DEF Legible
<1> HIDE DEF h
<1>5. h \in Seq(Legible)
  BY <1>1, <1>4, SeqDef
<1>6. Len(h) = Len(bytes)
  BY <1>1, <1>4, <1>5, LenProperties
<1> QED BY <1>2, <1>3, <1>4, <1>5, <1>6 DEF h

LEMMA LettersBack ==
  ASSUME NEW t \in Seq(Symbols)
  PROVE  Ascii(t) \in Seq(Bytes) /\ Len(Ascii(t)) = Len(t) /\ Chars(Ascii(t)) = t
<1>1. Len(t) \in Nat /\ \A i \in 1..Len(t) : t[i] \in Symbols
  BY LenProperties, ElementOfSeq
<1> DEFINE h == [i \in 1..Len(t) |-> ByteOf(t[i])]
<1>2. Ascii(t) = h
  BY DEF Ascii, ByteOf
<1>3. h \in [1..Len(t) -> Bytes] /\ \A i \in 1..Len(t) : h[i] = ByteOf(t[i])
  BY <1>1, LetterBack
<1> HIDE DEF h
<1>4. h \in Seq(Bytes)
  BY <1>1, <1>3, SeqDef
<1>5. Len(h) = Len(t)
  BY <1>1, <1>3, <1>4, LenProperties
<1>6. Chars(h) \in Seq(Legible) /\ Len(Chars(h)) = Len(t) /\ \A i \in 1..Len(t) : Chars(h)[i] = t[i]
  BY <1>1, <1>3, <1>4, <1>5, CharsAre, LetterBack
<1>7. t \in Seq(Legible)
  <2>1. Symbols \subseteq Legible
    BY LetterBack DEF Legible
  <2> QED BY <2>1, SeqMonotonic
<1>8. Chars(h) = t
  BY <1>6, <1>7, SeqEqual
<1> QED BY <1>2, <1>4, <1>5, <1>8

\* http_parse_basic_auth: what is read of a header that came in whole is what
\* was sent, and no client id is read that has a blank at an end, for every id,
\* code and place at which the header is cut.
THEOREM LoginRead ==
  ASSUME NEW id \in Seq(Symbols \ {":"}), NEW code \in Seq(Symbols), NEW room \in Nat,
         NEW l, l = Basic(id, code, room)
  PROVE  /\ Trim(ClientSerial(l.seenId)) = ClientSerial(l.seenId)
         /\ l.whole => ~l.gone /\ l.seenId = l.id /\ l.seenCode = l.code
<1> DEFINE t     == id \o <<":">> \o code
           sent  == Base64Encode(Ascii(t))
           text  == Chars(Base64Decode(Copied(sent, room + 1)))
           Sep   == {":"}
           colon == UntilFrom(text, 1, Sep)
<1>1. /\ l.id = id /\ l.code = code
      /\ l.whole => /\ room >= Len(sent) /\ Len(id) + 1 + Len(code) < DecodedSize
                    /\ Len(id) < LoginSize /\ Len(code) < LoginSize
      /\ l.gone => room = 0 \/ Len(text) >= DecodedSize
      /\ l.seenId = Copied(SubSeq(text, 1, colon - 1), LoginSize)
      /\ l.seenCode = Copied(SubSeq(text, colon + 1, Len(text)), LoginSize)
  BY DEF Basic
<1>s. \A x : x \in Sep <=> x = ":"
  OBVIOUS
<1>2. /\ t \in Seq(Symbols) /\ Len(t) = Len(id) + 1 + Len(code)
      /\ t[Len(id) + 1] = ":" /\ Len(id) \in Nat /\ Len(code) \in Nat
      /\ \A i \in 1..Len(id) : t[i] = id[i] /\ id[i] # ":"
      /\ \A i \in 1..Len(code) : t[Len(id) + 1 + i] = code[i]
  <2> DEFINE one == <<":">>
             head == id \o one
  <2>1. one \in Seq(Symbols) /\ Len(one) = 1 /\ one[1] = ":"
    <3>1. Letters[6] = ":" /\ 6 \in 1..Len(Letters)
      BY DEF Letters
    <3>2. ":" \in Symbols
      BY <3>1 DEF Symbols
    <3>3. one \in Seq(Symbols)
      BY <3>2
    <3> QED BY <3>3
  <2>2. id \in Seq(Symbols) /\ Len(id) \in Nat /\ Len(code) \in Nat
    <3>1. Symbols \ {":"} \subseteq Symbols
      OBVIOUS
    <3>2. id \in Seq(Symbols)
      BY <3>1, SeqMonotonic
    <3> QED BY <3>2, LenProperties
  <2>3. \A i \in 1..Len(id) : id[i] # ":"
    <3>1. \A i \in 1..Len(id) : id[i] \in Symbols \ {":"}
      BY ElementOfSeq
    <3> QED BY <3>1
  <2> HIDE DEF one
  <2>4. /\ head \in Seq(Symbols) /\ Len(head) = Len(id) + 1
        /\ \A i \in 1..Len(id) + 1 : head[i] = IF i <= Len(id) THEN id[i] ELSE one[i - Len(id)]
    <3>1. /\ id \o one \in Seq(Symbols) /\ Len(id \o one) = Len(id) + Len(one)
          /\ \A i \in 1..Len(id) + Len(one) :
               (id \o one)[i] = IF i <= Len(id) THEN id[i] ELSE one[i - Len(id)]
      BY <2>1, <2>2, ConcatProperties, Zenon
    <3>2. head = id \o one
      OBVIOUS
    <3> HIDE DEF head
    <3> QED BY <2>1, <3>1, <3>2
  <2> HIDE DEF head
  <2>5. /\ head \o code \in Seq(Symbols) /\ Len(head \o code) = Len(id) + 1 + Len(code)
        /\ \A i \in 1..Len(id) + 1 + Len(code) :
             (head \o code)[i] = IF i <= Len(id) + 1 THEN head[i] ELSE code[i - (Len(id) + 1)]
    <3>1. /\ head \o code \in Seq(Symbols) /\ Len(head \o code) = Len(head) + Len(code)
          /\ \A i \in 1..Len(head) + Len(code) :
               (head \o code)[i] = IF i <= Len(head) THEN head[i] ELSE code[i - Len(head)]
      BY <2>4, ConcatProperties, ZenonT(60)
    <3> QED BY <2>4, <3>1
  <2>6. head \o code = t
    BY DEF head, one
  <2> HIDE DEF t
  <2>7. t[Len(id) + 1] = ":"
    <3>1. Len(id) + 1 \in 1..Len(id) + 1 + Len(code) /\ Len(id) + 1 \in 1..Len(id) + 1
      BY <2>2
    <3>2. t[Len(id) + 1] = head[Len(id) + 1]
      BY <2>2, <2>5, <2>6, <3>1
    <3>3. (Len(id) + 1) - Len(id) = 1 /\ ~(Len(id) + 1 <= Len(id))
      BY <2>2
    <3> QED BY <2>1, <2>4, <3>1, <3>2, <3>3
  <2>8. ASSUME NEW i \in 1..Len(id) PROVE t[i] = id[i]
    <3>1. i \in 1..Len(id) + 1 + Len(code) /\ i \in 1..Len(id) + 1 /\ i <= Len(id) /\ i <= Len(id) + 1
      BY <2>2
    <3> QED BY <2>4, <2>5, <2>6, <3>1
  <2>9. ASSUME NEW i \in 1..Len(code) PROVE t[Len(id) + 1 + i] = code[i]
    <3> DEFINE j == Len(id) + 1 + i
    <3>1. j \in 1..Len(id) + 1 + Len(code) /\ ~(j <= Len(id) + 1) /\ j - (Len(id) + 1) = i
      BY <2>2
    <3> HIDE DEF j
    <3>2. t[j] = code[i]
      BY <2>5, <2>6, <3>1
    <3> QED BY <3>2 DEF j
  <2> QED BY <2>2, <2>3, <2>5, <2>6, <2>7, <2>8, <2>9
<1>3. Ascii(t) \in Seq(Bytes) /\ Len(Ascii(t)) = Len(t) /\ Chars(Ascii(t)) = t
  BY <1>2, LettersBack
<1> HIDE DEF t
<1>4. /\ sent \in Seq(Nat) /\ Len(sent) \in Nat /\ Len(sent) > 0
      /\ Base64Decode(sent) = Ascii(t)
  <2> DEFINE G == (Len(Ascii(t)) + 2) \div 3
  <2>1. sent \in Seq(Nat) /\ Len(sent) = 4 * G /\ G \in Nat
    BY <1>3, EncodeType
  <2>2. G > 0
    <3>1. Len(t) \in Nat /\ Len(t) > 0
      BY <1>2
    <3> QED BY <1>3, <3>1, SMT
  <2> HIDE DEF G
  <2>3. Base64Decode(sent) = Ascii(t)
    BY <1>3, RoundTrip
  <2> QED BY <2>1, <2>2, <2>3
<1> HIDE DEF sent
\* Whatever was cut off.
<1>5. Trim(ClientSerial(l.seenId)) = ClientSerial(l.seenId)
  <2> DEFINE got == Copied(sent, room + 1)
             out == Base64Decode(got)
  <2>1. got \in Seq(Nat)
    <3>1. \A n \in 0..Len(sent) : SubSeq(sent, 1, n) \in Seq(Nat)
      <4>1. 1 \in 1..Len(sent) + 1
        BY <1>4
      <4>2. \A n \in 0..Len(sent) : n \in 1 - 1..Len(sent)
        BY <1>4
      <4> QED BY <1>4, <4>1, <4>2, PartIs
    <3>2. (IF Len(sent) < room + 1 THEN Len(sent) ELSE (room + 1) - 1) \in 0..Len(sent)
      BY <1>4
    <3> QED BY <3>1, <3>2 DEF Copied
  <2> HIDE DEF got
  <2>2. out \in Seq(Bytes)
    <3>1. PICK at : /\ \A i \in 0..Len(got) : at[i] \in States64
                    /\ out = at[Len(got)].out
      BY <2>1, DecodeIs
    <3>2. Len(got) \in 0..Len(got)
      BY <2>1, LenProperties
    <3>3. at[Len(got)].out \in Seq(Bytes)
      BY <3>1, <3>2 DEF States64
    <3> QED BY <3>1, <3>3
  <2>3. /\ text \in Seq(Legible) /\ Len(text) = Len(out)
        /\ \A i \in 1..Len(out) : text[i] \notin Space
    <3>1. text = Chars(out)
      BY DEF got
    <3> HIDE DEF text, out
    <3> QED BY <2>2, <3>1, CharsAre
  <2>4. Len(text) \in Nat
    BY <2>3, LenProperties
  <2> HIDE DEF text, Sep, out
  <2>5. colon \in 1..Len(text) + 1
    <3>1. 1 \in 1..Len(text) + 1
      BY <2>4
    <3> QED BY <2>3, <3>1, UntilIs
  <2> HIDE DEF colon
  <2> DEFINE part == SubSeq(text, 1, colon - 1)
  <2>p. /\ part \in Seq(Legible) /\ Len(part) = colon - 1
        /\ \A i \in 1..colon - 1 : part[i] = text[i]
    <3>1. 1 \in 1..Len(text) + 1 /\ colon - 1 \in 1 - 1..Len(text) /\ colon \in Int
      BY <2>4, <2>5
    <3>2. /\ SubSeq(text, 1, colon - 1) \in Seq(Legible)
          /\ Len(SubSeq(text, 1, colon - 1)) = (colon - 1) - 1 + 1
          /\ \A i \in 1..(colon - 1) - 1 + 1 : SubSeq(text, 1, colon - 1)[i] = text[1 + i - 1]
      BY <2>3, <3>1, PartIs
    <3>3. (colon - 1) - 1 + 1 = colon - 1 /\ \A i \in 1..colon - 1 : 1 + i - 1 = i
      BY <3>1
    <3> QED BY <3>2, <3>3
  <2> HIDE DEF part
  <2>6. PICK n \in 0..colon - 1 :
          /\ l.seenId \in Seq(Legible) /\ Len(l.seenId) = n
          /\ \A i \in 1..n : l.seenId[i] = part[i]
    <3> DEFINE n == IF Len(part) < LoginSize THEN Len(part) ELSE LoginSize - 1
    <3>1. n \in 0..colon - 1 /\ n \in 1 - 1..Len(part) /\ 1 \in 1..Len(part) + 1
      BY <2>p, <2>5, RequestsAssumption
    <3>2. l.seenId = SubSeq(part, 1, n)
      BY <1>1 DEF Copied, part
    <3> HIDE DEF n
    <3>3. /\ SubSeq(part, 1, n) \in Seq(Legible) /\ Len(SubSeq(part, 1, n)) = n - 1 + 1
          /\ \A i \in 1..n - 1 + 1 : SubSeq(part, 1, n)[i] = part[1 + i - 1]
      BY <2>p, <3>1, PartIs
    <3>4. n - 1 + 1 = n /\ \A i \in 1..n : 1 + i - 1 = i
      BY <3>1
    <3> QED BY <3>1, <3>2, <3>3, <3>4
  <2>7. \A i \in 1..Len(l.seenId) : l.seenId[i] \notin Space
    <3>1. \A i \in 1..n : i \in 1..colon - 1 /\ i \in 1..Len(out)
      BY <2>3, <2>4, <2>5
    <3> QED BY <2>3, <2>6, <2>p, <3>1
  <2>8. Trim(l.seenId) = l.seenId
    BY <2>6, <2>7, NoBlanks
  <2>9. Trim(Unknown) = Unknown
    <3>1. Unknown \in Seq({"unknown"}) /\ Len(Unknown) = 1 /\ Unknown[1] = "unknown"
      BY DEF Unknown
    <3>2. "unknown" \notin Space
      <4>1. "unknown" # " " /\ "unknown" # CR /\ "unknown" # LF
        BY DEF CR, LF
      <4> QED BY <4>1, Zenon DEF Space
    <3>3. \A i \in 1..Len(Unknown) : Unknown[i] \notin Space
      <4>1. \A i \in 1..1 : i = 1
        OBVIOUS
      <4> QED BY <3>1, <3>2, <4>1
    <3> QED BY <3>1, <3>3, NoBlanks
  <2> QED BY <2>8, <2>9 DEF ClientSerial
\* All there.
<1>6. ASSUME l.whole PROVE ~l.gone /\ l.seenId = l.id /\ l.seenCode = l.code
  <2>0. /\ room >= Len(sent) /\ Len(id) + 1 + Len(code) < DecodedSize
        /\ Len(id) < LoginSize /\ Len(code) < LoginSize
    BY <1>1, <1>6, Zenon
  <2>1. room >= Len(sent) /\ room # 0
    BY <1>4, <2>0
  <2>2. text = t
    <3>1. Len(sent) < room + 1
      BY <1>4, <2>1
    <3>2. Copied(sent, room + 1) = SubSeq(sent, 1, Len(sent))
      BY <3>1 DEF Copied
    <3>3. Copied(sent, room + 1) = sent
      BY <1>4, <3>2, SubSeqFull
    <3> QED BY <1>3, <1>4, <3>3
  <2> HIDE DEF text, Sep
  <2>l. Len(t) \in Nat /\ Len(id) + 1 \in 1..Len(t)
    BY <1>2
  <2>3. colon = Len(id) + 1
    <3>1. 1 \in 1..Len(t) + 1
      BY <2>l
    <3>2. /\ colon \in 1..Len(t) + 1 /\ \A j \in 1..colon - 1 : t[j] \notin Sep
          /\ colon <= Len(t) => t[colon] \in Sep
      BY <1>2, <2>2, <3>1, UntilIs
    <3> HIDE DEF colon
    <3>3. ~(colon < Len(id) + 1)
      <4>1. colon < Len(id) + 1 => colon \in 1..Len(id) /\ colon <= Len(t)
        BY <1>2, <2>l, <3>2
      <4> QED BY <1>2, <1>s, <3>2, <4>1
    <3>4. ~(Len(id) + 1 < colon)
      <4>1. Len(id) + 1 < colon => Len(id) + 1 \in 1..colon - 1
        BY <1>2, <3>2
      <4> QED BY <1>2, <1>s, <3>2, <4>1
    <3> QED BY <1>2, <3>2, <3>3, <3>4
  <2> HIDE DEF colon
  <2>4. SubSeq(t, 1, Len(id)) = id
    <3>1. 1 \in 1..Len(t) + 1 /\ Len(id) \in 1 - 1..Len(t) /\ Len(id) - 1 + 1 = Len(id)
      BY <1>2, <2>l
    <3>2. /\ SubSeq(t, 1, Len(id)) \in Seq(Symbols)
          /\ Len(SubSeq(t, 1, Len(id))) = Len(id) - 1 + 1
          /\ \A i \in 1..Len(id) - 1 + 1 : SubSeq(t, 1, Len(id))[i] = t[1 + i - 1]
      BY <1>2, <3>1, PartIs
    <3>3. \A i \in 1..Len(id) : SubSeq(t, 1, Len(id))[i] = id[i]
      <4>1. \A i \in 1..Len(id) : 1 + i - 1 = i
        BY <1>2
      <4> QED BY <1>2, <3>1, <3>2, <4>1
    <3>4. id \in Seq(Symbols)
      <4>1. Symbols \ {":"} \subseteq Symbols
        OBVIOUS
      <4> QED BY <4>1, SeqMonotonic
    <3> QED BY <3>1, <3>2, <3>3, <3>4, SeqEqual
  <2>5. SubSeq(t, Len(id) + 2, Len(t)) = code
    <3> DEFINE p == Len(id) + 2
    <3>1. p \in 1..Len(t) + 1 /\ Len(t) \in p - 1..Len(t) /\ Len(t) - p + 1 = Len(code)
      BY <1>2, <2>l
    <3>2. \A i \in 1..Len(code) : p + i - 1 = Len(id) + 1 + i
      BY <1>2
    <3> HIDE DEF p
    <3>3. /\ SubSeq(t, p, Len(t)) \in Seq(Symbols)
          /\ Len(SubSeq(t, p, Len(t))) = Len(t) - p + 1
          /\ \A i \in 1..Len(t) - p + 1 : SubSeq(t, p, Len(t))[i] = t[p + i - 1]
      BY <1>2, <3>1, PartIs
    <3>4. \A i \in 1..Len(code) : SubSeq(t, p, Len(t))[i] = code[i]
      BY <1>2, <3>1, <3>2, <3>3
    <3>5. SubSeq(t, p, Len(t)) = code
      BY <3>1, <3>3, <3>4, SeqEqual
    <3> QED BY <3>5 DEF p
  <2>6. l.seenId = id
    <3>1. colon - 1 = Len(id)
      BY <1>2, <2>3
    <3>2. SubSeq(text, 1, colon - 1) = id
      BY <2>2, <2>4, <3>1
    <3> QED BY <1>1, <2>0, <3>2, CopiedWhole
  <2>7. l.seenCode = code
    <3>1. colon + 1 = Len(id) + 2
      BY <1>2, <2>3
    <3>2. SubSeq(text, colon + 1, Len(text)) = code
      BY <2>2, <2>5, <3>1
    <3> QED BY <1>1, <2>0, <3>2, CopiedWhole
  <2>8. ~l.gone
    <3>1. Len(text) < DecodedSize
      BY <1>2, <2>0, <2>2
    <3>2. DecodedSize \in Nat /\ Len(text) \in Nat
      BY <2>2, <2>l, RequestsAssumption
    <3> QED BY <1>1, <2>1, <3>1, <3>2
  <2> QED BY <1>1, <2>6, <2>7, <2>8
<1> QED BY <1>5, <1>6

\* The same for the logins of an instance.
LEMMA LoginsRead ==
  ASSUME NEW l \in Logins
  PROVE  /\ Trim(ClientSerial(l.seenId)) = ClientSerial(l.seenId)
         /\ l.whole => ~l.gone /\ l.seenId = l.id /\ l.seenCode = l.code
<1>1. PICK id \in Ids, code \in Codes, room \in Rooms : l = Basic(id, code, room)
  BY DEF Logins
<1>2. id \in Seq(Symbols \ {":"}) /\ code \in Seq(Symbols) /\ room \in Nat
  BY LoginsAssumption
<1> QED BY <1>1, <1>2, LoginRead, Zenon

(***************************************************************************)
(* The inductive invariant.                                                *)
(***************************************************************************)
Types == /\ conf \in Confs /\ now \in Nat /\ req.at \in Nat
         /\ pc \in {"idle", "register", "token", "resolve", "work", "down"}

\* What was handed out was due or the configuration did not fit, is in the table if it was saved, and is the
\* only token of that name.
IssuedOK ==
  \A i \in issued :
    /\ i.at \in Nat /\ (i.entitled \/ i.cut)
    /\ i.client = i.sender /\ Trim(i.client) = i.client
    /\ i.saved => [token |-> i.token, client |-> i.client, exp |-> i.at + Life] \in tokens
    /\ \A j \in issued : i.token = j.token => i = j

\* Nothing else is in the table.
TokensOK ==
  \A r \in tokens : \E i \in issued :
    r.token = i.token /\ r.client = i.client /\ r.exp = i.at + Life

\* Between the check and the token.
RegisterOK ==
  pc \in {"register", "token"} =>
    /\ req.kind = "oauth" /\ (~ConfFits \/ EntitledTo(args.client, req.code))
    /\ Trim(args.client) = args.client
    /\ req.whole => args.client = ClientSerial(req.id)

GuardedKind == pc \in {"resolve", "work"} => req.kind # "oauth"

\* The token that let the request in is still in the table.
KnownToken == pc = "resolve" => \E r \in tokens : r.token = req.token

DownQuiet == pc # "idle" => reply = NoReply

IInv == /\ Types /\ IssuedOK /\ TokensOK /\ RegisterOK /\ GuardedKind /\ DownQuiet
        /\ KnownToken /\ Entitled

LEMMA InitIInv == Init => IInv
BY RequestsAssumption
   DEF Init, IInv, Types, IssuedOK, TokensOK, RegisterOK, GuardedKind, DownQuiet, KnownToken,
       Entitled, NoReq, NoReply

LEMMA FoundIsBacked ==
  ASSUME IInv, NEW t, Lookup(t) # {}
  PROVE  \E i \in issued :
           i.token = t /\ (i.entitled \/ i.cut) /\ i.at \in Nat /\ now <= i.at + Life
<1>1. PICK r \in tokens : r.token = t /\ ~(r.exp < now)
  BY DEF Lookup
<1>2. PICK i \in issued : r.token = i.token /\ r.exp = i.at + Life
  BY DEF IInv, TokensOK
<1>3. i.at \in Nat /\ (i.entitled \/ i.cut)
  BY DEF IInv, IssuedOK
<1> QED BY <1>1, <1>2, <1>3, RequestsAssumption DEF IInv, Types

\* A step that keeps the tokens keeps what is known of them.
LEMMA TokensKept ==
  ASSUME IInv, UNCHANGED <<tokens, issued>>
  PROVE  IssuedOK' /\ TokensOK'
BY DEF IInv, IssuedOK, TokensOK

LEMMA UnguardedStep ==
  ASSUME IInv, NEW kind \in Kinds \cap Free, Unguarded(kind) PROVE IInv'
BY TokensKept
   DEF IInv, Unguarded, Answer, Types, RegisterOK, GuardedKind, DownQuiet, KnownToken, Entitled,
       NoReq, tables, ghosts

LEMMA OAuthStep ==
  ASSUME IInv, NEW login \in Logins, OAuth(login)
  PROVE  IInv'
<1>1. Types' /\ IssuedOK' /\ TokensOK'
  BY TokensKept DEF IInv, OAuth, Answer, Goto, Types, NoReq, tables, ghosts
<1>2. RegisterOK'
  <2>1. CASE pc' = "register"
    <3>1. MayRegister(ClientSerial(login.seenId), login.seenCode)
      BY <2>1 DEF OAuth, Answer, Goto, NoArgs
    <3>2. /\ req'.kind = "oauth" /\ req'.id = login.id /\ req'.whole = login.whole
          /\ req'.code = IF login.whole THEN login.code ELSE login.seenCode
          /\ args'.client = ClientSerial(login.seenId) /\ UNCHANGED conf
      BY DEF OAuth, NoReq, NoArgs
    <3>3. req'.code = login.seenCode
      BY <3>2, LoginsRead
    <3>4. (~ConfFits \/ EntitledTo(args.client, req.code))'
      <4>1. ~ConfFits \/ EntitledTo(ClientSerial(login.seenId), login.seenCode)
        BY <3>1, AllowedIsEntitled DEF IInv, Types
      <4> QED BY <3>2, <3>3, <4>1 DEF EntitledTo, ConfFits
    <3> QED BY <3>2, <3>4, LoginsRead DEF RegisterOK
  <2>2. CASE pc' # "register"
    BY <2>2 DEF OAuth, Answer, Goto, RegisterOK
  <2> QED BY <2>1, <2>2
<1>3. GuardedKind' /\ DownQuiet' /\ KnownToken' /\ Entitled'
  BY DEF OAuth, Answer, Goto, GuardedKind, DownQuiet, KnownToken, Entitled
<1> QED BY <1>1, <1>2, <1>3 DEF IInv

LEMMA RegisterStep == ASSUME IInv, Register PROVE IInv'
BY TokensKept
   DEF IInv, Register, Goto, Types, RegisterOK, GuardedKind, DownQuiet, KnownToken, Entitled,
       EntitledTo, ConfFits, ghosts

LEMMA GrantStep == ASSUME IInv, Grant PROVE IInv'
<1> USE DEF Grant, Answer
<1>1. Types' /\ RegisterOK' /\ GuardedKind' /\ DownQuiet' /\ KnownToken' /\ Entitled'
  BY DEF IInv, Types, RegisterOK, GuardedKind, DownQuiet, KnownToken, Entitled
<1>2. CASE UNCHANGED <<tokens, issued>>
  BY <1>1, <1>2, TokensKept DEF IInv
<1>3. ASSUME NEW t \in Tokens \ {i.token : i \in issued}, NEW f \in BOOLEAN,
             tokens' = IF f THEN tokens ELSE Save(t),
             issued' = issued \cup
               {[token |-> t, client |-> args.client, at |-> now, saved |-> ~f,
                 sender |-> IF req.whole THEN ClientSerial(req.id) ELSE args.client,
                 entitled |-> EntitledTo(args.client, req.code), cut |-> ~ConfFits]}
      PROVE  IssuedOK' /\ TokensOK'
  <2> DEFINE new == [token |-> t, client |-> args.client, at |-> now, saved |-> ~f,
                     sender |-> IF req.whole THEN ClientSerial(req.id) ELSE args.client,
                     entitled |-> EntitledTo(args.client, req.code), cut |-> ~ConfFits]
  <2>1. /\ new.at \in Nat /\ (new.entitled \/ new.cut) /\ new.client = new.sender
        /\ Trim(new.client) = new.client
    BY DEF IInv, Types, RegisterOK
  <2>2. \A i \in issued : i.token # t
    OBVIOUS
  <2>3. \A r \in tokens : r.token # t
    BY <2>2 DEF IInv, TokensOK
  <2>4. tokens \subseteq tokens'
    BY <1>3, <2>3 DEF Save
  <2>5. new.saved => [token |-> t, client |-> args.client, exp |-> now + Life] \in tokens'
    BY <1>3 DEF Save, Row
  <2>6. IssuedOK'
    <3>1. ASSUME NEW i \in issued'
          PROVE  /\ i.at \in Nat /\ (i.entitled \/ i.cut) /\ i.client = i.sender
                 /\ Trim(i.client) = i.client
                 /\ i.saved =>
                      [token |-> i.token, client |-> i.client, exp |-> i.at + Life] \in tokens'
      <4>1. CASE i \in issued
        BY <4>1, <2>4 DEF IInv, IssuedOK
      <4>2. CASE i = new
        BY <4>2, <2>1, <2>5
      <4> QED BY <1>3, <4>1, <4>2
    <3>2. ASSUME NEW i \in issued', NEW j \in issued', i.token = j.token PROVE i = j
      <4>1. (i \in issued \/ i = new) /\ (j \in issued \/ j = new)
        BY <1>3
      <4>2. CASE i \in issued /\ j \in issued
        BY <3>2, <4>2 DEF IInv, IssuedOK
      <4>3. new.token = t
        OBVIOUS
      <4> HIDE DEF new
      <4> QED BY <2>2, <3>2, <4>1, <4>2, <4>3
    <3>3. \A i \in issued' : \A j \in issued' : i.token = j.token => i = j
      BY <3>2
    <3> QED BY <3>1, <3>3, Zenon DEF IssuedOK
  <2>7. TokensOK'
    <3> SUFFICES ASSUME NEW r \in tokens'
                 PROVE  \E i \in issued' : /\ r.token = i.token /\ r.client = i.client
                                           /\ r.exp = i.at + Life
      BY DEF TokensOK
    <3>0. issued \subseteq issued'
      BY <1>3
    <3>1. CASE r \in tokens
      BY <3>0, <3>1 DEF IInv, TokensOK
    <3>2. CASE r = Row(t)
      <4>1. new \in issued'
        BY <1>3
      <4>2. r.token = new.token /\ r.client = new.client /\ r.exp = new.at + Life
        BY <3>2 DEF Row
      <4> QED BY <4>1, <4>2
    <3> QED BY <1>3, <3>1, <3>2 DEF Save
  <2> QED BY <2>6, <2>7
<1> QED BY <1>1, <1>2, <1>3 DEF IInv

LEMMA LetInStep ==
  ASSUME IInv, NEW kind \in Kinds \ (Free \cup {"oauth"}), NEW t, NEW whole \in BOOLEAN,
         LetIn(kind, t, whole)
  PROVE  IInv'
<1>1. Types' /\ IssuedOK' /\ TokensOK'
  BY TokensKept DEF IInv, LetIn, Answer, Goto, Types, NoReq, tables, ghosts
<1>2. RegisterOK' /\ GuardedKind' /\ DownQuiet'
  BY DEF LetIn, Answer, Goto, RegisterOK, GuardedKind, DownQuiet, NoReq
<1>4. KnownToken'
  <2> SUFFICES ASSUME pc' = "resolve" PROVE \E r \in tokens' : r.token = req'.token
    BY DEF KnownToken
  <2>1. Lookup(t) # {} /\ req'.token = t /\ UNCHANGED tokens
    BY DEF LetIn, Answer, Goto, NoReq, tables
  <2> QED BY <2>1 DEF Lookup
<1>3. Entitled'
  <2> SUFFICES ASSUME pc' \in {"resolve", "work"}
               PROVE  \E i \in issued' :
                        /\ i.token = req'.token /\ (i.entitled \/ i.cut)
                        /\ req'.at <= i.at + Life
    BY DEF Entitled
  <2>1. Lookup(t) # {} /\ req'.token = t /\ req'.at = now /\ UNCHANGED issued
    BY DEF LetIn, Answer, Goto, NoReq, ghosts
  <2> QED BY <2>1, FoundIsBacked
<1> QED BY <1>1, <1>2, <1>3, <1>4 DEF IInv

LEMMA ResolveStep ==
  ASSUME IInv, NEW url, NEW b, Resolve(url, b) PROVE IInv'
<1>1. Types' /\ IssuedOK' /\ TokensOK'
  BY TokensKept DEF IInv, Resolve, Goto, Types, tables, ghosts
<1>2. RegisterOK' /\ GuardedKind' /\ DownQuiet' /\ KnownToken' /\ Entitled'
  BY DEF IInv, Resolve, Goto, RegisterOK, GuardedKind, DownQuiet, KnownToken, Entitled, ghosts
<1> QED BY <1>1, <1>2 DEF IInv

LEMMA WorkStep == ASSUME IInv, Start \/ Finish \/ ListOpen \/ Read PROVE IInv'
<1> USE DEF Done, Answer, tables, ghosts
<1>1. /\ pc' = "idle" /\ UNCHANGED <<conf, now, tokens, issued>>
      /\ req' \in {req, NoReq}
  BY DEF Start, Finish, ListOpen, Read
<1>2. Types' /\ IssuedOK' /\ TokensOK'
  BY <1>1, TokensKept DEF IInv, Types, NoReq
<1> QED BY <1>1, <1>2 DEF IInv, RegisterOK, GuardedKind, DownQuiet, KnownToken, Entitled

LEMMA EnvironmentStep == ASSUME IInv, Tick \/ Crash \/ Restart PROVE IInv'
<1> USE DEF tables, ghosts
<1>1. CASE Tick
  BY <1>1, TokensKept
     DEF IInv, Tick, Types, RegisterOK, EntitledTo, ConfFits, GuardedKind, DownQuiet, KnownToken, Entitled
<1>2. CASE Crash
  BY <1>2, TokensKept
     DEF IInv, Crash, Types, NoReq, RegisterOK, GuardedKind, DownQuiet, KnownToken, Entitled
<1>3. CASE Restart
  BY <1>3, TokensKept
     DEF IInv, Restart, Types, RegisterOK, GuardedKind, DownQuiet, KnownToken, Entitled
<1> QED BY <1>1, <1>2, <1>3

LEMMA StutterStep == ASSUME IInv, UNCHANGED vars PROVE IInv'
BY TokensKept
   DEF IInv, vars, tables, ghosts, Types, RegisterOK, EntitledTo, ConfFits, GuardedKind,
       DownQuiet, KnownToken, Entitled

LEMMA Inductive == ASSUME IInv, [Next]_vars PROVE IInv'
BY UnguardedStep, OAuthStep, RegisterStep, GrantStep, LetInStep, ResolveStep, WorkStep,
   EnvironmentStep, StutterStep
   DEF Next

LEMMA Invariance == Spec => []IInv
<1>1. Init => IInv
  BY InitIInv
<1>2. IInv /\ [Next]_vars => IInv'
  BY Inductive
<1> QED BY <1>1, <1>2, PTL DEF Spec

\* validate_bearer: nobody is let in without a token that was due to its client
\* and is no older than Life, whatever restarts and configurations lie between.
THEOREM NoEntryWithoutRight ==
  Spec => []Entitled
<1>1. IInv => Entitled
  BY DEF IInv
<1> QED BY <1>1, Invariance, PTL

(***************************************************************************)
(* Numbers, for every path.                                                *)
(***************************************************************************)
\* Values 0 to N that start with a, each made from the one before by F.
Makers(A, N)      == [(1..N) \X A -> A]
Built(A, N, a, F) ==
  \E f \in [0..N -> A] : f[0] = a /\ \A i \in 1..N : f[i] = F[<<i, f[i - 1]>>]

LEMMA Recursion ==
  ASSUME NEW A, NEW N \in Nat, NEW a \in A, NEW F \in Makers(A, N)
  PROVE  Built(A, N, a, F)
<1> USE DEF Makers
<1> DEFINE Ok(f, n) == f[0] = a /\ \A i \in 1..n : f[i] = F[<<i, f[i - 1]>>]
           S == {n \in Nat : n <= N => \E f \in [0..n -> A] : Ok(f, n)}
<1>1. 0 \in S
  <2>1. [i \in 0..0 |-> a] \in [0..0 -> A] /\ Ok([i \in 0..0 |-> a], 0)
    OBVIOUS
  <2> QED BY <2>1
<1>2. ASSUME NEW n \in Nat, n \in S PROVE n + 1 \in S
  <2> SUFFICES ASSUME n + 1 <= N PROVE \E f \in [0..n + 1 -> A] : Ok(f, n + 1)
    OBVIOUS
  <2>1. PICK f \in [0..n -> A] : Ok(f, n)
    BY <1>2
  <2> DEFINE y == F[<<n + 1, f[n]>>]
             h == [i \in 0..n + 1 |-> IF i = n + 1 THEN y ELSE f[i]]
  <2>2. y \in A
    <3>1. n + 1 \in 1..N /\ f[n] \in A
      BY <2>1
    <3> QED BY <3>1
  <2>3. h \in [0..n + 1 -> A]
    <3> HIDE DEF y
    <3> QED BY <2>1, <2>2
  <2>4. h[0] = a
    BY <2>1
  <2>5. ASSUME NEW i \in 1..n + 1 PROVE h[i] = F[<<i, h[i - 1]>>]
    <3>1. i - 1 \in 0..n /\ h[i - 1] = f[i - 1]
      OBVIOUS
    <3>2. CASE i = n + 1
      <4>1. h[i] = y /\ i - 1 = n
        BY <3>2
      <4> QED BY <3>1, <3>2, <4>1
    <3>3. CASE i # n + 1
      <4>1. i \in 1..n /\ h[i] = f[i]
        BY <3>3
      <4> QED BY <2>1, <3>1, <4>1
    <3> QED BY <3>2, <3>3
  <2> HIDE DEF h
  <2> QED BY <2>3, <2>4, <2>5
<1>3. N \in S
  <2> HIDE DEF S
  <2> QED BY <1>1, <1>2, NatSets
<1> QED BY <1>3 DEF Built

LEMMA FiguresAre ==
  /\ \A n \in 0..9 : Figures[n + 1] \in DOMAIN Digits /\ Digits[Figures[n + 1]] = n
  /\ \A d \in DOMAIN Digits : Digits[d] \in 0..9
  /\ \A d \in DOMAIN Digits : d \notin {"/", "?"}
<1>1. DOMAIN Digits = {Figures[k] : k \in 1..10}
  BY DEF Digits
<1>2. \A d \in DOMAIN Digits : \E n \in 0..9 : d = Figures[n + 1]
  <2>1. \A k \in 1..10 : k - 1 \in 0..9 /\ (k - 1) + 1 = k
    OBVIOUS
  <2> QED BY <1>1, <2>1
<1>3. \A d \in DOMAIN Digits : Digits[d] = CHOOSE n \in 0..9 : d = Figures[n + 1]
  BY <1>1 DEF Digits
<1>4. \A m, n \in 0..9 : Figures[m + 1] = Figures[n + 1] => m = n
  BY DEF Figures
<1>5. \A n \in 0..9 : Figures[n + 1] \in DOMAIN Digits
  <2>1. \A n \in 0..9 : n + 1 \in 1..10
    OBVIOUS
  <2> QED BY <1>1, <2>1
<1>6. \A k \in 1..10 : Figures[k] \notin {"/", "?"}
  BY DEF Figures
<1>7. ASSUME NEW n \in 0..9 PROVE Digits[Figures[n + 1]] = n
  <2> DEFINE m == CHOOSE m \in 0..9 : Figures[n + 1] = Figures[m + 1]
  <2>1. m \in 0..9 /\ Figures[n + 1] = Figures[m + 1]
    OBVIOUS
  <2>2. Digits[Figures[n + 1]] = m
    BY <1>3, <1>5
  <2> QED BY <1>4, <2>1, <2>2
<1>8. \A d \in DOMAIN Digits : Digits[d] \in 0..9
  BY <1>2, <1>7
<1> QED BY <1>1, <1>5, <1>6, <1>7, <1>8

\* The number that digits make, from the first to the last.
LEMMA NumberIs ==
  ASSUME NEW Chr, NEW s \in Seq(Chr), \A i \in 1..Len(s) : s[i] \in DOMAIN Digits,
         NEW base \in Nat
  PROVE  \E v \in [0..Len(s) -> Nat] :
           /\ v[0] = 0 /\ Number(s, base) = v[Len(s)]
           /\ \A i \in 1..Len(s) : v[i] = base * v[i - 1] + Digits[s[i]]
<1> DEFINE L == Len(s)
           end == SkipFrom(s, 1, DOMAIN Digits)
           Val(f, i) == IF i = 0 THEN 0 ELSE base * f[i - 1] + Digits[s[i]]
           P(f) == f = [i \in 0..L |-> Val(f, i)]
           v == CHOOSE f : P(f)
<1>1. L \in Nat /\ \A i \in 1..L : Digits[s[i]] \in Nat
  BY LenProperties, FiguresAre
<1>2. end = L + 1
  <2>1. 1 \in 1..L + 1
    BY <1>1
  <2>2. end \in 1..L + 1 /\ (end <= L => s[end] \notin DOMAIN Digits)
    BY <2>1, SkipIs
  <2> HIDE DEF end
  <2> QED BY <1>1, <2>2
<1>3. Number(s, base) = v[L]
  <2>1. end - 1 = L
    BY <1>1, <1>2
  <2> QED BY <2>1 DEF Number
<1>4. \E f \in [0..L -> Nat] : P(f)
  <2> DEFINE F == [p \in (1..L) \X Nat |-> base * p[2] + Digits[s[p[1]]]]
  <2>1. F \in Makers(Nat, L)
    BY <1>1 DEF Makers
  <2>2. \A i \in 1..L, x \in Nat : F[<<i, x>>] = base * x + Digits[s[i]]
    OBVIOUS
  <2> HIDE DEF F
  <2>3. PICK f \in [0..L -> Nat] : f[0] = 0 /\ \A i \in 1..L : f[i] = F[<<i, f[i - 1]>>]
    <3>1. 0 \in Nat
      OBVIOUS
    <3>2. Built(Nat, L, 0, F)
      BY <1>1, <2>1, <3>1, Recursion
    <3> QED BY <3>2 DEF Built
  <2>4. ASSUME NEW i \in 0..L PROVE f[i] = Val(f, i)
    <3>1. CASE i = 0
      BY <2>3, <3>1
    <3>2. CASE i # 0
      <4>1. i \in 1..L /\ i - 1 \in 0..L
        BY <1>1, <3>2
      <4>2. f[i - 1] \in Nat
        BY <4>1
      <4> QED BY <2>2, <2>3, <3>2, <4>1, <4>2
    <3> QED BY <3>1, <3>2
  <2> QED BY <2>3, <2>4
<1>5. P(v)
  <2> HIDE DEF P
  <2> QED BY <1>4
<1> HIDE DEF v
<1>6. v[0] = 0 /\ \A i \in 1..L : v[i] = base * v[i - 1] + Digits[s[i]]
  <2>1. \A i \in 0..L : v[i] = Val(v, i)
    BY <1>5, Zenon
  <2> QED BY <1>1, <2>1
<1>7. \A n \in Nat : n \in {m \in Nat : m <= L => v[m] \in Nat}
  <2> DEFINE T == {m \in Nat : m <= L => v[m] \in Nat}
  <2>1. 0 \in T
    BY <1>6
  <2>2. ASSUME NEW m \in Nat, m \in T PROVE m + 1 \in T
    <3> SUFFICES ASSUME m + 1 <= L PROVE v[m + 1] \in Nat
      OBVIOUS
    <3>1. m + 1 \in 1..L /\ (m + 1) - 1 = m /\ v[m] \in Nat
      BY <1>1, <2>2
    <3>2. v[m + 1] = base * v[m] + Digits[s[m + 1]] /\ Digits[s[m + 1]] \in Nat
      BY <1>1, <1>6, <3>1
    <3>3. base * v[m] \in Nat
      BY <3>1
    <3> DEFINE x == base * v[m]
               y == Digits[s[m + 1]]
    <3>4. v[m + 1] = x + y /\ x \in Nat /\ y \in Nat
      BY <3>2, <3>3
    <3> HIDE DEF x, y
    <3> QED BY <3>4
  <2> HIDE DEF T
  <2>3. \A n \in Nat : n \in T
    BY <2>1, <2>2, NatSets
  <2> QED BY <2>3 DEF T
<1>8. v \in [0..L -> Nat]
  <2>1. v = [i \in 0..L |-> v[i]]
    BY <1>5
  <2>2. \A i \in 0..L : v[i] \in Nat
    BY <1>1, <1>7
  <2> QED BY <2>1, <2>2
<1> QED BY <1>3, <1>6, <1>8

\* Read back is what was written.
LEMMA ReadBack ==
  ASSUME NEW Chr, NEW s \in Seq(Chr), \A i \in 1..Len(s) : s[i] \in DOMAIN Digits,
         NEW n \in Nat, ReadsLike(s, n)
  PROVE  Number(s, 10) = n
<1> DEFINE L == Len(s)
           Val(f, k) == IF k = 0 THEN n ELSE f[k - 1] \div 10
           P(f) == f = [k \in 0..L |-> Val(f, k)]
           t == CHOOSE f : P(f)
<1>1. L \in Nat
  BY LenProperties
<1>2. \A x \in Nat : /\ x \div 10 \in Nat /\ x % 10 \in 0..9
                     /\ 10 * (x \div 10) + (x % 10) = x
  BY Divided
<1>t. t[L] = 0 /\ \A k \in 0..L - 1 : s[L - k] = Figures[(t[k] % 10) + 1]
  BY DEF ReadsLike
<1>3. \E f \in [0..L -> Nat] : P(f)
  <2> DEFINE F == [p \in (1..L) \X Nat |-> p[2] \div 10]
  <2>2. F \in Makers(Nat, L)
    BY <1>2 DEF Makers
  <2>3. \A i \in 1..L, x \in Nat : F[<<i, x>>] = x \div 10
    OBVIOUS
  <2> HIDE DEF F
  <2>4. PICK f \in [0..L -> Nat] : f[0] = n /\ \A i \in 1..L : f[i] = F[<<i, f[i - 1]>>]
    <3>1. Built(Nat, L, n, F)
      BY <1>1, <2>2, Recursion
    <3> QED BY <3>1 DEF Built
  <2>5. ASSUME NEW i \in 0..L PROVE f[i] = Val(f, i)
    <3>1. CASE i = 0
      BY <2>4, <3>1
    <3>2. CASE i # 0
      <4>1. i \in 1..L /\ i - 1 \in 0..L
        BY <1>1, <3>2
      <4>2. f[i - 1] \in Nat
        BY <4>1
      <4> QED BY <2>3, <2>4, <3>2, <4>1, <4>2
    <3> QED BY <3>1, <3>2
  <2> QED BY <2>4, <2>5
<1>4. P(t)
  <2> HIDE DEF P
  <2> QED BY <1>3
<1> HIDE DEF t
<1>5. t[0] = n /\ \A k \in 0..L - 1 : t[k + 1] = t[k] \div 10
  <2>1. \A k \in 0..L : t[k] = Val(t, k)
    BY <1>4, Zenon
  <2>2. 0 \in 0..L /\ \A k \in 0..L - 1 : k + 1 \in 0..L /\ k + 1 # 0 /\ (k + 1) - 1 = k
    BY <1>1
  <2> QED BY <2>1, <2>2
<1> DEFINE T == {k \in Nat : k <= L => t[k] \in Nat}
<1>6. \A k \in Nat : k \in T
  <2>1. 0 \in T
    BY <1>5
  <2>2. ASSUME NEW k \in Nat, k \in T PROVE k + 1 \in T
    <3> SUFFICES ASSUME k + 1 <= L PROVE t[k + 1] \in Nat
      OBVIOUS
    <3>1. k \in 0..L - 1 /\ t[k] \in Nat
      BY <1>1, <2>2
    <3> QED BY <1>2, <1>5, <3>1, Zenon
  <2> HIDE DEF T
  <2> QED BY <2>1, <2>2, NatSets
<1>7. \A k \in 0..L : t[k] \in Nat
  BY <1>1, <1>6
<1>8. PICK v \in [0..L -> Nat] :
        /\ v[0] = 0 /\ Number(s, 10) = v[L]
        /\ \A i \in 1..L : v[i] = 10 * v[i - 1] + Digits[s[i]]
  <2>1. 10 \in Nat
    OBVIOUS
  <2> QED BY <2>1, NumberIs
<1> DEFINE U == {i \in Nat : i <= L => v[i] = t[L - i]}
<1>9. 0 \in U
  BY <1>1, <1>t, <1>8
<1>10. ASSUME NEW i \in Nat, i \in U PROVE i + 1 \in U
  <2> SUFFICES ASSUME i + 1 <= L PROVE v[i + 1] = t[L - (i + 1)]
    OBVIOUS
  <2> DEFINE k == L - (i + 1)
  <2>1. k \in 0..L - 1 /\ k + 1 = L - i /\ L - k = i + 1 /\ i + 1 \in 1..L /\ (i + 1) - 1 = i
    BY <1>1
  <2> HIDE DEF k
  <2>2. v[i] = t[k] \div 10
    BY <1>5, <1>10, <2>1
  <2>3. t[k] \in Nat
    BY <1>7, <2>1
  <2>4. t[k] % 10 \in 0..9 /\ 10 * (t[k] \div 10) + (t[k] % 10) = t[k]
    BY <1>2, <2>3, Zenon
  <2>5. Digits[s[i + 1]] = t[k] % 10
    <3>1. s[i + 1] = Figures[(t[k] % 10) + 1]
      BY <1>t, <2>1
    <3>2. Digits[Figures[(t[k] % 10) + 1]] = t[k] % 10
      BY <2>4, FiguresAre, Zenon
    <3> QED BY <3>1, <3>2
  <2>6. v[i + 1] = 10 * v[i] + Digits[s[i + 1]]
    BY <1>8, <2>1
  <2>7. v[i + 1] = t[k]
    BY <2>2, <2>4, <2>5, <2>6
  <2> QED BY <2>7 DEF k
<1>11. \A i \in Nat : i \in U
  <2> HIDE DEF U
  <2> QED BY <1>9, <1>10, NatSets
<1>12. v[L] = t[0]
  BY <1>1, <1>11
<1> QED BY <1>5, <1>8, <1>12

\* Without the query and without slashes at the end.
LEMMA NormalIs ==
  ASSUME NEW Chr, NEW s \in Seq(Chr), Len(NormalizePath(s)) > 3
  PROVE  \E q \in 1..Len(s) + 1, m \in 1..Len(s) :
           /\ m < q /\ (q <= Len(s) => s[q] = "?")
           /\ \A j \in m + 1..q - 1 : s[j] = "/"
           /\ NormalizePath(s) = SubSeq(s, 1, m)
<1> DEFINE q == UntilFrom(s, 1, {"?"})
           path == SubSeq(s, 1, q - 1)
           kept == {i \in 2..Len(path) : path[i] # "/"} \cup {1}
           m == CHOOSE i \in kept : \A j \in kept : j <= i
<1>1. Len(s) \in Nat /\ 1 \in 1..Len(s) + 1
  BY LenProperties
<1>2. q \in 1..Len(s) + 1 /\ (q <= Len(s) => s[q] = "?")
  BY <1>1, UntilIs
<1> HIDE DEF q
<1>3. /\ path \in Seq(Chr) /\ Len(path) = q - 1
      /\ \A i \in 1..q - 1 : path[i] = s[i]
  <2>1. q - 1 \in 0..Len(s)
    BY <1>1, <1>2
  <2>2. /\ path \in Seq(Chr) /\ Len(path) = (q - 1) - 1 + 1
        /\ \A i \in 1..(q - 1) - 1 + 1 : path[i] = s[1 + i - 1]
    BY <1>1, <2>1, PartIs
  <2>3. (q - 1) - 1 + 1 = q - 1 /\ \A i \in 1..q - 1 : 1 + i - 1 = i
    BY <1>1, <1>2
  <2> QED BY <2>2, <2>3
<1>4. path # <<>>
  <2> SUFFICES ASSUME path = <<>> PROVE FALSE
    OBVIOUS
  <2>1. NormalizePath(s) = <<"/">>
    BY DEF NormalizePath, q
  <2>2. Len(<<"/">>) = 1
    OBVIOUS
  <2> QED BY <2>1, <2>2
<1>5. NormalizePath(s) = SubSeq(path, 1, m)
  BY <1>4 DEF NormalizePath, q
<1>6. q > 1
  <2>1. Len(path) # 0
    BY <1>3, <1>4, EmptySeq
  <2> QED BY <1>1, <1>2, <1>3, <2>1
<1> HIDE DEF path
<1>7. kept \in SUBSET (0..q - 1) /\ kept # {}
  BY <1>1, <1>2, <1>3, <1>6
<1>8. m \in kept /\ \A j \in kept : j <= m
  <2>1. q - 1 \in Nat
    BY <1>1, <1>2
  <2> HIDE DEF kept
  <2>2. \E i \in kept : \A j \in kept : j <= i
    BY <1>7, <2>1, MostIs
  <2> QED BY <2>2
<1> HIDE DEF m
<1>9. m \in 1..q - 1 /\ \A j \in m + 1..q - 1 : path[j] = "/"
  <2>1. m \in 1..q - 1
    BY <1>1, <1>2, <1>3, <1>6, <1>8
  <2>2. ASSUME NEW j \in m + 1..q - 1, path[j] # "/" PROVE FALSE
    <3>1. j \in 2..Len(path)
      BY <1>3, <2>1
    <3>2. j \in kept
      BY <2>2, <3>1
    <3> QED BY <1>8, <2>1, <3>2
  <2> QED BY <2>1, <2>2
<1>10. m \in 1..Len(s) /\ \A j \in m + 1..q - 1 : s[j] = "/"
  BY <1>1, <1>2, <1>3, <1>9
<1>11. SubSeq(path, 1, m) = SubSeq(s, 1, m)
  <2>1. 1 \in 1..Len(path) + 1 /\ m \in 1 - 1..Len(path) /\ 1 \in 1..Len(s) + 1
        /\ m \in 1 - 1..Len(s) /\ m - 1 + 1 = m
    BY <1>1, <1>2, <1>3, <1>9, <1>10
  <2> DEFINE one == SubSeq(path, 1, m)
             other == SubSeq(s, 1, m)
  <2>2. one \in Seq(Chr) /\ Len(one) = m /\ \A i \in 1..m : one[i] = path[1 + i - 1]
    BY <1>3, <2>1, PartIs
  <2>3. other \in Seq(Chr) /\ Len(other) = m /\ \A i \in 1..m : other[i] = s[1 + i - 1]
    BY <2>1, PartIs
  <2> HIDE DEF one, other
  <2>4. \A i \in 1..m : path[1 + i - 1] = s[1 + i - 1]
    <3>1. \A i \in 1..m : 1 + i - 1 \in 1..q - 1
      BY <1>1, <1>2, <1>9
    <3> QED BY <1>3, <3>1
  <2>5. one = other
    BY <2>2, <2>3, <2>4, SeqEqual
  <2> QED BY <2>5 DEF one, other
<1> QED BY <1>2, <1>5, <1>9, <1>10, <1>11

\* match_tx_finish lets through what is "/transaction/" and digits, and what
\* follows them in the url is not among them.
LEMMA FinishPath ==
  ASSUME NEW Chr, NEW s \in Seq(Chr), MatchTxFinish(NormalizePath(s), NumSize)
  PROVE  LET part == SubSeq(NormalizePath(s), 4, Len(NormalizePath(s)))
         IN  /\ part \in Seq(Chr) /\ \A i \in 1..Len(part) : part[i] \in DOMAIN Digits
             /\ At(s, 1, <<"/", "transaction", "/">>) /\ TxPart(s) = part
<1> DEFINE tx == <<"/", "transaction", "/">>
           path == NormalizePath(s)
           u == UntilFrom(s, 4, {"/", "?"})
<1>1. /\ Len(path) > 3 /\ SubSeq(path, 1, 3) = tx
      /\ \A i \in 4..Len(path) : path[i] \in DOMAIN Digits
  BY DEF MatchTxFinish
<1>2. Len(s) \in Nat /\ \A i \in 1..Len(s) : s[i] \in Chr
  BY LenProperties, ElementOfSeq
<1>3. PICK q \in 1..Len(s) + 1, m \in 1..Len(s) :
           /\ m < q /\ (q <= Len(s) => s[q] = "?")
           /\ \A j \in m + 1..q - 1 : s[j] = "/"
           /\ path = SubSeq(s, 1, m)
  BY <1>1, NormalIs
<1> HIDE DEF path
<1>4. /\ path \in Seq(Chr) /\ Len(path) = m /\ \A i \in 1..m : path[i] = s[i]
  <2>1. 1 \in 1..Len(s) + 1 /\ m \in 1 - 1..Len(s) /\ m - 1 + 1 = m
        /\ \A i \in 1..m : 1 + i - 1 = i
    BY <1>2
  <2>2. /\ SubSeq(s, 1, m) \in Seq(Chr) /\ Len(SubSeq(s, 1, m)) = m - 1 + 1
        /\ \A i \in 1..m - 1 + 1 : SubSeq(s, 1, m)[i] = s[1 + i - 1]
    BY <2>1, PartIs
  <2> QED BY <1>3, <2>1, <2>2
<1>5. m > 3 /\ \A i \in 4..m : s[i] \in DOMAIN Digits
  <2>1. \A i \in 4..m : i \in 1..m
    OBVIOUS
  <2> QED BY <1>1, <1>4, <2>1
\* The part ends where the path does.
<1>6. u = m + 1
  <2>1. 4 \in 1..Len(s) + 1
    BY <1>2, <1>5
  <2>2. /\ u \in 4..Len(s) + 1 /\ \A j \in 4..u - 1 : s[j] \notin {"/", "?"}
        /\ u <= Len(s) => s[u] \in {"/", "?"}
    BY <2>1, UntilIs
  <2> HIDE DEF u
  <2>3. u > m
    <3> SUFFICES ASSUME u <= m PROVE FALSE
      BY <2>2
    <3>1. u \in 4..m /\ u <= Len(s)
      BY <1>2, <2>2
    <3>2. s[u] \in DOMAIN Digits /\ s[u] \in {"/", "?"}
      BY <1>5, <2>2, <3>1
    <3> QED BY <3>2, FiguresAre
  <2>4. ASSUME m + 1 <= Len(s) PROVE s[m + 1] \in {"/", "?"}
    <3>1. CASE m + 1 <= q - 1
      <4>1. m + 1 \in m + 1..q - 1
        BY <3>1
      <4> QED BY <1>3, <4>1
    <3>2. CASE ~(m + 1 <= q - 1)
      <4>1. q = m + 1
        BY <1>3, <3>2
      <4> QED BY <1>3, <2>4, <4>1
    <3> QED BY <3>1, <3>2
  <2>5. ~(m + 1 < u)
    <3> SUFFICES ASSUME m + 1 < u PROVE FALSE
      OBVIOUS
    <3>1. m + 1 \in 4..u - 1 /\ m + 1 <= Len(s)
      BY <1>2, <1>5, <2>2
    <3> QED BY <2>2, <2>4, <3>1
  <2> QED BY <2>2, <2>3, <2>5
<1> HIDE DEF u
<1> DEFINE part == SubSeq(path, 4, Len(path))
           other == SubSeq(s, 4, m)
<1>7. /\ part \in Seq(Chr) /\ Len(part) = m - 3
      /\ \A i \in 1..m - 3 : part[i] = path[4 + i - 1]
  <2>1. 4 \in 1..m + 1 /\ m \in 4 - 1..m /\ m - 4 + 1 = m - 3
    BY <1>2, <1>5
  <2>2. /\ part \in Seq(Chr) /\ Len(part) = m - 4 + 1
        /\ \A i \in 1..m - 4 + 1 : part[i] = path[4 + i - 1]
    BY <1>4, <2>1, PartIs
  <2> QED BY <2>1, <2>2
<1>8. /\ other \in Seq(Chr) /\ Len(other) = m - 3
      /\ \A i \in 1..m - 3 : other[i] = s[4 + i - 1]
  <2>1. 4 \in 1..Len(s) + 1 /\ m \in 4 - 1..Len(s) /\ m - 4 + 1 = m - 3
    BY <1>2, <1>5
  <2>2. /\ other \in Seq(Chr) /\ Len(other) = m - 4 + 1
        /\ \A i \in 1..m - 4 + 1 : other[i] = s[4 + i - 1]
    BY <2>1, PartIs
  <2> QED BY <2>1, <2>2
<1>9. TxPart(s) = other
  <2>1. u - 1 = m
    BY <1>6
  <2> QED BY <2>1 DEF TxPart, u
<1> HIDE DEF part, other
<1>10. \A i \in 1..m - 3 : 4 + i - 1 \in 4..m /\ 4 + i - 1 \in 1..m
  OBVIOUS
<1>11. part = other
  <2>1. \A i \in 1..m - 3 : part[i] = other[i]
    BY <1>4, <1>7, <1>8, <1>10
  <2> QED BY <1>7, <1>8, <2>1, SeqEqual
<1>12. \A i \in 1..Len(part) : part[i] \in DOMAIN Digits
  BY <1>4, <1>5, <1>7, <1>10
<1>13. At(s, 1, tx)
  <2>1. SubSeq(s, 1, 3) = tx
    <3>1. /\ 1 \in 1..Len(s) + 1 /\ 3 \in 1 - 1..Len(s) /\ 1 \in 1..m + 1
          /\ 3 \in 1 - 1..m /\ 3 - 1 + 1 = 3 /\ \A i \in 1..3 : 1 + i - 1 \in 1..m
      BY <1>2, <1>5
    <3> DEFINE a == SubSeq(s, 1, 3)
               b == SubSeq(path, 1, 3)
    <3>2. a \in Seq(Chr) /\ Len(a) = 3 - 1 + 1 /\ \A i \in 1..3 - 1 + 1 : a[i] = s[1 + i - 1]
      BY <3>1, PartIs
    <3>3. b \in Seq(Chr) /\ Len(b) = 3 - 1 + 1 /\ \A i \in 1..3 - 1 + 1 : b[i] = path[1 + i - 1]
      BY <1>4, <3>1, PartIs
    <3> HIDE DEF a, b
    <3>4. a = b
      BY <1>4, <3>1, <3>2, <3>3, SeqEqual
    <3> QED BY <1>1, <3>4 DEF a, b
  <2>2. Len(tx) = 3
    OBVIOUS
  <2>3. 1 + Len(tx) - 1 = 3 /\ 3 <= Len(s)
    BY <1>2, <1>5, <2>2
  <2> QED BY <2>1, <2>3 DEF At
<1> QED BY <1>7, <1>9, <1>11, <1>12, <1>13 DEF part, path

\* http_normalize_path, match_tx_finish and atoll: a finish is of the number that
\* its url says, with whatever zeros, slashes and query.
THEOREM NumbersRead ==
  ASSUME NEW a \in Asked, a.kind = "finish"
  PROVE  TxNumber(NormalizePath(a.url.text)) = a.url.num
<1> DEFINE s == a.url.text
           path == NormalizePath(s)
           part == SubSeq(path, 4, Len(path))
<1>1. MatchTxFinish(path, NumSize) /\ a.url \in Urls
  <2>1. PICK m \in Methods, u \in Urls : a = [kind |-> Route(m, u), url |-> u]
    BY DEF Asked
  <2>2. a.url = u /\ Route(m, u) = "finish"
    BY <2>1
  <2> QED BY <2>2 DEF Route
<1>2. s \in Seq(STRING) /\ a.url.num \in Nat
      /\ (At(s, 1, <<"/", "transaction", "/">>)
           /\ (\A i \in 1..Len(TxPart(s)) : TxPart(s)[i] \in DOMAIN Digits)
           => ReadsLike(TxPart(s), a.url.num))
  BY <1>1, UrlsAssumption DEF Texts
<1> HIDE DEF s
<1>3. /\ part \in Seq(STRING) /\ \A i \in 1..Len(part) : part[i] \in DOMAIN Digits
      /\ At(s, 1, <<"/", "transaction", "/">>) /\ TxPart(s) = part
  BY <1>1, <1>2, FinishPath
<1> HIDE DEF part
<1>4. Number(part, 10) = a.url.num
  BY <1>2, <1>3, ReadBack
<1> QED BY <1>4 DEF TxNumber, part, path, s

(***************************************************************************)
(* The fields of a plain body.                                             *)
(***************************************************************************)
LEMMA AtIs ==
  ASSUME NEW Chr, NEW json \in Seq(Chr), NEW i \in Nat, i > 0
  PROVE  /\ \A c : At(json, i, <<c>>) <=> i <= Len(json) /\ json[i] = c
         /\ \A c, d : At(json, i, <<c, d>>)
                        => i + 1 <= Len(json) /\ json[i] = c /\ json[i + 1] = d
<1>1. Len(json) \in Nat
  BY LenProperties
<1>2. ASSUME NEW c PROVE At(json, i, <<c>>) <=> i <= Len(json) /\ json[i] = c
  <2>1. At(json, i, <<c>>) <=> i <= Len(json) /\ SubSeq(json, i, i) = <<c>>
    <3>1. Len(<<c>>) = 1 /\ i + 1 - 1 = i
      OBVIOUS
    <3> QED BY <3>1 DEF At
  <2>2. i <= Len(json) => SubSeq(json, i, i) = <<json[i]>>
    <3> SUFFICES ASSUME i <= Len(json) PROVE SubSeq(json, i, i) = <<json[i]>>
      OBVIOUS
    <3>1. i \in 1..Len(json) + 1 /\ i \in i - 1..Len(json) /\ i - i + 1 = 1
      BY <1>1
    <3>2. /\ SubSeq(json, i, i) \in Seq(Chr) /\ Len(SubSeq(json, i, i)) = 1
          /\ \A k \in 1..1 : SubSeq(json, i, i)[k] = json[i + k - 1]
      BY <3>1, PartIs
    <3>3. SubSeq(json, i, i)[1] = json[i]
      BY <3>2
    <3>4. json[i] \in Chr
      BY <3>1, ElementOfSeq
    <3>5. <<json[i]>> \in Seq(Chr) /\ Len(<<json[i]>>) = 1 /\ <<json[i]>>[1] = json[i]
      BY <3>4
    <3>6. \A k \in 1..1 : SubSeq(json, i, i)[k] = <<json[i]>>[k]
      BY <3>3, <3>5
    <3> QED BY <3>2, <3>5, <3>6, SeqEqual
  <2>3. <<json[i]>> = <<c>> <=> json[i] = c
    OBVIOUS
  <2> QED BY <2>1, <2>2, <2>3, Zenon
<1>3. ASSUME NEW c, NEW d, At(json, i, <<c, d>>)
      PROVE  i + 1 <= Len(json) /\ json[i] = c /\ json[i + 1] = d
  <2>1. i + 1 <= Len(json) /\ SubSeq(json, i, i + 1) = <<c, d>>
    <3>1. Len(<<c, d>>) = 2 /\ i + 2 - 1 = i + 1
      OBVIOUS
    <3> QED BY <1>3, <3>1 DEF At
  <2>2. i \in 1..Len(json) + 1 /\ i + 1 \in i - 1..Len(json) /\ (i + 1) - i + 1 = 2
    BY <1>1, <2>1
  <2>3. \A k \in 1..2 : SubSeq(json, i, i + 1)[k] = json[i + k - 1]
    BY <2>2, PartIs
  <2>4. i + 1 - 1 = i /\ i + 2 - 1 = i + 1
    OBVIOUS
  <2>5. SubSeq(json, i, i + 1)[1] = json[i] /\ SubSeq(json, i, i + 1)[2] = json[i + 1]
    <3>1. 1 \in 1..2 /\ 2 \in 1..2
      OBVIOUS
    <3> QED BY <2>3, <2>4, <3>1
  <2>6. <<c, d>>[1] = json[i] /\ <<c, d>>[2] = json[i + 1]
    BY <2>1, <2>5, Zenon
  <2> QED BY <2>1, <2>6
<1> QED BY <1>2, <1>3

\* The reader's states, one symbol after the other.
Readers(Chr) == [at : Nat \ {0}, out : Seq(Chr)]

LEMMA SymbolRead ==
  ASSUME NEW Chr, NEW json \in Seq(Chr), NEW s \in Readers(Chr)
  PROVE  OneSymbol(json, s) \in Readers(Chr)
<1>1. s.at \in Nat /\ s.at > 0 /\ s.out \in Seq(Chr) /\ Len(json) \in Nat
  BY LenProperties DEF Readers
<1>2. \A k \in 1..Len(json) : Append(s.out, json[k]) \in Seq(Chr)
  BY <1>1, ElementOfSeq, AppendProperties
<1>3. CASE s.at > Len(json) \/ json[s.at] = Quote
  BY <1>3 DEF OneSymbol
<1>4. CASE /\ ~(s.at > Len(json) \/ json[s.at] = Quote)
           /\ json[s.at] = Backslash /\ s.at < Len(json)
  <2>1. OneSymbol(json, s) = [at |-> s.at + 2, out |-> Append(s.out, json[s.at + 1])]
    BY <1>4 DEF OneSymbol
  <2>2. s.at + 1 \in 1..Len(json) /\ s.at + 2 \in Nat \ {0}
    BY <1>1, <1>4
  <2> QED BY <1>2, <2>1, <2>2 DEF Readers
<1>5. CASE /\ ~(s.at > Len(json) \/ json[s.at] = Quote)
           /\ ~(json[s.at] = Backslash /\ s.at < Len(json))
  <2>1. OneSymbol(json, s) = [at |-> s.at + 1, out |-> Append(s.out, json[s.at])]
    BY <1>5 DEF OneSymbol
  <2>2. s.at \in 1..Len(json) /\ s.at + 1 \in Nat \ {0}
    BY <1>1, <1>5
  <2> QED BY <1>2, <2>1, <2>2 DEF Readers
<1> QED BY <1>3, <1>4, <1>5

LEMMA UnescapedIs ==
  ASSUME NEW Chr, NEW json \in Seq(Chr), NEW i \in Nat \ {0}
  PROVE  \E read : /\ read[0] = [at |-> i, out |-> <<>>]
                   /\ \A k \in 1..Len(json) : read[k] = OneSymbol(json, read[k - 1])
                   /\ Unescaped(json, i) = read[Len(json)].out
<1> DEFINE L == Len(json)
           Val(f, k) == IF k = 0 THEN [at |-> i, out |-> <<>>] ELSE OneSymbol(json, f[k - 1])
           P(f) == f = [k \in 0..L |-> Val(f, k)]
           read == CHOOSE f : P(f)
<1>1. L \in Nat
  BY LenProperties
<1>2. \E f : P(f)
  <2> DEFINE A == Readers(Chr)
             F == [p \in (1..L) \X A |-> OneSymbol(json, p[2])]
             a == [at |-> i, out |-> <<>>]
  <2>0. a \in A
    BY EmptySeq DEF Readers
  <2>1. F \in Makers(A, L)
    <3>1. \A p \in (1..L) \X A : OneSymbol(json, p[2]) \in A
      BY SymbolRead
    <3> HIDE DEF A
    <3> QED BY <3>1 DEF Makers
  <2> HIDE DEF A, a
  <2>2. \A k \in 1..L, x \in A : F[<<k, x>>] = OneSymbol(json, x)
    OBVIOUS
  <2> HIDE DEF F
  <2>3. PICK f \in [0..L -> A] : f[0] = a /\ \A k \in 1..L : f[k] = F[<<k, f[k - 1]>>]
    <3>1. Built(A, L, a, F)
      BY <1>1, <2>0, <2>1, Recursion
    <3> QED BY <3>1 DEF Built
  <2>4. ASSUME NEW k \in 0..L PROVE f[k] = Val(f, k)
    <3>1. CASE k = 0
      BY <2>3, <3>1 DEF a
    <3>2. CASE k # 0
      <4>1. k \in 1..L /\ k - 1 \in 0..L
        BY <1>1, <3>2
      <4>2. f[k - 1] \in A
        BY <2>3, <4>1
      <4> QED BY <2>2, <2>3, <3>2, <4>1, <4>2
    <3> QED BY <3>1, <3>2
  <2> QED BY <2>3, <2>4
<1>3. P(read)
  <2> HIDE DEF P
  <2> QED BY <1>2
<1>4. Unescaped(json, i) = read[L].out
  BY DEF Unescaped
<1> HIDE DEF read
<1>5. \A k \in 0..L : read[k] = Val(read, k)
  BY <1>3, Zenon
<1>6. read[0] = [at |-> i, out |-> <<>>]
  BY <1>1, <1>5
<1>7. ASSUME NEW k \in 1..L PROVE read[k] = OneSymbol(json, read[k - 1])
  BY <1>1, <1>5
<1> QED BY <1>4, <1>6, <1>7
\* Where a string's symbols end.
LEMMA SpellsIs ==
  ASSUME NEW Chr, NEW json \in Seq(Chr), NEW i \in Nat \ {0}, NEW Sym, NEW s \in Seq(Sym),
         Spells(json, i, s)
  PROVE  \E behind :
           /\ behind[0] = i
           /\ \A k \in 0..Len(s) : behind[k] \in Nat /\ behind[k] >= i + k
           /\ \A k \in 1..Len(s) :
                IF s[k] \in {Quote, Backslash}
                THEN /\ behind[k] = behind[k - 1] + 2
                     /\ At(json, behind[k - 1], <<Backslash, s[k]>>)
                ELSE /\ behind[k] = behind[k - 1] + 1
                     /\ At(json, behind[k - 1], <<s[k]>>)
           /\ At(json, behind[Len(s)], <<Quote>>)
<1> DEFINE L == Len(s)
           escaped(k) == s[k] \in {Quote, Backslash}
           step(k) == IF escaped(k) THEN 2 ELSE 1
           Val(f, k) == IF k = 0 THEN i ELSE f[k - 1] + step(k)
           P(f) == f = [k \in 0..L |-> Val(f, k)]
           behind == CHOOSE f : P(f)
<1>1. L \in Nat
  BY LenProperties
<1>2. \E f : P(f)
  <2> DEFINE F == [p \in (1..L) \X Nat |-> p[2] + step(p[1])]
  <2>1. \A k : step(k) \in {1, 2}
    OBVIOUS
  <2> HIDE DEF step
  <2>2. F \in Makers(Nat, L)
    <3>1. \A p \in (1..L) \X Nat : p[2] + step(p[1]) \in Nat
      BY <2>1
    <3> QED BY <3>1 DEF Makers
  <2>3. \A k \in 1..L, x \in Nat : F[<<k, x>>] = x + step(k)
    OBVIOUS
  <2> HIDE DEF F
  <2>4. PICK f \in [0..L -> Nat] : f[0] = i /\ \A k \in 1..L : f[k] = F[<<k, f[k - 1]>>]
    <3>1. i \in Nat
      OBVIOUS
    <3>2. Built(Nat, L, i, F)
      BY <1>1, <2>2, <3>1, Recursion
    <3> QED BY <3>2 DEF Built
  <2>5. ASSUME NEW k \in 0..L PROVE f[k] = Val(f, k)
    <3>1. CASE k = 0
      BY <2>4, <3>1
    <3>2. CASE k # 0
      <4>1. k \in 1..L /\ k - 1 \in 0..L
        BY <1>1, <3>2
      <4>2. f[k - 1] \in Nat
        BY <2>4, <4>1
      <4> QED BY <2>3, <2>4, <3>2, <4>1, <4>2
    <3> QED BY <3>1, <3>2
  <2> QED BY <2>4, <2>5
<1>3. P(behind)
  <2> HIDE DEF P
  <2> QED BY <1>2
<1>4. /\ \A k \in 1..L : At(json, behind[k - 1], IF escaped(k) THEN <<Backslash, s[k]>>
                                                 ELSE <<s[k]>>)
      /\ At(json, behind[L], <<Quote>>)
  BY DEF Spells
<1> HIDE DEF behind
<1>5. \A k \in 0..L : behind[k] = Val(behind, k)
  BY <1>3, Zenon
<1>6. behind[0] = i
  BY <1>1, <1>5
<1>7. ASSUME NEW k \in 1..L PROVE behind[k] = behind[k - 1] + step(k)
  BY <1>1, <1>5
<1> DEFINE T == {n \in Nat : n <= L => behind[n] \in Nat /\ behind[n] >= i + n}
<1>8. 0 \in T
  BY <1>6
<1>9. ASSUME NEW n \in Nat, n \in T PROVE n + 1 \in T
  <2> SUFFICES ASSUME n + 1 <= L PROVE behind[n + 1] \in Nat /\ behind[n + 1] >= i + (n + 1)
    OBVIOUS
  <2>1. n + 1 \in 1..L /\ (n + 1) - 1 = n /\ behind[n] \in Nat /\ behind[n] >= i + n
    BY <1>1, <1>9
  <2>2. behind[n + 1] = behind[n] + step(n + 1)
    BY <1>7, <2>1
  <2>3. step(n + 1) \in {1, 2}
    OBVIOUS
  <2> HIDE DEF step
  <2> QED BY <2>1, <2>2, <2>3
<1>10. \A n \in Nat : n \in T
  <2> HIDE DEF T
  <2> QED BY <1>8, <1>9, NatSets
<1>11. \A k \in 0..L : behind[k] \in Nat /\ behind[k] >= i + k
  BY <1>1, <1>10
<1>12. ASSUME NEW k \in 1..L
       PROVE  IF escaped(k)
              THEN behind[k] = behind[k - 1] + 2 /\ At(json, behind[k - 1], <<Backslash, s[k]>>)
              ELSE behind[k] = behind[k - 1] + 1 /\ At(json, behind[k - 1], <<s[k]>>)
  <2>1. CASE escaped(k)
    <3>1. step(k) = 2
      BY <2>1
    <3> HIDE DEF step
    <3>2. behind[k] = behind[k - 1] + 2
      BY <1>7, <3>1
    <3>3. At(json, behind[k - 1], <<Backslash, s[k]>>)
      BY <1>4, <2>1
    <3> QED BY <2>1, <3>2, <3>3
  <2>2. CASE ~escaped(k)
    <3>1. step(k) = 1
      BY <2>2
    <3> HIDE DEF step
    <3>2. behind[k] = behind[k - 1] + 1
      BY <1>7, <3>1
    <3>3. At(json, behind[k - 1], <<s[k]>>)
      BY <1>4, <2>2
    <3> QED BY <2>2, <3>2, <3>3
  <2> QED BY <2>1, <2>2
<1> QED BY <1>4, <1>6, <1>11, <1>12

\* A string that is spelled in a text is read from it.
LEMMA StringRead ==
  ASSUME NEW Chr, NEW json \in Seq(Chr), NEW i \in Nat \ {0}, NEW Sym, NEW s \in Seq(Sym),
         Spells(json, i, s)
  PROVE  Unescaped(json, i) = s
<1> DEFINE N == Len(json)
           L == Len(s)
<1>1. N \in Nat /\ L \in Nat
  BY LenProperties
<1>2. PICK behind :
        /\ behind[0] = i
        /\ \A k \in 0..Len(s) : behind[k] \in Nat /\ behind[k] >= i + k
        /\ \A k \in 1..Len(s) :
             IF s[k] \in {Quote, Backslash}
             THEN /\ behind[k] = behind[k - 1] + 2
                  /\ At(json, behind[k - 1], <<Backslash, s[k]>>)
             ELSE /\ behind[k] = behind[k - 1] + 1
                  /\ At(json, behind[k - 1], <<s[k]>>)
        /\ At(json, behind[Len(s)], <<Quote>>)
  BY SpellsIs
<1>3. PICK read : /\ read[0] = [at |-> i, out |-> <<>>]
                  /\ \A k \in 1..Len(json) : read[k] = OneSymbol(json, read[k - 1])
                  /\ Unescaped(json, i) = read[Len(json)].out
  BY UnescapedIs
<1>4. behind[L] <= N /\ json[behind[L]] = Quote /\ L <= N /\ behind[L] \in Nat
  <2>1. behind[L] \in Nat /\ behind[L] >= i + L
    BY <1>1, <1>2
  <2>2. behind[L] <= N /\ json[behind[L]] = Quote
    BY <1>2, <2>1, AtIs
  <2> QED BY <1>1, <2>1, <2>2
\* Up to the end of s.
<1> DEFINE Right(r, k) == /\ r.at = behind[k] /\ r.out \in Seq(Chr) /\ Len(r.out) = k
                          /\ \A j \in 1..k : r.out[j] = s[j]
           T == {n \in Nat : n <= L => Right(read[n], n)}
<1>5. 0 \in T
  <2>1. read[0].at = behind[0] /\ read[0].out = <<>>
    BY <1>2, <1>3
  <2>2. <<>> \in Seq(Chr) /\ Len(<<>>) = 0
    BY EmptySeq
  <2>3. \A j \in 1..0 : FALSE
    OBVIOUS
  <2>4. Right(read[0], 0)
    BY <2>1, <2>2, <2>3, Zenon
  <2> HIDE DEF Right
  <2> QED BY <2>4
<1>6. ASSUME NEW n \in Nat, n \in T PROVE n + 1 \in T
  <2> SUFFICES ASSUME n + 1 <= L PROVE Right(read[n + 1], n + 1)
    OBVIOUS
  <2> DEFINE r == read[n]
             p == r.at
             c == s[n + 1]
             out == Append(r.out, c)
  <2>1. /\ n + 1 \in 1..L /\ (n + 1) - 1 = n /\ n + 1 \in 1..N /\ n \in 0..L
        /\ Right(r, n)
    BY <1>1, <1>4, <1>6
  <2>2. p \in Nat /\ p > 0 /\ p = behind[n]
    <3>1. behind[n] \in Nat /\ behind[n] >= i + n
      BY <1>2, <2>1
    <3> QED BY <2>1, <3>1
  <2>3. read[n + 1] = OneSymbol(json, r)
    BY <1>3, <2>1
  <2>4. read[n + 1].at = behind[n + 1] /\ read[n + 1].out = out /\ c \in Chr
    <3>1. CASE c \in {Quote, Backslash}
      <4>1. behind[n + 1] = p + 2 /\ At(json, p, <<Backslash, c>>)
        BY <1>2, <2>1, <2>2, <3>1
      <4>2. p + 1 <= N /\ json[p] = Backslash /\ json[p + 1] = c
        BY <2>2, <4>1, AtIs
      <4>3. p <= N /\ p < N /\ p + 1 \in 1..N /\ Backslash # Quote
        BY <1>1, <2>2, <4>2 DEF Backslash, Quote
      <4>4. OneSymbol(json, r) = [at |-> p + 2, out |-> Append(r.out, json[p + 1])]
        BY <1>1, <2>2, <4>2, <4>3 DEF OneSymbol
      <4>5. json[p + 1] \in Chr
        BY <4>3, ElementOfSeq
      <4> QED BY <2>3, <4>1, <4>2, <4>4, <4>5
    <3>2. CASE c \notin {Quote, Backslash}
      <4>1. behind[n + 1] = p + 1 /\ At(json, p, <<c>>)
        BY <1>2, <2>1, <2>2, <3>2
      <4>2. p <= N /\ json[p] = c
        BY <2>2, <4>1, AtIs
      <4>3. p \in 1..N
        BY <1>1, <2>2, <4>2
      <4>4. OneSymbol(json, r) = [at |-> p + 1, out |-> Append(r.out, json[p])]
        BY <1>1, <2>2, <3>2, <4>2 DEF OneSymbol
      <4>5. json[p] \in Chr
        BY <4>3, ElementOfSeq
      <4> QED BY <2>3, <4>1, <4>2, <4>4, <4>5
    <3> QED BY <3>1, <3>2
  <2> HIDE DEF c
  <2>5. /\ out \in Seq(Chr) /\ Len(out) = n + 1 /\ out[n + 1] = c
        /\ \A j \in 1..n : out[j] = r.out[j]
    BY <2>1, <2>4, AppendProperties
  <2> HIDE DEF out, r
  <2>6. ASSUME NEW j \in 1..n + 1 PROVE out[j] = s[j]
    <3>1. CASE j = n + 1
      BY <2>5, <3>1 DEF c
    <3>2. CASE j # n + 1
      <4>1. j \in 1..n
        BY <3>2
      <4> QED BY <2>1, <2>5, <4>1
    <3> QED BY <3>1, <3>2
  <2> QED BY <2>4, <2>5, <2>6
<1>7. \A n \in Nat : n \in T
  <2> HIDE DEF T
  <2> QED BY <1>5, <1>6, NatSets
<1>8. Right(read[L], L)
  BY <1>1, <1>7
\* And from there on.
<1> DEFINE R == {m \in Nat : L + m <= N => read[L + m] = read[L]}
<1>9. 0 \in R
  BY <1>1
<1>10. ASSUME NEW m \in Nat, m \in R PROVE m + 1 \in R
  <2> SUFFICES ASSUME L + (m + 1) <= N PROVE read[L + (m + 1)] = read[L]
    OBVIOUS
  <2> DEFINE k == L + (m + 1)
  <2>1. k \in 1..N /\ k - 1 = L + m /\ L + m <= N
    BY <1>1
  <2>2. read[k] = OneSymbol(json, read[k - 1])
    BY <1>3, <2>1
  <2>3. read[k - 1] = read[L]
    BY <1>10, <2>1
  <2> HIDE DEF k
  <2>4. OneSymbol(json, read[L]) = read[L]
    BY <1>4, <1>8 DEF OneSymbol
  <2>5. read[k] = read[L]
    BY <2>2, <2>3, <2>4
  <2> QED BY <2>5 DEF k
<1>11. \A m \in Nat : m \in R
  <2> HIDE DEF R
  <2> QED BY <1>9, <1>10, NatSets
<1>12. read[N] = read[L]
  <2>1. N - L \in Nat /\ L + (N - L) = N
    BY <1>1, <1>4
  <2>2. L + (N - L) <= N => read[L + (N - L)] = read[L]
    BY <1>11, <2>1
  <2> QED BY <1>1, <2>1, <2>2
<1>13. read[L].out = s
  <2> DEFINE out == read[L].out
  <2>1. /\ out \in Seq(Chr) /\ Len(out) = Len(s)
        /\ \A j \in 1..Len(out) : out[j] = s[j]
    BY <1>8
  <2> HIDE DEF out
  <2>2. out \in Seq(Chr \cup Sym) /\ s \in Seq(Chr \cup Sym)
    BY <2>1
  <2>3. out = s
    BY <2>1, <2>2, SeqEqual
  <2> QED BY <2>3 DEF out
<1> QED BY <1>3, <1>12, <1>13

\* json_get_string, for every flat JSON text: the first member of that name that
\* is a string without escapes but \" and \\, or null, or missing.
THEOREM FieldRead ==
  ASSUME NEW Chr, NEW json \in Seq(Chr), NEW Key, NEW key \in Seq(Key),
         NEW Sym, NEW s \in Seq(Sym), NEW size \in Nat \ {0}, Says(json, key, s)
  PROVE  Field(json, key, size) = Copied(s, size)
<1> DEFINE pattern  == <<Quote>> \o key \o <<Quote>>
           N        == Len(json)
           Colon(i) == SkipFrom(json, i + Len(pattern), Space)
           hits     == {i \in 1..N : /\ At(json, i, pattern)
                                     /\ Colon(i) <= N /\ json[Colon(i)] = ":"}
           p        == FindKey(json, key)
           v        == SkipFrom(json, p, Space)
           Val(i)   == [at |-> i, value |-> SkipFrom(json, Colon(i) + 1, Space)]
           Vals     == Values(json, key)
<1>1. N \in Nat /\ Len(pattern) \in Nat
  <2>1. key \in Seq(Key \cup {Quote}) /\ <<Quote>> \in Seq(Key \cup {Quote})
    <3>1. Key \subseteq Key \cup {Quote}
      OBVIOUS
    <3>2. key \in Seq(Key \cup {Quote})
      BY <3>1, SeqMonotonic
    <3> QED BY <3>2
  <2>2. pattern \in Seq(Key \cup {Quote})
    BY <2>1, ConcatProperties
  <2> QED BY <2>2, LenProperties
<1>2. p = IF hits = {} THEN 0 ELSE Colon(Least(hits)) + 1
  BY DEF FindKey
<1>3. Vals = {Val(i) : i \in {k \in 1..N : At(json, k, pattern) /\ At(json, Colon(k), <<":">>)}}
  BY DEF Values
<1>4. Field(json, key, size) =
        IF p = 0 \/ At(json, v, <<"null">>) THEN <<>>
        ELSE IF At(json, v, <<Quote>>) THEN Copied(Unescaped(json, v + 1), size)
        ELSE Copied(SubSeq(json, v, UntilFrom(json, v, {",", "}", "]"} \cup Space) - 1), size)
  BY DEF Field
<1> HIDE DEF p, pattern
<1>5. ASSUME NEW i \in 1..N, At(json, i, pattern)
      PROVE  /\ Colon(i) \in 1..N + 1
             /\ At(json, Colon(i), <<":">>) <=> Colon(i) <= N /\ json[Colon(i)] = ":"
  <2>1. i + Len(pattern) - 1 <= N
    BY <1>5 DEF At
  <2>2. i + Len(pattern) \in 1..N + 1
    BY <1>1, <2>1
  <2>3. Colon(i) \in i + Len(pattern)..N + 1
    BY <2>2, SkipIs
  <2>4. Colon(i) \in 1..N + 1 /\ Colon(i) \in Nat /\ Colon(i) > 0
    BY <1>1, <2>2, <2>3
  <2> HIDE DEF Colon
  <2> QED BY <2>4, AtIs
<1>6. hits = {k \in 1..N : At(json, k, pattern) /\ At(json, Colon(k), <<":">>)}
  <2> HIDE DEF Colon, N
  <2> QED BY <1>5
<1>7. Vals = {Val(i) : i \in hits}
  BY <1>3, <1>6
<1>8. \A i \in hits : Val(i).at = i /\ Val(i).value = SkipFrom(json, Colon(i) + 1, Space)
  OBVIOUS
<1>9. hits \in SUBSET Nat
  BY <1>1
<1>10. ASSUME NEW i \in hits PROVE Colon(i) \in 1..N
  <2>1. i \in 1..N /\ At(json, i, pattern) /\ Colon(i) <= N
    BY <1>10
  <2>2. Colon(i) \in 1..N + 1
    BY <1>5, <2>1
  <2> QED BY <1>1, <2>1, <2>2
<1> HIDE DEF hits, Colon, Val, Vals
<1>11. Copied(<<>>, size) = <<>>
  <2>1. <<>> \in Seq(Chr) /\ Len(<<>>) = 0
    BY EmptySeq
  <2>2. Len(<<>>) < size
    BY <2>1
  <2> QED BY <2>1, <2>2, CopiedWhole, Zenon
<1>12. CASE s = <<>> /\ Vals = {}
  <2>1. hits = {}
    BY <1>7, <1>12
  <2> QED BY <1>2, <1>4, <1>11, <1>12, <2>1
<1>13. ASSUME NEW w \in Vals, \A x \in Vals : w.at <= x.at,
              \/ At(json, w.value, <<Quote>>) /\ Spells(json, w.value + 1, s)
              \/ s = <<>> /\ At(json, w.value, <<"null">>)
       PROVE  Field(json, key, size) = Copied(s, size)
  <2>1. PICK i \in hits : w = Val(i)
    BY <1>7
  <2>2. \A j \in hits : i <= j
    <3>1. \A j \in hits : Val(j) \in Vals
      BY <1>7
    <3> QED BY <1>8, <1>13, <2>1, <3>1
  <2>3. i = Least(hits)
    <3>1. Least(hits) \in hits /\ \A j \in hits : Least(hits) <= j
      BY <1>9, <2>1, LeastIs
    <3>2. i <= Least(hits) /\ Least(hits) <= i
      BY <2>2, <3>1
    <3>3. i \in Nat /\ Least(hits) \in Nat
      BY <1>9, <3>1
    <3> QED BY <3>2, <3>3
  <2>4. Colon(i) \in 1..N
    BY <1>10
  <2>5. p = Colon(i) + 1 /\ p # 0 /\ p \in 1..N + 1
    <3>1. hits # {}
      OBVIOUS
    <3>2. p = Colon(i) + 1
      BY <1>2, <2>3, <3>1
    <3> QED BY <1>1, <2>4, <3>2
  <2>6. v = w.value
    BY <1>8, <2>1, <2>5
  <2>7. v \in 1..N + 1 /\ v \in Nat /\ v > 0
    <3>1. v \in p..N + 1
      BY <2>5, SkipIs
    <3> QED BY <1>1, <2>5, <3>1
  <2> HIDE DEF v
  <2>8. CASE At(json, w.value, <<Quote>>) /\ Spells(json, w.value + 1, s)
    <3>1. At(json, v, <<Quote>>) /\ Spells(json, v + 1, s)
      BY <2>6, <2>8
    <3>2. ~At(json, v, <<"null">>)
      <4>1. json[v] = Quote /\ Quote # "null"
        BY <2>7, <3>1, AtIs DEF Quote
      <4> QED BY <2>7, <4>1, AtIs
    <3>3. v + 1 \in Nat \ {0}
      BY <2>7
    <3>4. Unescaped(json, v + 1) = s
      BY <3>1, <3>3, StringRead
    <3> QED BY <1>4, <2>5, <3>1, <3>2, <3>4
  <2>9. CASE s = <<>> /\ At(json, w.value, <<"null">>)
    BY <1>4, <1>11, <2>6, <2>9
  <2> QED BY <1>13, <2>8, <2>9
<1> QED BY <1>12, <1>13 DEF Says, Vals

(***************************************************************************)
(* Carried out as sent.                                                    *)
(***************************************************************************)
\* A plain body that is not in chunks says what was meant.
LEMMA BodyRead ==
  ASSUME NEW b \in Requested, b.plain, ~b.chunked
  PROVE  /\ Field(b.text, <<"processData">>, DataSize) = Copied(b.data, DataSize)
         /\ Field(b.text, <<"clientId">>, ClientSize) = Copied(b.client, ClientSize)
         /\ b.client \in Texts
<1>1. PICK c \in Bodies : b \in Arrived(c)
  BY DEF Requested
<1>2. /\ b.client = c.client /\ b.data = c.data /\ ~c.chunked /\ Plain(c)
      /\ b.text = Parsed(c.form, Copied(c.json, BodySize))
  <2> DEFINE text(n) == IF c.chunked THEN DecodeChunked(SubSeq(Sent(c), 1, n), BodySize)
                        ELSE Copied(Sent(c), BodySize)
  <2>1. \E n : b = [client |-> c.client, data |-> c.data, text |-> Parsed(c.form, text(n)),
                    plain |-> Plain(c), chunked |-> c.chunked]
    BY <1>1, Zenon DEF Arrived
  <2>2. /\ b.client = c.client /\ b.data = c.data /\ b.chunked = c.chunked
        /\ b.plain = Plain(c) /\ \E n : b.text = Parsed(c.form, text(n))
    <3> HIDE DEF text
    <3> QED BY <2>1
  <2>3. ~c.chunked /\ Plain(c)
    BY <2>2, Zenon
  <2>4. \A n : text(n) = Copied(c.json, BodySize)
    BY <2>3 DEF Sent
  <2> QED BY <2>2, <2>3, <2>4, Zenon
<1>3. c.client \in Texts /\ c.data \in Texts /\ c.json \in Texts
  BY BodiesAssumption
<1>4. b.text = c.json
  <2>1. ~c.form /\ Len(c.json) < BodySize
    BY <1>2 DEF Plain
  <2>2. Copied(c.json, BodySize) = c.json
    BY <1>3, <2>1, CopiedWhole DEF Texts
  <2> QED BY <1>2, <2>1, <2>2 DEF Parsed
<1>5. Says(c.json, <<"clientId">>, c.client) /\ Says(c.json, <<"processData">>, c.data)
  BY <1>2 DEF Plain
<1>6. /\ <<"clientId">> \in Seq({"clientId"}) /\ <<"processData">> \in Seq({"processData"})
      /\ ClientSize \in Nat \ {0} /\ DataSize \in Nat \ {0}
  BY RequestsAssumption
<1>7. Field(c.json, <<"clientId">>, ClientSize) = Copied(c.client, ClientSize)
  BY <1>3, <1>5, <1>6, FieldRead DEF Texts
<1>8. Field(c.json, <<"processData">>, DataSize) = Copied(c.data, DataSize)
  BY <1>3, <1>5, <1>6, FieldRead DEF Texts
<1> QED BY <1>2, <1>3, <1>4, <1>7, <1>8

\* What is proved of a request: its number, and all of it but for chunks.
AsSent == /\ pc = "work" /\ req.kind \in HasBody => args.num = req.num
          /\ req.body.chunked \/ ExecutedAsSent

LEMMA ResolvedAsSent ==
  ASSUME IInv, NEW a \in Asked, NEW b \in Requested, a.kind = req.kind, Resolve(a.url, b)
  PROVE  AsSent'
<1> DEFINE named    == Field(b.text, <<"clientId">>, ClientSize)
           owner(f) == IF f THEN {} ELSE Lookup(req.token)
<1>1. PICK f \in BOOLEAN :
        /\ f => named = <<>>
        /\ Fails(f)
        /\ args' =
             [client |-> IF named # <<>> THEN Trim(named)
                         ELSE IF owner(f) = {} THEN Default
                         ELSE Trim((CHOOSE r \in owner(f) : TRUE).client),
              data   |-> Field(b.text, <<"processData">>, DataSize),
              num    |-> IF req.kind = "finish"
                         THEN TxNumber(NormalizePath(a.url.text)) ELSE 0]
  BY DEF Resolve
<1>2. /\ req'.body = b /\ req'.num = IF req.kind = "finish" THEN a.url.num ELSE 0
      /\ req'.token = req.token /\ UNCHANGED <<issued, now, tokens>> /\ pc = "resolve"
  BY DEF Resolve, IInv, Types, tables, ghosts
<1>n. args'.num = req'.num
  BY <1>1, <1>2, NumbersRead
<1> SUFFICES ASSUME b.plain, ~b.chunked PROVE ExecutedAsSent'
  <2>1. ~b.plain => ExecutedAsSent'
    BY <1>2, <1>n DEF ExecutedAsSent
  <2> QED BY <1>2, <1>n, <2>1, Zenon DEF AsSent
<1> HIDE DEF named
<1>3. /\ args'.num = req'.num /\ args'.data = Copied(req'.body.data, DataSize)
      /\ named = Copied(b.client, ClientSize) /\ b.client \in Texts
  BY <1>1, <1>2, <1>n, BodyRead DEF named
<1>4. CASE b.client # <<>>
  <2>1. Len(b.client) < ClientSize => args'.client = Trim(b.client)
    <3> SUFFICES ASSUME Len(b.client) < ClientSize PROVE args'.client = Trim(b.client)
      OBVIOUS
    <3>1. named = b.client
      BY <1>3, CopiedWhole DEF Texts
    <3> QED BY <1>1, <1>4, <3>1
  <2> QED BY <1>2, <1>3, <1>4, <2>1 DEF ExecutedAsSent
<1>5. CASE b.client = <<>>
  <2>1. named = <<>>
    <3>1. <<>> \in Seq(STRING) /\ Len(<<>>) = 0
      BY EmptySeq
    <3>2. Len(<<>>) < ClientSize
      BY <3>1, RequestsAssumption
    <3>3. Copied(<<>>, ClientSize) = <<>>
      BY <3>1, <3>2, CopiedWhole, Zenon
    <3> QED BY <1>3, <1>5, <3>3
  <2>2. ASSUME NEW r \in tokens, r.token = req.token
        PROVE  \E i \in issued : /\ i.token = req.token /\ r.client = i.client
                                 /\ r.exp = i.at + Life /\ i.at \in Nat
                                 /\ i.client = i.sender /\ Trim(i.client) = i.client
    <3>1. PICK i \in issued : r.token = i.token /\ r.client = i.client /\ r.exp = i.at + Life
      BY DEF IInv, TokensOK
    <3>2. i.at \in Nat /\ i.client = i.sender /\ Trim(i.client) = i.client
      BY DEF IInv, IssuedOK
    <3> QED BY <2>2, <3>1, <3>2
  <2>3. CASE owner(f) = {}
    <3>1. args'.client = Default
      BY <1>1, <2>1, <2>3
    <3>2. PICK r \in tokens : r.token = req.token
      BY <1>2 DEF IInv, KnownToken
    <3>3. PICK i \in issued : /\ i.token = req.token /\ r.exp = i.at + Life
                              /\ i.at \in Nat
      BY <2>2, <3>2
    <3>4. faulty' \/ now > i.at + Life
      <4>1. CASE f
        BY <1>1, <4>1 DEF Fails
      <4>2. CASE ~f
        <5>1. r.exp < now
          BY <2>3, <3>2, <4>2 DEF Lookup
        <5> QED BY <3>3, <5>1, RequestsAssumption DEF IInv, Types
      <4> QED BY <4>1, <4>2
    <3> QED BY <1>2, <1>3, <1>5, <3>1, <3>3, <3>4 DEF ExecutedAsSent
  <2>4. CASE owner(f) # {}
    <3> DEFINE r == CHOOSE r \in owner(f) : TRUE
    <3>1. r \in tokens /\ r.token = req.token
      BY <2>4 DEF Lookup
    <3>2. args'.client = Trim(r.client)
      BY <1>1, <2>1, <2>4
    <3> HIDE DEF r, owner
    <3>3. PICK i \in issued : /\ i.token = req.token /\ r.client = i.client
                              /\ i.client = i.sender /\ Trim(i.client) = i.client
      BY <2>2, <3>1
    <3> QED BY <1>2, <1>3, <1>5, <3>2, <3>3 DEF ExecutedAsSent
  <2> QED BY <2>3, <2>4
<1> QED BY <1>4, <1>5

LEMMA SentKept ==
  ASSUME IInv, AsSent, [Next]_vars
  PROVE  AsSent'
<1>1. ASSUME NEW a \in Asked, NEW b \in Requested, a.kind = req.kind, Resolve(a.url, b)
      PROVE  AsSent'
  BY <1>1, ResolvedAsSent
<1>2. ASSUME NEW kind \in Kinds \ (Free \cup {"oauth"}), NEW t, NEW whole \in BOOLEAN,
             LetIn(kind, t, whole)
      PROVE  AsSent'
  <2>1. pc' = "work" => req'.kind \notin HasBody
    BY <1>2 DEF LetIn, Goto, Answer, NoReq
  <2> QED BY <2>1 DEF AsSent, ExecutedAsSent
<1>3. CASE Tick
  <2>1. UNCHANGED <<pc, req, args, faulty, issued>>
    BY <1>3 DEF Tick, ghosts
  <2> SUFFICES ASSUME ExecutedAsSent PROVE ExecutedAsSent'
    BY <2>1, Zenon DEF AsSent
  <2> SUFFICES ASSUME pc = "work", req.kind \in HasBody, req.body.plain,
                      req.body.client = <<>>
               PROVE  \E i \in issued :
                        /\ i.token = req.token
                        /\ \/ args.client = i.client /\ i.client = i.sender
                           \/ args.client = Default /\ (faulty \/ now' > i.at + Life)
    BY <2>1 DEF ExecutedAsSent
  <2>2. PICK i \in issued :
           /\ i.token = req.token
           /\ \/ args.client = i.client /\ i.client = i.sender
              \/ args.client = Default /\ (faulty \/ now > i.at + Life)
    BY DEF ExecutedAsSent
  <2>3. i.at \in Nat /\ now \in Nat /\ now' = now + 1
    BY <1>3 DEF Tick, IInv, IssuedOK, Types
  <2>4. now > i.at + Life => now' > i.at + Life
    BY <2>3, RequestsAssumption
  <2> QED BY <2>2, <2>4, Zenon
<1>4. CASE UNCHANGED vars
  BY <1>4 DEF vars, ghosts, AsSent, ExecutedAsSent
<1>5. ASSUME pc' \notin {"work"} PROVE AsSent'
  BY <1>5 DEF AsSent, ExecutedAsSent
<1>6. ASSUME \/ \E kind \in Kinds \cap Free : Unguarded(kind)
             \/ \E login \in Logins : OAuth(login)
             \/ Register \/ Grant \/ Start \/ Finish \/ ListOpen \/ Read \/ Crash \/ Restart
      PROVE  pc' \notin {"work"}
  BY <1>6 DEF Unguarded, OAuth, Register, Grant, Start, Finish, ListOpen, Read, Crash, Restart,
              Done, Answer, Goto
<1> QED BY <1>1, <1>2, <1>3, <1>4, <1>5, <1>6 DEF Next

\* resolve_client_id: a start or finish is carried out on the number that was
\* meant, and, if its body is plain and not in chunks, for the client and with
\* the data that were meant; for "default" only if the token expired meanwhile
\* or a statement failed.
THEOREM CarriedOutAsSent ==
  Spec => []( /\ pc = "work" /\ req.kind \in HasBody => args.num = req.num
              /\ req.body.chunked \/ ExecutedAsSent )
<1>1. Init => AsSent
  BY DEF Init, AsSent, ExecutedAsSent
<1>2. IInv /\ AsSent /\ [Next]_vars => AsSent'
  BY SentKept
<1>3. AsSent => /\ pc = "work" /\ req.kind \in HasBody => args.num = req.num
                /\ req.body.chunked \/ ExecutedAsSent
  BY DEF AsSent
<1> QED BY <1>1, <1>2, <1>3, Invariance, PTL DEF Spec

(***************************************************************************)
(* Turned away for a reason.                                               *)
(***************************************************************************)
LEMMA OAuthRefusal ==
  ASSUME IInv, NEW login \in Logins, OAuth(login)
  PROVE  RefusedForAReason'
<1> SUFFICES ASSUME reply'.status = 401, req'.whole
             PROVE  /\ req'.kind = "oauth"
                    /\ ~ConfFits' \/ ~EntitledTo(ClientSerial(req.id), req.code)'
  BY Zenon DEF RefusedForAReason
<1>1. /\ req'.kind = "oauth" /\ req'.id = login.id /\ req'.whole = login.whole
      /\ req'.code = IF login.whole THEN login.code ELSE login.seenCode
      /\ args'.client = ClientSerial(login.seenId) /\ UNCHANGED conf
  BY DEF OAuth, NoReq, NoArgs
<1>2. login.whole /\ ~login.gone /\ login.seenId = login.id /\ login.seenCode = login.code
  BY <1>1, LoginsRead
<1>3. ~MayRegister(ClientSerial(login.id), login.code)
  <2>1. ~(~login.gone /\ MayRegister(args'.client, login.seenCode))
    BY DEF OAuth, Goto, NoReply
  <2> QED BY <1>1, <1>2, <2>1
<1>4. ~ConfFits \/ ~EntitledTo(ClientSerial(login.id), login.code)
  BY <1>3, AllowedIsEntitled DEF IInv, Types
<1> QED BY <1>1, <1>2, <1>4 DEF EntitledTo, ConfFits

LEMMA LetInRefusal ==
  ASSUME IInv, NEW kind \in Kinds \ (Free \cup {"oauth"}), NEW t, NEW whole \in BOOLEAN,
         LetIn(kind, t, whole)
  PROVE  RefusedForAReason'
<1> SUFFICES ASSUME reply'.status = 401, ~faulty', req'.whole
             PROVE  /\ req'.kind # "oauth"
                    /\ \A i \in issued' :
                         i.token = req'.token => ~i.saved \/ req'.at > i.at + Life
  BY Zenon DEF RefusedForAReason
<1>1. /\ req'.kind = kind /\ req'.token = t /\ req'.whole = whole /\ req'.at = now
      /\ UNCHANGED issued
  BY DEF LetIn, NoReq, ghosts
<1>2. Lookup(t) = {}
  BY <1>1 DEF LetIn, FirstFails, Goto, NoReply
<1>3. ASSUME NEW i \in issued, i.token = t, i.saved PROVE now > i.at + Life
  <2> DEFINE row == [token |-> i.token, client |-> i.client, exp |-> i.at + Life]
  <2>1. row \in tokens /\ i.at \in Nat
    BY <1>3 DEF IInv, IssuedOK
  <2>2. row.token = t /\ row.exp = i.at + Life
    BY <1>3
  <2>3. row.exp < now
    BY <1>2, <2>1, <2>2 DEF Lookup
  <2> QED BY <2>1, <2>2, <2>3, RequestsAssumption DEF IInv, Types
<1> QED BY <1>1, <1>3

LEMMA RefusalKept ==
  ASSUME IInv, RefusedForAReason, [Next]_vars
  PROVE  RefusedForAReason'
<1>1. ASSUME NEW login \in Logins, OAuth(login) PROVE RefusedForAReason'
  BY <1>1, OAuthRefusal
<1>2. ASSUME NEW kind \in Kinds \ (Free \cup {"oauth"}), NEW t, NEW whole \in BOOLEAN,
             LetIn(kind, t, whole)
      PROVE  RefusedForAReason'
  BY <1>2, LetInRefusal
<1>3. CASE Tick \/ UNCHANGED vars
  <2>1. UNCHANGED <<reply, req, faulty, issued, conf>>
    BY <1>3 DEF Tick, vars, ghosts
  <2> QED BY <2>1, SMT DEF RefusedForAReason, EntitledTo, ConfFits
<1>4. CASE \/ \E kind \in Kinds \cap Free : Unguarded(kind)
           \/ \E a \in Asked, b \in Requested : a.kind = req.kind /\ Resolve(a.url, b)
           \/ Register \/ Grant \/ Start \/ Finish \/ ListOpen \/ Read \/ Crash \/ Restart
  <2>1. reply'.status # 401
    <3>1. CASE Restart
      BY <3>1 DEF Restart, IInv, DownQuiet, NoReply
    <3>2. CASE \E kind \in Kinds \cap Free : Unguarded(kind)
      BY <3>2 DEF Unguarded, Answer
    <3>3. CASE Grant
      <4>1. Answer(200, {}) \/ Answer(500, {})
        BY <3>3, Zenon DEF Grant
      <4> QED BY <4>1 DEF Answer
    <3>4. CASE Start \/ Finish
      BY <3>4 DEF Start, Finish, Done, Answer
    <3>5. CASE ListOpen \/ Read
      BY <3>5 DEF ListOpen, Read, Answer
    <3>6. CASE Register \/ Crash
      BY <3>6 DEF Register, Crash, Goto, NoReply
    <3>7. ASSUME NEW url, NEW b, Resolve(url, b) PROVE reply'.status # 401
      BY <3>7 DEF Resolve, Goto, NoReply
    <3> QED BY <1>4, <3>1, <3>2, <3>3, <3>4, <3>5, <3>6, <3>7
  <2> QED BY <2>1, Zenon DEF RefusedForAReason
<1> QED BY <1>1, <1>2, <1>3, <1>4 DEF Next

\* validate_bearer, handle_oauth: nobody is turned away without a reason.
THEOREM NoRefusalWithoutReason ==
  Spec => []RefusedForAReason
<1>1. Init => RefusedForAReason
  BY DEF Init, NoReply, RefusedForAReason
<1>2. IInv /\ RefusedForAReason /\ [Next]_vars => RefusedForAReason'
  BY RefusalKept
<1> QED BY <1>1, <1>2, Invariance, PTL DEF Spec

(***************************************************************************)
(* The list of open transactions.                                          *)
(***************************************************************************)
\* The elements of S below x, and those of S that have fewer than k below them.
Below(S, x)  == {m \in S : m < x}
Lowest(S, k) == {n \in S : Cardinality(Below(S, n)) < k}

LEMMA LowestOnes ==
  ASSUME NEW max \in Nat, NEW S \in SUBSET (1..max), NEW k \in Nat,
         NEW n \in S, n \notin Lowest(S, k)
  PROVE  /\ Cardinality(Lowest(S, k)) = k
         /\ \A m \in Lowest(S, k) : m < n
<1>1. ASSUME NEW A \in SUBSET S PROVE IsFiniteSet(A) /\ Cardinality(A) \in Nat
  <2>1. IsFiniteSet(1..max)
    BY FS_Interval
  <2>2. A \in SUBSET (1..max)
    OBVIOUS
  <2> QED BY <2>1, <2>2, FS_Subset, FS_CardinalityType
<1>2. \A x \in S : x \in Nat /\ Below(S, x) \in SUBSET S /\ Cardinality(Below(S, x)) \in Nat
  BY <1>1 DEF Below
<1>3. ASSUME NEW x \in S, NEW y \in S, x < y
      PROVE  Cardinality(Below(S, x)) < Cardinality(Below(S, y))
  <2>1. x \notin Below(S, x) /\ Below(S, x) \cup {x} \in SUBSET Below(S, y)
    <3>1. x \in Nat /\ y \in Nat /\ \A m \in S : m \in Nat
      BY <1>2
    <3>2. \A m : m \in Below(S, x) <=> m \in S /\ m < x
      BY DEF Below
    <3>3. \A m : m \in Below(S, y) <=> m \in S /\ m < y
      BY DEF Below
    <3>4. ~(x < x) /\ \A m \in S : m < x => m < y
      BY <1>3, <3>1
    <3> QED BY <1>3, <3>2, <3>3, <3>4
  <2>2. IsFiniteSet(Below(S, x)) /\ IsFiniteSet(Below(S, y))
    BY <1>1, <1>2
  <2>3. Cardinality(Below(S, x) \cup {x}) = Cardinality(Below(S, x)) + 1
    BY <2>1, <2>2, FS_AddElement
  <2>4. Cardinality(Below(S, x) \cup {x}) <= Cardinality(Below(S, y))
    BY <2>1, <2>2, FS_Subset
  <2> QED BY <1>2, <2>3, <2>4
<1>4. ASSUME NEW j \in Nat, NEW x \in S, x \notin Lowest(S, j), NEW m \in Lowest(S, j)
      PROVE  m < x
  <2>1. m \in S /\ Cardinality(Below(S, m)) < j /\ ~(Cardinality(Below(S, x)) < j)
    BY <1>4 DEF Lowest
  <2>2. ~(x < m)
    BY <1>2, <1>3, <2>1
  <2> QED BY <1>2, <2>1, <2>2
<1> DEFINE T == {j \in Nat : S \subseteq Lowest(S, j) \/ Cardinality(Lowest(S, j)) = j}
<1>5. 0 \in T
  <2>1. \A x \in S : ~(Cardinality(Below(S, x)) < 0)
    BY <1>2
  <2>2. Lowest(S, 0) = {}
    BY <2>1 DEF Lowest
  <2> QED BY <2>2, FS_EmptySet
<1>6. ASSUME NEW j \in Nat, j \in T PROVE j + 1 \in T
  <2>1. /\ Lowest(S, j) \in SUBSET S /\ Lowest(S, j + 1) \in SUBSET S
        /\ Lowest(S, j) \subseteq Lowest(S, j + 1)
    <3>1. \A x \in S : Cardinality(Below(S, x)) < j => Cardinality(Below(S, x)) < j + 1
      BY <1>2
    <3> QED BY <3>1 DEF Lowest
  <2>2. CASE S \subseteq Lowest(S, j)
    BY <2>1, <2>2
  <2>3. CASE ~(S \subseteq Lowest(S, j))
    <3>1. Cardinality(Lowest(S, j)) = j
      BY <1>6, <2>3
    <3>2. PICK x \in S : x \notin Lowest(S, j) /\ \A y \in S \ Lowest(S, j) : x <= y
      <4>1. S \ Lowest(S, j) \in SUBSET Nat /\ S \ Lowest(S, j) # {}
        BY <1>2, <2>3
      <4> QED BY <4>1, LeastNat
    <3>3. Below(S, x) = Lowest(S, j)
      <4>1. \A m \in Lowest(S, j) : m < x
        BY <1>4, <3>2
      <4>2. \A m \in S : m < x => m \in Lowest(S, j)
        BY <1>2, <3>2
      <4> QED BY <2>1, <4>1, <4>2 DEF Below
    <3>4. Lowest(S, j + 1) = Lowest(S, j) \cup {x}
      <4>1. x \in Lowest(S, j + 1)
        <5>1. Cardinality(Below(S, x)) < j + 1
          BY <3>1, <3>3
        <5> QED BY <5>1 DEF Lowest
      <4>2. ASSUME NEW y \in Lowest(S, j + 1), y \notin Lowest(S, j) PROVE y = x
        <5>1. y \in S /\ x <= y
          BY <2>1, <3>2, <4>2
        <5>2. Cardinality(Below(S, y)) < j + 1
          BY <4>2 DEF Lowest
        <5>3. x < y => j < Cardinality(Below(S, y))
          BY <1>3, <3>1, <3>3, <5>1
        <5> QED BY <1>2, <5>1, <5>2, <5>3
      <4> QED BY <2>1, <4>1, <4>2
    <3>5. IsFiniteSet(Lowest(S, j))
      BY <1>1, <2>1
    <3>6. Cardinality(Lowest(S, j + 1)) = j + 1
      BY <3>1, <3>2, <3>4, <3>5, FS_AddElement
    <3> QED BY <3>6
  <2> QED BY <2>2, <2>3
<1>7. k \in T
  <2> HIDE DEF T
  <2> QED BY <1>5, <1>6, NatSets
<1> QED BY <1>4, <1>7

\* The transactions started for a client are rows of the table, and ACTIVE.
OpenOK == acked \subseteq open /\ open \subseteq entered /\ entered \subseteq 1..MaxNum

OauthKind == pc \in {"register", "token"} => req.kind = "oauth"

ListInv == OpenOK /\ OauthKind /\ OpenListed

LEMMA ListStep ==
  ASSUME ListInv, ListOpen PROVE ListInv'
<1>1. OpenOK' /\ OauthKind'
  BY DEF ListOpen, ListInv, OpenOK, OauthKind, Answer, tables, ghosts
<1>2. OpenListed'
  <2> SUFFICES ASSUME reply'.status = 200, ~faulty', NEW n \in acked'
               PROVE  \/ n \in reply'.list
                      \/ /\ Cardinality(reply'.list) = ListMax
                         /\ \A m \in reply'.list : m < n
    BY DEF OpenListed
  <2>1. reply' = [status |-> 200, list |-> Listed(ListMax)]
    <3>1. PICK f \in BOOLEAN :
            /\ Fails(f)
            /\ IF f THEN Answer(500, {}) \/ \E max \in 0..(ListMax - 1) : Answer(200, Listed(max))
                    ELSE Answer(200, Listed(ListMax))
      BY DEF ListOpen
    <3>2. ~f
      BY <3>1, Zenon DEF Fails
    <3> QED BY <3>1, <3>2 DEF Answer
  <2>2. reply'.list = Lowest(open, ListMax)
    BY <2>1, Zenon DEF Listed, Lowest, Below
  <2>3. n \in open /\ open \in SUBSET (1..MaxNum) /\ MaxNum \in Nat /\ ListMax \in Nat
    BY RequestsAssumption DEF ListOpen, ListInv, OpenOK, ghosts
  <2>4. n \notin Lowest(open, ListMax) =>
          /\ Cardinality(Lowest(open, ListMax)) = ListMax
          /\ \A m \in Lowest(open, ListMax) : m < n
    BY <2>3, LowestOnes
  <2> DEFINE r == reply'.list
  <2>5. r = Lowest(open, ListMax)
    BY <2>2
  <2> HIDE DEF r
  <2>6. n \in r \/ (Cardinality(r) = ListMax /\ \A m \in r : m < n)
    BY <2>4, <2>5
  <2> QED BY <2>6 DEF r
<1> QED BY <1>1, <1>2 DEF ListInv

LEMMA ListInvKept == ListInv /\ [Next]_vars => ListInv'
<1> SUFFICES ASSUME ListInv, [Next]_vars PROVE ListInv'
  OBVIOUS
<1> USE DEF ListInv, OpenOK, OauthKind, tables, ghosts
<1>1. CASE UNCHANGED vars
  BY <1>1 DEF vars, OpenListed
<1>2. CASE \E kind \in Kinds \cap Free : Unguarded(kind)
  <2>1. PICK kind \in Free : Unguarded(kind)
    BY <1>2
  <2>2. req'.kind # "list"
    BY <2>1 DEF Unguarded, Free, NoReq
  <2> QED BY <2>1, <2>2 DEF Unguarded, Answer, OpenListed
<1>3. ASSUME NEW login \in Logins, OAuth(login) PROVE ListInv'
  <2>1. req'.kind = "oauth"
    BY <1>3 DEF OAuth, NoReq
  <2> QED BY <1>3, <2>1 DEF OAuth, OpenListed
<1>4. ASSUME NEW kind \in Kinds \ (Free \cup {"oauth"}), NEW whole \in BOOLEAN, NEW t,
             LetIn(kind, t, whole)
      PROVE  ListInv'
  <2>1. reply'.status # 200 /\ pc' \in {"resolve", "work", "idle"}
    BY <1>4 DEF LetIn, Goto, Answer, NoReply
  <2> QED BY <1>4, <2>1 DEF LetIn, OpenListed
<1>5. ASSUME NEW url, NEW b, Resolve(url, b) PROVE ListInv'
  <2>1. reply'.status # 200 /\ pc' = "work"
    BY <1>5 DEF Resolve, Goto, NoReply
  <2> QED BY <1>5, <2>1 DEF Resolve, OpenListed
<1>6. CASE Register
  <2>1. reply'.status # 200
    BY <1>6 DEF Register, Goto, NoReply
  <2> QED BY <1>6, <2>1 DEF Register, Goto, OpenListed
<1>7. CASE Grant
  <2>1. req'.kind = "oauth" /\ UNCHANGED <<acked, open, entered>>
    BY <1>7 DEF Grant
  <2> QED BY <2>1 DEF OpenListed
<1>8. CASE Start
  <2>1. OpenOK'
    BY <1>8 DEF Start
  <2>2. req' = NoReq /\ pc' = "idle"
    BY <1>8 DEF Start, Done, Answer
  <2> QED BY <2>1, <2>2 DEF NoReq, OpenListed
<1>9. CASE Finish
  <2>1. OpenOK'
    BY <1>9 DEF Finish
  <2>2. req' = NoReq /\ pc' = "idle"
    BY <1>9 DEF Finish, Done, Answer
  <2> QED BY <2>1, <2>2 DEF NoReq, OpenListed
<1>10. CASE ListOpen
  BY <1>10, ListStep
<1>11. CASE Read
  BY <1>11 DEF Read, Answer, OpenListed
<1>12. CASE Tick
  BY <1>12 DEF Tick, OpenListed
<1>13. CASE Crash
  <2>1. reply'.status # 200
    BY <1>13 DEF Crash, NoReply
  <2> QED BY <1>13, <2>1 DEF Crash, OpenListed
<1>14. CASE Restart
  BY <1>14 DEF Restart, OpenListed
<1> HIDE DEF ListInv
<1> QED BY <1>1, <1>2, <1>3, <1>4, <1>5, <1>6, <1>7, <1>8, <1>9, <1>10, <1>11, <1>12, <1>13,
           <1>14 DEF Next

\* store_list_open_transactions: what a client started and nobody finished is
\* listed, or the list is full of older ones.
THEOREM OpenOnesListed == Spec => []OpenListed
<1>1. Init => ListInv
  BY DEF Init, ListInv, OpenOK, OauthKind, OpenListed, NoReq
<1>2. ListInv => OpenListed
  BY DEF ListInv
<1> QED BY <1>1, <1>2, ListInvKept, PTL DEF Spec

=============================================================================
