----------------------------- MODULE DataInduction -----------------------------
(***************************************************************************)
(* Induction over numbers, stated for a set instead of a predicate.        *)
(***************************************************************************)
EXTENDS Integers, Sequences, WellFoundedInduction, TLAPS

\* Every set of natural numbers that is not empty has a least element.
LEMMA LeastNumber ==
    ASSUME NEW T \in SUBSET Nat, T # {}
    PROVE  \E m \in T : \A k \in T : m <= k
  <1> DEFINE R == OpToRel(<, Nat)
  <1>1. IsWellFoundedOn(R, Nat)
    BY NatLessThanWellFounded
  <1>2. \A x, y \in Nat : <<x, y>> \in R <=> x < y
    BY DEF OpToRel
  <1> HIDE DEF R
  <1>3. PICK m \in T : \A k \in T : ~ (<<k, m>> \in R)
    BY <1>1, WFMin
  <1>4. ASSUME NEW k \in T
        PROVE  m <= k
    <2>1. k \in Nat /\ m \in Nat
      OBVIOUS
    <2>2. ~ (k < m)
      BY <1>2, <1>3, <2>1
    <2>3. QED
      BY <2>1, <2>2
  <1>5. QED
    BY <1>4

\* Induction on 0..n.
LEMMA UpInduction ==
    ASSUME NEW n \in Nat, NEW S, 0 \in S,
           \A i \in 0 .. n - 1 : i \in S => i + 1 \in S
    PROVE  \A i \in 0 .. n : i \in S
  <1> SUFFICES ASSUME NEW j \in 0 .. n, j \notin S PROVE FALSE
    OBVIOUS
  <1> DEFINE T == {i \in 0 .. n : i \notin S}
  <1>1. T \in SUBSET Nat /\ T # {}
    OBVIOUS
  <1>2. PICK m \in T : \A k \in T : m <= k
    <2> HIDE DEF T
    <2>1. QED
      BY <1>1, LeastNumber
  <1>3. m \in 0 .. n /\ m \notin S /\ m # 0
    OBVIOUS
  <1>4. m - 1 \in 0 .. n - 1
    BY <1>3
  <1>5. m - 1 \in S
    <2>1. SUFFICES ASSUME m - 1 \in T PROVE FALSE
      BY <1>4
    <2>2. m <= m - 1
      BY <1>2, <2>1
    <2>3. QED
      BY <1>3, <2>2
  <1>6. (m - 1) + 1 \in S
    BY <1>4, <1>5
  <1>7. (m - 1) + 1 = m
    BY <1>3
  <1>8. QED
    BY <1>3, <1>6, <1>7

\* Induction from b down to a; all the numbers above may be used.
LEMMA DownInduction ==
    ASSUME NEW a \in Nat, NEW b \in Nat, NEW S,
           \A p \in a .. b : (\A q \in p + 1 .. b : q \in S) => p \in S
    PROVE  \A p \in a .. b : p \in S
  <1> SUFFICES ASSUME NEW j \in a .. b, j \notin S PROVE FALSE
    OBVIOUS
  <1> DEFINE T == {k \in 0 .. b : b - k \in a .. b /\ b - k \notin S}
  <1>1. T \in SUBSET Nat /\ T # {}
    <2>1. b - j \in 0 .. b /\ b - (b - j) = j
      OBVIOUS
    <2>2. b - j \in T
      BY <2>1
    <2>3. T \in SUBSET Nat
      OBVIOUS
    <2> HIDE DEF T
    <2>4. QED
      BY <2>2, <2>3
  <1>2. PICK m \in T : \A k \in T : m <= k
    <2> HIDE DEF T
    <2>1. QED
      BY <1>1, LeastNumber
  <1>3. m \in 0 .. b /\ b - m \in a .. b /\ b - m \notin S
    OBVIOUS
  <1>4. ASSUME NEW q \in (b - m) + 1 .. b, q \notin S PROVE FALSE
    <2>1. b - q \in 0 .. b /\ b - (b - q) = q /\ q \in a .. b /\ b - q < m
      BY <1>3
    <2>2. b - q \in T
      BY <1>4, <2>1
    <2> HIDE DEF T
    <2>3. m <= b - q
      BY <1>2, <2>2
    <2>4. QED
      BY <1>3, <2>1, <2>3
  <1>5. QED
    BY <1>3, <1>4

\* Facts about concatenation.
LEMMA ConcatFacts ==
    ASSUME NEW V, NEW x \in Seq(V), NEW y \in Seq(V), NEW z \in Seq(V)
    PROVE  /\ <<>> \o x = x /\ x \o <<>> = x
           /\ x \o y \in Seq(V)
           /\ (x \o y) \o z = x \o (y \o z)
  OBVIOUS

LEMMA ConcatRight ==
    ASSUME NEW S, NEW t \in Seq(S), NEW e \in Seq(S), NEW p \in 1..Len(t \o e), p > Len(t)
    PROVE  (t \o e)[p] = e[p - Len(t)] /\ p - Len(t) \in 1..Len(e)
  OBVIOUS

LEMMA ConcatAt ==
    ASSUME NEW S, NEW t \in Seq(S), NEW e \in Seq(S)
    PROVE  /\ \A k \in 1..Len(t) : (t \o e)[k] = t[k]
           /\ \A k \in 1..Len(e) : (t \o e)[Len(t) + k] = e[k]
  OBVIOUS

LEMMA ConcatType ==
    ASSUME NEW S, NEW t \in Seq(S), NEW e \in Seq(S)
    PROVE  t \o e \in Seq(S) /\ Len(t \o e) = Len(t) + Len(e) /\ Len(t \o e) \in Nat
  OBVIOUS

LEMMA ConcatIs ==
    ASSUME NEW S, NEW t \in Seq(S), NEW e \in Seq(S), NEW u \in Seq(S),
           Len(u) = Len(t) + Len(e), \A i \in 1..Len(t) : t[i] = u[i],
           \A i \in 1..Len(e) : e[i] = u[Len(t) + i]
    PROVE  t \o e = u
  <1>1. t \o e \in Seq(S) /\ Len(t \o e) = Len(u)
    OBVIOUS
  <1>2. ASSUME NEW i \in 1..Len(u) PROVE (t \o e)[i] = u[i]
    <2>1. CASE i <= Len(t)
      BY <2>1
    <2>2. CASE i > Len(t)
      <3>1. i - Len(t) \in 1..Len(e) /\ Len(t) + (i - Len(t)) = i
        BY <2>2
      <3>2. (t \o e)[i] = e[i - Len(t)]
        BY <2>2
      <3>3. QED
        BY <3>1, <3>2
    <2>3. QED
      BY <2>1, <2>2
  <1>3. QED
    BY <1>1, <1>2

LEMMA PieceFacts ==
    ASSUME NEW S, NEW s \in Seq(S), NEW a \in Nat, NEW n \in Nat, a + n <= Len(s)
    PROVE  /\ SubSeq(s, a + 1, a + n) \in Seq(S) /\ Len(SubSeq(s, a + 1, a + n)) = n
           /\ \A i \in 1..n : SubSeq(s, a + 1, a + n)[i] = s[a + i]
  OBVIOUS
=============================================================================
