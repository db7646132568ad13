------------------------------ MODULE SlyFacts ------------------------------
(***************************************************************************)
(* Facts about numbers, sets and sequences that the proofs of several      *)
(* components need.                                                        *)
(***************************************************************************)
EXTENDS Integers, Sequences, FiniteSets, FiniteSetTheorems, SequenceTheorems, TLAPS

LessPairs == {p \in Nat \X Nat : p[1] < p[2]}

\* Every nonempty set of natural numbers has a least element.  (This is the
\* form in which the proofs use induction: the least counterexample.)
LEMMA LeastNat ==
    ASSUME NEW T, T \subseteq Nat, T # {}
    PROVE  \E x \in T : \A y \in T : x <= y
<1>1. IsWellFoundedOn(LessPairs, Nat)
  BY NatLessThanWellFounded, Zenon DEF OpToRel, LessPairs
<1>2. PICK x \in T : \A y \in T : ~(<<y, x>> \in LessPairs)
  BY <1>1, WFMin
<1>3. \A y \in T : y < x => <<y, x>> \in LessPairs
  BY DEF LessPairs
<1>4. \A y \in T : x <= y
  <2>1. TAKE y \in T
  <2>2. x \in Nat /\ y \in Nat /\ ~(y < x)
    BY <1>2, <1>3
  <2>3. QED
    BY <2>2
<1>5. QED
  BY <1>4

\* A function on 1..n is a sequence of length n.
LEMMA FunctionIsSeq ==
    ASSUME NEW S, NEW n \in Nat, NEW f \in [1 .. n -> S]
    PROVE  f \in Seq(S) /\ Len(f) = n /\ DOMAIN f = 1 .. n
OBVIOUS

\* What Append returns.
LEMMA AppendFacts ==
    ASSUME NEW S, NEW s \in Seq(S), NEW e \in S
    PROVE  /\ Append(s, e) \in Seq(S)
           /\ Len(Append(s, e)) = Len(s) + 1
           /\ DOMAIN Append(s, e) = 1 .. Len(s) + 1
           /\ \A i \in 1 .. Len(s) : Append(s, e)[i] = s[i]
           /\ Append(s, e)[Len(s) + 1] = e
OBVIOUS

\* A sequence without its last element.
LEMMA FrontFacts ==
    ASSUME NEW S, NEW s \in Seq(S), s # <<>>
    PROVE  /\ Len(s) \in Nat /\ Len(s) >= 1 /\ s[Len(s)] \in S
           /\ SubSeq(s, 1, Len(s) - 1) \in Seq(S)
           /\ Len(SubSeq(s, 1, Len(s) - 1)) = Len(s) - 1
           /\ DOMAIN SubSeq(s, 1, Len(s) - 1) = 1 .. Len(s) - 1
           /\ \A i \in 1 .. Len(s) - 1 : SubSeq(s, 1, Len(s) - 1)[i] = s[i]
<1> DEFINE n == Len(s) - 1
<1>1. Len(s) \in Nat /\ Len(s) >= 1
  BY EmptySeq
<1>2. n \in Nat /\ 1 \in Int /\ n \in Int /\ n - 1 + 1 = n
      /\ (IF 1 <= n THEN n - 1 + 1 ELSE 0) = n /\ \A i \in 1 .. n : s[i] \in S /\ 1 + i - 1 = i
  <2>1. n \in Nat /\ \A i \in 1 .. n : s[i] \in S
    BY <1>1
  <2> HIDE DEF n
  <2>2. QED
    BY <2>1
<1>3. /\ SubSeq(s, 1, n) \in Seq(S)
      /\ Len(SubSeq(s, 1, n)) = n
      /\ \A i \in 1 .. n : SubSeq(s, 1, n)[i] = s[i]
  <2> HIDE DEF n
  <2>1. /\ SubSeq(s, 1, n) \in Seq(S)
        /\ Len(SubSeq(s, 1, n)) = IF 1 <= n THEN n - 1 + 1 ELSE 0
        /\ \A i \in 1 .. n - 1 + 1 : SubSeq(s, 1, n)[i] = s[1 + i - 1]
    BY <1>2, SubSeqProperties
  <2>2. QED
    BY <1>2, <2>1
<1>4. DOMAIN SubSeq(s, 1, n) = 1 .. n
  BY <1>3
<1>5. s[Len(s)] \in S
  <2>1. Len(s) \in 1 .. Len(s) /\ \A i \in 1 .. Len(s) : s[i] \in S
    BY <1>1
  <2>2. QED
    BY <2>1
<1>6. QED
  BY <1>1, <1>3, <1>4, <1>5

\* A set of numbers without two different elements has at most one.
LEMMA AtMostOne ==
    ASSUME NEW S, IsFiniteSet(S), Cardinality(S) <= 1, NEW x \in S, NEW y \in S
    PROVE  x = y
<1>1. SUFFICES ASSUME x # y PROVE FALSE
  OBVIOUS
<1>2. {x, y} \subseteq S /\ IsFiniteSet({y}) /\ Cardinality({y}) = 1
  BY FS_Singleton
<1>3. Cardinality({y} \cup {x}) = Cardinality({y}) + 1
  BY <1>1, <1>2, FS_AddElement
<1>4. Cardinality({y} \cup {x}) <= Cardinality(S)
  <2>1. {y} \cup {x} \in SUBSET S
    BY <1>2
  <2>2. QED
    BY <2>1, FS_Subset
<1>5. Cardinality(S) \in Nat
  BY FS_CardinalityType
<1>6. QED
  BY <1>2, <1>3, <1>4, <1>5
Elements(s) == {s[i] : i \in DOMAIN s}

\* No element occurs twice in s.
Injective(s) == \A i, j \in DOMAIN s : s[i] = s[j] => i = j

\* The tail of such a sequence has all elements but the head.
LEMMA TailInjective ==
    ASSUME NEW S, NEW s \in Seq(S), s # <<>>, Injective(s)
    PROVE  /\ Head(s) \in Elements(s) /\ Head(s) \in S
           /\ Tail(s) \in Seq(S) /\ Injective(Tail(s))
           /\ Elements(Tail(s)) = Elements(s) \ {Head(s)}
<1> DEFINE t == Tail(s)
<1>1. Len(s) \in Nat /\ Len(s) >= 1 /\ DOMAIN s = 1 .. Len(s) /\ Head(s) = s[1]
  BY EmptySeq
<1>2. t \in Seq(S) /\ Len(t) = Len(s) - 1 /\ DOMAIN t = 1 .. Len(s) - 1
      /\ \A i \in 1 .. Len(s) - 1 : t[i] = s[i + 1]
  BY <1>1
<1> HIDE DEF t
<1>3. 1 \in DOMAIN s /\ s[1] \in S
  BY <1>1
<1>4. \A i \in DOMAIN t : i + 1 \in DOMAIN s /\ i + 1 # 1 /\ t[i] = s[i + 1]
  BY <1>1, <1>2
<1>5. Injective(t)
  <2>1. SUFFICES ASSUME NEW i \in DOMAIN t, NEW j \in DOMAIN t, t[i] = t[j] PROVE i = j
    BY DEF Injective
  <2>2. i + 1 = j + 1
    BY <1>4, <2>1 DEF Injective
  <2>3. i \in Nat /\ j \in Nat
    BY <1>1, <1>2
  <2>4. QED
    BY <2>2, <2>3
<1>6. ASSUME NEW e \in Elements(t) PROVE e \in Elements(s) /\ e # s[1]
  BY <1>3, <1>4 DEF Elements, Injective
<1>7. ASSUME NEW e \in Elements(s), e # s[1] PROVE e \in Elements(t)
  <2>1. PICK i \in 1 .. Len(s) : e = s[i]
    BY <1>1 DEF Elements
  <2>2. i - 1 \in DOMAIN t /\ (i - 1) + 1 = i
    BY <1>1, <1>2, <1>7, <2>1
  <2>3. t[i - 1] = s[i]
    BY <1>2, <2>2
  <2>4. QED
    BY <2>1, <2>2, <2>3 DEF Elements
<1>8. Elements(t) = Elements(s) \ {s[1]}
  BY <1>6, <1>7
<1>9. Head(s) \in Elements(s)
  BY <1>1, <1>3 DEF Elements
<1>10. QED
  BY <1>1, <1>2, <1>3, <1>5, <1>8, <1>9 DEF t

\* Two such sequences without a common element, one after the other.
LEMMA ConcatInjective ==
    ASSUME NEW S, NEW s \in Seq(S), NEW t \in Seq(S), Injective(s), Injective(t),
           Elements(s) \cap Elements(t) = {}
    PROVE  /\ s \o t \in Seq(S) /\ Injective(s \o t)
           /\ Elements(s \o t) = Elements(s) \cup Elements(t)
<1> DEFINE m == Len(s)
           n == Len(t)
           u == s \o t
<1>1. /\ m \in Nat /\ n \in Nat /\ DOMAIN s = 1 .. m /\ DOMAIN t = 1 .. n
  OBVIOUS
<1>2. /\ u \in Seq(S) /\ Len(u) = m + n /\ DOMAIN u = 1 .. m + n
      /\ \A i \in 1 .. m + n : u[i] = IF i <= m THEN s[i] ELSE t[i - m]
  OBVIOUS
<1> HIDE DEF m, n, u
<1>3. \A i \in DOMAIN u : \/ i \in DOMAIN s /\ u[i] = s[i]
                          \/ i - m \in DOMAIN t /\ u[i] = t[i - m]
  BY <1>1, <1>2
<1>4. \A i \in DOMAIN s : i \in DOMAIN u /\ u[i] = s[i]
  BY <1>1, <1>2
<1>5. \A i \in DOMAIN t : i + m \in DOMAIN u /\ u[i + m] = t[i]
  <2>1. TAKE i \in DOMAIN t
  <2>2. i + m \in DOMAIN u /\ ~(i + m <= m) /\ (i + m) - m = i
    BY <1>1, <1>2
  <2>3. QED
    BY <1>2, <2>2
<1>6. Elements(u) = Elements(s) \cup Elements(t)
  BY <1>3, <1>4, <1>5 DEF Elements
<1>7. Injective(u)
  <2>1. SUFFICES ASSUME NEW i \in DOMAIN u, NEW j \in DOMAIN u, u[i] = u[j] PROVE i = j
    BY DEF Injective
  <2>2. i \in Nat /\ j \in Nat
    BY <1>2
  <2>3. CASE i \in DOMAIN s /\ u[i] = s[i] /\ j \in DOMAIN s /\ u[j] = s[j]
    BY <2>1, <2>3 DEF Injective
  <2>4. CASE i - m \in DOMAIN t /\ u[i] = t[i - m] /\ j - m \in DOMAIN t /\ u[j] = t[j - m]
    <3>1. i - m = j - m
      BY <2>1, <2>4 DEF Injective
    <3>2. QED
      BY <1>1, <2>2, <3>1
  <2>5. CASE i \in DOMAIN s /\ u[i] = s[i] /\ j - m \in DOMAIN t /\ u[j] = t[j - m]
    BY <2>1, <2>5 DEF Elements
  <2>6. CASE i - m \in DOMAIN t /\ u[i] = t[i - m] /\ j \in DOMAIN s /\ u[j] = s[j]
    BY <2>1, <2>6 DEF Elements
  <2>7. QED
    BY <1>3, <2>3, <2>4, <2>5, <2>6
<1>8. QED
  BY <1>2, <1>6, <1>7 DEF u
=============================================================================
