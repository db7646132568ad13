--------------------------- MODULE ScmPrimsProofs ---------------------------
EXTENDS ScmPrims, SlyFacts
(***************************************************************************)
(* Proofs about the runtime's primitives, for every family of programs     *)
(* that ScmPrims!ProgramsAssumption allows and every bound on integers.    *)
(*                                                                         *)
(* The argument has five parts.                                            *)
(*   1. list?: two pointers race along the cdrs of a value.  The cdrs form *)
(*      a recursive function, which is shown to exist; a chain longer than *)
(*      the heap repeats by the pigeonhole principle, so the race ends and *)
(*      answers TRUE exactly for the proper lists (RaceExact).             *)
(*   2. Every primitive, given sound arguments on a well-made heap, leaves *)
(*      a well-made heap, a sound result and a stack of sound values, and  *)
(*      only adds objects: one lemma per kind of primitive, put together   *)
(*      in PrimGood, ApplyGood and CallWithValuesGood.                     *)
(*   3. PrimsInv, the inductive invariant, and the theorems on safety.     *)
(*   4. equal?: it descends into elements of vectors, and a vector's       *)
(*      elements that are vectors are older than it, so the recursion is   *)
(*      well founded and the relation can be shown to be an equivalence.   *)
(*   5. Junk: what malloc left in a cell.  One lemma per kind of primitive *)
(*      says which cells of the outcome can hold it.                       *)
(* Induction over the naturals is by least counterexample                  *)
(* (SlyFacts!LeastNat).                                                    *)
(***************************************************************************)

-----------------------------------------------------------------------------
(* Following the cdrs of a value.                                          *)

\* The first n cdrs, as a function on 0..n.
IsCdrs(f, S, v, m) == f = [n \in S |-> IF n = 0 THEN v ELSE Cdr(f[n - 1], m)]

LEMMA CdrsUpTo ==
    ASSUME NEW v, NEW m
    PROVE  \A k \in Nat : \E f : IsCdrs(f, 0 .. k, v, m)
<1> DEFINE T == {k \in Nat : ~\E f : IsCdrs(f, 0 .. k, v, m)}
<1>1. SUFFICES ASSUME T # {} PROVE FALSE
  OBVIOUS
<1>2. PICK k \in T : \A y \in T : k <= y
  BY <1>1, LeastNat
<1>3. CASE k = 0
  <2>1. IsCdrs([n \in 0 .. 0 |-> v], 0 .. 0, v, m)
    BY DEF IsCdrs
  <2>2. QED
    BY <1>2, <1>3, <2>1
<1>4. CASE k # 0
  <2>1. k - 1 \in Nat /\ k - 1 \notin T
    BY <1>2, <1>4
  <2>2. PICK f : IsCdrs(f, 0 .. k - 1, v, m)
    BY <2>1
  <2> DEFINE g == [n \in 0 .. k |-> IF n = k THEN Cdr(f[k - 1], m) ELSE f[n]]
  <2>3. \A n \in 0 .. k : g[n] = IF n = 0 THEN v ELSE Cdr(g[n - 1], m)
    <3>1. \A n \in 0 .. k - 1 : f[n] = IF n = 0 THEN v ELSE Cdr(f[n - 1], m)
      BY <2>2 DEF IsCdrs
    <3>2. QED
      BY <3>1, <1>4
  <2>4. IsCdrs(g, 0 .. k, v, m)
    BY <2>3 DEF IsCdrs
  <2>5. QED
    BY <1>2, <2>4
<1>5. QED
  BY <1>3, <1>4

LEMMA CdrsAgree ==
    ASSUME NEW v, NEW m, NEW j \in Nat, NEW k \in Nat, NEW f, NEW g,
           IsCdrs(f, 0 .. j, v, m), IsCdrs(g, 0 .. k, v, m)
    PROVE  \A n \in Nat : n <= j /\ n <= k => f[n] = g[n]
<1> DEFINE T == {n \in Nat : n <= j /\ n <= k /\ f[n] # g[n]}
<1>1. SUFFICES ASSUME T # {} PROVE FALSE
  OBVIOUS
<1>2. PICK n \in T : \A y \in T : n <= y
  BY <1>1, LeastNat
<1>3. /\ f[n] = IF n = 0 THEN v ELSE Cdr(f[n - 1], m)
      /\ g[n] = IF n = 0 THEN v ELSE Cdr(g[n - 1], m)
  BY DEF IsCdrs
<1>4. n # 0 => n - 1 \in Nat /\ n - 1 \notin T
  BY <1>2
<1>5. n # 0 => f[n - 1] = g[n - 1]
  BY <1>4
<1>6. QED
  BY <1>3, <1>5

\* CdrsTo is what its recursive function says: it starts at v and takes one
\* cdr at a time.
LEMMA CdrsToFacts ==
    ASSUME NEW v, NEW m, NEW last \in Nat
    PROVE  /\ CdrsTo(last, v, m)[0] = v
           /\ DOMAIN CdrsTo(last, v, m) = 0 .. last
           /\ \A n \in 1 .. last : CdrsTo(last, v, m)[n] = Cdr(CdrsTo(last, v, m)[n - 1], m)
<1> DEFINE upTo(k) == CHOOSE f : IsCdrs(f, 0 .. k, v, m)
           g == [n \in Nat |-> upTo(n)[n]]
<1>1. \A k \in Nat : IsCdrs(upTo(k), 0 .. k, v, m)
  BY CdrsUpTo
<1>2. \A n \in Nat : g[n] = IF n = 0 THEN v ELSE Cdr(g[n - 1], m)
  <2>1. TAKE n \in Nat
  <2>2. IsCdrs(upTo(n), 0 .. n, v, m)
    BY <1>1
  <2>3. upTo(n)[n] = IF n = 0 THEN v ELSE Cdr(upTo(n)[n - 1], m)
    <3> HIDE DEF upTo
    <3> QED BY <2>2 DEF IsCdrs
  <2>4. n # 0 => upTo(n)[n - 1] = upTo(n - 1)[n - 1]
    <3>1. SUFFICES ASSUME n # 0 PROVE upTo(n)[n - 1] = upTo(n - 1)[n - 1]
      OBVIOUS
    <3>2. n - 1 \in Nat /\ n - 1 <= n
      BY <3>1
    <3>3. IsCdrs(upTo(n - 1), 0 .. n - 1, v, m)
      BY <1>1, <3>2
    <3> HIDE DEF upTo
    <3> QED BY <2>2, <3>2, <3>3, CdrsAgree
  <2> HIDE DEF upTo
  <2> QED BY <2>3, <2>4
<1>3. g = [n \in Nat |-> IF n = 0 THEN v ELSE Cdr(g[n - 1], m)]
  <2> HIDE DEF upTo
  <2>1. g = [n \in Nat |-> g[n]]
    OBVIOUS
  <2> HIDE DEF g
  <2> QED BY <2>1, <1>2
<1>4. PICK f : /\ CdrsTo(last, v, m) = [n \in 0 .. last |-> f[n]]
               /\ f = [n \in Nat |-> IF n = 0 THEN v ELSE Cdr(f[n - 1], m)]
  <2> HIDE DEF g
  <2> QED BY <1>3 DEF CdrsTo
<1>5. QED
  BY <1>4

LEMMA CdrsFacts ==
    ASSUME NEW v, NEW m, Len(m) \in Nat
    PROVE  /\ Cdrs(v, m)[0] = v
           /\ DOMAIN Cdrs(v, m) = 0 .. (2 * Len(m) + 3)
           /\ \A n \in 1 .. (2 * Len(m) + 3) : Cdrs(v, m)[n] = Cdr(Cdrs(v, m)[n - 1], m)
<1>1. 2 * Len(m) + 3 \in Nat
  OBVIOUS
<1>2. QED
  BY <1>1, CdrsToFacts DEF Cdrs

-----------------------------------------------------------------------------
(* Values and objects.                                                     *)

\* A value that refers, if it is a reference, to an object of its type.
Sound(v, m) == v \in Values /\ Refers(v, m)

AllSound(s, m) == s \in Seq(Values) /\ \A i \in DOMAIN s : Sound(s[i], m)

\* What the first component of a value says of the second.
LEMMA ValueFacts ==
    ASSUME NEW v \in Values
    PROVE  /\ Is("int", v) => v = <<"int", v[2]>> /\ v[2] \in Int
           /\ Is("char", v) => v[2] \in Int
           /\ Is("proc", v) => v[2] \in Primitives
           /\ v[1] \in References => v = <<v[1], v[2]>> /\ v[2] \in Nat
BY DEF Values, Is, References

\* The immediates the primitives make are values.
LEMMA Immediates ==
    /\ \A n \in Int : Integer(n) \in Values /\ Char(n) \in Values
    /\ {True, False, Null, Void, Error, Chaos, Junk} \subseteq Values
    /\ \A b \in BOOLEAN : Bool(b) \in Values /\ Raw(b) \in Values
BY BoundsAssumption DEF Values, Integer, Char, True, False, Bool, Raw, Null, Void, Error, Chaos, Junk

\* A value that is not a reference refers to nothing.
LEMMA NoReference ==
    ASSUME NEW v, NEW m,
           v[1] \in {"int", "char", "bool", "null", "void", "symbol", "error", "junk", "chaos",
                     "flo", "proc"}
    PROVE  Refers(v, m)
BY DEF Refers, References

LEMMA ImmediatesSound ==
    ASSUME NEW m
    PROVE  /\ \A n \in Int : Sound(Integer(n), m) /\ Sound(Char(n), m)
           /\ \A x \in {True, False, Null, Void, Error, Chaos, Junk} : Sound(x, m)
           /\ \A b \in BOOLEAN : Sound(Bool(b), m) /\ Sound(Raw(b), m)
BY Immediates, NoReference
   DEF Sound, Integer, Char, True, False, Bool, Raw, Null, Void, Error, Chaos, Junk

\* The cells of an object a sound reference leads to.
LEMMA CellsFacts ==
    ASSUME NEW m, WellMade(m), NEW v, Sound(v, m), v[1] \in References
    PROVE  /\ v[2] \in DOMAIN m /\ v[2] \in Nat
           /\ Cells(v, m) \in Seq(Values) /\ Len(Cells(v, m)) \in Nat
           /\ \A i \in 1 .. Len(Cells(v, m)) : Sound(Cells(v, m)[i], m)
           /\ Is("pair", v) => Len(Cells(v, m)) = 2
           /\ Is("record", v) => Len(Cells(v, m)) >= 1
<1>1. v[2] \in DOMAIN m /\ m[v[2]].tag = v[1] /\ v[2] \in Nat
  BY ValueFacts DEF Sound, Refers
<1>2. m[v[2]] \in [tag : References, cells : Seq(Values)]
  <2> DEFINE Object == [tag : References, cells : Seq(Values)]
  <2>1. m \in Seq(Object)
    BY DEF WellMade
  <2> HIDE DEF Object
  <2>2. m[v[2]] \in Object
    BY <1>1, <2>1
  <2>3. QED
    BY <2>2 DEF Object
<1>3. Cells(v, m) \in Seq(Values) /\ Len(Cells(v, m)) \in Nat
      /\ DOMAIN Cells(v, m) = 1 .. Len(Cells(v, m))
  BY <1>2 DEF Cells
<1>4. \A i \in 1 .. Len(Cells(v, m)) : Sound(Cells(v, m)[i], m)
  BY <1>1, <1>3 DEF WellMade, Sound, Cells
<1>5. QED
  BY <1>1, <1>3, <1>4 DEF WellMade, Cells, Is

\* car and cdr of a sound value are sound.
LEMMA CarCdrSound ==
    ASSUME NEW m, WellMade(m), NEW v, Sound(v, m)
    PROVE  /\ Sound(Car(v, m), m) /\ Sound(Cdr(v, m), m)
           /\ ~Is("pair", v) => Cdr(v, m) = Error
<1>1. Sound(Error, m)
  BY ImmediatesSound
<1>2. CASE Is("pair", v)
  <2>1. v[1] \in References
    BY <1>2 DEF Is, References
  <2>2. Len(Cells(v, m)) = 2 /\ \A i \in 1 .. 2 : Sound(Cells(v, m)[i], m)
    BY <1>2, <2>1, CellsFacts
  <2>3. QED
    BY <1>2, <2>2 DEF Car, Cdr
<1>3. CASE ~Is("pair", v)
  BY <1>1, <1>3 DEF Car, Cdr
<1>4. QED
  BY <1>2, <1>3

LEMMA CdrsToSound ==
    ASSUME NEW m, WellMade(m), NEW v, Sound(v, m), NEW last \in Nat
    PROVE  \A n \in 0 .. last : Sound(CdrsTo(last, v, m)[n], m)
<1> DEFINE c == CdrsTo(last, v, m)
           T == {n \in 0 .. last : ~Sound(c[n], m)}
<1>1. SUFFICES ASSUME T # {} PROVE FALSE
  OBVIOUS
<1>2. T \subseteq Nat
  OBVIOUS
<1>3. PICK n \in T : \A y \in T : n <= y
  BY <1>1, <1>2, LeastNat
<1>4. n # 0
  BY CdrsToFacts
<1>5. n - 1 \in 0 .. last /\ n \in 1 .. last /\ n - 1 \notin T
  BY <1>3, <1>4
<1>6. Sound(c[n - 1], m) /\ c[n] = Cdr(c[n - 1], m)
  BY <1>5, CdrsToFacts
<1>7. QED
  BY <1>6, CarCdrSound

LEMMA CdrsSound ==
    ASSUME NEW m, WellMade(m), NEW v, Sound(v, m)
    PROVE  /\ Len(m) \in Nat
           /\ \A n \in 0 .. (2 * Len(m) + 3) : Sound(Cdrs(v, m)[n], m)
<1>1. Len(m) \in Nat
  BY DEF WellMade
<1>2. 2 * Len(m) + 3 \in Nat
  BY <1>1
<1>3. QED
  BY <1>1, <1>2, CdrsToSound DEF Cdrs

-----------------------------------------------------------------------------
(* The race of list? (primop race): a chain of cdrs through len objects.   *)

Chain(c, len) ==
    /\ \A n \in 0 .. (2 * len + 2) : ~Is("pair", c[n]) => c[n + 1] = Error
    /\ \A i, j \in 0 .. (2 * len + 2) : c[i] = c[j] => c[i + 1] = c[j + 1]
    /\ \A n \in 0 .. (2 * len + 3) :
          Is("pair", c[n]) => c[n] = <<"pair", c[n][2]>> /\ c[n][2] \in 1 .. len

LEMMA CdrsChain ==
    ASSUME NEW m, WellMade(m), NEW v, Sound(v, m)
    PROVE  Len(m) \in Nat /\ Chain(Cdrs(v, m), Len(m))
<1> DEFINE c == Cdrs(v, m)
           len == Len(m)
<1>1. len \in Nat /\ \A n \in 0 .. (2 * len + 3) : Sound(c[n], m)
  BY CdrsSound
<1>2. \A n \in 0 .. (2 * len + 2) : n + 1 \in 1 .. (2 * len + 3) /\ n \in 0 .. (2 * len + 3)
  BY <1>1
<1>3. \A n \in 0 .. (2 * len + 2) : c[n + 1] = Cdr(c[n], m)
  <2>1. TAKE n \in 0 .. (2 * len + 2)
  <2>2. n + 1 \in 1 .. (2 * len + 3) /\ n + 1 - 1 = n
    BY <1>1
  <2>3. c[n + 1] = Cdr(c[n + 1 - 1], m)
    BY <1>1, <2>2, CdrsFacts
  <2>4. QED
    BY <2>2, <2>3
<1>4. \A n \in 0 .. (2 * len + 2) : ~Is("pair", c[n]) => c[n + 1] = Error
  BY <1>1, <1>2, <1>3, CarCdrSound
<1>5. \A i, j \in 0 .. (2 * len + 2) : c[i] = c[j] => c[i + 1] = c[j + 1]
  BY <1>3
<1>6. ASSUME NEW n \in 0 .. (2 * len + 3), Is("pair", c[n])
      PROVE  c[n] = <<"pair", c[n][2]>> /\ c[n][2] \in 1 .. len
  <2>1. Sound(c[n], m) /\ c[n][1] = "pair" /\ c[n][1] \in References
    BY <1>1, <1>6 DEF Is, References
  <2>2. c[n][2] \in DOMAIN m /\ DOMAIN m = 1 .. len
    <3>1. c[n][2] \in DOMAIN m
      BY <2>1, CellsFacts
    <3>2. DOMAIN m = 1 .. len
      BY DEF WellMade
    <3>3. QED
      BY <3>1, <3>2
  <2> HIDE DEF c, len
  <2>3. QED
    BY <2>1, <2>2, ValueFacts DEF Sound
<1>7. QED
  BY <1>1, <1>4, <1>5, <1>6 DEF Chain

\* Behind the end of a chain there is only more end.
LEMMA AfterTheEnd ==
    ASSUME NEW c, NEW len \in Nat, Chain(c, len),
           NEW n \in 0 .. (2 * len + 3), ~Is("pair", c[n])
    PROVE  \A j \in 0 .. (2 * len + 3) : j > n => c[j] = Error /\ ~Is("pair", c[j])
<1> DEFINE T == {j \in 0 .. (2 * len + 3) : j > n /\ ~(c[j] = Error /\ ~Is("pair", c[j]))}
<1>1. SUFFICES ASSUME T # {} PROVE FALSE
  OBVIOUS
<1>2. PICK j \in T : \A y \in T : j <= y
  <2>1. T \subseteq Nat
    OBVIOUS
  <2>2. QED
    BY <1>1, <2>1, LeastNat
<1>3. j - 1 \in 0 .. (2 * len + 2) /\ j - 1 \notin T /\ j - 1 + 1 = j
  BY <1>2
<1>4. ~Is("pair", c[j - 1])
  BY <1>3
<1>5. c[j] = Error
  BY <1>3, <1>4 DEF Chain
<1>6. ~Is("pair", Error)
  BY DEF Is, Error
<1>7. QED
  BY <1>5, <1>6

\* A chain that comes to a pair a second time has come full circle: what it
\* passes from there on it has passed before.
LEMMA Again ==
    ASSUME NEW c, NEW len \in Nat, Chain(c, len),
           NEW i \in Nat, NEW d \in Nat, c[i] = c[i + d]
    PROVE  \A n \in Nat : i <= n /\ n + d <= 2 * len + 3 => c[n] = c[n + d]
<1> DEFINE T == {n \in Nat : i <= n /\ n + d <= 2 * len + 3 /\ c[n] # c[n + d]}
<1>1. SUFFICES ASSUME T # {} PROVE FALSE
  OBVIOUS
<1>2. PICK n \in T : \A y \in T : n <= y
  BY <1>1, LeastNat
<1>3. n # i
  OBVIOUS
<1>4. /\ n - 1 \in 0 .. (2 * len + 2) /\ n - 1 + d \in 0 .. (2 * len + 2)
      /\ n - 1 \notin T /\ n - 1 + 1 = n /\ n - 1 + d + 1 = n + d
  BY <1>2, <1>3
<1>5. c[n - 1] = c[n - 1 + d]
  BY <1>3, <1>4
<1>6. c[n - 1 + 1] = c[n - 1 + d + 1]
  BY <1>4, <1>5 DEF Chain
<1>7. QED
  BY <1>4, <1>6

\* Such a chain never ends.
LEMMA CircleNeverEnds ==
    ASSUME NEW c, NEW len \in Nat, Chain(c, len),
           NEW i \in Nat, NEW d \in Nat, d > 0, i + d <= 2 * len + 3,
           c[i] = c[i + d], Is("pair", c[i])
    PROVE  \A n \in 0 .. (2 * len + 3) : Is("pair", c[n])
<1> DEFINE T == {n \in 0 .. (2 * len + 3) : ~Is("pair", c[n])}
<1>1. SUFFICES ASSUME T # {} PROVE FALSE
  OBVIOUS
<1>2. PICK n \in T : \A y \in T : n <= y
  <2>1. T \subseteq Nat
    OBVIOUS
  <2>2. QED
    BY <1>1, <2>1, LeastNat
<1>3. ~(n < i + d)
  <2>1. i + d \in 0 .. (2 * len + 3)
    OBVIOUS
  <2>2. QED
    BY <2>1, AfterTheEnd
<1>4. n - d \in Nat /\ i <= n - d /\ n - d + d <= 2 * len + 3 /\ n - d < n /\ n - d + d = n
  BY <1>3
<1>5. c[n - d] = c[n]
  BY <1>4, Again
<1>6. n - d \in T
  BY <1>4, <1>5
<1>7. QED
  BY <1>2, <1>4, <1>6

\* A chain of more pairs than there are objects comes to one of them twice.
LEMMA LongChainRepeats ==
    ASSUME NEW c, NEW len \in Nat, Chain(c, len), \A n \in 0 .. len : Is("pair", c[n])
    PROVE  \E i \in Nat, d \in Nat :
              d > 0 /\ i + d <= len /\ c[i] = c[i + d] /\ Is("pair", c[i])
<1> DEFINE f == [n \in 0 .. len |-> c[n][2]]
<1>1. \A n \in 0 .. len : c[n] = <<"pair", c[n][2]>> /\ c[n][2] \in 1 .. len
  <2>1. \A n \in 0 .. len : n \in 0 .. (2 * len + 3)
    OBVIOUS
  <2>2. QED
    BY <2>1 DEF Chain
<1>2. f \in [0 .. len -> 1 .. len]
  BY <1>1
<1>3. /\ IsFiniteSet(0 .. len) /\ Cardinality(0 .. len) = len + 1
      /\ IsFiniteSet(1 .. len) /\ Cardinality(1 .. len) = len
  BY FS_Interval
<1>4. PICK x \in 0 .. len, y \in 0 .. len : x # y /\ f[x] = f[y]
  <2> HIDE DEF f
  <2>1. Cardinality(1 .. len) < Cardinality(0 .. len)
    BY <1>3
  <2>2. QED
    BY <1>2, <1>3, <2>1, FS_PigeonHole
<1>5. c[x] = c[y] /\ x \in Nat /\ y \in Nat /\ Is("pair", c[x]) /\ Is("pair", c[y])
  BY <1>1, <1>4
<1>6. CASE x < y
  <2>1. y - x \in Nat /\ y - x > 0 /\ x + (y - x) = y /\ y <= len
    BY <1>6
  <2>2. QED
    BY <1>5, <2>1
<1>7. CASE y < x
  <2>1. x - y \in Nat /\ x - y > 0 /\ y + (x - y) = x /\ x <= len
    BY <1>7
  <2>2. QED
    BY <1>5, <2>1
<1>8. QED
  BY <1>4, <1>6, <1>7

\* On a circle the hare is back where it was after any number of rounds.
LEMMA Rounds ==
    ASSUME NEW c, NEW len \in Nat, Chain(c, len),
           NEW i \in Nat, NEW d \in Nat, c[i] = c[i + d], NEW n \in Nat, i <= n
    PROVE  \A q \in Nat : n + q * d <= 2 * len + 3 => c[n] = c[n + q * d]
<1> DEFINE T == {q \in Nat : n + q * d <= 2 * len + 3 /\ c[n] # c[n + q * d]}
<1>1. SUFFICES ASSUME T # {} PROVE FALSE
  OBVIOUS
<1>2. PICK q \in T : \A y \in T : q <= y
  BY <1>1, LeastNat
<1>3. q # 0
  <2>1. n + 0 * d = n
    OBVIOUS
  <2>2. QED
    BY <1>2, <2>1
<1>4. q - 1 \in Nat /\ q - 1 \notin T /\ (q - 1) * d \in Nat /\ q * d = (q - 1) * d + d
  <2>1. q - 1 \in Nat /\ q - 1 \notin T
    BY <1>2, <1>3
  <2>2. (q - 1) * d \in Nat
    BY <2>1
  <2>3. q * d = (q - 1) * d + d
    OBVIOUS
  <2>4. QED
    BY <2>1, <2>2, <2>3
<1> DEFINE p == n + (q - 1) * d
<1>5. p \in Nat /\ i <= p /\ n + q * d = p + d /\ p + d <= 2 * len + 3 /\ p <= 2 * len + 3
  BY <1>4
<1>6. c[n] = c[p]
  BY <1>4, <1>5
<1>7. c[p] = c[p + d]
  <2> HIDE DEF p
  <2> QED BY <1>5, Again
<1>8. QED
  BY <1>2, <1>5, <1>6, <1>7

\* Past every number there is a multiple of d, and not far.
LEMMA NextMultiple ==
    ASSUME NEW i \in Nat, NEW d \in Nat, d > 0
    PROVE  \E q \in Nat : q * d \in Nat /\ i + 1 <= q * d /\ q * d <= i + d
<1> DEFINE T == {q \in Nat : i + 1 <= q * d}
<1>1. i + 1 \in T
  <2>1. i + 1 <= (i + 1) * d
    OBVIOUS
  <2>2. QED
    BY <2>1
<1>2. PICK q \in T : \A y \in T : q <= y
  BY <1>1, LeastNat
<1>3. q # 0
  OBVIOUS
<1>4. q - 1 \in Nat /\ q - 1 \notin T
  BY <1>2, <1>3
<1>5. (q - 1) * d < i + 1 /\ (q - 1) * d \in Nat /\ q * d \in Nat /\ q * d = (q - 1) * d + d
  <2>1. (q - 1) * d \in Nat /\ q * d \in Nat
    BY <1>4
  <2>2. q * d = (q - 1) * d + d
    OBVIOUS
  <2>3. QED
    BY <1>4, <2>1, <2>2
<1>6. i + 1 <= q * d /\ q * d <= i + d
  BY <1>5
<1>7. QED
  BY <1>5, <1>6

\* Where the race of Laps ends on the chain c.
RaceEnds(c, len) ==
    {k \in 0 .. (len + 1) :
        \/ ~Is("pair", c[2 * k]) \/ ~Is("pair", c[2 * k + 1])
        \/ c[2 * k + 1] = c[k]}

\* The race always ends.
LEMMA RaceTerminates ==
    ASSUME NEW c, NEW len \in Nat, Chain(c, len)
    PROVE  RaceEnds(c, len) # {}
<1>1. CASE \E n \in 0 .. (2 * len + 3) : ~Is("pair", c[n])
  <2>1. PICK n \in 0 .. (2 * len + 3) : ~Is("pair", c[n])
    BY <1>1
  <2>2. PICK k \in 0 .. (len + 1) : n = 2 * k \/ n = 2 * k + 1
    <3>1. n \div 2 \in 0 .. (len + 1) /\ (n = 2 * (n \div 2) \/ n = 2 * (n \div 2) + 1)
      OBVIOUS
    <3>2. QED
      BY <3>1
  <2>3. k \in RaceEnds(c, len)
    BY <2>1, <2>2 DEF RaceEnds
  <2>4. QED
    BY <2>3
<1>2. CASE \A n \in 0 .. (2 * len + 3) : Is("pair", c[n])
  <2>1. \A n \in 0 .. len : Is("pair", c[n])
    BY <1>2
  <2>2. PICK i \in Nat, d \in Nat : d > 0 /\ i + d <= len /\ c[i] = c[i + d]
    BY <2>1, LongChainRepeats
  <2>3. PICK q \in Nat : q * d \in Nat /\ i + 1 <= q * d /\ q * d <= i + d
    BY <2>2, NextMultiple
  <2> DEFINE k == q * d - 1
  <2>4. k \in Nat /\ i <= k /\ k <= len /\ k + q * d = 2 * k + 1 /\ k + q * d <= 2 * len + 3
    BY <2>2, <2>3
  <2>5. c[k] = c[k + q * d]
    <3> HIDE DEF k
    <3> QED BY <2>2, <2>4, Rounds
  <2>6. k \in 0 .. (len + 1) /\ c[2 * k + 1] = c[k]
    BY <2>4, <2>5
  <2>7. QED
    BY <2>6 DEF RaceEnds
<1>3. QED
  BY <1>1, <1>2

\* Laps is the first end of the race.
LEMMA LapsFacts ==
    ASSUME NEW m, WellMade(m), NEW v, Sound(v, m)
    PROVE  /\ Laps(v, m) \in RaceEnds(Cdrs(v, m), Len(m))
           /\ \A k \in RaceEnds(Cdrs(v, m), Len(m)) : Laps(v, m) <= k
<1> DEFINE ends == RaceEnds(Cdrs(v, m), Len(m))
<1>1. ends # {} /\ ends \subseteq Nat
  <2>1. ends # {}
    BY CdrsChain, RaceTerminates
  <2>2. ends \subseteq Nat
    BY CdrsChain DEF RaceEnds
  <2>3. QED
    BY <2>1, <2>2
<1>2. Laps(v, m) = CHOOSE j \in ends : \A i \in ends : j <= i
  BY DEF Laps, RaceEnds
<1>3. \E j \in ends : \A i \in ends : j <= i
  <2> HIDE DEF ends
  <2> QED BY <1>1, LeastNat
<1>4. QED
  BY <1>2, <1>3

\* A chain that comes to the empty list comes to it within as many steps as
\* there are objects, and was at pairs before.
LEMMA ListsAreShort ==
    ASSUME NEW c, NEW len \in Nat, Chain(c, len), NEW n \in 0 .. (2 * len + 3), c[n] = Null
    PROVE  /\ n <= len
           /\ \A j \in 0 .. (2 * len + 3) : Is("pair", c[j]) <=> j < n
<1>1. ~Is("pair", c[n])
  BY DEF Is, Null
<1>2. \A j \in 0 .. (2 * len + 3) : j < n => Is("pair", c[j])
  <2>1. SUFFICES ASSUME NEW j \in 0 .. (2 * len + 3), j < n, ~Is("pair", c[j]) PROVE FALSE
    OBVIOUS
  <2>2. c[n] = Error
    BY <2>1, AfterTheEnd
  <2>3. QED
    BY <2>2 DEF Null, Error
<1>3. \A j \in 0 .. (2 * len + 3) : j > n => ~Is("pair", c[j])
  BY <1>1, AfterTheEnd
<1>4. ASSUME n > len PROVE FALSE
  <2>1. \A j \in 0 .. len : Is("pair", c[j])
    BY <1>2, <1>4
  <2>2. PICK i \in Nat, d \in Nat : d > 0 /\ i + d <= len /\ c[i] = c[i + d] /\ Is("pair", c[i])
    BY <2>1, LongChainRepeats
  <2>3. Is("pair", c[n])
    BY <2>2, CircleNeverEnds
  <2>4. QED
    BY <1>1, <2>3
<1>5. \A j \in 0 .. (2 * len + 3) : Is("pair", c[j]) => j < n
  <2>1. TAKE j \in 0 .. (2 * len + 3)
  <2>2. j = n \/ j > n \/ j < n
    OBVIOUS
  <2>3. QED
    BY <2>2, <1>1, <1>3
<1>6. QED
  BY <1>2, <1>4, <1>5

\* race finds a list exactly when the cdrs of the value come to the empty
\* list: the loop of list? and length, on every memory.
LEMMA RaceExact ==
    ASSUME NEW m, WellMade(m), NEW v, Sound(v, m)
    PROVE  Race(v, m).list = (\E n \in 0 .. Len(m) : Cdrs(v, m)[n] = Null)
<1> DEFINE c == Cdrs(v, m)
           len == Len(m)
           k == Laps(v, m)
           last == IF Is("pair", c[2 * k]) THEN c[2 * k + 1] ELSE c[2 * k]
<1>1. len \in Nat /\ Chain(c, len)
  BY CdrsChain
<1>2. k \in RaceEnds(c, len) /\ \A j \in RaceEnds(c, len) : k <= j
  BY LapsFacts
<1>3. Race(v, m).list = (last = Null)
  BY DEF Race
<1> HIDE DEF c, len, k
<1>4. /\ k \in 0 .. (len + 1) /\ 2 * k \in 0 .. (2 * len + 3) /\ 2 * k + 1 \in 0 .. (2 * len + 3)
      /\ ~Is("pair", c[2 * k]) \/ ~Is("pair", c[2 * k + 1]) \/ c[2 * k + 1] = c[k]
  <2>1. k \in 0 .. (len + 1)
    BY <1>2 DEF RaceEnds
  <2>2. 2 * k \in 0 .. (2 * len + 3) /\ 2 * k + 1 \in 0 .. (2 * len + 3)
    BY <1>1, <2>1
  <2>3. QED
    BY <1>2, <2>1, <2>2 DEF RaceEnds
<1>5. ASSUME last = Null PROVE \E n \in 0 .. len : c[n] = Null
  <2>1. PICK n \in 0 .. (2 * len + 3) : c[n] = Null
    BY <1>4, <1>5
  <2>2. n <= len
    BY <1>1, <2>1, ListsAreShort
  <2>3. QED
    BY <1>1, <2>1, <2>2
<1>6. ASSUME NEW n \in 0 .. len, c[n] = Null PROVE last = Null
  <2>1. n \in 0 .. (2 * len + 3)
    BY <1>1
  <2>2. \A j \in 0 .. (2 * len + 3) : Is("pair", c[j]) <=> j < n
    BY <1>1, <1>6, <2>1, ListsAreShort
  <2>3. ~Is("pair", c[2 * k]) \/ ~Is("pair", c[2 * k + 1])
    <3>1. SUFFICES ASSUME Is("pair", c[2 * k]), Is("pair", c[2 * k + 1]) PROVE FALSE
      OBVIOUS
    <3>2. c[k] = c[k + (k + 1)] /\ Is("pair", c[k]) /\ k \in Nat /\ k + 1 \in Nat
      <4>1. k + (k + 1) = 2 * k + 1 /\ k \in Nat
        BY <1>1, <1>4
      <4>2. QED
        BY <1>4, <3>1, <4>1
    <3>3. k + (k + 1) <= 2 * len + 3 /\ k + 1 > 0
      BY <1>1, <1>4
    <3>4. Is("pair", c[n])
      BY <1>1, <2>1, <3>2, <3>3, CircleNeverEnds
    <3>5. QED
      BY <2>1, <2>2, <3>4, <1>1
  <2>4. n <= 2 * k + 1
    BY <1>1, <1>4, <2>1, <2>2, <2>3
  <2>5. ~(n < 2 * k)
    <3>1. SUFFICES ASSUME n < 2 * k PROVE FALSE
      OBVIOUS
    <3>2. PICK j \in 0 .. (len + 1) : (n = 2 * j \/ n = 2 * j + 1) /\ j < k
      <4>1. /\ n \div 2 \in 0 .. (len + 1) /\ n \div 2 < k
            /\ n = 2 * (n \div 2) \/ n = 2 * (n \div 2) + 1
        BY <1>1, <1>4, <3>1
      <4>2. QED
        BY <4>1
    <3>3. ~Is("pair", c[n])
      BY <2>1, <2>2, <1>1
    <3>4. j \in RaceEnds(c, len)
      BY <3>2, <3>3 DEF RaceEnds
    <3>5. QED
      BY <1>1, <1>2, <1>4, <3>2, <3>4
  <2>6. n = 2 * k \/ n = 2 * k + 1
    BY <1>1, <1>4, <2>4, <2>5
  <2>7. CASE n = 2 * k
    <3>1. ~Is("pair", c[2 * k])
      BY <2>7, <1>6 DEF Is, Null
    <3>2. QED
      BY <2>7, <3>1, <1>6
  <2>8. CASE n = 2 * k + 1
    <3>1. Is("pair", c[2 * k])
      BY <1>1, <1>4, <2>2, <2>8
    <3>2. QED
      BY <2>8, <3>1, <1>6
  <2>9. QED
    BY <2>6, <2>7, <2>8
<1>7. (last = Null) = (\E n \in 0 .. len : c[n] = Null)
  BY <1>5, <1>6
<1>8. QED
  BY <1>3, <1>7 DEF c, len

\* What push_list_args pushes for a list are values of the program.
LEMMA ListArgsSound ==
    ASSUME NEW m, WellMade(m), NEW v, Sound(v, m)
    PROVE  AllSound(ListArgs(v, m), m)
<1> DEFINE c == Cdrs(v, m)
           ends == {n \in DOMAIN c : ~Is("pair", c[n])}
           n == CHOOSE j \in ends : \A i \in ends : j <= i
<1>1. Len(m) \in Nat /\ DOMAIN c = 0 .. (2 * Len(m) + 3)
      /\ \A j \in 0 .. (2 * Len(m) + 3) : Sound(c[j], m)
  BY CdrsSound, CdrsFacts
<1>2. CASE ends = {} \/ c[n] # Null
  <2>1. ListArgs(v, m) = <<Error>>
    BY <1>2 DEF ListArgs
  <2>2. Sound(Error, m) /\ Error \in Values
    BY ImmediatesSound, Immediates
  <2>3. QED
    BY <2>1, <2>2 DEF AllSound
<1>3. CASE ends # {} /\ c[n] = Null
  <2>1. n \in 0 .. (2 * Len(m) + 3)
    <3>1. ends \subseteq Nat
      BY <1>1
    <3>2. \E j \in ends : \A i \in ends : j <= i
      <4> HIDE DEF ends
      <4> QED BY <1>3, <3>1, LeastNat
    <3>3. n \in ends
      <4> HIDE DEF ends
      <4> QED BY <3>2
    <3>4. QED
      BY <3>3, <1>1
  <2>2. ListArgs(v, m) = [i \in 1 .. n |-> Car(c[i - 1], m)]
    BY <1>3 DEF ListArgs
  <2> HIDE DEF n, c
  <2>3. \A i \in 1 .. n : Sound(Car(c[i - 1], m), m)
    <3>1. TAKE i \in 1 .. n
    <3>2. i - 1 \in 0 .. (2 * Len(m) + 3)
      BY <1>1, <2>1
    <3>3. QED
      BY <1>1, <3>2, CarCdrSound
  <2>4. n \in Nat /\ ListArgs(v, m) \in [1 .. n -> Values]
    BY <1>1, <2>1, <2>2, <2>3 DEF Sound
  <2>5. ListArgs(v, m) \in Seq(Values) /\ DOMAIN ListArgs(v, m) = 1 .. n
    BY <2>4, FunctionIsSeq
  <2>6. QED
    BY <2>2, <2>3, <2>5 DEF AllSound
<1>4. QED
  BY <1>2, <1>3

-----------------------------------------------------------------------------
(* Sums and products, of the runtime (addxx, mulxx) and of the compiler    *)
(* (sly_add, sly_mul), taken together.                                     *)

Arith(op1, x, y) ==
    CASE op1 = "addxx" -> AddXX(x, y)    [] op1 = "mulxx" -> MulXX(x, y)
      [] op1 = "sly_add" -> SlyAdd(x, y) [] op1 = "sly_mul" -> SlyMul(x, y)

\* f folds the elements of q at the positions of any part of S into b.
IsFold(f, op1, b, q, S) ==
    f = [s \in SUBSET S |-> IF s = {} THEN b ELSE Arith(op1, f[s \ {Max(s)}], q[Max(s)])]

LEMMA FoldUpTo ==
    ASSUME NEW op1, NEW b, NEW q
    PROVE  \A k \in Nat : \E f : IsFold(f, op1, b, q, 1 .. k)
<1> DEFINE T == {k \in Nat : ~\E f : IsFold(f, op1, b, q, 1 .. k)}
<1>1. SUFFICES ASSUME T # {} PROVE FALSE
  OBVIOUS
<1>2. PICK k \in T : \A y \in T : k <= y
  BY <1>1, LeastNat
<1>3. CASE k = 0
  <2> DEFINE g == [s \in SUBSET (1 .. 0) |-> b]
  <2>1. \A s \in SUBSET (1 .. 0) : s = {}
    OBVIOUS
  <2>2. IsFold(g, op1, b, q, 1 .. 0)
    BY <2>1 DEF IsFold
  <2>3. QED
    BY <1>2, <1>3, <2>2
<1>4. CASE k # 0
  <2>1. k - 1 \in Nat /\ k - 1 \notin T
    BY <1>2, <1>4
  <2>2. PICK f : IsFold(f, op1, b, q, 1 .. k - 1)
    BY <2>1
  <2>3. \A s \in SUBSET (1 .. k - 1) :
           f[s] = IF s = {} THEN b ELSE Arith(op1, f[s \ {Max(s)}], q[Max(s)])
    BY <2>2 DEF IsFold
  <2> DEFINE g == [s \in SUBSET (1 .. k) |->
                     IF k \in s THEN Arith(op1, f[s \ {k}], q[k]) ELSE f[s]]
  <2>4. ASSUME NEW s \in SUBSET (1 .. k)
        PROVE  g[s] = IF s = {} THEN b ELSE Arith(op1, g[s \ {Max(s)}], q[Max(s)])
    <3>1. CASE k \in s
      <4>1. Max(s) = k
        <5>1. \A y \in s : k >= y
          BY <2>4
        <5>2. \A x \in s : (\A y \in s : x >= y) => x = k
          BY <2>4, <3>1
        <5>3. \E x \in s : \A y \in s : x >= y
          BY <3>1, <5>1
        <5>4. Max(s) \in s /\ \A y \in s : Max(s) >= y
          BY <5>3, Zenon DEF Max
        <5>5. QED
          BY <5>2, <5>4
      <4>2. s \ {k} \in SUBSET (1 .. k) /\ k \notin s \ {k}
        OBVIOUS
      <4>3. g[s \ {k}] = f[s \ {k}]
        BY <4>2
      <4>4. QED
        BY <3>1, <4>1, <4>3
    <3>2. CASE k \notin s
      <4>1. s \in SUBSET (1 .. k - 1) /\ s \ {Max(s)} \in SUBSET (1 .. k - 1)
        <5>1. k \in Nat /\ \A x \in 1 .. k : x # k => x \in 1 .. k - 1
          OBVIOUS
        <5> HIDE DEF T, g
        <5>2. \A x \in s : x \in 1 .. k - 1
          BY <3>2, <5>1
        <5>3. QED
          BY <5>2
      <4>2. s \ {Max(s)} \in SUBSET (1 .. k) /\ k \notin s \ {Max(s)}
        BY <3>2
      <4>3. g[s \ {Max(s)}] = f[s \ {Max(s)}] /\ g[s] = f[s]
        BY <3>2, <4>2
      <4>4. QED
        BY <2>3, <4>1, <4>3
    <3>3. QED
      BY <3>1, <3>2
  <2>5. g = [s \in SUBSET (1 .. k) |-> g[s]]
    OBVIOUS
  <2>6. IsFold(g, op1, b, q, 1 .. k)
    <3> HIDE DEF g
    <3> QED BY <2>4, <2>5 DEF IsFold
  <2>7. QED
    BY <1>2, <2>6
<1>5. QED
  BY <1>3, <1>4

\* The last step of a fold over a nonempty sequence adds, or multiplies by,
\* an element of it.
LEMMA FoldLast ==
    ASSUME NEW S, NEW q \in Seq(S), q # <<>>, NEW b
    PROVE  /\ \E x, y : FoldLeft(AddXX, b, q) = AddXX(x, y)
           /\ \E x, y : FoldLeft(MulXX, b, q) = MulXX(x, y)
<1>1. Len(q) \in Nat /\ DOMAIN q = 1 .. Len(q) /\ 1 .. Len(q) # {}
  <2>1. Len(q) \in Nat /\ DOMAIN q = 1 .. Len(q) /\ Len(q) # 0
    BY EmptySeq
  <2>2. 1 \in 1 .. Len(q)
    BY <2>1
  <2>3. QED
    BY <2>1, <2>2
<1>2. PICK f : IsFold(f, "addxx", b, q, 1 .. Len(q))
  BY <1>1, FoldUpTo
<1>3. PICK g : IsFold(g, "mulxx", b, q, 1 .. Len(q))
  BY <1>1, FoldUpTo
<1>4. \E h : /\ FoldLeft(AddXX, b, q) = h[DOMAIN q]
             /\ h = [s \in SUBSET (DOMAIN q) |->
                       IF s = {} THEN b ELSE AddXX(h[s \ {Max(s)}], q[Max(s)])]
  <2>1. f = [s \in SUBSET (DOMAIN q) |->
                       IF s = {} THEN b ELSE AddXX(f[s \ {Max(s)}], q[Max(s)])]
    BY <1>1, <1>2 DEF IsFold, Arith
  <2>2. QED
    BY <2>1 DEF FoldLeft, MapThenFoldSet
<1>5. \E h : /\ FoldLeft(MulXX, b, q) = h[DOMAIN q]
             /\ h = [s \in SUBSET (DOMAIN q) |->
                       IF s = {} THEN b ELSE MulXX(h[s \ {Max(s)}], q[Max(s)])]
  <2>1. g = [s \in SUBSET (DOMAIN q) |->
                       IF s = {} THEN b ELSE MulXX(g[s \ {Max(s)}], q[Max(s)])]
    BY <1>1, <1>3 DEF IsFold, Arith
  <2>2. QED
    BY <2>1 DEF FoldLeft, MapThenFoldSet
<1>6. DOMAIN q \in SUBSET (DOMAIN q) /\ DOMAIN q # {}
  BY <1>1
<1>7. \E x, y : FoldLeft(AddXX, b, q) = AddXX(x, y)
  <2>1. PICK h : /\ FoldLeft(AddXX, b, q) = h[DOMAIN q]
                 /\ h = [s \in SUBSET (DOMAIN q) |->
                           IF s = {} THEN b ELSE AddXX(h[s \ {Max(s)}], q[Max(s)])]
    BY <1>4
  <2>2. h[DOMAIN q] = AddXX(h[(DOMAIN q) \ {Max(DOMAIN q)}], q[Max(DOMAIN q)])
    BY <1>6, <2>1
  <2>3. QED
    BY <2>1, <2>2
<1>8. \E x, y : FoldLeft(MulXX, b, q) = MulXX(x, y)
  <2>1. PICK h : /\ FoldLeft(MulXX, b, q) = h[DOMAIN q]
                 /\ h = [s \in SUBSET (DOMAIN q) |->
                           IF s = {} THEN b ELSE MulXX(h[s \ {Max(s)}], q[Max(s)])]
    BY <1>5
  <2>2. h[DOMAIN q] = MulXX(h[(DOMAIN q) \ {Max(DOMAIN q)}], q[Max(DOMAIN q)])
    BY <1>6, <2>1
  <2>3. QED
    BY <2>1, <2>2
<1>9. QED
  BY <1>7, <1>8

\* Arithmetic makes numbers, or stops the program.
Numeric(v) == v[1] \in {"int", "flo", "error"}

LEMMA ArithmeticNumeric ==
    \A x, y : /\ Numeric(AddXX(x, y)) /\ Numeric(SubXX(x, y))
              /\ Numeric(MulXX(x, y)) /\ Numeric(DivXX(x, y))
<1>1. Numeric(Error) /\ \A n : Numeric(Integer(n))
  BY DEF Numeric, Error, Integer
<1>2. \A n, d : Numeric(Float(n, d))
  BY DEF Numeric, Float
<1>3. \A n, max : Numeric(Boxed(n, max))
  BY <1>1 DEF Boxed
<1>4. ASSUME NEW x, NEW y, NEW max, IsNumber(x), IsNumber(y)
      PROVE  Numeric(Plus(x, y, max)) /\ Numeric(Times(x, y, max)) /\ Numeric(Over(x, y))
  <2>1. Numeric(x) /\ Numeric(NaN)
    BY <1>4 DEF Numeric, NaN, IsNumber, Is
  <2>2. QED
    BY <1>2, <1>3, <2>1 DEF Plus, Times, Over
<1>5. ASSUME NEW x, NEW y, NEW max
      PROVE  Numeric(Plus(Float(Num(x), Den(x)), Float(-Num(y), Den(y)), max))
  <2>1. Numeric(NaN) /\ \A n, d : Numeric(Float(n, d))
    BY <1>2 DEF Numeric, NaN
  <2>2. QED
    BY <1>3, <2>1 DEF Plus
<1>6. ASSUME NEW x, NEW y, NEW max
      PROVE  Numeric(Minus(x, y, max))
  BY <1>3, <1>5 DEF Minus
<1>7. QED
  BY <1>1, <1>4, <1>6 DEF AddXX, SubXX, MulXX, DivXX

LEMMA NumericRefers ==
    ASSUME NEW v, Numeric(v), NEW m
    PROVE  Refers(v, m)
BY DEF Numeric, Refers, References

LEMMA ReboxedRefers ==
    ASSUME NEW v, NEW m
    PROVE  Refers(Reboxed(v), m)
BY DEF Reboxed, Refers, References, Integer, Junk, Error

LEMMA SumsRefer ==
    ASSUME NEW s \in Seq(Values), NEW m
    PROVE  /\ Refers(Sum(s), m) /\ Refers(Product(s), m)
           /\ Refers(Difference(s), m) /\ Refers(Quotient(s), m)
<1>1. Refers(Error, m) /\ \A n : Refers(Integer(n), m)
  BY DEF Refers, References, Error, Integer
<1>2. CASE Len(s) = 0 \/ Len(s) = 1
  BY <1>1, <1>2, ReboxedRefers, ArithmeticNumeric, NumericRefers DEF Sum, Product, Difference, Quotient
<1>3. CASE Len(s) # 0 /\ Len(s) # 1
  <2>1. s # <<>> /\ Len(s) > 1 /\ Len(s) \in Nat
    <3>1. Len(s) \in Nat /\ (s = <<>> <=> Len(s) = 0)
      BY EmptySeq
    <3>2. QED
      BY <1>3, <3>1
  <2>2. Tail(s) \in Seq(Values) /\ Tail(s) # <<>>
    <3>1. Tail(s) \in Seq(Values) /\ Len(Tail(s)) = Len(s) - 1
      BY <2>1
    <3>2. Len(Tail(s)) # 0
      BY <2>1, <3>1
    <3>3. QED
      BY <3>1, <3>2, EmptySeq
  <2>3. Numeric(FoldLeft(AddXX, Head(s), Tail(s))) /\ Numeric(FoldLeft(MulXX, Head(s), Tail(s)))
    BY <2>2, FoldLast, ArithmeticNumeric
  <2>4. Sum(s) = FoldLeft(AddXX, Head(s), Tail(s)) /\ Product(s) = FoldLeft(MulXX, Head(s), Tail(s))
    BY <1>3 DEF Sum, Product
  <2>5. Numeric(Difference(s)) /\ Numeric(Quotient(s))
    BY <1>3, ArithmeticNumeric DEF Difference, Quotient
  <2>6. QED
    BY <2>3, <2>4, <2>5, NumericRefers
<1>4. QED
  BY <1>2, <1>3

-----------------------------------------------------------------------------
(* What a primitive does to the memory.                                    *)

Object == [tag : References, cells : Seq(Values)]

\* Cells with only vectors that are older than id.
Older(cells, id) == \A i \in DOMAIN cells : Is("vector", cells[i]) => cells[i][2] < id

\* The object id: its cells fit its type and refer to objects of m.
Formed(o, id, m) ==
    /\ o \in Object
    /\ o.tag = "pair" => Len(o.cells) = 2
    /\ o.tag = "record" => Len(o.cells) >= 1
    /\ o.tag = "vector" => Older(o.cells, id)
    /\ \A i \in DOMAIN o.cells : Refers(o.cells[i], m)

LEMMA WellMadeFacts ==
    ASSUME NEW m
    PROVE  WellMade(m) <=> m \in Seq(Object) /\ \A id \in DOMAIN m : Formed(m[id], id, m)
<1>1. m \in Seq(Object) => \A id \in DOMAIN m : m[id] \in Object
  <2> HIDE DEF Object
  <2> QED OBVIOUS
<1>2. QED
  BY <1>1 DEF WellMade, Formed, Older, Object

\* n has all the objects of m, each with the type it had.
Grows(m, n) ==
    /\ Len(m) \in Nat /\ DOMAIN m = 1 .. Len(m)
    /\ Len(n) \in Nat /\ DOMAIN n = 1 .. Len(n) /\ Len(m) <= Len(n)
    /\ \A id \in DOMAIN m : n[id].tag = m[id].tag

LEMMA GrowsKeeps ==
    ASSUME NEW m, NEW n, Grows(m, n)
    PROVE  /\ \A v : Refers(v, m) => Refers(v, n)
           /\ \A v : Sound(v, m) => Sound(v, n)
           /\ \A s : AllSound(s, m) => AllSound(s, n)
           /\ \A o, id : Formed(o, id, m) => Formed(o, id, n)
<1>1. \A id \in DOMAIN m : id \in DOMAIN n
  BY DEF Grows
<1>2. \A v : Refers(v, m) => Refers(v, n)
  BY <1>1 DEF Grows, Refers
<1>3. QED
  BY <1>2 DEF Sound, AllSound, Formed

\* The outcome of a primitive is good if its memory, its value and what it
\* leaves on the stack are.
Good(o, m) ==
    /\ WellMade(o.mem) /\ Grows(m, o.mem)
    /\ Refers(o.val, o.mem)
    /\ AllSound(o.left, o.mem)

LEMMA EmptySound ==
    ASSUME NEW m
    PROVE  AllSound(<<>>, m)
BY DEF AllSound

LEMMA OutGood ==
    ASSUME NEW m, WellMade(m), NEW v, Refers(v, m), NEW s, AllSound(s, m)
    PROVE  /\ Good(Out(v, s, m), m) /\ Good(Out(v, <<>>, m), m)
           /\ Good(Fails(m), m) /\ Good(Wild(m), m)
<1>1. Grows(m, m)
  BY DEF Grows, WellMade
<1>2. Refers(Error, m) /\ Refers(Chaos, m)
  BY NoReference DEF Error, Chaos
<1>3. QED
  BY <1>1, <1>2, EmptySound DEF Good, Out, Fails, Wild

\* Adding well formed objects.
LEMMA AddingGood ==
    ASSUME NEW m, WellMade(m), NEW n \in Seq(Object), Grows(m, n),
           \A id \in DOMAIN m : n[id] = m[id],
           \A id \in DOMAIN n : id > Len(m) => Formed(n[id], id, n)
    PROVE  WellMade(n)
<1>1. \A id \in DOMAIN m : Formed(n[id], id, n)
  BY WellMadeFacts, GrowsKeeps
<1>2. \A id \in DOMAIN n : id \in DOMAIN m \/ id > Len(m)
  BY DEF Grows
<1>3. QED
  BY <1>1, <1>2, WellMadeFacts

LEMMA FreshGood ==
    ASSUME NEW m, WellMade(m), NEW t \in References, NEW cells, AllSound(cells, m),
           t = "pair" => Len(cells) = 2, t = "record" => Len(cells) >= 1
    PROVE  Good(Fresh(t, cells, m), m)
<1> DEFINE o == [tag |-> t, cells |-> cells]
           n == Append(m, o)
<1>1. o \in Object /\ m \in Seq(Object)
  BY WellMadeFacts DEF AllSound, Object
<1>2. /\ n \in Seq(Object) /\ Len(m) \in Nat /\ DOMAIN m = 1 .. Len(m)
      /\ Len(n) = Len(m) + 1 /\ DOMAIN n = 1 .. Len(m) + 1
      /\ \A i \in 1 .. Len(m) : n[i] = m[i]
      /\ n[Len(m) + 1] = o
  <2> HIDE DEF o, Object
  <2> QED BY <1>1, AppendFacts
<1>3. Grows(m, n)
  <2> HIDE DEF o, n
  <2> QED BY <1>2 DEF Grows
<1>4. Formed(o, Len(m) + 1, n)
  <2>1. \A i \in DOMAIN cells : Refers(cells[i], n)
    BY <1>3, GrowsKeeps DEF AllSound, Sound
  <2>2. Older(cells, Len(m) + 1)
    <3>1. \A i \in DOMAIN cells : Is("vector", cells[i]) => cells[i][2] \in 1 .. Len(m)
      BY <1>2 DEF AllSound, Sound, Refers, Is, References
    <3>2. \A k \in 1 .. Len(m) : k < Len(m) + 1
      BY <1>2
    <3>3. QED
      BY <3>1, <3>2 DEF Older
  <2>3. QED
    BY <1>1, <2>1, <2>2 DEF Formed
<1>5. WellMade(n)
  <2>1. \A id \in DOMAIN n : id > Len(m) => id = Len(m) + 1
    <3> HIDE DEF n
    <3> QED BY <1>2
  <2>2. \A id \in DOMAIN n : id > Len(m) => Formed(n[id], id, n)
    <3> HIDE DEF o, n
    <3> QED BY <1>2, <1>4, <2>1
  <2>3. QED
    <3> HIDE DEF o, n
    <3> QED BY <1>2, <1>3, <2>2, AddingGood
<1>6. Refers(<<t, Len(m) + 1>>, n)
  <2>1. Len(m) + 1 \in DOMAIN n /\ n[Len(m) + 1].tag = t
    <3>1. Len(m) + 1 \in DOMAIN n /\ n[Len(m) + 1] = o
      <4> HIDE DEF n, o
      <4> QED BY <1>2
    <3>2. QED
      BY <3>1
  <2> HIDE DEF n
  <2> QED BY <2>1 DEF Refers
<1>7. Fresh(t, cells, m) = [val |-> <<t, Len(m) + 1>>, left |-> <<>>, mem |-> n]
  BY DEF Fresh, Out
<1>8. QED
  <2> HIDE DEF n
  <2> QED BY <1>3, <1>5, <1>6, <1>7, EmptySound DEF Good

\* Writing a cell of an object that is not a vector.
LEMMA WriteGood ==
    ASSUME NEW m, WellMade(m), NEW v, Sound(v, m), v[1] \in References, v[1] # "vector",
           NEW i \in 1 .. Len(Cells(v, m)), NEW x, Sound(x, m)
    PROVE  Good(WriteCell(v, i, x, m), m)
<1> DEFINE id == v[2]
           cs == [m[id].cells EXCEPT ![i] = x]
           n == [m EXCEPT ![id].cells[i] = x]
<1>1. /\ id \in DOMAIN m /\ m[id] \in Object /\ Formed(m[id], id, m)
      /\ DOMAIN m = 1 .. Len(m) /\ Len(m) \in Nat
      /\ m[id].cells \in Seq(Values) /\ i \in DOMAIN m[id].cells
  <2>1. id \in DOMAIN m /\ Cells(v, m) \in Seq(Values)
    BY CellsFacts
  <2>2. m \in Seq(Object) /\ Formed(m[id], id, m) /\ m[id] \in Object
    BY <2>1, WellMadeFacts DEF Formed
  <2>3. DOMAIN m = 1 .. Len(m) /\ Len(m) \in Nat
    <3> HIDE DEF Object
    <3> QED BY <2>2
  <2>4. i \in DOMAIN m[id].cells /\ m[id].cells \in Seq(Values)
    BY <2>1 DEF Cells
  <2>5. QED
    BY <2>1, <2>2, <2>3, <2>4
<1>2. x \in Values /\ Refers(x, m)
  BY DEF Sound
<1>3. cs \in Seq(Values) /\ Len(cs) = Len(m[id].cells) /\ DOMAIN cs = DOMAIN m[id].cells
      /\ \A j \in DOMAIN cs : cs[j] = IF j = i THEN x ELSE m[id].cells[j]
  BY <1>1, <1>2
<1>4. n = [j \in DOMAIN m |-> IF j = id THEN [tag |-> m[id].tag, cells |-> cs] ELSE m[j]]
  <2>1. n = [j \in DOMAIN m |-> IF j = id THEN [m[id] EXCEPT !.cells = cs] ELSE m[j]]
    OBVIOUS
  <2>2. [m[id] EXCEPT !.cells = cs] = [tag |-> m[id].tag, cells |-> cs]
    <3>1. m[id] \in [tag : References, cells : Seq(Values)]
      BY <1>1 DEF Object
    <3> HIDE DEF cs, id
    <3> QED BY <3>1
  <2> HIDE DEF n, cs
  <2>3. QED
    BY <2>1, <2>2
<1> HIDE DEF n, cs
<1>5. \A j \in DOMAIN m : Formed(n[j], j, m) /\ n[j].tag = m[j].tag
  <2>1. TAKE j \in DOMAIN m
  <2>2. CASE j = id
    <3>1. n[j] = [tag |-> m[id].tag, cells |-> cs]
      BY <1>4, <2>2
    <3>2. n[j] \in Object /\ n[j].tag = m[j].tag /\ n[j].cells = cs
      BY <1>1, <1>3, <2>2, <3>1 DEF Object
    <3>3. \A h \in DOMAIN cs : Refers(cs[h], m)
      BY <1>1, <1>2, <1>3 DEF Formed
    <3>4. n[j].tag # "vector"
      BY <2>2, <3>2 DEF Sound, Refers
    <3>5. QED
      BY <1>1, <1>3, <2>2, <3>2, <3>3, <3>4 DEF Formed
  <2>3. CASE j # id
    BY <1>4, <2>3, WellMadeFacts
  <2>4. QED
    BY <2>2, <2>3
<1>6. n \in Seq(Object) /\ Len(n) = Len(m) /\ DOMAIN n = DOMAIN m
  <2>1. \A j \in DOMAIN m : n[j] \in Object
    BY <1>5 DEF Formed
  <2>2. n \in [1 .. Len(m) -> Object]
    <3> HIDE DEF Object
    <3> QED BY <1>1, <1>4, <2>1
  <2>3. QED
    BY <1>1, <2>2, FunctionIsSeq
<1>7. Grows(m, n)
  BY <1>1, <1>5, <1>6 DEF Grows
<1>8. WellMade(n)
  BY <1>5, <1>6, <1>7, GrowsKeeps, WellMadeFacts
<1>9. Refers(Void, n)
  BY NoReference DEF Void
<1>10. WriteCell(v, i, x, m) = [val |-> Void, left |-> <<>>, mem |-> n]
  BY DEF WriteCell, Out, n
<1>11. QED
  BY <1>7, <1>8, <1>9, <1>10, EmptySound DEF Good

-----------------------------------------------------------------------------
(* Sequences of sound values.                                              *)

SoundValues(m) == {v \in Values : Refers(v, m)}

LEMMA AllSoundSeq ==
    ASSUME NEW m, NEW s
    PROVE  AllSound(s, m) <=> s \in Seq(SoundValues(m))
<1>1. \A v : v \in SoundValues(m) <=> Sound(v, m)
  BY DEF SoundValues, Sound
<1>2. ASSUME AllSound(s, m) PROVE s \in Seq(SoundValues(m))
  <2>1. s \in Seq(Values) /\ \A i \in DOMAIN s : s[i] \in SoundValues(m)
    BY <1>1, <1>2 DEF AllSound
  <2>2. Len(s) \in Nat /\ s \in [1 .. Len(s) -> SoundValues(m)]
    BY <2>1
  <2>3. QED
    BY <2>2, FunctionIsSeq
<1>3. ASSUME s \in Seq(SoundValues(m)) PROVE AllSound(s, m)
  <2>1. \A i \in DOMAIN s : s[i] \in SoundValues(m)
    BY <1>3
  <2>2. Len(s) \in Nat /\ s \in [1 .. Len(s) -> Values]
    BY <1>3, <2>1 DEF SoundValues
  <2>3. s \in Seq(Values)
    BY <2>2, FunctionIsSeq
  <2>4. QED
    BY <1>1, <2>1, <2>3 DEF AllSound
<1>4. QED
  BY <1>2, <1>3

LEMMA ConcatSound ==
    ASSUME NEW m, NEW s, NEW t, AllSound(s, m), AllSound(t, m)
    PROVE  AllSound(s \o t, m)
<1>1. s \in Seq(SoundValues(m)) /\ t \in Seq(SoundValues(m))
  BY AllSoundSeq
<1>2. s \o t \in Seq(SoundValues(m))
  BY <1>1, ConcatProperties
<1>3. QED
  BY <1>2, AllSoundSeq

LEMMA SubSeqSound ==
    ASSUME NEW m, NEW s, AllSound(s, m), NEW a \in Nat, a >= 1, NEW b \in Nat, b <= Len(s)
    PROVE  AllSound(SubSeq(s, a, b), m)
<1>1. s \in Seq(SoundValues(m))
  BY AllSoundSeq
<1>2. \A i \in a .. b : s[i] \in SoundValues(m)
  <2>1. \A i \in a .. b : i \in 1 .. Len(s)
    BY <1>1
  <2>2. QED
    BY <1>1, <2>1
<1>3. SubSeq(s, a, b) \in Seq(SoundValues(m))
  BY <1>2, SubSeqProperties
<1>4. QED
  BY <1>3, AllSoundSeq

\* n copies of a sound value.
LEMMA FilledSound ==
    ASSUME NEW m, NEW n \in Nat, NEW x, Sound(x, m)
    PROVE  AllSound([i \in 1 .. n |-> x], m) /\ Len([i \in 1 .. n |-> x]) = n
<1>1. x \in SoundValues(m)
  BY DEF Sound, SoundValues
<1>2. [i \in 1 .. n |-> x] \in [1 .. n -> SoundValues(m)]
  BY <1>1
<1>3. QED
  BY <1>2, FunctionIsSeq, AllSoundSeq

LEMMA PairSound ==
    ASSUME NEW m, NEW x, NEW y, Sound(x, m), Sound(y, m)
    PROVE  AllSound(<<x>>, m) /\ AllSound(<<x, y>>, m) /\ Len(<<x, y>>) = 2
<1>1. x \in SoundValues(m) /\ y \in SoundValues(m)
  BY DEF Sound, SoundValues
<1>2. <<x>> \in Seq(SoundValues(m)) /\ <<x, y>> \in Seq(SoundValues(m)) /\ Len(<<x, y>>) = 2
  BY <1>1
<1>3. QED
  BY <1>2, AllSoundSeq

-----------------------------------------------------------------------------
(* The primitives, by kind.                                                *)

LEMMA CompareGood ==
    ASSUME NEW m, WellMade(m), NEW s, AllSound(s, m), NEW rel
    PROVE  Good(Compare(rel, s, m), m)
<1> DEFINE i == Break(rel, s)
           stop == {j \in 1 .. (Len(s) - 1) :
                      ~(IsNumber(s[j]) /\ IsNumber(s[j + 1]) /\ RelXX(rel, s[j], s[j + 1]))}
<1>1. Refers(True, m) /\ Refers(False, m) /\ Refers(Error, m)
  BY ImmediatesSound DEF Sound
<1>2. Len(s) \in Nat
  BY DEF AllSound
<1>3. i # 0 => i \in 1 .. (Len(s) - 1)
  <2>1. CASE stop = {}
    BY <2>1 DEF Break
  <2>2. CASE stop # {}
    <3>1. stop \subseteq Nat
      BY <1>2
    <3>2. \E j \in stop : \A k \in stop : j <= k
      <4> HIDE DEF stop
      <4> QED BY <2>2, <3>1, LeastNat
    <3>3. i = CHOOSE j \in stop : \A k \in stop : j <= k
      BY <2>2 DEF Break
    <3>4. i \in stop
      <4> HIDE DEF stop, i
      <4> QED BY <3>2, <3>3
    <3>5. QED
      BY <3>4
  <2>3. QED
    BY <2>1, <2>2
<1>4. i # 0 => AllSound(SubSeq(s, i + 2, Len(s)), m)
  <2> HIDE DEF i
  <2>1. i # 0 => i + 2 \in Nat /\ i + 2 >= 1 /\ Len(s) <= Len(s)
    BY <1>2, <1>3
  <2>2. QED
    BY <1>2, <2>1, SubSeqSound
<1> HIDE DEF i
<1>5. \/ \E v \in {True, Error} : Compare(rel, s, m) = Out(v, <<>>, m)
      \/ i # 0 /\ Compare(rel, s, m) = Out(False, SubSeq(s, i + 2, Len(s)), m)
      \/ Compare(rel, s, m) = Fails(m)
  BY DEF Compare, i
<1>6. QED
  BY <1>1, <1>4, <1>5, OutGood, EmptySound

LEMMA MakeFilledGood ==
    ASSUME NEW m, WellMade(m), NEW s, AllSound(s, m), NEW t \in {"vector", "bytevector"}, NEW ok
    PROVE  Good(MakeFilled(t, s, m, ok), m)
<1>1. Good(Fails(m), m) /\ Good(Wild(m), m)
  BY OutGood, ImmediatesSound, EmptySound DEF Sound
<1>2. CASE Len(s) = 0 \/ ~Is("int", s[1]) \/ s[1][2] < 0
  BY <1>1, <1>2 DEF MakeFilled
<1>3. CASE ~(Len(s) = 0 \/ ~Is("int", s[1]) \/ s[1][2] < 0)
  <2> DEFINE n == s[1][2]
  <2>1. Len(s) \in Nat /\ Len(s) >= 1 /\ \A i \in 1 .. Len(s) : Sound(s[i], m)
    BY <1>3 DEF AllSound
  <2>2. n \in Nat
    <3>1. s[1] \in Values
      BY <2>1 DEF Sound
    <3>2. n \in Int
      BY <1>3, <3>1, ValueFacts
    <3>3. QED
      BY <1>3, <3>2
  <2>3. t \in References /\ t # "pair" /\ t # "record"
    BY DEF References
  <2> HIDE DEF n
  <2>4. CASE Len(s) = 1
    <3>1. Sound(Junk, m)
      BY ImmediatesSound
    <3>2. Good(Fresh(t, [i \in 1 .. n |-> Junk], m), m)
      BY <2>2, <2>3, <3>1, FilledSound, FreshGood
    <3>3. MakeFilled(t, s, m, ok) = Fresh(t, [i \in 1 .. n |-> Junk], m)
      BY <1>3, <2>4 DEF MakeFilled, n
    <3>4. QED
      BY <3>2, <3>3
  <2>5. CASE Len(s) # 1 /\ ok
    <3> DEFINE o == Fresh(t, [i \in 1 .. n |-> s[2]], m)
    <3>1. Sound(s[2], m)
      <4>1. 2 \in 1 .. Len(s)
        BY <2>1, <2>5
      <4>2. QED
        BY <2>1, <4>1
    <3>2. Good(o, m)
      BY <2>2, <2>3, <3>1, FilledSound, FreshGood
    <3>3. AllSound(SubSeq(s, 3, Len(s)), m)
      BY <2>1, SubSeqSound
    <3>4. Grows(m, o.mem) /\ AllSound(SubSeq(s, 3, Len(s)), o.mem)
      BY <3>2, <3>3, GrowsKeeps DEF Good
    <3>5. MakeFilled(t, s, m, ok) = [o EXCEPT !.left = SubSeq(s, 3, Len(s))]
      BY <1>3, <2>5 DEF MakeFilled, n
    <3>6. /\ [o EXCEPT !.left = SubSeq(s, 3, Len(s))].mem = o.mem
          /\ [o EXCEPT !.left = SubSeq(s, 3, Len(s))].val = o.val
          /\ [o EXCEPT !.left = SubSeq(s, 3, Len(s))].left = SubSeq(s, 3, Len(s))
      BY DEF Fresh, Out
    <3> HIDE DEF o
    <3>7. QED
      BY <3>2, <3>4, <3>5, <3>6 DEF Good
  <2>6. CASE Len(s) # 1 /\ ~ok
    BY <1>1, <1>3, <2>6 DEF MakeFilled
  <2>7. QED
    BY <2>4, <2>5, <2>6
<1>4. QED
  BY <1>2, <1>3

LEMMA ListGood ==
    ASSUME NEW m, WellMade(m), NEW s, AllSound(s, m)
    PROVE  Good(List(s, m), m)
<1> DEFINE len == Len(m)
           link(i) == IF i = 1 THEN Null ELSE <<"pair", len + i - 1>>
           pair(i) == [tag |-> "pair", cells |-> <<s[Len(s) + 1 - i], link(i)>>]
           pairs == [i \in 1 .. Len(s) |-> pair(i)]
           n == m \o pairs
<1>1. /\ m \in Seq(Object) /\ len \in Nat /\ DOMAIN m = 1 .. len
      /\ Len(s) \in Nat /\ \A i \in 1 .. Len(s) : Sound(s[i], m)
  <2>1. m \in Seq(Object)
    BY WellMadeFacts
  <2>2. len \in Nat /\ DOMAIN m = 1 .. len
    <3> HIDE DEF Object
    <3> QED BY <2>1
  <2>3. QED
    BY <2>1, <2>2 DEF AllSound
<1>2. \A i \in 1 .. Len(s) : Sound(s[Len(s) + 1 - i], m)
  <2>1. \A i \in 1 .. Len(s) : Len(s) + 1 - i \in 1 .. Len(s)
    BY <1>1
  <2>2. QED
    BY <1>1, <2>1
<1>3. \A i \in 1 .. Len(s) : link(i) \in Values
  <2>1. Null \in Values
    BY Immediates
  <2>2. \A k \in Nat : <<"pair", k>> \in Values
    BY DEF Values, References
  <2>3. \A i \in 1 .. Len(s) : len + i - 1 \in Nat
    BY <1>1
  <2>4. QED
    BY <2>1, <2>2, <2>3
<1> HIDE DEF len, link
<1>4. \A i \in 1 .. Len(s) :
         /\ pair(i) \in Object /\ pair(i).tag = "pair"
         /\ Len(pair(i).cells) = 2 /\ DOMAIN pair(i).cells = 1 .. 2
         /\ pair(i).cells[1] = s[Len(s) + 1 - i] /\ pair(i).cells[2] = link(i)
  <2>1. TAKE i \in 1 .. Len(s)
  <2>2. s[Len(s) + 1 - i] \in Values /\ link(i) \in Values
    BY <1>2, <1>3 DEF Sound
  <2>3. <<s[Len(s) + 1 - i], link(i)>> \in Seq(Values)
    BY <2>2
  <2>4. "pair" \in References
    BY DEF References
  <2>5. QED
    BY <2>3, <2>4 DEF Object
<1> HIDE DEF pair
<1>5. pairs \in Seq(Object) /\ Len(pairs) = Len(s)
  <2>1. pairs \in [1 .. Len(s) -> Object]
    <3> HIDE DEF Object
    <3> QED BY <1>4
  <2>2. QED
    BY <1>1, <2>1, FunctionIsSeq
<1>6. /\ n \in Seq(Object) /\ Len(n) = len + Len(s) /\ DOMAIN n = 1 .. (len + Len(s))
      /\ \A id \in 1 .. (len + Len(s)) : n[id] = IF id <= len THEN m[id] ELSE pair(id - len)
  <2> HIDE DEF Object
  <2>1. /\ n \in Seq(Object) /\ Len(n) = len + Len(pairs)
        /\ \A id \in 1 .. len + Len(pairs) : n[id] = IF id <= len THEN m[id] ELSE pairs[id - len]
    <3> HIDE DEF pairs
    <3> QED BY <1>1, <1>5, ConcatProperties DEF len
  <2>2. DOMAIN n = 1 .. (len + Len(s))
    <3> HIDE DEF n, pairs
    <3> QED BY <1>1, <1>5, <2>1
  <2>3. \A id \in 1 .. (len + Len(s)) : ~(id <= len) => id - len \in 1 .. Len(s)
    BY <1>1
  <2>4. \A i \in 1 .. Len(s) : pairs[i] = pair(i)
    OBVIOUS
  <2> HIDE DEF n, pairs
  <2>5. QED
    BY <1>5, <2>1, <2>2, <2>3, <2>4
<1> HIDE DEF n, pairs
<1>7. \A id \in DOMAIN m : id \in 1 .. (len + Len(s)) /\ n[id] = m[id]
  BY <1>1, <1>6
<1>8. Grows(m, n)
  <2>1. len + Len(s) \in Nat /\ len <= len + Len(s)
    BY <1>1
  <2>2. QED
    BY <1>1, <1>6, <1>7, <2>1 DEF Grows, len
<1>9. ASSUME NEW i \in 1 .. Len(s) PROVE \A id : Formed(pair(i), id, n)
  <2>1. Refers(s[Len(s) + 1 - i], n)
    BY <1>2, <1>8, GrowsKeeps DEF Sound
  <2>2. Refers(link(i), n)
    <3>1. CASE i = 1
      BY <3>1, NoReference DEF link, Null
    <3>2. CASE i # 1
      <4> DEFINE id == len + i - 1
      <4>1. /\ id \in 1 .. (len + Len(s)) /\ ~(id <= len)
            /\ id - len = i - 1 /\ i - 1 \in 1 .. Len(s)
        BY <1>1, <3>2
      <4> HIDE DEF id
      <4>2. n[id].tag = "pair" /\ id \in DOMAIN n
        <5>1. n[id] = pair(id - len)
          BY <1>6, <4>1
        <5>2. pair(id - len).tag = "pair"
          BY <1>4, <4>1
        <5>3. QED
          BY <1>6, <4>1, <5>1, <5>2
      <4>3. Refers(<<"pair", id>>, n)
        BY <4>2 DEF Refers
      <4>4. QED
        BY <3>2, <4>3 DEF link, id
    <3>3. QED
      BY <3>1, <3>2
  <2>3. \A j \in DOMAIN pair(i).cells : j = 1 \/ j = 2
    BY <1>4
  <2>4. \A j \in DOMAIN pair(i).cells : Refers(pair(i).cells[j], n)
    BY <1>4, <2>1, <2>2, <2>3
  <2>5. QED
    BY <1>4, <2>4 DEF Formed
<1>10. \A id \in DOMAIN n : id > Len(m) => Formed(n[id], id, n)
  <2>1. SUFFICES ASSUME NEW id \in 1 .. (len + Len(s)), id > len PROVE Formed(n[id], id, n)
    BY <1>6 DEF len
  <2>2. id - len \in 1 .. Len(s) /\ n[id] = pair(id - len)
    BY <1>1, <1>6, <2>1
  <2>3. QED
    BY <1>9, <2>2
<1>11. WellMade(n)
  BY <1>6, <1>7, <1>8, <1>10, AddingGood
<1>12. List(s, m) = [val |-> Void, left |-> <<>>, mem |-> n]
  BY DEF List, Out, n, pairs, pair, link, len
<1>13. Refers(Void, n)
  BY NoReference DEF Void
<1>14. QED
  BY <1>8, <1>11, <1>12, <1>13, EmptySound DEF Good

LEMMA VectorSetGood ==
    ASSUME NEW m, WellMade(m), NEW s, AllSound(s, m)
    PROVE  Good(VectorSet(s, m), m)
<1>1. Good(Fails(m), m) /\ Good(Wild(m), m)
  BY OutGood, EmptySound, ImmediatesSound DEF Sound
<1>2. QED
  BY <1>1 DEF VectorSet

\* A primitive that only computes a value which is no reference.
LEMMA ValueGood ==
    ASSUME NEW m, WellMade(m), NEW v,
           v[1] \in {"int", "char", "bool", "void", "error", "chaos", "flo"}
    PROVE  Good(Out(v, <<>>, m), m) /\ Good(Fails(m), m)
<1>1. Refers(v, m)
  BY NoReference
<1>2. QED
  BY <1>1, OutGood, EmptySound

LEMMA FailsGood ==
    ASSUME NEW m, WellMade(m)
    PROVE  Good(Fails(m), m) /\ Good(Wild(m), m)
<1>1. Error[1] = "error" /\ Chaos[1] = "chaos"
  BY DEF Error, Chaos
<1>2. QED
  BY <1>1, ValueGood DEF Wild

LEMMA PredicatesGood ==
    ASSUME NEW m, WellMade(m), NEW s, NEW x, NEW t
    PROVE  /\ Good(AgainstZero(x, s, m), m)
           /\ Good(Two(s, m, x), m)
           /\ Good(TypeP(x, s, m), m)
           /\ Good(NumberP(s, m), m)
           /\ Good(ListP(s, m), m)
           /\ Good(Length(s, m), m)
           /\ Good(CellCount(t, s, m), m)
           /\ Good(Miscounted(s, m), m)
           /\ Good(Convert(t, "int", s, m), m)
           /\ Good(Convert(t, "char", s, m), m)
<1>1. \A p : Bool(p)[1] = "bool" /\ Raw(p)[1] = "flo" /\ Integer(p)[1] = "int"
  BY DEF Bool, Raw, Integer
<1>2. \A p : /\ Good(Out(Bool(p), <<>>, m), m) /\ Good(Out(Raw(p), <<>>, m), m)
             /\ Good(Out(Integer(p), <<>>, m), m)
  BY <1>1, ValueGood
<1>3. \A p : Good(Out(<<"int", p>>, <<>>, m), m) /\ Good(Out(<<"char", p>>, <<>>, m), m)
  BY ValueGood
<1>4. Good(Fails(m), m)
  BY FailsGood
<1>5. Good(AgainstZero(x, s, m), m)
  BY <1>2, <1>4 DEF AgainstZero
<1>6. Good(Two(s, m, x), m) /\ Good(TypeP(x, s, m), m) /\ Good(NumberP(s, m), m)
  BY <1>2, <1>4 DEF Two, TypeP, NumberP
<1>7. Good(ListP(s, m), m) /\ Good(Length(s, m), m)
  BY <1>2, <1>4 DEF ListP, Length
<1>8. Good(CellCount(t, s, m), m) /\ Good(Miscounted(s, m), m)
  BY <1>2, <1>4 DEF CellCount, Miscounted
<1>9. Good(Convert(t, "int", s, m), m) /\ Good(Convert(t, "char", s, m), m)
  BY <1>3, <1>4 DEF Convert
<1>10. QED
  BY <1>5, <1>6, <1>7, <1>8, <1>9

\* A primitive that reads or writes the cell k behind the one its index
\* argument names.
LEMMA CellAt ==
    ASSUME NEW m, WellMade(m), NEW s, AllSound(s, m), Len(s) >= 2,
           NEW t \in References, NEW k \in {1, 2},
           Is(t, s[1]), Is("int", s[2]), s[2][2] \in 0 .. (Len(Cells(s[1], m)) - k)
    PROVE  /\ Sound(s[1], m) /\ s[1][1] \in References
           /\ s[2][2] + k \in 1 .. Len(Cells(s[1], m))
           /\ Sound(Cells(s[1], m)[s[2][2] + k], m)
<1>1. Len(s) \in Nat /\ \A i \in 1 .. Len(s) : Sound(s[i], m)
  BY DEF AllSound
<1>2. 1 \in 1 .. Len(s)
  BY <1>1
<1>3. Sound(s[1], m) /\ s[1][1] \in References
  BY <1>1, <1>2 DEF Is
<1>4. Len(Cells(s[1], m)) \in Nat /\ \A i \in 1 .. Len(Cells(s[1], m)) : Sound(Cells(s[1], m)[i], m)
  BY <1>3, CellsFacts
<1>5. s[2][2] + k \in 1 .. Len(Cells(s[1], m))
  BY <1>4
<1>6. QED
  BY <1>3, <1>4, <1>5

LEMMA ReadsGood ==
    ASSUME NEW m, WellMade(m), NEW s, AllSound(s, m)
    PROVE  /\ Good(VectorRef(s, m), m)
           /\ Good(BytevectorRef(s, m), m)
           /\ Good(RecordRef(s, m), m)
           /\ Good(RecordMetaRef(s, m), m)
           /\ Good(ListRef(s, m), m)
<1>1. Good(Fails(m), m)
  BY FailsGood
<1>2. {"vector", "bytevector", "record"} \subseteq References
  BY DEF References
<1>3. \A v : Sound(v, m) => Good(Out(v, <<>>, m), m)
  BY OutGood, EmptySound DEF Sound
<1>4. Good(VectorRef(s, m), m)
  <2>1. \A v : Good(Out(Reboxed(v), <<>>, m), m)
    BY ReboxedRefers, OutGood, EmptySound
  <2>2. QED
    BY <1>1, <2>1 DEF VectorRef
<1>5. Good(BytevectorRef(s, m), m)
  <2>1. CASE Len(s) = 2 /\ Index("bytevector", s, m)
    <3>1. Sound(Cells(s[1], m)[s[2][2] + 1], m)
      <4> DEFINE k == 1
      <4>1. /\ Is("bytevector", s[1]) /\ Is("int", s[2]) /\ s[2][2] \in 0 .. (Len(Cells(s[1], m)) - k)
            /\ k \in {1, 2} /\ "bytevector" \in References /\ Len(s) >= 2
        BY <1>2, <2>1 DEF Index
      <4>2. /\ Sound(s[1], m) /\ s[1][1] \in References
            /\ s[2][2] + k \in 1 .. Len(Cells(s[1], m))
            /\ Sound(Cells(s[1], m)[s[2][2] + k], m)
        <5> HIDE DEF k
        <5> QED BY <4>1, CellAt
      <4>3. QED
        BY <4>2
    <3>2. QED
      BY <1>3, <2>1, <3>1 DEF BytevectorRef
  <2>2. CASE ~(Len(s) = 2 /\ Index("bytevector", s, m))
    BY <1>1, <2>2 DEF BytevectorRef
  <2>3. QED
    BY <2>1, <2>2
<1>6. Good(RecordRef(s, m), m)
  <2>1. CASE Len(s) = 2 /\ FieldOf(s, m)
    <3>1. Sound(Cells(s[1], m)[s[2][2] + 2], m)
      <4> DEFINE k == 2
      <4>1. /\ Is("record", s[1]) /\ Is("int", s[2]) /\ s[2][2] \in 0 .. (Len(Cells(s[1], m)) - k)
            /\ k \in {1, 2} /\ "record" \in References /\ Len(s) >= 2
        BY <1>2, <2>1 DEF FieldOf
      <4>2. /\ Sound(s[1], m) /\ s[1][1] \in References
            /\ s[2][2] + k \in 1 .. Len(Cells(s[1], m))
            /\ Sound(Cells(s[1], m)[s[2][2] + k], m)
        <5> HIDE DEF k
        <5> QED BY <4>1, CellAt
      <4>3. QED
        BY <4>2
    <3>2. QED
      BY <1>3, <2>1, <3>1 DEF RecordRef
  <2>2. CASE ~(Len(s) = 2 /\ FieldOf(s, m))
    BY <1>1, <2>2 DEF RecordRef
  <2>3. QED
    BY <2>1, <2>2
<1>7. Good(RecordMetaRef(s, m), m)
  <2>1. CASE Len(s) = 1 /\ Is("record", s[1])
    <3>1. Sound(s[1], m)
      BY <2>1 DEF AllSound
    <3>2. s[1][1] \in References
      BY <1>2, <2>1 DEF Is
    <3>3. /\ Len(Cells(s[1], m)) \in Nat /\ Len(Cells(s[1], m)) >= 1
          /\ \A i \in 1 .. Len(Cells(s[1], m)) : Sound(Cells(s[1], m)[i], m)
      BY <2>1, <3>1, <3>2, CellsFacts
    <3>4. Sound(Cells(s[1], m)[1], m)
      BY <3>3
    <3>5. QED
      BY <1>3, <2>1, <3>4 DEF RecordMetaRef
  <2>2. CASE ~(Len(s) = 1 /\ Is("record", s[1]))
    BY <1>1, <2>2 DEF RecordMetaRef
  <2>3. QED
    BY <2>1, <2>2
<1>8. Good(ListRef(s, m), m)
  <2> DEFINE idx == s[2][2] % Word
             at == CdrsTo(idx, s[1], m)[idx]
  <2>1. CASE Len(s) = 2 /\ Is("int", s[2]) /\ Is("pair", at)
    <3>1. Sound(s[1], m) /\ s[2] \in Values
      BY <2>1 DEF AllSound, Sound
    <3>2. s[2][2] \in Int
      BY <2>1, <3>1, ValueFacts
    <3>3. idx \in Nat
      BY <3>2, BoundsAssumption
    <3> HIDE DEF idx
    <3>4. Sound(CdrsTo(idx, s[1], m)[idx], m)
      BY <3>1, <3>3, CdrsToSound
    <3>5. Sound(Car(at, m), m)
      BY <3>4, CarCdrSound
    <3>6. QED
      BY <1>3, <2>1, <3>5 DEF ListRef, idx
  <2>2. CASE ~(Len(s) = 2 /\ Is("int", s[2]) /\ Is("pair", at))
    BY <1>1, <2>2 DEF ListRef
  <2>3. QED
    BY <2>1, <2>2
<1>9. QED
  BY <1>4, <1>5, <1>6, <1>7, <1>8

LEMMA WritesGood ==
    ASSUME NEW m, WellMade(m), NEW s, AllSound(s, m)
    PROVE  /\ \A i \in {1, 2} : Good(SetPair(i, s, m), m)
           /\ Good(BytevectorSet(s, m), m)
           /\ Good(RecordSet(s, m), m)
           /\ Good(RecordMetaSet(s, m), m)
<1>1. Good(Fails(m), m)
  BY FailsGood
<1>2. {"pair", "vector", "bytevector", "record"} \subseteq References
  BY DEF References
<1>3. ASSUME NEW i \in {1, 2} PROVE Good(SetPair(i, s, m), m)
  <2>1. CASE Len(s) = 2 /\ Is("pair", s[1])
    <3>1. Sound(s[1], m) /\ Sound(s[2], m)
      BY <2>1 DEF AllSound
    <3>2. s[1][1] \in References /\ s[1][1] # "vector"
      BY <1>2, <2>1 DEF Is
    <3>3. Len(Cells(s[1], m)) = 2
      BY <2>1, <3>1, <3>2, CellsFacts
    <3>4. i \in 1 .. Len(Cells(s[1], m))
      BY <3>3
    <3>5. Good(WriteCell(s[1], i, s[2], m), m)
      BY <3>1, <3>2, <3>4, WriteGood
    <3>6. QED
      BY <2>1, <3>5 DEF SetPair
  <2>2. CASE ~(Len(s) = 2 /\ Is("pair", s[1]))
    BY <1>1, <2>2 DEF SetPair
  <2>3. QED
    BY <2>1, <2>2
<1>4. Len(s) = 3 => Sound(s[3], m)
  BY DEF AllSound
<1>5. Good(BytevectorSet(s, m), m)
  <2>1. CASE Len(s) = 3 /\ Index("bytevector", s, m) /\ IsByte(s[3])
    <3>1. Sound(s[1], m) /\ s[1][1] \in References /\ s[2][2] + 1 \in 1 .. Len(Cells(s[1], m))
      <4> DEFINE k == 1
      <4>1. /\ Is("bytevector", s[1]) /\ Is("int", s[2]) /\ s[2][2] \in 0 .. (Len(Cells(s[1], m)) - k)
            /\ k \in {1, 2} /\ "bytevector" \in References /\ Len(s) >= 2
        BY <1>2, <2>1 DEF Index
      <4>2. /\ Sound(s[1], m) /\ s[1][1] \in References
            /\ s[2][2] + k \in 1 .. Len(Cells(s[1], m))
            /\ Sound(Cells(s[1], m)[s[2][2] + k], m)
        <5> HIDE DEF k
        <5> QED BY <4>1, CellAt
      <4>3. QED
        BY <4>2
    <3>2. Good(WriteCell(s[1], s[2][2] + 1, s[3], m), m)
      BY <1>4, <2>1, <3>1, WriteGood DEF Index, Is
    <3>3. QED
      BY <2>1, <3>2 DEF BytevectorSet
  <2>2. CASE ~(Len(s) = 3 /\ Index("bytevector", s, m) /\ IsByte(s[3]))
    BY <1>1, <2>2 DEF BytevectorSet
  <2>3. QED
    BY <2>1, <2>2
<1>6. Good(RecordSet(s, m), m)
  <2>1. CASE Len(s) = 3 /\ FieldOf(s, m)
    <3>1. Sound(s[1], m) /\ s[1][1] \in References /\ s[2][2] + 2 \in 1 .. Len(Cells(s[1], m))
      <4> DEFINE k == 2
      <4>1. /\ Is("record", s[1]) /\ Is("int", s[2]) /\ s[2][2] \in 0 .. (Len(Cells(s[1], m)) - k)
            /\ k \in {1, 2} /\ "record" \in References /\ Len(s) >= 2
        BY <1>2, <2>1 DEF FieldOf
      <4>2. /\ Sound(s[1], m) /\ s[1][1] \in References
            /\ s[2][2] + k \in 1 .. Len(Cells(s[1], m))
            /\ Sound(Cells(s[1], m)[s[2][2] + k], m)
        <5> HIDE DEF k
        <5> QED BY <4>1, CellAt
      <4>3. QED
        BY <4>2
    <3>2. Good(WriteCell(s[1], s[2][2] + 2, s[3], m), m)
      BY <1>4, <2>1, <3>1, WriteGood DEF FieldOf, Is
    <3>3. QED
      BY <2>1, <3>2 DEF RecordSet
  <2>2. CASE ~(Len(s) = 3 /\ FieldOf(s, m))
    BY <1>1, <2>2 DEF RecordSet
  <2>3. QED
    BY <2>1, <2>2
<1>7. Good(RecordMetaSet(s, m), m)
  <2>1. CASE Len(s) = 2 /\ Is("record", s[1])
    <3>1. Sound(s[1], m) /\ Sound(s[2], m)
      BY <2>1 DEF AllSound
    <3>2. s[1][1] \in References /\ s[1][1] # "vector"
      BY <1>2, <2>1 DEF Is
    <3>3. Len(Cells(s[1], m)) \in Nat /\ Len(Cells(s[1], m)) >= 1
      BY <2>1, <3>1, <3>2, CellsFacts
    <3>4. 1 \in 1 .. Len(Cells(s[1], m))
      BY <3>3
    <3>5. Good(WriteCell(s[1], 1, s[2], m), m)
      BY <3>1, <3>2, <3>4, WriteGood
    <3>6. QED
      BY <2>1, <3>5 DEF RecordMetaSet
  <2>2. CASE ~(Len(s) = 2 /\ Is("record", s[1]))
    BY <1>1, <2>2 DEF RecordMetaSet
  <2>3. QED
    BY <2>1, <2>2
<1>8. QED
  BY <1>3, <1>5, <1>6, <1>7

-----------------------------------------------------------------------------
(* Every primitive.                                                        *)

LEMMA MakeRecordGood ==
    ASSUME NEW m, WellMade(m), NEW s, AllSound(s, m)
    PROVE  Good(MakeRecord(s, m), m)
<1>1. CASE ~(Len(s) # 2 \/ ~Is("int", s[1]) \/ s[1][2] < 0)
  <2> DEFINE n == s[1][2]
             fields == [i \in 1 .. n |-> Junk]
  <2>1. Sound(s[1], m) /\ Sound(s[2], m)
    BY <1>1 DEF AllSound
  <2>2. n \in Nat
    BY <1>1, <2>1, ValueFacts DEF Sound
  <2>3. AllSound(fields, m) /\ Len(fields) = n
    BY <2>2, ImmediatesSound, FilledSound
  <2>4. AllSound(<<s[2]>>, m) /\ Len(<<s[2]>>) = 1
    BY <2>1, PairSound
  <2> HIDE DEF n, fields
  <2>5. AllSound(<<s[2]>> \o fields, m) /\ Len(<<s[2]>> \o fields) >= 1
    <3>1. AllSound(<<s[2]>> \o fields, m)
      BY <2>3, <2>4, ConcatSound
    <3>2. Len(<<s[2]>> \o fields) = 1 + n
      <4>1. <<s[2]>> \in Seq(Values) /\ fields \in Seq(Values)
        BY <2>3, <2>4 DEF AllSound
      <4>2. Len(<<s[2]>> \o fields) = Len(<<s[2]>>) + Len(fields)
        BY <4>1, ConcatProperties
      <4>3. QED
        BY <2>3, <2>4, <4>2
    <3>3. QED
      BY <2>2, <3>1, <3>2
  <2>6. "record" \in References /\ "record" # "pair"
    BY DEF References
  <2>7. Good(Fresh("record", <<s[2]>> \o fields, m), m)
    BY <2>5, <2>6, FreshGood
  <2>8. QED
    BY <1>1, <2>7 DEF MakeRecord, fields, n
<1>2. CASE Len(s) # 2 \/ ~Is("int", s[1]) \/ s[1][2] < 0
  BY <1>2, FailsGood DEF MakeRecord
<1>3. QED
  BY <1>1, <1>2

\* Whatever the arguments, a primitive leaves a memory of well formed
\* objects that are still of the types they had, and returns and leaves on
\* the stack only references to them.
LEMMA PrimGood ==
    ASSUME NEW m, WellMade(m), NEW s, AllSound(s, m), NEW n \in Primitives
    PROVE  Good(Prim(n, s, m), m)
<1>1. Good(Fails(m), m)
  BY FailsGood
<1>2. CASE n \in {"+", "*", "-", "/"}
  <2>1. Prim(n, s, m) \in
           {Out(Sum(s), <<>>, m),
            Out(Product(s), <<>>, m),
            Out(Difference(s), <<>>, m),
            Out(Quotient(s), <<>>, m)}
    BY <1>2 DEF Prim, Comparisons, TypeOf
  <2>2. s \in Seq(Values)
    BY DEF AllSound
  <2>3. /\ Refers(Sum(s), m) /\ Refers(Product(s), m)
        /\ Refers(Difference(s), m) /\ Refers(Quotient(s), m)
    BY <2>2, SumsRefer
  <2>4. \A v : Refers(v, m) => Good(Out(v, <<>>, m), m)
    BY OutGood, EmptySound
  <2>5. QED
    BY <2>1, <2>3, <2>4
<1>3. CASE n \in Comparisons
  <2>1. Prim(n, s, m) = Compare(n, s, m)
    BY <1>3 DEF Prim, Comparisons, TypeOf
  <2>2. QED
    BY <2>1, CompareGood
<1>4. CASE n \in {"zero?", "positive?", "negative?"}
  <2>1. Prim(n, s, m) \in
           {AgainstZero("=", s, m),
            AgainstZero(">", s, m),
            AgainstZero("<", s, m)}
    BY <1>4 DEF Prim, Comparisons, TypeOf
  <2>2. QED
    BY <2>1, PredicatesGood
<1>5. CASE n \in {"1+", "1-", "string?"}
  <2>1. Prim(n, s, m) = Miscounted(s, m)
    BY <1>5 DEF Prim, Comparisons, TypeOf
  <2>2. QED
    BY <2>1, PredicatesGood
<1>6. CASE n \in {"list?", "length", "number?"}
  <2>1. Prim(n, s, m) \in
           {ListP(s, m),
            Length(s, m),
            NumberP(s, m)}
    BY <1>6 DEF Prim, Comparisons, TypeOf
  <2>2. QED
    BY <2>1, PredicatesGood
<1>7. CASE n \in {"vector-length", "bytevector-length"}
  <2>1. Prim(n, s, m) \in
           {CellCount("vector", s, m),
            CellCount("bytevector", s, m)}
    BY <1>7 DEF Prim, Comparisons, TypeOf
  <2>2. QED
    BY <2>1, PredicatesGood
<1>8. CASE n \in {"eq?", "eqv?", "equal?"}
  <2>1. Prim(n, s, m) \in
           {Two(s, m, Eq(s[1], s[2])),
            Two(s, m, Eqv(s[1], s[2])),
            Two(s, m, Equal(s[1], s[2], m))}
    BY <1>8 DEF Prim, Comparisons, TypeOf
  <2>2. QED
    BY <2>1, PredicatesGood
<1>9. CASE n \in DOMAIN TypeOf
  <2>1. Prim(n, s, m) = TypeP(n, s, m)
    BY <1>9 DEF Prim, Comparisons, TypeOf
  <2>2. QED
    BY <2>1, PredicatesGood
<1>10. CASE n \in {"char->integer", "integer->char"}
  <2>1. Prim(n, s, m) \in
           {Convert("char", "int", s, m),
            Convert("int", "char", s, m)}
    BY <1>10 DEF Prim, Comparisons, TypeOf
  <2>2. QED
    BY <2>1, PredicatesGood
<1>11. CASE n = "void"
  <2>1. Prim(n, s, m) = Out(Void, s, m)
    BY <1>11 DEF Prim, Comparisons, TypeOf
  <2>2. Refers(Void, m)
    BY NoReference DEF Void
  <2>3. QED
    BY <2>1, <2>2, OutGood
<1>12. CASE n \in {"cons", "vector", "bytevector"}
  <2>1. Prim(n, s, m) \in
           {Fails(m),
            Fresh("vector", s, m),
            Fresh("bytevector", s, m),
            IF Len(s) = 2 THEN Fresh("pair", s, m) ELSE Fails(m)}
    BY <1>12 DEF Prim, Comparisons, TypeOf
  <2>2. {"pair", "vector", "bytevector"} \subseteq References
    BY DEF References
  <2>3. Good(Fresh("vector", s, m), m) /\ Good(Fresh("bytevector", s, m), m)
    BY <2>2, FreshGood
  <2>4. Good(IF Len(s) = 2 THEN Fresh("pair", s, m) ELSE Fails(m), m)
    BY <1>1, <2>2, FreshGood
  <2>5. QED
    BY <1>1, <2>1, <2>3, <2>4
<1>13. CASE n \in {"car", "cdr"}
  <2>1. Prim(n, s, m) \in
           {IF Len(s) = 1 THEN Out(Car(s[1], m), <<>>, m) ELSE Fails(m),
            IF Len(s) = 1 THEN Out(Cdr(s[1], m), <<>>, m) ELSE Fails(m)}
    BY <1>13 DEF Prim, Comparisons, TypeOf
  <2>2. Len(s) = 1 => Sound(s[1], m)
    BY DEF AllSound
  <2>3. Len(s) = 1 => Refers(Car(s[1], m), m) /\ Refers(Cdr(s[1], m), m)
    BY <2>2, CarCdrSound DEF Sound
  <2>4. \A v : Refers(v, m) => Good(Out(v, <<>>, m), m)
    BY OutGood, EmptySound
  <2>5. QED
    BY <1>1, <2>1, <2>3, <2>4
<1>14. CASE n \in {"set-car!", "set-cdr!", "bytevector-u8-set!", "record-set!", "record-meta-set!"}
  <2>1. Prim(n, s, m) \in
           {SetPair(1, s, m),
            SetPair(2, s, m),
            BytevectorSet(s, m),
            RecordSet(s, m),
            RecordMetaSet(s, m)}
    BY <1>14 DEF Prim, Comparisons, TypeOf
  <2>2. QED
    BY <2>1, WritesGood
<1>15. CASE n \in {"vector-ref", "bytevector-u8-ref", "record-ref", "record-meta-ref", "list-ref"}
  <2>1. Prim(n, s, m) \in
           {VectorRef(s, m),
            BytevectorRef(s, m),
            RecordRef(s, m),
            RecordMetaRef(s, m),
            ListRef(s, m)}
    BY <1>15 DEF Prim, Comparisons, TypeOf
  <2>2. QED
    BY <2>1, ReadsGood
<1>16. CASE n \in {"list", "vector-set!", "make-record"}
  <2>1. Prim(n, s, m) \in
           {List(s, m),
            VectorSet(s, m),
            MakeRecord(s, m)}
    BY <1>16 DEF Prim, Comparisons, TypeOf
  <2>2. QED
    BY <2>1, ListGood, VectorSetGood, MakeRecordGood
<1>17. CASE n \in {"make-vector", "make-bytevector"}
  <2>1. Prim(n, s, m) \in
           {MakeFilled("vector", s, m, TRUE),
            MakeFilled("bytevector", s, m, Len(s) > 1 /\ IsByte(s[2]))}
    BY <1>17 DEF Prim, Comparisons, TypeOf
  <2>2. QED
    BY <2>1, MakeFilledGood
<1>18. QED
  BY <1>2, <1>3, <1>4, <1>5, <1>6, <1>7, <1>8, <1>9, <1>10,
     <1>11, <1>12, <1>13, <1>14, <1>15, <1>16, <1>17 DEF Primitives

\* What a producer called without arguments can return.
LEMMA ProducerValue ==
    ASSUME NEW m, WellMade(m), NEW n \in Primitives
    PROVE  Prim(n, <<>>, m).val \in Values \ {Junk}
<1>1. Len(m) \in Nat /\ Len(<<>>) = 0 /\ DOMAIN <<>> = {}
  BY DEF WellMade
<1>2. {Integer(0), Integer(1), True, Void, Error} \subseteq Values \ {Junk}
  BY Immediates DEF Integer, True, Bool, Void, Error, Junk
<1>3. <<"vector", Len(m) + 1>> \in Values \ {Junk} /\ <<"bytevector", Len(m) + 1>> \in Values \ {Junk}
  BY <1>1 DEF Values, References, Junk
<1>4. \A v, l : Out(v, l, m).val = v /\ Fails(m).val = Error
  BY DEF Out, Fails
<1>5. CASE n \in {"+", "*", "-", "/"}
  <2>1. Prim(n, <<>>, m) \in {Out(Integer(0), <<>>, m), Out(Integer(1), <<>>, m), Out(Error, <<>>, m)}
    <3>1. Sum(<<>>) = Integer(0) /\ Product(<<>>) = Integer(1)
      BY <1>1 DEF Sum, Product
    <3>2. Difference(<<>>) = Error /\ Quotient(<<>>) = Error
      BY <1>1 DEF Difference, Quotient
    <3>3. Prim(n, <<>>, m) \in {Out(Sum(<<>>), <<>>, m), Out(Product(<<>>), <<>>, m),
                                Out(Difference(<<>>), <<>>, m), Out(Quotient(<<>>), <<>>, m)}
      BY <1>5 DEF Prim, Comparisons, TypeOf
    <3>4. QED
      BY <3>1, <3>2, <3>3
  <2>2. QED
    BY <1>2, <1>4, <2>1
<1>6. CASE n \in Comparisons
  <2>1. Prim(n, <<>>, m) = Compare(n, <<>>, m)
    BY <1>6 DEF Prim, Comparisons, TypeOf
  <2>2. Compare(n, <<>>, m) = Out(True, <<>>, m)
    BY <1>1 DEF Compare
  <2>3. QED
    BY <1>2, <1>4, <2>1, <2>2
<1>7. CASE n \in {"void", "list"}
  <2>1. Prim(n, <<>>, m) = Out(Void, <<>>, m) \/ Prim(n, <<>>, m) = List(<<>>, m)
    BY <1>7 DEF Prim, Comparisons, TypeOf
  <2>2. List(<<>>, m).val = Void
    BY DEF List, Out
  <2>3. QED
    BY <1>2, <1>4, <2>1, <2>2
<1>8. CASE n \in {"vector", "bytevector"}
  <2>1. \/ Prim(n, <<>>, m) = Fresh("vector", <<>>, m)
        \/ Prim(n, <<>>, m) = Fresh("bytevector", <<>>, m)
    BY <1>1, <1>8 DEF Prim, Comparisons, TypeOf
  <2>2. \A t : Fresh(t, <<>>, m).val = <<t, Len(m) + 1>>
    BY DEF Fresh, Out
  <2>3. QED
    BY <1>3, <2>1, <2>2
<1>9. CASE n \in {"zero?", "positive?", "negative?", "1+", "1-", "string?", "cons", "car", "cdr",
                  "set-car!", "set-cdr!", "list?", "length", "list-ref", "number?"}
  <2>1. Prim(n, <<>>, m) = Fails(m)
    <3>1. \A x : AgainstZero(x, <<>>, m) = Fails(m) /\ SetPair(x, <<>>, m) = Fails(m)
      BY <1>1 DEF AgainstZero, SetPair
    <3>2. Miscounted(<<>>, m) = Fails(m) /\ ListP(<<>>, m) = Fails(m) /\ Length(<<>>, m) = Fails(m)
      BY <1>1 DEF Miscounted, ListP, Length
    <3>3. ListRef(<<>>, m) = Fails(m) /\ NumberP(<<>>, m) = Fails(m)
      BY <1>1 DEF ListRef, NumberP
    <3>4. Prim(n, <<>>, m) \in
             {AgainstZero("=", <<>>, m), AgainstZero(">", <<>>, m), AgainstZero("<", <<>>, m),
              Miscounted(<<>>, m), SetPair(1, <<>>, m), SetPair(2, <<>>, m), ListP(<<>>, m),
              Length(<<>>, m), ListRef(<<>>, m), NumberP(<<>>, m), Fails(m)}
      <4>1. CASE n \in {"cons", "car", "cdr"}
        <5>1. Prim(n, <<>>, m) \in
                 {IF Len(<<>>) = 2 THEN Fresh("pair", <<>>, m) ELSE Fails(m),
                  IF Len(<<>>) = 1 THEN Out(Car(<<>>[1], m), <<>>, m) ELSE Fails(m),
                  IF Len(<<>>) = 1 THEN Out(Cdr(<<>>[1], m), <<>>, m) ELSE Fails(m)}
          BY <4>1 DEF Prim, Comparisons, TypeOf
        <5>2. QED
          BY <1>1, <5>1
      <4>2. CASE n \notin {"cons", "car", "cdr"}
        BY <1>9, <4>2 DEF Prim, Comparisons, TypeOf
      <4>3. QED
        BY <4>1, <4>2
    <3>5. QED
      BY <3>1, <3>2, <3>3, <3>4
  <2>2. QED
    BY <1>2, <1>4, <2>1
<1>10. CASE n \in {"make-vector", "vector-length", "vector-ref", "vector-set!", "make-bytevector",
                   "bytevector-length", "bytevector-u8-ref", "bytevector-u8-set!"}
  <2>1. Prim(n, <<>>, m) = Fails(m)
    BY <1>1, <1>10 DEF Prim, Comparisons, TypeOf, MakeFilled, CellCount, VectorRef, VectorSet,
                       BytevectorRef, BytevectorSet
  <2>2. QED
    BY <1>2, <1>4, <2>1
<1>11. CASE n \in {"make-record", "record-ref", "record-set!", "record-meta-ref",
                   "record-meta-set!", "eq?", "eqv?", "equal?", "char->integer", "integer->char"}
  <2>1. Prim(n, <<>>, m) = Fails(m)
    <3>1. \A x, y : Two(<<>>, m, x) = Fails(m) /\ Convert(x, y, <<>>, m) = Fails(m)
      BY <1>1 DEF Two, Convert
    <3>2. MakeRecord(<<>>, m) = Fails(m) /\ RecordRef(<<>>, m) = Fails(m) /\ RecordSet(<<>>, m) = Fails(m)
      BY <1>1 DEF MakeRecord, RecordRef, RecordSet
    <3>3. RecordMetaRef(<<>>, m) = Fails(m) /\ RecordMetaSet(<<>>, m) = Fails(m)
      BY <1>1 DEF RecordMetaRef, RecordMetaSet
    <3>4. QED
      BY <1>11, <3>1, <3>2, <3>3 DEF Prim, Comparisons, TypeOf
  <2>2. QED
    BY <1>2, <1>4, <2>1
<1>12. CASE n \in DOMAIN TypeOf
  <2>1. Prim(n, <<>>, m) = TypeP(n, <<>>, m)
    BY <1>12 DEF Prim, Comparisons, TypeOf
  <2>2. TypeP(n, <<>>, m) = Fails(m)
    BY <1>1 DEF TypeP
  <2>3. QED
    BY <1>2, <1>4, <2>1, <2>2
<1>13. QED
  BY <1>5, <1>6, <1>7, <1>8, <1>9, <1>10, <1>11, <1>12 DEF Primitives

LEMMA ApplyGood ==
    ASSUME NEW m, WellMade(m), NEW s, AllSound(s, m)
    PROVE  Good(Apply(s, m), m)
<1> DEFINE rest == Tail(s)
           vals == IF rest = <<>> THEN <<>> ELSE Front(rest) \o ListArgs(Last(rest), m)
<1>1. CASE s = <<>> \/ ~Is("proc", s[1]) \/ Error \in ToSet(vals) \/ Len(vals) >= ArgStackLen
  BY <1>1, FailsGood DEF Apply, Spread
<1>2. CASE ~(s = <<>> \/ ~Is("proc", s[1]) \/ Error \in ToSet(vals) \/ Len(vals) >= ArgStackLen)
  <2>1. s \in Seq(SoundValues(m)) /\ s # <<>>
    BY <1>2, AllSoundSeq
  <2>2. rest \in Seq(SoundValues(m))
    BY <2>1, HeadTailProperties
  <2>3. s[1] \in SoundValues(m)
    <3>1. Len(s) \in Nat /\ Len(s) >= 1
      BY <2>1, EmptySeq
    <3>2. QED
      BY <2>1, <3>1
  <2>4. s[1][2] \in Primitives
    BY <1>2, <2>3, ValueFacts DEF SoundValues
  <2> HIDE DEF rest
  <2>5. AllSound(vals, m)
    <3>1. CASE rest = <<>>
      BY <3>1, EmptySound
    <3>2. CASE rest # <<>>
      <4>1. Front(rest) \in Seq(SoundValues(m)) /\ Last(rest) \in SoundValues(m)
        BY <2>2, <3>2, FrontFacts DEF Front, Last
      <4>2. AllSound(Front(rest), m)
        BY <4>1, AllSoundSeq
      <4>3. AllSound(ListArgs(Last(rest), m), m)
        BY <4>1, ListArgsSound DEF SoundValues, Sound
      <4>4. QED
        BY <3>2, <4>2, <4>3, ConcatSound
    <3>3. QED
      BY <3>1, <3>2
  <2> HIDE DEF vals
  <2>6. Good(Prim(s[1][2], vals, m), m)
    BY <2>4, <2>5, PrimGood
  <2>7. Apply(s, m) = Prim(s[1][2], vals, m)
    BY <1>2 DEF Apply, Spread, vals, rest
  <2>8. QED
    BY <2>6, <2>7
<1>3. QED
  BY <1>1, <1>2

LEMMA CallWithValuesGood ==
    ASSUME NEW m, WellMade(m), NEW s, AllSound(s, m)
    PROVE  Good(CallWithValues(s, m), m)
<1>1. CASE Len(s) # 2 \/ \E i \in DOMAIN s : ~Is("proc", s[i])
  BY <1>1, FailsGood DEF CallWithValues
<1>2. CASE ~(Len(s) # 2 \/ \E i \in DOMAIN s : ~Is("proc", s[i]))
  <2> DEFINE o == Prim(s[1][2], <<>>, m)
             t == <<o.val>> \o o.left
             o2 == Prim(s[2][2], t, o.mem)
  <2>1. s[1] \in Values /\ s[2] \in Values /\ Is("proc", s[1]) /\ Is("proc", s[2])
    <3>1. Len(s) = 2 /\ s \in Seq(Values) /\ \A i \in DOMAIN s : Is("proc", s[i])
      BY <1>2 DEF AllSound
    <3>2. 1 \in DOMAIN s /\ 2 \in DOMAIN s
      BY <3>1
    <3>3. s[1] \in Values /\ s[2] \in Values
      BY <3>1
    <3>4. Is("proc", s[1]) /\ Is("proc", s[2])
      BY <3>1, <3>2, Zenon
    <3>5. QED
      BY <3>3, <3>4
  <2>2. s[1][2] \in Primitives /\ s[2][2] \in Primitives
    BY <2>1, ValueFacts
  <2>3. Good(o, m) /\ o.val \in Values
    BY <2>2, EmptySound, PrimGood, ProducerValue
  <2> HIDE DEF o
  <2>4. AllSound(t, o.mem)
    <3>1. Sound(o.val, o.mem) /\ AllSound(o.left, o.mem)
      BY <2>3 DEF Good, Sound
    <3>2. QED
      BY <3>1, PairSound, ConcatSound
  <2>5. Good(o2, o.mem)
    <3> HIDE DEF t
    <3> QED BY <2>2, <2>3, <2>4, PrimGood DEF Good
  <2> HIDE DEF o2, t
  <2>6. Grows(m, o2.mem)
    <3>1. Grows(m, o.mem) /\ Grows(o.mem, o2.mem)
      BY <2>3, <2>5 DEF Good
    <3>2. \A id \in DOMAIN m : id \in DOMAIN o.mem
      BY <3>1 DEF Grows
    <3>3. QED
      BY <3>1, <3>2 DEF Grows
  <2>7. Good(o2, m)
    BY <2>5, <2>6 DEF Good
  <2>8. CallWithValues(s, m) = IF o.val \in {Error, Chaos} THEN o ELSE o2
    BY <1>2 DEF CallWithValues, o, o2, t
  <2>9. QED
    BY <2>3, <2>7, <2>8
<1>3. QED
  BY <1>1, <1>2

-----------------------------------------------------------------------------
(* The program.                                                            *)

\* The inductive invariant: TypeOK, with the shapes of the objects and the
\* kinds of the values that the next primitive relies on.
PrimsInv ==
    /\ program \in DOMAIN Programs
    /\ status \in {"run", "exit", "undefined"}
    /\ WellMade(mem)
    /\ Refers(res, mem)
    /\ AllSound(stk, mem)

\* The arguments of a program are sound, also on top of what an earlier
\* primitive left on the stack.
LEMMA ArgumentsSound ==
    ASSUME PrimsInv, NEW args \in Programs[program].arguments, Usable(args)
    PROVE  \A s \in Stacks(args) : AllSound(s, mem)
<1>1. args \in Seq(Values)
  BY ProgramsAssumption DEF PrimsInv
<1>2. \A i \in DOMAIN args : args[i] \in Values /\ Refers(args[i], mem)
  BY <1>1 DEF Usable, Value
<1>3. AllSound(args, mem)
  BY <1>1, <1>2 DEF AllSound, Sound
<1>4. AllSound(args \o stk, mem)
  BY <1>3, ConcatSound DEF PrimsInv
<1>5. QED
  BY <1>3, <1>4 DEF Stacks

\* A program goes on with a good outcome.
LEMMA ContinueKeeps ==
    ASSUME PrimsInv, NEW n, NEW args, NEW inline, NEW s, NEW o, NEW ok,
           Good(o, mem), Continue(n, args, inline, s, o, ok)
    PROVE  PrimsInv' /\ Grows(mem, mem')
<1>1. /\ program' = program /\ mem' = o.mem
      /\ status' \in {"run", "exit", "undefined"}
      /\ res' = o.val \/ res' = Error
      /\ stk' = o.left \/ stk' = <<>>
  BY DEF Continue
<1>2. WellMade(mem') /\ Grows(mem, mem') /\ Refers(o.val, mem') /\ AllSound(o.left, mem')
  BY <1>1 DEF Good
<1>3. Refers(Error, mem') /\ AllSound(<<>>, mem')
  BY NoReference, EmptySound DEF Error
<1>4. Refers(res', mem') /\ AllSound(stk', mem')
  BY <1>1, <1>2, <1>3
<1>5. QED
  BY <1>1, <1>2, <1>4 DEF PrimsInv

LEMMA InvInit ==
    ASSUME Init
    PROVE  PrimsInv
<1>1. program \in DOMAIN Programs /\ status = "run" /\ WellMade(mem)
  BY ProgramsAssumption DEF Init
<1>2. Refers(res, mem)
  BY NoReference DEF Init, Void
<1>3. AllSound(stk, mem)
  BY EmptySound DEF Init
<1>4. QED
  BY <1>1, <1>2, <1>3 DEF PrimsInv

LEMMA InvNext ==
    ASSUME PrimsInv, [Next]_vars
    PROVE  PrimsInv' /\ Grows(mem, mem')
<1>1. ASSUME NEW n \in Programs[program].primops, NEW args \in Programs[program].arguments,
             Primcall(n, args)
      PROVE  PrimsInv' /\ Grows(mem, mem')
  <2> DEFINE s == args \o stk
             o == Prim(n, s, mem)
             ok == Len(s) <= ArgStackLen /\ o.val \notin {Error, Chaos}
  <2>1. n \in Primitives
    BY ProgramsAssumption DEF PrimsInv, Inlined, Primitives, Comparisons
  <2>2. AllSound(s, mem)
    BY <1>1, ArgumentsSound DEF Primcall, Stacks
  <2>3. Good(o, mem)
    <3> HIDE DEF s
    <3> QED BY <2>1, <2>2, PrimGood DEF PrimsInv
  <2>4. Continue(n, args, TRUE, s, o, ok)
    BY <1>1 DEF Primcall
  <2> HIDE DEF o, ok
  <2>5. QED
    BY <2>3, <2>4, ContinueKeeps
<1>2. ASSUME NEW n \in Programs[program].procedures, NEW args \in Programs[program].arguments,
             NEW s \in Stacks(args), Call(n, args, s)
      PROVE  PrimsInv' /\ Grows(mem, mem')
  <2> DEFINE o == CASE n = "apply" -> Apply(s, mem)
                    [] n = "call-with-values" -> CallWithValues(s, mem)
                    [] OTHER -> Prim(n, s, mem)
             ok == Len(s) < ArgStackLen /\ o.val \notin {Error, Chaos} /\ o.left = <<>>
  <2>1. n \in Primitives \/ n = "apply" \/ n = "call-with-values"
    BY ProgramsAssumption DEF PrimsInv
  <2>2. AllSound(s, mem)
    BY <1>2, ArgumentsSound DEF Call
  <2>3. Good(o, mem)
    <3>1. WellMade(mem)
      BY DEF PrimsInv
    <3>2. CASE n = "apply"
      BY <2>2, <3>1, <3>2, ApplyGood
    <3>3. CASE n = "call-with-values"
      BY <2>2, <3>1, <3>3, CallWithValuesGood
    <3>4. CASE n # "apply" /\ n # "call-with-values"
      BY <2>1, <2>2, <3>1, <3>4, PrimGood
    <3>5. QED
      BY <3>2, <3>3, <3>4
  <2>4. Continue(n, args, FALSE, s, o, ok)
    BY <1>2 DEF Call
  <2> HIDE DEF o, ok
  <2>5. QED
    BY <2>3, <2>4, ContinueKeeps
<1>3. ASSUME UNCHANGED vars
      PROVE  PrimsInv' /\ Grows(mem, mem')
  <2>1. Grows(mem, mem)
    BY DEF PrimsInv, WellMade, Grows
  <2>2. QED
    BY <1>3, <2>1 DEF PrimsInv, vars
<1>4. ASSUME Astray
      PROVE  PrimsInv' /\ Grows(mem, mem')
  <2>1. Grows(mem, mem)
    BY DEF PrimsInv, WellMade, Grows
  <2>2. Refers(Error, mem) /\ AllSound(<<>>, mem)
    BY NoReference, EmptySound DEF Error
  <2>3. /\ mem' = mem /\ program' = program /\ status' = "undefined"
        /\ res' = Error /\ stk' = <<>>
    BY <1>4 DEF Astray
  <2>4. QED
    BY <2>1, <2>2, <2>3 DEF PrimsInv
<1>5. QED
  BY <1>1, <1>2, <1>3, <1>4 DEF Next, Exited

\* For every program and every memory it starts with, and whatever a
\* primitive leaves unwritten and the program then passes and stores: a
\* reference is to an object of its type (the tag checks of the primitives
\* suffice), also through apply, call-with-values and the arguments left on
\* the stack.  A primitive that writes outside the object it works on ends
\* the claim: from there the status is "undefined".
THEOREM TypeCorrect == Spec => []TypeOK
<1>1. PrimsInv => TypeOK
  <2>1. SUFFICES ASSUME PrimsInv PROVE TypeOK
    OBVIOUS
  <2>2. \A i \in DOMAIN stk : Value(stk[i])
    BY <2>1 DEF PrimsInv, AllSound, Sound, Value
  <2>3. \A id \in DOMAIN mem : \A i \in DOMAIN mem[id].cells : Value(mem[id].cells[i])
    BY <2>1 DEF PrimsInv, WellMade, Value
  <2>4. QED
    BY <2>1, <2>2, <2>3 DEF TypeOK, PrimsInv, Value
<1>2. Init => PrimsInv
  BY InvInit
<1>3. PrimsInv /\ [Next]_vars => PrimsInv'
  BY InvNext
<1>4. QED
  BY <1>1, <1>2, <1>3, PTL DEF Spec

\* A primitive never removes an object and never changes the type of one:
\* a reference stays good for as long as the program runs.
THEOREM TypesLast == Spec => [][Grows(mem, mem')]_vars
<1>1. Init => PrimsInv
  BY InvInit
<1>2. PrimsInv /\ [Next]_vars => PrimsInv'
  BY InvNext
<1>3. PrimsInv /\ [Next]_vars => [Grows(mem, mem')]_vars
  BY InvNext
<1>4. QED
  BY <1>1, <1>2, <1>3, PTL DEF Spec

-----------------------------------------------------------------------------
(* What a primitive leaves on the stack.                                   *)

LEMMA InlinedLeaves ==
    ASSUME NEW n \in Inlined, NEW s, NEW m, Prim(n, s, m).left # <<>>
    PROVE  n = "<" /\ Prim(n, s, m).val = False
<1>1. \A v, l : Out(v, l, m).left = l /\ Out(v, l, m).val = v
  BY DEF Out
<1>2. Fails(m).left = <<>> /\ \A t, c : Fresh(t, c, m).left = <<>>
  BY DEF Fails, Fresh, Out
<1>3. CASE n \in {"+", "-", "*", "/"}
  <2>1. Prim(n, s, m) \in {Out(Sum(s), <<>>, m), Out(Product(s), <<>>, m),
                          Out(Difference(s), <<>>, m), Out(Quotient(s), <<>>, m)}
    BY <1>3 DEF Prim, Comparisons, TypeOf
  <2>2. QED
    BY <1>1, <2>1
<1>4. CASE n = "cons"
  <2>1. Prim(n, s, m) = IF Len(s) = 2 THEN Fresh("pair", s, m) ELSE Fails(m)
    BY <1>4 DEF Prim, Comparisons, TypeOf
  <2>2. QED
    BY <1>2, <2>1
<1>5. CASE n = "<"
  <2>1. Prim(n, s, m) = Compare("<", s, m)
    BY <1>5 DEF Prim, Comparisons, TypeOf
  <2>2. \/ \E v : Compare("<", s, m) = Out(v, <<>>, m)
        \/ \E l : Compare("<", s, m) = Out(False, l, m)
        \/ Compare("<", s, m) = Fails(m)
    BY DEF Compare
  <2>3. QED
    BY <1>1, <1>2, <1>5, <2>1, <2>2
<1>6. QED
  BY <1>3, <1>4, <1>5 DEF Inlined

\* For every program: arguments of one primitive are on the stack of the
\* next only after an inlined "<" that was false before its last argument.
THEOREM Leftovers == Spec => []LeftoversExplained
<1> DEFINE Inv == program \in DOMAIN Programs /\ LeftoversExplained
<1>1. Init => Inv
  BY DEF Init, LeftoversExplained
<1>2. Inv /\ [Next]_vars => Inv'
  <2> SUFFICES ASSUME Inv, [Next]_vars PROVE Inv'
    OBVIOUS
  <2>1. ASSUME NEW n \in Programs[program].primops, NEW args, Primcall(n, args)
        PROVE  Inv'
    <3> DEFINE s == args \o stk
               o == Prim(n, s, mem)
               ok == Len(s) <= ArgStackLen /\ o.val \notin {Error, Chaos}
    <3>1. n \in Inlined
      BY ProgramsAssumption
    <3>2. /\ stk' = (IF ok THEN o.left ELSE <<>>) /\ res' = (IF ok THEN o.val ELSE Error)
          /\ op' = [name |-> n, args |-> args, inline |-> TRUE] /\ program' = program
      BY <2>1 DEF Primcall, Continue
    <3>3. o.left # <<>> => n = "<" /\ o.val = False
      BY <3>1, InlinedLeaves
    <3> HIDE DEF o, ok
    <3>4. ASSUME stk' # <<>> PROVE op'.name = "<" /\ op'.inline /\ res' = False
      BY <3>2, <3>3, <3>4
    <3>5. QED
      BY <3>2, <3>4 DEF LeftoversExplained
  <2>2. ASSUME NEW n, NEW args, NEW s, Call(n, args, s)
        PROVE  Inv'
    <3>1. stk' = <<>> /\ program' = program
      BY <2>2 DEF Call, Continue
    <3>2. QED
      BY <3>1 DEF LeftoversExplained
  <2>3. CASE UNCHANGED vars
    BY <2>3 DEF vars, LeftoversExplained
  <2>4. CASE Astray
    BY <2>4 DEF Astray, LeftoversExplained
  <2>5. QED
    BY <2>1, <2>2, <2>3, <2>4 DEF Next, Exited
<1>3. QED
  BY <1>1, <1>2, PTL DEF Spec

-----------------------------------------------------------------------------
(* list?                                                                   *)

\* For every memory a program can reach, circular and dotted chains of pairs
\* included: list? answers what the chain of cdrs is, and always answers.
THEOREM ListPIsExact == Spec => ListPExact
<1> DEFINE Exact == (op'.name = "list?" /\ res' # Error /\ Len(op'.args) = 1)
                      => res' = Bool(\E n \in 0 .. Len(mem) : Cdrs(op'.args[1], mem)[n] = Null)
<1>1. Init => PrimsInv
  BY InvInit
<1>2. PrimsInv /\ [Next]_vars => PrimsInv'
  BY InvNext
<1>3. PrimsInv /\ [Next]_vars => [Exact]_vars
  <2>1. SUFFICES ASSUME PrimsInv, Next PROVE Exact \/ UNCHANGED vars
    BY Zenon
  <2>2. ASSUME NEW n \in Programs[program].primops, NEW args, Primcall(n, args)
        PROVE  Exact
    <3>1. n # "list?" /\ op'.name = n
      BY <2>2, <2>1, ProgramsAssumption DEF PrimsInv, Inlined, Primcall, Continue
    <3>2. QED
      BY <3>1
  <2>3. ASSUME NEW n \in Programs[program].procedures, NEW args \in Programs[program].arguments,
               NEW s \in Stacks(args),
               Call(n, args, s), op'.name = "list?", res' # Error, Len(op'.args) = 1
        PROVE  res' = Bool(\E k \in 0 .. Len(mem) : Cdrs(op'.args[1], mem)[k] = Null)
    <3>1. op' = [name |-> n, args |-> args, inline |-> FALSE]
      BY <2>3 DEF Call, Continue
    <3>2. n = "list?" /\ op'.args = args /\ Len(args) = 1
      BY <2>3, <3>1
    <3>3. Prim(n, s, mem) = ListP(s, mem)
      BY <3>2 DEF Prim, Comparisons, TypeOf
    <3>4. res' = ListP(s, mem).val
      <4>1. res' = Prim(n, s, mem).val
        BY <2>3, <3>2 DEF Call, Continue
      <4>2. QED
        BY <3>3, <4>1
    <3>5. Len(s) = 1 /\ ListP(s, mem).val = Bool(Race(s[1], mem).list)
      BY <2>3, <3>4 DEF ListP, Out, Fails
    <3>6. AllSound(args, mem) /\ AllSound(stk, mem)
      BY <2>1, <2>3, ArgumentsSound DEF Call, PrimsInv, Stacks
    <3>7. s[1] = args[1] /\ Sound(args[1], mem)
      <4>1. args \in Seq(Values) /\ stk \in Seq(Values) /\ 1 \in 1 .. Len(args)
        BY <3>2, <3>6 DEF AllSound
      <4>2. \A i \in 1 .. Len(args) + Len(stk) : (args \o stk)[i] = IF i <= Len(args) THEN args[i] ELSE stk[i - Len(args)]
        BY <4>1, ConcatProperties
      <4>3. 1 \in 1 .. Len(args) + Len(stk) /\ 1 <= Len(args)
        BY <3>2, <4>1
      <4>4. Sound(args[1], mem)
        BY <3>6, <4>1 DEF AllSound
      <4>5. QED
        BY <2>3, <4>2, <4>3, <4>4 DEF Stacks
    <3>8. Race(args[1], mem).list = (\E k \in 0 .. Len(mem) : Cdrs(args[1], mem)[k] = Null)
      BY <2>1, <3>7, RaceExact DEF PrimsInv
    <3>9. QED
      BY <3>2, <3>4, <3>5, <3>7, <3>8
  <2>4. ASSUME Astray PROVE Exact
    BY <2>4 DEF Astray
  <2>5. QED
    BY <2>1, <2>2, <2>3, <2>4 DEF Next, Exited
<1>4. QED
  BY <1>1, <1>2, <1>3, PTL DEF Spec, ListPExact

-----------------------------------------------------------------------------
(* eqv?                                                                    *)

\* A number is a fraction, and numbers are compared by cross multiplication.
LEMMA NumEqFacts ==
    ASSUME NEW x \in Values, NEW y \in Values, IsNumber(x), IsNumber(y)
    PROVE  /\ Num(x) \in Int /\ Den(x) \in Int /\ Den(x) # 0
           /\ NumEqXX(x, y) <=> Num(x) * Den(y) = Num(y) * Den(x)
<1>1. ASSUME NEW v \in Values, IsNumber(v)
      PROVE  Num(v) \in Int /\ Den(v) \in Int /\ Den(v) # 0 /\ v # NaN
  <2>1. CASE Is("int", v)
    <3>1. v[2] \in Int /\ v[1] = "int"
      BY <2>1, ValueFacts DEF Is
    <3>2. NaN[1] = "flo"
      BY DEF NaN
    <3>3. QED
      BY <3>1, <3>2 DEF Num, Den, Is
  <2>2. CASE Is("flo", v) /\ v[3] # 0
    <3>1. v[2] \in Int /\ v[3] \in Nat
      BY <2>2 DEF Values, Is, References
    <3>2. NaN[3] = 0
      BY DEF NaN
    <3>3. QED
      BY <2>2, <3>1, <3>2 DEF Num, Den
  <2>3. QED
    BY <1>1, <2>1, <2>2 DEF IsNumber
<1>2. /\ Num(x) \in Int /\ Den(x) \in Int /\ Den(x) # 0 /\ x # NaN
      /\ Num(y) \in Int /\ Den(y) \in Int /\ Den(y) # 0 /\ y # NaN
  BY <1>1
<1>3. NumEqXX(x, y) <=> Num(x) * Den(y) - Num(y) * Den(x) = 0
  BY <1>2 DEF NumEqXX, Ordered, Diff
<1>4. Num(x) * Den(y) \in Int /\ Num(y) * Den(x) \in Int
  BY <1>2
<1>5. QED
  BY <1>2, <1>3, <1>4

LEMMA EqvEquivalence ==
    /\ \A x \in Values : Eqv(x, x)
    /\ \A x, y \in Values : Eqv(x, y) => Eqv(y, x)
    /\ \A x, y, z \in Values : Eqv(x, y) /\ Eqv(y, z) => Eqv(x, z)
<1>1. ASSUME NEW x \in Values PROVE Eqv(x, x)
  <2>1. CASE IsNumber(x)
    BY <2>1, NumEqFacts DEF Eqv
  <2>2. CASE ~IsNumber(x)
    BY <2>2 DEF Eqv, Eq
  <2>3. QED
    BY <2>1, <2>2
<1>2. ASSUME NEW x \in Values, NEW y \in Values, Eqv(x, y) PROVE Eqv(y, x)
  <2>1. CASE IsNumber(x) /\ IsNumber(y)
    <3>1. Num(x) * Den(y) = Num(y) * Den(x)
      BY <1>2, <2>1, NumEqFacts DEF Eqv
    <3>2. NumEqXX(y, x)
      BY <2>1, <3>1, NumEqFacts
    <3>3. QED
      BY <2>1, <3>2 DEF Eqv
  <2>2. CASE ~(IsNumber(x) /\ IsNumber(y))
    BY <1>2, <2>2 DEF Eqv, Eq
  <2>3. QED
    BY <2>1, <2>2
<1>3. ASSUME NEW x \in Values, NEW y \in Values, NEW z \in Values, Eqv(x, y), Eqv(y, z)
      PROVE  Eqv(x, z)
  <2>1. CASE IsNumber(x) /\ IsNumber(y) /\ IsNumber(z)
    <3>1. Num(x) * Den(y) = Num(y) * Den(x) /\ Num(y) * Den(z) = Num(z) * Den(y)
      BY <1>3, <2>1, NumEqFacts DEF Eqv
    <3>2. /\ Num(x) \in Int /\ Den(x) \in Int /\ Num(y) \in Int /\ Den(y) \in Int /\ Den(y) # 0
          /\ Num(z) \in Int /\ Den(z) \in Int
      BY <2>1, NumEqFacts
    <3>3. Num(x) * Den(z) = Num(z) * Den(x)
      <4> DEFINE a == Num(x)
                 b == Den(x)
                 c == Num(y)
                 d == Den(y)
                 e == Num(z)
                 g == Den(z)
      <4>1. /\ a \in Int /\ b \in Int /\ c \in Int /\ d \in Int /\ e \in Int /\ g \in Int
            /\ d # 0 /\ a * d = c * b /\ c * g = e * d
        BY <3>1, <3>2
      <4> HIDE DEF a, b, c, d, e, g
      <4>2. a * g = e * b
        <5>1. (a * d) * g = (c * b) * g /\ (c * g) * b = (e * d) * b
          BY <4>1
        <5>2. /\ (c * b) * g = (c * g) * b
              /\ (a * d) * g = d * (a * g) /\ (e * d) * b = d * (e * b)
          BY <4>1
        <5> DEFINE p == a * g
                   q == e * b
        <5>3. d * p = d * q /\ p \in Int /\ q \in Int
          BY <4>1, <5>1, <5>2
        <5> HIDE DEF p, q
        <5>4. p = q
          BY <4>1, <5>3
        <5>5. QED
          BY <5>4 DEF p, q
      <4>3. QED
        BY <4>2 DEF a, b, e, g
    <3>4. NumEqXX(x, z)
      BY <2>1, <3>3, NumEqFacts
    <3>5. QED
      BY <2>1, <3>4 DEF Eqv
  <2>2. CASE ~(IsNumber(x) /\ IsNumber(y))
    <3>1. x = y
      BY <1>3, <2>2 DEF Eqv, Eq
    <3>2. QED
      BY <1>3, <3>1
  <2>3. CASE ~(IsNumber(y) /\ IsNumber(z))
    <3>1. y = z
      BY <1>3, <2>3 DEF Eqv, Eq
    <3>2. QED
      BY <1>3, <3>1
  <2>4. QED
    BY <2>1, <2>2, <2>3
<1>4. QED
  BY <1>1, <1>2, <1>3

\* eqv? never relates references of different types.
LEMMA EqvSameType ==
    ASSUME NEW x \in Values, NEW y \in Values, Eqv(x, y),
           x[1] \in References \/ y[1] \in References
    PROVE  x = y
<1>1. ~IsNumber(x) \/ ~IsNumber(y)
  BY DEF IsNumber, Is, References
<1>2. QED
  BY <1>1 DEF Eqv, Eq

-----------------------------------------------------------------------------
(* equal?: the recursion of primop_equal on the objects of a memory.       *)

SameCell(u, v, al, m) ==
    IF Is("vector", u) /\ Is("vector", v) THEN v[2] \in al[u[2]]
    ELSE IF Is("string", u) /\ Is("string", v) THEN Cells(u, m) = Cells(v, m)
    ELSE IF Is("bytevector", u) /\ Is("bytevector", v) THEN TRUE
    ELSE Eqv(u, v)

SameCells(a, b, al, m) ==
    /\ Len(m[a].cells) = Len(m[b].cells)
    /\ \A i \in DOMAIN m[a].cells : SameCell(m[a].cells[i], m[b].cells[i], al, m)

\* al gives for an object of S those that are equal to it.
IsAlike(al, S, m) == al = [a \in S |-> {b \in DOMAIN m : SameCells(a, b, al, m)}]

\* The vectors up to the object k.
Vectors(k, m) == {a \in DOMAIN m : m[a].tag = "vector" /\ a <= k}

\* The depth of an object: what a vector in it refers to is less deep.
Depth(a, m) == IF m[a].tag = "vector" THEN a ELSE Len(m) + 1

\* The cells of an object, and the vectors among them.
LEMMA ObjectCells ==
    ASSUME NEW m, WellMade(m), NEW a \in DOMAIN m
    PROVE  /\ a \in Nat /\ Len(m) \in Nat /\ a <= Len(m) /\ Depth(a, m) \in Nat
           /\ Len(m[a].cells) \in Nat /\ DOMAIN m[a].cells = 1 .. Len(m[a].cells)
           /\ \A i \in DOMAIN m[a].cells :
                 /\ Sound(m[a].cells[i], m)
                 /\ Is("vector", m[a].cells[i]) =>
                       /\ m[a].cells[i][2] \in Vectors(Len(m), m)
                       /\ m[a].cells[i][2] \in DOMAIN m
                       /\ Depth(m[a].cells[i][2], m) < Depth(a, m)
                       /\ m[a].tag = "vector" => m[a].cells[i][2] \in Vectors(a - 1, m)
<1>1. m \in Seq(Object) /\ Formed(m[a], a, m) /\ m[a] \in Object
  BY WellMadeFacts DEF Formed
<1>2. Len(m) \in Nat /\ DOMAIN m = 1 .. Len(m)
  <2> HIDE DEF Object
  <2> QED BY <1>1
<1>3. a \in Nat /\ a <= Len(m) /\ Depth(a, m) \in Nat
  BY <1>2 DEF Depth
<1>4. m[a].cells \in Seq(Values)
  BY <1>1 DEF Object
<1>5. Len(m[a].cells) \in Nat /\ DOMAIN m[a].cells = 1 .. Len(m[a].cells)
  BY <1>4
<1>6. ASSUME NEW i \in DOMAIN m[a].cells
      PROVE  /\ Sound(m[a].cells[i], m)
             /\ Is("vector", m[a].cells[i]) =>
                   /\ m[a].cells[i][2] \in Vectors(Len(m), m)
                   /\ m[a].cells[i][2] \in DOMAIN m
                   /\ Depth(m[a].cells[i][2], m) < Depth(a, m)
                   /\ m[a].tag = "vector" => m[a].cells[i][2] \in Vectors(a - 1, m)
  <2> DEFINE u == m[a].cells[i]
  <2>1. Sound(u, m)
    BY <1>1, <1>4 DEF Formed, Sound
  <2>2. SUFFICES ASSUME Is("vector", u)
                 PROVE  /\ u[2] \in Vectors(Len(m), m) /\ u[2] \in DOMAIN m
                        /\ Depth(u[2], m) < Depth(a, m)
                        /\ m[a].tag = "vector" => u[2] \in Vectors(a - 1, m)
    BY <2>1
  <2>3. u[2] \in DOMAIN m /\ m[u[2]].tag = "vector"
    BY <2>1, <2>2 DEF Sound, Refers, Is, References
  <2>4. m[a].tag = "vector" => u[2] < a
    BY <1>1, <2>2 DEF Formed, Older
  <2> HIDE DEF u
  <2>5. u[2] \in Nat /\ u[2] <= Len(m)
    BY <1>2, <2>3
  <2>6. u[2] \in Vectors(Len(m), m)
    BY <2>3, <2>5 DEF Vectors
  <2>7. Depth(u[2], m) < Depth(a, m)
    BY <1>2, <1>3, <2>3, <2>4, <2>5 DEF Depth
  <2>8. m[a].tag = "vector" => u[2] \in Vectors(a - 1, m)
    BY <1>3, <2>3, <2>4, <2>5 DEF Vectors
  <2>9. QED
    BY <2>3, <2>6, <2>7, <2>8
<1>7. QED
  BY <1>2, <1>3, <1>5, <1>6

\* The cells of a and b are compared by what al says of the vectors in a.
LEMMA SameCellsDepends ==
    ASSUME NEW m, NEW a, NEW b, NEW al, NEW be,
           \A i \in DOMAIN m[a].cells :
              Is("vector", m[a].cells[i]) => al[m[a].cells[i][2]] = be[m[a].cells[i][2]]
    PROVE  SameCells(a, b, al, m) <=> SameCells(a, b, be, m)
<1>1. \A i \in DOMAIN m[a].cells : SameCell(m[a].cells[i], m[b].cells[i], al, m)
                                     <=> SameCell(m[a].cells[i], m[b].cells[i], be, m)
  BY DEF SameCell
<1>2. QED
  BY <1>1 DEF SameCells

LEMMA AlikeUpTo ==
    ASSUME NEW m, WellMade(m)
    PROVE  \A k \in 0 .. Len(m) : \E al : IsAlike(al, Vectors(k, m), m)
<1>1. Len(m) \in Nat /\ DOMAIN m = 1 .. Len(m)
  BY DEF WellMade
<1> DEFINE T == {k \in 0 .. Len(m) : ~\E al : IsAlike(al, Vectors(k, m), m)}
<1>2. SUFFICES ASSUME T # {} PROVE FALSE
  OBVIOUS
<1>3. PICK k \in T : \A y \in T : k <= y
  <2>1. T \subseteq Nat
    BY <1>1
  <2>2. QED
    BY <1>2, <2>1, LeastNat
<1>4. CASE k = 0
  <2>1. Vectors(0, m) = {}
    BY <1>1 DEF Vectors
  <2>2. IsAlike([a \in {} |-> {}], {}, m)
    BY DEF IsAlike
  <2>3. QED
    BY <1>3, <1>4, <2>1, <2>2
<1>5. CASE k # 0
  <2>1. k \in Nat /\ k - 1 \in 0 .. Len(m) /\ k - 1 \notin T
    BY <1>1, <1>3, <1>5
  <2>2. PICK f : IsAlike(f, Vectors(k - 1, m), m)
    BY <2>1
  <2>3. \A a \in Vectors(k - 1, m) : f[a] = {b \in DOMAIN m : SameCells(a, b, f, m)}
    BY <2>2 DEF IsAlike
  <2> DEFINE g == [a \in Vectors(k, m) |->
                     IF a = k THEN {b \in DOMAIN m : SameCells(a, b, f, m)} ELSE f[a]]
  <2>4. \A a \in Vectors(k - 1, m) : a \in Vectors(k, m) /\ g[a] = f[a]
    <3>1. \A a \in Vectors(k - 1, m) : a \in Vectors(k, m) /\ a # k
      BY <1>1, <2>1 DEF Vectors
    <3>2. QED
      BY <3>1
  <2>5. ASSUME NEW a \in Vectors(k, m)
        PROVE  g[a] = {b \in DOMAIN m : SameCells(a, b, g, m)}
    <3>1. a \in DOMAIN m /\ m[a].tag = "vector" /\ a <= k /\ a \in Nat
      BY <1>1, <2>5 DEF Vectors
    <3>2. \A i \in DOMAIN m[a].cells :
             Is("vector", m[a].cells[i]) => m[a].cells[i][2] \in Vectors(a - 1, m)
      BY <3>1, ObjectCells
    <3>3. \A c \in Vectors(a - 1, m) : c \in Vectors(k - 1, m)
      BY <1>1, <2>1, <3>1 DEF Vectors
    <3> HIDE DEF g
    <3>4. \A i \in DOMAIN m[a].cells :
             Is("vector", m[a].cells[i]) => f[m[a].cells[i][2]] = g[m[a].cells[i][2]]
      BY <2>4, <3>2, <3>3
    <3>5. \A b : SameCells(a, b, f, m) <=> SameCells(a, b, g, m)
      BY <3>4, SameCellsDepends
    <3>6. g[a] = {b \in DOMAIN m : SameCells(a, b, f, m)}
      <4>1. CASE a = k
        BY <2>5, <4>1 DEF g
      <4>2. CASE a # k
        <5>1. a \in Vectors(k - 1, m)
          BY <1>1, <2>1, <3>1, <4>2 DEF Vectors
        <5>2. QED
          BY <2>3, <2>4, <5>1
      <4>3. QED
        BY <4>1, <4>2
    <3>7. QED
      BY <3>5, <3>6
  <2>6. g = [a \in Vectors(k, m) |-> g[a]]
    OBVIOUS
  <2>7. IsAlike(g, Vectors(k, m), m)
    <3> HIDE DEF g
    <3> QED BY <2>5, <2>6 DEF IsAlike
  <2>8. QED
    BY <1>3, <2>7
<1>6. QED
  BY <1>4, <1>5

\* equal? ends: no vector is an element of itself, at any depth.
LEMMA AlikeExists ==
    ASSUME NEW m, WellMade(m)
    PROVE  \E al : IsAlike(al, DOMAIN m, m)
<1>1. Len(m) \in Nat /\ Len(m) \in 0 .. Len(m)
  BY DEF WellMade
<1>2. PICK f : IsAlike(f, Vectors(Len(m), m), m)
  BY <1>1, AlikeUpTo
<1>3. \A a \in Vectors(Len(m), m) : f[a] = {b \in DOMAIN m : SameCells(a, b, f, m)}
  BY <1>2 DEF IsAlike
<1> DEFINE g == [a \in DOMAIN m |-> {b \in DOMAIN m : SameCells(a, b, f, m)}]
<1>4. \A a \in Vectors(Len(m), m) : g[a] = f[a]
  <2>1. \A a \in Vectors(Len(m), m) : a \in DOMAIN m
    BY DEF Vectors
  <2>2. QED
    BY <1>3, <2>1
<1>5. ASSUME NEW a \in DOMAIN m PROVE g[a] = {b \in DOMAIN m : SameCells(a, b, g, m)}
  <2>1. g[a] = {b \in DOMAIN m : SameCells(a, b, f, m)}
    BY <1>5
  <2> HIDE DEF g
  <2>2. \A i \in DOMAIN m[a].cells :
           Is("vector", m[a].cells[i]) => f[m[a].cells[i][2]] = g[m[a].cells[i][2]]
    BY <1>4, ObjectCells
  <2>3. \A b : SameCells(a, b, f, m) <=> SameCells(a, b, g, m)
    BY <2>2, SameCellsDepends
  <2>4. QED
    BY <2>1, <2>3
<1>6. g = [a \in DOMAIN m |-> g[a]]
  OBVIOUS
<1>7. IsAlike(g, DOMAIN m, m)
  <2> HIDE DEF g
  <2> QED BY <1>5, <1>6 DEF IsAlike
<1>8. QED
  BY <1>7

LEMMA EqualFacts ==
    ASSUME NEW m, WellMade(m)
    PROVE  \E al : /\ IsAlike(al, DOMAIN m, m)
                   /\ \A x, y : Equal(x, y, m) =
                         IF x[1] \in {"vector", "string"} /\ y[1] = x[1] THEN y[2] \in al[x[2]]
                         ELSE IF Is("bytevector", x) /\ Is("bytevector", y) THEN TRUE
                         ELSE Eqv(x, y)
<1> DEFINE al == CHOOSE f : IsAlike(f, DOMAIN m, m)
<1>1. IsAlike(al, DOMAIN m, m)
  BY AlikeExists
<1>2. ASSUME NEW x, NEW y
      PROVE  Equal(x, y, m) =
               IF x[1] \in {"vector", "string"} /\ y[1] = x[1] THEN y[2] \in al[x[2]]
               ELSE IF Is("bytevector", x) /\ Is("bytevector", y) THEN TRUE
               ELSE Eqv(x, y)
  BY DEF Equal, IsAlike, SameCells, SameCell
<1> HIDE DEF al
<1>3. QED
  BY <1>1, <1>2

\* Two equal cells are both vectors or neither is.
LEMMA SameCellVectors ==
    ASSUME NEW m, NEW al, NEW u \in Values, NEW v \in Values, SameCell(u, v, al, m)
    PROVE  /\ Is("vector", u) <=> Is("vector", v)
           /\ Is("string", u) <=> Is("string", v)
           /\ Is("bytevector", u) <=> Is("bytevector", v)
<1>1. \/ Is("vector", u) /\ Is("vector", v)
      \/ Is("string", u) /\ Is("string", v)
      \/ Is("bytevector", u) /\ Is("bytevector", v)
      \/ Eqv(u, v)
  BY DEF SameCell
<1>2. CASE Eqv(u, v)
  <2>1. u[1] \in References \/ v[1] \in References => u = v
    BY <1>2, EqvSameType
  <2>2. QED
    BY <2>1 DEF Is, References
<1>3. QED
  BY <1>1, <1>2 DEF Is

LEMMA SameCellRefl ==
    ASSUME NEW m, NEW al, NEW u \in Values, Is("vector", u) => u[2] \in al[u[2]]
    PROVE  SameCell(u, u, al, m)
BY EqvEquivalence DEF SameCell

LEMMA SameCellSym ==
    ASSUME NEW m, NEW al, NEW u \in Values, NEW v \in Values, SameCell(u, v, al, m),
           Is("vector", u) /\ Is("vector", v) /\ v[2] \in al[u[2]] => u[2] \in al[v[2]]
    PROVE  SameCell(v, u, al, m)
BY EqvEquivalence DEF SameCell

LEMMA SameCellTrans ==
    ASSUME NEW m, NEW al, NEW u \in Values, NEW v \in Values, NEW w \in Values,
           SameCell(u, v, al, m), SameCell(v, w, al, m),
           Is("vector", u) /\ Is("vector", v) /\ Is("vector", w)
              /\ v[2] \in al[u[2]] /\ w[2] \in al[v[2]] => w[2] \in al[u[2]]
    PROVE  SameCell(u, w, al, m)
<1>1. /\ Is("vector", u) <=> Is("vector", v)
      /\ Is("string", u) <=> Is("string", v)
      /\ Is("bytevector", u) <=> Is("bytevector", v)
      /\ Is("vector", v) <=> Is("vector", w)
      /\ Is("string", v) <=> Is("string", w)
      /\ Is("bytevector", v) <=> Is("bytevector", w)
  BY SameCellVectors
<1>2. CASE Is("vector", u)
  BY <1>1, <1>2 DEF SameCell
<1>3. CASE Is("string", u)
  BY <1>1, <1>3 DEF SameCell, Is
<1>4. CASE Is("bytevector", u)
  BY <1>1, <1>4 DEF SameCell, Is
<1>5. CASE ~Is("vector", u) /\ ~Is("string", u) /\ ~Is("bytevector", u)
  <2>1. Eqv(u, v) /\ Eqv(v, w)
    BY <1>1, <1>5 DEF SameCell
  <2>2. Eqv(u, w)
    BY <2>1, EqvEquivalence
  <2>3. QED
    BY <1>5, <2>2 DEF SameCell
<1>6. QED
  BY <1>2, <1>3, <1>4, <1>5

\* Equality of objects is reflexive, symmetric and transitive; each by
\* induction on the depth of the first object.
LEMMA AlikeEquivalence ==
    ASSUME NEW m, WellMade(m), NEW al, IsAlike(al, DOMAIN m, m)
    PROVE  /\ \A a \in DOMAIN m : a \in al[a]
           /\ \A a, b \in DOMAIN m : b \in al[a] => a \in al[b]
           /\ \A a, b, c \in DOMAIN m : b \in al[a] /\ c \in al[b] => c \in al[a]
<1>1. \A a, b \in DOMAIN m : b \in al[a] <=> SameCells(a, b, al, m)
  BY DEF IsAlike
<1> DEFINE P1(a) == a \in al[a]
           P2(a) == \A b \in DOMAIN m : b \in al[a] => a \in al[b]
           P3(a) == \A b, c \in DOMAIN m : b \in al[a] /\ c \in al[b] => c \in al[a]
           T == {k \in Nat : \E a \in DOMAIN m : Depth(a, m) = k /\ ~(P1(a) /\ P2(a) /\ P3(a))}
<1>2. SUFFICES ASSUME T # {} PROVE FALSE
  <2>1. \A a \in DOMAIN m : Depth(a, m) \in Nat
    BY ObjectCells
  <2>2. T = {} => \A a \in DOMAIN m : P1(a) /\ P2(a) /\ P3(a)
    BY <2>1
  <2>3. QED
    BY <2>2
<1>3. PICK k \in T : \A y \in T : k <= y
  BY <1>2, LeastNat
<1>4. PICK a \in DOMAIN m : Depth(a, m) = k /\ ~(P1(a) /\ P2(a) /\ P3(a))
  OBVIOUS
<1>5. \A i \in DOMAIN m[a].cells :
         /\ m[a].cells[i] \in Values
         /\ Is("vector", m[a].cells[i]) =>
               /\ m[a].cells[i][2] \in DOMAIN m
               /\ P1(m[a].cells[i][2]) /\ P2(m[a].cells[i][2]) /\ P3(m[a].cells[i][2])
  <2>1. TAKE i \in DOMAIN m[a].cells
  <2> DEFINE u == m[a].cells[i]
  <2>2. u \in Values
    BY ObjectCells DEF Sound
  <2>3. SUFFICES ASSUME Is("vector", u)
                 PROVE  u[2] \in DOMAIN m /\ P1(u[2]) /\ P2(u[2]) /\ P3(u[2])
    BY <2>2
  <2>4. u[2] \in DOMAIN m /\ Depth(u[2], m) < k /\ k \in Nat
    BY <1>4, <2>3, ObjectCells
  <2>5. Depth(u[2], m) \in Nat
    BY <2>4, ObjectCells
  <2> HIDE DEF u
  <2>6. Depth(u[2], m) \notin T
    <3> HIDE DEF T
    <3> QED BY <1>3, <2>4, <2>5
  <2> HIDE DEF P1, P2, P3
  <2>7. QED
    BY <2>4, <2>5, <2>6
<1>6. \A b \in DOMAIN m : /\ DOMAIN m[b].cells = 1 .. Len(m[b].cells)
                         /\ \A i \in DOMAIN m[b].cells :
                               /\ m[b].cells[i] \in Values
                               /\ Is("vector", m[b].cells[i]) => m[b].cells[i][2] \in DOMAIN m
  BY ObjectCells DEF Sound
<1>7. P1(a)
  <2>1. \A i \in DOMAIN m[a].cells : SameCell(m[a].cells[i], m[a].cells[i], al, m)
    BY <1>5, SameCellRefl
  <2>2. SameCells(a, a, al, m)
    BY <2>1 DEF SameCells
  <2>3. QED
    BY <1>1, <2>2
<1>8. P2(a)
  <2>1. SUFFICES ASSUME NEW b \in DOMAIN m, b \in al[a] PROVE a \in al[b]
    OBVIOUS
  <2>2. SameCells(a, b, al, m)
    BY <1>1, <2>1
  <2>3. Len(m[a].cells) = Len(m[b].cells) /\ DOMAIN m[b].cells = DOMAIN m[a].cells
    BY <1>6, <2>2 DEF SameCells
  <2>4. ASSUME NEW i \in DOMAIN m[a].cells
        PROVE  SameCell(m[b].cells[i], m[a].cells[i], al, m)
    <3> DEFINE u == m[a].cells[i]
               v == m[b].cells[i]
    <3>1. u \in Values /\ v \in Values /\ SameCell(u, v, al, m)
      BY <1>5, <1>6, <2>2, <2>3, <2>4 DEF SameCells
    <3>2. Is("vector", u) /\ Is("vector", v) => P2(u[2]) /\ v[2] \in DOMAIN m
      BY <1>5, <1>6, <2>3, <2>4
    <3> HIDE DEF u, v
    <3>3. Is("vector", u) /\ Is("vector", v) /\ v[2] \in al[u[2]] => u[2] \in al[v[2]]
      BY <3>2
    <3>4. SameCell(v, u, al, m)
      BY <3>1, <3>3, SameCellSym
    <3>5. QED
      BY <3>4 DEF u, v
  <2>5. SameCells(b, a, al, m)
    BY <2>3, <2>4 DEF SameCells
  <2>6. QED
    BY <1>1, <2>5
<1>9. P3(a)
  <2>1. SUFFICES ASSUME NEW b \in DOMAIN m, NEW c \in DOMAIN m, b \in al[a], c \in al[b]
                 PROVE  c \in al[a]
    OBVIOUS
  <2>2. SameCells(a, b, al, m) /\ SameCells(b, c, al, m)
    BY <1>1, <2>1
  <2>3. /\ Len(m[a].cells) = Len(m[b].cells) /\ DOMAIN m[b].cells = DOMAIN m[a].cells
        /\ Len(m[a].cells) = Len(m[c].cells) /\ DOMAIN m[c].cells = DOMAIN m[a].cells
    BY <1>6, <2>2 DEF SameCells
  <2>4. ASSUME NEW i \in DOMAIN m[a].cells
        PROVE  SameCell(m[a].cells[i], m[c].cells[i], al, m)
    <3> DEFINE u == m[a].cells[i]
               v == m[b].cells[i]
               w == m[c].cells[i]
    <3>1. /\ u \in Values /\ v \in Values /\ w \in Values
          /\ SameCell(u, v, al, m) /\ SameCell(v, w, al, m)
      BY <1>5, <1>6, <2>2, <2>3, <2>4 DEF SameCells
    <3>2. Is("vector", u) /\ Is("vector", v) /\ Is("vector", w) =>
             P3(u[2]) /\ v[2] \in DOMAIN m /\ w[2] \in DOMAIN m
      BY <1>5, <1>6, <2>3, <2>4
    <3> HIDE DEF u, v, w
    <3>3. Is("vector", u) /\ Is("vector", v) /\ Is("vector", w)
            /\ v[2] \in al[u[2]] /\ w[2] \in al[v[2]] => w[2] \in al[u[2]]
      BY <3>2
    <3>4. SameCell(u, w, al, m)
      BY <3>1, <3>3, SameCellTrans
    <3>5. QED
      BY <3>4 DEF u, w
  <2>5. SameCells(a, c, al, m)
    BY <2>3, <2>4 DEF SameCells
  <2>6. QED
    BY <1>1, <2>5
<1>10. QED
  BY <1>4, <1>7, <1>8, <1>9

\* equal? on the values of a memory is an equivalence.
LEMMA EqualIsEquivalence ==
    ASSUME NEW m, WellMade(m)
    PROVE  /\ \A x \in SoundValues(m) : Equal(x, x, m)
           /\ \A x, y \in SoundValues(m) : Equal(x, y, m) => Equal(y, x, m)
           /\ \A x, y, z \in SoundValues(m) : Equal(x, y, m) /\ Equal(y, z, m) => Equal(x, z, m)
<1>1. PICK al : /\ IsAlike(al, DOMAIN m, m)
                /\ \A x, y : Equal(x, y, m) =
                      IF x[1] \in {"vector", "string"} /\ y[1] = x[1] THEN y[2] \in al[x[2]]
                      ELSE IF Is("bytevector", x) /\ Is("bytevector", y) THEN TRUE
                      ELSE Eqv(x, y)
  BY EqualFacts
<1>2. /\ \A a \in DOMAIN m : a \in al[a]
      /\ \A a, b \in DOMAIN m : b \in al[a] => a \in al[b]
      /\ \A a, b, c \in DOMAIN m : b \in al[a] /\ c \in al[b] => c \in al[a]
  BY <1>1, AlikeEquivalence
<1>3. \A x \in SoundValues(m) : x \in Values /\ (x[1] \in {"vector", "string"} => x[2] \in DOMAIN m)
  BY DEF SoundValues, Refers, References
<1>4. ASSUME NEW x \in SoundValues(m) PROVE Equal(x, x, m)
  BY <1>1, <1>2, <1>3, EqvEquivalence
<1>5. ASSUME NEW x \in SoundValues(m), NEW y \in SoundValues(m), Equal(x, y, m)
      PROVE  /\ Equal(y, x, m)
             /\ x[1] \in {"vector", "string", "bytevector"} => y[1] = x[1]
             /\ y[1] \in {"vector", "string", "bytevector"} => y[1] = x[1]
  <2>1. CASE x[1] \in {"vector", "string"} /\ y[1] = x[1]
    <3>1. y[2] \in al[x[2]]
      BY <1>1, <1>5, <2>1
    <3>2. x[2] \in al[y[2]]
      BY <1>2, <1>3, <2>1, <3>1
    <3>3. QED
      BY <1>1, <2>1, <3>2
  <2>2. CASE Is("bytevector", x) /\ Is("bytevector", y)
    BY <1>1, <2>2 DEF Is
  <2>3. CASE ~(x[1] \in {"vector", "string"} /\ y[1] = x[1])
             /\ ~(Is("bytevector", x) /\ Is("bytevector", y))
    <3>1. Eqv(x, y)
      BY <1>1, <1>5, <2>3
    <3>2. x \in Values /\ y \in Values
      BY <1>3
    <3>3. Eqv(y, x)
      BY <3>1, <3>2, EqvEquivalence
    <3>4. x[1] \in References \/ y[1] \in References => x = y
      BY <3>1, <3>2, EqvSameType
    <3>5. /\ x[1] \in {"vector", "string", "bytevector"} => y[1] = x[1]
          /\ y[1] \in {"vector", "string", "bytevector"} => y[1] = x[1]
      BY <3>4 DEF References
    <3>6. ~(y[1] \in {"vector", "string"} /\ x[1] = y[1])
          /\ ~(Is("bytevector", y) /\ Is("bytevector", x))
      BY <2>3
    <3>7. Equal(y, x, m)
      BY <1>1, <3>3, <3>6
    <3>8. QED
      BY <3>5, <3>7
  <2>4. QED
    BY <2>1, <2>2, <2>3
<1>6. ASSUME NEW x \in SoundValues(m), NEW y \in SoundValues(m), NEW z \in SoundValues(m),
             Equal(x, y, m), Equal(y, z, m)
      PROVE  Equal(x, z, m)
  <2>1. /\ x[1] \in {"vector", "string", "bytevector"} => y[1] = x[1] /\ z[1] = x[1]
        /\ y[1] \in {"vector", "string", "bytevector"} => y[1] = x[1] /\ z[1] = x[1]
        /\ z[1] \in {"vector", "string", "bytevector"} => y[1] = x[1] /\ z[1] = x[1]
    BY <1>5, <1>6
  <2>2. CASE x[1] \in {"vector", "string"}
    <3>1. y[2] \in al[x[2]] /\ z[2] \in al[y[2]]
      BY <1>1, <1>6, <2>1, <2>2
    <3>2. z[2] \in al[x[2]]
      BY <1>2, <1>3, <2>1, <2>2, <3>1
    <3>3. QED
      BY <1>1, <2>1, <2>2, <3>2
  <2>3. CASE x[1] = "bytevector"
    BY <1>1, <2>1, <2>3 DEF Is
  <2>4. CASE x[1] \notin {"vector", "string", "bytevector"}
    <3>1. y[1] \notin {"vector", "string", "bytevector"}
      BY <2>1, <2>4
    <3>2. Eqv(x, y) /\ Eqv(y, z)
      BY <1>1, <1>6, <2>4, <3>1 DEF Is
    <3>3. Eqv(x, z)
      BY <1>3, <3>2, EqvEquivalence
    <3>4. QED
      BY <1>1, <2>4, <3>3 DEF Is
  <2>5. QED
    BY <2>2, <2>3, <2>4
<1>7. QED
  BY <1>4, <1>5, <1>6

\* For every memory a program can reach: equal? ends on its objects (its
\* recursion has a solution because a vector holds only older vectors) and
\* is reflexive, symmetric and transitive.
THEOREM EqualIsEqual == Spec => []EqualEquivalence
<1>1. Init => PrimsInv
  BY InvInit
<1>2. PrimsInv /\ [Next]_vars => PrimsInv'
  BY InvNext
<1>3. PrimsInv => EqualEquivalence
  <2> SUFFICES ASSUME PrimsInv PROVE EqualEquivalence
    OBVIOUS
  <2> DEFINE vals == {v \in UNION {ToSet(args) : args \in Programs[program].arguments} : Value(v) /\ v # Junk}
             alike == [x \in vals |-> {y \in vals : Equal(x, y, mem)}]
  <2>1. vals \subseteq SoundValues(mem)
    <3>1. SUFFICES ASSUME NEW args \in Programs[program].arguments, NEW v \in ToSet(args), Value(v)
                   PROVE  v \in SoundValues(mem)
      OBVIOUS
    <3>2. args \in Seq(Values)
      BY ProgramsAssumption DEF PrimsInv
    <3>3. v \in Values
      BY <3>2 DEF ToSet
    <3>4. QED
      BY <3>1, <3>3 DEF SoundValues, Value
  <2> HIDE DEF vals
  <2>2. /\ \A x \in vals : Equal(x, x, mem)
        /\ \A x, y \in vals : Equal(x, y, mem) => Equal(y, x, mem)
        /\ \A x, y, z \in vals : Equal(x, y, mem) /\ Equal(y, z, mem) => Equal(x, z, mem)
    BY <2>1, EqualIsEquivalence DEF PrimsInv
  <2>3. \A x \in vals : x \in alike[x] /\ \A y \in alike[x] : alike[y] = alike[x]
    <3>1. TAKE x \in vals
    <3>2. x \in alike[x]
      BY <2>2
    <3>3. ASSUME NEW y \in alike[x] PROVE alike[y] = alike[x]
      <4>1. y \in vals /\ Equal(x, y, mem) /\ Equal(y, x, mem)
        BY <2>2, <3>3
      <4>2. \A z \in vals : Equal(y, z, mem) <=> Equal(x, z, mem)
        BY <2>2, <4>1
      <4>3. QED
        BY <4>1, <4>2
    <3>4. QED
      BY <3>2, <3>3
  <2>4. QED
    BY <2>3 DEF EqualEquivalence, vals
<1>4. QED
  BY <1>1, <1>2, <1>3, PTL DEF Spec

-----------------------------------------------------------------------------
(* Cells that hold what malloc left in them.                               *)

NoJunk(s) == \A i \in DOMAIN s : s[i] # Junk

\* The outcome o has junk only where m had it and in the objects of fresh
\* that are no pairs; none is left on the stack.
Clean(o, m, fresh) ==
    /\ NoJunk(o.left)
    /\ \A id \in DOMAIN o.mem : ~NoJunk(o.mem[id].cells) =>
          \/ id \in DOMAIN m /\ ~NoJunk(m[id].cells)
          \/ id \in fresh /\ o.mem[id].tag # "pair"

LEMMA OutClean ==
    ASSUME NEW m, NEW left, NoJunk(left), NEW fresh
    PROVE  \A v : Clean(Out(v, left, m), m, fresh)
BY DEF Clean, Out

LEMMA FailsClean ==
    ASSUME NEW m, NEW fresh
    PROVE  /\ NoJunk(<<>>) /\ Clean(Fails(m), m, fresh) /\ Clean(Wild(m), m, fresh)
           /\ \A v : Clean(Out(v, <<>>, m), m, fresh)
<1>1. NoJunk(<<>>)
  BY DEF NoJunk
<1>2. QED
  BY <1>1, OutClean DEF Fails, Wild

\* Fresh adds one object.
LEMMA FreshLonger ==
    ASSUME NEW m, WellMade(m), NEW t, NEW cells
    PROVE  Len(m) + 1 \in (Len(m) + 1) .. Len(Fresh(t, cells, m).mem)
<1>1. Len(m) \in Nat /\ Len(Append(m, [tag |-> t, cells |-> cells])) = Len(m) + 1
  <2>1. m \in Seq(Object)
    BY WellMadeFacts
  <2> DEFINE e == [tag |-> t, cells |-> cells]
  <2> HIDE DEF e, Object
  <2>2. Len(m) \in Nat /\ Len(Append(m, e)) = Len(m) + 1
    BY <2>1
  <2>3. QED
    BY <2>2 DEF e
<1>2. Fresh(t, cells, m).mem = Append(m, [tag |-> t, cells |-> cells])
  BY DEF Fresh, Out
<1>3. QED
  BY <1>1, <1>2

LEMMA FreshClean ==
    ASSUME NEW m, WellMade(m), NEW t \in References, NEW cells \in Seq(Values),
           NEW left, NoJunk(left), NEW fresh,
           NoJunk(cells) \/ (Len(m) + 1 \in fresh /\ t # "pair")
    PROVE  Clean([Fresh(t, cells, m) EXCEPT !.left = left], m, fresh) /\ Clean(Fresh(t, cells, m), m, fresh)
<1> DEFINE o == [tag |-> t, cells |-> cells]
           n == Append(m, o)
<1>1. o \in Object /\ m \in Seq(Object)
  BY WellMadeFacts DEF Object
<1>2. /\ Len(m) \in Nat /\ DOMAIN m = 1 .. Len(m)
      /\ Len(n) = Len(m) + 1 /\ DOMAIN n = 1 .. Len(m) + 1
      /\ \A i \in 1 .. Len(m) : n[i] = m[i]
      /\ n[Len(m) + 1] = o
  <2> HIDE DEF o, Object
  <2> QED BY <1>1, AppendFacts
<1>3. o.cells = cells /\ o.tag = t
  OBVIOUS
<1>4. \A id \in DOMAIN n : ~NoJunk(n[id].cells) =>
          \/ id \in DOMAIN m /\ ~NoJunk(m[id].cells)
          \/ id \in fresh /\ n[id].tag # "pair"
  <2> HIDE DEF o, n
  <2>1. \A id \in DOMAIN n : id \in DOMAIN m \/ id = Len(m) + 1
    BY <1>2
  <2>2. QED
    BY <1>2, <1>3, <2>1
<1>5. /\ Fresh(t, cells, m).mem = n /\ Fresh(t, cells, m).left = <<>>
      /\ [Fresh(t, cells, m) EXCEPT !.left = left].mem = n
      /\ [Fresh(t, cells, m) EXCEPT !.left = left].left = left
  BY DEF Fresh, Out
<1>6. NoJunk(<<>>)
  BY DEF NoJunk
<1>7. QED
  <2> HIDE DEF n
  <2> QED BY <1>4, <1>5, <1>6 DEF Clean

LEMMA WriteClean ==
    ASSUME NEW m, WellMade(m), NEW v, NEW i, NEW x, x # Junk, NEW fresh
    PROVE  Clean(WriteCell(v, i, x, m), m, fresh)
<1> DEFINE n == [m EXCEPT ![v[2]].cells[i] = x]
<1>1. DOMAIN n = DOMAIN m
  OBVIOUS
<1>2. ASSUME NEW id \in DOMAIN m, ~NoJunk(n[id].cells)
      PROVE  ~NoJunk(m[id].cells)
  <2>1. CASE id = v[2]
    <3>1. m[id] \in [tag : References, cells : Seq(Values)]
      <4>1. m \in Seq(Object)
        BY WellMadeFacts
      <4>2. m[id] \in Object
        <5> HIDE DEF Object
        <5> QED BY <1>2, <4>1
      <4>3. QED
        BY <4>2 DEF Object
    <3>2. n[id] = [m[id] EXCEPT !.cells[i] = x]
      BY <1>2, <2>1
    <3>3. n[id].cells = [m[id].cells EXCEPT ![i] = x]
      <4> HIDE DEF n
      <4> QED BY <3>1, <3>2
    <3>4. QED
      <4> HIDE DEF n
      <4> QED BY <1>2, <3>3 DEF NoJunk
  <2>2. CASE id # v[2]
    BY <1>2, <2>2
  <2>3. QED
    BY <2>1, <2>2
<1>3. WriteCell(v, i, x, m) = [val |-> Void, left |-> <<>>, mem |-> n]
  BY DEF WriteCell, Out
<1>4. QED
  <2> HIDE DEF n
  <2> QED BY <1>1, <1>2, <1>3 DEF Clean, NoJunk

LEMMA ListClean ==
    ASSUME NEW m, WellMade(m), NEW s \in Seq(Values), NoJunk(s), NEW fresh
    PROVE  Clean(List(s, m), m, fresh)
<1> DEFINE pairs == [i \in 1 .. Len(s) |->
                       [tag |-> "pair", cells |-> <<s[Len(s) + 1 - i],
                                           IF i = 1 THEN Null ELSE <<"pair", Len(m) + i - 1>> >>]]
           n == m \o pairs
<1>1. Len(m) \in Nat /\ DOMAIN m = 1 .. Len(m) /\ Len(s) \in Nat /\ DOMAIN s = 1 .. Len(s)
      /\ m \in Seq(Object)
  <2>1. m \in Seq(Object)
    BY WellMadeFacts
  <2>2. QED
    <3> HIDE DEF Object
    <3> QED BY <2>1
<1>2. \A i \in 1 .. Len(s) : NoJunk(pairs[i].cells)
  <2>1. TAKE i \in 1 .. Len(s)
  <2>2. s[Len(s) + 1 - i] # Junk
    BY <1>1 DEF NoJunk
  <2>3. Null # Junk /\ \A k : <<"pair", k>> # Junk
    BY DEF Null, Junk
  <2>4. QED
    BY <2>2, <2>3 DEF NoJunk
<1>3. /\ DOMAIN n = 1 .. Len(m) + Len(s)
      /\ \A id \in 1 .. Len(m) + Len(s) : n[id] = IF id <= Len(m) THEN m[id] ELSE pairs[id - Len(m)]
  <2>1. Len(pairs) = Len(s) /\ DOMAIN pairs = 1 .. Len(s)
    BY <1>1
  <2> HIDE DEF pairs, Object
  <2>2. QED
    BY <1>1, <2>1
<1>4. ASSUME NEW id \in DOMAIN n, ~NoJunk(n[id].cells)
      PROVE  id \in DOMAIN m /\ ~NoJunk(m[id].cells)
  <2> HIDE DEF n, pairs
  <2>1. id <= Len(m) \/ id - Len(m) \in 1 .. Len(s)
    BY <1>1, <1>3, <1>4
  <2>2. QED
    BY <1>1, <1>2, <1>3, <1>4, <2>1
<1>5. List(s, m) = [val |-> Void, left |-> <<>>, mem |-> n]
  BY DEF List, Out
<1>6. QED
  <2> HIDE DEF n
  <2> QED BY <1>4, <1>5 DEF Clean, NoJunk

LEMMA SubSeqNoJunk ==
    ASSUME NEW s \in Seq(Values), NoJunk(s), NEW a \in Nat, a >= 1
    PROVE  NoJunk(SubSeq(s, a, Len(s)))
<1> DEFINE G == {v \in Values : v # Junk}
<1>1. \A i \in a .. Len(s) : s[i] \in G
  <2>1. \A i \in a .. Len(s) : i \in 1 .. Len(s)
    OBVIOUS
  <2>2. QED
    BY <2>1 DEF NoJunk
<1>2. SubSeq(s, a, Len(s)) \in Seq(G)
  <2> HIDE DEF G
  <2> QED BY <1>1, SubSeqProperties
<1>3. \A i \in DOMAIN SubSeq(s, a, Len(s)) : SubSeq(s, a, Len(s))[i] \in G
  <2> HIDE DEF G
  <2> QED BY <1>2
<1>4. QED
  BY <1>3 DEF NoJunk

LEMMA CompareClean ==
    ASSUME NEW m, NEW s \in Seq(Values), NoJunk(s), NEW rel, NEW fresh
    PROVE  Clean(Compare(rel, s, m), m, fresh)
<1> DEFINE i == Break(rel, s)
           stop == {j \in 1 .. (Len(s) - 1) :
                      ~(IsNumber(s[j]) /\ IsNumber(s[j + 1]) /\ RelXX(rel, s[j], s[j + 1]))}
<1>1. i # 0 => i \in Nat
  <2>1. CASE stop = {}
    BY <2>1 DEF Break
  <2>2. CASE stop # {}
    <3>1. stop \subseteq Nat
      OBVIOUS
    <3>2. \E j \in stop : \A k \in stop : j <= k
      <4> HIDE DEF stop
      <4> QED BY <2>2, <3>1, LeastNat
    <3>3. i = CHOOSE j \in stop : \A k \in stop : j <= k
      BY <2>2 DEF Break
    <3>4. i \in stop
      <4> HIDE DEF stop, i
      <4> QED BY <3>2, <3>3
    <3>5. QED
      BY <3>1, <3>4
  <2>3. QED
    BY <2>1, <2>2
<1>2. i # 0 => NoJunk(SubSeq(s, i + 2, Len(s)))
  <2> HIDE DEF i
  <2>1. i # 0 => i + 2 \in Nat /\ i + 2 >= 1
    BY <1>1
  <2>2. QED
    BY <2>1, SubSeqNoJunk
<1> HIDE DEF i
<1>3. \/ \E v : Compare(rel, s, m) = Out(v, <<>>, m)
      \/ i # 0 /\ Compare(rel, s, m) = Out(False, SubSeq(s, i + 2, Len(s)), m)
      \/ Compare(rel, s, m) = Fails(m)
  BY DEF Compare, i
<1>4. QED
  BY <1>2, <1>3, OutClean, FailsClean

LEMMA SecondPlace == \A k \in Nat : k >= 1 /\ k # 1 => 2 \in 1 .. k
OBVIOUS

LEMMA MakeFilledClean ==
    ASSUME NEW m, WellMade(m), NEW s \in Seq(Values), NoJunk(s), NEW t \in {"vector", "bytevector"}, NEW ok,
           NEW fresh, Len(s) = 1 => (Len(m) + 1) .. Len(MakeFilled(t, s, m, ok).mem) \subseteq fresh
    PROVE  Clean(MakeFilled(t, s, m, ok), m, fresh)
<1>1. NoJunk(<<>>) /\ Clean(Fails(m), m, fresh) /\ Clean(Wild(m), m, fresh)
  BY FailsClean
<1>2. CASE Len(s) = 0 \/ ~Is("int", s[1]) \/ s[1][2] < 0
  BY <1>1, <1>2 DEF MakeFilled
<1>3. CASE ~(Len(s) = 0 \/ ~Is("int", s[1]) \/ s[1][2] < 0)
  <2> DEFINE n == s[1][2]
  <2>1. Len(s) \in Nat /\ Len(s) >= 1 /\ \A i \in 1 .. Len(s) : s[i] \in Values /\ s[i] # Junk
    BY <1>3 DEF NoJunk
  <2>2. n \in Nat
    <3>1. s[1] \in Values
      BY <2>1
    <3>2. n \in Int
      BY <1>3, <3>1, ValueFacts
    <3>3. QED
      BY <1>3, <3>2
  <2>3. t \in References /\ t # "pair"
    BY DEF References
  <2> HIDE DEF n
  <2>4. \A x \in Values : [i \in 1 .. n |-> x] \in Seq(Values)
    <3>1. \A x \in Values : [i \in 1 .. n |-> x] \in [1 .. n -> Values]
      OBVIOUS
    <3>2. QED
      BY <2>2, <3>1, FunctionIsSeq
  <2>5. CASE Len(s) = 1
    <3>1. Junk \in Values
      BY Immediates
    <3> DEFINE cells == [i \in 1 .. n |-> Junk]
    <3>2. MakeFilled(t, s, m, ok) = Fresh(t, cells, m)
      BY <1>3, <2>5 DEF MakeFilled, n
    <3>3. cells \in Seq(Values)
      BY <2>4, <3>1
    <3> HIDE DEF cells
    <3>4. Len(m) + 1 \in fresh
      BY <2>5, <3>2, <3>3, FreshLonger
    <3>5. QED
      BY <1>1, <2>3, <3>2, <3>3, <3>4, FreshClean
  <2>6. CASE Len(s) # 1 /\ ok
    <3>1. s[2] \in Values /\ s[2] # Junk
      <4>1. Len(s) # 1
        BY <2>6
      <4>2. 2 \in 1 .. Len(s)
        BY <2>1, <4>1, SecondPlace
      <4>3. QED
        BY <2>1, <4>2
    <3>2. NoJunk([i \in 1 .. n |-> s[2]])
      BY <3>1 DEF NoJunk
    <3>3. NoJunk(SubSeq(s, 3, Len(s)))
      BY SubSeqNoJunk
    <3>4. [i \in 1 .. n |-> s[2]] \in Seq(Values)
      BY <2>4, <3>1
    <3>5. MakeFilled(t, s, m, ok) = [Fresh(t, [i \in 1 .. n |-> s[2]], m) EXCEPT !.left = SubSeq(s, 3, Len(s))]
      BY <1>3, <2>6 DEF MakeFilled, n
    <3>6. QED
      <4> DEFINE cells == [i \in 1 .. n |-> s[2]]
                 left == SubSeq(s, 3, Len(s))
      <4> HIDE DEF cells, left
      <4>1. Clean([Fresh(t, cells, m) EXCEPT !.left = left], m, fresh)
        BY <2>3, <3>2, <3>3, <3>4, FreshClean DEF cells, left
      <4>2. QED
        BY <3>5, <4>1 DEF cells, left
  <2>7. CASE Len(s) # 1 /\ ~ok
    BY <1>1, <1>3, <2>7 DEF MakeFilled
  <2>8. QED
    BY <2>5, <2>6, <2>7
<1>4. QED
  BY <1>2, <1>3

LEMMA MakeRecordClean ==
    ASSUME NEW m, WellMade(m), NEW s \in Seq(Values),
           NEW fresh, (Len(m) + 1) .. Len(MakeRecord(s, m).mem) \subseteq fresh
    PROVE  Clean(MakeRecord(s, m), m, fresh)
<1>1. NoJunk(<<>>) /\ Clean(Fails(m), m, fresh) /\ Clean(Wild(m), m, fresh)
  BY FailsClean
<1>2. CASE ~(Len(s) # 2 \/ ~Is("int", s[1]) \/ s[1][2] < 0)
  <2> DEFINE n == s[1][2]
             fields == [i \in 1 .. n |-> Junk]
  <2>1. s[1] \in Values /\ s[2] \in Values
    <3>1. \A i \in 1 .. Len(s) : s[i] \in Values
      OBVIOUS
    <3>2. QED
      BY <1>2, <3>1
  <2>2. n \in Nat
    <3>1. n \in Int
      BY <1>2, <2>1, ValueFacts
    <3>2. QED
      BY <1>2, <3>1
  <2> HIDE DEF n
  <2>3. fields \in Seq(Values)
    <3>1. fields \in [1 .. n -> Values]
      BY Immediates
    <3>2. QED
      BY <2>2, <3>1, FunctionIsSeq
  <2>4. <<s[2]>> \o fields \in Seq(Values)
    <3> HIDE DEF fields
    <3> QED BY <2>1, <2>3
  <2>5. MakeRecord(s, m) = Fresh("record", <<s[2]>> \o fields, m)
    BY <1>2 DEF MakeRecord, n
  <2>6. "record" \in References /\ "record" # "pair"
    BY DEF References
  <2> HIDE DEF fields
  <2>7. Len(m) + 1 \in fresh
    BY <2>4, <2>5, FreshLonger
  <2>8. QED
    BY <1>1, <2>4, <2>5, <2>6, <2>7, FreshClean
<1>3. CASE Len(s) # 2 \/ ~Is("int", s[1]) \/ s[1][2] < 0
  BY <1>1, <1>3 DEF MakeRecord
<1>4. QED
  BY <1>2, <1>3

\* The primitives that write a cell write one of their arguments.
LEMMA WritesClean ==
    ASSUME NEW m, WellMade(m), NEW s \in Seq(Values), NoJunk(s), NEW fresh
    PROVE  /\ \A i : Clean(SetPair(i, s, m), m, fresh)
           /\ Clean(BytevectorSet(s, m), m, fresh)
           /\ Clean(RecordSet(s, m), m, fresh)
           /\ Clean(RecordMetaSet(s, m), m, fresh)
<1>1. NoJunk(<<>>) /\ Clean(Fails(m), m, fresh)
  BY FailsClean
<1>2. Len(s) = 2 => s[2] # Junk
  BY DEF NoJunk
<1>3. Len(s) = 3 => s[3] # Junk
  BY DEF NoJunk
<1>4. \A v, i, x : x # Junk => Clean(WriteCell(v, i, x, m), m, fresh)
  BY WriteClean
<1>5. QED
  BY <1>1, <1>2, <1>3, <1>4 DEF SetPair, BytevectorSet, RecordSet, RecordMetaSet

\* The objects of o that are new and whose cells the primitive w made bare.
Made(w, o, m) == IF MakesBare(w) THEN (Len(m) + 1) .. Len(o.mem) ELSE {}

LEMMA PrimClean ==
    ASSUME NEW m, WellMade(m), NEW s \in Seq(Values), NoJunk(s), NEW n \in Primitives
    PROVE  Clean(Prim(n, s, m), m, Made([prim |-> n, args |-> s], Prim(n, s, m), m))
<1> DEFINE fresh == Made([prim |-> n, args |-> s], Prim(n, s, m), m)
<1>0. /\ n = "make-record" => fresh = (Len(m) + 1) .. Len(Prim(n, s, m).mem)
      /\ n \in {"make-vector", "make-bytevector"} /\ Len(s) = 1 =>
            fresh = (Len(m) + 1) .. Len(Prim(n, s, m).mem)
  BY DEF Made, MakesBare
<1> HIDE DEF fresh
<1>1. /\ Clean(Fails(m), m, fresh) /\ Clean(Wild(m), m, fresh)
      /\ \A v : Clean(Out(v, <<>>, m), m, fresh)
  BY FailsClean
<1>2. CASE n \in {"+", "*", "-", "/"}
  <2>1. Prim(n, s, m) \in
           {Out(Sum(s), <<>>, m),
            Out(Product(s), <<>>, m),
            Out(Difference(s), <<>>, m),
            Out(Quotient(s), <<>>, m)}
    BY <1>2 DEF Prim, Comparisons, TypeOf
  <2>2. QED
    BY <1>1, <2>1 DEF fresh
<1>3. CASE n \in Comparisons
  <2>1. Prim(n, s, m) = Compare(n, s, m)
    BY <1>3 DEF Prim, Comparisons, TypeOf
  <2>2. QED
    BY <2>1, CompareClean DEF fresh
<1>4. CASE n \in {"zero?", "positive?", "negative?", "1+", "1-", "string?"}
  <2>1. Prim(n, s, m) \in
           {AgainstZero("=", s, m),
            AgainstZero(">", s, m),
            AgainstZero("<", s, m),
            Miscounted(s, m)}
    BY <1>4 DEF Prim, Comparisons, TypeOf
  <2>2. \A rel : Clean(AgainstZero(rel, s, m), m, fresh)
    BY <1>1 DEF AgainstZero
  <2>3. QED
    BY <1>1, <2>1, <2>2 DEF fresh, Miscounted
<1>5. CASE n \in {"list?", "length", "number?", "vector-length", "bytevector-length"}
  <2>1. Prim(n, s, m) \in
           {ListP(s, m),
            Length(s, m),
            NumberP(s, m),
            CellCount("vector", s, m),
            CellCount("bytevector", s, m)}
    BY <1>5 DEF Prim, Comparisons, TypeOf
  <2>2. /\ Clean(ListP(s, m), m, fresh) /\ Clean(Length(s, m), m, fresh)
        /\ Clean(NumberP(s, m), m, fresh) /\ \A t : Clean(CellCount(t, s, m), m, fresh)
    BY <1>1 DEF ListP, Length, NumberP, CellCount
  <2>3. QED
    BY <2>1, <2>2 DEF fresh
<1>6. CASE n \in {"eq?", "eqv?", "equal?"}
  <2>1. Prim(n, s, m) \in
           {Two(s, m, Eq(s[1], s[2])),
            Two(s, m, Eqv(s[1], s[2])),
            Two(s, m, Equal(s[1], s[2], m))}
    BY <1>6 DEF Prim, Comparisons, TypeOf
  <2>2. \A p : Clean(Two(s, m, p), m, fresh)
    BY <1>1 DEF Two
  <2>3. QED
    BY <2>1, <2>2 DEF fresh
<1>7. CASE n \in DOMAIN TypeOf
  <2>1. Prim(n, s, m) = TypeP(n, s, m)
    BY <1>7 DEF Prim, Comparisons, TypeOf
  <2>2. Clean(TypeP(n, s, m), m, fresh)
    BY <1>1 DEF TypeP
  <2>3. QED
    BY <2>1, <2>2 DEF fresh
<1>8. CASE n \in {"char->integer", "integer->char"}
  <2>1. Prim(n, s, m) \in
           {Convert("char", "int", s, m),
            Convert("int", "char", s, m)}
    BY <1>8 DEF Prim, Comparisons, TypeOf
  <2>2. \A from, to : Clean(Convert(from, to, s, m), m, fresh)
    BY <1>1 DEF Convert
  <2>3. QED
    BY <2>1, <2>2 DEF fresh
<1>9. CASE n = "void"
  <2>1. Prim(n, s, m) = Out(Void, s, m)
    BY <1>9 DEF Prim, Comparisons, TypeOf
  <2>2. QED
    BY <2>1, OutClean DEF fresh
<1>10. CASE n \in {"cons", "vector", "bytevector"}
  <2>1. Prim(n, s, m) \in
           {Fails(m),
            Fresh("vector", s, m),
            Fresh("bytevector", s, m),
            Fresh("pair", s, m)}
    BY <1>10 DEF Prim, Comparisons, TypeOf
  <2>2. {"pair", "vector", "bytevector"} \subseteq References
    BY DEF References
  <2>3. \A t \in References : Clean(Fresh(t, s, m), m, fresh)
    BY FreshClean
  <2>4. QED
    BY <1>1, <2>1, <2>2, <2>3 DEF fresh
<1>11. CASE n \in {"car", "cdr"}
  <2>1. \/ Prim(n, s, m) = Out(Car(s[1], m), <<>>, m)
        \/ Prim(n, s, m) = Out(Cdr(s[1], m), <<>>, m)
        \/ Prim(n, s, m) = Fails(m)
    BY <1>11 DEF Prim, Comparisons, TypeOf
  <2>2. QED
    BY <1>1, <2>1 DEF fresh
<1>12. CASE n \in {"set-car!", "set-cdr!", "bytevector-u8-set!", "record-set!", "record-meta-set!"}
  <2>1. Prim(n, s, m) \in
           {SetPair(1, s, m),
            SetPair(2, s, m),
            BytevectorSet(s, m),
            RecordSet(s, m),
            RecordMetaSet(s, m)}
    BY <1>12 DEF Prim, Comparisons, TypeOf
  <2>2. QED
    BY <2>1, WritesClean DEF fresh
<1>13. CASE n \in {"vector-ref", "bytevector-u8-ref", "record-ref", "record-meta-ref", "list-ref"}
  <2>1. Prim(n, s, m) \in
           {VectorRef(s, m),
            BytevectorRef(s, m),
            RecordRef(s, m),
            RecordMetaRef(s, m),
            ListRef(s, m)}
    BY <1>13 DEF Prim, Comparisons, TypeOf
  <2>2. /\ Clean(VectorRef(s, m), m, fresh) /\ Clean(BytevectorRef(s, m), m, fresh)
        /\ Clean(RecordRef(s, m), m, fresh) /\ Clean(RecordMetaRef(s, m), m, fresh)
        /\ Clean(ListRef(s, m), m, fresh)
    BY <1>1 DEF VectorRef, BytevectorRef, RecordRef, RecordMetaRef, ListRef
  <2>3. QED
    BY <2>1, <2>2 DEF fresh
<1>14. CASE n = "list"
  <2>1. Prim(n, s, m) = List(s, m)
    BY <1>14 DEF Prim, Comparisons, TypeOf
  <2>2. QED
    BY <2>1, ListClean DEF fresh
<1>15. CASE n = "make-record"
  <2>1. Prim(n, s, m) = MakeRecord(s, m)
    BY <1>15 DEF Prim, Comparisons, TypeOf
  <2>2. Clean(MakeRecord(s, m), m, fresh)
    BY <1>0, <1>15, <2>1, MakeRecordClean
  <2>3. QED
    BY <2>1, <2>2 DEF fresh
<1>16. CASE n = "make-vector"
  <2>1. Prim(n, s, m) = MakeFilled("vector", s, m, TRUE)
    BY <1>16 DEF Prim, Comparisons, TypeOf
  <2>2. Clean(MakeFilled("vector", s, m, TRUE), m, fresh)
    BY <1>0, <1>16, <2>1, MakeFilledClean
  <2>3. QED
    BY <2>1, <2>2 DEF fresh
<1>17. CASE n = "make-bytevector"
  <2> DEFINE ok == Len(s) > 1 /\ IsByte(s[2])
  <2>1. Prim(n, s, m) = MakeFilled("bytevector", s, m, ok)
    BY <1>17 DEF Prim, Comparisons, TypeOf
  <2> HIDE DEF ok
  <2>2. Clean(MakeFilled("bytevector", s, m, ok), m, fresh)
    BY <1>0, <1>17, <2>1, MakeFilledClean
  <2>3. QED
    BY <2>1, <2>2 DEF fresh
<1>18. CASE n = "vector-set!"
  <2>1. Prim(n, s, m) = VectorSet(s, m)
    BY <1>18 DEF Prim, Comparisons, TypeOf
  <2>2. QED
    BY <1>1, <2>1 DEF VectorSet, fresh
<1>19. QED
  BY <1>2, <1>3, <1>4, <1>5, <1>6, <1>7, <1>8, <1>9, <1>10,
     <1>11, <1>12, <1>13, <1>14, <1>15, <1>16, <1>17, <1>18 DEF Primitives

\* A memory with junk in some cell.
Dirty(m) == \E id \in DOMAIN m : ~NoJunk(m[id].cells)

LEMMA CellDirty ==
    ASSUME NEW m, WellMade(m), NEW v, Sound(v, m), v[1] \in References,
           NEW i \in 1 .. Len(Cells(v, m)), Cells(v, m)[i] = Junk
    PROVE  v[2] \in DOMAIN m /\ m[v[2]].tag = v[1] /\ ~NoJunk(m[v[2]].cells)
<1>1. v[2] \in DOMAIN m /\ m[v[2]].tag = v[1]
  BY DEF Sound, Refers
<1>2. Cells(v, m) \in Seq(Values)
  BY CellsFacts
<1>3. i \in DOMAIN m[v[2]].cells /\ m[v[2]].cells[i] = Junk
  BY <1>2 DEF Cells
<1>4. QED
  BY <1>1, <1>3 DEF NoJunk

\* car and cdr return junk only out of a pair that holds it.
LEMMA PairDirty ==
    ASSUME NEW m, WellMade(m), NEW v, Sound(v, m), Car(v, m) = Junk \/ Cdr(v, m) = Junk
    PROVE  \E id \in DOMAIN m : m[id].tag = "pair" /\ ~NoJunk(m[id].cells)
<1>1. Is("pair", v)
  BY DEF Car, Cdr, Error, Junk
<1>2. v[1] \in References /\ v[1] = "pair"
  BY <1>1 DEF Is, References
<1>3. Len(Cells(v, m)) = 2
  BY <1>1, <1>2, CellsFacts
<1>4. \E i \in 1 .. Len(Cells(v, m)) : Cells(v, m)[i] = Junk
  BY <1>1, <1>3 DEF Car, Cdr
<1>5. QED
  BY <1>2, <1>4, CellDirty

\* Arithmetic returns junk only if it is given some.
LEMMA SumsNoJunk ==
    ASSUME NEW s \in Seq(Values), NoJunk(s)
    PROVE  Junk \notin {Sum(s), Product(s), Difference(s), Quotient(s)}
<1>1. \A v : Numeric(v) => v # Junk
  BY DEF Numeric, Junk
<1>2. Integer(0) # Junk /\ Integer(1) # Junk /\ Error # Junk
  BY DEF Integer, Error, Junk
<1>3. Difference(s) # Junk /\ Quotient(s) # Junk
  BY <1>1, <1>2, ArithmeticNumeric DEF Difference, Quotient
<1>4. CASE Len(s) = 0
  BY <1>2, <1>3, <1>4 DEF Sum, Product
<1>5. CASE Len(s) = 1
  <2>1. s[1] # Junk
    BY <1>5 DEF NoJunk
  <2>2. Reboxed(s[1]) # Junk
    BY <2>1, <1>2 DEF Reboxed, Integer, Junk
  <2>3. QED
    BY <1>3, <1>5, <2>2 DEF Sum, Product
<1>6. CASE Len(s) # 0 /\ Len(s) # 1
  <2>1. Tail(s) \in Seq(Values) /\ Tail(s) # <<>>
    <3>1. s # <<>> /\ Len(s) > 1 /\ Len(s) \in Nat
      BY <1>6, EmptySeq
    <3>2. Tail(s) \in Seq(Values) /\ Len(Tail(s)) = Len(s) - 1
      BY <3>1
    <3>3. Len(Tail(s)) # 0
      BY <3>1, <3>2
    <3>4. QED
      BY <3>2, <3>3, EmptySeq
  <2>2. Numeric(FoldLeft(AddXX, Head(s), Tail(s))) /\ Numeric(FoldLeft(MulXX, Head(s), Tail(s)))
    BY <2>1, FoldLast, ArithmeticNumeric
  <2>3. Sum(s) = FoldLeft(AddXX, Head(s), Tail(s)) /\ Product(s) = FoldLeft(MulXX, Head(s), Tail(s))
    BY <1>6 DEF Sum, Product
  <2>4. QED
    BY <1>1, <1>3, <2>2, <2>3
<1>7. QED
  BY <1>4, <1>5, <1>6

\* A reader returns junk only out of a cell that holds it.
LEMMA ReadsDirty ==
    ASSUME NEW m, WellMade(m), NEW s, AllSound(s, m),
           Junk \in {VectorRef(s, m).val, BytevectorRef(s, m).val, RecordRef(s, m).val,
                     RecordMetaRef(s, m).val, ListRef(s, m).val}
    PROVE  Dirty(m)
<1>1. Fails(m).val # Junk /\ \A v : Out(v, <<>>, m).val = v
  BY DEF Fails, Out, Error, Junk
<1>2. {"vector", "bytevector", "record"} \subseteq References
  BY DEF References
<1>3. ASSUME NEW t \in {"vector", "bytevector"}, Len(s) >= 2, Index(t, s, m),
             Cells(s[1], m)[s[2][2] + 1] = Junk
      PROVE  Dirty(m)
  <2> DEFINE k == 1
  <2>1. /\ Is(t, s[1]) /\ Is("int", s[2]) /\ s[2][2] \in 0 .. (Len(Cells(s[1], m)) - k)
        /\ k \in {1, 2} /\ t \in References /\ Len(s) >= 2
    BY <1>2, <1>3 DEF Index
  <2>2. Sound(s[1], m) /\ s[1][1] \in References /\ s[2][2] + k \in 1 .. Len(Cells(s[1], m))
    <3> HIDE DEF k
    <3> QED BY <2>1, CellAt
  <2>3. QED
    BY <1>3, <2>2, CellDirty DEF Dirty
<1>4. CASE VectorRef(s, m).val = Junk
  <2>1. Len(s) = 2 /\ Index("vector", s, m) /\ Reboxed(Cells(s[1], m)[s[2][2] + 1]) = Junk
    BY <1>1, <1>4 DEF VectorRef
  <2>2. Cells(s[1], m)[s[2][2] + 1] = Junk
    BY <2>1 DEF Reboxed, Integer, Error, Junk
  <2>3. QED
    BY <1>3, <2>1, <2>2
<1>5. CASE BytevectorRef(s, m).val = Junk
  BY <1>1, <1>3, <1>5 DEF BytevectorRef
<1>6. CASE RecordRef(s, m).val = Junk
  <2> DEFINE k == 2
  <2>1. Len(s) = 2 /\ FieldOf(s, m) /\ Cells(s[1], m)[s[2][2] + k] = Junk
    BY <1>1, <1>6 DEF RecordRef
  <2>2. /\ Is("record", s[1]) /\ Is("int", s[2]) /\ s[2][2] \in 0 .. (Len(Cells(s[1], m)) - k)
        /\ k \in {1, 2} /\ "record" \in References /\ Len(s) >= 2
    BY <1>2, <2>1 DEF FieldOf
  <2>3. Sound(s[1], m) /\ s[1][1] \in References /\ s[2][2] + k \in 1 .. Len(Cells(s[1], m))
    <3> HIDE DEF k
    <3> QED BY <2>2, CellAt
  <2>4. QED
    BY <2>1, <2>3, CellDirty DEF Dirty
<1>7. CASE RecordMetaRef(s, m).val = Junk
  <2>1. Len(s) = 1 /\ Is("record", s[1]) /\ Cells(s[1], m)[1] = Junk
    BY <1>1, <1>7 DEF RecordMetaRef
  <2>2. Sound(s[1], m) /\ s[1][1] \in References
    BY <1>2, <2>1 DEF AllSound, Is
  <2>3. Len(Cells(s[1], m)) \in Nat /\ Len(Cells(s[1], m)) >= 1
    BY <2>1, <2>2, CellsFacts
  <2>4. 1 \in 1 .. Len(Cells(s[1], m))
    BY <2>3
  <2>5. QED
    BY <2>1, <2>2, <2>4, CellDirty DEF Dirty
<1>8. CASE ListRef(s, m).val = Junk
  <2> DEFINE idx == s[2][2] % Word
             at == CdrsTo(idx, s[1], m)[idx]
  <2>1. Len(s) = 2 /\ Is("int", s[2]) /\ Car(at, m) = Junk
    BY <1>1, <1>8 DEF ListRef
  <2>2. Sound(s[1], m) /\ s[2] \in Values
    BY <2>1 DEF AllSound, Sound
  <2>3. s[2][2] \in Int
    BY <2>1, <2>2, ValueFacts
  <2>4. idx \in Nat
    BY <2>3, BoundsAssumption
  <2> HIDE DEF idx
  <2>5. Sound(at, m)
    BY <2>2, <2>4, CdrsToSound
  <2> HIDE DEF at
  <2>6. QED
    BY <2>1, <2>5, PairDirty DEF Dirty
<1>9. QED
  BY <1>4, <1>5, <1>6, <1>7, <1>8

\* A primitive that is given no junk returns some only out of a cell.
LEMMA JunkRead ==
    ASSUME NEW m, WellMade(m), NEW s, AllSound(s, m), NoJunk(s), NEW n \in Primitives,
           Prim(n, s, m).val = Junk
    PROVE  Dirty(m)
<1> DEFINE o == Prim(n, s, m)
<1>1. /\ Fails(m).val # Junk /\ Wild(m).val # Junk
      /\ \A v, l : Out(v, l, m).val = v
  BY DEF Fails, Wild, Out, Error, Chaos, Junk
<1>2. /\ Void # Junk /\ True # Junk /\ False # Junk /\ Error # Junk
      /\ \A p : Bool(p) # Junk /\ Raw(p) # Junk /\ Integer(p) # Junk
      /\ \A t, c : t \in References => Fresh(t, c, m).val # Junk
  BY DEF Void, True, False, Bool, Raw, Integer, Error, Junk, Fresh, Out, References
<1>3. n \notin {"+", "*", "-", "/"}
  <2>1. SUFFICES ASSUME n \in {"+", "*", "-", "/"} PROVE FALSE
    OBVIOUS
  <2>2. o \in {Out(Sum(s), <<>>, m), Out(Product(s), <<>>, m),
               Out(Difference(s), <<>>, m), Out(Quotient(s), <<>>, m)}
    BY <2>1 DEF Prim, Comparisons, TypeOf
  <2>3. Junk \notin {Sum(s), Product(s), Difference(s), Quotient(s)}
    BY SumsNoJunk DEF AllSound
  <2>4. QED
    BY <1>1, <2>2, <2>3
<1>4. n \notin Comparisons
  <2>1. SUFFICES ASSUME n \in Comparisons PROVE FALSE
    OBVIOUS
  <2>2. o = Compare(n, s, m)
    BY <2>1 DEF Prim, Comparisons, TypeOf
  <2>3. Compare(n, s, m).val \in {True, False, Error}
    BY <1>1 DEF Compare, Fails, Out
  <2>4. QED
    BY <1>2, <2>2, <2>3
<1>5. n \notin {"zero?", "positive?", "negative?", "1+", "1-", "string?", "list?", "length", "number?",
                "vector-length", "bytevector-length", "eq?", "eqv?", "equal?",
                "char->integer", "integer->char"} \cup DOMAIN TypeOf
  <2>1. \A x : AgainstZero(x, s, m).val # Junk /\ CellCount(x, s, m).val # Junk
    BY <1>1, <1>2 DEF AgainstZero, CellCount
  <2>2. Miscounted(s, m).val # Junk /\ ListP(s, m).val # Junk /\ Length(s, m).val # Junk
        /\ NumberP(s, m).val # Junk
    BY <1>1, <1>2 DEF Miscounted, ListP, Length, NumberP
  <2>3. \A x : Two(s, m, x).val # Junk /\ TypeP(x, s, m).val # Junk
    BY <1>1, <1>2 DEF Two, TypeP
  <2>4. Convert("char", "int", s, m).val # Junk /\ Convert("int", "char", s, m).val # Junk
    <3>1. \A p : <<"int", p>> # Junk /\ <<"char", p>> # Junk
      BY DEF Junk
    <3>2. QED
      BY <1>1, <3>1 DEF Convert
  <2>5. ASSUME n \in DOMAIN TypeOf PROVE FALSE
    <3>1. o = TypeP(n, s, m)
      BY <2>5 DEF Prim, Comparisons, TypeOf
    <3>2. QED
      BY <2>3, <3>1
  <2>6. ASSUME n \in {"zero?", "positive?", "negative?", "1+", "1-", "string?", "list?", "length", "number?"}
        PROVE  FALSE
    <3>1. o \in {AgainstZero("=", s, m), AgainstZero(">", s, m), AgainstZero("<", s, m),
                 Miscounted(s, m), ListP(s, m), Length(s, m), NumberP(s, m)}
      BY <2>6 DEF Prim, Comparisons, TypeOf
    <3>2. QED
      BY <2>1, <2>2, <3>1
  <2>7. ASSUME n \in {"vector-length", "bytevector-length", "eq?", "eqv?", "equal?",
                      "char->integer", "integer->char"}
        PROVE  FALSE
    <3>1. o \in {CellCount("vector", s, m), CellCount("bytevector", s, m),
                 Two(s, m, Eq(s[1], s[2])), Two(s, m, Eqv(s[1], s[2])), Two(s, m, Equal(s[1], s[2], m)),
                 Convert("char", "int", s, m), Convert("int", "char", s, m)}
      BY <2>7 DEF Prim, Comparisons, TypeOf
    <3>2. QED
      BY <2>1, <2>3, <2>4, <3>1
  <2>8. QED
    BY <2>5, <2>6, <2>7
<1>6. n \notin {"void", "cons", "vector", "bytevector", "list"}
  <2>1. SUFFICES ASSUME n \in {"void", "cons", "vector", "bytevector", "list"} PROVE FALSE
    OBVIOUS
  <2>2. o \in {Out(Void, s, m), Fresh("pair", s, m), Fresh("vector", s, m),
               Fresh("bytevector", s, m), List(s, m), Fails(m)}
    BY <2>1 DEF Prim, Comparisons, TypeOf
  <2>3. List(s, m).val = Void
    BY DEF List, Out
  <2>4. {"pair", "vector", "bytevector"} \subseteq References
    BY DEF References
  <2>5. QED
    BY <1>1, <1>2, <2>2, <2>3, <2>4
<1>7. n \notin {"set-car!", "set-cdr!", "bytevector-u8-set!", "record-set!", "record-meta-set!",
                "vector-set!"}
  <2>1. SUFFICES ASSUME n \in {"set-car!", "set-cdr!", "bytevector-u8-set!", "record-set!",
                               "record-meta-set!", "vector-set!"}
                 PROVE  FALSE
    OBVIOUS
  <2>2. o \in {SetPair(1, s, m), SetPair(2, s, m), BytevectorSet(s, m), RecordSet(s, m),
               RecordMetaSet(s, m), VectorSet(s, m)}
    BY <2>1 DEF Prim, Comparisons, TypeOf
  <2>3. \A v, i, x : WriteCell(v, i, x, m).val = Void
    BY DEF WriteCell, Out
  <2>4. (\A i : SetPair(i, s, m).val # Junk) /\ BytevectorSet(s, m).val # Junk
        /\ RecordSet(s, m).val # Junk /\ RecordMetaSet(s, m).val # Junk /\ VectorSet(s, m).val # Junk
    BY <1>1, <1>2, <2>3 DEF SetPair, BytevectorSet, RecordSet, RecordMetaSet, VectorSet
  <2>5. QED
    BY <2>2, <2>4
<1>8. n \notin {"make-record", "make-vector", "make-bytevector"}
  <2>1. SUFFICES ASSUME n \in {"make-record", "make-vector", "make-bytevector"} PROVE FALSE
    OBVIOUS
  <2>2. \E ok : o \in {MakeRecord(s, m), MakeFilled("vector", s, m, ok), MakeFilled("bytevector", s, m, ok)}
    BY <2>1 DEF Prim, Comparisons, TypeOf
  <2>3. \A t, c, l : t \in References => [Fresh(t, c, m) EXCEPT !.left = l].val # Junk
    BY DEF Fresh, Out, References, Junk
  <2>4. {"record", "vector", "bytevector"} \subseteq References
    BY DEF References
  <2>5. MakeRecord(s, m).val # Junk
    BY <1>1, <1>2, <2>4 DEF MakeRecord
  <2>6. \A ok : \A t \in {"vector", "bytevector"} : MakeFilled(t, s, m, ok).val # Junk
    BY <1>1, <1>2, <2>3, <2>4 DEF MakeFilled
  <2>7. QED
    BY <2>2, <2>5, <2>6
<1>9. CASE n \in {"car", "cdr"}
  <2>1. \/ Len(s) = 1 /\ (Car(s[1], m) = Junk \/ Cdr(s[1], m) = Junk)
        \/ o = Fails(m)
    BY <1>1, <1>9 DEF Prim, Comparisons, TypeOf
  <2>2. Len(s) = 1 => Sound(s[1], m)
    BY DEF AllSound
  <2>3. QED
    BY <1>1, <2>1, <2>2, PairDirty DEF Dirty
<1>10. CASE n \in {"vector-ref", "bytevector-u8-ref", "record-ref", "record-meta-ref", "list-ref"}
  <2>1. o \in {VectorRef(s, m), BytevectorRef(s, m), RecordRef(s, m), RecordMetaRef(s, m), ListRef(s, m)}
    BY <1>10 DEF Prim, Comparisons, TypeOf
  <2>2. QED
    BY <2>1, ReadsDirty
<1>11. QED
  BY <1>3, <1>4, <1>5, <1>6, <1>7, <1>8, <1>9, <1>10 DEF Primitives

\* No pair holds junk: apply finds none in a list.
Tidy(m) == \A id \in DOMAIN m : ~NoJunk(m[id].cells) => m[id].tag # "pair"

\* What a call may do with junk: leave it in the objects its worker makes,
\* and return it if there was some.
Sparing(w, o, m) == Clean(o, m, Made(w, o, m)) /\ (o.val = Junk => Dirty(m))

LEMMA PrimSparing ==
    ASSUME NEW m, WellMade(m), NEW s, AllSound(s, m), NoJunk(s), NEW n \in Primitives
    PROVE  Sparing([prim |-> n, args |-> s], Prim(n, s, m), m)
<1>1. s \in Seq(Values)
  BY DEF AllSound
<1>2. Clean(Prim(n, s, m), m, Made([prim |-> n, args |-> s], Prim(n, s, m), m))
  BY <1>1, PrimClean
<1>3. Prim(n, s, m).val = Junk => Dirty(m)
  BY JunkRead
<1>4. QED
  BY <1>2, <1>3 DEF Sparing

LEMMA FailsSparing ==
    ASSUME NEW m, NEW w
    PROVE  Sparing(w, Fails(m), m)
<1>1. Fails(m).val # Junk
  BY DEF Fails, Out, Error, Junk
<1>2. Clean(Fails(m), m, Made(w, Fails(m), m))
  BY FailsClean
<1>3. QED
  BY <1>1, <1>2 DEF Sparing

LEMMA ListArgsNoJunk ==
    ASSUME NEW m, WellMade(m), Tidy(m), NEW v, Sound(v, m)
    PROVE  NoJunk(ListArgs(v, m))
<1> DEFINE c == Cdrs(v, m)
           ends == {n \in DOMAIN c : ~Is("pair", c[n])}
           n == CHOOSE j \in ends : \A i \in ends : j <= i
<1>1. Len(m) \in Nat /\ DOMAIN c = 0 .. (2 * Len(m) + 3)
      /\ \A j \in 0 .. (2 * Len(m) + 3) : Sound(c[j], m)
  BY CdrsSound, CdrsFacts
<1>2. CASE ends = {} \/ c[n] # Null
  <2>1. ListArgs(v, m) = <<Error>>
    BY <1>2 DEF ListArgs
  <2>2. Error # Junk
    BY DEF Error, Junk
  <2>3. QED
    BY <2>1, <2>2 DEF NoJunk
<1>3. CASE ends # {} /\ c[n] = Null
  <2>1. n \in 0 .. (2 * Len(m) + 3)
    <3>1. ends \subseteq Nat
      BY <1>1
    <3>2. \E j \in ends : \A i \in ends : j <= i
      <4> HIDE DEF ends
      <4> QED BY <1>3, <3>1, LeastNat
    <3>3. n \in ends
      <4> HIDE DEF ends
      <4> QED BY <3>2
    <3>4. QED
      BY <3>3, <1>1
  <2>2. ListArgs(v, m) = [i \in 1 .. n |-> Car(c[i - 1], m)]
    BY <1>3 DEF ListArgs
  <2> HIDE DEF n, c
  <2>3. ASSUME NEW i \in 1 .. n PROVE Car(c[i - 1], m) # Junk
    <3>1. i - 1 \in 0 .. (2 * Len(m) + 3)
      BY <1>1, <2>1
    <3>2. Sound(c[i - 1], m)
      BY <1>1, <3>1
    <3>3. QED
      BY <3>2, PairDirty DEF Tidy
  <2>4. QED
    BY <2>2, <2>3 DEF NoJunk
<1>4. QED
  BY <1>2, <1>3

LEMMA ConcatNoJunk ==
    ASSUME NEW s \in Seq(Values), NEW t \in Seq(Values), NoJunk(s), NoJunk(t)
    PROVE  NoJunk(s \o t)
<1>1. /\ DOMAIN (s \o t) = 1 .. Len(s) + Len(t) /\ Len(s) \in Nat /\ Len(t) \in Nat
      /\ DOMAIN s = 1 .. Len(s) /\ DOMAIN t = 1 .. Len(t)
      /\ \A i \in 1 .. Len(s) + Len(t) : (s \o t)[i] = IF i <= Len(s) THEN s[i] ELSE t[i - Len(s)]
  BY ConcatProperties
<1>2. ASSUME NEW i \in DOMAIN (s \o t) PROVE (s \o t)[i] # Junk
  <2>1. \/ i \in DOMAIN s /\ (s \o t)[i] = s[i]
        \/ i - Len(s) \in DOMAIN t /\ (s \o t)[i] = t[i - Len(s)]
    BY <1>1, <1>2
  <2>2. QED
    BY <2>1 DEF NoJunk
<1>3. QED
  BY <1>2 DEF NoJunk

LEMMA ApplySparing ==
    ASSUME NEW m, WellMade(m), Tidy(m), NEW s, AllSound(s, m), NoJunk(s)
    PROVE  Sparing(Worker("apply", s, m), Apply(s, m), m)
<1> DEFINE G == {v \in Values : Refers(v, m) /\ v # Junk}
<1>1. CASE s = <<>> \/ ~Is("proc", s[1]) \/ Error \in ToSet(Spread(s, m)) \/ Len(Spread(s, m)) >= ArgStackLen
  BY <1>1, FailsSparing DEF Apply
<1>2. CASE ~(s = <<>> \/ ~Is("proc", s[1]) \/ Error \in ToSet(Spread(s, m)) \/ Len(Spread(s, m)) >= ArgStackLen)
  <2>1. s \in Seq(G) /\ s # <<>>
    <3>1. s \in Seq(Values) /\ DOMAIN s = 1 .. Len(s) /\ Len(s) \in Nat
      BY DEF AllSound
    <3>2. \A i \in 1 .. Len(s) : s[i] \in G
      BY <3>1 DEF AllSound, Sound, NoJunk
    <3>3. s \in [1 .. Len(s) -> G]
      <4> HIDE DEF G
      <4> QED BY <3>1, <3>2
    <3>4. QED
      BY <1>2, <3>1, <3>3, FunctionIsSeq
  <2>2. s[1][2] \in Primitives
    <3>1. Len(s) >= 1 /\ s \in Seq(Values)
      BY <2>1, EmptySeq DEF AllSound
    <3>2. s[1] \in Values
      BY <3>1
    <3>3. QED
      BY <1>2, <3>2, ValueFacts
  <2> DEFINE rest == Tail(s)
  <2>3. rest \in Seq(G)
    <3> HIDE DEF G
    <3> QED BY <2>1, HeadTailProperties
  <2> HIDE DEF rest
  <2>4. AllSound(Spread(s, m), m) /\ NoJunk(Spread(s, m))
    <3>1. CASE rest = <<>>
      <4>1. Spread(s, m) = <<>>
        BY <3>1 DEF Spread, rest
      <4>2. QED
        BY <4>1, EmptySound DEF NoJunk
    <3>2. CASE rest # <<>>
      <4>1. Front(rest) \in Seq(G) /\ Last(rest) \in G
        <5> HIDE DEF G
        <5> QED BY <2>3, <3>2, FrontFacts DEF Front, Last
      <4>2. AllSound(Front(rest), m) /\ NoJunk(Front(rest))
        <5>1. \A i \in DOMAIN Front(rest) : Front(rest)[i] \in G
          <6> HIDE DEF G
          <6> QED BY <4>1
        <5>2. G \subseteq Values
          OBVIOUS
        <5>3. Front(rest) \in Seq(Values)
          <6> HIDE DEF G
          <6> QED BY <4>1, <5>2
        <5>4. QED
          BY <5>1, <5>3 DEF AllSound, Sound, NoJunk
      <4>3. Sound(Last(rest), m)
        BY <4>1 DEF Sound
      <4>4. AllSound(ListArgs(Last(rest), m), m) /\ NoJunk(ListArgs(Last(rest), m))
        BY <4>3, ListArgsSound, ListArgsNoJunk
      <4>5. Spread(s, m) = Front(rest) \o ListArgs(Last(rest), m)
        BY <3>2 DEF Spread, rest
      <4>6. QED
        BY <4>2, <4>4, <4>5, ConcatSound, ConcatNoJunk DEF AllSound
    <3>3. QED
      BY <3>1, <3>2
  <2>5. Apply(s, m) = Prim(s[1][2], Spread(s, m), m)
    BY <1>2 DEF Apply
  <2>6. Worker("apply", s, m) = [prim |-> s[1][2], args |-> Spread(s, m)]
    BY <1>2 DEF Worker
  <2>7. QED
    BY <2>2, <2>4, <2>5, <2>6, PrimSparing
<1>3. QED
  BY <1>1, <1>2

\* A producer, called without arguments, makes no bare object.
LEMMA CallWithValuesSparing ==
    ASSUME NEW m, WellMade(m), NEW s, AllSound(s, m)
    PROVE  Sparing(Worker("call-with-values", s, m), CallWithValues(s, m), m)
<1>1. CASE Len(s) # 2 \/ \E i \in DOMAIN s : ~Is("proc", s[i])
  BY <1>1, FailsSparing DEF CallWithValues
<1>2. CASE ~(Len(s) # 2 \/ \E i \in DOMAIN s : ~Is("proc", s[i]))
  <2> DEFINE p == s[1][2]
             c == s[2][2]
             o == Prim(p, <<>>, m)
             t == <<o.val>> \o o.left
             o2 == Prim(c, t, o.mem)
             w == [prim |-> c, args |-> t]
  <2>1. p \in Primitives /\ c \in Primitives
    <3>1. Len(s) = 2 /\ s \in Seq(Values) /\ \A i \in DOMAIN s : Is("proc", s[i])
      BY <1>2 DEF AllSound
    <3>2. 1 \in DOMAIN s /\ 2 \in DOMAIN s
      BY <3>1
    <3>3. s[1] \in Values /\ s[2] \in Values
      BY <3>1
    <3>4. Is("proc", s[1]) /\ Is("proc", s[2])
      BY <3>1, <3>2, Zenon
    <3>5. QED
      BY <3>3, <3>4, ValueFacts
  <2>2. AllSound(<<>>, m) /\ NoJunk(<<>>)
    BY EmptySound DEF NoJunk
  <2>3. Good(o, m) /\ o.val \in Values /\ o.val # Junk
    <3> HIDE DEF p
    <3> QED BY <2>1, <2>2, PrimGood, ProducerValue
  <2>4. Clean(o, m, {})
    <3>1. Clean(o, m, Made([prim |-> p, args |-> <<>>], o, m))
      <4> HIDE DEF p
      <4> QED BY <2>1, <2>2, PrimClean DEF AllSound
    <3>2. Made([prim |-> p, args |-> <<>>], o, m) = {} \/ p = "make-record"
      BY DEF Made, MakesBare
    <3>3. p = "make-record" => o = Fails(m)
      BY DEF Prim, Comparisons, TypeOf, MakeRecord
    <3>4. Clean(Fails(m), m, {})
      BY FailsClean
    <3> HIDE DEF o
    <3>5. QED
      BY <3>1, <3>2, <3>3, <3>4
  <2>5. /\ CallWithValues(s, m) = IF o.val \in {Error, Chaos} THEN o ELSE o2
        /\ Worker("call-with-values", s, m) = w
    BY <1>2 DEF CallWithValues, Worker
  <2> HIDE DEF p, c, o
  <2>6. AllSound(t, o.mem) /\ NoJunk(t)
    <3>1. Sound(o.val, o.mem) /\ AllSound(o.left, o.mem) /\ NoJunk(o.left)
      BY <2>3, <2>4 DEF Good, Sound, Clean
    <3>2. <<o.val>> \in Seq(Values) /\ o.left \in Seq(Values) /\ NoJunk(<<o.val>>)
      BY <2>3, <3>1 DEF AllSound, NoJunk
    <3>3. QED
      BY <3>1, <3>2, PairSound, ConcatSound, ConcatNoJunk
  <2> HIDE DEF t
  <2>7. Sparing(w, o2, o.mem) /\ Good(o2, o.mem)
    BY <2>1, <2>3, <2>6, PrimSparing, PrimGood DEF Good
  <2> HIDE DEF o2, w
  <2>8. Dirty(o.mem) => Dirty(m)
    BY <2>4 DEF Clean, Dirty
  <2>9. Made(w, o2, o.mem) \subseteq Made(w, o2, m)
    <3>1. Len(m) \in Nat /\ Len(o.mem) \in Nat /\ Len(m) <= Len(o.mem) /\ Len(o2.mem) \in Nat
      BY <2>3, <2>7 DEF Good, Grows
    <3>2. (Len(o.mem) + 1) .. Len(o2.mem) \subseteq (Len(m) + 1) .. Len(o2.mem)
      BY <3>1
    <3>3. QED
      BY <3>2 DEF Made
  <2>10. Sparing(w, o2, m)
    <3>1. NoJunk(o2.left) /\ (o2.val = Junk => Dirty(m))
      BY <2>7, <2>8 DEF Sparing, Clean
    <3>2. ASSUME NEW id \in DOMAIN o2.mem, ~NoJunk(o2.mem[id].cells)
          PROVE  \/ id \in DOMAIN m /\ ~NoJunk(m[id].cells)
                 \/ id \in Made(w, o2, m) /\ o2.mem[id].tag # "pair"
      <4>1. \/ id \in DOMAIN o.mem /\ ~NoJunk(o.mem[id].cells)
            \/ id \in Made(w, o2, o.mem) /\ o2.mem[id].tag # "pair"
        BY <2>7, <3>2 DEF Sparing, Clean
      <4>2. QED
        BY <2>4, <2>9, <4>1 DEF Clean
    <3>3. QED
      BY <3>1, <3>2 DEF Sparing, Clean
  <2>11. Sparing(w, o, m)
    BY <2>3, <2>4 DEF Sparing, Clean
  <2>12. QED
    BY <2>5, <2>10, <2>11
<1>3. QED
  BY <1>1, <1>2

\* The inductive invariant: as long as no primitive has returned junk there
\* is none on the stack and none in a pair, and what there is lies in the
\* objects that were made bare.
JunkInv ==
    /\ PrimsInv
    /\ ~held => /\ NoJunk(stk)
                /\ Tidy(mem)
                /\ \A id \in DOMAIN mem : ~NoJunk(mem[id].cells) => id \in bare
    /\ held => bare # {}

\* One step: the primitive n took the stack s.
LEMMA SparingContinue ==
    ASSUME JunkInv, NEW n, NEW args, NEW inline, NEW s, NEW o, NEW ok,
           Good(o, mem), ~held => Sparing(Worker(n, s, mem), o, mem),
           Continue(n, args, inline, s, o, ok)
    PROVE  JunkInv'
<1> DEFINE w == Worker(n, s, mem)
<1> HIDE DEF w
<1>1. /\ mem' = o.mem /\ stk' \in {o.left, <<>>} /\ held' = (held \/ o.val = Junk)
      /\ bare' = bare \cup Made(w, o, mem)
  <2>1. mem' = o.mem /\ stk' \in {o.left, <<>>} /\ held' = (held \/ o.val = Junk)
    BY DEF Continue
  <2>2. bare' = IF MakesBare(w) THEN bare \cup (Len(mem) + 1) .. Len(o.mem) ELSE bare
    BY DEF Continue, w
  <2>3. QED
    BY <2>1, <2>2 DEF Made
<1>2. PrimsInv' /\ Grows(mem, mem')
  BY ContinueKeeps DEF JunkInv
<1>3. CASE held
  BY <1>1, <1>2, <1>3 DEF JunkInv
<1>4. CASE ~held
  <2>1. Clean(o, mem, Made(w, o, mem)) /\ (o.val = Junk => Dirty(mem))
    BY <1>4 DEF Sparing, w
  <2>2. NoJunk(stk')
    BY <1>1, <2>1 DEF Clean, NoJunk
  <2>3. ASSUME NEW id \in DOMAIN mem', ~NoJunk(mem'[id].cells)
        PROVE  id \in bare' /\ mem'[id].tag # "pair"
    <3>1. CASE id \in DOMAIN mem /\ ~NoJunk(mem[id].cells)
      <4>1. id \in bare /\ mem[id].tag # "pair"
        BY <1>4, <3>1 DEF JunkInv, Tidy
      <4>2. QED
        BY <1>1, <1>2, <3>1, <4>1 DEF Grows
    <3>2. CASE id \in Made(w, o, mem) /\ o.mem[id].tag # "pair"
      BY <1>1, <3>2
    <3>3. QED
      BY <1>1, <2>1, <2>3, <3>1, <3>2 DEF Clean
  <2>4. held' => bare' # {}
    <3>1. Dirty(mem) => bare # {}
      BY <1>4 DEF JunkInv, Dirty
    <3>2. QED
      BY <1>1, <1>4, <2>1, <3>1
  <2>5. QED
    BY <1>2, <2>2, <2>3, <2>4 DEF JunkInv, Tidy
<1>5. QED
  BY <1>3, <1>4

LEMMA ArgumentsNoJunk ==
    ASSUME JunkInv, ~held, NEW args \in Programs[program].arguments, Usable(args)
    PROVE  \A s \in Stacks(args) : NoJunk(s)
<1>1. args \in Seq(Values) /\ stk \in Seq(Values)
  BY ArgumentsSound DEF JunkInv, PrimsInv, AllSound, Stacks
<1>2. Junk \notin ToSet(args)
  BY DEF Usable
<1>3. NoJunk(args)
  BY <1>2 DEF NoJunk, ToSet
<1>4. NoJunk(args \o stk)
  BY <1>1, <1>3, ConcatNoJunk DEF JunkInv
<1>5. QED
  BY <1>3, <1>4 DEF Stacks

LEMMA JunkNext ==
    ASSUME JunkInv, [Next]_vars
    PROVE  JunkInv'
<1>0. PrimsInv /\ WellMade(mem)
  BY DEF JunkInv, PrimsInv
<1>1. ASSUME NEW n \in Programs[program].primops, NEW args \in Programs[program].arguments,
             Primcall(n, args)
      PROVE  JunkInv'
  <2> DEFINE s == args \o stk
             o == Prim(n, s, mem)
             ok == Len(s) <= ArgStackLen /\ o.val \notin {Error, Chaos}
  <2>1. n \in Inlined /\ n \in Primitives
    BY <1>0, ProgramsAssumption DEF PrimsInv, Inlined, Primitives, Comparisons
  <2>2. AllSound(s, mem) /\ (~held => NoJunk(s)) /\ Continue(n, args, TRUE, s, o, ok)
    BY <1>0, <1>1, ArgumentsSound, ArgumentsNoJunk DEF Primcall, Stacks
  <2>3. Worker(n, s, mem) = [prim |-> n, args |-> s]
    BY <2>1 DEF Worker, Inlined
  <2> HIDE DEF s, ok
  <2>4. Good(o, mem) /\ (~held => Sparing(Worker(n, s, mem), o, mem))
    BY <1>0, <2>1, <2>2, <2>3, PrimGood, PrimSparing
  <2> HIDE DEF o
  <2>5. QED
    BY <2>2, <2>4, SparingContinue
<1>2. ASSUME NEW n \in Programs[program].procedures, NEW args \in Programs[program].arguments,
             NEW s \in Stacks(args), Call(n, args, s)
      PROVE  JunkInv'
  <2> DEFINE o == CASE n = "apply" -> Apply(s, mem)
                    [] n = "call-with-values" -> CallWithValues(s, mem)
                    [] OTHER -> Prim(n, s, mem)
             ok == Len(s) < ArgStackLen /\ o.val \notin {Error, Chaos} /\ o.left = <<>>
  <2>1. n \in Primitives \/ n = "apply" \/ n = "call-with-values"
    BY <1>0, ProgramsAssumption DEF PrimsInv
  <2>2. Usable(args) /\ Continue(n, args, FALSE, s, o, ok)
    BY <1>2 DEF Call
  <2>3. AllSound(s, mem) /\ (~held => NoJunk(s))
    BY <1>0, <2>2, ArgumentsSound, ArgumentsNoJunk
  <2> HIDE DEF ok
  <2>4. Good(o, mem) /\ (~held => Sparing(Worker(n, s, mem), o, mem))
    <3>1. CASE n = "apply"
      BY <1>0, <2>3, <3>1, ApplyGood, ApplySparing DEF JunkInv
    <3>2. CASE n = "call-with-values"
      BY <1>0, <2>3, <3>2, CallWithValuesGood, CallWithValuesSparing
    <3>3. CASE n # "apply" /\ n # "call-with-values"
      <4>1. n \in Primitives /\ o = Prim(n, s, mem)
        BY <2>1, <3>3
      <4>2. Worker(n, s, mem) = [prim |-> n, args |-> s]
        BY <3>3 DEF Worker
      <4> HIDE DEF o
      <4>3. QED
        BY <1>0, <2>3, <4>1, <4>2, PrimGood, PrimSparing
    <3>4. QED
      BY <3>1, <3>2, <3>3
  <2> HIDE DEF o
  <2>5. QED
    BY <2>2, <2>4, SparingContinue
<1>3. ASSUME Astray
      PROVE  JunkInv'
  <2>1. PrimsInv'
    BY <1>0, <1>3, InvNext DEF Next
  <2>2. mem' = mem /\ bare' = bare /\ held' = held /\ stk' = <<>>
    BY <1>3 DEF Astray
  <2>3. NoJunk(<<>>)
    BY DEF NoJunk
  <2>4. QED
    BY <2>1, <2>2, <2>3 DEF JunkInv
<1>4. ASSUME UNCHANGED vars
      PROVE  JunkInv'
  <2>1. PrimsInv'
    BY <1>0, InvNext
  <2>2. QED
    BY <1>4, <2>1 DEF JunkInv, vars
<1>5. QED
  BY <1>1, <1>2, <1>3, <1>4 DEF Next, Exited

\* For every program, what it does with junk included: until a primitive has
\* returned junk, the only cells that hold what malloc left in them are those
\* of make-vector and make-bytevector without a fill and of make-record, made
\* directly or through apply or call-with-values; and a primitive returns
\* junk only after such an object was made.
THEOREM JunkExplained == Spec => []JunkOnlyBare
<1>1. Init => JunkInv
  <2> SUFFICES ASSUME Init PROVE JunkInv
    OBVIOUS
  <2>1. PrimsInv
    BY InvInit
  <2>2. NoJunk(stk) /\ ~held
    BY DEF Init, NoJunk
  <2>3. \A id \in DOMAIN mem : Junk \notin ToSet(mem[id].cells)
    BY ArgumentsAssumption DEF Init
  <2>4. \A id \in DOMAIN mem : NoJunk(mem[id].cells)
    BY <2>3 DEF NoJunk, ToSet
  <2>5. QED
    BY <2>1, <2>2, <2>4 DEF JunkInv, Tidy
<1>2. JunkInv /\ [Next]_vars => JunkInv'
  BY JunkNext
<1>3. JunkInv => JunkOnlyBare
  BY DEF JunkInv, JunkOnlyBare, NoJunk, ToSet
<1>4. QED
  BY <1>1, <1>2, <1>3, PTL DEF Spec
=============================================================================
