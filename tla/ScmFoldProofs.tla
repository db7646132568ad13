---------------------------- MODULE ScmFoldProofs ---------------------------
EXTENDS ScmPrimsProofs
(***************************************************************************)
(* Proof that constant folding agrees with the runtime: what the compiler  *)
(* computes for constant arguments (prim_add ... prim_geq of cps.c over    *)
(* sly_add ... of sly_types.c) is what the primitive of the runtime        *)
(* (primop_add ... primop_geq over addxx ... of scm_runtime.c) returns.    *)
(*                                                                         *)
(* The two differ in how they get there: the runtime folds from the first  *)
(* argument, in 32 bits and rejecting infinities, the compiler from 0 or   *)
(* 1 in 64 bits, which turns a float into another representation of the    *)
(* same fraction.  So numbers are compared as fractions (Cross, Like):     *)
(* Float(n, d) is n / d, each operation respects the agreement of          *)
(* fractions, and the accumulators of the two folds agree after each       *)
(* argument (RunningLike, by least counterexample).                        *)
(***************************************************************************)

-----------------------------------------------------------------------------
(* Integers.                                                               *)

LEMMA Cancel ==
    ASSUME NEW x \in Int, NEW y \in Int, NEW c \in Int, c # 0, x * c = y * c
    PROVE  x = y
OBVIOUS

\* The fractions n / d and k / e agree.
Cross(n, d, k, e) == n * e = k * d

\* Fractions that agree with a third one agree.
LEMMA CrossTrans ==
    ASSUME NEW n1 \in Int, NEW d1 \in Int, NEW n2 \in Int, NEW d2 \in Int,
           NEW n3 \in Int, NEW d3 \in Int, d2 # 0,
           Cross(n1, d1, n2, d2), Cross(n2, d2, n3, d3)
    PROVE  Cross(n1, d1, n3, d3)
<1>0. n1 * d2 = n2 * d1 /\ n2 * d3 = n3 * d2
  BY DEF Cross
<1>1. (n1 * d3) * d2 = (n1 * d2) * d3
  OBVIOUS
<1>2. (n2 * d1) * d3 = (n2 * d3) * d1
  OBVIOUS
<1>3. (n3 * d2) * d1 = (n3 * d1) * d2
  OBVIOUS
<1>4. (n1 * d3) * d2 = (n3 * d1) * d2
  BY <1>0, <1>1, <1>2, <1>3
<1>5. n1 * d3 \in Int /\ n3 * d1 \in Int
  OBVIOUS
<1>6. QED
  BY <1>4, <1>5, Cancel DEF Cross

\* The shape FloatFacts needs.
LEMMA Regroup ==
    ASSUME NEW e \in Int, NEW k \in Int, NEW g \in Int, NEW q \in Int
    PROVE  (e * k) * (e * (g * q)) = (e * e) * ((g * k) * q)
OBVIOUS

LEMMA Divides ==
    ASSUME NEW n \in Int, NEW g \in Nat, g # 0, Abs(n) % g = 0
    PROVE  n \div g \in Int /\ n = g * (n \div g)
<1>1. CASE n >= 0
  BY <1>1 DEF Abs
<1>2. CASE n < 0
  <2>1. (-n) % g = 0
    BY <1>2 DEF Abs
  <2>2. PICK k \in Int : -n = g * k
    BY <2>1
  <2>3. n = g * (-k)
    BY <2>2
  <2>4. n \div g \in Int
    OBVIOUS
  <2>5. n % g \in Int /\ 0 <= n % g /\ n % g < g
    OBVIOUS
  <2>6. n = (g * (n \div g)) + (n % g)
    OBVIOUS
  <2>7. QED
    BY <2>3, <2>4, <2>5, <2>6
<1>3. QED
  BY <1>1, <1>2

LEMMA GcdFacts ==
    ASSUME NEW a \in Nat, NEW b \in Nat, a + b # 0
    PROVE  Gcd(a, b) \in Nat /\ Gcd(a, b) # 0 /\ a % Gcd(a, b) = 0 /\ b % Gcd(a, b) = 0
<1> DEFINE P(g) == a % g = 0 /\ b % g = 0
           T == {k \in 0 .. (a + b - 1) : P(a + b - k)}
<1>1. a + b - 1 \in T
  <2>1. a % 1 = 0 /\ b % 1 = 0
    OBVIOUS
  <2>2. a + b - (a + b - 1) = 1 /\ a + b - 1 \in 0 .. (a + b - 1)
    OBVIOUS
  <2>3. QED
    BY <2>1, <2>2
<1>2. PICK k \in T : \A y \in T : k <= y
  <2>1. T \subseteq Nat /\ T # {}
    <3>1. \A x \in 0 .. (a + b - 1) : x \in Nat
      OBVIOUS
    <3> HIDE DEF P
    <3>2. QED
      BY <1>1, <3>1
  <2> HIDE DEF T
  <2>2. QED
    BY <2>1, LeastNat
<1> DEFINE g == a + b - k
<1>3. g \in 1 .. (a + b) /\ P(g)
  BY <1>2
<1>4. ASSUME NEW h \in (g + 1) .. (a + b) PROVE a % h # 0 \/ b % h # 0
  <2>1. a + b - h \in 0 .. (a + b - 1) /\ a + b - h < k /\ a + b - (a + b - h) = h
    BY <1>2, <1>4
  <2>2. a + b - h \notin T
    BY <1>2, <2>1
  <2>3. QED
    BY <2>1, <2>2
<1>5. \E x \in 1 .. (a + b) :
         /\ a % x = 0 /\ b % x = 0
         /\ \A h \in (x + 1) .. (a + b) : a % h # 0 \/ b % h # 0
  <2> HIDE DEF g
  <2> QED BY <1>3, <1>4
<1>6. Gcd(a, b) \in 1 .. (a + b) /\ a % Gcd(a, b) = 0 /\ b % Gcd(a, b) = 0
  BY <1>5, Zenon DEF Gcd
<1>7. QED
  BY <1>6

-----------------------------------------------------------------------------
(* Numbers as fractions.                                                   *)

\* A number: an integer, or a float with a positive denominator.
Finite(v) ==
    /\ Num(v) \in Int /\ Den(v) \in Nat /\ Den(v) # 0
    /\ (Is("int", v) /\ v = Integer(v[2])) \/ Is("flo", v)

LEMMA NumberFinite ==
    ASSUME NEW v \in Values
    PROVE  IsNumber(v) <=> Finite(v)
<1>1. CASE Is("int", v)
  <2>1. v = <<"int", v[2]>> /\ v[2] \in Int /\ v[1] # "flo"
    BY <1>1, ValueFacts DEF Is
  <2>2. QED
    BY <1>1, <2>1 DEF IsNumber, Finite, Num, Den, Is, Integer
<1>2. CASE Is("flo", v)
  <2>1. v[2] \in Int /\ v[3] \in Nat /\ v[1] # "int"
    BY <1>2 DEF Values, Is, References
  <2>2. QED
    BY <1>2, <2>1 DEF IsNumber, Finite, Num, Den, Is
<1>3. CASE ~Is("int", v) /\ ~Is("flo", v)
  BY <1>3 DEF IsNumber, Finite
<1>4. QED
  BY <1>1, <1>2, <1>3

\* The float n / d is n / d.
LEMMA FloatFacts ==
    ASSUME NEW n \in Int, NEW d \in Int, d # 0
    PROVE  /\ Finite(Float(n, d)) /\ Is("flo", Float(n, d))
           /\ Num(Float(n, d)) * d = n * Den(Float(n, d))
<1> DEFINE g == Gcd(Abs(n), Abs(d))
           p == Sign(d) * (n \div g)
           q == Abs(d) \div g
<1>1. Float(n, d) = <<"flo", p, q>>
  BY DEF Float
<1>2. Abs(n) \in Nat /\ Abs(d) \in Nat /\ Abs(n) + Abs(d) # 0 /\ Abs(d) # 0
  BY DEF Abs
<1>3. g \in Nat /\ g # 0 /\ Abs(n) % g = 0 /\ Abs(d) % g = 0
  BY <1>2, GcdFacts
<1>4. Abs(Abs(d)) = Abs(d) /\ Abs(d) \in Int
  BY <1>2 DEF Abs
<1> HIDE DEF g
<1>5. n \div g \in Int /\ n = g * (n \div g) /\ q \in Int /\ Abs(d) = g * q
  BY <1>3, <1>4, Divides
<1>6. Sign(d) \in Int /\ d = Sign(d) * Abs(d) /\ Sign(d) * Sign(d) = 1
  BY DEF Sign, Abs
<1> DEFINE k == n \div g
<1>7. k \in Int /\ n = g * k
  BY <1>5
<1> HIDE DEF k, q
<1>8. q > 0
  BY <1>2, <1>3, <1>5
<1>9. Sign(d) * k \in Int
  BY <1>6, <1>7
<1>10. (Sign(d) * k) * d = n * q
  <2>1. d = Sign(d) * (g * q)
    BY <1>5, <1>6
  <2>2. (Sign(d) * k) * (Sign(d) * (g * q)) = (Sign(d) * Sign(d)) * ((g * k) * q)
    <3>1. g \in Int
      BY <1>3
    <3>2. QED
      <4> DEFINE e == Sign(d)
      <4>1. e \in Int /\ k \in Int /\ g \in Int /\ q \in Int
        BY <1>5, <1>6, <1>7, <3>1
      <4> HIDE DEF e
      <4>2. (e * k) * (e * (g * q)) = (e * e) * ((g * k) * q)
        BY <4>1, Regroup
      <4>3. QED
        BY <4>2 DEF e
  <2>3. (g * k) * q \in Int
    BY <1>3, <1>5, <1>7
  <2>4. (Sign(d) * Sign(d)) * ((g * k) * q) = (g * k) * q
    BY <1>6, <2>3
  <2>5. QED
    BY <1>7, <2>1, <2>2, <2>4
<1>11. Float(n, d) = <<"flo", Sign(d) * k, q>>
  BY <1>1 DEF k
<1>12. QED
  BY <1>5, <1>8, <1>9, <1>10, <1>11 DEF Finite, Num, Den, Is

\* x and y are the same number, written in the same type.
Like(x, y) ==
    /\ Finite(x) /\ Finite(y)
    /\ Is("int", x) <=> Is("int", y)
    /\ Cross(Num(x), Den(x), Num(y), Den(y))

LEMMA LikeRefl ==
    ASSUME NEW x, Finite(x)
    PROVE  Like(x, x)
BY DEF Like, Cross

LEMMA IntegersLike ==
    ASSUME NEW x, NEW y, Like(x, y), Is("int", x)
    PROVE  x = y /\ x[2] \in Int /\ Den(x) = 1
<1>1. Is("int", y) /\ Finite(x) /\ Finite(y) /\ Den(x) = 1 /\ Den(y) = 1
  BY DEF Like, Den, Is
<1>2. Num(x) \in Int /\ Num(y) \in Int /\ x = Integer(Num(x)) /\ y = Integer(Num(y))
  BY <1>1 DEF Finite, Is, Num
<1>3. Num(x) = Num(y)
  <2>1. Num(x) * 1 = Num(y) * 1
    BY <1>1 DEF Like, Cross
  <2>2. QED
    BY <1>2, <2>1
<1>4. QED
  BY <1>1, <1>2, <1>3 DEF Num

\* Floats of fractions that agree.
LEMMA FloatsLike ==
    ASSUME NEW n1 \in Int, NEW d1 \in Int, NEW n2 \in Int, NEW d2 \in Int,
           d1 # 0, d2 # 0, Cross(n1, d1, n2, d2)
    PROVE  Like(Float(n1, d1), Float(n2, d2))
<1> DEFINE x == Float(n1, d1)
           y == Float(n2, d2)
<1>1. /\ Finite(x) /\ Is("flo", x) /\ Cross(Num(x), Den(x), n1, d1)
      /\ Finite(y) /\ Is("flo", y) /\ Cross(n2, d2, Num(y), Den(y))
  BY FloatFacts DEF Cross
<1> HIDE DEF x, y
<1>2. Num(x) \in Int /\ Den(x) \in Int /\ Num(y) \in Int /\ Den(y) \in Int
  BY <1>1 DEF Finite
<1>3. Cross(Num(x), Den(x), n2, d2)
  BY <1>1, <1>2, CrossTrans
<1>4. Cross(Num(x), Den(x), Num(y), Den(y))
  BY <1>1, <1>2, <1>3, CrossTrans
<1>5. QED
  BY <1>1, <1>4 DEF Like, Is, x, y

LEMMA LikeTrans ==
    ASSUME NEW x, NEW y, NEW z, Like(x, y), Like(y, z)
    PROVE  Like(x, z)
<1>1. /\ Num(x) \in Int /\ Den(x) \in Int /\ Num(y) \in Int /\ Den(y) \in Int /\ Den(y) # 0
      /\ Num(z) \in Int /\ Den(z) \in Int
  BY DEF Like, Finite
<1>2. Cross(Num(x), Den(x), Num(z), Den(z))
  BY <1>1, CrossTrans DEF Like
<1>3. QED
  BY <1>2 DEF Like

\* eqv? does not tell them apart.
LEMMA LikeEqv ==
    ASSUME NEW x, NEW y, Finite(x), Finite(y), Cross(Num(x), Den(x), Num(y), Den(y))
    PROVE  Eqv(x, y)
<1>1. IsNumber(x) /\ IsNumber(y) /\ x # NaN /\ y # NaN
  BY DEF Finite, IsNumber, Den, Is, NaN
<1>2. Den(x) # 0 /\ Num(x) * Den(y) \in Int
  BY DEF Finite
<1>3. Diff(x, y) = 0
  BY <1>2 DEF Diff, Cross
<1>4. QED
  BY <1>1, <1>3 DEF Eqv, NumEqXX, Ordered

-----------------------------------------------------------------------------
(* Arithmetic on fractions that agree.                                     *)

LEMMA SumCross ==
    ASSUME NEW na \in Int, NEW da \in Int, NEW nb \in Int, NEW db \in Int,
           NEW ny \in Int, NEW dy \in Int, NEW nz \in Int, NEW dz \in Int,
           Cross(na, da, nb, db), Cross(ny, dy, nz, dz)
    PROVE  Cross(na * dy + ny * da, da * dy, nb * dz + nz * db, db * dz)
<1>1. na * db = nb * da /\ ny * dz = nz * dy
  BY DEF Cross
<1>2. (na * dy + ny * da) * (db * dz) = (na * db) * (dy * dz) + (ny * dz) * (da * db)
  OBVIOUS
<1>3. (nb * dz + nz * db) * (da * dy) = (nb * da) * (dy * dz) + (nz * dy) * (da * db)
  OBVIOUS
<1>4. QED
  BY <1>1, <1>2, <1>3 DEF Cross

LEMMA ProductCross ==
    ASSUME NEW na \in Int, NEW da \in Int, NEW nb \in Int, NEW db \in Int,
           NEW ny \in Int, NEW dy \in Int, NEW nz \in Int, NEW dz \in Int,
           Cross(na, da, nb, db), Cross(ny, dy, nz, dz)
    PROVE  /\ Cross(na * ny, da * dy, nb * nz, db * dz)
           /\ Cross(na * dy, da * ny, nb * dz, db * nz)
<1>1. na * db = nb * da /\ ny * dz = nz * dy
  BY DEF Cross
<1>2. /\ (na * ny) * (db * dz) = (na * db) * (ny * dz)
      /\ (nb * nz) * (da * dy) = (nb * da) * (nz * dy)
  OBVIOUS
<1>3. /\ (na * dy) * (db * nz) = (na * db) * (nz * dy)
      /\ (nb * dz) * (da * ny) = (nb * da) * (ny * dz)
  OBVIOUS
<1>4. Cross(na * ny, da * dy, nb * nz, db * dz)
  BY <1>1, <1>2 DEF Cross
<1>5. Cross(na * dy, da * ny, nb * dz, db * nz)
  BY <1>1, <1>3 DEF Cross
<1>6. QED
  BY <1>4, <1>5

LEMMA NegativeCross ==
    ASSUME NEW n \in Int, NEW d \in Int, NEW k \in Int, NEW e \in Int, Cross(n, d, k, e)
    PROVE  Cross(-n, d, -k, e)
BY DEF Cross

LEMMA NotZero ==
    ASSUME NEW x \in Int, NEW y \in Int, x # 0, y # 0
    PROVE  x * y \in Int /\ x * y # 0
OBVIOUS

LEMMA SignCross ==
    ASSUME NEW n \in Int, NEW d \in Nat, NEW k \in Int, NEW e \in Nat, d # 0, e # 0,
           Cross(n, d, k, e)
    PROVE  Sign(n) = Sign(k)
<1>1. n * e = k * d
  BY DEF Cross
<1>2. (n > 0 <=> n * e > 0) /\ (n < 0 <=> n * e < 0)
  OBVIOUS
<1>3. (k > 0 <=> k * d > 0) /\ (k < 0 <=> k * d < 0)
  OBVIOUS
<1>4. QED
  BY <1>1, <1>2, <1>3 DEF Sign

\* The compiler's integers are at least as wide as the runtime's.
LEMMA BoxedLike ==
    ASSUME NEW n \in Int, Boxed(n, MaxInt) # Error
    PROVE  Like(Boxed(n, MaxInt), Boxed(n, MaxFold))
<1>1. n \in (-MaxInt - 1) .. MaxInt
  BY DEF Boxed
<1>2. n \in (-MaxFold - 1) .. MaxFold
  BY <1>1, BoundsAssumption
<1>3. Boxed(n, MaxInt) = Integer(n) /\ Boxed(n, MaxFold) = Integer(n)
  BY <1>1, <1>2 DEF Boxed
<1>4. Finite(Integer(n))
  BY DEF Finite, Num, Den, Is, Integer
<1>5. QED
  BY <1>3, <1>4, LikeRefl

\* What Like says of two pairs of numbers.
LEMMA LikeParts ==
    ASSUME NEW a, NEW b, Like(a, b)
    PROVE  /\ Num(a) \in Int /\ Den(a) \in Int /\ Den(a) # 0 /\ Den(a) \in Nat
           /\ Num(b) \in Int /\ Den(b) \in Int /\ Den(b) # 0 /\ Den(b) \in Nat
           /\ Cross(Num(a), Den(a), Num(b), Den(b))
BY DEF Like, Finite

LEMMA PlusLike ==
    ASSUME NEW a, NEW b, NEW y, NEW z, Like(a, b), Like(y, z), Plus(a, y, MaxInt) # Error
    PROVE  Like(Plus(a, y, MaxInt), Plus(b, z, MaxFold))
<1>1. CASE Is("int", a) /\ Is("int", y)
  <2>1. a = b /\ y = z /\ a[2] + y[2] \in Int
    BY <1>1, IntegersLike
  <2>2. Plus(a, y, MaxInt) = Boxed(a[2] + y[2], MaxInt) /\ Plus(b, z, MaxFold) = Boxed(a[2] + y[2], MaxFold)
    BY <1>1, <2>1 DEF Plus
  <2>3. QED
    BY <2>1, <2>2, BoxedLike
<1>2. CASE ~(Is("int", a) /\ Is("int", y))
  <2> DEFINE n1 == Num(a) * Den(y) + Num(y) * Den(a)
             d1 == Den(a) * Den(y)
             n2 == Num(b) * Den(z) + Num(z) * Den(b)
             d2 == Den(b) * Den(z)
  <2>1. ~(Is("int", b) /\ Is("int", z))
    BY <1>2 DEF Like
  <2>2. d1 \in Int /\ d1 # 0 /\ d2 \in Int /\ d2 # 0
    BY LikeParts, NotZero
  <2>3. n1 \in Int /\ n2 \in Int
    BY LikeParts
  <2>4. Cross(n1, d1, n2, d2)
    BY LikeParts, SumCross
  <2>5. Plus(a, y, MaxInt) = Float(n1, d1) /\ Plus(b, z, MaxFold) = Float(n2, d2)
    BY <1>2, <2>1, LikeParts DEF Plus
  <2> HIDE DEF n1, d1, n2, d2
  <2>6. QED
    BY <2>2, <2>3, <2>4, <2>5, FloatsLike
<1>3. QED
  BY <1>1, <1>2

LEMMA TimesLike ==
    ASSUME NEW a, NEW b, NEW y, NEW z, Like(a, b), Like(y, z), Times(a, y, MaxInt) # Error
    PROVE  Like(Times(a, y, MaxInt), Times(b, z, MaxFold))
<1>1. CASE Is("int", a) /\ Is("int", y)
  <2>1. a = b /\ y = z /\ a[2] * y[2] \in Int
    BY <1>1, IntegersLike
  <2>2. Times(a, y, MaxInt) = Boxed(a[2] * y[2], MaxInt) /\ Times(b, z, MaxFold) = Boxed(a[2] * y[2], MaxFold)
    BY <1>1, <2>1 DEF Times
  <2> DEFINE k == a[2] * y[2]
  <2> HIDE DEF k
  <2>3. QED
    BY <2>1, <2>2, BoxedLike DEF k
<1>2. CASE ~(Is("int", a) /\ Is("int", y))
  <2> DEFINE n1 == Num(a) * Num(y)
             d1 == Den(a) * Den(y)
             n2 == Num(b) * Num(z)
             d2 == Den(b) * Den(z)
  <2>1. ~(Is("int", b) /\ Is("int", z))
    BY <1>2 DEF Like
  <2>2. d1 \in Int /\ d1 # 0 /\ d2 \in Int /\ d2 # 0
    BY LikeParts, NotZero
  <2>3. n1 \in Int /\ n2 \in Int
    BY LikeParts
  <2>4. Cross(n1, d1, n2, d2)
    BY LikeParts, ProductCross
  <2>5. Times(a, y, MaxInt) = Float(n1, d1) /\ Times(b, z, MaxFold) = Float(n2, d2)
    BY <1>2, <2>1 DEF Times
  <2> HIDE DEF n1, d1, n2, d2
  <2>6. QED
    BY <2>2, <2>3, <2>4, <2>5, FloatsLike
<1>3. QED
  BY <1>1, <1>2

LEMMA MinusLike ==
    ASSUME NEW a, NEW b, NEW y, NEW z, Like(a, b), Like(y, z), Minus(a, y, MaxInt) # Error
    PROVE  Like(Minus(a, y, MaxInt), Minus(b, z, MaxFold))
<1>1. CASE Is("int", a) /\ Is("int", y)
  <2>1. a = b /\ y = z /\ a[2] - y[2] \in Int
    BY <1>1, IntegersLike
  <2>2. Minus(a, y, MaxInt) = Boxed(a[2] - y[2], MaxInt) /\ Minus(b, z, MaxFold) = Boxed(a[2] - y[2], MaxFold)
    BY <1>1, <2>1 DEF Minus
  <2>3. QED
    BY <2>1, <2>2, BoxedLike
<1>2. CASE ~(Is("int", a) /\ Is("int", y))
  <2>1. ~(Is("int", b) /\ Is("int", z))
    BY <1>2 DEF Like
  <2>2. Like(Float(Num(a), Den(a)), Float(Num(b), Den(b)))
    BY LikeParts, FloatsLike
  <2>3. Like(Float(-Num(y), Den(y)), Float(-Num(z), Den(z)))
    <3>1. Cross(-Num(y), Den(y), -Num(z), Den(z))
      BY LikeParts, NegativeCross
    <3>2. -Num(y) \in Int /\ -Num(z) \in Int
      BY LikeParts
    <3>3. QED
      BY <3>1, <3>2, LikeParts, FloatsLike
  <2>4. /\ Minus(a, y, MaxInt) = Plus(Float(Num(a), Den(a)), Float(-Num(y), Den(y)), MaxInt)
        /\ Minus(b, z, MaxFold) = Plus(Float(Num(b), Den(b)), Float(-Num(z), Den(z)), MaxFold)
    BY <1>2, <2>1 DEF Minus
  <2>5. QED
    BY <2>2, <2>3, <2>4, PlusLike
<1>3. QED
  BY <1>1, <1>2

\* A division may also give an infinity or NaN, on both sides the same.
LEMMA OverLike ==
    ASSUME NEW a, NEW b, NEW y, NEW z, Like(a, b), Like(y, z)
    PROVE  Eqv(Over(a, y), Over(b, z))
<1> DEFINE n1 == Num(a) * Den(y)
           d1 == Den(a) * Num(y)
           n2 == Num(b) * Den(z)
           d2 == Den(b) * Num(z)
<1>1. n1 \in Int /\ n2 \in Int /\ d1 \in Int /\ d2 \in Int
  BY LikeParts
<1>2. Cross(n1, d1, n2, d2)
  BY LikeParts, ProductCross
<1>3. Over(a, y) = Float(n1, d1) /\ Over(b, z) = Float(n2, d2)
  BY DEF Over
<1>4. CASE Num(y) = 0
  <2>1. Num(z) = 0
    <3>1. Num(y) * Den(z) = Num(z) * Den(y)
      BY LikeParts DEF Cross
    <3>2. Num(z) * Den(y) = 0
      BY <1>4, <3>1, LikeParts
    <3>3. QED
      BY <3>2, LikeParts, NotZero
  <2>2. d1 = 0 /\ d2 = 0
    BY <1>4, <2>1, LikeParts
  <2>3. Sign(n1) = Sign(n2)
    <3>1. Cross(n1, Den(y) * Den(a), n2, Den(z) * Den(b))
      <4> HIDE DEF n1, n2, d1, d2
      <4>1. Cross(Den(y), Den(y), Den(z), Den(z))
        BY LikeParts DEF Cross
      <4>2. Cross(Num(a) * Den(y), Den(a) * Den(y), Num(b) * Den(z), Den(b) * Den(z))
        BY <4>1, LikeParts, ProductCross
      <4>3. Den(a) * Den(y) = Den(y) * Den(a) /\ Den(b) * Den(z) = Den(z) * Den(b)
        BY LikeParts
      <4>4. QED
        BY <4>2, <4>3 DEF n1, n2
    <3>2. /\ Den(y) * Den(a) \in Nat /\ Den(y) * Den(a) # 0
          /\ Den(z) * Den(b) \in Nat /\ Den(z) * Den(b) # 0
      BY LikeParts, NotZero
    <3> HIDE DEF n1, n2
    <3>3. QED
      BY <1>1, <3>1, <3>2, SignCross
  <2> HIDE DEF n1, n2, d1, d2
  <2>4. Over(a, y) = Over(b, z) /\ ~IsNumber(Over(a, y))
    BY <1>3, <2>2, <2>3 DEF Float, IsNumber, Is
  <2>5. QED
    BY <2>4 DEF Eqv, Eq
<1>5. CASE Num(y) # 0
  <2>1. Num(z) # 0
    <3>1. Num(y) * Den(z) = Num(z) * Den(y)
      BY LikeParts DEF Cross
    <3>2. Num(y) * Den(z) # 0
      BY <1>5, LikeParts, NotZero
    <3>3. QED
      BY <3>1, <3>2, LikeParts
  <2>2. d1 # 0 /\ d2 # 0
    BY <1>5, <2>1, LikeParts, NotZero
  <2> HIDE DEF n1, n2, d1, d2
  <2>3. Like(Float(n1, d1), Float(n2, d2))
    BY <1>1, <1>2, <2>2, FloatsLike
  <2>4. QED
    BY <1>3, <2>3, LikeEqv DEF Like
<1>6. QED
  BY <1>4, <1>5

-----------------------------------------------------------------------------
(* Folds, step by step.                                                    *)

Operations == {"addxx", "mulxx", "sly_add", "sly_mul"}

Folding(op1, b, q) ==
    CASE op1 = "addxx" -> FoldLeft(AddXX, b, q)    [] op1 = "mulxx" -> FoldLeft(MulXX, b, q)
      [] op1 = "sly_add" -> FoldLeft(SlyAdd, b, q) [] op1 = "sly_mul" -> FoldLeft(SlyMul, b, q)

\* A fold is the value of a function like those of FoldUpTo.
LEMMA FoldingIsFold ==
    ASSUME NEW S, NEW q \in Seq(S), NEW b, NEW op1 \in Operations
    PROVE  \E h : Folding(op1, b, q) = h[DOMAIN q] /\ IsFold(h, op1, b, q, DOMAIN q)
<1>1. Len(q) \in Nat /\ DOMAIN q = 1 .. Len(q)
  OBVIOUS
<1>2. PICK f : IsFold(f, op1, b, q, DOMAIN q)
  BY <1>1, FoldUpTo
<1>3. CASE op1 = "addxx"
  <2>1. \E h : /\ FoldLeft(AddXX, b, q) = h[DOMAIN q]
               /\ h = [s \in SUBSET (DOMAIN q) |->
                         IF s = {} THEN b ELSE AddXX(h[s \ {Max(s)}], q[Max(s)])]
    <3>1. f = [s \in SUBSET (DOMAIN q) |->
                 IF s = {} THEN b ELSE AddXX(f[s \ {Max(s)}], q[Max(s)])]
      BY <1>2, <1>3 DEF IsFold, Arith
    <3>2. QED
      BY <3>1 DEF FoldLeft, MapThenFoldSet
  <2>2. QED
    BY <1>3, <2>1 DEF IsFold, Arith, Folding
<1>4. CASE op1 = "mulxx"
  <2>1. \E h : /\ FoldLeft(MulXX, b, q) = h[DOMAIN q]
               /\ h = [s \in SUBSET (DOMAIN q) |->
                         IF s = {} THEN b ELSE MulXX(h[s \ {Max(s)}], q[Max(s)])]
    <3>1. f = [s \in SUBSET (DOMAIN q) |->
                 IF s = {} THEN b ELSE MulXX(f[s \ {Max(s)}], q[Max(s)])]
      BY <1>2, <1>4 DEF IsFold, Arith
    <3>2. QED
      BY <3>1 DEF FoldLeft, MapThenFoldSet
  <2>2. QED
    BY <1>4, <2>1 DEF IsFold, Arith, Folding
<1>5. CASE op1 = "sly_add"
  <2>1. \E h : /\ FoldLeft(SlyAdd, b, q) = h[DOMAIN q]
               /\ h = [s \in SUBSET (DOMAIN q) |->
                         IF s = {} THEN b ELSE SlyAdd(h[s \ {Max(s)}], q[Max(s)])]
    <3>1. f = [s \in SUBSET (DOMAIN q) |->
                 IF s = {} THEN b ELSE SlyAdd(f[s \ {Max(s)}], q[Max(s)])]
      BY <1>2, <1>5 DEF IsFold, Arith
    <3>2. QED
      BY <3>1 DEF FoldLeft, MapThenFoldSet
  <2>2. QED
    BY <1>5, <2>1 DEF IsFold, Arith, Folding
<1>6. CASE op1 = "sly_mul"
  <2>1. \E h : /\ FoldLeft(SlyMul, b, q) = h[DOMAIN q]
               /\ h = [s \in SUBSET (DOMAIN q) |->
                         IF s = {} THEN b ELSE SlyMul(h[s \ {Max(s)}], q[Max(s)])]
    <3>1. f = [s \in SUBSET (DOMAIN q) |->
                 IF s = {} THEN b ELSE SlyMul(f[s \ {Max(s)}], q[Max(s)])]
      BY <1>2, <1>6 DEF IsFold, Arith
    <3>2. QED
      BY <3>1 DEF FoldLeft, MapThenFoldSet
  <2>2. QED
    BY <1>6, <2>1 DEF IsFold, Arith, Folding
<1>7. QED
  BY <1>3, <1>4, <1>5, <1>6 DEF Operations

LEMMA MaxOfPrefix ==
    ASSUME NEW i \in Nat, i # 0
    PROVE  Max(1 .. i) = i /\ (1 .. i) \ {i} = 1 .. (i - 1)
<1>1. i \in 1 .. i /\ \A y \in 1 .. i : i >= y
  OBVIOUS
<1>2. Max(1 .. i) \in 1 .. i /\ \A y \in 1 .. i : Max(1 .. i) >= y
  BY <1>1, Zenon DEF Max
<1>3. Max(1 .. i) >= i /\ Max(1 .. i) \in 1 .. i
  BY <1>1, <1>2
<1>4. QED
  BY <1>3

\* The accumulator after each element.
IsRunning(a, op1, b, q) ==
    /\ a[0] = b
    /\ \A i \in 1 .. Len(q) : a[i] = Arith(op1, a[i - 1], q[i])

LEMMA FoldingRuns ==
    ASSUME NEW S, NEW q \in Seq(S), NEW b, NEW op1 \in Operations
    PROVE  \E a : IsRunning(a, op1, b, q) /\ Folding(op1, b, q) = a[Len(q)]
<1>1. Len(q) \in Nat /\ DOMAIN q = 1 .. Len(q)
  OBVIOUS
<1>2. PICK h : Folding(op1, b, q) = h[DOMAIN q] /\ IsFold(h, op1, b, q, DOMAIN q)
  BY FoldingIsFold
<1>3. \A s \in SUBSET (1 .. Len(q)) :
         h[s] = IF s = {} THEN b ELSE Arith(op1, h[s \ {Max(s)}], q[Max(s)])
  BY <1>1, <1>2 DEF IsFold
<1> DEFINE a == [i \in 0 .. Len(q) |-> h[1 .. i]]
<1>4. a[0] = b
  <2>1. 1 .. 0 = {} /\ 1 .. 0 \in SUBSET (1 .. Len(q)) /\ 0 \in 0 .. Len(q)
    BY <1>1
  <2>2. QED
    BY <1>3, <2>1
<1>5. ASSUME NEW i \in 1 .. Len(q) PROVE a[i] = Arith(op1, a[i - 1], q[i])
  <2>1. i \in Nat /\ i # 0 /\ i \in 0 .. Len(q) /\ i - 1 \in 0 .. Len(q)
    BY <1>1
  <2>2. 1 .. i \in SUBSET (1 .. Len(q)) /\ 1 .. i # {}
    <3>1. i \in 1 .. i /\ \A x \in 1 .. i : x \in 1 .. Len(q)
      BY <1>1
    <3>2. QED
      BY <3>1
  <2>3. h[1 .. i] = Arith(op1, h[1 .. (i - 1)], q[i])
    BY <1>3, <2>1, <2>2, MaxOfPrefix
  <2>4. QED
    BY <2>1, <2>3
<1>6. a[Len(q)] = h[DOMAIN q]
  BY <1>1
<1> HIDE DEF a
<1>7. QED
  BY <1>2, <1>4, <1>5, <1>6 DEF IsRunning

-----------------------------------------------------------------------------
(* The runtime folds from the first argument, the compiler from the unit.  *)

Wider(op1) == IF op1 = "addxx" THEN "sly_add" ELSE "sly_mul"
Unit(op1) == IF op1 = "addxx" THEN Integer(0) ELSE Integer(1)

LEMMA FiniteIsNumber ==
    ASSUME NEW x, Finite(x)
    PROVE  IsNumber(x) /\ IsConst(x)
BY DEF Finite, IsNumber, IsConst, Is, Den

LEMMA ArithLike ==
    ASSUME NEW op1 \in {"addxx", "mulxx"}, NEW a, NEW b, NEW y, NEW z, Like(a, b), Like(y, z),
           Arith(op1, a, y) # Error
    PROVE  Like(Arith(op1, a, y), Arith(Wider(op1), b, z))
<1>1. IsNumber(a) /\ IsNumber(y) /\ IsConst(b) /\ IsConst(z)
  BY FiniteIsNumber DEF Like
<1>2. CASE op1 = "addxx"
  <2>1. Arith(op1, a, y) = Plus(a, y, MaxInt) /\ Arith(Wider(op1), b, z) = Plus(b, z, MaxFold)
    BY <1>1, <1>2 DEF Arith, Wider, AddXX, SlyAdd
  <2>2. QED
    BY <2>1, PlusLike
<1>3. CASE op1 = "mulxx"
  <2>1. Arith(op1, a, y) = Times(a, y, MaxInt) /\ Arith(Wider(op1), b, z) = Times(b, z, MaxFold)
    BY <1>1, <1>3 DEF Arith, Wider, MulXX, SlyMul
  <2>2. QED
    BY <2>1, TimesLike
<1>4. QED
  BY <1>2, <1>3

LEMMA ArithNumbers ==
    ASSUME NEW op1 \in {"addxx", "mulxx"}, NEW x, NEW y, Arith(op1, x, y) # Error
    PROVE  IsNumber(x) /\ IsNumber(y)
BY DEF Arith, AddXX, MulXX

\* An integer that fits the runtime's word fits the compiler's.
LEMMA WrittenBoxed ==
    ASSUME NEW n \in (-MaxInt - 1) .. MaxInt
    PROVE  n \in Int /\ Boxed(n, MaxFold) = Integer(n)
<1>1. n \in Int /\ n \in (-MaxFold - 1) .. MaxFold
  BY BoundsAssumption
<1>2. QED
  BY <1>1 DEF Boxed

LEMMA UnitLike ==
    ASSUME NEW op1 \in {"addxx", "mulxx"}, NEW z \in Values, IsNumber(z), Written(z)
    PROVE  Like(z, Arith(Wider(op1), Unit(op1), z))
<1>1. Finite(z) /\ IsConst(z)
  BY NumberFinite, FiniteIsNumber
<1>2. /\ IsConst(Integer(0)) /\ IsConst(Integer(1)) /\ Is("int", Integer(0)) /\ Is("int", Integer(1))
      /\ Num(Integer(0)) = 0 /\ Num(Integer(1)) = 1 /\ Den(Integer(0)) = 1 /\ Den(Integer(1)) = 1
      /\ Integer(0)[2] = 0 /\ Integer(1)[2] = 1
  BY DEF IsConst, Is, Integer, Num, Den
<1>3. /\ op1 = "addxx" => Arith(Wider(op1), Unit(op1), z) = Plus(Integer(0), z, MaxFold)
      /\ op1 = "mulxx" => Arith(Wider(op1), Unit(op1), z) = Times(Integer(1), z, MaxFold)
  BY <1>1, <1>2 DEF Arith, Wider, Unit, SlyAdd, SlyMul
<1>4. CASE Is("int", z)
  <2>1. z[2] \in (-MaxInt - 1) .. MaxInt /\ z = Integer(z[2])
    BY <1>4, ValueFacts DEF Written, Integer
  <2>2. z[2] \in Int /\ Boxed(z[2], MaxFold) = z
    BY <2>1, WrittenBoxed
  <2>3. 0 + z[2] = z[2] /\ 1 * z[2] = z[2]
    BY <2>2
  <2>4. Plus(Integer(0), z, MaxFold) = z /\ Times(Integer(1), z, MaxFold) = z
    BY <1>2, <1>4, <2>2, <2>3 DEF Plus, Times
  <2>5. QED
    BY <1>1, <1>3, <2>4, LikeRefl
<1>5. CASE ~Is("int", z)
  <2>1. Is("flo", z) /\ Num(z) \in Int /\ Den(z) \in Int /\ Den(z) # 0
    BY <1>1, <1>5 DEF Finite
  <2>2. /\ 0 * Den(z) + Num(z) * 1 = Num(z) /\ 1 * Den(z) = Den(z)
        /\ 1 * Num(z) = Num(z)
    BY <2>1
  <2>3. /\ Plus(Integer(0), z, MaxFold) = Float(Num(z), Den(z))
        /\ Times(Integer(1), z, MaxFold) = Float(Num(z), Den(z))
    BY <1>2, <1>5, <2>1, <2>2 DEF Plus, Times
  <2>4. Like(z, Float(Num(z), Den(z)))
    <3> DEFINE w == Float(Num(z), Den(z))
    <3>1. Finite(w) /\ Is("flo", w) /\ Num(w) * Den(z) = Num(z) * Den(w)
      BY <2>1, FloatFacts
    <3> HIDE DEF w
    <3>2. Cross(Num(z), Den(z), Num(w), Den(w)) /\ ~Is("int", w)
      BY <3>1 DEF Cross, Is
    <3>3. QED
      BY <1>1, <1>5, <3>1, <3>2 DEF Like, w
  <2>5. QED
    BY <1>3, <2>3, <2>4
<1>6. QED
  BY <1>4, <1>5

LEMMA RunningLike ==
    ASSUME NEW op1 \in {"addxx", "mulxx"}, NEW s \in Seq(Values), s # <<>>,
           \A i \in DOMAIN s : Written(s[i]),
           Folding(op1, Head(s), Tail(s)) # Error,
           Len(s) = 1 => IsNumber(Folding(op1, Head(s), Tail(s)))
    PROVE  Like(Folding(op1, Head(s), Tail(s)), Folding(Wider(op1), Unit(op1), s))
<1> DEFINE t == Tail(s)
           w == Wider(op1)
<1>1. /\ Len(s) \in Nat /\ Len(s) >= 1 /\ DOMAIN s = 1 .. Len(s)
      /\ t \in Seq(Values) /\ Len(t) = Len(s) - 1 /\ Head(s) = s[1]
      /\ \A i \in 1 .. Len(t) : t[i] = s[i + 1]
  <2>1. Len(s) \in Nat /\ DOMAIN s = 1 .. Len(s) /\ Len(s) # 0
    BY EmptySeq
  <2>2. QED
    BY <2>1
<1> HIDE DEF t
<1>2. w \in Operations /\ op1 \in Operations
  BY DEF Wider, Operations
<1> HIDE DEF w
<1>3. PICK a : IsRunning(a, op1, Head(s), t) /\ Folding(op1, Head(s), t) = a[Len(t)]
  BY <1>1, <1>2, FoldingRuns
<1>4. PICK c : IsRunning(c, w, Unit(op1), s) /\ Folding(w, Unit(op1), s) = c[Len(s)]
  BY <1>2, FoldingRuns
<1>5. /\ a[0] = s[1] /\ c[0] = Unit(op1)
      /\ \A i \in 1 .. Len(t) : a[i] = Arith(op1, a[i - 1], s[i + 1])
      /\ \A i \in 1 .. Len(s) : c[i] = Arith(w, c[i - 1], s[i])
  BY <1>1, <1>3, <1>4 DEF IsRunning
<1> DEFINE Agree(i) == (a[i] # Error /\ (i = 0 => IsNumber(a[i]))) => Like(a[i], c[i + 1])
           T == {i \in Nat : i <= Len(t) /\ ~Agree(i)}
<1>6. T = {}
  <2>1. SUFFICES ASSUME T # {} PROVE FALSE
    OBVIOUS
  <2>2. PICK i \in T : \A j \in T : i <= j
    <3>1. T \subseteq Nat
      OBVIOUS
    <3> HIDE DEF T
    <3>2. QED
      BY <2>1, <3>1, LeastNat
  <2>3. CASE i = 0
    <3>1. c[1] = Arith(w, Unit(op1), s[1])
      <4>1. 1 \in 1 .. Len(s) /\ 1 - 1 = 0
        BY <1>1
      <4>2. QED
        BY <1>5, <4>1
    <3>2. s[1] \in Values /\ Written(s[1])
      BY <1>1
    <3>3. IsNumber(s[1]) => Like(s[1], c[1])
      BY <3>1, <3>2, UnitLike DEF w
    <3>4. QED
      BY <1>5, <2>2, <2>3, <3>3
  <2>4. CASE i # 0
    <3>1. /\ i \in 1 .. Len(t) /\ i - 1 \in Nat /\ i - 1 <= Len(t) /\ (i - 1) + 1 = i
          /\ i + 1 \in 1 .. Len(s) /\ (i + 1) - 1 = i /\ ~(i <= i - 1)
      BY <1>1, <2>2, <2>4
    <3>2. Agree(i - 1)
      BY <2>2, <3>1
    <3>3. a[i] = Arith(op1, a[i - 1], s[i + 1]) /\ c[i + 1] = Arith(w, c[i], s[i + 1])
      BY <1>5, <3>1
    <3>4. ASSUME a[i] # Error PROVE Like(a[i], c[i + 1])
      <4>1. \A x : IsNumber(x) => x # Error
        BY DEF IsNumber, Is, Error
      <4>2. IsNumber(a[i - 1]) /\ IsNumber(s[i + 1])
        BY <3>3, <3>4, ArithNumbers
      <4>3. Like(a[i - 1], c[i])
        BY <3>1, <3>2, <4>1, <4>2
      <4>4. s[i + 1] \in Values
        BY <1>1, <3>1
      <4>5. Like(s[i + 1], s[i + 1])
        BY <4>2, <4>4, NumberFinite, LikeRefl
      <4>6. QED
        BY <3>3, <3>4, <4>3, <4>5, ArithLike DEF w
    <3>5. QED
      BY <2>2, <3>4
  <2>5. QED
    BY <2>3, <2>4
<1>7. Agree(Len(t))
  <2>1. Len(t) \in Nat /\ Len(t) <= Len(t)
    BY <1>1
  <2>2. QED
    BY <1>6, <2>1
<1>8. Len(t) + 1 = Len(s) /\ (Len(t) = 0 => Len(s) = 1)
  BY <1>1
<1>9. QED
  BY <1>3, <1>4, <1>7, <1>8 DEF t, w

-----------------------------------------------------------------------------
(* The four operations.                                                    *)

LEMMA FoldingNothing ==
    ASSUME NEW b, NEW op1 \in Operations
    PROVE  Folding(op1, b, <<>>) = b
<1>1. <<>> \in Seq({}) /\ Len(<<>>) = 0
  OBVIOUS
<1>2. PICK a : IsRunning(a, op1, b, <<>>) /\ Folding(op1, b, <<>>) = a[Len(<<>>)]
  BY <1>1, FoldingRuns
<1>3. QED
  BY <1>1, <1>2 DEF IsRunning

LEMMA FoldingOne ==
    ASSUME NEW b, NEW op1 \in Operations, NEW s \in Seq(Values), Len(s) = 1
    PROVE  Folding(op1, b, s) = Arith(op1, b, s[1])
<1>1. PICK a : IsRunning(a, op1, b, s) /\ Folding(op1, b, s) = a[Len(s)]
  BY FoldingRuns
<1>2. 1 \in 1 .. Len(s) /\ 1 - 1 = 0
  OBVIOUS
<1>3. QED
  BY <1>1, <1>2 DEF IsRunning

LEMMA SumsAlike ==
    ASSUME NEW s \in Seq(Values), \A i \in DOMAIN s : Written(s[i]),
           ~TakesBits("+", s)
    PROVE  /\ Sum(s) # Error => Eqv(Sum(s), FoldAdd(s))
           /\ Product(s) # Error => Eqv(Product(s), FoldMul(s))
<1>1. /\ FoldAdd(s) = Folding("sly_add", Integer(0), s)
      /\ FoldMul(s) = Folding("sly_mul", Integer(1), s)
      /\ {"sly_add", "sly_mul", "addxx", "mulxx"} \subseteq Operations
  BY DEF FoldAdd, FoldMul, Folding, Operations
<1>2. CASE Len(s) = 0
  <2>1. s = <<>>
    BY <1>2, EmptySeq
  <2>2. FoldAdd(s) = Integer(0) /\ FoldMul(s) = Integer(1)
    BY <1>1, <2>1, FoldingNothing
  <2>3. Sum(s) = Integer(0) /\ Product(s) = Integer(1)
    BY <1>2 DEF Sum, Product
  <2>4. \A n \in Int : Finite(Integer(n))
    BY DEF Finite, Num, Den, Is, Integer
  <2>5. \A n \in Int : Eqv(Integer(n), Integer(n))
    BY <2>4, LikeEqv DEF Cross
  <2>6. QED
    BY <2>2, <2>3, <2>5
<1>3. CASE Len(s) = 1
  <2>1. Sum(s) = Reboxed(s[1]) /\ Product(s) = Reboxed(s[1])
    BY <1>3 DEF Sum, Product
  <2>2. SUFFICES ASSUME Reboxed(s[1]) # Error
                 PROVE  Eqv(Integer(0), FoldAdd(s)) /\ Eqv(Integer(0), FoldMul(s))
                        /\ Reboxed(s[1]) = Integer(0)
    BY <2>1
  <2> DEFINE d == Den(s[1])
  <2>3. /\ Is("flo", s[1]) /\ Num(s[1]) = 0 /\ d \in Nat /\ d # 0
        /\ Reboxed(s[1]) = Integer(0)
    <3>1. s[1] # Junk /\ s[1] \in Values
      BY <1>3 DEF Written
    <3>2. Tiny(s[1]) /\ Reboxed(s[1]) = Integer(Bits(s[1]))
      BY <2>2, <3>1 DEF Reboxed
    <3>3. Num(s[1]) = 0
      BY <1>3, <3>2 DEF TakesBits
    <3>4. Is("flo", s[1]) /\ d = s[1][3] /\ d \in Nat /\ d # 0
      BY <3>1, <3>2, NumberFinite DEF Tiny, IsNumber, Finite, Den
    <3>5. Bits(s[1]) = 0 * (TinyDen \div d)
      BY <3>3, <3>4 DEF Bits, Num
    <3>6. TinyDen \div d \in Int
      BY <3>4, BoundsAssumption
    <3> HIDE DEF d
    <3>7. Bits(s[1]) = 0
      BY <3>5, <3>6
    <3>8. QED
      BY <3>2, <3>3, <3>4, <3>7
  <2> HIDE DEF d
  <2>4. FoldAdd(s) = SlyAdd(Integer(0), s[1]) /\ FoldMul(s) = SlyMul(Integer(1), s[1])
    <3>1. /\ FoldAdd(s) = Arith("sly_add", Integer(0), s[1])
          /\ FoldMul(s) = Arith("sly_mul", Integer(1), s[1])
      BY <1>1, <1>3, FoldingOne
    <3>2. QED
      BY <3>1 DEF Arith
  <2>5. FoldAdd(s) = Float(0, d) /\ FoldMul(s) = Float(0, d)
    <3>1. /\ IsConst(s[1]) /\ IsConst(Integer(0)) /\ IsConst(Integer(1)) /\ ~Is("int", s[1])
          /\ Num(Integer(0)) = 0 /\ Num(Integer(1)) = 1 /\ Den(Integer(0)) = 1 /\ Den(Integer(1)) = 1
      BY <2>3 DEF IsConst, Is, Integer, Num, Den
    <3>2. 0 * d + 0 * 1 = 0 /\ 1 * 0 = 0 /\ 1 * d = d
      BY <2>3
    <3>3. /\ SlyAdd(Integer(0), s[1]) = Plus(Integer(0), s[1], MaxFold)
          /\ SlyMul(Integer(1), s[1]) = Times(Integer(1), s[1], MaxFold)
      BY <3>1 DEF SlyAdd, SlyMul
    <3>4. /\ Plus(Integer(0), s[1], MaxFold) = Float(0 * d + 0 * 1, 1 * d)
          /\ Times(Integer(1), s[1], MaxFold) = Float(1 * 0, 1 * d)
      BY <2>3, <3>1 DEF Plus, Times, d
    <3>5. QED
      BY <2>4, <3>2, <3>3, <3>4
  <2>6. Finite(Float(0, d)) /\ Num(Float(0, d)) * d = 0 * Den(Float(0, d))
    BY <2>3, FloatFacts
  <2>7. Finite(Integer(0)) /\ Num(Integer(0)) = 0 /\ Den(Integer(0)) = 1
    BY DEF Finite, Num, Den, Is, Integer
  <2>8. Cross(Num(Integer(0)), Den(Integer(0)), Num(Float(0, d)), Den(Float(0, d)))
    <3> DEFINE w == Float(0, d)
    <3>1. Num(w) \in Int /\ Den(w) \in Int
      BY <2>6 DEF Finite
    <3> HIDE DEF w
    <3>2. Num(w) * d = 0
      BY <2>6, <3>1 DEF w
    <3>3. Num(w) = 0
      BY <2>3, <3>1, <3>2, NotZero
    <3>4. QED
      BY <2>7, <3>1, <3>3 DEF Cross, w
  <2>9. QED
    BY <2>1, <2>3, <2>5, <2>6, <2>7, <2>8, LikeEqv
<1>4. CASE Len(s) # 0 /\ Len(s) # 1
  <2>1. Sum(s) = Folding("addxx", Head(s), Tail(s)) /\ Product(s) = Folding("mulxx", Head(s), Tail(s))
    BY <1>4 DEF Sum, Product, Folding
  <2>2. s # <<>>
    BY <1>4, EmptySeq
  <2>3. /\ Wider("addxx") = "sly_add" /\ Unit("addxx") = Integer(0)
        /\ Wider("mulxx") = "sly_mul" /\ Unit("mulxx") = Integer(1)
    BY DEF Wider, Unit
  <2>4. \A op1 \in {"addxx", "mulxx"} :
           Folding(op1, Head(s), Tail(s)) # Error =>
             Like(Folding(op1, Head(s), Tail(s)), Folding(Wider(op1), Unit(op1), s))
    BY <1>4, <2>2, RunningLike
  <2>5. /\ Sum(s) # Error => Like(Sum(s), FoldAdd(s))
        /\ Product(s) # Error => Like(Product(s), FoldMul(s))
    BY <1>1, <2>1, <2>3, <2>4
  <2>6. QED
    BY <2>5, LikeEqv DEF Like
<1>5. QED
  BY <1>2, <1>3, <1>4

\* What is subtracted or divided by: the one other argument, or the sum or
\* product of several.
LEMMA RestLike ==
    ASSUME NEW t \in Seq(Values), \A i \in DOMAIN t : Written(t[i]), t # <<>>
    PROVE  LET x == IF Len(t) = 1 THEN t[1] ELSE Sum(t)
               y == IF Len(t) = 1 THEN t[1] ELSE Product(t)
           IN /\ IsNumber(x) => Like(x, FoldAdd(t))
              /\ IsNumber(y) => Like(y, FoldMul(t))
<1> DEFINE x == IF Len(t) = 1 THEN t[1] ELSE Sum(t)
           y == IF Len(t) = 1 THEN t[1] ELSE Product(t)
<1>1. /\ FoldAdd(t) = Folding("sly_add", Integer(0), t)
      /\ FoldMul(t) = Folding("sly_mul", Integer(1), t)
      /\ {"sly_add", "sly_mul", "addxx", "mulxx"} \subseteq Operations
  BY DEF FoldAdd, FoldMul, Folding, Operations
<1>2. Len(t) \in Nat /\ Len(t) # 0 /\ Head(t) = t[1]
  BY EmptySeq
<1>3. x = Folding("addxx", Head(t), Tail(t)) /\ y = Folding("mulxx", Head(t), Tail(t))
  <2>1. CASE Len(t) = 1
    <3>1. Tail(t) = <<>>
      <4>1. Tail(t) \in Seq(Values) /\ Len(Tail(t)) = 0
        BY <2>1
      <4>2. QED
        BY <4>1, EmptySeq
    <3>2. QED
      BY <1>1, <1>2, <2>1, <3>1, FoldingNothing
  <2>2. CASE Len(t) # 1
    BY <1>2, <2>2 DEF Sum, Product, Folding
  <2>3. QED
    BY <2>1, <2>2
<1> HIDE DEF x, y
<1>4. /\ Wider("addxx") = "sly_add" /\ Unit("addxx") = Integer(0)
      /\ Wider("mulxx") = "sly_mul" /\ Unit("mulxx") = Integer(1)
  BY DEF Wider, Unit
<1>5. \A v : IsNumber(v) => v # Error
  BY DEF IsNumber, Is, Error
<1>6. \A op1 \in {"addxx", "mulxx"} :
         IsNumber(Folding(op1, Head(t), Tail(t))) =>
           Like(Folding(op1, Head(t), Tail(t)), Folding(Wider(op1), Unit(op1), t))
  BY <1>5, RunningLike
<1>7. (IsNumber(x) => Like(x, FoldAdd(t))) /\ (IsNumber(y) => Like(y, FoldMul(t)))
  BY <1>1, <1>3, <1>4, <1>6
<1>8. QED
  BY <1>7 DEF x, y

LEMMA SubtractingAlike ==
    ASSUME NEW a, NEW y, NEW z, Finite(a), Like(y, z)
    PROVE  /\ SubXX(a, y) # Error => Eqv(SubXX(a, y), SlySub(a, z))
           /\ Eqv(DivXX(a, y), SlyDiv(a, z))
<1>1. IsNumber(a) /\ IsConst(a) /\ IsNumber(y) /\ IsConst(z) /\ Like(a, a)
  BY FiniteIsNumber, LikeRefl DEF Like
<1>2. /\ SubXX(a, y) = Minus(a, y, MaxInt) /\ SlySub(a, z) = Minus(a, z, MaxFold)
      /\ DivXX(a, y) = Over(a, y) /\ SlyDiv(a, z) = Over(a, z)
  BY <1>1 DEF SubXX, SlySub, DivXX, SlyDiv
<1>3. SubXX(a, y) # Error => Eqv(SubXX(a, y), SlySub(a, z))
  BY <1>1, <1>2, MinusLike, LikeEqv DEF Like
<1>4. Eqv(DivXX(a, y), SlyDiv(a, z))
  BY <1>1, <1>2, OverLike
<1>5. QED
  BY <1>3, <1>4

LEMMA DifferencesAlike ==
    ASSUME NEW s \in Seq(Values), \A i \in DOMAIN s : Written(s[i])
    PROVE  /\ Difference(s) # Error => Eqv(Difference(s), FoldSub(s))
           /\ Quotient(s) # Error => Eqv(Quotient(s), FoldDiv(s))
<1>1. Len(s) \in Nat /\ DOMAIN s = 1 .. Len(s) /\ (s = <<>> <=> Len(s) = 0)
  BY EmptySeq
<1>2. \A x, y : /\ SubXX(x, y) # Error => IsNumber(x) /\ IsNumber(y)
                /\ DivXX(x, y) # Error => IsNumber(x) /\ IsNumber(y)
  BY DEF SubXX, DivXX
<1>3. CASE Len(s) = 0
  BY <1>3 DEF Difference, Quotient
<1>4. CASE Len(s) = 1
  <2>1. /\ Difference(s) = SubXX(Integer(0), s[1]) /\ FoldSub(s) = SlySub(Integer(0), s[1])
        /\ Quotient(s) = DivXX(Integer(1), s[1]) /\ FoldDiv(s) = SlyDiv(Integer(1), s[1])
    BY <1>1, <1>4 DEF Difference, Quotient, FoldSub, FoldDiv
  <2>2. s[1] \in Values
    BY <1>4
  <2>3. IsNumber(s[1]) => Like(s[1], s[1])
    BY <2>2, NumberFinite, LikeRefl
  <2>4. Finite(Integer(0)) /\ Finite(Integer(1))
    BY DEF Finite, Num, Den, Is, Integer
  <2>5. QED
    BY <1>2, <2>1, <2>3, <2>4, SubtractingAlike
<1>5. CASE Len(s) # 0 /\ Len(s) # 1
  <2> DEFINE t == Tail(s)
             x == IF Len(t) = 1 THEN t[1] ELSE Sum(t)
             y == IF Len(t) = 1 THEN t[1] ELSE Product(t)
  <2>1. /\ t \in Seq(Values) /\ Len(t) = Len(s) - 1 /\ DOMAIN t = 1 .. Len(t)
        /\ \A i \in 1 .. Len(t) : t[i] = s[i + 1]
    BY <1>1, <1>5
  <2> HIDE DEF t
  <2>2. t # <<>> /\ \A i \in DOMAIN t : Written(t[i])
    <3>1. Len(t) # 0 /\ \A i \in 1 .. Len(t) : i + 1 \in 1 .. Len(s)
      BY <1>1, <1>5, <2>1
    <3>2. QED
      BY <1>1, <2>1, <3>1, EmptySeq
  <2>3. Len(s) = 2 <=> Len(t) = 1
    BY <1>1, <2>1
  <2>4. Len(t) = 1 => t[1] = s[2]
    BY <2>1
  <2>5. /\ Difference(s) = SubXX(s[1], x) /\ FoldSub(s) = SlySub(s[1], FoldAdd(t))
        /\ Quotient(s) = DivXX(s[1], y) /\ FoldDiv(s) = SlyDiv(s[1], FoldMul(t))
    BY <1>1, <1>5, <2>3, <2>4 DEF Difference, Quotient, FoldSub, FoldDiv, t
  <2>6. (IsNumber(x) => Like(x, FoldAdd(t))) /\ (IsNumber(y) => Like(y, FoldMul(t)))
    BY <2>1, <2>2, RestLike
  <2> HIDE DEF x, y
  <2>7. s[1] \in Values
    BY <1>1, <1>5
  <2>8. IsNumber(s[1]) => Finite(s[1])
    BY <2>7, NumberFinite
  <2>9. QED
    BY <1>2, <2>5, <2>6, <2>8, SubtractingAlike
<1>6. QED
  BY <1>3, <1>4, <1>5

-----------------------------------------------------------------------------
(* Comparisons.                                                            *)

\* The compiler's <= and >= are two comparisons, the runtime's are one.
LEMMA RelationsAlike ==
    ASSUME NEW rel \in Comparisons, NEW x \in Values, NEW y \in Values, IsNumber(x), IsNumber(y)
    PROVE  SlyRel(rel, x, y) <=> RelXX(rel, x, y)
<1>1. Finite(x) /\ Finite(y)
  BY NumberFinite
<1>2. Diff(x, y) \in Int
  BY <1>1 DEF Finite, Diff
<1>3. CASE rel = "<="
  BY <1>2, <1>3 DEF SlyRel, RelXX, SlyLeq, LeqXX, LessXX, NumEqXX
<1>4. CASE rel = ">="
  BY <1>2, <1>4 DEF SlyRel, RelXX, SlyGeq, GeqXX, GrXX, NumEqXX
<1>5. CASE rel # "<=" /\ rel # ">="
  BY <1>5 DEF SlyRel
<1>6. QED
  BY <1>3, <1>4, <1>5

LEMMA ChainsAlike ==
    ASSUME NEW rel \in Comparisons, NEW s \in Seq(Values), NEW m, Compare(rel, s, m).val # Error
    PROVE  Compare(rel, s, m).val = FoldChain(rel, s)
<1> DEFINE R(i) == IsNumber(s[i]) /\ IsNumber(s[i + 1]) /\ RelXX(rel, s[i], s[i + 1])
           F(i) == IsConst(s[i]) /\ IsConst(s[i + 1]) /\ SlyRel(rel, s[i], s[i + 1])
           stopR == {i \in 1 .. (Len(s) - 1) : ~R(i)}
           stopF == {i \in 1 .. (Len(s) - 1) : ~F(i)}
<1>1. Len(s) \in Nat /\ \A i \in 1 .. (Len(s) - 1) : s[i] \in Values /\ s[i + 1] \in Values
  OBVIOUS
<1>2. \A x \in Values : IsNumber(x) => IsConst(x)
  BY DEF IsNumber, IsConst, Is
<1>3. \A i \in 1 .. (Len(s) - 1) : IsNumber(s[i]) /\ IsNumber(s[i + 1]) => (R(i) <=> F(i))
  BY <1>1, <1>2, RelationsAlike
<1>4. \A v, l : Out(v, l, m).val = v
  BY DEF Out
<1>5. stopF # {} => /\ FoldChain(rel, s) = LET i == CHOOSE j \in stopF : \A k \in stopF : j <= k
                                           IN IF IsConst(s[i]) /\ IsConst(s[i + 1]) THEN False ELSE Error
  BY DEF FoldChain
<1>6. stopF = {} => FoldChain(rel, s) = True
  BY DEF FoldChain
<1>7. CASE Len(s) < 2
  <2>1. stopF = {}
    BY <1>1, <1>7
  <2>2. Compare(rel, s, m).val \in {True, Error}
    BY <1>4, <1>7 DEF Compare
  <2>3. QED
    BY <1>6, <2>1, <2>2
<1>8. CASE ~(Len(s) < 2) /\ stopR = {}
  <2>1. Break(rel, s) = 0
    BY <1>8 DEF Break
  <2>2. Compare(rel, s, m).val = True
    BY <1>4, <1>8, <2>1 DEF Compare
  <2>3. \A i \in 1 .. (Len(s) - 1) : R(i)
    BY <1>8
  <2>4. \A i \in 1 .. (Len(s) - 1) : F(i)
    <3> HIDE DEF F
    <3> QED BY <1>3, <2>3
  <2>5. stopF = {}
    <3> HIDE DEF F
    <3> QED BY <2>4
  <2>6. QED
    BY <1>6, <2>2, <2>5
<1>9. CASE ~(Len(s) < 2) /\ stopR # {}
  <2> DEFINE i == Break(rel, s)
  <2>1. i = CHOOSE j \in stopR : \A k \in stopR : j <= k
    BY <1>9 DEF Break
  <2>2. \E j \in stopR : \A k \in stopR : j <= k
    <3>1. stopR \subseteq Nat
      <4> HIDE DEF R
      <4> QED BY <1>1
    <3> HIDE DEF stopR
    <3>2. QED
      BY <1>9, <3>1, LeastNat
  <2>3. i \in stopR /\ \A k \in stopR : i <= k
    <3> HIDE DEF stopR, i
    <3> QED BY <2>1, <2>2
  <2>4. i \in 1 .. (Len(s) - 1) /\ ~R(i) /\ i \in Nat /\ i # 0
    <3> HIDE DEF R, i
    <3> QED BY <1>1, <2>3
  <2> HIDE DEF i
  <2>5. IsNumber(s[i]) /\ IsNumber(s[i + 1]) /\ Compare(rel, s, m).val = False
    <3>1. Compare(rel, s, m) = IF IsNumber(s[i]) /\ IsNumber(s[i + 1])
                               THEN Out(False, SubSeq(s, i + 2, Len(s)), m) ELSE Fails(m)
      BY <1>9, <2>4 DEF Compare, i
    <3>2. Fails(m).val = Error
      BY <1>4 DEF Fails
    <3>3. QED
      BY <1>4, <3>1, <3>2
  <2>6. \A k \in 1 .. (Len(s) - 1) : k < i => F(k)
    <3>1. TAKE k \in 1 .. (Len(s) - 1)
    <3>2. HAVE k < i
    <3>3. k \notin stopR
      <4> HIDE DEF R
      <4> QED BY <2>3, <2>4, <3>2
    <3>4. R(k)
      BY <3>3
    <3>5. QED
      <4> HIDE DEF F
      <4> QED BY <1>3, <3>4
  <2>7. ~F(i)
    <3> HIDE DEF F, R
    <3>1. R(i) <=> F(i)
      BY <1>3, <2>4, <2>5
    <3>2. QED
      BY <2>4, <3>1
  <2>8. i \in stopF /\ \A k \in stopF : i <= k
    <3> HIDE DEF F, R
    <3> QED BY <2>4, <2>6, <2>7
  <2>9. (CHOOSE j \in stopF : \A k \in stopF : j <= k) = i
    <3> DEFINE c == CHOOSE j \in stopF : \A k \in stopF : j <= k
    <3>1. stopF \subseteq Nat
      <4> HIDE DEF F
      <4> QED BY <1>1
    <3> HIDE DEF stopF
    <3>2. c \in stopF /\ \A k \in stopF : c <= k
      BY <2>8
    <3> HIDE DEF c
    <3>3. c <= i /\ i <= c /\ c \in Nat /\ i \in Nat
      BY <2>8, <3>1, <3>2
    <3>4. c = i
      BY <3>3
    <3>5. QED
      BY <3>4 DEF c
  <2>10. IsConst(s[i]) /\ IsConst(s[i + 1])
    BY <1>1, <1>2, <2>4, <2>5
  <2>11. FoldChain(rel, s) = False
    <3> HIDE DEF stopF
    <3> QED BY <1>5, <2>8, <2>9, <2>10
  <2>12. QED
    BY <2>5, <2>11
<1>10. QED
  BY <1>7, <1>8, <1>9

-----------------------------------------------------------------------------
(* What the program and the compiler compute.                              *)

LEMMA PrimFolded ==
    ASSUME NEW n \in Comparisons \cup {"+", "-", "*", "/"}, NEW m, NEW s \in Seq(Values),
           \A i \in DOMAIN s : Written(s[i]), ~TakesBits(n, s), Prim(n, s, m).val # Error
    PROVE  Eqv(Prim(n, s, m).val, Folded(n, s))
<1>1. \A v, l : Out(v, l, m).val = v
  BY DEF Out
<1>2. CASE n = "+"
  <2>1. Prim(n, s, m) = Out(Sum(s), <<>>, m) /\ Folded(n, s) = FoldAdd(s)
    BY <1>2 DEF Prim, Comparisons, TypeOf, Folded
  <2>2. ~TakesBits("+", s)
    BY <1>2 DEF TakesBits
  <2>3. QED
    BY <1>1, <2>1, <2>2, SumsAlike
<1>3. CASE n = "*"
  <2>1. Prim(n, s, m) = Out(Product(s), <<>>, m) /\ Folded(n, s) = FoldMul(s)
    BY <1>3 DEF Prim, Comparisons, TypeOf, Folded
  <2>2. ~TakesBits("+", s)
    BY <1>3 DEF TakesBits
  <2>3. QED
    BY <1>1, <2>1, <2>2, SumsAlike
<1>4. CASE n = "-"
  <2>1. Prim(n, s, m) = Out(Difference(s), <<>>, m) /\ Folded(n, s) = FoldSub(s)
    BY <1>4 DEF Prim, Comparisons, TypeOf, Folded
  <2>2. QED
    BY <1>1, <2>1, DifferencesAlike
<1>5. CASE n = "/"
  <2>1. Prim(n, s, m) = Out(Quotient(s), <<>>, m) /\ Folded(n, s) = FoldDiv(s)
    BY <1>5 DEF Prim, Comparisons, TypeOf, Folded
  <2>2. QED
    BY <1>1, <2>1, DifferencesAlike
<1>6. CASE n \in Comparisons
  <2>1. Prim(n, s, m) = Compare(n, s, m) /\ Folded(n, s) = FoldChain(n, s)
    BY <1>6 DEF Prim, Comparisons, TypeOf, Folded
  <2>2. Compare(n, s, m).val = FoldChain(n, s)
    BY <1>6, <2>1, ChainsAlike
  <2>3. Compare(n, s, m).val \in {True, False, Error}
    <3>1. \/ \E v \in {True, Error} : Compare(n, s, m) = Out(v, <<>>, m)
          \/ \E l : Compare(n, s, m) = Out(False, l, m)
          \/ Compare(n, s, m) = Out(Error, <<>>, m)
      BY DEF Compare, Fails
    <3>2. QED
      BY <1>1, <3>1
  <2>4. \A v \in {True, False, Error} : Eqv(v, v)
    BY DEF Eqv, Eq, IsNumber, Is, True, False, Bool, Error
  <2>5. QED
    BY <2>1, <2>2, <2>3, <2>4
<1>7. QED
  BY <1>2, <1>3, <1>4, <1>5, <1>6

\* For every program, whatever it has passed on before, every number of
\* arguments and all floats of the model: when +, -, *, / or a comparison of
\* arguments that can be written as constants returns, and does not take the
\* bits of its argument, its value is the one the compiler computes, up to the
\* exactness of zero.
THEOREM FoldingIsSound == Spec => SameAsFolded
<1> DEFINE Ops == Comparisons \cup {"+", "-", "*", "/"}
           Same == (/\ stk = <<>> /\ res' # Error
                    /\ \A i \in DOMAIN op'.args : Written(op'.args[i])
                    /\ ~TakesBits(op'.name, op'.args)
                    /\ op'.name \in Ops)
                     => Eqv(res', Folded(op'.name, op'.args))
           Plain == /\ \A i \in DOMAIN op'.args : Written(op'.args[i])
                    /\ ~TakesBits(op'.name, op'.args)
<1>1. Init => PrimsInv
  BY InvInit
<1>2. PrimsInv /\ [Next]_vars => PrimsInv'
  BY InvNext
<1>3. PrimsInv /\ [Next]_vars => [Same]_vars
  <2>1. SUFFICES ASSUME PrimsInv, Next PROVE Same \/ UNCHANGED vars
    BY Zenon
  <2>2. ASSUME NEW args \in Programs[program].arguments, stk = <<>>
        PROVE  args \in Seq(Values) /\ args \o stk = args
    <3>1. program \in DOMAIN Programs
      BY <2>1 DEF PrimsInv
    <3>2. args \in Seq(Values)
      BY <3>1, ProgramsAssumption
    <3>3. args \o <<>> = args
      BY <3>2
    <3>4. QED
      BY <2>2, <3>2, <3>3
  <2>3. ASSUME NEW n \in Programs[program].primops, NEW args \in Programs[program].arguments,
               Primcall(n, args), stk = <<>>, res' # Error, Plain, op'.name \in Ops
        PROVE  Eqv(res', Folded(op'.name, op'.args))
    <3>1. op' = [name |-> n, args |-> args, inline |-> TRUE]
      BY <2>3 DEF Primcall, Continue
    <3>2. /\ op'.name = n /\ op'.args = args
          /\ \A i \in DOMAIN args : Written(args[i])
          /\ ~TakesBits(n, args)
      BY <2>3, <3>1
    <3>3. res' = Prim(n, args, mem).val
      <4>1. res' = Prim(n, args \o stk, mem).val
        BY <2>3 DEF Primcall, Continue
      <4>2. QED
        BY <2>2, <2>3, <4>1
    <3> HIDE DEF Ops, Plain
    <3>4. QED
      BY <2>2, <2>3, <3>2, <3>3, PrimFolded DEF Ops
  <2>4. ASSUME NEW n \in Programs[program].procedures, NEW args \in Programs[program].arguments,
               NEW s \in Stacks(args),
               Call(n, args, s), stk = <<>>, res' # Error, Plain, op'.name \in Ops
        PROVE  Eqv(res', Folded(op'.name, op'.args))
    <3>1. op' = [name |-> n, args |-> args, inline |-> FALSE]
      BY <2>4 DEF Call, Continue
    <3>2. /\ op'.name = n /\ op'.args = args
          /\ \A i \in DOMAIN args : Written(args[i])
          /\ ~TakesBits(n, args)
      BY <2>4, <3>1
    <3>3. n # "apply" /\ n # "call-with-values"
      BY <2>4, <3>2 DEF Comparisons
    <3>4. res' = Prim(n, args, mem).val
      <4>1. res' = Prim(n, s, mem).val
        BY <2>4, <3>3 DEF Call, Continue
      <4>2. s = args
        BY <2>2, <2>4 DEF Stacks
      <4>3. QED
        BY <4>1, <4>2
    <3> HIDE DEF Ops, Plain
    <3>5. QED
      BY <2>2, <2>4, <3>2, <3>4, PrimFolded DEF Ops
  <2>5. Astray => Same
    BY DEF Astray
  <2>6. Exited => UNCHANGED vars
    BY DEF Exited
  <2> HIDE DEF Ops
  <2>7. ASSUME NEW n \in Programs[program].primops, NEW args \in Programs[program].arguments,
               Primcall(n, args)
        PROVE  Same
    BY <2>3, <2>7
  <2>8. ASSUME NEW n \in Programs[program].procedures, NEW args \in Programs[program].arguments,
               NEW s \in Stacks(args), Call(n, args, s)
        PROVE  Same
    BY <2>4, <2>8
  <2> HIDE DEF Same
  <2>9. QED
    BY <2>1, <2>5, <2>6, <2>7, <2>8 DEF Next
<1>4. QED
  BY <1>1, <1>2, <1>3, PTL DEF Spec, SameAsFolded
=============================================================================
