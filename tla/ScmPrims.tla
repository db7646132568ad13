------------------------------ MODULE ScmPrims ------------------------------
(***************************************************************************)
(* The primitives of the compiled runtime (src/scheme/scm_runtime.c) that  *)
(* take their arguments from the argument stack: arithmetic, comparisons,  *)
(* equivalence and type predicates, lists, vectors, apply and              *)
(* call-with-values.  A compiled program uses one inline (Primcall: the    *)
(* result goes to a variable) or through its procedure (Call: the result   *)
(* goes to a continuation that takes exactly one argument).  Beside them   *)
(* stand the versions the compiler runs on constants (src/src/cps.c,       *)
(* src/src/sly_types.c).                                                   *)
(*                                                                         *)
(* A value is a tuple that starts with its type: <<"int", n>>; the float   *)
(* <<"flo", n, d>>, a rational, with n / 0 for an infinity or NaN (both    *)
(* sides round with the same hardware, so rounding is left out); a         *)
(* reference <<type, id>> to the cells of an object in memory.             *)
(***************************************************************************)
EXTENDS Integers, Sequences, SequencesExt

CONSTANTS
    MaxInt,         \* INT32_MAX: the largest integer of the runtime
    MaxFold,        \* INT64_MAX: the largest integer of the compiler
    ArgStackLen,    \* ARG_STACK_LEN
    Word,           \* 2^32: list-ref counts in a u32
    TinyDen,        \* 2^1074: the denominator of the smallest float
    Programs        \* the programs by name: the objects one starts with and may
                    \* have (objects, room), the primitives it uses inline and
                    \* calls (primops, procedures), the argument lists it passes
                    \* (arguments)

ASSUME BoundsAssumption ==
    /\ MaxInt \in Nat /\ MaxFold \in Nat /\ MaxInt <= MaxFold
    /\ Word \in Nat \ {0} /\ TinyDen \in Nat \ {0}

VARIABLES
    program,    \* the name of the program that runs
    stk,        \* arg_stack, its top first
    mem,        \* the objects: the type and the cells of each
    bare,       \* the objects that were made without a value for their cells
    held,       \* whether a primitive has returned what malloc left in a cell
    res,        \* the value of the last primitive
    op,         \* the last primitive and its arguments
    status      \* "run"; "exit" once an assertion has failed; "undefined" once
                \* memory has been overwritten or junk has been followed

vars == <<program, stk, mem, bare, held, res, op, status>>

Integer(n) == <<"int", n>>
Char(n) == <<"char", n>>
Bool(b) == <<"bool", IF b THEN 1 ELSE 0>>
True == Bool(TRUE)
False == Bool(FALSE)
Null == <<"null", 0>>
Void == <<"void", 0>>
Error == <<"error", 0>>

\* What malloc left in a cell that was never written.
Junk == <<"junk", 0>>

\* The outcome of a primitive that writes outside the object it works on.
Chaos == <<"chaos", 0>>

\* A C int that was returned without boxing it: the bits 1 are those of the
\* smallest float, the bits 0 those of 0.0.
Raw(b) == IF b THEN <<"flo", 1, TinyDen>> ELSE <<"flo", 0, 1>>

Is(t, v) == v[1] = t

References == {"pair", "vector", "bytevector", "string", "record"}

-----------------------------------------------------------------------------
(* Numbers.                                                                *)

\* FLOAT_P looks at the exponent, so infinities and NaN are not numbers.
IsNumber(v) == Is("int", v) \/ (Is("flo", v) /\ v[3] # 0)

Sign(n) == IF n > 0 THEN 1 ELSE IF n < 0 THEN -1 ELSE 0

Abs(n) == IF n < 0 THEN -n ELSE n

Gcd(a, b) == CHOOSE g \in 1..(a + b) :
                /\ a % g = 0 /\ b % g = 0
                /\ \A h \in (g + 1)..(a + b) : a % h # 0 \/ b % h # 0

\* The float n / d; a zero denominator gives an infinity or NaN.
Float(n, d) ==
    IF d = 0 THEN <<"flo", Sign(n), 0>>
    ELSE LET g == Gcd(Abs(n), Abs(d)) IN <<"flo", Sign(d) * (n \div g), Abs(d) \div g>>

NaN == <<"flo", 0, 0>>

Num(v) == v[2]
Den(v) == IF Is("flo", v) THEN v[3] ELSE 1

\* An integer result must fit the word, or the program stops.
Boxed(n, max) == IF n \in (-max - 1)..max THEN Integer(n) ELSE Error

Plus(x, y, max) ==
    IF Is("int", x) /\ Is("int", y) THEN Boxed(x[2] + y[2], max)
    ELSE IF Den(x) = 0 /\ Den(y) = 0 THEN (IF x = y THEN x ELSE NaN)
    ELSE Float(Num(x) * Den(y) + Num(y) * Den(x), Den(x) * Den(y))

Minus(x, y, max) ==
    IF Is("int", x) /\ Is("int", y) THEN Boxed(x[2] - y[2], max)
    ELSE Plus(Float(Num(x), Den(x)), Float(-Num(y), Den(y)), max)

Times(x, y, max) ==
    IF Is("int", x) /\ Is("int", y) THEN Boxed(x[2] * y[2], max)
    ELSE Float(Num(x) * Num(y), Den(x) * Den(y))

Over(x, y) == Float(Num(x) * Den(y), Den(x) * Num(y))

\* The sign of x - y; NaN compares with nothing.
Diff(x, y) == IF Den(x) = 0 /\ Den(y) = 0 THEN Num(x) - Num(y)
              ELSE Num(x) * Den(y) - Num(y) * Den(x)
Ordered(x, y) == x # NaN /\ y # NaN

\* addxx, subxx, mulxx, divxx: a type error unless both are numbers.
AddXX(x, y) == IF IsNumber(x) /\ IsNumber(y) THEN Plus(x, y, MaxInt) ELSE Error
SubXX(x, y) == IF IsNumber(x) /\ IsNumber(y) THEN Minus(x, y, MaxInt) ELSE Error
MulXX(x, y) == IF IsNumber(x) /\ IsNumber(y) THEN Times(x, y, MaxInt) ELSE Error
DivXX(x, y) == IF IsNumber(x) /\ IsNumber(y) THEN Over(x, y) ELSE Error

LessXX(x, y) == Ordered(x, y) /\ Diff(x, y) < 0
GrXX(x, y) == Ordered(x, y) /\ Diff(x, y) > 0
LeqXX(x, y) == Ordered(x, y) /\ Diff(x, y) <= 0
GeqXX(x, y) == Ordered(x, y) /\ Diff(x, y) >= 0
NumEqXX(x, y) == Ordered(x, y) /\ Diff(x, y) = 0
RelXX(rel, x, y) ==
    CASE rel = "=" -> NumEqXX(x, y) [] rel = "<" -> LessXX(x, y) [] rel = ">" -> GrXX(x, y)
      [] rel = "<=" -> LeqXX(x, y)  [] rel = ">=" -> GeqXX(x, y)

-----------------------------------------------------------------------------
(* Arithmetic.  A primitive takes the argument stack and the memory, and   *)
(* returns its value, what it leaves on the stack, and the memory.         *)

Out(v, left, m) == [val |-> v, left |-> left, mem |-> m]
Fails(m) == Out(Error, <<>>, m)
Wild(m) == Out(Chaos, <<>>, m)

\* The bits of a float so small that they are an integer of the runtime.
Bits(v) == v[2] * (TinyDen \div v[3])
Tiny(v) == Is("flo", v) /\ v[3] # 0 /\ TinyDen % v[3] = 0 /\ Bits(v) \in 0..MaxInt

\* make_int applied to a boxed value instead of to the integer in it: of the
\* values of a program only the bits of 0.0 and of the smallest floats pass
\* its range checks.
Reboxed(v) == IF Tiny(v) THEN Integer(Bits(v)) ELSE IF v = Junk THEN Junk ELSE Error

Sum(s) == CASE Len(s) = 0 -> Integer(0)
            [] Len(s) = 1 -> Reboxed(s[1])
            [] OTHER -> FoldLeft(AddXX, Head(s), Tail(s))

Product(s) == CASE Len(s) = 0 -> Integer(1)
                [] Len(s) = 1 -> Reboxed(s[1])
                [] OTHER -> FoldLeft(MulXX, Head(s), Tail(s))

\* (mutant) the first argument is also among those subtracted
DifferenceOfAll(s) ==
    IF Len(s) = 0 THEN Error
    ELSE IF Len(s) = 1 THEN SubXX(Integer(0), s[1]) ELSE SubXX(s[1], Sum(s))

Difference(s) ==
    CASE Len(s) = 0 -> Error
      [] Len(s) = 1 -> SubXX(Integer(0), s[1])
      [] Len(s) = 2 -> SubXX(s[1], s[2])
      [] OTHER -> SubXX(s[1], Sum(Tail(s)))

Quotient(s) ==
    CASE Len(s) = 0 -> Error
      [] Len(s) = 1 -> DivXX(Integer(1), s[1])
      [] Len(s) = 2 -> DivXX(s[1], s[2])
      [] OTHER -> DivXX(s[1], Product(Tail(s)))

\* The first place where a chain of comparisons stops, 0 if it holds.
Break(rel, s) ==
    LET stop == {i \in 1..(Len(s) - 1) :
                    ~(IsNumber(s[i]) /\ IsNumber(s[i + 1]) /\ RelXX(rel, s[i], s[i + 1]))}
    IN IF stop = {} THEN 0 ELSE CHOOSE i \in stop : \A j \in stop : i <= j

\* (mutant) the loop ends while one argument is left to compare
CompareShort(rel, s, m) ==
    LET i == Break(rel, s) IN
    IF Len(s) < 2 THEN Out(IF \A j \in DOMAIN s : IsNumber(s[j]) THEN True ELSE Error, <<>>, m)
    ELSE IF i = 0 THEN Out(True, SubSeq(s, Len(s), Len(s)), m)
    ELSE IF IsNumber(s[i]) /\ IsNumber(s[i + 1])
         THEN Out(False, SubSeq(s, i + 2, Len(s)), m)
         ELSE Fails(m)

\* A comparison pops along the arguments and returns at the first pair that
\* is not related; the arguments behind that pair stay on the stack.
Compare(rel, s, m) ==
    LET i == Break(rel, s) IN
    IF Len(s) < 2 THEN Out(IF \A j \in DOMAIN s : IsNumber(s[j]) THEN True ELSE Error, <<>>, m)
    ELSE IF i = 0 THEN Out(True, <<>>, m)
    ELSE IF IsNumber(s[i]) /\ IsNumber(s[i + 1])
         THEN Out(False, SubSeq(s, i + 2, Len(s)), m)
         ELSE Fails(m)

\* zero?, positive? and negative? return the C int of the comparison.
AgainstZero(rel, s, m) ==
    IF Len(s) = 1 /\ IsNumber(s[1]) THEN Out(Raw(RelXX(rel, s[1], Integer(0))), <<>>, m) ELSE Fails(m)

-----------------------------------------------------------------------------
(* Objects.                                                                *)

Cells(v, m) == m[v[2]].cells

\* A new object, and the reference to it as the value.
Fresh(t, cells, m) == Out(<<t, Len(m) + 1>>, <<>>, Append(m, [tag |-> t, cells |-> cells]))

WriteCell(v, i, x, m) == Out(Void, <<>>, [m EXCEPT ![v[2]].cells[i] = x])

Car(v, m) == IF Is("pair", v) THEN Cells(v, m)[1] ELSE Error
Cdr(v, m) == IF Is("pair", v) THEN Cells(v, m)[2] ELSE Error

\* The n-th cdr of v, for n up to k; and up to twice the number of objects.
CdrsTo(k, v, m) ==
    LET cdr[n \in Nat] == IF n = 0 THEN v ELSE Cdr(cdr[n - 1], m)
    IN [n \in 0..k |-> cdr[n]]

Cdrs(v, m) == CdrsTo(2 * Len(m) + 3, v, m)

\* race: the hare takes two steps, the tortoise one, until the hare is at
\* the end or meets the tortoise.
Laps(v, m) ==
    LET c == Cdrs(v, m)
        ends == {k \in 0..(Len(m) + 1) :
                    \/ ~Is("pair", c[2 * k]) \/ ~Is("pair", c[2 * k + 1])
                    \/ c[2 * k + 1] = c[k]}
    IN CHOOSE j \in ends : \A i \in ends : j <= i

\* (mutant) a hare that stops on its second step has always found a list
RaceOnce(v, m) ==
    LET k == Laps(v, m) c == Cdrs(v, m)
    IN [list |-> Is("pair", c[2 * k]) \/ c[2 * k] = Null, laps |-> k]

Race(v, m) ==
    LET k == Laps(v, m) c == Cdrs(v, m)
    IN [list |-> (IF Is("pair", c[2 * k]) THEN c[2 * k + 1] ELSE c[2 * k]) = Null, laps |-> k]

\* The elements push_list_args pushes; it stops the program at the end of an
\* improper list and overflows the C stack on a circular one.
ListArgs(v, m) ==
    LET c == Cdrs(v, m)
        ends == {n \in DOMAIN c : ~Is("pair", c[n])}
        n == CHOOSE j \in ends : \A i \in ends : j <= i
    IN IF ends = {} \/ c[n] # Null THEN <<Error>> ELSE [i \in 1..n |-> Car(c[i - 1], m)]

ListP(s, m) == IF Len(s) = 1 THEN Out(Bool(Race(s[1], m).list), <<>>, m) ELSE Fails(m)

Length(s, m) ==
    IF Len(s) = 1 /\ Race(s[1], m).list THEN Out(Integer(Race(s[1], m).laps), <<>>, m) ELSE Fails(m)

\* The index is converted to a u32 and counted down, round and round a
\* circular list if it is large.
ListRef(s, m) ==
    LET idx == s[2][2] % Word
        at == CdrsTo(idx, s[1], m)[idx]
    IN IF Len(s) = 2 /\ Is("int", s[2]) /\ Is("pair", at)
       THEN Out(Car(at, m), <<>>, m) ELSE Fails(m)

\* (mutant) every pair is linked to the one made after it
ListForward(s, m) ==
    LET n == Len(m)
        pairs == [i \in 1..Len(s) |->
                    [tag |-> "pair", cells |-> <<s[Len(s) + 1 - i], <<"pair", n + i + 1>> >>]]
    IN Out(Void, <<>>, m \o pairs)

\* prim_list conses the list and does not push it: the continuation gets the
\* void value _tail_call puts on an empty stack.
List(s, m) ==
    LET n == Len(m)
        pairs == [i \in 1..Len(s) |->
                    [tag |-> "pair", cells |-> <<s[Len(s) + 1 - i],
                                        IF i = 1 THEN Null ELSE <<"pair", n + i - 1>> >>]]
    IN Out(Void, <<>>, m \o pairs)

SetPair(i, s, m) ==
    IF Len(s) = 2 /\ Is("pair", s[1]) THEN WriteCell(s[1], i, s[2], m) ELSE Fails(m)

\* (mutant) the fill stops before the last cell
MakeFilledShort(t, s, m, ok) ==
    LET n == s[1][2] IN
    IF Len(s) = 0 \/ ~Is("int", s[1]) THEN Fails(m)
    ELSE IF n < 0 THEN Wild(m)
    ELSE IF Len(s) = 1 THEN Fresh(t, [i \in 1..n |-> Junk], m)
    ELSE IF ~ok THEN Fails(m)
    ELSE [Fresh(t, [i \in 1..n |-> IF i < n THEN s[2] ELSE Junk], m) EXCEPT !.left = SubSeq(s, 3, Len(s))]

\* make-vector and make-bytevector: a second argument fills the cells, and
\* any further one stays on the stack.  A negative length is one of more than
\* 2^31 to scm_heap_alloc, which has no such room (ScmHeap).
MakeFilled(t, s, m, ok) ==
    LET n == s[1][2] IN
    IF Len(s) = 0 \/ ~Is("int", s[1]) THEN Fails(m)
    ELSE IF n < 0 THEN Wild(m)
    ELSE IF Len(s) = 1 THEN Fresh(t, [i \in 1..n |-> Junk], m)
    ELSE IF ~ok THEN Fails(m)
    ELSE [Fresh(t, [i \in 1..n |-> s[2]], m) EXCEPT !.left = SubSeq(s, 3, Len(s))]

IsByte(v) == Is("int", v) /\ v[2] \in 0..255

Index(t, s, m) == Is(t, s[1]) /\ Is("int", s[2]) /\ s[2][2] \in 0..(Len(Cells(s[1], m)) - 1)

\* vector-ref boxes the element it reads a second time.
VectorRef(s, m) ==
    IF Len(s) = 2 /\ Index("vector", s, m)
    THEN Out(Reboxed(Cells(s[1], m)[s[2][2] + 1]), <<>>, m) ELSE Fails(m)

\* vector-set! asserts that it has a bytevector, and then writes a word as if
\* its bytes were words, over the headers and the cells of its neighbours.
VectorSet(s, m) == IF Len(s) = 3 /\ Index("bytevector", s, m) THEN Wild(m) ELSE Fails(m)

BytevectorRef(s, m) ==
    IF Len(s) = 2 /\ Index("bytevector", s, m)
    THEN Out(Cells(s[1], m)[s[2][2] + 1], <<>>, m) ELSE Fails(m)

BytevectorSet(s, m) ==
    IF Len(s) = 3 /\ Index("bytevector", s, m) /\ IsByte(s[3])
    THEN WriteCell(s[1], s[2][2] + 1, s[3], m) ELSE Fails(m)

CellCount(t, s, m) ==
    IF Len(s) = 1 /\ Is(t, s[1]) THEN Out(Integer(Len(Cells(s[1], m))), <<>>, m) ELSE Fails(m)

\* A record is its meta value and its fields, which make-record leaves as
\* they are.  It takes a negative number of fields for a large one.
MakeRecord(s, m) ==
    IF Len(s) # 2 \/ ~Is("int", s[1]) THEN Fails(m)
    ELSE IF s[1][2] < 0 THEN Wild(m)
    ELSE Fresh("record", <<s[2]>> \o [i \in 1..s[1][2] |-> Junk], m)

\* Field idx of a record is cell idx + 2; its index is checked.
FieldOf(s, m) == Is("record", s[1]) /\ Is("int", s[2]) /\ s[2][2] \in 0..(Len(Cells(s[1], m)) - 2)

RecordRef(s, m) ==
    IF Len(s) = 2 /\ FieldOf(s, m) THEN Out(Cells(s[1], m)[s[2][2] + 2], <<>>, m) ELSE Fails(m)

RecordSet(s, m) ==
    IF Len(s) = 3 /\ FieldOf(s, m) THEN WriteCell(s[1], s[2][2] + 2, s[3], m) ELSE Fails(m)

RecordMetaRef(s, m) ==
    IF Len(s) = 1 /\ Is("record", s[1]) THEN Out(Cells(s[1], m)[1], <<>>, m) ELSE Fails(m)

RecordMetaSet(s, m) ==
    IF Len(s) = 2 /\ Is("record", s[1]) THEN WriteCell(s[1], 1, s[2], m) ELSE Fails(m)

-----------------------------------------------------------------------------
(* Equivalence, types and characters.                                      *)

\* Symbols are compared by their hash, everything else by its bits.
Eq(x, y) == x = y

Eqv(x, y) == IF IsNumber(x) /\ IsNumber(y) THEN NumEqXX(x, y) ELSE Eq(x, y)

\* (mutant) a vector is equal to a longer one that it begins
EqualPrefix(x, y, m) ==
    LET alike[a \in DOMAIN m] ==
            {b \in DOMAIN m :
                /\ Len(m[a].cells) <= Len(m[b].cells)
                /\ \A i \in DOMAIN m[a].cells :
                      LET u == m[a].cells[i] v == m[b].cells[i] IN
                      IF Is("vector", u) /\ Is("vector", v) THEN v[2] \in alike[u[2]]
                      ELSE IF Is("string", u) /\ Is("string", v) THEN Cells(u, m) = Cells(v, m)
                      ELSE IF Is("bytevector", u) /\ Is("bytevector", v) THEN TRUE
                      ELSE Eqv(u, v)}
    IN IF x[1] \in {"vector", "string"} /\ y[1] = x[1] THEN y[2] \in alike[x[2]]
       ELSE IF Is("bytevector", x) /\ Is("bytevector", y) THEN TRUE
       ELSE Eqv(x, y)

\* primop_equal: strings by their characters, vectors by their elements, and
\* a bytevector with itself whatever the other one is; pairs by identity.
Equal(x, y, m) ==
    LET alike[a \in DOMAIN m] ==
            {b \in DOMAIN m :
                /\ Len(m[a].cells) = Len(m[b].cells)
                /\ \A i \in DOMAIN m[a].cells :
                      LET u == m[a].cells[i] v == m[b].cells[i] IN
                      IF Is("vector", u) /\ Is("vector", v) THEN v[2] \in alike[u[2]]
                      ELSE IF Is("string", u) /\ Is("string", v) THEN Cells(u, m) = Cells(v, m)
                      ELSE IF Is("bytevector", u) /\ Is("bytevector", v) THEN TRUE
                      ELSE Eqv(u, v)}
    IN IF x[1] \in {"vector", "string"} /\ y[1] = x[1] THEN y[2] \in alike[x[2]]
       ELSE IF Is("bytevector", x) /\ Is("bytevector", y) THEN TRUE
       ELSE Eqv(x, y)

Two(s, m, p) == IF Len(s) = 2 THEN Out(Bool(p), <<>>, m) ELSE Fails(m)

TypeOf == [n \in {"boolean?", "char?", "null?", "pair?", "procedure?", "symbol?",
                  "bytevector?", "vector?", "record?"} |->
              CASE n = "boolean?" -> "bool"   [] n = "char?" -> "char"
                [] n = "null?" -> "null"      [] n = "pair?" -> "pair"
                [] n = "procedure?" -> "proc" [] n = "symbol?" -> "symbol"
                [] n = "bytevector?" -> "bytevector" [] n = "vector?" -> "vector"
                [] n = "record?" -> "record"]

TypeP(n, s, m) == IF Len(s) = 1 THEN Out(Bool(Is(TypeOf[n], s[1])), <<>>, m) ELSE Fails(m)

NumberP(s, m) == IF Len(s) = 1 THEN Out(Bool(IsNumber(s[1])), <<>>, m) ELSE Fails(m)

\* string?, 1+ and 1- count the continuation out: with the argument they
\* need they stop on an arity error, without it on an underflow.
Miscounted(s, m) == Fails(m)

Convert(from, to, s, m) ==
    IF Len(s) = 1 /\ Is(from, s[1]) THEN Out(<<to, s[1][2]>>, <<>>, m) ELSE Fails(m)

-----------------------------------------------------------------------------
(* The primitives by name.                                                 *)

Comparisons == {"=", "<", ">", "<=", ">="}

Prim(n, s, m) ==
    CASE n = "+" -> Out(Sum(s), <<>>, m)
      [] n = "*" -> Out(Product(s), <<>>, m)
      [] n = "-" -> Out(Difference(s), <<>>, m)
      [] n = "/" -> Out(Quotient(s), <<>>, m)
      [] n \in Comparisons -> Compare(n, s, m)
      [] n = "zero?" -> AgainstZero("=", s, m)
      [] n = "positive?" -> AgainstZero(">", s, m)
      [] n = "negative?" -> AgainstZero("<", s, m)
      [] n \in {"1+", "1-", "string?"} -> Miscounted(s, m)
      [] n = "void" -> Out(Void, s, m)
      [] n = "cons" -> IF Len(s) = 2 THEN Fresh("pair", s, m) ELSE Fails(m)
      [] n = "car" -> IF Len(s) = 1 THEN Out(Car(s[1], m), <<>>, m) ELSE Fails(m)
      [] n = "cdr" -> IF Len(s) = 1 THEN Out(Cdr(s[1], m), <<>>, m) ELSE Fails(m)
      [] n = "set-car!" -> SetPair(1, s, m)
      [] n = "set-cdr!" -> SetPair(2, s, m)
      [] n = "list" -> List(s, m)
      [] n = "list?" -> ListP(s, m)
      [] n = "length" -> Length(s, m)
      [] n = "list-ref" -> ListRef(s, m)
      [] n = "vector" -> Fresh("vector", s, m)
      [] n = "make-vector" -> MakeFilled("vector", s, m, TRUE)
      [] n = "vector-length" -> CellCount("vector", s, m)
      [] n = "vector-ref" -> VectorRef(s, m)
      [] n = "vector-set!" -> VectorSet(s, m)
      [] n = "bytevector" ->
            IF \A i \in DOMAIN s : IsByte(s[i]) THEN Fresh("bytevector", s, m) ELSE Fails(m)
      [] n = "make-bytevector" -> MakeFilled("bytevector", s, m, Len(s) > 1 /\ IsByte(s[2]))
      [] n = "bytevector-length" -> CellCount("bytevector", s, m)
      [] n = "bytevector-u8-ref" -> BytevectorRef(s, m)
      [] n = "bytevector-u8-set!" -> BytevectorSet(s, m)
      [] n = "make-record" -> MakeRecord(s, m)
      [] n = "record-ref" -> RecordRef(s, m)
      [] n = "record-set!" -> RecordSet(s, m)
      [] n = "record-meta-ref" -> RecordMetaRef(s, m)
      [] n = "record-meta-set!" -> RecordMetaSet(s, m)
      [] n = "eq?" -> Two(s, m, Eq(s[1], s[2]))
      [] n = "eqv?" -> Two(s, m, Eqv(s[1], s[2]))
      [] n = "equal?" -> Two(s, m, Equal(s[1], s[2], m))
      [] n \in DOMAIN TypeOf -> TypeP(n, s, m)
      [] n = "number?" -> NumberP(s, m)
      [] n = "char->integer" -> Convert("char", "int", s, m)
      [] n = "integer->char" -> Convert("int", "char", s, m)

\* prim_apply: the last argument is a list, spread behind the others.
Spread(s, m) ==
    LET rest == Tail(s) IN IF rest = <<>> THEN <<>> ELSE Front(rest) \o ListArgs(Last(rest), m)

Apply(s, m) ==
    LET vals == Spread(s, m)
    IN IF s = <<>> \/ ~Is("proc", s[1]) \/ Error \in ToSet(vals) \/ Len(vals) >= ArgStackLen
       THEN Fails(m) ELSE Prim(s[1][2], vals, m)

\* prim_call_with_values: the consumer gets all the producer left.
CallWithValues(s, m) ==
    IF Len(s) # 2 \/ \E i \in DOMAIN s : ~Is("proc", s[i]) THEN Fails(m)
    ELSE LET o == Prim(s[1][2], <<>>, m)
         IN IF o.val \in {Error, Chaos} THEN o ELSE Prim(s[2][2], <<o.val>> \o o.left, o.mem)

\* The primitive that does the work of a call, and what it is applied to.
Worker(n, s, m) ==
    CASE n = "apply" /\ s # <<>> /\ Is("proc", s[1]) -> [prim |-> s[1][2], args |-> Spread(s, m)]
      [] n = "call-with-values" /\ Len(s) = 2 /\ (\A i \in DOMAIN s : Is("proc", s[i])) ->
            LET o == Prim(s[1][2], <<>>, m) IN [prim |-> s[2][2], args |-> <<o.val>> \o o.left]
      [] OTHER -> [prim |-> n, args |-> s]

\* Whether the object it makes has cells nobody writes.
MakesBare(w) == \/ w.prim \in {"make-vector", "make-bytevector"} /\ Len(w.args) = 1
                \/ w.prim = "make-record"

\* The primitives the C backend inlines, and those the runtime defines.
Inlined == {"+", "-", "*", "/", "<", "cons"}

Primitives ==
    Comparisons \cup DOMAIN TypeOf \cup
    {"+", "-", "*", "/", "zero?", "positive?", "negative?", "1+", "1-", "string?", "void",
     "cons", "car", "cdr", "set-car!", "set-cdr!", "list", "list?", "length", "list-ref",
     "vector", "make-vector", "vector-length", "vector-ref", "vector-set!",
     "bytevector", "make-bytevector", "bytevector-length", "bytevector-u8-ref",
     "bytevector-u8-set!", "make-record", "record-ref", "record-set!", "record-meta-ref",
     "record-meta-set!", "eq?", "eqv?", "equal?", "number?", "char->integer", "integer->char"}

\* What a word of the runtime can be: a boxed immediate, a float, a procedure
\* or a reference.
Values ==
    ({"int", "char", "bool", "null", "void", "symbol", "error", "junk", "chaos"} \X Int)
    \cup ({"flo"} \X Int \X Nat) \cup ({"proc"} \X Primitives) \cup (References \X Nat)

\* A reference is to an object of its type.
Refers(v, m) == v[1] \in References => v[2] \in DOMAIN m /\ m[v[2]].tag = v[1]

\* Every object has the cells of its type, and they refer to objects; a
\* vector only to older vectors, as the elements of one are never changed.
WellMade(m) ==
    /\ m \in Seq([tag : References, cells : Seq(Values)])
    /\ \A id \in DOMAIN m :
          /\ m[id].tag = "pair" => Len(m[id].cells) = 2
          /\ m[id].tag = "record" => Len(m[id].cells) >= 1
          /\ m[id].tag = "vector" =>
                \A i \in DOMAIN m[id].cells :
                    Is("vector", m[id].cells[i]) => m[id].cells[i][2] < id
          /\ \A i \in DOMAIN m[id].cells : Refers(m[id].cells[i], m)

\* A program inlines what the backend can inline, calls what the runtime
\* defines, and passes values.
ASSUME ProgramsAssumption ==
    \A p \in DOMAIN Programs :
        /\ WellMade(Programs[p].objects)
        /\ Programs[p].primops \subseteq Inlined
        /\ Programs[p].procedures \subseteq Primitives \cup {"apply", "call-with-values"}
        /\ Programs[p].arguments \subseteq Seq(Values)

\* A value the text of a program can be: an integer that fits the word
\* (make_int).  Junk is a value a program can only have got from a primitive.
Written(v) == v # Junk /\ (Is("int", v) => v[2] \in (-MaxInt - 1)..MaxInt)

ASSUME ArgumentsAssumption ==
    \A p \in DOMAIN Programs :
        /\ \A args \in Programs[p].arguments :
              \A i \in DOMAIN args : args[i] = Junk \/ Written(args[i])
        /\ \A id \in DOMAIN Programs[p].objects :
              Junk \notin ToSet(Programs[p].objects[id].cells)

-----------------------------------------------------------------------------
(* What the compiler computes for a primitive with constant arguments.     *)

IsConst(v) == v[1] \in {"int", "flo"}

SlyAdd(x, y) == IF IsConst(x) /\ IsConst(y) THEN Plus(x, y, MaxFold) ELSE Error
SlySub(x, y) == IF IsConst(x) /\ IsConst(y) THEN Minus(x, y, MaxFold) ELSE Error
SlyMul(x, y) == IF IsConst(x) /\ IsConst(y) THEN Times(x, y, MaxFold) ELSE Error
SlyDiv(x, y) == IF IsConst(x) /\ IsConst(y) THEN Over(x, y) ELSE Error

FoldAdd(s) == FoldLeft(SlyAdd, Integer(0), s)
FoldMul(s) == FoldLeft(SlyMul, Integer(1), s)

FoldSub(s) ==
    IF s = <<>> THEN Error
    ELSE IF Len(s) = 1 THEN SlySub(Integer(0), s[1]) ELSE SlySub(s[1], FoldAdd(Tail(s)))

FoldDiv(s) ==
    IF s = <<>> THEN Error
    ELSE IF Len(s) = 1 THEN SlyDiv(Integer(1), s[1]) ELSE SlyDiv(s[1], FoldMul(Tail(s)))

SlyLeq(x, y) == LessXX(x, y) \/ NumEqXX(x, y)
SlyGeq(x, y) == GrXX(x, y) \/ NumEqXX(x, y)
SlyRel(rel, x, y) ==
    CASE rel = "<=" -> SlyLeq(x, y) [] rel = ">=" -> SlyGeq(x, y) [] OTHER -> RelXX(rel, x, y)

\* A chain of comparisons; sly_num_eq and its like assert two numbers.
FoldChain(rel, s) ==
    LET stop == {i \in 1..(Len(s) - 1) :
                    ~(IsConst(s[i]) /\ IsConst(s[i + 1]) /\ SlyRel(rel, s[i], s[i + 1]))}
        i == CHOOSE j \in stop : \A k \in stop : j <= k
    IN IF stop = {} THEN True
       ELSE IF IsConst(s[i]) /\ IsConst(s[i + 1]) THEN False ELSE Error

Folded(n, s) ==
    CASE n = "+" -> FoldAdd(s) [] n = "*" -> FoldMul(s)
      [] n = "-" -> FoldSub(s) [] n = "/" -> FoldDiv(s)
      [] n \in Comparisons -> FoldChain(n, s)

-----------------------------------------------------------------------------
(* The program.                                                            *)

Init ==
    /\ program \in DOMAIN Programs
    /\ stk = <<>>
    /\ mem = Programs[program].objects
    /\ bare = {}
    /\ held = FALSE
    /\ res = Void
    /\ op = [name |-> "void", args |-> <<>>, inline |-> TRUE]
    /\ status = "run"

\* After the primitive n took the stack s the program goes on with o, or it
\* stops in the exception handler, or nothing is known of it any more.
Continue(n, args, inline, s, o, ok) ==
    /\ Len(o.mem) <= Programs[program].room
    /\ status' = IF o.val = Chaos THEN "undefined" ELSE IF ok THEN "run" ELSE "exit"
    /\ res' = IF ok THEN o.val ELSE Error
    /\ stk' = IF ok THEN o.left ELSE <<>>
    /\ mem' = o.mem
    /\ bare' = IF MakesBare(Worker(n, s, mem)) THEN bare \cup (Len(mem) + 1)..Len(o.mem) ELSE bare
    /\ held' = (held \/ o.val = Junk)
    /\ op' = [name |-> n, args |-> args, inline |-> inline]
    /\ UNCHANGED program

Value(v) == Refers(v, mem)

\* A program passes constants, its objects, and junk once it has got hold of
\* some: the results of earlier primitives are all of these.
Usable(args) ==
    /\ status = "run"
    /\ \A i \in DOMAIN args : Value(args[i])
    /\ Junk \in ToSet(args) => held

\* A primitive used inline: its arguments go on top of what is on the stack.
Primcall(n, args) ==
    LET s == args \o stk
        o == Prim(n, s, mem)
    IN /\ Usable(args)
       /\ Continue(n, args, TRUE, s, o, Len(s) <= ArgStackLen /\ o.val \notin {Error, Chaos})

\* The stacks a call of a procedure can find: its arguments, in a tail call on
\* top of what is on the stack; in another one the closure made for its
\* continuation has taken all that was there for its free variables.
Stacks(args) == {args, args \o stk}

\* A primitive called, with the stack s: its result is on top of what it left,
\* and the continuation checks that it gets one value.
Call(n, args, s) ==
    LET o == CASE n = "apply" -> Apply(s, mem)
               [] n = "call-with-values" -> CallWithValues(s, mem)
               [] OTHER -> Prim(n, s, mem)
    IN /\ Usable(args)
       /\ Continue(n, args, FALSE, s, o,
                   Len(s) < ArgStackLen /\ o.val \notin {Error, Chaos} /\ o.left = <<>>)

\* The collector follows a cell nobody has written, or a primitive looks into
\* junk: it may stop, but it may also do anything.
Astray ==
    /\ status = "run"
    /\ \/ held
       \/ \E id \in DOMAIN mem : mem[id].tag # "bytevector" /\ Junk \in ToSet(mem[id].cells)
    /\ status' = "undefined"
    /\ res' = Error
    /\ stk' = <<>>
    /\ UNCHANGED <<program, mem, bare, held, op>>

Exited == status # "run" /\ UNCHANGED vars

Next ==
    \/ \E n \in Programs[program].primops, args \in Programs[program].arguments : Primcall(n, args)
    \/ \E n \in Programs[program].procedures, args \in Programs[program].arguments :
          \E s \in Stacks(args) : Call(n, args, s)
    \/ Astray
    \/ Exited

Spec == Init /\ [][Next]_vars

-----------------------------------------------------------------------------
(* Properties.                                                             *)

\* Every reference of the program is to an object of its type, also where
\* junk has been passed on and stored; as long as the status is not
\* "undefined", which is where memory that was overwritten leads.
TypeOK ==
    /\ status \in {"run", "exit", "undefined"}
    /\ Value(res) /\ \A i \in DOMAIN stk : Value(stk[i])
    /\ \A id \in DOMAIN mem : \A i \in DOMAIN mem[id].cells : Value(mem[id].cells[i])

\* The unary sums and products that take the bits of a float below 2^-1043 for
\* an integer.
TakesBits(n, s) == n \in {"+", "*"} /\ Len(s) = 1 /\ Tiny(s[1]) /\ Num(s[1]) # 0

\* What the compiler folds at compile time (prim_add ... prim_geq of cps.c)
\* is what the primitive (primop_add ... primop_geq) would have
\* computed, up to the exactness of zero, whenever that returns and starts
\* on an empty stack and does not take the bits of its argument.
SameAsFolded ==
    [][(/\ stk = <<>> /\ res' # Error
        /\ \A i \in DOMAIN op'.args : Written(op'.args[i])
        /\ ~TakesBits(op'.name, op'.args)
        /\ op'.name \in Comparisons \cup {"+", "-", "*", "/"})
        => Eqv(res', Folded(op'.name, op'.args))]_vars

\* A primitive that returns has used up its arguments (pop_arg); the one
\* exception is an inlined "<" that found its answer early.
LeftoversExplained == stk # <<>> => op.name = "<" /\ op.inline /\ res = False

\* Only make-vector and make-bytevector without a fill, and make-record,
\* leave cells that hold what malloc left there, the cells a collection would
\* follow.  Until a primitive has read one out there is no such cell anywhere
\* else, and without such an object no primitive ever does; once it has, the
\* program may store the junk in any object (cons, set-car!, record-set!).
JunkOnlyBare ==
    /\ ~held => \A id \in DOMAIN mem : Junk \in ToSet(mem[id].cells) => id \in bare
    /\ held => bare # {}

\* race finds every proper list, also when set-cdr! has made circular and
\* dotted ones, and always ends.
ListPExact ==
    [][(op'.name = "list?" /\ res' # Error /\ Len(op'.args) = 1)
        => res' = Bool(\E n \in 0..Len(mem) : Cdrs(op'.args[1], mem)[n] = Null)]_vars

\* equal? is an equivalence on the objects of the memory, whatever set-car!,
\* set-cdr! and bytevector-u8-set! have done to them.
EqualEquivalence ==
    LET vals == {v \in UNION {ToSet(args) : args \in Programs[program].arguments} : Value(v) /\ v # Junk}
        alike == [x \in vals |-> {y \in vals : Equal(x, y, mem)}]
    IN \A x \in vals : x \in alike[x] /\ \A y \in alike[x] : alike[y] = alike[x]

=============================================================================
