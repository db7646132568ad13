------------------------------ MODULE ScmString ------------------------------
(***************************************************************************)
(* Strings of the compiled runtime (src/scheme/scm_runtime.c).  A string   *)
(* is a window (off, len) into a shared buffer that is copied when it is   *)
(* written; buffers hold narrow or wide characters and lie in the memory   *)
(* pool, like everything else.  A string holds a C pointer to its buffer,  *)
(* not an offset into the pool: all of these pointers are stale once       *)
(* realloc has moved the pool.  What happens after a stale pointer or an   *)
(* access outside a buffer is undefined, so the model stops there.         *)
(***************************************************************************)
EXTENDS Integers, Sequences, FiniteSets

CONSTANTS
    Chars,          \* the characters of the program
    CharMax,        \* CHAR_MAX: larger characters need a wide buffer
    RcMax,          \* the largest value of a reference count (127, an i8)
    Word,           \* the number of values of a u32
    Indices,        \* the start and end indices the program passes
    MaxStrings,     \* bound on the strings the program makes
    MaxBufs,        \* bound on the buffers
    MaxLen          \* bound on the length of a new string

ASSUME CharsAssumption == Chars \subseteq Nat /\ CharMax \in Nat

ASSUME WidthAssumption == RcMax \in Nat /\ Word \in Nat \ {0} /\ Indices \subseteq Int

ASSUME BoundsAssumption == MaxStrings \in Nat /\ MaxBufs \in Nat /\ MaxLen \in Nat

VARIABLES
    strs,       \* the strings: buf, fresh (the pointer to it is good), off, len
    bufs,       \* the buffers: their cells, wc and rc
    moved,      \* whether the pool has moved since the last collection
    since,      \* the strings string_copy made since the last collection
    crowded,    \* the buffers whose count overflowed in the last collection
    status      \* "run", "freed" (a stale pointer was used) or "oob"

vars == <<strs, bufs, moved, since, crowded, status>>

Strings == DOMAIN strs

\* A cell that was never written.
Junk == -1

Wide(c) == c > CharMax

Buffer(cells, wc) == [cells |-> cells, wc |-> wc, rc |-> 1]

Buf(s) == bufs[strs[s].buf]

Stale(s) == ~strs[s].fresh

\* sb_ref: the cell of a buffer that is character i of a string.
Cell(s, i) == strs[s].off + i

InBuffer(s, i) == Cell(s, i) \in DOMAIN Buf(s).cells

InWindow(s) == \A i \in 1..strs[s].len : InBuffer(s, i)

\* string_ref over the whole string.
Content(s) == [i \in 1..strs[s].len |-> IF InBuffer(s, i) THEN Buf(s).cells[Cell(s, i)] ELSE Junk]

Init ==
    /\ strs = <<>> /\ bufs = <<>>
    /\ moved = FALSE
    /\ since = {} /\ crowded = {}
    /\ status = "run"

Stop(how) == status' = how /\ UNCHANGED <<strs, bufs, moved, since, crowded>>

\* scm_heap_alloc: the pool may have to grow, and realloc may move it from
\* under the pointers of the strings there are.
Aged(m) == [s \in Strings |-> [strs[s] EXCEPT !.fresh = @ /\ ~m]]

Room(ns, nb) == Len(strs) + ns <= MaxStrings /\ Len(bufs) + nb <= MaxBufs

\* A new string with a buffer of its own (init_string, make_string): the
\* string is allocated, then the buffer while a pointer to the string is held.
NewString(cells, wc) ==
    /\ status = "run" /\ Room(1, 1)
    /\ \/ Stop("freed")
       \/ \E m \in BOOLEAN :
             /\ bufs' = Append(bufs, Buffer(cells, wc))
             /\ strs' = Append(Aged(m), [buf |-> Len(bufs) + 1, fresh |-> TRUE, off |-> 0, len |-> Len(cells)])
             /\ moved' = (moved \/ m)
             /\ UNCHANGED <<since, crowded, status>>

\* init_string, for a constant of the program: always narrow.
InitString ==
    \E n \in 0..MaxLen : \E text \in [1..n -> {c \in Chars : ~Wide(c)}] : NewString(text, FALSE)

\* (string c ...)
PrimopString ==
    \E n \in 0..MaxLen : \E text \in [1..n -> Chars] :
        NewString(text, \E i \in DOMAIN text : Wide(text[i]))

\* (make-string n) and (make-string n c).  A negative n becomes a u32 the
\* pool has no room for.
PrimopMakeString ==
    \/ \E n \in 0..MaxLen :
          \/ NewString([i \in 1..n |-> Junk], FALSE)
          \/ \E c \in Chars : NewString([i \in 1..n |-> c], Wide(c))
    \/ status = "run" /\ (\E n \in Indices : n < 0) /\ Stop("oob")

\* string_copy: a window into the same buffer, whose count is not raised; the
\* offset of s is not added, and the window may lie outside the buffer.
Window(r, start, end) == [r EXCEPT !.off = start % Word, !.len = (end - start) % Word]

\* (string-copy s start) and (string-copy s start end), any two integers.
PrimopStringCopy ==
    \E s \in Strings : \E start \in Indices : \E end \in Indices \cup {strs[s].len} :
        /\ status = "run" /\ Room(1, 0)
        /\ \E m \in BOOLEAN :
              /\ strs' = Append(Aged(m), Window(Aged(m)[s], start, end))
              /\ moved' = (moved \/ m)
        /\ since' = since \cup {Len(strs) + 1}
        /\ UNCHANGED <<bufs, crowded, status>>

\* sb_narrow_to_wide: as many characters as the old buffer has are read from
\* the offset on and written to a buffer of the string's length.
NarrowToWide(s) ==
    LET sb == Buf(s) len == strs[s].len IN
    [fits |-> Len(sb.cells) <= len /\ strs[s].off = 0,
     cells |-> [i \in 1..len |-> IF InBuffer(s, i) THEN sb.cells[Cell(s, i)] ELSE Junk]]

\* sb_copy: the length is multiplied by the size of a character twice.
SbCopy(s) ==
    LET len == strs[s].len
        cap == IF Buf(s).wc THEN 4 * len ELSE len
    IN [i \in 1..cap |-> IF i <= len THEN Content(s)[i] ELSE Junk]

\* (mutant) the string is given its new buffer, the store is lost
WriteLost(s, i, c, sb, b) ==
    /\ bufs' = IF b > Len(bufs) THEN bufs ELSE [bufs EXCEPT ![b] = sb]
    /\ strs' = [strs EXCEPT ![s].buf = b]
    /\ UNCHANGED <<moved, since, crowded, status>>

\* Character i is stored in sb, which is or becomes buffer b of the string.
Write(s, i, c, sb, b) ==
    LET new == [sb EXCEPT !.cells[Cell(s, i)] = c] IN
    /\ bufs' = IF b > Len(bufs) THEN Append(bufs, new) ELSE [bufs EXCEPT ![b] = new]
    /\ strs' = [strs EXCEPT ![s].buf = b]
    /\ UNCHANGED <<moved, since, crowded, status>>

\* (mutant) a shared buffer is written in place
SharedNever(s) == FALSE

Shared(s) == Buf(s).rc > 1

\* (mutant) a shared buffer is copied and not widened
WidenUnshared(s, c) == Wide(c) /\ ~Buf(s).wc /\ Buf(s).rc = 1

Widen(s, c) == Wide(c) /\ ~Buf(s).wc

\* (string-set! s i c) for an index that passes the check.  The offset is
\* kept when the buffer is replaced.
PrimopStringSet(s, i, c) ==
    LET sb == IF Widen(s, c) THEN Buffer(NarrowToWide(s).cells, TRUE)
              ELSE IF Shared(s) THEN Buffer(SbCopy(s), Buf(s).wc)
              ELSE Buf(s)
        replaced == Widen(s, c) \/ Shared(s)
        inside == /\ Widen(s, c) => NarrowToWide(s).fits
                  /\ Shared(s) /\ ~Widen(s, c) => InWindow(s)
                  /\ Cell(s, i) \in DOMAIN sb.cells
    IN /\ status = "run"
       /\ replaced => Room(0, 1)
       /\ \/ (Stale(s) \/ replaced) /\ Stop("freed")
          \/ ~Stale(s) /\ ~inside /\ Stop("oob")
          \/ /\ ~Stale(s) /\ inside
             /\ Write(s, i, c, sb, IF replaced THEN Len(bufs) + 1 ELSE strs[s].buf)

\* (string-ref s i), and every read of a comparison.
PrimopStringRef ==
    \E s \in Strings :
        /\ status = "run"
        /\ strs[s].len > 0
        /\ \/ Stale(s) /\ Stop("freed")
           \/ ~Stale(s) /\ ~InWindow(s) /\ Stop("oob")
           \/ ~Stale(s) /\ InWindow(s) /\ UNCHANGED vars

Sharers(b) == {s \in Strings : strs[s].buf = b}

\* (mutant) a buffer that was already copied keeps the count of one
RecountOne(b) == 1

\* The first string that reaches a buffer copies it with a count of one, and
\* every other one raises the count, which wraps: an i8 goes from 127 to -128.
Recount(b) == ((Cardinality(Sharers(b)) + RcMax + 1) % (2 * (RcMax + 1))) - (RcMax + 1)

\* (mutant) a string whose buffer was already copied keeps its old pointer
RepointedFirst(s) ==
    [strs[s] EXCEPT !.fresh = \A t \in Sharers(strs[s].buf) : s <= t]

\* The buffers are now in the other pool, and s points to its copy there.
Repointed(s) == [strs[s] EXCEPT !.fresh = TRUE]

\* len is in bytes already when it is multiplied by the width: the copy of a
\* wide buffer reads and writes past the end, over what is copied later or
\* beyond the pools.
Overlong(b) == bufs[b].wc /\ bufs[b].cells # <<>> /\ Sharers(b) # {}

\* scm_gc on strings: every string and its buffer are copied, the pointers
\* and the counts are renewed.
Collect ==
    /\ status = "run"
    /\ \/ (\E s \in Strings : Stale(s)) /\ Stop("freed")
       \/ (\E b \in DOMAIN bufs : Overlong(b)) /\ Stop("oob")
       \/ /\ \A s \in Strings : ~Stale(s)
          /\ strs' = [s \in Strings |-> Repointed(s)]
          /\ bufs' = [b \in DOMAIN bufs |-> [bufs[b] EXCEPT !.rc = Recount(b)]]
          /\ moved' = FALSE
          /\ since' = {}
          /\ crowded' = {b \in DOMAIN bufs : Cardinality(Sharers(b)) > RcMax}
          /\ status' = status

Stopped == status # "run" /\ UNCHANGED vars

Next ==
    \/ InitString
    \/ PrimopString
    \/ PrimopMakeString
    \/ PrimopStringCopy
    \/ \E s \in Strings : \E i \in 1..strs[s].len, c \in Chars : PrimopStringSet(s, i, c)
    \/ PrimopStringRef
    \/ Collect
    \/ Stopped

Spec == Init /\ [][Next]_vars

-----------------------------------------------------------------------------
(* Comparisons of two strings, and of the first string with every other.   *)

CommonLen(x, y) == IF Len(x) < Len(y) THEN Len(x) ELSE Len(y)

\* The first place where two strings differ, 0 if one begins the other.
Differ(x, y) ==
    LET d == {i \in 1..CommonLen(x, y) : x[i] # y[i]}
    IN IF d = {} THEN 0 ELSE CHOOSE i \in d : \A j \in d : i <= j

StringEq(x, y) == Len(x) = Len(y) /\ \A i \in DOMAIN x : x[i] = y[i]

\* (mutant) a string is not less than one that it begins
StringLessStrict(x, y) == Differ(x, y) # 0 /\ x[Differ(x, y)] < y[Differ(x, y)]

StringLess(x, y) ==
    IF Differ(x, y) # 0 THEN x[Differ(x, y)] < y[Differ(x, y)] ELSE Len(x) < Len(y)
StringGr(x, y) ==
    IF Differ(x, y) # 0 THEN x[Differ(x, y)] > y[Differ(x, y)] ELSE Len(x) > Len(y)
StringLeq(x, y) ==
    IF Differ(x, y) # 0 THEN x[Differ(x, y)] < y[Differ(x, y)] ELSE Len(x) <= Len(y)
StringGeq(x, y) ==
    IF Differ(x, y) # 0 THEN x[Differ(x, y)] > y[Differ(x, y)] ELSE Len(x) >= Len(y)

StringRel(rel, x, y) ==
    CASE rel = "=" -> StringEq(x, y)   [] rel = "<" -> StringLess(x, y) [] rel = ">" -> StringGr(x, y)
      [] rel = "<=" -> StringLeq(x, y) [] rel = ">=" -> StringGeq(x, y)

\* string=?, string<? ... with several strings: the first against each.
Related(rel, xs) == \A i \in 2..Len(xs) : StringRel(rel, xs[1], xs[i])

-----------------------------------------------------------------------------
(* Properties.                                                             *)

\* Every string, one whose buffer string_set replaced included, refers to a
\* buffer that exists.
TypeOK ==
    /\ moved \in BOOLEAN
    /\ since \subseteq Strings /\ crowded \subseteq DOMAIN bufs
    /\ status \in {"run", "freed", "oob"}
    /\ \A s \in Strings : strs[s].buf \in DOMAIN bufs /\ strs[s].fresh \in BOOLEAN

\* Until realloc moves the pool, every string points into it: a collection
\* renews the pointer of each string, shared buffer or not.
FreshUntilMoved == ~moved /\ status = "run" => \A s \in Strings : ~Stale(s)

\* The reference count of a buffer covers every string that shares it, those
\* string_copy made since the last collection apart, unless that collection
\* found more strings than the count can hold.
CountsCover == \A b \in DOMAIN bufs \ crowded : Cardinality(Sharers(b) \ since) <= bufs[b].rc

\* Whether strings may share a buffer and string-set! not know: at most one
\* of them was there at the last collection, or its count overflowed then.
Undercounted(b) == b \in crowded \/ Cardinality(Sharers(b) \ since) <= 1

\* string-set! changes the written string only.  Another one, a recent copy
\* included, changes with it only if both share an undercounted buffer.
WritesArePrivate ==
    [][\A s \in Strings, t \in Strings :
          (/\ s # t /\ Content(t)' # Content(t)
           /\ strs'[s] # strs[s] \/ Content(s)' # Content(s))
          => strs[s].buf = strs[t].buf /\ Undercounted(strs[t].buf)]_<<strs, bufs>>

\* A narrow buffer holds no wide character: string_set widens the buffer
\* before it stores one.
NarrowHoldsNarrow == \A b \in DOMAIN bufs : ~bufs[b].wc => \A i \in DOMAIN bufs[b].cells : ~Wide(bufs[b].cells[i])

\* The five comparisons agree: exactly one of string<?, string=? and
\* string>? holds, string<=? and string>=? are their complements, and
\* string=? of several strings makes all of them equal.
ComparisonsAgree ==
    \A s \in Strings, t \in Strings :
        LET x == Content(s) y == Content(t) IN
        /\ StringLess(x, y) \/ StringEq(x, y) \/ StringGr(x, y)
        /\ ~(StringLess(x, y) /\ StringGr(x, y)) /\ ~(StringLess(x, y) /\ StringEq(x, y))
        /\ (StringLeq(x, y) <=> ~StringGr(x, y)) /\ (StringGeq(x, y) <=> ~StringLess(x, y))
        /\ \A u \in Strings : Related("=", <<x, y, Content(u)>>) => StringEq(y, Content(u))
=============================================================================
