-------------------------- MODULE ScmStringProofs --------------------------
(***************************************************************************)
(* Proofs about ScmString, for every set of characters and every number of *)
(* strings and buffers, and every width of the counts and lengths.         *)
(***************************************************************************)
EXTENDS ScmString, SlyFacts

StringRec == [buf : Nat, fresh : BOOLEAN, off : Nat, len : Nat]

BufRec == [cells : Seq(Int), wc : BOOLEAN, rc : Int]

\* The shapes of the strings and of the buffers.
Shapes ==
    /\ strs \in Seq(StringRec) /\ bufs \in Seq(BufRec)
    /\ moved \in BOOLEAN
    /\ since \subseteq Strings /\ crowded \subseteq DOMAIN bufs
    /\ status \in {"run", "freed", "oob"}
    /\ \A s \in Strings : strs[s].buf \in DOMAIN bufs

StrInv == Shapes /\ FreshUntilMoved /\ CountsCover /\ NarrowHoldsNarrow

-----------------------------------------------------------------------------
(* Lemmas.                                                                 *)

LEMMA ShapesFacts ==
    ASSUME Shapes
    PROVE  /\ Strings = 1 .. Len(strs) /\ Len(strs) \in Nat
           /\ DOMAIN bufs = 1 .. Len(bufs) /\ Len(bufs) \in Nat
           /\ \A s \in Strings : strs[s] \in StringRec /\ Buf(s) \in BufRec
           /\ \A b \in DOMAIN bufs : bufs[b] \in BufRec
BY DEF Shapes, Strings, Buf

\* scm_heap_alloc leaves the strings as they are, up to the quality of their
\* pointers.
LEMMA AgedFacts ==
    ASSUME Shapes, NEW m \in BOOLEAN
    PROVE  /\ Aged(m) \in Seq(StringRec) /\ Len(Aged(m)) = Len(strs)
           /\ \A s \in Strings :
                 /\ Aged(m)[s].buf = strs[s].buf /\ Aged(m)[s].off = strs[s].off
                 /\ Aged(m)[s].len = strs[s].len
                 /\ strs[s].fresh /\ ~m => Aged(m)[s].fresh
<1>1. \A s \in Strings : [strs[s] EXCEPT !.fresh = @ /\ ~m] \in StringRec
  BY ShapesFacts DEF StringRec
<1>2. Aged(m) \in [1 .. Len(strs) -> StringRec]
  BY <1>1, ShapesFacts DEF Aged
<1>3. Aged(m) \in Seq(StringRec) /\ Len(Aged(m)) = Len(strs)
  BY <1>2, FunctionIsSeq, ShapesFacts
<1>4. QED
  BY <1>3, ShapesFacts DEF Aged, StringRec

\* What is appended to strings and buffers when a string is made.
LEMMA Growing ==
    ASSUME Shapes, NEW m \in BOOLEAN, NEW r \in StringRec,
           strs' = Append(Aged(m), r)
    PROVE  /\ strs' \in Seq(StringRec) /\ Len(strs') = Len(strs) + 1
           /\ Strings' = Strings \cup {Len(strs) + 1} /\ Len(strs) + 1 \notin Strings
           /\ strs'[Len(strs) + 1] = r
           /\ \A s \in Strings :
                 /\ strs'[s].buf = strs[s].buf /\ strs'[s].off = strs[s].off
                 /\ strs'[s].len = strs[s].len
                 /\ strs[s].fresh /\ ~m => strs'[s].fresh
<1>1. Aged(m) \in Seq(StringRec) /\ Len(Aged(m)) = Len(strs)
  BY AgedFacts
<1>2. /\ strs' \in Seq(StringRec) /\ Len(strs') = Len(strs) + 1
      /\ DOMAIN strs' = 1 .. Len(strs) + 1
      /\ \A i \in 1 .. Len(strs) : strs'[i] = Aged(m)[i]
      /\ strs'[Len(strs) + 1] = r
  BY <1>1, AppendFacts
<1>3. Strings' = Strings \cup {Len(strs) + 1} /\ Len(strs) + 1 \notin Strings
  BY <1>2, ShapesFacts DEF Strings
<1>4. QED
  BY <1>2, <1>3, AgedFacts, ShapesFacts

LEMMA SmallRemainder ==
    ASSUME NEW n \in Nat, NEW m \in Nat, n < m
    PROVE  n % m = n
OBVIOUS

LEMMA SharersFinite ==
    ASSUME Shapes, NEW b, NEW T
    PROVE  /\ IsFiniteSet(Sharers(b)) /\ IsFiniteSet(Sharers(b) \ T)
           /\ Cardinality(Sharers(b)) \in Nat /\ Cardinality(Sharers(b) \ T) \in Nat
           /\ Cardinality(Sharers(b) \ T) <= Cardinality(Sharers(b))
<1>1. IsFiniteSet(1 .. Len(strs))
  BY ShapesFacts, FS_Interval
<1>2. Sharers(b) \in SUBSET (1 .. Len(strs)) /\ Sharers(b) \ T \in SUBSET Sharers(b)
  BY ShapesFacts DEF Sharers
<1>3. IsFiniteSet(Sharers(b))
  BY <1>1, <1>2, FS_Subset
<1>4. /\ IsFiniteSet(Sharers(b) \ T)
      /\ Cardinality(Sharers(b) \ T) <= Cardinality(Sharers(b))
  BY <1>2, <1>3, FS_Subset
<1>5. QED
  BY <1>3, <1>4, FS_CardinalityType

-----------------------------------------------------------------------------
(* The invariant, action by action.                                        *)

\* A new string is the only one to share its new buffer, with a count of one.
LEMMA NewStringKeeps ==
    ASSUME StrInv, NEW cells \in Seq(Int), NEW wc \in BOOLEAN,
           ~wc => \A i \in DOMAIN cells : ~Wide(cells[i]),
           NewString(cells, wc)
    PROVE  StrInv'
<1> USE DEF StrInv
<1>1. CASE Stop("freed")
  BY <1>1 DEF Stop, Shapes, FreshUntilMoved, CountsCover, NarrowHoldsNarrow, Strings, Sharers
<1>2. ASSUME NEW m \in BOOLEAN,
             bufs' = Append(bufs, Buffer(cells, wc)),
             strs' = Append(Aged(m), [buf |-> Len(bufs) + 1, fresh |-> TRUE,
                                      off |-> 0, len |-> Len(cells)]),
             moved' = (moved \/ m), UNCHANGED <<since, crowded, status>>
      PROVE  StrInv'
  <2> DEFINE r == [buf |-> Len(bufs) + 1, fresh |-> TRUE, off |-> 0, len |-> Len(cells)]
             n == Len(strs) + 1
  <2>1. r \in StringRec /\ Buffer(cells, wc) \in BufRec
    BY ShapesFacts DEF StringRec, BufRec, Buffer
  <2>2. /\ strs' \in Seq(StringRec)
        /\ Strings' = Strings \cup {n} /\ n \notin Strings
        /\ strs'[n] = r
        /\ \A s \in Strings : strs'[s].buf = strs[s].buf
    BY <1>2, <2>1, Growing
  <2>r. \A s \in Strings : strs[s].fresh /\ ~m => strs'[s].fresh
    BY <1>2, <2>1, Growing
  <2>3. /\ bufs' \in Seq(BufRec) /\ DOMAIN bufs' = 1 .. Len(bufs) + 1
        /\ \A b \in DOMAIN bufs : bufs'[b] = bufs[b]
        /\ bufs'[Len(bufs) + 1] = Buffer(cells, wc)
    BY <1>2, <2>1, ShapesFacts, AppendFacts DEF Shapes
  <2>4. Len(bufs) \in Nat /\ DOMAIN bufs = 1 .. Len(bufs)
    BY ShapesFacts
  <2>n. strs'[n].buf = Len(bufs) + 1 /\ \A s \in Strings : strs[s].buf \in 1 .. Len(bufs)
    BY <2>2, <2>4 DEF Shapes
  <2>5. Shapes'
    <3>1. \A s \in Strings' : strs'[s].buf \in DOMAIN bufs'
      BY <2>2, <2>3, <2>4, <2>n
    <3>2. crowded' \subseteq DOMAIN bufs' /\ since' \subseteq Strings'
      BY <1>2, <2>2, <2>3, <2>4 DEF Shapes
    <3>3. QED
      BY <1>2, <2>2, <2>3, <3>1, <3>2 DEF Shapes
  <2>6. FreshUntilMoved'
    <3>1. strs'[n].fresh
      BY <2>2
    <3>2. QED
      BY <1>2, <2>2, <2>r, <3>1 DEF FreshUntilMoved, Stale
  <2>7. CountsCover'
    <3>1. \A b \in DOMAIN bufs : Sharers(b)' = Sharers(b)
      BY <2>2, <2>4 DEF Sharers
    <3>2. \A b : b = Len(bufs) + 1 => Sharers(b)' = {n}
      BY <2>2, <2>4, <2>n DEF Sharers
    <3>3. Cardinality({n} \ since) = 1
      <4>1. {n} \ since = {n}
        BY <2>2 DEF Shapes
      <4>2. QED
        BY <4>1, FS_Singleton
    <3>4. ASSUME NEW b \in DOMAIN bufs' \ crowded'
          PROVE  (Cardinality(Sharers(b) \ since) <= bufs[b].rc)'
      <4>1. CASE b \in DOMAIN bufs
        BY <1>2, <2>3, <3>1, <4>1 DEF CountsCover
      <4>2. CASE b = Len(bufs) + 1
        <5>1. Cardinality(Sharers(b)' \ since') = 1
          BY <1>2, <3>2, <3>3, <4>2
        <5>2. bufs'[b].rc = 1
          BY <2>3, <4>2 DEF Buffer
        <5>3. QED
          BY <5>1, <5>2
      <4>3. QED
        BY <2>3, <2>4, <4>1, <4>2
    <3>5. QED
      BY <3>4 DEF CountsCover
  <2>8. NarrowHoldsNarrow'
    BY <2>3, <2>4 DEF NarrowHoldsNarrow, Buffer
  <2>9. QED
    BY <2>5, <2>6, <2>7, <2>8
<1>3. QED
  BY <1>1, <1>2 DEF NewString

LEMMA WindowFacts ==
    ASSUME NEW r \in StringRec, NEW start \in Int, NEW end \in Int
    PROVE  /\ Window(r, start, end) \in StringRec
           /\ Window(r, start, end).buf = r.buf /\ Window(r, start, end).fresh = r.fresh
<1>1. start % Word \in Nat /\ (end - start) % Word \in Nat
  BY WidthAssumption
<1>2. QED
  BY <1>1 DEF Window, StringRec

\* The copy string_copy makes is not covered by the count of its buffer, and
\* is remembered as one of those.
LEMMA StringCopyKeeps == StrInv /\ PrimopStringCopy => StrInv'
<1> USE DEF StrInv
<1> SUFFICES ASSUME StrInv,
                    NEW s \in Strings, NEW start \in Indices,
                    NEW end \in Indices \cup {strs[s].len}, NEW m \in BOOLEAN,
                    status = "run",
                    strs' = Append(Aged(m), Window(Aged(m)[s], start, end)),
                    moved' = (moved \/ m), since' = since \cup {Len(strs) + 1},
                    UNCHANGED <<bufs, crowded, status>>
             PROVE  StrInv'
  BY DEF PrimopStringCopy
<1> DEFINE r == Window(Aged(m)[s], start, end)
           n == Len(strs) + 1
<1>1. strs[s] \in StringRec /\ Aged(m)[s] \in StringRec
  BY AgedFacts, ShapesFacts
<1>2. start \in Int /\ end \in Int
  BY <1>1, WidthAssumption DEF StringRec
<1>3. r \in StringRec /\ r.buf = Aged(m)[s].buf /\ r.fresh = Aged(m)[s].fresh
  BY <1>1, <1>2, WindowFacts
<1>4. /\ strs' \in Seq(StringRec)
      /\ Strings' = Strings \cup {n} /\ n \notin Strings
      /\ strs'[n].buf = strs[s].buf
      /\ \A t \in Strings : strs'[t].buf = strs[t].buf
  BY <1>3, Growing, AgedFacts
<1>5. /\ \A t \in Strings : strs[t].fresh /\ ~m => strs'[t].fresh
      /\ strs[s].fresh /\ ~m => strs'[n].fresh
  BY <1>3, Growing, AgedFacts
<1>6. Shapes'
  <2>1. \A t \in Strings' : strs'[t].buf \in DOMAIN bufs
    BY <1>4 DEF Shapes
  <2>2. QED
    BY <1>4, <2>1 DEF Shapes
<1>7. FreshUntilMoved'
  BY <1>4, <1>5 DEF FreshUntilMoved, Stale
<1>8. CountsCover'
  <2>1. \A b : Sharers(b)' \ since' = Sharers(b) \ since
    BY <1>4 DEF Sharers
  <2>2. QED
    BY <2>1 DEF CountsCover
<1>9. NarrowHoldsNarrow'
  BY DEF NarrowHoldsNarrow
<1>10. QED
  BY <1>6, <1>7, <1>8, <1>9

\* The count of a buffer after a collection, right up to RcMax strings.
LEMMA RecountFacts ==
    ASSUME Shapes, NEW b
    PROVE  /\ Recount(b) \in Int
           /\ Cardinality(Sharers(b)) <= RcMax => Recount(b) = Cardinality(Sharers(b))
<1>1. Cardinality(Sharers(b)) \in Nat
  BY SharersFinite
<1>2. QED
  BY <1>1, WidthAssumption, SmallRemainder DEF Recount

\* A collection renews the pointers and counts the strings of each buffer.
LEMMA CollectFacts ==
    ASSUME Shapes, strs' = [s \in Strings |-> Repointed(s)],
           bufs' = [b \in DOMAIN bufs |-> [bufs[b] EXCEPT !.rc = Recount(b)]]
    PROVE  /\ strs' \in Seq(StringRec) /\ bufs' \in Seq(BufRec)
           /\ Strings' = Strings /\ DOMAIN bufs' = DOMAIN bufs
           /\ \A s \in Strings : /\ strs'[s].buf = strs[s].buf /\ strs'[s].off = strs[s].off
                                 /\ strs'[s].len = strs[s].len /\ strs'[s].fresh
           /\ \A b \in DOMAIN bufs : /\ bufs'[b].cells = bufs[b].cells
                                     /\ bufs'[b].wc = bufs[b].wc
                                     /\ bufs'[b].rc = Recount(b)
<1>1. ASSUME NEW s \in Strings
      PROVE  /\ Repointed(s) \in StringRec
             /\ Repointed(s).buf = strs[s].buf /\ Repointed(s).off = strs[s].off
             /\ Repointed(s).len = strs[s].len /\ Repointed(s).fresh
  BY ShapesFacts DEF Repointed, StringRec
<1>2. ASSUME NEW b \in DOMAIN bufs
      PROVE  [bufs[b] EXCEPT !.rc = Recount(b)] \in BufRec
  BY RecountFacts, ShapesFacts DEF BufRec
<1>3. strs' \in [1 .. Len(strs) -> StringRec] /\ bufs' \in [1 .. Len(bufs) -> BufRec]
  BY <1>1, <1>2, ShapesFacts
<1>4. strs' \in Seq(StringRec) /\ bufs' \in Seq(BufRec)
  BY <1>3, FunctionIsSeq, ShapesFacts
<1>5. Strings' = Strings /\ DOMAIN bufs' = DOMAIN bufs
  BY DEF Strings
<1>6. \A b \in DOMAIN bufs : /\ bufs'[b].cells = bufs[b].cells
                            /\ bufs'[b].wc = bufs[b].wc
                            /\ bufs'[b].rc = Recount(b)
  BY ShapesFacts DEF BufRec
<1>7. QED
  BY <1>1, <1>4, <1>5, <1>6

LEMMA CollectKeeps == StrInv /\ Collect => StrInv'
<1> USE DEF StrInv
<1> SUFFICES ASSUME StrInv, Collect PROVE StrInv'
  OBVIOUS
<1>1. CASE Stop("freed") \/ Stop("oob")
  BY <1>1 DEF Stop, Shapes, FreshUntilMoved, CountsCover, NarrowHoldsNarrow, Strings, Sharers
<1>2. CASE /\ strs' = [s \in Strings |-> Repointed(s)]
           /\ bufs' = [b \in DOMAIN bufs |-> [bufs[b] EXCEPT !.rc = Recount(b)]]
           /\ moved' = FALSE /\ since' = {} /\ status' = status
           /\ crowded' = {b \in DOMAIN bufs : Cardinality(Sharers(b)) > RcMax}
  <2>1. /\ strs' \in Seq(StringRec) /\ bufs' \in Seq(BufRec)
        /\ Strings' = Strings /\ DOMAIN bufs' = DOMAIN bufs
        /\ \A s \in Strings : strs'[s].buf = strs[s].buf /\ strs'[s].fresh
        /\ \A b \in DOMAIN bufs : /\ bufs'[b].cells = bufs[b].cells
                                  /\ bufs'[b].wc = bufs[b].wc
                                  /\ bufs'[b].rc = Recount(b)
    BY <1>2, CollectFacts
  <2>2. Shapes'
    BY <1>2, <2>1 DEF Shapes
  <2>3. FreshUntilMoved'
    BY <2>1 DEF FreshUntilMoved, Stale
  <2>4. CountsCover'
    <3>1. \A b : Sharers(b)' = Sharers(b)
      BY <2>1 DEF Sharers
    <3>2. ASSUME NEW b \in DOMAIN bufs \ crowded'
          PROVE  Cardinality(Sharers(b)' \ since') <= bufs'[b].rc
      <4>1. Sharers(b)' \ since' = Sharers(b) /\ Cardinality(Sharers(b)) \in Nat
        BY <1>2, <3>1, SharersFinite
      <4>2. Cardinality(Sharers(b)) <= RcMax
        BY <1>2, <4>1, WidthAssumption
      <4>3. bufs'[b].rc = Cardinality(Sharers(b))
        BY <2>1, <4>2, RecountFacts
      <4>4. QED
        BY <4>1, <4>3
    <3>3. QED
      BY <2>1, <3>2 DEF CountsCover
  <2>5. NarrowHoldsNarrow'
    BY <2>1 DEF NarrowHoldsNarrow
  <2>6. QED
    BY <2>2, <2>3, <2>4, <2>5
<1>3. QED
  BY <1>1, <1>2 DEF Collect

-----------------------------------------------------------------------------
(* string_set.                                                             *)

\* What a buffer holds that is made to be written: no character that the one
\* it replaces did not hold.
LEMMA ReplacementFacts ==
    ASSUME Shapes, NEW s \in Strings
    PROVE  /\ Content(s) \in [1 .. strs[s].len -> Int]
           /\ NarrowToWide(s).cells \in Seq(Int)
           /\ SbCopy(s) \in Seq(Int)
           /\ \A i \in DOMAIN SbCopy(s) :
                 SbCopy(s)[i] = Junk \/ \E j \in DOMAIN Buf(s).cells : SbCopy(s)[i] = Buf(s).cells[j]
<1>1. strs[s].len \in Nat /\ Buf(s).cells \in Seq(Int) /\ Buf(s).wc \in BOOLEAN
  BY ShapesFacts DEF StringRec, BufRec
<1>2. \A i \in 1 .. strs[s].len : InBuffer(s, i) => Buf(s).cells[Cell(s, i)] \in Int
  BY <1>1 DEF InBuffer
<1>3. Content(s) \in [1 .. strs[s].len -> Int]
  BY <1>2 DEF Content, Junk
<1>4. NarrowToWide(s).cells = Content(s)
  BY DEF NarrowToWide, Content
<1>5. NarrowToWide(s).cells \in Seq(Int)
  BY <1>1, <1>3, <1>4, FunctionIsSeq
<1> DEFINE cap == IF Buf(s).wc THEN 4 * strs[s].len ELSE strs[s].len
<1>6. cap \in Nat
  BY <1>1
<1>7. SbCopy(s) = [i \in 1 .. cap |-> IF i <= strs[s].len THEN Content(s)[i] ELSE Junk]
  BY DEF SbCopy
<1>8. SbCopy(s) \in [1 .. cap -> Int]
  <2> HIDE DEF cap
  <2>1. \A i \in 1 .. cap : (IF i <= strs[s].len THEN Content(s)[i] ELSE Junk) \in Int
    BY <1>1, <1>3, <1>6 DEF Junk
  <2>2. QED
    BY <1>7, <2>1
<1>9. SbCopy(s) \in Seq(Int)
  BY <1>6, <1>8, FunctionIsSeq
<1>10. ASSUME NEW i \in DOMAIN SbCopy(s)
       PROVE  SbCopy(s)[i] = Junk \/ \E j \in DOMAIN Buf(s).cells : SbCopy(s)[i] = Buf(s).cells[j]
  <2> HIDE DEF cap
  <2>1. i \in 1 .. cap
    BY <1>7, <1>10
  <2>2. CASE i <= strs[s].len
    <3>1. SbCopy(s)[i] = Content(s)[i] /\ i \in 1 .. strs[s].len
      BY <1>1, <1>6, <1>7, <2>1, <2>2
    <3>2. QED
      BY <3>1 DEF Content, InBuffer
  <2>3. CASE ~(i <= strs[s].len)
    BY <1>7, <2>1, <2>3
  <2>4. QED
    BY <2>2, <2>3
<1>11. QED
  BY <1>3, <1>5, <1>9, <1>10

Narrow(sb) == ~sb.wc => \A i \in DOMAIN sb.cells : ~Wide(sb.cells[i])

\* string_set gives the string a buffer of its own, or writes the buffer it
\* has, whose count is then one.
WritesNew(s) ==
    \E new \in BufRec :
        /\ new.rc = 1 /\ Narrow(new)
        /\ bufs' = Append(bufs, new)
        /\ strs' = [strs EXCEPT ![s].buf = Len(bufs) + 1]

WritesInPlace(s) ==
    \E new \in BufRec :
        /\ new.rc = Buf(s).rc /\ Buf(s).rc <= 1 /\ Narrow(new)
        /\ bufs' = [bufs EXCEPT ![strs[s].buf] = new]
        /\ strs' = strs

LEMMA WriteCell ==
    ASSUME NEW sb \in BufRec, Narrow(sb), NEW j \in DOMAIN sb.cells, NEW c \in Chars,
           Wide(c) => sb.wc
    PROVE  /\ [sb EXCEPT !.cells[j] = c] \in BufRec
           /\ [sb EXCEPT !.cells[j] = c].rc = sb.rc
           /\ Narrow([sb EXCEPT !.cells[j] = c])
<1> DEFINE cells == [sb.cells EXCEPT ![j] = c]
           new == [sb EXCEPT !.cells[j] = c]
<1>1. c \in Int /\ sb.cells \in Seq(Int) /\ j \in 1 .. Len(sb.cells)
  BY CharsAssumption DEF BufRec
<1>2. cells \in Seq(Int)
  BY <1>1, ExceptSeq
<1>3. new.cells = cells /\ new.rc = sb.rc /\ new.wc = sb.wc
  BY DEF BufRec
<1>4. new \in BufRec
  BY <1>2 DEF BufRec
<1>5. DOMAIN cells = DOMAIN sb.cells /\ \A i \in DOMAIN cells : cells[i] = IF i = j THEN c ELSE sb.cells[i]
  OBVIOUS
<1>6. Narrow(new)
  <2>1. SUFFICES ASSUME ~sb.wc, NEW i \in DOMAIN cells PROVE ~Wide(cells[i])
    BY <1>3 DEF Narrow
  <2>2. QED
    BY <1>5, <2>1 DEF Narrow
<1>7. QED
  BY <1>3, <1>4, <1>6

LEMMA BufferFacts ==
    ASSUME NEW cells \in Seq(Int), NEW wc \in BOOLEAN
    PROVE  /\ Buffer(cells, wc) \in BufRec
           /\ Buffer(cells, wc).rc = 1 /\ Buffer(cells, wc).wc = wc /\ Buffer(cells, wc).cells = cells
BY DEF Buffer, BufRec

LEMMA StringSetCases ==
    ASSUME StrInv, NEW s \in Strings, NEW i \in 1 .. strs[s].len, NEW c \in Chars,
           PrimopStringSet(s, i, c)
    PROVE  \/ Stop("freed") \/ Stop("oob")
           \/ (WritesNew(s) \/ WritesInPlace(s)) /\ UNCHANGED <<moved, since, crowded, status>>
<1> DEFINE sb == IF Widen(s, c) THEN Buffer(NarrowToWide(s).cells, TRUE)
                 ELSE IF Shared(s) THEN Buffer(SbCopy(s), Buf(s).wc)
                 ELSE Buf(s)
           replaced == Widen(s, c) \/ Shared(s)
           b == IF replaced THEN Len(bufs) + 1 ELSE strs[s].buf
           new == [sb EXCEPT !.cells[Cell(s, i)] = c]
<1>1. SUFFICES ASSUME Cell(s, i) \in DOMAIN sb.cells, Write(s, i, c, sb, b)
               PROVE  (WritesNew(s) \/ WritesInPlace(s)) /\ UNCHANGED <<moved, since, crowded, status>>
  BY DEF PrimopStringSet
<1>2. /\ Shapes /\ Buf(s) \in BufRec /\ Narrow(Buf(s)) /\ strs[s] \in StringRec
      /\ strs[s].buf \in 1 .. Len(bufs) /\ Len(bufs) \in Nat
  BY ShapesFacts DEF StrInv, Shapes, NarrowHoldsNarrow, Narrow, Buf
<1>3. /\ bufs' = IF b > Len(bufs) THEN Append(bufs, new) ELSE [bufs EXCEPT ![b] = new]
      /\ strs' = [strs EXCEPT ![s].buf = b] /\ UNCHANGED <<moved, since, crowded, status>>
  BY <1>1 DEF Write
<1>4. CASE Widen(s, c)
  <2>1. sb = Buffer(NarrowToWide(s).cells, TRUE) /\ b = Len(bufs) + 1
    BY <1>4
  <2>2. sb \in BufRec /\ sb.rc = 1 /\ Narrow(sb) /\ sb.wc
    BY <1>2, <2>1, ReplacementFacts DEF Buffer, BufRec, Narrow
  <2> HIDE DEF sb, b
  <2>3. new \in BufRec /\ new.rc = 1 /\ Narrow(new)
    BY <1>1, <2>2, WriteCell
  <2>4. bufs' = Append(bufs, new) /\ strs' = [strs EXCEPT ![s].buf = Len(bufs) + 1]
    BY <1>2, <1>3, <2>1
  <2> HIDE DEF new
  <2>5. QED
    BY <1>3, <2>3, <2>4 DEF WritesNew
<1>5. CASE ~Widen(s, c) /\ Shared(s)
  <2>1. sb = Buffer(SbCopy(s), Buf(s).wc) /\ b = Len(bufs) + 1
    BY <1>5
  <2>2. SbCopy(s) \in Seq(Int) /\ Buf(s).wc \in BOOLEAN
    BY <1>2, ReplacementFacts DEF BufRec
  <2>3. ~Buf(s).wc => \A j \in DOMAIN SbCopy(s) : ~Wide(SbCopy(s)[j])
    <3>1. ~Wide(Junk)
      BY CharsAssumption DEF Wide, Junk
    <3>2. QED
      BY <1>2, <3>1, ReplacementFacts DEF Narrow
  <2> HIDE DEF sb, b
  <2>4. sb \in BufRec /\ sb.rc = 1 /\ sb.wc = Buf(s).wc /\ sb.cells = SbCopy(s)
    BY <2>1, <2>2, BufferFacts
  <2>5. Narrow(sb) /\ (Wide(c) => sb.wc)
    BY <1>5, <2>3, <2>4 DEF Narrow, Widen
  <2>6. new \in BufRec /\ new.rc = 1 /\ Narrow(new)
    BY <1>1, <2>4, <2>5, WriteCell
  <2>7. bufs' = Append(bufs, new) /\ strs' = [strs EXCEPT ![s].buf = Len(bufs) + 1]
    BY <1>2, <1>3, <2>1
  <2> HIDE DEF new
  <2>8. QED
    BY <1>3, <2>6, <2>7 DEF WritesNew
<1>6. CASE ~Widen(s, c) /\ ~Shared(s)
  <2>1. sb = Buf(s) /\ b = strs[s].buf /\ ~(b > Len(bufs))
    BY <1>2, <1>6
  <2>2. Buf(s).rc <= 1 /\ (Wide(c) => sb.wc)
    <3>1. Buf(s).rc <= 1
      BY <1>2, <1>6 DEF Shared, BufRec
    <3>2. Wide(c) => Buf(s).wc
      BY <1>6 DEF Widen
    <3>3. QED
      BY <2>1, <3>1, <3>2
  <2> HIDE DEF sb, b
  <2>0. sb \in BufRec /\ Narrow(sb) /\ Cell(s, i) \in DOMAIN sb.cells
    BY <1>1, <1>2, <2>1
  <2>3. new \in BufRec /\ new.rc = Buf(s).rc /\ Narrow(new)
    BY <2>0, <2>1, <2>2, WriteCell
  <2>4. bufs' = [bufs EXCEPT ![strs[s].buf] = new]
    BY <1>3, <2>1
  <2>5. strs' = strs
    <3>1. [strs[s] EXCEPT !.buf = strs[s].buf] = strs[s]
      BY <1>2 DEF StringRec
    <3>2. QED
      BY <1>2, <1>3, <2>1, <3>1 DEF Shapes
  <2> HIDE DEF new
  <2>6. QED
    BY <1>3, <2>2, <2>3, <2>4, <2>5 DEF WritesInPlace
<1>7. QED
  BY <1>4, <1>5, <1>6

\* A string that gets a buffer of its own leaves the others' counts too high
\* rather than too low; one that is written in place keeps its count.
LEMMA StringSetKeeps ==
    ASSUME StrInv, NEW s \in Strings, NEW i \in 1 .. strs[s].len, NEW c \in Chars,
           PrimopStringSet(s, i, c)
    PROVE  StrInv'
<1>0. Shapes /\ FreshUntilMoved /\ CountsCover /\ NarrowHoldsNarrow
  BY DEF StrInv
<1>1. CASE Stop("freed") \/ Stop("oob")
  BY <1>1 DEF StrInv, Stop, Shapes, FreshUntilMoved, CountsCover, NarrowHoldsNarrow, Strings, Sharers
<1>2. /\ Strings = 1 .. Len(strs) /\ DOMAIN bufs = 1 .. Len(bufs) /\ Len(bufs) \in Nat
      /\ strs[s] \in StringRec /\ strs[s].buf \in 1 .. Len(bufs)
  BY <1>0, ShapesFacts DEF Shapes
<1>3. CASE WritesNew(s) /\ UNCHANGED <<moved, since, crowded, status>>
  <2>1. PICK new \in BufRec :
          /\ new.rc = 1 /\ Narrow(new)
          /\ bufs' = Append(bufs, new)
          /\ strs' = [strs EXCEPT ![s].buf = Len(bufs) + 1]
    BY <1>3 DEF WritesNew
  <2>2. /\ bufs' \in Seq(BufRec) /\ DOMAIN bufs' = 1 .. Len(bufs) + 1
        /\ \A b \in DOMAIN bufs : bufs'[b] = bufs[b]
        /\ bufs'[Len(bufs) + 1] = new
    BY <1>0, <1>2, <2>1, AppendFacts DEF Shapes
  <2>3. /\ [strs[s] EXCEPT !.buf = Len(bufs) + 1] \in StringRec
        /\ [strs[s] EXCEPT !.buf = Len(bufs) + 1].fresh = strs[s].fresh
    BY <1>2 DEF StringRec
  <2>4. /\ strs' \in Seq(StringRec) /\ Strings' = Strings
        /\ \A t \in Strings \ {s} : strs'[t] = strs[t]
        /\ strs'[s].buf = Len(bufs) + 1
    BY <1>0, <1>2, <2>1, <2>3 DEF Shapes, Strings, StringRec
  <2>5. strs'[s].fresh = strs[s].fresh
    BY <1>0, <1>2, <2>1, <2>3 DEF Shapes, Strings
  <2>6. Shapes'
    <3>1. \A t \in Strings : strs[t].buf \in 1 .. Len(bufs)
      BY <1>0, <1>2 DEF Shapes
    <3>2. \A t \in Strings' : strs'[t].buf \in DOMAIN bufs'
      BY <1>2, <2>2, <2>4, <3>1
    <3>3. QED
      BY <1>0, <1>3, <2>2, <2>4, <3>2 DEF Shapes
  <2>7. FreshUntilMoved'
    BY <1>0, <1>3, <2>4, <2>5 DEF FreshUntilMoved, Stale
  <2>8. CountsCover'
    <3>1. \A b : b = Len(bufs) + 1 => Sharers(b)' = {s}
      <4>1. \A t \in Strings : strs[t].buf \in 1 .. Len(bufs)
        BY <1>0, <1>2 DEF Shapes
      <4>2. QED
        BY <1>2, <2>4, <4>1 DEF Sharers
    <3>2. \A b \in DOMAIN bufs : Sharers(b)' \subseteq Sharers(b)
      BY <1>2, <2>4 DEF Sharers
    <3>3. ASSUME NEW b \in DOMAIN bufs' \ crowded
          PROVE  Cardinality(Sharers(b)' \ since) <= bufs'[b].rc
      <4>1. CASE b \in DOMAIN bufs
        <5>1. Sharers(b)' \ since \in SUBSET (Sharers(b) \ since)
          BY <3>2, <4>1
        <5>2. IsFiniteSet(Sharers(b) \ since) /\ Cardinality(Sharers(b) \ since) \in Nat
          BY <1>0, SharersFinite
        <5>3. /\ Cardinality(Sharers(b)' \ since) <= Cardinality(Sharers(b) \ since)
              /\ Cardinality(Sharers(b)' \ since) \in Nat
          BY <5>1, <5>2, FS_Subset, FS_CardinalityType
        <5>4. Cardinality(Sharers(b) \ since) <= bufs'[b].rc /\ bufs'[b].rc \in Int
          BY <1>0, <2>2, <4>1, ShapesFacts DEF CountsCover, BufRec
        <5>5. QED
          BY <5>2, <5>3, <5>4
      <4>2. CASE b = Len(bufs) + 1
        <5>1. Sharers(b)' \ since \in SUBSET {s}
          BY <3>1, <4>2
        <5>2. IsFiniteSet({s}) /\ Cardinality({s}) = 1
          BY FS_Singleton
        <5>3. Cardinality(Sharers(b)' \ since) <= 1
          BY <5>1, <5>2, FS_Subset
        <5>4. bufs'[b].rc = 1
          BY <2>1, <2>2, <4>2
        <5>5. QED
          BY <5>3, <5>4
      <4>3. QED
        BY <1>2, <2>2, <4>1, <4>2
    <3>4. QED
      BY <1>3, <3>3 DEF CountsCover
  <2>9. NarrowHoldsNarrow'
    BY <1>0, <1>2, <2>1, <2>2 DEF NarrowHoldsNarrow, Narrow
  <2>10. QED
    BY <2>6, <2>7, <2>8, <2>9 DEF StrInv
<1>4. CASE WritesInPlace(s) /\ UNCHANGED <<moved, since, crowded, status>>
  <2>1. PICK new \in BufRec :
          /\ new.rc = Buf(s).rc /\ Narrow(new)
          /\ bufs' = [bufs EXCEPT ![strs[s].buf] = new]
          /\ strs' = strs
    BY <1>4 DEF WritesInPlace
  <2>2. /\ bufs' \in Seq(BufRec) /\ DOMAIN bufs' = DOMAIN bufs
        /\ \A b \in DOMAIN bufs : bufs'[b] = IF b = strs[s].buf THEN new ELSE bufs[b]
    BY <1>0, <1>2, <2>1, ExceptSeq DEF Shapes
  <2>3. Shapes' /\ FreshUntilMoved'
    BY <1>0, <1>4, <2>1, <2>2 DEF Shapes, FreshUntilMoved, Strings, Stale
  <2>4. CountsCover'
    <3>1. \A b : Sharers(b)' = Sharers(b)
      BY <2>1 DEF Sharers, Strings
    <3>2. \A b \in DOMAIN bufs : bufs'[b].rc = bufs[b].rc
      BY <2>1, <2>2 DEF Buf
    <3>3. QED
      BY <1>0, <1>4, <2>2, <3>1, <3>2 DEF CountsCover
  <2>5. NarrowHoldsNarrow'
    BY <1>0, <2>1, <2>2 DEF NarrowHoldsNarrow, Narrow
  <2>6. QED
    BY <2>3, <2>4, <2>5 DEF StrInv
<1>5. QED
  BY <1>1, <1>3, <1>4, StringSetCases

-----------------------------------------------------------------------------
(* The invariant holds.                                                    *)

LEMMA StrInit == Init => StrInv
<1> SUFFICES ASSUME Init PROVE StrInv
  OBVIOUS
<1>1. Strings = {} /\ DOMAIN bufs = {} /\ strs \in Seq(StringRec) /\ bufs \in Seq(BufRec)
  BY DEF Init, Strings
<1>2. QED
  BY <1>1 DEF Init, StrInv, Shapes, FreshUntilMoved, CountsCover, NarrowHoldsNarrow

\* The texts a program makes strings of: a narrow buffer is asked for only if
\* no character is wide.
NewNarrowString ==
    \E cells \in Seq(Int), wc \in BOOLEAN :
        (~wc => \A i \in DOMAIN cells : ~Wide(cells[i])) /\ NewString(cells, wc)

LEMMA NewStringTexts ==
    ASSUME InitString \/ PrimopString \/ PrimopMakeString
    PROVE  NewNarrowString \/ Stop("oob")
<1>1. Chars \subseteq Int /\ Junk \in Int /\ ~Wide(Junk)
  BY CharsAssumption DEF Junk, Wide
<1>2. CASE InitString
  <2>0. PICK n \in 0 .. MaxLen :
          \E text \in [1 .. n -> {c \in Chars : ~Wide(c)}] : NewString(text, FALSE)
    BY <1>2 DEF InitString
  <2>1. PICK text \in [1 .. n -> {c \in Chars : ~Wide(c)}] : NewString(text, FALSE)
    BY <2>0
  <2>2. n \in Nat /\ text \in [1 .. n -> Int] /\ \A i \in DOMAIN text : ~Wide(text[i])
    <3>1. n \in Nat
      BY BoundsAssumption
    <3>2. DOMAIN text = 1 .. n /\ \A i \in 1 .. n : text[i] \in Chars /\ ~Wide(text[i])
      OBVIOUS
    <3>3. text \in [1 .. n -> Int]
      BY <1>1, <3>2
    <3>4. QED
      BY <3>1, <3>2, <3>3
  <2>3. text \in Seq(Int)
    BY <2>2, FunctionIsSeq
  <2>4. QED
    BY <2>1, <2>2, <2>3 DEF NewNarrowString
<1>3. CASE PrimopString
  <2>0. PICK n \in 0 .. MaxLen : \E text \in [1 .. n -> Chars] :
          NewString(text, \E i \in DOMAIN text : Wide(text[i]))
    BY <1>3 DEF PrimopString
  <2>1. PICK text \in [1 .. n -> Chars] :
          NewString(text, \E i \in DOMAIN text : Wide(text[i]))
    BY <2>0
  <2>2. n \in Nat /\ text \in [1 .. n -> Int]
    <3>1. n \in Nat
      BY BoundsAssumption
    <3>2. DOMAIN text = 1 .. n /\ \A i \in 1 .. n : text[i] \in Chars
      OBVIOUS
    <3>3. text \in [1 .. n -> Int]
      BY <1>1, <3>2
    <3>4. QED
      BY <3>1, <3>3
  <2>3. text \in Seq(Int)
    BY <2>2, FunctionIsSeq
  <2> DEFINE wc == \E i \in DOMAIN text : Wide(text[i])
  <2>4. wc \in BOOLEAN /\ (~wc => \A i \in DOMAIN text : ~Wide(text[i])) /\ NewString(text, wc)
    BY <2>1
  <2> HIDE DEF wc
  <2>5. QED
    BY <2>3, <2>4 DEF NewNarrowString
<1>4. CASE PrimopMakeString /\ ~Stop("oob")
  <2>1. PICK n \in 0 .. MaxLen :
          \/ NewString([i \in 1 .. n |-> Junk], FALSE)
          \/ \E c \in Chars : NewString([i \in 1 .. n |-> c], Wide(c))
    BY <1>4 DEF PrimopMakeString
  <2>2. n \in Nat
    BY BoundsAssumption
  <2>3. ASSUME NEW c \in Int PROVE [i \in 1 .. n |-> c] \in Seq(Int)
    BY <2>2, FunctionIsSeq
  <2>4. CASE NewString([i \in 1 .. n |-> Junk], FALSE)
    <3> DEFINE text == [i \in 1 .. n |-> Junk]
    <3>1. text \in Seq(Int) /\ \A i \in DOMAIN text : ~Wide(text[i])
      BY <1>1, <2>3
    <3>2. NewString(text, FALSE)
      BY <2>4
    <3> HIDE DEF text
    <3>3. QED
      BY <3>1, <3>2 DEF NewNarrowString
  <2>5. ASSUME NEW c \in Chars, NewString([i \in 1 .. n |-> c], Wide(c)) PROVE NewNarrowString
    <3> DEFINE text == [i \in 1 .. n |-> c]
    <3>1. text \in Seq(Int)
      BY <1>1, <2>3
    <3>2. Wide(c) \in BOOLEAN
      BY DEF Wide
    <3>3. ~Wide(c) => \A i \in DOMAIN text : ~Wide(text[i])
      OBVIOUS
    <3>4. NewString(text, Wide(c))
      BY <2>5
    <3> HIDE DEF text
    <3>5. QED
      BY <3>1, <3>2, <3>3, <3>4 DEF NewNarrowString
  <2>6. QED
    BY <2>1, <2>4, <2>5
<1>5. QED
  BY <1>2, <1>3, <1>4

LEMMA NewStringsKeep ==
    ASSUME StrInv, InitString \/ PrimopString \/ PrimopMakeString
    PROVE  StrInv'
<1>1. CASE NewNarrowString
  BY <1>1, NewStringKeeps DEF NewNarrowString
<1>2. CASE Stop("oob")
  BY <1>2 DEF StrInv, Stop, Shapes, FreshUntilMoved, CountsCover, NarrowHoldsNarrow, Strings, Sharers
<1>3. QED
  BY <1>1, <1>2, NewStringTexts

LEMMA StrStep == StrInv /\ [Next]_vars => StrInv'
<1> SUFFICES ASSUME StrInv, [Next]_vars PROVE StrInv'
  OBVIOUS
<1>1. CASE UNCHANGED <<strs, bufs, moved, since, crowded>> /\ status' \in {status, "freed", "oob"}
  BY <1>1 DEF StrInv, Shapes, FreshUntilMoved, CountsCover, NarrowHoldsNarrow, Strings, Sharers, Stale
<1>2. CASE PrimopStringRef \/ Stopped \/ UNCHANGED vars
  BY <1>1, <1>2 DEF PrimopStringRef, Stopped, Stop, vars
<1>3. QED
  BY <1>2, NewStringsKeep, StringCopyKeeps, StringSetKeeps, CollectKeeps DEF Next

\* Every string refers to a buffer that exists, the one string_set replaced
\* included.
THEOREM TypeCorrect == Spec => []TypeOK
<1>1. StrInv => TypeOK
  BY ShapesFacts DEF StrInv, Shapes, TypeOK, StringRec
<1>2. QED
  BY <1>1, StrInit, StrStep, PTL DEF Spec

\* Until realloc moves the pool, no string has a stale pointer.
THEOREM Fresh == Spec => []FreshUntilMoved
<1>1. StrInv => FreshUntilMoved
  BY DEF StrInv
<1>2. QED
  BY <1>1, StrInit, StrStep, PTL DEF Spec

\* The count of a buffer covers the strings that share it, but for the copies
\* made since the last collection and the buffers whose count overflowed in it.
THEOREM Counts == Spec => []CountsCover
<1>1. StrInv => CountsCover
  BY DEF StrInv
<1>2. QED
  BY <1>1, StrInit, StrStep, PTL DEF Spec

\* A narrow buffer never holds a wide character.
THEOREM Narrowness == Spec => []NarrowHoldsNarrow
<1>1. StrInv => NarrowHoldsNarrow
  BY DEF StrInv
<1>2. QED
  BY <1>1, StrInit, StrStep, PTL DEF Spec

-----------------------------------------------------------------------------
(* What a write changes.                                                   *)

\* A string whose record keeps its place and whose buffer keeps its cells
\* reads as before.
LEMMA ContentKept ==
    ASSUME NEW t, strs'[t].buf = strs[t].buf, strs'[t].off = strs[t].off,
           strs'[t].len = strs[t].len,
           bufs'[strs[t].buf].cells = bufs[strs[t].buf].cells
    PROVE  Content(t)' = Content(t)
BY DEF Content, InBuffer, Cell, Buf

\* Only string_set changes what an existing string reads as.
LEMMA OthersKeepContents ==
    ASSUME StrInv, InitString \/ PrimopString \/ PrimopMakeString \/ PrimopStringCopy
                   \/ PrimopStringRef \/ Collect \/ Stopped \/ UNCHANGED vars
    PROVE  \A t \in Strings : Content(t)' = Content(t)
<1> SUFFICES ASSUME NEW t \in Strings PROVE Content(t)' = Content(t)
  OBVIOUS
<1>0. Shapes /\ strs[t].buf \in DOMAIN bufs
  BY DEF StrInv, Shapes
<1>1. CASE UNCHANGED <<strs, bufs>>
  BY <1>1, ContentKept
<1>2. ASSUME NEW cells \in Seq(Int), NEW wc \in BOOLEAN, NewString(cells, wc)
      PROVE  Content(t)' = Content(t)
  <2>1. CASE Stop("freed")
    BY <1>1, <2>1 DEF Stop
  <2>2. ASSUME NEW m \in BOOLEAN,
               bufs' = Append(bufs, Buffer(cells, wc)),
               strs' = Append(Aged(m), [buf |-> Len(bufs) + 1, fresh |-> TRUE,
                                        off |-> 0, len |-> Len(cells)])
        PROVE  Content(t)' = Content(t)
    <3>1. [buf |-> Len(bufs) + 1, fresh |-> TRUE, off |-> 0, len |-> Len(cells)] \in StringRec
      BY <1>0, ShapesFacts DEF StringRec
    <3>2. strs'[t].buf = strs[t].buf /\ strs'[t].off = strs[t].off /\ strs'[t].len = strs[t].len
      BY <1>0, <2>2, <3>1, Growing
    <3>3. bufs'[strs[t].buf] = bufs[strs[t].buf]
      BY <1>0, <2>2, BufferFacts, ShapesFacts, AppendFacts DEF Shapes
    <3>4. QED
      BY <3>2, <3>3, ContentKept
  <2>3. QED
    BY <1>2, <2>1, <2>2 DEF NewString
<1>3. CASE InitString \/ PrimopString \/ PrimopMakeString
  BY <1>1, <1>2, <1>3, NewStringTexts DEF NewNarrowString, Stop
<1>4. CASE PrimopStringCopy
  <2>1. PICK s \in Strings : \E start \in Indices : \E end \in Indices \cup {strs[s].len} :
          /\ \E m \in BOOLEAN : strs' = Append(Aged(m), Window(Aged(m)[s], start, end))
          /\ UNCHANGED bufs
    BY <1>4 DEF PrimopStringCopy
  <2>2. PICK start \in Indices, end \in Indices \cup {strs[s].len}, m \in BOOLEAN :
          strs' = Append(Aged(m), Window(Aged(m)[s], start, end)) /\ UNCHANGED bufs
    BY <2>1
  <2>3. strs[s] \in StringRec /\ Aged(m)[s] \in StringRec
    BY <1>0, AgedFacts, ShapesFacts
  <2>4. start \in Int /\ end \in Int
    BY <2>3, WidthAssumption DEF StringRec
  <2>5. Window(Aged(m)[s], start, end) \in StringRec
    BY <2>3, <2>4, WindowFacts
  <2>7. strs'[t].buf = strs[t].buf /\ strs'[t].off = strs[t].off /\ strs'[t].len = strs[t].len
    BY <1>0, <2>2, <2>5, Growing
  <2>8. QED
    BY <2>2, <2>7, ContentKept
<1>5. CASE PrimopStringRef \/ Stopped \/ UNCHANGED vars
  BY <1>1, <1>5 DEF PrimopStringRef, Stopped, Stop, vars
<1>6. CASE Collect
  <2>1. CASE Stop("freed") \/ Stop("oob")
    BY <1>1, <2>1 DEF Stop
  <2>2. CASE /\ strs' = [s \in Strings |-> Repointed(s)]
             /\ bufs' = [b \in DOMAIN bufs |-> [bufs[b] EXCEPT !.rc = Recount(b)]]
    BY <1>0, <2>2, CollectFacts, ContentKept
  <2>3. QED
    BY <1>6, <2>1, <2>2 DEF Collect
<1>7. QED
  BY <1>3, <1>4, <1>5, <1>6

\* A buffer with a count of one is undercounted if strings share it at all.
LEMMA CountOne ==
    ASSUME StrInv, NEW b \in DOMAIN bufs, bufs[b].rc <= 1
    PROVE  Undercounted(b)
<1>1. Shapes /\ bufs[b].rc \in Int
  BY ShapesFacts DEF StrInv, BufRec
<1>2. Cardinality(Sharers(b) \ since) \in Nat
  BY <1>1, SharersFinite
<1>3. CASE b \notin crowded
  <2>1. Cardinality(Sharers(b) \ since) <= bufs[b].rc
    BY <1>3 DEF StrInv, CountsCover
  <2>2. QED
    BY <1>1, <1>2, <2>1 DEF Undercounted
<1>4. QED
  BY <1>3 DEF Undercounted

LEMMA PrivateStep ==
    ASSUME StrInv, [Next]_vars, NEW s \in Strings, NEW t \in Strings,
           s # t, Content(t)' # Content(t),
           strs'[s] # strs[s] \/ Content(s)' # Content(s)
    PROVE  strs[s].buf = strs[t].buf /\ Undercounted(strs[t].buf)
<1>1. CASE \E u \in Strings : \E i \in 1 .. strs[u].len, c \in Chars : PrimopStringSet(u, i, c)
  <2>1. PICK u \in Strings : \E i \in 1 .. strs[u].len, c \in Chars : PrimopStringSet(u, i, c)
    BY <1>1
  <2>2. /\ Shapes /\ \A v \in Strings : strs[v].buf \in DOMAIN bufs
        /\ DOMAIN bufs = 1 .. Len(bufs) /\ Len(bufs) \in Nat
    BY ShapesFacts DEF StrInv, Shapes
  <2>3. CASE Stop("freed") \/ Stop("oob")
    BY <2>3, ContentKept DEF Stop
  <2>4. CASE WritesNew(u)
    <3>1. PICK new \in BufRec :
            bufs' = Append(bufs, new) /\ strs' = [strs EXCEPT ![u].buf = Len(bufs) + 1]
      BY <2>4 DEF WritesNew
    <3>2. \A v \in Strings \ {u} : strs'[v] = strs[v]
      BY <3>1 DEF Strings
    <3>3. \A b \in DOMAIN bufs : bufs'[b] = bufs[b]
      BY <2>2, <3>1, AppendFacts DEF Shapes
    <3>4. \A v \in Strings \ {u} : Content(v)' = Content(v)
      BY <2>2, <3>2, <3>3, ContentKept
    <3>5. QED
      BY <3>2, <3>4
  <2>5. CASE WritesInPlace(u)
    <3>1. PICK new \in BufRec :
            bufs' = [bufs EXCEPT ![strs[u].buf] = new] /\ strs' = strs /\ Buf(u).rc <= 1
      BY <2>5 DEF WritesInPlace
    <3>2. \A b \in DOMAIN bufs \ {strs[u].buf} : bufs'[b] = bufs[b]
      BY <3>1
    <3>3. \A v \in Strings : strs[v].buf # strs[u].buf => Content(v)' = Content(v)
      BY <2>2, <3>1, <3>2, ContentKept
    <3>4. CASE strs[s].buf = strs[u].buf /\ strs[t].buf = strs[u].buf
      <4>1. bufs[strs[u].buf].rc <= 1 /\ strs[u].buf \in DOMAIN bufs
        BY <2>2, <3>1 DEF Buf
      <4>2. QED
        BY <3>4, <4>1, CountOne
    <3>5. QED
      BY <3>1, <3>3, <3>4
  <2>6. QED
    BY <2>1, <2>3, <2>4, <2>5, StringSetCases
<1>2. CASE ~(\E u \in Strings : \E i \in 1 .. strs[u].len, c \in Chars : PrimopStringSet(u, i, c))
  BY <1>2, OthersKeepContents DEF Next
<1>3. QED
  BY <1>1, <1>2

\* string-set! changes the written string only: another one changes with it
\* only if the two share an undercounted buffer.
THEOREM Privacy == Spec => WritesArePrivate
<1>1. StrInv /\ [Next]_vars =>
        [\A s \in Strings, t \in Strings :
            (/\ s # t /\ Content(t)' # Content(t)
             /\ strs'[s] # strs[s] \/ Content(s)' # Content(s))
            => strs[s].buf = strs[t].buf /\ Undercounted(strs[t].buf)]_<<strs, bufs>>
  BY PrivateStep
<1>2. QED
  BY <1>1, StrInit, StrStep, PTL DEF Spec, WritesArePrivate

-----------------------------------------------------------------------------
(* The comparisons.                                                        *)

\* Two strings that differ somewhere have a first place where they do.
LEMMA DifferFacts ==
    ASSUME NEW x \in Seq(Int), NEW y \in Seq(Int)
    PROVE  /\ CommonLen(x, y) \in Nat /\ CommonLen(x, y) <= Len(x) /\ CommonLen(x, y) <= Len(y)
           /\ CommonLen(x, y) \in {Len(x), Len(y)}
           /\ \/ /\ Differ(x, y) = 0
                 /\ \A i \in 1 .. CommonLen(x, y) : x[i] = y[i]
              \/ /\ Differ(x, y) \in 1 .. CommonLen(x, y)
                 /\ x[Differ(x, y)] # y[Differ(x, y)]
<1>1. /\ CommonLen(x, y) \in Nat /\ CommonLen(x, y) <= Len(x) /\ CommonLen(x, y) <= Len(y)
      /\ CommonLen(x, y) \in {Len(x), Len(y)}
  BY DEF CommonLen
<1> DEFINE d == {i \in 1 .. CommonLen(x, y) : x[i] # y[i]}
<1>2. Differ(x, y) = IF d = {} THEN 0 ELSE CHOOSE i \in d : \A j \in d : i <= j
  BY DEF Differ
<1>3. CASE d = {}
  BY <1>1, <1>2, <1>3
<1>4. CASE d # {}
  <2>1. d \subseteq Nat
    BY <1>1
  <2> HIDE DEF d
  <2>2. \E i \in d : \A j \in d : i <= j
    BY <1>4, <2>1, LeastNat
  <2>3. Differ(x, y) \in d
    BY <1>2, <1>4, <2>2
  <2>4. QED
    BY <1>1, <2>3 DEF d
<1>5. QED
  BY <1>3, <1>4

\* For any two strings: one order of the three, and the other two comparisons.
LEMMA CompareTwo ==
    ASSUME NEW x \in Seq(Int), NEW y \in Seq(Int)
    PROVE  /\ StringLess(x, y) \/ StringEq(x, y) \/ StringGr(x, y)
           /\ ~(StringLess(x, y) /\ StringGr(x, y)) /\ ~(StringLess(x, y) /\ StringEq(x, y))
           /\ (StringLeq(x, y) <=> ~StringGr(x, y)) /\ (StringGeq(x, y) <=> ~StringLess(x, y))
<1> DEFINE n == CommonLen(x, y)
           d == Differ(x, y)
<1>0. Len(x) \in Nat /\ Len(y) \in Nat
  OBVIOUS
<1>1. DOMAIN x = 1 .. Len(x) /\ DOMAIN y = 1 .. Len(y)
  OBVIOUS
<1>2. n \in Nat /\ n <= Len(x) /\ n <= Len(y) /\ n \in {Len(x), Len(y)}
  BY DifferFacts
<1> HIDE DEF n, d
<1>3. CASE d = 0 /\ \A i \in 1 .. n : x[i] = y[i]
  <2>1. StringLess(x, y) <=> Len(x) < Len(y)
    BY <1>3 DEF StringLess, d
  <2>2. StringGr(x, y) <=> Len(x) > Len(y)
    BY <1>3 DEF StringGr, d
  <2>3. StringLeq(x, y) <=> Len(x) <= Len(y)
    BY <1>3 DEF StringLeq, d
  <2>4. StringGeq(x, y) <=> Len(x) >= Len(y)
    BY <1>3 DEF StringGeq, d
  <2>5. StringEq(x, y) <=> Len(x) = Len(y)
    BY <1>0, <1>1, <1>2, <1>3 DEF StringEq
  <2>6. QED
    BY <1>0, <2>1, <2>2, <2>3, <2>4, <2>5
<1>4. CASE d \in 1 .. n /\ x[d] # y[d]
  <2>1. d # 0 /\ d \in 1 .. Len(x) /\ d \in 1 .. Len(y) /\ x[d] \in Int /\ y[d] \in Int
    <3>1. d # 0 /\ d \in 1 .. Len(x) /\ d \in 1 .. Len(y)
      BY <1>0, <1>2, <1>4
    <3>2. QED
      BY <3>1, ElementOfSeq
  <2>2. StringLess(x, y) <=> x[d] < y[d]
    BY <2>1 DEF StringLess, d
  <2>3. StringGr(x, y) <=> x[d] > y[d]
    BY <2>1 DEF StringGr, d
  <2>4. StringLeq(x, y) <=> x[d] < y[d]
    BY <2>1 DEF StringLeq, d
  <2>5. StringGeq(x, y) <=> x[d] > y[d]
    BY <2>1 DEF StringGeq, d
  <2>6. ~StringEq(x, y)
    BY <1>1, <1>4, <2>1 DEF StringEq
  <2>7. \/ x[d] < y[d] /\ ~(x[d] > y[d])
        \/ x[d] > y[d] /\ ~(x[d] < y[d])
    BY <1>4, <2>1
  <2>8. QED
    BY <2>2, <2>3, <2>4, <2>5, <2>6, <2>7
<1>5. QED
  BY <1>3, <1>4, DifferFacts DEF n, d

\* The first string against each of the others: with string=?, equality is
\* transitive through the first.
LEMMA CompareThree ==
    ASSUME NEW x \in Seq(Int), NEW y \in Seq(Int), NEW z \in Seq(Int),
           Related("=", <<x, y, z>>)
    PROVE  StringEq(y, z)
<1>1. StringRel("=", x, y) /\ StringRel("=", x, z)
  <2>1. Len(<<x, y, z>>) = 3 /\ <<x, y, z>>[1] = x /\ <<x, y, z>>[2] = y /\ <<x, y, z>>[3] = z
    OBVIOUS
  <2>2. 2 \in 2 .. 3 /\ 3 \in 2 .. 3
    OBVIOUS
  <2>3. QED
    BY <2>1, <2>2 DEF Related
<1>2. StringEq(x, y) /\ StringEq(x, z)
  BY <1>1 DEF StringRel
<1>3. DOMAIN x = 1 .. Len(x) /\ DOMAIN y = 1 .. Len(y)
  OBVIOUS
<1>4. QED
  BY <1>2, <1>3 DEF StringEq

\* string=?, string<?, string>?, string<=? and string>=? agree with each other
\* on all strings the program can make.
THEOREM Comparing == Spec => []ComparisonsAgree
<1>1. ASSUME StrInv PROVE ComparisonsAgree
  <2>1. \A s \in Strings : Content(s) \in Seq(Int)
    <3>1. TAKE s \in Strings
    <3>2. Shapes /\ strs[s].len \in Nat
      BY <1>1, ShapesFacts DEF StrInv, StringRec
    <3>3. QED
      BY <3>2, ReplacementFacts, FunctionIsSeq
  <2>2. QED
    BY <2>1, CompareTwo, CompareThree DEF ComparisonsAgree
<1>2. QED
  BY <1>1, StrInit, StrStep, PTL DEF Spec
=============================================================================
