--------------------------- MODULE ScmHeapProofs ---------------------------
(***************************************************************************)
(* Proofs about ScmHeap, for every page size, argument stack and number of *)
(* objects, constants and collections.                                     *)
(***************************************************************************)
EXTENDS ScmHeap, SlyFacts

Val == Nat \cup {VOID} \cup Inexact

Tags == {"pair", "box", "vector", "closure", "bytevector"}

Obj == [tag : Tags, id : 1 .. MaxObjs, fref : Nat, cont : BOOLEAN, fields : Seq(Val), bytes : Nat]

PoolRec(p) == p = [sz |-> p.sz, idx |-> p.idx, mem |-> p.mem]

\* A pool as a data structure.
IsPool(p) ==
    /\ PoolRec(p)
    /\ p.sz \in Nat /\ p.idx \in Nat
    /\ DOMAIN p.mem \subseteq Nat
    /\ p.mem \in [DOMAIN p.mem -> Obj]

\* Its objects lie one after the other, inside the pool.
Layout(p) ==
    /\ 1 <= p.idx /\ p.idx <= p.sz
    /\ \A a \in DOMAIN p.mem :
          /\ a >= 1 /\ a + Size(p.mem[a]) <= p.idx
          /\ \A b \in DOMAIN p.mem : a < b => a + Size(p.mem[a]) <= b

\* Pairs and boxes have their fields, and only closures are continuations.
Formed(o) ==
    /\ o.tag = "pair" => Len(o.fields) = 2
    /\ o.tag = "box" => Len(o.fields) = 1
    /\ o.cont => o.tag = "closure"

UniqueIds(p) == \A a, b \in DOMAIN p.mem : p.mem[a].id = p.mem[b].id => a = b

Closed(p) == \A a \in DOMAIN p.mem : \A f \in DOMAIN p.mem[a].fields : Valid(p.mem[a].fields[f], p)

\* v is not the address of a box of pool p.
NotBox(v, p) == IsRef(v) => p.mem[v].tag # "box"

BoxesFlat(p) == \A a \in DOMAIN p.mem : p.mem[a].tag = "box" => NotBox(p.mem[a].fields[1], p)

GoodPool(p) == IsPool(p) /\ Layout(p) /\ \A a \in DOMAIN p.mem : Formed(p.mem[a])

-----------------------------------------------------------------------------
(* Objects and pools.                                                      *)

LEMMA HeaderFacts == DOMAIN Header = Tags /\ \A t \in Tags : Header[t] \in 1 .. 3
BY DEF Header, Tags

LEMMA ValFacts == /\ VOID \in Val /\ Nat \subseteq Val /\ ~IsRef(VOID)
                  /\ \A v \in Inexact : v \in Val /\ ~IsRef(v)
                  /\ \A v \in Val : IsRef(v) \/ v \in {VOID} \cup Inexact
BY HeapAssumption DEF Val, IsRef

LEMMA SizeFacts ==
    ASSUME NEW o \in Obj
    PROVE  /\ Len(o.fields) \in Nat
           /\ Size(o) \in Nat /\ Size(o) >= 1
           /\ AllocSize(o) \in Nat /\ Size(o) <= AllocSize(o)
           /\ AllocSize(o) <= 4 + Len(o.fields) + o.bytes
<1>1. o.tag \in Tags /\ Len(o.fields) \in Nat /\ o.bytes \in Nat
  BY DEF Obj
<1>2. Header[o.tag] \in 1 .. 3
  BY <1>1, HeaderFacts
<1>3. /\ Size(o) = Header[o.tag] + Len(o.fields) + o.bytes
      /\ Size(o) \in Nat /\ Size(o) >= 1 /\ Size(o) <= 3 + Len(o.fields) + o.bytes
  <2> DEFINE h == Header[o.tag]
             l == Len(o.fields)
  <2>1. Size(o) = h + l + o.bytes /\ h \in 1 .. 3 /\ l \in Nat /\ o.bytes \in Nat
    BY <1>1, <1>2 DEF Size
  <2> HIDE DEF h, l
  <2>2. h + l + o.bytes \in Nat /\ h + l + o.bytes >= 1 /\ h + l + o.bytes <= 3 + l + o.bytes
    BY <2>1
  <2>3. QED
    BY <2>1, <2>2 DEF h, l
<1>4. AllocSize(o) \in {Size(o), Size(o) + 1}
  BY DEF AllocSize
<1> HIDE DEF Obj
<1>5. QED
  BY <1>1, <1>3, <1>4

LEMMA PoolObj ==
    ASSUME NEW p, IsPool(p), NEW a \in DOMAIN p.mem
    PROVE  /\ p.mem[a] \in Obj /\ a \in Nat
           /\ p.mem[a].tag \in Tags /\ p.mem[a].id \in 1 .. MaxObjs /\ p.mem[a].fref \in Nat
           /\ p.mem[a].cont \in BOOLEAN /\ p.mem[a].fields \in Seq(Val)
           /\ DOMAIN p.mem[a].fields = 1 .. Len(p.mem[a].fields)
           /\ \A f \in DOMAIN p.mem[a].fields : p.mem[a].fields[f] \in Val
           /\ Size(p.mem[a]) \in Nat /\ Size(p.mem[a]) >= 1
<1>1. p.mem[a] \in Obj /\ a \in Nat
  BY DEF IsPool
<1>2. QED
  BY <1>1, SizeFacts DEF Obj

LEMMA AtFacts ==
    ASSUME NEW p, IsPool(p), NEW a \in Nat, NEW o \in Obj
    PROVE  /\ At(p.mem, a, o) \in [DOMAIN p.mem \cup {a} -> Obj]
           /\ DOMAIN At(p.mem, a, o) = DOMAIN p.mem \cup {a}
           /\ At(p.mem, a, o)[a] = o
           /\ \A b \in DOMAIN p.mem : b # a => At(p.mem, a, o)[b] = p.mem[b]
BY DEF IsPool, At

\* q is p with the object o in n words at the allocation index.
Placed(p, o, n, q) ==
    /\ o \in Obj /\ Formed(o) /\ n \in Nat /\ Size(o) <= n
    /\ PoolRec(q) /\ q.sz \in Nat /\ q.idx = p.idx + n /\ q.idx <= q.sz
    /\ q.mem = At(p.mem, p.idx, o)

\* Such an object overlaps nothing.
LEMMA Placing ==
    ASSUME NEW p, GoodPool(p), NEW o, NEW n, NEW q, Placed(p, o, n, q)
    PROVE  /\ GoodPool(q) /\ p.idx \notin DOMAIN p.mem /\ p.idx \in Nat
           /\ DOMAIN q.mem = DOMAIN p.mem \cup {p.idx}
           /\ q.mem[p.idx] = o
           /\ \A b \in DOMAIN p.mem : q.mem[b] = p.mem[b]
<1>1. IsPool(p) /\ Layout(p) /\ p.idx \in Nat
  BY DEF GoodPool, IsPool
<1>2. \A a \in DOMAIN p.mem : a \in Nat /\ Size(p.mem[a]) \in Nat /\ Size(p.mem[a]) >= 1
  BY <1>1, PoolObj
<1>3. \A a \in DOMAIN p.mem : a < p.idx
  BY <1>1, <1>2 DEF Layout
<1>4. p.idx \notin DOMAIN p.mem
  BY <1>1, <1>3
<1>5. /\ o \in Obj /\ Formed(o) /\ n \in Nat /\ Size(o) <= n
      /\ PoolRec(q) /\ q.sz \in Nat /\ q.idx = p.idx + n /\ q.idx <= q.sz
      /\ q.mem = At(p.mem, p.idx, o)
  BY DEF Placed
<1>6. /\ q.mem \in [DOMAIN p.mem \cup {p.idx} -> Obj]
      /\ DOMAIN q.mem = DOMAIN p.mem \cup {p.idx}
      /\ q.mem[p.idx] = o
      /\ \A b \in DOMAIN p.mem : q.mem[b] = p.mem[b]
  <2> DEFINE mem == At(p.mem, p.idx, o)
  <2>1. /\ mem \in [DOMAIN p.mem \cup {p.idx} -> Obj]
        /\ DOMAIN mem = DOMAIN p.mem \cup {p.idx}
        /\ mem[p.idx] = o
        /\ \A b \in DOMAIN p.mem : b # p.idx => mem[b] = p.mem[b]
    BY <1>1, <1>5, AtFacts
  <2>2. q.mem = mem
    BY <1>5
  <2> HIDE DEF mem
  <2>3. QED
    BY <1>4, <2>1, <2>2
<1>7. IsPool(q)
  BY <1>1, <1>5, <1>6 DEF IsPool
<1>8. Layout(q)
  <2>1. 1 <= q.idx /\ q.idx <= q.sz
    BY <1>1, <1>5 DEF Layout
  <2>2. ASSUME NEW a \in DOMAIN p.mem
        PROVE  /\ a >= 1 /\ a + Size(q.mem[a]) <= q.idx
               /\ \A b \in DOMAIN q.mem : a < b => a + Size(q.mem[a]) <= b
    <3>1. a >= 1 /\ a + Size(p.mem[a]) <= p.idx /\ q.mem[a] = p.mem[a]
      BY <1>1, <1>6 DEF Layout
    <3>2. a + Size(q.mem[a]) <= q.idx
      BY <1>1, <1>2, <1>5, <3>1
    <3>3. \A b \in DOMAIN p.mem : a < b => a + Size(q.mem[a]) <= b
      BY <1>1, <3>1 DEF Layout
    <3>4. QED
      BY <1>6, <3>1, <3>2, <3>3
  <2>3. /\ p.idx >= 1 /\ p.idx + Size(q.mem[p.idx]) <= q.idx
        /\ \A b \in DOMAIN q.mem : ~(p.idx < b)
    <3>1. Size(o) \in Nat
      BY <1>5, SizeFacts
    <3>2. p.idx >= 1 /\ p.idx + Size(q.mem[p.idx]) <= q.idx
      BY <1>1, <1>5, <1>6, <3>1 DEF Layout
    <3>3. \A b \in DOMAIN q.mem : ~(p.idx < b)
      BY <1>1, <1>2, <1>3, <1>6
    <3>4. QED
      BY <3>2, <3>3
  <2>4. QED
    BY <1>6, <2>1, <2>2, <2>3 DEF Layout
<1>9. QED
  BY <1>1, <1>4, <1>5, <1>6, <1>7, <1>8 DEF GoodPool

-----------------------------------------------------------------------------
(* The heap of a running program.                                          *)

Unforwarded(p) == \A a \in DOMAIN p.mem : p.mem[a].fref = 0

\* Only a pool that has been doubled can be full to the last word.
Roomy(p) == p.sz >= PageSz /\ (p.idx = p.sz => p.sz > PageSz)

\* The pool, doubled perhaps, has room for the object.
Fits(p, o) == Alloc(p, o).idx <= Alloc(p, o).sz

Heap(p) ==
    /\ GoodPool(p) /\ Roomy(p)
    /\ UniqueIds(p) /\ Closed(p) /\ BoxesFlat(p)

LEMMA DomainFinite ==
    ASSUME NEW p, GoodPool(p)
    PROVE  /\ IsFiniteSet(DOMAIN p.mem) /\ Cardinality(DOMAIN p.mem) \in Nat
           /\ IsFiniteSet(Ids(p)) /\ Cardinality(Ids(p)) \in Nat
           /\ Cardinality(Ids(p)) <= Cardinality(DOMAIN p.mem)
<1>1. IsPool(p) /\ Layout(p) /\ p.idx \in Nat
  BY DEF GoodPool, IsPool
<1>2. \A a \in DOMAIN p.mem : a \in Nat /\ Size(p.mem[a]) \in Nat /\ a + Size(p.mem[a]) <= p.idx
  BY <1>1, PoolObj DEF Layout
<1>3. DOMAIN p.mem \in SUBSET (0 .. p.idx)
  BY <1>1, <1>2
<1>4. IsFiniteSet(0 .. p.idx)
  BY <1>1, FS_Interval
<1>5. IsFiniteSet(DOMAIN p.mem)
  BY <1>3, <1>4, FS_Subset
<1> DEFINE name == [a \in DOMAIN p.mem |-> p.mem[a].id]
<1>6. name \in Surjection(DOMAIN p.mem, Ids(p))
  BY DEF Surjection, Ids
<1>7. IsFiniteSet(Ids(p)) /\ Cardinality(Ids(p)) <= Cardinality(DOMAIN p.mem)
  <2> HIDE DEF name
  <2>1. QED
    BY <1>5, <1>6, FS_Surjection
<1>8. QED
  BY <1>5, <1>7, FS_CardinalityType

\* As long as there is room there is an identity for one more object.
LEMMA FreshIdFacts ==
    ASSUME NEW p, GoodPool(p), Cardinality(DOMAIN p.mem) < MaxObjs
    PROVE  FreshId(p) \in 1 .. MaxObjs /\ FreshId(p) \notin Ids(p)
<1>1. IsFiniteSet(Ids(p)) /\ Cardinality(Ids(p)) \in Nat /\ Cardinality(Ids(p)) < MaxObjs
  BY DomainFinite, HeapAssumption
<1>2. \E id \in 1 .. MaxObjs : id \notin Ids(p)
  <2>1. SUFFICES ASSUME 1 .. MaxObjs \subseteq Ids(p) PROVE FALSE
    OBVIOUS
  <2>2. Cardinality(1 .. MaxObjs) <= Cardinality(Ids(p))
    BY <1>1, <2>1, FS_Subset
  <2>3. Cardinality(1 .. MaxObjs) = MaxObjs
    <3>1. 1 \in Int /\ MaxObjs \in Int /\ ~(1 > MaxObjs) /\ MaxObjs - 1 + 1 = MaxObjs
      BY HeapAssumption
    <3>2. QED
      BY <3>1, FS_Interval
  <2>4. QED
    BY <1>1, <2>2, <2>3, HeapAssumption
<1>3. QED
  BY <1>2 DEF FreshId

\* One doubling makes room for an object that is not larger than the pool, and
\* for one of a page and a word.
LEMMA SmallFits ==
    ASSUME NEW p, Heap(p), NEW o \in Obj,
           AllocSize(o) <= p.sz \/ AllocSize(o) <= PageSz + 1
    PROVE  Fits(p, o)
<1> DEFINE n == AllocSize(o)
<1>1. /\ p.sz \in Nat /\ p.idx \in Nat /\ p.idx <= p.sz
      /\ p.sz >= PageSz /\ (p.idx = p.sz => p.sz > PageSz)
  BY DEF Heap, GoodPool, Layout, IsPool, Roomy
<1>2. n \in Nat /\ (n <= p.sz \/ n <= PageSz + 1)
  BY SizeFacts
<1>3. /\ Alloc(p, o).idx = p.idx + n
      /\ Alloc(p, o).sz = IF n >= p.sz - p.idx THEN 2 * p.sz ELSE p.sz
  BY DEF Alloc
<1> HIDE DEF n
<1>4. p.idx + n <= (IF n >= p.sz - p.idx THEN 2 * p.sz ELSE p.sz)
  <2>1. CASE n >= p.sz - p.idx
    BY <1>1, <1>2, <2>1, HeapAssumption
  <2>2. CASE ~(n >= p.sz - p.idx)
    BY <1>1, <1>2, <2>2, HeapAssumption
  <2>3. QED
    BY <2>1, <2>2
<1>5. QED
  BY <1>3, <1>4 DEF Fits

\* What scm_heap_alloc does to the heap of a running program, if it has room.
LEMMA Allocating ==
    ASSUME NEW p, Heap(p), NEW o \in Obj, Formed(o), Fits(p, o),
           o.id \notin Ids(p),
           \A f \in DOMAIN o.fields : Valid(o.fields[f], p),
           o.tag = "box" => o.fields[1] = VOID,
           NEW q, q = Alloc(p, o)
    PROVE  /\ Heap(q) /\ p.idx \notin DOMAIN p.mem /\ p.idx \in Nat
           /\ DOMAIN q.mem = DOMAIN p.mem \cup {p.idx}
           /\ q.mem[p.idx] = o
           /\ \A b \in DOMAIN p.mem : q.mem[b] = p.mem[b]
<1>1. /\ GoodPool(p) /\ IsPool(p) /\ p.sz \in Nat /\ p.idx \in Nat /\ p.idx <= p.sz
      /\ p.sz >= PageSz /\ (p.idx = p.sz => p.sz > PageSz)
  BY DEF Heap, GoodPool, Layout, IsPool, Roomy
<1> DEFINE n == AllocSize(o)
           sz == IF n >= p.sz - p.idx THEN 2 * p.sz ELSE p.sz
<1>3. n \in Nat /\ Size(o) <= n
  BY SizeFacts
<1>5. PoolRec(q) /\ q.sz = sz /\ q.idx = p.idx + n /\ q.mem = At(p.mem, p.idx, o)
  BY DEF Alloc, PoolRec
<1>4. sz \in Nat /\ p.idx + n <= sz /\ sz >= PageSz /\ (p.idx + n = sz => sz > PageSz)
  <2>1. q.idx <= q.sz
    BY DEF Fits
  <2>2. p.idx + n <= sz
    BY <1>5, <2>1
  <2> HIDE DEF n
  <2>3. CASE n >= p.sz - p.idx
    BY <1>1, <1>3, <2>2, <2>3, HeapAssumption
  <2>4. CASE ~(n >= p.sz - p.idx)
    BY <1>1, <1>3, <2>2, <2>4, HeapAssumption
  <2>5. QED
    BY <2>3, <2>4
<1> HIDE DEF n, sz
<1>6. /\ GoodPool(q) /\ p.idx \notin DOMAIN p.mem /\ p.idx \in Nat
      /\ DOMAIN q.mem = DOMAIN p.mem \cup {p.idx}
      /\ q.mem[p.idx] = o
      /\ \A b \in DOMAIN p.mem : q.mem[b] = p.mem[b]
  <2>1. q.sz \in Nat /\ q.idx <= q.sz
    BY <1>4, <1>5
  <2>2. Placed(p, o, n, q)
    BY <1>3, <1>5, <2>1 DEF Placed
  <2>3. QED
    BY <1>1, <2>2, Placing
<1>7. Roomy(q)
  BY <1>4, <1>5 DEF Roomy
<1>8. UniqueIds(q)
  BY <1>6 DEF Heap, UniqueIds, Ids
<1>9. Closed(q)
  BY <1>6 DEF Heap, Closed, Valid
<1>10. BoxesFlat(q)
  <2>1. ASSUME NEW a \in DOMAIN p.mem, p.mem[a].tag = "box"
        PROVE  NotBox(q.mem[a].fields[1], q)
    <3>1. Len(p.mem[a].fields) = 1 /\ DOMAIN p.mem[a].fields = 1 .. Len(p.mem[a].fields)
      BY <1>1, <2>1, PoolObj DEF GoodPool, Formed
    <3>2. Valid(p.mem[a].fields[1], p)
      BY <3>1 DEF Heap, Closed
    <3>3. NotBox(p.mem[a].fields[1], p)
      BY <2>1 DEF Heap, BoxesFlat
    <3>4. QED
      BY <1>6, <3>2, <3>3 DEF NotBox, Valid
  <2>2. o.tag = "box" => NotBox(o.fields[1], q)
    BY ValFacts DEF NotBox
  <2>3. QED
    BY <1>6, <2>1, <2>2 DEF BoxesFlat
<1>11. QED
  BY <1>6, <1>7, <1>8, <1>9, <1>10 DEF Heap

-----------------------------------------------------------------------------
(* The program between two function calls.                                 *)

RootTypes ==
    /\ args \in Seq(Val) /\ Len(args) <= ArgStackLen
    /\ interned \in Seq(Val)
    /\ self \in Val /\ locals \subseteq Val
    /\ threshold \in Nat

RootsValid(p) ==
    /\ \A i \in DOMAIN interned : Valid(interned[i], p)
    /\ \A i \in DOMAIN args : Valid(args[i], p)
    /\ Valid(self, p)

LocalsValid(p) == \A v \in locals : Valid(v, p)

\* No collection is going on.
AtRest ==
    /\ RootTypes /\ phase \in {"enter", "run"}
    /\ Heap(working) /\ Unforwarded(working)
    /\ RootsValid(working) /\ LocalsValid(working)
    /\ todo = <<>>
    /\ phase = "enter" => locals = {}

\* q holds the objects of p, as they are, and perhaps others.
Extends(q, p) == DOMAIN p.mem \subseteq DOMAIN q.mem /\ \A a \in DOMAIN p.mem : q.mem[a] = p.mem[a]

LEMMA HeldFacts ==
    ASSUME AtRest, NEW v \in Held
    PROVE  v \in Val /\ Valid(v, working)
BY ValFacts DEF AtRest, RootTypes, RootsValid, LocalsValid, Held, Valid

LEMMA ArgsFacts ==
    ASSUME RootTypes
    PROVE  /\ Len(args) \in Nat /\ DOMAIN args = 1 .. Len(args)
           /\ \A i \in 1 .. Len(args) : args[i] \in Val
           /\ DOMAIN interned = 1 .. Len(interned) /\ Len(interned) \in Nat
           /\ \A i \in DOMAIN interned : interned[i] \in Val
BY DEF RootTypes

\* A value that a field of a valid object holds is valid.
LEMMA FieldFacts ==
    ASSUME NEW p, Heap(p), NEW a \in DOMAIN p.mem, NEW f \in DOMAIN p.mem[a].fields
    PROVE  p.mem[a].fields[f] \in Val /\ Valid(p.mem[a].fields[f], p)
BY PoolObj DEF Heap, GoodPool, Closed

\* The value of a variable, and what it is not.
LEMMA FlatFacts ==
    ASSUME AtRest, NEW v \in Val, Valid(v, working)
    PROVE  Flat(v) \in Val /\ Valid(Flat(v), working) /\ NotBox(Flat(v), working)
<1>1. Heap(working) /\ IsPool(working)
  BY DEF AtRest, Heap, GoodPool
<1>2. CASE TagOf(v) = "box"
  <2>1. IsRef(v) /\ v \in DOMAIN working.mem /\ working.mem[v].tag = "box"
    BY <1>2 DEF TagOf, Valid
  <2>2. Len(working.mem[v].fields) = 1 /\ 1 \in DOMAIN working.mem[v].fields
    BY <1>1, <2>1, PoolObj DEF Heap, GoodPool, Formed
  <2>3. Flat(v) = working.mem[v].fields[1]
    BY <1>2 DEF Flat
  <2>4. QED
    BY <1>1, <2>1, <2>2, <2>3, FieldFacts DEF Heap, BoxesFlat
<1>3. CASE TagOf(v) # "box"
  BY <1>3 DEF Flat, TagOf, NotBox
<1>4. QED
  BY <1>2, <1>3

\* A step that changes the variables of a function and its arguments only.
LEMMA RootStep ==
    ASSUME AtRest, UNCHANGED <<working, todo, threshold, interned>>,
           phase' \in {"enter", "run"}, phase' = "enter" => locals' = {},
           self' \in Val, Valid(self', working),
           args' \in Seq(Val), Len(args') <= ArgStackLen, \A i \in DOMAIN args' : Valid(args'[i], working),
           locals' \subseteq Val, \A v \in locals' : Valid(v, working)
    PROVE  AtRest'
BY DEF AtRest, RootTypes, RootsValid, LocalsValid, Unforwarded

\* An object is allocated, or the program overruns the pool and stops.
LEMMA NewKeeps ==
    ASSUME AtRest, NEW tag \in Tags, NEW fields \in Seq(Val), NEW bytes \in Nat, NEW left \in {args, <<>>},
           tag = "pair" => Len(fields) = 2, tag = "box" => fields = <<VOID>>,
           \A f \in DOMAIN fields : Valid(fields[f], working),
           New(tag, fields, bytes, left)
    PROVE  AtRest'
<1> DEFINE o == Object(tag, FreshId(working), fields, bytes)
<1>1. Heap(working) /\ GoodPool(working) /\ RootTypes /\ RootsValid(working) /\ LocalsValid(working)
  BY DEF AtRest, Heap
<1>2. FreshId(working) \in 1 .. MaxObjs /\ FreshId(working) \notin Ids(working)
  <2>1. Cardinality(DOMAIN working.mem) < MaxObjs
    BY <1>1, DomainFinite, HeapAssumption DEF New, Room
  <2>2. QED
    BY <1>1, <2>1, FreshIdFacts
<1>3. /\ o \in Obj /\ o.tag = tag /\ o.id = FreshId(working) /\ o.fields = fields /\ o.fref = 0
      /\ ~o.cont
  BY <1>2 DEF Object, Obj
<1>stop. CASE ~Fits(working, o)
  <2>1. UNCHANGED <<working, locals, args, todo, threshold, phase, interned, self>>
    BY <1>stop DEF New, Fits
  <2>2. QED
    BY <1>1, <2>1 DEF AtRest, RootTypes, RootsValid, LocalsValid
<1> SUFFICES ASSUME Fits(working, o) PROVE AtRest'
  BY <1>stop
<1>4. Formed(o)
  <2>1. Len(<<VOID>>) = 1
    OBVIOUS
  <2>2. QED
    BY <1>3, <2>1 DEF Formed
<1>5. o.tag = "box" => o.fields[1] = VOID
  BY <1>3
<1>6. working' = Alloc(working, o) /\ locals' = locals \cup {working.idx} /\ args' = left
  BY DEF New, Hold, Fits
<1> HIDE DEF o
<1>7. /\ Heap(working') /\ working.idx \notin DOMAIN working.mem /\ working.idx \in Nat
      /\ DOMAIN working'.mem = DOMAIN working.mem \cup {working.idx}
      /\ working'.mem[working.idx] = o
      /\ \A b \in DOMAIN working.mem : working'.mem[b] = working.mem[b]
  BY <1>1, <1>2, <1>3, <1>4, <1>5, <1>6, Allocating
<1>8. Unforwarded(working')
  BY <1>3, <1>7 DEF AtRest, Unforwarded
<1>9. \A v : Valid(v, working) => Valid(v, working')
  BY <1>7 DEF Valid
<1>10. Valid(working.idx, working') /\ working.idx \in Val
  BY <1>7 DEF Valid, Val
<1>11. RootTypes'
  <2>1. <<>> \in Seq(Val) /\ Len(<<>>) = 0 /\ 0 <= ArgStackLen
    BY HeapAssumption
  <2>2. args' \in Seq(Val) /\ Len(args') <= ArgStackLen
    BY <1>1, <1>6, <2>1 DEF RootTypes
  <2>3. UNCHANGED <<interned, self, threshold>>
    BY DEF New
  <2>4. locals' \subseteq Val
    BY <1>1, <1>6, <1>10 DEF RootTypes
  <2>5. QED
    BY <1>1, <2>2, <2>3, <2>4 DEF RootTypes
<1>12. RootsValid(working)' /\ LocalsValid(working)'
  BY <1>1, <1>6, <1>9, <1>10 DEF RootsValid, LocalsValid, New
<1>13. QED
  BY <1>7, <1>8, <1>11, <1>12 DEF AtRest, New, Running

\* What make_closure and primop_vector find on the argument stack.
LEMMA PoppedFacts ==
    ASSUME AtRest
    PROVE  /\ Popped \in Seq(Val) /\ Len(Popped) <= ArgStackLen /\ Len(Popped) = Len(args)
           /\ \A f \in DOMAIN Popped : Valid(Popped[f], working)
<1>1. /\ Len(args) \in Nat /\ Len(args) <= ArgStackLen
      /\ \A i \in 1 .. Len(args) : args[i] \in Val /\ Valid(args[i], working)
  BY ArgsFacts DEF AtRest, RootTypes, RootsValid
<1>2. \A i \in 1 .. Len(args) : Len(args) + 1 - i \in 1 .. Len(args)
  BY <1>1
<1>3. Popped \in [1 .. Len(args) -> Val]
  BY <1>1, <1>2 DEF Popped
<1>4. Popped \in Seq(Val) /\ Len(Popped) = Len(args) /\ DOMAIN Popped = 1 .. Len(args)
  BY <1>1, <1>3, FunctionIsSeq
<1>5. \A f \in DOMAIN Popped : Valid(Popped[f], working)
  BY <1>1, <1>2, <1>4 DEF Popped
<1>6. QED
  BY <1>1, <1>4, <1>5

LEMMA AllocationsKeep ==
    ASSUME AtRest,
           \/ \E x, y \in Held : Cons(x, y)
           \/ MakeBox \/ MakeClosure \/ PrimopVector
           \/ \E n \in Lengths.bytevector : PrimopMakeBytevector(n)
           \/ \E n \in Lengths.vector, x \in Held : PrimopMakeVector(n, x)
    PROVE  AtRest'
<1>0. {"pair", "box", "vector", "closure", "bytevector"} \subseteq Tags /\ 0 \in Nat
  BY DEF Tags
<1>1. ASSUME NEW x \in Held, NEW y \in Held, Cons(x, y) PROVE AtRest'
  <2> DEFINE fields == <<x, y>>
  <2>1. x \in Val /\ Valid(x, working) /\ y \in Val /\ Valid(y, working)
    BY HeldFacts
  <2>2. fields \in Seq(Val) /\ Len(fields) = 2 /\ DOMAIN fields = 1 .. 2
        /\ fields[1] = x /\ fields[2] = y
    BY <2>1
  <2>3. New("pair", fields, 0, args)
    BY <1>1 DEF Cons
  <2> HIDE DEF fields
  <2>4. \A f \in DOMAIN fields : Valid(fields[f], working)
    BY <2>1, <2>2
  <2>5. QED
    BY <1>0, <2>2, <2>3, <2>4, NewKeeps
<1>2. ASSUME MakeBox PROVE AtRest'
  <2> DEFINE fields == <<VOID>>
  <2>1. fields \in Seq(Val) /\ Len(fields) = 1 /\ DOMAIN fields = 1 .. 1 /\ fields[1] = VOID
    BY ValFacts
  <2>2. New("box", fields, 0, args) /\ fields = <<VOID>>
    BY <1>2 DEF MakeBox
  <2> HIDE DEF fields
  <2>3. \A f \in DOMAIN fields : Valid(fields[f], working)
    BY <2>1, ValFacts DEF Valid
  <2>4. QED
    BY <1>0, <2>1, <2>2, <2>3, NewKeeps
<1>3. ASSUME NEW n \in Lengths.bytevector, PrimopMakeBytevector(n) PROVE AtRest'
  <2>1. <<>> \in Seq(Val) /\ Len(<<>>) = 0 /\ DOMAIN <<>> = {} /\ n \in Nat
    BY HeapAssumption
  <2>2. New("bytevector", <<>>, n, args)
    BY <1>3 DEF PrimopMakeBytevector
  <2>3. QED
    BY <1>0, <2>1, <2>2, NewKeeps
<1>4. ASSUME MakeClosure PROVE AtRest'
  BY <1>0, <1>4, PoppedFacts, NewKeeps DEF MakeClosure
<1>5. ASSUME PrimopVector PROVE AtRest'
  BY <1>0, <1>5, PoppedFacts, NewKeeps DEF PrimopVector
<1>6. ASSUME NEW n \in Lengths.vector, NEW x \in Held, PrimopMakeVector(n, x) PROVE AtRest'
  <2> DEFINE fields == [i \in 1 .. n |-> x]
  <2>1. x \in Val /\ Valid(x, working) /\ n \in Nat
    BY HeldFacts, HeapAssumption
  <2>2. fields \in [1 .. n -> Val] /\ \A f \in 1 .. n : fields[f] = x
    BY <2>1
  <2>3. New("vector", fields, 0, args)
    BY <1>6 DEF PrimopMakeVector
  <2> HIDE DEF fields
  <2>4. fields \in Seq(Val) /\ DOMAIN fields = 1 .. n
    BY <2>1, <2>2, FunctionIsSeq
  <2>5. \A f \in DOMAIN fields : Valid(fields[f], working)
    BY <2>1, <2>2, <2>4
  <2>6. QED
    BY <1>0, <2>3, <2>4, <2>5, NewKeeps
<1>7. QED
  BY <1>1, <1>2, <1>3, <1>4, <1>5, <1>6

-----------------------------------------------------------------------------
(* Variables, arguments and calls.                                         *)

\* Operations that only load a value into a variable.
LEMMA HoldKeeps ==
    ASSUME AtRest, NEW v \in Val, Valid(v, working), Hold(v), phase = "run",
           UNCHANGED <<working, todo, threshold, phase, interned, self>>,
           args' \in Seq(Val), Len(args') <= ArgStackLen, \A i \in DOMAIN args' : Valid(args'[i], working)
    PROVE  AtRest'
<1>1. self' \in Val /\ Valid(self', working)
  BY DEF AtRest, RootTypes, RootsValid
<1>2. locals' \subseteq Val /\ \A w \in locals' : Valid(w, working)
  BY DEF AtRest, RootTypes, LocalsValid, Hold
<1>3. phase' = "run"
  OBVIOUS
<1>4. QED
  BY <1>1, <1>2, <1>3, RootStep

LEMMA ArgsKept ==
    ASSUME AtRest, UNCHANGED args
    PROVE  args' \in Seq(Val) /\ Len(args') <= ArgStackLen /\ \A i \in DOMAIN args' : Valid(args'[i], working)
BY DEF AtRest, RootTypes, RootsValid

LEMMA LoadsKeep ==
    ASSUME AtRest,
           \/ \E a \in Held, f \in 1 .. ArgStackLen : Load(a, f)
           \/ \E i \in DOMAIN interned : LoadConstant(i)
           \/ Pop
    PROVE  AtRest'
<1>1. ASSUME NEW a \in Held, NEW f, Load(a, f) PROVE AtRest'
  <2>1. IsRef(a) /\ f \in DOMAIN working.mem[a].fields
    BY <1>1 DEF Load, TagOf
  <2>2. a \in DOMAIN working.mem
    BY <2>1, HeldFacts DEF Valid
  <2>3. working.mem[a].fields[f] \in Val /\ Valid(working.mem[a].fields[f], working)
    BY <2>1, <2>2, FieldFacts DEF AtRest
  <2>4. QED
    BY <1>1, <2>3, HoldKeeps, ArgsKept DEF Load, Running
<1>2. ASSUME NEW i \in DOMAIN interned, LoadConstant(i) PROVE AtRest'
  <2>1. interned[i] \in Val /\ Valid(interned[i], working)
    BY ArgsFacts DEF AtRest, RootsValid
  <2>2. QED
    BY <1>2, <2>1, HoldKeeps, ArgsKept DEF LoadConstant, Running
<1>3. ASSUME Pop PROVE AtRest'
  <2>1. /\ Len(args) \in Nat /\ Len(args) <= ArgStackLen /\ args \in Seq(Val) /\ args # <<>>
        /\ \A i \in 1 .. Len(args) : args[i] \in Val /\ Valid(args[i], working)
    BY <1>3, ArgsFacts DEF AtRest, RootTypes, RootsValid, Pop
  <2>2. Len(args) \in 1 .. Len(args)
    BY <2>1, EmptySeq
  <2>3. args[Len(args)] \in Val /\ Valid(args[Len(args)], working)
    BY <2>1, <2>2
  <2>4. args' = SubSeq(args, 1, Len(args) - 1)
    BY <1>3 DEF Pop
  <2>5. /\ args' \in Seq(Val) /\ Len(args') = Len(args) - 1 /\ DOMAIN args' = 1 .. Len(args) - 1
        /\ \A i \in 1 .. Len(args) - 1 : args'[i] = args[i]
    BY <2>1, <2>4, FrontFacts
  <2>6. Len(args') <= ArgStackLen /\ \A i \in DOMAIN args' : Valid(args'[i], working)
    BY <2>1, <2>5, HeapAssumption
  <2>7. QED
    BY <1>3, <2>3, <2>5, <2>6, HoldKeeps DEF Pop, Running
<1>4. QED
  BY <1>1, <1>2, <1>3

LEMMA PushKeeps ==
    ASSUME AtRest, NEW v \in Held, Push(v) \/ Push(Flat(v))
    PROVE  AtRest'
<1>1. ASSUME NEW w \in Val, Valid(w, working), Push(w) PROVE AtRest'
  <2>1. args' = Append(args, w) /\ Len(args) < ArgStackLen /\ args \in Seq(Val)
    BY <1>1 DEF Push, AtRest, RootTypes
  <2>2. /\ args' \in Seq(Val) /\ Len(args') = Len(args) + 1 /\ DOMAIN args' = 1 .. Len(args) + 1
        /\ \A i \in 1 .. Len(args) : args'[i] = args[i]
        /\ args'[Len(args) + 1] = w
    BY <2>1, AppendFacts
  <2>3. Len(args) \in Nat /\ DOMAIN args = 1 .. Len(args) /\ \A i \in DOMAIN args : Valid(args[i], working)
    BY ArgsFacts DEF AtRest, RootsValid
  <2>4. Len(args') <= ArgStackLen /\ \A i \in DOMAIN args' : Valid(args'[i], working)
    BY <1>1, <2>1, <2>2, <2>3, HeapAssumption
  <2>5. /\ self' \in Val /\ Valid(self', working) /\ phase' = "run"
        /\ locals' \subseteq Val /\ \A u \in locals' : Valid(u, working)
        /\ UNCHANGED <<working, todo, threshold, interned>>
    BY <1>1 DEF Push, Running, AtRest, RootTypes, RootsValid, LocalsValid
  <2>6. QED
    BY <2>2, <2>4, <2>5, RootStep
<1>2. v \in Val /\ Valid(v, working) /\ Flat(v) \in Val /\ Valid(Flat(v), working)
  BY HeldFacts, FlatFacts
<1>3. QED
  BY <1>1, <1>2
-----------------------------------------------------------------------------
(* Objects that change in place.                                           *)

\* q is p with the object o, of the same identity and size, at address a.
Replaced(p, a, o, q) ==
    /\ a \in DOMAIN p.mem /\ o \in Obj /\ Formed(o)
    /\ o.tag = p.mem[a].tag /\ o.id = p.mem[a].id /\ Len(o.fields) = Len(p.mem[a].fields)
    /\ o.bytes = p.mem[a].bytes
    /\ q = [sz |-> p.sz, idx |-> p.idx, mem |-> [p.mem EXCEPT ![a] = o]]

LEMMA Replacing ==
    ASSUME NEW p, GoodPool(p), NEW a, NEW o, NEW q, Replaced(p, a, o, q)
    PROVE  /\ GoodPool(q) /\ q.sz = p.sz /\ q.idx = p.idx
           /\ DOMAIN q.mem = DOMAIN p.mem /\ q.mem[a] = o
           /\ \A b \in DOMAIN p.mem : b # a => q.mem[b] = p.mem[b]
           /\ \A b \in DOMAIN p.mem :
                 q.mem[b].tag = p.mem[b].tag /\ q.mem[b].id = p.mem[b].id
                 /\ Len(q.mem[b].fields) = Len(p.mem[b].fields) /\ q.mem[b].bytes = p.mem[b].bytes
<1>1. IsPool(p) /\ Layout(p)
  BY DEF GoodPool
<1>2. /\ a \in DOMAIN p.mem /\ o \in Obj /\ Formed(o)
      /\ o.tag = p.mem[a].tag /\ o.id = p.mem[a].id /\ Len(o.fields) = Len(p.mem[a].fields)
      /\ o.bytes = p.mem[a].bytes
      /\ PoolRec(q) /\ q.sz = p.sz /\ q.idx = p.idx /\ q.mem = [p.mem EXCEPT ![a] = o]
  BY DEF Replaced, PoolRec
<1>3. /\ DOMAIN q.mem = DOMAIN p.mem /\ q.mem[a] = o
      /\ \A b \in DOMAIN p.mem : b # a => q.mem[b] = p.mem[b]
      /\ q.mem \in [DOMAIN p.mem -> Obj]
  BY <1>1, <1>2 DEF IsPool
<1>4. \A b \in DOMAIN p.mem :
          q.mem[b].tag = p.mem[b].tag /\ q.mem[b].id = p.mem[b].id
          /\ Len(q.mem[b].fields) = Len(p.mem[b].fields) /\ q.mem[b].bytes = p.mem[b].bytes
  BY <1>2, <1>3
<1>5. \A b \in DOMAIN p.mem : Size(q.mem[b]) = Size(p.mem[b])
  BY <1>4 DEF Size
<1>6. IsPool(q)
  BY <1>1, <1>2, <1>3 DEF IsPool
<1>7. Layout(q)
  BY <1>1, <1>2, <1>3, <1>5 DEF Layout
<1>8. QED
  BY <1>2, <1>3, <1>4, <1>6, <1>7 DEF GoodPool

\* A field of the object at a is assigned; the object becomes o.
FieldSet(p, a, f, w, q) ==
    /\ a \in DOMAIN p.mem /\ f \in DOMAIN p.mem[a].fields /\ w \in Val
    /\ q = [p EXCEPT !.mem[a].fields[f] = w]

FieldChanged(p, a, f, w, o) ==
    /\ o.fref = p.mem[a].fref /\ o.cont = p.mem[a].cont
    /\ DOMAIN o.fields = DOMAIN p.mem[a].fields /\ o.fields[f] = w
    /\ \A g \in DOMAIN o.fields : g # f => o.fields[g] = p.mem[a].fields[g]

LEMMA FieldUpdate ==
    ASSUME NEW p, GoodPool(p), NEW a, NEW f, NEW w, NEW q, FieldSet(p, a, f, w, q)
    PROVE  \E o : Replaced(p, a, o, q) /\ FieldChanged(p, a, f, w, o)
<1> DEFINE old == p.mem[a]
           o   == [old EXCEPT !.fields[f] = w]
<1>0. /\ a \in DOMAIN p.mem /\ f \in DOMAIN p.mem[a].fields /\ w \in Val
      /\ q = [p EXCEPT !.mem[a].fields[f] = w]
  BY DEF FieldSet
<1>1. IsPool(p) /\ old \in Obj /\ Formed(old)
  BY <1>0, PoolObj DEF GoodPool
<1>2. q = [sz |-> p.sz, idx |-> p.idx, mem |-> [p.mem EXCEPT ![a] = o]]
  <2>1. p = [sz |-> p.sz, idx |-> p.idx, mem |-> p.mem]
    BY <1>1 DEF IsPool, PoolRec
  <2>2. q = [p EXCEPT !.mem = [p.mem EXCEPT ![a] = o]]
    BY <1>0
  <2> HIDE DEF o
  <2>3. QED
    BY <2>1, <2>2
<1>3. /\ o.fields = [old.fields EXCEPT ![f] = w]
      /\ o.tag = old.tag /\ o.id = old.id /\ o.fref = old.fref /\ o.cont = old.cont
      /\ o.bytes = old.bytes /\ o \in Obj
  <2>1. [old.fields EXCEPT ![f] = w] \in Seq(Val)
    <3>1. old.fields \in Seq(Val) /\ f \in 1 .. Len(old.fields)
      BY <1>0, <1>1, PoolObj
    <3>2. QED
      BY <1>0, <3>1
  <2>2. QED
    BY <1>0, <1>1, <2>1 DEF Obj
<1>4. /\ DOMAIN o.fields = DOMAIN old.fields /\ o.fields[f] = w
      /\ \A g \in DOMAIN o.fields : g # f => o.fields[g] = old.fields[g]
  BY <1>0, <1>3
<1>5. Len(o.fields) = Len(old.fields)
  BY <1>0, <1>1, <1>3 DEF Obj
<1>6. Formed(o)
  BY <1>1, <1>3, <1>5 DEF Formed
<1>7. Replaced(p, a, o, q)
  <2> HIDE DEF o
  <2>1. QED
    BY <1>0, <1>2, <1>3, <1>5, <1>6 DEF Replaced
<1> HIDE DEF o
<1>8. QED
  BY <1>3, <1>4, <1>7 DEF FieldChanged

\* A field of an object of the running program is assigned.
LEMMA SetFieldKeeps ==
    ASSUME AtRest, NEW a \in Held, NEW v \in Held, NEW f \in 1 .. 2, SetField(a, f, v)
    PROVE  AtRest'
<1> DEFINE w == IF TagOf(a) = "box" THEN Flat(v) ELSE v
<1>1. Heap(working) /\ GoodPool(working) /\ IsPool(working)
  BY DEF AtRest, Heap, GoodPool
<1>2. a \in DOMAIN working.mem /\ f \in DOMAIN working.mem[a].fields
      /\ TagOf(a) = working.mem[a].tag
  BY HeldFacts DEF SetField, TagOf, Valid
<1>3. /\ w \in Val /\ Valid(w, working)
      /\ working.mem[a].tag = "box" => NotBox(w, working)
  BY <1>2, HeldFacts, FlatFacts
<1>4. working' = [working EXCEPT !.mem[a].fields[f] = w]
  BY DEF SetField
<1> HIDE DEF w
<1>5. PICK o : Replaced(working, a, o, working') /\ FieldChanged(working, a, f, w, o)
  <2>1. FieldSet(working, a, f, w, working')
    BY <1>2, <1>3, <1>4 DEF FieldSet
  <2>2. QED
    BY <1>1, <2>1, FieldUpdate
<1>6. /\ GoodPool(working') /\ working'.sz = working.sz /\ working'.idx = working.idx
      /\ DOMAIN working'.mem = DOMAIN working.mem /\ working'.mem[a] = o
      /\ \A b \in DOMAIN working.mem : b # a => working'.mem[b] = working.mem[b]
      /\ \A b \in DOMAIN working.mem :
            working'.mem[b].tag = working.mem[b].tag /\ working'.mem[b].id = working.mem[b].id
            /\ Len(working'.mem[b].fields) = Len(working.mem[b].fields)
  BY <1>1, <1>5, Replacing
<1>7. \A u : Valid(u, working) => Valid(u, working')
  BY <1>6 DEF Valid
<1>8. \A u : Valid(u, working) /\ NotBox(u, working) => NotBox(u, working')
  BY <1>6 DEF Valid, NotBox
<1>9. UniqueIds(working')
  BY <1>1, <1>6 DEF Heap, UniqueIds
<1>10. Closed(working')
  <2>1. \A g \in DOMAIN o.fields : Valid(o.fields[g], working')
    BY <1>1, <1>2, <1>3, <1>5, <1>7 DEF Heap, Closed, FieldChanged
  <2>2. QED
    BY <1>1, <1>6, <1>7, <2>1 DEF Heap, Closed
<1>11. BoxesFlat(working')
  <2>1. ASSUME NEW b \in DOMAIN working.mem, working.mem[b].tag = "box"
        PROVE  NotBox(working'.mem[b].fields[1], working')
    <3>1. Len(working.mem[b].fields) = 1 /\ DOMAIN working.mem[b].fields = 1 .. Len(working.mem[b].fields)
      BY <1>1, <2>1, PoolObj DEF GoodPool, Formed
    <3>2. Valid(working.mem[b].fields[1], working) /\ NotBox(working.mem[b].fields[1], working)
      BY <1>1, <2>1, <3>1 DEF Heap, Closed, BoxesFlat
    <3>3. CASE b # a
      BY <1>6, <1>8, <3>2, <3>3
    <3>4. CASE b = a
      <4>1. f = 1
        BY <1>2, <3>1, <3>4
      <4>2. QED
        BY <1>3, <1>5, <1>6, <1>8, <2>1, <3>4, <4>1 DEF FieldChanged
    <3>5. QED
      BY <3>3, <3>4
  <2>2. QED
    BY <1>6, <2>1 DEF BoxesFlat
<1>12. Heap(working')
  BY <1>1, <1>6, <1>9, <1>10, <1>11 DEF Heap, Roomy
<1>13. Unforwarded(working')
  BY <1>2, <1>5, <1>6 DEF AtRest, Unforwarded, FieldChanged
<1>14. QED
  BY <1>7, <1>12, <1>13
     DEF AtRest, RootTypes, RootsValid, LocalsValid, SetField, Running
\* An object changes, but not in its fields.
LEMMA SameFields ==
    ASSUME NEW p, Heap(p), NEW a, NEW o, NEW q, Replaced(p, a, o, q), o.fields = p.mem[a].fields
    PROVE  /\ Heap(q) /\ q.sz = p.sz /\ q.idx = p.idx
           /\ DOMAIN q.mem = DOMAIN p.mem /\ q.mem[a] = o
           /\ \A b \in DOMAIN p.mem : b # a => q.mem[b] = p.mem[b]
           /\ \A b \in DOMAIN p.mem :
                 q.mem[b].tag = p.mem[b].tag /\ q.mem[b].id = p.mem[b].id
                 /\ q.mem[b].fields = p.mem[b].fields /\ q.mem[b].bytes = p.mem[b].bytes
<1>1. GoodPool(p) /\ IsPool(p)
  BY DEF Heap, GoodPool
<1>2. /\ GoodPool(q) /\ q.sz = p.sz /\ q.idx = p.idx
      /\ DOMAIN q.mem = DOMAIN p.mem /\ q.mem[a] = o
      /\ \A b \in DOMAIN p.mem : b # a => q.mem[b] = p.mem[b]
      /\ \A b \in DOMAIN p.mem :
            q.mem[b].tag = p.mem[b].tag /\ q.mem[b].id = p.mem[b].id
            /\ Len(q.mem[b].fields) = Len(p.mem[b].fields) /\ q.mem[b].bytes = p.mem[b].bytes
  BY <1>1, Replacing
<1>3. \A b \in DOMAIN p.mem : q.mem[b].fields = p.mem[b].fields
  BY <1>2
<1>4. BoxesFlat(q)
  <2>1. ASSUME NEW b \in DOMAIN p.mem, p.mem[b].tag = "box"
        PROVE  NotBox(p.mem[b].fields[1], q)
    <3>1. Len(p.mem[b].fields) = 1 /\ DOMAIN p.mem[b].fields = 1 .. Len(p.mem[b].fields)
      BY <1>1, <2>1, PoolObj DEF GoodPool, Formed
    <3>2. Valid(p.mem[b].fields[1], p) /\ NotBox(p.mem[b].fields[1], p)
      BY <2>1, <3>1 DEF Heap, Closed, BoxesFlat
    <3>3. QED
      BY <1>2, <3>2 DEF Valid, NotBox
  <2>2. QED
    BY <1>2, <1>3, <2>1 DEF BoxesFlat
<1>5. Heap(q)
  BY <1>2, <1>3, <1>4 DEF Heap, Roomy, UniqueIds, Closed, Valid
<1>6. QED
  BY <1>2, <1>3, <1>5

\* closure_to_continuation changes nothing that the collector looks at.
LEMMA MarkKeeps ==
    ASSUME AtRest, NEW a \in Held, MarkContinuation(a)
    PROVE  AtRest'
<1> DEFINE old == working.mem[a]
           o   == [old EXCEPT !.cont = TRUE]
<1>1. Heap(working) /\ IsPool(working)
  BY DEF AtRest, Heap, GoodPool
<1>2. a \in DOMAIN working.mem /\ old.tag = "closure"
  BY HeldFacts DEF MarkContinuation, TagOf, Valid
<1>3. old \in Obj
  BY <1>1, <1>2, PoolObj
<1>4. /\ o \in Obj /\ o.tag = old.tag /\ o.id = old.id /\ o.fref = old.fref /\ o.fields = old.fields
      /\ o.bytes = old.bytes
  BY <1>3 DEF Obj
<1>5. Formed(o)
  BY <1>2, <1>4 DEF Formed
<1>6. working' = [sz |-> working.sz, idx |-> working.idx, mem |-> [working.mem EXCEPT ![a] = o]]
  <2>1. working = [sz |-> working.sz, idx |-> working.idx, mem |-> working.mem]
    BY <1>1 DEF IsPool, PoolRec
  <2>2. working' = [working EXCEPT !.mem = [working.mem EXCEPT ![a] = o]]
    BY DEF MarkContinuation
  <2> HIDE DEF o
  <2>3. QED
    BY <2>1, <2>2
<1> HIDE DEF o
<1>7. Replaced(working, a, o, working')
  BY <1>2, <1>4, <1>5, <1>6 DEF Replaced
<1>8. /\ Heap(working') /\ DOMAIN working'.mem = DOMAIN working.mem /\ working'.mem[a] = o
      /\ \A b \in DOMAIN working.mem : b # a => working'.mem[b] = working.mem[b]
  BY <1>1, <1>4, <1>7, SameFields
<1>9. \A u : Valid(u, working) => Valid(u, working')
  BY <1>8 DEF Valid
<1>10. Unforwarded(working')
  BY <1>2, <1>4, <1>8 DEF AtRest, Unforwarded
<1>11. QED
  BY <1>8, <1>9, <1>10
     DEF AtRest, RootTypes, RootsValid, LocalsValid, MarkContinuation, Running

\* TAIL_CALL: what it leaves on the argument stack is valid.
LEMMA TailCallKeeps ==
    ASSUME AtRest, NEW v \in Held, TailCall(v)
    PROVE  AtRest'
<1> DEFINE proc == Flat(v)
           kept == IF IsRef(proc) /\ working.mem[proc].cont
                   THEN SubSeq(args, 1, Len(args) - 1) ELSE args
<1>1. proc \in Val /\ Valid(proc, working)
  BY HeldFacts, FlatFacts
<1>2. /\ args \in Seq(Val) /\ Len(args) \in Nat /\ Len(args) <= ArgStackLen /\ DOMAIN args = 1 .. Len(args)
      /\ \A i \in DOMAIN args : Valid(args[i], working)
  BY ArgsFacts DEF AtRest, RootTypes, RootsValid
<1>3. kept \in Seq(Val) /\ Len(kept) <= ArgStackLen /\ \A i \in DOMAIN kept : Valid(kept[i], working)
  <2>1. CASE IsRef(proc) /\ working.mem[proc].cont
    <3>1. args # <<>> /\ kept = SubSeq(args, 1, Len(args) - 1)
      BY <2>1 DEF TailCall
    <3>2. /\ kept \in Seq(Val) /\ Len(kept) = Len(args) - 1 /\ DOMAIN kept = 1 .. Len(args) - 1
          /\ \A i \in 1 .. Len(args) - 1 : kept[i] = args[i]
      <4> HIDE DEF kept
      <4>1. QED
        BY <1>2, <3>1, FrontFacts
    <3> HIDE DEF kept
    <3>3. QED
      BY <1>2, <3>2, HeapAssumption
  <2>2. CASE ~(IsRef(proc) /\ working.mem[proc].cont)
    BY <1>2, <2>2
  <2>3. QED
    BY <2>1, <2>2
<1>4. args' = IF kept = <<>> THEN <<VOID>> ELSE kept
  BY DEF TailCall, Passed
<1> HIDE DEF kept
<1>5. args' \in Seq(Val) /\ Len(args') <= ArgStackLen /\ \A i \in DOMAIN args' : Valid(args'[i], working)
  <2>1. CASE kept = <<>>
    <3>1. args' = <<VOID>>
      BY <1>4, <2>1
    <3>2. args' \in Seq(Val) /\ Len(args') = 1 /\ DOMAIN args' = {1} /\ args'[1] = VOID
      BY <3>1, ValFacts
    <3>3. QED
      BY <3>2, ValFacts, HeapAssumption DEF Valid
  <2>2. CASE kept # <<>>
    BY <1>3, <1>4, <2>2
  <2>3. QED
    BY <2>1, <2>2
<1>6. /\ self' = proc /\ locals' = {} /\ phase' \in {"enter", "run"}
      /\ UNCHANGED <<working, todo, threshold, interned>>
  BY DEF TailCall
<1> HIDE DEF proc
<1>7. self' \in Val /\ Valid(self', working) /\ locals' \subseteq Val /\ \A u \in locals' : Valid(u, working)
  BY <1>1, <1>6
<1>8. QED
  BY <1>5, <1>6, <1>7, RootStep
-----------------------------------------------------------------------------
(* cons_rest.                                                              *)

\* A list of n new pairs in a pool that extends the heap.
ListIn(c, n) ==
    /\ Heap(c.pool) /\ Unforwarded(c.pool) /\ Extends(c.pool, working)
    /\ Cardinality(DOMAIN c.pool.mem) = Cardinality(DOMAIN working.mem) + n
    /\ c.list \in Val /\ Valid(c.list, c.pool)

LEMMA ConsOntoFacts ==
    ASSUME AtRest, NEW c, NEW n \in Nat, ListIn(c, n),
           Cardinality(DOMAIN working.mem) + n < MaxObjs,
           NEW v \in Val, Valid(v, working)
    PROVE  ListIn(ConsOnto(c, v), n + 1)
<1> DEFINE p == c.pool
           fields == <<v, c.list>>
           o == Object("pair", FreshId(p), fields, 0)
           q == Alloc(p, o)
<1>1. /\ Heap(p) /\ GoodPool(p) /\ Unforwarded(p) /\ Extends(p, working)
      /\ Cardinality(DOMAIN p.mem) = Cardinality(DOMAIN working.mem) + n
      /\ c.list \in Val /\ Valid(c.list, p) /\ GoodPool(working)
  BY DEF ListIn, Heap, AtRest
<1>2. IsFiniteSet(DOMAIN p.mem) /\ Cardinality(DOMAIN working.mem) \in Nat
  BY <1>1, DomainFinite
<1>3. FreshId(p) \in 1 .. MaxObjs /\ FreshId(p) \notin Ids(p)
  BY <1>1, FreshIdFacts
<1>4. fields \in Seq(Val) /\ Len(fields) = 2 /\ DOMAIN fields = 1 .. 2 /\ fields[1] = v /\ fields[2] = c.list
  BY <1>1
<1>5. Valid(v, p)
  BY <1>1 DEF Valid, Extends
<1>6. \A f \in DOMAIN fields : Valid(fields[f], p)
  BY <1>1, <1>4, <1>5
<1> HIDE DEF fields
<1>7. /\ o \in Obj /\ o.tag = "pair" /\ o.id = FreshId(p) /\ o.fields = fields /\ o.fref = 0 /\ ~o.cont
      /\ o.bytes = 0
  BY <1>3, <1>4 DEF Object, Obj, Tags
<1> HIDE DEF o
<1>8. Formed(o)
  BY <1>4, <1>7 DEF Formed
<1>9. Fits(p, o) /\ o.id \notin Ids(p) /\ o.tag # "box"
  <2>1. Header["pair"] = 1
    BY DEF Header
  <2>2. AllocSize(o) <= PageSz + 1
    <3>1. Len(o.fields) = 2 /\ Header[o.tag] = 1 /\ o.bytes = 0 /\ o.tag # "closure"
      BY <1>4, <1>7, <2>1
    <3>2. AllocSize(o) = 3
      BY <3>1 DEF AllocSize, Size
    <3>3. QED
      BY <3>2, HeapAssumption
  <2> HIDE DEF p
  <2>3. Fits(p, o)
    BY <1>1, <1>7, <2>2, SmallFits
  <2>4. QED
    BY <1>3, <1>7, <2>3
<1>10. /\ Heap(q) /\ p.idx \notin DOMAIN p.mem /\ p.idx \in Nat
       /\ DOMAIN q.mem = DOMAIN p.mem \cup {p.idx}
       /\ q.mem[p.idx] = o
       /\ \A b \in DOMAIN p.mem : q.mem[b] = p.mem[b]
  <2> HIDE DEF p
  <2>1. \A f \in DOMAIN o.fields : Valid(o.fields[f], p)
    BY <1>6, <1>7
  <2>2. QED
    BY <1>1, <1>7, <1>8, <1>9, <2>1, Allocating
<1>11. Cardinality(DOMAIN q.mem) = Cardinality(DOMAIN working.mem) + (n + 1)
  <2> HIDE DEF p, q
  <2>1. Cardinality(DOMAIN p.mem \cup {p.idx}) = Cardinality(DOMAIN p.mem) + 1
    BY <1>2, <1>10, FS_AddElement
  <2>2. QED
    BY <1>1, <1>2, <1>10, <2>1
<1>12. Unforwarded(q) /\ Extends(q, working)
  BY <1>1, <1>7, <1>10 DEF Unforwarded, Extends
<1>13. p.idx \in Val /\ Valid(p.idx, q)
  BY <1>10 DEF Val, Valid
<1>14. ConsOnto(c, v).pool = q /\ ConsOnto(c, v).list = p.idx
  BY DEF ConsOnto, o, fields
<1> HIDE DEF p, q
<1>15. QED
  BY <1>10, <1>11, <1>12, <1>13, <1>14 DEF ListIn

\* The recursion of ConsedArgs has a solution.
LEMMA ConsedArgsDef ==
    ASSUME Len(args) \in Nat
    PROVE  ConsedArgs = [n \in 0 .. Len(args) |->
               IF n = 0 THEN [pool |-> working, list |-> VOID] ELSE ConsOnto(ConsedArgs[n - 1], args[n])]
<1> DEFINE none == [pool |-> working, list |-> VOID]
           Unsolved(k) == \A g : g # [n \in 0 .. k |-> IF n = 0 THEN none ELSE ConsOnto(g[n - 1], args[n])]
           T == {k \in Nat : Unsolved(k)}
<1>1. T = {}
  <2>1. SUFFICES ASSUME T # {} PROVE FALSE
    OBVIOUS
  <2>2. PICK k \in T : \A j \in T : k <= j
    BY <2>1, LeastNat
  <2> HIDE DEF none
  <2>3. CASE k = 0
    <3> DEFINE g == [n \in 0 .. 0 |-> none]
    <3>1. g = [n \in 0 .. 0 |-> IF n = 0 THEN none ELSE ConsOnto(g[n - 1], args[n])]
      OBVIOUS
    <3>2. QED
      BY <2>3, <3>1
  <2>4. CASE k > 0
    <3>1. k \in Nat /\ k - 1 \in Nat /\ ~Unsolved(k - 1)
      <4> HIDE DEF Unsolved
      <4>1. k \in Nat /\ k - 1 \in Nat /\ ~(k <= k - 1)
        BY <2>2, <2>4
      <4>2. QED
        BY <2>2, <4>1
    <3>2. PICK g : g = [n \in 0 .. k - 1 |-> IF n = 0 THEN none ELSE ConsOnto(g[n - 1], args[n])]
      BY <3>1
    <3> DEFINE h == [n \in 0 .. k |-> IF n = k THEN ConsOnto(g[k - 1], args[k]) ELSE g[n]]
    <3>3. \A n \in 0 .. k : h[n] = IF n = 0 THEN none ELSE ConsOnto(h[n - 1], args[n])
      <4>1. TAKE n \in 0 .. k
      <4>2. CASE n = k
        BY <2>4, <3>1, <4>2
      <4>3. CASE n # k
        <5>1. n \in 0 .. k - 1 /\ h[n] = g[n]
          BY <3>1, <4>3
        <5>2. g[n] = IF n = 0 THEN none ELSE ConsOnto(g[n - 1], args[n])
          BY <3>2, <5>1
        <5>3. n # 0 => h[n - 1] = g[n - 1]
          BY <3>1, <5>1
        <5> HIDE DEF h
        <5>4. QED
          BY <5>1, <5>2, <5>3
      <4>4. QED
        BY <4>2, <4>3
    <3>4. h = [n \in 0 .. k |-> IF n = 0 THEN none ELSE ConsOnto(h[n - 1], args[n])]
      BY <3>3
    <3>5. ~Unsolved(k)
      <4> HIDE DEF h
      <4>1. QED
        BY <3>4
    <3>6. QED
      BY <2>2, <3>5
  <2>5. QED
    BY <2>2, <2>3, <2>4
<1>2. \E g : g = [n \in 0 .. Len(args) |-> IF n = 0 THEN none ELSE ConsOnto(g[n - 1], args[n])]
  BY <1>1
<1>3. QED
  BY <1>2 DEF ConsedArgs

LEMMA ConsRestKeeps ==
    ASSUME AtRest, ConsRest
    PROVE  AtRest'
<1>1. /\ Len(args) \in Nat /\ DOMAIN args = 1 .. Len(args)
      /\ \A i \in 1 .. Len(args) : args[i] \in Val /\ Valid(args[i], working)
  BY ArgsFacts DEF AtRest, RootsValid
<1>2. /\ Heap(working) /\ GoodPool(working) /\ Unforwarded(working)
      /\ Cardinality(DOMAIN working.mem) \in Nat
      /\ Cardinality(DOMAIN working.mem) + Len(args) <= MaxObjs
  BY DomainFinite DEF AtRest, Heap, ConsRest, Room
<1>3. ConsedArgs[0] = [pool |-> working, list |-> VOID]
      /\ \A n \in 1 .. Len(args) : ConsedArgs[n] = ConsOnto(ConsedArgs[n - 1], args[n])
  BY <1>1, ConsedArgsDef
<1>4. ListIn(ConsedArgs[0], 0)
  BY <1>2, <1>3, ValFacts DEF ListIn, Extends, Valid
<1> DEFINE T == {n \in 0 .. Len(args) : ~ListIn(ConsedArgs[n], n)}
<1>5. T = {}
  <2>1. SUFFICES ASSUME T # {} PROVE FALSE
    OBVIOUS
  <2>2. PICK n \in T : \A j \in T : n <= j
    <3>1. T \subseteq Nat
      BY <1>1
    <3> HIDE DEF T
    <3>2. QED
      BY <2>1, <3>1, LeastNat
  <2>3. n \in 1 .. Len(args) /\ n - 1 \in Nat /\ n - 1 \in 0 .. Len(args) /\ n - 1 \notin T
    BY <1>1, <1>4, <2>2
  <2>4. ListIn(ConsedArgs[n - 1], n - 1)
    BY <2>3
  <2>5. Cardinality(DOMAIN working.mem) + (n - 1) < MaxObjs
    BY <1>1, <1>2, <2>3, HeapAssumption
  <2>6. ListIn(ConsOnto(ConsedArgs[n - 1], args[n]), (n - 1) + 1)
    BY <1>1, <2>3, <2>4, <2>5, ConsOntoFacts
  <2>7. QED
    BY <1>3, <2>2, <2>3, <2>6
<1>6. ListIn(ConsedArgs[Len(args)], Len(args))
  BY <1>1, <1>5
<1> DEFINE c == ConsedArgs[Len(args)]
<1>7. /\ working' = c.pool /\ locals' = locals \cup {c.list} /\ args' = <<>>
      /\ UNCHANGED <<todo, threshold, phase, interned, self>> /\ phase = "run"
  BY DEF ConsRest, Hold, Running
<1> HIDE DEF c
<1>8. /\ Heap(working') /\ Unforwarded(working') /\ Extends(working', working)
      /\ c.list \in Val /\ Valid(c.list, working')
  BY <1>6, <1>7 DEF ListIn, c
<1>9. \A v : Valid(v, working) => Valid(v, working')
  BY <1>8 DEF Valid, Extends
<1>10. RootTypes'
  <2>1. <<>> \in Seq(Val) /\ Len(<<>>) = 0 /\ 0 <= ArgStackLen
    BY HeapAssumption
  <2>2. QED
    BY <1>7, <1>8, <2>1 DEF AtRest, RootTypes
<1>11. RootsValid(working)' /\ LocalsValid(working)'
  BY <1>7, <1>8, <1>9 DEF AtRest, RootsValid, LocalsValid
<1>12. QED
  BY <1>7, <1>8, <1>10, <1>11 DEF AtRest
-----------------------------------------------------------------------------
(* A collection.  W and F are the old and the new space, T the cells that  *)
(* have yet to be visited, and I, A and S what the roots hold: the interned*)
(* constants, the arguments and self.                                      *)

Cell == {"interned", "arg", "self", "field"} \X Nat \X Nat

IsCell(c, F, I, A) ==
    \/ \E i \in DOMAIN I : c = InternCell(i)
    \/ \E i \in DOMAIN A : c = ArgCell(i)
    \/ c = SelfCell
    \/ \E b \in DOMAIN F.mem : \E f \in DOMAIN F.mem[b].fields : c = FieldCell(b, f)

\* The space that the value of the cell c refers to.
Home(c, T, W, F) == IF c \in T THEN W ELSE F

\* The object at b in F is the copy of the one at a in W.
IsCopy(a, b, W, F) ==
    /\ b \in DOMAIN F.mem
    /\ F.mem[b].id = W.mem[a].id /\ F.mem[b].tag = W.mem[a].tag
    /\ Len(F.mem[b].fields) = Len(W.mem[a].fields)

\* The words of the objects that have been copied.
CopiedWords(W) ==
    {w \in 1 .. W.idx - 1 : \E a \in DOMAIN W.mem :
        W.mem[a].fref # 0 /\ a <= w /\ w < a + Size(W.mem[a])}

\* Every object is copied once, and the copies take the words of the originals.
Spaces(W, F) ==
    /\ Heap(W) /\ GoodPool(F) /\ F.sz = W.sz /\ Unforwarded(F)
    /\ \A a \in DOMAIN W.mem : W.mem[a].fref # 0 => IsCopy(a, W.mem[a].fref, W, F)
    /\ \A b \in DOMAIN F.mem : \E a \in DOMAIN W.mem : W.mem[a].fref = b
    /\ Cardinality(CopiedWords(W)) = F.idx - 1

RootsHome(W, F, T, I, A, S) ==
    /\ \A i \in DOMAIN I : Valid(I[i], Home(InternCell(i), T, W, F))
    /\ \A i \in DOMAIN A : Valid(A[i], Home(ArgCell(i), T, W, F))
    /\ Valid(S, Home(SelfCell, T, W, F))

FieldsHome(W, F, T) ==
    \A b \in DOMAIN F.mem : \A f \in DOMAIN F.mem[b].fields :
        Valid(F.mem[b].fields[f], Home(FieldCell(b, f), T, W, F))

BoxesHome(W, F, T) ==
    \A b \in DOMAIN F.mem :
        F.mem[b].tag = "box" => NotBox(F.mem[b].fields[1], Home(FieldCell(b, 1), T, W, F))

Copying(W, F, T, I, A, S) ==
    /\ Spaces(W, F)
    /\ \A c \in T : IsCell(c, F, I, A)
    /\ I \in Seq(Val) /\ A \in Seq(Val) /\ S \in Val
    /\ RootsHome(W, F, T, I, A, S) /\ FieldsHome(W, F, T) /\ BoxesHome(W, F, T)

\* A collection is going on.
Collecting ==
    /\ RootTypes /\ locals = {}
    /\ todo \in Seq(Cell) /\ Injective(todo)
    /\ Copying(working, free, Todo, interned, args, self)

\* The inductive invariant.
HeapInv ==
    /\ phase \in {"enter", "gc", "run"}
    /\ phase # "gc" => AtRest
    /\ phase = "gc" => Collecting

\* The four kinds of cells are told apart.
LEMMA CellFacts ==
    /\ \A i, j : InternCell(i) = InternCell(j) => i = j
    /\ \A i, j : ArgCell(i) = ArgCell(j) => i = j
    /\ \A a, f, b, g : FieldCell(a, f) = FieldCell(b, g) => a = b /\ f = g
    /\ \A i, j : InternCell(i) # ArgCell(j)
    /\ \A i : InternCell(i) # SelfCell /\ ArgCell(i) # SelfCell
    /\ \A a, f, i : FieldCell(a, f) # InternCell(i) /\ FieldCell(a, f) # ArgCell(i)
    /\ \A a, f : FieldCell(a, f) # SelfCell
    /\ \A i \in Nat : InternCell(i) \in Cell /\ ArgCell(i) \in Cell
    /\ \A a, f \in Nat : FieldCell(a, f) \in Cell
    /\ SelfCell \in Cell
BY DEF InternCell, ArgCell, SelfCell, FieldCell, Cell

\* v has been copied: W1 is W with its forwarding reference, P is F with the copy.
Copied(W, F, v, W1, P) ==
    /\ v \in DOMAIN W.mem /\ W.mem[v].fref = 0
    /\ W1 = [W EXCEPT !.mem[v].fref = F.idx]
    /\ P = [sz |-> F.sz, idx |-> F.idx + Size(W.mem[v]), mem |-> At(F.mem, F.idx, W.mem[v])]

LEMMA ForwardFacts ==
    ASSUME NEW W, NEW F, Spaces(W, F), NEW v, NEW W1, NEW P, Copied(W, F, v, W1, P)
    PROVE  /\ Heap(W1) /\ W1.sz = W.sz /\ W1.idx = W.idx
           /\ DOMAIN W1.mem = DOMAIN W.mem /\ W1.mem[v].fref = F.idx
           /\ \A a \in DOMAIN W.mem : a # v => W1.mem[a] = W.mem[a]
           /\ \A a \in DOMAIN W.mem :
                 W1.mem[a].tag = W.mem[a].tag /\ W1.mem[a].id = W.mem[a].id
                 /\ W1.mem[a].fields = W.mem[a].fields /\ W1.mem[a].cont = W.mem[a].cont
                 /\ W1.mem[a].bytes = W.mem[a].bytes
<1> DEFINE old == W.mem[v]
           o   == [old EXCEPT !.fref = F.idx]
<1>1. /\ Heap(W) /\ GoodPool(W) /\ IsPool(W) /\ F.idx \in Nat
      /\ v \in DOMAIN W.mem /\ W1 = [W EXCEPT !.mem[v].fref = F.idx]
  BY DEF Spaces, Copied, Heap, GoodPool, IsPool
<1>2. old \in Obj /\ Formed(old)
  BY <1>1, PoolObj DEF GoodPool
<1>3. /\ o \in Obj /\ o.tag = old.tag /\ o.id = old.id /\ o.fields = old.fields
      /\ o.cont = old.cont /\ o.fref = F.idx /\ o.bytes = old.bytes
  BY <1>1, <1>2 DEF Obj
<1>4. Formed(o)
  BY <1>2, <1>3 DEF Formed
<1>5. W1 = [sz |-> W.sz, idx |-> W.idx, mem |-> [W.mem EXCEPT ![v] = o]]
  <2>1. W = [sz |-> W.sz, idx |-> W.idx, mem |-> W.mem]
    BY <1>1 DEF IsPool, PoolRec
  <2>2. W1 = [W EXCEPT !.mem = [W.mem EXCEPT ![v] = o]]
    BY <1>1
  <2> HIDE DEF o
  <2>3. QED
    BY <2>1, <2>2
<1> HIDE DEF o
<1>6. Replaced(W, v, o, W1)
  BY <1>1, <1>3, <1>4, <1>5 DEF Replaced
<1>7. QED
  BY <1>1, <1>3, <1>6, SameFields

\* The words of the copies fit into the words of the originals.
LEMMA WordsFacts ==
    ASSUME NEW W, NEW F, Spaces(W, F), NEW v, NEW W1, NEW P, Copied(W, F, v, W1, P)
    PROVE  /\ Cardinality(CopiedWords(W1)) = F.idx - 1 + Size(W.mem[v])
           /\ F.idx + Size(W.mem[v]) <= W.idx
<1> DEFINE n == Size(W.mem[v])
           new == v .. v + n - 1
<1>1. /\ GoodPool(W) /\ IsPool(W) /\ Layout(W) /\ W.idx \in Nat /\ W.idx >= 1 /\ v \in DOMAIN W.mem
      /\ W.mem[v].fref = 0 /\ F.idx \in Nat /\ F.idx >= 1
      /\ Cardinality(CopiedWords(W)) = F.idx - 1
  BY DEF Spaces, Heap, GoodPool, IsPool, Layout, Copied
<1>2. \A a \in DOMAIN W.mem : a \in Nat /\ Size(W.mem[a]) \in Nat /\ Size(W.mem[a]) >= 1
  BY <1>1, PoolObj
<1>3. \A a \in DOMAIN W.mem :
         /\ a >= 1 /\ a + Size(W.mem[a]) <= W.idx
         /\ \A b \in DOMAIN W.mem : a < b => a + Size(W.mem[a]) <= b
  BY <1>1 DEF Layout
<1>4. /\ W1.idx = W.idx /\ DOMAIN W1.mem = DOMAIN W.mem /\ W1.mem[v].fref # 0
      /\ \A a \in DOMAIN W.mem : a # v => W1.mem[a] = W.mem[a]
      /\ \A a \in DOMAIN W.mem : Size(W1.mem[a]) = Size(W.mem[a])
  BY <1>1, ForwardFacts DEF Size
<1>5. v \in Nat /\ n \in Nat /\ n >= 1 /\ v >= 1 /\ v + n <= W.idx
  BY <1>1, <1>2, <1>3
<1>6. CopiedWords(W1) = CopiedWords(W) \cup new
  <2>1. ASSUME NEW w \in CopiedWords(W1) PROVE w \in CopiedWords(W) \cup new
    <3>1. w \in 1 .. W.idx - 1
      BY <1>4 DEF CopiedWords
    <3>2. PICK a \in DOMAIN W.mem : W1.mem[a].fref # 0 /\ a <= w /\ w < a + Size(W.mem[a])
      BY <1>4 DEF CopiedWords
    <3>3. CASE a = v
      BY <1>5, <3>1, <3>2, <3>3
    <3>4. CASE a # v
      BY <1>4, <3>1, <3>2, <3>4 DEF CopiedWords
    <3>5. QED
      BY <3>3, <3>4
  <2>2. ASSUME NEW w \in CopiedWords(W) PROVE w \in CopiedWords(W1)
    <3>1. w \in 1 .. W1.idx - 1
      BY <1>4 DEF CopiedWords
    <3>2. PICK a \in DOMAIN W.mem : W.mem[a].fref # 0 /\ a <= w /\ w < a + Size(W.mem[a])
      BY DEF CopiedWords
    <3>3. a # v /\ W1.mem[a] = W.mem[a]
      BY <1>1, <1>4, <3>2
    <3>4. QED
      BY <1>4, <3>1, <3>2, <3>3 DEF CopiedWords
  <2>3. ASSUME NEW w \in new PROVE w \in CopiedWords(W1)
    <3>1. w \in 1 .. W1.idx - 1 /\ v <= w /\ w < v + n
      BY <1>1, <1>4, <1>5
    <3>2. v \in DOMAIN W1.mem /\ W1.mem[v].fref # 0 /\ Size(W1.mem[v]) = n
      BY <1>1, <1>4
    <3> HIDE DEF n
    <3>3. QED
      BY <3>1, <3>2 DEF CopiedWords
  <2>4. QED
    BY <2>1, <2>2, <2>3
<1>7. CopiedWords(W) \cap new = {}
  <2>1. SUFFICES ASSUME NEW w \in CopiedWords(W), w \in new PROVE FALSE
    OBVIOUS
  <2>2. PICK a \in DOMAIN W.mem : W.mem[a].fref # 0 /\ a <= w /\ w < a + Size(W.mem[a])
    BY <2>1 DEF CopiedWords
  <2>3. w \in Nat /\ v <= w /\ w < v + n /\ a # v
    BY <1>1, <1>5, <2>1, <2>2
  <2>4. a \in Nat /\ Size(W.mem[a]) \in Nat
    BY <1>2
  <2>5. CASE a < v
    BY <1>1, <1>3, <1>5, <2>2, <2>3, <2>4, <2>5
  <2>6. CASE v < a
    BY <1>1, <1>3, <1>5, <2>2, <2>3, <2>4, <2>6
  <2>7. QED
    BY <1>5, <2>3, <2>4, <2>5, <2>6
<1> HIDE DEF n, new
<1>8. IsFiniteSet(new) /\ Cardinality(new) = n
  <2>1. v \in Int /\ v + n - 1 \in Int /\ ~(v > v + n - 1) /\ (v + n - 1) - v + 1 = n
    BY <1>5
  <2>2. QED
    BY <2>1, FS_Interval DEF new
<1>9. IsFiniteSet(1 .. W.idx - 1) /\ Cardinality(1 .. W.idx - 1) = W.idx - 1
  <2>1. 1 \in Int /\ W.idx - 1 \in Int /\ (IF 1 > W.idx - 1 THEN 0 ELSE W.idx - 1 - 1 + 1) = W.idx - 1
    BY <1>1
  <2>2. QED
    BY <2>1, FS_Interval
<1>10. CopiedWords(W) \in SUBSET (1 .. W.idx - 1) /\ CopiedWords(W1) \in SUBSET (1 .. W.idx - 1)
  BY <1>4 DEF CopiedWords
<1>11. IsFiniteSet(CopiedWords(W)) /\ Cardinality(CopiedWords(W1)) <= W.idx - 1
  <2> DEFINE all == 1 .. W.idx - 1
  <2>1. IsFiniteSet(all) /\ CopiedWords(W) \in SUBSET all /\ CopiedWords(W1) \in SUBSET all
    BY <1>9, <1>10
  <2>2. Cardinality(all) = W.idx - 1
    BY <1>9
  <2> HIDE DEF all
  <2>3. IsFiniteSet(CopiedWords(W)) /\ Cardinality(CopiedWords(W1)) <= Cardinality(all)
    BY <2>1, FS_Subset
  <2>4. QED
    BY <2>2, <2>3
<1>12. Cardinality(CopiedWords(W1)) = F.idx - 1 + n
  <2>1. Cardinality({}) = 0
    BY FS_EmptySet
  <2>2. Cardinality(CopiedWords(W) \cup new)
          = Cardinality(CopiedWords(W)) + Cardinality(new) - Cardinality(CopiedWords(W) \cap new)
    BY <1>8, <1>11, FS_Union
  <2>3. Cardinality(CopiedWords(W) \cap new) = 0
    BY <1>7, <2>1
  <2>4. Cardinality(CopiedWords(W1)) = Cardinality(CopiedWords(W) \cup new)
    BY <1>6
  <2>5. Cardinality(CopiedWords(W1)) = (F.idx - 1) + n - 0
    BY <1>1, <1>8, <2>2, <2>3, <2>4
  <2>6. QED
    BY <1>1, <1>5, <2>5
<1>13. QED
  BY <1>1, <1>5, <1>11, <1>12 DEF n
\* The copy lies at the allocation index of the new space.
LEMMA CopySpaces ==
    ASSUME NEW W, NEW F, Spaces(W, F), NEW v, NEW W1, NEW P, Copied(W, F, v, W1, P)
    PROVE  /\ Spaces(W1, P)
           /\ F.idx \in Nat /\ F.idx \notin DOMAIN F.mem
           /\ DOMAIN P.mem = DOMAIN F.mem \cup {F.idx}
           /\ P.mem[F.idx] = W.mem[v]
           /\ \A b \in DOMAIN F.mem : P.mem[b] = F.mem[b]
<1> DEFINE o == W.mem[v]
<1>1. /\ Heap(W) /\ GoodPool(W) /\ IsPool(W) /\ W.idx <= W.sz /\ W.sz \in Nat /\ W.idx \in Nat
      /\ GoodPool(F) /\ IsPool(F) /\ F.sz = W.sz /\ F.idx \in Nat /\ F.idx >= 1 /\ Unforwarded(F)
      /\ v \in DOMAIN W.mem /\ o.fref = 0
      /\ P = [sz |-> F.sz, idx |-> F.idx + Size(o), mem |-> At(F.mem, F.idx, o)]
  BY DEF Spaces, Heap, GoodPool, IsPool, Layout, Copied
<1>2. o \in Obj /\ Formed(o) /\ Size(o) \in Nat
  BY <1>1, PoolObj DEF GoodPool
<1>3. Cardinality(CopiedWords(W1)) = F.idx - 1 + Size(o) /\ F.idx + Size(o) <= W.idx
  BY WordsFacts
<1>4. /\ Heap(W1) /\ W1.sz = W.sz /\ W1.idx = W.idx
      /\ DOMAIN W1.mem = DOMAIN W.mem /\ W1.mem[v].fref = F.idx
      /\ \A a \in DOMAIN W.mem : a # v => W1.mem[a] = W.mem[a]
      /\ \A a \in DOMAIN W.mem :
            W1.mem[a].tag = W.mem[a].tag /\ W1.mem[a].id = W.mem[a].id
            /\ W1.mem[a].fields = W.mem[a].fields
  BY ForwardFacts
<1>5. PoolRec(P) /\ P.sz = F.sz /\ P.idx = F.idx + Size(o) /\ P.mem = At(F.mem, F.idx, o)
  BY <1>1 DEF PoolRec
<1> HIDE DEF o
<1>6. Placed(F, o, Size(o), P)
  <2>1. P.sz \in Nat /\ P.idx <= P.sz /\ Size(o) <= Size(o)
    BY <1>1, <1>2, <1>3, <1>5
  <2>2. QED
    BY <1>2, <1>5, <2>1 DEF Placed
<1>7. /\ GoodPool(P) /\ F.idx \notin DOMAIN F.mem /\ F.idx \in Nat
      /\ DOMAIN P.mem = DOMAIN F.mem \cup {F.idx}
      /\ P.mem[F.idx] = o
      /\ \A b \in DOMAIN F.mem : P.mem[b] = F.mem[b]
  <2>1. GoodPool(F)
    BY <1>1
  <2>2. QED
    BY <1>6, <2>1, Placing
<1>8. Unforwarded(P)
  BY <1>1, <1>7 DEF Unforwarded
<1>9. \A a \in DOMAIN W1.mem : W1.mem[a].fref # 0 => IsCopy(a, W1.mem[a].fref, W1, P)
  <2>1. IsCopy(v, F.idx, W1, P)
    BY <1>1, <1>4, <1>7 DEF IsCopy, o
  <2>2. ASSUME NEW a \in DOMAIN W.mem, a # v, W.mem[a].fref # 0
        PROVE  IsCopy(a, W.mem[a].fref, W1, P)
    <3>1. IsCopy(a, W.mem[a].fref, W, F)
      BY <2>2 DEF Spaces
    <3>2. QED
      BY <1>4, <1>7, <2>2, <3>1 DEF IsCopy
  <2>3. QED
    BY <1>4, <2>1, <2>2
<1>10. \A b \in DOMAIN P.mem : \E a \in DOMAIN W1.mem : W1.mem[a].fref = b
  <2>1. ASSUME NEW b \in DOMAIN F.mem
        PROVE  \E a \in DOMAIN W1.mem : W1.mem[a].fref = b
    <3>1. b >= 1
      BY <1>1 DEF GoodPool, Layout
    <3>2. PICK a \in DOMAIN W.mem : W.mem[a].fref = b
      BY DEF Spaces
    <3>3. a # v
      BY <1>1, <3>1, <3>2 DEF o
    <3>4. QED
      BY <1>4, <3>2, <3>3
  <2>2. QED
    BY <1>1, <1>4, <1>7, <2>1
<1>11. Cardinality(CopiedWords(W1)) = P.idx - 1
  BY <1>1, <1>2, <1>3, <1>5
<1>12. Spaces(W1, P)
  BY <1>1, <1>4, <1>5, <1>7, <1>8, <1>9, <1>10, <1>11 DEF Spaces
<1>13. QED
  BY <1>7, <1>12 DEF o

\* The first field of a box.
LEMMA BoxField ==
    ASSUME NEW p, GoodPool(p), NEW a \in DOMAIN p.mem, p.mem[a].tag = "box"
    PROVE  DOMAIN p.mem[a].fields = {1}
<1>1. Len(p.mem[a].fields) = 1 /\ DOMAIN p.mem[a].fields = 1 .. Len(p.mem[a].fields)
  BY PoolObj DEF GoodPool, Formed
<1>2. QED
  BY <1>1

NewCells(b, n) == {FieldCell(b, f) : f \in 1 .. n}

\* Copying an object adds its cells to those that have yet to be visited.
LEMMA CopyStage ==
    ASSUME NEW W, NEW F, NEW T, NEW I, NEW A, NEW S, Copying(W, F, T, I, A, S),
           NEW v, NEW W1, NEW P, Copied(W, F, v, W1, P),
           NEW N, N = NewCells(F.idx, Len(W.mem[v].fields))
    PROVE  Copying(W1, P, T \cup N, I, A, S) /\ T \cap N = {}
<1>1. Spaces(W, F) /\ Heap(W) /\ GoodPool(W) /\ IsPool(W) /\ GoodPool(F) /\ v \in DOMAIN W.mem
  BY DEF Copying, Spaces, Heap, GoodPool, Copied
<1>2. /\ Spaces(W1, P) /\ F.idx \in Nat /\ F.idx \notin DOMAIN F.mem
      /\ DOMAIN P.mem = DOMAIN F.mem \cup {F.idx}
      /\ P.mem[F.idx] = W.mem[v]
      /\ \A b \in DOMAIN F.mem : P.mem[b] = F.mem[b]
  BY <1>1, CopySpaces
<1>3. /\ DOMAIN W1.mem = DOMAIN W.mem
      /\ \A a \in DOMAIN W.mem : W1.mem[a].tag = W.mem[a].tag
  BY <1>1, ForwardFacts
<1>4. DOMAIN W.mem[v].fields = 1 .. Len(W.mem[v].fields)
  BY <1>1, PoolObj
<1>5. \A c \in N : \E f \in DOMAIN W.mem[v].fields : c = FieldCell(F.idx, f)
  BY <1>4 DEF NewCells
<1>6. \A f \in DOMAIN W.mem[v].fields : FieldCell(F.idx, f) \in N
  BY <1>4 DEF NewCells
<1>7. /\ \A i : InternCell(i) \notin N /\ ArgCell(i) \notin N
      /\ SelfCell \notin N
      /\ \A b \in DOMAIN F.mem : \A f : FieldCell(b, f) \notin N
  BY <1>2, <1>5, CellFacts
<1>8. T \cap N = {}
  BY <1>7 DEF Copying, IsCell
<1>9. \A u, c : c \notin N /\ Valid(u, Home(c, T, W, F)) => Valid(u, Home(c, T \cup N, W1, P))
  BY <1>2, <1>3 DEF Home, Valid
<1>10. \A u, c : c \notin N /\ Valid(u, Home(c, T, W, F)) /\ NotBox(u, Home(c, T, W, F))
                  => NotBox(u, Home(c, T \cup N, W1, P))
  BY <1>2, <1>3 DEF Home, Valid, NotBox
<1>11. \A c \in T \cup N : IsCell(c, P, I, A)
  <2>1. \A c \in T : IsCell(c, P, I, A)
    BY <1>2 DEF Copying, IsCell
  <2>2. \A c \in N : IsCell(c, P, I, A)
    BY <1>2, <1>5 DEF IsCell
  <2>3. QED
    BY <2>1, <2>2
<1>12. RootsHome(W1, P, T \cup N, I, A, S)
  BY <1>7, <1>9 DEF Copying, RootsHome
<1>13. FieldsHome(W1, P, T \cup N)
  <2>1. ASSUME NEW b \in DOMAIN F.mem, NEW f \in DOMAIN F.mem[b].fields
        PROVE  Valid(F.mem[b].fields[f], Home(FieldCell(b, f), T \cup N, W1, P))
    BY <1>7, <1>9 DEF Copying, FieldsHome
  <2>2. ASSUME NEW f \in DOMAIN W.mem[v].fields
        PROVE  Valid(W.mem[v].fields[f], Home(FieldCell(F.idx, f), T \cup N, W1, P))
    <3>1. Valid(W.mem[v].fields[f], W)
      BY <1>1 DEF Heap, Closed
    <3>2. QED
      BY <1>3, <1>6, <3>1 DEF Home, Valid
  <2>3. QED
    BY <1>2, <2>1, <2>2 DEF FieldsHome
<1>14. BoxesHome(W1, P, T \cup N)
  <2>1. ASSUME NEW b \in DOMAIN F.mem, F.mem[b].tag = "box"
        PROVE  NotBox(F.mem[b].fields[1], Home(FieldCell(b, 1), T \cup N, W1, P))
    <3>1. 1 \in DOMAIN F.mem[b].fields
      BY <1>1, <2>1, BoxField
    <3>2. Valid(F.mem[b].fields[1], Home(FieldCell(b, 1), T, W, F))
      BY <3>1 DEF Copying, FieldsHome
    <3>3. NotBox(F.mem[b].fields[1], Home(FieldCell(b, 1), T, W, F))
      BY <2>1 DEF Copying, BoxesHome
    <3>4. QED
      BY <1>7, <1>10, <3>2, <3>3
  <2>2. ASSUME W.mem[v].tag = "box"
        PROVE  NotBox(W.mem[v].fields[1], Home(FieldCell(F.idx, 1), T \cup N, W1, P))
    <3>1. 1 \in DOMAIN W.mem[v].fields
      BY <1>1, <2>2, BoxField
    <3>2. Valid(W.mem[v].fields[1], W) /\ NotBox(W.mem[v].fields[1], W)
      BY <1>1, <2>2, <3>1 DEF Heap, Closed, BoxesFlat
    <3>3. QED
      BY <1>3, <1>6, <3>1, <3>2 DEF Home, Valid, NotBox
  <2>3. QED
    BY <1>2, <2>1, <2>2 DEF BoxesHome
<1>15. QED
  BY <1>2, <1>8, <1>11, <1>12, <1>13, <1>14 DEF Copying
\* A value whose object has been copied, and the address of the copy.
SettledIn(v, W) == IsRef(v) => W.mem[v].fref # 0

MovedIn(v, W) == IF IsRef(v) THEN W.mem[v].fref ELSE v

LEMMA MovedFacts ==
    ASSUME NEW W, NEW F, Spaces(W, F), NEW v \in Val, Valid(v, W), SettledIn(v, W)
    PROVE  /\ MovedIn(v, W) \in Val /\ Valid(MovedIn(v, W), F)
           /\ NotBox(v, W) => NotBox(MovedIn(v, W), F)
<1>1. CASE IsRef(v)
  <2> DEFINE b == W.mem[v].fref
  <2>1. v \in DOMAIN W.mem /\ b # 0 /\ MovedIn(v, W) = b
    BY <1>1 DEF Valid, SettledIn, MovedIn
  <2>2. IsPool(F)
    BY DEF Spaces, GoodPool
  <2>3. b \in DOMAIN F.mem /\ F.mem[b].tag = W.mem[v].tag
    BY <2>1 DEF Spaces, IsCopy
  <2>4. b \in Nat
    BY <2>2, <2>3, PoolObj
  <2> HIDE DEF b
  <2>5. QED
    BY <1>1, <2>1, <2>3, <2>4 DEF Val, Valid, NotBox
<1>2. CASE ~IsRef(v)
  BY <1>2 DEF MovedIn, Valid, NotBox
<1>3. QED
  BY <1>1, <1>2

\* Replacing an element of a sequence.
LEMMA ExceptFacts ==
    ASSUME NEW R, NEW s \in Seq(R), NEW i \in DOMAIN s, NEW e \in R, NEW t, t = [s EXCEPT ![i] = e]
    PROVE  /\ t \in Seq(R) /\ Len(t) = Len(s) /\ DOMAIN t = DOMAIN s /\ t[i] = e
           /\ \A j \in DOMAIN s : j # i => t[j] = s[j]
OBVIOUS

\* The value of a root is replaced by the address of the copy.
LEMMA SettleIntern ==
    ASSUME NEW W, NEW F, NEW T, NEW I, NEW A, NEW S, Copying(W, F, T, I, A, S),
           NEW i \in DOMAIN I, InternCell(i) \in T, SettledIn(I[i], W),
           NEW I2, I2 = [I EXCEPT ![i] = MovedIn(I[i], W)]
    PROVE  Copying(W, F, T \ {InternCell(i)}, I2, A, S)
<1> DEFINE m == MovedIn(I[i], W)
           U == T \ {InternCell(i)}
<1>1. Spaces(W, F) /\ I \in Seq(Val) /\ I[i] \in Val /\ Valid(I[i], W)
  BY DEF Copying, RootsHome, Home
<1>2. m \in Val /\ Valid(m, F)
  BY <1>1, MovedFacts
<1>3. I2 = [I EXCEPT ![i] = m]
  OBVIOUS
<1> HIDE DEF m
<1>4. /\ I2 \in Seq(Val) /\ DOMAIN I2 = DOMAIN I /\ I2[i] = m
      /\ \A j \in DOMAIN I : j # i => I2[j] = I[j]
  BY <1>1, <1>2, <1>3, ExceptFacts
<1>5. \A c : c # InternCell(i) => Home(c, U, W, F) = Home(c, T, W, F)
  BY DEF Home
<1>6. Home(InternCell(i), U, W, F) = F
  BY DEF Home
<1> HIDE DEF U
<1>7. RootsHome(W, F, U, I2, A, S)
  BY <1>2, <1>4, <1>5, <1>6, CellFacts DEF Copying, RootsHome
<1>8. FieldsHome(W, F, U) /\ BoxesHome(W, F, U)
  BY <1>5, CellFacts DEF Copying, FieldsHome, BoxesHome
<1>9. \A c \in U : IsCell(c, F, I2, A)
  BY <1>4 DEF Copying, IsCell, U
<1>10. QED
  BY <1>4, <1>7, <1>8, <1>9 DEF Copying, U

LEMMA SettleArg ==
    ASSUME NEW W, NEW F, NEW T, NEW I, NEW A, NEW S, Copying(W, F, T, I, A, S),
           NEW i \in DOMAIN A, ArgCell(i) \in T, SettledIn(A[i], W),
           NEW A2, A2 = [A EXCEPT ![i] = MovedIn(A[i], W)]
    PROVE  Copying(W, F, T \ {ArgCell(i)}, I, A2, S)
<1> DEFINE m == MovedIn(A[i], W)
           U == T \ {ArgCell(i)}
<1>1. Spaces(W, F) /\ A \in Seq(Val) /\ A[i] \in Val /\ Valid(A[i], W)
  BY DEF Copying, RootsHome, Home
<1>2. m \in Val /\ Valid(m, F)
  BY <1>1, MovedFacts
<1>3. A2 = [A EXCEPT ![i] = m]
  OBVIOUS
<1> HIDE DEF m
<1>4. /\ A2 \in Seq(Val) /\ DOMAIN A2 = DOMAIN A /\ A2[i] = m
      /\ \A j \in DOMAIN A : j # i => A2[j] = A[j]
  BY <1>1, <1>2, <1>3, ExceptFacts
<1>5. \A c : c # ArgCell(i) => Home(c, U, W, F) = Home(c, T, W, F)
  BY DEF Home
<1>6. Home(ArgCell(i), U, W, F) = F
  BY DEF Home
<1> HIDE DEF U
<1>7. RootsHome(W, F, U, I, A2, S)
  BY <1>2, <1>4, <1>5, <1>6, CellFacts DEF Copying, RootsHome
<1>8. FieldsHome(W, F, U) /\ BoxesHome(W, F, U)
  BY <1>5, CellFacts DEF Copying, FieldsHome, BoxesHome
<1>9. \A c \in U : IsCell(c, F, I, A2)
  BY <1>4 DEF Copying, IsCell, U
<1>10. QED
  BY <1>4, <1>7, <1>8, <1>9 DEF Copying, U

LEMMA SettleSelf ==
    ASSUME NEW W, NEW F, NEW T, NEW I, NEW A, NEW S, Copying(W, F, T, I, A, S),
           SelfCell \in T, SettledIn(S, W)
    PROVE  Copying(W, F, T \ {SelfCell}, I, A, MovedIn(S, W))
<1> DEFINE m == MovedIn(S, W)
           U == T \ {SelfCell}
<1>1. Spaces(W, F) /\ S \in Val /\ Valid(S, W)
  BY DEF Copying, RootsHome, Home
<1>2. m \in Val /\ Valid(m, F)
  BY <1>1, MovedFacts
<1>3. \A c : c # SelfCell => Home(c, U, W, F) = Home(c, T, W, F)
  BY DEF Home
<1>4. Home(SelfCell, U, W, F) = F
  BY DEF Home
<1>5. \A c \in U : IsCell(c, F, I, A)
  BY DEF Copying, U
<1> HIDE DEF m, U
<1>6. RootsHome(W, F, U, I, A, m)
  BY <1>2, <1>3, <1>4, CellFacts DEF Copying, RootsHome
<1>7. FieldsHome(W, F, U) /\ BoxesHome(W, F, U)
  BY <1>3, CellFacts DEF Copying, FieldsHome, BoxesHome
<1>8. QED
  BY <1>2, <1>5, <1>6, <1>7 DEF Copying, U, m

\* The same for a field of an object in the new space.
LEMMA SettleField ==
    ASSUME NEW W, NEW F, NEW T, NEW I, NEW A, NEW S, Copying(W, F, T, I, A, S),
           NEW b \in DOMAIN F.mem, NEW f \in DOMAIN F.mem[b].fields, FieldCell(b, f) \in T,
           SettledIn(F.mem[b].fields[f], W),
           NEW F2, FieldSet(F, b, f, MovedIn(F.mem[b].fields[f], W), F2)
    PROVE  Copying(W, F2, T \ {FieldCell(b, f)}, I, A, S)
<1> DEFINE m == MovedIn(F.mem[b].fields[f], W)
           c == FieldCell(b, f)
           U == T \ {c}
<1>1. Spaces(W, F) /\ Heap(W) /\ GoodPool(F) /\ IsPool(F)
  BY DEF Copying, Spaces, GoodPool
<1>2. F.mem[b].fields[f] \in Val /\ Valid(F.mem[b].fields[f], W)
  BY <1>1, PoolObj DEF Copying, FieldsHome, Home
<1>3. m \in Val /\ Valid(m, F) /\ (NotBox(F.mem[b].fields[f], W) => NotBox(m, F))
  BY <1>1, <1>2, MovedFacts
<1>4. FieldSet(F, b, f, m, F2)
  OBVIOUS
<1> HIDE DEF m
<1>5. PICK o : Replaced(F, b, o, F2) /\ FieldChanged(F, b, f, m, o)
  BY <1>1, <1>4, FieldUpdate
<1>6. /\ GoodPool(F2) /\ F2.sz = F.sz /\ F2.idx = F.idx
      /\ DOMAIN F2.mem = DOMAIN F.mem /\ F2.mem[b] = o
      /\ \A a \in DOMAIN F.mem : a # b => F2.mem[a] = F.mem[a]
      /\ \A a \in DOMAIN F.mem :
            F2.mem[a].tag = F.mem[a].tag /\ F2.mem[a].id = F.mem[a].id
            /\ Len(F2.mem[a].fields) = Len(F.mem[a].fields)
  BY <1>1, <1>5, Replacing
<1>7. \A a \in DOMAIN F.mem : DOMAIN F2.mem[a].fields = DOMAIN F.mem[a].fields
  BY <1>5, <1>6 DEF FieldChanged
<1>8. \A a \in DOMAIN F.mem : \A g \in DOMAIN F.mem[a].fields :
         F2.mem[a].fields[g] = IF a = b /\ g = f THEN m ELSE F.mem[a].fields[g]
  <2>1. /\ o.fields[f] = m /\ DOMAIN o.fields = DOMAIN F.mem[b].fields
        /\ \A g \in DOMAIN o.fields : g # f => o.fields[g] = F.mem[b].fields[g]
    BY <1>5 DEF FieldChanged
  <2>2. QED
    BY <1>6, <2>1
<1>9. Spaces(W, F2)
  <2>1. Unforwarded(F2)
    BY <1>1, <1>5, <1>6 DEF Spaces, Unforwarded, FieldChanged
  <2>2. \A a \in DOMAIN W.mem : W.mem[a].fref # 0 => IsCopy(a, W.mem[a].fref, W, F2)
    BY <1>1, <1>6 DEF Spaces, IsCopy
  <2>3. QED
    BY <1>1, <1>6, <2>1, <2>2 DEF Spaces
<1>10. /\ \A d, u : d # c /\ Valid(u, Home(d, T, W, F)) => Valid(u, Home(d, U, W, F2))
       /\ \A d, u : d # c /\ Valid(u, Home(d, T, W, F)) /\ NotBox(u, Home(d, T, W, F))
                       => NotBox(u, Home(d, U, W, F2))
  BY <1>6 DEF Home, Valid, NotBox
<1>11. Home(c, U, W, F2) = F2 /\ Home(c, T, W, F) = W
  BY DEF Home
<1>12. Valid(m, F2) /\ (NotBox(m, F) => NotBox(m, F2))
  BY <1>3, <1>6 DEF Valid, NotBox
<1>13. \A d \in U : IsCell(d, F2, I, A)
  BY <1>6, <1>7 DEF Copying, IsCell
<1>14. \A a, g : FieldCell(a, g) = c => a = b /\ g = f
  BY CellFacts
<1>15. \A i : InternCell(i) # c /\ ArgCell(i) # c /\ SelfCell # c
  BY CellFacts
<1> HIDE DEF U
<1>16. RootsHome(W, F2, U, I, A, S)
  BY <1>10, <1>15 DEF Copying, RootsHome
<1>17. FieldsHome(W, F2, U)
  <2>1. ASSUME NEW a \in DOMAIN F.mem, NEW g \in DOMAIN F.mem[a].fields
        PROVE  Valid(F2.mem[a].fields[g], Home(FieldCell(a, g), U, W, F2))
    <3>1. CASE a = b /\ g = f
      BY <1>8, <1>11, <1>12, <3>1
    <3>2. CASE ~(a = b /\ g = f)
      <4>1. Valid(F.mem[a].fields[g], Home(FieldCell(a, g), T, W, F))
        BY DEF Copying, FieldsHome
      <4>2. FieldCell(a, g) # c /\ F2.mem[a].fields[g] = F.mem[a].fields[g]
        BY <1>8, <1>14, <3>2
      <4> HIDE DEF c
      <4>3. QED
        BY <1>10, <4>1, <4>2
    <3>3. QED
      BY <3>1, <3>2
  <2>2. QED
    BY <1>6, <1>7, <2>1 DEF FieldsHome
<1>18. BoxesHome(W, F2, U)
  <2>1. ASSUME NEW a \in DOMAIN F.mem, F.mem[a].tag = "box"
        PROVE  NotBox(F2.mem[a].fields[1], Home(FieldCell(a, 1), U, W, F2))
    <3>1. 1 \in DOMAIN F.mem[a].fields
      BY <1>1, <2>1, BoxField
    <3>2. /\ Valid(F.mem[a].fields[1], Home(FieldCell(a, 1), T, W, F))
          /\ NotBox(F.mem[a].fields[1], Home(FieldCell(a, 1), T, W, F))
      BY <2>1, <3>1 DEF Copying, FieldsHome, BoxesHome
    <3>3. CASE a = b /\ 1 = f
      BY <1>3, <1>8, <1>11, <1>12, <3>1, <3>2, <3>3
    <3>4. CASE ~(a = b /\ 1 = f)
      <4>1. FieldCell(a, 1) # c /\ F2.mem[a].fields[1] = F.mem[a].fields[1]
        BY <1>8, <1>14, <3>1, <3>4
      <4> HIDE DEF c
      <4>2. QED
        BY <1>10, <3>2, <4>1
    <3>5. QED
      BY <3>3, <3>4
  <2>2. QED
    BY <1>6, <2>1 DEF BoxesHome
<1>19. QED
  BY <1>9, <1>13, <1>16, <1>17, <1>18 DEF Copying, U
\* The cell c holds v.
Holds(c, v, F, I, A, S) ==
    \/ \E i \in DOMAIN I : c = InternCell(i) /\ v = I[i]
    \/ \E i \in DOMAIN A : c = ArgCell(i) /\ v = A[i]
    \/ c = SelfCell /\ v = S
    \/ \E b \in DOMAIN F.mem : \E f \in DOMAIN F.mem[b].fields :
          c = FieldCell(b, f) /\ v = F.mem[b].fields[f]

\* The cell c is assigned m.
Written(c, m, F, I, A, S, F2, I2, A2, S2) ==
    /\ F2 = IF c[1] = "field" THEN [F EXCEPT !.mem[c[2]].fields[c[3]] = m] ELSE F
    /\ I2 = IF c[1] = "interned" THEN [I EXCEPT ![c[2]] = m] ELSE I
    /\ A2 = IF c[1] = "arg" THEN [A EXCEPT ![c[2]] = m] ELSE A
    /\ S2 = IF c[1] = "self" THEN m ELSE S

LEMMA HoldsFacts ==
    ASSUME NEW W, NEW F, NEW T, NEW I, NEW A, NEW S, Copying(W, F, T, I, A, S),
           NEW c \in T, NEW v, Holds(c, v, F, I, A, S)
    PROVE  v \in Val /\ Valid(v, W)
<1>1. IsPool(F) /\ I \in Seq(Val) /\ A \in Seq(Val) /\ S \in Val
  BY DEF Copying, Spaces, GoodPool
<1>2. ASSUME NEW i \in DOMAIN I, c = InternCell(i), v = I[i] PROVE v \in Val /\ Valid(v, W)
  BY <1>1, <1>2 DEF Copying, RootsHome, Home
<1>3. ASSUME NEW i \in DOMAIN A, c = ArgCell(i), v = A[i] PROVE v \in Val /\ Valid(v, W)
  BY <1>1, <1>3 DEF Copying, RootsHome, Home
<1>4. ASSUME c = SelfCell, v = S PROVE v \in Val /\ Valid(v, W)
  BY <1>1, <1>4 DEF Copying, RootsHome, Home
<1>5. ASSUME NEW b \in DOMAIN F.mem, NEW f \in DOMAIN F.mem[b].fields,
             c = FieldCell(b, f), v = F.mem[b].fields[f]
      PROVE  v \in Val /\ Valid(v, W)
  BY <1>1, <1>5, PoolObj DEF Copying, FieldsHome, Home
<1>6. QED
  BY <1>2, <1>3, <1>4, <1>5 DEF Holds

\* What scm_collect_value does once the object is copied: the cell is visited.
LEMMA SettleStage ==
    ASSUME NEW W, NEW F, NEW T, NEW I, NEW A, NEW S, Copying(W, F, T, I, A, S),
           NEW c \in T, NEW v, Holds(c, v, F, I, A, S), SettledIn(v, W),
           NEW F2, NEW I2, NEW A2, NEW S2, Written(c, MovedIn(v, W), F, I, A, S, F2, I2, A2, S2)
    PROVE  Copying(W, F2, T \ {c}, I2, A2, S2) /\ Len(A2) = Len(A)
<1> DEFINE m == MovedIn(v, W)
<1>0. m \in Val /\ A \in Seq(Val)
  BY HoldsFacts, MovedFacts DEF Copying
<1>1. ASSUME NEW i \in DOMAIN I, c = InternCell(i), v = I[i]
      PROVE  Copying(W, F2, T \ {c}, I2, A2, S2) /\ Len(A2) = Len(A)
  <2>1. c[1] = "interned" /\ c[2] = i
    BY <1>1 DEF InternCell
  <2>2. F2 = F /\ I2 = [I EXCEPT ![i] = MovedIn(I[i], W)] /\ A2 = A /\ S2 = S
    BY <1>1, <2>1 DEF Written
  <2>3. QED
    BY <1>1, <2>2, SettleIntern
<1>2. ASSUME NEW i \in DOMAIN A, c = ArgCell(i), v = A[i]
      PROVE  Copying(W, F2, T \ {c}, I2, A2, S2) /\ Len(A2) = Len(A)
  <2>1. c[1] = "arg" /\ c[2] = i
    BY <1>2 DEF ArgCell
  <2>2. F2 = F /\ I2 = I /\ A2 = [A EXCEPT ![i] = MovedIn(A[i], W)] /\ S2 = S
    BY <1>2, <2>1 DEF Written
  <2>3. Len(A2) = Len(A)
    BY <1>0, <1>2, <2>2, ExceptFacts
  <2>4. QED
    BY <1>2, <2>2, <2>3, SettleArg
<1>3. ASSUME c = SelfCell, v = S
      PROVE  Copying(W, F2, T \ {c}, I2, A2, S2) /\ Len(A2) = Len(A)
  <2>1. c[1] = "self"
    BY <1>3 DEF SelfCell
  <2>2. F2 = F /\ I2 = I /\ A2 = A /\ S2 = MovedIn(S, W)
    BY <1>3, <2>1 DEF Written
  <2>3. QED
    BY <1>3, <2>2, SettleSelf
<1>4. ASSUME NEW b \in DOMAIN F.mem, NEW f \in DOMAIN F.mem[b].fields,
             c = FieldCell(b, f), v = F.mem[b].fields[f]
      PROVE  Copying(W, F2, T \ {c}, I2, A2, S2) /\ Len(A2) = Len(A)
  <2>1. c[1] = "field" /\ c[2] = b /\ c[3] = f
    BY <1>4 DEF FieldCell
  <2>2. F2 = [F EXCEPT !.mem[b].fields[f] = m] /\ I2 = I /\ A2 = A /\ S2 = S
    BY <2>1 DEF Written
  <2>3. FieldSet(F, b, f, m, F2)
    BY <1>0, <2>2 DEF FieldSet
  <2>4. FieldSet(F, b, f, MovedIn(F.mem[b].fields[f], W), F2)
    BY <1>4, <2>3
  <2>5. I2 = I /\ A2 = A /\ S2 = S
    BY <2>2
  <2>6. Copying(W, F2, T \ {c}, I, A, S)
    BY <1>4, <2>4, SettleField
  <2>7. QED
    BY <2>5, <2>6
<1>5. QED
  BY <1>1, <1>2, <1>3, <1>4 DEF Holds

\* Every cell that is to be visited holds its CellValue.
LEMMA CellValueHeld ==
    ASSUME NEW c, IsCell(c, free, interned, args)
    PROVE  Holds(c, CellValue(c), free, interned, args, self)
<1>1. ASSUME NEW i \in DOMAIN interned, c = InternCell(i) PROVE CellValue(c) = interned[i]
  BY <1>1 DEF CellValue, InternCell
<1>2. ASSUME NEW i \in DOMAIN args, c = ArgCell(i) PROVE CellValue(c) = args[i]
  BY <1>2 DEF CellValue, ArgCell
<1>3. ASSUME c = SelfCell PROVE CellValue(c) = self
  BY <1>3 DEF CellValue, SelfCell
<1>4. ASSUME NEW b \in DOMAIN free.mem, NEW f \in DOMAIN free.mem[b].fields, c = FieldCell(b, f)
      PROVE  CellValue(c) = free.mem[b].fields[f]
  BY <1>4 DEF CellValue, FieldCell
<1>5. QED
  BY <1>1, <1>2, <1>3, <1>4 DEF IsCell, Holds

\* A step of the collector.
LEMMA CollectKeeps ==
    ASSUME Collecting, phase = "gc", CollectValue
    PROVE  Collecting'
<1> DEFINE c == Head(todo)
           v == CellValue(c)
           m == Moved(v)
           I == interned
           A == args
           S == self
<1>1. /\ todo \in Seq(Cell) /\ todo # <<>> /\ Injective(todo) /\ Todo = Elements(todo)
      /\ Copying(working, free, Todo, I, A, S) /\ Len(args) <= ArgStackLen
  BY DEF Collecting, CollectValue, Todo, Elements, RootTypes
<1>2. /\ c \in Todo /\ Tail(todo) \in Seq(Cell) /\ Injective(Tail(todo))
      /\ Elements(Tail(todo)) = Todo \ {c}
  BY <1>1, TailInjective
<1>3. Holds(c, v, free, I, A, S)
  BY <1>1, <1>2, CellValueHeld DEF Copying
<1>4. v \in Val /\ Valid(v, working)
  BY <1>1, <1>2, <1>3, HoldsFacts
<1>5. /\ Copying(working', free', Todo', interned', args', self') /\ Len(args') = Len(args)
      /\ todo' \in Seq(Cell) /\ Injective(todo')
  <2>1. CASE Settled(v)
    <3>1. /\ working' = working /\ todo' = Tail(todo)
          /\ Written(c, m, free, I, A, S, free', interned', args', self')
      BY <2>1 DEF CollectValue, Written
    <3>2. SettledIn(v, working) /\ m = MovedIn(v, working)
      BY <2>1 DEF Settled, SettledIn, Moved, MovedIn
    <3>3. Todo' = Todo \ {c}
      BY <1>2, <3>1 DEF Todo, Elements
    <3>4. Written(c, MovedIn(v, working), free, I, A, S, free', interned', args', self')
      BY <3>1, <3>2
    <3> HIDE DEF c, v, m
    <3>5. Copying(working, free', Todo \ {c}, interned', args', self') /\ Len(args') = Len(args)
      BY <1>1, <1>2, <1>3, <3>2, <3>4, SettleStage
    <3>6. QED
      BY <1>2, <3>1, <3>3, <3>5
  <2>2. CASE ~Settled(v)
    <3> DEFINE o == working.mem[v]
               P == CopyMem(o)
               N == NewCells(free.idx, Len(o.fields))
               new == FieldCells(o)
    <3>1. IsRef(v) /\ v \in DOMAIN working.mem /\ o.fref = 0
      BY <1>4, <2>2 DEF Settled, Valid
    <3>2. /\ working' = [working EXCEPT !.mem[v].fref = free.idx] /\ todo' = new \o Tail(todo)
          /\ Written(c, m, P, I, A, S, free', interned', args', self')
      BY <2>2 DEF CollectValue, Written
    <3>3. Copied(working, free, v, working', P)
      BY <3>1, <3>2 DEF Copied, CopyMem
    <3>4. m = free.idx
      BY <2>2, <3>1 DEF Moved
    <3> HIDE DEF c, v, m, P, N
    <3>5. Spaces(working, free)
      BY <1>1 DEF Copying
    <3>6. Copying(working', P, Todo \cup N, I, A, S) /\ Todo \cap N = {}
      <4>1. N = NewCells(free.idx, Len(working.mem[v].fields))
        BY DEF N
      <4>2. QED
        BY <1>1, <3>3, <4>1, CopyStage
    <3>7. /\ free.idx \in Nat /\ free.idx \notin DOMAIN free.mem
          /\ DOMAIN P.mem = DOMAIN free.mem \cup {free.idx}
          /\ \A b \in DOMAIN free.mem : P.mem[b] = free.mem[b]
      BY <3>3, <3>5, CopySpaces
    <3>8. working'.mem[v].fref = free.idx /\ free.idx # 0
      <4>1. free.idx >= 1
        BY <3>5 DEF Spaces, GoodPool, Layout
      <4>2. QED
        BY <3>3, <3>5, <3>7, <4>1, ForwardFacts
    <3>9. SettledIn(v, working') /\ m = MovedIn(v, working')
      BY <3>1, <3>4, <3>8 DEF SettledIn, MovedIn
    <3>10. Holds(c, v, P, I, A, S)
      BY <1>3, <3>7 DEF Holds
    <3>11. Written(c, MovedIn(v, working'), P, I, A, S, free', interned', args', self')
      BY <3>2, <3>9
    <3>12. Copying(working', free', (Todo \cup N) \ {c}, interned', args', self') /\ Len(args') = Len(args)
      BY <1>2, <3>6, <3>9, <3>10, <3>11, SettleStage
    <3>13. Len(o.fields) \in Nat
      <4>1. IsPool(working)
        BY <3>5 DEF Spaces, Heap, GoodPool
      <4>2. QED
        BY <3>1, <4>1, PoolObj, SizeFacts
    <3>14. new \in Seq(Cell) /\ Injective(new) /\ Elements(new) = N
      <4>1. \A f \in 1 .. Len(o.fields) : FieldCell(free.idx, f) \in Cell
        BY <3>7, <3>13, CellFacts
      <4>2. new \in [1 .. Len(o.fields) -> Cell]
        BY <4>1 DEF FieldCells
      <4>3. new \in Seq(Cell) /\ DOMAIN new = 1 .. Len(o.fields)
        BY <3>13, <4>2, FunctionIsSeq
      <4>4. Injective(new)
        BY <4>3, CellFacts DEF Injective, FieldCells
      <4>5. Elements(new) = N
        BY <4>3 DEF Elements, FieldCells, N, NewCells
      <4>6. QED
        BY <4>3, <4>4, <4>5
    <3> HIDE DEF new, o
    <3>15. /\ todo' \in Seq(Cell) /\ Injective(todo')
           /\ Elements(todo') = N \cup (Todo \ {c})
      <4> DEFINE rest == Tail(todo)
      <4>1. rest \in Seq(Cell) /\ Injective(rest) /\ Elements(rest) = Todo \ {c} /\ todo' = new \o rest
        BY <1>2, <3>2
      <4> HIDE DEF rest
      <4>2. Elements(new) \cap Elements(rest) = {}
        BY <3>6, <3>14, <4>1
      <4>3. /\ new \o rest \in Seq(Cell) /\ Injective(new \o rest)
            /\ Elements(new \o rest) = Elements(new) \cup Elements(rest)
        BY <3>14, <4>1, <4>2, ConcatInjective
      <4>4. QED
        BY <3>14, <4>1, <4>3
    <3>16. Todo' = (Todo \cup N) \ {c}
      BY <1>2, <3>6, <3>15 DEF Todo, Elements
    <3>17. QED
      BY <3>12, <3>15, <3>16
  <2>3. QED
    BY <2>1, <2>2
<1>6. locals' = {} /\ threshold' \in Nat
  BY DEF CollectValue, Collecting, RootTypes
<1>7. args' \in Seq(Val) /\ interned' \in Seq(Val) /\ self' \in Val
  BY <1>5 DEF Copying
<1>8. RootTypes'
  BY <1>1, <1>5, <1>6, <1>7 DEF RootTypes
<1>9. QED
  BY <1>5, <1>6, <1>8 DEF Collecting
LEMMA EmptyPoolFacts ==
    ASSUME NEW sz \in Nat, sz >= 1
    PROVE  /\ GoodPool(EmptyPool(sz)) /\ DOMAIN EmptyPool(sz).mem = {}
           /\ EmptyPool(sz).sz = sz /\ EmptyPool(sz).idx = 1
<1> DEFINE p == EmptyPool(sz)
<1>1. PoolRec(p) /\ p.sz = sz /\ p.idx = 1 /\ p.mem = <<>>
  BY DEF EmptyPool, PoolRec
<1>2. DOMAIN p.mem = {} /\ p.mem \in [DOMAIN p.mem -> Obj]
  BY <1>1
<1> HIDE DEF p
<1>3. IsPool(p) /\ Layout(p)
  BY <1>1, <1>2 DEF IsPool, Layout
<1>4. GoodPool(p)
  BY <1>2, <1>3 DEF GoodPool
<1>5. QED
  BY <1>1, <1>2, <1>4 DEF p

\* The roots: every cell outside the heap, once.
LEMMA RootsFacts ==
    ASSUME RootTypes
    PROVE  /\ Roots \in Seq(Cell) /\ Injective(Roots)
           /\ \A c \in Elements(Roots) : IsCell(c, EmptyPool(working.sz), interned, args)
           /\ \A i \in DOMAIN interned : InternCell(i) \in Elements(Roots)
           /\ \A i \in DOMAIN args : ArgCell(i) \in Elements(Roots)
           /\ SelfCell \in Elements(Roots)
<1> DEFINE ic == [i \in 1 .. Len(interned) |-> InternCell(i)]
           ac == [i \in 1 .. Len(args) |-> ArgCell(i)]
           sc == <<SelfCell>>
<1>1. /\ Len(args) \in Nat /\ DOMAIN args = 1 .. Len(args)
      /\ Len(interned) \in Nat /\ DOMAIN interned = 1 .. Len(interned)
  BY ArgsFacts
<1>2. ic \in Seq(Cell) /\ DOMAIN ic = DOMAIN interned /\ \A i \in DOMAIN ic : ic[i] = InternCell(i)
  <2>1. ic \in [1 .. Len(interned) -> Cell]
    BY <1>1, CellFacts
  <2>2. QED
    BY <1>1, <2>1, FunctionIsSeq
<1>3. ac \in Seq(Cell) /\ DOMAIN ac = DOMAIN args /\ \A i \in DOMAIN ac : ac[i] = ArgCell(i)
  <2>1. ac \in [1 .. Len(args) -> Cell]
    BY <1>1, CellFacts
  <2>2. QED
    BY <1>1, <2>1, FunctionIsSeq
<1>4. sc \in Seq(Cell) /\ DOMAIN sc = {1} /\ sc[1] = SelfCell
  BY CellFacts
<1>5. Roots = (ic \o ac) \o sc
  BY DEF Roots
<1> HIDE DEF ic, ac, sc
<1>6. Injective(ic) /\ Injective(ac) /\ Injective(sc)
  BY <1>2, <1>3, <1>4, CellFacts DEF Injective
<1>7. Elements(ic) \cap Elements(ac) = {}
  BY <1>2, <1>3, CellFacts DEF Elements
<1> DEFINE both == ic \o ac
<1>8. both \in Seq(Cell) /\ Injective(both) /\ Elements(both) = Elements(ic) \cup Elements(ac)
  BY <1>2, <1>3, <1>6, <1>7, ConcatInjective
<1>9. Roots = both \o sc
  BY <1>5
<1> HIDE DEF both
<1>10. Elements(both) \cap Elements(sc) = {}
  <2>1. \A c \in Elements(ic) : c # SelfCell
    BY <1>2, CellFacts DEF Elements
  <2>2. \A c \in Elements(ac) : c # SelfCell
    BY <1>3, CellFacts DEF Elements
  <2>3. \A c \in Elements(sc) : c = SelfCell
    BY <1>4 DEF Elements
  <2>4. QED
    BY <1>8, <2>1, <2>2, <2>3
<1>11. Roots \in Seq(Cell) /\ Injective(Roots) /\ Elements(Roots) = Elements(both) \cup Elements(sc)
  BY <1>4, <1>6, <1>8, <1>9, <1>10, ConcatInjective
<1>12. \A c \in Elements(Roots) : IsCell(c, EmptyPool(working.sz), interned, args)
  BY <1>2, <1>3, <1>4, <1>8, <1>11 DEF Elements, IsCell
<1>13. /\ \A i \in DOMAIN interned : InternCell(i) \in Elements(Roots)
       /\ \A i \in DOMAIN args : ArgCell(i) \in Elements(Roots)
       /\ SelfCell \in Elements(Roots)
  BY <1>2, <1>3, <1>4, <1>8, <1>11 DEF Elements
<1>14. QED
  BY <1>11, <1>12, <1>13

\* scm_chk_heap at the entry of a function.
LEMMA EnterKeeps ==
    ASSUME AtRest, Enter
    PROVE  (phase' = "run" /\ AtRest') \/ (phase' = "gc" /\ Collecting')
<1>1. phase = "enter" /\ locals = {} /\ RootTypes /\ UNCHANGED <<working, threshold, interned, args, self, locals>>
  BY DEF Enter, AtRest
<1>2. CASE phase' = "run" /\ UNCHANGED <<free, todo, cycles>>
  BY <1>1, <1>2 DEF AtRest, RootTypes, RootsValid, LocalsValid, Unforwarded
<1>3. CASE phase' = "gc" /\ free' = EmptyPool(working.sz) /\ todo' = Roots
  <2> DEFINE W == working
             F == EmptyPool(working.sz)
             T == Elements(Roots)
  <2>1. /\ Heap(W) /\ Unforwarded(W) /\ RootsValid(W) /\ GoodPool(W) /\ W.sz \in Nat /\ W.sz >= 1
    BY HeapAssumption DEF AtRest, Heap, Roomy, GoodPool, IsPool
  <2>2. GoodPool(F) /\ DOMAIN F.mem = {} /\ F.sz = W.sz /\ F.idx = 1
    BY <2>1, EmptyPoolFacts
  <2>3. /\ Roots \in Seq(Cell) /\ Injective(Roots)
        /\ \A c \in T : IsCell(c, F, interned, args)
        /\ \A i \in DOMAIN interned : InternCell(i) \in T
        /\ \A i \in DOMAIN args : ArgCell(i) \in T
        /\ SelfCell \in T
    BY <1>1, RootsFacts
  <2>4. Todo' = T
    BY <1>3 DEF Todo, Elements
  <2> HIDE DEF F, T
  <2>5. Spaces(W, F)
    <3>1. Cardinality(CopiedWords(W)) = 0
      <4>1. CopiedWords(W) = {}
        BY <2>1 DEF CopiedWords, Unforwarded
      <4>2. QED
        BY <4>1, FS_EmptySet
    <3>2. QED
      BY <2>1, <2>2, <3>1 DEF Spaces, Unforwarded
  <2>6. RootsHome(W, F, T, interned, args, self)
    BY <2>1, <2>3 DEF RootsHome, RootsValid, Home
  <2>7. FieldsHome(W, F, T) /\ BoxesHome(W, F, T)
    BY <2>2 DEF FieldsHome, BoxesHome
  <2>8. Copying(W, F, T, interned, args, self)
    BY <1>1, <2>3, <2>5, <2>6, <2>7 DEF Copying, RootTypes
  <2>9. free' = F
    BY <1>3 DEF F
  <2>10. Copying(working, free, Todo, interned, args, self)'
    BY <1>1, <2>4, <2>8, <2>9
  <2>11. RootTypes'
    BY <1>1 DEF RootTypes
  <2>12. QED
    BY <1>1, <1>3, <2>3, <2>10, <2>11 DEF Collecting
<1>4. QED
  BY <1>2, <1>3 DEF Enter, NewSpace

\* The copies of a space whose identities are unique have unique identities.
LEMMA CopiesUnique ==
    ASSUME NEW W, NEW F, Spaces(W, F)
    PROVE  UniqueIds(F)
<1>1. SUFFICES ASSUME NEW a \in DOMAIN F.mem, NEW b \in DOMAIN F.mem, F.mem[a].id = F.mem[b].id
               PROVE  a = b
  BY DEF UniqueIds
<1>2. PICK x \in DOMAIN W.mem : W.mem[x].fref = a
  BY DEF Spaces
<1>3. PICK y \in DOMAIN W.mem : W.mem[y].fref = b
  BY DEF Spaces
<1>4. a # 0 /\ b # 0
  BY DEF Spaces, GoodPool, Layout
<1>5. F.mem[a].id = W.mem[x].id /\ F.mem[b].id = W.mem[y].id
  BY <1>2, <1>3, <1>4 DEF Spaces, IsCopy
<1>6. x = y
  BY <1>1, <1>5 DEF Spaces, Heap, UniqueIds
<1>7. QED
  BY <1>2, <1>3, <1>6

\* The copies take no more words than the originals, and leave as much room.
LEMMA CopiesFit ==
    ASSUME NEW W, NEW F, Spaces(W, F)
    PROVE  Roomy(F)
<1>1. /\ W.idx \in Nat /\ W.idx >= 1 /\ W.idx <= W.sz /\ W.sz \in Nat /\ Roomy(W)
      /\ F.idx \in Nat /\ F.sz = W.sz /\ Cardinality(CopiedWords(W)) = F.idx - 1
  BY DEF Spaces, Heap, GoodPool, IsPool, Layout
<1>2. CopiedWords(W) \in SUBSET (1 .. W.idx - 1)
  BY DEF CopiedWords
<1>3. IsFiniteSet(1 .. W.idx - 1) /\ Cardinality(1 .. W.idx - 1) = W.idx - 1
  <2>1. 1 \in Int /\ W.idx - 1 \in Int /\ (1 > W.idx - 1 => W.idx - 1 = 0) /\ W.idx - 1 - 1 + 1 = W.idx - 1
    BY <1>1
  <2>2. QED
    BY <2>1, FS_Interval
<1>4. Cardinality(CopiedWords(W)) <= W.idx - 1
  BY <1>2, <1>3, FS_Subset
<1>5. QED
  BY <1>1, <1>4, HeapAssumption DEF Roomy

\* The end of a collection: what has been copied is a heap.
LEMMA FinishKeeps ==
    ASSUME Collecting, Finish
    PROVE  AtRest'
<1>1. /\ todo = <<>> /\ working' = free /\ threshold' = free.idx /\ phase' = "run"
      /\ UNCHANGED <<todo, interned, args, self, locals>>
  BY DEF Finish
<1>2. Todo = {}
  BY <1>1 DEF Todo
<1>3. /\ Spaces(working, free) /\ RootsHome(working, free, {}, interned, args, self)
      /\ FieldsHome(working, free, {}) /\ BoxesHome(working, free, {})
  BY <1>2 DEF Collecting, Copying
<1>4. /\ GoodPool(free) /\ IsPool(free) /\ Unforwarded(free) /\ Heap(working)
      /\ free.idx \in Nat
  <2>1. GoodPool(free) /\ Unforwarded(free) /\ Heap(working)
    BY <1>3 DEF Spaces
  <2>2. QED
    BY <2>1 DEF GoodPool, IsPool
<1>room. Roomy(free)
  BY <1>3, CopiesFit
<1>5. \A c : Home(c, {}, working, free) = free
  BY DEF Home
<1>6. UniqueIds(free)
  BY <1>3, CopiesUnique
<1>7. Closed(free) /\ BoxesFlat(free)
  BY <1>3, <1>5 DEF FieldsHome, BoxesHome, Closed, BoxesFlat
<1>8. RootsValid(free)
  BY <1>3, <1>5 DEF RootsHome, RootsValid
<1>9. Heap(free)
  BY <1>4, <1>room, <1>6, <1>7 DEF Heap
<1>10. Heap(working') /\ Unforwarded(working') /\ RootsValid(working)' /\ LocalsValid(working)'
  BY <1>1, <1>4, <1>8, <1>9 DEF RootsValid, LocalsValid, Collecting
<1>11. RootTypes'
  BY <1>1, <1>4 DEF Collecting, RootTypes
<1>12. QED
  BY <1>1, <1>10, <1>11 DEF AtRest
-----------------------------------------------------------------------------
(* load_dynamic and trampoline.                                            *)

\* An object without references is allocated before the program starts.
Loads(p, tag, id, fields, q) ==
    /\ Heap(p) /\ Unforwarded(p)
    /\ tag \in Tags \ {"box"} /\ id \in 1 .. 4 /\ id \notin Ids(p)
    /\ fields \in Seq({VOID}) /\ Len(fields) <= 2 /\ (tag = "pair" => Len(fields) = 2)
    /\ tag = "closure" => Len(fields) = 0
    /\ q = Alloc(p, Object(tag, id, fields, 0))

LEMMA LoadAlloc ==
    ASSUME NEW p, NEW tag, NEW id, NEW fields, NEW q, Loads(p, tag, id, fields, q)
    PROVE  /\ Heap(q) /\ Unforwarded(q) /\ Ids(q) = Ids(p) \cup {id}
           /\ p.idx \in Nat /\ DOMAIN q.mem = DOMAIN p.mem \cup {p.idx}
<1> DEFINE o == Object(tag, id, fields, 0)
<1>0. /\ Heap(p) /\ Unforwarded(p)
      /\ tag \in Tags \ {"box"} /\ id \in 1 .. 4 /\ id \notin Ids(p)
      /\ fields \in Seq({VOID}) /\ Len(fields) <= 2 /\ (tag = "pair" => Len(fields) = 2)
      /\ tag = "closure" => Len(fields) = 0
  BY DEF Loads
<1>1. fields \in Seq(Val) /\ \A f \in DOMAIN fields : fields[f] = VOID
  BY <1>0, ValFacts
<1>2. /\ o \in Obj /\ o.tag = tag /\ o.id = id /\ o.fields = fields /\ o.fref = 0 /\ ~o.cont
      /\ o.bytes = 0
  BY <1>0, <1>1, HeapAssumption DEF Object, Obj
<1>3. q = Alloc(p, o)
  BY DEF Loads
<1> HIDE DEF o
<1>4. Formed(o)
  BY <1>0, <1>2 DEF Formed
<1>5. /\ Fits(p, o) /\ o.id \notin Ids(p) /\ o.tag # "box"
      /\ \A f \in DOMAIN o.fields : Valid(o.fields[f], p)
  <2>1. Len(fields) \in Nat
    BY <1>0
  <2>2. Header[tag] \in 1 .. 3 /\ (tag # "closure" => Header[tag] <= 2)
    BY <1>0 DEF Header, Tags
  <2>3. AllocSize(o) <= PageSz + 1
    BY <1>0, <1>2, <2>1, <2>2, HeapAssumption DEF AllocSize, Size
  <2>4. Fits(p, o)
    BY <1>0, <1>2, <2>3, SmallFits
  <2>5. QED
    BY <1>0, <1>1, <1>2, <2>4, ValFacts DEF Valid
<1>6. /\ Heap(q) /\ p.idx \notin DOMAIN p.mem /\ p.idx \in Nat
      /\ DOMAIN q.mem = DOMAIN p.mem \cup {p.idx}
      /\ q.mem[p.idx] = o
      /\ \A b \in DOMAIN p.mem : q.mem[b] = p.mem[b]
  BY <1>0, <1>2, <1>3, <1>4, <1>5, Allocating
<1>7. Unforwarded(q)
  BY <1>0, <1>2, <1>6 DEF Unforwarded
<1>8. Ids(q) = Ids(p) \cup {id}
  BY <1>2, <1>6 DEF Ids
<1>9. QED
  BY <1>6, <1>7, <1>8

LEMMA InitAtRest ==
    ASSUME Init
    PROVE  AtRest /\ phase = "enter"
<1> DEFINE none      == EmptyPool(PageSz)
           constants == IF Interning THEN Alloc(none, Object("pair", 4, <<VOID, VOID>>, 0)) ELSE none
           entry     == Alloc(constants, Object("closure", 1, <<>>, 0))
           module    == Alloc(entry, Object("vector", 2, <<VOID>>, 0))
           all       == Alloc(module, Object("closure", 3, <<>>, 0))
<1>1. /\ working = all /\ interned = (IF Interning THEN <<1>> ELSE <<>>)
      /\ self = constants.idx /\ args = <<entry.idx, module.idx>>
      /\ locals = {} /\ todo = <<>> /\ threshold = 0 /\ phase = "enter"
  BY DEF Init
<1>2. /\ {"pair", "closure", "vector"} \subseteq Tags \ {"box"}
      /\ <<>> \in Seq({VOID}) /\ Len(<<>>) <= 2 /\ Len(<<>>) = 0
      /\ <<VOID>> \in Seq({VOID}) /\ Len(<<VOID>>) <= 2
      /\ <<VOID, VOID>> \in Seq({VOID}) /\ Len(<<VOID, VOID>>) <= 2 /\ Len(<<VOID, VOID>>) = 2
      /\ 1 \in 1 .. 4 /\ 2 \in 1 .. 4 /\ 3 \in 1 .. 4 /\ 4 \in 1 .. 4
  BY DEF Tags
<1>3. Heap(none) /\ Unforwarded(none) /\ Ids(none) = {} /\ none.idx = 1 /\ DOMAIN none.mem = {}
  <2>1. PageSz \in Nat /\ PageSz >= 3
    BY HeapAssumption
  <2>2. GoodPool(none) /\ DOMAIN none.mem = {} /\ none.sz = PageSz /\ none.idx = 1
    BY <2>1, EmptyPoolFacts
  <2> HIDE DEF none
  <2>3. QED
    BY <2>1, <2>2 DEF Heap, Roomy, Unforwarded, UniqueIds, Closed, BoxesFlat, Ids
<1> HIDE DEF none
<1>4. /\ Heap(constants) /\ Unforwarded(constants) /\ Ids(constants) \subseteq {4}
      /\ Interning => 1 \in DOMAIN constants.mem
  <2>1. CASE Interning
    <3> DEFINE q == Alloc(none, Object("pair", 4, <<VOID, VOID>>, 0))
    <3>1. /\ Heap(q) /\ Unforwarded(q) /\ Ids(q) = Ids(none) \cup {4}
          /\ DOMAIN q.mem = DOMAIN none.mem \cup {none.idx}
      <4>1. Loads(none, "pair", 4, <<VOID, VOID>>, q)
        BY <1>2, <1>3 DEF Loads
      <4> HIDE DEF q
      <4>2. QED
        BY <4>1, LoadAlloc
    <3>2. constants = q
      BY <2>1
    <3> HIDE DEF q, constants
    <3>3. QED
      BY <1>3, <3>1, <3>2
  <2>2. CASE ~Interning
    BY <1>3, <2>2
  <2>3. QED
    BY <2>1, <2>2
<1> HIDE DEF constants
<1>5. /\ Heap(entry) /\ Unforwarded(entry) /\ Ids(entry) \subseteq {4, 1}
      /\ constants.idx \in Nat /\ DOMAIN entry.mem = DOMAIN constants.mem \cup {constants.idx}
  <2>1. 1 \notin Ids(constants)
    BY <1>4
  <2>2. Loads(constants, "closure", 1, <<>>, entry)
    BY <1>2, <1>4, <2>1 DEF Loads
  <2> HIDE DEF entry
  <2>3. /\ Heap(entry) /\ Unforwarded(entry) /\ Ids(entry) = Ids(constants) \cup {1}
        /\ constants.idx \in Nat /\ DOMAIN entry.mem = DOMAIN constants.mem \cup {constants.idx}
    BY <2>2, LoadAlloc
  <2>4. QED
    BY <1>4, <2>3
<1> HIDE DEF entry
<1>6. /\ Heap(module) /\ Unforwarded(module) /\ Ids(module) \subseteq {4, 1, 2}
      /\ entry.idx \in Nat /\ DOMAIN module.mem = DOMAIN entry.mem \cup {entry.idx}
  <2>1. 2 \notin Ids(entry)
    BY <1>5
  <2>2. Loads(entry, "vector", 2, <<VOID>>, module)
    BY <1>2, <1>5, <2>1 DEF Loads
  <2> HIDE DEF module
  <2>3. /\ Heap(module) /\ Unforwarded(module) /\ Ids(module) = Ids(entry) \cup {2}
        /\ entry.idx \in Nat /\ DOMAIN module.mem = DOMAIN entry.mem \cup {entry.idx}
    BY <2>2, LoadAlloc
  <2>4. QED
    BY <1>5, <2>3
<1> HIDE DEF module
<1>7. /\ Heap(all) /\ Unforwarded(all)
      /\ module.idx \in Nat /\ DOMAIN all.mem = DOMAIN module.mem \cup {module.idx}
  <2>1. 3 \notin Ids(module)
    BY <1>6
  <2>2. Loads(module, "closure", 3, <<>>, all)
    BY <1>2, <1>6, <2>1 DEF Loads
  <2> HIDE DEF all
  <2>3. /\ Heap(all) /\ Unforwarded(all) /\ Ids(all) = Ids(module) \cup {3}
        /\ module.idx \in Nat /\ DOMAIN all.mem = DOMAIN module.mem \cup {module.idx}
    BY <2>2, LoadAlloc
  <2>4. QED
    BY <1>6, <2>3
<1> HIDE DEF all
<1>8. /\ constants.idx \in DOMAIN all.mem /\ entry.idx \in DOMAIN all.mem /\ module.idx \in DOMAIN all.mem
      /\ Interning => 1 \in DOMAIN all.mem
  BY <1>4, <1>5, <1>6, <1>7
<1>9. args \in Seq(Val) /\ Len(args) = 2 /\ DOMAIN args = 1 .. 2 /\ args[1] = entry.idx /\ args[2] = module.idx
  BY <1>1, <1>6, <1>7 DEF Val
<1>10. interned \in Seq(Val) /\ \A i \in DOMAIN interned : interned[i] = 1 /\ Interning
  <2>1. CASE Interning
    <3>1. interned = <<1>>
      BY <1>1, <2>1
    <3>2. QED
      BY <2>1, <3>1 DEF Val
  <2>2. CASE ~Interning
    <3>1. interned = <<>>
      BY <1>1, <2>2
    <3>2. QED
      BY <3>1
  <2>3. QED
    BY <2>1, <2>2
<1>11. RootTypes
  BY <1>1, <1>5, <1>9, <1>10, HeapAssumption DEF RootTypes, Val
<1>12. RootsValid(all)
  BY <1>1, <1>8, <1>9, <1>10 DEF RootsValid, Valid
<1>13. LocalsValid(all)
  BY <1>1 DEF LocalsValid
<1>14. QED
  BY <1>1, <1>7, <1>11, <1>12, <1>13 DEF AtRest

-----------------------------------------------------------------------------
(* The theorems.                                                           *)

\* Every step of the program keeps the heap of a running program.
LEMMA MutateKeeps ==
    ASSUME AtRest, Mutate
    PROVE  AtRest' /\ phase' # "gc"
<1>1. AtRest'
  BY AllocationsKeep, ConsRestKeeps, LoadsKeep, SetFieldKeeps, MarkKeeps, PushKeeps, TailCallKeeps DEF Mutate
<1>2. QED
  BY <1>1 DEF AtRest

LEMMA HeapStep == HeapInv /\ [Next]_vars => HeapInv'
<1>1. SUFFICES ASSUME HeapInv, [Next]_vars PROVE HeapInv'
  OBVIOUS
<1>2. ASSUME Mutate PROVE HeapInv'
  <2>1. AtRest
    BY <1>1, <1>2 DEF HeapInv, Mutate, Running, Cons, MakeBox, PrimopMakeBytevector, PrimopMakeVector,
       MakeClosure, PrimopVector, New, ConsRest, Load, SetField, MarkContinuation, LoadConstant, Push, Pop, TailCall
  <2>2. AtRest' /\ phase' # "gc"
    BY <1>2, <2>1, MutateKeeps
  <2>3. QED
    BY <2>2 DEF HeapInv, AtRest
<1>3. ASSUME Enter PROVE HeapInv'
  <2>1. AtRest
    BY <1>1, <1>3 DEF HeapInv, Enter
  <2>2. QED
    BY <1>3, <2>1, EnterKeeps DEF HeapInv
<1>4. ASSUME CollectValue PROVE HeapInv'
  <2>1. phase = "gc" /\ phase' = "gc" /\ Collecting
    BY <1>1, <1>4 DEF HeapInv, CollectValue
  <2>2. Collecting'
    BY <1>4, <2>1, CollectKeeps
  <2>3. QED
    BY <2>1, <2>2 DEF HeapInv
<1>5. ASSUME Finish PROVE HeapInv'
  <2>1. phase' = "run" /\ Collecting
    BY <1>1, <1>5 DEF HeapInv, Finish
  <2>2. AtRest'
    BY <1>5, <2>1, FinishKeeps
  <2>3. QED
    BY <2>1, <2>2 DEF HeapInv
<1>6. ASSUME UNCHANGED vars \/ Unreachable PROVE HeapInv'
  BY <1>1, <1>6
     DEF HeapInv, vars, Unreachable, AtRest, Collecting, RootTypes, RootsValid, LocalsValid, Todo
<1>7. QED
  BY <1>1, <1>2, <1>3, <1>4, <1>5, <1>6 DEF Next, Prologue

LEMMA HeapInvariant == Spec => []HeapInv
<1>1. Init => HeapInv
  BY InitAtRest DEF HeapInv
<1>2. QED
  BY <1>1, HeapStep, PTL DEF Spec

\* The pools of a state are good ones.
LEMMA PoolsGood ==
    ASSUME HeapInv, NEW p \in Pools
    PROVE  GoodPool(p) /\ IsPool(p) /\ Layout(p)
BY DEF HeapInv, Pools, AtRest, Collecting, Copying, Spaces, Heap, GoodPool

LEMMA PoolOfHome ==
    ASSUME HeapInv, phase = "gc", NEW c
    PROVE  PoolOf(c) = Home(c, Todo, working, free)
BY DEF PoolOf, Home

\* Objects are well formed and the argument stack never outgrows its array.
THEOREM TypeCorrect == Spec => []TypeOK
<1>1. HeapInv => TypeOK
  <2>1. SUFFICES ASSUME HeapInv PROVE TypeOK
    OBVIOUS
  <2>2. phase \in {"enter", "gc", "run"} /\ RootTypes
    BY <2>1 DEF HeapInv, AtRest, Collecting
  <2>3. threshold \in Nat /\ Len(args) \in 0 .. ArgStackLen
    BY <2>2, ArgsFacts, HeapAssumption DEF RootTypes
  <2>4. \A p \in Pools : p.sz \in Nat /\ p.idx \in Nat
    BY <2>1, PoolsGood DEF IsPool
  <2>5. ASSUME NEW p \in Pools, NEW a \in DOMAIN p.mem PROVE IsObject(p.mem[a])
    <3>1. GoodPool(p) /\ IsPool(p)
      BY <2>1, PoolsGood
    <3>2. /\ p.mem[a].tag \in Tags /\ p.mem[a].id \in 1 .. MaxObjs /\ p.mem[a].fref \in Nat
          /\ \A f \in DOMAIN p.mem[a].fields : p.mem[a].fields[f] \in Val
      BY <3>1, PoolObj
    <3>3. p.mem[a].cont => p.mem[a].tag = "closure"
      BY <3>1 DEF GoodPool, Formed
    <3>4. p.mem[a].bytes \in Nat
      BY <3>1, PoolObj DEF Obj
    <3>5. QED
      BY <3>2, <3>3, <3>4, HeaderFacts, ValFacts DEF IsObject
  <2>6. QED
    BY <2>2, <2>3, <2>4, <2>5 DEF TypeOK
<1>2. QED
  BY <1>1, HeapInvariant, PTL

\* Everything the program goes on with lies inside its pool, and what is copied
\* fits into a pool of the old size, whatever sizes the program asked for.
THEOREM Bounded == Spec => []InBounds
<1>1. HeapInv => InBounds
  BY PoolsGood DEF InBounds, Layout
<1>2. QED
  BY <1>1, HeapInvariant, PTL

\* What does not fit in a running program's heap is large.
LEMMA NewOverrun ==
    ASSUME AtRest, NEW tag \in Tags, NEW fields \in Seq(Val), NEW bytes \in Nat, NEW left,
           New(tag, fields, bytes, left), OverrunsAreLarge
    PROVE  OverrunsAreLarge'
<1> DEFINE o == Object(tag, FreshId(working), fields, bytes)
<1>1. halt = <<>>
  BY DEF New, Running
<1>2. CASE Fits(working, o)
  BY <1>1, <1>2 DEF New, Fits, OverrunsAreLarge
<1>3. CASE ~Fits(working, o)
  <2>1. halt' = <<"overrun", AllocSize(o)>> /\ working' = working
    BY <1>3 DEF New, Fits
  <2>2. o \in Obj
    <3>1. Heap(working) /\ GoodPool(working) /\ Cardinality(DOMAIN working.mem) < MaxObjs
      BY DomainFinite, HeapAssumption DEF AtRest, Heap, New, Room
    <3>2. FreshId(working) \in 1 .. MaxObjs
      BY <3>1, FreshIdFacts
    <3>3. QED
      BY <3>2 DEF Object, Obj
  <2> HIDE DEF o
  <2>3. AllocSize(o) \in Nat /\ ~(AllocSize(o) <= working.sz) /\ ~(AllocSize(o) <= PageSz + 1)
    BY <1>3, <2>2, SizeFacts, SmallFits DEF AtRest
  <2>4. working.sz \in Nat /\ PageSz \in Nat
    BY HeapAssumption DEF AtRest, Heap, GoodPool, IsPool
  <2>5. QED
    BY <2>1, <2>3, <2>4 DEF OverrunsAreLarge
<1>4. QED
  BY <1>2, <1>3

LEMMA AllocationsOverrun ==
    ASSUME AtRest, OverrunsAreLarge,
           \/ \E x, y \in Held : Cons(x, y)
           \/ MakeBox \/ MakeClosure \/ PrimopVector
           \/ \E n \in Lengths.bytevector : PrimopMakeBytevector(n)
           \/ \E n \in Lengths.vector, x \in Held : PrimopMakeVector(n, x)
    PROVE  OverrunsAreLarge'
<1>0. {"pair", "box", "vector", "closure", "bytevector"} \subseteq Tags /\ 0 \in Nat
      /\ <<>> \in Seq(Val)
  BY DEF Tags
<1>1. ASSUME NEW x \in Held, NEW y \in Held, Cons(x, y) PROVE OverrunsAreLarge'
  <2>1. <<x, y>> \in Seq(Val)
    BY HeldFacts
  <2>2. QED
    BY <1>0, <1>1, <2>1, NewOverrun DEF Cons
<1>2. ASSUME MakeBox PROVE OverrunsAreLarge'
  <2>1. <<VOID>> \in Seq(Val)
    BY ValFacts
  <2>2. QED
    BY <1>0, <1>2, <2>1, NewOverrun DEF MakeBox
<1>3. ASSUME NEW n \in Lengths.bytevector, PrimopMakeBytevector(n) PROVE OverrunsAreLarge'
  BY <1>0, <1>3, HeapAssumption, NewOverrun DEF PrimopMakeBytevector
<1>4. ASSUME MakeClosure \/ PrimopVector PROVE OverrunsAreLarge'
  BY <1>0, <1>4, PoppedFacts, NewOverrun DEF MakeClosure, PrimopVector
<1>5. ASSUME NEW n \in Lengths.vector, NEW x \in Held, PrimopMakeVector(n, x) PROVE OverrunsAreLarge'
  <2> DEFINE fields == [i \in 1 .. n |-> x]
  <2>1. fields \in [1 .. n -> Val] /\ n \in Nat
    BY HeldFacts, HeapAssumption
  <2>2. New("vector", fields, 0, args)
    BY <1>5 DEF PrimopMakeVector
  <2> HIDE DEF fields
  <2>3. fields \in Seq(Val)
    BY <2>1, FunctionIsSeq
  <2>4. QED
    BY <1>0, <2>2, <2>3, NewOverrun
<1>6. QED
  BY <1>1, <1>2, <1>3, <1>4, <1>5

\* The allocator gives out memory past the end of a pool only for an object
\* larger than the pool and than a page and a word: one doubling is enough for
\* every other, and no sequence of small objects overruns.
THEOREM OverrunsLarge == Spec => []OverrunsAreLarge
<1>1. Init => OverrunsAreLarge
  BY DEF Init, OverrunsAreLarge
<1>2. ASSUME HeapInv, OverrunsAreLarge, [Next]_vars PROVE OverrunsAreLarge'
  <2>1. ASSUME \/ \E x, y \in Held : Cons(x, y)
               \/ MakeBox \/ MakeClosure \/ PrimopVector
               \/ \E n \in Lengths.bytevector : PrimopMakeBytevector(n)
               \/ \E n \in Lengths.vector, x \in Held : PrimopMakeVector(n, x)
        PROVE  OverrunsAreLarge'
    <3>1. AtRest
      BY <1>2, <2>1 DEF HeapInv, Running, Cons, MakeBox, PrimopMakeBytevector, PrimopMakeVector,
         MakeClosure, PrimopVector, New
    <3>2. QED
      BY <1>2, <2>1, <3>1, AllocationsOverrun
  <2>2. ASSUME \/ ConsRest \/ \E a \in Held, f \in 1 .. ArgStackLen : Load(a, f)
               \/ \E a, v \in Held, f \in 1 .. 2 : SetField(a, f, v)
               \/ \E a \in Held : MarkContinuation(a)
               \/ \E i \in DOMAIN interned : LoadConstant(i)
               \/ \E v \in Held : Push(v) \/ Push(Flat(v))
               \/ Pop \/ \E v \in Held : TailCall(v)
        PROVE  halt = <<>> /\ halt' = halt
    BY <2>2 DEF Running, ConsRest, Load, SetField, MarkContinuation, LoadConstant, Push, Pop, TailCall
  <2>3. ASSUME Enter \/ CollectValue \/ Finish PROVE halt = <<>> /\ halt' = halt
    BY <2>3 DEF Enter, CollectValue, Finish
  <2>4. ASSUME Unreachable PROVE OverrunsAreLarge'
    BY <2>4 DEF Unreachable, OverrunsAreLarge
  <2>5. ASSUME UNCHANGED vars PROVE OverrunsAreLarge'
    BY <1>2, <2>5 DEF vars, OverrunsAreLarge
  <2>6. halt' = <<>> => OverrunsAreLarge'
    BY DEF OverrunsAreLarge
  <2>7. QED
    BY <1>2, <2>1, <2>2, <2>3, <2>4, <2>5, <2>6 DEF Next, Mutate, Prologue
<1>3. QED
  BY <1>1, <1>2, HeapInvariant, PTL DEF Spec

\* No reference dangles, between collections and at any point of one.
THEOREM Safe == Spec => []NoDangling
<1>1. HeapInv => NoDangling
  <2>1. SUFFICES ASSUME HeapInv PROVE NoDangling
    OBVIOUS
  <2>2. CASE phase # "gc"
    <3>1. AtRest /\ \A c : PoolOf(c) = working
      BY <2>1, <2>2 DEF HeapInv, PoolOf
    <3>2. QED
      BY <2>2, <3>1 DEF AtRest, Heap, Closed, RootsValid, LocalsValid, NoDangling
  <2>3. CASE phase = "gc"
    <3>1. Collecting /\ \A c : PoolOf(c) = Home(c, Todo, working, free)
      BY <2>1, <2>3, PoolOfHome DEF HeapInv
    <3>2. /\ Heap(working) /\ locals = {} /\ FieldsHome(working, free, Todo)
          /\ RootsHome(working, free, Todo, interned, args, self)
      BY <3>1 DEF Collecting, Copying, Spaces
    <3>3. QED
      BY <3>1, <3>2 DEF Heap, Closed, FieldsHome, RootsHome, NoDangling
  <2>4. QED
    BY <2>2, <2>3
<1>2. QED
  BY <1>1, HeapInvariant, PTL

\* An object is copied at most once, and forwarded to its copy; sharing and
\* cycles survive.
THEOREM CopiedOnce == Spec => []Forwarding
<1>1. HeapInv => Forwarding
  <2>1. SUFFICES ASSUME HeapInv PROVE Forwarding
    OBVIOUS
  <2>2. CASE phase # "gc"
    BY <2>1, <2>2 DEF HeapInv, AtRest, Unforwarded, Forwarding
  <2>3. CASE phase = "gc"
    <3>1. Spaces(working, free) /\ UniqueIds(free)
      BY <2>1, <2>3, CopiesUnique DEF HeapInv, Collecting, Copying
    <3>2. QED
      BY <2>3, <3>1 DEF Spaces, IsCopy, Unforwarded, UniqueIds, Forwarding
  <2>4. QED
    BY <2>2, <2>3
<1>2. QED
  BY <1>1, HeapInvariant, PTL

\* A variable's box never holds a box.
THEOREM BoxesStayFlat == Spec => []NoBoxInBox
<1>1. HeapInv => NoBoxInBox
  BY DEF HeapInv, AtRest, Heap, BoxesFlat, NotBox, TagOf, NoBoxInBox
<1>2. QED
  BY <1>1, HeapInvariant, PTL
=============================================================================
