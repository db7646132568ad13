--------------------------- MODULE ScmStoreProofs ---------------------------
(***************************************************************************)
(* ScmHeap implements ScmStore: a program cannot tell the heap, with its   *)
(* two spaces and its moving objects, from a store of objects that stay    *)
(* where they are and are forgotten when they are out of reach.            *)
(***************************************************************************)
EXTENDS ScmHeapProofs

\* The values that are not references.
Imm == {VOID} \cup Inexact

\* What the program sees of the object o, whose fields refer to pool p, ...
Shown(o, p) ==
    [tag |-> o.tag, cont |-> o.cont, fields |-> [f \in DOMAIN o.fields |-> View(o.fields[f], p)]]

\* ... of a pool, and of a sequence of values that refer to it.
ShownPool(p) ==
    [id \in Ids(p) |-> Shown(p.mem[CHOOSE a \in DOMAIN p.mem : p.mem[a].id = id], p)]

ViewSeq(s, p) == [i \in DOMAIN s |-> View(s[i], p)]

-----------------------------------------------------------------------------
(* Views.                                                                  *)

LEMMA StoreIsShown == store = ShownPool(working)
BY DEF store, ShownPool, Shown

LEMMA ViewFacts ==
    ASSUME NEW p, IsPool(p), NEW v \in Val
    PROVE  /\ View(v, p) \in Val
           /\ Valid(v, p) => View(v, p) \in Ids(p) \cup Imm
           /\ ~IsRef(v) => View(v, p) = v /\ v \in Imm
           /\ v \in DOMAIN p.mem => View(v, p) = p.mem[v].id
<1>1. CASE ~IsRef(v)
  <2>1. v \in Imm /\ v \notin Nat
    BY <1>1, ValFacts DEF IsRef, Imm
  <2>2. v \notin DOMAIN p.mem
    BY <2>1 DEF IsPool
  <2>3. QED
    BY <1>1, <2>1, <2>2 DEF View
<1>2. CASE IsRef(v)
  <2>1. \A a \in DOMAIN p.mem : p.mem[a].id \in Nat
    BY PoolObj, HeapAssumption
  <2>2. QED
    BY <1>2, <2>1 DEF View, Val, Valid, Ids
<1>3. QED
  BY <1>1, <1>2

LEMMA IdsFacts ==
    ASSUME NEW p, IsPool(p)
    PROVE  Ids(p) \subseteq Nat /\ Ids(p) \cap Imm = {}
<1>1. \A a \in DOMAIN p.mem : p.mem[a].id \in Nat
  BY PoolObj, HeapAssumption
<1>2. QED
  BY <1>1, HeapAssumption DEF Ids, Imm

\* Pools with the same identities at the same addresses look alike.
LEMMA ViewSame ==
    ASSUME NEW p, NEW q, DOMAIN p.mem \subseteq DOMAIN q.mem,
           \A a \in DOMAIN p.mem : q.mem[a].id = p.mem[a].id
    PROVE  \A v : Valid(v, p) => View(v, q) = View(v, p)
BY DEF View, Valid

\* Where an object's identity leads.
LEMMA ShownFacts ==
    ASSUME NEW p, UniqueIds(p)
    PROVE  /\ DOMAIN ShownPool(p) = Ids(p)
           /\ \A a \in DOMAIN p.mem :
                 p.mem[a].id \in Ids(p) /\ ShownPool(p)[p.mem[a].id] = Shown(p.mem[a], p)
           /\ \A id \in Ids(p) : \E a \in DOMAIN p.mem : p.mem[a].id = id
<1>1. \A a \in DOMAIN p.mem : p.mem[a].id \in Ids(p)
  BY DEF Ids
<1>2. \A id \in Ids(p) : \E a \in DOMAIN p.mem : p.mem[a].id = id
  BY DEF Ids
<1>3. ASSUME NEW a \in DOMAIN p.mem
      PROVE  (CHOOSE b \in DOMAIN p.mem : p.mem[b].id = p.mem[a].id) = a
  BY DEF UniqueIds
<1>4. \A a \in DOMAIN p.mem : ShownPool(p)[p.mem[a].id] = Shown(p.mem[a], p)
  BY <1>1, <1>3 DEF ShownPool
<1>5. QED
  BY <1>1, <1>2, <1>4 DEF ShownPool

LEMMA FieldsShown ==
    ASSUME NEW o, NEW p
    PROVE  /\ Shown(o, p).tag = o.tag /\ Shown(o, p).cont = o.cont
           /\ DOMAIN Shown(o, p).fields = DOMAIN o.fields
           /\ \A f \in DOMAIN o.fields : Shown(o, p).fields[f] = View(o.fields[f], p)
BY DEF Shown

\* Objects that agree on what is shown are shown alike.
LEMMA ShownAlike ==
    ASSUME NEW o, NEW p, NEW u, NEW q, u.tag = o.tag, u.cont = o.cont,
           DOMAIN u.fields = DOMAIN o.fields,
           \A f \in DOMAIN o.fields : View(u.fields[f], q) = View(o.fields[f], p)
    PROVE  Shown(u, q) = Shown(o, p)
<1>1. [f \in DOMAIN u.fields |-> View(u.fields[f], q)] = [f \in DOMAIN o.fields |-> View(o.fields[f], p)]
  OBVIOUS
<1>2. QED
  BY <1>1 DEF Shown

LEMMA ViewSeqFacts ==
    ASSUME NEW p, IsPool(p), NEW s \in Seq(Val)
    PROVE  /\ ViewSeq(s, p) \in Seq(Val) /\ Len(ViewSeq(s, p)) = Len(s)
           /\ DOMAIN ViewSeq(s, p) = 1 .. Len(s) /\ Len(s) \in Nat /\ DOMAIN s = 1 .. Len(s)
           /\ \A i \in 1 .. Len(s) : ViewSeq(s, p)[i] = View(s[i], p)
<1>1. Len(s) \in Nat /\ DOMAIN s = 1 .. Len(s) /\ \A i \in 1 .. Len(s) : s[i] \in Val
  OBVIOUS
<1>2. \A i \in 1 .. Len(s) : View(s[i], p) \in Val
  BY <1>1, ViewFacts
<1>3. ViewSeq(s, p) \in [1 .. Len(s) -> Val] /\ \A i \in 1 .. Len(s) : ViewSeq(s, p)[i] = View(s[i], p)
  BY <1>1, <1>2 DEF ViewSeq
<1>4. QED
  BY <1>1, <1>3, FunctionIsSeq

LEMMA SeqAlike ==
    ASSUME NEW R, NEW s \in Seq(R), NEW t \in Seq(R), Len(s) = Len(t),
           \A i \in 1 .. Len(s) : s[i] = t[i]
    PROVE  s = t
OBVIOUS

-----------------------------------------------------------------------------
(* The program between two collections.                                    *)

\* Every value refers to the one pool there is.
RestView ==
    /\ internedView = ViewSeq(interned, working) /\ argsView = ViewSeq(args, working)
    /\ selfView = View(self, working)
    /\ store = ShownPool(working)

LEMMA RestViews == (AtRest => RestView) /\ (AtRest' => RestView')
<1>1. AtRest => RestView
  BY StoreIsShown DEF AtRest, RestView, internedView, argsView, selfView, PoolOf, ViewSeq
<1>2. AtRest' => RestView'
  BY DEF AtRest, RestView, internedView, argsView, selfView, PoolOf, ViewSeq, store, ShownPool, Shown
<1>3. QED
  BY <1>1, <1>2

LEMMA RestFacts ==
    ASSUME AtRest
    PROVE  /\ Heap(working) /\ GoodPool(working) /\ IsPool(working) /\ UniqueIds(working)
           /\ RootTypes /\ RootsValid(working) /\ LocalsValid(working)
           /\ DOMAIN store = Ids(working)
           /\ \A a \in DOMAIN working.mem : store[working.mem[a].id] = Shown(working.mem[a], working)
<1>1. /\ Heap(working) /\ GoodPool(working) /\ IsPool(working) /\ UniqueIds(working)
      /\ RootTypes /\ RootsValid(working) /\ LocalsValid(working)
  BY DEF AtRest, Heap, GoodPool
<1>2. QED
  BY <1>1, StoreIsShown, ShownFacts

\* The variables of a function are what the store's program holds.
LEMMA HeldSeen ==
    ASSUME AtRest, NEW v \in Held
    PROVE  View(v, working) \in Store!Held
<1>1. CASE v \in locals
  BY <1>1 DEF localsView, Store!Held
<1>2. CASE v = self
  BY <1>2, RestViews DEF RestView, Store!Held
<1>3. CASE v \in Imm
  <2>1. v \in Val /\ ~IsRef(v)
    BY <1>3, ValFacts DEF Imm
  <2>2. View(v, working) = v
    BY <2>1 DEF View
  <2>3. QED
    BY <1>3, <2>2 DEF Store!Held, Imm
<1>4. QED
  BY <1>1, <1>2, <1>3 DEF Held, Imm

LEMMA HeldObject ==
    ASSUME AtRest, NEW v \in Held, IsRef(v)
    PROVE  /\ v \in DOMAIN working.mem /\ View(v, working) = working.mem[v].id
           /\ working.mem[v].id \in Store!Held \cap DOMAIN store
<1>1. v \in DOMAIN working.mem /\ v \in Val
  BY HeldFacts DEF Valid
<1>2. View(v, working) = working.mem[v].id
  BY <1>1, RestFacts, ViewFacts
<1>3. working.mem[v].id \in DOMAIN store
  BY <1>1, RestFacts DEF Ids
<1>4. QED
  BY <1>1, <1>2, <1>3, HeldSeen

\* So are the fields of the objects they name.
LEMMA FieldSeen ==
    ASSUME AtRest, NEW v \in Held, IsRef(v), NEW f \in DOMAIN working.mem[v].fields
    PROVE  View(working.mem[v].fields[f], working) \in Store!Known
<1> DEFINE id == working.mem[v].id
<1>1. v \in DOMAIN working.mem /\ id \in Store!Held \cap DOMAIN store
  BY HeldObject
<1>2. f \in DOMAIN store[id].fields /\ store[id].fields[f] = View(working.mem[v].fields[f], working)
  BY <1>1, RestFacts, FieldsShown
<1> HIDE DEF id
<1>3. View(working.mem[v].fields[f], working) \in Store!Values(store[id].fields)
  BY <1>2 DEF Store!Values
<1>4. QED
  BY <1>1, <1>3 DEF Store!Known, Store!Fields

LEMMA FlatSeen ==
    ASSUME AtRest, NEW v \in Held
    PROVE  View(v, working) \in Store!Known /\ View(Flat(v), working) \in Store!Known
<1>1. View(v, working) \in Store!Known
  BY HeldSeen DEF Store!Known
<1>2. CASE TagOf(v) = "box"
  <2>1. IsRef(v) /\ Flat(v) = working.mem[v].fields[1] /\ working.mem[v].tag = "box"
    BY <1>2 DEF TagOf, Flat
  <2>2. v \in DOMAIN working.mem
    BY <2>1, HeldObject
  <2>3. 1 \in DOMAIN working.mem[v].fields
    BY <2>1, <2>2, RestFacts, BoxField
  <2>4. QED
    BY <1>1, <2>1, <2>3, FieldSeen
<1>3. CASE TagOf(v) # "box"
  BY <1>1, <1>3 DEF Flat
<1>4. QED
  BY <1>2, <1>3

\* A step that leaves the pool and the constants alone.
LEMMA QuietStep ==
    ASSUME AtRest, AtRest', UNCHANGED <<working, interned>>
    PROVE  /\ UNCHANGED <<store, internedView>>
           /\ argsView' = ViewSeq(args', working) /\ argsView = ViewSeq(args, working)
           /\ selfView' = View(self', working) /\ selfView = View(self, working)
           /\ localsView' = {View(v, working) : v \in locals'}
BY RestViews DEF RestView, localsView

\* A value is loaded into a variable.
LEMMA LoadSeen ==
    ASSUME AtRest, AtRest', UNCHANGED <<working, interned, args, self>>,
           NEW v, locals' = locals \cup {v}, View(v, working) \in Store!Known
    PROVE  Store!Load
<1>1. UNCHANGED <<store, internedView, argsView, selfView>>
  BY QuietStep
<1>2. localsView' = localsView \cup {View(v, working)}
  BY QuietStep DEF localsView
<1>3. QED
  BY <1>1, <1>2 DEF Store!Load

LEMMA LoadStep ==
    ASSUME AtRest, AtRest', NEW a \in Held, NEW f, Load(a, f)
    PROVE  Store!Load
<1>1. IsRef(a) /\ f \in DOMAIN working.mem[a].fields
  BY DEF Load, TagOf
<1>2. View(working.mem[a].fields[f], working) \in Store!Known
  BY <1>1, FieldSeen
<1>3. QED
  BY <1>2, LoadSeen DEF Load, Hold

LEMMA LoadConstantStep ==
    ASSUME AtRest, AtRest', NEW i \in DOMAIN interned, LoadConstant(i)
    PROVE  Store!Load
<1>1. internedView = ViewSeq(interned, working)
  BY RestViews DEF RestView
<1>2. i \in DOMAIN internedView /\ internedView[i] = View(interned[i], working)
  BY <1>1 DEF ViewSeq
<1>3. View(interned[i], working) \in Store!Known
  BY <1>2 DEF Store!Known, Store!Held, Store!Values
<1>4. QED
  BY <1>3, LoadSeen DEF LoadConstant, Hold

\* The view of a sequence that grows or shrinks at its end.
LEMMA AppendView ==
    ASSUME NEW p, IsPool(p), NEW s \in Seq(Val), NEW v \in Val
    PROVE  ViewSeq(Append(s, v), p) = Append(ViewSeq(s, p), View(v, p))
<1> DEFINE u == Append(s, v)
           t == ViewSeq(s, p)
           w == View(v, p)
           l == ViewSeq(u, p)
           r == Append(t, w)
<1>1. /\ u \in Seq(Val) /\ Len(u) = Len(s) + 1 /\ u[Len(s) + 1] = v
      /\ \A i \in 1 .. Len(s) : u[i] = s[i]
  BY AppendFacts
<1>2. /\ t \in Seq(Val) /\ Len(t) = Len(s) /\ Len(s) \in Nat
      /\ \A i \in 1 .. Len(s) : t[i] = View(s[i], p)
  BY ViewSeqFacts
<1>3. w \in Val
  BY ViewFacts
<1> HIDE DEF u, t
<1>4. /\ l \in Seq(Val) /\ Len(l) = Len(u) /\ \A i \in 1 .. Len(u) : l[i] = View(u[i], p)
  BY <1>1, ViewSeqFacts
<1>5. /\ r \in Seq(Val) /\ Len(r) = Len(t) + 1 /\ r[Len(t) + 1] = w
      /\ \A i \in 1 .. Len(t) : r[i] = t[i]
  <2> HIDE DEF w
  <2>1. QED
    BY <1>2, <1>3, AppendFacts
<1> HIDE DEF l, r
<1>6. \A i \in 1 .. Len(l) : l[i] = r[i]
  BY <1>1, <1>2, <1>4, <1>5
<1>7. l = r
  BY <1>1, <1>2, <1>4, <1>5, <1>6, SeqAlike
<1>8. QED
  BY <1>7 DEF l, r, u, t

LEMMA FrontView ==
    ASSUME NEW p, IsPool(p), NEW s \in Seq(Val), s # <<>>
    PROVE  /\ ViewSeq(SubSeq(s, 1, Len(s) - 1), p)
                = SubSeq(ViewSeq(s, p), 1, Len(ViewSeq(s, p)) - 1)
           /\ ViewSeq(s, p) # <<>> /\ ViewSeq(s, p)[Len(s)] = View(s[Len(s)], p)
<1> DEFINE u == SubSeq(s, 1, Len(s) - 1)
           t == ViewSeq(s, p)
           l == ViewSeq(u, p)
           r == SubSeq(t, 1, Len(t) - 1)
<1>1. /\ u \in Seq(Val) /\ Len(u) = Len(s) - 1 /\ Len(s) \in Nat /\ Len(s) >= 1
      /\ \A i \in 1 .. Len(s) - 1 : u[i] = s[i]
  BY FrontFacts
<1>2. /\ t \in Seq(Val) /\ Len(t) = Len(s)
      /\ \A i \in 1 .. Len(s) : t[i] = View(s[i], p)
  BY ViewSeqFacts
<1> HIDE DEF u, t
<1>3. t # <<>>
  BY <1>1, <1>2
<1>4. /\ l \in Seq(Val) /\ Len(l) = Len(u) /\ \A i \in 1 .. Len(u) : l[i] = View(u[i], p)
  BY <1>1, ViewSeqFacts
<1>5. /\ r \in Seq(Val) /\ Len(r) = Len(t) - 1 /\ \A i \in 1 .. Len(t) - 1 : r[i] = t[i]
  BY <1>2, <1>3, FrontFacts
<1> HIDE DEF l, r
<1>6. \A i \in 1 .. Len(l) : l[i] = r[i]
  BY <1>1, <1>2, <1>4, <1>5
<1>7. l = r
  BY <1>1, <1>2, <1>4, <1>5, <1>6, SeqAlike
<1>8. t[Len(s)] = View(s[Len(s)], p)
  BY <1>1, <1>2
<1>9. QED
  BY <1>3, <1>7, <1>8 DEF l, r, u, t

LEMMA PushStep ==
    ASSUME AtRest, AtRest', NEW v \in Val, View(v, working) \in Store!Known, Push(v)
    PROVE  Store!Push
<1>1. /\ UNCHANGED <<working, interned, self, locals>> /\ args' = Append(args, v)
      /\ IsPool(working) /\ args \in Seq(Val)
  BY RestFacts DEF Push, RootTypes
<1>2. /\ UNCHANGED <<store, internedView, selfView, localsView>>
      /\ argsView' = ViewSeq(args', working) /\ argsView = ViewSeq(args, working)
  BY <1>1, QuietStep DEF localsView
<1>3. argsView' = Append(argsView, View(v, working))
  BY <1>1, <1>2, AppendView
<1>4. Len(argsView') = Len(argsView) + 1
  BY <1>1, <1>2, <1>3, ViewSeqFacts, ViewFacts, AppendFacts
<1>5. QED
  BY <1>2, <1>3, <1>4 DEF Store!Push

LEMMA PopStep ==
    ASSUME AtRest, AtRest', Pop
    PROVE  Store!Pop
<1>1. /\ UNCHANGED <<working, interned, self>> /\ args # <<>>
      /\ args' = SubSeq(args, 1, Len(args) - 1) /\ locals' = locals \cup {args[Len(args)]}
      /\ IsPool(working) /\ args \in Seq(Val)
  BY RestFacts DEF Pop, Hold, RootTypes
<1>2. /\ UNCHANGED <<store, internedView, selfView>>
      /\ argsView' = ViewSeq(args', working) /\ argsView = ViewSeq(args, working)
      /\ localsView' = localsView \cup {View(args[Len(args)], working)}
  BY <1>1, QuietStep DEF localsView
<1>3. /\ argsView' = SubSeq(argsView, 1, Len(argsView) - 1)
      /\ argsView # <<>> /\ argsView[Len(args)] = View(args[Len(args)], working)
  BY <1>1, <1>2, FrontView
<1>4. Len(argsView) = Len(args)
  BY <1>1, <1>2, ViewSeqFacts
<1>5. QED
  BY <1>2, <1>3, <1>4 DEF Store!Pop

\* A call: whether it drops an argument is seen on the store's procedure too.
LEMMA TailCallStep ==
    ASSUME AtRest, AtRest', NEW v \in Held, TailCall(v)
    PROVE  Store!Call
<1> DEFINE proc == Flat(v)
           marked == IsRef(proc) /\ working.mem[proc].cont
           seen == View(proc, working)
           short == SubSeq(args, 1, Len(args) - 1)
<1>1. /\ UNCHANGED <<working, interned>> /\ locals' = {} /\ self' = proc
      /\ marked => args # <<>>
      /\ args' = IF (IF marked THEN short ELSE args) = <<>> THEN <<VOID>>
                 ELSE IF marked THEN short ELSE args
  BY DEF TailCall, Passed
<1>2. proc \in Val /\ Valid(proc, working) /\ seen \in Store!Known
  BY HeldFacts, FlatFacts, FlatSeen
<1>3. /\ IsPool(working) /\ args \in Seq(Val) /\ DOMAIN store = Ids(working)
      /\ \A a \in DOMAIN working.mem : store[working.mem[a].id] = Shown(working.mem[a], working)
  BY RestFacts DEF RootTypes
<1> HIDE DEF proc
<1>4. /\ UNCHANGED <<store, internedView>> /\ localsView' = {} /\ selfView' = seen
      /\ argsView' = ViewSeq(args', working) /\ argsView = ViewSeq(args, working)
  BY <1>1, QuietStep
<1>5. marked <=> seen \in DOMAIN store /\ store[seen].cont
  <2>1. CASE IsRef(proc)
    <3>1. proc \in DOMAIN working.mem
      BY <1>2, <2>1 DEF Valid
    <3>2. seen = working.mem[proc].id /\ seen \in DOMAIN store
      BY <1>2, <1>3, <3>1, ViewFacts DEF Ids
    <3>3. store[seen].cont = working.mem[proc].cont
      BY <1>3, <3>1, <3>2, FieldsShown
    <3>4. QED
      BY <2>1, <3>2, <3>3
  <2>2. CASE ~IsRef(proc)
    BY <1>2, <1>3, <2>2, ViewFacts, IdsFacts
  <2>3. QED
    BY <2>1, <2>2
<1>6. /\ argsView \in Seq(Val) /\ Len(argsView) = Len(args) /\ Len(args) \in Nat
  BY <1>3, <1>4, ViewSeqFacts
<1>7. ViewSeq(<<VOID>>, working) = <<VOID>>
  <2>1. View(VOID, working) = VOID
    BY <1>3, ViewFacts, ValFacts
  <2>2. QED
    BY <2>1 DEF ViewSeq
<1> HIDE DEF seen, marked
<1> DEFINE n == IF selfView' \in DOMAIN store /\ store[selfView'].cont THEN 1 ELSE 0
<1>8. n = IF marked THEN 1 ELSE 0
  BY <1>4, <1>5
<1> HIDE DEF n
<1>9. IF Len(argsView) = n THEN argsView' = <<VOID>>
      ELSE argsView' = SubSeq(argsView, 1, Len(argsView) - n)
  <2>1. CASE marked
    <3>1. n = 1 /\ args # <<>>
      BY <1>1, <1>8, <2>1
    <3>2. /\ short \in Seq(Val) /\ Len(short) = Len(args) - 1
          /\ ViewSeq(short, working) = SubSeq(argsView, 1, Len(argsView) - 1)
      BY <1>3, <1>4, <3>1, FrontFacts, FrontView
    <3> HIDE DEF short
    <3>3. short = <<>> <=> Len(args) = 1
      BY <1>6, <3>2
    <3>4. QED
      BY <1>1, <1>4, <1>6, <1>7, <2>1, <3>1, <3>2, <3>3
  <2>2. CASE ~marked
    <3>1. n = 0 /\ args' = IF args = <<>> THEN <<VOID>> ELSE args
      BY <1>1, <1>8, <2>2
    <3>2. args = <<>> <=> Len(args) = 0
      BY <1>3
    <3>3. SubSeq(argsView, 1, Len(argsView) - 0) = argsView
      BY <1>6
    <3>4. QED
      BY <1>4, <1>6, <1>7, <3>1, <3>2, <3>3
  <2>3. QED
    BY <2>1, <2>2
<1>10. QED
  BY <1>2, <1>4, <1>9 DEF Store!Call, n

\* Pools that differ in one object.
LEMMA ShownReplaced ==
    ASSUME NEW p, IsPool(p), UniqueIds(p), Closed(p), NEW q, NEW a \in DOMAIN p.mem,
           DOMAIN q.mem = DOMAIN p.mem,
           \A b \in DOMAIN p.mem : q.mem[b].id = p.mem[b].id,
           \A b \in DOMAIN p.mem : b # a => q.mem[b] = p.mem[b]
    PROVE  /\ ShownPool(q) = [ShownPool(p) EXCEPT ![p.mem[a].id] = Shown(q.mem[a], q)]
           /\ Ids(q) = Ids(p)
           /\ \A v : Valid(v, p) => View(v, q) = View(v, p)
<1>1. UniqueIds(q) /\ Ids(q) = Ids(p)
  BY DEF UniqueIds, Ids
<1>2. \A v : Valid(v, p) => View(v, q) = View(v, p)
  BY ViewSame
<1> DEFINE l == ShownPool(q)
           r == [ShownPool(p) EXCEPT ![p.mem[a].id] = Shown(q.mem[a], q)]
<1>3. /\ DOMAIN l = Ids(p) /\ DOMAIN r = Ids(p)
      /\ l = [id \in DOMAIN l |-> l[id]] /\ r = [id \in DOMAIN r |-> r[id]]
  BY <1>1, ShownFacts DEF ShownPool
<1>4. ASSUME NEW id \in Ids(p) PROVE l[id] = r[id]
  <2>1. PICK b \in DOMAIN p.mem : p.mem[b].id = id
    BY ShownFacts
  <2>2. l[id] = Shown(q.mem[b], q)
    BY <1>1, <2>1, ShownFacts
  <2>3. CASE b = a
    BY <1>3, <2>1, <2>2, <2>3
  <2>4. CASE b # a
    <3>1. p.mem[b].id # p.mem[a].id
      BY <2>4 DEF UniqueIds
    <3>2. r[id] = ShownPool(p)[id]
      BY <1>3, <2>1, <3>1
    <3>3. ShownPool(p)[id] = Shown(p.mem[b], p)
      BY <2>1, ShownFacts
    <3>4. \A f \in DOMAIN p.mem[b].fields : View(p.mem[b].fields[f], q) = View(p.mem[b].fields[f], p)
      BY <1>2 DEF Closed
    <3>5. Shown(p.mem[b], q) = Shown(p.mem[b], p)
      BY <3>4, ShownAlike
    <3>6. QED
      BY <2>2, <2>4, <3>2, <3>3, <3>5
  <2>5. QED
    BY <2>3, <2>4
<1>5. l = r
  <2> HIDE DEF l, r
  <2>1. QED
    BY <1>3, <1>4
<1>6. QED
  BY <1>1, <1>2, <1>5

\* What the program sees when the pool changes in one object only.
LEMMA PoolStep ==
    ASSUME AtRest, AtRest', UNCHANGED <<interned, args, self, locals>>,
           \A v : Valid(v, working) => View(v, working') = View(v, working)
    PROVE  UNCHANGED <<internedView, argsView, selfView, localsView>>
<1>1. RootsValid(working) /\ LocalsValid(working)
  BY RestFacts
<1>2. \A i \in DOMAIN interned : View(interned[i], working') = View(interned[i], working)
  BY <1>1 DEF RootsValid
<1>3. \A i \in DOMAIN args : View(args[i], working') = View(args[i], working)
  BY <1>1 DEF RootsValid
<1>4. View(self, working') = View(self, working)
  BY <1>1 DEF RootsValid
<1>5. \A v \in locals : View(v, working') = View(v, working)
  BY <1>1 DEF LocalsValid
<1>6. /\ internedView = ViewSeq(interned, working) /\ internedView' = ViewSeq(interned, working')
      /\ argsView = ViewSeq(args, working) /\ argsView' = ViewSeq(args, working')
      /\ selfView = View(self, working) /\ selfView' = View(self, working')
  BY RestViews DEF RestView
<1>7. UNCHANGED internedView
  BY <1>2, <1>6 DEF ViewSeq
<1>8. UNCHANGED argsView
  BY <1>3, <1>6 DEF ViewSeq
<1>9. UNCHANGED localsView
  BY <1>5 DEF localsView
<1>10. QED
  BY <1>4, <1>6, <1>7, <1>8, <1>9

LEMMA SetFieldStep ==
    ASSUME AtRest, AtRest', NEW a \in Held, NEW u \in Held, NEW f \in 1 .. 2, SetField(a, f, u)
    PROVE  Store!SetField
<1> DEFINE w == IF TagOf(a) = "box" THEN Flat(u) ELSE u
           id == working.mem[a].id
           seen == View(w, working)
<1>1. /\ Heap(working) /\ GoodPool(working) /\ IsPool(working) /\ UniqueIds(working) /\ Closed(working)
      /\ DOMAIN store = Ids(working)
      /\ \A b \in DOMAIN working.mem : store[working.mem[b].id] = Shown(working.mem[b], working)
  BY RestFacts DEF Heap
<1>2. IsRef(a) /\ a \in DOMAIN working.mem /\ f \in DOMAIN working.mem[a].fields
  BY HeldFacts DEF SetField, TagOf, Valid
<1>3. w \in Val /\ Valid(w, working) /\ seen \in Store!Known
  BY HeldFacts, FlatFacts, FlatSeen
<1>4. /\ working' = [working EXCEPT !.mem[a].fields[f] = w]
      /\ UNCHANGED <<interned, args, self, locals>>
  BY DEF SetField
<1> HIDE DEF w
<1>5. PICK o : Replaced(working, a, o, working') /\ FieldChanged(working, a, f, w, o)
  <2>1. FieldSet(working, a, f, w, working')
    BY <1>2, <1>3, <1>4 DEF FieldSet
  <2>2. QED
    BY <1>1, <2>1, FieldUpdate
<1>6. /\ DOMAIN working'.mem = DOMAIN working.mem /\ working'.mem[a] = o
      /\ \A b \in DOMAIN working.mem : b # a => working'.mem[b] = working.mem[b]
      /\ \A b \in DOMAIN working.mem : working'.mem[b].id = working.mem[b].id
  BY <1>1, <1>5, Replacing
<1>7. /\ ShownPool(working') = [ShownPool(working) EXCEPT ![id] = Shown(o, working')]
      /\ Ids(working') = Ids(working)
      /\ \A v : Valid(v, working) => View(v, working') = View(v, working)
  BY <1>1, <1>2, <1>6, ShownReplaced
<1>8. store' = [store EXCEPT ![id] = Shown(o, working')]
  BY <1>7, RestViews DEF RestView
<1>9. id \in Store!Held \cap DOMAIN store /\ store[id] = Shown(working.mem[a], working)
  BY <1>1, <1>2, HeldObject
<1> HIDE DEF id, seen
<1>10. Shown(o, working') = [store[id] EXCEPT !.fields[f] = seen]
  <2> DEFINE old == working.mem[a]
             fs == [g \in DOMAIN old.fields |-> View(old.fields[g], working)]
             gs == [g \in DOMAIN o.fields |-> View(o.fields[g], working')]
  <2>1. /\ o.tag = old.tag /\ o.cont = old.cont /\ DOMAIN o.fields = DOMAIN old.fields
        /\ o.fields[f] = w /\ \A g \in DOMAIN o.fields : g # f => o.fields[g] = old.fields[g]
    BY <1>5 DEF Replaced, FieldChanged
  <2>2. \A g \in DOMAIN old.fields : Valid(old.fields[g], working)
    BY <1>1, <1>2 DEF Closed
  <2>3. gs = [fs EXCEPT ![f] = seen]
    BY <1>2, <1>3, <1>7, <2>1, <2>2 DEF seen
  <2>4. /\ store[id] = [tag |-> old.tag, cont |-> old.cont, fields |-> fs]
        /\ Shown(o, working') = [tag |-> o.tag, cont |-> o.cont, fields |-> gs]
    BY <1>9 DEF Shown
  <2> HIDE DEF fs, gs
  <2>5. QED
    BY <2>1, <2>3, <2>4
<1>11. f \in DOMAIN store[id].fields
  BY <1>2, <1>9, FieldsShown
<1>12. store' = [store EXCEPT ![id].fields[f] = seen]
  BY <1>8, <1>10
<1>13. DOMAIN store' = DOMAIN store
  BY <1>8
<1>14. UNCHANGED <<internedView, argsView, selfView, localsView>>
  BY <1>4, <1>7, PoolStep
<1>15. QED
  BY <1>3, <1>9, <1>11, <1>12, <1>13, <1>14 DEF Store!SetField

LEMMA MarkStep ==
    ASSUME AtRest, AtRest', NEW a \in Held, MarkContinuation(a)
    PROVE  Store!MarkContinuation
<1> DEFINE old == working.mem[a]
           o   == [old EXCEPT !.cont = TRUE]
           id  == working.mem[a].id
<1>1. /\ IsPool(working) /\ UniqueIds(working) /\ Closed(working) /\ DOMAIN store = Ids(working)
      /\ \A b \in DOMAIN working.mem : store[working.mem[b].id] = Shown(working.mem[b], working)
  BY RestFacts DEF Heap
<1>2. IsRef(a) /\ a \in DOMAIN working.mem /\ old.tag = "closure"
  BY HeldFacts DEF MarkContinuation, TagOf, Valid
<1>3. old \in Obj
  BY <1>1, <1>2, PoolObj
<1>4. o.tag = old.tag /\ o.id = old.id /\ o.fields = old.fields /\ o.cont = TRUE
  BY <1>3 DEF Obj
<1>5. working'.mem = [working.mem EXCEPT ![a] = o]
  <2>1. working = [sz |-> working.sz, idx |-> working.idx, mem |-> working.mem]
    BY <1>1 DEF IsPool, PoolRec
  <2>2. working' = [working EXCEPT !.mem = [working.mem EXCEPT ![a] = o]]
    BY DEF MarkContinuation
  <2> HIDE DEF o
  <2>3. QED
    BY <2>1, <2>2
<1> HIDE DEF o
<1>6. /\ DOMAIN working'.mem = DOMAIN working.mem /\ working'.mem[a] = o
      /\ \A b \in DOMAIN working.mem : b # a => working'.mem[b] = working.mem[b]
      /\ \A b \in DOMAIN working.mem : working'.mem[b].id = working.mem[b].id
  BY <1>1, <1>2, <1>4, <1>5
<1>7. /\ ShownPool(working') = [ShownPool(working) EXCEPT ![id] = Shown(o, working')]
      /\ \A v : Valid(v, working) => View(v, working') = View(v, working)
  BY <1>1, <1>2, <1>6, ShownReplaced
<1>8. store' = [store EXCEPT ![id] = Shown(o, working')]
  BY <1>7, RestViews DEF RestView
<1>9. id \in Store!Held \cap DOMAIN store /\ store[id] = Shown(old, working)
  BY <1>1, <1>2, HeldObject
<1>10. Shown(o, working') = [store[id] EXCEPT !.cont = TRUE]
  <2> DEFINE fs == [g \in DOMAIN old.fields |-> View(old.fields[g], working)]
             gs == [g \in DOMAIN o.fields |-> View(o.fields[g], working')]
  <2>1. \A g \in DOMAIN old.fields : Valid(old.fields[g], working)
    BY <1>1, <1>2 DEF Closed
  <2>2. gs = fs
    BY <1>4, <1>7, <2>1
  <2>3. /\ store[id] = [tag |-> old.tag, cont |-> old.cont, fields |-> fs]
        /\ Shown(o, working') = [tag |-> o.tag, cont |-> o.cont, fields |-> gs]
    BY <1>9 DEF Shown
  <2> HIDE DEF fs, gs
  <2>4. [store[id] EXCEPT !.cont = TRUE] = [tag |-> old.tag, cont |-> TRUE, fields |-> fs]
    <3>1. \A d : [store[id] EXCEPT !.cont = d] = [tag |-> old.tag, cont |-> d, fields |-> fs]
      BY <2>3
    <3>2. QED
      BY <3>1, Zenon
  <2>5. Shown(o, working') = [tag |-> old.tag, cont |-> TRUE, fields |-> fs]
    BY <1>4, <2>2, <2>3
  <2>6. QED
    BY <2>4, <2>5, Zenon
<1>11. store[id].tag = "closure"
  BY <1>2, <1>9, FieldsShown
<1> HIDE DEF id
<1>12. store' = [store EXCEPT ![id].cont = TRUE] /\ DOMAIN store' = DOMAIN store
  BY <1>8, <1>10
<1>13. UNCHANGED <<internedView, argsView, selfView, localsView>>
  BY <1>7, PoolStep DEF MarkContinuation
<1>14. QED
  BY <1>9, <1>11, <1>12, <1>13 DEF Store!MarkContinuation

-----------------------------------------------------------------------------
(* Allocation.                                                             *)

\* The new objects of a pool that has grown are made of values that the program
\* holds, of arguments and of each other.
MadeOfHeld(q) ==
    \A a \in DOMAIN q.mem \ DOMAIN working.mem :
        /\ ~q.mem[a].cont
        /\ \A f \in DOMAIN q.mem[a].fields :
              q.mem[a].fields[f] \in Held \cup {args[i] : i \in DOMAIN args}
                                     \cup (DOMAIN q.mem \ DOMAIN working.mem)

LEMMA NewSeen ==
    ASSUME AtRest, AtRest', Extends(working', working), MadeOfHeld(working'),
           UNCHANGED <<interned, self>>, args' \in {args, <<>>},
           NEW v, v \in (DOMAIN working'.mem \ DOMAIN working.mem) \cup {VOID},
           locals' = locals \cup {v}
    PROVE  Store!New
<1> DEFINE W == working
           V == working'
           new == DOMAIN V.mem \ DOMAIN W.mem
           fresh == DOMAIN store' \ DOMAIN store
<1>1. /\ IsPool(W) /\ UniqueIds(W) /\ Closed(W) /\ RootsValid(W) /\ LocalsValid(W)
      /\ DOMAIN store = Ids(W)
      /\ \A a \in DOMAIN W.mem : store[W.mem[a].id] = Shown(W.mem[a], W)
      /\ args \in Seq(Val)
  BY RestFacts DEF Heap, RootTypes
<1>2. IsPool(V) /\ UniqueIds(V) /\ Closed(V) /\ store' = ShownPool(V)
  BY RestViews DEF AtRest, Heap, GoodPool, RestView
<1>3. /\ DOMAIN store' = Ids(V)
      /\ \A a \in DOMAIN V.mem : V.mem[a].id \in Ids(V) /\ store'[V.mem[a].id] = Shown(V.mem[a], V)
      /\ \A id \in Ids(V) : \E a \in DOMAIN V.mem : V.mem[a].id = id
  <2> HIDE DEF V
  <2>1. QED
    BY <1>2, ShownFacts
<1>4. DOMAIN W.mem \subseteq DOMAIN V.mem /\ \A a \in DOMAIN W.mem : V.mem[a] = W.mem[a]
  BY DEF Extends
<1>5. \A x : Valid(x, W) => View(x, V) = View(x, W)
  <2> HIDE DEF V, W
  <2>1. QED
    BY <1>4, ViewSame
<1>6. ASSUME NEW id \in DOMAIN store PROVE id \in DOMAIN store' /\ store'[id] = store[id]
  <2>1. PICK a \in DOMAIN W.mem : W.mem[a].id = id
    BY <1>1 DEF Ids
  <2>2. \A f \in DOMAIN W.mem[a].fields : View(W.mem[a].fields[f], V) = View(W.mem[a].fields[f], W)
    BY <1>1, <1>5 DEF Closed
  <2>3. Shown(W.mem[a], V) = Shown(W.mem[a], W)
    <3> HIDE DEF V, W
    <3>1. QED
      BY <2>2, ShownAlike
  <2>4. QED
    BY <1>1, <1>3, <1>4, <2>1, <2>3
<1>7. \A a \in new : V.mem[a].id \in fresh
  <2>1. SUFFICES ASSUME NEW a \in new, V.mem[a].id \in Ids(W) PROVE FALSE
    BY <1>1, <1>3
  <2>2. PICK b \in DOMAIN W.mem : W.mem[b].id = V.mem[a].id
    BY <2>1 DEF Ids
  <2>3. b \in DOMAIN V.mem /\ V.mem[b].id = V.mem[a].id /\ a \in DOMAIN V.mem
    BY <1>4, <2>1, <2>2
  <2>4. a = b
    BY <1>2, <2>3 DEF UniqueIds
  <2>5. QED
    BY <2>1, <2>4
<1>8. \A id \in fresh : \E a \in new : V.mem[a].id = id
  <2>1. SUFFICES ASSUME NEW id \in fresh PROVE \E a \in new : V.mem[a].id = id
    OBVIOUS
  <2>2. PICK a \in DOMAIN V.mem : V.mem[a].id = id
    BY <1>3
  <2>3. a \notin DOMAIN W.mem
    BY <1>1, <1>4, <2>1, <2>2 DEF Ids
  <2>4. QED
    BY <2>2, <2>3
<1>9. UNCHANGED <<internedView, selfView>> /\ argsView' \in {argsView, <<>>}
  <2>1. \A i \in DOMAIN interned : View(interned[i], V) = View(interned[i], W)
    BY <1>1, <1>5 DEF RootsValid
  <2>2. \A i \in DOMAIN args : View(args[i], V) = View(args[i], W)
    BY <1>1, <1>5 DEF RootsValid
  <2>3. View(self, V) = View(self, W)
    BY <1>1, <1>5 DEF RootsValid
  <2>4. /\ internedView = ViewSeq(interned, W) /\ internedView' = ViewSeq(interned, V)
        /\ argsView = ViewSeq(args, W) /\ argsView' = ViewSeq(args', V)
        /\ selfView = View(self, W) /\ selfView' = View(self, V)
    BY RestViews DEF RestView
  <2>5. ViewSeq(<<>>, V) = <<>>
    BY DEF ViewSeq
  <2> HIDE DEF V, W
  <2>6. UNCHANGED internedView
    BY <2>1, <2>4 DEF ViewSeq
  <2>7. ViewSeq(args, V) = argsView
    BY <2>2, <2>4 DEF ViewSeq
  <2>8. QED
    BY <2>3, <2>4, <2>5, <2>6, <2>7
<1>10. \A x \in Held : View(x, V) \in Store!Held
  BY <1>5, HeldFacts, HeldSeen
<1>11. \A i \in DOMAIN args : View(args[i], V) \in Store!Values(argsView)
  <2>1. argsView = ViewSeq(args, W) /\ \A i \in DOMAIN args : View(args[i], V) = View(args[i], W)
    BY <1>1, <1>5, RestViews DEF RestView, RootsValid
  <2> HIDE DEF V, W
  <2>2. QED
    BY <2>1 DEF Store!Values, ViewSeq
<1>12. \A a \in new : View(a, V) \in fresh
  <2>1. \A a \in new : a \in Val /\ a \in DOMAIN V.mem
    BY <1>2 DEF IsPool, Val
  <2>2. \A a \in new : View(a, V) = V.mem[a].id
    <3> HIDE DEF V
    <3>1. QED
      BY <1>2, <2>1, ViewFacts
  <2>3. QED
    BY <1>7, <2>2
<1>13. localsView' = localsView \cup {View(v, V)} /\ View(v, V) \in fresh \cup {VOID}
  <2>1. \A x \in locals : View(x, V) = View(x, W)
    BY <1>1, <1>5 DEF LocalsValid
  <2>2. localsView' = {View(x, V) : x \in locals \cup {v}} /\ localsView = {View(x, W) : x \in locals}
    BY DEF localsView
  <2>3. View(VOID, V) = VOID
    <3> HIDE DEF V
    <3>1. QED
      BY <1>2, ViewFacts, ValFacts
  <2> HIDE DEF V, W
  <2>4. localsView' = localsView \cup {View(v, V)}
    BY <2>1, <2>2
  <2>5. v \in new \/ v = VOID
    BY DEF V, W
  <2>6. QED
    BY <1>12, <2>3, <2>4, <2>5
<1>14. ASSUME NEW id \in fresh
       PROVE  /\ ~store'[id].cont
              /\ Store!Values(store'[id].fields) \subseteq Store!Held \cup Store!Values(argsView) \cup fresh
  <2>1. PICK a \in new : V.mem[a].id = id
    BY <1>8
  <2>2. /\ ~V.mem[a].cont
        /\ \A f \in DOMAIN V.mem[a].fields :
              V.mem[a].fields[f] \in Held \cup {args[i] : i \in DOMAIN args} \cup new
    BY <2>1 DEF MadeOfHeld
  <2>3. /\ store'[id].cont = V.mem[a].cont
        /\ DOMAIN store'[id].fields = DOMAIN V.mem[a].fields
        /\ \A f \in DOMAIN V.mem[a].fields : store'[id].fields[f] = View(V.mem[a].fields[f], V)
    BY <1>3, <2>1, FieldsShown
  <2> HIDE DEF V, W, new, fresh
  <2>4. \A f \in DOMAIN V.mem[a].fields :
            View(V.mem[a].fields[f], V) \in Store!Held \cup Store!Values(argsView) \cup fresh
    BY <1>10, <1>11, <1>12, <2>2
  <2>5. \A x \in Store!Values(store'[id].fields) : x \in Store!Held \cup Store!Values(argsView) \cup fresh
    BY <2>3, <2>4 DEF Store!Values
  <2>6. QED
    BY <2>2, <2>3, <2>5
<1> HIDE DEF V, W, new
<1>15. QED
  BY <1>6, <1>9, <1>13, <1>14 DEF Store!New

\* Where scm_heap_alloc puts an object, there is no other.
LEMMA AllocPlace ==
    ASSUME NEW p, GoodPool(p), NEW o, NEW q, q = Alloc(p, o)
    PROVE  /\ p.idx \in Nat /\ p.idx \notin DOMAIN p.mem
           /\ DOMAIN q.mem = DOMAIN p.mem \cup {p.idx} /\ q.mem[p.idx] = o
           /\ \A b \in DOMAIN p.mem : q.mem[b] = p.mem[b]
<1>1. IsPool(p) /\ Layout(p) /\ p.idx \in Nat
  BY DEF GoodPool, IsPool
<1>2. \A a \in DOMAIN p.mem : a \in Nat /\ Size(p.mem[a]) \in Nat /\ Size(p.mem[a]) >= 1
  BY <1>1, PoolObj
<1>3. p.idx \notin DOMAIN p.mem
  BY <1>1, <1>2 DEF Layout
<1>4. q.mem = At(p.mem, p.idx, o)
  BY DEF Alloc
<1>5. QED
  BY <1>1, <1>3, <1>4 DEF At

LEMMA NewStep ==
    ASSUME AtRest, AtRest', NEW tag, NEW fields, NEW bytes, NEW left \in {args, <<>>},
           New(tag, fields, bytes, left),
           \A f \in DOMAIN fields : fields[f] \in Held \cup {args[i] : i \in DOMAIN args}
    PROVE  Store!New \/ UNCHANGED <<working, interned, args, self, locals>>
<1> DEFINE o == Object(tag, FreshId(working), fields, bytes)
<1>0. CASE ~Fits(working, o)
  BY <1>0 DEF New, Fits
<1> SUFFICES ASSUME Fits(working, o) PROVE Store!New
  BY <1>0
<1>1. /\ working' = Alloc(working, o) /\ locals' = locals \cup {working.idx}
      /\ UNCHANGED <<interned, self>> /\ args' = left
  BY DEF New, Hold, Fits
<1>2. o.fields = fields /\ ~o.cont
  BY DEF Object
<1> HIDE DEF o
<1>3. /\ working.idx \in Nat /\ working.idx \notin DOMAIN working.mem
      /\ DOMAIN working'.mem = DOMAIN working.mem \cup {working.idx} /\ working'.mem[working.idx] = o
      /\ \A b \in DOMAIN working.mem : working'.mem[b] = working.mem[b]
  BY <1>1, RestFacts, AllocPlace
<1>4. Extends(working', working) /\ MadeOfHeld(working')
  BY <1>2, <1>3 DEF Extends, MadeOfHeld
<1>5. QED
  BY <1>1, <1>3, <1>4, NewSeen

LEMMA AllocationsStep ==
    ASSUME AtRest, AtRest',
           \/ \E x, y \in Held : Cons(x, y)
           \/ MakeBox \/ MakeClosure \/ PrimopVector
           \/ \E n \in Lengths.bytevector : PrimopMakeBytevector(n)
           \/ \E n \in Lengths.vector, x \in Held : PrimopMakeVector(n, x)
    PROVE  Store!New \/ UNCHANGED <<working, interned, args, self, locals>>
<1> DEFINE G == Store!New \/ UNCHANGED <<working, interned, args, self, locals>>
<1>1. ASSUME NEW x \in Held, NEW y \in Held, Cons(x, y) PROVE G
  <2> DEFINE fields == <<x, y>>
  <2>1. DOMAIN fields = 1 .. 2 /\ fields[1] = x /\ fields[2] = y
    OBVIOUS
  <2>2. New("pair", fields, 0, args)
    BY <1>1 DEF Cons
  <2> HIDE DEF fields
  <2>3. \A f \in DOMAIN fields : fields[f] \in Held
    BY <2>1
  <2>4. QED
    BY <2>2, <2>3, NewStep
<1>2. ASSUME MakeBox PROVE G
  <2> DEFINE fields == <<VOID>>
  <2>1. DOMAIN fields = 1 .. 1 /\ fields[1] = VOID
    OBVIOUS
  <2>2. New("box", fields, 0, args)
    BY <1>2 DEF MakeBox
  <2> HIDE DEF fields
  <2>3. \A f \in DOMAIN fields : fields[f] \in Held
    BY <2>1 DEF Held
  <2>4. QED
    BY <2>2, <2>3, NewStep
<1>3. ASSUME NEW n, PrimopMakeBytevector(n) PROVE G
  <2>1. DOMAIN <<>> = {}
    OBVIOUS
  <2>2. QED
    BY <1>3, <2>1, NewStep DEF PrimopMakeBytevector
<1>8. ASSUME NEW n, NEW x \in Held, PrimopMakeVector(n, x) PROVE G
  <2> DEFINE fields == [i \in 1 .. n |-> x]
  <2>1. \A f \in DOMAIN fields : fields[f] \in Held
    OBVIOUS
  <2>2. New("vector", fields, 0, args)
    BY <1>8 DEF PrimopMakeVector
  <2> HIDE DEF fields
  <2>3. QED
    BY <2>1, <2>2, NewStep
<1>4. \A f \in DOMAIN Popped : Popped[f] \in {args[i] : i \in DOMAIN args}
  <2>1. Len(args) \in Nat /\ DOMAIN args = 1 .. Len(args)
    BY RestFacts, ArgsFacts
  <2>2. DOMAIN Popped = 1 .. Len(args) /\ \A f \in 1 .. Len(args) : Popped[f] = args[Len(args) + 1 - f]
    BY DEF Popped
  <2>3. \A f \in 1 .. Len(args) : Len(args) + 1 - f \in DOMAIN args
    BY <2>1
  <2>4. QED
    BY <2>2, <2>3
<1>5. ASSUME MakeClosure PROVE G
  BY <1>4, <1>5, NewStep DEF MakeClosure
<1>6. ASSUME PrimopVector PROVE G
  BY <1>4, <1>6, NewStep DEF PrimopVector
<1>7. QED
  BY <1>1, <1>2, <1>3, <1>5, <1>6, <1>8

\* cons_rest: the list is made of the arguments and of its own pairs.
ListOfArgs(c, n) ==
    /\ ListIn(c, n) /\ MadeOfHeld(c.pool)
    /\ c.list \in (DOMAIN c.pool.mem \ DOMAIN working.mem) \cup {VOID}

LEMMA ConsOntoMade ==
    ASSUME AtRest, NEW c, NEW n \in Nat, ListOfArgs(c, n),
           Cardinality(DOMAIN working.mem) + n < MaxObjs,
           NEW i \in DOMAIN args
    PROVE  ListOfArgs(ConsOnto(c, args[i]), n + 1)
<1> DEFINE p == c.pool
           fields == <<args[i], c.list>>
           o == Object("pair", FreshId(p), fields, 0)
           q == Alloc(p, o)
<1>1. ListIn(c, n) /\ GoodPool(p) /\ Extends(p, working)
  BY DEF ListOfArgs, ListIn, Heap
<1>2. args[i] \in Val /\ Valid(args[i], working)
  BY RestFacts, ArgsFacts DEF RootsValid
<1>3. ListIn(ConsOnto(c, args[i]), n + 1)
  BY <1>1, <1>2, ConsOntoFacts
<1>4. ConsOnto(c, args[i]).pool = q /\ ConsOnto(c, args[i]).list = p.idx
  BY DEF ConsOnto
<1>5. DOMAIN fields = 1 .. 2 /\ fields[1] = args[i] /\ fields[2] = c.list
  OBVIOUS
<1> HIDE DEF fields
<1>6. o.fields = fields /\ ~o.cont
  BY DEF Object
<1> HIDE DEF o
<1>7. /\ p.idx \notin DOMAIN p.mem
      /\ DOMAIN q.mem = DOMAIN p.mem \cup {p.idx} /\ q.mem[p.idx] = o
      /\ \A b \in DOMAIN p.mem : q.mem[b] = p.mem[b]
  <2> HIDE DEF p
  <2>1. QED
    BY <1>1, AllocPlace
<1>8. /\ MadeOfHeld(p) /\ c.list \in (DOMAIN p.mem \ DOMAIN working.mem) \cup {VOID}
      /\ DOMAIN working.mem \subseteq DOMAIN p.mem /\ VOID \in Held
  BY <1>1 DEF ListOfArgs, Extends, Held
<1> HIDE DEF p, q
<1>9. MadeOfHeld(q)
  <2>1. ASSUME NEW a \in DOMAIN p.mem \ DOMAIN working.mem
        PROVE  /\ ~q.mem[a].cont
               /\ \A f \in DOMAIN q.mem[a].fields :
                     q.mem[a].fields[f] \in Held \cup {args[j] : j \in DOMAIN args}
                                            \cup (DOMAIN q.mem \ DOMAIN working.mem)
    BY <1>7, <1>8 DEF MadeOfHeld
  <2>2. /\ ~q.mem[p.idx].cont
        /\ \A f \in DOMAIN q.mem[p.idx].fields :
              q.mem[p.idx].fields[f] \in Held \cup {args[j] : j \in DOMAIN args}
                                         \cup (DOMAIN q.mem \ DOMAIN working.mem)
    BY <1>5, <1>6, <1>7, <1>8
  <2>3. QED
    BY <1>7, <2>1, <2>2 DEF MadeOfHeld
<1>10. p.idx \in DOMAIN q.mem \ DOMAIN working.mem
  BY <1>7, <1>8
<1>11. QED
  BY <1>3, <1>4, <1>9, <1>10 DEF ListOfArgs

LEMMA ConsRestStep ==
    ASSUME AtRest, AtRest', ConsRest
    PROVE  Store!New
<1>1. Len(args) \in Nat /\ DOMAIN args = 1 .. Len(args)
  BY RestFacts, ArgsFacts
<1>2. /\ Heap(working) /\ GoodPool(working) /\ Unforwarded(working)
      /\ Cardinality(DOMAIN working.mem) \in Nat
      /\ Cardinality(DOMAIN working.mem) + Len(args) <= MaxObjs
  BY DomainFinite DEF AtRest, Heap, ConsRest, Room
<1>3. ConsedArgs[0] = [pool |-> working, list |-> VOID]
      /\ \A n \in 1 .. Len(args) : ConsedArgs[n] = ConsOnto(ConsedArgs[n - 1], args[n])
  BY <1>1, ConsedArgsDef
<1>4. ListOfArgs(ConsedArgs[0], 0)
  BY <1>2, <1>3, ValFacts DEF ListOfArgs, ListIn, Extends, Valid, MadeOfHeld
<1> DEFINE T == {n \in 0 .. Len(args) : ~ListOfArgs(ConsedArgs[n], n)}
<1>5. T = {}
  <2>1. SUFFICES ASSUME T # {} PROVE FALSE
    OBVIOUS
  <2>2. PICK n \in T : \A j \in T : n <= j
    <3>1. T \subseteq Nat
      BY <1>1
    <3> HIDE DEF T
    <3>2. QED
      BY <2>1, <3>1, LeastNat
  <2>3. n \in 1 .. Len(args) /\ n - 1 \in Nat /\ n - 1 \in 0 .. Len(args) /\ n - 1 \notin T
    BY <1>1, <1>4, <2>2
  <2>4. ListOfArgs(ConsedArgs[n - 1], n - 1)
    BY <2>3
  <2>5. Cardinality(DOMAIN working.mem) + (n - 1) < MaxObjs
    BY <1>1, <1>2, <2>3, HeapAssumption
  <2>6. ListOfArgs(ConsOnto(ConsedArgs[n - 1], args[n]), (n - 1) + 1)
    BY <1>1, <2>3, <2>4, <2>5, ConsOntoMade
  <2>7. QED
    BY <1>3, <2>2, <2>3, <2>6
<1>6. ListOfArgs(ConsedArgs[Len(args)], Len(args))
  BY <1>1, <1>5
<1> DEFINE c == ConsedArgs[Len(args)]
<1>7. /\ working' = c.pool /\ locals' = locals \cup {c.list} /\ args' = <<>>
      /\ UNCHANGED <<interned, self>>
  BY DEF ConsRest, Hold
<1> HIDE DEF c
<1>8. /\ Extends(working', working) /\ MadeOfHeld(working')
      /\ c.list \in (DOMAIN working'.mem \ DOMAIN working.mem) \cup {VOID}
  BY <1>6, <1>7 DEF ListOfArgs, ListIn, c
<1>9. QED
  BY <1>7, <1>8, NewSeen

\* Every operation of a program is one on the store, or overruns the pool.
LEMMA MutateStep ==
    ASSUME AtRest, Mutate
    PROVE  Store!Next \/ UNCHANGED Store!vars
<1>1. AtRest'
  BY MutateKeeps
<1>2. ASSUME NEW v \in Held, Push(v) \/ Push(Flat(v)) PROVE Store!Push
  <2>1. /\ v \in Val /\ View(v, working) \in Store!Known
        /\ Flat(v) \in Val /\ View(Flat(v), working) \in Store!Known
    BY HeldFacts, FlatFacts, FlatSeen
  <2>2. QED
    BY <1>1, <1>2, <2>1, PushStep
<1>3. \/ Store!New \/ Store!Load \/ Store!SetField \/ Store!MarkContinuation
      \/ Store!Push \/ Store!Pop \/ Store!Call
      \/ UNCHANGED <<working, interned, args, self, locals>>
  BY <1>1, <1>2, AllocationsStep, ConsRestStep, LoadStep, LoadConstantStep, SetFieldStep, MarkStep,
     PopStep, TailCallStep DEF Mutate
<1>4. ASSUME UNCHANGED <<working, interned, args, self, locals>> PROVE UNCHANGED Store!vars
  <2>1. RestView /\ RestView'
    BY <1>1, RestViews
  <2>2. QED
    BY <1>4, <2>1 DEF RestView, Store!vars, localsView
<1>5. QED
  BY <1>3, <1>4 DEF Store!Next

-----------------------------------------------------------------------------
(* A collection.                                                           *)

\* A copy shows what the original shows, whatever has become of its fields.
Same(W, F, T) ==
    \A a \in DOMAIN W.mem : W.mem[a].fref # 0 =>
        LET b == W.mem[a].fref IN
        /\ F.mem[b].cont = W.mem[a].cont
        /\ \A f \in DOMAIN W.mem[a].fields :
              View(F.mem[b].fields[f], Home(FieldCell(b, f), T, W, F)) = View(W.mem[a].fields[f], W)

\* Only what the program can reach is copied.
Reached == \A S \in SUBSET DOMAIN store : Store!Covers(S) => Ids(free) \subseteq S

StoreInv == phase = "gc" => Same(working, free, Todo) /\ Reached

\* The roots and the copies there were show what they showed before.
RootsSeen(W, F, T, I, A, S, W2, F2, T2, I2, A2, S2) ==
    /\ DOMAIN I2 = DOMAIN I
    /\ \A i \in DOMAIN I :
          View(I2[i], Home(InternCell(i), T2, W2, F2)) = View(I[i], Home(InternCell(i), T, W, F))
    /\ DOMAIN A2 = DOMAIN A
    /\ \A i \in DOMAIN A :
          View(A2[i], Home(ArgCell(i), T2, W2, F2)) = View(A[i], Home(ArgCell(i), T, W, F))
    /\ View(S2, Home(SelfCell, T2, W2, F2)) = View(S, Home(SelfCell, T, W, F))

CopiesSeen(W, F, T, W2, F2, T2) ==
    \A b \in DOMAIN F.mem :
        /\ b \in DOMAIN F2.mem /\ F2.mem[b].id = F.mem[b].id /\ F2.mem[b].cont = F.mem[b].cont
        /\ DOMAIN F2.mem[b].fields = DOMAIN F.mem[b].fields
        /\ \A f \in DOMAIN F.mem[b].fields :
              View(F2.mem[b].fields[f], Home(FieldCell(b, f), T2, W2, F2))
                 = View(F.mem[b].fields[f], Home(FieldCell(b, f), T, W, F))

\* A copy is made: its fields are those of the original, which have yet to be visited.
LEMMA CopySeen ==
    ASSUME NEW W, NEW F, NEW T, NEW I, NEW A, NEW S, Copying(W, F, T, I, A, S), Same(W, F, T),
           NEW v, NEW W1, NEW P, Copied(W, F, v, W1, P),
           NEW N, N = NewCells(F.idx, Len(W.mem[v].fields))
    PROVE  /\ RootsSeen(W, F, T, I, A, S, W1, P, T \cup N, I, A, S)
           /\ CopiesSeen(W, F, T, W1, P, T \cup N)
           /\ Same(W1, P, T \cup N)
           /\ ShownPool(W1) = ShownPool(W) /\ Ids(P) = Ids(F) \cup {W.mem[v].id}
<1> DEFINE U == T \cup N
<1>1. /\ Spaces(W, F) /\ Heap(W) /\ IsPool(W) /\ UniqueIds(W) /\ Closed(W) /\ GoodPool(F) /\ IsPool(F)
      /\ v \in DOMAIN W.mem /\ W.mem[v].fref = 0
      /\ RootsHome(W, F, T, I, A, S) /\ FieldsHome(W, F, T)
  BY DEF Copying, Spaces, Heap, GoodPool, Copied
<1>2. /\ F.idx \notin DOMAIN F.mem
      /\ DOMAIN P.mem = DOMAIN F.mem \cup {F.idx}
      /\ P.mem[F.idx] = W.mem[v]
      /\ \A b \in DOMAIN F.mem : P.mem[b] = F.mem[b]
  BY <1>1, CopySpaces
<1>3. /\ DOMAIN W1.mem = DOMAIN W.mem /\ W1.mem[v].fref = F.idx
      /\ \A a \in DOMAIN W.mem : a # v => W1.mem[a] = W.mem[a]
      /\ \A a \in DOMAIN W.mem :
            W1.mem[a].tag = W.mem[a].tag /\ W1.mem[a].id = W.mem[a].id
            /\ W1.mem[a].fields = W.mem[a].fields /\ W1.mem[a].cont = W.mem[a].cont
  BY <1>1, ForwardFacts
<1>4. \A u : Valid(u, W) => View(u, W1) = View(u, W)
  BY <1>3, ViewSame
<1>5. \A u : Valid(u, F) => View(u, P) = View(u, F)
  BY <1>2, ViewSame
<1>6. \A c : c \notin N => \A u : Valid(u, Home(c, T, W, F)) => View(u, Home(c, U, W1, P)) = View(u, Home(c, T, W, F))
  BY <1>4, <1>5 DEF Home
<1>7. /\ \A i : InternCell(i) \notin N /\ ArgCell(i) \notin N
      /\ SelfCell \notin N
      /\ \A b, f : b # F.idx => FieldCell(b, f) \notin N
  BY CellFacts DEF NewCells
<1>8. DOMAIN W.mem[v].fields = 1 .. Len(W.mem[v].fields)
  BY <1>1, PoolObj
<1>9. \A f \in DOMAIN W.mem[v].fields : FieldCell(F.idx, f) \in U
  BY <1>8 DEF NewCells
<1>10. RootsSeen(W, F, T, I, A, S, W1, P, U, I, A, S)
  <2> HIDE DEF U
  <2>1. QED
    BY <1>1, <1>6, <1>7 DEF RootsHome, RootsSeen
<1>11. CopiesSeen(W, F, T, W1, P, U)
  <2>1. \A b \in DOMAIN F.mem : b # F.idx
    BY <1>2
  <2> HIDE DEF U
  <2>2. QED
    BY <1>1, <1>2, <1>6, <1>7, <2>1 DEF FieldsHome, CopiesSeen
<1>12. Same(W1, P, U)
  <2>1. SUFFICES ASSUME NEW a \in DOMAIN W.mem, W1.mem[a].fref # 0
                 PROVE  LET b == W1.mem[a].fref IN
                        /\ P.mem[b].cont = W1.mem[a].cont
                        /\ \A f \in DOMAIN W1.mem[a].fields :
                              View(P.mem[b].fields[f], Home(FieldCell(b, f), U, W1, P))
                                 = View(W1.mem[a].fields[f], W1)
    BY <1>3 DEF Same
  <2>2. \A f \in DOMAIN W.mem[a].fields : View(W.mem[a].fields[f], W1) = View(W.mem[a].fields[f], W)
    BY <1>1, <1>4 DEF Closed
  <2>3. CASE a = v
    <3>1. W1.mem[a].fref = F.idx /\ P.mem[F.idx].cont = W1.mem[a].cont
          /\ P.mem[F.idx].fields = W1.mem[a].fields /\ W1.mem[a].fields = W.mem[v].fields
      BY <1>2, <1>3, <2>3
    <3>2. \A f \in DOMAIN W1.mem[a].fields : Home(FieldCell(F.idx, f), U, W1, P) = W1
      BY <1>9, <3>1 DEF Home
    <3>3. QED
      BY <3>1, <3>2
  <2>4. CASE a # v
    <3> DEFINE b == W.mem[a].fref
    <3>1. W1.mem[a] = W.mem[a] /\ W.mem[a].fref # 0
      BY <1>3, <2>1, <2>4
    <3>2. b \in DOMAIN F.mem /\ Len(F.mem[b].fields) = Len(W.mem[a].fields)
      BY <1>1, <3>1 DEF Spaces, IsCopy
    <3>3. DOMAIN F.mem[b].fields = DOMAIN W.mem[a].fields
      BY <1>1, <3>2, PoolObj
    <3>4. /\ F.mem[b].cont = W.mem[a].cont
          /\ \A f \in DOMAIN W.mem[a].fields :
                View(F.mem[b].fields[f], Home(FieldCell(b, f), T, W, F)) = View(W.mem[a].fields[f], W)
      BY <3>1 DEF Same
    <3> HIDE DEF b, U
    <3>5. /\ P.mem[b].cont = W.mem[a].cont
          /\ \A f \in DOMAIN W.mem[a].fields :
                View(P.mem[b].fields[f], Home(FieldCell(b, f), U, W1, P)) = View(W.mem[a].fields[f], W)
      BY <1>11, <3>2, <3>3, <3>4 DEF CopiesSeen
    <3>6. QED
      BY <2>2, <3>1, <3>5 DEF b
  <2>5. QED
    BY <2>3, <2>4
<1>13. ShownPool(W1) = ShownPool(W)
  <2>1. /\ ShownPool(W1) = [ShownPool(W) EXCEPT ![W.mem[v].id] = Shown(W1.mem[v], W1)]
    BY <1>1, <1>3, ShownReplaced
  <2>2. Shown(W1.mem[v], W1) = Shown(W.mem[v], W)
    <3>1. \A f \in DOMAIN W.mem[v].fields : View(W1.mem[v].fields[f], W1) = View(W.mem[v].fields[f], W)
      BY <1>1, <1>3, <1>4 DEF Closed
    <3>2. QED
      BY <1>1, <1>3, <3>1, ShownAlike
  <2>3. /\ W.mem[v].id \in DOMAIN ShownPool(W) /\ ShownPool(W)[W.mem[v].id] = Shown(W.mem[v], W)
    BY <1>1, ShownFacts
  <2>4. ShownPool(W) = [id \in DOMAIN ShownPool(W) |-> ShownPool(W)[id]]
    BY DEF ShownPool
  <2>5. QED
    BY <2>1, <2>2, <2>3, <2>4
<1>14. Ids(P) = Ids(F) \cup {W.mem[v].id}
  BY <1>2 DEF Ids
<1>15. QED
  BY <1>10, <1>11, <1>12, <1>13, <1>14

\* The value y of cell x becomes z when c, which held v, is assigned m.
Assigned(x, y, z, c, v, m) == IF x = c THEN y = v /\ z = m ELSE z = y

LEMMA CellsWritten ==
    ASSUME NEW W, NEW F, NEW T, NEW I, NEW A, NEW S, Copying(W, F, T, I, A, S),
           NEW c \in T, NEW v, Holds(c, v, F, I, A, S), NEW m \in Val,
           NEW F2, NEW I2, NEW A2, NEW S2, Written(c, m, F, I, A, S, F2, I2, A2, S2)
    PROVE  /\ DOMAIN I2 = DOMAIN I /\ \A i \in DOMAIN I : Assigned(InternCell(i), I[i], I2[i], c, v, m)
           /\ DOMAIN A2 = DOMAIN A /\ \A i \in DOMAIN A : Assigned(ArgCell(i), A[i], A2[i], c, v, m)
           /\ Assigned(SelfCell, S, S2, c, v, m)
           /\ DOMAIN F2.mem = DOMAIN F.mem
           /\ \A b \in DOMAIN F.mem :
                 /\ F2.mem[b].id = F.mem[b].id /\ F2.mem[b].cont = F.mem[b].cont
                 /\ DOMAIN F2.mem[b].fields = DOMAIN F.mem[b].fields
                 /\ \A f \in DOMAIN F.mem[b].fields :
                       Assigned(FieldCell(b, f), F.mem[b].fields[f], F2.mem[b].fields[f], c, v, m)
<1>1. GoodPool(F) /\ I \in Seq(Val) /\ A \in Seq(Val)
  BY DEF Copying, Spaces
<1> DEFINE Goal == /\ DOMAIN I2 = DOMAIN I /\ \A i \in DOMAIN I : Assigned(InternCell(i), I[i], I2[i], c, v, m)
                   /\ DOMAIN A2 = DOMAIN A /\ \A i \in DOMAIN A : Assigned(ArgCell(i), A[i], A2[i], c, v, m)
                   /\ Assigned(SelfCell, S, S2, c, v, m)
                   /\ DOMAIN F2.mem = DOMAIN F.mem
                   /\ \A b \in DOMAIN F.mem :
                         /\ F2.mem[b].id = F.mem[b].id /\ F2.mem[b].cont = F.mem[b].cont
                         /\ DOMAIN F2.mem[b].fields = DOMAIN F.mem[b].fields
                         /\ \A f \in DOMAIN F.mem[b].fields :
                               Assigned(FieldCell(b, f), F.mem[b].fields[f], F2.mem[b].fields[f], c, v, m)
<1>2. ASSUME NEW i \in DOMAIN I, c = InternCell(i), v = I[i] PROVE Goal
  <2>1. c[1] = "interned" /\ c[2] = i
    BY <1>2 DEF InternCell
  <2>2. F2 = F /\ I2 = [I EXCEPT ![i] = m] /\ A2 = A /\ S2 = S
    BY <2>1 DEF Written
  <2>3. DOMAIN I2 = DOMAIN I /\ I2[i] = m /\ \A j \in DOMAIN I : j # i => I2[j] = I[j]
    BY <1>1, <2>2, ExceptFacts
  <2>4. QED
    BY <1>2, <2>2, <2>3, CellFacts DEF Assigned
<1>3. ASSUME NEW i \in DOMAIN A, c = ArgCell(i), v = A[i] PROVE Goal
  <2>1. c[1] = "arg" /\ c[2] = i
    BY <1>3 DEF ArgCell
  <2>2. F2 = F /\ I2 = I /\ A2 = [A EXCEPT ![i] = m] /\ S2 = S
    BY <2>1 DEF Written
  <2>3. DOMAIN A2 = DOMAIN A /\ A2[i] = m /\ \A j \in DOMAIN A : j # i => A2[j] = A[j]
    BY <1>1, <2>2, ExceptFacts
  <2>4. QED
    BY <1>3, <2>2, <2>3, CellFacts DEF Assigned
<1>4. ASSUME c = SelfCell, v = S PROVE Goal
  <2>1. c[1] = "self"
    BY <1>4 DEF SelfCell
  <2>2. F2 = F /\ I2 = I /\ A2 = A /\ S2 = m
    BY <2>1 DEF Written
  <2>3. QED
    BY <1>4, <2>2, CellFacts DEF Assigned
<1>5. ASSUME NEW b \in DOMAIN F.mem, NEW f \in DOMAIN F.mem[b].fields,
             c = FieldCell(b, f), v = F.mem[b].fields[f]
      PROVE  Goal
  <2>1. c[1] = "field" /\ c[2] = b /\ c[3] = f
    BY <1>5 DEF FieldCell
  <2>2. F2 = [F EXCEPT !.mem[b].fields[f] = m] /\ I2 = I /\ A2 = A /\ S2 = S
    BY <2>1 DEF Written
  <2>3. FieldSet(F, b, f, m, F2)
    BY <2>2 DEF FieldSet
  <2>4. I2 = I /\ A2 = A /\ S2 = S
    BY <2>2
  <2>5. PICK o : Replaced(F, b, o, F2) /\ FieldChanged(F, b, f, m, o)
    BY <1>1, <2>3, FieldUpdate
  <2>6. /\ DOMAIN F2.mem = DOMAIN F.mem /\ F2.mem[b] = o
        /\ \A a \in DOMAIN F.mem : a # b => F2.mem[a] = F.mem[a]
        /\ \A a \in DOMAIN F.mem : F2.mem[a].id = F.mem[a].id
    BY <1>1, <2>5, Replacing
  <2>7. /\ o.cont = F.mem[b].cont
        /\ DOMAIN o.fields = DOMAIN F.mem[b].fields /\ o.fields[f] = m
        /\ \A g \in DOMAIN o.fields : g # f => o.fields[g] = F.mem[b].fields[g]
    BY <2>5 DEF FieldChanged
  <2>8. ASSUME NEW a \in DOMAIN F.mem
        PROVE  /\ F2.mem[a].id = F.mem[a].id /\ F2.mem[a].cont = F.mem[a].cont
               /\ DOMAIN F2.mem[a].fields = DOMAIN F.mem[a].fields
               /\ \A g \in DOMAIN F.mem[a].fields :
                     Assigned(FieldCell(a, g), F.mem[a].fields[g], F2.mem[a].fields[g], c, v, m)
    <3>1. CASE a = b
      BY <1>5, <2>6, <2>7, <3>1, CellFacts DEF Assigned
    <3>2. CASE a # b
      BY <1>5, <2>6, <3>2, CellFacts DEF Assigned
    <3>3. QED
      BY <3>1, <3>2
  <2>9. QED
    BY <1>5, <2>4, <2>6, <2>8, CellFacts DEF Assigned
<1>6. Goal
  <2> HIDE DEF Goal
  <2>1. QED
    BY <1>2, <1>3, <1>4, <1>5 DEF Holds
<1>7. QED
  BY <1>6

\* The cell is visited: it refers to the copy, and shows the same object.
LEMMA SettleSeen ==
    ASSUME NEW W, NEW F, NEW T, NEW I, NEW A, NEW S, Copying(W, F, T, I, A, S), Same(W, F, T),
           NEW c \in T, NEW v, Holds(c, v, F, I, A, S), SettledIn(v, W),
           NEW F2, NEW I2, NEW A2, NEW S2, Written(c, MovedIn(v, W), F, I, A, S, F2, I2, A2, S2)
    PROVE  /\ RootsSeen(W, F, T, I, A, S, W, F2, T \ {c}, I2, A2, S2)
           /\ CopiesSeen(W, F, T, W, F2, T \ {c})
           /\ Same(W, F2, T \ {c}) /\ Ids(F2) = Ids(F)
<1> DEFINE m == MovedIn(v, W)
           U == T \ {c}
<1>1. Spaces(W, F) /\ IsPool(W) /\ IsPool(F) /\ RootsHome(W, F, T, I, A, S) /\ FieldsHome(W, F, T)
  BY DEF Copying, Spaces, Heap, GoodPool
<1>2. v \in Val /\ Valid(v, W)
  BY HoldsFacts
<1>3. m \in Val /\ Valid(m, F)
  BY <1>1, <1>2, MovedFacts
<1>4. View(m, F) = View(v, W)
  <2>1. CASE IsRef(v)
    <3>1. v \in DOMAIN W.mem /\ W.mem[v].fref # 0 /\ m = W.mem[v].fref
      BY <1>2, <2>1 DEF Valid, SettledIn, MovedIn
    <3>2. m \in DOMAIN F.mem /\ F.mem[m].id = W.mem[v].id
      BY <1>1, <3>1 DEF Spaces, IsCopy
    <3> HIDE DEF m
    <3>3. QED
      BY <1>1, <1>2, <1>3, <3>1, <3>2, ViewFacts
  <2>2. CASE ~IsRef(v)
    <3>1. m = v
      BY <2>2 DEF MovedIn
    <3> HIDE DEF m
    <3>2. QED
      BY <1>1, <1>2, <2>2, <3>1, ViewFacts
  <2>3. QED
    BY <2>1, <2>2
<1>5. Written(c, m, F, I, A, S, F2, I2, A2, S2)
  OBVIOUS
<1> HIDE DEF m
<1>6. /\ DOMAIN I2 = DOMAIN I /\ \A i \in DOMAIN I : Assigned(InternCell(i), I[i], I2[i], c, v, m)
      /\ DOMAIN A2 = DOMAIN A /\ \A i \in DOMAIN A : Assigned(ArgCell(i), A[i], A2[i], c, v, m)
      /\ Assigned(SelfCell, S, S2, c, v, m)
      /\ DOMAIN F2.mem = DOMAIN F.mem
      /\ \A b \in DOMAIN F.mem :
            /\ F2.mem[b].id = F.mem[b].id /\ F2.mem[b].cont = F.mem[b].cont
            /\ DOMAIN F2.mem[b].fields = DOMAIN F.mem[b].fields
            /\ \A f \in DOMAIN F.mem[b].fields :
                  Assigned(FieldCell(b, f), F.mem[b].fields[f], F2.mem[b].fields[f], c, v, m)
  BY <1>3, <1>5, CellsWritten
<1>7. \A u : Valid(u, F) => View(u, F2) = View(u, F)
  BY <1>6, ViewSame
<1>8. ASSUME NEW x, NEW y, NEW z, Assigned(x, y, z, c, v, m), Valid(y, Home(x, T, W, F))
      PROVE  View(z, Home(x, U, W, F2)) = View(y, Home(x, T, W, F))
  <2>1. CASE x = c
    <3>1. y = v /\ z = m /\ Home(x, U, W, F2) = F2 /\ Home(x, T, W, F) = W
      BY <1>8, <2>1 DEF Assigned, Home
    <3>2. QED
      BY <1>3, <1>4, <1>7, <3>1
  <2>2. CASE x # c
    <3>1. z = y /\ (x \in U <=> x \in T)
      BY <1>8, <2>2 DEF Assigned
    <3>2. QED
      BY <1>7, <1>8, <3>1 DEF Home
  <2>3. QED
    BY <2>1, <2>2
<1> HIDE DEF U
<1>9. RootsSeen(W, F, T, I, A, S, W, F2, U, I2, A2, S2)
  BY <1>1, <1>6, <1>8 DEF RootsHome, RootsSeen
<1>10. CopiesSeen(W, F, T, W, F2, U)
  BY <1>1, <1>6, <1>8 DEF FieldsHome, CopiesSeen
<1>11. Same(W, F2, U)
  <2>1. SUFFICES ASSUME NEW a \in DOMAIN W.mem, W.mem[a].fref # 0
                 PROVE  LET b == W.mem[a].fref IN
                        /\ F2.mem[b].cont = W.mem[a].cont
                        /\ \A f \in DOMAIN W.mem[a].fields :
                              View(F2.mem[b].fields[f], Home(FieldCell(b, f), U, W, F2))
                                 = View(W.mem[a].fields[f], W)
    BY DEF Same
  <2> DEFINE b == W.mem[a].fref
  <2>2. b \in DOMAIN F.mem /\ Len(F.mem[b].fields) = Len(W.mem[a].fields)
    BY <1>1, <2>1 DEF Spaces, IsCopy
  <2>3. DOMAIN F.mem[b].fields = DOMAIN W.mem[a].fields
    BY <1>1, <2>2, PoolObj
  <2>4. /\ F.mem[b].cont = W.mem[a].cont
        /\ \A f \in DOMAIN W.mem[a].fields :
              View(F.mem[b].fields[f], Home(FieldCell(b, f), T, W, F)) = View(W.mem[a].fields[f], W)
    BY <2>1 DEF Same
  <2> HIDE DEF b
  <2>5. /\ F2.mem[b].cont = W.mem[a].cont
        /\ \A f \in DOMAIN W.mem[a].fields :
              View(F2.mem[b].fields[f], Home(FieldCell(b, f), U, W, F2)) = View(W.mem[a].fields[f], W)
    BY <1>10, <2>2, <2>3, <2>4 DEF CopiesSeen
  <2>6. QED
    BY <2>5 DEF b
<1>12. Ids(F2) = Ids(F)
  BY <1>6 DEF Ids
<1>13. QED
  BY <1>9, <1>10, <1>11, <1>12 DEF U

\* What the program sees while a collection is going on.
GcView ==
    /\ internedView = [i \in DOMAIN interned |-> View(interned[i], Home(InternCell(i), Todo, working, free))]
    /\ argsView = [i \in DOMAIN args |-> View(args[i], Home(ArgCell(i), Todo, working, free))]
    /\ selfView = View(self, Home(SelfCell, Todo, working, free))
    /\ store = ShownPool(working)

LEMMA GcViews == (phase = "gc" => GcView) /\ (phase' = "gc" => GcView')
<1>1. phase = "gc" => GcView
  BY StoreIsShown DEF GcView, internedView, argsView, selfView, PoolOf, Home
<1>2. phase' = "gc" => GcView'
  BY DEF GcView, internedView, argsView, selfView, PoolOf, Home, store, ShownPool, Shown
<1>3. QED
  BY <1>1, <1>2

LEMMA GcFacts ==
    ASSUME Collecting
    PROVE  /\ Copying(working, free, Todo, interned, args, self) /\ Spaces(working, free)
           /\ Heap(working) /\ IsPool(working) /\ UniqueIds(working) /\ Closed(working)
           /\ GoodPool(free) /\ IsPool(free) /\ locals = {} /\ RootTypes
           /\ DOMAIN store = Ids(working)
           /\ \A a \in DOMAIN working.mem : store[working.mem[a].id] = Shown(working.mem[a], working)
<1>1. /\ Copying(working, free, Todo, interned, args, self) /\ Spaces(working, free)
      /\ Heap(working) /\ IsPool(working) /\ UniqueIds(working) /\ Closed(working)
      /\ GoodPool(free) /\ IsPool(free) /\ locals = {} /\ RootTypes
  BY DEF Collecting, Copying, Spaces, Heap, GoodPool
<1>2. QED
  BY <1>1, StoreIsShown, ShownFacts

LEMMA SeenTwice ==
    ASSUME NEW W, NEW F, NEW T, NEW I, NEW A, NEW S,
           NEW W1, NEW F1, NEW T1, RootsSeen(W, F, T, I, A, S, W1, F1, T1, I, A, S),
           NEW W2, NEW F2, NEW T2, NEW I2, NEW A2, NEW S2,
           RootsSeen(W1, F1, T1, I, A, S, W2, F2, T2, I2, A2, S2)
    PROVE  RootsSeen(W, F, T, I, A, S, W2, F2, T2, I2, A2, S2)
BY DEF RootsSeen

\* A step of the collector that the program does not see.
LEMMA Unseen ==
    ASSUME phase = "gc", phase' = "gc", ShownPool(working') = ShownPool(working),
           RootsSeen(working, free, Todo, interned, args, self,
                     working', free', Todo', interned', args', self'),
           locals = {}, locals' = {}
    PROVE  UNCHANGED <<store, internedView, argsView, selfView, localsView>>
<1>1. GcView /\ GcView'
  BY GcViews
<1>2. UNCHANGED internedView
  BY <1>1 DEF GcView, RootsSeen
<1>3. UNCHANGED argsView
  BY <1>1 DEF GcView, RootsSeen
<1>4. UNCHANGED <<store, selfView>>
  BY <1>1 DEF GcView, RootsSeen
<1>5. UNCHANGED localsView
  BY DEF localsView
<1>6. QED
  BY <1>2, <1>3, <1>4, <1>5

\* A set that holds all the program can reach, and so all that has been copied,
\* holds the object that a cell refers to.
LEMMA CellReached ==
    ASSUME Collecting, phase = "gc", Same(working, free, Todo),
           NEW c \in Todo, NEW v, Holds(c, v, free, interned, args, self), IsRef(v),
           NEW S \in SUBSET DOMAIN store, Store!Covers(S), Ids(free) \subseteq S
    PROVE  working.mem[v].id \in S
<1> DEFINE id == working.mem[v].id
<1>1. v \in Val /\ Valid(v, working) /\ v \in DOMAIN working.mem
  BY GcFacts, HoldsFacts DEF Valid
<1>2. View(v, working) = id
  BY <1>1, GcFacts, ViewFacts
<1>3. id \notin {VOID} \cup Inexact
  <2>1. id \in Ids(working)
    BY <1>1 DEF Ids
  <2>2. QED
    BY <2>1, GcFacts, IdsFacts DEF Imm
<1>4. GcView
  BY GcViews
<1>5. Home(c, Todo, working, free) = working
  BY DEF Home
<1> HIDE DEF id
<1>6. ASSUME NEW i \in DOMAIN interned, c = InternCell(i), v = interned[i] PROVE id \in S
  <2>1. i \in DOMAIN internedView /\ internedView[i] = id
    BY <1>2, <1>4, <1>5, <1>6 DEF GcView
  <2>2. id \in Store!Held
    BY <2>1 DEF Store!Held, Store!Values
  <2>3. QED
    BY <1>3, <2>2 DEF Store!Covers
<1>7. ASSUME NEW i \in DOMAIN args, c = ArgCell(i), v = args[i] PROVE id \in S
  <2>1. i \in DOMAIN argsView /\ argsView[i] = id
    BY <1>2, <1>4, <1>5, <1>7 DEF GcView
  <2>2. id \in Store!Values(argsView)
    BY <2>1 DEF Store!Values
  <2>3. QED
    BY <1>3, <2>2 DEF Store!Covers
<1>8. ASSUME c = SelfCell, v = self PROVE id \in S
  <2>1. selfView = id
    BY <1>2, <1>4, <1>5, <1>8 DEF GcView
  <2>2. id \in Store!Held
    BY <2>1 DEF Store!Held
  <2>3. QED
    BY <1>3, <2>2 DEF Store!Covers
<1>9. ASSUME NEW b \in DOMAIN free.mem, NEW f \in DOMAIN free.mem[b].fields,
             c = FieldCell(b, f), v = free.mem[b].fields[f]
      PROVE  id \in S
  <2>1. PICK a \in DOMAIN working.mem : working.mem[a].fref = b
    BY GcFacts DEF Spaces
  <2>2. b # 0
    BY GcFacts DEF GoodPool, Layout
  <2>3. free.mem[b].id = working.mem[a].id /\ Len(free.mem[b].fields) = Len(working.mem[a].fields)
    BY <2>1, <2>2, GcFacts DEF Spaces, IsCopy
  <2>4. f \in DOMAIN working.mem[a].fields
    BY <2>3, GcFacts, PoolObj
  <2>5. View(working.mem[a].fields[f], working) = id
    BY <1>2, <1>5, <1>9, <2>1, <2>2, <2>4 DEF Same
  <2> DEFINE owner == working.mem[a].id
  <2>6. owner \in S
    BY <2>3 DEF Ids
  <2>7. f \in DOMAIN store[owner].fields /\ store[owner].fields[f] = id
    BY <2>4, <2>5, GcFacts, FieldsShown
  <2> HIDE DEF owner
  <2>8. id \in Store!Fields(S)
    <3>1. id \in Store!Values(store[owner].fields)
      BY <2>7 DEF Store!Values
    <3>2. QED
      BY <2>6, <3>1 DEF Store!Fields
  <2>9. QED
    BY <1>3, <2>8 DEF Store!Covers
<1>10. QED
  BY <1>6, <1>7, <1>8, <1>9 DEF Holds, id

\* One call of scm_collect_value changes nothing for the program.
LEMMA CollectStep ==
    ASSUME Collecting, phase = "gc", CollectValue, Same(working, free, Todo), Reached
    PROVE  /\ UNCHANGED <<store, internedView, argsView, selfView, localsView>>
           /\ Same(working, free, Todo)' /\ Reached'
<1> DEFINE c == Head(todo)
           v == CellValue(c)
           m == Moved(v)
           I == interned
           A == args
           S == self
<1>1. /\ todo \in Seq(Cell) /\ todo # <<>> /\ Injective(todo) /\ Todo = Elements(todo)
      /\ Copying(working, free, Todo, I, A, S) /\ locals = {}
  BY DEF Collecting, CollectValue, Todo, Elements
<1>2. c \in Todo /\ Elements(Tail(todo)) = Todo \ {c}
  BY <1>1, TailInjective
<1>3. Holds(c, v, free, I, A, S)
  BY <1>1, <1>2, CellValueHeld DEF Copying
<1>4. v \in Val /\ Valid(v, working)
  BY <1>1, <1>2, <1>3, HoldsFacts
<1>5. phase' = "gc" /\ locals' = {}
  BY <1>1 DEF CollectValue
<1>6. /\ RootsSeen(working, free, Todo, I, A, S, working', free', Todo', interned', args', self')
      /\ Same(working', free', Todo') /\ ShownPool(working') = ShownPool(working)
      /\ Ids(free') \subseteq Ids(free) \cup (IF IsRef(v) THEN {working.mem[v].id} ELSE {})
  <2>1. CASE Settled(v)
    <3>1. /\ working' = working /\ todo' = Tail(todo)
          /\ Written(c, m, free, I, A, S, free', interned', args', self')
      BY <2>1 DEF CollectValue, Written
    <3>2. SettledIn(v, working) /\ m = MovedIn(v, working)
      BY <2>1 DEF Settled, SettledIn, Moved, MovedIn
    <3>3. Todo' = Todo \ {c}
      BY <1>2, <3>1 DEF Todo, Elements
    <3>4. Written(c, MovedIn(v, working), free, I, A, S, free', interned', args', self')
      BY <3>1, <3>2
    <3> HIDE DEF c, v, m
    <3>5. /\ RootsSeen(working, free, Todo, I, A, S, working, free', Todo \ {c}, interned', args', self')
          /\ Same(working, free', Todo \ {c}) /\ Ids(free') = Ids(free)
      <4>1. Copying(working, free, Todo, I, A, S) /\ c \in Todo /\ SettledIn(v, working)
        BY <1>1, <1>2, <3>2
      <4>2. QED
        BY <1>3, <3>4, <4>1, SettleSeen
    <3>6. QED
      BY <3>1, <3>3, <3>5
  <2>2. CASE ~Settled(v)
    <3> DEFINE o == working.mem[v]
               P == CopyMem(o)
               N == NewCells(free.idx, Len(o.fields))
               new == FieldCells(o)
    <3>1. IsRef(v) /\ v \in DOMAIN working.mem /\ o.fref = 0
      BY <1>4, <2>2 DEF Settled, Valid
    <3>2. /\ working' = [working EXCEPT !.mem[v].fref = free.idx] /\ todo' = new \o Tail(todo)
          /\ Written(c, m, P, I, A, S, free', interned', args', self')
      BY <2>2 DEF CollectValue, Written
    <3>3. Copied(working, free, v, working', P)
      BY <3>1, <3>2 DEF Copied, CopyMem
    <3>4. m = free.idx
      BY <2>2, <3>1 DEF Moved
    <3> HIDE DEF c, v, m, P, N
    <3>5. Spaces(working, free)
      BY <1>1 DEF Copying
    <3>6. N = NewCells(free.idx, Len(working.mem[v].fields))
      BY DEF N
    <3>7. Copying(working', P, Todo \cup N, I, A, S) /\ Todo \cap N = {}
      BY <1>1, <3>3, <3>6, CopyStage
    <3>8. /\ RootsSeen(working, free, Todo, I, A, S, working', P, Todo \cup N, I, A, S)
          /\ Same(working', P, Todo \cup N) /\ ShownPool(working') = ShownPool(working)
          /\ Ids(P) = Ids(free) \cup {working.mem[v].id}
      BY <1>1, <3>3, <3>6, CopySeen
    <3>9. /\ free.idx \in Nat /\ \A b \in DOMAIN free.mem : b \in DOMAIN P.mem /\ P.mem[b] = free.mem[b]
      BY <3>3, <3>5, CopySpaces
    <3>10. working'.mem[v].fref = free.idx /\ free.idx # 0
      <4>1. free.idx >= 1
        BY <3>5 DEF Spaces, GoodPool, Layout
      <4>2. QED
        BY <3>3, <3>5, <3>9, <4>1, ForwardFacts
    <3>11. SettledIn(v, working') /\ m = MovedIn(v, working')
      BY <3>1, <3>4, <3>10 DEF SettledIn, MovedIn
    <3>12. Holds(c, v, P, I, A, S)
      BY <1>3, <3>9 DEF Holds
    <3>13. Written(c, MovedIn(v, working'), P, I, A, S, free', interned', args', self')
      BY <3>2, <3>11
    <3>14. /\ RootsSeen(working', P, Todo \cup N, I, A, S,
                        working', free', (Todo \cup N) \ {c}, interned', args', self')
           /\ Same(working', free', (Todo \cup N) \ {c}) /\ Ids(free') = Ids(P)
      BY <1>2, <3>7, <3>8, <3>11, <3>12, <3>13, SettleSeen
    <3>15. Todo' = (Todo \cup N) \ {c}
      <4>1. Elements(new) = N /\ new \in Seq(Cell) /\ Tail(todo) \in Seq(Cell)
        <5>1. Len(o.fields) \in Nat
          <6>1. IsPool(working)
            BY <3>5 DEF Spaces, Heap, GoodPool
          <6>2. QED
            BY <3>1, <6>1, PoolObj, SizeFacts
        <5>2. \A f \in 1 .. Len(o.fields) : FieldCell(free.idx, f) \in Cell
          BY <3>9, <5>1, CellFacts
        <5>3. new \in [1 .. Len(o.fields) -> Cell]
          BY <5>2 DEF FieldCells
        <5>4. new \in Seq(Cell) /\ DOMAIN new = 1 .. Len(o.fields)
          BY <5>1, <5>3, FunctionIsSeq
        <5>5. Elements(new) = N
          BY <5>4 DEF Elements, FieldCells, N, NewCells
        <5>6. Tail(todo) \in Seq(Cell)
          BY <1>1, TailInjective
        <5>7. QED
          BY <5>4, <5>5, <5>6
      <4>2. Injective(new) /\ Injective(Tail(todo))
        <5>1. DOMAIN new = 1 .. Len(o.fields) /\ \A f \in DOMAIN new : new[f] = FieldCell(free.idx, f)
          BY DEF FieldCells
        <5> HIDE DEF new
        <5>2. Injective(new)
          BY <5>1, CellFacts DEF Injective
        <5>3. QED
          BY <1>1, <5>2, TailInjective
      <4> DEFINE rest == Tail(todo)
      <4>3. rest \in Seq(Cell) /\ Injective(rest) /\ Elements(rest) = Todo \ {c} /\ todo' = new \o rest
        BY <1>2, <3>2, <4>1, <4>2
      <4> HIDE DEF rest, new
      <4>4. Elements(new) \cap Elements(rest) = {}
        BY <3>7, <4>1, <4>3
      <4>5. Elements(new \o rest) = Elements(new) \cup Elements(rest)
        BY <4>1, <4>2, <4>3, <4>4, ConcatInjective
      <4>6. Elements(todo') = N \cup (Todo \ {c})
        BY <4>1, <4>3, <4>5
      <4>7. QED
        BY <1>2, <3>7, <4>6 DEF Todo, Elements
    <3>16. RootsSeen(working, free, Todo, I, A, S, working', free', (Todo \cup N) \ {c}, interned', args', self')
      BY <3>8, <3>14, SeenTwice
    <3>17. QED
      BY <3>1, <3>8, <3>14, <3>15, <3>16
  <2>3. QED
    BY <2>1, <2>2
<1>7. UNCHANGED <<store, internedView, argsView, selfView, localsView>>
  BY <1>1, <1>5, <1>6, Unseen
<1> HIDE DEF c, v, m
<1>8. Reached'
  <2>1. SUFFICES ASSUME NEW X \in SUBSET DOMAIN store, Store!Covers(X) PROVE Ids(free') \subseteq X
    <3>1. \A X : Store!Covers(X)' <=> Store!Covers(X)
      BY <1>7 DEF Store!Covers, Store!Held, Store!Values, Store!Fields
    <3>2. QED
      BY <1>7, <3>1 DEF Reached
  <2>2. Ids(free) \subseteq X
    BY <2>1 DEF Reached
  <2>3. IsRef(v) => working.mem[v].id \in X
    BY <1>2, <1>3, <2>1, <2>2, CellReached
  <2>4. QED
    BY <1>6, <2>2, <2>3
<1>9. QED
  BY <1>6, <1>7, <1>8

\* A collection begins with all roots in the old space and nothing copied.
LEMMA EnterStep ==
    ASSUME AtRest, Enter
    PROVE  /\ UNCHANGED <<store, internedView, argsView, selfView, localsView>>
           /\ StoreInv'
<1>1. UNCHANGED <<working, interned, args, self, locals>> /\ phase = "enter"
  BY DEF Enter
<1>2. RestView
  BY RestViews
<1>3. UNCHANGED localsView
  BY <1>1 DEF localsView
<1>4. CASE phase' = "run"
  <2>1. AtRest'
    BY <1>4, EnterKeeps
  <2>2. RestView'
    BY <2>1, RestViews
  <2>3. QED
    BY <1>1, <1>2, <1>3, <1>4, <2>2 DEF RestView, StoreInv
<1>5. CASE phase' = "gc" /\ free' = NewSpace /\ todo' = Roots
  <2>1. /\ \A i \in DOMAIN interned : InternCell(i) \in Todo'
        /\ \A i \in DOMAIN args : ArgCell(i) \in Todo'
        /\ SelfCell \in Todo'
    <3>1. Todo' = Elements(Roots)
      BY <1>5 DEF Todo, Elements
    <3>2. RootTypes
      BY DEF AtRest
    <3>3. QED
      BY <3>1, <3>2, RootsFacts
  <2>2. GcView'
    BY <1>5, GcViews
  <2>3. /\ \A i \in DOMAIN interned : Home(InternCell(i), Todo', working', free') = working
        /\ \A i \in DOMAIN args : Home(ArgCell(i), Todo', working', free') = working
        /\ Home(SelfCell, Todo', working', free') = working
    BY <1>1, <2>1 DEF Home
  <2>4. UNCHANGED internedView
    BY <1>1, <1>2, <2>2, <2>3 DEF GcView, RestView, ViewSeq
  <2>5. UNCHANGED argsView
    BY <1>1, <1>2, <2>2, <2>3 DEF GcView, RestView, ViewSeq
  <2>6. UNCHANGED <<store, selfView>>
    BY <1>1, <1>2, <2>2, <2>3 DEF GcView, RestView
  <2>7. Same(working', free', Todo')
    BY <1>1 DEF AtRest, Unforwarded, Same
  <2>8. Ids(free') = {}
    BY <1>5 DEF NewSpace, EmptyPool, Ids
  <2>9. Reached'
    BY <2>8 DEF Reached
  <2>10. QED
    BY <1>3, <2>4, <2>5, <2>6, <2>7, <2>9 DEF StoreInv
<1>6. QED
  BY <1>4, <1>5 DEF Enter

\* Between collections every reference leads to an object.
LEMMA RestCovers ==
    ASSUME AtRest
    PROVE  Store!Covers(DOMAIN store)
<1>1. RestView /\ IsPool(working) /\ DOMAIN store = Ids(working)
      /\ RootTypes /\ RootsValid(working) /\ LocalsValid(working) /\ Closed(working)
  BY RestViews, RestFacts DEF Heap
<1> DEFINE ok == Ids(working) \cup Imm
<1>2. \A v \in Val : Valid(v, working) => View(v, working) \in ok
  BY <1>1, ViewFacts
<1>3. localsView \subseteq ok
  BY <1>1, <1>2 DEF localsView, LocalsValid, RootTypes
<1>4. selfView \in ok
  BY <1>1, <1>2 DEF RestView, RootsValid, RootTypes
<1>5. Store!Values(internedView) \subseteq ok
  BY <1>1, <1>2, ArgsFacts DEF RestView, RootsValid, ViewSeq, Store!Values
<1>6. Store!Values(argsView) \subseteq ok
  BY <1>1, <1>2, ArgsFacts DEF RestView, RootsValid, ViewSeq, Store!Values
<1>7. Store!Fields(DOMAIN store) \subseteq ok
  <2>1. ASSUME NEW id \in DOMAIN store, NEW f \in DOMAIN store[id].fields
        PROVE  store[id].fields[f] \in ok
    <3>1. PICK a \in DOMAIN working.mem : working.mem[a].id = id
      BY <1>1 DEF Ids
    <3>2. /\ f \in DOMAIN working.mem[a].fields
          /\ store[id].fields[f] = View(working.mem[a].fields[f], working)
      BY <3>1, RestFacts, FieldsShown
    <3>3. QED
      BY <1>1, <1>2, <3>2, PoolObj DEF Closed
  <2> HIDE DEF ok
  <2>2. QED
    BY <2>1 DEF Store!Fields, Store!Values
<1>8. QED
  BY <1>1, <1>3, <1>4, <1>5, <1>6, <1>7 DEF Store!Covers, Store!Held, Imm

\* The end of a collection: what is out of reach is forgotten, and nothing else.
LEMMA FinishStep ==
    ASSUME Collecting, Finish, Same(working, free, Todo), Reached
    PROVE  Store!Forget \/ UNCHANGED <<store, internedView, argsView, selfView, localsView>>
<1>1. /\ phase = "gc" /\ todo = <<>> /\ working' = free /\ phase' = "run"
      /\ UNCHANGED <<interned, args, self, locals>> /\ locals = {}
  BY DEF Finish, Collecting
<1>2. Todo = {} /\ \A c : Home(c, Todo, working, free) = free
  BY <1>1 DEF Todo, Home
<1>3. AtRest' /\ RestView' /\ GcView
  BY <1>1, FinishKeeps, RestViews, GcViews
<1>4. UNCHANGED <<internedView, argsView, selfView, localsView>>
  <2>1. UNCHANGED internedView
    BY <1>1, <1>2, <1>3 DEF RestView, GcView, ViewSeq
  <2>2. UNCHANGED argsView
    BY <1>1, <1>2, <1>3 DEF RestView, GcView, ViewSeq
  <2>3. UNCHANGED selfView
    BY <1>1, <1>2, <1>3 DEF RestView, GcView
  <2>4. UNCHANGED localsView
    BY <1>1 DEF localsView
  <2>5. QED
    BY <2>1, <2>2, <2>3, <2>4
<1>5. store' = ShownPool(free) /\ UniqueIds(free)
  BY <1>1, <1>3, GcFacts, CopiesUnique DEF RestView
<1>6. /\ DOMAIN store' = Ids(free)
      /\ \A b \in DOMAIN free.mem : store'[free.mem[b].id] = Shown(free.mem[b], free)
  BY <1>5, ShownFacts
<1>7. ASSUME NEW id \in Ids(free) PROVE id \in DOMAIN store /\ store'[id] = store[id]
  <2>1. PICK b \in DOMAIN free.mem : free.mem[b].id = id
    BY DEF Ids
  <2>2. PICK a \in DOMAIN working.mem : working.mem[a].fref = b
    BY GcFacts DEF Spaces
  <2>3. b # 0
    BY GcFacts DEF GoodPool, Layout
  <2>4. /\ working.mem[a].id = id /\ free.mem[b].tag = working.mem[a].tag
        /\ Len(free.mem[b].fields) = Len(working.mem[a].fields)
    BY <2>1, <2>2, <2>3, GcFacts DEF Spaces, IsCopy
  <2>5. DOMAIN free.mem[b].fields = DOMAIN working.mem[a].fields
    BY <2>4, GcFacts, PoolObj
  <2>6. /\ free.mem[b].cont = working.mem[a].cont
        /\ \A f \in DOMAIN working.mem[a].fields :
              View(free.mem[b].fields[f], free) = View(working.mem[a].fields[f], working)
    BY <1>2, <2>2, <2>3 DEF Same
  <2>7. Shown(free.mem[b], free) = Shown(working.mem[a], working)
    BY <2>4, <2>5, <2>6, ShownAlike
  <2>8. id \in DOMAIN store /\ store[id] = Shown(working.mem[a], working)
    BY <2>4, GcFacts DEF Ids
  <2>9. QED
    BY <1>6, <2>1, <2>7, <2>8
<1>8. DOMAIN store' \subseteq DOMAIN store
  BY <1>6, <1>7
<1>9. store' = [id \in DOMAIN store' |-> store[id]]
  <2>1. store' = [id \in DOMAIN store' |-> store'[id]]
    BY <1>5 DEF ShownPool
  <2>2. QED
    BY <1>6, <1>7, <2>1
<1>10. Store!Covers(DOMAIN store')
  <2> DEFINE ok == Ids(free) \cup Imm
             T == {}
  <2>1. /\ IsPool(free) /\ RootTypes
        /\ RootsHome(working, free, T, interned, args, self) /\ FieldsHome(working, free, T)
    BY <1>2, GcFacts DEF Copying
  <2>2. \A v \in Val : Valid(v, free) => View(v, free) \in ok
    BY <2>1, ViewFacts
  <2>3. \A c : Home(c, T, working, free) = free
    BY DEF Home
  <2>4. localsView = {}
    BY <1>1 DEF localsView
  <2>5. selfView \in ok
    BY <1>2, <1>3, <2>1, <2>2, <2>3 DEF GcView, RootsHome, RootTypes
  <2>6. Store!Values(internedView) \subseteq ok
    BY <1>2, <1>3, <2>1, <2>2, <2>3, ArgsFacts DEF GcView, RootsHome, Store!Values
  <2>7. Store!Values(argsView) \subseteq ok
    BY <1>2, <1>3, <2>1, <2>2, <2>3, ArgsFacts DEF GcView, RootsHome, Store!Values
  <2>8. ASSUME NEW id \in Ids(free), NEW f \in DOMAIN store[id].fields
        PROVE  store[id].fields[f] \in ok
    <3>1. PICK b \in DOMAIN free.mem : free.mem[b].id = id
      BY DEF Ids
    <3>2. store[id] = Shown(free.mem[b], free)
      BY <1>6, <1>7, <3>1
    <3>3. /\ f \in DOMAIN free.mem[b].fields
          /\ store[id].fields[f] = View(free.mem[b].fields[f], free)
      BY <3>2, FieldsShown
    <3>4. Valid(free.mem[b].fields[f], free) /\ free.mem[b].fields[f] \in Val
      BY <2>1, <2>3, <3>3, PoolObj DEF FieldsHome
    <3>5. QED
      BY <2>2, <3>3, <3>4
  <2> HIDE DEF ok
  <2>9. Store!Fields(Ids(free)) \subseteq ok
    BY <2>8 DEF Store!Fields, Store!Values
  <2>10. (Store!Held \cup Store!Values(argsView)) \ Imm \subseteq Ids(free)
    BY <2>4, <2>5, <2>6, <2>7 DEF Store!Held, ok, Imm
  <2>11. Store!Fields(Ids(free)) \ Imm \subseteq Ids(free)
    BY <2>9 DEF ok
  <2>12. QED
    BY <1>6, <2>10, <2>11 DEF Store!Covers, Imm
<1>11. \A S \in SUBSET DOMAIN store' : Store!Covers(S) => S = DOMAIN store'
  BY <1>6, <1>8 DEF Reached
<1>12. QED
  BY <1>4, <1>8, <1>9, <1>10, <1>11 DEF Store!Forget

-----------------------------------------------------------------------------
(* The theorem.                                                            *)

LEMMA StoreStep ==
    ASSUME HeapInv, StoreInv, [Next]_vars
    PROVE  StoreInv' /\ [Store!Next]_(Store!vars)
<1>1. ASSUME Mutate PROVE StoreInv' /\ [Store!Next]_(Store!vars)
  <2>1. AtRest
    BY <1>1 DEF HeapInv, Mutate, Running, Cons, MakeBox, PrimopMakeBytevector, PrimopMakeVector,
       MakeClosure, PrimopVector, New, ConsRest, Load, SetField, MarkContinuation, LoadConstant, Push, Pop, TailCall
  <2>2. phase' # "gc" /\ [Store!Next]_(Store!vars)
    BY <1>1, <2>1, MutateKeeps, MutateStep
  <2>3. QED
    BY <2>2 DEF StoreInv
<1>2. ASSUME Enter PROVE StoreInv' /\ UNCHANGED Store!vars
  <2>1. AtRest
    BY <1>2 DEF HeapInv, Enter
  <2>2. QED
    BY <1>2, <2>1, EnterStep DEF Store!vars
<1>3. ASSUME CollectValue PROVE StoreInv' /\ UNCHANGED Store!vars
  <2>1. phase = "gc" /\ Collecting
    BY <1>3 DEF HeapInv, CollectValue
  <2>2. Same(working, free, Todo) /\ Reached
    BY <2>1 DEF StoreInv
  <2>3. /\ UNCHANGED <<store, internedView, argsView, selfView, localsView>>
        /\ Same(working, free, Todo)' /\ Reached'
    BY <1>3, <2>1, <2>2, CollectStep
  <2>4. QED
    BY <2>3 DEF StoreInv, Store!vars
<1>4. ASSUME Finish PROVE StoreInv' /\ [Store!Next]_(Store!vars)
  <2>1. phase = "gc" /\ phase' = "run" /\ Collecting
    BY <1>4 DEF HeapInv, Finish
  <2>2. Same(working, free, Todo) /\ Reached
    BY <2>1 DEF StoreInv
  <2>3. Store!Forget \/ UNCHANGED <<store, internedView, argsView, selfView, localsView>>
    BY <1>4, <2>1, <2>2, FinishStep
  <2>4. QED
    BY <2>1, <2>3 DEF StoreInv, Store!vars, Store!Next
<1>5. ASSUME UNCHANGED vars \/ Unreachable PROVE StoreInv' /\ UNCHANGED Store!vars
  <2>0. UNCHANGED <<working, free, todo, phase, interned, args, self, locals>>
    BY <1>5 DEF vars, Unreachable
  <2>1. UNCHANGED <<store, internedView, argsView, selfView, localsView, Todo>>
    BY <2>0 DEF store, internedView, argsView, selfView, localsView, PoolOf, Todo
  <2>2. Reached <=> Reached'
    BY <2>0, <2>1 DEF Reached, Store!Covers, Store!Held, Store!Values, Store!Fields
  <2>3. QED
    BY <2>0, <2>1, <2>2 DEF StoreInv, Store!vars
<1>6. QED
  BY <1>1, <1>2, <1>3, <1>4, <1>5 DEF Next, Prologue

\* A program cannot tell the collected heap from a store whose objects never
\* move: every step of the runtime, each call of scm_collect_value included, is
\* an operation of the store or nothing, and the end of a collection forgets
\* exactly the objects that are out of reach.
THEOREM Implements == Spec => StoreSpec
<1>1. Init => Store!Init
  <2>1. SUFFICES ASSUME Init PROVE Store!Init
    OBVIOUS
  <2>2. AtRest /\ localsView = {}
    BY <2>1, InitAtRest DEF Init, localsView
  <2>3. QED
    BY <2>2, RestCovers DEF Store!Init
<1>2. Init => StoreInv
  BY DEF Init, StoreInv
<1>3. HeapInv /\ StoreInv /\ [Next]_vars => StoreInv' /\ [Store!Next]_(Store!vars)
  BY StoreStep
<1>4. QED
  BY <1>1, <1>2, <1>3, HeapInvariant, PTL DEF Spec, StoreSpec, Store!Spec
=============================================================================
