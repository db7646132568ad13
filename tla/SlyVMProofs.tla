---------------------------- MODULE SlyVMProofs ----------------------------
(***************************************************************************)
(* Proofs about SlyVM, for any number of variables, values, frames,        *)
(* upvalues, closures, continuations and nested evaluations.               *)
(***************************************************************************)
EXTENDS SlyVM, SlyFacts

Val == Value \cup {Unset}

Frame == [R : [Reg -> Val], clos : Nat, cont : Nat, level : Nat]

Upval == [open : BOOLEAN, frame : Nat, reg : Reg, val : Val, next : Nat]

MachineRec(m) == m = [ups |-> m.ups, head |-> m.head, parent |-> m.parent, fs |-> m.fs]

IsMachine(m) ==
    /\ MachineRec(m)
    /\ m.ups \in Seq(Upval) /\ m.fs \in Seq(Frame)
    /\ m.head \in 0 .. Len(m.ups) /\ m.parent \in 0 .. Len(m.ups)
    /\ \A u \in 1 .. Len(m.ups) : m.ups[u].frame \in DOMAIN m.fs /\ m.ups[u].next \in 0 .. Len(m.ups)

\* The list has one open upvalue for a variable, and is linked to older ones.
GoodList(m) ==
    /\ \A u, w \in Listed(m) :
          m.ups[u].open /\ m.ups[w].open /\ Variable(m.ups[u]) = Variable(m.ups[w]) => u = w
    /\ \A u \in Listed(m) : m.ups[u].next < u

GoodMachine(m) == IsMachine(m) /\ GoodList(m)

-----------------------------------------------------------------------------
(* The list of open upvalues.                                              *)

\* The list is the least set that a walk from its head does not leave.
LEMMA ListedFacts ==
    ASSUME NEW m, IsMachine(m)
    PROVE  /\ Listed(m) \subseteq 1 .. Len(m.ups) /\ Walked(m, Listed(m))
           /\ \A S \in SUBSET (1 .. Len(m.ups)) : Walked(m, S) => Listed(m) \subseteq S
<1>1. /\ m.head \in 0 .. Len(m.ups) /\ Len(m.ups) \in Nat
      /\ \A u \in 1 .. Len(m.ups) : m.ups[u].next \in 0 .. Len(m.ups)
  BY DEF IsMachine
<1>2. Listed(m) \subseteq 1 .. Len(m.ups)
  BY DEF Listed
<1>3. \A S \in SUBSET (1 .. Len(m.ups)) : Walked(m, S) => Listed(m) \subseteq S
  BY DEF Listed
<1>4. ASSUME m.head # 0 PROVE m.head \in Listed(m)
  <2>1. m.head \in 1 .. Len(m.ups)
    BY <1>1, <1>4
  <2>2. \A S : Walked(m, S) => m.head \in S
    BY <1>4 DEF Walked
  <2>3. QED
    BY <2>1, <2>2 DEF Listed
<1>5. ASSUME NEW u \in Listed(m), m.ups[u].next # 0 PROVE m.ups[u].next \in Listed(m)
  <2>1. m.ups[u].next \in 1 .. Len(m.ups)
    BY <1>1, <1>2, <1>5
  <2>2. \A S \in SUBSET (1 .. Len(m.ups)) : Walked(m, S) => m.ups[u].next \in S
    BY <1>3, <1>5 DEF Walked
  <2>3. QED
    BY <2>1, <2>2 DEF Listed
<1>6. QED
  BY <1>2, <1>3, <1>4, <1>5 DEF Walked

\* What is on the list depends on the links only.
LEMMA SameLinks ==
    ASSUME NEW m, NEW n, n.ups = m.ups, n.head = m.head
    PROVE  Listed(n) = Listed(m)
BY DEF Listed, Walked

\* An upvalue of a machine.
LEMMA UpvalFacts ==
    ASSUME NEW m, IsMachine(m), NEW u \in 1 .. Len(m.ups)
    PROVE  /\ m.ups[u] \in Upval /\ u \in DOMAIN m.ups /\ u \in Nat
           /\ m.ups[u].frame \in DOMAIN m.fs /\ m.ups[u].frame \in Nat
           /\ m.ups[u].reg \in Reg /\ m.ups[u].val \in Val
           /\ m.ups[u].next \in Nat /\ m.ups[u].next \in 0 .. Len(m.ups)
<1>1. m.ups[u] \in Upval
  BY DEF IsMachine
<1>2. u \in DOMAIN m.ups /\ u \in Nat
  BY DEF IsMachine
<1>3. QED
  BY <1>1, <1>2 DEF IsMachine, Upval

\* u is the open upvalue on the list for register r of frame f.
IsFound(m, f, r, u) ==
    u \in Listed(m) /\ m.ups[u].open /\ m.ups[u].frame = f /\ m.ups[u].reg = r

\* find_open_upvalue returns the one upvalue it looks for.
LEMMA FindFacts ==
    ASSUME NEW m, GoodMachine(m), NEW f, NEW r
    PROVE  /\ Find(m, f, r) # 0 => IsFound(m, f, r, Find(m, f, r))
           /\ \A u : IsFound(m, f, r, u) => Find(m, f, r) = u
           /\ Find(m, f, r) \in 0 .. Len(m.ups)
<1> DEFINE found == {u \in Listed(m) : m.ups[u].open /\ m.ups[u].frame = f /\ m.ups[u].reg = r}
<1>1. Listed(m) \subseteq 1 .. Len(m.ups) /\ Len(m.ups) \in Nat
  BY ListedFacts DEF GoodMachine, IsMachine
<1>2. \A u, w \in found : u = w
  BY DEF GoodMachine, GoodList, Variable
<1>3. Find(m, f, r) = IF found = {} THEN 0 ELSE CHOOSE u \in found : \A v \in found : v <= u
  BY DEF Find
<1>4. \A u : u \in found <=> IsFound(m, f, r, u)
  BY DEF IsFound
<1>5. \A u \in found : u \in Nat /\ u # 0
  BY <1>1
<1> HIDE DEF found
<1>6. CASE found = {}
  BY <1>1, <1>3, <1>4, <1>6
<1>7. CASE found # {}
  <2>1. PICK u \in found : TRUE
    BY <1>7
  <2>2. \A v \in found : v <= u
    BY <1>2, <1>5, <2>1
  <2>3. Find(m, f, r) \in found
    BY <1>3, <1>7, <2>1, <2>2
  <2>4. Find(m, f, r) \in 0 .. Len(m.ups)
    BY <1>1, <1>4, <2>3 DEF IsFound
  <2>5. QED
    BY <1>2, <1>4, <2>3, <2>4
<1>8. QED
  BY <1>6, <1>7

-----------------------------------------------------------------------------
(* One round of close_upvalues.                                            *)

\* An upvalue's link is changed.
LEMMA RelinkFacts ==
    ASSUME NEW ups \in Seq(Upval), NEW p \in DOMAIN ups, NEW x \in Nat
    PROVE  LET q == [ups EXCEPT ![p].next = x]
           IN /\ q \in Seq(Upval) /\ Len(q) = Len(ups) /\ DOMAIN q = DOMAIN ups
              /\ \A u \in DOMAIN ups :
                    /\ q[u].open = ups[u].open /\ q[u].frame = ups[u].frame
                    /\ q[u].reg = ups[u].reg /\ q[u].val = ups[u].val
                    /\ q[u].next = IF u = p THEN x ELSE ups[u].next
<1> DEFINE q == [ups EXCEPT ![p].next = x]
           w == [ups[p] EXCEPT !.next = x]
<1>1. ups[p] \in Upval
  OBVIOUS
<1>2. /\ w \in Upval /\ w.open = ups[p].open /\ w.frame = ups[p].frame /\ w.reg = ups[p].reg
      /\ w.val = ups[p].val /\ w.next = x
  BY <1>1, Zenon DEF Upval
<1>3. q = [ups EXCEPT ![p] = w]
  OBVIOUS
<1> HIDE DEF w
<1>4. /\ q \in Seq(Upval) /\ Len(q) = Len(ups) /\ DOMAIN q = DOMAIN ups
      /\ \A u \in DOMAIN ups : q[u] = IF u = p THEN w ELSE ups[u]
  BY <1>2, <1>3
<1>5. QED
  BY <1>2, <1>4

\* An upvalue is closed.
LEMMA ShutFacts ==
    ASSUME NEW ups \in Seq(Upval), NEW p \in DOMAIN ups, NEW fs,
           fs[ups[p].frame].R[ups[p].reg] \in Val
    PROVE  LET q == [ups EXCEPT ![p] = Shut(@, fs)]
           IN /\ q \in Seq(Upval) /\ Len(q) = Len(ups) /\ DOMAIN q = DOMAIN ups
              /\ \A u \in DOMAIN ups : u # p => q[u] = ups[u]
              /\ q[p].frame = ups[p].frame /\ q[p].reg = ups[p].reg /\ q[p].next = 0
              /\ ~q[p].open /\ q[p].val = fs[ups[p].frame].R[ups[p].reg]
<1> DEFINE w == Shut(ups[p], fs)
           q == [ups EXCEPT ![p] = w]
<1>1. ups[p] \in Upval
  OBVIOUS
<1>2. /\ w \in Upval /\ ~w.open /\ w.frame = ups[p].frame /\ w.reg = ups[p].reg
      /\ w.val = fs[ups[p].frame].R[ups[p].reg] /\ w.next = 0
  BY <1>1, 0 \in Nat, Zenon DEF Upval, Shut
<1> HIDE DEF w
<1>3. /\ q \in Seq(Upval) /\ Len(q) = Len(ups) /\ DOMAIN q = DOMAIN ups
      /\ \A u \in DOMAIN ups : q[u] = IF u = p THEN w ELSE ups[u]
  BY <1>2
<1>4. QED
  BY <1>2, <1>3 DEF w

\* n is machine m after upvalue uv was unlinked from p, or from the head of the
\* list when p = 0, and closed.
Closing(m, n, uv, p) ==
    /\ MachineRec(n) /\ n.fs = m.fs /\ n.parent = p
    /\ n.ups \in Seq(Upval) /\ Len(n.ups) = Len(m.ups)
    /\ n.head = IF p = 0 THEN m.ups[uv].next ELSE m.head
    /\ \A u \in 1 .. Len(m.ups) :
          /\ n.ups[u].frame = m.ups[u].frame /\ n.ups[u].reg = m.ups[u].reg
          /\ u # uv => /\ n.ups[u].open = m.ups[u].open /\ n.ups[u].val = m.ups[u].val
                       /\ n.ups[u].next = IF u = p THEN m.ups[uv].next ELSE m.ups[u].next
    /\ ~n.ups[uv].open /\ n.ups[uv].next = 0
    /\ n.ups[uv].val = m.fs[m.ups[uv].frame].R[m.ups[uv].reg]

\* p is what close_upvalues takes for the parent of uv.
IsParent(m, uv, p) ==
    \/ uv = m.head /\ p = m.parent
    \/ uv # m.head /\ p \in Listed(m) /\ m.ups[p].next = uv

\* An upvalue on the list that is not its head has a predecessor.
LEMMA ParentExists ==
    ASSUME NEW m, IsMachine(m), NEW uv \in Listed(m), uv # m.head
    PROVE  \E p \in Listed(m) : m.ups[p].next = uv
<1>1. SUFFICES ASSUME \A p \in Listed(m) : m.ups[p].next # uv PROVE FALSE
  OBVIOUS
<1>2. Walked(m, Listed(m)) /\ Listed(m) \subseteq 1 .. Len(m.ups)
  BY ListedFacts
<1>3. Walked(m, Listed(m) \ {uv})
  BY <1>1, <1>2 DEF Walked
<1>4. Listed(m) \subseteq Listed(m) \ {uv}
  BY <1>2, <1>3, ListedFacts
<1>5. QED
  BY <1>4

\* An upvalue points to a register.
LEMMA RegisterType ==
    ASSUME NEW m, IsMachine(m), NEW u \in 1 .. Len(m.ups)
    PROVE  m.fs[m.ups[u].frame].R[m.ups[u].reg] \in Val
<1>1. m.ups[u].frame \in DOMAIN m.fs /\ m.ups[u].reg \in Reg
  BY UpvalFacts
<1>2. m.fs \in Seq(Frame)
  BY DEF IsMachine
<1>3. m.fs[m.ups[u].frame] \in Frame
  BY <1>1, <1>2
<1>4. QED
  BY <1>1, <1>3 DEF Frame

\* A round of close_upvalues does nothing, or unlinks and closes one upvalue.
LEMMA CloseOneFacts ==
    ASSUME NEW m, GoodMachine(m), NEW f, NEW r
    PROVE  LET uv == Find(m, f, r)
               n  == CloseOne(m, f, r)
           IN /\ uv = 0 => n = m
              /\ uv # 0 => \E p : IsParent(m, uv, p) /\ Closing(m, n, uv, p)
<1> DEFINE uv == Find(m, f, r)
           p == IF uv = m.head THEN m.parent ELSE CHOOSE q \in Listed(m) : m.ups[q].next = uv
           ups == IF p = 0 THEN m.ups ELSE [m.ups EXCEPT ![p].next = m.ups[uv].next]
           ups2 == [ups EXCEPT ![uv] = Shut(@, m.fs)]
           head2 == IF p = 0 THEN m.ups[uv].next ELSE m.head
           n == CloseOne(m, f, r)
<1>1. n = IF uv = 0 THEN m ELSE [m EXCEPT !.ups = ups2, !.head = head2, !.parent = p]
  BY DEF CloseOne
<1>2. SUFFICES ASSUME uv # 0 PROVE IsParent(m, uv, p) /\ Closing(m, n, uv, p)
  BY <1>1
<1>3. /\ IsMachine(m) /\ MachineRec(m) /\ uv \in Listed(m) /\ uv \in 1 .. Len(m.ups)
      /\ m.ups \in Seq(Upval) /\ Len(m.ups) \in Nat
  BY <1>2, FindFacts, ListedFacts DEF GoodMachine, IsMachine, IsFound
<1>4. IsParent(m, uv, p)
  BY <1>3, ParentExists DEF IsParent
<1>5. p \in 0 .. Len(m.ups)
  BY <1>3, <1>4, ListedFacts DEF IsParent, IsMachine
<1>6. n = [m EXCEPT !.ups = ups2, !.head = head2, !.parent = p]
  BY <1>1, <1>2
<1> DEFINE x == m.ups[uv].next
<1>7. x \in Nat
  BY <1>3, UpvalFacts
<1> HIDE DEF uv, p, n, x
<1>8. /\ ups \in Seq(Upval) /\ Len(ups) = Len(m.ups) /\ DOMAIN ups = DOMAIN m.ups
      /\ \A u \in DOMAIN m.ups :
            /\ ups[u].open = m.ups[u].open /\ ups[u].frame = m.ups[u].frame
            /\ ups[u].reg = m.ups[u].reg /\ ups[u].val = m.ups[u].val
            /\ ups[u].next = IF u = p THEN x ELSE m.ups[u].next
  <2>1. CASE p = 0
    BY <1>3, <2>1
  <2>2. CASE p # 0
    <3>1. p \in DOMAIN m.ups
      BY <1>3, <1>5, <2>2
    <3> DEFINE q == [m.ups EXCEPT ![p].next = x]
    <3>2. ups = q
      BY <2>2 DEF x
    <3>3. /\ q \in Seq(Upval) /\ Len(q) = Len(m.ups) /\ DOMAIN q = DOMAIN m.ups
          /\ \A u \in DOMAIN m.ups :
                /\ q[u].open = m.ups[u].open /\ q[u].frame = m.ups[u].frame
                /\ q[u].reg = m.ups[u].reg /\ q[u].val = m.ups[u].val
                /\ q[u].next = IF u = p THEN x ELSE m.ups[u].next
      BY <1>3, <1>7, <3>1, RelinkFacts
    <3> HIDE DEF q, ups
    <3>4. QED
      BY <3>2, <3>3
  <2>3. QED
    BY <2>1, <2>2
<1>9. uv \in DOMAIN ups /\ uv \in DOMAIN m.ups
  BY <1>3, <1>8
<1> HIDE DEF ups
<1>10. m.fs[ups[uv].frame].R[ups[uv].reg] \in Val
  BY <1>3, <1>8, <1>9, RegisterType
<1>11. /\ ups2 \in Seq(Upval) /\ Len(ups2) = Len(ups) /\ DOMAIN ups2 = DOMAIN ups
       /\ \A u \in DOMAIN ups : u # uv => ups2[u] = ups[u]
       /\ ups2[uv].frame = ups[uv].frame /\ ups2[uv].reg = ups[uv].reg /\ ups2[uv].next = 0
       /\ ~ups2[uv].open /\ ups2[uv].val = m.fs[ups[uv].frame].R[ups[uv].reg]
  BY <1>8, <1>9, <1>10, ShutFacts
<1> HIDE DEF ups2
<1>12. /\ MachineRec(n) /\ n.ups = ups2 /\ n.head = head2 /\ n.parent = p /\ n.fs = m.fs
  BY <1>3, <1>6, Zenon DEF MachineRec
<1>13. DOMAIN m.ups = 1 .. Len(m.ups)
  BY <1>3
<1>14. QED
  BY <1>4, <1>8, <1>9, <1>11, <1>12, <1>13 DEF Closing, x

-----------------------------------------------------------------------------
(* close_upvalues.                                                         *)

\* n is machine m after some of the open upvalues of frame f were closed, and
\* some were perhaps lost from the list.
Shrunk(m, n, f) ==
    /\ GoodMachine(n) /\ n.fs = m.fs /\ Len(n.ups) = Len(m.ups)
    /\ Listed(n) \subseteq Listed(m)
    /\ \A u \in 1 .. Len(m.ups) :
          /\ n.ups[u].frame = m.ups[u].frame /\ n.ups[u].reg = m.ups[u].reg
          /\ n.ups[u].open => m.ups[u].open
          /\ ~m.ups[u].open => n.ups[u].val = m.ups[u].val
          /\ m.ups[u].open /\ ~n.ups[u].open =>
                /\ m.ups[u].frame = f
                /\ n.ups[u].val = m.fs[m.ups[u].frame].R[m.ups[u].reg]

\* f has no open upvalue on the list for a register up to r.
ClosedUpTo(m, f, r) ==
    \A u \in Listed(m) : m.ups[u].open /\ m.ups[u].frame = f => m.ups[u].reg > r

\* Closing can be repeated.
LEMMA ShrunkTransitive ==
    ASSUME NEW m, NEW n, NEW o, NEW f, Shrunk(m, n, f), Shrunk(n, o, f)
    PROVE  Shrunk(m, o, f)
<1>1. /\ GoodMachine(o) /\ o.fs = m.fs /\ Len(o.ups) = Len(m.ups) /\ Listed(o) \subseteq Listed(m)
      /\ n.fs = m.fs /\ Len(n.ups) = Len(m.ups)
  BY DEF Shrunk
<1>2. SUFFICES ASSUME NEW u \in 1 .. Len(m.ups)
      PROVE  /\ o.ups[u].frame = m.ups[u].frame /\ o.ups[u].reg = m.ups[u].reg
             /\ o.ups[u].open => m.ups[u].open
             /\ ~m.ups[u].open => o.ups[u].val = m.ups[u].val
             /\ m.ups[u].open /\ ~o.ups[u].open =>
                   /\ m.ups[u].frame = f
                   /\ o.ups[u].val = m.fs[m.ups[u].frame].R[m.ups[u].reg]
  BY <1>1, Zenon DEF Shrunk
<1>3. /\ n.ups[u].frame = m.ups[u].frame /\ n.ups[u].reg = m.ups[u].reg
      /\ n.ups[u].open => m.ups[u].open
      /\ ~m.ups[u].open => n.ups[u].val = m.ups[u].val
      /\ m.ups[u].open /\ ~n.ups[u].open =>
            /\ m.ups[u].frame = f
            /\ n.ups[u].val = m.fs[m.ups[u].frame].R[m.ups[u].reg]
  BY DEF Shrunk
<1>4. /\ o.ups[u].frame = n.ups[u].frame /\ o.ups[u].reg = n.ups[u].reg
      /\ o.ups[u].open => n.ups[u].open
      /\ ~n.ups[u].open => o.ups[u].val = n.ups[u].val
      /\ n.ups[u].open /\ ~o.ups[u].open =>
            /\ n.ups[u].frame = f
            /\ o.ups[u].val = n.fs[n.ups[u].frame].R[n.ups[u].reg]
  BY <1>1 DEF Shrunk
<1>5. QED
  BY <1>1, <1>3, <1>4

\* Machines that differ in `parent' only.
LEMMA SameButParent ==
    ASSUME NEW m, GoodMachine(m), NEW n, MachineRec(n), n.ups = m.ups, n.head = m.head, n.fs = m.fs,
           n.parent \in 0 .. Len(m.ups), NEW f
    PROVE  Shrunk(m, n, f)
<1>1. Listed(n) = Listed(m)
  BY SameLinks
<1>2. IsMachine(n)
  BY DEF GoodMachine, IsMachine
<1>3. GoodMachine(n)
  BY <1>1, <1>2 DEF GoodMachine, GoodList
<1>4. QED
  BY <1>1, <1>3 DEF Shrunk

\* Whichever parent is used, stale or not, the list stays well formed.
LEMMA ClosingShrinks ==
    ASSUME NEW m, GoodMachine(m), NEW f, NEW r, NEW uv, IsFound(m, f, r, uv),
           NEW p, IsParent(m, uv, p), NEW n, Closing(m, n, uv, p)
    PROVE  Shrunk(m, n, f) /\ \A u : ~IsFound(n, f, r, u)
<1>1. /\ IsMachine(m) /\ m.ups \in Seq(Upval) /\ Len(m.ups) \in Nat
      /\ Listed(m) \subseteq 1 .. Len(m.ups) /\ Walked(m, Listed(m))
      /\ m.head \in 0 .. Len(m.ups) /\ m.parent \in 0 .. Len(m.ups)
      /\ uv \in Listed(m) /\ m.ups[uv].open /\ m.ups[uv].frame = f /\ m.ups[uv].reg = r
  BY ListedFacts DEF GoodMachine, IsMachine, IsFound
<1>2. /\ \A u, w \in Listed(m) :
            m.ups[u].open /\ m.ups[w].open /\ Variable(m.ups[u]) = Variable(m.ups[w]) => u = w
      /\ \A u \in Listed(m) : m.ups[u].next < u
  BY DEF GoodMachine, GoodList
<1>3. p \in 0 .. Len(m.ups)
  BY <1>1 DEF IsParent
<1>4. \A u \in 1 .. Len(m.ups) : m.ups[u].frame \in DOMAIN m.fs /\ m.ups[u].next \in 0 .. Len(m.ups)
  BY <1>1, UpvalFacts
<1>5. IsMachine(n)
  <2>1. /\ MachineRec(n) /\ n.fs = m.fs /\ n.parent = p /\ n.ups \in Seq(Upval)
        /\ Len(n.ups) = Len(m.ups) /\ n.head \in 0 .. Len(m.ups)
    BY <1>1, <1>4 DEF Closing
  <2>2. \A u \in 1 .. Len(m.ups) : n.ups[u].frame \in DOMAIN m.fs /\ n.ups[u].next \in 0 .. Len(m.ups)
    BY <1>1, <1>4 DEF Closing
  <2>3. QED
    BY <1>1, <1>3, <2>1, <2>2 DEF IsMachine
<1>6. Listed(n) \subseteq Listed(m)
  <2>1. Walked(n, Listed(m))
    BY <1>1 DEF Walked, Closing
  <2>2. Listed(m) \in SUBSET (1 .. Len(n.ups))
    BY <1>1 DEF Closing
  <2>3. QED
    BY <1>5, <2>1, <2>2, ListedFacts
<1>7. ASSUME NEW u \in Listed(n) PROVE n.ups[u].next < u
  <2>1. u \in Listed(m) /\ u \in 1 .. Len(m.ups) /\ uv \in 1 .. Len(m.ups)
    BY <1>1, <1>6
  <2>2. CASE u = uv
    BY <2>1, <2>2 DEF Closing
  <2>3. CASE u # uv /\ u # p
    BY <1>2, <2>1, <2>3 DEF Closing
  <2>4. CASE u # uv /\ u = p
    <3>1. CASE m.ups[p].next = uv
      <4>1. n.ups[u].next = m.ups[uv].next /\ m.ups[uv].next \in Nat
        BY <1>1, <2>1, <2>4, UpvalFacts DEF Closing
      <4>2. QED
        BY <1>1, <1>2, <2>1, <2>4, <3>1, <4>1
    <3>2. CASE uv = m.head /\ p # 0
      <4>1. Walked(n, {uv})
        BY <3>2 DEF Walked, Closing
      <4>2. {uv} \in SUBSET (1 .. Len(n.ups))
        BY <2>1 DEF Closing
      <4>3. Listed(n) \subseteq {uv}
        BY <1>5, <4>1, <4>2, ListedFacts
      <4>4. QED
        BY <2>4, <4>3
    <3>3. p # 0
      BY <2>1, <2>4
    <3>4. QED
      BY <3>1, <3>2, <3>3 DEF IsParent
  <2>5. QED
    BY <2>2, <2>3, <2>4
<1>8. \A u, w \in Listed(n) :
         n.ups[u].open /\ n.ups[w].open /\ Variable(n.ups[u]) = Variable(n.ups[w]) => u = w
  <2>1. \A u \in Listed(n) : /\ u \in Listed(m) /\ Variable(n.ups[u]) = Variable(m.ups[u])
                             /\ n.ups[u].open => m.ups[u].open
    BY <1>1, <1>6 DEF Variable, Closing
  <2>2. QED
    BY <1>2, <2>1
<1>9. GoodMachine(n)
  BY <1>5, <1>7, <1>8 DEF GoodMachine, GoodList
<1>10. Shrunk(m, n, f)
  BY <1>1, <1>6, <1>9 DEF Shrunk, Closing
<1>11. ASSUME NEW u, IsFound(n, f, r, u) PROVE FALSE
  <2>1. u \in Listed(m) /\ u \in 1 .. Len(m.ups) /\ n.ups[u].open /\ n.ups[u].frame = f /\ n.ups[u].reg = r
    BY <1>1, <1>6, <1>11 DEF IsFound
  <2>2. u # uv
    BY <2>1 DEF Closing
  <2>3. m.ups[u].open /\ Variable(m.ups[u]) = Variable(m.ups[uv])
    BY <1>1, <2>1, <2>2 DEF Closing, Variable
  <2>4. QED
    BY <1>1, <1>2, <2>1, <2>2, <2>3
<1>12. QED
  BY <1>10, <1>11

\* When the upvalue is unlinked from its own place in the list, the others stay
\* on the list.
LEMMA ClosingKeeps ==
    ASSUME NEW m, GoodMachine(m), NEW f, NEW r, NEW uv, IsFound(m, f, r, uv),
           NEW p, IsParent(m, uv, p), NEW n, Closing(m, n, uv, p), uv = m.head => p = 0
    PROVE  Lost(n) \subseteq Lost(m)
<1>1. /\ IsMachine(m) /\ m.ups \in Seq(Upval) /\ Len(m.ups) \in Nat
      /\ Listed(m) \subseteq 1 .. Len(m.ups) /\ Walked(m, Listed(m)) /\ m.head \in 0 .. Len(m.ups)
      /\ uv \in Listed(m) /\ m.ups[uv].open
      /\ \A S \in SUBSET (1 .. Len(m.ups)) : Walked(m, S) => Listed(m) \subseteq S
  BY ListedFacts DEF GoodMachine, IsMachine, IsFound
<1>2. \A u \in Listed(m) : m.ups[u].next < u
  BY DEF GoodMachine, GoodList
<1>3. GoodMachine(n) /\ IsMachine(n) /\ Listed(n) \subseteq Listed(m) /\ Walked(n, Listed(n))
  BY ClosingShrinks, ListedFacts DEF Shrunk, GoodMachine
<1>4. \A u \in Listed(m) : u \in Nat /\ m.ups[u].next \in Nat
  BY <1>1, UpvalFacts
<1>5. Listed(m) \subseteq Listed(n) \cup {uv}
  <2>1. CASE uv = m.head
    <3>1. Walked(m, Listed(n) \cup {uv})
      <4>1. p = 0 /\ n.head = m.ups[uv].next
        BY <2>1 DEF Closing
      <4>2. \A u \in Listed(n) : u # uv => n.ups[u].next = m.ups[u].next
        BY <1>1, <1>3, <4>1 DEF Closing
      <4>3. QED
        BY <1>3, <2>1, <4>1, <4>2 DEF Walked
    <3>2. QED
      BY <1>1, <1>3, <3>1
  <2>2. CASE uv # m.head
    <3>1. p \in Listed(m) /\ m.ups[p].next = uv /\ p # uv /\ uv < p /\ p # 0
      BY <1>1, <1>2, <1>4, <2>2 DEF IsParent
    <3>2. n.head = m.head /\ n.ups[p].next = m.ups[uv].next
      BY <1>1, <3>1 DEF Closing
    <3>3. \A u \in Listed(m) : u # uv /\ u # p => n.ups[u].next = m.ups[u].next
      BY <1>1 DEF Closing
    <3>4. p \in Listed(n)
      <4> DEFINE S == {u \in Listed(m) : u > uv => u \in Listed(n)}
      <4>1. ASSUME NEW u \in S, m.ups[u].next # 0 PROVE m.ups[u].next \in S
        <5>1. m.ups[u].next \in Listed(m) /\ m.ups[u].next < u /\ u \in Nat /\ uv \in Nat
              /\ m.ups[u].next \in Nat
          BY <1>1, <1>2, <1>4, <4>1 DEF Walked
        <5>2. ASSUME m.ups[u].next > uv PROVE m.ups[u].next \in Listed(n)
          <6>1. u \in Listed(n) /\ u # uv /\ u # p
            BY <3>1, <5>1, <5>2
          <6>2. QED
            BY <1>3, <3>3, <4>1, <6>1 DEF Walked
        <5>3. QED
          BY <5>1, <5>2
      <4>2. m.head # 0 => m.head \in S
        BY <1>1, <1>3, <3>2 DEF Walked
      <4>3. Walked(m, S)
        BY <4>1, <4>2 DEF Walked
      <4>4. S \in SUBSET (1 .. Len(m.ups))
        BY <1>1
      <4>5. Listed(m) \subseteq S
        <5> HIDE DEF S
        <5>1. QED
          BY <1>1, <4>3, <4>4
      <4>6. p \in S
        <5> HIDE DEF S
        <5>1. QED
          BY <3>1, <4>5
      <4>7. QED
        BY <1>1, <1>4, <3>1, <4>6
    <3>5. Walked(m, Listed(n) \cup {uv})
      BY <1>3, <3>1, <3>2, <3>3, <3>4 DEF Walked
    <3>6. QED
      BY <1>1, <1>3, <3>5
  <2>3. QED
    BY <2>1, <2>2
<1>6. Len(n.ups) = Len(m.ups) /\ ~n.ups[uv].open
  BY DEF Closing
<1>7. ASSUME NEW u \in 1 .. Len(n.ups), n.ups[u].open, u \notin Listed(n)
      PROVE  /\ u \in 1 .. Len(m.ups) /\ m.ups[u].open /\ u \notin Listed(m)
             /\ Variable(n.ups[u]) = Variable(m.ups[u])
  BY <1>5, <1>6, <1>7 DEF Closing, Variable
<1>8. QED
  BY <1>7 DEF Lost

\* A round closes the upvalue of its register.
LEMMA CloseOneShrinks ==
    ASSUME NEW m, GoodMachine(m), NEW f, NEW r \in Reg, ClosedUpTo(m, f, r - 1), NVars \in Nat
    PROVE  Shrunk(m, CloseOne(m, f, r), f) /\ ClosedUpTo(CloseOne(m, f, r), f, r)
<1> DEFINE uv == Find(m, f, r)
           n == CloseOne(m, f, r)
<1>1. Shrunk(m, n, f) /\ \A u : ~IsFound(n, f, r, u)
  <2>1. CASE uv = 0
    <3>1. n = m
      BY <2>1, CloseOneFacts
    <3>2. Shrunk(m, m, f)
      BY SameButParent DEF GoodMachine, IsMachine
    <3>3. \A u : ~IsFound(m, f, r, u)
      <4>1. 0 \notin Listed(m)
        BY ListedFacts DEF GoodMachine
      <4>2. QED
        BY <2>1, <4>1, FindFacts DEF IsFound
    <3>4. QED
      BY <3>1, <3>2, <3>3
  <2>2. CASE uv # 0
    <3>1. PICK p : IsParent(m, uv, p) /\ Closing(m, n, uv, p)
      BY <2>2, CloseOneFacts
    <3>2. IsFound(m, f, r, uv)
      BY <2>2, FindFacts
    <3> HIDE DEF uv, n
    <3>3. QED
      BY <3>1, <3>2, ClosingShrinks
  <2>3. QED
    BY <2>1, <2>2
<1> HIDE DEF n
<1>2. ASSUME NEW u \in Listed(n), n.ups[u].open, n.ups[u].frame = f PROVE n.ups[u].reg > r
  <2>1. IsMachine(n) /\ u \in Listed(m) /\ u \in 1 .. Len(m.ups) /\ u \in 1 .. Len(n.ups)
    BY <1>1, ListedFacts DEF Shrunk, GoodMachine
  <2>2. m.ups[u].open /\ m.ups[u].frame = f /\ m.ups[u].reg = n.ups[u].reg
    BY <1>1, <1>2, <2>1 DEF Shrunk
  <2>3. n.ups[u].reg > r - 1 /\ n.ups[u].reg # r
    BY <1>1, <1>2, <2>1, <2>2 DEF ClosedUpTo, IsFound
  <2>4. n.ups[u].reg \in Reg
    BY <2>1, UpvalFacts
  <2>5. QED
    BY <2>3, <2>4 DEF Reg
<1>3. QED
  BY <1>1, <1>2 DEF ClosedUpTo, n

\* close_upvalues, as a sequence of rounds.
LEMMA CloseAllDef ==
    ASSUME NEW m, NEW f, NVars \in Nat
    PROVE  \E after : /\ after = [r \in 0 .. NVars |-> IF r = 0 THEN [m EXCEPT !.parent = 0]
                                                      ELSE CloseOne(after[r - 1], f, r)]
                      /\ CloseAll(m, f) = after[NVars]
<1> DEFINE first == [m EXCEPT !.parent = 0]
           Unsolved(k) == \A g : g # [r \in 0 .. k |-> IF r = 0 THEN first ELSE CloseOne(g[r - 1], f, r)]
           T == {k \in Nat : Unsolved(k)}
           after == CHOOSE g : g = [r \in 0 .. NVars |-> IF r = 0 THEN first ELSE CloseOne(g[r - 1], f, r)]
<1>1. CloseAll(m, f) = after[NVars]
  BY DEF CloseAll
<1> HIDE DEF first
<1>2. T = {}
  <2>1. SUFFICES ASSUME T # {} PROVE FALSE
    OBVIOUS
  <2>2. PICK k \in T : \A j \in T : k <= j
    BY <2>1, LeastNat
  <2>3. CASE k = 0
    <3> DEFINE g == [r \in 0 .. 0 |-> first]
    <3>1. g = [r \in 0 .. 0 |-> IF r = 0 THEN first ELSE CloseOne(g[r - 1], f, r)]
      OBVIOUS
    <3>2. QED
      BY <2>3, <3>1
  <2>4. CASE k > 0
    <3>1. k \in Nat /\ k - 1 \in Nat /\ ~Unsolved(k - 1)
      <4> HIDE DEF Unsolved
      <4>1. k \in Nat /\ k - 1 \in Nat /\ ~(k <= k - 1)
        BY <2>2, <2>4
      <4>2. QED
        BY <2>2, <4>1
    <3>2. PICK g : g = [r \in 0 .. k - 1 |-> IF r = 0 THEN first ELSE CloseOne(g[r - 1], f, r)]
      BY <3>1
    <3> DEFINE h == [r \in 0 .. k |-> IF r = k THEN CloseOne(g[k - 1], f, k) ELSE g[r]]
    <3>3. \A r \in 0 .. k : h[r] = IF r = 0 THEN first ELSE CloseOne(h[r - 1], f, r)
      <4>1. TAKE r \in 0 .. k
      <4>2. CASE r = k
        BY <2>4, <3>1, <4>2
      <4>3. CASE r # k
        <5>1. r \in 0 .. k - 1 /\ h[r] = g[r]
          BY <3>1, <4>3
        <5>2. g[r] = IF r = 0 THEN first ELSE CloseOne(g[r - 1], f, r)
          BY <3>2, <5>1
        <5>3. r # 0 => h[r - 1] = g[r - 1]
          BY <3>1, <5>1
        <5> HIDE DEF h
        <5>4. QED
          BY <5>1, <5>2, <5>3
      <4>4. QED
        BY <4>2, <4>3
    <3>4. h = [r \in 0 .. k |-> IF r = 0 THEN first ELSE CloseOne(h[r - 1], f, r)]
      BY <3>3
    <3>5. ~Unsolved(k)
      <4> HIDE DEF h
      <4>1. QED
        BY <3>4
    <3>6. QED
      BY <2>2, <3>5
  <2>5. QED
    BY <2>2, <2>3, <2>4
<1>3. \E g : g = [r \in 0 .. NVars |-> IF r = 0 THEN first ELSE CloseOne(g[r - 1], f, r)]
  BY <1>2
<1>4. after = [r \in 0 .. NVars |-> IF r = 0 THEN first ELSE CloseOne(after[r - 1], f, r)]
  BY <1>3
<1> HIDE DEF after
<1>5. QED
  BY <1>1, <1>4 DEF first

OneAtMost(m, f) == \A a, b \in Reg : Find(m, f, a) # 0 /\ Find(m, f, b) # 0 => a = b

\* Closing the upvalues of a frame that has one open upvalue on the list, or
\* none, loses no other: after round r either nothing was done, or that one was
\* closed.
LosesNone(m, n, f, r) ==
    OneAtMost(m, f) =>
        /\ Lost(n) \subseteq Lost(m)
        /\ \/ n.ups = m.ups /\ n.head = m.head /\ n.parent = 0
           \/ \E a \in 1 .. r : Find(m, f, a) # 0

\* A round that is the only one to find an upvalue loses none.
LEMMA RoundLosesNone ==
    ASSUME NEW m, GoodMachine(m), NEW n, NEW f, Shrunk(m, n, f), NEW r \in Reg, NVars \in Nat,
           LosesNone(m, n, f, r - 1)
    PROVE  LosesNone(m, CloseOne(n, f, r), f, r)
<1> DEFINE o == CloseOne(n, f, r)
           uv == Find(n, f, r)
<1>1. SUFFICES ASSUME OneAtMost(m, f)
      PROVE  /\ Lost(o) \subseteq Lost(m)
             /\ \/ o.ups = m.ups /\ o.head = m.head /\ o.parent = 0
                \/ \E a \in 1 .. r : Find(m, f, a) # 0
  BY DEF LosesNone
<1>2. /\ Lost(n) \subseteq Lost(m)
      /\ \/ n.ups = m.ups /\ n.head = m.head /\ n.parent = 0
         \/ \E a \in 1 .. r - 1 : Find(m, f, a) # 0
  BY <1>1 DEF LosesNone
<1>3. r \in 1 .. r /\ 1 .. r \subseteq Reg /\ \A a \in 1 .. r - 1 : a # r /\ a \in 1 .. r
  BY DEF Reg
<1>4. GoodMachine(n)
  BY DEF Shrunk
<1>5. CASE uv = 0
  <2>1. o = n
    BY <1>4, <1>5, CloseOneFacts
  <2>2. QED
    BY <1>2, <1>3, <2>1
<1>6. CASE uv # 0
  <2>1. PICK p : IsParent(n, uv, p) /\ Closing(n, o, uv, p)
    BY <1>4, <1>6, CloseOneFacts
  <2>2. IsFound(n, f, r, uv)
    BY <1>4, <1>6, FindFacts
  <2>3. IsFound(m, f, r, uv)
    <3>1. uv \in Listed(m) /\ uv \in 1 .. Len(m.ups)
      BY <2>2, ListedFacts DEF Shrunk, IsFound, GoodMachine
    <3>2. QED
      BY <2>2, <3>1 DEF Shrunk, IsFound
  <2>4. Find(m, f, r) # 0
    BY <1>6, <2>3, FindFacts
  <2>5. n.parent = 0
    BY <1>1, <1>2, <1>3, <2>4 DEF OneAtMost
  <2> HIDE DEF uv, o
  <2>6. uv = n.head => p = 0
    BY <2>1, <2>5 DEF IsParent
  <2>7. Lost(o) \subseteq Lost(n)
    BY <1>4, <2>1, <2>2, <2>6, ClosingKeeps
  <2>8. QED
    BY <1>2, <1>3, <2>4, <2>7
<1>7. QED
  BY <1>5, <1>6

\* By induction on the rounds.
LEMMA CloseAllFacts ==
    ASSUME NEW m, GoodMachine(m), NEW f, NVars \in Nat
    PROVE  /\ Shrunk(m, CloseAll(m, f), f)
           /\ ClosedUpTo(CloseAll(m, f), f, NVars)
           /\ OneAtMost(m, f) => Lost(CloseAll(m, f)) \subseteq Lost(m)
<1> DEFINE first == [m EXCEPT !.parent = 0]
<1>1. PICK after : /\ after = [r \in 0 .. NVars |-> IF r = 0 THEN first ELSE CloseOne(after[r - 1], f, r)]
                   /\ CloseAll(m, f) = after[NVars]
  BY CloseAllDef
<1>2. MachineRec(first) /\ first.ups = m.ups /\ first.head = m.head /\ first.fs = m.fs /\ first.parent = 0
  <2>1. MachineRec(m)
    BY DEF GoodMachine, IsMachine
  <2>2. first = [m EXCEPT !.parent = 0]
    OBVIOUS
  <2> HIDE DEF first
  <2>3. QED
    BY <2>1, <2>2, Zenon DEF MachineRec
<1> HIDE DEF first
<1>3. Len(m.ups) \in Nat /\ 0 \in 0 .. Len(m.ups) /\ IsMachine(m)
  BY DEF GoodMachine, IsMachine
<1>4. Shrunk(m, first, f) /\ ClosedUpTo(first, f, 0) /\ LosesNone(m, first, f, 0)
  <2>1. Shrunk(m, first, f)
    BY <1>2, <1>3, SameButParent
  <2>2. Listed(first) = Listed(m)
    BY <1>2, SameLinks
  <2>3. \A u \in Listed(m) : m.ups[u].reg \in Reg
    BY <1>3, ListedFacts, UpvalFacts
  <2>4. Lost(first) = Lost(m)
    BY <1>2, <2>2 DEF Lost
  <2>5. QED
    BY <1>2, <2>1, <2>2, <2>3, <2>4 DEF ClosedUpTo, LosesNone, Reg
<1> DEFINE P(r) == /\ Shrunk(m, after[r], f) /\ ClosedUpTo(after[r], f, r)
                   /\ LosesNone(m, after[r], f, r)
           T == {r \in 0 .. NVars : ~P(r)}
<1>5. T = {}
  <2>1. SUFFICES ASSUME T # {} PROVE FALSE
    OBVIOUS
  <2>2. PICK r \in T : \A q \in T : r <= q
    <3>1. T \subseteq Nat
      OBVIOUS
    <3>2. QED
      BY <2>1, <3>1, LeastNat
  <2>3. P(0)
    BY <1>1, <1>4
  <2>4. r \in 0 .. NVars /\ ~P(r) /\ r # 0
    BY <2>2, <2>3
  <2>5. r \in Reg /\ r - 1 \in 0 .. NVars /\ ~(r <= r - 1)
    BY <2>4 DEF Reg
  <2>6. P(r - 1)
    BY <2>2, <2>5
  <2>7. after[r] = CloseOne(after[r - 1], f, r)
    BY <1>1, <2>4
  <2> DEFINE n == after[r - 1]
  <2>8. Shrunk(m, n, f) /\ GoodMachine(n) /\ ClosedUpTo(n, f, r - 1) /\ LosesNone(m, n, f, r - 1)
    BY <2>6 DEF Shrunk
  <2>9. after[r] = CloseOne(n, f, r)
    BY <2>7
  <2> HIDE DEF n, T
  <2>10. Shrunk(n, CloseOne(n, f, r), f) /\ ClosedUpTo(CloseOne(n, f, r), f, r)
    BY <2>5, <2>8, CloseOneShrinks
  <2>11. LosesNone(m, CloseOne(n, f, r), f, r)
    BY <2>5, <2>8, RoundLosesNone
  <2>12. Shrunk(m, CloseOne(n, f, r), f)
    BY <2>8, <2>10, ShrunkTransitive
  <2>13. QED
    BY <2>4, <2>9, <2>10, <2>11, <2>12
<1>6. P(NVars)
  <2>1. NVars \in 0 .. NVars
    OBVIOUS
  <2>2. QED
    BY <1>5, <2>1
<1>7. QED
  BY <1>1, <1>6 DEF LosesNone

\* What closing a frame's upvalues leaves, once or, on a return, twice.
Closed(m, n, f) ==
    /\ Shrunk(m, n, f)
    /\ \A u \in Listed(n) : n.ups[u].open => n.ups[u].frame # f
    /\ OneAtMost(m, f) => Lost(n) \subseteq Lost(m)

\* Afterwards the frame has no open upvalue on the list.
LEMMA CloseAllCloses ==
    ASSUME NEW m, GoodMachine(m), NEW f, NVars \in Nat
    PROVE  Closed(m, CloseAll(m, f), f) /\ Closed(m, CloseAll(CloseAll(m, f), f), f)
<1> DEFINE n == CloseAll(m, f)
           o == CloseAll(n, f)
<1>1. Shrunk(m, n, f) /\ ClosedUpTo(n, f, NVars) /\ (OneAtMost(m, f) => Lost(n) \subseteq Lost(m))
  BY CloseAllFacts
<1>2. GoodMachine(n)
  BY <1>1 DEF Shrunk
<1> HIDE DEF n
<1>3. Shrunk(n, o, f) /\ ClosedUpTo(o, f, NVars) /\ (OneAtMost(n, f) => Lost(o) \subseteq Lost(n))
  BY <1>2, CloseAllFacts
<1>4. GoodMachine(o)
  BY <1>3 DEF Shrunk
<1> HIDE DEF o
<1>5. ASSUME NEW x, GoodMachine(x), ClosedUpTo(x, f, NVars), NEW u \in Listed(x), x.ups[u].open
      PROVE  x.ups[u].frame # f
  <2>1. x.ups[u].reg \in Reg
    BY <1>5, ListedFacts, UpvalFacts DEF GoodMachine
  <2>2. QED
    BY <1>5, <2>1 DEF ClosedUpTo, Reg
<1>6. OneAtMost(n, f)
  <2>1. \A a : Find(n, f, a) = 0
    BY <1>1, <1>2, <1>5, FindFacts DEF IsFound
  <2>2. QED
    BY <2>1 DEF OneAtMost
<1>7. Shrunk(m, o, f)
  BY <1>1, <1>3, ShrunkTransitive
<1>8. Closed(m, n, f) /\ Closed(m, o, f)
  BY <1>1, <1>2, <1>3, <1>4, <1>5, <1>6, <1>7 DEF Closed
<1>9. QED
  BY <1>8 DEF n, o

-----------------------------------------------------------------------------
(* make_open_upvalue.                                                      *)

\* n is machine m with a new upvalue at the head of the list.
Opened(m, n, f, r) ==
    /\ MachineRec(n) /\ n.fs = m.fs /\ n.parent = m.parent
    /\ n.ups \in Seq(Upval) /\ Len(n.ups) = Len(m.ups) + 1 /\ n.head = Len(m.ups) + 1
    /\ \A u \in 1 .. Len(m.ups) : n.ups[u] = m.ups[u]
    /\ LET new == n.ups[Len(m.ups) + 1]
       IN new.open /\ new.frame = f /\ new.reg = r /\ new.next = m.head

\* make_open_upvalue finds an upvalue, or adds one.
LEMMA OpenFacts ==
    ASSUME NEW m, GoodMachine(m), NEW f \in DOMAIN m.fs, NEW r \in Reg
    PROVE  /\ Find(m, f, r) # 0 => Open(m, f, r) = m
           /\ Find(m, f, r) = 0 => Opened(m, Open(m, f, r), f, r)
<1> DEFINE new == [open |-> TRUE, frame |-> f, reg |-> r, val |-> Unset, next |-> m.head]
           ups2 == Append(m.ups, new)
           head2 == Len(m.ups) + 1
           n == Open(m, f, r)
<1>1. n = IF Find(m, f, r) # 0 THEN m ELSE [m EXCEPT !.ups = ups2, !.head = head2]
  BY DEF Open
<1>2. SUFFICES ASSUME Find(m, f, r) = 0 PROVE Opened(m, n, f, r)
  BY <1>1
<1>3. /\ MachineRec(m) /\ m.ups \in Seq(Upval) /\ m.fs \in Seq(Frame)
      /\ m.head \in 0 .. Len(m.ups) /\ Len(m.ups) \in Nat
  BY DEF GoodMachine, IsMachine
<1>4. new \in Upval /\ new.open /\ new.frame = f /\ new.reg = r /\ new.next = m.head
  <2>1. f \in Nat /\ m.head \in Nat /\ Unset \in Val
    BY <1>3 DEF Val
  <2>2. QED
    BY <2>1, Zenon DEF Upval
<1>5. n = [m EXCEPT !.ups = ups2, !.head = head2]
  BY <1>1, <1>2
<1> HIDE DEF n, new
<1>6. /\ ups2 \in Seq(Upval) /\ Len(ups2) = Len(m.ups) + 1
      /\ \A u \in 1 .. Len(m.ups) : ups2[u] = m.ups[u]
      /\ ups2[Len(m.ups) + 1] = new
  BY <1>3, <1>4, AppendFacts
<1> HIDE DEF ups2, head2
<1>7. MachineRec(n) /\ n.ups = ups2 /\ n.head = head2 /\ n.parent = m.parent /\ n.fs = m.fs
  BY <1>3, <1>5, Zenon DEF MachineRec
<1>8. QED
  BY <1>4, <1>6, <1>7 DEF Opened, head2

\* The new upvalue joins the list, which stays well formed.
LEMMA OpenedFacts ==
    ASSUME NEW m, GoodMachine(m), NEW f \in DOMAIN m.fs, NEW r \in Reg, Find(m, f, r) = 0,
           NEW n, Opened(m, n, f, r)
    PROVE  GoodMachine(n) /\ Listed(n) = Listed(m) \cup {Len(m.ups) + 1}
<1> DEFINE new == Len(m.ups) + 1
<1>1. /\ IsMachine(m) /\ MachineRec(m) /\ m.ups \in Seq(Upval) /\ m.fs \in Seq(Frame)
      /\ m.head \in 0 .. Len(m.ups) /\ m.parent \in 0 .. Len(m.ups) /\ Len(m.ups) \in Nat
      /\ \A u \in 1 .. Len(m.ups) : m.ups[u].frame \in DOMAIN m.fs /\ m.ups[u].next \in 0 .. Len(m.ups)
  <2>1. IsMachine(m)
    BY DEF GoodMachine
  <2>2. QED
    BY <2>1 DEF IsMachine
<1>2. Listed(m) \subseteq 1 .. Len(m.ups) /\ Walked(m, Listed(m))
      /\ \A S \in SUBSET (1 .. Len(m.ups)) : Walked(m, S) => Listed(m) \subseteq S
  BY <1>1, ListedFacts
<1>3. IsMachine(n)
  <2>1. /\ n.fs = m.fs /\ Len(n.ups) = Len(m.ups) + 1 /\ n.head = Len(m.ups) + 1
        /\ n.parent = m.parent /\ MachineRec(n) /\ n.ups \in Seq(Upval)
    BY DEF Opened
  <2>2. ASSUME NEW u \in 1 .. Len(n.ups)
        PROVE  n.ups[u].frame \in DOMAIN n.fs /\ n.ups[u].next \in 0 .. Len(n.ups)
    <3>1. CASE u = new
      BY <1>1, <2>1, <3>1 DEF Opened
    <3>2. CASE u # new
      <4>1. u \in 1 .. Len(m.ups) /\ Len(m.ups) + 1 = Len(n.ups)
        BY <1>1, <2>1, <3>2
      <4>2. n.ups[u] = m.ups[u]
        BY <4>1 DEF Opened
      <4>3. m.ups[u].frame \in DOMAIN m.fs /\ m.ups[u].next \in 0 .. Len(m.ups)
        BY <1>1, <4>1
      <4>4. 0 .. Len(m.ups) \subseteq 0 .. Len(n.ups)
        BY <1>1, <4>1
      <4>5. QED
        BY <2>1, <4>2, <4>3, <4>4
    <3>3. QED
      BY <3>1, <3>2
  <2>3. n.head \in 0 .. Len(n.ups) /\ n.parent \in 0 .. Len(n.ups)
    BY <1>1, <2>1
  <2>4. QED
    BY <1>1, <2>1, <2>2, <2>3 DEF IsMachine
<1>4. Listed(n) \subseteq 1 .. new /\ Walked(n, Listed(n))
      /\ \A S \in SUBSET (1 .. new) : Walked(n, S) => Listed(n) \subseteq S
  BY <1>3, ListedFacts DEF Opened
<1>5. /\ n.head = new /\ n.ups[new].next = m.head /\ n.ups[new].open /\ n.ups[new].frame = f
      /\ n.ups[new].reg = r /\ \A u \in 1 .. Len(m.ups) : n.ups[u] = m.ups[u]
  BY DEF Opened
<1>6. new \notin 1 .. Len(m.ups) /\ new # 0 /\ new \in 1 .. new /\ new \in Nat
      /\ \A u \in 1 .. new : u # new => u \in 1 .. Len(m.ups)
  BY <1>1
<1>7. 1 .. Len(m.ups) \subseteq 1 .. new
  BY <1>1
<1> HIDE DEF new
<1>8. Listed(n) \subseteq Listed(m) \cup {new}
  <2>1. Walked(n, Listed(m) \cup {new})
    BY <1>2, <1>5 DEF Walked
  <2>2. QED
    BY <1>2, <1>4, <1>6, <1>7, <2>1
<1>9. new \in Listed(n)
  BY <1>4, <1>5, <1>6 DEF Walked
<1>10. Listed(m) \subseteq Listed(n)
  <2>1. Walked(m, Listed(n) \ {new})
    <3>1. ASSUME m.head # 0 PROVE m.head \in Listed(n) \ {new}
      BY <1>1, <1>4, <1>5, <1>6, <1>9, <3>1 DEF Walked
    <3>2. ASSUME NEW u \in Listed(n) \ {new}, m.ups[u].next # 0
          PROVE  m.ups[u].next \in Listed(n) \ {new}
      <4>1. u \in 1 .. Len(m.ups) /\ n.ups[u] = m.ups[u]
        BY <1>4, <1>5, <1>6
      <4>2. m.ups[u].next \in Listed(n)
        BY <1>4, <3>2, <4>1 DEF Walked
      <4>3. m.ups[u].next # new
        BY <1>1, <1>6, <3>2, <4>1
      <4>4. QED
        BY <4>2, <4>3
    <3>3. QED
      BY <3>1, <3>2 DEF Walked
  <2>2. Listed(n) \ {new} \in SUBSET (1 .. Len(m.ups))
    BY <1>4, <1>6
  <2>3. QED
    BY <1>2, <2>1, <2>2
<1>11. Listed(n) = Listed(m) \cup {new}
  BY <1>8, <1>9, <1>10
<1>12. GoodList(n)
  <2>1. ASSUME NEW u \in Listed(n) PROVE n.ups[u].next < u
    <3>1. CASE u = new
      BY <1>1, <1>5, <3>1 DEF new
    <3>2. CASE u # new
      BY <1>2, <1>5, <1>11, <3>2 DEF GoodMachine, GoodList
    <3>3. QED
      BY <3>1, <3>2
  <2>2. \A u \in Listed(m) : ~IsFound(m, f, r, u)
    BY <1>1, <1>2, FindFacts
  <2>3. \A u \in Listed(m) : n.ups[u] = m.ups[u] /\ ~(m.ups[u].open /\ Variable(m.ups[u]) = <<f, r>>)
    BY <1>2, <1>5, <2>2 DEF IsFound, Variable
  <2>4. Variable(n.ups[new]) = <<f, r>>
    BY <1>5 DEF Variable
  <2>5. \A u, w \in Listed(m) :
           m.ups[u].open /\ m.ups[w].open /\ Variable(m.ups[u]) = Variable(m.ups[w]) => u = w
    BY DEF GoodMachine, GoodList
  <2>6. \A u, w \in Listed(n) :
           n.ups[u].open /\ n.ups[w].open /\ Variable(n.ups[u]) = Variable(n.ups[w]) => u = w
    BY <1>11, <2>3, <2>4, <2>5
  <2>7. QED
    BY <2>1, <2>6 DEF GoodList
<1>13. QED
  BY <1>3, <1>11, <1>12 DEF GoodMachine, new

-----------------------------------------------------------------------------
(* Captured variables.  la, le, re and or stand for latest, left, resumed  *)
(* and orphans.                                                            *)

\* OneVariable promises something of upvalue u.
Known(m, u, re, or) == Variable(m.ups[u]) \notin or /\ m.ups[u].frame \notin re

\* An open upvalue off the list is counted as lost.
OpenListed(m, or) ==
    \A u \in 1 .. Len(m.ups) : m.ups[u].open => u \in Listed(m) \/ Variable(m.ups[u]) \in or

\* Only the upvalues of a frame that was left are closed.
ClosedLeft(m, le) == \A u \in 1 .. Len(m.ups) : ~m.ups[u].open => m.ups[u].frame \in le

\* The registers of a frame that was not left hold its variables.
Registers(m, la, le) == \A f \in DOMAIN m.fs : f \notin le => m.fs[f].R = la[f]

\* A closed upvalue holds the variable it captured.
ClosedKnown(m, la, re, or) ==
    \A u \in 1 .. Len(m.ups) :
        ~m.ups[u].open /\ Known(m, u, re, or) => m.ups[u].val = la[m.ups[u].frame][m.ups[u].reg]

\* A variable has one upvalue.
OneEach(m, re, or) ==
    \A u, w \in 1 .. Len(m.ups) :
        Known(m, u, re, or) /\ Variable(m.ups[u]) = Variable(m.ups[w]) => u = w

\* The upvalues of a frame that was left are closed.
LeftClosed(m, le, re, or) ==
    \A u \in 1 .. Len(m.ups) :
        m.ups[u].open /\ m.ups[u].frame \in le \ re => Variable(m.ups[u]) \in or

Capture(m, la, le, re, or) ==
    /\ OpenListed(m, or) /\ ClosedLeft(m, le) /\ Registers(m, la, le)
    /\ ClosedKnown(m, la, re, or) /\ OneEach(m, re, or) /\ LeftClosed(m, le, re, or)

\* Machines that differ in the frames' registers and continuations.
LEMMA SameGood ==
    ASSUME NEW m, GoodMachine(m), NEW n, MachineRec(n), n.ups = m.ups, n.head = m.head,
           n.parent = 0, n.fs \in Seq(Frame), DOMAIN m.fs \subseteq DOMAIN n.fs
    PROVE  GoodMachine(n)
<1>1. Listed(n) = Listed(m)
  BY SameLinks
<1>2. IsMachine(n)
  BY DEF GoodMachine, IsMachine
<1>3. QED
  BY <1>1, <1>2 DEF GoodMachine, GoodList

\* A variable is assigned through its register: no closed upvalue that still
\* counts belongs to a variable that changes.
LEMMA AssignKeeps ==
    ASSUME NEW m, NEW n, n.ups = m.ups, n.head = m.head, NEW la, NEW la2, NEW le, NEW re,
           NEW re2, re \subseteq re2, NEW or, Capture(m, la, le, re, or),
           Registers(n, la2, le),
           \A u \in 1 .. Len(m.ups) : ~m.ups[u].open /\ Known(m, u, re2, or) =>
               la2[m.ups[u].frame][m.ups[u].reg] = la[m.ups[u].frame][m.ups[u].reg]
    PROVE  Capture(n, la2, le, re2, or)
<1>1. Listed(n) = Listed(m)
  BY SameLinks
<1>2. \A u : Known(n, u, re2, or) => Known(m, u, re, or) /\ Known(m, u, re2, or)
  BY DEF Known
<1>3. OpenListed(n, or) /\ ClosedLeft(n, le)
  BY <1>1 DEF Capture, OpenListed, ClosedLeft
<1>4. ClosedKnown(n, la2, re2, or)
  BY <1>2 DEF Capture, ClosedKnown
<1>5. OneEach(n, re2, or)
  BY <1>2 DEF Capture, OneEach
<1>6. LeftClosed(n, le, re2, or)
  BY DEF Capture, LeftClosed
<1>7. QED
  BY <1>3, <1>4, <1>5, <1>6 DEF Capture

WithVal(ups, u, v) == [ups EXCEPT ![u].val = v]

\* Variable r of frame f, of n frames, is given the value v.
Assigned(n, la, la2, f, r, v) ==
    /\ \A g \in 1 .. n : \A q \in Reg : la2[g][q] = IF g = f /\ q = r THEN v ELSE la[g][q]
    /\ \A g \in 1 .. n : g # f => la2[g] = la[g]

\* A variable is assigned through its closed upvalue.
LEMMA SetClosedKeeps ==
    ASSUME NEW m, GoodMachine(m), NEW uv \in 1 .. Len(m.ups), ~m.ups[uv].open, NEW v \in Val,
           NEW n, MachineRec(n), n.ups = WithVal(m.ups, uv, v), n.head = m.head, n.fs = m.fs,
           n.parent = 0, NEW la, NEW le, NEW re, NEW or, Capture(m, la, le, re, or),
           NEW la2, Assigned(Len(m.fs), la, la2, m.ups[uv].frame, m.ups[uv].reg, v)
    PROVE  GoodMachine(n) /\ Capture(n, la2, le, re, or) /\ Len(n.ups) = Len(m.ups)
<1> DEFINE new == [m.ups[uv] EXCEPT !.val = v]
<1>1. /\ IsMachine(m) /\ m.ups \in Seq(Upval) /\ Len(m.ups) \in Nat /\ uv \in DOMAIN m.ups
      /\ m.ups[uv] \in Upval
  <2>1. IsMachine(m)
    BY DEF GoodMachine
  <2>2. QED
    BY <2>1, UpvalFacts DEF IsMachine
<1>2. /\ new \in Upval /\ new.open = m.ups[uv].open /\ new.frame = m.ups[uv].frame
      /\ new.reg = m.ups[uv].reg /\ new.next = m.ups[uv].next /\ new.val = v
  BY <1>1, Zenon DEF Upval
<1>3. n.ups = [m.ups EXCEPT ![uv] = new]
  BY DEF WithVal
<1> HIDE DEF new
<1>4. /\ n.ups \in Seq(Upval) /\ Len(n.ups) = Len(m.ups)
      /\ \A u \in 1 .. Len(m.ups) : n.ups[u] = IF u = uv THEN new ELSE m.ups[u]
  BY <1>1, <1>2, <1>3
<1>5. \A u \in 1 .. Len(m.ups) :
         /\ n.ups[u].open = m.ups[u].open /\ n.ups[u].frame = m.ups[u].frame
         /\ n.ups[u].reg = m.ups[u].reg /\ n.ups[u].next = m.ups[u].next
         /\ n.ups[u].val = IF u = uv THEN v ELSE m.ups[u].val
         /\ Variable(n.ups[u]) = Variable(m.ups[u])
         /\ Known(n, u, re, or) <=> Known(m, u, re, or)
  <2>1. \A u \in 1 .. Len(m.ups) :
         /\ n.ups[u].open = m.ups[u].open /\ n.ups[u].frame = m.ups[u].frame
         /\ n.ups[u].reg = m.ups[u].reg /\ n.ups[u].next = m.ups[u].next
         /\ n.ups[u].val = IF u = uv THEN v ELSE m.ups[u].val
    BY <1>2, <1>4
  <2>2. \A u \in 1 .. Len(m.ups) : Variable(n.ups[u]) = Variable(m.ups[u])
    BY <2>1 DEF Variable
  <2>3. \A u \in 1 .. Len(m.ups) : Known(n, u, re, or) <=> Known(m, u, re, or)
    BY <2>1, <2>2 DEF Known
  <2>4. QED
    BY <2>1, <2>2, <2>3
<1>6. /\ DOMAIN m.fs = 1 .. Len(m.fs)
      /\ \A u \in 1 .. Len(m.ups) : m.ups[u].frame \in 1 .. Len(m.fs) /\ m.ups[u].reg \in Reg
  <2>1. DOMAIN m.fs = 1 .. Len(m.fs)
    BY <1>1 DEF IsMachine
  <2>2. QED
    BY <1>1, <2>1, UpvalFacts
<1>7. Listed(n) = Listed(m)
  <2>1. \A S \in SUBSET (1 .. Len(m.ups)) : Walked(n, S) <=> Walked(m, S)
    BY <1>5 DEF Walked
  <2>2. QED
    BY <1>4, <2>1 DEF Listed
<1>8. IsMachine(n)
  <2>1. /\ m.fs \in Seq(Frame) /\ m.head \in 0 .. Len(m.ups)
        /\ \A u \in 1 .. Len(m.ups) : m.ups[u].frame \in DOMAIN m.fs /\ m.ups[u].next \in 0 .. Len(m.ups)
    BY <1>1 DEF IsMachine
  <2>2. \A u \in 1 .. Len(n.ups) : n.ups[u].frame \in DOMAIN n.fs /\ n.ups[u].next \in 0 .. Len(n.ups)
    BY <1>4, <1>5, <2>1
  <2>3. n.fs \in Seq(Frame) /\ n.head \in 0 .. Len(n.ups) /\ n.parent \in 0 .. Len(n.ups)
    BY <1>1, <1>4, <2>1
  <2> HIDE DEF new
  <2>4. QED
    BY <1>4, <2>2, <2>3 DEF IsMachine
<1>9. Listed(m) \subseteq 1 .. Len(m.ups)
  BY <1>1, ListedFacts
<1>10. GoodList(n)
  <2>1. \A u, w \in Listed(n) :
           n.ups[u].open /\ n.ups[w].open /\ Variable(n.ups[u]) = Variable(n.ups[w]) => u = w
    BY <1>5, <1>7, <1>9 DEF GoodMachine, GoodList
  <2>2. \A u \in Listed(n) : n.ups[u].next < u
    BY <1>5, <1>7, <1>9 DEF GoodMachine, GoodList
  <2>3. QED
    BY <2>1, <2>2 DEF GoodList
<1>11. GoodMachine(n)
  BY <1>8, <1>10 DEF GoodMachine
<1>12. OpenListed(n, or) /\ ClosedLeft(n, le) /\ LeftClosed(n, le, re, or) /\ OneEach(n, re, or)
  <2>1. OpenListed(n, or)
    BY <1>4, <1>5, <1>7 DEF Capture, OpenListed
  <2>2. ClosedLeft(n, le)
    BY <1>4, <1>5 DEF Capture, ClosedLeft
  <2>3. LeftClosed(n, le, re, or)
    BY <1>4, <1>5 DEF Capture, LeftClosed
  <2>4. OneEach(n, re, or)
    <3>1. SUFFICES ASSUME NEW u \in 1 .. Len(m.ups), NEW w \in 1 .. Len(m.ups),
                          Known(n, u, re, or), Variable(n.ups[u]) = Variable(n.ups[w])
                   PROVE  u = w
      BY <1>4 DEF OneEach
    <3>2. Known(m, u, re, or) /\ Variable(m.ups[u]) = Variable(m.ups[w])
      BY <1>5, <3>1
    <3>3. QED
      BY <3>2 DEF Capture, OneEach
  <2>5. QED
    BY <2>1, <2>2, <2>3, <2>4
<1>13. Registers(n, la2, le)
  <2>1. m.ups[uv].frame \in le
    BY DEF Capture, ClosedLeft
  <2>2. \A f \in DOMAIN m.fs : f \notin le => m.fs[f].R = la[f] /\ la2[f] = la[f]
    BY <1>6, <2>1 DEF Capture, Registers, Assigned
  <2>3. QED
    BY <2>2 DEF Registers
<1>14. ASSUME NEW u \in 1 .. Len(n.ups), ~n.ups[u].open, Known(n, u, re, or)
       PROVE  n.ups[u].val = la2[n.ups[u].frame][n.ups[u].reg]
  <2>1. u \in 1 .. Len(m.ups) /\ ~m.ups[u].open /\ Known(m, u, re, or)
    BY <1>4, <1>5, <1>14
  <2>2. n.ups[u].frame = m.ups[u].frame /\ n.ups[u].reg = m.ups[u].reg
    BY <1>5, <2>1
  <2>3. CASE u = uv
    BY <1>5, <1>6, <2>1, <2>2, <2>3 DEF Assigned
  <2>4. CASE u # uv
    <3>1. Variable(m.ups[u]) # Variable(m.ups[uv])
      BY <2>1, <2>4 DEF Capture, OneEach
    <3>2. la2[m.ups[u].frame][m.ups[u].reg] = la[m.ups[u].frame][m.ups[u].reg]
      BY <1>6, <2>1, <3>1 DEF Variable, Assigned
    <3>3. m.ups[u].val = la[m.ups[u].frame][m.ups[u].reg]
      BY <2>1 DEF Capture, ClosedKnown
    <3>4. QED
      BY <1>5, <2>1, <2>2, <2>4, <3>2, <3>3
  <2>5. QED
    BY <2>3, <2>4
<1>15. QED
  BY <1>4, <1>11, <1>12, <1>13, <1>14 DEF Capture, ClosedKnown

\* The frame's upvalues are closed.
LEMMA LeaveKeeps ==
    ASSUME NEW m, GoodMachine(m), NEW n, NEW f, Closed(m, n, f),
           NEW la, NEW le, NEW re, NEW or, Capture(m, la, le, re, or), f \in le => f \in re
    PROVE  Capture(n, la, le \cup {f}, re, or \cup Lost(n))
<1> DEFINE or2 == or \cup Lost(n)
<1>1. /\ Len(n.ups) = Len(m.ups) /\ n.fs = m.fs /\ Listed(n) \subseteq Listed(m)
      /\ \A u \in Listed(n) : n.ups[u].open => n.ups[u].frame # f
  BY DEF Closed, Shrunk
<1>2. \A u \in 1 .. Len(m.ups) :
         /\ n.ups[u].frame = m.ups[u].frame /\ n.ups[u].reg = m.ups[u].reg
         /\ n.ups[u].open => m.ups[u].open
         /\ ~m.ups[u].open => n.ups[u].val = m.ups[u].val
         /\ m.ups[u].open /\ ~n.ups[u].open =>
               /\ m.ups[u].frame = f
               /\ n.ups[u].val = m.fs[m.ups[u].frame].R[m.ups[u].reg]
  BY DEF Closed, Shrunk
<1>3. \A u \in 1 .. Len(m.ups) : Variable(n.ups[u]) = Variable(m.ups[u])
  BY <1>2 DEF Variable
<1>4. \A u \in 1 .. Len(m.ups) : Known(n, u, re, or2) => Known(m, u, re, or)
  BY <1>2, <1>3 DEF Known
<1>5. \A u \in 1 .. Len(m.ups) : n.ups[u].open => u \in Listed(n) \/ Variable(n.ups[u]) \in or2
  BY <1>1 DEF Lost
<1> HIDE DEF or2
<1>6. OpenListed(n, or2)
  BY <1>1, <1>5 DEF OpenListed
<1>7. ClosedLeft(n, le \cup {f})
  BY <1>1, <1>2 DEF Capture, ClosedLeft
<1>8. Registers(n, la, le \cup {f})
  BY <1>1 DEF Capture, Registers
<1>9. ASSUME NEW u \in 1 .. Len(m.ups), ~n.ups[u].open, Known(n, u, re, or2)
      PROVE  n.ups[u].val = la[n.ups[u].frame][n.ups[u].reg]
  <2>1. n.ups[u].frame = m.ups[u].frame /\ n.ups[u].reg = m.ups[u].reg /\ Known(m, u, re, or)
    BY <1>2, <1>4, <1>9
  <2>2. CASE ~m.ups[u].open
    BY <1>2, <2>1, <2>2 DEF Capture, ClosedKnown
  <2>3. CASE m.ups[u].open
    <3>1. m.ups[u].frame = f /\ n.ups[u].val = m.fs[f].R[m.ups[u].reg]
      BY <1>2, <1>9, <2>3
    <3>2. f \notin le
      BY <2>1, <3>1 DEF Known
    <3>3. m.fs[f].R = la[f]
      BY <3>1, <3>2, UpvalFacts DEF Capture, Registers, GoodMachine
    <3>4. QED
      BY <2>1, <3>1, <3>3
  <2>4. QED
    BY <2>2, <2>3
<1>10. OneEach(n, re, or2)
  <2>1. SUFFICES ASSUME NEW u \in 1 .. Len(m.ups), NEW w \in 1 .. Len(m.ups),
                        Known(n, u, re, or2), Variable(n.ups[u]) = Variable(n.ups[w])
                 PROVE  u = w
    BY <1>1 DEF OneEach
  <2>2. Known(m, u, re, or) /\ Variable(m.ups[u]) = Variable(m.ups[w])
    BY <1>3, <1>4, <2>1
  <2>3. QED
    BY <2>2 DEF Capture, OneEach
<1>11. ASSUME NEW u \in 1 .. Len(m.ups), n.ups[u].open, n.ups[u].frame \in (le \cup {f}) \ re
       PROVE  Variable(n.ups[u]) \in or2
  <2>1. CASE n.ups[u].frame = f
    BY <1>1, <1>5, <1>11, <2>1
  <2>2. CASE n.ups[u].frame # f
    <3>1. m.ups[u].open /\ m.ups[u].frame \in le \ re
      BY <1>2, <1>11, <2>2
    <3>2. Variable(m.ups[u]) \in or
      BY <3>1 DEF Capture, LeftClosed
    <3>3. QED
      BY <1>3, <3>2 DEF or2
  <2>3. QED
    BY <2>1, <2>2
<1>12. Capture(n, la, le \cup {f}, re, or2)
  BY <1>1, <1>6, <1>7, <1>8, <1>9, <1>10, <1>11 DEF Capture, ClosedKnown, LeftClosed
<1>13. QED
  BY <1>12 DEF or2

\* A register of the running frame is captured.
LEMMA OpenKeeps ==
    ASSUME NEW m, GoodMachine(m), NEW f \in DOMAIN m.fs, NEW r \in Reg,
           NEW la, NEW le, NEW re, NEW or, Capture(m, la, le, re, or), f \in le => f \in re
    PROVE  LET n == Open(m, f, r)
           IN /\ GoodMachine(n) /\ Capture(n, la, le, re, or)
              /\ n.fs = m.fs /\ Len(m.ups) <= Len(n.ups)
              /\ Find(n, f, r) # 0 /\ \A q : Find(m, f, q) # 0 => Find(n, f, q) # 0
<1> DEFINE n == Open(m, f, r)
           new == Len(m.ups) + 1
<1>1. Len(m.ups) \in Nat /\ IsMachine(m) /\ Listed(m) \subseteq 1 .. Len(m.ups)
  <2>1. IsMachine(m)
    BY DEF GoodMachine
  <2>2. QED
    BY <2>1, ListedFacts DEF IsMachine
<1>2. CASE Find(m, f, r) # 0
  BY <1>1, <1>2, OpenFacts
<1>3. CASE Find(m, f, r) = 0
  <2>1. Opened(m, n, f, r)
    BY <1>3, OpenFacts
  <2> HIDE DEF n
  <2>2. GoodMachine(n) /\ Listed(n) = Listed(m) \cup {new}
    BY <1>3, <2>1, OpenedFacts
  <2>3. /\ n.fs = m.fs /\ Len(n.ups) = new /\ \A u \in 1 .. Len(m.ups) : n.ups[u] = m.ups[u]
        /\ n.ups[new].open /\ n.ups[new].frame = f /\ n.ups[new].reg = r
    BY <2>1 DEF Opened
  <2>4. \A u \in 1 .. new : u = new \/ u \in 1 .. Len(m.ups)
    BY <1>1
  <2>5. new \notin 1 .. Len(m.ups) /\ 0 \notin 1 .. new /\ new \in 1 .. new /\ Len(m.ups) <= new
        /\ 1 .. Len(m.ups) \subseteq 1 .. new
    BY <1>1
  <2> HIDE DEF new
  <2>6. \A u \in 1 .. Len(m.ups) : Known(n, u, re, or) <=> Known(m, u, re, or)
    BY <2>3 DEF Known
  <2>7. ASSUME NEW w \in 1 .. Len(m.ups), Known(m, w, re, or) PROVE Variable(m.ups[w]) # <<f, r>>
    <3>1. SUFFICES ASSUME m.ups[w].frame = f, m.ups[w].reg = r PROVE FALSE
      BY DEF Variable
    <3>2. f \notin re /\ Variable(m.ups[w]) \notin or /\ f \notin le
      BY <2>7, <3>1 DEF Known
    <3>3. m.ups[w].open
      BY <3>1, <3>2 DEF Capture, ClosedLeft
    <3>4. w \in Listed(m)
      BY <3>2, <3>3 DEF Capture, OpenListed
    <3>5. IsFound(m, f, r, w)
      BY <3>1, <3>3, <3>4 DEF IsFound
    <3>6. QED
      BY <1>3, <2>5, <3>5, FindFacts
  <2>8. Variable(n.ups[new]) = <<f, r>>
    BY <2>3 DEF Variable
  <2>9. OpenListed(n, or)
    BY <2>2, <2>3, <2>4 DEF Capture, OpenListed
  <2>10. ClosedLeft(n, le)
    BY <2>3, <2>4 DEF Capture, ClosedLeft
  <2>11. Registers(n, la, le)
    BY <2>3 DEF Capture, Registers
  <2>12. ClosedKnown(n, la, re, or)
    BY <2>3, <2>4, <2>6 DEF Capture, ClosedKnown
  <2>13. OneEach(n, re, or)
    <3>1. SUFFICES ASSUME NEW u \in 1 .. new, NEW w \in 1 .. new, Known(n, u, re, or),
                          Variable(n.ups[u]) = Variable(n.ups[w]), u # w
                   PROVE  FALSE
      BY <2>3 DEF OneEach
    <3>2. CASE u = new
      <4>1. w \in 1 .. Len(m.ups) /\ n.ups[w] = m.ups[w] /\ Variable(m.ups[w]) = <<f, r>>
        BY <2>3, <2>4, <2>8, <3>1, <3>2
      <4>2. f \notin re /\ <<f, r>> \notin or
        BY <2>3, <2>8, <3>1, <3>2 DEF Known
      <4>3. m.ups[w].frame = f
        BY <4>1 DEF Variable
      <4>4. Known(m, w, re, or)
        BY <4>1, <4>2, <4>3 DEF Known
      <4>5. QED
        BY <2>7, <4>1, <4>4
    <3>3. CASE u # new
      <4>1. u \in 1 .. Len(m.ups) /\ n.ups[u] = m.ups[u] /\ Known(m, u, re, or)
        BY <2>3, <2>4, <2>6, <3>1, <3>3
      <4>2. w # new
        BY <2>7, <2>8, <3>1, <4>1
      <4>3. w \in 1 .. Len(m.ups) /\ n.ups[w] = m.ups[w]
        BY <2>3, <2>4, <4>2
      <4>4. QED
        BY <3>1, <4>1, <4>3 DEF Capture, OneEach
    <3>4. QED
      BY <3>2, <3>3
  <2>14. LeftClosed(n, le, re, or)
    BY <2>3, <2>4 DEF Capture, LeftClosed
  <2>15. Capture(n, la, le, re, or)
    BY <2>9, <2>10, <2>11, <2>12, <2>13, <2>14 DEF Capture
  <2>16. ASSUME NEW q, Find(m, f, q) # 0 \/ q = r PROVE Find(n, f, q) # 0
    <3>1. CASE q = r
      <4>1. IsFound(n, f, r, new)
        BY <2>2, <2>3 DEF IsFound
      <4>2. new # 0
        BY <2>5
      <4>3. QED
        BY <2>2, <3>1, <4>1, <4>2, FindFacts
    <3>2. CASE Find(m, f, q) # 0
      <4>1. IsFound(m, f, q, Find(m, f, q))
        BY <3>2, FindFacts
      <4>2. IsFound(n, f, q, Find(m, f, q))
        BY <1>1, <2>2, <2>3, <4>1 DEF IsFound
      <4>3. QED
        BY <2>2, <3>2, <4>2, FindFacts
    <3>3. QED
      BY <2>16, <3>1, <3>2
  <2>17. QED
    BY <2>2, <2>3, <2>5, <2>15, <2>16 DEF n
<1>4. QED
  BY <1>2, <1>3

\* The captures of form_closure, one after the other.
LEMMA OpenAllDef ==
    ASSUME NEW m, NEW f, NEW regs, Len(regs) \in Nat
    PROVE  \E after : /\ after = [i \in 0 .. Len(regs) |->
                                    IF i = 0 THEN m ELSE Open(after[i - 1], f, regs[i])]
                      /\ OpenAll(m, f, regs) = after[Len(regs)]
<1> DEFINE Unsolved(k) == \A g : g # [i \in 0 .. k |-> IF i = 0 THEN m ELSE Open(g[i - 1], f, regs[i])]
           T == {k \in Nat : Unsolved(k)}
           after == CHOOSE g : g = [i \in 0 .. Len(regs) |-> IF i = 0 THEN m ELSE Open(g[i - 1], f, regs[i])]
<1>1. OpenAll(m, f, regs) = after[Len(regs)]
  BY DEF OpenAll
<1>2. T = {}
  <2>1. SUFFICES ASSUME T # {} PROVE FALSE
    OBVIOUS
  <2>2. PICK k \in T : \A j \in T : k <= j
    BY <2>1, LeastNat
  <2>3. CASE k = 0
    <3> DEFINE g == [i \in 0 .. 0 |-> m]
    <3>1. g = [i \in 0 .. 0 |-> IF i = 0 THEN m ELSE Open(g[i - 1], f, regs[i])]
      OBVIOUS
    <3>2. QED
      BY <2>3, <3>1
  <2>4. CASE k > 0
    <3>1. k \in Nat /\ k - 1 \in Nat /\ ~Unsolved(k - 1)
      <4> HIDE DEF Unsolved
      <4>1. k \in Nat /\ k - 1 \in Nat /\ ~(k <= k - 1)
        BY <2>2, <2>4
      <4>2. QED
        BY <2>2, <4>1
    <3>2. PICK g : g = [i \in 0 .. k - 1 |-> IF i = 0 THEN m ELSE Open(g[i - 1], f, regs[i])]
      BY <3>1
    <3> DEFINE h == [i \in 0 .. k |-> IF i = k THEN Open(g[k - 1], f, regs[k]) ELSE g[i]]
    <3>3. \A i \in 0 .. k : h[i] = IF i = 0 THEN m ELSE Open(h[i - 1], f, regs[i])
      <4>1. TAKE i \in 0 .. k
      <4>2. CASE i = k
        BY <2>4, <3>1, <4>2
      <4>3. CASE i # k
        <5>1. i \in 0 .. k - 1 /\ h[i] = g[i]
          BY <3>1, <4>3
        <5>2. g[i] = IF i = 0 THEN m ELSE Open(g[i - 1], f, regs[i])
          BY <3>2, <5>1
        <5>3. i # 0 => h[i - 1] = g[i - 1]
          BY <3>1, <5>1
        <5> HIDE DEF h
        <5>4. QED
          BY <5>1, <5>2, <5>3
      <4>4. QED
        BY <4>2, <4>3
    <3>4. h = [i \in 0 .. k |-> IF i = 0 THEN m ELSE Open(h[i - 1], f, regs[i])]
      BY <3>3
    <3>5. ~Unsolved(k)
      <4> HIDE DEF h
      <4>1. QED
        BY <3>4
    <3>6. QED
      BY <2>2, <3>5
  <2>5. QED
    BY <2>2, <2>3, <2>4
<1>3. \E g : g = [i \in 0 .. Len(regs) |-> IF i = 0 THEN m ELSE Open(g[i - 1], f, regs[i])]
  BY <1>2
<1>4. after = [i \in 0 .. Len(regs) |-> IF i = 0 THEN m ELSE Open(after[i - 1], f, regs[i])]
  BY <1>3
<1> HIDE DEF after
<1>5. QED
  BY <1>1, <1>4

\* All the registers a new closure captures.
LEMMA OpenAllKeeps ==
    ASSUME NEW m, GoodMachine(m), NEW f \in DOMAIN m.fs, NEW regs \in Seq(Reg),
           NEW la, NEW le, NEW re, NEW or, Capture(m, la, le, re, or), f \in le => f \in re
    PROVE  LET n == OpenAll(m, f, regs)
           IN /\ GoodMachine(n) /\ Capture(n, la, le, re, or)
              /\ n.fs = m.fs /\ Len(m.ups) <= Len(n.ups)
              /\ \A i \in DOMAIN regs : Find(n, f, regs[i]) # 0
<1>1. Len(regs) \in Nat /\ DOMAIN regs = 1 .. Len(regs) /\ \A i \in 1 .. Len(regs) : regs[i] \in Reg
  OBVIOUS
<1>2. PICK after : /\ after = [i \in 0 .. Len(regs) |-> IF i = 0 THEN m ELSE Open(after[i - 1], f, regs[i])]
                   /\ OpenAll(m, f, regs) = after[Len(regs)]
  BY <1>1, OpenAllDef
<1>3. \A n : GoodMachine(n) => Len(n.ups) \in Nat
  BY DEF GoodMachine, IsMachine
<1> DEFINE P(i) == /\ GoodMachine(after[i]) /\ Capture(after[i], la, le, re, or)
                   /\ after[i].fs = m.fs /\ Len(m.ups) <= Len(after[i].ups)
                   /\ \A j \in 1 .. i : Find(after[i], f, regs[j]) # 0
           T == {i \in 0 .. Len(regs) : ~P(i)}
<1>4. T = {}
  <2>1. SUFFICES ASSUME T # {} PROVE FALSE
    OBVIOUS
  <2>2. PICK i \in T : \A j \in T : i <= j
    <3>1. T \subseteq Nat
      OBVIOUS
    <3>2. QED
      BY <2>1, <3>1, LeastNat
  <2>3. P(0)
    <3>1. after[0] = m
      BY <1>1, <1>2
    <3>2. Len(m.ups) <= Len(m.ups)
      BY <1>3
    <3>3. QED
      BY <3>1, <3>2
  <2>4. i \in 0 .. Len(regs) /\ ~P(i) /\ i # 0
    BY <2>2, <2>3
  <2>5. /\ i \in 1 .. Len(regs) /\ i - 1 \in 0 .. Len(regs) /\ ~(i <= i - 1)
        /\ \A j \in 1 .. i : j = i \/ j \in 1 .. i - 1
    BY <1>1, <2>4
  <2>6. P(i - 1)
    BY <2>2, <2>5
  <2> DEFINE n == after[i - 1]
             o == Open(n, f, regs[i])
  <2>7. after[i] = o
    BY <1>2, <2>4
  <2>8. /\ GoodMachine(n) /\ Capture(n, la, le, re, or) /\ n.fs = m.fs /\ Len(m.ups) <= Len(n.ups)
        /\ \A j \in 1 .. i - 1 : Find(n, f, regs[j]) # 0
    BY <2>6
  <2>9. regs[i] \in Reg /\ f \in DOMAIN n.fs
    BY <1>1, <2>5, <2>8
  <2> HIDE DEF n, T
  <2>10. /\ GoodMachine(o) /\ Capture(o, la, le, re, or) /\ o.fs = n.fs /\ Len(n.ups) <= Len(o.ups)
         /\ Find(o, f, regs[i]) # 0 /\ \A q : Find(n, f, q) # 0 => Find(o, f, q) # 0
    BY <2>8, <2>9, OpenKeeps
  <2>11. Len(m.ups) <= Len(o.ups)
    BY <1>3, <2>8, <2>10
  <2> HIDE DEF o
  <2>12. \A j \in 1 .. i : Find(o, f, regs[j]) # 0
    BY <2>5, <2>8, <2>10
  <2>13. QED
    BY <2>4, <2>7, <2>8, <2>10, <2>11, <2>12
<1>5. P(Len(regs))
  <2>1. Len(regs) \in 0 .. Len(regs)
    BY <1>1
  <2>2. QED
    BY <1>4, <2>1
<1>6. QED
  BY <1>1, <1>2, <1>5

-----------------------------------------------------------------------------
(* The inductive invariant.                                                *)

Cont == [frame : Nat, to : SUBSET Reg]

FramesOK ==
    /\ frames \in Seq(Frame) /\ frame \in 0 .. Len(frames)
    /\ latest \in Seq([Reg -> Val]) /\ Len(latest) = Len(frames) /\ left \subseteq 1 .. Len(frames)

\* Frames, closures and continuations refer to existing ones.
LinksOK ==
    /\ closures \in Seq(SUBSET Nat) /\ conts \in Seq(Cont) /\ reified \subseteq 1 .. Len(conts)
    /\ \A f \in 1 .. Len(frames) : /\ frames[f].clos \in 1 .. Len(closures)
                                   /\ frames[f].cont \in 0 .. Len(conts)
    /\ \A c \in 1 .. Len(closures) : closures[c] \subseteq 1 .. Len(upvals)
    /\ \A k \in 1 .. Len(conts) : conts[k].frame \in 1 .. Len(frames)

\* Only the outermost evaluation has no frame to restore.
SavedOK ==
    /\ saved \in Seq(0 .. Len(frames))
    /\ \A i \in 1 .. Len(saved) : saved[i] = 0 <=> i = 1
    /\ frame = 0 <=> saved = <<>>

CapturedOK ==
    /\ GoodMachine(Machine)
    /\ Capture(Machine, latest, left, resumed, orphans)
    /\ frame \in left => frame \in resumed

VMInv == FramesOK /\ LinksOK /\ SavedOK /\ CapturedOK

-----------------------------------------------------------------------------
(* Frames that change, and new ones.                                       *)

\* The registers of frame f are replaced, or its continuation is.
LEMMA SetRFacts ==
    ASSUME NEW fs \in Seq(Frame), NEW f \in 1 .. Len(fs), NEW R \in [Reg -> Val]
    PROVE  LET fs2 == [fs EXCEPT ![f].R = R]
           IN /\ fs2 \in Seq(Frame) /\ Len(fs2) = Len(fs)
              /\ \A g \in 1 .. Len(fs) : /\ fs2[g].clos = fs[g].clos /\ fs2[g].cont = fs[g].cont
                                         /\ g # f => fs2[g].R = fs[g].R
              /\ fs2[f].R = R
<1> DEFINE w == [fs[f] EXCEPT !.R = R]
           fs2 == [fs EXCEPT ![f] = w]
<1>1. fs[f] \in Frame
  OBVIOUS
<1>2. w \in Frame /\ w.clos = fs[f].clos /\ w.cont = fs[f].cont /\ w.R = R
  BY <1>1, Zenon DEF Frame
<1> HIDE DEF w
<1>3. fs2 \in Seq(Frame) /\ Len(fs2) = Len(fs) /\ \A g \in 1 .. Len(fs) : fs2[g] = IF g = f THEN w ELSE fs[g]
  BY <1>2
<1>4. QED
  BY <1>2, <1>3 DEF w

\* The continuation of frame f is replaced.
LEMMA SetContFacts ==
    ASSUME NEW fs \in Seq(Frame), NEW f \in 1 .. Len(fs), NEW k \in Nat
    PROVE  LET fs2 == [fs EXCEPT ![f].cont = k]
           IN /\ fs2 \in Seq(Frame) /\ Len(fs2) = Len(fs)
              /\ \A g \in 1 .. Len(fs) : /\ fs2[g].clos = fs[g].clos /\ fs2[g].R = fs[g].R
                                         /\ g # f => fs2[g].cont = fs[g].cont
              /\ fs2[f].cont = k
<1> DEFINE w == [fs[f] EXCEPT !.cont = k]
           fs2 == [fs EXCEPT ![f] = w]
<1>1. fs[f] \in Frame
  OBVIOUS
<1>2. w \in Frame /\ w.clos = fs[f].clos /\ w.cont = k /\ w.R = fs[f].R
  BY <1>1, Zenon DEF Frame
<1> HIDE DEF w
<1>3. fs2 \in Seq(Frame) /\ Len(fs2) = Len(fs) /\ \A g \in 1 .. Len(fs) : fs2[g] = IF g = f THEN w ELSE fs[g]
  BY <1>2
<1>4. QED
  BY <1>2, <1>3 DEF w

\* The registers fs2 and variables la2 come from fs and la by changes in frame f,
\* which make both differ in the same way.
Changed(fs, la, fs2, la2, f) ==
    /\ fs2 \in Seq(Frame) /\ Len(fs2) = Len(fs) /\ la2 \in Seq([Reg -> Val]) /\ Len(la2) = Len(la)
    /\ \A g \in 1 .. Len(fs) : g # f => fs2[g].R = fs[g].R /\ la2[g] = la[g]
    /\ fs[f].R = la[f] => fs2[f].R = la2[f]

\* Such a change keeps registers and variables equal.
LEMMA ChangedRegisters ==
    ASSUME NEW m, NEW la, NEW le, Registers(m, la, le), NEW n, NEW la2, NEW f,
           Changed(m.fs, la, n.fs, la2, f), m.fs \in Seq(Frame)
    PROVE  Registers(n, la2, le)
<1>1. DOMAIN m.fs = 1 .. Len(m.fs) /\ DOMAIN n.fs = DOMAIN m.fs
  BY DEF Changed
<1>2. SUFFICES ASSUME NEW g \in DOMAIN m.fs, g \notin le PROVE n.fs[g].R = la2[g]
  BY <1>1 DEF Registers
<1>3. m.fs[g].R = la[g]
  BY <1>2 DEF Registers
<1>4. QED
  BY <1>1, <1>3 DEF Changed

\* A frame that was left may change only if it counts as resumed.
LEMMA ChangeKeeps ==
    ASSUME NEW m, GoodMachine(m), NEW la, NEW le, NEW re, NEW or, Capture(m, la, le, re, or),
           NEW n, MachineRec(n), n.ups = m.ups, n.head = m.head, n.parent = 0,
           NEW la2, NEW f, Changed(m.fs, la, n.fs, la2, f),
           NEW re2, re \subseteq re2, f \in le => f \in re2
    PROVE  GoodMachine(n) /\ Capture(n, la2, le, re2, or)
<1>1. /\ m.fs \in Seq(Frame) /\ DOMAIN m.fs = 1 .. Len(m.fs) /\ n.fs \in Seq(Frame)
      /\ DOMAIN n.fs = DOMAIN m.fs
  BY DEF GoodMachine, IsMachine, Changed
<1>2. GoodMachine(n)
  BY <1>1, SameGood
<1>3. Registers(n, la2, le)
  BY <1>1, ChangedRegisters DEF Capture
<1>4. ASSUME NEW u \in 1 .. Len(m.ups), ~m.ups[u].open, Known(m, u, re2, or)
      PROVE  la2[m.ups[u].frame][m.ups[u].reg] = la[m.ups[u].frame][m.ups[u].reg]
  <2>1. m.ups[u].frame \in le
    BY <1>4 DEF Capture, ClosedLeft
  <2>2. m.ups[u].frame # f
    BY <1>4, <2>1 DEF Known
  <2>3. m.ups[u].frame \in 1 .. Len(m.fs)
    BY <1>1, UpvalFacts DEF GoodMachine
  <2>4. QED
    BY <2>2, <2>3 DEF Changed
<1>5. QED
  BY <1>2, <1>3, <1>4, AssignKeeps

WithCont(fs, f, cont) == [fs EXCEPT ![f].cont = cont]

ReceiveLatest(k, v) == [latest EXCEPT ![conts[k].frame] = Written(@, k, v)]

\* A continuation receives v, and its frame is resumed.
LEMMA ReceiveFacts ==
    ASSUME FramesOK, LinksOK, NEW k \in 1 .. Len(conts), NEW v \in Val, NEW cont \in Nat
    PROVE  LET f   == conts[k].frame
               fs1 == Receive(k, v)
               fs2 == WithCont(fs1, f, cont)
               la2 == ReceiveLatest(k, v)
           IN /\ Changed(frames, latest, fs1, la2, f) /\ Changed(frames, latest, fs2, la2, f)
              /\ \A g \in 1 .. Len(frames) :
                    /\ fs2[g].R = fs1[g].R /\ fs2[g].clos = frames[g].clos
                    /\ g # f => fs2[g].cont = frames[g].cont
              /\ fs2[f].cont = cont
<1> DEFINE f   == conts[k].frame
           V   == Written(frames[f].R, k, v)
           L   == Written(latest[f], k, v)
           fs1 == [frames EXCEPT ![f].R = V]
           fs2 == [fs1 EXCEPT ![f].cont = cont]
           la2 == [latest EXCEPT ![f] = L]
<1>1. /\ frames \in Seq(Frame) /\ latest \in Seq([Reg -> Val]) /\ Len(latest) = Len(frames)
      /\ Len(frames) \in Nat /\ f \in 1 .. Len(frames)
  BY DEF FramesOK, LinksOK
<1>2. V \in [Reg -> Val] /\ L \in [Reg -> Val] /\ (frames[f].R = latest[f] => V = L)
  <2>1. frames[f] \in Frame /\ latest[f] \in [Reg -> Val]
    BY <1>1
  <2>2. frames[f].R \in [Reg -> Val]
    BY <2>1 DEF Frame
  <2>3. \A R \in [Reg -> Val] : Written(R, k, v) \in [Reg -> Val]
    BY DEF Written
  <2>4. QED
    BY <2>1, <2>2, <2>3
<1>3. fs1 = Receive(k, v) /\ fs2 = WithCont(Receive(k, v), f, cont) /\ la2 = ReceiveLatest(k, v)
  BY DEF Receive, WithCont, ReceiveLatest
<1> HIDE DEF f, V, L
<1>4. /\ fs1 \in Seq(Frame) /\ Len(fs1) = Len(frames)
      /\ \A g \in 1 .. Len(frames) : /\ fs1[g].clos = frames[g].clos /\ fs1[g].cont = frames[g].cont
                                     /\ g # f => fs1[g].R = frames[g].R
      /\ fs1[f].R = V
  BY <1>1, <1>2, SetRFacts
<1> HIDE DEF fs1
<1>5. /\ fs2 \in Seq(Frame) /\ Len(fs2) = Len(fs1)
      /\ \A g \in 1 .. Len(fs1) : /\ fs2[g].clos = fs1[g].clos /\ fs2[g].R = fs1[g].R
                                  /\ g # f => fs2[g].cont = fs1[g].cont
      /\ fs2[f].cont = cont
  BY <1>1, <1>4, SetContFacts
<1> HIDE DEF fs2
<1>6. /\ la2 \in Seq([Reg -> Val]) /\ Len(la2) = Len(latest)
      /\ \A g \in 1 .. Len(frames) : g # f => la2[g] = latest[g]
      /\ la2[f] = L
  BY <1>1, <1>2
<1> HIDE DEF la2
<1>7. Changed(frames, latest, fs1, la2, f)
  BY <1>1, <1>2, <1>4, <1>6 DEF Changed
<1>8. Changed(frames, latest, fs2, la2, f)
  BY <1>1, <1>2, <1>4, <1>5, <1>6 DEF Changed
<1>9. /\ \A g \in 1 .. Len(frames) :
            /\ fs2[g].R = fs1[g].R /\ fs2[g].clos = frames[g].clos
            /\ g # f => fs2[g].cont = frames[g].cont
      /\ fs2[f].cont = cont
  BY <1>4, <1>5
<1>10. QED
  BY <1>3, <1>7, <1>8, <1>9 DEF f

-----------------------------------------------------------------------------
(* What the parts of an action do.                                         *)

\* The fields of the machine.
LEMMA MachineFacts ==
    /\ \A fs : /\ MachineRec(MachineOf(fs)) /\ MachineOf(fs).ups = upvals
               /\ MachineOf(fs).head = open /\ MachineOf(fs).parent = 0 /\ MachineOf(fs).fs = fs
    /\ MachineRec(Machine) /\ Machine.ups = upvals /\ Machine.head = open
    /\ Machine.parent = 0 /\ Machine.fs = frames
BY DEF Machine, MachineOf, MachineRec

\* The fields of the machine after a step.
LEMMA NextMachineFacts ==
    /\ MachineRec(Machine') /\ Machine'.ups = upvals' /\ Machine'.head = open'
    /\ Machine'.parent = 0 /\ Machine'.fs = frames'
BY DEF Machine, MachineOf, MachineRec

\* The frame is left; m is the machine before its upvalues were closed.
LEMMA LeaveFacts ==
    ASSUME NEW m, GoodMachine(m), m.ups = upvals, m.head = open, NEW n, Closed(m, n, frame),
           Leave(n), NEW la, NEW re, Capture(m, la, left, re, orphans), frame \in left => frame \in re
    PROVE  /\ GoodMachine(n) /\ Capture(n, la, left', re, orphans') /\ n.fs = m.fs
           /\ n.ups = upvals' /\ n.head = open' /\ Len(upvals') = Len(upvals)
           /\ left' = left \cup {frame}
           /\ OneAtMost(Machine, frame) => orphans' = orphans
<1>1. /\ upvals' = n.ups /\ open' = n.head /\ left' = left \cup {frame}
      /\ orphans' = orphans \cup Lost(n)
  BY DEF Leave
<1>2. GoodMachine(n) /\ n.fs = m.fs /\ Len(n.ups) = Len(m.ups)
  BY DEF Closed, Shrunk
<1>3. Capture(n, la, left \cup {frame}, re, orphans \cup Lost(n))
  BY LeaveKeeps
<1>4. ASSUME OneAtMost(Machine, frame) PROVE orphans' = orphans
  <2>1. Listed(Machine) = Listed(m) /\ Machine.ups = m.ups
    BY MachineFacts, SameLinks
  <2>2. \A r : Find(Machine, frame, r) = Find(m, frame, r)
    BY <2>1 DEF Find
  <2>3. Lost(n) \subseteq Lost(m)
    BY <1>4, <2>2 DEF OneAtMost, Closed
  <2>4. Lost(m) \subseteq orphans
    BY DEF Capture, OpenListed, Lost
  <2>5. QED
    BY <1>1, <2>3, <2>4
<1>5. QED
  BY <1>1, <1>2, <1>3, <1>4

\* What Quit leaves: a machine with the same frames.
Quitted(n) ==
    /\ GoodMachine(n) /\ Capture(n, latest, left', resumed, orphans') /\ n.fs = frames
    /\ n.ups = upvals' /\ n.head = open' /\ Len(upvals') = Len(upvals)
    /\ left' \subseteq 1 .. Len(frames)
    /\ OneAtMost(Machine, frame) => orphans' = orphans

\* A call leaves the running frame, or does not.
LEMMA QuitFacts ==
    ASSUME VMInv, NEW tail, Running, Quit(tail), NVars \in Nat
    PROVE  \E n : Quitted(n)
<1>1. /\ GoodMachine(Machine) /\ Capture(Machine, latest, left, resumed, orphans)
      /\ frame \in left => frame \in resumed
      /\ left \subseteq 1 .. Len(frames) /\ frame \in 1 .. Len(frames)
  BY DEF VMInv, CapturedOK, FramesOK, Running
<1>2. CASE Replaces(tail)
  <2> DEFINE n == CloseAll(Machine, frame)
  <2>1. Leave(n)
    BY <1>2 DEF Quit
  <2>2. Closed(Machine, n, frame)
    BY <1>1, CloseAllCloses
  <2> HIDE DEF n
  <2>3. /\ GoodMachine(n) /\ Capture(n, latest, left', resumed, orphans') /\ n.fs = frames
        /\ n.ups = upvals' /\ n.head = open' /\ Len(upvals') = Len(upvals)
        /\ left' = left \cup {frame}
        /\ OneAtMost(Machine, frame) => orphans' = orphans
    BY <1>1, <2>1, <2>2, MachineFacts, LeaveFacts
  <2>4. QED
    BY <1>1, <2>3 DEF Quitted
<1>3. CASE ~Replaces(tail)
  <2>1. upvals' = upvals /\ open' = open /\ left' = left /\ orphans' = orphans
    BY <1>3 DEF Quit
  <2>2. Quitted(Machine)
    BY <1>1, <2>1, MachineFacts DEF Quitted
  <2>3. QED
    BY <2>2
<1>4. QED
  BY <1>2, <1>3

\* What Enter does.
Entered(new) ==
    /\ frames' \in Seq(Frame) /\ Len(frames') = Len(frames) + Len(new)
    /\ latest' \in Seq([Reg -> Val]) /\ Len(latest') = Len(frames')
    /\ \A g \in 1 .. Len(frames) : frames'[g] = frames[g] /\ latest'[g] = latest[g]
    /\ \A i \in 1 .. Len(new) : /\ frames'[Len(frames) + i] = new[i]
                                /\ latest'[Len(frames) + i] = new[i].R
    /\ frame' = Len(frames')

\* New frames are added behind the others.
LEMMA EnterFacts ==
    ASSUME FramesOK, NEW new \in Seq(Frame), Enter(new)
    PROVE  Entered(new)
<1> DEFINE L == [i \in DOMAIN new |-> new[i].R]
<1>1. /\ frames' = frames \o new /\ latest' = latest \o L /\ frame' = Len(frames) + Len(new)
  BY DEF Enter
<1>2. frames \in Seq(Frame) /\ latest \in Seq([Reg -> Val]) /\ Len(latest) = Len(frames)
      /\ Len(frames) \in Nat /\ Len(new) \in Nat /\ DOMAIN new = 1 .. Len(new)
  BY DEF FramesOK
<1>3. \A i \in 1 .. Len(new) : new[i].R \in [Reg -> Val]
  <2>1. \A i \in 1 .. Len(new) : new[i] \in Frame
    OBVIOUS
  <2>2. QED
    BY <2>1 DEF Frame
<1>4. L \in [1 .. Len(new) -> [Reg -> Val]]
  BY <1>2, <1>3
<1>5. L \in Seq([Reg -> Val]) /\ Len(L) = Len(new) /\ \A i \in 1 .. Len(new) : L[i] = new[i].R
  BY <1>2, <1>4, FunctionIsSeq
<1> HIDE DEF L
<1>6. /\ frames' \in Seq(Frame) /\ Len(frames') = Len(frames) + Len(new)
      /\ \A g \in 1 .. Len(frames) : frames'[g] = frames[g]
      /\ \A i \in 1 .. Len(new) : frames'[Len(frames) + i] = new[i]
  BY <1>1, <1>2
<1>7. /\ latest' \in Seq([Reg -> Val]) /\ Len(latest') = Len(frames) + Len(new)
      /\ \A g \in 1 .. Len(frames) : latest'[g] = latest[g]
      /\ \A i \in 1 .. Len(new) : latest'[Len(frames) + i] = L[i]
  BY <1>1, <1>2, <1>5
<1>8. QED
  BY <1>1, <1>5, <1>6, <1>7 DEF Entered

\* New frames disturb no captured variable.
LEMMA EnterKeeps ==
    ASSUME FramesOK, NEW new \in Seq(Frame), new # <<>>, Entered(new), NEW n, Quitted(n),
           resumed' = resumed
    PROVE  FramesOK' /\ CapturedOK'
<1>1. /\ frames \in Seq(Frame) /\ Len(frames) \in Nat /\ Len(new) \in Nat /\ Len(new) # 0
      /\ DOMAIN frames = 1 .. Len(frames)
  BY EmptySeq DEF FramesOK
<1>2. /\ frames' \in Seq(Frame) /\ Len(frames') = Len(frames) + Len(new)
      /\ latest' \in Seq([Reg -> Val]) /\ Len(latest') = Len(frames')
      /\ \A g \in 1 .. Len(frames) : frames'[g] = frames[g] /\ latest'[g] = latest[g]
      /\ \A i \in 1 .. Len(new) : frames'[Len(frames) + i].R = latest'[Len(frames) + i]
      /\ frame' = Len(frames')
  BY DEF Entered
<1>3. DOMAIN frames' = 1 .. Len(frames) + Len(new) /\ 1 .. Len(frames) \subseteq 1 .. Len(frames')
      /\ frame' \in 0 .. Len(frames') /\ frame' \notin 1 .. Len(frames)
  BY <1>1, <1>2
<1>4. left' \subseteq 1 .. Len(frames)
  BY DEF Quitted
<1>5. FramesOK'
  BY <1>2, <1>3, <1>4 DEF FramesOK
<1>6. /\ GoodMachine(n) /\ Capture(n, latest, left', resumed, orphans') /\ n.fs = frames
      /\ n.ups = upvals' /\ n.head = open'
  BY DEF Quitted
<1>7. GoodMachine(Machine')
  BY <1>1, <1>2, <1>3, <1>6, NextMachineFacts, SameGood
<1>8. Registers(Machine', latest', left')
  <2>1. SUFFICES ASSUME NEW g \in DOMAIN frames', g \notin left' PROVE frames'[g].R = latest'[g]
    BY NextMachineFacts DEF Registers
  <2>2. CASE g \in 1 .. Len(frames)
    <3>1. frames[g].R = latest[g]
      BY <1>1, <1>6, <2>1, <2>2 DEF Capture, Registers
    <3>2. QED
      BY <1>2, <2>2, <3>1
  <2>3. CASE g \notin 1 .. Len(frames)
    <3>1. g - Len(frames) \in 1 .. Len(new) /\ Len(frames) + (g - Len(frames)) = g
      BY <1>1, <1>3, <2>1, <2>3
    <3>2. QED
      BY <1>2, <3>1
  <2>4. QED
    BY <2>2, <2>3
<1>9. ASSUME NEW u \in 1 .. Len(n.ups)
      PROVE  latest'[n.ups[u].frame][n.ups[u].reg] = latest[n.ups[u].frame][n.ups[u].reg]
  <2>1. n.ups[u].frame \in 1 .. Len(frames)
    BY <1>1, <1>6, UpvalFacts DEF GoodMachine
  <2>2. QED
    BY <1>2, <2>1
<1>10. Capture(Machine', latest', left', resumed', orphans')
  BY <1>6, <1>8, <1>9, NextMachineFacts, AssignKeeps
<1>11. frame' \notin left'
  BY <1>3, <1>4
<1>12. CapturedOK'
  BY <1>7, <1>10, <1>11 DEF CapturedOK
<1>13. QED
  BY <1>5, <1>12

SetVar(fs, f, r, v) == [fs EXCEPT ![f].R[r] = v]

SetLatest(la, f, r, v) == [la EXCEPT ![f][r] = v]

\* One variable is assigned, in its register and in the history.
LEMMA SetVarFacts ==
    ASSUME FramesOK, NEW f \in 1 .. Len(frames), NEW r \in Reg, NEW v \in Val
    PROVE  LET fs2 == SetVar(frames, f, r, v)
               la2 == SetLatest(latest, f, r, v)
           IN /\ Changed(frames, latest, fs2, la2, f)
              /\ \A g \in 1 .. Len(frames) : fs2[g].clos = frames[g].clos /\ fs2[g].cont = frames[g].cont
              /\ Assigned(Len(frames), latest, la2, f, r, v)
<1> DEFINE R   == [frames[f].R EXCEPT ![r] = v]
           L   == [latest[f] EXCEPT ![r] = v]
           fs2 == [frames EXCEPT ![f].R = R]
           la2 == [latest EXCEPT ![f] = L]
<1>1. /\ frames \in Seq(Frame) /\ latest \in Seq([Reg -> Val]) /\ Len(latest) = Len(frames)
      /\ Len(frames) \in Nat
  BY DEF FramesOK
<1>2. frames[f].R \in [Reg -> Val] /\ latest[f] \in [Reg -> Val]
  <2>1. frames[f] \in Frame
    BY <1>1
  <2>2. frames[f].R \in [Reg -> Val]
    BY <2>1 DEF Frame
  <2>3. QED
    BY <1>1, <2>2
<1>3. R \in [Reg -> Val] /\ L \in [Reg -> Val] /\ (frames[f].R = latest[f] => R = L)
      /\ \A q \in Reg : L[q] = IF q = r THEN v ELSE latest[f][q]
  BY <1>2
<1>4. fs2 = SetVar(frames, f, r, v) /\ la2 = SetLatest(latest, f, r, v)
  BY DEF SetVar, SetLatest
<1> HIDE DEF R, L
<1>5. /\ fs2 \in Seq(Frame) /\ Len(fs2) = Len(frames)
      /\ \A g \in 1 .. Len(frames) : /\ fs2[g].clos = frames[g].clos /\ fs2[g].cont = frames[g].cont
                                     /\ g # f => fs2[g].R = frames[g].R
      /\ fs2[f].R = R
  BY <1>1, <1>3, SetRFacts
<1>6. /\ la2 \in Seq([Reg -> Val]) /\ Len(la2) = Len(latest)
      /\ \A g \in 1 .. Len(frames) : la2[g] = IF g = f THEN L ELSE latest[g]
  BY <1>1, <1>3
<1> HIDE DEF fs2, la2
<1>7. Changed(frames, latest, fs2, la2, f)
  BY <1>3, <1>5, <1>6 DEF Changed
<1>8. Assigned(Len(frames), latest, la2, f, r, v)
  BY <1>3, <1>6 DEF Assigned
<1>9. QED
  BY <1>4, <1>5, <1>7, <1>8

\* The evaluations in progress are the same, and the machine still runs, or
\* still does not.
LEMMA SavedSame ==
    ASSUME SavedOK, saved' = saved, frames \in Seq(Frame), frames' \in Seq(Frame),
           Len(frames) <= Len(frames'), frame' = 0 <=> frame = 0
    PROVE  SavedOK'
<1>1. 0 .. Len(frames) \subseteq 0 .. Len(frames')
  OBVIOUS
<1>2. saved \in Seq(0 .. Len(frames'))
  BY <1>1 DEF SavedOK
<1>3. QED
  BY <1>2 DEF SavedOK

\* No frame, closure or continuation is made or changed, but in its registers.
LEMMA LinksSame ==
    ASSUME LinksOK, closures' = closures, conts' = conts, reified' = reified,
           Len(frames') = Len(frames), Len(upvals') = Len(upvals),
           \A g \in 1 .. Len(frames) : frames'[g].clos = frames[g].clos /\ frames'[g].cont = frames[g].cont
    PROVE  LinksOK'
BY DEF LinksOK

\* Only close_upvalues loses an upvalue.
Loses == OneAtMost(Machine, frame) => orphans' = orphans

\* A frame that runs was not left, or counts as resumed.
LEMMA SetRegStep ==
    ASSUME VMInv, NEW r \in Reg, NEW v \in Value, SetReg(r, v)
    PROVE  VMInv' /\ Loses
<1>1. FramesOK /\ LinksOK /\ SavedOK /\ CapturedOK /\ v \in Val
  BY DEF VMInv, Val
<1>2. /\ frame # 0 /\ frames' = SetVar(frames, frame, r, v)
      /\ latest' = SetLatest(latest, frame, r, v)
      /\ frame' = frame /\ saved' = saved /\ upvals' = upvals /\ open' = open /\ closures' = closures
      /\ conts' = conts /\ reified' = reified /\ left' = left /\ resumed' = resumed /\ orphans' = orphans
  BY DEF SetReg, Running, SetVar, SetLatest
<1>3. frames \in Seq(Frame) /\ Len(frames) \in Nat /\ frame \in 1 .. Len(frames)
      /\ left \subseteq 1 .. Len(frames) /\ Len(latest) = Len(frames)
  BY <1>1, <1>2 DEF FramesOK
<1>4. /\ Changed(frames, latest, frames', latest', frame)
      /\ \A g \in 1 .. Len(frames) : frames'[g].clos = frames[g].clos /\ frames'[g].cont = frames[g].cont
  BY <1>1, <1>2, <1>3, SetVarFacts
<1>5. frames' \in Seq(Frame) /\ Len(frames') = Len(frames) /\ latest' \in Seq([Reg -> Val])
      /\ Len(latest') = Len(frames')
  BY <1>3, <1>4 DEF Changed
<1>6. FramesOK'
  BY <1>2, <1>3, <1>5 DEF FramesOK
<1>7. LinksOK'
  BY <1>1, <1>2, <1>4, <1>5, LinksSame
<1>8. SavedOK'
  BY <1>1, <1>2, <1>3, <1>5, SavedSame
<1>9. GoodMachine(Machine') /\ Capture(Machine', latest', left, resumed, orphans)
  <2>1. /\ GoodMachine(Machine) /\ Capture(Machine, latest, left, resumed, orphans)
        /\ frame \in left => frame \in resumed
    BY <1>1 DEF CapturedOK
  <2>2. Machine'.ups = Machine.ups /\ Machine'.head = Machine.head
    BY <1>2, MachineFacts, NextMachineFacts
  <2>3. Changed(Machine.fs, latest, Machine'.fs, latest', frame)
    BY <1>4, MachineFacts, NextMachineFacts
  <2>4. MachineRec(Machine') /\ Machine'.parent = 0 /\ resumed \subseteq resumed
    BY NextMachineFacts
  <2>5. QED
    BY <2>1, <2>2, <2>3, <2>4, ChangeKeeps
<1>10. CapturedOK'
  BY <1>1, <1>2, <1>9 DEF CapturedOK
<1>11. QED
  BY <1>2, <1>6, <1>7, <1>8, <1>10 DEF VMInv, Loses

\* Through an open upvalue or a closed one, the variable is assigned.
LEMMA SetUpvalStep ==
    ASSUME VMInv, NEW u \in DOMAIN upvals, NEW v \in Value, SetUpval(u, v)
    PROVE  VMInv' /\ Loses
<1> DEFINE f == upvals[u].frame
           r == upvals[u].reg
<1>1. /\ FramesOK /\ LinksOK /\ SavedOK /\ CapturedOK /\ v \in Val
      /\ GoodMachine(Machine) /\ Capture(Machine, latest, left, resumed, orphans)
  BY DEF VMInv, Val, CapturedOK
<1>2. /\ latest' = SetLatest(latest, f, r, v)
      /\ frame' = frame /\ saved' = saved /\ open' = open /\ closures' = closures
      /\ conts' = conts /\ reified' = reified /\ left' = left /\ resumed' = resumed /\ orphans' = orphans
  BY DEF SetUpval, SetLatest
<1>3. /\ frames \in Seq(Frame) /\ Len(frames) \in Nat /\ frame \in 0 .. Len(frames)
      /\ left \subseteq 1 .. Len(frames) /\ Len(latest) = Len(frames) /\ DOMAIN frames = 1 .. Len(frames)
  BY <1>1 DEF FramesOK
<1>4. upvals \in Seq(Upval) /\ u \in 1 .. Len(upvals)
  BY <1>1, MachineFacts DEF GoodMachine, IsMachine
<1>5. f \in 1 .. Len(frames) /\ r \in Reg
  BY <1>1, <1>3, <1>4, MachineFacts, UpvalFacts DEF GoodMachine
<1> HIDE DEF f, r
<1>6. LET fs2 == SetVar(frames, f, r, v)
      IN /\ Changed(frames, latest, fs2, latest', f)
         /\ \A g \in 1 .. Len(frames) : fs2[g].clos = frames[g].clos /\ fs2[g].cont = frames[g].cont
         /\ Assigned(Len(frames), latest, latest', f, r, v)
  BY <1>1, <1>2, <1>5, SetVarFacts
<1>7. CASE upvals[u].open
  <2>1. frames' = SetVar(frames, f, r, v) /\ upvals' = upvals
    BY <1>7 DEF SetUpval, SetVar, f, r
  <2>2. /\ Changed(frames, latest, frames', latest', f)
        /\ \A g \in 1 .. Len(frames) : frames'[g].clos = frames[g].clos /\ frames'[g].cont = frames[g].cont
    BY <1>6, <2>1
  <2>3. frames' \in Seq(Frame) /\ Len(frames') = Len(frames) /\ latest' \in Seq([Reg -> Val])
        /\ Len(latest') = Len(frames') /\ DOMAIN frames' = DOMAIN frames
    BY <1>3, <2>2 DEF Changed
  <2>4. FramesOK'
    BY <1>2, <1>3, <2>3 DEF FramesOK
  <2>5. LinksOK'
    BY <1>1, <1>2, <2>1, <2>2, <2>3, LinksSame
  <2>6. SavedOK'
    BY <1>1, <1>2, <1>3, <2>3, SavedSame
  <2>7. Machine'.ups = Machine.ups /\ Machine'.head = Machine.head
    BY <1>2, <2>1, MachineFacts, NextMachineFacts
  <2>8. GoodMachine(Machine')
    BY <1>1, <2>3, <2>7, MachineFacts, NextMachineFacts, SameGood
  <2>9. Registers(Machine', latest', left)
    <3>1. Changed(Machine.fs, latest, Machine'.fs, latest', f) /\ Machine.fs \in Seq(Frame)
      BY <1>3, <2>2, MachineFacts, NextMachineFacts
    <3>2. QED
      BY <1>1, <3>1, ChangedRegisters DEF Capture
  <2>10. ASSUME NEW w \in 1 .. Len(Machine.ups), ~Machine.ups[w].open,
                Known(Machine, w, resumed, orphans)
         PROVE  latest'[Machine.ups[w].frame][Machine.ups[w].reg]
                = latest[Machine.ups[w].frame][Machine.ups[w].reg]
    <3>1. u \in 1 .. Len(Machine.ups) /\ w # u
      BY <1>4, <1>7, <2>10, MachineFacts
    <3>2. Variable(Machine.ups[w]) # Variable(Machine.ups[u])
      BY <1>1, <2>10, <3>1 DEF Capture, OneEach
    <3>3. ~(Machine.ups[w].frame = f /\ Machine.ups[w].reg = r)
      BY <3>2, MachineFacts DEF Variable, f, r
    <3>4. Machine.ups[w].frame \in 1 .. Len(frames) /\ Machine.ups[w].reg \in Reg
      BY <1>1, <1>3, MachineFacts, UpvalFacts DEF GoodMachine
    <3>5. QED
      BY <1>6, <3>3, <3>4 DEF Assigned
  <2>11. Capture(Machine', latest', left, resumed, orphans)
    <3>1. resumed \subseteq resumed
      OBVIOUS
    <3>2. QED
      BY <1>1, <2>7, <2>9, <2>10, <3>1, AssignKeeps
  <2>12. CapturedOK'
    BY <1>1, <1>2, <2>8, <2>11 DEF CapturedOK
  <2>13. QED
    BY <1>2, <2>4, <2>5, <2>6, <2>12 DEF VMInv, Loses
<1>8. CASE ~upvals[u].open
  <2>1. upvals' = WithVal(upvals, u, v) /\ frames' = frames
    BY <1>8 DEF SetUpval, WithVal
  <2>2. latest' \in Seq([Reg -> Val]) /\ Len(latest') = Len(frames)
    BY <1>3, <1>6 DEF Changed
  <2>3. /\ u \in 1 .. Len(Machine.ups) /\ ~Machine.ups[u].open
        /\ Machine'.ups = WithVal(Machine.ups, u, v)
        /\ Machine'.head = Machine.head /\ Machine'.fs = Machine.fs
        /\ Machine.fs = frames /\ Machine.ups[u].frame = f /\ Machine.ups[u].reg = r
    BY <1>2, <1>3, <1>4, <1>8, <2>1, MachineFacts, NextMachineFacts DEF f, r
  <2>4. Assigned(Len(Machine.fs), latest, latest', Machine.ups[u].frame, Machine.ups[u].reg, v)
    BY <1>6, <2>3
  <2>5. /\ GoodMachine(Machine') /\ Capture(Machine', latest', left, resumed, orphans)
        /\ Len(Machine'.ups) = Len(Machine.ups)
    BY <1>1, <2>3, <2>4, NextMachineFacts, SetClosedKeeps
  <2>6. Len(upvals') = Len(upvals)
    BY <2>5, MachineFacts, NextMachineFacts
  <2>7. FramesOK'
    BY <1>2, <1>3, <2>1, <2>2 DEF FramesOK
  <2>8. LinksOK'
    BY <1>1, <1>2, <2>1, <2>6, LinksSame
  <2>9. SavedOK'
    BY <1>1, <1>2, <1>3, <2>1, SavedSame
  <2>10. CapturedOK'
    BY <1>1, <1>2, <2>5 DEF CapturedOK
  <2>11. QED
    BY <1>2, <2>7, <2>8, <2>9, <2>10 DEF VMInv, Loses
<1>9. QED
  BY <1>7, <1>8

\* form_closure
LEMMA FormClosureStep ==
    ASSUME VMInv, NEW regs \in Uplists, NEW isup \in SUBSET Upvals, FormClosure(regs, isup), VMAssumption
    PROVE  VMInv' /\ Loses
<1> DEFINE m == OpenAll(Machine, frame, regs)
           new == {Find(m, frame, regs[i]) : i \in DOMAIN regs} \cup isup
<1>1. /\ FramesOK /\ LinksOK /\ SavedOK /\ CapturedOK
      /\ GoodMachine(Machine) /\ Capture(Machine, latest, left, resumed, orphans)
      /\ frame \in left => frame \in resumed
  BY DEF VMInv, CapturedOK
<1>2. /\ frame # 0 /\ upvals' = m.ups /\ open' = m.head /\ closures' = Append(closures, new)
      /\ frames' = frames /\ frame' = frame /\ saved' = saved /\ conts' = conts /\ reified' = reified
      /\ latest' = latest /\ left' = left /\ resumed' = resumed /\ orphans' = orphans
  BY DEF FormClosure, Running, history
<1>3. frames \in Seq(Frame) /\ frame \in 1 .. Len(frames) /\ frame \in DOMAIN Machine.fs
      /\ regs \in Seq(Reg)
  BY <1>1, <1>2, MachineFacts DEF FramesOK, VMAssumption, Reg
<1>4. /\ GoodMachine(m) /\ Capture(m, latest, left, resumed, orphans)
      /\ m.fs = Machine.fs /\ Len(Machine.ups) <= Len(m.ups)
      /\ \A i \in DOMAIN regs : Find(m, frame, regs[i]) # 0
  BY <1>1, <1>3, OpenAllKeeps
<1>5. Len(upvals) \in Nat /\ Len(m.ups) \in Nat /\ 1 .. Len(upvals) \subseteq 1 .. Len(m.ups)
  BY <1>1, <1>4, MachineFacts DEF GoodMachine, IsMachine
<1>6. new \subseteq 1 .. Len(m.ups)
  <2>1. isup \subseteq 1 .. Len(upvals)
    BY <1>1, <1>2, <1>3 DEF Upvals, Running, LinksOK
  <2>2. \A i \in DOMAIN regs : Find(m, frame, regs[i]) \in 0 .. Len(m.ups)
    BY <1>4, FindFacts
  <2>3. \A i \in DOMAIN regs : Find(m, frame, regs[i]) \in 1 .. Len(m.ups)
    BY <1>4, <1>5, <2>2
  <2>4. QED
    BY <1>5, <2>1, <2>3
<1> HIDE DEF m, new
<1>7. FramesOK'
  BY <1>1, <1>2 DEF FramesOK
<1>8. LinksOK'
  <2>1. /\ closures \in Seq(SUBSET Nat) /\ Len(closures) \in Nat
        /\ \A c \in 1 .. Len(closures) : closures[c] \subseteq 1 .. Len(upvals)
    BY <1>1 DEF LinksOK
  <2>2. new \in SUBSET Nat
    BY <1>6
  <2>3. /\ closures' \in Seq(SUBSET Nat) /\ Len(closures') = Len(closures) + 1
        /\ \A c \in 1 .. Len(closures) : closures'[c] = closures[c]
        /\ closures'[Len(closures) + 1] = new
    BY <1>2, <2>1, <2>2, AppendFacts
  <2>4. \A c \in 1 .. Len(closures') : closures'[c] \subseteq 1 .. Len(upvals')
    <3>1. TAKE c \in 1 .. Len(closures')
    <3>2. CASE c = Len(closures) + 1
      BY <1>2, <1>6, <2>3, <3>2
    <3>3. CASE c # Len(closures) + 1
      BY <1>2, <1>5, <2>1, <2>3, <3>3
    <3>4. QED
      BY <3>2, <3>3
  <2>5. \A f \in 1 .. Len(frames') : /\ frames'[f].clos \in 1 .. Len(closures')
                                     /\ frames'[f].cont \in 0 .. Len(conts')
    BY <1>1, <1>2, <2>1, <2>3 DEF LinksOK
  <2>6. QED
    BY <1>1, <1>2, <2>3, <2>4, <2>5 DEF LinksOK
<1>9. SavedOK'
  BY <1>1, <1>2 DEF SavedOK
<1>10. GoodMachine(Machine')
  BY <1>2, <1>3, <1>4, MachineFacts, NextMachineFacts, SameGood
<1>11. Capture(Machine', latest, left, resumed, orphans)
  <2>1. Registers(Machine', latest, left)
    BY <1>2, <1>4, MachineFacts, NextMachineFacts DEF Capture, Registers
  <2>2. Machine'.ups = m.ups /\ Machine'.head = m.head /\ resumed \subseteq resumed
    BY <1>2, NextMachineFacts
  <2>3. QED
    BY <1>4, <2>1, <2>2, AssignKeeps
<1>12. CapturedOK'
  BY <1>1, <1>2, <1>10, <1>11 DEF CapturedOK
<1>13. QED
  BY <1>2, <1>7, <1>8, <1>9, <1>12 DEF VMInv, Loses

\* The continuations after a call, which may have added one.
MoreConts ==
    /\ conts' \in Seq(Cont) /\ Len(conts) \in Nat /\ Len(conts) <= Len(conts')
    /\ \A k \in 1 .. Len(conts') : conts'[k].frame \in 1 .. Len(frames')

\* The continuation and the level of a frame that is called.
LEMMA LinkedFacts ==
    ASSUME VMInv, Running, NEW tail, NEW to \in SUBSET Reg
    PROVE  /\ Linked(tail, to) \in Seq(Cont) /\ Len(conts) \in Nat /\ Len(conts) <= Len(Linked(tail, to))
           /\ \A k \in 1 .. Len(Linked(tail, to)) : Linked(tail, to)[k].frame \in 1 .. Len(frames)
           /\ ContOf(tail) \in 1 .. Len(Linked(tail, to)) /\ LevelOf(tail) \in Nat
<1>1. /\ conts \in Seq(Cont) /\ Len(conts) \in Nat /\ frames \in Seq(Frame) /\ frame \in 1 .. Len(frames)
      /\ \A k \in 1 .. Len(conts) : conts[k].frame \in 1 .. Len(frames)
      /\ frames[frame].cont \in 0 .. Len(conts)
  BY DEF VMInv, FramesOK, LinksOK, Running
<1>2. frames[frame].level \in Nat
  <2>1. frames[frame] \in Frame
    BY <1>1
  <2>2. QED
    BY <2>1 DEF Frame
<1>3. LevelOf(tail) \in Nat
  BY <1>2 DEF LevelOf
<1>4. CASE Replaces(tail)
  <2>1. Linked(tail, to) = conts /\ ContOf(tail) = frames[frame].cont /\ frames[frame].cont # 0
    BY <1>4 DEF Linked, ContOf, Replaces, TopLevel
  <2>2. QED
    BY <1>1, <1>3, <2>1
<1>5. CASE ~Replaces(tail)
  <2>1. Linked(tail, to) = Append(conts, NewCont(frame, to)) /\ ContOf(tail) = Len(conts) + 1
    BY <1>5 DEF Linked, ContOf
  <2>2. NewCont(frame, to) \in Cont /\ NewCont(frame, to).frame = frame
    BY <1>1 DEF NewCont, Cont
  <2>3. /\ Linked(tail, to) \in Seq(Cont) /\ Len(Linked(tail, to)) = Len(conts) + 1
        /\ \A k \in 1 .. Len(conts) : Linked(tail, to)[k] = conts[k]
        /\ Linked(tail, to)[Len(conts) + 1] = NewCont(frame, to)
    BY <1>1, <2>1, <2>2, AppendFacts
  <2>4. \A k \in 1 .. Len(Linked(tail, to)) : Linked(tail, to)[k].frame \in 1 .. Len(frames)
    <3>1. TAKE k \in 1 .. Len(Linked(tail, to))
    <3>2. CASE k = Len(conts) + 1
      BY <1>1, <2>2, <2>3, <3>2
    <3>3. CASE k # Len(conts) + 1
      BY <1>1, <2>3, <3>3
    <3>4. QED
      BY <3>2, <3>3
  <2>5. QED
    BY <1>1, <1>3, <2>1, <2>3, <2>4
<1>6. QED
  BY <1>4, <1>5

\* A new frame.
LEMMA NewFrameFacts ==
    ASSUME NEW c \in Nat, NEW k \in Nat, NEW l \in Nat
    PROVE  /\ NewFrame(Fresh, c, k, l) \in Frame /\ NewFrame(Fresh, c, k, l).clos = c
           /\ NewFrame(Fresh, c, k, l).cont = k
<1>1. Fresh \in [Reg -> Val]
  BY DEF Fresh, Val
<1>2. QED
  BY <1>1 DEF NewFrame, Frame

\* New frames refer to existing closures and continuations.
LEMMA EnterLinks ==
    ASSUME LinksOK, NEW new \in Seq(Frame), Entered(new), frames \in Seq(Frame), MoreConts,
           closures' = closures, Len(upvals') = Len(upvals), reified' \subseteq 1 .. Len(conts'),
           \A i \in 1 .. Len(new) : new[i].clos \in 1 .. Len(closures) /\ new[i].cont \in 0 .. Len(conts')
    PROVE  LinksOK'
<1>1. /\ Len(frames') = Len(frames) + Len(new) /\ Len(frames) \in Nat /\ Len(new) \in Nat
      /\ \A g \in 1 .. Len(frames) : frames'[g] = frames[g]
      /\ \A i \in 1 .. Len(new) : frames'[Len(frames) + i] = new[i]
  BY DEF Entered
<1>2. conts' \in Seq(Cont) /\ Len(conts) \in Nat /\ Len(conts') \in Nat /\ Len(conts) <= Len(conts')
      /\ \A k \in 1 .. Len(conts') : conts'[k].frame \in 1 .. Len(frames')
  BY DEF MoreConts
<1>3. ASSUME NEW g \in 1 .. Len(frames')
      PROVE  frames'[g].clos \in 1 .. Len(closures') /\ frames'[g].cont \in 0 .. Len(conts')
  <2>1. CASE g \in 1 .. Len(frames)
    <3>1. frames[g].clos \in 1 .. Len(closures) /\ frames[g].cont \in 0 .. Len(conts)
      BY <2>1 DEF LinksOK
    <3>2. QED
      BY <1>1, <1>2, <2>1, <3>1
  <2>2. CASE g \notin 1 .. Len(frames)
    <3>1. g - Len(frames) \in 1 .. Len(new) /\ Len(frames) + (g - Len(frames)) = g
      BY <1>1, <1>3, <2>2
    <3>2. QED
      BY <1>1, <3>1
  <2>3. QED
    BY <2>1, <2>2
<1>4. QED
  BY <1>2, <1>3 DEF LinksOK

\* OP_CALL, OP_TAILCALL, OP_APPLY, OP_CALLWCC
LEMMA CallStep ==
    ASSUME VMInv, NEW c \in DOMAIN closures, NEW tail, NEW callcc \in BOOLEAN,
           NEW to \in SUBSET Reg, Call(c, tail, callcc, to), NVars \in Nat
    PROVE  VMInv' /\ Loses
<1> DEFINE fr == NewFrame(Fresh, c, ContOf(tail), LevelOf(tail))
           new == <<fr>>
<1>1. FramesOK /\ LinksOK /\ SavedOK /\ CapturedOK
  BY DEF VMInv
<1>2. /\ Running /\ conts' = Linked(tail, to) /\ Quit(tail) /\ Enter(new)
      /\ reified' = IF callcc THEN reified \cup {ContOf(tail)} ELSE reified
      /\ saved' = saved /\ closures' = closures /\ resumed' = resumed
  BY DEF Call
<1>3. /\ Linked(tail, to) \in Seq(Cont) /\ Len(conts) \in Nat /\ Len(conts) <= Len(Linked(tail, to))
      /\ \A k \in 1 .. Len(Linked(tail, to)) : Linked(tail, to)[k].frame \in 1 .. Len(frames)
      /\ ContOf(tail) \in 1 .. Len(Linked(tail, to)) /\ LevelOf(tail) \in Nat
  BY <1>2, LinkedFacts
<1>4. c \in 1 .. Len(closures) /\ c \in Nat /\ ContOf(tail) \in Nat
  BY <1>1, <1>3 DEF LinksOK
<1>5. fr \in Frame /\ fr.clos = c /\ fr.cont = ContOf(tail)
  <2>1. \A k, l \in Nat : /\ NewFrame(Fresh, c, k, l) \in Frame /\ NewFrame(Fresh, c, k, l).clos = c
                          /\ NewFrame(Fresh, c, k, l).cont = k
    BY <1>4, NewFrameFacts
  <2>2. QED
    BY <1>3, <1>4, <2>1, Zenon
<1> HIDE DEF fr
<1>6. new \in Seq(Frame) /\ new # <<>> /\ Len(new) = 1 /\ new[1] = fr
  BY <1>5
<1> HIDE DEF new
<1>7. PICK n : Quitted(n)
  BY <1>2, QuitFacts
<1>8. Entered(new)
  BY <1>1, <1>2, <1>6, EnterFacts
<1>9. FramesOK' /\ CapturedOK'
  BY <1>1, <1>2, <1>6, <1>7, <1>8, EnterKeeps
<1>10. frames \in Seq(Frame) /\ Len(frames) \in Nat /\ Len(frames') = Len(frames) + 1
       /\ frames' \in Seq(Frame) /\ frame' = Len(frames')
  BY <1>1, <1>6, <1>8 DEF Entered, FramesOK
<1>11. MoreConts
  BY <1>2, <1>3, <1>10 DEF MoreConts
<1>12. LinksOK'
  <2>1. reified' \subseteq 1 .. Len(conts')
    <3>1. reified \subseteq 1 .. Len(conts) /\ 1 .. Len(conts) \subseteq 1 .. Len(conts')
      BY <1>1, <1>2, <1>3 DEF LinksOK
    <3>2. ContOf(tail) \in 1 .. Len(conts')
      BY <1>2, <1>3
    <3>3. QED
      BY <1>2, <3>1, <3>2
  <2>2. \A i \in 1 .. Len(new) : new[i].clos \in 1 .. Len(closures) /\ new[i].cont \in 0 .. Len(conts')
    BY <1>2, <1>3, <1>4, <1>5, <1>6
  <2>3. Len(upvals') = Len(upvals)
    BY <1>7 DEF Quitted
  <2>4. QED
    BY <1>1, <1>2, <1>6, <1>8, <1>10, <1>11, <2>1, <2>2, <2>3, EnterLinks
<1>13. SavedOK'
  <2>1. frame # 0 /\ frame' # 0 /\ Len(frames) <= Len(frames')
    BY <1>2, <1>10 DEF Running
  <2>2. QED
    BY <1>1, <1>2, <1>10, <2>1, SavedSame
<1>14. Loses
  BY <1>7 DEF Loses, Quitted
<1>15. QED
  BY <1>9, <1>12, <1>13, <1>14 DEF VMInv

\* OP_CALLWVALUES
LEMMA CallWValuesStep ==
    ASSUME VMInv, NEW p \in DOMAIN closures, NEW c \in DOMAIN closures, NEW tail,
           NEW to \in SUBSET Reg, NEW args \in SUBSET Reg, CallWValues(p, c, tail, to, args), NVars \in Nat
    PROVE  VMInv' /\ Loses
<1> DEFINE values == NewCont(Len(frames) + 1, args)
           f1 == NewFrame(Fresh, c, ContOf(tail), LevelOf(tail))
           f2 == NewFrame(Fresh, p, Len(conts'), LevelOf(tail) + 1)
           new == <<f1, f2>>
<1>1. FramesOK /\ LinksOK /\ SavedOK /\ CapturedOK
  BY DEF VMInv
<1>2. /\ Running /\ conts' = Append(Linked(tail, to), values) /\ Quit(tail) /\ Enter(new)
      /\ reified' = reified /\ saved' = saved /\ closures' = closures /\ resumed' = resumed
  BY DEF CallWValues
<1>3. /\ Linked(tail, to) \in Seq(Cont) /\ Len(conts) \in Nat /\ Len(conts) <= Len(Linked(tail, to))
      /\ \A k \in 1 .. Len(Linked(tail, to)) : Linked(tail, to)[k].frame \in 1 .. Len(frames)
      /\ ContOf(tail) \in 1 .. Len(Linked(tail, to)) /\ LevelOf(tail) \in Nat
  BY <1>2, LinkedFacts
<1>4. /\ c \in 1 .. Len(closures) /\ c \in Nat /\ p \in 1 .. Len(closures) /\ p \in Nat
      /\ ContOf(tail) \in Nat
  BY <1>1, <1>3 DEF LinksOK
<1>5. values \in Cont /\ values.frame = Len(frames) + 1
  BY <1>1 DEF FramesOK, NewCont, Cont
<1> HIDE DEF values
<1>6. /\ conts' \in Seq(Cont) /\ Len(conts') = Len(Linked(tail, to)) + 1
      /\ \A k \in 1 .. Len(Linked(tail, to)) : conts'[k] = Linked(tail, to)[k]
      /\ conts'[Len(Linked(tail, to)) + 1] = values
  BY <1>2, <1>3, <1>5, AppendFacts
<1>7. Len(conts') \in Nat /\ LevelOf(tail) + 1 \in Nat /\ Len(conts) <= Len(conts')
      /\ 1 .. Len(conts) \subseteq 1 .. Len(conts') /\ ContOf(tail) \in 0 .. Len(conts')
  BY <1>3, <1>6
<1>8. /\ f1 \in Frame /\ f1.clos = c /\ f1.cont = ContOf(tail)
      /\ f2 \in Frame /\ f2.clos = p /\ f2.cont = Len(conts')
  <2> DEFINE k1 == ContOf(tail)
             l1 == LevelOf(tail)
             k2 == Len(conts')
             l2 == LevelOf(tail) + 1
  <2>1. k1 \in Nat /\ l1 \in Nat /\ k2 \in Nat /\ l2 \in Nat
    BY <1>3, <1>4, <1>7
  <2>2. f1 = NewFrame(Fresh, c, k1, l1) /\ f2 = NewFrame(Fresh, p, k2, l2)
    OBVIOUS
  <2> HIDE DEF k1, l1, k2, l2, f1, f2
  <2>3. f1 \in Frame /\ f1.clos = c /\ f1.cont = k1
    <3>1. \A k, l \in Nat : /\ NewFrame(Fresh, c, k, l) \in Frame /\ NewFrame(Fresh, c, k, l).clos = c
                            /\ NewFrame(Fresh, c, k, l).cont = k
      BY <1>4, NewFrameFacts
    <3>2. QED
      BY <2>1, <2>2, <3>1, Zenon
  <2>4. f2 \in Frame /\ f2.clos = p /\ f2.cont = k2
    <3>1. \A k, l \in Nat : /\ NewFrame(Fresh, p, k, l) \in Frame /\ NewFrame(Fresh, p, k, l).clos = p
                            /\ NewFrame(Fresh, p, k, l).cont = k
      BY <1>4, NewFrameFacts
    <3>2. QED
      BY <2>1, <2>2, <3>1, Zenon
  <2>5. QED
    BY <2>3, <2>4 DEF k1, k2
<1> HIDE DEF f1, f2
<1>9. new \in Seq(Frame) /\ new # <<>> /\ Len(new) = 2 /\ new[1] = f1 /\ new[2] = f2
  BY <1>8
<1> HIDE DEF new
<1>10. PICK n : Quitted(n)
  BY <1>2, QuitFacts
<1>11. Entered(new)
  BY <1>1, <1>2, <1>9, EnterFacts
<1>12. FramesOK' /\ CapturedOK'
  BY <1>1, <1>2, <1>9, <1>10, <1>11, EnterKeeps
<1>13. frames \in Seq(Frame) /\ Len(frames) \in Nat /\ Len(frames') = Len(frames) + 2
       /\ frames' \in Seq(Frame) /\ frame' = Len(frames')
  BY <1>1, <1>9, <1>11 DEF Entered, FramesOK
<1>14. MoreConts
  <2>1. ASSUME NEW k \in 1 .. Len(conts') PROVE conts'[k].frame \in 1 .. Len(frames')
    <3>1. CASE k = Len(Linked(tail, to)) + 1
      BY <1>5, <1>6, <1>13, <3>1
    <3>2. CASE k # Len(Linked(tail, to)) + 1
      <4>1. k \in 1 .. Len(Linked(tail, to))
        BY <1>3, <1>6, <3>2
      <4>2. conts'[k].frame \in 1 .. Len(frames)
        BY <1>3, <1>6, <4>1
      <4>3. QED
        BY <1>13, <4>2
    <3>3. QED
      BY <3>1, <3>2
  <2>2. QED
    BY <1>3, <1>6, <1>7, <2>1 DEF MoreConts
<1>15. LinksOK'
  <2>1. reified' \subseteq 1 .. Len(conts')
    BY <1>1, <1>2, <1>7 DEF LinksOK
  <2>2. \A i \in 1 .. Len(new) : new[i].clos \in 1 .. Len(closures) /\ new[i].cont \in 0 .. Len(conts')
    <3>1. \A i \in 1 .. Len(new) : i = 1 \/ i = 2
      BY <1>9
    <3>2. Len(conts') \in 0 .. Len(conts')
      BY <1>7
    <3>3. QED
      BY <1>4, <1>7, <1>8, <1>9, <3>1, <3>2
  <2>3. Len(upvals') = Len(upvals)
    BY <1>10 DEF Quitted
  <2>4. QED
    BY <1>1, <1>2, <1>9, <1>11, <1>13, <1>14, <2>1, <2>2, <2>3, EnterLinks
<1>16. SavedOK'
  <2>1. frame # 0 /\ frame' # 0 /\ Len(frames) <= Len(frames')
    BY <1>2, <1>13 DEF Running
  <2>2. QED
    BY <1>1, <1>2, <1>13, <2>1, SavedSame
<1>17. Loses
  BY <1>10 DEF Loses, Quitted
<1>18. QED
  BY <1>12, <1>15, <1>16, <1>17 DEF VMInv

\* eval_closure begins.
LEMMA EvalClosureStep ==
    ASSUME VMInv, NEW c \in DOMAIN closures, EvalClosure(c)
    PROVE  VMInv' /\ Loses
<1> DEFINE fr == NewFrame(Fresh, c, 0, 0)
           new == <<fr>>
<1>1. FramesOK /\ LinksOK /\ SavedOK /\ CapturedOK
  BY DEF VMInv
<1>2. /\ Enter(new) /\ saved' = Append(saved, frame) /\ upvals' = upvals /\ open' = open
      /\ closures' = closures /\ conts' = conts /\ reified' = reified
      /\ left' = left /\ resumed' = resumed /\ orphans' = orphans
  BY DEF EvalClosure
<1>3. c \in 1 .. Len(closures) /\ c \in Nat /\ Len(conts) \in Nat
  BY <1>1 DEF LinksOK
<1>4. fr \in Frame /\ fr.clos = c /\ fr.cont = 0
  BY <1>3, NewFrameFacts
<1> HIDE DEF fr
<1>5. new \in Seq(Frame) /\ new # <<>> /\ Len(new) = 1 /\ new[1] = fr
  BY <1>4
<1> HIDE DEF new
<1>6. Quitted(Machine)
  BY <1>1, <1>2, MachineFacts DEF Quitted, CapturedOK, FramesOK
<1>7. Entered(new)
  BY <1>1, <1>2, <1>5, EnterFacts
<1>8. FramesOK' /\ CapturedOK'
  BY <1>1, <1>2, <1>5, <1>6, <1>7, EnterKeeps
<1>9. frames \in Seq(Frame) /\ Len(frames) \in Nat /\ Len(frames') = Len(frames) + 1
      /\ frames' \in Seq(Frame) /\ frame' = Len(frames') /\ frame \in 0 .. Len(frames)
  BY <1>1, <1>5, <1>7 DEF Entered, FramesOK
<1>10. MoreConts
  <2>1. conts \in Seq(Cont) /\ \A k \in 1 .. Len(conts) : conts[k].frame \in 1 .. Len(frames)
    BY <1>1 DEF LinksOK
  <2>2. QED
    BY <1>2, <1>3, <1>9, <2>1 DEF MoreConts
<1>11. LinksOK'
  <2>1. reified' \subseteq 1 .. Len(conts')
    BY <1>1, <1>2 DEF LinksOK
  <2>2. \A i \in 1 .. Len(new) : new[i].clos \in 1 .. Len(closures) /\ new[i].cont \in 0 .. Len(conts')
    BY <1>2, <1>3, <1>4, <1>5
  <2>3. Len(upvals') = Len(upvals)
    BY <1>2
  <2>4. QED
    BY <1>1, <1>2, <1>5, <1>7, <1>9, <1>10, <2>1, <2>2, <2>3, EnterLinks
<1>12. SavedOK'
  <2>1. saved \in Seq(0 .. Len(frames')) /\ frame \in 0 .. Len(frames') /\ Len(saved) \in Nat
        /\ (\A i \in 1 .. Len(saved) : saved[i] = 0 <=> i = 1) /\ (frame = 0 <=> saved = <<>>)
    <3>1. 0 .. Len(frames) \subseteq 0 .. Len(frames')
      BY <1>9
    <3>2. QED
      BY <1>1, <1>9, <3>1 DEF SavedOK
  <2>2. saved' \in Seq(0 .. Len(frames')) /\ Len(saved') = Len(saved) + 1
        /\ (\A i \in 1 .. Len(saved) : saved'[i] = saved[i]) /\ saved'[Len(saved) + 1] = frame
    BY <1>2, <2>1, AppendFacts
  <2>3. saved = <<>> <=> Len(saved) = 0
    BY <2>1, EmptySeq
  <2>4. ASSUME NEW i \in 1 .. Len(saved') PROVE saved'[i] = 0 <=> i = 1
    <3>1. CASE i = Len(saved) + 1
      BY <2>1, <2>2, <2>3, <3>1
    <3>2. CASE i # Len(saved) + 1
      <4>1. i \in 1 .. Len(saved)
        BY <2>1, <2>2, <3>2
      <4>2. QED
        BY <2>1, <2>2, <4>1
    <3>3. QED
      BY <3>1, <3>2
  <2>5. saved' # <<>> /\ frame' # 0
    <3>1. Len(saved') # 0
      BY <2>1, <2>2
    <3>2. QED
      BY <1>9, <2>2, <3>1
  <2>6. QED
    BY <2>2, <2>4, <2>5 DEF SavedOK
<1>13. QED
  BY <1>2, <1>8, <1>11, <1>12 DEF VMInv, Loses

\* eval_closure ends; it restores the frame it saved.
LEMMA ExitStep ==
    ASSUME VMInv, Exit
    PROVE  VMInv' /\ Loses
<1>1. /\ FramesOK /\ LinksOK /\ SavedOK /\ GoodMachine(Machine)
      /\ Capture(Machine, latest, left, resumed, orphans)
  BY DEF VMInv, CapturedOK
<1>2. /\ frame # 0 /\ frame' = saved[Len(saved)] /\ saved' = SubSeq(saved, 1, Len(saved) - 1)
      /\ resumed' = resumed \cup ({frame'} \cap left)
      /\ frames' = frames /\ upvals' = upvals /\ open' = open /\ closures' = closures /\ conts' = conts
      /\ reified' = reified /\ latest' = latest /\ left' = left /\ orphans' = orphans
  BY DEF Exit, Running
<1>3. saved \in Seq(0 .. Len(frames)) /\ saved # <<>>
      /\ \A i \in 1 .. Len(saved) : saved[i] = 0 <=> i = 1
  BY <1>1, <1>2 DEF SavedOK
<1>4. /\ Len(saved) \in Nat /\ Len(saved) >= 1 /\ frame' \in 0 .. Len(frames)
      /\ saved' \in Seq(0 .. Len(frames)) /\ Len(saved') = Len(saved) - 1
      /\ \A i \in 1 .. Len(saved) - 1 : saved'[i] = saved[i]
  BY <1>2, <1>3, FrontFacts
<1>5. FramesOK'
  BY <1>1, <1>2, <1>4 DEF FramesOK
<1>6. LinksOK'
  BY <1>1, <1>2 DEF LinksOK
<1>7. SavedOK'
  <2>1. \A i \in 1 .. Len(saved') : saved'[i] = 0 <=> i = 1
    BY <1>3, <1>4
  <2>2. saved' = <<>> <=> Len(saved') = 0
    BY <1>4, EmptySeq
  <2>3. frame' = 0 <=> Len(saved) = 1
    BY <1>2, <1>3, <1>4
  <2>4. QED
    BY <1>2, <1>4, <2>1, <2>2, <2>3 DEF SavedOK
<1>8. GoodMachine(Machine')
  <2>1. Machine.fs \in Seq(Frame) /\ Machine'.fs = Machine.fs
    BY <1>1, <1>2, MachineFacts, NextMachineFacts DEF FramesOK
  <2>2. Machine'.ups = Machine.ups /\ Machine'.head = Machine.head
    BY <1>2, MachineFacts, NextMachineFacts
  <2>3. QED
    BY <1>1, <2>1, <2>2, NextMachineFacts, SameGood
<1>9. Capture(Machine', latest, left, resumed', orphans)
  <2>1. Registers(Machine', latest, left)
    BY <1>1, <1>2, MachineFacts, NextMachineFacts DEF Capture, Registers
  <2>2. Machine'.ups = Machine.ups /\ Machine'.head = Machine.head /\ resumed \subseteq resumed'
    BY <1>2, MachineFacts, NextMachineFacts
  <2>3. QED
    BY <1>1, <2>1, <2>2, AssignKeeps
<1>10. CapturedOK'
  BY <1>2, <1>8, <1>9 DEF CapturedOK
<1>11. QED
  BY <1>2, <1>5, <1>6, <1>7, <1>10 DEF VMInv, Loses

\* What Resume does to frame f, which will return to cont.
Resumed(f, cont) ==
    /\ f \in 1 .. Len(frames) /\ Changed(frames, latest, frames', latest', f)
    /\ \A g \in 1 .. Len(frames) : /\ frames'[g].clos = frames[g].clos
                                   /\ g # f => frames'[g].cont = frames[g].cont
    /\ frames'[f].cont = cont /\ frame' = f
    /\ resumed' = resumed \cup ({f} \cap left')

\* Resume, in the terms of Resumed.
LEMMA ResumeFacts ==
    ASSUME FramesOK, LinksOK, NEW k \in 1 .. Len(conts), NEW v \in Val, NEW cont \in Nat,
           Resume(k, cont, v)
    PROVE  /\ Resumed(conts[k].frame, cont)
           /\ Changed(frames, latest, Receive(k, v), latest', conts[k].frame)
           /\ \A g \in 1 .. Len(frames) : frames'[g].R = Receive(k, v)[g].R
<1>1. /\ frames' = WithCont(Receive(k, v), conts[k].frame, cont) /\ latest' = ReceiveLatest(k, v)
      /\ frame' = conts[k].frame /\ resumed' = resumed \cup ({conts[k].frame} \cap left')
  BY DEF Resume, WithCont, ReceiveLatest
<1>2. conts[k].frame \in 1 .. Len(frames)
  BY DEF LinksOK
<1>3. /\ Changed(frames, latest, Receive(k, v), latest', conts[k].frame)
      /\ Changed(frames, latest, frames', latest', conts[k].frame)
      /\ \A g \in 1 .. Len(frames) :
            /\ frames'[g].R = Receive(k, v)[g].R /\ frames'[g].clos = frames[g].clos
            /\ g # conts[k].frame => frames'[g].cont = frames[g].cont
      /\ frames'[conts[k].frame].cont = cont
  BY <1>1, ReceiveFacts
<1>4. QED
  BY <1>1, <1>2, <1>3 DEF Resumed

\* The parts of the invariant that do not depend on the upvalues.
LEMMA ResumeKeeps ==
    ASSUME VMInv, Running, NEW f, NEW cont, Resumed(f, cont), MoreConts, cont \in 0 .. Len(conts'),
           closures' = closures, reified' = reified, saved' = saved, Len(upvals') = Len(upvals),
           left' \subseteq 1 .. Len(frames)
    PROVE  FramesOK' /\ LinksOK' /\ SavedOK'
<1>1. /\ FramesOK /\ LinksOK /\ SavedOK /\ frames \in Seq(Frame) /\ Len(frames) \in Nat
      /\ Len(latest) = Len(frames) /\ frame # 0
  BY DEF VMInv, FramesOK, Running
<1>2. /\ f \in 1 .. Len(frames) /\ frame' = f /\ frames' \in Seq(Frame) /\ Len(frames') = Len(frames)
      /\ latest' \in Seq([Reg -> Val]) /\ Len(latest') = Len(latest)
  BY DEF Resumed, Changed
<1>3. FramesOK'
  BY <1>1, <1>2 DEF FramesOK
<1>4. SavedOK'
  <2>1. frame' # 0 /\ Len(frames) <= Len(frames')
    BY <1>1, <1>2
  <2>2. QED
    BY <1>1, <1>2, <2>1, SavedSame
<1>5. LinksOK'
  <2>1. conts' \in Seq(Cont) /\ Len(conts) \in Nat /\ Len(conts') \in Nat /\ Len(conts) <= Len(conts')
        /\ \A k \in 1 .. Len(conts') : conts'[k].frame \in 1 .. Len(frames')
    BY DEF MoreConts
  <2>2. 1 .. Len(conts) \subseteq 1 .. Len(conts') /\ 0 .. Len(conts) \subseteq 0 .. Len(conts')
    BY <2>1
  <2>3. \A g \in 1 .. Len(frames') : frames'[g].clos \in 1 .. Len(closures')
    BY <1>1, <1>2 DEF Resumed, LinksOK
  <2>4. \A g \in 1 .. Len(frames') : frames'[g].cont \in 0 .. Len(conts')
    BY <1>1, <1>2, <2>2 DEF Resumed, LinksOK
  <2>5. QED
    BY <1>1, <2>1, <2>2, <2>3, <2>4 DEF LinksOK
<1>6. QED
  BY <1>3, <1>4, <1>5

\* The running frame is left and frame f resumed, after the result was written:
\* what Return and Throw have in common.
LEMMA LeaveResume ==
    ASSUME VMInv, Running, NVars \in Nat, NEW k \in 1 .. Len(conts), NEW v \in Val, NEW cont \in Nat,
           Resume(k, cont, v), NEW n, Leave(n),
           LET m == MachineOf(Receive(k, v))
           IN n = CloseAll(m, frame) \/ n = CloseAll(CloseAll(m, frame), frame)
    PROVE  CapturedOK' /\ Loses /\ Len(upvals') = Len(upvals) /\ left' \subseteq 1 .. Len(frames)
<1> DEFINE m == MachineOf(Receive(k, v))
           f == conts[k].frame
           re1 == resumed \cup ({f} \cap left)
<1>1. /\ FramesOK /\ LinksOK /\ GoodMachine(Machine) /\ Capture(Machine, latest, left, resumed, orphans)
      /\ frame \in left => frame \in resumed
      /\ frames \in Seq(Frame) /\ DOMAIN frames = 1 .. Len(frames)
      /\ frame \in 1 .. Len(frames) /\ left \subseteq 1 .. Len(frames)
  BY DEF VMInv, CapturedOK, FramesOK, Running
<1>2. /\ Resumed(f, cont) /\ Changed(frames, latest, Receive(k, v), latest', f)
      /\ \A g \in 1 .. Len(frames) : frames'[g].R = Receive(k, v)[g].R
  BY <1>1, ResumeFacts
<1>3. /\ MachineRec(m) /\ m.ups = Machine.ups /\ m.head = Machine.head /\ m.parent = 0
      /\ m.fs = Receive(k, v) /\ m.ups = upvals /\ m.head = open /\ Machine.fs = frames
  BY MachineFacts
<1>4. n = CloseAll(m, frame) \/ n = CloseAll(CloseAll(m, frame), frame)
  OBVIOUS
<1> HIDE DEF m, f
<1>5. GoodMachine(m) /\ Capture(m, latest', left, re1, orphans)
  <2>1. Changed(Machine.fs, latest, m.fs, latest', f)
    BY <1>2, <1>3
  <2>2. resumed \subseteq re1 /\ (f \in left => f \in re1)
    OBVIOUS
  <2> HIDE DEF re1
  <2>3. QED
    BY <1>1, <1>3, <2>1, <2>2, ChangeKeeps
<1>6. Closed(m, n, frame)
  BY <1>4, <1>5, CloseAllCloses
<1>7. frame \in left => frame \in re1
  BY <1>1
<1> HIDE DEF re1
<1>8. /\ GoodMachine(n) /\ Capture(n, latest', left', re1, orphans') /\ n.fs = m.fs
      /\ n.ups = upvals' /\ n.head = open' /\ Len(upvals') = Len(upvals)
      /\ left' = left \cup {frame}
      /\ OneAtMost(Machine, frame) => orphans' = orphans
  BY <1>3, <1>5, <1>6, <1>7, LeaveFacts
<1>9. frames' \in Seq(Frame) /\ DOMAIN frames' = 1 .. Len(frames) /\ DOMAIN m.fs = 1 .. Len(frames)
  BY <1>1, <1>2, <1>3 DEF Changed, Resumed
<1>10. GoodMachine(Machine')
  <2>1. Machine'.ups = n.ups /\ Machine'.head = n.head /\ Machine'.fs \in Seq(Frame)
        /\ DOMAIN n.fs \subseteq DOMAIN Machine'.fs
    BY <1>8, <1>9, NextMachineFacts
  <2>2. QED
    BY <1>8, <2>1, NextMachineFacts, SameGood
<1>11. Capture(Machine', latest', left', resumed', orphans')
  <2>1. Registers(Machine', latest', left')
    <3>1. Registers(n, latest', left')
      BY <1>8 DEF Capture
    <3>2. \A g \in DOMAIN frames' : g \in DOMAIN n.fs /\ frames'[g].R = n.fs[g].R
      BY <1>2, <1>3, <1>8, <1>9
    <3>3. QED
      BY <3>1, <3>2, NextMachineFacts DEF Registers
  <2>2. re1 \subseteq resumed'
    BY <1>2, <1>8 DEF re1, Resumed
  <2>3. Machine'.ups = n.ups /\ Machine'.head = n.head
    BY <1>8, NextMachineFacts
  <2>4. QED
    BY <1>8, <2>1, <2>2, <2>3, AssignKeeps
<1>12. frame' \in left' => frame' \in resumed'
  BY <1>2 DEF Resumed
<1>13. CapturedOK'
  BY <1>10, <1>11, <1>12 DEF CapturedOK
<1>14. QED
  BY <1>1, <1>8, <1>13 DEF Loses

\* A function returns: its upvalues are closed twice.
LEMMA ReturnStep ==
    ASSUME VMInv, NEW v \in Value, Return(v), NVars \in Nat
    PROVE  VMInv' /\ Loses
<1> DEFINE k == frames[frame].cont
           cont == frames[conts[k].frame].cont
           n == CloseAll(CloseAll(MachineOf(Receive(k, v)), frame), frame)
<1>1. /\ Running /\ k # 0 /\ Leave(n) /\ Resume(k, cont, v)
      /\ saved' = saved /\ closures' = closures /\ conts' = conts /\ reified' = reified
  BY DEF Return
<1>2. FramesOK /\ LinksOK /\ v \in Val /\ frame \in 1 .. Len(frames)
  BY <1>1 DEF VMInv, Val, FramesOK, Running
<1>3. /\ conts \in Seq(Cont) /\ Len(conts) \in Nat /\ k \in 1 .. Len(conts)
      /\ \A j \in 1 .. Len(conts) : conts[j].frame \in 1 .. Len(frames)
      /\ cont \in 0 .. Len(conts) /\ cont \in Nat
  BY <1>1, <1>2 DEF LinksOK
<1> HIDE DEF k, cont
<1>4. Resumed(conts[k].frame, cont)
  BY <1>1, <1>2, <1>3, ResumeFacts
<1>5. CapturedOK' /\ Loses /\ Len(upvals') = Len(upvals) /\ left' \subseteq 1 .. Len(frames)
  BY <1>1, <1>2, <1>3, LeaveResume
<1>6. MoreConts
  BY <1>1, <1>3, <1>4 DEF MoreConts, Resumed, Changed
<1>7. FramesOK' /\ LinksOK' /\ SavedOK'
  BY <1>1, <1>3, <1>4, <1>5, <1>6, ResumeKeeps
<1>8. QED
  BY <1>5, <1>7 DEF VMInv

\* Another continuation is called.
LEMMA ThrowStep ==
    ASSUME VMInv, NEW k \in reified, NEW v \in Value, NEW tail, NEW to \in SUBSET Reg,
           Throw(k, tail, v, to), NVars \in Nat
    PROVE  VMInv' /\ Loses
<1> DEFINE n == CloseAll(MachineOf(Receive(k, v)), frame)
<1>1. /\ Running /\ conts' = Linked(tail, to) /\ Leave(n) /\ Resume(k, ContOf(tail), v)
      /\ saved' = saved /\ closures' = closures /\ reified' = reified
  BY DEF Throw
<1>2. FramesOK /\ LinksOK /\ v \in Val /\ k \in 1 .. Len(conts)
  BY DEF VMInv, Val, LinksOK
<1>3. /\ Linked(tail, to) \in Seq(Cont) /\ Len(conts) \in Nat /\ Len(conts) <= Len(Linked(tail, to))
      /\ \A j \in 1 .. Len(Linked(tail, to)) : Linked(tail, to)[j].frame \in 1 .. Len(frames)
      /\ ContOf(tail) \in 1 .. Len(Linked(tail, to)) /\ ContOf(tail) \in Nat
  BY <1>1, LinkedFacts
<1>4. Resumed(conts[k].frame, ContOf(tail))
  BY <1>1, <1>2, <1>3, ResumeFacts
<1>5. CapturedOK' /\ Loses /\ Len(upvals') = Len(upvals) /\ left' \subseteq 1 .. Len(frames)
  BY <1>1, <1>2, <1>3, LeaveResume
<1>6. MoreConts /\ ContOf(tail) \in 0 .. Len(conts')
  BY <1>1, <1>3, <1>4 DEF MoreConts, Resumed, Changed
<1>7. FramesOK' /\ LinksOK' /\ SavedOK'
  BY <1>1, <1>4, <1>5, <1>6, ResumeKeeps
<1>8. QED
  BY <1>5, <1>7 DEF VMInv

\* OP_APPLY of a continuation.
LEMMA ApplyContStep ==
    ASSUME VMInv, NEW k \in reified, NEW v \in Value, NEW tail, NEW to \in SUBSET Reg,
           ApplyCont(k, tail, v, to), NVars \in Nat
    PROVE  VMInv' /\ Loses
<1> DEFINE cont == IF k = ContOf(tail) THEN frames[conts[k].frame].cont ELSE ContOf(tail)
           f == conts[k].frame
<1>1. /\ Running /\ conts' = Linked(tail, to) /\ Quit(tail) /\ Resume(k, cont, v)
      /\ saved' = saved /\ closures' = closures /\ reified' = reified
  BY DEF ApplyCont
<1>2. FramesOK /\ LinksOK /\ v \in Val /\ k \in 1 .. Len(conts)
  BY DEF VMInv, Val, LinksOK
<1>3. /\ Linked(tail, to) \in Seq(Cont) /\ Len(conts) \in Nat /\ Len(conts) <= Len(Linked(tail, to))
      /\ Len(Linked(tail, to)) \in Nat
      /\ \A j \in 1 .. Len(Linked(tail, to)) : Linked(tail, to)[j].frame \in 1 .. Len(frames)
      /\ ContOf(tail) \in 1 .. Len(Linked(tail, to)) /\ ContOf(tail) \in Nat
  BY <1>1, LinkedFacts
<1>4. frames[conts[k].frame].cont \in 0 .. Len(conts)
  BY <1>2 DEF LinksOK
<1>5. cont \in 0 .. Len(conts') /\ cont \in Nat
  BY <1>1, <1>3, <1>4
<1> HIDE DEF cont, f
<1>6. Resumed(f, cont)
  BY <1>1, <1>2, <1>5, ResumeFacts DEF f
<1>7. PICK n : Quitted(n)
  BY <1>1, QuitFacts
<1>8. /\ GoodMachine(n) /\ Capture(n, latest, left', resumed, orphans') /\ n.fs = frames
      /\ n.ups = upvals' /\ n.head = open' /\ Len(upvals') = Len(upvals)
      /\ left' \subseteq 1 .. Len(frames) /\ Loses
  BY <1>7 DEF Quitted, Loses
<1>9. MoreConts
  BY <1>1, <1>3, <1>6 DEF MoreConts, Resumed, Changed
<1>10. FramesOK' /\ LinksOK' /\ SavedOK'
  BY <1>1, <1>5, <1>6, <1>8, <1>9, ResumeKeeps
<1>11. GoodMachine(Machine') /\ Capture(Machine', latest', left', resumed', orphans')
  <2>1. Changed(n.fs, latest, Machine'.fs, latest', f)
    BY <1>6, <1>8, NextMachineFacts DEF Resumed
  <2>2. resumed \subseteq resumed' /\ (f \in left' => f \in resumed')
    BY <1>6 DEF Resumed
  <2>3. Machine'.ups = n.ups /\ Machine'.head = n.head /\ MachineRec(Machine') /\ Machine'.parent = 0
    BY <1>8, NextMachineFacts
  <2>4. QED
    BY <1>8, <2>1, <2>2, <2>3, ChangeKeeps
<1>12. frame' \in left' => frame' \in resumed'
  BY <1>6 DEF Resumed
<1>13. CapturedOK'
  BY <1>11, <1>12 DEF CapturedOK
<1>14. QED
  BY <1>8, <1>10, <1>13 DEF VMInv

-----------------------------------------------------------------------------
(* The theorems.                                                           *)

\* The first state.
LEMMA InitInv ==
    ASSUME Init
    PROVE  VMInv
<1> DEFINE fr == NewFrame(Fresh, 1, 0, 0)
<1>1. /\ frames = <<fr>> /\ frame = 1 /\ saved = <<0>> /\ upvals = <<>> /\ open = 0
      /\ closures = <<{}>> /\ conts = <<>> /\ reified = {} /\ latest = <<Fresh>>
      /\ left = {} /\ resumed = {} /\ orphans = {}
  BY DEF Init
<1>2. Fresh \in [Reg -> Val] /\ fr.R = Fresh
  BY DEF Fresh, Val, NewFrame
<1>3. fr \in Frame /\ fr.clos = 1 /\ fr.cont = 0
  BY NewFrameFacts
<1> HIDE DEF fr
<1>4. FramesOK
  BY <1>1, <1>2, <1>3 DEF FramesOK
<1>5. LinksOK
  BY <1>1, <1>3 DEF LinksOK
<1>6. SavedOK
  BY <1>1, <1>4 DEF SavedOK, FramesOK
<1>7. GoodMachine(Machine)
  <2>1. IsMachine(Machine)
    BY <1>1, <1>3, MachineFacts DEF IsMachine
  <2>2. Listed(Machine) \subseteq 1 .. Len(upvals) /\ Len(upvals) = 0
    BY <1>1, <2>1, MachineFacts, ListedFacts
  <2>3. Listed(Machine) = {}
    BY <2>2
  <2>4. QED
    BY <2>1, <2>3 DEF GoodMachine, GoodList
<1>8. Capture(Machine, latest, left, resumed, orphans)
  <2>1. 1 .. Len(Machine.ups) = {}
    BY <1>1, MachineFacts
  <2>2. Registers(Machine, latest, left)
    BY <1>1, <1>2, MachineFacts DEF Registers
  <2>3. QED
    BY <2>1, <2>2 DEF Capture, OpenListed, ClosedLeft, ClosedKnown, OneEach, LeftClosed
<1>9. QED
  BY <1>1, <1>4, <1>5, <1>6, <1>7, <1>8 DEF VMInv, CapturedOK

\* Every step, and the variables that it may lose.
LEMMA NextInv ==
    ASSUME VMInv, [Next]_vars, VMAssumption
    PROVE  VMInv' /\ Loses
<1>1. NVars \in Nat
  BY DEF VMAssumption
<1>2. CASE UNCHANGED vars
  <2>1. /\ frames' = frames /\ frame' = frame /\ saved' = saved /\ upvals' = upvals /\ open' = open
        /\ closures' = closures /\ conts' = conts /\ reified' = reified
        /\ latest' = latest /\ left' = left /\ resumed' = resumed /\ orphans' = orphans
    BY <1>2 DEF vars, vm, history
  <2>2. FramesOK' /\ LinksOK' /\ SavedOK'
    BY <2>1 DEF VMInv, FramesOK, LinksOK, SavedOK
  <2>3. Machine' = Machine
    BY <2>1 DEF Machine, MachineOf
  <2>4. CapturedOK'
    BY <2>1, <2>3 DEF VMInv, CapturedOK
  <2>5. QED
    BY <2>1, <2>2, <2>4 DEF VMInv, Loses
<1>3. CASE \E r \in Reg, v \in Value : SetReg(r, v)
  BY <1>3, SetRegStep
<1>4. CASE \E u \in DOMAIN upvals, v \in Value : SetUpval(u, v)
  BY <1>4, SetUpvalStep
<1>5. CASE \E regs \in Uplists, isup \in SUBSET Upvals : FormClosure(regs, isup)
  BY <1>5, FormClosureStep
<1>6. \A tail : Slots(tail) \subseteq SUBSET Reg
  BY DEF Slots, VMAssumption, Reg
<1>7. Arguments \subseteq SUBSET Reg
  BY <1>1 DEF Arguments, Reg
<1>8. CASE \E v \in Value : Return(v)
  BY <1>1, <1>8, ReturnStep
<1>9. CASE \E tail \in BOOLEAN : \E to \in Slots(tail) :
              \/ \E c \in DOMAIN closures, callcc \in BOOLEAN : Call(c, tail, callcc, to)
              \/ \E p, c \in DOMAIN closures, args \in Arguments : CallWValues(p, c, tail, to, args)
              \/ \E k \in reified, v \in Value : Throw(k, tail, v, to) \/ ApplyCont(k, tail, v, to)
  <2>1. PICK tail \in BOOLEAN, to \in SUBSET Reg :
              \/ \E c \in DOMAIN closures, callcc \in BOOLEAN : Call(c, tail, callcc, to)
              \/ \E p, c \in DOMAIN closures, args \in Arguments : CallWValues(p, c, tail, to, args)
              \/ \E k \in reified, v \in Value : Throw(k, tail, v, to) \/ ApplyCont(k, tail, v, to)
    BY <1>6, <1>9
  <2>2. CASE \E c \in DOMAIN closures, callcc \in BOOLEAN : Call(c, tail, callcc, to)
    BY <1>1, <2>2, CallStep
  <2>3. CASE \E p, c \in DOMAIN closures, args \in Arguments : CallWValues(p, c, tail, to, args)
    BY <1>1, <1>7, <2>3, CallWValuesStep
  <2>4. CASE \E k \in reified, v \in Value : Throw(k, tail, v, to) \/ ApplyCont(k, tail, v, to)
    BY <1>1, <2>4, ThrowStep, ApplyContStep
  <2>5. QED
    BY <2>1, <2>2, <2>3, <2>4
<1>10. CASE Exit
  BY <1>10, ExitStep
<1>11. CASE \E c \in DOMAIN closures : EvalClosure(c)
  BY <1>11, EvalClosureStep
<1>12. QED
  BY <1>2, <1>3, <1>4, <1>5, <1>8, <1>9, <1>10, <1>11 DEF Next

\* VMInv is an invariant of the machine.
THEOREM Invariance == Spec => []VMInv
<1>1. Init => VMInv
  BY InitInv
<1>2. VMInv /\ [Next]_vars => VMInv'
  BY VMAssumption, NextInv
<1>3. QED
  BY <1>1, <1>2, PTL DEF Spec

\* Frames, closures, upvalues and continuations never refer to one that does not
\* exist, and the machine runs exactly while an eval_closure is in progress.
THEOREM TypeCorrect == Spec => []TypeOK
<1>1. VMInv => TypeOK
  <2>1. SUFFICES ASSUME VMInv PROVE TypeOK
    OBVIOUS
  <2>2. FramesOK /\ LinksOK /\ SavedOK /\ IsMachine(Machine)
    BY <2>1 DEF VMInv, CapturedOK, GoodMachine
  <2>3. frame \in 0 .. Len(frames) /\ (Running <=> saved # <<>>) /\ reified \subseteq DOMAIN conts
        /\ DOMAIN frames = 1 .. Len(frames) /\ DOMAIN closures = 1 .. Len(closures)
        /\ DOMAIN conts = 1 .. Len(conts)
    BY <2>2 DEF FramesOK, LinksOK, SavedOK, Running
  <2>4. upvals \in Seq(Upval) /\ open \in 0 .. Len(upvals) /\ DOMAIN upvals = 1 .. Len(upvals)
        /\ \A u \in DOMAIN upvals : upvals[u].next \in 0 .. Len(upvals)
    BY <2>2, MachineFacts DEF IsMachine
  <2>5. ASSUME NEW f \in DOMAIN frames
        PROVE  /\ frames[f].R \in [Reg -> Value \cup {Unset}] /\ frames[f].clos \in DOMAIN closures
               /\ frames[f].cont \in 0 .. Len(conts) /\ frames[f].level \in Nat
    <3>1. frames[f] \in Frame
      BY <2>2 DEF FramesOK
    <3>2. frames[f].R \in [Reg -> Val] /\ frames[f].level \in Nat
      BY <3>1 DEF Frame
    <3>3. QED
      BY <2>2, <2>3, <3>2 DEF LinksOK, Val
  <2>6. QED
    BY <2>2, <2>3, <2>4, <2>5 DEF TypeOK, LinksOK
<1>2. QED
  BY <1>1, Invariance, PTL

\* A captured variable is one variable: upvalue_get returns what was last
\* assigned to it, wherever the assignment was made.
THEOREM Shared == Spec => []OneVariable
<1>1. VMInv => OneVariable
  <2>1. SUFFICES ASSUME VMInv, NEW u \in DOMAIN upvals,
                        Variable(upvals[u]) \notin orphans, upvals[u].frame \notin resumed
                 PROVE  Get(u) = latest[upvals[u].frame][upvals[u].reg]
    BY DEF OneVariable
  <2>2. GoodMachine(Machine) /\ IsMachine(Machine) /\ Capture(Machine, latest, left, resumed, orphans)
    BY <2>1 DEF VMInv, CapturedOK, GoodMachine
  <2>3. u \in 1 .. Len(Machine.ups) /\ Machine.ups = upvals /\ Machine.fs = frames
    BY <2>1, <2>2, MachineFacts DEF IsMachine
  <2>4. Known(Machine, u, resumed, orphans)
    BY <2>1, <2>3 DEF Known
  <2>5. CASE ~upvals[u].open
    BY <2>2, <2>3, <2>4, <2>5 DEF Get, Capture, ClosedKnown
  <2>6. CASE upvals[u].open
    <3>1. upvals[u].frame \notin left
      BY <2>1, <2>2, <2>3, <2>6 DEF Capture, LeftClosed
    <3>2. upvals[u].frame \in DOMAIN frames
      BY <2>2, <2>3, UpvalFacts
    <3>3. frames[upvals[u].frame].R = latest[upvals[u].frame]
      BY <2>2, <2>3, <3>1, <3>2 DEF Capture, Registers
    <3>4. QED
      BY <2>6, <3>3 DEF Get
  <2>7. QED
    BY <2>5, <2>6
<1>2. QED
  BY <1>1, Invariance, PTL

\* No open upvalue points into a frame that was left and not resumed, but one
\* that close_upvalues lost from the list.
THEOREM LeftIsClosed == Spec => []ClosedWhenLeft
<1>1. VMInv => ClosedWhenLeft
  <2>1. SUFFICES ASSUME VMInv, NEW u \in DOMAIN upvals, upvals[u].open,
                        upvals[u].frame \in left \ resumed
                 PROVE  Variable(upvals[u]) \in orphans
    BY DEF ClosedWhenLeft
  <2>2. IsMachine(Machine) /\ Capture(Machine, latest, left, resumed, orphans)
    BY <2>1 DEF VMInv, CapturedOK, GoodMachine
  <2>3. u \in 1 .. Len(Machine.ups) /\ Machine.ups = upvals
    BY <2>1, <2>2, MachineFacts DEF IsMachine
  <2>4. QED
    BY <2>1, <2>2, <2>3 DEF Capture, LeftClosed
<1>2. QED
  BY <1>1, Invariance, PTL

\* close_upvalues loses an open upvalue only of a frame that has two captured
\* variables or more on the list when it is left.
THEOREM LosingTakesTwo == Spec => LostOnlyByTwo
<1>1. VMInv /\ [Next]_vars =>
         [orphans' # orphans => Cardinality({r \in Reg : Find(Machine, frame, r) # 0}) >= 2]_vars
  <2> DEFINE S == {r \in Reg : Find(Machine, frame, r) # 0}
  <2>1. SUFFICES ASSUME VMInv, [Next]_vars, orphans' # orphans PROVE Cardinality(S) >= 2
    OBVIOUS
  <2>2. ~OneAtMost(Machine, frame)
    BY <2>1, VMAssumption, NextInv DEF Loses
  <2>3. PICK a \in S, b \in S : a # b
    BY <2>2 DEF OneAtMost
  <2>4. IsFiniteSet(Reg)
    BY VMAssumption, FS_Interval DEF VMAssumption, Reg
  <2>5. S \in SUBSET Reg
    OBVIOUS
  <2> HIDE DEF S
  <2>6. IsFiniteSet(S)
    BY <2>4, <2>5, FS_Subset
  <2>7. Cardinality(S) \in Nat
    BY <2>6, FS_CardinalityType
  <2>8. ~(Cardinality(S) <= 1)
    BY <2>3, <2>6, AtMostOne
  <2>9. QED
    BY <2>7, <2>8
<1>2. QED
  BY <1>1, Invariance, PTL DEF Spec, LostOnlyByTwo
=============================================================================
