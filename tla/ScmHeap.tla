------------------------------ MODULE ScmHeap ------------------------------
(***************************************************************************)
(* The heap of the runtime, src/scheme/scm_runtime.c: a bump allocator that*)
(* doubles its pool, the argument stack, and the copying collector that a  *)
(* compiled function may run when it is entered, before it takes its       *)
(* arguments from the stack.                                               *)
(*                                                                         *)
(* Sizes and addresses are in words of 8 bytes; everything the allocator   *)
(* hands out is aligned to a word (mem_align_offset).  A reference is the  *)
(* address of an object; a number, a boolean, a function and so on is an   *)
(* immediate value.  Infinities and NaN are apart, because the collector   *)
(* does not take them for numbers.  Strings and records are not created    *)
(* here (see the README).                                                  *)
(*                                                                         *)
(* The collector takes one step per call of scm_collect_value.  `todo' is  *)
(* its recursion: the cells it still has to visit, innermost call first.   *)
(***************************************************************************)
EXTENDS Integers, Sequences, FiniteSets

CONSTANTS
    PageSz,     \* HEAP_PAGE_SZ, in words
    ArgStackLen,\* ARG_STACK_LEN
    VOID,       \* SCM_VOID, SCM_NULL and every other immediate value
    Inexact,    \* the infinities and NaN the program computes
    Interning,  \* whether the program has a constant
    Kinds,      \* bound: the kinds of object the program creates
    MaxObjs,    \* bound: objects in the heap
    MaxCycles,  \* bound: collections in a run, which ends with the last one
    MaxLocals,  \* bound: values in the variables of a function
    Lengths     \* bound: how many words in the vectors and in the bytevectors whose
                \* length the program chooses

ASSUME HeapAssumption ==
    /\ PageSz \in Nat /\ PageSz >= 3
    /\ ArgStackLen \in Nat /\ ArgStackLen >= 2
    /\ VOID \notin Nat /\ Inexact \cap Nat = {}
    /\ MaxObjs \in Nat /\ MaxObjs >= 4
    /\ MaxCycles \in Nat /\ MaxLocals \in Nat
    /\ Lengths.vector \subseteq Nat /\ Lengths.bytevector \subseteq Nat

VARIABLES
    working,    \* heap_working: its size, its allocation index, its objects
    free,       \* heap_free, while a collection is running
    todo,       \* the cells the collection has yet to visit
    threshold,  \* gc_threashold
    cycles,     \* gc_cycles
    phase,      \* "enter", "gc" or "run": where the current function is
    interned,   \* the table of interned constants
    args,       \* the argument stack
    self,       \* the procedure that is running
    locals,     \* the values in its variables
    halt        \* <<>>, or why the program goes no further: <<"overrun", n>>,
                \* n words were given out past the end of the pool, after which
                \* everything is undefined, or <<"assert">>

vars == <<working, free, todo, threshold, cycles, phase, interned, args, self, locals, halt>>

-----------------------------------------------------------------------------
(* Objects.                                                                *)

\* Words before the fields or the bytes of an object.
Header == [pair |-> 1, box |-> 1, vector |-> 1, closure |-> 3, bytevector |-> 1]

Size(o) == Header[o.tag] + Len(o.fields) + o.bytes

\* make_closure counts the code pointer on top of the stack as a free variable.
AllocSize(o) == IF o.tag = "closure" THEN Size(o) + 1 ELSE Size(o)

\* fref = 0: not forwarded; bytes: the words of a bytevector's contents.  The
\* identity id is not in the code.
Object(tag, id, fields, bytes) ==
    [tag |-> tag, id |-> id, fref |-> 0, cont |-> FALSE, fields |-> fields, bytes |-> bytes]

IsRef(v) == v \in Nat

\* Address 0 is never handed out.
EmptyPool(sz) == [sz |-> sz, idx |-> 1, mem |-> <<>>]

NoPool == [sz |-> 0, idx |-> 0, mem |-> <<>>]

\* mem with the object o at address a
At(mem, a, o) == [b \in DOMAIN mem \cup {a} |-> IF b = a THEN o ELSE mem[b]]

\* (mutant) the pool grows by a page
AllocPage(pool, o) ==
    [sz  |-> IF AllocSize(o) >= pool.sz - pool.idx THEN pool.sz + PageSz ELSE pool.sz,
     idx |-> pool.idx + AllocSize(o),
     mem |-> At(pool.mem, pool.idx, o)]

\* scm_heap_alloc: the pool after o was put at its allocation index.  The pool
\* is doubled once, however large o is.
Alloc(pool, o) ==
    [sz  |-> IF AllocSize(o) >= pool.sz - pool.idx THEN 2 * pool.sz ELSE pool.sz,
     idx |-> pool.idx + AllocSize(o),
     mem |-> At(pool.mem, pool.idx, o)]

Ids(pool) == {pool.mem[a].id : a \in DOMAIN pool.mem}

FreshId(pool) == CHOOSE id \in 1 .. MaxObjs : id \notin Ids(pool)

Room(n) == Cardinality(DOMAIN working.mem) + n <= MaxObjs

TagOf(v) == IF IsRef(v) THEN working.mem[v].tag ELSE "immediate"

-----------------------------------------------------------------------------
(* The program between two function calls.                                 *)

Running == phase = "run" /\ cycles < MaxCycles /\ halt = <<>>

Held == locals \cup {self, VOID} \cup Inexact

Hold(v) ==
    /\ locals' = locals \cup {v}
    /\ Cardinality(locals') <= MaxLocals

\* An object with the given fields and bytes is allocated, and held by a
\* variable; the arguments it was made from are gone.
New(tag, fields, bytes, left) ==
    LET o    == Object(tag, FreshId(working), fields, bytes)
        pool == Alloc(working, o)
    IN /\ Running /\ tag \in Kinds /\ Room(1)
       /\ IF pool.idx <= pool.sz
          THEN working' = pool /\ Hold(working.idx) /\ args' = left /\ UNCHANGED halt
          ELSE halt' = <<"overrun", AllocSize(o)>> /\ UNCHANGED <<working, locals, args>>
       /\ UNCHANGED <<free, todo, threshold, cycles, phase, interned, self>>

\* _cons
Cons(x, y) == New("pair", <<x, y>>, 0, args)

\* make_box; the compiler makes one for each variable.
MakeBox == New("box", <<VOID>>, 0, args)

\* primop_make_bytevector and primop_make_vector with a fill, of a length the
\* program chooses.
PrimopMakeBytevector(n) == New("bytevector", <<>>, n, args)
PrimopMakeVector(n, x) == New("vector", [i \in 1 .. n |-> x], 0, args)

\* The argument stack from its top.
Popped == [i \in 1 .. Len(args) |-> args[Len(args) + 1 - i]]

\* make_closure and primop_vector empty the argument stack into the object.
\* The code pointer needs a place on the stack too.
MakeClosure == Len(args) < ArgStackLen /\ New("closure", Popped, 0, <<>>)

PrimopVector == New("vector", Popped, 0, <<>>)

\* A list in a pool, with the value v put in front.
ConsOnto(c, v) ==
    [pool |-> Alloc(c.pool, Object("pair", FreshId(c.pool), <<v, c.list>>, 0)), list |-> c.pool.idx]

\* The first n arguments as a list, built from the bottom of the stack.
ConsedArgs[n \in 0 .. Len(args)] ==
    IF n = 0 THEN [pool |-> working, list |-> VOID] ELSE ConsOnto(ConsedArgs[n - 1], args[n])

\* cons_rest: the argument stack as a list.
ConsRest ==
    /\ Running /\ "pair" \in Kinds /\ Room(Len(args))
    /\ working' = ConsedArgs[Len(args)].pool
    /\ Hold(ConsedArgs[Len(args)].list)
    /\ args' = <<>>
    /\ UNCHANGED <<free, todo, threshold, cycles, phase, interned, self, halt>>

\* car, cdr, box_ref of a held value, closure_ref of self
Load(a, f) ==
    /\ Running
    /\ TagOf(a) \in {"pair", "box"} \cup (IF a = self THEN {"closure"} ELSE {})
    /\ f \in DOMAIN working.mem[a].fields
    /\ Hold(working.mem[a].fields[f])
    /\ UNCHANGED <<working, free, todo, threshold, cycles, phase, interned, args, self, halt>>

\* (mutant) a box is stored like any other value
NotFlat(v) == v

\* box_set stores the value of a variable, never its box.
Flat(v) == IF TagOf(v) = "box" THEN working.mem[v].fields[1] ELSE v

\* set-car!, set-cdr!, box_set
SetField(a, f, v) ==
    /\ Running
    /\ TagOf(a) \in {"pair", "box"}
    /\ f \in DOMAIN working.mem[a].fields
    /\ working' = [working EXCEPT !.mem[a].fields[f] = IF TagOf(a) = "box" THEN Flat(v) ELSE v]
    /\ UNCHANGED <<free, todo, threshold, cycles, phase, interned, args, self, locals, halt>>

\* closure_to_continuation, in call-with-current-continuation
MarkContinuation(a) ==
    /\ Running
    /\ TagOf(a) = "closure"
    /\ working' = [working EXCEPT !.mem[a].cont = TRUE]
    /\ UNCHANGED <<free, todo, threshold, cycles, phase, interned, args, self, locals, halt>>

\* load_interned_constant
LoadConstant(i) ==
    /\ Running
    /\ Hold(interned[i])
    /\ UNCHANGED <<working, free, todo, threshold, cycles, phase, interned, args, self, halt>>

\* (mutant) without the test for ARG STACK OVERFLOW
PushUnchecked(v) ==
    /\ Running
    /\ args' = Append(args, v)
    /\ UNCHANGED <<working, free, todo, threshold, cycles, phase, interned, self, locals, halt>>

\* push_arg, and push_ref with v = Flat(v)
Push(v) ==
    /\ Running /\ Len(args) < ArgStackLen
    /\ args' = Append(args, v)
    /\ UNCHANGED <<working, free, todo, threshold, cycles, phase, interned, self, locals, halt>>

\* pop_arg
Pop ==
    /\ Running /\ args # <<>>
    /\ args' = SubSeq(args, 1, Len(args) - 1)
    /\ Hold(args[Len(args)])
    /\ UNCHANGED <<working, free, todo, threshold, cycles, phase, interned, self, halt>>

\* (mutant) a continuation gets all arguments
PassedAll(proc) == IF args = <<>> THEN <<VOID>> ELSE args

\* What _tail_call leaves of the arguments: a continuation made by call/cc is
\* called with one argument too many, and no call leaves the stack empty.
Passed(proc) ==
    LET kept == IF IsRef(proc) /\ working.mem[proc].cont
                THEN SubSeq(args, 1, Len(args) - 1) ELSE args
    IN IF kept = <<>> THEN <<VOID>> ELSE kept

\* TAIL_CALL and the trampoline: the caller's variables are gone.  A primitive
\* is an immediate value, and does not look at the heap when it is entered.
TailCall(v) ==
    LET proc == Flat(v) IN
    /\ Running
    /\ TagOf(proc) \in {"closure", "immediate"}
    /\ IsRef(proc) /\ working.mem[proc].cont => args # <<>>
    /\ args' = Passed(proc)
    /\ self' = proc
    /\ locals' = {}
    /\ phase' = IF IsRef(proc) THEN "enter" ELSE "run"
    /\ UNCHANGED <<working, free, todo, threshold, cycles, interned, halt>>

-----------------------------------------------------------------------------
(* The collector.                                                          *)

\* Cells: where scm_collect_value finds a value and writes it back.
InternCell(i) == <<"interned", i, 0>>
ArgCell(i) == <<"arg", i, 0>>
SelfCell == <<"self", 0, 0>>
FieldCell(a, f) == <<"field", a, f>>

\* (mutant) the argument stack is not a root
RootsNoArgs == [i \in 1 .. Len(interned) |-> InternCell(i)] \o <<SelfCell>>

\* scm_gc visits the interned constants, the argument stack and self.
Roots == [i \in 1 .. Len(interned) |-> InternCell(i)]
         \o [i \in 1 .. Len(args) |-> ArgCell(i)]
         \o <<SelfCell>>

\* (mutant) the new space is a page
NewSpacePage == EmptyPool(PageSz)

\* The free pool at the start of scm_gc: as large as the working one is.
NewSpace == EmptyPool(working.sz)

\* scm_chk_heap(&self), the first thing a compiled function does.
Enter ==
    /\ phase = "enter" /\ halt = <<>>
    /\ IF working.idx > threshold + threshold \div 2
       THEN /\ phase' = "gc"
            /\ cycles' = cycles + 1
            /\ free' = NewSpace
            /\ todo' = Roots
       ELSE phase' = "run" /\ UNCHANGED <<free, todo, cycles>>
    /\ UNCHANGED <<working, threshold, interned, args, self, locals, halt>>

CellValue(c) ==
    CASE c[1] = "interned" -> interned[c[2]]
      [] c[1] = "arg"      -> args[c[2]]
      [] c[1] = "self"     -> self
      [] c[1] = "field"    -> free.mem[c[2]].fields[c[3]]

\* (mutant) an object that has been copied is copied again
NeverSettled(v) == ~IsRef(v)

\* A value that the collector has nothing to do for.
Settled(v) == IsRef(v) => working.mem[v].fref # 0

\* What becomes of the value of a cell.
Moved(v) == IF ~IsRef(v) THEN v
            ELSE IF Settled(v) THEN working.mem[v].fref ELSE free.idx

\* (mutant) the contents of a bytevector are not counted
CopyMemShort(o) ==
    [sz |-> free.sz, idx |-> free.idx + Header[o.tag] + Len(o.fields), mem |-> At(free.mem, free.idx, o)]

\* scm_copy_mem: the object goes to the allocation index of the free pool.
CopyMem(o) ==
    [sz |-> free.sz, idx |-> free.idx + Size(o), mem |-> At(free.mem, free.idx, o)]

\* (mutant) the loop over the fields stops one short
FieldCellsShort(o) == [f \in 1 .. Len(o.fields) - 1 |-> FieldCell(free.idx, f)]

\* The cells of an object just copied, which the recursive calls visit.
FieldCells(o) == [f \in 1 .. Len(o.fields) |-> FieldCell(free.idx, f)]

\* One call of scm_collect_value, without the calls it makes.
CollectValue ==
    /\ phase = "gc" /\ todo # <<>> /\ halt = <<>>
    /\ LET c    == Head(todo)
           v    == CellValue(c)
           pool == IF Settled(v) THEN free ELSE CopyMem(working.mem[v])
       IN /\ working' = IF Settled(v) THEN working
                        ELSE [working EXCEPT !.mem[v].fref = free.idx]
          /\ todo' = IF Settled(v) THEN Tail(todo)
                     ELSE FieldCells(working.mem[v]) \o Tail(todo)
          /\ free' = IF c[1] = "field"
                     THEN [pool EXCEPT !.mem[c[2]].fields[c[3]] = Moved(v)] ELSE pool
          /\ interned' = IF c[1] = "interned"
                         THEN [interned EXCEPT ![c[2]] = Moved(v)] ELSE interned
          /\ args' = IF c[1] = "arg" THEN [args EXCEPT ![c[2]] = Moved(v)] ELSE args
          /\ self' = IF c[1] = "self" THEN Moved(v) ELSE self
    /\ UNCHANGED <<threshold, cycles, phase, locals, halt>>

\* An infinity or NaN is followed like a reference to address 0.  If the word
\* there, which nobody writes, happens to be 0, the switch on the type ends in
\* scm_assert(0, "Unreachable"); if not, the word becomes the low half of the
\* value, which remains an infinity or NaN (CollectValue).
Unreachable ==
    /\ phase = "gc" /\ todo # <<>> /\ halt = <<>>
    /\ CellValue(Head(todo)) \in Inexact
    /\ halt' = <<"assert">>
    /\ UNCHANGED <<working, free, todo, threshold, cycles, phase, interned, args, self, locals>>

\* (mutant) the collection waits until it has reclaimed an object
FinishReclaimed ==
    /\ phase = "gc" /\ halt = <<>> /\ todo = <<>> /\ Cardinality(Ids(free)) < Cardinality(Ids(working))
    /\ working' = free
    /\ free' = NoPool
    /\ threshold' = free.idx
    /\ phase' = "run"
    /\ UNCHANGED <<todo, cycles, interned, args, self, locals, halt>>

\* The end of scm_gc: the spaces are swapped and the old one is given back.
Finish ==
    /\ phase = "gc" /\ todo = <<>> /\ halt = <<>>
    /\ working' = free
    /\ free' = NoPool
    /\ threshold' = free.idx
    /\ phase' = "run"
    /\ UNCHANGED <<todo, cycles, interned, args, self, locals, halt>>

-----------------------------------------------------------------------------
\* load_dynamic and trampoline: an interned constant, the entry procedure, the
\* vector of imports and the exit continuation.  (No root of the collector leads
\* to the closure in exception_handler: it is left out.)
Init ==
    /\ LET constants == IF Interning THEN Alloc(EmptyPool(PageSz), Object("pair", 4, <<VOID, VOID>>, 0))
                        ELSE EmptyPool(PageSz)
           entry  == Alloc(constants, Object("closure", 1, <<>>, 0))
           module == Alloc(entry, Object("vector", 2, <<VOID>>, 0))
       IN /\ working = Alloc(module, Object("closure", 3, <<>>, 0))
          /\ interned = IF Interning THEN <<1>> ELSE <<>>
          /\ self = constants.idx
          /\ args = <<entry.idx, module.idx>>
    /\ locals = {}
    /\ free = NoPool
    /\ todo = <<>>
    /\ threshold = 0
    /\ cycles = 0
    /\ phase = "enter"
    /\ halt = <<>>

Mutate ==
    \/ \E x, y \in Held : Cons(x, y)
    \/ MakeBox
    \/ \E n \in Lengths.bytevector : PrimopMakeBytevector(n)
    \/ \E n \in Lengths.vector, x \in Held : PrimopMakeVector(n, x)
    \/ MakeClosure
    \/ PrimopVector
    \/ ConsRest
    \/ \E a \in Held, f \in 1 .. ArgStackLen : Load(a, f)
    \/ \E a, v \in Held, f \in 1 .. 2 : SetField(a, f, v)
    \/ \E a \in Held : MarkContinuation(a)
    \/ \E i \in DOMAIN interned : LoadConstant(i)
    \/ \E v \in Held : Push(v) \/ Push(Flat(v))
    \/ Pop
    \/ \E v \in Held : TailCall(v)

Prologue == Enter \/ CollectValue \/ Unreachable \/ Finish

Next == Mutate \/ Prologue

\* The prologue of a function runs to its end.
Spec == Init /\ [][Next]_vars /\ WF_vars(Prologue)

-----------------------------------------------------------------------------
(* Properties.                                                             *)

Pools == IF phase = "gc" THEN {working, free} ELSE {working}

IsObject(o) ==
    /\ o.tag \in DOMAIN Header
    /\ o.id \in 1 .. MaxObjs
    /\ o.fref \in Nat
    /\ o.cont => o.tag = "closure"
    /\ o.bytes \in Nat
    /\ \A f \in DOMAIN o.fields : IsRef(o.fields[f]) \/ o.fields[f] \in {VOID} \cup Inexact

\* Objects are well formed, only closures are marked as continuations, and the
\* argument stack never outgrows its array.
TypeOK ==
    /\ phase \in {"enter", "gc", "run"}
    /\ threshold \in Nat
    /\ Len(args) \in 0 .. ArgStackLen
    /\ \A p \in Pools : p.sz \in Nat /\ p.idx \in Nat
    /\ \A p \in Pools : \A a \in DOMAIN p.mem : IsObject(p.mem[a])

\* Objects lie inside the memory of their pool and do not overlap, also those
\* the collector puts into a space of the old one's size, which it never grows:
\* everything that is copied fits, whatever sizes the program asked for.
InBounds ==
    \A p \in Pools :
        /\ p.idx <= p.sz
        /\ \A a \in DOMAIN p.mem :
              /\ a >= 1
              /\ a + Size(p.mem[a]) <= p.idx
              /\ \A b \in DOMAIN p.mem : a < b => a + Size(p.mem[a]) <= b

\* scm_heap_alloc gives out memory past the end of the pool only for an object
\* that is larger than the whole pool, and than a page and a word: one doubling
\* is enough for everything else, the vector of a full argument stack included.
OverrunsAreLarge ==
    (halt # <<>> /\ halt[1] = "overrun") => halt[2] > working.sz /\ halt[2] > PageSz + 1

Todo == {todo[i] : i \in DOMAIN todo}

\* The pool that the value of a cell refers to: a cell that the collection has
\* yet to visit holds an address of the old space.
PoolOf(cell) == IF phase = "gc" /\ cell \notin Todo THEN free ELSE working

Valid(v, pool) == IsRef(v) => v \in DOMAIN pool.mem

\* No reference dangles, at any point of a collection: a cell that has been
\* visited refers to an object of the new space, all others to one of the old.
NoDangling ==
    /\ \A a \in DOMAIN working.mem : \A f \in DOMAIN working.mem[a].fields :
          Valid(working.mem[a].fields[f], working)
    /\ phase = "gc" =>
          \A a \in DOMAIN free.mem : \A f \in DOMAIN free.mem[a].fields :
             Valid(free.mem[a].fields[f], PoolOf(FieldCell(a, f)))
    /\ \A i \in DOMAIN interned : Valid(interned[i], PoolOf(InternCell(i)))
    /\ \A i \in DOMAIN args : Valid(args[i], PoolOf(ArgCell(i)))
    /\ Valid(self, PoolOf(SelfCell))
    /\ \A v \in locals : Valid(v, working)

\* Every object is copied at most once, and its forwarding reference leads to
\* the copy: sharing and cycles survive a collection.  Between collections no
\* object looks forwarded.
Forwarding ==
    /\ \A a \in DOMAIN working.mem :
          working.mem[a].fref # 0 =>
             /\ phase = "gc"
             /\ working.mem[a].fref \in DOMAIN free.mem
             /\ free.mem[working.mem[a].fref].id = working.mem[a].id
    /\ phase = "gc" =>
          /\ \A b \in DOMAIN free.mem :
                /\ free.mem[b].fref = 0
                /\ \E a \in DOMAIN working.mem : working.mem[a].fref = b
          /\ \A a, b \in DOMAIN free.mem : free.mem[a].id = free.mem[b].id => a = b

\* A variable's box never holds another box, so that the single box_ref of
\* push_ref and of _tail_call resolves a variable.
NoBoxInBox ==
    phase # "gc" =>
        \A a \in DOMAIN working.mem :
            working.mem[a].tag = "box" => TagOf(working.mem[a].fields[1]) # "box"

\* The program's view: values are immediate or the identities of objects.
\* A dangling reference would show as 0, which is neither.
View(v, pool) ==
    IF ~IsRef(v) THEN v ELSE IF v \in DOMAIN pool.mem THEN pool.mem[v].id ELSE 0

store ==
    [id \in Ids(working) |->
        LET o == working.mem[CHOOSE a \in DOMAIN working.mem : working.mem[a].id = id]
        IN [tag |-> o.tag, cont |-> o.cont,
            fields |-> [f \in DOMAIN o.fields |-> View(o.fields[f], working)]]]

internedView == [i \in DOMAIN interned |-> View(interned[i], PoolOf(InternCell(i)))]

argsView == [i \in DOMAIN args |-> View(args[i], PoolOf(ArgCell(i)))]

selfView == View(self, PoolOf(SelfCell))

localsView == {View(v, working) : v \in locals}

\* The heap is a store whose objects never move: to the program, a collection
\* is invisible until its end, when it forgets the objects out of reach, all
\* of them and nothing else.
Store == INSTANCE ScmStore WITH
    Immediate <- {VOID} \cup Inexact, interned <- internedView, args <- argsView,
    self <- selfView, locals <- localsView

StoreSpec == Store!Spec

\* A function that is entered gets to its body: the collection ends, however
\* cyclic the heap is.  (Or it ends the program, at an infinity.)
Entered == phase # "run" ~> (phase = "run" \/ halt # <<>>)
=============================================================================
