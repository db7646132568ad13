# Sly: TLA+ models, checks and proofs

Sly compiles a Scheme-like language.  Its compiler is a C program (`src/src`),
whose macros run at compile time on a bytecode machine; the programs it
produces are C linked with a runtime (`src/scheme`) that has its own copying
garbage collector.  This directory models the parts of both that carry state or
transform programs, checks them with TLC on small instances and proves, with TLAPS,
what makes four of them correct: the dictionary, the strings and the heap of the
runtime, and the bytecode machine.

## The system

```
source --lexer--> tokens --parser--> syntax --expander--> core forms
                                        |  ^                  |
                            (macro calls)  |                  v
             bytecode compiler --> bytecode machine      CPS graph --> C --> gcc
                                                      (translate, contract)   |
                                                                              v
                                              runtime: trampoline, heap, collector
```

There are no threads, and nothing is persisted.  What is hard here is not
concurrency but *moving state under someone's feet*: a collector that moves
objects, tables that are rebuilt while they are walked, closures that outlive
the frames whose variables they captured, and continuations that run a frame
again.

| Component | State | Operations | Who uses it | What makes it correct |
|---|---|---|---|---|
| Dictionary (`sly_types.c`) | a vector of slots: null, entry, or tombstone; a length | set, ref, remove, resize, copy, import, union, listing | scope sets, symbol tables, environments, every CPS graph and table | it is a finite map, whatever the hashes; the length is right; its loops end |
| Runtime heap (`scm_runtime.c`) | two pools, the threshold, the intern table | allocate, `scm_chk_heap`, `scm_gc` | every compiled function | objects keep identity and contents, garbage goes, nothing is overrun |
| Argument stack and trampoline (`scm_runtime.c`) | 512 places, the running procedure | push, pop, `_tail_call`, the loop | every compiled function and primitive | a call passes what was pushed |
| Strings (`scm_runtime.c`) | string objects over shared buffers | copy, set, the collector's copy | primitives | a write to one string is seen in no other |
| Interned constants (`scm_runtime.c`, `cbackend.c`) | the table of constants | `scm_intern_constants`, load | compiled code | a nested constant refers to the right one |
| Primitives (`scm_runtime.c`) | none | numbers, lists, vectors, strings | compiled code | they compute what R7RS says |
| Bytecode machine (`sly_vm.c`, `eval.c`, `sly_types.c`) | frames, upvalues and the list of open ones, continuations | call, tail call, call/cc, call-with-values, apply, return, eval | macro calls, `require`, `eval` | closures share a captured variable before and after its frame is left |
| Bytecode compiler (`sly_compile.c`) | scopes, symbol tables, the prototype being built | `comp_*`, `resolve_upval` | expander, eval | registers and upvalue lists agree with the machine's use of them |
| Syntax expander (`syntax_expander.c`) | bindings, scope sets, module provides | expand, resolve, add/flip scope | driver | an identifier resolves to one binding, hygienically |
| CPS translator and optimiser (`cps.c`) | the graph, variable information | translate, contract, free variables | backend | the graph stays closed and means the same |
| C backend (`cbackend.c`) | the constants, the output | emit | driver | emitted code respects the heap's discipline |
| Lexer, parser (`lexer.c`, `parser.c`) | token buffer, position | next/peek token, parse | driver, `include`, `require` | every datum once, errors at the end of input |
| Ports, builtins, driver (`sly_ports.c`, `builtins.h`, `main.c`) | C streams | wrappers | macros, command line | - |

The hazards, each at its line, are listed in `PROJECT.json`.

## The modules

| Module | Models | Composes |
|---|---|---|
| `SlyMap` | what the dictionary promises: finite maps | |
| `SlyDict` | the hash table of `sly_types.c` 1796-1996 | implements `SlyMap` |
| `SlyDictProofs` | theorems about `SlyDict` | |
| `ScmStore` | what the heap promises: objects that never move and are forgotten only out of reach | |
| `ScmHeap` | allocator, collector, argument stack, trampoline of `scm_runtime.c` | implements `ScmStore` |
| `ScmHeapProofs` | theorems about `ScmHeap` | |
| `ScmStoreProofs` | the theorem that `ScmHeap` implements `ScmStore` | extends `ScmHeapProofs` |
| `ScmString` | strings over shared buffers of `scm_runtime.c` | |
| `ScmStringProofs` | theorems about `ScmString` | |
| `ScmPrims` | the primitives of `scm_runtime.c` on the argument stack, and the compiler's folding of them (`cps.c`, `sly_types.c`) | |
| `ScmPrimsProofs` | theorems about `ScmPrims` | |
| `ScmFoldProofs` | the theorem that folding agrees with the runtime | extends `ScmPrimsProofs` |
| `SlyVM` | frames, upvalues, continuations of `sly_vm.c` | |
| `SlyVMProofs` | theorems about `SlyVM` | |
| `SlyFacts` | lemmas about numbers, sequences and finite sets the proofs share | |
| `SlyCps` | translation to CPS and the contraction passes of `cps.c` | |
| `SlyCpsMeaning` | what programs and CPS graphs mean, and the properties of `SlyCps` | extends `SlyCps` |
| `SlyExpand` | the syntax expander of `syntax_expander.c`, with the matching and construction of syntax of `sly_types.c` | |
| `SlyHygiene` | what the expansion of a program should be, and the properties of `SlyExpand` | extends `SlyExpand` |
| `MCSlyDict`, `MCScmHeap`, `MCScmString`, `MCScmPrims`, `MCSlyVM`, `MCSlyCps`, `MCSlyExpand` | instances for TLC | |

`PROJECT.json` maps each definition to its lines.  An operator whose comment
begins with "(mutant)" is a wrong variant of the definition that follows it: with
it in place of that definition the property named in `PROJECT.json` must fail.

### SlyDict

A table is a record of capacity, length and slots; a slot is null, an entry, or
`Tombstone`.  `dict_get_slot` is described by the order in which its two loops
visit the slots (`Dist`, `Before`): `Returns(t, k, i)` says that slot `i` is its
result, `ScanFails` that it reaches its final assertion.  `dictionary_set`,
`_ref` and `_remove` are single steps.  The loops of `dict_resize`,
`copy_dictionary`, `dictionary_import` and `dictionary_union` take one step per
slot, because what matters about them is what holds between two iterations; nothing
else happens during a loop.  A copy or union fills a new dictionary, so its
destination is none of its sources; an import may have its source as its
destination.  Failing assertions end
the run (`fault`).  Keys are taken up to `sly_equal`; values are opaque; `0.70`
is exact for the capacities that occur.

### ScmHeap

Words of 8 bytes are the unit.  A pool is its size, its allocation index and the
objects at their addresses; each object has an identity, a history variable by
which the abstract store knows it.  `Alloc` doubles the pool once, as
`scm_heap_alloc` does, however large the object is: the lengths of vectors and
bytevectors are the program's choice (`Lengths`), so an object may be larger than the
doubled pool.  The allocator then gives out memory past the end of it; the model
records this (`halt`) and ends there, as all that follows is undefined.  A compiled
function first calls `scm_chk_heap` (`Enter`); if the threshold is passed the collector runs, one step per call of
`scm_collect_value`, its recursion unfolded into the list `todo` of cells.
The body of a function is any sequence of the runtime's operations on what it
holds, up to its tail call: the model does not know code, so it covers every
program.

Left out here: strings and the C pointers held across a `realloc` (`ScmString`);
records and `make-vector` without a fill, which leave fields uninitialised
(`ScmPrims`); symbols; `exception_handler`, which no root leads to.  Line 241 of `scm_runtime.c`, at this commit
`====gc_threashold = heap_working->idx;`, does not compile and is read as the
assignment.

Defects that are part of the model: one doubling is enough for an object up to the
size of the pool, and of a page and a word (`OverrunsAreLarge`), but `(make-vector 2000
0)` in a pool of one page overruns it, and so may a closure of 510 or 511 free
variables; an infinity or NaN is not a number to `scm_collect_value`, which follows it
as a reference to address 0, a word nobody writes: if it is 0 the program stops
(`Unreachable`), and if not it overwrites the low half of a value whose type is in the
other half.

### ScmString

A string is a window (offset, length) into a buffer; a buffer has cells, a width
and a reference count.  A string holds a C pointer to its buffer, so an
allocation that makes `realloc` move the pool turns the pointers of all strings
stale (`fresh`, `moved`): each allocation chooses whether the pool moves.  A use of
a stale pointer or of a cell outside its buffer is undefined behaviour in C; the model
records which (`status`) and stops.  The properties are about what holds until
then.

Copying on write rests on the counts, and these fail in two ways, for which there are
two history variables.  `string_copy` does not raise the count of the buffer it shares,
and only the next collection recounts (`since`: the copies made since).  The count is an
`i8` that the collector raises for each further string, so that 128 strings on a
buffer make it -128 (`crowded`: the buffers whose count overflowed in the last
collection).  `CountsCover` says that every other count covers every other string.
`WritesArePrivate` says that a write can show in a second string only if both are on a
buffer that is `Undercounted`: crowded, or used by at most one string that was there at
the last collection.  On a buffer that two strings shared then, later copies are safe too.

Defects that are part of the model: the count, in both ways; `string_copy` ignores the
offset of its source and compares its indices, which become `u32`, with nothing, so
that the window may lie outside the buffer; `sb_copy` and `sb_narrow_to_wide` size
the new buffer by the window while the offset is kept, so that an index that passed
the check of `string-set!` may lie outside the buffer; the collector multiplies the
length of a wide buffer, which is in bytes, by the width of a character and copies too
much (`Overlong`); a negative length asks `make-string` for more than the pool has;
`init_string` and `make_string` hold a pointer to the string while they allocate
its buffer.

### ScmPrims

The state is the argument stack, the objects in memory, the last result and
whether the program still runs.  `Primcall` is a use the C backend inlines, `Call` one
through the primitive's procedure, whose continuation pops exactly one argument.
What a primitive leaves on the stack (`Out.left`) is seen by the next one, unless
that is called with a continuation of its own: the closure made for it takes all that
is on the stack for its free variables (`Stacks`).
Integers are bounded by `MaxInt` as the runtime's 32-bit word is, and the
compiler's by `MaxFold`; floats are exact rationals with infinities and NaN
apart.  `Folded` is what `cps.c` computes at compile time for constant arguments.
Which programs there are is a constant; two assumptions, discussed with the proofs, say
what a program may use and pass.

What `malloc` left in a cell is the value `Junk`.  Once a primitive has returned it
(`held`) the program may pass it to any other, which may store it, like any value.
From there, and when a collection would meet a cell that holds junk, anything may
follow (`Astray`), and it does at once where memory is overwritten (`Wild`): the status
is `"undefined"` and the model stops.

Defects that are part of the model, each a value, an error or an undefined outcome of
its primitive: `(+ x)` and `(* x)` box their argument again, which lets the bits of a
float below 2^-1043 pass for an integer and stops at others; `1+`, `1-` and
`string?` called as procedures always fail their arity check (line 1954);
`vector-ref` boxes what it reads again (1090); `zero?`, `positive?` and `negative?`
return a bare C int (2192), the bits of a float; `length` counts every second pair,
`list` returns void, `equal?` of bytevectors compares the first with itself,
`vector-set!` asserts a bytevector and then writes words over its neighbours; a negative
length is taken for a `u32`; an index of `list-ref` is too, and goes round a circular
list; `<` used inline leaves arguments behind when it stops
early (`LeftoversExplained` confines it; run `prims_sums` shows the consequence).

### SlyCps and SlyCpsMeaning

A unit is the graph (a function from labels to continuations), gensym's counter,
the names `fix` defines and the entry label.  One step is one whole pass:
`Translate`, then rounds of `Resolve` (alias resolution), `Fold` (constant folding,
branch folding, elimination of dead bindings, jump threading) and `Beta` (inlining
of procedures used once), until a round does not set `click`.  Each pass first
computes the variable information (`VarInfo`), a fixed point over the graph.  Passes
traverse the graph in the order of the C code, because the result depends on it,
and a continuation that shares its term with another (`of`) is rewritten through the
other, as the shared pointer is.  A failed assertion is the state `aborted`.

`SlyCpsMeaning` evaluates a source program (`Meaning`) and a graph
(`GraphMeaning`) with the same store, output and fuel; `MeaningKept` says that
after every pass both print the same and end with the same values, unless the
program is in error or runs out of fuel.  Both modules use RECURSIVE operators and
are for TLC only.

A pair has an identity, so that `eq?` of two pairs is what the runtime says; a folded
`cons` is one pair.  `FoldFix` drops the boxes of a `fix` nobody uses.  At most
`MaxRounds` rounds are followed, more than any program of the run needs but those of
`CallsItselfOnly`.

The model was compared with the compiler: the graphs of the programs of
`Everything` (661) and some 50 others after each pass agree with the compiler's
dumps.  The second removal of fix names (1504-1545) and the two branches of constant
folding for a `values` used once (1514-1608) cannot be reached and are left out.

Defects seen while modelling.  `MeaningKept` fails on programs with these, so the
families leave them out; one, the rest parameter, is the run `cps_rest`:

- a rest parameter that gets no argument aborts the compiler when the call is
  inlined (1820-1834);
- a constant branch whose arms take no values is given one anyway (1625, against the
  comment at 695), and this folding does not set `click`;
- `(define f (lambda () (f))) 1` is inlined for ever, although a comment (2044) says
  that recursive procedures are never used once.  The families have such programs, and
  `RoundsBounded` confines this to a procedure called by nothing but itself;
  `(define f (lambda () (+ (f) 1))) 1` doubles in every round and is left out;
- a definition in an arm of an `if` that folding drops empties the `fix` that boxes
  the variables, and the walk may then lose a label (1413-1424): the next pass
  aborts.  The families have such programs, and `NoAbort` confines it to them
  (`DefinesInArm`);
- `cons` of constants is folded to one pair, shared by all evaluations:
  `(define (f) (cons 1 2)) (eq? (f) (f))` is true (1278);
- a `set!` inside a procedure is taken for the binding of the variable before the
  procedure is called: `(define i 1) (define f (lambda () (set! i 2)))
  (display (+ i 5)) (f)` is folded to display 7 (870-878, 1083);
- aliases that join ignore the alternative; inlining a body with an internal
  define aborts; extra arguments of an inlined call are dropped; a branch tests
  a box rather than its contents.

### SlyExpand and SlyHygiene

Syntax is a tree of identifiers (a name and a set of scopes), literals and lists
with a tail.  The state has the bindings (`binds`), the environment (`env`, names to
"variable" or to a macro), what each file provides, and the stack of files being
expanded (`work`).  A step is one top-level form (`ExpandForm`), the start of a
required file (`Load`), the import of what it provides (`Import`, one identifier after
the other, each resolved among the bindings that those before it made), a `provide`, or
the end of a file, in which `compile` resolves every identifier once more
(`Finish`).  A failed assertion is a value of `status`.  A macro's procedure runs on
the bytecode machine and could compute anything; here it is a list of rules, a
pattern for `match-syntax` and a template for `construct-syntax`, which is what
`syntax-case` of the library makes of it.  Scope sets and the tables of bindings are
values: dictionaries are the business of `SlyDict`.  Not modelled: `include`,
`require` and `provide` inside another form, a `provide` after the file was
imported.

`SlyHygiene` expands the same program without scope sets: environments are lists
of frames, identifiers carry the marks of the macro uses that introduced them, and
a marked identifier that is bound in no frame is looked up, without its last mark,
where the macro was defined.  `Hygienic` compares the two results up to the names of
variables; `ErrorsAreErrors` says that the expander rejects only what the
reference rejects; `EachFileOnce` that each file is expanded once in the whole run, and
before the files that require it go on, unless they wait for each other.  Both modules
use RECURSIVE operators and are for TLC only.

Defects seen while modelling, each tried on the compiler.  The families leave them
out, except where the reference follows the code:

- a macro that binds `x` and, inside, an `x` it is given fails with "ambiguous
  binding", although it is correct: there is no scope for the use of a macro (333-343);
- `(define (f x) ...)` makes a `lambda` with the scopes of the `define`, so it is
  captured by a local variable named `lambda` (466);
- a file that uses `if` and later defines `if` is expanded with the core form and
  then resolved to the variable (727, 745);
- an application with an improper tail is rejected only if its head is an identifier
  (the families have both; the reference rejects both);
- a primitive that is a core form, such as `cons`, is rejected as a value (394); the
  library does use such primitives as values, and does not expand at this commit
  (the reference rejects them too);
- after `...` the form is advanced once more, so that a last element that does
  not match is dropped without an error, and what it bound before it failed stays
  (`sly_types.c` 2367-2372, 2396); `x ... y` never matches; `_` inside a list is bound
  like a variable (2378 tests the list); numbers and strings in a pattern match anything;
- literals match by name only (`identifier_eq`; the reference does the same); a
  template that repeats no variable is repeated for ever (2459);
- the arguments of a core form and the body of a procedure are expanded as an
  application if they begin with an identifier (522, 449).

### SlyVM

A frame has the registers of its variables, its closure, its continuation and its
level.  An upvalue refers to a register while it is open and is linked to the
open upvalue made before it.  A continuation knows the registers it will write its
value to: none if that is a temporary, the register of an internal define, or those of
a receiver's arguments (`Slots`, `Arguments`), and such a variable may be captured.
`CloseAll` follows `close_upvalues` with the
`parent` pointer that is not reset from one variable to the next.  The history
variables say which value each variable of each frame was last given (`latest`),
which frames were left, which of those ran again, and which variables had an open
upvalue that was no longer on the list (`orphans`).

Two defects of the machine are part of the model, and the properties name them as
exceptions rather than hide them:

- leaving a frame with two captured variables may cut the open upvalues of outer
  frames off the list (`orphans`).  A later capture then gets a second upvalue,
  and when the outer frame is left the closures no longer share the variable.
  `LostOnlyByTwo` confines the cause.
- a frame that a continuation resumes after its upvalues were closed has its own
  copy of its captured variables (`resumed`).

With either exception dropped from `OneVariable`, TLC finds a counterexample
(for `orphans`, with four closures and four upvalues).

## Runs

| Run | Question | Bounds | Distinct states |
|---|---|---|---|
| `dict` | is one dictionary a map under sets, removals and lookups | 4 keys, 2 values, capacity 4 to 8 | 5 700 |
| `dict_import` | do copies, imports and unions move what they should, and do their loops end | 3 keys, 2 values, 2 dictionaries | 388 000 |
| `dict_never` | is the assertion of `dict_get_slot` unreachable, as its comment says | as `dict` | violated |
| `heap` | do programs notice the collector; is every heap graph copied exactly; does the prologue end | closures and boxes, 5 objects, 2 collections; and all graphs of a closure, 2 pairs and a box, one collection | 553 000 |
| `heap_data` | do allocation and copying stay in bounds, and for which objects not | pairs, vectors and bytevectors of 1 to 34 words, a constant, 5 objects, 2 collections | 765 000 |
| `strings` | is a write seen in one string only; do pointers and counts survive a collection | 3 strings, 2 buffers, length 2, a narrow and a wide character, indices -1 to 1, counts up to 2 | 345 000 |
| `prims` | do primitives agree with the compiler's folding, keep the stack and memory in order, and decide lists and equality | numbers: all lists of up to 3 of 4 numbers; 3 pairs and 1 more; 8 objects and 1 more | 105 000 |
| `prims_sums` | does a sum depend on its own arguments only, as a comment says | the number program | violated |
| `vm` | do closures share captured variables, also across nested evals | 3 frames, 2 variables each, 3 closures; 3 upvalues and a continuation, or 2 and either a second continuation or a nested eval; results in a variable with fewer upvalues | 1 747 000 |
| `cps` | does every pass keep the program's meaning, in few rounds and without aborting | 661 programs, all passes | 9 630 |
| `cps_rest` | can the compiler abort on a correct program | a rest parameter left out | violated |
| `expand` | is expansion hygienic, does it reject only erroneous programs, and is each file expanded once and in time | 348 programs, up to 3 files, macros that use macros | 2 420 |

Why the bounds are enough for the cases that matter:

- `dict`: `InitCap` is 4 in place of 32.  Three entries exceed 70% of 4, so a
  resize happens; the keys' home slots cover the table and two share the last
  one, so scans wrap around and tombstones can fill the table.
- `dict_import`: three keys resize the destination in the middle of a loop.
- `heap`, `heap_data`: a pool of 6 words is doubled by the first objects; two
  collections show a collection of what a collection left.  `heap` starts from a
  program's start and also from every shape that four objects can have, which programs
  reach only in part.  `SomeLengths` has small objects, the largest that fit after one
  doubling and the one that no longer does, at the sizes of pool the run reaches.
- `strings`: a string, a copy of it and a copy of the copy; a write that widens,
  one that unshares, one that does both, before and after a collection.  `RcMax = 2`
  in place of 127, so that three strings on a buffer overflow its count; `Word = 3` in
  place of 2^32, so that -1 becomes an index beyond every string.
- `prims`: the numbers lie at the ends of the word (`MaxInt = 3`), so sums and
  products overflow it; the pairs can be tied into a cycle, shared or improper;
  one vector begins the other.  `Word = 8` in place of 2^32 and `TinyDen = 1024` in
  place of 2^1074: an index goes round a cycle more than once, and a bare 1 is the
  smallest float.
- `vm`: one frame at top level, one that captures a variable, one that captures
  two and is left: the case in which the list is cut.  `Bounded` trades upvalues
  for continuations and evals, and for continuations that write variables.
- `cps`: the families cover each translation and each rewriting of the passes in
  isolation and nested once, pairs told apart by `eq?`, definitions in dropped arms, and
  procedures that only they themselves call.
- `expand`: each family is a shape of program in which an identifier might be
  captured, with every choice of the names in it: shadowing without macros, macros that
  bind their own variable or one they are given, recursive macros of the library
  (`let`, `or`, `cond`), macros inside procedures, macros that define variables or
  macros, macros that pass their own identifiers on (without this family, dropping
  the scope of a macro use goes unnoticed, because the parameter of the macro's
  procedure already gives its template a scope), files in a circle, and two files that
  require a third (a diamond).  About half
  of the programs are in error, by an undefined identifier, a use that no rule
  matches or a core form used as a variable.

`CHECK_DEADLOCK FALSE` in the runs of the dictionary, the heap, the bytecode machine
and CPS: a program may end (a failed assertion, an exit), and these runs stop at
their bounds (`MaxCycles`, `MaxFrames`, ...).  The others check for deadlock.

`dict_never` is expected to fail.  The comment before the assertion says "we
should *never* reach this point if dictionary is properly maintianed"; but
removals leave tombstones, the load factor counts live entries only, and once
no slot is null any scan for an absent key fails.  `FaultNeedsTombstones` shows
that this is the only way to get there.

`prims_sums` is expected to fail: an inlined comparison that stops at the first pair
that does not compare leaves its other arguments on the stack, and the sum that
follows adds them.  `cps_rest` is expected to fail: a call that omits the rest
argument and is inlined refers to a continuation that was not entered in the graph,
and the next pass fails its assertion.

### Fairness

- `WF_vars(Loop)` in `SlyDict`: a loop that has begun is straight sequential code
  that nothing interrupts.  Operations that the program may or may not call have
  no fairness.
- `WF_vars(Prologue)` in `ScmHeap`: the prologue of a compiled function, the
  collection included, runs to its end.  The program's own steps have none.

## Proofs

Each theorem is about all behaviours of a component's specification, for every value
of its constants that satisfies the named assumptions.  The constants that bound the
runs (`MaxObjs`, `MaxFrames`, ...) are any natural numbers here.

| Module | Theorem | Statement |
|---|---|---|
| `SlyDictProofs` | `TypeCorrect` | `Spec => []TypeOK` |
| | `Probing` | `Spec => []ProbeInv` |
| | `Counting` | `Spec => []LenInv` |
| | `Resizing` | `Spec => [](NewTableHasRoom /\ LoadInv)` |
| | `Failing` | `Spec => []FaultNeedsTombstones` |
| | `Refinement` | `Spec => MapSpec` |
| | `Importing` | `Spec => []ImportSoFar` |
| `ScmStringProofs` | `TypeCorrect` | `Spec => []TypeOK` |
| | `Fresh` | `Spec => []FreshUntilMoved` |
| | `Counts` | `Spec => []CountsCover` |
| | `Narrowness` | `Spec => []NarrowHoldsNarrow` |
| | `Privacy` | `Spec => WritesArePrivate` |
| | `Comparing` | `Spec => []ComparisonsAgree` |
| `ScmHeapProofs` | `TypeCorrect` | `Spec => []TypeOK` |
| | `Bounded` | `Spec => []InBounds` |
| | `OverrunsLarge` | `Spec => []OverrunsAreLarge` |
| | `Safe` | `Spec => []NoDangling` |
| | `CopiedOnce` | `Spec => []Forwarding` |
| | `BoxesStayFlat` | `Spec => []NoBoxInBox` |
| `ScmStoreProofs` | `Implements` | `Spec => StoreSpec` |
| `ScmPrimsProofs` | `TypeCorrect` | `Spec => []TypeOK` |
| | `TypesLast` | `Spec => [][Grows(mem, mem')]_vars` |
| | `Leftovers` | `Spec => []LeftoversExplained` |
| | `ListPIsExact` | `Spec => ListPExact` |
| | `EqualIsEqual` | `Spec => []EqualEquivalence` |
| | `JunkExplained` | `Spec => []JunkOnlyBare` |
| `ScmFoldProofs` | `FoldingIsSound` | `Spec => SameAsFolded` |
| `SlyVMProofs` | `TypeCorrect` | `Spec => []TypeOK` |
| | `Shared` | `Spec => []OneVariable` |
| | `LeftIsClosed` | `Spec => []ClosedWhenLeft` |
| | `LosingTakesTwo` | `Spec => LostOnlyByTwo` |

The library's induction theorems are out of the provers' reach, so an induction is
written as an argument about a least counterexample (`LeastNat` in `SlyFacts`).  This is
also how the recursive functions inside `CloseAll`, `OpenAll` and `ConsedArgs` are
followed through their rounds, and how `Cdrs`, the folds of the arithmetic primitives
and the recursion of `equal?` are shown to exist and to compute what they should.

### The dictionary

For every set of keys and values, every hash function, any number of dictionaries and
any initial capacity of at least 4 (`ConstantsAssumption`; the code has 32) and with a
null that is no key and no value (`NullAssumption`).

The heart is a pair of facts about the scan: if no null slot lies
between an entry and its home (`Chained`) and keys are unique, then a free slot
returned by `dict_get_slot` means that the key is absent (`FreeMeansAbsent`), and
storing through the returned slot keeps both (`PutWellProbed`).  `ProbeInv` alone
is not inductive: the proof needs the types, the cursors and the length together
with it, for the new table of a resize as well.  That is `DictInv`; `DictInit` and
`DictStep` give the first three theorems.  A resize is safe because the new table
holds no tombstone, at most as many entries as the old one had below the cursor,
and twice the slots; `RoomInv` says so, is inductive relative to `DictInv`, and
gives `Resizing` and, since a new table then always has a null slot, `Failing`.  With
both, each step is shown to be a step of `SlyMap` or a stutter: the only delicate one
is `ResizeDone`, which must leave the contents unchanged (`WalkedAll`).  `Importing`
follows the cursor in the same way.

### Strings

For any characters that are numbers and any largest narrow one (`CharsAssumption`), any
largest count, any width of a word and any indices (`WidthAssumption`).
The inductive invariant is

    StrInv == Shapes /\ FreshUntilMoved /\ CountsCover /\ NarrowHoldsNarrow

where `Shapes` describes strings and buffers.  The three properties
are inductive with it, since each speaks of every buffer and not of the last one
written.  `Counts` needs the arithmetic of the wrapping count: up to `RcMax` sharers
it is their number, and a buffer with more is in `crowded` until the next collection.
`Privacy` is an action property: a step that changes the contents of two
strings is impossible unless `string-set!` writes in place, so with a count of at
most one; then `CountsCover` says that the buffer is crowded or that at most one string that
is no recent copy is on it, which is `Undercounted`.  `Comparing` rests on the fact that
all five comparisons look at the first place where two strings differ (`DifferFacts`).

### The heap

`HeapAssumption`: a page has at least 3 words, the argument stack at least two places,
and the void value and the infinities are no addresses; `Lengths` are any natural numbers.

Between collections (`AtRest`) the working space is a well-formed heap: objects lie
one after the other, identities are unique, and every value in a root or a field is
immediate or the address of an object.  During a collection this is false: fields of
copied objects still have addresses of the old space.  `Copying` says what is true
instead, relative to the list `todo` of cells still to be visited: every cell in the
list is a root or a field of a copy; a cell holds an immediate value or an address, of
the old space if it is in the list and of the new one if not; a forwarded object is
forwarded to its copy, and every object of the new space is the copy of one.  `HeapInv` is `AtRest` or `Collecting`, by phase.

`InBounds` is the part that a test would hardly reach: why the collector can allocate
in the other space without growing it.  The words of the copies are the words of
distinct old objects (`CopiedWords`), so they fit in a space of the old one's size.
`OverrunsLarge` is its counterpart for allocation: a pool is never smaller than a page
and its index never past its end, so that what does not fit after one doubling is larger
than the pool was.  In between (a closure takes a word more when it is allocated than
when it is copied) only a pool that has been doubled is ever full to the last word
(`Roomy`).
When `todo` is empty every cell is home, which is `AtRest` for the new
space: that is why the collector, although it never looks at the old space again,
leaves nothing dangling.

`Implements` says that a program cannot tell this heap from one whose objects never
move: allocations, reads and writes are those of `ScmStore`, a step of the collector
changes nothing the program can see, and the end of a collection forgets only objects
out of reach.  `HeapInv` is not enough for this: it says that copies are well formed, not
that they are copies.  `StoreInv` adds two facts about a collection under way:

- `Same`: a copy has the contents of its original and each of its fields shows the same
  object, read in the old space while the field is in the list and in the new one
  afterwards;
- `Reached`: whatever set of objects holds the roots and is closed under fields holds
  every object copied.

The first makes each step of the collector a stutter, the second gives what the last
step must not forget, and `Copying` with an empty list what it may.  `StoreInv` was checked
by TLC on the `heap` instance before it was proved.

### The primitives

`ProgramsAssumption`: a program uses inline only what the backend can inline
(`cbackend.c` 184-227), calls only what the runtime defines (`load_dynamic`), passes
values, and starts with a memory the runtime could have made (`WellMade`).
`ArgumentsAssumption`: what it passes is junk, once it has some (`held`), or a value it can
have written: an integer that fits the word, as `make_int` leaves it; and the objects it
starts with hold no junk.  Only `JunkExplained` and `FoldingIsSound` use the latter.

`TypeOK` is not inductive: `car` of a value that claims to be a pair is safe only if the
object has two cells and they hold values.  `PrimsInv` says this of the stack, the
result and every object (`WellMade`), and that a vector's elements that are vectors are
older than it, which is true because `vector-set!` asserts a bytevector and so never
stores a value of the program into a vector.  One lemma for each kind of primitive shows that it leaves a
well-made memory and only adds objects; `PrimGood`, `ApplyGood` and
`CallWithValuesGood` put them together.  `Grows` is the same fact as an action property.

- `ListPIsExact`: the two pointers of `list?` go along the cdrs at speeds one and two.  A
  chain longer than the memory has a pair twice (pigeonhole), so it is periodic from
  there on and the pointers meet; a chain that ends does so before they can.
- `EqualIsEqual`: the recursion of `equal?` goes from a vector to older ones, hence has
  a solution, and that solution is reflexive, symmetric and transitive by
  induction on the age of the vectors.
- `Leftovers`: `<` is the only inlined primitive that returns before it has popped
  all its arguments and lets the program go on; after a call the continuation checks
  that it gets one value and stops the program otherwise.
- `JunkExplained`: the cells left as `malloc` gave them are those of
  vectors and bytevectors made without a fill and of new records, whoever makes them:
  `Worker` finds the primitive that does the work of an `apply` or a
  `call-with-values`.  `JunkInv` adds that no argument left on the stack is junk unless
  `held`, and that no pair holds any, so that `apply` finds none in its list.
- `FoldingIsSound`: for any number of integers and floats, a program gets the same
  number (`eqv?`, so up to the exactness of zero) whether the compiler or the runtime
  computes it, unless the runtime stops with an error, as it does when an integer
  leaves the 32-bit word, begins with arguments left on the stack, or takes the bits of
  its argument (`TakesBits`).  The compiler starts from 0 or 1
  and the runtime from the first argument, so after the same arguments they may hold
  different representations of a number.  `Like` says that two numbers are the same
  fraction; each operation respects it, so the accumulators stay alike (`RunningLike`),
  and a chain of comparisons answers the same for alike numbers (`ChainsAlike`).

### The bytecode machine

For any number of variables, values and upvalue lists over the registers
(`VMAssumption`).  The inductive invariant is

    VMInv == FramesOK /\ LinksOK /\ SavedOK /\ CapturedOK

The first three are types, links between frames and what continuations saved.
`CapturedOK` has the substance.  The list of open upvalues has one for each variable
and leads from younger to older ones; an open upvalue is on the list or an orphan; a
closed one belongs to a frame that was left; a frame that was not left has the latest
values in its registers, and the one closed upvalue of a known variable has its latest
value; an open upvalue of a frame that was left, and not resumed, is an orphan.

`OneVariable` is not inductive because it says nothing of the list: whether a new
capture finds the upvalue that exists depends on the list being complete.  The list
is `Listed`, the least set closed under the links, because a path would need induction
at each use.  The hard lemma is `ClosingShrinks`: closing one variable, even with the
`parent` left over from the round before, gives a list that is part of the old one and
still leads to older upvalues; one that is lost on the way is lost in a round that is
not the first to close something (`RoundLosesNone`), hence `LosingTakesTwo`.

`VMInv` was checked by TLC on the `vm` instance before it was proved.

### Only model-checked

- Liveness (`LoopsEnd`, `Entered`) is out of the prover's reach.
- Everything about `SlyCps` and `SlyExpand`: their operators are recursive, which the
  prover does not support.

## Plan

Done: the dictionary, the heap, strings, the bytecode machine's frames, each with
its proofs; the heap's refinement of `ScmStore`; primitives and constant folding with
their proofs; CPS translation and contraction, the syntax expander.  Next, in this order:

1. Free variables of the CPS graph and emission; interned constants, how the backend
   numbers nested ones and how the runtime links them.
2. `resolve_upval` and register allocation of the bytecode compiler; the lexer and
   parser over token kinds; the exception handler.

## Not modelled

Ports, builtins and the driver are wrappers of C functions with no state of their
own; the Scheme library is programs; printing and disassembly are formatting.
