----------------------------- MODULE MCScmHeap -----------------------------
(* Instances of ScmHeap for TLC.                                           *)
EXTENDS ScmHeap

\* Lengths for the program's own choice.  The program starts with a pool of 24 words,
\* 14 of them in use: 3 fits, 12 fits after a doubling, 33 is the largest that does,
\* and 34 is one more.
NoLengths == [vector |-> {}, bytevector |-> {}]
SomeLengths == [vector |-> {3}, bytevector |-> {1, 12, 33, 34}]

\* Every heap of a closure, two pairs and a variable's box at the entry of the
\* closure, with one argument: each field and the argument is immediate or
\* refers to any of the objects (a box to no box), so that all shapes of
\* sharing, cycles and garbage among four objects occur (the pairs being alike,
\* the one at 6 is the first that the argument or the closure names).  A program
\* builds any of them with cons, make_box, make_closure, set-car!, set-cdr! and
\* box_set, and drops what it does not pass on.  Only the last collection of a
\* run remains to be done.
Addr == {1, 6, 9, 12}

AnyHeap ==
    \E clos, car1, cdr1, car2, cdr2, arg \in Addr \cup {VOID}, val \in {VOID, 1, 6, 9} :
       /\ arg # 9 /\ (clos = 9 => arg = 6)
       /\ working = [sz |-> 24, idx |-> 14, mem |->
             [a \in Addr |->
                 CASE a = 1  -> Object("closure", 1, <<clos>>, 0)
                   [] a = 6  -> Object("pair", 2, <<car1, cdr1>>, 0)
                   [] a = 9  -> Object("pair", 3, <<car2, cdr2>>, 0)
                   [] a = 12 -> Object("box", 4, <<val>>, 0)]]
       /\ args = <<arg>>
       /\ interned = <<>>
       /\ self = 1
       /\ locals = {}
       /\ free = NoPool
       /\ todo = <<>>
       /\ threshold = 0
       /\ cycles = MaxCycles - 1
       /\ phase = "enter"
       /\ halt = <<>>

\* A run of a program from its start, or a collection from each of these heaps.
MCSpec == (Init \/ AnyHeap) /\ [][Next]_vars /\ WF_vars(Prologue)
=============================================================================
