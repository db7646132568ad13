----------------------------- MODULE MCScmPrims -----------------------------
EXTENDS ScmPrims

\* Integers within and near the ends of the word, a float; no more than three
\* arguments, without 0 when there are three; a non-number, and the smallest
\* float.
Numbers == {Integer(0), Integer(2), Integer(-3), Float(1, 2)}

NumberLists == UNION {[1..n -> Numbers] : n \in 0..2} \cup [1..3 -> Numbers \ {Integer(0)}]
               \cup {<<Null>>, <<Integer(2), Null>>, <<Raw(TRUE)>>}

\* The arithmetic the C backend inlines, and what it calls.
NumberOps == {"+", "-", "*", "/", "<"}
NumberCalls == Comparisons

\* Three pairs, two vectors of which one begins the other, two bytevectors,
\* a string.
Obj(t, cells) == [tag |-> t, cells |-> cells]

PairObjects == <<Obj("pair", <<Null, Null>>), Obj("pair", <<Integer(1), <<"pair", 1>> >>),
                 Obj("pair", <<Integer(2), <<"pair", 2>> >>)>>

DataObjects == PairObjects \o
    <<Obj("vector", <<Integer(1)>>), Obj("vector", <<Integer(1), <<"string", 6>> >>),
      Obj("string", <<Char(7)>>), Obj("bytevector", <<Integer(1)>>), Obj("bytevector", <<Integer(2)>>)>>

Pairs == {<<"pair", i>> : i \in 1..4}

\* Lists and vectors, with indices and lengths below zero and, for junk, the
\* places a program can put it.
ListLists == {<<Integer(0)>>, <<<<"pair", 3>>, Integer(-2)>>, <<Integer(1)>>, <<Null>>, <<Integer(2), Integer(1)>>}
             \cup {<<p>> : p \in Pairs}
             \cup {<<<<"pair", i>>, v>> : i \in {1, 3}, v \in {<<"pair", 1>>, <<"pair", 3>>, Integer(1)}}
             \cup {<<<<"proc", n>>, <<"pair", 3>> >> : n \in {"+", "length"}}
             \cup {<<<<"proc", "void">>, <<"proc", n>> >> : n \in {"eq?", "null?"}}

ListOps == {"cons", "cdr", "set-cdr!", "list", "list?", "length", "list-ref",
            "vector-set!", "apply", "call-with-values", "void", "eq?"}

VectorLists == {<<Integer(1)>>, <<Integer(2), Integer(1)>>, <<Integer(1), Integer(1), Null>>,
                <<<<"vector", 9>>, Integer(1)>>, <<<<"vector", 4>>, Integer(0)>>,
                <<<<"vector", 4>>, <<"vector", 9>> >>, <<<<"pair", 1>>, <<"vector", 4>> >>,
                <<<<"bytevector", 9>>, Integer(0), Integer(1)>>, <<<<"record", 9>>, Integer(0), Null>>,
                <<<<"record", 9>> >>, <<<<"record", 9>>, Integer(1)>>,
                <<Integer(-1)>>, <<Integer(-1), Null>>,
                <<Junk>>, <<Junk, Null>>, <<<<"pair", 1>>, Junk>>}
               \cup {<<r>> : r \in {<<"vector", 5>>, <<"bytevector", 7>>, <<"pair", 1>>, Char(7)}}

VectorOps == {"vector", "make-vector", "vector-length", "vector-ref", "bytevector",
              "make-bytevector", "bytevector-length", "bytevector-u8-ref", "bytevector-u8-set!",
              "make-record", "record-ref", "record-set!", "record-meta-ref", "record-meta-set!",
              "eqv?", "equal?", "number?", "char->integer", "integer->char"}

VectorCalls == VectorOps \cup DOMAIN TypeOf
               \cup {"set-car!", "car", "vector-set!", "1+", "1-", "string?", "zero?", "positive?", "negative?"}

\* Numbers, lists, and vectors with everything else.
NumberProgram == [objects |-> <<>>, room |-> 0, primops |-> NumberOps,
                  procedures |-> NumberCalls, arguments |-> NumberLists]
ListProgram == [objects |-> PairObjects, room |-> 4, primops |-> {"cons"},
                procedures |-> ListOps, arguments |-> ListLists]
VectorProgram == [objects |-> DataObjects, room |-> 9, primops |-> {"cons"},
                  procedures |-> VectorCalls, arguments |-> VectorLists]
MCPrograms == [numbers |-> NumberProgram, lists |-> ListProgram, vectors |-> VectorProgram]
MCNumberPrograms == [numbers |-> NumberProgram]
=============================================================================
