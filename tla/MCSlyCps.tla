--------------------------- MODULE MCSlyCps ---------------------------
(* Families of small programs.  Every bound name of a program is distinct, *)
(* as the expander leaves them.                                            *)
EXTENDS SlyCpsMeaning

N(s) == <<s, 0>>
V(s) == Var(N(s))
K(n) == Const(Number(n))
Op(p, a, b) == Call(<<V(p), a, b>>)
Fn(x, body) == Lambda(<<N(x)>>, NoName, <<body>>)
Show(a) == Call(<<V("display"), a>>)

Consts == {K(1), K(2), Const(False)}
Flat(atoms) == {Op(p, a, b) : p \in {"+", "<", "cons"}, a \in atoms, b \in atoms}

(* Primitives of primitives, and effects in sequence.                      *)
Straight ==
    {Op("+", e, f) : e \in Flat(Consts), f \in Flat({K(1), K(2)})}
        \cup {Begin(<<Show(K(1)), Show(e), b>>) : e \in Flat({K(1), K(2)}), b \in Consts}
        \cup {Op("cons", Show(K(1)), Begin(<<Show(K(2)), e>>)) : e \in Flat({K(1)})}

(* What a procedure of one parameter x may do with it.                     *)
Bodies(x) ==
    {V(x), K(1), Show(V(x))} \cup Flat({V(x), K(2)})
        \cup {If(Op("<", V(x), K(2)), a, b) : a \in {K(1), Fn("z", V(x))},
                                             b \in {K(2), Show(V(x)), Op("cons", V(x), V(x))}}

(* Procedures called on the spot, under a name, twice, handed over, kept.  *)
Direct == {Call(<<Fn("x", b), a>>) : b \in Bodies("x"), a \in {K(1), Op("+", K(1), K(2))}}
Named ==
    {Begin(<<Define(N("f"), Fn("x", b)), e>>) : b \in Bodies("x"),
        e \in {Call(<<V("f"), K(1)>>), Op("+", Call(<<V("f"), K(1)>>), K(1)),
               Op("+", Call(<<V("f"), K(1)>>), Call(<<V("f"), K(2)>>)),
               Show(Call(<<V("f"), K(3)>>)), V("f")}}
Passed ==
    {Begin(<<Define(N("g"), Fn("h", b)), Call(<<V("g"), Fn("x", c)>>)>>) :
        b \in {Call(<<V("h"), K(1)>>), Op("+", Call(<<V("h"), K(1)>>), Call(<<V("h"), K(2)>>))},
        c \in Bodies("x")}
Kept ==
    {Call(<<Call(<<Fn("x", Fn("y", b)), K(1)>>), K(2)>>) :
        b \in Flat({V("x"), V("y")}) \cup {If(Op("<", V("x"), V("y")), V("x"), V("y"))}}
Procedures == Direct \cup Named \cup Passed \cup Kept

(* Conditions that are known, loops, rest parameters, constants by name.   *)
Count == Define(N("c"), Fn("n", If(Op("<", V("n"), K(2)), Call(<<V("c"), Op("+", V("n"), K(1))>>), V("n"))))
Others ==
    {If(t, a, b) : t \in Consts \cup Flat({K(1), K(2)}), a \in {K(1), Show(K(1))}, b \in {K(2), Show(K(2))}}
        \cup {Begin(<<Count, Call(<<V("c"), a>>)>>) : a \in {K(0), K(1), K(2)}}
        \cup {Begin(<<Define(N("a"), K(1)), Define(N("b"), e), Op("+", V("b"), V("a"))>>) :
                e \in {V("a"), Op("+", V("a"), K(1)), K(3)}}
        \cup {Call(<<Lambda(<<N("x")>>, N("r"), <<b>>), K(1), K(2), K(3)>>) :
                b \in {V("r"), V("x"), Call(<<V("car"), V("r")>>)}}

(* Variables assigned after they were read, before they are read again.    *)
Assigned ==
    {Begin(<<Define(N("a"), K(1)), Show(V("a")), Assign(N("a"), K(2)), e>>) :
        e \in {K(3), V("a"), Op("+", V("a"), K(1))}}
        \cup {Begin(<<Define(N("i"), K(1)), Define(N("f"), Lambda(<<>>, NoName, <<Assign(N("i"), e)>>)),
                      Call(<<V("f")>>), Call(<<V("f")>>), Show(V("i"))>>) :
                e \in {K(2), Op("+", V("i"), K(1))}}

(* Pairs told apart, arguments that void drops.                            *)
Pairs ==
    {Op("eq?", Op("cons", K(1), a), Op("cons", K(1), a)) : a \in Consts}
        \cup {Call(<<Fn("x", Op("eq?", V("x"), e)), Op("cons", K(1), a)>>) :
                e \in {V("x"), Op("cons", K(1), K(2))}, a \in Consts}
        \cup {Call(<<V("void"), e>>) : e \in {K(1), Show(K(1)), Op("cons", K(1), Show(K(2)))}}

(* Variables defined in an arm that is dropped, before anything else, after *)
(* something else and beside a procedure or a condition.                   *)
Arm(e) == If(Const(False), Begin(<<Define(N("y"), K(1)), K(1)>>), e)
Dropped ==
    {Arm(K(2)), Begin(<<Show(K(1)), Arm(K(2))>>), Op("+", Arm(K(2)), K(1)),
     Op("cons", Op("+", Arm(K(2)), K(1)), Fn("z", V("z"))), Begin(<<Define(N("a"), K(1)), Op("+", Arm(V("a")), V("a"))>>)}
        \cup {Begin(<<Define(N("g"), Fn("x", b)), Op("+", Call(<<V("g"), K(1)>>), Call(<<V("g"), K(2)>>))>>) :
                b \in {Arm(V("x")), If(V("x"), Arm(K(2)), V("x"))}}

(* Procedures that only they themselves call.                              *)
Defines(f, e) == Define(N(f), Lambda(<<>>, NoName, <<e>>))
Idle ==
    {Begin(<<Defines("f", Call(<<V("f")>>)), K(1)>>),
     Begin(<<Defines("f", Call(<<V("g")>>)), Defines("g", Call(<<V("f")>>)), K(1)>>),
     Begin(<<Defines("f", Call(<<V("f")>>)), If(Const(False), Call(<<V("f")>>), K(1))>>)}

Everything == Straight \cup Procedures \cup Others \cup Assigned \cup Pairs \cup Dropped \cup Idle

(* Procedures whose optional argument is left out.                         *)
RestOmitted ==
    {Call(<<Lambda(<<N("x")>>, N("r"), <<b>>), K(1)>>) : b \in {V("x"), Op("cons", V("x"), V("r"))}}
====
