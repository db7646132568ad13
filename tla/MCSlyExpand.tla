---------------------------- MODULE MCSlyExpand ----------------------------
(* Families of programs for TLC: every choice of the names that could be   *)
(* confused.                                                               *)
EXTENDS SlyHygiene

S(name) == Id(name, {})
L(kids) == Lst(kids, Nil)
Def(x, e) == L(<<S("define"), S(x), e>>)
Lam(x, body) == Lst(<<S("lambda"), L(<<S(x)>>)>>, L(body))
App(f, args) == L(<<f>> \o args)
One1 == Lit("1")

Macro(m, lits, clauses) ==
    L(<<S("define-syntax"), S(m), L(<<S("lambda"), L(<<S("form")>>), Rules(lits, clauses)>>)>>)
On(args, tail, tmpl) == [pat |-> Lst(<<S("_")>> \o args, tail), tmpl |-> tmpl]
Dotted == S("...")

Vars == {"x", "y"}

(* Shadowing by parameters and definitions, without macros: variables have *)
(* the names of variables, of core forms and of builtins.                  *)
Plain ==
    {[main |-> <<Def(a, One1), Lam(b, <<Def(c, S(d)), App(S("list"), <<S(a), S(b), S(c)>>)>>)>>] :
        a \in {"x", "y", "list"}, b \in {"x", "if"}, c \in {"x", "y", "cons"}, d \in {"x", "y", "list"}}

(* A macro that binds a variable of its own and refers to another, used    *)
(* under a binding with a variable of the user.                            *)
Capturing ==
    {[main |-> <<Def(g, One1),
                 Macro("m", {}, <<On(<<S("a")>>, Nil, App(Lam(t, <<App(S("list"), <<S(r), S("a")>>)>>), <<S("a")>>))>>),
                 Lam(u, <<App(S("m"), <<S(v)>>)>>)>>] :
        g \in Vars, t \in Vars, r \in Vars, u \in Vars \cup {"list"}, v \in Vars}

(* A macro that binds the variable it is given, around a body it is given, *)
(* nested, with the names of the core forms shadowed at the use.           *)
Binding ==
    {[main |-> <<Macro("let1", {}, <<On(<<S("v"), S("e"), S("b")>>, Nil, App(Lam(q, <<App(L(<<S("lambda"), L(<<S("v")>>), S("b")>>), <<S(q)>>)>>), <<S("e")>>))>>),
                 Lam(u, <<App(S("let1"), <<S(v), S(u), App(S("let1"), <<S(w), S(v), App(S("list"), <<S(v), S(w), S(u)>>)>>)>>)>>)>>] :
        q \in Vars, u \in {"x", "lambda"}, v \in {"x", "y", "q"}, w \in {"x", "y"}}

(* Repetition: let and or of the library, used on each other.              *)
Let == Macro("let", {}, <<On(<<L(<<L(<<S("v"), S("e")>>), Dotted>>), S("b"), Dotted>>, Nil,
                             App(L(<<S("lambda"), L(<<S("v"), Dotted>>), S("b"), Dotted>>), <<S("e"), Dotted>>))>>)
Or == Macro("or", {}, <<On(<<>>, Nil, Lit("#f")), On(<<S("a")>>, Nil, S("a")),
                        On(<<S("a"), S("b"), Dotted>>, Nil,
                           App(S("let"), <<L(<<L(<<S("t"), S("a")>>)>>),
                                           App(S("if"), <<S("t"), S("t"), App(S("or"), <<S("b"), Dotted>>)>>)>>))>>)
Library ==
    {[main |-> <<Let, Or, App(S("let"), <<L([i \in 1..k |-> L(<<S(names[i]), Lit("1")>>)]),
                                          App(S("or"), [i \in 1..j |-> S(names[i])])>>)>>] :
        names \in {f \in [1..2 -> {"t", "x", "if"}] : f[1] # f[2]}, k \in 2..2, j \in 0..2}

(* Macros defined inside a procedure, where variables of the procedure are *)
(* visible, and used inside a deeper one.                                  *)
Inner ==
    {[main |-> <<Lam(a, <<Macro("m", {}, <<On(<<S("e")>>, Nil, App(S("cons"), <<S(r), S("e")>>))>>),
                          Lam(b, <<App(S("m"), <<S(c)>>)>>)>>)>>] :
        a \in Vars, r \in Vars, b \in Vars \cup {"m", "e", "cons"}, c \in Vars}

(* Macros that define: a variable the user names, one of their own, or     *)
(* another macro.                                                          *)
Defining ==
    {[main |-> <<Macro("def", {}, <<On(<<S("v"), S("e")>>, Nil, Def("v", S("e"))), On(<<S("e")>>, Nil, Def("x", S("e")))>>),
                 f, g, App(S("list"), <<S(u)>>)>>] :
        f \in {App(S("def"), <<S("x"), One1>>), App(S("def"), <<One1>>), Def("x", One1)},
        g \in {App(S("def"), <<S("y"), S("x")>>), App(S("def"), <<S("x")>>), Lam("x", <<App(S("def"), <<S("y"), S("x")>>), S("y")>>)},
        u \in Vars}
    \cup {[main |-> <<Macro("mm", {}, <<On(<<S("k"), S("v")>>, Nil,
                         Macro("k", {}, <<On(<<S("z")>>, Nil, App(Lam(t, <<App(S("list"), <<S("v"), S(t), S("z")>>)>>), <<S("z")>>))>>))>>),
                      Lam(a, <<App(S("mm"), <<S("k"), S(a)>>), Lam(b, <<App(S("k"), <<S(c)>>)>>)>>)>>] :
             t \in Vars, a \in Vars, b \in Vars, c \in Vars}

(* Files that provide a macro and a variable it refers to, and require     *)
(* each other in a circle.                                                 *)
Lib(r) == Macro("m", {}, <<On(<<S("e")>>, Nil, App(S("cons"), <<S(r), S("e")>>))>>)
Req(f) == L(<<S("require"), Lit(f)>>)
Prov(ids) == App(S("provide"), ids)
Modules ==
    {[main |-> <<Req("a"), Def(d, One1), Lam(b, <<App(S("m"), <<S(c)>>)>>)>>,
      a |-> <<Prov(<<S("m")>>), Def("x", One1), Lib("x")>> \o back] :
        d \in Vars, b \in Vars, c \in Vars, back \in {<<>>, <<Req("main")>>}}
    \cup {[main |-> <<Req("a"), Req("b"), Lam(b, <<App(S("m"), <<S(c)>>)>>)>>,
           a |-> <<Req("b"), Prov(<<S("x"), S("m")>>), Lib("y")>>,
           b |-> <<Prov(<<S("y")>>), Prov(ids), Req("a"), Def("x", One1), Def("y", One1)>>] :
             b \in Vars, c \in Vars, ids \in {<<S("x")>>, <<S("y"), S("x")>>}}

(* Two files that both require a third, one that provides something and    *)
(* then one that does not, and provide macros that refer to what it does.  *)
Diamond ==
    {[main |-> <<Req("a"), Req("b"), Lam(v, <<App(S("m"), <<S(v)>>), App(S("k"), <<S("x")>>)>>), Req(again)>>,
      a |-> <<Req("c"), Prov(<<S("m")>>), Lib("x")>>,
      b |-> <<Req("c"), Prov(<<S("k"), S("x")>>),
              Macro("k", {}, <<On(<<S("e")>>, Nil, App(S("list"), <<S(r), S("e")>>))>>)>>,
      c |-> <<Def("x", One1), Def("y", One1)>> \o provided] :
        v \in Vars, again \in {"a", "c"}, r \in {"x", "v"},
        provided \in {<<>>, <<Prov(<<S("x")>>)>>, <<Prov(<<S("x")>>), Prov(<<S("x"), S("y")>>)>>}}

(* Applications with an improper tail: one that does not begin with an     *)
(* identifier is left as it is, and its parameter is not known to compile. *)
Improper ==
    {[main |-> <<Def("x", One1), Lst(<<f, S("x")>>, tail), Def("y", S("x"))>>] :
        f \in {S("list"), Lam("z", <<S("z")>>)}, tail \in {S("x"), One1, Nil}}

(* Rules with a literal, repetition under a repetition, and uses that no   *)
(* rule matches; quoted data is no reference.                              *)
Cond == Macro("cond", {"else"},
              <<On(<<L(<<S("else"), S("e"), Dotted>>)>>, Nil, App(S("begin"), <<S("e"), Dotted>>)),
                On(<<L(<<S("c"), S("e"), Dotted>>), L(<<S("d"), S("f"), Dotted>>), Dotted>>, Nil,
                   App(S("if"), <<S("c"), App(S("begin"), <<S("e"), Dotted>>),
                                  App(S("cond"), <<L(<<S("d"), S("f"), Dotted>>), Dotted>>)>>))>>)
Clauses ==
    {[main |-> <<Cond, Lam(u, <<App(S("cond"), cs)>>)>>] :
        u \in {"x", "begin"},
        cs \in UNION {[1..k -> {L(<<S("x"), One1>>), L(<<S("else"), S("x"), L(<<S("quote"), S("z")>>)>>)}] : k \in 0..3}
               \cup {<<S("x")>>}}

(* Procedures with rest parameters, defined directly and by a macro whose  *)
(* pattern is a dotted list.                                               *)
Procedures ==
    {[main |-> <<Macro("def", {}, <<On(<<Lst(<<S("f")>>, S("args")), S("b")>>, Nil,
                                       L(<<S("define"), S("f"), L(<<S("lambda"), S("args"), S("b")>>)>>))>>),
                 L(<<S(d), Lst(<<S("f"), S(a)>>, r), App(S("list"), <<S("f"), S(a), S(b)>>)>>),
                 L(<<S("set!"), S("f"), v>>)>>] :
        d \in {"define", "def"}, a \in {"x", "f"}, r \in {Nil, S("y")}, b \in Vars, v \in {S("f"), S("if")}}

(* A macro that passes a variable it introduces on to its next use, which  *)
(* introduces one of the same name: all are parameters of one procedure.   *)
Temps == Macro("temps", {},
               <<On(<<L(<<S("d"), Dotted>>), Nil>>, Nil,
                    L(<<S("lambda"), L(<<S("d"), Dotted>>), App(S("list"), <<S("d"), Dotted>>)>>)),
                 On(<<L(<<S("d"), Dotted>>), L(<<S("a"), S("b"), Dotted>>)>>, Nil,
                    App(S("temps"), <<L(<<S("t"), S("d"), Dotted>>), L(<<S("b"), Dotted>>)>>))>>)
Temporaries ==
    {[main |-> <<Temps, App(S("temps"), <<L(ds), L([i \in 1..k |-> One1])>>)>>] :
        ds \in {<<>>, <<S("t")>>, <<S("x"), S("t")>>}, k \in 0..3}

Everything == Plain \cup Capturing \cup Binding \cup Library \cup Inner \cup Defining
                \cup Modules \cup Diamond \cup Improper \cup Clauses \cup Procedures \cup Temporaries
=============================================================================
