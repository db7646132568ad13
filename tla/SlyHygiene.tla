----------------------------- MODULE SlyHygiene -----------------------------
(***************************************************************************)
(* What the expansion of a program should be, and the properties of        *)
(* SlyExpand.  The reference knows no scope sets.  It keeps environments:  *)
(* frames, the innermost first, from identifiers to what they denote.  An  *)
(* identifier has the marks of the macro uses that introduced it, the last *)
(* first; one that is bound in no frame of its environment is looked up    *)
(* without its last mark where that macro was defined.                     *)
(***************************************************************************)
EXTENDS SlyExpand

\* Reference identifiers have a sequence of marks in place of a scope set.
Key(id) == <<id.name, id.sc>>

DenCore(name) == [k |-> "core", b |-> Core(name)]
DenVar(b) == [k |-> "var", b |-> b]
DenMacro(b, rules, e) == [k |-> "macro", b |-> b, rules |-> rules, env |-> e]
DenNone == [k |-> "none", b |-> Undefined]

RECURSIVE Lookup(_, _, _, _)
Lookup(st, e, name, marks) ==
    LET hits == {i \in DOMAIN e : <<name, marks>> \in DOMAIN st.frames[e[i]]} IN
    IF hits # {} THEN st.frames[e[CHOOSE i \in hits : \A j \in hits : i <= j]][<<name, marks>>]
    ELSE IF marks # <<>> THEN Lookup(st, st.defs[Head(marks)], name, Tail(marks))
    ELSE IF name \in CoreForms \cup Builtins THEN DenCore(name) ELSE DenNone

Denotes(st, e, id) == Lookup(st, e, id.name, id.sc)

(* Matching and instantiation.  A variable under an ellipsis stands for a  *)
(* sequence of what it stands for in each repetition.                      *)
Repeated(xs) == [t |-> "repeated", xs |-> xs]

Dots(s, i) == i < Len(s.kids) /\ Ellipsis(s.kids[i + 1])

RECURSIVE Fits(_, _, _), Values(_, _, _)
Fits(p, f, lits) ==
    CASE IsId(p) -> p.name \in lits => IsId(f) /\ f.name = p.name
      [] IsPair(p) /\ Ellipsis(Last(p.kids)) ->
            LET k == Len(p.kids) - 2 IN
            /\ IsPair(f) \/ (k = 0 /\ f.t = "nil")
            /\ IsPair(f) => /\ Len(f.kids) >= k
                            /\ \A i \in DOMAIN f.kids : Fits(IF i <= k THEN p.kids[i] ELSE p.kids[k + 1], f.kids[i], lits)
      [] IsPair(p) /\ ~Ellipsis(Last(p.kids)) ->
            /\ IsPair(f) /\ Len(f.kids) >= Len(p.kids)
            /\ \A i \in DOMAIN p.kids : Fits(p.kids[i], f.kids[i], lits)
            /\ Fits(p.tail, Lst(SubSeq(f.kids, Len(p.kids) + 1, Len(f.kids)), f.tail), lits)
      [] OTHER -> p.t = f.t

Values(p, f, lits) ==
    CASE IsId(p) -> [v \in {p.name} \ (lits \cup {"_"}) |-> f]
      [] IsPair(p) /\ Ellipsis(Last(p.kids)) ->
            LET k == Len(p.kids) - 2
                fs == IF IsPair(f) THEN f.kids ELSE <<>>
            IN With([i \in 1..(Len(fs) - k) |-> Values(p.kids[k + 1], fs[k + i], lits)], LAMBDA more :
               FoldLeft(LAMBDA a, i : Values(p.kids[i], fs[i], lits) @@ a,
                        [v \in PatternVarNames(p.kids[k + 1], lits) |->
                            Repeated([i \in DOMAIN more |-> more[i][v]])],
                        [i \in 1..k |-> i]))
      [] IsPair(p) /\ ~Ellipsis(Last(p.kids)) ->
            FoldLeft(LAMBDA a, i : Values(p.kids[i], f.kids[i], lits) @@ a,
                     Values(p.tail, Lst(SubSeq(f.kids, Len(p.kids) + 1, Len(f.kids)), f.tail), lits),
                     [i \in DOMAIN p.kids |-> i])
      [] OTHER -> [v \in {} |-> f]

\* The template with its own identifiers marked.
RECURSIVE Instance(_, _, _)
Instance(template, values, mark) ==
    With(template, LAMBDA tmpl : With(values, LAMBDA vals :
        CASE IsId(tmpl) -> IF tmpl.name \in DOMAIN vals THEN vals[tmpl.name]
                           ELSE Id(tmpl.name, <<mark>> \o tmpl.sc)
          [] IsPair(tmpl) /\ HasEllipsis(tmpl) ->
                LET own == {v \in PatternVarNames(Car(tmpl), {}) \cap DOMAIN vals : vals[v].t = "repeated"}
                    num == Len(vals[CHOOSE v \in own : TRUE].xs)
                    at(i) == [v \in own |-> vals[v].xs[i]] @@ vals
                IN Lst([i \in 1..num |-> Instance(Car(tmpl), at(i), mark)], Instance(Cddr(tmpl), vals, mark))
          [] IsPair(tmpl) /\ ~HasEllipsis(tmpl) ->
                Pair(Instance(Car(tmpl), vals, mark), Instance(Cdr(tmpl), vals, mark))
          [] OTHER -> tmpl))

(* Expansion.  Identifiers stay in the result with their environment until *)
(* the whole file is expanded: a body may refer to what it defines later.  *)
Occurs(id, e) == [t |-> "ref", id |-> id, env |-> e]

Denote(st, frame, id, den) == [st EXCEPT !.frames[frame] = (Key(id) :> den) @@ @, !.n = @ + 1]
Fresh(st, id) == <<id.name, st.n>>

RECURSIVE RefExpand(_, _, _), RefEach(_, _, _), RefDefine(_, _, _)
RefEach(st, e, s) ==
    IF IsId(s) THEN (IF Denotes(st, e, s) \in {DenCore(c) : c \in CoreForms} THEN Fail(st, "core form")
                     ELSE Expanded(st, Occurs(s, e)))
    ELSE IF ~IsPair(s) THEN Expanded(st, s)
    ELSE IF s.tail # Nil THEN Fail(st, "improper")
    ELSE With(RefExpand(st, e, Car(s)), LAMBDA h :
            With(Cdr(s), LAMBDA d : With(RefEach(h.st, e, d), LAMBDA r : Expanded(r.st, Pair(h.s, r.s)))))

RECURSIVE Placed(_, _)
Placed(args, e) ==
    CASE IsId(args) -> Occurs(args, e)
      [] IsPair(args) -> Lst([i \in DOMAIN args.kids |-> Placed(args.kids[i], e)], Placed(args.tail, e))
      [] OTHER -> args

RefLambda(st, e, args, body) ==
    LET f == Len(st.frames) + 1
        st1 == [st EXCEPT !.frames = Append(@, [x \in {} |-> DenNone])]
        st2 == FoldLeft(LAMBDA a, id : Denote(a, f, id, DenVar(Fresh(a, id))), st1, Params(args))
    IN With(st2, LAMBDA z : With(RefEach(z, <<f>> \o e, body), LAMBDA r :
            Expanded(r.st, Pair(Name(Core("lambda")), Pair(Placed(args, <<f>> \o e), r.s)))))

RefDefine(st, e, s) ==
    LET id == Defined(s)
        st1 == Denote(st, Head(e), id, DenVar(Fresh(st, id)))
        rhs(z) == IF IsPair(Cadr(s)) THEN RefLambda(z, e, Cdr(Cadr(s)), Cddr(s))
                  ELSE RefExpand(z, e, Car(Cddr(s)))
    IN With(With(st1, rhs), LAMBDA r : Expanded(r.st, Lst(<<Occurs(Car(s), e), Occurs(id, e), r.s>>, Nil)))

RefMacro(st, e, den, s) ==
    LET ok == {i \in DOMAIN den.rules.clauses : Fits(den.rules.clauses[i].pat, s, den.rules.lits)}
        c == den.rules.clauses[CHOOSE i \in ok : \A j \in ok : i <= j]
        mark == Len(st.defs) + 1
    IN IF ok = {} THEN Fail(st, "invalid syntax")
       ELSE With(Instance(c.tmpl, Values(c.pat, s, den.rules.lits), mark), LAMBDA x :
                RefExpand([st EXCEPT !.defs = Append(@, den.env)], e, x))

RefExpand(st, e, s) ==
    IF st.err # "" THEN Expanded(st, Nil)
    ELSE IF ~IsPair(s) \/ ~IsId(Car(s)) THEN RefEach(st, e, s)
    ELSE With(Denotes(st, e, Car(s)), LAMBDA den :
         CASE den = DenCore("lambda") -> RefLambda(st, e, Cadr(s), Cddr(s))
           [] den = DenCore("define") -> RefDefine(st, e, s)
           [] den = DenCore("define-syntax") ->
                 With(RefDefine(st, e, s), LAMBDA r :
                     LET old == Denotes(r.st, e, Defined(s)) IN
                     Expanded(Denote(r.st, Head(e), Defined(s), DenMacro(old.b, Car(Cddr(Car(Cddr(r.s)))), e)), r.s))
           [] den = DenCore("quote") -> Expanded(st, Pair(Occurs(Car(s), e), Cdr(s)))
           [] den.k = "macro" -> RefMacro(st, e, den, s)
           [] OTHER -> With(RefEach(st, e, Cdr(s)), LAMBDA r : Expanded(r.st, Pair(Occurs(Car(s), e), r.s))))

(* Files: each has a frame of its own, and provides what an identifier of  *)
(* it denotes when the file is required.                                   *)
RefImport(st, e, ids) ==
    Expanded(FoldLeft(LAMBDA a, x : Denote(a, Head(e), x.id, Denotes(a, x.env, x.id)), st, ids),
             Lst(<<Name(Core("lambda")), Nil,
                   Lst(<<Name(Core("quote")), Lst([i \in DOMAIN ids |-> ids[i].id], Nil)>>, Nil)>>, Nil))

RECURSIVE RefFile(_, _), RefForms(_, _, _, _)
RefForms(st, file, e, forms) ==
    IF forms = <<>> \/ st.err # "" THEN Expanded(st, Nil)
    ELSE LET s == Head(forms)
             den == IF IsPair(s) /\ IsId(Car(s)) THEN Denotes(st, e, Car(s)) ELSE DenNone
             one == CASE den = DenCore("require") ->
                            With(IF Cadr(s).v \in DOMAIN st.seen THEN st ELSE RefFile(st, Cadr(s).v), LAMBDA seen :
                                RefImport(seen, e, seen.seen[Cadr(s).v]))
                      [] den = DenCore("provide") ->
                            Expanded([st EXCEPT !.seen[file] = @ \o
                                [i \in DOMAIN Cdr(s).kids |-> [id |-> Cdr(s).kids[i], env |-> e]]], Nil)
                      [] OTHER -> RefExpand(st, e, s)
         IN With(one, LAMBDA x : With(RefForms(x.st, file, e, Tail(forms)), LAMBDA rest :
                Expanded(rest.st, IF den = DenCore("provide") THEN rest.s ELSE Pair(x.s, rest.s))))

RECURSIVE Resolved(_, _)
Resolved(st, s) ==
    CASE s.t = "ref" -> Name(Denotes(st, s.env, s.id).b)
      [] IsPair(s) -> Lst([i \in DOMAIN s.kids |-> Resolved(st, s.kids[i])], Resolved(st, s.tail))
      [] OTHER -> s

\* Marks are empty in the text of a program.
RECURSIVE Unmarked(_)
Unmarked(s) ==
    CASE IsId(s) -> Id(s.name, <<>>)
      [] IsPair(s) -> Lst([i \in DOMAIN s.kids |-> Unmarked(s.kids[i])], Unmarked(s.tail))
      [] s.t = "rules" -> [s EXCEPT !.clauses = [i \in DOMAIN @ |->
                              [pat |-> Unmarked(@[i].pat), tmpl |-> Unmarked(@[i].tmpl)]]]
      [] OTHER -> s

RefFile(st, file) ==
    LET st1 == [st EXCEPT !.seen = (file :> <<>>) @@ @, !.frames = Append(@, [x \in {} |-> DenNone])]
    IN With(RefForms(st1, file, <<Len(st1.frames)>>,
                     [i \in DOMAIN program[file] |-> Unmarked(program[file][i])]), LAMBDA r :
       With(Resolved(r.st, r.s), LAMBDA res :
            [r.st EXCEPT !.out = (file :> res) @@ @,
                         !.err = IF @ # "" THEN @ ELSE CompileError(res)]))

Reference ==
    RefFile([frames |-> <<>>, defs |-> <<>>, n |-> 1, err |-> "",
             seen |-> [f \in {} |-> <<>>], out |-> [f \in {} |-> Nil]], "main")

(* Two expansions are the same up to the names of variables.               *)
RECURSIVE Leaves(_)
Leaves(s) ==
    CASE IsId(s) -> <<Core(s.name)>>
      [] s.t = "name" -> <<s.b>>
      [] IsPair(s) -> FoldLeft(LAMBDA a, x : a \o Leaves(x), <<Core("(")>>, s.kids)
                        \o Leaves(s.tail) \o <<Core(")")>>
      [] s.t = "lit" -> <<Core(s.v)>>
      [] OTHER -> <<Core(s.t)>>

Alike(x, y) ==
    \E a \in {Leaves(x)}, b \in {Leaves(y)} :
       /\ Len(a) = Len(b)
       /\ \A i \in DOMAIN a : (a[i][2] = 0 \/ b[i][2] = 0) => a[i] = b[i]
       /\ \A i, j \in DOMAIN a : a[i] = a[j] <=> b[i] = b[j]
-----------------------------------------------------------------------------
(* Properties.                                                             *)

\* Every binding is in the core scope and others that exist, its name is in the
\* environment unless it is a core form or undefined, and a file in progress is known.
TypeOK ==
    /\ \A id \in DOMAIN binds :
          /\ id.sc \subseteq 0..(n - 1) /\ CoreScope \in id.sc
          /\ binds[id][2] > 0 => binds[id][2] < n /\ binds[id] \in DOMAIN env
    /\ \A i \in DOMAIN work : work[i].file \in DOMAIN provides

\* Hygiene: an expansion that ends is the one of the reference, up to the
\* names of variables.  No identifier of a macro is captured where the macro
\* is used, and none of the use is captured by what the macro introduces.
Hygienic ==
    status = "done" => \E ref \in {Reference} :
        ref.err = "" /\ \A f \in DOMAIN out : Alike(out[f], ref.out[f])

\* An expansion stops with an error only if the program has one.
ErrorsAreErrors == status \notin {"run", "done"} => Reference.err # ""

\* A file is begun once over the whole run, even if several require it or they
\* require each other in a circle, and it is finished, so evaluated, before those
\* that require it are, unless it is waiting for them to finish itself.
RequiredBy(f) ==
    {Cadr(s).v : s \in {x \in Range(program[f]) : IsPair(x) /\ Car(x) = Id("require", {})}}

EachFileOnce ==
    /\ \A i, j \in DOMAIN work : work[i].file = work[j].file => i = j
    /\ \A i \in DOMAIN work : work[i].file \notin DOMAIN out
    /\ \A f \in DOMAIN out : \A g \in RequiredBy(f) :
          g \in DOMAIN out \/ \E i \in DOMAIN work : work[i].file = g
=============================================================================
