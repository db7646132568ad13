----------------------------- MODULE SlyExpand -----------------------------
(***************************************************************************)
(* The syntax expander of syntax_expander.c: an identifier is a symbol     *)
(* with a set of scopes, a binding is kept under the identifier that was   *)
(* bound, and an identifier refers to the binding with the most scopes     *)
(* among those whose scopes are all its own.  A step expands one form of   *)
(* a file, begins to load a required file, or finishes one.                *)
(*                                                                         *)
(* Scope sets are values here.  The code changes them in place, but only   *)
(* sets of syntax that nothing else refers to: what a macro returns is     *)
(* copied before its scopes are flipped.  The procedure of a macro is a    *)
(* list of rules, a pattern for match_syntax and a template for            *)
(* construct_syntax of sly_types.c, as syntax-case of the library makes    *)
(* it.  The begin that the parser puts around a file is left out.          *)
(***************************************************************************)
EXTENDS Integers, Sequences, SequencesExt, FiniteSets, TLC

CONSTANT Programs       \* the programs: of each, the forms of every file

VARIABLES
    program,            \* the program that is expanded
    work,               \* the files being expanded, the innermost last
    binds,              \* all_bindings: identifiers to names
    env,                \* names to Variable or to a macro's rules
    provides,           \* *REQUIRED*: of each file seen, what it provides
    out,                \* the expanded files
    n,                  \* gensym_counter
    status              \* "run", "done", or the assertion that failed

vars == <<program, work, binds, env, provides, out, n, status>>

(***************************************************************************)
(* Syntax.  A list has a tail, null unless it is improper.                 *)
(***************************************************************************)
Id(name, sc) == [t |-> "id", name |-> name, sc |-> sc]
Lit(v) == [t |-> "lit", v |-> v]
Nil == [t |-> "nil"]
Rules(lits, clauses) == [t |-> "rules", lits |-> lits, clauses |-> clauses]
Name(b) == [t |-> "name", b |-> b]          \* a resolved identifier

IsId(s) == s.t = "id"
IsPair(s) == s.t = "list"

(* F of x, with x evaluated first.                                         *)
With(x, F(_)) == CHOOSE y \in {F(z) : z \in {x}} : TRUE

Lst(elems, last) ==
    With(elems, LAMBDA kids : With(last, LAMBDA tail :
        IF kids = <<>> THEN tail
        ELSE IF IsPair(tail) THEN [t |-> "list", kids |-> kids \o tail.kids, tail |-> tail.tail]
        ELSE [t |-> "list", kids |-> kids, tail |-> tail]))
Pair(a, d) == Lst(<<a>>, d)
Car(s) == Head(s.kids)
Cdr(l) == With(l, LAMBDA s : Lst(Tail(s.kids), s.tail))
Cadr(s) == Car(Cdr(s))
Cddr(s) == Cdr(Cdr(s))

(* core_form_names: those the programs use.  The primitives among them are *)
(* core forms as well.                                                     *)
CoreForms == {"define", "lambda", "quote", "begin", "if", "set!", "define-syntax",
              "require", "provide", "+", "cons", "display"}
Builtins == {"list"}

CoreScope == 0
Core(name) == <<name, 0>>
Undefined == <<"undefined", 0>>
Ambiguous == <<"ambiguous", 0>>

(* adjust_scope with set_add and set_flip.                                 *)
RECURSIVE AdjustScope(_, _, _)
AdjustScope(op, sc, form) ==
    With(form, LAMBDA s :
        CASE IsId(s) ->
                [s EXCEPT !.sc = IF op = "flip" /\ sc \in @ THEN @ \ {sc} ELSE @ \cup {sc}]
          [] IsPair(s) -> Lst([i \in DOMAIN s.kids |-> AdjustScope(op, sc, s.kids[i])],
                              AdjustScope(op, sc, s.tail))
          [] s.t = "rules" ->
                [s EXCEPT !.clauses = [i \in DOMAIN @ |->
                    [pat |-> AdjustScope(op, sc, @[i].pat), tmpl |-> AdjustScope(op, sc, @[i].tmpl)]]]
          [] OTHER -> s)
AddScope(sc, s) == AdjustScope("add", sc, s)
FlipScope(sc, s) == AdjustScope("flip", sc, s)

(***************************************************************************)
(* Resolution.                                                             *)
(***************************************************************************)
MatchingBindings(b, id) == {c \in DOMAIN b : c.name = id.name /\ c.sc \subseteq id.sc}

GetMaxId(ids) == CHOOSE m \in ids : \A c \in ids : Cardinality(c.sc) <= Cardinality(m.sc)

Unambiguous(m, ids) == \A c \in ids : c.sc \subseteq m.sc

Resolve(b, id) ==
    With(MatchingBindings(b, id), LAMBDA ids :
        IF ids = {} THEN Undefined
        ELSE With(GetMaxId(ids), LAMBDA m : IF Unambiguous(m, ids) THEN b[m] ELSE Ambiguous))

(***************************************************************************)
(* Expansion of a form.  st holds the bindings, the environment and the    *)
(* counter; err is the assertion that failed, after which nothing happens. *)
(***************************************************************************)
Expanded(st, s) == [st |-> st, s |-> s]
Fail(st, why) == Expanded([st EXCEPT !.err = IF @ = "" THEN why ELSE @], Nil)

Variable == [t |-> "variable"]
Gensym(st, id) == <<id.name, st.n>>

(* gensym, add_binding and env_extend for a variable.                      *)
Bind(st, id) ==
    [st EXCEPT !.b = (id :> Gensym(st, id)) @@ @,
               !.env = (Gensym(st, id) :> Variable) @@ @,
               !.n = @ + 1]

(* The parameters of a lambda, the rest parameter last.                    *)
Params(args) == (IF IsPair(args) THEN args.kids ELSE <<>>)
                \o (LET last == IF IsPair(args) THEN args.tail ELSE args
                    IN IF IsId(last) THEN <<last>> ELSE <<>>)

ExpandIdentifier(st, s) ==
    LET b == Resolve(st.b, s) IN
    CASE b = Ambiguous -> Fail(st, "ambiguous")
      [] b[2] = 0 /\ b[1] \in CoreForms -> Fail(st, "core form")
      [] b = Undefined \/ b \in DOMAIN st.env -> Expanded(st, s)
      [] OTHER -> Fail(st, "out of context")

(***************************************************************************)
(* Macros.  A pattern variable has one value (One), a value per repetition *)
(* (Many); the variables under an ellipsis are a Group, kept under "...".  *)
(***************************************************************************)
One(v) == [k |-> "one", v |-> v]
Many(vs) == [k |-> "many", vs |-> vs]
Group(d) == [k |-> "group", d |-> d]
NoVars == [x \in {} |-> One(Nil)]
End == [t |-> "end"]                        \* EXPANSION_END

Ellipsis(s) == IsId(s) /\ s.name = "..."
HasEllipsis(s) == IsPair(Cdr(s)) /\ Ellipsis(Cadr(s))

PvarBind(vals, key, f, repeat) ==
    With(vals, LAMBDA pv :
        LET new == CASE repeat -> Many((IF key \in DOMAIN pv THEN pv[key].vs ELSE <<>>) \o <<f>>)
                     [] ~repeat /\ key = "..." -> Group(IF key \in DOMAIN pv THEN f @@ pv[key].d ELSE f)
                     [] OTHER -> One(f)
        IN (key :> new) @@ pv)

Matched(ok, pv) == [ok |-> ok, pv |-> pv]

RECURSIVE MatchSyntax(_, _, _, _, _), MatchList(_, _, _, _, _), MatchMany(_, _, _, _)
MatchSyntax(pat, lits, form, pv, repeat) ==
    CASE IsId(pat) /\ pat.name \in lits -> Matched(IsId(form) /\ form.name = pat.name, pv)
      [] IsId(pat) /\ pat.name = "_" -> Matched(TRUE, pv)
      [] IsId(pat) /\ pat.name \notin lits \cup {"_"} ->
            Matched(TRUE, PvarBind(pv, pat.name, form, repeat))
      [] OTHER -> MatchList(pat, lits, form, pv, repeat)

(* The forms a repeated pattern takes, and the first it does not: what that *)
(* one bound before it failed stays.                                       *)
MatchMany(pat, lits, form, pv) ==
    IF ~IsPair(form) THEN [pv |-> pv, form |-> form]
    ELSE With(MatchSyntax(pat, lits, Car(form), pv, TRUE), LAMBDA m :
            IF m.ok THEN With(Cdr(form), LAMBDA rest : MatchMany(pat, lits, rest, m.pv))
            ELSE [pv |-> m.pv, form |-> form])

(* The loop of match_syntax.  After an ellipsis the form is advanced once   *)
(* more.  An element that is "_" is bound like a variable.                 *)
MatchList(pat, lits, form, pv, repeat) ==
    IF IsPair(pat) /\ IsPair(form) /\ HasEllipsis(pat)
    THEN With(MatchMany(Car(pat), lits, form, NoVars), LAMBDA many :
            With(IF IsPair(many.form) THEN Cdr(many.form) ELSE many.form, LAMBDA rest :
                With(PvarBind(pv, "...", many.pv, repeat), LAMBDA v :
                    MatchList(Cddr(pat), lits, rest, v, repeat))))
    ELSE IF IsPair(pat) /\ IsPair(form)
    THEN LET p == Car(pat)
             f == Car(form)
             m == CASE IsId(p) /\ p.name = "_" -> Matched(TRUE, PvarBind(pv, "_", f, repeat))
                    [] IsId(p) /\ p.name # "_" -> MatchSyntax(p, lits, f, pv, repeat)
                    [] IsPair(p) -> IF IsPair(f) \/ f = Nil THEN MatchSyntax(p, lits, f, pv, repeat)
                                    ELSE Matched(FALSE, pv)
                    [] OTHER -> Matched(p.t = "nil" => f.t = "nil", pv)
         IN With(m, LAMBDA r : IF ~r.ok THEN r ELSE With(Cdr(form), LAMBDA rest :
                MatchList(Cdr(pat), lits, rest, r.pv, repeat)))
    ELSE IF IsPair(pat) THEN Matched(Len(pat.kids) = 2 /\ HasEllipsis(pat) /\ form.t = "nil", pv)
    ELSE IF IsId(pat) THEN Matched(TRUE, PvarBind(pv, pat.name, form, repeat))
    ELSE Matched(pat.t = "nil" => form.t = "nil", pv)

(* get_pattern_var_names                                                   *)
RECURSIVE PatternVarNames(_, _)
PatternVarNames(pat, lits) ==
    CASE IsId(pat) -> {pat.name} \ (lits \cup {"...", "_"})
      [] IsPair(pat) -> UNION {PatternVarNames(pat.kids[i], lits) : i \in DOMAIN pat.kids}
                            \cup PatternVarNames(pat.tail, lits)
      [] OTHER -> {}

PvarValue(pv, key, idx) ==
    CASE pv[key].k = "one" -> pv[key].v
      [] pv[key].k = "many" -> IF idx < Len(pv[key].vs) THEN pv[key].vs[idx + 1] ELSE End
      [] pv[key].k = "group" -> pv[key].d

RECURSIVE Ended(_)
Ended(s) ==
    s.t = "end" \/ (IsPair(s) /\ (Ended(s.tail) \/ \E i \in DOMAIN s.kids : Ended(s.kids[i])))

(* Is there a group to repeat, with an element number idx?                 *)
Repeats(pv, idx) ==
    "..." \in DOMAIN pv /\ (pv["..."].k = "many" => idx < Len(pv["..."].vs))

RECURSIVE ConstructSyntax(_, _, _, _), Repetitions(_, _, _, _)
ConstructSyntax(template, pv, names, idx) ==
    With(template, LAMBDA tmpl :
        CASE IsId(tmpl) ->
                IF tmpl.name \in DOMAIN pv THEN PvarValue(pv, tmpl.name, idx)
                ELSE IF tmpl.name \in names THEN End ELSE tmpl
          [] IsPair(tmpl) /\ HasEllipsis(tmpl) ->
                Lst(IF Repeats(pv, idx)
                    THEN With(PvarValue(pv, "...", idx) @@ pv, LAMBDA v : Repetitions(Car(tmpl), v, names, 0))
                    ELSE <<>>,
                    ConstructSyntax(Cddr(tmpl), pv, names, idx))
          [] IsPair(tmpl) /\ ~HasEllipsis(tmpl) ->
                Pair(ConstructSyntax(Car(tmpl), pv, names, idx), ConstructSyntax(Cdr(tmpl), pv, names, idx))
          [] OTHER -> tmpl)

Repetitions(tmpl, pv, names, i) ==
    With(ConstructSyntax(tmpl, pv, names, i), LAMBDA x :
        IF Ended(x) THEN <<>> ELSE <<x>> \o Repetitions(tmpl, pv, names, i + 1))

(* The first clause whose pattern matches, or 0.                           *)
Clause(rules, s) ==
    LET ok == {i \in DOMAIN rules.clauses :
                  MatchSyntax(rules.clauses[i].pat, rules.lits, s, NoVars, FALSE).ok}
    IN IF ok = {} THEN 0 ELSE CHOOSE i \in ok : \A j \in ok : i <= j

MacroCall(rules, s) ==
    LET c == rules.clauses[Clause(rules, s)] IN
    With(MatchSyntax(c.pat, rules.lits, s, NoVars, FALSE).pv, LAMBDA pv :
        ConstructSyntax(c.tmpl, pv, PatternVarNames(c.pat, rules.lits), 0))

(* (mutant) what the macro introduces gets no scope of its own             *)
ApplyTransformerBare(st, rules, s) ==
    IF Clause(rules, s) = 0 THEN Fail(st, "invalid syntax")
    ELSE Expanded([st EXCEPT !.n = @ + 1], MacroCall(rules, s))

ApplyTransformer(st, rules, s) ==
    With(AddScope(st.n, s), LAMBDA intro :
        IF Clause(rules, intro) = 0 THEN Fail(st, "invalid syntax")
        ELSE Expanded([st EXCEPT !.n = @ + 1], FlipScope(st.n, MacroCall(rules, intro))))

(***************************************************************************)
(* compile: identifiers are replaced by the names they resolve to.         *)
(***************************************************************************)
RECURSIVE ResolveArgs(_, _)
ResolveArgs(b, args) ==
    CASE IsPair(args) -> Lst([i \in DOMAIN args.kids |-> ResolveArgs(b, args.kids[i])], ResolveArgs(b, args.tail))
      [] IsId(args) -> Name(Resolve(b, args))
      [] OTHER -> args

RECURSIVE Compile(_, _)
Compile(b, form) ==
    With(form, LAMBDA s :
    With(IF IsPair(s) /\ IsId(Car(s)) THEN Resolve(b, Car(s)) ELSE Undefined, LAMBDA head :
        CASE IsId(s) -> Name(Resolve(b, s))
          [] IsPair(s) /\ head = Core("lambda") ->
                Pair(Car(s), Pair(ResolveArgs(b, Cadr(s)), Compile(b, Cddr(s))))
          [] IsPair(s) /\ head = Core("quote") -> s
          [] IsPair(s) /\ head \notin {Core("lambda"), Core("quote")} ->
                Pair(Compile(b, Car(s)), Compile(b, Cdr(s)))
          [] OTHER -> s))

(* The assertion that fails in compile, or none.                           *)
RECURSIVE Names(_)
Names(s) ==
    CASE s.t = "name" -> {s.b}
      [] IsPair(s) -> UNION {Names(s.kids[i]) : i \in DOMAIN s.kids} \cup Names(s.tail)
      [] OTHER -> {}
CompileError(s) ==
    IF Undefined \in Names(s) THEN "undefined" ELSE IF Ambiguous \in Names(s) THEN "ambiguous" ELSE ""

(***************************************************************************)
(* Forms.                                                                  *)
(***************************************************************************)
RECURSIVE Expand(_, _), ExpandApp(_, _), ExpandLambda(_, _), ExpandDefine(_, _),
          ExpandDefineSyntax(_, _), ExpandIdApplication(_, _)

ExpandLambda(st, s) ==
    With(AddScope(st.n, Cadr(s)), LAMBDA ids :
        With(Expand(FoldLeft(Bind, [st EXCEPT !.n = @ + 1], Params(ids)), AddScope(st.n, Cddr(s))), LAMBDA r :
            Expanded(r.st, Pair(Car(s), Pair(ids, r.s)))))

(* The identifier a definition binds, and its right-hand side: a procedure *)
(* is made with a lambda that has the scopes of the define.                *)
Defined(s) == IF IsPair(Cadr(s)) THEN Car(Cadr(s)) ELSE Cadr(s)
DefinedAs(s) ==
    IF IsPair(Cadr(s)) THEN Pair(Id("lambda", Car(s).sc), Pair(Cdr(Cadr(s)), Cddr(s))) ELSE Car(Cddr(s))

ExpandDefine(st, s) ==
    With(Expand(Bind(st, Defined(s)), DefinedAs(s)), LAMBDA r :
        Expanded(r.st, Lst(<<Car(s), Defined(s), r.s>>, Nil)))

ExpandDefineSyntax(st, s) ==
    With(ExpandDefine(st, s), LAMBDA r :
        LET err == CompileError(Compile(r.st.b, Car(Cddr(r.s)))) IN
        IF r.st.err # "" THEN r
        ELSE IF err # "" THEN Fail(r.st, err)
        ELSE Expanded([r.st EXCEPT !.env = (Gensym(st, Defined(s)) :> Car(Cddr(Car(Cddr(r.s))))) @@ @], r.s))

ExpandIdApplication(st, s) ==
    With(Resolve(st.b, Car(s)), LAMBDA b :
        CASE b = Ambiguous -> Fail(st, "ambiguous")
          [] b = Core("lambda") -> ExpandLambda(st, s)
          [] b = Core("define") -> ExpandDefine(st, s)
          [] b = Core("define-syntax") -> ExpandDefineSyntax(st, s)
          [] b = Core("quote") -> Expanded(st, s)
          [] b \in {Core(c) : c \in CoreForms \ {"lambda", "define", "define-syntax", "quote"}} ->
                With(Expand(st, Cdr(s)), LAMBDA r : Expanded(r.st, Pair(Car(s), r.s)))
          [] b \in DOMAIN st.env /\ st.env[b].t = "rules" ->
                With(ApplyTransformer(st, st.env[b], s), LAMBDA r : Expand(r.st, r.s))
          [] OTHER -> ExpandApp(st, s))

(* The car of an improper tail is an assertion that fails.                 *)
ExpandApp(st, s) ==
    IF s.t = "nil" THEN Expanded(st, s)
    ELSE IF ~IsPair(s) THEN Fail(st, "not a pair")
    ELSE With(Expand(st, Car(s)), LAMBDA h :
            With(Cdr(s), LAMBDA rest :
                With(ExpandApp(h.st, rest), LAMBDA r : Expanded(r.st, Pair(h.s, r.s)))))

Expand(state, form) ==
    With(state, LAMBDA st : With(form, LAMBDA s :
        IF st.err # "" THEN Expanded(st, Nil)
        ELSE IF IsId(s) THEN ExpandIdentifier(st, s)
        ELSE IF IsPair(s) /\ IsId(Car(s)) THEN ExpandIdApplication(st, s)
        ELSE IF s.t = "nil" \/ (IsPair(s) /\ s.tail = Nil) THEN ExpandApp(st, s)
        ELSE Expanded(st, s)))

(***************************************************************************)
(* Files.  A require or a provide is a form of its own in a file, not part *)
(* of another form, no file begins with an identifier, and a file provides *)
(* nothing more once a file it requires has looked.                        *)
(***************************************************************************)
Running == status = "run"
Top == Last(work)
Form == Head(Top.todo)
InFile == Running /\ work # <<>> /\ Top.todo # <<>>
FormIs(core) == IsPair(Form) /\ IsId(Car(Form)) /\ Resolve(binds, Car(Form)) = Core(core)

(* The file being expanded goes on to its next form.                       *)
Proceed(done) == work' = Front(work) \o <<[Top EXCEPT !.todo = Tail(@), !.done = @ \o done]>>

Init ==
    /\ program \in Programs
    /\ work = <<>>
    /\ binds = [id \in {Id(c, {CoreScope}) : c \in CoreForms \cup Builtins} |-> Core(id.name)]
    /\ env = [b \in {Core(c) : c \in Builtins} |-> Variable]
    /\ provides = [f \in {} |-> <<>>]
    /\ out = [f \in {} |-> <<>>]
    /\ n = 1
    /\ status = "run"

(* (mutant) a file counts as seen once it provides something               *)
BeginFileLate(file) ==
    /\ work' = Append(work, [file |-> file, done |-> <<>>,
          todo |-> [i \in DOMAIN program[file] |-> AddScope(n, AddScope(CoreScope, program[file][i]))]])
    /\ n' = n + 1
    /\ UNCHANGED <<program, binds, env, provides, out, status>>

(* sly_expand                                                              *)
BeginFile(file) ==
    /\ provides' = (file :> <<>>) @@ provides
    /\ work' = Append(work, [file |-> file, done |-> <<>>,
          todo |-> [i \in DOMAIN program[file] |-> AddScope(n, AddScope(CoreScope, program[file][i]))]])
    /\ n' = n + 1
    /\ UNCHANGED <<program, binds, env, out, status>>

Main == Running /\ work = <<>> /\ BeginFile("main")

ExpandForm ==
    /\ InFile /\ ~FormIs("require") /\ ~FormIs("provide")
    /\ \E r \in {Expand([b |-> binds, env |-> env, n |-> n, err |-> ""], Form)} :
       /\ binds' = r.st.b /\ env' = r.st.env /\ n' = r.st.n
       /\ status' = IF r.st.err = "" THEN "run" ELSE r.st.err
       /\ Proceed(<<r.s>>)
    /\ UNCHANGED <<program, provides, out>>

(* (mutant) a file that provides nothing yet counts as not seen            *)
LoadEmpty ==
    /\ InFile /\ FormIs("require")
    /\ Cadr(Form).v \in DOMAIN provides => provides[Cadr(Form).v] = <<>>
    /\ BeginFile(Cadr(Form).v)

(* expand_require of a file that was not seen yet.                         *)
Load == InFile /\ FormIs("require") /\ Cadr(Form).v \notin DOMAIN provides /\ BeginFile(Cadr(Form).v)

(* (mutant) what is provided is bound in the scopes of the providing file  *)
ImportOneThere(st, id, sc) == [st EXCEPT !.b = (id :> Resolve(@, id)) @@ @]

(* An identifier is resolved among the bindings that those before it made. *)
ImportOne(st, id, sc) ==
    IF st.err # "" THEN st
    ELSE IF Resolve(st.b, id) = Ambiguous THEN [st EXCEPT !.err = "ambiguous"]
    ELSE [st EXCEPT !.b = (Id(id.name, sc) :> Resolve(@, id)) @@ @]

(* expand_require once the file was seen: what it provides by now.         *)
Import ==
    /\ InFile /\ FormIs("require") /\ Cadr(Form).v \in DOMAIN provides
    /\ LET sc  == Car(Form).sc
           ids == provides[Cadr(Form).v]
           r   == FoldLeft(LAMBDA st, id : ImportOne(st, id, sc), [b |-> binds, err |-> ""], ids)
       IN /\ binds' = r.b
          /\ Proceed(<<Lst(<<Id("lambda", sc), Nil, Lst(<<Id("quote", sc), Lst(ids, Nil)>>, Nil)>>, Nil)>>)
          /\ status' = IF r.err = "" THEN "run" ELSE r.err
    /\ UNCHANGED <<program, env, provides, out, n>>

Provide ==
    /\ InFile /\ FormIs("provide")
    /\ provides' = [provides EXCEPT ![Top.file] = @ \o Cdr(Form).kids]
    /\ Proceed(<<>>)
    /\ UNCHANGED <<program, binds, env, out, n, status>>

(* The rest of sly_expand, and of expand_require if the file was required. *)
Finish ==
    /\ Running /\ work # <<>> /\ Top.todo = <<>>
    /\ \E c \in {Compile(binds, Lst(Top.done, Nil))} :
       /\ out' = (Top.file :> c) @@ out
       /\ status' = IF CompileError(c) # "" THEN CompileError(c)
                    ELSE IF Len(work) = 1 THEN "done" ELSE "run"
    /\ work' = Front(work)
    /\ UNCHANGED <<program, binds, env, provides, n>>

Stopped == ~Running /\ UNCHANGED vars

Next == Main \/ ExpandForm \/ Load \/ Import \/ Provide \/ Finish \/ Stopped

Spec == Init /\ [][Next]_vars
=============================================================================
