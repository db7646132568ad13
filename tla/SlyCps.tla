---------------------------- MODULE SlyCps ----------------------------
(***************************************************************************)
(* The optimising compiler of cps.c: translation of an expanded program    *)
(* into a graph of continuations, and the contraction phase that repeats   *)
(* alias resolution, constant folding and beta contraction until a round   *)
(* changes nothing.  One step of the specification is one whole pass over  *)
(* one program.                                                            *)
(*                                                                         *)
(* A name or label is a pair <<base, number>>: the expander has given      *)
(* every binding of the program a symbol of its own, and gensym pairs a    *)
(* base with its counter.  A dictionary of the compiler is a function.     *)
(* Folding makes a continuation share the term of the one it takes over;   *)
(* "of" says whose.  Every write through a shared term writes the same     *)
(* thing for both, but for the one of alias resolution, which goes by the  *)
(* table of the continuation it is visiting.                               *)
(***************************************************************************)
EXTENDS Integers, Sequences, SequencesExt, FiniteSetsExt, TLC

CONSTANTS
    Programs,           \* the expanded programs that are compiled
    MaxRounds           \* the rounds that are followed

ASSUME MaxRoundsAssumption == MaxRounds \in Nat

VARIABLES
    program,            \* the form being compiled
    pc,                 \* the pass that runs next
    unit,               \* [graph, n (gensym's counter), fix (defined names), k (entry)]
    rounds,             \* rounds of the contraction phase so far
    clicked             \* click: has a pass of this round changed anything?

vars == <<program, pc, unit, rounds, clicked>>

(***************************************************************************)
(* Programs.                                                               *)
(***************************************************************************)
Const(v) == [op |-> "const", value |-> v]
Var(n) == [op |-> "var", name |-> n]
Lambda(req, rest, body) ==
    [op |-> "lambda", req |-> req, rest |-> rest, body |-> body]
If(c, t, f) == [op |-> "if", test |-> c, then |-> t, else |-> f]
Begin(body) == [op |-> "begin", body |-> body]
Define(n, v) == [op |-> "define", name |-> n, value |-> v]
Assign(n, v) == [op |-> "set!", name |-> n, value |-> v]
Call(args) == [op |-> "call", args |-> args]
ValuesOf(args) == [op |-> "values", args |-> args]

NoName == <<"#f", 0>>
Void == <<"void">>
Null == <<"null">>
Number(n) == <<"int", n>>
Bool(b) == <<"bool", b>>
False == Bool(FALSE)

(* primop_p: the names the compiler calls without a closure.               *)
Primop(n) ==
    /\ n[2] = 0
    /\ n[1] \in {"void", "+", "-", "*", "<", "=", "eq?", "cons", "car", "cdr", "list", "vector-ref"}

(***************************************************************************)
(* Continuations, terms and expressions of the graph (cps.h).              *)
(***************************************************************************)
Kargs(names, term) == [type |-> "kargs", vars |-> names, term |-> term, of |-> NoName]
Kreceive(req, k) == [type |-> "kreceive", req |-> req, k |-> k]
Kproc(req, rest, tail, body) ==
    [type |-> "kproc", req |-> req, rest |-> rest, tail |-> tail, body |-> body]
Ktail == [type |-> "ktail"]

Continue(expr, k) == [type |-> "continue", expr |-> expr, k |-> k]
Branch(arg, kt, kf) == [type |-> "branch", arg |-> arg, kt |-> kt, kf |-> kf]

NoExpr == [type |-> "none"]
ConstE(v) == [type |-> "const", value |-> v]
ProcE(k) == [type |-> "proc", k |-> k]
PrimE(n) == [type |-> "prim", name |-> n]
PrimcallE(p, args) == [type |-> "primcall", prim |-> p, args |-> args]
CallE(p, args) == [type |-> "call", proc |-> p, args |-> args]
ValuesE(args) == [type |-> "values", args |-> args]
SetE(n, v) == [type |-> "set", var |-> n, val |-> v]
BoxE == [type |-> "box"]
FixE(names) == [type |-> "fix", names |-> names]     \* every proc of it is a box

(* The continuations a continuation goes on to, the procedure it makes     *)
(* first.                                                                  *)
Successors(kont) ==
    CASE kont.type = "kargs" /\ kont.term.type = "branch" -> <<kont.term.kt, kont.term.kf>>
      [] kont.type = "kargs" /\ kont.term.type = "continue" ->
            (IF kont.term.expr.type = "proc" THEN <<kont.term.expr.k>> ELSE <<>>)
                \o <<kont.term.k>>
      [] kont.type = "kreceive" -> <<kont.k>>
      [] kont.type = "kproc" -> <<kont.body>>
      [] OTHER -> <<>>

RECURSIVE ReachableFrom(_, _)
ReachableFrom(g, seen) ==
    LET more == UNION {ToSet(Successors(g[l])) : l \in seen \cap DOMAIN g} \ seen
    IN  IF more = {} THEN seen ELSE ReachableFrom(g, seen \cup more)
Reachable(u) == ReachableFrom(u.graph, {u.k})

(***************************************************************************)
(* Translation.  u.k is the continuation the form's value goes to, and in  *)
(* the result the continuation that starts the form.                       *)
(***************************************************************************)
Put(u, l, kont) == [u EXCEPT !.graph = (l :> kont) @@ @]
Label(u) == <<"_k", u.n>>
Temp(u) == <<"_t", u.n + 1>>
Fresh(u) == [u EXCEPT !.n = @ + 2]        \* one label and one temporary

(* cps_gensym_label_name, cps_make_kargs and cps_graph_set in one: a new   *)
(* continuation with one fresh variable becomes the entry.                 *)
Prepend(u, term) ==
    [Put(Fresh(u), Label(u), Kargs(<<Temp(u)>>, term)) EXCEPT !.k = Label(u)]

SetVars(u, l, names) == [u EXCEPT !.graph[l].vars = names]

RECURSIVE TranslateForm(_, _), TranslateUnit(_, _)

(* define and set!: the value goes to a continuation that stores it.       *)
TranslateStore(u, f) ==
    LET v == TranslateForm([Fresh(u) EXCEPT !.k = Label(u)], f.value)
        s == Put(v, Label(u), Kargs(<<Temp(u)>>, Continue(SetE(f.name, Temp(u)), u.k)))
    IN  IF f.op = "define" THEN [s EXCEPT !.fix = <<f.name>> \o @] ELSE s

(* The operands of a call or of values: a variable is named as it is; any  *)
(* other operand is computed before the ones translated so far, and is     *)
(* named by the variable of the continuation that was the entry.           *)
Operands(u, forms) ==
    FoldLeft(LAMBDA a, e :
                IF e.op = "var" THEN [a EXCEPT !.names = Append(@, e.name)]
                ELSE LET v == TranslateForm(a.u, e)
                     IN  [u |-> v, names |-> Append(a.names, a.tmp),
                          tmp |-> Head(v.graph[v.k].vars)],
             [u |-> u, names |-> <<>>, tmp |-> Head(u.graph[u.k].vars)], forms)

TranslateValues(u, f) ==
    LET s == Prepend(u, Continue(NoExpr, u.k))
        o == Operands(s, f.args)
    IN  [o.u EXCEPT !.graph[s.k].term.expr = ValuesE(o.names)]

TranslateCall(u, f) ==
    LET back == Prepend(u, Continue(ValuesE(<<Temp(u)>>), u.k))
        recv == [Put(Fresh(back), Label(back), Kreceive(<<Temp(u)>>, back.k))
                    EXCEPT !.k = Label(back)]
        s == Prepend(recv, Continue(NoExpr, recv.k))
        o == Operands(s, f.args)
        proc == Head(o.names)
    IN  [o.u EXCEPT !.graph[s.k].term.expr =
            IF Primop(proc) THEN PrimcallE(proc, Tail(o.names)) ELSE CallE(proc, Tail(o.names))]

TranslateLambda(u, f) ==
    LET tail == <<"#ktail", u.n>>
        kproc == Label(u)
        s == Put(Fresh(u), tail, Ktail)
        b == TranslateUnit([s EXCEPT !.k = tail], Begin(f.body))
        params == f.req \o (IF f.rest = NoName THEN <<>> ELSE <<f.rest>>)
        p == Put(SetVars(b, b.k, params), kproc, Kproc(f.req, f.rest, tail, b.k))
    IN  Prepend([p EXCEPT !.fix = u.fix], Continue(ProcE(kproc), u.k))

TranslateIf(u, f) ==
    LET t == TranslateForm(u, f.then)
        e == TranslateForm([t EXCEPT !.k = u.k], f.else)
        arms == SetVars(SetVars(e, t.k, <<>>), e.k, <<>>)
    IN  TranslateForm(Prepend(arms, Branch(Temp(arms), t.k, e.k)), f.test)

(* _cps_translate                                                          *)
TranslateForm(u, f) ==
    CASE f.op = "const" -> Prepend(u, Continue(ConstE(f.value), u.k))
      [] f.op = "var" ->
            Prepend(u, Continue(IF Primop(f.name) THEN PrimE(f.name) ELSE ValuesE(<<f.name>>), u.k))
      [] f.op \in {"define", "set!"} -> TranslateStore(u, f)
      [] f.op = "values" -> TranslateValues(u, f)
      [] f.op = "call" -> TranslateCall(u, f)
      [] f.op = "lambda" -> TranslateLambda(u, f)
      [] f.op = "if" -> TranslateIf(u, f)
      [] f.op = "begin" -> FoldRight(LAMBDA e, a : TranslateForm(a, e), f.body, u)

(* cps_translate: the variables a body defines are boxes made on entry.    *)
TranslateUnit(u, f) ==
    LET b == TranslateForm([u EXCEPT !.fix = <<>>], f)
    IN  IF b.fix = <<>> THEN b
        ELSE [Put(Fresh(SetVars(b, b.k, b.fix)), Label(b), Kargs(<<>>, Continue(FixE(b.fix), b.k)))
                EXCEPT !.k = Label(b)]

Exit == <<"$tkexit", 0>>
Blank == [graph |-> Exit :> Ktail, n |-> 1, fix |-> <<>>, k |-> Exit]

(***************************************************************************)
(* Variable information.  An information record is an object: the tables   *)
(* of the continuations and the global table hold indices into "vis", and  *)
(* a copied table shares the records of the original.                      *)
(***************************************************************************)
NewInfo == [used |-> 0, escapes |-> 0, updates |-> 0, binding |-> NoExpr,
            isalias |-> FALSE, which |-> 0, alt |-> 0]

(* The record of a name in a table is made if it is absent; the table of   *)
(* the continuation and the global one both get one.                       *)
Hold(vis, tbl, name) ==
    IF name \in DOMAIN tbl THEN [vis |-> vis, tbl |-> tbl]
    ELSE [vis |-> Append(vis, NewInfo), tbl |-> (name :> Len(vis) + 1) @@ tbl]
Entered(i, name) ==
    LET a == Hold(i.vis, i.tbl, name)
        b == Hold(a.vis, i.gvi, name)
    IN  [i EXCEPT !.vis = b.vis, !.tbl = a.tbl, !.gvi = b.tbl]

(* cps_var_def_info, in both tables.                                       *)
Def(i, name, expr, w) ==
    LET e == Entered(i, name)
        def(v) == [v EXCEPT !.binding = expr, !.isalias = (expr.type = "values"), !.which = w]
    IN  [e EXCEPT !.vis[e.tbl[name]] = def(@), !.vis[e.gvi[name]] = def(@)]

(* cps_var_info_inc_used, _updates and _escapes, in both tables.           *)
Tally(i, name, field) ==
    LET e == Entered(i, name)
    IN  [e EXCEPT !.vis[e.tbl[name]][field] = @ + 1, !.vis[e.gvi[name]][field] = @ + 1]

(* A list of names bound by one expression.                                *)
Bind(i, names, expr) ==
    FoldLeft(LAMBDA a, w : Def(a, names[w], expr, w), i, [w \in DOMAIN names |-> w])

Use(i, names) == FoldLeft(LAMBDA a, x : Tally(a, x, "used"), i, names)
Escape(i, names) == FoldLeft(LAMBDA a, x : Tally(a, x, "escapes"), i, names)
Update(i, name) == Tally(i, name, "updates")

(* cps_var_info_visit_expr, with cps_var_info_set_binding before a set:    *)
(* what flows into the continuation is taken for the variable's new value. *)
VisitExpr(i, expr, incoming) ==
    CASE expr.type \in {"primcall", "values"} -> Use(i, expr.args)
      [] expr.type = "call" -> Escape(Use(i, <<expr.proc>> \o expr.args), expr.args)
      [] expr.type = "set" ->
            LET s == IF expr.var \in DOMAIN i.tbl
                     THEN [i EXCEPT !.vis[i.tbl[expr.var]].binding = incoming] ELSE i
            IN  Use(Update(s, expr.var), <<expr.val>>)
      [] expr.type = "fix" -> Bind(i, expr.names, BoxE)
      [] OTHER -> i

RECURSIVE Chain(_, _, _)
(* var_info_cat: the second record ends the first one's chain.             *)
Chain(vis, a, b) ==
    IF a = b THEN vis
    ELSE IF vis[a].alt = 0 THEN [vis EXCEPT ![a].alt = b]
    ELSE Chain(vis, vis[a].alt, b)

(* cps_var_tbl_union                                                       *)
JoinTables(vis, t1, t2) ==
    [tbl |-> t1 @@ t2,
     vis |-> FoldSet(LAMBDA name, a : Chain(a, t1[name], t2[name]), vis, DOMAIN t1 \cap DOMAIN t2)]

(* cps_var_info_propagate                                                  *)
Propagate(vis, state, out) ==
    FoldSet(LAMBDA l, a :
                LET j == JoinTables(a.vis, state[l], out[l])
                IN  [vis |-> j.vis, tabs |-> [a.tabs EXCEPT ![l] = j.tbl]],
            [vis |-> vis, tabs |-> state @@ out], DOMAIN state \cap DOMAIN out)

(* F of x, with x evaluated first.                                         *)
With(x, F(_)) == CHOOSE y \in {F(z) : z \in {x}} : TRUE

(* cps_collect_var_info: "i.tbl" is the table of the continuation that     *)
(* goes on to l with the value of expr.  A continuation two branches go on *)
(* to is visited once for each of them.                                    *)
RECURSIVE Collect(_, _, _, _)
Collect(g, i, expr, l) ==
    LET kont == g[l]
    IN  CASE kont.type = "ktail" -> i
          [] kont.type = "kreceive" -> Collect(g, i, expr, kont.k)
          [] kont.type = "kproc" ->
                With(Bind(i, kont.req \o (IF kont.rest = NoName THEN <<>> ELSE <<kont.rest>>), NoExpr),
                     LAMBDA b : Collect(g, b, NoExpr, kont.body))
          [] kont.type = "kargs" /\ kont.term.type = "continue" ->
                LET e == kont.term.expr
                    b == IF expr.type \in {"none", "fix"} THEN i ELSE Bind(i, kont.vars, expr)
                    v == VisitExpr(b, e, expr)
                    made(here) == IF e.type = "proc" THEN [Collect(g, here, e, e.k) EXCEPT !.tbl = here.tbl]
                                  ELSE here
                IN  With(With([v EXCEPT !.tabs = (l :> v.tbl) @@ @], made),
                         LAMBDA j : Collect(g, j, e, kont.term.k))
          [] kont.type = "kargs" /\ kont.term.type = "branch" ->
                LET b == IF expr.type \in {"none", "fix"} THEN i ELSE Bind(i, kont.vars, expr)
                    v == Use(b, <<kont.term.arg>>)
                    branches(here) ==
                        With(Collect(g, here, NoExpr, kont.term.kt), LAMBDA t :
                        With(Collect(g, [t EXCEPT !.tbl = here.tbl, !.tabs = here.tabs], NoExpr, kont.term.kf),
                             LAMBDA f :
                                LET both == Propagate(f.vis, t.tabs, f.tabs)
                                    all == Propagate(both.vis, here.tabs, both.tabs)
                                IN  [f EXCEPT !.vis = all.vis, !.tabs = all.tabs]))
                IN  With([v EXCEPT !.tabs = (l :> v.tbl) @@ @], branches)

VarInfo(u) ==
    Collect(u.graph, [vis |-> <<>>, gvi |-> <<>>, tbl |-> <<>>, tabs |-> <<>>], NoExpr, u.k)

(* var_is_dead and var_is_used_once, asked of the global table, whose      *)
(* records have no alternatives; cps_get_const of a continuation's table.  *)
Dead(i, name) ==
    /\ name \in DOMAIN i.gvi
    /\ LET v == i.vis[i.gvi[name]] IN v.used + v.escapes + v.updates = 0
UsedOnce(i, name) ==
    /\ name \in DOMAIN i.gvi
    /\ LET v == i.vis[i.gvi[name]] IN v.used = 1 /\ v.escapes = 0
IsConst(i, l, name) ==
    /\ name \in DOMAIN i.tabs[l]
    /\ LET v == i.vis[i.tabs[l][name]]
       IN  v.alt = 0 /\ v.binding.type = "const" /\ v.binding.value # Void
ConstOf(i, l, name) == i.vis[i.tabs[l][name]].binding.value

(***************************************************************************)
(* Alias resolution: cps_get_alias on every name an expression uses.       *)
(***************************************************************************)
Abort == <<"abort", 0>>      \* the assertion "Error expected values" failed

RECURSIVE Alias(_, _, _)
Alias(vis, tbl, name) ==
    IF name \notin DOMAIN tbl \/ ~vis[tbl[name]].isalias THEN name
    ELSE LET v == vis[tbl[name]]
         IN  IF v.binding.type # "values" THEN Abort
             ELSE Alias(vis, tbl, v.binding.args[v.which])

(* The name a substitution puts in the place of another.                   *)
Replace(sub, x) == IF x \in DOMAIN sub THEN sub[x] ELSE x

(* An expression, and a term, with the names it reads, and the name it     *)
(* sets, replaced: cps_map_aliases and cps_alpha_rename_visit_expr.        *)
MapExpr(expr, sub) ==
    LET new(x) == Replace(sub, x)
        all(names) == [j \in DOMAIN names |-> new(names[j])]
    IN  CASE expr.type \in {"values", "primcall"} -> [expr EXCEPT !.args = all(@)]
          [] expr.type = "call" -> [expr EXCEPT !.proc = new(@), !.args = all(@)]
          [] expr.type = "set" -> [expr EXCEPT !.var = new(@), !.val = new(@)]
          [] OTHER -> expr

MapTerm(term, sub) ==
    IF term.type = "branch" THEN [term EXCEPT !.arg = Replace(sub, @)]
    ELSE [term EXCEPT !.expr = MapExpr(@, sub)]

(* The continuation a term was made for, and the continuations that hold   *)
(* the term of l.                                                          *)
Owner(g, l) == IF g[l].of = NoName THEN l ELSE g[l].of
Sharers(g, l) ==
    {m \in DOMAIN g : g[m].type = "kargs" /\ g[m].term = g[l].term /\ Owner(g, m) = Owner(g, l)}

(* cps_opt_resolve_aliases: depth first, a continuation two branches go on *)
(* to once for each, with the labels still to visit.                       *)
RECURSIVE ResolveFrom(_, _, _)
ResolveFrom(g, i, todo) ==
    IF todo = <<>> THEN g
    ELSE LET l == Head(todo)
             term == MapTerm(g[l].term, [x \in DOMAIN i.tabs[l] |-> Alias(i.vis, i.tabs[l], x)])
             new == [m \in Sharers(g, l) |-> [g[m] EXCEPT !.term = term]]
         IN  ResolveFrom(IF g[l].type = "kargs" THEN new @@ g ELSE g, i, Successors(g[l]) \o Tail(todo))

ResolveAliases(u, i) == [u EXCEPT !.graph = ResolveFrom(@, i, <<u.k>>)]

(***************************************************************************)
(* Constant folding.                                                       *)
(***************************************************************************)
Arithmetic == {"+", "-", "*", "<", "="}

Pairwise(op, vals) ==
    Bool(\A j \in 1 .. Len(vals) - 1 :
            IF op = "<" THEN vals[j][2] < vals[j + 1][2] ELSE vals[j][2] = vals[j + 1][2])
SumOf(vals) == FoldLeft(LAMBDA a, v : a + v[2], 0, vals)

(* A pair is its fields and its identity: what made it, and which of the   *)
(* pairs made there it is.  A constant is one pair, however often it is    *)
(* evaluated.                                                              *)
Pair(a, b, by, j) == <<"pair", a, b, <<by, j>>>>
ListOf(vals, by) ==
    FoldRight(LAMBDA j, a : Pair(vals[j], a, by, j), [j \in DOMAIN vals |-> j], Null)

(* The value of a primitive on values it accepts, and those values: the    *)
(* functions prim_... of the compiler.                                     *)
Accepts(op, vals) ==
    CASE op \in Arithmetic -> (op = "-" => vals # <<>>) /\ \A j \in DOMAIN vals : vals[j][1] = "int"
      [] op = "void" -> TRUE
      [] op \in {"cons", "eq?"} -> Len(vals) = 2
      [] op \in {"car", "cdr"} -> Len(vals) = 1 /\ vals[1][1] = "pair"
      [] op = "list" -> TRUE
      [] OTHER -> FALSE
PrimValue(op, vals, by) ==
    CASE op = "void" -> Void
      [] op = "+" -> Number(SumOf(vals))
      [] op = "-" -> Number(IF Len(vals) = 1 THEN 0 - vals[1][2]
                            ELSE vals[1][2] - SumOf(Tail(vals)))
      [] op = "*" -> Number(FoldLeft(LAMBDA a, v : a * v[2], 1, vals))
      [] op \in {"<", "="} -> Pairwise(op, vals)
      [] op = "eq?" -> Bool(vals[1] = vals[2])
      [] op = "cons" -> Pair(vals[1], vals[2], by, 1)
      [] op = "car" -> vals[1][2]
      [] op = "cdr" -> vals[1][3]
      [] op = "list" -> ListOf(vals, by)

(* cps_opt_constant_folding_visit_expr: a primitive whose arguments are    *)
(* all known constants of the right kind becomes its value, void whatever  *)
(* its arguments are.                                                      *)
FoldExpr(i, l, expr) ==
    LET known == /\ expr.type = "primcall"
                 /\ \/ expr.prim[1] = "void"
                    \/ \A j \in DOMAIN expr.args : IsConst(i, l, expr.args[j])
        vals == [j \in DOMAIN expr.args |-> ConstOf(i, l, expr.args[j])]
    IN  IF known
        THEN IF Accepts(expr.prim[1], vals) THEN ConstE(PrimValue(expr.prim[1], vals, l)) ELSE expr
        ELSE expr

(* The assertions on the number of arguments, known or not.                *)
Misapplied(expr) ==
    /\ expr.type = "primcall"
    /\ \/ expr.prim[1] \in {"cons", "eq?"} /\ Len(expr.args) # 2
       \/ expr.prim[1] \in {"car", "cdr"} /\ Len(expr.args) # 1
       \/ expr.prim[1] = "-" /\ expr.args = <<>>

NoSideEffect(expr) == expr.type \in {"const", "proc", "prim", "values"}

(* (mutant) The branches are exchanged.                                    *)
FoldBranchSwapped(i, l, kont) ==
    LET t == kont.term
    IN  IF ~IsConst(i, l, t.arg) THEN kont
        ELSE Kargs(kont.vars, Continue(ValuesE(kont.vars),
                                       IF ConstOf(i, l, t.arg) = False THEN t.kt ELSE t.kf))

(* The branch of a constant condition: its own variables are passed on.    *)
FoldBranch(i, l, kont) ==
    LET t == kont.term
    IN  IF ~IsConst(i, l, t.arg) THEN kont
        ELSE Kargs(kont.vars, Continue(ValuesE(kont.vars),
                                       IF ConstOf(i, l, t.arg) = False THEN t.kf ELSE t.kt))

(* A call whose value is handed to the procedure's own tail.               *)
TailCall(g, kont) ==
    LET next == g[kont.term.k]
    IN  /\ kont.term.expr.type = "call" /\ next.type = "kreceive"
        /\ LET kr == g[next.k]
           IN  /\ kr.type = "kargs" /\ kr.term.type = "continue"
               /\ g[kr.term.k].type = "ktail"
               /\ kr.term.expr = ValuesE(kr.vars)

(* The boxes of a fix that nothing uses are no longer made; a fix without  *)
(* boxes takes over the next continuation's term, but the walk misses the  *)
(* procedure that term may make, and of a branch it takes the variable for *)
(* the label to go on to: either way a label is missing in the new graph.  *)
FoldFix(g, i, l) ==
    LET kont == g[l]
        next == g[kont.term.k]
        kept == SelectSeq(kont.term.expr.names, LAMBDA x : ~Dead(i, x))
        emptied == [kont EXCEPT !.term = next.term]
        fewer == [kont EXCEPT !.term.expr.names = kept]
    IN  IF kont.term.expr.names = <<>>
        THEN [kont |-> emptied, click |-> TRUE, graph |-> [g EXCEPT ![l] = emptied],
              on |-> IF next.term.type = "branch" THEN <<>> ELSE <<next.term.k>>]
        ELSE [kont |-> fewer, click |-> fewer # kont, on |-> <<kont.term.k>>,
              graph |-> [g EXCEPT ![l] = fewer, ![kont.term.k].vars = kept]]

(* What folding makes of one continuation: [kont, click, graph], and the   *)
(* labels the walk goes on to.  A variable nobody reads is dropped with    *)
(* the expression that gives it, by taking over the next continuation's    *)
(* term.                                                                   *)
FoldKont(g, i, l) ==
    LET kont == g[l]
        same == [kont |-> kont, click |-> FALSE, graph |-> g]
        all(f) == f @@ [on |-> Successors(f.kont)]
    IN  IF kont.type # "kargs" THEN all(same)
        ELSE IF kont.term.type = "branch" THEN all([same EXCEPT !.kont = FoldBranch(i, l, kont)])
        ELSE IF kont.term.expr.type = "fix" THEN FoldFix(g, i, l)
        ELSE LET expr == kont.term.expr
                 nk == kont.term.k
                 next == g[nk]
                 folded == FoldExpr(i, l, expr)
                 unread == /\ next.type = "kargs" /\ Len(next.vars) = 1
                           /\ Dead(i, next.vars[1])
             IN  all(IF folded # expr
                 THEN [same EXCEPT !.click = TRUE,
                        !.kont = Kargs(kont.vars, Continue(folded, IF next.type = "kreceive" THEN next.k ELSE nk))]
                 ELSE IF TailCall(g, kont)
                 THEN [same EXCEPT !.click = TRUE, !.kont.term.k = g[next.k].term.k]
                 ELSE IF expr.type = "set" /\ unread
                 THEN [same EXCEPT !.click = TRUE, !.graph[nk].vars = <<>>]
                 ELSE IF NoSideEffect(expr) /\ unread
                 THEN LET taken == [kont EXCEPT !.term = next.term, !.of = Owner(g, nk)]
                      IN  [same EXCEPT !.click = TRUE,
                            !.kont = IF taken.term.type = "branch" THEN FoldBranch(i, l, taken) ELSE taken]
                 ELSE same)

(* cps_opt_constant_folding: depth first, with the labels still to visit;  *)
(* the new graph holds what is visited.  A procedure is visited even if    *)
(* the expression that makes it is dropped.                                *)
RECURSIVE FoldFrom(_, _, _)
FoldFrom(i, a, todo) ==
    IF todo = <<>> THEN a
    ELSE LET l == Head(todo)
             f == FoldKont(a.old, i, l)
             made == SelectSeq(Successors(a.old[l]), LAMBDA m :
                        a.old[m].type = "kproc" /\ ~Contains(f.on, m))
         IN  FoldFrom(i, [old |-> f.graph, new |-> (l :> f.kont) @@ a.new, click |-> a.click \/ f.click],
                      made \o f.on \o Tail(todo))

(* (mutant) The first continuation is not entered in the new graph.        *)
ConstantFoldingHeadless(u, i) ==
    LET f == FoldFrom(i, [old |-> u.graph, new |-> <<>>, click |-> FALSE], <<u.k>>)
    IN  [unit |-> [u EXCEPT !.graph = [l \in DOMAIN f.new \ {u.k} |-> f.new[l]]], click |-> f.click]

ConstantFolding(u, i) ==
    LET f == FoldFrom(i, [old |-> u.graph, new |-> <<>>, click |-> FALSE], <<u.k>>)
    IN  [unit |-> [u EXCEPT !.graph = f.new], click |-> f.click]

(***************************************************************************)
(* Beta contraction.                                                       *)
(***************************************************************************)

(* cps_alpha_rename: a copy of the continuations from u.k on, procedures   *)
(* included, with fresh labels and fresh names for the variables they      *)
(* bind; "sub" is the dictionary of replacements, filled on the way.  The  *)
(* names in a procedure's own arity are left as they are.  A copy of a fix *)
(* takes its boxes for procedures and stops at "Error label not set".      *)
RenameVars(a, names) ==
    FoldLeft(LAMBDA b, x : IF x \in DOMAIN b.sub THEN b
                           ELSE [b EXCEPT !.sub = (x :> Temp(b.u)) @@ @, !.u = Fresh(@)],
             a, names)

RECURSIVE AlphaRename(_, _)
AlphaRename(a, l) ==
    LET kont == a.u.graph[l]
        copy == Label(a.u)
        b == [a EXCEPT !.u = Fresh(@)]
        follow(c, m) == AlphaRename(c, m)
        done(c, new) == [c EXCEPT !.u = Put(@, copy, new), !.l = copy]
    IN  CASE kont.type = "ktail" -> [a EXCEPT !.l = l]
          [] kont.type = "kreceive" ->
                LET c == follow(b, kont.k) IN done(c, [kont EXCEPT !.k = c.l])
          [] kont.type = "kproc" ->
                LET c == follow(b, kont.body) IN done(c, [kont EXCEPT !.body = c.l])
          [] kont.type = "kargs" /\ kont.term.type = "branch" ->
                LET r == RenameVars(b, kont.vars)
                    t == follow(r, kont.term.kt)
                    f == follow(t, kont.term.kf)
                    new(x) == Replace(r.sub, x)
                IN  done(f, Kargs([j \in DOMAIN kont.vars |-> new(kont.vars[j])],
                                  Branch(new(kont.term.arg), t.l, f.l)))
          [] kont.type = "kargs" /\ kont.term.type = "continue" ->
                LET r == RenameVars(b, kont.vars)
                    new(x) == Replace(r.sub, x)
                    expr == kont.term.expr
                    p == IF expr.type = "proc" THEN follow(r, expr.k) ELSE r
                    c == follow(p, kont.term.k)
                    e == IF expr.type = "proc" THEN ProcE(p.l) ELSE MapExpr(expr, r.sub)
                IN  [done(c, Kargs([j \in DOMAIN kont.vars |-> new(kont.vars[j])], Continue(e, c.l)))
                        EXCEPT !.stop = @ \/ expr.type = "fix"]

(* replace_ktails: the copy returns to the caller's continuation.          *)
ReplaceTails(g, tail, k, body) ==
    LET new(l) == IF l = tail THEN k ELSE l
        onward(kont) == CASE kont.type = "kreceive" -> {kont.k}
                          [] kont.type = "kargs" -> ToSet(Successors([kont EXCEPT !.term =
                                IF @.type = "branch" THEN @ ELSE Continue(NoExpr, @.k)]))
                          [] OTHER -> {}
        RECURSIVE from(_)
        from(seen) == LET more == UNION {onward(g[l]) : l \in seen} \ seen
                      IN  IF more = {} THEN seen ELSE from(seen \cup more)
        copies == from({body})
    IN  [l \in DOMAIN g |->
            IF l \notin copies THEN g[l]
            ELSE CASE g[l].type = "kreceive" -> [g[l] EXCEPT !.k = new(@)]
                   [] g[l].type = "kargs" /\ g[l].term.type = "continue" ->
                        [g[l] EXCEPT !.term.k = new(@)]
                   [] g[l].type = "kargs" /\ g[l].term.type = "branch" ->
                        [g[l] EXCEPT !.term.kt = new(@), !.term.kf = new(@)]
                   [] OTHER -> g[l]]

(* bind_args_to_k: from continuation l, one continuation for every         *)
(* required parameter and one for the rest parameter, the last of which    *)
(* goes on with the term of the body.  With no argument left for the rest  *)
(* parameter its continuation is never entered in the graph.  Arguments    *)
(* beyond the parameters are dropped.                                      *)
RECURSIVE BindArgs(_, _, _, _, _, _)
BindArgs(u, l, term, args, params, hasrest) ==
    LET more(expr) == [Fresh(u) EXCEPT !.graph[l] = Kargs(@.vars, Continue(expr, Label(u)))]
        kont(t) == Kargs(<<Head(params)>>, t)
        required == Len(params) - (IF hasrest THEN 1 ELSE 0)
    IN  IF required > 0
        THEN BindArgs(Put(more(ValuesE(<<Head(args)>>)), Label(u), kont(term)), Label(u), term,
                      Tail(args), Tail(params), hasrest)
        ELSE IF ~hasrest THEN [u EXCEPT !.graph[l] = Kargs(@.vars, term)]
        ELSE IF args = <<>> THEN more(ConstE(Null))
        ELSE Put(more(PrimcallE(<<"list", 0>>, args)), Label(u), kont(term))

(* (mutant) A call with exactly the required arguments fails the assertion. *)
ArityMismatchStrict(args, kproc) == Len(args) <= Len(kproc.req)

ArityMismatch(args, kproc) == Len(args) < Len(kproc.req)

(* cps_inline_kproc at the call of continuation l.                         *)
InlineKproc(u, l, kproc) ==
    LET call == u.graph[l].term
        kk == IF u.graph[call.k].type = "kreceive" THEN u.graph[call.k].k ELSE call.k
        bound(copy) ==
            With(ReplaceTails(copy.u.graph, kproc.tail, kk, copy.l), LAMBDA g :
                 BindArgs([copy.u EXCEPT !.graph = [g EXCEPT ![copy.l].vars = <<>>]],
                          l, g[copy.l].term, call.expr.args, g[copy.l].vars, kproc.rest # NoName))
    IN  With(AlphaRename([u |-> u, sub |-> <<>>, l |-> l, stop |-> FALSE], kproc.body), LAMBDA copy :
            IF copy.stop \/ ArityMismatch(call.expr.args, kproc) THEN [unit |-> u, stop |-> TRUE]
            ELSE [unit |-> bound(copy), stop |-> FALSE])

(* cps_opt_beta_contraction: depth first; a call of a variable bound to a  *)
(* procedure and used nowhere else is replaced by the procedure's body,    *)
(* and the walk does not go on behind it.                                  *)
Inlinable(i, g, l) ==
    /\ g[l].type = "kargs" /\ g[l].term.type = "continue" /\ g[l].term.expr.type = "call"
    /\ LET proc == g[l].term.expr.proc
       IN  /\ i.vis[i.tabs[l][proc]].binding.type = "proc"
           /\ UsedOnce(i, proc)

RECURSIVE BetaFrom(_, _, _)
BetaFrom(i, a, todo) ==
    IF todo = <<>> \/ a.stop THEN a
    ELSE LET g == a.unit.graph
             l == Head(todo)
         IN  IF Inlinable(i, g, l)
             THEN With(InlineKproc(a.unit, l, g[i.vis[i.tabs[l][g[l].term.expr.proc]].binding.k]), LAMBDA inl :
                       BetaFrom(i, [unit |-> inl.unit, stop |-> inl.stop, click |-> TRUE,
                                    seen |-> DOMAIN inl.unit.graph], Tail(todo)))
             ELSE BetaFrom(i, [a EXCEPT !.seen = @ \cup {l}], Successors(g[l]) \o Tail(todo))

BetaContraction(u, i) ==
    LET b == BetaFrom(i, [unit |-> u, seen |-> {}, click |-> FALSE, stop |-> FALSE], <<u.k>>)
    IN  [b EXCEPT !.unit.graph = [l \in b.seen \cap DOMAIN @ |-> @[l]]]

(***************************************************************************)
(* The compiler.                                                           *)
(***************************************************************************)

(* Every label a pass follows is set: cps_graph_ref.                       *)
Closed(u) == Reachable(u) \subseteq DOMAIN u.graph

(* No name of the graph is the result of a failed assertion.               *)
Sound(u) ==
    \A l \in DOMAIN u.graph :
        u.graph[l].type = "kargs" =>
            u.graph[l].term = MapTerm(u.graph[l].term, Abort :> NoName)

Init ==
    /\ program \in Programs
    /\ pc = "translate" /\ unit = Blank
    /\ rounds = 0 /\ clicked = FALSE

(* compile_form up to the contraction phase.                               *)
Translate ==
    /\ pc = "translate" /\ pc' = "alias"
    /\ unit' = TranslateUnit(Blank, program)
    /\ rounds' = 1
    /\ UNCHANGED <<program, clicked>>

(* One round of cps_opt_contraction_phase in three passes, each after a    *)
(* fresh collection of the variables' information.                         *)
Resolve ==
    /\ pc = "alias"
    /\ IF ~Closed(unit) THEN pc' = "aborted" /\ UNCHANGED unit
       ELSE \E i \in {VarInfo(unit)} :
            /\ unit' = ResolveAliases(unit, i)
            /\ pc' = IF Sound(unit') THEN "fold" ELSE "aborted"
    /\ UNCHANGED <<program, rounds, clicked>>

Fold ==
    /\ pc = "fold"
    /\ \E i \in {VarInfo(unit)} : \E f \in {ConstantFolding(unit, i)} :
            /\ unit' = f.unit /\ clicked' = (clicked \/ f.click)
            /\ pc' = IF \/ ~Closed(f.unit)
                         \/ \E l \in DOMAIN f.unit.graph :
                               LET kont == f.unit.graph[l]
                               IN  kont.type = "kargs" /\ kont.term.type = "continue" /\ Misapplied(kont.term.expr)
                      THEN "aborted" ELSE "beta"
    /\ UNCHANGED <<program, rounds>>

(* (mutant) The click is not reset.                                        *)
BetaNoReset ==
    /\ pc = "beta" /\ rounds < MaxRounds
    /\ \E i \in {VarInfo(unit)} : \E b \in {BetaContraction(unit, i)} :
            /\ unit' = b.unit
            /\ pc' = IF b.stop THEN "aborted" ELSE IF clicked \/ b.click THEN "alias" ELSE "emit"
            /\ rounds' = rounds + (IF clicked \/ b.click THEN 1 ELSE 0)
            /\ clicked' = (clicked \/ b.click)
    /\ UNCHANGED program

(* do ... while (CLICK_RESET())                                            *)
Beta ==
    /\ pc = "beta" /\ rounds < MaxRounds
    /\ \E i \in {VarInfo(unit)} : \E b \in {BetaContraction(unit, i)} :
            /\ unit' = b.unit
            /\ pc' = IF b.stop THEN "aborted" ELSE IF clicked \/ b.click THEN "alias" ELSE "emit"
            /\ rounds' = rounds + (IF clicked \/ b.click THEN 1 ELSE 0)
    /\ clicked' = FALSE
    /\ UNCHANGED program

Next == Translate \/ Resolve \/ Fold \/ Beta

Spec == Init /\ [][Next]_vars
=============================================================================
