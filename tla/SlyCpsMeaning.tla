------------------------- MODULE SlyCpsMeaning -------------------------
(***************************************************************************)
(* What a program means and what a graph of continuations means, and the   *)
(* properties that tie the two together through the compiler's passes.     *)
(*                                                                         *)
(* The meaning is [out, vals]: what was written with display, in order,    *)
(* and the values the program ends with; or Wrong, when the program has    *)
(* no meaning (an error, or no end within Fuel steps).  Every variable is  *)
(* a cell of the store, as set! and define need.                           *)
(***************************************************************************)
EXTENDS SlyCps

CONSTANT Fuel           \* evaluation steps before a program counts as endless
ASSUME FuelAssumption == Fuel \in Nat

Wrong == [out |-> <<>>, vals |-> <<<<"wrong">>>>]

Display == <<"display", 0>>       \* the one imported procedure

(* Binds names to values in fresh cells; surplus values are not bound.     *)
Extend(s, env, names, vals) ==
    LET n == IF Len(names) < Len(vals) THEN Len(names) ELSE Len(vals)
    IN  [s |-> [s EXCEPT !.store = @ \o SubSeq(vals, 1, n)],
         env |-> [x \in {names[j] : j \in 1 .. n} |->
                    Len(s.store) + (CHOOSE j \in 1 .. n : names[j] = x)] @@ env]

(* The arguments of a closure as the values of its parameters.             *)
Params(c) == c.req \o (IF c.rest = NoName THEN <<>> ELSE <<c.rest>>)
Fits(c, vals) ==
    IF c.rest = NoName THEN Len(vals) = Len(c.req) ELSE Len(vals) >= Len(c.req)
Actuals(c, vals, by) ==
    IF c.rest = NoName THEN vals
    ELSE Append(SubSeq(vals, 1, Len(c.req)), ListOf(SubSeq(vals, Len(c.req) + 1, Len(vals)), by))

Bound(env, names) == \A j \in DOMAIN names : names[j] \in DOMAIN env
Fetch(s, env, names) == [j \in DOMAIN names |-> s.store[env[names[j]]]]

Global == [s |-> [store |-> <<<<"import", "display">>>>, out |-> <<>>, fuel |-> Fuel],
           env |-> Display :> 1]

(* What makes a pair in the step from s: no two steps have the same fuel.  *)
Step(s) == <<"step", s.fuel>>

(* A procedure is seen only as a procedure, a pair as what is in it.       *)
RECURSIVE Visible(_)
Visible(v) ==
    CASE v[1] \in {"closure", "import"} -> <<"procedure">>
      [] v[1] = "pair" -> <<"pair", Visible(v[2]), Visible(v[3])>>
      [] OTHER -> v

Ends(s, vals) == [out |-> s.out, vals |-> [j \in DOMAIN vals |-> Visible(vals[j])]]

(***************************************************************************)
(* The reference: a direct evaluator.  Scheme leaves the order of operands *)
(* open; this one takes the compiler's, last operand first and variables   *)
(* read at the call.  A result is [s, vals], with s.fuel = 0 when wrong.   *)
(***************************************************************************)
Fail(s) == [s |-> [s EXCEPT !.fuel = 0], vals |-> <<>>]
Burn(s) == [s EXCEPT !.fuel = @ - 1]

RECURSIVE DefinedIn(_)
DefinedIn(f) ==
    CASE f.op = "define" -> <<f.name>>
      [] f.op = "begin" -> FlattenSeq([j \in DOMAIN f.body |-> DefinedIn(f.body[j])])
      [] OTHER -> <<>>

RECURSIVE Eval(_, _, _), EvalUnit(_, _, _), EvalOperands(_, _, _)

(* The operands from the last to the first: [s, names -> values so far].   *)
EvalOperands(s, env, forms) ==
    FoldRight(LAMBDA e, a :
                IF a.s.fuel = 0 THEN a
                ELSE IF e.op = "var" THEN [a EXCEPT !.vals = <<<<"var", e.name>>>> \o @]
                ELSE LET r == Eval(a.s, env, e)
                     IN  IF Len(r.vals) # 1 THEN Fail(r.s)
                         ELSE [s |-> r.s, vals |-> <<<<"val", r.vals[1]>>>> \o a.vals],
              forms, [s |-> s, vals |-> <<>>])

EvalBody(s, env, body) ==
    FoldLeft(LAMBDA a, e : IF a.s.fuel = 0 THEN a ELSE Eval(a.s, env, e),
             [s |-> s, vals |-> <<>>], body)

Eval(s0, env, f) ==
    LET s == Burn(s0)
    IN  IF s0.fuel <= 1 THEN Fail(s0)
        ELSE CASE f.op = "const" -> [s |-> s, vals |-> <<f.value>>]
          [] f.op = "var" ->
                IF Bound(env, <<f.name>>) THEN [s |-> s, vals |-> Fetch(s, env, <<f.name>>)] ELSE Fail(s)
          [] f.op = "lambda" ->
                [s |-> s, vals |-> <<<<"closure", [req |-> f.req, rest |-> f.rest, env |-> env,
                                                   body |-> Begin(f.body)]>>>>]
          [] f.op \in {"define", "set!"} ->
                LET r == Eval(s, env, f.value)
                IN  IF Len(r.vals) # 1 \/ ~Bound(env, <<f.name>>) THEN Fail(r.s)
                    ELSE [s |-> [r.s EXCEPT !.store[env[f.name]] = r.vals[1]], vals |-> <<Void>>]
          [] f.op = "begin" -> EvalBody(s, env, f.body)
          [] f.op = "if" ->
                LET r == Eval(s, env, f.test)
                IN  IF Len(r.vals) # 1 THEN Fail(r.s)
                    ELSE Eval(r.s, env, IF r.vals[1] = False THEN f.else ELSE f.then)
          [] f.op \in {"call", "values"} ->
                LET forms == IF f.op = "call" /\ f.args[1].op = "var" /\ Primop(f.args[1].name)
                             THEN Tail(f.args) ELSE f.args
                    o == EvalOperands(s, env, forms)
                    free == \E j \in DOMAIN o.vals : o.vals[j][1] = "var" /\ o.vals[j][2] \notin DOMAIN env
                    vals == [j \in DOMAIN o.vals |-> IF o.vals[j][1] = "val" THEN o.vals[j][2]
                                                     ELSE o.s.store[env[o.vals[j][2]]]]
                IN  IF o.s.fuel = 0 \/ free THEN Fail(o.s)
                    ELSE IF f.op = "values" THEN [s |-> o.s, vals |-> vals]
                    ELSE IF Len(forms) < Len(f.args)
                    THEN IF Accepts(f.args[1].name[1], vals)
                         THEN [s |-> o.s, vals |-> <<PrimValue(f.args[1].name[1], vals, Step(s))>>] ELSE Fail(o.s)
                    ELSE IF vals[1] = <<"import", "display">> /\ Len(vals) = 2
                    THEN [s |-> [o.s EXCEPT !.out = Append(@, Visible(vals[2]))], vals |-> <<Void>>]
                    ELSE IF vals[1][1] # "closure" THEN Fail(o.s)
                    ELSE LET c == vals[1][2]
                         IN  IF ~Fits(c, Tail(vals)) THEN Fail(o.s)
                             ELSE LET x == Extend(o.s, c.env, Params(c), Actuals(c, Tail(vals), Step(s)))
                                  IN  EvalUnit(x.s, x.env, c.body)

(* A body first makes the variables it defines.                            *)
EvalUnit(s, env, f) ==
    LET names == DefinedIn(f)
        x == Extend(s, env, names, [j \in DOMAIN names |-> Void])
    IN  Eval(x.s, x.env, f)

Meaning(f) ==
    LET r == EvalUnit(Global.s, Global.env, f)
    IN  IF r.s.fuel = 0 THEN Wrong ELSE Ends(r.s, r.vals)

(***************************************************************************)
(* The meaning of a graph: continuation l is given vals; ks is the stack   *)
(* of the continuations of the calls under way.                            *)
(***************************************************************************)
RECURSIVE Go(_, _, _, _, _, _)
Go(g, s0, env, ks, l, vals) ==
    LET s == Burn(s0)
        kont == g[l]
    IN  IF s0.fuel <= 1 THEN Wrong
        ELSE CASE kont.type = "ktail" ->
                IF ks = <<>> THEN Ends(s, vals)
                ELSE IF Len(vals) # 1 THEN Wrong
                ELSE Go(g, s, Head(ks).env, Tail(ks), Head(ks).l, vals)
          [] kont.type = "kreceive" -> Go(g, s, env, ks, kont.k, vals)
          [] kont.type = "kproc" -> Wrong
          [] kont.type = "kargs" ->
                LET x == Extend(s, env, kont.vars, vals)
                    t == kont.term
                    read == IF t.type = "branch" THEN <<t.arg>>
                            ELSE CASE t.expr.type \in {"values", "primcall"} -> t.expr.args
                                   [] t.expr.type = "call" -> <<t.expr.proc>> \o t.expr.args
                                   [] t.expr.type = "set" -> <<t.expr.val, t.expr.var>>
                                   [] OTHER -> <<>>
                    args == Fetch(x.s, x.env, read)
                    pass(v) == Go(g, x.s, x.env, ks, t.k, v)
                IN  IF ~Bound(x.env, read) THEN Wrong
                    ELSE IF t.type = "branch"
                    THEN Go(g, x.s, x.env, ks, IF args[1] = False THEN t.kf ELSE t.kt, <<>>)
                    ELSE CASE t.expr.type = "const" -> pass(<<t.expr.value>>)
                      [] t.expr.type = "values" -> pass(args)
                      [] t.expr.type = "prim" -> pass(<<<<"import", t.expr.name[1]>>>>)
                      [] t.expr.type = "proc" -> pass(<<<<"closure", [k |-> t.expr.k, env |-> x.env]>>>>)
                      [] t.expr.type = "primcall" ->
                            IF Accepts(t.expr.prim[1], args) THEN pass(<<PrimValue(t.expr.prim[1], args, Step(s))>>)
                            ELSE Wrong
                      [] t.expr.type = "set" ->
                            Go(g, [x.s EXCEPT !.store[x.env[t.expr.var]] = args[1]], x.env, ks, t.k, <<Void>>)
                      [] t.expr.type = "fix" ->
                            LET b == Extend(x.s, x.env, t.expr.names, [j \in DOMAIN t.expr.names |-> Void])
                            IN  Go(g, b.s, b.env, ks, t.k, <<>>)
                      [] t.expr.type = "call" ->
                            LET under == IF g[t.k].type = "ktail" THEN ks ELSE <<[l |-> t.k, env |-> x.env]>> \o ks
                            IN  IF args[1] = <<"import", "display">> /\ Len(args) = 2
                                THEN Go(g, [x.s EXCEPT !.out = Append(@, Visible(args[2]))], x.env, ks, t.k, <<Void>>)
                                ELSE IF args[1][1] # "closure" THEN Wrong
                                ELSE LET kproc == g[args[1][2].k]
                                     IN  IF ~Fits(kproc, Tail(args)) THEN Wrong
                                         ELSE Go(g, x.s, args[1][2].env, under, kproc.body,
                                                 Actuals(kproc, Tail(args), Step(s)))

GraphMeaning(u) == IF Closed(u) THEN Go(u.graph, Global.s, Global.env, <<>>, u.k, <<>>) ELSE Wrong

(***************************************************************************)
(* Properties.                                                             *)
(***************************************************************************)
Passes == {"translate", "alias", "fold", "beta", "emit", "aborted"}

(* A unit has its entry, and nothing but continuations, in its graph.     *)
TypeOK ==
    /\ program \in Programs /\ pc \in Passes /\ rounds \in Nat /\ clicked \in BOOLEAN
    /\ unit.n \in Nat /\ unit.k \in DOMAIN unit.graph
    /\ \A l \in DOMAIN unit.graph : unit.graph[l].type \in {"kargs", "kreceive", "kproc", "ktail"}

(* Whatever pass ran last, the graph writes what the program writes, in    *)
(* the same order, and ends with the same values, whenever the program has *)
(* a meaning.                                                              *)
MeaningKept ==
    pc \notin {"translate", "aborted"} /\ Meaning(program) # Wrong
        => GraphMeaning(unit) = Meaning(program)

(* An arm of an if defines a variable.                                     *)
RECURSIVE DefinesInArm(_)
DefinesInArm(f) ==
    CASE f.op \in {"define", "set!"} -> DefinesInArm(f.value)
      [] f.op \in {"begin", "lambda"} -> \E j \in DOMAIN f.body : DefinesInArm(f.body[j])
      [] f.op = "if" -> \/ DefinedIn(f.then) \o DefinedIn(f.else) # <<>>
                        \/ DefinesInArm(f.test) \/ DefinesInArm(f.then) \/ DefinesInArm(f.else)
      [] f.op \in {"call", "values"} -> \E j \in DOMAIN f.args : DefinesInArm(f.args[j])
      [] OTHER -> FALSE

(* No assertion of the compiler fails on a program that has a meaning and  *)
(* does not define a variable in an arm of an if: folding can empty the    *)
(* fix of such a program, and then lose a label.                           *)
NoAbort == pc = "aborted" => Meaning(program) = Wrong \/ DefinesInArm(program)

(* The size of a form: one for it and each form inside it.                 *)
RECURSIVE Size(_)
SizeOf(forms) == FoldLeft(LAMBDA a, f : a + Size(f), 0, forms)
Size(f) ==
    1 + (CASE f.op \in {"define", "set!"} -> Size(f.value)
           [] f.op \in {"begin", "lambda"} -> SizeOf(f.body)
           [] f.op = "if" -> SizeOf(<<f.test, f.then, f.else>>)
           [] f.op \in {"call", "values"} -> SizeOf(f.args)
           [] OTHER -> 0)

(* A call that will be inlined is part of the procedure it calls: the      *)
(* procedure's only use is by itself.                                      *)
CallsItselfOnly(u) ==
    \E i \in {VarInfo(u)} : \E l \in Reachable(u) :
        /\ Inlinable(i, u.graph, l)
        /\ l \in ReachableFrom(u.graph, {i.vis[i.tabs[l][u.graph[l].term.expr.proc]].binding.k})

(* Inlining what is called once makes no program grow, and the rounds come *)
(* to an end; unless a procedure is called by nothing but itself, then it  *)
(* is inlined into itself for ever.                                        *)
RoundsBounded ==
    pc = "alias" /\ rounds > Size(program) + 1 => CallsItselfOnly(unit)
=============================================================================
