------------------------------- MODULE SlyVM -------------------------------
(***************************************************************************)
(* Frames, continuations and captured variables of the bytecode machine    *)
(* that runs macros: src/src/sly_vm.c and the upvalues of sly_types.c.     *)
(*                                                                         *)
(* A variable lives in a register of its frame.  A closure that captures   *)
(* it gets an upvalue, which points to the register while it is open; the  *)
(* open upvalues form a list.  When the machine leaves a frame it closes   *)
(* the frame's upvalues: each takes a copy of its register.                *)
(*                                                                         *)
(* Frames, upvalues, closures and continuations are numbered in the order  *)
(* of their creation; 0 stands for a null pointer.  Code is not modelled:  *)
(* whatever frame is running may do any operation next.  The registers are *)
(* those of variables; temporary ones, which no closure captures, are left *)
(* out, and so is a call of a builtin, which only sets one.                *)
(***************************************************************************)
EXTENDS Integers, Sequences, FiniteSets

CONSTANTS
    NVars,      \* the variables of a function: its registers 1 .. NVars
    Value,      \* what a variable may hold
    Defined,    \* the variables of a function that its internal defines make
    Uplists,    \* the registers each function captures, in the order of its uplist
    Unset,      \* SLY_VOID, the first value of a register
    MaxFrames, MaxUpvals, MaxClosures, MaxConts, MaxEvals   \* bounds

ASSUME VMAssumption ==
    /\ Uplists \subseteq Seq(1 .. NVars) /\ Defined \subseteq 1 .. NVars
    /\ NVars \in Nat /\ MaxFrames \in Nat /\ MaxUpvals \in Nat
    /\ MaxClosures \in Nat /\ MaxConts \in Nat /\ MaxEvals \in Nat

VARIABLES
    frames,     \* stack_frame: R, clos, cont and level
    frame,      \* ss->frame
    saved,      \* the ss->frame that each eval_closure in progress will restore
    upvals,     \* upvalue
    open,       \* ss->open_upvals
    closures,   \* the upvalues of each closure
    conts,      \* continuation: its frame, and whether it receives all variables
    reified,    \* the continuations the program holds, by call/cc
    (* history *)
    latest,     \* latest[f][r]: the value last given to variable r of frame f
    left,       \* the frames whose upvalues were closed
    resumed,    \* those that ran again afterwards
    orphans     \* the variables that had an open upvalue off the list

vm == <<frames, frame, saved, upvals, open, closures, conts, reified>>
history == <<latest, left, resumed, orphans>>
vars == <<vm, history>>

Reg == 1 .. NVars

-----------------------------------------------------------------------------
(* Upvalues.  A machine m is a record of the upvalues, the head of the     *)
(* list and the frames.                                                    *)

\* A set of upvalues that a walk along the list from its head does not leave.
Walked(m, S) ==
    /\ m.head # 0 => m.head \in S
    /\ \A u \in S : m.ups[u].next # 0 => m.ups[u].next \in S

\* The members of the list: those that the walk meets.
Listed(m) ==
    LET all == 1 .. Len(m.ups)
    IN {u \in all : \A S \in SUBSET all : Walked(m, S) => u \in S}

\* find_open_upvalue: the upvalue on the list that points to register r of
\* frame f, or 0.
Find(m, f, r) ==
    LET found == {u \in Listed(m) : m.ups[u].open /\ m.ups[u].frame = f /\ m.ups[u].reg = r}
    IN IF found = {} THEN 0 ELSE CHOOSE u \in found : \A v \in found : v <= u

\* (mutant) every capture makes its own upvalue
OpenAlways(m, f, r) ==
    [m EXCEPT !.ups  = Append(@, [open |-> TRUE, frame |-> f, reg |-> r,
                                  val |-> Unset, next |-> m.head]),
              !.head = Len(m.ups) + 1]

\* make_open_upvalue: the machine with an upvalue for register r of frame f.
Open(m, f, r) ==
    IF Find(m, f, r) # 0 THEN m
    ELSE [m EXCEPT !.ups  = Append(@, [open |-> TRUE, frame |-> f, reg |-> r,
                                       val |-> Unset, next |-> m.head]),
                   !.head = Len(m.ups) + 1]

\* The machine with an upvalue for each register in regs, in this order.
OpenAll(m, f, regs) ==
    LET after[i \in 0 .. Len(regs)] == IF i = 0 THEN m ELSE Open(after[i - 1], f, regs[i])
    IN after[Len(regs)]

\* (mutant) the upvalue forgets its register without taking its value
ShutEmpty(uv, fs) == [uv EXCEPT !.open = FALSE, !.next = 0]

\* close_upvalue
Shut(uv, fs) == [uv EXCEPT !.open = FALSE, !.val = fs[uv.frame].R[uv.reg], !.next = 0]

\* (mutant) close_upvalue, which clears `next', is called before the unlinking
CloseOneFirst(m, f, r) ==
    LET uv == Find(m, f, r)
    IN IF uv = 0 THEN m
       ELSE [m EXCEPT !.ups  = [u \in DOMAIN @ |->
                                   IF u = uv THEN Shut(@[u], m.fs)
                                   ELSE IF u \in Listed(m) /\ @[u].next = uv
                                   THEN [@[u] EXCEPT !.next = 0] ELSE @[u]],
                      !.head = IF uv = m.head THEN 0 ELSE @]

\* One round of close_upvalues.  find_open_upvalue sets `parent' only when the
\* upvalue it finds is not the first of the list; otherwise the parent of an
\* earlier round is still there.
CloseOne(m, f, r) ==
    LET uv     == Find(m, f, r)
        parent == IF uv = m.head THEN m.parent
                  ELSE CHOOSE p \in Listed(m) : m.ups[p].next = uv
        ups    == IF parent = 0 THEN m.ups
                  ELSE [m.ups EXCEPT ![parent].next = m.ups[uv].next]
    IN IF uv = 0 THEN m
       ELSE [m EXCEPT !.ups    = [ups EXCEPT ![uv] = Shut(@, m.fs)],
                      !.head   = IF parent = 0 THEN m.ups[uv].next ELSE @,
                      !.parent = parent]

\* close_upvalues
CloseAll(m, f) ==
    LET after[r \in 0 .. NVars] ==
            IF r = 0 THEN [m EXCEPT !.parent = 0] ELSE CloseOne(after[r - 1], f, r)
    IN after[NVars]

\* The machine when the registers are those of the frames fs.
MachineOf(fs) == [ups |-> upvals, head |-> open, parent |-> 0, fs |-> fs]

Machine == MachineOf(frames)

Variable(uv) == <<uv.frame, uv.reg>>

\* The variables whose open upvalue a machine has lost from its list.
Lost(m) == {Variable(m.ups[u]) : u \in {v \in 1 .. Len(m.ups) : m.ups[v].open} \ Listed(m)}

\* The running frame's upvalues were closed; m is the machine afterwards.
Leave(m) ==
    /\ upvals' = m.ups
    /\ open' = m.head
    /\ left' = left \cup {frame}
    /\ orphans' = orphans \cup Lost(m)

-----------------------------------------------------------------------------
(* Operations of the running frame.                                        *)

Running == frame # 0

\* TOP_LEVEL_P
TopLevel(f) == frames[f].level = 0 \/ frames[f].cont = 0

NewFrame(R, clos, cont, level) == [R |-> R, clos |-> clos, cont |-> cont, level |-> level]

\* The upvalues of the running closure.
Upvals == IF Running THEN closures[frames[frame].clos] ELSE {}

\* A local variable is assigned (OP_MOVE, OP_LOADI, ...).
SetReg(r, v) ==
    /\ Running
    /\ frames' = [frames EXCEPT ![frame].R[r] = v]
    /\ latest' = [latest EXCEPT ![frame][r] = v]
    /\ UNCHANGED <<frame, saved, upvals, open, closures, conts, reified, left, resumed, orphans>>

\* OP_SETUPVAL: upvalue_set
SetUpval(u, v) ==
    /\ u \in Upvals
    /\ IF upvals[u].open
       THEN /\ frames' = [frames EXCEPT ![upvals[u].frame].R[upvals[u].reg] = v]
            /\ UNCHANGED upvals
       ELSE upvals' = [upvals EXCEPT ![u].val = v] /\ UNCHANGED frames
    /\ latest' = [latest EXCEPT ![upvals[u].frame][upvals[u].reg] = v]
    /\ UNCHANGED <<frame, saved, open, closures, conts, reified, left, resumed, orphans>>

\* OP_CLOSURE: form_closure, for a function that captures the registers regs
\* and the variables isup that the running closure has captured itself.
FormClosure(regs, isup) ==
    LET m == OpenAll(Machine, frame, regs)
    IN /\ Running
       /\ Len(closures) < MaxClosures /\ Len(m.ups) <= MaxUpvals
       /\ upvals' = m.ups
       /\ open' = m.head
       /\ closures' = Append(closures, {Find(m, frame, regs[i]) : i \in DOMAIN regs} \cup isup)
       /\ UNCHANGED <<frames, frame, saved, conts, reified, history>>

\* The registers of a new frame.
Fresh == [r \in Reg |-> Unset]

Enter(new) ==
    /\ Len(frames) + Len(new) <= MaxFrames
    /\ frames' = frames \o new
    /\ frame' = Len(frames) + Len(new)
    /\ latest' = latest \o [i \in DOMAIN new |-> new[i].R]

\* A continuation of frame f that will write the registers in to: ret_slot, and
\* with values those that follow.
NewCont(f, to) == [frame |-> f, to |-> to]

\* The variables that the result of a call is written to: none if its register
\* is a temporary, one if it is that of an internal define, which is no tail call.
Slots(tail) == IF tail THEN {{}} ELSE {{}} \cup {{r} : r \in Defined}

\* The variables that the arguments of a function are.
Arguments == {1 .. i : i \in 0 .. NVars}

\* A call in tail position replaces the running frame, unless that is at top
\* level.
Replaces(tail) == tail /\ ~TopLevel(frame)

\* The continuation and the level of a frame that is called: those of the frame
\* it replaces, or a new continuation that returns to the running frame.
ContOf(tail) == IF Replaces(tail) THEN frames[frame].cont ELSE Len(conts) + 1

LevelOf(tail) == IF Replaces(tail) THEN frames[frame].level ELSE frames[frame].level + 1

Linked(tail, to) == IF Replaces(tail) THEN conts ELSE Append(conts, NewCont(frame, to))

\* (mutant) the frame that is replaced keeps its upvalues
QuitOpen(tail) ==
    /\ left' = IF Replaces(tail) THEN left \cup {frame} ELSE left
    /\ UNCHANGED <<upvals, open, orphans>>

Quit(tail) ==
    IF Replaces(tail) THEN Leave(CloseAll(Machine, frame))
                      ELSE UNCHANGED <<upvals, open, left, orphans>>

\* A closure is called: OP_CALL, OP_TAILCALL, OP_APPLY, and OP_CALLWCC, which
\* hands out the continuation.
Call(c, tail, callcc, to) ==
    /\ Running
    /\ Len(Linked(tail, to)) <= MaxConts
    /\ conts' = Linked(tail, to)
    /\ Quit(tail)
    /\ Enter(<<NewFrame(Fresh, c, ContOf(tail), LevelOf(tail))>>)
    /\ reified' = IF callcc THEN reified \cup {ContOf(tail)} ELSE reified
    /\ UNCHANGED <<saved, closures, resumed>>

\* OP_CALLWVALUES: the receiver's frame is made first; the producer returns to
\* its start, with the values as its arguments args.
CallWValues(producer, receiver, tail, to, args) ==
    LET values == NewCont(Len(frames) + 1, args) IN
    /\ Running
    /\ Len(Linked(tail, to)) < MaxConts
    /\ conts' = Append(Linked(tail, to), values)
    /\ Quit(tail)
    /\ Enter(<<NewFrame(Fresh, receiver, ContOf(tail), LevelOf(tail)),
               NewFrame(Fresh, producer, Len(conts'), LevelOf(tail) + 1)>>)
    /\ UNCHANGED <<saved, closures, reified, resumed>>

\* The registers R after continuation k received v.
Written(R, k, v) == [r \in Reg |-> IF r \in conts[k].to THEN v ELSE R[r]]

\* The frames after continuation k received v.
Receive(k, v) == [frames EXCEPT ![conts[k].frame].R = Written(@, k, v)]

\* The frame of continuation k runs again, and will return to cont.
Resume(k, cont, v) ==
    LET f == conts[k].frame IN
    /\ frames' = [Receive(k, v) EXCEPT ![f].cont = cont]
    /\ latest' = [latest EXCEPT ![f] = Written(@, k, v)]
    /\ frame' = f
    /\ resumed' = resumed \cup ({f} \cap left')

\* A function returns: it calls its own continuation.  funcall writes the
\* result, closes the upvalues of the running frame, and then does so again.
Return(v) ==
    /\ Running /\ frames[frame].cont # 0
    /\ LET k == frames[frame].cont IN
       /\ Leave(CloseAll(CloseAll(MachineOf(Receive(k, v)), frame), frame))
       /\ Resume(k, frames[conts[k].frame].cont, v)
    /\ UNCHANGED <<saved, closures, conts, reified>>

\* Another continuation is called: its frame will return to the caller, or,
\* from a tail call, to where the caller would have returned.
Throw(k, tail, v, to) ==
    /\ Running /\ k # frames[frame].cont
    /\ Len(Linked(tail, to)) <= MaxConts
    /\ conts' = Linked(tail, to)
    /\ Leave(CloseAll(MachineOf(Receive(k, v)), frame))
    /\ Resume(k, ContOf(tail), v)
    /\ UNCHANGED <<saved, closures, reified>>

\* OP_APPLY of a continuation, which is tail-called from a frame of its own,
\* one without variables: the caller's upvalues are not closed.
ApplyCont(k, tail, v, to) ==
    /\ Running
    /\ Len(Linked(tail, to)) <= MaxConts
    /\ conts' = Linked(tail, to)
    /\ Quit(tail)
    /\ Resume(k, IF k = ContOf(tail) THEN frames[conts[k].frame].cont ELSE ContOf(tail), v)
    /\ UNCHANGED <<saved, closures, reified>>

\* eval_closure: the expander runs a macro, or the program calls eval.
EvalClosure(c) ==
    /\ Len(saved) < MaxEvals
    /\ saved' = Append(saved, frame)
    /\ Enter(<<NewFrame(Fresh, c, 0, 0)>>)
    /\ UNCHANGED <<upvals, open, closures, conts, reified, left, resumed, orphans>>

\* (mutant) eval_closure does not restore the frame
ExitLost ==
    /\ Running /\ TopLevel(frame)
    /\ frame' = 0
    /\ saved' = SubSeq(saved, 1, Len(saved) - 1)
    /\ UNCHANGED <<frames, upvals, open, closures, conts, reified, history>>

\* vm_run returns to eval_closure: OP_EXIT at top level, or a call of the null
\* continuation.
Exit ==
    /\ Running /\ TopLevel(frame)
    /\ frame' = saved[Len(saved)]
    /\ saved' = SubSeq(saved, 1, Len(saved) - 1)
    /\ resumed' = resumed \cup ({frame'} \cap left)
    /\ UNCHANGED <<frames, upvals, open, closures, conts, reified, latest, left, orphans>>

-----------------------------------------------------------------------------
\* eval_closure on the program's entry point.
Init ==
    /\ frames = <<NewFrame(Fresh, 1, 0, 0)>>
    /\ frame = 1
    /\ saved = <<0>>
    /\ upvals = <<>>
    /\ open = 0
    /\ closures = <<{}>>
    /\ conts = <<>>
    /\ reified = {}
    /\ latest = <<Fresh>>
    /\ left = {}
    /\ resumed = {}
    /\ orphans = {}

Next ==
    \/ \E r \in Reg, v \in Value : SetReg(r, v)
    \/ \E u \in DOMAIN upvals, v \in Value : SetUpval(u, v)
    \/ \E regs \in Uplists, isup \in SUBSET Upvals : FormClosure(regs, isup)
    \/ \E v \in Value : Return(v)
    \/ \E tail \in BOOLEAN : \E to \in Slots(tail) :
          \/ \E c \in DOMAIN closures, callcc \in BOOLEAN : Call(c, tail, callcc, to)
          \/ \E p, c \in DOMAIN closures, args \in Arguments : CallWValues(p, c, tail, to, args)
          \/ \E k \in reified, v \in Value : Throw(k, tail, v, to) \/ ApplyCont(k, tail, v, to)
    \/ Exit
    \/ \E c \in DOMAIN closures : EvalClosure(c)

Spec == Init /\ [][Next]_vars

-----------------------------------------------------------------------------
(* Properties.                                                             *)

\* Frames, upvalues, closures and continuations refer to existing ones, and the
\* machine runs exactly while an eval_closure is in progress: the frame that
\* a nested eval restores is the one that called it.
TypeOK ==
    /\ frame \in 0 .. Len(frames)
    /\ Running <=> saved # <<>>
    /\ \A f \in DOMAIN frames :
          /\ frames[f].R \in [Reg -> Value \cup {Unset}]
          /\ frames[f].clos \in DOMAIN closures
          /\ frames[f].cont \in 0 .. Len(conts)
          /\ frames[f].level \in Nat
    /\ \A u \in DOMAIN upvals : upvals[u].next \in 0 .. Len(upvals)
    /\ open \in 0 .. Len(upvals)
    /\ \A c \in DOMAIN closures : closures[c] \subseteq DOMAIN upvals
    /\ \A k \in DOMAIN conts : conts[k].frame \in DOMAIN frames
    /\ reified \subseteq DOMAIN conts

\* upvalue_get
Get(u) == IF upvals[u].open THEN frames[upvals[u].frame].R[upvals[u].reg] ELSE upvals[u].val

\* A captured variable is one variable: each closure that captured it reads
\* the value last assigned to it, by its function or by any other closure,
\* while the function runs and after it has returned.  The exceptions are the
\* variables whose open upvalue was lost from the list, and those of a frame
\* that a continuation resumes after its upvalues were closed.
OneVariable ==
    \A u \in DOMAIN upvals :
        Variable(upvals[u]) \notin orphans /\ upvals[u].frame \notin resumed
            => Get(u) = latest[upvals[u].frame][upvals[u].reg]

\* No closure holds on to the registers of a frame that was left.
ClosedWhenLeft ==
    \A u \in DOMAIN upvals :
        upvals[u].open /\ upvals[u].frame \in left \ resumed
            => Variable(upvals[u]) \in orphans

\* close_upvalues loses an open upvalue only when it leaves a frame with two
\* captured variables or more.
LostOnlyByTwo ==
    [][orphans' # orphans =>
          Cardinality({r \in Reg : Find(Machine, frame, r) # 0}) >= 2]_vars
=============================================================================
