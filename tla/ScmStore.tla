------------------------------ MODULE ScmStore ------------------------------
(***************************************************************************)
(* The memory a compiled program believes it has: objects with identities, *)
(* whose fields hold immediate values or identities, and which never move. *)
(* An object is forgotten only when the program cannot reach it.  ScmHeap, *)
(* with its two spaces and its copying collector, implements this.         *)
(***************************************************************************)
EXTENDS Integers, Sequences

CONSTANT Immediate      \* the values that are not references

VARIABLES
    store,      \* store[id]: the tag and the fields of an object
    interned,   \* the table of interned constants
    args,       \* the argument stack
    self,       \* the procedure that is running
    locals      \* the values in the running function's variables

vars == <<store, interned, args, self, locals>>

Values(s) == {s[i] : i \in DOMAIN s}

Held == locals \cup {self} \cup Values(interned) \cup Immediate

Fields(ids) == UNION {Values(store[id].fields) : id \in ids}

\* The values a running function may have after one operation.
Known == Held \cup Fields(Held \cap DOMAIN store)

\* New objects made of known values, of arguments and of each other; the
\* program holds one of them.  The arguments may be used up.
New ==
    LET fresh == DOMAIN store' \ DOMAIN store IN
    /\ UNCHANGED <<interned, self>>
    /\ args' \in {args, <<>>}
    /\ \E v \in fresh \cup Immediate : locals' = locals \cup {v}
    /\ \A id \in DOMAIN store : id \in DOMAIN store' /\ store'[id] = store[id]
    /\ \A id \in fresh : ~store'[id].cont
    /\ \A id \in fresh : Values(store'[id].fields) \subseteq Held \cup Values(args) \cup fresh

Load ==
    /\ UNCHANGED <<interned, args, self, store>>
    /\ \E v \in Known : locals' = locals \cup {v}

SetField ==
    /\ UNCHANGED <<interned, args, self, locals>>
    /\ DOMAIN store' = DOMAIN store
    /\ \E id \in Held \cap DOMAIN store : \E f \in DOMAIN store[id].fields, v \in Known :
          store' = [store EXCEPT ![id].fields[f] = v]

MarkContinuation ==
    /\ UNCHANGED <<interned, args, self, locals>>
    /\ DOMAIN store' = DOMAIN store
    /\ \E id \in Held \cap DOMAIN store :
          store[id].tag = "closure" /\ store' = [store EXCEPT ![id].cont = TRUE]

Push ==
    /\ UNCHANGED <<interned, self, locals>>
    /\ Len(args') = Len(args) + 1
    /\ \E v \in Known : args' = Append(args, v)
    /\ UNCHANGED store

Pop ==
    /\ UNCHANGED <<interned, self>>
    /\ args # <<>>
    /\ args' = SubSeq(args, 1, Len(args) - 1)
    /\ locals' = locals \cup {args[Len(args)]}
    /\ UNCHANGED store

\* A continuation does not get the last argument; nobody gets none.
Call ==
    /\ locals' = {}
    /\ self' \in Known
    /\ LET n == IF self' \in DOMAIN store /\ store[self'].cont THEN 1 ELSE 0
       IN IF Len(args) = n THEN \E v \in Immediate : args' = <<v>>
                           ELSE args' = SubSeq(args, 1, Len(args) - n)
    /\ UNCHANGED <<store, interned>>

\* S holds every object the program can reach.
Covers(S) ==
    /\ (Held \cup Values(args)) \ Immediate \subseteq S
    /\ Fields(S) \ Immediate \subseteq S

\* The objects out of reach are forgotten; what remains is as it was.
Forget ==
    /\ UNCHANGED <<interned, args, self, locals>>
    /\ DOMAIN store' \subseteq DOMAIN store /\ store' # store
    /\ Covers(DOMAIN store')
    /\ \A S \in SUBSET DOMAIN store' : Covers(S) => S = DOMAIN store'
    /\ store' = [id \in DOMAIN store' |-> store[id]]

Init ==
    /\ locals = {}
    /\ Covers(DOMAIN store)

Next == New \/ Load \/ SetField \/ MarkContinuation \/ Push \/ Pop \/ Call \/ Forget

Spec == Init /\ [][Next]_vars
=============================================================================
