------------------------------ MODULE SlyDict ------------------------------
(***************************************************************************)
(* The dictionary of src/src/sly_types.c: an open-addressing hash table    *)
(* kept in a vector, probed linearly from the home slot of the key to the  *)
(* end of the vector and then from its start, with removed entries left    *)
(* behind as pairs whose key is null.  Scope sets, symbol tables, module   *)
(* environments and every CPS graph are dictionaries.                      *)
(*                                                                         *)
(* dictionary_set, dictionary_remove and dictionary_ref are one step each; *)
(* the loops (dict_resize, copy_dictionary, dictionary_import,             *)
(* dictionary_union) take one step per slot they visit, so that what holds *)
(* between two iterations can be stated.  Nothing else runs during a loop. *)
(***************************************************************************)
EXTENDS Integers, FiniteSets

CONSTANTS
    Key,        \* the keys, up to sly_equal
    Value,      \* the values
    Hash,       \* Hash[k]: sly_hash(k)
    Dict,       \* the program's dictionary variables
    InitCap,    \* DICT_INIT_SIZE
    NULL        \* SLY_NULL, and "no such thing"

ASSUME ConstantsAssumption ==
    /\ InitCap \in Nat /\ InitCap >= 4
    /\ Hash \in [Key -> Nat]

ASSUME NullAssumption ==
    /\ NULL \notin Key
    /\ NULL \notin Value
    /\ NULL \notin [key : Key \cup {NULL}, val : Value \cup {NULL}]
    /\ NULL \notin Dict

VARIABLES
    table,      \* table[d]: the vector behind dictionary d
    resize,     \* the dict_resize in progress, or NoResize
    import,     \* the copy/import/union loop in progress, or NoImport
    fault,      \* the assertion that ended the program, or "none"
    reply       \* the last step's dictionary_ref and its result, or NULL

vars == <<table, resize, import, fault, reply>>

-----------------------------------------------------------------------------
(* Slots and the probe.                                                    *)

\* A removed entry: a pair with a null key.  Its cdr stays, and is never read.
Tombstone == [key |-> NULL, val |-> NULL]

Slot == {NULL, Tombstone} \cup [key : Key, val : Value]

\* A fresh table: every slot is null (make_dictionary_sz).
Empty(cap) == [cap |-> cap, len |-> 0, elems |-> [i \in 0 .. cap - 1 |-> NULL]]

Slots(t) == 0 .. t.cap - 1

\* slot_is_free: never used, or used by an entry that was removed.
Free(s) == s # NULL => s.key = NULL

Live(t) == {i \in Slots(t) : ~Free(t.elems[i])}

Holds(t, i, k) == ~Free(t.elems[i]) /\ t.elems[i].key = k

Home(t, k) == Hash[k] % t.cap

\* How many slots the scan for k looks at before slot i: it runs from the
\* home slot to the end of the vector, then from 0 up to the home slot.
Dist(t, k, i) == IF i >= Home(t, k) THEN i - Home(t, k)
                                    ELSE i + (t.cap - Home(t, k))

Before(t, k, i, j) == Dist(t, k, i) < Dist(t, k, j)

\* The scan for k goes past slot i: not null and not an entry for k.
Passes(t, k, i) == t.elems[i] # NULL /\ ~Holds(t, i, k)

Arrives(t, k, i) == \A j \in Slots(t) : Before(t, k, j, i) => Passes(t, k, j)

\* (mutant) the first free slot ends the scan
ReturnsEarly(t, k, i) ==
    /\ Holds(t, i, k) \/ Free(t.elems[i])
    /\ \A j \in Slots(t) : Before(t, k, j, i) => ~Free(t.elems[j]) /\ ~Holds(t, j, k)

\* dict_get_slot(t, k) returns i: the entry for k, or, when a null slot ends
\* the scan, the first free slot on the way to it.
Returns(t, k, i) ==
    \/ Holds(t, i, k) /\ Arrives(t, k, i)
    \/ /\ Free(t.elems[i])
       /\ \A j \in Slots(t) : Before(t, k, j, i) => ~Free(t.elems[j])
       /\ \E n \in Slots(t) : t.elems[n] = NULL /\ Arrives(t, k, n)

\* (mutant) the search is not begun again at the start of the vector
ScanFailsAtEnd(t, k) == \A i \in Slots(t) : i >= Home(t, k) => Passes(t, k, i)

\* The scan comes back to the home slot: the assertion after the two loops.
ScanFails(t, k) == \A i \in Slots(t) : Passes(t, k, i)

-----------------------------------------------------------------------------
(* Operations.                                                             *)

\* len/cap > DICT_LOAD_FACTOR (0.70)
Overloaded(t) == 10 * t.len > 7 * t.cap

\* (mutant) an assignment to an existing entry is counted as a new one
PutCounts(t, i, k, v) ==
    [cap   |-> t.cap,
     len   |-> t.len + 1,
     elems |-> [t.elems EXCEPT ![i] = [key |-> k, val |-> v]]]

\* The table after slot i received value v for key k.
Put(t, i, k, v) ==
    [cap   |-> t.cap,
     len   |-> IF Free(t.elems[i]) THEN t.len + 1 ELSE t.len,
     elems |-> [t.elems EXCEPT ![i] = [key |-> k, val |-> v]]]

NoResize == [dict |-> NULL, new |-> NULL, i |-> 0]
NoImport == [dst |-> NULL, src |-> NULL, i |-> 0, next |-> NULL, base |-> {}]

Idle == resize = NoResize /\ import = NoImport /\ fault = "none"

\* (mutant) dict_resize starts at the second slot
StoreResizeFrom1(d, k, v) ==
    LET t == table[d] IN
    /\ \E i \in Slots(t) :
          /\ Returns(t, k, i)
          /\ table' = [table EXCEPT ![d] = Put(t, i, k, v)]
          /\ resize' = IF Free(t.elems[i]) /\ Overloaded(Put(t, i, k, v))
                       THEN [dict |-> d, new |-> Empty(2 * t.cap), i |-> 1]
                       ELSE NoResize
    /\ UNCHANGED fault

\* dictionary_set(d, k, v), up to the call of dict_resize.
Store(d, k, v) ==
    LET t == table[d] IN
    \/ \E i \in Slots(t) :
          /\ Returns(t, k, i)
          /\ LET new == Put(t, i, k, v) IN
             /\ table' = [table EXCEPT ![d] = new]
             /\ resize' = IF Free(t.elems[i]) /\ Overloaded(new)
                          THEN [dict |-> d, new |-> Empty(2 * t.cap), i |-> 0]
                          ELSE NoResize
          /\ UNCHANGED fault
    \/ /\ ScanFails(t, k)
       /\ fault' = "scan"
       /\ UNCHANGED <<table, resize>>

DictionarySet(d, k, v) ==
    /\ Idle
    /\ Store(d, k, v)
    /\ reply' = NULL
    /\ UNCHANGED import

\* dictionary_ref(d, k, not_found), with not_found = NULL.
DictionaryRef(d, k) ==
    /\ Idle
    /\ \/ \E i \in Slots(table[d]) :
             /\ Returns(table[d], k, i)
             /\ reply' = [dict |-> d, key |-> k,
                          val |-> IF Free(table[d].elems[i]) THEN NULL
                                  ELSE table[d].elems[i].val]
             /\ UNCHANGED fault
       \/ ScanFails(table[d], k) /\ fault' = "scan" /\ reply' = NULL
    /\ UNCHANGED <<table, resize, import>>

\* (mutant) the slot is cleared instead of the key
RemoveClears(d, k) ==
    LET t == table[d] IN
    /\ Idle
    /\ \E i \in Slots(t) :
          /\ Returns(t, k, i) /\ ~Free(t.elems[i])
          /\ table' = [table EXCEPT ![d] =
                 [cap |-> t.cap, len |-> t.len - 1, elems |-> [t.elems EXCEPT ![i] = NULL]]]
    /\ reply' = NULL
    /\ UNCHANGED <<resize, import, fault>>

\* (mutant) an absent key is removed like a present one
RemoveUnchecked(d, k) ==
    LET t == table[d] IN
    /\ Idle
    /\ \E i \in Slots(t) :
          /\ Returns(t, k, i)
          /\ table' = [table EXCEPT ![d] =
                 [cap |-> t.cap, len |-> t.len - 1, elems |-> [t.elems EXCEPT ![i] = Tombstone]]]
    /\ reply' = NULL
    /\ UNCHANGED <<resize, import, fault>>

\* dictionary_remove(d, k): the pair stays in its slot with a null key.
DictionaryRemove(d, k) ==
    LET t == table[d] IN
    /\ Idle
    /\ \/ \E i \in Slots(t) :
             /\ Returns(t, k, i)
             /\ IF Free(t.elems[i])
                THEN fault' = "remove" /\ UNCHANGED table
                ELSE /\ table' = [table EXCEPT ![d] =
                           [cap |-> t.cap, len |-> t.len - 1,
                            elems |-> [t.elems EXCEPT ![i] = Tombstone]]]
                     /\ UNCHANGED fault
       \/ ScanFails(t, k) /\ fault' = "scan" /\ UNCHANGED table
    /\ reply' = NULL
    /\ UNCHANGED <<resize, import>>

\* dict_resize: one slot of the old table is looked at, and its entry stored
\* in the new one.  (dictionary_set would resize the new table in its turn;
\* NewTableHasRoom says that it never does.)
ResizeSlot ==
    /\ resize # NoResize /\ fault = "none"
    /\ resize.i < table[resize.dict].cap
    /\ LET entry == table[resize.dict].elems[resize.i]
           new   == resize.new
       IN \/ /\ Free(entry)
             /\ resize' = [dict |-> resize.dict, new |-> new, i |-> resize.i + 1]
             /\ UNCHANGED fault
          \/ /\ ~Free(entry)
             /\ \E j \in Slots(new) :
                   /\ Returns(new, entry.key, j)
                   /\ resize' = [dict |-> resize.dict, i |-> resize.i + 1,
                                 new |-> Put(new, j, entry.key, entry.val)]
             /\ UNCHANGED fault
          \/ /\ ~Free(entry) /\ ScanFails(new, entry.key)
             /\ fault' = "scan"
             /\ UNCHANGED resize
    /\ reply' = NULL
    /\ UNCHANGED <<table, import>>

\* dict_resize: the old vector takes over the new one's elements.
ResizeDone ==
    /\ resize # NoResize /\ fault = "none"
    /\ resize.i = table[resize.dict].cap
    /\ table' = [table EXCEPT ![resize.dict] = resize.new]
    /\ resize' = NoResize
    /\ reply' = NULL
    /\ UNCHANGED <<import, fault>>

-----------------------------------------------------------------------------
(* Loops over the slots of a source dictionary.  import.base is a history  *)
(* variable: what the destination held when the loop began.                *)

\* What a table maps: the set of its <<key, value>> pairs.
Contents(t) == {<<t.elems[i].key, t.elems[i].val>> : i \in Live(t)}

\* dictionary_import(dst, src)
DictionaryImport(dst, src) ==
    /\ Idle
    /\ import' = [dst |-> dst, src |-> src, i |-> 0, next |-> NULL,
                  base |-> Contents(table[dst])]
    /\ reply' = NULL
    /\ UNCHANGED <<table, resize, fault>>

\* dst = copy_dictionary(src); with next # NULL the copy is the first half of
\* dst = dictionary_union(src, next).
StartCopy(dst, src, next) ==
    /\ Idle
    /\ dst # src
    /\ table' = [table EXCEPT ![dst] = Empty(InitCap)]
    /\ import' = [dst |-> dst, src |-> src, i |-> 0, next |-> next, base |-> {}]
    /\ reply' = NULL
    /\ UNCHANGED <<resize, fault>>

CopyDictionary(dst, src) == StartCopy(dst, src, NULL)

DictionaryUnion(dst, src, next) == dst # next /\ StartCopy(dst, src, next)

\* (mutant) entries of the destination are kept
ImportKeeps ==
    /\ import # NoImport /\ resize = NoResize /\ fault = "none"
    /\ import.i < table[import.src].cap
    /\ LET entry == table[import.src].elems[import.i] IN
       IF Free(entry) \/ \E i \in Slots(table[import.dst]) : Holds(table[import.dst], i, entry.key)
       THEN UNCHANGED <<table, resize, fault>>
       ELSE Store(import.dst, entry.key, entry.val)
    /\ import' = [import EXCEPT !.i = @ + 1]
    /\ reply' = NULL

\* One iteration: an entry of the source is stored in the destination.
ImportSlot ==
    /\ import # NoImport /\ resize = NoResize /\ fault = "none"
    /\ import.i < table[import.src].cap
    /\ LET entry == table[import.src].elems[import.i] IN
       \/ Free(entry) /\ UNCHANGED <<table, resize, fault>>
       \/ ~Free(entry) /\ Store(import.dst, entry.key, entry.val)
    /\ import' = [import EXCEPT !.i = @ + 1]
    /\ reply' = NULL

\* (mutant) the second half of a union is begun again and again
ImportAgain ==
    /\ import # NoImport /\ resize = NoResize /\ fault = "none"
    /\ import.i >= table[import.src].cap
    /\ import' = IF import.next = NULL THEN NoImport
                 ELSE [dst |-> import.dst, src |-> import.next, i |-> 0, next |-> import.next,
                       base |-> Contents(table[import.dst])]
    /\ reply' = NULL
    /\ UNCHANGED <<table, resize, fault>>

\* The end of a loop, or of the first half of a union.
ImportDone ==
    /\ import # NoImport /\ resize = NoResize /\ fault = "none"
    /\ import.i >= table[import.src].cap
    /\ import' = IF import.next = NULL THEN NoImport
                 ELSE [dst |-> import.dst, src |-> import.next, i |-> 0, next |-> NULL,
                       base |-> Contents(table[import.dst])]
    /\ reply' = NULL
    /\ UNCHANGED <<table, resize, fault>>

-----------------------------------------------------------------------------
Init ==
    /\ table = [d \in Dict |-> Empty(InitCap)]
    /\ resize = NoResize
    /\ import = NoImport
    /\ fault = "none"
    /\ reply = NULL

Loop == ResizeSlot \/ ResizeDone \/ ImportSlot \/ ImportDone

Next ==
    \/ \E d \in Dict, k \in Key :
          \/ \E v \in Value : DictionarySet(d, k, v)
          \/ DictionaryRef(d, k)
          \/ DictionaryRemove(d, k)
    \/ \E d, s \in Dict :
          \/ DictionaryImport(d, s)
          \/ CopyDictionary(d, s)
          \/ \E n \in Dict : DictionaryUnion(d, s, n)
    \/ Loop

\* A loop that has begun runs to its end: nothing can interrupt it.
Spec == Init /\ [][Next]_vars /\ WF_vars(Loop)

-----------------------------------------------------------------------------
(* Properties.                                                             *)

IsTable(t) ==
    /\ t.cap \in Nat /\ t.cap >= InitCap
    /\ t.len \in Nat
    /\ t.elems \in [0 .. t.cap - 1 -> Slot]
    /\ t = [cap |-> t.cap, len |-> t.len, elems |-> t.elems]

\* The loops' cursors stay inside the vectors they walk.
TypeOK ==
    /\ DOMAIN table = Dict
    /\ \A d \in Dict : IsTable(table[d])
    /\ \/ resize = NoResize
       \/ /\ resize.dict \in Dict
          /\ IsTable(resize.new)
          /\ resize.i \in 0 .. table[resize.dict].cap
          /\ resize = [dict |-> resize.dict, new |-> resize.new, i |-> resize.i]
    /\ \/ import = NoImport
       \/ /\ import \in [dst : Dict, src : Dict, i : Nat, next : Dict \cup {NULL},
                         base : SUBSET (Key \X Value)]
    /\ fault \in {"none", "scan", "remove"}
    /\ reply \in {NULL} \cup [dict : Dict, key : Key, val : Value \cup {NULL}]

\* No two slots hold entries for the same key.
KeysUnique(t) == \A i, j \in Live(t) : t.elems[i].key = t.elems[j].key => i = j

\* No null slot lies between an entry and the home slot of its key.
Chained(t) ==
    \A i \in Live(t) : \A j \in Slots(t) :
        Before(t, t.elems[i].key, j, i) => t.elems[j] # NULL

WellProbed(t) == KeysUnique(t) /\ Chained(t)

\* Every entry of every table can be found by the scan of dict_get_slot, and
\* only one entry for its key exists: also in the half-filled table of a
\* resize, and however removals and re-insertions through tombstones mix.
ProbeInv ==
    /\ \A d \in Dict : WellProbed(table[d])
    /\ resize # NoResize => WellProbed(resize.new)

\* dictionary_len is the number of entries that listing the dictionary
\* (dictionary_get_entries, dictionary_to_alist) yields.
LenInv ==
    /\ \A d \in Dict : table[d].len = Cardinality(Live(table[d]))
    /\ resize # NoResize => resize.new.len = Cardinality(Live(resize.new))

\* The pairs in the slots below n: what a loop at slot n has walked.
Walked(t, n) == {<<t.elems[i].key, t.elems[i].val>> : i \in {j \in Live(t) : j < n}}

\* While dict_resize fills the doubled table, the inner dictionary_set neither
\* resizes that table again nor runs into the failing assertion, and what it
\* has filled is exactly the part of the old table it has walked.
NewTableHasRoom ==
    resize # NoResize =>
        /\ ~Overloaded(resize.new)
        /\ fault = "none"
        /\ Contents(resize.new) = Walked(table[resize.dict], resize.i)

\* The contents m, with those of n taking precedence.
Override(m, n) == {p \in m : \A q \in n : q[1] # p[1]} \cup n

\* dictionary_import, copy_dictionary and dictionary_union: when the loop
\* stands at slot i the destination holds what it held before, overridden by
\* the entries below i, although the destination may have been resized.
ImportSoFar ==
    import # NoImport /\ import.src # import.dst /\ fault = "none" =>
        Contents(table[import.dst]) =
            Override(import.base, Walked(table[import.src], import.i))

\* A table at rest is at most 70% full of entries.
LoadInv ==
    \A d \in Dict : resize.dict # d => ~Overloaded(table[d])

\* The assertion at the end of dict_get_slot can only fire on a table in
\* which removed entries have used up the last null slot.
FaultNeedsTombstones ==
    fault = "scan" =>
        \E d \in Dict :
            /\ \A i \in Slots(table[d]) : table[d].elems[i] # NULL
            /\ \E i \in Slots(table[d]) : Free(table[d].elems[i])

\* "we should *never* reach this point if dictionary is properly maintianed":
\* what the comment in dict_get_slot says of the assertion it precedes.
ScanNeverFails == fault # "scan"

contents == [d \in Dict |-> Contents(table[d])]

\* The dictionaries are maps: every step is a step of SlyMap.
Map == INSTANCE SlyMap WITH map <- contents

MapSpec == Map!Spec

\* Every resize, copy, import and union comes to its end.
LoopsEnd == (resize # NoResize \/ import # NoImport) ~> (Idle \/ fault # "none")
=============================================================================
