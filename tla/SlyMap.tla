------------------------------- MODULE SlyMap -------------------------------
(***************************************************************************)
(* What the dictionary of src/src/sly_types.c promises its callers: each   *)
(* dictionary is a finite map from keys to values.  A map is the set of    *)
(* its <<key, value>> pairs.  Hashing, probing, tombstones and resizing    *)
(* are not visible here; copies, imports and unions are seen as the        *)
(* assignments they are made of.                                           *)
(***************************************************************************)
CONSTANTS Key, Value, Dict, NULL

VARIABLES
    map,        \* map[d]: the pairs of dictionary d
    reply       \* the last step's lookup and its result, or NULL

vars == <<map, reply>>

Init == map = [d \in Dict |-> {}] /\ reply = NULL

Without(m, k) == {p \in m : p[1] # k}

Set(d, k, v) ==
    /\ map' = [map EXCEPT ![d] = Without(@, k) \cup {<<k, v>>}]
    /\ reply' = NULL

Remove(d, k) ==
    /\ map' = [map EXCEPT ![d] = Without(@, k)]
    /\ reply' = NULL

\* A lookup answers with the value of the key, or with NULL when there is none.
Ref(d, k) ==
    /\ \E v \in Value \cup {NULL} :
          /\ reply' = [dict |-> d, key |-> k, val |-> v]
          /\ IF v = NULL THEN \A p \in map[d] : p[1] # k ELSE <<k, v>> \in map[d]
    /\ UNCHANGED map

\* dictionary variable d is given a new dictionary
Fresh(d) == map' = [map EXCEPT ![d] = {}] /\ reply' = NULL

Quiet == reply' = NULL /\ UNCHANGED map

Next ==
    \/ \E d \in Dict, k \in Key :
          \/ \E v \in Value : Set(d, k, v)
          \/ Remove(d, k)
          \/ Ref(d, k)
    \/ \E d \in Dict : Fresh(d)
    \/ Quiet

Spec == Init /\ [][Next]_vars
=============================================================================
