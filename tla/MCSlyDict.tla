----------------------------- MODULE MCSlyDict -----------------------------
(* Instances of SlyDict for TLC.                                           *)
EXTENDS SlyDict, TLC

CONSTANTS k1, k2, k3, k4

\* Three keys, the number at which a table of capacity 4 is resized to 8, all
\* with the last slot of a table of capacity 4 as their home, so that every
\* scan wraps around; a resize separates k3 from the other two.
Hash3 == k1 :> 3 @@ k2 :> 3 @@ k3 :> 7

\* Four keys whose home slots cover a table of capacity 4 (k1 and k2 share the
\* last one), so that removals can use up every null slot.
Hash4 == k1 :> 3 @@ k2 :> 7 @@ k3 :> 1 @@ k4 :> 2
=============================================================================
