------------------------------ MODULE MCSlyVM ------------------------------
(* Instances of SlyVM for TLC.                                             *)
EXTENDS SlyVM, FiniteSetsExt

\* Functions that capture one variable, or two in the order of their registers.
MCUplists == {<<1>>, <<1, 2>>}

\* Three upvalues with one continuation, or two with two continuations or with
\* a nested eval.  Where a continuation writes variables, both of them or only the
\* first, there are one or two upvalues less, and two closures.
Weight(k) == IF conts[k].to = {} THEN 1 ELSE IF conts[k].to = {1} THEN 3 ELSE 2

Bounded ==
    /\ \/ \A k \in DOMAIN conts : conts[k].to = {}
       \/ Len(closures) <= 2
    /\ Len(saved) + Len(upvals) + MapThenSumSet(Weight, DOMAIN conts) <= 5
=============================================================================
