----------------------------- MODULE MCSessions -----------------------------
(* Sessions on small instances: two browser tabs, two requests in flight,   *)
(* three pairs of tokens (a login, a refresh and another login).            *)
EXTENDS Sessions, TLC

\* The apps share their store: that one of them may be killed is enough.
MCMishaps == [k \in Kinds |-> IF k = "seller" THEN 1 ELSE 0]

Symmetry == Permutations(Slots)
=============================================================================
