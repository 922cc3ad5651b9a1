----------------------------- MODULE MCOrderFlow -----------------------------
(* Constants of the runs of OrderFlow that a .cfg cannot write. *)
EXTENDS OrderFlow

\* Each shop sells one product: a request for both is split into two orders.
ShopOfEach == [p \in Products |-> IF p = "apple" THEN 1 ELSE 2]

\* One shop sells everything.
ShopOfAll == [p \in Products |-> 1]

OneAtATime == {-1, 1}
\* Bounds of the search: at most one shop closed, product off the shelf or
\* product removed at a time, at most one order marked as settled.
Settled == {o \in OrderIds : order[o].settled}

FewExceptions ==
    /\ Cardinality(Shops \ open) + Cardinality(Products \ listed) + Cardinality(removed) <= 1
    /\ Cardinality(Settled) <= 1

NothingSettled == FewExceptions /\ Settled = {}

\* The scheduler finds nothing to do.
NothingLate == FewExceptions /\ late = {} /\ tick.phase = "idle"

NothingLateOrSettled == NothingLate /\ NothingSettled
=============================================================================
