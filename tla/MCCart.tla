-------------------------------- MODULE MCCart --------------------------------
(* Constants of the runs of Cart that a .cfg cannot write. *)
EXTENDS Cart, TLC

OneShop == [p \in Products |-> "shop"]
Halves == [p \in Products |-> 1]
\* Product 1 in any quantity, product 2 in whole units on top of a half.
Steps == [p \in Products |-> IF p = 1 THEN 0 ELSE 2]
Phones == Permutations(Requests)

\* Bound of the search: one thing at a time is sold out, off sale or closed.
FewExceptions ==
    Cardinality({p \in Products : stock[p] = 0}) + Cardinality(Products \ onSale)
       + Cardinality(Shops \ open) <= 1
=============================================================================
