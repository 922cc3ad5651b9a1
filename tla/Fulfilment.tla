----------------------------- MODULE Fulfilment -----------------------------
(***************************************************************************)
(* What the order system promises, with no tables, logs, roles, deadlines  *)
(* or scheduler: an order claims goods when it is placed, keeps its claim  *)
(* through delivery, and gives the goods back exactly once, when it is     *)
(* cancelled before it was accepted or when its return is accepted.  The   *)
(* goods on offer change by nothing else but the seller's own corrections. *)
(* (docs/architecture.md section 5, docs/task-list.md "core rules" 1-2.)   *)
(***************************************************************************)
EXTENDS Integers

CONSTANTS Orders, Goods

VARIABLES
    stage,      \* how far each order has come
    claim,      \* goods each order holds
    avail,      \* goods on offer
    withdrawn   \* goods no longer sold; nothing is given back to them

Stages == {"none", "placed", "accepted", "shipped", "delivered", "closed",
           "cancelled", "disputed", "refunded"}

\* Steps that leave the claim alone.
Forward == {<<"placed", "accepted">>, <<"accepted", "shipped">>,
            <<"shipped", "delivered">>, <<"delivered", "closed">>,
            <<"closed", "disputed">>, <<"disputed", "closed">>}

\* Steps that give the claim back.
Backward == {<<"placed", "cancelled">>, <<"disputed", "refunded">>}

Init ==
    /\ stage = [o \in Orders |-> "none"]
    /\ claim = [o \in Orders |-> [g \in Goods |-> 0]]
    /\ avail \in [Goods -> Nat]
    /\ withdrawn = {}

\* One request places an order with each shop it buys from.
Place(S) ==
    /\ \A o \in S : stage[o] = "none"
    /\ stage' = [o \in Orders |-> IF o \in S THEN "placed" ELSE stage[o]]
    /\ \A o \in Orders \ S : claim'[o] = claim[o]
    /\ \A g \in Goods :
          \/ avail'[g] = avail[g] /\ \A o \in S : claim'[o][g] = 0
          \/ \E o \in S :
                /\ claim'[o][g] \in 1 .. avail[g]
                /\ avail'[g] = avail[g] - claim'[o][g]
                /\ \A other \in S \ {o} : claim'[other][g] = 0
    /\ UNCHANGED withdrawn

Advance(o) ==
    /\ <<stage[o], stage'[o]>> \in Forward
    /\ stage' = [stage EXCEPT ![o] = stage'[o]]
    /\ UNCHANGED <<claim, avail, withdrawn>>

Release(o) ==
    /\ <<stage[o], stage'[o]>> \in Backward
    /\ stage' = [stage EXCEPT ![o] = stage'[o]]
    /\ claim' = [claim EXCEPT ![o] = [g \in Goods |-> 0]]
    /\ avail' = [g \in Goods |->
                   IF g \in withdrawn THEN avail[g] ELSE avail[g] + claim[o][g]]
    /\ UNCHANGED withdrawn

Restock(g) ==
    /\ g \notin withdrawn /\ avail'[g] \in Nat
    /\ avail' = [avail EXCEPT ![g] = avail'[g]]
    /\ UNCHANGED <<stage, claim, withdrawn>>

Withdraw(g) ==
    /\ withdrawn' = withdrawn \cup {g}
    /\ UNCHANGED <<stage, claim, avail>>

Next ==
    \/ \E S \in (SUBSET Orders) \ {{}} : Place(S)
    \/ \E o \in Orders : Advance(o) \/ Release(o)
    \/ \E g \in Goods : Restock(g) \/ Withdraw(g)

vars == <<stage, claim, avail, withdrawn>>

Spec == Init /\ [][Next]_vars
=============================================================================
