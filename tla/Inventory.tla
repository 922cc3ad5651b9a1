------------------------------ MODULE Inventory ------------------------------
(***************************************************************************)
(* What the two UPDATE statements of the product repository do to the      *)
(* stock of one product.  products.stock is an INT column while            *)
(* order_items.quantity is DECIMAL(10,2) and reaches the statement as a    *)
(* DOUBLE parameter, so `stock - ?` and `stock + ?` are computed as        *)
(* doubles and rounded to the nearest integer, ties to even, when MySQL    *)
(* stores them.  Quantities are counted here in half units, the default    *)
(* purchase step (normalizeStepBuy); stock is counted in whole units.      *)
(***************************************************************************)
EXTENDS Integers

\* The whole number MySQL stores for a value of h half units.
RoundHalves(h) ==
    LET low == h \div 2
    IN  IF h % 2 = 0 \/ low % 2 = 0 THEN low ELSE low + 1

\* WHERE stock >= ?
Enough(s, h) == 2 * s >= h

\* SET stock = stock - ?
Deducted(s, h) == RoundHalves(2 * s - h)

\* Slip: the UPDATE matches no row.
AddedNowhere(s, h) == s

\* SET stock = stock + ?
AddedBack(s, h) == RoundHalves(2 * s + h)
=============================================================================
