----------------------------- MODULE MCBuyerApp -----------------------------
EXTENDS BuyerApp, TLC

CONSTANTS i1, i2

MCParents == <<"p1", "p2">>
MCChildrenOf == [p \in {"p1", "p2"} |-> IF p = "p1" THEN <<"a", "b">> ELSE <<>>]
MCShops == {Items}
MCLegalQty == i1 :> {1, 2} @@ i2 :> {1}
=============================================================================
