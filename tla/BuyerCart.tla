----------------------------- MODULE BuyerCart ------------------------------
(***************************************************************************)
(* The cart screen of the buyer app and what the server does with its      *)
(* requests.  The screen is a tab: it stays mounted while another screen   *)
(* is in front, and loads the cart whenever it comes to the front.         *)
(***************************************************************************)
EXTENDS Requests, Sequences, Functions

CONSTANTS Items,      \* rows of the cart
          Shops,      \* the rows of each shop
          LegalQty,   \* quantities the server takes for each
          MaxQty,     \* bound: no row is asked to hold more
          Fleeting,   \* bound: rows whose product may be taken off sale
          MaxCalls    \* bound: a buyer acts while fewer requests are in flight

VARIABLES rows,     \* the cart on the server: quantity and whether it can be bought
          cart,     \* the screen
          calls,
          crossed   \* history: what is shown may be older than the cart

vars == <<rows, cart, calls, crossed>>

NoRows == <<>>
Arg(ids, n) == [ids |-> ids, n |-> n]
NoArg == Arg({}, 0)
Reads == {"read", "readAfterBatch"}
Writes == {"delete", "quantity", "clear", "batch", "select"}

MayAct == Cardinality(calls) < MaxCalls
ReadServed == \E c \in calls : c.what \in Reads /\ c.state = "done"

-----------------------------------------------------------------------------
(* What the buyer does.                                                    *)

collectValidItemIds(groups) == {i \in DOMAIN groups : groups[i].ok}
SelectedValid == cart.selected \cap collectValidItemIds(cart.groups)

\* load: the list that is shown stays until the answer.
Loading == [cart EXCEPT !.loading = TRUE, !.failed = FALSE]
Ask(what, ids, n) == calls' = calls \cup {Request(calls, "cart", what, Arg(ids, n))}

CartOffers ==
    IF cart.groups = NoRows
    THEN IF cart.loading THEN {} ELSE IF cart.failed THEN {"retry"} ELSE {"manage"}
    ELSE {"manage", "shop", "all", "clear", "primary", "item"}

\* CartShopCard: what can be tapped on the row of item i.
RowOffers(i) ==
    LET g == cart.groups[i] IN
    (IF g.ok \/ cart.manage THEN {"toggle"} ELSE {}) \cup {"remove", "open"}
    \cup (IF g.ok THEN {"more"} \cup (IF g.qty > 1 THEN {"less"} ELSE {}) ELSE {})

OnServer == UNCHANGED <<rows, crossed>>

Retry == /\ OnServer /\ "retry" \in CartOffers /\ cart' = Loading /\ Ask("read", {}, 0)
Manage == /\ OnServer /\ "manage" \in CartOffers
          /\ cart' = [cart EXCEPT !.manage = ~@] /\ UNCHANGED calls

Flip(S, T) == IF T \subseteq S THEN S \ T ELSE S \cup T
Select(S) == cart' = [cart EXCEPT !.selected = S]

toggleItem(i) == /\ OnServer /\ i \in DOMAIN cart.groups /\ "toggle" \in RowOffers(i)
                 /\ Select(Flip(cart.selected, {i})) /\ UNCHANGED calls
toggleGroup(S) == /\ OnServer /\ "shop" \in CartOffers
                  /\ LET ids == S \cap collectValidItemIds(cart.groups)
                     IN ids # {} /\ Select(Flip(cart.selected, ids))
                  /\ UNCHANGED calls
\* The server is told of it; nothing waits for the answer.
handleToggleAll ==
    LET valid == collectValidItemIds(cart.groups)
    IN /\ OnServer /\ "all" \in CartOffers
       /\ Select(IF valid # {} /\ valid \subseteq cart.selected THEN {} ELSE valid)
       /\ Ask("select", {}, 0)

removeItem(i) == /\ OnServer /\ i \in DOMAIN cart.groups /\ "remove" \in RowOffers(i)
                 /\ Ask("delete", {i}, 0) /\ UNCHANGED cart
\* One more or one less than the quantity that is shown.
updateQuantity(i) ==
    /\ OnServer /\ i \in DOMAIN cart.groups
    /\ \/ "less" \in RowOffers(i) /\ Ask("quantity", {i}, cart.groups[i].qty - 1)
       \/ "more" \in RowOffers(i) /\ cart.groups[i].qty < MaxQty
          /\ Ask("quantity", {i}, cart.groups[i].qty + 1)
    /\ UNCHANGED cart
handleClearInvalid == /\ OnServer /\ "clear" \in CartOffers /\ Ask("clear", {}, 0) /\ UNCHANGED cart

DeleteSelected == /\ OnServer /\ "primary" \in CartOffers /\ cart.manage /\ cart.selected # {}
                  /\ Ask("batch", cart.selected, 0) /\ UNCHANGED cart

\* The draft of the checkout takes every selected row, one that was selected in
\* manage mode and can no longer be bought as well.
Draft == cart.selected
\* To the checkout and back, with an order placed or not; a product page and back.
Visit == /\ \/ UNCHANGED <<rows, crossed>>
            \/ /\ "primary" \in CartOffers /\ ~cart.manage /\ SelectedValid # {}
               /\ Draft \subseteq DOMAIN rows /\ \A i \in Draft : rows[i].ok
               /\ rows' = Restrict(rows, DOMAIN rows \ Draft)
               /\ crossed' = (crossed \/ ReadServed)
         /\ cart' = Loading /\ Ask("read", {}, 0)

-----------------------------------------------------------------------------
(* The answers.  A write that went well is followed by a read; one that    *)
(* failed leaves an alert and the list as it is.                           *)

Shown(c) ==
    /\ c.what \in Reads /\ c.state = "done"
    /\ cart' = [cart EXCEPT !.groups = c.reply, !.selected = collectValidItemIds(c.reply),
                            !.loading = FALSE, !.manage = @ /\ c.what = "read"]
    /\ calls' = calls \ {c}
Unshown(c) ==
    /\ c.what \in Reads
    /\ cart' = [cart EXCEPT !.groups = NoRows, !.failed = TRUE, !.loading = FALSE,
                            !.manage = @ /\ c.what = "read"]
    /\ calls' = calls \ {c}

\* Mutant: the cart is not read again after a write.
WrittenUnread(c) == c.what \in Writes /\ c.state = "done" /\ calls' = calls \ {c} /\ UNCHANGED cart
Written(c) ==
    /\ c.what \in Writes /\ c.state = "done"
    /\ IF c.what = "select" THEN calls' = calls \ {c} /\ UNCHANGED cart
       ELSE LET left == calls \ {c}
                then == IF c.what = "batch" THEN "readAfterBatch" ELSE "read"
            IN calls' = left \cup {Request(left, "cart", then, NoArg)} /\ cart' = Loading
Refused(c) == c.what \in Writes /\ calls' = calls \ {c} /\ UNCHANGED cart

-----------------------------------------------------------------------------
(* The server.                                                             *)

\* Mutant: the quantity is not held against the product's rules.
AcceptsAnyQuantity(c) == c.what \in {"delete", "quantity"} => c.arg.ids \subseteq DOMAIN rows
Accepts(c) == CASE c.what = "delete" -> c.arg.ids \subseteq DOMAIN rows
                [] c.what = "quantity" -> /\ \A i \in c.arg.ids : /\ i \in DOMAIN rows /\ rows[i].ok
                                                                  /\ c.arg.n \in LegalQty[i]
                [] OTHER -> TRUE

RowsAfter(c) ==
    CASE c.what \in {"delete", "batch"} -> Restrict(rows, DOMAIN rows \ c.arg.ids)
      [] c.what = "clear" -> Restrict(rows, {i \in DOMAIN rows : rows[i].ok})
      [] c.what = "quantity" ->
           [i \in DOMAIN rows |-> IF i \in c.arg.ids THEN [rows[i] EXCEPT !.qty = c.arg.n] ELSE rows[i]]
      [] OTHER -> rows

Serve(c) ==
    /\ c.state = "sent"
    /\ rows' = IF Accepts(c) THEN RowsAfter(c) ELSE rows
    /\ calls' = Handled(calls, c, Accepts(c), IF c.what \in Reads THEN rows ELSE None)
    /\ crossed' = IF c.what \in Reads THEN calls # {c}
                  ELSE crossed \/ (rows' # rows /\ ReadServed)
    /\ UNCHANGED cart

\* The seller takes a product off sale.
Delist(i) == /\ i \in DOMAIN rows /\ rows[i].ok
             /\ rows' = [rows EXCEPT ![i].ok = FALSE] /\ crossed' = TRUE
             /\ UNCHANGED <<cart, calls>>

-----------------------------------------------------------------------------
Init == /\ rows \in [Items -> [qty : 1..MaxQty, ok : {TRUE}]]
        /\ \A i \in Items : rows[i].qty \in LegalQty[i]
        /\ cart = [loading |-> TRUE, failed |-> FALSE, groups |-> NoRows,
                   selected |-> {}, manage |-> FALSE]
        /\ calls = {Request({}, "cart", "read", NoArg)}
        /\ crossed = FALSE

\* An answer arrives, or it is known that none will.
Answer(c) == /\ c.state # "sent" /\ OnServer
             /\ Shown(c) \/ Written(c) \/ (c.state = "refused" /\ Refused(c))
Lose(c) == /\ Unshown(c) \/ Refused(c)
           /\ crossed' = (crossed \/ (c.state = "done" /\ c.what \in Writes))
           /\ UNCHANGED rows

Tap == \/ Retry \/ Manage \/ handleToggleAll \/ handleClearInvalid \/ DeleteSelected \/ Visit
       \/ \E i \in Items : toggleItem(i) \/ removeItem(i) \/ updateQuantity(i)
       \/ \E S \in Shops : toggleGroup(S)

Handle(c) == Serve(c) \/ Answer(c) \/ Lose(c)
Next == \/ MayAct /\ Tap
        \/ \E c \in calls : Handle(c)
        \/ \E i \in Fleeting : Delist(i)

\* The server handles what it gets, and a request ends with an answer or without.
Fairness == \A i \in 1..MaxCalls : WF_vars(\E c \in calls : c.id = i /\ Handle(c))
Spec == Init /\ [][Next]_vars /\ Fairness

-----------------------------------------------------------------------------
TypeOK ==
    /\ DOMAIN rows \subseteq Items /\ \A i \in DOMAIN rows : rows[i].qty \in LegalQty[i]
    /\ cart.selected \subseteq Items
    /\ Cardinality(calls) <= MaxCalls /\ \A c, d \in calls : c.id = d.id => c = d

SpinnerHasCall == cart.loading => InFlight(calls, Reads)

\* At rest the cart shows the rows of the server, unless reads and writes
\* crossed, the answer of a write was lost, or the catalogue changed.
ShowsServer == calls = {} /\ ~cart.failed /\ ~crossed => cart.groups = rows

=============================================================================
