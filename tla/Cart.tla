-------------------------------- MODULE Cart --------------------------------
(***************************************************************************)
(* The cart of one buyer under concurrent requests: CartService,           *)
(* BuyerOrderService.Reorder and the cart side of OrderCreateService, over  *)
(* the table cart_items.                                                   *)
(*                                                                         *)
(* Unlike the order handlers, the cart handlers run without a transaction: *)
(* each reads rows, decides, and writes with a later statement, and other  *)
(* requests of the same buyer (a second device, a repeated tap) come in    *)
(* between.  A request is a program counter with what the handler holds in *)
(* memory.  What a handler reads of products and shops before its first    *)
(* statement on cart_items is one step with it or with the one before.     *)
(***************************************************************************)
EXTENDS Integers, FiniteSets, FiniteSetsExt, Inventory

CONSTANTS
    Requests,    \* requests that may be in flight at the same time
    Products,    \* ids of products
    Shops,       \* shops
    ShopOf,      \* the shop of each product
    Skus,        \* ids of SKUs a client may send; NoSku when it sends none
    Quantities,  \* quantities a client may send, in half units
    MinBuy,      \* products.min_buy, in half units
    StepBuy,     \* products.step_buy, in half units; 0: any quantity
    MaxItems,    \* maxCartItemCount
    MaxRows,     \* bound: rows ever inserted
    MaxStock     \* bound: stock of a product

ASSUME ClientsAssumption ==
    /\ IsFiniteSet(Requests) /\ Requests # {}
    /\ Products \subseteq Nat \ {0}
    /\ ShopOf \in [Products -> Shops]

ASSUME InputsAssumption ==
    /\ Skus \subseteq Nat
    /\ Quantities \subseteq Nat \ {0}
    /\ MinBuy \in [Products -> Nat \ {0}]
    /\ StepBuy \in [Products -> Nat]

ASSUME LimitsAssumption ==
    MaxItems \in Nat \ {0} /\ MaxRows \in Nat /\ MaxStock \in Nat

VARIABLES
    row,     \* cart_items: a row per id
    req,     \* what each request holds in memory
    stock,   \* products.stock
    onSale,  \* products with status = 1 and not deleted
    open,    \* shops with audit_status = 1 and status = 1
    uses     \* history: how many committed orders were made from each row

goods == <<stock, onSale, open>>
vars == <<row, req, stock, onSale, open, uses>>

RowIds == 1 .. MaxRows

\* sku_id IS NULL
NoSku == 0

NoRow == [state |-> "none", product |-> 0, sku |-> NoSku, qty |-> 0]

CartRow ==
    [state: {"none", "live", "gone"}, product: Products \cup {0},
     sku: Skus \cup {NoSku}, qty: Nat]

NoLines == [p \in Products |-> 0]

Idle ==
    [pc |-> "idle", todo |-> NoLines, sku |-> NoSku, cap |-> 0, id |-> 0,
     qty |-> 0, ids |-> {}, seen |-> [i \in RowIds |-> 0]]

Request ==
    [pc: {"idle", "check", "find", "count", "insert", "write", "remove", "commit"},
     todo: [Products -> Nat], sku: Skus \cup {NoSku}, cap: Nat, id: RowIds \cup {0},
     qty: Nat, ids: SUBSET RowIds, seen: [RowIds -> Nat]]

TypeOK ==
    /\ row \in [RowIds -> CartRow]
    /\ req \in [Requests -> Request]
    /\ stock \in [Products -> Nat]
    /\ onSale \subseteq Products
    /\ open \subseteq Shops
    /\ uses \in [RowIds -> Nat]

Init ==
    /\ row = [i \in RowIds |-> NoRow]
    /\ req = [r \in Requests |-> Idle]
    /\ stock = [p \in Products |-> MaxStock]
    /\ onSale = Products
    /\ open = Shops
    /\ uses = [i \in RowIds |-> 0]

Live == {i \in RowIds : row[i].state = "live"}

\* FindByUserProductSKU and the live rows it may find.
LiveOf(p, s) == {i \in Live : row[i].product = p /\ row[i].sku = s}

\* uk_user_product_sku: NULL equals nothing, and a deleted row keeps its key.
KeyTaken(p, s) ==
    /\ s # NoSku
    /\ \E i \in RowIds : row[i].state # "none" /\ row[i].product = p /\ row[i].sku = s

\* The part of validateCartQuantity that does not look at the stock.
FollowsRule(p, q) ==
    /\ q >= MinBuy[p]
    /\ StepBuy[p] > 0 => (q - MinBuy[p]) % StepBuy[p] = 0

\* validateCartQuantity on a product that was read with stock s and status 1.
Allowed(p, q, s) == s > 0 /\ Enough(s, q) /\ FollowsRule(p, q)

ValidNow(p, q) == p \in onSale /\ Allowed(p, q, stock[p])

At(r, pc) == req[r].pc = pc

Goto(r, q, pc) == req' = [req EXCEPT ![r] = [q EXCEPT !.pc = pc]]

\* The request is answered, well or badly.
Answer(r) == req' = [req EXCEPT ![r] = Idle]

KeepGoods == UNCHANGED goods

Keep == UNCHANGED <<row, uses>> /\ KeepGoods

-----------------------------------------------------------------------------
(* Add, and Reorder, which adds the items of an order one after the other  *)
(* and stops at the first error.                                           *)

\* Reads the product and its shop.
Addable(p, q) == ValidNow(p, q) /\ ShopOf[p] \in open

Add(r, p, s, q) ==
    /\ At(r, "idle") /\ Addable(p, q)
    /\ Goto(r, [[[Idle EXCEPT !.todo = [NoLines EXCEPT ![p] = q]] EXCEPT !.sku = s]
                  EXCEPT !.cap = stock[p]], "find")
    /\ Keep

\* order_items are written with sku_id NULL.
Reorder(r, items) ==
    /\ At(r, "idle") /\ items # NoLines
    /\ Goto(r, [Idle EXCEPT !.todo = items], "check")
    /\ Keep

\* The item a request is at: they come in the order of their products.
Item(r, p) ==
    /\ req[r].todo[p] > 0
    /\ \A x \in Products : req[r].todo[x] > 0 => p <= x

Rest(r, p) == [req[r].todo EXCEPT ![p] = 0]

\* An item is in the cart: the next one, or the answer.
NextItem(r, p) ==
    IF Rest(r, p) = NoLines THEN Answer(r)
    ELSE Goto(r, [Idle EXCEPT !.todo = Rest(r, p)], "check")

\* The same check for the next item of an order.
AddCheck(r, p) ==
    /\ At(r, "check") /\ Item(r, p)
    /\ IF Addable(p, req[r].todo[p])
       THEN Goto(r, [req[r] EXCEPT !.cap = stock[p]], "find")
       ELSE Answer(r)
    /\ Keep

\* Slip: the row of the product is not looked for.
AddFindNothing(r, p) ==
    At(r, "find") /\ Item(r, p) /\ Goto(r, req[r], "count") /\ Keep

\* Reads the row of the product; the sum is validated against the stock read before.
AddFind(r, p) ==
    /\ At(r, "find") /\ Item(r, p)
    /\ IF LiveOf(p, req[r].sku) = {} THEN Goto(r, req[r], "count")
       ELSE LET i == Min(LiveOf(p, req[r].sku))
                sum == row[i].qty + req[r].todo[p]
            IN  IF Allowed(p, sum, req[r].cap)
                THEN Goto(r, [[req[r] EXCEPT !.id = i] EXCEPT !.qty = sum], "write")
                ELSE Answer(r)
    /\ Keep

\* Slip: the limit is not checked.
AddCountAnything(r) ==
    /\ At(r, "count") /\ Goto(r, req[r], "insert") /\ Keep

AddCount(r) ==
    /\ At(r, "count")
    /\ IF Cardinality(Live) < MaxItems THEN Goto(r, req[r], "insert") ELSE Answer(r)
    /\ Keep

\* AUTO_INCREMENT
Unused(i) == row[i].state = "none" /\ \A j \in RowIds : j < i => row[j].state # "none"

AddInsert(r, p, i) ==
    /\ At(r, "insert") /\ Item(r, p) /\ Unused(i)
    /\ IF KeyTaken(p, req[r].sku)
       THEN Answer(r) /\ UNCHANGED row
       ELSE /\ row' = [row EXCEPT ![i] = [state |-> "live", product |-> p,
                                          sku |-> req[r].sku, qty |-> req[r].todo[p]]]
            /\ NextItem(r, p)
    /\ UNCHANGED uses /\ KeepGoods

-----------------------------------------------------------------------------
(* The other statements on a row the request read before.                  *)

\* UpdateQuantity: reads the row, then its product.
UpdateQuantity(r, i, q) ==
    /\ At(r, "idle") /\ i \in Live /\ ValidNow(row[i].product, q)
    /\ Goto(r, [[Idle EXCEPT !.id = i] EXCEPT !.qty = q], "write")
    /\ Keep

\* Slip: the UPDATE does not say deleted_at IS NULL; a deleted row is written.
WriteAnyRow(r) ==
    row' = [row EXCEPT ![req[r].id].qty = req[r].qty]

\* UpdateByIDAndUserID; that it matches no row is not an error.
WriteLiveRow(r) ==
    row' = IF req[r].id \in Live THEN [row EXCEPT ![req[r].id].qty = req[r].qty] ELSE row

WriteQuantity(r) ==
    /\ At(r, "write")
    /\ WriteLiveRow(r)
    /\ IF req[r].todo = NoLines THEN Answer(r)
       ELSE \E p \in Products : Item(r, p) /\ NextItem(r, p)
    /\ UNCHANGED uses /\ KeepGoods

\* UPDATE ... SET deleted_at = NOW() WHERE id IN ids AND deleted_at IS NULL
SoftDeleted(ids) ==
    [i \in RowIds |-> IF i \in ids \cap Live THEN [row[i] EXCEPT !.state = "gone"]
                      ELSE row[i]]

\* Delete reads its row first, ClearInvalid the rows and their products;
\* DeleteBatch takes the ids as they come.
Delete(r, i) ==
    /\ At(r, "idle") /\ i \in Live
    /\ Goto(r, [Idle EXCEPT !.ids = {i}], "remove") /\ Keep

DeleteBatch(r, ids) ==
    /\ At(r, "idle") /\ ids # {}
    /\ row' = SoftDeleted(ids) /\ UNCHANGED <<req, uses>> /\ KeepGoods

Invalid == {i \in Live : row[i].product \notin onSale \/ stock[row[i].product] = 0}

ClearInvalid(r) ==
    /\ At(r, "idle")
    /\ Goto(r, [Idle EXCEPT !.ids = Invalid], "remove") /\ Keep

Remove(r) ==
    /\ At(r, "remove")
    /\ row' = SoftDeleted(req[r].ids)
    /\ Answer(r) /\ UNCHANGED uses /\ KeepGoods

-----------------------------------------------------------------------------
(* CreateOrders from cart rows: buildMergedLines reads and validates the    *)
(* rows before the transaction; the transaction validates the merged lines  *)
(* under locks, deducts, and soft-deletes the rows without looking whether  *)
(* they were still there.                                                   *)

\* Slip: rows that are deleted already are accepted too.
ReadableAnyRow(ids) == \A i \in ids : row[i].state # "none"

Readable(ids) == ids \subseteq Live

Submit(r, ids) ==
    /\ At(r, "idle") /\ ids # {} /\ Readable(ids)
    /\ \A i \in ids : ValidNow(row[i].product, row[i].qty)
    /\ Goto(r, [[Idle EXCEPT !.ids = ids] EXCEPT
                  !.seen = [i \in RowIds |-> IF i \in ids THEN row[i].qty ELSE 0]],
            "commit")
    /\ Keep

\* The rows of one product make one line.
Line(r, p) ==
    MapThenSumSet(LAMBDA i : req[r].seen[i], {i \in req[r].ids : row[i].product = p})

Ordered(r) == {row[i].product : i \in req[r].ids}

\* Slip: the merged lines are not validated again in the transaction.
OrderableUnchecked(r) ==
    \A p \in Ordered(r) : ShopOf[p] \in open /\ p \in onSale

Orderable(r) ==
    \A p \in Ordered(r) : ShopOf[p] \in open /\ ValidNow(p, Line(r, p))

\* Slip: the rows stay in the cart.
RowsAfterKept(r) == row

RowsAfter(r) == SoftDeleted(req[r].ids)

Commit(r) ==
    /\ At(r, "commit")
    /\ IF Orderable(r)
       THEN /\ stock' = [p \in Products |->
                           IF p \in Ordered(r) THEN Deducted(stock[p], Line(r, p))
                           ELSE stock[p]]
            /\ row' = RowsAfter(r)
            /\ uses' = [i \in RowIds |-> uses[i] + (IF i \in req[r].ids THEN 1 ELSE 0)]
       ELSE UNCHANGED <<stock, row, uses>>
    /\ Answer(r) /\ UNCHANGED <<onSale, open>>

-----------------------------------------------------------------------------
\* A statement fails or the process ends: what was written stays.
Abort(r) == ~At(r, "idle") /\ Answer(r) /\ Keep

\* Sellers, administrators and other buyers change what the cart refers to.
WorldMoves ==
    /\ \/ \E p \in Products, n \in 0 .. MaxStock :
             stock' = [stock EXCEPT ![p] = n] /\ UNCHANGED <<onSale, open>>
       \/ \E p \in Products :
             /\ onSale' = IF p \in onSale THEN onSale \ {p} ELSE onSale \cup {p}
             /\ UNCHANGED <<stock, open>>
       \/ \E s \in Shops :
             /\ open' = IF s \in open THEN open \ {s} ELSE open \cup {s}
             /\ UNCHANGED <<stock, onSale>>
    /\ UNCHANGED <<row, req, uses>>

AddStep(r) ==
    \/ \E p \in Products, s \in Skus \cup {NoSku}, q \in Quantities : Add(r, p, s, q)
    \/ \E items \in [Products -> Quantities \cup {0}] : Reorder(r, items)
    \/ \E p \in Products :
          AddCheck(r, p) \/ AddFind(r, p) \/ \E i \in RowIds : AddInsert(r, p, i)
    \/ AddCount(r)

RowStep(r) ==
    \/ \E i \in RowIds : Delete(r, i) \/ \E q \in Quantities : UpdateQuantity(r, i, q)
    \/ \E ids \in SUBSET RowIds : DeleteBatch(r, ids)
    \/ ClearInvalid(r) \/ WriteQuantity(r) \/ Remove(r) \/ Abort(r)

OrderStep(r) == (\E ids \in SUBSET RowIds : Submit(r, ids)) \/ Commit(r)

Next == WorldMoves \/ \E r \in Requests : AddStep(r) \/ RowStep(r) \/ OrderStep(r)

Spec == Init /\ [][Next]_vars

-----------------------------------------------------------------------------
(* Properties.  With one request at a time the first three say: the limit   *)
(* holds, a product has one row, a row is ordered once.  Each request more  *)
(* that is in flight can break each rule by one, and no more.               *)

\* The limit is checked by a SELECT COUNT before the INSERT: the cart
\* outgrows it by at most the other requests in flight.
OvershootBounded == Cardinality(Live) <= MaxItems + Cardinality(Requests) - 1

\* Add looks for the row before it inserts one: a product has at most as
\* many live rows as there are requests.
DuplicatesBounded ==
    \A p \in Products, s \in Skus \cup {NoSku} :
       Cardinality(LiveOf(p, s)) <= Cardinality(Requests)

\* CreateOrders reads the rows before the transaction that deletes them: a
\* row goes into at most as many orders as there are requests.
ReuseBounded == \A i \in RowIds : uses[i] <= Cardinality(Requests)

\* A row that was ordered is out of the cart for good, whatever request
\* still holds its id.
OrderedRowsGone == \A i \in RowIds : uses[i] > 0 => row[i].state = "gone"

\* A row that was removed or ordered is never written again: not by an Add
\* that found it, not by a change of its quantity that was under way.
GoneStaysGone ==
    [][\A i \in RowIds : row[i].state = "gone" => row'[i] = row[i]]_vars

\* uk_user_product_sku (migration/001_schema.sql:150): a buyer has one row
\* for a product and SKU.
OneRowPerKey ==
    \A i, j \in Live :
       row[i].product = row[j].product /\ row[i].sku = row[j].sku => i = j
=============================================================================
