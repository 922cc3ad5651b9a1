------------------------------ MODULE OrderFlow ------------------------------
(***************************************************************************)
(* Orders and the stock they hold: the order services of the buyer, the    *)
(* seller and the administrator, the scheduler that cancels and completes  *)
(* overdue orders, and the seller's operations on stock, over the tables   *)
(* orders, order_items, order_logs and products.                           *)
(*                                                                         *)
(* Every handler runs in one InnoDB transaction that first locks the       *)
(* orders row (FOR UPDATE) and decides on what it read under that lock, so *)
(* a handler is one action.  The scheduler is not: it lists the overdue    *)
(* ids, then runs one transaction per id, and anything may happen between. *)
(***************************************************************************)
EXTENDS Integers, Sequences, FiniteSets, FiniteSetsExt, Inventory

CONSTANTS
    Buyers,        \* ids of users that order
    Shops,         \* ids of shops; a seller owns exactly one shop
    Products,      \* products
    ShopOf,        \* the shop of each product
    Quantities,    \* quantities a line may have, in half units
    Deltas,        \* stock corrections a seller may enter
    InitialStock,  \* stock every product starts with
    MaxOrders,     \* bound: orders ever created
    MaxStock,      \* bound: stock a seller enters
    MaxLog,        \* bound: log rows of an order (a return can be opened again)
    MaxFaults,     \* bound: failed transactions and crashes of the scheduler
    BatchLimit     \* orderScheduleBatchLimit

ASSUME PartiesAssumption ==
    /\ Buyers \subseteq Nat \ {0}
    /\ Shops \subseteq Nat \ {0}
    /\ ShopOf \in [Products -> Shops]

ASSUME QuantitiesAssumption ==
    /\ Quantities \subseteq Nat \ {0}
    /\ Deltas \subseteq Int
    /\ InitialStock \in Nat

ASSUME BoundsAssumption ==
    /\ MaxOrders \in Nat /\ MaxStock \in Nat /\ MaxLog \in Nat
    /\ MaxFaults \in Nat /\ BatchLimit \in Nat \ {0}

VARIABLES
    order,    \* orders and order_items: a row per id
    log,      \* order_logs: the rows of each order, in id order
    stock,    \* products.stock
    listed,   \* products with status = 1 (on shelf)
    removed,  \* products with deleted_at set
    open,     \* shops with audit_status = 1 and status = 1
    late,     \* orders whose deadline in their present status has passed
    tick,     \* what the running RunTick holds in memory
    faults,   \* failures of the scheduler so far
    stocked   \* history: half units the seller put in, net of corrections

goods == <<stock, listed, removed, stocked>>
vars == <<order, log, stock, listed, removed, open, late, tick, faults, stocked>>

OrderIds == 1 .. MaxOrders

\* orders.status; -1 is orderLogFromCreated, the status before the first.
Absent == -1
Pending == 0
Confirmed == 1
Delivering == 2
ArrivedAt == 3
Completed == 4
Cancelled == 5
Returning == 6
Returned == 7
Statuses == Absent .. Returned

\* order_logs.operator_role
RoleBuyer == 1
RoleSeller == 2
RoleAdmin == 3
RoleSystem == 4

\* orders.cancel_by; 0 stands for NULL.
ByBuyer == 1
BySeller == 2
BySystem == 3

NoOrder ==
    [status |-> Absent, buyer |-> 0, shop |-> 0, qty |-> [p \in Products |-> 0],
     cancelBy |-> 0, deleted |-> FALSE, settled |-> FALSE]

OrderRow ==
    [status: Statuses, buyer: Buyers \cup {0}, shop: Shops \cup {0},
     qty: [Products -> Nat], cancelBy: 0 .. BySystem, deleted: BOOLEAN,
     settled: BOOLEAN]

LogRow == [from: Statuses, to: Statuses, role: RoleBuyer .. RoleSystem]

NoTick == [phase |-> "idle", todo |-> {}, arrived |-> {}]

TypeOK ==
    /\ order \in [OrderIds -> OrderRow]
    /\ log \in [OrderIds -> Seq(LogRow)]
    /\ stock \in [Products -> Nat]
    /\ listed \subseteq Products
    /\ removed \subseteq Products
    /\ open \subseteq Shops
    /\ late \subseteq OrderIds
    /\ tick \in [phase: {"idle", "cancel", "complete"}, todo: SUBSET OrderIds,
                 arrived: SUBSET OrderIds]
    /\ faults \in 0 .. MaxFaults
    /\ stocked \in [Products -> Int]

Init ==
    /\ order = [o \in OrderIds |-> NoOrder]
    /\ log = [o \in OrderIds |-> <<>>]
    /\ stock = [p \in Products |-> InitialStock]
    /\ listed = Products
    /\ removed = {}
    /\ open = Shops
    /\ late = {}
    /\ tick = NoTick
    /\ faults = 0
    /\ stocked = [p \in Products |-> 2 * InitialStock]

-----------------------------------------------------------------------------
(* Creating orders.                                                        *)

\* Slip: stock is not read again inside the transaction.
OrderableUnchecked(p, h) == p \in listed \ removed

Orderable(p, h) ==
    /\ p \in listed \ removed
    /\ stock[p] > 0
    /\ Enough(stock[p], h)

ShopsIn(lines) == {ShopOf[p] : p \in {q \in Products : lines[q] > 0}}

\* AUTO_INCREMENT: the unused ids that come next, one per shop, in shop order.
NextIds(S, id) ==
    /\ \A s \in S : order[id[s]].status = Absent
    /\ \A s, t \in S : s < t => id[s] < id[t]
    /\ \A o \in OrderIds :
          order[o].status = Absent /\ (\E s \in S : o < id[s])
             => \E s \in S : id[s] = o

NewOrder(b, s, lines) ==
    [status |-> Pending, buyer |-> b, shop |-> s,
     qty |-> [p \in Products |-> IF ShopOf[p] = s THEN lines[p] ELSE 0],
     cancelBy |-> 0, deleted |-> FALSE, settled |-> FALSE]

CreatedRow == [from |-> Absent, to |-> Pending, role |-> RoleBuyer]

\* One order per shop of the request, all in one transaction or none.
CreateOrders(b, lines, id) ==
    LET S == ShopsIn(lines)
    IN  /\ S # {}
        /\ S \subseteq open
        /\ \A p \in Products : lines[p] > 0 => Orderable(p, lines[p])
        /\ id \in [S -> OrderIds]
        /\ NextIds(S, id)
        /\ order' = [o \in OrderIds |->
                       IF \E s \in S : id[s] = o
                       THEN NewOrder(b, CHOOSE s \in S : id[s] = o, lines)
                       ELSE order[o]]
        /\ log' = [o \in OrderIds |->
                     IF \E s \in S : id[s] = o THEN <<CreatedRow>> ELSE log[o]]
        /\ stock' = [p \in Products |->
                       IF lines[p] > 0 THEN Deducted(stock[p], lines[p]) ELSE stock[p]]
        /\ UNCHANGED <<listed, removed, open, late, tick, faults, stocked>>

-----------------------------------------------------------------------------
(* Moving one order along.  The row is found only while it is not deleted. *)

\* Slip: deleted_at IS NULL is missing.
Exists(o) == order[o].status # Absent

Visible(o) == order[o].status # Absent /\ ~order[o].deleted

IsAt(o, status) == Visible(o) /\ order[o].status = status

OfBuyer(b, o) == order[o].buyer = b

OfSeller(s, o) == order[o].shop = s

\* UPDATE orders SET status = ... with the log row of the same transaction.
Move(o, row, role) ==
    /\ order' = [order EXCEPT ![o] = row]
    /\ log' = [log EXCEPT ![o] =
                 Append(@, [from |-> order[o].status, to |-> row.status, role |-> role])]
    /\ late' = late \ {o}

To(o, status) == [order[o] EXCEPT !.status = status]

\* Slip: the items are not given back.
GiveBackNothing(o) == UNCHANGED stock

\* AddStockWithTx for each item; its UPDATE matches no row of a removed product.
GiveBack(o) ==
    stock' = [p \in Products |->
                IF order[o].qty[p] > 0 /\ p \notin removed
                THEN AddedBack(stock[p], order[o].qty[p]) ELSE stock[p]]

KeepGoods == UNCHANGED <<goods, open>>

GiveBackKeepRest(o) == GiveBack(o) /\ UNCHANGED <<listed, removed, open, stocked>>

\* Slips: the status is not read again under the lock; cancel_by is left out.
CancelAgain(o, by, role) ==
    /\ Visible(o)
    /\ Move(o, [To(o, Cancelled) EXCEPT !.cancelBy = by], role)
    /\ GiveBackKeepRest(o)

CancelUnsigned(o, by, role) ==
    /\ IsAt(o, Pending)
    /\ Move(o, To(o, Cancelled), role)
    /\ GiveBackKeepRest(o)

CancelBy(o, by, role) ==
    /\ IsAt(o, Pending)
    /\ Move(o, [To(o, Cancelled) EXCEPT !.cancelBy = by], role)
    /\ GiveBackKeepRest(o)

Cancel(b, o) ==
    OfBuyer(b, o) /\ CancelBy(o, ByBuyer, RoleBuyer) /\ UNCHANGED <<tick, faults>>

Receive(b, o) ==
    /\ OfBuyer(b, o) /\ IsAt(o, ArrivedAt)
    /\ Move(o, To(o, Completed), RoleBuyer)
    /\ KeepGoods /\ UNCHANGED <<tick, faults>>

SoftDelete(b, o) ==
    /\ OfBuyer(b, o) /\ (IsAt(o, Completed) \/ IsAt(o, Cancelled))
    /\ order' = [order EXCEPT ![o].deleted = TRUE]
    /\ KeepGoods /\ UNCHANGED <<log, late, tick, faults>>

Confirm(s, o) ==
    /\ OfSeller(s, o) /\ IsAt(o, Pending)
    /\ Move(o, To(o, Confirmed), RoleSeller)
    /\ KeepGoods /\ UNCHANGED <<tick, faults>>

Reject(s, o) ==
    OfSeller(s, o) /\ CancelBy(o, BySeller, RoleSeller) /\ UNCHANGED <<tick, faults>>

Deliver(s, o) ==
    /\ OfSeller(s, o) /\ IsAt(o, Confirmed)
    /\ Move(o, To(o, Delivering), RoleSeller)
    /\ KeepGoods /\ UNCHANGED <<tick, faults>>

Arrived(s, o) ==
    /\ OfSeller(s, o) /\ IsAt(o, Delivering)
    /\ Move(o, To(o, ArrivedAt), RoleSeller)
    /\ KeepGoods /\ UNCHANGED <<tick, faults>>

UpdateSettlement(o, flag) ==
    /\ Visible(o)
    /\ order' = [order EXCEPT ![o].settled = flag]
    /\ KeepGoods /\ UNCHANGED <<log, late, tick, faults>>

ReturnMoves == {<<Completed, Returning>>, <<Returning, Returned>>, <<Returning, Completed>>}

UpdateReturnStatus(o, to) ==
    /\ Visible(o) /\ <<order[o].status, to>> \in ReturnMoves
    /\ to = Returning => Len(log[o]) + 2 <= MaxLog
    /\ Move(o, To(o, to), RoleAdmin)
    /\ IF to = Returned THEN GiveBackKeepRest(o) ELSE KeepGoods
    /\ UNCHANGED <<tick, faults>>
-----------------------------------------------------------------------------
(* The scheduler.  RunTick takes `now` once, lists at most BatchLimit       *)
(* overdue ids in id order, and gives each a transaction of its own that    *)
(* locks the row and reads its status again; an error is logged and the     *)
(* loop goes on.  tickMu is never contended: one goroutine calls RunTick.   *)

\* Slip: LIMIT is applied before the filter.
FirstRows(S) == {o \in S : o <= BatchLimit}

\* ORDER BY id ASC LIMIT BatchLimit
Batch(S) == {o \in S : Cardinality({x \in S : x < o}) < BatchLimit}

\* Slip: the cutoff is missing from the query.
Waiting(status) == {o \in OrderIds : IsAt(o, status)}

Overdue(status) == {o \in late : IsAt(o, status)}

KeepTables == UNCHANGED <<order, log, late>> /\ KeepGoods

\* created_at or delivered_at falls behind the cutoff of the configured age.
DeadlinePasses(o) ==
    /\ order[o].status \in {Pending, ArrivedAt} /\ o \notin late
    /\ late' = late \cup {o}
    /\ KeepGoods /\ UNCHANGED <<order, log, tick, faults>>

TickStart ==
    /\ tick.phase = "idle"
    /\ tick' = [phase |-> "cancel", todo |-> Batch(Overdue(Pending)),
                arrived |-> Overdue(ArrivedAt)]
    /\ KeepTables /\ UNCHANGED faults

\* The id the loop is at: ids are worked off in the order of the list.
Working(phase, o) == tick.phase = phase /\ o \in tick.todo /\ \A x \in tick.todo : o <= x

Done(o) == tick' = [tick EXCEPT !.todo = @ \ {o}]

StillPending(o) == IsAt(o, Pending)

\* Slip: the status is not read again under the lock.
StillThere(o) == Visible(o)

StillArrived(o) == IsAt(o, ArrivedAt)

AutoCancelPendingOrder(o) ==
    /\ Working("cancel", o)
    /\ IF StillPending(o) THEN CancelBy(o, BySystem, RoleSystem) ELSE KeepTables
    /\ Done(o) /\ UNCHANGED faults

\* Slips: the second list without the cutoff; no second list at all.
TickListAllArrived ==
    /\ tick.phase = "cancel" /\ tick.todo = {}
    /\ tick' = [phase |-> "complete", todo |-> Batch(Waiting(ArrivedAt)), arrived |-> {}]
    /\ KeepTables /\ UNCHANGED faults

TickStopsAfterCancelling ==
    /\ tick.phase = "cancel" /\ tick.todo = {} /\ tick' = NoTick
    /\ KeepTables /\ UNCHANGED faults

\* The second list is read when the first loop is done, with the cutoff of TickStart.
TickListArrived ==
    /\ tick.phase = "cancel" /\ tick.todo = {}
    /\ tick' = [phase |-> "complete",
                todo |-> Batch({o \in tick.arrived : IsAt(o, ArrivedAt)}),
                arrived |-> {}]
    /\ KeepTables /\ UNCHANGED faults

AutoCompleteArrivedOrder(o) ==
    /\ Working("complete", o)
    /\ IF StillArrived(o)
       THEN Move(o, To(o, Completed), RoleSystem) /\ KeepGoods
       ELSE KeepTables
    /\ Done(o) /\ UNCHANGED faults

TickEnd ==
    /\ tick.phase = "complete" /\ tick.todo = {}
    /\ tick' = NoTick
    /\ KeepTables /\ UNCHANGED faults

Fault == faults < MaxFaults /\ faults' = faults + 1 /\ KeepTables

\* The transaction of one id fails and is rolled back: `continue`.
TickError(o) == tick.phase # "idle" /\ Working(tick.phase, o) /\ Done(o) /\ Fault

\* A list query fails: the first is skipped, the second ends the tick.
TickListError ==
    /\ Fault
    /\ \/ /\ tick.phase = "idle"
          /\ tick' = [phase |-> "cancel", todo |-> {}, arrived |-> Overdue(ArrivedAt)]
       \/ /\ tick.phase = "cancel" /\ tick.todo = {}
          /\ tick' = NoTick

\* os.Exit(0) in the middle of a tick; the restarted process ticks at once.
Crash == tick.phase # "idle" /\ tick' = NoTick /\ Fault

SchedulerStep ==
    \/ TickStart
    \/ \E o \in OrderIds : AutoCancelPendingOrder(o)
    \/ TickListArrived
    \/ \E o \in OrderIds : AutoCompleteArrivedOrder(o)
    \/ TickEnd

SchedulerFault == (\E o \in OrderIds : TickError(o)) \/ TickListError \/ Crash

-----------------------------------------------------------------------------
(* The operations on products and shops that orders depend on.  Of those    *)
(* that read a row, check it and later write it without a lock only the     *)
(* write is an action here: the check may be stale by then.                 *)

KeepOrders == UNCHANGED <<order, log, late, tick, faults>>

AdjustStock(p, delta) ==
    LET next == stock[p] + delta
    IN  /\ p \notin removed
        /\ next >= 0 /\ next <= MaxStock
        /\ stock' = [stock EXCEPT ![p] = next]
        /\ listed' = IF next = 0 THEN listed \ {p} ELSE listed
        /\ stocked' = [stocked EXCEPT ![p] = @ + 2 * delta]
        /\ KeepOrders /\ UNCHANGED <<removed, open>>

\* Update writes the stock of the form and never leaves the product on shelf.
UpdateProduct(p, amount) ==
    /\ p \notin removed
    /\ stock' = [stock EXCEPT ![p] = amount]
    /\ listed' = listed \ {p}
    /\ stocked' = [stocked EXCEPT ![p] = @ + 2 * (amount - stock[p])]
    /\ KeepOrders /\ UNCHANGED <<removed, open>>

\* The status written by AdminAudit, AdminUpdateStatus and UpdateStatus.
WriteStatus(p, on) ==
    /\ p \notin removed
    /\ listed' = IF on THEN listed \cup {p} ELSE listed \ {p}
    /\ KeepOrders /\ UNCHANGED <<stock, removed, stocked, open>>

DeleteProduct(p) ==
    /\ p \notin removed
    /\ removed' = removed \cup {p}
    /\ KeepOrders /\ UNCHANGED <<stock, listed, stocked, open>>

\* audit_status or status of a shop changes so that it opens or closes for orders.
WriteShop(s) ==
    /\ open' = IF s \in open THEN open \ {s} ELSE open \cup {s}
    /\ KeepOrders /\ UNCHANGED goods

-----------------------------------------------------------------------------

Lines == [Products -> Quantities \cup {0}]

BuyerStep ==
    \E b \in Buyers :
       \/ \E lines \in Lines : \E id \in [ShopsIn(lines) -> OrderIds] :
             CreateOrders(b, lines, id)
       \/ \E o \in OrderIds : Cancel(b, o) \/ Receive(b, o) \/ SoftDelete(b, o)

SellerStep ==
    \E s \in Shops, o \in OrderIds :
       Confirm(s, o) \/ Reject(s, o) \/ Deliver(s, o) \/ Arrived(s, o)

AdminStep ==
    \E o \in OrderIds :
       \/ \E flag \in BOOLEAN : UpdateSettlement(o, flag)
       \/ \E to \in Statuses : UpdateReturnStatus(o, to)

GoodsStep ==
    \/ \E p \in Products :
          \/ \E d \in Deltas : AdjustStock(p, d)
          \/ \E n \in 0 .. MaxStock : UpdateProduct(p, n)
          \/ \E on \in BOOLEAN : WriteStatus(p, on)
          \/ DeleteProduct(p)
    \/ \E s \in Shops : WriteShop(s)

Next ==
    \/ BuyerStep \/ SellerStep \/ AdminStep \/ GoodsStep
    \/ \E o \in OrderIds : DeadlinePasses(o)
    \/ SchedulerStep \/ SchedulerFault

Spec == Init /\ [][Next]_vars

\* runOrderScheduleLoop ticks every minute for as long as the process lives.
FairSpec == Spec /\ WF_vars(SchedulerStep)
-----------------------------------------------------------------------------
(* Properties.                                                              *)

\* Who may move an order from where to where (docs/task-list.md, rule 7).
LegalRows ==
    {[from |-> Absent, to |-> Pending, role |-> RoleBuyer],
     [from |-> Pending, to |-> Confirmed, role |-> RoleSeller],
     [from |-> Pending, to |-> Cancelled, role |-> RoleBuyer],
     [from |-> Pending, to |-> Cancelled, role |-> RoleSeller],
     [from |-> Pending, to |-> Cancelled, role |-> RoleSystem],
     [from |-> Confirmed, to |-> Delivering, role |-> RoleSeller],
     [from |-> Delivering, to |-> ArrivedAt, role |-> RoleSeller],
     [from |-> ArrivedAt, to |-> Completed, role |-> RoleBuyer],
     [from |-> ArrivedAt, to |-> Completed, role |-> RoleSystem],
     [from |-> Completed, to |-> Returning, role |-> RoleAdmin],
     [from |-> Returning, to |-> Returned, role |-> RoleAdmin],
     [from |-> Returning, to |-> Completed, role |-> RoleAdmin]}

LogComplete(o) ==
    /\ (log[o] = <<>>) = (order[o].status = Absent)
    /\ log[o] # <<>> => /\ log[o][1].from = Absent
                        /\ log[o][Len(log[o])].to = order[o].status

LogConnected(o) ==
    \A i \in 1 .. Len(log[o]) - 1 : log[o][i].to = log[o][i + 1].from

LogLegal(o) == \A i \in 1 .. Len(log[o]) : log[o][i] \in LegalRows

\* The log of an order is its whole history: an unbroken chain of moves from
\* its creation to its present status, each by a role that may make it.  A
\* transition applied on a stale status, or without its log row, breaks it.
LogTellsHistory ==
    \A o \in OrderIds : LogComplete(o) /\ LogConnected(o) /\ LogLegal(o)

LastRole(o) == log[o][Len(log[o])].role

\* Exactly the cancelled orders name who cancelled them, and it is the role
\* that made the last move: buyer, seller and scheduler race for a pending
\* order, and only the winner may leave its mark.
CancellationAttributed ==
    \A o \in OrderIds :
       /\ (order[o].cancelBy # 0) = (order[o].status = Cancelled)
       /\ order[o].status = Cancelled =>
             <<order[o].cancelBy, LastRole(o)>> \in
                {<<ByBuyer, RoleBuyer>>, <<BySeller, RoleSeller>>, <<BySystem, RoleSystem>>}

Claim(o, p) ==
    IF order[o].status \in {Absent, Cancelled, Returned} THEN 0 ELSE order[o].qty[p]

Held(p) == MapThenSumSet(LAMBDA o : Claim(o, p), OrderIds)

\* Of a product that is still sold, what is in stock and what live orders
\* hold is what the seller put in: no order takes stock it does not hold,
\* none gives it back twice or not at all, whichever handler cancels it.
StockConserved ==
    \A p \in Products \ removed : 2 * stock[p] + Held(p) = stocked[p]

\* docs/mvp-test-runbook.md:248: once no order holds a product any more, its
\* stock is again what the seller put in.
StockRestored ==
    \A p \in Products \ removed : Held(p) = 0 => 2 * stock[p] = stocked[p]

Moved(o, p) ==
    IF order[o].qty[p] = 0 THEN 0
    ELSE IF order[o].status \in {Cancelled, Returned} THEN 2 ELSE 1

Movements(p) == MapThenSumSet(LAMBDA o : Moved(o, p), OrderIds)

\* With quantities in half units the rounding of the INT column loses or
\* invents stock, but never more than half a unit per movement.
DriftBounded ==
    \A p \in Products \ removed :
       LET drift == 2 * stock[p] + Held(p) - stocked[p]
       IN  -Movements(p) <= drift /\ drift <= Movements(p)

\* docs/requirement.md:528: a product whose stock is 0 is taken off the shelf.
SoldOutIsOffShelf ==
    \A p \in Products \ removed : stock[p] = 0 => p \notin listed

\* A deleted order is out of everybody's reach: no status, settlement or log
\* row changes any more, not even through an id the scheduler still holds.
DeletedIsFrozen ==
    [][\A o \in OrderIds :
          order[o].deleted => order'[o] = order[o] /\ log'[o] = log[o]]_vars

\* The scheduler moves an order only if the deadline of the status it has at
\* that moment has passed, though it chose its id from an older list.
SystemMovesOnlyLate ==
    [][\A o \in OrderIds :
          log'[o] # log[o] /\ log'[o][Len(log'[o])].role = RoleSystem
             => o \in late]_vars

\* Due for the transaction of the cancel loop, or past it for good.
DueOrBeyond(o, status, beyond) ==
    /\ order[o].status \in {status} \cup beyond
    /\ order[o].status = status => o \in late

CancelDue(o) == DueOrBeyond(o, Pending, Confirmed .. Returned)

CompleteDue(o) == DueOrBeyond(o, ArrivedAt, {Completed, Returning, Returned})

\* The ids RunTick holds in memory stay valid however old the lists are: each
\* order is still overdue in the status it was listed for or has left that
\* status for good, so an id the scheduler holds can never hit an order that
\* came back to the status with its deadline ahead of it.
HeldIdsStayDue ==
    /\ tick.phase = "cancel" => \A o \in tick.todo : CancelDue(o)
    /\ tick.phase = "complete" => \A o \in tick.todo : CompleteDue(o)
    /\ \A o \in tick.arrived : CompleteDue(o)

\* A step moves the stock of a product against the claim of one order and in
\* the same amount, or as the seller corrects it, never otherwise.
StockMovesWithClaims ==
    [][\A p \in Products \ removed' :
          \/ /\ \A o \in OrderIds : Claim(o, p)' = Claim(o, p)
             /\ 2 * (stock'[p] - stock[p]) = stocked'[p] - stocked[p]
          \/ /\ stocked'[p] = stocked[p]
             /\ \E o \in OrderIds :
                   /\ 2 * (stock'[p] - stock[p]) = Claim(o, p) - Claim(o, p)'
                   /\ \A x \in OrderIds \ {o} : Claim(x, p)' = Claim(x, p)]_vars

\* A pending order whose time is up is confirmed, rejected or cancelled in the
\* end, whatever the batch limit leaves for later ticks and whatever fails.
LatePendingResolved ==
    \A o \in OrderIds :
       (o \in late /\ order[o].status = Pending) ~> (order[o].status # Pending)

\* An arrived order whose time is up is completed in the end.
LateArrivedCompleted ==
    \A o \in OrderIds :
       (o \in late /\ order[o].status = ArrivedAt) ~> (order[o].status = Completed)

\* The promise of Fulfilment, which speaks of claims and goods on offer only.
StageOf(status) ==
    CASE status = Absent -> "none" [] status = Pending -> "placed"
      [] status = Confirmed -> "accepted" [] status = Delivering -> "shipped"
      [] status = ArrivedAt -> "delivered" [] status = Completed -> "closed"
      [] status = Cancelled -> "cancelled" [] status = Returning -> "disputed"
      [] OTHER -> "refunded"

Promise == INSTANCE Fulfilment WITH
    Orders <- OrderIds, Goods <- Products,
    stage <- [o \in OrderIds |-> StageOf(order[o].status)],
    claim <- [o \in OrderIds |-> [p \in Products |-> Claim(o, p)]],
    avail <- [p \in Products |-> 2 * stock[p]],
    withdrawn <- removed

\* Every step of the handlers and of the scheduler is a step of Fulfilment.
KeepsPromise == Promise!Spec
=============================================================================
