--------------------------- MODULE OrderFlow_proofs ---------------------------
(***************************************************************************)
(* Theorems about OrderFlow for every value of its constants: its types,   *)
(* scheduler, logs, cancellations and deletions; then the stock, what the  *)
(* orders hold of it, and that the system keeps the promise of Fulfilment. *)
(***************************************************************************)
EXTENDS OrderFlow, SumTheorems

-----------------------------------------------------------------------------
(* The arithmetic of the stock column.                                      *)

\* Rounding a non-negative number of half units gives a natural number.
LEMMA RoundHalvesNat ==
    ASSUME NEW h \in Nat
    PROVE  RoundHalves(h) \in Nat
  BY DEF RoundHalves

\* Deducting what the WHERE clause found to be enough never goes below zero.
LEMMA DeductedNat ==
    ASSUME NEW s \in Nat, NEW h \in Nat, Enough(s, h)
    PROVE  Deducted(s, h) \in Nat
  <1>1. 2 * s - h \in Nat
    BY DEF Enough
  <1> QED
    BY <1>1, RoundHalvesNat DEF Deducted

LEMMA AddedBackNat ==
    ASSUME NEW s \in Nat, NEW h \in Nat
    PROVE  AddedBack(s, h) \in Nat
  <1>1. 2 * s + h \in Nat
    OBVIOUS
  <1> QED
    BY <1>1, RoundHalvesNat DEF AddedBack

-----------------------------------------------------------------------------
(* Type correctness.                                                        *)

LEMMA NoOrderType == NoOrder \in OrderRow
  BY DEF NoOrder, OrderRow, Statuses, Absent, Returned, BySystem

\* The row an operation leaves is again a row of orders.
LEMMA ToType ==
    ASSUME TypeOK, NEW o \in OrderIds, NEW status \in Statuses
    PROVE  To(o, status) \in OrderRow
  <1>1. order[o] \in OrderRow
    BY DEF TypeOK
  <1> QED
    BY <1>1 DEF To, OrderRow

\* A move keeps the types of the tables it writes.
LEMMA MoveType ==
    ASSUME TypeOK, NEW o \in OrderIds, NEW row \in OrderRow,
           NEW role \in RoleBuyer .. RoleSystem, Move(o, row, role)
    PROVE  /\ order' \in [OrderIds -> OrderRow]
           /\ log' \in [OrderIds -> Seq(LogRow)]
           /\ late' \subseteq OrderIds
  <1>1. [from |-> order[o].status, to |-> row.status, role |-> role] \in LogRow
    BY DEF TypeOK, OrderRow, LogRow
  <1>2. order' \in [OrderIds -> OrderRow]
    BY DEF TypeOK, Move
  <1>3. log' \in [OrderIds -> Seq(LogRow)]
    BY <1>1 DEF TypeOK, Move
  <1>4. late' \subseteq OrderIds
    BY DEF TypeOK, Move
  <1> QED
    BY <1>2, <1>3, <1>4

LEMMA GiveBackType ==
    ASSUME TypeOK, NEW o \in OrderIds, GiveBack(o)
    PROVE  stock' \in [Products -> Nat]
  <1>1. \A p \in Products : order[o].qty[p] \in Nat /\ stock[p] \in Nat
    BY DEF TypeOK, OrderRow
  <1> QED
    BY <1>1, AddedBackNat DEF GiveBack

LEMMA CancelByType ==
    ASSUME TypeOK, NEW o \in OrderIds, NEW by \in 0 .. BySystem,
           NEW role \in RoleBuyer .. RoleSystem, CancelBy(o, by, role)
    PROVE  /\ order' \in [OrderIds -> OrderRow]
           /\ log' \in [OrderIds -> Seq(LogRow)]
           /\ late' \subseteq OrderIds
           /\ stock' \in [Products -> Nat]
           /\ UNCHANGED <<listed, removed, open, stocked>>
  <1>1. Cancelled \in Statuses
    BY DEF Statuses, Absent, Cancelled, Returned
  <1>2. To(o, Cancelled) \in OrderRow
    BY <1>1, ToType
  <1>3. [To(o, Cancelled) EXCEPT !.cancelBy = by] \in OrderRow
    BY <1>2 DEF OrderRow
  <1> QED
    BY <1>3, MoveType, GiveBackType DEF CancelBy, GiveBackKeepRest

LEMMA LinesNat ==
    ASSUME NEW lines \in Lines, NEW p \in Products
    PROVE  lines[p] \in Nat
  <1>1. lines[p] \in Quantities \cup {0}
    BY DEF Lines
  <1>2. \A h \in Quantities : h \in Nat
    BY QuantitiesAssumption
  <1> QED
    BY <1>1, <1>2

LEMMA NewOrderType ==
    ASSUME NEW b \in Buyers, NEW s \in Shops, NEW lines \in Lines
    PROVE  NewOrder(b, s, lines) \in OrderRow
  <1>1. [p \in Products |-> IF ShopOf[p] = s THEN lines[p] ELSE 0] \in [Products -> Nat]
    BY LinesNat
  <1> QED
    BY <1>1 DEF NewOrder, OrderRow, Statuses, Pending, Absent, Returned, BySystem

LEMMA TypeInit == Init => TypeOK
  <1> SUFFICES ASSUME Init
               PROVE  TypeOK
    OBVIOUS
  <1>1. order \in [OrderIds -> OrderRow]
    BY NoOrderType DEF Init
  <1>2. log \in [OrderIds -> Seq(LogRow)]
    BY DEF Init
  <1>3. tick \in [phase: {"idle", "cancel", "complete"}, todo: SUBSET OrderIds,
                  arrived: SUBSET OrderIds]
    BY DEF Init, NoTick
  <1>4. /\ stock \in [Products -> Nat] /\ stocked \in [Products -> Int]
        /\ faults \in 0 .. MaxFaults
    BY QuantitiesAssumption, BoundsAssumption DEF Init
  <1> QED
    BY <1>1, <1>2, <1>3, <1>4 DEF Init, TypeOK

LEMMA TypeCreate ==
    ASSUME TypeOK, NEW b \in Buyers, NEW lines \in Lines,
           NEW id \in [ShopsIn(lines) -> OrderIds], CreateOrders(b, lines, id)
    PROVE  TypeOK'
  <1> DEFINE S == ShopsIn(lines)
  <1>1. S \subseteq Shops
    BY PartiesAssumption DEF ShopsIn
  <1>2. order' \in [OrderIds -> OrderRow]
    <2>1. ASSUME NEW o \in OrderIds, \E s \in S : id[s] = o
          PROVE  NewOrder(b, CHOOSE s \in S : id[s] = o, lines) \in OrderRow
      <3>1. (CHOOSE s \in S : id[s] = o) \in Shops
        BY <1>1, <2>1
      <3> QED
        BY <3>1, NewOrderType
    <2> QED
      BY <2>1 DEF CreateOrders, TypeOK
  <1>3. log' \in [OrderIds -> Seq(LogRow)]
    <2>1. CreatedRow \in LogRow
      BY DEF CreatedRow, LogRow, Statuses, Absent, Pending, Returned, RoleBuyer, RoleSystem
    <2>2. <<CreatedRow>> \in Seq(LogRow)
      BY <2>1
    <2> QED
      BY <2>2 DEF CreateOrders, TypeOK
  <1>4. stock' \in [Products -> Nat]
    <2>1. ASSUME NEW p \in Products, lines[p] > 0
          PROVE  Deducted(stock[p], lines[p]) \in Nat
      BY <2>1, LinesNat, DeductedNat DEF CreateOrders, Orderable, TypeOK
    <2> QED
      BY <2>1 DEF CreateOrders, TypeOK
  <1> QED
    BY <1>2, <1>3, <1>4 DEF CreateOrders, TypeOK

LEMMA TypeBuyer == TypeOK /\ BuyerStep => TypeOK'
  <1> SUFFICES ASSUME TypeOK, BuyerStep
               PROVE  TypeOK'
    OBVIOUS
  <1>1. CASE \E b \in Buyers, lines \in Lines : \E id \in [ShopsIn(lines) -> OrderIds] :
                CreateOrders(b, lines, id)
    BY <1>1, TypeCreate
  <1>2. ASSUME NEW b \in Buyers, NEW o \in OrderIds, Cancel(b, o)
        PROVE  TypeOK'
    <2>1. CancelBy(o, ByBuyer, RoleBuyer) /\ UNCHANGED <<tick, faults>>
      BY <1>2 DEF Cancel
    <2>2. ByBuyer \in 0 .. BySystem /\ RoleBuyer \in RoleBuyer .. RoleSystem
      BY DEF ByBuyer, BySystem, RoleBuyer, RoleSystem
    <2> QED
      BY <2>1, <2>2, CancelByType DEF TypeOK
  <1>3. ASSUME NEW b \in Buyers, NEW o \in OrderIds, Receive(b, o)
        PROVE  TypeOK'
    <2>1. RoleBuyer \in RoleBuyer .. RoleSystem /\ Completed \in Statuses
      BY DEF RoleBuyer, RoleSystem, Completed, Statuses, Absent, Returned
    <2> QED
      BY <1>3, <2>1, ToType, MoveType DEF TypeOK, Receive, KeepGoods, goods
  <1>4. ASSUME NEW b \in Buyers, NEW o \in OrderIds, SoftDelete(b, o)
        PROVE  TypeOK'
    <2>1. [order[o] EXCEPT !.deleted = TRUE] \in OrderRow
      <3>1. order[o] \in OrderRow
        BY DEF TypeOK
      <3> QED
        BY <3>1 DEF OrderRow
    <2>2. order' \in [OrderIds -> OrderRow]
      BY <1>4, <2>1 DEF SoftDelete, TypeOK
    <2> QED
      BY <1>4, <2>2 DEF TypeOK, SoftDelete, KeepGoods, goods
  <1> QED
    BY <1>1, <1>2, <1>3, <1>4 DEF BuyerStep

LEMMA TypeSeller == TypeOK /\ SellerStep => TypeOK'
  <1> SUFFICES ASSUME TypeOK, NEW s \in Shops, NEW o \in OrderIds,
                      Confirm(s, o) \/ Reject(s, o) \/ Deliver(s, o) \/ Arrived(s, o)
               PROVE  TypeOK'
    BY DEF SellerStep
  <1>1. RoleSeller \in RoleBuyer .. RoleSystem /\ BySeller \in 0 .. BySystem
    BY DEF RoleBuyer, RoleSeller, RoleSystem, BySeller, BySystem
  <1>2. Confirmed \in Statuses /\ Delivering \in Statuses /\ ArrivedAt \in Statuses
    BY DEF Confirmed, Delivering, ArrivedAt, Statuses, Absent, Returned
  <1>3. CASE Confirm(s, o)
    BY <1>1, <1>2, <1>3, ToType, MoveType DEF TypeOK, Confirm, KeepGoods, goods
  <1>4. CASE Reject(s, o)
    BY <1>1, <1>4, CancelByType DEF TypeOK, Reject
  <1>5. CASE Deliver(s, o)
    BY <1>1, <1>2, <1>5, ToType, MoveType DEF TypeOK, Deliver, KeepGoods, goods
  <1>6. CASE Arrived(s, o)
    BY <1>1, <1>2, <1>6, ToType, MoveType DEF TypeOK, Arrived, KeepGoods, goods
  <1> QED
    BY <1>3, <1>4, <1>5, <1>6

LEMMA TypeAdmin == TypeOK /\ AdminStep => TypeOK'
  <1> SUFFICES ASSUME TypeOK, NEW o \in OrderIds,
                      \/ \E flag \in BOOLEAN : UpdateSettlement(o, flag)
                      \/ \E to \in Statuses : UpdateReturnStatus(o, to)
               PROVE  TypeOK'
    BY DEF AdminStep
  <1>1. ASSUME NEW flag \in BOOLEAN, UpdateSettlement(o, flag)
        PROVE  TypeOK'
    <2>1. [order[o] EXCEPT !.settled = flag] \in OrderRow
      <3>1. order[o] \in OrderRow
        BY DEF TypeOK
      <3> QED
        BY <3>1 DEF OrderRow
    <2>2. order' \in [OrderIds -> OrderRow]
      BY <1>1, <2>1 DEF UpdateSettlement, TypeOK
    <2> QED
      BY <1>1, <2>2 DEF TypeOK, UpdateSettlement, KeepGoods, goods
  <1>2. ASSUME NEW to \in Statuses, UpdateReturnStatus(o, to)
        PROVE  TypeOK'
    <2>1. RoleAdmin \in RoleBuyer .. RoleSystem
      BY DEF RoleBuyer, RoleAdmin, RoleSystem
    <2>2. Move(o, To(o, to), RoleAdmin) /\ UNCHANGED <<tick, faults>>
      BY <1>2 DEF UpdateReturnStatus
    <2>3. /\ stock' \in [Products -> Nat]
          /\ UNCHANGED <<listed, removed, open, stocked>>
      BY <1>2, GiveBackType DEF UpdateReturnStatus, GiveBackKeepRest, KeepGoods, goods, TypeOK
    <2> QED
      BY <2>1, <2>2, <2>3, ToType, MoveType DEF TypeOK
  <1> QED
    BY <1>1, <1>2

LEMMA TypeGoods == TypeOK /\ GoodsStep => TypeOK'
  <1> SUFFICES ASSUME TypeOK, GoodsStep
               PROVE  TypeOK'
    OBVIOUS
  <1>1. ASSUME NEW p \in Products, NEW d \in Deltas, AdjustStock(p, d)
        PROVE  TypeOK'
    <2>1. stock[p] + d \in Nat /\ stocked[p] + 2 * d \in Int
      BY <1>1, QuantitiesAssumption DEF AdjustStock, TypeOK
    <2> QED
      BY <1>1, <2>1 DEF AdjustStock, KeepOrders, TypeOK
  <1>2. ASSUME NEW p \in Products, NEW n \in 0 .. MaxStock, UpdateProduct(p, n)
        PROVE  TypeOK'
    <2>1. n \in Nat /\ stocked[p] + 2 * (n - stock[p]) \in Int
      BY BoundsAssumption DEF TypeOK
    <2> QED
      BY <1>2, <2>1 DEF UpdateProduct, KeepOrders, TypeOK
  <1>3. ASSUME NEW p \in Products, NEW on \in BOOLEAN, WriteStatus(p, on)
        PROVE  TypeOK'
    BY <1>3 DEF WriteStatus, KeepOrders, TypeOK
  <1>4. ASSUME NEW p \in Products, DeleteProduct(p)
        PROVE  TypeOK'
    BY <1>4 DEF DeleteProduct, KeepOrders, TypeOK
  <1>5. ASSUME NEW s \in Shops, WriteShop(s)
        PROVE  TypeOK'
    BY <1>5 DEF WriteShop, KeepOrders, goods, TypeOK
  <1> QED
    BY <1>1, <1>2, <1>3, <1>4, <1>5 DEF GoodsStep

LEMMA TypeScheduler == TypeOK /\ SchedulerStep => TypeOK'
  <1> SUFFICES ASSUME TypeOK, SchedulerStep
               PROVE  TypeOK'
    OBVIOUS
  <1> DEFINE TickRow == [phase: {"idle", "cancel", "complete"}, todo: SUBSET OrderIds,
                         arrived: SUBSET OrderIds]
  <1>1. \A S \in SUBSET OrderIds : Batch(S) \subseteq OrderIds
    BY DEF Batch
  <1>2. \A status \in Statuses : Overdue(status) \subseteq OrderIds
    BY DEF Overdue, TypeOK
  <1>3. Pending \in Statuses /\ ArrivedAt \in Statuses /\ Completed \in Statuses
    BY DEF Pending, ArrivedAt, Completed, Statuses, Absent, Returned
  <1>4. RoleSystem \in RoleBuyer .. RoleSystem /\ BySystem \in 0 .. BySystem
    BY DEF RoleBuyer, RoleSystem, BySystem
  <1>5. ASSUME NEW o \in OrderIds, Done(o)
        PROVE  tick' \in TickRow
    BY <1>5 DEF Done, TypeOK
  <1>6. CASE TickStart
    <2>1. tick' \in TickRow
      BY <1>1, <1>2, <1>3, <1>6 DEF TickStart
    <2> QED
      BY <1>6, <2>1 DEF TickStart, KeepTables, KeepGoods, goods, TypeOK
  <1>7. ASSUME NEW o \in OrderIds, AutoCancelPendingOrder(o)
        PROVE  TypeOK'
    <2>1. /\ order' \in [OrderIds -> OrderRow]
          /\ log' \in [OrderIds -> Seq(LogRow)]
          /\ late' \subseteq OrderIds
          /\ stock' \in [Products -> Nat]
          /\ UNCHANGED <<listed, removed, open, stocked>>
      <3>1. CASE CancelBy(o, BySystem, RoleSystem)
        BY <1>4, <3>1, CancelByType
      <3>2. CASE KeepTables
        BY <3>2 DEF KeepTables, KeepGoods, goods, TypeOK
      <3> QED
        BY <1>7, <3>1, <3>2 DEF AutoCancelPendingOrder
    <2>2. tick' \in TickRow /\ UNCHANGED faults
      BY <1>5, <1>7 DEF AutoCancelPendingOrder
    <2> QED
      BY <2>1, <2>2 DEF TypeOK
  <1>8. CASE TickListArrived
    <2>1. tick' \in TickRow
      BY <1>1, <1>8 DEF TickListArrived, TypeOK
    <2> QED
      BY <1>8, <2>1 DEF TickListArrived, KeepTables, KeepGoods, goods, TypeOK
  <1>9. ASSUME NEW o \in OrderIds, AutoCompleteArrivedOrder(o)
        PROVE  TypeOK'
    <2>1. /\ order' \in [OrderIds -> OrderRow]
          /\ log' \in [OrderIds -> Seq(LogRow)]
          /\ late' \subseteq OrderIds
          /\ KeepGoods
      <3>1. CASE Move(o, To(o, Completed), RoleSystem) /\ KeepGoods
        BY <1>3, <1>4, <3>1, ToType, MoveType
      <3>2. CASE KeepTables
        BY <3>2 DEF KeepTables, TypeOK
      <3> QED
        BY <1>9, <3>1, <3>2 DEF AutoCompleteArrivedOrder
    <2>2. tick' \in TickRow /\ UNCHANGED faults
      BY <1>5, <1>9 DEF AutoCompleteArrivedOrder
    <2> QED
      BY <2>1, <2>2 DEF KeepGoods, goods, TypeOK
  <1>10. CASE TickEnd
    <2>1. tick' \in TickRow
      BY <1>10 DEF TickEnd, NoTick
    <2> QED
      BY <1>10, <2>1 DEF TickEnd, KeepTables, KeepGoods, goods, TypeOK
  <1> QED
    BY <1>6, <1>7, <1>8, <1>9, <1>10 DEF SchedulerStep

LEMMA TypeFault == TypeOK /\ SchedulerFault => TypeOK'
  <1> SUFFICES ASSUME TypeOK, SchedulerFault
               PROVE  TypeOK'
    OBVIOUS
  <1> DEFINE TickRow == [phase: {"idle", "cancel", "complete"}, todo: SUBSET OrderIds,
                         arrived: SUBSET OrderIds]
  <1>1. Fault
    BY DEF SchedulerFault, TickError, TickListError, Crash
  <1>2. faults' \in 0 .. MaxFaults
    BY <1>1, BoundsAssumption DEF Fault, TypeOK
  <1>3. tick' \in TickRow
    <2>1. NoTick \in TickRow
      BY DEF NoTick
    <2>2. ASSUME NEW o \in OrderIds, TickError(o)
          PROVE  tick' \in TickRow
      BY <2>2 DEF TickError, Done, TypeOK
    <2>3. Overdue(ArrivedAt) \subseteq OrderIds
      BY DEF Overdue, TypeOK
    <2>4. CASE TickListError
      BY <2>1, <2>3, <2>4 DEF TickListError
    <2>5. CASE Crash
      BY <2>1, <2>5 DEF Crash
    <2> QED
      BY <2>2, <2>4, <2>5 DEF SchedulerFault
  <1> QED
    BY <1>1, <1>2, <1>3 DEF Fault, KeepTables, KeepGoods, goods, TypeOK

\* Every step of the system keeps the types.
LEMMA TypeNext == TypeOK /\ [Next]_vars => TypeOK'
  <1> SUFFICES ASSUME TypeOK, [Next]_vars
               PROVE  TypeOK'
    OBVIOUS
  <1>1. ASSUME NEW o \in OrderIds, DeadlinePasses(o)
        PROVE  TypeOK'
    BY <1>1 DEF DeadlinePasses, KeepGoods, goods, TypeOK
  <1>2. CASE UNCHANGED vars
    BY <1>2 DEF vars, TypeOK
  <1> QED
    BY <1>1, <1>2, TypeBuyer, TypeSeller, TypeAdmin, TypeGoods, TypeScheduler, TypeFault
    DEF Next

\* In every reachable state each table holds rows of its schema; above all,
\* stock never goes below zero, whatever orders compete for it.
THEOREM TypeCorrect == Spec => []TypeOK
  BY TypeInit, TypeNext, PTL DEF Spec

-----------------------------------------------------------------------------
(* What one step may do to one order.  The theorems on orders follow from   *)
(* the four cases below and never look at the actions again.                *)

Untouched(o) ==
    /\ order'[o] = order[o] /\ log'[o] = log[o]
    /\ o \in late => o \in late'

Created(o) ==
    /\ order[o].status = Absent /\ order'[o].status = Pending
    /\ order'[o].cancelBy = 0 /\ order'[o].deleted = FALSE
    /\ log'[o] = <<CreatedRow>>

\* Settled or deleted.
Marked(o) ==
    /\ Visible(o)
    /\ order'[o].status = order[o].status /\ order'[o].cancelBy = order[o].cancelBy
    /\ order'[o].deleted => order[o].status \in {Completed, Cancelled}
    /\ log'[o] = log[o]
    /\ o \in late => o \in late'

Signature(row, role) ==
    <<row.cancelBy, role>> \in
       {<<ByBuyer, RoleBuyer>>, <<BySeller, RoleSeller>>, <<BySystem, RoleSystem>>}

LogRowOf(o, row, role) == [from |-> order[o].status, to |-> row.status, role |-> role]

Moved1(o, row, role) ==
    /\ Visible(o)
    /\ LogRowOf(o, row, role) \in LegalRows
    /\ row.deleted = FALSE
    /\ IF row.status = Cancelled THEN Signature(row, role)
       ELSE row.cancelBy = order[o].cancelBy
    /\ role = RoleSystem => o \in late
    /\ order'[o] = row /\ log'[o] = Append(log[o], LogRowOf(o, row, role))

MovedOn(o) == \E row \in OrderRow, role \in RoleBuyer .. RoleSystem : Moved1(o, row, role)

OrderStep(o) == Untouched(o) \/ Created(o) \/ Marked(o) \/ MovedOn(o)

LEMMA CreateIsOrderStep ==
    ASSUME TypeOK, NEW b, NEW lines, NEW id, CreateOrders(b, lines, id), NEW x \in OrderIds
    PROVE  OrderStep(x)
  <1> DEFINE S == ShopsIn(lines)
  <1>1. CASE \E s \in S : id[s] = x
    <2>1. order[x].status = Absent
      BY <1>1 DEF CreateOrders, NextIds
    <2>2. order'[x] = NewOrder(b, CHOOSE s \in S : id[s] = x, lines) /\ log'[x] = <<CreatedRow>>
      BY <1>1 DEF CreateOrders
    <2> QED
      BY <2>1, <2>2 DEF NewOrder, Created, OrderStep
  <1>2. CASE ~ \E s \in S : id[s] = x
    BY <1>2 DEF CreateOrders, Untouched, OrderStep
  <1> QED
    BY <1>1, <1>2

\* A move of o touches no other order.
LEMMA MoveOther ==
    ASSUME TypeOK, NEW o \in OrderIds, NEW row, NEW role, Move(o, row, role),
           NEW x \in OrderIds, x # o
    PROVE  Untouched(x)
  BY DEF Move, Untouched, TypeOK

\* A legal move from a status that is not Cancelled is an OrderStep of o.
LEMMA MoveIsOrderStep ==
    ASSUME TypeOK, NEW o \in OrderIds, NEW status \in Statuses,
           NEW role \in RoleBuyer .. RoleSystem,
           Visible(o), Move(o, To(o, status), role), status # Cancelled,
           LogRowOf(o, To(o, status), role) \in LegalRows,
           role = RoleSystem => o \in late
    PROVE  \A x \in OrderIds : OrderStep(x)
  <1>1. To(o, status) \in OrderRow
    BY ToType
  <1>2. To(o, status).status = status /\ To(o, status).deleted = FALSE
        /\ To(o, status).cancelBy = order[o].cancelBy
    BY DEF To, TypeOK, OrderRow, Visible
  <1>3. order'[o] = To(o, status) /\ log'[o] = Append(log[o], LogRowOf(o, To(o, status), role))
    BY DEF Move, LogRowOf, TypeOK
  <1>4. Moved1(o, To(o, status), role)
    BY <1>2, <1>3 DEF Moved1
  <1>5. OrderStep(o)
    BY <1>1, <1>4 DEF MovedOn, OrderStep
  <1> QED
    BY <1>5, MoveOther DEF OrderStep

LEMMA CancelIsOrderStep ==
    ASSUME TypeOK, NEW o \in OrderIds, NEW by \in 0 .. BySystem,
           NEW role \in RoleBuyer .. RoleSystem, CancelBy(o, by, role),
           <<by, role>> \in {<<ByBuyer, RoleBuyer>>, <<BySeller, RoleSeller>>,
                             <<BySystem, RoleSystem>>},
           role = RoleSystem => o \in late
    PROVE  \A x \in OrderIds : OrderStep(x)
  <1> DEFINE row == [To(o, Cancelled) EXCEPT !.cancelBy = by]
  <1>1. To(o, Cancelled) \in OrderRow
    <2>1. Cancelled \in Statuses
      BY DEF Cancelled, Statuses, Absent, Returned
    <2> QED
      BY <2>1, ToType
  <1>2. row \in OrderRow
    BY <1>1 DEF OrderRow
  <1>3. Visible(o) /\ order[o].status = Pending
    BY DEF CancelBy, IsAt
  <1>4. row.status = Cancelled /\ row.cancelBy = by /\ row.deleted = FALSE
    BY <1>1, <1>3 DEF To, OrderRow, TypeOK, Visible
  <1>5. order'[o] = row /\ log'[o] = Append(log[o], LogRowOf(o, row, role))
    BY DEF CancelBy, Move, LogRowOf, TypeOK
  <1>6. LogRowOf(o, row, role) \in LegalRows
    <2>1. role \in {RoleBuyer, RoleSeller, RoleSystem}
      OBVIOUS
    <2> QED
      BY <1>3, <1>4, <2>1 DEF LogRowOf, LegalRows
  <1>7. Signature(row, role)
    BY <1>4 DEF Signature
  <1>8. Moved1(o, row, role)
    BY <1>3, <1>4, <1>5, <1>6, <1>7 DEF Moved1
  <1>9. OrderStep(o)
    BY <1>2, <1>8 DEF MovedOn, OrderStep
  <1>10. Move(o, row, role)
    BY DEF CancelBy
  <1> QED
    BY <1>9, <1>10, MoveOther DEF OrderStep

LEMMA MarkIsOrderStep ==
    ASSUME TypeOK, NEW o \in OrderIds, Visible(o), NEW row \in OrderRow,
           order' = [order EXCEPT ![o] = row], UNCHANGED <<log, late>>,
           row.status = order[o].status, row.cancelBy = order[o].cancelBy,
           row.deleted => order[o].status \in {Completed, Cancelled}
    PROVE  \A x \in OrderIds : OrderStep(x)
  <1>1. Marked(o)
    BY DEF Marked, TypeOK
  <1>2. ASSUME NEW x \in OrderIds, x # o
        PROVE  Untouched(x)
    BY <1>2 DEF Untouched, TypeOK
  <1> QED
    BY <1>1, <1>2 DEF OrderStep

\* Steps that leave orders and their logs alone.
LEMMA OtherIsOrderStep ==
    ASSUME UNCHANGED <<order, log>>, late \subseteq late'
    PROVE  \A x \in OrderIds : OrderStep(x)
  BY DEF OrderStep, Untouched

LEMMA BuyerIsOrderStep ==
    ASSUME TypeOK, BuyerStep
    PROVE  \A x \in OrderIds : OrderStep(x)
  <1>1. CASE \E b \in Buyers, lines \in Lines : \E id \in [ShopsIn(lines) -> OrderIds] :
                CreateOrders(b, lines, id)
    BY <1>1, CreateIsOrderStep
  <1>2. ASSUME NEW b \in Buyers, NEW o \in OrderIds, Cancel(b, o)
        PROVE  \A x \in OrderIds : OrderStep(x)
    <2>1. /\ CancelBy(o, ByBuyer, RoleBuyer)
          /\ ByBuyer \in 0 .. BySystem /\ RoleBuyer \in RoleBuyer .. RoleSystem
          /\ RoleBuyer # RoleSystem
      BY <1>2 DEF Cancel, ByBuyer, BySystem, RoleBuyer, RoleSystem
    <2> QED
      BY <2>1, CancelIsOrderStep
  <1>3. ASSUME NEW b \in Buyers, NEW o \in OrderIds, Receive(b, o)
        PROVE  \A x \in OrderIds : OrderStep(x)
    <2>1. /\ Visible(o) /\ order[o].status = ArrivedAt
          /\ Move(o, To(o, Completed), RoleBuyer)
      BY <1>3 DEF Receive, IsAt
    <2>2. /\ RoleBuyer \in RoleBuyer .. RoleSystem /\ RoleBuyer # RoleSystem
          /\ Completed \in Statuses /\ Completed # Cancelled
      BY DEF RoleBuyer, RoleSystem, Completed, Cancelled, Statuses, Absent, Returned
    <2>3. LogRowOf(o, To(o, Completed), RoleBuyer) \in LegalRows
      BY <2>1 DEF LogRowOf, LegalRows, To, TypeOK, OrderRow
    <2> QED
      BY <2>1, <2>2, <2>3, MoveIsOrderStep
  <1>4. ASSUME NEW b \in Buyers, NEW o \in OrderIds, SoftDelete(b, o)
        PROVE  \A x \in OrderIds : OrderStep(x)
    <2> DEFINE row == [order[o] EXCEPT !.deleted = TRUE]
    <2>1. row \in OrderRow /\ row.status = order[o].status /\ row.cancelBy = order[o].cancelBy
      <3>1. order[o] \in OrderRow
        BY DEF TypeOK
      <3> QED
        BY <3>1 DEF OrderRow
    <2>2. order' = [order EXCEPT ![o] = row] /\ UNCHANGED <<log, late>> /\ Visible(o)
      BY <1>4 DEF SoftDelete, IsAt
    <2>3. order[o].status \in {Completed, Cancelled}
      BY <1>4 DEF SoftDelete, IsAt
    <2> QED
      BY <2>1, <2>2, <2>3, MarkIsOrderStep
  <1> QED
    BY <1>1, <1>2, <1>3, <1>4 DEF BuyerStep

LEMMA SellerIsOrderStep ==
    ASSUME TypeOK, SellerStep
    PROVE  \A x \in OrderIds : OrderStep(x)
  <1> SUFFICES ASSUME NEW s \in Shops, NEW o \in OrderIds,
                      Confirm(s, o) \/ Reject(s, o) \/ Deliver(s, o) \/ Arrived(s, o)
               PROVE  \A x \in OrderIds : OrderStep(x)
    BY DEF SellerStep
  <1>1. /\ RoleSeller \in RoleBuyer .. RoleSystem /\ RoleSeller # RoleSystem
        /\ BySeller \in 0 .. BySystem
    BY DEF RoleBuyer, RoleSeller, RoleSystem, BySeller, BySystem
  <1>2. /\ {Confirmed, Delivering, ArrivedAt} \subseteq Statuses
        /\ Cancelled \notin {Confirmed, Delivering, ArrivedAt}
    BY DEF Confirmed, Delivering, ArrivedAt, Cancelled, Statuses, Absent, Returned
  <1>3. \A to \in {Confirmed, Delivering, ArrivedAt} : To(o, to).status = to
    BY DEF To, TypeOK, OrderRow
  <1>4. CASE Confirm(s, o)
    <2>1. Visible(o) /\ Move(o, To(o, Confirmed), RoleSeller)
      BY <1>4 DEF Confirm, IsAt
    <2>2. LogRowOf(o, To(o, Confirmed), RoleSeller) \in LegalRows
      BY <1>3, <1>4 DEF Confirm, IsAt, LogRowOf, LegalRows
    <2> QED
      BY <1>1, <1>2, <2>1, <2>2, MoveIsOrderStep
  <1>5. CASE Reject(s, o)
    <2>1. CancelBy(o, BySeller, RoleSeller)
      BY <1>5 DEF Reject
    <2> QED
      BY <1>1, <2>1, CancelIsOrderStep
  <1>6. CASE Deliver(s, o)
    <2>1. Visible(o) /\ Move(o, To(o, Delivering), RoleSeller)
      BY <1>6 DEF Deliver, IsAt
    <2>2. LogRowOf(o, To(o, Delivering), RoleSeller) \in LegalRows
      BY <1>3, <1>6 DEF Deliver, IsAt, LogRowOf, LegalRows
    <2> QED
      BY <1>1, <1>2, <2>1, <2>2, MoveIsOrderStep
  <1>7. CASE Arrived(s, o)
    <2>1. Visible(o) /\ Move(o, To(o, ArrivedAt), RoleSeller)
      BY <1>7 DEF Arrived, IsAt
    <2>2. LogRowOf(o, To(o, ArrivedAt), RoleSeller) \in LegalRows
      BY <1>3, <1>7 DEF Arrived, IsAt, LogRowOf, LegalRows
    <2> QED
      BY <1>1, <1>2, <2>1, <2>2, MoveIsOrderStep
  <1> QED
    BY <1>4, <1>5, <1>6, <1>7

LEMMA AdminIsOrderStep ==
    ASSUME TypeOK, AdminStep
    PROVE  \A x \in OrderIds : OrderStep(x)
  <1>1. ASSUME NEW o \in OrderIds, NEW flag \in BOOLEAN, UpdateSettlement(o, flag)
        PROVE  \A x \in OrderIds : OrderStep(x)
    <2> DEFINE row == [order[o] EXCEPT !.settled = flag]
    <2>1. /\ row \in OrderRow /\ row.status = order[o].status
          /\ row.cancelBy = order[o].cancelBy /\ row.deleted = order[o].deleted
      <3>1. order[o] \in OrderRow
        BY DEF TypeOK
      <3> QED
        BY <3>1 DEF OrderRow
    <2>2. order' = [order EXCEPT ![o] = row] /\ UNCHANGED <<log, late>> /\ Visible(o)
      BY <1>1 DEF UpdateSettlement
    <2> QED
      BY <2>1, <2>2, MarkIsOrderStep DEF Visible
  <1>2. ASSUME NEW o \in OrderIds, NEW to \in Statuses, UpdateReturnStatus(o, to)
        PROVE  \A x \in OrderIds : OrderStep(x)
    <2>1. /\ Visible(o) /\ Move(o, To(o, to), RoleAdmin)
          /\ <<order[o].status, to>> \in ReturnMoves
      BY <1>2 DEF UpdateReturnStatus
    <2>2. To(o, to).status = to
      BY DEF To, TypeOK, OrderRow
    <2>3. LogRowOf(o, To(o, to), RoleAdmin) \in LegalRows
      BY <2>1, <2>2 DEF LogRowOf, LegalRows, ReturnMoves
    <2>4. /\ to # Cancelled /\ RoleAdmin \in RoleBuyer .. RoleSystem
          /\ RoleAdmin # RoleSystem
      BY <2>1 DEF ReturnMoves, Completed, Returning, Returned, Cancelled,
                  RoleBuyer, RoleAdmin, RoleSystem
    <2> QED
      BY <2>1, <2>3, <2>4, MoveIsOrderStep
  <1> QED
    BY <1>1, <1>2 DEF AdminStep

LEMMA SchedulerIsOrderStep ==
    ASSUME TypeOK, HeldIdsStayDue, SchedulerStep
    PROVE  \A x \in OrderIds : OrderStep(x)
  <1>1. /\ RoleSystem \in RoleBuyer .. RoleSystem /\ BySystem \in 0 .. BySystem
        /\ Completed \in Statuses /\ Completed # Cancelled
    BY DEF RoleBuyer, RoleSystem, BySystem, Completed, Cancelled, Statuses, Absent, Returned
  <1>2. CASE KeepTables
    BY <1>2, OtherIsOrderStep DEF KeepTables
  <1>3. ASSUME NEW o \in OrderIds, AutoCancelPendingOrder(o), ~KeepTables
        PROVE  \A x \in OrderIds : OrderStep(x)
    <2>1. CancelBy(o, BySystem, RoleSystem) /\ IsAt(o, Pending)
      BY <1>3 DEF AutoCancelPendingOrder, StillPending
    <2>2. o \in late
      BY <1>3, <2>1 DEF AutoCancelPendingOrder, Working, IsAt, HeldIdsStayDue, CancelDue,
                        DueOrBeyond
    <2> QED
      BY <1>1, <2>1, <2>2, CancelIsOrderStep
  <1>4. ASSUME NEW o \in OrderIds, AutoCompleteArrivedOrder(o), ~KeepTables
        PROVE  \A x \in OrderIds : OrderStep(x)
    <2>1. Move(o, To(o, Completed), RoleSystem) /\ IsAt(o, ArrivedAt)
      BY <1>4 DEF AutoCompleteArrivedOrder, StillArrived
    <2>2. o \in late
      BY <1>4, <2>1 DEF AutoCompleteArrivedOrder, Working, IsAt, HeldIdsStayDue, CompleteDue,
                        DueOrBeyond
    <2>3. LogRowOf(o, To(o, Completed), RoleSystem) \in LegalRows
      BY <2>1 DEF IsAt, LogRowOf, LegalRows, To, TypeOK, OrderRow
    <2> QED
      BY <1>1, <2>1, <2>2, <2>3, MoveIsOrderStep DEF IsAt
  <1> QED
    BY <1>2, <1>3, <1>4 DEF SchedulerStep, TickStart, TickListArrived, TickEnd

\* Whatever step is taken, each order is created, marked, moved on or untouched.
LEMMA EveryStep ==
    ASSUME TypeOK, HeldIdsStayDue, [Next]_vars
    PROVE  \A x \in OrderIds : OrderStep(x)
  <1>1. CASE GoodsStep
    BY <1>1, OtherIsOrderStep
    DEF GoodsStep, AdjustStock, UpdateProduct, WriteStatus, DeleteProduct, WriteShop, KeepOrders
  <1>2. CASE \E o \in OrderIds : DeadlinePasses(o)
    BY <1>2, OtherIsOrderStep DEF DeadlinePasses
  <1>3. CASE SchedulerFault
    BY <1>3, OtherIsOrderStep
    DEF SchedulerFault, TickError, TickListError, Crash, Fault, KeepTables
  <1>4. CASE UNCHANGED vars
    BY <1>4, OtherIsOrderStep DEF vars
  <1> QED
    BY <1>1, <1>2, <1>3, <1>4, BuyerIsOrderStep, SellerIsOrderStep, AdminIsOrderStep,
       SchedulerIsOrderStep DEF Next

-----------------------------------------------------------------------------
(* The ids the scheduler holds.                                             *)

\* Nothing brings an order back to a status the scheduler listed it for.
LEMMA DueStays ==
    ASSUME TypeOK, NEW o \in OrderIds, OrderStep(o)
    PROVE  /\ CancelDue(o) => CancelDue(o)'
           /\ CompleteDue(o) => CompleteDue(o)'
  <1> USE DEF CancelDue, CompleteDue, DueOrBeyond, Absent, Pending, Confirmed, Delivering,
              ArrivedAt, Completed, Cancelled, Returning, Returned
  <1>1. CASE Untouched(o)
    BY <1>1 DEF Untouched
  <1>2. CASE Created(o)
    BY <1>2 DEF Created
  <1>3. CASE Marked(o)
    BY <1>3 DEF Marked
  <1>4. CASE MovedOn(o)
    <2>1. <<order[o].status, order'[o].status>> \in
            {<<Pending, Confirmed>>, <<Pending, Cancelled>>, <<Confirmed, Delivering>>,
             <<Delivering, ArrivedAt>>, <<ArrivedAt, Completed>>, <<Completed, Returning>>,
             <<Returning, Returned>>, <<Returning, Completed>>}
      BY <1>4 DEF MovedOn, Moved1, LogRowOf, LegalRows, Visible
    <2> QED
      BY <2>1
  <1> QED
    BY <1>1, <1>2, <1>3, <1>4 DEF OrderStep

\* Steps that shrink or keep what the scheduler holds.
LEMMA HeldShrinks ==
    ASSUME TypeOK, HeldIdsStayDue, [Next]_vars, tick'.phase = tick.phase,
           tick'.todo \subseteq tick.todo, tick'.arrived \subseteq tick.arrived
    PROVE  HeldIdsStayDue'
  <1>1. \A o \in OrderIds : OrderStep(o)
    BY EveryStep
  <1>2. tick.todo \subseteq OrderIds /\ tick.arrived \subseteq OrderIds
    BY DEF TypeOK
  <1> QED
    BY <1>1, <1>2, DueStays DEF HeldIdsStayDue

LEMMA HeldInit == Init => HeldIdsStayDue
  BY DEF Init, NoTick, HeldIdsStayDue

LEMMA HeldNext == TypeOK /\ HeldIdsStayDue /\ [Next]_vars => HeldIdsStayDue'
  <1> SUFFICES ASSUME TypeOK, HeldIdsStayDue, [Next]_vars
               PROVE  HeldIdsStayDue'
    OBVIOUS
  <1>1. CASE UNCHANGED tick
    BY <1>1, HeldShrinks
  <1>2. ASSUME NEW o \in OrderIds, Done(o)
        PROVE  HeldIdsStayDue'
    <2>1. tick'.phase = tick.phase /\ tick'.todo \subseteq tick.todo
          /\ tick'.arrived = tick.arrived
      BY <1>2 DEF Done, TypeOK
    <2> QED
      BY <2>1, HeldShrinks
  <1>3. CASE tick' = NoTick
    BY <1>3 DEF NoTick, HeldIdsStayDue
  <1>4. \A o \in Overdue(Pending) : CancelDue(o)
    BY DEF Overdue, IsAt, CancelDue, DueOrBeyond
  <1>5. \A o \in Overdue(ArrivedAt) : CompleteDue(o)
    BY DEF Overdue, IsAt, CompleteDue, DueOrBeyond
  <1>6. ASSUME UNCHANGED <<order, late>>, NEW o, CancelDue(o) \/ CompleteDue(o)
        PROVE  /\ CancelDue(o) => CancelDue(o)'
               /\ CompleteDue(o) => CompleteDue(o)'
    BY <1>6 DEF CancelDue, CompleteDue, DueOrBeyond
  <1>7. CASE TickStart
    <2>1. /\ tick'.phase = "cancel" /\ tick'.todo = Batch(Overdue(Pending))
          /\ tick'.arrived = Overdue(ArrivedAt) /\ UNCHANGED <<order, late>>
      BY <1>7 DEF TickStart, KeepTables
    <2>2. Batch(Overdue(Pending)) \subseteq Overdue(Pending)
      BY DEF Batch
    <2>3. \A o \in tick'.todo : CancelDue(o)'
      BY <1>4, <1>6, <2>1, <2>2
    <2>4. \A o \in tick'.arrived : CompleteDue(o)'
      BY <1>5, <1>6, <2>1
    <2> QED
      BY <2>1, <2>3, <2>4 DEF HeldIdsStayDue
  <1>8. CASE TickListArrived
    <2>1. /\ tick'.phase = "complete" /\ tick'.todo \subseteq tick.arrived
          /\ tick'.arrived = {} /\ UNCHANGED <<order, late>>
      BY <1>8 DEF TickListArrived, KeepTables, Batch
    <2>2. \A o \in tick'.todo : CompleteDue(o)'
      BY <1>6, <2>1 DEF HeldIdsStayDue
    <2> QED
      BY <2>1, <2>2 DEF HeldIdsStayDue
  <1>9. CASE TickListError
    <2>1. ASSUME tick' = [phase |-> "cancel", todo |-> {}, arrived |-> Overdue(ArrivedAt)]
          PROVE  HeldIdsStayDue'
      <3>1. UNCHANGED <<order, late>>
        BY <1>9 DEF TickListError, Fault, KeepTables
      <3> QED
        BY <1>5, <1>6, <2>1, <3>1 DEF HeldIdsStayDue
    <2> QED
      BY <1>3, <1>9, <2>1 DEF TickListError
  <1>10. CASE SchedulerStep
    BY <1>2, <1>3, <1>7, <1>8, <1>10
    DEF SchedulerStep, AutoCancelPendingOrder, AutoCompleteArrivedOrder, TickEnd
  <1>11. CASE SchedulerFault
    BY <1>2, <1>3, <1>9, <1>11 DEF SchedulerFault, TickError, Crash
  <1>12. CASE BuyerStep \/ SellerStep \/ AdminStep
    BY <1>1, <1>12 DEF BuyerStep, CreateOrders, Cancel, Receive, SoftDelete, SellerStep, Confirm,
                       Reject, Deliver, Arrived, AdminStep, UpdateSettlement, UpdateReturnStatus
  <1>13. CASE GoodsStep
    BY <1>1, <1>13 DEF GoodsStep, AdjustStock, UpdateProduct, WriteStatus, DeleteProduct,
                       WriteShop, KeepOrders
  <1>14. CASE (\E o \in OrderIds : DeadlinePasses(o)) \/ UNCHANGED vars
    BY <1>1, <1>14 DEF DeadlinePasses, vars
  <1> QED
    BY <1>10, <1>11, <1>12, <1>13, <1>14 DEF Next

\* However long ago the scheduler read its lists, each id it holds is of an
\* order that is overdue in the status it was listed for or never returns to it.
THEOREM HeldIdsCorrect == Spec => []HeldIdsStayDue
  <1>1. TypeOK /\ HeldIdsStayDue /\ [Next]_vars => (TypeOK /\ HeldIdsStayDue)'
    BY TypeNext, HeldNext
  <1> QED
    BY TypeInit, HeldInit, <1>1, PTL DEF Spec

-----------------------------------------------------------------------------
(* History, cancellation and deletion.  The three are proved as one         *)
(* inductive invariant, because none of them is inductive without the       *)
(* others: that the last log row names the canceller needs a log that ends  *)
(* in the present status, and a row is out of reach when deleted only if it *)
(* was created before.                                                      *)

History(o) ==
    /\ LogComplete(o) /\ LogConnected(o) /\ LogLegal(o)
    /\ (order[o].cancelBy # 0) = (order[o].status = Cancelled)
    /\ order[o].status = Cancelled =>
          <<order[o].cancelBy, LastRole(o)>> \in
             {<<ByBuyer, RoleBuyer>>, <<BySeller, RoleSeller>>, <<BySystem, RoleSystem>>}
    /\ order[o].deleted => order[o].status \in {Completed, Cancelled}

OrderInv == TypeOK /\ HeldIdsStayDue /\ \A o \in OrderIds : History(o)

\* What appending a row does to a chain of moves.
LEMMA AppendKeepsChain ==
    ASSUME NEW l \in Seq(LogRow), NEW row \in LogRow, l # <<>>,
           l[1].from = Absent, l[Len(l)].to = row.from,
           \A i \in 1 .. Len(l) - 1 : l[i].to = l[i + 1].from,
           \A i \in 1 .. Len(l) : l[i] \in LegalRows,
           row \in LegalRows
    PROVE  LET k == Append(l, row)
           IN  /\ k # <<>> /\ k[1].from = Absent /\ k[Len(k)] = row
               /\ \A i \in 1 .. Len(k) - 1 : k[i].to = k[i + 1].from
               /\ \A i \in 1 .. Len(k) : k[i] \in LegalRows
  <1> DEFINE k == Append(l, row)
  <1>1. Len(l) \in Nat \ {0} /\ Len(k) = Len(l) + 1
    OBVIOUS
  <1>2. \A i \in 1 .. Len(l) : k[i] = l[i]
    OBVIOUS
  <1>3. k[Len(l) + 1] = row
    OBVIOUS
  <1>4. ASSUME NEW i \in 1 .. Len(l)
        PROVE  k[i].to = k[i + 1].from
    <2>1. CASE i = Len(l)
      BY <1>2, <1>3, <2>1
    <2>2. CASE i \in 1 .. Len(l) - 1
      BY <1>1, <1>2, <2>2
    <2> QED
      BY <1>1, <2>1, <2>2
  <1>5. ASSUME NEW i \in 1 .. Len(k)
        PROVE  k[i] \in LegalRows
    BY <1>1, <1>2, <1>3
  <1>6. k # <<>> /\ k[1].from = Absent /\ k[Len(k)] = row
    BY <1>1, <1>2, <1>3
  <1> QED
    BY <1>1, <1>4, <1>5, <1>6

LEMMA HistoryInit == Init => \A o \in OrderIds : History(o)
  BY DEF Init, NoOrder, History, LogComplete, LogConnected, LogLegal, Absent, Cancelled

LEMMA HistoryCreated ==
    ASSUME TypeOK, NEW o \in OrderIds, Created(o)
    PROVE  History(o)'
  <1>1. log'[o] = <<CreatedRow>> /\ Len(log'[o]) = 1 /\ log'[o][1] = CreatedRow
    BY DEF Created
  <1>2. CreatedRow \in LegalRows /\ CreatedRow.from = Absent /\ CreatedRow.to = Pending
    BY DEF CreatedRow, LegalRows
  <1> QED
    BY <1>1, <1>2 DEF Created, History, LogComplete, LogConnected, LogLegal, Absent, Pending,
                      Cancelled

LEMMA HistoryMoved ==
    ASSUME TypeOK, NEW o \in OrderIds, History(o), MovedOn(o)
    PROVE  History(o)'
  <1> PICK row \in OrderRow, role \in RoleBuyer .. RoleSystem : Moved1(o, row, role)
    BY DEF MovedOn
  <1> DEFINE entry == LogRowOf(o, row, role)
  <1>1. log[o] \in Seq(LogRow) /\ entry \in LogRow
    BY DEF TypeOK, OrderRow, LogRow, LogRowOf
  <1>2. log[o] # <<>> /\ log[o][1].from = Absent /\ log[o][Len(log[o])].to = entry.from
    BY DEF Moved1, Visible, History, LogComplete, LogRowOf
  <1>3. /\ \A i \in 1 .. Len(log[o]) - 1 : log[o][i].to = log[o][i + 1].from
        /\ \A i \in 1 .. Len(log[o]) : log[o][i] \in LegalRows
        /\ entry \in LegalRows
    BY DEF History, LogConnected, LogLegal, Moved1
  <1>4. log'[o] = Append(log[o], entry) /\ order'[o] = row
    BY DEF Moved1
  <1>5. /\ log'[o] # <<>> /\ log'[o][1].from = Absent /\ log'[o][Len(log'[o])] = entry
        /\ \A i \in 1 .. Len(log'[o]) - 1 : log'[o][i].to = log'[o][i + 1].from
        /\ \A i \in 1 .. Len(log'[o]) : log'[o][i] \in LegalRows
    BY <1>1, <1>2, <1>3, <1>4, AppendKeepsChain
  <1>6. entry.to = row.status /\ entry.role = role /\ row.status # Absent
    BY DEF LogRowOf, Moved1, LegalRows, Absent, Pending, Confirmed, Delivering, ArrivedAt,
           Completed, Cancelled, Returning, Returned
  <1>7. LogComplete(o)' /\ LogConnected(o)' /\ LogLegal(o)'
    BY <1>4, <1>5, <1>6 DEF LogComplete, LogConnected, LogLegal
  <1>8. (row.cancelBy # 0) = (row.status = Cancelled)
    <2>1. CASE row.status = Cancelled
      BY <2>1 DEF Moved1, Signature, ByBuyer, BySeller, BySystem
    <2>2. CASE row.status # Cancelled
      <3>1. order[o].status # Cancelled
        BY <1>3 DEF LogRowOf, LegalRows, Absent, Pending, Confirmed, Delivering, ArrivedAt,
                    Completed, Cancelled, Returning, Returned
      <3> QED
        BY <2>2, <3>1 DEF Moved1, History
    <2> QED
      BY <2>1, <2>2
  <1>9. row.status = Cancelled => Signature(row, LastRole(o)')
    BY <1>5, <1>6 DEF Moved1, LastRole
  <1>10. row.deleted = FALSE
    BY DEF Moved1
  <1> QED
    BY <1>4, <1>7, <1>8, <1>9, <1>10 DEF History, Signature

LEMMA HistoryStep ==
    ASSUME TypeOK, NEW o \in OrderIds, History(o), OrderStep(o)
    PROVE  History(o)'
  <1>1. CASE Untouched(o)
    BY <1>1 DEF Untouched, History, LogComplete, LogConnected, LogLegal, LastRole
  <1>2. CASE Marked(o)
    BY <1>2 DEF Marked, History, LogComplete, LogConnected, LogLegal, LastRole
  <1> QED
    BY <1>1, <1>2, HistoryCreated, HistoryMoved DEF OrderStep

THEOREM OrderInvCorrect == Spec => []OrderInv
  <1>1. Init => OrderInv
    BY TypeInit, HeldInit, HistoryInit DEF OrderInv
  <1>2. OrderInv /\ [Next]_vars => OrderInv'
    <2> SUFFICES ASSUME OrderInv, [Next]_vars
                 PROVE  OrderInv'
      OBVIOUS
    <2>1. TypeOK' /\ HeldIdsStayDue'
      BY TypeNext, HeldNext DEF OrderInv
    <2>2. ASSUME NEW o \in OrderIds
          PROVE  History(o)'
      BY EveryStep, HistoryStep DEF OrderInv
    <2> QED
      BY <2>1, <2>2 DEF OrderInv
  <1> QED
    BY <1>1, <1>2, PTL DEF Spec

\* In every reachable state the log of each order is an unbroken chain of
\* legal moves from its creation to its present status.
THEOREM LogCorrect == Spec => []LogTellsHistory
  <1>1. OrderInv => LogTellsHistory
    BY DEF OrderInv, History, LogTellsHistory
  <1> QED
    BY <1>1, OrderInvCorrect, PTL

\* However buyer, seller and scheduler race for a pending order, exactly the
\* cancelled ones name their canceller, and it is who made the last move.
THEOREM CancellationCorrect == Spec => []CancellationAttributed
  <1>1. OrderInv => CancellationAttributed
    BY DEF OrderInv, History, CancellationAttributed
  <1> QED
    BY <1>1, OrderInvCorrect, PTL

\* No step of anybody changes a deleted order or its log.
THEOREM DeletedCorrect == Spec => DeletedIsFrozen
  <1>1. ASSUME OrderInv, [Next]_vars, NEW o \in OrderIds, order[o].deleted
        PROVE  order'[o] = order[o] /\ log'[o] = log[o]
    <2>1. order[o].status # Absent /\ ~Visible(o)
      BY <1>1 DEF OrderInv, History, Visible, Absent, Completed, Cancelled
    <2>2. OrderStep(o)
      BY <1>1, EveryStep DEF OrderInv
    <2> QED
      BY <2>1, <2>2 DEF OrderStep, Untouched, Created, Marked, MovedOn, Moved1
  <1>2. OrderInv /\ [Next]_vars =>
          [\A o \in OrderIds :
              order[o].deleted => order'[o] = order[o] /\ log'[o] = log[o]]_vars
    BY <1>1
  <1> QED
    BY <1>2, OrderInvCorrect, PTL DEF Spec, DeletedIsFrozen

\* The scheduler moves an order only when it is overdue at that moment.
THEOREM SystemMovesCorrect == Spec => SystemMovesOnlyLate
  <1>1. ASSUME OrderInv, [Next]_vars, NEW o \in OrderIds, log'[o] # log[o],
               log'[o][Len(log'[o])].role = RoleSystem
        PROVE  o \in late
    <2>1. OrderStep(o)
      BY <1>1, EveryStep DEF OrderInv
    <2>2. CASE Created(o)
      <3>1. log'[o][Len(log'[o])] = CreatedRow
        BY <2>2 DEF Created
      <3> QED
        BY <1>1, <3>1 DEF CreatedRow, RoleBuyer, RoleSystem
    <2>3. CASE MovedOn(o)
      <3> PICK row \in OrderRow, role \in RoleBuyer .. RoleSystem : Moved1(o, row, role)
        BY <2>3 DEF MovedOn
      <3>1. log[o] \in Seq(LogRow) /\ LogRowOf(o, row, role) \in LogRow
        BY <1>1 DEF OrderInv, TypeOK, OrderRow, LogRow, LogRowOf
      <3>2. log'[o] = Append(log[o], LogRowOf(o, row, role))
        BY DEF Moved1
      <3>3. log'[o][Len(log'[o])] = LogRowOf(o, row, role)
        BY <3>1, <3>2
      <3>4. role = RoleSystem
        BY <1>1, <3>3 DEF LogRowOf
      <3> QED
        BY <3>4 DEF Moved1
    <2> QED
      BY <1>1, <2>1, <2>2, <2>3 DEF OrderStep, Untouched, Marked
  <1>2. OrderInv /\ [Next]_vars =>
          [\A o \in OrderIds :
              log'[o] # log[o] /\ log'[o][Len(log'[o])].role = RoleSystem => o \in late]_vars
    BY <1>1
  <1> QED
    BY <1>2, OrderInvCorrect, PTL DEF Spec, SystemMovesOnlyLate

-----------------------------------------------------------------------------
(* The sums of OrderFlow.                                                    *)

LEMMA OrderIdsFinite == IsFiniteSet(OrderIds)
  BY BoundsAssumption, FS_Interval DEF OrderIds

ClaimsOn(p) == [o \in OrderIds |-> Claim(o, p)]
MovesOf(p) == [o \in OrderIds |-> Moved(o, p)]

LEMMA ClaimType ==
    ASSUME TypeOK, NEW o \in OrderIds, NEW p \in Products
    PROVE  Claim(o, p) \in Nat /\ Moved(o, p) \in 0 .. 2
  <1>1. order[o].qty[p] \in Nat
    BY DEF TypeOK, OrderRow
  <1> QED
    BY <1>1 DEF Claim, Moved

\* Held and Movements are sums.
HeldIsSum(p) == \E g : IsSum(g, ClaimsOn(p), OrderIds) /\ Held(p) = g[OrderIds]
MovementsIsSum(p) == \E g : IsSum(g, MovesOf(p), OrderIds) /\ Movements(p) = g[OrderIds]

LEMMA HeldSum ==
    TypeOK => \A p \in Products : HeldIsSum(p)
  <1> SUFFICES ASSUME TypeOK, NEW p \in Products
               PROVE  \E g : IsSum(g, ClaimsOn(p), OrderIds) /\ Held(p) = g[OrderIds]
    BY DEF HeldIsSum
  <1> DEFINE Eq(g) == g = [s \in SUBSET OrderIds |->
                             IF s = {} THEN 0
                             ELSE Claim(CHOOSE x \in s : TRUE, p)
                                    + g[s \ {CHOOSE x \in s : TRUE}]]
  <1>1. ClaimsOn(p) \in [OrderIds -> Int]
    BY ClaimType DEF ClaimsOn
  <1>2. PICK g : IsSum(g, ClaimsOn(p), OrderIds)
    BY <1>1, OrderIdsFinite, SumExists
  <1>3. Eq(g)
    <2>1. \A s \in SUBSET OrderIds : s # {} => ClaimsOn(p)[First(s)] = Claim(First(s), p)
      BY FirstIn DEF ClaimsOn
    <2> QED
      BY <1>2, <2>1 DEF IsSum, Solves, SumStep, First
  <1> DEFINE f == CHOOSE g1 : Eq(g1)
  <1>4. Eq(f)
    <2> HIDE DEF Eq
    <2> QED
      BY <1>3
  <1>5. Held(p) = f[OrderIds]
    BY DEF Held, MapThenSumSet, MapThenFoldSet
  <1> HIDE DEF f
  <1>6. Solves(f, ClaimsOn(p), OrderIds)
    BY <1>4, FirstIn DEF Solves, SumStep, First, ClaimsOn
  <1> QED
    BY <1>2, <1>5, <1>6, SumUnique, OrderIdsFinite

LEMMA MovementsSum ==
    TypeOK => \A p \in Products : MovementsIsSum(p)
  <1> SUFFICES ASSUME TypeOK, NEW p \in Products
               PROVE  \E g : IsSum(g, MovesOf(p), OrderIds) /\ Movements(p) = g[OrderIds]
    BY DEF MovementsIsSum
  <1> DEFINE Eq(g) == g = [s \in SUBSET OrderIds |->
                             IF s = {} THEN 0
                             ELSE Moved(CHOOSE x \in s : TRUE, p)
                                    + g[s \ {CHOOSE x \in s : TRUE}]]
  <1>1. MovesOf(p) \in [OrderIds -> Int]
    BY ClaimType DEF MovesOf
  <1>2. PICK g : IsSum(g, MovesOf(p), OrderIds)
    BY <1>1, OrderIdsFinite, SumExists
  <1>3. Eq(g)
    <2>1. \A s \in SUBSET OrderIds : s # {} => MovesOf(p)[First(s)] = Moved(First(s), p)
      BY FirstIn DEF MovesOf
    <2> QED
      BY <1>2, <2>1 DEF IsSum, Solves, SumStep, First
  <1> DEFINE f == CHOOSE g1 : Eq(g1)
  <1>4. Eq(f)
    <2> HIDE DEF Eq
    <2> QED
      BY <1>3
  <1>5. Movements(p) = f[OrderIds]
    BY DEF Movements, MapThenSumSet, MapThenFoldSet
  <1> HIDE DEF f
  <1>6. Solves(f, MovesOf(p), OrderIds)
    BY <1>4, FirstIn DEF Solves, SumStep, First, MovesOf
  <1> QED
    BY <1>2, <1>5, <1>6, SumUnique, OrderIdsFinite

SumsMeet == \A p \in Products : HeldIsSum(p) /\ MovementsIsSum(p)

LEMMA SumsNow == TypeOK => SumsMeet
  BY HeldSum, MovementsSum DEF SumsMeet

LEMMA SumsNext == TypeOK' => SumsMeet'
  BY SumsNow, PTL

\* What a step does to a sum in which it changes one summand at most.
LEMMA HeldChanges ==
    ASSUME TypeOK, TypeOK', NEW p \in Products, NEW o, NEW d \in Int,
           \A x \in OrderIds : Claim(x, p)' = Claim(x, p) + (IF x = o THEN d ELSE 0)
    PROVE  /\ Held(p) \in Int
           /\ Held(p)' = Held(p) + (IF o \in OrderIds THEN d ELSE 0)
  <1>1. PICK g : IsSum(g, ClaimsOn(p), OrderIds) /\ Held(p) = g[OrderIds]
    BY HeldSum DEF HeldIsSum
  <1>2. PICK h : IsSum(h, ClaimsOn(p)', OrderIds) /\ Held(p)' = h[OrderIds]
    BY SumsNext DEF SumsMeet, HeldIsSum
  <1>3. PICK w, v : w = ClaimsOn(p) /\ v = ClaimsOn(p)'
    OBVIOUS
  <1>4. /\ w \in [OrderIds -> Int] /\ v \in [OrderIds -> Int]
        /\ \A x \in OrderIds : v[x] = w[x] + (IF x = o THEN d ELSE 0)
    <2>1. w \in [OrderIds -> Int]
      BY <1>3, ClaimType DEF ClaimsOn
    <2>2. \A x \in OrderIds : w[x] \in Int /\ v[x] = w[x] + (IF x = o THEN d ELSE 0)
      BY <1>3, <2>1 DEF ClaimsOn
    <2>3. v = [x \in OrderIds |-> v[x]]
      BY <1>3 DEF ClaimsOn
    <2> QED
      BY <2>1, <2>2, <2>3
  <1>5. IsSum(g, w, OrderIds) /\ IsSum(h, v, OrderIds)
    BY <1>1, <1>2, <1>3
  <1>6. h[OrderIds] = g[OrderIds] + (IF o \in OrderIds THEN d ELSE 0)
    <2>1. PICK S : S = OrderIds
      OBVIOUS
    <2>2. /\ IsFiniteSet(S) /\ w \in [S -> Int] /\ v \in [S -> Int] /\ IsSum(g, w, S) /\ IsSum(h, v, S)
          /\ RaisedAt(v, w, S, o, d)
      BY <1>4, <1>5, <2>1, OrderIdsFinite DEF RaisedAt
    <2>3. SumRaised(h, g, S, o, d)
      BY <2>2, SumChanges
    <2> QED
      BY <2>1, <2>3 DEF SumRaised
  <1>7. g[OrderIds] \in Int
    BY <1>1 DEF IsSum
  <1> QED
    BY <1>1, <1>2, <1>6, <1>7

LEMMA MovementsChange ==
    ASSUME TypeOK, TypeOK', NEW p \in Products, NEW o, NEW d \in Int,
           \A x \in OrderIds : Moved(x, p)' = Moved(x, p) + (IF x = o THEN d ELSE 0)
    PROVE  /\ Movements(p) \in Int
           /\ Movements(p)' = Movements(p) + (IF o \in OrderIds THEN d ELSE 0)
  <1>1. PICK g : IsSum(g, MovesOf(p), OrderIds) /\ Movements(p) = g[OrderIds]
    BY MovementsSum DEF MovementsIsSum
  <1>2. PICK h : IsSum(h, MovesOf(p)', OrderIds) /\ Movements(p)' = h[OrderIds]
    BY SumsNext DEF SumsMeet, MovementsIsSum
  <1>3. PICK w, v : w = MovesOf(p) /\ v = MovesOf(p)'
    OBVIOUS
  <1>4. /\ w \in [OrderIds -> Int] /\ v \in [OrderIds -> Int]
        /\ \A x \in OrderIds : v[x] = w[x] + (IF x = o THEN d ELSE 0)
    <2>1. w \in [OrderIds -> Int]
      BY <1>3, ClaimType DEF MovesOf
    <2>2. \A x \in OrderIds : w[x] \in Int /\ v[x] = w[x] + (IF x = o THEN d ELSE 0)
      BY <1>3, <2>1 DEF MovesOf
    <2>3. v = [x \in OrderIds |-> v[x]]
      BY <1>3 DEF MovesOf
    <2> QED
      BY <2>1, <2>2, <2>3
  <1>5. IsSum(g, w, OrderIds) /\ IsSum(h, v, OrderIds)
    BY <1>1, <1>2, <1>3
  <1>6. h[OrderIds] = g[OrderIds] + (IF o \in OrderIds THEN d ELSE 0)
    <2>1. PICK S : S = OrderIds
      OBVIOUS
    <2>2. /\ IsFiniteSet(S) /\ w \in [S -> Int] /\ v \in [S -> Int] /\ IsSum(g, w, S) /\ IsSum(h, v, S)
          /\ RaisedAt(v, w, S, o, d)
      BY <1>4, <1>5, <2>1, OrderIdsFinite DEF RaisedAt
    <2>3. SumRaised(h, g, S, o, d)
      BY <2>2, SumChanges
    <2> QED
      BY <2>1, <2>3 DEF SumRaised
  <1>7. g[OrderIds] \in Int
    BY <1>1 DEF IsSum
  <1> QED
    BY <1>1, <1>2, <1>6, <1>7

-----------------------------------------------------------------------------
(* What one step may do to claims and stock.  Everything below follows from *)
(* these six cases and never looks at the actions again.                    *)

\* Claims, stock and products are left alone.
Idles ==
    /\ \A x \in OrderIds : order'[x].status = order[x].status /\ order'[x].qty = order[x].qty
    /\ UNCHANGED <<stock, removed, stocked>>

\* Order o moves from one status to the next, with its quantities.
Moves(o, from, to) ==
    /\ order[o].status = from /\ order'[o].status = to
    /\ order'[o].qty = order[o].qty
    /\ \A x \in OrderIds \ {o} : order'[x] = order[x]
    /\ UNCHANGED <<removed, stocked>>

ForwardMoves ==
    {<<Pending, Confirmed>>, <<Confirmed, Delivering>>, <<Delivering, ArrivedAt>>,
     <<ArrivedAt, Completed>>, <<Completed, Returning>>, <<Returning, Completed>>}

BackwardMoves == {<<Pending, Cancelled>>, <<Returning, Returned>>}

Advances(o) == (\E m \in ForwardMoves : Moves(o, m[1], m[2])) /\ UNCHANGED stock

GivesBack(o) == (\E m \in BackwardMoves : Moves(o, m[1], m[2])) /\ GiveBack(o)

Restocks(p) ==
    /\ p \notin removed
    /\ \A q \in Products \ {p} : stock'[q] = stock[q] /\ stocked'[q] = stocked[q]
    /\ 2 * (stock'[p] - stock[p]) = stocked'[p] - stocked[p]
    /\ UNCHANGED <<order, removed>>

Withdraws(p) == removed' = removed \cup {p} /\ UNCHANGED <<order, stock, stocked>>

Creates ==
    \E b \in Buyers, lines \in Lines : \E id \in [ShopsIn(lines) -> OrderIds] :
       CreateOrders(b, lines, id)

StockStep ==
    \/ Idles \/ Creates
    \/ \E o \in OrderIds : Advances(o) \/ GivesBack(o)
    \/ \E p \in Products : Restocks(p) \/ Withdraws(p)

\* A move with its log row is a move here.
LEMMA MoveMoves ==
    ASSUME TypeOK, NEW o \in OrderIds, NEW row, NEW role, Move(o, row, role),
           row.qty = order[o].qty, UNCHANGED <<removed, stocked>>
    PROVE  Moves(o, order[o].status, row.status)
  BY DEF TypeOK, Move, Moves

LEMMA ToFields ==
    ASSUME TypeOK, NEW o \in OrderIds, NEW status
    PROVE  To(o, status).status = status /\ To(o, status).qty = order[o].qty
  BY DEF TypeOK, OrderRow, To

LEMMA CancelGivesBack ==
    ASSUME TypeOK, NEW o \in OrderIds, NEW by, NEW role, CancelBy(o, by, role)
    PROVE  GivesBack(o)
  <1> DEFINE row == [To(o, Cancelled) EXCEPT !.cancelBy = by]
  <1>1. order[o].status = Pending /\ Move(o, row, role) /\ GiveBackKeepRest(o)
    BY DEF CancelBy, IsAt
  <1>2. row.status = Cancelled /\ row.qty = order[o].qty
    BY DEF TypeOK, OrderRow, To
  <1>3. Moves(o, Pending, Cancelled)
    BY <1>1, <1>2, MoveMoves DEF GiveBackKeepRest
  <1> QED
    BY <1>1, <1>3 DEF GivesBack, BackwardMoves, GiveBackKeepRest

\* A forward move of any handler.
LEMMA ForwardAdvances ==
    ASSUME TypeOK, NEW o \in OrderIds, NEW to, NEW role, Move(o, To(o, to), role), KeepGoods,
           <<order[o].status, to>> \in ForwardMoves
    PROVE  Advances(o)
  <1>1. Moves(o, order[o].status, to)
    BY MoveMoves, ToFields DEF KeepGoods, goods
  <1> QED
    BY <1>1 DEF Advances, KeepGoods, goods

LEMMA BuyerStockStep == TypeOK /\ BuyerStep => StockStep
  <1> SUFFICES ASSUME TypeOK, BuyerStep
               PROVE  StockStep
    OBVIOUS
  <1>1. CASE Creates
    BY <1>1 DEF StockStep
  <1>2. ASSUME NEW b \in Buyers, NEW o \in OrderIds, Cancel(b, o)
        PROVE  StockStep
    BY <1>2, CancelGivesBack DEF Cancel, StockStep
  <1>3. ASSUME NEW b \in Buyers, NEW o \in OrderIds, Receive(b, o)
        PROVE  StockStep
    BY <1>3, ForwardAdvances DEF Receive, IsAt, ForwardMoves, StockStep
  <1>4. ASSUME NEW b \in Buyers, NEW o \in OrderIds, SoftDelete(b, o)
        PROVE  StockStep
    <2>1. Idles
      BY <1>4 DEF SoftDelete, KeepGoods, goods, TypeOK, OrderRow, Idles
    <2> QED
      BY <2>1 DEF StockStep
  <1> QED
    BY <1>1, <1>2, <1>3, <1>4 DEF BuyerStep, Creates

LEMMA SellerStockStep == TypeOK /\ SellerStep => StockStep
  <1> SUFFICES ASSUME TypeOK, NEW s \in Shops, NEW o \in OrderIds,
                      Confirm(s, o) \/ Reject(s, o) \/ Deliver(s, o) \/ Arrived(s, o)
               PROVE  StockStep
    BY DEF SellerStep
  <1>1. CASE Reject(s, o)
    BY <1>1, CancelGivesBack DEF Reject, StockStep
  <1>2. CASE Confirm(s, o) \/ Deliver(s, o) \/ Arrived(s, o)
    BY <1>2, ForwardAdvances DEF Confirm, Deliver, Arrived, IsAt, ForwardMoves, StockStep
  <1> QED
    BY <1>1, <1>2

LEMMA AdminStockStep == TypeOK /\ AdminStep => StockStep
  <1> SUFFICES ASSUME TypeOK, NEW o \in OrderIds,
                      \/ \E flag \in BOOLEAN : UpdateSettlement(o, flag)
                      \/ \E to \in Statuses : UpdateReturnStatus(o, to)
               PROVE  StockStep
    BY DEF AdminStep
  <1>1. ASSUME NEW flag \in BOOLEAN, UpdateSettlement(o, flag)
        PROVE  StockStep
    <2>1. Idles
      BY <1>1 DEF UpdateSettlement, KeepGoods, goods, TypeOK, OrderRow, Idles
    <2> QED
      BY <2>1 DEF StockStep
  <1>2. ASSUME NEW to \in Statuses, UpdateReturnStatus(o, to)
        PROVE  StockStep
    <2>1. Move(o, To(o, to), RoleAdmin) /\ <<order[o].status, to>> \in ReturnMoves
      BY <1>2 DEF UpdateReturnStatus
    <2>2. CASE to = Returned
      <3>1. GiveBackKeepRest(o) /\ order[o].status = Returning
        BY <1>2, <2>1, <2>2 DEF UpdateReturnStatus, ReturnMoves, Returned, Returning, Completed
      <3>2. Moves(o, Returning, Returned)
        BY <2>1, <2>2, <3>1, MoveMoves, ToFields DEF GiveBackKeepRest
      <3> QED
        BY <3>1, <3>2 DEF GivesBack, BackwardMoves, GiveBackKeepRest, StockStep
    <2>3. CASE to # Returned
      <3>1. KeepGoods /\ <<order[o].status, to>> \in ForwardMoves
        BY <1>2, <2>1, <2>3 DEF UpdateReturnStatus, ReturnMoves, ForwardMoves
      <3> QED
        BY <2>1, <3>1, ForwardAdvances DEF StockStep
    <2> QED
      BY <2>2, <2>3
  <1> QED
    BY <1>1, <1>2

LEMMA GoodsStockStep == TypeOK /\ GoodsStep => StockStep
  <1> SUFFICES ASSUME TypeOK, GoodsStep
               PROVE  StockStep
    OBVIOUS
  <1>1. ASSUME NEW p \in Products, NEW d \in Deltas, AdjustStock(p, d)
        PROVE  Restocks(p)
    <2>1. d \in Int /\ stock[p] \in Nat /\ stocked[p] \in Int
      BY QuantitiesAssumption DEF TypeOK
    <2> QED
      BY <1>1, <2>1 DEF AdjustStock, KeepOrders, TypeOK, Restocks
  <1>2. ASSUME NEW p \in Products, NEW n \in 0 .. MaxStock, UpdateProduct(p, n)
        PROVE  Restocks(p)
    <2>1. n \in Int /\ stock[p] \in Nat /\ stocked[p] \in Int
      BY BoundsAssumption DEF TypeOK
    <2> QED
      BY <1>2, <2>1 DEF UpdateProduct, KeepOrders, TypeOK, Restocks
  <1>3. ASSUME NEW p \in Products, NEW on \in BOOLEAN, WriteStatus(p, on)
        PROVE  Idles
    BY <1>3 DEF WriteStatus, KeepOrders, Idles
  <1>4. ASSUME NEW p \in Products, DeleteProduct(p)
        PROVE  Withdraws(p)
    BY <1>4 DEF DeleteProduct, KeepOrders, Withdraws
  <1>5. ASSUME NEW s \in Shops, WriteShop(s)
        PROVE  Idles
    BY <1>5 DEF WriteShop, KeepOrders, goods, Idles
  <1> QED
    BY <1>1, <1>2, <1>3, <1>4, <1>5 DEF GoodsStep, StockStep

LEMMA SchedulerStockStep == TypeOK /\ (SchedulerStep \/ SchedulerFault) => StockStep
  <1> SUFFICES ASSUME TypeOK, SchedulerStep \/ SchedulerFault
               PROVE  StockStep
    OBVIOUS
  <1>1. CASE KeepTables
    BY <1>1 DEF KeepTables, KeepGoods, goods, Idles, StockStep
  <1>2. ASSUME NEW o \in OrderIds, AutoCancelPendingOrder(o), ~KeepTables
        PROVE  StockStep
    BY <1>2, CancelGivesBack DEF AutoCancelPendingOrder, StockStep
  <1>3. ASSUME NEW o \in OrderIds, AutoCompleteArrivedOrder(o), ~KeepTables
        PROVE  StockStep
    BY <1>3, ForwardAdvances
    DEF AutoCompleteArrivedOrder, StillArrived, IsAt, ForwardMoves, StockStep
  <1> QED
    BY <1>1, <1>2, <1>3
    DEF SchedulerStep, TickStart, TickListArrived, TickEnd, SchedulerFault, TickError,
        TickListError, Crash, Fault

\* Whatever step is taken, it is one of the six.
LEMMA EveryStockStep == TypeOK /\ [Next]_vars => StockStep
  <1>1. ASSUME \/ \E o \in OrderIds : DeadlinePasses(o)
               \/ UNCHANGED vars
        PROVE  Idles
    BY <1>1 DEF DeadlinePasses, KeepGoods, goods, vars, Idles
  <1> QED
    BY <1>1, BuyerStockStep, SellerStockStep, AdminStockStep, GoodsStockStep,
       SchedulerStockStep DEF Next, StockStep

-----------------------------------------------------------------------------
(* One product.                                                             *)

\* Rounding is off by half a unit at most, and not at all on whole units.
LEMMA RoundHalvesNear ==
    ASSUME NEW h \in Nat
    PROVE  /\ RoundHalves(h) \in Nat
           /\ -1 <= 2 * RoundHalves(h) - h /\ 2 * RoundHalves(h) - h <= 1
           /\ h % 2 = 0 => 2 * RoundHalves(h) = h
  BY DEF RoundHalves

\* The ids a request for lines fills.
NewIds(lines, id) == {id[s] : s \in ShopsIn(lines)}

\* What new orders hold: each product is in the order of its shop and in no other.
LEMMA CreateRows ==
    ASSUME TypeOK, NEW b \in Buyers, NEW lines \in Lines,
           NEW id \in [ShopsIn(lines) -> OrderIds], CreateOrders(b, lines, id),
           NEW New, New = NewIds(lines, id)
    PROVE  /\ \A x \in New : order[x].status = Absent /\ order'[x].status = Pending
           /\ \A x \in OrderIds \ New : order'[x] = order[x]
           /\ \A p \in Products : \A x \in New :
                 order'[x].qty[p] = IF lines[p] > 0 /\ x = id[ShopOf[p]] THEN lines[p] ELSE 0
           /\ \A p \in Products : lines[p] > 0 => id[ShopOf[p]] \in New
  <1> USE DEF NewIds
  <1> DEFINE S == ShopsIn(lines)
             Row(x) == NewOrder(b, CHOOSE s \in S : id[s] = x, lines)
  <1>1. S \subseteq Shops /\ \A s \in Shops : s \in Nat
    BY PartiesAssumption DEF ShopsIn
  <1>2. \A s, u \in S : id[s] = id[u] => s = u
    <2>1. \A s, u \in S : s < u => id[s] < id[u]
      BY DEF CreateOrders, NextIds
    <2>2. \A s \in S : id[s] \in Int
      BY DEF OrderIds
    <2> QED
      BY <1>1, <2>1, <2>2
  <1>3. \A p \in Products : lines[p] \in Nat /\ (lines[p] > 0 => ShopOf[p] \in S)
    BY LinesNat DEF ShopsIn
  <1>4. ASSUME NEW x \in New
        PROVE  /\ order[x].status = Absent /\ order'[x].status = Pending
               /\ \A p \in Products :
                     order'[x].qty[p] = IF lines[p] > 0 /\ x = id[ShopOf[p]] THEN lines[p] ELSE 0
    <2>1. PICK s \in S : id[s] = x
      OBVIOUS
    <2>2. x \in OrderIds /\ order[x].status = Absent /\ order'[x] = Row(x)
      BY <2>1 DEF CreateOrders, NextIds
    <2>3. (CHOOSE u \in S : id[u] = x) = s
      BY <1>2, <2>1
    <2>4. order'[x] = NewOrder(b, s, lines)
      BY <2>2, <2>3
    <2>5. ASSUME NEW p \in Products
          PROVE  order'[x].qty[p] = IF lines[p] > 0 /\ x = id[ShopOf[p]] THEN lines[p] ELSE 0
      <3>1. order'[x].qty[p] = IF ShopOf[p] = s THEN lines[p] ELSE 0
        BY <2>4 DEF NewOrder
      <3>2. lines[p] > 0 => (x = id[ShopOf[p]] <=> ShopOf[p] = s)
        BY <1>2, <1>3, <2>1
      <3> QED
        BY <1>3, <3>1, <3>2
    <2> QED
      BY <2>2, <2>4, <2>5 DEF NewOrder
  <1>5. \A x \in OrderIds \ New : order'[x] = order[x]
    BY DEF CreateOrders
  <1> QED
    BY <1>3, <1>4, <1>5

\* An order that is not there holds nothing.
Fresh == \A o \in OrderIds : order[o].status = Absent => \A p \in Products : order[o].qty[p] = 0

\* No order's claim on p changes, and its stock only as the seller corrects it.
Quiet(p) ==
    /\ \A x \in OrderIds : Claim(x, p)' = Claim(x, p) /\ Moved(x, p)' = Moved(x, p)
    /\ 2 * (stock'[p] - stock[p]) = stocked'[p] - stocked[p]

\* Stock of p goes into the claim of o or comes back from it, give or take half a unit.
Swaps(o, p) ==
    /\ stocked'[p] = stocked[p]
    /\ \A x \in OrderIds \ {o} : Claim(x, p)' = Claim(x, p) /\ Moved(x, p)' = Moved(x, p)
    /\ Moved(o, p)' = Moved(o, p) + 1
    /\ LET d == 2 * (stock'[p] - stock[p]) + Claim(o, p)' - Claim(o, p)
       IN  -1 <= d /\ d <= 1 /\ (order'[o].qty[p] % 2 = 0 => d = 0)

ProductStep(p) == Quiet(p) \/ \E o \in OrderIds : Swaps(o, p)

LEMMA SameRowSameClaim ==
    ASSUME NEW x, NEW p, order'[x].status = order[x].status, order'[x].qty = order[x].qty
    PROVE  Claim(x, p)' = Claim(x, p) /\ Moved(x, p)' = Moved(x, p)
  BY DEF Claim, Moved

LEMMA CreateProductStep ==
    ASSUME TypeOK, Fresh, Creates, NEW p \in Products
    PROVE  ProductStep(p)
  <1> PICK b \in Buyers, lines \in Lines : \E id \in [ShopsIn(lines) -> OrderIds] :
              CreateOrders(b, lines, id)
    BY DEF Creates
  <1> PICK id \in [ShopsIn(lines) -> OrderIds] : CreateOrders(b, lines, id)
    OBVIOUS
  <1> PICK New, o : New = NewIds(lines, id) /\ o = id[ShopOf[p]]
    OBVIOUS
  <1>1. /\ \A x \in New : order[x].status = Absent /\ order'[x].status = Pending
        /\ \A x \in OrderIds \ New : order'[x] = order[x]
        /\ \A x \in New : order'[x].qty[p] = IF lines[p] > 0 /\ x = o THEN lines[p] ELSE 0
        /\ lines[p] > 0 => o \in New
    BY CreateRows
  <1>2. New \subseteq OrderIds /\ lines[p] \in Nat /\ stock[p] \in Nat
    BY LinesNat DEF TypeOK, NewIds
  <1>3. /\ stock'[p] = IF lines[p] > 0 THEN Deducted(stock[p], lines[p]) ELSE stock[p]
        /\ stocked' = stocked
        /\ lines[p] > 0 => Enough(stock[p], lines[p])
    BY DEF CreateOrders, Orderable
  <1>4. ASSUME NEW x \in OrderIds, ~ (lines[p] > 0 /\ x = o)
        PROVE  Claim(x, p)' = Claim(x, p) /\ Moved(x, p)' = Moved(x, p)
    <2>1. CASE x \in New
      BY <1>1, <1>4, <2>1 DEF Fresh, Claim, Moved
    <2>2. CASE x \notin New
      BY <1>1, <2>2, SameRowSameClaim
    <2> QED
      BY <2>1, <2>2
  <1>5. CASE lines[p] = 0
    <2>1. stocked[p] \in Int
      BY DEF TypeOK
    <2> QED
      BY <1>2, <1>3, <1>4, <1>5, <2>1 DEF Quiet, ProductStep
  <1>6. CASE lines[p] > 0
    <2>1. o \in OrderIds /\ order[o].status = Absent /\ order'[o].status = Pending
          /\ order'[o].qty[p] = lines[p]
      BY <1>1, <1>2, <1>6
    <2>2. Claim(o, p) = 0 /\ Moved(o, p) = 0 /\ Claim(o, p)' = lines[p] /\ Moved(o, p)' = 1
      BY <1>6, <2>1 DEF Fresh, Claim, Moved, Absent, Pending, Cancelled, Returned
    <2>3. 2 * stock[p] - lines[p] \in Nat
      BY <1>2, <1>3, <1>6 DEF Enough
    <2>4. LET d == 2 * (stock'[p] - stock[p]) + lines[p]
          IN  -1 <= d /\ d <= 1 /\ (lines[p] % 2 = 0 => d = 0)
      <3> DEFINE h == 2 * stock[p] - lines[p]
      <3>1. stock'[p] = RoundHalves(h)
        BY <1>3, <1>6 DEF Deducted
      <3>2. lines[p] % 2 = 0 => h % 2 = 0
        BY <1>2
      <3>3. /\ RoundHalves(h) \in Nat
            /\ -1 <= 2 * RoundHalves(h) - h /\ 2 * RoundHalves(h) - h <= 1
            /\ h % 2 = 0 => 2 * RoundHalves(h) = h
        BY <2>3, RoundHalvesNear
      <3> QED
        BY <1>2, <3>1, <3>2, <3>3
    <2>5. Swaps(o, p)
      BY <1>2, <1>3, <1>4, <1>6, <2>1, <2>2, <2>4 DEF Swaps
    <2> QED
      BY <2>1, <2>5 DEF ProductStep
  <1> QED
    BY <1>2, <1>5, <1>6

LEMMA GiveBackProductStep ==
    ASSUME TypeOK, NEW o \in OrderIds, GivesBack(o), NEW p \in Products \ removed
    PROVE  ProductStep(p)
  <1>1. PICK m \in BackwardMoves : Moves(o, m[1], m[2])
    BY DEF GivesBack
  <1>2. /\ order[o].status \in {Pending, Returning} /\ order'[o].status \in {Cancelled, Returned}
        /\ order'[o].qty = order[o].qty
        /\ \A x \in OrderIds \ {o} : order'[x] = order[x]
        /\ stocked' = stocked
    BY <1>1 DEF BackwardMoves, Moves
  <1>3. \A x \in OrderIds \ {o} : Claim(x, p)' = Claim(x, p) /\ Moved(x, p)' = Moved(x, p)
    BY <1>2, SameRowSameClaim
  <1>4. order[o].qty[p] \in Nat /\ stock[p] \in Nat /\ stocked[p] \in Int
    BY DEF TypeOK, OrderRow
  <1>5. stock'[p] = IF order[o].qty[p] > 0 THEN AddedBack(stock[p], order[o].qty[p])
                    ELSE stock[p]
    BY DEF GivesBack, GiveBack
  <1>6. /\ Claim(o, p) = order[o].qty[p] /\ Claim(o, p)' = 0
        /\ Moved(o, p) = (IF order[o].qty[p] = 0 THEN 0 ELSE 1)
        /\ Moved(o, p)' = (IF order[o].qty[p] = 0 THEN 0 ELSE 2)
    BY <1>2 DEF Claim, Moved, Absent, Pending, Cancelled, Returning, Returned
  <1>7. CASE order[o].qty[p] = 0
    BY <1>2, <1>3, <1>4, <1>5, <1>6, <1>7 DEF Quiet, ProductStep
  <1>8. CASE order[o].qty[p] > 0
    <2> DEFINE q == order[o].qty[p]
               h == 2 * stock[p] + q
    <2>1. stock'[p] = RoundHalves(h) /\ h \in Nat
      BY <1>4, <1>5, <1>8 DEF AddedBack
    <2>2. q % 2 = 0 => h % 2 = 0
      BY <1>4
    <2>3. /\ RoundHalves(h) \in Nat
          /\ -1 <= 2 * RoundHalves(h) - h /\ 2 * RoundHalves(h) - h <= 1
          /\ h % 2 = 0 => 2 * RoundHalves(h) = h
      BY <2>1, RoundHalvesNear
    <2>4. LET d == 2 * (stock'[p] - stock[p]) - q
          IN  -1 <= d /\ d <= 1 /\ (q % 2 = 0 => d = 0)
      BY <1>4, <2>1, <2>2, <2>3
    <2>5. Moved(o, p)' = Moved(o, p) + 1
      BY <1>6, <1>8
    <2>6. 2 * (stock'[p] - stock[p]) + Claim(o, p)' - Claim(o, p) = 2 * (stock'[p] - stock[p]) - q
      BY <1>4, <1>6, <2>1, <2>3
    <2> HIDE DEF q, h
    <2>7. Swaps(o, p)
      BY <1>2, <1>3, <2>4, <2>5, <2>6 DEF Swaps, q
    <2> QED
      BY <2>7 DEF ProductStep
  <1> QED
    BY <1>4, <1>7, <1>8

\* Every step changes the claim of one order on a product at most, and its stock
\* against it.
LEMMA EveryProductStep ==
    ASSUME TypeOK, Fresh, [Next]_vars, NEW p \in Products \ removed'
    PROVE  ProductStep(p) /\ p \notin removed
  <1>1. /\ stock[p] \in Nat /\ stocked[p] \in Int
        /\ \A x \in OrderIds : order[x].qty[p] \in Nat
    BY DEF TypeOK, OrderRow
  <1>2. CASE Idles
    BY <1>1, <1>2, SameRowSameClaim DEF Idles, Quiet, ProductStep
  <1>3. CASE Creates
    BY <1>3, CreateProductStep DEF Creates, CreateOrders
  <1>4. ASSUME NEW o \in OrderIds, Advances(o)
        PROVE  ProductStep(p) /\ p \notin removed
    <2>1. PICK m \in ForwardMoves : Moves(o, m[1], m[2])
      BY <1>4 DEF Advances
    <2>2. Claim(o, p)' = Claim(o, p) /\ Moved(o, p)' = Moved(o, p)
      BY <2>1 DEF Moves, ForwardMoves, Claim, Moved, Absent, Pending, Confirmed, Delivering,
                  ArrivedAt, Completed, Cancelled, Returning, Returned
    <2>3. \A x \in OrderIds \ {o} : Claim(x, p)' = Claim(x, p) /\ Moved(x, p)' = Moved(x, p)
      BY <2>1, SameRowSameClaim DEF Moves
    <2> QED
      BY <1>1, <1>4, <2>1, <2>2, <2>3 DEF Moves, Advances, Quiet, ProductStep
  <1>5. ASSUME NEW o \in OrderIds, GivesBack(o)
        PROVE  ProductStep(p) /\ p \notin removed
    BY <1>5, GiveBackProductStep DEF GivesBack, Moves
  <1>6. ASSUME NEW q \in Products, Restocks(q)
        PROVE  ProductStep(p) /\ p \notin removed
    <2>1. \A x \in OrderIds : Claim(x, p)' = Claim(x, p) /\ Moved(x, p)' = Moved(x, p)
      BY <1>6, SameRowSameClaim DEF Restocks
    <2> QED
      BY <1>1, <1>6, <2>1 DEF Restocks, Quiet, ProductStep
  <1>7. ASSUME NEW q \in Products, Withdraws(q)
        PROVE  ProductStep(p) /\ p \notin removed
    BY <1>1, <1>7, SameRowSameClaim DEF Withdraws, Quiet, ProductStep
  <1> QED
    BY <1>2, <1>3, <1>4, <1>5, <1>6, <1>7, EveryStockStep DEF StockStep

-----------------------------------------------------------------------------
(* The drift of a product.                                                  *)

LEMMA FreshInit == Init => Fresh
  BY DEF Init, NoOrder, Fresh

LEMMA FreshNext == TypeOK /\ Fresh /\ [Next]_vars => Fresh'
  <1> SUFFICES ASSUME TypeOK, Fresh, StockStep, NEW x \in OrderIds, order'[x].status = Absent,
                      NEW p \in Products
               PROVE  order'[x].qty[p] = 0
    BY EveryStockStep DEF Fresh
  <1>1. CASE order'[x].status = order[x].status /\ order'[x].qty = order[x].qty
    BY <1>1 DEF Fresh
  <1>2. CASE Creates
    <2> PICK b \in Buyers, lines \in Lines : \E id \in [ShopsIn(lines) -> OrderIds] :
                CreateOrders(b, lines, id)
      BY <1>2 DEF Creates
    <2> PICK id \in [ShopsIn(lines) -> OrderIds] : CreateOrders(b, lines, id)
      OBVIOUS
    <2> PICK New : New = NewIds(lines, id)
      OBVIOUS
    <2>1. x \notin New
      BY CreateRows DEF Absent, Pending
    <2> QED
      BY <1>1, <2>1, CreateRows
  <1>3. ASSUME NEW o \in OrderIds, NEW m \in ForwardMoves \cup BackwardMoves, Moves(o, m[1], m[2])
        PROVE  order'[x].qty[p] = 0
    <2>1. order'[o].status # Absent
      BY <1>3 DEF Moves, ForwardMoves, BackwardMoves, Absent, Pending, Confirmed, Delivering,
                  ArrivedAt, Completed, Cancelled, Returning, Returned
    <2> QED
      BY <1>1, <1>3, <2>1 DEF Moves
  <1> QED
    BY <1>1, <1>2, <1>3 DEF StockStep, Idles, Advances, GivesBack, Restocks, Withdraws

\* The invariant of the drift: with it, an order that is not there holds nothing.
DriftInv == TypeOK /\ Fresh /\ DriftBounded

LEMMA NothingHeld ==
    ASSUME Init, NEW p \in Products
    PROVE  Held(p) = 0 /\ Movements(p) = 0
  <1>1. \A o \in OrderIds : Claim(o, p) = 0 /\ Moved(o, p) = 0
    BY DEF Init, NoOrder, Claim, Moved
  <1>2. /\ ClaimsOn(p) \in [OrderIds -> Int] /\ \A o \in OrderIds : ClaimsOn(p)[o] = 0
        /\ MovesOf(p) \in [OrderIds -> Int] /\ \A o \in OrderIds : MovesOf(p)[o] = 0
    BY <1>1 DEF ClaimsOn, MovesOf
  <1>3. PICK g : IsSum(g, ClaimsOn(p), OrderIds) /\ Held(p) = g[OrderIds]
    BY TypeInit, HeldSum DEF HeldIsSum
  <1>4. PICK h : IsSum(h, MovesOf(p), OrderIds) /\ Movements(p) = h[OrderIds]
    BY TypeInit, MovementsSum DEF MovementsIsSum
  <1> QED
    BY <1>2, <1>3, <1>4, OrderIdsFinite, SumOfZeros

LEMMA DriftInit == Init => DriftInv
  BY TypeInit, FreshInit, NothingHeld, QuantitiesAssumption DEF Init, DriftInv, DriftBounded

ClaimsAreInt == \A x \in OrderIds, p \in Products : Claim(x, p) \in Int

LEMMA ClaimsNow == TypeOK => ClaimsAreInt
  BY ClaimType DEF ClaimsAreInt

LEMMA ClaimsNext == TypeOK' => ClaimsAreInt'
  BY ClaimsNow, PTL

\* What a step does to the drift of a product, and to the bound on it.
LEMMA DriftStep ==
    ASSUME TypeOK, TypeOK', NEW p \in Products, ProductStep(p)
    PROVE  /\ Held(p) \in Int /\ Held(p)' \in Int
           /\ Movements(p) \in Int /\ Movements(p)' \in Int
           /\ LET d == (2 * stock'[p] + Held(p)' - stocked'[p])
                         - (2 * stock[p] + Held(p) - stocked[p])
                  m == Movements(p)' - Movements(p)
              IN  /\ -m <= d /\ d <= m
                  /\ (\A x \in OrderIds : order'[x].qty[p] % 2 = 0) => d = 0
  <1>1. /\ stock[p] \in Nat /\ stock'[p] \in Nat /\ stocked[p] \in Int /\ stocked'[p] \in Int
        /\ \A x \in OrderIds : Claim(x, p) \in Int /\ Moved(x, p) \in Int
    BY ClaimType DEF TypeOK
  <1>2. \A x \in OrderIds : Claim(x, p)' \in Int
    BY ClaimsNext DEF ClaimsAreInt
  <1>3. CASE Quiet(p)
    <2>1. \A x \in OrderIds : /\ Claim(x, p)' = Claim(x, p) + (IF x = 0 THEN 0 ELSE 0)
                              /\ Moved(x, p)' = Moved(x, p) + (IF x = 0 THEN 0 ELSE 0)
      BY <1>1, <1>3 DEF Quiet
    <2>2. /\ Held(p) \in Int /\ Held(p)' = Held(p)
          /\ Movements(p) \in Int /\ Movements(p)' = Movements(p)
      BY <2>1, HeldChanges, MovementsChange
    <2>3. 2 * (stock'[p] - stock[p]) = stocked'[p] - stocked[p]
      BY <1>3 DEF Quiet
    <2> QED
      BY <1>1, <2>2, <2>3
  <1>4. ASSUME NEW o \in OrderIds, Swaps(o, p)
        PROVE  /\ Held(p) \in Int /\ Held(p)' = Held(p) + (Claim(o, p)' - Claim(o, p))
               /\ Movements(p) \in Int /\ Movements(p)' = Movements(p) + 1
    <2>1. PICK d \in Int : d = Claim(o, p)' - Claim(o, p)
      BY <1>1, <1>2
    <2>2. \A x \in OrderIds : /\ Claim(x, p)' = Claim(x, p) + (IF x = o THEN d ELSE 0)
                              /\ Moved(x, p)' = Moved(x, p) + (IF x = o THEN 1 ELSE 0)
      BY <1>1, <1>2, <1>4, <2>1 DEF Swaps
    <2>3. Held(p) \in Int /\ Held(p)' = Held(p) + d
      BY <2>2, HeldChanges
    <2>4. Movements(p) \in Int /\ Movements(p)' = Movements(p) + 1
      BY <2>2, MovementsChange
    <2> QED
      BY <2>1, <2>3, <2>4
  <1>5. ASSUME NEW o \in OrderIds, Swaps(o, p)
        PROVE  LET d == 2 * (stock'[p] - stock[p]) + Claim(o, p)' - Claim(o, p)
               IN  /\ stocked'[p] = stocked[p]
                   /\ -1 <= d /\ d <= 1 /\ (order'[o].qty[p] % 2 = 0 => d = 0)
    BY <1>5 DEF Swaps
  <1>6. CASE \E o \in OrderIds : Swaps(o, p)
    <2> PICK o \in OrderIds : Swaps(o, p)
      BY <1>6
    <2> PICK c, c1 : c = Claim(o, p) /\ c1 = Claim(o, p)'
      OBVIOUS
    <2>1. c \in Int /\ c1 \in Int
      BY <1>1, <1>2
    <2>2. /\ Held(p) \in Int /\ Held(p)' = Held(p) + (c1 - c)
          /\ Movements(p) \in Int /\ Movements(p)' = Movements(p) + 1
      BY <1>4
    <2>3. LET d == 2 * (stock'[p] - stock[p]) + c1 - c
          IN  /\ stocked'[p] = stocked[p]
              /\ -1 <= d /\ d <= 1 /\ (order'[o].qty[p] % 2 = 0 => d = 0)
      BY <1>5
    <2> QED
      BY <1>1, <2>1, <2>2, <2>3
  <1> QED
    BY <1>3, <1>6 DEF ProductStep

\* However orders are placed, moved, cancelled and returned, and whatever is
\* rounded on the way, the stock of a product and what the orders hold differ
\* from what the seller put in by half a unit per movement at most.
THEOREM DriftCorrect == Spec => []DriftBounded
  <1>1. DriftInv /\ [Next]_vars => DriftInv'
    <2> SUFFICES ASSUME DriftInv, [Next]_vars
                 PROVE  DriftInv'
      OBVIOUS
    <2>1. TypeOK' /\ Fresh'
      BY TypeNext, FreshNext DEF DriftInv
    <2>2. ASSUME NEW p \in Products \ removed'
          PROVE  LET drift == 2 * stock'[p] + Held(p)' - stocked'[p]
                 IN  -Movements(p)' <= drift /\ drift <= Movements(p)'
      <3>1. ProductStep(p) /\ p \notin removed
        BY EveryProductStep DEF DriftInv
      <3>2. /\ stock[p] \in Nat /\ stock'[p] \in Nat /\ stocked[p] \in Int /\ stocked'[p] \in Int
            /\ LET drift == 2 * stock[p] + Held(p) - stocked[p]
               IN  -Movements(p) <= drift /\ drift <= Movements(p)
        BY <2>1, <3>1 DEF DriftInv, TypeOK, DriftBounded
      <3>3. /\ Held(p) \in Int /\ Held(p)' \in Int
            /\ Movements(p) \in Int /\ Movements(p)' \in Int
            /\ LET d == (2 * stock'[p] + Held(p)' - stocked'[p])
                          - (2 * stock[p] + Held(p) - stocked[p])
                   m == Movements(p)' - Movements(p)
               IN  -m <= d /\ d <= m
        BY <2>1, <3>1, DriftStep DEF DriftInv
      <3> QED
        BY <3>2, <3>3
    <2> QED
      BY <2>1, <2>2 DEF DriftInv, DriftBounded
  <1>2. DriftInv => DriftBounded
    BY DEF DriftInv
  <1> QED
    BY <1>1, <1>2, DriftInit, PTL DEF Spec

-----------------------------------------------------------------------------
(* Whole units.  The stock column counts whole units; where every quantity  *)
(* is one, nothing is rounded and nothing drifts.                           *)

WholeUnits == \A h \in Quantities : h % 2 = 0

EvenRows == \A o \in OrderIds, p \in Products : order[o].qty[p] % 2 = 0

LEMMA EvenInit == Init => EvenRows
  BY DEF Init, NoOrder, EvenRows

LEMMA EvenNext == WholeUnits /\ TypeOK /\ EvenRows /\ [Next]_vars => EvenRows'
  <1> SUFFICES ASSUME WholeUnits, TypeOK, EvenRows, StockStep, NEW x \in OrderIds,
                      NEW p \in Products
               PROVE  order'[x].qty[p] % 2 = 0
    BY EveryStockStep DEF EvenRows
  <1>1. CASE order'[x].qty = order[x].qty
    BY <1>1 DEF EvenRows
  <1>2. CASE Creates
    <2> PICK b \in Buyers, lines \in Lines : \E id \in [ShopsIn(lines) -> OrderIds] :
                CreateOrders(b, lines, id)
      BY <1>2 DEF Creates
    <2> PICK id \in [ShopsIn(lines) -> OrderIds] : CreateOrders(b, lines, id)
      OBVIOUS
    <2> PICK New : New = NewIds(lines, id)
      OBVIOUS
    <2>1. lines[p] % 2 = 0
      <3>1. lines[p] \in Quantities \/ lines[p] = 0
        BY DEF Lines
      <3>2. CASE lines[p] = 0
        BY <3>2
      <3> QED
        BY <3>1, <3>2 DEF WholeUnits
    <2>2. CASE x \in New
      <3>1. order'[x].qty[p] = lines[p] \/ order'[x].qty[p] = 0
        BY <2>2, CreateRows
      <3> QED
        BY <2>1, <3>1
    <2>3. CASE x \notin New
      BY <1>1, <2>3, CreateRows
    <2> QED
      BY <2>2, <2>3
  <1>3. ASSUME NEW o \in OrderIds, NEW m, Moves(o, m[1], m[2])
        PROVE  order'[x].qty[p] % 2 = 0
    BY <1>1, <1>3 DEF Moves
  <1> QED
    BY <1>1, <1>2, <1>3 DEF StockStep, Idles, Advances, GivesBack, Restocks, Withdraws

\* What a whole-unit step does to one product.
WholeInv == TypeOK /\ Fresh /\ EvenRows

LEMMA WholeInvariant == WholeUnits => (Spec => []WholeInv)
  <1> SUFFICES ASSUME WholeUnits
               PROVE  Spec => []WholeInv
    OBVIOUS
  <1>1. Init => WholeInv
    BY TypeInit, FreshInit, EvenInit DEF WholeInv
  <1>2. WholeInv /\ [Next]_vars => WholeInv'
    BY TypeNext, FreshNext, EvenNext DEF WholeInv
  <1> QED
    BY <1>1, <1>2, PTL DEF Spec

\* Sold in whole units, a product never drifts: what is in stock and what live
\* orders hold is what the seller put in, whichever handler gives it back.
THEOREM ConservationCorrect == WholeUnits => (Spec => []StockConserved)
  <1> SUFFICES ASSUME WholeUnits
               PROVE  Spec => []StockConserved
    OBVIOUS
  <1>1. Init => StockConserved
    BY NothingHeld, QuantitiesAssumption DEF Init, StockConserved
  <1>2. WholeInv /\ WholeInv' /\ StockConserved /\ [Next]_vars => StockConserved'
    <2> SUFFICES ASSUME WholeInv, WholeInv', StockConserved, [Next]_vars,
                        NEW p \in Products \ removed'
                 PROVE  2 * stock'[p] + Held(p)' = stocked'[p]
      BY DEF StockConserved
    <2>1. ProductStep(p) /\ p \notin removed
      BY EveryProductStep DEF WholeInv
    <2>2. /\ stock[p] \in Nat /\ stock'[p] \in Nat /\ stocked[p] \in Int /\ stocked'[p] \in Int
          /\ 2 * stock[p] + Held(p) = stocked[p]
          /\ \A x \in OrderIds : order'[x].qty[p] % 2 = 0
      BY <2>1 DEF WholeInv, TypeOK, EvenRows, StockConserved
    <2>3. /\ Held(p) \in Int /\ Held(p)' \in Int
          /\ LET d == (2 * stock'[p] + Held(p)' - stocked'[p])
                        - (2 * stock[p] + Held(p) - stocked[p])
             IN  (\A x \in OrderIds : order'[x].qty[p] % 2 = 0) => d = 0
      BY <2>1, DriftStep DEF WholeInv
    <2> DEFINE d == (2 * stock'[p] + Held(p)' - stocked'[p])
                      - (2 * stock[p] + Held(p) - stocked[p])
    <2>4. d = 0
      BY <2>2, <2>3
    <2>5. PICK h, h1, s, s1, i, i1 : /\ h = Held(p) /\ h1 = Held(p)'
                                     /\ s = stock[p] /\ s1 = stock'[p]
                                     /\ i = stocked[p] /\ i1 = stocked'[p]
      OBVIOUS
    <2>6. h \in Int /\ h1 \in Int /\ s \in Nat /\ s1 \in Nat /\ i \in Int /\ i1 \in Int
      BY <2>2, <2>3, <2>5
    <2>7. 2 * s + h = i /\ (2 * s1 + h1 - i1) - (2 * s + h - i) = 0
      BY <2>2, <2>4, <2>5
    <2>8. 2 * s1 + h1 = i1
      BY <2>6, <2>7
    <2> QED
      BY <2>5, <2>8
  <1> QED
    BY <1>1, <1>2, WholeInvariant, PTL DEF Spec

\* Sold in whole units, the stock of a product moves against the claim of one
\* order and in the same amount, or as the seller corrects it, never otherwise.
THEOREM StockMovesCorrect == WholeUnits => (Spec => StockMovesWithClaims)
  <1> SUFFICES ASSUME WholeUnits
               PROVE  Spec => StockMovesWithClaims
    OBVIOUS
  <1> DEFINE Exact(p) ==
        \/ /\ \A o \in OrderIds : Claim(o, p)' = Claim(o, p)
           /\ 2 * (stock'[p] - stock[p]) = stocked'[p] - stocked[p]
        \/ /\ stocked'[p] = stocked[p]
           /\ \E o \in OrderIds :
                 /\ 2 * (stock'[p] - stock[p]) = Claim(o, p) - Claim(o, p)'
                 /\ \A x \in OrderIds \ {o} : Claim(x, p)' = Claim(x, p)
  <1>1. ASSUME WholeInv, WholeInv', [Next]_vars, NEW p \in Products \ removed'
        PROVE  Exact(p)
    <2>1. ProductStep(p)
      BY <1>1, EveryProductStep DEF WholeInv
    <2>2. CASE Quiet(p)
      BY <2>2 DEF Quiet
    <2>3. ASSUME NEW o \in OrderIds, Swaps(o, p)
          PROVE  Exact(p)
      <3>1. PICK c, c1 : c = Claim(o, p) /\ c1 = Claim(o, p)'
        OBVIOUS
      <3>2. stock[p] \in Nat /\ stock'[p] \in Nat /\ c \in Int /\ c1 \in Int
        BY <1>1, <3>1, ClaimType, ClaimsNext DEF WholeInv, TypeOK, ClaimsAreInt
      <3>3. 2 * (stock'[p] - stock[p]) + c1 - c = 0
        BY <1>1, <2>3, <3>1 DEF Swaps, WholeInv, EvenRows
      <3>4. 2 * (stock'[p] - stock[p]) = c - c1
        BY <3>2, <3>3
      <3> QED
        BY <2>3, <3>1, <3>4 DEF Swaps
    <2> QED
      BY <2>1, <2>2, <2>3 DEF ProductStep
  <1>2. WholeInv /\ WholeInv' /\ [Next]_vars => [\A p \in Products \ removed' : Exact(p)]_vars
    BY <1>1
  <1> QED
    BY <1>2, WholeInvariant, PTL DEF Spec, StockMovesWithClaims

-----------------------------------------------------------------------------
(* The promise of Fulfilment, case by case.                                 *)

StageNames ==
    {<<Absent, "none">>, <<Pending, "placed">>, <<Confirmed, "accepted">>,
     <<Delivering, "shipped">>, <<ArrivedAt, "delivered">>, <<Completed, "closed">>,
     <<Cancelled, "cancelled">>, <<Returning, "disputed">>, <<Returned, "refunded">>}

LEMMA StageOfNames == \A n \in StageNames : StageOf(n[1]) = n[2]
  BY DEF StageNames, StageOf, Absent, Pending, Confirmed, Delivering, ArrivedAt, Completed,
         Cancelled, Returning, Returned

Stage == [o \in OrderIds |-> StageOf(order[o].status)]
ClaimMap == [o \in OrderIds |-> [p \in Products |-> Claim(o, p)]]
Avail == [p \in Products |-> 2 * stock[p]]

LEMMA PromiseInit == Init => Promise!Init
  BY StageOfNames, QuantitiesAssumption
  DEF Init, NoOrder, Claim, StageNames, Promise!Init

LEMMA IdlesKeepPromise == Idles => UNCHANGED Promise!vars
  <1> SUFFICES ASSUME Idles
               PROVE  UNCHANGED Promise!vars
    OBVIOUS
  <1>1. \A o \in OrderIds, p \in Products : Claim(o, p)' = Claim(o, p)
    BY SameRowSameClaim DEF Idles
  <1> QED
    BY <1>1 DEF Idles, Promise!vars

LEMMA AdvanceKeepsPromise ==
    ASSUME TypeOK, NEW o \in OrderIds, Advances(o)
    PROVE  Promise!Advance(o)
  <1>1. PICK m \in ForwardMoves : Moves(o, m[1], m[2])
    BY DEF Advances
  <1>2. <<StageOf(m[1]), StageOf(m[2])>> \in Promise!Forward
    BY StageOfNames DEF ForwardMoves, StageNames, Promise!Forward
  <1>3. \A p \in Products : Claim(o, p)' = Claim(o, p)
    BY <1>1 DEF Moves, ForwardMoves, Claim, Absent, Pending, Confirmed, Delivering,
                ArrivedAt, Completed, Cancelled, Returning, Returned
  <1>4. \A x \in OrderIds \ {o} : /\ order'[x] = order[x]
                                  /\ \A p \in Products : Claim(x, p)' = Claim(x, p)
    BY <1>1, SameRowSameClaim DEF Moves
  <1>5. Stage' = [Stage EXCEPT ![o] = Stage'[o]] /\ <<Stage[o], Stage'[o]>> \in Promise!Forward
    BY <1>1, <1>2, <1>4 DEF Moves, Stage
  <1>6. ClaimMap' = ClaimMap
    BY <1>3, <1>4 DEF ClaimMap
  <1>7. stock' = stock /\ removed' = removed
    BY <1>1 DEF Advances, Moves
  <1> QED
    BY <1>5, <1>6, <1>7 DEF Promise!Advance, Stage, ClaimMap

LEMMA ReleaseKeepsPromise ==
    ASSUME TypeOK, EvenRows, NEW o \in OrderIds, GivesBack(o)
    PROVE  Promise!Release(o)
  <1>1. PICK m \in BackwardMoves : Moves(o, m[1], m[2])
    BY DEF GivesBack
  <1>2. <<StageOf(m[1]), StageOf(m[2])>> \in Promise!Backward
    BY StageOfNames DEF BackwardMoves, StageNames, Promise!Backward
  <1>3. \A p \in Products : Claim(o, p) = order[o].qty[p] /\ Claim(o, p)' = 0
    BY <1>1 DEF Moves, BackwardMoves, Claim, Absent, Pending, Cancelled, Returning, Returned
  <1>4. \A x \in OrderIds \ {o} : /\ order'[x] = order[x]
                                  /\ \A p \in Products : Claim(x, p)' = Claim(x, p)
    BY <1>1, SameRowSameClaim DEF Moves
  <1>5. Stage' = [Stage EXCEPT ![o] = Stage'[o]] /\ <<Stage[o], Stage'[o]>> \in Promise!Backward
    BY <1>1, <1>2, <1>4 DEF Moves, Stage
  <1>6. ClaimMap' = [ClaimMap EXCEPT ![o] = [p \in Products |-> 0]]
    BY <1>3, <1>4 DEF ClaimMap
  <1>7. removed' = removed
    BY <1>1 DEF Moves
  <1>8. ASSUME NEW p \in Products
        PROVE  2 * stock'[p] = IF p \in removed THEN 2 * stock[p]
                               ELSE 2 * stock[p] + Claim(o, p)
    <2>1. PICK q, s : q = order[o].qty[p] /\ s = stock[p]
      OBVIOUS
    <2>2. q \in Nat /\ s \in Nat /\ q % 2 = 0
      BY <2>1 DEF TypeOK, OrderRow, EvenRows
    <2>3. stock'[p] = IF q > 0 /\ p \notin removed THEN AddedBack(s, q) ELSE s
      BY <2>1 DEF GivesBack, GiveBack
    <2>4. 2 * AddedBack(s, q) = 2 * s + q
      BY <2>2, RoundHalvesNear DEF AddedBack
    <2> QED
      BY <1>3, <2>1, <2>2, <2>3, <2>4
  <1> QED
    BY <1>5, <1>6, <1>7, <1>8 DEF Promise!Release, Stage, ClaimMap

LEMMA RestockKeepsPromise ==
    ASSUME TypeOK, TypeOK', NEW p \in Products, Restocks(p)
    PROVE  Promise!Restock(p)
  <1>1. stock' \in [Products -> Nat] /\ \A q \in Products \ {p} : stock'[q] = stock[q]
    BY DEF TypeOK, Restocks
  <1>2. order' = order /\ removed' = removed /\ p \notin removed
    BY DEF Restocks
  <1>3. ClaimMap' = ClaimMap /\ Stage' = Stage
    BY <1>2 DEF ClaimMap, Stage, Claim
  <1>4. Avail' = [Avail EXCEPT ![p] = Avail'[p]] /\ Avail'[p] \in Nat
    <2>1. PICK a, a1 : a = Avail /\ a1 = Avail'
      OBVIOUS
    <2>2. /\ a = [q \in Products |-> a[q]] /\ a1 = [q \in Products |-> a1[q]]
          /\ \A q \in Products : a[q] = 2 * stock[q] /\ a1[q] = 2 * stock'[q]
      BY <2>1 DEF Avail
    <2>3. \A q \in Products \ {p} : a1[q] = a[q]
      BY <1>1, <2>2
    <2>4. stock'[p] \in Nat /\ a1[p] = 2 * stock'[p]
      BY <1>1, <2>2
    <2>5. a1[p] \in Nat
      BY <2>4
    <2> QED
      BY <2>1, <2>2, <2>3, <2>5
  <1> QED
    BY <1>2, <1>3, <1>4 DEF Promise!Restock, Stage, ClaimMap, Avail

LEMMA WithdrawKeepsPromise ==
    ASSUME NEW p \in Products, Withdraws(p)
    PROVE  Promise!Withdraw(p)
  BY DEF Withdraws, Promise!Withdraw, Claim

LEMMA PlaceKeepsPromise ==
    ASSUME TypeOK, Fresh, EvenRows', Creates
    PROVE  \E S \in (SUBSET OrderIds) \ {{}} : Promise!Place(S)
  <1> PICK b \in Buyers, lines \in Lines : \E id \in [ShopsIn(lines) -> OrderIds] :
              CreateOrders(b, lines, id)
    BY DEF Creates
  <1> PICK id \in [ShopsIn(lines) -> OrderIds] : CreateOrders(b, lines, id)
    OBVIOUS
  <1> PICK New : New = NewIds(lines, id)
    OBVIOUS
  <1>1. /\ \A x \in New : order[x].status = Absent /\ order'[x].status = Pending
        /\ \A x \in OrderIds \ New : order'[x] = order[x]
        /\ \A p \in Products : \A x \in New :
              order'[x].qty[p] = IF lines[p] > 0 /\ x = id[ShopOf[p]] THEN lines[p] ELSE 0
        /\ \A p \in Products : lines[p] > 0 => id[ShopOf[p]] \in New
    BY CreateRows
  <1>2. New \in (SUBSET OrderIds) \ {{}} /\ removed' = removed
    <2>1. ShopsIn(lines) # {} /\ removed' = removed
      BY DEF CreateOrders
    <2>2. \A x \in New : x \in OrderIds
      BY DEF NewIds
    <2>3. New # {}
      BY <2>1 DEF NewIds
    <2> QED
      BY <2>1, <2>2, <2>3
  <1>3. StageOf(Absent) = "none" /\ StageOf(Pending) = "placed"
    BY StageOfNames DEF StageNames
  <1>4. \A o \in New : Stage[o] = "none"
    BY <1>1, <1>2, <1>3 DEF Stage
  <1>5. Stage' = [o \in OrderIds |-> IF o \in New THEN "placed" ELSE Stage[o]]
    BY <1>1, <1>3 DEF Stage
  <1>6. \A o \in OrderIds \ New : ClaimMap'[o] = ClaimMap[o]
    <2>1. \A o \in OrderIds \ New : \A p \in Products : Claim(o, p)' = Claim(o, p)
      BY <1>1, SameRowSameClaim
    <2> QED
      BY <2>1 DEF ClaimMap
  <1>7. \A o \in New : \A p \in Products : ClaimMap'[o][p] = order'[o].qty[p]
    BY <1>1, <1>2 DEF ClaimMap, Claim, Absent, Pending, Cancelled, Returned
  <1>8. ASSUME NEW p \in Products
        PROVE  \/ Avail'[p] = Avail[p] /\ \A o \in New : ClaimMap'[o][p] = 0
               \/ \E o \in New :
                     /\ ClaimMap'[o][p] \in 1 .. Avail[p]
                     /\ Avail'[p] = Avail[p] - ClaimMap'[o][p]
                     /\ \A other \in New \ {o} : ClaimMap'[other][p] = 0
    <2>1. /\ lines[p] \in Nat /\ stock[p] \in Nat
          /\ Avail[p] = 2 * stock[p] /\ Avail'[p] = 2 * stock'[p]
      BY LinesNat DEF TypeOK, Avail
    <2>2. /\ stock'[p] = IF lines[p] > 0 THEN Deducted(stock[p], lines[p]) ELSE stock[p]
          /\ lines[p] > 0 => Enough(stock[p], lines[p])
      BY DEF CreateOrders, Orderable
    <2>3. CASE lines[p] = 0
      BY <1>1, <1>7, <2>1, <2>2, <2>3
    <2>4. CASE lines[p] > 0
      <3>1. PICK o \in New : o = id[ShopOf[p]]
        BY <1>1, <2>4
      <3>2. ClaimMap'[o][p] = lines[p] /\ \A other \in New \ {o} : ClaimMap'[other][p] = 0
        BY <1>1, <1>7, <2>4, <3>1
      <3>3. lines[p] % 2 = 0
        BY <1>1, <1>2, <2>4, <3>1 DEF EvenRows
      <3>4. 2 * stock[p] - lines[p] \in Nat /\ (2 * stock[p] - lines[p]) % 2 = 0
        BY <2>1, <2>2, <2>4, <3>3 DEF Enough
      <3>5. 2 * stock'[p] = 2 * stock[p] - lines[p]
        BY <2>2, <2>4, <3>4, RoundHalvesNear DEF Deducted
      <3>6. ClaimMap'[o][p] \in 1 .. Avail[p] /\ Avail'[p] = Avail[p] - ClaimMap'[o][p]
        BY <2>1, <2>4, <3>2, <3>4, <3>5
      <3> QED
        BY <3>2, <3>6
    <2> QED
      BY <2>1, <2>3, <2>4
  <1>9. Promise!Place(New)
    BY <1>2, <1>4, <1>5, <1>6, <1>8 DEF Promise!Place, Stage, ClaimMap, Avail
  <1> QED
    BY <1>2, <1>9

\* Sold in whole units, the order system keeps its promise: every step of the
\* handlers and of the scheduler places, advances, releases, restocks or
\* withdraws as Fulfilment says, or changes nothing it speaks of.
THEOREM PromiseCorrect == WholeUnits => (Spec => KeepsPromise)
  <1> SUFFICES ASSUME WholeUnits
               PROVE  Spec => KeepsPromise
    OBVIOUS
  <1>1. WholeInv /\ WholeInv' /\ [Next]_vars => [Promise!Next]_Promise!vars
    <2> SUFFICES ASSUME WholeInv, WholeInv', [Next]_vars
                 PROVE  Promise!Next \/ UNCHANGED Promise!vars
      OBVIOUS
    <2>1. StockStep
      BY EveryStockStep DEF WholeInv
    <2>2. CASE Idles
      BY <2>2, IdlesKeepPromise
    <2>3. CASE Creates
      BY <2>3, PlaceKeepsPromise DEF WholeInv, Promise!Next
    <2>4. ASSUME NEW o \in OrderIds, Advances(o) \/ GivesBack(o)
          PROVE  Promise!Next
      BY <2>4, AdvanceKeepsPromise, ReleaseKeepsPromise DEF WholeInv, Promise!Next
    <2>5. ASSUME NEW p \in Products, Restocks(p) \/ Withdraws(p)
          PROVE  Promise!Next
      BY <2>5, RestockKeepsPromise, WithdrawKeepsPromise DEF WholeInv, Promise!Next
    <2> QED
      BY <2>1, <2>2, <2>3, <2>4, <2>5 DEF StockStep
  <1> QED
    BY <1>1, PromiseInit, WholeInvariant, PTL DEF Spec, KeepsPromise, Promise!Spec

=============================================================================
