----------------------------- MODULE Cart_proofs -----------------------------
(***************************************************************************)
(* Theorems about Cart for any number of requests, products, SKUs and rows. *)
(*                                                                         *)
(* Every rule of the cart is checked by a statement that comes before the  *)
(* one that writes.  The invariant therefore counts the requests that have *)
(* passed a check and not written yet together with what was written:      *)
(* their sum is bounded because a check looks at what is written, and what *)
(* is between check and write is at most one per request.                  *)
(***************************************************************************)
EXTENDS Cart, SumTheorems

PCs == {"idle", "check", "find", "count", "insert", "write", "remove", "commit"}

States == {"none", "live", "gone"}

\* The part of the types the arguments below need.
RowShape(w) ==
    w \in [state: States, product: {w.product}, sku: {w.sku}, qty: {w.qty}]

ReqShape(q) ==
    q \in [pc: PCs, todo: {q.todo}, sku: {q.sku}, cap: {q.cap}, id: {q.id},
           qty: {q.qty}, ids: SUBSET RowIds, seen: {q.seen}]

Shape ==
    /\ row = [i \in RowIds |-> row[i]] /\ \A i \in RowIds : RowShape(row[i])
    /\ req = [r \in Requests |-> req[r]] /\ \A r \in Requests : ReqShape(req[r])
    /\ uses \in [RowIds -> Nat]

\* The requests between a check and its write.
Inserting == {r \in Requests : req[r].pc = "insert"}

Adding(p, s) ==
    {r \in Requests : req[r].pc \in {"count", "insert"} /\ req[r].sku = s /\ Item(r, p)}

Ordering(i) == {r \in Requests : req[r].pc = "commit" /\ i \in req[r].ids}

LimitInv ==
    Cardinality(Live) + Cardinality(Inserting) <= MaxItems + Cardinality(Requests) - 1

KeyInv ==
    \A p \in Products, s \in Skus \cup {NoSku} :
       Cardinality(LiveOf(p, s)) + Cardinality(Adding(p, s)) <= Cardinality(Requests)

UseInv ==
    \A i \in RowIds :
       /\ uses[i] + Cardinality(Ordering(i)) <= Cardinality(Requests)
       /\ uses[i] > 0 => row[i].state = "gone"
       /\ Ordering(i) # {} => row[i].state # "none"

CartInv == Shape /\ LimitInv /\ KeyInv /\ UseInv

-----------------------------------------------------------------------------
(* Counting.                                                                *)

\* Sets of rows and sets of requests are finite.
LEMMA CountRows ==
    ASSUME NEW S, S \subseteq RowIds
    PROVE  IsFiniteSet(S) /\ Cardinality(S) \in Nat
  <1>1. IsFiniteSet(RowIds)
    BY FS_Interval, LimitsAssumption DEF RowIds
  <1>2. IsFiniteSet(S)
    BY <1>1, FS_Subset
  <1> QED
    BY <1>2, FS_CardinalityType

LEMMA CountRequests ==
    ASSUME NEW S, S \subseteq Requests
    PROVE  /\ IsFiniteSet(S) /\ Cardinality(S) \in Nat
           /\ Cardinality(Requests) \in Nat
           /\ Cardinality(S) <= Cardinality(Requests)
  <1>1. IsFiniteSet(Requests)
    BY ClientsAssumption
  <1>2. IsFiniteSet(S) /\ Cardinality(S) <= Cardinality(Requests)
    BY <1>1, FS_Subset
  <1> QED
    BY <1>1, <1>2, FS_CardinalityType

\* A part is not larger than the whole.
LEMMA Smaller ==
    ASSUME NEW S, IsFiniteSet(S), NEW T, T \subseteq S
    PROVE  Cardinality(T) <= Cardinality(S)
  BY FS_Subset

-----------------------------------------------------------------------------
(* Shapes.                                                                  *)

LEMMA IdleShape == ReqShape(Idle)
  BY DEF ReqShape, Idle, PCs

\* Goto replaces what one request holds and leaves the others alone.
LEMMA GotoShape ==
    ASSUME Shape, NEW r \in Requests, NEW q, ReqShape(q), NEW pc \in PCs, Goto(r, q, pc)
    PROVE  /\ req' = [x \in Requests |-> req'[x]]
           /\ \A x \in Requests : ReqShape(req'[x])
           /\ \A x \in Requests \ {r} : req'[x] = req[x]
           /\ req'[r].pc = pc
           /\ req'[r].todo = q.todo /\ req'[r].sku = q.sku /\ req'[r].ids = q.ids
  <1> DEFINE n == [q EXCEPT !.pc = pc]
  <1>1. ReqShape(n) /\ n.pc = pc /\ n.todo = q.todo /\ n.sku = q.sku /\ n.ids = q.ids
    BY DEF ReqShape
  <1>2. req' = [req EXCEPT ![r] = n]
    BY DEF Goto
  <1>3. req'[r] = n /\ \A x \in Requests \ {r} : req'[x] = req[x]
    BY <1>2 DEF Shape
  <1>4. req' = [x \in Requests |-> req'[x]]
    BY <1>2 DEF Shape
  <1>5. \A x \in Requests : ReqShape(req'[x])
    BY <1>1, <1>3 DEF Shape
  <1> QED
    BY <1>1, <1>3, <1>4, <1>5

LEMMA AnswerShape ==
    ASSUME Shape, NEW r \in Requests, Answer(r)
    PROVE  /\ req' = [x \in Requests |-> req'[x]]
           /\ \A x \in Requests : ReqShape(req'[x])
           /\ \A x \in Requests \ {r} : req'[x] = req[x]
           /\ req'[r].pc = "idle"
  <1>1. req' = [req EXCEPT ![r] = Idle]
    BY DEF Answer
  <1>2. req'[r] = Idle /\ \A x \in Requests \ {r} : req'[x] = req[x]
    BY <1>1 DEF Shape
  <1>3. req' = [x \in Requests |-> req'[x]]
    BY <1>1 DEF Shape
  <1>4. \A x \in Requests : ReqShape(req'[x])
    BY <1>2, IdleShape DEF Shape
  <1> QED
    BY <1>2, <1>3, <1>4 DEF Idle

-----------------------------------------------------------------------------
(* Calm steps: nobody passes a check, no row is added, no order made.       *)

RowCalm(i) ==
    /\ RowShape(row'[i])
    /\ row'[i].product = row[i].product /\ row'[i].sku = row[i].sku
    /\ \/ row'[i].state = row[i].state
       \/ row[i].state = "live" /\ row'[i].state = "gone"
    /\ row[i].state = "gone" => row'[i] = row[i]

Calm ==
    /\ row' = [i \in RowIds |-> row'[i]] /\ \A i \in RowIds : RowCalm(i)
    /\ req' = [r \in Requests |-> req'[r]] /\ \A r \in Requests : ReqShape(req'[r])
    /\ \A r \in Requests :
          req'[r] = req[r] \/ req'[r].pc \notin {"count", "insert", "commit"}
    /\ uses' = uses

LEMMA CalmKeepsInv ==
    ASSUME CartInv, Calm
    PROVE  CartInv'
  <1>1. Shape'
    BY DEF CartInv, Shape, Calm, RowCalm
  <1>2. LimitInv'
    <2>1. Live' \subseteq Live /\ Inserting' \subseteq Inserting
      BY DEF Live, Inserting, Calm, RowCalm
    <2>2. Live \subseteq RowIds /\ Inserting \subseteq Requests
      BY DEF Live, Inserting
    <2>3. Cardinality(Live') <= Cardinality(Live)
      BY <2>1, <2>2, CountRows, Smaller
    <2>4. Cardinality(Inserting') <= Cardinality(Inserting)
      BY <2>1, <2>2, CountRequests, Smaller
    <2>5. /\ Cardinality(Live) \in Nat /\ Cardinality(Live') \in Nat
          /\ Cardinality(Inserting) \in Nat /\ Cardinality(Inserting') \in Nat
          /\ Cardinality(Requests) \in Nat
      <3>1. Live' \subseteq RowIds /\ Inserting' \subseteq Requests
        BY <2>1, <2>2
      <3> QED
        BY <3>1, <2>2, CountRows, CountRequests
    <2> QED
      BY <2>3, <2>4, <2>5, LimitsAssumption DEF CartInv, LimitInv
  <1>3. KeyInv'
    <2> SUFFICES ASSUME NEW p \in Products, NEW s \in Skus \cup {NoSku}
                 PROVE  Cardinality(LiveOf(p, s)') + Cardinality(Adding(p, s)')
                           <= Cardinality(Requests)
      BY DEF KeyInv
    <2>1. LiveOf(p, s)' \subseteq LiveOf(p, s)
      BY DEF LiveOf, Live, Calm, RowCalm
    <2>2. Adding(p, s)' \subseteq Adding(p, s)
      BY DEF Adding, Item, Calm
    <2>3. LiveOf(p, s) \subseteq RowIds /\ Adding(p, s) \subseteq Requests
      BY DEF LiveOf, Live, Adding
    <2>4. Cardinality(LiveOf(p, s)') <= Cardinality(LiveOf(p, s))
      BY <2>1, <2>3, CountRows, Smaller
    <2>5. Cardinality(Adding(p, s)') <= Cardinality(Adding(p, s))
      BY <2>2, <2>3, CountRequests, Smaller
    <2>6. /\ Cardinality(LiveOf(p, s)) \in Nat /\ Cardinality(LiveOf(p, s)') \in Nat
          /\ Cardinality(Adding(p, s)) \in Nat /\ Cardinality(Adding(p, s)') \in Nat
          /\ Cardinality(Requests) \in Nat
      <3>1. LiveOf(p, s)' \subseteq RowIds /\ Adding(p, s)' \subseteq Requests
        BY <2>1, <2>2, <2>3
      <3> QED
        BY <3>1, <2>3, CountRows, CountRequests
    <2> QED
      BY <2>4, <2>5, <2>6 DEF CartInv, KeyInv
  <1>4. UseInv'
    <2> SUFFICES ASSUME NEW i \in RowIds
                 PROVE  /\ uses'[i] + Cardinality(Ordering(i)') <= Cardinality(Requests)
                        /\ uses'[i] > 0 => row'[i].state = "gone"
                        /\ Ordering(i)' # {} => row'[i].state # "none"
      BY DEF UseInv
    <2>1. Ordering(i)' \subseteq Ordering(i) /\ Ordering(i) \subseteq Requests
      BY DEF Ordering, Calm
    <2>2. Cardinality(Ordering(i)') <= Cardinality(Ordering(i))
      BY <2>1, CountRequests, Smaller
    <2>3. /\ Cardinality(Ordering(i)) \in Nat /\ Cardinality(Ordering(i)') \in Nat
          /\ Cardinality(Requests) \in Nat /\ uses[i] \in Nat /\ uses'[i] = uses[i]
      <3>1. Ordering(i)' \subseteq Requests
        BY <2>1
      <3> QED
        BY <3>1, <2>1, CountRequests DEF CartInv, Shape, Calm
    <2>4. uses'[i] + Cardinality(Ordering(i)') <= Cardinality(Requests)
      BY <2>2, <2>3 DEF CartInv, UseInv
    <2>5. RowCalm(i)
      BY DEF Calm
    <2> QED
      BY <2>1, <2>3, <2>4, <2>5 DEF CartInv, UseInv, RowCalm
  <1> QED
    BY <1>1, <1>2, <1>3, <1>4 DEF CartInv

\* Steps that write no row: what is left to look at is the request.
LEMMA RowsKeptCalm ==
    ASSUME Shape, row' = row, uses' = uses, NEW r \in Requests, NEW q, ReqShape(q),
           NEW pc \in PCs \ {"count", "insert", "commit"},
           Goto(r, q, pc) \/ Answer(r)
    PROVE  Calm
  <1>1. /\ req' = [x \in Requests |-> req'[x]]
        /\ \A x \in Requests : ReqShape(req'[x])
        /\ \A x \in Requests \ {r} : req'[x] = req[x]
        /\ req'[r].pc \notin {"count", "insert", "commit"}
    <2>1. CASE Goto(r, q, pc)
      <3>1. pc \in PCs /\ pc \notin {"count", "insert", "commit"}
        OBVIOUS
      <3>2. /\ req' = [x \in Requests |-> req'[x]]
            /\ \A x \in Requests : ReqShape(req'[x])
            /\ \A x \in Requests \ {r} : req'[x] = req[x]
            /\ req'[r].pc = pc
        BY <2>1, <3>1, GotoShape
      <3> QED
        BY <3>1, <3>2
    <2>2. CASE Answer(r)
      BY <2>2, AnswerShape
    <2> QED
      BY <2>1, <2>2
  <1>2. \A i \in RowIds : RowCalm(i)
    BY DEF RowCalm, Shape
  <1>3. row' = [i \in RowIds |-> row'[i]]
    BY DEF Shape
  <1> QED
    BY <1>1, <1>2, <1>3 DEF Calm

\* Soft-deleting live rows is calm; so is writing the quantity of a live row.
LEMMA SoftDeletedCalm ==
    ASSUME Shape, NEW ids \in SUBSET RowIds, row' = SoftDeleted(ids)
    PROVE  /\ row' = [i \in RowIds |-> row'[i]]
           /\ \A i \in RowIds : RowCalm(i)
           /\ \A i \in ids : row[i].state # "none" => row'[i].state = "gone"
  <1>1. row' = [i \in RowIds |-> row'[i]]
    BY DEF SoftDeleted
  <1>2. ASSUME NEW i \in RowIds
        PROVE  /\ RowCalm(i)
               /\ i \in ids /\ row[i].state # "none" => row'[i].state = "gone"
    <2>0. RowShape(row[i])
      BY DEF Shape
    <2>1. CASE i \in ids \cap Live
      <3>1. row'[i] = [row[i] EXCEPT !.state = "gone"] /\ row[i].state = "live"
        BY <2>1 DEF SoftDeleted, Live
      <3> QED
        BY <3>1, <2>0 DEF RowCalm, RowShape, States
    <2>2. CASE i \notin ids \cap Live
      <3>1. row'[i] = row[i]
        BY <2>2 DEF SoftDeleted
      <3> QED
        BY <3>1, <2>0, <2>2 DEF RowCalm, RowShape, States, Live
    <2> QED
      BY <2>1, <2>2
  <1> QED
    BY <1>1, <1>2

LEMMA WrittenCalm ==
    ASSUME Shape, NEW r \in Requests, WriteLiveRow(r)
    PROVE  row' = [i \in RowIds |-> row'[i]] /\ \A i \in RowIds : RowCalm(i)
  <1>1. CASE req[r].id \in Live
    <2> DEFINE k == req[r].id
               n == [row[k] EXCEPT !.qty = req[r].qty]
    <2>1. k \in RowIds /\ row[k].state = "live" /\ RowShape(row[k])
      BY <1>1 DEF Live, Shape
    <2>2. row' = [row EXCEPT ![k] = n]
      BY <1>1 DEF WriteLiveRow
    <2>3. /\ RowShape(n) /\ n.state = "live"
          /\ n.product = row[k].product /\ n.sku = row[k].sku
      BY <2>1 DEF RowShape
    <2>4. row'[k] = n /\ \A i \in RowIds \ {k} : row'[i] = row[i]
      BY <2>1, <2>2 DEF Shape
    <2>5. row' = [i \in RowIds |-> row'[i]]
      BY <2>2 DEF Shape
    <2>6. RowCalm(k)
      BY <2>1, <2>3, <2>4 DEF RowCalm
    <2>7. ASSUME NEW i \in RowIds, i # k PROVE RowCalm(i)
      BY <2>4, <2>7 DEF RowCalm, Shape
    <2> QED
      BY <2>5, <2>6, <2>7
  <1>2. CASE req[r].id \notin Live
    BY <1>2 DEF WriteLiveRow, Shape, RowCalm
  <1> QED
    BY <1>1, <1>2

-----------------------------------------------------------------------------
(* The steps of a request.                                                  *)

\* What a request holds is given to Goto with some fields replaced.
LEMMA HeldShape ==
    ASSUME NEW q, ReqShape(q), NEW a, NEW b, NEW c, NEW ids \in SUBSET RowIds
    PROVE  /\ ReqShape([q EXCEPT !.todo = a])
           /\ ReqShape([[[q EXCEPT !.todo = a] EXCEPT !.sku = b] EXCEPT !.cap = c])
           /\ ReqShape([q EXCEPT !.cap = a])
           /\ ReqShape([[q EXCEPT !.id = a] EXCEPT !.qty = b])
           /\ ReqShape([q EXCEPT !.ids = ids])
           /\ ReqShape([[q EXCEPT !.ids = ids] EXCEPT !.seen = a])
           /\ [[q EXCEPT !.ids = ids] EXCEPT !.seen = a].ids = ids
  BY DEF ReqShape

LEMMA IdsShape ==
    ASSUME NEW ids \in SUBSET RowIds, NEW seen
    PROVE  /\ ReqShape([Idle EXCEPT !.ids = ids])
           /\ ReqShape([[Idle EXCEPT !.ids = ids] EXCEPT !.seen = seen])
           /\ [[Idle EXCEPT !.ids = ids] EXCEPT !.seen = seen].ids = ids
  BY IdleShape DEF ReqShape

LEMMA StartCalm ==
    ASSUME Shape, NEW r \in Requests,
           \/ \E p \in Products, s \in Skus \cup {NoSku}, q \in Quantities : Add(r, p, s, q)
           \/ \E items \in [Products -> Quantities \cup {0}] : Reorder(r, items)
           \/ \E i \in RowIds : Delete(r, i) \/ \E q \in Quantities : UpdateQuantity(r, i, q)
           \/ ClearInvalid(r) \/ Abort(r)
    PROVE  Calm
  <1> USE IdleShape DEF PCs
  <1>1. ASSUME NEW p \in Products, NEW s \in Skus \cup {NoSku}, NEW q \in Quantities,
               Add(r, p, s, q)
        PROVE  Calm
    BY <1>1, HeldShape, RowsKeptCalm DEF Add, Keep
  <1>2. ASSUME NEW items, Reorder(r, items) PROVE Calm
    BY <1>2, HeldShape, RowsKeptCalm DEF Reorder, Keep
  <1>3. ASSUME NEW i \in RowIds, Delete(r, i) PROVE Calm
    <2> DEFINE q == [Idle EXCEPT !.ids = {i}]
    <2>1. Goto(r, q, "remove") /\ row' = row /\ uses' = uses
      BY <1>3 DEF Delete, Keep
    <2>2. ReqShape(q)
      BY IdsShape
    <2> HIDE DEF q
    <2> QED
      BY <2>1, <2>2, RowsKeptCalm
  <1>4. ASSUME NEW i \in RowIds, NEW q, UpdateQuantity(r, i, q) PROVE Calm
    BY <1>4, HeldShape, RowsKeptCalm DEF UpdateQuantity, Keep
  <1>5. ASSUME ClearInvalid(r) PROVE Calm
    BY <1>5, HeldShape, RowsKeptCalm DEF ClearInvalid, Keep, Invalid, Live
  <1>6. ASSUME Abort(r) PROVE Calm
    <2>1. "idle" \in PCs \ {"count", "insert", "commit"}
      OBVIOUS
    <2> QED
      BY <1>6, <2>1, RowsKeptCalm DEF Abort, Keep
  <1> QED
    BY <1>1, <1>2, <1>3, <1>4, <1>5, <1>6

\* An item is done: the request is idle or goes on to check the next one.
LEMMA NextItemShape ==
    ASSUME Shape, NEW r \in Requests, NEW p, NextItem(r, p)
    PROVE  /\ req' = [x \in Requests |-> req'[x]]
           /\ \A x \in Requests : ReqShape(req'[x])
           /\ \A x \in Requests \ {r} : req'[x] = req[x]
           /\ req'[r].pc \in {"idle", "check"}
  <1>1. CASE Answer(r)
    BY <1>1, AnswerShape
  <1>2. CASE Goto(r, [Idle EXCEPT !.todo = Rest(r, p)], "check")
    <2>1. ReqShape([Idle EXCEPT !.todo = Rest(r, p)]) /\ "check" \in PCs
      BY IdleShape, HeldShape DEF PCs
    <2> QED
      BY <1>2, <2>1, GotoShape
  <1> QED
    BY <1>1, <1>2 DEF NextItem

LEMMA AddCheckCalm ==
    ASSUME Shape, NEW r \in Requests, NEW p \in Products, AddCheck(r, p)
    PROVE  Calm
  <1>1. ReqShape(req[r]) /\ ReqShape([req[r] EXCEPT !.cap = stock[p]])
    BY HeldShape DEF Shape
  <1>2. row' = row /\ uses' = uses
    BY DEF AddCheck, Keep
  <1>3. "find" \in PCs \ {"count", "insert", "commit"}
    BY DEF PCs
  <1> QED
    BY <1>1, <1>2, <1>3, IdleShape, RowsKeptCalm DEF AddCheck

LEMMA WriteQuantityCalm ==
    ASSUME Shape, NEW r \in Requests, WriteQuantity(r)
    PROVE  Calm
  <1>1. row' = [i \in RowIds |-> row'[i]] /\ \A i \in RowIds : RowCalm(i)
    BY WrittenCalm DEF WriteQuantity
  <1>2. Answer(r) \/ \E p \in Products : NextItem(r, p)
    BY DEF WriteQuantity
  <1>3. /\ req' = [x \in Requests |-> req'[x]]
        /\ \A x \in Requests : ReqShape(req'[x])
        /\ \A x \in Requests \ {r} : req'[x] = req[x]
        /\ req'[r].pc \in {"idle", "check"}
    <2>1. CASE Answer(r)
      BY <2>1, AnswerShape
    <2>2. CASE \E p \in Products : NextItem(r, p)
      BY <2>2, NextItemShape
    <2> QED
      BY <1>2, <2>1, <2>2
  <1> QED
    BY <1>1, <1>3 DEF WriteQuantity, Calm

LEMMA RemoveCalm ==
    ASSUME Shape, NEW r \in Requests,
           Remove(r) \/ \E ids \in SUBSET RowIds : DeleteBatch(r, ids)
    PROVE  Calm
  <1>1. CASE Remove(r)
    <2>1. req[r].ids \in SUBSET RowIds
      BY DEF Shape, ReqShape
    <2>2. row' = [i \in RowIds |-> row'[i]] /\ \A i \in RowIds : RowCalm(i)
      BY <1>1, <2>1, SoftDeletedCalm DEF Remove
    <2>3. /\ req' = [x \in Requests |-> req'[x]]
          /\ \A x \in Requests : ReqShape(req'[x])
          /\ \A x \in Requests \ {r} : req'[x] = req[x]
          /\ req'[r].pc = "idle"
      BY <1>1, AnswerShape DEF Remove
    <2> QED
      BY <1>1, <2>2, <2>3 DEF Remove, Calm
  <1>2. ASSUME NEW ids \in SUBSET RowIds, DeleteBatch(r, ids) PROVE Calm
    <2>1. row' = [i \in RowIds |-> row'[i]] /\ \A i \in RowIds : RowCalm(i)
      BY <1>2, SoftDeletedCalm DEF DeleteBatch
    <2> QED
      BY <1>2, <2>1 DEF DeleteBatch, Calm, Shape
  <1> QED
    BY <1>1, <1>2

LEMMA WorldCalm ==
    ASSUME Shape, UNCHANGED <<row, req, uses>>
    PROVE  Calm
  BY DEF Shape, Calm, RowCalm

-----------------------------------------------------------------------------
(* The five steps that pass a check or do what a check allowed.             *)

\* Add finds no row of the product: from here on it may insert one.
LEMMA AddFindStep ==
    ASSUME CartInv, NEW r \in Requests, NEW p \in Products, AddFind(r, p)
    PROVE  CartInv'
  <1> DEFINE s == req[r].sku
  <1>0. /\ ReqShape(req[r]) /\ Shape /\ row' = row /\ uses' = uses /\ At(r, "find")
    BY DEF CartInv, Shape, AddFind, Keep
  <1>1. CASE LiveOf(p, s) # {}
    <2> DEFINE i == Min(LiveOf(p, s))
               sum == row[i].qty + req[r].todo[p]
    <2>1. Answer(r) \/ Goto(r, [[req[r] EXCEPT !.id = i] EXCEPT !.qty = sum], "write")
      BY <1>1 DEF AddFind
    <2>2. /\ ReqShape([[req[r] EXCEPT !.id = i] EXCEPT !.qty = sum])
          /\ "write" \in PCs \ {"count", "insert", "commit"}
      BY <1>0, HeldShape DEF PCs
    <2>3. Calm
      BY <1>0, <2>1, <2>2, RowsKeptCalm
    <2> QED
      BY <2>3, CalmKeepsInv
  <1>2. CASE LiveOf(p, s) = {}
    <2>1. Goto(r, req[r], "count") /\ "count" \in PCs
      BY <1>2 DEF AddFind, PCs
    <2>2. /\ req' = [x \in Requests |-> req'[x]]
          /\ \A x \in Requests : ReqShape(req'[x])
          /\ \A x \in Requests \ {r} : req'[x] = req[x]
          /\ req'[r].pc = "count" /\ req'[r].sku = s /\ req'[r].todo = req[r].todo
      BY <1>0, <2>1, GotoShape
    <2>3. Shape'
      BY <1>0, <2>2 DEF Shape
    <2>4. LimitInv'
      <3>1. Live' = Live /\ Inserting' = Inserting
        BY <1>0, <2>2 DEF Live, Inserting, At
      <3> QED
        BY <3>1 DEF CartInv, LimitInv
    <2>5. KeyInv'
      <3> SUFFICES ASSUME NEW q \in Products, NEW t \in Skus \cup {NoSku}
                   PROVE  Cardinality(LiveOf(q, t)') + Cardinality(Adding(q, t)')
                             <= Cardinality(Requests)
        BY DEF KeyInv
      <3>1. LiveOf(q, t)' = LiveOf(q, t)
        BY <1>0 DEF LiveOf, Live
      <3>2. CASE q = p /\ t = s
        <4>1. Cardinality(LiveOf(q, t)') = 0
          BY <1>2, <3>1, <3>2, FS_EmptySet
        <4>2. Adding(q, t)' \subseteq Requests
          BY DEF Adding
        <4> QED
          BY <4>1, <4>2, CountRequests
      <3>3. CASE ~(q = p /\ t = s)
        <4>1. r \notin Adding(q, t)'
          <5>1. Item(r, p)
            BY DEF AddFind
          <5>2. Item(r, q)' => q = p
            BY <5>1, <2>2, ClientsAssumption DEF Item
          <5> QED
            BY <5>2, <2>2, <3>3 DEF Adding
        <4>2. Adding(q, t)' \subseteq Adding(q, t)
          BY <4>1, <2>2 DEF Adding, Item
        <4>3. /\ Adding(q, t) \subseteq Requests /\ Adding(q, t)' \subseteq Requests
              /\ LiveOf(q, t) \subseteq RowIds
          BY DEF Adding, LiveOf, Live
        <4>4. Cardinality(Adding(q, t)') <= Cardinality(Adding(q, t))
          BY <4>2, <4>3, CountRequests, Smaller
        <4> QED
          BY <3>1, <4>3, <4>4, CountRequests, CountRows DEF CartInv, KeyInv
      <3> QED
        BY <3>2, <3>3
    <2>6. UseInv'
      <3>1. \A i \in RowIds : Ordering(i)' = Ordering(i)
        BY <1>0, <2>2 DEF Ordering, At
      <3> QED
        BY <1>0, <3>1 DEF CartInv, UseInv
    <2> QED
      BY <2>3, <2>4, <2>5, <2>6 DEF CartInv
  <1> QED
    BY <1>1, <1>2

\* The count of the rows is below the limit: the request may insert one more.
LEMMA AddCountStep ==
    ASSUME CartInv, NEW r \in Requests, AddCount(r)
    PROVE  CartInv'
  <1>0. ReqShape(req[r]) /\ Shape /\ row' = row /\ uses' = uses /\ At(r, "count")
    BY DEF CartInv, Shape, AddCount, Keep
  <1>1. CASE ~(Cardinality(Live) < MaxItems)
    <2>1. Answer(r) /\ "idle" \in PCs \ {"count", "insert", "commit"}
      BY <1>1 DEF AddCount, PCs
    <2> QED
      BY <1>0, <2>1, RowsKeptCalm, CalmKeepsInv
  <1>2. CASE Cardinality(Live) < MaxItems
    <2>1. Goto(r, req[r], "insert") /\ "insert" \in PCs
      BY <1>2 DEF AddCount, PCs
    <2>2. /\ req' = [x \in Requests |-> req'[x]]
          /\ \A x \in Requests : ReqShape(req'[x])
          /\ \A x \in Requests \ {r} : req'[x] = req[x]
          /\ req'[r].pc = "insert" /\ req'[r].sku = req[r].sku
          /\ req'[r].todo = req[r].todo
      BY <1>0, <2>1, GotoShape
    <2>3. Shape'
      BY <1>0, <2>2 DEF Shape
    <2>4. LimitInv'
      <3>1. Live' = Live /\ Live \subseteq RowIds /\ Inserting' \subseteq Requests
        BY <1>0 DEF Live, Inserting
      <3>2. Cardinality(Live') <= MaxItems - 1
        BY <1>2, <3>1, CountRows, LimitsAssumption
      <3> QED
        BY <3>1, <3>2, CountRows, CountRequests, LimitsAssumption DEF LimitInv
    <2>5. KeyInv'
      <3>1. ASSUME NEW q \in Products, NEW t \in Skus \cup {NoSku}
            PROVE  LiveOf(q, t)' = LiveOf(q, t) /\ Adding(q, t)' = Adding(q, t)
        BY <1>0, <2>2 DEF LiveOf, Live, Adding, Item, At
      <3> QED
        BY <3>1 DEF CartInv, KeyInv
    <2>6. UseInv'
      <3>1. \A i \in RowIds : Ordering(i)' = Ordering(i)
        BY <1>0, <2>2 DEF Ordering, At
      <3> QED
        BY <1>0, <3>1 DEF CartInv, UseInv
    <2> QED
      BY <2>3, <2>4, <2>5, <2>6 DEF CartInv
  <1> QED
    BY <1>1, <1>2

\* The insert turns a request that may insert into a row.
LEMMA AddInsertStep ==
    ASSUME CartInv, NEW r \in Requests, NEW p \in Products, NEW i \in RowIds,
           AddInsert(r, p, i)
    PROVE  CartInv'
  <1> DEFINE s == req[r].sku
             n == [state |-> "live", product |-> p, sku |-> s, qty |-> req[r].todo[p]]
  <1>0. /\ ReqShape(req[r]) /\ Shape /\ uses' = uses /\ At(r, "insert")
        /\ Item(r, p) /\ row[i].state = "none"
    BY DEF CartInv, Shape, AddInsert, Unused
  <1>1. CASE KeyTaken(p, s)
    <2>1. Answer(r) /\ row' = row /\ "idle" \in PCs \ {"count", "insert", "commit"}
      BY <1>1 DEF AddInsert, PCs
    <2> QED
      BY <1>0, <2>1, RowsKeptCalm, CalmKeepsInv
  <1>2. CASE ~KeyTaken(p, s)
    <2>1. row' = [row EXCEPT ![i] = n] /\ NextItem(r, p)
      BY <1>2 DEF AddInsert
    <2>2. /\ req' = [x \in Requests |-> req'[x]]
          /\ \A x \in Requests : ReqShape(req'[x])
          /\ \A x \in Requests \ {r} : req'[x] = req[x]
          /\ req'[r].pc \in {"idle", "check"}
      BY <1>0, <2>1, NextItemShape
    <2>3. /\ row' = [x \in RowIds |-> row'[x]]
          /\ row'[i] = n /\ \A x \in RowIds \ {i} : row'[x] = row[x]
      BY <1>0, <2>1 DEF Shape
    <2>4. RowShape(n)
      BY DEF RowShape, States
    <2>5. Shape'
      BY <1>0, <2>2, <2>3, <2>4 DEF Shape
    <2>6. LimitInv'
      <3>1. Live' = Live \cup {i} /\ i \notin Live
        BY <1>0, <2>3 DEF Live
      <3>2. Inserting' = Inserting \ {r} /\ r \in Inserting
        BY <1>0, <2>2 DEF Inserting, At
      <3>3. Live \subseteq RowIds /\ Inserting \subseteq Requests
        BY DEF Live, Inserting
      <3>4. Cardinality(Live') = Cardinality(Live) + 1
        BY <3>1, <3>3, CountRows, FS_AddElement
      <3>5. Cardinality(Inserting') = Cardinality(Inserting) - 1
        BY <3>2, <3>3, CountRequests, FS_RemoveElement
      <3> QED
        BY <3>3, <3>4, <3>5, CountRows, CountRequests, LimitsAssumption
        DEF CartInv, LimitInv
    <2>7. KeyInv'
      <3> SUFFICES ASSUME NEW q \in Products, NEW t \in Skus \cup {NoSku}
                   PROVE  Cardinality(LiveOf(q, t)') + Cardinality(Adding(q, t)')
                             <= Cardinality(Requests)
        BY DEF KeyInv
      <3>1. Adding(q, t)' = Adding(q, t) \ {r}
        BY <2>2 DEF Adding, Item
      <3>2. LiveOf(q, t) \subseteq RowIds /\ Adding(q, t) \subseteq Requests
        BY DEF LiveOf, Live, Adding
      <3>3. CASE q = p /\ t = s
        <4>1. LiveOf(q, t)' = LiveOf(q, t) \cup {i} /\ i \notin LiveOf(q, t)
          BY <1>0, <2>3, <3>3 DEF LiveOf, Live
        <4>2. r \in Adding(q, t)
          BY <1>0, <3>3 DEF Adding, At
        <4>3. Cardinality(LiveOf(q, t)') = Cardinality(LiveOf(q, t)) + 1
          BY <3>2, <4>1, CountRows, FS_AddElement
        <4>4. Cardinality(Adding(q, t)') = Cardinality(Adding(q, t)) - 1
          BY <3>1, <3>2, <4>2, CountRequests, FS_RemoveElement
        <4> QED
          BY <3>2, <4>3, <4>4, CountRows, CountRequests DEF CartInv, KeyInv
      <3>4. CASE ~(q = p /\ t = s)
        <4>1. LiveOf(q, t)' = LiveOf(q, t)
          BY <1>0, <2>3, <3>4 DEF LiveOf, Live
        <4>2. Adding(q, t)' \subseteq Adding(q, t)
          BY <3>1
        <4>3. Cardinality(Adding(q, t)') <= Cardinality(Adding(q, t))
          BY <3>2, <4>2, CountRequests, Smaller
        <4>4. Adding(q, t)' \subseteq Requests
          BY <3>2, <4>2
        <4> QED
          BY <3>2, <4>1, <4>3, <4>4, CountRows, CountRequests DEF CartInv, KeyInv
      <3> QED
        BY <3>3, <3>4
    <2>8. UseInv'
      <3>1. \A x \in RowIds : Ordering(x)' = Ordering(x)
        BY <1>0, <2>2 DEF Ordering, At
      <3>2. uses[i] = 0 /\ Ordering(i) = {}
        <4>1. uses[i] \in Nat
          BY <1>0 DEF Shape
        <4> QED
          BY <1>0, <4>1 DEF CartInv, UseInv
      <3> QED
        BY <1>0, <2>3, <3>1, <3>2 DEF CartInv, UseInv
    <2> QED
      BY <2>5, <2>6, <2>7, <2>8 DEF CartInv
  <1> QED
    BY <1>1, <1>2

\* CreateOrders has read rows that are live, so that were never ordered.
LEMMA SubmitStep ==
    ASSUME CartInv, NEW r \in Requests, NEW ids \in SUBSET RowIds, Submit(r, ids)
    PROVE  CartInv'
  <1> DEFINE seen == [i \in RowIds |-> IF i \in ids THEN row[i].qty ELSE 0]
             q == [[Idle EXCEPT !.ids = ids] EXCEPT !.seen = seen]
  <1>0. /\ Shape /\ row' = row /\ uses' = uses /\ At(r, "idle")
        /\ Goto(r, q, "commit") /\ "commit" \in PCs /\ \A i \in ids : row[i].state = "live"
    BY DEF CartInv, Submit, Keep, PCs, Readable, Live
  <1>1. ReqShape(q) /\ q.ids = ids
    BY IdsShape
  <1> HIDE DEF q
  <1>2. /\ req' = [x \in Requests |-> req'[x]]
        /\ \A x \in Requests : ReqShape(req'[x])
        /\ \A x \in Requests \ {r} : req'[x] = req[x]
        /\ req'[r].pc = "commit" /\ req'[r].ids = ids
    BY <1>0, <1>1, GotoShape
  <1>3. Shape'
    BY <1>0, <1>2 DEF Shape
  <1>4. LimitInv'
    <2>1. Live' = Live /\ Inserting' = Inserting
      BY <1>0, <1>2 DEF Live, Inserting, At
    <2> QED
      BY <2>1 DEF CartInv, LimitInv
  <1>5. KeyInv'
    <2>1. ASSUME NEW p \in Products, NEW s \in Skus \cup {NoSku}
          PROVE  LiveOf(p, s)' = LiveOf(p, s) /\ Adding(p, s)' = Adding(p, s)
      BY <1>0, <1>2 DEF LiveOf, Live, Adding, Item, At
    <2> QED
      BY <2>1 DEF CartInv, KeyInv
  <1>6. UseInv'
    <2> SUFFICES ASSUME NEW i \in RowIds
                 PROVE  /\ uses'[i] + Cardinality(Ordering(i)') <= Cardinality(Requests)
                        /\ uses'[i] > 0 => row'[i].state = "gone"
                        /\ Ordering(i)' # {} => row'[i].state # "none"
      BY DEF UseInv
    <2>1. CASE i \in ids
      <3>1. uses[i] = 0
        <4>1. uses[i] \in Nat
          BY <1>0 DEF Shape
        <4> QED
          BY <1>0, <2>1, <4>1 DEF CartInv, UseInv
      <3>2. Ordering(i)' \subseteq Requests
        BY DEF Ordering
      <3> QED
        BY <1>0, <2>1, <3>1, <3>2, CountRequests
    <2>2. CASE i \notin ids
      <3>1. Ordering(i)' = Ordering(i)
        BY <1>0, <1>2, <2>2 DEF Ordering, At
      <3> QED
        BY <1>0, <3>1 DEF CartInv, UseInv
    <2> QED
      BY <2>1, <2>2
  <1> QED
    BY <1>3, <1>4, <1>5, <1>6 DEF CartInv

\* The transaction deletes what it orders, also what was deleted already.
LEMMA CommitStep ==
    ASSUME CartInv, NEW r \in Requests, Commit(r)
    PROVE  CartInv'
  <1> DEFINE ids == req[r].ids
  <1>0. Shape /\ ReqShape(req[r]) /\ At(r, "commit") /\ Answer(r) /\ ids \in SUBSET RowIds
    BY DEF CartInv, Shape, ReqShape, Commit
  <1>1. CASE ~Orderable(r)
    <2>1. row' = row /\ uses' = uses /\ "idle" \in PCs \ {"count", "insert", "commit"}
      BY <1>1 DEF Commit, PCs
    <2> QED
      BY <1>0, <2>1, RowsKeptCalm, CalmKeepsInv
  <1>2. CASE Orderable(r)
    <2>1. /\ row' = SoftDeleted(ids)
          /\ uses' = [i \in RowIds |-> uses[i] + (IF i \in ids THEN 1 ELSE 0)]
      BY <1>2 DEF Commit, RowsAfter
    <2>2. /\ row' = [i \in RowIds |-> row'[i]]
          /\ \A i \in RowIds : RowCalm(i)
          /\ \A i \in ids : row[i].state # "none" => row'[i].state = "gone"
      BY <1>0, <2>1, SoftDeletedCalm
    <2>3. /\ req' = [x \in Requests |-> req'[x]]
          /\ \A x \in Requests : ReqShape(req'[x])
          /\ \A x \in Requests \ {r} : req'[x] = req[x]
          /\ req'[r].pc = "idle"
      BY <1>0, AnswerShape
    <2>4. Shape'
      <3>1. uses' \in [RowIds -> Nat]
        BY <1>0, <2>1 DEF Shape
      <3> QED
        BY <2>2, <2>3, <3>1 DEF Shape, RowCalm
    <2>5. LimitInv'
      <3>1. Live' \subseteq Live /\ Live \subseteq RowIds /\ Live' \subseteq RowIds
        BY <2>2 DEF Live, RowCalm
      <3>2. Inserting' = Inserting /\ Inserting \subseteq Requests
        BY <1>0, <2>3 DEF Inserting, At
      <3>3. Cardinality(Live') <= Cardinality(Live)
        BY <3>1, CountRows, Smaller
      <3> QED
        BY <3>1, <3>2, <3>3, CountRows, CountRequests, LimitsAssumption
        DEF CartInv, LimitInv
    <2>6. KeyInv'
      <3> SUFFICES ASSUME NEW p \in Products, NEW s \in Skus \cup {NoSku}
                   PROVE  Cardinality(LiveOf(p, s)') + Cardinality(Adding(p, s)')
                             <= Cardinality(Requests)
        BY DEF KeyInv
      <3>1. LiveOf(p, s)' \subseteq LiveOf(p, s)
        BY <2>2 DEF LiveOf, Live, RowCalm
      <3>2. Adding(p, s)' = Adding(p, s) /\ Adding(p, s) \subseteq Requests
        BY <1>0, <2>3 DEF Adding, Item, At
      <3>3. LiveOf(p, s) \subseteq RowIds /\ LiveOf(p, s)' \subseteq RowIds
        BY DEF LiveOf, Live
      <3>4. Cardinality(LiveOf(p, s)') <= Cardinality(LiveOf(p, s))
        BY <3>1, <3>3, CountRows, Smaller
      <3> QED
        BY <3>2, <3>3, <3>4, CountRows, CountRequests DEF CartInv, KeyInv
    <2>7. UseInv'
      <3> SUFFICES ASSUME NEW i \in RowIds
                   PROVE  /\ uses'[i] + Cardinality(Ordering(i)') <= Cardinality(Requests)
                          /\ uses'[i] > 0 => row'[i].state = "gone"
                          /\ Ordering(i)' # {} => row'[i].state # "none"
        BY DEF UseInv
      <3>0. /\ RowCalm(i) /\ uses[i] \in Nat /\ Ordering(i) \subseteq Requests
            /\ Ordering(i)' = Ordering(i) \ {r}
        BY <1>0, <2>2, <2>3 DEF Shape, Ordering
      <3>1. CASE i \in ids
        <4>1. r \in Ordering(i) /\ uses'[i] = uses[i] + 1
          BY <1>0, <2>1, <3>1 DEF Ordering, At
        <4>2. Cardinality(Ordering(i)') = Cardinality(Ordering(i)) - 1
          BY <3>0, <4>1, CountRequests, FS_RemoveElement
        <4>3. row[i].state # "none" /\ row'[i].state = "gone"
          BY <2>2, <3>1, <4>1 DEF CartInv, UseInv
        <4> QED
          BY <3>0, <4>1, <4>2, <4>3, CountRequests DEF CartInv, UseInv
      <3>2. CASE i \notin ids
        <4>1. Ordering(i)' = Ordering(i) /\ uses'[i] = uses[i]
          BY <2>1, <3>0, <3>2 DEF Ordering
        <4> QED
          BY <3>0, <4>1 DEF CartInv, UseInv, RowCalm
      <3> QED
        BY <3>1, <3>2
    <2> QED
      BY <2>4, <2>5, <2>6, <2>7 DEF CartInv
  <1> QED
    BY <1>1, <1>2

-----------------------------------------------------------------------------
(* The invariant and what follows from it.                                  *)

LEMMA InitInv == Init => CartInv
  <1> SUFFICES ASSUME Init PROVE CartInv
    OBVIOUS
  <1>1. Shape
    <2>1. RowShape(NoRow)
      BY DEF RowShape, NoRow, States
    <2> QED
      BY <2>1, IdleShape DEF Init, Shape
  <1>2. /\ Live = {} /\ Inserting = {}
        /\ \A p \in Products, s \in Skus \cup {NoSku} :
              LiveOf(p, s) = {} /\ Adding(p, s) = {}
        /\ \A i \in RowIds : Ordering(i) = {} /\ uses[i] = 0
    BY DEF Init, Live, Inserting, LiveOf, Adding, Ordering, NoRow, Idle
  <1>3. Cardinality({}) = 0 /\ Cardinality(Requests) \in Nat
    BY FS_EmptySet, CountRequests
  <1>4. Cardinality(Requests) > 0
    BY <1>3, FS_EmptySet, ClientsAssumption
  <1>5. LimitInv
    BY <1>2, <1>3, <1>4, LimitsAssumption DEF LimitInv
  <1>6. KeyInv
    BY <1>2, <1>3 DEF KeyInv
  <1>7. UseInv
    BY <1>2, <1>3 DEF UseInv
  <1> QED
    BY <1>1, <1>5, <1>6, <1>7 DEF CartInv

\* Every step is calm or one of the five that pass a check or use it.
LEMMA StepCases ==
    ASSUME CartInv, [Next]_vars
    PROVE  \/ Calm
           \/ \E r \in Requests :
                 \/ \E p \in Products : AddFind(r, p) \/ \E i \in RowIds : AddInsert(r, p, i)
                 \/ AddCount(r)
                 \/ \E ids \in SUBSET RowIds : Submit(r, ids)
                 \/ Commit(r)
  <1>0. Shape
    BY DEF CartInv
  <1>1. CASE UNCHANGED vars \/ WorldMoves
    <2>1. UNCHANGED <<row, req, uses>>
      BY <1>1 DEF vars, WorldMoves
    <2> QED
      BY <1>0, <2>1, WorldCalm
  <1>2. ASSUME NEW r \in Requests, AddStep(r) \/ RowStep(r) \/ OrderStep(r),
               ~(\E p \in Products : AddFind(r, p) \/ \E i \in RowIds : AddInsert(r, p, i)),
               ~AddCount(r), ~OrderStep(r)
        PROVE  Calm
    <2>1. \/ \E p \in Products, s \in Skus \cup {NoSku}, q \in Quantities : Add(r, p, s, q)
          \/ \E items \in [Products -> Quantities \cup {0}] : Reorder(r, items)
          \/ \E i \in RowIds : Delete(r, i) \/ \E q \in Quantities : UpdateQuantity(r, i, q)
          \/ ClearInvalid(r) \/ Abort(r)
          \/ \E p \in Products : AddCheck(r, p)
          \/ WriteQuantity(r)
          \/ Remove(r) \/ \E ids \in SUBSET RowIds : DeleteBatch(r, ids)
      BY <1>2, Zenon DEF AddStep, RowStep
    <2> QED
      BY <1>0, <2>1, StartCalm, AddCheckCalm, WriteQuantityCalm, RemoveCalm, Zenon
  <1>3. \/ UNCHANGED vars \/ WorldMoves
        \/ \E r \in Requests : AddStep(r) \/ RowStep(r) \/ OrderStep(r)
    BY DEF Next
  <1> QED
    BY <1>1, <1>2, <1>3, Zenon DEF OrderStep

LEMMA StepInv == CartInv /\ [Next]_vars => CartInv'
  <1> SUFFICES ASSUME CartInv, [Next]_vars PROVE CartInv'
    OBVIOUS
  <1> QED
    BY StepCases, CalmKeepsInv, AddFindStep, AddInsertStep, AddCountStep, SubmitStep,
       CommitStep, Zenon

THEOREM CartInvCorrect == Spec => []CartInv
  BY InitInv, StepInv, PTL DEF Spec

\* The cart outgrows its limit by at most the other requests in flight.
THEOREM OvershootCorrect == Spec => []OvershootBounded
  <1>1. CartInv => OvershootBounded
    <2>1. Live \subseteq RowIds /\ Inserting \subseteq Requests
      BY DEF Live, Inserting
    <2> QED
      BY <2>1, CountRows, CountRequests, LimitsAssumption
      DEF CartInv, LimitInv, OvershootBounded
  <1> QED
    BY <1>1, CartInvCorrect, PTL

\* A product and SKU has at most as many live rows as there are requests.
THEOREM DuplicatesCorrect == Spec => []DuplicatesBounded
  <1>1. CartInv => DuplicatesBounded
    <2> SUFFICES ASSUME CartInv, NEW p \in Products, NEW s \in Skus \cup {NoSku}
                 PROVE  Cardinality(LiveOf(p, s)) <= Cardinality(Requests)
      BY DEF DuplicatesBounded
    <2>1. LiveOf(p, s) \subseteq RowIds /\ Adding(p, s) \subseteq Requests
      BY DEF LiveOf, Live, Adding
    <2> QED
      BY <2>1, CountRows, CountRequests DEF CartInv, KeyInv
  <1> QED
    BY <1>1, CartInvCorrect, PTL

\* A row goes into at most as many orders as there are requests.
THEOREM ReuseCorrect == Spec => []ReuseBounded
  <1>1. CartInv => ReuseBounded
    <2> SUFFICES ASSUME CartInv, NEW i \in RowIds
                 PROVE  uses[i] <= Cardinality(Requests)
      BY DEF ReuseBounded
    <2>1. Ordering(i) \subseteq Requests /\ uses[i] \in Nat
      BY DEF Ordering, CartInv, Shape
    <2> QED
      BY <2>1, CountRequests DEF CartInv, UseInv
  <1> QED
    BY <1>1, CartInvCorrect, PTL

\* A row that was ordered is out of the cart for good.
THEOREM OrderedRowsCorrect == Spec => []OrderedRowsGone
  <1>1. CartInv => OrderedRowsGone
    BY DEF CartInv, UseInv, OrderedRowsGone
  <1> QED
    BY <1>1, CartInvCorrect, PTL

\* No request writes a row that was removed or ordered.
THEOREM GoneCorrect == Spec => GoneStaysGone
  <1>1. ASSUME CartInv, [Next]_vars, NEW i \in RowIds, row[i].state = "gone"
        PROVE  row'[i] = row[i]
    <2>0. Shape
      BY <1>1 DEF CartInv
    <2>1. CASE Calm
      BY <1>1, <2>1 DEF Calm, RowCalm
    <2>2. ASSUME NEW r \in Requests, NEW p \in Products, NEW j \in RowIds,
                 AddInsert(r, p, j)
          PROVE  row'[i] = row[i]
      <3>1. i # j
        BY <1>1, <2>2 DEF AddInsert, Unused
      <3> QED
        BY <2>0, <2>2, <3>1 DEF AddInsert, Shape
    <2>3. ASSUME NEW r \in Requests, Commit(r)
          PROVE  row'[i] = row[i]
      <3>1. row' = SoftDeleted(req[r].ids) \/ row' = row
        BY <2>3 DEF Commit, RowsAfter
      <3> QED
        BY <1>1, <3>1 DEF SoftDeleted, Live
    <2>4. ASSUME NEW r \in Requests,
                 \/ \E p \in Products : AddFind(r, p)
                 \/ AddCount(r)
                 \/ \E ids \in SUBSET RowIds : Submit(r, ids)
          PROVE  row'[i] = row[i]
      BY <2>4 DEF AddFind, AddCount, Submit, Keep
    <2> QED
      BY <1>1, StepCases, <2>1, <2>2, <2>3, <2>4, Zenon
  <1>2. CartInv /\ [Next]_vars =>
          [\A i \in RowIds : row[i].state = "gone" => row'[i] = row[i]]_vars
    BY <1>1
  <1> QED
    BY <1>2, CartInvCorrect, PTL DEF Spec, GoneStaysGone

-----------------------------------------------------------------------------
(* The types.  What is not plain about them is the stock: what a commit       *)
(* deducts is a sum over the rows that were read, and the sum is enough.      *)

\* A non-empty set of ids has a first one (FindByUserProductSKU takes it).
LEMMA MinIn ==
    ASSUME NEW S, S \subseteq Nat, S # {}
    PROVE  Min(S) \in S
  <1>1. PICK x \in S : \A y \in S : ~(<<y, x>> \in OpToRel(<, Nat))
    BY NatLessThanWellFounded, WFMin
  <1>2. ASSUME NEW y \in S PROVE x <= y
    <2>1. x \in Nat /\ y \in Nat
      OBVIOUS
    <2>2. ~(y < x)
      BY <1>1, <2>1 DEF OpToRel
    <2> QED
      BY <2>1, <2>2
  <1> QED
    BY <1>2 DEF Min

\* The merged line of a product is a sum.
LEMMA LineInt ==
    ASSUME NEW r \in Requests, req[r] \in Request, NEW p \in Products
    PROVE  Line(r, p) \in Int
  <1> DEFINE S == {i \in req[r].ids : row[i].product = p}
  <1>1. Line(r, p) = (CHOOSE g : FoldEq(g, req[r].seen, S))[S]
    BY DEF Line, MapThenSumSet, MapThenFoldSet, FoldEq
  <1>2. S \subseteq RowIds /\ \A i \in RowIds : req[r].seen[i] \in Int
    BY DEF Request
  <1> HIDE DEF S
  <1>3. IsFiniteSet(S) /\ \A i \in S : req[r].seen[i] \in Int
    BY <1>2, CountRows
  <1> QED
    BY <1>1, <1>3, FoldInt

LEMMA IdleType == Idle \in Request /\ NoLines \in [Products -> Nat] /\ 0 \in RowIds \cup {0}
  BY DEF Idle, Request, NoLines, NoSku

LEMMA GotoType ==
    ASSUME TypeOK, NEW r \in Requests, NEW q \in Request, NEW pc \in PCs, Goto(r, q, pc)
    PROVE  req' \in [Requests -> Request]
  <1> PICK new : new = [q EXCEPT !.pc = pc]
    OBVIOUS
  <1>1. new \in Request
    BY DEF Request, PCs
  <1> QED
    BY <1>1 DEF Goto, TypeOK

LEMMA AnswerType ==
    ASSUME TypeOK, NEW r \in Requests, Answer(r) PROVE req' \in [Requests -> Request]
  BY IdleType DEF Answer, TypeOK

\* What handlers put into what they hold.
LEMMA HoldsType ==
    ASSUME NEW q \in Request
    PROVE  /\ \A todo \in [Products -> Nat] : [q EXCEPT !.todo = todo] \in Request
           /\ \A sku \in Skus \cup {NoSku} : [q EXCEPT !.sku = sku] \in Request
           /\ \A cap \in Nat : [q EXCEPT !.cap = cap] \in Request
           /\ \A i \in RowIds, n \in Nat : [[q EXCEPT !.id = i] EXCEPT !.qty = n] \in Request
           /\ \A ids \in SUBSET RowIds : [q EXCEPT !.ids = ids] \in Request
           /\ \A seen \in [RowIds -> Nat] : [q EXCEPT !.seen = seen] \in Request
  BY DEF Request

LEMMA NextItemType ==
    ASSUME TypeOK, NEW r \in Requests, NEW p \in Products, NextItem(r, p)
    PROVE  req' \in [Requests -> Request]
  <1>1. CASE Answer(r)
    BY <1>1, AnswerType
  <1>2. CASE Goto(r, [Idle EXCEPT !.todo = Rest(r, p)], "check")
    <2>1. req[r].todo \in [Products -> Nat]
      BY DEF TypeOK, Request
    <2>2. Rest(r, p) \in [Products -> Nat]
      BY <2>1 DEF Rest
    <2>3. [Idle EXCEPT !.todo = Rest(r, p)] \in Request
      BY <2>2, IdleType, HoldsType
    <2> QED
      BY <1>2, <2>3, GotoType DEF PCs
  <1> QED
    BY <1>1, <1>2 DEF NextItem

LEMMA AddType ==
    ASSUME TypeOK, NEW r \in Requests, AddStep(r) PROVE TypeOK'
  <1>1. ASSUME NEW p \in Products, NEW s \in Skus \cup {NoSku}, NEW q \in Quantities, Add(r, p, s, q)
        PROVE  TypeOK'
    <2> PICK todo : todo = [NoLines EXCEPT ![p] = q]
      OBVIOUS
    <2>1. todo \in [Products -> Nat] /\ stock[p] \in Nat
      BY IdleType, InputsAssumption DEF TypeOK
    <2> PICK a : a = [Idle EXCEPT !.todo = todo]
      OBVIOUS
    <2> PICK b : b = [a EXCEPT !.sku = s]
      OBVIOUS
    <2> PICK c : c = [b EXCEPT !.cap = stock[p]]
      OBVIOUS
    <2>2. a \in Request
      BY <2>1, IdleType, HoldsType
    <2>3. b \in Request
      BY <2>2, HoldsType
    <2>4. c \in Request
      BY <2>1, <2>3, HoldsType
    <2>5. Goto(r, c, "find")
      BY <1>1 DEF Add
    <2>6. req' \in [Requests -> Request]
      BY <2>4, <2>5, GotoType DEF PCs
    <2> QED
      BY <1>1, <2>6 DEF Add, Keep, KeepGoods, goods, TypeOK
  <1>2. ASSUME NEW items \in [Products -> Quantities \cup {0}], Reorder(r, items)
        PROVE  TypeOK'
    <2>1. items \in [Products -> Nat]
      <3>1. Quantities \cup {0} \subseteq Nat
        BY InputsAssumption
      <3>2. \A p \in Products : items[p] \in Quantities \cup {0}
        OBVIOUS
      <3>3. \A p \in Products : items[p] \in Nat
        BY <3>1, <3>2
      <3> QED
        BY <3>3
    <2>2. [Idle EXCEPT !.todo = items] \in Request
      BY <2>1, IdleType, HoldsType
    <2>3. req' \in [Requests -> Request]
      BY <1>2, <2>2, GotoType DEF Reorder, PCs
    <2> QED
      BY <1>2, <2>3 DEF Reorder, Keep, KeepGoods, goods, TypeOK
  <1>3. ASSUME NEW p \in Products, AddCheck(r, p)
        PROVE  TypeOK'
    <2>1. [req[r] EXCEPT !.cap = stock[p]] \in Request
      BY HoldsType DEF TypeOK
    <2>2. Answer(r) \/ Goto(r, [req[r] EXCEPT !.cap = stock[p]], "find")
      BY <1>3 DEF AddCheck
    <2>3. req' \in [Requests -> Request]
      BY <2>1, <2>2, GotoType, AnswerType DEF PCs
    <2> QED
      BY <1>3, <2>3 DEF AddCheck, Keep, KeepGoods, goods, TypeOK
  <1>4. ASSUME NEW p \in Products, AddFind(r, p)
        PROVE  TypeOK'
    <2> DEFINE S == LiveOf(p, req[r].sku)
               i == Min(S)
               sum == row[i].qty + req[r].todo[p]
    <2>1. req[r] \in Request /\ req[r].todo[p] \in Nat
      BY DEF TypeOK, Request
    <2>2. \/ Answer(r) \/ Goto(r, req[r], "count")
          \/ (S # {} /\ Goto(r, [[req[r] EXCEPT !.id = i] EXCEPT !.qty = sum], "write"))
      BY <1>4 DEF AddFind
    <2>3. ASSUME S # {} PROVE [[req[r] EXCEPT !.id = i] EXCEPT !.qty = sum] \in Request
      <3>1. S \subseteq RowIds /\ RowIds \subseteq Nat
        BY LimitsAssumption DEF LiveOf, Live, RowIds
      <3>2. i \in S
        BY <2>3, <3>1, MinIn
      <3>3. i \in RowIds /\ row[i].qty \in Nat
        BY <3>1, <3>2 DEF TypeOK, CartRow
      <3>4. sum \in Nat
        BY <2>1, <3>3
      <3> HIDE DEF i, sum
      <3> QED
        BY <2>1, <3>3, <3>4, HoldsType
    <2>4. req' \in [Requests -> Request]
      BY <2>1, <2>2, <2>3, GotoType, AnswerType DEF PCs
    <2> QED
      BY <1>4, <2>4 DEF AddFind, Keep, KeepGoods, goods, TypeOK
  <1>5. ASSUME NEW p \in Products, NEW i \in RowIds, AddInsert(r, p, i)
        PROVE  TypeOK'
    <2>1. req[r].sku \in Skus \cup {NoSku} /\ req[r].todo[p] \in Nat
      BY DEF TypeOK, Request
    <2> PICK new : new = [state |-> "live", product |-> p, sku |-> req[r].sku, qty |-> req[r].todo[p]]
      OBVIOUS
    <2>2. new \in CartRow
      BY <2>1 DEF CartRow
    <2>3. row' = [row EXCEPT ![i] = new] \/ row' = row
      BY <1>5 DEF AddInsert
    <2>4. row' \in [RowIds -> CartRow]
      BY <2>2, <2>3 DEF TypeOK
    <2>5. req' \in [Requests -> Request]
      BY <1>5, AnswerType, NextItemType DEF AddInsert
    <2> QED
      BY <1>5, <2>4, <2>5 DEF AddInsert, KeepGoods, goods, TypeOK
  <1>6. CASE AddCount(r)
    <2>1. req[r] \in Request /\ (Answer(r) \/ Goto(r, req[r], "insert"))
      BY <1>6 DEF AddCount, TypeOK
    <2>2. req' \in [Requests -> Request]
      BY <2>1, GotoType, AnswerType DEF PCs
    <2> QED
      BY <1>6, <2>2 DEF AddCount, Keep, KeepGoods, goods, TypeOK
  <1> QED
    BY <1>1, <1>2, <1>3, <1>4, <1>5, <1>6 DEF AddStep

LEMMA SoftDeletedType ==
    ASSUME TypeOK, NEW ids PROVE SoftDeleted(ids) \in [RowIds -> CartRow]
  <1>1. \A i \in RowIds : [row[i] EXCEPT !.state = "gone"] \in CartRow
    BY DEF TypeOK, CartRow
  <1> QED
    BY <1>1 DEF SoftDeleted, TypeOK

LEMMA RowType ==
    ASSUME TypeOK, NEW r \in Requests, RowStep(r) PROVE TypeOK'
  <1>1. ASSUME NEW ids \in SUBSET RowIds, Goto(r, [Idle EXCEPT !.ids = ids], "remove"), Keep
        PROVE  TypeOK'
    <2>1. req' \in [Requests -> Request]
      BY <1>1, IdleType, HoldsType, GotoType DEF PCs
    <2> QED
      BY <1>1, <2>1 DEF Keep, KeepGoods, goods, TypeOK
  <1>2. ASSUME NEW i \in RowIds, Delete(r, i)
        PROVE  TypeOK'
    BY <1>1, <1>2 DEF Delete
  <1>3. CASE ClearInvalid(r)
    BY <1>1, <1>3 DEF ClearInvalid, Invalid, Live
  <1>4. ASSUME NEW i \in RowIds, NEW q \in Quantities, UpdateQuantity(r, i, q)
        PROVE  TypeOK'
    <2>1. [[Idle EXCEPT !.id = i] EXCEPT !.qty = q] \in Request
      BY IdleType, InputsAssumption, HoldsType
    <2>2. req' \in [Requests -> Request]
      BY <1>4, <2>1, GotoType DEF UpdateQuantity, PCs
    <2> QED
      BY <1>4, <2>2 DEF UpdateQuantity, Keep, KeepGoods, goods, TypeOK
  <1>5. ASSUME NEW ids \in SUBSET RowIds, DeleteBatch(r, ids)
        PROVE  TypeOK'
    BY <1>5, SoftDeletedType DEF DeleteBatch, KeepGoods, goods, TypeOK
  <1>6. CASE WriteQuantity(r)
    <2>1. req[r].qty \in Nat
      BY DEF TypeOK, Request
    <2>2. \A i \in RowIds : [row[i] EXCEPT !.qty = req[r].qty] \in CartRow
      BY <2>1 DEF TypeOK, CartRow
    <2>3. row' \in [RowIds -> CartRow]
      BY <1>6, <2>2 DEF WriteQuantity, WriteLiveRow, Live, TypeOK
    <2>4. req' \in [Requests -> Request]
      BY <1>6, AnswerType, NextItemType DEF WriteQuantity
    <2> QED
      BY <1>6, <2>3, <2>4 DEF WriteQuantity, KeepGoods, goods, TypeOK
  <1>7. CASE Remove(r)
    BY <1>7, SoftDeletedType, AnswerType DEF Remove, KeepGoods, goods, TypeOK
  <1>8. CASE Abort(r)
    BY <1>8, AnswerType DEF Abort, Keep, KeepGoods, goods, TypeOK
  <1> QED
    BY <1>2, <1>3, <1>4, <1>5, <1>6, <1>7, <1>8 DEF RowStep

\* A commit deducts what it has found to be enough: no stock falls below zero.
LEMMA OrderType ==
    ASSUME TypeOK, NEW r \in Requests, OrderStep(r) PROVE TypeOK'
  <1>1. ASSUME NEW ids \in SUBSET RowIds, Submit(r, ids)
        PROVE  TypeOK'
    <2> PICK seen : seen = [i \in RowIds |-> IF i \in ids THEN row[i].qty ELSE 0]
      OBVIOUS
    <2>1. seen \in [RowIds -> Nat]
      BY DEF TypeOK, CartRow
    <2>2. [[Idle EXCEPT !.ids = ids] EXCEPT !.seen = seen] \in Request
      BY <2>1, IdleType, HoldsType
    <2>3. req' \in [Requests -> Request]
      BY <1>1, <2>2, GotoType DEF Submit, PCs
    <2> QED
      BY <1>1, <2>3 DEF Submit, Keep, KeepGoods, goods, TypeOK
  <1>2. CASE Commit(r)
    <2>1. req' \in [Requests -> Request] /\ UNCHANGED <<onSale, open>>
      BY <1>2, AnswerType DEF Commit
    <2>2. CASE Orderable(r)
      <3>1. \A p \in Products : stock[p] \in Nat /\ MinBuy[p] \in Nat /\ Line(r, p) \in Int
        BY LineInt, InputsAssumption DEF TypeOK
      <3>2. ASSUME NEW p \in Products, p \in Ordered(r) PROVE Deducted(stock[p], Line(r, p)) \in Nat
        <4>1. Enough(stock[p], Line(r, p)) /\ Line(r, p) >= MinBuy[p]
          BY <2>2, <3>2 DEF Orderable, ValidNow, Allowed, FollowsRule
        <4>2. 2 * stock[p] - Line(r, p) \in Nat
          BY <3>1, <4>1 DEF Enough
        <4> QED
          BY <4>2 DEF Deducted, RoundHalves
      <3>3. stock' \in [Products -> Nat]
        BY <1>2, <2>2, <3>1, <3>2 DEF Commit
      <3>4. row' \in [RowIds -> CartRow] /\ uses' \in [RowIds -> Nat]
        BY <1>2, <2>2, SoftDeletedType DEF Commit, RowsAfter, TypeOK
      <3> QED
        BY <2>1, <3>3, <3>4 DEF TypeOK
    <2>3. CASE ~Orderable(r)
      BY <1>2, <2>1, <2>3 DEF Commit, TypeOK
    <2> QED
      BY <2>2, <2>3
  <1> QED
    BY <1>1, <1>2 DEF OrderStep

\* Rows, requests and stocks are what the tables and handlers hold; above all no
\* stock falls below zero, whatever goes on at once (DeductStockIfEnough).
THEOREM TypeCorrect == Spec => []TypeOK
  <1>1. Init => TypeOK
    <2>1. NoRow \in CartRow
      BY DEF NoRow, CartRow, NoSku
    <2> QED
      BY <2>1, IdleType, LimitsAssumption DEF Init, TypeOK
  <1>2. TypeOK /\ [Next]_vars => TypeOK'
    <2> SUFFICES ASSUME TypeOK, [Next]_vars PROVE TypeOK'
      OBVIOUS
    <2>1. CASE WorldMoves
      <3>1. stock' \in [Products -> Nat]
        BY <2>1, LimitsAssumption DEF WorldMoves, TypeOK
      <3>2. onSale' \subseteq Products /\ open' \subseteq Shops
        BY <2>1 DEF WorldMoves, TypeOK
      <3> QED
        BY <2>1, <3>1, <3>2 DEF WorldMoves, TypeOK
    <2>2. CASE UNCHANGED vars
      BY <2>2 DEF vars, TypeOK
    <2> QED
      BY <2>1, <2>2, AddType, RowType, OrderType DEF Next
  <1> QED
    BY <1>1, <1>2, PTL DEF Spec
=============================================================================
