-------------------------------- MODULE Shelf --------------------------------
(***************************************************************************)
(* The product rows of a shop, as the server's handlers change them.       *)
(* Saving, importing, switching and auditing read a row and write it       *)
(* later, without a lock; orders, stock adjustments and quick changes of   *)
(* prices do both at once.                                                 *)
(* A handler that dies between the two never writes.                       *)
(***************************************************************************)
EXTENDS Integers, Sequences, FiniteSets

CONSTANTS None, Products,
          Contents,  \* what a product is but for price and stock: name, pictures...
          Prices,
          MaxStock,  \* bound
          MaxRows,   \* the rows an import may have
          MaxJobs    \* bound: forms, handlers and imports at work at a time

VARIABLES row,      \* the products
          forms,    \* rows that sellers have open in their forms
          jobs,     \* handlers that have read a row and not written it
          files,    \* imports between two rows of their file
          shown,    \* history: what was put on sale, at its price of now; None for
                    \* what is not on sale, or was put there by an overtaken handler
          goods     \* history: what there is to sell; None once that is not known

work == <<forms, jobs, files>>
vars == <<row, work, shown, goods>>

Stocks == 0..MaxStock
Statuses == {"off", "on", "pending"}
Input == [content : Contents, price : Prices, stock : Stocks]
Sold == [content : Contents, price : Prices]
Sale(r) == [content |-> r.content, price |-> r.price]
Live == {p \in Products : row[p].status \in Statuses}
Put(p, r) == row' = [row EXCEPT ![p] = r]

Shows(sold) == shown' = [p \in Products |-> IF row'[p].status = "on" THEN sold[p] ELSE None]

NewId(S) == CHOOSE i \in 1..(Cardinality(S) + 1) : i \notin {x.id : x \in S}
MayStart == Cardinality(forms) + Cardinality(jobs) + Cardinality(files) < MaxJobs

-----------------------------------------------------------------------------
(* The seller's forms, and the reads of the handlers.                      *)

\* A form holds the row of now.  counted is history: a stock was typed into it.
OpenForm(p) == /\ MayStart /\ p \in Live
               /\ forms' = forms \cup {[of |-> p, stock |-> row[p].stock, counted |-> FALSE]}
               /\ UNCHANGED <<row, jobs, files, shown, goods>>
CloseForm(f) == forms' = forms \ {f} /\ UNCHANGED <<row, jobs, files, shown, goods>>

\* read is the part of the row that the write, or what is said of it, depends on.
\* late is history: what would go on sale was changed after it was read.
Start(what, p, arg, form, read) ==
    jobs' = jobs \cup {[id |-> NewId(jobs), what |-> what, of |-> p, arg |-> arg,
                        form |-> form, read |-> read, late |-> FALSE]}
PutsOn(j) == j.what = "status" /\ j.arg = "on"
Overtaken(js, S) == {[j EXCEPT !.late = @ \/ (j.of \in S /\ PutsOn(j))] : j \in js}
Untouched == UNCHANGED <<row, shown, goods>>

\* The form is busy until its answer; another device may have an equal one.
SaveReads(f) == /\ f.of \in Live /\ UNCHANGED files /\ Untouched
                /\ forms' = forms \ {f} \/ (MayStart /\ forms' = forms)
                /\ \E i \in Input :
                     Start("save", f.of, i, [f EXCEPT !.counted = @ \/ i.stock # f.stock],
                           row[f.of].status)
Switch(p, to) == Start("status", p, to, None, IF to = "on" THEN Sale(row[p]) ELSE None)
\* Any of these may put a product on sale that has never been audited, when it
\* is off the shelf; a seller may also take it off while it waits for its audit.
UpdateStatusReads(p, to) ==
    /\ to = "on" => row[p].status # "pending" /\ row[p].stock > 0
    /\ Switch(p, to)
\* A product that passes its audit without stock waits off the shelf.
AdminAuditReads(p, pass) ==
    /\ row[p].status = "pending"
    /\ Switch(p, IF pass /\ row[p].stock > 0 THEN "on" ELSE "off")
AdminUpdateStatusReads(p, to) == (to = "on" => row[p].stock > 0) /\ Switch(p, to)
StatusReads(p) == /\ MayStart /\ p \in Live /\ UNCHANGED <<forms, files>> /\ Untouched
                  /\ \/ \E to \in {"on", "off"} : UpdateStatusReads(p, to) \/ AdminUpdateStatusReads(p, to)
                     \/ \E pass \in BOOLEAN : AdminAuditReads(p, pass)

-----------------------------------------------------------------------------
(* The writes.                                                             *)

\* A form holds p: what some seller knows of its stock.
Open(p) == \/ \E f \in forms : f.of = p
           \/ \E j \in jobs : j.of = p /\ j.what = "save"
\* There are g to sell of p, unless its stock moves while a form is open.
Counts(p, g, opened) ==
    goods' = [goods EXCEPT ![p] = IF @ = None \/ (row'[p].stock # row[p].stock /\ opened)
                                  THEN None ELSE g]

\* Mutant: an edit leaves the product on sale.
UpdatedUnaudited(read, i) == [status |-> read, content |-> i.content, price |-> i.price, stock |-> i.stock]
Updated(read, i) == [status |-> IF read = "on" THEN "pending" ELSE read,
                     content |-> i.content, price |-> i.price, stock |-> i.stock]

OtherOpen(j) == \/ \E f \in forms : f.of = j.of
                \/ \E k \in jobs \ {j} : k.of = j.of /\ k.what = "save"
\* The seller leaves the form, or its answer is lost and it stays open.
SaveWrites(j) == /\ j.what = "save" /\ j.of \in Live /\ UNCHANGED files
                 /\ Put(j.of, Updated(j.read, j.arg)) /\ Shows(shown)
                 /\ jobs' = Overtaken(jobs \ {j}, {j.of})
                 /\ Counts(j.of, IF j.form.counted THEN j.arg.stock ELSE goods[j.of], OtherOpen(j))
                 /\ forms' \in {forms, forms \cup {j.form}}
StatusWrites(j) == /\ j.what = "status" /\ j.of \in Live /\ jobs' = jobs \ {j}
                   /\ Put(j.of, [row[j.of] EXCEPT !.status = j.arg])
                   /\ Shows([shown EXCEPT ![j.of] = IF j.late THEN None ELSE j.read])
                   /\ UNCHANGED <<forms, files, goods>>
\* The row is gone by now, or the handler dies.
Drop(j) == /\ jobs' = jobs \ {j} /\ UNCHANGED files /\ Untouched
           /\ forms' = IF j.what = "save" THEN forms \cup {j.form} ELSE forms

-----------------------------------------------------------------------------
(* A new product, and an import: every row of it stands by itself, and one *)
(* row too many ends it, with what was taken so far.                       *)

\* Mutant: the stock that was typed is not stored.
NewRowEmpty(i) == [status |-> "pending", content |-> i.content, price |-> i.price, stock |-> 0]
NewRow(i) == [status |-> "pending", content |-> i.content, price |-> i.price, stock |-> i.stock]
Create(p, i) == /\ row[p].status = "none" /\ Put(p, NewRow(i))
                /\ goods' = [goods EXCEPT ![p] = i.stock] /\ UNCHANGED shown
CreateNew(p) == (\E i \in Input : Create(p, i)) /\ UNCHANGED work

ImportStarts(p) ==
    /\ MayStart /\ UNCHANGED <<forms, jobs>> /\ Untouched
    /\ \E i \in Input :
          files' = files \cup {[id |-> NewId(files), of |-> p, taken |-> 0, read |-> None,
                                rows |-> [k \in 1..(MaxRows + 1) |-> i]]}
Taken(f) == (files \ {f}) \cup {[id |-> f.id, of |-> f.of, taken |-> f.taken + 1, read |-> None,
                                   rows |-> Tail(f.rows)]}
RowReads(f) == /\ f.rows # <<>> /\ f.taken < MaxRows /\ f.read = None /\ f.of \in Live
               /\ files' = (files \ {f}) \cup {[f EXCEPT !.read = row[f.of].status]}
               /\ UNCHANGED <<forms, jobs>> /\ Untouched
RowCreates(f) == /\ f.rows # <<>> /\ f.taken < MaxRows /\ Create(f.of, Head(f.rows))
                 /\ files' = Taken(f) /\ UNCHANGED <<forms, jobs>>
RowWrites(f) == /\ f.read # None /\ f.of \in Live /\ files' = Taken(f)
                /\ Put(f.of, Updated(f.read, Head(f.rows))) /\ Shows(shown)
                /\ jobs' = Overtaken(jobs, {f.of}) /\ UNCHANGED forms
                /\ Counts(f.of, Head(f.rows).stock, Open(f.of))
\* The end of a file that is shorter, a row too many, or the end of the handler.
ImportEnds(f) == files' = files \ {f} /\ UNCHANGED <<forms, jobs>> /\ Untouched

-----------------------------------------------------------------------------
(* What reads and writes at once.                                          *)

\* Orders take goods and cancelled orders give them back, whatever the status.
Move(p, d) == /\ Put(p, [row[p] EXCEPT !.stock = @ + d])
              /\ Counts(p, goods[p] + d, Open(p))
\* A product that is sold out by an adjustment leaves the shelf.
AdjustStock(p, d) ==
    /\ Put(p, [status |-> IF row[p].stock + d = 0 /\ row[p].status = "on" THEN "off" ELSE row[p].status,
               content |-> row[p].content, price |-> row[p].price, stock |-> row[p].stock + d])
    /\ Counts(p, goods[p] + d, Open(p))
Moves(p) == /\ p \in Live /\ UNCHANGED work
            /\ \E d \in {-1, 1} : row[p].stock + d \in Stocks /\ (Move(p, d) \/ AdjustStock(p, d))
            /\ Shows(shown)
Delete(p) == /\ p \in Live /\ Put(p, [row[p] EXCEPT !.status = "gone"])
             /\ Shows(shown) /\ UNCHANGED <<work, goods>>

\* One transaction, with the rows locked: the new prices count at once, on sale
\* or not, and nobody audits them.
BatchUpdatePrice(S) ==
    /\ S # {} /\ S \subseteq Live /\ UNCHANGED <<forms, files, goods>>
    /\ \E new \in [S -> Prices] :
          /\ row' = [p \in Products |-> IF p \in S THEN [row[p] EXCEPT !.price = new[p]] ELSE row[p]]
          /\ Shows([p \in Products |-> IF p \in S /\ shown[p] # None
                                      THEN [shown[p] EXCEPT !.price = new[p]] ELSE shown[p]])
    /\ jobs' = Overtaken(jobs, S)

-----------------------------------------------------------------------------
Init == /\ row \in [Products -> [status : Statuses \cup {"none"}, content : Contents, price : Prices,
                                 stock : Stocks]]
        /\ shown = [p \in Products |-> IF row[p].status = "on" THEN Sale(row[p]) ELSE None]
        /\ goods = [p \in Products |-> row[p].stock]
        /\ forms = {} /\ jobs = {} /\ files = {}

Next == \/ \E p \in Products : \/ OpenForm(p) \/ StatusReads(p) \/ CreateNew(p) \/ ImportStarts(p)
                               \/ Moves(p) \/ Delete(p)
        \/ \E S \in SUBSET Products : BatchUpdatePrice(S)
        \/ \E f \in forms : CloseForm(f) \/ SaveReads(f)
        \/ \E j \in jobs : SaveWrites(j) \/ StatusWrites(j) \/ Drop(j)
        \/ \E f \in files : RowReads(f) \/ RowCreates(f) \/ RowWrites(f) \/ ImportEnds(f)
Spec == Init /\ [][Next]_vars

-----------------------------------------------------------------------------
Form == [of : Products, stock : Stocks, counted : BOOLEAN]
Row == [status : Statuses \cup {"none", "gone"}, content : Contents, price : Prices, stock : Stocks]
TypeOK == /\ row \in [Products -> Row] /\ shown \in [Products -> Sold \cup {None}]
          /\ goods \in [Products -> Int \cup {None}]
          /\ forms \subseteq Form
          /\ \A j \in jobs : j.of \in Products /\ j.what \in {"save", "status"}
          /\ \A f \in files : f.of \in Products

\* What is on sale is what the handler that put it there had read, at the price
\* of then or a later quick change's (BatchUpdatePrice asks for no audit): an edit
\* does not go on sale by itself.  One exception: that handler was overtaken, an
\* edit or a new price was written between its read and its write (AdminAudit,
\* AdminUpdateStatus and UpdateStatus lock nothing).
ChangesAreReviewed == \A p \in Products : row[p].status = "on" => shown[p] \in {Sale(row[p]), None}

\* The stock is what there is to sell, as long as it did not move while a form
\* that shows an older one was open or being written (Update).
StockLedger == \A p \in Live : goods[p] \in {row[p].stock, None}
=============================================================================
