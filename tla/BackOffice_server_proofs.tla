----------------------- MODULE BackOffice_server_proofs -----------------------
(***************************************************************************)
(* Theorems about what the server of BackOffice keeps, for any number of   *)
(* products, shops' contents, facts, categories, forms and handlers: what  *)
(* is on sale and what has passed an audit, what the stock of a product    *)
(* counts, the messages a sync leaves, and the tree of the categories.     *)
(*                                                                         *)
(* A handler writes what it read before.  The invariants therefore say of  *)
(* every handler and every form what it has read is worth: a product that  *)
(* is being put on sale is still what was read, unless the handler was     *)
(* overtaken by an edit or a new price, and the stock a form shows is      *)
(* still the one of the row, unless it moved and nobody knows any more     *)
(* what there is.                                                          *)
(***************************************************************************)
EXTENDS BackOffice, SumTheorems

-----------------------------------------------------------------------------
(* The shops.                                                              *)

ReviewInv == Review!TypeOK /\ Review!ChangesAreReviewed

\* A shop starts with the content it was last audited with.
LEMMA ReviewStarts == Review!Init => ReviewInv
  BY DEF ReviewInv, Review!Init, Review!TypeOK, Review!ChangesAreReviewed, Review!Shop

\* No step passes a content that was not audited, unless the audit came while a
\* save was between its read and its write.
LEMMA ReviewSteps == ASSUME ReviewInv, Review!Next PROVE ReviewInv'
  <1> USE NoneAssumption DEF ReviewInv, Review!TypeOK, Review!ChangesAreReviewed, Review!Shop, Review!Audits
  <1>1. CASE Review!Apply
    BY <1>1, BackOfficeAssumption DEF Review!Apply, Review!Applied
  <1>2. ASSUME NEW v \in Contents, Review!UpdateReads(v) PROVE ReviewInv'
    BY <1>2 DEF Review!UpdateReads
  <1> DEFINE Shops == [audit : {"waiting", "passed", "refused"}, content : Contents, trading : BOOLEAN]
  <1>3. ASSUME NEW s \in saves, Review!UpdateWrites(s) PROVE ReviewInv'
    <2>1. s.new \in Contents /\ s.read \in {"waiting", "passed", "refused"}
      OBVIOUS
    <2>2. shop # None /\ shop \in Shops
      OBVIOUS
    <2>3. shop' \in Shops /\ saves' \subseteq saves /\ decided' = decided
      BY <1>3, <2>1, <2>2 DEF Review!UpdateWrites, Review!Reopens
    <2>4. shop'.audit = IF s.read = "waiting" THEN shop.audit ELSE "waiting"
      BY <1>3, <2>1 DEF Review!UpdateWrites, Review!Reopens
    <2>5. missed' = (missed \/ (s.read = "waiting" /\ shop.audit # "waiting"))
      BY <1>3 DEF Review!UpdateWrites
    <2>6. missed' \in BOOLEAN /\ (s.read = "waiting" /\ shop.audit # "waiting" => missed')
      BY <2>5
    <2>7. shop'.audit # "waiting" => missed'
      BY <2>4, <2>6
    <2> QED
      BY <2>1, <2>3, <2>6, <2>7
  <1>4. ASSUME NEW s \in saves, Review!Drop(s) PROVE ReviewInv'
    BY <1>4 DEF Review!Drop
  <1>5. ASSUME NEW a \in {"passed", "refused"}, Review!AdminAuditShop(a) PROVE ReviewInv'
    <2>1. shop # None /\ shop \in Shops
      BY <1>5 DEF Review!AdminAuditShop
    <2> QED
      BY <1>5, <2>1 DEF Review!AdminAuditShop
  <1>6. ASSUME NEW b \in BOOLEAN, Review!UpdateSellerShopStatus(b) PROVE ReviewInv'
    <2>1. shop # None /\ shop \in Shops
      BY <1>6 DEF Review!UpdateSellerShopStatus
    <2> QED
      BY <1>6, <2>1 DEF Review!UpdateSellerShopStatus
  <1>7. CASE Review!AdminCloseShop
    BY <1>6, <1>7 DEF Review!AdminCloseShop
  <1> QED
    BY <1>1, <1>2, <1>3, <1>4, <1>5, <1>6, <1>7 DEF Review!Next

-----------------------------------------------------------------------------
(* The products.                                                           *)

\* The stock a form shows is the one of its row, as long as that one is known
\* to be what there is, and nobody has counted again.
Fits(f) == /\ row[f.of].status # "none"
           /\ ~f.counted /\ goods[f.of] # None => f.stock = row[f.of].stock

SaveFits(j) == /\ j.what = "save" /\ j.of \in Products /\ j.arg \in Goods!Input /\ j.read \in Goods!Statuses
               /\ j.form \in Goods!Form /\ j.form.of = j.of /\ Fits(j.form)
               /\ ~j.form.counted => j.arg.stock = j.form.stock

StatusFits(j) ==
    j.what = "status" /\ j.of \in Products /\ j.arg \in {"on", "off"} /\ row[j.of].status # "none"

JobType(j) == j \in [id : {j.id}, what : {j.what}, of : {j.of}, arg : {j.arg}, form : {j.form},
                     read : {j.read}, late : BOOLEAN]

FileFits(f) ==
    /\ f \in [id : {f.id}, of : Products, taken : {f.taken}, read : {f.read}, rows : Seq(Goods!Input)]
    /\ f.read # None => f.read \in Goods!Statuses /\ f.rows # <<>>

RowTypes == row \in [Products -> Goods!Row] /\ goods \in [Products -> Int \cup {None}]
FormsFit == forms \subseteq Goods!Form /\ \A f \in forms : Fits(f)
JobsFit == \A j \in jobs : JobType(j) /\ (SaveFits(j) \/ StatusFits(j))
FilesFit == \A f \in files : FileFits(f)

ShelfInv == RowTypes /\ FormsFit /\ JobsFit /\ FilesFit /\ Goods!StockLedger

\* At the start nobody is at work, and every row counts what there is.
LEMMA ShelfStarts == ASSUME Goods!Init PROVE ShelfInv
  <1>1. row \in [Products -> Goods!Row]
    BY DEF Goods!Init, Goods!Row
  <1>2. \A p \in Products : row[p].stock \in Int
    BY <1>1, BackOfficeAssumption DEF Goods!Row, Goods!Stocks
  <1>3. RowTypes
    BY <1>1, <1>2 DEF Goods!Init, RowTypes
  <1>4. FormsFit /\ JobsFit /\ FilesFit
    BY DEF Goods!Init, FormsFit, JobsFit, FilesFit
  <1>5. Goods!StockLedger
    BY DEF Goods!Init, Goods!StockLedger, Goods!Live
  <1> QED
    BY <1>3, <1>4, <1>5 DEF ShelfInv

\* What is read of a row, or put into a form or a handler, leaves everything
\* that fits as it was.
LEMMA Untouched ==
    ASSUME ShelfInv, Goods!Untouched
    PROVE  /\ RowTypes' /\ Goods!StockLedger'
           /\ \A f \in Goods!Form : Fits(f) => Fits(f)'
           /\ \A j : SaveFits(j) => SaveFits(j)'
           /\ \A j : StatusFits(j) => StatusFits(j)'
           /\ \A f : FileFits(f) => FileFits(f)'
  <1> USE DEF ShelfInv, Goods!Untouched
  <1>1. RowTypes'
    BY DEF RowTypes
  <1>2. Goods!StockLedger'
    BY DEF Goods!StockLedger, Goods!Live
  <1>3. \A f : Fits(f) => Fits(f)'
    BY DEF Fits
  <1>4. \A j : SaveFits(j) => SaveFits(j)'
    BY <1>3 DEF SaveFits
  <1>5. \A j : StatusFits(j) => StatusFits(j)'
    BY DEF StatusFits
  <1>6. \A f : FileFits(f) => FileFits(f)'
    BY DEF FileFits
  <1> QED
    BY <1>1, <1>2, <1>3, <1>4, <1>5, <1>6

LEMMA ReadsKeep ==
    ASSUME ShelfInv, Goods!Untouched,
           forms' \subseteq Goods!Form, \A f \in forms' : f \in forms \/ Fits(f),
           \A j \in jobs' : j \in jobs \/ (JobType(j) /\ (SaveFits(j) \/ StatusFits(j))),
           \A f \in files' : f \in files \/ FileFits(f)
    PROVE  ShelfInv'
  <1>1. FormsFit'
    BY Untouched DEF ShelfInv, FormsFit
  <1>2. JobsFit'
    BY Untouched DEF ShelfInv, JobsFit, JobType
  <1>3. FilesFit'
    BY Untouched DEF ShelfInv, FilesFit
  <1> QED
    BY <1>1, <1>2, <1>3, Untouched DEF ShelfInv

\* Opening and closing forms, and all the reads, keep the invariant.
LEMMA FormsKeep ==
    ASSUME ShelfInv,
           \/ \E p \in Products : Goods!OpenForm(p)
           \/ \E f \in forms : Goods!CloseForm(f)
    PROVE  ShelfInv'
  <1>1. ASSUME NEW p \in Products, Goods!OpenForm(p) PROVE ShelfInv'
    <2> DEFINE f == [of |-> p, stock |-> row[p].stock, counted |-> FALSE]
    <2>1. row[p] \in Goods!Row /\ row[p].status \in Goods!Statuses /\ p \in Goods!Live
      BY <1>1 DEF ShelfInv, RowTypes, Goods!OpenForm, Goods!Live
    <2>2. f \in Goods!Form
      BY <2>1 DEF Goods!Form, Goods!Row
    <2>3. Fits(f)
      BY <2>1 DEF Fits, Goods!Statuses
    <2>4. Goods!Untouched /\ forms' = forms \cup {f} /\ jobs' = jobs /\ files' = files
      BY <1>1 DEF Goods!OpenForm, Goods!Untouched
    <2>5. forms' \subseteq Goods!Form
      BY <2>2, <2>4 DEF ShelfInv, FormsFit
    <2> QED
      BY <2>3, <2>4, <2>5, ReadsKeep
  <1>2. ASSUME NEW f \in forms, Goods!CloseForm(f) PROVE ShelfInv'
    <2>1. Goods!Untouched /\ forms' \subseteq forms /\ jobs' = jobs /\ files' = files
      BY <1>2 DEF Goods!CloseForm, Goods!Untouched
    <2>2. forms' \subseteq Goods!Form
      BY <2>1 DEF ShelfInv, FormsFit
    <2> QED
      BY <2>1, <2>2, ReadsKeep
  <1> QED
    BY <1>1, <1>2

LEMMA SaveReadsKeep ==
    ASSUME ShelfInv, NEW f \in forms, Goods!SaveReads(f) PROVE ShelfInv'
  <1>1. f \in Goods!Form /\ Fits(f) /\ f.of \in Products /\ forms \subseteq Goods!Form
    BY DEF ShelfInv, FormsFit, Goods!Form
  <1>2. PICK i \in Goods!Input :
          Goods!Start("save", f.of, i, [f EXCEPT !.counted = @ \/ i.stock # f.stock], row[f.of].status)
    BY DEF Goods!SaveReads
  <1> DEFINE g == [f EXCEPT !.counted = @ \/ i.stock # f.stock]
             j == [id |-> Goods!NewId(jobs), what |-> "save", of |-> f.of, arg |-> i, form |-> g,
                   read |-> row[f.of].status, late |-> FALSE]
  <1>3. g \in Goods!Form /\ g.of = f.of /\ g.stock = f.stock
    BY <1>1 DEF Goods!Form
  <1>4. ~g.counted => ~f.counted /\ i.stock = f.stock
    <2>1. g.counted = (f.counted \/ i.stock # f.stock)
      BY <1>1 DEF Goods!Form
    <2> QED
      BY <2>1
  <1>5. Fits(g)
    BY <1>1, <1>3, <1>4 DEF Fits
  <1>6. row[f.of].status \in Goods!Statuses
    BY DEF Goods!SaveReads, Goods!Live
  <1>7. SaveFits(j) /\ JobType(j)
    <2> HIDE DEF g
    <2> QED
      BY <1>1, <1>3, <1>4, <1>5, <1>6 DEF SaveFits, JobType
  <1>8. Goods!Untouched /\ files' = files /\ forms' \subseteq forms
    BY DEF Goods!SaveReads
  <1>9. jobs' = jobs \cup {j}
    BY <1>2 DEF Goods!Start
  <1> HIDE DEF j
  <1> QED
    BY <1>1, <1>7, <1>8, <1>9, ReadsKeep

LEMMA StatusReadsKeep ==
    ASSUME ShelfInv, NEW p \in Products, Goods!StatusReads(p) PROVE ShelfInv'
  <1>1. Goods!Untouched /\ forms' = forms /\ files' = files /\ p \in Goods!Live
    BY DEF Goods!StatusReads
  <1>2. PICK to \in {"on", "off"} : Goods!Switch(p, to)
    <2>1. \/ \E to \in {"on", "off"} : Goods!Switch(p, to)
          \/ \E pass \in BOOLEAN : Goods!Switch(p, IF pass /\ row[p].stock > 0 THEN "on" ELSE "off")
      BY DEF Goods!StatusReads, Goods!UpdateStatusReads, Goods!AdminUpdateStatusReads, Goods!AdminAuditReads
    <2> QED
      BY <2>1
  <1> DEFINE j == [id |-> Goods!NewId(jobs), what |-> "status", of |-> p, arg |-> to, form |-> None,
                   read |-> IF to = "on" THEN Goods!Sale(row[p]) ELSE None, late |-> FALSE]
  <1>3. row[p].status \in Goods!Statuses
    BY <1>1 DEF Goods!Live
  <1>4. StatusFits(j) /\ JobType(j)
    BY <1>3 DEF StatusFits, JobType, Goods!Statuses
  <1>5. jobs' = jobs \cup {j}
    BY <1>2 DEF Goods!Switch, Goods!Start
  <1> HIDE DEF j
  <1> QED
    BY <1>1, <1>4, <1>5, ReadsKeep DEF ShelfInv, FormsFit

LEMMA DropKeeps ==
    ASSUME ShelfInv, NEW j \in jobs, Goods!Drop(j) PROVE ShelfInv'
  <1>1. Goods!Untouched /\ files' = files /\ jobs' \subseteq jobs
    BY DEF Goods!Drop
  <1>2. j.what = "save" => j.form \in Goods!Form /\ Fits(j.form)
    BY DEF ShelfInv, JobsFit, SaveFits, StatusFits
  <1>3. forms' = IF j.what = "save" THEN forms \cup {j.form} ELSE forms
    BY DEF Goods!Drop
  <1>4. forms' \subseteq Goods!Form /\ \A f \in forms' : f \in forms \/ Fits(f)
    BY <1>2, <1>3 DEF ShelfInv, FormsFit
  <1> QED
    BY <1>1, <1>4, ReadsKeep

LEMMA ImportReadsKeep ==
    ASSUME ShelfInv,
           \/ \E p \in Products : Goods!ImportStarts(p)
           \/ \E f \in files : Goods!RowReads(f) \/ Goods!ImportEnds(f)
    PROVE  ShelfInv'
  <1>1. ASSUME NEW p \in Products, Goods!ImportStarts(p) PROVE ShelfInv'
    <2>1. PICK i \in Goods!Input :
            files' = files \cup {[id |-> Goods!NewId(files), of |-> p, taken |-> 0, read |-> None,
                                  rows |-> [k \in 1..(MaxRows + 1) |-> i]]}
      BY <1>1 DEF Goods!ImportStarts
    <2> DEFINE f == [id |-> Goods!NewId(files), of |-> p, taken |-> 0, read |-> None,
                     rows |-> [k \in 1..(MaxRows + 1) |-> i]]
    <2>2. [k \in 1..(MaxRows + 1) |-> i] \in Seq(Goods!Input)
      BY BackOfficeAssumption
    <2>3. FileFits(f)
      BY <2>2 DEF FileFits
    <2>4. Goods!Untouched /\ forms' = forms /\ jobs' = jobs
      BY <1>1 DEF Goods!ImportStarts
    <2> HIDE DEF f
    <2> QED
      BY <2>1, <2>3, <2>4, ReadsKeep DEF ShelfInv, FormsFit, f
  <1>2. ASSUME NEW f \in files, Goods!RowReads(f) PROVE ShelfInv'
    <2> DEFINE g == [f EXCEPT !.read = row[f.of].status]
    <2>1. FileFits(f)
      BY DEF ShelfInv, FilesFit
    <2>2. row[f.of].status \in Goods!Statuses /\ f.rows # <<>>
      BY <1>2 DEF Goods!RowReads, Goods!Live
    <2>3. FileFits(g)
      BY <2>1, <2>2 DEF FileFits
    <2>4. Goods!Untouched /\ forms' = forms /\ jobs' = jobs /\ files' = (files \ {f}) \cup {g}
      BY <1>2 DEF Goods!RowReads
    <2> HIDE DEF g
    <2> QED
      BY <2>3, <2>4, ReadsKeep DEF ShelfInv, FormsFit
  <1>3. ASSUME NEW f \in files, Goods!ImportEnds(f) PROVE ShelfInv'
    BY <1>3, ReadsKeep DEF Goods!ImportEnds, ShelfInv, FormsFit
  <1> QED
    BY <1>1, <1>2, <1>3

\* What a write of the row r with the goods g leaves fitting.
WriteFits(p, r, g) ==
    /\ RowTypes' /\ Goods!StockLedger'
    /\ \A f \in Goods!Form :
          /\ Fits(f)
          /\ f.of = p /\ ~f.counted /\ g # None => goods[p] # None /\ r.stock = row[p].stock
          => Fits(f)'
    /\ \A j : StatusFits(j) => StatusFits(j)'
    /\ \A f : FileFits(f) => FileFits(f)'

\* One row is written: what still fits of that product, and the rest.
LEMMA WriteKeeps ==
    ASSUME ShelfInv, NEW p \in Products,
           NEW r \in Goods!Row, r.status # "none", row' = [row EXCEPT ![p] = r],
           NEW g \in Int \cup {None}, goods' = [goods EXCEPT ![p] = g],
           r.status \in Goods!Statuses => g \in {r.stock, None}
    PROVE  WriteFits(p, r, g)
  <1>1. RowTypes'
    BY DEF ShelfInv, RowTypes
  <1>2. /\ row'[p] = r /\ goods'[p] = g
        /\ \A q \in Products \ {p} : row'[q] = row[q] /\ goods'[q] = goods[q]
    BY DEF ShelfInv, RowTypes
  <1>4. Goods!StockLedger'
    BY <1>2 DEF ShelfInv, Goods!StockLedger, Goods!Live
  <1>5. ASSUME NEW f \in Goods!Form, Fits(f),
               f.of = p /\ ~f.counted /\ g # None => goods[p] # None /\ r.stock = row[p].stock
        PROVE  Fits(f)'
    <2>1. f.of \in Products
      BY DEF Goods!Form
    <2>2. CASE f.of = p
      BY <1>2, <1>5, <2>2 DEF Fits
    <2>3. CASE f.of # p
      BY <1>2, <1>5, <2>1, <2>3 DEF Fits
    <2> QED
      BY <2>2, <2>3
  <1>6. \A j : StatusFits(j) => StatusFits(j)'
    BY <1>2 DEF StatusFits
  <1>7. \A f : FileFits(f) => FileFits(f)'
    BY DEF FileFits
  <1> QED
    BY <1>1, <1>4, <1>5, <1>6, <1>7 DEF WriteFits

\* The row an edit leaves is not on sale.
LEMMA UpdatedRow ==
    ASSUME NEW read \in Goods!Statuses, NEW i \in Goods!Input
    PROVE  /\ Goods!Updated(read, i) \in Goods!Row
           /\ Goods!Updated(read, i).status \in {"off", "pending"}
           /\ Goods!Updated(read, i).stock = i.stock
  BY DEF Goods!Updated, Goods!Row, Goods!Input, Goods!Statuses

\* A handler that was overtaken is the one it was, but for late.
SameJob(k, j) == /\ JobType(k) /\ k.what = j.what /\ k.of = j.of /\ k.arg = j.arg /\ k.form = j.form
                 /\ k.read = j.read /\ (j.late => k.late)

LEMMA OvertakenJobs ==
    ASSUME NEW js, \A j \in js : JobType(j), NEW S, NEW k \in Goods!Overtaken(js, S)
    PROVE  \E j \in js : SameJob(k, j) /\ (j.of \in S /\ Goods!PutsOn(j) => k.late)
  <1>1. PICK j \in js : k = [j EXCEPT !.late = @ \/ (j.of \in S /\ Goods!PutsOn(j))]
    BY DEF Goods!Overtaken
  <1>2. PICK b \in BOOLEAN : b <=> (j.late \/ (j.of \in S /\ Goods!PutsOn(j)))
    OBVIOUS
  <1>3. JobType(j)
    OBVIOUS
  <1>4. k = [j EXCEPT !.late = b]
    <2>1. (j.late \/ (j.of \in S /\ Goods!PutsOn(j))) = b
      BY <1>2
    <2> QED
      BY <1>1, <2>1
  <1>5. /\ JobType(k) /\ k.what = j.what /\ k.of = j.of /\ k.arg = j.arg /\ k.form = j.form
        /\ k.read = j.read /\ k.late = b
    BY <1>3, <1>4 DEF JobType
  <1> QED
    BY <1>2, <1>5 DEF SameJob

LEMMA SameFits ==
    \A k, j : SameJob(k, j) => (SaveFits(j)' => SaveFits(k)') /\ (StatusFits(j)' => StatusFits(k)')
  BY DEF SameJob, SaveFits, StatusFits

LEMMA SameJobs ==
    ASSUME \A j \in jobs : JobType(j), jobs' \subseteq jobs
    PROVE  \A k \in jobs' : \E j \in jobs : SameJob(k, j)
  BY DEF SameJob

\* Saving a form.
LEMMA SaveWritesKeep ==
    ASSUME ShelfInv, NEW j \in jobs, Goods!SaveWrites(j) PROVE ShelfInv'
  <1> DEFINE p == j.of
             r == Goods!Updated(j.read, j.arg)
             g == IF goods[p] = None \/ (r.stock # row[p].stock /\ Goods!OtherOpen(j)) THEN None
                  ELSE IF j.form.counted THEN j.arg.stock ELSE goods[p]
  <1>1. SaveFits(j) /\ p \in Goods!Live
    BY DEF ShelfInv, JobsFit, StatusFits, Goods!SaveWrites
  <1>2. /\ p \in Products /\ j.read \in Goods!Statuses /\ j.arg \in Goods!Input /\ j.form \in Goods!Form
        /\ Fits(j.form) /\ j.form.of = p /\ (~j.form.counted => j.arg.stock = j.form.stock)
    BY <1>1 DEF SaveFits
  <1>3. /\ row' = [row EXCEPT ![p] = r] /\ files' = files /\ jobs' = Goods!Overtaken(jobs \ {j}, {p})
        /\ forms' \in {forms, forms \cup {j.form}}
    BY DEF Goods!SaveWrites, Goods!Put
  <1>4. r \in Goods!Row /\ r.status \in {"off", "pending"} /\ r.stock = j.arg.stock
    BY <1>2, UpdatedRow
  <1>5. row'[p].stock = r.stock
    BY <1>2, <1>3 DEF ShelfInv, RowTypes
  <1>6. goods' = [goods EXCEPT ![p] = g]
    BY <1>5 DEF Goods!SaveWrites, Goods!Counts
  <1>7. j.arg.stock \in Int /\ goods[p] \in {row[p].stock, None} /\ goods[p] \in Int \cup {None}
    BY <1>1, <1>2, BackOfficeAssumption
       DEF ShelfInv, RowTypes, Goods!StockLedger, Goods!Input, Goods!Stocks
  <1>8. g \in Int \cup {None} /\ g \in {r.stock, None}
    BY <1>2, <1>4, <1>7 DEF Fits
  <1>9. g # None => goods[p] # None /\ (Goods!OtherOpen(j) => r.stock = row[p].stock)
    OBVIOUS
  <1>10. \A f \in forms : f.of = p => Goods!OtherOpen(j)
    BY DEF Goods!OtherOpen
  <1>11. \A k \in jobs \ {j} : k.of = p /\ k.what = "save" => Goods!OtherOpen(j)
    BY DEF Goods!OtherOpen
  <1>12. g # None /\ ~j.form.counted => r.stock = row[p].stock
    BY <1>2, <1>4, <1>9 DEF Fits
  <1> HIDE DEF r, g, p
  <1>0. /\ p \in Products /\ r \in Goods!Row /\ g \in Int \cup {None} /\ g \in {r.stock, None}
        /\ r.status # "none"
        /\ row' = [row EXCEPT ![p] = r] /\ goods' = [goods EXCEPT ![p] = g]
    BY <1>2, <1>3, <1>4, <1>6, <1>8
  <1>13. /\ RowTypes' /\ Goods!StockLedger'
         /\ \A f \in Goods!Form :
               /\ Fits(f)
               /\ f.of = p /\ ~f.counted /\ g # None => goods[p] # None /\ r.stock = row[p].stock
               => Fits(f)'
         /\ \A k : StatusFits(k) => StatusFits(k)'
         /\ \A f : FileFits(f) => FileFits(f)'
    <2>1. WriteFits(p, r, g)
      BY <1>0, WriteKeeps
    <2> QED
      BY <2>1 DEF WriteFits
  <1>14. FormsFit'
    <2>1. forms \subseteq Goods!Form /\ \A f \in forms : Fits(f)'
      BY <1>9, <1>10, <1>13 DEF ShelfInv, FormsFit
    <2>2. j.form \in Goods!Form /\ Fits(j.form)'
      BY <1>2, <1>9, <1>12, <1>13
    <2> QED
      BY <1>3, <2>1, <2>2 DEF FormsFit
  <1>15. JobsFit'
    <2>1. ASSUME NEW k \in jobs \ {j}, SaveFits(k) PROVE SaveFits(k)'
      <3>1. k.form \in Goods!Form /\ Fits(k.form) /\ k.form.of = k.of /\ k.what = "save"
        BY <2>1 DEF SaveFits
      <3>2. Fits(k.form)'
        BY <1>9, <1>11, <1>13, <3>1
      <3> QED
        BY <2>1, <3>2 DEF SaveFits
    <2>2. \A k \in jobs \ {j} : SaveFits(k)' \/ StatusFits(k)'
      BY <1>13, <2>1 DEF ShelfInv, JobsFit
    <2>3. \A h \in jobs' : \E k \in jobs \ {j} : SameJob(h, k)
      BY <1>3, OvertakenJobs DEF ShelfInv, JobsFit
    <2> QED
      BY <2>2, <2>3, SameFits DEF JobsFit, SameJob
  <1> QED
    BY <1>3, <1>13, <1>14, <1>15 DEF ShelfInv, FilesFit

\* Any other write: the forms stay open, and no handler starts.
LEMMA RowKeeps ==
    ASSUME ShelfInv, NEW p \in Products,
           NEW r \in Goods!Row, r.status # "none", row' = [row EXCEPT ![p] = r],
           NEW g \in Int \cup {None}, goods' = [goods EXCEPT ![p] = g],
           r.status \in Goods!Statuses => g \in {r.stock, None},
           forms' = forms, \A k \in jobs' : \E j \in jobs : SameJob(k, j),
           \A f \in files' : f \in files \/ FileFits(f),
           row[p].status = "none" \/ (Goods!Open(p) /\ g # None => goods[p] # None /\ r.stock = row[p].stock)
    PROVE  ShelfInv'
  <1>1. /\ RowTypes' /\ Goods!StockLedger'
        /\ \A f \in Goods!Form :
              /\ Fits(f)
              /\ f.of = p /\ ~f.counted /\ g # None => goods[p] # None /\ r.stock = row[p].stock
              => Fits(f)'
        /\ \A k : StatusFits(k) => StatusFits(k)'
        /\ \A f : FileFits(f) => FileFits(f)'
    <2>1. WriteFits(p, r, g)
      BY WriteKeeps
    <2> QED
      BY <2>1 DEF WriteFits
  <1>2. ASSUME NEW f \in Goods!Form, Fits(f), f.of = p => Goods!Open(p) PROVE Fits(f)'
    BY <1>1, <1>2 DEF Fits
  <1>3. FormsFit'
    BY <1>2 DEF ShelfInv, FormsFit, Goods!Open
  <1>4. JobsFit'
    <2>1. ASSUME NEW k \in jobs, SaveFits(k) PROVE SaveFits(k)'
      <3>1. k.form \in Goods!Form /\ Fits(k.form) /\ k.form.of = k.of /\ k.what = "save"
        BY <2>1 DEF SaveFits
      <3>2. k.form.of = p => Goods!Open(p)
        BY <3>1 DEF Goods!Open
      <3>3. Fits(k.form)'
        BY <1>2, <3>1, <3>2
      <3> QED
        BY <2>1, <3>3 DEF SaveFits
    <2>2. \A k \in jobs : SaveFits(k)' \/ StatusFits(k)'
      BY <1>1, <2>1 DEF ShelfInv, JobsFit
    <2> QED
      BY <2>2, SameFits DEF JobsFit, SameJob
  <1>5. FilesFit'
    BY <1>1 DEF ShelfInv, FilesFit
  <1> QED
    BY <1>1, <1>3, <1>4, <1>5 DEF ShelfInv

\* Putting a product on sale, or taking it off.
LEMMA StatusWritesKeep ==
    ASSUME ShelfInv, NEW j \in jobs, Goods!StatusWrites(j) PROVE ShelfInv'
  <1> DEFINE p == j.of
             r == [row[p] EXCEPT !.status = j.arg]
  <1>1. StatusFits(j) /\ p \in Products /\ j.arg \in {"on", "off"} /\ row[p].status \in Goods!Statuses
    BY DEF ShelfInv, JobsFit, SaveFits, StatusFits, Goods!StatusWrites, Goods!Live
  <1>2. row[p] \in Goods!Row /\ goods[p] \in Int \cup {None}
    BY <1>1 DEF ShelfInv, RowTypes
  <1>3. r \in Goods!Row /\ r.status = j.arg /\ r.stock = row[p].stock
    BY <1>1, <1>2 DEF Goods!Row, Goods!Statuses
  <1>4. row' = [row EXCEPT ![p] = r] /\ goods' = [goods EXCEPT ![p] = goods[p]]
    BY <1>2 DEF Goods!StatusWrites, Goods!Put, ShelfInv, RowTypes
  <1>5. forms' = forms /\ jobs' \subseteq jobs /\ files' = files
    BY DEF Goods!StatusWrites
  <1>6. \A k \in jobs' : \E h \in jobs : SameJob(k, h)
    BY <1>5, SameJobs DEF ShelfInv, JobsFit
  <1>7. goods[p] \in {row[p].stock, None}
    BY <1>1 DEF ShelfInv, Goods!StockLedger, Goods!Live
  <1> HIDE DEF r, p
  <1>8. r.status # "none" /\ (goods[p] # None => r.stock = row[p].stock)
    BY <1>1, <1>3
  <1> QED
    BY <1>1, <1>2, <1>3, <1>4, <1>5, <1>6, <1>7, <1>8, RowKeeps

\* A file that has one row less to go.
LEMMA TakenFits ==
    ASSUME NEW f \in files, FileFits(f), f.rows # <<>>
    PROVE  \A h \in Goods!Taken(f) : h \in files \/ FileFits(h)
  <1> DEFINE g == [id |-> f.id, of |-> f.of, taken |-> f.taken + 1, read |-> None, rows |-> Tail(f.rows)]
  <1>1. f.of \in Products /\ f.rows \in Seq(Goods!Input)
    BY DEF FileFits
  <1>2. Tail(f.rows) \in Seq(Goods!Input)
    BY <1>1
  <1>3. FileFits(g)
    BY <1>1, <1>2 DEF FileFits
  <1> QED
    BY <1>3 DEF Goods!Taken

\* A product that is new: nobody has read it.
LEMMA CreateKeeps ==
    ASSUME ShelfInv, NEW p \in Products, NEW i \in Goods!Input, Goods!Create(p, i),
           forms' = forms, jobs' = jobs, \A f \in files' : f \in files \/ FileFits(f)
    PROVE  ShelfInv'
  <1> DEFINE r == Goods!NewRow(i)
  <1>1. r \in Goods!Row /\ r.status = "pending" /\ r.stock = i.stock /\ i.stock \in Int
    BY BackOfficeAssumption DEF Goods!NewRow, Goods!Row, Goods!Input, Goods!Statuses, Goods!Stocks
  <1>2. /\ row[p].status = "none" /\ row' = [row EXCEPT ![p] = r]
        /\ goods' = [goods EXCEPT ![p] = i.stock]
    BY DEF Goods!Create, Goods!Put
  <1> HIDE DEF r
  <1>3. \A k \in jobs' : \E j \in jobs : SameJob(k, j)
    BY SameJobs DEF ShelfInv, JobsFit
  <1> QED
    BY <1>1, <1>2, <1>3, RowKeeps

\* One row of an import.
LEMMA ImportWritesKeep ==
    ASSUME ShelfInv, NEW f \in files, Goods!RowCreates(f) \/ Goods!RowWrites(f) PROVE ShelfInv'
  <1>1. FileFits(f) /\ f.of \in Products /\ f.rows \in Seq(Goods!Input)
    BY DEF ShelfInv, FilesFit, FileFits
  <1>2. CASE Goods!RowCreates(f)
    <2>1. f.rows # <<>> /\ Goods!Create(f.of, Head(f.rows)) /\ files' = Goods!Taken(f)
          /\ forms' = forms /\ jobs' = jobs
      BY <1>2 DEF Goods!RowCreates
    <2>2. Head(f.rows) \in Goods!Input
      BY <1>1, <2>1
    <2>3. \A h \in files' : h \in files \/ FileFits(h)
      BY <1>1, <2>1, TakenFits
    <2> QED
      BY <1>1, <2>1, <2>2, <2>3, CreateKeeps
  <1>3. CASE Goods!RowWrites(f)
    <2> DEFINE p == f.of
               i == Head(f.rows)
               r == Goods!Updated(f.read, i)
               g == IF goods[p] = None \/ (r.stock # row[p].stock /\ Goods!Open(p)) THEN None ELSE i.stock
    <2>1. f.read \in Goods!Statuses /\ f.rows # <<>>
      BY <1>1, <1>3 DEF FileFits, Goods!RowWrites
    <2>2. i \in Goods!Input
      BY <1>1, <2>1
    <2>3. /\ row' = [row EXCEPT ![p] = r] /\ files' = Goods!Taken(f) /\ forms' = forms
          /\ jobs' = Goods!Overtaken(jobs, {p})
      BY <1>3 DEF Goods!RowWrites, Goods!Put
    <2>4. r \in Goods!Row /\ r.status \in {"off", "pending"} /\ r.stock = i.stock
      BY <2>1, <2>2, UpdatedRow
    <2> HIDE DEF i
    <2>5. row'[p].stock = r.stock
      BY <1>1, <2>3 DEF ShelfInv, RowTypes
    <2>6. goods' = [goods EXCEPT ![p] = g]
      BY <1>3, <2>5 DEF Goods!RowWrites, Goods!Counts, i
    <2>7. i.stock \in Int
      BY <2>2, BackOfficeAssumption DEF Goods!Input, Goods!Stocks
    <2>8. g \in Int \cup {None} /\ g \in {r.stock, None}
      BY <2>4, <2>7
    <2>9. Goods!Open(p) /\ g # None => goods[p] # None /\ r.stock = row[p].stock
      OBVIOUS
    <2>10. \A h \in files' : h \in files \/ FileFits(h)
      BY <1>1, <2>1, <2>3, TakenFits
    <2>11. \A k \in jobs' : \E j \in jobs : SameJob(k, j)
      BY <2>3, OvertakenJobs DEF ShelfInv, JobsFit
    <2> HIDE DEF r, g, p
    <2> QED
      BY <1>1, <2>3, <2>4, <2>6, <2>8, <2>9, <2>10, <2>11, RowKeeps DEF p
  <1> QED
    BY <1>2, <1>3

\* Orders, adjustments of the stock, and the deletion of a product.
LEMMA MovesKeep ==
    ASSUME ShelfInv, NEW p \in Products, Goods!Moves(p) PROVE ShelfInv'
  <1>1. PICK d \in {-1, 1} : row[p].stock + d \in Goods!Stocks /\ (Goods!Move(p, d) \/ Goods!AdjustStock(p, d))
    BY DEF Goods!Moves
  <1> DEFINE r == row'[p]
             g == IF goods[p] = None \/ (r.stock # row[p].stock /\ Goods!Open(p)) THEN None ELSE goods[p] + d
  <1>2. /\ row[p].status \in Goods!Statuses /\ row[p] \in Goods!Row /\ goods[p] \in Int \cup {None}
        /\ goods[p] \in {row[p].stock, None}
    BY DEF ShelfInv, RowTypes, Goods!Moves, Goods!Live, Goods!StockLedger
  <1>3. forms' = forms /\ jobs' = jobs /\ files' = files
    BY DEF Goods!Moves, Goods!work
  <1>4. /\ row' = [row EXCEPT ![p] = r] /\ r \in Goods!Row
        /\ r.stock = row[p].stock + d /\ r.status \in {row[p].status, "off"}
    <2>1. CASE Goods!Move(p, d)
      BY <1>1, <1>2, <2>1 DEF Goods!Move, Goods!Put, Goods!Row, ShelfInv, RowTypes
    <2>2. CASE Goods!AdjustStock(p, d)
      BY <1>1, <1>2, <2>2 DEF Goods!AdjustStock, Goods!Put, Goods!Row, Goods!Statuses, ShelfInv, RowTypes
    <2> QED
      BY <1>1, <2>1, <2>2
  <1>5. goods' = [goods EXCEPT ![p] = g]
    BY <1>1 DEF Goods!Move, Goods!AdjustStock, Goods!Counts
  <1>6. d \in Int /\ row[p].stock \in Int
    BY <1>1, <1>2, BackOfficeAssumption DEF Goods!Row, Goods!Stocks
  <1>7. g \in Int \cup {None} /\ g \in {r.stock, None}
    BY <1>2, <1>4, <1>6
  <1>8. Goods!Open(p) /\ g # None => goods[p] # None /\ r.stock = row[p].stock
    OBVIOUS
  <1>9. r.status # "none"
    BY <1>2, <1>4 DEF Goods!Statuses
  <1>10. \A k \in jobs' : \E j \in jobs : SameJob(k, j)
    BY <1>3, SameJobs DEF ShelfInv, JobsFit
  <1> HIDE DEF r, g
  <1> QED
    BY <1>3, <1>4, <1>5, <1>7, <1>8, <1>9, <1>10, RowKeeps

LEMMA DeleteKeeps ==
    ASSUME ShelfInv, NEW p \in Products, Goods!Delete(p) PROVE ShelfInv'
  <1> DEFINE r == [row[p] EXCEPT !.status = "gone"]
  <1>1. row[p] \in Goods!Row /\ goods[p] \in Int \cup {None}
    BY DEF ShelfInv, RowTypes
  <1>2. r \in Goods!Row /\ r.status = "gone" /\ r.stock = row[p].stock
    BY <1>1 DEF Goods!Row
  <1>3. /\ row' = [row EXCEPT ![p] = r] /\ goods' = [goods EXCEPT ![p] = goods[p]]
        /\ forms' = forms /\ jobs' = jobs /\ files' = files
    BY DEF Goods!Delete, Goods!Put, Goods!work, ShelfInv, RowTypes
  <1> HIDE DEF r
  <1>4. \A k \in jobs' : \E j \in jobs : SameJob(k, j)
    BY <1>3, SameJobs DEF ShelfInv, JobsFit
  <1>5. r.status \notin Goods!Statuses
    BY <1>2 DEF Goods!Statuses
  <1> QED
    BY <1>1, <1>2, <1>3, <1>4, <1>5, RowKeeps

\* New prices touch neither a stock nor a status.
LEMMA PricesKeep ==
    ASSUME ShelfInv, NEW S, Goods!BatchUpdatePrice(S) PROVE ShelfInv'
  <1>1. PICK new \in [S -> Prices] :
          row' = [p \in Products |-> IF p \in S THEN [row[p] EXCEPT !.price = new[p]] ELSE row[p]]
    BY DEF Goods!BatchUpdatePrice
  <1>2. /\ forms' = forms /\ files' = files /\ goods' = goods /\ jobs' = Goods!Overtaken(jobs, S)
    BY DEF Goods!BatchUpdatePrice
  <1>3. \A p \in Products : /\ row'[p] \in Goods!Row /\ row'[p].status = row[p].status
                            /\ row'[p].stock = row[p].stock
    BY <1>1 DEF ShelfInv, RowTypes, Goods!Row
  <1>4. RowTypes' /\ Goods!StockLedger'
    <2>1. row' \in [Products -> Goods!Row]
      BY <1>1, <1>3
    <2> QED
      BY <1>2, <1>3, <2>1 DEF ShelfInv, RowTypes, Goods!StockLedger, Goods!Live
  <1>5. ASSUME NEW f \in Goods!Form, Fits(f) PROVE Fits(f)'
    BY <1>2, <1>3, <1>5 DEF Fits, Goods!Form
  <1>6. FormsFit'
    BY <1>2, <1>5 DEF ShelfInv, FormsFit
  <1>7. \A k \in jobs : SaveFits(k)' \/ StatusFits(k)'
    BY <1>3, <1>5 DEF ShelfInv, JobsFit, SaveFits, StatusFits
  <1>8. \A h \in jobs' : \E k \in jobs : SameJob(h, k)
    BY <1>2, OvertakenJobs DEF ShelfInv, JobsFit
  <1>9. JobsFit'
    BY <1>7, <1>8, SameFits DEF JobsFit, SameJob
  <1>10. FilesFit'
    BY <1>2 DEF ShelfInv, FilesFit, FileFits
  <1> QED
    BY <1>4, <1>6, <1>9, <1>10 DEF ShelfInv

\* No step of the products breaks the invariant.
LEMMA ShelfSteps == ASSUME ShelfInv, Goods!Next PROVE ShelfInv'
  <1>1. CASE \/ \E p \in Products : Goods!OpenForm(p)
             \/ \E f \in forms : Goods!CloseForm(f)
    BY <1>1, FormsKeep
  <1>2. CASE \E p \in Products : Goods!StatusReads(p) \/ Goods!ImportStarts(p) \/ Goods!Moves(p)
                                 \/ Goods!Delete(p)
    BY <1>2, StatusReadsKeep, ImportReadsKeep, MovesKeep, DeleteKeeps
  <1>3. ASSUME NEW p \in Products, Goods!CreateNew(p) PROVE ShelfInv'
    BY <1>3, CreateKeeps DEF Goods!CreateNew, Goods!work
  <1>4. CASE \E f \in forms : Goods!SaveReads(f)
    BY <1>4, SaveReadsKeep
  <1>5. CASE \E j \in jobs : Goods!SaveWrites(j) \/ Goods!StatusWrites(j) \/ Goods!Drop(j)
    BY <1>5, SaveWritesKeep, StatusWritesKeep, DropKeeps
  <1>6. CASE \E f \in files : \/ Goods!RowReads(f) \/ Goods!RowCreates(f) \/ Goods!RowWrites(f)
                              \/ Goods!ImportEnds(f)
    BY <1>6, ImportReadsKeep, ImportWritesKeep
  <1>7. CASE \E S \in SUBSET Products : Goods!BatchUpdatePrice(S)
    BY <1>7, PricesKeep
  <1> QED
    BY <1>1, <1>2, <1>3, <1>4, <1>5, <1>6, <1>7 DEF Goods!Next

-----------------------------------------------------------------------------
(* What is on sale.                                                        *)

\* What a handler puts on sale is what it read, unless it was overtaken since.
ReadFits(j) == Goods!PutsOn(j) => /\ j.read \in Goods!Sold
                                  /\ j.late \/ j.read = Goods!Sale(row[j.of])
ShownTypes == shown \in [Products -> Goods!Sold \cup {None}]
ReadsFit == \A j \in jobs : ReadFits(j)
SaleInv == ShownTypes /\ ReadsFit /\ Goods!ChangesAreReviewed

LEMMA Sales == \A r \in Goods!Row : Goods!Sale(r) \in Goods!Sold
  BY DEF Goods!Row, Goods!Sale, Goods!Sold

\* At the start what is on sale is what is there.
LEMMA SaleStarts == ASSUME Goods!Init PROVE SaleInv
  <1>1. row \in [Products -> Goods!Row]
    BY DEF Goods!Init, Goods!Row
  <1>2. \A p \in Products : Goods!Sale(row[p]) \in Goods!Sold
    BY <1>1, Sales
  <1> QED
    BY <1>2 DEF Goods!Init, SaleInv, ShownTypes, ReadsFit, Goods!ChangesAreReviewed

\* The handlers that were there, when nothing was written of what they put on
\* sale, or they were overtaken.
LEMMA OldReadsFit ==
    ASSUME ReadsFit, NEW k, NEW j \in jobs, SameJob(k, j),
           Goods!PutsOn(j) => k.late \/ Goods!Sale(row'[j.of]) = Goods!Sale(row[j.of])
    PROVE  ReadFits(k)'
  <1>1. ReadFits(j)
    BY DEF ReadsFit
  <1> QED
    BY <1>1 DEF ReadFits, SameJob, Goods!PutsOn

LEMMA AllReadsFit ==
    ASSUME ReadsFit,
           \A k \in jobs' : \E j \in jobs : SameJob(k, j) /\ (Goods!PutsOn(j) => k.late
                                              \/ Goods!Sale(row'[j.of]) = Goods!Sale(row[j.of]))
    PROVE  ReadsFit'
  BY OldReadsFit DEF ReadsFit

\* Nothing is written.
LEMMA SaleReads ==
    ASSUME SaleInv, ShelfInv, Goods!Untouched, \A j \in jobs' : j \in jobs \/ ReadFits(j)
    PROVE  SaleInv'
  <1>1. row' = row /\ shown' = shown
    BY DEF Goods!Untouched
  <1>2. ReadsFit'
    BY <1>1 DEF SaleInv, ReadsFit, ReadFits
  <1> QED
    BY <1>1, <1>2 DEF SaleInv, ShownTypes, Goods!ChangesAreReviewed

\* What is on sale after a write, when sold is what was put there.
LEMMA SaleWrites ==
    ASSUME row' \in [Products -> Goods!Row], ReadsFit', NEW sold,
           shown' = [p \in Products |-> IF row'[p].status = "on" THEN sold[p] ELSE None],
           \A p \in Products : row'[p].status = "on" => sold[p] \in {Goods!Sale(row'[p]), None}
    PROVE  SaleInv'
  <1>1. \A p \in Products : row'[p].status = "on" => shown'[p] \in {Goods!Sale(row'[p]), None}
    OBVIOUS
  <1>2. \A p \in Products : shown'[p] \in Goods!Sold \cup {None}
    BY Sales
  <1> QED
    BY <1>1, <1>2 DEF SaleInv, ShownTypes, Goods!ChangesAreReviewed

LEMMA SaleReadsKeep ==
    ASSUME SaleInv, ShelfInv,
           \/ \E p \in Products : Goods!OpenForm(p) \/ Goods!StatusReads(p) \/ Goods!ImportStarts(p)
           \/ \E f \in forms : Goods!CloseForm(f) \/ Goods!SaveReads(f)
           \/ \E j \in jobs : Goods!Drop(j)
           \/ \E f \in files : Goods!RowReads(f) \/ Goods!ImportEnds(f)
    PROVE  SaleInv'
  <1>1. CASE \/ \E p \in Products : Goods!OpenForm(p) \/ Goods!ImportStarts(p)
             \/ \E f \in forms : Goods!CloseForm(f)
             \/ \E j \in jobs : Goods!Drop(j)
             \/ \E f \in files : Goods!RowReads(f) \/ Goods!ImportEnds(f)
    <2>1. Goods!Untouched /\ jobs' \subseteq jobs
      BY <1>1 DEF Goods!OpenForm, Goods!ImportStarts, Goods!CloseForm, Goods!Drop, Goods!RowReads,
                  Goods!ImportEnds, Goods!Untouched
    <2> QED
      BY <2>1, SaleReads
  <1>2. ASSUME NEW f \in forms, Goods!SaveReads(f) PROVE SaleInv'
    <2>1. Goods!Untouched /\ \A j \in jobs' : j \in jobs \/ j.what = "save"
      BY <1>2 DEF Goods!SaveReads, Goods!Start
    <2> QED
      BY <2>1, SaleReads DEF ReadFits, Goods!PutsOn
  <1>3. ASSUME NEW p \in Products, Goods!StatusReads(p) PROVE SaleInv'
    <2>1. Goods!Untouched
      BY <1>3 DEF Goods!StatusReads
    <2>2. PICK to \in {"on", "off"} : Goods!Switch(p, to)
      <3>1. \/ \E to \in {"on", "off"} : Goods!Switch(p, to)
            \/ \E pass \in BOOLEAN : Goods!Switch(p, IF pass /\ row[p].stock > 0 THEN "on" ELSE "off")
        BY <1>3 DEF Goods!StatusReads, Goods!UpdateStatusReads, Goods!AdminUpdateStatusReads,
                    Goods!AdminAuditReads
      <3> QED
        BY <3>1
    <2> DEFINE j == [id |-> Goods!NewId(jobs), what |-> "status", of |-> p, arg |-> to, form |-> None,
                     read |-> IF to = "on" THEN Goods!Sale(row[p]) ELSE None, late |-> FALSE]
    <2>3. jobs' = jobs \cup {j}
      BY <2>2 DEF Goods!Switch, Goods!Start
    <2>4. Goods!Sale(row[p]) \in Goods!Sold
      BY Sales DEF ShelfInv, RowTypes
    <2>5. ReadFits(j)
      BY <2>4 DEF ReadFits, Goods!PutsOn
    <2> HIDE DEF j
    <2> QED
      BY <2>1, <2>3, <2>5, SaleReads
  <1> QED
    BY <1>1, <1>2, <1>3

\* What an edit writes is not on sale, and what it is going to be there was overtaken.
LEMMA SaleEdits ==
    ASSUME SaleInv, ShelfInv, NEW p \in Products, NEW read \in Goods!Statuses, NEW i \in Goods!Input,
           row' = [row EXCEPT ![p] = Goods!Updated(read, i)],
           NEW js \in SUBSET jobs, jobs' = Goods!Overtaken(js, {p}), Goods!Shows(shown)
    PROVE  SaleInv'
  <1>1. Goods!Updated(read, i) \in Goods!Row /\ Goods!Updated(read, i).status # "on"
    BY UpdatedRow
  <1>2. /\ row' \in [Products -> Goods!Row] /\ row'[p].status # "on"
        /\ \A q \in Products : q # p => row'[q] = row[q]
    BY <1>1 DEF ShelfInv, RowTypes
  <1>3. \A j \in js : JobType(j) /\ j.of \in Products
    BY DEF ShelfInv, JobsFit, SaveFits, StatusFits
  <1>4. \A k \in jobs' : \E j \in js : SameJob(k, j) /\ (j.of \in {p} /\ Goods!PutsOn(j) => k.late)
    BY <1>3, OvertakenJobs
  <1>5. ReadsFit'
    BY <1>2, <1>3, <1>4, AllReadsFit DEF SaleInv
  <1>6. PICK sold : /\ sold = shown
                    /\ shown' = [q \in Products |-> IF row'[q].status = "on" THEN sold[q] ELSE None]
    BY DEF Goods!Shows
  <1>7. \A q \in Products : row'[q].status = "on" => sold[q] \in {Goods!Sale(row'[q]), None}
    BY <1>2, <1>6 DEF SaleInv, Goods!ChangesAreReviewed
  <1> QED
    BY <1>2, <1>5, <1>6, <1>7, SaleWrites

\* What is written of a product leaves it on sale as it was, or takes it off.
LEMMA SaleStays ==
    ASSUME SaleInv, ShelfInv, ShelfInv', jobs' \subseteq jobs, Goods!Shows(shown),
           \A q \in Products : /\ Goods!Sale(row'[q]) = Goods!Sale(row[q])
                               /\ row'[q].status = "on" => row[q].status = "on"
    PROVE  SaleInv'
  <1>1. \A j \in jobs : SameJob(j, j) /\ j.of \in Products
    BY DEF ShelfInv, JobsFit, SaveFits, StatusFits, SameJob
  <1>2. ReadsFit'
    <2>1. \A k \in jobs' : /\ k \in jobs /\ SameJob(k, k)
                           /\ Goods!Sale(row'[k.of]) = Goods!Sale(row[k.of])
      BY <1>1
    <2>2. ReadsFit
      BY DEF SaleInv
    <2> QED
      BY <2>1, <2>2, AllReadsFit
  <1>3. PICK sold : /\ sold = shown
                    /\ shown' = [q \in Products |-> IF row'[q].status = "on" THEN sold[q] ELSE None]
    BY DEF Goods!Shows
  <1>4. \A q \in Products : row'[q].status = "on" => sold[q] \in {Goods!Sale(row'[q]), None}
    <2> SUFFICES ASSUME NEW q \in Products, row'[q].status = "on"
                 PROVE  sold[q] \in {Goods!Sale(row'[q]), None}
      OBVIOUS
    <2>1. row[q].status = "on" /\ Goods!Sale(row'[q]) = Goods!Sale(row[q])
      OBVIOUS
    <2>2. shown[q] \in {Goods!Sale(row[q]), None}
      BY <2>1 DEF SaleInv, Goods!ChangesAreReviewed
    <2> QED
      BY <1>3, <2>1, <2>2
  <1> QED
    BY <1>2, <1>3, <1>4, SaleWrites DEF ShelfInv, RowTypes

\* A handler puts on sale what it read, when it was not overtaken.
LEMMA SaleSwitches ==
    ASSUME SaleInv, ShelfInv, ShelfInv', NEW j \in jobs, Goods!StatusWrites(j) PROVE SaleInv'
  <1> DEFINE p == j.of
  <1>1. StatusFits(j) /\ p \in Products
    BY DEF ShelfInv, JobsFit, SaveFits, StatusFits, Goods!StatusWrites
  <1>2. row[p] \in Goods!Row /\ row' = [row EXCEPT ![p] = [row[p] EXCEPT !.status = j.arg]]
    BY <1>1 DEF ShelfInv, RowTypes, Goods!StatusWrites, Goods!Put
  <1>3. /\ row'[p].status = j.arg /\ \A q \in Products : q # p => row'[q] = row[q]
        /\ \A q \in Products : Goods!Sale(row'[q]) = Goods!Sale(row[q])
    BY <1>1, <1>2 DEF ShelfInv, RowTypes, Goods!Row, Goods!Sale
  <1>4. \A k \in jobs : SameJob(k, k) /\ k.of \in Products
    BY DEF ShelfInv, JobsFit, SaveFits, StatusFits, SameJob
  <1>5. ReadsFit'
    BY <1>3, <1>4, AllReadsFit DEF SaleInv, Goods!StatusWrites
  <1> PICK sold : sold = [shown EXCEPT ![p] = IF j.late THEN None ELSE j.read]
    OBVIOUS
  <1>6. shown' = [q \in Products |-> IF row'[q].status = "on" THEN sold[q] ELSE None]
    BY DEF Goods!StatusWrites, Goods!Shows
  <1>7. sold[p] = (IF j.late THEN None ELSE j.read) /\ \A q \in Products : q # p => sold[q] = shown[q]
    BY <1>1 DEF SaleInv, ShownTypes
  <1>8. j.arg = "on" => j.late \/ j.read = Goods!Sale(row[p])
    BY <1>1 DEF SaleInv, ReadsFit, ReadFits, Goods!PutsOn, StatusFits
  <1>9. \A q \in Products : row'[q].status = "on" => sold[q] \in {Goods!Sale(row'[q]), None}
    BY <1>1, <1>3, <1>7, <1>8 DEF SaleInv, Goods!ChangesAreReviewed
  <1> HIDE DEF p
  <1> QED
    BY <1>5, <1>6, <1>9, SaleWrites DEF ShelfInv, RowTypes

\* A new product is not on sale, and nobody has read it.
LEMMA SaleCreates ==
    ASSUME SaleInv, ShelfInv, ShelfInv', NEW p \in Products, NEW i \in Goods!Input, Goods!Create(p, i),
           jobs' = jobs
    PROVE  SaleInv'
  <1>1. /\ row[p].status = "none" /\ row' = [row EXCEPT ![p] = Goods!NewRow(i)] /\ shown' = shown
    BY DEF Goods!Create, Goods!Put
  <1>2. row'[p].status = "pending" /\ \A q \in Products : q # p => row'[q] = row[q]
    BY <1>1 DEF ShelfInv, RowTypes, Goods!NewRow
  <1>3. \A j \in jobs : SameJob(j, j) /\ j.of \in Products /\ (Goods!PutsOn(j) => j.of # p)
    BY <1>1 DEF ShelfInv, JobsFit, SaveFits, StatusFits, SameJob, Goods!PutsOn
  <1>4. ReadsFit'
    BY <1>2, <1>3, AllReadsFit DEF SaleInv
  <1> QED
    BY <1>1, <1>2, <1>4 DEF SaleInv, ShownTypes, Goods!ChangesAreReviewed

\* What is on sale gets its new price, and what it is going to be there was overtaken.
LEMMA SalePrices ==
    ASSUME SaleInv, ShelfInv, ShelfInv', NEW S \in SUBSET Products, Goods!BatchUpdatePrice(S)
    PROVE  SaleInv'
  <1>1. PICK new \in [S -> Prices] :
          /\ row' = [p \in Products |-> IF p \in S THEN [row[p] EXCEPT !.price = new[p]] ELSE row[p]]
          /\ Goods!Shows([p \in Products |-> IF p \in S /\ shown[p] # None
                                             THEN [shown[p] EXCEPT !.price = new[p]] ELSE shown[p]])
    BY DEF Goods!BatchUpdatePrice
  <1>2. jobs' = Goods!Overtaken(jobs, S)
    BY DEF Goods!BatchUpdatePrice
  <1>3. \A p \in Products : p \notin S => row'[p] = row[p]
    BY <1>1
  <1>4. \A p \in S : /\ row'[p].status = row[p].status
                     /\ Goods!Sale(row'[p]) = [content |-> row[p].content, price |-> new[p]]
    BY <1>1 DEF ShelfInv, RowTypes, Goods!Row, Goods!Sale
  <1>5. \A j \in jobs : JobType(j) /\ j.of \in Products
    BY DEF ShelfInv, JobsFit, SaveFits, StatusFits
  <1>6. \A k \in jobs' : \E j \in jobs : SameJob(k, j) /\ (j.of \in S /\ Goods!PutsOn(j) => k.late)
    BY <1>2, <1>5, OvertakenJobs
  <1>7. ReadsFit'
    BY <1>3, <1>5, <1>6, AllReadsFit DEF SaleInv
  <1> PICK sold : sold = [p \in Products |-> IF p \in S /\ shown[p] # None
                                            THEN [shown[p] EXCEPT !.price = new[p]] ELSE shown[p]]
    OBVIOUS
  <1>8. shown' = [q \in Products |-> IF row'[q].status = "on" THEN sold[q] ELSE None]
    BY <1>1 DEF Goods!Shows
  <1>9. ASSUME NEW p \in S, row[p].status = "on", shown[p] # None
        PROVE  [shown[p] EXCEPT !.price = new[p]] = [content |-> row[p].content, price |-> new[p]]
    <2>1. shown[p] = Goods!Sale(row[p])
      BY <1>9 DEF SaleInv, Goods!ChangesAreReviewed
    <2> QED
      BY <2>1 DEF Goods!Sale
  <1>10. \A p \in Products : row'[p].status = "on" => sold[p] \in {Goods!Sale(row'[p]), None}
    <2> SUFFICES ASSUME NEW p \in Products, row'[p].status = "on"
                 PROVE  sold[p] \in {Goods!Sale(row'[p]), None}
      OBVIOUS
    <2>1. CASE p \in S
      BY <1>4, <1>8, <1>9, <2>1
    <2>2. CASE p \notin S
      BY <1>3, <1>8, <2>2 DEF SaleInv, Goods!ChangesAreReviewed
    <2> QED
      BY <2>1, <2>2
  <1> QED
    BY <1>7, <1>8, <1>10, SaleWrites DEF ShelfInv, RowTypes

\* No step puts on sale what was not decided on.
LEMMA SaleSteps == ASSUME SaleInv, ShelfInv, ShelfInv', Goods!Next PROVE SaleInv'
  <1>1. CASE \/ \E p \in Products : Goods!OpenForm(p) \/ Goods!StatusReads(p) \/ Goods!ImportStarts(p)
             \/ \E f \in forms : Goods!CloseForm(f) \/ Goods!SaveReads(f)
             \/ \E j \in jobs : Goods!Drop(j)
             \/ \E f \in files : Goods!RowReads(f) \/ Goods!ImportEnds(f)
    BY <1>1, SaleReadsKeep
  <1>2. ASSUME NEW j \in jobs, Goods!SaveWrites(j) PROVE SaleInv'
    <2>1. SaveFits(j)
      BY <1>2 DEF ShelfInv, JobsFit, StatusFits, Goods!SaveWrites
    <2>2. /\ row' = [row EXCEPT ![j.of] = Goods!Updated(j.read, j.arg)] /\ Goods!Shows(shown)
          /\ jobs' = Goods!Overtaken(jobs \ {j}, {j.of})
      BY <1>2 DEF Goods!SaveWrites, Goods!Put
    <2> QED
      BY <2>1, <2>2, SaleEdits DEF SaveFits
  <1>3. ASSUME NEW f \in files, Goods!RowWrites(f) PROVE SaleInv'
    <2>1. f.of \in Products /\ f.read \in Goods!Statuses /\ f.rows \in Seq(Goods!Input) /\ f.rows # <<>>
      BY <1>3 DEF ShelfInv, FilesFit, FileFits, Goods!RowWrites
    <2>2. Head(f.rows) \in Goods!Input
      BY <2>1
    <2>3. /\ row' = [row EXCEPT ![f.of] = Goods!Updated(f.read, Head(f.rows))] /\ Goods!Shows(shown)
          /\ jobs' = Goods!Overtaken(jobs, {f.of})
      BY <1>3 DEF Goods!RowWrites, Goods!Put
    <2> QED
      BY <2>1, <2>2, <2>3, SaleEdits
  <1>4. ASSUME NEW j \in jobs, Goods!StatusWrites(j) PROVE SaleInv'
    BY <1>4, SaleSwitches
  <1>5. ASSUME NEW p \in Products, Goods!CreateNew(p) PROVE SaleInv'
    BY <1>5, SaleCreates DEF Goods!CreateNew, Goods!work
  <1>6. ASSUME NEW f \in files, Goods!RowCreates(f) PROVE SaleInv'
    <2>1. f.of \in Products /\ f.rows \in Seq(Goods!Input)
      BY DEF ShelfInv, FilesFit, FileFits
    <2>2. f.rows # <<>> /\ Goods!Create(f.of, Head(f.rows)) /\ jobs' = jobs
      BY <1>6 DEF Goods!RowCreates
    <2>3. Head(f.rows) \in Goods!Input
      BY <2>1, <2>2
    <2> QED
      BY <2>1, <2>2, <2>3, SaleCreates
  <1>7. ASSUME NEW p \in Products, Goods!Moves(p) \/ Goods!Delete(p) PROVE SaleInv'
    <2>1. jobs' = jobs /\ Goods!Shows(shown)
      BY <1>7 DEF Goods!Moves, Goods!Delete, Goods!work
    <2>2. PICK r : /\ row' = [row EXCEPT ![p] = r] /\ Goods!Sale(r) = Goods!Sale(row[p])
                   /\ r.status = "on" => row[p].status = "on"
      <3>1. row[p] \in Goods!Row
        BY DEF ShelfInv, RowTypes
      <3>2. CASE Goods!Delete(p)
        <4> PICK r : r = [row[p] EXCEPT !.status = "gone"]
          OBVIOUS
        <4>1. r.status # "on" /\ r.content = row[p].content /\ r.price = row[p].price
          BY <3>1 DEF Goods!Row
        <4> QED
          BY <3>2, <4>1 DEF Goods!Delete, Goods!Put, Goods!Sale
      <3>3. CASE Goods!Moves(p)
        <4>1. PICK d \in {-1, 1} : Goods!Move(p, d) \/ Goods!AdjustStock(p, d)
          BY <3>3 DEF Goods!Moves
        <4>2. CASE Goods!Move(p, d)
          <5> PICK r : r = [row[p] EXCEPT !.stock = @ + d]
            OBVIOUS
          <5>1. r.status = row[p].status /\ r.content = row[p].content /\ r.price = row[p].price
            BY <3>1 DEF Goods!Row
          <5> QED
            BY <4>2, <5>1 DEF Goods!Move, Goods!Put, Goods!Sale
        <4>3. CASE Goods!AdjustStock(p, d)
          <5> PICK to : to = IF row[p].stock + d = 0 /\ row[p].status = "on" THEN "off" ELSE row[p].status
            OBVIOUS
          <5> PICK r : r = [status |-> to, content |-> row[p].content, price |-> row[p].price,
                            stock |-> row[p].stock + d]
            OBVIOUS
          <5>1. r.status = to /\ r.content = row[p].content /\ r.price = row[p].price
            OBVIOUS
          <5>2. row' = [row EXCEPT ![p] = r]
            BY <4>3 DEF Goods!AdjustStock, Goods!Put
          <5> QED
            BY <5>1, <5>2 DEF Goods!Sale
        <4> QED
          BY <4>1, <4>2, <4>3
      <3> QED
        BY <1>7, <3>2, <3>3
    <2>3. \A q \in Products : /\ Goods!Sale(row'[q]) = Goods!Sale(row[q])
                              /\ row'[q].status = "on" => row[q].status = "on"
      BY <2>2 DEF ShelfInv, RowTypes
    <2> QED
      BY <2>1, <2>3, SaleStays
  <1>8. ASSUME NEW S \in SUBSET Products, Goods!BatchUpdatePrice(S) PROVE SaleInv'
    BY <1>8, SalePrices
  <1> QED
    BY <1>1, <1>2, <1>3, <1>4, <1>5, <1>6, <1>7, <1>8 DEF Goods!Next
-----------------------------------------------------------------------------
(* The rows of products and of shops.                                      *)

RowsInv == /\ errand = "shelf" => ShelfInv /\ SaleInv
           /\ errand = "review" => ReviewInv

\* What is said of the rows holds at the start, and no step, of theirs or of any
\* page, breaks it.
THEOREM RowsInvariant == Spec => []RowsInv
  <1>1. Init => RowsInv
    <2>1. Init => (errand = "shelf" => Goods!Init) /\ (errand = "review" => Review!Init)
      BY DEF Init
    <2> QED
      BY <2>1, ShelfStarts, SaleStarts, ReviewStarts DEF RowsInv
  <1>2. RowsInv /\ [Next]_vars => RowsInv'
    <2> SUFFICES ASSUME RowsInv, [Next]_vars PROVE RowsInv'
      OBVIOUS
    <2>1. CASE Next
      <3>1. /\ errand' = errand /\ (errand = "shelf" => Goods!Next)
            /\ (errand = "review" => Review!Next)
        BY <2>1 DEF Next
      <3> QED
        BY <3>1, ShelfSteps, SaleSteps, ReviewSteps DEF RowsInv
    <2>2. CASE UNCHANGED vars
      <3>1. /\ errand' = errand /\ row' = row /\ forms' = forms /\ jobs' = jobs /\ files' = files
            /\ shown' = shown /\ goods' = goods
            /\ shop' = shop /\ saves' = saves /\ decided' = decided /\ missed' = missed
        BY <2>2 DEF vars, shelving, reviewing
      <3>2. ShelfInv => ShelfInv'
        BY <3>1, ReadsKeep DEF Goods!Untouched, ShelfInv, FormsFit
      <3>4. ShelfInv /\ SaleInv => SaleInv'
        BY <3>1, SaleReads DEF Goods!Untouched
      <3>3. ReviewInv => ReviewInv'
        BY <3>1 DEF ReviewInv, Review!TypeOK, Review!ChangesAreReviewed
      <3> QED
        BY <3>1, <3>2, <3>3, <3>4 DEF RowsInv
    <2> QED
      BY <2>1, <2>2
  <1> QED
    BY <1>1, <1>2, PTL DEF Spec

\* What is on sale is what the handler that put it there had read, at the price of
\* then or of a later BatchUpdatePrice, which nobody audits; and a shop that passed
\* has the content that the audit was about.  Two exceptions, which shown and missed
\* name: that handler was overtaken by an edit or a new price between its read and
\* its write, or the audit fell between the read and the write of an edit of the
\* shop (product_service.go, shop_service.go).
THEOREM ReviewedChanges == Spec => []ChangesAreReviewed
  <1>1. RowsInv => ChangesAreReviewed
    BY DEF RowsInv, SaleInv, ReviewInv, ChangesAreReviewed
  <1> QED
    BY <1>1, RowsInvariant, PTL

\* The stock of a row is what there is to sell, unless it moved under a form.
THEOREM StockCounts == Spec => []StockLedger
  <1>1. RowsInv => StockLedger
    <2>1. CASE errand = "shelf"
      BY <2>1 DEF RowsInv, ShelfInv, StockLedger
    <2>2. CASE errand # "shelf"
      BY <2>2 DEF StockLedger
    <2> QED
      BY <2>1, <2>2
  <1> QED
    BY <1>1, RowsInvariant, PTL

-----------------------------------------------------------------------------
(* The messages.                                                           *)

Message == Notified!Message
About(k) == Notified!About(k)
Contented(k) == {n.content : n \in About(k)}

Sync == [id : Nat, look : SUBSET Facts, write : {{}, Facts}, now : BOOLEAN,
         expected : [Facts -> Notified!Told], existing : [Facts -> Message \cup {None}]]

NoticesTyped ==
    /\ fact \in [Facts -> Notified!Told]
    /\ notices \subseteq Message /\ IsFiniteSet(notices)
    /\ \A m, n \in notices : m.id = n.id => m = n
    /\ syncs \subseteq Sync /\ IsFiniteSet(syncs)

\* A sync that still looks has read some facts, and no messages.
Looking(s) == \A k \in Facts : /\ s.existing[k] = None
                               /\ k \in s.look => s.expected[k] = None
                               /\ s.now /\ k \notin s.look => s.expected[k] = fact[k]

\* The message a sync remembers is still there and says what it said.
Kept(s, k) == \E n \in About(k) : n.id = s.existing[k].id /\ n.content = s.existing[k].content

\* What a sync has not dealt with yet is as it was read, and what it has dealt with
\* tells the fact, as long as no fact changed.
Writing(s) ==
    \A k \in Facts :
       /\ s.existing[k] # None => Kept(s, k)
       /\ s.existing[k] = None /\ s.expected[k] # None => About(k) = {}
       /\ s.now => \/ s.expected[k] # None /\ s.expected[k] = fact[k]
                   \/ s.expected[k] = None /\ s.existing[k] # None /\ fact[k] = None
                   \/ /\ s.expected[k] = None /\ s.existing[k] = None
                      /\ Contented(k) = {fact[k]} \ {None}

AtWork(s) == /\ s.look # {} => s.write = {}
             /\ s.write = {} => Looking(s)
             /\ s.write # {} => Writing(s)

OneEach == \A m, n \in notices : m.of = n.of => m = n
FactsTold == \A k \in Facts : Contented(k) = {fact[k]} \ {None}

\* While no two syncs cross.
Uncrossed == /\ \A s, t \in syncs : s = t
             /\ OneEach
             /\ \A s \in syncs : AtWork(s) /\ (synced => s.now)
             /\ synced => FactsTold

NoticesInv == NoticesTyped /\ (crossed \/ Uncrossed)

-----------------------------------------------------------------------------
LEMMA NoticesStart == Notified!Init => NoticesInv
  <1> SUFFICES ASSUME Notified!Init PROVE NoticesInv
    OBVIOUS
  <1>1. notices = {} /\ syncs = {} /\ synced = FALSE /\ fact \in [Facts -> Notified!Told]
    BY DEF Notified!Init
  <1>2. NoticesTyped
    BY <1>1, FS_EmptySet DEF NoticesTyped
  <1>3. Uncrossed
    BY <1>1 DEF Uncrossed, OneEach
  <1> QED
    BY <1>2, <1>3 DEF NoticesInv

LEMMA SameCardinality ==
    ASSUME NEW S PROVE Notified!Cardinality(S) = Cardinality(S) /\ Tree!Cardinality(S) = Cardinality(S)
  BY DEF Notified!Cardinality, Tree!Cardinality, Cardinality

\* An id that is handed out is new.
LEMMA NewIdIsNew ==
    ASSUME NEW ids, IsFiniteSet(ids)
    PROVE  Notified!NewId(ids) \in Nat /\ Notified!NewId(ids) \notin ids
  <1>1. Cardinality(ids) \in Nat
    BY FS_CardinalityType
  <1>2. \E i \in 1 .. (Cardinality(ids) + 1) : i \notin ids
    <2> SUFFICES ASSUME 1 .. (Cardinality(ids) + 1) \subseteq ids PROVE FALSE
      OBVIOUS
    <2>1. Cardinality(1 .. (Cardinality(ids) + 1)) = Cardinality(ids) + 1
      BY <1>1, FS_Interval
    <2>2. Cardinality(1 .. (Cardinality(ids) + 1)) <= Cardinality(ids)
      BY FS_Subset
    <2> QED
      BY <1>1, <2>1, <2>2
  <1>3. /\ Notified!NewId(ids) \in 1 .. (Cardinality(ids) + 1)
        /\ Notified!NewId(ids) \notin ids
    BY <1>2, SameCardinality, Zenon DEF Notified!NewId
  <1> QED
    BY <1>1, <1>3

LEMMA RecordIds ==
    ASSUME NEW S, IsFiniteSet(S)
    PROVE  IsFiniteSet({x.id : x \in S})
  <1> DEFINE f == [x \in S |-> x.id]
             T == {x.id : x \in S}
  <1>1. f \in Surjection(S, T)
    BY DEF Surjection
  <1> QED
    BY <1>1, FS_Surjection

LEMMA KnownIds ==
    ASSUME NoticesTyped
    PROVE  IsFiniteSet(Notified!Known) /\ \A n \in notices : n.id \in Notified!Known
  <1> DEFINE Of(s) == {s.existing[k].id : k \in {f \in Facts : s.existing[f] # None}}
             Ids == {Of(s) : s \in syncs}
  <1>1. \A s \in syncs : IsFiniteSet(Of(s))
    <2> TAKE s \in syncs
    <2> DEFINE S == {f \in Facts : s.existing[f] # None}
               f == [k \in S |-> s.existing[k].id]
    <2>1. IsFiniteSet(S)
      BY BackOfficeAssumption, FS_Subset
    <2>2. f \in Surjection(S, Of(s))
      BY DEF Surjection
    <2> HIDE DEF f, S
    <2> QED
      BY <2>1, <2>2, FS_Surjection
  <1>2. IsFiniteSet(Ids)
    <2> DEFINE f == [s \in syncs |-> Of(s)]
    <2> HIDE DEF Of
    <2>1. f \in Surjection(syncs, Ids)
      BY DEF Surjection
    <2> QED
      BY <2>1, FS_Surjection DEF NoticesTyped
  <1>3. Notified!Known = {n.id : n \in notices} \cup UNION Ids
    BY DEF Notified!Known
  <1> HIDE DEF Ids
  <1>4. IsFiniteSet(UNION Ids)
    BY <1>1, <1>2, FS_UNION DEF Ids
  <1>5. IsFiniteSet({n.id : n \in notices})
    BY RecordIds DEF NoticesTyped
  <1> QED
    BY <1>3, <1>4, <1>5, FS_Union

LEMMA SyncSteps ==
    ASSUME NoticesTyped, NEW s \in syncs, NEW t \in Sync, Notified!Step(s, t)
    PROVE  /\ syncs' \subseteq Sync /\ IsFiniteSet(syncs')
           /\ Uncrossed => syncs' = {t}
  <1>1. syncs' = (syncs \ {s}) \cup {t}
    BY DEF Notified!Step
  <1>2. IsFiniteSet(syncs \ {s})
    BY FS_RemoveElement DEF NoticesTyped
  <1>3. IsFiniteSet(syncs')
    BY <1>1, <1>2, FS_AddElement
  <1>4. Uncrossed => syncs' = {t}
    BY <1>1 DEF Uncrossed
  <1> QED
    BY <1>1, <1>3, <1>4 DEF NoticesTyped

\* Messages that are rewritten keep their ids and what they are about.
LEMMA Rewritten ==
    ASSUME NoticesTyped, NEW g \in [notices -> Message],
           \A n \in notices : g[n].id = n.id /\ g[n].of = n.of,
           notices' = {g[n] : n \in notices}
    PROVE  /\ notices' \subseteq Message /\ IsFiniteSet(notices')
           /\ \A m, n \in notices' : m.id = n.id => m = n
           /\ OneEach => OneEach'
           /\ \A k : About(k)' = {g[n] : n \in About(k)}
  <1>1. g \in Surjection(notices, notices')
    BY DEF Surjection
  <1>2. IsFiniteSet(notices')
    BY <1>1, FS_Surjection DEF NoticesTyped
  <1>3. \A k : About(k)' = {g[n] : n \in About(k)}
    BY DEF About, Notified!About
  <1> QED
    BY <1>2, <1>3 DEF NoticesTyped, OneEach
-----------------------------------------------------------------------------
LEMMA StartKeeps == ASSUME NoticesInv, Notified!Start PROVE NoticesInv'
  <1>1. PICK s : s = [id |-> Notified!NewId({x.id : x \in syncs}), look |-> Facts, write |-> {},
                      now |-> TRUE, expected |-> [k \in Facts |-> None],
                      existing |-> [k \in Facts |-> None]]
    OBVIOUS
  <1>2. /\ syncs' = syncs \cup {s} /\ crossed' = (crossed \/ syncs # {})
        /\ fact' = fact /\ notices' = notices /\ synced' = synced
    BY <1>1 DEF Notified!Start
  <1>3. s \in Sync
    <2>1. Notified!NewId({x.id : x \in syncs}) \in Nat
      BY RecordIds, NewIdIsNew DEF NoticesInv, NoticesTyped
    <2> QED
      BY <1>1, <2>1 DEF Sync, Notified!Told
  <1>4. AtWork(s)' /\ s.now
    BY <1>1 DEF Looking, AtWork
  <1>5. NoticesTyped'
    BY <1>2, <1>3, FS_AddElement DEF NoticesInv, NoticesTyped
  <1>6. ASSUME ~crossed' PROVE Uncrossed'
    <2>1. syncs = {} /\ Uncrossed
      BY <1>2, <1>6 DEF NoticesInv
    <2>2. syncs' = {s} /\ OneEach' /\ (synced' => FactsTold')
      BY <1>2, <2>1 DEF Uncrossed, OneEach, FactsTold, Contented, About, Notified!About
    <2> QED
      BY <1>4, <2>2 DEF Uncrossed
  <1> QED
    BY <1>5, <1>6 DEF NoticesInv

\* A step of one sync that leaves the messages and the facts alone.
LEMMA SyncKeeps ==
    ASSUME NoticesInv, NEW s \in syncs, NEW t \in Sync, Notified!Step(s, t),
           UNCHANGED <<fact, notices, synced, crossed>>,
           t.now = s.now, AtWork(s) => AtWork(t)
    PROVE  NoticesInv'
  <1>1. NoticesTyped'
    BY SyncSteps DEF NoticesInv, NoticesTyped
  <1>2. ASSUME Uncrossed PROVE Uncrossed'
    <2>1. syncs' = {t}
      BY <1>2, SyncSteps DEF NoticesInv
    <2>2. AtWork(t) /\ (synced => t.now)
      BY <1>2 DEF Uncrossed
    <2>3. AtWork(t)'
      BY <2>2 DEF AtWork, Looking, Writing, Kept, Contented, About, Notified!About
    <2>4. OneEach' /\ (synced' => FactsTold')
      BY <1>2 DEF Uncrossed, OneEach, FactsTold, Contented, About, Notified!About
    <2> QED
      BY <2>1, <2>2, <2>3, <2>4 DEF Uncrossed
  <1> QED
    BY <1>1, <1>2 DEF NoticesInv

LEMMA LookKeeps ==
    ASSUME NoticesInv, NEW s \in syncs, NEW k \in Facts, Notified!Look(s, k) PROVE NoticesInv'
  <1>1. PICK t : t = [s EXCEPT !.look = @ \ {k}, !.expected[k] = fact[k]]
    OBVIOUS
  <1>2. s \in Sync /\ fact[k] \in Notified!Told /\ k \in s.look
    BY DEF NoticesInv, NoticesTyped, Notified!Look
  <1>3. t \in Sync /\ t.now = s.now /\ t.write = s.write /\ t.existing = s.existing
        /\ t.look = s.look \ {k} /\ t.expected = [s.expected EXCEPT ![k] = fact[k]]
    BY <1>1, <1>2 DEF Sync
  <1>4. AtWork(s) => AtWork(t)
    BY <1>2, <1>3 DEF AtWork, Looking, Sync
  <1> QED
    BY <1>1, <1>3, <1>4, SyncKeeps DEF Notified!Look

LEMMA ListKeeps ==
    ASSUME NoticesInv, NEW s \in syncs, Notified!ListGenerated(s) PROVE NoticesInv'
  <1>1. PICK e \in [Facts -> notices \cup {None}] :
              /\ \A k \in Facts : e[k] \in Notified!OneOf(k)
              /\ Notified!Step(s, [s EXCEPT !.write = Facts, !.existing = e])
    BY DEF Notified!ListGenerated
  <1>2. PICK t : t = [s EXCEPT !.write = Facts, !.existing = e]
    OBVIOUS
  <1>3. s \in Sync /\ s.look = {} /\ s.write = {} /\ notices \subseteq Message
    BY DEF NoticesInv, NoticesTyped, Notified!ListGenerated
  <1>4. e \in [Facts -> Message \cup {None}]
    BY <1>3
  <1>5. t \in Sync /\ t.now = s.now /\ t.look = s.look /\ t.write = Facts /\ t.existing = e
        /\ t.expected = s.expected
    BY <1>2, <1>3, <1>4 DEF Sync
  <1>6. ASSUME Looking(s), NEW k \in Facts
        PROVE  /\ e[k] # None => Kept(t, k)
               /\ e[k] = None => About(k) = {}
               /\ s.now => s.expected[k] = fact[k]
    <2>1. /\ About(k) = {} => e[k] = None
          /\ About(k) # {} => e[k] \in About(k)
      BY <1>1 DEF Notified!OneOf, About
    <2>2. None \notin About(k)
      BY <1>3, NoneAssumption DEF About, Notified!About, Message
    <2>3. s.now => s.expected[k] = fact[k]
      BY <1>3, <1>6 DEF Looking
    <2> QED
      BY <1>5, <2>1, <2>2, <2>3 DEF Kept
  <1>7. ASSUME Looking(s) PROVE Writing(t)
    <2>1. ASSUME NEW k \in Facts, e[k] = None PROVE Contented(k) = {}
      BY <1>6, <1>7, <2>1 DEF Contented
    <2> QED
      BY <1>5, <1>6, <1>7, <2>1 DEF Writing
  <1>8. Facts = {} => Looking(t)
    BY DEF Looking
  <1>9. AtWork(s) => AtWork(t)
    BY <1>3, <1>5, <1>7, <1>8 DEF AtWork
  <1> QED
    BY <1>1, <1>2, <1>5, <1>9, SyncKeeps DEF Notified!ListGenerated

LEMMA FailKeeps ==
    ASSUME NoticesInv, NEW s \in syncs, Notified!Fail(s) PROVE NoticesInv'
  <1>1. /\ syncs' = syncs \ {s}
        /\ fact' = fact /\ notices' = notices /\ synced' = synced /\ crossed' = crossed
    BY DEF Notified!Fail
  <1>2. NoticesTyped'
    BY <1>1, FS_RemoveElement DEF NoticesInv, NoticesTyped
  <1>3. ASSUME Uncrossed PROVE Uncrossed'
    <2>1. syncs' = {}
      BY <1>1, <1>3 DEF Uncrossed
    <2> QED
      BY <1>1, <1>3, <2>1
      DEF Uncrossed, OneEach, FactsTold, Contented, About, Notified!About
  <1> QED
    BY <1>1, <1>2, <1>3 DEF NoticesInv

LEMMA FinishKeeps ==
    ASSUME NoticesInv, NEW s \in syncs, Notified!Finish(s) PROVE NoticesInv'
  <1>1. /\ s.write = Facts /\ \A k \in Facts : s.expected[k] = None
        /\ notices' = {n \in notices : n.id \notin Notified!Stale(s)}
        /\ syncs' = syncs \ {s} /\ synced' = (synced \/ s.now)
        /\ fact' = fact /\ crossed' = crossed
    BY DEF Notified!Finish
  <1>2. NoticesTyped'
    BY <1>1, FS_RemoveElement, FS_Subset DEF NoticesInv, NoticesTyped
  <1>3. ASSUME Uncrossed PROVE Uncrossed'
    <2>1. syncs' = {} /\ OneEach' /\ AtWork(s) /\ (synced => s.now)
      BY <1>1, <1>3 DEF Uncrossed, OneEach
    <2>2. ASSUME s.now, NEW k \in Facts PROVE Contented(k)' = {fact[k]} \ {None}
      <3>1. Writing(s)
        BY <1>1, <2>1 DEF AtWork
      <3>2. About(k)' = {n \in About(k) : n.id \notin Notified!Stale(s)}
        BY <1>1 DEF About, Notified!About
      <3>3. CASE s.existing[k] # None
        <4>1. fact[k] = None
          BY <1>1, <2>2, <3>1, <3>3 DEF Writing
        <4>2. PICK n \in About(k) : n.id = s.existing[k].id
          BY <3>1, <3>3 DEF Writing, Kept
        <4>3. n.id \in Notified!Stale(s)
          BY <3>3, <4>2 DEF Notified!Stale
        <4>4. \A m \in About(k) : m = n
          BY <1>3, <4>2 DEF Uncrossed, OneEach, About, Notified!About
        <4>5. About(k)' = {}
          BY <3>2, <4>3, <4>4
        <4> QED
          BY <4>1, <4>5 DEF Contented
      <3>4. CASE s.existing[k] = None
        <4>1. Contented(k) = {fact[k]} \ {None}
          BY <1>1, <2>2, <3>1, <3>4 DEF Writing
        <4>2. ASSUME NEW n \in About(k), n.id \in Notified!Stale(s) PROVE FALSE
          <5>1. PICK j \in Facts : s.existing[j] # None /\ n.id = s.existing[j].id
            BY <4>2 DEF Notified!Stale
          <5>2. PICK m \in About(j) : m.id = n.id
            BY <3>1, <5>1 DEF Writing, Kept
          <5>3. m = n /\ m.of = j /\ n.of = k
            BY <5>2 DEF About, Notified!About, NoticesInv, NoticesTyped
          <5> QED
            BY <3>4, <5>1, <5>3
        <4>3. About(k)' = About(k)
          BY <3>2, <4>2
        <4> QED
          BY <4>1, <4>3 DEF Contented
      <3> QED
        BY <3>3, <3>4
    <2>3. synced' => FactsTold'
      BY <1>1, <2>1, <2>2 DEF FactsTold
    <2> QED
      BY <2>1, <2>3 DEF Uncrossed
  <1> QED
    BY <1>1, <1>2, <1>3 DEF NoticesInv

LEMMA FactChangesKeeps ==
    ASSUME NoticesInv, NEW k \in Facts, Notified!FactChanges(k) PROVE NoticesInv'
  <1>1. PICK v \in Notified!Told : fact' = [fact EXCEPT ![k] = v]
    BY DEF Notified!FactChanges
  <1>2. /\ syncs' = {[s EXCEPT !.now = FALSE] : s \in syncs} /\ synced' = FALSE
        /\ notices' = notices /\ crossed' = crossed
    BY DEF Notified!FactChanges
  <1>3. \A s \in syncs : s \in Sync
    BY DEF NoticesInv, NoticesTyped
  <1>4. PICK g : g = [s \in syncs |-> [s EXCEPT !.now = FALSE]]
    OBVIOUS
  <1>5. \A s \in syncs : /\ g[s] \in Sync /\ g[s].now = FALSE /\ g[s].look = s.look /\ g[s].write = s.write
                         /\ g[s].expected = s.expected /\ g[s].existing = s.existing
    BY <1>3, <1>4 DEF Sync
  <1>6. syncs' = {g[s] : s \in syncs} /\ g \in Surjection(syncs, syncs')
    BY <1>2, <1>4 DEF Surjection
  <1>7. NoticesTyped'
    <2>1. IsFiniteSet(syncs')
      BY <1>6, FS_Surjection DEF NoticesInv, NoticesTyped
    <2>2. fact' \in [Facts -> Notified!Told]
      BY <1>1 DEF NoticesInv, NoticesTyped
    <2> QED
      BY <1>2, <1>5, <1>6, <2>1, <2>2 DEF NoticesInv, NoticesTyped
  <1>8. ASSUME Uncrossed PROVE Uncrossed'
    <2>1. \A s, t \in syncs' : s = t
      BY <1>6, <1>8 DEF Uncrossed
    <2>2. ASSUME NEW s \in syncs PROVE AtWork(g[s])'
      <3>1. AtWork(s)
        BY <1>8 DEF Uncrossed
      <3>2. PICK t : t = g[s]
        OBVIOUS
      <3>3. /\ t.now = FALSE /\ t.look = s.look /\ t.write = s.write
            /\ t.expected = s.expected /\ t.existing = s.existing
        BY <1>5, <3>2
      <3>4. \A j : About(j)' = About(j)
        BY <1>2 DEF About, Notified!About
      <3>5. AtWork(t)'
        BY <3>1, <3>3, <3>4 DEF AtWork, Looking, Writing, Kept
      <3> QED
        BY <1>4, <3>2, <3>5
    <2>3. OneEach'
      BY <1>2, <1>8 DEF Uncrossed, OneEach
    <2> QED
      BY <1>2, <1>6, <2>1, <2>2, <2>3 DEF Uncrossed
  <1> QED
    BY <1>2, <1>7, <1>8 DEF NoticesInv

LEMMA ReadKeeps ==
    ASSUME NoticesInv, NEW S,
           notices' = {IF n \in S THEN [n EXCEPT !.read = TRUE] ELSE n : n \in notices},
           UNCHANGED <<fact, syncs, synced, crossed>>
    PROVE  NoticesInv'
  <1>1. PICK g : g = [n \in notices |-> IF n \in S THEN [n EXCEPT !.read = TRUE] ELSE n]
    OBVIOUS
  <1>2. notices' = {g[n] : n \in notices}
    BY <1>1
  <1>3. \A n \in notices : /\ g[n] \in Message /\ g[n].id = n.id /\ g[n].of = n.of
                           /\ g[n].content = n.content
    BY <1>1 DEF NoticesInv, NoticesTyped, Message, Notified!Message
  <1>4. g \in [notices -> Message]
    BY <1>1, <1>3
  <1>5. NoticesTyped' /\ (OneEach => OneEach') /\ \A k : About(k)' = {g[n] : n \in About(k)}
    BY <1>2, <1>3, <1>4, Rewritten DEF NoticesInv, NoticesTyped
  <1>6. \A k : \A n \in About(k) : n \in notices
    BY DEF About, Notified!About
  <1>7. \A k : Contented(k)' = Contented(k)
    BY <1>3, <1>5, <1>6 DEF Contented
  <1>8. ASSUME NEW s \in syncs, AtWork(s) PROVE AtWork(s)'
    <2>1. ASSUME NEW k \in Facts, Kept(s, k) PROVE Kept(s, k)'
      BY <1>3, <1>5, <1>6, <2>1 DEF Kept
    <2>2. ASSUME NEW k \in Facts, About(k) = {} PROVE About(k)' = {}
      BY <1>5, <2>2
    <2>3. Looking(s) => Looking(s)'
      BY DEF Looking
    <2>4. Writing(s) => Writing(s)'
      BY <1>7, <2>1, <2>2 DEF Writing
    <2> QED
      BY <1>8, <2>3, <2>4 DEF AtWork
  <1>9. Uncrossed => Uncrossed'
    BY <1>5, <1>7, <1>8 DEF Uncrossed, FactsTold
  <1> QED
    BY <1>5, <1>9 DEF NoticesInv

LEMMA MarkKeeps ==
    ASSUME NoticesInv,
           Notified!MarkAllRead \/ \E n \in notices : Notified!MarkRead(n)
    PROVE  NoticesInv'
  <1>1. CASE Notified!MarkAllRead
    <2>1. notices' = {IF n \in notices THEN [n EXCEPT !.read = TRUE] ELSE n : n \in notices}
      BY <1>1 DEF Notified!MarkAllRead
    <2> QED
      BY <1>1, <2>1, ReadKeeps DEF Notified!MarkAllRead
  <1>2. ASSUME NEW m \in notices, Notified!MarkRead(m) PROVE NoticesInv'
    <2>1. notices' = {IF n \in {m} THEN [n EXCEPT !.read = TRUE] ELSE n : n \in notices}
      BY <1>2 DEF Notified!MarkRead
    <2> QED
      BY <1>2, <2>1, ReadKeeps DEF Notified!MarkRead
  <1> QED
    BY <1>1, <1>2

\* What a sync writes: the messages about other facts are as before, and of this
\* one there is one message, with the expected content.
WritesOne(k, v) ==
    /\ notices' \subseteq Message /\ IsFiniteSet(notices')
    /\ \A m, n \in notices' : m.id = n.id => m = n
    /\ Uncrossed => /\ OneEach' /\ Contented(k)' = {v}
                    /\ \A j \in Facts \ {k} : About(j)' = About(j)

LEMMA InsertWrites ==
    ASSUME NoticesInv, NEW k \in Facts, NEW v \in Contents,
           Uncrossed => About(k) = {},
           notices' = notices \cup {Notified!Fresh(k, v)}
    PROVE  WritesOne(k, v)
  <1>1. PICK n : n = Notified!Fresh(k, v)
    OBVIOUS
  <1>2. n \in Message /\ n.of = k /\ n.content = v /\ \A m \in notices : m.id # n.id
    BY <1>1, KnownIds, NewIdIsNew DEF NoticesInv, Notified!Fresh, Message, Notified!Message
  <1>3. notices' = notices \cup {n}
    BY <1>1
  <1>4. /\ notices' \subseteq Message /\ IsFiniteSet(notices')
        /\ \A m, x \in notices' : m.id = x.id => m = x
    BY <1>2, <1>3, FS_AddElement DEF NoticesInv, NoticesTyped
  <1>5. ASSUME Uncrossed
        PROVE  /\ OneEach' /\ Contented(k)' = {v}
               /\ \A j \in Facts \ {k} : About(j)' = About(j)
    <2>1. \A m \in notices : m.of # k
      BY <1>5 DEF About, Notified!About
    <2>2. About(k)' = {n}
      BY <1>2, <1>3, <2>1 DEF About, Notified!About
    <2>3. OneEach'
      BY <1>2, <1>3, <1>5, <2>1 DEF Uncrossed, OneEach
    <2>4. \A j \in Facts \ {k} : About(j)' = About(j)
      BY <1>2, <1>3 DEF About, Notified!About
    <2> QED
      BY <1>2, <2>2, <2>3, <2>4 DEF Contented
  <1> QED
    BY <1>4, <1>5 DEF WritesOne

LEMMA UpdateWrites ==
    ASSUME NoticesInv, NEW k \in Facts, NEW v \in Contents, NEW i,
           Uncrossed => \E n \in About(k) : n.id = i,
           notices' = {IF n.id = i THEN [n EXCEPT !.content = v, !.read = FALSE] ELSE n : n \in notices}
    PROVE  WritesOne(k, v)
  <1>1. PICK g : g = [n \in notices |->
                        IF n.id = i THEN [n EXCEPT !.content = v, !.read = FALSE] ELSE n]
    OBVIOUS
  <1>2. notices' = {g[n] : n \in notices}
    BY <1>1
  <1>3. \A n \in notices : /\ g[n] \in Message /\ g[n].id = n.id /\ g[n].of = n.of
                           /\ n.id = i => g[n].content = v
                           /\ n.id # i => g[n] = n
    BY <1>1 DEF NoticesInv, NoticesTyped, Message, Notified!Message
  <1>4. g \in [notices -> Message]
    BY <1>1, <1>3
  <1>5. /\ notices' \subseteq Message /\ IsFiniteSet(notices')
        /\ \A m, x \in notices' : m.id = x.id => m = x
        /\ OneEach => OneEach'
        /\ \A j : About(j)' = {g[n] : n \in About(j)}
    BY <1>2, <1>3, <1>4, Rewritten DEF NoticesInv
  <1>6. ASSUME Uncrossed
        PROVE  /\ OneEach' /\ Contented(k)' = {v}
               /\ \A j \in Facts \ {k} : About(j)' = About(j)
    <2>1. PICK n \in About(k) : n.id = i
      BY <1>6
    <2>2. \A j \in Facts : \A m \in About(j) : m \in notices /\ m.of = j
      BY DEF About, Notified!About
    <2>3. \A m \in notices : m.id = i => m = n
      BY <2>1, <2>2 DEF NoticesInv, NoticesTyped
    <2>4. About(k) = {n}
      <3>1. OneEach
        BY <1>6 DEF Uncrossed
      <3>2. ASSUME NEW m \in About(k) PROVE m = n
        <4>1. m \in notices /\ n \in notices /\ m.of = n.of
          BY <2>1, <2>2
        <4> QED
          BY <3>1, <4>1 DEF OneEach
      <3> QED
        BY <2>1, <3>2
    <2>5. About(k)' = {g[n]}
      <3>1. About(k)' = {g[m] : m \in About(k)}
        BY <1>5
      <3> QED
        BY <2>4, <3>1
    <2>6. ASSUME NEW j \in Facts \ {k} PROVE About(j)' = About(j)
      <3>1. ASSUME NEW m \in About(j) PROVE g[m] = m
        <4>1. m \in notices /\ m.of = j /\ n.of = k
          BY <2>1, <2>2
        <4> QED
          BY <1>3, <2>3, <4>1
      <3>2. About(j)' = {g[m] : m \in About(j)}
        BY <1>5
      <3>3. {g[m] : m \in About(j)} = About(j)
        <4> PICK A : A = About(j)
          OBVIOUS
        <4>1. \A m \in A : g[m] = m
          BY <3>1
        <4>2. {g[m] : m \in A} = A
          BY <4>1
        <4> QED
          BY <4>2
      <3> QED
        BY <3>2, <3>3
    <2>7. Contented(k)' = {v}
      <3>1. g[n].content = v
        BY <1>3, <2>1, <2>2
      <3>2. Contented(k)' = {x.content : x \in About(k)'}
        BY DEF Contented
      <3> QED
        BY <2>5, <3>1, <3>2
    <2> QED
      BY <1>5, <1>6, <2>6, <2>7 DEF Uncrossed
  <1> QED
    BY <1>5, <1>6 DEF WritesOne

LEMMA WriteKeepsNotices ==
    ASSUME NoticesInv, NEW s \in syncs, NEW k \in Facts, Notified!Write(s, k) PROVE NoticesInv'
  <1> DEFINE v == s.expected[k]
             i == s.existing[k].id
  <1>1. /\ k \in s.write /\ v # None /\ notices' = Notified!Written(s, k)
        /\ fact' = fact /\ synced' = synced /\ crossed' = crossed
    BY DEF Notified!Write
  <1>2. PICK t : t = [s EXCEPT !.expected[k] = None, !.existing[k] = None]
    OBVIOUS
  <1>3. s \in Sync /\ v \in Contents /\ Notified!Step(s, t)
    BY <1>1, <1>2 DEF NoticesInv, NoticesTyped, Sync, Notified!Told, Notified!Write
  <1>4. /\ t \in Sync /\ t.now = s.now /\ t.look = s.look /\ t.write = s.write
        /\ t.expected = [s.expected EXCEPT ![k] = None]
        /\ t.existing = [s.existing EXCEPT ![k] = None]
    BY <1>2, <1>3 DEF Sync, Notified!Told
  <1>5. ASSUME Uncrossed
        PROVE  /\ AtWork(s) /\ Writing(s) /\ (synced => s.now)
               /\ s.existing[k] = None => About(k) = {}
               /\ s.existing[k] # None => Kept(s, k)
               /\ s.now => v = fact[k]
    <2>1. AtWork(s) /\ (synced => s.now)
      BY <1>5 DEF Uncrossed
    <2>2. Writing(s)
      BY <1>1, <2>1 DEF AtWork
    <2> QED
      BY <1>1, <2>1, <2>2 DEF Writing
  <1>6. WritesOne(k, v)
    <2>1. CASE s.existing[k] = None
      <3>1. notices' = notices \cup {Notified!Fresh(k, v)}
        BY <1>1, <2>1 DEF Notified!Written
      <3> HIDE DEF v
      <3> QED
        BY <1>3, <1>5, <2>1, <3>1, InsertWrites
    <2>2. CASE s.existing[k] # None /\ s.existing[k].content = v
      <3>1. notices' = notices
        BY <1>1, <2>2 DEF Notified!Written
      <3>2. ASSUME Uncrossed PROVE Contented(k)' = {v}
        <4>1. PICK n \in About(k) : n.content = v
          BY <1>5, <2>2, <3>2 DEF Kept
        <4>2. \A m \in About(k) : m = n
          BY <3>2, <4>1 DEF Uncrossed, OneEach, About, Notified!About
        <4> QED
          BY <3>1, <4>1, <4>2 DEF Contented, About, Notified!About
      <3>3. ASSUME Uncrossed PROVE OneEach' /\ \A j \in Facts \ {k} : About(j)' = About(j)
        BY <3>1, <3>3 DEF Uncrossed, OneEach, About, Notified!About
      <3> QED
        BY <3>1, <3>2, <3>3 DEF WritesOne, NoticesInv, NoticesTyped
    <2>3. CASE s.existing[k] # None /\ s.existing[k].content # v
      <3>1. notices' = {IF n.id = i THEN [n EXCEPT !.content = v, !.read = FALSE] ELSE n :
                          n \in notices}
        BY <1>1, <2>3 DEF Notified!Written
      <3>2. Uncrossed => \E n \in About(k) : n.id = i
        BY <1>5, <2>3 DEF Kept
      <3> HIDE DEF v, i
      <3> QED
        BY <1>3, <3>1, <3>2, UpdateWrites
    <2> QED
      BY <2>1, <2>2, <2>3
  <1>7. NoticesTyped'
    BY <1>1, <1>3, <1>4, <1>6, SyncSteps DEF NoticesInv, NoticesTyped, WritesOne
  <1>8. ASSUME Uncrossed PROVE Uncrossed'
    <2>1. syncs' = {t} /\ OneEach' /\ Contented(k)' = {v}
      BY <1>3, <1>4, <1>6, <1>8, SyncSteps DEF NoticesInv, WritesOne
    <2>2. \A j \in Facts \ {k} : About(j)' = About(j)
      BY <1>6, <1>8 DEF WritesOne
    <2>3. \A j \in Facts \ {k} : Contented(j)' = Contented(j)
      BY <2>2 DEF Contented
    <2>4. /\ t.expected[k] = None /\ t.existing[k] = None
          /\ \A j \in Facts \ {k} : t.expected[j] = s.expected[j] /\ t.existing[j] = s.existing[j]
      BY <1>3, <1>4 DEF Sync
    <2>5. s.now => {v} = {fact[k]} \ {None}
      BY <1>1, <1>5, <1>8
    <2>6. Writing(t)'
      <3> SUFFICES ASSUME NEW j \in Facts
                   PROVE  /\ t.existing[j] # None => Kept(t, j)'
                          /\ t.existing[j] = None /\ t.expected[j] # None => About(j)' = {}
                          /\ t.now => \/ t.expected[j] # None /\ t.expected[j] = fact[j]
                                      \/ t.expected[j] = None /\ t.existing[j] # None /\ fact[j] = None
                                      \/ /\ t.expected[j] = None /\ t.existing[j] = None
                                         /\ Contented(j)' = {fact[j]} \ {None}
        BY <1>1 DEF Writing
      <3>1. CASE j = k
        BY <1>4, <2>1, <2>4, <2>5, <3>1
      <3>2. CASE j # k
        <4>1. Kept(s, j) /\ s.existing[j] = t.existing[j] => Kept(t, j)'
          BY <2>2, <3>2 DEF Kept
        <4> QED
          BY <1>4, <1>5, <1>8, <2>2, <2>3, <2>4, <3>2, <4>1 DEF Writing
      <3> QED
        BY <3>1, <3>2
    <2>7. AtWork(t)'
      BY <1>1, <1>4, <1>5, <1>8, <2>6 DEF AtWork
    <2>8. synced' => FactsTold'
      <3>1. FactsTold /\ s.now => FactsTold'
        BY <1>1, <2>1, <2>3, <2>5 DEF FactsTold
      <3> QED
        BY <1>1, <1>5, <1>8, <3>1 DEF Uncrossed
    <2> QED
      BY <1>1, <1>4, <1>5, <1>8, <2>1, <2>7, <2>8 DEF Uncrossed
  <1> QED
    BY <1>1, <1>7, <1>8 DEF NoticesInv

\* No step of the messages breaks the invariant.
LEMMA NoticesSteps == ASSUME NoticesInv, Notified!Next PROVE NoticesInv'
  <1>1. CASE Notified!Start \/ Notified!MarkAllRead \/ \E n \in notices : Notified!MarkRead(n)
    BY <1>1, StartKeeps, MarkKeeps
  <1>2. ASSUME NEW s \in syncs,
               \/ Notified!ListGenerated(s) \/ Notified!Finish(s) \/ Notified!Fail(s)
               \/ \E k \in Facts : Notified!Look(s, k) \/ Notified!Write(s, k)
        PROVE  NoticesInv'
    BY <1>2, ListKeeps, FinishKeeps, FailKeeps, LookKeeps, WriteKeepsNotices
  <1>3. CASE \E k \in Facts : Notified!FactChanges(k)
    BY <1>3, FactChangesKeeps
  <1> QED
    BY <1>1, <1>2, <1>3 DEF Notified!Next

-----------------------------------------------------------------------------
(* The tree of the categories.  What hangs on something is found level by   *)
(* level; there are not more levels than categories, so that it is the      *)
(* least set which holds the children of its members.                       *)

Sorts(par) == DOMAIN par \subseteq Categories
Hanging(par, C) == {k \in DOMAIN par : par[k] \in C}
Closed(par, C) == Hanging(par, C) \subseteq C

Levels(f, par, S, m) ==
    \A n \in 0 .. m : f[n] = IF n = 0 THEN S ELSE f[n - 1] \cup Hanging(par, f[n - 1])

LEMMA LevelsExist ==
    ASSUME NEW par, NEW S, NEW m \in Nat
    PROVE  \E f \in [Nat -> SUBSET (S \cup DOMAIN par)] : Levels(f, par, S, m)
  <1> DEFINE U == S \cup DOMAIN par
             Q == {n \in Nat : \E f \in [Nat -> SUBSET U] : Levels(f, par, S, n)}
  <1>1. 0 \in Q
    <2>1. [n \in Nat |-> S] \in [Nat -> SUBSET U]
      OBVIOUS
    <2>2. Levels([n \in Nat |-> S], par, S, 0)
      BY DEF Levels
    <2> QED
      BY <2>1, <2>2
  <1>2. ASSUME NEW n \in Nat, n \in Q PROVE n + 1 \in Q
    <2>1. PICK f \in [Nat -> SUBSET U] : Levels(f, par, S, n)
      BY <1>2
    <2> DEFINE g == [i \in Nat |-> IF i = n + 1 THEN f[n] \cup Hanging(par, f[n]) ELSE f[i]]
    <2>2. f[n] \cup Hanging(par, f[n]) \in SUBSET U
      BY <2>1 DEF Hanging
    <2>3. g \in [Nat -> SUBSET U]
      BY <2>1, <2>2
    <2>4. ASSUME NEW i \in 0 .. (n + 1)
          PROVE  g[i] = IF i = 0 THEN S ELSE g[i - 1] \cup Hanging(par, g[i - 1])
      <3>1. CASE i = n + 1
        <4>1. g[i] = f[n] \cup Hanging(par, f[n]) /\ g[i - 1] = f[n]
          BY <3>1
        <4> QED
          BY <3>1, <4>1
      <3>2. CASE i # n + 1
        <4>1. i \in 0 .. n /\ g[i] = f[i] /\ (i # 0 => g[i - 1] = f[i - 1])
          BY <3>2
        <4>2. f[i] = IF i = 0 THEN S ELSE f[i - 1] \cup Hanging(par, f[i - 1])
          BY <2>1, <4>1 DEF Levels
        <4> QED
          BY <4>1, <4>2
      <3> QED
        BY <3>1, <3>2
    <2> HIDE DEF g, U
    <2>5. Levels(g, par, S, n + 1)
      BY <2>4 DEF Levels
    <2> QED
      BY <2>3, <2>5
  <1>3. m \in Q
    <2> HIDE DEF Q
    <2> QED
      BY <1>1, <1>2, NatSetInduction
  <1> QED
    BY <1>3

LevelSteps(f, par, S, N) ==
    /\ f[0] = S
    /\ \A n \in Nat : n + 1 <= N => f[n + 1] = f[n] \cup Hanging(par, f[n])

LEMMA LevelFacts ==
    ASSUME NEW par, NEW S, NEW N \in Nat, NEW f, Levels(f, par, S, N)
    PROVE  LevelSteps(f, par, S, N)
  <1>1. 0 \in 0 .. N
    OBVIOUS
  <1>2. f[0] = S
    BY <1>1 DEF Levels
  <1>3. ASSUME NEW n \in Nat, n + 1 <= N PROVE f[n + 1] = f[n] \cup Hanging(par, f[n])
    <2>1. n + 1 \in 0 .. N /\ n + 1 # 0 /\ (n + 1) - 1 = n
      BY <1>3
    <2> QED
      BY <2>1 DEF Levels
  <1> QED
    BY <1>2, <1>3 DEF LevelSteps

\* The level that Below asks for.
LEMMA BelowIsLevel ==
    ASSUME NEW par, NEW S
    PROVE  \E f : /\ Levels(f, par, S, Cardinality(Categories))
                  /\ Tree!Below(par, S) = f[Cardinality(Categories)]
  <1> DEFINE N == Cardinality(Categories)
             Eq(f) == f = [n \in 0 .. N |-> IF n = 0 THEN S ELSE f[n - 1] \cup {k \in DOMAIN par : par[k] \in f[n - 1]}]
             level == CHOOSE f : Eq(f)
  <1>1. N \in Nat
    BY BackOfficeAssumption, FS_CardinalityType
  <1>2. PICK f \in [Nat -> SUBSET (S \cup DOMAIN par)] : Levels(f, par, S, N)
    BY <1>1, LevelsExist
  <1>3. PICK g : g = [n \in 0 .. N |-> f[n]]
    OBVIOUS
  <1>4. Eq(g)
    <2>1. \A n \in 0 .. N : f[n] = IF n = 0 THEN S ELSE f[n - 1] \cup Hanging(par, f[n - 1])
      BY <1>2 DEF Levels
    <2>2. \A n \in 0 .. N : g[n] = f[n] /\ (n # 0 => g[n - 1] = f[n - 1])
      BY <1>1, <1>3
    <2>3. \A n \in 0 .. N : g[n] = IF n = 0 THEN S ELSE g[n - 1] \cup {k \in DOMAIN par : par[k] \in g[n - 1]}
      BY <2>1, <2>2 DEF Hanging
    <2> QED
      BY <1>3, <2>3
  <1>5. Eq(level)
    <2> HIDE DEF Eq
    <2> QED
      BY <1>4
  <1>6. Tree!Below(par, S) = level[N]
    BY SameCardinality DEF Tree!Below
  <1> HIDE DEF level
  <1>7. Levels(level, par, S, N)
    BY <1>1, <1>5 DEF Levels, Hanging
  <1> QED
    BY <1>6, <1>7

\* What is below S is the least set with S and the children of its members.
LEMMA BelowIsClosed ==
    ASSUME NEW par, Sorts(par), NEW S
    PROVE  /\ S \subseteq Tree!Below(par, S) /\ Tree!Below(par, S) \subseteq S \cup DOMAIN par
           /\ Closed(par, Tree!Below(par, S))
  <1>0. PICK D : D = DOMAIN par
    OBVIOUS
  <1>1. PICK N \in Nat : N = Cardinality(Categories)
    BY BackOfficeAssumption, FS_CardinalityType
  <1>2. PICK f : Levels(f, par, S, N) /\ Tree!Below(par, S) = f[N]
    BY <1>1, BelowIsLevel
  <1>3. f[0] = S /\ \A n \in Nat : n + 1 <= N => f[n + 1] = f[n] \cup Hanging(par, f[n])
    <2>1. LevelSteps(f, par, S, N)
      BY <1>1, <1>2, LevelFacts
    <2> QED
      BY <2>1 DEF LevelSteps
  <1> DEFINE Full(n) == Closed(par, f[n]) \/ Cardinality(f[n] \cap D) >= n
             Q == {n \in Nat : n <= N => S \subseteq f[n] /\ f[n] \subseteq S \cup D /\ Full(n)}
  <1>5. \A T : IsFiniteSet(T \cap D) /\ Cardinality(T \cap D) \in Nat
    <2>1. IsFiniteSet(D)
      BY <1>0, BackOfficeAssumption, FS_Subset DEF Sorts
    <2> QED
      BY <2>1, FS_Intersection, FS_CardinalityType
  <1>6. 0 \in Q
    <2>1. S \subseteq f[0] /\ f[0] \subseteq S \cup D
      BY <1>3
    <2>2. Cardinality(f[0] \cap D) >= 0
      BY <1>5
    <2> QED
      BY <2>1, <2>2
  <1>7. ASSUME NEW n \in Nat, n \in Q PROVE n + 1 \in Q
    <2> SUFFICES ASSUME n + 1 <= N
                 PROVE  S \subseteq f[n + 1] /\ f[n + 1] \subseteq S \cup D /\ Full(n + 1)
      OBVIOUS
    <2>0. n <= N
      BY <1>1
    <2>1. S \subseteq f[n] /\ f[n] \subseteq S \cup D /\ Full(n)
      BY <1>7, <2>0
    <2>2. f[n + 1] = f[n] \cup Hanging(par, f[n])
      BY <1>3
    <2>3. CASE Closed(par, f[n])
      <3>1. f[n + 1] = f[n]
        BY <2>2, <2>3 DEF Closed
      <3> QED
        BY <2>1, <2>3, <3>1
    <2>4. CASE ~Closed(par, f[n])
      <3>1. PICK k \in D : par[k] \in f[n] /\ k \notin f[n]
        BY <1>0, <2>4 DEF Closed, Hanging
      <3>2. f[n] \cap D \subseteq f[n + 1] \cap D /\ k \in f[n + 1] \cap D /\ k \notin f[n] \cap D
        BY <1>0, <2>2, <3>1 DEF Hanging
      <3>3. Cardinality(f[n] \cap D) < Cardinality(f[n + 1] \cap D)
        <4> PICK X, Y : X = f[n] \cap D /\ Y = f[n + 1] \cap D
          OBVIOUS
        <4>1. IsFiniteSet(Y) /\ X \in SUBSET Y /\ X # Y /\ Cardinality(X) \in Nat /\ Cardinality(Y) \in Nat
          BY <1>5, <3>2
        <4>2. Cardinality(X) <= Cardinality(Y) /\ Cardinality(X) # Cardinality(Y)
          BY <4>1, FS_Subset
        <4> QED
          BY <4>1, <4>2
      <3>4. Cardinality(f[n + 1] \cap D) >= n + 1
        <4>1. /\ Cardinality(f[n] \cap D) \in Nat /\ Cardinality(f[n + 1] \cap D) \in Nat
              /\ Cardinality(f[n] \cap D) >= n
          BY <1>5, <2>1, <2>4
        <4> QED
          BY <3>3, <4>1
      <3> QED
        BY <1>0, <2>1, <2>2, <3>4 DEF Hanging
    <2> QED
      BY <2>3, <2>4
  <1>8. N \in Q
    <2> HIDE DEF Q
    <2> QED
      BY <1>1, <1>6, <1>7, NatSetInduction
  <1>9. ASSUME Cardinality(f[N] \cap D) >= N PROVE Closed(par, f[N])
    <2>1. f[N] \cap D \in SUBSET Categories
      BY <1>0 DEF Sorts
    <2>2. Cardinality(f[N] \cap D) <= N
      BY <1>1, <2>1, BackOfficeAssumption, FS_Subset
    <2>3. Cardinality(f[N] \cap D) = Cardinality(Categories)
      BY <1>1, <1>5, <1>9, <2>2
    <2>4. f[N] \cap D = Categories
      BY <2>1, <2>3, BackOfficeAssumption, FS_Subset
    <2>5. D \subseteq f[N]
      BY <1>0, <2>4 DEF Sorts
    <2> QED
      BY <1>0, <2>5 DEF Closed, Hanging
  <1>10. N <= N
    BY <1>1
  <1>11. S \subseteq f[N] /\ f[N] \subseteq S \cup D /\ Full(N)
    BY <1>8, <1>10
  <1> QED
    BY <1>0, <1>2, <1>9, <1>11

LEMMA BelowIsLeast ==
    ASSUME NEW par, NEW S, NEW C, S \subseteq C, Closed(par, C)
    PROVE  Tree!Below(par, S) \subseteq C
  <1>1. PICK N \in Nat : N = Cardinality(Categories)
    BY BackOfficeAssumption, FS_CardinalityType
  <1>2. PICK f : Levels(f, par, S, N) /\ Tree!Below(par, S) = f[N]
    BY <1>1, BelowIsLevel
  <1>0. f[0] = S /\ \A n \in Nat : n + 1 <= N => f[n + 1] = f[n] \cup Hanging(par, f[n])
    <2>1. LevelSteps(f, par, S, N)
      BY <1>1, <1>2, LevelFacts
    <2> QED
      BY <2>1 DEF LevelSteps
  <1> DEFINE Q == {n \in Nat : n <= N => f[n] \subseteq C}
  <1>3. 0 \in Q
    BY <1>0
  <1>4. ASSUME NEW n \in Nat, n \in Q PROVE n + 1 \in Q
    <2> SUFFICES ASSUME n + 1 <= N PROVE f[n + 1] \subseteq C
      OBVIOUS
    <2>1. n <= N
      BY <1>1
    <2>2. f[n] \subseteq C /\ f[n + 1] = f[n] \cup Hanging(par, f[n])
      BY <1>0, <1>4, <2>1
    <2> QED
      BY <2>2 DEF Closed, Hanging
  <1>5. N \in Q
    <2> HIDE DEF Q
    <2> QED
      BY <1>1, <1>3, <1>4, NatSetInduction
  <1> QED
    BY <1>2, <1>5

\* A tree is whole when what has a row hangs on the top.
Parents == [Categories -> Categories \cup {"top", "none", "gone"}]
Alive(par) == {k \in Categories : par[k] \notin {"none", "gone"}}
Hung(par) == Tree!Below(par, {"top"})
Whole(par) == Alive(par) \subseteq Hung(par)

LEMMA HungFacts ==
    ASSUME NEW par \in Parents
    PROVE  /\ "top" \in Hung(par) /\ Closed(par, Hung(par)) /\ Hung(par) \subseteq Alive(par) \cup {"top"}
           /\ DOMAIN Tree!Tree(par) = Hung(par) \ {"top"}
  <1>1. Sorts(par)
    BY DEF Sorts, Parents
  <1>2. {"top"} \subseteq Hung(par) /\ Closed(par, Hung(par))
    BY <1>1, BelowIsClosed DEF Hung
  <1>3. Closed(par, Alive(par) \cup {"top"})
    BY BackOfficeAssumption DEF Closed, Hanging, Alive, Parents
  <1>4. {"top"} \subseteq Alive(par) \cup {"top"}
    OBVIOUS
  <1>5. Hung(par) \subseteq Alive(par) \cup {"top"}
    BY <1>3, <1>4, BelowIsLeast DEF Hung
  <1>6. DOMAIN Tree!Tree(par) = Hung(par) \ {"top"}
    BY DEF Tree!Tree, Hung
  <1> QED
    BY <1>2, <1>5, <1>6

LEMMA WholeIsShown ==
    ASSUME NEW par \in Parents PROVE Whole(par) <=> DOMAIN Tree!Tree(par) = Alive(par)
  <1>1. "top" \notin Alive(par)
    BY BackOfficeAssumption DEF Alive
  <1> QED
    BY <1>1, HungFacts DEF Whole

\* A new category under one that is there.
LEMMA CreateHangs ==
    ASSUME NEW par \in Parents, Whole(par), NEW k \in Categories, NEW p \in Alive(par) \cup {"top"},
           par[k] = "none"
    PROVE  Whole([par EXCEPT ![k] = p])
  <1> PICK new : new = [par EXCEPT ![k] = p]
    OBVIOUS
  <1>1. new \in Parents /\ new[k] = p /\ \A j \in Categories \ {k} : new[j] = par[j]
    BY DEF Parents, Alive
  <1>2. {"top"} \subseteq Hung(new) /\ Closed(new, Hung(new)) /\ DOMAIN new = Categories
    <2>1. "top" \in Hung(new) /\ Closed(new, Hung(new))
      BY <1>1, HungFacts
    <2> QED
      BY <1>1, <2>1 DEF Parents
  <1>3. Closed(par, Hung(new))
    <2> SUFFICES ASSUME NEW j \in Categories, par[j] \in Hung(new) PROVE j \in Hung(new)
      BY DEF Closed, Hanging, Parents
    <2>1. "none" \notin Hung(new)
      BY <1>1, HungFacts, BackOfficeAssumption DEF Alive
    <2>2. j # k /\ new[j] = par[j]
      BY <1>1, <2>1
    <2> QED
      BY <1>2, <2>2 DEF Closed, Hanging
  <1>4. Hung(par) \subseteq Hung(new)
    BY <1>2, <1>3, BelowIsLeast DEF Hung
  <1>5. k \in Hung(new)
    BY <1>1, <1>2, <1>4 DEF Closed, Hanging, Whole
  <1>6. Alive(new) \subseteq Alive(par) \cup {k}
    BY <1>1 DEF Alive
  <1> QED
    BY <1>4, <1>5, <1>6 DEF Whole

\* A deletion that nothing was put under.
LEMMA DeletionHangs ==
    ASSUME NEW par \in Parents, Whole(par), NEW k \in Categories, \A d \in Categories : par[d] # k
    PROVE  Whole([par EXCEPT ![k] = "gone"])
  <1> PICK new : new = [par EXCEPT ![k] = "gone"]
    OBVIOUS
  <1>1. new \in Parents /\ new[k] = "gone" /\ \A j \in Categories \ {k} : new[j] = par[j]
    BY DEF Parents
  <1>2. {"top"} \subseteq Hung(new) /\ Closed(new, Hung(new)) /\ DOMAIN new = Categories
    <2>1. "top" \in Hung(new) /\ Closed(new, Hung(new))
      BY <1>1, HungFacts
    <2> QED
      BY <1>1, <2>1 DEF Parents
  <1>3. Closed(par, Hung(new) \cup {k})
    <2> SUFFICES ASSUME NEW j \in Categories \ {k}, par[j] \in Hung(new) \cup {k} PROVE j \in Hung(new)
      BY DEF Closed, Hanging, Parents
    <2>1. new[j] = par[j] /\ par[j] \in Hung(new)
      BY <1>1
    <2> QED
      BY <1>2, <2>1 DEF Closed, Hanging
  <1>4. {"top"} \subseteq Hung(new) \cup {k}
    BY <1>2
  <1>5. Hung(par) \subseteq Hung(new) \cup {k}
    BY <1>3, <1>4, BelowIsLeast DEF Hung
  <1>6. Alive(new) \subseteq Alive(par) \ {k}
    BY <1>1 DEF Alive
  <1> QED
    BY <1>5, <1>6 DEF Whole

\* A move under what does not hang below the category: the new parent is not
\* among what moves with it.
LEMMA MoveHangs ==
    ASSUME NEW par \in Parents, Whole(par), NEW k \in Alive(par), NEW p \in Alive(par) \cup {"top"},
           p \notin Tree!Below(par, {k})
    PROVE  Whole([par EXCEPT ![k] = p])
  <1> PICK new : new = [par EXCEPT ![k] = p]
    OBVIOUS
  <1> PICK B : B = Tree!Below(par, {k})
    OBVIOUS
  <1>1. k \in Categories /\ new \in Parents /\ new[k] = p /\ \A j \in Categories \ {k} : new[j] = par[j]
    BY DEF Parents, Alive
  <1>2. {"top"} \subseteq Hung(new) /\ Closed(new, Hung(new)) /\ DOMAIN new = Categories
    <2>1. "top" \in Hung(new) /\ Closed(new, Hung(new))
      BY <1>1, HungFacts
    <2> QED
      BY <1>1, <2>1 DEF Parents
  <1>3. {k} \subseteq B /\ Closed(par, B)
    <2>1. Sorts(par)
      BY DEF Sorts, Parents
    <2> QED
      BY <2>1, BelowIsClosed
  <1>4. Closed(par, Hung(new) \cup B)
    <2> SUFFICES ASSUME NEW j \in Categories, par[j] \in Hung(new) \cup B
                 PROVE  j \in Hung(new) \cup B
      BY DEF Closed, Hanging, Parents
    <2>1. CASE par[j] \in B
      BY <1>3, <2>1 DEF Closed, Hanging, Parents
    <2>2. CASE par[j] \in Hung(new) /\ j # k
      BY <1>1, <1>2, <2>2 DEF Closed, Hanging
    <2> QED
      BY <1>3, <2>1, <2>2
  <1>5. Hung(par) \subseteq Hung(new) \cup B
    <2>1. {"top"} \subseteq Hung(new) \cup B
      BY <1>2
    <2> QED
      BY <1>4, <2>1, BelowIsLeast DEF Hung
  <1>6. k \in Hung(new)
    <2>1. p \in Hung(new)
      BY <1>2, <1>5 DEF Whole
    <2> QED
      BY <1>1, <1>2, <2>1 DEF Closed, Hanging
  <1>7. B \subseteq Hung(new)
    <2>1. Closed(par, Hung(new))
      <3> SUFFICES ASSUME NEW j \in Categories \ {k}, par[j] \in Hung(new) PROVE j \in Hung(new)
        BY <1>6 DEF Closed, Hanging, Parents
      <3> QED
        BY <1>1, <1>2 DEF Closed, Hanging
    <2>2. {k} \subseteq Hung(new)
      BY <1>6
    <2> QED
      BY <2>1, <2>2, BelowIsLeast
  <1>8. Alive(new) \subseteq Alive(par)
    BY <1>1 DEF Alive
  <1> QED
    BY <1>5, <1>7, <1>8 DEF Whole

\* A form offers nothing of what its page knew to hang below its category, when
\* no keyword hid any of it.
FormSafe(f) ==
    /\ f \in [edit : Categories, rows : {f.rows}, blocked : {f.blocked}, under : {f.under}]
    /\ f.under # None => f.under \subseteq f.blocked

\* So what was checked does not put a category below itself; and the parent is
\* still there, unless it was deleted since.
PutSafe(w) ==
    /\ w.edit \in Categories \cup {None} /\ w.to \in Categories \cup {"top"}
    /\ w.edit # None /\ w.under # None => w.to \notin w.under
Found(w) == bent \/ w.to \in Alive(parent) \cup {"top"}

TreeInv ==
    /\ parent \in Parents /\ deletions \subseteq Categories /\ bent \in BOOLEAN
    /\ \A f \in forms : FormSafe(f)
    /\ \A w \in puts : PutSafe(w) /\ Found(w)
    /\ bent \/ Whole(parent)

LEMMA TreeStart == Tree!Init => TreeInv
  <1> SUFFICES ASSUME Tree!Init PROVE TreeInv
    OBVIOUS
  <1>1. parent \in Parents
    BY DEF Tree!Init, Parents
  <1>2. Whole(parent)
    <2>1. DOMAIN Tree!Tree(parent) = Alive(parent)
      BY DEF Tree!Init, Tree!Live, Alive
    <2> QED
      BY <1>1, <2>1, WholeIsShown
  <1> QED
    BY <1>1, <1>2 DEF Tree!Init, TreeInv

\* What leaves the tree alone, and adds forms, creations and moves that are safe.
LEMMA TreeReads ==
    ASSUME TreeInv, UNCHANGED <<parent, bent>>, deletions' \subseteq Categories,
           \A f \in forms' : f \in forms \/ FormSafe(f),
           \A w \in puts' : w \in puts \/ (PutSafe(w) /\ Found(w))
    PROVE  TreeInv'
  <1>1. \A w : Found(w) => Found(w)'
    BY DEF Found
  <1>2. \A w \in puts' : PutSafe(w) /\ Found(w)'
    BY <1>1 DEF TreeInv
  <1>3. \A f \in forms' : FormSafe(f)
    BY DEF TreeInv
  <1>4. parent' \in Parents /\ bent' \in BOOLEAN /\ (bent' \/ Whole(parent'))
    BY DEF TreeInv
  <1> QED
    BY <1>2, <1>3, <1>4 DEF TreeInv

LEMMA OpenKeeps == ASSUME TreeInv, NEW k \in Categories, Tree!OpenForm(k) PROVE TreeInv'
  <1> PICK tree : tree = Tree!Tree(parent)
    OBVIOUS
  <1>1. PICK matches \in SUBSET DOMAIN tree :
          forms' = forms \cup {[edit |-> k, rows |-> DOMAIN tree, blocked |-> Tree!Blocked(tree, matches, k),
                                under |-> IF Tree!Below(tree, {k}) \subseteq Tree!Kept(tree, matches)
                                          THEN Tree!Below(tree, {k}) ELSE None]}
    BY DEF Tree!OpenForm
  <1> PICK new : new = [edit |-> k, rows |-> DOMAIN tree, blocked |-> Tree!Blocked(tree, matches, k),
                        under |-> IF Tree!Below(tree, {k}) \subseteq Tree!Kept(tree, matches)
                                  THEN Tree!Below(tree, {k}) ELSE None]
    OBVIOUS
  <1>2. FormSafe(new)
    <2>1. new.under # None => new.under \subseteq new.blocked
      BY DEF Tree!Blocked
    <2> QED
      BY <2>1 DEF FormSafe
  <1>3. UNCHANGED <<parent, bent>> /\ puts' = puts /\ deletions' \subseteq Categories
    BY DEF Tree!OpenForm, TreeInv
  <1> QED
    BY <1>1, <1>2, <1>3, TreeReads

LEMMA ReloadKeeps == ASSUME TreeInv, NEW f \in forms, Tree!Reload(f) PROVE TreeInv'
  <1> PICK new : new = [f EXCEPT !.rows = DOMAIN Tree!Tree(parent)]
    OBVIOUS
  <1>1. /\ forms' = (forms \ {f}) \cup {new} /\ UNCHANGED <<parent, bent>>
        /\ puts' = puts /\ deletions' \subseteq Categories
    BY DEF Tree!Reload, TreeInv
  <1>2. FormSafe(f)
    BY DEF TreeInv
  <1>3. FormSafe(new)
    <2>1. new.under = f.under /\ new.blocked = f.blocked
      BY <1>2 DEF FormSafe
    <2> QED
      BY <1>2, <2>1 DEF FormSafe
  <1> QED
    BY <1>1, <1>3, TreeReads

\* What a creation or a move reads.
LEMMA PutReadsKeep ==
    ASSUME TreeInv,
           \/ \E p \in Categories \cup {"top"} : Tree!CreateReads(p)
           \/ \E f \in forms : Tree!UpdateReads(f)
    PROVE  TreeInv'
  <1>1. ASSUME NEW p \in Categories \cup {"top"}, Tree!CreateReads(p) PROVE TreeInv'
    <2> PICK w : w = [edit |-> None, to |-> p, under |-> {}]
      OBVIOUS
    <2>1. puts' = puts \cup {w} /\ UNCHANGED <<parent, bent>> /\ forms' = forms /\ deletions' = deletions
      BY <1>1 DEF Tree!CreateReads, Tree!Work
    <2>2. Found(w)
      BY <1>1 DEF Tree!CreateReads, Tree!Exists, Tree!Live, Found, Alive
    <2>3. PutSafe(w)
      BY DEF PutSafe
    <2> QED
      BY <2>1, <2>2, <2>3, TreeReads DEF TreeInv
  <1>2. ASSUME NEW f \in forms, Tree!UpdateReads(f) PROVE TreeInv'
    <2>1. PICK p \in Tree!ParentOptions(f) : Tree!Accepts(f.edit, p) /\ Tree!Work(f.edit, p, f.under)
      BY <1>2 DEF Tree!UpdateReads
    <2>2. FormSafe(f)
      BY DEF TreeInv
    <2> PICK w : w = [edit |-> f.edit, to |-> p, under |-> f.under]
      OBVIOUS
    <2>3. puts' = puts \cup {w} /\ UNCHANGED <<parent, bent>> /\ forms' = forms /\ deletions' = deletions
      BY <1>2, <2>1 DEF Tree!UpdateReads, Tree!Work
    <2>4. p \in Alive(parent) \cup {"top"}
      BY <2>1 DEF Tree!Accepts, Tree!Exists, Tree!Live, Alive
    <2>5. p \notin f.blocked
      BY <2>1 DEF Tree!ParentOptions
    <2>6. PutSafe(w) /\ Found(w)
      BY <2>2, <2>4, <2>5 DEF PutSafe, Found, FormSafe, Alive
    <2> QED
      BY <2>3, <2>6, TreeReads DEF TreeInv
  <1> QED
    BY <1>1, <1>2

\* A row is written: nothing that was found is gone by it.
LEMMA PutsStay ==
    ASSUME TreeInv, NEW k \in Categories, NEW p \in Categories \cup {"top"},
           parent' = [parent EXCEPT ![k] = p], bent => bent', puts' \subseteq puts
    PROVE  parent' \in Parents /\ \A w \in puts' : PutSafe(w) /\ Found(w)'
  <1>1. parent' \in Parents
    BY DEF TreeInv, Parents
  <1>2. p \notin {"none", "gone"}
    BY BackOfficeAssumption
  <1>3. Alive(parent) \subseteq Alive(parent')
    BY <1>2 DEF TreeInv, Parents, Alive
  <1>4. \A w \in puts' : PutSafe(w) /\ Found(w)
    BY DEF TreeInv
  <1> QED
    BY <1>1, <1>3, <1>4 DEF Found

LEMMA CategoryCreateKeeps == ASSUME TreeInv, NEW w \in puts, Tree!CreateWrites(w) PROVE TreeInv'
  <1>1. PICK k \in Categories : parent[k] = "none" /\ parent' = [parent EXCEPT ![k] = w.to]
    BY DEF Tree!CreateWrites, Tree!Put
  <1>2. bent' = bent /\ puts' \subseteq puts /\ forms' = forms /\ deletions' = deletions
    BY DEF Tree!CreateWrites, Tree!Ends
  <1>3. PutSafe(w) /\ Found(w)
    BY DEF TreeInv
  <1>4. parent' \in Parents /\ \A v \in puts' : PutSafe(v) /\ Found(v)'
    BY <1>1, <1>2, <1>3, PutsStay DEF PutSafe
  <1>5. bent' \/ Whole(parent')
    BY <1>1, <1>2, <1>3, CreateHangs DEF TreeInv, Found
  <1> QED
    BY <1>2, <1>4, <1>5 DEF TreeInv

LEMMA UpdateKeeps == ASSUME TreeInv, NEW w \in puts, Tree!UpdateWrites(w) PROVE TreeInv'
  <1>1. w.edit \in Alive(parent) /\ parent' = [parent EXCEPT ![w.edit] = w.to]
    BY DEF Tree!UpdateWrites, Tree!Put, Tree!Live, Alive
  <1>2. /\ bent' = (bent \/ Tree!Outdated(w)) /\ puts' \subseteq puts
        /\ forms' = forms /\ deletions' = deletions
    BY DEF Tree!UpdateWrites, Tree!Ends
  <1>3. PutSafe(w) /\ Found(w) /\ w.edit \in Categories
    BY <1>1 DEF TreeInv, Alive
  <1>4. parent' \in Parents /\ \A v \in puts' : PutSafe(v) /\ Found(v)'
    BY <1>1, <1>2, <1>3, PutsStay DEF PutSafe
  <1>5. bent' \/ Whole(parent')
    <2> SUFFICES ASSUME ~bent' PROVE Whole(parent')
      OBVIOUS
    <2>1. /\ w.under # None /\ Tree!Below(parent, {w.edit}) \subseteq w.under
          /\ Whole(parent) /\ w.to \in Alive(parent) \cup {"top"}
      BY <1>2, <1>3 DEF TreeInv, Tree!Outdated, Found
    <2>2. w.edit # None
      BY <1>3, BackOfficeAssumption
    <2>3. w.to \notin Tree!Below(parent, {w.edit})
      BY <1>3, <2>1, <2>2 DEF PutSafe
    <2> QED
      BY <1>1, <2>1, <2>3, MoveHangs DEF TreeInv
  <1> QED
    BY <1>2, <1>4, <1>5 DEF TreeInv

LEMMA CategoryDeleteKeeps == ASSUME TreeInv, NEW k \in deletions, Tree!DeleteWrites(k) PROVE TreeInv'
  <1>1. /\ parent' = [parent EXCEPT ![k] = "gone"] /\ deletions' \subseteq Categories
        /\ forms' = forms /\ puts' = puts /\ k \in Categories
        /\ bent' = (bent \/ ~Tree!Childless(k) \/ \E w \in puts : w.to = k)
    BY DEF Tree!DeleteWrites, Tree!Put, TreeInv
  <1>2. bent' \/ Whole(parent')
    <2> SUFFICES ASSUME ~bent' PROVE Whole(parent')
      OBVIOUS
    <2>1. Whole(parent) /\ \A d \in Categories : parent[d] # k
      BY <1>1 DEF TreeInv, Tree!Childless
    <2> QED
      BY <1>1, <2>1, DeletionHangs DEF TreeInv
  <1>3. parent' \in Parents /\ bent' \in BOOLEAN
    BY <1>1 DEF TreeInv, Parents
  <1>4. Alive(parent) \ {k} \subseteq Alive(parent')
    BY <1>1 DEF TreeInv, Parents, Alive
  <1>5. \A w \in puts' : PutSafe(w) /\ Found(w)'
    <2> SUFFICES ASSUME NEW w \in puts PROVE PutSafe(w) /\ Found(w)'
      BY <1>1
    <2>1. PutSafe(w) /\ Found(w)
      BY DEF TreeInv
    <2> QED
      BY <1>1, <1>4, <2>1 DEF Found
  <1> QED
    BY <1>1, <1>2, <1>3, <1>5 DEF TreeInv

\* No step of the categories breaks the invariant.
LEMMA TreeSteps == ASSUME TreeInv, Tree!Next PROVE TreeInv'
  <1>1. CASE \E k \in Categories : Tree!OpenForm(k)
    BY <1>1, OpenKeeps
  <1>2. CASE \/ \E p \in Categories \cup {"top"} : Tree!CreateReads(p)
             \/ \E f \in forms : Tree!UpdateReads(f)
    BY <1>2, PutReadsKeep
  <1>3. CASE \/ \E k \in Categories : Tree!DeleteReads(k)
             \/ \E f \in forms : Tree!CloseForm(f)
             \/ \E w \in puts : Tree!GiveUp(w)
             \/ \E k \in deletions : Tree!Drop(k)
    <2>1. /\ UNCHANGED <<parent, bent>> /\ deletions' \subseteq Categories
          /\ forms' \subseteq forms /\ puts' \subseteq puts
      BY <1>3 DEF TreeInv, Tree!DeleteReads, Tree!CloseForm, Tree!GiveUp, Tree!Drop
    <2> QED
      BY <2>1, TreeReads
  <1>4. CASE \E f \in forms : Tree!Reload(f)
    BY <1>4, ReloadKeeps
  <1>5. CASE \E w \in puts : Tree!CreateWrites(w) \/ Tree!UpdateWrites(w)
    BY <1>5, CategoryCreateKeeps, UpdateKeeps
  <1>6. CASE \E k \in deletions : Tree!DeleteWrites(k)
    BY <1>6, CategoryDeleteKeeps
  <1> QED
    BY <1>1, <1>2, <1>3, <1>4, <1>5, <1>6 DEF Tree!Next

-----------------------------------------------------------------------------
(* The errands.                                                            *)

ServerInv == /\ errand = "notices" => NoticesInv
             /\ errand = "tree" => TreeInv

\* Of the messages and of the categories of every behaviour: the two invariants
\* above, which the properties below follow from.
THEOREM ServerInvariant == Spec => []ServerInv
  <1>1. Init => ServerInv
    <2>1. ASSUME Init, errand = "notices" PROVE NoticesInv
      <3>1. Notified!Init
        BY <2>1 DEF Init
      <3> QED
        BY <3>1, NoticesStart
    <2>2. ASSUME Init, errand = "tree" PROVE TreeInv
      <3>1. Tree!Init
        BY <2>2 DEF Init
      <3> QED
        BY <3>1, TreeStart
    <2> QED
      BY <2>1, <2>2 DEF ServerInv
  <1>2. ServerInv /\ [Next]_vars => ServerInv'
    <2> SUFFICES ASSUME ServerInv, [Next]_vars PROVE ServerInv'
      OBVIOUS
    <2>1. CASE UNCHANGED vars
      <3>1. UNCHANGED <<errand, parent, forms, puts, deletions, bent, fact, notices, syncs, synced, crossed>>
        BY <2>1 DEF vars, telling, sorting
      <3>2. NoticesTyped => NoticesTyped'
        BY <3>1 DEF NoticesTyped
      <3>3. \A k \in Facts : About(k)' = About(k) /\ Contented(k)' = Contented(k)
        BY <3>1 DEF Contented, About, Notified!About
      <3>4. \A s \in syncs : Looking(s) => Looking(s)'
        BY <3>1 DEF Looking
      <3>5. \A s \in syncs : Writing(s) => Writing(s)'
        BY <3>1, <3>3 DEF Writing, Kept
      <3>6. \A s \in syncs : AtWork(s) => AtWork(s)'
        BY <3>4, <3>5 DEF AtWork
      <3>7. OneEach => OneEach'
        BY <3>1 DEF OneEach
      <3>8. FactsTold => FactsTold'
        BY <3>1, <3>3 DEF FactsTold
      <3>9. NoticesInv => NoticesInv'
        BY <3>1, <3>2, <3>6, <3>7, <3>8 DEF NoticesInv, Uncrossed
      <3>10. TreeInv => TreeInv'
        BY <3>1, TreeReads DEF TreeInv
      <3> QED
        BY <3>1, <3>9, <3>10 DEF ServerInv
    <2>2. ASSUME Next, errand = "notices" PROVE NoticesInv'
      <3>1. Notified!Next /\ NoticesInv
        BY <2>2 DEF Next, ServerInv
      <3> QED
        BY <3>1, NoticesSteps
    <2>3. ASSUME Next, errand = "tree" PROVE TreeInv'
      <3>1. Tree!Next /\ TreeInv
        BY <2>3 DEF Next, ServerInv
      <3> QED
        BY <3>1, TreeSteps
    <2>4. Next => errand' = errand
      BY DEF Next
    <2> QED
      BY <2>1, <2>2, <2>3, <2>4 DEF ServerInv
  <1> QED
    BY <1>1, <1>2, PTL DEF Spec

\* Syncs leave one message of every fact, unless two of them crossed
\* (syncSellerNotifications).
THEOREM NoticesCorrect == Spec => []NoticesTellFacts
  <1>1. ServerInv => NoticesTellFacts
    <2> SUFFICES ASSUME NoticesInv, ~crossed PROVE Notified!NoticesTellFacts
      BY DEF ServerInv, NoticesTellFacts, Notified!NoticesTellFacts
    <2>1. ASSUME NEW k \in Facts PROVE Notified!Cardinality(Notified!About(k)) <= 1
      <3>1. \A m, n \in About(k) : m = n
        BY DEF NoticesInv, Uncrossed, OneEach, About, Notified!About
      <3>2. CASE About(k) = {}
        BY <3>2, FS_EmptySet, SameCardinality DEF About
      <3>3. ASSUME NEW n \in About(k) PROVE Cardinality(About(k)) = 1
        <4>1. About(k) = {n}
          BY <3>1, <3>3
        <4> QED
          BY <4>1, FS_Singleton
      <3> QED
        BY <3>2, <3>3, SameCardinality DEF About
    <2>2. synced => \A k \in Facts : {n.content : n \in Notified!About(k)} = {fact[k]} \ {None}
      BY DEF NoticesInv, Uncrossed, FactsTold, Contented, About
    <2> QED
      BY <2>1, <2>2 DEF Notified!NoticesTellFacts
  <1> QED
    BY <1>1, ServerInvariant, PTL

\* Every category hangs on the top and is shown, however forms, creations, moves and
\* deletions cross, but for the two crossings that bent records: a category was
\* moved while something hung below it that its form did not block, because it came
\* there later or the page's keyword hid it; or a category was deleted while
\* something hung below it by then, or was being put there by a handler that had
\* found it (CategoryService.Create, Update, Delete; Categories/index.tsx).
THEOREM TreeCorrect == Spec => []TreeIsWhole
  <1>1. ServerInv => TreeIsWhole
    BY WholeIsShown DEF ServerInv, TreeInv, TreeIsWhole, Tree!TreeIsWhole, Tree!Live, Alive
  <1> QED
    BY <1>1, ServerInvariant, PTL
=============================================================================
