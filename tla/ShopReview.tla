----------------------------- MODULE ShopReview -----------------------------
(***************************************************************************)
(* The row of a shop on the server: what the seller's saves and the        *)
(* admin's audits do to it when they cross.  A save reads the audit it may *)
(* have to open again before it writes, without a lock; one that dies in   *)
(* between never writes.                                                   *)
(***************************************************************************)
EXTENDS Integers, FiniteSets

CONSTANTS None,
          Contents,  \* what the fields of a shop can be
          MaxSaves   \* bound: saves at work at a time

VARIABLES shop,
          saves,    \* saves that have read the shop and not written it
          decided,  \* history: the content that was last audited
          missed    \* history: an audit came between a save's read and its write

vars == <<shop, saves, decided, missed>>

Audits == {"waiting", "passed", "refused"}
Shop == [audit : Audits, content : Contents, trading : BOOLEAN]

-----------------------------------------------------------------------------
\* A shop waits for its audit from the start (modelFromApplyInput).
Applied(v) == [audit |-> "waiting", content |-> v, trading |-> TRUE]
Apply == /\ shop = None /\ \E v \in Contents : shop' = Applied(v) /\ decided' = v
         /\ UNCHANGED <<saves, missed>>

UpdateReads(v) ==
    /\ shop # None /\ Cardinality(saves) < MaxSaves
    /\ saves' = saves \cup {[new |-> v, read |-> shop.audit]}
    /\ UNCHANGED <<shop, decided, missed>>
\* Mutant: a shop that was refused is not audited again.
ReopensPassed(read) == read = "passed"
Reopens(read) == read \in {"passed", "refused"}
\* An equal save may still be at work.
UpdateWrites(s) ==
    /\ shop' = [audit |-> IF Reopens(s.read) THEN "waiting" ELSE shop.audit,
                content |-> s.new, trading |-> shop.trading]
    /\ saves' \in {saves, saves \ {s}} /\ UNCHANGED decided
    /\ missed' = (missed \/ (s.read = "waiting" /\ shop.audit # "waiting"))
Drop(s) == saves' = saves \ {s} /\ UNCHANGED <<shop, decided, missed>>

\* An admin may pass or refuse a shop at any time, and close it.
AdminAuditShop(a) == /\ shop # None /\ shop' = [shop EXCEPT !.audit = a]
                     /\ decided' = shop.content /\ missed' = FALSE /\ UNCHANGED saves
UpdateSellerShopStatus(b) == /\ shop # None /\ shop' = [shop EXCEPT !.trading = b]
                             /\ UNCHANGED <<saves, decided, missed>>
AdminCloseShop == UpdateSellerShopStatus(FALSE)

-----------------------------------------------------------------------------
Init == /\ shop \in Shop \cup {None} /\ saves = {} /\ missed = FALSE
        /\ IF shop = None THEN decided \in Contents ELSE decided = shop.content

Next == \/ Apply \/ AdminCloseShop
        \/ \E v \in Contents : UpdateReads(v)
        \/ \E s \in saves : UpdateWrites(s) \/ Drop(s)
        \/ \E a \in {"passed", "refused"} : AdminAuditShop(a)
        \/ \E b \in BOOLEAN : UpdateSellerShopStatus(b)
Spec == Init /\ [][Next]_vars

-----------------------------------------------------------------------------
TypeOK == /\ shop \in Shop \cup {None} /\ decided \in Contents /\ missed \in BOOLEAN
          /\ saves \subseteq [new : Contents, read : Audits] /\ (shop = None => saves = {})

\* A shop that has passed, or was refused, is what its audit was about, unless
\* the audit came between the read and the write of a save (UpdateSellerShop).
ChangesAreReviewed == shop # None /\ ~missed /\ shop.audit # "waiting" => shop.content = decided
=============================================================================
