----------------------------- MODULE SellerShop -----------------------------
(***************************************************************************)
(* The seller's page of the settings of the shop.  Its audit, which the    *)
(* page only shows, and what saves and audits that cross do to it are the  *)
(* subject of ShopReview.                                                  *)
(***************************************************************************)
EXTENDS Requests

CONSTANTS Contents,  \* what the fields of a shop can be, name included
          MaxCalls   \* bound: the seller acts while fewer requests are in flight

VARIABLES row,      \* the shop: content, and whether it is open
          page, alert, calls,
          crossed   \* history: the page may show a shop that was written since

screens == <<page, alert>>
vars == <<row, screens, calls, crossed>>

Row == [content : Contents, trading : BOOLEAN]
NewPage == [front |-> FALSE, refreshing |-> FALSE, saving |-> FALSE, switching |-> FALSE, uploading |-> FALSE,
            shop |-> None, trading |-> TRUE, values |-> None]
NoAlert == [kind |-> None, new |-> None]
MayAct == Cardinality(calls) < MaxCalls
Ask(cs, what, arg) == cs \cup {Request(cs, "shop", what, arg)}

-----------------------------------------------------------------------------
(* The page.                                                               *)

Load(p, cs, then) == page' = p /\ calls' = Ask(cs, "read", then)
\* Bound: the page is opened once everything was answered.
Open == ~page.front /\ calls = {}
        /\ Load([NewPage EXCEPT !.front = TRUE], calls, "focus") /\ UNCHANGED alert
Leave == /\ page.front /\ alert.kind = None /\ page' = NewPage /\ UNCHANGED alert
         /\ calls' = {[c EXCEPT !.owner = "gone"] : c \in {d \in calls : d.what \in {"save", "switch"}}}

Offers == IF ~page.front \/ alert.kind # None THEN {}
          ELSE {"fields", "save"} \cup (IF page.switching THEN {} ELSE {"switch"})
                 \cup (IF page.refreshing THEN {} ELSE {"refresh"})
Refresh == "refresh" \in Offers /\ Load([page EXCEPT !.refreshing = TRUE], calls, "refresh") /\ UNCHANGED alert
Type == /\ "fields" \in Offers /\ \E v \in Contents : page' = [page EXCEPT !.values = v]
        /\ UNCHANGED <<alert, calls>>
\* One flag for the logo and the licence: while one is being uploaded the other
\* may be chosen, and whichever ends first clears it.
\* Of the two upload buttons only the one whose image is under way is off.
MayUpload == "fields" \in Offers
PickImage == /\ MayUpload /\ page' = [page EXCEPT !.uploading = TRUE]
             /\ calls' = Ask(calls, "upload", None) /\ UNCHANGED alert
\* A shop without a name is not sent; a save must change something of the shop
\* as loaded, and anything is a change when none was loaded.
Save == /\ "save" \in Offers /\ page.values # None
        /\ (page.shop # None => page.values # page.shop.content)
        /\ alert' = [kind |-> "confirm", new |-> page.values] /\ UNCHANGED <<page, calls>>
\* Nothing keeps a second save from being confirmed while the first is under way.
ConfirmYes == /\ alert.kind = "confirm" /\ alert' = NoAlert /\ page' = [page EXCEPT !.saving = TRUE]
              /\ calls' = Ask(calls, "save", alert.new)
ConfirmNo == alert.kind = "confirm" /\ alert' = NoAlert /\ UNCHANGED <<page, calls>>
\* The switch turns at once, and turns back, when the answer is an error, to
\* the shop that was loaded.
Back(p) == IF p.shop = None THEN TRUE ELSE p.shop.trading
Switch == /\ "switch" \in Offers /\ UNCHANGED alert
          /\ page' = [page EXCEPT !.trading = ~@, !.switching = TRUE]
          /\ calls' = Ask(calls, "switch", [to |-> ~page.trading, back |-> Back(page)])

-----------------------------------------------------------------------------
(* The answers.                                                            *)

Ended(c) == c.state \in {"done", "refused"}
\* A shop that could not be read is shown as none at all.
Read(c) ==
    /\ c.what = "read" /\ Ended(c) /\ calls' = calls \ {c} /\ UNCHANGED alert
    /\ page' = [page EXCEPT !.shop = c.reply, !.trading = IF c.reply = None THEN TRUE ELSE c.reply.trading,
                            !.values = IF c.reply = None THEN None ELSE c.reply.content,
                            !.refreshing = @ /\ c.arg # "refresh", !.saving = @ /\ c.arg # "save"]
Saved(c) ==
    /\ c.what = "save" /\ Ended(c) /\ UNCHANGED alert
    /\ IF c.owner = "shop" /\ c.state = "done" THEN Load(page, calls \ {c}, "save")
       ELSE /\ calls' = calls \ {c} /\ page' = [page EXCEPT !.saving = @ /\ c.owner # "shop"]
Switched(c) ==
    /\ c.what = "switch" /\ Ended(c) /\ calls' = calls \ {c} /\ UNCHANGED alert
    /\ page' = IF c.owner # "shop" THEN page
               ELSE IF c.state = "done" THEN [page EXCEPT !.switching = FALSE]
               ELSE [page EXCEPT !.switching = FALSE, !.trading = c.arg.back]
Uploaded(c) ==
    /\ c.what = "upload" /\ Ended(c) /\ calls' = calls \ {c} /\ UNCHANGED alert
    /\ \E v \in IF c.state = "done" THEN Contents ELSE {page.values} :
          page' = [page EXCEPT !.uploading = FALSE, !.values = v]
Answer(c) == Read(c) \/ Saved(c) \/ Switched(c) \/ Uploaded(c)

-----------------------------------------------------------------------------
(* The server.                                                             *)

Serve(c) == /\ c.state = "sent"
            /\ calls' = Handled(calls, c, TRUE, IF c.what = "read" THEN row ELSE None)
            /\ row' = CASE c.what = "save" -> [row EXCEPT !.content = c.arg]
                        [] c.what = "switch" -> [row EXCEPT !.trading = c.arg.to]
                        [] OTHER -> row
\* A closure, or another device.
Others == row' \in Row \ {row} /\ UNCHANGED <<screens, calls>>

-----------------------------------------------------------------------------
Init == /\ row \in Row
        /\ page = NewPage /\ alert = NoAlert /\ calls = {} /\ crossed = FALSE

\* A request or its answer is lost: the client sees a failure.
Lose(c) == c.state # "refused" /\ calls' = Handled(calls, c, FALSE, None) /\ UNCHANGED <<row, screens>>
Go == Open \/ Leave \/ Type \/ Save \/ ConfirmNo
Tap == Refresh \/ ConfirmYes \/ Switch \/ PickImage
Reads == {c \in calls : c.what = "read"}
Step(c) ==
    \/ Answer(c) /\ UNCHANGED row
       /\ crossed' = (crossed \/ (c.what = "switch" /\ c.owner = "shop" /\ c.state = "refused" /\ c.arg.back = c.arg.to)
                              \/ (c.what = "read" /\ \E d \in calls : d.what = "switch" /\ d.owner = "shop"))
    \/ Lose(c) /\ crossed' = (crossed \/ (c.what \in {"save", "switch"} /\ c.state # "sent"))
    \/ Serve(c) /\ UNCHANGED screens
       /\ crossed' = IF c.what = "read" THEN calls # {c} ELSE crossed \/ (row' # row /\ (c.owner = "gone" \/ Reads # {}))
Next == \/ (Go \/ (MayAct /\ Tap)) /\ UNCHANGED <<row, crossed>>
        \/ \E c \in calls : Step(c)
        \/ Others /\ crossed' = TRUE
Spec == Init /\ [][Next]_vars

-----------------------------------------------------------------------------
TypeOK == /\ row \in Row /\ page.values \in Contents \cup {None}
          /\ page.shop \in Row \cup {None} /\ \A c, d \in calls : c.id = d.id => c = d

\* At rest the page shows the shop of the server and its switch, unless it was
\* written by others, or calls crossed, since.
ShowsServer == page.front /\ calls = {} /\ page.shop # None /\ ~crossed
    => /\ page.shop.content = row.content /\ page.trading = row.trading

SpinnerHasCall ==
    LET Has(whats) == \E c \in calls : c.owner = "shop" /\ c.what \in whats IN
    /\ page.refreshing => Has({"read"})
    /\ page.switching => Has({"switch"})
    /\ page.saving => Has({"save"}) \/ \E c \in calls : c.what = "read" /\ c.arg = "save"
    /\ page.uploading => Has({"upload"})
=============================================================================
