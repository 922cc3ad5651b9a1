---------------------------- MODULE SellerOrder -----------------------------
(***************************************************************************)
(* The page of an order in the seller app: what it offers follows the      *)
(* order it shows, and the server decides again on the row it has locked   *)
(* (the whole life of an order is the subject of OrderFlow).               *)
(***************************************************************************)
EXTENDS Requests

CONSTANTS Remarks,   \* what the seller may have noted; None is no note
          MaxCalls   \* bound: the page is opened while fewer requests are in flight

VARIABLES order,    \* on the server
          page,
          calls,
          crossed   \* history: somebody else wrote the order since it was read

vars == <<order, page, calls, crossed>>

Statuses == 0..5   \* waiting, confirmed, delivering, arrived, completed, cancelled
NewPage == [open |-> FALSE, loading |-> FALSE, acting |-> FALSE, failed |-> FALSE, detail |-> None,
            reason |-> FALSE, draft |-> None]
Deeds == {"confirm", "reject", "deliver", "arrived", "remark"}

-----------------------------------------------------------------------------
(* The page.                                                               *)

Load(p, cs, then) ==
    /\ page' = [p EXCEPT !.loading = TRUE, !.failed = FALSE]
    /\ calls' = cs \cup {Request(cs, "order", "read", then)}
Open == ~page.open /\ Cardinality(calls) < MaxCalls /\ Load([NewPage EXCEPT !.open = TRUE], calls, "open")
Retry == page.open /\ page.failed /\ page.detail = None /\ Load(page, calls, "retry")
Leave == /\ page.open /\ page' = NewPage
         /\ calls' = {[c EXCEPT !.owner = "gone"] : c \in {d \in calls : d.what # "read"}}

\* What the page lets the seller do with the order it shows.
Can == IF page.detail = None THEN {}
       ELSE CASE page.detail.status = 0 -> {"confirm", "reject"}
              [] page.detail.status = 1 -> {"deliver"}
              [] page.detail.status = 2 -> {"arrived"}
              [] OTHER -> {}
Offers == IF page.detail = None \/ page.acting THEN {} ELSE Can \cup {"remark"}

\* runAction: the buttons are off until the order has been read again.
Act(what) == /\ what \in Offers /\ (what = "reject" => page.reason)
             /\ page' = [page EXCEPT !.acting = TRUE]
             /\ calls' = calls \cup {Request(calls, "order", what, page.draft)}
Note == /\ page.detail # None
        /\ \/ \E r \in Remarks : page' = [page EXCEPT !.draft = r]
           \/ "reject" \in Can /\ \E b \in BOOLEAN : page' = [page EXCEPT !.reason = b]
        /\ UNCHANGED calls

Ended(c) == c.state \in {"done", "refused"}
\* A load that fails takes the order off the page, an action's too; one that
\* succeeds takes the note that was being written.
Read(c) ==
    /\ c.what = "read" /\ Ended(c) /\ calls' = calls \ {c}
    /\ LET p == [page EXCEPT !.loading = FALSE, !.acting = @ /\ c.arg # "act"] IN
       page' = IF c.state = "done" THEN [p EXCEPT !.detail = c.reply, !.draft = c.reply.remark]
               ELSE [p EXCEPT !.detail = None, !.failed = TRUE]
Acted(c) ==
    /\ c.what \in Deeds /\ Ended(c)
    /\ IF c.owner = "order" /\ c.state = "done" THEN Load(page, calls \ {c}, "act")
       ELSE /\ calls' = calls \ {c}
            /\ page' = [page EXCEPT !.acting = @ /\ c.owner # "order"]

-----------------------------------------------------------------------------
(* The server: every handler locks the row, and checks it.                 *)

Step(what) == CASE what = "confirm" -> <<0, 1>> [] what = "reject" -> <<0, 5>>
                [] what = "deliver" -> <<1, 2>> [] what = "arrived" -> <<2, 3>>
                [] what = "remark" -> <<order.status, order.status>>
Accepts(what) == order.status = Step(what)[1]
Serve(c) ==
    /\ c.state = "sent" /\ UNCHANGED page
    /\ CASE c.what = "read" -> calls' = Handled(calls, c, TRUE, order) /\ UNCHANGED order
         [] c.what \in Deeds /\ Accepts(c.what) ->
              /\ calls' = Handled(calls, c, TRUE, None)
              /\ order' = [status |-> Step(c.what)[2],
                           remark |-> IF c.what = "remark" THEN c.arg ELSE order.remark]
         [] OTHER -> calls' = Handled(calls, c, FALSE, None) /\ UNCHANGED order
\* The buyer, the scheduler, another device.
Others == /\ order' \in {[order EXCEPT !.status = s] : s \in {s \in Statuses : s > order.status /\ s > 2}}
                        \cup {[order EXCEPT !.remark = r] : r \in Remarks}
          /\ order' # order /\ UNCHANGED <<page, calls>>

-----------------------------------------------------------------------------
Init == /\ order \in [status : Statuses, remark : Remarks \cup {None}]
        /\ page = NewPage /\ calls = {} /\ crossed = FALSE

\* A request or its answer is lost: the client sees a failure.
Lose(c) == c.state # "refused" /\ calls' = Handled(calls, c, FALSE, None) /\ UNCHANGED <<order, page>>
Next == \/ /\ Open \/ Retry \/ Leave \/ Note \/ \E what \in Deeds : Act(what)
           /\ crossed' = (crossed /\ page'.detail = page.detail) /\ UNCHANGED order
        \/ \E c \in calls : \/ (Read(c) \/ Acted(c)) /\ UNCHANGED <<order, crossed>>
                            \/ Lose(c) /\ crossed' = (crossed \/ (c.what # "read" /\ c.state = "done"))
                            \/ Serve(c) /\ crossed' = (c.what # "read" /\ (crossed \/ (order' # order /\ c.owner = "gone")))
        \/ Others /\ crossed' = TRUE
Spec == Init /\ [][Next]_vars

-----------------------------------------------------------------------------
TypeOK == /\ order \in [status : Statuses, remark : Remarks \cup {None}]
          /\ page.open \in BOOLEAN /\ page.draft \in Remarks \cup {None}
          /\ \A c, d \in calls : c.id = d.id => c = d

\* At rest the page shows the order of the server, and what it offers is what
\* the server accepts, unless somebody else wrote the order meanwhile.
ShowsServer == page.detail # None /\ calls = {} /\ ~crossed
    => page.detail = order /\ \A what \in Deeds : what \in Offers <=> Accepts(what)

\* The spinner, and the buttons that are off, stand for a request under way.
SpinnerHasCall == /\ page.loading => \E c \in calls : c.what = "read"
                  /\ page.acting => \E c \in calls : c.owner = "order" /\ (c.what = "read" => c.arg = "act")
=============================================================================
