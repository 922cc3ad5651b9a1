---------------------------- MODULE BuyerOrders -----------------------------
(***************************************************************************)
(* The orders of a buyer in the app: the list and the page of one order,   *)
(* with what the server makes of the actions these screens offer.  What    *)
(* the actions do to the goods is the subject of OrderFlow; here an order  *)
(* is its status.  The list stays mounted below the page of an order and   *)
(* loads again when it comes to the front.                                 *)
(***************************************************************************)
EXTENDS Requests

CONSTANTS Orders,    \* bound: no more than the page of 50 that the list asks for
          MaxCalls   \* bound: a buyer acts while fewer requests are in flight

VARIABLES status,   \* status of each order, on the server
          hidden,   \* orders the buyer deleted
          front,    \* "list", "detail", or "out" of these screens
          list, page,
          calls,
          crossed   \* history: what the list shows may be older than the orders

server == <<status, hidden>>
screens == <<front, list, page>>
vars == <<status, hidden, front, list, page, calls, crossed>>

\* 0 placed, 1 accepted, 2 on its way, 3 delivered, 4 completed, 5 cancelled.
Statuses == 0..5
Arg(o, shown) == [order |-> o, shown |-> shown]
NoArg == Arg(None, 0)
Changes == {"cancel", "receive", "reorder", "delete"}
Absent == [o \in {} |-> 0]

Loading(s) == [s EXCEPT !.loading = TRUE, !.failed = FALSE]
Blank == [loading |-> FALSE, failed |-> FALSE, shown |-> Absent, submitting |-> FALSE, of |-> None]
MayAct == Cardinality(calls) < MaxCalls
Ask(cs, owner, what, arg) == cs \cup {Request(cs, owner, what, arg)}
Waits(s) == s.loading /\ s.shown = Absent
Failed(s) == s.failed /\ s.shown = Absent

-----------------------------------------------------------------------------
(* The list.                                                               *)

\* Mutant: a cancelled order can be received.
ListActionsCancelled(s) == CASE s \in {0, 1} -> {"cancel"} [] s \in {3, 5} -> {"receive"}
                             [] s = 4 -> {"reorder"} [] OTHER -> {}
ListActions(s) == CASE s \in {0, 1} -> {"cancel"} [] s = 3 -> {"receive"}
                    [] s = 4 -> {"reorder"} [] s = 5 -> {"delete"} [] OTHER -> {}

\* matchFilter: no filter hides an order that "all" does not show.
ListOffers == IF front # "list" \/ Waits(list) THEN {}
              ELSE IF Failed(list) THEN {"retry"} ELSE {"card", "action"}

ListRetry == /\ "retry" \in ListOffers /\ list' = Loading(list)
             /\ calls' = Ask(calls, "list", "orders", NoArg)
             /\ UNCHANGED <<front, page>>
\* Nothing keeps the buyer from tapping twice.
ListAct(o) == /\ "action" \in ListOffers /\ o \in DOMAIN list.shown
              /\ \E a \in ListActions(list.shown[o]) :
                    calls' = Ask(calls, "list", a, Arg(o, list.shown[o]))
              /\ UNCHANGED screens
ListOpen(o) == /\ "card" \in ListOffers /\ o \in DOMAIN list.shown
               /\ front' = "detail" /\ page' = [Blank EXCEPT !.loading = TRUE, !.of = o]
               /\ calls' = Ask(calls, "page", "order", Arg(o, 0)) /\ UNCHANGED list

-----------------------------------------------------------------------------
(* The page of an order.                                                   *)

PageActions(s) == {"reorder"} \cup (CASE s = 0 -> {"cancel"} [] s = 3 -> {"receive"}
                                      [] s \in {4, 5} -> {"delete"} [] OTHER -> {})
\* An answer without an order shows "not found", which can be retried as well.
PageOffers == IF front # "detail" \/ Waits(page) THEN {}
              ELSE IF page.shown = Absent THEN {"retry"}
              ELSE IF page.submitting THEN {} ELSE {"action"}
PageRetry == /\ "retry" \in PageOffers /\ page' = Loading(page)
             /\ calls' = Ask(calls, "page", "order", Arg(page.of, 0))
             /\ UNCHANGED <<front, list>>
PageAct == /\ "action" \in PageOffers
           /\ page' = [page EXCEPT !.submitting = TRUE]
           /\ LET s == page.shown[page.of] IN
              \E a \in PageActions(s) : calls' = Ask(calls, "page", a, Arg(page.of, s))
           /\ UNCHANGED <<front, list>>

-----------------------------------------------------------------------------
(* From screen to screen.                                                  *)

\* Nothing follows the reads of a screen that is gone.
Gone(cs, owner) == {IF c.owner # owner THEN c
                    ELSE [c EXCEPT !.owner = IF owner = "list" THEN "gone" ELSE "left"] :
                    c \in {d \in cs : d.owner # owner \/ d.what \in Changes}}
\* The list asks twice when it is mounted: for the focus and for the mount.
\* Bound: a buyer comes back once everything was answered.
Enter == /\ front = "out" /\ calls = {} /\ front' = "list" /\ list' = Loading(Blank)
         /\ calls' = Ask(Ask(calls, "list", "orders", NoArg), "list", "orders", NoArg)
         /\ UNCHANGED page
\* router.back leaves whichever screen is in front.
Back(cs) ==
    CASE front = "detail" -> /\ front' = "list" /\ page' = Blank /\ list' = Loading(list)
                             /\ calls' = Ask(Gone(cs, "page"), "list", "orders", NoArg)
      [] front = "list" -> front' = "out" /\ list' = Blank /\ calls' = Gone(cs, "list") /\ UNCHANGED page
      [] front = "out" -> calls' = cs /\ UNCHANGED screens

-----------------------------------------------------------------------------
(* The answers.                                                            *)

Filled(s, c) == [s EXCEPT !.shown = c.reply, !.loading = FALSE]
Emptied(s) == [s EXCEPT !.shown = Absent, !.loading = FALSE, !.failed = TRUE]

Read(c) ==
    /\ c.state \in {"done", "refused"} /\ UNCHANGED front /\ calls' = calls \ {c}
    /\ LET on(s) == IF c.state = "done" THEN Filled(s, c) ELSE Emptied(s) IN
       \/ c.what = "orders" /\ list' = on(list) /\ UNCHANGED page
       \/ c.what = "order" /\ page' = on(page) /\ UNCHANGED list

Acted(c) ==
    /\ c.what \in Changes /\ c.state = "done"
    /\ CASE c.owner = "list" -> /\ list' = Loading(list)
                                /\ calls' = Ask(calls \ {c}, "list", "orders", NoArg)
                                /\ UNCHANGED <<front, page>>
         \* The page waits for its read with the buttons off.
         [] c.owner = "page" /\ c.what # "delete" ->
              /\ page' = Loading(page) /\ calls' = Ask(calls \ {c}, "page", "again", Arg(page.of, 0))
              /\ UNCHANGED <<front, list>>
         \* Also when the page was left before the answer.
         [] c.owner \in {"page", "left"} /\ c.what = "delete" -> Back(calls \ {c})
         [] OTHER -> calls' = calls \ {c} /\ UNCHANGED screens
\* The read after an action: the buttons work again, the page may be empty.
ReadAgain(c) ==
    /\ c.what = "again" /\ c.state \in {"done", "refused"} /\ calls' = calls \ {c}
    /\ page' = [(IF c.state = "done" THEN Filled(page, c) ELSE Emptied(page)) EXCEPT !.submitting = FALSE]
    /\ UNCHANGED <<front, list>>
ActRefused(c) == /\ c.what \in Changes /\ c.state = "refused" /\ calls' = calls \ {c}
                 /\ page' = [page EXCEPT !.submitting = @ /\ c.owner # "page"]
                 /\ UNCHANGED <<front, list>>

-----------------------------------------------------------------------------
(* The server.                                                             *)

Visible == Orders \ hidden
Accepts(c) == c.arg.order \in Visible
              /\ CASE c.what = "cancel" -> status[c.arg.order] = 0
                   [] c.what = "receive" -> status[c.arg.order] = 3
                   [] c.what = "delete" -> status[c.arg.order] \in {4, 5}
                   [] OTHER -> TRUE
Serve(c) ==
    LET o == c.arg.order
        does(a) == c.what = a /\ Accepts(c)
    IN /\ c.state = "sent" /\ UNCHANGED screens
       /\ status' = IF does("cancel") THEN [status EXCEPT ![o] = 5]
                    ELSE IF does("receive") THEN [status EXCEPT ![o] = 4] ELSE status
       /\ hidden' = IF does("delete") THEN hidden \cup {o} ELSE hidden
       /\ calls' =
            CASE c.what = "orders" -> Handled(calls, c, TRUE, [x \in Visible |-> status[x]])
              [] c.what \in {"order", "again"} ->
                   Handled(calls, c, o \in Visible, [x \in {o} |-> status[x]])
              [] OTHER -> Handled(calls, c, Accepts(c), None)

\* The seller, who may also reject a placed order, and the scheduler, which
\* cancels it when nobody does either and completes a delivered one.
MovesOn == {<<0, 1>>, <<0, 5>>, <<1, 2>>, <<2, 3>>, <<3, 4>>}
Advance(o) == /\ \E m \in MovesOn : m[1] = status[o] /\ status' = [status EXCEPT ![o] = m[2]]
              /\ UNCHANGED <<hidden, screens, calls>>

-----------------------------------------------------------------------------
Init == /\ status \in [Orders -> Statuses] /\ hidden = {}
        /\ front = "out" /\ list = Blank /\ page = Blank
        /\ calls = {} /\ crossed = FALSE

ListServed == \E c \in calls : c.what = "orders" /\ c.state = "done"

Tap == \/ ListRetry \/ PageRetry \/ PageAct
       \/ \E o \in Orders : ListAct(o) \/ ListOpen(o)
Go == Enter \/ (front # "out" /\ Back(calls))

Answer(c) == Read(c) \/ Acted(c) \/ ReadAgain(c) \/ ActRefused(c)
\* A request or its answer is lost: the client sees a failure.
Lose(c) == /\ c.state # "refused"
           /\ calls' = Handled(calls, c, FALSE, None)
Handle(c) ==
    \/ Answer(c) /\ UNCHANGED <<server, crossed>>
    \/ /\ Lose(c) /\ UNCHANGED <<server, screens>>
       /\ crossed' = (crossed \/ (c.what \in Changes /\ c.state = "done"))
    \/ /\ Serve(c)
       /\ crossed' = IF c.what = "orders" THEN calls # {c}
                     ELSE crossed \/ (<<status, hidden>>' # <<status, hidden>>
                                      /\ (ListServed \/ c.owner # "list"))
Next == \/ ((MayAct /\ Tap) \/ Go) /\ UNCHANGED <<server, crossed>>
        \/ \E c \in calls : Handle(c)
        \/ \E o \in Orders : Advance(o) /\ crossed' = TRUE

Fairness == \A i \in 1..(MaxCalls + 2) : WF_vars(\E c \in calls : c.id = i /\ Handle(c))
Spec == Init /\ [][Next]_vars /\ Fairness

-----------------------------------------------------------------------------
TypeOK == /\ status \in [Orders -> Statuses] /\ hidden \subseteq Orders
          /\ front \in {"list", "detail", "out"} /\ DOMAIN list.shown \subseteq Orders
          /\ DOMAIN page.shown \subseteq {page.of}
          /\ \A c, d \in calls : c.id = d.id => c = d

Has(owner, whats) == \E c \in calls : c.owner = owner /\ c.what \in whats
SpinnerHasCall == /\ list.loading => Has("list", {"orders"})
                  /\ page.loading => Has("page", {"order", "again"})
                  /\ page.submitting => Has("page", Changes \cup {"again"})

\* What a screen offers for a status is what the server accepts in it, but for
\* the cancellation that the list offers for an accepted order.
OffersAccepted ==
    \A c \in calls : c.state = "sent" /\ c.what \in Changes
        /\ c.arg.order \in Visible /\ status[c.arg.order] = c.arg.shown
        /\ ~(c.what = "cancel" /\ c.arg.shown = 1) => Accepts(c)

\* At rest the list shows the orders of the server.
ShowsServer == front = "list" /\ calls = {} /\ ~list.failed /\ ~crossed
                  => list.shown = [o \in Visible |-> status[o]]
=============================================================================
