----------------------------- MODULE AdminLists -----------------------------
(***************************************************************************)
(* The admin's pages of users, products, orders and shops, and the         *)
(* dashboard: a table of what a filter brings, a drawer for one row, and   *)
(* deeds on a row, which read the table again when they succeed.  No       *)
(* request throws: an error is an answer with a code.  A further page of   *)
(* the table is asked for like another filter.                             *)
(***************************************************************************)
EXTENDS Requests

CONSTANTS Rows,
          MaxCalls   \* bound: the admin acts while fewer requests are in flight

VARIABLES state,    \* of the rows, on the server
          view,     \* the page in front
          calls,
          crossed   \* history: reads crossed each other, or rows changed since

vars == <<state, view, calls, crossed>>

Statuses == [users |-> {"enabled", "disabled"}, products |-> {"off", "on", "pending"},
             orders |-> {"unsettled", "settled"}, shops |-> {"waiting", "passed", "refused"},
             home |-> {"waiting", "confirmed"}]
\* Bound: one status of a kind to ask for, or none, where the rest is rich enough.
Filters == [users |-> "disabled", products |-> "pending", orders |-> "unsettled",
            shops |-> None, home |-> None]
NoRow == [r \in {} |-> 0]
NoDrawer == [open |-> FALSE, of |-> None, row |-> None, loading |-> FALSE]
\* asked is the filter that was last asked for, reject the shop that is being refused.
NewView(name) == [name |-> name, open |-> FALSE, filter |-> None, asked |-> None, rows |-> NoRow,
                  loading |-> FALSE, failed |-> FALSE, drawer |-> NoDrawer, reject |-> None]
MayAct == Cardinality(calls) < MaxCalls
Ask(cs, what, arg) == cs \cup {Request(cs, "page", what, arg)}
Lists(cs) == {c \in cs : c.what = "list"}
Matching(s, f) == [r \in {q \in Rows : f \in {None, s[q]}} |-> s[r]]

-----------------------------------------------------------------------------
(* The table.                                                              *)

\* Read with what the filter's fields hold by now, whoever asks.
Load(v, cs) == /\ view' = [v EXCEPT !.loading = TRUE, !.failed = FALSE, !.asked = v.filter]
               /\ calls' = Ask(cs, "list", v.filter)
\* Mutant: an error returns before the sign of loading is taken down.
ErrorFirst(c) == [view EXCEPT !.loading = c.state = "refused"]
ListEnds(c) == [view EXCEPT !.loading = FALSE]
\* Rows that cannot be read again stay.
ListAnswer(c) == /\ c.what = "list" /\ c.state \in {"done", "refused"} /\ calls' = calls \ {c}
                 /\ view' = IF c.state = "done" THEN [ListEnds(c) EXCEPT !.rows = c.reply]
                            ELSE [ListEnds(c) EXCEPT !.failed = TRUE]

\* While the dashboard loads, so does its button.
HomeOffers == IF view.loading THEN {} ELSE {"load"}
\* The drawer and the question lie over the rest.
Offers == IF ~view.open THEN {}
          ELSE IF view.reject # None THEN {"reject"}
          ELSE IF view.drawer.open THEN {"drawer"}
          ELSE IF view.name = "home" THEN HomeOffers
          ELSE {"load", "filter", "rows"}
Search == "load" \in Offers /\ Load(view, calls)
Fill == /\ "filter" \in Offers /\ UNCHANGED calls
        /\ \E f \in {Filters[view.name], None} \ {view.filter} : view' = [view EXCEPT !.filter = f]

-----------------------------------------------------------------------------
(* The drawer.  That of a shop reads the shop again, and shows whichever   *)
(* answer comes.                                                           *)

OpenDrawer(r) ==
    /\ "rows" \in Offers /\ r \in DOMAIN view.rows
    /\ LET shop == view.name = "shops" IN
       /\ view' = [view EXCEPT !.drawer = [open |-> TRUE, of |-> r, row |-> view.rows[r], loading |-> shop]]
       /\ calls' = IF shop THEN Ask(calls, "detail", r) ELSE calls
Closed(v) == [v EXCEPT !.drawer = [NoDrawer EXCEPT !.loading = v.drawer.loading]]
CloseDrawer == "drawer" \in Offers /\ view' = Closed(view) /\ UNCHANGED calls
DetailAnswer(c) ==
    /\ c.what = "detail" /\ c.state \in {"done", "refused"} /\ calls' = calls \ {c}
    /\ view' = IF c.state = "done" /\ view.drawer.open
               THEN [view EXCEPT !.drawer = [@ EXCEPT !.of = c.arg, !.row = c.reply, !.loading = FALSE]]
               ELSE [view EXCEPT !.drawer.loading = FALSE]

-----------------------------------------------------------------------------
(* What can be done with a row, as it is shown: in the table, in the queue *)
(* of the rows that stand out (any of those it may hold), in the drawer.   *)
(* That a product is recommended, and a shop closed, changes no status; to *)
(* refuse a shop is a question of its own.                                 *)

Deed(what, to) == [what |-> what, to |-> to]
Turn(s, a, b) == {Deed("status", IF s = a THEN b ELSE a)}

UsersTable(s) == Turn(s, "enabled", "disabled")
UsersQueue(s) == Turn(s, "enabled", "disabled")
UsersDrawer(s) == Turn(s, "enabled", "disabled")
OrdersTable(s) == Turn(s, "settled", "unsettled")
OrdersQueue(s) == Turn(s, "settled", "unsettled")
OrdersActions(s) == Turn(s, "settled", "unsettled")
OrdersDrawer(s) == OrdersActions(s)
\* A product that waits may be audited, and may as well be put on sale at once.
ReviewQueue == {r \in DOMAIN view.rows : view.rows[r] = "pending"}
ProductsQueue(r) == {Deed("audit", t) : t \in IF r \in ReviewQueue THEN {"on", "off"} ELSE {}}
ProductsExtra(s) == {Deed("audit", t) : t \in IF s = "pending" THEN {"on", "off"} ELSE {}}
ProductsTable(s) == ProductsExtra(s) \cup Turn(s, "on", "off") \cup {Deed("recommend", None)}
ProductsActions(s) == Turn(s, "on", "off") \cup {Deed("recommend", None)}
ProductsDrawer(s) == ProductsExtra(s) \cup ProductsActions(s)
\* A shop may be passed, refused or closed whatever it is.
PendingRows == {r \in DOMAIN view.rows : view.rows[r] = "waiting"}
ShopsQueue(r) == IF r \in PendingRows THEN {Deed("status", "passed"), Deed("ask", None)} ELSE {}
ShopsTable(s) == {Deed("status", "passed"), Deed("ask", None), Deed("close", None)}
ShopsActions(s) == ShopsTable(s)
ShopsDrawer(s) == ShopsActions(s)

Listed(r) ==
    LET s == view.rows[r] IN
    CASE view.name = "users" -> UsersTable(s) \cup UsersQueue(s)
      [] view.name = "orders" -> OrdersTable(s) \cup OrdersQueue(s)
      [] view.name = "products" -> ProductsTable(s) \cup ProductsQueue(r)
      [] view.name = "shops" -> ShopsTable(s) \cup ShopsQueue(r)
Drawn(s) == CASE view.name = "users" -> UsersDrawer(s) [] view.name = "orders" -> OrdersDrawer(s)
              [] view.name = "products" -> ProductsDrawer(s) [] view.name = "shops" -> ShopsDrawer(s)
Does(r, d, from) ==
    \/ /\ d.what = "ask" /\ view' = [view EXCEPT !.reject = r] /\ UNCHANGED calls
    \/ /\ d.what # "ask" /\ calls' = Ask(calls, d.what, [of |-> r, to |-> d.to, from |-> from])
       /\ UNCHANGED view
\* Nothing stops a second click.
RowDeed(r) == /\ "rows" \in Offers /\ r \in DOMAIN view.rows
              /\ \E d \in Listed(r) : Does(r, d, "row")
DrawerDeed == "drawer" \in Offers /\ \E d \in Drawn(view.drawer.row) : Does(view.drawer.of, d, "drawer")
RejectNo == "reject" \in Offers /\ view' = [view EXCEPT !.reject = None] /\ UNCHANGED calls
RejectYes == "reject" \in Offers /\ Does(view.reject, Deed("status", "refused"), "reject")

Deeds == {"status", "audit", "recommend", "close"}
\* An audit of a shop closes the drawer wherever it was asked for, the others
\* only where they were; the question goes when the table has been asked again.
Closes(c) == c.arg.from # "row" \/ (view.name = "shops" /\ c.what = "status")
DeedAnswer(c) ==
    /\ c.what \in Deeds /\ c.state \in {"done", "refused"}
    /\ IF c.state = "done"
       THEN LET v == IF Closes(c) THEN Closed(view) ELSE view IN
            Load([v EXCEPT !.reject = IF c.arg.from = "reject" THEN None ELSE @], calls \ {c})
       ELSE calls' = calls \ {c} /\ UNCHANGED view

-----------------------------------------------------------------------------
(* From page to page; the server.                                          *)

\* A page that is left forgets everything; what was under way by then comes, for
\* the page that is opened next, from somebody else.
Open == ~view.open /\ Load([view EXCEPT !.open = TRUE], calls)

Answers(c) == ListAnswer(c) \/ DetailAnswer(c) \/ DeedAnswer(c)
\* A product that passes without stock goes off the shelf, and cannot be put on it.
Effects(c) == LET s == state[c.arg.of] IN
    CASE c.what \in {"recommend", "close"} -> {s}
      [] c.what = "audit" -> IF s = "pending" THEN {c.arg.to, "off"} ELSE {}
      [] OTHER -> {c.arg.to}
Serve(c) ==
    /\ c.state = "sent" /\ UNCHANGED view
    /\ \/ /\ c.what \in Deeds /\ calls' = Handled(calls, c, TRUE, None)
          /\ \E t \in Effects(c) : state' = [state EXCEPT ![c.arg.of] = t]
       \/ /\ c.what \in Deeds /\ (Effects(c) = {} \/ (c.what = "status" /\ c.arg.to = "on"))
          /\ calls' = Handled(calls, c, FALSE, None) /\ UNCHANGED state
       \/ /\ c.what = "list" /\ calls' = Handled(calls, c, TRUE, Matching(state, c.arg)) /\ UNCHANGED state
       \/ /\ c.what = "detail" /\ calls' = Handled(calls, c, TRUE, state[c.arg]) /\ UNCHANGED state
\* Everybody else.
Others == /\ \E r \in Rows, t \in Statuses[view.name] : t # state[r] /\ state' = [state EXCEPT ![r] = t]
          /\ UNCHANGED <<view, calls>>
\* A request or its answer is lost: the client makes an answer of its own.
Lose(c) == c.state # "refused" /\ calls' = Handled(calls, c, FALSE, None) /\ UNCHANGED <<state, view>>

-----------------------------------------------------------------------------
\* One page is followed at a time, with the rows of its kind.
Init == /\ \E name \in DOMAIN Statuses : state \in [Rows -> Statuses[name]] /\ view = NewView(name)
        /\ calls = {} /\ crossed = FALSE

Tap == Search \/ DrawerDeed \/ RejectYes \/ \E r \in Rows : RowDeed(r) \/ OpenDrawer(r)
Go == Fill \/ CloseDrawer \/ RejectNo \/ Open
Handle(c) ==
    \/ Answers(c) /\ UNCHANGED <<state, crossed>>
    \/ Serve(c) /\ crossed' = IF c.what = "list" THEN Lists(calls) # {c} \/ c.arg # view.asked
                              ELSE crossed
    \/ Lose(c) /\ crossed' = (crossed \/ (c.what \in Deeds /\ c.state = "done"))
Next == \/ (Go \/ (MayAct /\ Tap)) /\ UNCHANGED <<state, crossed>>
        \/ \E c \in calls : Handle(c)
        \/ Others /\ crossed' = TRUE
Spec == Init /\ [][Next]_vars

-----------------------------------------------------------------------------
TypeOK == /\ state \in [Rows -> Statuses[view.name]] /\ DOMAIN view.rows \subseteq Rows
          /\ view.filter \in Statuses[view.name] \cup {None} /\ view.reject \in Rows \cup {None}
          /\ \A c, d \in calls : c.id = d.id => c = d

\* At rest the table shows what the server has for the filter that was last
\* asked for, unless reads crossed or the rows changed since.
ShowsServer == view.open /\ calls = {} /\ ~view.failed /\ ~crossed => view.rows = Matching(state, view.asked)

SpinnerHasCall == /\ view.loading => Lists(calls) # {}
                  /\ view.drawer.loading => \E c \in calls : c.what = "detail"
=============================================================================
