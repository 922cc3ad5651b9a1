---------------------------- MODULE SellerShelf -----------------------------
(***************************************************************************)
(* The seller's list of products.  What the handlers do to a row is the    *)
(* subject of Shelf; here a row is its status.  The products fit on one    *)
(* page (longer lists are the subject of SellerDesk), and the form that    *)
(* opens over the list is the subject of ProductForm.                      *)
(***************************************************************************)
EXTENDS Requests

CONSTANTS Products,
          MaxCalls   \* bound: the seller acts while fewer requests are in flight

VARIABLES status,   \* the products on the server; "none" is not there yet
          front,    \* "list", "form" over the list, or "out"
          list,
          calls,
          crossed   \* history: what the list shows may be older than the rows

screens == <<front, list>>
vars == <<status, screens, calls, crossed>>

Statuses == {"off", "on", "pending"}
Live == {p \in Products : status[p] \in Statuses}
NoRow == [p \in {} |-> 0]
MayAct == Cardinality(calls) < MaxCalls
Ask(cs, owner, what, arg) == cs \cup {Request(cs, owner, what, arg)}

-----------------------------------------------------------------------------
(* The list.                                                               *)

NewList == [loading |-> FALSE, refreshing |-> FALSE, bulk |-> None, failed |-> FALSE,
            filter |-> "on", shown |-> NoRow]
Loading(s) == [s EXCEPT !.loading = TRUE, !.failed = FALSE]
LoadOf(filter, s, cs, then) == /\ list' = Loading(s)
                               /\ calls' = Ask(cs, "list", "products", [filter |-> filter, then |-> then])
InitialLoad(s, cs, then) == LoadOf(s.filter, s, cs, then)
\* Mutant: a new filter waits for the next refresh.
FilterOnly(f) == list' = [list EXCEPT !.filter = f] /\ calls' = calls
Filter(f) == InitialLoad([list EXCEPT !.filter = f], calls, None)

ListOffers == IF front # "list" THEN {}
              ELSE {"filter"} \cup (IF list.bulk = None THEN {"bulk"} ELSE {})
                     \cup (IF list.loading /\ list.shown = NoRow THEN {} ELSE {"refresh", "card"})
ListFilter == /\ "filter" \in ListOffers
              /\ \E f \in {"off", "on", "pending"} \ {list.filter} : Filter(f)
              /\ UNCHANGED front
ListRefresh == /\ "refresh" \in ListOffers /\ ~list.refreshing
               /\ InitialLoad([list EXCEPT !.refreshing = TRUE], calls, "refreshing")
               /\ UNCHANGED front
\* switchStatus acts on the status the list shows; nothing stops a second tap.
ListSwitch(p) ==
    /\ "card" \in ListOffers /\ p \in DOMAIN list.shown /\ list.shown[p] # "pending"
    /\ calls' = Ask(calls, "list", "switch",
                    [of |-> p, to |-> IF list.shown[p] = "on" THEN "off" ELSE "on",
                     filter |-> list.filter])
    /\ UNCHANGED screens
ListExport == /\ "bulk" \in ListOffers /\ list' = [list EXCEPT !.bulk = "export"]
              /\ calls' = Ask(calls, "list", "export", None)
              /\ UNCHANGED front
ListImport == /\ "bulk" \in ListOffers /\ list' = [list EXCEPT !.bulk = "import"]
              /\ \E p \in Products :
                    calls' = Ask(calls, "list", "import", [of |-> p, filter |-> list.filter])
              /\ UNCHANGED front
CloseShare == /\ front = "list" /\ list.bulk = "sheet" /\ list' = [list EXCEPT !.bulk = None]
              /\ UNCHANGED <<front, calls>>

-----------------------------------------------------------------------------
(* From screen to screen.                                                  *)

\* Nothing follows the reads of a list that is gone.
Gone(cs) == {[c EXCEPT !.owner = "gone"] : c \in {d \in cs : d.what \in {"switch", "import"}}}
\* Bound: the seller comes back once everything was answered.
Enter == /\ front = "out" /\ calls = {} /\ front' = "list" /\ InitialLoad(NewList, calls, None)
Leave == /\ front = "list" /\ front' = "out" /\ list' = NewList /\ calls' = Gone(calls)
\* A card, or the button for a new product.
OpenForm == "filter" \in ListOffers /\ front' = "form" /\ UNCHANGED <<list, calls>>
\* Back from the form, or from its success dialogue, which puts a new list over everything.
Return == /\ front = "form" /\ front' = "list"
          /\ InitialLoad(list, calls, None) \/ InitialLoad(NewList, Gone(calls), None)

-----------------------------------------------------------------------------
(* The answers.                                                            *)

Ended(c) == c.state \in {"done", "refused"}
Listed(c) ==
    /\ c.what = "products" /\ Ended(c) /\ calls' = calls \ {c} /\ UNCHANGED front
    /\ list' = [list EXCEPT !.loading = FALSE,
                            !.shown = IF c.state = "done" THEN c.reply ELSE NoRow,
                            !.failed = @ \/ c.state = "refused",
                            !.refreshing = @ /\ c.arg.then # "refreshing",
                            !.bulk = IF c.arg.then = "bulk" THEN None ELSE @]
\* What was tapped reads the list again with the filter of the tap.
Switched(c) ==
    /\ c.what = "switch" /\ Ended(c) /\ UNCHANGED front
    /\ IF c.owner = "list" /\ c.state = "done" THEN LoadOf(c.arg.filter, list, calls \ {c}, None)
       ELSE /\ list' = [list EXCEPT !.failed = @ \/ c.owner = "list"]
            /\ calls' = calls \ {c}
Exported(c) == /\ c.what = "export" /\ Ended(c) /\ calls' = calls \ {c}
               /\ list' = [list EXCEPT !.bulk = IF c.state = "done" THEN "sheet" ELSE None]
               /\ UNCHANGED front
Imported(c) ==
    /\ c.what = "import" /\ Ended(c) /\ UNCHANGED front
    /\ CASE c.owner = "gone" -> calls' = calls \ {c} /\ UNCHANGED list
         [] c.owner = "list" /\ c.state = "done" -> LoadOf(c.arg.filter, list, calls \ {c}, "bulk")
         [] OTHER -> list' = [list EXCEPT !.bulk = None] /\ calls' = calls \ {c}
Answer(c) == \/ Listed(c) \/ Switched(c) \/ Exported(c) \/ Imported(c)

-----------------------------------------------------------------------------
(* The server.                                                             *)

Edited(s) == CASE s = "none" -> "pending" [] s = "on" -> "pending" [] OTHER -> s
Allowed(c) == c.arg.of \in Live /\ (c.arg.to = "on" => status[c.arg.of] # "pending")
Put(p, s) == status' = [status EXCEPT ![p] = s]
Serve(c) ==
    /\ c.state = "sent"
    /\ CASE c.what = "products" ->
             /\ calls' = Handled(calls, c, TRUE, [p \in {q \in Live : status[q] = c.arg.filter} |-> status[p]])
             /\ UNCHANGED status
         \* An import that is refused may have taken rows before.
         [] c.what = "import" ->
             /\ calls' \in {Handled(calls, c, ok, None) : ok \in BOOLEAN}
             /\ status' \in {status, [status EXCEPT ![c.arg.of] = Edited(@)]}
         [] c.what = "switch" /\ Allowed(c) -> calls' = Handled(calls, c, TRUE, None) /\ Put(c.arg.of, c.arg.to)
         [] OTHER -> calls' = Handled(calls, c, c.what = "export", None) /\ UNCHANGED status

\* The form, audits, orders, and the shop's other devices.
Others(p) == /\ \E s \in (IF p \in Live THEN Statuses \cup {"gone"}
                          ELSE IF status[p] = "none" THEN {"pending"} ELSE {}) \ {status[p]} : Put(p, s)
             /\ UNCHANGED <<screens, calls>>

-----------------------------------------------------------------------------
Init == /\ status \in [Products -> Statuses \cup {"none"}]
        /\ front = "out" /\ list = NewList
        /\ calls = {} /\ crossed = FALSE

ListServed == \E c \in calls : c.what = "products" /\ c.state = "done"
Tap == \/ ListFilter \/ ListRefresh \/ ListExport \/ ListImport
       \/ \E p \in Products : ListSwitch(p)
       \/ OpenForm
Go == CloseShare \/ Enter \/ Leave \/ Return

\* A request or its answer is lost: the client sees a failure.
Lose(c) == c.state # "refused" /\ calls' = Handled(calls, c, FALSE, None)
Handle(c) ==
    \/ Answer(c) /\ UNCHANGED <<status, crossed>>
    \/ /\ Lose(c) /\ UNCHANGED <<status, screens>>
       /\ crossed' = (crossed \/ (c.state = "done" /\ c.what \in {"switch", "import"}))
    \/ /\ Serve(c) /\ UNCHANGED screens
       /\ crossed' = IF c.what = "products" THEN calls # {c} \/ c.arg.filter # list.filter
                     ELSE crossed \/ (status' # status
                              /\ (c.owner # "list" \/ ListServed \/ Handled(calls, c, FALSE, None) = calls'))
Next == \/ ((MayAct /\ Tap) \/ Go) /\ UNCHANGED <<status, crossed>>
        \/ \E c \in calls : Handle(c)
        \/ \E p \in Products : Others(p) /\ crossed' = TRUE

Spec == Init /\ [][Next]_vars

-----------------------------------------------------------------------------
TypeOK == /\ status \in [Products -> Statuses \cup {"none", "gone"}]
          /\ front \in {"list", "form", "out"} /\ DOMAIN list.shown \subseteq Products
          /\ list.bulk \in {None, "export", "sheet", "import"}
          /\ \A c, d \in calls : c.id = d.id => c = d

\* At rest the list shows the products of its filter, unless reads and writes
\* crossed or the filter was changed while an action was under way.
ShowsServer == front = "list" /\ calls = {} /\ ~list.failed /\ ~crossed
    => list.shown = [p \in {q \in Live : status[q] = list.filter} |-> status[p]]

SpinnerHasCall ==
    LET Has(what, thens) == \E c \in calls : c.owner = "list" /\ c.what = what
                                            /\ (what = "products" => c.arg.then \in thens) IN
    /\ list.loading => \E c \in calls : c.what = "products"
    /\ list.refreshing => Has("products", {"refreshing"})
    /\ list.bulk = "export" => Has("export", {})
    /\ list.bulk = "import" => Has("import", {}) \/ Has("products", {"bulk"})
=============================================================================
