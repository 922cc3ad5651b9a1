----------------------------- MODULE AdminForms -----------------------------
(***************************************************************************)
(* The admin's pages of banners and of categories: a list, a form for a    *)
(* new row or for one that is edited, and a question before a deletion.    *)
(* Where a category hangs is the subject of CategoryTree; a row here is    *)
(* its content.  The banners' filter and the pages of their list are left  *)
(* out: the list is all rows of one selection that stays (AdminLists has   *)
(* lists whose selection changes).                                         *)
(***************************************************************************)
EXTENDS Requests

CONSTANTS Rows,
          Contents,  \* what the fields of a form can be that are accepted
          MaxCalls   \* bound: the admin acts while fewer requests are in flight

VARIABLES content,  \* of the rows, on the server; None is not there
          view, calls,
          crossed   \* history: reads crossed each other, or rows changed since

vars == <<content, view, calls, crossed>>

Names == {"banners", "categories"}
NoRow == [r \in {} |-> None]
NoForm == [open |-> FALSE, edit |-> None, value |-> None]
NewView(name) == [name |-> name, open |-> FALSE, loading |-> FALSE, failed |-> FALSE, rows |-> NoRow,
                  form |-> NoForm, confirm |-> None]
MayAct == Cardinality(calls) < MaxCalls
Ask(cs, what, arg) == cs \cup {Request(cs, "page", what, arg)}
Lists(cs) == {c \in cs : c.what = "list"}
Live(s) == [r \in {q \in Rows : s[q] # None} |-> s[r]]

-----------------------------------------------------------------------------
(* The page.                                                               *)

Load(v, cs, then) == view' = [v EXCEPT !.loading = TRUE, !.failed = FALSE] /\ calls' = Ask(cs, "list", then)
ListAnswer(c) ==
    /\ c.what = "list" /\ c.state \in {"done", "refused"} /\ calls' = calls \ {c}
    /\ LET v == [view EXCEPT !.loading = FALSE, !.confirm = IF c.arg = "delete" THEN None ELSE @] IN
       view' = IF c.state = "done" THEN [v EXCEPT !.rows = c.reply] ELSE [v EXCEPT !.failed = TRUE]
\* A page that is left forgets everything; what was under way by then comes, for
\* the page that is opened next, from somebody else.
Open == ~view.open /\ Load([view EXCEPT !.open = TRUE], calls, None)

\* The rows of the table, and those of the queue that stand out (any may).
BannersTable == {"edit", "remove"}
BannersQueue == {"edit"}
CategoriesTable == {"new", "edit", "remove"}
CategoriesQueue == {"edit"}
RowOffers == IF view.name = "banners" THEN BannersTable \cup BannersQueue
             ELSE CategoriesTable \cup CategoriesQueue
Offers == IF ~view.open THEN {} ELSE IF view.confirm # None THEN {"confirm"}
          ELSE IF view.form.open THEN {"form"}
          ELSE {"load", "new"} \cup IF view.rows = NoRow THEN {} ELSE RowOffers
Refresh == "load" \in Offers /\ Load(view, calls, None)
Fill(form) == view' = [view EXCEPT !.form = form] /\ UNCHANGED calls
New == "new" \in Offers /\ \E v \in Contents : Fill([open |-> TRUE, edit |-> None, value |-> v])
Edit(r) == "edit" \in Offers /\ r \in DOMAIN view.rows /\ Fill([open |-> TRUE, edit |-> r, value |-> view.rows[r]])
Type == "form" \in Offers /\ \E v \in Contents : Fill([view.form EXCEPT !.value = v])
Cancel == "form" \in Offers /\ Fill(NoForm)

\* Fields that are not accepted stay where they are; nothing stops a second click.
SaveForm == "form" \in Offers /\ calls' = Ask(calls, "save", view.form) /\ UNCHANGED view
\* The answer closes whichever form is open by then.
SaveAnswer(c) == /\ c.what = "save" /\ c.state \in {"done", "refused"}
                 /\ IF c.state = "done" THEN Load([view EXCEPT !.form = NoForm], calls \ {c}, None)
                    ELSE calls' = calls \ {c} /\ UNCHANGED view

\* The question stays, its button off, until the list was read again.
Remove(r) == "remove" \in Offers /\ r \in DOMAIN view.rows /\ view' = [view EXCEPT !.confirm = r] /\ UNCHANGED calls
RemoveNo == "confirm" \in Offers /\ view' = [view EXCEPT !.confirm = None] /\ UNCHANGED calls
RemoveYes == /\ "confirm" \in Offers /\ ~\E c \in calls : c.what = "delete" \/ (c.what = "list" /\ c.arg = "delete")
             /\ calls' = Ask(calls, "delete", view.confirm) /\ UNCHANGED view
RemoveAnswer(c) == /\ c.what = "delete" /\ c.state \in {"done", "refused"}
                   /\ IF c.state = "done" THEN Load(view, calls \ {c}, "delete")
                      ELSE calls' = calls \ {c} /\ view' = [view EXCEPT !.confirm = None]
Answer(c) == ListAnswer(c) \/ SaveAnswer(c) \/ RemoveAnswer(c)

-----------------------------------------------------------------------------
(* The server.                                                             *)

Put(r, v) == content' = [content EXCEPT ![r] = v]
Taken(c) == IF c.arg.edit = None THEN \E r \in Rows : content[r] = None /\ Put(r, c.arg.value)
            ELSE content[c.arg.edit] # None /\ Put(c.arg.edit, c.arg.value)
\* What refuses a save, or the deletion of a category that has children or
\* products, is not a matter of its content.
Serve(c) ==
    /\ c.state = "sent" /\ UNCHANGED view
    /\ \/ c.what = "list" /\ calls' = Handled(calls, c, TRUE, Live(content)) /\ UNCHANGED content
       \/ c.what = "save" /\ Taken(c) /\ calls' = Handled(calls, c, TRUE, None)
       \/ c.what = "delete" /\ Put(c.arg, None) /\ calls' = Handled(calls, c, TRUE, None)
       \/ c.what # "list" /\ calls' = Handled(calls, c, FALSE, None) /\ UNCHANGED content
\* Another admin.
Others == /\ \E r \in Rows, v \in Contents \cup {None} : v # content[r] /\ Put(r, v)
          /\ UNCHANGED <<view, calls>>
\* A request or its answer is lost: the client makes an answer of its own.
Lose(c) == c.state # "refused" /\ calls' = Handled(calls, c, FALSE, None) /\ UNCHANGED <<content, view>>

-----------------------------------------------------------------------------
Init == /\ content \in [Rows -> Contents \cup {None}] /\ \E name \in Names : view = NewView(name)
        /\ calls = {} /\ crossed = FALSE

Tap == Refresh \/ SaveForm \/ RemoveYes
Go == Open \/ New \/ Type \/ Cancel \/ RemoveNo \/ \E r \in Rows : Edit(r) \/ Remove(r)
Handle(c) ==
    \/ Answer(c) /\ UNCHANGED <<content, crossed>>
    \/ Serve(c) /\ crossed' = IF c.what = "list" THEN Lists(calls) # {c} ELSE crossed
    \/ Lose(c) /\ crossed' = (crossed \/ (c.what # "list" /\ c.state = "done"))
Next == \/ (Go \/ (MayAct /\ Tap)) /\ UNCHANGED <<content, crossed>>
        \/ \E c \in calls : Handle(c)
        \/ Others /\ crossed' = TRUE
Spec == Init /\ [][Next]_vars

-----------------------------------------------------------------------------
TypeOK == /\ content \in [Rows -> Contents \cup {None}] /\ DOMAIN view.rows \subseteq Rows
          /\ view.confirm \in Rows \cup {None} /\ view.form.value \in Contents \cup {None}
          /\ \A c, d \in calls : c.id = d.id => c = d

\* At rest the list shows the rows of the server, unless reads crossed or others
\* changed them since.
ShowsServer == view.open /\ calls = {} /\ ~view.failed /\ ~crossed => view.rows = Live(content)

SpinnerHasCall == view.loading => Lists(calls) # {}
=============================================================================
