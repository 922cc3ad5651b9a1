---------------------------- MODULE AdminConfigs ----------------------------
(***************************************************************************)
(* The admin's page of the system's configuration: every key has a draft,  *)
(* which is saved by itself or with all the others, one after the other.   *)
(***************************************************************************)
EXTENDS Requests

CONSTANTS ConfigKeys,
          Values,    \* what a key may be set to that the page finds in order
          Odd,       \* what the page takes for a mistake and the server may take
          MaxCalls   \* bound: the admin acts while fewer requests are in flight

VARIABLES value,    \* of the keys, on the server
          view, calls,
          crossed   \* history: reads crossed each other, or values changed since

vars == <<value, view, calls, crossed>>

\* rows are the values as they were read.  A draft that is empty is left out: neither
\* button sends it.
\* batch is whether a batch is being saved.
NoRows == [k \in {} |-> None]
NewView == [open |-> FALSE, loading |-> FALSE, failed |-> FALSE, rows |-> NoRows, draft |-> NoRows, batch |-> FALSE]
MayAct == Cardinality(calls) < MaxCalls
Ask(cs, what, arg) == cs \cup {Request(cs, "page", what, arg)}
Lists(cs) == {c \in cs : c.what = "list"}

-----------------------------------------------------------------------------
(* The page.                                                               *)

Load(v, cs) == view' = [v EXCEPT !.loading = TRUE, !.failed = FALSE] /\ calls' = Ask(cs, "list", None)
\* Every load replaces the drafts, those of the other keys too.
ListAnswer(c) ==
    /\ c.what = "list" /\ c.state \in {"done", "refused"} /\ calls' = calls \ {c}
    /\ view' = IF c.state = "done"
               THEN [view EXCEPT !.loading = FALSE, !.rows = c.reply, !.draft = c.reply]
               ELSE [view EXCEPT !.loading = FALSE, !.failed = TRUE]
\* A page that is left forgets everything; what was under way by then comes, for
\* the page that is opened next, from somebody else.
Open == ~view.open /\ Load([view EXCEPT !.open = TRUE], calls)
Refresh == view.open /\ Load(view, calls)

Dirty == {k \in DOMAIN view.rows : view.draft[k] # view.rows[k]}
Draft(k, v) == view' = [view EXCEPT !.draft[k] = v] /\ UNCHANGED calls
Type(k) == k \in DOMAIN view.rows /\ \E v \in Values \cup {Odd} : Draft(k, v)
Undo(k) == k \in Dirty /\ Draft(k, view.rows[k])
\* One key, changed or not; nothing stops a second click.
SaveRow(k) == /\ k \in DOMAIN view.rows
              /\ calls' = Ask(calls, "save", [key |-> k, new |-> view.draft[k], rest |-> None])
              /\ UNCHANGED view
\* All that differ, as they are now, one after the other (in the order of the
\* rows, which is left open).
NextSave(cs, left) == \E s \in left : calls' = Ask(cs, "save", [key |-> s.key, new |-> s.new, rest |-> left \ {s}])
SaveAll == /\ Dirty # {} /\ ~view.batch /\ \A k \in Dirty : view.draft[k] \in Values
           /\ view' = [view EXCEPT !.batch = TRUE]
           /\ NextSave(calls, {[key |-> k, new |-> view.draft[k]] : k \in Dirty})
\* An error ends a batch where it is, with what was saved before.
SaveAnswer(c) ==
    /\ c.what = "save" /\ c.state \in {"done", "refused"}
    /\ LET batch == c.arg.rest # None
           v == [view EXCEPT !.batch = @ /\ ~batch] IN
       CASE c.state = "refused" -> calls' = calls \ {c} /\ view' = v
         [] c.state = "done" /\ batch /\ c.arg.rest # {} -> NextSave(calls \ {c}, c.arg.rest) /\ UNCHANGED view
         [] OTHER -> Load(v, calls \ {c})
Answer(c) == ListAnswer(c) \/ SaveAnswer(c)

-----------------------------------------------------------------------------
(* The server.                                                             *)

Put(k, v) == value' = [value EXCEPT ![k] = v]
\* A value that is what it was counts as a key that is not there.
Takes(k, v) == v # value[k] /\ Put(k, v)
Serve(c) ==
    /\ c.state = "sent" /\ UNCHANGED view
    /\ \/ c.what = "list" /\ calls' = Handled(calls, c, TRUE, value) /\ UNCHANGED value
       \/ c.what = "save" /\ Takes(c.arg.key, c.arg.new) /\ calls' = Handled(calls, c, TRUE, None)
       \/ /\ c.what = "save" /\ c.arg.new \in {Odd, value[c.arg.key]}
          /\ calls' = Handled(calls, c, FALSE, None) /\ UNCHANGED value
\* Another admin.
Others == /\ \E k \in ConfigKeys, v \in Values \cup {Odd} : v # value[k] /\ Put(k, v)
          /\ UNCHANGED <<view, calls>>
\* A request or its answer is lost: the client makes an answer of its own.
Lose(c) == c.state # "refused" /\ calls' = Handled(calls, c, FALSE, None) /\ UNCHANGED <<value, view>>

-----------------------------------------------------------------------------
Init == value \in [ConfigKeys -> Values \cup {Odd}] /\ view = NewView /\ calls = {} /\ crossed = FALSE

Tap == Refresh \/ SaveAll \/ \E k \in ConfigKeys : SaveRow(k)
Go == Open \/ \E k \in ConfigKeys : Type(k) \/ Undo(k)
Handle(c) ==
    \/ Answer(c) /\ UNCHANGED value
       /\ crossed' = (crossed \/ (c.what = "save" /\ c.arg.rest # None /\ c.state = "refused"))
    \/ Serve(c) /\ crossed' = IF c.what = "list" THEN Lists(calls) # {c} \/ view.batch ELSE crossed
    \/ Lose(c) /\ crossed' = (crossed \/ (c.what = "save" /\ c.state = "done"))
Next == \/ (Go \/ (MayAct /\ Tap)) /\ UNCHANGED <<value, crossed>>
        \/ \E c \in calls : Handle(c)
        \/ Others /\ crossed' = TRUE
Spec == Init /\ [][Next]_vars

-----------------------------------------------------------------------------
TypeOK == /\ value \in [ConfigKeys -> Values \cup {Odd}] /\ DOMAIN view.draft = DOMAIN view.rows
          /\ \A c, d \in calls : c.id = d.id => c = d

\* At rest the rows are the server's values, unless a batch ended half-way, reads
\* crossed, or others changed them since.
ShowsServer == calls = {} /\ view.open /\ ~view.failed /\ ~crossed => view.rows = value

\* The table's sign, and the batch's button, stand for a request under way.
SpinnerHasCall == /\ view.loading => Lists(calls) # {}
                  /\ view.batch => \E c \in calls : c.what = "save" /\ c.arg.rest # None
=============================================================================
