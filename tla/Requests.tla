------------------------------ MODULE Requests ------------------------------
(***************************************************************************)
(* Requests a client has sent and not heard of.  A request waits in "sent" *)
(* until the server handles it; it is then "done" or "refused" and its     *)
(* answer is under way.  Every error of a handler travels as an answer     *)
(* with a code, which unwrapApiData turns into an exception; a request or  *)
(* an answer that is lost ends in an exception too.                        *)
(***************************************************************************)
EXTENDS Integers, FiniteSets

CONSTANT None

NewId(calls) == CHOOSE i \in 1..(Cardinality(calls) + 1) : i \notin {c.id : c \in calls}

Request(calls, owner, what, arg) ==
    [id |-> NewId(calls), owner |-> owner, what |-> what, arg |-> arg,
     state |-> "sent", reply |-> None]

\* The server has handled c.
Handled(calls, c, ok, reply) ==
    (calls \ {c}) \cup {[c EXCEPT !.state = IF ok THEN "done" ELSE "refused", !.reply = reply]}

\* The screen that sent the requests of S has gone: nothing listens to their answers.
Orphaned(calls, S) == (calls \ S) \cup {[c EXCEPT !.owner = "gone"] : c \in S}

InFlight(calls, what) == \E c \in calls : c.what \in what /\ c.owner # "gone"
=============================================================================
