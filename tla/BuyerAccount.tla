---------------------------- MODULE BuyerAccount ----------------------------
(***************************************************************************)
(* The buyer's own page, with what it counts, and the messages.  The page  *)
(* counts again whenever it comes to the front: it asks for every number   *)
(* on its own and shows them together once the last answer is there.  The  *)
(* server has no route for the messages of a buyer, so their number and    *)
(* their list are refused.                                                 *)
(***************************************************************************)
EXTENDS Requests

CONSTANTS Orders,
          Counts,    \* the numbers the page asks for
          MaxCalls   \* bound: a buyer acts while fewer requests are in flight

VARIABLES status,   \* status of each order, on the server
          hidden,   \* orders the buyer deleted
          front,    \* "profile", "notices", or "away" on any other screen
          page,     \* the numbers shown, and what came of the visits under way
          list,     \* the messages
          calls,
          crossed   \* history: the numbers may be older than the orders

server == <<status, hidden>>
screens == <<front, page, list>>
vars == <<status, hidden, front, page, list, calls, crossed>>

Visits == {1, 2}
NewProfile == [shown |-> [k \in Counts |-> 0], got |-> [n \in Visits |-> None]]
Blank == [loading |-> FALSE, failed |-> FALSE]
MayAct == Cardinality(calls) < MaxCalls

-----------------------------------------------------------------------------
(* The page.                                                               *)

InUse(n, cs) == \E c \in cs : c.owner = "profile" /\ c.arg = n
\* One request for every number.
AskAll(cs, n) ==
    LET free == (1..(Cardinality(cs) + Cardinality(Counts))) \ {c.id : c \in cs}
        ids == CHOOSE f \in [Counts -> free] : \A k, l \in Counts : f[k] = f[l] => k = l
    IN cs \cup {[Request(cs, "profile", k, n) EXCEPT !.id = ids[k]] : k \in Counts}
LoadSummary(cs) ==
    \E n \in Visits : /\ ~InUse(n, cs) /\ \A m \in Visits : m < n => InUse(m, cs)
                      /\ calls' = AskAll(cs, n)
                      /\ page' = [page EXCEPT !.got[n] = [k \in Counts |-> None]]
\* A number that cannot be had counts as none.
Value(c) == IF c.state = "done" THEN c.reply ELSE 0
SummaryAnswer(c) ==
    /\ c.owner = "profile" /\ c.state \in {"done", "refused"} /\ calls' = calls \ {c}
    /\ LET got == [page.got[c.arg] EXCEPT ![c.what] = Value(c)] IN
       page' = IF None \in {got[k] : k \in Counts}
               THEN [page EXCEPT !.got[c.arg] = got]
               ELSE [page EXCEPT !.got[c.arg] = None, !.shown = got]
    /\ UNCHANGED <<front, list>>

-----------------------------------------------------------------------------
(* The messages.                                                           *)

Load(cs) == /\ list' = [loading |-> TRUE, failed |-> FALSE]
            /\ calls' = cs \cup {Request(cs, "notices", "list", 0)}
\* Without a list there is a sign of loading, or an error that can be retried.
NoticesOffers == IF front = "notices" /\ list.failed /\ ~list.loading THEN {"retry"} ELSE {}
Retry == "retry" \in NoticesOffers /\ Load(calls) /\ UNCHANGED <<front, page>>
NoticesAnswer(c) ==
    /\ c.owner = "notices" /\ c.state = "refused" /\ calls' = calls \ {c}
    /\ list' = [loading |-> FALSE, failed |-> TRUE] /\ UNCHANGED <<front, page>>

-----------------------------------------------------------------------------
(* From screen to screen.                                                  *)

ToNotices == /\ front = "profile" /\ front' = "notices" /\ Load(calls) /\ UNCHANGED page
ToAway == /\ front = "profile" /\ front' = "away" /\ UNCHANGED <<page, list, calls>>
HeroGo == ToNotices
\* The icons of the order states, and the goods that are bought often.
QuickGo == ToAway
MenuItems == {"orders", "addresses", "notifications"}
MenuGo == \E m \in MenuItems : IF m = "notifications" THEN ToNotices ELSE ToAway
\* What the messages asked for is forgotten with their screen.
Back == /\ front \in {"notices", "away"} /\ front' = "profile" /\ list' = Blank
        /\ LoadSummary({c \in calls : c.owner = "profile"})

-----------------------------------------------------------------------------
(* The server.                                                             *)

Visible == Orders \ hidden
Count(k) == CASE k = "total" -> Cardinality(Visible)
              [] k = "delivered" -> Cardinality({o \in Visible : status[o] = 3})
              [] k = "completed" -> Cardinality({o \in Visible : status[o] = 4})
              [] k = "unread" -> 0
Serve(c) == /\ c.state = "sent" /\ UNCHANGED <<server, screens>>
            /\ IF c.what \in {"unread", "list"} THEN calls' = Handled(calls, c, FALSE, None)
               ELSE calls' = Handled(calls, c, TRUE, Count(c.what))
\* The buyer's other screens, the seller and the scheduler.  Bound: an order is
\* followed from its delivery on.
Advance(o) == /\ \/ status[o] < 4 /\ status' = [status EXCEPT ![o] = @ + 1] /\ UNCHANGED hidden
                 \/ status[o] >= 4 /\ hidden' = hidden \cup {o} /\ UNCHANGED status
              /\ UNCHANGED <<screens, calls>>

-----------------------------------------------------------------------------
Init == /\ status = [o \in Orders |-> 2] /\ hidden = {}
        /\ front = "away" /\ page = NewProfile /\ list = Blank /\ calls = {} /\ crossed = FALSE

Answer(c) == SummaryAnswer(c) \/ NoticesAnswer(c)
Go == Back \/ HeroGo \/ QuickGo \/ MenuGo
Handle(c) ==
    \/ Answer(c) /\ UNCHANGED <<server, crossed>>
    \/ Serve(c) /\ UNCHANGED crossed
    \* A request or its answer is lost: the client sees a failure.
    \/ /\ c.state # "refused" /\ calls' = Handled(calls, c, FALSE, None)
       /\ crossed' = (crossed \/ c.owner = "profile") /\ UNCHANGED <<server, screens>>
Next == \/ /\ MayAct /\ (Go \/ Retry) /\ UNCHANGED server
           /\ crossed' = IF front # "profile" /\ front' = "profile"
                         THEN \E c \in calls : c.owner = "profile" ELSE crossed
        \/ \E c \in calls : Handle(c)
        \/ \E o \in Orders : Advance(o) /\ crossed' = TRUE

-----------------------------------------------------------------------------
TypeOK == /\ front \in {"profile", "notices", "away"} /\ \A c, d \in calls : c.id = d.id => c = d
          /\ page.shown \in [Counts -> 0..Cardinality(Orders)]

\* The messages only wait for a request; a visit has one for every number it lacks.
SpinnerHasCall ==
    /\ list.loading => \E c \in calls : c.owner = "notices"
    /\ \A n \in Visits : page.got[n] # None =>
          {k \in Counts : page.got[n][k] = None} = {c.what : c \in {d \in calls : d.owner = "profile" /\ d.arg = n}}

\* At rest the page shows what the server counts, unless visits crossed or the
\* orders changed since.
ShowsServer == front = "profile" /\ calls = {} /\ ~crossed => page.shown = [k \in Counts |-> Count(k)]
=============================================================================
