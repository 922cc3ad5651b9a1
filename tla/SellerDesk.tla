----------------------------- MODULE SellerDesk -----------------------------
(***************************************************************************)
(* The seller's screens that read and show: the workbench, the orders, the *)
(* messages, the statistics, the profile and the quick change of prices.   *)
(* One of them is in front at a time.  Some load when they are mounted,    *)
(* the others whenever they come to the front; some catch the errors of    *)
(* their loads, the others do not.  A list that comes in pages is shown as *)
(* the pieces it was put together from.                                    *)
(***************************************************************************)
EXTENDS Requests, Sequences

CONSTANTS Keys,      \* the filters of orders, tabs of messages, ranges of statistics
          Pages,     \* the pages each list has
          Notices,   \* the messages
          Prices,    \* what a product may cost
          MaxCalls   \* bound: the seller acts while fewer requests are in flight

VARIABLES unread,   \* messages that are unread, on the server
          price,    \* on the server
          desk,     \* the screen in front
          calls,
          crossed   \* history: the screen may show pieces that do not belong together

vars == <<unread, price, desk, calls, crossed>>

Screens == {"bench", "orders", "messages", "statistics", "profile", "quick"}
Keyed == {"orders", "messages", "statistics"}
FocusLoads == {"orders", "messages", "statistics", "quick"}
Catches == {"bench", "orders"}

Blank == [name |-> None, away |-> FALSE, key |-> None, loading |-> FALSE, refreshing |-> FALSE,
          more |-> FALSE, busy |-> FALSE, failed |-> FALSE, shown |-> <<>>, page |-> 1, total |-> 1,
          listed |-> {}, unseen |-> {}, badge |-> 0, price |-> None, draft |-> None]
MayAct == Cardinality(calls) < MaxCalls
Reads == {c \in calls : c.what = "read"}
Front == desk.name # None /\ ~desk.away

-----------------------------------------------------------------------------
(* What each screen lets the seller do, and with what it shows.            *)

BenchOffers == {"refresh"}
OrdersOffers == {"filter"} \cup IF desk.loading /\ desk.shown = <<>> THEN {}
                                ELSE {"refresh"} \cup (IF desk.shown = <<>> THEN {} ELSE {"end"})
MessagesOffers == {"refresh", "tab"} \cup (IF desk.badge > 0 THEN {"markAll"} ELSE {})
                  \cup (IF desk.shown # <<>> THEN {"message", "end"} ELSE {})
StatisticsOffers == {"refresh", "tab"}
ProfileOffers == {"refresh"}
QuickOffers == {"refresh"} \cup (IF desk.price # None THEN {"price"} ELSE {})
               \cup (IF desk.draft # desk.price THEN {"save"} ELSE {})
Offers == IF ~Front THEN {}
          ELSE CASE desk.name = "bench" -> BenchOffers [] desk.name = "orders" -> OrdersOffers
                 [] desk.name = "messages" -> MessagesOffers [] desk.name = "statistics" -> StatisticsOffers
                 [] desk.name = "profile" -> ProfileOffers [] desk.name = "quick" -> QuickOffers

-----------------------------------------------------------------------------
(* Loading.                                                                *)

Read(cs, d, page, then) ==
    cs \cup {Request(cs, "desk", "read", [name |-> d.name, key |-> d.key, page |-> page, then |-> then])}
\* What is asked for belongs with what is under way.
Joins(cs, d, page) == \/ \E c \in cs : c.what # "read" \/ page > 1 \/ c.arg.page > 1 \/ c.arg.key # d.key
                      \/ crossed /\ (page > 1 \/ cs # {})
\* The orders and the workbench show that they load.
Load(d, cs, then) ==
    /\ desk' = [d EXCEPT !.loading = @ \/ d.name = "orders" \/ (d.name = "bench" /\ then = "initial"),
                         !.failed = FALSE]
    /\ calls' = Read(cs, d, 1, then)
    /\ crossed' = Joins(cs, d, 1)

-----------------------------------------------------------------------------
(* What the seller does.                                                   *)

\* Bound: a screen is opened once everything was answered.
Open == /\ desk.name = None /\ calls = {}
        /\ \E s \in Screens :
              \E k \in IF s \in Keyed THEN Keys ELSE {None} :
                 Load([Blank EXCEPT !.name = s, !.key = k], calls, "initial")
\* Nothing follows the reads of a screen that is gone.
Close == /\ Front /\ desk' = Blank /\ crossed' = FALSE
         /\ calls' = {[c EXCEPT !.owner = "gone"] : c \in calls \ Reads}
GoTo == Front /\ desk' = [desk EXCEPT !.away = TRUE] /\ UNCHANGED <<calls, crossed>>
\* To an order, from its card; from the workbench, to what is urgent or anywhere else.
OrderCard == desk.name = "orders" /\ desk.shown # <<>> /\ GoTo
GoAway == desk.name # "orders" /\ GoTo
ComeBack == LET d == [desk EXCEPT !.away = FALSE] IN
            /\ desk.away
            /\ IF d.name \in FocusLoads THEN Load(d, calls, "initial")
               ELSE desk' = d /\ UNCHANGED <<calls, crossed>>
Refresh == /\ "refresh" \in Offers /\ ~desk.refreshing
           /\ Load([desk EXCEPT !.refreshing = TRUE], calls, "refresh")
\* A new filter loads once; a new tab or range loads for itself and again for
\* the focus effect, whose callback has changed with it.
OrdersFilter(k) == Load([desk EXCEPT !.key = k], calls, "initial")
TabPressed(k) ==
    LET d == [desk EXCEPT !.key = k, !.failed = FALSE]
        once == Read(calls, d, 1, "initial") IN
    /\ desk' = d /\ crossed' = Joins(calls, d, 1)
    /\ calls' = IF k = desk.key THEN once ELSE Read(once, d, 1, "initial")
Choose(k) == \/ "filter" \in Offers /\ k # desk.key /\ OrdersFilter(k)
             \/ "tab" \in Offers /\ TabPressed(k)
\* Mutant: the end of the list is reached again while its page is under way.
MoreTwice == desk.page < desk.total /\ (desk.name = "orders" => ~desk.loading)
NextPage == desk.page < desk.total /\ ~desk.more /\ (desk.name = "orders" => ~desk.loading)
More == /\ "end" \in Offers /\ NextPage
        /\ desk' = [desk EXCEPT !.more = TRUE]
        /\ calls' = Read(calls, desk, desk.page + 1, "more")
        /\ crossed' = (crossed \/ \E c \in calls : c.what # "read" \/ c.arg.page = 1)

\* A message is marked unless it is shown as read; the screen it opens comes
\* after the answer, wherever the seller is by then.
MarkRead(n) == /\ "message" \in Offers /\ n \in desk.unseen
               /\ calls' = calls \cup {Request(calls, "desk", "mark", [of |-> n])}
               /\ crossed' = (crossed \/ calls # {}) /\ UNCHANGED desk
MarkAllRead == /\ "markAll" \in Offers
               /\ calls' = calls \cup {Request(calls, "desk", "markAll", [key |-> desk.key])}
               /\ crossed' = (crossed \/ calls # {}) /\ UNCHANGED desk
TypePrice == /\ "price" \in Offers
             /\ \E v \in Prices : desk' = [desk EXCEPT !.draft = v]
             /\ UNCHANGED <<calls, crossed>>
\* Nothing stops a second tap while the first is being saved.
SavePrices == /\ "save" \in Offers
              /\ desk' = [desk EXCEPT !.busy = TRUE]
              /\ calls' = calls \cup {Request(calls, "desk", "prices", [new |-> desk.draft])}
              /\ crossed' = (crossed \/ calls # {})

-----------------------------------------------------------------------------
(* The answers.                                                            *)

Ended(c) == c.state \in {"done", "refused"}
Piece(c) == [key |-> c.arg.key, page |-> c.arg.page]
Loaded(d, c) == [d EXCEPT !.shown = IF c.arg.page = 1 THEN <<Piece(c)>> ELSE Append(@, Piece(c)),
                          !.page = c.arg.page, !.total = Pages,
                          !.listed = c.reply.listed \cup IF c.arg.page = 1 THEN {} ELSE @,
                          !.unseen = c.reply.unseen \cup IF c.arg.page = 1 THEN {} ELSE @,
                          !.badge = c.reply.badge,
                          !.price = c.reply.price, !.draft = c.reply.price]
\* The orders forget their rows when they cannot be loaded, unless for a further page.
NotLoaded(d, c) == [d EXCEPT !.failed = @ \/ d.name \in Catches,
                             !.shown = IF d.name = "orders" /\ c.arg.then # "more" THEN <<>> ELSE @]
\* Where nothing catches the error, what follows the load never happens: the
\* sign of a refresh stays.
Over(d, c) ==
    LET over == c.state = "done" \/ d.name \in Catches IN
    [d EXCEPT !.loading = @ /\ c.arg.then = "more",
              !.refreshing = @ /\ ~(c.arg.then = "refresh" /\ over),
              !.more = @ /\ c.arg.then # "more",
              !.busy = @ /\ c.arg.then # "prices"]
ReadAnswered(c) ==
    /\ c.what = "read" /\ Ended(c) /\ calls' = calls \ {c}
    /\ desk' = Over(IF c.state = "done" THEN Loaded(desk, c) ELSE NotLoaded(desk, c), c)
    /\ crossed' = (crossed \/ c.state = "refused")
\* Mutant: every answer counts.
Fewer(n) == n - 1
Left(n) == IF n = 0 THEN 0 ELSE n - 1
Marked(c) ==
    /\ c.what = "mark" /\ Ended(c) /\ calls' = calls \ {c} /\ UNCHANGED crossed
    /\ desk' = IF c.owner = "desk" /\ c.state = "done"
               THEN [desk EXCEPT !.unseen = @ \ {c.arg.of}, !.badge = Left(@)]
               ELSE desk
\* The messages are read again, those of the tab of the tap.
AllMarked(c) ==
    /\ c.what = "markAll" /\ Ended(c) /\ UNCHANGED <<desk>>
    /\ IF c.owner = "desk" /\ c.state = "done"
       THEN /\ calls' = Read(calls \ {c}, [desk EXCEPT !.key = c.arg.key], 1, "initial")
            /\ crossed' = (crossed \/ calls # {c} \/ desk.key # c.arg.key)
       ELSE calls' = calls \ {c} /\ UNCHANGED crossed
PricesSaved(c) ==
    /\ c.what = "prices" /\ Ended(c) /\ UNCHANGED crossed
    /\ IF c.owner = "desk" /\ c.state = "done"
       THEN calls' = Read(calls \ {c}, desk, 1, "prices") /\ UNCHANGED desk
       ELSE /\ calls' = calls \ {c}
            /\ desk' = [desk EXCEPT !.busy = @ /\ c.owner # "desk"]

-----------------------------------------------------------------------------
(* The server.                                                             *)

\* A read brings what its screen shows: S are the messages on the page of the tab
\* it is for, which any may be; the badge counts those of all tabs and pages.
Shows(c, S) == IF c.what # "read" THEN None
               ELSE [listed |-> S, unseen |-> S \cap unread,
                     badge |-> IF c.arg.name = "messages" THEN Cardinality(unread) ELSE 0, price |-> price]
Brings(c) == IF c.what = "read" /\ c.arg.name = "messages" THEN SUBSET Notices ELSE {{}}
\* A message that was read before may count as not found.
Serve(c) ==
    /\ c.state = "sent" /\ UNCHANGED <<desk, crossed>>
    /\ unread' = CASE c.what = "mark" -> unread \ {c.arg.of}
                   [] c.what = "markAll" -> {} [] OTHER -> unread
    /\ price' = IF c.what = "prices" THEN c.arg.new ELSE price
    /\ \E S \in Brings(c), ok \in BOOLEAN :
          /\ ~ok => c.what = "mark" /\ c.arg.of \notin unread
          /\ calls' = Handled(calls, c, ok, Shows(c, S))
\* Sync finds something new to tell, and drops what is over; only the messages show it.
Notify(n) == /\ desk.name = "messages" /\ unread' \in {unread \cup {n}, unread \ {n}} \ {unread}
             /\ crossed' = TRUE /\ UNCHANGED <<price, desk, calls>>
\* A request or its answer is lost: the client sees a failure.
Lose(c) == /\ c.state # "refused" /\ calls' = Handled(calls, c, FALSE, None)
           /\ crossed' = TRUE /\ UNCHANGED <<unread, price, desk>>

-----------------------------------------------------------------------------
Init == /\ unread \in SUBSET Notices /\ price \in Prices
        /\ desk = Blank /\ calls = {} /\ crossed = FALSE

Tap == \/ Refresh \/ More \/ MarkAllRead \/ SavePrices
       \/ \E k \in Keys : Choose(k)
       \/ \E n \in Notices : MarkRead(n)
Go == Open \/ Close \/ OrderCard \/ GoAway \/ (MayAct /\ ComeBack) \/ TypePrice
Handle(c) == \/ (ReadAnswered(c) \/ Marked(c) \/ AllMarked(c) \/ PricesSaved(c)) /\ UNCHANGED <<unread, price>>
             \/ Serve(c) \/ Lose(c)
Next == \/ ((MayAct /\ Tap) \/ Go) /\ UNCHANGED <<unread, price>>
        \/ \E c \in calls : Handle(c)
        \/ \E n \in Notices : Notify(n)
Spec == Init /\ [][Next]_vars

-----------------------------------------------------------------------------
TypeOK == /\ unread \subseteq Notices /\ price \in Prices
          /\ desk.name \in Screens \cup {None} /\ desk.key \in Keys \cup {None}
          /\ desk.page \in 1..Pages /\ desk.badge \in 0..Cardinality(Notices)
          /\ \A c, d \in calls : c.id = d.id => c = d

\* At rest a screen shows its key's pages without a gap, the messages those of
\* theirs that are unread and how many there are in all, and the quick change the
\* prices of the server, unless reads of different things, or reads and writes,
\* crossed.
ShowsServer ==
    desk.name # None /\ calls = {} /\ ~desk.failed /\ ~crossed =>
       /\ desk.shown = [p \in 1..desk.page |-> [key |-> desk.key, page |-> p]]
       /\ desk.name = "messages" => desk.unseen = desk.listed \cap unread /\ desk.badge = Cardinality(unread)
       /\ desk.name = "quick" => desk.price = price

\* A spinner that is not stuck for a load that nothing caught.
SpinnerHasCall ==
    LET Has(then) == \E c \in calls : c.owner = "desk" /\ c.what = "read" /\ c.arg.then = then IN
    /\ desk.loading => \E c \in calls : c.what = "read" /\ c.arg.page = 1
    /\ desk.refreshing /\ desk.name \in Catches => Has("refresh")
    /\ desk.more => Has("more")
    /\ desk.busy => Has("prices") \/ \E c \in calls : c.owner = "desk" /\ c.what = "prices"
=============================================================================
