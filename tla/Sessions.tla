------------------------------ MODULE Sessions ------------------------------
(***************************************************************************)
(* Who is signed in: the refresh tokens the server keeps in memory, and    *)
(* the three clients' way of holding a pair of tokens, of refreshing it    *)
(* when a request is denied, and of dropping it.                           *)
(*                                                                         *)
(* A pair of tokens is a number, in the order of issue; 0 is "no token".   *)
(* The clients share the actions and differ in Denied and in what an       *)
(* answer to a refresh does.  The buyer and the seller app are one tab     *)
(* over a store in memory and on disk; the admin web is several tabs over  *)
(* one localStorage (here: disk).  kind says which client this behaviour   *)
(* is about and never changes.                                             *)
(*                                                                         *)
(* A request changes nothing at the server here, so that the server        *)
(* handles it and the client hears the answer is one step; a refresh is    *)
(* asked, checked, exchanged and heard in four.                            *)
(***************************************************************************)
EXTENDS Integers, FiniteSets, Sequences

CONSTANTS Kinds,     \* which clients: a subset of {"buyer", "seller", "admin"}
          Tabs,      \* browser tabs of the admin web; an app uses the first
          Slots,     \* requests a client may have in flight
          MaxPairs,  \* bound on the pairs of tokens ever issued
          MaxMishaps \* bound per client on kills, restarts and refresh tokens
                     \* that run out

ASSUME KindsAssumption == Kinds \subseteq {"buyer", "seller", "admin"}
ASSUME TabsAssumption == 1 \in Tabs /\ 0 \notin Tabs
ASSUME MaxPairsAssumption == MaxPairs \in Nat \ {0}
ASSUME MaxMishapsAssumption == MaxMishaps \in [Kinds -> Nat]

VARIABLES kind,    \* the client
          live,    \* server: refreshTokens, the refresh tokens it honours
          stale,   \* server: the access tokens whose two hours are over
          pairs,   \* server: pairs issued so far
          calls,   \* refresh calls between clients and server
          disk,    \* AsyncStorage or localStorage: [access, refresh]
          mem,     \* useAuthStore: [access, refresh]
          writes,  \* setAuth and clearAuth calls not finished, in order
          page,    \* per tab: "off", "login" or "inside"
          req,     \* per slot: the request in flight
          flight,  \* per tab: refreshing / refreshPromise is set
          mine,    \* history: the pair last issued to this client
          left,    \* history: how the user signed out since the last login
          mishaps, \* bound: how many of them there were
          hurt,    \* history: the session of the last login was disturbed
          cut      \* history: one who waited for an old refresh forgot a newer one

server == <<live, stale, pairs>>
client == <<disk, mem, writes, page, req, flight>>
history == <<mine, left, hurt, mishaps, cut>>
vars == <<kind, server, calls, client, history>>

-----------------------------------------------------------------------------
(* Shapes and helpers.                                                     *)

NoTokens == [access |-> 0, refresh |-> 0]
\* Mutant: a field of the answer is not where the client looks for it.
PairUndefined(n) == [access |-> n, refresh |-> -1]
Pair(n) == [access |-> n, refresh |-> n]
Idle == [st |-> "idle", tok |-> 0, tab |-> 1, again |-> FALSE]

\* What getState() or localStorage gives a request.
Held == IF kind = "admin" THEN disk ELSE mem

OwnTabs == IF kind = "admin" THEN Tabs ELSE {1}

\* A pair nobody was issued before; the bound caps the counter.
MayIssue == pairs < MaxPairs
Issue == /\ MayIssue
         /\ pairs' = pairs + 1

Mishap == mishaps < MaxMishaps[kind] /\ mishaps' = mishaps + 1

\* Requests of tab t that wait for the refresh in flight.
Waiters(t) == {s \in Slots : req[s].st = "refreshing" /\ req[s].tab = t}

\* Every waiter is sent once more.  An app takes the token of the store over
\* the one of its header; the admin web never refreshes a second time.
Resent(t, n) == [s \in Slots |->
    IF s \in Waiters(t) THEN [req[s] EXCEPT !.st = "sent", !.tok = n, !.again = (kind = "admin")]
    ELSE req[s]]

\* Mutant: the waiters are not told.
RejectedNobody(t) == req
\* Every waiter is rejected.
Rejected(t) == [s \in Slots |-> IF s \in Waiters(t) THEN Idle ELSE req[s]]

\* The requests of S wait for a store to be cleared, and then fail.
Dropping(S) == [s \in Slots |-> IF s \in S THEN [req[s] EXCEPT !.st = "dropping"] ELSE req[s]]

\* A refresh call is forgotten once it is answered and nobody listens.
StillOpen(c) == IF c.tab = 0 /\ c.st \in {"refused", "granted"} THEN {} ELSE {c}

\* setAuth and clearAuth: four keys are written or removed, then the store is
\* set.  The storage works off its calls in order.
\* The pair stored (0: all keys removed), what the caller does next, and the
\* requests that wait for it.
StoreOp(n, next, who) == [pair |-> n, next |-> next, who |-> who, half |-> FALSE]
Queue(op) == writes' = Append(writes, op)

Init == /\ kind \in Kinds
        /\ live = {} /\ stale = {} /\ pairs = 0
        /\ calls = {}
        /\ disk = NoTokens /\ mem = NoTokens
        /\ writes = <<>>
        /\ page = [t \in Tabs |-> "off"]
        /\ req = [s \in Slots |-> Idle]
        /\ flight = [t \in Tabs |-> FALSE]
        /\ mine = 0 /\ left = "no" /\ hurt = FALSE /\ mishaps = 0
        /\ cut = FALSE

-----------------------------------------------------------------------------
(* The server: AuthService.                                                *)

\* Refresh, first half: the token must be in the map.
CheckRefresh(c) ==
    /\ c.st = "asked"
    /\ calls' = (calls \ {c}) \cup
           StillOpen([c EXCEPT !.st = IF c.old \in live THEN "checked" ELSE "refused"])
    /\ UNCHANGED <<kind, server, client, history>>

\* Refresh, second half: the token is removed and a new pair stored.
Exchange(c) ==
    /\ c.st = "checked"
    /\ Issue
    /\ live' = (live \ {c.old}) \cup {pairs'}
    /\ calls' = (calls \ {c}) \cup StillOpen([c EXCEPT !.st = "granted", !.new = pairs'])
    /\ mine' = IF c.tab # 0 THEN pairs' ELSE mine
    /\ hurt' = (hurt \/ \E d \in calls \ {c} : d.old = c.old)
    /\ UNCHANGED <<kind, stale, client, left, mishaps, cut>>

\* Tokens of pairs nobody holds or waits for any more are of no consequence.
InUse == {disk.access, disk.refresh, mem.access, mem.refresh, mine}
         \cup {req[s].tok : s \in Slots}
         \cup {c.old : c \in calls} \cup {c.new : c \in calls}
         \cup {writes[i].pair : i \in DOMAIN writes}

\* The two hours of an access token pass.
Expire(p) ==
    /\ p \in InUse \ (stale \cup {0})
    /\ stale' = stale \cup {p}
    /\ UNCHANGED <<kind, live, pairs, calls, client, history>>

\* The seven days of a refresh token pass.
Forget(p) ==
    /\ p \in live \cap InUse
    /\ Mishap
    /\ live' = live \ {p}
    /\ UNCHANGED <<kind, stale, pairs, calls, client, mine, left, hurt, cut>>

\* The map is memory: a restarted process honours no refresh token.
Restart ==
    /\ live # {}
    /\ Mishap
    /\ live' = {}
    /\ UNCHANGED <<kind, stale, pairs, calls, client, mine, left, hurt, cut>>

-----------------------------------------------------------------------------
(* Start, sign in, sign out, kill.                                         *)

\* The redirect of the entry page.  The role is stored with the refresh token.
EntryPage == IF disk.access # 0 /\ disk.refresh # 0 THEN "inside" ELSE "login"

\* hydrate() at the start of an app; a tab reads localStorage.
Open(t) ==
    /\ t \in OwnTabs /\ page[t] = "off"
    /\ mem' = IF kind = "admin" THEN mem ELSE disk
    /\ page' = [page EXCEPT ![t] = EntryPage]
    /\ UNCHANGED <<kind, server, calls, disk, writes, req, flight, history>>

\* A sign-out is clean unless a refresh or a kill came between it and the storage.
Worse(a, b) == IF "loose" \in {a, b} THEN "loose" ELSE b

SigningIn == \E i \in DOMAIN writes : writes[i].next = "login"
SigningOut == \E i \in DOMAIN writes : writes[i].next = "logout"

\* The refresh of tab t is not over.
Pending(t) == \/ \E c \in calls : c.tab = t
              \/ \E i \in DOMAIN writes : writes[i].next \in {"refreshed", "refused"}

\* The server has issued a pair to this client.
SignIn == /\ ~SigningIn
          /\ Issue
          /\ live' = live \cup {pairs'}
          /\ mine' = pairs' /\ left' = "no" /\ hurt' = FALSE
          /\ UNCHANGED <<kind, stale, calls, mem, req, flight, mishaps, cut>>

\* The login form of an app is sent and answered; its button is disabled until
\* the tokens are stored and the screens shown.
AppLogin == /\ page[1] = "login"
            /\ SignIn
            /\ Queue(StoreOp(pairs', "login", {}))
            /\ UNCHANGED <<disk, page>>

BuyerLogin == kind = "buyer" /\ AppLogin
SellerLogin == kind = "seller" /\ AppLogin

\* The form of the admin web; the tokens are there at once.
AdminLogin(t) == /\ kind = "admin" /\ page[t] = "login"
                 /\ SignIn
                 /\ disk' = Pair(pairs')
                 /\ page' = [page EXCEPT ![t] = "inside"]
                 /\ UNCHANGED writes

\* A wrong password or another role: the admin web drops the tokens it has.
LoginRefused(t) ==
    /\ kind = "admin" /\ page[t] = "login"
    /\ disk' = NoTokens
    /\ hurt' = TRUE
    /\ UNCHANGED <<kind, server, calls, mem, writes, page, req, flight, mine, left,
                   mishaps, cut>>

\* No client tells the server that its user signs out.
SignOut == /\ left' = IF \E u \in OwnTabs : Pending(u) THEN "loose" ELSE Worse(left, "clean")
           /\ hurt' = TRUE
           /\ UNCHANGED <<kind, server, calls, req, flight, mine, mishaps, cut>>

AppLogout == /\ page[1] = "inside" /\ ~SigningOut
             /\ Queue(StoreOp(0, "logout", {}))
             /\ SignOut
             /\ UNCHANGED <<disk, mem, page>>

\* Mutant: the app empties its store and leaves the storage for later.
BuyerLogoutInMemory == /\ kind = "buyer" /\ page[1] = "inside" /\ ~SigningOut
                       /\ mem' = NoTokens
                       /\ page' = [page EXCEPT ![1] = "login"]
                       /\ SignOut
                       /\ UNCHANGED <<disk, writes>>
BuyerLogout == kind = "buyer" /\ AppLogout
SellerLogout == kind = "seller" /\ AppLogout

AdminLogout(t) == /\ kind = "admin" /\ page[t] = "inside"
                  /\ disk' = NoTokens
                  /\ page' = [page EXCEPT ![t] = "login"]
                  /\ SignOut
                  /\ UNCHANGED <<mem, writes>>

\* The layout of the admin web looks for a token whenever the path changes.
Navigate(t) ==
    /\ kind = "admin" /\ page[t] = "inside" /\ disk.access = 0
    /\ page' = [page EXCEPT ![t] = "login"]
    /\ UNCHANGED <<kind, server, calls, disk, mem, writes, req, flight, history>>

\* The app is killed or the tab reloaded while something is under way; at rest
\* the next Open would restore what there was.
Kill(t) ==
    /\ page[t] # "off"
    /\ writes # <<>> \/ \E s \in Slots : req[s] # Idle /\ req[s].tab = t
    /\ Mishap
    /\ page' = [page EXCEPT ![t] = "off"]
    /\ mem' = NoTokens
    /\ writes' = <<>>
    /\ req' = [s \in Slots |-> IF req[s].tab = t THEN Idle ELSE req[s]]
    /\ flight' = [flight EXCEPT ![t] = FALSE]
    /\ calls' = UNION {StillOpen(IF c.tab = t THEN [c EXCEPT !.tab = 0] ELSE c) : c \in calls}
    /\ left' = IF SigningOut THEN "loose" ELSE left
    /\ hurt' = (hurt \/ writes # <<>> \/ Pending(t))
    /\ UNCHANGED <<kind, server, disk, mine, cut>>

-----------------------------------------------------------------------------
(* Requests.                                                               *)

Send(s, t) ==
    /\ req[s] = Idle /\ page[t] = "inside"
    /\ req' = [req EXCEPT ![s] = [Idle EXCEPT !.st = "sent", !.tok = Held.access, !.tab = t]]
    /\ UNCHANGED <<kind, server, calls, disk, mem, writes, page, flight, history>>

Accepted(tok) == tok # 0 /\ tok \notin stale

\* Served, or failed on the network or on something else than the token.
Answered(s) ==
    /\ req[s].st = "sent"
    /\ req' = [req EXCEPT ![s] = Idle]
    /\ UNCHANGED <<kind, server, calls, disk, mem, writes, page, flight, history>>

\* A refresh starts with the refresh token held now.
Ask(s, t) ==
    /\ flight' = [flight EXCEPT ![t] = TRUE]
    /\ req' = [req EXCEPT ![s].st = "refreshing"]
    /\ calls' = calls \cup {[old |-> Held.refresh, new |-> 0, st |-> "asked", tab |-> t]}
    /\ left' = IF SigningOut THEN "loose" ELSE left
    /\ UNCHANGED <<disk, writes, page, hurt, mishaps>>

\* The request waits for the refresh another one started; when that has failed
\* it clears the store itself.
Join(s) ==
    /\ IF Pending(req[s].tab)
       THEN req' = [req EXCEPT ![s].st = "refreshing"] /\ UNCHANGED <<writes, hurt>>
       ELSE /\ Queue(StoreOp(0, "rejected", {s})) /\ req' = Dropping({s})
            /\ hurt' = (hurt \/ SigningIn)
    /\ UNCHANGED <<calls, disk, page, flight, left, mishaps>>

\* The request gives up and leaves everything as it is.
GiveUp(s) ==
    /\ req' = [req EXCEPT ![s] = Idle]
    /\ UNCHANGED <<calls, disk, writes, page, flight, left, hurt, mishaps>>

\* No refresh token to try: an app clears its store, after what is queued.
Drop(s) ==
    /\ Queue(StoreOp(0, "dropped", {s}))
    /\ req' = Dropping({s})
    /\ hurt' = (hurt \/ SigningIn)
    /\ UNCHANGED <<calls, disk, page, flight, left, mishaps>>

Refused10002(s) == req[s].st = "sent" /\ ~Accepted(req[s].tok)

BuyerDenied(s) ==
    /\ kind = "buyer" /\ Refused10002(s)
    /\ \/ flight[1] /\ GiveUp(s)
       \/ ~flight[1] /\ mem.refresh = 0 /\ Drop(s)
       \/ ~flight[1] /\ mem.refresh # 0 /\ Ask(s, 1)
    /\ UNCHANGED <<kind, server, mem, mine, cut>>

\* Mutant: every denied request refreshes for itself.
SellerDeniedAlone(s) ==
    /\ kind = "seller" /\ Refused10002(s)
    /\ \/ mem.refresh = 0 /\ Drop(s)
       \/ mem.refresh # 0 /\ Ask(s, 1)
    /\ UNCHANGED <<kind, server, mem, mine, cut>>

SellerDenied(s) ==
    /\ kind = "seller" /\ Refused10002(s)
    /\ \/ mem.refresh = 0 /\ Drop(s)
       \/ mem.refresh # 0 /\ ~flight[1] /\ Ask(s, 1)
       \/ mem.refresh # 0 /\ flight[1] /\ Join(s)
    /\ UNCHANGED <<kind, server, mem, mine, cut>>

\* apiRequest: a second denial of the same request is just returned.
AdminDenied(s) ==
    LET t == req[s].tab IN
    /\ kind = "admin" /\ Refused10002(s)
    /\ \/ req[s].again /\ GiveUp(s)
       \/ /\ ~req[s].again /\ disk.refresh = 0
          /\ disk' = NoTokens
          /\ page' = [page EXCEPT ![t] = "login"]
          /\ req' = [req EXCEPT ![s] = Idle]
          /\ UNCHANGED <<calls, writes, flight, left, hurt, mishaps>>
       \/ ~req[s].again /\ disk.refresh # 0 /\ ~flight[t] /\ Ask(s, t)
       \/ ~req[s].again /\ disk.refresh # 0 /\ flight[t] /\ Join(s)
    /\ UNCHANGED <<kind, server, mem, mine, cut>>

-----------------------------------------------------------------------------
(* Answers to a refresh.                                                   *)

\* The answer is not heard: an error or the timeout, whether or not the
\* server handles the call before or after.
Unheard(c) == calls' = (calls \ {c}) \cup StillOpen([c EXCEPT !.tab = 0])
Heard(c) == calls' = calls \ {c}

\* Somebody signed in or out since the refresh was asked.
Outdated(c) == SigningIn \/ c.old # Held.refresh

\* The refresh of tab t is over and did not help.
RefreshEnds(t) ==
    /\ flight' = [flight EXCEPT ![t] = FALSE]
    /\ req' = Rejected(t)

\* The admin web drops the tokens every tab uses, whatever they are by now.
AdminSignedOut(t) ==
    /\ disk' = NoTokens
    /\ page' = [page EXCEPT ![t] = "login"]
    /\ RefreshEnds(t)
    /\ UNCHANGED writes

\* Mutant: only the access token of the answer is stored.
GrantedAccessOnly(c) ==
    /\ c.tab # 0 /\ c.st = "granted" /\ kind = "admin"
    /\ Heard(c)
    /\ disk' = [disk EXCEPT !.access = c.new]
    /\ req' = Resent(c.tab, c.new)
    /\ flight' = [flight EXCEPT ![c.tab] = FALSE]
    /\ hurt' = (hurt \/ Outdated(c))
    /\ UNCHANGED <<kind, server, mem, writes, page, mine, left, mishaps, cut>>

Granted(c) ==
    LET t == c.tab IN
    /\ t # 0 /\ c.st = "granted"
    /\ Heard(c)
    /\ IF kind = "admin"
       THEN /\ disk' = Pair(c.new)
            /\ req' = Resent(t, c.new)
            /\ flight' = [flight EXCEPT ![t] = FALSE]
            /\ UNCHANGED writes
       ELSE /\ Queue(StoreOp(c.new, "refreshed", {}))
            /\ UNCHANGED <<disk, req, flight>>
    /\ hurt' = (hurt \/ Outdated(c))
    /\ UNCHANGED <<kind, server, mem, page, mine, left, mishaps, cut>>

Denied(c) ==
    LET t == c.tab IN
    /\ t # 0 /\ c.st = "refused"
    /\ Heard(c)
    /\ IF kind = "admin"
       THEN AdminSignedOut(t)
       ELSE /\ Queue(StoreOp(0, "refused", {}))
            /\ UNCHANGED <<disk, page, req, flight>>
    /\ hurt' = (hurt \/ Outdated(c))
    /\ UNCHANGED <<kind, server, mem, mine, left, mishaps, cut>>

\* The buyer app keeps its tokens, the others sign out.
Lost(c) ==
    LET t == c.tab IN
    /\ t # 0
    /\ Unheard(c)
    /\ \/ kind = "buyer" /\ RefreshEnds(t) /\ UNCHANGED <<disk, writes, page>>
       \/ /\ kind = "seller"
          /\ Queue(StoreOp(0, "rejected", Waiters(t)))
          /\ req' = Dropping(Waiters(t))
          /\ UNCHANGED <<disk, page, flight>>
       \/ kind = "admin" /\ AdminSignedOut(t)
    /\ hurt' = TRUE
    /\ UNCHANGED <<kind, server, mem, mine, left, mishaps, cut>>

-----------------------------------------------------------------------------
(* setAuth and clearAuth at work.                                          *)

WriteAccess ==
    /\ writes # <<>> /\ ~Head(writes).half
    /\ disk' = [disk EXCEPT !.access = Head(writes).pair]
    /\ writes' = [writes EXCEPT ![1].half = TRUE]
    /\ UNCHANGED <<kind, server, calls, mem, page, req, flight, history>>

\* Mutant: clearing the store shows no login page.
PageAfterStay(op) ==
    CASE op.next = "login" -> "inside" [] op.next = "logout" -> "login" [] OTHER -> page[1]
\* The page a finished call leads to.
PageAfter(op) ==
    CASE op.next = "login" -> "inside"
      [] op.next = "logout" -> "login"
      [] op.next \in {"refused", "rejected", "dropped"} /\ kind = "seller" -> "login"
      [] OTHER -> page[1]

\* In the seller app a refused refresh clears the store and fails, upon which
\* everybody who waited for it clears the store once more.
ClearsTwice(op) == op.next = "refused" /\ kind = "seller"

\* The other keys, the store, and what the caller does after await.
WriteRest ==
    LET op == Head(writes) IN
    /\ writes # <<>> /\ Head(writes).half
    /\ disk' = [disk EXCEPT !.refresh = op.pair]
    /\ mem' = Pair(op.pair)
    /\ page' = [page EXCEPT ![1] = PageAfter(op)]
    /\ IF ClearsTwice(op)
       THEN /\ writes' = Append(Tail(writes), StoreOp(0, "rejected", Waiters(1)))
            /\ req' = Dropping(Waiters(1))
            /\ hurt' = (hurt \/ SigningIn)
            /\ UNCHANGED <<flight, cut>>
       ELSE /\ writes' = Tail(writes)
            /\ req' = CASE op.next = "refreshed" -> Resent(1, op.pair)
                        [] op.next = "refused" -> Rejected(1)
                        [] OTHER -> [s \in Slots |-> IF s \in op.who THEN Idle ELSE req[s]]
            /\ flight' = [flight EXCEPT ![1] = @ /\ op.next \notin {"refreshed", "refused", "rejected"}]
            /\ cut' = (cut \/ (op.next = "rejected" /\ Pending(1)))
            /\ UNCHANGED hurt
    /\ UNCHANGED <<kind, server, calls, mine, left, mishaps>>

-----------------------------------------------------------------------------
ServerStep == \/ \E c \in calls : CheckRefresh(c) \/ Exchange(c)
              \/ \E p \in 1..pairs : Expire(p) \/ Forget(p)
              \/ Restart

UserStep == \/ BuyerLogin \/ SellerLogin \/ BuyerLogout \/ SellerLogout
            \/ \E t \in OwnTabs : \/ Open(t) \/ Navigate(t) \/ Kill(t)
                                  \/ AdminLogin(t) \/ LoginRefused(t) \/ AdminLogout(t)
                                  \/ \E s \in Slots : Send(s, t)

RequestStep(s) == Answered(s) \/ BuyerDenied(s) \/ SellerDenied(s) \/ AdminDenied(s)
RefreshAnswer == \E c \in calls : Granted(c) \/ Denied(c) \/ Lost(c)
StoreStep == WriteAccess \/ WriteRest

Next == \/ ServerStep \/ UserStep \/ RefreshAnswer \/ StoreStep
        \/ \E s \in Slots : RequestStep(s)

Spec == Init /\ [][Next]_vars
-----------------------------------------------------------------------------
(* Properties.                                                             *)

Rest == writes = <<>> /\ \A t \in OwnTabs : page[t] # "off" /\ ~Pending(t)

TypeOK ==
    /\ kind \in Kinds
    /\ live \subseteq 1..pairs /\ stale \subseteq 1..pairs
    /\ pairs \in 0..MaxPairs
    /\ disk \in [access : 0..pairs, refresh : 0..pairs]
    /\ mem \in [access : 0..pairs, refresh : 0..pairs]
    /\ page \in [Tabs -> {"off", "login", "inside"}]
    /\ req \in [Slots -> [st : {"idle", "sent", "refreshing", "dropping"},
                          tok : 0..pairs, tab : Tabs, again : BOOLEAN]]
    /\ flight \in [Tabs -> BOOLEAN]
    /\ mine \in 0..pairs
    /\ left \in {"no", "clean", "loose"} /\ hurt \in BOOLEAN /\ cut \in BOOLEAN
    /\ mishaps \in 0..MaxMishaps[kind]

\* Who signed out stays signed out until the next login: no late answer brings
\* the tokens back, unless a refresh was under way before the sign-out was
\* stored, or the app was killed before it was.
SignOutSticks ==
    left = "clean" /\ Rest => Held = NoTokens /\ disk = NoTokens

\* A client only parts from a refresh token the server still honours when the
\* user signed out, an answer was lost, the app was killed in between, a
\* denial of before the login came late, two tabs spent one token, or a login
\* in another tab failed.
HonouredSessionKept ==
    Rest /\ mine \in live => Held.refresh = mine \/ hurt

\* However many requests are denied together, a tab waits for one refresh, unless
\* one that gave up an old refresh late made the seller app forget a newer one
\* (its finally block).
OneRefreshAtATime ==
    cut \/ \A t \in OwnTabs : Cardinality({c \in calls : c.tab = t}) <= 1

\* The seller app never shows its screens without tokens.
InsideHoldsTokens ==
    kind = "seller" /\ page[1] = "inside" => mem.access # 0

\* A request that waits for a refresh waits for something: a call in flight, or
\* tokens being stored.  No client leaves a promise behind that never settles.
WaitersAreServed == \A s \in Slots : req[s].st = "refreshing" => Pending(req[s].tab)
=============================================================================
