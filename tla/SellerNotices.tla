--------------------------- MODULE SellerNotices ---------------------------
(***************************************************************************)
(* The messages of a seller on the server.  They are made up whenever they *)
(* are asked for: a sync looks at the facts (orders, products, the shop),  *)
(* then at the messages there are, and writes one statement after the      *)
(* other what is missing, what reads differently and what has no fact any  *)
(* more.  Nothing keeps a second sync from doing so at the same time.      *)
(***************************************************************************)
EXTENDS Integers, FiniteSets

CONSTANTS None,
          Facts,      \* what a message can be about, each read by a query of its own
          Contents,   \* what it can say
          MaxSyncs    \* bound: syncs at work at a time

VARIABLES fact,      \* what is the case; None is nothing to tell
          notices,   \* the messages
          syncs,     \* syncs at work, with what they read
          synced,    \* history: a sync has told the facts as they are
          crossed    \* history: two syncs were at work at once

vars == <<fact, notices, syncs, synced, crossed>>

Told == Contents \cup {None}
Message == [id : Nat, of : Facts, content : Contents, read : BOOLEAN]
NewId(ids) == CHOOSE i \in 1..(Cardinality(ids) + 1) : i \notin ids
\* No id is handed out twice: not while some sync remembers it.
Known == {n.id : n \in notices}
         \cup UNION {{s.existing[k].id : k \in {f \in Facts : s.existing[f] # None}} : s \in syncs}
About(k) == {n \in notices : n.of = k}
Step(s, t) == syncs' = (syncs \ {s}) \cup {t}

-----------------------------------------------------------------------------
\* now is history: no fact changed since the sync began.
Start == /\ Cardinality(syncs) < MaxSyncs
         /\ syncs' = syncs \cup {[id |-> NewId({s.id : s \in syncs}), look |-> Facts, write |-> {},
                                  now |-> TRUE, expected |-> [k \in Facts |-> None],
                                  existing |-> [k \in Facts |-> None]]}
         /\ crossed' = (crossed \/ syncs # {}) /\ UNCHANGED <<fact, notices, synced>>

Look(s, k) == /\ k \in s.look
              /\ Step(s, [s EXCEPT !.look = @ \ {k}, !.expected[k] = fact[k]])
              /\ UNCHANGED <<fact, notices, synced, crossed>>

\* Of several messages about one fact the map keeps one.
OneOf(k) == IF About(k) = {} THEN {None} ELSE About(k)
ListGenerated(s) ==
    /\ s.look = {} /\ s.write = {} /\ UNCHANGED <<fact, notices, synced, crossed>>
    /\ \E e \in [Facts -> notices \cup {None}] :
          /\ \A k \in Facts : e[k] \in OneOf(k)
          /\ Step(s, [s EXCEPT !.write = Facts, !.existing = e])

Fresh(k, v) == [id |-> NewId(Known), of |-> k, content |-> v, read |-> FALSE]
\* Mutant: a message that reads differently is written a second time.
WrittenAnew(s, k) == notices \cup {Fresh(k, s.expected[k])}
\* A message another sync deleted is not there to be updated.
Written(s, k) ==
    IF s.existing[k] = None THEN notices \cup {Fresh(k, s.expected[k])}
    ELSE IF s.existing[k].content = s.expected[k] THEN notices
    ELSE {IF n.id = s.existing[k].id THEN [n EXCEPT !.content = s.expected[k], !.read = FALSE]
          ELSE n : n \in notices}
Write(s, k) == /\ k \in s.write /\ s.expected[k] # None /\ notices' = Written(s, k)
               /\ Step(s, [s EXCEPT !.expected[k] = None, !.existing[k] = None])
               /\ UNCHANGED <<fact, synced, crossed>>

\* What is left of the map has no fact.
Stale(s) == {s.existing[k].id : k \in {f \in Facts : s.existing[f] # None}}
Finish(s) == /\ s.write = Facts /\ \A k \in Facts : s.expected[k] = None
             /\ notices' = {n \in notices : n.id \notin Stale(s)}
             /\ syncs' = syncs \ {s} /\ synced' = (synced \/ s.now) /\ UNCHANGED <<fact, crossed>>
\* A statement fails, or the process dies: the rest is not done.
Fail(s) == syncs' = syncs \ {s} /\ UNCHANGED <<fact, notices, synced, crossed>>

-----------------------------------------------------------------------------
MarkRead(n) == /\ notices' = (notices \ {n}) \cup {[n EXCEPT !.read = TRUE]}
               /\ UNCHANGED <<fact, syncs, synced, crossed>>
MarkAllRead == /\ notices' = {[n EXCEPT !.read = TRUE] : n \in notices}
               /\ UNCHANGED <<fact, syncs, synced, crossed>>

FactChanges(k) == /\ \E v \in Told \ {fact[k]} : fact' = [fact EXCEPT ![k] = v]
                  /\ syncs' = {[s EXCEPT !.now = FALSE] : s \in syncs} /\ synced' = FALSE
                  /\ UNCHANGED <<notices, crossed>>

-----------------------------------------------------------------------------
Init == /\ fact \in [Facts -> Told] /\ notices = {} /\ syncs = {}
        /\ synced = FALSE /\ crossed = FALSE

Next == \/ Start \/ MarkAllRead
        \/ \E s \in syncs : \/ ListGenerated(s) \/ Finish(s) \/ Fail(s)
                            \/ \E k \in Facts : Look(s, k) \/ Write(s, k)
        \/ \E n \in notices : MarkRead(n)
        \/ \E k \in Facts : FactChanges(k)
Spec == Init /\ [][Next]_vars

-----------------------------------------------------------------------------
TypeOK == /\ fact \in [Facts -> Told]
          /\ notices \subseteq Message
          /\ \A m, n \in notices : m.id = n.id => m = n
          /\ \A s \in syncs : s.look \subseteq Facts /\ s.expected \in [Facts -> Told]

\* Of every fact there is one message at most, and after a sync exactly the facts
\* are told, as long as no two syncs were at work at once: then one of them may
\* write what the other has just written, and it stays twice.
NoticesTellFacts ==
    crossed \/ /\ \A k \in Facts : Cardinality(About(k)) <= 1
               /\ synced => \A k \in Facts : {n.content : n \in About(k)} = {fact[k]} \ {None}
=============================================================================
