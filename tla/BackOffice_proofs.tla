-------------------------- MODULE BackOffice_proofs --------------------------
(***************************************************************************)
(* Theorems about the pages of the seller app and of the admin web, for    *)
(* any number of products, orders, categories, keys, messages, rows and    *)
(* requests: every page keeps to what its component declares, at rest it   *)
(* shows what the server has, and its spinners stand for requests.         *)
(*                                                                         *)
(* Each part below is one page.  Its invariant says of every request what  *)
(* its answer is worth: an answer that shows rows is of the rows as they   *)
(* are, unless the history variable crossed says that they moved since;    *)
(* while the page does not show the rows, a request is under way whose end *)
(* will show them; and each spinner has the request that will end it.      *)
(***************************************************************************)
EXTENDS BackOffice_server_proofs

-----------------------------------------------------------------------------
(* Requests under way: finitely many, each with an id of its own.          *)

Numbered(cs) == /\ IsFiniteSet(cs) /\ \A c \in cs : c.id \in Nat
                /\ \A c, d \in cs : c.id = d.id => c = d
New(cs, i) == i \in Nat /\ \A c \in cs : c.id # i
States == {"sent", "done", "refused"}

\* A set of numbers that is smaller than an interval leaves one of it free.
LEMMA FreeNumber ==
    ASSUME NEW cs, IsFiniteSet(cs), NEW n \in Nat, Cardinality(cs) < n
    PROVE  \E i \in 1 .. n : i \notin {c.id : c \in cs}
  <1> SUFFICES ASSUME \A i \in 1 .. n : \E c \in cs : c.id = i PROVE FALSE
    OBVIOUS
  <1> DEFINE f == [i \in 1 .. n |-> CHOOSE c \in cs : c.id = i]
  <1>1. f \in [1 .. n -> cs] /\ \A i \in 1 .. n : f[i].id = i
    OBVIOUS
  <1>2. IsFiniteSet(1 .. n) /\ Cardinality(1 .. n) = n
    BY FS_Interval
  <1> HIDE DEF f
  <1>3. \E i, j \in 1 .. n : i # j /\ f[i] = f[j]
    BY <1>1, <1>2, FS_PigeonHole
  <1> QED
    BY <1>1, <1>3

\* The request that a page makes.
FreeId(cs) == CHOOSE i \in 1 .. (Cardinality(cs) + 1) : i \notin {c.id : c \in cs}
Made(cs, owner, what, arg) ==
    [id |-> FreeId(cs), owner |-> owner, what |-> what, arg |-> arg, state |-> "sent", reply |-> None]
\* The request c, with its answer.
Replied(c, ok, reply) == [c EXCEPT !.state = IF ok THEN "done" ELSE "refused", !.reply = reply]

LEMMA FreeIsNew == ASSUME NEW cs, Numbered(cs) PROVE New(cs, FreeId(cs))
  <1>1. Cardinality(cs) \in Nat
    BY FS_CardinalityType DEF Numbered
  <1>2. \E i \in 1 .. (Cardinality(cs) + 1) : i \notin {c.id : c \in cs}
    BY <1>1, FreeNumber DEF Numbered
  <1>3. FreeId(cs) \in 1 .. (Cardinality(cs) + 1) /\ FreeId(cs) \notin {c.id : c \in cs}
    BY <1>2 DEF FreeId
  <1> QED
    BY <1>1, <1>3 DEF New

LEMMA NumberedMore ==
    ASSUME NEW cs, Numbered(cs), NEW c, New(cs, c.id)
    PROVE  Numbered(cs \cup {c})
  <1>1. c \notin cs
    BY DEF New
  <1> QED
    BY <1>1, FS_AddElement DEF Numbered, New

LEMMA NumberedFewer ==
    ASSUME NEW cs, Numbered(cs), NEW ds, ds \subseteq cs
    PROVE  Numbered(ds)
  BY FS_Subset DEF Numbered

\* A request that was answered keeps its place.
LEMMA NumberedSwap ==
    ASSUME NEW cs, Numbered(cs), NEW c \in cs, NEW d, d.id = c.id,
           NEW ds, ds = (cs \ {c}) \cup {d}
    PROVE  Numbered(ds)
  <1>1. Numbered(cs \ {c}) /\ New(cs \ {c}, d.id)
    BY NumberedFewer DEF New, Numbered
  <1> QED
    BY <1>1, NumberedMore

\* Requests that are left to themselves keep their numbers.
LEMMA NumberedLeft ==
    ASSUME NEW cs, Numbered(cs), NEW S, S \subseteq cs, NEW g, \A c \in S : g[c].id = c.id,
           NEW ds, \A d \in ds : \E c \in S : d = g[c], \A c \in S : g[c] \in ds
    PROVE  Numbered(ds)
  <1>1. IsFiniteSet(S)
    BY FS_Subset DEF Numbered
  <1> PICK h : h = [c \in S |-> g[c]]
    OBVIOUS
  <1>2. h \in Surjection(S, ds)
    BY DEF Surjection
  <1>3. IsFiniteSet(ds)
    BY <1>1, <1>2, FS_Surjection
  <1> QED
    BY <1>3 DEF Numbered

-----------------------------------------------------------------------------
(* The forms of the admin.                                                 *)

EntryContents == Contents \cup {None}
EntryRows == UNION {[D -> EntryContents] : D \in SUBSET Rows}
EntryForms == [open : BOOLEAN, edit : Rows \cup {None}, value : EntryContents]
EntryViews == [name : Entries!Names, open : BOOLEAN, loading : BOOLEAN, failed : BOOLEAN, rows : EntryRows,
               form : EntryForms, confirm : Rows \cup {None}]
EntryCall(c) ==
    /\ c \in [id : Nat, owner : {"page"}, what : {c.what}, arg : {c.arg}, state : States, reply : {c.reply}]
    /\ \/ c.what = "list" /\ (c.state = "done" => c.reply \in EntryRows)
       \/ c.what = "save" /\ c.arg \in EntryForms
       \/ c.what = "delete" /\ c.arg \in Rows
EntryCalls(cs) == Numbered(cs) /\ \A c \in cs : EntryCall(c)
EntryPlace == content \in [Rows -> EntryContents] /\ view \in EntryViews /\ crossed \in BOOLEAN
EntryWaits(v, cs) == v.loading => \E c \in cs : c.what = "list"
EntryPends(v, cs) == \/ v.failed
                     \/ \E c \in cs : \/ c.what = "list" /\ c.state # "done"
                                      \/ c.what # "list" /\ c.state = "done"
EntryTrue(v, cs) ==
    \/ EntryPends(v, cs)
    \/ LET now == Entries!Live(content) IN
       /\ \A c \in cs : c.what = "list" => c.reply = now
       /\ v.rows = now \/ \E c \in cs : c.what = "list"
EntriesInv == /\ EntryPlace /\ EntryCalls(calls) /\ EntryWaits(view, calls)
              /\ crossed \/ ~view.open \/ EntryTrue(view, calls)

LEMMA EntryRequest ==
    ASSUME NEW cs, NEW owner, NEW what, NEW arg
    PROVE  Entries!Request(cs, owner, what, arg) = Made(cs, owner, what, arg)
  BY DEF Entries!Request, Entries!NewId, Entries!Cardinality, Made, FreeId, Cardinality

LEMMA EntryHandled ==
    ASSUME NEW cs, NEW c, NEW ok, NEW reply
    PROVE  Entries!Handled(cs, c, ok, reply) = (cs \ {c}) \cup {Replied(c, ok, reply)}
  BY DEF Entries!Handled, Replied

EntrySends(c, cs, what, arg) ==
    /\ EntryCall(c) /\ c.what = what /\ c.arg = arg /\ c.state = "sent" /\ EntryCalls(cs \cup {c})

LEMMA EntryAsks ==
    ASSUME NEW cs, EntryCalls(cs), NEW what, NEW arg,
           \/ what = "list"
           \/ what = "save" /\ arg \in EntryForms
           \/ what = "delete" /\ arg \in Rows
    PROVE  \E c : Entries!Ask(cs, what, arg) = cs \cup {c} /\ EntrySends(c, cs, what, arg)
  <1> PICK i : i = FreeId(cs)
    OBVIOUS
  <1> PICK c : c = [id |-> i, owner |-> "page", what |-> what, arg |-> arg, state |-> "sent", reply |-> None]
    OBVIOUS
  <1>1. New(cs, c.id)
    BY FreeIsNew DEF EntryCalls
  <1>2. EntryCall(c)
    BY <1>1 DEF EntryCall, New, States
  <1>3. EntryCalls(cs \cup {c})
    BY <1>1, <1>2, NumberedMore DEF EntryCalls
  <1>4. Entries!Ask(cs, what, arg) = cs \cup {c}
    BY EntryRequest DEF Entries!Ask, Made
  <1> QED
    BY <1>2, <1>3, <1>4 DEF EntrySends

\* What the page does with itself, or asks for that changes no list.
EntryLike(v) == /\ v \in EntryViews /\ v.open = view.open /\ v.loading = view.loading
                /\ v.failed = view.failed /\ v.rows = view.rows

LEMMA EntryCalm ==
    ASSUME EntriesInv, EntryLike(view'), EntryCalls(calls'), UNCHANGED <<content, crossed>>,
           \A c \in calls : c.what = "list" \/ c.state = "done" => c \in calls',
           \A c \in calls' : c.what = "list" => c \in calls
    PROVE  EntriesInv'
  <1>1. EntryPlace' /\ EntryWaits(view', calls')
    BY DEF EntriesInv, EntryPlace, EntryWaits, EntryLike
  <1>2. Entries!Live(content)' = Entries!Live(content)
    BY DEF Entries!Live
  <1>3. EntryPends(view, calls) => EntryPends(view', calls')
    BY DEF EntryPends, EntryLike
  <1>4. EntryTrue(view, calls) => EntryTrue(view, calls)'
    BY <1>2, <1>3 DEF EntryTrue, EntryLike
  <1> QED
    BY <1>1, <1>4 DEF EntriesInv, EntryLike

LEMMA EntryLoads ==
    ASSUME EntriesInv, NEW v \in EntryViews, NEW cs, cs \subseteq calls, NEW then,
           Entries!Load(v, cs, then), UNCHANGED content, crossed' \in BOOLEAN
    PROVE  EntriesInv'
  <1>1. EntryCalls(cs)
    BY NumberedFewer DEF EntriesInv, EntryCalls
  <1>2. PICK c : Entries!Ask(cs, "list", then) = cs \cup {c} /\ EntrySends(c, cs, "list", then)
    BY <1>1, EntryAsks
  <1>3. view' = [v EXCEPT !.loading = TRUE, !.failed = FALSE] /\ calls' = cs \cup {c}
    BY <1>2 DEF Entries!Load
  <1>4. view' \in EntryViews
    BY <1>3 DEF EntryViews
  <1>5. c \in calls' /\ c.what = "list" /\ c.state # "done" /\ EntryCalls(calls')
    BY <1>2, <1>3 DEF EntrySends
  <1>6. EntryPlace' /\ EntryWaits(view', calls')
    BY <1>4, <1>5 DEF EntriesInv, EntryPlace, EntryWaits
  <1>7. EntryTrue(view, calls)'
    BY <1>5 DEF EntryTrue, EntryPends
  <1> QED
    BY <1>5, <1>6, <1>7 DEF EntriesInv

LEMMA EntrySendsCalm ==
    ASSUME EntriesInv, NEW what \in {"save", "delete"}, NEW arg,
           what = "save" => arg \in EntryForms, what = "delete" => arg \in Rows,
           calls' = Entries!Ask(calls, what, arg), UNCHANGED <<view, content, crossed>>
    PROVE  EntriesInv'
  <1>1. EntryCalls(calls)
    BY DEF EntriesInv
  <1>2. PICK c : Entries!Ask(calls, what, arg) = calls \cup {c} /\ EntrySends(c, calls, what, arg)
    BY <1>1, EntryAsks
  <1>3. calls' = calls \cup {c} /\ EntryCalls(calls') /\ c.what # "list"
    BY <1>2 DEF EntrySends
  <1>4. EntryLike(view')
    BY DEF EntryLike, EntriesInv, EntryPlace
  <1> QED
    BY <1>3, <1>4, EntryCalm

LEMMA EntryFills ==
    ASSUME EntriesInv, NEW f \in EntryForms, Entries!Fill(f), UNCHANGED <<content, crossed>>
    PROVE  EntriesInv'
  <1>1. view' = [view EXCEPT !.form = f] /\ calls' = calls
    BY DEF Entries!Fill
  <1>2. EntryLike(view')
    BY <1>1 DEF EntryLike, EntriesInv, EntryPlace, EntryViews
  <1> QED
    BY <1>1, <1>2, EntryCalm DEF EntriesInv

LEMMA EntryConfirms ==
    ASSUME EntriesInv, NEW r \in Rows \cup {None}, view' = [view EXCEPT !.confirm = r],
           UNCHANGED <<calls, content, crossed>>
    PROVE  EntriesInv'
  <1>1. EntryLike(view')
    BY DEF EntryLike, EntriesInv, EntryPlace, EntryViews
  <1> QED
    BY <1>1, EntryCalm DEF EntriesInv

LEMMA EntriesTap ==
    ASSUME EntriesInv, Entries!Tap \/ Entries!Go, UNCHANGED <<content, crossed>>
    PROVE  EntriesInv'
  <1>0. view \in EntryViews /\ crossed' \in BOOLEAN
    BY DEF EntriesInv, EntryPlace
  <1>1. CASE Entries!Refresh
    BY <1>0, <1>1, EntryLoads DEF Entries!Refresh
  <1>2. CASE Entries!SaveForm
    <2>1. view.form \in EntryForms
      BY <1>0 DEF EntryViews
    <2> QED
      BY <1>2, <2>1, EntrySendsCalm DEF Entries!SaveForm
  <1>3. CASE Entries!RemoveYes
    <2>1. view.confirm \in Rows
      BY <1>0, <1>3 DEF EntryViews, Entries!RemoveYes, Entries!Offers, Entries!RowOffers, Entries!BannersTable,
            Entries!BannersQueue, Entries!CategoriesTable, Entries!CategoriesQueue
    <2> QED
      BY <1>3, <2>1, EntrySendsCalm DEF Entries!RemoveYes
  <1>4. CASE Entries!Open
    <2>1. PICK v : v = [view EXCEPT !.open = TRUE]
      OBVIOUS
    <2>2. v \in EntryViews
      BY <1>0, <2>1 DEF EntryViews
    <2> QED
      BY <1>0, <1>4, <2>1, <2>2, EntryLoads DEF Entries!Open
  <1>5. CASE Entries!New \/ Entries!Type \/ Entries!Cancel
    <2>1. CASE Entries!New
      <3>1. PICK v \in Contents : Entries!Fill([open |-> TRUE, edit |-> None, value |-> v])
        BY <2>1 DEF Entries!New
      <3>2. [open |-> TRUE, edit |-> None, value |-> v] \in EntryForms
        BY DEF EntryForms, EntryContents
      <3> QED
        BY <3>1, <3>2, EntryFills
    <2>2. CASE Entries!Type
      <3>1. PICK v \in Contents : Entries!Fill([view.form EXCEPT !.value = v])
        BY <2>2 DEF Entries!Type
      <3>2. [view.form EXCEPT !.value = v] \in EntryForms
        BY <1>0 DEF EntryForms, EntryContents, EntryViews
      <3> QED
        BY <3>1, <3>2, EntryFills
    <2>3. CASE Entries!Cancel
      <3>1. Entries!NoForm \in EntryForms
        BY DEF EntryForms, EntryContents, Entries!NoForm
      <3> QED
        BY <2>3, <3>1, EntryFills DEF Entries!Cancel
    <2> QED
      BY <1>5, <2>1, <2>2, <2>3
  <1>6. CASE Entries!RemoveNo
    BY <1>6, EntryConfirms DEF Entries!RemoveNo
  <1>7. ASSUME NEW r \in Rows, Entries!Edit(r) \/ Entries!Remove(r) PROVE EntriesInv'
    <2>1. CASE Entries!Edit(r)
      <3>1. view.rows[r] \in EntryContents
        BY <1>0, <2>1 DEF EntryViews, EntryRows, Entries!Edit
      <3>2. [open |-> TRUE, edit |-> r, value |-> view.rows[r]] \in EntryForms
        BY <3>1 DEF EntryForms
      <3> QED
        BY <2>1, <3>2, EntryFills DEF Entries!Edit
    <2>2. CASE Entries!Remove(r)
      BY <2>2, EntryConfirms DEF Entries!Remove
    <2> QED
      BY <1>7, <2>1, <2>2
  <1> QED
    BY <1>1, <1>2, <1>3, <1>4, <1>5, <1>6, <1>7 DEF Entries!Tap, Entries!Go

LEMMA EntriesAnswer ==
    ASSUME EntriesInv, NEW c \in calls, Entries!Answer(c), UNCHANGED <<content, crossed>>
    PROVE  EntriesInv'
  <1>0. view \in EntryViews /\ crossed' \in BOOLEAN /\ EntryCall(c)
    BY DEF EntriesInv, EntryPlace, EntryCalls
  <1>1. EntryCalls(calls \ {c})
    BY NumberedFewer DEF EntriesInv, EntryCalls
  <1>2. CASE Entries!ListAnswer(c)
    <2>1. c.what = "list" /\ c.state \in {"done", "refused"} /\ calls' = calls \ {c}
      BY <1>2 DEF Entries!ListAnswer
    <2>2. PICK v : v = [view EXCEPT !.loading = FALSE, !.confirm = IF c.arg = "delete" THEN None ELSE @]
      OBVIOUS
    <2>3. v \in EntryViews /\ ~v.loading /\ v.rows = view.rows /\ v.failed = view.failed /\ v.open = view.open
      BY <1>0, <2>2 DEF EntryViews
    <2>4. view' = IF c.state = "done" THEN [v EXCEPT !.rows = c.reply] ELSE [v EXCEPT !.failed = TRUE]
      BY <1>2, <2>2 DEF Entries!ListAnswer
    <2>5. CASE c.state = "refused"
      <3>1. view' = [v EXCEPT !.failed = TRUE]
        BY <2>4, <2>5
      <3>2. view' \in EntryViews /\ view'.failed /\ ~view'.loading
        BY <2>3, <3>1 DEF EntryViews
      <3>3. EntryTrue(view, calls)'
        BY <3>2 DEF EntryTrue, EntryPends
      <3> QED
        BY <1>0, <1>1, <2>1, <3>2, <3>3 DEF EntriesInv, EntryPlace, EntryWaits
    <2>6. CASE c.state = "done"
      <3>1. view' = [v EXCEPT !.rows = c.reply] /\ c.reply \in EntryRows
        BY <1>0, <2>1, <2>4, <2>6 DEF EntryCall
      <3>2. /\ view' \in EntryViews /\ view'.failed = view.failed /\ ~view'.loading /\ view'.rows = c.reply
            /\ view'.open = view.open
        BY <2>3, <3>1 DEF EntryViews
      <3>3. Entries!Live(content)' = Entries!Live(content)
        BY DEF Entries!Live
      <3>4. EntryPends(view, calls) => EntryPends(view', calls')
        BY <2>1, <2>6, <3>2 DEF EntryPends
      <3>5. EntryTrue(view, calls) => EntryTrue(view, calls)'
        BY <2>1, <3>2, <3>3, <3>4 DEF EntryTrue
      <3> QED
        BY <1>0, <1>1, <2>1, <3>2, <3>5 DEF EntriesInv, EntryPlace, EntryWaits
    <2> QED
      BY <2>1, <2>5, <2>6
  <1>3. CASE Entries!SaveAnswer(c)
    <2>1. c.what = "save" /\ c.state \in {"done", "refused"}
      BY <1>3 DEF Entries!SaveAnswer
    <2>2. CASE c.state = "done"
      <3>1. PICK v : v = [view EXCEPT !.form = Entries!NoForm]
        OBVIOUS
      <3>2. v \in EntryViews
        BY <1>0, <3>1 DEF EntryViews, EntryForms, Entries!NoForm, EntryContents
      <3>3. Entries!Load(v, calls \ {c}, None)
        BY <1>3, <2>2, <3>1 DEF Entries!SaveAnswer
      <3> QED
        BY <1>0, <3>2, <3>3, EntryLoads
    <2>3. CASE c.state = "refused"
      <3>1. calls' = calls \ {c} /\ view' = view
        BY <1>3, <2>3 DEF Entries!SaveAnswer
      <3>2. EntryLike(view')
        BY <1>0, <3>1 DEF EntryLike
      <3> QED
        BY <1>1, <2>1, <2>3, <3>1, <3>2, EntryCalm
    <2> QED
      BY <2>1, <2>2, <2>3
  <1>4. CASE Entries!RemoveAnswer(c)
    <2>1. c.what = "delete" /\ c.state \in {"done", "refused"}
      BY <1>4 DEF Entries!RemoveAnswer
    <2>2. CASE c.state = "done"
      <3>1. Entries!Load(view, calls \ {c}, "delete")
        BY <1>4, <2>2 DEF Entries!RemoveAnswer
      <3> QED
        BY <1>0, <3>1, EntryLoads
    <2>3. CASE c.state = "refused"
      <3>1. calls' = calls \ {c} /\ view' = [view EXCEPT !.confirm = None]
        BY <1>4, <2>3 DEF Entries!RemoveAnswer
      <3>2. EntryLike(view')
        BY <1>0, <3>1 DEF EntryLike, EntryViews
      <3> QED
        BY <1>1, <2>1, <2>3, <3>1, <3>2, EntryCalm
    <2> QED
      BY <2>1, <2>2, <2>3
  <1> QED
    BY <1>2, <1>3, <1>4 DEF Entries!Answer

EntryReplied(d, c, ok, reply, cs) ==
    /\ d.what = c.what /\ d.reply = reply /\ (ok => d.state = "done") /\ (~ok => d.state = "refused")
    /\ EntryCalls((cs \ {c}) \cup {d})

LEMMA EntryReplies ==
    ASSUME NEW cs, EntryCalls(cs), NEW c \in cs, NEW ok \in BOOLEAN, NEW reply,
           c.what = "list" /\ ok => reply \in EntryRows
    PROVE  \E d : Entries!Handled(cs, c, ok, reply) = (cs \ {c}) \cup {d} /\ EntryReplied(d, c, ok, reply, cs)
  <1> PICK d : d = Replied(c, ok, reply)
    OBVIOUS
  <1>1. EntryCall(c)
    BY DEF EntryCalls
  <1>2. /\ d.what = c.what /\ (ok => d.state = "done") /\ (~ok => d.state = "refused") /\ d.reply = reply
        /\ d.id = c.id /\ EntryCall(d)
    BY <1>1 DEF EntryCall, Replied, States
  <1> PICK ds : ds = (cs \ {c}) \cup {d}
    OBVIOUS
  <1>3. Numbered(ds)
    BY <1>2, NumberedSwap DEF EntryCalls
  <1>4. EntryCalls(ds)
    BY <1>2, <1>3 DEF EntryCalls
  <1>5. EntryReplied(d, c, ok, reply, cs)
    BY <1>2, <1>4 DEF EntryReplied
  <1> QED
    BY <1>5, EntryHandled

LEMMA LiveRows == ASSUME content \in [Rows -> EntryContents] PROVE Entries!Live(content) \in EntryRows
  <1>1. PICK D : D = {r \in Rows : content[r] # None}
    OBVIOUS
  <1>2. [r \in D |-> content[r]] \in [D -> EntryContents] /\ D \in SUBSET Rows
    BY <1>1
  <1>3. Entries!Live(content) = [r \in D |-> content[r]]
    BY <1>1 DEF Entries!Live
  <1> QED
    BY <1>2, <1>3 DEF EntryRows

\* A change that the page asked for will make it read its list again.
LEMMA EntriesServe ==
    ASSUME EntriesInv, NEW c \in calls, Entries!Serve(c),
           crossed' = IF c.what = "list" THEN Entries!Lists(calls) # {c} ELSE crossed
    PROVE  EntriesInv'
  <1>0. /\ c.state = "sent" /\ view' = view /\ view \in EntryViews /\ content \in [Rows -> EntryContents]
        /\ crossed' \in BOOLEAN /\ EntryCalls(calls) /\ EntryCall(c)
    BY DEF Entries!Serve, EntriesInv, EntryPlace, EntryCalls
  <1>1. CASE c.what = "list"
    <2>1. PICK now : now = Entries!Live(content)
      OBVIOUS
    <2>2. PICK ok \in BOOLEAN : ok /\ calls' = Entries!Handled(calls, c, ok, now) /\ content' = content
      BY <1>1, <2>1 DEF Entries!Serve
    <2> now \in EntryRows
      BY <1>0, <2>1, LiveRows
    <2>3. PICK d : calls' = (calls \ {c}) \cup {d} /\ EntryReplied(d, c, ok, now, calls)
      BY <1>0, <2>2, EntryReplies
    <2>4. d.what = "list" /\ d.state = "done" /\ d.reply = now /\ EntryCalls(calls')
      BY <1>1, <2>2, <2>3 DEF EntryReplied
    <2>5. Entries!Live(content)' = now
      BY <2>1, <2>2 DEF Entries!Live
    <2>6. ASSUME ~crossed' PROVE EntryTrue(view, calls)'
      <3>1. Entries!Lists(calls) = {c}
        BY <1>1, <2>6
      <3>2. \A e \in calls' : e.what = "list" => e.reply = now
        BY <2>3, <2>4, <3>1 DEF Entries!Lists
      <3> QED
        BY <2>3, <2>4, <2>5, <3>2 DEF EntryTrue
    <2>7. EntryPlace' /\ EntryWaits(view', calls')
      BY <1>0, <2>2, <2>3, <2>4 DEF EntryPlace, EntryWaits
    <2> QED
      BY <2>4, <2>6, <2>7 DEF EntriesInv
  <1>2. CASE c.what # "list"
    <2>1. PICK ok \in BOOLEAN : calls' = Entries!Handled(calls, c, ok, None) /\ (~ok => content' = content)
      BY <1>2 DEF Entries!Serve
    <2>3. PICK d : calls' = (calls \ {c}) \cup {d} /\ EntryReplied(d, c, ok, None, calls)
      BY <1>0, <1>2, <2>1, EntryReplies
    <2>4. /\ d.what = c.what /\ (ok => d.state = "done") /\ (~ok => d.state = "refused")
          /\ EntryCalls(calls')
      BY <2>3 DEF EntryReplied
    <2>5. CASE ~ok
      <3>1. EntryLike(view')
        BY <1>0 DEF EntryLike
      <3> QED
        BY <1>0, <1>2, <2>1, <2>3, <2>4, <2>5, <3>1, EntryCalm
    <2>6. CASE ok
      <3>1. content' \in [Rows -> EntryContents]
        <4>1. CASE c.what = "save" /\ Entries!Taken(c)
          <5>1. c.arg \in EntryForms
            BY <1>0, <4>1 DEF EntryCall
          <5>2. c.arg.edit \in Rows \cup {None} /\ c.arg.value \in EntryContents
            BY <5>1 DEF EntryForms
          <5>3. PICK r : content' = [content EXCEPT ![r] = c.arg.value]
            BY <4>1 DEF Entries!Taken, Entries!Put
          <5> QED
            BY <1>0, <5>2, <5>3
        <4>2. CASE c.what = "delete" /\ Entries!Put(c.arg, None)
          BY <1>0, <4>2 DEF EntryContents, Entries!Put
        <4>3. CASE content' = content
          BY <1>0, <4>3
        <4> QED
          BY <1>2, <4>1, <4>2, <4>3 DEF Entries!Serve
      <3>2. EntryTrue(view, calls)'
        BY <1>2, <2>3, <2>4, <2>6 DEF EntryTrue, EntryPends
      <3>3. EntryWaits(view', calls')
        BY <1>0, <1>2, <2>3 DEF EntryWaits, EntriesInv
      <3> QED
        BY <1>0, <2>4, <3>1, <3>2, <3>3 DEF EntriesInv, EntryPlace
    <2> QED
      BY <2>5, <2>6
  <1> QED
    BY <1>1, <1>2

LEMMA EntriesLose ==
    ASSUME EntriesInv, NEW c \in calls, Entries!Lose(c),
           crossed' = (crossed \/ (c.what # "list" /\ c.state = "done"))
    PROVE  EntriesInv'
  <1>0. /\ view \in EntryViews /\ content \in [Rows -> EntryContents]
        /\ crossed' \in BOOLEAN /\ EntryCalls(calls) /\ EntryCall(c) /\ view' = view /\ content' = content
    BY DEF Entries!Lose, EntriesInv, EntryPlace, EntryCalls
  <1>1. PICK ok \in BOOLEAN : ~ok /\ calls' = Entries!Handled(calls, c, ok, None)
    BY DEF Entries!Lose
  <1>2. PICK d : calls' = (calls \ {c}) \cup {d} /\ EntryReplied(d, c, ok, None, calls)
    BY <1>0, <1>1, EntryReplies
  <1>3. d.what = c.what /\ d.state = "refused" /\ EntryCalls(calls')
    BY <1>1, <1>2 DEF EntryReplied
  <1>4. EntryPlace' /\ EntryWaits(view', calls')
    BY <1>0, <1>2, <1>3 DEF EntryPlace, EntryWaits, EntriesInv
  <1>5. CASE c.what = "list"
    <2>1. EntryTrue(view, calls)'
      BY <1>2, <1>3, <1>5 DEF EntryTrue, EntryPends
    <2> QED
      BY <1>3, <1>4, <2>1 DEF EntriesInv
  <1>6. CASE c.what # "list" /\ c.state # "done"
    <2>1. EntryLike(view')
      BY <1>0 DEF EntryLike
    <2>2. crossed' = crossed
      BY <1>6 DEF EntriesInv, EntryPlace
    <2> QED
      BY <1>0, <1>2, <1>3, <1>6, <2>1, <2>2, EntryCalm
  <1>7. CASE c.what # "list" /\ c.state = "done"
    BY <1>3, <1>4, <1>7 DEF EntriesInv
  <1> QED
    BY <1>5, <1>6, <1>7

LEMMA EntriesSteps == ASSUME EntriesInv, Entries!Next PROVE EntriesInv'
  <1>1. CASE (Entries!Go \/ (Entries!MayAct /\ Entries!Tap)) /\ UNCHANGED <<content, crossed>>
    BY <1>1, EntriesTap
  <1>2. ASSUME NEW c \in calls, Entries!Handle(c) PROVE EntriesInv'
    BY <1>2, EntriesAnswer, EntriesServe, EntriesLose DEF Entries!Handle
  <1>3. CASE Entries!Others /\ crossed' = TRUE
    <2>1. PICK r \in Rows, v \in EntryContents : content' = [content EXCEPT ![r] = v]
      BY <1>3 DEF Entries!Others, Entries!Put, EntryContents
    <2>2. view' = view /\ calls' = calls
      BY <1>3 DEF Entries!Others
    <2> QED
      BY <1>3, <2>1, <2>2 DEF EntriesInv, EntryPlace
  <1> QED
    BY <1>1, <1>2, <1>3 DEF Entries!Next

LEMMA EntriesStart == Entries!Init => EntriesInv
  <1> SUFFICES ASSUME Entries!Init PROVE EntriesInv
    OBVIOUS
  <1>1. PICK name \in Entries!Names : view = Entries!NewView(name)
    BY DEF Entries!Init
  <1>2. Entries!NoRow \in EntryRows
    <2>1. PICK D \in SUBSET Rows : D = {}
      OBVIOUS
    <2>2. [r \in D |-> None] \in [D -> EntryContents]
      BY <2>1
    <2>3. Entries!NoRow = [r \in D |-> None]
      BY <2>1 DEF Entries!NoRow
    <2> QED
      BY <2>2, <2>3 DEF EntryRows
  <1>3. Entries!NoForm \in EntryForms
    BY DEF EntryForms, EntryContents, Entries!NoForm
  <1>4. view \in EntryViews /\ ~view.loading /\ ~view.open
    BY <1>1, <1>2, <1>3 DEF EntryViews, Entries!NewView
  <1>5. EntryCalls(calls)
    BY FS_EmptySet DEF EntryCalls, Numbered, Entries!Init
  <1> QED
    BY <1>4, <1>5 DEF EntriesInv, EntryPlace, EntryWaits, Entries!Init, EntryContents

LEMMA EntriesHold == ASSUME EntriesInv PROVE Entries!TypeOK /\ Entries!ShowsServer /\ Entries!SpinnerHasCall
  <1>1. Entries!TypeOK
    BY DEF EntriesInv, EntryPlace, EntryViews, EntryRows, EntryForms, EntryContents, EntryCalls, Numbered, Entries!TypeOK
  <1>2. Entries!ShowsServer
    BY DEF EntriesInv, EntryTrue, EntryPends, Entries!ShowsServer
  <1>3. Entries!SpinnerHasCall
    BY DEF EntriesInv, EntryWaits, Entries!SpinnerHasCall, Entries!Lists
  <1> QED
    BY <1>1, <1>2, <1>3

-----------------------------------------------------------------------------
(* The configuration.                                                      *)

ConfigValues == Values \cup {Odd}
ConfigRows == UNION {[D -> ConfigValues] : D \in SUBSET ConfigKeys}
ConfigSaves == [key : ConfigKeys, new : ConfigValues]
ConfigViews == [open : BOOLEAN, loading : BOOLEAN, failed : BOOLEAN, rows : ConfigRows, draft : ConfigRows,
                batch : BOOLEAN]
ConfigCall(c) ==
    /\ c \in [id : Nat, owner : {"page"}, what : {c.what}, arg : {c.arg}, state : States, reply : {c.reply}]
    /\ \/ c.what = "list" /\ (c.state = "done" => c.reply \in ConfigRows)
       \/ /\ c.what = "save"
          /\ c.arg \in [key : ConfigKeys, new : ConfigValues, rest : (SUBSET ConfigSaves) \cup {None}]
ConfigCalls(cs) == Numbered(cs) /\ \A c \in cs : ConfigCall(c)
ConfigPlace == /\ value \in [ConfigKeys -> ConfigValues] /\ view \in ConfigViews /\ crossed \in BOOLEAN
               /\ DOMAIN view.draft = DOMAIN view.rows
ConfigWaits(v, cs) == /\ v.loading => \E c \in cs : c.what = "list"
                      /\ v.batch => \E c \in cs : c.what = "save" /\ c.arg.rest # None
ConfigPends(v, cs) == \/ v.failed
                      \/ \E c \in cs : \/ c.what = "list" /\ c.state # "done"
                                       \/ c.what = "save" /\ (c.arg.rest # None \/ c.state = "done")
ConfigTrue(v, cs) ==
    \/ ConfigPends(v, cs)
    \/ /\ \A c \in cs : c.what = "list" => c.reply = value
       /\ v.rows = value \/ \E c \in cs : c.what = "list"
ConfigsInv == /\ ConfigPlace /\ ConfigCalls(calls) /\ ConfigWaits(view, calls)
              /\ crossed \/ ~view.open \/ ConfigTrue(view, calls)

\* What a save has left to do is a set of saves, or None.
LEMMA RestAssumption == \A S \in SUBSET ConfigSaves : S # None
  BY NoneAssumption DEF ConfigSaves, ConfigValues

LEMMA ConfigRequest ==
    ASSUME NEW cs, NEW owner, NEW what, NEW arg
    PROVE  Configs!Request(cs, owner, what, arg) = Made(cs, owner, what, arg)
  BY DEF Configs!Request, Configs!NewId, Configs!Cardinality, Made, FreeId, Cardinality

LEMMA ConfigHandled ==
    ASSUME NEW cs, NEW c, NEW ok, NEW reply
    PROVE  Configs!Handled(cs, c, ok, reply) = (cs \ {c}) \cup {Replied(c, ok, reply)}
  BY DEF Configs!Handled, Replied

ConfigSends(c, cs, what, arg) ==
    /\ ConfigCall(c) /\ c.what = what /\ c.arg = arg /\ c.state = "sent" /\ ConfigCalls(cs \cup {c})

LEMMA ConfigAsks ==
    ASSUME NEW cs, ConfigCalls(cs), NEW what, NEW arg,
           \/ what = "list"
           \/ what = "save" /\ arg \in [key : ConfigKeys, new : ConfigValues, rest : (SUBSET ConfigSaves) \cup {None}]
    PROVE  \E c : Configs!Ask(cs, what, arg) = cs \cup {c} /\ ConfigSends(c, cs, what, arg)
  <1> PICK i : i = FreeId(cs)
    OBVIOUS
  <1> PICK c : c = [id |-> i, owner |-> "page", what |-> what, arg |-> arg, state |-> "sent", reply |-> None]
    OBVIOUS
  <1>1. New(cs, c.id)
    BY FreeIsNew DEF ConfigCalls
  <1>2. ConfigCall(c)
    BY <1>1 DEF ConfigCall, New, States
  <1>3. ConfigCalls(cs \cup {c})
    BY <1>1, <1>2, NumberedMore DEF ConfigCalls
  <1>4. Configs!Ask(cs, what, arg) = cs \cup {c}
    BY ConfigRequest DEF Configs!Ask, Made
  <1> QED
    BY <1>2, <1>3, <1>4 DEF ConfigSends

\* What changes neither the rows nor what stands for them.
ConfigLike(v) == /\ v \in ConfigViews /\ v.open = view.open /\ v.loading = view.loading
                 /\ v.failed = view.failed /\ v.rows = view.rows /\ DOMAIN v.draft = DOMAIN v.rows

\* What answers a save that is not one of a batch, or sends one.
LEMMA ConfigCalm ==
    ASSUME ConfigsInv, ConfigLike(view'), ConfigCalls(calls'), UNCHANGED <<value, crossed>>,
           \A c \in calls : c.what = "list" \/ c.arg.rest # None \/ c.state = "done" => c \in calls',
           \A c \in calls' : c.what = "list" => c \in calls,
           view'.batch => view.batch \/ \E c \in calls' : c.what = "save" /\ c.arg.rest # None
    PROVE  ConfigsInv'
  <1>1. ConfigPlace' /\ ConfigWaits(view', calls')
    BY DEF ConfigsInv, ConfigPlace, ConfigWaits, ConfigLike
  <1>3. ConfigPends(view, calls) => ConfigPends(view', calls')
    BY DEF ConfigPends, ConfigLike
  <1>4. ConfigTrue(view, calls) => ConfigTrue(view, calls)'
    BY <1>3 DEF ConfigTrue, ConfigLike
  <1> QED
    BY <1>1, <1>4 DEF ConfigsInv, ConfigLike

LEMMA ConfigLoads ==
    ASSUME ConfigsInv, NEW v \in ConfigViews, NEW cs, cs \subseteq calls,
           DOMAIN v.draft = DOMAIN v.rows,
           v.batch => \E c \in cs : c.what = "save" /\ c.arg.rest # None,
           Configs!Load(v, cs), UNCHANGED value, crossed' \in BOOLEAN
    PROVE  ConfigsInv'
  <1>1. ConfigCalls(cs)
    BY NumberedFewer DEF ConfigsInv, ConfigCalls
  <1>2. PICK c : Configs!Ask(cs, "list", None) = cs \cup {c} /\ ConfigSends(c, cs, "list", None)
    BY <1>1, ConfigAsks
  <1>3. view' = [v EXCEPT !.loading = TRUE, !.failed = FALSE] /\ calls' = cs \cup {c}
    BY <1>2 DEF Configs!Load
  <1>4. /\ view' \in ConfigViews /\ DOMAIN view'.draft = DOMAIN view'.rows
        /\ view'.batch = v.batch
    BY <1>3 DEF ConfigViews
  <1>5. c \in calls' /\ c.what = "list" /\ c.state # "done" /\ ConfigCalls(calls')
    BY <1>2, <1>3 DEF ConfigSends
  <1>6. ConfigPlace' /\ ConfigWaits(view', calls')
    BY <1>3, <1>4, <1>5 DEF ConfigsInv, ConfigPlace, ConfigWaits
  <1>7. ConfigTrue(view, calls)'
    BY <1>5 DEF ConfigTrue, ConfigPends
  <1> QED
    BY <1>5, <1>6, <1>7 DEF ConfigsInv

LEMMA ConfigDrafts ==
    ASSUME ConfigsInv, NEW k \in DOMAIN view.rows, NEW v \in ConfigValues, Configs!Draft(k, v),
           UNCHANGED <<value, crossed>>
    PROVE  ConfigsInv'
  <1>1. view' = [view EXCEPT !.draft = [view.draft EXCEPT ![k] = v]] /\ calls' = calls
    BY DEF Configs!Draft
  <1>2. view \in ConfigViews /\ DOMAIN view.draft = DOMAIN view.rows
    BY DEF ConfigsInv, ConfigPlace
  <1>3. PICK D \in SUBSET ConfigKeys : view.draft \in [D -> ConfigValues]
    BY <1>2 DEF ConfigViews, ConfigRows
  <1>4. PICK f : f = [view.draft EXCEPT ![k] = v]
    OBVIOUS
  <1>5. f \in [D -> ConfigValues] /\ f \in ConfigRows /\ DOMAIN f = DOMAIN view.rows
    BY <1>2, <1>3, <1>4 DEF ConfigRows
  <1>6. view' = [view EXCEPT !.draft = f]
    BY <1>1, <1>4
  <1>7. ConfigLike(view') /\ view'.batch = view.batch
    BY <1>2, <1>5, <1>6 DEF ConfigLike, ConfigViews
  <1> QED
    BY <1>1, <1>7, ConfigCalm DEF ConfigsInv

\* The next save of a batch.
LEMMA ConfigNext ==
    ASSUME NEW cs, ConfigCalls(cs), NEW left \in SUBSET ConfigSaves, Configs!NextSave(cs, left)
    PROVE  \E c : /\ calls' = cs \cup {c} /\ c.what = "save" /\ c.arg.rest # None
                  /\ c.state = "sent" /\ ConfigCalls(calls')
  <1>1. PICK s \in left : calls' = Configs!Ask(cs, "save", [key |-> s.key, new |-> s.new, rest |-> left \ {s}])
    BY DEF Configs!NextSave
  <1>2. PICK arg : arg = [key |-> s.key, new |-> s.new, rest |-> left \ {s}]
    OBVIOUS
  <1>3. /\ arg \in [key : ConfigKeys, new : ConfigValues, rest : (SUBSET ConfigSaves) \cup {None}]
        /\ arg.rest # None
    BY <1>2, RestAssumption DEF ConfigSaves
  <1>4. calls' = Configs!Ask(cs, "save", arg)
    BY <1>1, <1>2
  <1>5. PICK c : Configs!Ask(cs, "save", arg) = cs \cup {c} /\ ConfigSends(c, cs, "save", arg)
    BY <1>3, ConfigAsks
  <1> QED
    BY <1>3, <1>4, <1>5 DEF ConfigSends

LEMMA ConfigsTap ==
    ASSUME ConfigsInv, Configs!Tap \/ Configs!Go, UNCHANGED <<value, crossed>>
    PROVE  ConfigsInv'
  <1>0. /\ view \in ConfigViews /\ crossed' \in BOOLEAN /\ DOMAIN view.draft = DOMAIN view.rows
        /\ ConfigCalls(calls)
        /\ view.batch => \E c \in calls : c.what = "save" /\ c.arg.rest # None
    BY DEF ConfigsInv, ConfigPlace, ConfigWaits
  <1>d. PICK D \in SUBSET ConfigKeys : view.draft \in [D -> ConfigValues] /\ DOMAIN view.rows = D
    BY <1>0 DEF ConfigViews, ConfigRows
  <1>r. view.rows \in [D -> ConfigValues]
    BY <1>0, <1>d DEF ConfigViews, ConfigRows
  <1>1. CASE Configs!Refresh
    BY <1>0, <1>1, ConfigLoads DEF Configs!Refresh
  <1>2. CASE Configs!Open
    <2>1. PICK v : v = [view EXCEPT !.open = TRUE]
      OBVIOUS
    <2>2. v \in ConfigViews /\ v.batch = view.batch /\ v.rows = view.rows /\ v.draft = view.draft
      BY <1>0, <2>1 DEF ConfigViews
    <2> QED
      BY <1>0, <1>2, <2>1, <2>2, ConfigLoads DEF Configs!Open
  <1>3. CASE Configs!SaveAll
    <2>1. PICK left : left = {[key |-> k, new |-> view.draft[k]] : k \in Configs!Dirty}
      OBVIOUS
    <2>2. left \in SUBSET ConfigSaves
      BY <1>d, <2>1 DEF Configs!Dirty, ConfigSaves
    <2>3. view' = [view EXCEPT !.batch = TRUE] /\ Configs!NextSave(calls, left)
      BY <1>3, <2>1 DEF Configs!SaveAll
    <2>4. PICK c : /\ calls' = calls \cup {c} /\ c.what = "save" /\ c.arg.rest # None
                   /\ c.state = "sent" /\ ConfigCalls(calls')
      BY <1>0, <2>2, <2>3, ConfigNext
    <2>5. ConfigLike(view')
      BY <1>0, <2>3 DEF ConfigLike, ConfigViews
    <2> QED
      BY <2>4, <2>5, ConfigCalm
  <1>4. ASSUME NEW k \in ConfigKeys, Configs!SaveRow(k) PROVE ConfigsInv'
    <2>1. PICK arg : arg = [key |-> k, new |-> view.draft[k], rest |-> None]
      OBVIOUS
    <2>2. arg \in [key : ConfigKeys, new : ConfigValues, rest : (SUBSET ConfigSaves) \cup {None}]
      BY <1>d, <1>4, <2>1 DEF Configs!SaveRow
    <2>3. calls' = Configs!Ask(calls, "save", arg) /\ view' = view
      BY <1>4, <2>1 DEF Configs!SaveRow
    <2>4. PICK c : Configs!Ask(calls, "save", arg) = calls \cup {c} /\ ConfigSends(c, calls, "save", arg)
      BY <1>0, <2>2, ConfigAsks
    <2>5. calls' = calls \cup {c} /\ c.what = "save" /\ ConfigCalls(calls')
      BY <2>3, <2>4 DEF ConfigSends
    <2>6. ConfigLike(view')
      BY <1>0, <2>3 DEF ConfigLike
    <2> QED
      BY <2>3, <2>5, <2>6, ConfigCalm
  <1>5. ASSUME NEW k \in ConfigKeys, Configs!Type(k) \/ Configs!Undo(k) PROVE ConfigsInv'
    <2>1. CASE Configs!Type(k)
      BY <2>1, ConfigDrafts DEF Configs!Type, ConfigValues
    <2>2. CASE Configs!Undo(k)
      <3>1. k \in D /\ view.rows[k] \in ConfigValues
        BY <1>d, <1>r, <2>2 DEF Configs!Undo, Configs!Dirty
      <3> QED
        BY <1>d, <2>2, <3>1, ConfigDrafts DEF Configs!Undo
    <2> QED
      BY <1>5, <2>1, <2>2
  <1> QED
    BY <1>1, <1>2, <1>3, <1>4, <1>5 DEF Configs!Tap, Configs!Go

LEMMA ConfigsAnswer ==
    ASSUME ConfigsInv, NEW c \in calls, Configs!Answer(c), UNCHANGED value,
           crossed' = (crossed \/ (c.what = "save" /\ c.arg.rest # None /\ c.state = "refused"))
    PROVE  ConfigsInv'
  <1>0. /\ view \in ConfigViews /\ DOMAIN view.draft = DOMAIN view.rows /\ crossed \in BOOLEAN
        /\ crossed' \in BOOLEAN /\ ConfigCall(c)
    BY DEF ConfigsInv, ConfigPlace, ConfigCalls
  <1>1. ConfigCalls(calls \ {c})
    BY NumberedFewer DEF ConfigsInv, ConfigCalls
  <1>2. CASE Configs!ListAnswer(c)
    <2>1. c.what = "list" /\ c.state \in {"done", "refused"} /\ calls' = calls \ {c} /\ crossed' = crossed
      BY <1>0, <1>2 DEF Configs!ListAnswer
    <2>2. CASE c.state = "refused"
      <3>1. view' = [view EXCEPT !.loading = FALSE, !.failed = TRUE]
        BY <1>2, <2>2 DEF Configs!ListAnswer
      <3>2. /\ view' \in ConfigViews /\ view'.failed /\ ~view'.loading /\ view'.batch = view.batch
            /\ DOMAIN view'.draft = DOMAIN view'.rows
        BY <1>0, <3>1 DEF ConfigViews
      <3>3. ConfigTrue(view, calls)'
        BY <3>2 DEF ConfigTrue, ConfigPends
      <3>4. ConfigWaits(view', calls')
        BY <2>1, <3>2 DEF ConfigWaits, ConfigsInv
      <3> QED
        BY <1>0, <1>1, <2>1, <3>2, <3>3, <3>4 DEF ConfigsInv, ConfigPlace
    <2>3. CASE c.state = "done"
      <3>1. view' = [view EXCEPT !.loading = FALSE, !.rows = c.reply, !.draft = c.reply] /\ c.reply \in ConfigRows
        BY <1>0, <1>2, <2>1, <2>3 DEF Configs!ListAnswer, ConfigCall
      <3>2. /\ view' \in ConfigViews /\ view'.failed = view.failed /\ ~view'.loading /\ view'.rows = c.reply
            /\ view'.open = view.open /\ view'.batch = view.batch /\ view'.draft = c.reply
        BY <1>0, <3>1 DEF ConfigViews
      <3>4. ConfigPends(view, calls) => ConfigPends(view', calls')
        BY <2>1, <2>3, <3>2 DEF ConfigPends
      <3>5. ConfigTrue(view, calls) => ConfigTrue(view, calls)'
        BY <2>1, <3>2, <3>4 DEF ConfigTrue
      <3>6. ConfigWaits(view', calls')
        BY <2>1, <3>2 DEF ConfigWaits, ConfigsInv
      <3> QED
        BY <1>0, <1>1, <2>1, <3>2, <3>5, <3>6 DEF ConfigsInv, ConfigPlace
    <2> QED
      BY <2>1, <2>2, <2>3
  <1>3. CASE Configs!SaveAnswer(c)
    <2>1. c.what = "save" /\ c.state \in {"done", "refused"}
      BY <1>3 DEF Configs!SaveAnswer
    <2>2. PICK batch \in BOOLEAN : batch <=> c.arg.rest # None
      OBVIOUS
    <2>3. PICK v : v = [view EXCEPT !.batch = @ /\ ~batch]
      OBVIOUS
    <2>4. /\ v \in ConfigViews /\ v.rows = view.rows /\ v.draft = view.draft /\ v.open = view.open
          /\ v.loading = view.loading /\ v.failed = view.failed /\ v.batch = (view.batch /\ ~batch)
      BY <1>0, <2>3 DEF ConfigViews
    <2>5. v = [view EXCEPT !.batch = @ /\ ~(c.arg.rest # None)]
      BY <2>2, <2>3
    <2>6. CASE c.state = "refused"
      <3>1. calls' = calls \ {c} /\ view' = v
        BY <1>3, <2>5, <2>6 DEF Configs!SaveAnswer
      <3>2. ConfigLike(view')
        BY <1>0, <2>4, <3>1 DEF ConfigLike
      <3>3. CASE ~batch
        BY <1>0, <1>1, <2>1, <2>2, <2>4, <2>6, <3>1, <3>2, <3>3, ConfigCalm
      <3>4. CASE batch
        <4>1. crossed'
          BY <2>1, <2>2, <2>6, <3>4
        <4>2. ConfigWaits(view', calls')
          BY <2>1, <2>4, <3>1, <3>4 DEF ConfigsInv, ConfigWaits
        <4> QED
          BY <1>0, <1>1, <2>4, <3>1, <4>1, <4>2 DEF ConfigsInv, ConfigPlace
      <3> QED
        BY <3>3, <3>4
    <2>7. CASE c.state = "done" /\ batch /\ c.arg.rest # {}
      <3>1. PICK left : left = c.arg.rest
        OBVIOUS
      <3>2. left \in SUBSET ConfigSaves
        BY <1>0, <2>1, <2>2, <2>7, <3>1 DEF ConfigCall
      <3>3. Configs!NextSave(calls \ {c}, left) /\ view' = view
        BY <1>3, <2>1, <2>2, <2>7, <3>1 DEF Configs!SaveAnswer
      <3>4. PICK d : /\ calls' = (calls \ {c}) \cup {d} /\ d.what = "save" /\ d.arg.rest # None
                     /\ d.state = "sent" /\ ConfigCalls(calls')
        BY <1>1, <3>2, <3>3, ConfigNext
      <3>5. ConfigWaits(view', calls')
        BY <2>1, <3>3, <3>4 DEF ConfigsInv, ConfigWaits
      <3>6. ConfigTrue(view, calls)'
        BY <3>4 DEF ConfigTrue, ConfigPends
      <3> QED
        BY <1>0, <3>3, <3>4, <3>5, <3>6 DEF ConfigsInv, ConfigPlace
    <2>8. CASE c.state = "done" /\ ~(batch /\ c.arg.rest # {})
      <3>1. Configs!Load(v, calls \ {c})
        BY <1>3, <2>1, <2>2, <2>5, <2>8 DEF Configs!SaveAnswer
      <3>2. v.batch => \E d \in calls \ {c} : d.what = "save" /\ d.arg.rest # None
        BY <2>2, <2>4 DEF ConfigsInv, ConfigWaits
      <3> QED
        BY <1>0, <2>4, <3>1, <3>2, ConfigLoads
    <2> QED
      BY <2>1, <2>6, <2>7, <2>8
  <1> QED
    BY <1>2, <1>3 DEF Configs!Answer

ConfigReplied(d, c, ok, reply, cs) ==
    /\ d.what = c.what /\ d.arg = c.arg /\ d.reply = reply
    /\ (ok => d.state = "done") /\ (~ok => d.state = "refused")
    /\ ConfigCalls((cs \ {c}) \cup {d})

LEMMA ConfigReplies ==
    ASSUME NEW cs, ConfigCalls(cs), NEW c \in cs, NEW ok \in BOOLEAN, NEW reply,
           c.what = "list" /\ ok => reply \in ConfigRows
    PROVE  \E d : Configs!Handled(cs, c, ok, reply) = (cs \ {c}) \cup {d} /\ ConfigReplied(d, c, ok, reply, cs)
  <1> PICK d : d = Replied(c, ok, reply)
    OBVIOUS
  <1>1. ConfigCall(c)
    BY DEF ConfigCalls
  <1>2. /\ d.what = c.what /\ d.arg = c.arg /\ (ok => d.state = "done") /\ (~ok => d.state = "refused")
        /\ d.reply = reply /\ d.id = c.id /\ ConfigCall(d)
    BY <1>1 DEF ConfigCall, Replied, States
  <1> PICK ds : ds = (cs \ {c}) \cup {d}
    OBVIOUS
  <1>3. Numbered(ds)
    BY <1>2, NumberedSwap DEF ConfigCalls
  <1>4. ConfigCalls(ds)
    BY <1>2, <1>3 DEF ConfigCalls
  <1>5. ConfigReplied(d, c, ok, reply, cs)
    BY <1>2, <1>4 DEF ConfigReplied
  <1> QED
    BY <1>5, ConfigHandled

\* A change that the page asked for will make it read its list again.
LEMMA ConfigsServe ==
    ASSUME ConfigsInv, NEW c \in calls, Configs!Serve(c),
           crossed' = IF c.what = "list" THEN Configs!Lists(calls) # {c} \/ view.batch ELSE crossed
    PROVE  ConfigsInv'
  <1>0. /\ c.state = "sent" /\ view' = view /\ view \in ConfigViews /\ DOMAIN view.draft = DOMAIN view.rows
        /\ value \in [ConfigKeys -> ConfigValues]
        /\ crossed' \in BOOLEAN /\ ConfigCalls(calls) /\ ConfigCall(c)
    BY DEF Configs!Serve, ConfigsInv, ConfigPlace, ConfigCalls
  <1>1. CASE c.what = "list"
    <2>2. PICK ok \in BOOLEAN : ok /\ calls' = Configs!Handled(calls, c, ok, value) /\ value' = value
      BY <1>1 DEF Configs!Serve
    <2>0. value \in ConfigRows
      BY <1>0 DEF ConfigRows
    <2>3. PICK d : calls' = (calls \ {c}) \cup {d} /\ ConfigReplied(d, c, ok, value, calls)
      BY <1>0, <2>0, <2>2, ConfigReplies
    <2>4. d.what = "list" /\ d.state = "done" /\ d.reply = value /\ ConfigCalls(calls')
      BY <1>1, <2>2, <2>3 DEF ConfigReplied
    <2>6. ASSUME ~crossed' PROVE ConfigTrue(view, calls)'
      <3>1. Configs!Lists(calls) = {c}
        BY <1>1, <2>6
      <3>2. \A e \in calls' : e.what = "list" => e.reply = value
        BY <2>3, <2>4, <3>1 DEF Configs!Lists
      <3> QED
        BY <2>2, <2>3, <2>4, <3>2 DEF ConfigTrue
    <2>7. ConfigPlace' /\ ConfigWaits(view', calls')
      BY <1>0, <1>1, <2>2, <2>3, <2>4 DEF ConfigPlace, ConfigWaits, ConfigsInv
    <2> QED
      BY <2>4, <2>6, <2>7 DEF ConfigsInv
  <1>2. CASE c.what # "list"
    <2>0. c.what = "save" /\ crossed' = crossed
      BY <1>2 DEF Configs!Serve
    <2>1. PICK ok \in BOOLEAN : calls' = Configs!Handled(calls, c, ok, None) /\ (~ok => value' = value)
      BY <1>2 DEF Configs!Serve
    <2>3. PICK d : calls' = (calls \ {c}) \cup {d} /\ ConfigReplied(d, c, ok, None, calls)
      BY <1>0, <1>2, <2>1, ConfigReplies
    <2>4. /\ d.what = "save" /\ d.arg = c.arg /\ (ok => d.state = "done") /\ (~ok => d.state = "refused")
          /\ ConfigCalls(calls')
      BY <2>0, <2>3 DEF ConfigReplied
    <2>5. ConfigWaits(view', calls')
      BY <1>0, <2>0, <2>3, <2>4 DEF ConfigWaits, ConfigsInv
    <2>6. value' \in [ConfigKeys -> ConfigValues]
      <3>1. CASE Configs!Takes(c.arg.key, c.arg.new)
        <4>1. c.arg \in [key : ConfigKeys, new : ConfigValues, rest : (SUBSET ConfigSaves) \cup {None}]
          BY <1>0, <2>0 DEF ConfigCall
        <4>2. c.arg.key \in ConfigKeys /\ c.arg.new \in ConfigValues
          BY <4>1
        <4> QED
          BY <1>0, <3>1, <4>2 DEF Configs!Takes, Configs!Put
      <3>2. CASE value' = value
        BY <1>0, <3>2
      <3> QED
        BY <1>2, <3>1, <3>2 DEF Configs!Serve
    <2>7. ASSUME ConfigTrue(view, calls) PROVE ConfigTrue(view, calls)'
      <3>1. CASE ok
        BY <2>3, <2>4, <3>1 DEF ConfigTrue, ConfigPends
      <3>2. CASE ~ok
        <4>1. ConfigPends(view, calls) => ConfigPends(view', calls')
          BY <1>0, <2>0, <2>3, <2>4 DEF ConfigPends
        <4> QED
          BY <1>0, <2>0, <2>1, <2>3, <2>4, <2>7, <3>2, <4>1 DEF ConfigTrue
      <3> QED
        BY <3>1, <3>2
    <2> QED
      BY <1>0, <2>0, <2>4, <2>5, <2>6, <2>7 DEF ConfigsInv, ConfigPlace
  <1> QED
    BY <1>1, <1>2

LEMMA ConfigsLose ==
    ASSUME ConfigsInv, NEW c \in calls, Configs!Lose(c),
           crossed' = (crossed \/ (c.what = "save" /\ c.state = "done"))
    PROVE  ConfigsInv'
  <1>0. /\ view \in ConfigViews /\ value \in [ConfigKeys -> ConfigValues]
        /\ crossed' \in BOOLEAN /\ ConfigCalls(calls) /\ ConfigCall(c) /\ view' = view /\ value' = value
    BY DEF Configs!Lose, ConfigsInv, ConfigPlace, ConfigCalls
  <1>1. PICK ok \in BOOLEAN : ~ok /\ calls' = Configs!Handled(calls, c, ok, None)
    BY DEF Configs!Lose
  <1>2. PICK d : calls' = (calls \ {c}) \cup {d} /\ ConfigReplied(d, c, ok, None, calls)
    BY <1>0, <1>1, ConfigReplies
  <1>3. d.what = c.what /\ d.arg = c.arg /\ d.state = "refused" /\ ConfigCalls(calls')
    BY <1>1, <1>2 DEF ConfigReplied
  <1>4. ConfigPlace' /\ ConfigWaits(view', calls')
    BY <1>0, <1>2, <1>3 DEF ConfigPlace, ConfigWaits, ConfigsInv
  <1>5. ASSUME ~crossed', ConfigTrue(view, calls) PROVE ConfigTrue(view, calls)'
    <2>1. CASE c.what = "list"
      BY <1>2, <1>3, <2>1 DEF ConfigTrue, ConfigPends
    <2>2. CASE c.what = "save" /\ c.state # "done"
      <3>1. ConfigPends(view, calls) => ConfigPends(view', calls')
        BY <1>0, <1>2, <1>3, <2>2 DEF ConfigPends
      <3> QED
        BY <1>0, <1>2, <1>3, <1>5, <2>2, <3>1 DEF ConfigTrue
    <2> QED
      BY <1>0, <1>5, <2>1, <2>2 DEF ConfigCall
  <1>6. ~crossed' => ~crossed
    BY DEF ConfigsInv, ConfigPlace
  <1> QED
    BY <1>0, <1>3, <1>4, <1>5, <1>6 DEF ConfigsInv

LEMMA ConfigsSteps == ASSUME ConfigsInv, Configs!Next PROVE ConfigsInv'
  <1>1. CASE (Configs!Go \/ (Configs!MayAct /\ Configs!Tap)) /\ UNCHANGED <<value, crossed>>
    BY <1>1, ConfigsTap
  <1>2. ASSUME NEW c \in calls, Configs!Handle(c) PROVE ConfigsInv'
    BY <1>2, ConfigsAnswer, ConfigsServe, ConfigsLose DEF Configs!Handle
  <1>3. CASE Configs!Others /\ crossed' = TRUE
    <2>1. PICK k \in ConfigKeys, v \in ConfigValues : value' = [value EXCEPT ![k] = v]
      BY <1>3 DEF Configs!Others, Configs!Put, ConfigValues
    <2>2. view' = view /\ calls' = calls
      BY <1>3 DEF Configs!Others
    <2> QED
      BY <1>3, <2>1, <2>2 DEF ConfigsInv, ConfigPlace
  <1> QED
    BY <1>1, <1>2, <1>3 DEF Configs!Next

LEMMA ConfigsStart == Configs!Init => ConfigsInv
  <1> SUFFICES ASSUME Configs!Init PROVE ConfigsInv
    OBVIOUS
  <1>2. Configs!NoRows \in ConfigRows
    <2>1. PICK D \in SUBSET ConfigKeys : D = {}
      OBVIOUS
    <2>2. [r \in D |-> None] \in [D -> ConfigValues]
      BY <2>1
    <2>3. Configs!NoRows = [r \in D |-> None]
      BY <2>1 DEF Configs!NoRows
    <2> QED
      BY <2>2, <2>3 DEF ConfigRows
  <1>4. view \in ConfigViews /\ ~view.loading /\ ~view.open /\ ~view.batch /\ DOMAIN view.draft = DOMAIN view.rows
    BY <1>2 DEF ConfigViews, Configs!NewView, Configs!Init
  <1>5. ConfigCalls(calls)
    BY FS_EmptySet DEF ConfigCalls, Numbered, Configs!Init
  <1> QED
    BY <1>4, <1>5 DEF ConfigsInv, ConfigPlace, ConfigWaits, Configs!Init, ConfigValues

LEMMA ConfigsHold == ASSUME ConfigsInv PROVE Configs!TypeOK /\ Configs!ShowsServer /\ Configs!SpinnerHasCall
  <1>1. Configs!TypeOK
    BY DEF ConfigsInv, ConfigPlace, ConfigValues, ConfigCalls, Numbered, Configs!TypeOK
  <1>2. Configs!ShowsServer
    BY DEF ConfigsInv, ConfigTrue, ConfigPends, Configs!ShowsServer
  <1>3. Configs!SpinnerHasCall
    BY DEF ConfigsInv, ConfigWaits, Configs!SpinnerHasCall, Configs!Lists
  <1> QED
    BY <1>1, <1>2, <1>3

-----------------------------------------------------------------------------
(* The tables of the admin.                                                *)

TableNames == DOMAIN Tables!Statuses
TableStatuses(name) == Tables!Statuses[name]
TableRows(name) == UNION {[D -> TableStatuses(name)] : D \in SUBSET Rows}
TableFilters(name) == TableStatuses(name) \cup {None}
TableViews(name) ==
    [name : {name}, open : BOOLEAN, filter : TableFilters(name), asked : TableFilters(name),
     rows : TableRows(name), loading : BOOLEAN, failed : BOOLEAN,
     drawer : [open : BOOLEAN, of : Rows \cup {None}, row : TableStatuses(name) \cup {None}, loading : BOOLEAN],
     reject : Rows \cup {None}]
TableCall(c, name) ==
    /\ c \in [id : Nat, owner : {"page"}, what : {c.what}, arg : {c.arg}, state : States, reply : {c.reply}]
    /\ \/ /\ c.what = "list" /\ c.arg \in TableFilters(name)
          /\ c.state = "done" => c.reply \in TableRows(name)
       \/ /\ c.what = "detail" /\ c.arg \in Rows
          /\ c.state = "done" => c.reply \in TableStatuses(name)
       \/ /\ c.what \in Tables!Deeds
          /\ c.arg \in [of : Rows, to : TableFilters(name), from : {"row", "drawer", "reject"}]
          /\ c.what \in {"status", "audit"} => c.arg.to \in TableStatuses(name)
          /\ c.what = "audit" => name = "products"
TableCalls(cs, name) == Numbered(cs) /\ \A c \in cs : TableCall(c, name)
TablePlace == /\ view.name \in TableNames /\ view \in TableViews(view.name)
              /\ state \in [Rows -> TableStatuses(view.name)] /\ crossed \in BOOLEAN
              /\ view.drawer.open => view.name # "home" /\ view.drawer.of \in Rows
              /\ view.reject # None => view.name = "shops"
TableWaits(v, cs) == /\ v.loading => \E c \in cs : c.what = "list"
                     /\ v.drawer.loading => \E c \in cs : c.what = "detail"
TablePends(v, cs) == \/ v.failed
                     \/ \E c \in cs : \/ c.what = "list" /\ c.state # "done"
                                      \/ c.what \in Tables!Deeds /\ c.state = "done"
TableTrue(v, cs) ==
    \/ TablePends(v, cs)
    \/ LET now == Tables!Matching(state, v.asked) IN
       /\ \A c \in cs : c.what = "list" => c.reply = now
       /\ v.rows = now \/ \E c \in cs : c.what = "list"
TablesInv == /\ TablePlace /\ TableCalls(calls, view.name) /\ TableWaits(view, calls)
             /\ crossed \/ ~view.open \/ TableTrue(view, calls)

LEMMA TableRequest ==
    ASSUME NEW cs, NEW owner, NEW what, NEW arg
    PROVE  Tables!Request(cs, owner, what, arg) = Made(cs, owner, what, arg)
  BY DEF Tables!Request, Tables!NewId, Tables!Cardinality, Made, FreeId, Cardinality

LEMMA TableHandled ==
    ASSUME NEW cs, NEW c, NEW ok, NEW reply
    PROVE  Tables!Handled(cs, c, ok, reply) = (cs \ {c}) \cup {Replied(c, ok, reply)}
  BY DEF Tables!Handled, Replied

TableArgs(name) == [of : Rows, to : TableFilters(name), from : {"row", "drawer", "reject"}]
\* What is asked for, for the page of this name.
TableAsk(what, arg, name) ==
    \/ what = "list" /\ arg \in TableFilters(name)
    \/ what = "detail" /\ arg \in Rows
    \/ /\ what \in Tables!Deeds /\ arg \in TableArgs(name)
       /\ what \in {"status", "audit"} => arg.to \in TableStatuses(name)
       /\ what = "audit" => name = "products"
TableSends(c, cs, what, arg, name) ==
    /\ TableCall(c, name) /\ c.what = what /\ c.arg = arg /\ c.state = "sent" /\ TableCalls(cs \cup {c}, name)

LEMMA TableAsks ==
    ASSUME NEW cs, NEW name, TableCalls(cs, name), NEW what, NEW arg, TableAsk(what, arg, name)
    PROVE  \E c : Tables!Ask(cs, what, arg) = cs \cup {c} /\ TableSends(c, cs, what, arg, name)
  <1> PICK i : i = FreeId(cs)
    OBVIOUS
  <1> PICK c : c = [id |-> i, owner |-> "page", what |-> what, arg |-> arg, state |-> "sent", reply |-> None]
    OBVIOUS
  <1>1. New(cs, c.id)
    BY FreeIsNew DEF TableCalls
  <1>2. TableCall(c, name)
    BY <1>1 DEF TableCall, TableAsk, TableArgs, New, States
  <1> PICK ds : ds = cs \cup {c}
    OBVIOUS
  <1>3. Numbered(ds)
    BY <1>1, NumberedMore DEF TableCalls
  <1>4. TableCalls(ds, name)
    BY <1>2, <1>3 DEF TableCalls
  <1>5. Tables!Ask(cs, what, arg) = ds
    BY TableRequest DEF Tables!Ask, Made
  <1> QED
    BY <1>2, <1>4, <1>5 DEF TableSends

\* Where the drawer and the question are.
TableOver(v) == /\ v.drawer.open => v.name # "home" /\ v.drawer.of \in Rows
                /\ v.reject # None => v.name = "shops"
TableDetails(cs) == \E c \in cs : c.what = "detail"
TableLike(v) == /\ v \in TableViews(view.name) /\ v.open = view.open /\ v.loading = view.loading
                /\ v.failed = view.failed /\ v.rows = view.rows /\ v.asked = view.asked /\ TableOver(v)

\* What is known of the page.
TableKnown == /\ view.name \in TableNames /\ view \in TableViews(view.name) /\ TableOver(view)
              /\ state \in [Rows -> TableStatuses(view.name)] /\ crossed \in BOOLEAN
              /\ TableCalls(calls, view.name)
              /\ view.drawer.loading => TableDetails(calls)

LEMMA TablesKnown == ASSUME TablesInv PROVE TableKnown
  BY DEF TablesInv, TablePlace, TableWaits, TableKnown, TableOver, TableDetails

LEMMA TableCalm ==
    ASSUME TablesInv, TableLike(view'), TableCalls(calls', view.name), UNCHANGED <<state, crossed>>,
           \A c \in calls : c.what = "list" \/ (c.what \in Tables!Deeds /\ c.state = "done") => c \in calls',
           \A c \in calls' : c.what = "list" => c \in calls,
           view'.drawer.loading => TableDetails(calls')
    PROVE  TablesInv'
  <1>1. view'.name = view.name
    BY DEF TableLike, TableViews
  <1>2. TablePlace'
    BY <1>1 DEF TablesInv, TablePlace, TableLike, TableOver
  <1>3. TableWaits(view', calls')
    BY DEF TablesInv, TableWaits, TableLike, TableDetails
  <1>4. Tables!Matching(state, view.asked)' = Tables!Matching(state, view.asked)
    BY DEF Tables!Matching, TableLike
  <1>5. TablePends(view, calls) => TablePends(view', calls')
    BY DEF TablePends, TableLike
  <1>6. TableTrue(view, calls) => TableTrue(view, calls)'
    BY <1>4, <1>5 DEF TableTrue, TableLike
  <1> QED
    BY <1>1, <1>2, <1>3, <1>6 DEF TablesInv, TableLike

LEMMA TableLoads ==
    ASSUME TablesInv, NEW v \in TableViews(view.name), NEW cs, cs \subseteq calls,
           TableOver(v), v.drawer.loading => TableDetails(cs),
           Tables!Load(v, cs), UNCHANGED state, crossed' \in BOOLEAN
    PROVE  TablesInv'
  <1>0. TableKnown
    BY TablesKnown
  <1>1. TableCalls(cs, view.name)
    BY <1>0, NumberedFewer DEF TableKnown, TableCalls
  <1>2. v.filter \in TableFilters(view.name) /\ v.name = view.name
    BY DEF TableViews
  <1>3. TableAsk("list", v.filter, view.name)
    BY <1>2 DEF TableAsk
  <1>4. PICK c : Tables!Ask(cs, "list", v.filter) = cs \cup {c} /\ TableSends(c, cs, "list", v.filter, view.name)
    BY <1>1, <1>3, TableAsks
  <1>5. view' = [v EXCEPT !.loading = TRUE, !.failed = FALSE, !.asked = v.filter] /\ calls' = cs \cup {c}
    BY <1>4 DEF Tables!Load
  <1>6. /\ view' \in TableViews(view.name) /\ view'.name = view.name /\ view'.drawer = v.drawer
        /\ view'.reject = v.reject
    BY <1>2, <1>5 DEF TableViews
  <1>7. c \in calls' /\ c.what = "list" /\ c.state # "done" /\ TableCalls(calls', view.name)
    BY <1>4, <1>5 DEF TableSends
  <1>8. TablePlace'
    BY <1>0, <1>2, <1>6 DEF TableKnown, TablePlace, TableOver
  <1>9. TableWaits(view', calls')
    BY <1>5, <1>6, <1>7 DEF TableWaits, TableDetails
  <1>10. TableTrue(view, calls)'
    BY <1>7 DEF TableTrue, TablePends
  <1> QED
    BY <1>6, <1>7, <1>8, <1>9, <1>10 DEF TablesInv

-----------------------------------------------------------------------------
(* What the pages offer.                                                   *)

TableDeed(d, name) == /\ d.what \in Tables!Deeds \cup {"ask"} /\ d.to \in TableFilters(name)
                      /\ d.what \in {"status", "audit"} => d.to \in TableStatuses(name)
                      /\ d.what = "audit" => name = "products"
                      /\ d.what = "ask" => name = "shops"

LEMMA TableTurns ==
    ASSUME NEW name, NEW s, NEW a \in TableStatuses(name), NEW b \in TableStatuses(name),
           NEW d \in Tables!Turn(s, a, b)
    PROVE  TableDeed(d, name)
  BY DEF Tables!Turn, Tables!Deed, TableDeed, TableFilters, Tables!Deeds

LEMMA TableDrawn ==
    ASSUME NEW s, view.name \in TableNames, view.name # "home", NEW d \in Tables!Drawn(s)
    PROVE  TableDeed(d, view.name)
  <1>1. CASE view.name = "users"
    <2>1. d \in Tables!Turn(s, "enabled", "disabled")
      BY <1>1 DEF Tables!Drawn, Tables!UsersDrawer
    <2>2. "enabled" \in TableStatuses(view.name) /\ "disabled" \in TableStatuses(view.name)
      BY <1>1 DEF TableStatuses, Tables!Statuses
    <2> QED
      BY <2>1, <2>2, TableTurns
  <1>2. CASE view.name = "orders"
    <2>1. d \in Tables!Turn(s, "settled", "unsettled")
      BY <1>2 DEF Tables!Drawn, Tables!OrdersDrawer, Tables!OrdersActions
    <2>2. "settled" \in TableStatuses(view.name) /\ "unsettled" \in TableStatuses(view.name)
      BY <1>2 DEF TableStatuses, Tables!Statuses
    <2> QED
      BY <2>1, <2>2, TableTurns
  <1>3. CASE view.name = "products"
    <2>1. "on" \in TableStatuses(view.name) /\ "off" \in TableStatuses(view.name)
      BY <1>3 DEF TableStatuses, Tables!Statuses
    <2>2. CASE d \in Tables!Turn(s, "on", "off")
      BY <2>1, <2>2, TableTurns
    <2>3. CASE d \in {Tables!Deed("audit", t) : t \in {"on", "off"}} \cup {Tables!Deed("recommend", None)}
      BY <1>3, <2>1, <2>3 DEF TableDeed, TableFilters, Tables!Deed, Tables!Deeds
    <2>4. d \in Tables!ProductsExtra(s) \cup Tables!ProductsActions(s)
      BY <1>3 DEF Tables!Drawn, Tables!ProductsDrawer
    <2> QED
      BY <2>2, <2>3, <2>4 DEF Tables!ProductsExtra, Tables!ProductsActions
  <1>4. CASE view.name = "shops"
    <2>1. "passed" \in TableStatuses(view.name)
      BY <1>4 DEF TableStatuses, Tables!Statuses
    <2>2. d \in Tables!ShopsTable(s)
      BY <1>4 DEF Tables!Drawn, Tables!ShopsDrawer, Tables!ShopsActions
    <2> QED
      BY <1>4, <2>1, <2>2 DEF Tables!ShopsTable, TableDeed, TableFilters, Tables!Deed, Tables!Deeds
  <1> QED
    BY <1>1, <1>2, <1>3, <1>4 DEF TableNames, Tables!Statuses

\* The table, and the queue of what stands out, offer what the drawer does.
LEMMA TableListed ==
    ASSUME NEW r, view.name \in TableNames, view.name # "home", NEW d \in Tables!Listed(r)
    PROVE  TableDeed(d, view.name)
  <1> PICK s : s = view.rows[r]
    OBVIOUS
  <1>1. CASE view.name = "users"
    BY <1>1, TableDrawn DEF Tables!Listed, Tables!Drawn, Tables!UsersTable, Tables!UsersQueue, Tables!UsersDrawer
  <1>2. CASE view.name = "orders"
    BY <1>2, TableDrawn DEF Tables!Listed, Tables!Drawn, Tables!OrdersTable, Tables!OrdersQueue,
       Tables!OrdersActions, Tables!OrdersDrawer
  <1>3. CASE view.name = "products"
    <2>1. CASE d \in Tables!ProductsTable(s)
      BY <1>3, <2>1, TableDrawn DEF Tables!Drawn, Tables!ProductsTable, Tables!ProductsActions, Tables!ProductsDrawer
    <2>2. CASE d \in {Tables!Deed("audit", t) : t \in {"on", "off"}}
      <3>1. "on" \in TableStatuses(view.name) /\ "off" \in TableStatuses(view.name)
        BY <1>3 DEF TableStatuses, Tables!Statuses
      <3> QED
        BY <1>3, <2>2, <3>1 DEF TableDeed, TableFilters, Tables!Deed, Tables!Deeds
    <2>3. d \in Tables!ProductsTable(s) \cup Tables!ProductsQueue(r)
      BY <1>3 DEF Tables!Listed
    <2> QED
      BY <2>1, <2>2, <2>3 DEF Tables!ProductsQueue
  <1>4. CASE view.name = "shops"
    <2>1. d \in Tables!ShopsTable(s) \cup Tables!ShopsQueue(r)
      BY <1>4 DEF Tables!Listed
    <2>2. d \in Tables!ShopsTable(s)
      BY <2>1 DEF Tables!ShopsTable, Tables!ShopsQueue
    <2> QED
      BY <1>4, <2>2, TableDrawn DEF Tables!Drawn, Tables!ShopsDrawer, Tables!ShopsActions
  <1> QED
    BY <1>1, <1>2, <1>3, <1>4 DEF TableNames, Tables!Statuses

LEMMA TableDoes ==
    ASSUME TablesInv, NEW r \in Rows, NEW d, TableDeed(d, view.name), NEW from \in {"row", "drawer", "reject"},
           Tables!Does(r, d, from), UNCHANGED <<state, crossed>>
    PROVE  TablesInv'
  <1>0. TableKnown
    BY TablesKnown
  <1>1. CASE d.what = "ask"
    <2>1. view' = [view EXCEPT !.reject = r] /\ calls' = calls
      BY <1>1 DEF Tables!Does
    <2>2. TableLike(view') /\ view'.drawer.loading = view.drawer.loading
      BY <1>0, <1>1, <2>1 DEF TableLike, TableKnown, TableOver, TableViews, TableDeed
    <2> QED
      BY <1>0, <2>1, <2>2, TableCalm DEF TableKnown
  <1>2. CASE d.what # "ask"
    <2>1. PICK what, arg : what = d.what /\ arg = [of |-> r, to |-> d.to, from |-> from]
      OBVIOUS
    <2>2. view' = view /\ calls' = Tables!Ask(calls, what, arg)
      BY <1>2, <2>1 DEF Tables!Does
    <2>3. what \in Tables!Deeds /\ TableAsk(what, arg, view.name)
      BY <1>2, <2>1 DEF TableDeed, TableAsk, TableArgs
    <2>4. PICK c : Tables!Ask(calls, what, arg) = calls \cup {c} /\ TableSends(c, calls, what, arg, view.name)
      BY <1>0, <2>3, TableAsks DEF TableKnown
    <2>5. calls' = calls \cup {c} /\ c.what # "list" /\ c.state = "sent" /\ TableCalls(calls', view.name)
      BY <2>2, <2>3, <2>4 DEF TableSends, Tables!Deeds
    <2>6. TableLike(view')
      BY <1>0, <2>2 DEF TableLike, TableKnown
    <2> QED
      BY <1>0, <2>2, <2>5, <2>6, TableCalm DEF TableKnown, TableDetails
  <1> QED
    BY <1>1, <1>2

\* What changes the page alone.
LEMMA TableTurnsPage ==
    ASSUME TablesInv, TableLike(view'), UNCHANGED <<calls, state, crossed>>,
           view'.drawer.loading => TableDetails(calls)
    PROVE  TablesInv'
  BY TablesKnown, TableCalm DEF TableKnown

LEMMA TableClosed ==
    ASSUME TableKnown, NEW v \in TableViews(view.name), TableOver(v)
    PROVE  /\ Tables!Closed(v) \in TableViews(view.name) /\ TableOver(Tables!Closed(v))
           /\ Tables!Closed(v).drawer.loading = v.drawer.loading
           /\ Tables!Closed(v).open = v.open /\ Tables!Closed(v).rows = v.rows
           /\ Tables!Closed(v).failed = v.failed /\ Tables!Closed(v).loading = v.loading
           /\ Tables!Closed(v).asked = v.asked
  <1> PICK drawers : drawers = [open : BOOLEAN, of : Rows \cup {None}, row : TableStatuses(view.name) \cup {None},
                                loading : BOOLEAN]
    OBVIOUS
  <1> PICK dr : dr = [Tables!NoDrawer EXCEPT !.loading = v.drawer.loading]
    OBVIOUS
  <1>1. Tables!Closed(v) = [v EXCEPT !.drawer = dr]
    BY DEF Tables!Closed
  <1>2. v.drawer.loading \in BOOLEAN
    BY DEF TableViews
  <1>3. Tables!NoDrawer \in drawers /\ ~Tables!NoDrawer.open
    BY DEF Tables!NoDrawer
  <1>4. dr \in drawers /\ dr.loading = v.drawer.loading /\ ~dr.open
    BY <1>2, <1>3
  <1> QED
    BY <1>1, <1>4 DEF TableViews, TableOver

LEMMA TablesTap ==
    ASSUME TablesInv, Tables!Tap \/ Tables!Go, UNCHANGED <<state, crossed>>
    PROVE  TablesInv'
  <1>0. TableKnown
    BY TablesKnown
  <1>k. /\ view.name \in TableNames /\ view \in TableViews(view.name) /\ TableOver(view)
        /\ crossed' \in BOOLEAN /\ TableCalls(calls, view.name)
    BY <1>0 DEF TableKnown
  <1>l. view.drawer.loading => TableDetails(calls)
    BY <1>0 DEF TableKnown
  <1>1. CASE Tables!Search
    BY <1>k, <1>l, <1>1, TableLoads DEF Tables!Search
  <1>2. CASE Tables!Open
    <2>1. PICK v : v = [view EXCEPT !.open = TRUE]
      OBVIOUS
    <2>2. v \in TableViews(view.name) /\ v.drawer = view.drawer /\ TableOver(v)
      BY <1>k, <2>1 DEF TableViews, TableOver
    <2>3. Tables!Load(v, calls)
      BY <1>2, <2>1 DEF Tables!Open
    <2> QED
      BY <1>k, <1>l, <2>2, <2>3, TableLoads
  <1>3. CASE Tables!DrawerDeed
    <2>1. view.drawer.open
      BY <1>3 DEF Tables!DrawerDeed, Tables!Offers, Tables!HomeOffers
    <2>2. PICK d \in Tables!Drawn(view.drawer.row) : Tables!Does(view.drawer.of, d, "drawer")
      BY <1>3 DEF Tables!DrawerDeed
    <2>3. view.name # "home" /\ view.drawer.of \in Rows
      BY <1>k, <2>1 DEF TableOver
    <2>4. TableDeed(d, view.name)
      BY <1>k, <2>2, <2>3, TableDrawn
    <2>5. PICK from \in {"row", "drawer", "reject"} : Tables!Does(view.drawer.of, d, from)
      BY <2>2
    <2> QED
      BY <2>3, <2>4, <2>5, TableDoes
  <1>4. CASE Tables!RejectYes
    <2>1. view.reject # None
      BY <1>4 DEF Tables!RejectYes, Tables!Offers, Tables!HomeOffers
    <2>2. view.name = "shops" /\ view.reject \in Rows
      BY <1>k, <2>1 DEF TableOver, TableViews
    <2>3. PICK d : d = Tables!Deed("status", "refused")
      OBVIOUS
    <2>4. TableDeed(d, view.name)
      BY <2>2, <2>3 DEF TableDeed, Tables!Deed, Tables!Deeds, TableFilters, TableStatuses, Tables!Statuses
    <2>5. PICK from \in {"row", "drawer", "reject"} : Tables!Does(view.reject, d, from)
      BY <1>4, <2>3 DEF Tables!RejectYes
    <2> QED
      BY <2>2, <2>4, <2>5, TableDoes
  <1>5. ASSUME NEW r \in Rows, Tables!RowDeed(r) PROVE TablesInv'
    <2>1. view.name # "home"
      BY <1>5 DEF Tables!RowDeed, Tables!Offers, Tables!HomeOffers
    <2>2. PICK d \in Tables!Listed(r) : Tables!Does(r, d, "row")
      BY <1>5 DEF Tables!RowDeed
    <2>3. TableDeed(d, view.name)
      BY <1>k, <2>1, <2>2, TableListed
    <2>4. PICK from \in {"row", "drawer", "reject"} : Tables!Does(r, d, from)
      BY <2>2
    <2> QED
      BY <2>3, <2>4, TableDoes
  <1>6. ASSUME NEW r \in Rows, Tables!OpenDrawer(r) PROVE TablesInv'
    <2>1. view.name # "home" /\ r \in DOMAIN view.rows
      BY <1>6 DEF Tables!OpenDrawer, Tables!Offers, Tables!HomeOffers
    <2>2. PICK D \in SUBSET Rows : view.rows \in [D -> TableStatuses(view.name)]
      BY <1>k DEF TableViews, TableRows
    <2>3. view.rows[r] \in TableStatuses(view.name)
      BY <2>1, <2>2
    <2>4. PICK sh \in BOOLEAN : sh <=> view.name = "shops"
      OBVIOUS
    <2>5. PICK dr : dr = [open |-> TRUE, of |-> r, row |-> view.rows[r], loading |-> sh]
      OBVIOUS
    <2>6. view' = [view EXCEPT !.drawer = dr] /\ calls' = IF sh THEN Tables!Ask(calls, "detail", r) ELSE calls
      BY <1>6, <2>4, <2>5 DEF Tables!OpenDrawer
    <2>7. TableLike(view') /\ view'.drawer.loading = sh
      BY <1>k, <2>1, <2>3, <2>5, <2>6 DEF TableLike, TableOver, TableViews
    <2>8. CASE ~sh
      BY <1>k, <2>6, <2>7, <2>8, TableCalm
    <2>9. CASE sh
      <3>1. TableAsk("detail", r, view.name)
        BY DEF TableAsk
      <3>2. PICK c : Tables!Ask(calls, "detail", r) = calls \cup {c} /\ TableSends(c, calls, "detail", r, view.name)
        BY <1>k, <3>1, TableAsks
      <3>3. calls' = calls \cup {c} /\ c.what = "detail" /\ TableCalls(calls', view.name)
        BY <2>6, <2>9, <3>2 DEF TableSends
      <3>4. TableDetails(calls')
        BY <3>3 DEF TableDetails
      <3> QED
        BY <2>7, <3>3, <3>4, TableCalm
    <2> QED
      BY <2>8, <2>9
  <1>7. CASE Tables!Fill
    <2>1. PICK f \in {Tables!Filters[view.name], None} : view' = [view EXCEPT !.filter = f] /\ calls' = calls
      BY <1>7 DEF Tables!Fill
    <2>2. f \in TableFilters(view.name)
      <3>1. Tables!Filters[view.name] \in TableStatuses(view.name) \cup {None}
        BY <1>k DEF TableNames, TableStatuses, Tables!Statuses, Tables!Filters
      <3> QED
        BY <2>1, <3>1 DEF TableFilters
    <2>3. TableLike(view') /\ view'.drawer = view.drawer
      BY <1>k, <2>1, <2>2 DEF TableLike, TableOver, TableViews
    <2> QED
      BY <1>l, <2>1, <2>3, TableTurnsPage
  <1>8. CASE Tables!CloseDrawer
    <2>1. view' = Tables!Closed(view) /\ calls' = calls
      BY <1>8 DEF Tables!CloseDrawer
    <2>2. TableLike(view') /\ view'.drawer.loading = view.drawer.loading
      BY <1>0, <1>k, <2>1, TableClosed DEF TableLike
    <2> QED
      BY <1>l, <2>1, <2>2, TableTurnsPage
  <1>9. CASE Tables!RejectNo
    <2>1. view' = [view EXCEPT !.reject = None] /\ calls' = calls
      BY <1>9 DEF Tables!RejectNo
    <2>2. TableLike(view') /\ view'.drawer.loading = view.drawer.loading
      BY <1>k, <2>1 DEF TableLike, TableOver, TableViews
    <2> QED
      BY <1>l, <2>1, <2>2, TableTurnsPage
  <1> QED
    BY <1>1, <1>2, <1>3, <1>4, <1>5, <1>6, <1>7, <1>8, <1>9 DEF Tables!Tap, Tables!Go

LEMMA TablesAnswer ==
    ASSUME TablesInv, NEW c \in calls, Tables!Answers(c), UNCHANGED <<state, crossed>>
    PROVE  TablesInv'
  <1>0. TableKnown
    BY TablesKnown
  <1>k. /\ view.name \in TableNames /\ view \in TableViews(view.name) /\ TableOver(view)
        /\ crossed' \in BOOLEAN /\ TableCall(c, view.name)
    BY <1>0 DEF TableKnown, TableCalls
  <1>l. view.drawer.loading => TableDetails(calls)
    BY <1>0 DEF TableKnown
  <1>c. TableCalls(calls \ {c}, view.name)
    BY <1>0, NumberedFewer DEF TableKnown, TableCalls
  <1>1. CASE Tables!ListAnswer(c)
    <2>1. c.what = "list" /\ c.state \in {"done", "refused"} /\ calls' = calls \ {c}
      BY <1>1 DEF Tables!ListAnswer
    <2>2. PICK v : v = [view EXCEPT !.loading = FALSE]
      OBVIOUS
    <2>3. /\ v \in TableViews(view.name) /\ ~v.loading /\ v.name = view.name /\ v.drawer = view.drawer
          /\ v.reject = view.reject /\ v.failed = view.failed /\ v.open = view.open /\ v.asked = view.asked
      BY <1>k, <2>2 DEF TableViews
    <2>4. view' = IF c.state = "done" THEN [v EXCEPT !.rows = c.reply] ELSE [v EXCEPT !.failed = TRUE]
      BY <1>1, <2>2 DEF Tables!ListAnswer, Tables!ListEnds
    <2>5. view.drawer.loading => TableDetails(calls')
      BY <1>l, <2>1 DEF TableDetails
    <2>6. CASE c.state = "refused"
      <3>1. view' = [v EXCEPT !.failed = TRUE]
        BY <2>4, <2>6
      <3>2. /\ view' \in TableViews(view.name) /\ view'.failed /\ ~view'.loading /\ view'.name = view.name
            /\ view'.drawer = view.drawer /\ view'.reject = view.reject
        BY <2>3, <3>1 DEF TableViews
      <3>3. TableTrue(view, calls)'
        BY <3>2 DEF TableTrue, TablePends
      <3>4. TablePlace'
        BY <1>0, <1>k, <3>2 DEF TableKnown, TablePlace, TableOver
      <3> QED
        BY <1>c, <2>1, <2>5, <3>2, <3>3, <3>4 DEF TablesInv, TableWaits, TableDetails
    <2>7. CASE c.state = "done"
      <3>1. view' = [v EXCEPT !.rows = c.reply] /\ c.reply \in TableRows(view.name)
        BY <1>k, <2>1, <2>4, <2>7 DEF TableCall, Tables!Deeds
      <3>2. /\ view' \in TableViews(view.name) /\ view'.failed = view.failed /\ ~view'.loading /\ view'.name = view.name
            /\ view'.drawer = view.drawer /\ view'.reject = view.reject /\ view'.rows = c.reply
            /\ view'.open = view.open /\ view'.asked = view.asked
        BY <2>3, <3>1 DEF TableViews
      <3>3. Tables!Matching(state, view.asked)' = Tables!Matching(state, view.asked)
        BY <3>2 DEF Tables!Matching
      <3>4. TablePends(view, calls) => TablePends(view', calls')
        BY <2>1, <2>7, <3>2 DEF TablePends, Tables!Deeds
      <3>5. TableTrue(view, calls) => TableTrue(view, calls)'
        BY <2>1, <3>2, <3>3, <3>4 DEF TableTrue
      <3>6. TablePlace'
        BY <1>0, <1>k, <3>2 DEF TableKnown, TablePlace, TableOver
      <3> QED
        BY <1>c, <2>1, <2>5, <3>2, <3>5, <3>6 DEF TablesInv, TableWaits, TableDetails
    <2> QED
      BY <2>1, <2>6, <2>7
  <1>2. CASE Tables!DetailAnswer(c)
    <2>1. c.what = "detail" /\ c.state \in {"done", "refused"} /\ calls' = calls \ {c}
      BY <1>2 DEF Tables!DetailAnswer
    <2>2. TableLike(view') /\ ~view'.drawer.loading
      <3>1. CASE c.state = "done" /\ view.drawer.open
        <4>1. c.arg \in Rows /\ c.reply \in TableStatuses(view.name)
          BY <1>k, <2>1, <3>1 DEF TableCall, Tables!Deeds
        <4>2. PICK dr : dr = [view.drawer EXCEPT !.of = c.arg, !.row = c.reply, !.loading = FALSE]
          OBVIOUS
        <4>3. view' = [view EXCEPT !.drawer = dr]
          BY <1>2, <3>1, <4>2 DEF Tables!DetailAnswer
        <4> QED
          BY <1>k, <3>1, <4>1, <4>2, <4>3 DEF TableLike, TableOver, TableViews
      <3>2. CASE ~(c.state = "done" /\ view.drawer.open)
        <4>2. PICK dr : dr = [view.drawer EXCEPT !.loading = FALSE]
          OBVIOUS
        <4>3. view' = [view EXCEPT !.drawer = dr]
          BY <1>2, <3>2, <4>2 DEF Tables!DetailAnswer
        <4> QED
          BY <1>k, <4>2, <4>3 DEF TableLike, TableOver, TableViews
      <3> QED
        BY <3>1, <3>2
    <2> QED
      BY <1>c, <2>1, <2>2, TableCalm DEF Tables!Deeds
  <1>3. CASE Tables!DeedAnswer(c)
    <2>1. c.what \in Tables!Deeds /\ c.state \in {"done", "refused"}
      BY <1>3 DEF Tables!DeedAnswer
    <2>2. view.drawer.loading => TableDetails(calls \ {c})
      BY <1>l, <2>1 DEF TableDetails, Tables!Deeds
    <2>3. CASE c.state = "done"
      <3>1. PICK v : v = IF Tables!Closes(c) THEN Tables!Closed(view) ELSE view
        OBVIOUS
      <3>2. v \in TableViews(view.name) /\ TableOver(v) /\ v.drawer.loading = view.drawer.loading
        <4>1. CASE Tables!Closes(c)
          BY <1>0, <1>k, <3>1, <4>1, TableClosed
        <4>2. CASE ~Tables!Closes(c)
          BY <1>k, <3>1, <4>2
        <4> QED
          BY <4>1, <4>2
      <3>3. PICK w : w = [v EXCEPT !.reject = IF c.arg.from = "reject" THEN None ELSE @]
        OBVIOUS
      <3>4. w \in TableViews(view.name) /\ TableOver(w) /\ w.drawer.loading = view.drawer.loading
        BY <3>2, <3>3 DEF TableViews, TableOver
      <3>5. Tables!Load(w, calls \ {c})
        BY <1>3, <2>3, <3>1, <3>3 DEF Tables!DeedAnswer
      <3> QED
        BY <1>k, <2>2, <3>4, <3>5, TableLoads
    <2>4. CASE c.state = "refused"
      <3>1. calls' = calls \ {c} /\ view' = view
        BY <1>3, <2>4 DEF Tables!DeedAnswer
      <3>2. TableLike(view')
        BY <1>k, <3>1 DEF TableLike
      <3> QED
        BY <1>c, <2>1, <2>2, <2>4, <3>1, <3>2, TableCalm DEF Tables!Deeds
    <2> QED
      BY <2>1, <2>3, <2>4
  <1> QED
    BY <1>1, <1>2, <1>3 DEF Tables!Answers

TableReplied(d, c, ok, reply, cs, name) ==
    /\ d.what = c.what /\ d.arg = c.arg /\ d.reply = reply
    /\ (ok => d.state = "done") /\ (~ok => d.state = "refused")
    /\ TableCalls((cs \ {c}) \cup {d}, name)

LEMMA TableReplies ==
    ASSUME NEW cs, NEW name, TableCalls(cs, name), NEW c \in cs, NEW ok \in BOOLEAN, NEW reply,
           c.what = "list" /\ ok => reply \in TableRows(name),
           c.what = "detail" /\ ok => reply \in TableStatuses(name)
    PROVE  \E d : Tables!Handled(cs, c, ok, reply) = (cs \ {c}) \cup {d} /\ TableReplied(d, c, ok, reply, cs, name)
  <1> PICK d : d = Replied(c, ok, reply)
    OBVIOUS
  <1>1. TableCall(c, name)
    BY DEF TableCalls
  <1>2. /\ d.what = c.what /\ d.arg = c.arg /\ (ok => d.state = "done") /\ (~ok => d.state = "refused")
        /\ d.reply = reply /\ d.id = c.id /\ TableCall(d, name)
    BY <1>1 DEF TableCall, Replied, States, Tables!Deeds
  <1> PICK ds : ds = (cs \ {c}) \cup {d}
    OBVIOUS
  <1>3. Numbered(ds)
    BY <1>2, NumberedSwap DEF TableCalls
  <1>4. TableCalls(ds, name)
    BY <1>2, <1>3 DEF TableCalls
  <1>5. TableReplied(d, c, ok, reply, cs, name)
    BY <1>2, <1>4 DEF TableReplied
  <1> QED
    BY <1>5, TableHandled

LEMMA MatchingRows ==
    ASSUME NEW name, state \in [Rows -> TableStatuses(name)], NEW f
    PROVE  Tables!Matching(state, f) \in TableRows(name)
  <1>1. PICK D : D = {r \in Rows : f \in {None, state[r]}}
    OBVIOUS
  <1>2. [r \in D |-> state[r]] \in [D -> TableStatuses(name)] /\ D \in SUBSET Rows
    BY <1>1
  <1>3. Tables!Matching(state, f) = [r \in D |-> state[r]]
    BY <1>1 DEF Tables!Matching
  <1> QED
    BY <1>2, <1>3 DEF TableRows

\* What a request was answered, that changes no list.
LEMMA TableSwaps ==
    ASSUME TablesInv, NEW c \in calls, NEW d, d.what = c.what, d.arg = c.arg, calls' = (calls \ {c}) \cup {d},
           TableCalls(calls', view.name), view' = view, UNCHANGED <<state, crossed>>, c.what # "list",
           ~(c.what \in Tables!Deeds /\ c.state = "done")
    PROVE  TablesInv'
  <1>0. TableKnown
    BY TablesKnown
  <1>1. TableLike(view')
    BY <1>0 DEF TableKnown, TableLike
  <1>2. view.drawer.loading => TableDetails(calls')
    BY <1>0 DEF TableKnown, TableDetails
  <1> QED
    BY <1>1, <1>2, TableCalm

LEMMA TablesServe ==
    ASSUME TablesInv, NEW c \in calls, Tables!Serve(c),
           crossed' = IF c.what = "list" THEN Tables!Lists(calls) # {c} \/ c.arg # view.asked ELSE crossed
    PROVE  TablesInv'
  <1>0. TableKnown
    BY TablesKnown
  <1>k. /\ view.name \in TableNames /\ view \in TableViews(view.name) /\ TableOver(view)
        /\ state \in [Rows -> TableStatuses(view.name)] /\ crossed' \in BOOLEAN
        /\ TableCalls(calls, view.name) /\ TableCall(c, view.name) /\ view' = view /\ c.state = "sent"
    BY <1>0 DEF TableKnown, TableCalls, Tables!Serve
  <1>1. CASE c.what = "list"
    <2>1. PICK now : now = Tables!Matching(state, c.arg)
      OBVIOUS
    <2>2. PICK ok \in BOOLEAN : ok /\ calls' = Tables!Handled(calls, c, ok, now) /\ state' = state
      BY <1>1, <2>1 DEF Tables!Serve, Tables!Deeds
    <2>3. now \in TableRows(view.name)
      BY <1>k, <2>1, MatchingRows
    <2>4. PICK d : calls' = (calls \ {c}) \cup {d} /\ TableReplied(d, c, ok, now, calls, view.name)
      BY <1>k, <1>1, <2>2, <2>3, TableReplies
    <2>5. d.what = "list" /\ d.state = "done" /\ d.reply = now /\ TableCalls(calls', view.name)
      BY <1>1, <2>2, <2>4 DEF TableReplied
    <2>6. ASSUME ~crossed' PROVE TableTrue(view, calls)'
      <3>1. Tables!Lists(calls) = {c} /\ c.arg = view.asked
        BY <1>1, <2>6
      <3>2. \A e \in calls' : e.what = "list" => e.reply = now
        BY <2>4, <2>5, <3>1 DEF Tables!Lists
      <3>3. Tables!Matching(state, view.asked)' = now
        BY <1>k, <2>1, <2>2, <3>1 DEF Tables!Matching
      <3> QED
        BY <2>4, <2>5, <3>2, <3>3 DEF TableTrue
    <2>7. TablePlace' /\ TableWaits(view', calls')
      BY <1>k, <1>1, <2>2, <2>4, <2>5 DEF TablePlace, TableOver, TableWaits, TablesInv
    <2> QED
      BY <1>k, <2>5, <2>6, <2>7 DEF TablesInv
  <1>2. CASE c.what = "detail"
    <2>1. PICK now : now = state[c.arg]
      OBVIOUS
    <2>2. PICK ok \in BOOLEAN : ok /\ calls' = Tables!Handled(calls, c, ok, now) /\ state' = state
      BY <1>2, <2>1 DEF Tables!Serve, Tables!Deeds
    <2>3. now \in TableStatuses(view.name)
      BY <1>k, <1>2, <2>1 DEF TableCall, Tables!Deeds
    <2>4. PICK d : calls' = (calls \ {c}) \cup {d} /\ TableReplied(d, c, ok, now, calls, view.name)
      BY <1>k, <1>2, <2>2, <2>3, TableReplies
    <2>5. d.what = c.what /\ d.arg = c.arg /\ TableCalls(calls', view.name) /\ crossed' = crossed
      BY <1>2, <2>4 DEF TableReplied
    <2> QED
      BY <1>k, <1>2, <2>2, <2>4, <2>5, TableSwaps DEF Tables!Deeds
  <1>3. CASE c.what \in Tables!Deeds
    <2>0. c.what # "list" /\ c.what # "detail" /\ crossed' = crossed
      BY <1>3 DEF Tables!Deeds
    <2>1. PICK ok \in BOOLEAN : calls' = Tables!Handled(calls, c, ok, None) /\ (~ok => state' = state)
      BY <1>3 DEF Tables!Serve, Tables!Deeds
    <2>2. PICK d : calls' = (calls \ {c}) \cup {d} /\ TableReplied(d, c, ok, None, calls, view.name)
      BY <1>k, <2>0, <2>1, TableReplies
    <2>3. /\ d.what = c.what /\ d.arg = c.arg /\ TableCalls(calls', view.name)
          /\ (ok => d.state = "done")
      BY <2>2 DEF TableReplied
    <2>4. CASE ~ok
      BY <1>k, <2>0, <2>1, <2>2, <2>3, <2>4, TableSwaps
    <2>5. CASE ok
      <3>1. state' \in [Rows -> TableStatuses(view.name)]
        <4>1. CASE state' = state
          BY <1>k, <4>1
        <4>2. ASSUME NEW t \in Tables!Effects(c), state' = [state EXCEPT ![c.arg.of] = t]
              PROVE  state' \in [Rows -> TableStatuses(view.name)]
          <5>1. c.arg.of \in Rows
            BY <1>k, <1>3 DEF TableCall, Tables!Deeds
          <5>2. t \in TableStatuses(view.name)
            <6>1. CASE c.what \in {"recommend", "close"}
              BY <1>k, <4>2, <5>1, <6>1 DEF Tables!Effects
            <6>2. CASE c.what = "audit"
              <7>1. view.name = "products" /\ c.arg.to \in TableStatuses(view.name)
                BY <1>k, <6>2 DEF TableCall, Tables!Deeds
              <7>2. "off" \in TableStatuses(view.name)
                BY <7>1 DEF TableStatuses, Tables!Statuses
              <7> QED
                BY <4>2, <6>2, <7>1, <7>2 DEF Tables!Effects
            <6>3. CASE c.what = "status"
              BY <1>k, <4>2, <6>3 DEF Tables!Effects, TableCall, Tables!Deeds
            <6> QED
              BY <1>3, <6>1, <6>2, <6>3 DEF Tables!Deeds
          <5> QED
            BY <1>k, <4>2, <5>1, <5>2
        <4> QED
          BY <1>3, <2>0, <4>1, <4>2 DEF Tables!Serve
      <3>2. TableTrue(view, calls)'
        BY <1>3, <2>2, <2>3, <2>5 DEF TableTrue, TablePends
      <3>3. TableWaits(view', calls')
        BY <1>k, <2>0, <2>2 DEF TableWaits, TablesInv
      <3>4. TablePlace'
        BY <1>k, <3>1 DEF TablePlace, TableOver
      <3> QED
        BY <1>k, <2>3, <3>2, <3>3, <3>4 DEF TablesInv
    <2> QED
      BY <2>4, <2>5
  <1> QED
    BY <1>k, <1>1, <1>2, <1>3 DEF TableCall

LEMMA TablesLose ==
    ASSUME TablesInv, NEW c \in calls, Tables!Lose(c),
           crossed' = (crossed \/ (c.what \in Tables!Deeds /\ c.state = "done"))
    PROVE  TablesInv'
  <1>0. TableKnown
    BY TablesKnown
  <1>k. /\ view.name \in TableNames /\ view \in TableViews(view.name) /\ TableOver(view)
        /\ state \in [Rows -> TableStatuses(view.name)] /\ crossed' \in BOOLEAN /\ crossed \in BOOLEAN
        /\ TableCalls(calls, view.name) /\ view' = view /\ state' = state
    BY <1>0 DEF TableKnown, Tables!Lose
  <1>1. PICK ok \in BOOLEAN : ~ok /\ calls' = Tables!Handled(calls, c, ok, None)
    BY DEF Tables!Lose
  <1>2. PICK d : calls' = (calls \ {c}) \cup {d} /\ TableReplied(d, c, ok, None, calls, view.name)
    BY <1>k, <1>1, TableReplies
  <1>3. d.what = c.what /\ d.arg = c.arg /\ d.state = "refused" /\ TableCalls(calls', view.name)
    BY <1>1, <1>2 DEF TableReplied
  <1>4. TablePlace' /\ TableWaits(view', calls')
    BY <1>k, <1>2, <1>3 DEF TablePlace, TableOver, TableWaits, TablesInv
  <1>5. CASE c.what = "list"
    <2>1. TableTrue(view, calls)'
      BY <1>2, <1>3, <1>5 DEF TableTrue, TablePends
    <2> QED
      BY <1>k, <1>3, <1>4, <2>1 DEF TablesInv
  <1>6. CASE c.what # "list" /\ ~(c.what \in Tables!Deeds /\ c.state = "done")
    <2>1. crossed' = crossed
      BY <1>k, <1>6
    <2> QED
      BY <1>k, <1>2, <1>3, <1>6, <2>1, TableSwaps
  <1>7. CASE c.what \in Tables!Deeds /\ c.state = "done"
    BY <1>k, <1>3, <1>4, <1>7 DEF TablesInv
  <1> QED
    BY <1>5, <1>6, <1>7

LEMMA TablesSteps == ASSUME TablesInv, Tables!Next PROVE TablesInv'
  <1>1. CASE (Tables!Go \/ (Tables!MayAct /\ Tables!Tap)) /\ UNCHANGED <<state, crossed>>
    BY <1>1, TablesTap
  <1>2. ASSUME NEW c \in calls, Tables!Handle(c) PROVE TablesInv'
    BY <1>2, TablesAnswer, TablesServe, TablesLose DEF Tables!Handle
  <1>3. CASE Tables!Others /\ crossed' = TRUE
    <2>1. PICK r \in Rows, t \in TableStatuses(view.name) : state' = [state EXCEPT ![r] = t]
      BY <1>3 DEF Tables!Others, TableStatuses
    <2>2. view' = view /\ calls' = calls
      BY <1>3 DEF Tables!Others
    <2> QED
      BY <1>3, <2>1, <2>2 DEF TablesInv, TablePlace
  <1> QED
    BY <1>1, <1>2, <1>3 DEF Tables!Next

LEMMA TablesStart == Tables!Init => TablesInv
  <1> SUFFICES ASSUME Tables!Init PROVE TablesInv
    OBVIOUS
  <1>1. PICK name \in TableNames : state \in [Rows -> TableStatuses(name)] /\ view = Tables!NewView(name)
    BY DEF Tables!Init, TableNames, TableStatuses
  <1>2. Tables!NoRow \in TableRows(name)
    <2>1. PICK D \in SUBSET Rows : D = {}
      OBVIOUS
    <2>2. [r \in D |-> 0] \in [D -> TableStatuses(name)]
      BY <2>1
    <2>3. Tables!NoRow = [r \in D |-> 0]
      BY <2>1 DEF Tables!NoRow
    <2> QED
      BY <2>2, <2>3 DEF TableRows
  <1>3. /\ view \in TableViews(name) /\ view.name = name /\ ~view.loading /\ ~view.open
        /\ ~view.drawer.open /\ ~view.drawer.loading /\ view.reject = None
    BY <1>1, <1>2 DEF TableViews, TableFilters, Tables!NewView, Tables!NoDrawer
  <1>4. TableCalls(calls, view.name)
    BY FS_EmptySet DEF TableCalls, Numbered, Tables!Init
  <1> QED
    BY <1>1, <1>3, <1>4 DEF TablesInv, TablePlace, TableWaits, Tables!Init

LEMMA TablesHold == ASSUME TablesInv PROVE Tables!TypeOK /\ Tables!ShowsServer /\ Tables!SpinnerHasCall
  <1>1. Tables!TypeOK
    BY DEF TablesInv, TablePlace, TableViews, TableRows, TableFilters, TableStatuses, TableCalls, Numbered, Tables!TypeOK
  <1>2. Tables!ShowsServer
    BY DEF TablesInv, TableTrue, TablePends, Tables!ShowsServer
  <1>3. Tables!SpinnerHasCall
    BY DEF TablesInv, TableWaits, Tables!SpinnerHasCall, Tables!Lists
  <1> QED
    BY <1>1, <1>2, <1>3

-----------------------------------------------------------------------------
(* The seller's list of products.                                          *)

ListedTypes == {"off", "on", "pending"}
ListedRows == UNION {[D -> ListedTypes] : D \in SUBSET Products}
ListedLists == [loading : BOOLEAN, refreshing : BOOLEAN, bulk : {None, "export", "sheet", "import"},
                failed : BOOLEAN, filter : ListedTypes, shown : ListedRows]
ListedArgs == [filter : ListedTypes, then : {None, "refreshing", "bulk"}]
ListedCall(c) ==
    /\ c \in [id : Nat, owner : {"list", "gone"}, what : {c.what}, arg : {c.arg}, state : States,
              reply : ListedRows \cup {None}]
    /\ \/ c.what = "products" /\ c.owner = "list" /\ c.arg \in ListedArgs
          /\ (c.state = "done" => c.reply \in ListedRows)
       \/ c.what = "switch" /\ c.arg \in [of : Products, to : {"on", "off"}, filter : ListedTypes]
       \/ c.what = "import" /\ c.arg \in [of : Products, filter : ListedTypes]
       \/ c.what = "export" /\ c.owner = "list"
ListedSeen(s, f) == [p \in {q \in {r \in Products : s[r] \in ListedTypes} : s[q] = f} |-> s[p]]
ListedReads(cs) == \E c \in cs : c.what = "products"
\* Answers that will be followed by another read, or by the sign of a failure.
ListedPends(cs) == \E c \in cs : \/ c.what = "products" /\ c.state # "done"
                                 \/ c.what \in {"switch", "import"} /\ c.state = "done" /\ c.owner = "list"
ListedCalls(cs) == Numbered(cs) /\ \A c \in cs : ListedCall(c)
ListedPlace == /\ status \in [Products -> ListedTypes \cup {"none", "gone"}]
               /\ front \in {"list", "form", "out"} /\ list \in ListedLists /\ crossed \in BOOLEAN
               /\ front = "out" => \A c \in calls : c.owner = "gone"
ListedWaits(l, cs) ==
    /\ l.loading => ListedReads(cs)
    /\ l.refreshing => \E c \in cs : c.what = "products" /\ c.arg.then = "refreshing"
    /\ l.bulk = "export" => \E c \in cs : c.what = "export"
    /\ l.bulk = "import" => \E c \in cs : \/ c.what = "import" /\ c.owner = "list"
                                          \/ c.what = "products" /\ c.arg.then = "bulk"
ListedTrue(l, cs) ==
    /\ \A c \in cs : c.what = "products" /\ c.state = "done" =>
          /\ c.reply = ListedSeen(status, c.arg.filter)
          /\ c.arg.filter = l.filter \/ l.failed \/ ListedPends(cs)
    /\ l.failed \/ ListedPends(cs) \/ ListedReads(cs) \/ l.shown = ListedSeen(status, l.filter)
ListedInv == /\ ListedPlace /\ ListedCalls(calls) /\ ListedWaits(list, calls)
             /\ crossed \/ front = "out" \/ ListedTrue(list, calls)

LEMMA ListedNames == None \notin {"refreshing", "bulk", "export", "sheet", "import"}
  BY NoneAssumption

LEMMA ListedRequest ==
    ASSUME NEW cs, NEW owner, NEW what, NEW arg
    PROVE  Listed!Request(cs, owner, what, arg) = Made(cs, owner, what, arg)
  BY DEF Listed!Request, Listed!NewId, Listed!Cardinality, Made, FreeId, Cardinality

LEMMA ListedHandled ==
    ASSUME NEW cs, NEW c, NEW ok, NEW reply
    PROVE  Listed!Handled(cs, c, ok, reply) = (cs \ {c}) \cup {Replied(c, ok, reply)}
  BY DEF Listed!Handled, Replied

ListedSwitches == [of : Products, to : {"on", "off"}, filter : ListedTypes]
ListedImports == [of : Products, filter : ListedTypes]
ListedAsk(what, arg) == \/ what = "products" /\ arg \in ListedArgs
                        \/ what = "switch" /\ arg \in ListedSwitches
                        \/ what = "import" /\ arg \in ListedImports
                        \/ what = "export"
ListedSends(c, cs, what, arg) ==
    /\ ListedCall(c) /\ c.what = what /\ c.arg = arg /\ c.state = "sent" /\ c.owner = "list"
    /\ ListedCalls(cs \cup {c})

LEMMA ListedAsks ==
    ASSUME NEW cs, ListedCalls(cs), NEW what, NEW arg, ListedAsk(what, arg)
    PROVE  \E c : Listed!Ask(cs, "list", what, arg) = cs \cup {c} /\ ListedSends(c, cs, what, arg)
  <1> PICK i : i = FreeId(cs)
    OBVIOUS
  <1> PICK c : c = [id |-> i, owner |-> "list", what |-> what, arg |-> arg, state |-> "sent", reply |-> None]
    OBVIOUS
  <1>1. New(cs, c.id)
    BY FreeIsNew DEF ListedCalls
  <1>2. ListedCall(c)
    BY <1>1 DEF ListedCall, ListedAsk, ListedSwitches, ListedImports, New, States
  <1> PICK ds : ds = cs \cup {c}
    OBVIOUS
  <1>3. Numbered(ds)
    BY <1>1, NumberedMore DEF ListedCalls
  <1>4. ListedCalls(ds)
    BY <1>2, <1>3 DEF ListedCalls
  <1>5. Listed!Ask(cs, "list", what, arg) = ds
    BY ListedRequest DEF Listed!Ask, Made
  <1> QED
    BY <1>2, <1>4, <1>5 DEF ListedSends

\* Where the seller is, and what is under way for whom.
ListedFront(f, cs) == f \in {"list", "form", "out"} /\ (f = "out" => \A c \in cs : c.owner = "gone")
\* What is known of the list.
ListedKnown == /\ status \in [Products -> ListedTypes \cup {"none", "gone"}]
               /\ list \in ListedLists /\ crossed \in BOOLEAN
               /\ ListedCalls(calls) /\ ListedWaits(list, calls) /\ ListedFront(front, calls)

LEMMA ListedsKnown == ASSUME ListedInv PROVE ListedKnown
  BY DEF ListedInv, ListedPlace, ListedKnown, ListedFront

\* What takes no part in a read.
LEMMA ListedCalm ==
    ASSUME ListedInv, list' \in ListedLists, list'.filter = list.filter, list'.shown = list.shown,
           list.failed => list'.failed,
           ListedCalls(calls'), ListedWaits(list', calls'), ListedFront(front', calls'),
           front = "out" => front' = "out",
           \A c \in calls : c.what = "products" => c \in calls',
           \A c \in calls : c.what \in {"switch", "import"} /\ c.state = "done" /\ c.owner = "list" => c \in calls',
           \A c \in calls' : c.what = "products" => c \in calls,
           crossed' \in BOOLEAN, crossed => crossed', UNCHANGED status
    PROVE  ListedInv'
  <1>1. ListedPlace'
    BY DEF ListedInv, ListedPlace, ListedFront
  <1>2. ListedPends(calls) => ListedPends(calls')
    BY DEF ListedPends
  <1>3. ListedTrue(list, calls) => ListedTrue(list, calls)'
    BY <1>2 DEF ListedTrue, ListedReads
  <1> QED
    BY <1>1, <1>3 DEF ListedInv

\* The list s waits for what is under way, for a read besides if it is told of one.
ListedRest(s, cs, then) ==
    /\ s.refreshing => then = "refreshing" \/ \E c \in cs : c.what = "products" /\ c.arg.then = "refreshing"
    /\ s.bulk = "export" => \E c \in cs : c.what = "export"
    /\ s.bulk = "import" => \/ then = "bulk"
                            \/ \E c \in cs : \/ c.what = "import" /\ c.owner = "list"
                                             \/ c.what = "products" /\ c.arg.then = "bulk"

LEMMA ListedKnownRest == ASSUME ListedKnown, NEW then PROVE ListedRest(list, calls, then)
  BY DEF ListedKnown, ListedWaits, ListedRest

LEMMA ListedLoads ==
    ASSUME ListedInv, NEW s \in ListedLists, NEW cs, ListedCalls(cs), NEW filter \in ListedTypes,
           NEW then \in {None, "refreshing", "bulk"}, ListedRest(s, cs, then),
           \A c \in cs : c.what = "products" => c \in calls,
           front' \in {"list", "form"}, front = "out" => cs = {},
           Listed!LoadOf(filter, s, cs, then), UNCHANGED <<status, crossed>>
    PROVE  ListedInv'
  <1>0. ListedKnown
    BY ListedsKnown
  <1>1. PICK arg : arg = [filter |-> filter, then |-> then]
    OBVIOUS
  <1>2. arg.then = then /\ ListedAsk("products", arg)
    BY <1>1 DEF ListedAsk, ListedArgs
  <1>3. PICK c : Listed!Ask(cs, "list", "products", arg) = cs \cup {c} /\ ListedSends(c, cs, "products", arg)
    BY <1>2, ListedAsks
  <1>4. list' = [s EXCEPT !.loading = TRUE, !.failed = FALSE] /\ calls' = cs \cup {c}
    BY <1>1, <1>3 DEF Listed!LoadOf, Listed!Loading
  <1>5. c.what = "products" /\ c.arg = arg /\ c.state = "sent" /\ ListedCalls(calls')
    BY <1>3, <1>4 DEF ListedSends
  <1>6. list' \in ListedLists /\ list'.refreshing = s.refreshing /\ list'.bulk = s.bulk
    BY <1>4 DEF ListedLists
  <1>7. ListedWaits(list', calls')
    BY <1>2, <1>4, <1>5, <1>6 DEF ListedWaits, ListedRest, ListedReads
  <1>8. ListedPends(calls')
    BY <1>4, <1>5 DEF ListedPends
  <1>9. crossed \/ front = "out" \/ ListedTrue(list, calls)
    BY DEF ListedInv
  <1>10. crossed \/ \A d \in cs : d.what = "products" /\ d.state = "done" => d.reply = ListedSeen(status, d.arg.filter)
    BY <1>9 DEF ListedTrue
  <1>11. crossed \/ ListedTrue(list, calls)'
    BY <1>4, <1>5, <1>8, <1>10 DEF ListedTrue
  <1>12. ListedPlace'
    BY <1>0, <1>6 DEF ListedKnown, ListedFront, ListedPlace
  <1> QED
    BY <1>5, <1>7, <1>11, <1>12 DEF ListedInv

\* What is left to itself when the list goes: nothing follows its reads.
LEMMA ListedGone ==
    ASSUME NEW cs, ListedCalls(cs)
    PROVE  /\ ListedCalls(Listed!Gone(cs))
           /\ \A c \in Listed!Gone(cs) : c.owner = "gone" /\ c.what \in {"switch", "import"}
  <1>1. PICK S : S = {d \in cs : d.what \in {"switch", "import"}}
    OBVIOUS
  <1>2. PICK g : g = [c \in S |-> [c EXCEPT !.owner = "gone"]]
    OBVIOUS
  <1>3. PICK ds : ds = {g[c] : c \in S}
    OBVIOUS
  <1>4. ds = Listed!Gone(cs)
    BY <1>1, <1>2, <1>3 DEF Listed!Gone
  <1>5. ASSUME NEW c \in S
        PROVE  g[c].id = c.id /\ g[c].owner = "gone" /\ g[c].what \in {"switch", "import"} /\ ListedCall(g[c])
    <2>1. ListedCall(c) /\ c.what \in {"switch", "import"}
      BY <1>1 DEF ListedCalls
    <2>2. PICK d : d = g[c]
      OBVIOUS
    <2>3. d = [c EXCEPT !.owner = "gone"]
      BY <1>2, <2>2
    <2>4. d.id = c.id /\ d.owner = "gone" /\ d.what = c.what /\ ListedCall(d)
      BY <2>1, <2>3 DEF ListedCall
    <2> QED
      BY <2>1, <2>2, <2>4
  <1>6. Numbered(cs) /\ S \subseteq cs
    BY <1>1 DEF ListedCalls
  <1>7. (\A d \in ds : \E c \in S : d = g[c]) /\ \A c \in S : g[c] \in ds
    BY <1>3
  <1>8. Numbered(ds)
    BY <1>5, <1>6, <1>7, NumberedLeft
  <1> QED
    BY <1>4, <1>5, <1>7, <1>8 DEF ListedCalls

LEMMA NewListKnown ==
    /\ Listed!NewList \in ListedLists /\ Listed!NewList.filter = "on" /\ Listed!NewList.bulk = None
    /\ ~Listed!NewList.loading /\ ~Listed!NewList.refreshing
  <1>1. PICK D \in SUBSET Products : D = {}
    OBVIOUS
  <1>2. [r \in D |-> 0] \in [D -> ListedTypes]
    BY <1>1
  <1>3. Listed!NoRow = [r \in D |-> 0]
    BY <1>1 DEF Listed!NoRow
  <1>4. Listed!NoRow \in ListedRows
    BY <1>2, <1>3 DEF ListedRows
  <1> QED
    BY <1>4 DEF Listed!NewList, ListedLists, ListedTypes

LEMMA ListedsTap ==
    ASSUME ListedInv, Listed!Tap \/ Listed!Go, UNCHANGED <<status, crossed>>
    PROVE  ListedInv'
  <1>0. ListedKnown
    BY ListedsKnown
  <1>k. /\ list \in ListedLists /\ crossed' \in BOOLEAN /\ ListedCalls(calls) /\ ListedWaits(list, calls)
        /\ ListedFront(front, calls) /\ list.filter \in ListedTypes
    BY <1>0 DEF ListedKnown, ListedLists
  <1>n. None \in {None, "refreshing", "bulk"}
    OBVIOUS
  <1>1. CASE Listed!ListFilter
    <2>1. front = "list" /\ front' = front
      BY <1>1 DEF Listed!ListFilter, Listed!ListOffers
    <2>2. PICK f \in ListedTypes : Listed!Filter(f)
      BY <1>1 DEF Listed!ListFilter, ListedTypes
    <2>3. PICK s : s = [list EXCEPT !.filter = f]
      OBVIOUS
    <2>4. s \in ListedLists /\ s.refreshing = list.refreshing /\ s.bulk = list.bulk /\ s.filter = f
      BY <1>k, <2>3 DEF ListedLists
    <2>5. Listed!LoadOf(f, s, calls, None)
      BY <2>2, <2>3, <2>4 DEF Listed!Filter, Listed!InitialLoad
    <2>6. ListedRest(s, calls, None)
      BY <1>k, <2>4 DEF ListedWaits, ListedRest
    <2> QED
      BY <1>k, <1>n, <2>1, <2>4, <2>5, <2>6, ListedLoads
  <1>2. CASE Listed!ListRefresh
    <2>1. front = "list" /\ front' = front
      BY <1>2 DEF Listed!ListRefresh, Listed!ListOffers
    <2>2. PICK s : s = [list EXCEPT !.refreshing = TRUE]
      OBVIOUS
    <2>3. s \in ListedLists /\ s.bulk = list.bulk /\ s.filter = list.filter
      BY <1>k, <2>2 DEF ListedLists
    <2>4. PICK then \in {None, "refreshing", "bulk"} : then = "refreshing"
      OBVIOUS
    <2>5. Listed!LoadOf(list.filter, s, calls, then)
      BY <1>2, <2>2, <2>3, <2>4 DEF Listed!ListRefresh, Listed!InitialLoad
    <2>6. ListedRest(s, calls, then)
      BY <1>k, <2>3, <2>4 DEF ListedWaits, ListedRest
    <2> QED
      BY <1>k, <2>1, <2>3, <2>5, <2>6, ListedLoads
  <1>3. ASSUME NEW p \in Products, Listed!ListSwitch(p) PROVE ListedInv'
    <2>1. front = "list" /\ front' = front /\ list' = list
      BY <1>3 DEF Listed!ListSwitch, Listed!ListOffers, Listed!screens
    <2>2. PICK arg : arg = [of |-> p, to |-> IF list.shown[p] = "on" THEN "off" ELSE "on", filter |-> list.filter]
      OBVIOUS
    <2>3. calls' = Listed!Ask(calls, "list", "switch", arg)
      BY <1>3, <2>2 DEF Listed!ListSwitch
    <2>4. ListedAsk("switch", arg)
      BY <1>k, <2>2 DEF ListedAsk, ListedSwitches
    <2>5. PICK c : Listed!Ask(calls, "list", "switch", arg) = calls \cup {c} /\ ListedSends(c, calls, "switch", arg)
      BY <1>k, <2>4, ListedAsks
    <2>6. calls' = calls \cup {c} /\ c.what = "switch" /\ ListedCalls(calls')
      BY <2>3, <2>5 DEF ListedSends
    <2>7. ListedWaits(list', calls')
      BY <1>k, <2>1, <2>6 DEF ListedWaits, ListedReads
    <2>8. ListedFront(front', calls')
      BY <2>1 DEF ListedFront
    <2> QED
      BY <1>k, <2>1, <2>6, <2>7, <2>8, ListedCalm
  <1>4. CASE Listed!ListExport
    <2>1. front = "list" /\ front' = front /\ list' = [list EXCEPT !.bulk = "export"]
      BY <1>4 DEF Listed!ListExport, Listed!ListOffers
    <2>2. /\ list' \in ListedLists /\ list'.filter = list.filter /\ list'.shown = list.shown /\ list'.failed = list.failed
          /\ list'.bulk = "export" /\ list'.loading = list.loading /\ list'.refreshing = list.refreshing
      BY <1>k, <2>1 DEF ListedLists
    <2>3. ListedAsk("export", None)
      BY DEF ListedAsk
    <2>4. PICK c : Listed!Ask(calls, "list", "export", None) = calls \cup {c} /\ ListedSends(c, calls, "export", None)
      BY <1>k, <2>3, ListedAsks
    <2>5. calls' = calls \cup {c} /\ c.what = "export" /\ ListedCalls(calls')
      BY <1>4, <2>4 DEF ListedSends, Listed!ListExport
    <2>6. ListedWaits(list', calls')
      BY <1>k, <2>2, <2>5 DEF ListedWaits, ListedReads
    <2>7. ListedFront(front', calls')
      BY <2>1 DEF ListedFront
    <2> QED
      BY <1>k, <2>1, <2>2, <2>5, <2>6, <2>7, ListedCalm
  <1>5. CASE Listed!ListImport
    <2>1. front = "list" /\ front' = front /\ list' = [list EXCEPT !.bulk = "import"]
      BY <1>5 DEF Listed!ListImport, Listed!ListOffers
    <2>2. /\ list' \in ListedLists /\ list'.filter = list.filter /\ list'.shown = list.shown /\ list'.failed = list.failed
          /\ list'.bulk = "import" /\ list'.loading = list.loading /\ list'.refreshing = list.refreshing
      BY <1>k, <2>1 DEF ListedLists
    <2>3. PICK p \in Products : calls' = Listed!Ask(calls, "list", "import", [of |-> p, filter |-> list.filter])
      BY <1>5 DEF Listed!ListImport
    <2>4. PICK arg : arg = [of |-> p, filter |-> list.filter]
      OBVIOUS
    <2>5. ListedAsk("import", arg)
      BY <1>k, <2>4 DEF ListedAsk, ListedImports
    <2>6. PICK c : Listed!Ask(calls, "list", "import", arg) = calls \cup {c} /\ ListedSends(c, calls, "import", arg)
      BY <1>k, <2>5, ListedAsks
    <2>7. calls' = calls \cup {c} /\ c.what = "import" /\ c.owner = "list" /\ ListedCalls(calls')
      BY <2>3, <2>4, <2>6 DEF ListedSends
    <2>8. ListedWaits(list', calls')
      BY <1>k, <2>2, <2>7 DEF ListedWaits, ListedReads
    <2>9. ListedFront(front', calls')
      BY <2>1 DEF ListedFront
    <2> QED
      BY <1>k, <2>1, <2>2, <2>7, <2>8, <2>9, ListedCalm
  <1>6. CASE Listed!OpenForm
    <2>1. front = "list" /\ front' = "form" /\ list' = list /\ calls' = calls
      BY <1>6 DEF Listed!OpenForm, Listed!ListOffers
    <2>2. ListedFront(front', calls')
      BY <2>1 DEF ListedFront
    <2> QED
      BY <1>k, <2>1, <2>2, ListedCalm
  <1>7. CASE Listed!CloseShare
    <2>1. front' = front /\ calls' = calls /\ list' = [list EXCEPT !.bulk = None]
      BY <1>7 DEF Listed!CloseShare
    <2>2. /\ list' \in ListedLists /\ list'.filter = list.filter /\ list'.shown = list.shown /\ list'.failed = list.failed
          /\ list'.bulk = None /\ list'.loading = list.loading /\ list'.refreshing = list.refreshing
      BY <1>k, <2>1 DEF ListedLists
    <2>3. ListedWaits(list', calls')
      BY <1>k, <2>1, <2>2, ListedNames DEF ListedWaits
    <2>4. ListedFront(front', calls')
      BY <1>k, <2>1
    <2> QED
      BY <1>k, <2>1, <2>2, <2>3, <2>4, ListedCalm
  <1>8. CASE Listed!Enter
    <2>1. front' = "list" /\ calls = {} /\ Listed!LoadOf(Listed!NewList.filter, Listed!NewList, calls, None)
      BY <1>8 DEF Listed!Enter, Listed!InitialLoad
    <2>2. PICK s : s = Listed!NewList
      OBVIOUS
    <2>3. s \in ListedLists /\ s.filter \in ListedTypes /\ ListedRest(s, calls, None)
      BY <2>2, NewListKnown, ListedNames DEF ListedRest, ListedTypes
    <2>4. Listed!LoadOf(s.filter, s, calls, None)
      BY <2>1, <2>2
    <2> QED
      BY <1>k, <1>n, <2>1, <2>3, <2>4, ListedLoads
  <1>9. CASE Listed!Leave
    <2>1. front' = "out" /\ list' = Listed!NewList /\ calls' = Listed!Gone(calls)
      BY <1>9 DEF Listed!Leave
    <2>2. ListedCalls(calls') /\ ListedFront(front', calls')
      BY <1>k, <2>1, ListedGone DEF ListedFront
    <2>3. list' \in ListedLists /\ ListedWaits(list', calls')
      BY <2>1, NewListKnown, ListedNames DEF ListedWaits
    <2> QED
      BY <1>0, <2>1, <2>2, <2>3 DEF ListedInv, ListedPlace, ListedKnown, ListedFront
  <1>10. CASE Listed!Return
    <2>0. front # "out" /\ front' = "list"
      BY <1>10 DEF Listed!Return
    <2>1. CASE Listed!InitialLoad(list, calls, None)
      <3>1. Listed!LoadOf(list.filter, list, calls, None)
        BY <2>1 DEF Listed!InitialLoad
      <3>2. ListedRest(list, calls, None)
        BY <1>0, ListedKnownRest
      <3> QED
        BY <1>k, <1>n, <2>0, <3>1, <3>2, ListedLoads
    <2>2. CASE Listed!InitialLoad(Listed!NewList, Listed!Gone(calls), None)
      <3>1. PICK s, cs : s = Listed!NewList /\ cs = Listed!Gone(calls)
        OBVIOUS
      <3>2. s \in ListedLists /\ s.filter \in ListedTypes /\ ListedRest(s, cs, None)
        BY <3>1, NewListKnown, ListedNames DEF ListedRest, ListedTypes
      <3>3. Listed!LoadOf(s.filter, s, cs, None)
        BY <2>2, <3>1 DEF Listed!InitialLoad
      <3>4. ListedCalls(cs) /\ \A c \in cs : c.what # "products"
        BY <1>k, <3>1, ListedGone
      <3> QED
        BY <1>k, <1>n, <2>0, <3>2, <3>3, <3>4, ListedLoads
    <2> QED
      BY <1>10, <2>1, <2>2 DEF Listed!Return
  <1> QED
    BY <1>1, <1>2, <1>3, <1>4, <1>5, <1>6, <1>7, <1>8, <1>9, <1>10 DEF Listed!Tap, Listed!Go

LEMMA ListedsAnswer ==
    ASSUME ListedInv, NEW c \in calls, Listed!Answer(c), UNCHANGED <<status, crossed>>
    PROVE  ListedInv'
  <1>0. ListedKnown
    BY ListedsKnown
  <1>k. /\ list \in ListedLists /\ crossed' \in BOOLEAN /\ ListedCall(c) /\ ListedWaits(list, calls)
        /\ ListedFront(front, calls) /\ front' = front
    BY <1>0 DEF ListedKnown, ListedCalls, Listed!Answer, Listed!Listed, Listed!Switched, Listed!Exported,
       Listed!Imported
  <1>c. ListedCalls(calls \ {c})
    BY <1>0, NumberedFewer DEF ListedKnown, ListedCalls
  <1>1. CASE Listed!Listed(c)
    <2>1. c.what = "products" /\ c.state \in {"done", "refused"} /\ calls' = calls \ {c}
      BY <1>1 DEF Listed!Listed, Listed!Ended
    <2>2. c.owner = "list" /\ c.arg.then \in {None, "refreshing", "bulk"} /\ (c.state = "done" => c.reply \in ListedRows)
      BY <1>k, <2>1 DEF ListedCall, ListedArgs
    <2>3. Listed!NoRow \in ListedRows
      BY NewListKnown DEF Listed!NewList, ListedLists
    <2>4. PICK rows, failed, refreshing, bulk :
             /\ rows = IF c.state = "done" THEN c.reply ELSE Listed!NoRow
             /\ failed = (list.failed \/ c.state = "refused")
             /\ refreshing = (list.refreshing /\ c.arg.then # "refreshing")
             /\ bulk = IF c.arg.then = "bulk" THEN None ELSE list.bulk
      OBVIOUS
    <2>5. list' = [list EXCEPT !.loading = FALSE, !.shown = rows, !.failed = failed, !.refreshing = refreshing,
                               !.bulk = bulk]
      BY <1>1, <2>4 DEF Listed!Listed
    <2>a. rows \in ListedRows
      BY <1>k, <2>1, <2>2, <2>3, <2>4
    <2>b. failed \in BOOLEAN /\ refreshing \in BOOLEAN /\ bulk \in {None, "export", "sheet", "import"}
      BY <1>k, <2>4 DEF ListedLists
    <2>6. /\ list' \in ListedLists /\ ~list'.loading /\ list'.shown = rows /\ list'.failed = failed
          /\ list'.refreshing = refreshing /\ list'.bulk = bulk /\ list'.filter = list.filter
      BY <1>k, <2>5, <2>a, <2>b DEF ListedLists
    <2>7. ListedWaits(list', calls')
      BY <1>k, <2>1, <2>4, <2>6, ListedNames DEF ListedWaits
    <2>8. ListedPends(calls) => c.state = "refused" \/ ListedPends(calls')
      BY <2>1 DEF ListedPends
    <2>9. ListedTrue(list, calls) => ListedTrue(list, calls)'
      BY <2>1, <2>4, <2>6, <2>8 DEF ListedTrue
    <2>10. ListedPlace'
      BY <1>0, <1>k, <2>1, <2>6 DEF ListedKnown, ListedPlace, ListedFront
    <2> QED
      BY <1>c, <1>k, <2>1, <2>7, <2>9, <2>10 DEF ListedInv
  <1>2. CASE Listed!Switched(c)
    <2>1. c.what = "switch" /\ c.state \in {"done", "refused"} /\ c.arg \in ListedSwitches
      BY <1>2, <1>k DEF Listed!Switched, Listed!Ended, ListedCall, ListedSwitches
    <2>2. CASE c.owner = "list" /\ c.state = "done"
      <3>1. PICK filter \in ListedTypes : filter = c.arg.filter
        BY <2>1 DEF ListedSwitches
      <3>2. Listed!LoadOf(filter, list, calls \ {c}, None)
        BY <1>2, <2>2, <3>1 DEF Listed!Switched
      <3>3. ListedRest(list, calls \ {c}, None)
        BY <1>k, <2>1 DEF ListedWaits, ListedRest
      <3>4. front # "out"
        BY <1>k, <2>2 DEF ListedFront
      <3>5. front' \in {"list", "form"} /\ None \in {None, "refreshing", "bulk"}
        BY <1>k, <3>4 DEF ListedFront
      <3> QED
        BY <1>c, <1>k, <3>2, <3>3, <3>4, <3>5, ListedLoads
    <2>3. CASE ~(c.owner = "list" /\ c.state = "done")
      <3>1. PICK failed \in BOOLEAN : failed = (list.failed \/ c.owner = "list")
        OBVIOUS
      <3>2. list' = [list EXCEPT !.failed = failed] /\ calls' = calls \ {c}
        BY <1>2, <2>3, <3>1 DEF Listed!Switched
      <3>3. /\ list' \in ListedLists /\ list'.filter = list.filter /\ list'.shown = list.shown /\ list'.failed = failed
            /\ list'.bulk = list.bulk /\ list'.loading = list.loading /\ list'.refreshing = list.refreshing
        BY <1>k, <3>2 DEF ListedLists
      <3>4. ListedWaits(list', calls')
        BY <1>k, <2>1, <3>2, <3>3 DEF ListedWaits, ListedReads
      <3>5. ListedFront(front', calls')
        BY <1>k, <3>2 DEF ListedFront
      <3> QED
        BY <1>c, <1>k, <2>1, <2>3, <3>1, <3>2, <3>3, <3>4, <3>5, ListedCalm
    <2> QED
      BY <2>2, <2>3
  <1>3. CASE Listed!Exported(c)
    <2>1. c.what = "export" /\ calls' = calls \ {c}
      BY <1>3 DEF Listed!Exported
    <2>2. PICK bulk \in {"sheet", None} : list' = [list EXCEPT !.bulk = bulk]
      BY <1>3 DEF Listed!Exported
    <2>3. /\ list' \in ListedLists /\ list'.filter = list.filter /\ list'.shown = list.shown /\ list'.failed = list.failed
          /\ list'.bulk = bulk /\ list'.loading = list.loading /\ list'.refreshing = list.refreshing
      BY <1>k, <2>2 DEF ListedLists
    <2>4. ListedWaits(list', calls')
      BY <1>k, <2>1, <2>3, ListedNames DEF ListedWaits, ListedReads
    <2>5. ListedFront(front', calls')
      BY <1>k, <2>1 DEF ListedFront
    <2> QED
      BY <1>c, <1>k, <2>1, <2>3, <2>4, <2>5, ListedCalm
  <1>4. CASE Listed!Imported(c)
    <2>1. c.what = "import" /\ c.state \in {"done", "refused"} /\ c.arg \in ListedImports /\ c.owner \in {"list", "gone"}
      BY <1>4, <1>k DEF Listed!Imported, Listed!Ended, ListedCall, ListedImports
    <2>2. CASE c.owner = "list" /\ c.state = "done"
      <3>1. PICK filter \in ListedTypes, then \in {None, "refreshing", "bulk"} : filter = c.arg.filter /\ then = "bulk"
        BY <2>1 DEF ListedImports
      <3>2. Listed!LoadOf(filter, list, calls \ {c}, then)
        BY <1>4, <2>2, <3>1 DEF Listed!Imported
      <3>3. ListedRest(list, calls \ {c}, then)
        BY <1>k, <2>1, <3>1 DEF ListedWaits, ListedRest
      <3>4. front # "out"
        BY <1>k, <2>2 DEF ListedFront
      <3>5. front' \in {"list", "form"}
        BY <1>k, <3>4 DEF ListedFront
      <3> QED
        BY <1>c, <1>k, <3>2, <3>3, <3>4, <3>5, ListedLoads
    <2>3. CASE ~(c.owner = "list" /\ c.state = "done")
      <3>1. calls' = calls \ {c} /\ (c.owner = "gone" => list' = list) /\ (c.owner = "list" => list' = [list EXCEPT !.bulk = None])
        BY <1>4, <2>3 DEF Listed!Imported
      <3>2. /\ list' \in ListedLists /\ list'.filter = list.filter /\ list'.shown = list.shown /\ list'.failed = list.failed
            /\ list'.bulk = (IF c.owner = "list" THEN None ELSE list.bulk)
            /\ list'.loading = list.loading /\ list'.refreshing = list.refreshing
        BY <1>k, <2>1, <3>1 DEF ListedLists
      <3>3. ListedWaits(list', calls')
        BY <1>k, <2>1, <3>1, <3>2, ListedNames DEF ListedWaits, ListedReads
      <3>4. ListedFront(front', calls')
        BY <1>k, <3>1 DEF ListedFront
      <3> QED
        BY <1>c, <1>k, <2>1, <2>3, <3>1, <3>2, <3>3, <3>4, ListedCalm
    <2> QED
      BY <2>2, <2>3
  <1> QED
    BY <1>1, <1>2, <1>3, <1>4 DEF Listed!Answer

ListedReplied(d, c, ok, reply, cs) ==
    /\ d.what = c.what /\ d.arg = c.arg /\ d.owner = c.owner /\ d.reply = reply
    /\ (ok => d.state = "done") /\ (~ok => d.state = "refused")
    /\ ListedCalls((cs \ {c}) \cup {d})

LEMMA ListedReplies ==
    ASSUME NEW cs, ListedCalls(cs), NEW c \in cs, NEW ok \in BOOLEAN, NEW reply \in ListedRows \cup {None},
           c.what = "products" /\ ok => reply \in ListedRows
    PROVE  \E d : Listed!Handled(cs, c, ok, reply) = (cs \ {c}) \cup {d} /\ ListedReplied(d, c, ok, reply, cs)
  <1> PICK d : d = Replied(c, ok, reply)
    OBVIOUS
  <1>1. ListedCall(c)
    BY DEF ListedCalls
  <1>2. /\ d.what = c.what /\ d.arg = c.arg /\ (ok => d.state = "done") /\ (~ok => d.state = "refused")
        /\ d.reply = reply /\ d.owner = c.owner /\ d.id = c.id /\ ListedCall(d)
    BY <1>1 DEF ListedCall, Replied, States
  <1> PICK ds : ds = (cs \ {c}) \cup {d}
    OBVIOUS
  <1>3. Numbered(ds)
    BY <1>2, NumberedSwap DEF ListedCalls
  <1>4. ListedCalls(ds)
    BY <1>2, <1>3 DEF ListedCalls
  <1>5. ListedReplied(d, c, ok, reply, cs)
    BY <1>2, <1>4 DEF ListedReplied
  <1> QED
    BY <1>5, ListedHandled

\* What waits for a request waits for its answer.
LEMMA ListedSwapped ==
    ASSUME ListedKnown, NEW c \in calls, NEW d, d.what = c.what, d.arg = c.arg, d.owner = c.owner,
           calls' = (calls \ {c}) \cup {d}, list' = list, front' = front
    PROVE  ListedWaits(list', calls') /\ ListedFront(front', calls')
  BY DEF ListedKnown, ListedWaits, ListedReads, ListedFront

LEMMA ListedsServe ==
    ASSUME ListedInv, NEW c \in calls, Listed!Serve(c), UNCHANGED <<front, list>>,
           crossed' = IF c.what = "products" THEN calls # {c} \/ c.arg.filter # list.filter
                      ELSE crossed \/ (status' # status
                              /\ (c.owner # "list" \/ Listed!ListServed \/ Listed!Handled(calls, c, FALSE, None) = calls'))
    PROVE  ListedInv'
  <1>0. ListedKnown
    BY ListedsKnown
  <1>k. /\ list \in ListedLists /\ crossed \in BOOLEAN /\ crossed' \in BOOLEAN /\ ListedCalls(calls) /\ ListedCall(c)
        /\ status \in [Products -> ListedTypes \cup {"none", "gone"}] /\ c.state = "sent"
        /\ ListedFront(front, calls)
    BY <1>0 DEF ListedKnown, ListedCalls, Listed!Serve
  <1>1. CASE c.what = "products"
    <2>1. PICK now : now = ListedSeen(status, c.arg.filter)
      OBVIOUS
    <2>2. PICK ok \in BOOLEAN : ok /\ calls' = Listed!Handled(calls, c, ok, now) /\ status' = status
      BY <1>1, <2>1 DEF Listed!Serve, ListedSeen, Listed!Live, ListedTypes, Listed!Statuses
    <2>3. now \in ListedRows
      <3>1. PICK D : D = {q \in {r \in Products : status[r] \in ListedTypes} : status[q] = c.arg.filter}
        OBVIOUS
      <3>2. [p \in D |-> status[p]] \in [D -> ListedTypes] /\ D \in SUBSET Products
        BY <3>1
      <3>3. now = [p \in D |-> status[p]]
        BY <2>1, <3>1 DEF ListedSeen
      <3> QED
        BY <3>2, <3>3 DEF ListedRows
    <2>4. PICK d : calls' = (calls \ {c}) \cup {d} /\ ListedReplied(d, c, ok, now, calls)
      BY <1>k, <2>2, <2>3, ListedReplies
    <2>5. /\ d.what = c.what /\ d.arg = c.arg /\ d.owner = c.owner /\ d.state = "done" /\ d.reply = now
          /\ ListedCalls(calls')
      BY <2>2, <2>4 DEF ListedReplied
    <2>6. ListedWaits(list', calls') /\ ListedFront(front', calls')
      BY <1>0, <2>4, <2>5, ListedSwapped
    <2>7. ASSUME ~crossed' PROVE ListedTrue(list, calls)'
      <3>1. calls = {c} /\ c.arg.filter = list.filter
        BY <1>1, <2>7
      <3>2. calls' = {d}
        BY <2>4, <3>1
      <3> QED
        BY <1>1, <2>1, <2>2, <2>5, <3>1, <3>2 DEF ListedTrue, ListedReads
    <2> QED
      BY <1>k, <2>2, <2>5, <2>6, <2>7 DEF ListedInv, ListedPlace, ListedFront
  <1>2. CASE c.what # "products"
    <2>1. PICK ok \in BOOLEAN : calls' = Listed!Handled(calls, c, ok, None)
      <3>1. CASE c.what = "export" \/ c.what = "import" \/ (c.what = "switch" /\ Listed!Allowed(c))
        BY <1>2, <3>1 DEF Listed!Serve
      <3>2. CASE c.what = "switch" /\ ~Listed!Allowed(c)
        BY <3>2 DEF Listed!Serve
      <3> QED
        BY <1>k, <1>2, <3>1, <3>2 DEF ListedCall
    <2>2. status' \in [Products -> ListedTypes \cup {"none", "gone"}]
      <3>1. CASE c.what = "import"
        <4>1. CASE status' = status
          BY <1>k, <4>1
        <4>2. CASE status' = [status EXCEPT ![c.arg.of] = Listed!Edited(@)]
          <5>1. c.arg.of \in Products
            BY <1>k, <3>1 DEF ListedCall
          <5>2. Listed!Edited(status[c.arg.of]) \in ListedTypes \cup {"none", "gone"}
            BY <1>k, <5>1 DEF Listed!Edited, ListedTypes
          <5>3. PICK s \in ListedTypes \cup {"none", "gone"} : s = Listed!Edited(status[c.arg.of])
            BY <5>2
          <5>4. status' = [status EXCEPT ![c.arg.of] = s]
            BY <4>2, <5>3
          <5> QED
            BY <1>k, <5>1, <5>4
        <4> QED
          BY <3>1, <4>1, <4>2 DEF Listed!Serve
      <3>2. CASE c.what = "switch" /\ Listed!Allowed(c)
        <4>1. c.arg.of \in Products /\ c.arg.to \in ListedTypes
          BY <1>k, <3>2 DEF ListedCall, ListedTypes
        <4>2. status' = [status EXCEPT ![c.arg.of] = c.arg.to]
          BY <3>2 DEF Listed!Serve, Listed!Put
        <4> QED
          BY <1>k, <4>1, <4>2
      <3>3. CASE (c.what = "switch" /\ ~Listed!Allowed(c)) \/ c.what = "export"
        BY <1>k, <3>3 DEF Listed!Serve
      <3> QED
        BY <1>k, <1>2, <3>1, <3>2, <3>3 DEF ListedCall
    <2>3. PICK d : calls' = (calls \ {c}) \cup {d} /\ ListedReplied(d, c, ok, None, calls)
      BY <1>k, <1>2, <2>1, ListedReplies
    <2>4. /\ d.what = c.what /\ d.arg = c.arg /\ d.owner = c.owner /\ (ok => d.state = "done") /\ ListedCalls(calls')
      BY <2>3 DEF ListedReplied
    <2>5. ListedWaits(list', calls') /\ ListedFront(front', calls')
      BY <1>0, <2>3, <2>4, ListedSwapped
    <2>6. CASE status' = status
      BY <1>k, <1>2, <2>3, <2>4, <2>5, <2>6, ListedCalm
    <2>7. CASE status' # status
      <3>1. ListedPlace'
        BY <1>k, <2>2, <2>5 DEF ListedPlace, ListedFront
      <3>2. ASSUME ~crossed' PROVE ListedTrue(list, calls)'
        <4>1. c.owner = "list" /\ ~Listed!ListServed /\ Listed!Handled(calls, c, FALSE, None) # calls'
          BY <1>2, <2>7, <3>2
        <4>2. ok
          BY <2>1, <4>1
        <4>3. c.what \in {"switch", "import"}
          BY <1>k, <1>2, <2>7 DEF ListedCall, Listed!Serve
        <4>4. ListedPends(calls')
          BY <2>3, <2>4, <4>1, <4>2, <4>3 DEF ListedPends
        <4>5. \A e \in calls' : ~(e.what = "products" /\ e.state = "done")
          BY <1>2, <2>3, <2>4, <4>1 DEF Listed!ListServed
        <4> QED
          BY <4>4, <4>5 DEF ListedTrue
      <3> QED
        BY <2>4, <2>5, <3>1, <3>2 DEF ListedInv
    <2> QED
      BY <2>6, <2>7
  <1> QED
    BY <1>1, <1>2

LEMMA ListedsLose ==
    ASSUME ListedInv, NEW c \in calls, Listed!Lose(c), UNCHANGED <<status, front, list>>,
           crossed' = (crossed \/ (c.state = "done" /\ c.what \in {"switch", "import"}))
    PROVE  ListedInv'
  <1>0. ListedKnown
    BY ListedsKnown
  <1>k. /\ list \in ListedLists /\ crossed \in BOOLEAN /\ crossed' \in BOOLEAN /\ ListedCalls(calls)
        /\ status \in [Products -> ListedTypes \cup {"none", "gone"}]
    BY <1>0 DEF ListedKnown, ListedCalls
  <1>1. PICK ok \in BOOLEAN : ~ok /\ calls' = Listed!Handled(calls, c, ok, None)
    BY DEF Listed!Lose
  <1>2. PICK d : calls' = (calls \ {c}) \cup {d} /\ ListedReplied(d, c, ok, None, calls)
    BY <1>k, <1>1, ListedReplies
  <1>3. /\ d.what = c.what /\ d.arg = c.arg /\ d.owner = c.owner /\ d.state = "refused" /\ ListedCalls(calls')
    BY <1>1, <1>2 DEF ListedReplied
  <1>4. ListedWaits(list', calls') /\ ListedFront(front', calls')
    BY <1>0, <1>2, <1>3, ListedSwapped
  <1>5. ListedPlace'
    BY <1>k, <1>4 DEF ListedPlace, ListedFront
  <1>6. CASE c.what = "products"
    <2>1. ListedPends(calls')
      BY <1>2, <1>3, <1>6 DEF ListedPends
    <2>2. ListedTrue(list, calls) => ListedTrue(list, calls)'
      BY <1>2, <1>3, <2>1 DEF ListedTrue
    <2> QED
      BY <1>k, <1>3, <1>4, <1>5, <2>2 DEF ListedInv
  <1>7. CASE c.state = "done" /\ c.what \in {"switch", "import"}
    BY <1>3, <1>4, <1>5, <1>7 DEF ListedInv
  <1>8. CASE c.what # "products" /\ ~(c.state = "done" /\ c.what \in {"switch", "import"})
    BY <1>k, <1>2, <1>3, <1>4, <1>8, ListedCalm
  <1> QED
    BY <1>6, <1>7, <1>8

LEMMA ListedSteps == ASSUME ListedInv, Listed!Next PROVE ListedInv'
  <1>1. CASE ((Listed!MayAct /\ Listed!Tap) \/ Listed!Go) /\ UNCHANGED <<status, crossed>>
    BY <1>1, ListedsTap
  <1>2. ASSUME NEW c \in calls, Listed!Handle(c) PROVE ListedInv'
    BY <1>2, ListedsAnswer, ListedsServe, ListedsLose DEF Listed!Handle, Listed!screens
  <1>3. ASSUME NEW p \in Products, Listed!Others(p), crossed' = TRUE PROVE ListedInv'
    <2>1. PICK s \in ListedTypes \cup {"none", "gone"} : status' = [status EXCEPT ![p] = s]
      BY <1>3 DEF Listed!Others, Listed!Put, Listed!Statuses, ListedTypes
    <2>2. front' = front /\ list' = list /\ calls' = calls
      BY <1>3 DEF Listed!Others, Listed!screens
    <2> QED
      BY <1>3, <2>1, <2>2 DEF ListedInv, ListedPlace
  <1> QED
    BY <1>1, <1>2, <1>3 DEF Listed!Next

LEMMA ListedStart == Listed!Init => ListedInv
  <1> SUFFICES ASSUME Listed!Init PROVE ListedInv
    OBVIOUS
  <1>1. ListedCalls(calls)
    BY FS_EmptySet DEF ListedCalls, Numbered, Listed!Init
  <1>2. ListedWaits(list, calls)
    BY NewListKnown, ListedNames DEF Listed!Init, ListedWaits
  <1> QED
    BY <1>1, <1>2, NewListKnown DEF ListedInv, ListedPlace, Listed!Init, ListedTypes, Listed!Statuses

LEMMA ListedHold == ASSUME ListedInv PROVE Listed!TypeOK /\ Listed!ShowsServer /\ Listed!SpinnerHasCall
  <1>1. Listed!TypeOK
    BY DEF ListedInv, ListedPlace, ListedLists, ListedRows, ListedTypes, ListedCalls, Numbered, Listed!TypeOK,
       Listed!Statuses
  <1>2. Listed!ShowsServer
    BY DEF ListedInv, ListedTrue, ListedPends, ListedReads, Listed!ShowsServer, ListedSeen, Listed!Live, ListedTypes,
       Listed!Statuses
  <1>3. Listed!SpinnerHasCall
    <2>1. \A c \in calls : c.what \in {"products", "export"} => c.owner = "list"
      BY DEF ListedInv, ListedCalls, ListedCall
    <2> QED
      BY <2>1 DEF ListedInv, ListedWaits, ListedReads, Listed!SpinnerHasCall
  <1> QED
    BY <1>1, <1>2, <1>3

-----------------------------------------------------------------------------
(* The form of a product.                                                  *)

EditedForms == [of : Products \cup {None}, loading : BOOLEAN, failed : BOOLEAN,
                initial : Contents \cup {None}, values : Contents \cup {None}, options : BOOLEAN,
                submitting : BOOLEAN, uploading : {None, "cover", "gallery"}]
EditedAlert(a) == \/ a = Edited!NoAlert
                  \/ a.kind = "confirm" /\ a.new \in Contents
                  \/ a.kind = "saved" /\ a.of \in Products /\ a.new \in Contents
EditedCall(c) ==
    /\ c \in [id : Nat, owner : {"form", "left"}, what : {c.what},
              arg : [of : Products \cup {None}, new : Contents \cup {None}],
              state : States, reply : {c.reply}]
    /\ \/ c.what = "product" /\ c.owner = "form" /\ c.arg.of \in Products /\ c.reply \in Contents \cup {None}
       \/ c.what = "categories" /\ c.owner = "form"
       \/ c.what = "upload" /\ c.owner = "form"
       \/ c.what = "save" /\ c.arg.new \in Contents /\ (c.state = "done" => c.reply \in Products)
EditedCalls(cs) == Numbered(cs) /\ \A c \in cs : EditedCall(c)
\* Where the seller is, and what is under way for whom.
EditedAt(at, f, a, cs) ==
    /\ at \in {"edit", "new", "out"} /\ f \in EditedForms /\ EditedAlert(a)
    /\ at = "out" => \A c \in cs : c.owner = "left"
    /\ at = "edit" => f.of \in Products
    /\ f.failed => at = "edit"
    /\ \A c \in cs : c.what = "product" => at = "edit"
    /\ a.kind = "confirm" => at = "edit"
EditedPlace == /\ content \in [Products -> Contents \cup {None}] /\ crossed \in BOOLEAN
               /\ EditedAt(front, form, alert, calls)
EditedHas(cs, what) == \E c \in cs : c.owner = "form" /\ c.what = what
EditedWaits(f, cs) == /\ f.loading => EditedHas(cs, "product")
                      /\ f.submitting => EditedHas(cs, "save")
                      /\ f.uploading # None => EditedHas(cs, "upload")
\* What was reported done is so.
EditedTrue(a, cs) == /\ a.kind = "saved" => content[a.of] = a.new
                     /\ \A c \in cs : c.what = "save" /\ c.state = "done" => content[c.reply] = c.arg.new
EditedInv == EditedPlace /\ EditedCalls(calls) /\ EditedWaits(form, calls) /\ (crossed \/ EditedTrue(alert, calls))

LEMMA EditedNames == None \notin {"confirm", "saved", "cover", "gallery"}
  BY NoneAssumption

LEMMA EditedRequest ==
    ASSUME NEW cs, NEW owner, NEW what, NEW arg
    PROVE  Edited!Request(cs, owner, what, arg) = Made(cs, owner, what, arg)
  BY DEF Edited!Request, Edited!NewId, Edited!Cardinality, Made, FreeId, Cardinality

LEMMA EditedHandled ==
    ASSUME NEW cs, NEW c, NEW ok, NEW reply
    PROVE  Edited!Handled(cs, c, ok, reply) = (cs \ {c}) \cup {Replied(c, ok, reply)}
  BY DEF Edited!Handled, Replied

EditedArgs == [of : Products \cup {None}, new : Contents \cup {None}]
EditedAsk(what, of, new) == /\ of \in Products \cup {None} /\ new \in Contents \cup {None}
                            /\ \/ what = "product" /\ of \in Products
                               \/ what \in {"categories", "upload"}
                               \/ what = "save" /\ new \in Contents
EditedSends(c, cs, what) ==
    c.what = what /\ c.owner = "form" /\ c.state = "sent" /\ EditedCalls(cs \cup {c})

LEMMA EditedAsks ==
    ASSUME NEW cs, EditedCalls(cs), NEW what, NEW of, NEW new, EditedAsk(what, of, new)
    PROVE  \E c : Edited!Ask(cs, what, of, new) = cs \cup {c} /\ EditedSends(c, cs, what)
  <1> PICK i : i = FreeId(cs)
    OBVIOUS
  <1> PICK arg : arg = [of |-> of, new |-> new]
    OBVIOUS
  <1> PICK c : c = [id |-> i, owner |-> "form", what |-> what, arg |-> arg, state |-> "sent", reply |-> None]
    OBVIOUS
  <1>1. New(cs, c.id)
    BY FreeIsNew DEF EditedCalls
  <1>2. EditedCall(c)
    BY <1>1 DEF EditedCall, EditedAsk, New, States
  <1> PICK ds : ds = cs \cup {c}
    OBVIOUS
  <1>3. Numbered(ds)
    BY <1>1, NumberedMore DEF EditedCalls
  <1>4. EditedCalls(ds)
    BY <1>2, <1>3 DEF EditedCalls
  <1>5. Edited!Ask(cs, what, of, new) = ds
    BY EditedRequest DEF Edited!Ask, Made
  <1> QED
    BY <1>4, <1>5 DEF EditedSends

EditedKnown == /\ content \in [Products -> Contents \cup {None}] /\ crossed \in BOOLEAN
               /\ EditedAt(front, form, alert, calls) /\ EditedCalls(calls) /\ EditedWaits(form, calls)

LEMMA EditedsKnown == ASSUME EditedInv PROVE EditedKnown
  BY DEF EditedInv, EditedPlace, EditedKnown

EditedSaved(c) == c.what = "save" /\ c.state = "done"
\* What reports nothing and saves nothing.
LEMMA EditedCalm ==
    ASSUME EditedInv, EditedAt(front', form', alert', calls'), EditedCalls(calls'), EditedWaits(form', calls'),
           UNCHANGED <<content, crossed>>, alert' = alert \/ alert'.kind # "saved",
           \A d \in calls' : EditedSaved(d) => \E c \in calls : EditedSaved(c) /\ c.reply = d.reply /\ c.arg = d.arg
    PROVE  EditedInv'
  <1>1. EditedTrue(alert, calls) => EditedTrue(alert, calls)'
    BY DEF EditedTrue, EditedSaved
  <1>2. EditedPlace'
    BY DEF EditedInv, EditedPlace
  <1> QED
    BY <1>1, <1>2 DEF EditedInv

\* A form that takes one request more.
LEMMA EditedMore ==
    ASSUME EditedInv, NEW what, NEW of, NEW new, EditedAsk(what, of, new), calls' = Edited!Ask(calls, what, of, new),
           UNCHANGED <<content, crossed>>, alert' = alert \/ alert'.kind # "saved",
           EditedAlert(alert'), alert'.kind = "confirm" => front' = "edit",
           front' \in {"edit", "new"}, front \in {front', "out"},
           what = "product" => front' = "edit",
           form' \in EditedForms, front' = "edit" => form'.of \in Products, form'.failed => front' = "edit",
           form'.loading => what = "product" \/ form.loading,
           form'.submitting => what = "save" \/ form.submitting,
           form'.uploading # None => what = "upload" \/ form.uploading # None
    PROVE  EditedInv'
  <1>0. EditedKnown
    BY EditedsKnown
  <1>1. PICK c : Edited!Ask(calls, what, of, new) = calls \cup {c} /\ EditedSends(c, calls, what)
    BY <1>0, EditedAsks DEF EditedKnown
  <1>2. /\ calls' = calls \cup {c} /\ c.what = what /\ c.owner = "form" /\ c.state = "sent" /\ EditedCalls(calls')
    BY <1>1 DEF EditedSends
  <1>3. \A d \in calls : d.what = "product" => d.owner = "form"
    BY <1>0 DEF EditedKnown, EditedCalls, EditedCall
  <1>4. EditedAt(front', form', alert', calls')
    BY <1>0, <1>2, <1>3 DEF EditedKnown, EditedAt
  <1>5. EditedWaits(form', calls')
    BY <1>0, <1>2 DEF EditedKnown, EditedWaits, EditedHas
  <1>6. \A d \in calls' : EditedSaved(d) => d \in calls
    BY <1>2 DEF EditedSaved
  <1> QED
    BY <1>2, <1>4, <1>5, <1>6, EditedCalm

\* Of a page that is left only the saves go on.
LEMMA EditedGone ==
    ASSUME NEW cs, EditedCalls(cs)
    PROVE  /\ EditedCalls(Edited!Gone(cs))
           /\ \A d \in Edited!Gone(cs) : /\ d.owner = "left" /\ d.what = "save"
                                         /\ EditedSaved(d) => \E c \in cs : /\ EditedSaved(c) /\ c.reply = d.reply
                                                                            /\ c.arg = d.arg
  <1>1. PICK S : S = {d \in cs : d.what = "save"}
    OBVIOUS
  <1>2. PICK g : g = [c \in S |-> [c EXCEPT !.owner = "left"]]
    OBVIOUS
  <1>3. PICK ds : ds = {g[c] : c \in S}
    OBVIOUS
  <1>4. ds = Edited!Gone(cs)
    BY <1>1, <1>2, <1>3 DEF Edited!Gone
  <1>5. ASSUME NEW c \in S
        PROVE  /\ g[c].id = c.id /\ g[c].owner = "left" /\ g[c].what = "save" /\ EditedCall(g[c])
               /\ g[c].state = c.state /\ g[c].reply = c.reply /\ g[c].arg = c.arg /\ c.what = "save" /\ c \in cs
    <2>1. EditedCall(c) /\ c.what = "save" /\ c \in cs
      BY <1>1 DEF EditedCalls
    <2>2. PICK d : d = g[c]
      OBVIOUS
    <2>3. d = [c EXCEPT !.owner = "left"]
      BY <1>2, <2>2
    <2>4. /\ d.id = c.id /\ d.owner = "left" /\ d.what = c.what /\ EditedCall(d)
          /\ d.state = c.state /\ d.reply = c.reply /\ d.arg = c.arg
      BY <2>1, <2>3 DEF EditedCall
    <2> QED
      BY <2>1, <2>2, <2>4
  <1>6. Numbered(cs) /\ S \subseteq cs
    BY <1>1 DEF EditedCalls
  <1>7. (\A d \in ds : \E c \in S : d = g[c]) /\ \A c \in S : g[c] \in ds
    BY <1>3
  <1>8. Numbered(ds)
    BY <1>5, <1>6, <1>7, NumberedLeft
  <1>9. ASSUME NEW d \in ds
        PROVE  /\ d.owner = "left" /\ d.what = "save" /\ EditedCall(d)
               /\ EditedSaved(d) => \E c \in cs : EditedSaved(c) /\ c.reply = d.reply /\ c.arg = d.arg
    <2>1. PICK c \in S : d = g[c]
      BY <1>7
    <2> QED
      BY <1>5, <2>1 DEF EditedSaved
  <1> QED
    BY <1>4, <1>8, <1>9 DEF EditedCalls

LEMMA EditedLeaves ==
    ASSUME EditedInv, front' = "out", form' = Edited!NoForm, calls' = Edited!Gone(calls),
           UNCHANGED <<content, crossed>>, EditedAlert(alert'), alert'.kind = None
    PROVE  EditedInv'
  <1>0. EditedKnown
    BY EditedsKnown
  <1>1. EditedCalls(calls') /\ \A d \in calls' : d.owner = "left" /\ d.what = "save"
    BY <1>0, EditedGone DEF EditedKnown
  <1>2. \A d \in calls' : EditedSaved(d) => \E c \in calls : EditedSaved(c) /\ c.reply = d.reply /\ c.arg = d.arg
    BY <1>0, EditedGone DEF EditedKnown
  <1>3. form' \in EditedForms /\ ~form'.failed /\ ~form'.loading /\ ~form'.submitting /\ form'.uploading = None
    BY DEF Edited!NoForm, EditedForms
  <1>4. EditedAt(front', form', alert', calls')
    BY <1>1, <1>3, EditedNames DEF EditedAt
  <1>5. EditedWaits(form', calls')
    BY <1>3 DEF EditedWaits
  <1> QED
    BY <1>1, <1>2, <1>4, <1>5, EditedNames, EditedCalm

\* What changes the form alone.
LEMMA EditedTypes ==
    ASSUME EditedInv, UNCHANGED <<content, crossed, calls, front>>, form' = form \/ \E v \in Contents : form' = [form EXCEPT !.values = v],
           alert' = alert \/ alert'.kind # "saved", EditedAlert(alert'), alert'.kind = "confirm" => front = "edit"
    PROVE  EditedInv'
  <1>0. EditedKnown
    BY EditedsKnown
  <1>1. /\ form' \in EditedForms /\ form'.failed = form.failed /\ form'.loading = form.loading
        /\ form'.submitting = form.submitting /\ form'.uploading = form.uploading /\ form'.of = form.of
    BY <1>0 DEF EditedKnown, EditedAt, EditedForms
  <1>2. EditedAt(front', form', alert', calls')
    BY <1>0, <1>1 DEF EditedKnown, EditedAt
  <1>3. EditedWaits(form', calls')
    BY <1>0, <1>1 DEF EditedKnown, EditedWaits
  <1> QED
    BY <1>0, <1>2, <1>3, EditedCalm DEF EditedKnown

LEMMA EditedNoAlert == EditedAlert(Edited!NoAlert) /\ Edited!NoAlert.kind = None
  BY DEF EditedAlert, Edited!NoAlert

LEMMA EditedsTap ==
    ASSUME EditedInv, Edited!Tap \/ Edited!Go, UNCHANGED <<content, crossed>>
    PROVE  EditedInv'
  <1>0. EditedKnown
    BY EditedsKnown
  <1>k. EditedAt(front, form, alert, calls) /\ form \in EditedForms /\ EditedAlert(alert)
    BY <1>0 DEF EditedKnown, EditedAt
  <1>n. None \in Products \cup {None} /\ None \in Contents \cup {None}
    OBVIOUS
  <1>1. CASE Edited!Retry
    <2>1. /\ form.failed /\ front # "out" /\ front' = front /\ alert' = alert
          /\ form' = [form EXCEPT !.loading = TRUE, !.failed = FALSE] /\ calls' = Edited!Ask(calls, "product", form.of, None)
      BY <1>1 DEF Edited!Retry, Edited!Offers
    <2>2. front = "edit" /\ form.of \in Products
      BY <1>k, <2>1 DEF EditedAt
    <2>3. EditedAsk("product", form.of, None)
      BY <2>2 DEF EditedAsk
    <2>4. /\ form' \in EditedForms /\ form'.of = form.of /\ form'.submitting = form.submitting
          /\ form'.uploading = form.uploading
      BY <1>k, <2>1 DEF EditedForms
    <2> QED
      BY <1>k, <2>1, <2>2, <2>3, <2>4, EditedMore
  <1>2. CASE Edited!PickCover \/ Edited!PickGallery
    <2>1. PICK u \in {"cover", "gallery"} : form' = [form EXCEPT !.uploading = u]
      BY <1>2 DEF Edited!PickCover, Edited!PickGallery
    <2>2. front # "out" /\ front' = front /\ alert' = alert /\ calls' = Edited!Ask(calls, "upload", None, None)
      BY <1>2 DEF Edited!PickCover, Edited!PickGallery, Edited!Offers
    <2>3. EditedAsk("upload", None, None)
      BY DEF EditedAsk
    <2>4. /\ form' \in EditedForms /\ form'.of = form.of /\ form'.submitting = form.submitting
          /\ form'.loading = form.loading /\ form'.failed = form.failed
      BY <1>k, <2>1 DEF EditedForms
    <2>5. /\ front \in {"edit", "new"} /\ (alert.kind = "confirm" => front = "edit")
          /\ (front = "edit" => form.of \in Products) /\ (form.failed => front = "edit")
      BY <1>k, <2>2 DEF EditedAt
    <2> QED
      BY <1>k, <2>2, <2>3, <2>4, <2>5, EditedMore
  <1>3. CASE Edited!ConfirmYes
    <2>1. /\ alert.kind = "confirm" /\ alert' = Edited!NoAlert /\ front' = front
          /\ form' = [form EXCEPT !.submitting = TRUE] /\ calls' = Edited!Ask(calls, "save", form.of, alert.new)
      BY <1>3 DEF Edited!ConfirmYes, Edited!Submit
    <2>2. front = "edit" /\ form.of \in Products /\ alert.new \in Contents
      BY <1>k, <2>1, EditedNames, EditedNoAlert DEF EditedAt, EditedAlert
    <2>3. EditedAsk("save", form.of, alert.new)
      BY <2>2 DEF EditedAsk
    <2>4. /\ form' \in EditedForms /\ form'.of = form.of /\ form'.loading = form.loading
          /\ form'.uploading = form.uploading
      BY <1>k, <2>1 DEF EditedForms
    <2> QED
      BY <1>k, <2>1, <2>2, <2>3, <2>4, EditedMore, EditedNoAlert, EditedNames
  <1>4. CASE Edited!SubmitNew
    <2>1. /\ alert' = alert /\ front' = front /\ front = "new" /\ form.values # None
          /\ form' = [form EXCEPT !.submitting = TRUE] /\ calls' = Edited!Ask(calls, "save", None, form.values)
      BY <1>4 DEF Edited!SubmitNew, Edited!Submit, Edited!Offers
    <2>2. form.values \in Contents
      BY <1>k, <2>1 DEF EditedForms
    <2>3. EditedAsk("save", None, form.values)
      BY <2>2 DEF EditedAsk
    <2>4. /\ form' \in EditedForms /\ form'.of = form.of /\ form'.loading = form.loading
          /\ form'.uploading = form.uploading /\ form'.failed = form.failed
      BY <1>k, <2>1 DEF EditedForms
    <2>5. alert.kind # "confirm" /\ ~form.failed
      BY <1>k, <2>1 DEF EditedAt
    <2> QED
      BY <1>k, <2>1, <2>3, <2>4, <2>5, EditedMore
  <1>5. CASE Edited!OpenEdit
    <2>1. PICK p \in Products : /\ form' = [Edited!NoForm EXCEPT !.of = p, !.loading = TRUE]
                                /\ calls' = Edited!Ask(calls, "product", p, None)
      BY <1>5 DEF Edited!OpenEdit
    <2>2. front = "out" /\ front' = "edit" /\ alert' = alert /\ alert.kind = None
      BY <1>5 DEF Edited!OpenEdit
    <2>3. EditedAsk("product", p, None)
      BY DEF EditedAsk
    <2>4. form' \in EditedForms /\ form'.of = p /\ ~form'.submitting /\ form'.uploading = None /\ ~form'.failed
      <3>1. Edited!NoForm \in EditedForms
        BY DEF EditedForms, Edited!NoForm
      <3> QED
        BY <2>1, <3>1 DEF EditedForms, Edited!NoForm
    <2> QED
      BY <1>k, <2>1, <2>2, <2>3, <2>4, EditedMore
  <1>6. CASE Edited!OpenNew
    <2>1. PICK v \in Contents : /\ form' = [Edited!NoForm EXCEPT !.values = v]
                                /\ calls' = Edited!Ask(calls, "categories", None, None)
      BY <1>6 DEF Edited!OpenNew, Edited!Mounted
    <2>2. front = "out" /\ front' = "new" /\ alert' = alert /\ alert.kind = None
      BY <1>6 DEF Edited!OpenNew
    <2>3. EditedAsk("categories", None, None)
      BY DEF EditedAsk
    <2>4. form' \in EditedForms /\ ~form'.submitting /\ form'.uploading = None /\ ~form'.failed /\ ~form'.loading
      <3>1. Edited!NoForm \in EditedForms
        BY DEF EditedForms, Edited!NoForm
      <3> QED
        BY <2>1, <3>1 DEF EditedForms, Edited!NoForm
    <2> QED
      BY <1>k, <2>1, <2>2, <2>3, <2>4, EditedMore, EditedNames
  <1>7. CASE Edited!Type
    BY <1>k, <1>7, EditedTypes DEF Edited!Type, EditedAt
  <1>8. CASE Edited!SubmitEdit
    <2>1. /\ alert' = [Edited!NoAlert EXCEPT !.kind = "confirm", !.new = form.values] /\ front = "edit"
          /\ form.values # None /\ UNCHANGED <<front, form, calls>>
      BY <1>8 DEF Edited!SubmitEdit, Edited!Offers
    <2>2. form.values \in Contents
      BY <1>k, <2>1 DEF EditedForms
    <2>3. alert'.kind = "confirm" /\ alert'.new = form.values
      BY <2>1 DEF Edited!NoAlert
    <2>4. EditedAlert(alert')
      BY <2>2, <2>3 DEF EditedAlert
    <2> QED
      BY <2>1, <2>3, <2>4, EditedTypes
  <1>9. CASE Edited!ConfirmNo
    <2>1. alert' = Edited!NoAlert /\ UNCHANGED <<front, form, calls>>
      BY <1>9 DEF Edited!ConfirmNo
    <2> QED
      BY <2>1, EditedTypes, EditedNoAlert, EditedNames
  <1>10. CASE Edited!Back
    BY <1>k, <1>10, EditedLeaves DEF Edited!Back
  <1>11. CASE Edited!SavedOk
    BY <1>11, EditedLeaves, EditedNoAlert DEF Edited!SavedOk
  <1> QED
    BY <1>1, <1>2, <1>3, <1>4, <1>5, <1>6, <1>7, <1>8, <1>9, <1>10, <1>11 DEF Edited!Tap, Edited!Go

\* An answer that is over.
LEMMA EditedOver ==
    ASSUME EditedInv, NEW c \in calls, calls' = calls \ {c}, UNCHANGED <<content, crossed, front>>,
           alert' = alert, form' \in EditedForms, form'.of = form.of, form'.failed => front = "edit",
           form'.loading => form.loading /\ c.what # "product",
           form'.submitting => form.submitting /\ ~(c.what = "save" /\ c.owner = "form"),
           form'.uploading # None => form.uploading # None /\ c.what # "upload"
    PROVE  EditedInv'
  <1>0. EditedKnown
    BY EditedsKnown
  <1>1. EditedCalls(calls')
    BY <1>0, NumberedFewer DEF EditedKnown, EditedCalls
  <1>2. EditedAt(front', form', alert', calls')
    BY <1>0 DEF EditedKnown, EditedAt
  <1>3. EditedWaits(form', calls')
    BY <1>0 DEF EditedKnown, EditedWaits, EditedHas
  <1> QED
    BY <1>1, <1>2, <1>3, EditedCalm

LEMMA EditedsAnswer ==
    ASSUME EditedInv, NEW c \in calls, Edited!Answer(c), UNCHANGED <<content, crossed>>
    PROVE  EditedInv'
  <1>0. EditedKnown
    BY EditedsKnown
  <1>k. /\ EditedAt(front, form, alert, calls) /\ form \in EditedForms /\ EditedAlert(alert) /\ EditedCall(c)
        /\ (form.failed => front = "edit")
    BY <1>0 DEF EditedKnown, EditedAt, EditedCalls
  <1>1. CASE Edited!Loaded(c)
    <2>1. c.what = "product" /\ front' = front /\ alert' = alert /\ front = "edit" /\ c.reply \in Contents \cup {None}
      BY <1>k, <1>1 DEF Edited!Loaded, EditedAt, EditedCall
    <2>2. CASE c.reply = None
      <3>1. form' = [form EXCEPT !.loading = FALSE, !.failed = TRUE] /\ calls' = calls \ {c}
        BY <1>1, <2>2 DEF Edited!Loaded
      <3>2. /\ form' \in EditedForms /\ form'.of = form.of /\ ~form'.loading /\ form'.submitting = form.submitting
            /\ form'.uploading = form.uploading
        BY <1>k, <3>1 DEF EditedForms
      <3> QED
        BY <2>1, <3>1, <3>2, EditedOver
    <2>3. CASE c.reply # None
      <3>1. PICK f : f = [form EXCEPT !.loading = FALSE, !.initial = c.reply, !.values = c.reply]
        OBVIOUS
      <3>2. /\ f \in EditedForms /\ f.of = form.of /\ ~f.loading /\ f.submitting = form.submitting
            /\ f.uploading = form.uploading
        BY <1>k, <2>1, <3>1 DEF EditedForms
      <3>3. form' = f /\ calls' = Edited!Ask(calls \ {c}, "categories", None, None)
        BY <1>1, <2>3, <3>1 DEF Edited!Loaded, Edited!Mounted
      <3>4. PICK cs : cs = calls \ {c}
        OBVIOUS
      <3>5. EditedCalls(cs)
        BY <1>0, <3>4, NumberedFewer DEF EditedKnown, EditedCalls
      <3>6. EditedAsk("categories", None, None)
        BY DEF EditedAsk
      <3>7. PICK d : Edited!Ask(cs, "categories", None, None) = cs \cup {d} /\ EditedSends(d, cs, "categories")
        BY <3>5, <3>6, EditedAsks
      <3>8. /\ calls' = (calls \ {c}) \cup {d} /\ d.what = "categories" /\ d.owner = "form" /\ d.state = "sent"
            /\ EditedCalls(calls')
        BY <3>3, <3>4, <3>7 DEF EditedSends
      <3>9. EditedAt(front', form', alert', calls')
        BY <1>k, <2>1, <3>2, <3>3, <3>8 DEF EditedAt
      <3>10. EditedWaits(form', calls')
        BY <1>0, <2>1, <3>2, <3>3, <3>8 DEF EditedKnown, EditedWaits, EditedHas
      <3>11. \A e \in calls' : EditedSaved(e) => e \in calls
        BY <3>8 DEF EditedSaved
      <3> QED
        BY <2>1, <3>8, <3>9, <3>10, <3>11, EditedCalm
    <2> QED
      BY <2>2, <2>3
  <1>2. CASE Edited!CategoriesAnswer(c)
    <2>1. c.what = "categories" /\ front' = front /\ alert' = alert /\ calls' = calls \ {c}
      BY <1>2 DEF Edited!CategoriesAnswer
    <2>2. PICK b \in BOOLEAN : b = (c.state = "done")
      OBVIOUS
    <2>3. form' = [form EXCEPT !.options = b]
      BY <1>2, <2>2 DEF Edited!CategoriesAnswer
    <2>4. /\ form' \in EditedForms /\ form'.of = form.of /\ form'.loading = form.loading /\ form'.submitting = form.submitting
          /\ form'.uploading = form.uploading /\ form'.failed = form.failed
      BY <1>k, <2>3 DEF EditedForms
    <2> QED
      BY <1>k, <2>1, <2>4, EditedOver
  <1>3. CASE Edited!Uploaded(c)
    <2>1. c.what = "upload" /\ front' = front /\ alert' = alert /\ calls' = calls \ {c}
      BY <1>3 DEF Edited!Uploaded
    <2>2. PICK v \in Contents \cup {form.values} : form' = [form EXCEPT !.uploading = None, !.values = v]
      BY <1>3 DEF Edited!Uploaded
    <2>3. /\ form' \in EditedForms /\ form'.of = form.of /\ form'.loading = form.loading /\ form'.submitting = form.submitting
          /\ form'.uploading = None /\ form'.failed = form.failed
      BY <1>k, <2>2 DEF EditedForms
    <2> QED
      BY <1>k, <2>1, <2>3, EditedOver
  <1>4. CASE Edited!Saved(c)
    <2>1. c.what = "save" /\ front' = front /\ calls' = calls \ {c} /\ c.state \in {"done", "refused"}
      BY <1>4 DEF Edited!Saved, Edited!Ended
    <2>2. PICK b \in BOOLEAN : b = (form.submitting /\ c.owner # "form")
      OBVIOUS
    <2>3. form' = [form EXCEPT !.submitting = b]
      BY <1>4, <2>2 DEF Edited!Saved
    <2>4. /\ form' \in EditedForms /\ form'.of = form.of /\ form'.loading = form.loading /\ form'.submitting = b
          /\ form'.uploading = form.uploading /\ form'.failed = form.failed
      BY <1>k, <2>3 DEF EditedForms
    <2>5. CASE c.state = "refused"
      <3>1. alert' = alert
        BY <1>4, <2>5 DEF Edited!Saved
      <3> QED
        BY <1>k, <2>1, <2>2, <2>4, <3>1, EditedOver
    <2>6. CASE c.state = "done"
      <3>1. alert'.kind = "saved" /\ alert'.new = c.arg.new /\ alert'.of = c.reply
        BY <1>4, <2>6 DEF Edited!Saved
      <3>2. c.reply \in Products /\ c.arg.new \in Contents
        BY <1>k, <2>1, <2>6 DEF EditedCall
      <3>3. EditedAlert(alert')
        BY <3>1, <3>2 DEF EditedAlert
      <3>4. EditedCalls(calls')
        BY <1>0, <2>1, NumberedFewer DEF EditedKnown, EditedCalls
      <3>5. EditedAt(front', form', alert', calls')
        BY <1>k, <2>1, <2>4, <3>1, <3>3 DEF EditedAt
      <3>6. EditedWaits(form', calls')
        BY <1>0, <2>1, <2>2, <2>4 DEF EditedKnown, EditedWaits, EditedHas
      <3>7. EditedTrue(alert, calls) => EditedTrue(alert, calls)'
        BY <2>1, <2>6, <3>1 DEF EditedTrue
      <3> QED
        BY <1>0, <3>4, <3>5, <3>6, <3>7 DEF EditedKnown, EditedInv, EditedPlace
    <2> QED
      BY <2>1, <2>5, <2>6
  <1> QED
    BY <1>1, <1>2, <1>3, <1>4 DEF Edited!Answer

EditedReplied(d, c, ok, reply, cs) ==
    /\ d.what = c.what /\ d.arg = c.arg /\ d.owner = c.owner /\ d.reply = reply
    /\ (ok => d.state = "done") /\ (~ok => d.state = "refused")
    /\ EditedCalls((cs \ {c}) \cup {d})

LEMMA EditedReplies ==
    ASSUME NEW cs, EditedCalls(cs), NEW c \in cs, NEW ok \in BOOLEAN, NEW reply,
           c.what = "product" => reply \in Contents \cup {None},
           c.what = "save" /\ ok => reply \in Products
    PROVE  \E d : Edited!Handled(cs, c, ok, reply) = (cs \ {c}) \cup {d} /\ EditedReplied(d, c, ok, reply, cs)
  <1> PICK d : d = Replied(c, ok, reply)
    OBVIOUS
  <1>1. EditedCall(c)
    BY DEF EditedCalls
  <1>2. /\ d.what = c.what /\ d.arg = c.arg /\ (ok => d.state = "done") /\ (~ok => d.state = "refused")
        /\ d.reply = reply /\ d.owner = c.owner /\ d.id = c.id /\ EditedCall(d)
    BY <1>1 DEF EditedCall, Replied, States
  <1> PICK ds : ds = (cs \ {c}) \cup {d}
    OBVIOUS
  <1>3. Numbered(ds)
    BY <1>2, NumberedSwap DEF EditedCalls
  <1>4. EditedCalls(ds)
    BY <1>2, <1>3 DEF EditedCalls
  <1>5. EditedReplied(d, c, ok, reply, cs)
    BY <1>2, <1>4 DEF EditedReplied
  <1> QED
    BY <1>5, EditedHandled

LEMMA EditedSwapped ==
    ASSUME EditedKnown, NEW c \in calls, NEW d, d.what = c.what, d.arg = c.arg, d.owner = c.owner,
           calls' = (calls \ {c}) \cup {d}, UNCHANGED <<front, form, alert>>
    PROVE  EditedAt(front', form', alert', calls') /\ EditedWaits(form', calls')
  BY DEF EditedKnown, EditedAt, EditedWaits, EditedHas

LEMMA EditedsServe ==
    ASSUME EditedInv, NEW c \in calls, Edited!Serve(c), UNCHANGED <<front, form, alert>>,
           crossed' = IF c.what = "save" THEN Edited!Cardinality(Edited!Saving) > 1 \/ alert.kind = "saved" ELSE crossed
    PROVE  EditedInv'
  <1>0. EditedKnown
    BY EditedsKnown
  <1>k. /\ content \in [Products -> Contents \cup {None}] /\ EditedCalls(calls) /\ EditedCall(c) /\ c.state = "sent"
        /\ crossed \in BOOLEAN /\ crossed' \in BOOLEAN
    BY <1>0 DEF EditedKnown, EditedCalls, Edited!Serve
  <1>1. CASE c.what # "save"
    <2>1. PICK reply : reply = IF c.what = "product" THEN content[c.arg.of] ELSE None
      OBVIOUS
    <2>2. PICK ok \in BOOLEAN : ok /\ calls' = Edited!Handled(calls, c, ok, reply) /\ content' = content
      BY <1>1, <2>1 DEF Edited!Serve
    <2>3. c.what = "product" => reply \in Contents \cup {None}
      <3> SUFFICES ASSUME c.what = "product" PROVE reply \in Contents \cup {None}
        OBVIOUS
      <3>1. c.arg.of \in Products
        BY <1>k DEF EditedCall
      <3> QED
        BY <1>k, <2>1, <3>1
    <2>4. PICK d : calls' = (calls \ {c}) \cup {d} /\ EditedReplied(d, c, ok, reply, calls)
      BY <1>k, <1>1, <2>2, <2>3, EditedReplies
    <2>5. d.what = c.what /\ d.arg = c.arg /\ d.owner = c.owner /\ EditedCalls(calls')
      BY <2>4 DEF EditedReplied
    <2>6. EditedAt(front', form', alert', calls') /\ EditedWaits(form', calls')
      BY <1>0, <2>4, <2>5, EditedSwapped
    <2>7. \A e \in calls' : EditedSaved(e) => e \in calls
      BY <1>1, <2>4, <2>5 DEF EditedSaved
    <2> QED
      BY <1>1, <2>2, <2>5, <2>6, <2>7, EditedCalm
  <1>2. CASE c.what = "save"
    <2>1. c.arg.of \in Products \cup {None} /\ c.arg.new \in Contents
      BY <1>k, <1>2 DEF EditedCall
    \* Of whichever product it is, that product is what was sent.
    <2>2. PICK ok \in BOOLEAN, reply \in Products \cup {None} :
             /\ calls' = Edited!Handled(calls, c, ok, reply)
             /\ ok => reply \in Products /\ content' = [content EXCEPT ![reply] = c.arg.new]
             /\ ~ok => content' = content
      <3>1. CASE c.arg.of = None
        <4>1. PICK p \in Products, ok \in BOOLEAN : /\ ok /\ content' = [content EXCEPT ![p] = c.arg.new]
                                                    /\ calls' = Edited!Handled(calls, c, ok, p)
          BY <1>2, <3>1 DEF Edited!Serve
        <4> QED
          BY <4>1
      <3>2. CASE c.arg.of # None
        <4>1. PICK ok \in BOOLEAN : ok <=> c.arg.of \in Edited!Live
          OBVIOUS
        <4>2. PICK reply : reply = IF ok THEN c.arg.of ELSE None
          OBVIOUS
        <4>3. /\ calls' = Edited!Handled(calls, c, ok, reply)
              /\ content' = IF ok THEN [content EXCEPT ![c.arg.of] = c.arg.new] ELSE content
          BY <1>2, <3>2, <4>1, <4>2 DEF Edited!Serve
        <4> QED
          BY <2>1, <3>2, <4>2, <4>3
      <3> QED
        BY <3>1, <3>2
    <2>3. content' \in [Products -> Contents \cup {None}]
      BY <1>k, <2>1, <2>2
    <2>4. PICK d : calls' = (calls \ {c}) \cup {d} /\ EditedReplied(d, c, ok, reply, calls)
      BY <1>k, <1>2, <2>2, EditedReplies
    <2>5. /\ d.what = c.what /\ d.arg = c.arg /\ d.owner = c.owner /\ d.reply = reply /\ EditedCalls(calls')
          /\ (~ok => d.state = "refused")
      BY <2>4 DEF EditedReplied
    <2>6. EditedAt(front', form', alert', calls') /\ EditedWaits(form', calls')
      BY <1>0, <2>4, <2>5, EditedSwapped
    <2>7. ASSUME ~crossed' PROVE EditedTrue(alert, calls)'
      <3>1. ~(Edited!Cardinality(Edited!Saving) > 1) /\ alert.kind # "saved"
        BY <1>2, <2>7
      <3>2. Edited!Saving = {c}
        <4>1. IsFiniteSet(Edited!Saving) /\ c \in Edited!Saving
          BY <1>k, <1>2, FS_Subset DEF Edited!Saving, EditedCalls, Numbered
        <4>2. Edited!Cardinality(Edited!Saving) = Cardinality(Edited!Saving)
          BY DEF Edited!Cardinality, Cardinality
        <4>3. IsFiniteSet(Edited!Saving \ {c}) /\ Cardinality(Edited!Saving \ {c}) = Cardinality(Edited!Saving) - 1
          BY <4>1, FS_RemoveElement
        <4>4. Cardinality(Edited!Saving \ {c}) \in Nat /\ Cardinality(Edited!Saving) \in Nat
          BY <4>1, <4>3, FS_CardinalityType
        <4>5. Cardinality(Edited!Saving \ {c}) = 0
          BY <3>1, <4>2, <4>3, <4>4
        <4>6. Edited!Saving \ {c} = {}
          BY <4>3, <4>5, FS_EmptySet
        <4> QED
          BY <4>1, <4>6
      <3>3. \A e \in calls' : e.what = "save" /\ e.state = "done" => e = d
        BY <2>4, <3>2 DEF Edited!Saving
      <3>4. d.state = "done" => content'[d.reply] = d.arg.new
        BY <1>k, <2>2, <2>5
      <3> QED
        BY <3>1, <3>3, <3>4 DEF EditedTrue
    <2> QED
      BY <1>k, <2>3, <2>5, <2>6, <2>7 DEF EditedInv, EditedPlace
  <1> QED
    BY <1>1, <1>2

LEMMA EditedsLose ==
    ASSUME EditedInv, NEW c \in calls, Edited!Lose(c), UNCHANGED <<content, front, form, alert, crossed>>
    PROVE  EditedInv'
  <1>0. EditedKnown
    BY EditedsKnown
  <1>1. PICK ok \in BOOLEAN : ~ok /\ calls' = Edited!Handled(calls, c, ok, None)
    BY DEF Edited!Lose
  <1>2. PICK d : calls' = (calls \ {c}) \cup {d} /\ EditedReplied(d, c, ok, None, calls)
    BY <1>0, <1>1, EditedReplies DEF EditedKnown
  <1>3. /\ d.what = c.what /\ d.arg = c.arg /\ d.owner = c.owner /\ d.state = "refused" /\ EditedCalls(calls')
    BY <1>1, <1>2 DEF EditedReplied
  <1>4. EditedAt(front', form', alert', calls') /\ EditedWaits(form', calls')
    BY <1>0, <1>2, <1>3, EditedSwapped
  <1>5. \A e \in calls' : EditedSaved(e) => e \in calls
    BY <1>2, <1>3 DEF EditedSaved
  <1> QED
    BY <1>3, <1>4, <1>5, EditedCalm

LEMMA EditedSteps == ASSUME EditedInv, Edited!Next PROVE EditedInv'
  <1>1. CASE ((Edited!MayAct /\ Edited!Tap) \/ Edited!Go) /\ UNCHANGED <<content, crossed>>
    BY <1>1, EditedsTap
  <1>2. ASSUME NEW c \in calls, Edited!Answer(c), UNCHANGED <<content, crossed>> PROVE EditedInv'
    BY <1>2, EditedsAnswer
  <1>3. ASSUME NEW c \in calls, Edited!Lose(c), UNCHANGED <<content, front, form, alert, crossed>> PROVE EditedInv'
    BY <1>3, EditedsLose
  <1>4. ASSUME NEW c \in calls, Edited!Serve(c), UNCHANGED <<front, form, alert>>,
               crossed' = IF c.what = "save" THEN Edited!Cardinality(Edited!Saving) > 1 \/ alert.kind = "saved" ELSE crossed
        PROVE  EditedInv'
    BY <1>4, EditedsServe
  <1>5. ASSUME NEW p \in Products, Edited!Others(p), crossed' = TRUE PROVE EditedInv'
    <2>1. PICK v \in Contents \cup {None} : content' = [content EXCEPT ![p] = v]
      BY <1>5 DEF Edited!Others
    <2>2. UNCHANGED <<front, form, alert, calls>>
      BY <1>5 DEF Edited!Others, Edited!screens
    <2> QED
      BY <1>5, <2>1, <2>2 DEF EditedInv, EditedPlace
  <1> QED
    BY <1>1, <1>2, <1>3, <1>4, <1>5 DEF Edited!Next, Edited!screens

LEMMA EditedStart == Edited!Init => EditedInv
  <1> SUFFICES ASSUME Edited!Init PROVE EditedInv
    OBVIOUS
  <1>1. EditedCalls(calls)
    BY FS_EmptySet DEF EditedCalls, Numbered, Edited!Init
  <1>2. /\ form \in EditedForms /\ ~form.failed /\ ~form.loading /\ ~form.submitting /\ form.uploading = None
        /\ EditedAlert(alert) /\ alert.kind = None
    BY DEF Edited!Init, Edited!NoForm, Edited!NoAlert, EditedForms, EditedAlert
  <1>3. EditedAt(front, form, alert, calls)
    BY <1>2, EditedNames DEF EditedAt, Edited!Init
  <1> QED
    BY <1>1, <1>2, <1>3, EditedNames DEF EditedInv, EditedPlace, EditedWaits, EditedTrue, Edited!Init

LEMMA EditedHold == ASSUME EditedInv PROVE Edited!TypeOK /\ Edited!ShowsServer /\ Edited!SpinnerHasCall
  <1>0. EditedKnown
    BY EditedsKnown
  <1>1. Edited!TypeOK
    <2>1. alert.kind \in {None, "confirm", "saved"}
      BY <1>0, EditedNoAlert DEF EditedKnown, EditedAt, EditedAlert
    <2> QED
      BY <1>0, <2>1 DEF EditedKnown, EditedAt, EditedForms, EditedCalls, Numbered, Edited!TypeOK
  <1>2. Edited!ShowsServer
    BY DEF EditedInv, EditedTrue, Edited!ShowsServer
  <1>3. Edited!SpinnerHasCall
    BY <1>0 DEF EditedKnown, EditedWaits, EditedHas, Edited!SpinnerHasCall
  <1> QED
    BY <1>1, <1>2, <1>3

-----------------------------------------------------------------------------
(* The settings of the shop.                                               *)

SettingsPages == [front : BOOLEAN, refreshing : BOOLEAN, saving : BOOLEAN, switching : BOOLEAN,
                  uploading : BOOLEAN, shop : Settings!Row \cup {None}, trading : BOOLEAN,
                  values : Contents \cup {None}]
SettingsAlerts == [kind : {None, "confirm"}, new : Contents \cup {None}]
SettingsCall(c, f) ==
    /\ c \in [id : Nat, owner : {"shop", "gone"}, what : {c.what}, arg : {c.arg}, state : States,
              reply : Settings!Row \cup {None}]
    /\ c.owner = "shop" <=> f
    /\ c.state = "refused" => c.reply = None
    /\ \/ c.what = "read" /\ c.owner = "shop" /\ c.arg \in {"focus", "refresh", "save"}
       \/ c.what = "save" /\ c.arg \in Contents
       \/ c.what = "switch" /\ c.arg \in [to : BOOLEAN, back : BOOLEAN]
       \/ c.what = "upload" /\ c.owner = "shop"
SettingsCalls(cs, f) == Numbered(cs) /\ \A c \in cs : SettingsCall(c, f)
SettingsPlace(r, p, a, x) ==
    /\ r \in Settings!Row /\ p \in SettingsPages /\ x \in BOOLEAN /\ a \in SettingsAlerts
    /\ a.kind = "confirm" => a.new \in Contents /\ p.front
SettingsReading(cs) == \E c \in cs : c.what = "read"
SettingsWaits(p, cs) ==
    /\ p.refreshing => \E c \in cs : c.what = "read" /\ c.arg = "refresh"
    /\ p.switching => \E c \in cs : c.what = "switch" /\ c.owner = "shop"
    /\ p.saving => \E c \in cs : \/ c.what = "save" /\ c.owner = "shop"
                                 \/ c.what = "read" /\ c.arg = "save"
    /\ p.uploading => \E c \in cs : c.what = "upload"
\* The switch is off while it is being set.
SettingsOne(p, cs) ==
    \A c \in cs : c.what = "switch" /\ c.owner = "shop" =>
       p.switching /\ \A d \in cs : d.what = "switch" /\ d.owner = "shop" => d = c
\* The switch stands as it will, once the server has been told.
SettingsTold(p, r, cs) ==
    \/ p.trading = r.trading /\ \A c \in cs : c.what = "switch" => c.state = "done"
    \/ \E c \in cs : c.what = "switch" /\ c.state # "done" /\ p.trading = c.arg.to /\ r.trading = ~c.arg.to
SettingsShown(p, r, cs) ==
    \/ p.shop = None \/ SettingsReading(cs)
    \/ /\ p.shop.content = r.content \/ \E c \in cs : c.what = "save" /\ c.state = "done"
       /\ SettingsTold(p, r, cs)
SettingsTrue(p, r, cs) ==
    /\ \A c \in cs : c.what = "read" /\ c.state = "done" => c.reply = r
    /\ SettingsShown(p, r, cs)
SettingsFits(p, cs) == SettingsCalls(cs, p.front) /\ SettingsWaits(p, cs) /\ SettingsOne(p, cs)
SettingsInv == /\ SettingsPlace(row, page, alert, crossed) /\ SettingsFits(page, calls)
               /\ crossed \/ ~page.front \/ SettingsTrue(page, row, calls)

LEMMA SettingsNames == None # "confirm"
  BY NoneAssumption

LEMMA SettingsRequest ==
    ASSUME NEW cs, NEW owner, NEW what, NEW arg
    PROVE  Settings!Request(cs, owner, what, arg) = Made(cs, owner, what, arg)
  BY DEF Settings!Request, Settings!NewId, Settings!Cardinality, Made, FreeId, Cardinality

LEMMA SettingsHandled ==
    ASSUME NEW cs, NEW c, NEW ok, NEW reply
    PROVE  Settings!Handled(cs, c, ok, reply) = (cs \ {c}) \cup {Replied(c, ok, reply)}
  BY DEF Settings!Handled, Replied

SettingsAsk(what, arg) == \/ what = "read" /\ arg \in {"focus", "refresh", "save"}
                          \/ what = "save" /\ arg \in Contents
                          \/ what = "switch" /\ arg \in [to : BOOLEAN, back : BOOLEAN]
                          \/ what = "upload"
SettingsSends(c, cs, f, what, arg) ==
    c.what = what /\ c.arg = arg /\ c.owner = "shop" /\ c.state = "sent" /\ SettingsCalls(cs \cup {c}, f)

LEMMA SettingsAsks ==
    ASSUME NEW cs, NEW f, f, SettingsCalls(cs, f), NEW what, NEW arg, SettingsAsk(what, arg)
    PROVE  \E c : Settings!Ask(cs, what, arg) = cs \cup {c} /\ SettingsSends(c, cs, f, what, arg)
  <1> PICK i : i = FreeId(cs)
    OBVIOUS
  <1> PICK c : c = [id |-> i, owner |-> "shop", what |-> what, arg |-> arg, state |-> "sent", reply |-> None]
    OBVIOUS
  <1>1. New(cs, c.id)
    BY FreeIsNew DEF SettingsCalls
  <1>2. SettingsCall(c, f)
    BY <1>1 DEF SettingsCall, SettingsAsk, New, States
  <1> PICK ds : ds = cs \cup {c}
    OBVIOUS
  <1>3. Numbered(ds)
    BY <1>1, NumberedMore DEF SettingsCalls
  <1>4. SettingsCalls(ds, f)
    BY <1>2, <1>3 DEF SettingsCalls
  <1>5. Settings!Ask(cs, what, arg) = ds
    BY SettingsRequest DEF Settings!Ask, Made
  <1> QED
    BY <1>4, <1>5 DEF SettingsSends

LEMMA SettingsFewer ==
    ASSUME NEW cs, NEW f, SettingsCalls(cs, f), NEW ds, ds \subseteq cs
    PROVE  SettingsCalls(ds, f)
  BY NumberedFewer DEF SettingsCalls

SettingsKeeps(p, q, what, arg) ==
    /\ q.front = p.front /\ q.shop = p.shop /\ q.trading = p.trading /\ q.switching = p.switching
    /\ q.refreshing => p.refreshing \/ (what = "read" /\ arg = "refresh")
    /\ q.saving => p.saving \/ what = "save"
    /\ q.uploading => p.uploading \/ what = "upload"

\* A page that asks for one thing more, of the server or of itself.
LEMMA SettingsMore ==
    ASSUME SettingsInv, page.front, NEW what, NEW arg, SettingsAsk(what, arg), what # "switch",
           calls' = Settings!Ask(calls, what, arg), UNCHANGED <<row, crossed>>, SettingsPlace(row', page', alert', crossed'),
           SettingsKeeps(page, page', what, arg)
    PROVE  SettingsInv'
  <1>1. SettingsCalls(calls, page.front)
    BY DEF SettingsInv, SettingsFits
  <1>2. PICK c : Settings!Ask(calls, what, arg) = calls \cup {c} /\ SettingsSends(c, calls, page.front, what, arg)
    BY <1>1, SettingsAsks
  <1>3. /\ calls' = calls \cup {c} /\ c.what = what /\ c.arg = arg /\ c.owner = "shop" /\ c.state = "sent"
        /\ SettingsCalls(calls', page'.front)
    BY <1>2 DEF SettingsSends, SettingsKeeps
  <1>4. SettingsFits(page', calls')
    <2>1. SettingsWaits(page', calls')
      BY <1>3 DEF SettingsInv, SettingsFits, SettingsWaits, SettingsKeeps
    <2>2. SettingsOne(page', calls')
      BY <1>3 DEF SettingsInv, SettingsFits, SettingsOne, SettingsKeeps
    <2> QED
      BY <1>3, <2>1, <2>2 DEF SettingsFits
  <1>5. SettingsTrue(page, row, calls) => SettingsTrue(page', row', calls')
    BY <1>3 DEF SettingsKeeps, SettingsTrue, SettingsShown, SettingsReading, SettingsTold
  <1> QED
    BY <1>4, <1>5 DEF SettingsInv, SettingsKeeps

LEMMA SettingsSame ==
    ASSUME SettingsInv, UNCHANGED <<row, crossed, calls>>, SettingsPlace(row', page', alert', crossed'),
           page' = page \/ \E v \in Contents : page' = [page EXCEPT !.values = v]
    PROVE  SettingsInv'
  <1>1. page \in SettingsPages
    BY DEF SettingsInv, SettingsPlace
  <1>2. /\ page'.front = page.front /\ page'.shop = page.shop /\ page'.trading = page.trading
        /\ page'.switching = page.switching /\ page'.refreshing = page.refreshing /\ page'.saving = page.saving
        /\ page'.uploading = page.uploading
    BY <1>1 DEF SettingsPages
  <1>3. SettingsFits(page', calls')
    BY <1>2 DEF SettingsInv, SettingsFits, SettingsWaits, SettingsOne
  <1>4. SettingsTrue(page, row, calls) => SettingsTrue(page', row', calls')
    BY <1>2 DEF SettingsTrue, SettingsShown, SettingsReading, SettingsTold
  <1> QED
    BY <1>2, <1>3, <1>4 DEF SettingsInv

\* An answer that is over and tells nothing of the shop.
LEMMA SettingsOver ==
    ASSUME SettingsInv, NEW c \in calls, calls' = calls \ {c}, c.what \in {"upload", "save"}, c.what = "save" => c.state # "done" \/ ~page.front,
           UNCHANGED <<row, crossed, alert>>, page' \in SettingsPages,
           page'.front = page.front, page'.shop = page.shop, page'.trading = page.trading, page'.switching = page.switching,
           page'.refreshing = page.refreshing, page'.saving => page.saving /\ ~(c.what = "save" /\ c.owner = "shop"),
           page'.uploading => page.uploading /\ c.what # "upload"
    PROVE  SettingsInv'
  <1>1. SettingsPlace(row', page', alert', crossed')
    BY DEF SettingsInv, SettingsPlace
  <1>2. SettingsCalls(calls', page'.front)
    BY SettingsFewer DEF SettingsInv, SettingsFits
  <1>3. SettingsWaits(page', calls')
    BY DEF SettingsInv, SettingsFits, SettingsWaits
  <1>4. SettingsOne(page', calls')
    BY DEF SettingsInv, SettingsFits, SettingsOne
  <1>5. page.front /\ SettingsTrue(page, row, calls) => SettingsTrue(page', row', calls')
    BY DEF SettingsTrue, SettingsShown, SettingsReading, SettingsTold
  <1> QED
    BY <1>1, <1>2, <1>3, <1>4, <1>5 DEF SettingsInv, SettingsFits

\* Of a page that is left the saves and the switch go on.
LEMMA SettingsGone ==
    ASSUME NEW cs, NEW f, SettingsCalls(cs, f), NEW ds, NEW h, ~h,
           ds = {[c EXCEPT !.owner = "gone"] : c \in {d \in cs : d.what \in {"save", "switch"}}}
    PROVE  SettingsCalls(ds, h) /\ \A d \in ds : d.owner = "gone"
  <1>1. PICK S : S = {d \in cs : d.what \in {"save", "switch"}}
    OBVIOUS
  <1>2. PICK g : g = [c \in S |-> [c EXCEPT !.owner = "gone"]]
    OBVIOUS
  <1>3. ds = {g[c] : c \in S}
    BY <1>1, <1>2
  <1>5. ASSUME NEW c \in S
        PROVE  g[c].id = c.id /\ g[c].owner = "gone" /\ SettingsCall(g[c], h)
    <2>1. SettingsCall(c, f) /\ c.what \in {"save", "switch"}
      BY <1>1 DEF SettingsCalls
    <2>2. PICK d : d = g[c]
      OBVIOUS
    <2>3. d = [c EXCEPT !.owner = "gone"]
      BY <1>2, <2>2
    <2>4. d.id = c.id /\ d.owner = "gone" /\ SettingsCall(d, h)
      BY <2>1, <2>3 DEF SettingsCall
    <2> QED
      BY <2>2, <2>4
  <1>6. Numbered(cs) /\ S \subseteq cs
    BY <1>1 DEF SettingsCalls
  <1>7. (\A d \in ds : \E c \in S : d = g[c]) /\ \A c \in S : g[c] \in ds
    BY <1>3
  <1>8. Numbered(ds)
    BY <1>5, <1>6, <1>7, NumberedLeft
  <1> QED
    BY <1>5, <1>7, <1>8 DEF SettingsCalls

LEMMA SettingsNew ==
    /\ Settings!NewPage \in SettingsPages /\ Settings!NoAlert \in SettingsAlerts
    /\ Settings!NoAlert.kind = None /\ Settings!NewPage.shop = None /\ ~Settings!NewPage.front
    /\ ~Settings!NewPage.refreshing /\ ~Settings!NewPage.saving /\ ~Settings!NewPage.switching /\ ~Settings!NewPage.uploading
  BY DEF Settings!NewPage, Settings!NoAlert, SettingsPages, SettingsAlerts

LEMMA SettingsGoes ==
    ASSUME SettingsInv, Settings!Go, UNCHANGED <<row, crossed>>
    PROVE  SettingsInv'
  <1>k. SettingsPlace(row, page, alert, crossed) /\ page \in SettingsPages /\ SettingsCalls(calls, page.front)
    BY DEF SettingsInv, SettingsPlace, SettingsFits
  <1>1. CASE Settings!Open
    <2>1. PICK what \in {"read"}, arg \in {"focus"} :
            /\ page' = [Settings!NewPage EXCEPT !.front = TRUE] /\ calls' = Settings!Ask(calls, what, arg)
      BY <1>1 DEF Settings!Open, Settings!Load
    <2>2. calls = {} /\ alert' = alert
      BY <1>1 DEF Settings!Open
    <2>3. /\ page' \in SettingsPages /\ page'.front /\ page'.shop = None /\ ~page'.refreshing /\ ~page'.saving
          /\ ~page'.switching /\ ~page'.uploading
      BY <2>1, SettingsNew DEF SettingsPages
    <2>4. SettingsAsk(what, arg)
      BY <2>1 DEF SettingsAsk
    <2>5. SettingsCalls(calls, page'.front)
      BY <1>k, <2>2 DEF SettingsCalls
    <2>6. PICK c : Settings!Ask(calls, what, arg) = calls \cup {c} /\ SettingsSends(c, calls, page'.front, what, arg)
      BY <2>3, <2>4, <2>5, SettingsAsks
    <2>7. calls' = {c} /\ c.what = "read" /\ c.state = "sent" /\ SettingsCalls(calls', page'.front)
      BY <2>1, <2>2, <2>6 DEF SettingsSends
    <2>8. SettingsFits(page', calls')
      BY <2>3, <2>7 DEF SettingsFits, SettingsWaits, SettingsOne
    <2>9. SettingsTrue(page', row', calls')
      BY <2>3, <2>7 DEF SettingsTrue, SettingsShown
    <2>10. SettingsPlace(row', page', alert', crossed')
      BY <1>k, <2>2, <2>3 DEF SettingsPlace
    <2> QED
      BY <2>8, <2>9, <2>10 DEF SettingsInv
  <1>2. CASE Settings!Leave
    <2>1. /\ alert.kind = None /\ page' = Settings!NewPage /\ alert' = alert
          /\ calls' = {[c EXCEPT !.owner = "gone"] : c \in {d \in calls : d.what \in {"save", "switch"}}}
      BY <1>2 DEF Settings!Leave
    <2>2. SettingsPlace(row', page', alert', crossed')
      BY <1>k, <2>1, SettingsNames, SettingsNew DEF SettingsPlace
    <2>3. SettingsCalls(calls', page'.front) /\ \A d \in calls' : d.owner = "gone"
      BY <1>k, <2>1, SettingsGone, SettingsNew
    <2>4. SettingsFits(page', calls')
      BY <2>1, <2>3, SettingsNew DEF SettingsFits, SettingsWaits, SettingsOne
    <2> QED
      BY <2>1, <2>2, <2>4, SettingsNew DEF SettingsInv
  <1>3. CASE Settings!Type
    <2>1. PICK v \in Contents : page' = [page EXCEPT !.values = v] /\ UNCHANGED <<alert, calls>>
      BY <1>3 DEF Settings!Type
    <2>2. page' \in SettingsPages /\ page'.front = page.front
      BY <1>k, <2>1 DEF SettingsPages
    <2>3. SettingsPlace(row', page', alert', crossed')
      BY <1>k, <2>1, <2>2 DEF SettingsPlace
    <2> QED
      BY <2>1, <2>3, SettingsSame
  <1>4. CASE Settings!Save
    <2>1. /\ page.front /\ page.values # None /\ UNCHANGED <<page, calls>>
          /\ alert' = [kind |-> "confirm", new |-> page.values]
      BY <1>4 DEF Settings!Save, Settings!Offers
    <2>2. alert' \in SettingsAlerts /\ alert'.new \in Contents
      BY <1>k, <2>1 DEF SettingsPages, SettingsAlerts
    <2>3. SettingsPlace(row', page', alert', crossed')
      BY <1>k, <2>1, <2>2 DEF SettingsPlace
    <2> QED
      BY <2>1, <2>3, SettingsSame
  <1>5. CASE Settings!ConfirmNo
    <2>1. UNCHANGED <<page, calls>> /\ alert' = Settings!NoAlert
      BY <1>5 DEF Settings!ConfirmNo
    <2>2. SettingsPlace(row', page', alert', crossed')
      BY <1>k, <2>1, SettingsNew, SettingsNames DEF SettingsPlace
    <2> QED
      BY <2>1, <2>2, SettingsSame
  <1> QED
    BY <1>1, <1>2, <1>3, <1>4, <1>5 DEF Settings!Go

LEMMA SettingsTaps ==
    ASSUME SettingsInv, Settings!Tap, UNCHANGED <<row, crossed>>
    PROVE  SettingsInv'
  <1>k. SettingsPlace(row, page, alert, crossed) /\ page \in SettingsPages /\ SettingsCalls(calls, page.front)
    BY DEF SettingsInv, SettingsPlace, SettingsFits
  <1>1. CASE Settings!Refresh
    <2>1. PICK what \in {"read"}, arg \in {"refresh"} :
            /\ page' = [page EXCEPT !.refreshing = TRUE] /\ calls' = Settings!Ask(calls, what, arg)
      BY <1>1 DEF Settings!Refresh, Settings!Load
    <2>2. page.front /\ alert' = alert
      BY <1>1 DEF Settings!Refresh, Settings!Offers
    <2>3. /\ page' \in SettingsPages /\ page'.front = page.front /\ page'.shop = page.shop /\ page'.trading = page.trading
          /\ page'.switching = page.switching /\ page'.saving = page.saving /\ page'.uploading = page.uploading
      BY <1>k, <2>1 DEF SettingsPages
    <2>6. SettingsKeeps(page, page', what, arg)
      BY <2>1, <2>3 DEF SettingsKeeps
    <2>4. SettingsAsk(what, arg)
      BY <2>1 DEF SettingsAsk
    <2>5. SettingsPlace(row', page', alert', crossed')
      BY <1>k, <2>2, <2>3 DEF SettingsPlace
    <2> QED
      BY <2>1, <2>2, <2>4, <2>5, <2>6, SettingsMore
  <1>2. CASE Settings!PickImage
    <2>1. PICK what \in {"upload"} : page' = [page EXCEPT !.uploading = TRUE] /\ calls' = Settings!Ask(calls, what, None)
      BY <1>2 DEF Settings!PickImage
    <2>2. page.front /\ alert' = alert
      BY <1>2 DEF Settings!PickImage, Settings!MayUpload, Settings!Offers
    <2>3. /\ page' \in SettingsPages /\ page'.front = page.front /\ page'.shop = page.shop /\ page'.trading = page.trading
          /\ page'.switching = page.switching /\ page'.saving = page.saving /\ page'.refreshing = page.refreshing
      BY <1>k, <2>1 DEF SettingsPages
    <2>6. SettingsKeeps(page, page', what, None)
      BY <2>1, <2>3 DEF SettingsKeeps
    <2>4. SettingsAsk(what, None)
      BY <2>1 DEF SettingsAsk
    <2>5. SettingsPlace(row', page', alert', crossed')
      BY <1>k, <2>2, <2>3 DEF SettingsPlace
    <2> QED
      BY <2>1, <2>2, <2>4, <2>5, <2>6, SettingsMore
  <1>3. CASE Settings!ConfirmYes
    <2>1. PICK what \in {"save"} : page' = [page EXCEPT !.saving = TRUE] /\ calls' = Settings!Ask(calls, what, alert.new)
      BY <1>3 DEF Settings!ConfirmYes
    <2>2. page.front /\ alert' = Settings!NoAlert /\ alert.new \in Contents
      BY <1>k, <1>3 DEF Settings!ConfirmYes, SettingsPlace
    <2>3. /\ page' \in SettingsPages /\ page'.front = page.front /\ page'.shop = page.shop /\ page'.trading = page.trading
          /\ page'.switching = page.switching /\ page'.uploading = page.uploading /\ page'.refreshing = page.refreshing
      BY <1>k, <2>1 DEF SettingsPages
    <2>6. SettingsKeeps(page, page', what, alert.new)
      BY <2>1, <2>3 DEF SettingsKeeps
    <2>4. SettingsAsk(what, alert.new)
      BY <2>1, <2>2 DEF SettingsAsk
    <2>5. SettingsPlace(row', page', alert', crossed')
      BY <1>k, <2>2, <2>3, SettingsNew, SettingsNames DEF SettingsPlace
    <2> QED
      BY <2>1, <2>2, <2>4, <2>5, <2>6, SettingsMore
  <1>4. CASE Settings!Switch
    <2>1. page.front /\ ~page.switching /\ alert' = alert
      BY <1>4 DEF Settings!Switch, Settings!Offers
    <2>2. PICK b \in BOOLEAN : b <=> Settings!Back(page)
      OBVIOUS
    <2>3. Settings!Back(page) = b
      BY <1>k, <2>2 DEF Settings!Back, SettingsPages, Settings!Row
    <2>4. PICK t \in BOOLEAN : t = ~page.trading
      BY <1>k DEF SettingsPages
    <2>5. PICK arg : arg = [to |-> t, back |-> b]
      OBVIOUS
    <2>6. PICK what \in {"switch"} : page' = [page EXCEPT !.trading = t, !.switching = TRUE] /\ calls' = Settings!Ask(calls, what, arg)
      BY <1>4, <2>3, <2>4, <2>5 DEF Settings!Switch
    <2>7. /\ page' \in SettingsPages /\ page'.front = page.front /\ page'.shop = page.shop /\ page'.trading = t /\ page'.switching
          /\ page'.saving = page.saving /\ page'.uploading = page.uploading /\ page'.refreshing = page.refreshing
      BY <1>k, <2>6 DEF SettingsPages
    <2>8. SettingsAsk(what, arg)
      BY <2>5, <2>6 DEF SettingsAsk
    <2>9. SettingsPlace(row', page', alert', crossed')
      BY <1>k, <2>1, <2>7 DEF SettingsPlace
    <2>10. PICK c : Settings!Ask(calls, what, arg) = calls \cup {c} /\ SettingsSends(c, calls, page.front, what, arg)
      BY <1>k, <2>1, <2>8, SettingsAsks
    <2>11. /\ calls' = calls \cup {c} /\ c.what = "switch" /\ c.arg = arg /\ c.arg.to = t /\ c.owner = "shop" /\ c.state = "sent"
           /\ SettingsCalls(calls', page'.front)
      BY <2>5, <2>6, <2>7, <2>10 DEF SettingsSends
    <2>12. \A d \in calls : d.what # "switch"
      BY <1>k, <2>1 DEF SettingsInv, SettingsFits, SettingsOne, SettingsCalls, SettingsCall
    <2>13. SettingsFits(page', calls')
      BY <2>7, <2>11, <2>12 DEF SettingsInv, SettingsFits, SettingsWaits, SettingsOne
    <2>14. row.trading \in BOOLEAN /\ page.trading \in BOOLEAN
      BY <1>k DEF SettingsPlace, Settings!Row, SettingsPages
    <2>15. SettingsTold(page, row, calls) => SettingsTold(page', row', calls')
      BY <2>4, <2>7, <2>11, <2>12, <2>14 DEF SettingsTold
    <2>16. SettingsTrue(page, row, calls) => SettingsTrue(page', row', calls')
      BY <2>7, <2>11, <2>15 DEF SettingsTrue, SettingsShown, SettingsReading
    <2> QED
      BY <2>1, <2>9, <2>13, <2>16 DEF SettingsInv
  <1> QED
    BY <1>1, <1>2, <1>3, <1>4 DEF Settings!Tap

LEMMA SettingsAnswer ==
    ASSUME SettingsInv, NEW c \in calls, Settings!Answer(c), UNCHANGED row,
           crossed' = (crossed \/ (c.what = "switch" /\ c.owner = "shop" /\ c.state = "refused" /\ c.arg.back = c.arg.to)
                              \/ (c.what = "read" /\ \E d \in calls : d.what = "switch" /\ d.owner = "shop"))
    PROVE  SettingsInv'
  <1>k. /\ SettingsPlace(row, page, alert, crossed) /\ row \in Settings!Row /\ page \in SettingsPages
        /\ SettingsCalls(calls, page.front) /\ SettingsCall(c, page.front) /\ crossed' \in BOOLEAN
    BY DEF SettingsInv, SettingsPlace, SettingsFits, SettingsCalls
  <1>l. SettingsCalls(calls \ {c}, page.front)
    BY <1>k, SettingsFewer
  <1>w. SettingsWaits(page, calls) /\ SettingsOne(page, calls)
    BY DEF SettingsInv, SettingsFits
  <1>1. CASE Settings!Read(c)
    <2>0. c.what = "read" /\ c.state \in {"done", "refused"} /\ calls' = calls \ {c} /\ alert' = alert
      BY <1>1 DEF Settings!Read, Settings!Ended
    <2>1. PICK b \in BOOLEAN : b = (IF c.reply = None THEN TRUE ELSE c.reply.trading)
      BY <1>k DEF SettingsCall, Settings!Row
    <2>2. PICK v \in Contents \cup {None} : v = IF c.reply = None THEN None ELSE c.reply.content
      BY <1>k DEF SettingsCall, Settings!Row
    <2>3. PICK r \in BOOLEAN : r <=> page.refreshing /\ c.arg # "refresh"
      OBVIOUS
    <2>4. PICK s \in BOOLEAN : s <=> page.saving /\ c.arg # "save"
      OBVIOUS
    <2>5. page' = [page EXCEPT !.shop = c.reply, !.trading = b, !.values = v, !.refreshing = r, !.saving = s]
      BY <1>1, <1>k, <2>1, <2>2, <2>3, <2>4 DEF Settings!Read, SettingsPages
    <2>6. c.reply \in Settings!Row \cup {None}
      BY <1>k DEF SettingsCall
    <2>7. /\ page' \in SettingsPages /\ page'.front = page.front /\ page'.shop = c.reply /\ page'.trading = b
          /\ page'.refreshing = r /\ page'.saving = s /\ page'.uploading = page.uploading /\ page'.switching = page.switching
      BY <1>k, <2>5, <2>6 DEF SettingsPages
    <2>8. SettingsPlace(row', page', alert', crossed')
      BY <1>k, <2>0, <2>7 DEF SettingsPlace
    <2>9. SettingsWaits(page', calls')
      BY <1>w, <2>0, <2>3, <2>4, <2>7 DEF SettingsWaits
    <2>10. SettingsOne(page', calls')
      BY <1>w, <2>0, <2>7 DEF SettingsOne
    <2>11. ASSUME ~crossed', page.front PROVE SettingsTrue(page', row', calls')
      <3>1. SettingsTrue(page, row, calls) /\ \A d \in calls : d.what # "switch"
        BY <1>k, <2>0, <2>11 DEF SettingsInv, SettingsCalls, SettingsCall
      <3>2. c.reply = None \/ c.reply = row
        BY <1>k, <2>0, <3>1 DEF SettingsTrue, SettingsCall
      <3>3. page'.shop = None \/ (page'.shop = row /\ page'.trading = row.trading)
        BY <2>1, <2>7, <3>2
      <3> QED
        BY <2>0, <3>1, <3>3 DEF SettingsTrue, SettingsShown, SettingsTold
    <2> QED
      BY <1>l, <2>0, <2>7, <2>8, <2>9, <2>10, <2>11 DEF SettingsInv, SettingsFits
  <1>2. CASE Settings!Saved(c) /\ c.owner = "shop" /\ c.state = "done"
    <2>1. PICK what \in {"read"}, arg \in {"save"} : page' = page /\ calls' = Settings!Ask(calls \ {c}, what, arg)
      BY <1>2 DEF Settings!Saved, Settings!Load
    <2>2. c.what = "save" /\ alert' = alert /\ page.front
      BY <1>2, <1>k DEF Settings!Saved, SettingsCall
    <2>3. SettingsAsk(what, arg)
      BY <2>1 DEF SettingsAsk
    <2>4. PICK d : /\ Settings!Ask(calls \ {c}, what, arg) = (calls \ {c}) \cup {d}
                   /\ SettingsSends(d, calls \ {c}, page.front, what, arg)
      BY <1>l, <2>2, <2>3, SettingsAsks
    <2>5. /\ calls' = (calls \ {c}) \cup {d} /\ d.what = "read" /\ d.arg = "save" /\ d.state = "sent"
          /\ SettingsCalls(calls', page'.front)
      BY <2>1, <2>4 DEF SettingsSends
    <2>6. SettingsWaits(page', calls') /\ SettingsOne(page', calls')
      BY <1>w, <2>1, <2>2, <2>5 DEF SettingsWaits, SettingsOne
    <2>7. SettingsTrue(page, row, calls) => SettingsTrue(page', row', calls')
      BY <2>5 DEF SettingsTrue, SettingsShown, SettingsReading
    <2>8. SettingsPlace(row', page', alert', crossed') /\ (crossed' \/ ~crossed)
      BY <1>k, <2>1, <2>2 DEF SettingsPlace
    <2> QED
      BY <2>1, <2>5, <2>6, <2>7, <2>8 DEF SettingsInv, SettingsFits
  <1>3. CASE Settings!Saved(c) /\ ~(c.owner = "shop" /\ c.state = "done")
    <2>1. PICK s \in BOOLEAN : s <=> page.saving /\ c.owner # "shop"
      OBVIOUS
    <2>2. page' = [page EXCEPT !.saving = s] /\ calls' = calls \ {c}
      BY <1>3, <1>k, <2>1 DEF Settings!Saved, SettingsPages
    <2>3. c.what = "save" /\ alert' = alert /\ (c.state = "done" => ~page.front) /\ crossed' = crossed
      BY <1>3, <1>k DEF Settings!Saved, SettingsCall, SettingsPlace
    <2>4. /\ page' \in SettingsPages /\ page'.front = page.front /\ page'.shop = page.shop /\ page'.trading = page.trading
          /\ page'.refreshing = page.refreshing /\ page'.saving = s /\ page'.uploading = page.uploading
          /\ page'.switching = page.switching
      BY <1>k, <2>2 DEF SettingsPages
    <2> QED
      BY <2>1, <2>2, <2>3, <2>4, SettingsOver
  <1>4. CASE Settings!Uploaded(c)
    <2>1. c.what = "upload" /\ calls' = calls \ {c} /\ alert' = alert /\ crossed' = crossed
      BY <1>4, <1>k DEF Settings!Uploaded, SettingsPlace
    <2>2. PICK v \in Contents \cup {None} : page' = [page EXCEPT !.uploading = FALSE, !.values = v]
      BY <1>4, <1>k DEF Settings!Uploaded, SettingsPages
    <2>3. /\ page' \in SettingsPages /\ page'.front = page.front /\ page'.shop = page.shop /\ page'.trading = page.trading
          /\ page'.refreshing = page.refreshing /\ page'.saving = page.saving /\ ~page'.uploading
          /\ page'.switching = page.switching
      BY <1>k, <2>2 DEF SettingsPages
    <2> QED
      BY <2>1, <2>3, SettingsOver
  <1>5. CASE Settings!Switched(c) /\ c.owner # "shop"
    <2>1. c.what = "switch" /\ calls' = calls \ {c} /\ alert' = alert /\ page' = page /\ ~page.front
      BY <1>5, <1>k DEF Settings!Switched, SettingsCall
    <2>2. SettingsWaits(page', calls') /\ SettingsOne(page', calls')
      BY <1>5, <1>w, <2>1 DEF SettingsWaits, SettingsOne
    <2>3. SettingsPlace(row', page', alert', crossed')
      BY <1>k, <2>1 DEF SettingsPlace
    <2> QED
      BY <1>l, <2>1, <2>2, <2>3 DEF SettingsInv, SettingsFits
  <1>6. CASE Settings!Switched(c) /\ c.owner = "shop"
    <2>1. c.what = "switch" /\ calls' = calls \ {c} /\ alert' = alert /\ c.state \in {"done", "refused"}
      BY <1>6 DEF Settings!Switched, Settings!Ended
    <2>2. c.arg \in [to : BOOLEAN, back : BOOLEAN] /\ page.trading \in BOOLEAN /\ row.trading \in BOOLEAN
      BY <1>k, <2>1 DEF SettingsCall, SettingsPages, Settings!Row
    <2>3. PICK t \in BOOLEAN : t = IF c.state = "done" THEN page.trading ELSE c.arg.back
      BY <2>2
    <2>4. page' \in SettingsPages /\ page'.front = page.front /\ page'.shop = page.shop /\ page'.trading = t
          /\ page'.refreshing = page.refreshing /\ page'.saving = page.saving /\ page'.uploading = page.uploading
          /\ page'.switching = FALSE
      <3>1. CASE c.state = "done"
        <4>1. page' = [page EXCEPT !.switching = FALSE]
          BY <1>6, <3>1 DEF Settings!Switched
        <4> QED
          BY <1>k, <2>3, <3>1, <4>1 DEF SettingsPages
      <3>2. CASE c.state = "refused"
        <4>1. page' = [page EXCEPT !.switching = FALSE, !.trading = t]
          BY <1>6, <2>3, <3>2 DEF Settings!Switched
        <4> QED
          BY <1>k, <4>1 DEF SettingsPages
      <3> QED
        BY <2>1, <3>1, <3>2
    <2>5. \A d \in calls : d.what = "switch" /\ d.owner = "shop" => d = c
      BY <1>6, <1>w, <2>1 DEF SettingsOne
    <2>6. SettingsOne(page', calls')
      BY <2>1, <2>5 DEF SettingsOne
    <2>7. SettingsWaits(page', calls')
      BY <1>w, <2>1, <2>4 DEF SettingsWaits
    <2>8. SettingsPlace(row', page', alert', crossed')
      BY <1>k, <2>1, <2>4 DEF SettingsPlace
    <2>9. ASSUME ~crossed', page.front PROVE SettingsTrue(page', row', calls')
      <3>1. SettingsTrue(page, row, calls) /\ (c.state = "refused" => c.arg.back # c.arg.to)
        BY <1>6, <2>1, <2>9 DEF SettingsInv
      <3>2. \A d \in calls : d.what = "switch" => d = c
        BY <1>k, <2>5, <2>9 DEF SettingsCalls, SettingsCall
      <3>3. SettingsTold(page, row, calls) => SettingsTold(page', row', calls')
        <4> SUFFICES ASSUME SettingsTold(page, row, calls) PROVE t = row.trading
          BY <2>1, <2>4, <3>2 DEF SettingsTold
        <4>1. CASE c.state = "done"
          BY <2>3, <3>2, <4>1 DEF SettingsTold
        <4>2. CASE c.state = "refused"
          <5>1. row.trading = ~c.arg.to
            BY <2>1, <3>2, <4>2 DEF SettingsTold
          <5> QED
            BY <2>2, <2>3, <3>1, <4>2, <5>1
        <4> QED
          BY <2>1, <4>1, <4>2
      <3>4. SettingsShown(page', row', calls')
        BY <2>1, <2>4, <3>1, <3>3 DEF SettingsTrue, SettingsShown, SettingsReading
      <3> QED
        BY <2>1, <3>1, <3>4 DEF SettingsTrue
    <2> QED
      BY <1>l, <2>1, <2>4, <2>6, <2>7, <2>8, <2>9 DEF SettingsInv, SettingsFits
  <1> QED
    BY <1>1, <1>2, <1>3, <1>4, <1>5, <1>6 DEF Settings!Answer

SettingsReplied(d, c, ok, reply, cs, f) ==
    /\ d.what = c.what /\ d.arg = c.arg /\ d.owner = c.owner /\ d.reply = reply
    /\ (ok => d.state = "done") /\ (~ok => d.state = "refused")
    /\ SettingsCalls((cs \ {c}) \cup {d}, f)

LEMMA SettingsReplies ==
    ASSUME NEW cs, NEW f, SettingsCalls(cs, f), NEW c \in cs, NEW ok \in BOOLEAN, NEW reply,
           reply \in Settings!Row \cup {None}, ~ok => reply = None
    PROVE  \E d : Settings!Handled(cs, c, ok, reply) = (cs \ {c}) \cup {d} /\ SettingsReplied(d, c, ok, reply, cs, f)
  <1> PICK d : d = Replied(c, ok, reply)
    OBVIOUS
  <1>1. SettingsCall(c, f)
    BY DEF SettingsCalls
  <1>2. /\ d.what = c.what /\ d.arg = c.arg /\ (ok => d.state = "done") /\ (~ok => d.state = "refused")
        /\ d.reply = reply /\ d.owner = c.owner /\ d.id = c.id /\ SettingsCall(d, f)
    BY <1>1 DEF SettingsCall, Replied, States
  <1> PICK ds : ds = (cs \ {c}) \cup {d}
    OBVIOUS
  <1>3. Numbered(ds)
    BY <1>2, NumberedSwap DEF SettingsCalls
  <1>4. SettingsCalls(ds, f)
    BY <1>2, <1>3 DEF SettingsCalls
  <1>5. SettingsReplied(d, c, ok, reply, cs, f)
    BY <1>2, <1>4 DEF SettingsReplied
  <1> QED
    BY <1>5, SettingsHandled

LEMMA SettingsSwapped ==
    ASSUME NEW p, NEW cs, SettingsFits(p, cs), NEW c \in cs, NEW d, d.what = c.what, d.arg = c.arg, d.owner = c.owner,
           NEW ds, ds = (cs \ {c}) \cup {d}, SettingsCalls(ds, p.front)
    PROVE  SettingsFits(p, ds)
  <1>1. SettingsWaits(p, ds)
    BY DEF SettingsFits, SettingsWaits
  <1>2. SettingsOne(p, ds)
    BY DEF SettingsFits, SettingsOne
  <1> QED
    BY <1>1, <1>2 DEF SettingsFits

LEMMA SettingsServe ==
    ASSUME SettingsInv, NEW c \in calls, Settings!Serve(c), UNCHANGED <<page, alert>>,
           crossed' = IF c.what = "read" THEN calls # {c}
                      ELSE crossed \/ (row' # row /\ (c.owner = "gone" \/ Settings!Reads # {}))
    PROVE  SettingsInv'
  <1>k. /\ SettingsPlace(row, page, alert, crossed) /\ row \in Settings!Row /\ page \in SettingsPages
        /\ SettingsFits(page, calls) /\ SettingsCalls(calls, page.front) /\ SettingsCall(c, page.front) /\ crossed' \in BOOLEAN
    BY DEF SettingsInv, SettingsPlace, SettingsFits, SettingsCalls
  <1>s. c.state = "sent"
    BY DEF Settings!Serve
  <1>1. PICK reply \in {row, None} : reply = IF c.what = "read" THEN row ELSE None
    OBVIOUS
  <1>2. PICK ok \in BOOLEAN : ok /\ calls' = Settings!Handled(calls, c, ok, reply)
    BY <1>1 DEF Settings!Serve
  <1>3. reply \in Settings!Row \cup {None}
    BY <1>k
  <1>4. PICK d : calls' = (calls \ {c}) \cup {d} /\ SettingsReplied(d, c, ok, reply, calls, page.front)
    BY <1>k, <1>2, <1>3, SettingsReplies
  <1>5. /\ d.what = c.what /\ d.arg = c.arg /\ d.owner = c.owner /\ d.state = "done" /\ d.reply = reply
        /\ SettingsCalls(calls', page.front)
    BY <1>2, <1>4 DEF SettingsReplied
  <1>6. SettingsFits(page', calls')
    BY <1>k, <1>4, <1>5, SettingsSwapped
  <1>7. row' \in Settings!Row
    <2>1. c.what = "save" => c.arg \in Contents
      BY <1>k DEF SettingsCall
    <2>2. c.what = "switch" => c.arg.to \in BOOLEAN
      BY <1>k DEF SettingsCall
    <2>3. CASE c.what = "save"
      BY <1>k, <2>1, <2>3 DEF Settings!Serve, Settings!Row
    <2>4. CASE c.what = "switch"
      BY <1>k, <2>2, <2>4 DEF Settings!Serve, Settings!Row
    <2>5. CASE c.what \notin {"save", "switch"}
      BY <1>k, <2>5 DEF Settings!Serve
    <2> QED
      BY <2>3, <2>4, <2>5
  <1>8. SettingsPlace(row', page', alert', crossed')
    BY <1>k, <1>7 DEF SettingsPlace
  <1>9. ASSUME ~crossed', page.front PROVE SettingsTrue(page', row', calls')
    <2>1. CASE c.what = "read"
      <3>1. calls' = {d} /\ row' = row
        BY <1>4, <1>9, <2>1 DEF Settings!Serve
      <3> QED
        BY <1>1, <1>5, <2>1, <3>1 DEF SettingsTrue, SettingsShown, SettingsReading
    <2>2. CASE c.what = "upload"
      <3>1. row' = row /\ SettingsTrue(page, row, calls)
        BY <1>9, <2>2 DEF Settings!Serve, SettingsInv
      <3>2. SettingsTold(page, row, calls) => SettingsTold(page', row', calls')
        BY <1>4, <1>5, <2>2, <3>1 DEF SettingsTold
      <3> QED
        BY <1>4, <1>5, <2>2, <3>1, <3>2 DEF SettingsTrue, SettingsShown, SettingsReading
    <2>3. CASE c.what \in {"save", "switch"}
      <3>1. SettingsTrue(page, row, calls) /\ (row' = row \/ ~SettingsReading(calls))
        BY <1>9, <2>3 DEF SettingsInv, SettingsReading, Settings!Reads
      <3>2. \A e \in calls' : e.what = "read" /\ e.state = "done" => e.reply = row'
        BY <1>4, <1>5, <2>3, <3>1 DEF SettingsTrue, SettingsReading
      <3>3. CASE page.shop = None \/ SettingsReading(calls)
        <4>1. SettingsShown(page', row', calls')
          BY <1>4, <1>5, <3>3 DEF SettingsShown, SettingsReading
        <4> QED
          BY <3>2, <4>1 DEF SettingsTrue
      <3>4. CASE ~(page.shop = None \/ SettingsReading(calls)) /\ c.what = "save"
        <4>1. row'.trading = row.trading
          BY <1>k, <3>4 DEF Settings!Serve, Settings!Row
        <4>2. SettingsTold(page, row, calls)
          BY <3>1, <3>4 DEF SettingsTrue, SettingsShown
        <4>3. SettingsTold(page', row', calls')
          BY <1>4, <1>5, <3>4, <4>1, <4>2 DEF SettingsTold
        <4> QED
          BY <1>4, <1>5, <3>2, <3>4, <4>3 DEF SettingsTrue, SettingsShown
      <3>5. CASE ~(page.shop = None \/ SettingsReading(calls)) /\ c.what = "switch"
        <4>1. row'.trading = c.arg.to /\ row'.content = row.content
          BY <1>k, <3>5 DEF Settings!Serve, Settings!Row
        <4>2. SettingsTold(page, row, calls) /\ (page.shop.content = row.content \/ \E e \in calls : e.what = "save" /\ e.state = "done")
          BY <3>1, <3>5 DEF SettingsTrue, SettingsShown
        <4>3. \A e \in calls : e.what = "switch" => e = c
          BY <1>k, <1>9, <3>5 DEF SettingsFits, SettingsOne, SettingsCalls, SettingsCall
        <4>4. page.trading = c.arg.to
          BY <1>s, <3>5, <4>2, <4>3 DEF SettingsTold
        <4>5. SettingsTold(page', row', calls')
          BY <1>4, <1>5, <4>1, <4>3, <4>4 DEF SettingsTold
        <4> QED
          BY <1>4, <1>5, <3>2, <3>5, <4>1, <4>2, <4>5 DEF SettingsTrue, SettingsShown
      <3> QED
        BY <2>3, <3>3, <3>4, <3>5
    <2> QED
      BY <1>k, <2>1, <2>2, <2>3 DEF SettingsCall
  <1> QED
    BY <1>6, <1>8, <1>9 DEF SettingsInv

LEMMA SettingsLose ==
    ASSUME SettingsInv, NEW c \in calls, Settings!Lose(c),
           crossed' = (crossed \/ (c.what \in {"save", "switch"} /\ c.state # "sent"))
    PROVE  SettingsInv'
  <1>k. /\ SettingsPlace(row, page, alert, crossed) /\ SettingsFits(page, calls) /\ SettingsCalls(calls, page.front)
        /\ SettingsCall(c, page.front) /\ crossed' \in BOOLEAN /\ UNCHANGED <<row, page, alert>>
    BY DEF SettingsInv, SettingsPlace, SettingsFits, SettingsCalls, Settings!Lose, Settings!screens
  <1>1. PICK ok \in BOOLEAN : ~ok /\ calls' = Settings!Handled(calls, c, ok, None)
    BY DEF Settings!Lose
  <1>2. PICK d : calls' = (calls \ {c}) \cup {d} /\ SettingsReplied(d, c, ok, None, calls, page.front)
    BY <1>k, <1>1, SettingsReplies
  <1>3. /\ d.what = c.what /\ d.arg = c.arg /\ d.owner = c.owner /\ d.state = "refused" /\ SettingsCalls(calls', page.front)
    BY <1>1, <1>2 DEF SettingsReplied
  <1>4. SettingsFits(page', calls')
    BY <1>k, <1>2, <1>3, SettingsSwapped
  <1>5. SettingsPlace(row', page', alert', crossed')
    BY <1>k DEF SettingsPlace
  <1>6. ASSUME ~crossed', SettingsTrue(page, row, calls) PROVE SettingsTrue(page', row', calls')
    <2>1. c.what \in {"save", "switch"} => c.state = "sent"
      BY <1>6
    <2>2. SettingsTold(page, row, calls) => SettingsTold(page', row', calls')
      BY <1>k, <1>2, <1>3, <2>1 DEF SettingsTold
    <2>3. SettingsShown(page', row', calls')
      BY <1>k, <1>2, <1>3, <1>6, <2>1, <2>2 DEF SettingsTrue, SettingsShown, SettingsReading
    <2> QED
      BY <1>k, <1>2, <1>3, <1>6, <2>3 DEF SettingsTrue
  <1> QED
    BY <1>k, <1>4, <1>5, <1>6 DEF SettingsInv

LEMMA SettingsSteps == ASSUME SettingsInv, Settings!Next PROVE SettingsInv'
  <1>1. CASE (Settings!Go \/ (Settings!MayAct /\ Settings!Tap)) /\ UNCHANGED <<row, crossed>>
    BY <1>1, SettingsGoes, SettingsTaps
  <1>2. ASSUME NEW c \in calls, Settings!Step(c) PROVE SettingsInv'
    <2>1. CASE Settings!Answer(c) /\ UNCHANGED row
               /\ crossed' = (crossed \/ (c.what = "switch" /\ c.owner = "shop" /\ c.state = "refused" /\ c.arg.back = c.arg.to)
                                      \/ (c.what = "read" /\ \E d \in calls : d.what = "switch" /\ d.owner = "shop"))
      BY <2>1, SettingsAnswer
    <2>2. CASE Settings!Lose(c) /\ crossed' = (crossed \/ (c.what \in {"save", "switch"} /\ c.state # "sent"))
      BY <2>2, SettingsLose
    <2>3. CASE Settings!Serve(c) /\ UNCHANGED Settings!screens
               /\ crossed' = IF c.what = "read" THEN calls # {c}
                             ELSE crossed \/ (row' # row /\ (c.owner = "gone" \/ Settings!Reads # {}))
      BY <2>3, SettingsServe DEF Settings!screens
    <2> QED
      BY <1>2, <2>1, <2>2, <2>3 DEF Settings!Step
  <1>3. CASE Settings!Others /\ crossed' = TRUE
    <2>1. row' \in Settings!Row /\ UNCHANGED <<page, alert, calls>> /\ crossed' \in BOOLEAN
      BY <1>3 DEF Settings!Others, Settings!screens
    <2> QED
      BY <1>3, <2>1 DEF SettingsInv, SettingsPlace
  <1> QED
    BY <1>1, <1>2, <1>3 DEF Settings!Next

LEMMA SettingsStart == Settings!Init => SettingsInv
  <1> SUFFICES ASSUME Settings!Init PROVE SettingsInv
    OBVIOUS
  <1>0. /\ row \in Settings!Row /\ page = Settings!NewPage /\ alert = Settings!NoAlert /\ calls = {} /\ crossed = FALSE
    BY DEF Settings!Init
  <1>1. SettingsCalls(calls, page.front)
    BY <1>0, FS_EmptySet DEF SettingsCalls, Numbered
  <1>2. SettingsPlace(row, page, alert, crossed)
    BY <1>0, SettingsNew, SettingsNames DEF SettingsPlace
  <1>3. SettingsFits(page, calls)
    BY <1>0, <1>1, SettingsNew DEF SettingsFits, SettingsWaits, SettingsOne
  <1> QED
    BY <1>0, <1>2, <1>3, SettingsNew DEF SettingsInv

LEMMA SettingsHold == ASSUME SettingsInv PROVE Settings!TypeOK /\ Settings!ShowsServer /\ Settings!SpinnerHasCall
  <1>1. Settings!TypeOK
    BY DEF SettingsInv, SettingsPlace, SettingsPages, SettingsFits, SettingsCalls, Numbered, Settings!TypeOK
  <1>2. Settings!ShowsServer
    BY DEF SettingsInv, SettingsTrue, SettingsShown, SettingsReading, SettingsTold, Settings!ShowsServer
  <1>3. Settings!SpinnerHasCall
    BY DEF SettingsInv, SettingsFits, SettingsWaits, SettingsCalls, SettingsCall, Settings!SpinnerHasCall
  <1> QED
    BY <1>1, <1>2, <1>3

-----------------------------------------------------------------------------
(* The page of an order.                                                   *)

OrderRows == [status : Order!Statuses, remark : Remarks \cup {None}]
OrderPages == [open : BOOLEAN, loading : BOOLEAN, acting : BOOLEAN, failed : BOOLEAN,
               detail : OrderRows \cup {None}, reason : BOOLEAN, draft : Remarks \cup {None}]
OrderCall(c) ==
    /\ c \in [id : Nat, owner : {"order", "gone"}, what : {c.what}, arg : {c.arg}, state : States,
              reply : OrderRows \cup {None}]
    /\ \/ c.what = "read" /\ c.owner = "order" /\ c.arg \in {"open", "retry", "act"}
          /\ (c.state = "done" => c.reply \in OrderRows)
       \/ c.what \in Order!Deeds /\ c.arg \in Remarks \cup {None}
OrderCalls(cs) == Numbered(cs) /\ \A c \in cs : OrderCall(c)
OrderPlace(o, p, x) ==
    /\ o \in OrderRows /\ p \in OrderPages /\ x \in BOOLEAN
    /\ p.detail # None => p.open
    /\ p.acting => p.detail # None
\* The page has one request at most; while there is one, either its buttons are off or it
\* shows no order yet.
OrderOne(p, cs) ==
    \A c \in cs : c.owner = "order" =>
       /\ p.open /\ (p.acting \/ (p.detail = None /\ ~p.failed))
       /\ \A d \in cs : d.owner = "order" => d = c
OrderWaits(p, cs) ==
    /\ p.loading => \E c \in cs : c.what = "read"
    /\ p.acting => \E c \in cs : c.owner = "order" /\ (c.what = "read" => c.arg = "act")
OrderFits(p, cs) == OrderCalls(cs) /\ OrderOne(p, cs) /\ OrderWaits(p, cs)
OrderTrue(p, o, cs) ==
    /\ \A c \in cs : c.what = "read" /\ c.state = "done" => c.reply = o
    /\ \/ p.detail = None \/ p.detail = o
       \/ \E c \in cs : c.owner = "order" /\ (c.what # "read" => c.state = "done")
OrderInv == /\ OrderPlace(order, page, crossed) /\ OrderFits(page, calls)
            /\ crossed \/ OrderTrue(page, order, calls)

LEMMA OrderRequest ==
    ASSUME NEW cs, NEW owner, NEW what, NEW arg
    PROVE  Order!Request(cs, owner, what, arg) = Made(cs, owner, what, arg)
  BY DEF Order!Request, Order!NewId, Order!Cardinality, Made, FreeId, Cardinality

LEMMA OrderHandled ==
    ASSUME NEW cs, NEW c, NEW ok, NEW reply
    PROVE  Order!Handled(cs, c, ok, reply) = (cs \ {c}) \cup {Replied(c, ok, reply)}
  BY DEF Order!Handled, Replied

OrderAsk(what, arg) == \/ what = "read" /\ arg \in {"open", "retry", "act"}
                       \/ what \in Order!Deeds /\ arg \in Remarks \cup {None}
OrderSends(c, cs, what, arg) ==
    c.what = what /\ c.arg = arg /\ c.owner = "order" /\ c.state = "sent" /\ OrderCalls(cs \cup {c})

LEMMA OrderAsks ==
    ASSUME NEW cs, OrderCalls(cs), NEW what, NEW arg, OrderAsk(what, arg)
    PROVE  \E c : cs \cup {Order!Request(cs, "order", what, arg)} = cs \cup {c} /\ OrderSends(c, cs, what, arg)
  <1> PICK i : i = FreeId(cs)
    OBVIOUS
  <1> PICK c : c = [id |-> i, owner |-> "order", what |-> what, arg |-> arg, state |-> "sent", reply |-> None]
    OBVIOUS
  <1>1. New(cs, c.id)
    BY FreeIsNew DEF OrderCalls
  <1>2. OrderCall(c)
    BY <1>1 DEF OrderCall, OrderAsk, New, States
  <1> PICK ds : ds = cs \cup {c}
    OBVIOUS
  <1>3. Numbered(ds)
    BY <1>1, NumberedMore DEF OrderCalls
  <1>4. OrderCalls(ds)
    BY <1>2, <1>3 DEF OrderCalls
  <1>5. Order!Request(cs, "order", what, arg) = c
    BY OrderRequest DEF Made
  <1> QED
    BY <1>4, <1>5 DEF OrderSends

LEMMA OrderFewer ==
    ASSUME NEW cs, OrderCalls(cs), NEW ds, ds \subseteq cs
    PROVE  OrderCalls(ds)
  BY NumberedFewer DEF OrderCalls

OrderMay(p, what, arg) == /\ p.open /\ (p.acting \/ (p.detail = None /\ ~p.failed))
                          /\ p.loading => what = "read"
                          /\ p.acting => what # "read" \/ arg = "act"
OrderAdds(cs, ds, what) == /\ \A e \in ds : e.state = "done" => e \in cs
                           /\ cs \subseteq ds /\ \E e \in ds : e.owner = "order" /\ e.what = what

\* The page asks for the one thing it may ask for.
LEMMA OrderFitsMore ==
    ASSUME NEW cs, OrderCalls(cs), \A e \in cs : e.owner # "order", NEW what, NEW arg, OrderAsk(what, arg),
           NEW p, OrderMay(p, what, arg), NEW ds, ds = cs \cup {Order!Request(cs, "order", what, arg)}
    PROVE  OrderFits(p, ds) /\ OrderAdds(cs, ds, what)
  <1>1. PICK c : cs \cup {Order!Request(cs, "order", what, arg)} = cs \cup {c} /\ OrderSends(c, cs, what, arg)
    BY OrderAsks
  <1>2. /\ ds = cs \cup {c} /\ c.what = what /\ c.arg = arg /\ c.owner = "order" /\ c.state = "sent" /\ OrderCalls(ds)
    BY <1>1 DEF OrderSends
  <1>3. OrderOne(p, ds)
    BY <1>2 DEF OrderOne, OrderMay
  <1>4. OrderWaits(p, ds)
    BY <1>2 DEF OrderWaits, OrderMay
  <1> QED
    BY <1>2, <1>3, <1>4 DEF OrderFits, OrderAdds

\* Of a page that is left the deeds go on.
LEMMA OrderGone ==
    ASSUME NEW cs, OrderCalls(cs), NEW ds,
           ds = {[c EXCEPT !.owner = "gone"] : c \in {d \in cs : d.what # "read"}}
    PROVE  OrderCalls(ds) /\ \A d \in ds : d.owner = "gone" /\ d.what # "read"
  <1>1. PICK S : S = {d \in cs : d.what # "read"}
    OBVIOUS
  <1>2. PICK g : g = [c \in S |-> [c EXCEPT !.owner = "gone"]]
    OBVIOUS
  <1>3. ds = {g[c] : c \in S}
    BY <1>1, <1>2
  <1>5. ASSUME NEW c \in S
        PROVE  g[c].id = c.id /\ g[c].owner = "gone" /\ g[c].what # "read" /\ OrderCall(g[c])
    <2>1. OrderCall(c) /\ c.what # "read"
      BY <1>1 DEF OrderCalls
    <2>2. PICK d : d = g[c]
      OBVIOUS
    <2>3. d = [c EXCEPT !.owner = "gone"]
      BY <1>2, <2>2
    <2>4. d.id = c.id /\ d.owner = "gone" /\ d.what # "read" /\ OrderCall(d)
      BY <2>1, <2>3 DEF OrderCall
    <2> QED
      BY <2>2, <2>4
  <1>6. Numbered(cs) /\ S \subseteq cs
    BY <1>1 DEF OrderCalls
  <1>7. (\A d \in ds : \E c \in S : d = g[c]) /\ \A c \in S : g[c] \in ds
    BY <1>3
  <1>8. Numbered(ds)
    BY <1>5, <1>6, <1>7, NumberedLeft
  <1> QED
    BY <1>5, <1>7, <1>8 DEF OrderCalls

LEMMA OrderNew ==
    /\ Order!NewPage \in OrderPages /\ ~Order!NewPage.open /\ ~Order!NewPage.loading /\ ~Order!NewPage.acting
    /\ ~Order!NewPage.failed /\ Order!NewPage.detail = None
  BY DEF Order!NewPage, OrderPages

LEMMA OrderTap ==
    ASSUME OrderInv, Order!Open \/ Order!Retry \/ Order!Leave \/ Order!Note \/ \E what \in Order!Deeds : Order!Act(what),
           crossed' = (crossed /\ page'.detail = page.detail), UNCHANGED order
    PROVE  OrderInv'
  <1>k. /\ OrderPlace(order, page, crossed) /\ order \in OrderRows /\ page \in OrderPages /\ crossed \in BOOLEAN /\ crossed' \in BOOLEAN
        /\ OrderCalls(calls) /\ OrderOne(page, calls) /\ OrderWaits(page, calls)
        /\ (page.detail # None => page.open) /\ (page.acting => page.detail # None)
    BY DEF OrderInv, OrderPlace, OrderFits
  <1>1. CASE Order!Open
    <2>1. PICK what \in {"read"}, arg \in {"open"} : calls' = calls \cup {Order!Request(calls, "order", what, arg)}
      BY <1>1 DEF Order!Open, Order!Load
    <2>2. /\ page' \in OrderPages /\ page'.open /\ ~page'.acting /\ page'.detail = None /\ ~page'.failed
      <3>1. PICK p : p = [Order!NewPage EXCEPT !.open = TRUE]
        OBVIOUS
      <3>2. p \in OrderPages /\ p.open /\ ~p.acting /\ p.detail = None
        BY <3>1, OrderNew DEF OrderPages
      <3>3. page' = [p EXCEPT !.loading = TRUE, !.failed = FALSE]
        BY <1>1, <3>1 DEF Order!Open, Order!Load
      <3> QED
        BY <3>2, <3>3 DEF OrderPages
    <2>3. ~page.open /\ page.detail = None
      BY <1>k, <1>1 DEF Order!Open
    <2>4. \A e \in calls : e.owner # "order"
      BY <1>k, <2>3 DEF OrderOne
    <2>5. OrderAsk(what, arg) /\ what = "read"
      BY <2>1 DEF OrderAsk
    <2>m. OrderMay(page', what, arg)
      BY <2>2, <2>5 DEF OrderMay
    <2>6. OrderFits(page', calls') /\ OrderAdds(calls, calls', what)
      BY <1>k, <2>1, <2>m, <2>4, <2>5, OrderFitsMore
    <2>7. OrderTrue(page, order, calls) => OrderTrue(page', order', calls')
      BY <2>2, <2>6 DEF OrderTrue, OrderAdds
    <2> QED
      BY <1>k, <2>2, <2>3, <2>6, <2>7 DEF OrderInv, OrderPlace
  <1>2. CASE Order!Retry
    <2>1. PICK what \in {"read"}, arg \in {"retry"} :
             /\ calls' = calls \cup {Order!Request(calls, "order", what, arg)}
             /\ page' = [page EXCEPT !.loading = TRUE, !.failed = FALSE]
      BY <1>2 DEF Order!Retry, Order!Load
    <2>2. page.open /\ page.failed /\ page.detail = None /\ ~page.acting
      BY <1>k, <1>2 DEF Order!Retry
    <2>3. page' \in OrderPages /\ page'.open /\ ~page'.acting /\ page'.detail = None /\ ~page'.failed
      BY <1>k, <2>1, <2>2 DEF OrderPages
    <2>4. \A e \in calls : e.owner # "order"
      BY <1>k, <2>2 DEF OrderOne
    <2>5. OrderAsk(what, arg) /\ what = "read"
      BY <2>1 DEF OrderAsk
    <2>m. OrderMay(page', what, arg)
      BY <2>3, <2>5 DEF OrderMay
    <2>6. OrderFits(page', calls') /\ OrderAdds(calls, calls', what)
      BY <1>k, <2>1, <2>m, <2>4, <2>5, OrderFitsMore
    <2>7. OrderTrue(page, order, calls) => OrderTrue(page', order', calls')
      BY <2>3, <2>6 DEF OrderTrue, OrderAdds
    <2> QED
      BY <1>k, <2>2, <2>3, <2>6, <2>7 DEF OrderInv, OrderPlace
  <1>3. CASE Order!Leave
    <2>1. page' = Order!NewPage /\ calls' = {[c EXCEPT !.owner = "gone"] : c \in {d \in calls : d.what # "read"}}
      BY <1>3 DEF Order!Leave
    <2>2. OrderCalls(calls') /\ \A d \in calls' : d.owner = "gone" /\ d.what # "read"
      BY <1>k, <2>1, OrderGone
    <2>3. OrderFits(page', calls') /\ OrderTrue(page', order', calls')
      BY <2>1, <2>2, OrderNew DEF OrderFits, OrderOne, OrderWaits, OrderTrue
    <2> QED
      BY <1>k, <2>1, <2>3, OrderNew DEF OrderInv, OrderPlace
  <1>4. CASE Order!Note
    <2>1. calls' = calls /\ page.detail # None
      BY <1>4 DEF Order!Note
    <2>2. (\E r \in Remarks : page' = [page EXCEPT !.draft = r]) \/ (\E b \in BOOLEAN : page' = [page EXCEPT !.reason = b])
      BY <1>4 DEF Order!Note
    <2>3. /\ page' \in OrderPages /\ page'.open = page.open /\ page'.acting = page.acting /\ page'.detail = page.detail
          /\ page'.failed = page.failed /\ page'.loading = page.loading
      <3>1. ASSUME NEW r \in Remarks, page' = [page EXCEPT !.draft = r]
            PROVE  /\ page' \in OrderPages /\ page'.open = page.open /\ page'.acting = page.acting /\ page'.detail = page.detail
                   /\ page'.failed = page.failed /\ page'.loading = page.loading
        BY <1>k, <3>1 DEF OrderPages
      <3>2. ASSUME NEW b \in BOOLEAN, page' = [page EXCEPT !.reason = b]
            PROVE  /\ page' \in OrderPages /\ page'.open = page.open /\ page'.acting = page.acting /\ page'.detail = page.detail
                   /\ page'.failed = page.failed /\ page'.loading = page.loading
        BY <1>k, <3>2 DEF OrderPages
      <3> QED
        BY <2>2, <3>1, <3>2
    <2>4. OrderFits(page', calls')
      BY <1>k, <2>1, <2>3 DEF OrderFits, OrderOne, OrderWaits
    <2>5. OrderTrue(page, order, calls) => OrderTrue(page', order', calls')
      BY <2>1, <2>3 DEF OrderTrue
    <2> QED
      BY <1>k, <2>3, <2>4, <2>5 DEF OrderInv, OrderPlace
  <1>5. ASSUME NEW what \in Order!Deeds, Order!Act(what) PROVE OrderInv'
    <2>1. /\ page' = [page EXCEPT !.acting = TRUE]
          /\ calls' = calls \cup {Order!Request(calls, "order", what, page.draft)}
      BY <1>5 DEF Order!Act
    <2>2. ~page.acting /\ page.detail # None
      BY <1>5 DEF Order!Act, Order!Offers
    <2>3. /\ page' \in OrderPages /\ page'.open = page.open /\ page'.acting /\ page'.detail = page.detail
          /\ page'.failed = page.failed /\ page'.loading = page.loading /\ page.draft \in Remarks \cup {None}
      BY <1>k, <2>1 DEF OrderPages
    <2>4. \A e \in calls : e.owner # "order"
      BY <1>k, <2>2 DEF OrderOne
    <2>5. ~page.loading
      BY <1>k, <2>4 DEF OrderWaits, OrderCalls, OrderCall, Order!Deeds
    <2>6. OrderAsk(what, page.draft) /\ what # "read"
      BY <2>3 DEF OrderAsk, Order!Deeds
    <2>m. OrderMay(page', what, page.draft)
      BY <1>k, <2>2, <2>3, <2>5, <2>6 DEF OrderMay
    <2>7. OrderFits(page', calls') /\ OrderAdds(calls, calls', what)
      BY <1>k, <2>1, <2>4, <2>6, <2>m, OrderFitsMore
    <2>8. OrderTrue(page, order, calls) => OrderTrue(page', order', calls')
      BY <2>3, <2>7 DEF OrderTrue, OrderAdds
    <2> QED
      BY <1>k, <2>2, <2>3, <2>7, <2>8 DEF OrderInv, OrderPlace
  <1> QED
    BY <1>1, <1>2, <1>3, <1>4, <1>5

LEMMA OrderAnswer ==
    ASSUME OrderInv, NEW c \in calls, Order!Read(c) \/ Order!Acted(c), UNCHANGED <<order, crossed>>
    PROVE  OrderInv'
  <1>k. /\ OrderPlace(order, page, crossed) /\ order \in OrderRows /\ page \in OrderPages /\ crossed \in BOOLEAN
        /\ OrderCalls(calls) /\ OrderOne(page, calls) /\ OrderWaits(page, calls)
        /\ (page.detail # None => page.open) /\ (page.acting => page.detail # None) /\ OrderCall(c)
    BY DEF OrderInv, OrderPlace, OrderFits, OrderCalls
  <1>l. OrderCalls(calls \ {c})
    BY <1>k, OrderFewer
  <1>1. CASE Order!Read(c)
    <2>1. c.what = "read" /\ c.state \in {"done", "refused"} /\ calls' = calls \ {c}
      BY <1>1 DEF Order!Read, Order!Ended
    <2>2. c.owner = "order" /\ (c.state = "done" => c.reply \in OrderRows)
      BY <1>k, <2>1 DEF OrderCall, Order!Deeds
    <2>3. page.open /\ \A d \in calls' : d.owner # "order"
      BY <1>k, <2>1, <2>2 DEF OrderOne
    <2>4. ~(page.acting /\ c.arg # "act")
      BY <1>k, <2>1, <2>2 DEF OrderOne, OrderWaits
    <2>5. PICK p : p = [page EXCEPT !.loading = FALSE, !.acting = @ /\ c.arg # "act"]
      OBVIOUS
    <2>6. p = [page EXCEPT !.loading = FALSE, !.acting = FALSE]
      BY <1>k, <2>4, <2>5 DEF OrderPages
    <2>7. p \in OrderPages /\ p.open /\ ~p.acting /\ ~p.loading
      BY <1>k, <2>3, <2>6 DEF OrderPages
    <2>8. page' = IF c.state = "done" THEN [p EXCEPT !.detail = c.reply, !.draft = c.reply.remark]
                  ELSE [p EXCEPT !.detail = None, !.failed = TRUE]
      BY <1>1, <2>5 DEF Order!Read
    <2>9. /\ page' \in OrderPages /\ page'.open /\ ~page'.acting /\ ~page'.loading
          /\ page'.detail = None \/ (c.state = "done" /\ page'.detail = c.reply)
      <3>1. CASE c.state = "done"
        <4>1. PICK r \in Remarks \cup {None} : r = c.reply.remark
          BY <2>2, <3>1 DEF OrderRows
        <4>2. page' = [p EXCEPT !.detail = c.reply, !.draft = r]
          BY <2>8, <3>1, <4>1
        <4> QED
          BY <2>2, <2>7, <3>1, <4>2 DEF OrderPages
      <3>2. CASE c.state # "done"
        BY <2>7, <2>8, <3>2 DEF OrderPages
      <3> QED
        BY <3>1, <3>2
    <2>10. OrderFits(page', calls')
      BY <1>l, <2>1, <2>3, <2>9 DEF OrderFits, OrderOne, OrderWaits
    <2>11. OrderTrue(page, order, calls) => OrderTrue(page', order', calls')
      BY <2>1, <2>9 DEF OrderTrue
    <2> QED
      BY <1>k, <2>9, <2>10, <2>11 DEF OrderInv, OrderPlace
  <1>2. CASE Order!Acted(c) /\ c.owner = "order" /\ c.state = "done"
    <2>1. PICK what \in {"read"}, arg \in {"act"} :
            /\ calls' = (calls \ {c}) \cup {Order!Request(calls \ {c}, "order", what, arg)}
            /\ page' = [page EXCEPT !.loading = TRUE, !.failed = FALSE]
      BY <1>2 DEF Order!Acted, Order!Load
    <2>2. /\ page' \in OrderPages /\ page'.open = page.open /\ page'.acting = page.acting /\ page'.detail = page.detail
          /\ ~page'.failed
      BY <1>k, <2>1 DEF OrderPages
    <2>3. page.open /\ (page.acting \/ page.detail = None) /\ \A d \in calls \ {c} : d.owner # "order"
      BY <1>2, <1>k DEF OrderOne
    <2>4. OrderAsk(what, arg) /\ what = "read" /\ arg = "act"
      BY <2>1 DEF OrderAsk
    <2>m. OrderMay(page', what, arg)
      BY <1>k, <2>2, <2>3, <2>4 DEF OrderMay
    <2>5. OrderFits(page', calls') /\ OrderAdds(calls \ {c}, calls', what)
      BY <1>l, <2>1, <2>3, <2>4, <2>m, OrderFitsMore
    <2>6. OrderTrue(page, order, calls) => OrderTrue(page', order', calls')
      BY <2>4, <2>5 DEF OrderTrue, OrderAdds
    <2> QED
      BY <1>k, <2>2, <2>5, <2>6 DEF OrderInv, OrderPlace
  <1>3. CASE Order!Acted(c) /\ ~(c.owner = "order" /\ c.state = "done")
    <2>1. PICK b \in BOOLEAN : b <=> page.acting /\ c.owner # "order"
      OBVIOUS
    <2>2. page' = [page EXCEPT !.acting = b] /\ calls' = calls \ {c} /\ c.what # "read"
      BY <1>3, <1>k, <2>1 DEF Order!Acted, OrderPages, Order!Deeds
    <2>3. /\ page' \in OrderPages /\ page'.open = page.open /\ page'.acting = b /\ page'.detail = page.detail
          /\ page'.failed = page.failed /\ page'.loading = page.loading
      BY <1>k, <2>2 DEF OrderPages
    <2>4. OrderOne(page', calls')
      BY <1>k, <2>1, <2>2, <2>3 DEF OrderOne
    <2>5. OrderWaits(page', calls')
      BY <1>k, <2>1, <2>2, <2>3 DEF OrderWaits
    <2>6. OrderTrue(page, order, calls) => OrderTrue(page', order', calls')
      BY <1>3, <2>2, <2>3 DEF OrderTrue
    <2> QED
      BY <1>k, <1>l, <2>1, <2>2, <2>3, <2>4, <2>5, <2>6 DEF OrderInv, OrderPlace, OrderFits
  <1> QED
    BY <1>1, <1>2, <1>3

OrderReplied(d, c, ok, reply, cs) ==
    /\ d.what = c.what /\ d.arg = c.arg /\ d.owner = c.owner /\ d.reply = reply
    /\ (ok => d.state = "done") /\ (~ok => d.state = "refused")
    /\ OrderCalls((cs \ {c}) \cup {d})

LEMMA OrderReplies ==
    ASSUME NEW cs, OrderCalls(cs), NEW c \in cs, NEW ok \in BOOLEAN, NEW reply,
           reply \in OrderRows \cup {None}, ok /\ c.what = "read" => reply \in OrderRows
    PROVE  \E d : Order!Handled(cs, c, ok, reply) = (cs \ {c}) \cup {d} /\ OrderReplied(d, c, ok, reply, cs)
  <1> PICK d : d = Replied(c, ok, reply)
    OBVIOUS
  <1>1. OrderCall(c)
    BY DEF OrderCalls
  <1>2. /\ d.what = c.what /\ d.arg = c.arg /\ (ok => d.state = "done") /\ (~ok => d.state = "refused")
        /\ d.reply = reply /\ d.owner = c.owner /\ d.id = c.id /\ OrderCall(d)
    BY <1>1 DEF OrderCall, Replied, States
  <1> PICK ds : ds = (cs \ {c}) \cup {d}
    OBVIOUS
  <1>3. Numbered(ds)
    BY <1>2, NumberedSwap DEF OrderCalls
  <1>4. OrderCalls(ds)
    BY <1>2, <1>3 DEF OrderCalls
  <1>5. OrderReplied(d, c, ok, reply, cs)
    BY <1>2, <1>4 DEF OrderReplied
  <1> QED
    BY <1>5, OrderHandled

LEMMA OrderSwapped ==
    ASSUME NEW p, NEW cs, OrderFits(p, cs), NEW c \in cs, NEW d, d.what = c.what, d.arg = c.arg, d.owner = c.owner,
           NEW ds, ds = (cs \ {c}) \cup {d}, OrderCalls(ds)
    PROVE  OrderFits(p, ds)
  <1>1. OrderWaits(p, ds)
    BY DEF OrderFits, OrderWaits
  <1>2. OrderOne(p, ds)
    BY DEF OrderFits, OrderOne
  <1> QED
    BY <1>1, <1>2 DEF OrderFits

LEMMA OrderServe ==
    ASSUME OrderInv, NEW c \in calls, Order!Serve(c),
           crossed' = (c.what # "read" /\ (crossed \/ (order' # order /\ c.owner = "gone")))
    PROVE  OrderInv'
  <1>k. /\ OrderPlace(order, page, crossed) /\ order \in OrderRows /\ crossed' \in BOOLEAN /\ page' = page
        /\ OrderFits(page, calls) /\ OrderCalls(calls) /\ OrderOne(page, calls) /\ OrderCall(c) /\ c.state = "sent"
    BY DEF OrderInv, OrderPlace, OrderFits, OrderCalls, Order!Serve
  <1>1. CASE c.what = "read"
    <2>0. calls' = Order!Handled(calls, c, TRUE, order) /\ order' = order
      BY <1>1 DEF Order!Serve, Order!Deeds
    <2>1. PICK ok \in BOOLEAN : ok /\ calls' = Order!Handled(calls, c, ok, order) /\ order' = order
      BY <2>0
    <2>2. PICK d : calls' = (calls \ {c}) \cup {d} /\ OrderReplied(d, c, ok, order, calls)
      BY <1>k, <2>1, OrderReplies
    <2>3. d.what = c.what /\ d.arg = c.arg /\ d.owner = c.owner /\ d.reply = order /\ OrderCalls(calls')
      BY <2>2 DEF OrderReplied
    <2>4. OrderFits(page', calls')
      BY <1>k, <2>2, <2>3, OrderSwapped
    <2>5. \A e \in calls : e.what = "read" => e = c
      BY <1>1, <1>k DEF OrderOne, OrderCalls, OrderCall, Order!Deeds
    <2>6. c.owner = "order"
      BY <1>1, <1>k DEF OrderCall, Order!Deeds
    <2>7. OrderTrue(page', order', calls')
      BY <1>1, <2>1, <2>2, <2>3, <2>5, <2>6 DEF OrderTrue
    <2> QED
      BY <1>k, <2>1, <2>4, <2>7 DEF OrderInv, OrderPlace
  <1>2. CASE c.what # "read"
    <2>0. c.what \in Order!Deeds /\ c.arg \in Remarks \cup {None}
      BY <1>k, <1>2 DEF OrderCall
    <2>1. PICK ok \in BOOLEAN : ok <=> Order!Accepts(c.what)
      OBVIOUS
    <2>2. calls' = Order!Handled(calls, c, ok, None)
      <3>1. CASE ok
        BY <1>2, <2>0, <2>1, <3>1 DEF Order!Serve
      <3>2. CASE ~ok
        BY <1>2, <2>0, <2>1, <3>2 DEF Order!Serve
      <3> QED
        BY <3>1, <3>2
    <2>3. PICK d : calls' = (calls \ {c}) \cup {d} /\ OrderReplied(d, c, ok, None, calls)
      BY <1>k, <1>2, <2>2, OrderReplies
    <2>4. /\ d.what = c.what /\ d.arg = c.arg /\ d.owner = c.owner /\ OrderCalls(calls')
          /\ (ok => d.state = "done")
      BY <2>3 DEF OrderReplied
    <2>5. OrderFits(page', calls')
      BY <1>k, <2>3, <2>4, OrderSwapped
    <2>6. ~ok => order' = order
      BY <1>2, <2>1 DEF Order!Serve
    <2>7. order' \in OrderRows
      <3>1. CASE ~ok
        BY <1>k, <2>6, <3>1
      <3>2. CASE ok
        <4>1. PICK s : s = Order!Step(c.what)[2]
          OBVIOUS
        <4>2. PICK r : r = IF c.what = "remark" THEN c.arg ELSE order.remark
          OBVIOUS
        <4>3. order' = [status |-> s, remark |-> r]
          BY <1>2, <2>0, <2>1, <3>2, <4>1, <4>2 DEF Order!Serve
        <4>4. s \in Order!Statuses
          <5>1. order.status \in Order!Statuses
            BY <1>k DEF OrderRows
          <5> QED
            BY <2>0, <4>1, <5>1 DEF Order!Step, Order!Deeds, Order!Statuses
        <4>5. r \in Remarks \cup {None}
          BY <1>k, <2>0, <4>2 DEF OrderRows
        <4> QED
          BY <4>3, <4>4, <4>5 DEF OrderRows
      <3> QED
        BY <3>1, <3>2
    <2>8. ASSUME ~crossed' PROVE OrderTrue(page', order', calls')
      <3>1. ~crossed /\ OrderTrue(page, order, calls) /\ (order' = order \/ c.owner # "gone")
        BY <1>2, <1>k, <2>8 DEF OrderInv, OrderPlace
      <3>2. CASE ~ok
        <4>1. order' = order
          BY <2>6, <3>2
        <4> QED
          BY <1>2, <1>k, <2>3, <2>4, <3>1, <4>1 DEF OrderTrue
      <3>3. CASE ok /\ c.owner = "order"
        <4>1. \A e \in calls : e.what # "read"
          BY <1>2, <1>k, <3>3 DEF OrderOne, OrderCalls, OrderCall, Order!Deeds
        <4> QED
          BY <1>2, <2>3, <2>4, <3>3, <4>1 DEF OrderTrue
      <3>4. CASE c.owner # "order"
        <4>1. order' = order
          BY <1>k, <3>1, <3>4 DEF OrderCall
        <4> QED
          BY <1>2, <1>k, <2>3, <2>4, <3>1, <3>4, <4>1 DEF OrderTrue
      <3> QED
        BY <3>2, <3>3, <3>4
    <2> QED
      BY <1>k, <2>5, <2>7, <2>8 DEF OrderInv, OrderPlace
  <1> QED
    BY <1>1, <1>2

LEMMA OrderLose ==
    ASSUME OrderInv, NEW c \in calls, Order!Lose(c),
           crossed' = (crossed \/ (c.what # "read" /\ c.state = "done"))
    PROVE  OrderInv'
  <1>k. /\ OrderPlace(order, page, crossed) /\ crossed' \in BOOLEAN /\ UNCHANGED <<order, page>>
        /\ OrderFits(page, calls) /\ OrderCalls(calls)
    BY DEF OrderInv, OrderPlace, OrderFits, Order!Lose
  <1>1. PICK ok \in BOOLEAN : ~ok /\ calls' = Order!Handled(calls, c, ok, None)
    BY DEF Order!Lose
  <1>2. PICK d : calls' = (calls \ {c}) \cup {d} /\ OrderReplied(d, c, ok, None, calls)
    BY <1>k, <1>1, OrderReplies
  <1>3. d.what = c.what /\ d.arg = c.arg /\ d.owner = c.owner /\ d.state = "refused" /\ OrderCalls(calls')
    BY <1>1, <1>2 DEF OrderReplied
  <1>4. OrderFits(page', calls')
    BY <1>k, <1>2, <1>3, OrderSwapped
  <1>5. ASSUME ~crossed', OrderTrue(page, order, calls) PROVE OrderTrue(page', order', calls')
    BY <1>k, <1>2, <1>3, <1>5 DEF OrderTrue
  <1> QED
    BY <1>k, <1>4, <1>5 DEF OrderInv, OrderPlace

LEMMA OrderSteps == ASSUME OrderInv, Order!Next PROVE OrderInv'
  <1>1. CASE /\ Order!Open \/ Order!Retry \/ Order!Leave \/ Order!Note \/ \E what \in Order!Deeds : Order!Act(what)
             /\ crossed' = (crossed /\ page'.detail = page.detail) /\ UNCHANGED order
    BY <1>1, OrderTap
  <1>2. ASSUME NEW c \in calls, Order!Read(c) \/ Order!Acted(c), UNCHANGED <<order, crossed>> PROVE OrderInv'
    BY <1>2, OrderAnswer
  <1>3. ASSUME NEW c \in calls, Order!Lose(c), crossed' = (crossed \/ (c.what # "read" /\ c.state = "done")) PROVE OrderInv'
    BY <1>3, OrderLose
  <1>4. ASSUME NEW c \in calls, Order!Serve(c), crossed' = (c.what # "read" /\ (crossed \/ (order' # order /\ c.owner = "gone")))
        PROVE  OrderInv'
    BY <1>4, OrderServe
  <1>5. CASE Order!Others /\ crossed' = TRUE
    <2>1. UNCHANGED <<page, calls>> /\ crossed' \in BOOLEAN
      BY <1>5 DEF Order!Others
    <2>2. order \in OrderRows
      BY DEF OrderInv, OrderPlace
    <2>3. (\E s \in Order!Statuses : order' = [order EXCEPT !.status = s]) \/ (\E r \in Remarks : order' = [order EXCEPT !.remark = r])
      BY <1>5 DEF Order!Others
    <2>4. order' \in OrderRows
      BY <2>2, <2>3 DEF OrderRows
    <2> QED
      BY <1>5, <2>1, <2>4 DEF OrderInv, OrderPlace
  <1> QED
    BY <1>1, <1>2, <1>3, <1>4, <1>5 DEF Order!Next

LEMMA OrderStart == Order!Init => OrderInv
  <1> SUFFICES ASSUME Order!Init PROVE OrderInv
    OBVIOUS
  <1>0. order \in OrderRows /\ page = Order!NewPage /\ calls = {} /\ crossed = FALSE
    BY DEF Order!Init, OrderRows
  <1>1. OrderCalls(calls)
    BY <1>0, FS_EmptySet DEF OrderCalls, Numbered
  <1> QED
    BY <1>0, <1>1, OrderNew DEF OrderInv, OrderPlace, OrderFits, OrderOne, OrderWaits, OrderTrue

LEMMA OrderHold == ASSUME OrderInv PROVE Order!TypeOK /\ Order!ShowsServer /\ Order!SpinnerHasCall
  <1>1. Order!TypeOK
    BY DEF OrderInv, OrderPlace, OrderRows, OrderPages, OrderFits, OrderCalls, Numbered, Order!TypeOK
  <1>2. Order!ShowsServer
    <2> SUFFICES ASSUME page.detail # None, calls = {}, ~crossed
                 PROVE  page.detail = order /\ \A what \in Order!Deeds : what \in Order!Offers <=> Order!Accepts(what)
      BY DEF Order!ShowsServer
    <2>1. page.detail = order /\ ~page.acting
      BY DEF OrderInv, OrderFits, OrderWaits, OrderTrue
    <2> SUFFICES ASSUME NEW what \in Order!Deeds PROVE what \in Order!Offers <=> Order!Accepts(what)
      BY <2>1
    <2>2. order.status \in 0 .. 5
      BY DEF OrderInv, OrderPlace, OrderRows, Order!Statuses
    <2>3. PICK s \in 0 .. 5 : s = order.status
      BY <2>2
    <2>4. what \in Order!Offers <=> what \in Order!Can \cup {"remark"}
      BY <2>1 DEF Order!Offers
    <2>5. Order!Can = CASE s = 0 -> {"confirm", "reject"} [] s = 1 -> {"deliver"} [] s = 2 -> {"arrived"} [] OTHER -> {}
      BY <2>1, <2>3 DEF Order!Can
    <2>6. Order!Accepts(what) <=> s = Order!Step(what)[1]
      BY <2>3 DEF Order!Accepts
    <2>7. CASE what = "remark"
      BY <2>1, <2>3, <2>4, <2>6, <2>7 DEF Order!Step
    <2>8. CASE what \in {"confirm", "reject"}
      <3>1. Order!Step(what)[1] = 0
        BY <2>8 DEF Order!Step
      <3> QED
        BY <2>1, <2>4, <2>5, <2>6, <2>8, <3>1
    <2>9. CASE what = "deliver"
      <3>1. Order!Step(what)[1] = 1
        BY <2>9 DEF Order!Step
      <3> QED
        BY <2>1, <2>4, <2>5, <2>6, <2>9, <3>1
    <2>10. CASE what = "arrived"
      <3>1. Order!Step(what)[1] = 2
        BY <2>10 DEF Order!Step
      <3> QED
        BY <2>1, <2>4, <2>5, <2>6, <2>10, <3>1
    <2> QED
      BY <2>7, <2>8, <2>9, <2>10 DEF Order!Deeds
  <1>3. Order!SpinnerHasCall
    BY DEF OrderInv, OrderFits, OrderWaits, Order!SpinnerHasCall
  <1> QED
    BY <1>1, <1>2, <1>3

-----------------------------------------------------------------------------
(* The seller's desk.                                                      *)

DeskKeys == Keys \cup {None}
DeskPieces == [key : DeskKeys, page : 1 .. Pages]
DeskReplies == [listed : SUBSET Notices, unseen : SUBSET Notices, badge : 0 .. Cardinality(Notices), price : Prices]
Desks == [name : Desk!Screens \cup {None}, away : BOOLEAN, key : DeskKeys, loading : BOOLEAN,
          refreshing : BOOLEAN, more : BOOLEAN, busy : BOOLEAN, failed : BOOLEAN, shown : Seq(DeskPieces),
          page : 1 .. Pages, total : {1, Pages}, listed : SUBSET Notices, unseen : SUBSET Notices,
          badge : 0 .. Cardinality(Notices), price : Prices \cup {None}, draft : Prices \cup {None}]
IsDesk(d) == /\ d \in Desks
             /\ d.price = None => d.draft = None
             /\ d.price # None => d.draft \in Prices
DeskThens == {"initial", "refresh", "more", "prices"}
DeskArgs(name) == [name : {name}, key : DeskKeys, page : 1 .. Pages, then : DeskThens]
DeskCall(c, name) ==
    /\ c \in [id : Nat, owner : {"desk", "gone"}, what : {c.what}, arg : {c.arg}, state : States,
              reply : DeskReplies \cup {None}]
    /\ c.owner = "gone" <=> name = None
    /\ \/ /\ c.what = "read" /\ name # None
          /\ c.arg \in DeskArgs(name)
          /\ c.arg.then = "more" <=> c.arg.page > 1
          /\ c.state = "done" => c.reply \in DeskReplies
       \/ c.what = "mark" /\ c.arg \in [of : Notices]
       \/ c.what = "markAll" /\ c.arg \in [key : DeskKeys]
       \/ c.what = "prices" /\ c.arg \in [new : Prices]
DeskCalls(cs, name) == Numbered(cs) /\ \A c \in cs : DeskCall(c, name)
DeskPlace(u, pr, d, x) == u \in SUBSET Notices /\ pr \in Prices /\ IsDesk(d) /\ x \in BOOLEAN
DeskFirst(cs) == \E c \in cs : c.what = "read" /\ c.arg.page = 1
DeskMore(c) == c.what = "read" /\ c.arg.page > 1
DeskBusy(c) == \/ c.what = "read" /\ c.arg.then = "prices"
               \/ c.what = "prices" /\ c.owner = "desk"
DeskWaits(d, cs) ==
    /\ d.loading => DeskFirst(cs)
    /\ d.refreshing /\ d.name \in Desk!Catches => \E c \in cs : c.what = "read" /\ c.arg.then = "refresh"
    /\ d.more <=> \E c \in cs : DeskMore(c)
    /\ \A b, c \in cs : DeskMore(b) /\ DeskMore(c) => b = c
    /\ d.busy => \E c \in cs : DeskBusy(c)
DeskFits(d, cs) == DeskCalls(cs, d.name) /\ DeskWaits(d, cs)
\* While nothing crossed, what is under way are first pages of what is asked for, or one
\* request alone.
DeskTogether(d, cs) ==
    \/ \A c \in cs : c.what = "read" /\ c.arg.page = 1 /\ c.arg.key = d.key
    \/ \E c \in cs : cs = {c} /\ (c.what = "read" => c.arg.page = d.page + 1 /\ c.arg.key = d.key)
DeskWhole(d) == d.shown = [p \in 1 .. d.page |-> [key |-> d.key, page |-> p]]
DeskUnseen(d, u) == d.unseen = d.listed \cap u /\ d.badge = Cardinality(u)
DeskFaithful(d, u, pr, cs) ==
    \A c \in cs : c.what = "read" /\ c.state = "done" => c.reply.price = pr /\ (d.name = "messages" => DeskUnseen(c.reply, u))
DeskMessages(d, u, cs) ==
    \/ DeskFirst(cs) \/ \E c \in cs : c.what = "markAll" /\ c.state = "done"
    \/ \E c \in cs : c.what = "mark" /\ c.state = "done" /\ c.arg.of \notin u /\ DeskUnseen(d, u \cup {c.arg.of})
    \/ DeskUnseen(d, u) /\ \A c \in cs : c.what = "mark" => c.state = "sent" /\ c.arg.of \in u
DeskPrices(d, pr, cs) == \/ DeskFirst(cs) \/ d.price = pr
                         \/ \E c \in cs : c.what = "prices" /\ c.state = "done"
DeskTrue(d, u, pr, cs) ==
    /\ DeskTogether(d, cs) /\ DeskFaithful(d, u, pr, cs) /\ (DeskFirst(cs) \/ DeskWhole(d))
    /\ d.name = "messages" => DeskMessages(d, u, cs)
    /\ d.name = "quick" => DeskPrices(d, pr, cs)
DeskInv == /\ DeskPlace(unread, price, desk, crossed) /\ DeskFits(desk, calls)
           /\ crossed \/ desk.name = None \/ DeskTrue(desk, unread, price, calls)

LEMMA DeskNames == None \notin Desk!Screens
  BY NoneAssumption
LEMMA DeskBounds == Pages \in Nat \ {0} /\ IsFiniteSet(Notices) /\ Prices # {}
  BY BackOfficeAssumption

LEMMA DeskRequest ==
    ASSUME NEW cs, NEW owner, NEW what, NEW arg
    PROVE  Desk!Request(cs, owner, what, arg) = Made(cs, owner, what, arg)
  BY DEF Desk!Request, Desk!NewId, Desk!Cardinality, Made, FreeId, Cardinality

LEMMA DeskHandled ==
    ASSUME NEW cs, NEW c, NEW ok, NEW reply
    PROVE  Desk!Handled(cs, c, ok, reply) = (cs \ {c}) \cup {Replied(c, ok, reply)}
  BY DEF Desk!Handled, Replied

LEMMA DeskCounts == ASSUME NEW S PROVE Desk!Cardinality(S) = Cardinality(S)
  BY DEF Desk!Cardinality, Cardinality

\* The badge of a set of messages.
LEMMA DeskBadge ==
    ASSUME NEW u \in SUBSET Notices
    PROVE  Cardinality(u) \in 0 .. Cardinality(Notices) /\ IsFiniteSet(u)
  <1>1. IsFiniteSet(u) /\ Cardinality(u) <= Cardinality(Notices)
    BY DeskBounds, FS_Subset
  <1>2. Cardinality(u) \in Nat /\ Cardinality(Notices) \in Nat
    BY <1>1, DeskBounds, FS_CardinalityType
  <1> QED
    BY <1>1, <1>2

LEMMA DeskLess ==
    ASSUME NEW u \in SUBSET Notices, NEW n, n \notin u
    PROVE  Cardinality(u \cup {n}) = Cardinality(u) + 1 /\ Cardinality(u) \in Nat
  <1>1. IsFiniteSet(u)
    BY DeskBadge
  <1> QED
    BY <1>1, FS_AddElement, FS_CardinalityType

DeskAsk(what, arg, name) == \/ what = "read" /\ arg \in DeskArgs(name) /\ (arg.then = "more" <=> arg.page > 1)
                            \/ what = "mark" /\ arg \in [of : Notices]
                            \/ what = "markAll" /\ arg \in [key : DeskKeys]
                            \/ what = "prices" /\ arg \in [new : Prices]
DeskSends(c, cs, name, what, arg) ==
    c.what = what /\ c.arg = arg /\ c.owner = "desk" /\ c.state = "sent" /\ DeskCalls(cs \cup {c}, name)

LEMMA DeskAsks ==
    ASSUME NEW cs, NEW name, name # None, DeskCalls(cs, name), NEW what, NEW arg, DeskAsk(what, arg, name)
    PROVE  \E c : cs \cup {Desk!Request(cs, "desk", what, arg)} = cs \cup {c} /\ DeskSends(c, cs, name, what, arg)
  <1> PICK i : i = FreeId(cs)
    OBVIOUS
  <1> PICK c : c = [id |-> i, owner |-> "desk", what |-> what, arg |-> arg, state |-> "sent", reply |-> None]
    OBVIOUS
  <1>1. New(cs, c.id)
    BY FreeIsNew DEF DeskCalls
  <1>2. DeskCall(c, name)
    BY <1>1 DEF DeskCall, DeskAsk, New, States
  <1> PICK ds : ds = cs \cup {c}
    OBVIOUS
  <1>3. Numbered(ds)
    BY <1>1, NumberedMore DEF DeskCalls
  <1>4. DeskCalls(ds, name)
    BY <1>2, <1>3 DEF DeskCalls
  <1>5. Desk!Request(cs, "desk", what, arg) = c
    BY DeskRequest DEF Made
  <1> QED
    BY <1>4, <1>5 DEF DeskSends

LEMMA DeskFewer ==
    ASSUME NEW cs, NEW name, DeskCalls(cs, name), NEW ds, ds \subseteq cs
    PROVE  DeskCalls(ds, name)
  BY NumberedFewer DEF DeskCalls

\* A read of a page is one request more.
DeskReads(cs, ds, name, key, pg, then) ==
    \E c : /\ ds = cs \cup {c} /\ c.what = "read" /\ c.owner = "desk" /\ c.state = "sent" /\ DeskCalls(ds, name)
           /\ c.arg.key = key /\ c.arg.page = pg /\ c.arg.then = then

LEMMA DeskRead ==
    ASSUME NEW cs, NEW d \in Desks, d.name # None, DeskCalls(cs, d.name), NEW pg \in 1 .. Pages, NEW then \in DeskThens,
           then = "more" <=> pg > 1, NEW ds, ds = Desk!Read(cs, d, pg, then)
    PROVE  DeskReads(cs, ds, d.name, d.key, pg, then)
  <1>1. PICK arg : arg = [name |-> d.name, key |-> d.key, page |-> pg, then |-> then]
    OBVIOUS
  <1>2. d.key \in DeskKeys
    BY DEF Desks
  <1>3. PICK what \in {"read"} : ds = cs \cup {Desk!Request(cs, "desk", what, arg)}
    BY <1>1 DEF Desk!Read
  <1>4. /\ arg \in DeskArgs(d.name) /\ arg.then = then /\ arg.page = pg /\ arg.key = d.key
    BY <1>1, <1>2 DEF DeskArgs
  <1>5. DeskAsk(what, arg, d.name)
    BY <1>3, <1>4 DEF DeskAsk
  <1>6. PICK c : cs \cup {Desk!Request(cs, "desk", what, arg)} = cs \cup {c} /\ DeskSends(c, cs, d.name, what, arg)
    BY <1>5, DeskAsks
  <1>7. /\ ds = cs \cup {c} /\ c.what = "read" /\ c.arg = arg /\ c.owner = "desk" /\ c.state = "sent" /\ DeskCalls(ds, d.name)
    BY <1>3, <1>6 DEF DeskSends
  <1> QED
    BY <1>4, <1>7 DEF DeskReads

\* First pages of what is asked for.
DeskFresh(d, u, pr, cs) ==
    (\A c \in cs : c.what = "read" /\ c.arg.page = 1 /\ c.arg.key = d.key) /\ DeskFaithful(d, u, pr, cs)

LEMMA DeskFreshTrue ==
    ASSUME NEW d, NEW u, NEW pr, NEW cs, DeskFresh(d, u, pr, cs), DeskFirst(cs)
    PROVE  DeskTrue(d, u, pr, cs)
  BY DEF DeskFresh, DeskTrue, DeskTogether, DeskMessages, DeskPrices

LEMMA DeskFreshRead ==
    ASSUME NEW d, NEW u, NEW pr, NEW cs, NEW ds, NEW name, NEW then, DeskReads(cs, ds, name, d.key, 1, then)
    PROVE  DeskFirst(ds) /\ (DeskFresh(d, u, pr, cs) => DeskFresh(d, u, pr, ds))
  <1>1. PICK c : /\ ds = cs \cup {c} /\ c.what = "read" /\ c.state = "sent" /\ c.arg.key = d.key /\ c.arg.page = 1
    BY DEF DeskReads
  <1> QED
    BY <1>1 DEF DeskFirst, DeskFresh, DeskFaithful

\* What a screen that waits for the first page e, waits for.
DeskCarries(e, d, then) ==
    /\ d.name = e.name /\ d.more = e.more
    /\ d.refreshing => e.refreshing \/ then = "refresh"
    /\ d.busy => e.busy \/ then = "prices"

LEMMA DeskWaitsRead ==
    ASSUME NEW e, NEW d, NEW cs, NEW ds, DeskWaits(e, cs), NEW name, NEW then,
           DeskReads(cs, ds, name, d.key, 1, then), DeskCarries(e, d, then)
    PROVE  DeskWaits(d, ds)
  <1>1. PICK c : ds = cs \cup {c} /\ c.what = "read" /\ c.arg.page = 1 /\ c.arg.then = then
    BY DEF DeskReads
  <1>2. ~DeskMore(c)
    BY <1>1 DEF DeskMore
  <1>3. DeskFirst(ds)
    BY <1>1 DEF DeskFirst
  <1>4. /\ d.more <=> \E b \in ds : DeskMore(b)
        /\ \A b, f \in ds : DeskMore(b) /\ DeskMore(f) => b = f
    BY <1>1, <1>2 DEF DeskWaits, DeskCarries
  <1>5. d.refreshing /\ d.name \in Desk!Catches => \E b \in ds : b.what = "read" /\ b.arg.then = "refresh"
    BY <1>1 DEF DeskWaits, DeskCarries
  <1>6. d.busy => \E b \in ds : DeskBusy(b)
    BY <1>1 DEF DeskWaits, DeskCarries, DeskBusy
  <1> QED
    BY <1>3, <1>4, <1>5, <1>6 DEF DeskWaits

\* What does not cross what is under way joins first pages of the same.
LEMMA DeskJoins ==
    ASSUME NEW d, ~Desk!Joins(calls, d, 1), NEW name, DeskCalls(calls, name),
           calls = {} \/ (d.name = desk.name /\ (crossed \/ DeskTrue(desk, unread, price, calls)))
    PROVE  DeskFresh(d, unread, price, calls)
  <1>1. \A c \in calls : c.what = "read" /\ ~(c.arg.page > 1) /\ c.arg.key = d.key
    BY DEF Desk!Joins
  <1>2. \A c \in calls : c.arg.page = 1
    BY <1>1, DeskBounds DEF DeskCalls, DeskCall, DeskArgs
  <1>3. DeskFaithful(d, unread, price, calls)
    <2>1. CASE calls = {}
      BY <2>1 DEF DeskFaithful
    <2>2. CASE calls # {}
      <3>1. ~crossed
        BY <2>2 DEF Desk!Joins
      <3> QED
        BY <2>2, <3>1 DEF DeskTrue, DeskFaithful
    <2> QED
      BY <2>1, <2>2
  <1> QED
    BY <1>1, <1>2, <1>3 DEF DeskFresh

DeskKnown == /\ DeskPlace(unread, price, desk, crossed) /\ unread \in SUBSET Notices /\ price \in Prices /\ crossed \in BOOLEAN
             /\ IsDesk(desk) /\ desk \in Desks /\ DeskCalls(calls, desk.name) /\ DeskWaits(desk, calls)

LEMMA DesksKnown == ASSUME DeskInv PROVE DeskKnown
  BY DEF DeskInv, DeskKnown, DeskPlace, DeskFits, IsDesk

\* A screen that loads.
LEMMA DeskLoads ==
    ASSUME DeskInv, NEW e, DeskWaits(e, calls), NEW d, IsDesk(d), d.name # None, calls = {} \/ d.name = desk.name,
           NEW then \in {"initial", "refresh"}, DeskCarries(e, d, then), Desk!Load(d, calls, then), UNCHANGED <<unread, price>>
    PROVE  DeskInv'
  <1>0. DeskKnown
    BY DesksKnown
  <1>1. PICK b \in BOOLEAN : b <=> d.loading \/ d.name = "orders" \/ (d.name = "bench" /\ then = "initial")
    OBVIOUS
  <1>2. desk' = [d EXCEPT !.loading = b, !.failed = FALSE] /\ calls' = Desk!Read(calls, d, 1, then) /\ crossed' = Desk!Joins(calls, d, 1)
    BY <1>1 DEF Desk!Load, IsDesk, Desks
  <1>3. /\ IsDesk(desk') /\ desk'.name = d.name /\ desk'.key = d.key /\ desk'.more = d.more
        /\ desk'.refreshing = d.refreshing /\ desk'.busy = d.busy
    BY <1>2 DEF IsDesk, Desks
  <1>4. DeskCalls(calls, d.name)
    BY <1>0 DEF DeskKnown, DeskCalls
  <1>5. then \in DeskThens /\ 1 \in 1 .. Pages /\ (then = "more" <=> 1 > 1) /\ d \in Desks
    BY DeskBounds DEF DeskThens, IsDesk
  <1>6. DeskReads(calls, calls', d.name, d.key, 1, then)
    BY <1>2, <1>4, <1>5, DeskRead
  <1>7. DeskCarries(e, desk', then)
    BY <1>3 DEF DeskCarries
  <1>8. DeskWaits(desk', calls')
    BY <1>3, <1>6, <1>7, DeskWaitsRead
  <1>9. DeskCalls(calls', desk'.name)
    BY <1>3, <1>6 DEF DeskReads
  <1>10. crossed' \in BOOLEAN
    BY <1>2 DEF Desk!Joins
  <1>11. ASSUME ~crossed' PROVE DeskTrue(desk', unread', price', calls')
    <2>1. calls = {} \/ (d.name = desk.name /\ (crossed \/ DeskTrue(desk, unread, price, calls)))
      BY DEF DeskInv
    <2>2. DeskFresh(d, unread, price, calls)
      BY <1>2, <1>4, <1>11, <2>1, DeskJoins
    <2>3. DeskFresh(desk', unread, price, calls)
      BY <1>3, <2>2 DEF DeskFresh, DeskFaithful
    <2>4. DeskFirst(calls') /\ DeskFresh(desk', unread, price, calls')
      BY <1>3, <1>6, <2>3, DeskFreshRead
    <2> QED
      BY <2>4, DeskFreshTrue
  <1> QED
    BY <1>0, <1>3, <1>8, <1>9, <1>10, <1>11 DEF DeskKnown, DeskInv, DeskPlace, DeskFits

LEMMA DeskBlank ==
    /\ IsDesk(Desk!Blank) /\ Desk!Blank.name = None /\ ~Desk!Blank.loading /\ ~Desk!Blank.refreshing /\ ~Desk!Blank.more
    /\ ~Desk!Blank.busy
  <1>1. \A S : <<>> \in Seq(S)
    OBVIOUS
  <1>2. <<>> \in Seq(DeskPieces)
    BY <1>1, Zenon
  <1>3. Cardinality(Notices) \in Nat
    BY DeskBounds, FS_CardinalityType
  <1> QED
    BY <1>2, <1>3, DeskBounds DEF Desk!Blank, IsDesk, Desks, DeskKeys

LEMMA DeskOpens == ASSUME DeskInv, Desk!Open, UNCHANGED <<unread, price>> PROVE DeskInv'
  <1>1. calls = {}
    BY DEF Desk!Open
  <1>2. PICK s \in Desk!Screens, k \in DeskKeys, then \in {"initial"} : Desk!Load([Desk!Blank EXCEPT !.name = s, !.key = k], calls, then)
    <2>1. PICK s \in Desk!Screens : \E k \in IF s \in Desk!Keyed THEN Keys ELSE {None} :
             Desk!Load([Desk!Blank EXCEPT !.name = s, !.key = k], calls, "initial")
      BY DEF Desk!Open
    <2>2. PICK k \in IF s \in Desk!Keyed THEN Keys ELSE {None} : Desk!Load([Desk!Blank EXCEPT !.name = s, !.key = k], calls, "initial")
      BY <2>1
    <2>3. k \in DeskKeys
      BY <2>2 DEF DeskKeys
    <2> QED
      BY <2>2, <2>3
  <1>3. PICK d : d = [Desk!Blank EXCEPT !.name = s, !.key = k]
    OBVIOUS
  <1>4. IsDesk(d) /\ d.name = s /\ ~d.more /\ ~d.refreshing /\ ~d.busy /\ ~d.loading
    BY <1>3, DeskBlank DEF IsDesk, Desks
  <1>5. DeskWaits(d, calls)
    BY <1>1, <1>4 DEF DeskWaits
  <1>6. DeskCarries(d, d, then)
    BY DEF DeskCarries
  <1>7. d.name # None /\ Desk!Load(d, calls, then)
    BY <1>2, <1>3, <1>4, DeskNames
  <1> QED
    BY <1>1, <1>4, <1>5, <1>6, <1>7, DeskLoads

\* Of a screen that is left what writes goes on.
LEMMA DeskGone ==
    ASSUME NEW cs, NEW name, DeskCalls(cs, name), NEW ds, ds = {[c EXCEPT !.owner = "gone"] : c \in {d \in cs : d.what # "read"}}
    PROVE  DeskCalls(ds, None) /\ \A d \in ds : d.what # "read"
  <1>1. PICK S : S = {d \in cs : d.what # "read"}
    OBVIOUS
  <1>2. PICK g : g = [c \in S |-> [c EXCEPT !.owner = "gone"]]
    OBVIOUS
  <1>3. ds = {g[c] : c \in S}
    BY <1>1, <1>2
  <1>4. PICK none : none = None
    OBVIOUS
  <1>5. ASSUME NEW c \in S
        PROVE  g[c].id = c.id /\ g[c].what # "read" /\ DeskCall(g[c], none)
    <2>1. DeskCall(c, name) /\ c.what # "read"
      BY <1>1 DEF DeskCalls
    <2>2. PICK d : d = g[c]
      OBVIOUS
    <2>3. d = [c EXCEPT !.owner = "gone"]
      BY <1>2, <2>2
    <2>4. d.id = c.id /\ d.what # "read" /\ DeskCall(d, none)
      BY <1>4, <2>1, <2>3 DEF DeskCall
    <2> QED
      BY <2>2, <2>4
  <1>6. Numbered(cs) /\ S \subseteq cs
    BY <1>1 DEF DeskCalls
  <1>7. (\A d \in ds : \E c \in S : d = g[c]) /\ \A c \in S : g[c] \in ds
    BY <1>3
  <1>8. Numbered(ds)
    BY <1>5, <1>6, <1>7, NumberedLeft
  <1> QED
    BY <1>4, <1>5, <1>7, <1>8 DEF DeskCalls

\* What changes nothing that the screen waits for, shows of the server or asks for.
DeskLooks(d, e) == /\ IsDesk(e) /\ e.name = d.name /\ e.key = d.key /\ e.loading = d.loading /\ e.refreshing = d.refreshing
                   /\ e.more = d.more /\ e.busy = d.busy /\ e.shown = d.shown /\ e.page = d.page
                   /\ e.listed = d.listed /\ e.unseen = d.unseen /\ e.badge = d.badge /\ e.price = d.price

LEMMA DeskSame ==
    ASSUME DeskInv, DeskLooks(desk, desk'), UNCHANGED <<unread, price, calls, crossed>>
    PROVE  DeskInv'
  <1>1. DeskPlace(unread', price', desk', crossed')
    BY DEF DeskInv, DeskPlace, DeskLooks
  <1>2. DeskFits(desk', calls')
    BY DEF DeskInv, DeskFits, DeskWaits, DeskLooks
  <1>3. DeskTrue(desk, unread, price, calls) => DeskTrue(desk', unread', price', calls')
    <2>1. (DeskTogether(desk, calls) => DeskTogether(desk', calls')) /\ (DeskWhole(desk) => DeskWhole(desk'))
      BY DEF DeskLooks, DeskTogether, DeskWhole
    <2>2. DeskFaithful(desk, unread, price, calls) => DeskFaithful(desk', unread', price', calls')
      BY DEF DeskLooks, DeskFaithful
    <2>3. DeskMessages(desk, unread, calls) => DeskMessages(desk', unread', calls')
      BY DEF DeskLooks, DeskMessages, DeskUnseen
    <2>4. DeskPrices(desk, price, calls) => DeskPrices(desk', price', calls')
      BY DEF DeskLooks, DeskPrices
    <2> QED
      BY <2>1, <2>2, <2>3, <2>4 DEF DeskLooks, DeskTrue
  <1> QED
    BY <1>1, <1>2, <1>3 DEF DeskInv, DeskLooks

\* Prices are the quick change's alone.
LEMMA DeskQuickOffers ==
    ASSUME desk \in Desks
    PROVE  /\ "price" \in Desk!Offers => desk.price # None
           /\ "save" \in Desk!Offers => desk.draft # desk.price
           /\ desk.name = None => Desk!Offers = {}
  <1>1. CASE ~Desk!Front
    BY <1>1 DEF Desk!Offers, Desk!Front
  <1>2. CASE Desk!Front
    <2>1. desk.name # None /\ desk.name \in Desk!Screens
      BY <1>2 DEF Desk!Front, Desks
    <2>2. Desk!Offers \in {Desk!BenchOffers, Desk!OrdersOffers, Desk!MessagesOffers, Desk!StatisticsOffers,
                          Desk!ProfileOffers, Desk!QuickOffers}
      BY <1>2, <2>1 DEF Desk!Offers, Desk!Screens
    <2>3. \A w \in {"price", "save"} : w \notin Desk!BenchOffers /\ w \notin Desk!StatisticsOffers /\ w \notin Desk!ProfileOffers
      BY DEF Desk!BenchOffers, Desk!StatisticsOffers, Desk!ProfileOffers
    <2>4. \A w \in {"price", "save"} : w \notin Desk!OrdersOffers
      BY DEF Desk!OrdersOffers
    <2>5. \A w \in {"price", "save"} : w \notin Desk!MessagesOffers
      BY DEF Desk!MessagesOffers
    <2>6. ("price" \in Desk!QuickOffers => desk.price # None) /\ ("save" \in Desk!QuickOffers => desk.draft # desk.price)
      BY DEF Desk!QuickOffers
    <2> QED
      BY <2>1, <2>2, <2>3, <2>4, <2>5, <2>6
  <1> QED
    BY <1>1, <1>2

LEMMA DeskGoes ==
    ASSUME DeskInv, Desk!Go, UNCHANGED <<unread, price>>
    PROVE  DeskInv'
  <1>0. DeskKnown
    BY DesksKnown
  <1>k. IsDesk(desk) /\ desk \in Desks
    BY <1>0 DEF DeskKnown
  <1>1. CASE Desk!Open
    BY <1>1, DeskOpens
  <1>2. CASE Desk!Close
    <2>1. desk' = Desk!Blank /\ crossed' = FALSE
      BY <1>2 DEF Desk!Close
    <2>2. calls' = {[c EXCEPT !.owner = "gone"] : c \in {d \in calls : d.what # "read"}}
      BY <1>2 DEF Desk!Close, Desk!Reads
    <2>3. DeskCalls(calls', None) /\ \A d \in calls' : d.what # "read"
      BY <1>0, <2>2, DeskGone DEF DeskKnown
    <2>4. DeskFits(desk', calls')
      BY <2>1, <2>3, DeskBlank DEF DeskFits, DeskWaits, DeskMore
    <2> QED
      BY <1>0, <2>1, <2>4, DeskBlank DEF DeskKnown, DeskInv, DeskPlace
  <1>3. CASE Desk!OrderCard \/ Desk!GoAway
    <2>1. desk' = [desk EXCEPT !.away = TRUE] /\ UNCHANGED <<calls, crossed>>
      BY <1>3 DEF Desk!OrderCard, Desk!GoAway, Desk!GoTo
    <2>2. DeskLooks(desk, desk')
      BY <1>k, <2>1 DEF DeskLooks, IsDesk, Desks
    <2> QED
      BY <2>1, <2>2, DeskSame
  <1>4. CASE Desk!ComeBack
    <2>1. PICK d : d = [desk EXCEPT !.away = FALSE]
      OBVIOUS
    <2>2. DeskLooks(desk, d)
      BY <1>k, <2>1 DEF DeskLooks, IsDesk, Desks
    <2>3. CASE d.name \in Desk!FocusLoads
      <3>1. PICK then \in {"initial"} : Desk!Load(d, calls, then)
        BY <1>4, <2>1, <2>3 DEF Desk!ComeBack
      <3>2. DeskCarries(desk, d, then) /\ IsDesk(d) /\ d.name = desk.name
        BY <2>2 DEF DeskCarries, DeskLooks
      <3>3. d.name # None
        BY <2>3, DeskNames DEF Desk!FocusLoads, Desk!Screens
      <3>4. DeskWaits(desk, calls)
        BY <1>0 DEF DeskKnown
      <3> QED
        BY <3>1, <3>2, <3>3, <3>4, DeskLoads
    <2>4. CASE d.name \notin Desk!FocusLoads
      <3>1. desk' = d /\ UNCHANGED <<calls, crossed>>
        BY <1>4, <2>1, <2>4 DEF Desk!ComeBack
      <3> QED
        BY <2>2, <3>1, DeskSame
    <2> QED
      BY <2>3, <2>4
  <1>5. CASE Desk!TypePrice
    <2>1. PICK v \in Prices : desk' = [desk EXCEPT !.draft = v] /\ UNCHANGED <<calls, crossed>>
      BY <1>5 DEF Desk!TypePrice
    <2>2. desk.price # None
      BY <1>k, <1>5, DeskQuickOffers DEF Desk!TypePrice
    <2>3. DeskLooks(desk, desk')
      BY <1>k, <2>1, <2>2 DEF DeskLooks, IsDesk, Desks
    <2> QED
      BY <2>1, <2>3, DeskSame
  <1> QED
    BY <1>1, <1>2, <1>3, <1>4, <1>5 DEF Desk!Go

\* Messages are the messages' alone.
LEMMA DeskMessageOffers == ASSUME desk \in Desks, "message" \in Desk!Offers PROVE desk.name = "messages"
  <1>1. Desk!Front
    BY DEF Desk!Offers
  <1>2. desk.name # None /\ desk.name \in Desk!Screens
    BY <1>1 DEF Desk!Front, Desks
  <1>3. desk.name # "messages" => Desk!Offers \in {Desk!BenchOffers, Desk!OrdersOffers, Desk!StatisticsOffers,
                                                   Desk!ProfileOffers, Desk!QuickOffers}
    BY <1>1, <1>2 DEF Desk!Offers, Desk!Screens
  <1>4. "message" \notin Desk!BenchOffers /\ "message" \notin Desk!StatisticsOffers /\ "message" \notin Desk!ProfileOffers
    BY DEF Desk!BenchOffers, Desk!StatisticsOffers, Desk!ProfileOffers
  <1>5. "message" \notin Desk!OrdersOffers
    BY DEF Desk!OrdersOffers
  <1>6. "message" \notin Desk!QuickOffers
    BY DEF Desk!QuickOffers
  <1> QED
    BY <1>3, <1>4, <1>5, <1>6

\* A screen that reads its first page once more, for itself.
LEMMA DeskTabs ==
    ASSUME DeskInv, NEW k \in Keys, desk.name # None, Desk!TabPressed(k), UNCHANGED <<unread, price>>
    PROVE  DeskInv'
  <1>0. DeskKnown
    BY DesksKnown
  <1>1. PICK d : d = [desk EXCEPT !.key = k, !.failed = FALSE]
    OBVIOUS
  <1>2. IsDesk(d) /\ d \in Desks /\ d.name = desk.name /\ d.key = k /\ d.more = desk.more /\ d.busy = desk.busy
        /\ d.refreshing = desk.refreshing
    BY <1>0, <1>1 DEF DeskKnown, IsDesk, Desks, DeskKeys
  <1>t. PICK then \in {"initial"} : TRUE
    OBVIOUS
  <1>3. PICK once : once = Desk!Read(calls, d, 1, then)
    OBVIOUS
  <1>4. /\ desk' = d /\ crossed' = Desk!Joins(calls, d, 1)
        /\ calls' = once \/ calls' = Desk!Read(once, d, 1, then)
    BY <1>1, <1>t, <1>3 DEF Desk!TabPressed
  <1>5. then \in DeskThens /\ 1 \in 1 .. Pages /\ (then = "more" <=> 1 > 1)
    BY <1>t, DeskBounds DEF DeskThens
  <1>6. DeskCalls(calls, d.name)
    BY <1>0, <1>2 DEF DeskKnown
  <1>7. DeskReads(calls, once, d.name, d.key, 1, then)
    BY <1>2, <1>3, <1>5, <1>6, DeskRead
  <1>8. DeskCarries(desk, d, then) /\ DeskCarries(d, d, then)
    BY <1>2 DEF DeskCarries
  <1>9. DeskWaits(d, once)
    BY <1>0, <1>7, <1>8, DeskWaitsRead DEF DeskKnown
  <1>10. DeskCalls(once, d.name)
    BY <1>7 DEF DeskReads
  <1>11. ASSUME ~crossed' PROVE DeskFresh(d, unread, price, once) /\ DeskFirst(once)
    <2>1. crossed \/ DeskTrue(desk, unread, price, calls)
      BY DEF DeskInv
    <2>2. DeskFresh(d, unread, price, calls)
      BY <1>2, <1>4, <1>6, <1>11, <2>1, DeskJoins
    <2> QED
      BY <1>7, <2>2, DeskFreshRead
  <1>12. /\ DeskCalls(calls', d.name) /\ DeskWaits(d, calls')
         /\ ~crossed' => DeskFresh(d, unread, price, calls') /\ DeskFirst(calls')
    <2>1. CASE calls' = once
      BY <1>9, <1>10, <1>11, <2>1
    <2>2. CASE calls' = Desk!Read(once, d, 1, then)
      <3>1. DeskReads(once, calls', d.name, d.key, 1, then)
        BY <1>2, <1>5, <1>10, <2>2, DeskRead
      <3>2. DeskWaits(d, calls')
        BY <1>8, <1>9, <3>1, DeskWaitsRead
      <3>3. DeskCalls(calls', d.name)
        BY <3>1 DEF DeskReads
      <3> QED
        BY <1>11, <3>1, <3>2, <3>3, DeskFreshRead
    <2> QED
      BY <1>4, <2>1, <2>2
  <1>13. crossed' \in BOOLEAN
    BY <1>4 DEF Desk!Joins
  <1>14. ~crossed' => DeskTrue(desk', unread', price', calls')
    BY <1>4, <1>12, DeskFreshTrue
  <1> QED
    BY <1>0, <1>2, <1>4, <1>12, <1>13, <1>14 DEF DeskKnown, DeskInv, DeskPlace, DeskFits

\* What writes is asked for alone, or crosses.
LEMMA DeskWrites ==
    ASSUME DeskInv, desk.name # None, NEW what \in {"mark", "markAll", "prices"}, NEW arg, DeskAsk(what, arg, desk.name),
           calls' = calls \cup {Desk!Request(calls, "desk", what, arg)}, crossed' = (crossed \/ calls # {}),
           NEW b \in BOOLEAN, desk' = [desk EXCEPT !.busy = b], b => desk.busy \/ what = "prices",
           what = "mark" => desk.name = "messages" /\ arg.of \in desk.unseen, UNCHANGED <<unread, price>>
    PROVE  DeskInv'
  <1>0. DeskKnown
    BY DesksKnown
  <1>1. PICK c : /\ calls \cup {Desk!Request(calls, "desk", what, arg)} = calls \cup {c}
                 /\ DeskSends(c, calls, desk.name, what, arg)
    BY <1>0, DeskAsks DEF DeskKnown
  <1>2. /\ calls' = calls \cup {c} /\ c.what = what /\ c.arg = arg /\ c.owner = "desk" /\ c.state = "sent"
        /\ DeskCalls(calls', desk.name) /\ c.what # "read"
    BY <1>1 DEF DeskSends
  <1>3. /\ IsDesk(desk') /\ desk'.name = desk.name /\ desk'.key = desk.key /\ desk'.loading = desk.loading
        /\ desk'.refreshing = desk.refreshing /\ desk'.more = desk.more /\ desk'.busy = b /\ desk'.shown = desk.shown
        /\ desk'.page = desk.page /\ desk'.listed = desk.listed /\ desk'.unseen = desk.unseen /\ desk'.badge = desk.badge /\ desk'.price = desk.price
    BY <1>0 DEF DeskKnown, IsDesk, Desks
  <1>4. DeskWaits(desk', calls')
    <2>1. /\ desk'.loading => DeskFirst(calls')
          /\ desk'.refreshing /\ desk'.name \in Desk!Catches => \E e \in calls' : e.what = "read" /\ e.arg.then = "refresh"
      BY <1>0, <1>2, <1>3 DEF DeskKnown, DeskWaits, DeskFirst
    <2>2. /\ desk'.more <=> \E e \in calls' : DeskMore(e)
          /\ \A e, f \in calls' : DeskMore(e) /\ DeskMore(f) => e = f
      BY <1>0, <1>2, <1>3 DEF DeskKnown, DeskWaits, DeskMore
    <2>3. desk'.busy => \E e \in calls' : DeskBusy(e)
      BY <1>0, <1>2, <1>3 DEF DeskKnown, DeskWaits, DeskBusy
    <2> QED
      BY <2>1, <2>2, <2>3 DEF DeskWaits
  <1>5. ASSUME ~crossed' PROVE DeskTrue(desk', unread', price', calls')
    <2>1. calls = {} /\ calls' = {c} /\ DeskTrue(desk, unread, price, calls)
      BY <1>2, <1>5 DEF DeskInv
    <2>2. DeskWhole(desk')
      BY <1>3, <2>1 DEF DeskTrue, DeskFirst, DeskWhole
    <2>3. DeskTogether(desk', calls') /\ DeskFaithful(desk', unread', price', calls')
      BY <1>2, <2>1 DEF DeskTogether, DeskFaithful
    <2>4. desk'.name = "messages" => DeskMessages(desk', unread', calls')
      BY <1>2, <1>3, <2>1 DEF DeskTrue, DeskFirst, DeskMessages, DeskUnseen
    <2>5. desk'.name = "quick" => DeskPrices(desk', price', calls')
      BY <1>3, <2>1 DEF DeskTrue, DeskFirst, DeskPrices
    <2> QED
      BY <2>2, <2>3, <2>4, <2>5 DEF DeskTrue
  <1> QED
    BY <1>0, <1>2, <1>3, <1>4, <1>5 DEF DeskKnown, DeskInv, DeskPlace, DeskFits

LEMMA DeskMores == ASSUME DeskInv, desk.name # None, Desk!More, UNCHANGED <<unread, price>> PROVE DeskInv'
  <1>0. DeskKnown
    BY DesksKnown
  <1>k. /\ IsDesk(desk) /\ desk \in Desks /\ DeskCalls(calls, desk.name) /\ DeskWaits(desk, calls)
    BY <1>0 DEF DeskKnown
  <1>1. /\ desk.page < desk.total /\ ~desk.more /\ desk' = [desk EXCEPT !.more = TRUE]
        /\ crossed' = (crossed \/ \E c \in calls : c.what # "read" \/ c.arg.page = 1)
    BY DEF Desk!More, Desk!NextPage
  <1>2. PICK n \in {desk.page + 1}, then \in {"more"} : n = desk.page + 1 /\ calls' = Desk!Read(calls, desk, n, then)
    BY DEF Desk!More
  <1>3. n \in 1 .. Pages /\ n > 1 /\ then \in DeskThens /\ (then = "more" <=> n > 1)
    BY <1>k, <1>1, <1>2, DeskBounds DEF Desks, DeskThens
  <1>4. DeskReads(calls, calls', desk.name, desk.key, n, then)
    BY <1>k, <1>2, <1>3, DeskRead
  <1>5. PICK c : /\ calls' = calls \cup {c} /\ c.what = "read" /\ c.state = "sent" /\ DeskCalls(calls', desk.name)
                 /\ c.arg.key = desk.key /\ c.arg.page = n
    BY <1>4 DEF DeskReads
  <1>6. /\ IsDesk(desk') /\ desk'.name = desk.name /\ desk'.key = desk.key /\ desk'.loading = desk.loading
        /\ desk'.refreshing = desk.refreshing /\ desk'.more /\ desk'.busy = desk.busy /\ desk'.shown = desk.shown
        /\ desk'.page = desk.page /\ desk'.listed = desk.listed /\ desk'.unseen = desk.unseen /\ desk'.badge = desk.badge /\ desk'.price = desk.price
    BY <1>k, <1>1 DEF IsDesk, Desks
  <1>7. \A e \in calls : ~DeskMore(e)
    BY <1>k, <1>1 DEF DeskWaits, Desks
  <1>8. DeskWaits(desk', calls')
    <2>1. /\ desk'.loading => DeskFirst(calls')
          /\ desk'.refreshing /\ desk'.name \in Desk!Catches => \E e \in calls' : e.what = "read" /\ e.arg.then = "refresh"
      BY <1>k, <1>5, <1>6 DEF DeskWaits, DeskFirst
    <2>2. DeskMore(c)
      BY <1>3, <1>5 DEF DeskMore
    <2>3. /\ desk'.more <=> \E e \in calls' : DeskMore(e)
          /\ \A e, f \in calls' : DeskMore(e) /\ DeskMore(f) => e = f
      BY <1>5, <1>6, <1>7, <2>2
    <2>4. desk'.busy => \E e \in calls' : DeskBusy(e)
      BY <1>k, <1>5, <1>6 DEF DeskWaits, DeskBusy
    <2> QED
      BY <2>1, <2>3, <2>4 DEF DeskWaits
  <1>9. ASSUME ~crossed' PROVE DeskTrue(desk', unread', price', calls')
    <2>1. DeskTrue(desk, unread, price, calls) /\ \A e \in calls : e.what = "read" /\ e.arg.page # 1
      BY <1>1, <1>9 DEF DeskInv
    <2>2. \A e \in calls : e.arg.page \in 1 .. Pages
      BY <1>k, <2>1 DEF DeskCalls, DeskCall, DeskArgs
    <2>3. calls = {}
      BY <1>7, <2>1, <2>2, DeskBounds DEF DeskMore
    <2>4. calls' = {c} /\ c.arg.page = desk'.page + 1 /\ c.arg.key = desk'.key
      BY <1>2, <1>5, <1>6, <2>3
    <2>5. DeskWhole(desk')
      BY <1>6, <2>1, <2>3 DEF DeskTrue, DeskFirst, DeskWhole
    <2>6. DeskTogether(desk', calls') /\ DeskFaithful(desk', unread', price', calls')
      BY <1>5, <2>4 DEF DeskTogether, DeskFaithful
    <2>7. desk'.name = "messages" => DeskMessages(desk', unread', calls')
      BY <1>5, <1>6, <2>1, <2>3, <2>4 DEF DeskTrue, DeskFirst, DeskMessages, DeskUnseen
    <2>8. desk'.name = "quick" => DeskPrices(desk', price', calls')
      BY <1>6, <2>1, <2>3 DEF DeskTrue, DeskFirst, DeskPrices
    <2> QED
      BY <2>5, <2>6, <2>7, <2>8 DEF DeskTrue
  <1>10. crossed' \in BOOLEAN
    BY <1>0, <1>1 DEF DeskKnown
  <1> QED
    BY <1>0, <1>5, <1>6, <1>8, <1>9, <1>10 DEF DeskKnown, DeskInv, DeskPlace, DeskFits

LEMMA DeskTaps ==
    ASSUME DeskInv, Desk!Tap, UNCHANGED <<unread, price>>
    PROVE  DeskInv'
  <1>0. DeskKnown
    BY DesksKnown
  <1>k. IsDesk(desk) /\ desk \in Desks /\ DeskWaits(desk, calls)
    BY <1>0 DEF DeskKnown
  <1>o. Desk!Offers # {} => desk.name # None
    BY <1>k, DeskQuickOffers
  <1>1. CASE Desk!Refresh
    <2>1. PICK d : d = [desk EXCEPT !.refreshing = TRUE]
      OBVIOUS
    <2>2. PICK then \in {"refresh"} : Desk!Load(d, calls, then)
      BY <1>1, <2>1 DEF Desk!Refresh
    <2>3. /\ IsDesk(d) /\ d.name = desk.name /\ d.more = desk.more /\ d.busy = desk.busy
      BY <1>k, <2>1 DEF IsDesk, Desks
    <2>4. DeskCarries(desk, d, then) /\ d.name # None
      BY <1>o, <1>1, <2>2, <2>3 DEF DeskCarries, Desk!Refresh
    <2> QED
      BY <1>k, <2>2, <2>3, <2>4, DeskLoads
  <1>2. CASE Desk!More
    <2>1. desk.name # None
      BY <1>o, <1>2 DEF Desk!More
    <2> QED
      BY <1>2, <2>1, DeskMores
  <1>3. CASE Desk!MarkAllRead
    <2>1. PICK what \in {"markAll"}, arg \in {[key |-> desk.key]} : arg = [key |-> desk.key] /\ calls' = calls \cup {Desk!Request(calls, "desk", what, arg)}
      BY <1>3 DEF Desk!MarkAllRead
    <2>2. crossed' = (crossed \/ calls # {}) /\ desk' = desk /\ desk.name # None
      BY <1>o, <1>3 DEF Desk!MarkAllRead
    <2>3. PICK b \in BOOLEAN : b = desk.busy
      BY <1>k DEF Desks
    <2>4. desk' = [desk EXCEPT !.busy = b]
      BY <1>k, <2>2, <2>3 DEF Desks
    <2>5. DeskAsk(what, arg, desk.name)
      BY <1>k, <2>1 DEF DeskAsk, Desks
    <2> QED
      BY <2>1, <2>2, <2>3, <2>4, <2>5, DeskWrites
  <1>4. CASE Desk!SavePrices
    <2>1. PICK what \in {"prices"}, arg \in {[new |-> desk.draft]} : arg = [new |-> desk.draft] /\ calls' = calls \cup {Desk!Request(calls, "desk", what, arg)}
      BY <1>4 DEF Desk!SavePrices
    <2>2. PICK b \in BOOLEAN : b /\ desk' = [desk EXCEPT !.busy = b]
      BY <1>4 DEF Desk!SavePrices
    <2>3. crossed' = (crossed \/ calls # {}) /\ desk.name # None /\ desk.draft # desk.price
      BY <1>k, <1>o, <1>4, DeskQuickOffers DEF Desk!SavePrices
    <2>4. desk.draft \in Prices
      BY <1>k, <2>3 DEF IsDesk
    <2>5. DeskAsk(what, arg, desk.name)
      BY <2>1, <2>4 DEF DeskAsk
    <2> QED
      BY <2>1, <2>2, <2>3, <2>5, DeskWrites
  <1>5. ASSUME NEW k \in Keys, Desk!Choose(k) PROVE DeskInv'
    <2>0. desk.name # None
      BY <1>o, <1>5 DEF Desk!Choose
    <2>1. CASE Desk!TabPressed(k)
      BY <2>0, <2>1, DeskTabs
    <2>2. CASE Desk!OrdersFilter(k)
      <3>1. PICK d : d = [desk EXCEPT !.key = k]
        OBVIOUS
      <3>2. PICK then \in {"initial"} : Desk!Load(d, calls, then)
        BY <2>2, <3>1 DEF Desk!OrdersFilter
      <3>3. IsDesk(d) /\ d.name = desk.name /\ d.more = desk.more /\ d.busy = desk.busy /\ d.refreshing = desk.refreshing
        BY <1>k, <3>1 DEF IsDesk, Desks, DeskKeys
      <3>4. DeskCarries(desk, d, then)
        BY <3>3 DEF DeskCarries
      <3> QED
        BY <1>k, <2>0, <3>2, <3>3, <3>4, DeskLoads
    <2> QED
      BY <1>5, <2>1, <2>2 DEF Desk!Choose
  <1>6. ASSUME NEW n \in Notices, Desk!MarkRead(n) PROVE DeskInv'
    <2>1. PICK what \in {"mark"}, arg \in {[of |-> n]} : arg = [of |-> n] /\ calls' = calls \cup {Desk!Request(calls, "desk", what, arg)}
      BY <1>6 DEF Desk!MarkRead
    <2>2. crossed' = (crossed \/ calls # {}) /\ desk' = desk /\ desk.name # None /\ n \in desk.unseen
      BY <1>o, <1>6 DEF Desk!MarkRead
    <2>3. PICK b \in BOOLEAN : b = desk.busy
      BY <1>k DEF Desks
    <2>4. desk' = [desk EXCEPT !.busy = b]
      BY <1>k, <2>2, <2>3 DEF Desks
    <2>5. DeskAsk(what, arg, desk.name) /\ arg.of = n
      BY <2>1 DEF DeskAsk
    <2>6. desk.name = "messages"
      BY <1>k, <1>6, DeskMessageOffers DEF Desk!MarkRead
    <2> QED
      BY <2>1, <2>2, <2>3, <2>4, <2>5, <2>6, DeskWrites
  <1> QED
    BY <1>1, <1>2, <1>3, <1>4, <1>5, <1>6 DEF Desk!Tap

LEMMA DeskWholeFirst == ASSUME NEW d, NEW x, d.shown = <<x>>, d.page = 1, x = [key |-> d.key, page |-> 1] PROVE DeskWhole(d)
  <1>1. 1 .. d.page = {1}
    OBVIOUS
  <1> QED
    BY <1>1 DEF DeskWhole

LEMMA DeskWholeMore ==
    ASSUME NEW d \in Desks, DeskWhole(d), NEW n, n = d.page + 1, NEW x, x = [key |-> d.key, page |-> n],
           NEW e, e.key = d.key, e.page = n, e.shown = Append(d.shown, x)
    PROVE  DeskWhole(e)
  <1>1. d.page \in Nat /\ d.page >= 1
    BY DeskBounds DEF Desks
  <1>2. PICK k : k = d.key
    OBVIOUS
  <1>3. PICK m \in Nat : m = d.page
    BY <1>1
  <1>4. PICK s : s = [p \in 1 .. m |-> [key |-> k, page |-> p]]
    OBVIOUS
  <1>5. d.shown = s
    BY <1>2, <1>3, <1>4 DEF DeskWhole
  <1>6. PICK S : \A p \in 1 .. (m + 1) : [key |-> k, page |-> p] \in S
    <2> WITNESS {[key |-> k, page |-> p] : p \in 1 .. (m + 1)}
    <2> QED
      BY <1>3
  <1>7. s \in Seq(S) /\ Len(s) = m
    BY <1>3, <1>4, <1>6
  <1>8. x \in S
    BY <1>2, <1>3, <1>6
  <1>9. PICK t : t = Append(s, x)
    OBVIOUS
  <1>10. t \in Seq(S) /\ Len(t) = m + 1 /\ \A p \in 1 .. (m + 1) : t[p] = IF p = m + 1 THEN x ELSE s[p]
    BY <1>3, <1>7, <1>8, <1>9
  <1>11. \A p \in 1 .. (m + 1) : t[p] = [key |-> k, page |-> p]
    <2> SUFFICES ASSUME NEW p \in 1 .. (m + 1) PROVE t[p] = [key |-> k, page |-> p]
      OBVIOUS
    <2>1. CASE p = m + 1
      BY <1>2, <1>3, <1>10, <2>1
    <2>2. CASE p # m + 1
      <3>1. p \in 1 .. m
        BY <1>3, <2>2
      <3>2. s[p] = [key |-> k, page |-> p]
        BY <1>4, <3>1
      <3> QED
        BY <1>10, <2>2, <3>2
    <2> QED
      BY <2>1, <2>2
  <1>12. t = [p \in 1 .. (m + 1) |-> t[p]]
    BY <1>3, <1>10
  <1>13. t = [p \in 1 .. (m + 1) |-> [key |-> k, page |-> p]]
    BY <1>11, <1>12
  <1> QED
    BY <1>2, <1>3, <1>5, <1>9, <1>13 DEF DeskWhole

\* What the answer c of a read leaves of the screen d.
DeskAnswered(d, c, e) ==
    /\ IsDesk(e) /\ e.name = d.name /\ e.key = d.key
    /\ e.loading => d.loading /\ c.arg.then = "more"
    /\ e.refreshing /\ e.name \in Desk!Catches => d.refreshing /\ c.arg.then # "refresh"
    /\ e.more <=> d.more /\ c.arg.then # "more"
    /\ e.busy => d.busy /\ c.arg.then # "prices"
DeskFilled(d, c, e) ==
    /\ e.page = c.arg.page /\ e.price = c.reply.price /\ e.badge = c.reply.badge
    /\ e.shown = IF c.arg.page = 1 THEN <<Desk!Piece(c)>> ELSE Append(d.shown, Desk!Piece(c))
    /\ e.listed = c.reply.listed \cup (IF c.arg.page = 1 THEN {} ELSE d.listed)
    /\ e.unseen = c.reply.unseen \cup (IF c.arg.page = 1 THEN {} ELSE d.unseen)

LEMMA DeskAnswers ==
    ASSUME NEW d, IsDesk(d), NEW c, DeskCall(c, d.name), c.what = "read", c.state \in {"done", "refused"},
           NEW e, e = Desk!Over(IF c.state = "done" THEN Desk!Loaded(d, c) ELSE Desk!NotLoaded(d, c), c)
    PROVE  DeskAnswered(d, c, e) /\ (c.state = "done" => DeskFilled(d, c, e))
  <1>k. d \in Desks /\ c.arg \in DeskArgs(d.name) /\ (c.state = "done" => c.reply \in DeskReplies)
    BY DEF DeskCall, IsDesk
  <1>p. Desk!Piece(c) \in DeskPieces
    BY <1>k DEF Desk!Piece, DeskPieces, DeskArgs
  <1>e. \A S : <<>> \in Seq(S) /\ \A x \in S : <<x>> \in Seq(S)
    OBVIOUS
  <1>f. <<>> \in Seq(DeskPieces) /\ <<Desk!Piece(c)>> \in Seq(DeskPieces)
    BY <1>e, <1>p, Zenon
  <1>1. PICK f : f = IF c.state = "done" THEN Desk!Loaded(d, c) ELSE Desk!NotLoaded(d, c)
    OBVIOUS
  <1>2. /\ IsDesk(f) /\ f.name = d.name /\ f.key = d.key /\ f.loading = d.loading /\ f.refreshing = d.refreshing
        /\ f.more = d.more /\ f.busy = d.busy /\ (c.state = "done" => DeskFilled(d, c, f))
    <2>1. CASE c.state = "done"
      <3>1. PICK s : s = IF c.arg.page = 1 THEN <<Desk!Piece(c)>> ELSE Append(d.shown, Desk!Piece(c))
        OBVIOUS
      <3>2. s \in Seq(DeskPieces)
        <4>1. d.shown \in Seq(DeskPieces)
          BY <1>k DEF Desks
        <4>2. Append(d.shown, Desk!Piece(c)) \in Seq(DeskPieces)
          BY <1>p, <4>1
        <4> QED
          BY <1>f, <3>1, <4>2
      <3>3. PICK n : n = c.arg.page
        OBVIOUS
      <3>4. n \in 1 .. Pages
        BY <1>k, <3>3 DEF DeskArgs
      <3>5. PICK u, l : /\ u = c.reply.unseen \cup (IF n = 1 THEN {} ELSE d.unseen)
                        /\ l = c.reply.listed \cup (IF n = 1 THEN {} ELSE d.listed)
        OBVIOUS
      <3>6. u \in SUBSET Notices /\ l \in SUBSET Notices
        BY <1>k, <2>1, <3>5 DEF Desks, DeskReplies
      <3>7. PICK b : b = c.reply.badge
        OBVIOUS
      <3>8. b \in 0 .. Cardinality(Notices)
        BY <1>k, <2>1, <3>7 DEF DeskReplies
      <3>9. PICK v : v = c.reply.price
        OBVIOUS
      <3>10. v \in Prices
        BY <1>k, <2>1, <3>9 DEF DeskReplies
      <3>11. f = [d EXCEPT !.shown = s, !.page = n, !.total = Pages, !.listed = l, !.unseen = u, !.badge = b, !.price = v, !.draft = v]
        BY <1>1, <2>1, <3>1, <3>3, <3>5, <3>7, <3>9 DEF Desk!Loaded
      <3>12. f \in Desks /\ f.draft \in Prices /\ (f.price = None => f.draft = None)
        BY <1>k, <3>2, <3>4, <3>6, <3>8, <3>10, <3>11 DEF Desks
      <3>13. /\ f.name = d.name /\ f.key = d.key /\ f.loading = d.loading /\ f.refreshing = d.refreshing
             /\ f.more = d.more /\ f.busy = d.busy /\ f.page = n /\ f.shown = s /\ f.listed = l /\ f.unseen = u /\ f.badge = b
             /\ f.price = v
        BY <1>k, <3>11 DEF Desks
      <3> QED
        BY <3>1, <3>3, <3>5, <3>7, <3>9, <3>12, <3>13 DEF IsDesk, DeskFilled
    <2>2. CASE c.state # "done"
      <3>1. PICK b \in BOOLEAN : b <=> d.failed \/ d.name \in Desk!Catches
        OBVIOUS
      <3>2. PICK s \in Seq(DeskPieces) : s = IF d.name = "orders" /\ c.arg.then # "more" THEN <<>> ELSE d.shown
        BY <1>k, <1>f DEF Desks
      <3>3. f = [d EXCEPT !.failed = b, !.shown = s]
        BY <1>1, <1>k, <2>2, <3>1, <3>2 DEF Desk!NotLoaded, Desks
      <3> QED
        BY <1>k, <2>2, <3>3 DEF IsDesk, Desks
    <2> QED
      BY <2>1, <2>2
  <1>3. PICK l \in BOOLEAN : l <=> f.loading /\ c.arg.then = "more"
    OBVIOUS
  <1>4. PICK r \in BOOLEAN : r <=> f.refreshing /\ ~(c.arg.then = "refresh" /\ (c.state = "done" \/ f.name \in Desk!Catches))
    OBVIOUS
  <1>5. PICK m \in BOOLEAN : m <=> f.more /\ c.arg.then # "more"
    OBVIOUS
  <1>6. PICK b \in BOOLEAN : b <=> f.busy /\ c.arg.then # "prices"
    OBVIOUS
  <1>7. e = [f EXCEPT !.loading = l, !.refreshing = r, !.more = m, !.busy = b]
    BY <1>1, <1>2, <1>3, <1>4, <1>5, <1>6 DEF Desk!Over, IsDesk, Desks
  <1>8. /\ IsDesk(e) /\ e.name = f.name /\ e.key = f.key /\ e.loading = l /\ e.refreshing = r /\ e.more = m /\ e.busy = b
        /\ e.page = f.page /\ e.shown = f.shown /\ e.listed = f.listed /\ e.unseen = f.unseen /\ e.badge = f.badge /\ e.price = f.price
    <2>1. f \in Desks
      BY <1>2 DEF IsDesk
    <2>2. /\ e \in Desks /\ e.draft = f.draft /\ e.name = f.name /\ e.key = f.key /\ e.loading = l /\ e.refreshing = r /\ e.more = m /\ e.busy = b
          /\ e.page = f.page /\ e.shown = f.shown /\ e.listed = f.listed /\ e.unseen = f.unseen /\ e.badge = f.badge /\ e.price = f.price
      BY <1>7, <2>1 DEF Desks
    <2> QED
      BY <1>2, <2>2 DEF IsDesk
  <1>9. DeskAnswered(d, c, e)
    BY <1>2, <1>3, <1>4, <1>5, <1>6, <1>8 DEF DeskAnswered
  <1>10. c.state = "done" => DeskFilled(d, c, e)
    BY <1>2, <1>8 DEF DeskFilled
  <1> QED
    BY <1>9, <1>10

LEMMA DeskReadAnswered ==
    ASSUME DeskInv, NEW c \in calls, Desk!ReadAnswered(c), UNCHANGED <<unread, price>>
    PROVE  DeskInv'
  <1>0. DeskKnown
    BY DesksKnown
  <1>k. /\ IsDesk(desk) /\ desk \in Desks /\ DeskCalls(calls, desk.name) /\ DeskWaits(desk, calls) /\ DeskCall(c, desk.name)
        /\ crossed \in BOOLEAN
    BY <1>0 DEF DeskKnown, DeskCalls
  <1>1. /\ c.what = "read" /\ c.state \in {"done", "refused"} /\ calls' = calls \ {c}
        /\ desk' = Desk!Over(IF c.state = "done" THEN Desk!Loaded(desk, c) ELSE Desk!NotLoaded(desk, c), c)
        /\ crossed' = (crossed \/ c.state = "refused")
    BY DEF Desk!ReadAnswered, Desk!Ended
  <1>2. DeskAnswered(desk, c, desk') /\ (c.state = "done" => DeskFilled(desk, c, desk'))
    BY <1>k, <1>1, DeskAnswers
  <1>3. IsDesk(desk') /\ desk'.name = desk.name /\ desk'.key = desk.key
    BY <1>2 DEF DeskAnswered
  <1>a. c.arg \in DeskArgs(desk.name) /\ (c.arg.then = "more" <=> c.arg.page > 1) /\ desk.name # None
    BY <1>k, <1>1 DEF DeskCall
  <1>4. DeskCalls(calls', desk'.name)
    BY <1>k, <1>1, <1>3, DeskFewer
  <1>5. DeskWaits(desk', calls')
    <2>1. desk'.loading => DeskFirst(calls')
      BY <1>k, <1>a, <1>1, <1>2 DEF DeskWaits, DeskFirst, DeskAnswered
    <2>2. desk'.refreshing /\ desk'.name \in Desk!Catches => \E e \in calls' : e.what = "read" /\ e.arg.then = "refresh"
      BY <1>k, <1>1, <1>2 DEF DeskWaits, DeskAnswered
    <2>3. /\ desk'.more <=> \E e \in calls' : DeskMore(e)
          /\ \A e, f \in calls' : DeskMore(e) /\ DeskMore(f) => e = f
      <3>1. DeskMore(c) <=> c.arg.then = "more"
        BY <1>a, <1>1 DEF DeskMore
      <3>2. desk'.more <=> desk.more /\ c.arg.then # "more"
        BY <1>2 DEF DeskAnswered
      <3> QED
        BY <1>k, <1>1, <3>1, <3>2 DEF DeskWaits
    <2>4. desk'.busy => \E e \in calls' : DeskBusy(e)
      BY <1>k, <1>1, <1>2 DEF DeskWaits, DeskBusy, DeskAnswered
    <2> QED
      BY <2>1, <2>2, <2>3, <2>4 DEF DeskWaits
  <1>6. ASSUME ~crossed' PROVE DeskTrue(desk', unread', price', calls')
    <2>1. c.state = "done" /\ DeskTrue(desk, unread, price, calls)
      BY <1>a, <1>1, <1>6 DEF DeskInv
    <2>2. DeskFilled(desk, c, desk')
      BY <1>2, <2>1
    <2>3. c.reply.price = price /\ (desk.name = "messages" => DeskUnseen(c.reply, unread))
      BY <1>1, <2>1 DEF DeskTrue, DeskFaithful
    <2>4. DeskFaithful(desk', unread', price', calls')
      BY <1>1, <1>3, <2>1 DEF DeskTrue, DeskFaithful
    <2>5. DeskPrices(desk', price', calls')
      BY <2>2, <2>3 DEF DeskFilled, DeskPrices
    <2>p. Desk!Piece(c) = [key |-> c.arg.key, page |-> c.arg.page]
      BY DEF Desk!Piece
    <2>6. CASE \A e \in calls : e.what = "read" /\ e.arg.page = 1 /\ e.arg.key = desk.key
      <3>1. c.arg.page = 1 /\ c.arg.key = desk.key
        BY <2>6
      <3>2. PICK x : x = Desk!Piece(c)
        OBVIOUS
      <3>3. x = [key |-> desk'.key, page |-> 1] /\ desk'.shown = <<x>> /\ desk'.page = 1
        BY <1>3, <2>2, <2>p, <3>1, <3>2 DEF DeskFilled
      <3>4. DeskWhole(desk')
        BY <3>3, DeskWholeFirst
      <3>5. DeskTogether(desk', calls')
        BY <1>1, <1>3, <2>6 DEF DeskTogether
      <3>6. desk'.name = "messages" => DeskMessages(desk', unread', calls')
        BY <1>1, <1>3, <2>2, <2>3, <2>6, <3>1 DEF DeskFilled, DeskMessages, DeskUnseen
      <3> QED
        BY <2>4, <2>5, <3>4, <3>5, <3>6 DEF DeskTrue
    <2>7. CASE \E e \in calls : calls = {e} /\ (e.what = "read" => e.arg.page = desk.page + 1 /\ e.arg.key = desk.key)
      <3>1. calls = {c} /\ c.arg.page = desk.page + 1 /\ c.arg.key = desk.key /\ calls' = {}
        BY <1>1, <2>7
      <3>2. desk.page \in 1 .. Pages
        BY <1>k DEF Desks
      <3>3. PICK n : n = desk.page + 1
        OBVIOUS
      <3>4. c.arg.page = n /\ n # 1
        BY <3>1, <3>2, <3>3, DeskBounds
      <3>5. ~DeskFirst(calls)
        BY <3>1, <3>4 DEF DeskFirst
      <3>6. DeskWhole(desk)
        BY <2>1, <3>5 DEF DeskTrue
      <3>7. PICK x : x = Desk!Piece(c)
        OBVIOUS
      <3>8. x = [key |-> desk.key, page |-> n] /\ desk'.shown = Append(desk.shown, x) /\ desk'.page = n
            /\ desk'.listed = c.reply.listed \cup desk.listed /\ desk'.unseen = c.reply.unseen \cup desk.unseen
            /\ desk'.badge = c.reply.badge
        BY <2>2, <2>p, <3>1, <3>4, <3>7 DEF DeskFilled
      <3>9. DeskWhole(desk')
        BY <1>k, <1>3, <3>3, <3>6, <3>8, DeskWholeMore
      <3>10. DeskTogether(desk', calls')
        BY <3>1 DEF DeskTogether
      <3>11. desk'.name = "messages" => DeskMessages(desk', unread', calls')
        <4> SUFFICES ASSUME desk.name = "messages" PROVE DeskMessages(desk', unread', calls')
          BY <1>3
        <4>1. DeskMessages(desk, unread, calls)
          BY <2>1 DEF DeskTrue
        <4>2. DeskUnseen(desk, unread)
          BY <1>1, <3>1, <3>5, <4>1 DEF DeskMessages
        <4> QED
          BY <2>3, <3>1, <3>8, <4>2 DEF DeskMessages, DeskUnseen
      <3> QED
        BY <2>4, <2>5, <3>9, <3>10, <3>11 DEF DeskTrue
    <2> QED
      BY <2>1, <2>6, <2>7 DEF DeskTrue, DeskTogether
  <1>7. crossed' \in BOOLEAN
    BY <1>k, <1>1
  <1> QED
    BY <1>0, <1>3, <1>4, <1>5, <1>6, <1>7 DEF DeskKnown, DeskInv, DeskPlace, DeskFits

\* A write that was answered, when nothing crossed, was alone.
LEMMA DeskAlone ==
    ASSUME DeskInv, ~crossed, NEW c \in calls, c.what # "read", desk.name # None
    PROVE  /\ calls = {c} /\ DeskTrue(desk, unread, price, calls) /\ DeskWhole(desk) /\ ~DeskFirst(calls)
           /\ desk.name = "messages" => DeskMessages(desk, unread, calls)
           /\ desk.name = "quick" => DeskPrices(desk, price, calls)
  <1>1. DeskTrue(desk, unread, price, calls)
    BY DEF DeskInv
  <1>2. calls = {c}
    BY <1>1 DEF DeskTrue, DeskTogether
  <1>3. ~DeskFirst(calls)
    BY <1>2 DEF DeskFirst
  <1> QED
    BY <1>1, <1>2, <1>3 DEF DeskTrue

\* A write is answered, and nothing else is asked for.
LEMMA DeskEnds ==
    ASSUME DeskInv, NEW c \in calls, c.what # "read", calls' = calls \ {c}, UNCHANGED <<unread, price, crossed>>,
           IsDesk(desk'), desk'.name = desk.name, desk'.key = desk.key, desk'.loading = desk.loading,
           desk'.refreshing = desk.refreshing, desk'.more = desk.more, desk'.shown = desk.shown, desk'.page = desk.page,
           desk'.busy => desk.busy /\ ~DeskBusy(c), desk'.price = desk.price,
           ~crossed /\ desk.name # None => /\ desk.name = "messages" => DeskUnseen(desk', unread)
                                           /\ desk.name = "quick" => desk.price = price
    PROVE  DeskInv'
  <1>0. DeskKnown
    BY DesksKnown
  <1>1. DeskCalls(calls', desk'.name)
    BY <1>0, DeskFewer DEF DeskKnown
  <1>2. DeskWaits(desk', calls')
    <2>1. /\ desk'.loading => DeskFirst(calls')
          /\ desk'.refreshing /\ desk'.name \in Desk!Catches => \E e \in calls' : e.what = "read" /\ e.arg.then = "refresh"
      BY <1>0 DEF DeskKnown, DeskWaits, DeskFirst
    <2>2. /\ desk'.more <=> \E e \in calls' : DeskMore(e)
          /\ \A e, f \in calls' : DeskMore(e) /\ DeskMore(f) => e = f
      BY <1>0 DEF DeskKnown, DeskWaits, DeskMore
    <2>3. desk'.busy => \E e \in calls' : DeskBusy(e)
      BY <1>0 DEF DeskKnown, DeskWaits
    <2> QED
      BY <2>1, <2>2, <2>3 DEF DeskWaits
  <1>3. ASSUME ~crossed, desk.name # None PROVE DeskTrue(desk', unread', price', calls')
    <2>1. calls = {c} /\ DeskWhole(desk)
      BY <1>3, DeskAlone
    <2>2. calls' = {} /\ DeskWhole(desk')
      BY <2>1 DEF DeskWhole
    <2> QED
      BY <1>3, <2>2 DEF DeskTrue, DeskTogether, DeskFaithful, DeskMessages, DeskPrices
  <1> QED
    BY <1>0, <1>1, <1>2, <1>3 DEF DeskKnown, DeskInv, DeskPlace, DeskFits

\* A write is answered, and the screen is read again.
LEMMA DeskAgain ==
    ASSUME DeskInv, NEW c \in calls, c.what # "read", desk.name # None, desk' = desk, UNCHANGED <<unread, price>>,
           NEW then \in {"initial", "prices"}, desk.busy => then = "prices" \/ ~DeskBusy(c),
           NEW d \in Desks, d.name = desk.name, calls' = Desk!Read(calls \ {c}, d, 1, then),
           crossed' \in BOOLEAN, ~crossed' => ~crossed /\ d.key = desk.key
    PROVE  DeskInv'
  <1>0. DeskKnown
    BY DesksKnown
  <1>1. PICK cs : cs = calls \ {c}
    OBVIOUS
  <1>2. DeskCalls(cs, d.name)
    BY <1>0, <1>1, DeskFewer DEF DeskKnown
  <1>3. then \in DeskThens /\ 1 \in 1 .. Pages /\ (then = "more" <=> 1 > 1)
    BY DeskBounds DEF DeskThens
  <1>4. DeskReads(cs, calls', d.name, d.key, 1, then)
    BY <1>1, <1>2, <1>3, DeskRead
  <1>5. PICK r : /\ calls' = (calls \ {c}) \cup {r} /\ r.what = "read" /\ r.state = "sent" /\ DeskCalls(calls', desk.name)
                 /\ r.arg.key = d.key /\ r.arg.page = 1 /\ r.arg.then = then
    BY <1>1, <1>4 DEF DeskReads
  <1>6. DeskWaits(desk', calls')
    <2>1. DeskFirst(calls') /\ ~DeskMore(r) /\ ~DeskMore(c)
      BY <1>5 DEF DeskFirst, DeskMore
    <2>2. /\ desk'.more <=> \E e \in calls' : DeskMore(e)
          /\ \A e, f \in calls' : DeskMore(e) /\ DeskMore(f) => e = f
      BY <1>0, <1>5, <2>1 DEF DeskKnown, DeskWaits
    <2>3. desk'.refreshing /\ desk'.name \in Desk!Catches => \E e \in calls' : e.what = "read" /\ e.arg.then = "refresh"
      BY <1>0, <1>5 DEF DeskKnown, DeskWaits
    <2>4. desk'.busy => \E e \in calls' : DeskBusy(e)
      <3>1. then = "prices" => DeskBusy(r)
        BY <1>5 DEF DeskBusy
      <3> QED
        BY <1>0, <1>5, <3>1 DEF DeskKnown, DeskWaits
    <2> QED
      BY <2>1, <2>2, <2>3, <2>4 DEF DeskWaits
  <1>7. ASSUME ~crossed' PROVE DeskTrue(desk', unread', price', calls')
    <2>1. calls = {c}
      BY <1>7, DeskAlone
    <2>2. calls' = {r} /\ DeskFirst(calls')
      BY <1>5, <2>1 DEF DeskFirst
    <2>3. DeskFresh(desk', unread', price', calls')
      BY <1>5, <1>7, <2>2 DEF DeskFresh, DeskFaithful
    <2> QED
      BY <2>2, <2>3, DeskFreshTrue
  <1> QED
    BY <1>0, <1>5, <1>6, <1>7 DEF DeskKnown, DeskInv, DeskPlace, DeskFits

LEMMA DeskMarked == ASSUME DeskInv, NEW c \in calls, Desk!Marked(c), UNCHANGED <<unread, price>> PROVE DeskInv'
  <1>0. DeskKnown
    BY DesksKnown
  <1>k. IsDesk(desk) /\ desk \in Desks /\ DeskCall(c, desk.name)
    BY <1>0 DEF DeskKnown, DeskCalls
  <1>1. c.what = "mark" /\ c.state \in {"done", "refused"} /\ calls' = calls \ {c} /\ crossed' = crossed /\ ~DeskBusy(c)
    BY DEF Desk!Marked, Desk!Ended, DeskBusy
  <1>2. DeskFits(desk, calls) /\ c.arg.of \in Notices
    BY <1>k, <1>1 DEF DeskInv, DeskCall
  <1>a. ASSUME ~crossed, desk.name # None
        PROVE  /\ calls = {c} /\ (desk.name = "quick" => desk.price = price)
               /\ desk.name = "messages" => /\ c.state = "done" /\ c.arg.of \notin unread
                                            /\ DeskUnseen(desk, unread \cup {c.arg.of})
    <2>1. /\ calls = {c} /\ ~DeskFirst(calls) /\ (desk.name = "messages" => DeskMessages(desk, unread, calls))
          /\ (desk.name = "quick" => DeskPrices(desk, price, calls))
      BY <1>1, <1>a, DeskAlone
    <2> QED
      BY <1>1, <2>1 DEF DeskMessages, DeskPrices
  <1>3. CASE c.owner = "desk" /\ c.state = "done"
    <2>1. PICK n : n = c.arg.of
      OBVIOUS
    <2>2. PICK b : b = Desk!Left(desk.badge)
      OBVIOUS
    <2>3. desk' = [desk EXCEPT !.unseen = @ \ {n}, !.badge = b]
      BY <1>3, <2>1, <2>2 DEF Desk!Marked
    <2>4. desk.badge \in 0 .. Cardinality(Notices) /\ Cardinality(Notices) \in Nat
      BY <1>k, DeskBounds, FS_CardinalityType DEF Desks
    <2>5. b \in 0 .. Cardinality(Notices)
      BY <2>2, <2>4 DEF Desk!Left
    <2>6. /\ IsDesk(desk') /\ desk'.name = desk.name /\ desk'.key = desk.key /\ desk'.loading = desk.loading
          /\ desk'.refreshing = desk.refreshing /\ desk'.more = desk.more /\ desk'.shown = desk.shown
          /\ desk'.page = desk.page /\ desk'.busy = desk.busy /\ desk'.price = desk.price
          /\ desk'.listed = desk.listed /\ desk'.unseen = desk.unseen \ {n} /\ desk'.badge = b
      BY <1>k, <2>3, <2>5 DEF IsDesk, Desks
    <2>7. ASSUME ~crossed, desk.name # None, desk.name = "messages" PROVE DeskUnseen(desk', unread)
      <3>1. n \notin unread /\ desk.unseen = desk.listed \cap (unread \cup {n}) /\ desk.badge = Cardinality(unread \cup {n})
        BY <1>a, <2>1, <2>7 DEF DeskUnseen
      <3>2. Cardinality(unread \cup {n}) = Cardinality(unread) + 1 /\ Cardinality(unread) \in Nat
        BY <1>0, <3>1, DeskLess DEF DeskKnown
      <3>3. b = Cardinality(unread)
        BY <2>2, <3>1, <3>2 DEF Desk!Left
      <3> QED
        BY <2>6, <3>1, <3>3 DEF DeskUnseen
    <2> QED
      BY <1>1, <1>a, <2>6, <2>7, DeskEnds
  <1>4. CASE ~(c.owner = "desk" /\ c.state = "done")
    <2>1. desk' = desk
      BY <1>4 DEF Desk!Marked
    <2>2. c.owner = "desk" => c.state = "refused"
      BY <1>1, <1>4
    <2>3. ~(~crossed /\ desk.name = "messages" /\ desk.name # None)
      BY <1>a, <1>k, <2>2 DEF DeskCall
    <2> QED
      BY <1>1, <1>a, <1>k, <2>1, <2>3, DeskEnds
  <1> QED
    BY <1>3, <1>4

LEMMA DeskAllMarked == ASSUME DeskInv, NEW c \in calls, Desk!AllMarked(c), UNCHANGED <<unread, price>> PROVE DeskInv'
  <1>0. DeskKnown
    BY DesksKnown
  <1>k. IsDesk(desk) /\ desk \in Desks /\ DeskCall(c, desk.name) /\ crossed \in BOOLEAN
    BY <1>0 DEF DeskKnown, DeskCalls
  <1>1. c.what = "markAll" /\ c.state \in {"done", "refused"} /\ desk' = desk /\ ~DeskBusy(c)
    BY DEF Desk!AllMarked, Desk!Ended, DeskBusy
  <1>2. c.arg.key \in DeskKeys
    BY <1>k, <1>1 DEF DeskCall
  <1>3. CASE c.owner = "desk" /\ c.state = "done"
    <2>1. PICK d : d = [desk EXCEPT !.key = c.arg.key]
      OBVIOUS
    <2>2. d \in Desks /\ d.name = desk.name /\ d.key = c.arg.key
      BY <1>2, <1>k, <2>1 DEF Desks
    <2>3. PICK then \in {"initial"} : calls' = Desk!Read(calls \ {c}, d, 1, then)
      BY <1>3, <2>1 DEF Desk!AllMarked
    <2>4. crossed' = (crossed \/ calls # {c} \/ desk.key # c.arg.key)
      BY <1>3 DEF Desk!AllMarked
    <2>5. crossed' \in BOOLEAN /\ (~crossed' => ~crossed /\ d.key = desk.key)
      BY <1>k, <2>2, <2>4
    <2>6. desk.name # None
      BY <1>k, <1>3 DEF DeskCall
    <2> QED
      BY <1>1, <2>2, <2>3, <2>5, <2>6, DeskAgain
  <1>4. CASE ~(c.owner = "desk" /\ c.state = "done")
    <2>1. calls' = calls \ {c} /\ crossed' = crossed
      BY <1>4 DEF Desk!AllMarked
    <2>2. ASSUME ~crossed, desk.name # None
          PROVE  (desk.name = "messages" => DeskUnseen(desk', unread)) /\ (desk.name = "quick" => desk.price = price)
      <3>1. /\ calls = {c} /\ ~DeskFirst(calls) /\ (desk.name = "messages" => DeskMessages(desk, unread, calls))
            /\ (desk.name = "quick" => DeskPrices(desk, price, calls))
        BY <1>1, <2>2, DeskAlone
      <3>2. c.state = "refused"
        BY <1>k, <1>1, <1>4, <2>2 DEF DeskCall
      <3> QED
        BY <1>1, <3>1, <3>2 DEF DeskMessages, DeskPrices
    <2> QED
      BY <1>1, <1>k, <2>1, <2>2, DeskEnds
  <1> QED
    BY <1>3, <1>4

LEMMA DeskPricesSaved == ASSUME DeskInv, NEW c \in calls, Desk!PricesSaved(c), UNCHANGED <<unread, price>> PROVE DeskInv'
  <1>0. DeskKnown
    BY DesksKnown
  <1>k. IsDesk(desk) /\ desk \in Desks /\ DeskCall(c, desk.name) /\ crossed \in BOOLEAN
    BY <1>0 DEF DeskKnown, DeskCalls
  <1>1. c.what = "prices" /\ c.state \in {"done", "refused"} /\ crossed' = crossed
    BY DEF Desk!PricesSaved, Desk!Ended
  <1>3. CASE c.owner = "desk" /\ c.state = "done"
    <2>1. PICK then \in {"prices"} : calls' = Desk!Read(calls \ {c}, desk, 1, then) /\ desk' = desk
      BY <1>3 DEF Desk!PricesSaved
    <2>2. desk.name # None
      BY <1>k, <1>3 DEF DeskCall
    <2> QED
      BY <1>1, <1>k, <2>1, <2>2, DeskAgain
  <1>4. CASE ~(c.owner = "desk" /\ c.state = "done")
    <2>1. PICK b \in BOOLEAN : b <=> desk.busy /\ c.owner # "desk"
      OBVIOUS
    <2>2. calls' = calls \ {c} /\ desk' = [desk EXCEPT !.busy = b]
      BY <1>4, <1>k, <2>1 DEF Desk!PricesSaved, Desks
    <2>3. /\ IsDesk(desk') /\ desk'.name = desk.name /\ desk'.key = desk.key /\ desk'.loading = desk.loading
          /\ desk'.refreshing = desk.refreshing /\ desk'.more = desk.more /\ desk'.shown = desk.shown
          /\ desk'.page = desk.page /\ desk'.busy = b /\ desk'.price = desk.price
          /\ desk'.listed = desk.listed /\ desk'.unseen = desk.unseen /\ desk'.badge = desk.badge
      BY <1>k, <2>2 DEF IsDesk, Desks
    <2>4. b => desk.busy /\ ~DeskBusy(c)
      BY <1>1, <2>1 DEF DeskBusy
    <2>5. ASSUME ~crossed, desk.name # None
          PROVE  (desk.name = "messages" => DeskUnseen(desk', unread)) /\ (desk.name = "quick" => desk.price = price)
      <3>1. /\ calls = {c} /\ ~DeskFirst(calls) /\ (desk.name = "messages" => DeskMessages(desk, unread, calls))
            /\ (desk.name = "quick" => DeskPrices(desk, price, calls))
        BY <1>1, <2>5, DeskAlone
      <3>2. c.state = "refused"
        BY <1>k, <1>1, <1>4, <2>5 DEF DeskCall
      <3> QED
        BY <1>1, <2>3, <3>1, <3>2 DEF DeskMessages, DeskPrices, DeskUnseen
    <2> QED
      BY <1>1, <2>2, <2>3, <2>4, <2>5, DeskEnds
  <1> QED
    BY <1>3, <1>4

DeskReplied(d, c, ok, reply, cs, name) ==
    /\ d.what = c.what /\ d.arg = c.arg /\ d.owner = c.owner /\ d.reply = reply
    /\ (ok => d.state = "done") /\ (~ok => d.state = "refused")
    /\ DeskCalls((cs \ {c}) \cup {d}, name)

LEMMA DeskReplies_ ==
    ASSUME NEW cs, NEW name, DeskCalls(cs, name), NEW c \in cs, NEW ok \in BOOLEAN, NEW reply,
           reply \in DeskReplies \cup {None}, ok /\ c.what = "read" => reply \in DeskReplies
    PROVE  \E d : Desk!Handled(cs, c, ok, reply) = (cs \ {c}) \cup {d} /\ DeskReplied(d, c, ok, reply, cs, name)
  <1> PICK d : d = Replied(c, ok, reply)
    OBVIOUS
  <1>1. DeskCall(c, name)
    BY DEF DeskCalls
  <1>2. /\ d.what = c.what /\ d.arg = c.arg /\ (ok => d.state = "done") /\ (~ok => d.state = "refused")
        /\ d.reply = reply /\ d.owner = c.owner /\ d.id = c.id /\ DeskCall(d, name)
    BY <1>1 DEF DeskCall, Replied, States
  <1> PICK ds : ds = (cs \ {c}) \cup {d}
    OBVIOUS
  <1>3. Numbered(ds)
    BY <1>2, NumberedSwap DEF DeskCalls
  <1>4. DeskCalls(ds, name)
    BY <1>2, <1>3 DEF DeskCalls
  <1>5. DeskReplied(d, c, ok, reply, cs, name)
    BY <1>2, <1>4 DEF DeskReplied
  <1> QED
    BY <1>5, DeskHandled

LEMMA DeskSwapped ==
    ASSUME NEW e, NEW cs, DeskFits(e, cs), NEW c \in cs, NEW d, d.what = c.what, d.arg = c.arg, d.owner = c.owner,
           NEW ds, ds = (cs \ {c}) \cup {d}, DeskCalls(ds, e.name)
    PROVE  DeskFits(e, ds) /\ (DeskTogether(e, cs) => DeskTogether(e, ds)) /\ (DeskFirst(cs) <=> DeskFirst(ds))
  <1>1. DeskFirst(cs) <=> DeskFirst(ds)
    BY DEF DeskFirst
  <1>2. DeskMore(c) <=> DeskMore(d)
    BY DEF DeskMore
  <1>3. DeskBusy(c) <=> DeskBusy(d)
    BY DEF DeskBusy
  <1>4. e.refreshing /\ e.name \in Desk!Catches => \E b \in ds : b.what = "read" /\ b.arg.then = "refresh"
    BY DEF DeskFits, DeskWaits
  <1>5. /\ e.more <=> \E b \in ds : DeskMore(b)
        /\ \A b, f \in ds : DeskMore(b) /\ DeskMore(f) => b = f
    BY <1>2 DEF DeskFits, DeskWaits
  <1>6. e.busy => \E b \in ds : DeskBusy(b)
    BY <1>3 DEF DeskFits, DeskWaits
  <1>7. DeskFits(e, ds)
    BY <1>1, <1>4, <1>5, <1>6 DEF DeskFits, DeskWaits
  <1>8. DeskTogether(e, cs) => DeskTogether(e, ds)
    <2>1. CASE \A b \in cs : b.what = "read" /\ b.arg.page = 1 /\ b.arg.key = e.key
      BY <2>1 DEF DeskTogether
    <2>2. CASE \E b \in cs : cs = {b} /\ (b.what = "read" => b.arg.page = e.page + 1 /\ b.arg.key = e.key)
      <3>1. ds = {d}
        BY <2>2
      <3> QED
        BY <2>2, <3>1 DEF DeskTogether
    <2> QED
      BY <2>1, <2>2 DEF DeskTogether
  <1> QED
    BY <1>1, <1>7, <1>8

LEMMA DeskServe == ASSUME DeskInv, NEW c \in calls, Desk!Serve(c) PROVE DeskInv'
  <1>0. DeskKnown
    BY DesksKnown
  <1>k. /\ IsDesk(desk) /\ desk \in Desks /\ DeskCalls(calls, desk.name) /\ DeskCall(c, desk.name) /\ crossed \in BOOLEAN
        /\ DeskFits(desk, calls) /\ unread \in SUBSET Notices /\ price \in Prices
    BY <1>0 DEF DeskKnown, DeskCalls, DeskInv
  <1>s. /\ c.state = "sent" /\ desk' = desk /\ crossed' = crossed
        /\ unread' = CASE c.what = "mark" -> unread \ {c.arg.of} [] c.what = "markAll" -> {} [] OTHER -> unread
        /\ price' = IF c.what = "prices" THEN c.arg.new ELSE price
    BY DEF Desk!Serve
  <1>b. PICK S \in Desk!Brings(c), ok \in BOOLEAN :
           /\ calls' = Desk!Handled(calls, c, ok, Desk!Shows(c, S))
           /\ (c.what = "mark" /\ c.arg.of \notin unread) \/ ok
    BY DEF Desk!Serve
  <1>1. (c.what = "mark" /\ c.arg.of \notin unread) \/ ok
    BY <1>b
  <1>2. PICK reply : reply = Desk!Shows(c, S) /\ calls' = Desk!Handled(calls, c, ok, reply)
    BY <1>b
  <1>i. S \in SUBSET Notices
    BY DEF Desk!Brings
  <1>g. PICK n \in 0 .. Cardinality(Notices) : /\ n = IF c.arg.name = "messages" THEN Desk!Cardinality(unread) ELSE 0
                                               /\ c.arg.name = "messages" => n = Cardinality(unread)
    <2>1. Cardinality(unread) \in 0 .. Cardinality(Notices) /\ 0 \in 0 .. Cardinality(Notices)
      BY <1>k, DeskBadge, DeskBounds, FS_CardinalityType
    <2> QED
      BY <2>1, DeskCounts
  <1>h. c.what = "read" => reply = [listed |-> S, unseen |-> S \cap unread, badge |-> n, price |-> price]
    BY <1>2, <1>g DEF Desk!Shows
  <1>3. reply \in DeskReplies \cup {None} /\ (c.what = "read" => reply \in DeskReplies)
    <2>1. CASE c.what # "read"
      BY <1>2, <2>1 DEF Desk!Shows
    <2>2. CASE c.what = "read"
      <3>1. PICK u \in SUBSET Notices : u = S \cap unread
        BY <1>k
      <3>2. reply = [listed |-> S, unseen |-> u, badge |-> n, price |-> price]
        BY <1>h, <2>2, <3>1
      <3> QED
        BY <1>k, <1>i, <3>2 DEF DeskReplies
    <2> QED
      BY <2>1, <2>2
  <1>r. c.what = "read" => reply.price = price /\ (desk.name = "messages" => DeskUnseen(reply, unread))
    <2> SUFFICES ASSUME c.what = "read" PROVE reply.price = price /\ (desk.name = "messages" => DeskUnseen(reply, unread))
      OBVIOUS
    <2>1. c.arg.name = desk.name
      BY <1>k DEF DeskCall, DeskArgs
    <2> QED
      BY <1>g, <1>h, <2>1 DEF DeskUnseen
  <1>4. PICK d : calls' = (calls \ {c}) \cup {d} /\ DeskReplied(d, c, ok, reply, calls, desk.name)
    BY <1>k, <1>2, <1>3, DeskReplies_
  <1>5. /\ d.what = c.what /\ d.arg = c.arg /\ d.owner = c.owner /\ d.reply = reply /\ (ok => d.state = "done")
        /\ DeskCalls(calls', desk.name)
    BY <1>4 DEF DeskReplied
  <1>6. /\ DeskFits(desk, calls') /\ (DeskTogether(desk, calls) => DeskTogether(desk, calls'))
        /\ (DeskFirst(calls) <=> DeskFirst(calls'))
    BY <1>k, <1>4, <1>5, DeskSwapped
  <1>7. unread' \in SUBSET Notices
    BY <1>k, <1>s
  <1>8. price' \in Prices
    <2>1. c.what = "prices" => c.arg.new \in Prices
      BY <1>k DEF DeskCall
    <2> QED
      BY <1>k, <1>s, <2>1
  <1>9. ASSUME ~crossed, desk.name # None PROVE DeskTrue(desk', unread', price', calls')
    <2>1. CASE c.what = "read"
      <3>1. DeskTrue(desk, unread, price, calls) /\ unread' = unread /\ price' = price /\ desk' = desk
        BY <1>9, <1>s, <2>1 DEF DeskInv
      <3>2. DeskFaithful(desk, unread, price, calls')
        BY <1>4, <1>5, <1>r, <2>1, <3>1 DEF DeskTrue, DeskFaithful
      <3>3. DeskMessages(desk, unread, calls) => DeskMessages(desk, unread, calls')
        BY <1>4, <1>5, <1>6, <2>1 DEF DeskMessages
      <3>4. DeskPrices(desk, price, calls) => DeskPrices(desk, price, calls')
        BY <1>4, <1>5, <1>6, <2>1 DEF DeskPrices
      <3> QED
        BY <1>6, <3>1, <3>2, <3>3, <3>4 DEF DeskTrue
    <2>2. CASE c.what # "read"
      <3>1. /\ calls = {c} /\ DeskTrue(desk, unread, price, calls) /\ DeskWhole(desk) /\ ~DeskFirst(calls)
            /\ (desk.name = "messages" => DeskMessages(desk, unread, calls))
            /\ (desk.name = "quick" => DeskPrices(desk, price, calls))
        BY <1>9, <2>2, DeskAlone
      <3>2. calls' = {d}
        BY <1>4, <3>1
      <3>3. DeskTogether(desk, calls') /\ DeskFaithful(desk, unread', price', calls')
        BY <1>5, <1>6, <2>2, <3>1, <3>2 DEF DeskTrue, DeskFaithful
      <3>4. ASSUME desk.name = "messages" PROVE DeskMessages(desk, unread', calls')
        <4>1. /\ DeskUnseen(desk, unread)
              /\ c.what = "mark" => c.arg.of \in unread
          BY <1>s, <3>1, <3>4 DEF DeskMessages
        <4>2. d.state = "done"
          BY <1>1, <1>5, <4>1
        <4>3. CASE c.what = "mark"
          <5>1. unread' = unread \ {c.arg.of} /\ unread' \cup {c.arg.of} = unread /\ c.arg.of \notin unread'
            BY <1>s, <4>1, <4>3
          <5> QED
            BY <1>5, <3>2, <4>1, <4>2, <4>3, <5>1 DEF DeskMessages
        <4>4. CASE c.what = "markAll"
          BY <1>5, <3>2, <4>2, <4>4 DEF DeskMessages
        <4>5. CASE c.what \notin {"mark", "markAll"}
          <5>1. unread' = unread
            BY <1>s, <4>5
          <5> QED
            BY <1>5, <3>2, <4>1, <4>5, <5>1 DEF DeskMessages
        <4> QED
          BY <4>3, <4>4, <4>5
      <3>5. ASSUME desk.name = "quick" PROVE DeskPrices(desk, price', calls')
        <4>1. CASE c.what = "prices"
          BY <1>1, <1>5, <3>2, <4>1 DEF DeskPrices
        <4>2. CASE c.what # "prices"
          <5>1. desk.price = price /\ price' = price
            BY <1>s, <3>1, <3>5, <4>2 DEF DeskPrices
          <5> QED
            BY <5>1 DEF DeskPrices
        <4> QED
          BY <4>1, <4>2
      <3> QED
        BY <1>s, <3>1, <3>3, <3>4, <3>5 DEF DeskTrue
    <2> QED
      BY <2>1, <2>2
  <1> QED
    BY <1>k, <1>s, <1>6, <1>7, <1>8, <1>9 DEF DeskInv, DeskPlace

LEMMA DeskLose == ASSUME DeskInv, NEW c \in calls, Desk!Lose(c) PROVE DeskInv'
  <1>0. DeskKnown
    BY DesksKnown
  <1>1. PICK ok \in BOOLEAN : ~ok /\ calls' = Desk!Handled(calls, c, ok, None)
    BY DEF Desk!Lose
  <1>2. crossed' = TRUE /\ UNCHANGED <<unread, price, desk>>
    BY DEF Desk!Lose
  <1>3. PICK d : calls' = (calls \ {c}) \cup {d} /\ DeskReplied(d, c, ok, None, calls, desk.name)
    BY <1>0, <1>1, DeskReplies_ DEF DeskKnown
  <1>4. d.what = c.what /\ d.arg = c.arg /\ d.owner = c.owner /\ DeskCalls(calls', desk.name)
    BY <1>3 DEF DeskReplied
  <1>5. DeskFits(desk, calls')
    BY <1>3, <1>4, DeskSwapped DEF DeskInv
  <1> QED
    BY <1>0, <1>2, <1>5 DEF DeskKnown, DeskInv, DeskPlace

LEMMA DeskSteps == ASSUME DeskInv, Desk!Next PROVE DeskInv'
  <1>1. CASE ((Desk!MayAct /\ Desk!Tap) \/ Desk!Go) /\ UNCHANGED <<unread, price>>
    BY <1>1, DeskTaps, DeskGoes
  <1>2. ASSUME NEW c \in calls, Desk!Handle(c) PROVE DeskInv'
    BY <1>2, DeskReadAnswered, DeskMarked, DeskAllMarked, DeskPricesSaved, DeskServe, DeskLose DEF Desk!Handle
  <1>3. ASSUME NEW n \in Notices, Desk!Notify(n) PROVE DeskInv'
    <2>1. unread' \in {unread \cup {n}, unread \ {n}} /\ crossed' = TRUE /\ UNCHANGED <<price, desk, calls>>
      BY <1>3 DEF Desk!Notify
    <2>2. unread' \in SUBSET Notices
      BY <2>1 DEF DeskInv, DeskPlace
    <2> QED
      BY <2>1, <2>2 DEF DeskInv, DeskPlace
  <1> QED
    BY <1>1, <1>2, <1>3 DEF Desk!Next

LEMMA DeskStart == Desk!Init => DeskInv
  <1> SUFFICES ASSUME Desk!Init PROVE DeskInv
    OBVIOUS
  <1>0. /\ unread \in SUBSET Notices /\ price \in Prices /\ desk = Desk!Blank /\ calls = {} /\ crossed = FALSE
    BY DEF Desk!Init
  <1>1. DeskCalls(calls, desk.name)
    BY <1>0, FS_EmptySet DEF DeskCalls, Numbered
  <1>2. DeskFits(desk, calls)
    BY <1>0, <1>1, DeskBlank DEF DeskFits, DeskWaits
  <1> QED
    BY <1>0, <1>2, DeskBlank DEF DeskInv, DeskPlace

LEMMA DeskHold == ASSUME DeskInv PROVE Desk!TypeOK /\ Desk!ShowsServer /\ Desk!SpinnerHasCall
  <1>0. DeskKnown
    BY DesksKnown
  <1>1. Desk!TypeOK
    BY <1>0, DeskCounts DEF DeskKnown, Desks, DeskKeys, DeskCalls, Numbered, Desk!TypeOK
  <1>2. Desk!ShowsServer
    <2> SUFFICES ASSUME desk.name # None, calls = {}, ~crossed
                 PROVE  /\ desk.shown = [p \in 1 .. desk.page |-> [key |-> desk.key, page |-> p]]
                        /\ desk.name = "messages" => desk.unseen = desk.listed \cap unread /\ desk.badge = Desk!Cardinality(unread)
                        /\ desk.name = "quick" => desk.price = price
      BY DEF Desk!ShowsServer
    <2>1. DeskTrue(desk, unread, price, calls) /\ ~DeskFirst(calls)
      BY DEF DeskInv, DeskFirst
    <2> QED
      BY <2>1, DeskCounts DEF DeskTrue, DeskWhole, DeskMessages, DeskUnseen, DeskPrices
  <1>3. Desk!SpinnerHasCall
    <2>1. \A c \in calls : c.what = "read" => c.owner = "desk" /\ (DeskMore(c) => c.arg.then = "more")
      BY <1>0 DEF DeskKnown, DeskCalls, DeskCall, DeskMore
    <2>2. \A c \in calls : DeskMore(c) => c.what = "read"
      BY DEF DeskMore
    <2> QED
      BY <1>0, <2>1, <2>2 DEF DeskKnown, DeskWaits, DeskFirst, DeskBusy, Desk!SpinnerHasCall
  <1> QED
    BY <1>1, <1>2, <1>3

-----------------------------------------------------------------------------
(* The errands.                                                            *)

\* Of the page that the behaviour follows.
PagesInv ==
    /\ errand = "list" => ListedInv
    /\ errand = "form" => EditedInv
    /\ errand = "desk" => DeskInv
    /\ errand = "order" => OrderInv
    /\ errand = "settings" => SettingsInv
    /\ errand = "tables" => TablesInv
    /\ errand = "entries" => EntriesInv
    /\ errand = "configs" => ConfigsInv

LEMMA EntriesSame == ASSUME EntriesInv, UNCHANGED <<content, view, calls, crossed>> PROVE EntriesInv'
  BY DEF EntriesInv, EntryPlace, EntryTrue, Entries!Live

LEMMA ConfigsSame == ASSUME ConfigsInv, UNCHANGED <<value, view, calls, crossed>> PROVE ConfigsInv'
  BY DEF ConfigsInv, ConfigPlace, ConfigTrue

LEMMA TablesSame == ASSUME TablesInv, UNCHANGED <<state, view, calls, crossed>> PROVE TablesInv'
  BY DEF TablesInv, TablePlace, TableTrue, Tables!Matching

LEMMA ListedSame == ASSUME ListedInv, UNCHANGED <<status, front, list, calls, crossed>> PROVE ListedInv'
  BY DEF ListedInv, ListedPlace, ListedTrue, ListedSeen

LEMMA EditedSame == ASSUME EditedInv, UNCHANGED <<content, front, form, alert, calls, crossed>> PROVE EditedInv'
  BY DEF EditedInv, EditedPlace, EditedTrue

LEMMA SettingsStay == ASSUME SettingsInv, UNCHANGED <<row, page, alert, calls, crossed>> PROVE SettingsInv'
  BY DEF SettingsInv

LEMMA OrderSame == ASSUME OrderInv, UNCHANGED <<order, page, calls, crossed>> PROVE OrderInv'
  BY DEF OrderInv

LEMMA DeskStays == ASSUME DeskInv, UNCHANGED <<unread, price, desk, calls, crossed>> PROVE DeskInv'
  BY DEF DeskInv

LEMMA PagesStart == Init => PagesInv
  <1> SUFFICES ASSUME Init PROVE PagesInv
    OBVIOUS
  <1>1. /\ errand = "list" => Listed!Init
        /\ errand = "form" => Edited!Init
        /\ errand = "desk" => Desk!Init
        /\ errand = "order" => Order!Init
        /\ errand = "settings" => Settings!Init
        /\ errand = "tables" => Tables!Init
        /\ errand = "entries" => Entries!Init
        /\ errand = "configs" => Configs!Init
    BY DEF Init
  <1> QED
    BY <1>1, ListedStart, EditedStart, DeskStart, OrderStart, SettingsStart, TablesStart, EntriesStart,
       ConfigsStart DEF PagesInv

LEMMA PagesStep == ASSUME PagesInv, [Next]_vars PROVE PagesInv'
  <1>1. CASE Next
    <2>1. errand' = errand
      BY <1>1 DEF Next
    <2>2. /\ errand = "list" => Listed!Next
          /\ errand = "form" => Edited!Next
          /\ errand = "desk" => Desk!Next
          /\ errand = "order" => Order!Next
          /\ errand = "settings" => Settings!Next
          /\ errand = "tables" => Tables!Next
          /\ errand = "entries" => Entries!Next
          /\ errand = "configs" => Configs!Next
      BY <1>1 DEF Next
    <2> QED
      BY <2>1, <2>2, ListedSteps, EditedSteps, DeskSteps, OrderSteps, SettingsSteps, TablesSteps, EntriesSteps,
         ConfigsSteps DEF PagesInv
  <1>2. CASE UNCHANGED vars
    <2>1. UNCHANGED <<errand, calls, crossed, status, list, front, content, form, alert, unread, price, desk, order,
                      page, row, state, view, value>>
      BY <1>2 DEF vars, shelving, listing, reading
    <2> QED
      BY <2>1, ListedSame, EditedSame, DeskStays, OrderSame, SettingsStay, TablesSame, EntriesSame, ConfigsSame
      DEF PagesInv
  <1> QED
    BY <1>1, <1>2

\* Of the pages of every behaviour, whichever it follows: the invariants above,
\* which the properties below follow from.
THEOREM PagesInvariant == Spec => []PagesInv
  BY PagesStart, PagesStep, PTL DEF Spec

Errands == {"shelf", "review", "tree", "notices", "list", "form", "desk", "order", "settings", "tables", "entries",
            "configs"}

\* A behaviour follows one of the parts, to its end.
OneErrand == errand \in Errands

LEMMA ErrandsStay == Spec => []OneErrand
  <1>1. Init => OneErrand
    BY DEF Init, Errands, OneErrand
  <1>2. OneErrand /\ [Next]_vars => OneErrand'
    <2>1. Next => errand' = errand
      BY DEF Next
    <2>2. UNCHANGED vars => errand' = errand
      BY DEF vars
    <2> QED
      BY <2>1, <2>2 DEF OneErrand
  <1> QED
    BY <1>1, <1>2, PTL DEF Spec

LEMMA ServerTyped ==
    ASSUME RowsInv, ServerInv
    PROVE  /\ errand = "shelf" => Goods!TypeOK
           /\ errand = "review" => Review!TypeOK
           /\ errand = "tree" => Tree!TypeOK
           /\ errand = "notices" => Notified!TypeOK
  <1>1. errand = "shelf" => Goods!TypeOK
    BY DEF RowsInv, ShelfInv, RowTypes, FormsFit, JobsFit, FilesFit, SaveFits, StatusFits, FileFits, SaleInv, ShownTypes, Goods!TypeOK
  <1>2. errand = "review" => Review!TypeOK
    BY DEF RowsInv, ReviewInv
  <1>3. errand = "tree" => Tree!TypeOK
    BY DEF ServerInv, TreeInv, FormSafe, PutSafe, Parents, Tree!TypeOK
  <1>4. errand = "notices" => Notified!TypeOK
    BY DEF ServerInv, NoticesInv, NoticesTyped, Message, Sync, Notified!TypeOK
  <1> QED
    BY <1>1, <1>2, <1>3, <1>4

\* The rows of the server, the requests of every handler and the state of every page
\* are what their tables, handlers and components declare, and no request takes the
\* number of another.
THEOREM TypesCorrect == Spec => []TypeOK
  <1>1. ASSUME OneErrand, RowsInv, ServerInv, PagesInv PROVE TypeOK
    <2>1. /\ errand = "list" => Listed!TypeOK
          /\ errand = "form" => Edited!TypeOK
          /\ errand = "desk" => Desk!TypeOK
          /\ errand = "order" => Order!TypeOK
          /\ errand = "settings" => Settings!TypeOK
          /\ errand = "tables" => Tables!TypeOK
          /\ errand = "entries" => Entries!TypeOK
          /\ errand = "configs" => Configs!TypeOK
      BY <1>1, ListedHold, EditedHold, DeskHold, OrderHold, SettingsHold, TablesHold, EntriesHold, ConfigsHold
      DEF PagesInv
    <2>2. /\ errand = "shelf" => Goods!TypeOK
          /\ errand = "review" => Review!TypeOK
          /\ errand = "tree" => Tree!TypeOK
          /\ errand = "notices" => Notified!TypeOK
      BY <1>1, ServerTyped
    <2>3. CASE errand = "shelf"
      BY <2>2, <2>3 DEF TypeOK
    <2>4. CASE errand = "review"
      BY <2>2, <2>4 DEF TypeOK
    <2>5. CASE errand = "tree"
      BY <2>2, <2>5 DEF TypeOK
    <2>6. CASE errand = "notices"
      BY <2>2, <2>6 DEF TypeOK
    <2>7. CASE errand = "list"
      BY <2>1, <2>7 DEF TypeOK
    <2>8. CASE errand = "form"
      BY <2>1, <2>8 DEF TypeOK
    <2>9. CASE errand = "desk"
      BY <2>1, <2>9 DEF TypeOK
    <2>10. CASE errand = "order"
      BY <2>1, <2>10 DEF TypeOK
    <2>11. CASE errand = "settings"
      BY <2>1, <2>11 DEF TypeOK
    <2>12. CASE errand = "tables"
      BY <2>1, <2>12 DEF TypeOK
    <2>13. CASE errand = "entries"
      BY <2>1, <2>13 DEF TypeOK
    <2>14. CASE errand = "configs"
      BY <2>1, <2>14 DEF TypeOK
    <2> QED
      BY <1>1, <2>3, <2>4, <2>5, <2>6, <2>7, <2>8, <2>9, <2>10, <2>11, <2>12, <2>13, <2>14
      DEF Errands, OneErrand
  <1> QED
    BY <1>1, ErrandsStay, RowsInvariant, ServerInvariant, PagesInvariant, PTL

\* At rest a page of the seller app or of the admin web shows what the server has,
\* unless reads and writes crossed (the load functions, useFocusEffect and the
\* reloads after a change).
THEOREM ShownCorrect == Spec => []ShowsServer
  <1>1. PagesInv => ShowsServer
    BY ListedHold, EditedHold, DeskHold, OrderHold, SettingsHold, TablesHold, EntriesHold, ConfigsHold
    DEF PagesInv, ShowsServer
  <1> QED
    BY <1>1, PagesInvariant, PTL

\* Whatever crossed: a spinner, or a button that is off, stands for a request that
\* is under way and whose end will end it; the pages that let the errors of a load
\* pass are the exception (the finally blocks of the pages).
THEOREM SpinnersCorrect == Spec => []SpinnerHasCall
  <1>1. PagesInv => SpinnerHasCall
    BY ListedHold, EditedHold, DeskHold, OrderHold, SettingsHold, TablesHold, EntriesHold, ConfigsHold
    DEF PagesInv, SpinnerHasCall
  <1> QED
    BY <1>1, PagesInvariant, PTL
=============================================================================
