--------------------------- MODULE BuyerAddresses ---------------------------
(***************************************************************************)
(* The address book of a buyer: the list of addresses, the form that makes *)
(* or changes one, and the transactions of the server's AddressService.    *)
(* A transaction takes the lock of its row first; it is applied where it   *)
(* commits, because nothing it wrote is seen before.  Setting a default    *)
(* rewrites all rows of the buyer and so waits for all of them.            *)
(***************************************************************************)
EXTENDS Requests

CONSTANTS MaxId,     \* bound: ids that are handed out
          Limit,     \* maxAddressCountPerUser
          MaxCalls,  \* bound: a buyer acts while fewer requests are in flight
          MaxChanges \* bound: changes a buyer asks for

VARIABLES live,     \* addresses that are not deleted
          dflt,     \* those of them that are the default one
          top,      \* the last id that was handed out
          front,    \* the screen in front
          list, form,
          calls,
          changes,  \* changes that were asked for
          slip,     \* history: transactions crossed in a way that loses the default
          crossed   \* history: the list may be older than the book

book == <<live, dflt, top>>
vars == <<live, dflt, top, front, list, form, calls, changes, slip, crossed>>

Ids == 1..MaxId
Arg(id, default) == [id |-> id, default |-> default]
Reply(ids, ds, n) == [ids |-> ids, default |-> ds, n |-> n]
Number(n) == Reply({}, {}, n)
NoArg == Arg(0, FALSE)

BlankList(pick) == [ids |-> {}, default |-> {}, loading |-> TRUE, failed |-> FALSE, pick |-> pick]
NoList == [BlankList(FALSE) EXCEPT !.loading = FALSE]
\* unread is history: the read of the form has failed.
NoForm == [id |-> 0, phase |-> "none", level |-> 0, submitting |-> FALSE, unread |-> FALSE]

MayAct == Cardinality(calls) < MaxCalls
Ask(cs, owner, what, arg) == cs \cup {Request(cs, owner, what, arg)}

-----------------------------------------------------------------------------
(* The list of addresses.                                                  *)

\* load: the list that is shown stays until the answer.
Loading == list' = [list EXCEPT !.loading = TRUE, !.failed = FALSE]
Load(cs) == Loading /\ calls' = Ask(cs, "list", "read", NoArg)

ListOffers == IF front # "list" \/ (list.ids = {} /\ list.loading) THEN {}
              ELSE IF list.ids = {} /\ list.failed THEN {"retry"}
              ELSE IF list.pick THEN {"row", "pick"} ELSE {"row", "default", "new"}
\* No "add" button where an address is picked for an order.
RowOffers(i) == {o \in ListOffers : i \in list.ids /\ (o = "default" => i \notin list.default)}

handleDelete(i) == "row" \in RowOffers(i) /\ calls' = Ask(calls, "list", "delete", Arg(i, FALSE))
handleSetDefault(i) == "default" \in RowOffers(i) /\ calls' = Ask(calls, "list", "default", Arg(i, TRUE))
ListTap == \/ /\ "retry" \in ListOffers /\ Load(calls)
           \/ /\ \E i \in Ids : handleDelete(i) \/ handleSetDefault(i)
              /\ UNCHANGED list

\* A screen that is gone ignores its answers: its reads are not followed.
LeftList(cs) == LET kept == {c \in cs : c.owner # "list" \/ c.what # "read"}
                IN Orphaned(kept, {c \in kept : c.owner = "list"})
\* Back, or an address is picked for the order: the list is gone.
LeaveList == front = "list" /\ front' = "out" /\ list' = NoList /\ calls' = LeftList(calls)
\* Bound: not before everything was answered.
EnterList == /\ front = "out" /\ calls = {} /\ front' = "list"
             /\ \E pick \in BOOLEAN : list' = BlankList(pick)
             /\ calls' = Ask(calls, "list", "read", NoArg)

-----------------------------------------------------------------------------
(* The form.                                                               *)

OpenNew == /\ "new" \in ListOffers /\ front' = "form"
           /\ form' = [NoForm EXCEPT !.phase = "ready"] /\ UNCHANGED calls
OpenEdit(i) == /\ "row" \in RowOffers(i) /\ front' = "form"
               /\ form' = [NoForm EXCEPT !.id = i, !.phase = "loading"]
               /\ calls' = Ask(calls, "form", "read", NoArg)

\* The address that was found.  A city that is not among the options, as an
\* address made elsewhere may have, is cleared as soon as the form is shown, its
\* district with it.
FormOf(c) == IF form.id \in c.reply.ids
             THEN {[form EXCEPT !.phase = "ready", !.level = k] : k \in {1, 3}}
             ELSE {[form EXCEPT !.phase = "missing"]}

\* The level of a form is how much of the region is given.
FormOffers == IF front # "form" \/ form.phase # "ready" THEN {}
              ELSE {"province"}
                   \cup (IF form.level >= 1 THEN {"city"} ELSE {})
                   \cup (IF form.level >= 2 THEN {"district"} ELSE {})
                   \cup (IF form.id # 0 THEN {"delete"} ELSE {})
                   \cup (IF form.submitting THEN {} ELSE {"submit"})
\* A province or a city that is picked clears what is below it.
pickerLevels == {<<"province", 1>>, <<"city", 2>>, <<"district", 3>>}
handlePickOption(o) == form' = [form EXCEPT !.level = o[2]]
Pick == \E o \in pickerLevels : o[1] \in FormOffers /\ handlePickOption(o)

\* Nothing is sent before all of the region is given.  The other fields and the
\* switch hold what the buyer last gave them.
Submit == /\ "submit" \in FormOffers /\ form.level = 3
          /\ form' = [form EXCEPT !.submitting = TRUE]
          /\ \E default \in BOOLEAN :
                calls' = Ask(calls, "form", IF form.id = 0 THEN "create" ELSE "update",
                             Arg(form.id, default))
FormDelete == /\ "delete" \in FormOffers /\ UNCHANGED form
              /\ calls' = Ask(calls, "form", "delete", Arg(form.id, FALSE))

\* A form that is left still waits for the answers of its changes.
Left(cs) == {IF c.owner = "form" THEN [c EXCEPT !.owner = "left"] ELSE c :
             c \in {d \in cs : d.owner # "form" \/ d.what # "read"}}
\* router.back leaves whichever screen is in front; the list loads when it
\* comes to the front again.
Back(cs) ==
    CASE front = "form" -> front' = "list" /\ form' = NoForm /\ Load(Left(cs))
      [] front = "list" -> front' = "out" /\ list' = NoList /\ calls' = LeftList(cs) /\ UNCHANGED form
      [] front = "out" -> calls' = cs /\ UNCHANGED <<front, list, form>>

-----------------------------------------------------------------------------
(* The answers.                                                            *)

\* A request that is given up goes on when the server is at it.
Without(c) == (calls \ {c}) \cup (IF c.state \in {"locked", "moving"}
                                  THEN {[c EXCEPT !.owner = "gone"]} ELSE {})

Shown(c) == /\ c.owner = "list" /\ c.what = "read" /\ c.state = "done"
            /\ list' = [list EXCEPT !.ids = c.reply.ids, !.default = c.reply.default,
                                    !.loading = FALSE]
            /\ calls' = calls \ {c} /\ UNCHANGED <<front, form>>
Unshown(c) == /\ c.owner = "list" /\ c.what = "read"
              /\ list' = [list EXCEPT !.ids = {}, !.default = {}, !.loading = FALSE, !.failed = TRUE]
              /\ calls' = calls \ {c} /\ UNCHANGED <<front, form>>

Written(c) == /\ c.owner = "list" /\ c.what # "read" /\ c.state = "done"
              /\ Load(calls \ {c}) /\ UNCHANGED <<front, form>>

FormFilled(c) == /\ c.owner = "form" /\ c.what = "read" /\ c.state = "done"
                 /\ form' \in FormOf(c) /\ calls' = calls \ {c} /\ UNCHANGED <<front, list>>
\* The read of the form has no handler for its failure: "loading" stays.
FormUnfilled(c) == /\ c.owner = "form" /\ c.what = "read"
                   /\ form' = [form EXCEPT !.unread = TRUE]
                   /\ calls' = calls \ {c} /\ UNCHANGED <<front, list>>
\* What a form asked for is followed by a step back, also when the buyer has
\* left that form before.
Saved(c) == c.owner \in {"form", "left"} /\ c.what # "read" /\ c.state = "done" /\ Back(calls \ {c})

\* An alert, and the button works again.
Refused(c) == /\ c.what # "read" /\ c.owner # "gone" /\ calls' = Without(c)
              /\ form' = [form EXCEPT !.submitting = @ /\ ~(c.owner = "form" /\ c.what # "delete")]
              /\ UNCHANGED <<front, list>>

-----------------------------------------------------------------------------
(* The server.                                                             *)

Locked(c) == {d.arg.id : d \in {e \in calls \ {c} : e.what # "create" /\ e.state \in {"locked", "moving"}}}
Step(c, state, reply) == (calls \ {c}) \cup {[c EXCEPT !.state = state, !.reply = reply]}
Finished(c, ok) == calls' = IF c.owner = "gone" THEN calls \ {c} ELSE Handled(calls, c, ok, None)
Ends(c) == Finished(c, TRUE)
Refuse(c) == Finished(c, FALSE) /\ UNCHANGED book

List(c) == /\ c.what = "read" /\ c.state = "sent"
           /\ calls' = Handled(calls, c, TRUE, Reply(live, dflt, 0))
           /\ UNCHANGED <<book, slip>>

\* Create counts before its transaction begins.
CountByUserID(c) ==
    /\ c.what = "create" /\ c.state = "sent" /\ UNCHANGED slip
    /\ IF Cardinality(live) >= Limit \/ top = MaxId THEN Refuse(c)
       ELSE calls' = Step(c, "locked", Number(Cardinality(live))) /\ UNCHANGED book
\* The first address, and one that is to be the default: no other one is.
Create(c) ==
    /\ c.what = "create" /\ c.state = "locked" /\ top < MaxId
    /\ LET first == c.reply.n = 0 \/ c.arg.default IN
       /\ first => Locked(c) = {}
       /\ top' = top + 1 /\ live' = live \cup {top'}
       /\ dflt' = IF first THEN {top'} ELSE dflt
       /\ slip' = (~first /\ (slip \/ live = {}))
    /\ Ends(c)

FindForUpdate(c) == /\ c.what \in {"update", "delete", "default"} /\ c.state = "sent"
                    /\ c.arg.id \notin Locked(c) /\ UNCHANGED slip
                    /\ IF c.arg.id \in live
                       THEN calls' = Step(c, "locked", None) /\ UNCHANGED book ELSE Refuse(c)

\* Update never takes the default away from the address.
Update(c) == /\ c.what = "update" /\ c.state = "locked"
             /\ c.arg.default => Locked(c) = {}
             /\ dflt' = IF c.arg.default THEN {c.arg.id} ELSE dflt
             /\ slip' = (slip /\ ~c.arg.default)
             /\ Ends(c) /\ UNCHANGED <<live, top>>

\* Mutant: the other defaults are not cleared.
SetDefaultOnly(c) == /\ c.what = "default" /\ c.state = "locked" /\ Locked(c) = {}
                     /\ dflt' = dflt \cup {c.arg.id} /\ slip' = FALSE
                     /\ Ends(c) /\ UNCHANGED <<live, top>>
SetDefault(c) == /\ c.what = "default" /\ c.state = "locked" /\ Locked(c) = {}
                 /\ dflt' = {c.arg.id} /\ slip' = FALSE
                 /\ Ends(c) /\ UNCHANGED <<live, top>>

\* The latest of the addresses that are left, found by a plain read.
FindLatest(S) == IF S = {} THEN 0 ELSE CHOOSE i \in S : \A j \in S : j <= i
Delete(c) ==
    /\ c.what = "delete" /\ c.state = "locked"
    /\ IF c.arg.id \notin dflt
       THEN live' = live \ {c.arg.id} /\ Ends(c) /\ UNCHANGED <<dflt, top, slip>>
       ELSE /\ calls' = Step(c, "moving", Number(FindLatest(live \ {c.arg.id})))
            /\ UNCHANGED <<book, slip>>
\* It becomes the default, unless it was deleted after it was found, or made
\* after nothing was found.
MoveDefault(c) ==
    /\ c.what = "delete" /\ c.state = "moving" /\ c.reply.n \notin Locked(c)
    /\ live' = live \ {c.arg.id} /\ dflt' = live' \cap {c.reply.n}
    /\ slip' = (dflt' = {} /\ live' # {})
    /\ Ends(c) /\ UNCHANGED top

\* Two transactions that wait for each other's rows: InnoDB gives up one.
Deadlock(c) == /\ c.state \in {"locked", "moving"}
               /\ \/ c.what # "create" /\ Locked(c) # {}
                  \/ c.what = "create" /\ \E d \in calls \ {c} : d.what = "create" /\ d.state = "locked"
               /\ Refuse(c) /\ UNCHANGED slip

Serve(c) == \/ List(c) \/ CountByUserID(c) \/ Create(c) \/ FindForUpdate(c) \/ Update(c)
            \/ SetDefault(c) \/ Delete(c) \/ MoveDefault(c) \/ Deadlock(c)

-----------------------------------------------------------------------------
Init == /\ \E n \in 0..(MaxId - 1) :
             /\ top = n /\ live = 1..n
             /\ dflt \in {S \in SUBSET live : Cardinality(S) = IF n = 0 THEN 0 ELSE 1}
        /\ front = "list" /\ list \in {BlankList(TRUE), BlankList(FALSE)} /\ form = NoForm
        /\ calls = {Request({}, "list", "read", NoArg)}
        /\ changes = 0 /\ slip = FALSE /\ crossed = FALSE

ReadServed == \E c \in calls : c.owner = "list" /\ c.what = "read" /\ c.state = "done"

Tap == /\ \/ ListTap /\ UNCHANGED <<front, form>>
          \/ (OpenNew \/ \E i \in Ids : OpenEdit(i)) /\ UNCHANGED list
          \/ EnterList /\ UNCHANGED form
          \/ (Submit \/ FormDelete) /\ UNCHANGED <<front, list>>
       /\ changes' = changes + Cardinality({c \in calls' \ calls : c.what # "read"})
       /\ changes' <= MaxChanges
       /\ UNCHANGED <<book, slip, crossed>>
Type == /\ Pick
        /\ UNCHANGED <<book, front, list, calls, changes, slip, crossed>>
Leave == /\ \/ LeaveList /\ UNCHANGED form
            \/ front = "form" /\ Back(calls)
         /\ UNCHANGED <<book, changes, slip, crossed>>

\* An answer arrives, or it is known that none will.
Answer(c) == /\ c.state \in {"done", "refused"} /\ UNCHANGED <<book, changes, slip, crossed>>
             /\ \/ Shown(c) \/ Written(c) \/ FormFilled(c) \/ Saved(c)
                \/ c.state = "refused" /\ Refused(c)
Lose(c) == /\ Unshown(c) \/ FormUnfilled(c) \/ Refused(c)
           /\ crossed' = (crossed \/ c.what # "read")
           /\ UNCHANGED <<book, changes, slip>>
Served(c) == /\ Serve(c) /\ UNCHANGED <<front, list, form, changes>>
             /\ crossed' = IF c.what = "read" /\ c.owner = "list" THEN calls # {c}
                           ELSE crossed \/ (book' # book /\ (ReadServed \/ c.owner # "list"))

Handle(c) == Answer(c) \/ Lose(c) \/ Served(c)
Next == \/ MayAct /\ Tap
        \/ Type \/ Leave
        \/ \E c \in calls : Handle(c)

Fairness == \A i \in 1..(MaxCalls + 1) : WF_vars(\E c \in calls : c.id = i /\ Handle(c))
Spec == Init /\ [][Next]_vars /\ Fairness

-----------------------------------------------------------------------------
TypeOK ==
    /\ live \subseteq 1..top /\ top \in 0..MaxId
    /\ list.ids \subseteq Ids /\ list.default \subseteq list.ids
    /\ form.level \in 0..3 /\ form.id \in 0..MaxId
    /\ \A c, d \in calls : c.id = d.id => c = d

\* The loading page of the form stands for its read as well, unless that failed:
\* then it stays until the buyer goes back.
SpinnerHasCall == /\ list.loading => \E c \in calls : c.owner = "list" /\ c.what = "read"
                  /\ form.phase = "loading" /\ ~form.unread
                        => \E c \in calls : c.owner = "form" /\ c.what = "read"
                  /\ form.submitting => \E c \in calls : c.owner = "form" /\ c.what \in {"create", "update"}

\* A buyer has one default address, none only without addresses or after two
\* transactions crossed in the one way that loses it.
OneDefault == /\ Cardinality(dflt) <= 1 /\ dflt \subseteq live
              /\ live # {} /\ ~slip => dflt # {}

\* At rest the list shows the book of the server.
ShowsServer == front = "list" /\ calls = {} /\ ~list.failed /\ ~crossed
                  => list.ids = live /\ list.default = dflt
=============================================================================
