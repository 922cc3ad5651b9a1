--------------------------- MODULE BuyerCheckout ----------------------------
(***************************************************************************)
(* The checkout of the buyer app: the draft the cart leaves in the store,  *)
(* the address, the preview the server makes of the order (Confirm) and    *)
(* the order itself (CreateOrders).  The trip to the list of addresses is  *)
(* one step here; that list is a module of its own (BuyerAddresses).       *)
(***************************************************************************)
EXTENDS Requests

CONSTANTS Items,      \* rows of the cart
          Addresses,
          Others,     \* what else goes into an order: delivery type, remark
          MaxCalls    \* bound: a buyer acts while fewer requests are in flight

VARIABLES rows,       \* rows of the cart that can be ordered, on the server
          ordered,    \* rows that were ordered
          book,       \* addresses on the server
          draft,      \* useCheckoutDraftStore
          open,       \* the checkout is in front
          out,        \* its state
          calls,
          overlapped  \* history: two previews were asked for at once

vars == <<rows, ordered, book, draft, open, out, calls, overlapped>>
server == <<rows, ordered, book>>

NoDraft == [ids |-> {}, address |-> None]
Args(d, other) == [ids |-> d.ids, address |-> d.address, other |-> other]
NoArgs == Args(NoDraft, None)

\* The addresses the screen holds only serve to write out the chosen one.
Blank == [preview |-> None, other |-> CHOOSE k \in Others : TRUE, loadingAddr |-> TRUE,
          loadingPreview |-> FALSE, failed |-> FALSE, submitting |-> FALSE]

MayAct == Cardinality(calls) < MaxCalls

\* A draft is set and the checkout pushed; its addresses are read.
Opened(ids, kept) ==
    /\ draft' = [ids |-> ids, address |-> None]
    /\ open' = TRUE /\ out' = Blank /\ overlapped' = FALSE
    /\ calls' = kept \cup {Request(kept, "checkout", "addresses", NoArgs)}
Settle(ids) == /\ ~open /\ ids # {} /\ ids \subseteq Items \ ordered
               /\ Opened(ids, calls) /\ UNCHANGED server

-----------------------------------------------------------------------------
(* The screen.                                                             *)

\* Mutant: the preview is made of the rows and the address alone.
PreviewingQuietly(d, o, sent) ==
    IF d.address = None \/ d.ids = {} \/ o.other # out.other
    THEN out' = o /\ calls' = sent /\ UNCHANGED overlapped
    ELSE /\ out' = [o EXCEPT !.loadingPreview = TRUE, !.failed = FALSE]
         /\ calls' = sent \cup {Request(sent, "checkout", "confirm", Args(d, o.other))}
         /\ overlapped' = InFlight(sent, {"confirm"})
\* loadPreview runs again whenever something of the order changes.  Two of
\* them can be in flight; nothing tells their answers apart.
Previewing(d, o, sent) ==
    IF d.address = None \/ d.ids = {}
    THEN /\ out' = [o EXCEPT !.preview = None]
         /\ calls' = sent /\ overlapped' = (overlapped \/ InFlight(sent, {"confirm"}))
    ELSE /\ out' = [o EXCEPT !.loadingPreview = TRUE, !.failed = FALSE]
         /\ calls' = sent \cup {Request(sent, "checkout", "confirm", Args(d, o.other))}
         /\ overlapped' = InFlight(sent, {"confirm"})

\* What is shown: nothing to settle, a spinner, or the order to be placed.
Offers == IF ~open \/ draft.ids = {} \/ out.loadingAddr THEN {}
          ELSE {"address", "other"} \cup (IF out.failed THEN {"retry"} ELSE {})
               \cup (IF out.preview # None /\ ~out.submitting THEN {"submit"} ELSE {})

Choose(k) == /\ "other" \in Offers /\ k # out.other
             /\ Previewing(draft, [out EXCEPT !.other = k], calls)
             /\ UNCHANGED <<server, draft, open>>
RetryPreview == /\ "retry" \in Offers
                /\ Previewing(draft, out, calls) /\ UNCHANGED <<server, draft, open>>

\* To the list of addresses and back: some are deleted there, another is made the
\* default one, one may be picked.  The checkout does not read its addresses again.
PickAddress(S, a) ==
    LET d == [draft EXCEPT !.address = a] IN
    /\ "address" \in Offers
    /\ book' = book \ S
    /\ a = draft.address \/ a \in book'
    /\ draft' = d
    /\ IF d = draft THEN UNCHANGED <<out, calls, overlapped>> ELSE Previewing(d, out, calls)
    /\ UNCHANGED <<rows, ordered, open>>

\* The order takes the draft as it is now, whatever the preview was made of.
submit == /\ "submit" \in Offers /\ draft.address # None
          /\ out' = [out EXCEPT !.submitting = TRUE]
          /\ calls' = calls \cup {Request(calls, "checkout", "submit", Args(draft, out.other))}
          /\ UNCHANGED <<server, draft, open, overlapped>>

\* Nothing listens to its reads any more; an order under way still empties the
\* draft.  The draft that stays is replaced before it is read again.
Leave == /\ open /\ open' = FALSE /\ out' = Blank /\ draft' = NoDraft /\ overlapped' = FALSE
         /\ LET kept == {c \in calls : c.what = "submit"} IN calls' = Orphaned(kept, kept)
         /\ UNCHANGED server

-----------------------------------------------------------------------------
(* The answers.                                                            *)

\* The default address, or the first of them.
First(list) == IF list = {} THEN {None} ELSE list
\* loadAddresses keeps the chosen address while it exists.
AddressesRead(c) ==
    LET o == [out EXCEPT !.loadingAddr = FALSE] IN
    /\ c.what = "addresses" /\ c.state = "done"
    /\ IF draft.address \in c.reply THEN draft' = draft
       ELSE \E a \in First(c.reply) : draft' = [draft EXCEPT !.address = a]
    /\ IF draft' = draft THEN out' = o /\ calls' = calls \ {c} /\ UNCHANGED overlapped
       ELSE Previewing(draft', o, calls \ {c})
AddressesFailed(c) == /\ c.what = "addresses"
                      /\ out' = [out EXCEPT !.loadingAddr = FALSE]
                      /\ calls' = calls \ {c} /\ UNCHANGED <<draft, overlapped>>

Previewed(c) == /\ c.what = "confirm" /\ c.state = "done"
                /\ out' = [out EXCEPT !.preview = c.arg, !.loadingPreview = FALSE]
                /\ calls' = calls \ {c} /\ UNCHANGED <<draft, overlapped>>
PreviewFailed(c) ==
    /\ c.what = "confirm"
    /\ out' = [out EXCEPT !.preview = None, !.failed = TRUE, !.loadingPreview = FALSE]
    /\ calls' = calls \ {c} /\ UNCHANGED <<draft, overlapped>>

\* finally: of the checkout that is in front only.
Ended(c) == [out EXCEPT !.submitting = @ /\ c.owner = "gone"]
\* The draft is reset although another one may have taken its place.
Submitted(c) == /\ c.what = "submit" /\ c.state = "done" /\ draft' = NoDraft
                /\ Previewing(NoDraft, Ended(c), calls \ {c})
\* Mutant: the button stays dead after a refusal.
SubmitFailedStuck(c) == /\ c.what = "submit" /\ calls' = calls \ {c}
                        /\ UNCHANGED <<draft, out, overlapped>>
SubmitFailed(c) == /\ c.what = "submit" /\ out' = Ended(c)
                   /\ calls' = calls \ {c} /\ UNCHANGED <<draft, overlapped>>

-----------------------------------------------------------------------------
(* The server.                                                             *)

\* Confirm and CreateOrders ask for the same: rows that exist, of products on
\* sale, and an address of the buyer's.
Orderable(arg) == arg.ids \subseteq rows /\ arg.address \in book
Accepts(c) == c.what = "addresses" \/ Orderable(c.arg)

Serve(c) ==
    /\ c.state = "sent"
    /\ IF c.what = "submit" /\ Accepts(c)
       THEN rows' = rows \ c.arg.ids /\ ordered' = ordered \cup c.arg.ids
       ELSE UNCHANGED <<rows, ordered>>
    /\ calls' = Handled(calls, c, Accepts(c), IF c.what = "addresses" THEN book ELSE None)
    /\ UNCHANGED <<book, draft, open, out, overlapped>>

\* A product of the cart is taken off sale.
Delist(i) == /\ i \in rows /\ rows' = rows \ {i}
             /\ UNCHANGED <<ordered, book, draft, open, out, calls, overlapped>>

-----------------------------------------------------------------------------
Init == /\ rows = Items /\ ordered = {}
        /\ book \in {{}, Addresses}
        /\ \E ids \in (SUBSET Items) \ {{}} : draft = [ids |-> ids, address |-> None]
        /\ open = TRUE /\ out = Blank /\ overlapped = FALSE
        /\ calls = {Request({}, "checkout", "addresses", NoArgs)}

\* An answer arrives, or it is known that none will.
Answer(c) == /\ c.state # "sent" /\ UNCHANGED <<server, open>>
             /\ \/ AddressesRead(c) \/ Previewed(c) \/ Submitted(c)
                \/ c.state = "refused" /\ (PreviewFailed(c) \/ SubmitFailed(c))
Lose(c) == /\ AddressesFailed(c) \/ PreviewFailed(c) \/ SubmitFailed(c)
           /\ UNCHANGED <<server, open>>

Tap == \/ \E k \in Others : Choose(k)
       \/ \E S \in SUBSET Addresses, a \in Addresses \cup {None} : PickAddress(S, a)
       \/ RetryPreview \/ submit
       \/ \E ids \in SUBSET Items : Settle(ids)

Handle(c) == Serve(c) \/ Answer(c) \/ Lose(c)
Next == \/ MayAct /\ Tap
        \/ Leave
        \/ \E c \in calls : Handle(c)
        \/ \E i \in Items : Delist(i)

\* The server handles what it gets, and a request ends with an answer or without.
Fairness == \A i \in 1..(MaxCalls + 1) : WF_vars(\E c \in calls : c.id = i /\ Handle(c))
Spec == Init /\ [][Next]_vars /\ Fairness

-----------------------------------------------------------------------------
TypeOK ==
    /\ rows \subseteq Items /\ ordered \subseteq Items \ rows /\ book \subseteq Addresses
    /\ draft.ids \subseteq Items /\ draft.address \in Addresses \cup {None}
    /\ out.other \in Others
    /\ Cardinality(calls) <= MaxCalls /\ \A c, d \in calls : c.id = d.id => c = d

\* A spinner or a dead button stands for a request that will end it.
SpinnerHasCall ==
    open => /\ out.loadingAddr => InFlight(calls, {"addresses"})
            /\ out.loadingPreview => InFlight(calls, {"confirm"})
            /\ out.submitting => InFlight(calls, {"submit"})

\* A preview that was not overtaken by another is the preview of the order
\* that the button would place.
PreviewIsCurrent ==
    open /\ ~InFlight(calls, {"confirm"}) /\ ~overlapped /\ out.preview # None
        => out.preview = Args(draft, out.other)

=============================================================================
