--------------------------- MODULE BuyerApp_proofs ---------------------------
(***************************************************************************)
(* Theorems about BuyerApp, for any catalogue, cart, address book and      *)
(* number of requests in flight: what its screens show and wait for, what  *)
(* a product page asks for, what the checkout previews, what the address   *)
(* transactions keep, and what the order screens offer.                    *)
(***************************************************************************)
EXTENDS BuyerApp_browse_proofs

-----------------------------------------------------------------------------
(* The checkout: while previews did not overlap, every preview under way is *)
(* of the order as it is now.                                              *)

Formed(o, cs) ==
    /\ {"preview", "other"} \subseteq DOMAIN o
    /\ \A c \in cs : /\ {"what", "owner", "arg"} \subseteq DOMAIN c
                     /\ c.what = "confirm" => c.owner = "checkout"
Current(d, o, cs) ==
    /\ \A c \in cs : c.what = "confirm" => c.arg = Checkout!Args(d, o.other)
    /\ (\A c \in cs : c.what # "confirm") /\ o.preview # None => o.preview = Checkout!Args(d, o.other)

CheckoutInv ==
    /\ Formed(out, calls)
    /\ ~open => \A c \in calls : c.what = "submit"
    /\ open /\ ~overlapped => Current(draft, out, calls)

\* Whatever is sent is formed; a preview replaces what may have been overtaken.
LEMMA Previews ==
    ASSUME NEW d, NEW o, NEW cs, Formed(o, cs), Checkout!Previewing(d, o, cs)
    PROVE  /\ Formed(out', calls')
           /\ ~overlapped' => Current(d, out', calls')
           /\ d.ids = {} => calls' = cs
  <1>1. CASE d.address = None \/ d.ids = {}
    <2>1. out' = [o EXCEPT !.preview = None] /\ calls' = cs
          /\ overlapped' = (overlapped \/ Checkout!InFlight(cs, {"confirm"}))
      BY <1>1 DEF Checkout!Previewing
    <2>2. DOMAIN out' = DOMAIN o /\ out'.preview = None
      BY <2>1 DEF Formed
    <2>3. ~overlapped' => \A c \in cs : c.what # "confirm"
      BY <2>1 DEF Formed, Checkout!InFlight
    <2> QED
      BY <2>1, <2>2, <2>3 DEF Formed, Current
  <1>2. CASE ~(d.address = None \/ d.ids = {})
    <2> PICK new : new = Checkout!Request(cs, "checkout", "confirm", Checkout!Args(d, o.other))
      OBVIOUS
    <2>1. out' = [o EXCEPT !.loadingPreview = TRUE, !.failed = FALSE] /\ calls' = cs \cup {new}
          /\ overlapped' = Checkout!InFlight(cs, {"confirm"})
      BY <1>2 DEF Checkout!Previewing
    <2>2. DOMAIN out' = DOMAIN o /\ out'.other = o.other
      BY <2>1 DEF Formed
    <2>3. /\ {"what", "owner", "arg"} \subseteq DOMAIN new
          /\ new.what = "confirm" /\ new.owner = "checkout" /\ new.arg = Checkout!Args(d, o.other)
      BY DEF Checkout!Request
    <2>4. ~overlapped' => \A c \in cs : c.what # "confirm"
      BY <2>1 DEF Formed, Checkout!InFlight
    <2>5. Formed(out', calls')
      BY <2>1, <2>2, <2>3 DEF Formed
    <2>6. ~overlapped' => Current(d, out', calls')
      BY <2>1, <2>2, <2>3, <2>4 DEF Current
    <2> QED
      BY <1>2, <2>5, <2>6
  <1> QED
    BY <1>1, <1>2

\* A step that asks for a preview, on an open checkout or for an empty draft.
LEMMA PreviewingKeeps ==
    ASSUME CheckoutInv, NEW o, NEW cs, Formed(o, cs), cs \subseteq calls, open' = open,
           Checkout!Previewing(draft', o, cs), open \/ draft' = Checkout!NoDraft
    PROVE  CheckoutInv'
  <1> PICK d : d = draft'
    OBVIOUS
  <1>1. /\ Formed(out', calls')
        /\ ~overlapped' => Current(d, out', calls')
        /\ d.ids = {} => calls' = cs
    BY Previews
  <1>2. ~open' => \A c \in calls' : c.what = "submit"
    BY <1>1 DEF CheckoutInv, Checkout!NoDraft
  <1> QED
    BY <1>1, <1>2 DEF CheckoutInv

\* A step that shows no other preview.
LEMMA QuietKeeps ==
    ASSUME CheckoutInv, UNCHANGED <<draft, open, overlapped>>,
           DOMAIN out' = DOMAIN out, out'.preview = out.preview, out'.other = out.other,
           \A c \in calls' : /\ {"what", "owner", "arg"} \subseteq DOMAIN c
                             /\ \/ c.what = "submit"
                                \/ \E b \in calls : c.what = b.what /\ c.arg = b.arg /\ c.owner = b.owner,
           \A b \in calls : b.what = "confirm" => \E c \in calls' : c.what = "confirm"
    PROVE  CheckoutInv'
  <1>1. Formed(out', calls')
    BY DEF CheckoutInv, Formed
  <1>2. ~open' => \A c \in calls' : c.what = "submit"
    BY DEF CheckoutInv
  <1>3. Current(draft, out, calls) => Current(draft, out', calls')
    BY DEF Current
  <1> QED
    BY <1>1, <1>2, <1>3 DEF CheckoutInv

LEMMA CheckoutTaps ==
    ASSUME CheckoutInv, \/ \E k \in Others : Checkout!Choose(k)
                        \/ \E S \in SUBSET Addresses, a \in Addresses \cup {None} : Checkout!PickAddress(S, a)
                        \/ Checkout!RetryPreview \/ Checkout!submit
    PROVE  CheckoutInv'
  <1>1. ASSUME NEW k \in Others, Checkout!Choose(k) PROVE CheckoutInv'
    <2> PICK o : o = [out EXCEPT !.other = k]
      OBVIOUS
    <2>1. Formed(o, calls)
      BY DEF CheckoutInv, Formed
    <2>2. open /\ open' = open /\ draft' = draft /\ Checkout!Previewing(draft, o, calls)
      BY <1>1 DEF Checkout!Choose, Checkout!Offers
    <2> QED
      BY <2>1, <2>2, PreviewingKeeps
  <1>2. CASE Checkout!RetryPreview
    <2>1. open /\ open' = open /\ draft' = draft /\ Checkout!Previewing(draft, out, calls)
      BY <1>2 DEF Checkout!RetryPreview, Checkout!Offers
    <2> QED
      BY <2>1, PreviewingKeeps DEF CheckoutInv
  <1>3. ASSUME NEW S, NEW a, Checkout!PickAddress(S, a) PROVE CheckoutInv'
    <2>1. open /\ open' = open
      BY <1>3 DEF Checkout!PickAddress, Checkout!Offers
    <2>2. CASE draft' = draft
      <3>1. UNCHANGED <<out, calls, overlapped>>
        BY <1>3, <2>2 DEF Checkout!PickAddress
      <3> QED
        BY <2>1, <2>2, <3>1 DEF CheckoutInv, Formed, Current
    <2>3. CASE draft' # draft
      <3>1. Checkout!Previewing(draft', out, calls)
        BY <1>3, <2>3 DEF Checkout!PickAddress
      <3> QED
        BY <2>1, <3>1, PreviewingKeeps DEF CheckoutInv
    <2> QED
      BY <2>2, <2>3
  <1>4. CASE Checkout!submit
    <2> PICK new : new = Checkout!Request(calls, "checkout", "submit", Checkout!Args(draft, out.other))
      OBVIOUS
    <2>1. /\ out' = [out EXCEPT !.submitting = TRUE] /\ calls' = calls \cup {new}
          /\ UNCHANGED <<draft, open, overlapped>>
      BY <1>4 DEF Checkout!submit
    <2>2. {"what", "owner", "arg"} \subseteq DOMAIN new /\ new.what = "submit"
      BY DEF Checkout!Request
    <2>3. DOMAIN out' = DOMAIN out /\ out'.preview = out.preview /\ out'.other = out.other
      BY <2>1 DEF CheckoutInv, Formed
    <2>4. \A c \in calls : {"what", "owner", "arg"} \subseteq DOMAIN c
      BY DEF CheckoutInv, Formed
    <2> QED
      BY <2>1, <2>2, <2>3, <2>4, QuietKeeps
  <1> QED
    BY <1>1, <1>2, <1>3, <1>4

\* The checkout is opened for another choice of rows, or left.
LEMMA CheckoutGoes ==
    ASSUME CheckoutInv, (\E ids \in SUBSET Settled : Checkout!Settle(ids)) \/ Checkout!Leave
    PROVE  CheckoutInv'
  <1>1. ASSUME NEW ids, Checkout!Settle(ids) PROVE CheckoutInv'
    <2> PICK new : new = Checkout!Request(calls, "checkout", "addresses", Checkout!NoArgs)
      OBVIOUS
    <2>1. /\ ~open /\ open' = TRUE /\ out' = Checkout!Blank /\ calls' = calls \cup {new}
      BY <1>1 DEF Checkout!Settle, Checkout!Opened
    <2>2. {"what", "owner", "arg"} \subseteq DOMAIN new /\ new.what = "addresses"
      BY DEF Checkout!Request
    <2>3. {"preview", "other"} \subseteq DOMAIN out' /\ out'.preview = None
      BY <2>1 DEF Checkout!Blank
    <2>4. Formed(out', calls')
      BY <2>1, <2>2, <2>3 DEF CheckoutInv, Formed
    <2>5. Current(draft', out', calls')
      BY <2>1, <2>2, <2>3 DEF CheckoutInv, Current
    <2> QED
      BY <2>1, <2>4, <2>5 DEF CheckoutInv
  <1>2. CASE Checkout!Leave
    <2>1. /\ open' = FALSE /\ out' = Checkout!Blank
          /\ calls' = {[c EXCEPT !.owner = "gone"] : c \in {b \in calls : b.what = "submit"}}
      BY <1>2 DEF Checkout!Leave, Checkout!Orphaned
    <2>2. ASSUME NEW c \in calls, c.what = "submit", NEW d, d = [c EXCEPT !.owner = "gone"]
          PROVE  {"what", "owner", "arg"} \subseteq DOMAIN d /\ d.what = "submit"
      BY <2>2 DEF CheckoutInv, Formed
    <2>3. \A d \in calls' : {"what", "owner", "arg"} \subseteq DOMAIN d /\ d.what = "submit"
      BY <2>1, <2>2
    <2>4. {"preview", "other"} \subseteq DOMAIN out'
      BY <2>1 DEF Checkout!Blank
    <2> QED
      BY <2>1, <2>3, <2>4 DEF CheckoutInv, Formed
  <1> QED
    BY <1>1, <1>2

LEMMA CheckoutServes == ASSUME CheckoutInv, NEW c \in calls, Checkout!Serve(c) PROVE CheckoutInv'
  <1>1. PICK state, reply : calls' = (calls \ {c}) \cup {[c EXCEPT !.state = state, !.reply = reply]}
    BY DEF Checkout!Serve, Checkout!Handled
  <1> PICK new : new = [c EXCEPT !.state = state, !.reply = reply]
    OBVIOUS
  <1>2. \A b \in calls : {"what", "owner", "arg"} \subseteq DOMAIN b
    BY DEF CheckoutInv, Formed
  <1>3. DOMAIN new = DOMAIN c /\ new.what = c.what /\ new.owner = c.owner /\ new.arg = c.arg
    BY <1>2
  <1>4. UNCHANGED <<draft, open, overlapped, out>>
    BY DEF Checkout!Serve
  <1>5. \A b \in calls : b.what = "confirm" => \E d \in calls' : d.what = "confirm"
    BY <1>1, <1>3
  <1> QED
    BY <1>1, <1>2, <1>3, <1>4, <1>5, QuietKeeps

LEMMA CheckoutAnswers ==
    ASSUME CheckoutInv, NEW c \in calls, open' = open,
           \/ Checkout!AddressesRead(c) \/ Checkout!AddressesFailed(c)
           \/ Checkout!Previewed(c) \/ Checkout!PreviewFailed(c)
           \/ Checkout!Submitted(c) \/ Checkout!SubmitFailed(c)
    PROVE  CheckoutInv'
  <1>0. /\ {"preview", "other"} \subseteq DOMAIN out
        /\ \A b \in calls : {"what", "owner", "arg"} \subseteq DOMAIN b
        /\ \A o : DOMAIN o = DOMAIN out => Formed(o, calls \ {c})
    BY DEF CheckoutInv, Formed
  <1>1. ASSUME UNCHANGED <<draft, overlapped>>, calls' = calls \ {c}, c.what # "confirm",
               NEW field \in {"loadingAddr", "submitting"}, NEW v, out' = [out EXCEPT ![field] = v]
        PROVE  CheckoutInv'
    <2>1. DOMAIN out' = DOMAIN out /\ out'.preview = out.preview /\ out'.other = out.other
      BY <1>0, <1>1
    <2> QED
      BY <1>0, <1>1, <2>1, QuietKeeps
  <1>2. CASE Checkout!AddressesRead(c)
    <2> PICK o : o = [out EXCEPT !.loadingAddr = FALSE]
      OBVIOUS
    <2>1. c.what = "addresses" /\ open
      BY <1>2 DEF Checkout!AddressesRead, CheckoutInv
    <2>2. CASE draft' = draft
      <3>1. out' = o /\ calls' = calls \ {c} /\ UNCHANGED overlapped
        BY <1>2, <2>2 DEF Checkout!AddressesRead
      <3> QED
        BY <1>1, <2>1, <2>2, <3>1
    <2>3. CASE draft' # draft
      <3>1. Checkout!Previewing(draft', o, calls \ {c})
        BY <1>2, <2>3 DEF Checkout!AddressesRead
      <3>2. Formed(o, calls \ {c})
        BY <1>0
      <3> QED
        BY <2>1, <3>1, <3>2, PreviewingKeeps
    <2> QED
      BY <2>2, <2>3
  <1>3. CASE Checkout!AddressesFailed(c)
    BY <1>1, <1>3 DEF Checkout!AddressesFailed
  <1>4. CASE Checkout!Previewed(c)
    <2>1. /\ c.what = "confirm" /\ out' = [out EXCEPT !.preview = c.arg, !.loadingPreview = FALSE]
          /\ calls' = calls \ {c} /\ UNCHANGED <<draft, overlapped>>
      BY <1>4 DEF Checkout!Previewed
    <2>2. DOMAIN out' = DOMAIN out /\ out'.preview = c.arg /\ out'.other = out.other
      BY <1>0, <2>1
    <2>3. Formed(out', calls') /\ open
      BY <1>0, <2>1, <2>2 DEF CheckoutInv
    <2>4. ~overlapped => Current(draft, out', calls')
      BY <2>1, <2>2, <2>3 DEF CheckoutInv, Current
    <2> QED
      BY <2>1, <2>3, <2>4 DEF CheckoutInv
  <1>5. CASE Checkout!PreviewFailed(c)
    <2>1. /\ c.what = "confirm"
          /\ out' = [out EXCEPT !.preview = None, !.failed = TRUE, !.loadingPreview = FALSE]
          /\ calls' = calls \ {c} /\ UNCHANGED <<draft, overlapped>>
      BY <1>5 DEF Checkout!PreviewFailed
    <2>2. DOMAIN out' = DOMAIN out /\ out'.preview = None /\ out'.other = out.other
      BY <1>0, <2>1
    <2>3. Formed(out', calls') /\ open
      BY <1>0, <2>1, <2>2 DEF CheckoutInv
    <2>4. ~overlapped => Current(draft, out', calls')
      BY <2>1, <2>2, <2>3 DEF CheckoutInv, Current
    <2> QED
      BY <2>1, <2>3, <2>4 DEF CheckoutInv
  <1>6. CASE Checkout!Submitted(c)
    <2>1. draft' = Checkout!NoDraft /\ Checkout!Previewing(draft', Checkout!Ended(c), calls \ {c})
      BY <1>6 DEF Checkout!Submitted
    <2>2. DOMAIN Checkout!Ended(c) = DOMAIN out
      BY DEF Checkout!Ended
    <2>3. Formed(Checkout!Ended(c), calls \ {c})
      BY <1>0, <2>2
    <2> QED
      BY <2>1, <2>3, PreviewingKeeps
  <1>7. CASE Checkout!SubmitFailed(c)
    <2>1. /\ c.what = "submit" /\ calls' = calls \ {c} /\ UNCHANGED <<draft, overlapped>>
          /\ out' = [out EXCEPT !.submitting = @ /\ c.owner = "gone"]
      BY <1>7 DEF Checkout!SubmitFailed, Checkout!Ended
    <2> QED
      BY <1>1, <2>1
  <1> QED
    BY <1>2, <1>3, <1>4, <1>5, <1>6, <1>7

LEMMA CheckoutStarts == Checkout!Init => CheckoutInv
  <1> SUFFICES ASSUME Checkout!Init PROVE CheckoutInv
    OBVIOUS
  <1> PICK new : new = Checkout!Request({}, "checkout", "addresses", Checkout!NoArgs)
    OBVIOUS
  <1>1. open = TRUE /\ out = Checkout!Blank /\ calls = {new}
    BY DEF Checkout!Init
  <1>2. {"what", "owner", "arg"} \subseteq DOMAIN new /\ new.what = "addresses"
    BY DEF Checkout!Request
  <1>3. {"preview", "other"} \subseteq DOMAIN out /\ out.preview = None
    BY <1>1 DEF Checkout!Blank
  <1> QED
    BY <1>1, <1>2, <1>3 DEF CheckoutInv, Formed, Current

\* No step of the checkout makes the preview one of another order.
LEMMA CheckoutSteps == ASSUME CheckoutInv, Checkout!Next PROVE CheckoutInv'
  <1>1. CASE Checkout!Tap
    BY <1>1, CheckoutTaps, CheckoutGoes DEF Checkout!Tap
  <1>2. CASE Checkout!Leave
    BY <1>2, CheckoutGoes
  <1>3. ASSUME NEW c \in calls, Checkout!Handle(c) PROVE CheckoutInv'
    <2>1. CASE Checkout!Serve(c)
      BY <2>1, CheckoutServes
    <2>2. CASE Checkout!Answer(c) \/ Checkout!Lose(c)
      <3>1. /\ open' = open
            /\ \/ Checkout!AddressesRead(c) \/ Checkout!AddressesFailed(c)
               \/ Checkout!Previewed(c) \/ Checkout!PreviewFailed(c)
               \/ Checkout!Submitted(c) \/ Checkout!SubmitFailed(c)
        BY <2>2 DEF Checkout!Answer, Checkout!Lose
      <3> QED
        BY <3>1, CheckoutAnswers
    <2> QED
      BY <1>3, <2>1, <2>2 DEF Checkout!Handle
  <1>4. ASSUME NEW i \in Settled, Checkout!Delist(i) PROVE CheckoutInv'
    BY <1>4 DEF Checkout!Delist, CheckoutInv, Formed, Current
  <1> QED
    BY <1>1, <1>2, <1>3, <1>4 DEF Checkout!Next

-----------------------------------------------------------------------------
(* The address book.  A transaction that is under way holds the lock of its *)
(* address, nobody else holds that one, and the address is there until the  *)
(* transaction itself deletes it.                                          *)

Fields == {"owner", "what", "arg", "state", "reply"}
Holds(c) == c.what # "create" /\ c.state \in {"locked", "moving"}
Locking(cs, alive) ==
    /\ \A c \in cs : Fields \subseteq DOMAIN c /\ (Holds(c) => c.arg.id \in alive)
    /\ \A c, d \in cs : Holds(c) /\ Holds(d) /\ c.arg.id = d.arg.id => c = d
HasDefault(alive, ds, slipped) ==
    /\ ds \subseteq alive /\ (\A i, j \in ds : i = j)
    /\ alive # {} /\ ~slipped => ds # {}

BookInv == Locking(calls, live) /\ HasDefault(live, dflt, slip)

\* What the app does with its requests: it forgets some, sends others, and
\* changes whose the rest are.
Renames(g) == \A c \in calls : /\ Fields \subseteq DOMAIN g[c] /\ g[c].what = c.what
                               /\ g[c].arg = c.arg /\ g[c].state = c.state
Keeps(g, cs) == \A d \in cs : Fields \subseteq DOMAIN d /\ (Holds(d) => \E c \in calls : d = g[c])
Comes(cs) == \E g : Renames(g) /\ Keeps(g, cs)

LEMMA ComesKeeps == ASSUME Locking(calls, live), NEW cs, Comes(cs) PROVE Locking(cs, live)
  <1>0. PICK g : Renames(g) /\ Keeps(g, cs)
    BY DEF Comes
  <1>1. /\ \A c \in calls : g[c].what = c.what /\ g[c].arg = c.arg /\ g[c].state = c.state
        /\ \A d \in cs : Fields \subseteq DOMAIN d /\ (Holds(d) => \E c \in calls : d = g[c])
    BY <1>0 DEF Renames, Keeps
  <1>2. \A d \in cs : Holds(d) => \E c \in calls : d = g[c] /\ Holds(c) /\ d.arg.id = c.arg.id
    BY <1>1 DEF Holds
  <1> QED
    BY <1>1, <1>2 DEF Locking

LEMMA ComesSelf == ASSUME Locking(calls, live), NEW cs, cs \subseteq calls PROVE Comes(cs)
  <1> PICK g : g = [c \in calls |-> c]
    OBVIOUS
  <1>1. \A c \in calls : g[c] = c
    OBVIOUS
  <1>2. Renames(g) /\ Keeps(g, cs)
    BY <1>1 DEF Renames, Keeps, Locking
  <1> QED
    BY <1>2 DEF Comes

LEMMA ComesAsk ==
    ASSUME NEW cs, Comes(cs), NEW owner, NEW what, NEW arg PROVE Comes(Book!Ask(cs, owner, what, arg))
  <1> PICK new : new = Book!Request(cs, owner, what, arg)
    OBVIOUS
  <1>1. Fields \subseteq DOMAIN new /\ new.state = "sent"
    BY DEF Book!Request, Fields
  <1>2. Book!Ask(cs, owner, what, arg) = cs \cup {new}
    BY DEF Book!Ask
  <1>3. ~Holds(new)
    BY <1>1 DEF Holds
  <1>4. \A g : Keeps(g, cs) => Keeps(g, cs \cup {new})
    BY <1>1, <1>3 DEF Keeps
  <1> QED
    BY <1>2, <1>4 DEF Comes

\* Another owner.
LEMMA Owned ==
    ASSUME Locking(calls, live), NEW c \in calls, NEW owner, NEW d, d = [c EXCEPT !.owner = owner]
    PROVE  Fields \subseteq DOMAIN d /\ d.what = c.what /\ d.arg = c.arg /\ d.state = c.state
  BY DEF Locking, Fields

LEMMA ComesOwned ==
    ASSUME Locking(calls, live), NEW S, NEW owner, NEW cs,
           \A d \in cs : \/ d \in calls \ S
                         \/ \E c \in calls \cap S : d = [c EXCEPT !.owner = owner]
    PROVE  Comes(cs)
  <1> PICK g : g = [c \in calls |-> IF c \in S THEN [c EXCEPT !.owner = owner] ELSE c]
    OBVIOUS
  <1>1. \A c \in calls : /\ c \in S => g[c] = [c EXCEPT !.owner = owner]
                         /\ c \notin S => g[c] = c
    OBVIOUS
  <1>2. Renames(g)
    <2>1. \A c \in calls : Fields \subseteq DOMAIN c
      BY DEF Locking
    <2> SUFFICES ASSUME NEW c \in calls
                 PROVE  /\ Fields \subseteq DOMAIN g[c] /\ g[c].what = c.what
                        /\ g[c].arg = c.arg /\ g[c].state = c.state
      BY DEF Renames
    <2>2. CASE c \in S
      BY <1>1, <2>2, Owned
    <2>3. CASE c \notin S
      BY <1>1, <2>1, <2>3
    <2> QED
      BY <2>2, <2>3
  <1>3. \A d \in cs : \E c \in calls : d = g[c]
    BY <1>1
  <1>4. Keeps(g, cs)
    BY <1>2, <1>3 DEF Renames, Keeps
  <1> QED
    BY <1>2, <1>4 DEF Comes

LEMMA ComesLeft ==
    ASSUME Locking(calls, live), NEW cs, cs \subseteq calls
    PROVE  Comes(Book!Left(cs)) /\ Comes(Book!LeftList(cs))
  <1>1. Comes(Book!Left(cs))
    <2> PICK S : S = {c \in calls : c.owner = "form"}
      OBVIOUS
    <2>1. \A d \in Book!Left(cs) : \/ d \in calls \ S
                                   \/ \E c \in calls \cap S : d = [c EXCEPT !.owner = "left"]
      BY DEF Book!Left
    <2> QED
      BY <2>1, ComesOwned
  <1>2. Comes(Book!LeftList(cs))
    <2> PICK S : S = {c \in calls : c.owner = "list"}
      OBVIOUS
    <2>1. \A d \in Book!LeftList(cs) : \/ d \in calls \ S
                                       \/ \E c \in calls \cap S : d = [c EXCEPT !.owner = "gone"]
      BY DEF Book!LeftList, Book!Orphaned
    <2> QED
      BY <2>1, ComesOwned
  <1> QED
    BY <1>1, <1>2

LEMMA ComesWithout ==
    ASSUME Locking(calls, live), NEW c \in calls PROVE Comes(Book!Without(c))
  <1>1. \A d \in Book!Without(c) : \/ d \in calls \ {c}
                                   \/ \E b \in calls \cap {c} : d = [b EXCEPT !.owner = "gone"]
    BY DEF Book!Without
  <1> QED
    BY <1>1, ComesOwned

LEMMA ComesBack ==
    ASSUME Locking(calls, live), NEW cs, cs \subseteq calls, Book!Back(cs), front \in {"form", "list", "out"}
    PROVE  Comes(calls')
  BY ComesSelf, ComesLeft, ComesAsk DEF Book!Back, Book!Load

BookFronts == {"list", "form", "out"}

\* The taps of the list and of the form, and the ways out of them.
LEMMA BookTaps ==
    ASSUME Locking(calls, live), front \in BookFronts, Book!Tap \/ Book!Leave \/ Book!Type
    PROVE  Comes(calls') /\ front' \in BookFronts /\ UNCHANGED <<live, dflt, slip>>
  <1>1. CASE Book!Type
    BY <1>1, ComesSelf DEF Book!Type, Book!book
  <1>2. CASE Book!Leave
    <2>1. /\ UNCHANGED <<live, dflt, slip>>
          /\ \/ front' = "out" /\ calls' = Book!LeftList(calls)
             \/ front = "form" /\ Book!Back(calls)
      BY <1>2 DEF Book!Leave, Book!LeaveList, Book!book
    <2>2. front = "form" /\ Book!Back(calls) => front' = "list"
      BY DEF Book!Back
    <2>3. Comes(Book!LeftList(calls))
      BY ComesLeft
    <2>4. Book!Back(calls) => Comes(calls')
      BY ComesBack DEF BookFronts
    <2> QED
      BY <2>1, <2>2, <2>3, <2>4 DEF BookFronts
  <1>3. CASE Book!Tap
    <2>1. Comes(calls)
      BY ComesSelf
    <2>2. UNCHANGED <<live, dflt, slip>>
      BY <1>3 DEF Book!Tap, Book!book
    <2>3. \/ calls' = calls
          \/ \E owner, what, arg : calls' = Book!Ask(calls, owner, what, arg)
      BY <1>3 DEF Book!Tap, Book!ListTap, Book!Load, Book!handleDelete, Book!handleSetDefault, Book!OpenNew,
                  Book!OpenEdit, Book!EnterList, Book!Submit, Book!FormDelete
    <2>4. front' \in {front, "form", "list"}
      BY <1>3 DEF Book!Tap, Book!OpenNew, Book!OpenEdit, Book!EnterList
    <2> QED
      BY <2>1, <2>2, <2>3, <2>4, ComesAsk DEF BookFronts
  <1> QED
    BY <1>1, <1>2, <1>3

LEMMA BookAnswers ==
    ASSUME Locking(calls, live), front \in BookFronts, NEW c \in calls, Book!Answer(c) \/ Book!Lose(c)
    PROVE  Comes(calls') /\ front' \in BookFronts /\ UNCHANGED <<live, dflt, slip>>
  <1>1. UNCHANGED <<live, dflt, slip>>
    BY DEF Book!Answer, Book!Lose, Book!book
  <1>2. Comes(calls \ {c})
    BY ComesSelf
  <1>3. \/ Book!Shown(c) \/ Book!Unshown(c) \/ Book!Written(c) \/ Book!FormFilled(c) \/ Book!FormUnfilled(c)
        \/ Book!Saved(c) \/ Book!Refused(c)
    BY DEF Book!Answer, Book!Lose
  <1>4. CASE Book!Shown(c) \/ Book!Unshown(c) \/ Book!FormFilled(c) \/ Book!FormUnfilled(c)
    BY <1>1, <1>2, <1>4 DEF Book!Shown, Book!Unshown, Book!FormFilled, Book!FormUnfilled
  <1>5. CASE Book!Written(c)
    BY <1>1, <1>2, <1>5, ComesAsk DEF Book!Written, Book!Load
  <1>6. CASE Book!Saved(c)
    <2>1. Book!Back(calls \ {c})
      BY <1>6 DEF Book!Saved
    <2>2. front' \in BookFronts
      BY <2>1 DEF Book!Back, BookFronts
    <2> QED
      BY <1>1, <2>1, <2>2, ComesBack DEF BookFronts
  <1>7. CASE Book!Refused(c)
    BY <1>1, <1>7, ComesWithout DEF Book!Refused
  <1> QED
    BY <1>3, <1>4, <1>5, <1>6, <1>7

\* A request that ends holds nothing any more: its address may be deleted by then.
LEMMA Ending ==
    ASSUME Locking(calls, live), NEW c \in calls, NEW state, state \notin {"locked", "moving"}, NEW reply,
           NEW cs, cs \subseteq (calls \ {c}) \cup {[c EXCEPT !.state = state, !.reply = reply]},
           NEW alive, live \subseteq alive \/ (Holds(c) /\ live \ {c.arg.id} \subseteq alive)
    PROVE  Locking(cs, alive)
  <1> PICK new : new = [c EXCEPT !.state = state, !.reply = reply]
    OBVIOUS
  <1>1. Fields \subseteq DOMAIN new /\ new.state = state
    BY DEF Locking, Fields
  <1>2. ~Holds(new)
    BY <1>1 DEF Holds
  <1>3. \A d \in cs : d = new \/ (d \in calls /\ d # c)
    OBVIOUS
  <1>4. \A d \in calls \ {c} : Holds(d) => d.arg.id \in alive
    BY DEF Locking
  <1> QED
    BY <1>1, <1>2, <1>3, <1>4 DEF Locking

LEMMA Finishing ==
    ASSUME Locking(calls, live), NEW c \in calls, NEW ok \in BOOLEAN, Book!Finished(c, ok),
           NEW alive, live \subseteq alive \/ (Holds(c) /\ live \ {c.arg.id} \subseteq alive)
    PROVE  Locking(calls', alive)
  <1> PICK state : state = IF ok THEN "done" ELSE "refused"
    OBVIOUS
  <1>1. calls' \subseteq (calls \ {c}) \cup {[c EXCEPT !.state = state, !.reply = None]}
    BY DEF Book!Finished, Book!Handled
  <1>2. state \notin {"locked", "moving"}
    OBVIOUS
  <1> QED
    BY <1>1, <1>2, Ending

\* Who may go on holding a lock: a creation needs none, the others have it or
\* find their address free.
MayLock(c) == c.what = "create" \/ Holds(c) \/ (c.arg.id \in live /\ c.arg.id \notin Book!Locked(c))

\* A request that goes on takes the lock of its address, or keeps it.
LEMMA Stepping ==
    ASSUME Locking(calls, live), NEW c \in calls, NEW state, NEW reply, calls' = Book!Step(c, state, reply),
           MayLock(c)
    PROVE  Locking(calls', live)
  <1> PICK new : new = [c EXCEPT !.state = state, !.reply = reply]
    OBVIOUS
  <1>1. Fields \subseteq DOMAIN new /\ new.what = c.what /\ new.arg = c.arg
    BY DEF Locking, Fields
  <1>2. calls' = (calls \ {c}) \cup {new}
    BY DEF Book!Step
  <1>3. Holds(new) => c.what # "create"
    BY <1>1 DEF Holds
  <1>4. c.arg.id \notin Book!Locked(c) => \A d \in calls \ {c} : Holds(d) => d.arg.id # c.arg.id
    BY DEF Book!Locked, Holds
  <1>5. Holds(new) => c.arg.id \in live /\ \A d \in calls \ {c} : Holds(d) => d.arg.id # c.arg.id
    BY <1>3, <1>4 DEF Locking, MayLock
  <1> QED
    BY <1>1, <1>2, <1>5 DEF Locking

\* What the address transactions do.
LEMMA BookServes ==
    ASSUME BookInv, NEW c \in calls, Book!Serve(c) PROVE BookInv'
  <1>1. Locking(calls, live) /\ HasDefault(live, dflt, slip)
    BY DEF BookInv
  <1>2. CASE Book!List(c)
    <2> PICK state : state = "done"
      OBVIOUS
    <2>1. PICK reply : calls' \subseteq (calls \ {c}) \cup {[c EXCEPT !.state = state, !.reply = reply]}
      BY <1>2 DEF Book!List, Book!Handled
    <2>2. UNCHANGED <<live, dflt, slip>>
      BY <1>2 DEF Book!List, Book!book
    <2>3. state \notin {"locked", "moving"}
      OBVIOUS
    <2>4. Locking(calls', live)
      BY <1>1, <2>1, <2>3, Ending
    <2> QED
      BY <1>1, <2>2, <2>4 DEF BookInv
  <1>3. ASSUME UNCHANGED <<live, dflt, slip>>,
               \/ Book!Finished(c, FALSE)
               \/ \E state, reply :
                     /\ calls' = Book!Step(c, state, reply)
                     /\ MayLock(c)
        PROVE  BookInv'
    <2>1. CASE Book!Finished(c, FALSE)
      <3>1. Locking(calls', live)
        BY <1>1, <2>1, Finishing
      <3> QED
        BY <1>1, <1>3, <3>1 DEF BookInv
    <2>2. ASSUME NEW state, NEW reply, calls' = Book!Step(c, state, reply), MayLock(c)
          PROVE  BookInv'
      <3>1. Locking(calls', live)
        BY <1>1, <2>2, Stepping
      <3> QED
        BY <1>1, <1>3, <3>1 DEF BookInv
    <2> QED
      BY <1>3, <2>1, <2>2
  <1>4. CASE Book!CountByUserID(c)
    BY <1>3, <1>4 DEF Book!CountByUserID, Book!Refuse, Book!book, MayLock
  <1>5. CASE Book!FindForUpdate(c)
    BY <1>3, <1>5 DEF Book!FindForUpdate, Book!Refuse, Book!book, MayLock
  <1>6. CASE Book!Deadlock(c)
    BY <1>3, <1>6 DEF Book!Deadlock, Book!Refuse, Book!book, MayLock
  <1>7. CASE Book!Create(c)
    <2> PICK first \in BOOLEAN : first <=> (c.reply.n = 0 \/ c.arg.default)
      OBVIOUS
    <2> PICK new : new = top + 1
      OBVIOUS
    <2>1. /\ live' = live \cup {new} /\ dflt' = (IF first THEN {new} ELSE dflt)
          /\ (slip' <=> (~first /\ (slip \/ live = {}))) /\ Book!Finished(c, TRUE)
      BY <1>7 DEF Book!Create, Book!Ends
    <2>2. Locking(calls', live')
      BY <1>1, <2>1, Finishing
    <2>3. HasDefault(live', dflt', slip')
      BY <1>1, <2>1 DEF HasDefault
    <2> QED
      BY <2>2, <2>3 DEF BookInv
  <1>8. CASE Book!Update(c) \/ Book!SetDefault(c)
    <2>1. Holds(c) /\ live' = live /\ Book!Finished(c, TRUE)
      BY <1>8 DEF Book!Update, Book!SetDefault, Book!Ends, Holds
    <2>2. c.arg.id \in live
      BY <1>1, <2>1 DEF Locking
    <2>3. dflt' = {c.arg.id} \/ (dflt' = dflt /\ (slip' <=> slip))
      BY <1>8 DEF Book!Update, Book!SetDefault
    <2>4. Locking(calls', live')
      BY <1>1, <2>1, Finishing
    <2>5. HasDefault(live', dflt', slip')
      BY <1>1, <2>1, <2>2, <2>3 DEF HasDefault
    <2> QED
      BY <2>4, <2>5 DEF BookInv
  <1>9. CASE Book!Delete(c)
    <2>1. Holds(c)
      BY <1>9 DEF Book!Delete, Holds
    <2>2. CASE c.arg.id \notin dflt
      <3>1. live' = live \ {c.arg.id} /\ Book!Finished(c, TRUE) /\ UNCHANGED <<dflt, slip>>
        BY <1>9, <2>2 DEF Book!Delete, Book!Ends
      <3>2. Locking(calls', live')
        BY <1>1, <2>1, <3>1, Finishing
      <3>3. HasDefault(live', dflt', slip')
        BY <1>1, <2>2, <3>1 DEF HasDefault
      <3> QED
        BY <3>2, <3>3 DEF BookInv
    <2>3. CASE c.arg.id \in dflt
      <3>1. UNCHANGED <<live, dflt, slip>> /\ \E reply : calls' = Book!Step(c, "moving", reply)
        BY <1>9, <2>3 DEF Book!Delete, Book!book
      <3> QED
        BY <1>3, <2>1, <3>1 DEF MayLock
    <2> QED
      BY <2>2, <2>3
  <1>10. CASE Book!MoveDefault(c)
    <2>1. /\ Holds(c) /\ live' = live \ {c.arg.id} /\ Book!Finished(c, TRUE)
          /\ dflt' = live' \cap {c.reply.n} /\ (slip' <=> (dflt' = {} /\ live' # {}))
      BY <1>10 DEF Book!MoveDefault, Book!Ends, Holds
    <2>2. Locking(calls', live')
      BY <1>1, <2>1, Finishing
    <2>3. HasDefault(live', dflt', slip')
      BY <2>1 DEF HasDefault
    <2> QED
      BY <2>2, <2>3 DEF BookInv
  <1> QED
    BY <1>2, <1>4, <1>5, <1>6, <1>7, <1>8, <1>9, <1>10 DEF Book!Serve

LEMMA SameSize == ASSUME NEW S PROVE Book!Cardinality(S) = Cardinality(S)
  BY DEF Book!Cardinality, Cardinality

LEMMA BookStarts == Book!Init => BookInv /\ front \in BookFronts
  <1> SUFFICES ASSUME Book!Init PROVE BookInv /\ front \in BookFronts
    OBVIOUS
  <1>1. PICK n \in 0 .. (MaxId - 1) :
            /\ live = 1 .. n /\ dflt \in SUBSET live
            /\ Cardinality(dflt) = IF n = 0 THEN 0 ELSE 1
    BY SameSize DEF Book!Init
  <1>2. IsFiniteSet(dflt)
    <2>1. n \in Int /\ IsFiniteSet(1 .. n)
      BY BuyerAppAssumption, FS_Interval
    <2> QED
      BY <1>1, <2>1, FS_Subset
  <1>3. HasDefault(live, dflt, slip)
    <2>1. CASE n = 0
      BY <1>1, <2>1 DEF HasDefault
    <2>2. CASE n # 0
      <3>1. \E i : dflt = {i}
        BY <1>1, <1>2, <2>2, FS_Singleton
      <3> QED
        BY <1>1, <3>1 DEF HasDefault
    <2> QED
      BY <2>1, <2>2
  <1>4. Locking(calls, live)
    <2> PICK new : new = Book!Request({}, "list", "read", Book!NoArg)
      OBVIOUS
    <2>1. calls = {new}
      BY DEF Book!Init
    <2>2. Fields \subseteq DOMAIN new /\ new.state = "sent"
      BY DEF Book!Request, Fields
    <2>3. ~Holds(new)
      BY <2>2 DEF Holds
    <2> QED
      BY <2>1, <2>2, <2>3 DEF Locking
  <1>5. front = "list"
    BY DEF Book!Init
  <1> QED
    BY <1>3, <1>4, <1>5 DEF BookInv, BookFronts

\* No step loses the default address but in the one way.
LEMMA BookSteps ==
    ASSUME BookInv, front \in BookFronts, Book!Next PROVE BookInv' /\ front' \in BookFronts
  <1>1. ASSUME Comes(calls'), front' \in BookFronts, UNCHANGED <<live, dflt, slip>>
        PROVE  BookInv' /\ front' \in BookFronts
    <2>1. Locking(calls', live)
      BY <1>1, ComesKeeps DEF BookInv
    <2> QED
      BY <1>1, <2>1 DEF BookInv
  <1>2. CASE Book!Tap \/ Book!Type \/ Book!Leave
    BY <1>1, <1>2, BookTaps DEF BookInv
  <1>3. ASSUME NEW c \in calls, Book!Answer(c) \/ Book!Lose(c) PROVE BookInv' /\ front' \in BookFronts
    BY <1>1, <1>3, BookAnswers DEF BookInv
  <1>4. ASSUME NEW c \in calls, Book!Served(c) PROVE BookInv' /\ front' \in BookFronts
    BY <1>4, BookServes DEF Book!Served
  <1> QED
    BY <1>2, <1>3, <1>4 DEF Book!Next, Book!Handle

-----------------------------------------------------------------------------
(* The orders.  What is sent was offered for the status that it was sent at. *)

Offered(a, s) == a \in Purchases!ListActions(s) \cup Purchases!PageActions(s)
Asked(cs) == \A c \in cs : /\ Fields \subseteq DOMAIN c
                           /\ c.what \in Purchases!Changes => Offered(c.what, c.arg.shown)
OrderFronts == {"list", "detail", "out"}
OrdersInv == Asked(calls) /\ front \in OrderFronts

LEMMA AskedMore ==
    ASSUME NEW cs, Asked(cs), NEW owner, NEW what, NEW arg,
           what \in Purchases!Changes => Offered(what, arg.shown)
    PROVE  Asked(Purchases!Ask(cs, owner, what, arg))
  <1> PICK new : new = Purchases!Request(cs, owner, what, arg)
    OBVIOUS
  <1>1. Fields \subseteq DOMAIN new /\ new.what = what /\ new.arg = arg
    BY DEF Purchases!Request, Fields
  <1>2. Purchases!Ask(cs, owner, what, arg) = cs \cup {new}
    BY DEF Purchases!Ask
  <1> QED
    BY <1>1, <1>2 DEF Asked

LEMMA AskedReads ==
    ASSUME NEW cs, Asked(cs), NEW owner, NEW what \in {"orders", "order", "again"}, NEW arg
    PROVE  Asked(Purchases!Ask(cs, owner, what, arg))
  BY AskedMore DEF Purchases!Changes

LEMMA AskedHandled ==
    ASSUME NEW cs, Asked(cs), NEW c \in cs, NEW ok, NEW reply PROVE Asked(Purchases!Handled(cs, c, ok, reply))
  <1> PICK new : new = [c EXCEPT !.state = IF ok THEN "done" ELSE "refused", !.reply = reply]
    OBVIOUS
  <1>1. Fields \subseteq DOMAIN new /\ new.what = c.what /\ new.arg = c.arg
    BY DEF Asked, Fields
  <1>2. Purchases!Handled(cs, c, ok, reply) = (cs \ {c}) \cup {new}
    BY DEF Purchases!Handled
  <1> QED
    BY <1>1, <1>2 DEF Asked

LEMMA AskedGone == ASSUME NEW cs, Asked(cs), NEW owner PROVE Asked(Purchases!Gone(cs, owner))
  <1>1. ASSUME NEW c \in cs, NEW o, NEW d, d = [c EXCEPT !.owner = o]
        PROVE  Fields \subseteq DOMAIN d /\ d.what = c.what /\ d.arg = c.arg
    BY <1>1 DEF Asked, Fields
  <1>2. \A d \in Purchases!Gone(cs, owner) : d \in cs \/ \E c \in cs : \E o : d = [c EXCEPT !.owner = o]
    BY DEF Purchases!Gone
  <1> QED
    BY <1>1, <1>2 DEF Asked

LEMMA OrdersBack ==
    ASSUME front \in OrderFronts, NEW cs, Asked(cs), Purchases!Back(cs) PROVE OrdersInv'
  <1>1. CASE front = "detail"
    <2>1. front' = "list" /\ calls' = Purchases!Ask(Purchases!Gone(cs, "page"), "list", "orders", Purchases!NoArg)
      BY <1>1 DEF Purchases!Back
    <2> QED
      BY <2>1, AskedGone, AskedReads DEF OrdersInv, OrderFronts
  <1>2. CASE front = "list"
    <2>1. front' = "out" /\ calls' = Purchases!Gone(cs, "list")
      BY <1>2 DEF Purchases!Back
    <2> QED
      BY <2>1, AskedGone DEF OrdersInv, OrderFronts
  <1>3. CASE front = "out"
    <2>1. front' = front /\ calls' = cs
      BY <1>3 DEF Purchases!Back, Purchases!screens
    <2> QED
      BY <2>1 DEF OrdersInv
  <1> QED
    BY <1>1, <1>2, <1>3 DEF OrderFronts

LEMMA OrdersTaps == ASSUME OrdersInv, Purchases!Tap PROVE OrdersInv'
  <1>1. Asked(calls) /\ front \in OrderFronts
    BY DEF OrdersInv
  <1>2. ASSUME front' \in {front, "detail"},
               NEW what \in {"orders", "order"}, \E owner, arg : calls' = Purchases!Ask(calls, owner, what, arg)
        PROVE  OrdersInv'
    <2>1. Asked(calls')
      BY <1>1, <1>2, AskedReads
    <2> QED
      BY <1>1, <1>2, <2>1 DEF OrdersInv, OrderFronts
  <1>3. ASSUME front' = front, NEW owner, NEW o, NEW s, NEW a, Offered(a, s),
               calls' = Purchases!Ask(calls, owner, a, Purchases!Arg(o, s))
        PROVE  OrdersInv'
    <2>1. Purchases!Arg(o, s).shown = s
      BY DEF Purchases!Arg
    <2>2. Asked(calls')
      BY <1>1, <1>3, <2>1, AskedMore
    <2> QED
      BY <1>1, <1>3, <2>2 DEF OrdersInv
  <1>4. CASE Purchases!ListRetry
    BY <1>2, <1>4 DEF Purchases!ListRetry
  <1>5. CASE Purchases!PageRetry
    BY <1>2, <1>5 DEF Purchases!PageRetry
  <1>6. CASE \E o \in Orders : Purchases!ListOpen(o)
    BY <1>2, <1>6 DEF Purchases!ListOpen
  <1>7. ASSUME NEW o \in Orders, Purchases!ListAct(o) PROVE OrdersInv'
    <2>1. PICK s, a : /\ a \in Purchases!ListActions(s) /\ front' = front
                      /\ calls' = Purchases!Ask(calls, "list", a, Purchases!Arg(o, s))
      BY <1>7 DEF Purchases!ListAct, Purchases!screens
    <2>2. Offered(a, s)
      BY <2>1 DEF Offered
    <2> QED
      BY <1>3, <2>1, <2>2
  <1>8. CASE Purchases!PageAct
    <2>1. PICK s, a : /\ a \in Purchases!PageActions(s) /\ front' = front
                      /\ calls' = Purchases!Ask(calls, "page", a, Purchases!Arg(page.of, s))
      BY <1>8 DEF Purchases!PageAct
    <2>2. Offered(a, s)
      BY <2>1 DEF Offered
    <2> QED
      BY <1>3, <2>1, <2>2
  <1> QED
    BY <1>4, <1>5, <1>6, <1>7, <1>8 DEF Purchases!Tap

LEMMA OrdersHandles == ASSUME OrdersInv, NEW c \in calls, Purchases!Handle(c) PROVE OrdersInv'
  <1>1. Asked(calls) /\ Asked(calls \ {c}) /\ front \in OrderFronts
    BY DEF OrdersInv, Asked
  <1>2. ASSUME front' = front, Asked(calls') PROVE OrdersInv'
    BY <1>1, <1>2 DEF OrdersInv
  <1>3. CASE Purchases!Read(c) \/ Purchases!ReadAgain(c) \/ Purchases!ActRefused(c)
    BY <1>1, <1>2, <1>3 DEF Purchases!Read, Purchases!ReadAgain, Purchases!ActRefused
  <1>4. CASE Purchases!Acted(c)
    <2>1. \/ Purchases!Back(calls \ {c})
          \/ /\ front' = front
             /\ \/ calls' = calls \ {c}
                \/ \E arg : calls' = Purchases!Ask(calls \ {c}, "list", "orders", arg)
                \/ \E arg : calls' = Purchases!Ask(calls \ {c}, "page", "again", arg)
      BY <1>4 DEF Purchases!Acted, Purchases!screens
    <2> QED
      BY <1>1, <1>2, <2>1, OrdersBack, AskedReads
  <1>5. CASE Purchases!Lose(c) /\ front' = front
    BY <1>1, <1>2, <1>5, AskedHandled DEF Purchases!Lose
  <1>6. CASE Purchases!Serve(c)
    <2>1. front' = front /\ \E ok, reply : calls' = Purchases!Handled(calls, c, ok, reply)
      BY <1>6 DEF Purchases!Serve, Purchases!screens
    <2> QED
      BY <1>1, <1>2, <2>1, AskedHandled
  <1> QED
    BY <1>3, <1>4, <1>5, <1>6 DEF Purchases!Handle, Purchases!Answer, Purchases!screens

\* No step of the order screens sends what was not offered.
LEMMA OrdersSteps == ASSUME OrdersInv, Purchases!Next PROVE OrdersInv'
  <1>1. Asked(calls) /\ front \in OrderFronts
    BY DEF OrdersInv
  <1>2. CASE Purchases!Enter
    <2> PICK one : one = Purchases!Ask(calls, "list", "orders", Purchases!NoArg)
      OBVIOUS
    <2>1. front' = "list" /\ calls' = Purchases!Ask(one, "list", "orders", Purchases!NoArg)
      BY <1>2 DEF Purchases!Enter
    <2>2. Asked(one)
      BY <1>1, AskedReads
    <2> QED
      BY <2>1, <2>2, AskedReads DEF OrdersInv, OrderFronts
  <1>3. CASE Purchases!Back(calls)
    BY <1>1, <1>3, OrdersBack
  <1>4. CASE \E o \in Orders : Purchases!Advance(o)
    BY <1>1, <1>4 DEF Purchases!Advance, Purchases!screens, OrdersInv
  <1> QED
    BY <1>2, <1>3, <1>4, OrdersTaps, OrdersHandles DEF Purchases!Next, Purchases!Go

LEMMA OrdersStart == Purchases!Init => OrdersInv
  BY DEF Purchases!Init, OrdersInv, Asked, OrderFronts

-----------------------------------------------------------------------------
(* The cart.  Its screen shows what the last answered read brought; that is *)
(* what the server has, unless a read or a change of the list is under way. *)

Carts == {r \in UNION {[D -> [qty : Nat, ok : BOOLEAN]] : D \in SUBSET Items} :
             \A i \in DOMAIN r : r[i].qty \in LegalQty[i]}
CartCalls == [id : Nat, owner : {"cart"}, what : Cart!Reads \cup Cart!Writes,
              arg : [ids : SUBSET Items, n : Int], state : {"sent", "done", "refused"},
              reply : Carts \cup {None}]
CartScreens == [loading : BOOLEAN, failed : BOOLEAN, groups : Carts,
                selected : SUBSET Items, manage : BOOLEAN]

CartReading == \E c \in calls : c.what \in Cart!Reads
CartWritten == \E c \in calls : c.what \in Cart!Writes \ {"select"} /\ c.state = "done"
ReadsAre(cs, r) == \A c \in cs : c.what \in Cart!Reads /\ c.state = "done" => c.reply = r

CartTyped == /\ rows \in Carts /\ cart \in CartScreens /\ calls \subseteq CartCalls /\ crossed \in BOOLEAN
             /\ \A c \in calls : c.what \in Cart!Reads /\ c.state = "done" => c.reply \in Carts
             /\ Numbered(calls) /\ Cardinality(calls) <= MaxCalls
CartSpins == cart.loading => CartReading
CartSynced == ~crossed => /\ ReadsAre(calls, rows)
                          /\ cart.failed \/ cart.groups = rows \/ CartReading \/ CartWritten
CartInv == CartTyped /\ CartSpins /\ CartSynced

LEMMA CartsAre ==
    ASSUME NEW r
    PROVE  r \in Carts <=> /\ r \in [DOMAIN r -> [qty : Nat, ok : BOOLEAN]] /\ DOMAIN r \subseteq Items
                           /\ \A i \in DOMAIN r : r[i].qty \in LegalQty[i]
  BY DEF Carts

LEMMA NoCart == <<>> \in Carts
  <1>1. <<>> \in [DOMAIN <<>> -> [qty : Nat, ok : BOOLEAN]] /\ DOMAIN <<>> = {}
    OBVIOUS
  <1> QED
    BY <1>1, CartsAre

LEMMA FewerRows == ASSUME NEW r \in Carts, NEW D, D \subseteq DOMAIN r PROVE Cart!Restrict(r, D) \in Carts
  <1> PICK s : s = [i \in D |-> r[i]]
    OBVIOUS
  <1>1. /\ r \in [DOMAIN r -> [qty : Nat, ok : BOOLEAN]] /\ DOMAIN r \subseteq Items
        /\ \A i \in DOMAIN r : r[i].qty \in LegalQty[i]
    BY CartsAre
  <1>2. DOMAIN s = D /\ s \in [D -> [qty : Nat, ok : BOOLEAN]] /\ \A i \in D : s[i] = r[i]
    BY <1>1
  <1>3. s \in Carts
    BY <1>1, <1>2, CartsAre
  <1> QED
    BY <1>3 DEF Cart!Restrict

\* A new request of the screen.
Sends(what) == \E c \in CartCalls : /\ c.what = what /\ c.state = "sent" /\ New(calls, c.id)
                                    /\ calls' = calls \cup {c}

LEMMA CartRequest ==
    ASSUME NEW cs, Numbered(cs), NEW what \in Cart!Reads \cup Cart!Writes,
           NEW ids \in SUBSET Items, NEW n \in Int
    PROVE  \E c \in CartCalls : /\ c = Cart!Request(cs, "cart", what, Cart!Arg(ids, n))
                                /\ c.what = what /\ c.state = "sent" /\ New(cs, c.id)
  <1> PICK i : i = Cart!NewId(cs)
    OBVIOUS
  <1>1. New(cs, i)
    BY CartNewId
  <1> PICK c : c = [id |-> i, owner |-> "cart", what |-> what, arg |-> [ids |-> ids, n |-> n],
                    state |-> "sent", reply |-> None]
    OBVIOUS
  <1>2. c \in CartCalls /\ c.what = what /\ c.state = "sent" /\ c.id = i
    BY <1>1 DEF CartCalls, New
  <1>3. c = Cart!Request(cs, "cart", what, Cart!Arg(ids, n))
    BY DEF Cart!Request, Cart!Arg
  <1> QED
    BY <1>1, <1>2, <1>3

LEMMA CartSends ==
    ASSUME CartTyped, NEW what \in Cart!Reads \cup Cart!Writes,
           NEW ids \in SUBSET Items, NEW n \in Int, Cart!Ask(what, ids, n)
    PROVE  Sends(what)
  BY CartRequest DEF Sends, Cart!Ask, CartTyped

Same3 == cart' \in CartScreens /\ cart'.loading = cart.loading /\ cart'.failed = cart.failed
        /\ cart'.groups = cart.groups
CartLoads == cart' \in CartScreens /\ cart'.loading

LEMMA LoadingTyped == ASSUME CartTyped PROVE Cart!Loading \in CartScreens /\ Cart!Loading.loading
  BY DEF CartTyped, CartScreens, Cart!Loading

CartAsks == /\ Same3 /\ UNCHANGED <<rows, crossed>>
            /\ calls' = calls \/ \E what \in Cart!Writes : Sends(what)
CartVisits == /\ CartLoads /\ Sends("read") /\ rows' \in Carts
              /\ \/ UNCHANGED <<rows, crossed>>
                 \/ crossed' = (crossed \/ Cart!ReadServed)

LEMMA CartSelects == ASSUME CartTyped, NEW S \in SUBSET Items, Cart!Select(S) PROVE Same3
  BY DEF CartTyped, CartScreens, Cart!Select, Same3

LEMMA ValidIds == ASSUME NEW r \in Carts PROVE Cart!collectValidItemIds(r) \subseteq Items
  BY CartsAre DEF Cart!collectValidItemIds

LEMMA CartTaps == ASSUME CartTyped, Cart!Tap PROVE CartAsks \/ CartVisits
  <1> USE DEF Cart!Reads, Cart!Writes, Cart!OnServer
  <1>0. Same3 \/ cart' # cart
    BY DEF CartTyped, Same3
  <1>1. CASE Cart!Retry
    BY <1>1, LoadingTyped, CartSends DEF Cart!Retry, CartVisits, CartLoads, CartTyped
  <1>2. CASE Cart!Manage
    BY <1>2 DEF Cart!Manage, CartAsks, CartTyped, CartScreens, Same3
  <1>3. CASE Cart!handleToggleAll
    <2>1. Cart!collectValidItemIds(cart.groups) \subseteq Items
      BY ValidIds DEF CartTyped, CartScreens
    <2>2. Same3
      BY <1>3, <2>1, CartSelects DEF Cart!handleToggleAll
    <2>3. Sends("select")
      BY <1>3, CartSends DEF Cart!handleToggleAll
    <2> QED
      BY <1>3, <2>2, <2>3 DEF CartAsks, Cart!handleToggleAll
  <1>4. CASE Cart!handleClearInvalid
    BY <1>4, <1>0, CartSends DEF Cart!handleClearInvalid, CartAsks
  <1>5. CASE Cart!DeleteSelected
    <2>1. cart.selected \in SUBSET Items
      BY DEF CartTyped, CartScreens
    <2> QED
      BY <1>5, <1>0, <2>1, CartSends DEF Cart!DeleteSelected, CartAsks
  <1>6. CASE Cart!Visit
    <2>1. CartLoads /\ Sends("read")
      BY <1>6, LoadingTyped, CartSends DEF Cart!Visit, CartLoads
    <2>2. rows' \in Carts
      BY <1>6, FewerRows DEF Cart!Visit, CartTyped
    <2> QED
      BY <1>6, <2>1, <2>2 DEF Cart!Visit, CartVisits
  <1>7. ASSUME NEW i \in Items, Cart!toggleItem(i) PROVE CartAsks
    <2>1. Cart!Flip(cart.selected, {i}) \in SUBSET Items
      BY DEF CartTyped, CartScreens, Cart!Flip
    <2> QED
      BY <1>7, <2>1, CartSelects DEF Cart!toggleItem, CartAsks
  <1>8. ASSUME NEW i \in Items, Cart!removeItem(i) PROVE CartAsks
    BY <1>8, <1>0, CartSends DEF Cart!removeItem, CartAsks
  <1>9. ASSUME NEW i \in Items, Cart!updateQuantity(i) PROVE CartAsks
    <2>1. cart.groups[i].qty \in Int
      BY <1>9, CartsAre DEF Cart!updateQuantity, CartTyped, CartScreens
    <2>2. Sends("quantity")
      BY <1>9, <2>1, CartSends DEF Cart!updateQuantity
    <2> QED
      BY <1>9, <1>0, <2>2 DEF Cart!updateQuantity, CartAsks
  <1>10. ASSUME NEW S \in Shops, Cart!toggleGroup(S) PROVE CartAsks
    <2> DEFINE ids == S \cap Cart!collectValidItemIds(cart.groups)
    <2>1. ids \subseteq Items /\ Cart!Select(Cart!Flip(cart.selected, ids))
      BY <1>10, ValidIds DEF CartTyped, CartScreens, Cart!toggleGroup
    <2> HIDE DEF ids
    <2>2. Cart!Flip(cart.selected, ids) \in SUBSET Items
      BY <2>1 DEF CartTyped, CartScreens, Cart!Flip
    <2> QED
      BY <1>10, <2>1, <2>2, CartSelects DEF Cart!toggleGroup, CartAsks
  <1> QED
    BY <1>1, <1>2, <1>3, <1>4, <1>5, <1>6, <1>7, <1>8, <1>9, <1>10 DEF Cart!Tap

LEMMA CartGrows ==
    ASSUME CartInv, NEW what, Sends(what), Cardinality(calls) < MaxCalls
    PROVE  /\ calls' \subseteq CartCalls /\ Numbered(calls') /\ Cardinality(calls') <= MaxCalls
           /\ \A c \in calls' : c.state = "done" => c \in calls
           /\ calls \subseteq calls' /\ \E c \in calls' : c.what = what
  <1> PICK c \in CartCalls : /\ c.what = what /\ c.state = "sent" /\ New(calls, c.id)
                             /\ calls' = calls \cup {c}
    BY DEF Sends
  <1>1. Numbered(calls') /\ Cardinality(calls') = Cardinality(calls) + 1 /\ Cardinality(calls) \in Nat
    BY NumberedMore, FS_CardinalityType DEF CartInv, CartTyped, Numbered
  <1>2. MaxCalls \in Nat
    BY BuyerAppAssumption
  <1> QED
    BY <1>1, <1>2 DEF CartInv, CartTyped

LEMMA CartAsked == ASSUME CartInv, CartAsks, Cardinality(calls) < MaxCalls PROVE CartInv'
  <1>1. /\ calls' \subseteq CartCalls /\ Numbered(calls') /\ Cardinality(calls') <= MaxCalls
        /\ (\A c \in calls' : c.state = "done" => c \in calls) /\ calls \subseteq calls'
    BY CartGrows DEF CartAsks, CartInv, CartTyped
  <1>2. CartTyped'
    BY <1>1 DEF CartAsks, Same3, CartInv, CartTyped
  <1>3. CartSpins'
    BY <1>1 DEF CartAsks, Same3, CartInv, CartSpins, CartReading
  <1>4. CartSynced'
    BY <1>1 DEF CartAsks, Same3, CartInv, CartSynced, CartReading, CartWritten, ReadsAre
  <1> QED
    BY <1>2, <1>3, <1>4 DEF CartInv

LEMMA CartVisited == ASSUME CartInv, CartVisits, Cardinality(calls) < MaxCalls PROVE CartInv'
  <1>1. /\ calls' \subseteq CartCalls /\ Numbered(calls') /\ Cardinality(calls') <= MaxCalls
        /\ (\A c \in calls' : c.state = "done" => c \in calls) /\ calls \subseteq calls'
        /\ \E c \in calls' : c.what = "read"
    BY CartGrows DEF CartVisits
  <1>2. CartReading'
    BY <1>1 DEF CartReading, Cart!Reads
  <1>3. CartTyped'
    BY <1>1 DEF CartVisits, CartLoads, CartInv, CartTyped, Cart!ReadServed
  <1>4. ~crossed' => ReadsAre(calls', rows')
    <2>1. CASE UNCHANGED <<rows, crossed>>
      BY <1>1, <2>1 DEF CartInv, CartSynced, ReadsAre
    <2>2. CASE crossed' = (crossed \/ Cart!ReadServed)
      BY <1>1, <2>2 DEF ReadsAre, Cart!ReadServed
    <2> QED
      BY <2>1, <2>2 DEF CartVisits
  <1> QED
    BY <1>2, <1>3, <1>4 DEF CartInv, CartSpins, CartSynced

\* What the server makes of a write is a cart again.
LEMMA ServedRows ==
    ASSUME CartTyped, NEW c \in calls, Cart!Accepts(c) PROVE Cart!RowsAfter(c) \in Carts
  <1>1. /\ rows \in [DOMAIN rows -> [qty : Nat, ok : BOOLEAN]] /\ DOMAIN rows \subseteq Items
        /\ \A i \in DOMAIN rows : rows[i].qty \in LegalQty[i]
    BY CartsAre DEF CartTyped
  <1>2. CASE c.what \in {"delete", "batch"}
    BY <1>2, FewerRows DEF CartTyped, Cart!RowsAfter
  <1>3. CASE c.what = "clear"
    BY <1>3, FewerRows DEF CartTyped, Cart!RowsAfter
  <1>4. CASE c.what = "quantity"
    <2> PICK r : r = [i \in DOMAIN rows |-> IF i \in c.arg.ids THEN [rows[i] EXCEPT !.qty = c.arg.n]
                                           ELSE rows[i]]
      OBVIOUS
    <2>1. \A i \in c.arg.ids : i \in DOMAIN rows /\ c.arg.n \in LegalQty[i]
      BY <1>4 DEF Cart!Accepts
    <2>2. \A i \in Items : LegalQty[i] \subseteq Nat
      BY BuyerAppAssumption
    <2>3. \A i \in DOMAIN rows : r[i] \in [qty : Nat, ok : BOOLEAN] /\ r[i].qty \in LegalQty[i]
      BY <1>1, <2>1, <2>2
    <2>4. r \in [DOMAIN r -> [qty : Nat, ok : BOOLEAN]] /\ DOMAIN r = DOMAIN rows
      BY <2>3
    <2>5. r \in Carts
      BY <1>1, <2>3, <2>4, CartsAre
    <2> QED
      BY <1>4, <2>5 DEF Cart!RowsAfter
  <1>5. CASE c.what \notin {"delete", "batch", "clear", "quantity"}
    BY <1>5 DEF CartTyped, Cart!RowsAfter
  <1> QED
    BY <1>2, <1>3, <1>4, <1>5

LEMMA CartServes == ASSUME CartInv, NEW c \in calls, Cart!Serve(c) PROVE CartInv'
  <1> DEFINE ok == Cart!Accepts(c)
             reply == IF c.what \in Cart!Reads THEN rows ELSE None
  <1>0. PICK d : d = [c EXCEPT !.state = IF ok THEN "done" ELSE "refused", !.reply = reply]
    OBVIOUS
  <1>1. c \in CartCalls
    BY DEF CartInv, CartTyped
  <1>2. d \in CartCalls
    BY <1>0, <1>1 DEF CartCalls, CartInv, CartTyped
  <1>3. /\ d.id = c.id /\ d.what = c.what /\ d.reply = reply
        /\ d.state = IF ok THEN "done" ELSE "refused"
    BY <1>0, <1>1 DEF CartCalls
  <1>4. calls' = (calls \ {c}) \cup {d} /\ c.state = "sent" /\ cart' = cart
    BY <1>0 DEF Cart!Serve, Cart!Handled
  <1> HIDE DEF ok, reply
  <1>5. Numbered(calls') /\ Cardinality(calls') <= MaxCalls
    <2>1. Numbered(calls) /\ Cardinality(calls) <= MaxCalls
      BY DEF CartInv, CartTyped
    <2>2. d.id = c.id
      BY <1>3
    <2> QED
      BY <1>4, <2>1, <2>2, NumberedSwap
  <1>6. rows' \in Carts
    BY ServedRows DEF Cart!Serve, CartInv, CartTyped
  <1>7. c.what \in Cart!Reads => ok /\ rows' = rows
    BY DEF Cart!Serve, Cart!Accepts, Cart!RowsAfter, Cart!Reads, ok
  <1>8. crossed' \in BOOLEAN
    BY DEF Cart!Serve, CartInv, CartTyped, Cart!ReadServed
  <1>9. CartTyped'
    BY <1>2, <1>3, <1>4, <1>5, <1>6, <1>7, <1>8 DEF CartInv, CartTyped, reply
  <1>10. CartReading => CartReading'
    BY <1>3, <1>4 DEF CartReading
  <1>11. CartSpins'
    BY <1>4, <1>10 DEF CartInv, CartSpins
  <1>12. CASE c.what \in Cart!Reads
    <2>1. CartReading'
      BY <1>3, <1>4, <1>12 DEF CartReading
    <2>2. ~crossed' => calls = {c}
      BY <1>12 DEF Cart!Serve
    <2>3. ~crossed' => ReadsAre(calls', rows')
      BY <1>3, <1>4, <1>7, <1>12, <2>2 DEF ReadsAre, reply
    <2> QED
      BY <1>9, <1>11, <2>1, <2>3 DEF CartInv, CartSynced
  <1>13. CASE c.what \notin Cart!Reads
    <2>1. crossed' = (crossed \/ (rows' # rows /\ Cart!ReadServed))
      BY <1>13 DEF Cart!Serve
    <2>2. CartWritten => CartWritten'
      BY <1>4 DEF CartWritten
    <2>3. CASE rows' = rows
      <3>1. ReadsAre(calls, rows) => ReadsAre(calls', rows')
        BY <1>3, <1>4, <1>13, <2>3 DEF ReadsAre
      <3> QED
        BY <1>4, <1>9, <1>10, <1>11, <2>1, <2>2, <2>3, <3>1 DEF CartInv, CartSynced
    <2>4. CASE rows' # rows
      <3>1. ok /\ c.what # "select"
        BY <2>4 DEF Cart!Serve, Cart!RowsAfter, ok
      <3>2. CartWritten'
        BY <1>1, <1>3, <1>4, <1>13, <3>1 DEF CartWritten, CartCalls
      <3>3. ~crossed' => ReadsAre(calls', rows')
        BY <1>3, <1>4, <1>13, <2>1, <2>4 DEF ReadsAre, Cart!ReadServed
      <3> QED
        BY <1>9, <1>11, <3>2, <3>3 DEF CartInv, CartSynced
    <2> QED
      BY <2>3, <2>4
  <1> QED
    BY <1>12, <1>13

\* c has ended: nothing but the screen changes.
CartEnds(c) == /\ calls' = calls \ {c} /\ UNCHANGED rows

LEMMA CartEnded ==
    ASSUME CartInv, NEW c \in calls, CartEnds(c)
    PROVE  /\ calls' \subseteq CartCalls /\ Numbered(calls') /\ Cardinality(calls') <= MaxCalls
           /\ ReadsAre(calls, rows) => ReadsAre(calls', rows')
           /\ \A d \in calls' : d.what \in Cart!Reads /\ d.state = "done" => d.reply \in Carts
           /\ \A d \in calls : d = c \/ d \in calls'
  <1>1. Numbered(calls') /\ Cardinality(calls') = Cardinality(calls) - 1 /\ Cardinality(calls) \in Nat
    BY NumberedLess DEF CartInv, CartTyped, CartEnds
  <1>2. MaxCalls \in Nat
    BY BuyerAppAssumption
  <1> QED
    BY <1>1, <1>2 DEF CartInv, CartTyped, CartEnds, ReadsAre

LEMMA CartShown == ASSUME CartInv, NEW c \in calls, Cart!Shown(c), Cart!OnServer PROVE CartInv'
  <1>1. CartEnds(c) /\ UNCHANGED <<rows, crossed>> /\ c.what \in Cart!Reads /\ c.state = "done"
    BY DEF Cart!Shown, Cart!OnServer, CartEnds
  <1>2. c.reply \in Carts /\ cart \in CartScreens
    BY <1>1 DEF CartInv, CartTyped
  <1>3. Cart!collectValidItemIds(c.reply) \in SUBSET Items
    BY <1>2, ValidIds
  <1>4. cart' \in CartScreens /\ cart'.loading = FALSE /\ cart'.groups = c.reply
    BY <1>2, <1>3 DEF Cart!Shown, CartScreens
  <1>5. CartTyped'
    BY <1>1, <1>4, CartEnded DEF CartInv, CartTyped
  <1>6. ~crossed' => ReadsAre(calls', rows') /\ cart'.groups = rows'
    BY <1>1, <1>4, CartEnded DEF CartInv, CartSynced, ReadsAre
  <1> QED
    BY <1>4, <1>5, <1>6 DEF CartInv, CartSpins, CartSynced

LEMMA CartUnshown ==
    ASSUME CartInv, NEW c \in calls, Cart!Unshown(c), UNCHANGED rows, crossed' = (crossed \/ FALSE)
    PROVE  CartInv'
  <1>1. CartEnds(c) /\ UNCHANGED <<rows, crossed>>
    BY DEF Cart!Unshown, CartEnds, CartInv, CartTyped
  <1>2. cart' \in CartScreens /\ cart'.loading = FALSE /\ cart'.failed
    BY NoCart DEF Cart!Unshown, CartScreens, CartInv, CartTyped, Cart!NoRows
  <1>3. CartTyped'
    BY <1>1, <1>2, CartEnded DEF CartInv, CartTyped
  <1>4. ~crossed' => ReadsAre(calls', rows')
    BY <1>1, CartEnded DEF CartInv, CartSynced
  <1> QED
    BY <1>2, <1>3, <1>4 DEF CartInv, CartSpins, CartSynced

\* A write that is over and told the screen nothing.
LEMMA CartForgets ==
    ASSUME CartInv, NEW c \in calls, CartEnds(c), cart' = cart, c.what \in Cart!Writes,
           crossed' \in BOOLEAN, ~crossed' => ~crossed /\ (c.what = "select" \/ c.state # "done")
    PROVE  CartInv'
  <1>1. CartTyped'
    BY CartEnded DEF CartInv, CartTyped, CartEnds
  <1>2. CartReading => CartReading'
    BY CartEnded DEF CartReading, Cart!Reads, Cart!Writes
  <1>3. ~crossed' /\ CartWritten => CartWritten'
    BY CartEnded DEF CartWritten
  <1>4. ~crossed' => ReadsAre(calls', rows')
    BY CartEnded DEF CartInv, CartSynced
  <1> QED
    BY <1>1, <1>2, <1>3, <1>4 DEF CartInv, CartSpins, CartSynced, CartEnds

LEMMA CartRereads ==
    ASSUME CartInv, NEW c \in calls, Cart!Written(c), c.what # "select", Cart!OnServer PROVE CartInv'
  <1> PICK left : left = calls \ {c}
    OBVIOUS
  <1> PICK what \in Cart!Reads : calls' = left \cup {Cart!Request(left, "cart", what, Cart!NoArg)}
    BY DEF Cart!Written, Cart!Reads
  <1>1. /\ Numbered(left) /\ Cardinality(left) = Cardinality(calls) - 1 /\ Cardinality(calls) \in Nat
    BY NumberedLess DEF CartInv, CartTyped
  <1>2. PICK new \in CartCalls : new.what = what /\ new.state = "sent" /\ New(left, new.id)
                                /\ calls' = left \cup {new}
    <2>1. Cart!NoArg = Cart!Arg({}, 0) /\ {} \in SUBSET Items /\ 0 \in Int
      BY DEF Cart!NoArg
    <2>2. what \in Cart!Reads \cup Cart!Writes
      OBVIOUS
    <2>3. \E c0 \in CartCalls : /\ c0 = Cart!Request(left, "cart", what, Cart!Arg({}, 0))
                                /\ c0.what = what /\ c0.state = "sent" /\ New(left, c0.id)
      BY <1>1, <2>1, <2>2, CartRequest
    <2> QED
      BY <2>1, <2>3
  <1>3. Numbered(calls') /\ Cardinality(calls') = Cardinality(calls)
    BY <1>1, <1>2, NumberedMore
  <1>4. cart' \in CartScreens
    BY LoadingTyped DEF Cart!Written, CartInv
  <1>5. CartReading' /\ UNCHANGED <<rows, crossed>>
    BY <1>2 DEF CartReading, Cart!OnServer
  <1>6. CartTyped'
    BY <1>2, <1>3, <1>4, <1>5 DEF CartInv, CartTyped
  <1>7. ~crossed' => ReadsAre(calls', rows')
    BY <1>2, <1>5 DEF CartInv, CartSynced, ReadsAre
  <1> QED
    BY <1>5, <1>6, <1>7 DEF CartInv, CartSpins, CartSynced

LEMMA CartDelists == ASSUME CartInv, NEW i \in Fleeting, Cart!Delist(i) PROVE CartInv'
  <1>1. /\ i \in DOMAIN rows /\ rows' = [rows EXCEPT ![i].ok = FALSE] /\ crossed' = TRUE
        /\ UNCHANGED <<cart, calls>>
    BY DEF Cart!Delist
  <1>2. /\ rows \in [DOMAIN rows -> [qty : Nat, ok : BOOLEAN]] /\ DOMAIN rows \subseteq Items
        /\ \A j \in DOMAIN rows : rows[j].qty \in LegalQty[j]
    BY CartsAre DEF CartInv, CartTyped
  <1>3. DOMAIN rows' = DOMAIN rows
    BY <1>1
  <1>4. \A j \in DOMAIN rows : rows'[j] \in [qty : Nat, ok : BOOLEAN] /\ rows'[j].qty = rows[j].qty
    BY <1>1, <1>2
  <1>5. rows' \in [DOMAIN rows' -> [qty : Nat, ok : BOOLEAN]]
    BY <1>1, <1>3, <1>4
  <1>6. rows' \in Carts
    BY <1>2, <1>3, <1>4, <1>5, CartsAre
  <1>7. CartTyped'
    BY <1>1, <1>6 DEF CartInv, CartTyped
  <1> QED
    BY <1>1, <1>7 DEF CartInv, CartSpins, CartReading, CartSynced

LEMMA CartAnswers == ASSUME CartInv, NEW c \in calls, Cart!Answer(c) PROVE CartInv'
  <1> USE DEF Cart!OnServer
  <1>1. crossed \in BOOLEAN
    BY DEF CartInv, CartTyped
  <1>2. CASE Cart!Shown(c)
    BY <1>2, CartShown DEF Cart!Answer
  <1>3. CASE Cart!Written(c) /\ c.what = "select"
    <2>1. CartEnds(c) /\ cart' = cart
      BY <1>3 DEF Cart!Answer, Cart!Written, CartEnds
    <2> QED
      BY <1>1, <1>3, <2>1, CartForgets DEF Cart!Answer, Cart!Written
  <1>4. CASE Cart!Written(c) /\ c.what # "select"
    BY <1>4, CartRereads DEF Cart!Answer
  <1>5. CASE c.state = "refused" /\ Cart!Refused(c)
    <2>1. CartEnds(c) /\ cart' = cart /\ c.what \in Cart!Writes
      BY <1>5 DEF Cart!Answer, Cart!Refused, CartEnds
    <2> QED
      BY <1>1, <1>5, <2>1, CartForgets DEF Cart!Answer
  <1> QED
    BY <1>2, <1>3, <1>4, <1>5 DEF Cart!Answer

LEMMA CartLoses == ASSUME CartInv, NEW c \in calls, Cart!Lose(c) PROVE CartInv'
  <1>1. /\ crossed \in BOOLEAN /\ rows' = rows
        /\ crossed' = (crossed \/ (c.state = "done" /\ c.what \in Cart!Writes))
    BY DEF Cart!Lose, CartInv, CartTyped
  <1>2. CASE Cart!Unshown(c)
    <2>1. c.what \notin Cart!Writes
      BY <1>2 DEF Cart!Unshown, Cart!Reads, Cart!Writes
    <2> QED
      BY <1>1, <1>2, <2>1, CartUnshown
  <1>3. CASE Cart!Refused(c)
    <2>1. CartEnds(c) /\ cart' = cart /\ c.what \in Cart!Writes
      BY <1>1, <1>3 DEF Cart!Refused, CartEnds
    <2> QED
      BY <1>1, <2>1, CartForgets
  <1> QED
    BY <1>2, <1>3 DEF Cart!Lose

LEMMA CartStarts == Cart!Init => CartInv
  <1> SUFFICES ASSUME Cart!Init PROVE CartInv
    OBVIOUS
  <1>1. rows \in Carts
    <2>1. /\ rows \in [Items -> [qty : 1 .. MaxQty, ok : {TRUE}]] /\ DOMAIN rows = Items
          /\ \A i \in Items : rows[i].qty \in LegalQty[i]
      BY DEF Cart!Init
    <2>2. 1 .. MaxQty \subseteq Nat
      BY BuyerAppAssumption
    <2>3. \A i \in Items : rows[i] \in [qty : Nat, ok : BOOLEAN]
      BY <2>1, <2>2
    <2>4. rows \in [DOMAIN rows -> [qty : Nat, ok : BOOLEAN]]
      BY <2>1, <2>3
    <2> QED
      BY <2>1, <2>4, CartsAre
  <1>2. cart \in CartScreens
    BY NoCart DEF Cart!Init, CartScreens, Cart!NoRows
  <1>3. Numbered({}) /\ Cardinality({}) = 0
    BY FS_EmptySet DEF Numbered
  <1>4. PICK new \in CartCalls : new.what = "read" /\ new.state = "sent" /\ New({}, new.id)
                                /\ calls = {new}
    <2>1. Cart!NoArg = Cart!Arg({}, 0) /\ {} \in SUBSET Items /\ 0 \in Int
          /\ "read" \in Cart!Reads \cup Cart!Writes
      BY DEF Cart!NoArg, Cart!Reads
    <2>2. \E c0 \in CartCalls : /\ c0 = Cart!Request({}, "cart", "read", Cart!Arg({}, 0))
                                /\ c0.what = "read" /\ c0.state = "sent" /\ New({}, c0.id)
      BY <1>3, <2>1, CartRequest
    <2> QED
      BY <2>1, <2>2 DEF Cart!Init
  <1>5. Numbered({} \cup {new}) /\ Cardinality({} \cup {new}) = 1
    BY <1>3, <1>4, NumberedMore
  <1>6. Numbered(calls) /\ Cardinality(calls) <= MaxCalls
    <2>1. calls = {} \cup {new} /\ MaxCalls \in Nat \ {0}
      BY <1>4, BuyerAppAssumption
    <2> QED
      BY <1>5, <2>1
  <1>7. crossed = FALSE
    BY DEF Cart!Init
  <1>8. CartReading /\ ReadsAre(calls, rows)
    BY <1>4 DEF CartReading, ReadsAre, Cart!Reads
  <1>9. CartTyped
    BY <1>1, <1>2, <1>4, <1>6, <1>7 DEF CartTyped
  <1> QED
    BY <1>8, <1>9 DEF CartInv, CartSpins, CartSynced

LEMMA CartSteps == ASSUME CartInv, Cart!Next PROVE CartInv'
  <1>1. CASE Cart!MayAct /\ Cart!Tap
    <2>1. Cardinality(calls) < MaxCalls
      BY <1>1, SizeInCart DEF Cart!MayAct
    <2> QED
      BY <1>1, <2>1, CartTaps, CartAsked, CartVisited DEF CartInv
  <1>2. ASSUME NEW c \in calls, Cart!Handle(c) PROVE CartInv'
    BY <1>2, CartServes, CartAnswers, CartLoses DEF Cart!Handle
  <1>3. ASSUME NEW i \in Fleeting, Cart!Delist(i) PROVE CartInv'
    BY <1>3, CartDelists
  <1> QED
    BY <1>1, <1>2, <1>3 DEF Cart!Next

LEMMA CartSame == ASSUME CartInv, UNCHANGED <<rows, cart, calls, crossed>> PROVE CartInv'
  BY DEF CartInv, CartTyped, CartSpins, CartSynced, CartReading, CartWritten, ReadsAre

LEMMA CartHolds ==
    ASSUME CartInv PROVE Cart!TypeOK /\ Cart!SpinnerHasCall /\ Cart!ShowsServer
  <1>1. Cart!TypeOK
    <2>1. DOMAIN rows \subseteq Items /\ \A i \in DOMAIN rows : rows[i].qty \in LegalQty[i]
      BY CartsAre DEF CartInv, CartTyped
    <2>2. cart.selected \subseteq Items
      BY DEF CartInv, CartTyped, CartScreens
    <2>3. Cart!Cardinality(calls) <= MaxCalls
      BY SizeInCart DEF CartInv, CartTyped
    <2> QED
      BY <2>1, <2>2, <2>3 DEF Cart!TypeOK, CartInv, CartTyped, Numbered
  <1>2. Cart!SpinnerHasCall
    <2>1. \A c \in calls : c.owner # "gone"
      BY DEF CartInv, CartTyped, CartCalls
    <2> QED
      BY <2>1 DEF CartInv, CartSpins, CartReading, Cart!SpinnerHasCall, Cart!InFlight
  <1>3. Cart!ShowsServer
    BY DEF CartInv, CartSynced, CartReading, CartWritten, Cart!ShowsServer
  <1> QED
    BY <1>1, <1>2, <1>3

LEMMA SizeInOrders == ASSUME NEW S PROVE Purchases!Cardinality(S) = Cardinality(S)
  BY DEF Purchases!Cardinality, Cardinality

LEMMA OrdersNewId == ASSUME NEW cs, Numbered(cs) PROVE New(cs, Purchases!NewId(cs))
  <1>1. Cardinality(cs) \in Nat
    BY FS_CardinalityType DEF Numbered
  <1>2. \E i \in 1 .. (Cardinality(cs) + 1) : \A c \in cs : c.id # i
    BY <1>1, FreeNumber DEF Numbered
  <1>3. \E i \in 1 .. (Purchases!Cardinality(cs) + 1) : i \notin {c.id : c \in cs}
    BY <1>2, SizeInOrders
  <1>4. /\ Purchases!NewId(cs) \in 1 .. (Purchases!Cardinality(cs) + 1)
        /\ Purchases!NewId(cs) \notin {c.id : c \in cs}
    BY <1>3 DEF Purchases!NewId
  <1> QED
    BY <1>1, <1>4, SizeInOrders DEF New

\* What becomes of requests one by one keeps their numbers apart.
LEMMA NumberedImage ==
    ASSUME NEW cs, Numbered(cs), NEW S, S \subseteq cs, NEW f, DOMAIN f = S,
           \A c \in S : f[c].id = c.id, NEW ds, ds = {f[c] : c \in S}
    PROVE  Numbered(ds)
  <1>1. IsFiniteSet(S)
    BY FS_Subset DEF Numbered
  <1>2. IsFiniteSet(ds)
    <2> PICK g : g = [c \in S |-> f[c]]
      OBVIOUS
    <2>1. g \in Surjection(S, ds)
      BY DEF Surjection
    <2> QED
      BY <1>1, <2>1, FS_Surjection
  <1> QED
    BY <1>2 DEF Numbered

-----------------------------------------------------------------------------
(* The orders, with what is shown of them. *)

OrdersShown == UNION {[D -> Purchases!Statuses] : D \in SUBSET Orders}
OrderCalls == [id : Nat, owner : {"list", "page", "gone", "left"},
               what : {"orders", "order", "again"} \cup Purchases!Changes,
               arg : [order : Orders \cup {None}, shown : Purchases!Statuses],
               state : {"sent", "done", "refused"}, reply : OrdersShown \cup {None}]
OrderScreens == [loading : BOOLEAN, failed : BOOLEAN, shown : OrdersShown, submitting : BOOLEAN,
                 of : Orders \cup {None}]

\* What a request of a screen is about: of is the order whose page is in front f.
Placed(c, of, f) ==
    /\ c.what = "orders" => c.owner = "list"
    /\ c.what \in {"order", "again"} => c.owner = "page" /\ c.arg.order = of
    /\ c.owner = "page" => f = "detail"
    /\ c.what = "orders" /\ c.state = "done" => c.reply \in OrdersShown
    /\ c.what \in {"order", "again"} /\ c.state = "done" => c.reply \in OrdersShown /\ DOMAIN c.reply \subseteq {of}
AllPlaced(cs, of, f) == \A c \in cs : Placed(c, of, f)

ListIn(cs) == \E c \in cs : c.owner = "list" /\ c.what = "orders"
ChangedIn(cs) == \E c \in cs : c.owner = "list" /\ c.what \in Purchases!Changes /\ c.state = "done"
AnswersAre(cs, shown) == \A c \in cs : c.what = "orders" /\ c.state = "done" => c.reply = shown
View == [o \in Purchases!Visible |-> status[o]]

OrdersTyped ==
    /\ status \in [Orders -> Purchases!Statuses] /\ hidden \subseteq Orders
    /\ front \in OrderFronts /\ crossed \in BOOLEAN
    /\ list \in OrderScreens /\ page \in OrderScreens /\ DOMAIN page.shown \subseteq {page.of}
    /\ front = "detail" => page.of \in Orders
    /\ calls \subseteq OrderCalls /\ Numbered(calls) /\ AllPlaced(calls, page.of, front)
OrdersSpin == /\ list.loading => ListIn(calls)
              /\ page.loading => Purchases!Has("page", {"order", "again"})
              /\ page.submitting => Purchases!Has("page", Purchases!Changes \cup {"again"})
OrdersSynced ==
    ~crossed => /\ AnswersAre(calls, View)
                /\ front = "list" => list.failed \/ list.shown = View \/ ListIn(calls) \/ ChangedIn(calls)
OrdersKept == OrdersTyped /\ OrdersSpin /\ OrdersSynced

LEMMA ShownAre ==
    ASSUME NEW r
    PROVE  r \in OrdersShown <=> r \in [DOMAIN r -> Purchases!Statuses] /\ DOMAIN r \subseteq Orders
  BY DEF OrdersShown

LEMMA AbsentShown == Purchases!Absent \in OrdersShown /\ DOMAIN Purchases!Absent = {}
  <1> PICK r : r = Purchases!Absent
    OBVIOUS
  <1>1. DOMAIN r = {} /\ r \in [DOMAIN r -> Purchases!Statuses]
    BY DEF Purchases!Absent
  <1> QED
    BY <1>1, ShownAre

LEMMA OrderRequest ==
    ASSUME NEW cs, Numbered(cs), NEW owner \in {"list", "page"},
           NEW what \in {"orders", "order", "again"} \cup Purchases!Changes,
           NEW o \in Orders \cup {None}, NEW s \in Purchases!Statuses
    PROVE  \E c \in OrderCalls :
              /\ Purchases!Ask(cs, owner, what, Purchases!Arg(o, s)) = cs \cup {c}
              /\ c.owner = owner /\ c.what = what /\ c.state = "sent" /\ c.arg.order = o /\ New(cs, c.id)
  <1> PICK i : i = Purchases!NewId(cs)
    OBVIOUS
  <1>1. New(cs, i)
    BY OrdersNewId
  <1> PICK c : c = [id |-> i, owner |-> owner, what |-> what, arg |-> [order |-> o, shown |-> s],
                    state |-> "sent", reply |-> None]
    OBVIOUS
  <1>2. c \in OrderCalls /\ c.what = what /\ c.state = "sent" /\ c.id = i /\ c.owner = owner /\ c.arg.order = o
    BY <1>1 DEF OrderCalls, New
  <1>3. c = Purchases!Request(cs, owner, what, Purchases!Arg(o, s))
    BY DEF Purchases!Request, Purchases!Arg
  <1> QED
    BY <1>1, <1>2, <1>3 DEF Purchases!Ask

\* The whole of a set of requests, of the page of an order and a screen in front.
OrderSet(cs, of, f) == cs \subseteq OrderCalls /\ Numbered(cs) /\ AllPlaced(cs, of, f)

MayAsk(owner, what, o, s, of, f) ==
    /\ owner \in {"list", "page"} /\ what \in {"orders", "order", "again"} \cup Purchases!Changes
    /\ o \in Orders \cup {None} /\ s \in Purchases!Statuses
    /\ what = "orders" => owner = "list"
    /\ what \in {"order", "again"} => owner = "page" /\ o = of
    /\ owner = "page" => f = "detail"

LEMMA OrderAsked ==
    ASSUME NEW of, NEW f, NEW cs, OrderSet(cs, of, f), NEW owner, NEW what, NEW o, NEW s,
           MayAsk(owner, what, o, s, of, f),
           NEW ds, ds = Purchases!Ask(cs, owner, what, Purchases!Arg(o, s))
    PROVE  /\ OrderSet(ds, of, f) /\ cs \subseteq ds
           /\ \E c \in ds : c.owner = owner /\ c.what = what
           /\ \A c \in ds : c \in cs \/ (c.owner = owner /\ c.what = what /\ c.state = "sent")
  <1>1. PICK c \in OrderCalls : /\ ds = cs \cup {c} /\ c.owner = owner /\ c.what = what
                                /\ c.state = "sent" /\ c.arg.order = o /\ New(cs, c.id)
    BY OrderRequest DEF OrderSet, MayAsk
  <1>2. Numbered(ds)
    BY <1>1, NumberedMore DEF OrderSet
  <1>3. Placed(c, of, f)
    BY <1>1 DEF Placed, MayAsk
  <1> QED
    BY <1>1, <1>2, <1>3 DEF OrderSet, AllPlaced

\* The list asks for the orders.
LEMMA ListAsks ==
    ASSUME NEW of, NEW f, NEW cs, OrderSet(cs, of, f),
           NEW ds, ds = Purchases!Ask(cs, "list", "orders", Purchases!NoArg)
    PROVE  OrderSet(ds, of, f) /\ cs \subseteq ds /\ ListIn(ds)
           /\ \A c \in ds : c.state = "done" => c \in cs
  <1>1. Purchases!NoArg = Purchases!Arg(None, 0) /\ 0 \in Purchases!Statuses
    BY DEF Purchases!NoArg, Purchases!Statuses
  <1>2. /\ OrderSet(ds, of, f) /\ cs \subseteq ds
        /\ \E c \in ds : c.owner = "list" /\ c.what = "orders"
        /\ \A c \in ds : c \in cs \/ (c.owner = "list" /\ c.what = "orders" /\ c.state = "sent")
    <2>1. MayAsk("list", "orders", None, 0, of, f)
      BY <1>1 DEF MayAsk
    <2> QED
      BY <1>1, <2>1, OrderAsked
  <1> QED
    BY <1>2 DEF ListIn

LEMMA OrdersLeft ==
    ASSUME NEW of, NEW f, NEW cs, OrderSet(cs, of, f), NEW owner \in {"list", "page"},
           NEW ds, ds = Purchases!Gone(cs, owner), NEW g, owner = "page" \/ g = f,
           NEW h, owner = "page" \/ h = of
    PROVE  /\ OrderSet(ds, h, g) /\ (\A c \in cs : c.owner # owner => c \in ds)
           /\ \A c \in ds : /\ c.owner # owner
                            /\ \E b \in cs : c.what = b.what /\ c.state = b.state /\ c.reply = b.reply
  <1> DEFINE S == {d \in cs : d.owner # owner \/ d.what \in Purchases!Changes}
             to == IF owner = "list" THEN "gone" ELSE "left"
  <1>1. PICK fn : fn = [c \in S |-> IF c.owner # owner THEN c ELSE [c EXCEPT !.owner = to]]
    OBVIOUS
  <1>2. DOMAIN fn = S /\ S \subseteq cs /\ ds = {fn[c] : c \in S}
    BY <1>1 DEF Purchases!Gone
  <1>3. to \in {"gone", "left"}
    OBVIOUS
  <1> HIDE DEF to
  <1>4. ASSUME NEW c \in S
        PROVE  /\ fn[c] \in OrderCalls /\ fn[c].id = c.id /\ fn[c].owner # owner
               /\ fn[c].what = c.what /\ fn[c].state = c.state /\ fn[c].reply = c.reply
               /\ fn[c].arg = c.arg /\ (c.owner # owner => fn[c] = c)
               /\ fn[c].owner = c.owner \/ (c.what \in Purchases!Changes /\ fn[c].owner = to)
    <2>1. c \in OrderCalls
      BY DEF OrderSet
    <2>2. CASE c.owner # owner
      BY <1>1, <2>1, <2>2
    <2>3. CASE c.owner = owner
      <3>1. fn[c] = [c EXCEPT !.owner = to] /\ c.what \in Purchases!Changes
        BY <1>1, <2>3
      <3> QED
        BY <1>3, <2>1, <2>3, <3>1 DEF OrderCalls
    <2> QED
      BY <2>2, <2>3
  <1>5. Numbered(ds)
    <2>1. \A c \in S : fn[c].id = c.id
      BY <1>4
    <2> HIDE DEF S
    <2>2. Numbered(cs)
      BY DEF OrderSet
    <2> QED
      BY <1>2, <2>1, <2>2, NumberedImage
  <1>6. ASSUME NEW c \in S PROVE Placed(fn[c], h, g)
    <2>1. Placed(c, of, f) /\ c \in OrderCalls
      BY DEF OrderSet, AllPlaced
    <2>2. CASE c.owner # owner
      BY <1>4, <2>1, <2>2 DEF Placed
    <2>3. CASE c.owner = owner
      BY <1>3, <1>4, <2>1, <2>3 DEF Placed, Purchases!Changes
    <2> QED
      BY <2>2, <2>3
  <1>7. OrderSet(ds, h, g)
    BY <1>2, <1>4, <1>5, <1>6 DEF OrderSet, AllPlaced
  <1> QED
    BY <1>2, <1>4, <1>7

\* Without the page of an order in front nothing is asked for one.
LEMMA OrderElsewhere ==
    ASSUME NEW of, NEW f, f # "detail", NEW cs, OrderSet(cs, of, f), NEW h, NEW g
    PROVE  OrderSet(cs, h, g)
  BY DEF OrderSet, AllPlaced, Placed

LEMMA OrderFewer ==
    ASSUME NEW of, NEW f, NEW cs, OrderSet(cs, of, f), NEW ds, ds \subseteq cs PROVE OrderSet(ds, of, f)
  BY NumberedFewer DEF OrderSet, AllPlaced

OnOrders == UNCHANGED <<status, hidden, crossed>>

\* What holds of the server and of the screens.
OrdersPlace == /\ status \in [Orders -> Purchases!Statuses] /\ hidden \subseteq Orders
               /\ front \in OrderFronts /\ crossed \in BOOLEAN
               /\ list \in OrderScreens /\ page \in OrderScreens /\ DOMAIN page.shown \subseteq {page.of}
               /\ front = "detail" => page.of \in Orders
LEMMA TypedIs == OrdersTyped <=> OrdersPlace /\ OrderSet(calls, page.of, front)
  BY DEF OrdersTyped, OrdersPlace, OrderSet

LEMMA OrderLoading ==
    ASSUME NEW s \in OrderScreens
    PROVE  /\ Purchases!Loading(s) \in OrderScreens /\ Purchases!Loading(s).loading
           /\ Purchases!Loading(s).shown = s.shown /\ Purchases!Loading(s).of = s.of
           /\ Purchases!Loading(s).submitting = s.submitting
  BY DEF OrderScreens, Purchases!Loading

LEMMA OrderBlank ==
    /\ Purchases!Blank \in OrderScreens /\ Purchases!Blank.loading = FALSE
    /\ Purchases!Blank.submitting = FALSE /\ DOMAIN Purchases!Blank.shown = {}
  BY AbsentShown DEF OrderScreens, Purchases!Blank

\* The three screens with the list at rest, where nothing of the list changed.
LEMMA OrdersRest ==
    ASSUME OrdersSynced, OnOrders, AnswersAre(calls, View) => AnswersAre(calls', View),
           front' = "list" => \/ ListIn(calls')
                              \/ /\ front = "list" /\ list' = list
                                 /\ ListIn(calls) => ListIn(calls')
                                 /\ ChangedIn(calls) => ChangedIn(calls')
    PROVE  OrdersSynced'
  <1>1. View' = View
    BY DEF OnOrders, View, Purchases!Visible
  <1> QED
    BY <1>1 DEF OrdersSynced, OnOrders, AnswersAre

\* A step back, with cs still to be answered.
LEMMA OrdersBackKeeps ==
    ASSUME OrdersKept, OnOrders, NEW cs, cs \subseteq calls, Purchases!Back(cs),
           ListIn(calls) => ListIn(cs), ChangedIn(calls) => ChangedIn(cs)
    PROVE  OrdersKept'
  <1>1. OrdersPlace /\ OrderSet(calls, page.of, front) /\ OrderSet(cs, page.of, front)
    BY TypedIs, OrderFewer DEF OrdersKept
  <1>2. CASE front = "detail"
    <2> PICK left : left = Purchases!Gone(cs, "page")
      OBVIOUS
    <2>1. /\ front' = "list" /\ page' = Purchases!Blank /\ list' = Purchases!Loading(list)
          /\ calls' = Purchases!Ask(left, "list", "orders", Purchases!NoArg)
      BY <1>2 DEF Purchases!Back
    <2>2. /\ OrderSet(left, page'.of, front')
          /\ \A c \in left : \E b \in cs : c.what = b.what /\ c.state = b.state /\ c.reply = b.reply
      BY <1>1, OrdersLeft
    <2>3. /\ OrderSet(calls', page'.of, front') /\ left \subseteq calls' /\ ListIn(calls')
          /\ \A c \in calls' : c.state = "done" => c \in left
      BY <2>1, <2>2, ListAsks
    <2>4. OrdersPlace'
      BY <1>1, <2>1, OrderLoading, OrderBlank DEF OrdersPlace, OnOrders, OrderFronts
    <2>5. AnswersAre(calls, View) => AnswersAre(calls', View)
      BY <2>2, <2>3 DEF AnswersAre
    <2>6. OrdersSynced'
      BY <2>3, <2>5, OrdersRest DEF OrdersKept
    <2>7. OrdersSpin'
      BY <2>1, <2>3, OrderBlank DEF OrdersSpin
    <2> QED
      BY <2>3, <2>4, <2>6, <2>7, TypedIs DEF OrdersKept, OrdersTyped, OrderSet, OrdersPlace
  <1>3. CASE front = "list"
    <2>1. /\ front' = "out" /\ page' = page /\ list' = Purchases!Blank
          /\ calls' = Purchases!Gone(cs, "list")
      BY <1>3 DEF Purchases!Back
    <2>2. /\ OrderSet(calls', page.of, front)
          /\ \A c \in cs : c.owner # "list" => c \in calls'
          /\ \A c \in calls' : \E b \in cs : c.what = b.what /\ c.state = b.state /\ c.reply = b.reply
      BY <1>1, <2>1, OrdersLeft
    <2>3. OrderSet(calls', page'.of, front')
      BY <1>3, <2>2, OrderElsewhere
    <2>4. OrdersPlace'
      BY <1>1, <2>1, OrderBlank DEF OrdersPlace, OnOrders, OrderFronts
    <2>5. AnswersAre(calls, View) => AnswersAre(calls', View)
      BY <2>2 DEF AnswersAre
    <2>6. OrdersSynced'
      BY <2>1, <2>5, OrdersRest DEF OrdersKept
    <2>7. ~page.loading /\ ~page.submitting
      <3>1. \A c \in calls : c.owner # "page"
        BY <1>1, <1>3 DEF OrderSet, AllPlaced, Placed
      <3> QED
        BY <3>1 DEF OrdersKept, OrdersSpin, Purchases!Has
    <2>8. OrdersSpin'
      BY <2>1, <2>7, OrderBlank DEF OrdersSpin
    <2> QED
      BY <2>3, <2>4, <2>6, <2>8, TypedIs DEF OrdersKept, OrdersTyped, OrderSet, OrdersPlace
  <1>4. CASE front = "out"
    <2>1. calls' = cs /\ UNCHANGED <<front, list, page>>
      BY <1>4 DEF Purchases!Back, Purchases!screens
    <2>2. OrdersPlace' /\ OrderSet(calls', page'.of, front')
      BY <1>1, <2>1 DEF OrdersPlace, OnOrders
    <2>3. OrdersSynced'
      BY <1>4, <2>1, OrdersRest DEF OrdersKept, AnswersAre
    <2>4. ~page.loading /\ ~page.submitting
      <3>1. \A c \in calls : c.owner # "page"
        BY <1>1, <1>4 DEF OrderSet, AllPlaced, Placed
      <3> QED
        BY <3>1 DEF OrdersKept, OrdersSpin, Purchases!Has
    <2>5. OrdersSpin'
      BY <2>1, <2>4 DEF OrdersKept, OrdersSpin
    <2> QED
      BY <2>2, <2>3, <2>5, TypedIs DEF OrdersKept, OrdersTyped, OrderSet, OrdersPlace
  <1> QED
    BY <1>1, <1>2, <1>3, <1>4 DEF OrdersPlace, OrderFronts

LEMMA OrdersMade ==
    ASSUME OrdersPlace', OrderSet(calls', page'.of, front'), OrdersSpin', OrdersSynced'
    PROVE  OrdersKept'
  BY DEF OrdersKept, OrdersTyped, OrderSet, OrdersPlace

\* A request more, with the list as it is or loading.
OrdersAskMore == /\ OnOrders /\ calls \subseteq calls'
                 /\ \A c \in calls' : c.state = "done" => c \in calls
                 /\ list' = list \/ (ListIn(calls') /\ list' = Purchases!Loading(list))

LEMMA AskMoreSynced ==
    ASSUME OrdersSynced, OrdersAskMore, front' = front \/ front' = "detail" PROVE OrdersSynced'
  <1>1. AnswersAre(calls, View) => AnswersAre(calls', View)
    BY DEF OrdersAskMore, AnswersAre
  <1>2. (ListIn(calls) => ListIn(calls')) /\ (ChangedIn(calls) => ChangedIn(calls'))
    BY DEF OrdersAskMore, ListIn, ChangedIn
  <1> QED
    BY <1>1, <1>2, OrdersRest DEF OrdersAskMore

LEMMA OrderActs ==
    ASSUME NEW s PROVE Purchases!ListActions(s) \cup Purchases!PageActions(s) \subseteq Purchases!Changes
  BY DEF Purchases!ListActions, Purchases!PageActions, Purchases!Changes

LEMMA OrdersTapsKept == ASSUME OrdersKept, OnOrders, Purchases!Tap PROVE OrdersKept'
  <1>1. OrdersPlace /\ OrderSet(calls, page.of, front) /\ OrdersSpin /\ OrdersSynced
    BY TypedIs DEF OrdersKept
  <1>2. page.of \in Orders \cup {None} /\ 0 \in Purchases!Statuses
    BY <1>1 DEF OrdersPlace, OrderScreens, Purchases!Statuses
  <1>3. CASE Purchases!ListRetry
    <2>1. /\ UNCHANGED <<front, page>> /\ list' = Purchases!Loading(list)
          /\ calls' = Purchases!Ask(calls, "list", "orders", Purchases!NoArg)
      BY <1>3 DEF Purchases!ListRetry
    <2>2. /\ OrderSet(calls', page.of, front) /\ calls \subseteq calls' /\ ListIn(calls')
          /\ \A c \in calls' : c.state = "done" => c \in calls
      BY <1>1, <2>1, ListAsks
    <2>3. OrdersPlace'
      BY <1>1, <2>1, OrderLoading DEF OrdersPlace, OnOrders
    <2>4. OrdersSynced'
      BY <1>1, <2>1, <2>2, AskMoreSynced DEF OrdersAskMore
    <2>5. OrdersSpin'
      BY <1>1, <2>1, <2>2 DEF OrdersSpin, Purchases!Has
    <2> QED
      BY <2>1, <2>2, <2>3, <2>4, <2>5, OrdersMade
  <1>4. CASE Purchases!PageRetry
    <2>1. /\ UNCHANGED <<front, list>> /\ page' = Purchases!Loading(page) /\ front = "detail"
          /\ calls' = Purchases!Ask(calls, "page", "order", Purchases!Arg(page.of, 0))
      BY <1>4 DEF Purchases!PageRetry, Purchases!PageOffers
    <2>2. /\ OrderSet(calls', page.of, front) /\ calls \subseteq calls'
          /\ \E c \in calls' : c.owner = "page" /\ c.what = "order"
          /\ \A c \in calls' : c \in calls \/ (c.owner = "page" /\ c.what = "order" /\ c.state = "sent")
      <3>1. MayAsk("page", "order", page.of, 0, page.of, front)
        BY <1>2, <2>1 DEF MayAsk
      <3> QED
        BY <1>1, <2>1, <3>1, OrderAsked
    <2>3. OrdersPlace'
      BY <1>1, <2>1, OrderLoading DEF OrdersPlace, OnOrders
    <2>4. OrdersSynced'
      BY <1>1, <2>1, <2>2, AskMoreSynced DEF OrdersAskMore
    <2>5. page'.submitting = page.submitting /\ page'.of = page.of
      BY <1>1, <2>1, OrderLoading DEF OrdersPlace
    <2>6. OrdersSpin'
      BY <1>1, <2>1, <2>2, <2>5 DEF OrdersSpin, Purchases!Has, ListIn
    <2> QED
      BY <2>1, <2>2, <2>3, <2>4, <2>5, <2>6, OrdersMade
  <1>5. CASE Purchases!PageAct
    <2>1. PICK a \in Purchases!PageActions(page.shown[page.of]) :
             /\ UNCHANGED <<front, list>> /\ page' = [page EXCEPT !.submitting = TRUE] /\ front = "detail"
             /\ page.shown # Purchases!Absent
             /\ calls' = Purchases!Ask(calls, "page", a, Purchases!Arg(page.of, page.shown[page.of]))
      BY <1>5 DEF Purchases!PageAct, Purchases!PageOffers
    <2>2. a \in Purchases!Changes
      BY <2>1, OrderActs
    <2>3. page.shown[page.of] \in Purchases!Statuses
      <3>1. /\ page.shown \in [DOMAIN page.shown -> Purchases!Statuses] /\ DOMAIN page.shown \subseteq {page.of}
        BY <1>1, ShownAre DEF OrdersPlace, OrderScreens
      <3>2. DOMAIN page.shown # {}
        BY <2>1, <3>1 DEF Purchases!Absent
      <3> QED
        BY <3>1, <3>2
    <2>4. a \notin {"orders", "order", "again"}
      BY <2>2 DEF Purchases!Changes
    <2>5. /\ OrderSet(calls', page.of, front) /\ calls \subseteq calls'
          /\ \E c \in calls' : c.owner = "page" /\ c.what = a
          /\ \A c \in calls' : c \in calls \/ (c.owner = "page" /\ c.what = a /\ c.state = "sent")
      <3>1. MayAsk("page", a, page.of, page.shown[page.of], page.of, front)
        BY <1>2, <2>1, <2>2, <2>3, <2>4 DEF MayAsk
      <3> QED
        BY <1>1, <2>1, <3>1, OrderAsked
    <2>6. /\ page' \in OrderScreens /\ page'.of = page.of /\ page'.shown = page.shown
          /\ page'.loading = page.loading
      BY <1>1, <2>1 DEF OrdersPlace, OrderScreens
    <2>7. OrdersPlace'
      BY <1>1, <2>1, <2>6 DEF OrdersPlace, OnOrders
    <2>8. OrdersSynced'
      BY <1>1, <2>1, <2>5, AskMoreSynced DEF OrdersAskMore
    <2>9. OrdersSpin'
      BY <1>1, <2>1, <2>2, <2>5, <2>6 DEF OrdersSpin, Purchases!Has, ListIn
    <2> QED
      BY <2>1, <2>5, <2>6, <2>7, <2>8, <2>9, OrdersMade
  <1>6. ASSUME NEW o \in Orders, Purchases!ListAct(o) PROVE OrdersKept'
    <2>1. PICK a \in Purchases!ListActions(list.shown[o]) :
             /\ UNCHANGED <<front, list, page>> /\ o \in DOMAIN list.shown
             /\ calls' = Purchases!Ask(calls, "list", a, Purchases!Arg(o, list.shown[o]))
      BY <1>6 DEF Purchases!ListAct, Purchases!screens
    <2>2. a \in Purchases!Changes
      BY <2>1, OrderActs
    <2>3. list.shown[o] \in Purchases!Statuses
      BY <1>1, <2>1, ShownAre DEF OrdersPlace, OrderScreens
    <2>4. a \notin {"orders", "order", "again"}
      BY <2>2 DEF Purchases!Changes
    <2>5. /\ OrderSet(calls', page.of, front) /\ calls \subseteq calls'
          /\ \A c \in calls' : c \in calls \/ (c.owner = "list" /\ c.what = a /\ c.state = "sent")
      <3>1. MayAsk("list", a, o, list.shown[o], page.of, front)
        BY <2>2, <2>3, <2>4 DEF MayAsk
      <3> QED
        BY <1>1, <2>1, <3>1, OrderAsked
    <2>6. OrdersPlace'
      BY <1>1, <2>1 DEF OrdersPlace, OnOrders
    <2>7. OrdersSynced'
      BY <1>1, <2>1, <2>5, AskMoreSynced DEF OrdersAskMore
    <2>8. OrdersSpin'
      BY <1>1, <2>1, <2>5 DEF OrdersSpin, Purchases!Has, ListIn
    <2> QED
      BY <2>1, <2>5, <2>6, <2>7, <2>8, OrdersMade
  <1>7. ASSUME NEW o \in Orders, Purchases!ListOpen(o) PROVE OrdersKept'
    <2>1. /\ front = "list" /\ front' = "detail" /\ page' = [Purchases!Blank EXCEPT !.loading = TRUE, !.of = o]
          /\ calls' = Purchases!Ask(calls, "page", "order", Purchases!Arg(o, 0)) /\ list' = list
      BY <1>7 DEF Purchases!ListOpen, Purchases!ListOffers
    <2>2. OrderSet(calls, o, "detail")
      BY <1>1, <2>1, OrderElsewhere
    <2>3. /\ OrderSet(calls', o, "detail") /\ calls \subseteq calls'
          /\ \E c \in calls' : c.owner = "page" /\ c.what = "order"
          /\ \A c \in calls' : c \in calls \/ (c.owner = "page" /\ c.what = "order" /\ c.state = "sent")
      <3>1. MayAsk("page", "order", o, 0, o, "detail")
        BY <1>2 DEF MayAsk
      <3> QED
        BY <2>1, <2>2, <3>1, OrderAsked
    <2>4. /\ page' \in OrderScreens /\ page'.of = o /\ DOMAIN page'.shown = {} /\ page'.submitting = FALSE
      BY <2>1, OrderBlank, AbsentShown DEF OrderScreens, Purchases!Blank
    <2>5. OrdersPlace'
      BY <1>1, <2>1, <2>4 DEF OrdersPlace, OnOrders, OrderFronts
    <2>6. OrdersSynced'
      BY <1>1, <2>1, <2>3, AskMoreSynced DEF OrdersAskMore
    <2>7. OrdersSpin'
      BY <1>1, <2>1, <2>3, <2>4 DEF OrdersSpin, Purchases!Has, ListIn
    <2> QED
      BY <2>1, <2>3, <2>4, <2>5, <2>6, <2>7, OrdersMade
  <1> QED
    BY <1>3, <1>4, <1>5, <1>6, <1>7 DEF Purchases!Tap

LEMMA OrdersEnterKept == ASSUME OrdersKept, OnOrders, Purchases!Enter PROVE OrdersKept'
  <1>1. OrdersPlace /\ OrderSet(calls, page.of, front) /\ OrdersSpin /\ OrdersSynced
    BY TypedIs DEF OrdersKept
  <1> PICK one : one = Purchases!Ask(calls, "list", "orders", Purchases!NoArg)
    OBVIOUS
  <1>2. /\ front = "out" /\ front' = "list" /\ list' = Purchases!Loading(Purchases!Blank)
        /\ calls' = Purchases!Ask(one, "list", "orders", Purchases!NoArg)
        /\ page' = page
    BY DEF Purchases!Enter
  <1>3. OrderSet(calls, page.of, "list")
    BY <1>1, <1>2, OrderElsewhere
  <1>4. OrderSet(one, page.of, "list") /\ (\A c \in one : c.state = "done" => c \in calls) /\ calls \subseteq one
    BY <1>3, ListAsks
  <1>5. /\ OrderSet(calls', page.of, "list") /\ one \subseteq calls' /\ ListIn(calls')
        /\ \A c \in calls' : c.state = "done" => c \in one
    BY <1>2, <1>4, ListAsks
  <1>6. OrdersPlace'
    BY <1>1, <1>2, OrderLoading, OrderBlank DEF OrdersPlace, OnOrders, OrderFronts
  <1>7. AnswersAre(calls, View) => AnswersAre(calls', View)
    BY <1>4, <1>5 DEF AnswersAre
  <1>8. OrdersSynced'
    BY <1>1, <1>5, <1>7, OrdersRest
  <1>9. OrdersSpin'
    BY <1>1, <1>2, <1>4, <1>5 DEF OrdersSpin, Purchases!Has
  <1> QED
    BY <1>2, <1>5, <1>6, <1>8, <1>9, OrdersMade

\* A request that has ended.
LEMMA OrderEnded ==
    ASSUME OrdersKept, NEW c \in calls, NEW cs, cs = calls \ {c}
    PROVE  /\ OrderSet(cs, page.of, front) /\ (AnswersAre(calls, View) => AnswersAre(cs, View))
           /\ (c.what # "orders" /\ ListIn(calls) => ListIn(cs))
           /\ (~(c.owner = "list" /\ c.what \in Purchases!Changes /\ c.state = "done") /\ ChangedIn(calls) => ChangedIn(cs))
           /\ c \in OrderCalls /\ Placed(c, page.of, front)
  <1>1. OrderSet(calls, page.of, front) /\ OrderSet(cs, page.of, front)
    BY TypedIs, OrderFewer DEF OrdersKept
  <1> QED
    BY <1>1 DEF AnswersAre, ListIn, ChangedIn, OrderSet, AllPlaced

LEMMA OrderFilled ==
    ASSUME NEW s \in OrderScreens, NEW c, c.reply \in OrdersShown
    PROVE  /\ Purchases!Filled(s, c) \in OrderScreens /\ Purchases!Filled(s, c).loading = FALSE
           /\ Purchases!Filled(s, c).shown = c.reply /\ Purchases!Filled(s, c).of = s.of
           /\ Purchases!Filled(s, c).submitting = s.submitting /\ Purchases!Filled(s, c).failed = s.failed
  BY DEF OrderScreens, Purchases!Filled

LEMMA OrderEmptied ==
    ASSUME NEW s \in OrderScreens
    PROVE  /\ Purchases!Emptied(s) \in OrderScreens /\ Purchases!Emptied(s).loading = FALSE
           /\ DOMAIN Purchases!Emptied(s).shown = {} /\ Purchases!Emptied(s).of = s.of
           /\ Purchases!Emptied(s).submitting = s.submitting /\ Purchases!Emptied(s).failed
  BY AbsentShown DEF OrderScreens, Purchases!Emptied

LEMMA OrdersReadKept == ASSUME OrdersKept, OnOrders, NEW c \in calls, Purchases!Read(c) PROVE OrdersKept'
  <1>1. OrdersPlace /\ OrdersSpin /\ OrdersSynced
    BY TypedIs DEF OrdersKept
  <1>2. /\ OrderSet(calls', page.of, front) /\ (AnswersAre(calls, View) => AnswersAre(calls', View))
        /\ (c.what # "orders" /\ ListIn(calls) => ListIn(calls'))
        /\ (~(c.owner = "list" /\ c.what \in Purchases!Changes /\ c.state = "done") /\ ChangedIn(calls) => ChangedIn(calls'))
        /\ c \in OrderCalls /\ Placed(c, page.of, front)
    BY OrderEnded DEF Purchases!Read
  <1>3. front' = front /\ c.state \in {"done", "refused"} /\ calls' = calls \ {c}
    BY DEF Purchases!Read
  <1>4. CASE c.what = "orders"
    <2> DEFINE to == IF c.state = "done" THEN Purchases!Filled(list, c) ELSE Purchases!Emptied(list)
    <2>1. list' = to /\ page' = page
      BY <1>4 DEF Purchases!Read
    <2>2. /\ to \in OrderScreens /\ to.loading = FALSE
          /\ c.state = "done" => to.shown = c.reply
          /\ c.state # "done" => to.failed
      BY <1>1, <1>2, <1>4, OrderFilled, OrderEmptied DEF OrdersPlace, Placed
    <2>3. OrdersPlace'
      BY <1>1, <1>3, <2>1, <2>2 DEF OrdersPlace, OnOrders
    <2>4. OrdersSpin'
      BY <1>1, <1>3, <1>4, <2>1, <2>2 DEF OrdersSpin, Purchases!Has, Purchases!Changes
    <2>5. View' = View
      BY DEF OnOrders, View, Purchases!Visible
    <2>6. OrdersSynced'
      BY <1>1, <1>2, <1>3, <1>4, <2>1, <2>2, <2>5 DEF OrdersSynced, OnOrders, AnswersAre
    <2> QED
      BY <1>2, <1>3, <2>1, <2>3, <2>4, <2>6, OrdersMade
  <1>5. CASE c.what = "order"
    <2> DEFINE to == IF c.state = "done" THEN Purchases!Filled(page, c) ELSE Purchases!Emptied(page)
    <2>1. list' = list /\ page' = to
      BY <1>5 DEF Purchases!Read
    <2>2. /\ to \in OrderScreens /\ to.loading = FALSE /\ to.of = page.of /\ to.submitting = page.submitting
          /\ DOMAIN to.shown \subseteq {page.of}
      BY <1>1, <1>2, <1>5, OrderFilled, OrderEmptied DEF OrdersPlace, Placed
    <2>3. OrdersPlace'
      BY <1>1, <1>3, <2>1, <2>2 DEF OrdersPlace, OnOrders
    <2>4. OrdersSpin'
      BY <1>1, <1>2, <1>3, <1>5, <2>1, <2>2 DEF OrdersSpin, Purchases!Has, Purchases!Changes
    <2>5. OrdersSynced'
      BY <1>1, <1>2, <1>3, <1>5, <2>1, OrdersRest DEF Purchases!Changes
    <2> QED
      BY <1>2, <1>3, <2>1, <2>2, <2>3, <2>4, <2>5, OrdersMade
  <1> QED
    BY <1>4, <1>5 DEF Purchases!Read

LEMMA OrdersAgainKept == ASSUME OrdersKept, OnOrders, NEW c \in calls, Purchases!ReadAgain(c) PROVE OrdersKept'
  <1>1. OrdersPlace /\ OrdersSpin /\ OrdersSynced
    BY TypedIs DEF OrdersKept
  <1>2. /\ OrderSet(calls', page.of, front) /\ (AnswersAre(calls, View) => AnswersAre(calls', View))
        /\ (c.what # "orders" /\ ListIn(calls) => ListIn(calls'))
        /\ (~(c.owner = "list" /\ c.what \in Purchases!Changes /\ c.state = "done") /\ ChangedIn(calls) => ChangedIn(calls'))
        /\ c \in OrderCalls /\ Placed(c, page.of, front)
    BY OrderEnded DEF Purchases!ReadAgain
  <1> DEFINE to == IF c.state = "done" THEN Purchases!Filled(page, c) ELSE Purchases!Emptied(page)
  <1>3. /\ front' = front /\ c.state \in {"done", "refused"} /\ calls' = calls \ {c} /\ c.what = "again"
        /\ list' = list /\ page' = [to EXCEPT !.submitting = FALSE]
    BY DEF Purchases!ReadAgain
  <1>4. /\ to \in OrderScreens /\ to.loading = FALSE /\ to.of = page.of
        /\ DOMAIN to.shown \subseteq {page.of}
    BY <1>1, <1>2, <1>3, OrderFilled, OrderEmptied DEF OrdersPlace, Placed
  <1> HIDE DEF to
  <1>5. /\ page' \in OrderScreens /\ page'.loading = FALSE /\ page'.of = page.of
        /\ page'.submitting = FALSE /\ page'.shown = to.shown
    BY <1>3, <1>4 DEF OrderScreens
  <1>6. OrdersPlace'
    BY <1>1, <1>3, <1>4, <1>5 DEF OrdersPlace, OnOrders
  <1>7. OrdersSpin'
    BY <1>1, <1>2, <1>3, <1>5 DEF OrdersSpin
  <1>8. OrdersSynced'
    BY <1>1, <1>2, <1>3, OrdersRest DEF Purchases!Changes
  <1> QED
    BY <1>2, <1>3, <1>5, <1>6, <1>7, <1>8, OrdersMade

LEMMA OrdersRefusedKept == ASSUME OrdersKept, OnOrders, NEW c \in calls, Purchases!ActRefused(c) PROVE OrdersKept'
  <1>1. OrdersPlace /\ OrdersSpin /\ OrdersSynced
    BY TypedIs DEF OrdersKept
  <1>2. /\ OrderSet(calls', page.of, front) /\ (AnswersAre(calls, View) => AnswersAre(calls', View))
        /\ (c.what # "orders" /\ ListIn(calls) => ListIn(calls'))
        /\ (~(c.owner = "list" /\ c.what \in Purchases!Changes /\ c.state = "done") /\ ChangedIn(calls) => ChangedIn(calls'))
        /\ c \in OrderCalls /\ Placed(c, page.of, front)
    BY OrderEnded DEF Purchases!ActRefused
  <1>3. /\ front' = front /\ c.state = "refused" /\ calls' = calls \ {c} /\ c.what \in Purchases!Changes
        /\ list' = list /\ page' = [page EXCEPT !.submitting = @ /\ c.owner # "page"]
    BY DEF Purchases!ActRefused
  <1>4. c.what \notin {"orders", "order", "again"}
    BY <1>3 DEF Purchases!Changes
  <1>5. /\ page' \in OrderScreens /\ page'.loading = page.loading /\ page'.of = page.of
        /\ page'.submitting = (page.submitting /\ c.owner # "page") /\ page'.shown = page.shown
    BY <1>1, <1>3 DEF OrderScreens, OrdersPlace
  <1>6. OrdersPlace'
    BY <1>1, <1>3, <1>5 DEF OrdersPlace, OnOrders
  <1>7. OrdersSpin'
    BY <1>1, <1>2, <1>3, <1>4, <1>5 DEF OrdersSpin, Purchases!Has
  <1>8. OrdersSynced'
    BY <1>1, <1>2, <1>3, <1>4, OrdersRest
  <1> QED
    BY <1>2, <1>3, <1>5, <1>6, <1>7, <1>8, OrdersMade

LEMMA OrdersActedKept == ASSUME OrdersKept, OnOrders, NEW c \in calls, Purchases!Acted(c) PROVE OrdersKept'
  <1>1. OrdersPlace /\ OrdersSpin /\ OrdersSynced
    BY TypedIs DEF OrdersKept
  <1>0. PICK left : left = calls \ {c}
    OBVIOUS
  <1>2. /\ OrderSet(left, page.of, front) /\ (AnswersAre(calls, View) => AnswersAre(left, View))
        /\ (c.what # "orders" /\ ListIn(calls) => ListIn(left))
        /\ (~(c.owner = "list" /\ c.what \in Purchases!Changes /\ c.state = "done") /\ ChangedIn(calls) => ChangedIn(left))
        /\ c \in OrderCalls /\ Placed(c, page.of, front)
    BY <1>0, OrderEnded
  <1>3. c.what \in Purchases!Changes /\ c.what \notin {"orders", "order", "again"}
    BY DEF Purchases!Acted, Purchases!Changes
  <1>4. \A d \in calls : d = c \/ d \in left
    BY <1>0
  <1>5. CASE c.owner = "list"
    <2>1. /\ UNCHANGED <<front, page>> /\ list' = Purchases!Loading(list)
          /\ calls' = Purchases!Ask(left, "list", "orders", Purchases!NoArg)
      BY <1>0, <1>5 DEF Purchases!Acted
    <2>2. /\ OrderSet(calls', page.of, front) /\ left \subseteq calls' /\ ListIn(calls')
          /\ \A d \in calls' : d.state = "done" => d \in left
      BY <1>2, <2>1, ListAsks
    <2>3. OrdersPlace'
      BY <1>1, <2>1, OrderLoading DEF OrdersPlace, OnOrders
    <2>4. AnswersAre(calls, View) => AnswersAre(calls', View)
      BY <1>2, <2>2 DEF AnswersAre
    <2>5. OrdersSynced'
      BY <1>1, <2>2, <2>4, OrdersRest
    <2>6. OrdersSpin'
      BY <1>1, <1>4, <1>5, <2>1, <2>2 DEF OrdersSpin, Purchases!Has
    <2> QED
      BY <2>1, <2>2, <2>3, <2>5, <2>6, OrdersMade
  <1>6. CASE c.owner = "page" /\ c.what # "delete"
    <2>1. /\ UNCHANGED <<front, list>> /\ page' = Purchases!Loading(page)
          /\ calls' = Purchases!Ask(left, "page", "again", Purchases!Arg(page.of, 0))
      BY <1>0, <1>6 DEF Purchases!Acted
    <2>2. front = "detail"
      BY <1>2, <1>6 DEF Placed
    <2>3. MayAsk("page", "again", page.of, 0, page.of, front)
      BY <1>1, <2>2 DEF MayAsk, OrdersPlace, OrderScreens, Purchases!Statuses
    <2>4. /\ OrderSet(calls', page.of, front) /\ left \subseteq calls'
          /\ \E d \in calls' : d.owner = "page" /\ d.what = "again"
          /\ \A d \in calls' : d \in left \/ (d.owner = "page" /\ d.what = "again" /\ d.state = "sent")
      BY <1>2, <2>1, <2>3, OrderAsked
    <2>5. page'.of = page.of
      BY <1>1, <2>1, OrderLoading DEF OrdersPlace
    <2>6. OrdersPlace'
      BY <1>1, <2>1, OrderLoading DEF OrdersPlace, OnOrders
    <2>7. AnswersAre(calls, View) => AnswersAre(calls', View)
      BY <1>2, <2>4 DEF AnswersAre
    <2>8. OrdersSynced'
      BY <1>1, <2>1, <2>2, <2>7, OrdersRest
    <2>9. ListIn(calls) => ListIn(calls')
      BY <1>2, <1>3, <2>4 DEF ListIn
    <2>10. OrdersSpin'
      BY <1>1, <2>1, <2>4, <2>9 DEF OrdersSpin, Purchases!Has
    <2> QED
      BY <2>1, <2>4, <2>5, <2>6, <2>8, <2>10, OrdersMade
  <1>7. CASE c.owner \in {"page", "left"} /\ c.what = "delete"
    <2>1. Purchases!Back(left)
      BY <1>0, <1>7 DEF Purchases!Acted
    <2>2. c.owner # "list"
      BY <1>7
    <2> QED
      BY <1>0, <1>2, <1>3, <2>1, <2>2, OrdersBackKeeps
  <1>8. CASE ~(\/ c.owner = "list" \/ (c.owner = "page" /\ c.what # "delete")
               \/ (c.owner \in {"page", "left"} /\ c.what = "delete"))
    <2>1. calls' = left /\ UNCHANGED <<front, list, page>>
      BY <1>0, <1>8 DEF Purchases!Acted, Purchases!screens
    <2>2. OrdersPlace'
      BY <1>1, <2>1 DEF OrdersPlace, OnOrders
    <2>3. OrdersSynced'
      BY <1>1, <1>2, <1>3, <1>8, <2>1, OrdersRest
    <2>4. OrdersSpin'
      BY <1>1, <1>2, <1>3, <1>4, <1>8, <2>1 DEF OrdersSpin, Purchases!Has
    <2> QED
      BY <1>2, <2>1, <2>2, <2>3, <2>4, OrdersMade
  <1> QED
    BY <1>5, <1>6, <1>7, <1>8

\* What the server, or a loss, makes of a request.
MayReply(c, ok, reply) ==
    /\ ok \in BOOLEAN /\ reply \in OrdersShown \cup {None}
    /\ ok /\ c.what = "orders" => reply \in OrdersShown
    /\ ok /\ c.what \in {"order", "again"} => reply \in OrdersShown /\ DOMAIN reply \subseteq {page.of}

LEMMA OrderHandled ==
    ASSUME OrdersKept, NEW c \in calls, NEW ok, NEW reply, MayReply(c, ok, reply),
           calls' = Purchases!Handled(calls, c, ok, reply)
    PROVE  \E d : /\ calls' = (calls \ {c}) \cup {d} /\ d.owner = c.owner /\ d.what = c.what
                  /\ d.state = (IF ok THEN "done" ELSE "refused") /\ d.reply = reply
                  /\ OrderSet(calls', page.of, front)
  <1>1. OrderSet(calls, page.of, front) /\ c \in OrderCalls /\ Placed(c, page.of, front)
    BY TypedIs DEF OrdersKept, OrderSet, AllPlaced
  <1>2. PICK d : d = [c EXCEPT !.state = IF ok THEN "done" ELSE "refused", !.reply = reply]
    OBVIOUS
  <1>3. d \in OrderCalls
    BY <1>1, <1>2 DEF OrderCalls, MayReply
  <1>4. /\ d.id = c.id /\ d.what = c.what /\ d.owner = c.owner /\ d.arg = c.arg /\ d.reply = reply
        /\ d.state = IF ok THEN "done" ELSE "refused"
    BY <1>1, <1>2 DEF OrderCalls
  <1>5. calls' = (calls \ {c}) \cup {d}
    BY <1>2 DEF Purchases!Handled
  <1>6. Placed(d, page.of, front)
    BY <1>1, <1>4 DEF Placed, MayReply
  <1>7. Numbered(calls')
    <2>1. Numbered(calls) /\ d.id = c.id
      BY <1>1, <1>4 DEF OrderSet
    <2> QED
      BY <1>5, <2>1, NumberedSwap
  <1>8. OrderSet(calls', page.of, front)
    BY <1>1, <1>3, <1>5, <1>6, <1>7 DEF OrderSet, AllPlaced
  <1> QED
    BY <1>4, <1>5, <1>8

\* The screens wait for it as before.
LEMMA OrdersWait ==
    ASSUME OrdersSpin, UNCHANGED <<list, page>>, NEW c \in calls, NEW d,
           calls' = (calls \ {c}) \cup {d}, d.owner = c.owner, d.what = c.what
    PROVE  OrdersSpin' /\ (ListIn(calls) => ListIn(calls'))
  BY DEF OrdersSpin, Purchases!Has, ListIn

LEMMA OrdersLost ==
    ASSUME OrdersKept, NEW c \in calls, Purchases!Lose(c), UNCHANGED <<status, hidden, front, list, page>>,
           crossed' = (crossed \/ (c.what \in Purchases!Changes /\ c.state = "done"))
    PROVE  OrdersKept'
  <1>1. OrdersPlace /\ OrdersSpin /\ OrdersSynced
    BY TypedIs DEF OrdersKept
  <1>2. PICK d : /\ calls' = (calls \ {c}) \cup {d} /\ d.owner = c.owner /\ d.what = c.what
                 /\ d.state = "refused" /\ OrderSet(calls', page.of, front)
    <2>1. calls' = Purchases!Handled(calls, c, FALSE, None)
      BY DEF Purchases!Lose
    <2>2. PICK no \in BOOLEAN : ~no
      OBVIOUS
    <2>3. MayReply(c, no, None)
      BY <2>2 DEF MayReply
    <2>4. calls' = Purchases!Handled(calls, c, no, None)
      BY <2>1, <2>2 DEF Purchases!Handled
    <2> QED
      BY <2>2, <2>3, <2>4, OrderHandled
  <1>3. OrdersPlace'
    BY <1>1 DEF OrdersPlace
  <1>4. OrdersSpin' /\ (ListIn(calls) => ListIn(calls'))
    BY <1>1, <1>2, OrdersWait
  <1>5. View' = View
    BY DEF View, Purchases!Visible
  <1>6. ~crossed' /\ ChangedIn(calls) => ChangedIn(calls')
    BY <1>2 DEF ChangedIn
  <1>7. AnswersAre(calls, View) => AnswersAre(calls', View)
    BY <1>2 DEF AnswersAre
  <1>8. OrdersSynced'
    BY <1>1, <1>4, <1>5, <1>6, <1>7 DEF OrdersSynced, AnswersAre
  <1> QED
    BY <1>2, <1>3, <1>4, <1>8, OrdersMade

LEMMA OrdersServed ==
    ASSUME OrdersKept, NEW c \in calls, Purchases!Serve(c),
           crossed' = IF c.what = "orders" THEN calls # {c}
                      ELSE crossed \/ (<<status, hidden>>' # <<status, hidden>>
                                      /\ (Purchases!ListServed \/ c.owner # "list"))
    PROVE  OrdersKept'
  <1>1. OrdersPlace /\ OrdersSpin /\ OrdersSynced
    BY TypedIs DEF OrdersKept
  <1>2. c \in OrderCalls /\ Placed(c, page.of, front) /\ c.state = "sent"
    BY TypedIs DEF OrdersKept, OrderSet, AllPlaced, Purchases!Serve
  <1>3. UNCHANGED <<front, list, page>>
    BY DEF Purchases!Serve, Purchases!screens
  <1>4. OrdersPlace'
    <2>1. status' \in [Orders -> Purchases!Statuses] /\ hidden' \subseteq Orders
      BY <1>1 DEF Purchases!Serve, Purchases!Accepts, Purchases!Visible, OrdersPlace, Purchases!Statuses
    <2>2. crossed' \in BOOLEAN
      BY <1>1 DEF OrdersPlace
    <2> QED
      BY <1>1, <1>3, <2>1, <2>2 DEF OrdersPlace
  <1>5. CASE c.what = "orders"
    <2>1. UNCHANGED <<status, hidden>> /\ calls' = Purchases!Handled(calls, c, TRUE, View)
      BY <1>5 DEF Purchases!Serve, View
    <2>2. View \in OrdersShown /\ View' = View
      <3> PICK v : v = [o \in Purchases!Visible |-> status[o]]
        OBVIOUS
      <3>1. Purchases!Visible \subseteq Orders
        BY DEF Purchases!Visible
      <3>2. DOMAIN v \subseteq Orders /\ v \in [DOMAIN v -> Purchases!Statuses]
        BY <1>1, <3>1 DEF OrdersPlace
      <3>3. v \in OrdersShown
        BY <3>2, ShownAre
      <3> QED
        BY <2>1, <3>3 DEF View, Purchases!Visible
    <2>3. PICK d : /\ calls' = (calls \ {c}) \cup {d} /\ d.owner = c.owner /\ d.what = c.what
                   /\ d.reply = View /\ OrderSet(calls', page.of, front)
      <3>1. PICK yes \in BOOLEAN : yes
        OBVIOUS
      <3>2. MayReply(c, yes, View)
        BY <1>5, <2>2, <3>1 DEF MayReply
      <3>3. calls' = Purchases!Handled(calls, c, yes, View)
        BY <2>1, <3>1 DEF Purchases!Handled
      <3> QED
        BY <3>2, <3>3, OrderHandled
    <2>4. OrdersSpin'
      BY <1>1, <1>3, <2>3, OrdersWait
    <2>5. ListIn(calls')
      BY <1>2, <1>5, <2>3 DEF ListIn, Placed
    <2>6. ~crossed' => calls' = {d}
      BY <1>5, <2>3
    <2>7. ~crossed' => AnswersAre(calls', View)
      BY <2>3, <2>6 DEF AnswersAre
    <2>8. OrdersSynced'
      BY <2>2, <2>5, <2>7 DEF OrdersSynced, AnswersAre
    <2> QED
      BY <1>3, <1>4, <2>3, <2>4, <2>8, OrdersMade
  <1>6. CASE c.what \in {"order", "again"}
    <2>1. /\ UNCHANGED <<status, hidden>>
          /\ calls' = Purchases!Handled(calls, c, c.arg.order \in Purchases!Visible,
                                        [x \in {c.arg.order} |-> status[x]])
      BY <1>6 DEF Purchases!Serve
    <2>2. c.arg.order = page.of /\ page.of \in Orders
      BY <1>1, <1>2, <1>6 DEF Placed, OrdersPlace
    <2>3. PICK v : v = [x \in {c.arg.order} |-> status[x]]
      OBVIOUS
    <2>4. DOMAIN v = {page.of} /\ v \in [DOMAIN v -> Purchases!Statuses]
      BY <1>1, <2>2, <2>3 DEF OrdersPlace
    <2>5. v \in OrdersShown
      BY <2>2, <2>4, ShownAre
    <2>6. PICK ok \in BOOLEAN : ok <=> c.arg.order \in Purchases!Visible
      OBVIOUS
    <2>7. calls' = Purchases!Handled(calls, c, ok, v)
      BY <2>1, <2>3, <2>6 DEF Purchases!Handled
    <2>8. PICK d : /\ calls' = (calls \ {c}) \cup {d} /\ d.owner = c.owner /\ d.what = c.what
                   /\ d.reply = v /\ OrderSet(calls', page.of, front)
      <3>1. MayReply(c, ok, v)
        BY <1>6, <2>4, <2>5 DEF MayReply
      <3> QED
        BY <2>7, <3>1, OrderHandled
    <2>9. OrdersSpin' /\ (ListIn(calls) => ListIn(calls'))
      BY <1>1, <1>3, <2>8, OrdersWait
    <2>10. OnOrders
      <3>1. crossed \in BOOLEAN
        BY <1>1 DEF OrdersPlace
      <3> QED
        BY <1>6, <2>1, <3>1 DEF OnOrders
    <2>11. ChangedIn(calls) => ChangedIn(calls')
      BY <1>2, <2>8 DEF ChangedIn
    <2>12. AnswersAre(calls, View) => AnswersAre(calls', View)
      BY <1>6, <2>8 DEF AnswersAre
    <2>13. OrdersSynced'
      BY <1>1, <1>3, <2>9, <2>10, <2>11, <2>12, OrdersRest
    <2> QED
      BY <1>3, <1>4, <2>8, <2>9, <2>13, OrdersMade
  <1>7. CASE c.what \notin {"orders", "order", "again"}
    <2>1. c.what \in Purchases!Changes
      BY <1>2, <1>7 DEF OrderCalls
    <2>2. PICK ok \in BOOLEAN : ok = Purchases!Accepts(c)
      BY DEF Purchases!Accepts
    <2>3. calls' = Purchases!Handled(calls, c, ok, None)
      BY <1>7, <2>2 DEF Purchases!Serve
    <2>4. PICK d : /\ calls' = (calls \ {c}) \cup {d} /\ d.owner = c.owner /\ d.what = c.what
                   /\ d.state = (IF ok THEN "done" ELSE "refused") /\ OrderSet(calls', page.of, front)
      <3>1. MayReply(c, ok, None)
        BY <1>7 DEF MayReply
      <3> QED
        BY <2>3, <3>1, OrderHandled
    <2>5. OrdersSpin' /\ (ListIn(calls) => ListIn(calls'))
      BY <1>1, <1>3, <2>4, OrdersWait
    <2>6. ChangedIn(calls) => ChangedIn(calls')
      BY <1>2, <2>4 DEF ChangedIn
    <2>7. \A e \in calls' : e.what = "orders" => e \in calls
      BY <1>7, <2>4
    <2>8. crossed \in BOOLEAN
      BY <1>1 DEF OrdersPlace
    <2>9. CASE <<status, hidden>>' = <<status, hidden>>
      <3>1. OnOrders
        BY <1>7, <2>8, <2>9 DEF OnOrders
      <3>2. AnswersAre(calls, View) => AnswersAre(calls', View)
        BY <2>7 DEF AnswersAre
      <3>3. OrdersSynced'
        BY <1>1, <1>3, <2>5, <2>6, <3>1, <3>2, OrdersRest
      <3> QED
        BY <1>3, <1>4, <2>4, <2>5, <3>3, OrdersMade
    <2>10. CASE <<status, hidden>>' # <<status, hidden>>
      <3>1. ok
        BY <2>2, <2>10 DEF Purchases!Serve
      <3>2. ~crossed' => ~Purchases!ListServed /\ c.owner = "list"
        BY <1>7, <2>10
      <3>3. c.owner = "list" => ChangedIn(calls')
        BY <2>1, <2>4, <3>1 DEF ChangedIn
      <3>4. ~crossed' => AnswersAre(calls', View')
        BY <2>7, <3>2 DEF AnswersAre, Purchases!ListServed
      <3>5. OrdersSynced'
        BY <3>2, <3>3, <3>4 DEF OrdersSynced, AnswersAre
      <3> QED
        BY <1>3, <1>4, <2>4, <2>5, <3>5, OrdersMade
    <2> QED
      BY <2>9, <2>10
  <1> QED
    BY <1>5, <1>6, <1>7

LEMMA OrdersAdvanced ==
    ASSUME OrdersKept, NEW o \in Orders, Purchases!Advance(o), crossed' = TRUE PROVE OrdersKept'
  <1>1. OrdersPlace /\ OrdersSpin /\ OrderSet(calls, page.of, front)
    BY TypedIs DEF OrdersKept
  <1>2. UNCHANGED <<hidden, front, list, page, calls>>
    BY DEF Purchases!Advance, Purchases!screens
  <1>6. PICK m \in Purchases!MovesOn : status' = [status EXCEPT ![o] = m[2]]
    BY DEF Purchases!Advance
  <1>7. m[2] \in Purchases!Statuses
    BY DEF Purchases!MovesOn, Purchases!Statuses
  <1>3. status' \in [Orders -> Purchases!Statuses]
    BY <1>1, <1>6, <1>7 DEF OrdersPlace
  <1>4. OrdersPlace'
    BY <1>1, <1>2, <1>3 DEF OrdersPlace
  <1>5. OrdersSpin'
    BY <1>1, <1>2 DEF OrdersSpin, Purchases!Has
  <1> QED
    BY <1>1, <1>2, <1>4, <1>5, OrdersMade DEF OrdersSynced

LEMMA OrdersSame ==
    ASSUME OrdersKept, UNCHANGED <<status, hidden, front, list, page, calls, crossed>> PROVE OrdersKept'
  BY DEF OrdersKept, OrdersTyped, AllPlaced, Placed, OrdersSpin, Purchases!Has, OrdersSynced, AnswersAre,
         View, Purchases!Visible

LEMMA OrdersStartKept == Purchases!Init => OrdersKept
  <1> SUFFICES ASSUME Purchases!Init PROVE OrdersKept
    OBVIOUS
  <1>1. /\ status \in [Orders -> Purchases!Statuses] /\ hidden = {} /\ front = "out"
        /\ list = Purchases!Blank /\ page = Purchases!Blank /\ calls = {} /\ crossed = FALSE
    BY DEF Purchases!Init
  <1>2. OrderSet(calls, page.of, front)
    BY <1>1, FS_EmptySet DEF OrderSet, AllPlaced, Numbered
  <1>3. OrdersPlace
    BY <1>1, OrderBlank DEF OrdersPlace, OrderFronts
  <1>4. OrdersSpin
    BY <1>1, OrderBlank DEF OrdersSpin
  <1>5. OrdersSynced
    BY <1>1 DEF OrdersSynced, AnswersAre
  <1> QED
    BY <1>2, <1>3, <1>4, <1>5, TypedIs DEF OrdersKept

LEMMA OrdersStepsKept == ASSUME OrdersKept, Purchases!Next PROVE OrdersKept'
  <1>1. CASE ((Purchases!MayAct /\ Purchases!Tap) \/ Purchases!Go) /\ UNCHANGED <<status, hidden, crossed>>
    <2>1. OnOrders
      BY <1>1 DEF OnOrders
    <2>2. ASSUME Purchases!Back(calls) PROVE OrdersKept'
      BY <2>1, <2>2, OrdersBackKeeps
    <2> QED
      BY <1>1, <2>1, <2>2, OrdersTapsKept, OrdersEnterKept DEF Purchases!Go
  <1>2. ASSUME NEW c \in calls, Purchases!Handle(c) PROVE OrdersKept'
    <2>1. CASE Purchases!Answer(c) /\ UNCHANGED <<status, hidden, crossed>>
      <3>1. OnOrders
        BY <2>1 DEF OnOrders
      <3> QED
        BY <2>1, <3>1, OrdersReadKept, OrdersActedKept, OrdersAgainKept, OrdersRefusedKept DEF Purchases!Answer
    <2> QED
      BY <1>2, <2>1, OrdersLost, OrdersServed DEF Purchases!Handle, Purchases!server, Purchases!screens
  <1>3. ASSUME NEW o \in Orders, Purchases!Advance(o), crossed' = TRUE PROVE OrdersKept'
    BY <1>3, OrdersAdvanced
  <1> QED
    BY <1>1, <1>2, <1>3 DEF Purchases!Next, Purchases!server

LEMMA OrdersHold ==
    ASSUME OrdersKept PROVE Purchases!TypeOK /\ Purchases!SpinnerHasCall /\ Purchases!ShowsServer
  <1>1. Purchases!TypeOK
    BY ShownAre DEF OrdersKept, OrdersTyped, OrderFronts, OrderScreens, Numbered, Purchases!TypeOK
  <1>2. Purchases!SpinnerHasCall
    BY DEF OrdersKept, OrdersSpin, ListIn, Purchases!SpinnerHasCall, Purchases!Has
  <1>3. Purchases!ShowsServer
    BY DEF OrdersKept, OrdersSynced, ListIn, ChangedIn, View, Purchases!ShowsServer
  <1> QED
    BY <1>1, <1>2, <1>3

LEMMA BookNewId == ASSUME NEW cs, Numbered(cs) PROVE New(cs, Book!NewId(cs))
  <1>1. Cardinality(cs) \in Nat
    BY FS_CardinalityType DEF Numbered
  <1>2. \E i \in 1 .. (Cardinality(cs) + 1) : \A c \in cs : c.id # i
    BY <1>1, FreeNumber DEF Numbered
  <1>3. \E i \in 1 .. (Book!Cardinality(cs) + 1) : i \notin {c.id : c \in cs}
    BY <1>2, SameSize
  <1>4. /\ Book!NewId(cs) \in 1 .. (Book!Cardinality(cs) + 1)
        /\ Book!NewId(cs) \notin {c.id : c \in cs}
    BY <1>3 DEF Book!NewId
  <1> QED
    BY <1>1, <1>4, SameSize DEF New

-----------------------------------------------------------------------------
(* The address book: what is shown of it, and what is asked.               *)

BookCall(c) ==
    c \in [id : Nat, owner : {"list", "form", "left", "gone"},
           what : {"read", "create", "update", "delete", "default"},
           arg : [id : 0 .. MaxId, default : BOOLEAN],
           state : {"sent", "locked", "moving", "done", "refused"}, reply : {c.reply}]
BookFits(c, f) == /\ BookCall(c)
                  /\ c.owner = "form" => f = "form"
                  /\ c.what = "read" => c.state \notin {"locked", "moving"}
                  /\ c.owner = "list" /\ c.what = "read" /\ c.state = "done" =>
                        c.reply.ids \subseteq Book!Ids /\ c.reply.default \subseteq c.reply.ids
BookSet(cs, f) == Numbered(cs) /\ \A c \in cs : BookFits(c, f)

BookLists == [ids : SUBSET Book!Ids, default : SUBSET Book!Ids, loading : BOOLEAN, failed : BOOLEAN,
              pick : BOOLEAN]
BookForms == [id : 0 .. MaxId, phase : {"none", "loading", "ready", "missing"}, level : 0 .. 3,
              submitting : BOOLEAN, unread : BOOLEAN]

BookReading(cs) == \E c \in cs : c.owner = "list" /\ c.what = "read"
BookSaving(cs) == \E c \in cs : c.owner = "form" /\ c.what \in {"create", "update"}
BookFilling(cs) == \E c \in cs : c.owner = "form" /\ c.what = "read"
\* A form f with the requests cs: what it saves, and the address it is filled with.
FormSpin(f, cs) == /\ f.submitting => BookSaving(cs)
                   /\ f.phase = "loading" /\ ~f.unread => BookFilling(cs)
BookChanged(cs) == \E c \in cs : c.owner = "list" /\ c.what # "read" /\ c.state = "done"
BookAnswersAre(cs, l, d) == \A c \in cs : c.owner = "list" /\ c.what = "read" /\ c.state = "done" =>
                                              c.reply.ids = l /\ c.reply.default = d

BookPlace == /\ top \in 0 .. MaxId /\ live \subseteq 1 .. top
             /\ list \in BookLists /\ list.default \subseteq list.ids /\ form \in BookForms
             /\ crossed \in BOOLEAN
BookSpin == (list.loading => BookReading(calls)) /\ FormSpin(form, calls)
BookSynced ==
    ~crossed => /\ BookAnswersAre(calls, live, dflt)
                /\ front = "list" => \/ list.failed \/ (list.ids = live /\ list.default = dflt)
                                     \/ BookReading(calls) \/ BookChanged(calls)
BookKept == BookPlace /\ BookSet(calls, front) /\ BookSpin /\ BookSynced

LEMMA BookRequest ==
    ASSUME NEW cs, Numbered(cs), NEW owner \in {"list", "form"},
           NEW what \in {"read", "create", "update", "delete", "default"},
           NEW i \in 0 .. MaxId, NEW default \in BOOLEAN
    PROVE  \E c : /\ Book!Ask(cs, owner, what, Book!Arg(i, default)) = cs \cup {c}
                  /\ BookCall(c) /\ c.owner = owner /\ c.what = what /\ c.state = "sent" /\ New(cs, c.id)
  <1>1. PICK n : n = Book!NewId(cs)
    OBVIOUS
  <1>2. New(cs, n)
    BY <1>1, BookNewId
  <1>3. PICK c : c = [id |-> n, owner |-> owner, what |-> what, arg |-> [id |-> i, default |-> default],
                    state |-> "sent", reply |-> None]
    OBVIOUS
  <1>4. BookCall(c) /\ c.what = what /\ c.state = "sent" /\ c.id = n /\ c.owner = owner
    BY <1>2, <1>3 DEF BookCall, New
  <1>5. c = Book!Request(cs, owner, what, Book!Arg(i, default))
    BY <1>1, <1>3 DEF Book!Request, Book!Arg
  <1> QED
    BY <1>2, <1>4, <1>5 DEF Book!Ask

BookMayAsk(owner, what, i, default, f) ==
    /\ owner \in {"list", "form"} /\ what \in {"read", "create", "update", "delete", "default"}
    /\ i \in 0 .. MaxId /\ default \in BOOLEAN /\ (owner = "form" => f = "form")

LEMMA BookAsked ==
    ASSUME NEW f, NEW cs, BookSet(cs, f), NEW owner, NEW what, NEW i, NEW default,
           BookMayAsk(owner, what, i, default, f),
           NEW ds, ds = Book!Ask(cs, owner, what, Book!Arg(i, default))
    PROVE  /\ BookSet(ds, f) /\ cs \subseteq ds
           /\ \E c \in ds : c.owner = owner /\ c.what = what
           /\ \A c \in ds : c.state = "done" => c \in cs
  <1>1. PICK c : /\ ds = cs \cup {c} /\ BookCall(c) /\ c.owner = owner /\ c.what = what
                 /\ c.state = "sent" /\ New(cs, c.id)
    BY BookRequest DEF BookSet, BookMayAsk
  <1>2. Numbered(ds)
    BY <1>1, NumberedMore DEF BookSet
  <1>3. BookFits(c, f)
    BY <1>1 DEF BookFits, BookMayAsk
  <1> QED
    BY <1>1, <1>2, <1>3 DEF BookSet

\* The list asks for the book.
LEMMA BookLoads ==
    ASSUME NEW f, NEW cs, BookSet(cs, f), NEW ds, ds = Book!Ask(cs, "list", "read", Book!NoArg)
    PROVE  /\ BookSet(ds, f) /\ cs \subseteq ds /\ BookReading(ds) /\ \A c \in ds : c.state = "done" => c \in cs
  <1>0. PICK no \in BOOLEAN : ~no
    OBVIOUS
  <1>1. Book!NoArg = Book!Arg(0, no)
    BY <1>0 DEF Book!NoArg, Book!Arg
  <1>2. BookMayAsk("list", "read", 0, no, f)
    BY BuyerAppAssumption DEF BookMayAsk
  <1>3. /\ BookSet(ds, f) /\ cs \subseteq ds
        /\ \E c \in ds : c.owner = "list" /\ c.what = "read"
        /\ \A c \in ds : c.state = "done" => c \in cs
    BY <1>1, <1>2, BookAsked
  <1> QED
    BY <1>3 DEF BookReading

LEMMA BookFewer ==
    ASSUME NEW f, NEW cs, BookSet(cs, f), NEW ds, ds \subseteq cs PROVE BookSet(ds, f)
  BY NumberedFewer DEF BookSet

\* A request that changed hands.
LEMMA BookHanded ==
    ASSUME NEW c, BookCall(c), NEW o \in {"left", "gone"}, NEW d, d = [c EXCEPT !.owner = o]
    PROVE  /\ BookCall(d) /\ d.id = c.id /\ d.owner = o /\ d.what = c.what /\ d.state = c.state
           /\ d.reply = c.reply
  BY DEF BookCall

\* The form is left.
LEMMA BookFormLeft ==
    ASSUME NEW f, NEW cs, BookSet(cs, f), NEW ds, ds = Book!Left(cs), NEW g
    PROVE  /\ BookSet(ds, g) /\ (\A c \in cs : c.owner # "form" => c \in ds)
           /\ \A c \in ds : c.owner = "list" => c \in cs
  <1> DEFINE S == {d \in cs : d.owner # "form" \/ d.what # "read"}
  <1>1. PICK fn : fn = [c \in S |-> IF c.owner = "form" THEN [c EXCEPT !.owner = "left"] ELSE c]
    OBVIOUS
  <1>2. DOMAIN fn = S /\ S \subseteq cs /\ ds = {fn[c] : c \in S}
    BY <1>1 DEF Book!Left
  <1>3. ASSUME NEW c \in S
        PROVE  /\ fn[c].id = c.id /\ BookFits(fn[c], g)
               /\ c.owner # "form" => fn[c] = c
               /\ fn[c].owner = "list" => fn[c] = c
    <2>1. BookFits(c, f)
      BY DEF BookSet
    <2>2. CASE c.owner = "form"
      <3>1. fn[c] = [c EXCEPT !.owner = "left"]
        BY <1>1, <2>2
      <3>2. /\ BookCall(fn[c]) /\ fn[c].id = c.id /\ fn[c].owner = "left"
            /\ fn[c].what = c.what /\ fn[c].state = c.state
        BY <2>1, <3>1, BookHanded DEF BookFits
      <3> QED
        BY <2>1, <2>2, <3>2 DEF BookFits
    <2>3. CASE c.owner # "form"
      BY <1>1, <2>1, <2>3 DEF BookFits
    <2> QED
      BY <2>2, <2>3
  <1>4. \A c \in S : fn[c].id = c.id
    BY <1>3
  <1>5. \A c \in cs : c.owner # "form" => c \in S
    OBVIOUS
  <1>6. \A c \in S : c \in cs
    OBVIOUS
  <1> HIDE DEF S
  <1>7. Numbered(ds)
    BY <1>2, <1>4, NumberedImage DEF BookSet
  <1> QED
    BY <1>2, <1>3, <1>5, <1>6, <1>7 DEF BookSet

\* The list is left.
LEMMA BookListLeft ==
    ASSUME NEW f, NEW cs, BookSet(cs, f), NEW ds, ds = Book!LeftList(cs), NEW g, f # "form"
    PROVE  BookSet(ds, g) /\ \A c \in ds : c.owner # "list"
  <1> DEFINE kept == {c \in cs : c.owner # "list" \/ c.what # "read"}
             S == {c \in kept : c.owner = "list"}
  <1>1. PICK fn : fn = [c \in kept |-> IF c.owner = "list" THEN [c EXCEPT !.owner = "gone"] ELSE c]
    OBVIOUS
  <1>2. DOMAIN fn = kept /\ kept \subseteq cs
    BY <1>1
  <1>3. ASSUME NEW c \in kept
        PROVE  fn[c].id = c.id /\ BookFits(fn[c], g) /\ fn[c].owner # "list"
    <2>1. BookFits(c, f)
      BY DEF BookSet
    <2>2. CASE c.owner = "list"
      <3>1. fn[c] = [c EXCEPT !.owner = "gone"]
        BY <1>1, <2>2
      <3>2. /\ BookCall(fn[c]) /\ fn[c].id = c.id /\ fn[c].owner = "gone"
            /\ fn[c].what = c.what /\ fn[c].state = c.state
        BY <2>1, <3>1, BookHanded DEF BookFits
      <3> QED
        BY <2>1, <3>2 DEF BookFits
    <2>3. CASE c.owner # "list"
      BY <1>1, <2>1, <2>3 DEF BookFits
    <2> QED
      BY <2>2, <2>3
  <1>4. \A c \in kept : fn[c].id = c.id
    BY <1>3
  <1>5. ds = {fn[c] : c \in kept}
    <2>1. ds = (kept \ S) \cup {[c EXCEPT !.owner = "gone"] : c \in S}
      BY DEF Book!LeftList, Book!Orphaned
    <2>2. \A c \in kept : c \notin S => fn[c] = c
      BY <1>1
    <2>3. \A c \in S : c \in kept /\ fn[c] = [c EXCEPT !.owner = "gone"]
      BY <1>1
    <2> HIDE DEF kept, S
    <2>4. ASSUME NEW d \in ds PROVE \E c \in kept : d = fn[c]
      <3>1. CASE d \in kept /\ d \notin S
        BY <2>2, <3>1
      <3>2. ASSUME NEW c \in S, d = [c EXCEPT !.owner = "gone"] PROVE \E b \in kept : d = fn[b]
        BY <2>3, <3>2
      <3> QED
        BY <2>1, <3>1, <3>2
    <2>5. ASSUME NEW c \in kept PROVE fn[c] \in ds
      <3>1. CASE c \in S
        BY <2>1, <2>3, <3>1
      <3>2. CASE c \notin S
        BY <2>1, <2>2, <3>2
      <3> QED
        BY <3>1, <3>2
    <2> QED
      BY <2>4, <2>5
  <1> HIDE DEF kept
  <1>6. Numbered(ds)
    BY <1>2, <1>4, <1>5, NumberedImage DEF BookSet
  <1> QED
    BY <1>3, <1>5, <1>6 DEF BookSet

\* Without the form in front nothing is asked for it.
LEMMA BookElsewhere ==
    ASSUME NEW f, f # "form", NEW cs, BookSet(cs, f), NEW g PROVE BookSet(cs, g)
  BY DEF BookSet, BookFits

OnBook == UNCHANGED <<live, dflt, top, crossed>>

\* Where the server's book is as it was, and no answer is new.
LEMMA BookRest ==
    ASSUME BookSynced, OnBook, \A c \in calls' : c.owner = "list" /\ c.state = "done" => c \in calls,
           front' = "list" => \/ BookReading(calls')
                              \/ /\ front = "list" /\ list' = list
                                 /\ BookReading(calls) => BookReading(calls')
                                 /\ BookChanged(calls) => BookChanged(calls')
    PROVE  BookSynced'
  BY DEF BookSynced, OnBook, BookAnswersAre

LEMMA BookTyped ==
    ASSUME BookPlace, OnBook, list' \in BookLists, list'.default \subseteq list'.ids, form' \in BookForms
    PROVE  BookPlace'
  BY DEF BookPlace, OnBook

LEMMA BookMade ==
    ASSUME BookPlace', BookSet(calls', front'), BookSpin', BookSynced' PROVE BookKept'
  BY DEF BookKept

\* A request of a screen that stays in front.
LEMMA BookAskedKept ==
    ASSUME BookKept, OnBook, UNCHANGED <<front, list>>, NEW owner, NEW what, NEW i, NEW default,
           BookMayAsk(owner, what, i, default, front),
           calls' = Book!Ask(calls, owner, what, Book!Arg(i, default)),
           form' \in BookForms,
           form'.phase = form.phase, form'.unread = form.unread,
           form'.submitting => form.submitting \/ (owner = "form" /\ what \in {"create", "update"})
    PROVE  BookKept'
  <1>1. BookPlace /\ BookSet(calls, front) /\ BookSpin /\ BookSynced
    BY DEF BookKept
  <1>2. /\ BookSet(calls', front) /\ calls \subseteq calls'
        /\ \E c \in calls' : c.owner = owner /\ c.what = what
        /\ \A c \in calls' : c.state = "done" => c \in calls
    BY <1>1, BookAsked
  <1>3. BookPlace'
    BY <1>1, BookTyped DEF BookPlace
  <1>4. BookSpin'
    BY <1>1, <1>2 DEF BookSpin, FormSpin, BookReading, BookSaving, BookFilling
  <1>5. BookSynced'
    <2>1. BookReading(calls) => BookReading(calls')
      BY <1>2 DEF BookReading
    <2>2. BookChanged(calls) => BookChanged(calls')
      BY <1>2 DEF BookChanged
    <2> QED
      BY <1>1, <1>2, <2>1, <2>2, BookRest
  <1> QED
    BY <1>2, <1>3, <1>4, <1>5, BookMade

\* The list loads, with cs still to be answered.
LEMMA BookLoadKept ==
    ASSUME BookKept, OnBook, NEW cs, BookSet(cs, front'), Book!Load(cs),
           \A c \in cs : c.owner = "list" /\ c.state = "done" => c \in calls,
           form' \in BookForms, FormSpin(form', cs)
    PROVE  BookKept'
  <1>1. BookPlace /\ BookSet(calls, front) /\ BookSpin /\ BookSynced
    BY DEF BookKept
  <1>2. /\ list' = [list EXCEPT !.loading = TRUE, !.failed = FALSE]
        /\ calls' = Book!Ask(cs, "list", "read", Book!NoArg)
    BY DEF Book!Load, Book!Loading
  <1>3. /\ BookSet(calls', front') /\ cs \subseteq calls' /\ BookReading(calls')
        /\ \A c \in calls' : c.state = "done" => c \in cs
    BY <1>2, BookLoads
  <1>4. list' \in BookLists /\ list'.default \subseteq list'.ids
    BY <1>1, <1>2 DEF BookPlace, BookLists
  <1>5. BookPlace'
    BY <1>1, <1>4, BookTyped
  <1>6. BookSpin'
    BY <1>3 DEF BookSpin, FormSpin, BookSaving, BookFilling
  <1>7. BookSynced'
    BY <1>1, <1>3, BookRest
  <1> QED
    BY <1>3, <1>5, <1>6, <1>7, BookMade

LEMMA BookBlank ==
    /\ \A pick \in BOOLEAN : /\ Book!BlankList(pick) \in BookLists /\ Book!BlankList(pick).default = {}
                             /\ Book!BlankList(pick).loading
    /\ Book!NoList \in BookLists /\ Book!NoList.default = {} /\ ~Book!NoList.loading
    /\ Book!NoForm \in BookForms /\ ~Book!NoForm.submitting /\ Book!NoForm.phase = "none"
  <1>1. ASSUME NEW pick \in BOOLEAN, NEW s, s = Book!BlankList(pick)
        PROVE  s \in BookLists /\ s.default = {} /\ s.loading
    BY <1>1 DEF Book!BlankList, BookLists
  <1>2. Book!NoForm \in BookForms /\ ~Book!NoForm.submitting /\ Book!NoForm.phase = "none"
    BY BuyerAppAssumption DEF Book!NoForm, BookForms
  <1>3. Book!NoList \in BookLists /\ Book!NoList.default = {} /\ ~Book!NoList.loading
    <2>1. PICK no \in BOOLEAN : ~no
      OBVIOUS
    <2>2. PICK s : s = Book!BlankList(no)
      OBVIOUS
    <2>3. s \in BookLists /\ s.default = {}
      BY <1>1, <2>2
    <2>4. Book!NoList = [s EXCEPT !.loading = FALSE]
      BY <2>1, <2>2 DEF Book!NoList, Book!BlankList
    <2> QED
      BY <2>3, <2>4 DEF BookLists
  <1> QED
    BY <1>1, <1>2, <1>3

\* No form is being saved or filled where none is in front.
LEMMA BookIdle == ASSUME BookKept, front # "form", NEW cs PROVE FormSpin(form, cs)
  BY DEF BookKept, BookSpin, FormSpin, BookSaving, BookFilling, BookSet, BookFits

\* The list is left, with cs still to be answered.
LEMMA BookLeaveKept ==
    ASSUME BookKept, OnBook, NEW cs, cs \subseteq calls, front = "list", front' = "out",
           list' = Book!NoList, calls' = Book!LeftList(cs), UNCHANGED form
    PROVE  BookKept'
  <1>1. BookPlace /\ BookSet(cs, front) /\ BookSpin /\ BookSynced
    BY BookFewer DEF BookKept
  <1>2. BookSet(calls', front') /\ \A c \in calls' : c.owner # "list"
    BY <1>1, BookListLeft
  <1>3. list' \in BookLists /\ list'.default \subseteq list'.ids /\ ~list'.loading
    BY BookBlank
  <1>4. BookPlace'
    BY <1>1, <1>3, BookTyped DEF BookPlace
  <1>5. BookSpin'
    BY <1>3, BookIdle DEF BookSpin
  <1>6. BookSynced'
    BY <1>1, <1>2, BookRest
  <1> QED
    BY <1>2, <1>4, <1>5, <1>6, BookMade

\* A step back.
LEMMA BookBackKept ==
    ASSUME BookKept, front \in BookFronts, OnBook, NEW cs, cs \subseteq calls, Book!Back(cs),
           BookReading(calls) => BookReading(cs)
    PROVE  BookKept'
  <1>1. BookPlace /\ BookSet(cs, front) /\ BookSpin /\ BookSynced
    BY BookFewer DEF BookKept
  <1>2. CASE front = "form"
    <2> PICK left : left = Book!Left(cs)
      OBVIOUS
    <2>1. front' = "list" /\ form' = Book!NoForm /\ Book!Load(left)
      BY <1>2 DEF Book!Back
    <2>2. BookSet(left, front') /\ \A c \in left : c.owner = "list" => c \in cs
      BY <1>1, BookFormLeft
    <2>3. \A c \in left : c.owner = "list" /\ c.state = "done" => c \in calls
      BY <2>2
    <2>4. form' \in BookForms /\ FormSpin(form', left)
      BY <2>1, BookBlank DEF FormSpin
    <2> QED
      BY <2>1, <2>2, <2>3, <2>4, BookLoadKept
  <1>3. CASE front = "list"
    <2>1. front' = "out" /\ list' = Book!NoList /\ calls' = Book!LeftList(cs) /\ UNCHANGED form
      BY <1>3 DEF Book!Back
    <2> QED
      BY <1>3, <2>1, BookLeaveKept
  <1>4. CASE front = "out"
    <2>1. calls' = cs /\ UNCHANGED <<front, list, form>>
      BY <1>4 DEF Book!Back
    <2>2. BookPlace' /\ BookSet(calls', front')
      BY <1>1, <2>1 DEF BookPlace, OnBook
    <2>3. BookSpin'
      BY <1>1, <1>4, <2>1, BookIdle DEF BookSpin
    <2>4. BookSynced'
      BY <1>1, <1>4, <2>1, BookRest
    <2> QED
      BY <2>2, <2>3, <2>4, BookMade
  <1> QED
    BY <1>2, <1>3, <1>4 DEF BookFronts

LEMMA BookTapsKept == ASSUME BookKept, OnBook, Book!Tap PROVE BookKept'
  <1>1. BookPlace /\ BookSet(calls, front) /\ BookSpin /\ BookSynced
    BY DEF BookKept
  <1>2. CASE Book!ListTap /\ UNCHANGED <<front, form>>
    <2>1. CASE "retry" \in Book!ListOffers /\ Book!Load(calls)
      <3>1. BookSet(calls, front') /\ form' \in BookForms /\ FormSpin(form', calls)
        BY <1>1, <1>2 DEF BookPlace, BookSpin
      <3> QED
        BY <2>1, <3>1, BookLoadKept
    <2>2. ASSUME NEW i \in Book!Ids, Book!handleDelete(i) \/ Book!handleSetDefault(i), UNCHANGED list
          PROVE  BookKept'
      <3>1. PICK what \in {"delete", "default"}, default \in BOOLEAN :
                calls' = Book!Ask(calls, "list", what, Book!Arg(i, default))
        BY <2>2 DEF Book!handleDelete, Book!handleSetDefault
      <3>2. i \in 0 .. MaxId
        BY BuyerAppAssumption DEF Book!Ids
      <3>3. BookMayAsk("list", what, i, default, front)
        BY <3>2 DEF BookMayAsk
      <3>4. form' \in BookForms /\ form' = form
        BY <1>1, <1>2 DEF BookPlace
      <3> QED
        BY <1>2, <2>2, <3>1, <3>3, <3>4, BookAskedKept
    <2> QED
      BY <1>2, <2>1, <2>2 DEF Book!ListTap
  <1>3. CASE Book!OpenNew /\ UNCHANGED list
    <2>1. front = "list" /\ front' = "form" /\ UNCHANGED calls
      BY <1>3 DEF Book!OpenNew, Book!ListOffers
    <2>2. form' \in BookForms /\ ~form'.submitting /\ form'.phase = "ready"
      <3>1. PICK n : n = Book!NoForm
        OBVIOUS
      <3>2. form' = [n EXCEPT !.phase = "ready"] /\ n \in BookForms /\ ~n.submitting
        BY <1>3, <3>1, BookBlank DEF Book!OpenNew
      <3> QED
        BY <3>2 DEF BookForms
    <2>3. BookSet(calls', front')
      BY <1>1, <2>1, BookElsewhere
    <2>4. BookPlace'
      BY <1>1, <1>3, <2>2, BookTyped DEF BookPlace
    <2>5. BookSpin'
      BY <1>1, <1>3, <2>1, <2>2 DEF BookSpin, FormSpin
    <2>6. BookSynced'
      BY <1>1, <2>1, BookRest
    <2> QED
      BY <2>3, <2>4, <2>5, <2>6, BookMade
  <1>4. ASSUME NEW i \in Book!Ids, Book!OpenEdit(i), UNCHANGED list PROVE BookKept'
    <2>1. /\ front = "list" /\ front' = "form"
          /\ calls' = Book!Ask(calls, "form", "read", Book!NoArg)
          /\ form' = [Book!NoForm EXCEPT !.id = i, !.phase = "loading"]
      BY <1>4 DEF Book!OpenEdit, Book!RowOffers, Book!ListOffers
    <2>2. form' \in BookForms /\ ~form'.submitting
      <3>1. PICK n : n = Book!NoForm
        OBVIOUS
      <3>2. form' = [n EXCEPT !.id = i, !.phase = "loading"] /\ n \in BookForms /\ ~n.submitting
        BY <2>1, <3>1, BookBlank
      <3>3. i \in 0 .. MaxId
        BY BuyerAppAssumption DEF Book!Ids
      <3> QED
        BY <3>2, <3>3 DEF BookForms
    <2>3. BookSet(calls, front')
      BY <1>1, <2>1, BookElsewhere
    <2>4. PICK no \in BOOLEAN : ~no
      OBVIOUS
    <2>5. Book!NoArg = Book!Arg(0, no)
      BY <2>4 DEF Book!NoArg, Book!Arg
    <2>6. BookMayAsk("form", "read", 0, no, front')
      BY <2>1, BuyerAppAssumption DEF BookMayAsk
    <2>7. /\ BookSet(calls', front') /\ calls \subseteq calls' /\ BookFilling(calls')
          /\ \A c \in calls' : c.state = "done" => c \in calls
      BY <2>1, <2>3, <2>5, <2>6, BookAsked DEF BookFilling
    <2>8. BookPlace'
      BY <1>1, <1>4, <2>2, BookTyped DEF BookPlace
    <2>9. BookSpin'
      BY <1>1, <1>4, <2>2, <2>7 DEF BookSpin, FormSpin, BookReading
    <2>10. BookSynced'
      BY <1>1, <2>1, <2>7, BookRest
    <2> QED
      BY <2>7, <2>8, <2>9, <2>10, BookMade
  <1>5. CASE Book!EnterList /\ UNCHANGED form
    <2>1. PICK pick \in BOOLEAN : list' = Book!BlankList(pick)
      BY <1>5 DEF Book!EnterList
    <2>2. front = "out" /\ front' = "list" /\ calls' = Book!Ask(calls, "list", "read", Book!NoArg)
      BY <1>5 DEF Book!EnterList
    <2>3. BookSet(calls, front')
      BY <1>1, <2>2, BookElsewhere
    <2>4. /\ BookSet(calls', front') /\ BookReading(calls')
          /\ \A c \in calls' : c.state = "done" => c \in calls
      BY <2>2, <2>3, BookLoads
    <2>5. list' \in BookLists /\ list'.default \subseteq list'.ids
      BY <2>1, BookBlank
    <2>6. BookPlace'
      BY <1>1, <1>5, <2>5, BookTyped DEF BookPlace
    <2>7. BookSpin'
      BY <1>5, <2>2, <2>4, BookIdle DEF BookSpin
    <2>8. BookSynced'
      BY <1>1, <2>4, BookRest
    <2> QED
      BY <2>4, <2>6, <2>7, <2>8, BookMade
  <1>6. CASE Book!Submit /\ UNCHANGED <<front, list>>
    <2>1. front = "form" /\ form' = [form EXCEPT !.submitting = TRUE]
      BY <1>6 DEF Book!Submit, Book!FormOffers
    <2>2. PICK default \in BOOLEAN :
              calls' = Book!Ask(calls, "form", IF form.id = 0 THEN "create" ELSE "update",
                                Book!Arg(form.id, default))
      BY <1>6 DEF Book!Submit
    <2>3. PICK what : what = IF form.id = 0 THEN "create" ELSE "update"
      OBVIOUS
    <2>4. /\ form.id \in 0 .. MaxId /\ form' \in BookForms
          /\ form'.phase = form.phase /\ form'.unread = form.unread
      BY <1>1, <2>1 DEF BookPlace, BookForms
    <2>5. BookMayAsk("form", what, form.id, default, front)
      BY <2>1, <2>3, <2>4 DEF BookMayAsk
    <2> QED
      BY <1>6, <2>2, <2>3, <2>4, <2>5, BookAskedKept
  <1>7. CASE Book!FormDelete /\ UNCHANGED <<front, list>>
    <2>1. front = "form" /\ UNCHANGED form /\ calls' = Book!Ask(calls, "form", "delete", Book!Arg(form.id, FALSE))
      BY <1>7 DEF Book!FormDelete, Book!FormOffers
    <2>2. PICK no \in BOOLEAN : ~no
      OBVIOUS
    <2>3. calls' = Book!Ask(calls, "form", "delete", Book!Arg(form.id, no))
      BY <2>1, <2>2 DEF Book!Arg
    <2>4. form.id \in 0 .. MaxId /\ form' \in BookForms
      BY <1>1, <2>1 DEF BookPlace, BookForms
    <2>5. BookMayAsk("form", "delete", form.id, no, front)
      BY <2>1, <2>4 DEF BookMayAsk
    <2> QED
      BY <1>7, <2>1, <2>3, <2>4, <2>5, BookAskedKept
  <1> QED
    BY <1>2, <1>3, <1>4, <1>5, <1>6, <1>7 DEF Book!Tap

LEMMA BookTypeKept == ASSUME BookKept, Book!Type PROVE BookKept'
  <1>1. BookPlace /\ BookSet(calls, front) /\ BookSpin /\ BookSynced
    BY DEF BookKept
  <1>2. UNCHANGED <<live, dflt, top, front, list, calls, crossed>>
    BY DEF Book!Type, Book!book
  <1>3. PICK k \in 0 .. 3 : form' = [form EXCEPT !.level = k]
    BY DEF Book!Type, Book!Pick, Book!pickerLevels, Book!handlePickOption
  <1>4. /\ form' \in BookForms /\ form'.submitting = form.submitting
        /\ form'.phase = form.phase /\ form'.unread = form.unread
    BY <1>1, <1>3 DEF BookPlace, BookForms
  <1>5. BookPlace'
    BY <1>1, <1>2, <1>4 DEF BookPlace
  <1>6. BookSpin' /\ BookSynced'
    BY <1>1, <1>2, <1>4 DEF BookSpin, FormSpin, BookSynced, BookAnswersAre
  <1> QED
    BY <1>1, <1>2, <1>5, <1>6 DEF BookKept

LEMMA BookLeavesKept == ASSUME BookKept, front \in BookFronts, Book!Leave PROVE BookKept'
  <1>1. OnBook
    BY DEF Book!Leave, Book!book, OnBook
  <1>2. CASE Book!LeaveList /\ UNCHANGED form
    BY <1>1, <1>2, BookLeaveKept DEF Book!LeaveList
  <1>3. CASE front = "form" /\ Book!Back(calls)
    BY <1>1, <1>3, BookBackKept
  <1> QED
    BY <1>2, <1>3 DEF Book!Leave

\* Requests that are answered, or will not be.
LEMMA BookAnswersKept ==
    ASSUME BookKept, front \in BookFronts, OnBook, NEW c \in calls,
           \/ Book!Shown(c) \/ Book!Unshown(c) \/ Book!Written(c)
           \/ Book!FormFilled(c) \/ Book!FormUnfilled(c) \/ Book!Saved(c)
    PROVE  BookKept'
  <1> DEFINE rest == calls \ {c}
  <1>1. BookPlace /\ BookSet(calls, front) /\ BookSpin /\ BookSynced /\ BookFits(c, front)
    BY DEF BookKept, BookSet
  <1>2. BookSet(rest, front)
    BY <1>1, BookFewer
  <1>3. \A d \in rest : d \in calls
    OBVIOUS
  <1>4. c.owner # "list" \/ c.what # "read" => (BookReading(calls) => BookReading(rest))
    BY DEF BookReading
  <1>5. c.owner # "form" => FormSpin(form, rest)
    BY <1>1 DEF BookSpin, FormSpin, BookSaving, BookFilling
  <1>6. c.owner # "list" \/ c.what = "read" => (BookChanged(calls) => BookChanged(rest))
    BY DEF BookChanged
  <1>7. CASE Book!Shown(c)
    <2>1. /\ c.owner = "list" /\ c.what = "read" /\ c.state = "done" /\ calls' = rest
          /\ list' = [list EXCEPT !.ids = c.reply.ids, !.default = c.reply.default, !.loading = FALSE]
          /\ UNCHANGED <<front, form>>
      BY <1>7 DEF Book!Shown
    <2>2. c.reply.ids \subseteq Book!Ids /\ c.reply.default \subseteq c.reply.ids
      BY <1>1, <2>1 DEF BookFits
    <2>3. /\ list' \in BookLists /\ ~list'.loading
          /\ list'.ids = c.reply.ids /\ list'.default = c.reply.default
      BY <1>1, <2>1, <2>2 DEF BookPlace, BookLists
    <2>4. BookPlace'
      BY <1>1, <2>1, <2>2, <2>3, BookTyped DEF BookPlace
    <2>5. BookSpin'
      BY <1>1, <1>5, <2>1, <2>3 DEF BookSpin
    <2>6. ~crossed => c.reply.ids = live /\ c.reply.default = dflt
      BY <1>1, <2>1 DEF BookSynced, BookAnswersAre
    <2>7. BookSynced'
      <3>1. ~crossed => BookAnswersAre(calls, live, dflt)
        BY <1>1 DEF BookSynced
      <3>2. UNCHANGED <<live, dflt, crossed>>
        BY DEF OnBook
      <3>3. ~crossed => BookAnswersAre(calls', live', dflt')
        BY <1>3, <2>1, <3>1, <3>2 DEF BookAnswersAre
      <3>4. ~crossed => list'.ids = live' /\ list'.default = dflt'
        BY <2>3, <2>6, <3>2
      <3> QED
        BY <3>2, <3>3, <3>4 DEF BookSynced, BookAnswersAre
    <2>8. BookSet(calls', front')
      BY <1>2, <2>1
    <2> QED
      BY <2>4, <2>5, <2>7, <2>8, BookMade
  <1>8. CASE Book!Unshown(c)
    <2>1. /\ c.owner = "list" /\ c.what = "read" /\ calls' = rest /\ UNCHANGED <<front, form>>
          /\ list' = [list EXCEPT !.ids = {}, !.default = {}, !.loading = FALSE, !.failed = TRUE]
      BY <1>8 DEF Book!Unshown
    <2>2. /\ list' \in BookLists /\ ~list'.loading /\ list'.failed /\ list'.ids = {} /\ list'.default = {}
      BY <1>1, <2>1 DEF BookPlace, BookLists
    <2>3. BookPlace'
      BY <1>1, <2>1, <2>2, BookTyped DEF BookPlace
    <2>4. BookSpin'
      BY <1>1, <1>5, <2>1, <2>2 DEF BookSpin
    <2>5. BookSynced'
      <3>1. list'.failed /\ UNCHANGED <<live, dflt, crossed>>
        BY <2>2 DEF OnBook
      <3>2. ~crossed => BookAnswersAre(calls', live, dflt)
        BY <1>1, <1>3, <2>1 DEF BookSynced, BookAnswersAre
      <3> QED
        BY <3>1, <3>2 DEF BookSynced, BookAnswersAre
    <2>6. BookSet(calls', front')
      BY <1>2, <2>1
    <2> QED
      BY <2>3, <2>4, <2>5, <2>6, BookMade
  <1>9. CASE Book!Written(c)
    <2>1. c.owner = "list" /\ Book!Load(rest) /\ UNCHANGED <<front, form>>
      BY <1>9 DEF Book!Written
    <2>2. BookSet(rest, front') /\ form' \in BookForms /\ FormSpin(form', rest)
      BY <1>1, <1>2, <1>5, <2>1 DEF BookPlace
    <2> HIDE DEF rest
    <2> QED
      BY <1>3, <2>1, <2>2, BookLoadKept
  <1>10. CASE Book!FormFilled(c) \/ Book!FormUnfilled(c)
    <2>1. c.owner = "form" /\ c.what = "read" /\ calls' = rest /\ UNCHANGED <<front, list>>
      BY <1>10 DEF Book!FormFilled, Book!FormUnfilled
    <2>2. /\ form' \in BookForms /\ form'.submitting = form.submitting
          /\ form'.phase # "loading" \/ form'.unread
      <3>1. \/ form' = [form EXCEPT !.unread = TRUE]
            \/ \E k \in {1, 3} : form' = [form EXCEPT !.phase = "ready", !.level = k]
            \/ form' = [form EXCEPT !.phase = "missing"]
        BY <1>10 DEF Book!FormFilled, Book!FormUnfilled, Book!FormOf
      <3>2. form \in BookForms
        BY <1>1 DEF BookPlace
      <3>3. CASE form' = [form EXCEPT !.unread = TRUE]
        BY <3>2, <3>3 DEF BookForms
      <3>4. ASSUME NEW k \in {1, 3}, form' = [form EXCEPT !.phase = "ready", !.level = k]
            PROVE  form' \in BookForms /\ form'.submitting = form.submitting /\ form'.phase = "ready"
        <4>1. k \in 0 .. 3
          BY <3>4
        <4> QED
          BY <3>2, <3>4, <4>1 DEF BookForms
      <3>5. CASE form' = [form EXCEPT !.phase = "missing"]
        BY <3>2, <3>5 DEF BookForms
      <3> QED
        BY <3>1, <3>3, <3>4, <3>5
    <2>3. BookPlace'
      BY <1>1, <2>1, <2>2, BookTyped DEF BookPlace
    <2>4. BookSpin'
      <3>1. BookSaving(calls) => BookSaving(calls')
        BY <2>1 DEF BookSaving
      <3> QED
        BY <1>1, <1>4, <2>1, <2>2, <3>1 DEF BookSpin, FormSpin
    <2>5. BookSynced'
      <3> HIDE DEF rest
      <3> QED
        BY <1>1, <1>3, <1>4, <1>6, <2>1, BookRest
    <2>6. BookSet(calls', front')
      BY <1>2, <2>1
    <2> QED
      BY <2>3, <2>4, <2>5, <2>6, BookMade
  <1>11. CASE Book!Saved(c)
    <2>1. c.owner # "list" /\ Book!Back(rest) /\ rest \subseteq calls
      BY <1>11 DEF Book!Saved
    <2> HIDE DEF rest
    <2> QED
      BY <1>4, <2>1, BookBackKept
  <1> QED
    BY <1>7, <1>8, <1>9, <1>10, <1>11

\* A change that is refused, or of which no answer comes.
LEMMA BookRefusedKept ==
    ASSUME BookKept, UNCHANGED <<live, dflt, top>>, NEW c \in calls, Book!Refused(c),
           \/ crossed' = TRUE
           \/ crossed' = crossed /\ c.state = "refused"
    PROVE  BookKept'
  <1>1. BookPlace /\ BookSet(calls, front) /\ BookSpin /\ BookSynced /\ BookFits(c, front)
    BY DEF BookKept, BookSet
  <1>2. /\ c.what # "read" /\ calls' = Book!Without(c) /\ UNCHANGED <<front, list>>
        /\ form' = [form EXCEPT !.submitting = @ /\ ~(c.owner = "form" /\ c.what # "delete")]
    BY DEF Book!Refused
  <1>3. PICK d : d = [c EXCEPT !.owner = "gone"]
    OBVIOUS
  <1>4. BookCall(d) /\ d.id = c.id /\ d.owner = "gone" /\ d.what = c.what
    <2>1. BookCall(c)
      BY <1>1 DEF BookFits
    <2> QED
      BY <1>3, <2>1, BookHanded
  <1>5. \/ calls' = calls \ {c}
        \/ calls' = (calls \ {c}) \cup {d} /\ c.state \in {"locked", "moving"}
    BY <1>2, <1>3 DEF Book!Without
  <1>6. BookSet(calls', front')
    <2>1. CASE calls' = calls \ {c}
      BY <1>1, <1>2, <2>1, BookFewer
    <2>2. CASE calls' = (calls \ {c}) \cup {d}
      <3>1. BookFits(d, front')
        BY <1>2, <1>4 DEF BookFits
      <3>2. Numbered(calls')
        <4>1. Numbered(calls)
          BY <1>1 DEF BookSet
        <4> QED
          BY <1>4, <2>2, <4>1, NumberedSwap
      <3> QED
        BY <1>1, <1>2, <2>2, <3>1, <3>2 DEF BookSet
    <2> QED
      BY <1>5, <2>1, <2>2
  <1>7. /\ form' \in BookForms /\ form'.phase = form.phase /\ form'.unread = form.unread
        /\ form'.submitting = (form.submitting /\ ~(c.owner = "form" /\ c.what # "delete"))
    <2>1. PICK b \in BOOLEAN : b = (form.submitting /\ ~(c.owner = "form" /\ c.what # "delete"))
      OBVIOUS
    <2>2. form' = [form EXCEPT !.submitting = b] /\ form \in BookForms
      BY <1>1, <1>2, <2>1 DEF BookPlace
    <2>3. form' \in BookForms /\ form'.submitting = b /\ form'.phase = form.phase /\ form'.unread = form.unread
      BY <2>2 DEF BookForms
    <2> QED
      BY <2>1, <2>3
  <1>8. BookPlace'
    BY <1>1, <1>2, <1>7 DEF BookPlace
  <1>9. BookSpin'
    BY <1>1, <1>2, <1>5, <1>7 DEF BookSpin, FormSpin, BookReading, BookSaving, BookFilling
  <1>10. BookSynced'
    <2>1. CASE crossed' = TRUE
      BY <2>1 DEF BookSynced
    <2>2. CASE crossed' = crossed /\ c.state = "refused"
      <3>1. calls' = calls \ {c}
        BY <1>5, <2>2
      <3>2. BookReading(calls) => BookReading(calls')
        BY <1>2, <3>1 DEF BookReading
      <3>3. BookChanged(calls) => BookChanged(calls')
        BY <2>2, <3>1 DEF BookChanged
      <3>4. OnBook
        BY <2>2 DEF OnBook
      <3> QED
        BY <1>1, <1>2, <3>1, <3>2, <3>3, <3>4, BookRest
    <2> QED
      BY <2>1, <2>2
  <1> QED
    BY <1>6, <1>8, <1>9, <1>10, BookMade

\* A request that the server goes on with.
LEMMA BookStepped ==
    ASSUME BookSet(calls, front), NEW c \in calls, NEW state \in {"locked", "moving", "done", "refused"},
           NEW reply, calls' = Book!Step(c, state, reply),
           c.what = "read" =>
              state \in {"done", "refused"} /\ reply.ids \subseteq Book!Ids /\ reply.default \subseteq reply.ids
    PROVE  \E d : /\ calls' = (calls \ {c}) \cup {d} /\ d.owner = c.owner /\ d.what = c.what
                  /\ d.state = state /\ d.reply = reply /\ BookSet(calls', front)
  <1>1. BookFits(c, front) /\ Numbered(calls)
    BY DEF BookSet
  <1>2. PICK d : d = [c EXCEPT !.state = state, !.reply = reply]
    OBVIOUS
  <1>3. /\ BookCall(d) /\ d.id = c.id /\ d.owner = c.owner /\ d.what = c.what
        /\ d.state = state /\ d.reply = reply
    BY <1>1, <1>2 DEF BookFits, BookCall
  <1>4. calls' = (calls \ {c}) \cup {d}
    BY <1>2 DEF Book!Step
  <1>5. BookFits(d, front)
    <2>1. c.what = "read" => d.state \notin {"locked", "moving"}
      BY <1>3
    <2> QED
      BY <1>1, <1>3, <2>1 DEF BookFits
  <1>6. Numbered(calls')
    BY <1>1, <1>3, <1>4, NumberedSwap
  <1>7. BookSet(calls', front)
    BY <1>4, <1>5, <1>6 DEF BookSet
  <1> QED
    BY <1>3, <1>4, <1>7

LEMMA BookHandledIs ==
    ASSUME NEW c, NEW ok \in BOOLEAN, NEW reply
    PROVE  \E state \in {"done", "refused"} :
              /\ state = (IF ok THEN "done" ELSE "refused")
              /\ Book!Handled(calls, c, ok, reply) = Book!Step(c, state, reply)
  BY DEF Book!Handled, Book!Step

\* The list is read.
LEMMA BookReadServed ==
    ASSUME BookKept, dflt \subseteq live, NEW c \in calls, Book!List(c), UNCHANGED <<front, list, form>>,
           crossed' = IF c.owner = "list" THEN calls # {c} ELSE crossed
    PROVE  BookKept'
  <1>1. BookPlace /\ BookSet(calls, front) /\ BookSpin /\ BookSynced /\ BookFits(c, front)
    BY DEF BookKept, BookSet
  <1>2. PICK r : r = Book!Reply(live, dflt, 0)
    OBVIOUS
  <1>3. r.ids = live /\ r.default = dflt
    BY <1>2 DEF Book!Reply
  <1>4. /\ c.what = "read" /\ c.state = "sent" /\ UNCHANGED <<live, dflt, top>>
        /\ calls' = Book!Handled(calls, c, TRUE, r)
    BY <1>2 DEF Book!List, Book!book
  <1>5. r.ids \subseteq Book!Ids /\ r.default \subseteq r.ids
    <2>1. top \in 0 .. MaxId /\ live \subseteq 1 .. top
      BY <1>1 DEF BookPlace
    <2> QED
      BY <1>3, <2>1, BuyerAppAssumption DEF Book!Ids
  <1>6. PICK d : /\ calls' = (calls \ {c}) \cup {d} /\ d.owner = c.owner /\ d.what = c.what
                 /\ d.state = "done" /\ d.reply = r /\ BookSet(calls', front)
    <2>1. PICK done : done = "done"
      OBVIOUS
    <2>2. calls' = Book!Step(c, done, r)
      BY <1>4, <2>1 DEF Book!Handled, Book!Step
    <2>3. done \in {"locked", "moving", "done", "refused"}
      BY <2>1
    <2> QED
      BY <1>1, <1>5, <2>1, <2>2, <2>3, BookStepped
  <1>7. crossed' \in BOOLEAN
    BY <1>1 DEF BookPlace
  <1>8. BookPlace'
    BY <1>1, <1>4, <1>7 DEF BookPlace
  <1>9. BookReading(calls) => BookReading(calls')
    BY <1>6 DEF BookReading
  <1>10. BookChanged(calls) => BookChanged(calls')
    BY <1>4, <1>6 DEF BookChanged
  <1>11. BookSpin'
    BY <1>1, <1>6, <1>9 DEF BookSpin, FormSpin, BookSaving, BookFilling
  <1>12. BookSynced'
    <2>1. CASE c.owner = "list"
      <3>1. BookReading(calls')
        BY <1>4, <1>6, <2>1 DEF BookReading
      <3>2. ~crossed' => calls' = {d}
        BY <1>6, <2>1
      <3>3. ~crossed' => BookAnswersAre(calls', live', dflt')
        BY <1>3, <1>4, <1>6, <3>2 DEF BookAnswersAre
      <3> QED
        BY <3>1, <3>3 DEF BookSynced, BookAnswersAre
    <2>2. CASE c.owner # "list"
      <3>1. crossed' = crossed /\ OnBook
        BY <1>4, <2>2 DEF OnBook
      <3>2. \A e \in calls' : e.owner = "list" /\ e.state = "done" => e \in calls
        BY <1>6, <2>2
      <3> QED
        BY <1>1, <1>9, <1>10, <3>1, <3>2, BookRest
    <2> QED
      BY <2>1, <2>2
  <1> QED
    BY <1>6, <1>8, <1>11, <1>12, BookMade

\* What a write makes of its request: an end, or a step on; a request that was
\* given up is forgotten when it ends.
WriteGoes(c) ==
    \/ \E state \in {"locked", "moving", "done", "refused"} : \E reply :
          /\ calls' = Book!Step(c, state, reply)
          /\ <<live, dflt, top>>' # <<live, dflt, top>> => state = "done"
    \/ calls' = calls \ {c} /\ c.owner = "gone"

Followed(c) ==
    /\ BookSet(calls', front) /\ (BookReading(calls) => BookReading(calls'))
    /\ BookSaving(calls) => BookSaving(calls')
    /\ BookFilling(calls) => BookFilling(calls')
    /\ BookChanged(calls) => BookChanged(calls')
    /\ \A e \in calls' : e.what = "read" => e \in calls
    /\ <<live, dflt, top>>' # <<live, dflt, top>> /\ c.owner = "list" => BookChanged(calls')

LEMMA BookWriteServed ==
    ASSUME BookKept, NEW c \in calls, c.what # "read", c.state \notin {"done", "refused"}, WriteGoes(c),
           live' \subseteq 1 .. top', top' \in 0 .. MaxId, UNCHANGED <<front, list, form>>,
           crossed' = (crossed \/ (<<live, dflt, top>>' # <<live, dflt, top>>
                                   /\ (Book!ReadServed \/ c.owner # "list")))
    PROVE  BookKept'
  <1>1. BookPlace /\ BookSet(calls, front) /\ BookSpin /\ BookSynced /\ BookFits(c, front)
    BY DEF BookKept, BookSet
  <1>2. BookPlace'
    <2>1. crossed' \in BOOLEAN
      BY <1>1 DEF BookPlace
    <2> QED
      BY <1>1, <2>1 DEF BookPlace
  <1>3. Followed(c)
    <2>1. ASSUME NEW state \in {"locked", "moving", "done", "refused"}, NEW reply,
                 calls' = Book!Step(c, state, reply),
                 <<live, dflt, top>>' # <<live, dflt, top>> => state = "done"
          PROVE  Followed(c)
      <3>1. PICK d : /\ calls' = (calls \ {c}) \cup {d} /\ d.owner = c.owner /\ d.what = c.what
                     /\ d.state = state /\ BookSet(calls', front)
        BY <1>1, <2>1, BookStepped
      <3>2. BookReading(calls) => BookReading(calls')
        BY <3>1 DEF BookReading
      <3>3. (BookSaving(calls) => BookSaving(calls')) /\ (BookFilling(calls) => BookFilling(calls'))
        BY <3>1 DEF BookSaving, BookFilling
      <3>4. BookChanged(calls) => BookChanged(calls')
        BY <3>1 DEF BookChanged
      <3>5. \A e \in calls' : e.what = "read" => e \in calls
        BY <3>1
      <3>6. <<live, dflt, top>>' # <<live, dflt, top>> /\ c.owner = "list" => BookChanged(calls')
        BY <2>1, <3>1 DEF BookChanged
      <3> QED
        BY <3>1, <3>2, <3>3, <3>4, <3>5, <3>6 DEF Followed
    <2>2. CASE calls' = calls \ {c} /\ c.owner = "gone"
      <3>1. BookSet(calls', front)
        BY <1>1, <2>2, BookFewer
      <3>2. BookReading(calls) => BookReading(calls')
        BY <2>2 DEF BookReading
      <3>3. (BookSaving(calls) => BookSaving(calls')) /\ (BookFilling(calls) => BookFilling(calls'))
        BY <2>2 DEF BookSaving, BookFilling
      <3>4. BookChanged(calls) => BookChanged(calls')
        BY <2>2 DEF BookChanged
      <3> QED
        BY <2>2, <3>1, <3>2, <3>3, <3>4 DEF Followed
    <2> QED
      BY <2>1, <2>2 DEF WriteGoes
  <1>4. BookSpin'
    BY <1>1, <1>3 DEF BookSpin, FormSpin, Followed
  <1>5. BookSynced'
    <2>1. CASE <<live, dflt, top>>' = <<live, dflt, top>>
      <3>1. crossed \in BOOLEAN
        BY <1>1 DEF BookPlace
      <3>2. UNCHANGED <<live, dflt, top, crossed>>
        BY <2>1, <3>1
      <3>3. ~crossed => BookAnswersAre(calls', live, dflt)
        BY <1>1, <1>3 DEF BookSynced, BookAnswersAre, Followed
      <3> QED
        BY <1>1, <1>3, <3>2, <3>3 DEF BookSynced, BookAnswersAre, Followed
    <2>2. CASE <<live, dflt, top>>' # <<live, dflt, top>>
      <3>1. ~crossed' => ~Book!ReadServed /\ c.owner = "list"
        BY <2>2
      <3>2. c.owner = "list" => BookChanged(calls')
        BY <1>3, <2>2 DEF Followed
      <3>3. ~crossed' => BookAnswersAre(calls', live', dflt')
        BY <1>3, <3>1 DEF BookAnswersAre, Book!ReadServed, Followed
      <3> QED
        BY <3>1, <3>2, <3>3 DEF BookSynced, BookAnswersAre
    <2> QED
      BY <2>1, <2>2
  <1> QED
    BY <1>2, <1>3, <1>4, <1>5, BookMade DEF Followed

LEMMA BookFinishes ==
    ASSUME NEW c, NEW ok \in BOOLEAN, Book!Finished(c, ok), ok \/ UNCHANGED <<live, dflt, top>>
    PROVE  WriteGoes(c)
  <1>1. CASE c.owner = "gone"
    BY <1>1 DEF Book!Finished, WriteGoes
  <1>2. CASE c.owner # "gone"
    <2>1. calls' = Book!Handled(calls, c, ok, None)
      BY <1>2 DEF Book!Finished
    <2>2. PICK state \in {"done", "refused"} : /\ state = (IF ok THEN "done" ELSE "refused")
                                               /\ calls' = Book!Step(c, state, None)
      BY <2>1, BookHandledIs
    <2>3. <<live, dflt, top>>' # <<live, dflt, top>> => state = "done"
      BY <2>2
    <2> QED
      BY <2>2, <2>3 DEF WriteGoes
  <1> QED
    BY <1>1, <1>2

LEMMA BookEnds == ASSUME NEW c, Book!Ends(c) PROVE WriteGoes(c)
  <1>1. PICK yes \in BOOLEAN : yes
    OBVIOUS
  <1>2. Book!Finished(c, yes)
    BY <1>1 DEF Book!Ends, Book!Finished, Book!Handled
  <1> QED
    BY <1>1, <1>2, BookFinishes

LEMMA BookRefuses ==
    ASSUME NEW c, Book!Refuse(c) PROVE WriteGoes(c) /\ UNCHANGED <<live, dflt, top>>
  <1>1. PICK no \in BOOLEAN : ~no
    OBVIOUS
  <1>2. Book!Finished(c, no) /\ UNCHANGED <<live, dflt, top>>
    BY <1>1 DEF Book!Refuse, Book!Finished, Book!Handled, Book!book
  <1> QED
    BY <1>2, BookFinishes

LEMMA BookGoesOn ==
    ASSUME NEW c, NEW state \in {"locked", "moving"}, NEW reply, calls' = Book!Step(c, state, reply),
           UNCHANGED <<live, dflt, top>>
    PROVE  WriteGoes(c)
  BY DEF WriteGoes

\* Every write keeps the ids of the book among those that were handed out.
LEMMA BookWrites ==
    ASSUME BookPlace, NEW c \in calls, c.what # "read", Book!Serve(c)
    PROVE  /\ WriteGoes(c) /\ c.state \notin {"done", "refused"}
           /\ live' \subseteq 1 .. top' /\ top' \in 0 .. MaxId
  <1>1. top \in 0 .. MaxId /\ live \subseteq 1 .. top /\ top \in Nat /\ MaxId \in Nat
    BY BuyerAppAssumption DEF BookPlace
  <1>2. CASE Book!CountByUserID(c)
    <2>1. CASE Book!Refuse(c)
      BY <1>1, <1>2, <2>1, BookRefuses DEF Book!CountByUserID
    <2>2. CASE calls' = Book!Step(c, "locked", Book!Number(Book!Cardinality(live))) /\ UNCHANGED <<live, dflt, top>>
      BY <1>1, <1>2, <2>2, BookGoesOn DEF Book!CountByUserID
    <2> QED
      BY <1>2, <2>1, <2>2 DEF Book!CountByUserID, Book!book
  <1>3. CASE Book!Create(c)
    <2>1. Book!Ends(c) /\ c.state = "locked" /\ top < MaxId /\ top' = top + 1 /\ live' = live \cup {top'}
      BY <1>3 DEF Book!Create
    <2> QED
      BY <1>1, <2>1, BookEnds
  <1>4. CASE Book!FindForUpdate(c)
    <2>1. CASE Book!Refuse(c)
      BY <1>1, <1>4, <2>1, BookRefuses DEF Book!FindForUpdate
    <2>2. CASE calls' = Book!Step(c, "locked", None) /\ UNCHANGED <<live, dflt, top>>
      BY <1>1, <1>4, <2>2, BookGoesOn DEF Book!FindForUpdate
    <2> QED
      BY <1>4, <2>1, <2>2 DEF Book!FindForUpdate, Book!book
  <1>5. CASE Book!Update(c) \/ Book!SetDefault(c)
    <2>1. Book!Ends(c) /\ c.state = "locked" /\ UNCHANGED <<live, top>>
      BY <1>5 DEF Book!Update, Book!SetDefault
    <2> QED
      BY <1>1, <2>1, BookEnds
  <1>6. CASE Book!Delete(c)
    <2>1. CASE c.arg.id \notin dflt
      <3>1. Book!Ends(c) /\ c.state = "locked" /\ live' \subseteq live /\ UNCHANGED top
        BY <1>6, <2>1 DEF Book!Delete
      <3> QED
        BY <1>1, <3>1, BookEnds
    <2>2. CASE c.arg.id \in dflt
      <3>1. /\ calls' = Book!Step(c, "moving", Book!Number(Book!FindLatest(live \ {c.arg.id})))
            /\ c.state = "locked" /\ UNCHANGED <<live, dflt, top>>
        BY <1>6, <2>2 DEF Book!Delete, Book!book
      <3> QED
        BY <1>1, <3>1, BookGoesOn
    <2> QED
      BY <2>1, <2>2
  <1>7. CASE Book!MoveDefault(c)
    <2>1. Book!Ends(c) /\ c.state = "moving" /\ live' \subseteq live /\ UNCHANGED top
      BY <1>7 DEF Book!MoveDefault
    <2> QED
      BY <1>1, <2>1, BookEnds
  <1>8. CASE Book!Deadlock(c)
    <2>1. Book!Refuse(c) /\ c.state \in {"locked", "moving"}
      BY <1>8 DEF Book!Deadlock
    <2> QED
      BY <1>1, <2>1, BookRefuses
  <1> QED
    BY <1>2, <1>3, <1>4, <1>5, <1>6, <1>7, <1>8 DEF Book!Serve, Book!List

LEMMA BookServedKept ==
    ASSUME BookKept, dflt \subseteq live, NEW c \in calls, Book!Served(c) PROVE BookKept'
  <1>1. /\ Book!Serve(c) /\ UNCHANGED <<front, list, form>>
        /\ crossed' = IF c.what = "read" /\ c.owner = "list" THEN calls # {c}
                      ELSE crossed \/ (<<live, dflt, top>>' # <<live, dflt, top>>
                                       /\ (Book!ReadServed \/ c.owner # "list"))
    BY DEF Book!Served, Book!book
  <1>2. BookPlace
    BY DEF BookKept
  <1>3. CASE c.what = "read"
    <2>0. c.state \notin {"locked", "moving"}
      BY <1>3 DEF BookKept, BookSet, BookFits
    <2>1. Book!List(c)
      BY <1>1, <1>3, <2>0 DEF Book!Serve, Book!CountByUserID, Book!Create, Book!FindForUpdate, Book!Update,
                        Book!SetDefault, Book!Delete, Book!MoveDefault, Book!Deadlock
    <2>2. UNCHANGED <<live, dflt, top>>
      BY <2>1 DEF Book!List, Book!book
    <2>3. crossed' = IF c.owner = "list" THEN calls # {c} ELSE crossed
      <3>1. crossed \in BOOLEAN
        BY <1>2 DEF BookPlace
      <3> QED
        BY <1>1, <1>3, <2>2, <3>1
    <2> QED
      BY <1>1, <2>1, <2>3, BookReadServed
  <1>4. CASE c.what # "read"
    BY <1>1, <1>2, <1>4, BookWrites, BookWriteServed
  <1> QED
    BY <1>3, <1>4

LEMMA BookStartsKept == Book!Init => BookKept
  <1> SUFFICES ASSUME Book!Init PROVE BookKept
    OBVIOUS
  <1>1. PICK n \in 0 .. (MaxId - 1) : top = n /\ live = 1 .. n
    BY DEF Book!Init
  <1>2. PICK pick \in BOOLEAN : list = Book!BlankList(pick)
    BY DEF Book!Init
  <1>3. front = "list" /\ form = Book!NoForm /\ crossed = FALSE
    BY DEF Book!Init
  <1>4. BookPlace
    <2>1. list \in BookLists /\ list.default \subseteq list.ids /\ form \in BookForms
      BY <1>2, <1>3, BookBlank
    <2>2. n \in Int /\ n >= 0 /\ n <= MaxId
      BY <1>1, BuyerAppAssumption
    <2>3. top \in 0 .. MaxId /\ live \subseteq 1 .. top
      BY <1>1, <2>2, BuyerAppAssumption
    <2> QED
      BY <1>3, <2>1, <2>3 DEF BookPlace
  <1>5. BookSet({}, front)
    BY FS_EmptySet DEF BookSet, Numbered
  <1>6. calls = Book!Ask({}, "list", "read", Book!NoArg)
    BY DEF Book!Init, Book!Ask
  <1>7. BookSet(calls, front) /\ BookReading(calls) /\ \A c \in calls : c.state # "done"
    BY <1>5, <1>6, BookLoads
  <1>8. BookSpin
    BY <1>3, <1>7, BookBlank DEF BookSpin, FormSpin
  <1>9. BookSynced
    BY <1>7 DEF BookSynced, BookAnswersAre
  <1> QED
    BY <1>4, <1>7, <1>8, <1>9 DEF BookKept

LEMMA BookStepsKept == ASSUME BookKept, BookInv, front \in BookFronts, Book!Next PROVE BookKept'
  <1>1. CASE Book!Tap
    <2>1. OnBook
      BY <1>1 DEF Book!Tap, Book!book, OnBook
    <2> QED
      BY <1>1, <2>1, BookTapsKept
  <1>2. ASSUME NEW c \in calls, Book!Handle(c) PROVE BookKept'
    <2>1. CASE Book!Answer(c)
      <3>1. OnBook
        BY <2>1 DEF Book!Answer, Book!book, OnBook
      <3>2. CASE c.state = "refused" /\ Book!Refused(c)
        BY <3>1, <3>2, BookRefusedKept DEF OnBook
      <3> QED
        BY <2>1, <3>1, <3>2, BookAnswersKept DEF Book!Answer
    <2>2. CASE Book!Lose(c)
      <3>1. UNCHANGED <<live, dflt, top>> /\ crossed' = (crossed \/ c.what # "read")
        BY <2>2 DEF Book!Lose, Book!book
      <3>2. crossed \in BOOLEAN
        BY DEF BookKept, BookPlace
      <3>3. CASE Book!Unshown(c) \/ Book!FormUnfilled(c)
        <4>1. OnBook
          BY <3>1, <3>2, <3>3 DEF OnBook, Book!Unshown, Book!FormUnfilled
        <4> QED
          BY <3>3, <4>1, BookAnswersKept
      <3>4. CASE Book!Refused(c)
        <4>1. crossed' = TRUE
          BY <3>1, <3>4 DEF Book!Refused
        <4> QED
          BY <3>1, <3>4, <4>1, BookRefusedKept
      <3> QED
        BY <2>2, <3>3, <3>4 DEF Book!Lose
    <2>3. CASE Book!Served(c)
      <3>1. dflt \subseteq live
        BY DEF BookInv, HasDefault
      <3> QED
        BY <2>3, <3>1, BookServedKept
    <2> QED
      BY <1>2, <2>1, <2>2, <2>3 DEF Book!Handle
  <1> QED
    BY <1>1, <1>2, BookTypeKept, BookLeavesKept DEF Book!Next

LEMMA BookSame == ASSUME BookKept, UNCHANGED <<live, dflt, top, front, list, form, calls, crossed>> PROVE BookKept'
  BY DEF BookKept, BookPlace, BookSet, BookFits, BookCall, BookSpin, FormSpin, BookReading, BookSaving,
         BookFilling, BookSynced, BookAnswersAre, BookChanged

LEMMA BookHolds ==
    ASSUME BookKept PROVE Book!TypeOK /\ Book!SpinnerHasCall /\ Book!ShowsServer
  <1>1. Book!TypeOK
    BY DEF BookKept, BookPlace, BookLists, BookForms, BookSet, Numbered, Book!TypeOK
  <1>2. Book!SpinnerHasCall
    BY DEF BookKept, BookSpin, FormSpin, BookReading, BookSaving, BookFilling, Book!SpinnerHasCall
  <1>3. Book!ShowsServer
    BY DEF BookKept, BookSynced, BookReading, BookChanged, Book!ShowsServer
  <1> QED
    BY <1>1, <1>2, <1>3

LEMMA SizeInAccount == ASSUME NEW S PROVE Account!Cardinality(S) = Cardinality(S)
  BY DEF Account!Cardinality, Cardinality

LEMMA AccountNewId == ASSUME NEW cs, Numbered(cs) PROVE New(cs, Account!NewId(cs))
  <1>1. Cardinality(cs) \in Nat
    BY FS_CardinalityType DEF Numbered
  <1>2. \E i \in 1 .. (Cardinality(cs) + 1) : \A c \in cs : c.id # i
    BY <1>1, FreeNumber DEF Numbered
  <1>3. \E i \in 1 .. (Account!Cardinality(cs) + 1) : i \notin {c.id : c \in cs}
    BY <1>2, SizeInAccount
  <1>4. /\ Account!NewId(cs) \in 1 .. (Account!Cardinality(cs) + 1)
        /\ Account!NewId(cs) \notin {c.id : c \in cs}
    BY <1>3 DEF Account!NewId
  <1> QED
    BY <1>1, <1>4, SizeInAccount DEF New

\* A number of its own for every member of a finite set.
LEMMA FreeNumbers ==
    ASSUME NEW cs, Numbered(cs), NEW K, IsFiniteSet(K),
           NEW free, free = (1 .. (Cardinality(cs) + Cardinality(K))) \ {c.id : c \in cs}
    PROVE  \E f \in [K -> free] : \A k, l \in K : f[k] = f[l] => k = l
  <1>1. Cardinality(cs) \in Nat /\ Cardinality(K) \in Nat
    BY FS_CardinalityType DEF Numbered
  <1>2. PICK n \in Nat : n = Cardinality(cs)
    BY <1>1
  <1>3. PICK m \in Nat : m = Cardinality(K)
    BY <1>1
  <1>4. PICK taken : taken = {c.id : c \in cs}
    OBVIOUS
  <1>5. IsFiniteSet(taken) /\ Cardinality(taken) <= n /\ Cardinality(taken) \in Nat
    <2>1. PICK g : g = [c \in cs |-> c.id]
      OBVIOUS
    <2>2. g \in Surjection(cs, taken)
      BY <1>4, <2>1 DEF Surjection
    <2> QED
      BY <1>2, <2>2, FS_Surjection, FS_CardinalityType DEF Numbered
  <1>6. IsFiniteSet(1 .. (n + m)) /\ Cardinality(1 .. (n + m)) = n + m
    <2>2. PICK s \in Nat : s = n + m
      OBVIOUS
    <2>3. IsFiniteSet(1 .. s) /\ Cardinality(1 .. s) = s
      BY FS_Interval
    <2> QED
      BY <2>2, <2>3
  <1>7. free = (1 .. (n + m)) \ taken
    BY <1>2, <1>3, <1>4
  <1>8. IsFiniteSet(free) /\ Cardinality(free) \in Nat /\ m <= Cardinality(free)
    <2>1. PICK all : all = 1 .. (n + m)
      OBVIOUS
    <2>2. /\ IsFiniteSet(all \ taken) /\ Cardinality(all \ taken) = Cardinality(all) - Cardinality(all \cap taken)
      BY <1>6, <2>1, FS_Difference
    <2>3. Cardinality(all \cap taken) <= Cardinality(taken) /\ Cardinality(all \cap taken) \in Nat
      <3>1. all \cap taken \in SUBSET taken
        OBVIOUS
      <3> QED
        BY <1>5, <3>1, FS_Subset, FS_CardinalityType
    <2>4. Cardinality(all \ taken) \in Nat
      BY <2>2, FS_CardinalityType
    <2>5. Cardinality(all) = n + m
      BY <1>6, <2>1
    <2>6. (n + m) - Cardinality(all \cap taken) >= m
      BY <1>5, <2>3
    <2>7. free = all \ taken
      BY <1>7, <2>1
    <2>8. Cardinality(free) = (n + m) - Cardinality(all \cap taken)
      <3>1. Cardinality(free) = Cardinality(all) - Cardinality(all \cap taken)
        BY <2>2, <2>7, Zenon
      <3> QED
        BY <2>5, <3>1, Zenon
    <2>9. Cardinality(free) >= m
      BY <2>6, <2>8, Zenon
    <2> QED
      BY <2>2, <2>4, <2>7, <2>9
  <1>9. PICK g : g \in Bijection(1 .. m, K)
    BY <1>3, FS_CardinalityType DEF ExistsBijection
  <1>10. PICK h : h \in Bijection(1 .. Cardinality(free), free)
    BY <1>8, FS_CardinalityType DEF ExistsBijection
  <1>11. /\ g \in [1 .. m -> K] /\ \A k \in K : \E i \in 1 .. m : g[i] = k
    BY <1>9 DEF Bijection, Injection, Surjection, IsInjective
  <1>12. /\ h \in [1 .. Cardinality(free) -> free]
         /\ \A i, j \in 1 .. Cardinality(free) : h[i] = h[j] => i = j
    BY <1>10 DEF Bijection, Injection, Surjection, IsInjective
  <1>13. PICK at : at = [k \in K |-> CHOOSE i \in 1 .. m : g[i] = k]
    OBVIOUS
  <1>14. \A k \in K : at[k] \in 1 .. m /\ g[at[k]] = k
    BY <1>11, <1>13
  <1>15. \A k \in K : at[k] \in 1 .. Cardinality(free)
    BY <1>8, <1>14
  <1>16. PICK f : f = [k \in K |-> h[at[k]]]
    OBVIOUS
  <1>17. f \in [K -> free]
    BY <1>12, <1>15, <1>16
  <1>18. \A k, l \in K : f[k] = f[l] => k = l
    BY <1>12, <1>14, <1>15, <1>16
  <1> QED
    BY <1>17, <1>18

-----------------------------------------------------------------------------
(* The buyer's numbers.                                                    *)

Numbers == 0 .. Cardinality(Orders)
AccountCall(c) ==
    /\ c \in [id : Nat, owner : {"profile", "notices"}, what : Counts \cup {"list"}, arg : 0 .. 2,
              state : {"sent", "done", "refused"}, reply : {c.reply}]
    /\ c.owner = "profile" => c.what \in Counts /\ c.arg \in Account!Visits
    /\ c.owner = "notices" => c.what = "list"
    /\ c.owner = "profile" /\ c.state = "done" => c.reply \in Numbers
Visit(cs, n, k) == \E c \in cs : c.owner = "profile" /\ c.arg = n /\ c.what = k
AccountSet(cs) ==
    /\ Numbered(cs) /\ \A c \in cs : AccountCall(c)
    /\ \A c, d \in cs : c.owner = "profile" /\ d.owner = "profile" /\ c.arg = d.arg /\ c.what = d.what => c = d

\* What came of visit n so far: the numbers it lacks are those it has requests for.
Full(g, cs, n) == /\ g \in [Counts -> Numbers \cup {None}]
                  /\ \A k \in Counts : g[k] = None <=> Visit(cs, n, k)
Gathered(got, cs) ==
    \A n \in Account!Visits : Full(got[n], cs, n) \/ (got[n] = None /\ ~Account!InUse(n, cs))

Gots == [Account!Visits -> {None} \cup [Counts -> Numbers \cup {None}]]
AccountPlace ==
    /\ front \in {"profile", "notices", "away"} /\ crossed \in BOOLEAN
    /\ page \in [shown : [Counts -> Numbers], got : Gots]
    /\ list \in [loading : BOOLEAN, failed : BOOLEAN]
    /\ list.loading => \E c \in calls : c.owner = "notices"

Tally == [k \in Counts |-> Account!Count(k)]
Counted(cs) == \A c \in cs : c.owner = "profile" =>
                   /\ c.state = "done" => c.reply = Account!Count(c.what)
                   /\ c.state = "refused" => c.what = "unread"
Collected(got, cs) ==
    \A n \in Account!Visits : Account!InUse(n, cs) =>
        \A k \in Counts : got[n][k] \in {None, Account!Count(k)}
AccountSynced ==
    ~crossed => /\ Counted(calls) /\ Collected(page.got, calls)
                /\ front = "profile" => page.shown = Tally \/ \E c \in calls : c.owner = "profile"
AccountInv == AccountPlace /\ AccountSet(calls) /\ Gathered(page.got, calls) /\ AccountSynced

LEMMA CountIsNumber == ASSUME NEW k \in Counts PROVE Account!Count(k) \in Numbers
  <1>1. IsFiniteSet(Orders)
    BY BuyerAppAssumption
  <1>2. ASSUME NEW S \in SUBSET Orders PROVE Account!Cardinality(S) \in Numbers
    <2>1. Cardinality(S) \in Nat /\ Cardinality(S) <= Cardinality(Orders) /\ Cardinality(Orders) \in Nat
      BY <1>1, <1>2, FS_Subset, FS_CardinalityType
    <2> QED
      BY <2>1, SizeInAccount DEF Numbers
  <1>3. Cardinality(Orders) \in Nat
    BY <1>1, FS_CardinalityType
  <1>4. k \in {"unread", "delivered", "completed", "total"}
    BY BuyerAppAssumption
  <1>5. CASE k = "total"
    <2>1. Account!Visible \in SUBSET Orders
      BY DEF Account!Visible
    <2> QED
      BY <1>2, <1>5, <2>1 DEF Account!Count
  <1>6. CASE k = "delivered"
    <2>1. {o \in Account!Visible : status[o] = 3} \in SUBSET Orders
      BY DEF Account!Visible
    <2> QED
      BY <1>2, <1>6, <2>1 DEF Account!Count
  <1>7. CASE k = "completed"
    <2>1. {o \in Account!Visible : status[o] = 4} \in SUBSET Orders
      BY DEF Account!Visible
    <2> QED
      BY <1>2, <1>7, <2>1 DEF Account!Count
  <1>8. CASE k = "unread"
    BY <1>3, <1>8 DEF Account!Count, Numbers
  <1> QED
    BY <1>4, <1>5, <1>6, <1>7, <1>8

LEMMA NoneIsNoNumber == None \notin Numbers
  <1>1. Cardinality(Orders) \in Nat
    BY BuyerAppAssumption, FS_CardinalityType
  <1> QED
    BY <1>1, BuyerAppAssumption DEF Numbers

\* One request for every number, all of the same visit.
LEMMA AskedAll ==
    ASSUME NEW cs, AccountSet(cs), NEW n \in Account!Visits, ~Account!InUse(n, cs),
           NEW ds, ds = Account!AskAll(cs, n)
    PROVE  /\ AccountSet(ds) /\ cs \subseteq ds
           /\ \A k \in Counts : Visit(ds, n, k)
           /\ \A c \in ds : c \in cs \/ (c.owner = "profile" /\ c.arg = n /\ c.state = "sent")
  <1>1. PICK free : free = (1 .. (Cardinality(cs) + Cardinality(Counts))) \ {c.id : c \in cs}
    OBVIOUS
  <1>2. IsFiniteSet(Counts)
    <2>1. PICK s0, s1, s2 : s0 = {"unread"} /\ s1 = s0 \cup {"delivered"} /\ s2 = s1 \cup {"completed"}
      OBVIOUS
    <2>2. IsFiniteSet(s0)
      BY <2>1, FS_Singleton
    <2>3. IsFiniteSet(s1)
      BY <2>1, <2>2, FS_AddElement
    <2>4. IsFiniteSet(s2)
      BY <2>1, <2>3, FS_AddElement
    <2>5. IsFiniteSet(s2 \cup {"total"})
      BY <2>4, FS_AddElement
    <2>6. Counts \subseteq s2 \cup {"total"}
      BY <2>1, BuyerAppAssumption
    <2> QED
      BY <2>5, <2>6, FS_Subset
  <1>3. PICK ids : ids = CHOOSE f \in [Counts -> free] : \A k, l \in Counts : f[k] = f[l] => k = l
    OBVIOUS
  <1>4. ids \in [Counts -> free] /\ \A k, l \in Counts : ids[k] = ids[l] => k = l
    <2>1. \E f \in [Counts -> free] : \A k, l \in Counts : f[k] = f[l] => k = l
      <3>1. Numbered(cs)
        BY DEF AccountSet
      <3> QED
        BY <1>1, <1>2, <3>1, FreeNumbers
    <2> QED
      BY <1>3, <2>1
  <1>5. PICK new : new = [k \in Counts |-> [id |-> ids[k], owner |-> "profile", what |-> k, arg |-> n,
                                            state |-> "sent", reply |-> None]]
    OBVIOUS
  <1>6. \A k \in Counts : /\ ids[k] \in Nat /\ \A c \in cs : c.id # ids[k]
    <2>1. Cardinality(cs) \in Nat /\ Cardinality(Counts) \in Nat
      BY <1>2, FS_CardinalityType DEF AccountSet, Numbered
    <2> QED
      BY <1>1, <1>4, <2>1
  <1>7. n \in 0 .. 2
    BY DEF Account!Visits
  <1>8. ASSUME NEW k \in Counts
        PROVE  /\ AccountCall(new[k]) /\ new[k].id = ids[k] /\ new[k].owner = "profile" /\ new[k].arg = n
               /\ new[k].what = k /\ new[k].state = "sent"
    BY <1>5, <1>6, <1>7 DEF AccountCall
  <1>9. PICK added : added = {new[k] : k \in Counts}
    OBVIOUS
  <1>10. ds = cs \cup added
    <2>1. ds = cs \cup {[Account!Request(cs, "profile", k, n) EXCEPT !.id = ids[k]] : k \in Counts}
      BY <1>1, <1>3, SizeInAccount DEF Account!AskAll
    <2>2. \A k \in Counts : [Account!Request(cs, "profile", k, n) EXCEPT !.id = ids[k]] = new[k]
      BY <1>5 DEF Account!Request
    <2>3. {[Account!Request(cs, "profile", k, n) EXCEPT !.id = ids[k]] : k \in Counts} = added
      BY <1>9, <2>2, Zenon
    <2> QED
      BY <2>1, <2>3
  <1>11. /\ \A c \in added : \E k \in Counts : c = new[k]
         /\ \A k \in Counts : new[k] \in added
    BY <1>9
  <1>12. \A c \in added : AccountCall(c) /\ c.owner = "profile" /\ c.arg = n /\ c.state = "sent" /\ c.what \in Counts
    <2> TAKE c \in added
    <2>1. PICK k \in Counts : c = new[k]
      BY <1>11
    <2> QED
      BY <1>8, <2>1
  <1>14. Numbered(ds)
    <2>1. IsFiniteSet(added)
      <3>1. PICK g : g = [k \in Counts |-> new[k]]
        OBVIOUS
      <3>2. g \in Surjection(Counts, added)
        BY <1>9, <3>1 DEF Surjection
      <3> QED
        BY <1>2, <3>2, FS_Surjection
    <2>2. IsFiniteSet(cs) /\ (\A c \in cs : c.id \in Nat) /\ \A c, d \in cs : c.id = d.id => c = d
      BY DEF AccountSet, Numbered
    <2>3. IsFiniteSet(ds)
      <3>1. IsFiniteSet(cs)
        BY <2>2
      <3>2. IsFiniteSet(cs \cup added)
        BY <2>1, <3>1, FS_Union
      <3> QED
        BY <1>10, <3>2
    <2>4. ASSUME NEW c \in added PROVE \E k \in Counts : c = new[k] /\ c.id = ids[k]
      <3>1. PICK k \in Counts : c = new[k]
        BY <1>11
      <3> QED
        BY <1>8, <3>1
    <2>5. \A c \in added : c.id \in Nat /\ \A d \in cs : d.id # c.id
      BY <1>6, <2>4
    <2>6. \A c, d \in added : c.id = d.id => c = d
      BY <1>4, <2>4
    <2> QED
      BY <1>10, <2>2, <2>3, <2>5, <2>6 DEF Numbered
  <1>15. \A k \in Counts : Visit(ds, n, k)
    <2> TAKE k \in Counts
    <2>1. new[k] \in ds /\ new[k].owner = "profile" /\ new[k].arg = n /\ new[k].what = k
      BY <1>8, <1>10, <1>11
    <2> QED
      BY <2>1 DEF Visit
  <1>13. ASSUME NEW c \in ds, NEW d \in ds, c.owner = "profile", d.owner = "profile",
                c.arg = d.arg, c.what = d.what
         PROVE  c = d
    <2>1. CASE c \in cs /\ d \in cs
      BY <1>13, <2>1 DEF AccountSet
    <2>2. CASE c \notin cs /\ d \notin cs
      <3>1. PICK k \in Counts : c = new[k]
        BY <1>10, <1>11, <2>2
      <3>2. PICK l \in Counts : d = new[l]
        BY <1>10, <1>11, <2>2
      <3> QED
        <4>1. new[k].what = k /\ new[l].what = l
          BY <1>8
        <4> QED
          BY <1>13, <3>1, <3>2, <4>1
    <2>3. CASE c \in cs /\ d \notin cs
      BY <1>10, <1>12, <1>13, <2>3 DEF Account!InUse
    <2>4. CASE c \notin cs /\ d \in cs
      BY <1>10, <1>12, <1>13, <2>4 DEF Account!InUse
    <2> QED
      BY <2>1, <2>2, <2>3, <2>4
  <1>16. \A c \in ds : c \in cs \/ (AccountCall(c) /\ c.owner = "profile" /\ c.arg = n /\ c.state = "sent")
    BY <1>10, <1>12
  <1>17. AccountSet(ds)
    BY <1>13, <1>14, <1>16 DEF AccountSet
  <1> QED
    BY <1>10, <1>15, <1>16, <1>17

LEMMA AccountNotices ==
    ASSUME NEW cs, AccountSet(cs), NEW ds, ds = cs \cup {Account!Request(cs, "notices", "list", 0)}
    PROVE  /\ AccountSet(ds) /\ cs \subseteq ds /\ (\E c \in ds : c.owner = "notices")
           /\ \A c \in ds : c.owner = "profile" => c \in cs
  <1>1. PICK c : c = Account!Request(cs, "notices", "list", 0)
    OBVIOUS
  <1>2. New(cs, Account!NewId(cs))
    BY AccountNewId DEF AccountSet
  <1>3. AccountCall(c) /\ c.owner = "notices" /\ New(cs, c.id)
    BY <1>1, <1>2 DEF Account!Request, AccountCall, New
  <1>4. ds = cs \cup {c}
    BY <1>1
  <1>5. Numbered(ds)
    BY <1>3, <1>4, NumberedMore DEF AccountSet
  <1>6. AccountSet(ds)
    BY <1>3, <1>4, <1>5 DEF AccountSet
  <1> QED
    BY <1>3, <1>4, <1>6

LEMMA AccountFewer ==
    ASSUME NEW cs, AccountSet(cs), NEW ds, ds \subseteq cs PROVE AccountSet(ds)
  <1>1. Numbered(ds)
    BY NumberedFewer DEF AccountSet
  <1> QED
    BY <1>1 DEF AccountSet

\* Two sets of requests with the same numbers under way.
SameVisits(cs, ds) ==
    \A n \in Account!Visits : /\ Account!InUse(n, cs) <=> Account!InUse(n, ds)
                              /\ \A k \in Counts : Visit(cs, n, k) <=> Visit(ds, n, k)

LEMMA SameGathered ==
    ASSUME NEW cs, NEW ds, SameVisits(cs, ds), NEW got, Gathered(got, cs)
    PROVE  Gathered(got, ds) /\ (Collected(got, cs) => Collected(got, ds))
  <1>1. \A n \in Account!Visits : \A g : Full(g, cs, n) => Full(g, ds, n)
    BY DEF SameVisits, Full
  <1>2. Gathered(got, ds)
    BY <1>1 DEF SameVisits, Gathered
  <1>3. Collected(got, cs) => Collected(got, ds)
    BY DEF SameVisits, Collected
  <1> QED
    BY <1>2, <1>3

LEMMA SameProfiles ==
    ASSUME NEW cs, NEW ds, \A c \in cs : c.owner = "profile" => c \in ds,
           \A c \in ds : c.owner = "profile" => c \in cs
    PROVE  SameVisits(cs, ds)
  BY DEF SameVisits, Visit, Account!InUse

LEMMA SameTally ==
    ASSUME UNCHANGED <<status, hidden>>
    PROVE  Tally' = Tally /\ \A k \in Counts : Account!Count(k)' = Account!Count(k)
  BY DEF Tally, Account!Count, Account!Visible

LEMMA AccountStarts == Account!Init => AccountInv
  <1> SUFFICES ASSUME Account!Init PROVE AccountInv
    OBVIOUS
  <1>1. /\ front = "away" /\ page = Account!NewProfile /\ list = Account!Blank /\ calls = {}
        /\ crossed = FALSE
    BY DEF Account!Init
  <1>2. 0 \in Numbers
    BY BuyerAppAssumption, FS_CardinalityType DEF Numbers
  <1>3. AccountPlace
    BY <1>1, <1>2 DEF AccountPlace, Account!NewProfile, Account!Blank, Gots
  <1>4. AccountSet(calls)
    BY <1>1, FS_EmptySet DEF AccountSet, Numbered
  <1>5. Gathered(page.got, calls)
    BY <1>1 DEF Gathered, Account!NewProfile, Account!InUse
  <1>6. AccountSynced
    BY <1>1 DEF AccountSynced, Counted, Collected, Account!InUse
  <1> QED
    BY <1>3, <1>4, <1>5, <1>6 DEF AccountInv

\* A step without an answer to the page: its visits go on as they are.
LEMMA AccountRests ==
    ASSUME AccountInv, UNCHANGED <<status, hidden, page, crossed>>, AccountPlace', AccountSet(calls'),
           \A c \in calls : c.owner = "profile" => c \in calls',
           \A c \in calls' : c.owner = "profile" => c \in calls,
           front' = "profile" => front = "profile"
    PROVE  AccountInv'
  <1>1. SameVisits(calls, calls')
    BY SameProfiles
  <1>2. Gathered(page.got, calls') /\ (Collected(page.got, calls) => Collected(page.got, calls'))
    BY <1>1, SameGathered DEF AccountInv
  <1>3. Gathered(page.got, calls)' /\ AccountSet(calls)'
    BY <1>2 DEF Gathered, Full, Visit, Account!InUse, AccountSet, AccountCall, Numbers
  <1>4. AccountSynced'
    <2>1. Tally' = Tally /\ \A k \in Counts : Account!Count(k)' = Account!Count(k)
      BY SameTally
    <2>2. ASSUME ~crossed' PROVE Counted(calls)' /\ Collected(page.got, calls)'
      <3>1. Counted(calls) /\ Collected(page.got, calls')
        BY <1>2, <2>2 DEF AccountInv, AccountSynced
      <3>2. \A c \in calls' : c.owner = "profile" => c.what \in Counts
        BY DEF AccountSet, AccountCall
      <3>3. Counted(calls)'
        BY <2>1, <3>1, <3>2 DEF Counted
      <3>4. Collected(page.got, calls)'
        BY <2>1, <3>1 DEF Collected, Account!InUse
      <3> QED
        BY <3>3, <3>4
    <2>3. ~crossed' /\ front' = "profile" => page'.shown = Tally' \/ \E c \in calls' : c.owner = "profile"
      BY <2>1 DEF AccountInv, AccountSynced
    <2> QED
      BY <2>2, <2>3 DEF AccountSynced
  <1> QED
    BY <1>3, <1>4 DEF AccountInv

LEMMA AccountGoes ==
    ASSUME AccountInv, Account!ToNotices \/ Account!ToAway \/ Account!Retry,
           UNCHANGED <<status, hidden>>,
           crossed' = IF front # "profile" /\ front' = "profile"
                      THEN \E c \in calls : c.owner = "profile" ELSE crossed
    PROVE  AccountInv'
  <1>1. AccountPlace /\ AccountSet(calls)
    BY DEF AccountInv
  <1>2. /\ front' \in {"profile", "notices", "away"} /\ (front' = "profile" => front = "profile")
        /\ UNCHANGED <<page, crossed>>
    BY <1>1 DEF Account!ToNotices, Account!ToAway, Account!Retry, Account!NoticesOffers, AccountPlace
  <1>3. /\ AccountSet(calls') /\ calls \subseteq calls' /\ (\A c \in calls' : c.owner = "profile" => c \in calls)
        /\ list' \in [loading : BOOLEAN, failed : BOOLEAN]
        /\ list'.loading => \E c \in calls' : c.owner = "notices"
    <2>1. CASE Account!Load(calls)
      <3>1. list' = [loading |-> TRUE, failed |-> FALSE]
        BY <2>1 DEF Account!Load
      <3> QED
        BY <1>1, <2>1, <3>1, AccountNotices DEF Account!Load
    <2>2. CASE Account!ToAway
      BY <1>1, <2>2 DEF Account!ToAway, AccountPlace
    <2> QED
      BY <2>1, <2>2 DEF Account!ToNotices, Account!Retry
  <1>4. AccountPlace'
    BY <1>1, <1>2, <1>3 DEF AccountPlace, Gots, Numbers
  <1> QED
    BY <1>2, <1>3, <1>4, AccountRests

\* Back on the page, everything is asked for again.
LEMMA AccountBack ==
    ASSUME AccountInv, Account!Back, UNCHANGED <<status, hidden>>,
           crossed' = IF front # "profile" /\ front' = "profile"
                      THEN \E c \in calls : c.owner = "profile" ELSE crossed
    PROVE  AccountInv'
  <1>1. AccountPlace /\ AccountSet(calls) /\ Gathered(page.got, calls)
    BY DEF AccountInv
  <1>2. PICK cs : cs = {c \in calls : c.owner = "profile"}
    OBVIOUS
  <1>3. /\ front # "profile" /\ front' = "profile" /\ list' = Account!Blank /\ Account!LoadSummary(cs)
    BY <1>2 DEF Account!Back
  <1>4. PICK n \in Account!Visits :
            /\ ~Account!InUse(n, cs) /\ calls' = Account!AskAll(cs, n)
            /\ page' = [page EXCEPT !.got[n] = [k \in Counts |-> None]]
    BY <1>3 DEF Account!LoadSummary
  <1>5. crossed' = (cs # {})
    BY <1>2, <1>3
  <1>6. AccountSet(cs) /\ Gathered(page.got, cs)
    <2>1. SameVisits(calls, cs)
      BY <1>2, SameProfiles
    <2> QED
      BY <1>1, <1>2, <2>1, AccountFewer, SameGathered
  <1>7. /\ AccountSet(calls') /\ cs \subseteq calls'
        /\ \A k \in Counts : Visit(calls', n, k)
        /\ \A c \in calls' : c \in cs \/ (c.owner = "profile" /\ c.arg = n /\ c.state = "sent")
    BY <1>4, <1>6, AskedAll
  <1>8. PICK blank : blank = [k \in Counts |-> None]
    OBVIOUS
  <1>9. /\ page'.got = [page.got EXCEPT ![n] = blank] /\ page'.shown = page.shown
        /\ page' \in [shown : [Counts -> Numbers], got : Gots]
    BY <1>1, <1>4, <1>8 DEF AccountPlace, Gots
  <1>10. page'.got[n] = blank /\ \A m \in Account!Visits : m # n => page'.got[m] = page.got[m]
    BY <1>1, <1>9 DEF AccountPlace, Gots
  <1>11. AccountPlace'
    BY <1>1, <1>3, <1>5, <1>9 DEF AccountPlace, Account!Blank, Gots, Numbers
  <1>12. Gathered(page'.got, calls')
    <2> SUFFICES ASSUME NEW m \in Account!Visits
                 PROVE  \/ Full(page'.got[m], calls', m)
                        \/ page'.got[m] = None /\ ~Account!InUse(m, calls')
      BY DEF Gathered
    <2>1. CASE m = n
      BY <1>7, <1>8, <1>10, <2>1 DEF Full
    <2>2. CASE m # n
      <3>1. Full(page.got[m], cs, m) \/ (page.got[m] = None /\ ~Account!InUse(m, cs))
        BY <1>6 DEF Gathered
      <3>2. \A k \in Counts : Visit(calls', m, k) <=> Visit(cs, m, k)
        BY <1>7, <2>2 DEF Visit
      <3>3. Account!InUse(m, calls') <=> Account!InUse(m, cs)
        BY <1>7, <2>2 DEF Account!InUse
      <3> QED
        BY <1>10, <2>2, <3>1, <3>2, <3>3 DEF Full
    <2> QED
      BY <2>1, <2>2
  <1>13. Gathered(page.got, calls)' /\ AccountSet(calls)'
    BY <1>7, <1>12 DEF Gathered, Full, Visit, Account!InUse, AccountSet, AccountCall, Numbers
  <1>14. AccountSynced'
    <2> SUFFICES ASSUME ~crossed'
                 PROVE  /\ Counted(calls)' /\ Collected(page.got, calls)'
                        /\ page'.shown = Tally' \/ \E c \in calls' : c.owner = "profile"
      BY DEF AccountSynced
    <2>1. \A c \in calls' : c.owner = "profile" /\ c.arg = n /\ c.state = "sent"
      BY <1>5, <1>7
    <2>2. Counted(calls)'
      BY <2>1 DEF Counted
    <2>3. Collected(page.got, calls)'
      <3> SUFFICES ASSUME NEW m \in Account!Visits, Account!InUse(m, calls'), NEW k \in Counts
                   PROVE  page'.got[m][k] = None
        BY DEF Collected, Account!InUse
      <3>1. m = n
        BY <2>1 DEF Account!InUse
      <3> QED
        BY <1>8, <1>10, <3>1
    <2>4. CASE Counts = {}
      <3>1. page'.shown \in [Counts -> Numbers]
        BY <1>9
      <3>2. page'.shown = Tally'
        BY <2>4, <3>1 DEF Tally
      <3> QED
        BY <2>2, <2>3, <3>2
    <2>5. ASSUME NEW k \in Counts PROVE \E c \in calls' : c.owner = "profile"
      BY <1>7, <2>5 DEF Visit
    <2> QED
      BY <2>2, <2>3, <2>4, <2>5
  <1> QED
    BY <1>11, <1>13, <1>14 DEF AccountInv

\* An answer to the page: the last one of a visit shows all its numbers.
LEMMA AccountSummed ==
    ASSUME AccountInv, NEW c \in calls, Account!SummaryAnswer(c), UNCHANGED <<status, hidden, crossed>>
    PROVE  AccountInv'
  <1>1. AccountPlace /\ AccountSet(calls) /\ Gathered(page.got, calls) /\ AccountCall(c)
    BY DEF AccountInv, AccountSet
  <1>2. /\ c.owner = "profile" /\ c.state \in {"done", "refused"} /\ calls' = calls \ {c}
        /\ UNCHANGED <<front, list>>
    BY DEF Account!SummaryAnswer
  <1>3. PICK n, k : n = c.arg /\ k = c.what
    OBVIOUS
  <1>4. n \in Account!Visits /\ k \in Counts
    BY <1>1, <1>2, <1>3 DEF AccountCall
  <1>5. PICK v : v = Account!Value(c)
    OBVIOUS
  <1>6. v \in Numbers /\ v # None
    <2>1. 0 \in Numbers
      BY BuyerAppAssumption, FS_CardinalityType DEF Numbers
    <2> QED
      BY <1>1, <1>2, <1>5, <2>1, NoneIsNoNumber DEF Account!Value, AccountCall
  <1>7. PICK old : old = page.got[n]
    OBVIOUS
  <1>8. Full(old, calls, n)
    BY <1>1, <1>2, <1>3, <1>4, <1>7 DEF Gathered, Account!InUse
  <1>9. PICK g : g = [old EXCEPT ![k] = v]
    OBVIOUS
  <1>10. /\ g \in [Counts -> Numbers \cup {None}] /\ g[k] = v
         /\ \A l \in Counts : l # k => g[l] = old[l]
    BY <1>4, <1>6, <1>8, <1>9 DEF Full
  <1>11. AccountSet(calls')
    BY <1>1, <1>2, AccountFewer
  <1>12. ~Visit(calls', n, k)
    BY <1>1, <1>2, <1>3 DEF Visit, AccountSet
  <1>13. \A l \in Counts : l # k => (Visit(calls', n, l) <=> Visit(calls, n, l))
    BY <1>2, <1>3 DEF Visit
  <1>14. Full(g, calls', n)
    BY <1>6, <1>8, <1>10, <1>12, <1>13 DEF Full
  <1>15. \A m \in Account!Visits : m # n => /\ (\A l \in Counts : (Visit(calls', m, l) <=> Visit(calls, m, l)))
                                            /\ (Account!InUse(m, calls') <=> Account!InUse(m, calls))
    BY <1>2, <1>3 DEF Visit, Account!InUse
  <1>16. ~crossed => /\ Counted(calls) /\ Collected(page.got, calls)
                     /\ \A l \in Counts : g[l] \in {None, Account!Count(l)}
    <2> SUFFICES ASSUME ~crossed
                 PROVE  /\ Counted(calls) /\ Collected(page.got, calls)
                        /\ \A l \in Counts : g[l] \in {None, Account!Count(l)}
      OBVIOUS
    <2>1. Counted(calls) /\ Collected(page.got, calls)
      BY DEF AccountInv, AccountSynced
    <2>2. \A l \in Counts : old[l] \in {None, Account!Count(l)}
      BY <1>2, <1>3, <1>4, <1>7, <2>1 DEF Collected, Account!InUse
    <2>3. v = Account!Count(k)
      BY <1>2, <1>3, <1>5, <2>1 DEF Counted, Account!Value, Account!Count
    <2> QED
      BY <1>10, <2>1, <2>2, <2>3
  <1>17. Tally' = Tally /\ \A l \in Counts : Account!Count(l)' = Account!Count(l)
    BY SameTally
  <1>18. ~crossed => Counted(calls)'
    <2>1. \A d \in calls' : d \in calls /\ (d.owner = "profile" => d.what \in Counts)
      BY <1>1, <1>2 DEF AccountSet, AccountCall
    <2> QED
      BY <1>16, <1>17, <2>1 DEF Counted
  <1>19. page' = IF None \in {g[l] : l \in Counts}
                 THEN [page EXCEPT !.got[n] = g] ELSE [page EXCEPT !.got[n] = None, !.shown = g]
    BY <1>3, <1>5, <1>7, <1>9 DEF Account!SummaryAnswer
  <1>20. ASSUME page' \in [shown : [Counts -> Numbers], got : Gots] PROVE AccountPlace'
    <2>1. list.loading => \E d \in calls' : d.owner = "notices"
      BY <1>1, <1>2 DEF AccountPlace
    <2> QED
      BY <1>1, <1>2, <1>20, <2>1 DEF AccountPlace, Gots, Numbers
  <1>21. CASE \E l \in Counts : g[l] = None
    <2>1. page' = [page EXCEPT !.got[n] = g]
      BY <1>19, <1>21
    <2>2. /\ page'.got = [page.got EXCEPT ![n] = g] /\ page'.shown = page.shown
          /\ page' \in [shown : [Counts -> Numbers], got : Gots]
      BY <1>1, <1>10, <2>1 DEF AccountPlace, Gots
    <2>3. page'.got[n] = g /\ \A m \in Account!Visits : m # n => page'.got[m] = page.got[m]
      BY <1>1, <1>4, <2>2 DEF AccountPlace, Gots
    <2>4. Gathered(page'.got, calls')
      <3> SUFFICES ASSUME NEW m \in Account!Visits
                   PROVE  Full(page'.got[m], calls', m) \/ (page'.got[m] = None /\ ~Account!InUse(m, calls'))
        BY DEF Gathered
      <3>1. CASE m = n
        BY <1>14, <2>3, <3>1
      <3>2. CASE m # n
        <4>1. page'.got[m] = page.got[m]
          BY <2>3, <3>2
        <4>2. Full(page.got[m], calls, m) \/ (page.got[m] = None /\ ~Account!InUse(m, calls))
          BY <1>1 DEF Gathered
        <4>3. Full(page.got[m], calls, m) => Full(page.got[m], calls', m)
          BY <1>15, <3>2 DEF Full
        <4>4. Account!InUse(m, calls') <=> Account!InUse(m, calls)
          BY <1>15, <3>2
        <4> QED
          BY <4>1, <4>2, <4>3, <4>4
      <3> QED
        BY <3>1, <3>2
    <2>5. Gathered(page.got, calls)' /\ AccountSet(calls)'
      BY <1>11, <2>4 DEF Gathered, Full, Visit, Account!InUse, AccountSet, AccountCall, Numbers
    <2>6. AccountSynced'
      <3> SUFFICES ASSUME ~crossed PROVE /\ Counted(calls)' /\ Collected(page.got, calls)'
                                         /\ \E d \in calls' : d.owner = "profile"
        BY DEF AccountSynced
      <3>1. \E d \in calls' : d.owner = "profile"
        BY <1>14, <1>21 DEF Full, Visit
      <3>2. \A m \in Account!Visits : Account!InUse(m, calls') =>
               \A l \in Counts : page'.got[m][l] \in {None, Account!Count(l)}
        <4> SUFFICES ASSUME NEW m \in Account!Visits, Account!InUse(m, calls'), NEW l \in Counts
                     PROVE  page'.got[m][l] \in {None, Account!Count(l)}
          OBVIOUS
        <4>1. CASE m = n
          BY <1>16, <2>3, <4>1
        <4>2. CASE m # n
          <5>1. page'.got[m] = page.got[m] /\ Account!InUse(m, calls)
            BY <1>15, <2>3, <4>2
          <5>2. page.got[m][l] \in {None, Account!Count(l)}
            BY <1>16, <5>1 DEF Collected
          <5> QED
            BY <5>1, <5>2
        <4> QED
          BY <4>1, <4>2
      <3>3. Collected(page.got, calls)'
        BY <1>17, <3>2 DEF Collected, Account!InUse
      <3> QED
        BY <1>18, <3>1, <3>3
    <2> QED
      BY <1>20, <2>2, <2>5, <2>6 DEF AccountInv
  <1>22. CASE ~\E l \in Counts : g[l] = None
    <2>1. page' = [page EXCEPT !.got[n] = None, !.shown = g]
      BY <1>19, <1>22
    <2>2. g \in [Counts -> Numbers]
      BY <1>10, <1>22
    <2>3. /\ page'.got = [page.got EXCEPT ![n] = None] /\ page'.shown = g
          /\ page' \in [shown : [Counts -> Numbers], got : Gots]
      BY <1>1, <2>1, <2>2 DEF AccountPlace, Gots
    <2>4. page'.got[n] = None /\ \A m \in Account!Visits : m # n => page'.got[m] = page.got[m]
      BY <1>1, <1>4, <2>3 DEF AccountPlace, Gots
    <2>5. ~Account!InUse(n, calls')
      <3>1. \A d \in calls' : d.owner = "profile" => d.what \in Counts
        BY <1>11 DEF AccountSet, AccountCall
      <3>2. \A l \in Counts : ~Visit(calls', n, l)
        BY <1>14, <1>22 DEF Full
      <3> QED
        BY <3>1, <3>2 DEF Visit, Account!InUse
    <2>6. Gathered(page'.got, calls')
      <3> SUFFICES ASSUME NEW m \in Account!Visits
                   PROVE  Full(page'.got[m], calls', m) \/ (page'.got[m] = None /\ ~Account!InUse(m, calls'))
        BY DEF Gathered
      <3>1. CASE m = n
        BY <2>4, <2>5, <3>1
      <3>2. CASE m # n
        <4>1. page'.got[m] = page.got[m]
          BY <2>4, <3>2
        <4>2. Full(page.got[m], calls, m) \/ (page.got[m] = None /\ ~Account!InUse(m, calls))
          BY <1>1 DEF Gathered
        <4>3. Full(page.got[m], calls, m) => Full(page.got[m], calls', m)
          BY <1>15, <3>2 DEF Full
        <4>4. Account!InUse(m, calls') <=> Account!InUse(m, calls)
          BY <1>15, <3>2
        <4> QED
          BY <4>1, <4>2, <4>3, <4>4
      <3> QED
        BY <3>1, <3>2
    <2>7. Gathered(page.got, calls)' /\ AccountSet(calls)'
      BY <1>11, <2>6 DEF Gathered, Full, Visit, Account!InUse, AccountSet, AccountCall, Numbers
    <2>8. AccountSynced'
      <3> SUFFICES ASSUME ~crossed
                   PROVE  Counted(calls)' /\ Collected(page.got, calls)' /\ page'.shown = Tally'
        BY DEF AccountSynced
      <3>1. \A m \in Account!Visits : Account!InUse(m, calls') =>
               \A l \in Counts : page'.got[m][l] \in {None, Account!Count(l)}
        <4> SUFFICES ASSUME NEW m \in Account!Visits, Account!InUse(m, calls'), NEW l \in Counts
                     PROVE  page'.got[m][l] \in {None, Account!Count(l)}
          OBVIOUS
        <4>1. m # n
          BY <2>5
        <4>2. page'.got[m] = page.got[m] /\ Account!InUse(m, calls)
          BY <1>15, <2>4, <4>1
        <4>3. page.got[m][l] \in {None, Account!Count(l)}
          BY <1>16, <4>2 DEF Collected
        <4> QED
          BY <4>2, <4>3
      <3>2. Collected(page.got, calls)'
        BY <1>17, <3>1 DEF Collected, Account!InUse
      <3>3. \A l \in Counts : g[l] = Account!Count(l)
        BY <1>16, <1>22
      <3>4. g = Tally
        BY <2>2, <3>3 DEF Tally
      <3> QED
        BY <1>17, <1>18, <2>3, <3>2, <3>4
    <2> QED
      BY <1>20, <2>3, <2>7, <2>8 DEF AccountInv
  <1> QED
    BY <1>21, <1>22

LEMMA AccountNoticed ==
    ASSUME AccountInv, NEW c \in calls, Account!NoticesAnswer(c), UNCHANGED <<status, hidden, crossed>>
    PROVE  AccountInv'
  <1>1. /\ c.owner = "notices" /\ calls' = calls \ {c} /\ UNCHANGED <<front, page>>
        /\ list' = [loading |-> FALSE, failed |-> TRUE]
    BY DEF Account!NoticesAnswer
  <1>2. AccountPlace'
    BY <1>1 DEF AccountInv, AccountPlace, Gots, Numbers
  <1>3. AccountSet(calls')
    BY <1>1, AccountFewer DEF AccountInv
  <1> QED
    BY <1>1, <1>2, <1>3, AccountRests

\* The server, or a loss, answers.
LEMMA AccountHandled ==
    ASSUME AccountInv, NEW c \in calls, NEW ok \in BOOLEAN, NEW reply,
           calls' = Account!Handled(calls, c, ok, reply),
           ok => c.owner = "profile" /\ reply = Account!Count(c.what),
           UNCHANGED <<status, hidden, front, page, list>>, crossed' \in BOOLEAN,
           ~crossed' => ~crossed /\ (~ok /\ c.owner = "profile" => c.what = "unread")
    PROVE  AccountInv'
  <1>1. AccountPlace /\ AccountSet(calls) /\ Gathered(page.got, calls) /\ AccountCall(c)
    BY DEF AccountInv, AccountSet
  <1>2. PICK d : d = [c EXCEPT !.state = IF ok THEN "done" ELSE "refused", !.reply = reply]
    OBVIOUS
  <1>3. PICK state \in {"done", "refused"} : state = IF ok THEN "done" ELSE "refused"
    OBVIOUS
  <1>4. /\ d.id = c.id /\ d.owner = c.owner /\ d.what = c.what /\ d.arg = c.arg
        /\ d.state = state /\ d.reply = reply
        /\ d \in [id : Nat, owner : {"profile", "notices"}, what : Counts \cup {"list"}, arg : 0 .. 2,
                  state : {"sent", "done", "refused"}, reply : {d.reply}]
    BY <1>1, <1>2, <1>3 DEF AccountCall
  <1>5. AccountCall(d)
    <2>1. ok => reply \in Numbers
      BY <1>1, CountIsNumber DEF AccountCall
    <2> QED
      BY <1>1, <1>3, <1>4, <2>1 DEF AccountCall
  <1>6. calls' = (calls \ {c}) \cup {d}
    BY <1>2 DEF Account!Handled
  <1>7. AccountSet(calls')
    <2>1. Numbered(calls) /\ d.id = c.id
      BY <1>1, <1>4 DEF AccountSet
    <2>2. Numbered(calls')
      BY <1>6, <2>1, NumberedSwap
    <2>3. \A e \in calls' : AccountCall(e)
      BY <1>1, <1>5, <1>6 DEF AccountSet
    <2>4. \A a, b \in calls' : a.owner = "profile" /\ b.owner = "profile" /\ a.arg = b.arg /\ a.what = b.what => a = b
      <3>1. \A a, b \in calls : a.owner = "profile" /\ b.owner = "profile" /\ a.arg = b.arg /\ a.what = b.what => a = b
        BY <1>1 DEF AccountSet
      <3> QED
        BY <1>4, <1>6, <3>1
    <2> QED
      BY <2>2, <2>3, <2>4 DEF AccountSet
  <1>8. SameVisits(calls, calls')
    BY <1>4, <1>6 DEF SameVisits, Visit, Account!InUse
  <1>9. Gathered(page.got, calls') /\ (Collected(page.got, calls) => Collected(page.got, calls'))
    BY <1>1, <1>8, SameGathered
  <1>10. Gathered(page.got, calls)' /\ AccountSet(calls)'
    BY <1>7, <1>9 DEF Gathered, Full, Visit, Account!InUse, AccountSet, AccountCall, Numbers
  <1>11. AccountPlace'
    <2>1. list.loading => \E e \in calls' : e.owner = "notices"
      BY <1>1, <1>4, <1>6 DEF AccountPlace
    <2> QED
      BY <1>1, <2>1 DEF AccountPlace, Gots, Numbers
  <1>12. Tally' = Tally /\ \A k \in Counts : Account!Count(k)' = Account!Count(k)
    BY SameTally
  <1>13. AccountSynced'
    <2> SUFFICES ASSUME ~crossed'
                 PROVE  /\ Counted(calls)' /\ Collected(page.got, calls)'
                        /\ front' = "profile" => page'.shown = Tally' \/ \E e \in calls' : e.owner = "profile"
      BY DEF AccountSynced
    <2>1. /\ Counted(calls) /\ Collected(page.got, calls')
          /\ front = "profile" => page.shown = Tally \/ \E e \in calls : e.owner = "profile"
      BY <1>9 DEF AccountInv, AccountSynced
    <2>2. \A e \in calls' : e.owner = "profile" => e.what \in Counts
      BY <1>7 DEF AccountSet, AccountCall
    <2>3. \A e \in calls' : e.owner = "profile" =>
             (e.state = "done" => e.reply = Account!Count(e.what)) /\ (e.state = "refused" => e.what = "unread")
      BY <1>3, <1>4, <1>6, <2>1 DEF Counted
    <2>4. Counted(calls)'
      BY <1>12, <2>2, <2>3 DEF Counted
    <2>5. Collected(page.got, calls)'
      BY <1>12, <2>1 DEF Collected, Account!InUse
    <2>6. (\E e \in calls : e.owner = "profile") => \E e \in calls' : e.owner = "profile"
      BY <1>4, <1>6
    <2> QED
      BY <1>12, <2>1, <2>4, <2>5, <2>6
  <1> QED
    BY <1>10, <1>11, <1>13 DEF AccountInv

LEMMA AccountHandles == ASSUME AccountInv, NEW c \in calls, Account!Handle(c) PROVE AccountInv'
  <1>1. AccountCall(c) /\ crossed \in BOOLEAN
    BY DEF AccountInv, AccountSet, AccountPlace
  <1>2. PICK no \in BOOLEAN : ~no
    OBVIOUS
  <1>3. PICK yes \in BOOLEAN : yes
    OBVIOUS
  <1>4. CASE Account!Serve(c) /\ UNCHANGED crossed
    <2>1. UNCHANGED <<status, hidden, front, page, list>>
      BY <1>4 DEF Account!Serve, Account!server, Account!screens
    <2>2. CASE c.what \in {"unread", "list"}
      <3>1. calls' = Account!Handled(calls, c, no, None)
        BY <1>2, <1>4, <2>2 DEF Account!Serve, Account!Handled
      <3>3. "list" \notin Counts
        BY BuyerAppAssumption
      <3>4. c.owner = "profile" => c.what = "unread"
        BY <1>1, <2>2, <3>3 DEF AccountCall
      <3> QED
        BY <1>1, <1>2, <1>4, <2>1, <3>1, <3>4, AccountHandled
    <2>3. CASE c.what \notin {"unread", "list"}
      <3>1. calls' = Account!Handled(calls, c, yes, Account!Count(c.what))
        BY <1>3, <1>4, <2>3 DEF Account!Serve, Account!Handled
      <3>2. c.owner = "profile"
        BY <1>1, <2>3 DEF AccountCall
      <3>3. PICK r : r = Account!Count(c.what)
        OBVIOUS
      <3> QED
        BY <1>1, <1>3, <1>4, <2>1, <3>1, <3>2, <3>3, AccountHandled
    <2> QED
      BY <2>2, <2>3
  <1>5. CASE /\ calls' = Account!Handled(calls, c, FALSE, None)
             /\ crossed' = (crossed \/ c.owner = "profile")
             /\ UNCHANGED <<status, hidden, front, page, list>>
    <2>1. calls' = Account!Handled(calls, c, no, None)
      BY <1>2, <1>5 DEF Account!Handled
    <2>2. crossed' \in BOOLEAN /\ (~crossed' => ~crossed /\ c.owner # "profile")
      BY <1>1, <1>5
    <2> QED
      BY <1>2, <1>5, <2>1, <2>2, AccountHandled
  <1>6. CASE Account!Answer(c) /\ UNCHANGED <<status, hidden, crossed>>
    BY <1>6, AccountSummed, AccountNoticed DEF Account!Answer
  <1> QED
    BY <1>4, <1>5, <1>6 DEF Account!Handle, Account!server, Account!screens

\* No step of the account leaves the page with a number it does not wait for.
LEMMA AccountSteps == ASSUME AccountInv, Account!Next PROVE AccountInv'
  <1>1. CASE /\ Account!Go \/ Account!Retry
             /\ UNCHANGED <<status, hidden>>
             /\ crossed' = IF front # "profile" /\ front' = "profile"
                           THEN \E c \in calls : c.owner = "profile" ELSE crossed
    <2>1. Account!Back \/ Account!ToNotices \/ Account!ToAway \/ Account!Retry
      BY <1>1 DEF Account!Go, Account!HeroGo, Account!QuickGo, Account!MenuGo
    <2> QED
      BY <1>1, <2>1, AccountGoes, AccountBack
  <1>2. ASSUME NEW o \in Orders, Account!Advance(o), crossed' = TRUE PROVE AccountInv'
    <2>1. UNCHANGED <<front, page, list, calls>>
      BY <1>2 DEF Account!Advance, Account!screens
    <2>2. AccountPlace'
      BY <1>2, <2>1 DEF AccountInv, AccountPlace, Gots, Numbers
    <2>3. AccountSet(calls)' /\ Gathered(page.got, calls)'
      BY <2>1 DEF AccountInv, Gathered, Full, Visit, Account!InUse, AccountSet, AccountCall, Numbers
    <2> QED
      BY <1>2, <2>2, <2>3 DEF AccountInv, AccountSynced
  <1> QED
    BY <1>1, <1>2, AccountHandles DEF Account!Next, Account!server

LEMMA AccountSame ==
    ASSUME AccountInv, UNCHANGED <<status, hidden, front, page, list, calls, crossed>> PROVE AccountInv'
  <1>1. AccountPlace' /\ AccountSet(calls')
    BY DEF AccountInv, AccountPlace, AccountSet, Gots, Numbers
  <1> QED
    BY <1>1, AccountRests

LEMMA AccountHolds ==
    ASSUME AccountInv PROVE Account!TypeOK /\ Account!SpinnerHasCall /\ Account!ShowsServer
  <1>1. Account!TypeOK
    BY SizeInAccount DEF AccountInv, AccountPlace, AccountSet, Numbered, Numbers, Account!TypeOK
  <1>2. Account!SpinnerHasCall
    <2>1. list.loading => \E c \in calls : c.owner = "notices"
      BY DEF AccountInv, AccountPlace
    <2>2. ASSUME NEW n \in Account!Visits, page.got[n] # None
          PROVE  {k \in Counts : page.got[n][k] = None}
                     = {c.what : c \in {d \in calls : d.owner = "profile" /\ d.arg = n}}
      <3>1. Full(page.got[n], calls, n)
        BY <2>2 DEF AccountInv, Gathered
      <3>2. \A c \in calls : c.owner = "profile" => c.what \in Counts
        BY DEF AccountInv, AccountSet, AccountCall
      <3> QED
        BY <3>1, <3>2 DEF Full, Visit
    <2> QED
      BY <2>1, <2>2 DEF Account!SpinnerHasCall
  <1>3. Account!ShowsServer
    BY DEF AccountInv, AccountSynced, Tally, Account!ShowsServer
  <1> QED
    BY <1>1, <1>2, <1>3

LEMMA SizeInCheckout == ASSUME NEW S PROVE Checkout!Cardinality(S) = Cardinality(S)
  BY DEF Checkout!Cardinality, Cardinality

LEMMA CheckoutNewId == ASSUME NEW cs, Numbered(cs) PROVE New(cs, Checkout!NewId(cs))
  <1>1. Cardinality(cs) \in Nat
    BY FS_CardinalityType DEF Numbered
  <1>2. \E i \in 1 .. (Cardinality(cs) + 1) : \A c \in cs : c.id # i
    BY <1>1, FreeNumber DEF Numbered
  <1>3. \E i \in 1 .. (Checkout!Cardinality(cs) + 1) : i \notin {c.id : c \in cs}
    BY <1>2, SizeInCheckout
  <1>4. /\ Checkout!NewId(cs) \in 1 .. (Checkout!Cardinality(cs) + 1)
        /\ Checkout!NewId(cs) \notin {c.id : c \in cs}
    BY <1>3 DEF Checkout!NewId
  <1> QED
    BY <1>1, <1>4, SizeInCheckout DEF New

-----------------------------------------------------------------------------
(* The checkout again: what it waits for is under way.                     *)

SettledArgs == [ids : SUBSET Settled, address : Addresses \cup {None}, other : Others \cup {None}]
CheckoutCalls == [id : Nat, owner : {"checkout", "gone"}, what : {"addresses", "confirm", "submit"},
                  arg : SettledArgs, state : {"sent", "done", "refused"},
                  reply : (SUBSET Addresses) \cup {None}]
Drafts == [ids : SUBSET Settled, address : Addresses \cup {None}]
CheckoutScreens == [preview : SettledArgs \cup {None}, other : Others, loadingAddr : BOOLEAN,
                    loadingPreview : BOOLEAN, failed : BOOLEAN, submitting : BOOLEAN]

Asks(cs, what) == \E c \in cs : c.what = what /\ c.owner = "checkout"
\* What o waits for is in cs.
Waits(o, cs) == /\ o.loadingAddr => Asks(cs, "addresses")
                /\ o.loadingPreview => Asks(cs, "confirm")
                /\ o.submitting => Asks(cs, "submit")
CheckoutSet(cs) == /\ Numbered(cs) /\ cs \subseteq CheckoutCalls
                   /\ \A c \in cs : /\ c.what = "addresses" /\ c.state = "done" => c.reply \in SUBSET Addresses
                                    /\ c.what # "submit" => c.owner = "checkout"

CheckoutKept ==
    /\ rows \subseteq Settled /\ ordered \subseteq Settled \ rows /\ book \subseteq Addresses
    /\ draft \in Drafts /\ out \in CheckoutScreens
    /\ CheckoutSet(calls) /\ Cardinality(calls) <= MaxCalls
    /\ open => Waits(out, calls)

LEMMA CheckoutRequest ==
    ASSUME NEW cs, CheckoutSet(cs), NEW what \in {"addresses", "confirm", "submit"}, NEW arg \in SettledArgs,
           NEW c, c = Checkout!Request(cs, "checkout", what, arg), NEW ds, ds = cs \cup {c}
    PROVE  /\ CheckoutSet(ds) /\ c.what = what /\ c.owner = "checkout"
           /\ Cardinality(ds) = Cardinality(cs) + 1 /\ Cardinality(cs) \in Nat
  <1> PICK i : i = Checkout!NewId(cs)
    OBVIOUS
  <1>1. New(cs, i)
    BY CheckoutNewId DEF CheckoutSet
  <1>2. c = [id |-> i, owner |-> "checkout", what |-> what, arg |-> arg, state |-> "sent", reply |-> None]
    BY DEF Checkout!Request
  <1>3. /\ c \in CheckoutCalls /\ c.id = i /\ c.what = what /\ c.owner = "checkout" /\ c.state = "sent"
    BY <1>1, <1>2 DEF CheckoutCalls, New
  <1>4. Numbered(ds) /\ Cardinality(ds) = Cardinality(cs) + 1 /\ Cardinality(cs) \in Nat
    <2>1. Numbered(cs) /\ New(cs, c.id)
      BY <1>1, <1>3 DEF CheckoutSet
    <2>2. Cardinality(cs) \in Nat
      BY <2>1, FS_CardinalityType DEF Numbered
    <2> QED
      BY <2>1, <2>2, NumberedMore
  <1> QED
    BY <1>3, <1>4 DEF CheckoutSet

LEMMA CheckoutFewer ==
    ASSUME NEW cs, CheckoutSet(cs), NEW ds, ds \subseteq cs PROVE CheckoutSet(ds)
  BY NumberedFewer DEF CheckoutSet

\* What is asked for again.
LEMMA PreviewingWaits ==
    ASSUME NEW d \in Drafts, NEW o \in CheckoutScreens, NEW cs, CheckoutSet(cs), Waits(o, cs),
           Checkout!Previewing(d, o, cs)
    PROVE  /\ out' \in CheckoutScreens /\ CheckoutSet(calls') /\ Waits(out', calls')
           /\ Cardinality(calls') <= Cardinality(cs) + 1 /\ Cardinality(cs) \in Nat
           /\ d.ids = {} => calls' = cs
  <1>0. Cardinality(cs) \in Nat
    BY FS_CardinalityType DEF CheckoutSet, Numbered
  <1>1. CASE d.address = None \/ d.ids = {}
    <2>1. out' = [o EXCEPT !.preview = None] /\ calls' = cs
      BY <1>1 DEF Checkout!Previewing
    <2>2. out' \in CheckoutScreens /\ Waits(out', cs)
      BY <2>1 DEF CheckoutScreens, Waits
    <2> QED
      BY <1>0, <2>1, <2>2
  <1>2. CASE ~(d.address = None \/ d.ids = {})
    <2>1. PICK arg : arg = Checkout!Args(d, o.other)
      OBVIOUS
    <2>2. arg \in SettledArgs
      BY <2>1 DEF Drafts, CheckoutScreens, SettledArgs, Checkout!Args
    <2>3. PICK new : new = Checkout!Request(cs, "checkout", "confirm", arg)
      OBVIOUS
    <2>4. out' = [o EXCEPT !.loadingPreview = TRUE, !.failed = FALSE] /\ calls' = cs \cup {new}
      BY <1>2, <2>1, <2>3 DEF Checkout!Previewing
    <2>5. /\ CheckoutSet(calls') /\ new.what = "confirm" /\ new.owner = "checkout"
          /\ Cardinality(calls') = Cardinality(cs) + 1
      BY <2>2, <2>3, <2>4, CheckoutRequest
    <2>6. /\ out' \in CheckoutScreens /\ out'.loadingAddr = o.loadingAddr
          /\ out'.submitting = o.submitting
      BY <2>4 DEF CheckoutScreens
    <2>7. Waits(out', calls')
      BY <2>4, <2>5, <2>6 DEF Waits, Asks
    <2> QED
      BY <1>0, <1>2, <2>5, <2>6, <2>7
  <1> QED
    BY <1>1, <1>2

LEMMA CheckoutTapsWait ==
    ASSUME CheckoutKept, Checkout!MayAct,
           \/ \E k \in Others : Checkout!Choose(k)
           \/ \E S \in SUBSET Addresses, a \in Addresses \cup {None} : Checkout!PickAddress(S, a)
           \/ Checkout!RetryPreview \/ Checkout!submit
    PROVE  CheckoutKept'
  <1>0. Cardinality(calls) \in Nat /\ Cardinality(calls) + 1 <= MaxCalls
    <2>1. Cardinality(calls) \in Nat
      BY FS_CardinalityType DEF CheckoutKept, CheckoutSet, Numbered
    <2> QED
      BY <2>1, SizeInCheckout, BuyerAppAssumption DEF Checkout!MayAct
  <1>1. ASSUME open, open' = open, UNCHANGED <<rows, ordered>>, book' \subseteq book, draft' \in Drafts,
               NEW o \in CheckoutScreens, Waits(o, calls), Checkout!Previewing(draft', o, calls)
        PROVE  CheckoutKept'
    <2> PICK d : d = draft'
      OBVIOUS
    <2>1. /\ out' \in CheckoutScreens /\ CheckoutSet(calls') /\ Waits(out', calls')
          /\ Cardinality(calls') <= Cardinality(calls) + 1
      BY <1>1, PreviewingWaits DEF CheckoutKept
    <2>2. Cardinality(calls') \in Nat
      BY <2>1, FS_CardinalityType DEF CheckoutSet, Numbered
    <2>3. Cardinality(calls') <= MaxCalls
      BY <1>0, <2>1, <2>2, BuyerAppAssumption
    <2> QED
      BY <1>1, <2>1, <2>3 DEF CheckoutKept
  <1>2. ASSUME NEW k \in Others, Checkout!Choose(k) PROVE CheckoutKept'
    <2>1. PICK o : o = [out EXCEPT !.other = k]
      OBVIOUS
    <2>2. /\ open /\ open' = open /\ UNCHANGED <<rows, ordered, book, draft>>
          /\ Checkout!Previewing(draft, o, calls)
      BY <1>2, <2>1 DEF Checkout!Choose, Checkout!Offers, Checkout!server
    <2>3. o \in CheckoutScreens /\ Waits(o, calls)
      BY <2>1, <2>2 DEF CheckoutKept, CheckoutScreens, Waits
    <2> QED
      BY <1>1, <2>2, <2>3 DEF CheckoutKept
  <1>3. CASE Checkout!RetryPreview
    <2>1. /\ open /\ open' = open /\ UNCHANGED <<rows, ordered, book, draft>>
          /\ Checkout!Previewing(draft, out, calls)
      BY <1>3 DEF Checkout!RetryPreview, Checkout!Offers, Checkout!server
    <2> QED
      BY <1>1, <2>1 DEF CheckoutKept
  <1>4. ASSUME NEW S \in SUBSET Addresses, NEW a \in Addresses \cup {None}, Checkout!PickAddress(S, a)
        PROVE  CheckoutKept'
    <2>1. /\ open /\ open' = open /\ UNCHANGED <<rows, ordered>> /\ book' \subseteq book
          /\ draft' = [draft EXCEPT !.address = a]
      BY <1>4 DEF Checkout!PickAddress, Checkout!Offers
    <2>2. draft' \in Drafts
      BY <2>1 DEF CheckoutKept, Drafts
    <2>3. CASE draft' = draft
      <3>1. UNCHANGED <<out, calls>>
        BY <1>4, <2>3 DEF Checkout!PickAddress
      <3> QED
        BY <2>1, <2>2, <3>1 DEF CheckoutKept, CheckoutSet, Numbered, Waits, Asks
    <2>4. CASE draft' # draft
      <3>1. Checkout!Previewing(draft', out, calls)
        BY <1>4, <2>4 DEF Checkout!PickAddress
      <3> QED
        BY <1>1, <2>1, <2>2, <3>1 DEF CheckoutKept
    <2> QED
      BY <2>3, <2>4
  <1>5. CASE Checkout!submit
    <2>1. PICK arg : arg = Checkout!Args(draft, out.other)
      OBVIOUS
    <2>2. arg \in SettledArgs
      BY <2>1 DEF CheckoutKept, Drafts, CheckoutScreens, SettledArgs, Checkout!Args
    <2>3. PICK new : new = Checkout!Request(calls, "checkout", "submit", arg)
      OBVIOUS
    <2>4. /\ out' = [out EXCEPT !.submitting = TRUE] /\ calls' = calls \cup {new}
          /\ UNCHANGED <<rows, ordered, book, draft, open>>
      BY <1>5, <2>1, <2>3 DEF Checkout!submit, Checkout!server
    <2>5. /\ CheckoutSet(calls') /\ new.what = "submit" /\ new.owner = "checkout"
          /\ Cardinality(calls') = Cardinality(calls) + 1
      BY <2>2, <2>3, <2>4, CheckoutRequest DEF CheckoutKept
    <2>6. /\ out' \in CheckoutScreens /\ out'.loadingAddr = out.loadingAddr
          /\ out'.loadingPreview = out.loadingPreview
      BY <2>4 DEF CheckoutKept, CheckoutScreens
    <2>7. open' => Waits(out', calls')
      BY <2>4, <2>5, <2>6 DEF CheckoutKept, Waits, Asks
    <2> QED
      BY <1>0, <2>4, <2>5, <2>6, <2>7 DEF CheckoutKept
  <1> QED
    BY <1>2, <1>3, <1>4, <1>5

LEMMA BlankCheckout ==
    /\ Checkout!Blank \in CheckoutScreens
    /\ Checkout!Blank.loadingAddr /\ ~Checkout!Blank.loadingPreview /\ ~Checkout!Blank.submitting
  <1>1. PICK k : k = CHOOSE j \in Others : TRUE
    OBVIOUS
  <1>2. k \in Others
    BY <1>1, BuyerAppAssumption
  <1> QED
    BY <1>1, <1>2 DEF Checkout!Blank, CheckoutScreens

LEMMA CheckoutGoesWaiting ==
    ASSUME CheckoutKept, \/ Checkout!MayAct /\ \E ids \in SUBSET Settled : Checkout!Settle(ids)
                         \/ Checkout!Leave
    PROVE  CheckoutKept'
  <1>0. Cardinality(calls) \in Nat
    BY FS_CardinalityType DEF CheckoutKept, CheckoutSet, Numbered
  <1>1. ASSUME Checkout!MayAct, NEW ids \in SUBSET Settled, Checkout!Settle(ids) PROVE CheckoutKept'
    <2>0. Cardinality(calls) + 1 <= MaxCalls
      BY <1>0, <1>1, SizeInCheckout, BuyerAppAssumption DEF Checkout!MayAct
    <2>1. Checkout!NoArgs \in SettledArgs
      BY DEF Checkout!NoArgs, Checkout!NoDraft, Checkout!Args, SettledArgs
    <2>2. PICK new : new = Checkout!Request(calls, "checkout", "addresses", Checkout!NoArgs)
      OBVIOUS
    <2>3. /\ open' = TRUE /\ out' = Checkout!Blank /\ calls' = calls \cup {new}
          /\ draft' = [ids |-> ids, address |-> None] /\ UNCHANGED <<rows, ordered, book>>
      BY <1>1, <2>2 DEF Checkout!Settle, Checkout!Opened, Checkout!server
    <2>4. /\ CheckoutSet(calls') /\ new.what = "addresses" /\ new.owner = "checkout"
          /\ Cardinality(calls') = Cardinality(calls) + 1
      BY <2>1, <2>2, <2>3, CheckoutRequest DEF CheckoutKept
    <2>5. draft' \in Drafts
      BY <2>3 DEF Drafts
    <2>6. out' \in CheckoutScreens /\ Waits(out', calls')
      BY <2>3, <2>4, BlankCheckout DEF Waits, Asks
    <2> QED
      BY <1>0, <2>0, <2>3, <2>4, <2>5, <2>6 DEF CheckoutKept
  <1>2. CASE Checkout!Leave
    <2>1. PICK S : S = {c \in calls : c.what = "submit"}
      OBVIOUS
    <2>2. PICK f : f = [c \in S |-> [c EXCEPT !.owner = "gone"]]
      OBVIOUS
    <2>3. /\ open' = FALSE /\ out' = Checkout!Blank /\ draft' = Checkout!NoDraft
          /\ calls' = {[c EXCEPT !.owner = "gone"] : c \in S} /\ UNCHANGED <<rows, ordered, book>>
      BY <1>2, <2>1 DEF Checkout!Leave, Checkout!Orphaned, Checkout!server
    <2>4. calls' = {f[c] : c \in S}
      BY <2>2, <2>3
    <2>5. \A c \in S : f[c] \in CheckoutCalls /\ f[c].id = c.id /\ f[c].what = "submit"
      BY <2>1, <2>2 DEF CheckoutKept, CheckoutSet, CheckoutCalls
    <2>6. PICK ds : ds = {f[c] : c \in S}
      OBVIOUS
    <2>7. Numbered(ds)
      <3>1. S \subseteq calls /\ DOMAIN f = S /\ Numbered(calls)
        BY <2>1, <2>2 DEF CheckoutKept, CheckoutSet
      <3>2. \A c \in S : f[c].id = c.id
        BY <2>5
      <3> QED
        BY <2>6, <3>1, <3>2, NumberedImage
    <2>8. Cardinality(ds) <= Cardinality(calls) /\ Cardinality(ds) \in Nat
      <3>1. IsFiniteSet(S) /\ Cardinality(S) <= Cardinality(calls) /\ Cardinality(S) \in Nat
        BY <2>1, FS_Subset, FS_CardinalityType DEF CheckoutKept, CheckoutSet, Numbered
      <3>2. f \in Surjection(S, ds)
        BY <2>2, <2>6 DEF Surjection
      <3>3. Cardinality(ds) <= Cardinality(S) /\ IsFiniteSet(ds)
        BY <3>1, <3>2, FS_Surjection
      <3> QED
        BY <1>0, <3>1, <3>3, FS_CardinalityType
    <2>9. Checkout!NoDraft \in Drafts
      BY DEF Checkout!NoDraft, Drafts
    <2>10. CheckoutSet(ds)
      BY <2>5, <2>6, <2>7 DEF CheckoutSet
    <2>11. calls' = ds
      BY <2>4, <2>6
    <2>12. Cardinality(ds) <= MaxCalls
      BY <1>0, <2>8, BuyerAppAssumption DEF CheckoutKept
    <2> QED
      BY <2>3, <2>9, <2>10, <2>11, <2>12, BlankCheckout DEF CheckoutKept
  <1> QED
    BY <1>1, <1>2

LEMMA CheckoutServesWaiting == ASSUME CheckoutKept, NEW c \in calls, Checkout!Serve(c) PROVE CheckoutKept'
  <1>1. PICK ok : ok = Checkout!Accepts(c)
    OBVIOUS
  <1>2. PICK reply : reply = IF c.what = "addresses" THEN book ELSE None
    OBVIOUS
  <1>3. PICK new : new = [c EXCEPT !.state = IF ok THEN "done" ELSE "refused", !.reply = reply]
    OBVIOUS
  <1>4. calls' = (calls \ {c}) \cup {new} /\ UNCHANGED <<book, draft, open, out>>
    BY <1>1, <1>2, <1>3 DEF Checkout!Serve, Checkout!Handled
  <1>5. c \in CheckoutCalls /\ (c.what # "submit" => c.owner = "checkout")
    BY DEF CheckoutKept, CheckoutSet
  <1>6. reply \in (SUBSET Addresses) \cup {None} /\ (c.what = "addresses" => reply \in SUBSET Addresses)
    BY <1>2 DEF CheckoutKept
  <1>7. /\ new \in CheckoutCalls /\ new.id = c.id /\ new.what = c.what /\ new.owner = c.owner
        /\ new.reply = reply
    BY <1>3, <1>5, <1>6 DEF CheckoutCalls
  <1>8. Numbered(calls') /\ Cardinality(calls') = Cardinality(calls)
    BY <1>4, <1>7, NumberedSwap DEF CheckoutKept, CheckoutSet
  <1>9. CheckoutSet(calls')
    BY <1>4, <1>5, <1>6, <1>7, <1>8 DEF CheckoutKept, CheckoutSet
  <1>10. open' => Waits(out', calls')
    BY <1>4, <1>7 DEF CheckoutKept, Waits, Asks
  <1>11. rows' \subseteq Settled /\ ordered' \subseteq Settled \ rows'
    <2>1. CASE c.what = "submit" /\ Checkout!Accepts(c)
      <3>1. rows' = rows \ c.arg.ids /\ ordered' = ordered \cup c.arg.ids
        BY <2>1 DEF Checkout!Serve
      <3>2. c.arg.ids \subseteq rows
        BY <2>1 DEF Checkout!Accepts, Checkout!Orderable
      <3> QED
        BY <3>1, <3>2 DEF CheckoutKept
    <2>2. CASE ~(c.what = "submit" /\ Checkout!Accepts(c))
      <3>1. UNCHANGED <<rows, ordered>>
        BY <2>2 DEF Checkout!Serve
      <3> QED
        BY <3>1 DEF CheckoutKept
    <2> QED
      BY <2>1, <2>2
  <1> QED
    BY <1>4, <1>8, <1>9, <1>10, <1>11 DEF CheckoutKept

LEMMA CheckoutAnswersWaiting ==
    ASSUME CheckoutInv, CheckoutKept, NEW c \in calls, UNCHANGED <<rows, ordered, book, open>>,
           \/ Checkout!AddressesRead(c) \/ Checkout!AddressesFailed(c)
           \/ Checkout!Previewed(c) \/ Checkout!PreviewFailed(c)
           \/ Checkout!Submitted(c) \/ Checkout!SubmitFailed(c)
    PROVE  CheckoutKept'
  <1>1. PICK rest : rest = calls \ {c}
    OBVIOUS
  <1>2. /\ CheckoutSet(rest) /\ Cardinality(rest) = Cardinality(calls) - 1
        /\ Cardinality(calls) \in Nat /\ Cardinality(rest) \in Nat /\ Cardinality(rest) + 1 <= MaxCalls
    <2>1. /\ Numbered(rest) /\ Cardinality(rest) = Cardinality(calls) - 1 /\ Cardinality(calls) \in Nat
      BY <1>1, NumberedLess DEF CheckoutKept, CheckoutSet
    <2>2. Cardinality(rest) \in Nat
      BY <2>1, FS_CardinalityType DEF Numbered
    <2> QED
      BY <1>1, <2>1, <2>2, CheckoutFewer, BuyerAppAssumption DEF CheckoutKept
  <1>3. ASSUME calls' = rest, UNCHANGED draft, out' \in CheckoutScreens, open => Waits(out', rest)
        PROVE  CheckoutKept'
    <2>1. Cardinality(rest) <= MaxCalls
      BY <1>2, BuyerAppAssumption
    <2> QED
      BY <1>2, <1>3, <2>1 DEF CheckoutKept
  <1>4. ASSUME draft' \in Drafts, NEW o \in CheckoutScreens, Waits(o, rest),
               Checkout!Previewing(draft', o, rest)
        PROVE  CheckoutKept'
    <2>1. PICK d : d = draft'
      OBVIOUS
    <2>2. /\ out' \in CheckoutScreens /\ CheckoutSet(calls') /\ Waits(out', calls')
          /\ Cardinality(calls') <= Cardinality(rest) + 1
      BY <1>2, <1>4, <2>1, PreviewingWaits
    <2>3. Cardinality(calls') \in Nat
      BY <2>2, FS_CardinalityType DEF CheckoutSet, Numbered
    <2>4. Cardinality(calls') <= MaxCalls
      BY <1>2, <2>2, <2>3, BuyerAppAssumption
    <2> QED
      BY <1>4, <2>2, <2>4 DEF CheckoutKept
  <1>5. /\ out \in CheckoutScreens /\ draft \in Drafts /\ c \in CheckoutCalls
        /\ (c.what # "submit" => c.owner = "checkout")
        /\ (c.what # "submit" => open)
        /\ (open => Waits(out, calls))
    BY DEF CheckoutKept, CheckoutSet, CheckoutInv
  <1>6. \A what : what # c.what => (Asks(calls, what) => Asks(rest, what))
    BY <1>1 DEF Asks
  <1>7. CASE Checkout!AddressesRead(c)
    <2>1. PICK o : o = [out EXCEPT !.loadingAddr = FALSE]
      OBVIOUS
    <2>2. c.what = "addresses" /\ c.reply \in SUBSET Addresses
      BY <1>7 DEF Checkout!AddressesRead, CheckoutKept, CheckoutSet
    <2>3. /\ o \in CheckoutScreens /\ ~o.loadingAddr /\ o.loadingPreview = out.loadingPreview
          /\ o.submitting = out.submitting
      BY <1>5, <2>1 DEF CheckoutScreens
    <2>4. Waits(o, rest)
      BY <1>5, <1>6, <2>2, <2>3 DEF Waits
    <2>5. draft' \in Drafts
      <3>1. draft' = draft \/ \E a \in Checkout!First(c.reply) : draft' = [draft EXCEPT !.address = a]
        BY <1>7 DEF Checkout!AddressesRead
      <3>2. Checkout!First(c.reply) \subseteq Addresses \cup {None}
        BY <2>2 DEF Checkout!First
      <3> QED
        BY <1>5, <3>1, <3>2 DEF Drafts
    <2>6. CASE draft' = draft
      <3>1. out' = o /\ calls' = rest
        BY <1>1, <1>7, <2>1, <2>6 DEF Checkout!AddressesRead
      <3> QED
        BY <1>3, <2>3, <2>4, <2>6, <3>1
    <2>7. CASE draft' # draft
      <3>1. Checkout!Previewing(draft', o, rest)
        BY <1>1, <1>7, <2>1, <2>7 DEF Checkout!AddressesRead
      <3> QED
        BY <1>4, <2>3, <2>4, <2>5, <3>1
    <2> QED
      BY <2>6, <2>7
  <1>8. CASE Checkout!AddressesFailed(c)
    <2>1. out' = [out EXCEPT !.loadingAddr = FALSE] /\ calls' = rest /\ UNCHANGED draft /\ c.what = "addresses"
      BY <1>1, <1>8 DEF Checkout!AddressesFailed
    <2>2. /\ out' \in CheckoutScreens /\ ~out'.loadingAddr /\ out'.loadingPreview = out.loadingPreview
          /\ out'.submitting = out.submitting
      BY <1>5, <2>1 DEF CheckoutScreens
    <2>3. Waits(out', rest)
      BY <1>5, <1>6, <2>1, <2>2 DEF Waits
    <2> QED
      BY <1>3, <2>1, <2>2, <2>3
  <1>9. CASE Checkout!Previewed(c)
    <2>1. /\ out' = [out EXCEPT !.preview = c.arg, !.loadingPreview = FALSE]
          /\ calls' = rest /\ UNCHANGED draft /\ c.what = "confirm"
      BY <1>1, <1>9 DEF Checkout!Previewed
    <2>2. c.arg \in SettledArgs
      BY <1>5 DEF CheckoutCalls
    <2>3. /\ out' \in CheckoutScreens /\ ~out'.loadingPreview /\ out'.loadingAddr = out.loadingAddr
          /\ out'.submitting = out.submitting
      BY <1>5, <2>1, <2>2 DEF CheckoutScreens
    <2>4. Waits(out', rest)
      BY <1>5, <1>6, <2>1, <2>3 DEF Waits
    <2> QED
      BY <1>3, <2>1, <2>3, <2>4
  <1>10. CASE Checkout!PreviewFailed(c)
    <2>1. /\ out' = [out EXCEPT !.preview = None, !.failed = TRUE, !.loadingPreview = FALSE]
          /\ calls' = rest /\ UNCHANGED draft /\ c.what = "confirm"
      BY <1>1, <1>10 DEF Checkout!PreviewFailed
    <2>2. /\ out' \in CheckoutScreens /\ ~out'.loadingPreview /\ out'.loadingAddr = out.loadingAddr
          /\ out'.submitting = out.submitting
      BY <1>5, <2>1 DEF CheckoutScreens
    <2>3. Waits(out', rest)
      BY <1>5, <1>6, <2>1, <2>2 DEF Waits
    <2> QED
      BY <1>3, <2>1, <2>2, <2>3
  <1>11. ASSUME c.what = "submit", NEW o, o = Checkout!Ended(c)
         PROVE  o \in CheckoutScreens /\ (open => Waits(o, rest))
    <2>1. PICK b \in BOOLEAN : b = (out.submitting /\ c.owner = "gone")
      OBVIOUS
    <2>2. o = [out EXCEPT !.submitting = b]
      BY <1>11, <2>1 DEF Checkout!Ended
    <2>3. /\ o \in CheckoutScreens /\ o.loadingPreview = out.loadingPreview /\ o.loadingAddr = out.loadingAddr
          /\ o.submitting = b
      BY <1>5, <2>2 DEF CheckoutScreens
    <2>4. c.owner = "gone" /\ Asks(calls, "submit") => Asks(rest, "submit")
      BY <1>1 DEF Asks
    <2>5. open => Waits(o, rest)
      BY <1>5, <1>6, <1>11, <2>1, <2>3, <2>4 DEF Waits
    <2> QED
      BY <2>3, <2>5
  <1>12. CASE Checkout!SubmitFailed(c)
    <2>1. out' = Checkout!Ended(c) /\ calls' = rest /\ UNCHANGED draft /\ c.what = "submit"
      BY <1>1, <1>12 DEF Checkout!SubmitFailed
    <2>2. PICK o : o = Checkout!Ended(c)
      OBVIOUS
    <2>3. o \in CheckoutScreens /\ (open => Waits(o, rest))
      BY <1>11, <2>1, <2>2
    <2> QED
      BY <1>3, <2>1, <2>2, <2>3
  <1>13. CASE Checkout!Submitted(c)
    <2>1. /\ draft' = Checkout!NoDraft /\ Checkout!Previewing(Checkout!NoDraft, Checkout!Ended(c), rest)
          /\ c.what = "submit"
      BY <1>1, <1>13 DEF Checkout!Submitted
    <2>2. PICK o : o = Checkout!Ended(c)
      OBVIOUS
    <2>3. o \in CheckoutScreens /\ (open => Waits(o, rest))
      BY <1>11, <2>1, <2>2
    <2>4. out' = [o EXCEPT !.preview = None] /\ calls' = rest
      BY <2>1, <2>2 DEF Checkout!Previewing, Checkout!NoDraft
    <2>5. out' \in CheckoutScreens /\ (open => Waits(out', rest))
      BY <2>3, <2>4 DEF CheckoutScreens, Waits
    <2>6. draft' \in Drafts
      BY <2>1 DEF Checkout!NoDraft, Drafts
    <2>7. Cardinality(rest) <= MaxCalls
      BY <1>2, BuyerAppAssumption
    <2> QED
      BY <1>2, <2>4, <2>5, <2>6, <2>7 DEF CheckoutKept
  <1> QED
    BY <1>7, <1>8, <1>9, <1>10, <1>12, <1>13

LEMMA CheckoutStartsKept == Checkout!Init => CheckoutKept
  <1> SUFFICES ASSUME Checkout!Init PROVE CheckoutKept
    OBVIOUS
  <1>1. PICK new : new = Checkout!Request({}, "checkout", "addresses", Checkout!NoArgs)
    OBVIOUS
  <1>2. /\ rows = Settled /\ ordered = {} /\ book \subseteq Addresses /\ draft \in Drafts
        /\ open = TRUE /\ out = Checkout!Blank /\ calls = {new}
    BY <1>1 DEF Checkout!Init, Drafts
  <1>3. Checkout!NoArgs \in SettledArgs
    BY DEF Checkout!NoArgs, Checkout!NoDraft, Checkout!Args, SettledArgs
  <1>4. PICK none : none = {}
    OBVIOUS
  <1>5. CheckoutSet(none) /\ Cardinality(none) = 0
    BY <1>4, FS_EmptySet DEF CheckoutSet, Numbered
  <1>6. calls = none \cup {new}
    BY <1>2, <1>4
  <1>7. /\ CheckoutSet(calls) /\ new.what = "addresses" /\ new.owner = "checkout" /\ Cardinality(calls) = 1
    BY <1>1, <1>3, <1>4, <1>5, <1>6, CheckoutRequest
  <1>8. out \in CheckoutScreens /\ Waits(out, calls)
    BY <1>2, <1>7, BlankCheckout DEF Waits, Asks
  <1> QED
    BY <1>2, <1>7, <1>8, BuyerAppAssumption DEF CheckoutKept

\* No step of the checkout leaves it waiting for nothing.
LEMMA CheckoutStepsKept == ASSUME CheckoutInv, CheckoutKept, Checkout!Next PROVE CheckoutKept'
  <1>1. CASE Checkout!MayAct /\ Checkout!Tap
    BY <1>1, CheckoutTapsWait, CheckoutGoesWaiting DEF Checkout!Tap
  <1>2. CASE Checkout!Leave
    BY <1>2, CheckoutGoesWaiting
  <1>3. ASSUME NEW c \in calls, Checkout!Handle(c) PROVE CheckoutKept'
    <2>1. CASE Checkout!Serve(c)
      BY <2>1, CheckoutServesWaiting
    <2>2. CASE Checkout!Answer(c) \/ Checkout!Lose(c)
      <3>1. /\ UNCHANGED <<rows, ordered, book, open>>
            /\ \/ Checkout!AddressesRead(c) \/ Checkout!AddressesFailed(c)
               \/ Checkout!Previewed(c) \/ Checkout!PreviewFailed(c)
               \/ Checkout!Submitted(c) \/ Checkout!SubmitFailed(c)
        BY <2>2 DEF Checkout!Answer, Checkout!Lose, Checkout!server
      <3> QED
        BY <3>1, CheckoutAnswersWaiting
    <2> QED
      BY <1>3, <2>1, <2>2 DEF Checkout!Handle
  <1>4. ASSUME NEW i \in Settled, Checkout!Delist(i) PROVE CheckoutKept'
    BY <1>4 DEF Checkout!Delist, CheckoutKept, CheckoutSet, Numbered, Waits, Asks
  <1> QED
    BY <1>1, <1>2, <1>3, <1>4 DEF Checkout!Next

LEMMA CheckoutSame ==
    ASSUME CheckoutKept, UNCHANGED <<rows, ordered, book, draft, open, out, calls>> PROVE CheckoutKept'
  BY DEF CheckoutKept, CheckoutSet, Numbered, Waits, Asks

LEMMA CheckoutHolds == CheckoutKept => Checkout!TypeOK /\ Checkout!SpinnerHasCall
  <1> SUFFICES ASSUME CheckoutKept PROVE Checkout!TypeOK /\ Checkout!SpinnerHasCall
    OBVIOUS
  <1>1. Checkout!Cardinality(calls) <= MaxCalls
    BY SizeInCheckout DEF CheckoutKept
  <1>2. Checkout!TypeOK
    BY <1>1 DEF CheckoutKept, CheckoutSet, Numbered, Drafts, CheckoutScreens, Checkout!TypeOK
  <1>3. Checkout!SpinnerHasCall
    BY DEF CheckoutKept, Waits, Asks, Checkout!SpinnerHasCall, Checkout!InFlight
  <1> QED
    BY <1>2, <1>3

-----------------------------------------------------------------------------
(* The errands.                                                            *)

Errands == {"browse", "cart", "checkout", "addresses", "orders", "account"}
AppInv == /\ errand \in Errands
          /\ errand = "browse" => BrowseInv /\ BrowseKept
          /\ errand = "cart" => CartInv
          /\ errand = "checkout" => CheckoutInv /\ CheckoutKept
          /\ errand = "addresses" => BookInv /\ front \in BookFronts /\ BookKept
          /\ errand = "orders" => OrdersInv /\ OrdersKept
          /\ errand = "account" => AccountInv

LEMMA AppStarts == Init => AppInv
  <1>1. Init => /\ errand \in Errands
                /\ errand = "browse" => Browse!Init
                /\ errand = "cart" => Cart!Init
                /\ errand = "checkout" => Checkout!Init
                /\ errand = "addresses" => Book!Init
                /\ errand = "orders" => Purchases!Init
                /\ errand = "account" => Account!Init
    BY DEF Init, Errands
  <1> QED
    BY <1>1, BrowseStarts, BrowseStartsKept, CartStarts, CheckoutStarts, CheckoutStartsKept, BookStarts, BookStartsKept,
       OrdersStart, OrdersStartKept, AccountStarts DEF AppInv

LEMMA AppSteps == AppInv /\ [Next]_vars => AppInv'
  <1> SUFFICES ASSUME AppInv, [Next]_vars PROVE AppInv'
    OBVIOUS
  <1>1. CASE UNCHANGED vars
    <2>1. UNCHANGED <<errand, calls, crossed, list, front, screen, rows, cart, ordered, book, draft, open, out, overlapped,
                      live, dflt, top, form, slip, status, hidden, page>>
      BY <1>1 DEF vars, browsing, shopping, settling, moving, following
    <2>2. BrowseInv => BrowseInv'
      BY <2>1 DEF BrowseInv, Legal
    <2>3. CheckoutInv => CheckoutInv'
      BY <2>1 DEF CheckoutInv, Formed, Current
    <2>4. BookInv /\ front \in BookFronts => (BookInv /\ front \in BookFronts)'
      BY <2>1 DEF BookInv, Locking, HasDefault, BookFronts
    <2>5. OrdersInv => OrdersInv'
      BY <2>1 DEF OrdersInv, Asked, OrderFronts
    <2>6. BrowseKept => BrowseKept'
      BY <2>1, BrowseSame
    <2>7. CartInv => CartInv'
      BY <2>1, CartSame
    <2>8. CheckoutKept => CheckoutKept'
      BY <2>1, CheckoutSame
    <2>9. BookKept => BookKept'
      BY <2>1, BookSame
    <2>10. OrdersKept => OrdersKept'
      BY <2>1, OrdersSame
    <2>11. AccountInv => AccountInv'
      BY <2>1, AccountSame
    <2> QED
      BY <2>1, <2>2, <2>3, <2>4, <2>5, <2>6, <2>7, <2>8, <2>9, <2>10, <2>11 DEF AppInv, Errands
  <1>2. CASE Next
    <2>1. /\ errand' = errand
          /\ errand = "browse" => Browse!Next
          /\ errand = "cart" => Cart!Next
          /\ errand = "checkout" => Checkout!Next
          /\ errand = "addresses" => Book!Next
          /\ errand = "orders" => Purchases!Next
          /\ errand = "account" => Account!Next
      BY <1>2 DEF Next
    <2>2. CASE errand = "browse"
      BY <2>1, <2>2, BrowseSteps, BrowseStepsKept DEF AppInv, Errands
    <2>3. CASE errand = "cart"
      BY <2>1, <2>3, CartSteps DEF AppInv, Errands
    <2>4. CASE errand = "checkout"
      BY <2>1, <2>4, CheckoutSteps, CheckoutStepsKept DEF AppInv, Errands
    <2>5. CASE errand = "addresses"
      BY <2>1, <2>5, BookSteps, BookStepsKept DEF AppInv, Errands
    <2>6. CASE errand = "orders"
      BY <2>1, <2>6, OrdersSteps, OrdersStepsKept DEF AppInv, Errands
    <2>7. CASE errand = "account"
      BY <2>1, <2>7, AccountSteps DEF AppInv, Errands
    <2> QED
      BY <2>2, <2>3, <2>4, <2>5, <2>6, <2>7 DEF AppInv, Errands
  <1> QED
    BY <1>1, <1>2

\* Of every behaviour of the app, whichever errand it follows: the invariants
\* above, which the properties below follow from.
THEOREM AppInvariant == Spec => []AppInv
  BY AppStarts, AppSteps, PTL DEF Spec

\* The state of every screen is what its component declares, its requests are
\* numbered apart and no more than the buyer can have.
THEOREM TypesCorrect == Spec => []TypeOK
  <1>1. AppInv => TypeOK
    BY BrowseHolds, CartHolds, CheckoutHolds, BookHolds, OrdersHold, AccountHolds DEF AppInv, Errands, TypeOK
  <1> QED
    BY <1>1, AppInvariant, PTL

\* Whatever crossed: a spinner, or a button that is off, stands for a request that
\* is under way and whose end will end it (the finally blocks of the screens), but
\* for the page on which an address is edited: its read has no catch, and once that
\* read has failed the page says "loading" with nothing under way.
THEOREM SpinnersCorrect == Spec => []SpinnerHasCall
  <1>1. AppInv => SpinnerHasCall
    BY BrowseHolds, CartHolds, CheckoutHolds, BookHolds, OrdersHold, AccountHolds DEF AppInv, Errands, SpinnerHasCall
  <1> QED
    BY <1>1, AppInvariant, PTL

\* At rest the cart, the address list, the order list and the buyer's numbers are
\* those of the server, unless reads and changes crossed (useFocusEffect, load).
THEOREM ShownCorrect == Spec => []ShowsServer
  <1>1. AppInv => ShowsServer
    BY CartHolds, BookHolds, OrdersHold, AccountHolds DEF AppInv, ShowsServer
  <1> QED
    BY <1>1, AppInvariant, PTL

\* At rest a list that came in pages is the pages from the first to the current one
\* of what is selected, each once, unless an answer came that a newer read of the
\* list had overtaken (loadPage and onEndReached take every answer).
THEOREM ListsCorrect == Spec => []ListIsWhole
  <1>1. AppInv => ListIsWhole
    BY BrowseHolds DEF AppInv, ListIsWhole
  <1> QED
    BY <1>1, AppInvariant, PTL

\* A product page, and the "+" of a card, only ask for quantities the server takes
\* (snapQuantity of QuantityStepper, whatever is typed).
THEOREM QuantityCorrect == Spec => []SentQuantityLegal
  <1>1. AppInv => SentQuantityLegal
    BY DEF AppInv, BrowseInv, Legal, SentQuantityLegal, Browse!SentQuantityLegal
  <1> QED
    BY <1>1, AppInvariant, PTL

\* The preview of the checkout is of the order that its button places, unless
\* another preview was asked for while it was made (loadPreview).
THEOREM PreviewCorrect == Spec => []PreviewIsCurrent
  <1>1. AppInv => PreviewIsCurrent
    BY DEF AppInv, CheckoutInv, Current, Formed, PreviewIsCurrent, Checkout!PreviewIsCurrent, Checkout!InFlight
  <1> QED
    BY <1>1, AppInvariant, PTL

\* A buyer with addresses has exactly one default address, unless transactions
\* crossed in the one way that loses it (AddressService).
THEOREM DefaultCorrect == Spec => []OneDefault
  <1>1. ASSUME AppInv, errand = "addresses" PROVE Book!OneDefault
    <2>1. HasDefault(live, dflt, slip)
      BY <1>1 DEF AppInv, BookInv
    <2>2. Cardinality(dflt) <= 1
      <3>1. CASE dflt = {}
        BY <3>1, FS_EmptySet
      <3>2. ASSUME NEW i \in dflt PROVE Cardinality(dflt) = 1
        <4>1. dflt = {i}
          BY <2>1, <3>2 DEF HasDefault
        <4> QED
          BY <4>1, FS_Singleton
      <3> QED
        BY <3>1, <3>2
    <2> QED
      BY <2>1, <2>2, SameSize DEF Book!OneDefault, HasDefault
  <1>2. AppInv => OneDefault
    BY <1>1 DEF OneDefault
  <1> QED
    BY <1>2, AppInvariant, PTL

\* What the list and the page of an order offer for a status is what the server
\* accepts in it, but for the cancellation of an accepted order in the list.
THEOREM OffersCorrect == Spec => []OffersAccepted
  <1>1. ASSUME OrdersInv PROVE Purchases!OffersAccepted
    <2> SUFFICES ASSUME NEW c \in calls, c.what \in Purchases!Changes,
                        c.arg.order \in Purchases!Visible, status[c.arg.order] = c.arg.shown,
                        ~(c.what = "cancel" /\ c.arg.shown = 1)
                 PROVE  Purchases!Accepts(c)
      BY DEF Purchases!OffersAccepted
    <2>1. Offered(c.what, c.arg.shown)
      BY <1>1 DEF OrdersInv, Asked
    <2> PICK s : s = c.arg.shown
      OBVIOUS
    <2>2. /\ c.what = "cancel" => s = 0
          /\ c.what = "receive" => s = 3
          /\ c.what = "delete" => s \in {4, 5}
      BY <2>1 DEF Offered, Purchases!ListActions, Purchases!PageActions
    <2> QED
      BY <2>2 DEF Purchases!Accepts, Purchases!Changes
  <1>2. AppInv => OffersAccepted
    BY <1>1 DEF AppInv, OffersAccepted
  <1> QED
    BY <1>2, AppInvariant, PTL
=============================================================================
