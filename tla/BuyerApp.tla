------------------------------ MODULE BuyerApp ------------------------------
(***************************************************************************)
(* The buyer app: its catalogue, cart, checkout, address book, orders and   *)
(* account.                                                                *)
(* Each of them is modelled with everything that can happen while the      *)
(* buyer is in it, from every state the others can leave it in; no request *)
(* of one is answered to another.  So a behaviour of the app is followed   *)
(* through one of them, the buyer's errand, which is chosen at the start.  *)
(***************************************************************************)
EXTENDS Integers, Sequences, FiniteSets

CONSTANTS None, MaxCalls,
          Parents, ChildrenOf, Sorts, Keywords, Pages, Quantities, MinBuy, StepBuy,
          Items, Shops, LegalQty, MaxQty, Fleeting,
          Settled, Addresses, Others,
          MaxId, Limit, MaxChanges,
          Orders, Counts

\* Of the parts' constants.
ASSUME BuyerAppAssumption ==
    /\ MaxCalls \in Nat \ {0}
    /\ Pages \in Nat \ {0} /\ MinBuy \in Nat \ {0} /\ StepBuy \in Nat \ {0} /\ Quantities \subseteq Nat
    /\ Parents # <<>> /\ Parents \in Seq(DOMAIN ChildrenOf) /\ DOMAIN ChildrenOf = {Parents[i] : i \in DOMAIN Parents}
    /\ "sales_desc" \in Sorts
    /\ \A p \in DOMAIN ChildrenOf :
          LET children == {ChildrenOf[p][i] : i \in DOMAIN ChildrenOf[p]} IN
          ChildrenOf[p] \in Seq(children) /\ {None, "filler"} \cap ({p} \cup children) = {}
    /\ Shops \subseteq SUBSET Items /\ Fleeting \subseteq Items
    /\ MaxQty \in Nat /\ LegalQty \in [Items -> SUBSET (1..MaxQty)]
    /\ Others # {}
    /\ MaxId \in Nat \ {0} /\ Limit \in 1..MaxId /\ MaxChanges \in Nat
    /\ Counts \subseteq {"unread", "delivered", "completed", "total"} /\ IsFiniteSet(Orders)
    /\ None \notin Nat

VARIABLES errand, calls,
          screen,                                        \* BuyerBrowse
          rows, cart, crossed,                           \* BuyerCart
          ordered, book, draft, open, out, overlapped,   \* BuyerCheckout
          live, dflt, top, list, form, changes, slip,    \* BuyerAddresses
          status, hidden, page,                          \* BuyerOrders, BuyerAccount
          front                                          \* the last three

browsing == screen
shopping == <<rows, cart>>
settling == <<ordered, book, draft, open, out, overlapped>>
moving == <<live, dflt, top, form, changes, slip>>
following == <<status, hidden, page>>
vars == <<errand, calls, crossed, list, front, browsing, shopping, settling, moving, following>>

Browse == INSTANCE BuyerBrowse
Cart == INSTANCE BuyerCart
Checkout == INSTANCE BuyerCheckout WITH Items <- Settled
Book == INSTANCE BuyerAddresses
Purchases == INSTANCE BuyerOrders
Account == INSTANCE BuyerAccount

-----------------------------------------------------------------------------
IdleBrowse == screen = None
IdleCart == rows = None /\ cart = None
IdleCheckout == ordered = None /\ book = None /\ draft = None /\ open = None /\ out = None /\ overlapped = None
IdleBook == live = None /\ dflt = None /\ top = None /\ form = None /\ changes = None /\ slip = None
IdlePurchases == status = None /\ hidden = None /\ page = None

Init ==
    \/ /\ errand = "browse" /\ Browse!Init
       /\ IdleCart /\ IdleCheckout /\ IdleBook /\ IdlePurchases
       /\ crossed = None /\ list = None /\ front = None
    \/ /\ errand = "cart" /\ Cart!Init
       /\ IdleBrowse /\ IdleCheckout /\ IdleBook /\ IdlePurchases /\ list = None /\ front = None
    \/ /\ errand = "checkout" /\ Checkout!Init
       /\ IdleBrowse /\ cart = None /\ IdleBook /\ IdlePurchases
       /\ crossed = None /\ list = None /\ front = None
    \/ /\ errand = "addresses" /\ Book!Init
       /\ IdleBrowse /\ IdleCart /\ IdleCheckout /\ IdlePurchases
    \/ /\ errand = "orders" /\ Purchases!Init
       /\ IdleBrowse /\ IdleCart /\ IdleCheckout /\ IdleBook
    \/ /\ errand = "account" /\ Account!Init
       /\ IdleBrowse /\ IdleCart /\ IdleCheckout /\ IdleBook

Next ==
    /\ UNCHANGED errand
    /\ \/ /\ errand = "browse" /\ Browse!Next
          /\ UNCHANGED <<shopping, settling, moving, following, crossed, list, front>>
       \/ /\ errand = "cart" /\ Cart!Next
          /\ UNCHANGED <<browsing, settling, moving, following, list, front>>
       \/ /\ errand = "checkout" /\ Checkout!Next
          /\ UNCHANGED <<browsing, cart, moving, following, crossed, list, front>>
       \/ /\ errand = "addresses" /\ Book!Next
          /\ UNCHANGED <<browsing, shopping, settling, following>>
       \/ /\ errand = "orders" /\ Purchases!Next
          /\ UNCHANGED <<browsing, shopping, settling, moving>>
       \/ /\ errand = "account" /\ Account!Next
          /\ UNCHANGED <<browsing, shopping, settling, moving>>

\* The parts' own fairness, written out: a request can always be handled or
\* given up, and so it is never left as it is for ever.
Fairness == \A i \in 1..(MaxCalls + 2) :
    \/ []<>(\A c \in calls : c.id # i)
    \/ []<><<\E c \in calls : c.id = i /\ c \notin calls'>>_calls

Spec == Init /\ [][Next]_vars /\ Fairness

-----------------------------------------------------------------------------
(* Properties: those of the parts, which say what they mean.               *)

TypeOK == CASE errand = "browse" -> Browse!TypeOK [] errand = "cart" -> Cart!TypeOK
            [] errand = "checkout" -> Checkout!TypeOK [] errand = "addresses" -> Book!TypeOK
            [] errand = "orders" -> Purchases!TypeOK [] errand = "account" -> Account!TypeOK

\* On every screen, whatever crossed: a spinner, or a button that is off, stands
\* for a request that is under way and whose end will end it (the finally blocks
\* of the screens).  One exception: the page on which an address is edited says
\* "loading" for ever once its read has failed (BuyerAddressEditScreen's load).
SpinnerHasCall ==
    CASE errand = "browse" -> Browse!SpinnerHasCall [] errand = "cart" -> Cart!SpinnerHasCall
      [] errand = "checkout" -> Checkout!SpinnerHasCall [] errand = "addresses" -> Book!SpinnerHasCall
      [] errand = "orders" -> Purchases!SpinnerHasCall [] errand = "account" -> Account!SpinnerHasCall

\* A list that came in pages is whole (category tab, category list, search).
ListIsWhole == errand = "browse" => Browse!ListIsWhole

\* A product page only asks for quantities the server takes (QuantityStepper).
SentQuantityLegal == errand = "browse" => Browse!SentQuantityLegal

\* At rest the cart, the address list, the order list and the buyer's numbers
\* show what the server has, unless reads and writes crossed.
ShowsServer == /\ errand = "cart" => Cart!ShowsServer
               /\ errand = "addresses" => Book!ShowsServer
               /\ errand = "orders" => Purchases!ShowsServer
               /\ errand = "account" => Account!ShowsServer

\* The checkout's preview is of the order its button places.
PreviewIsCurrent == errand = "checkout" => Checkout!PreviewIsCurrent

\* The address transactions keep one default address.
OneDefault == errand = "addresses" => Book!OneDefault

\* The order screens offer what the server accepts.
OffersAccepted == errand = "orders" => Purchases!OffersAccepted

\* What keeps the buyer waiting: a page, a part of it, a button, a form that is
\* not filled, which is waited for only as long as its read has not failed.
Waiting(kind) ==
    CASE errand = "browse" -> \/ kind = "page" /\ screen.phase = "loading"
                              \/ kind = "part" /\ screen.list = "loading"
                              \/ kind = "button" /\ screen.more
      [] errand = "cart" -> kind = "page" /\ cart.loading
      [] errand = "checkout" -> /\ open
                                /\ \/ kind = "page" /\ out.loadingAddr
                                   \/ kind = "part" /\ out.loadingPreview
                                   \/ kind = "button" /\ out.submitting
      [] errand = "addresses" -> \/ kind = "page" /\ list.loading
                                 \/ kind = "form" /\ form.phase = "loading" /\ ~form.unread
                                 \/ kind = "button" /\ form.submitting
      [] errand = "orders" -> \/ kind = "page" /\ list.loading
                              \/ kind = "part" /\ page.loading
                              \/ kind = "button" /\ page.submitting
      [] errand = "account" -> kind = "page" /\ list.loading
\* No screen waits for ever, but for the address form whose read has failed: no
\* answer is coming, and only the buyer's step back ends its loading page.
SpinnersStop == \A kind \in {"page", "part", "form", "button"} : Waiting(kind) ~> ~Waiting(kind)
=============================================================================
