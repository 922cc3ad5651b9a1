----------------------------- MODULE BuyerBrowse -----------------------------
(***************************************************************************)
(* The buyer app's way through the catalogue: home, the category tab, the  *)
(* list of a category, its sub-categories, search, the page of a shop and  *)
(* the page of a product.                                                  *)
(*                                                                         *)
(* One screen is in front.  Its state is a record with the fields of all   *)
(* screens; a screen uses those its component declares with useState.  A   *)
(* read that was sent is in calls until it is answered or fails, in any    *)
(* order: no screen numbers its reads or drops the answer of an old one.   *)
(* React applies the state changes of one handler together and renders     *)
(* before the next event, so that a handler sees the state of its event.   *)
(*                                                                         *)
(* A list is the sequence of the pages it is made of, each with the        *)
(* selection (category, sort order, keyword) it was read for.              *)
(***************************************************************************)
EXTENDS Integers, Sequences, FiniteSets, SequencesExt

CONSTANTS Parents,     \* top-level categories, in the order of the tree
          ChildrenOf,  \* their children: a sequence for each
          Sorts,       \* sort orders of a category's list
          Keywords,    \* what a buyer searches for
          Pages,       \* pages of every list
          Quantities,  \* quantities typed on the page of a product
          MinBuy, StepBuy,   \* of that product
          MaxCalls,    \* bound: a buyer acts while fewer reads are in flight
          None

VARIABLES screen,  \* the screen in front
          calls    \* what it has sent and not heard of

vars == <<screen, calls>>

Screens == {"home", "tab", "category", "sub", "search", "shop", "detail"}
Ids == 1..(MaxCalls + 2)
Filler == "filler"

\* normalizeChildOptions: a category without children is its own child.
Options(p) == IF ChildrenOf[p] = <<>> THEN <<p>> ELSE ChildrenOf[p]
Children == UNION {ToSet(Options(p)) : p \in ToSet(Parents)}
Selections == Children \cup Sorts \cup Keywords

Blank(at, id) ==
    [at |-> at, id |-> id, phase |-> "loading", list |-> "ready", parent |-> None,
     sel |-> None, word |-> None, rows |-> <<>>, page |-> 1, more |-> FALSE,
     refreshing |-> FALSE, adding |-> None, quantity |-> 1,
     late |-> {}, tangled |-> FALSE]

-----------------------------------------------------------------------------
(* Reads.                                                                  *)

Call(i, what, mode, key, page) ==
    [id |-> i, what |-> what, mode |-> mode, key |-> key, page |-> page, from |-> screen.parent]

FreeIds == Ids \ {c.id : c \in calls}
NextId == CHOOSE i \in FreeIds : TRUE

\* fetchCategoryTree, fetchBuyerProducts, searchBuyerProducts,
\* fetchProductDetail, fetchShopHomepage.
Ask(what, mode, key, page) == {Call(NextId, what, mode, key, page)}
Reading(what) == \E c \in calls : c.what = what

\* History, for the lists of the tab, a category and search.  late are the reads
\* in flight that were overtaken: a read that replaces the list was sent after
\* them, or a next page was asked for while such a read was under way.  tangled:
\* the end of an overtaken read has reached the screen, and no replacement that
\* was not overtaken since.  Two reads of a next page overtake nothing.
Overtaken == {c.id : c \in {d \in calls : d.what = "products"}}
LateWith(i) == IF \E c \in calls : c.what = "products" /\ c.mode # "more"
               THEN screen.late \cup {i} ELSE screen.late

\* What a page of products does to the list; an answer knows nothing of the
\* selection the screen has moved on to.  After the last page there is nothing.
Put(c) == LET entry == [key |-> c.key, page |-> c.page] IN
    [screen EXCEPT !.rows = CASE c.mode # "more" -> <<entry>>
                              [] c.mode = "more" /\ c.page <= Pages -> Append(@, entry)
                              [] OTHER -> @,
                   !.page = c.page,
                   !.tangled = @ /\ c.mode = "more"]

\* finally: the flag the sender set is reset.
Done(s, c) == [s EXCEPT !.refreshing = @ /\ c.mode # "refresh",
                        !.more = @ /\ c.mode # "more",
                        !.tangled = @ \/ c.id \in s.late,
                        !.late = @ \ {c.id}]

MayAct == Cardinality(calls) < MaxCalls
Answer(c, s) == screen' = s /\ calls' = calls \ {c}
AnswerAndAsk(c, s, more) == screen' = s /\ calls' = (calls \ {c}) \cup more
Show(s) == screen' = s /\ UNCHANGED calls
ShowAndAsk(s, more) == screen' = s /\ calls' = calls \cup more

-----------------------------------------------------------------------------
(* Home.                                                                   *)

HomeLoad(show) ==
    /\ screen.at = "home"
    /\ ShowAndAsk([screen EXCEPT !.phase = IF show THEN "loading" ELSE @,
                                 !.refreshing = @ \/ ~show],
                  Ask("products", IF show THEN "open" ELSE "refresh", None, 1))

\* Both reads are there; the address of the header is read next by a buyer who
\* is signed in.
HomeProducts(c) ==
    /\ screen.at = "home" /\ c.what = "products"
    /\ \/ AnswerAndAsk(c, Put(c), Ask("addresses", c.mode, None, 1))
       \/ Answer(c, Done([Put(c) EXCEPT !.phase = "ready"], c))

\* allSettled: the label falls back when the read fails.
HomeAddresses(c) ==
    /\ screen.at = "home" /\ c.what = "addresses"
    /\ Answer(c, Done([screen EXCEPT !.phase = "ready"], c))

\* Also when pulled down: the list that was shown gives way to the error.
HomeFailed(c) ==
    /\ screen.at = "home" /\ c.what = "products"
    /\ Answer(c, Done([screen EXCEPT !.phase = "error"], c))

\* What the screen can be asked for in a phase: a spinner, a retry or all of it.
HomeOffers == CASE screen.phase = "loading" -> {}
                [] screen.phase = "error" -> {"retry"}
                [] OTHER -> {"refresh", "tile", "product", "shop", "search"}

\* load depends on the access token: a refreshed token loads the screen again.
HomeTap == \/ "retry" \in HomeOffers /\ HomeLoad(TRUE)
           \/ "refresh" \in HomeOffers /\ ~screen.refreshing /\ HomeLoad(FALSE)
HomeTokenChanged == HomeLoad(TRUE)

\* normalizeHomeCategories: short trees are filled up with tiles of no category.
HomeTiles == ToSet(Parents) \cup {Filler}

TileTarget(p) == IF p = Filler THEN <<"tab", None>>
                 ELSE IF ChildrenOf[p] # <<>> THEN <<"sub", p>> ELSE <<"category", p>>

-----------------------------------------------------------------------------
(* The category tab.                                                       *)

\* The effect of a new selection: its products are loaded.
TabSelect(s, k) ==
    IF k = screen.sel THEN [s EXCEPT !.sel = k]
    ELSE [s EXCEPT !.sel = k, !.list = "loading", !.late = Overtaken]
TabSelectAsks(k) == IF k = screen.sel THEN {} ELSE Ask("products", "open", k, 1)

TabLoadCategories(show) ==
    /\ screen.at = "tab"
    /\ ShowAndAsk([screen EXCEPT !.phase = IF show THEN "loading" ELSE @,
                                 !.refreshing = @ \/ ~show],
                  IF show THEN {[Call(NextId, "tree", "open", None, 1) EXCEPT !.from = None]}
                  ELSE Ask("tree", "refresh", screen.sel, 1))

\* The selection is set to the one the load was started with; a refresh then
\* reads the products again, next to the load the new selection sets off.
TabTree(c) ==
    LET parent == IF c.from = None THEN Head(Parents) ELSE c.from
        child == IF c.key \in ToSet(Options(parent)) THEN c.key ELSE Head(Options(parent))
        moved == [TabSelect(screen, child) EXCEPT !.phase = "ready", !.parent = parent]
        again == IF c.mode = "refresh"
                 THEN {Call(CHOOSE i \in FreeIds \ {NextId} : TRUE, "products", "refresh", child, 1)}
                 ELSE {}
    IN /\ screen.at = "tab" /\ c.what = "tree"
       /\ AnswerAndAsk(c, [moved EXCEPT !.late = IF again = {} THEN @ ELSE Overtaken],
                       TabSelectAsks(child) \cup again)

TabTreeFailed(c) ==
    /\ screen.at = "tab" /\ c.what = "tree"
    /\ Answer(c, Done([screen EXCEPT !.phase = "error"], c))

TabProducts(c) ==
    /\ screen.at = "tab" /\ c.what = "products"
    /\ Answer(c, Done([Put(c) EXCEPT !.list = "ready"], c))

\* Mutant: a page that fails leaves the flag of the loader set.
TabProductsFailedStuck(c) ==
    /\ screen.at = "tab" /\ c.what = "products"
    /\ Answer(c, [screen EXCEPT !.list = "ready"])
TabProductsFailed(c) ==
    /\ screen.at = "tab" /\ c.what = "products"
    /\ Answer(c, Done(IF c.mode = "more" THEN [screen EXCEPT !.list = "ready"]
                      ELSE [screen EXCEPT !.list = "error", !.rows = <<>>, !.page = 1], c))

TabOffers == CASE screen.phase = "loading" -> {}
               [] screen.phase = "error" -> {"reload"}
               [] OTHER -> {"parent", "child", "refresh", "end", "add"}
\* What the empty list shows in place of products.
TabListOffers == IF screen.rows = <<>> /\ screen.list = "error" THEN {"retry"} ELSE {}

TabParent(p) ==
    LET k == IF screen.sel \in ToSet(Options(p)) THEN screen.sel ELSE Head(Options(p)) IN
    /\ screen.at = "tab" /\ "parent" \in TabOffers
    /\ ShowAndAsk([TabSelect(screen, k) EXCEPT !.parent = p], TabSelectAsks(k))

TabChild(k) ==
    /\ screen.at = "tab" /\ "child" \in TabOffers /\ k \in ToSet(Options(screen.parent))
    /\ ShowAndAsk(TabSelect(screen, k), TabSelectAsks(k))

TabLoadProducts == ShowAndAsk([screen EXCEPT !.list = "loading", !.late = Overtaken],
                              Ask("products", "open", screen.sel, 1))
\* An empty list has one page: totalPages starts, and is reset, at 1.
TabEnd == /\ screen.at = "tab" /\ "end" \in TabOffers /\ screen.rows # <<>>
          /\ screen.list = "ready" /\ ~screen.more /\ screen.page < Pages
          /\ ShowAndAsk([screen EXCEPT !.more = TRUE, !.late = LateWith(NextId)],
                        Ask("products", "more", screen.sel, screen.page + 1))
TabRefresh == "refresh" \in TabOffers /\ ~screen.refreshing /\ TabLoadCategories(FALSE)
TabRetry == \/ "reload" \in TabOffers /\ TabLoadCategories(TRUE)
            \/ screen.at = "tab" /\ "retry" \in TabListOffers /\ TabLoadProducts

\* One product at a time is marked as being added; any other can be tapped.
TabAdd(k) == /\ screen.at = "tab" /\ "add" \in TabOffers
             /\ k \in {screen.rows[i].key : i \in DOMAIN screen.rows} \ {screen.adding}
             /\ ShowAndAsk([screen EXCEPT !.adding = k], Ask("add", "open", k, MinBuy))
TabAdded(c) == /\ screen.at = "tab" /\ c.what = "add"
               /\ Answer(c, [screen EXCEPT !.adding = None])

-----------------------------------------------------------------------------
(* The list of a category, and the page of a shop.                         *)

\* A page without a category shows an empty list: loadPage returns before it
\* reads and initialLoad goes on to "ready".
CategoryOpen(s) == IF s.id = Filler THEN [s EXCEPT !.phase = "ready"]
                   ELSE [s EXCEPT !.phase = "loading", !.late = Overtaken]
CategoryAsks(s) == IF s.id = Filler THEN {} ELSE Ask("products", "open", s.sel, 1)

CategoryOffers == CASE screen.phase = "loading" -> {}
                    [] screen.phase = "error" -> {"retry"}
                    [] OTHER -> {"sort", "refresh", "end", "product"}

\* Another order makes another loadPage and so another initial load.
CategorySort(k) == /\ screen.at = "category" /\ "sort" \in CategoryOffers /\ k # screen.sel
                   /\ LET s == [screen EXCEPT !.sel = k] IN
                      ShowAndAsk(CategoryOpen(s), CategoryAsks(s))
CategoryRetry == /\ screen.at = "category" /\ "retry" \in CategoryOffers
                 /\ ShowAndAsk(CategoryOpen(screen), CategoryAsks(screen))
CategoryRefresh == /\ screen.at = "category" /\ "refresh" \in CategoryOffers
                   /\ ~screen.refreshing
                   /\ IF screen.id = Filler THEN Show([screen EXCEPT !.phase = "error"])
                      ELSE ShowAndAsk([screen EXCEPT !.refreshing = TRUE, !.late = Overtaken],
                                      Ask("products", "refresh", screen.sel, 1))
\* Mutant: the end of the list is reached again while its next page is read.
CategoryEndTwice == /\ screen.at = "category" /\ "end" \in CategoryOffers
                    /\ screen.page < Pages /\ screen.id # Filler
                    /\ ShowAndAsk([screen EXCEPT !.more = TRUE, !.late = LateWith(NextId)],
                                  Ask("products", "more", screen.sel, screen.page + 1))
CategoryEnd == /\ screen.at = "category" /\ "end" \in CategoryOffers
               /\ ~screen.more /\ screen.page < Pages /\ screen.id # Filler
               /\ ShowAndAsk([screen EXCEPT !.more = TRUE, !.late = LateWith(NextId)],
                             Ask("products", "more", screen.sel, screen.page + 1))

\* initialLoad turns the spinner off, a refresh or the next page does not.
Opened(s, c, phase) == IF c.mode = "open" THEN [s EXCEPT !.phase = phase] ELSE s

CategoryPage(c) == /\ screen.at = "category" /\ c.what = "products"
                   /\ Answer(c, Done(Opened(Put(c), c, "ready"), c))
CategoryFailed(c) == /\ screen.at = "category" /\ c.what = "products"
                     /\ Answer(c, Done(Opened(screen, c, "error"), c))

ShopOffers == CASE screen.phase = "loading" -> {}
                [] screen.phase = "error" \/ screen.rows = <<>> -> {"retry"}
                [] OTHER -> {"sort", "refresh", "end", "product", "search"}
ShopRetry == /\ screen.at = "shop" /\ "retry" \in ShopOffers
             /\ ShowAndAsk([screen EXCEPT !.phase = "loading"], Ask("products", "open", None, 1))
ShopRefresh == /\ screen.at = "shop" /\ "refresh" \in ShopOffers /\ ~screen.refreshing
               /\ ShowAndAsk([screen EXCEPT !.refreshing = TRUE], Ask("products", "refresh", None, 1))
\* The end is the number of products shown, not the number of the page: pages
\* after the last are asked for when an answer that crossed others left a page out.
\* Bound: one such page, the rest are as empty.
ShopEnd == /\ screen.at = "shop" /\ "end" \in ShopOffers
           /\ ~screen.more /\ Len(screen.rows) < Pages /\ screen.page < Pages + 1
           /\ ShowAndAsk([screen EXCEPT !.more = TRUE], Ask("products", "more", None, screen.page + 1))
ShopPage(c) == /\ screen.at = "shop" /\ c.what = "products"
               /\ Answer(c, Done(Opened(Put(c), c, "ready"), c))
ShopFailed(c) == /\ screen.at = "shop" /\ c.what = "products"
                 /\ Answer(c, Done(Opened(screen, c, "error"), c))

-----------------------------------------------------------------------------
(* Sub-categories and search.                                              *)

SubOffers == CASE screen.phase = "loading" -> {}
               [] screen.phase = "error" -> {"retry"}
               [] OTHER -> {"child"}
SubRetry == /\ screen.at = "sub" /\ "retry" \in SubOffers
            /\ ShowAndAsk([screen EXCEPT !.phase = "loading"], Ask("tree", "open", None, 1))
\* findNode looks through the whole tree.
SubTree(c) == /\ screen.at = "sub" /\ c.what = "tree"
              /\ Answer(c, [screen EXCEPT !.phase = IF screen.id \in ToSet(Parents) \cup Children
                                                    THEN "ready" ELSE "error"])
SubFailed(c) == /\ screen.at = "sub" /\ c.what = "tree"
                /\ Answer(c, [screen EXCEPT !.phase = "error"])

\* The input and the search button stay in place whatever is shown below: the
\* spinner while loading, then the error that is set (list), then the guide
\* until something was found, whose words are taken over like typed ones.  sel is
\* the keyword that was searched last, which the screen itself does not keep.
SearchType(k) == /\ screen.at = "search" /\ k # screen.word
                 /\ Show([screen EXCEPT !.word = k])
SearchGuide(k) == /\ k # None /\ screen.phase = "ready" /\ screen.list = "ready" /\ screen.rows = <<>>
                  /\ SearchType(k)
\* An error is cleared by the next search only: one that is set while a search
\* is under way hides what that search finds.
SearchRun == /\ screen.at = "search"
             /\ IF screen.word = None THEN Show([screen EXCEPT !.list = "error"])
                ELSE ShowAndAsk([screen EXCEPT !.phase = "loading", !.list = "ready",
                                               !.sel = screen.word, !.late = Overtaken],
                                Ask("products", "open", screen.word, 1))
SearchFound(c) == /\ screen.at = "search" /\ c.what = "products"
                  /\ Answer(c, Done([Put(c) EXCEPT !.phase = "ready"], c))
SearchFailed(c) == /\ screen.at = "search" /\ c.what = "products"
                   /\ Answer(c, Done([screen EXCEPT !.phase = "ready", !.list = "error", !.rows = <<>>], c))

-----------------------------------------------------------------------------
(* The page of a product.                                                  *)

\* Math.round: halves go up.
RoundDiv(a, b) == (2 * a + b) \div (2 * b)
\* Mutant: the quantity is rounded to multiples of the step from zero.
SnapFromZero(q) == IF q <= MinBuy THEN MinBuy ELSE RoundDiv(q, StepBuy) * StepBuy
snapQuantity(q) == IF q <= MinBuy THEN MinBuy
                   ELSE MinBuy + RoundDiv(q - MinBuy, StepBuy) * StepBuy

DetailLoad(s) == [s EXCEPT !.phase = "loading"]
DetailShown(c) == /\ screen.at = "detail" /\ c.what = "detail"
                  /\ Answer(c, [screen EXCEPT !.phase = "ready", !.quantity = MinBuy])
DetailFailed(c) == /\ screen.at = "detail" /\ c.what = "detail"
                   /\ Answer(c, [screen EXCEPT !.phase = "error"])
DetailOffers == CASE screen.phase = "loading" -> {}
                  [] screen.phase = "error" -> {"retry"}
                  [] OTHER -> {"quantity", "shop"} \cup (IF screen.adding = None THEN {"add"} ELSE {})
DetailRetry == /\ screen.at = "detail" /\ "retry" \in DetailOffers
               /\ ShowAndAsk(DetailLoad(screen), Ask("detail", "open", None, 1))
\* QuantityStepper: a typed draft when the input is left, or one step more or less.
DetailQuantity(q) == /\ screen.at = "detail" /\ "quantity" \in DetailOffers
                     /\ Show([screen EXCEPT !.quantity = snapQuantity(q)])
DetailAdd == /\ screen.at = "detail" /\ "add" \in DetailOffers
             /\ ShowAndAsk([screen EXCEPT !.adding = "detail"],
                           Ask("add", "open", None, screen.quantity))
DetailAdded(c) == /\ screen.at = "detail" /\ c.what = "add"
                  /\ Answer(c, [screen EXCEPT !.adding = None])

-----------------------------------------------------------------------------
(* From screen to screen.  What the screen left behind still reads is not   *)
(* followed: a component that is gone ignores its answers.                  *)

FirstAsk(at, sel) ==
    CASE at \in {"home", "shop"} -> {<<"products", None>>}
      [] at = "category" -> {<<"products", sel>>}
      [] at \in {"tab", "sub"} -> {<<"tree", None>>}
      [] at = "detail" -> {<<"detail", None>>}
      [] at = "search" -> {}

GoTo(at, id) ==
    LET sel == IF at = "category" THEN "sales_desc" ELSE None
        blank == [Blank(at, id) EXCEPT !.sel = sel]
        asks == FirstAsk(at, sel)
    IN /\ screen' = IF asks = {} THEN [blank EXCEPT !.phase = "ready"] ELSE blank
       /\ calls' = {[id |-> 1, what |-> a[1], mode |-> "open", key |-> a[2], page |-> 1,
                     from |-> None] : a \in asks}

\* The shops on the home screen are those of its products.
FeaturedShops == ToSet(screen.rows)
RecommendedProductCard == "product" \in HomeOffers /\ screen.rows # <<>> /\ GoTo("detail", None)
FeaturedShopCard == "shop" \in HomeOffers /\ FeaturedShops # {} /\ GoTo("shop", None)
HomeGo == \/ /\ screen.at = "home" /\ "tile" \in HomeOffers
             /\ \E p \in HomeTiles : GoTo(TileTarget(p)[1], TileTarget(p)[2])
          \/ screen.at = "home" /\ (RecommendedProductCard \/ FeaturedShopCard)
SearchGo == screen.at \in {"home", "tab", "shop"} /\ screen.phase = "ready" /\ GoTo("search", None)
SubGo == /\ screen.at = "sub" /\ "child" \in SubOffers
         /\ \E k \in ToSet(Options(screen.id)) : GoTo("category", k)
\* A card opens its product; the shop of a product opens its page; the "+" of
\* a card of these lists only leads to the cart.
CardGo == /\ screen.at \in {"category", "search", "shop", "tab"}
          /\ screen.phase = "ready" /\ screen.rows # <<>>
          /\ screen.at = "search" => screen.list = "ready"
          /\ GoTo("detail", None)
DetailGo == screen.at = "detail" /\ "shop" \in DetailOffers /\ GoTo("shop", None)
Back == screen.at \notin {"home"} /\ GoTo("home", None)

-----------------------------------------------------------------------------
\* The home screen, or a link from outside to a category that is none.
Init == \/ /\ screen = Blank("home", None)
           /\ calls = {[id |-> 1, what |-> "products", mode |-> "open", key |-> None,
                        page |-> 1, from |-> None]}
        \/ /\ screen = [Blank("category", Filler) EXCEPT !.phase = "ready", !.sel = "sales_desc"]
           /\ calls = {}

AnswerStep(c) ==
    \/ HomeProducts(c) \/ HomeAddresses(c) \/ HomeFailed(c)
    \/ TabTree(c) \/ TabTreeFailed(c) \/ TabProducts(c) \/ TabProductsFailed(c) \/ TabAdded(c)
    \/ CategoryPage(c) \/ CategoryFailed(c) \/ ShopPage(c) \/ ShopFailed(c)
    \/ SubTree(c) \/ SubFailed(c) \/ SearchFound(c) \/ SearchFailed(c)
    \/ DetailShown(c) \/ DetailFailed(c) \/ DetailAdded(c)

Tap == \/ screen.at = "home" /\ HomeTap
       \/ HomeTokenChanged
       \/ \E p \in ToSet(Parents) : TabParent(p)
       \/ \E k \in Children : TabChild(k) \/ TabAdd(k)
       \/ TabEnd
       \/ screen.at = "tab" /\ TabRefresh
       \/ screen.at = "tab" /\ TabRetry
       \/ \E k \in Sorts : CategorySort(k)
       \/ CategoryRetry \/ CategoryRefresh \/ CategoryEnd
       \/ ShopRetry \/ ShopRefresh \/ ShopEnd
       \/ SubRetry
       \/ \E k \in Keywords \cup {None} : SearchType(k) \/ SearchGuide(k)
       \/ SearchRun
       \/ DetailRetry \/ DetailAdd
       \/ \E q \in Quantities : DetailQuantity(q)

Go == HomeGo \/ SearchGo \/ SubGo \/ CardGo \/ DetailGo \/ Back

Next == \/ \E c \in calls : AnswerStep(c)
        \/ MayAct /\ Tap
        \/ Go

Spec == Init /\ [][Next]_vars /\ \A i \in Ids : WF_vars(\E c \in calls : c.id = i /\ AnswerStep(c))

-----------------------------------------------------------------------------
(* Properties.                                                             *)

TypeOK ==
    /\ screen.at \in Screens
    /\ screen.phase \in {"loading", "ready", "error"}
    /\ screen.list \in {"loading", "ready", "error"}
    /\ screen.sel \in Selections \cup {None}
    /\ screen.page \in 1..(Pages + 1)
    /\ \A i \in DOMAIN screen.rows : screen.rows[i].page \in 1..Pages
    /\ Cardinality(calls) <= MaxCalls + 1
    /\ \A c, d \in calls : c.id = d.id => c = d

\* A spinner is shown only while something that will turn it off is in flight.
SpinnerHasCall ==
    /\ screen.phase = "loading" => \E c \in calls : c.mode # "more"
    /\ screen.list = "loading" => Reading("products")
    /\ screen.more => \E c \in calls : c.mode = "more"
    /\ screen.refreshing => \E c \in calls : c.mode = "refresh"

Listed == screen.at \in {"tab", "category", "search"} /\ screen.phase = "ready"
          /\ screen.list = "ready" /\ screen.rows # <<>> /\ calls = {}

\* At rest a list is the pages from the first to the current one of what is
\* selected, each once, unless the answer of a read that another one had
\* overtaken came after what overtook it: no screen tells a late answer.
ListIsWhole ==
    Listed /\ ~screen.tangled =>
        screen.rows = [i \in 1..screen.page |-> [key |-> screen.sel, page |-> i]]

\* What the page of a product sends to the cart is a quantity the server takes:
\* at least the minimum, and the minimum plus whole steps.
SentQuantityLegal ==
    \A c \in calls : c.what = "add" => c.page >= MinBuy /\ (c.page - MinBuy) % StepBuy = 0

=============================================================================
