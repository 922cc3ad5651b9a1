---------------------- MODULE BuyerApp_browse_proofs ----------------------
(***************************************************************************)
(* Lemmas about the catalogue of BuyerApp: what its screens show and wait  *)
(* for, for any catalogue and number of reads in flight.                   *)
(***************************************************************************)
EXTENDS BuyerApp, FiniteSetTheorems, TLAPS

-----------------------------------------------------------------------------
(* Requests under way: finitely many, each with an id of its own.          *)

Numbered(cs) == /\ IsFiniteSet(cs) /\ \A c \in cs : c.id \in Nat
                /\ \A c, d \in cs : c.id = d.id => c = d
New(cs, i) == i \in Nat /\ \A c \in cs : c.id # i

\* A set of numbers that is smaller than an interval leaves one of it free.
LEMMA FreeNumber ==
    ASSUME NEW cs, IsFiniteSet(cs), NEW n \in Nat, Cardinality(cs) < n
    PROVE  \E i \in 1 .. n : \A c \in cs : c.id # i
  <1> SUFFICES ASSUME \A i \in 1 .. n : \E c \in cs : c.id = i PROVE FALSE
    OBVIOUS
  <1> DEFINE f == [i \in 1 .. n |-> CHOOSE c \in cs : c.id = i]
  <1>1. f \in [1 .. n -> cs] /\ \A i \in 1 .. n : f[i].id = i
    OBVIOUS
  <1>2. IsFiniteSet(1 .. n) /\ Cardinality(1 .. n) = n
    BY FS_Interval
  <1> HIDE DEF f
  <1>3. \E i, j \in 1 .. n : i # j /\ f[i] = f[j]
    BY <1>1, <1>2, FS_PigeonHole
  <1> QED
    BY <1>1, <1>3

LEMMA SizeInCart == ASSUME NEW S PROVE Cart!Cardinality(S) = Cardinality(S)
  BY DEF Cart!Cardinality, Cardinality

LEMMA CartNewId == ASSUME NEW cs, Numbered(cs) PROVE New(cs, Cart!NewId(cs))
  <1>1. Cardinality(cs) \in Nat
    BY FS_CardinalityType DEF Numbered
  <1>2. \E i \in 1 .. (Cardinality(cs) + 1) : \A c \in cs : c.id # i
    BY <1>1, FreeNumber DEF Numbered
  <1>3. \E i \in 1 .. (Cart!Cardinality(cs) + 1) : i \notin {c.id : c \in cs}
    BY <1>2, SizeInCart
  <1>4. /\ Cart!NewId(cs) \in 1 .. (Cart!Cardinality(cs) + 1)
        /\ Cart!NewId(cs) \notin {c.id : c \in cs}
    BY <1>3 DEF Cart!NewId
  <1> QED
    BY <1>1, <1>4, SizeInCart DEF New

LEMMA NumberedMore ==
    ASSUME NEW cs, Numbered(cs), NEW c, New(cs, c.id)
    PROVE  Numbered(cs \cup {c}) /\ Cardinality(cs \cup {c}) = Cardinality(cs) + 1
  <1>1. c \notin cs
    BY DEF New
  <1> QED
    BY <1>1, FS_AddElement DEF Numbered, New

LEMMA NumberedFewer ==
    ASSUME NEW cs, Numbered(cs), NEW ds, ds \subseteq cs
    PROVE  Numbered(ds) /\ Cardinality(ds) <= Cardinality(cs)
  BY FS_Subset DEF Numbered

LEMMA NumberedLess ==
    ASSUME NEW cs, Numbered(cs), NEW c \in cs
    PROVE  /\ Numbered(cs \ {c}) /\ Cardinality(cs \ {c}) = Cardinality(cs) - 1
           /\ Cardinality(cs) \in Nat /\ New(cs \ {c}, c.id)
  <1>1. Cardinality(cs \ {c}) = Cardinality(cs) - 1 /\ Cardinality(cs) \in Nat
    BY FS_RemoveElement, FS_CardinalityType DEF Numbered
  <1>2. Numbered(cs \ {c})
    BY NumberedFewer
  <1>3. New(cs \ {c}, c.id)
    BY DEF New, Numbered
  <1> QED
    BY <1>1, <1>2, <1>3

\* A request that was handled keeps its place.
LEMMA NumberedSwap ==
    ASSUME NEW cs, Numbered(cs), NEW c \in cs, NEW d, d.id = c.id,
           NEW ds, ds = (cs \ {c}) \cup {d}
    PROVE  Numbered(ds) /\ Cardinality(ds) = Cardinality(cs)
  <1>1. /\ Numbered(cs \ {c}) /\ Cardinality(cs \ {c}) = Cardinality(cs) - 1
        /\ Cardinality(cs) \in Nat /\ New(cs \ {c}, d.id)
    BY NumberedLess
  <1> QED
    BY <1>1, NumberedMore

-----------------------------------------------------------------------------
(* The catalogue: the quantity of a product page is legal from the time on  *)
(* that the page is shown.                                                 *)

Legal(q) == q >= MinBuy /\ (q - MinBuy) % StepBuy = 0

BrowseInv ==
    /\ {"at", "phase", "quantity"} \subseteq DOMAIN screen
    /\ screen.at = "detail" /\ screen.phase \notin {"loading", "error"} => Legal(screen.quantity)
    /\ \A c \in calls : c.what = "add" => Legal(c.page)

LEMMA WholeSteps == ASSUME NEW s \in Nat \ {0}, NEW n \in Nat PROVE (n * s) % s = 0
  OBVIOUS

LEMMA MinBuyIsLegal == Legal(MinBuy)
  BY BuyerAppAssumption DEF Legal

\* Whatever is typed.
LEMMA SnappedIsLegal == ASSUME NEW q \in Nat PROVE Legal(Browse!snapQuantity(q))
  <1>1. CASE q <= MinBuy
    BY <1>1, MinBuyIsLegal DEF Browse!snapQuantity
  <1>2. CASE ~(q <= MinBuy)
    <2> DEFINE n == Browse!RoundDiv(q - MinBuy, StepBuy)
    <2>1. MinBuy \in Nat /\ StepBuy \in Nat \ {0}
      BY BuyerAppAssumption
    <2>2. q - MinBuy \in Nat
      BY <1>2, <2>1
    <2>3. n \in Nat
      BY <2>1, <2>2 DEF Browse!RoundDiv
    <2>4. Browse!snapQuantity(q) = MinBuy + n * StepBuy
      BY <1>2 DEF Browse!snapQuantity
    <2> HIDE DEF n
    <2>5. n * StepBuy \in Nat
      BY <2>1, <2>3
    <2>6. (n * StepBuy) % StepBuy = 0
      BY <2>1, <2>3, WholeSteps
    <2> QED
      BY <2>1, <2>4, <2>5, <2>6 DEF Legal
  <1> QED
    BY <1>1, <1>2

\* A step on a screen that is no product page.
Elsewhere == /\ DOMAIN screen' = DOMAIN screen /\ screen'.at = screen.at /\ screen.at # "detail"
             /\ \A c \in calls' : c \in calls \/ c.what # "add" \/ Legal(c.page)

LEMMA ElsewhereKeeps == ASSUME BrowseInv, Elsewhere PROVE BrowseInv'
  BY DEF BrowseInv, Elsewhere, Legal

\* What t has of s: all but what the lists are about.
Same(t, s) == DOMAIN t = DOMAIN s /\ t.at = s.at

LEMMA SamePut == ASSUME BrowseInv, NEW c PROVE Same(Browse!Put(c), screen)
  BY DEF BrowseInv, Browse!Put, Same

LEMMA SameDone == ASSUME NEW s, NEW c, "at" \in DOMAIN s PROVE Same(Browse!Done(s, c), s)
  BY DEF Browse!Done, Same

LEMMA SameOpened ==
    ASSUME NEW s, NEW c, NEW phase, "at" \in DOMAIN s PROVE Same(Browse!Opened(s, c, phase), s)
  BY DEF Browse!Opened, Same

LEMMA SamePhase ==
    ASSUME NEW s, NEW phase, "at" \in DOMAIN s PROVE Same([s EXCEPT !.phase = phase], s)
  BY DEF Same

LEMMA HomeSteps ==
    ASSUME BrowseInv, \/ \E c \in calls : Browse!HomeProducts(c) \/ Browse!HomeAddresses(c) \/ Browse!HomeFailed(c)
                      \/ screen.at = "home" /\ Browse!HomeTap
                      \/ Browse!HomeTokenChanged
    PROVE  Elsewhere
  <1>0. "at" \in DOMAIN screen
    BY DEF BrowseInv
  <1>1. ASSUME NEW c \in calls, Browse!HomeProducts(c) PROVE Elsewhere
    <2> PICK s : s = Browse!Put(c)
      OBVIOUS
    <2> PICK t : t = [s EXCEPT !.phase = "ready"]
      OBVIOUS
    <2>1. /\ screen' = s \/ screen' = Browse!Done(t, c)
          /\ screen.at = "home"
          /\ \A d \in calls' : d \in calls \/ d.what = "addresses"
      BY <1>1 DEF Browse!HomeProducts, Browse!AnswerAndAsk, Browse!Answer, Browse!Ask, Browse!Call
    <2>2. Same(s, screen)
      BY SamePut
    <2>3. Same(t, s)
      BY <1>0, <2>2, SamePhase DEF Same
    <2>4. Same(screen', s)
      BY <1>0, <2>1, <2>2, <2>3, SameDone DEF Same
    <2> QED
      BY <2>1, <2>2, <2>4 DEF Same, Elsewhere
  <1>2. ASSUME NEW c \in calls, Browse!HomeAddresses(c) \/ Browse!HomeFailed(c) PROVE Elsewhere
    BY <1>2 DEF BrowseInv, Elsewhere, Browse!HomeAddresses, Browse!HomeFailed, Browse!Answer, Browse!Done
  <1>3. ASSUME NEW show \in BOOLEAN, Browse!HomeLoad(show) PROVE Elsewhere
    BY <1>3 DEF BrowseInv, Elsewhere, Browse!HomeLoad, Browse!ShowAndAsk, Browse!Ask, Browse!Call
  <1>4. Browse!HomeTap \/ Browse!HomeTokenChanged => \E show \in BOOLEAN : Browse!HomeLoad(show)
    BY DEF Browse!HomeTap, Browse!HomeTokenChanged
  <1> QED
    BY <1>1, <1>2, <1>3, <1>4

TabAnswers(c) == Browse!TabTree(c) \/ Browse!TabTreeFailed(c) \/ Browse!TabProducts(c)
                 \/ Browse!TabProductsFailed(c) \/ Browse!TabAdded(c)

LEMMA TabAnswersElsewhere ==
    ASSUME BrowseInv, NEW c \in calls, TabAnswers(c) PROVE Elsewhere
  <1>1. CASE Browse!TabTree(c)
    BY <1>1 DEF BrowseInv, Elsewhere, Browse!TabTree, Browse!TabSelect, Browse!TabSelectAsks,
                Browse!AnswerAndAsk, Browse!Ask, Browse!Call
  <1>2. CASE Browse!TabTreeFailed(c)
    BY <1>2 DEF BrowseInv, Elsewhere, Browse!TabTreeFailed, Browse!Answer, Browse!Done
  <1>3. CASE Browse!TabProducts(c)
    BY <1>3 DEF BrowseInv, Elsewhere, Browse!TabProducts, Browse!Put, Browse!Answer, Browse!Done
  <1>4. CASE Browse!TabProductsFailed(c)
    BY <1>4 DEF BrowseInv, Elsewhere, Browse!TabProductsFailed, Browse!Answer, Browse!Done
  <1>5. CASE Browse!TabAdded(c)
    BY <1>5 DEF BrowseInv, Elsewhere, Browse!TabAdded, Browse!Answer
  <1> QED
    BY <1>1, <1>2, <1>3, <1>4, <1>5 DEF TabAnswers

TabTaps == \/ \E p \in Browse!ToSet(Parents) : Browse!TabParent(p)
           \/ \E k \in Browse!Children : Browse!TabChild(k) \/ Browse!TabAdd(k)
           \/ Browse!TabEnd \/ Browse!TabRefresh \/ Browse!TabRetry

LEMMA TabTapsElsewhere == ASSUME BrowseInv, TabTaps PROVE Elsewhere
  <1>1. ASSUME NEW p, Browse!TabParent(p) PROVE Elsewhere
    BY <1>1 DEF BrowseInv, Elsewhere, Browse!TabParent, Browse!TabSelect, Browse!TabSelectAsks,
                Browse!ShowAndAsk, Browse!Ask, Browse!Call
  <1>2. ASSUME NEW k, Browse!TabChild(k) PROVE Elsewhere
    BY <1>2 DEF BrowseInv, Elsewhere, Browse!TabChild, Browse!TabSelect, Browse!TabSelectAsks,
                Browse!ShowAndAsk, Browse!Ask, Browse!Call
  <1>3. ASSUME NEW k, Browse!TabAdd(k) PROVE Elsewhere
    BY <1>3, MinBuyIsLegal DEF BrowseInv, Elsewhere, Browse!TabAdd, Browse!ShowAndAsk, Browse!Ask, Browse!Call
  <1>4. CASE Browse!TabEnd
    BY <1>4 DEF BrowseInv, Elsewhere, Browse!TabEnd, Browse!ShowAndAsk, Browse!Ask, Browse!Call
  <1>5. ASSUME NEW show \in BOOLEAN, Browse!TabLoadCategories(show) PROVE Elsewhere
    BY <1>5 DEF BrowseInv, Elsewhere, Browse!TabLoadCategories, Browse!ShowAndAsk, Browse!Ask, Browse!Call
  <1>6. ASSUME screen.at = "tab", Browse!TabLoadProducts PROVE Elsewhere
    BY <1>6 DEF BrowseInv, Elsewhere, Browse!TabLoadProducts, Browse!ShowAndAsk, Browse!Ask, Browse!Call
  <1>7. Browse!TabRefresh \/ Browse!TabRetry =>
          (\E show \in BOOLEAN : Browse!TabLoadCategories(show)) \/ (screen.at = "tab" /\ Browse!TabLoadProducts)
    BY DEF Browse!TabRefresh, Browse!TabRetry
  <1> QED
    BY <1>1, <1>2, <1>3, <1>4, <1>5, <1>6, <1>7 DEF TabTaps

ListAnswers(c) == Browse!CategoryPage(c) \/ Browse!CategoryFailed(c) \/ Browse!ShopPage(c) \/ Browse!ShopFailed(c)
                  \/ Browse!SubTree(c) \/ Browse!SubFailed(c) \/ Browse!SearchFound(c) \/ Browse!SearchFailed(c)

LEMMA ListAnswersElsewhere == ASSUME BrowseInv, NEW c \in calls, ListAnswers(c) PROVE Elsewhere
  <1>0. "at" \in DOMAIN screen
    BY DEF BrowseInv
  <1>1. CASE Browse!CategoryPage(c) \/ Browse!ShopPage(c)
    <2> PICK s1 : s1 = Browse!Put(c)
      OBVIOUS
    <2> PICK s2 : s2 = Browse!Opened(s1, c, "ready")
      OBVIOUS
    <2>1. screen' = Browse!Done(s2, c) /\ calls' = calls \ {c} /\ screen.at \in {"category", "shop"}
      BY <1>1 DEF Browse!CategoryPage, Browse!ShopPage, Browse!Answer
    <2>2. Same(s1, screen)
      BY SamePut
    <2>3. Same(s2, s1)
      BY <1>0, <2>2, SameOpened DEF Same
    <2>4. Same(screen', s2)
      BY <1>0, <2>1, <2>2, <2>3, SameDone DEF Same
    <2> QED
      BY <2>1, <2>2, <2>3, <2>4 DEF Same, Elsewhere
  <1>2. CASE Browse!CategoryFailed(c) \/ Browse!ShopFailed(c)
    <2> PICK s : s = Browse!Opened(screen, c, "error")
      OBVIOUS
    <2>1. screen' = Browse!Done(s, c) /\ calls' = calls \ {c} /\ screen.at \in {"category", "shop"}
      BY <1>2 DEF Browse!CategoryFailed, Browse!ShopFailed, Browse!Answer
    <2>2. Same(s, screen)
      BY <1>0, SameOpened
    <2>3. Same(screen', s)
      BY <1>0, <2>1, <2>2, SameDone DEF Same
    <2> QED
      BY <2>1, <2>2, <2>3 DEF Same, Elsewhere
  <1>3. CASE Browse!SubTree(c) \/ Browse!SubFailed(c) \/ Browse!SearchFailed(c)
    <2>1. CASE Browse!SubTree(c)
      BY <2>1 DEF BrowseInv, Elsewhere, Browse!SubTree, Browse!Answer
    <2>2. CASE Browse!SubFailed(c)
      BY <2>2 DEF BrowseInv, Elsewhere, Browse!SubFailed, Browse!Answer
    <2>3. CASE Browse!SearchFailed(c)
      BY <2>3 DEF BrowseInv, Elsewhere, Browse!SearchFailed, Browse!Answer, Browse!Done
    <2> QED
      BY <1>3, <2>1, <2>2, <2>3
  <1>4. CASE Browse!SearchFound(c)
    <2> PICK s : s = Browse!Put(c)
      OBVIOUS
    <2> PICK t : t = [s EXCEPT !.phase = "ready"]
      OBVIOUS
    <2>1. screen' = Browse!Done(t, c) /\ calls' = calls \ {c} /\ screen.at = "search"
      BY <1>4 DEF Browse!SearchFound, Browse!Answer
    <2>2. Same(s, screen)
      BY SamePut
    <2>3. Same(t, s)
      BY <1>0, <2>2, SamePhase DEF Same
    <2>4. Same(screen', t)
      BY <1>0, <2>1, <2>2, <2>3, SameDone DEF Same
    <2> QED
      BY <2>1, <2>2, <2>3, <2>4 DEF Same, Elsewhere
  <1> QED
    BY <1>1, <1>2, <1>3, <1>4 DEF ListAnswers

ListTaps == \/ \E k \in Sorts : Browse!CategorySort(k)
            \/ Browse!CategoryRetry \/ Browse!CategoryRefresh \/ Browse!CategoryEnd
            \/ Browse!ShopRetry \/ Browse!ShopRefresh \/ Browse!ShopEnd \/ Browse!SubRetry
            \/ \E k \in Keywords \cup {None} : Browse!SearchType(k) \/ Browse!SearchGuide(k)
            \/ Browse!SearchRun

LEMMA ListTapsElsewhere == ASSUME BrowseInv, ListTaps PROVE Elsewhere
  <1>1. ASSUME NEW k, Browse!CategorySort(k) PROVE Elsewhere
    BY <1>1 DEF BrowseInv, Elsewhere, Browse!CategorySort, Browse!CategoryOpen, Browse!CategoryAsks,
                Browse!ShowAndAsk, Browse!Ask, Browse!Call
  <1>2. CASE Browse!CategoryRetry
    BY <1>2 DEF BrowseInv, Elsewhere, Browse!CategoryRetry, Browse!CategoryOpen, Browse!CategoryAsks,
                Browse!ShowAndAsk, Browse!Ask, Browse!Call
  <1>3. CASE Browse!CategoryRefresh
    <2>1. CASE screen.id = "filler"
      <3>1. screen' = [screen EXCEPT !.phase = "error"] /\ calls' = calls /\ screen.at = "category"
        BY <1>3, <2>1 DEF Browse!CategoryRefresh, Browse!Show, Browse!Filler
      <3>2. screen'.at = screen.at
        BY <3>1
      <3> QED
        BY <3>1, <3>2 DEF BrowseInv, Elsewhere
    <2>2. CASE screen.id # "filler"
      <3>1. /\ screen' = [screen EXCEPT !.refreshing = TRUE, !.late = Browse!Overtaken]
            /\ calls' = calls \cup Browse!Ask("products", "refresh", screen.sel, 1) /\ screen.at = "category"
        BY <1>3, <2>2 DEF Browse!CategoryRefresh, Browse!ShowAndAsk, Browse!Filler
      <3> QED
        BY <3>1 DEF BrowseInv, Elsewhere, Browse!Ask, Browse!Call
    <2> QED
      BY <2>1, <2>2
  <1>4. CASE Browse!CategoryEnd \/ Browse!ShopEnd
    <2>1. CASE Browse!CategoryEnd
      BY <2>1 DEF BrowseInv, Elsewhere, Browse!CategoryEnd, Browse!ShowAndAsk, Browse!Ask, Browse!Call
    <2>2. CASE Browse!ShopEnd
      BY <2>2 DEF BrowseInv, Elsewhere, Browse!ShopEnd, Browse!ShowAndAsk, Browse!Ask, Browse!Call
    <2> QED
      BY <1>4, <2>1, <2>2
  <1>5. CASE Browse!ShopRetry \/ Browse!ShopRefresh \/ Browse!SubRetry
    <2>1. CASE Browse!ShopRetry
      BY <2>1 DEF BrowseInv, Elsewhere, Browse!ShopRetry, Browse!ShowAndAsk, Browse!Ask, Browse!Call
    <2>2. CASE Browse!ShopRefresh
      BY <2>2 DEF BrowseInv, Elsewhere, Browse!ShopRefresh, Browse!ShowAndAsk, Browse!Ask, Browse!Call
    <2>3. CASE Browse!SubRetry
      BY <2>3 DEF BrowseInv, Elsewhere, Browse!SubRetry, Browse!ShowAndAsk, Browse!Ask, Browse!Call
    <2> QED
      BY <1>5, <2>1, <2>2, <2>3
  <1>6. ASSUME NEW k, Browse!SearchType(k) \/ Browse!SearchGuide(k) PROVE Elsewhere
    BY <1>6 DEF BrowseInv, Elsewhere, Browse!SearchType, Browse!SearchGuide, Browse!Show
  <1>7. CASE Browse!SearchRun
    <2>1. CASE screen.word = None
      <3>1. screen' = [screen EXCEPT !.list = "error"] /\ calls' = calls /\ screen.at = "search"
        BY <1>7, <2>1 DEF Browse!SearchRun, Browse!Show
      <3> QED
        BY <3>1 DEF BrowseInv, Elsewhere
    <2>2. CASE screen.word # None
      <3>1. /\ screen' = [screen EXCEPT !.phase = "loading", !.list = "ready", !.sel = screen.word,
                                         !.late = Browse!Overtaken]
            /\ calls' = calls \cup Browse!Ask("products", "open", screen.word, 1) /\ screen.at = "search"
        BY <1>7, <2>2 DEF Browse!SearchRun, Browse!ShowAndAsk
      <3> QED
        BY <3>1 DEF BrowseInv, Elsewhere, Browse!Ask, Browse!Call
    <2> QED
      BY <2>1, <2>2
  <1> QED
    BY <1>1, <1>2, <1>3, <1>4, <1>5, <1>6, <1>7 DEF ListTaps

\* The page of a product: its quantity is the minimum when it is shown, and a
\* snapped one afterwards.
LEMMA DetailAnswers ==
    ASSUME BrowseInv, NEW c \in calls, Browse!DetailShown(c) \/ Browse!DetailFailed(c) \/ Browse!DetailAdded(c)
    PROVE  BrowseInv'
  <1>1. CASE Browse!DetailShown(c)
    <2>1. screen' = [screen EXCEPT !.phase = "ready", !.quantity = MinBuy] /\ calls' = calls \ {c}
      BY <1>1 DEF Browse!DetailShown, Browse!Answer
    <2>2. DOMAIN screen' = DOMAIN screen /\ screen'.quantity = MinBuy
      BY <2>1 DEF BrowseInv
    <2> QED
      BY <2>1, <2>2, MinBuyIsLegal DEF BrowseInv
  <1>2. CASE Browse!DetailFailed(c)
    <2>1. screen' = [screen EXCEPT !.phase = "error"] /\ calls' = calls \ {c}
      BY <1>2 DEF Browse!DetailFailed, Browse!Answer
    <2>2. DOMAIN screen' = DOMAIN screen /\ screen'.phase = "error"
      BY <2>1 DEF BrowseInv
    <2> QED
      BY <2>1, <2>2 DEF BrowseInv
  <1>3. CASE Browse!DetailAdded(c)
    <2>1. screen' = [screen EXCEPT !.adding = None] /\ calls' = calls \ {c}
      BY <1>3 DEF Browse!DetailAdded, Browse!Answer
    <2>2. /\ DOMAIN screen' = DOMAIN screen /\ screen'.at = screen.at
          /\ screen'.phase = screen.phase /\ screen'.quantity = screen.quantity
      BY <2>1 DEF BrowseInv
    <2> QED
      BY <2>1, <2>2 DEF BrowseInv
  <1> QED
    BY <1>1, <1>2, <1>3

LEMMA DetailTaps ==
    ASSUME BrowseInv, \/ Browse!DetailRetry \/ Browse!DetailAdd
                      \/ \E q \in Quantities : Browse!DetailQuantity(q)
    PROVE  BrowseInv'
  <1>1. CASE Browse!DetailRetry
    <2>1. /\ screen' = [screen EXCEPT !.phase = "loading"]
          /\ \A c \in calls' : c \in calls \/ c.what = "detail"
      BY <1>1 DEF Browse!DetailRetry, Browse!DetailLoad, Browse!ShowAndAsk, Browse!Ask, Browse!Call
    <2>2. DOMAIN screen' = DOMAIN screen /\ screen'.phase = "loading"
      BY <2>1 DEF BrowseInv
    <2> QED
      BY <2>1, <2>2 DEF BrowseInv
  <1>2. CASE Browse!DetailAdd
    <2>1. screen.at = "detail" /\ screen.phase \notin {"loading", "error"}
      BY <1>2 DEF Browse!DetailAdd, Browse!DetailOffers
    <2>2. Legal(screen.quantity)
      BY <2>1 DEF BrowseInv
    <2>3. /\ screen' = [screen EXCEPT !.adding = "detail"]
          /\ \A c \in calls' : c \in calls \/ c.page = screen.quantity
      BY <1>2 DEF Browse!DetailAdd, Browse!ShowAndAsk, Browse!Ask, Browse!Call
    <2>4. /\ DOMAIN screen' = DOMAIN screen /\ screen'.at = screen.at
          /\ screen'.phase = screen.phase /\ screen'.quantity = screen.quantity
      BY <2>3 DEF BrowseInv
    <2> QED
      BY <2>2, <2>3, <2>4 DEF BrowseInv
  <1>3. ASSUME NEW q \in Quantities, Browse!DetailQuantity(q) PROVE BrowseInv'
    <2> PICK n : n = Browse!snapQuantity(q)
      OBVIOUS
    <2>1. Legal(n)
      BY BuyerAppAssumption, SnappedIsLegal
    <2>2. screen' = [screen EXCEPT !.quantity = n] /\ calls' = calls
      BY <1>3 DEF Browse!DetailQuantity, Browse!Show
    <2>3. DOMAIN screen' = DOMAIN screen /\ screen'.quantity = n
      BY <2>2 DEF BrowseInv
    <2> QED
      BY <2>1, <2>2, <2>3 DEF BrowseInv
  <1> QED
    BY <1>1, <1>2, <1>3

\* A screen that is left is replaced by a blank one, that knows no quantity yet.
LEMMA GoToKeeps == ASSUME NEW at \in Browse!Screens, NEW id, Browse!GoTo(at, id) PROVE BrowseInv'
  <1> PICK sel : sel = IF at = "category" THEN "sales_desc" ELSE None
    OBVIOUS
  <1> PICK blank : blank = [Browse!Blank(at, id) EXCEPT !.sel = sel]
    OBVIOUS
  <1> PICK asks : asks = Browse!FirstAsk(at, sel)
    OBVIOUS
  <1>1. /\ screen' = IF asks = {} THEN [blank EXCEPT !.phase = "ready"] ELSE blank
        /\ calls' = {[id |-> 1, what |-> a[1], mode |-> "open", key |-> a[2], page |-> 1, from |-> None] : a \in asks}
    BY DEF Browse!GoTo
  <1>2. \A a \in asks : a[1] # "add"
    BY DEF Browse!FirstAsk, Browse!Screens
  <1>3. at = "detail" => asks # {}
    BY DEF Browse!FirstAsk
  <1>4. {"at", "phase", "quantity"} \subseteq DOMAIN blank /\ blank.at = at /\ blank.phase = "loading"
    BY DEF Browse!Blank
  <1>5. /\ {"at", "phase", "quantity"} \subseteq DOMAIN screen'
        /\ screen'.at = "detail" => screen'.phase = "loading"
    BY <1>1, <1>3, <1>4
  <1>6. \A c \in calls' : c.what # "add"
    BY <1>1, <1>2
  <1> QED
    BY <1>5, <1>6 DEF BrowseInv

LEMMA BrowseStarts == Browse!Init => BrowseInv
  <1>1. ASSUME screen = Browse!Blank("home", None),
               calls = {[id |-> 1, what |-> "products", mode |-> "open", key |-> None,
                         page |-> 1, from |-> None]}
        PROVE  BrowseInv
    BY <1>1 DEF Browse!Blank, BrowseInv
  <1>2. ASSUME screen = [Browse!Blank("category", Browse!Filler) EXCEPT !.phase = "ready", !.sel = "sales_desc"],
               calls = {}
        PROVE  BrowseInv
    BY <1>2 DEF Browse!Blank, BrowseInv
  <1> QED
    BY <1>1, <1>2 DEF Browse!Init

\* No step in the catalogue asks for a quantity that is not legal.
LEMMA BrowseSteps == ASSUME BrowseInv, Browse!Next PROVE BrowseInv'
  <1>1. ASSUME NEW c \in calls, Browse!AnswerStep(c) PROVE BrowseInv'
    <2>1. \/ Browse!HomeProducts(c) \/ Browse!HomeAddresses(c) \/ Browse!HomeFailed(c)
          \/ TabAnswers(c) \/ ListAnswers(c)
          \/ Browse!DetailShown(c) \/ Browse!DetailFailed(c) \/ Browse!DetailAdded(c)
      BY <1>1 DEF Browse!AnswerStep, TabAnswers, ListAnswers
    <2> QED
      BY <2>1, HomeSteps, TabAnswersElsewhere, ListAnswersElsewhere, ElsewhereKeeps, DetailAnswers
  <1>2. CASE Browse!Tap
    <2>1. \/ (screen.at = "home" /\ Browse!HomeTap) \/ Browse!HomeTokenChanged
          \/ TabTaps \/ ListTaps
          \/ Browse!DetailRetry \/ Browse!DetailAdd
          \/ \E q \in Quantities : Browse!DetailQuantity(q)
      BY <1>2 DEF Browse!Tap, TabTaps, ListTaps
    <2> QED
      BY <2>1, HomeSteps, TabTapsElsewhere, ListTapsElsewhere, ElsewhereKeeps, DetailTaps
  <1>3. CASE Browse!Go
    <2>1. \E at \in Browse!Screens : \E id : Browse!GoTo(at, id)
      BY <1>3 DEF Browse!Go, Browse!HomeGo, Browse!RecommendedProductCard, Browse!FeaturedShopCard,
                  Browse!TileTarget, Browse!SearchGo, Browse!SubGo, Browse!CardGo, Browse!DetailGo,
                  Browse!Back, Browse!Screens
    <2> QED
      BY <2>1, GoToKeeps
  <1> QED
    BY <1>1, <1>2, <1>3 DEF Browse!Next

-----------------------------------------------------------------------------
(* The catalogue again: its lists are whole and what it waits for comes.   *)

Tops == DOMAIN ChildrenOf
Chosen == Browse!Selections \cup {None}
Entries == [key : Chosen, page : 1 .. Pages]
IsScreen(s) ==
    s \in [at : Browse!Screens, id : {s.id}, phase : {"loading", "ready", "error"},
           list : {"loading", "ready", "error"}, parent : Tops \cup {None}, sel : Chosen,
           word : Keywords \cup {None}, rows : Seq(Entries), page : 1 .. Pages + 1,
           more : BOOLEAN, refreshing : BOOLEAN, adding : {s.adding}, quantity : {s.quantity},
           late : SUBSET Nat, tangled : BOOLEAN]
BrowseCall(c) ==
    /\ c \in [id : Nat, what : {"products", "addresses", "tree", "detail", "add"},
              mode : {"open", "refresh", "more"}, key : {c.key}, page : {c.page}, from : Tops \cup {None}]
    /\ c.what = "products" => /\ c.key \in Chosen /\ c.page \in 1 .. Pages + 1
                              /\ c.mode # "more" => c.page = 1
    /\ c.what = "tree" => c.mode # "more"
    /\ c.what \in {"detail", "add"} => c.mode = "open"
\* A tree that is read at the category tab can set off two reads.
BrowseSet(cs) ==
    /\ Numbered(cs) /\ \A c \in cs : BrowseCall(c)
    /\ Cardinality(cs) <= MaxCalls + 1
    /\ (\E c \in cs : c.what = "tree") => Cardinality(cs) <= MaxCalls

\* The flags of a screen s whose requests are cs.
Has(cs, what) == \E c \in cs : c.what = what
Marked(s, cs) == /\ s.more => \E c \in cs : c.mode = "more"
                 /\ s.refreshing => \E c \in cs : c.mode = "refresh"
Unmarked(s) == s.list = "ready" /\ ~s.more /\ ~s.refreshing

\* A list of all pages so far, and the reads of it: at most one of them is of a
\* next page, and those that nothing has overtaken are of what is selected; a next
\* page carries the list on, and then no such read is about to replace it.
AllOf(s) == s.rows = [i \in 1 .. s.page |-> [key |-> s.sel, page |-> i]]
OnTime(s, c) == c.what = "products" /\ c.id \notin s.late
LateAre(s, cs) == \A i \in s.late : \E c \in cs : c.id = i /\ c.what = "products"
OneMore(s, cs) == \A c \in cs : c.what = "products" /\ c.mode = "more" =>
                     s.more /\ \A d \in cs : d.what = "products" /\ d.mode = "more" => d = c
CarriesOn(s, cs, c) == /\ \A d \in cs : OnTime(s, d) => d.mode = "more"
                       /\ ~s.tangled => c.page = s.page + 1 /\ c.page <= Pages /\ AllOf(s)
Carries(s, cs) ==
    /\ LateAre(s, cs) /\ OneMore(s, cs)
    /\ \A c \in cs : OnTime(s, c) => c.key = s.sel /\ (c.mode = "more" => CarriesOn(s, cs, c))

HomeKept(s, cs) == /\ s.list = "ready" /\ Marked(s, cs)
                   /\ s.phase = "loading" => \E c \in cs : c.mode # "more"
Branch(s, cs) ==
    /\ \A c, d \in cs : c.mode = "refresh" /\ d.mode = "refresh" => c = d
    /\ \A c, d \in cs : c.what = "tree" /\ d.what = "tree" => c = d
    /\ \A c \in cs : c.mode = "refresh" => s.refreshing
    /\ \A c \in cs : c.what = "tree" => s.phase = IF c.mode = "open" THEN "loading" ELSE "ready"
TabKept(s, cs) ==
    /\ Marked(s, cs) /\ Branch(s, cs) /\ Carries(s, cs)
    /\ s.phase = "loading" => Has(cs, "tree")
    /\ s.list = "loading" => Has(cs, "products")
    /\ s.phase = "ready" => s.sel # None
    /\ ~s.tangled /\ s.sel # None /\ s.list = "ready" => AllOf(s)
CategoryKept(s, cs) ==
    /\ s.list = "ready" /\ Marked(s, cs) /\ Carries(s, cs)
    /\ s.phase = "loading" => \E c \in cs : c.mode = "open"
    /\ s.id = "filler" => s.rows = <<>> /\ ~Has(cs, "products")
    /\ ~s.tangled /\ s.phase = "ready" /\ s.id # "filler" => AllOf(s)
ShopKept(s, cs) == /\ s.list = "ready" /\ Marked(s, cs)
                   /\ s.phase = "loading" => \E c \in cs : c.mode = "open"
SubKept(s, cs) == Unmarked(s) /\ s.id \in Tops /\ (s.phase = "loading" => Has(cs, "tree"))
SearchKept(s, cs) ==
    /\ s.list # "loading" /\ ~s.more /\ ~s.refreshing /\ Carries(s, cs)
    /\ s.phase = "loading" => \E c \in cs : c.mode # "more"
    /\ ~s.tangled /\ s.phase = "ready" /\ s.list = "ready" => s.rows = <<>> \/ AllOf(s)
DetailKept(s, cs) == Unmarked(s) /\ (s.phase = "loading" => Has(cs, "detail"))

ScreenKept(s, cs) ==
    /\ s.at = "home" => HomeKept(s, cs)
    /\ s.at = "tab" => TabKept(s, cs)
    /\ s.at = "category" => CategoryKept(s, cs)
    /\ s.at = "shop" => ShopKept(s, cs)
    /\ s.at = "sub" => SubKept(s, cs)
    /\ s.at = "search" => SearchKept(s, cs)
    /\ s.at = "detail" => DetailKept(s, cs)
BrowseKept == IsScreen(screen) /\ BrowseSet(calls) /\ ScreenKept(screen, calls)

\* The tree of categories: a category without children is its own child, and no
\* category is null or the filler.
LEMMA TopsAre == Browse!ToSet(Parents) = Tops
  BY BuyerAppAssumption DEF Browse!ToSet, Tops

LEMMA FirstIsTop == Head(Parents) \in Tops
  BY BuyerAppAssumption DEF Tops

LEMMA OptionsAre ==
    ASSUME NEW p \in Tops
    PROVE  /\ Head(Browse!Options(p)) \in Browse!ToSet(Browse!Options(p))
           /\ Browse!ToSet(Browse!Options(p)) \subseteq Browse!Children
           /\ Browse!Children \subseteq Browse!Selections
           /\ Browse!ToSet(Browse!Options(p)) \cap {None, "filler"} = {}
  <1>1. PICK s : s = Browse!Options(p)
    OBVIOUS
  <1>2. PICK children : children = {ChildrenOf[p][i] : i \in DOMAIN ChildrenOf[p]}
    OBVIOUS
  <1>3. ChildrenOf[p] \in Seq(children) /\ {None, "filler"} \cap ({p} \cup children) = {}
    BY <1>2, BuyerAppAssumption DEF Tops
  <1>4. s \in Seq({p} \cup children) /\ s # <<>>
    BY <1>1, <1>3 DEF Browse!Options
  <1>5. Head(s) = s[1] /\ 1 \in DOMAIN s
    BY <1>4
  <1>6. Browse!ToSet(s) = {s[i] : i \in DOMAIN s}
    BY DEF Browse!ToSet
  <1>7. Browse!ToSet(s) \subseteq {p} \cup children
    BY <1>4, <1>6
  <1>8. Browse!ToSet(s) \subseteq Browse!Children
    BY <1>1, TopsAre DEF Browse!Children
  <1> QED
    BY <1>1, <1>3, <1>5, <1>6, <1>7, <1>8 DEF Browse!Selections

LEMMA SizeInBrowse == ASSUME NEW S PROVE Browse!Cardinality(S) = Cardinality(S)
  BY DEF Browse!Cardinality, Cardinality

LEMMA BrowseSize == ASSUME NEW cs, BrowseSet(cs) PROVE Cardinality(cs) \in Nat
  BY FS_CardinalityType DEF BrowseSet, Numbered

LEMMA BrowseFree ==
    ASSUME BrowseSet(calls)
    PROVE  /\ New(calls, Browse!NextId)
           /\ Cardinality(calls) <= MaxCalls =>
                \A i : i = (CHOOSE j \in Browse!FreeIds \ {Browse!NextId} : TRUE) =>
                          New(calls, i) /\ i # Browse!NextId
  <1>1. Cardinality(calls) \in Nat /\ Cardinality(calls) <= MaxCalls + 1 /\ MaxCalls + 2 \in Nat
    BY BrowseSize, BuyerAppAssumption DEF BrowseSet
  <1>2. Cardinality(calls) < MaxCalls + 2
    BY <1>1, BuyerAppAssumption
  <1>3. PICK i \in 1 .. (MaxCalls + 2) : \A c \in calls : c.id # i
    BY <1>1, <1>2, FreeNumber DEF BrowseSet, Numbered
  <1>4. PICK free : free = Browse!FreeIds
    OBVIOUS
  <1>5. \A j : j \in free <=> j \in 1 .. (MaxCalls + 2) /\ \A c \in calls : c.id # j
    BY <1>4 DEF Browse!FreeIds, Browse!Ids
  <1>6. Browse!NextId \in free
    BY <1>3, <1>4, <1>5 DEF Browse!NextId
  <1>7. \A j \in free : New(calls, j)
    BY <1>5, BuyerAppAssumption DEF New
  <1>8. ASSUME Cardinality(calls) <= MaxCalls PROVE free \ {Browse!NextId} # {}
    <2>1. PICK c : c = [id |-> Browse!NextId]
      OBVIOUS
    <2>2. PICK more : more = calls \cup {c}
      OBVIOUS
    <2>3. Numbered(more) /\ Cardinality(more) = Cardinality(calls) + 1
      BY <1>6, <1>7, <2>1, <2>2, NumberedMore DEF BrowseSet
    <2>4. Cardinality(more) < MaxCalls + 2
      BY <1>1, <1>8, <2>3, BuyerAppAssumption
    <2>5. PICK j \in 1 .. (MaxCalls + 2) : \A d \in more : d.id # j
      BY <1>1, <2>3, <2>4, FreeNumber DEF Numbered
    <2>6. c \in more /\ c.id = Browse!NextId /\ calls \subseteq more
      BY <2>1, <2>2
    <2>7. j # Browse!NextId /\ \A d \in calls : d.id # j
      BY <2>5, <2>6
    <2>8. j \in free
      BY <1>5, <2>5, <2>7
    <2> QED
      BY <2>7, <2>8
  <1>9. ASSUME Cardinality(calls) <= MaxCalls,
               NEW j, j = CHOOSE k \in Browse!FreeIds \ {Browse!NextId} : TRUE
        PROVE  New(calls, j) /\ j # Browse!NextId
    BY <1>4, <1>7, <1>8, <1>9
  <1> QED
    BY <1>6, <1>7, <1>9

LEMMA BrowseFewer == ASSUME NEW cs, BrowseSet(cs), NEW ds, ds \subseteq cs PROVE BrowseSet(ds)
  <1>1. Numbered(ds) /\ Cardinality(ds) <= Cardinality(cs)
    BY NumberedFewer DEF BrowseSet
  <1>2. Cardinality(ds) \in Nat /\ Cardinality(cs) \in Nat
    BY <1>1, FS_CardinalityType DEF BrowseSet, Numbered
  <1> QED
    BY <1>1, <1>2, BuyerAppAssumption DEF BrowseSet

\* A request of the screen in front.
LEMMA BrowseCallIs ==
    ASSUME IsScreen(screen), NEW i \in Nat, NEW what \in {"products", "addresses", "tree", "detail", "add"},
           NEW mode \in {"open", "refresh", "more"}, NEW key, NEW page_,
           what = "products" => key \in Chosen /\ page_ \in 1 .. Pages + 1 /\ (mode # "more" => page_ = 1),
           what = "tree" => mode # "more", what \in {"detail", "add"} => mode = "open",
           NEW c, c = Browse!Call(i, what, mode, key, page_)
    PROVE  BrowseCall(c) /\ c.id = i /\ c.what = what /\ c.mode = mode /\ c.key = key /\ c.page = page_
           /\ c.from = screen.parent
  BY DEF Browse!Call, BrowseCall, IsScreen

\* While fewer requests are in flight than a buyer may have.
LEMMA BrowseMore ==
    ASSUME BrowseSet(calls), Browse!MayAct, NEW c, BrowseCall(c), c.id = Browse!NextId,
           NEW ds, ds = calls \cup {c}
    PROVE  BrowseSet(ds)
  <1>1. Cardinality(calls) \in Nat /\ Cardinality(calls) + 1 <= MaxCalls
    BY BrowseSize, SizeInBrowse, BuyerAppAssumption DEF Browse!MayAct
  <1>2. New(calls, c.id)
    BY BrowseFree
  <1>3. Numbered(ds) /\ Cardinality(ds) = Cardinality(calls) + 1
    BY <1>2, NumberedMore DEF BrowseSet
  <1> QED
    BY <1>1, <1>3, BuyerAppAssumption DEF BrowseSet

\* Another page, or the first one again.
PutOf(t, c, r, b) ==
    /\ t = [screen EXCEPT !.rows = r, !.page = c.page, !.tangled = b]
    /\ b = (screen.tangled /\ c.mode = "more") /\ c.page \in 1 .. Pages + 1
    /\ c.mode # "more" => r = <<[key |-> c.key, page |-> 1]>> /\ c.page = 1
    /\ c.mode = "more" /\ c.page <= Pages => r = Append(screen.rows, [key |-> c.key, page |-> c.page])
LEMMA PutIs ==
    ASSUME IsScreen(screen), NEW c, BrowseCall(c), c.what = "products", NEW t, t = Browse!Put(c)
    PROVE  \E r \in Seq(Entries), b \in BOOLEAN : PutOf(t, c, r, b)
  <1>1. PICK e : e = [key |-> c.key, page |-> c.page]
    OBVIOUS
  <1>2. c.page \in 1 .. Pages + 1 /\ (c.mode # "more" => c.page = 1) /\ c.mode \in {"open", "refresh", "more"}
        /\ c.key \in Chosen
    BY DEF BrowseCall
  <1>3. PICK r : r = CASE c.mode # "more" -> <<e>>
                       [] c.mode = "more" /\ c.page <= Pages -> Append(screen.rows, e)
                       [] OTHER -> screen.rows
    OBVIOUS
  <1>4. Pages \in Nat \ {0}
    BY BuyerAppAssumption
  <1>5. screen.rows \in Seq(Entries)
    BY DEF IsScreen
  <1>6. CASE c.mode # "more"
    <2>1. r = <<e>> /\ e \in Entries /\ e = [key |-> c.key, page |-> 1]
      BY <1>1, <1>2, <1>3, <1>4, <1>6 DEF Entries
    <2>4. PICK b \in BOOLEAN : b = (screen.tangled /\ c.mode = "more")
      OBVIOUS
    <2>2. t = [screen EXCEPT !.rows = r, !.page = c.page, !.tangled = @ /\ c.mode = "more"]
      BY <1>1, <1>6, <2>1 DEF Browse!Put
    <2>5. t = [screen EXCEPT !.rows = r, !.page = c.page, !.tangled = b]
      BY <2>2, <2>4
    <2>6. \A S : e \in S => <<e>> \in Seq(S)
      OBVIOUS
    <2>7. r \in Seq(Entries)
      BY <2>1, <2>6, Zenon
    <2>8. r = <<[key |-> c.key, page |-> 1]>>
      BY <2>1
    <2> WITNESS r \in Seq(Entries), b \in BOOLEAN
    <2> QED
      BY <1>2, <1>6, <2>4, <2>5, <2>7, <2>8 DEF PutOf
  <1>7. CASE c.mode = "more"
    <2>1. t = [screen EXCEPT !.rows = r, !.page = c.page, !.tangled = @ /\ c.mode = "more"]
      BY <1>1, <1>3, <1>7 DEF Browse!Put
    <2>3. c.page <= Pages => r = Append(screen.rows, e) /\ e \in Entries
      BY <1>1, <1>2, <1>3, <1>4, <1>7 DEF Entries
    <2>4. r \in Seq(Entries)
      <3>1. CASE c.page <= Pages
        BY <1>5, <2>3, <3>1
      <3>2. CASE ~(c.page <= Pages)
        BY <1>3, <1>5, <1>7, <3>2
      <3> QED
        BY <3>1, <3>2
    <2>5. PICK b \in BOOLEAN : b = (screen.tangled /\ c.mode = "more")
      OBVIOUS
    <2>6. t = [screen EXCEPT !.rows = r, !.page = c.page, !.tangled = b]
      BY <2>1, <2>5
    <2>7. c.page <= Pages => r = Append(screen.rows, [key |-> c.key, page |-> c.page])
      BY <1>1, <2>3
    <2> WITNESS r \in Seq(Entries), b \in BOOLEAN
    <2> QED
      BY <1>2, <1>7, <2>5, <2>6, <2>7 DEF PutOf
  <1> QED
    BY <1>6, <1>7

\* What is read of the list of a selection: whatever else is in flight, it is all
\* of the list afterwards, unless the read was overtaken, or an older one's end
\* reached the screen before this next page.
LEMMA PutCarries ==
    ASSUME IsScreen(screen), Carries(screen, calls), NEW c \in calls, BrowseCall(c), c.what = "products",
           c.id \notin screen.late, c.mode = "more" => ~screen.tangled, NEW r,
           c.mode # "more" => r = <<[key |-> c.key, page |-> 1]>> /\ c.page = 1,
           c.mode = "more" /\ c.page <= Pages => r = Append(screen.rows, [key |-> c.key, page |-> c.page])
    PROVE  r = [i \in 1 .. c.page |-> [key |-> screen.sel, page |-> i]]
  <1>2. /\ c.key = screen.sel
        /\ c.mode = "more" => ~screen.tangled /\ c.page = screen.page + 1 /\ c.page <= Pages /\ AllOf(screen)
    BY DEF Carries, OnTime, CarriesOn
  <1>3. CASE c.mode # "more"
    <2>1. PICK k : k = screen.sel
      OBVIOUS
    <2>2. r = <<[key |-> k, page |-> 1]>> /\ c.page = 1
      BY <1>2, <1>3, <2>1
    <2>3. <<[key |-> k, page |-> 1]>> = [i \in 1 .. 1 |-> [key |-> k, page |-> i]]
      OBVIOUS
    <2> QED
      BY <1>2, <2>1, <2>2, <2>3
  <1>4. CASE c.mode = "more"
    <2>1. PICK n \in Nat : n = screen.page /\ c.page = n + 1
      BY <1>2, <1>4, BuyerAppAssumption DEF IsScreen
    <2>2. screen.rows = [i \in 1 .. n |-> [key |-> screen.sel, page |-> i]]
      BY <1>2, <1>4, <2>1 DEF AllOf
    <2>3. r = Append(screen.rows, [key |-> screen.sel, page |-> n + 1])
      BY <1>2, <1>4, <2>1
    <2>4. PICK k, S : k = screen.sel /\ S = [key : {k}, page : Nat]
      OBVIOUS
    <2>5. PICK q : q = screen.rows
      OBVIOUS
    <2>6. q = [i \in 1 .. n |-> [key |-> k, page |-> i]]
      BY <2>2, <2>4, <2>5
    <2>7. q \in Seq(S) /\ Len(q) = n /\ \A i \in 1 .. n : q[i] = [key |-> k, page |-> i]
      <3>1. \A i \in 1 .. n : q[i] = [key |-> k, page |-> i] /\ q[i] \in S
        BY <2>4, <2>6
      <3>2. q \in [1 .. n -> S]
        BY <2>6, <3>1
      <3> QED
        BY <2>1, <2>6, <3>1, <3>2
    <2>8. PICK e : e = [key |-> k, page |-> n + 1]
      OBVIOUS
    <2>9. e \in S /\ r = Append(q, e)
      BY <2>1, <2>3, <2>4, <2>5, <2>8
    <2>10. /\ r \in Seq(S) /\ Len(r) = n + 1 /\ r[n + 1] = e
           /\ \A i \in 1 .. n : r[i] = q[i]
      BY <2>1, <2>7, <2>9
    <2>11. \A i \in 1 .. n + 1 : r[i] = [key |-> k, page |-> i]
      <3> SUFFICES ASSUME NEW i \in 1 .. n + 1 PROVE r[i] = [key |-> k, page |-> i]
        OBVIOUS
      <3>1. CASE i = n + 1
        BY <2>8, <2>10, <3>1
      <3>2. CASE i # n + 1
        BY <2>1, <2>7, <2>10, <3>2
      <3> QED
        BY <3>1, <3>2
    <2>12. r = [i \in 1 .. n + 1 |-> [key |-> k, page |-> i]]
      BY <2>10, <2>11
    <2> QED
      BY <1>2, <2>1, <2>4, <2>12
  <1> QED
    BY <1>3, <1>4

LEMMA BrowseSwap ==
    ASSUME BrowseSet(calls), NEW c \in calls, NEW n, BrowseCall(n), New(calls, n.id), n.what # "tree",
           NEW ds, ds = (calls \ {c}) \cup {n}
    PROVE  BrowseSet(ds)
  <1>1. PICK rest : rest = calls \ {c}
    OBVIOUS
  <1>2. /\ Numbered(rest) /\ Cardinality(rest) = Cardinality(calls) - 1 /\ Cardinality(calls) \in Nat
    BY <1>1, NumberedLess DEF BrowseSet
  <1>3. New(rest, n.id)
    BY <1>1 DEF New
  <1>4. Numbered(ds) /\ Cardinality(ds) = Cardinality(calls)
    BY <1>1, <1>2, <1>3, NumberedMore
  <1> QED
    BY <1>1, <1>4 DEF BrowseSet

\* A screen turned to another phase.
Turned(t, s, phase, l) ==
    /\ IsScreen(t) /\ t.at = s.at /\ t.id = s.id /\ t.sel = s.sel /\ t.list = s.list /\ t.more = s.more
    /\ t.refreshing = s.refreshing /\ t.rows = s.rows /\ t.page = s.page /\ t.phase = phase
    /\ t.tangled = s.tangled /\ t.late = l
LEMMA TurnedIs ==
    ASSUME NEW s, IsScreen(s), NEW phase \in {"loading", "ready", "error"}, NEW l \in SUBSET Nat, NEW t,
           t = [s EXCEPT !.phase = phase, !.late = l]
    PROVE  Turned(t, s, phase, l)
  BY DEF IsScreen, Turned
LEMMA PhaseIs ==
    ASSUME NEW s, IsScreen(s), NEW phase \in {"loading", "ready", "error"}, NEW t, t = [s EXCEPT !.phase = phase]
    PROVE  Turned(t, s, phase, s.late)
  BY DEF IsScreen, Turned

\* What an answer to c leaves of the screen: the flag that stood for c is off.
Left(c, phase, lst) ==
    /\ IsScreen(screen') /\ screen'.at = screen.at /\ screen'.id = screen.id
    /\ screen'.phase = phase /\ screen'.list = lst /\ screen'.sel = screen.sel
    /\ screen'.refreshing => screen.refreshing /\ c.mode # "refresh"
    /\ screen'.more => screen.more /\ c.mode # "more"
    /\ screen.refreshing /\ c.mode # "refresh" => screen'.refreshing
    /\ screen.more /\ c.mode # "more" => screen'.more
    /\ screen'.late = screen.late \ {c.id} /\ (c.id \in screen.late => screen'.tangled)

DoneOf(t, s, c) ==
    /\ IsScreen(t) /\ t.at = s.at /\ t.id = s.id /\ t.phase = s.phase /\ t.list = s.list /\ t.sel = s.sel
    /\ t.rows = s.rows /\ t.page = s.page /\ t.late = s.late \ {c.id}
    /\ t.tangled <=> s.tangled \/ c.id \in s.late
    /\ s.more /\ c.mode # "more" => t.more
    /\ t.refreshing => s.refreshing /\ c.mode # "refresh"
    /\ t.more => s.more /\ c.mode # "more"
    /\ s.refreshing /\ c.mode # "refresh" => t.refreshing

LEMMA DoneIs == ASSUME NEW s, IsScreen(s), NEW c PROVE DoneOf(Browse!Done(s, c), s, c)
  <1>1. PICK f \in BOOLEAN, m \in BOOLEAN, b \in BOOLEAN, l \in SUBSET Nat :
           /\ f = (s.refreshing /\ c.mode # "refresh") /\ m = (s.more /\ c.mode # "more")
           /\ b = (s.tangled \/ c.id \in s.late) /\ l = s.late \ {c.id}
    BY DEF IsScreen
  <1>2. PICK t : t = Browse!Done(s, c)
    OBVIOUS
  <1>3. t = [s EXCEPT !.refreshing = f, !.more = m, !.tangled = b, !.late = l]
    BY <1>1, <1>2 DEF Browse!Done
  <1>4. PICK u : u = [s EXCEPT !.refreshing = f, !.more = m]
    OBVIOUS
  <1>5. /\ IsScreen(u) /\ u.at = s.at /\ u.id = s.id /\ u.phase = s.phase /\ u.list = s.list /\ u.sel = s.sel
        /\ u.rows = s.rows /\ u.page = s.page /\ u.more = m /\ u.refreshing = f
    BY <1>4 DEF IsScreen
  <1>6. t = [u EXCEPT !.tangled = b, !.late = l]
    BY <1>3, <1>4
  <1>7. /\ IsScreen(t) /\ t.at = u.at /\ t.id = u.id /\ t.phase = u.phase /\ t.list = u.list /\ t.sel = u.sel
        /\ t.rows = u.rows /\ t.page = u.page /\ t.late = l /\ t.tangled = b /\ t.more = u.more
        /\ t.refreshing = u.refreshing
    BY <1>5, <1>6 DEF IsScreen
  <1> QED
    BY <1>1, <1>2, <1>5, <1>7 DEF DoneOf

LEMMA DoneLeft ==
    ASSUME NEW s, IsScreen(s), NEW c, screen' = Browse!Done(s, c), s.at = screen.at, s.id = screen.id,
           s.sel = screen.sel, s.more = screen.more, s.refreshing = screen.refreshing, s.late = screen.late
    PROVE  /\ Left(c, s.phase, s.list) /\ screen'.rows = s.rows /\ screen'.page = s.page
           /\ screen'.tangled <=> s.tangled \/ c.id \in screen.late
  <1>1. DoneOf(screen', s, c)
    BY DoneIs
  <1> QED
    BY <1>1 DEF Left, DoneOf

LEMMA LeftMarked ==
    ASSUME Marked(screen, calls), NEW c, NEW phase, NEW lst, Left(c, phase, lst)
    PROVE  Marked(screen', calls \ {c})
  BY DEF Marked, Left

\* A page that came.
Came(c) ==
    /\ screen'.page = c.page
    /\ ~screen'.tangled => c.id \notin screen.late /\ (c.mode = "more" => ~screen.tangled)
    /\ c.mode # "more" => screen'.rows = <<[key |-> c.key, page |-> 1]>> /\ c.page = 1
    /\ c.mode = "more" /\ c.page <= Pages =>
           screen'.rows = Append(screen.rows, [key |-> c.key, page |-> c.page])

LEMMA CameIs ==
    ASSUME IsScreen(screen), BrowseSet(calls), NEW c \in calls, c.what = "products",
           NEW phase, NEW lst, Left(c, phase, lst), Came(c), ~screen'.tangled, Carries(screen, calls)
    PROVE  AllOf(screen')
  <1>1. PICK r : r = screen'.rows
    OBVIOUS
  <1>3. BrowseCall(c) /\ c.id \notin screen.late /\ (c.mode = "more" => ~screen.tangled)
    BY DEF BrowseSet, Came
  <1>4. /\ c.mode # "more" => r = <<[key |-> c.key, page |-> 1]>> /\ c.page = 1
        /\ c.mode = "more" /\ c.page <= Pages => r = Append(screen.rows, [key |-> c.key, page |-> c.page])
    BY <1>1 DEF Came
  <1>5. r = [i \in 1 .. c.page |-> [key |-> screen.sel, page |-> i]]
    BY <1>3, <1>4, PutCarries
  <1> QED
    BY <1>1, <1>5 DEF AllOf, Left, Came

\* What is left in flight after the end of a read: if that had been overtaken, the
\* screen says so; else it replaced the list, and no next page was on time with it.
LEMMA CarriesLeft ==
    ASSUME BrowseSet(calls), Carries(screen, calls), NEW c \in calls, c.what = "products",
           NEW phase, NEW lst, Left(c, phase, lst)
    PROVE  Carries(screen', calls \ {c})
  <1>1. PICK rest : rest = calls \ {c}
    OBVIOUS
  <1>2. \A d \in rest : d \in calls /\ d.id # c.id
    BY <1>1 DEF BrowseSet, Numbered
  <1>3. \A d \in rest : OnTime(screen', d) <=> OnTime(screen, d)
    BY <1>2 DEF OnTime, Left
  <1>4. LateAre(screen', rest)
    BY <1>1, <1>2 DEF Carries, LateAre, Left
  <1>5. OneMore(screen', rest)
    BY <1>1, <1>2 DEF Carries, OneMore, Left
  <1>6. ASSUME NEW d \in rest, OnTime(screen', d)
        PROVE  d.key = screen'.sel /\ (d.mode = "more" => CarriesOn(screen', rest, d))
    <2>1. OnTime(screen, d) /\ d \in calls /\ d # c
      BY <1>2, <1>3, <1>6
    <2>2. d.key = screen'.sel
      BY <2>1 DEF Carries, Left
    <2>3. ASSUME d.mode = "more" PROVE CarriesOn(screen', rest, d)
      <3>1. CarriesOn(screen, calls, d) /\ d.what = "products"
        BY <2>1, <2>3 DEF Carries, OnTime
      <3>2. \A e \in rest : OnTime(screen', e) => e.mode = "more"
        BY <1>2, <1>3, <3>1 DEF CarriesOn
      <3>3. c.mode # "more"
        BY <2>1, <2>3, <3>1 DEF Carries, OneMore
      <3>4. c.id \in screen.late
        BY <3>1, <3>3 DEF CarriesOn, OnTime
      <3> QED
        BY <3>2, <3>4 DEF CarriesOn, Left
    <2> QED
      BY <2>2, <2>3
  <1> QED
    BY <1>1, <1>4, <1>5, <1>6 DEF Carries

\* What does not touch the list nor its reads.
Alike(t, s) == /\ t.sel = s.sel /\ t.late = s.late /\ t.more = s.more /\ t.tangled = s.tangled
               /\ t.rows = s.rows /\ t.page = s.page
SameLists(ds, cs) == \A d \in ds \cup cs : d.what = "products" => (d \in ds <=> d \in cs)
LEMMA CarriesSame ==
    ASSUME NEW s, NEW cs, Carries(s, cs), NEW t, NEW ds, Alike(t, s), SameLists(ds, cs)
    PROVE  Carries(t, ds)
  <1>1. \A d : OnTime(t, d) <=> OnTime(s, d)
    BY DEF OnTime, Alike
  <1>2. \A d : d.what = "products" => (d \in ds <=> d \in cs)
    BY DEF SameLists
  <1>3. LateAre(t, ds) /\ OneMore(t, ds)
    BY <1>2 DEF Carries, LateAre, OneMore, Alike
  <1>4. AllOf(t) <=> AllOf(s)
    BY DEF AllOf, Alike
  <1>5. ASSUME NEW d \in ds, OnTime(t, d)
        PROVE  d.key = t.sel /\ (d.mode = "more" => CarriesOn(t, ds, d))
    <2>1. d \in cs /\ OnTime(s, d)
      BY <1>1, <1>2, <1>5 DEF OnTime
    <2>2. d.key = s.sel /\ (d.mode = "more" => CarriesOn(s, cs, d))
      BY <2>1 DEF Carries
    <2>3. \A e \in ds : OnTime(t, e) => e \in cs /\ OnTime(s, e)
      BY <1>1, <1>2 DEF OnTime
    <2> QED
      BY <1>4, <2>2, <2>3 DEF CarriesOn, Alike
  <1> QED
    BY <1>3, <1>5 DEF Carries

\* Reads that replace the list overtake all others.
LEMMA ReplaceCarries ==
    ASSUME Carries(screen, calls), NEW N, NEW t, NEW ds,
           \A n \in N : n.what = "products" /\ n.mode # "more" /\ n.key = t.sel,
           t.late = Browse!Overtaken, t.more = screen.more, SameLists(ds, calls \cup N)
    PROVE  Carries(t, ds)
  <1>1. \A d : d.what = "products" => (d \in ds <=> d \in calls \/ d \in N)
    BY DEF SameLists
  <1>2. \A i : i \in t.late <=> \E d \in calls : d.what = "products" /\ i = d.id
    BY DEF Browse!Overtaken
  <1>3. LateAre(t, ds)
    BY <1>1, <1>2 DEF LateAre
  <1>4. OneMore(t, ds)
    BY <1>1 DEF Carries, OneMore
  <1>5. \A d \in ds : OnTime(t, d) => d \in N
    BY <1>1, <1>2 DEF OnTime
  <1> QED
    BY <1>3, <1>4, <1>5 DEF Carries

LEMMA KeptAgain ==
    ASSUME IsScreen(screen'), BrowseSet(calls'), ScreenKept(screen', calls') PROVE BrowseKept'
  <1>1. IsScreen(screen)'
    BY DEF IsScreen, Chosen, Entries, Tops
  <1>2. BrowseSet(calls)'
    BY DEF BrowseSet, BrowseCall, Numbered, Chosen, Tops
  <1>3. ScreenKept(screen, calls)'
    BY DEF ScreenKept, HomeKept, TabKept, CategoryKept, ShopKept, SubKept, SearchKept, DetailKept,
           Marked, Unmarked, Branch, Carries, LateAre, OneMore, OnTime, CarriesOn, AllOf, Has
  <1> QED
    BY <1>1, <1>2, <1>3 DEF BrowseKept

\* A read that a tap sets off.
Sent(what, mode, key, pg) ==
    \E n : /\ calls' = calls \cup {n} /\ n.what = what /\ n.mode = mode /\ n.key = key /\ n.page = pg
           /\ n.id = Browse!NextId /\ New(calls, n.id)

LEMMA BrowseSends ==
    ASSUME BrowseKept, Browse!MayAct, NEW what \in {"products", "addresses", "tree", "detail", "add"},
           NEW mode \in {"open", "refresh", "more"}, NEW key, NEW pg,
           what = "products" => key \in Chosen /\ pg \in 1 .. Pages + 1 /\ (mode # "more" => pg = 1),
           what = "tree" => mode # "more", what \in {"detail", "add"} => mode = "open",
           calls' = calls \cup Browse!Ask(what, mode, key, pg)
    PROVE  BrowseSet(calls') /\ Sent(what, mode, key, pg)
  <1>1. IsScreen(screen) /\ BrowseSet(calls)
    BY DEF BrowseKept
  <1>2. PICK i : i = Browse!NextId
    OBVIOUS
  <1>3. i \in Nat /\ New(calls, i)
    BY <1>1, <1>2, BrowseFree DEF New
  <1>4. PICK n : n = Browse!Call(i, what, mode, key, pg)
    OBVIOUS
  <1>5. BrowseCall(n) /\ n.id = i /\ n.what = what /\ n.mode = mode /\ n.key = key /\ n.page = pg
    BY <1>1, <1>3, <1>4, BrowseCallIs
  <1>6. calls' = calls \cup {n}
    BY <1>2, <1>4 DEF Browse!Ask
  <1> QED
    BY <1>1, <1>2, <1>3, <1>5, <1>6, BrowseMore DEF Sent

\* A read of what is selected that replaces the list, and one that carries it on.
LEMMA SentReplaces ==
    ASSUME Carries(screen, calls), NEW mode \in {"open", "refresh"}, NEW pg,
           Sent("products", mode, screen'.sel, pg),
           screen'.late = Browse!Overtaken, screen'.more = screen.more
    PROVE  Carries(screen', calls')
  <1>1. PICK n : calls' = calls \cup {n} /\ n.what = "products" /\ n.mode = mode /\ n.key = screen'.sel
    BY DEF Sent
  <1>2. PICK N, t, ds : N = {n} /\ t = screen' /\ ds = calls'
    OBVIOUS
  <1>3. SameLists(ds, calls \cup N)
    BY <1>1, <1>2 DEF SameLists
  <1> QED
    BY <1>1, <1>2, <1>3, ReplaceCarries

LEMMA OvertakenAre ==
    ASSUME BrowseSet(calls) PROVE Browse!Overtaken \in SUBSET Nat
  BY DEF BrowseSet, Numbered, Browse!Overtaken

LEMMA LateWithAre ==
    ASSUME IsScreen(screen), BrowseSet(calls) PROVE Browse!LateWith(Browse!NextId) \in SUBSET Nat
  <1>1. Browse!NextId \in Nat
    BY BrowseFree DEF New
  <1> QED
    BY <1>1 DEF IsScreen, Browse!LateWith

LEMMA SentMore ==
    ASSUME Carries(screen, calls), ~screen.more, screen'.more = TRUE, NEW pg,
           Sent("products", "more", screen'.sel, pg),
           screen'.sel = screen.sel, screen'.late = Browse!LateWith(Browse!NextId),
           ~screen'.tangled => pg = screen'.page + 1 /\ pg <= Pages /\ AllOf(screen')
    PROVE  Carries(screen', calls')
  <1>1. PICK n : /\ calls' = calls \cup {n} /\ n.what = "products" /\ n.mode = "more" /\ n.key = screen'.sel
                 /\ n.page = pg /\ n.id = Browse!NextId /\ New(calls, n.id)
    BY DEF Sent
  <1>2. \A d \in calls : d.what = "products" => d.mode # "more"
    BY DEF Carries, OneMore
  <1>3. OneMore(screen', calls')
    BY <1>1, <1>2 DEF OneMore
  <1>4. n.id \notin screen.late
    BY <1>1 DEF Carries, LateAre, New
  <1>5. CASE \E d \in calls : d.what = "products" /\ d.mode # "more"
    <2>1. screen'.late = screen.late \cup {n.id}
      BY <1>1, <1>5 DEF Browse!LateWith
    <2>2. LateAre(screen', calls')
      BY <1>1, <2>1 DEF Carries, LateAre
    <2>3. \A d \in calls' : OnTime(screen', d) => d \in calls /\ OnTime(screen, d) /\ d.mode # "more"
      BY <1>1, <1>2, <2>1 DEF OnTime
    <2> QED
      BY <1>3, <2>2, <2>3 DEF Carries
  <1>6. CASE \A d \in calls : d.what # "products" \/ d.mode = "more"
    <2>1. screen'.late = screen.late
      BY <1>6 DEF Browse!LateWith
    <2>2. LateAre(screen', calls')
      BY <1>1, <2>1 DEF Carries, LateAre
    <2>3. \A d \in calls' : d.what = "products" => d = n
      BY <1>1, <1>2, <1>6
    <2>4. CarriesOn(screen', calls', n)
      BY <1>1, <2>3 DEF CarriesOn, OnTime
    <2> QED
      BY <1>1, <1>3, <2>2, <2>3, <2>4 DEF Carries, OnTime
  <1> QED
    BY <1>5, <1>6

LEMMA HomeAnswersKept ==
    ASSUME BrowseKept, NEW c \in calls, Browse!HomeProducts(c) \/ Browse!HomeAddresses(c) \/ Browse!HomeFailed(c)
    PROVE  BrowseKept'
  <1>1. /\ IsScreen(screen) /\ BrowseSet(calls) /\ BrowseCall(c)
        /\ screen.at = "home" /\ HomeKept(screen, calls) /\ Pages \in Nat
    BY BuyerAppAssumption
    DEF BrowseKept, BrowseSet, ScreenKept, Browse!HomeProducts, Browse!HomeAddresses, Browse!HomeFailed
  <1>2. BrowseSet(calls \ {c})
    BY <1>1, BrowseFewer
  <1>3. ASSUME IsScreen(screen'), screen'.at = "home", BrowseSet(calls'), HomeKept(screen', calls')
        PROVE  BrowseKept'
    BY <1>3, KeptAgain DEF ScreenKept
  <1>4. CASE Browse!HomeProducts(c)
    <2>1. PICK t : t = Browse!Put(c)
      OBVIOUS
    <2>2. c.what = "products"
      BY <1>4 DEF Browse!HomeProducts
    <2>3. PICK r \in Seq(Entries), b \in BOOLEAN : PutOf(t, c, r, b)
      BY <1>1, <2>1, <2>2, PutIs
    <2>4. CASE Browse!AnswerAndAsk(c, Browse!Put(c), Browse!Ask("addresses", c.mode, None, 1))
      <3>1. PICK n : n = Browse!Call(Browse!NextId, "addresses", c.mode, None, 1)
        OBVIOUS
      <3>2. screen' = t /\ calls' = (calls \ {c}) \cup {n}
        BY <2>1, <2>4, <3>1 DEF Browse!AnswerAndAsk, Browse!Ask
      <3>3. BrowseCall(n) /\ n.id = Browse!NextId /\ n.what = "addresses" /\ n.mode = c.mode
        <4>1. Browse!NextId \in Nat /\ c.mode \in {"open", "refresh", "more"}
          BY <1>1, BrowseFree DEF New, BrowseCall
        <4>2. PICK i \in Nat, mode \in {"open", "refresh", "more"} : i = Browse!NextId /\ mode = c.mode
          BY <4>1
        <4>3. n = Browse!Call(i, "addresses", mode, None, 1)
          BY <3>1, <4>2
        <4> QED
          BY <1>1, <4>2, <4>3, BrowseCallIs
      <3>4. BrowseSet(calls')
        BY <1>1, <3>2, <3>3, BrowseFree, BrowseSwap
      <3>5. /\ IsScreen(screen') /\ screen'.at = "home" /\ screen'.list = "ready"
            /\ screen'.phase = screen.phase /\ screen'.more = screen.more /\ screen'.refreshing = screen.refreshing
        BY <1>1, <2>3, <3>2 DEF PutOf, IsScreen, HomeKept
      <3>6. HomeKept(screen', calls')
        BY <1>1, <3>2, <3>3, <3>5 DEF HomeKept, Marked
      <3> QED
        BY <1>3, <3>4, <3>5, <3>6
    <2>5. CASE Browse!Answer(c, Browse!Done([Browse!Put(c) EXCEPT !.phase = "ready"], c))
      <3>1. screen' = Browse!Done([t EXCEPT !.phase = "ready"], c) /\ calls' = calls \ {c}
        BY <2>1, <2>5 DEF Browse!Answer
      <3>2. Left(c, "ready", "ready")
        <4>1. PICK u : u = [t EXCEPT !.phase = "ready"]
          OBVIOUS
        <4>2. /\ IsScreen(u) /\ u.at = screen.at /\ u.id = screen.id /\ u.phase = "ready" /\ u.list = "ready"
              /\ u.sel = screen.sel /\ u.more = screen.more /\ u.refreshing = screen.refreshing
              /\ u.late = screen.late
          BY <1>1, <2>3, <4>1 DEF PutOf, IsScreen, HomeKept
        <4> QED
          BY <3>1, <4>1, <4>2, DoneLeft
      <3>3. Marked(screen', calls')
        BY <1>1, <3>1, <3>2, LeftMarked DEF HomeKept
      <3> QED
        BY <1>1, <1>2, <1>3, <3>1, <3>2, <3>3 DEF HomeKept, Left
    <2> QED
      BY <1>4, <2>4, <2>5 DEF Browse!HomeProducts
  <1>5. CASE Browse!HomeAddresses(c) \/ Browse!HomeFailed(c)
    <2>1. PICK phase \in {"ready", "error"} :
             screen' = Browse!Done([screen EXCEPT !.phase = phase], c) /\ calls' = calls \ {c}
      BY <1>5 DEF Browse!HomeAddresses, Browse!HomeFailed, Browse!Answer
    <2>4. PICK u : u = [screen EXCEPT !.phase = phase]
      OBVIOUS
    <2>5. Turned(u, screen, phase, screen.late)
      BY <1>1, <2>4, PhaseIs
    <2>6. Left(c, u.phase, u.list)
      BY <2>1, <2>4, <2>5, DoneLeft DEF Turned
    <2>2. Left(c, phase, "ready")
      BY <1>1, <2>5, <2>6 DEF HomeKept, Turned
    <2>3. Marked(screen', calls')
      BY <1>1, <2>1, <2>2, LeftMarked DEF HomeKept
    <2> QED
      BY <1>1, <1>2, <1>3, <2>1, <2>2, <2>3 DEF HomeKept, Left
  <1> QED
    BY <1>4, <1>5

LEMMA FirstPage == 1 \in 1 .. Pages + 1 /\ None \in Chosen
  BY BuyerAppAssumption DEF Chosen

LEMMA HomeTapsKept ==
    ASSUME BrowseKept, Browse!MayAct, (screen.at = "home" /\ Browse!HomeTap) \/ Browse!HomeTokenChanged
    PROVE  BrowseKept'
  <1>1. PICK show \in BOOLEAN : Browse!HomeLoad(show)
    BY DEF Browse!HomeTap, Browse!HomeTokenChanged
  <1>2. IsScreen(screen) /\ screen.at = "home" /\ HomeKept(screen, calls)
    BY <1>1 DEF BrowseKept, ScreenKept, Browse!HomeLoad
  <1>3. PICK mode \in {"open", "refresh"} : mode = IF show THEN "open" ELSE "refresh"
    OBVIOUS
  <1>4. /\ screen' = [screen EXCEPT !.phase = IF show THEN "loading" ELSE @, !.refreshing = @ \/ ~show]
        /\ calls' = calls \cup Browse!Ask("products", mode, None, 1)
    BY <1>1, <1>3 DEF Browse!HomeLoad, Browse!ShowAndAsk
  <1>5. BrowseSet(calls') /\ Sent("products", mode, None, 1)
    BY <1>4, BrowseSends, FirstPage
  <1>7. /\ IsScreen(screen') /\ screen'.at = "home" /\ screen'.list = "ready" /\ screen'.more = screen.more
        /\ screen'.phase = IF show THEN "loading" ELSE screen.phase
        /\ screen'.refreshing = (screen.refreshing \/ ~show)
    <2>1. PICK phase \in {"loading", "ready", "error"}, f \in BOOLEAN :
             phase = (IF show THEN "loading" ELSE screen.phase) /\ f = (screen.refreshing \/ ~show)
      BY <1>2 DEF IsScreen
    <2>2. screen' = [screen EXCEPT !.phase = phase, !.refreshing = f]
      BY <1>4, <2>1
    <2>3. /\ IsScreen(screen') /\ screen'.at = "home" /\ screen'.list = "ready" /\ screen'.more = screen.more
          /\ screen'.phase = phase /\ screen'.refreshing = f
      BY <1>2, <2>2 DEF IsScreen, HomeKept
    <2> QED
      BY <2>1, <2>3
  <1>8. HomeKept(screen', calls')
    BY <1>2, <1>3, <1>5, <1>7 DEF HomeKept, Marked, Sent
  <1> QED
    BY <1>5, <1>7, <1>8, KeptAgain DEF ScreenKept

\* The page of a shop.
LEMMA ShopAnswersKept ==
    ASSUME BrowseKept, NEW c \in calls, Browse!ShopPage(c) \/ Browse!ShopFailed(c)
    PROVE  BrowseKept'
  <1>1. /\ IsScreen(screen) /\ BrowseSet(calls) /\ BrowseCall(c) /\ c.what = "products"
        /\ screen.at = "shop" /\ ShopKept(screen, calls) /\ calls' = calls \ {c}
    BY DEF BrowseKept, BrowseSet, ScreenKept, Browse!ShopPage, Browse!ShopFailed, Browse!Answer
  <1>2. BrowseSet(calls')
    BY <1>1, BrowseFewer
  <1>3. \E phase \in {"loading", "ready", "error"} :
           /\ Left(c, phase, "ready") /\ (phase = "loading" => screen.phase = "loading" /\ c.mode # "open")
    <2>1. PICK t : /\ IsScreen(t) /\ t.at = screen.at /\ t.id = screen.id /\ t.sel = screen.sel
                   /\ t.more = screen.more /\ t.refreshing = screen.refreshing /\ t.late = screen.late
                   /\ t.phase = screen.phase /\ t.list = "ready"
                   /\ \E phase \in {"ready", "error"} : screen' = Browse!Done(Browse!Opened(t, c, phase), c)
      <3>1. CASE Browse!ShopPage(c)
        <4>1. PICK t : t = Browse!Put(c)
          OBVIOUS
        <4>2. PICK r \in Seq(Entries), b \in BOOLEAN : PutOf(t, c, r, b)
          BY <1>1, <4>1, PutIs
        <4>3. /\ IsScreen(t) /\ t.at = screen.at /\ t.id = screen.id /\ t.sel = screen.sel
              /\ t.more = screen.more /\ t.refreshing = screen.refreshing /\ t.late = screen.late
              /\ t.phase = screen.phase /\ t.list = "ready"
          BY <1>1, <4>2 DEF PutOf, IsScreen, ShopKept
        <4>4. screen' = Browse!Done(Browse!Opened(t, c, "ready"), c)
          BY <3>1, <4>1 DEF Browse!ShopPage, Browse!Answer
        <4> QED
          BY <4>3, <4>4
      <3>2. CASE Browse!ShopFailed(c)
        <4>1. screen' = Browse!Done(Browse!Opened(screen, c, "error"), c) /\ screen.list = "ready"
          BY <1>1, <3>2 DEF Browse!ShopFailed, Browse!Answer, ShopKept
        <4> QED
          BY <1>1, <4>1
      <3> QED
        BY <3>1, <3>2
    <2>2. PICK phase \in {"ready", "error"} : screen' = Browse!Done(Browse!Opened(t, c, phase), c)
      BY <2>1
    <2>3. PICK u : u = Browse!Opened(t, c, phase)
      OBVIOUS
    <2>4. /\ IsScreen(u) /\ u.at = screen.at /\ u.id = screen.id /\ u.sel = screen.sel
          /\ u.more = screen.more /\ u.refreshing = screen.refreshing /\ u.list = "ready"
          /\ u.late = screen.late /\ u.phase = IF c.mode = "open" THEN phase ELSE screen.phase
      <3>1. CASE c.mode = "open"
        <4>1. u = [t EXCEPT !.phase = phase]
          BY <2>3, <3>1 DEF Browse!Opened
        <4> QED
          BY <2>1, <3>1, <4>1 DEF IsScreen
      <3>2. CASE c.mode # "open"
        BY <2>1, <2>3, <3>2 DEF Browse!Opened
      <3> QED
        BY <3>1, <3>2
    <2>5. Left(c, u.phase, "ready")
      BY <2>2, <2>3, <2>4, DoneLeft
    <2>6. screen.phase \in {"loading", "ready", "error"}
      BY <1>1 DEF IsScreen
    <2> QED
      BY <2>4, <2>5, <2>6
  <1>4. Marked(screen', calls')
    BY <1>1, <1>3, LeftMarked DEF ShopKept
  <1>5. ShopKept(screen', calls') /\ screen'.at = "shop" /\ IsScreen(screen')
    BY <1>1, <1>3, <1>4 DEF ShopKept, Left
  <1> QED
    BY <1>2, <1>5, KeptAgain DEF ScreenKept

LEMMA ShopTapsKept ==
    ASSUME BrowseKept, Browse!MayAct, Browse!ShopRetry \/ Browse!ShopRefresh \/ Browse!ShopEnd PROVE BrowseKept'
  <1>1. IsScreen(screen) /\ screen.at = "shop" /\ ShopKept(screen, calls) /\ Pages \in Nat
    BY BuyerAppAssumption
    DEF BrowseKept, ScreenKept, Browse!ShopRetry, Browse!ShopRefresh, Browse!ShopEnd
  <1>3. CASE Browse!ShopRetry
    <2>1. /\ screen' = [screen EXCEPT !.phase = "loading"]
          /\ calls' = calls \cup Browse!Ask("products", "open", None, 1)
      BY <1>3 DEF Browse!ShopRetry, Browse!ShowAndAsk
    <2>2. BrowseSet(calls') /\ Sent("products", "open", None, 1)
      BY <1>1, <2>1, BrowseSends, FirstPage
    <2>3. /\ IsScreen(screen') /\ screen'.at = "shop" /\ screen'.list = "ready" /\ screen'.more = screen.more
          /\ screen'.refreshing = screen.refreshing
      BY <1>1, <2>1 DEF IsScreen, ShopKept
    <2>4. ShopKept(screen', calls')
      BY <1>1, <2>2, <2>3 DEF ShopKept, Marked, Sent
    <2> QED
      BY <2>2, <2>3, <2>4, KeptAgain DEF ScreenKept
  <1>4. CASE Browse!ShopRefresh
    <2>1. /\ screen' = [screen EXCEPT !.refreshing = TRUE]
          /\ calls' = calls \cup Browse!Ask("products", "refresh", None, 1)
      BY <1>4 DEF Browse!ShopRefresh, Browse!ShowAndAsk
    <2>2. BrowseSet(calls') /\ Sent("products", "refresh", None, 1)
      BY <1>1, <2>1, BrowseSends, FirstPage
    <2>3. /\ IsScreen(screen') /\ screen'.at = "shop" /\ screen'.list = "ready" /\ screen'.more = screen.more
          /\ screen'.phase = screen.phase
      BY <1>1, <2>1 DEF IsScreen, ShopKept
    <2>4. ShopKept(screen', calls')
      BY <1>1, <2>2, <2>3 DEF ShopKept, Marked, Sent
    <2> QED
      BY <2>2, <2>3, <2>4, KeptAgain DEF ScreenKept
  <1>5. CASE Browse!ShopEnd
    <2>1. /\ screen' = [screen EXCEPT !.more = TRUE] /\ screen.page < Pages + 1
          /\ calls' = calls \cup Browse!Ask("products", "more", None, screen.page + 1)
      BY <1>5 DEF Browse!ShopEnd, Browse!ShowAndAsk
    <2>2. screen.page + 1 \in 1 .. Pages + 1
      BY <1>1, <2>1 DEF IsScreen
    <2>3. BrowseSet(calls') /\ Sent("products", "more", None, screen.page + 1)
      BY <1>1, <2>1, <2>2, BrowseSends DEF Chosen
    <2>4. /\ IsScreen(screen') /\ screen'.at = "shop" /\ screen'.list = "ready"
          /\ screen'.refreshing = screen.refreshing /\ screen'.phase = screen.phase
      BY <1>1, <2>1 DEF IsScreen, ShopKept
    <2>5. ShopKept(screen', calls')
      BY <1>1, <2>3, <2>4 DEF ShopKept, Marked, Sent
    <2> QED
      BY <2>3, <2>4, <2>5, KeptAgain DEF ScreenKept
  <1> QED
    BY <1>3, <1>4, <1>5

\* The sub-categories, and the page of a product.
LEMMA SubKeeps ==
    ASSUME BrowseKept, \/ \E c \in calls : Browse!SubTree(c) \/ Browse!SubFailed(c)
                       \/ Browse!MayAct /\ Browse!SubRetry
    PROVE  BrowseKept'
  <1>1. IsScreen(screen) /\ BrowseSet(calls) /\ screen.at = "sub" /\ SubKept(screen, calls)
    BY DEF BrowseKept, ScreenKept, Browse!SubTree, Browse!SubFailed, Browse!SubRetry
  <1>2. ASSUME NEW c \in calls, Browse!SubTree(c) \/ Browse!SubFailed(c) PROVE BrowseKept'
    <2>1. PICK phase \in {"ready", "error"} : screen' = [screen EXCEPT !.phase = phase] /\ calls' = calls \ {c}
      BY <1>2 DEF Browse!SubTree, Browse!SubFailed, Browse!Answer
    <2>2. BrowseSet(calls')
      BY <1>1, <2>1, BrowseFewer
    <2>3. IsScreen(screen') /\ screen'.at = "sub" /\ screen'.phase = phase /\ Unmarked(screen')
          /\ screen'.id \in Tops
      BY <1>1, <2>1 DEF IsScreen, SubKept, Unmarked
    <2> QED
      BY <2>2, <2>3, KeptAgain DEF ScreenKept, SubKept
  <1>3. ASSUME Browse!MayAct, Browse!SubRetry PROVE BrowseKept'
    <2>1. /\ screen' = [screen EXCEPT !.phase = "loading"]
          /\ calls' = calls \cup Browse!Ask("tree", "open", None, 1)
      BY <1>3 DEF Browse!SubRetry, Browse!ShowAndAsk
    <2>2. BrowseSet(calls') /\ Sent("tree", "open", None, 1)
      BY <1>3, <2>1, BrowseSends
    <2>3. IsScreen(screen') /\ screen'.at = "sub" /\ Unmarked(screen') /\ screen'.id \in Tops
      BY <1>1, <2>1 DEF IsScreen, SubKept, Unmarked
    <2>4. Has(calls', "tree")
      BY <2>2 DEF Sent, Has
    <2> QED
      BY <2>2, <2>3, <2>4, KeptAgain DEF ScreenKept, SubKept
  <1> QED
    BY <1>2, <1>3

LEMMA DetailKeeps ==
    ASSUME BrowseKept,
           \/ \E c \in calls : Browse!DetailShown(c) \/ Browse!DetailFailed(c) \/ Browse!DetailAdded(c)
           \/ /\ Browse!MayAct
              /\ \/ Browse!DetailRetry \/ Browse!DetailAdd
                 \/ \E q \in Quantities : Browse!DetailQuantity(q)
    PROVE  BrowseKept'
  <1>1. IsScreen(screen) /\ BrowseSet(calls) /\ screen.at = "detail" /\ DetailKept(screen, calls)
    BY DEF BrowseKept, ScreenKept, Browse!DetailShown, Browse!DetailFailed, Browse!DetailAdded,
           Browse!DetailRetry, Browse!DetailAdd, Browse!DetailQuantity
  <1>2. ASSUME NEW c \in calls, Browse!DetailShown(c) \/ Browse!DetailFailed(c) PROVE BrowseKept'
    <2>1. \E phase \in {"ready", "error"} : \E q :
             screen' = [screen EXCEPT !.phase = phase, !.quantity = q] /\ calls' = calls \ {c}
      <3>1. CASE Browse!DetailShown(c)
        BY <3>1 DEF Browse!DetailShown, Browse!Answer
      <3>2. CASE Browse!DetailFailed(c)
        <4>1. screen' = [screen EXCEPT !.phase = "error", !.quantity = screen.quantity] /\ calls' = calls \ {c}
          BY <1>1, <3>2 DEF Browse!DetailFailed, Browse!Answer, IsScreen
        <4> QED
          BY <4>1
      <3> QED
        BY <1>2, <3>1, <3>2
    <2>2. PICK phase \in {"ready", "error"} : \E q :
             screen' = [screen EXCEPT !.phase = phase, !.quantity = q] /\ calls' = calls \ {c}
      BY <2>1
    <2>3. BrowseSet(calls')
      BY <1>1, <2>2, BrowseFewer
    <2>4. IsScreen(screen') /\ screen'.at = "detail" /\ screen'.phase = phase /\ Unmarked(screen')
      BY <1>1, <2>2 DEF IsScreen, DetailKept, Unmarked
    <2> QED
      BY <2>3, <2>4, KeptAgain DEF ScreenKept, DetailKept
  <1>3. ASSUME NEW c \in calls, Browse!DetailAdded(c) PROVE BrowseKept'
    <2>1. screen' = [screen EXCEPT !.adding = None] /\ calls' = calls \ {c} /\ c.what = "add"
      BY <1>3 DEF Browse!DetailAdded, Browse!Answer
    <2>2. BrowseSet(calls')
      BY <1>1, <2>1, BrowseFewer
    <2>3. IsScreen(screen') /\ screen'.at = "detail" /\ screen'.phase = screen.phase /\ Unmarked(screen')
      BY <1>1, <2>1 DEF IsScreen, DetailKept, Unmarked
    <2>4. DetailKept(screen', calls')
      BY <1>1, <2>1, <2>3 DEF DetailKept, Has
    <2> QED
      BY <2>2, <2>3, <2>4, KeptAgain DEF ScreenKept
  <1>4. ASSUME Browse!MayAct, Browse!DetailRetry PROVE BrowseKept'
    <2>1. /\ screen' = [screen EXCEPT !.phase = "loading"]
          /\ calls' = calls \cup Browse!Ask("detail", "open", None, 1)
      BY <1>4 DEF Browse!DetailRetry, Browse!DetailLoad, Browse!ShowAndAsk
    <2>2. BrowseSet(calls') /\ Sent("detail", "open", None, 1)
      BY <1>4, <2>1, BrowseSends
    <2>3. IsScreen(screen') /\ screen'.at = "detail" /\ Unmarked(screen')
      BY <1>1, <2>1 DEF IsScreen, DetailKept, Unmarked
    <2>4. Has(calls', "detail")
      BY <2>2 DEF Sent, Has
    <2> QED
      BY <2>2, <2>3, <2>4, KeptAgain DEF ScreenKept, DetailKept
  <1>5. ASSUME Browse!MayAct, Browse!DetailAdd PROVE BrowseKept'
    <2>1. /\ screen' = [screen EXCEPT !.adding = "detail"]
          /\ calls' = calls \cup Browse!Ask("add", "open", None, screen.quantity)
      BY <1>5 DEF Browse!DetailAdd, Browse!ShowAndAsk
    <2>2. BrowseSet(calls') /\ Sent("add", "open", None, screen.quantity)
      BY <1>5, <2>1, BrowseSends
    <2>3. IsScreen(screen') /\ screen'.at = "detail" /\ screen'.phase = screen.phase /\ Unmarked(screen')
      BY <1>1, <2>1 DEF IsScreen, DetailKept, Unmarked
    <2>4. DetailKept(screen', calls')
      BY <1>1, <2>2, <2>3 DEF Sent, Has, DetailKept
    <2> QED
      BY <2>2, <2>3, <2>4, KeptAgain DEF ScreenKept
  <1>6. ASSUME NEW q, Browse!DetailQuantity(q) PROVE BrowseKept'
    <2>1. PICK n : n = Browse!snapQuantity(q)
      OBVIOUS
    <2>2. screen' = [screen EXCEPT !.quantity = n] /\ calls' = calls
      BY <1>6, <2>1 DEF Browse!DetailQuantity, Browse!Show
    <2>3. IsScreen(screen') /\ screen'.at = "detail" /\ screen'.phase = screen.phase /\ Unmarked(screen')
      BY <1>1, <2>2 DEF IsScreen, DetailKept, Unmarked
    <2> QED
      BY <1>1, <2>2, <2>3, KeptAgain DEF ScreenKept, DetailKept
  <1> QED
    BY <1>2, <1>3, <1>4, <1>5, <1>6

\* Search: a list of one page.
LEMMA SearchAnswersKept ==
    ASSUME BrowseKept, NEW c \in calls, Browse!SearchFound(c) \/ Browse!SearchFailed(c) PROVE BrowseKept'
  <1>1. /\ IsScreen(screen) /\ BrowseSet(calls) /\ BrowseCall(c) /\ c.what = "products"
        /\ screen.at = "search" /\ SearchKept(screen, calls) /\ calls' = calls \ {c}
        /\ Carries(screen, calls)
    BY DEF BrowseKept, BrowseSet, ScreenKept, SearchKept, Browse!SearchFound, Browse!SearchFailed, Browse!Answer
  <1>2. BrowseSet(calls')
    BY <1>1, BrowseFewer
  <1>3. CASE Browse!SearchFound(c)
    <2>1. PICK t : t = Browse!Put(c)
      OBVIOUS
    <2>2. PICK r \in Seq(Entries), b \in BOOLEAN : PutOf(t, c, r, b)
      BY <1>1, <2>1, PutIs
    <2>3. PICK u : u = [t EXCEPT !.phase = "ready"]
      OBVIOUS
    <2>4. /\ IsScreen(u) /\ u.at = screen.at /\ u.id = screen.id /\ u.sel = screen.sel
          /\ u.more = screen.more /\ u.refreshing = screen.refreshing /\ u.late = screen.late
          /\ u.phase = "ready" /\ u.list = screen.list /\ u.rows = r /\ u.page = c.page /\ u.tangled = b
      BY <1>1, <2>2, <2>3 DEF PutOf, IsScreen
    <2>5. screen' = Browse!Done(u, c)
      BY <1>3, <2>1, <2>3 DEF Browse!SearchFound, Browse!Answer
    <2>6. PICK phase, lst : phase = "ready" /\ lst = screen.list
      OBVIOUS
    <2>7. /\ Left(c, phase, lst) /\ screen'.rows = r /\ screen'.page = c.page
          /\ screen'.tangled <=> b \/ c.id \in screen.late
      BY <2>4, <2>5, <2>6, DoneLeft
    <2>8. Came(c)
      BY <2>2, <2>7 DEF PutOf, Came
    <2>9. ~screen'.tangled => AllOf(screen')
      BY <1>1, <2>7, <2>8, CameIs
    <2>10. Carries(screen', calls')
      BY <1>1, <2>7, CarriesLeft
    <2>11. SearchKept(screen', calls') /\ IsScreen(screen') /\ screen'.at = "search"
      BY <1>1, <2>6, <2>7, <2>9, <2>10 DEF SearchKept, Left
    <2> QED
      BY <1>2, <2>11, KeptAgain DEF ScreenKept
  <1>4. CASE Browse!SearchFailed(c)
    <2>1. PICK r \in Seq(Entries) : r = <<>>
      <3>1. \A S : <<>> \in Seq(S)
        OBVIOUS
      <3> QED
        BY <3>1, Zenon
    <2>2. PICK u : u = [screen EXCEPT !.phase = "ready", !.list = "error", !.rows = r]
      OBVIOUS
    <2>3. /\ IsScreen(u) /\ u.at = screen.at /\ u.id = screen.id /\ u.sel = screen.sel
          /\ u.more = screen.more /\ u.refreshing = screen.refreshing /\ u.late = screen.late
          /\ u.phase = "ready" /\ u.list = "error"
      BY <1>1, <2>2 DEF IsScreen
    <2>4. screen' = Browse!Done(u, c)
      BY <1>4, <2>1, <2>2 DEF Browse!SearchFailed, Browse!Answer
    <2>5. Left(c, "ready", "error")
      BY <2>3, <2>4, DoneLeft
    <2>6. Carries(screen', calls')
      BY <1>1, <2>5, CarriesLeft
    <2>7. SearchKept(screen', calls') /\ IsScreen(screen') /\ screen'.at = "search"
      BY <1>1, <2>5, <2>6 DEF SearchKept, Left
    <2> QED
      BY <1>2, <2>7, KeptAgain DEF ScreenKept
  <1> QED
    BY <1>3, <1>4

LEMMA SearchTapsKept ==
    ASSUME BrowseKept, Browse!MayAct,
           \/ \E k \in Keywords \cup {None} : Browse!SearchType(k) \/ Browse!SearchGuide(k)
           \/ Browse!SearchRun
    PROVE  BrowseKept'
  <1>1. IsScreen(screen) /\ BrowseSet(calls) /\ screen.at = "search" /\ SearchKept(screen, calls)
    BY DEF BrowseKept, ScreenKept, Browse!SearchType, Browse!SearchGuide, Browse!SearchRun
  <1>2. Carries(screen, calls) /\ ~screen.more /\ ~screen.refreshing
    BY <1>1 DEF SearchKept
  <1>3. ASSUME IsScreen(screen'), Alike(screen', screen), screen'.at = "search", calls' = calls,
               screen'.refreshing = screen.refreshing, screen'.phase = screen.phase,
               screen'.list \in {screen.list, "error"}
        PROVE  BrowseKept'
    <2>1. PICK t, ds : t = screen' /\ ds = calls'
      OBVIOUS
    <2>2. Alike(t, screen) /\ SameLists(ds, calls)
      BY <1>3, <2>1 DEF SameLists
    <2>3. Carries(t, ds)
      BY <1>2, <2>2, CarriesSame
    <2>4. AllOf(screen) => AllOf(t)
      BY <2>2 DEF AllOf, Alike
    <2>5. SearchKept(t, ds)
      BY <1>1, <1>2, <1>3, <2>1, <2>2, <2>3, <2>4 DEF SearchKept, Alike
    <2> QED
      BY <1>1, <1>3, <2>1, <2>5, KeptAgain DEF ScreenKept
  <1>4. ASSUME NEW k \in Keywords \cup {None}, Browse!SearchType(k) \/ Browse!SearchGuide(k) PROVE BrowseKept'
    <2>1. screen' = [screen EXCEPT !.word = k] /\ calls' = calls
      BY <1>4 DEF Browse!SearchType, Browse!SearchGuide, Browse!Show
    <2>2. /\ IsScreen(screen') /\ Alike(screen', screen) /\ screen'.at = "search"
          /\ screen'.refreshing = screen.refreshing /\ screen'.phase = screen.phase /\ screen'.list = screen.list
      BY <1>1, <2>1 DEF IsScreen, Alike
    <2> QED
      BY <1>3, <2>1, <2>2
  <1>5. CASE Browse!SearchRun
    <2>1. CASE screen.word = None
      <3>1. screen' = [screen EXCEPT !.list = "error"] /\ calls' = calls
        BY <1>5, <2>1 DEF Browse!SearchRun, Browse!Show
      <3>2. /\ IsScreen(screen') /\ Alike(screen', screen) /\ screen'.at = "search"
            /\ screen'.refreshing = screen.refreshing /\ screen'.phase = screen.phase /\ screen'.list = "error"
        BY <1>1, <3>1 DEF IsScreen, Alike
      <3> QED
        BY <1>3, <3>1, <3>2
    <2>2. CASE screen.word # None
      <3>1. PICK l \in SUBSET Nat : l = Browse!Overtaken
        BY <1>1, OvertakenAre
      <3>2. PICK w \in Chosen : w = screen.word
        BY <1>1, <2>2 DEF IsScreen, Chosen, Browse!Selections
      <3>3. /\ screen' = [screen EXCEPT !.phase = "loading", !.list = "ready", !.sel = w, !.late = l]
            /\ calls' = calls \cup Browse!Ask("products", "open", w, 1)
        BY <1>5, <2>2, <3>1, <3>2 DEF Browse!SearchRun, Browse!ShowAndAsk
      <3>4. BrowseSet(calls') /\ Sent("products", "open", w, 1)
        BY <3>3, BrowseSends, FirstPage
      <3>5. /\ IsScreen(screen') /\ screen'.at = "search" /\ screen'.phase = "loading" /\ screen'.list = "ready"
            /\ screen'.more = screen.more /\ screen'.refreshing = screen.refreshing
            /\ screen'.late = l /\ screen'.sel = w
        BY <1>1, <3>3 DEF IsScreen
      <3>6. Sent("products", "open", screen'.sel, 1)
        BY <3>4, <3>5
      <3>7. Carries(screen', calls')
        BY <1>2, <3>1, <3>5, <3>6, SentReplaces
      <3>8. \E c \in calls' : c.mode # "more"
        BY <3>4 DEF Sent
      <3>9. SearchKept(screen', calls')
        BY <1>2, <3>5, <3>7, <3>8 DEF SearchKept
      <3> QED
        BY <3>4, <3>5, <3>9, KeptAgain DEF ScreenKept
    <2> QED
      BY <2>1, <2>2
  <1> QED
    BY <1>4, <1>5

\* The list of a category.
OpenedOf(u, t, c, phase) ==
    /\ IsScreen(u) /\ u.at = t.at /\ u.id = t.id /\ u.sel = t.sel /\ u.list = t.list
    /\ u.more = t.more /\ u.refreshing = t.refreshing /\ u.rows = t.rows /\ u.page = t.page
    /\ u.tangled = t.tangled /\ u.late = t.late /\ u.phase = IF c.mode = "open" THEN phase ELSE t.phase
LEMMA OpenedIs ==
    ASSUME NEW t, IsScreen(t), NEW c, NEW phase \in {"ready", "error"}, NEW u, u = Browse!Opened(t, c, phase)
    PROVE  OpenedOf(u, t, c, phase)
  <1>1. CASE c.mode = "open"
    <2>1. u = [t EXCEPT !.phase = phase]
      BY <1>1 DEF Browse!Opened
    <2> QED
      BY <1>1, <2>1 DEF IsScreen, OpenedOf
  <1>2. CASE c.mode # "open"
    BY <1>2 DEF Browse!Opened, OpenedOf
  <1> QED
    BY <1>1, <1>2

LEMMA CategoryAnswersKept ==
    ASSUME BrowseKept, NEW c \in calls, Browse!CategoryPage(c) \/ Browse!CategoryFailed(c)
    PROVE  BrowseKept'
  <1>1. /\ IsScreen(screen) /\ BrowseSet(calls) /\ BrowseCall(c) /\ c.what = "products"
        /\ screen.at = "category" /\ CategoryKept(screen, calls) /\ calls' = calls \ {c}
    BY DEF BrowseKept, BrowseSet, ScreenKept, Browse!CategoryPage, Browse!CategoryFailed, Browse!Answer
  <1>2. BrowseSet(calls')
    BY <1>1, BrowseFewer
  <1>3. screen.id # "filler" /\ screen.list = "ready" /\ Carries(screen, calls)
    BY <1>1 DEF CategoryKept, Has
  <1>4. ASSUME NEW phase \in {"loading", "ready", "error"}, Left(c, phase, "ready"),
               phase = "loading" => screen.phase = "loading" /\ c.mode # "open",
               Carries(screen', calls'),
               ~screen'.tangled /\ phase = "ready" => AllOf(screen')
        PROVE  BrowseKept'
    <2>1. Marked(screen', calls')
      BY <1>1, <1>4, LeftMarked DEF CategoryKept
    <2>2. phase = "loading" => \E d \in calls' : d.mode = "open"
      BY <1>1, <1>4 DEF CategoryKept
    <2>3. CategoryKept(screen', calls') /\ screen'.at = "category" /\ IsScreen(screen')
      BY <1>1, <1>3, <1>4, <2>1, <2>2 DEF CategoryKept, Left
    <2> QED
      BY <1>2, <2>3, KeptAgain DEF ScreenKept
  <1>5. CASE Browse!CategoryPage(c)
    <2>1. PICK t : t = Browse!Put(c)
      OBVIOUS
    <2>2. PICK r \in Seq(Entries), b \in BOOLEAN : PutOf(t, c, r, b)
      BY <1>1, <2>1, PutIs
    <2>3. /\ IsScreen(t) /\ t.at = screen.at /\ t.id = screen.id /\ t.sel = screen.sel
          /\ t.more = screen.more /\ t.refreshing = screen.refreshing /\ t.late = screen.late
          /\ t.phase = screen.phase /\ t.list = "ready" /\ t.rows = r /\ t.page = c.page /\ t.tangled = b
      BY <1>1, <1>3, <2>2 DEF PutOf, IsScreen
    <2>12. PICK phase \in {"ready", "error"} : phase = "ready"
      OBVIOUS
    <2>4. PICK u : u = Browse!Opened(t, c, phase)
      OBVIOUS
    <2>5. OpenedOf(u, t, c, phase)
      BY <2>3, <2>4, OpenedIs
    <2>6. screen' = Browse!Done(u, c)
      BY <1>5, <2>1, <2>4, <2>12 DEF Browse!CategoryPage, Browse!Answer
    <2>7. /\ Left(c, u.phase, "ready") /\ screen'.rows = r /\ screen'.page = c.page
          /\ screen'.tangled <=> b \/ c.id \in screen.late
      BY <2>3, <2>5, <2>6, DoneLeft DEF OpenedOf
    <2>8. Came(c)
      BY <2>2, <2>7 DEF PutOf, Came
    <2>9. ~screen'.tangled => AllOf(screen')
      BY <1>1, <1>3, <2>7, <2>8, CameIs
    <2>10. Carries(screen', calls')
      BY <1>1, <1>3, <2>7, CarriesLeft
    <2>11. u.phase \in {"loading", "ready", "error"}
           /\ (u.phase = "loading" => screen.phase = "loading" /\ c.mode # "open")
      BY <2>3, <2>5, <2>12 DEF IsScreen, OpenedOf
    <2> QED
      BY <1>4, <2>7, <2>9, <2>10, <2>11
  <1>6. CASE Browse!CategoryFailed(c)
    <2>8. PICK phase \in {"ready", "error"} : phase = "error"
      OBVIOUS
    <2>1. PICK u : u = Browse!Opened(screen, c, phase)
      OBVIOUS
    <2>2. OpenedOf(u, screen, c, phase)
      BY <1>1, <2>1, OpenedIs
    <2>3. screen' = Browse!Done(u, c)
      BY <1>6, <2>1, <2>8 DEF Browse!CategoryFailed, Browse!Answer
    <2>4. /\ Left(c, u.phase, "ready") /\ screen'.rows = screen.rows /\ screen'.page = screen.page
          /\ (screen.tangled => screen'.tangled) /\ screen'.sel = screen.sel
      <3>1. /\ Left(c, u.phase, u.list) /\ screen'.rows = u.rows /\ screen'.page = u.page
            /\ screen'.tangled <=> u.tangled \/ c.id \in screen.late
        BY <2>2, <2>3, DoneLeft DEF OpenedOf
      <3> QED
        BY <1>3, <2>2, <3>1 DEF Left, OpenedOf
    <2>5. Carries(screen', calls')
      BY <1>1, <1>3, <2>4, CarriesLeft
    <2>6. u.phase \in {"loading", "ready", "error"}
          /\ (u.phase = "loading" => screen.phase = "loading" /\ c.mode # "open")
          /\ (u.phase = "ready" => screen.phase = "ready")
      BY <1>1, <2>2, <2>8 DEF IsScreen, OpenedOf
    <2>7. ~screen'.tangled /\ u.phase = "ready" => AllOf(screen')
      BY <1>1, <1>3, <2>4, <2>6 DEF CategoryKept, AllOf
    <2> QED
      BY <1>4, <2>4, <2>5, <2>6, <2>7
  <1> QED
    BY <1>5, <1>6

LEMMA CategoryOpensKept ==
    ASSUME BrowseKept, Browse!MayAct, screen.at = "category", NEW k \in Chosen, NEW s, s = [screen EXCEPT !.sel = k],
           screen' = Browse!CategoryOpen(s), calls' = calls \cup Browse!CategoryAsks(s)
    PROVE  BrowseKept'
  <1>1. IsScreen(screen) /\ BrowseSet(calls) /\ CategoryKept(screen, calls) /\ Carries(screen, calls)
    BY DEF BrowseKept, ScreenKept, CategoryKept
  <1>2. /\ IsScreen(s) /\ s.at = "category" /\ s.id = screen.id /\ s.list = "ready" /\ s.more = screen.more
        /\ s.refreshing = screen.refreshing /\ s.rows = screen.rows /\ s.page = screen.page
        /\ s.tangled = screen.tangled /\ s.late = screen.late /\ s.sel = k
    BY <1>1 DEF IsScreen, CategoryKept
  <1>3. CASE s.id = "filler"
    <2>1. screen' = [s EXCEPT !.phase = "ready"] /\ calls' = calls
      BY <1>2, <1>3 DEF Browse!CategoryOpen, Browse!CategoryAsks, Browse!Filler
    <2>2. /\ IsScreen(screen') /\ screen'.at = "category" /\ screen'.id = screen.id /\ screen'.list = "ready"
          /\ screen'.more = screen.more /\ screen'.refreshing = screen.refreshing /\ screen'.rows = screen.rows
          /\ screen'.phase = "ready" /\ screen'.late = screen.late
      <3>1. Turned(screen', s, "ready", s.late)
        BY <1>2, <2>1, PhaseIs
      <3> QED
        BY <1>2, <3>1 DEF Turned
    <2>3. ~Has(calls, "products") /\ screen'.rows = <<>> /\ Marked(screen, calls)
      BY <1>1, <1>2, <1>3, <2>2 DEF CategoryKept
    <2>4. Marked(screen', calls')
      BY <2>1, <2>2, <2>3 DEF Marked
    <2>5. Carries(screen', calls')
      BY <1>1, <2>1, <2>2, <2>3 DEF Carries, LateAre, OneMore, OnTime, Has
    <2>6. CategoryKept(screen', calls')
      BY <1>2, <1>3, <2>1, <2>2, <2>3, <2>4, <2>5 DEF CategoryKept
    <2> QED
      BY <1>1, <2>1, <2>2, <2>6, KeptAgain DEF ScreenKept
  <1>4. CASE s.id # "filler"
    <2>1. PICK l \in SUBSET Nat : l = Browse!Overtaken
      BY <1>1, OvertakenAre
    <2>2. /\ screen' = [s EXCEPT !.phase = "loading", !.late = l]
          /\ calls' = calls \cup Browse!Ask("products", "open", k, 1)
      BY <1>2, <1>4, <2>1 DEF Browse!CategoryOpen, Browse!CategoryAsks, Browse!Filler
    <2>3. BrowseSet(calls') /\ Sent("products", "open", k, 1)
      BY <2>2, BrowseSends, FirstPage
    <2>4. /\ IsScreen(screen') /\ screen'.at = "category" /\ screen'.id = screen.id /\ screen'.list = "ready"
          /\ screen'.more = screen.more /\ screen'.refreshing = screen.refreshing
          /\ screen'.phase = "loading" /\ screen'.late = l /\ screen'.sel = k
      <3>1. Turned(screen', s, "loading", l)
        BY <1>2, <2>2, TurnedIs
      <3> QED
        BY <1>2, <3>1 DEF Turned
    <2>8. Sent("products", "open", screen'.sel, 1)
      BY <2>3, <2>4
    <2>5. Carries(screen', calls')
      BY <1>1, <2>1, <2>4, <2>8, SentReplaces
    <2>6. Marked(screen', calls') /\ \E c \in calls' : c.mode = "open"
      BY <1>1, <2>3, <2>4 DEF CategoryKept, Marked, Sent
    <2>7. CategoryKept(screen', calls')
      BY <1>2, <1>4, <2>4, <2>5, <2>6 DEF CategoryKept
    <2> QED
      BY <2>3, <2>4, <2>7, KeptAgain DEF ScreenKept
  <1> QED
    BY <1>3, <1>4

LEMMA CategoryTapsKept ==
    ASSUME BrowseKept, Browse!MayAct,
           \/ \E k \in Sorts : Browse!CategorySort(k)
           \/ Browse!CategoryRetry \/ Browse!CategoryRefresh \/ Browse!CategoryEnd
    PROVE  BrowseKept'
  <1>1. /\ IsScreen(screen) /\ BrowseSet(calls) /\ screen.at = "category" /\ CategoryKept(screen, calls)
        /\ screen.sel \in Chosen /\ Pages \in Nat /\ Carries(screen, calls)
    BY BuyerAppAssumption
    DEF BrowseKept, ScreenKept, IsScreen, CategoryKept, Browse!CategorySort, Browse!CategoryRetry,
        Browse!CategoryRefresh, Browse!CategoryEnd
  <1>2. ASSUME NEW k \in Sorts, Browse!CategorySort(k) PROVE BrowseKept'
    <2>1. PICK s : s = [screen EXCEPT !.sel = k]
      OBVIOUS
    <2>2. k \in Chosen
      BY DEF Chosen, Browse!Selections
    <2>3. screen' = Browse!CategoryOpen(s) /\ calls' = calls \cup Browse!CategoryAsks(s)
      BY <1>2, <2>1 DEF Browse!CategorySort, Browse!ShowAndAsk
    <2> QED
      BY <1>1, <2>1, <2>2, <2>3, CategoryOpensKept
  <1>3. CASE Browse!CategoryRetry
    <2>1. screen = [screen EXCEPT !.sel = screen.sel]
      BY <1>1 DEF IsScreen
    <2>2. screen' = Browse!CategoryOpen(screen) /\ calls' = calls \cup Browse!CategoryAsks(screen)
      BY <1>3 DEF Browse!CategoryRetry, Browse!ShowAndAsk
    <2>3. PICK s : s = screen
      OBVIOUS
    <2>5. PICK k \in Chosen : k = screen.sel
      BY <1>1
    <2>4. /\ s = [screen EXCEPT !.sel = k]
          /\ screen' = Browse!CategoryOpen(s) /\ calls' = calls \cup Browse!CategoryAsks(s)
      BY <2>1, <2>2, <2>3, <2>5
    <2> QED
      BY <1>1, <2>4, CategoryOpensKept
  <1>4. PICK l \in SUBSET Nat, m \in SUBSET Nat : l = Browse!Overtaken /\ m = Browse!LateWith(Browse!NextId)
    BY <1>1, OvertakenAre, LateWithAre
  <1>5. ASSUME Browse!CategoryRefresh \/ Browse!CategoryEnd PROVE screen.phase = "ready"
    BY <1>1, <1>5 DEF Browse!CategoryRefresh, Browse!CategoryEnd, Browse!CategoryOffers, IsScreen
  <1>6. CASE Browse!CategoryRefresh
    <2>1. CASE screen.id = "filler"
      <3>1. screen' = [screen EXCEPT !.phase = "error"] /\ calls' = calls
        BY <1>6, <2>1 DEF Browse!CategoryRefresh, Browse!Show, Browse!Filler
      <3>2. /\ IsScreen(screen') /\ screen'.at = "category" /\ screen'.id = screen.id /\ screen'.list = "ready"
            /\ screen'.more = screen.more /\ screen'.refreshing = screen.refreshing /\ screen'.rows = screen.rows
            /\ screen'.phase = "error" /\ Alike(screen', screen)
        BY <1>1, <3>1 DEF IsScreen, CategoryKept, Alike
      <3>4. PICK t, ds : t = screen' /\ ds = calls'
        OBVIOUS
      <3>5. SameLists(ds, calls) /\ Alike(t, screen)
        BY <3>1, <3>2, <3>4 DEF SameLists
      <3>6. Carries(t, ds)
        BY <1>1, <3>5, CarriesSame
      <3>3. CategoryKept(screen', calls')
        BY <1>1, <2>1, <3>1, <3>2, <3>4, <3>6 DEF CategoryKept, Marked, Has
      <3> QED
        BY <1>1, <3>1, <3>2, <3>3, KeptAgain DEF ScreenKept
    <2>2. CASE screen.id # "filler"
      <3>1. /\ screen' = [screen EXCEPT !.refreshing = TRUE, !.late = l]
            /\ calls' = calls \cup Browse!Ask("products", "refresh", screen.sel, 1)
        BY <1>4, <1>6, <2>2 DEF Browse!CategoryRefresh, Browse!ShowAndAsk, Browse!Filler
      <3>2. BrowseSet(calls') /\ Sent("products", "refresh", screen.sel, 1)
        BY <1>1, <3>1, BrowseSends, FirstPage
      <3>3. /\ IsScreen(screen') /\ screen'.at = "category" /\ screen'.id = screen.id /\ screen'.list = "ready"
            /\ screen'.more = screen.more /\ screen'.phase = screen.phase /\ screen'.late = l
            /\ screen'.tangled = screen.tangled
            /\ screen'.sel = screen.sel /\ screen'.rows = screen.rows /\ screen'.page = screen.page
        BY <1>1, <3>1 DEF IsScreen, CategoryKept
      <3>4. Sent("products", "refresh", screen'.sel, 1)
        BY <3>2, <3>3
      <3>5. Carries(screen', calls')
        BY <1>1, <1>4, <3>3, <3>4, SentReplaces
      <3>6. ~screen'.tangled => AllOf(screen')
        BY <1>1, <1>5, <1>6, <2>2, <3>3 DEF CategoryKept, AllOf
      <3>7. Marked(screen', calls')
        BY <1>1, <3>2, <3>3 DEF CategoryKept, Marked, Sent
      <3>8. CategoryKept(screen', calls')
        BY <1>5, <1>6, <2>2, <3>3, <3>5, <3>6, <3>7 DEF CategoryKept
      <3> QED
        BY <3>2, <3>3, <3>8, KeptAgain DEF ScreenKept
    <2> QED
      BY <2>1, <2>2
  <1>7. CASE Browse!CategoryEnd
    <2>1. /\ screen' = [screen EXCEPT !.more = TRUE, !.late = m] /\ screen.page < Pages /\ ~screen.more
          /\ calls' = calls \cup Browse!Ask("products", "more", screen.sel, screen.page + 1)
          /\ screen.id # "filler"
      BY <1>4, <1>7 DEF Browse!CategoryEnd, Browse!ShowAndAsk, Browse!Filler
    <2>2. PICK n \in 1 .. Pages : n = screen.page + 1
      BY <1>1, <2>1 DEF IsScreen
    <2>3. n \in 1 .. Pages + 1
      BY <1>1
    <2>4. BrowseSet(calls') /\ Sent("products", "more", screen.sel, n)
      BY <1>1, <2>1, <2>2, <2>3, BrowseSends
    <2>5. /\ IsScreen(screen') /\ screen'.at = "category" /\ screen'.id = screen.id /\ screen'.list = "ready"
          /\ screen'.refreshing = screen.refreshing /\ screen'.phase = screen.phase /\ screen'.late = m
          /\ screen'.tangled = screen.tangled /\ screen'.more = TRUE
          /\ screen'.sel = screen.sel /\ screen'.rows = screen.rows /\ screen'.page = screen.page
      BY <1>1, <2>1 DEF IsScreen, CategoryKept
    <2>6. ~screen'.tangled => AllOf(screen')
      BY <1>1, <1>5, <1>7, <2>1, <2>5 DEF CategoryKept, AllOf
    <2>7. Sent("products", "more", screen'.sel, n)
      BY <2>4, <2>5
    <2>8. Carries(screen', calls')
      <3>1. ~screen'.tangled => n = screen'.page + 1 /\ n <= Pages /\ AllOf(screen')
        BY <1>1, <2>2, <2>5, <2>6
      <3> QED
        BY <1>1, <1>4, <2>1, <2>5, <2>7, <3>1, SentMore
    <2>9. Marked(screen', calls')
      BY <1>1, <2>4, <2>5 DEF CategoryKept, Marked, Sent
    <2>10. CategoryKept(screen', calls')
      BY <1>5, <1>7, <2>1, <2>5, <2>6, <2>8, <2>9 DEF CategoryKept
    <2> QED
      BY <2>4, <2>5, <2>10, KeptAgain DEF ScreenKept
  <1> QED
    BY <1>2, <1>3, <1>6, <1>7

\* The category tab: what a selection makes of the screen.
SelectOf(t, k, p) ==
    /\ IsScreen(t) /\ t.at = screen.at /\ t.id = screen.id /\ t.phase = "ready" /\ t.parent = p /\ t.sel = k
    /\ t.rows = screen.rows /\ t.page = screen.page /\ t.more = screen.more /\ t.refreshing = screen.refreshing
    /\ t.tangled = screen.tangled
    /\ k = screen.sel => t.list = screen.list /\ t.late = screen.late
    /\ k # screen.sel => t.list = "loading" /\ t.late = Browse!Overtaken
PlacedAt(t, s, p) ==
    /\ IsScreen(t) /\ t.at = s.at /\ t.id = s.id /\ t.sel = s.sel /\ t.rows = s.rows /\ t.page = s.page
    /\ t.more = s.more /\ t.refreshing = s.refreshing /\ t.list = s.list /\ t.tangled = s.tangled
    /\ t.late = s.late /\ t.phase = "ready" /\ t.parent = p
LEMMA PlacedIs ==
    ASSUME NEW s, IsScreen(s), NEW p \in Tops \cup {None}, NEW t, t = [s EXCEPT !.phase = "ready", !.parent = p]
    PROVE  PlacedAt(t, s, p)
  BY DEF IsScreen, PlacedAt
LEMMA SelectIs ==
    ASSUME IsScreen(screen), BrowseSet(calls), NEW k \in Chosen, NEW p \in Tops \cup {None}, NEW t,
           t = [Browse!TabSelect(screen, k) EXCEPT !.phase = "ready", !.parent = p]
    PROVE  SelectOf(t, k, p)
  <1>1. CASE k = screen.sel
    <2>1. PICK s : s = Browse!TabSelect(screen, k)
      OBVIOUS
    <2>2. s = [screen EXCEPT !.sel = k] /\ t = [s EXCEPT !.phase = "ready", !.parent = p]
      BY <1>1, <2>1 DEF Browse!TabSelect
    <2>3. IsScreen(s) /\ s.at = screen.at /\ s.id = screen.id /\ s.sel = k /\ s.rows = screen.rows
          /\ s.page = screen.page /\ s.more = screen.more /\ s.refreshing = screen.refreshing
          /\ s.list = screen.list /\ s.tangled = screen.tangled /\ s.late = screen.late
      BY <2>2 DEF IsScreen
    <2>4. IsScreen(t) /\ t.at = s.at /\ t.id = s.id /\ t.sel = s.sel /\ t.rows = s.rows /\ t.page = s.page
          /\ t.more = s.more /\ t.refreshing = s.refreshing /\ t.list = s.list /\ t.tangled = s.tangled
          /\ t.late = s.late /\ t.phase = "ready" /\ t.parent = p
      <3>1. PlacedAt(t, s, p)
        BY <2>2, <2>3, PlacedIs
      <3> QED
        BY <3>1 DEF PlacedAt
    <2> QED
      BY <1>1, <2>3, <2>4 DEF SelectOf
  <1>2. CASE k # screen.sel
    <2>1. PICK s : s = Browse!TabSelect(screen, k)
      OBVIOUS
    <2>2. PICK l \in SUBSET Nat : l = Browse!Overtaken
      BY OvertakenAre
    <2>3. s = [screen EXCEPT !.sel = k, !.list = "loading", !.late = l]
          /\ t = [s EXCEPT !.phase = "ready", !.parent = p]
      BY <1>2, <2>1, <2>2 DEF Browse!TabSelect
    <2>4. IsScreen(s) /\ s.at = screen.at /\ s.id = screen.id /\ s.sel = k /\ s.rows = screen.rows
          /\ s.page = screen.page /\ s.more = screen.more /\ s.refreshing = screen.refreshing
          /\ s.list = "loading" /\ s.late = l /\ s.tangled = screen.tangled
      BY <2>3 DEF IsScreen
    <2>5. IsScreen(t) /\ t.at = s.at /\ t.id = s.id /\ t.sel = s.sel /\ t.rows = s.rows /\ t.page = s.page
          /\ t.more = s.more /\ t.refreshing = s.refreshing /\ t.list = s.list /\ t.tangled = s.tangled
          /\ t.late = s.late /\ t.phase = "ready" /\ t.parent = p
      <3>1. PlacedAt(t, s, p)
        BY <2>3, <2>4, PlacedIs
      <3> QED
        BY <3>1 DEF PlacedAt
    <2> QED
      BY <1>2, <2>2, <2>4, <2>5 DEF SelectOf
  <1> QED
    BY <1>1, <1>2

LEMMA ChildrenAre == ASSUME NEW k \in Browse!Children PROVE k \in Chosen /\ k # None /\ k # "filler"
  <1>1. PICK p \in Tops : k \in Browse!ToSet(Browse!Options(p))
    BY TopsAre DEF Browse!Children
  <1> QED
    BY <1>1, OptionsAre DEF Chosen, Browse!Selections

LEMMA SelectKept ==
    ASSUME TabKept(screen, calls), NEW rest \in SUBSET calls, Marked(screen, rest),
           \A d \in rest : d.what = "tree" => d.mode = "refresh",
           \A d \in calls : d.what = "products" => d \in rest,
           NEW k \in Browse!Children, NEW p, NEW t, SelectOf(t, k, p), NEW ds,
           k = screen.sel => ds = rest,
           k # screen.sel => \E n : ds = rest \cup {n} /\ n.what = "products" /\ n.mode = "open" /\ n.key = k
    PROVE  TabKept(t, ds)
  <1>3. Carries(screen, calls)
    BY DEF TabKept
  <1>1. CASE k = screen.sel
    <2>1. SameLists(ds, calls) /\ Alike(t, screen)
      BY <1>1 DEF SameLists, Alike, SelectOf
    <2>2. Carries(t, ds)
      BY <1>3, <2>1, CarriesSame
    <2> QED
      BY <1>1, <2>2, ChildrenAre DEF TabKept, Marked, Branch, Has, AllOf, SelectOf
  <1>2. CASE k # screen.sel
    <2>1. PICK n : ds = rest \cup {n} /\ n.what = "products" /\ n.mode = "open" /\ n.key = k
      BY <1>2
    <2>2. /\ t.list = "loading" /\ t.late = Browse!Overtaken /\ t.sel = k /\ t.phase = "ready"
          /\ t.more = screen.more
      BY <1>2 DEF SelectOf
    <2>3. PICK N : N = {n}
      OBVIOUS
    <2>6. SameLists(ds, calls \cup N)
      BY <2>1, <2>3 DEF SameLists
    <2>4. Carries(t, ds)
      BY <1>3, <2>1, <2>2, <2>3, <2>6, ReplaceCarries
    <2>5. Marked(t, ds) /\ Branch(t, ds)
      BY <2>1, <2>2 DEF TabKept, Marked, Branch, SelectOf
    <2> QED
      BY <2>1, <2>2, <2>4, <2>5, ChildrenAre DEF TabKept, Has
  <1> QED
    BY <1>1, <1>2

LEMMA TabChoiceKept ==
    ASSUME BrowseKept, Browse!MayAct,
           (\E p \in Browse!ToSet(Parents) : Browse!TabParent(p)) \/ (\E k \in Browse!Children : Browse!TabChild(k))
    PROVE  BrowseKept'
  <1>1. IsScreen(screen) /\ BrowseSet(calls) /\ screen.at = "tab" /\ TabKept(screen, calls) /\ screen.phase = "ready"
    BY DEF BrowseKept, ScreenKept, IsScreen, Browse!TabParent, Browse!TabChild, Browse!TabOffers
  <1>2. PICK k \in Browse!Children : \E p \in Tops \cup {None} :
           /\ screen' = [Browse!TabSelect(screen, k) EXCEPT !.phase = "ready", !.parent = p]
           /\ calls' = calls \cup Browse!TabSelectAsks(k)
    <2>1. CASE \E p \in Browse!ToSet(Parents) : Browse!TabParent(p)
      <3>1. PICK p \in Tops : Browse!TabParent(p)
        BY <2>1, TopsAre
      <3>2. PICK k : k = IF screen.sel \in Browse!ToSet(Browse!Options(p)) THEN screen.sel
                         ELSE Head(Browse!Options(p))
        OBVIOUS
      <3>3. k \in Browse!Children
        BY <3>2, OptionsAre
      <3>4. screen' = [Browse!TabSelect(screen, k) EXCEPT !.parent = p] /\ calls' = calls \cup Browse!TabSelectAsks(k)
        BY <3>1, <3>2 DEF Browse!TabParent, Browse!ShowAndAsk
      <3>5. PICK s : s = Browse!TabSelect(screen, k)
        OBVIOUS
      <3>6. s.phase = "ready" /\ s = [s EXCEPT !.phase = "ready"]
        BY <1>1, <3>5 DEF Browse!TabSelect, IsScreen
      <3>7. [s EXCEPT !.parent = p] = [s EXCEPT !.phase = "ready", !.parent = p]
        BY <3>6
      <3> QED
        BY <3>3, <3>4, <3>5, <3>7
    <2>2. CASE \E k \in Browse!Children : Browse!TabChild(k)
      <3>1. PICK k \in Browse!Children : Browse!TabChild(k)
        BY <2>2
      <3>2. screen' = Browse!TabSelect(screen, k) /\ calls' = calls \cup Browse!TabSelectAsks(k)
        BY <3>1 DEF Browse!TabChild, Browse!ShowAndAsk
      <3>3. PICK s : s = Browse!TabSelect(screen, k)
        OBVIOUS
      <3>4. PICK p \in Tops \cup {None} : p = screen.parent
        BY <1>1 DEF IsScreen
      <3>5. s = [s EXCEPT !.phase = "ready", !.parent = p]
        BY <1>1, <3>3, <3>4 DEF Browse!TabSelect, IsScreen
      <3> QED
        BY <3>1, <3>2, <3>3, <3>4, <3>5
    <2> QED
      BY <2>1, <2>2
  <1>3. PICK p \in Tops \cup {None} :
           /\ screen' = [Browse!TabSelect(screen, k) EXCEPT !.phase = "ready", !.parent = p]
           /\ calls' = calls \cup Browse!TabSelectAsks(k)
    BY <1>2
  <1>4. SelectOf(screen', k, p)
    BY <1>1, <1>3, ChildrenAre, SelectIs
  <1>5. /\ BrowseSet(calls')
        /\ k = screen.sel => calls' = calls
        /\ k # screen.sel => \E n : calls' = calls \cup {n} /\ n.what = "products" /\ n.mode = "open" /\ n.key = k
    <2>1. CASE k = screen.sel
      BY <1>1, <1>3, <2>1 DEF Browse!TabSelectAsks
    <2>2. CASE k # screen.sel
      <3>1. calls' = calls \cup Browse!Ask("products", "open", k, 1)
        BY <1>3, <2>2 DEF Browse!TabSelectAsks
      <3>2. k \in Chosen
        BY ChildrenAre
      <3>3. BrowseSet(calls') /\ Sent("products", "open", k, 1)
        BY <3>1, <3>2, BrowseSends, FirstPage
      <3> QED
        BY <2>2, <3>3 DEF Sent
    <2> QED
      BY <2>1, <2>2
  <1>6. Marked(screen, calls) /\ \A d \in calls : d.what = "tree" => d.mode = "refresh"
    <2>1. \A d \in calls : d.what = "tree" => d.mode \in {"open", "refresh", "more"} /\ d.mode # "more"
      BY <1>1 DEF BrowseSet, BrowseCall
    <2> QED
      BY <1>1, <2>1 DEF TabKept, Branch
  <1>7. PICK t, ds : t = screen' /\ ds = calls'
    OBVIOUS
  <1>8. TabKept(t, ds)
    BY <1>1, <1>4, <1>5, <1>6, <1>7, SelectKept
  <1> QED
    BY <1>1, <1>4, <1>5, <1>7, <1>8, KeptAgain DEF ScreenKept, SelectOf

LEMMA TabTreeKept == ASSUME BrowseKept, NEW c \in calls, Browse!TabTree(c) PROVE BrowseKept'
  <1>1. /\ IsScreen(screen) /\ BrowseSet(calls) /\ BrowseCall(c) /\ c.what = "tree"
        /\ screen.at = "tab" /\ TabKept(screen, calls)
    BY DEF BrowseKept, BrowseSet, ScreenKept, Browse!TabTree
  <1>2. PICK p \in Tops : p = IF c.from = None THEN Head(Parents) ELSE c.from
    BY <1>1, FirstIsTop DEF BrowseCall
  <1>3. PICK k \in Browse!Children : k = IF c.key \in Browse!ToSet(Browse!Options(p)) THEN c.key
                                         ELSE Head(Browse!Options(p))
    BY OptionsAre
  <1>4. PICK t : t = [Browse!TabSelect(screen, k) EXCEPT !.phase = "ready", !.parent = p]
    OBVIOUS
  <1>5. SelectOf(t, k, p)
    BY <1>1, <1>4, ChildrenAre, SelectIs
  <1>6. PICK l \in SUBSET Nat : l = Browse!Overtaken
    BY <1>1, OvertakenAre
  <1>7. PICK j : j = CHOOSE i \in Browse!FreeIds \ {Browse!NextId} : TRUE
    OBVIOUS
  <1>8. /\ c.mode # "refresh" => /\ screen' = [t EXCEPT !.late = t.late]
                                 /\ calls' = (calls \ {c}) \cup Browse!TabSelectAsks(k)
        /\ c.mode = "refresh" => /\ screen' = [t EXCEPT !.late = l]
                                 /\ calls' = (calls \ {c}) \cup (Browse!TabSelectAsks(k)
                                             \cup {Browse!Call(j, "products", "refresh", k, 1)})
    <2>1. PICK again : again = IF c.mode = "refresh" THEN {Browse!Call(j, "products", "refresh", k, 1)} ELSE {}
      OBVIOUS
    <2>2. /\ screen' = [t EXCEPT !.late = IF again = {} THEN @ ELSE l]
          /\ calls' = (calls \ {c}) \cup (Browse!TabSelectAsks(k) \cup again)
      BY <1>2, <1>3, <1>4, <1>6, <1>7, <2>1 DEF Browse!TabTree, Browse!AnswerAndAsk
    <2> QED
      BY <2>1, <2>2
  <1>9. PICK rest \in SUBSET calls : rest = calls \ {c}
    OBVIOUS
  <1>10. /\ \A d \in rest : d.what # "tree" /\ (c.mode = "refresh" => d.mode # "refresh")
         /\ \A d \in calls : d.what = "products" => d \in rest
         /\ c.mode \in {"open", "refresh"}
    BY <1>1, <1>9 DEF TabKept, Branch, BrowseCall
  <1>11. PICK i \in Nat : i = Browse!NextId /\ New(calls, i)
    BY <1>1, BrowseFree DEF New
  <1>12. PICK n : n = Browse!Call(i, "products", "open", k, 1)
    OBVIOUS
  <1>13. BrowseCall(n) /\ n.id = i /\ n.what = "products" /\ n.mode = "open" /\ n.key = k
    <2>1. k \in Chosen
      BY ChildrenAre
    <2> QED
      BY <1>1, <1>12, <2>1, FirstPage, BrowseCallIs
  <1>14. Browse!TabSelectAsks(k) = IF k = screen.sel THEN {} ELSE {n}
    BY <1>11, <1>12 DEF Browse!TabSelectAsks, Browse!Ask
  <1>15. CASE c.mode = "open"
    <2>1. screen' = [t EXCEPT !.late = t.late]
      BY <1>8, <1>15
    <2>2. screen' = t
      BY <1>5, <2>1 DEF SelectOf, IsScreen
    <2>3. calls' = IF k = screen.sel THEN rest ELSE rest \cup {n}
      BY <1>8, <1>9, <1>14, <1>15
    <2>4. BrowseSet(calls')
      BY <1>1, <1>9, <1>11, <1>13, <2>3, BrowseFewer, BrowseSwap
    <2>5. Marked(screen, rest)
      BY <1>1, <1>9, <1>15 DEF TabKept, Marked
    <2>6. PICK ds : ds = calls'
      OBVIOUS
    <2>7. TabKept(t, ds)
      BY <1>1, <1>5, <1>10, <1>13, <2>3, <2>5, <2>6, SelectKept
    <2> QED
      BY <1>1, <1>5, <2>2, <2>4, <2>6, <2>7, KeptAgain DEF ScreenKept, SelectOf
  <1>16. CASE c.mode = "refresh"
    <2>1. PICK m : m = Browse!Call(j, "products", "refresh", k, 1)
      OBVIOUS
    <2>2. New(calls, j) /\ j # i
      BY <1>1, <1>7, <1>11, BrowseFree DEF BrowseSet
    <2>3. j \in Nat
      BY <2>2 DEF New
    <2>4. BrowseCall(m) /\ m.id = j /\ m.what = "products" /\ m.mode = "refresh" /\ m.key = k
      BY <1>1, <2>1, <2>3, ChildrenAre, FirstPage, BrowseCallIs
    <2>5. /\ IsScreen(screen') /\ screen'.at = "tab" /\ screen'.phase = "ready" /\ screen'.sel = k
          /\ screen'.tangled = screen.tangled /\ screen'.late = l /\ screen'.rows = screen.rows
          /\ screen'.page = screen.page /\ screen'.more = screen.more /\ screen'.refreshing = screen.refreshing
          /\ screen'.list = t.list
      BY <1>1, <1>5, <1>6, <1>8, <1>16 DEF SelectOf, IsScreen
    <2>9. Carries(screen, calls)
      BY <1>1 DEF TabKept
    <2>6. screen.refreshing /\ k # None
      BY <1>1, <1>16, ChildrenAre DEF TabKept, Branch
    <2>7. CASE k = screen.sel
      <3>1. calls' = rest \cup {m}
        BY <1>8, <1>9, <1>14, <1>16, <2>1, <2>7
      <3>2. BrowseSet(calls')
        BY <1>1, <1>9, <2>2, <2>4, <3>1, BrowseSwap
      <3>3. t.list = screen.list
        BY <1>5, <2>7 DEF SelectOf
      <3>4. PICK N, u, ds : N = {m} /\ u = screen' /\ ds = calls'
        OBVIOUS
      <3>10. SameLists(ds, calls \cup N)
        BY <1>1, <1>9, <3>1, <3>4 DEF SameLists
      <3>11. /\ u.late = Browse!Overtaken /\ u.more = screen.more
             /\ \A x \in N : x.what = "products" /\ x.mode # "more" /\ x.key = u.sel
        BY <1>6, <2>4, <2>5, <3>4
      <3>5. Carries(screen', calls')
        BY <2>9, <3>4, <3>10, <3>11, ReplaceCarries
      <3>6. Marked(screen', calls') /\ Branch(screen', calls')
        <4>1. \A d \in calls' : d = m \/ (d \in calls /\ d.what # "tree" /\ d.mode # "refresh")
          BY <1>9, <1>10, <1>16, <3>1
        <4>2. Branch(screen', calls')
          BY <2>4, <2>5, <2>6, <4>1 DEF Branch
        <4>3. screen.more => \E d \in calls' : d.mode = "more"
          BY <1>1, <1>9, <1>16, <3>1 DEF TabKept, Marked
        <4>4. \E d \in calls' : d.mode = "refresh"
          BY <2>4, <3>1
        <4> QED
          BY <2>5, <4>2, <4>3, <4>4 DEF Marked
      <3>7. Has(calls', "products")
        BY <2>4, <3>1 DEF Has
      <3>8. ~screen'.tangled /\ screen'.list = "ready" => AllOf(screen')
        <4>1. ~screen.tangled /\ screen.list = "ready" => AllOf(screen)
          BY <1>1, <2>6, <2>7 DEF TabKept
        <4>2. /\ screen'.rows = screen.rows /\ screen'.page = screen.page /\ screen'.sel = screen.sel
              /\ ~screen'.tangled /\ screen'.list = "ready" => ~screen.tangled /\ screen.list = "ready"
          BY <2>5, <2>7, <3>3
        <4> QED
          BY <4>1, <4>2 DEF AllOf
      <3>9. TabKept(screen', calls')
        BY <2>5, <2>6, <3>5, <3>6, <3>7, <3>8 DEF TabKept
      <3> QED
        BY <2>5, <3>2, <3>9, KeptAgain DEF ScreenKept
    <2>8. CASE k # screen.sel
      <3>1. PICK one : one = rest \cup {n}
        OBVIOUS
      <3>2. calls' = one \cup {m}
        BY <1>8, <1>9, <1>14, <1>16, <2>1, <2>8, <3>1
      <3>3. BrowseSet(one) /\ Numbered(one) /\ Cardinality(one) = Cardinality(calls)
        <4>1. Numbered(rest) /\ Cardinality(rest) = Cardinality(calls) - 1 /\ Cardinality(calls) \in Nat
          BY <1>1, <1>9, NumberedLess DEF BrowseSet
        <4>2. New(rest, n.id)
          BY <1>9, <1>11, <1>13 DEF New
        <4>3. Numbered(one) /\ Cardinality(one) = Cardinality(calls)
          BY <3>1, <4>1, <4>2, NumberedMore
        <4>4. BrowseSet(one)
          BY <1>1, <1>9, <1>11, <1>13, <3>1, BrowseSwap
        <4> QED
          BY <4>3, <4>4
      <3>4. New(one, m.id)
        BY <1>9, <1>13, <2>2, <2>4, <3>1 DEF New
      <3>5. Numbered(calls') /\ Cardinality(calls') = Cardinality(calls) + 1
        BY <3>2, <3>3, <3>4, NumberedMore
      <3>6. \A d \in calls' : BrowseCall(d)
        BY <2>4, <3>2, <3>3 DEF BrowseSet
      <3>7. \A d \in calls' : d.what # "tree"
        BY <1>10, <1>13, <2>4, <3>1, <3>2
      <3>8. Cardinality(calls) <= MaxCalls
        BY <1>1 DEF BrowseSet
      <3>9. BrowseSet(calls')
        BY <1>1, <3>5, <3>6, <3>7, <3>8, BrowseSize, BuyerAppAssumption DEF BrowseSet
      <3>10. Carries(screen', calls') /\ screen'.list = "loading"
        <4>1. PICK N, u, ds : N = {n, m} /\ u = screen' /\ ds = calls'
          OBVIOUS
        <4>2. SameLists(ds, calls \cup N)
          BY <1>1, <1>9, <3>1, <3>2, <4>1 DEF SameLists
        <4>3. /\ u.late = Browse!Overtaken /\ u.more = screen.more
              /\ \A x \in N : x.what = "products" /\ x.mode # "more" /\ x.key = u.sel
          BY <1>6, <1>13, <2>4, <2>5, <4>1
        <4>4. screen'.list = "loading"
          BY <1>5, <2>5, <2>8 DEF SelectOf
        <4> QED
          BY <2>9, <4>1, <4>2, <4>3, <4>4, ReplaceCarries
      <3>11. \A d \in calls' : d = m \/ d = n \/ (d \in calls /\ d.what # "tree" /\ d.mode # "refresh")
        BY <1>9, <1>10, <1>16, <3>1, <3>2
      <3>12. Branch(screen', calls')
        BY <1>13, <2>4, <2>5, <2>6, <3>11 DEF Branch
      <3>13. Marked(screen', calls')
        <4>1. screen.more => \E d \in calls' : d.mode = "more"
          BY <1>1, <1>9, <1>16, <3>1, <3>2 DEF TabKept, Marked
        <4>2. \E d \in calls' : d.mode = "refresh"
          BY <2>4, <3>2
        <4> QED
          BY <2>5, <4>1, <4>2 DEF Marked
      <3>14. Has(calls', "products")
        BY <2>4, <3>2 DEF Has
      <3>15. TabKept(screen', calls')
        BY <2>5, <2>6, <3>10, <3>12, <3>13, <3>14 DEF TabKept
      <3> QED
        BY <2>5, <3>9, <3>15, KeptAgain DEF ScreenKept
    <2> QED
      BY <2>7, <2>8
  <1> QED
    BY <1>10, <1>15, <1>16

\* An answer at the tab: its read is one the screen no longer waits for.
LEMMA BranchLeft ==
    ASSUME Branch(screen, calls), NEW c \in calls, NEW lst, NEW phase, Left(c, phase, lst),
           phase = screen.phase \/ c.what = "tree"
    PROVE  Branch(screen', calls \ {c})
  <1>1. PICK rest : rest = calls \ {c}
    OBVIOUS
  <1>2. screen'.phase = phase /\ (screen.refreshing /\ c.mode # "refresh" => screen'.refreshing)
    BY DEF Left
  <1>3. \A d \in rest : d \in calls /\ d # c
    BY <1>1
  <1>4. \A d \in rest : d.mode = "refresh" => screen'.refreshing
    BY <1>2, <1>3 DEF Branch
  <1>5. \A d \in rest : d.what = "tree" => screen'.phase = IF d.mode = "open" THEN "loading" ELSE "ready"
    BY <1>2, <1>3 DEF Branch
  <1>6. Branch(screen', rest)
    BY <1>3, <1>4, <1>5 DEF Branch
  <1> QED
    BY <1>1, <1>6

\* Only reads of products are overtaken.
LEMMA NotLate ==
    ASSUME BrowseSet(calls), Carries(screen, calls), NEW c \in calls, c.what # "products"
    PROVE  c.id \notin screen.late
  BY DEF BrowseSet, Numbered, Carries, LateAre

LEMMA CarriesKept ==
    ASSUME IsScreen(screen), BrowseSet(calls), Carries(screen, calls), NEW c \in calls, c.what # "products",
           c.mode # "more", NEW phase, NEW lst, Left(c, phase, lst), screen'.rows = screen.rows,
           screen'.page = screen.page, screen'.tangled = screen.tangled
    PROVE  Carries(screen', calls \ {c})
  <1>1. c.id \notin screen.late
    BY NotLate
  <1>2. screen'.late = screen.late /\ screen'.more = screen.more
    BY <1>1 DEF Left, IsScreen
  <1>3. PICK t, ds : t = screen' /\ ds = calls \ {c}
    OBVIOUS
  <1>4. Alike(t, screen) /\ SameLists(ds, calls)
    BY <1>2, <1>3 DEF Alike, SameLists, Left
  <1> QED
    BY <1>3, <1>4, CarriesSame

LEMMA TabAnswersKept ==
    ASSUME BrowseKept, NEW c \in calls,
           Browse!TabTreeFailed(c) \/ Browse!TabProducts(c) \/ Browse!TabProductsFailed(c) \/ Browse!TabAdded(c)
    PROVE  BrowseKept'
  <1>1. /\ IsScreen(screen) /\ BrowseSet(calls) /\ BrowseCall(c)
        /\ screen.at = "tab" /\ TabKept(screen, calls) /\ calls' = calls \ {c}
        /\ Branch(screen, calls) /\ Marked(screen, calls) /\ Carries(screen, calls) /\ Pages \in Nat \ {0}
    BY BuyerAppAssumption
    DEF BrowseKept, BrowseSet, ScreenKept, TabKept, Browse!TabTreeFailed, Browse!TabProducts, Browse!TabProductsFailed,
        Browse!TabAdded, Browse!Answer
  <1>2. BrowseSet(calls')
    BY <1>1, BrowseFewer
  <1>3. ASSUME NEW phase, NEW lst, Left(c, phase, lst),
               IF c.what = "tree" THEN phase = "error" ELSE phase = screen.phase,
               Carries(screen', calls'), lst = "loading" => Has(calls', "products"),
               ~screen'.tangled /\ screen'.sel # None /\ lst = "ready" => AllOf(screen')
        PROVE  BrowseKept'
    <2>1. PICK rest : rest = calls \ {c}
      OBVIOUS
    <2>2. Marked(screen', rest) /\ Branch(screen', rest) /\ calls' = rest
      BY <1>1, <1>3, <2>1, LeftMarked, BranchLeft
    <2>3. phase = "loading" => Has(calls', "tree")
      <3>1. SUFFICES ASSUME phase = "loading" PROVE Has(calls', "tree")
        OBVIOUS
      <3>2. screen.phase = "loading"
        BY <1>3, <3>1
      <3>3. PICK d \in calls : d.what = "tree"
        BY <1>1, <3>2 DEF TabKept, Has
      <3>4. c.what # "tree"
        BY <1>1, <1>3, <3>2, <3>1, <3>3 DEF Left, Branch, TabKept, Has, Browse!TabTreeFailed
      <3> QED
        BY <1>1, <3>3, <3>4 DEF Has
    <2>4. phase = "ready" => screen'.sel # None
      BY <1>1, <1>3 DEF TabKept, Left
    <2>5. TabKept(screen', calls')
      BY <1>3, <2>2, <2>3, <2>4 DEF TabKept, Left
    <2> QED
      BY <1>1, <1>2, <1>3, <2>5, KeptAgain DEF ScreenKept, Left
  <1>4. CASE Browse!TabTreeFailed(c)
    <2>1. PICK u : u = [screen EXCEPT !.phase = "error"]
      OBVIOUS
    <2>2. /\ IsScreen(u) /\ u.at = screen.at /\ u.id = screen.id /\ u.sel = screen.sel /\ u.list = screen.list
          /\ u.more = screen.more /\ u.refreshing = screen.refreshing /\ u.rows = screen.rows
          /\ u.page = screen.page /\ u.tangled = screen.tangled /\ u.phase = "error" /\ u.late = screen.late
      BY <1>1, <2>1 DEF IsScreen
    <2>3. screen' = Browse!Done(u, c) /\ c.what = "tree"
      BY <1>4, <2>1 DEF Browse!TabTreeFailed, Browse!Answer
    <2>10. c.id \notin screen.late /\ c.mode # "more"
      BY <1>1, <2>3, NotLate DEF BrowseCall
    <2>4. /\ Left(c, u.phase, u.list) /\ screen'.rows = u.rows /\ screen'.page = u.page
          /\ screen'.tangled = u.tangled
      <3>1. DoneOf(screen', u, c)
        BY <2>2, <2>3, DoneIs
      <3>2. screen'.tangled = u.tangled
        BY <2>2, <2>10, <3>1 DEF DoneOf, IsScreen
      <3> QED
        BY <2>2, <2>3, <3>2, DoneLeft
    <2>5. PICK phase, lst : phase = "error" /\ lst = screen.list
      OBVIOUS
    <2>6. /\ Left(c, phase, lst) /\ screen'.rows = screen.rows /\ screen'.page = screen.page
          /\ screen'.tangled = screen.tangled /\ screen'.sel = screen.sel
      BY <2>2, <2>4, <2>5 DEF Left
    <2>7. Carries(screen', calls')
      BY <1>1, <2>3, <2>6, <2>10, CarriesKept
    <2>8. lst = "loading" => Has(calls', "products")
      BY <1>1, <2>3, <2>5 DEF TabKept, Has
    <2>9. ~screen'.tangled /\ screen'.sel # None /\ lst = "ready" => AllOf(screen')
      BY <1>1, <2>5, <2>6 DEF TabKept, AllOf
    <2> QED
      BY <1>3, <2>3, <2>5, <2>6, <2>7, <2>8, <2>9
  <1>5. CASE Browse!TabProducts(c)
    <2>1. PICK t : t = Browse!Put(c)
      OBVIOUS
    <2>2. c.what = "products"
      BY <1>5 DEF Browse!TabProducts
    <2>3. PICK r \in Seq(Entries), b \in BOOLEAN : PutOf(t, c, r, b)
      BY <1>1, <2>1, <2>2, PutIs
    <2>4. PICK u : u = [t EXCEPT !.list = "ready"]
      OBVIOUS
    <2>5. /\ IsScreen(u) /\ u.at = screen.at /\ u.id = screen.id /\ u.sel = screen.sel
          /\ u.more = screen.more /\ u.refreshing = screen.refreshing
          /\ u.phase = screen.phase /\ u.list = "ready" /\ u.rows = r /\ u.page = c.page /\ u.tangled = b
          /\ u.late = screen.late
      BY <1>1, <2>3, <2>4 DEF PutOf, IsScreen
    <2>6. screen' = Browse!Done(u, c)
      BY <1>5, <2>1, <2>4 DEF Browse!TabProducts, Browse!Answer
    <2>7. /\ Left(c, screen.phase, "ready") /\ screen'.rows = r /\ screen'.page = c.page
          /\ screen'.tangled <=> b \/ c.id \in screen.late
      BY <2>5, <2>6, DoneLeft
    <2>8. Came(c)
      BY <2>3, <2>7 DEF PutOf, Came
    <2>9. ~screen'.tangled => AllOf(screen')
      BY <1>1, <2>2, <2>7, <2>8, CameIs
    <2>10. Carries(screen', calls')
      BY <1>1, <2>2, <2>7, CarriesLeft
    <2>11. PICK phase, lst : phase = screen.phase /\ lst = "ready"
      OBVIOUS
    <2>12. Left(c, phase, lst)
      BY <2>7, <2>11
    <2> QED
      BY <1>3, <2>2, <2>9, <2>10, <2>11, <2>12
  <1>6. CASE Browse!TabProductsFailed(c)
    <2>1. c.what = "products"
      BY <1>6 DEF Browse!TabProductsFailed
    <2>2. PICK r \in Seq(Entries) : r = <<>>
      <3>1. \A S : <<>> \in Seq(S)
        OBVIOUS
      <3> QED
        BY <3>1, Zenon
    <2>3. PICK u : u = IF c.mode = "more" THEN [screen EXCEPT !.list = "ready"]
                       ELSE [screen EXCEPT !.list = "error", !.rows = <<>>, !.page = 1]
      OBVIOUS
    <2>4. screen' = Browse!Done(u, c)
      BY <1>6, <2>3 DEF Browse!TabProductsFailed, Browse!Answer
    <2>5. /\ IsScreen(u) /\ u.at = screen.at /\ u.id = screen.id /\ u.sel = screen.sel
          /\ u.more = screen.more /\ u.refreshing = screen.refreshing
          /\ u.phase = screen.phase /\ u.tangled = screen.tangled /\ u.late = screen.late
          /\ c.mode = "more" => u.list = "ready" /\ u.rows = screen.rows /\ u.page = screen.page
          /\ c.mode # "more" => u.list = "error"
      <3>1. CASE c.mode = "more"
        <4>1. u = [screen EXCEPT !.list = "ready"]
          BY <2>3, <3>1
        <4> QED
          BY <1>1, <3>1, <4>1 DEF IsScreen
      <3>2. CASE c.mode # "more"
        <4>1. u = [screen EXCEPT !.list = "error", !.rows = r, !.page = 1]
          BY <2>2, <2>3, <3>2
        <4> QED
          BY <1>1, <3>2, <4>1, FirstPage DEF IsScreen
      <3> QED
        BY <3>1, <3>2
    <2>6. PICK phase, lst : phase = screen.phase /\ lst = u.list
      OBVIOUS
    <2>7. /\ Left(c, u.phase, u.list) /\ screen'.rows = u.rows /\ screen'.page = u.page
          /\ screen'.tangled <=> u.tangled \/ c.id \in screen.late
      BY <2>4, <2>5, DoneLeft
    <2>8. Left(c, phase, lst)
      BY <2>5, <2>6, <2>7
    <2>10. Carries(screen', calls')
      BY <1>1, <2>1, <2>8, CarriesLeft
    <2>11. lst = "loading" => FALSE
      BY <2>5, <2>6
    <2>12. ASSUME ~screen'.tangled, lst = "ready" PROVE AllOf(screen')
      <3>1. c.mode = "more" /\ ~screen.tangled /\ c.id \notin screen.late
        BY <2>5, <2>6, <2>7, <2>12
      <3>2. AllOf(screen)
        BY <1>1, <2>1, <3>1 DEF Carries, OnTime, CarriesOn
      <3> QED
        BY <2>5, <2>7, <3>1, <3>2 DEF AllOf, Left
    <2> QED
      BY <1>3, <2>1, <2>6, <2>8, <2>10, <2>11, <2>12
  <1>7. CASE Browse!TabAdded(c)
    <2>1. screen' = [screen EXCEPT !.adding = None] /\ c.what = "add" /\ c.mode = "open"
      BY <1>1, <1>7 DEF Browse!TabAdded, Browse!Answer, BrowseCall
    <2>2. PICK phase, lst : phase = screen.phase /\ lst = screen.list
      OBVIOUS
    <2>7. c.id \notin screen.late
      BY <1>1, <2>1, NotLate
    <2>3. /\ Left(c, phase, lst) /\ screen'.rows = screen.rows /\ screen'.page = screen.page
          /\ screen'.tangled = screen.tangled /\ screen'.sel = screen.sel
      BY <1>1, <2>1, <2>2, <2>7 DEF IsScreen, Left
    <2>4. Carries(screen', calls')
      BY <1>1, <2>1, <2>3, CarriesKept
    <2>5. lst = "loading" => Has(calls', "products")
      BY <1>1, <2>1, <2>2 DEF TabKept, Has
    <2>6. ~screen'.tangled /\ screen'.sel # None /\ lst = "ready" => AllOf(screen')
      BY <1>1, <2>2, <2>3 DEF TabKept, AllOf
    <2> QED
      BY <1>3, <2>1, <2>2, <2>3, <2>4, <2>5, <2>6
  <1> QED
    BY <1>4, <1>5, <1>6, <1>7

LEMMA TabTapsKept ==
    ASSUME BrowseKept, Browse!MayAct,
           \/ Browse!TabEnd
           \/ screen.at = "tab" /\ (Browse!TabRefresh \/ Browse!TabRetry)
           \/ \E k \in Browse!Children : Browse!TabAdd(k)
    PROVE  BrowseKept'
  <1>1. /\ IsScreen(screen) /\ BrowseSet(calls) /\ screen.at = "tab" /\ TabKept(screen, calls)
        /\ screen.sel \in Chosen /\ Pages \in Nat
        /\ Branch(screen, calls) /\ Marked(screen, calls) /\ Carries(screen, calls)
    BY BuyerAppAssumption DEF BrowseKept, ScreenKept, TabKept, IsScreen, Browse!TabEnd, Browse!TabAdd
  <1>2. PICK l \in SUBSET Nat, a \in SUBSET Nat : l = Browse!LateWith(Browse!NextId) /\ a = Browse!Overtaken
    BY <1>1, OvertakenAre, LateWithAre
  <1>4. CASE Browse!TabEnd
    <2>1. /\ screen' = [screen EXCEPT !.more = TRUE, !.late = l] /\ screen.page < Pages /\ ~screen.more
          /\ calls' = calls \cup Browse!Ask("products", "more", screen.sel, screen.page + 1)
          /\ screen.list = "ready" /\ screen.phase = "ready"
      BY <1>1, <1>2, <1>4 DEF Browse!TabEnd, Browse!ShowAndAsk, Browse!TabOffers, IsScreen
    <2>2. PICK n \in 1 .. Pages : n = screen.page + 1
      BY <1>1, <2>1 DEF IsScreen
    <2>3. n \in 1 .. Pages + 1
      BY <1>1
    <2>4. BrowseSet(calls') /\ Sent("products", "more", screen.sel, n)
      BY <1>1, <2>1, <2>2, <2>3, BrowseSends
    <2>5. /\ IsScreen(screen') /\ screen'.at = "tab" /\ screen'.list = "ready" /\ screen'.more = TRUE
          /\ screen'.refreshing = screen.refreshing /\ screen'.phase = "ready"
          /\ screen'.tangled = screen.tangled /\ screen'.late = l
          /\ screen'.sel = screen.sel /\ screen'.rows = screen.rows /\ screen'.page = screen.page
      BY <1>1, <2>1 DEF IsScreen
    <2>6. screen.sel # None
      BY <1>1, <2>1 DEF TabKept
    <2>7. ~screen'.tangled => AllOf(screen')
      <3>1. ~screen.tangled => AllOf(screen)
        BY <1>1, <2>1, <2>6 DEF TabKept
      <3> QED
        BY <2>5, <3>1 DEF AllOf
    <2>8. Sent("products", "more", screen'.sel, n)
      BY <2>4, <2>5
    <2>9. Carries(screen', calls')
      <3>1. ~screen'.tangled => n = screen'.page + 1 /\ n <= Pages /\ AllOf(screen')
        BY <1>1, <2>2, <2>5, <2>7
      <3> QED
        BY <1>1, <1>2, <2>1, <2>5, <2>8, <3>1, SentMore
    <2>10. Marked(screen', calls') /\ Branch(screen', calls')
      <3>1. PICK m : calls' = calls \cup {m} /\ m.what = "products" /\ m.mode = "more"
        BY <2>4 DEF Sent
      <3>2. Marked(screen', calls')
        BY <1>1, <2>5, <3>1 DEF Marked
      <3>3. \A d \in calls' : d \in calls \/ d = m
        BY <3>1
      <3>4. Branch(screen', calls')
        BY <1>1, <2>1, <2>5, <3>1, <3>3 DEF Branch
      <3> QED
        BY <3>2, <3>4
    <2>11. TabKept(screen', calls')
      BY <2>5, <2>6, <2>7, <2>9, <2>10 DEF TabKept
    <2> QED
      BY <2>4, <2>5, <2>11, KeptAgain DEF ScreenKept
  <1>5. CASE Browse!TabRefresh
    <2>1. screen.phase = "ready" /\ ~screen.refreshing
      BY <1>1, <1>5 DEF Browse!TabRefresh, Browse!TabOffers, IsScreen
    <2>2. /\ screen' = [screen EXCEPT !.phase = @, !.refreshing = @ \/ TRUE]
          /\ calls' = calls \cup Browse!Ask("tree", "refresh", screen.sel, 1)
      BY <1>5 DEF Browse!TabRefresh, Browse!TabLoadCategories, Browse!ShowAndAsk
    <2>3. BrowseSet(calls') /\ Sent("tree", "refresh", screen.sel, 1)
      BY <2>2, BrowseSends
    <2>4. /\ IsScreen(screen') /\ screen'.at = "tab" /\ screen'.list = screen.list /\ screen'.more = screen.more
          /\ screen'.refreshing /\ screen'.phase = "ready" /\ screen'.tangled = screen.tangled
          /\ screen'.late = screen.late /\ screen'.sel = screen.sel /\ screen'.rows = screen.rows /\ screen'.page = screen.page
      BY <1>1, <2>1, <2>2 DEF IsScreen
    <2>5. PICK m : calls' = calls \cup {m} /\ m.what = "tree" /\ m.mode = "refresh"
      BY <2>3 DEF Sent
    <2>6. \A d \in calls : d.mode # "refresh" /\ d.what # "tree"
      <3>1. \A d \in calls : d.mode # "refresh"
        BY <1>1, <2>1 DEF Branch
      <3>2. \A d \in calls : d.what = "tree" => d.mode = "open" \/ d.mode = "refresh"
        BY <1>1 DEF BrowseSet, BrowseCall
      <3> QED
        BY <1>1, <2>1, <3>1, <3>2 DEF Branch
    <2>7. \A d \in calls' : d = m \/ d \in calls
      BY <2>5
    <2>8. Branch(screen', calls')
      BY <2>4, <2>5, <2>6, <2>7 DEF Branch
    <2>9. Carries(screen', calls')
      <3>1. PICK t, ds : t = screen' /\ ds = calls'
        OBVIOUS
      <3>2. Alike(t, screen) /\ SameLists(ds, calls)
        BY <2>4, <2>5, <3>1 DEF Alike, SameLists
      <3> QED
        BY <1>1, <3>1, <3>2, CarriesSame
    <2>10. Marked(screen', calls')
      BY <1>1, <2>4, <2>5 DEF Marked
    <2>11. TabKept(screen', calls')
      BY <1>1, <2>1, <2>4, <2>5, <2>8, <2>9, <2>10 DEF TabKept, AllOf, Has
    <2> QED
      BY <2>3, <2>4, <2>11, KeptAgain DEF ScreenKept
  <1>6. CASE "reload" \in Browse!TabOffers /\ Browse!TabLoadCategories(TRUE)
    <2>1. screen.phase = "error"
      BY <1>1, <1>6 DEF Browse!TabOffers, IsScreen
    <2>2. PICK i \in Nat : i = Browse!NextId
      BY <1>1, BrowseFree DEF New
    <2>3. PICK n : n = Browse!Call(i, "tree", "open", None, 1)
      OBVIOUS
    <2>4. BrowseCall(n) /\ n.id = i /\ n.what = "tree" /\ n.mode = "open"
      BY <1>1, <2>2, <2>3, BrowseCallIs
    <2>5. PICK m : m = [n EXCEPT !.from = None]
      OBVIOUS
    <2>6. BrowseCall(m) /\ m.id = i /\ m.what = "tree" /\ m.mode = "open"
      BY <2>4, <2>5 DEF BrowseCall
    <2>7. /\ screen' = [screen EXCEPT !.phase = "loading", !.refreshing = @ \/ FALSE]
          /\ calls' = calls \cup {m}
      BY <1>6, <2>2, <2>3, <2>5 DEF Browse!TabLoadCategories, Browse!ShowAndAsk
    <2>8. BrowseSet(calls')
      BY <1>1, <2>2, <2>6, <2>7, BrowseMore
    <2>9. /\ IsScreen(screen') /\ screen'.at = "tab" /\ screen'.list = screen.list /\ screen'.more = screen.more
          /\ screen'.refreshing = screen.refreshing /\ screen'.phase = "loading" /\ screen'.tangled = screen.tangled
          /\ screen'.late = screen.late /\ screen'.sel = screen.sel /\ screen'.rows = screen.rows /\ screen'.page = screen.page
      BY <1>1, <2>7 DEF IsScreen
    <2>10. \A d \in calls : d.what # "tree"
      BY <1>1, <2>1 DEF Branch
    <2>11. \A d \in calls' : d = m \/ d \in calls
      BY <2>7
    <2>12. Branch(screen', calls')
      BY <1>1, <2>6, <2>9, <2>10, <2>11 DEF Branch
    <2>13. Carries(screen', calls')
      <3>1. PICK t, ds : t = screen' /\ ds = calls'
        OBVIOUS
      <3>2. Alike(t, screen) /\ SameLists(ds, calls)
        BY <2>6, <2>7, <2>9, <3>1 DEF Alike, SameLists
      <3> QED
        BY <1>1, <3>1, <3>2, CarriesSame
    <2>14. Marked(screen', calls')
      BY <1>1, <2>7, <2>9 DEF Marked
    <2>15. TabKept(screen', calls')
      BY <1>1, <2>6, <2>7, <2>9, <2>12, <2>13, <2>14 DEF TabKept, AllOf, Has
    <2> QED
      BY <2>8, <2>9, <2>15, KeptAgain DEF ScreenKept
  <1>7. CASE Browse!TabLoadProducts
    <2>1. /\ screen' = [screen EXCEPT !.list = "loading", !.late = a]
          /\ calls' = calls \cup Browse!Ask("products", "open", screen.sel, 1)
      BY <1>2, <1>7 DEF Browse!TabLoadProducts, Browse!ShowAndAsk
    <2>2. BrowseSet(calls') /\ Sent("products", "open", screen.sel, 1)
      BY <1>1, <2>1, BrowseSends, FirstPage
    <2>3. /\ IsScreen(screen') /\ screen'.at = "tab" /\ screen'.list = "loading" /\ screen'.more = screen.more
          /\ screen'.refreshing = screen.refreshing /\ screen'.phase = screen.phase /\ screen'.late = a
          /\ screen'.sel = screen.sel
      BY <1>1, <2>1 DEF IsScreen
    <2>4. Sent("products", "open", screen'.sel, 1)
      BY <2>2, <2>3
    <2>5. Carries(screen', calls')
      BY <1>1, <1>2, <2>3, <2>4, SentReplaces
    <2>6. PICK m : calls' = calls \cup {m} /\ m.what = "products" /\ m.mode = "open"
      BY <2>2 DEF Sent
    <2>7. \A d \in calls' : d = m \/ d \in calls
      BY <2>6
    <2>8. Branch(screen', calls') /\ Marked(screen', calls')
      BY <1>1, <2>3, <2>6, <2>7 DEF Branch, Marked
    <2>9. TabKept(screen', calls')
      BY <1>1, <2>3, <2>5, <2>6, <2>8 DEF TabKept, Has
    <2> QED
      BY <2>2, <2>3, <2>9, KeptAgain DEF ScreenKept
  <1>8. ASSUME NEW k, Browse!TabAdd(k) PROVE BrowseKept'
    <2>1. /\ screen' = [screen EXCEPT !.adding = k]
          /\ calls' = calls \cup Browse!Ask("add", "open", k, MinBuy)
      BY <1>8 DEF Browse!TabAdd, Browse!ShowAndAsk
    <2>2. BrowseSet(calls') /\ Sent("add", "open", k, MinBuy)
      BY <2>1, BrowseSends
    <2>3. /\ IsScreen(screen') /\ screen'.at = "tab" /\ screen'.list = screen.list /\ screen'.more = screen.more
          /\ screen'.refreshing = screen.refreshing /\ screen'.phase = screen.phase
          /\ screen'.tangled = screen.tangled /\ screen'.late = screen.late
          /\ screen'.sel = screen.sel /\ screen'.rows = screen.rows /\ screen'.page = screen.page
      BY <1>1, <2>1 DEF IsScreen
    <2>4. PICK m : calls' = calls \cup {m} /\ m.what = "add" /\ m.mode = "open"
      BY <2>2 DEF Sent
    <2>5. \A d \in calls' : d = m \/ d \in calls
      BY <2>4
    <2>6. Branch(screen', calls') /\ Marked(screen', calls')
      BY <1>1, <2>3, <2>4, <2>5 DEF Branch, Marked
    <2>7. Carries(screen', calls')
      <3>1. PICK t, ds : t = screen' /\ ds = calls'
        OBVIOUS
      <3>2. Alike(t, screen) /\ SameLists(ds, calls)
        BY <2>3, <2>4, <3>1 DEF Alike, SameLists
      <3> QED
        BY <1>1, <3>1, <3>2, CarriesSame
    <2>8. TabKept(screen', calls')
      BY <1>1, <2>3, <2>4, <2>6, <2>7 DEF TabKept, Has, AllOf
    <2> QED
      BY <2>2, <2>3, <2>8, KeptAgain DEF ScreenKept
  <1> QED
    BY <1>4, <1>5, <1>6, <1>7, <1>8 DEF Browse!TabRetry

\* Another screen, which starts with at most one read.
BlankOf(s, at, id, sel) ==
    /\ IsScreen(s) /\ s.at = at /\ s.id = id /\ s.phase = "loading" /\ s.list = "ready" /\ s.sel = sel
    /\ s.rows = <<>> /\ ~s.more /\ ~s.refreshing /\ s.page = 1 /\ s.late = {}
LEMMA BlankIs ==
    ASSUME NEW at \in Browse!Screens, NEW id, NEW sel \in Chosen, NEW s, s = [Browse!Blank(at, id) EXCEPT !.sel = sel]
    PROVE  BlankOf(s, at, id, sel)
  <1>1. PICK r \in Seq(Entries) : r = <<>>
    <2>1. \A S : <<>> \in Seq(S)
      OBVIOUS
    <2> QED
      BY <2>1, Zenon
  <1>2. /\ IsScreen(s) /\ s.at = at /\ s.id = id /\ s.phase = "loading" /\ s.list = "ready" /\ s.sel = sel
        /\ s.rows = <<>> /\ ~s.more /\ ~s.refreshing /\ s.page = 1 /\ s.late = {}
    BY <1>1, FirstPage DEF Browse!Blank, IsScreen, Browse!Screens
  <1> QED
    BY <1>2 DEF BlankOf

LEMMA Opens ==
    ASSUME NEW at \in Browse!Screens, NEW id, at = "category" => id # "filler",
           at = "sub" => id \in Tops, Browse!GoTo(at, id)
    PROVE  BrowseKept'
  <1>1. PICK sel \in Chosen : sel = IF at = "category" THEN "sales_desc" ELSE None
    BY BuyerAppAssumption DEF Chosen, Browse!Selections
  <1>2. PICK s : s = [Browse!Blank(at, id) EXCEPT !.sel = sel]
    OBVIOUS
  <1>4. /\ IsScreen(s) /\ s.at = at /\ s.id = id /\ s.phase = "loading" /\ s.list = "ready" /\ s.sel = sel
        /\ s.rows = <<>> /\ ~s.more /\ ~s.refreshing /\ s.page = 1 /\ s.late = {}
    <2>1. BlankOf(s, at, id, sel)
      BY <1>2, BlankIs
    <2> QED
      BY <2>1 DEF BlankOf
  <1>5. PICK asks : asks = Browse!FirstAsk(at, sel)
    OBVIOUS
  <1>6. /\ screen' = IF asks = {} THEN [s EXCEPT !.phase = "ready"] ELSE s
        /\ calls' = {[id |-> 1, what |-> a[1], mode |-> "open", key |-> a[2], page |-> 1, from |-> None] : a \in asks}
    BY <1>1, <1>2, <1>5 DEF Browse!GoTo
  <1>7. CASE at = "search"
    <2>1. asks = {}
      BY <1>5, <1>7 DEF Browse!FirstAsk
    <2>2. screen' = [s EXCEPT !.phase = "ready"] /\ calls' = {}
      BY <1>6, <2>1
    <2>3. IsScreen(screen') /\ screen'.at = "search" /\ screen'.phase = "ready" /\ Unmarked(screen')
          /\ screen'.rows = <<>> /\ screen'.late = {}
      BY <1>4, <1>7, <2>2 DEF IsScreen, Unmarked
    <2>5. Carries(screen', calls')
      BY <2>2, <2>3 DEF Carries, LateAre, OneMore
    <2>4. BrowseSet(calls')
      BY <2>2, FS_EmptySet, BuyerAppAssumption DEF BrowseSet, Numbered
    <2> QED
      BY <2>2, <2>3, <2>4, <2>5, KeptAgain DEF ScreenKept, SearchKept, Unmarked
  <1>8. CASE at # "search"
    <2>1. PICK what \in {"products", "tree", "detail"}, key \in Chosen :
             /\ asks = {<<what, key>>}
             /\ at \in {"home", "shop"} => what = "products"
             /\ at = "category" => what = "products" /\ key = sel
             /\ at \in {"tab", "sub"} => what = "tree"
             /\ at = "detail" => what = "detail"
      <3>1. None \in Chosen
        BY FirstPage
      <3>2. CASE at \in {"home", "shop"}
        BY <1>5, <3>1, <3>2 DEF Browse!FirstAsk
      <3>3. CASE at = "category"
        BY <1>5, <3>3 DEF Browse!FirstAsk
      <3>4. CASE at \in {"tab", "sub"}
        BY <1>5, <3>1, <3>4 DEF Browse!FirstAsk
      <3>5. CASE at = "detail"
        BY <1>5, <3>1, <3>5 DEF Browse!FirstAsk
      <3> QED
        BY <1>8, <3>2, <3>3, <3>4, <3>5 DEF Browse!Screens
    <2>2. PICK n : n = [id |-> 1, what |-> what, mode |-> "open", key |-> key, page |-> 1, from |-> None]
      OBVIOUS
    <2>3. screen' = s /\ calls' = {n}
      BY <1>6, <2>1, <2>2
    <2>4. BrowseCall(n)
      BY <2>2, FirstPage DEF BrowseCall
    <2>5. BrowseSet(calls')
      <3>1. IsFiniteSet({n}) /\ Cardinality({n}) = 1
        BY FS_Singleton
      <3> QED
        BY <2>2, <2>3, <2>4, <3>1, BuyerAppAssumption DEF BrowseSet, Numbered
    <2>6. /\ IsScreen(screen') /\ screen'.at = at /\ screen'.id = id /\ screen'.phase = "loading"
          /\ screen'.list = "ready" /\ screen'.sel = sel /\ ~screen'.more /\ ~screen'.refreshing
          /\ screen'.late = {}
      BY <1>4, <2>3
    <2>7. CASE at = "home"
      BY <2>2, <2>3, <2>5, <2>6, <2>7, KeptAgain DEF ScreenKept, HomeKept, Marked
    <2>8. CASE at = "shop"
      BY <2>2, <2>3, <2>5, <2>6, <2>8, KeptAgain DEF ScreenKept, ShopKept, Marked
    <2>9. CASE at = "category"
      <3>1. Carries(screen', calls')
        BY <2>1, <2>2, <2>3, <2>6, <2>9 DEF Carries, LateAre, OneMore
      <3> QED
        BY <2>2, <2>3, <2>5, <2>6, <2>9, <3>1, KeptAgain DEF ScreenKept, CategoryKept, Marked
    <2>10. CASE at = "sub"
      BY <2>1, <2>2, <2>3, <2>5, <2>6, <2>10, KeptAgain DEF ScreenKept, SubKept, Unmarked, Has
    <2>11. CASE at = "detail"
      BY <2>1, <2>2, <2>3, <2>5, <2>6, <2>11, KeptAgain DEF ScreenKept, DetailKept, Unmarked, Has
    <2>12. CASE at = "tab"
      <3>1. n.what = "tree" /\ n.mode = "open" /\ sel = None
        BY <1>1, <2>1, <2>2, <2>12
      <3>2. Branch(screen', calls') /\ Marked(screen', calls') /\ Carries(screen', calls')
        BY <2>3, <2>6, <3>1 DEF Branch, Marked, Carries, LateAre, OneMore, OnTime
      <3> QED
        BY <2>3, <2>5, <2>6, <2>12, <3>1, <3>2, KeptAgain DEF ScreenKept, TabKept, Has
    <2> QED
      BY <1>8, <2>7, <2>8, <2>9, <2>10, <2>11, <2>12 DEF Browse!Screens
  <1> QED
    BY <1>7, <1>8

LEMMA GoKept == ASSUME BrowseKept, Browse!Go PROVE BrowseKept'
  <1>1. CASE Browse!HomeGo
    <2>1. CASE \E p \in Browse!HomeTiles : Browse!GoTo(Browse!TileTarget(p)[1], Browse!TileTarget(p)[2])
      <3>1. PICK p \in Tops \cup {"filler"} : Browse!GoTo(Browse!TileTarget(p)[1], Browse!TileTarget(p)[2])
        BY <2>1, TopsAre DEF Browse!HomeTiles, Browse!Filler
      <3>2. CASE p = "filler"
        <4>1. Browse!TileTarget(p)[1] = "tab" /\ Browse!TileTarget(p)[2] = None
          BY <3>2 DEF Browse!TileTarget, Browse!Filler
        <4>2. PICK at \in Browse!Screens : at = "tab"
          BY DEF Browse!Screens
        <4>3. Browse!GoTo(at, None)
          BY <3>1, <4>1, <4>2
        <4>4. at # "category" /\ at # "sub"
          BY <4>2
        <4> QED
          BY <4>3, <4>4, Opens
      <3>3. CASE p # "filler"
        <4>1. \/ Browse!TileTarget(p)[1] = "sub" /\ Browse!TileTarget(p)[2] = p
              \/ Browse!TileTarget(p)[1] = "category" /\ Browse!TileTarget(p)[2] = p
          BY <3>3 DEF Browse!TileTarget, Browse!Filler
        <4>2. PICK at \in Browse!Screens : at \in {"sub", "category"} /\ Browse!GoTo(at, p)
          BY <3>1, <4>1 DEF Browse!Screens
        <4> QED
          BY <3>3, <4>2, Opens
      <3> QED
        BY <3>2, <3>3
    <2>2. CASE Browse!RecommendedProductCard \/ Browse!FeaturedShopCard
      <3>1. PICK at \in Browse!Screens : at \in {"detail", "shop"} /\ Browse!GoTo(at, None)
        BY <2>2 DEF Browse!RecommendedProductCard, Browse!FeaturedShopCard, Browse!Screens
      <3> QED
        BY <3>1, Opens
    <2> QED
      BY <1>1, <2>1, <2>2 DEF Browse!HomeGo
  <1>2. CASE Browse!SubGo
    <2>1. screen.id \in Tops
      BY <1>2 DEF Browse!SubGo, BrowseKept, ScreenKept, SubKept
    <2>2. PICK k \in Browse!ToSet(Browse!Options(screen.id)) : Browse!GoTo("category", k)
      BY <1>2 DEF Browse!SubGo
    <2>3. k # "filler"
      BY <2>1, OptionsAre
    <2>4. PICK at \in Browse!Screens : at = "category"
      BY DEF Browse!Screens
    <2>5. Browse!GoTo(at, k) /\ at # "sub"
      BY <2>2, <2>4
    <2> QED
      BY <2>3, <2>5, Opens
  <1>3. CASE Browse!SearchGo \/ Browse!CardGo \/ Browse!DetailGo \/ Browse!Back
    <2>1. PICK at \in Browse!Screens : at \in {"search", "detail", "shop", "home"} /\ Browse!GoTo(at, None)
      BY <1>3 DEF Browse!SearchGo, Browse!CardGo, Browse!DetailGo, Browse!Back, Browse!Screens
    <2> QED
      BY <2>1, Opens
  <1> QED
    BY <1>1, <1>2, <1>3 DEF Browse!Go

LEMMA BrowseStartsKept == Browse!Init => BrowseKept
  <1>1. CASE /\ screen = Browse!Blank("home", None)
             /\ calls = {[id |-> 1, what |-> "products", mode |-> "open", key |-> None, page |-> 1, from |-> None]}
    <2>1. PICK r \in Seq(Entries) : r = <<>>
      <3>1. \A S : <<>> \in Seq(S)
        OBVIOUS
      <3> QED
        BY <3>1, Zenon
    <2>2. /\ IsScreen(screen) /\ screen.at = "home" /\ screen.list = "ready" /\ ~screen.more
          /\ ~screen.refreshing
      BY <1>1, <2>1, FirstPage DEF Browse!Blank, IsScreen, Browse!Screens
    <2>3. PICK c : c = [id |-> 1, what |-> "products", mode |-> "open", key |-> None, page |-> 1, from |-> None]
      OBVIOUS
    <2>4. BrowseCall(c)
      BY <2>3, FirstPage DEF BrowseCall
    <2>5. IsFiniteSet({c}) /\ Cardinality({c}) = 1
      BY FS_Singleton
    <2>6. BrowseSet(calls)
      BY <1>1, <2>3, <2>4, <2>5, BuyerAppAssumption DEF BrowseSet, Numbered
    <2> QED
      BY <1>1, <2>2, <2>6 DEF BrowseKept, ScreenKept, HomeKept, Marked
  <1>2. CASE /\ screen = [Browse!Blank("category", Browse!Filler) EXCEPT !.phase = "ready", !.sel = "sales_desc"]
             /\ calls = {}
    <2>2. PICK k \in Chosen : k = "sales_desc"
      BY BuyerAppAssumption DEF Chosen, Browse!Selections
    <2>3. PICK s, at, id : at = "category" /\ id = "filler" /\ s = [Browse!Blank(at, id) EXCEPT !.sel = k]
      OBVIOUS
    <2>4. screen = [s EXCEPT !.phase = "ready"]
      BY <1>2, <2>2, <2>3 DEF Browse!Blank, Browse!Filler
    <2>7. /\ IsScreen(s) /\ s.at = at /\ s.id = id /\ s.phase = "loading" /\ s.list = "ready" /\ s.sel = k
          /\ s.rows = <<>> /\ ~s.more /\ ~s.refreshing /\ s.page = 1 /\ s.late = {}
      <3>1. at \in Browse!Screens
        BY <2>3 DEF Browse!Screens
      <3>2. BlankOf(s, at, id, k)
        BY <2>3, <3>1, BlankIs
      <3> QED
        BY <3>2 DEF BlankOf
    <2>8. Turned(screen, s, "ready", s.late)
      BY <2>4, <2>7, PhaseIs
    <2>5. /\ IsScreen(screen) /\ screen.at = "category" /\ screen.list = "ready" /\ ~screen.more
          /\ ~screen.refreshing /\ screen.phase = "ready" /\ screen.id = "filler" /\ screen.rows = <<>>
          /\ screen.late = {}
      BY <2>3, <2>7, <2>8 DEF Turned
    <2>6. BrowseSet(calls)
      BY <1>2, FS_EmptySet, BuyerAppAssumption DEF BrowseSet, Numbered
    <2> QED
      BY <1>2, <2>5, <2>6 DEF BrowseKept, ScreenKept, CategoryKept, Marked, Carries, LateAre, OneMore, Has
  <1> QED
    BY <1>1, <1>2 DEF Browse!Init

LEMMA BrowseStepsKept == ASSUME BrowseKept, Browse!Next PROVE BrowseKept'
  <1>1. ASSUME NEW c \in calls, Browse!AnswerStep(c) PROVE BrowseKept'
    BY <1>1, HomeAnswersKept, TabTreeKept, TabAnswersKept, CategoryAnswersKept, ShopAnswersKept, SubKeeps,
       SearchAnswersKept, DetailKeeps DEF Browse!AnswerStep
  <1>2. ASSUME Browse!MayAct, Browse!Tap PROVE BrowseKept'
    BY <1>2, HomeTapsKept, TabChoiceKept, TabTapsKept, CategoryTapsKept, ShopTapsKept, SubKeeps, SearchTapsKept,
       DetailKeeps DEF Browse!Tap
  <1> QED
    BY <1>1, <1>2, GoKept DEF Browse!Next

LEMMA BrowseSame == ASSUME BrowseKept, UNCHANGED <<screen, calls>> PROVE BrowseKept'
  <1>1. IsScreen(screen') /\ BrowseSet(calls') /\ ScreenKept(screen', calls')
    BY DEF BrowseKept
  <1> QED
    BY <1>1, KeptAgain

\* At most the reads a buyer may have and the one a read of the tree adds.
LEMMA BrowseHolds == ASSUME BrowseKept PROVE Browse!TypeOK /\ Browse!SpinnerHasCall /\ Browse!ListIsWhole
  <1>1. IsScreen(screen) /\ BrowseSet(calls) /\ ScreenKept(screen, calls)
    BY DEF BrowseKept
  <1>2. Browse!TypeOK
    <2>1. \A i \in DOMAIN screen.rows : screen.rows[i].page \in 1 .. Pages
      <3>1. PICK r \in Seq(Entries) : r = screen.rows
        BY <1>1 DEF IsScreen
      <3>2. \A i \in DOMAIN r : r[i] \in Entries
        OBVIOUS
      <3>3. \A e \in Entries : e.page \in 1 .. Pages
        BY DEF Entries
      <3> QED
        BY <3>1, <3>2, <3>3
    <2>2. screen.at \in Browse!Screens /\ screen.phase \in {"loading", "ready", "error"}
          /\ screen.list \in {"loading", "ready", "error"} /\ screen.sel \in Browse!Selections \cup {None}
          /\ screen.page \in 1 .. Pages + 1
      BY <1>1 DEF IsScreen, Chosen
    <2> QED
      BY <1>1, <2>1, <2>2, SizeInBrowse DEF Browse!TypeOK, BrowseSet, Numbered
  <1>3. Browse!SpinnerHasCall
    <2>1. \A c \in calls : c.what = "tree" => c.mode # "more"
      BY <1>1 DEF BrowseSet, BrowseCall
    <2>2. \A c \in calls : c.what = "detail" => c.mode = "open"
      BY <1>1 DEF BrowseSet, BrowseCall
    <2>3. screen.phase = "loading" => \E c \in calls : c.mode # "more"
      BY <1>1, <2>1, <2>2 DEF IsScreen, Browse!Screens, ScreenKept, HomeKept, TabKept, CategoryKept, ShopKept, SubKept,
         SearchKept, DetailKept, Has
    <2>4. screen.list = "loading" => Has(calls, "products")
      BY <1>1 DEF IsScreen, Browse!Screens, ScreenKept, HomeKept, TabKept, CategoryKept, ShopKept, SubKept,
         SearchKept, DetailKept, Unmarked
    <2>5. Marked(screen, calls)
      BY <1>1 DEF IsScreen, Browse!Screens, ScreenKept, HomeKept, TabKept, CategoryKept, ShopKept, SubKept,
         SearchKept, DetailKept, Unmarked, Marked
    <2> QED
      BY <2>3, <2>4, <2>5 DEF Browse!SpinnerHasCall, Browse!Reading, Has, Marked
  <1>4. Browse!ListIsWhole
    <2>1. ASSUME Browse!Listed, ~screen.tangled PROVE AllOf(screen)
      BY <1>1, <2>1 DEF Browse!Listed, ScreenKept, TabKept, CategoryKept, SearchKept
    <2> QED
      BY <2>1 DEF Browse!ListIsWhole, AllOf
  <1> QED
    BY <1>2, <1>3, <1>4
=============================================================================
