----------------------------- MODULE BackOffice -----------------------------
(***************************************************************************)
(* What sellers and admins work on and with: the rows of products, shops   *)
(* and categories on the server, under handlers that cross; and the pages  *)
(* of the seller app and of the admin web, each with the rows it shows and *)
(* everybody else who changes them.  No request of one page is answered to *)
(* another, and the rows are free to change under every page: so a         *)
(* behaviour is followed through one of them, the errand, which is chosen  *)
(* at the start.                                                           *)
(***************************************************************************)
EXTENDS Integers, Sequences, FiniteSets

CONSTANTS None, MaxCalls,
          Products, Contents, MaxStock, MaxRows, MaxJobs,
          MaxSaves,
          Categories, MaxForms,
          Keys, Pages, Notices, Prices, Remarks,
          Rows, ConfigKeys, Values, Odd,
          Facts, MaxSyncs

\* Of the parts' constants.
ASSUME BackOfficeAssumption ==
    /\ MaxCalls \in Nat \ {0} /\ MaxJobs \in Nat /\ MaxSaves \in Nat /\ MaxForms \in Nat
    /\ MaxSyncs \in Nat
    /\ MaxStock \in Nat /\ MaxRows \in Nat /\ Pages \in Nat \ {0}
    /\ None \notin Products \cup Contents \cup Categories \cup Values \cup {Odd}
    /\ {"top", "none", "gone"} \cap Categories = {}
    /\ IsFiniteSet(Categories) /\ IsFiniteSet(Facts) /\ IsFiniteSet(Notices)
    /\ Prices # {}

VARIABLES errand, calls, crossed,
          row, forms, jobs, files, shown, goods,            \* Shelf
          shop, saves, decided, missed,                     \* ShopReview
          parent, puts, deletions, bent,                    \* CategoryTree
          status, list, front,                              \* SellerShelf
          content, form, alert,                             \* ProductForm
          unread, price, desk,                              \* SellerDesk
          order, page,                                      \* SellerOrder
          state, view,                                      \* AdminLists
          value,                                            \* AdminConfigs
          fact, notices, syncs, synced                      \* SellerNotices

shelving == <<jobs, files, shown, goods>>
reviewing == <<shop, saves, decided, missed>>
sorting == <<parent, puts, deletions, bent>>
listing == <<status, list>>
reading == <<unread, price, desk>>
telling == <<fact, notices, syncs, synced>>
vars == <<errand, calls, crossed, shelving, reviewing, sorting, listing, reading, telling, row,
          forms, front, content, form, alert, order, page, state, view, value>>

Goods == INSTANCE Shelf
Review == INSTANCE ShopReview
Tree == INSTANCE CategoryTree
Listed == INSTANCE SellerShelf
Edited == INSTANCE ProductForm
Desk == INSTANCE SellerDesk
Order == INSTANCE SellerOrder
Settings == INSTANCE SellerShop
Tables == INSTANCE AdminLists
Entries == INSTANCE AdminForms
Configs == INSTANCE AdminConfigs
Notified == INSTANCE SellerNotices

\* None is the only value that stands for nothing.
ASSUME NoneAssumption ==
    /\ None \notin Review!Shop /\ None \notin Notified!Message
    /\ None \notin {"refreshing", "bulk", "export", "sheet", "import", "cover", "gallery",
                    "confirm", "saved"} \cup Desk!Screens
    /\ \A S \in SUBSET [key : ConfigKeys, new : Values \cup {Odd}] : S # None

-----------------------------------------------------------------------------
IdleShelf == jobs = None /\ files = None /\ shown = None /\ goods = None
IdleReview == shop = None /\ saves = None /\ decided = None /\ missed = None
IdleTree == parent = None /\ puts = None /\ deletions = None /\ bent = None
IdleList == status = None /\ list = None
IdleDesk == unread = None /\ price = None /\ desk = None
IdleNotices == fact = None /\ notices = None /\ syncs = None /\ synced = None

Init ==
    \/ /\ errand = "shelf" /\ Goods!Init
       /\ IdleNotices /\ IdleReview /\ IdleTree /\ IdleList /\ IdleDesk /\ front = None
       /\ content = None
       /\ form = None /\ alert = None /\ order = None /\ page = None /\ state = None
       /\ view = None /\ value = None /\ calls = None /\ crossed = None
    \/ /\ errand = "review" /\ Review!Init
       /\ IdleNotices /\ IdleShelf /\ IdleTree /\ IdleList /\ IdleDesk /\ row = None /\ forms = None
       /\ front = None /\ content = None /\ form = None /\ alert = None /\ order = None
       /\ page = None /\ state = None /\ view = None /\ value = None /\ calls = None
       /\ crossed = None
    \/ /\ errand = "tree" /\ Tree!Init
       /\ IdleNotices /\ IdleShelf /\ IdleReview /\ IdleList /\ IdleDesk /\ row = None
       /\ front = None
       /\ content = None /\ form = None /\ alert = None /\ order = None /\ page = None
       /\ state = None /\ view = None /\ value = None /\ calls = None /\ crossed = None
    \/ /\ errand = "list" /\ Listed!Init
       /\ IdleNotices /\ IdleShelf /\ IdleReview /\ IdleTree /\ IdleDesk /\ row = None
       /\ forms = None
       /\ content = None /\ form = None /\ alert = None /\ order = None /\ page = None
       /\ state = None /\ view = None /\ value = None
    \/ /\ errand = "form" /\ Edited!Init
       /\ IdleNotices /\ IdleShelf /\ IdleReview /\ IdleTree /\ IdleList /\ IdleDesk /\ row = None
       /\ forms = None /\ order = None /\ page = None /\ state = None /\ view = None
       /\ value = None
    \/ /\ errand = "desk" /\ Desk!Init
       /\ IdleNotices /\ IdleShelf /\ IdleReview /\ IdleTree /\ IdleList /\ row = None
       /\ forms = None
       /\ front = None /\ content = None /\ form = None /\ alert = None /\ order = None
       /\ page = None /\ state = None /\ view = None /\ value = None
    \/ /\ errand = "order" /\ Order!Init
       /\ IdleNotices /\ IdleShelf /\ IdleReview /\ IdleTree /\ IdleList /\ IdleDesk /\ row = None
       /\ forms = None /\ front = None /\ content = None /\ form = None /\ alert = None
       /\ state = None /\ view = None /\ value = None
    \/ /\ errand = "settings" /\ Settings!Init
       /\ IdleNotices /\ IdleShelf /\ IdleReview /\ IdleTree /\ IdleList /\ IdleDesk /\ forms = None
       /\ front = None /\ content = None /\ form = None /\ order = None /\ state = None
       /\ view = None /\ value = None
    \/ /\ errand = "tables" /\ Tables!Init
       /\ IdleNotices /\ IdleShelf /\ IdleReview /\ IdleTree /\ IdleList /\ IdleDesk /\ row = None
       /\ forms = None /\ front = None /\ content = None /\ form = None /\ alert = None
       /\ order = None /\ page = None /\ value = None
    \/ /\ errand = "entries" /\ Entries!Init
       /\ IdleNotices /\ IdleShelf /\ IdleReview /\ IdleTree /\ IdleList /\ IdleDesk /\ row = None
       /\ forms = None /\ front = None /\ form = None /\ alert = None /\ order = None
       /\ page = None /\ state = None /\ value = None
    \/ /\ errand = "configs" /\ Configs!Init
       /\ IdleNotices /\ IdleShelf /\ IdleReview /\ IdleTree /\ IdleList /\ IdleDesk /\ row = None
       /\ forms = None /\ front = None /\ content = None /\ form = None /\ alert = None
       /\ order = None /\ page = None /\ state = None
    \/ /\ errand = "notices" /\ Notified!Init
       /\ IdleShelf /\ IdleReview /\ IdleTree /\ IdleList /\ IdleDesk /\ row = None
       /\ forms = None /\ front = None /\ content = None /\ form = None /\ alert = None
       /\ order = None /\ page = None /\ state = None /\ view = None /\ value = None /\ calls = None

Next ==
    /\ UNCHANGED errand
    /\ \/ /\ errand = "shelf" /\ Goods!Next
          /\ UNCHANGED <<telling, reviewing, sorting, listing, reading, front, content, form, alert,
                          order, page, state, view, value, calls, crossed>>
       \/ /\ errand = "review" /\ Review!Next
          /\ UNCHANGED <<telling, shelving, sorting, listing, reading, row, forms, front, content,
                         form,
                          alert, order, page, state, view, value, calls, crossed>>
       \/ /\ errand = "tree" /\ Tree!Next
          /\ UNCHANGED <<telling, shelving, reviewing, listing, reading, row, front, content, form,
                         alert,
                          order, page, state, view, value, calls, crossed>>
       \/ /\ errand = "list" /\ Listed!Next
          /\ UNCHANGED <<telling, shelving, reviewing, sorting, reading, row, forms, content, form,
                         alert,
                          order, page, state, view, value>>
       \/ /\ errand = "form" /\ Edited!Next
          /\ UNCHANGED <<telling, shelving, reviewing, sorting, listing, reading, row, forms,
                         order, page,
                          state, view, value>>
       \/ /\ errand = "desk" /\ Desk!Next
          /\ UNCHANGED <<telling, shelving, reviewing, sorting, listing, row, forms, front,
                         content, form,
                          alert, order, page, state, view, value>>
       \/ /\ errand = "order" /\ Order!Next
          /\ UNCHANGED <<telling, shelving, reviewing, sorting, listing, reading, row, forms, front,
                          content, form, alert, state, view, value>>
       \/ /\ errand = "settings" /\ Settings!Next
          /\ UNCHANGED <<telling, shelving, reviewing, sorting, listing, reading, forms, front,
                         content,
                          form, order, state, view, value>>
       \/ /\ errand = "tables" /\ Tables!Next
          /\ UNCHANGED <<telling, shelving, reviewing, sorting, listing, reading, row, forms, front,
                          content, form, alert, order, page, value>>
       \/ /\ errand = "entries" /\ Entries!Next
          /\ UNCHANGED <<telling, shelving, reviewing, sorting, listing, reading, row, forms,
                         front, form,
                          alert, order, page, state, value>>
       \/ /\ errand = "configs" /\ Configs!Next
          /\ UNCHANGED <<telling, shelving, reviewing, sorting, listing, reading, row, forms, front,
                          content, form, alert, order, page, state>>
       \/ /\ errand = "notices" /\ Notified!Next
          /\ UNCHANGED <<shelving, reviewing, sorting, listing, reading, row, forms, front, content,
                          form, alert, order, page, state, view, value, calls>>

Spec == Init /\ [][Next]_vars

-----------------------------------------------------------------------------
(* Properties: those of the parts, which say what they mean.               *)

TypeOK ==
    CASE errand = "shelf" -> Goods!TypeOK [] errand = "review" -> Review!TypeOK
      [] errand = "tree" -> Tree!TypeOK [] errand = "list" -> Listed!TypeOK
      [] errand = "form" -> Edited!TypeOK [] errand = "desk" -> Desk!TypeOK
      [] errand = "order" -> Order!TypeOK [] errand = "settings" -> Settings!TypeOK
      [] errand = "tables" -> Tables!TypeOK [] errand = "entries" -> Entries!TypeOK
      [] errand = "configs" -> Configs!TypeOK
      [] errand = "notices" -> Notified!TypeOK

\* At rest a page shows what the server has, and offers what follows from it,
\* unless reads and writes crossed (each part names the cases it leaves out).
ShowsServer ==
    CASE errand = "list" -> Listed!ShowsServer [] errand = "form" -> Edited!ShowsServer
      [] errand = "desk" -> Desk!ShowsServer [] errand = "order" -> Order!ShowsServer
      [] errand = "settings" -> Settings!ShowsServer [] errand = "tables" -> Tables!ShowsServer
      [] errand = "entries" -> Entries!ShowsServer [] errand = "configs" -> Configs!ShowsServer
      [] OTHER -> TRUE

\* A spinner, or a button that is off, stands for a request under way; the pages
\* that let the errors of a load pass are the exception (SellerDesk).
SpinnerHasCall ==
    CASE errand = "list" -> Listed!SpinnerHasCall [] errand = "form" -> Edited!SpinnerHasCall
      [] errand = "desk" -> Desk!SpinnerHasCall [] errand = "order" -> Order!SpinnerHasCall
      [] errand = "settings" -> Settings!SpinnerHasCall
      [] errand = "tables" -> Tables!SpinnerHasCall
      [] errand = "entries" -> Entries!SpinnerHasCall
      [] errand = "configs" -> Configs!SpinnerHasCall
      [] OTHER -> TRUE

\* Nothing is on sale, and no shop has passed, with a content that no audit and no
\* switch was about: but for what the quick change of prices did since, and unless
\* an edit came between the read and the write of a switch, or an audit between
\* those of a shop's save (Shelf, ShopReview).
ChangesAreReviewed == /\ errand = "shelf" => Goods!ChangesAreReviewed
                      /\ errand = "review" => Review!ChangesAreReviewed

\* The stock of a row is what there is to sell.
StockLedger == errand = "shelf" => Goods!StockLedger

\* Every category hangs on the top.
TreeIsWhole == errand = "tree" => Tree!TreeIsWhole

\* Syncs leave one message of every fact, unless two of them crossed.
NoticesTellFacts == errand = "notices" => Notified!NoticesTellFacts
=============================================================================
