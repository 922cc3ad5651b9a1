# FreshSource: models, checks and proofs

FreshSource (`freshmart`) is a market for fresh food: buyers order from the
shops of sellers, an administrator audits shops and products and handles
returns. This directory holds TLA+ models of its backend and of its three
clients, the TLC configurations that check them on small instances, and theorems
checked by TLAPS for every value of the constants.

Run from this directory, for example

    tlc -workers 2 -config OrderFlow_race.cfg MCOrderFlow.tla
    tlapm OrderFlow_proofs.tla
    tlc -workers 2 -config Cart_race.cfg MCCart.tla
    tlc -workers 2 -config BackOffice.cfg MCBackOffice.tla

## 1. The system

The backend is one Go process (gin, gorm, MySQL with InnoDB at REPEATABLE
READ). Every HTTP request runs in a goroutine of its own; the order scheduler is
one more goroutine (`cmd/server/main.go:184`). All shared state is in MySQL,
except refresh tokens, SMS records and rate-limit counters, which live in maps
behind a mutex and die with the process. Three clients (admin web, buyer app,
seller app) talk to it over JSON.

| Component | State | Operations | Interacts with | What is hard | What makes it correct |
|---|---|---|---|---|---|
| Order creation (`order_create_service.go`) | `orders`, `order_items`, `order_logs`, `products.stock`, cart rows | `CreateOrders` | shops, products, cart | lines read before the transaction; several shops in one transaction; competition for stock | no overselling; all orders of a request or none; a cart row is ordered once |
| Buyer's orders (`buyer_order_service.go`) | orders | `Cancel`, `Receive`, `SoftDelete`, `Reorder` | stock, cart | races with seller and scheduler | one winner; stock given back once |
| Seller's orders (`seller_order_service.go`) | orders | `Confirm`, `Reject`, `Deliver`, `Arrived`, `UpdateRemark` | stock | the same races | the same |
| Administrator's orders (`admin_order_service.go`) | orders | `UpdateReturnStatus`, `UpdateSettlement` | stock | returns opened, refused and opened again; orders deleted by the buyer | stock given back once, when the return is accepted |
| Order scheduler (`order_schedule_service.go`) | the ids of the running tick | `RunTick` | orders, stock, configuration | stale list, failing ids, failing queries, kill in mid-tick, batch limit | only overdue orders are moved; every overdue order is resolved |
| Stock (`product_repository.go`) | `products.stock` | `DeductStockIfEnough`, `AddStockWithTx`, `AdjustStock` | orders | INT column, DECIMAL quantities; removed products | stock never negative; what orders hold plus what is left is what was put in |
| Products and shelf (`product_service.go`) | `products.status` | create, update, audit, on/off shelf, delete, batch price | orders, cart | checks on rows read without a lock; prices that change without a check | an edit is not on sale before somebody decides on it |
| Shops (`shop_service.go`) | `shops.audit_status`, `status` | apply, update, audit, open, close | products, orders | audit decided while the data changes | an open shop was audited with the data it has |
| Cart (`cart_service.go`) | `cart_items` | add, update, delete, select, clear invalid | products, order creation | find-then-insert without a transaction | one row per product, at most 100 rows |
| Addresses (`address_service.go`) | `user_addresses` | create, update, delete, set default | order creation | limit and default checked outside the transaction | at most 20; one default |
| Sign-in (`auth_service.go`) | users, refresh tokens | register, login, refresh, logout | SMS codes | check and removal in two critical sections; restart | a session survives exactly while its token does |
| SMS codes (`sms_service.go`), rate limit (`middleware/rate_limit.go`) | counters over time | send, verify | sign-in | windows, cooldown, quota | quota and cooldown hold; a code is spent once |
| Seller notifications (`seller_notification_service.go`) | `notifications` | sync, read, mark read | orders, products, shops | concurrent syncs | one row per fact; none for a fact that no longer holds |
| CSV import (`product_csv_bulk.go`) | products | import | products | commits row by row | the result tells what was done |
| Categories (`category_service.go`) | `categories.parent_id` | create, move, delete | admin web | the parents offered are those of an older tree, or of more than a keyword leaves; creations, moves and deletions check first and write later | every category hangs on the top |
| Configuration, banners, users | one row each | save, create, delete, ban | admin web | an UPDATE that changes nothing is answered as a missing key | the page shows what is stored |
| Dashboard, preview, uploads, profile | reads only, or one row | | clients | | |
| Handlers, router, middleware | none | parse, call, map errors | services | | |
| Sessions of the clients (`api/client.ts`, `utils/http.ts`, `store/auth.ts`) | a pair of tokens in memory and in storage | login, refresh, logout | sign-in | several requests denied at once; answers after a sign-out or a new login; two tabs; a kill while tokens are stored | who signed out stays out; a session the server honours is kept |
| Screens of the buyer app, the seller app and the admin web | what is shown, drafts, forms, flags of spinners and buttons | tap, load, answer, leave | all services, by requests | answers out of order or lost; closures of an older render; lists in pages; a screen that was left | nothing spins for ever; at rest a screen shows what the server has; what is sent is legal |

`PROJECT.json` lists every component with its status, and the hazards of the
code at the lines where they bite.

## 2. Modules

| Module | Models |
|---|---|
| `Inventory` | the two UPDATE statements on `products.stock` and MySQL's rounding |
| `OrderFlow` | orders, their logs, the stock they hold, the scheduler, and the operations on products and shops that orders depend on |
| `Fulfilment` | the abstract promise of the order system: claims on goods, without tables, logs, roles or scheduler |
| `MCOrderFlow` | constants and search bounds for the runs of `OrderFlow` |
| `OrderFlow_proofs` | theorems about `OrderFlow`: orders, logs, scheduler, stock, claims, and the refinement of `Fulfilment` |
| `SumTheorems` | lemmas about sums over finite sets, and induction for sets of numbers and finite sets |
| `Cart` | the cart of one buyer, its requests interleaved between their statements, with the part of order creation that reads and deletes cart rows |
| `MCCart`, `Cart_proofs` | constants and search bounds of its runs; theorems about it |
| `Sessions`, `MCSessions` | tokens on the server and in the three clients |
| `Sessions_proofs` | theorems about `Sessions` |
| `Requests` | requests a screen has sent and not heard of; used by the modules of the screens |
| `BuyerBrowse` | buyer app: home, categories, search, shop and product |
| `BuyerCart`, `BuyerCheckout` | buyer app: the cart, and the checkout with its draft, addresses and preview |
| `BuyerAddresses` | the address book: the server's transactions, the list and the form |
| `BuyerOrders`, `BuyerAccount` | buyer app: list and page of orders; the profile with its numbers, and the messages |
| `BuyerApp`, `MCBuyerApp` | the buyer app, composed of these six |
| `BuyerApp_browse_proofs` | lemmas about requests under way and about the catalogue: its lists, and what it waits for |
| `BuyerApp_proofs` | theorems about what the buyer app shows, waits for and sends, and about the address transactions |
| `Shelf` | product rows under handlers that read and write apart: forms, saves, switches, audits, imports, orders, quick changes of prices |
| `ShopReview` | the row of a shop under saves and audits that cross |
| `CategoryTree` | the tree of categories, the forms that move them, and the handlers that check and write apart |
| `SellerNotices` | the messages of a seller and the syncs that write them |
| `SellerShelf`, `ProductForm` | seller app: list of products with switches and import; the form of a product with its uploads |
| `SellerDesk`, `SellerOrder`, `SellerShop` | seller app: lists, messages and quick prices; the page of an order; the settings of the shop |
| `AdminLists`, `AdminForms`, `AdminConfigs` | admin web: tables of users, products, orders, shops and the home page; banners and categories; configuration |
| `BackOffice`, `MCBackOffice` | what sellers and admins work on and with, composed of these twelve |
| `BackOffice_server_proofs` | theorems about what the server keeps in `BackOffice`: `Shelf`, `ShopReview`, `SellerNotices` and `CategoryTree` |
| `BackOffice_proofs` | theorems about the eight pages of `BackOffice`, and about the types of the whole |

### OrderFlow and the code

A handler is one action, because each runs in one InnoDB transaction that first
locks the `orders` row (`SELECT ... FOR UPDATE`) and decides on what it read
under that lock; rows of shops and products are locked before they are used,
too (`FindByIDForUpdate`, `FindByIDAndShopIDForUpdate`). The scheduler is not
one action: it lists ids, then runs a transaction per id, and everything else
may happen between two of them.

| Variable | Code |
|---|---|
| `order` | `orders` and `order_items`: status, buyer, shop, quantities, `cancel_by`, `deleted_at`, `settlement_status` |
| `log` | `order_logs` of each order in id order |
| `stock`, `listed`, `removed` | `products.stock`, `status = 1`, `deleted_at` |
| `open` | shops with `audit_status = 1` and `status = 1` |
| `late` | orders whose `created_at` (pending) or `delivered_at` (arrived) is behind the cutoff of the configured age |
| `tick` | what `RunTick` holds: phase, ids still to do, and the arrived orders that were behind the cutoff when the tick took `now` |
| `faults` | failed transactions and kills so far (bounded) |
| `stocked` | history variable: half units the seller put in, net of corrections |

Time is abstract: `DeadlinePasses` moves an order behind the cutoff at any
moment; a move to another status takes it out. The second list of a tick uses
the `now` of its beginning, which is why `TickStart` keeps `arrived`.

Of the operations that read a row, check it and later write without a lock
(`UpdateStatus`, `AdminAudit`, `Update`) only the write is an action
(`WriteStatus`, `UpdateProduct`): the check may be stale by then, so the model
allows the write in every state. Quantities are counted in half units, the
default step (`normalizeStepBuy`), stock in whole units.

Left out: money, addresses, order numbers (their retry is on a unique key),
`seller_remark`, texts of reasons, cart rows (see `Cart`).

### Cart and the code

The cart handlers have no transaction and take no lock. A request is a record
with a program counter and what the handler holds in memory; a buyer may have
several in flight (a second phone, a repeated tap, a retry). Rows of different
buyers never meet, so one buyer is enough.

| Variable | Code |
|---|---|
| `row` | `cart_items`: absent, live or soft-deleted, with product, SKU and quantity |
| `req` | what a request holds: the items of `Add` or `Reorder` still to do, the stock read, the row found, the ids to delete or to order, the quantities read |
| `stock`, `onSale`, `open` | what the handlers read of products and shops; `WorldMoves` changes them at any moment |
| `uses` | history variable: in how many committed orders a row went |

`Add` is four steps: product and shop, the row of the product, the count, and
the insert or the update. `Reorder` repeats them item by item and stops at the
first that fails (`Abort`, or a check that says no). `CreateOrders` is two: `Submit`
reads and validates the rows, `Commit` is the transaction. Two reads that follow
each other with no statement on `cart_items` between them (product and shop; rows
and their products in `ClearInvalid` and `Submit`) are one step. Minimum and step
of a product are constants. Left out: the `selected` flag, which the server only
lists; order lines given without a cart row, which are in `OrderFlow`.

### Sessions and the code

One behaviour is about one client (`kind`); the clients share their actions and
differ in what a denied request and the answer to a refresh do. A pair of tokens
is a number in the order of issue.

| Variable | Code |
|---|---|
| `live` | `refreshTokens` of `auth_service.go`, lost with the process |
| `stale` | access tokens whose lifetime is over |
| `disk`, `mem` | AsyncStorage or localStorage; the state of `useAuthStore` |
| `writes` | `setAuth` and `clearAuth` calls that have not finished, in order |
| `req`, `flight` | requests of the client; `refreshing` or `refreshPromise` is set |
| `calls` | refresh calls: asked, checked, exchanged, heard (the server looks for the token and removes it in two critical sections) |
| `page` | per tab: off, on the login page, inside |
| `mine`, `left`, `hurt`, `cut` | history: the pair last issued, how the user left, whether something disturbed the last session, and whether the seller app forgot a refresh under way |

Kills, restarts of the server, expiry and lost answers may happen at any moment
within `MaxMishaps` and `MaxPairs`. AsyncStorage works its calls off in order.
Left out: passwords, registration, SMS codes, the ban of a user.

### The screens and the code

The modules of the screens see a React component in one way. Its state is a
record with the fields it declares with `useState`. Everything one handler sets is
applied together, and the component renders before the next event, so a handler
sees the state of its own event; what it uses after an `await` is still the state
of that event, and is kept in the request (`arg`) where it differs from the state
when the answer comes. What is on the screen (`Offers` and the like) is what the
returned JSX lets the user touch: an early return, a `disabled` and a dialogue in
front take something away.

A request waits until the server handles it and its answer waits until it is
heard, in any order; it may fail before or after it was handled. A screen that was
left does not hear its answers, but what it asked for still happens; where the
code navigates in an answer (`router.back()` after a save), the action moves
whichever screen is in front by then.

A screen's actions are of four kinds: the user's taps (`Tap`, one operator per
handler), the ways to and from other screens (`Go`), what becomes of a request
(`Handle`: `Serve`, `Answer`, `Lose`), and everybody else who changes the rows, at
any moment and in every way the server allows (`Others`, `Advance`, `Delist`,
`Notify`). `crossed` and its like are history variables: they say that reads and
writes met in one of the ways in which this code may show something old, so that
the property says that it happens in no other way.

`BuyerApp` and `BackOffice` compose their parts by an `errand` that is chosen at
the start and never changes. A part has everything that can happen while the user
is in it, starting from every state in which the others can leave it, and no
request of one part is answered to another, so a behaviour of the whole is
followed through one part at a time. It is not a model of two parts on the screen
at once.

| Module | Variables | Code |
|---|---|---|
| `BuyerBrowse` | `screen`, `calls` | `Buyer{Home,Category,Search,ProductDetail,ShopHome}Screen.tsx` and the routes of a category |
| `BuyerCart` | `rows`; `cart`: groups, selection, flags | `cart_items` as the list answers them; `BuyerCartScreen.tsx` |
| `BuyerCheckout` | `rows`, `book`, `ordered`; `draft`; `out` | cart and addresses; `store/checkoutDraft.ts`; `BuyerCheckoutScreen.tsx` |
| `BuyerAddresses` | `live`, `dflt`, `top`; `list`, `form` | `user_addresses`; the list, create and edit screens |
| `BuyerOrders`, `BuyerAccount` | `status`, `hidden`; `list`, `page` | orders by status and `deleted_at`; the screens of orders, profile and messages |
| `Shelf` | `row`; `forms`, `jobs`, `files`; `shown`, `goods` | `products`; rows open in a form, handlers between their read and their write, imports between two rows; history: what was put on sale, and what there is to sell |
| `ShopReview` | `shop`; `saves` | `shops`; `UpdateSellerShop` between its read and its write |
| `CategoryTree` | `parent`; `forms`; `puts`, `deletions` | `categories.parent_id`; the modal of `Categories/index.tsx`; `Create` and `Update`, and `Delete`, between their checks and their write |
| `SellerNotices` | `fact`, `notices`; `syncs` | what the queries of a sync find; `notifications`; `Sync` between its statements |
| `SellerShelf`, `ProductForm` | `status`, `list`; `content`, `form`, `alert` | `app/products/index.tsx`; `ProductForm.tsx` with its two routes |
| `SellerDesk`, `SellerOrder`, `SellerShop` | `unread`, `price`, `desk`; `order`, `page`; `row`, `page`, `alert` | workbench, orders, messages, quick prices, statistics and profile; `app/orders/[id].tsx`; `app/shop-settings.tsx` |
| `AdminLists`, `AdminForms`, `AdminConfigs` | `state`, `content`, `value`; `view` | the pages of the admin web |

Abstractions worth knowing. A product, a shop or a banner is its *content*, a
model value; what a page derives from rows (totals, figures, tags, colours) is
left out. In `Shelf` the price stands beside it, because there is an operation that
changes nothing else. Several lists that work alike (workbench, orders, statistics, profile of the
seller app; the tables of the admin web) are one action with a key or the name
of the page. In `SellerNotices` every fact is read by one query, and which of
two rows about one fact the sync keeps is any (`created_at` may be equal). In
`Shelf` an order is stock that goes down or up; that an order cannot take what is
not there is the business of `OrderFlow`.

Some pages are modelled with less, or more, than they have. The buyer's list of orders asks
for page 1 of 50 (`BuyerOrdersScreen.tsx:76`) and has no next page: the model's
orders are taken to be no more than that, which is said where `Orders` is declared. The
page of banners has a filter and pages (`Banners/index.tsx:114-129`), which
`AdminForms` leaves out; tables with filters and pages are in `AdminLists`. The
search of the buyer app counts as selected the word that was searched for last,
which the screen itself does not keep. Which messages a page of a tab of the seller's messages brings
is any part of them (`Shows`), while the badge counts all that are unread. And the keyword of
the page of categories is any set of matching categories.

### What is promised

`Fulfilment` says that an order claims goods when placed, keeps them through
delivery and gives them back exactly once, on cancellation or accepted return,
and that the goods on offer change by nothing else but the seller's
corrections. `OrderFlow` implements it (`KeepsPromise`) when quantities are
whole units; with half units it does not, see the findings.

## 3. Runs

Deadlock is not checked: a small instance really stops when the bounds on
orders, log rows, faults, logins or changes are used up.

| Run | Instance | Checks | Shows |
|---|---|---|---|
| `split` | 2 shops with a product each, 2 orders, whole units, stock 1, no deadlines | `TypeOK`, `StockConserved`, `DeletedIsFrozen`, `KeepsPromise` | requests over two shops are atomic; returns, settlements, deletions and removed products keep the promise |
| `race` | 1 product, 2 orders of one or two units, batch of 1, one fault, stock corrections of 1 | `LogTellsHistory`, `CancellationAttributed`, `HeldIdsStayDue`, `SystemMovesOnlyLate`, `StockMovesWithClaims` | buyer, seller and scheduler never both win; stale ids do no harm |
| `deadline` | 2 orders, batch of 1, one fault, fairness | `LatePendingResolved`, `LateArrivedCompleted` | nothing overdue is forgotten |
| `halves` | 1 product, quantities of 0.5 and 1.5 | `DriftBounded` | rounding drifts by at most half a unit per movement |
| `halves_lost` | 1 order of 1.5 | `StockRestored` (violated) | the finding below |
| `soldout` | 1 order of the last unit | `SoldOutIsOffShelf` (violated) | the finding below |
| `cart_race` | 2 requests, 1 product with and without a SKU, a cart of 1 | `TypeOK`, `OvershootBounded`, `ReuseBounded`, `OrderedRowsGone`, `GoneStaysGone` | what two requests in flight can do to the limit and to a row, and what they cannot |
| `cart_serial` | 1 request, 2 products, a cart of 2, quantities summed under the step rule | `DuplicatesBounded` | one request at a time, a product has one row |
| `cart_duplicate` | 2 requests, 1 product | `OneRowPerKey` (violated) | the finding below |
| `sessions` | each client, 2 requests, 2 tabs, 3 pairs of tokens | `TypeOK`, `SignOutSticks`, `HonouredSessionKept`, `OneRefreshAtATime`, `InsideHoldsTokens`, `WaitersAreServed` | in which cases a session is lost or comes back, and that there are no others; no request waits for a refresh that is not under way |
| `buyer_app` | 2 requests at a time, lists of 2 pages, 3 categories, 2 cart rows, 2 addresses, 1 order | `TypeOK`, `SpinnerHasCall`, `SpinnersStop`, `ListIsWhole`, `SentQuantityLegal`, `ShowsServer`, `PreviewIsCurrent`, `OneDefault`, `OffersAccepted` | what a buyer sees, what is sent, and that one screen only hangs |
| `back_office` | 2 requests or handlers at a time, 1 product, 2 contents, 2 prices, 3 categories | `TypeOK`, `SpinnerHasCall`, `ShowsServer`, `ChangesAreReviewed`, `StockLedger`, `TreeIsWhole`, `NoticesTellFacts` | how an edit can get on sale undecided; when the stock of a row counts; how a category is lost; what the pages of sellers and admins show |

`sessions` has 1 050 575 distinct states, `buyer_app` 736 734 and `back_office`
2 466 443.

Bounds. Two orders are the fewest that compete for stock, for a batch of one
and for the scheduler's list; log rows are bounded by `MaxLog` because a return
can be opened again and again (7 rows let it be opened once and decided; 5 rows
end an order at its completion). The state constraints of `MCOrderFlow` allow at
most one closed shop, unlisted or removed product at a time: the operations on
different products are independent, and one is enough to make an order fail or
a gift of stock miss its row. `deadline` has no state constraint, since one
could cut off the behaviours that starve. In the cart a limit of one row is
reached at once and exceeded by the second request; three rows let the bound of
two be passed by a wrong model. The bounds of `Cart` hold for any number of
requests by proof.

The screens take two requests in flight (`MaxCalls`): an answer that is
overtaken, a write that meets a read, and a second tap before the first was
answered need no third. What one handler asks for at once may exceed the bound,
which guards the user's taps only. Two pages are a list and its next page; two
contents are an old and a new one. The contents, the keys of the desk and the keys
of the configuration are one set of two model values that no part tells apart, so
that their permutations are a symmetry (`BackOffice` checks no liveness), and so are
those of the two prices. Three categories are one that is moved, one that hangs
below it and one that hangs below that, which a keyword may hide; two syncs make a
duplicate, two addresses a default that is handed on. Two handlers at work
(`MaxJobs`, `MaxForms`) are a decision and the edit or the price that overtakes it,
a deletion and the creation it crosses, a form and the move that makes it old; the theorems of section 4 need no bound. `Counts` leaves out
one of the numbers of the profile, which the code asks for and treats like the
others. `Sessions` needs three pairs: a login, its refresh and another login.

Fairness of the buyer app. Every request ends, with an answer or with the
timeout of `api/client.ts`. `Fairness` says this and nothing more: a request
is not open for ever. It is written out with `[]<>` because the parts are
instances. Nothing is assumed of the buyer.

Fairness of the scheduler. `FairSpec` adds weak fairness of the scheduler's own
steps only: `runOrderScheduleLoop` calls `RunTick` at once and every minute for as long as
the process lives, and a killed process is restarted. Nothing is assumed of
buyers, sellers and administrators, and failures are finite (`MaxFaults`): with
a batch limit and an id that fails for ever the code would not get past it.

### Findings

- `halves_lost`: `docs/mvp-test-runbook.md:248` expects the stock before the
  order again after a rejection ("库存恢复为 `stock_before`"). With the default
  step of half a unit, `products.stock` being INT, an order of 1.5 units takes
  3 to 2 and its cancellation takes 2 to 4.
- `soldout`: `docs/requirement.md:528` says a product is taken off the shelf
  when its stock is 0 ("库存为0时自动下架，补货后需手动上架"). `AdjustStock` does
  so; an order that takes the last unit does not.
- `cart_duplicate`: `migration/001_schema.sql:150` gives a buyer one row for a
  product and SKU (`uk_user_product_sku`) and `docs/requirement.md:538` says that
  adding a product again adds up the quantities ("已存在则累加数量"). `sku_id` is
  NULL for all the apps send, a unique key does not compare NULLs, and `Add`
  finds and inserts without a transaction: two requests leave two rows.

Seen in the same model and not run as findings of their own: the limit of 100
rows (`docs/requirement.md:550`) can be exceeded by the requests in flight
(`OvershootBounded` says how far); two orders can be made from one cart row,
because the soft delete of `CreateOrders` does not look at the rows it affected
(`ReuseBounded`); a removed row with a SKU keeps its key, so that the product
cannot be added again (`KeyTaken`).

Seen while modelling the rest. The history variables named here make the
property hold; each is set only in the case described.

- Review (`late`, `missed`). A decision on a product or a shop is written
  whatever was saved since its read (`product_service.go:312`, `:654`,
  `shop_service.go:201`). And without anything crossing: a rejected product is
  off the shelf, from where its seller may put it on sale without an edit
  (`product_service.go:654`, against `docs/requirement.md:526`); and
  `BatchUpdatePrice` gives a product on sale a new price at once, while the same
  change in the form sends it to an audit (`product_service.go:448-485`, `:607`).
  `ChangesAreReviewed` therefore speaks of the price at which somebody put
  the product on sale or of a later quick change's.
- Stock (`goods`). A form writes the stock it was opened with
  (`product_service.go:621`), over the orders placed since.
- Categories (`bent`). The server checks only that the parent is there and is not
  the category itself (`category_service.go:103`). The form keeps a category from
  being put below itself, but it blocks what hung there when it was opened, and of
  that only what the page's keyword left (`Categories/index.tsx:72-87`, `:138`,
  `:162`), while it offers every category as a parent. With a keyword one admin alone
  can so make a cycle, which no page shows any more. And nothing is locked between the
  check of a parent and the write (`category_service.go:68`, `:84`, `:97-115`): a
  deletion that comes in between leaves the new or the moved category without a parent.
- Messages (`crossed`). Two syncs at once leave a message twice. Later syncs know
  of one of the two: once the fact is over they go one sync after the other.
- Sessions (`hurt`, `left`). A refresh under way at a sign-out signs the user in
  again; answered after a new login it replaces the new tokens. Two tabs of the
  admin web spend one refresh token, and a refused login in one wipes the tokens
  of the other. The seller app and the admin web drop a session that is still
  honoured when a refresh fails on the network. In the seller app a refused
  refresh clears the store, and then everybody who waited for it clears it once more
  (`api/client.ts:51`, `:76`): a login in between is wiped, and a refresh
  begun in between is forgotten, so that a second one may start (`cut`; that takes
  a fourth pair of tokens, one more than the run has). After a refused refresh the buyer
  app shows its tabs without tokens. No client tells the server of a logout,
  which `docs/requirement.md:463` has ("使Token失效").
- Buyer app. `router/router.go` has no `/buyer/notifications` routes, which
  `docs/api-design.md:183` lists and `src/api/notification.ts` calls: the messages
  always fail and their number is always 0. An answer that comes after
  the one that overtook it is taken all the same: a list then shows another selection,
  or pages of two (`late`, `tangled`). The order is placed from the draft of now,
  whatever preview is shown (`overlapped`). The page on which an address is edited does
  not catch a failed read and says that it is loading for ever
  (`BuyerAddressEditScreen.tsx:20-28`, `:74`; `unread`): the one exception that
  `SpinnerHasCall` and `SpinnersStop` of `BuyerApp` name. Two address transactions
  can leave a buyer without a default (`slip`), and requests in flight together
  can exceed the limit of addresses.
- Configuration. Saving a value that does not change affects no row, and
  `admin_system_config_service.go:70` takes that for a missing key; so does
  the seller's `MarkRead` of a message that was read.

## 4. Proofs

`OrderFlow_proofs` proves, for any sets of buyers, shops, products and
quantities and any bounds, from the assumptions named in `OrderFlow`:

| Theorem | States |
|---|---|
| `TypeCorrect` | `Spec => []TypeOK`; above all stock never goes below zero |
| `HeldIdsCorrect` | `Spec => []HeldIdsStayDue` |
| `LogCorrect` | `Spec => []LogTellsHistory` |
| `CancellationCorrect` | `Spec => []CancellationAttributed` |
| `DeletedCorrect` | `Spec => DeletedIsFrozen` |
| `SystemMovesCorrect` | `Spec => SystemMovesOnlyLate` |

The argument. `DeductedNat` is the arithmetic heart of the first: rounding to
even never takes a sufficient stock below zero. The others rest on
`EveryStep`: whatever step is taken, each order is created, marked (settled or
deleted), moved on by a legal row of its log, or untouched. That the
scheduler's moves are among these needs `HeldIdsStayDue`, which is inductive
with `TypeOK`: no legal move leads back to pending or arrived, and a deadline
only passes. History, cancellation and deletion are then one inductive invariant
(`OrderInv`), because none is inductive alone: that the last log row names the
canceller needs a log that ends in the present status, and that a deleted row is
out of reach needs that it was created.

It proves of the stock, from the same assumptions,

| Theorem | States |
|---|---|
| `DriftCorrect` | `Spec => []DriftBounded` |
| `ConservationCorrect` | `WholeUnits => (Spec => []StockConserved)` |
| `StockMovesCorrect` | `WholeUnits => (Spec => StockMovesWithClaims)` |
| `PromiseCorrect` | `WholeUnits => (Spec => KeepsPromise)`: `OrderFlow` implements `Fulfilment` |

`WholeUnits` says that no quantity is a half. It is a hypothesis, not an
assumption of the module, because the code allows halves and the last three
are then false: the run `halves_lost` shows how (Findings). What holds with
halves too is `DriftCorrect`.

The argument. What the orders hold of a product is a sum over all orders. The
induction that a sum needs is had from minimal elements of a well-founded
relation (`NatSetInduction`, `SubsetInduction` in `SumTheorems`), for sets and not for operators: it
gives the equation a fold meets, and from it what becomes of a sum when one
summand changes. Every step is then one of six (`Idles`, `Creates`, `Advances`,
`GivesBack`, `Restocks`, `Withdraws`), in each of which at most one order changes
what it holds of a product, and the stock goes by the rounded amount: half a unit
off at most (`RoundHalvesNear`), not at all when the amount is whole. An id that
was never used holds nothing (`Fresh`), which is what a creation starts from. The
refinement maps the status of an order to its stage, its quantities to its claim
while it has one, and twice the stock to what is on offer; each of the six is one
action of `Fulfilment` or a stutter.

`Cart_proofs` proves, for any number of requests, products, SKUs and rows:

| Theorem | States |
|---|---|
| `TypeCorrect` | `Spec => []TypeOK`; above all no commit takes a stock below zero |
| `OvershootCorrect` | `Spec => []OvershootBounded` |
| `DuplicatesCorrect` | `Spec => []DuplicatesBounded` |
| `ReuseCorrect` | `Spec => []ReuseBounded` |
| `OrderedRowsCorrect` | `Spec => []OrderedRowsGone` |
| `GoneCorrect` | `Spec => GoneStaysGone` |

The argument. None of the bounds is inductive: a request that has passed a check
carries the right to write. `CartInv` counts these rights together with what was
written: live rows and requests about to insert (`LimitInv`), live rows of a key
and requests that found none (`KeyInv`), orders made from a row and requests that
have read it (`UseInv`). A check happens only while what is written is below the
rule, and the rights are at most one per request; a write turns a right into a
row or an order. All other steps are calm (`Calm`): they only remove. The types stand on their own; what
a commit deducts is a sum over the rows it read (`LineInt`), which it has found to be
enough.

`BackOffice_server_proofs` proves, for any number of products, contents, stocks, forms,
handlers and imports, of messages and syncs, and for any finite sets of facts and of
categories, from `BackOfficeAssumption` and `NoneAssumption`:

| Theorem | States |
|---|---|
| `ReviewedChanges` | `Spec => []ChangesAreReviewed` |
| `StockCounts` | `Spec => []StockLedger` |
| `NoticesCorrect` | `Spec => []NoticesTellFacts` |
| `TreeCorrect` | `Spec => []TreeIsWhole` |

The argument. For products neither property is inductive, because a handler writes
what it read before: whether the write is harmful depends on what has happened to the row
in between, of which the row says nothing. The invariant (`ShelfInv`) therefore
says of every form and every handler what it holds is worth. A form in which nobody typed a stock shows the stock of the row, or
it is not known any more what there is (`Fits`), and a save takes over what its form
knew (`SaveFits`). Each step then has to keep what fits (`WriteKeeps` and `RowKeeps`
say when a write does), and `StockLedger` follows from what the writer held. On it
stands the invariant of what is on sale (`SaleInv`): a handler about to put a product on
sale holds what the row would sell by now, or an edit or a new price has overtaken it
(`ReadFits`); every write must therefore mark the handlers it overtakes, and a quick change
of prices moves what was put on sale along with the row.
For the shops (`ReviewInv`) the types are strengthening enough. `RowsInvariant`
brings the two together: on any other errand the property says nothing, and
errands do not change.

Messages and categories are about code that writes after it has read, too. A sync
reads facts and messages one after the other and then writes from what it
remembers. The invariant (`NoticesInv`) says that, as long as no two syncs crossed,
what a lone sync has read stays true until it has dealt with it (`Looking`, `Writing`),
that no fact has two messages, and, when nothing changed while it read (`now`),
that what it has dealt with is told; so that at its end all is told. For the tree
the difficulty is not the handlers but what "hangs on the top, however far
down" means to a prover without induction over data. `Below` is shown to be the
least set that holds the children of its members (`BelowIsClosed`, `BelowIsLeast`), by
counting its levels: one that adds nothing is the last, and each of the others adds a
category, of which there are finitely many. After that no lemma counts: a
creation hangs the new category on one that hangs (`CreateHangs`), a category without
children is nobody's way to the top (`DeletionHangs`), and a move to a parent that does not
hang below the category leaves everything on the top (`MoveHangs`). `TreeInv` carries to
each write what its read has found. A form that no keyword narrowed blocks what hung
below its category when it was opened (`FormSafe`), so the parent a move goes to is not among
that (`PutSafe`); and the parent of whatever is about to be put is still there, or a
deletion has crossed it (`Found`).

`BackOffice_proofs` proves, for any number of products, orders' remarks, keys, pages,
messages, rows and requests, from the same two assumptions:

| Theorem | States |
|---|---|
| `TypesCorrect` | `Spec => []TypeOK` |
| `ShownCorrect` | `Spec => []ShowsServer` |
| `SpinnersCorrect` | `Spec => []SpinnerHasCall` |

With these every safety property of `BackOffice` is proved. What the assumptions say of
the pages: a list has a first page, a badge counts finitely many messages, there is a
price (one is asked for, so the set is not empty), and null is none of the words, keys
and lists of saves that a page holds or compares it with.

The argument. `PagesInv` is one invariant for each of the eight pages. As in the buyer
app, none of the three properties is inductive: a page at rest says nothing of the
requests that made it so. Each page's invariant has the same four parts.

- The requests (`EntryCalls`, `TableCalls`, ...): numbered apart, finitely many
  (`Numbered`), and each with an argument and an answer of its kind. Of the desk, whose
  screens share one state, each request is of the screen in front or of nobody
  (`DeskCall`).
- The page (`EntryPlace`, `TablePlace`, ...): its state, and where it may be in it.
- What it waits for (`EntryWaits`, `TableWaits`, ...): each flag has the request that will
  end it. Where a button that is off is what keeps a second request away, the
  invariant says that too: one switch (`SettingsOne`), one request of an order's page
  (`OrderOne`), one further page of a list (`DeskWaits`).
- What it shows (`EntryTrue`, `TableTrue`, ...), as long as nothing crossed: every read that
  was answered carries what the server has now, and the page shows that already, or a
  read is under way, or a change was made whose answer leads to one (`EntryPends`,
  `TablePends`, ...). For the switch of a shop, which moves before the server is told, the
  position is the server's or the opposite, with the request that tells it
  (`SettingsTold`). On the desk, whose lists come in pages, what is under way together
  is first pages of one key, or one request alone (`DeskTogether`); of the messages it
  lists it shows which are unread (`DeskUnseen`); the badge, which is
  counted down when a mark is answered, is one message too high exactly while that
  answer is on its way (`DeskMessages`).

A tap, an answer, the server and the loss of an answer each have a lemma per page. What
they share is that a step adds one request, answers one or ends one (`NumberedMore`,
`NumberedSwap`, `NumberedFewer`), or leaves all that are under way to themselves
(`NumberedLeft`). `TypesCorrect` takes the rows' types from `RowsInv` and `ServerInv`.

`BuyerApp_proofs` proves, for any catalogue, cart, address book, set of orders and any
number of requests in flight, from `BuyerAppAssumption`:

| Theorem | States |
|---|---|
| `TypesCorrect` | `Spec => []TypeOK` |
| `SpinnersCorrect` | `Spec => []SpinnerHasCall` |
| `ShownCorrect` | `Spec => []ShowsServer` |
| `ListsCorrect` | `Spec => []ListIsWhole` |
| `QuantityCorrect` | `Spec => []SentQuantityLegal` |
| `PreviewCorrect` | `Spec => []PreviewIsCurrent` |
| `DefaultCorrect` | `Spec => []OneDefault` |
| `OffersCorrect` | `Spec => []OffersAccepted` |

These are all its safety properties. The assumptions are the code's: page sizes,
minimum and step of a product are positive; the parents of the catalogue are those
that have a list of children, and no category is null or the filler of a tab; the
default sort order is among the sort orders; the orders of a buyer are finitely many;
null is no number (`None \notin Nat`: ids and numbers are compared with it).

The argument. `AppInv` is one invariant for each errand, because none of the
properties is inductive: at rest, or where no spinner turns, a screen says nothing of
the requests that made it so. The invariants say it of the requests on their way.

- Requests (`Numbered`, `New`). A new request gets an id that none under way has, which
  exists because those under way are finitely many; so an answer ends one request.
- What waits. For each flag that turns or blocks, the invariant names the requests
  that will end it (`OrdersSpin`, `BookSpin`, `Waits`, `CartSpins`, `Marked`; `FormSpin` lets the
  page of an address say that it is loading once its read has failed), and who may own
  them: a request that a screen left behind (`Orphaned`) is not among them, and the
  screen that comes next starts without the flag. Placing the owners (`Placed`,
  `BookFits`, `SubKept`) is most of the work.
- What is shown. `ShowsServer` speaks of rest; the invariants (`CartSynced`,
  `OrdersSynced`, `BookSynced`, `AccountSynced`) say, as long as nothing crossed: every read that was
  answered carries what the server has now, and what is shown is that already, or
  a read is on its way, or a change that was made and whose answer will lead to one.
  For the buyer's numbers a visit must in addition be counted out: each number it lacks has its
  request and each it has is the server's (`Gathered`, `Collected`).
- Lists in pages (`Carries`, `AllOf`). What is shown is the pages from the first to the
  current one of the present selection, unless the list is tangled. A read that nothing
  has overtaken (`OnTime`) is of the present selection; if it is of a next page, that is
  the next one (`CarriesOn`), and no such read that replaces the list is under way with
  it. An overtaken read may be of anything, and tangles the list when it ends. That rows are appended in order
  needs that one page is asked for at a time (`OneMore`), which the flag says while its request is there.
- A quantity is legal from the moment on that the page of a product is shown
  (`BrowseInv`), because whatever is typed is snapped to a whole step (`SnappedIsLegal`).
- Previews: while none overlapped, every preview under way, and the one shown when
  none is, is of the order as it is now (`Current`); what changes the order while the
  screen is open asks for a new one (`Previews`), and what does not leaves the old one
  good (`PreviewingKeeps`).
- The default address: what `SELECT ... FOR UPDATE` promises is the invariant
  (`Locking`): the address of whoever is past its lock is there and nobody else has it;
  so a default is always set to an address that is not deleted meanwhile. What the
  screens do to requests of the server's transactions they may only by renaming or
  forgetting them (`Comes`).
- The orders: what was sent was offered for the status that it carries (`Asked`).

`Sessions_proofs` proves, for each of the three clients and for any number of tabs,
requests, pairs and mishaps, from the assumptions named in `Sessions`:

| Theorem | States |
|---|---|
| `TypeCorrect` | `Spec => []TypeOK` |
| `WaitersCorrect` | `Spec => []WaitersAreServed` |
| `InsideCorrect` | `Spec => []InsideHoldsTokens` |
| `OneRefreshCorrect` | `Spec => []OneRefreshAtATime` |
| `SignOutCorrect` | `Spec => []SignOutSticks` |
| `SessionCorrect` | `Spec => []HonouredSessionKept` |

The argument. `ShapesInv` is the shape of everything under way: what a call, a
queued write and a request may hold, and that in the admin web a refresh whose flag
is set has its call open (`AdminFlight`), without which a second one would begin
where none can be served. `WaitersAreServed` and `InsideHoldsTokens` are inductive
with it. `OneRefreshAtATime` needs the converse of the flag (`OneRefresh`): as long as the
seller app forgot none, the flag is set while a call of the tab is open or the write
that ends it is queued, and only one of these is. `SignOutSticks` and
`HonouredSessionKept` speak of a state at rest, which says nothing of what
leads there. The first becomes (`SignedOut`): after a clean sign-out no tab has a call
open, whatever is queued clears, and once the sign-out itself is through, all is
cleared. For the second the invariant (`SessionHeld`) follows the newest pair on its
way: it is what the client will hold once all its writes are through (`Final`), or it
is still in an answer (`Arriving`), or one of the named mishaps has happened. As long as
none has, what is queued is a login, the answer of the one refresh, or the ends
of a session that is over (`Undisturbed`). The proof counts no pairs, so
that both hold far beyond the bounds of the run.

Only model-checked, and why:

- liveness (`LatePendingResolved`, `LateArrivedCompleted`, `SpinnersStop`): out of
  the prover's reach. All other properties of the passing runs are proved.

## 5. Not modelled

- SMS codes and rate limit: each works under one mutex from beginning to end, so
  that nothing crosses; what is left are comparisons of clock readings with
  constants, and the code itself is a constant.
- Uploads: files on a disk. That an upload is under way, fails or comes late is in
  `ProductForm` and `SellerShop`.
- User profile, lists, exports, totals of the preview, aggregates of the dashboard:
  reads and writes of one row, or reads only.
- Order numbers: time and random digits; the schema's unique key and a retry.
- Handlers and routes: they parse, call one method and map its error. That a route
  is missing is in `BuyerAccount`.
- Row locks. Where two handlers take them in different orders InnoDB ends the
  circle by failing one transaction; `OrderFlow` has transactions that fail, not
  the locks. `BatchUpdatePrice` against order creation is the case at hand.
- A change of the configured ages while a tick of the scheduler runs.
- The format of a CSV file and the message for each of its rows; the fields of an
  address but for its region; units and money; prices, but for what sets them
  (`Shelf`) and the quick prices of `SellerDesk`.
- The filter and the pages of the banners, and the orders of a buyer beyond the 50 that
  the app asks for.
- Styles, texts, pictures, the figures the admin web derives from the page it
  shows, and the search within a page that is already there.
- `tools/vibma-plugin` and generated files: no part of the program.

## 6. Plan

Done: the orders with their promise, the cart, the sessions, the screens of the
three clients, and products, shops, categories and messages under crossing handlers.

The proofs of the orders with their promise, of the cart, the sessions, of products,
shops, categories and messages under crossing handlers, and of all that the pages of
the three clients show, wait for and send: every safety property of the passing runs.

Left: what section 5 names.
