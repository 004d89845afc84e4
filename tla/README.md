# NeoMarket B2C service: specifications, model checks and proofs

The B2C service is the buyers' side of a marketplace: a FastAPI application over PostgreSQL that
keeps carts, orders, wishlists, subscriptions and banners, and asks the sellers' side (B2B, another
service) for products, categories, stock and reservations. Every request is a coroutine with a
database session of its own (READ COMMITTED, no expiry on commit, rolled back when the handler
raises) and calls B2B over HTTP with a timeout of ten seconds. A cron job runs a worker that finishes
cancellations. What is hard in this code happens between two awaits: another request commits, B2B
changes or times out, the process dies.

This directory holds TLA+ modules translated from `src/`, TLC configurations that check them on small
instances, and theorems checked by TLAPS for every value of the constants. `PROJECT.json` maps every
definition to the lines it stands for and lists runs, mutants, findings, hazards and theorems.

## 1. Inventory

| Component | State | Operations | Talks to |
| --- | --- | --- | --- |
| Checkout, `routes/order.py` 201-425 | `orders`, `order_items`, unique `idempotency_key` | POST /orders | cart rows, B2B SKUs, reserve, release |
| Cancellation, `routes/order.py` 518-620, `services/order_cancel.py`, `workers/retry_cancel_pending.py` | status, retry count, next retry time | cancel, cancel-retry, worker run | B2B unreserve |
| Cart, `routes/cart.py` | `cart_items`, no unique constraint | add, patch, delete, clear, merge, get | B2B SKUs |
| Order history, `routes/order.py` 428-506 | none | list, get | `orders` |
| Wishlist, `routes/wishlist.py` | `wishlist_items`, unique (user, product) | add, remove, list | B2B product |
| Subscriptions, `routes/subscriptions.py` | `subscriptions`, unique (user, SKU) | subscribe, unsubscribe | B2B SKU |
| Facet counters, `services/facet_service.py` | memo of the process: TTL 30 s, 128 entries | get, store, expire, evict | B2B listing in pages, cards in batches |
| Catalog, `routes/catalog.py` | none | listing, card, similar, categories, tree, breadcrumbs, filters | B2B, up to four calls a request |
| Home, `routes/home.py` | banners, collections, click log | banners, click, collections | B2B batch |
| Recommendations, `routes/recommendations.py` | none | get | B2B |
| B2B client and parsers, `services/b2b_client.py`, `services/b2b_public_catalog.py` | none | one method per B2B endpoint | B2B |
| Application, `main.py`, `database.py`, `config.py` | sessions | exception handlers | everything |

What is hard, and what makes each component correct:

- **Checkout.** Double clicks and retries carry one Idempotency-Key; the loser of the race on the unique
  index must find the winner; a reserve may succeed in part; a timeout hides what B2B did; the cart and
  the prices move after they were read. Correct: one order per key, true answers, stock accounted for,
  an order that is the one the client saw (but for the rounding of prices), and everybody who waits is
  answered.
- **Cancellation.** Requests and overlapping worker runs hold stale copies of the row, and a commit
  writes the columns that changed in the copy. Correct: nothing is CANCELLED before B2B released it, no
  stock is released behind a live order, an accepted cancellation is kept and finished.
- **Cart.** Handlers read, ask B2B, read again and write. Correct: a row per SKU, no lost addition, a
  merge takes the larger quantity.
- **Wishlist, subscriptions.** Look, insert, handle the violation. Correct: saved once, and answers that
  were true at some moment.
- **Facets.** Slow scans store over younger ones, the memo is bounded, pages are read at different
  moments. Correct: the counters of the listing on the page, bounded age, exact counters while B2B stands still.
- **Catalog.** Several calls see several states of B2B; hierarchies may be broken. Correct: paths that
  exist, refusals only when needed, a block of similar products that is clean and full, a price of
  something that can be bought.
- **Order history.** Pages by offset over a table that grows and changes. Correct: nothing is missed or
  repeated unless an order has left or entered the filter, and a total that fits the page.
- **Views** (cart, wishlist, collections). Rows are read once and looked up one by one while offers change
  and lookups fail. Correct: every row is shown once, with something that was true while the request ran.

Components meet in the database and in B2B: checkout deletes the rows that the cart endpoints write;
cancellation works on the rows that checkout commits and gives back what checkout reserved; the
history reads what both commit; the wishlist and the catalog only read B2B. The models meet in the same
places: `Checkout` has the commits of the cart endpoints as actions (`AddRow`, `SetQuantity`,
`RemoveRow`); `OrderLife` is the life of an order as `OrderCancel` implements it, as `Fulfilment` lets it
happen beside checkouts, and as `OrderHistory` sees it; `FacetCache` takes its counters from the scan that
`Catalog` models.

## 2. Modules

An action is one statement, one commit or one B2B call with the code that follows it, so whatever an
action has read may be stale when the next one uses it. `pc` is the position in the handler.

- **`Checkout`**: POST /orders. `rows`, `orders` are committed tables; `cart`, `lines`, `refund` are the
  handler's locals; `held` is what B2B has reserved, line by line (a line names the request, the cart row, the
  SKU, the quantity and the price), `lost` a history variable. Actions in the order of the code: `FindKey`,
  `ReadCart`, `Enrich`, `InsertOrder` (waits for the index entry of an open transaction), `ReplayWinner`,
  `Reserve`, `ReserveError`, `Release`, `ReserveFailed`, `CommitOrder`, `Answer`, and `Crash` anywhere. A B2B
  answer that is not what the handler expects and ends in a 500 has the effect of `Crash`: the transaction
  is rolled back and nothing is released. B2B's prices are in parts of the currency unit (`Scale`), a snapshot's
  in whole units: `Matches` compares with `Rounded`, Python's `int(round(price))` with a half to the even number,
  and the order keeps the price as it is. Cart and snapshot become dictionaries by SKU first: of several snapshot
  lines of one SKU the last counts (`LastLines`), of several cart rows any (`Collapsed`: the query has no order).
  A row whose SKU comes back empty is skipped (`Priced`), and a cart of such rows is refused.
- **`OrderLife`**: the abstract order. It is placed, its cancellation is accepted, B2B gives the stock back,
  the cancellation completes; stock is given back only after the acceptance, CANCELLED only after the
  stock. `Reopen` is finding 2, kept in the promise because the code does it.
- **`OrderCancel`**: both cancel endpoints and the worker. `copy` is the session's stale copy of each
  row; `Commit` writes the columns that differ from it. `UnreserveFails` covers an error before and after
  B2B released; `UnexpectedError` is the worker run that dies on an exception; `Elapse` makes a retry due.
  It implements `OrderLife` (`KeepsLife`): `status` is the committed row (`Stage`), `released` is B2B's.
- **`Fulfilment`**: the composition. It EXTENDS `Checkout`, so cart edits, checkouts, faults and crashes are
  its steps, and adds for every committed order the steps of `OrderLife`. `OrderLife` is the specification of
  cancellation here, and `OrderCancel` what implements it: that `Fulfilment` keeps `OrderLife` is its definition
  and no result. The results are about the stock that both sides share: a release takes the lines of the order
  out of the stock that checkouts reserve from.
- **`Cart`** and **`ShoppingCart`**: every writing cart endpoint, statement by statement, and the abstract
  promise: a cart is a quantity per SKU and every request takes effect at one moment. `Cart` implements
  it (`KeepsPromise`, `Promise == INSTANCE ShoppingCart WITH cart <- ..., offer <- ...`) as long as each
  cart has one client at a time; the run `cart_two_rows` shows what happens with two.
- **`SavedItems`**: wishlist and subscriptions. Slots of both kinds share the actions; the kind decides
  how a duplicate is answered. `happened` is history: what was so of the slot while the request ran.
- **`OrderHistory`**: GET /orders and GET /orders/{id}. A request counts, then selects its page; a client
  that is not part of the code walks from page to page under one filter until a page is not full.
  `OrdersMove` is any step of `OrderLife`: orders of this buyer and of others are committed (in any order of
  `created_at`, which is the start of their transactions), cancelled and completed at any moment.
- **`Views`**: get_cart, get_wishlist, get_collection, get_recommendations and the lookups of the client
  they are made of. Requests share nothing, so there is one at a time, over every content of the tables.
  `Finds`, `Misses`, `HttpError`, `Unreachable` are the four ends of one lookup, `ShowCollection`,
  `BatchIsArray`, `BatchFails` the three of the batch call of a collection (products by id, the array of the
  published contract, an error). `was` and `heard` are history: all that B2B said of a thing while the request
  ran, and what the batch call came to.
- **`FacetCache`**: the memo. A request starts from the parameters the buyer has chosen (`query`), makes the
  `FacetSelection` of its endpoint from them, looks its key of eight fields up, and on a miss scans the
  listing that `Scanned` asks B2B for and stores it. `Shown` is what GET /catalog/products asks B2B for with the
  same parameters. Time is a clock in ticks.
- **`Catalog`**: one request at a time (requests share nothing) against a B2B that changes between its
  calls: the category endpoints, listing and card, the similar products, the scan of the facets. `Chain` is
  the walk over `parent_id` as a recursive function; the properties compare it with the set of all ways from
  a root. `shown` is history: where B2B had the products and the categories while the request ran.
- **`Checkout_proofs`** (of `Checkout` and of `Fulfilment`), **`OrderCancel_proofs`, `Cart_proofs`,
  `SavedItems_proofs`, `FacetCache_proofs`, `OrderHistory_proofs`, `Views_proofs`, `Catalog_proofs`**: theorems.
  **`MC*`**: instances for TLC.

Loops and walks (`Selected`, `Walk`, `Joined` in `Catalog`; `Total`, `Kept`, `Collecting` in `Views`) are recursive
functions of the number of steps done, so that TLC evaluates and TLAPS proves about the same definition.

Definitions that begin with the words "Mutant:" are plausible bugs of the definition that follows them;
they take no part in the specification, and each checked property is shown to catch one.

## 3. Runs

| Run | Instance | Distinct states | Shows |
| --- | --- | --- | --- |
| `checkout_keys` | 3 requests of one key, one with another body, two with a snapshot; 2 cart rows over 2 SKUs, stock 3, 1 fault | 269 k | one order per key, stock held for one request of the key and one more for each fault, true answers, the loser finds the winner, every line accounted for; every request that started is answered |
| `fulfilment` | one buyer, 2 keys, one request with a snapshot and one without; 2 SKUs, 3 cart rows, 2 quantities, 2 prices that round differently, scarce stock, 1 fault, cancellations | 3.1 M | stock is conserved over the life of orders, bought rows are gone, the order is the one of the snapshot but for the rounding |
| `checkout_duplicate_rows` | one request, two rows of one SKU | violation | finding 1 |
| `cancel` | 1 request, 1 worker with `--limit 1`, 3 orders, one without items, 2 faults | 399 k | the safety of cancellation on stale copies, `OrderLife` is implemented, accepted cancellations end in CANCELLED |
| `cancel_final` | 2 requests and a worker on one order | violation | finding 2 |
| `cart_serial` | a guest and a buyer who merges, 2 SKUs | 157 k | refinement of `ShoppingCart`, one row per SKU |
| `cart_two_rows` | two tabs of one buyer | violation | finding 3 |
| `saved` | 3 sessions, a wish and a subscription | 24 k | saved once, answers true at some moment, 500 only after a removal |
| `facets` | 2 requests, 5 queries and the page of a category, 4 keys, 2 entries, TTL 2, scans of 1 tick | 1.3 M | bound, the counters are of the listing on the page, age at most scan + TTL |
| `catalog` | all hierarchies over 3 categories, all placings of 3 products, blocks of 1 to 3 at a cap of 3, 1 change of B2B | 5.1 M | paths, tree, refusals, cards and listings, similar products, counters, page limits |
| `history` | 3 orders of the buyer, 1 of another, pages of 1 and 2, 3 filters | 2.5 M | nothing missed, nothing twice, total and page agree, and when |
| `views` | tables of up to 3 rows over 2 things, 2 prices, 2 changes of B2B | 3.6 M | cart, wishlist and collections show what was true; the total is of the rows on sale |

Why the bounds are enough. Two sessions show a race, a third one shows what a loser sees of two others
(`checkout_keys`, `saved`). Two faults
(`cancel`) allow a failed call and then a crash; in `checkout_keys` a reserve fails in part without a fault, so
that one fault is a failed compensation, a lost call or a crash.
In `fulfilment` the stock of one SKU is enough for two checkouts and that of the other for one, so that
reserves succeed, fail and succeed in part, and what a cancellation gives back is reserved again. Three
orders with a worker limit of one force the worker to choose, and one of them has nothing to release.
The prices of `fulfilment` are 1.4 and 1.6 where the client saw 1, so that one agrees and the other does not; its
snapshot names a SKU twice. The queries of `facets` are a category, the same with a brand (and an empty seller), with
the brand overridden by a characteristic, in another order, and of what is sold out; its four keys and two
entries evict, also when the key is there already. With a cap of three, a block of two that is short of one product asks the
parent for two rows. Three categories give chains of
every length up to three, cycles of one, two and three, missing parents, and siblings; two pages of one product
against a limit of two reach both ends of the paging. Three orders in pages of one and two give walks of
several pages, with an order of another buyer between them, and a page boundary that a commit or a
cancellation can shift in both directions. Three rows over two things hold one thing twice, and two changes of
B2B let it say three things of it. The bounds are constants: `RowIds`, `Copies` and `Ids` bound the rows alive,
`MaxFaults` the faults, `MaxTime` the clock, `MaxEdits` the changes of B2B during one request, `MaxRows` the
tables of `Views`.

Every run but `checkout_keys` checks deadlock and finds none. There the instance really ends: every request is
answered, the cart is empty and the ids of new rows are used up; that no request is left without an answer is
the property `EveryRequestAnswered`.

Fairness. `checkout_keys` assumes that a handler that was entered runs on: statements return and a B2B
call ends with its answer or with the client's timeout; the crash of a handler is one of its ends.
`cancel` assumes the same of handlers and runs, that cron starts the worker again and again,
that time passes, and that a session that took up an order finishes it; `MaxFaults` says that B2B does
not fail forever, without which nothing can be promised.
No fairness is assumed between due orders: the worker takes any `--limit` of them, and a failure pushes
an order into the future, which is what gives the others their turn.

## 4. Proofs

All theorems hold for every value of the constants that satisfies the named assumptions. Every invariant and
every action property that a run checks is also stated by a theorem (`SnapshotHonoured`, which the run
`fulfilment` checks, of `Checkout` alone: no step of a cancellation touches an order's lines). Some
type invariants that are proved, and
what follows from a refinement that is checked, are not checked again by a run: `IntentKept` and
`ReleasedIsCancelling` follow from `OrderLife` and are proved, `ShownCanBeOpened` is proved.

**Checkout** (`RequestAssumption`, `QuantityAssumption`). `KeyInv` is the type of the state with
`KeyClaimedOnce` (one transaction at a time is between its insert and its end, and none once the key has an
order) and `OneOrderPerKey`. Neither is inductive alone: a commit keeps one order per key because
the claimed key has none yet, and an insert keeps the claim unique because it waits for the other one.
`AnswerInv` adds what is known of a request at each step (`ProgressInv`: before the answer the order of the
request is there, before that it is not; who is sent to "conflict" has a winner), because an answer is only
as true as the step before it. `StockInv` adds that lines carry the request they belong to (`LinesAreTagged`),
so that no two requests or orders share one, and `Accounted`, which is stated with a set of lines that have left
B2B (empty here, what was given back in `Fulfilment`). `LossInv` counts the requests that left lines behind
against the faults; with the claim and the accounting it gives `KeysReserveOnce`: whoever holds stock of a key
owns the key, has made its order, or is one of those. `OwnerInv` relates cart rows, the carts that were
read and ordered lines, since a row that was ordered must not come back through an edit. Theorems:
`StateIsWellTyped`, `KeyHasOneOrder`, `KeysReserveOnce`, `AnswersAreTrue`, `LosersFindTheWinner`,
`StockIsAccounted`, `BoughtRowsStayGone`, and `SnapshotsAreHonoured`. For the last one `RoundedIsNear` shows that
the rounding moves a price by half a unit at most, whatever the scale, and `LastLineExists` that a snapshot has a
last line for each of its SKUs. The theorem has `UniqueRows` as hypothesis: the run `checkout_duplicate_rows` shows
that it does not hold without.

**Fulfilment** (the same, in `Checkout_proofs`). The lemmas about checkout are used for a stock from which `Gone`
is missing; `LifeInv` ties the life of an order to its release. Theorems: `FulfilmentIsWellTyped`,
`StockIsConserved`, `BoughtRowsStayGoneForLife`.

**OrderCancel** (`CancelAssumption`). `CancelInv` adds to the properties what a session may rely on whatever
its copy says (`SessionOK`): at the B2B call the intent is in the committed row, in "success" the stock is
back, everything on the due list is being cancelled. The heart is one lemma about `Commit`: a write from
a stale copy of an order that is being cancelled leaves it so. Theorems: `TypeCorrect`,
`CancelledOrdersAreReleased`, `ReleasedOrdersAreCancelling`, `RepliesAreTrue`, `IntentIsKept`, and the
refinement `CancellationKeepsLife`.

**Cart** (`CartAssumption` and `LargestQuantity`, since the columns are integers; `OneClientEach`: each cart has one client). `CartInv` says that what a request has
read of its own cart is still so when it writes (`UpToDate`). Theorems: `CartHasOneRowPerSku`, and
`CartKeepsPromise`, the refinement: every step of `Cart` is a step of `ShoppingCart` or a stutter.
`OneClientEach` is a hypothesis of both, and the violation run shows that they do not hold without it.
`QuantitiesStayAllowed` (`TypeOK`) needs no such hypothesis: with any number of tabs a committed quantity is one
the service allows. Its invariant `QuantityInv` adds what a request has already compared with the stock
(`Checked`), and the bound on a quantity is a maximum of a set, for which the assumption says that quantities and
stock levels have an upper end (they are integer columns).

**SavedItems** (no assumption). `SavedInv` adds what a running request relies on (`Relies`): a row it looked
up is still there or its removal has been noted. One lemma (`Bystander`) shows that the steps of the other
requests keep it. Theorems: `SavedTypeCorrect`, `ThingsAreSavedOnce`, `SavedAnswersWereTrue`,
`AddsFailOnlyIfRemoved`.

**FacetCache** (`CacheAssumption`, `QueryAssumption`). `FacetInv` bounds the age of what is stored and of the scans
that run, since an answer is as old as either; the bound on the entries rests on `RoomForOne` (an eviction leaves
room for one entry). It also has, for every entry, the listing that was counted for every selection of its key. That
is enough because two selections with one key ask B2B the same (`KeyIsFaithful`) and each endpoint's selection
asks for the listing its page shows (`SelectionFits`, `CategoryFits`). Theorems: `FacetTypeCorrect`, `MemoIsBounded`,
`CountersFitTheListing`, `CountersAreNeverStale`.

**OrderHistory** (`HistoryAssumption`: finitely many orders, of different creation times). A page is a set of
ranks; `RanksHaveNoGap` says that the ranks of a finite set are an initial segment, `PageIsFull` what a page
of it holds. The invariant says what a walk has seen: every expected order still ahead has a rank behind the pages
read so far as long as none has left the filter, and every order seen has a rank before them as long as none
has come. Theorems: `HistoryTypeCorrect`, `NothingIsMissed`, `NothingIsShownTwice`, `TotalsFitPages`,
`ShownOrdersAreFound`.

**Views** (`ViewsAssumption`). `ViewsInv` adds what the lookups so far are worth: what was found was said by B2B
while the request ran (`Witnessed`), a row that was asked for and not found has an excuse (`Excuses`), and without
a change of B2B what it says is all it has said (`Steady`). The pages are built by loops; `KeptByRank` says what
the loop of the wishlist has after n rows: a row that is kept stands at its rank, and what stands at a rank is the
row that has it. From it and `SliceIsPiece` the page is what `IsTrueList` says with cardinalities. A collection
is followed row by row (`CollectionsAreTrue`). Theorems: `ViewsTypeCorrect`, `CartIsShownTruly`, `TotalsAreOfRowsOnSale`,
`WishlistsAreShownTruly`, `CollectionsAreShownTruly`.

**Catalog** (`CatalogAssumption`: finitely many categories, each product once in a listing, twice the cap on
similar products is within the cap on a listing (50 and 100), a page of the scan within that cap and within the scan
limit: 100, 100 and 500). Each layer is an invariant on top of the one before. `Shape` has the types, and the
parameters a step relies on. `Watched` says that what is listed now is part of what was listed while the request ran;
`BlockSoFar` that the block so far repeats nothing, leaves out the product itself and holds only what was next to
it (`NextTo`), which a collection of rows keeps (`CollectKeeps`); `Fresh` that, without a change of
B2B, a block that is short has everything the category has, so that twice what is missing, of the parent, fills it
or holds all there is; `Counting` that each page of the scan is a piece of the selection at its offset. That these
pieces end where the next begins, for every page size, is `PagesEnd` and `PagesJoined`. For the hierarchy there is
`Climbs`: a walk is part of a way. It repeats no category, so it ends within as many steps as there are categories
(`ChainEnds`, a pigeonhole), at a root or at a parent that is missing or was there before; `NoWay` and `OneWay`
say what that means for the set of all ways. Theorems: `CatalogTypes`, `CardsAndListingsAreTrue`, `BlocksAreClean`,
`BlocksAreFull`, `CountersCountTheSelection`, `BrokenHierarchiesAreRefused`, `PathsOfCategories`.

How the values of recursive functions are found: the induction and recursion theorems of the library take an
operator as a parameter, which the provers cannot instantiate. `Upwards` states induction with a set of numbers
instead (a set that holds 0 and with every number the next holds all), from the theorem that every set of
numbers has a least element; `Recursion` derives from it that a function with a first value and a step exists.
A recursive definition is then what it says (`WalkSteps`, `SelectedSteps`, `JoinedSteps`, `KeptSteps`, ...), and
what it computes is proved by `Upwards`. Both lemmas are in `Catalog_proofs` and in `Views_proofs`.

Only model-checked: liveness (`EveryRequestAnswered` and `EventuallyCancelled`, under the fairness of section 3).

## 5. Findings

1. `checkout_duplicate_rows`: the snapshot is compared with one cart row per SKU (`order.py:305`); with two
   rows for one SKU the order has more than the client saw.
2. `cancel_final`: the status is checked on a copy (`order.py:554`), so a second cancel can take an order
   from CANCELLED back to CANCEL_PENDING. It is cancelled again later and B2B ignores the second release.
3. `cart_two_rows`: two concurrent adds leave two rows for one SKU (`cart.py:220`); from then on every add,
   patch and delete of this SKU fails until the cart is cleared.

Met while modelling and not turned into runs:

- an addition to the cart overwrites a change that was committed after it had read (`cart.py:204`; two tabs of
  one buyer in `Cart` violate `KeepsPromise`);
- the worker run ends when one order raises anything but a B2BClientError (the rollback expires the loaded
  rows and the log line of the handler needs one of them; the next run makes up for it); two overlapping runs
  count two failures as one; a CANCELLED row can keep a retry time;
- a wish that is removed while it is added answers 500;
- what a timed out reserve has reserved is never released, and the next request of the key reserves again
  (`order.py:364`; `KeyReservesOnce` counts it against the faults);
- the snapshot is compared with a rounded price and the order keeps the price as it is (`order.py:290`, `317`): an
  order may differ from what the client saw by half a unit for each piece;
- a cart row whose SKU comes back empty is left out of the order and deleted with the cart (`order.py:281`);
- checkout charges rows that are inactive or sold out (`order.py:277-300`, until B2B refuses to reserve), which the
  total of the cart page leaves out;
- checkout deletes cart rows it did not order, and two keys of one buyer can buy one cart twice;
- nothing maps a B2B error of the wishlist or the recommendations to 502, which `b2b_client.py:18-20` speaks of;
- the recommendations call the client with parameters that it does not have: every known product is a 500;
- the published batch call answers an array (`b2b_client.py:12-13`), the helper of the collections keeps only
  objects (`b2b_client.py:337`): every product of a collection is named unavailable, those on sale too, where
  `home.py:128-131` names only what is not found, inactive or out of stock. `Views` has this answer as an action
  of its own (`BatchIsArray`), and `CollectionIsTrue` says of it what the code does;
- the cart reads `is_active` and `quantity_available` (`cart.py:53`), which the published SKU does not have;
- `max_display = 0` shows one product (`home.py:187`);
- a walk over the history misses orders when one leaves the filter and repeats orders when one comes in; a
  client that stops at `total_count` instead of a short page may also miss the last ones;
- orders of equal `created_at`, and the rows of a wishlist, have no order of their own (`order.py:458`,
  `wishlist.py:62`), so that pages of two requests need not fit together.

## 6. Abstractions

Titles, prices beyond a small set, addresses, formatting, logging and the text of errors are left out. The
request hash is taken as injective. The backoff is "past" or "future". B2B is modelled from how `src/` uses
it: a stock of reserved lines with partial reserves, an idempotent release per order, listings per category (of
the category itself, without subcategories), a similar-products list that may hold the product itself, offers
with the fields the code reads. A body outside of the contract is one action (`BodyUnreadable`); which bodies
these are is not modelled. Orders without a request hash, which `order.py:162-165` replays without comparing, can only
be rows from before migration 006 (checkout always stores one) and are left out. The batch calls for the cards of a
scan run at once and are one action (`ReadCards`): only stock and brand come from them. The slice to the scan limit
(`facet_service.py:261`) never cuts, since the limits of the pages add up to it. In `Views` a SKU and a product are both a thing on offer: on sale at a price, sold
out, inactive or unknown. In `Catalog` a discount is at most the price. `OrderHistory` leaves out the items of
an order, which never change after its commit.

## 7. Not modelled, and the plan

Not modelled: banners and the list of collections (one select each, of tables that nothing here writes), the
click log (an append without readers), schemas, configuration, migrations, startup, which B2B bodies the parsers
refuse, the length of the backoff, and the answers of the writing cart endpoints.

Next:

1. The answers of the writing cart endpoints with a client that retries: a row that is committed before its
   enrichment fails (`cart.py:237`) is added again.
2. The length of the backoff (`base * 2 ** count` with its cap) as a function, and the retry count.
3. Two walks of the history, and the wishlist over two requests, with ties in their order.
