------------------------------ MODULE Checkout ------------------------------
(***************************************************************************)
(* POST /api/v1/orders (src/routes/order.py): buyers turn their carts into *)
(* paid orders.  Every element of Requests is one HTTP request that enters *)
(* checkout() at most once; a client retry is another request carrying the *)
(* same Idempotency-Key.  The requests run concurrently, each in a         *)
(* READ COMMITTED transaction of its own, and one action is one statement  *)
(* or one B2B call, so that anything read by one action may be stale when  *)
(* the next one uses it.                                                   *)
(*                                                                         *)
(* Abstracted: a price of B2B is a number of parts of the currency unit,   *)
(* Scale to the unit, and a price the client saw is in whole units; the    *)
(* request hash is the body itself without the buyer (sha256 is taken as   *)
(* injective), titles, addresses and amounts derived from the lines are    *)
(* left out, and B2B is an external stock of reserved lines.  B2B itself   *)
(* only counts units per SKU; the model keeps apart for which line each    *)
(* unit is held, so that a unit that nobody will give back, or that is     *)
(* given back twice, shows.                                                *)
(***************************************************************************)
EXTENDS Integers, Sequences, FiniteSets, FiniteSetsExt

CONSTANTS
    Requests,    \* HTTP requests; a request's id is also the id of its order
    Users, Skus, Keys, Bodies,
    RowIds,      \* ids of cart rows: the bound on rows at one time
    Quantities,  \* quantities a buyer may ask for
    Prices,      \* unit prices B2B may answer with, in parts of the currency unit
    Scale,       \* parts of one currency unit
    UserOf,      \* [Requests -> Users], the X-User-Id header
    KeyOf,       \* [Requests -> Keys], the Idempotency-Key header
    BodyOf,      \* [Requests -> Bodies], the body of the request
    SnapshotOf,  \* [Bodies -> Seq(SnapshotLine)], <<>> when items_snapshot is absent
    Stock,       \* [Skus -> Nat], what B2B has to reserve from
    UniqueRows,  \* TRUE: no two rows of one buyer for one SKU
    MaxFaults,   \* bound on crashes and lost or failed B2B answers
    NoOrder

Row == [id : RowIds, user : Users, sku : Skus, qty : Quantities]
Line == [order : Requests, row : RowIds, sku : Skus, qty : Quantities, price : Prices]
SnapshotLine == [sku : Skus, qty : Nat, price : Nat]
Order == [id : Requests, user : Users, key : Keys, body : Bodies, lines : SUBSET Line]

ASSUME RequestAssumption ==
    /\ UserOf \in [Requests -> Users]
    /\ KeyOf \in [Requests -> Keys]
    /\ BodyOf \in [Requests -> Bodies]
    /\ SnapshotOf \in [Bodies -> Seq(SnapshotLine)]
    /\ NoOrder \notin Requests

ASSUME QuantityAssumption ==
    /\ Quantities \subseteq Nat \ {0}
    /\ Prices \subseteq Nat
    /\ Scale \in Nat \ {0}
    /\ Stock \in [Skus -> Nat]
    /\ UniqueRows \in BOOLEAN
    /\ MaxFaults \in Nat

VARIABLES
    rows,    \* committed rows of cart_items
    orders,  \* committed rows of orders, each with its order_items
    pc,      \* where each request is in checkout()
    cart,    \* cart_items as each request read them
    lines,   \* enriched_items of each request
    refund,  \* entries of the reserve answer still to be released
    reply,   \* the HTTP answer, "none" until there is one
    result,  \* the id of the order in a 201 answer
    held,    \* the lines whose units B2B holds reserved
    lost,    \* history: the lines of held that B2C forgot about
    faults   \* how many faults have happened

vars == <<rows, orders, pc, cart, lines, refund, reply, result, held, lost, faults>>

Steps == {"find", "cart", "enrich", "insert", "conflict", "reserve", "commit",
          "release", "answer", "done"}

Replies == {"none", "201", "EMPTY_CART", "B2B_UNAVAILABLE", "B2B_ERROR",
            "SKU_NOT_FOUND", "NO_VALID_ITEMS", "CART_SNAPSHOT_MISMATCH",
            "IDEMPOTENCY_KEY_REUSED", "RESERVE_FAILED", "DUPLICATE_ENTRY", "crashed"}

TypeOK ==
    /\ rows \subseteq Row
    /\ orders \subseteq Order
    /\ pc \in [Requests -> Steps]
    /\ cart \in [Requests -> SUBSET Row]
    /\ lines \in [Requests -> SUBSET Line]
    /\ refund \in [Requests -> SUBSET Line]
    /\ reply \in [Requests -> Replies]
    /\ result \in [Requests -> Requests \cup {NoOrder}]
    /\ held \subseteq Line
    /\ lost \subseteq Line
    /\ faults \in Nat

-----------------------------------------------------------------------------
(* Helpers                                                                 *)

(* Units of a SKU in a set of lines.                                       *)
Units(ls, s) == MapThenSumSet(LAMBDA l : l.qty, {l \in ls : l.sku = s})

OrdersWithKey(k) == {o \in orders : o.key = k}

(* Mutant: a rolled back checkout keeps its connection and its key.        *)
HoldsKeyLeaked(r) == pc[r] \in {"reserve", "commit"} \/ reply[r] = "RESERVE_FAILED"

(* From the flush of the INSERT to commit or rollback the transaction      *)
(* owns its entry of the unique index on orders.idempotency_key.           *)
HoldsKey(r) == pc[r] \in {"reserve", "commit"}

(* actual = {sku_id: item} keeps one row per SKU, the last the query       *)
(* returned: without an ORDER BY, any of them.                             *)
Collapsed(ls) ==
    {keep \in SUBSET ls : /\ {l.sku : l \in keep} = {l.sku : l \in ls}
                          /\ \A l, m \in keep : l.sku = m.sku => l = m}

(* snapshot = {s.sku_id: s} keeps the last of several lines for one SKU.   *)
LastLines(snapshot) ==
    {snapshot[i] : i \in {i \in DOMAIN snapshot : \A j \in DOMAIN snapshot :
                              j > i => snapshot[j].sku # snapshot[i].sku}}

(* Mutant: int(price), which drops the fraction.                           *)
RoundedDown(price) == price \div Scale

(* int(round(price)): to the nearest whole unit, a half to the even one.   *)
Rounded(price) ==
    LET whole == price \div Scale
        rest == price % Scale
    IN  IF 2 * rest < Scale \/ (2 * rest = Scale /\ whole % 2 = 0) THEN whole ELSE whole + 1

(* items_snapshot has the SKUs, the quantities and the rounded prices of   *)
(* the cart.                                                               *)
Matches(snapshot, actual) ==
    /\ {x.sku : x \in LastLines(snapshot)} = {l.sku : l \in actual}
    /\ \A x \in LastLines(snapshot), l \in actual :
          x.sku = l.sku => x.qty = l.qty /\ x.price = Rounded(l.price)

(* What B2B holds for a request in progress.                               *)
Owed(r) == IF pc[r] = "commit" THEN lines[r] ELSE refund[r]

InFlight == UNION {Owed(r) : r \in Requests}

Ordered == UNION {o.lines : o \in orders}

(* Ids of cart rows that somebody still knows; a new row has a fresh uuid. *)
KnownIds ==
    {w.id : w \in rows \cup UNION {cart[r] : r \in Requests}}
        \cup {l.row : l \in Ordered \cup UNION {lines[r] : r \in Requests}}

-----------------------------------------------------------------------------
Init ==
    /\ rows = {}
    /\ orders = {}
    /\ pc = [r \in Requests |-> "find"]
    /\ cart = [r \in Requests |-> {}]
    /\ lines = [r \in Requests |-> {}]
    /\ refund = [r \in Requests |-> {}]
    /\ reply = [r \in Requests |-> "none"]
    /\ result = [r \in Requests |-> NoOrder]
    /\ held = {}
    /\ lost = {}
    /\ faults = 0

GoTo(r, step) == pc' = [pc EXCEPT ![r] = step] /\ UNCHANGED <<reply, result>>

(* The handler ends with an HTTP answer and its local variables die.       *)
Finish(r, code, id) ==
    /\ pc' = [pc EXCEPT ![r] = "done"]
    /\ reply' = [reply EXCEPT ![r] = code]
    /\ result' = [result EXCEPT ![r] = id]
    /\ cart' = [cart EXCEPT ![r] = {}]
    /\ lines' = [lines EXCEPT ![r] = {}]
    /\ refund' = [refund EXCEPT ![r] = {}]

(* An error answer: get_db rolls the transaction back.                     *)
Refuse(r, code) == Finish(r, code, NoOrder)

(* Mutant: the stored request hash is not compared.                        *)
ReplayAny(r, o) == Finish(r, "201", o.id)

(* _replay_existing_order.                                                 *)
Replay(r, o) ==
    IF o.body = BodyOf[r]
    THEN Finish(r, "201", o.id)
    ELSE Refuse(r, "IDEMPOTENCY_KEY_REUSED")

Fault == faults < MaxFaults /\ faults' = faults + 1

(* Step 1: look the key up among committed orders.                         *)
FindKey(r) ==
    /\ pc[r] = "find"
    /\ \/ OrdersWithKey(KeyOf[r]) = {} /\ GoTo(r, "cart") /\ UNCHANGED <<cart, lines, refund>>
       \/ \E o \in OrdersWithKey(KeyOf[r]) : Replay(r, o)
    /\ UNCHANGED <<rows, orders, held, lost, faults>>

(* Step 2: read the buyer's cart.                                          *)
ReadCart(r) ==
    LET mine == {w \in rows : w.user = UserOf[r]}
    IN  /\ pc[r] = "cart"
        /\ \/ mine = {} /\ Refuse(r, "EMPTY_CART")
           \/ /\ mine # {}
              /\ GoTo(r, "enrich")
              /\ cart' = [cart EXCEPT ![r] = mine]
              /\ UNCHANGED <<lines, refund>>
        /\ UNCHANGED <<rows, orders, held, lost, faults>>

(* enriched_items: the rows that B2B described, at its current prices.     *)
Priced(r, price, blank) ==
    {[order |-> r, row |-> w.id, sku |-> w.sku, qty |-> w.qty, price |-> price[w.sku]] :
        w \in {v \in cart[r] : v.sku \notin blank}}

(* Step 3: the SKUs of the cart are looked up in B2B, which may be out of  *)
(* reach or miss some of them; a row whose SKU comes back empty is skipped *)
(* (blank), the others get the current price, and a snapshot sent by the   *)
(* client is compared with them.                                           *)
Enrich(r) ==
    LET snapshot == SnapshotOf[BodyOf[r]]
        skus == {w.sku : w \in cart[r]}
    IN  /\ pc[r] = "enrich"
        /\ \/ Fault /\ \E code \in {"B2B_UNAVAILABLE", "SKU_NOT_FOUND", "NO_VALID_ITEMS"} :
                         Refuse(r, code)
           \/ \E blank \in (SUBSET skus) \ {skus} :
                /\ IF blank = {} THEN UNCHANGED faults ELSE Fault
                /\ \E price \in [skus -> Prices] : \E actual \in Collapsed(Priced(r, price, blank)) :
                      IF snapshot = <<>> \/ Matches(snapshot, actual)
                      THEN /\ GoTo(r, "insert")
                           /\ lines' = [lines EXCEPT ![r] = Priced(r, price, blank)]
                           /\ UNCHANGED <<cart, refund>>
                      ELSE Refuse(r, "CART_SNAPSHOT_MISMATCH")
        /\ UNCHANGED <<rows, orders, held, lost>>

(* Mutant: the key is only looked up, the flush neither waits nor fails.   *)
InsertOrderNoIndex(r) ==
    /\ pc[r] = "insert"
    /\ GoTo(r, "reserve")
    /\ UNCHANGED <<rows, orders, cart, lines, refund, held, lost, faults>>

(* Mutant: the flush sees committed keys and not those of open transactions. *)
InsertOrderNoWait(r) ==
    /\ pc[r] = "insert"
    /\ GoTo(r, IF OrdersWithKey(KeyOf[r]) = {} THEN "reserve" ELSE "conflict")
    /\ UNCHANGED <<rows, orders, cart, lines, refund, held, lost, faults>>

(* Mutant: a key of an open transaction is refused at once.                *)
InsertOrderRefused(r) ==
    LET taken == \E o \in Requests : KeyOf[o] = KeyOf[r] /\ HoldsKey(o)
    IN  /\ pc[r] = "insert"
        /\ GoTo(r, IF ~taken /\ OrdersWithKey(KeyOf[r]) = {} THEN "reserve" ELSE "conflict")
        /\ UNCHANGED <<rows, orders, cart, lines, refund, held, lost, faults>>

(* Step 4: INSERT with status CREATED and flush.  The unique index makes   *)
(* it wait while another open transaction has the key.                     *)
InsertOrder(r) ==
    /\ pc[r] = "insert"
    /\ \A other \in Requests : KeyOf[other] = KeyOf[r] => ~HoldsKey(other)
    /\ GoTo(r, IF OrdersWithKey(KeyOf[r]) = {} THEN "reserve" ELSE "conflict")
    /\ UNCHANGED <<rows, orders, cart, lines, refund, held, lost, faults>>

(* IntegrityError: roll back, look the winner up and replay its order.     *)
ReplayWinner(r) ==
    /\ pc[r] = "conflict"
    /\ IF OrdersWithKey(KeyOf[r]) = {}
       THEN Refuse(r, "DUPLICATE_ENTRY")
       ELSE \E o \in OrdersWithKey(KeyOf[r]) : Replay(r, o)
    /\ UNCHANGED <<rows, orders, held, lost, faults>>

(* B2B reserves these lines only out of what it still has.                 *)
Fits(ls) == \A s \in Skus : Units(held \cup ls, s) <= Stock[s]

(* Mutant: what a partly failed reserve did reserve is not remembered.     *)
ReserveNoRefund(r) ==
    /\ pc[r] = "reserve"
    /\ \E done \in SUBSET lines[r] :
        /\ Fits(done)
        /\ held' = held \cup done
        /\ GoTo(r, IF done = lines[r] THEN "commit" ELSE "release")
    /\ UNCHANGED <<rows, orders, cart, lines, refund, lost, faults>>

(* Mutant: nobody looks at the failed entries of the answer.               *)
ReserveIgnoresFailed(r) ==
    /\ pc[r] = "reserve"
    /\ \E done \in SUBSET lines[r] : Fits(done) /\ held' = held \cup done
    /\ GoTo(r, "commit")
    /\ UNCHANGED <<rows, orders, cart, lines, refund, lost, faults>>

(* Step 5: the reserve call.  B2B reserves any part of the lines that fits *)
(* and names the rest as failed; a failed answer rolls the order back and  *)
(* leaves the part that was reserved to be released.                       *)
Reserve(r) ==
    /\ pc[r] = "reserve"
    /\ \E done \in SUBSET lines[r] :
        /\ Fits(done)
        /\ held' = held \cup done
        /\ IF done = lines[r]
           THEN GoTo(r, "commit") /\ UNCHANGED refund
           ELSE GoTo(r, "release") /\ refund' = [refund EXCEPT ![r] = done]
    /\ UNCHANGED <<rows, orders, cart, lines, lost, faults>>

(* Step 5 with a B2BClientError, raised before B2B reserved anything or    *)
(* after it had reserved what it could (a timeout): roll back and answer.  *)
ReserveError(r) ==
    /\ pc[r] = "reserve"
    /\ Fault
    /\ \E code \in {"B2B_UNAVAILABLE", "B2B_ERROR"} : Refuse(r, code)
    /\ \E done \in SUBSET lines[r] :
        /\ Fits(done)
        /\ held' = held \cup done
        /\ lost' = lost \cup done
    /\ UNCHANGED <<rows, orders>>

(* _release_reservations: one negative reserve per entry, errors ignored.  *)
Release(r) ==
    /\ pc[r] = "release"
    /\ \E l \in refund[r] :
        /\ refund' = [refund EXCEPT ![r] = @ \ {l}]
        /\ \/ held' = held \ {l} /\ UNCHANGED <<lost, faults>>
           \/ Fault /\ lost' = lost \cup {l} /\ UNCHANGED held
    /\ UNCHANGED <<rows, orders, pc, cart, lines, reply, result>>

ReserveFailed(r) ==
    /\ pc[r] = "release"
    /\ refund[r] = {}
    /\ Refuse(r, "RESERVE_FAILED")
    /\ UNCHANGED <<rows, orders, held, lost, faults>>

(* Mutant: only the rows that are still as they were read are deleted.     *)
CommitOrderAsRead(r) ==
    /\ pc[r] = "commit"
    /\ orders' = orders \cup
        {[id |-> r, user |-> UserOf[r], key |-> KeyOf[r], body |-> BodyOf[r],
          lines |-> lines[r]]}
    /\ rows' = rows \ cart[r]
    /\ GoTo(r, "answer")
    /\ UNCHANGED <<cart, lines, refund, held, lost, faults>>

(* Step 6: PAID, the order's items and the emptied cart in one commit.     *)
CommitOrder(r) ==
    /\ pc[r] = "commit"
    /\ orders' = orders \cup
        {[id |-> r, user |-> UserOf[r], key |-> KeyOf[r], body |-> BodyOf[r],
          lines |-> lines[r]]}
    /\ rows' = {w \in rows : w.user # UserOf[r]}
    /\ GoTo(r, "answer")
    /\ UNCHANGED <<cart, lines, refund, held, lost, faults>>

Answer(r) ==
    /\ pc[r] = "answer"
    /\ Finish(r, "201", r)
    /\ UNCHANGED <<rows, orders, held, lost, faults>>

(* The process dies or the database connection breaks: the transaction is  *)
(* rolled back and nobody undoes what B2B has reserved.                    *)
Crash(r) ==
    /\ pc[r] \notin {"find", "done"}
    /\ Fault
    /\ Refuse(r, "crashed")
    /\ lost' = lost \cup Owed(r)
    /\ UNCHANGED <<rows, orders, held>>

(* Every step of the handler but the commit of an order.                   *)
Handle(r) ==
    \/ FindKey(r) \/ ReadCart(r) \/ Enrich(r) \/ InsertOrder(r) \/ ReplayWinner(r)
    \/ Reserve(r) \/ ReserveError(r) \/ Release(r) \/ ReserveFailed(r) \/ Answer(r)

Step(r) == Handle(r) \/ CommitOrder(r)

-----------------------------------------------------------------------------
(* The buyer edits the cart meanwhile (src/routes/cart.py): what each      *)
(* endpoint commits.  Cart rows read by a request in progress do not       *)
(* change with them.                                                       *)
CartOnly ==
    UNCHANGED <<orders, pc, cart, lines, refund, reply, result, held, lost, faults>>

AddRow ==
    /\ \E w \in Row :
        /\ w.id \notin KnownIds
        /\ UniqueRows => \A v \in rows : <<v.user, v.sku>> # <<w.user, w.sku>>
        /\ rows' = rows \cup {w}
    /\ CartOnly

SetQuantity ==
    /\ \E w \in rows, q \in Quantities :
        rows' = (rows \ {w}) \cup {[w EXCEPT !.qty = q]}
    /\ CartOnly

RemoveRow ==
    /\ \E w \in rows : rows' = rows \ {w}
    /\ CartOnly

EditCart == AddRow \/ SetQuantity \/ RemoveRow

Next ==
    \/ \E r \in Requests : Step(r) \/ Crash(r)
    \/ EditCart

Spec == Init /\ [][Next]_vars

(* A handler that was entered runs on: every statement returns and every   *)
(* B2B call ends, with its answer or with the 10 s timeout of the client.  *)
FairSpec == Spec /\ \A r \in Requests : WF_vars(pc[r] # "find" /\ Step(r))

-----------------------------------------------------------------------------
(* Properties                                                              *)

(* A key never has two orders: a double click or a client retry with the   *)
(* same Idempotency-Key cannot create a duplicate, however the requests    *)
(* interleave, fail and crash (ADR-002).                                   *)
OneOrderPerKey == \A o, p \in orders : o.key = p.key => o = p

(* Requests that stock is held for, beyond what they are giving back.      *)
Holders(k) == {r \in Requests : KeyOf[r] = k /\ \E l \in held \ refund[r] : l.order = r}

(* Stock is held for a key by one request, the one that owns the key or    *)
(* made its order.  Each fault can leave behind at most one request more:  *)
(* a reserve that timed out or a checkout that died is not undone, and the *)
(* next request of the key reserves again.                                 *)
KeyReservesOnce == \A k \in Keys : Cardinality(Holders(k)) <= 1 + faults

(* What the client is told is so: behind a 201 is a committed order of the *)
(* client's key, made from the same body and not empty, and behind an      *)
(* error answer there is no order of that request.                         *)
AnswerIsTrue ==
    \A r \in Requests :
        /\ reply[r] = "201" => \E o \in OrdersWithKey(KeyOf[r]) :
              o.id = result[r] /\ o.body = BodyOf[r] /\ o.lines # {}
        /\ reply[r] \notin {"none", "201", "crashed"} => \A o \in orders : o.id # r

(* The loser of a race on the unique index always finds the winner's       *)
(* order; the re-raise, which main.py turns into 409 DUPLICATE_ENTRY, is   *)
(* never reached.                                                          *)
LoserFindsWinner == \A r \in Requests : reply[r] # "DUPLICATE_ENTRY"

(* What B2B holds is what belongs to a committed order, to a checkout that *)
(* will commit or give it back, or was lost in a crash or an unanswered    *)
(* call, each line once: no reservation is leaked by the compensation, and *)
(* none is released that is not held or that an order lives on.            *)
StockAccounted ==
    /\ held = lost \cup Ordered \cup InFlight
    /\ lost \cap (Ordered \cup InFlight) = {}
    /\ Ordered \cap InFlight = {}

(* Each SKU once, with the quantity the client saw last and a price at     *)
(* most half a unit away from the one it saw.                              *)
AsSeen(snapshot, ls) ==
    /\ {l.sku : l \in ls} = {snapshot[i].sku : i \in DOMAIN snapshot}
    /\ \A l, m \in ls : l.sku = m.sku => l = m
    /\ \A l \in ls, x \in LastLines(snapshot) : x.sku = l.sku =>
          x.qty = l.qty /\ 2 * (Scale * x.price - l.price) \in -Scale .. Scale

(* An order made from a request with a snapshot is what the client saw,    *)
(* whatever happened to the cart and to the prices meanwhile: no SKU more  *)
(* or less, its quantity, and its price but for the rounding to whole      *)
(* units, which the comparison does and the order does not.                *)
SnapshotHonoured ==
    \A o \in orders :
        SnapshotOf[o.body] # <<>> => AsSeen(SnapshotOf[o.body], o.lines)

(* A cart row that was ordered is gone from the cart, whatever the buyer   *)
(* did to it since the checkout read it: of two orders with one row, each  *)
(* checkout had read the cart before the other one committed.              *)
BoughtRowsAreGone ==
    \A o \in orders : \A l \in o.lines : \A w \in rows : w.id # l.row

(* Every request that started is answered: waiting for another request's   *)
(* key, a failed reserve and its compensation all come to an end.          *)
EveryRequestAnswered ==
    \A r \in Requests : pc[r] # "find" ~> pc[r] = "done"

=============================================================================
