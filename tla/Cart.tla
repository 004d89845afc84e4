-------------------------------- MODULE Cart --------------------------------
(***************************************************************************)
(* The cart endpoints (src/routes/cart.py).  A session is a client that    *)
(* sends one request at a time for the cart of its user; several sessions  *)
(* of one user (two tabs, a double click, a client that retries) run       *)
(* concurrently.  Every handler reads rows, decides on what it has read    *)
(* and commits later; nothing in the database keeps two rows of one user   *)
(* from having one SKU.                                                    *)
(*                                                                         *)
(* Abstracted: the HTTP answers (a request that is refused, or fails, ends *)
(* without a write, and what is read again after the commit to answer      *)
(* changes nothing), and B2B, which answers every lookup with any level of *)
(* stock out of Levels.                                                    *)
(***************************************************************************)
EXTENDS Integers, FiniteSetsExt

CONSTANTS
    Sessions, Users, Skus,
    Guests,      \* users whose cart can be merged into another one
    UserOf,      \* [Sessions -> Users]
    Copies,      \* tell rows of one user and SKU apart: the bound on their number
    Quantities,  \* quantities a request may ask for
    Levels,      \* quantity_available as B2B may answer it
    NoSku

ASSUME CartAssumption ==
    /\ UserOf \in [Sessions -> Users]
    /\ Guests \subseteq Users
    /\ Quantities \subseteq Nat \ {0} /\ Quantities # {}
    /\ Levels \subseteq Nat
    /\ NoSku \notin Skus

(* The columns are integers: there is a largest quantity.                  *)
ASSUME LargestQuantity ==
    \E top \in Quantities \cup Levels : \A n \in Quantities \cup Levels : n <= top

VARIABLES
    rows,   \* committed rows of cart_items
    pc,     \* where the request of each session is
    sku,    \* the SKU of the request
    qty,    \* the quantity of the request
    level,  \* the stock B2B answered before the row was read
    seen,   \* the rows of the buyer's own cart the request has loaded
    guest   \* the rows of the guest cart a merge has loaded

vars == <<rows, pc, sku, qty, level, seen, guest>>

(* No quantity is above what B2B once had or a single request asked for.   *)
Allowed == 1 .. Max(Quantities \cup Levels)
Row == [user : Users, sku : Skus, copy : Copies, qty : Allowed]

Steps == {"idle", "add", "insert", "increase", "patch", "remove", "merge", "merging"}

TypeOK ==
    /\ rows \subseteq Row
    /\ pc \in [Sessions -> Steps]
    /\ sku \in [Sessions -> Skus \cup {NoSku}]
    /\ qty \in [Sessions -> Quantities \cup {0}]
    /\ level \in [Sessions -> Levels \cup {0}]
    /\ seen \in [Sessions -> SUBSET Row]
    /\ guest \in [Sessions -> SUBSET Row]

-----------------------------------------------------------------------------
RowsOf(u) == {w \in rows : w.user = u}

RowsFor(u, k) == {w \in rows : w.user = u /\ w.sku = k}

(* The primary key: a uuid.                                                *)
Id(w) == <<w.user, w.sku, w.copy>>

Remembered == rows \cup UNION {seen[s] \cup guest[s] : s \in Sessions}

(* A new row has a key that no row and no session remembers.               *)
Unused(u, k) == {c \in Copies : \A w \in Remembered : Id(w) # <<u, k, c>>}

NewRow(u, k, q) == [user |-> u, sku |-> k, copy |-> CHOOSE c \in Unused(u, k) : TRUE, qty |-> q]

Present(w) == \E v \in rows : Id(v) = Id(w)

(* UPDATE ... WHERE cart_item_id = the row's id.                           *)
Updated(w, q) == {IF Id(v) = Id(w) THEN [v EXCEPT !.qty = q] ELSE v : v \in rows}

Init ==
    /\ rows = {}
    /\ pc = [s \in Sessions |-> "idle"]
    /\ sku = [s \in Sessions |-> NoSku]
    /\ qty = [s \in Sessions |-> 0]
    /\ level = [s \in Sessions |-> 0]
    /\ seen = [s \in Sessions |-> {}]
    /\ guest = [s \in Sessions |-> {}]

GoTo(s, step) == pc' = [pc EXCEPT ![s] = step]

(* The request is answered and its session closed.                         *)
Close(s) ==
    /\ GoTo(s, "idle")
    /\ sku' = [sku EXCEPT ![s] = NoSku]
    /\ qty' = [qty EXCEPT ![s] = 0]
    /\ level' = [level EXCEPT ![s] = 0]
    /\ seen' = [seen EXCEPT ![s] = {}]
    /\ guest' = [guest EXCEPT ![s] = {}]

-----------------------------------------------------------------------------
(* POST /cart/items: B2B knows the SKU, it is active and in stock (any     *)
(* other answer ends the request).                                         *)
AddToCart(s, k, q, n) ==
    /\ pc[s] = "idle"
    /\ n > 0
    /\ GoTo(s, "add")
    /\ sku' = [sku EXCEPT ![s] = k]
    /\ qty' = [qty EXCEPT ![s] = q]
    /\ level' = [level EXCEPT ![s] = n]
    /\ UNCHANGED <<rows, seen, guest>>

(* Mutant: the sum is not compared with the stock.                         *)
FindRowUnchecked(s) ==
    LET mine == RowsFor(UserOf[s], sku[s])
    IN  /\ pc[s] = "add"
        /\ \/ mine = {} /\ GoTo(s, "insert") /\ UNCHANGED seen
           \/ /\ \E w \in mine : mine = {w}
              /\ seen' = [seen EXCEPT ![s] = mine]
              /\ GoTo(s, "increase")
        /\ UNCHANGED <<rows, sku, qty, level, guest>>

(* scalar_one_or_none: two rows for one SKU are an error.  The sum with    *)
(* the row found must be in stock; the quantity of a first row need not.   *)
FindRow(s) ==
    LET mine == RowsFor(UserOf[s], sku[s])
    IN  /\ pc[s] = "add"
        /\ \/ /\ mine = {}
              /\ GoTo(s, "insert")
              /\ UNCHANGED <<sku, qty, level, seen, guest>>
           \/ /\ \E w \in mine : mine = {w} /\ w.qty + qty[s] <= level[s]
              /\ GoTo(s, "increase")
              /\ seen' = [seen EXCEPT ![s] = mine]
              /\ UNCHANGED <<sku, qty, level, guest>>
           \/ /\ mine # {}
              /\ \A w \in mine : mine # {w} \/ w.qty + qty[s] > level[s]
              /\ Close(s)
        /\ UNCHANGED rows

InsertRow(s) ==
    /\ pc[s] = "insert"
    /\ Unused(UserOf[s], sku[s]) # {}
    /\ rows' = rows \cup {NewRow(UserOf[s], sku[s], qty[s])}
    /\ Close(s)

(* The row gets the sum computed from what was read; if it is gone, the    *)
(* UPDATE matches nothing and the request fails.                           *)
IncreaseRow(s) ==
    /\ pc[s] = "increase"
    /\ \E w \in seen[s] : rows' = Updated(w, w.qty + qty[s])
    /\ Close(s)

(* PATCH /cart/items/{sku_id}: the one row of the SKU, then the stock.     *)
UpdateCartItem(s, k, q) ==
    LET mine == RowsFor(UserOf[s], k)
    IN  /\ pc[s] = "idle"
        /\ \E w \in mine : mine = {w}
        /\ GoTo(s, "patch")
        /\ sku' = [sku EXCEPT ![s] = k]
        /\ qty' = [qty EXCEPT ![s] = q]
        /\ seen' = [seen EXCEPT ![s] = mine]
        /\ UNCHANGED <<rows, level, guest>>

(* B2B is out of reach, has lost the SKU or has less than that, or the     *)
(* quantity is written: the UPDATE is left out when the row read had it.   *)
SetQuantity(s, n) ==
    /\ pc[s] = "patch"
    /\ \E w \in seen[s] :
        rows' = IF qty[s] > n \/ qty[s] = w.qty THEN rows ELSE Updated(w, qty[s])
    /\ Close(s)

(* DELETE /cart/items/{sku_id}.                                            *)
RemoveFromCart(s, k) ==
    LET mine == RowsFor(UserOf[s], k)
    IN  /\ pc[s] = "idle"
        /\ \E w \in mine : mine = {w}
        /\ GoTo(s, "remove")
        /\ seen' = [seen EXCEPT ![s] = mine]
        /\ UNCHANGED <<rows, sku, qty, level, guest>>

(* The DELETE by id; a row that is gone already is no error.               *)
DeleteRow(s) ==
    /\ pc[s] = "remove"
    /\ rows' = {v \in rows : \A w \in seen[s] : Id(v) # Id(w)}
    /\ Close(s)

(* DELETE /cart, and the end of a checkout.                                *)
ClearCart(s) ==
    /\ pc[s] = "idle"
    /\ rows' = rows \ RowsOf(UserOf[s])
    /\ UNCHANGED <<pc, sku, qty, level, seen, guest>>

-----------------------------------------------------------------------------
(* POST /cart/merge: the guest's rows, if there are any.                   *)
MergeGuestCart(s, g) ==
    /\ pc[s] = "idle"
    /\ RowsOf(g) # {}
    /\ GoTo(s, "merge")
    /\ guest' = [guest EXCEPT ![s] = RowsOf(g)]
    /\ UNCHANGED <<rows, sku, qty, level, seen>>

(* Mutant: the buyer's own rows are not looked up.                         *)
ReadOwnCartNot(s) ==
    /\ pc[s] = "merge"
    /\ GoTo(s, "merging")
    /\ UNCHANGED <<rows, sku, qty, level, seen, guest>>

ReadOwnCart(s) ==
    /\ pc[s] = "merge"
    /\ GoTo(s, "merging")
    /\ seen' = [seen EXCEPT ![s] = RowsOf(UserOf[s])]
    /\ UNCHANGED <<rows, sku, qty, level, guest>>

(* What a merge brings for a SKU: guest rows of one SKU are merged too.    *)
Brought(s, k) == Max({w.qty : w \in {v \in guest[s] : v.sku = k}})

Coming(s) == {w.sku : w \in guest[s]}

(* Mutant: quantities are added up, so that a second merge counts twice.   *)
MergedAdds(w, s) == w.qty + Brought(s, w.sku)

(* MAX(guest_quantity, auth_quantity).                                     *)
Merged(w, s) == Max({w.qty, Brought(s, w.sku)})

(* auth_lookup keeps one row per SKU, any of them.  Rows whose quantity    *)
(* grows are updated, SKUs that are new are inserted, in one transaction;  *)
(* it fails as a whole if a row to update is gone.                         *)
CommitMerge(s) ==
    /\ pc[s] = "merging"
    /\ \E lookup \in SUBSET {w \in seen[s] : w.sku \in Coming(s)} :
        LET known == {w.sku : w \in lookup}
            new == Coming(s) \ known
            raised == {w \in lookup : Merged(w, s) # w.qty}
        IN  /\ known = {w.sku : w \in seen[s]} \cap Coming(s)
            /\ \A w, v \in lookup : w.sku = v.sku => w = v
            /\ \A k \in new : Unused(UserOf[s], k) # {}
            /\ IF \A w \in raised : Present(w)
               THEN rows' = {v \in rows : \A w \in raised : Id(v) # Id(w)}
                            \cup {[w EXCEPT !.qty = Merged(w, s)] : w \in raised}
                            \cup {NewRow(UserOf[s], k, Brought(s, k)) : k \in new}
               ELSE UNCHANGED rows
    /\ Close(s)

Next ==
    \E s \in Sessions :
        \/ \E k \in Skus, q \in Quantities :
            \/ \E n \in Levels : AddToCart(s, k, q, n)
            \/ UpdateCartItem(s, k, q)
        \/ FindRow(s) \/ InsertRow(s) \/ IncreaseRow(s)
        \/ \E n \in Levels : SetQuantity(s, n)
        \/ \E k \in Skus : RemoveFromCart(s, k)
        \/ DeleteRow(s) \/ ClearCart(s)
        \/ \E g \in Guests : MergeGuestCart(s, g)
        \/ ReadOwnCart(s) \/ CommitMerge(s)

Spec == Init /\ [][Next]_vars

-----------------------------------------------------------------------------
(* Properties                                                              *)

(* A SKU has one row in a cart: adding it again increments the row, and a  *)
(* merge, even one that is repeated, does not duplicate it.                *)
OneRowPerSku ==
    \A w, v \in rows : w.user = v.user /\ w.sku = v.sku => w = v

(* The quantity in a cart with one row per SKU.                            *)
Quantity(ws, k) ==
    IF \E w \in ws : w.sku = k THEN (CHOOSE w \in ws : w.sku = k).qty ELSE 0

OfferedTo(u) == UNION {guest[s] : s \in {t \in Sessions : UserOf[t] = u}}

(* Every request takes effect at one moment, as ShoppingCart promises: no  *)
(* increment is lost, a merge leaves the maximum and repeats harmlessly.   *)
Promise ==
    INSTANCE ShoppingCart WITH
        cart <- [u \in Users |-> [k \in Skus |-> Quantity(RowsOf(u), k)]],
        offer <- [u \in Users |-> [k \in Skus |-> Quantity(OfferedTo(u), k)]]

KeepsPromise == Promise!Spec

=============================================================================
