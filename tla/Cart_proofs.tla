---------------------------- MODULE Cart_proofs ----------------------------
(***************************************************************************)
(* Theorems about Cart when the requests for one cart are sent one at a    *)
(* time, for any number of carts, SKUs and merges.  (Cart's violation runs *)
(* show that nothing of this holds for two tabs.)                          *)
(***************************************************************************)
EXTENDS Cart, WellFoundedInduction, TLAPS

(* Every cart has one client.                                              *)
OneClientEach == \A s, t \in Sessions : UserOf[s] = UserOf[t] => s = t

CartRow == [user : Users, sku : Skus, copy : Copies, qty : Nat \ {0}]

ShapeOK ==
    /\ rows \subseteq CartRow
    /\ pc \in [Sessions -> Steps]
    /\ sku \in [Sessions -> Skus \cup {NoSku}]
    /\ qty \in [Sessions -> Nat]
    /\ level \in [Sessions -> Nat]
    /\ seen \in [Sessions -> SUBSET CartRow]
    /\ guest \in [Sessions -> SUBSET CartRow]

(* One row per SKU in what a merge has read of a guest.                    *)
OnePerSku(ws) == \A w, v \in ws : w.sku = v.sku => w = v

(* What a request has read of its own cart is still so.                    *)
UpToDate(s) ==
    /\ pc[s] \in {"add", "insert", "increase", "patch"} => sku[s] \in Skus /\ qty[s] \in Quantities
    /\ pc[s] = "insert" => RowsFor(UserOf[s], sku[s]) = {}
    /\ pc[s] \in {"increase", "patch", "remove"} =>
          \E w \in rows : w.user = UserOf[s] /\ seen[s] = {w}
    /\ pc[s] \in {"increase", "patch"} => \A w \in seen[s] : w.sku = sku[s]
    /\ pc[s] = "merging" => seen[s] = RowsOf(UserOf[s])
    /\ pc[s] \notin {"merge", "merging"} => guest[s] = {}
    /\ OnePerSku(guest[s])

(* The inductive invariant: OneRowPerSku needs to know that an insert has  *)
(* seen no row, and a merge all of them.                                   *)
CartInv == ShapeOK /\ OneRowPerSku /\ \A s \in Sessions : UpToDate(s)

-----------------------------------------------------------------------------
(* The maximum of one number.                                              *)
LEMMA MaxOne ==
    ASSUME NEW x \in Nat
    PROVE  Max({x}) = x
  BY DEF Max

(* The larger of two numbers.                                              *)
LEMMA MaxTwo ==
    ASSUME NEW x \in Nat, NEW y \in Nat
    PROVE  Max({x, y}) = IF x >= y THEN x ELSE y
<1>1. \E m \in {x, y} : \A z \in {x, y} : m >= z
  OBVIOUS
<1>2. Max({x, y}) \in {x, y} /\ \A z \in {x, y} : Max({x, y}) >= z
  BY <1>1 DEF Max
<1> QED BY <1>2

(* A row of a cart, updated, is a row of that cart.                        *)
LEMMA UpdatedRow ==
    ASSUME NEW v \in CartRow, NEW q \in Nat \ {0}
    PROVE  /\ [v EXCEPT !.qty = q] \in CartRow
           /\ [v EXCEPT !.qty = q].user = v.user
           /\ [v EXCEPT !.qty = q].sku = v.sku
           /\ [v EXCEPT !.qty = q].copy = v.copy
           /\ [v EXCEPT !.qty = q].qty = q
  BY DEF CartRow

(* What a merge brings for a SKU is the quantity of the one guest row.     *)
LEMMA BroughtRow ==
    ASSUME NEW s \in Sessions, guest \in [Sessions -> SUBSET CartRow],
           OnePerSku(guest[s]), NEW w \in guest[s]
    PROVE  Brought(s, w.sku) = w.qty /\ w.qty \in Nat \ {0}
<1>1. {v \in guest[s] : v.sku = w.sku} = {w}
  BY DEF OnePerSku
<1>2. {v.qty : v \in {x \in guest[s] : x.sku = w.sku}} = {w.qty}
  BY <1>1
<1>3. w \in CartRow
  OBVIOUS
<1> QED BY <1>2, <1>3, MaxOne DEF Brought, CartRow

(* A new row has the user, the SKU and the quantity asked for.             *)
LEMMA NewRowShape ==
    ASSUME NEW u \in Users, NEW k \in Skus, NEW q \in Nat \ {0}, Unused(u, k) # {}
    PROVE  /\ NewRow(u, k, q) \in CartRow
           /\ NewRow(u, k, q).user = u
           /\ NewRow(u, k, q).sku = k
           /\ NewRow(u, k, q).qty = q
<1>1. (CHOOSE c \in Unused(u, k) : TRUE) \in Copies
  BY DEF Unused
<1> QED BY <1>1 DEF NewRow, CartRow

-----------------------------------------------------------------------------
(* A step of a session touches its own locals and its own user's rows.     *)
Foreign(s) ==
    /\ \A t \in Sessions \ {s} :
          /\ pc'[t] = pc[t] /\ sku'[t] = sku[t] /\ qty'[t] = qty[t]
          /\ seen'[t] = seen[t] /\ guest'[t] = guest[t]
    /\ \A u \in Users : u # UserOf[s] => RowsOf(u)' = RowsOf(u)

(* What a session knows of its cart survives the steps of the others.      *)
LEMMA OthersStayUpToDate ==
    ASSUME CartInv, OneClientEach, NEW s \in Sessions, NEW t \in Sessions, t # s,
           Foreign(s)
    PROVE  UpToDate(t)'
<1>1. UserOf[t] \in Users /\ UserOf[t] # UserOf[s]
  BY CartAssumption DEF OneClientEach
<1>2. RowsOf(UserOf[t])' = RowsOf(UserOf[t])
  BY <1>1 DEF Foreign
<1>3. \A k : RowsFor(UserOf[t], k)' = RowsFor(UserOf[t], k)
  <2>1. \A k : RowsFor(UserOf[t], k) = {w \in RowsOf(UserOf[t]) : w.sku = k}
    BY DEF RowsFor, RowsOf
  <2>2. \A k : RowsFor(UserOf[t], k)' = {w \in RowsOf(UserOf[t])' : w.sku = k}
    BY DEF RowsFor, RowsOf
  <2> QED BY <2>1, <2>2, <1>2
<1>4. \A w : w \in rows /\ w.user = UserOf[t] <=> w \in rows' /\ w.user = UserOf[t]
  BY <1>2 DEF RowsOf
<1>5. /\ pc'[t] = pc[t] /\ sku'[t] = sku[t] /\ qty'[t] = qty[t]
      /\ seen'[t] = seen[t] /\ guest'[t] = guest[t]
  BY DEF Foreign
<1> QED BY <1>2, <1>3, <1>4, <1>5 DEF CartInv, UpToDate, OnePerSku

(* A session that is closed has nothing to be up to date about.            *)
LEMMA ClosedSession ==
    ASSUME ShapeOK, NEW s \in Sessions, Close(s)
    PROVE  /\ pc' \in [Sessions -> Steps]
           /\ sku' \in [Sessions -> Skus \cup {NoSku}]
           /\ qty' \in [Sessions -> Nat]
           /\ level' \in [Sessions -> Nat]
           /\ seen' \in [Sessions -> SUBSET CartRow]
           /\ guest' \in [Sessions -> SUBSET CartRow]
           /\ UpToDate(s)'
           /\ \A t \in Sessions \ {s} :
                 /\ pc'[t] = pc[t] /\ sku'[t] = sku[t] /\ qty'[t] = qty[t]
                 /\ seen'[t] = seen[t] /\ guest'[t] = guest[t]
  BY DEF ShapeOK, Close, GoTo, Steps, UpToDate, OnePerSku

(* An UPDATE by id changes the quantity of one row of its cart.            *)
LEMMA UpdateStep ==
    ASSUME rows \subseteq CartRow, OneRowPerSku, NEW w \in rows, NEW q \in Nat \ {0},
           rows' = Updated(w, q)
    PROVE  /\ rows' \subseteq CartRow
           /\ OneRowPerSku'
           /\ \A u : u # w.user => RowsOf(u)' = RowsOf(u)
           /\ rows' = (rows \ {w}) \cup {[w EXCEPT !.qty = q]}
<1>1. \A v \in rows : Id(v) = Id(w) <=> v = w
  BY DEF Id, OneRowPerSku
<1>2. rows' = (rows \ {w}) \cup {[w EXCEPT !.qty = q]}
  BY <1>1 DEF Updated
<1> DEFINE new == [w EXCEPT !.qty = q]
<1>3. new \in CartRow /\ new.user = w.user /\ new.sku = w.sku
  BY UpdatedRow
<1> HIDE DEF new
<1>4. rows' = (rows \ {w}) \cup {new}
  BY <1>2 DEF new
<1>5. OneRowPerSku'
  BY <1>3, <1>4 DEF OneRowPerSku
<1>6. \A u : u # w.user => RowsOf(u)' = RowsOf(u)
  BY <1>3, <1>4 DEF RowsOf
<1> QED BY <1>2, <1>3, <1>4, <1>5, <1>6

(* One step of a session keeps the invariant for its own cart.             *)
CartStep(s) == ShapeOK' /\ OneRowPerSku' /\ UpToDate(s)' /\ Foreign(s)

(* An add begins: nothing of the cart has been read yet.                   *)
LEMMA AddStep ==
    ASSUME CartInv, NEW s \in Sessions, NEW k \in Skus, NEW q \in Quantities, NEW n \in Levels, AddToCart(s, k, q, n)
    PROVE  CartStep(s) /\ UNCHANGED rows
  BY CartAssumption DEF CartInv, AddToCart, GoTo, CartStep, ShapeOK, Steps, OneRowPerSku, UpToDate, OnePerSku, Foreign, RowsOf

(* An add reads: no row, or the one row of the SKU, or it ends.            *)
LEMMA FindStep ==
    ASSUME CartInv, NEW s \in Sessions, FindRow(s)
    PROVE  CartStep(s) /\ UNCHANGED rows
<1> USE CartAssumption DEF CartInv
<1>1. CASE Close(s)
  BY <1>1, ClosedSession DEF FindRow, CartStep, ShapeOK, OneRowPerSku, Foreign, RowsOf
<1>2. CASE RowsFor(UserOf[s], sku[s]) = {} /\ GoTo(s, "insert") /\ UNCHANGED <<sku, qty, level, seen, guest>>
  BY <1>2 DEF FindRow, GoTo, CartStep, ShapeOK, Steps, OneRowPerSku, UpToDate, OnePerSku, Foreign, RowsOf, RowsFor
<1>3. CASE /\ \E w \in RowsFor(UserOf[s], sku[s]) : RowsFor(UserOf[s], sku[s]) = {w}
           /\ GoTo(s, "increase")
           /\ seen' = [seen EXCEPT ![s] = RowsFor(UserOf[s], sku[s])]
           /\ UNCHANGED <<sku, qty, level, guest>>
  <2>1. PICK w \in rows : w.user = UserOf[s] /\ w.sku = sku[s] /\ seen' = [seen EXCEPT ![s] = {w}]
    BY <1>3 DEF RowsFor
  <2> QED BY <1>3, <2>1 DEF FindRow, GoTo, CartStep, ShapeOK, Steps, OneRowPerSku, UpToDate, OnePerSku, Foreign, RowsOf
<1> QED BY <1>1, <1>2, <1>3 DEF FindRow

(* A patch reads the one row of the SKU.                                   *)
LEMMA PatchStep ==
    ASSUME CartInv, NEW s \in Sessions, NEW k \in Skus, NEW q \in Quantities, UpdateCartItem(s, k, q)
    PROVE  CartStep(s) /\ UNCHANGED rows
<1> USE CartAssumption DEF CartInv
<1>1. PICK w \in rows : w.user = UserOf[s] /\ w.sku = k /\ seen' = [seen EXCEPT ![s] = {w}]
  BY DEF RowsFor, UpdateCartItem
<1>2. ShapeOK' /\ Foreign(s)
  BY <1>1 DEF UpdateCartItem, GoTo, ShapeOK, Steps, Foreign, RowsOf
<1>3. UpToDate(s)'
  BY <1>1 DEF UpdateCartItem, GoTo, ShapeOK, Steps, UpToDate, OnePerSku
<1>4. OneRowPerSku' /\ UNCHANGED rows
  BY DEF UpdateCartItem, OneRowPerSku
<1> QED BY <1>2, <1>3, <1>4 DEF CartStep

(* A removal reads the one row of the SKU.                                 *)
LEMMA RemoveStep ==
    ASSUME CartInv, NEW s \in Sessions, NEW k \in Skus, RemoveFromCart(s, k)
    PROVE  CartStep(s) /\ UNCHANGED rows
<1> USE CartAssumption DEF CartInv
<1>1. PICK w \in rows : w.user = UserOf[s] /\ w.sku = k /\ seen' = [seen EXCEPT ![s] = {w}]
  BY DEF RowsFor, RemoveFromCart
<1>2. ShapeOK' /\ Foreign(s)
  BY <1>1 DEF RemoveFromCart, GoTo, ShapeOK, Steps, Foreign, RowsOf
<1>3. UpToDate(s)'
  BY <1>1 DEF RemoveFromCart, GoTo, ShapeOK, Steps, UpToDate, OnePerSku
<1>4. OneRowPerSku' /\ UNCHANGED rows
  BY DEF RemoveFromCart, OneRowPerSku
<1> QED BY <1>2, <1>3, <1>4 DEF CartStep

(* A merge reads the guest's cart, which has one row per SKU.              *)
LEMMA OfferStep ==
    ASSUME CartInv, NEW s \in Sessions, NEW g \in Guests, MergeGuestCart(s, g)
    PROVE  CartStep(s) /\ UNCHANGED rows
<1> USE CartAssumption DEF CartInv
<1>1. OnePerSku(RowsOf(g))
  BY DEF OneRowPerSku, OnePerSku, RowsOf
<1> QED BY <1>1 DEF MergeGuestCart, GoTo, CartStep, ShapeOK, Steps, OneRowPerSku, UpToDate, OnePerSku, Foreign, RowsOf

(* A merge reads the buyer's own cart, all of it.                          *)
LEMMA ReadStep ==
    ASSUME CartInv, NEW s \in Sessions, ReadOwnCart(s)
    PROVE  CartStep(s) /\ UNCHANGED rows
  BY CartAssumption DEF CartInv, ReadOwnCart, GoTo, CartStep, ShapeOK, Steps, OneRowPerSku, UpToDate, OnePerSku, Foreign, RowsOf

(* The steps that write one row, or delete.                                *)
LEMMA WriteStep ==
    ASSUME CartInv, NEW s \in Sessions,
           \/ InsertRow(s) \/ IncreaseRow(s) \/ (\E n \in Levels : SetQuantity(s, n))
           \/ DeleteRow(s) \/ ClearCart(s)
    PROVE  CartStep(s)
<1> USE CartAssumption DEF CartInv
<1> DEFINE u == UserOf[s]
<1>0. u \in Users
  OBVIOUS
<1>1. ASSUME InsertRow(s) PROVE CartStep(s)
  <2> DEFINE new == NewRow(u, sku[s], qty[s])
  <2>1. RowsFor(u, sku[s]) = {} /\ sku[s] \in Skus /\ qty[s] \in Nat \ {0}
    BY <1>1 DEF InsertRow, UpToDate, ShapeOK
  <2>2. new \in CartRow /\ new.user = u /\ new.sku = sku[s]
    BY <1>1, <2>1, <1>0, NewRowShape DEF InsertRow
  <2>3. rows' = rows \cup {new} /\ Close(s)
    BY <1>1 DEF InsertRow
  <2> HIDE DEF new
  <2>4. OneRowPerSku'
    BY <2>1, <2>2, <2>3 DEF OneRowPerSku, RowsFor
  <2>5. \A x \in Users : x # u => RowsOf(x)' = RowsOf(x)
    BY <2>2, <2>3 DEF RowsOf
  <2> QED BY <2>2, <2>3, <2>4, <2>5, ClosedSession DEF CartStep, ShapeOK, Foreign
<1>2. ASSUME NEW w \in rows, w.user = u, NEW q \in Nat \ {0}, rows' = Updated(w, q), Close(s)
      PROVE  CartStep(s)
  <2>1. /\ rows' \subseteq CartRow /\ OneRowPerSku'
        /\ \A x : x # u => RowsOf(x)' = RowsOf(x)
    BY <1>2, UpdateStep DEF ShapeOK
  <2> QED BY <1>2, <2>1, ClosedSession DEF CartStep, ShapeOK, Foreign
<1>3. CASE IncreaseRow(s)
  <2>1. PICK w \in rows : w.user = u /\ seen[s] = {w}
    BY <1>3 DEF IncreaseRow, UpToDate
  <2>2. w.qty + qty[s] \in Nat \ {0}
    BY <1>3 DEF IncreaseRow, ShapeOK, CartRow
  <2> QED BY <1>2, <1>3, <2>1, <2>2 DEF IncreaseRow
<1>4. ASSUME NEW n \in Levels, SetQuantity(s, n) PROVE CartStep(s)
  <2>1. PICK w \in rows : w.user = u /\ seen[s] = {w}
    BY <1>4 DEF SetQuantity, UpToDate
  <2>2. qty[s] \in Nat \ {0}
    BY <1>4 DEF SetQuantity, UpToDate, ShapeOK
  <2>3. CASE rows' = rows
    BY <1>4, <2>3, ClosedSession DEF SetQuantity, CartStep, ShapeOK, OneRowPerSku, Foreign, RowsOf
  <2>4. CASE rows' = Updated(w, qty[s])
    BY <1>2, <1>4, <2>1, <2>2, <2>4 DEF SetQuantity
  <2> QED BY <1>4, <2>1, <2>3, <2>4 DEF SetQuantity
<1>5. CASE DeleteRow(s)
  <2>1. PICK w \in rows : w.user = u /\ seen[s] = {w}
    BY <1>5 DEF DeleteRow, UpToDate
  <2>2. rows' = {v \in rows : Id(v) # Id(w)}
    BY <1>5, <2>1 DEF DeleteRow
  <2>3. \A v \in rows : v.user # u => Id(v) # Id(w)
    BY <2>1 DEF Id
  <2> QED BY <1>5, <2>2, <2>3, ClosedSession DEF DeleteRow, CartStep, ShapeOK, OneRowPerSku, Foreign, RowsOf
<1>6. CASE ClearCart(s)
  BY <1>6 DEF ClearCart, CartStep, ShapeOK, OneRowPerSku, UpToDate, Foreign, RowsOf, RowsFor
<1> QED BY <1>1, <1>3, <1>4, <1>5, <1>6

(* A merge, seen from what it does to the rows: those it does not touch    *)
(* stay, and for every SKU of the guest the buyer has one row with the     *)
(* maximum.                                                                *)
MergeEffect(s) ==
    /\ rows' \subseteq CartRow
    /\ OneRowPerSku'
    /\ Close(s)
    /\ \A v \in rows : v.user # UserOf[s] \/ v.sku \notin Coming(s) => v \in rows'
    /\ \A v \in rows' : v.user # UserOf[s] \/ v.sku \notin Coming(s) => v \in rows
    /\ \A k \in Coming(s) : \E v \in rows' :
          /\ v.user = UserOf[s] /\ v.sku = k
          /\ v.qty = IF RowsFor(UserOf[s], k) = {} THEN Brought(s, k)
                     ELSE Merged(CHOOSE w \in RowsFor(UserOf[s], k) : TRUE, s)

(* That is what CommitMerge does, whichever lookup it builds.              *)
LEMMA MergeStep ==
    ASSUME CartInv, NEW s \in Sessions, CommitMerge(s)
    PROVE  MergeEffect(s)
<1> USE CartAssumption DEF CartInv
<1> DEFINE u == UserOf[s]
<1>0. u \in Users
  OBVIOUS
<1>1. seen[s] = RowsOf(u) /\ OnePerSku(guest[s])
  BY DEF CommitMerge, UpToDate
<1>2. PICK lookup \in SUBSET {w \in seen[s] : w.sku \in Coming(s)} :
        LET known == {w.sku : w \in lookup}
            new == Coming(s) \ known
            raised == {w \in lookup : Merged(w, s) # w.qty}
        IN  /\ known = {w.sku : w \in seen[s]} \cap Coming(s)
            /\ \A k \in new : Unused(UserOf[s], k) # {}
            /\ IF \A w \in raised : Present(w)
               THEN rows' = {v \in rows : \A w \in raised : Id(v) # Id(w)}
                            \cup {[w EXCEPT !.qty = Merged(w, s)] : w \in raised}
                            \cup {NewRow(UserOf[s], k, Brought(s, k)) : k \in new}
               ELSE UNCHANGED rows
  BY DEF CommitMerge
<1> DEFINE known == {w.sku : w \in lookup}
           new == Coming(s) \ known
           raised == {w \in lookup : Merged(w, s) # w.qty}
           kept == {v \in rows : \A w \in raised : Id(v) # Id(w)}
           Raise(w) == [w EXCEPT !.qty = Merged(w, s)]
           Insert(k) == NewRow(u, k, Brought(s, k))
<1>3. lookup \subseteq rows /\ \A w \in lookup : w.user = u /\ w.sku \in Coming(s)
  BY <1>1, <1>2 DEF RowsOf
<1>4. lookup = {w \in RowsOf(u) : w.sku \in Coming(s)}
  BY <1>1, <1>2, <1>3 DEF RowsOf, OneRowPerSku
<1>5. \A w \in raised : Present(w)
  BY <1>3 DEF Present
<1>6. /\ rows' = kept \cup {Raise(w) : w \in raised} \cup {Insert(k) : k \in new}
      /\ \A k \in new : Unused(u, k) # {}
  BY <1>2, <1>5
<1>7. \A k \in Coming(s) : Brought(s, k) \in Nat \ {0} /\ k \in Skus
  <2> SUFFICES ASSUME NEW g \in guest[s]
               PROVE  Brought(s, g.sku) \in Nat \ {0} /\ g.sku \in Skus
    BY DEF Coming
  <2>1. Brought(s, g.sku) = g.qty /\ g.qty \in Nat \ {0}
    BY <1>1, BroughtRow DEF ShapeOK
  <2> QED BY <2>1 DEF ShapeOK, CartRow
<1>8. \A w \in lookup : Merged(w, s) \in Nat \ {0}
  <2> SUFFICES ASSUME NEW w \in lookup PROVE Merged(w, s) \in Nat \ {0}
    OBVIOUS
  <2>1. w.qty \in Nat \ {0} /\ Brought(s, w.sku) \in Nat \ {0}
    BY <1>3, <1>7 DEF ShapeOK, CartRow
  <2> QED BY <2>1, MaxTwo DEF Merged
<1>9. \A w \in raised : /\ Raise(w) \in CartRow /\ Raise(w).user = u
                        /\ Raise(w).sku = w.sku /\ Raise(w).qty = Merged(w, s)
  BY <1>3, <1>8, UpdatedRow DEF ShapeOK
<1>10. \A k \in new : /\ Insert(k) \in CartRow /\ Insert(k).user = u
                      /\ Insert(k).sku = k /\ Insert(k).qty = Brought(s, k)
  BY <1>0, <1>6, <1>7, NewRowShape
<1>11. kept = rows \ raised
  BY <1>3 DEF Id, OneRowPerSku
<1>12. \A k \in new : \A v \in rows : v.user = u => v.sku # k
  BY <1>4 DEF RowsOf
<1> HIDE DEF known, Raise, Insert, kept
<1>13. rows' \subseteq CartRow
  BY <1>6, <1>9, <1>10, <1>11 DEF ShapeOK
<1>14. OneRowPerSku'
  <2> SUFFICES ASSUME NEW x \in rows', NEW y \in rows', x.user = y.user, x.sku = y.sku
               PROVE  x = y
    BY DEF OneRowPerSku
  <2>1. CASE x \in kept /\ y \in kept
    BY <2>1, <1>11 DEF OneRowPerSku
  <2>2. ASSUME NEW w \in raised, NEW v \in kept, v.user = u PROVE v.sku # w.sku
    BY <2>2, <1>3, <1>11 DEF OneRowPerSku
  <2>3. ASSUME NEW w \in raised, NEW v \in raised, w.sku = v.sku PROVE w = v
    BY <2>3, <1>3 DEF OneRowPerSku
  <2>4. ASSUME NEW w \in raised, NEW k \in new PROVE w.sku # k
    BY <1>3, <1>12
  <2>5. ASSUME NEW v \in kept, v.user = u, NEW k \in new PROVE v.sku # k
    BY <2>5, <1>11, <1>12
  <2> QED BY <1>6, <1>9, <1>10, <2>1, <2>2, <2>3, <2>4, <2>5
<1>15. \A v \in rows : v.user # u \/ v.sku \notin Coming(s) => v \in rows'
  BY <1>3, <1>6, <1>11
<1>16. \A v \in rows' : v.user # u \/ v.sku \notin Coming(s) => v \in rows
  BY <1>3, <1>6, <1>9, <1>10, <1>11
<1>17. ASSUME NEW k \in Coming(s)
       PROVE  \E v \in rows' : /\ v.user = u /\ v.sku = k
                               /\ v.qty = IF RowsFor(u, k) = {} THEN Brought(s, k)
                                          ELSE Merged(CHOOSE w \in RowsFor(u, k) : TRUE, s)
  <2>1. CASE RowsFor(u, k) = {}
    <3>1. k \in new
      BY <2>1, <1>3 DEF RowsFor, known
    <3>2. Insert(k) \in rows'
      BY <3>1, <1>6
    <3> QED BY <2>1, <3>1, <3>2, <1>10
  <2>2. CASE RowsFor(u, k) # {}
    <3>1. PICK w \in rows : w.user = u /\ w.sku = k
      BY <2>2 DEF RowsFor
    <3>2. RowsFor(u, k) = {w}
      BY <3>1 DEF RowsFor, OneRowPerSku
    <3>3. (CHOOSE x \in RowsFor(u, k) : TRUE) = w
      BY <3>2
    <3>4. w \in lookup
      BY <3>1, <1>4 DEF RowsOf
    <3>5. CASE w \in raised
      <4>1. Raise(w) \in rows'
        BY <3>5, <1>6
      <4> QED BY <4>1, <3>1, <3>2, <3>3, <3>5, <1>9
    <3>6. CASE w \notin raised
      <4>1. w \in rows' /\ w.qty = Merged(w, s)
        BY <3>4, <3>6, <1>6, <1>11
      <4> QED BY <4>1, <3>1, <3>2, <3>3
    <3> QED BY <3>5, <3>6
  <2> QED BY <2>1, <2>2
<1> QED BY <1>13, <1>14, <1>15, <1>16, <1>17 DEF MergeEffect, CommitMerge

(* A merge keeps the invariant for its own cart.                           *)
LEMMA MergeCartStep ==
    ASSUME CartInv, NEW s \in Sessions, CommitMerge(s)
    PROVE  CartStep(s)
<1>1. MergeEffect(s)
  BY MergeStep
<1>2. \A u \in Users : u # UserOf[s] => RowsOf(u)' = RowsOf(u)
  BY <1>1 DEF MergeEffect, RowsOf
<1> QED BY <1>1, <1>2, ClosedSession DEF MergeEffect, CartInv, CartStep, ShapeOK, Foreign

(* Every step of Next is a step of one session on its own cart.            *)
LEMMA NextIsCartStep ==
    ASSUME CartInv, Next
    PROVE  \E s \in Sessions : CartStep(s)
<1>1. PICK s \in Sessions :
        \/ \E k \in Skus, q \in Quantities :
            \/ \E n \in Levels : AddToCart(s, k, q, n)
            \/ UpdateCartItem(s, k, q)
        \/ FindRow(s) \/ InsertRow(s) \/ IncreaseRow(s)
        \/ \E n \in Levels : SetQuantity(s, n)
        \/ \E k \in Skus : RemoveFromCart(s, k)
        \/ DeleteRow(s) \/ ClearCart(s)
        \/ \E g \in Guests : MergeGuestCart(s, g)
        \/ ReadOwnCart(s) \/ CommitMerge(s)
  BY DEF Next
<1>2. CASE \E k \in Skus, q \in Quantities, n \in Levels : AddToCart(s, k, q, n)
  BY <1>2, AddStep DEF CartInv
<1>3. CASE \E k \in Skus, q \in Quantities : UpdateCartItem(s, k, q)
  BY <1>3, PatchStep
<1>4. CASE FindRow(s)
  BY <1>4, FindStep
<1>5. CASE InsertRow(s) \/ IncreaseRow(s) \/ DeleteRow(s) \/ ClearCart(s)
  BY <1>5, WriteStep
<1>6. CASE \E n \in Levels : SetQuantity(s, n)
  BY <1>6, WriteStep
<1>7. CASE \E k \in Skus : RemoveFromCart(s, k)
  BY <1>7, RemoveStep
<1>8. CASE \E g \in Guests : MergeGuestCart(s, g)
  BY <1>8, OfferStep
<1>9. CASE ReadOwnCart(s)
  BY <1>9, ReadStep
<1>10. CASE CommitMerge(s)
  BY <1>10, MergeCartStep
<1> QED BY <1>1, <1>2, <1>3, <1>4, <1>5, <1>6, <1>7, <1>8, <1>9, <1>10

(* The inductive step: the session that moves, and those that do not.      *)
LEMMA CartInvStep ==
    ASSUME OneClientEach, CartInv, [Next]_vars
    PROVE  CartInv'
<1>1. CASE Next
  <2>1. PICK s \in Sessions : CartStep(s)
    BY <1>1, NextIsCartStep
  <2>2. \A t \in Sessions : UpToDate(t)'
    BY <2>1, OthersStayUpToDate DEF CartStep
  <2> QED BY <2>1, <2>2 DEF CartStep, CartInv
<1>2. CASE UNCHANGED vars
  BY <1>2 DEF vars, CartInv, ShapeOK, OneRowPerSku, UpToDate, OnePerSku, RowsFor, RowsOf
<1> QED BY <1>1, <1>2

(* Nothing has been read and there are no rows.                            *)
LEMMA CartInvInit == Init => CartInv
  BY CartAssumption DEF Init, CartInv, ShapeOK, Steps, OneRowPerSku, UpToDate, OnePerSku

(* The invariant holds in every reachable state.                           *)
LEMMA CartInvariant ==
    ASSUME OneClientEach
    PROVE  Spec => []CartInv
<1>1. CartInv /\ [Next]_vars => CartInv'
  BY CartInvStep
<1> QED BY <1>1, CartInvInit, PTL DEF Spec

(* When the requests for a cart are sent one at a time, a SKU has one row  *)
(* in it, whatever is added, merged and repeated.                          *)
THEOREM CartHasOneRowPerSku ==
    ASSUME OneClientEach
    PROVE  Spec => []OneRowPerSku
<1>1. CartInv => OneRowPerSku
  BY DEF CartInv
<1> QED BY <1>1, CartInvariant, PTL

-----------------------------------------------------------------------------
(* The refinement of ShoppingCart: the quantities of a cart and of what a  *)
(* merge has been offered.                                                 *)
Carts == [u \in Users |-> [k \in Skus |-> Quantity(RowsOf(u), k)]]

Offers == [u \in Users |-> [k \in Skus |-> Quantity(OfferedTo(u), k)]]

(* The quantity of a SKU that has one row is that of the row.              *)
LEMMA QuantityOf ==
    ASSUME NEW ws, OnePerSku(ws), NEW w \in ws
    PROVE  Quantity(ws, w.sku) = w.qty
<1>1. (CHOOSE v \in ws : v.sku = w.sku) = w
  BY DEF OnePerSku
<1> QED BY <1>1 DEF Quantity

(* The quantity of a SKU depends on its rows only.                         *)
LEMMA QuantitySame ==
    ASSUME NEW ws, NEW vs, OnePerSku(ws), OnePerSku(vs), NEW k,
           \A w : w \in ws /\ w.sku = k <=> w \in vs /\ w.sku = k
    PROVE  Quantity(ws, k) = Quantity(vs, k)
<1>1. CASE \E w \in ws : w.sku = k
  <2>1. PICK w \in ws : w.sku = k
    BY <1>1
  <2> QED BY <2>1, QuantityOf
<1>2. CASE ~ \E w \in ws : w.sku = k
  BY <1>2 DEF Quantity
<1> QED BY <1>1, <1>2

(* A buyer with one client has been offered what that client has read.     *)
LEMMA OfferedOwn ==
    ASSUME OneClientEach, NEW s \in Sessions
    PROVE  OfferedTo(UserOf[s]) = guest[s] /\ OfferedTo(UserOf[s])' = guest'[s]
<1>1. {t \in Sessions : UserOf[t] = UserOf[s]} = {s}
  BY DEF OneClientEach
<1>2. {guest[t] : t \in {s}} = {guest[s]} /\ {guest'[t] : t \in {s}} = {guest'[s]}
  OBVIOUS
<1> QED BY <1>1, <1>2 DEF OfferedTo

(* A step that leaves the rows as they are leaves the carts as they are.   *)
LEMMA CartsSame ==
    ASSUME UNCHANGED rows
    PROVE  Carts' = Carts
  BY DEF Carts, RowsOf, Quantity

(* A step that leaves what merges have read leaves the offers.             *)
LEMMA OffersSame ==
    ASSUME UNCHANGED guest
    PROVE  Offers' = Offers
  BY DEF Offers, OfferedTo, Quantity

(* A step that changes one cart.                                           *)
LEMMA CartChanged ==
    ASSUME NEW s \in Sessions, Foreign(s), NEW f,
           \A k \in Skus : Quantity(RowsOf(UserOf[s]), k)' = f[k],
           f = [k \in Skus |-> f[k]]
    PROVE  Carts' = [Carts EXCEPT ![UserOf[s]] = f]
<1>1. UserOf[s] \in Users
  BY CartAssumption
<1>2. [k \in Skus |-> Quantity(RowsOf(UserOf[s]), k)'] = f
  OBVIOUS
<1>3. ASSUME NEW u \in Users, u # UserOf[s]
      PROVE  [k \in Skus |-> Quantity(RowsOf(u), k)'] = [k \in Skus |-> Quantity(RowsOf(u), k)]
  <2>1. RowsOf(u)' = RowsOf(u)
    BY <1>3 DEF Foreign
  <2> QED BY <2>1 DEF Quantity
<1> QED BY <1>1, <1>2, <1>3 DEF Carts

(* A step that changes one SKU of one cart.                                *)
LEMMA OneSkuChanged ==
    ASSUME CartInv, OneRowPerSku', NEW s \in Sessions, Foreign(s), NEW k \in Skus,
           \A w : w.sku # k => (w \in RowsOf(UserOf[s]) <=> w \in RowsOf(UserOf[s])')
    PROVE  Carts' = [Carts EXCEPT ![UserOf[s]][k] = Quantity(RowsOf(UserOf[s]), k)']
<1> DEFINE u == UserOf[s]
           f == [Carts[u] EXCEPT ![k] = Quantity(RowsOf(u), k)']
<1>1. u \in Users
  BY CartAssumption
<1>2. OnePerSku(RowsOf(u)) /\ OnePerSku(RowsOf(u)')
  BY DEF CartInv, OneRowPerSku, OnePerSku, RowsOf
<1>3. ASSUME NEW j \in Skus, j # k
      PROVE  Quantity(RowsOf(u), j)' = Quantity(RowsOf(u), j)
  <2>1. Quantity(RowsOf(u)', j) = Quantity(RowsOf(u), j)
    BY <1>2, <1>3, QuantitySame
  <2> QED BY <2>1 DEF Quantity
<1>4. Carts[u] = [j \in Skus |-> Quantity(RowsOf(u), j)]
  BY <1>1 DEF Carts
<1>5. \A j \in Skus : Quantity(RowsOf(u), j)' = f[j]
  BY <1>3, <1>4
<1>6. f = [j \in Skus |-> f[j]]
  BY <1>4
<1> HIDE DEF f
<1>7. Carts' = [Carts EXCEPT ![u] = f]
  BY <1>5, <1>6, CartChanged
<1> QED BY <1>7 DEF f

(* A request that is not a merge withdraws no offer when it ends.          *)
LEMMA OffersKept ==
    ASSUME CartInv, NEW s \in Sessions, Close(s), pc[s] \notin {"merge", "merging"}
    PROVE  Offers' = Offers
<1>1. guest[s] = {} /\ guest \in [Sessions -> SUBSET CartRow]
  BY DEF CartInv, UpToDate, ShapeOK
<1>2. UNCHANGED guest
  BY <1>1 DEF Close
<1> QED BY <1>2, OffersSame

(* A first row is an Add to a quantity of 0.                               *)
LEMMA InsertKeepsPromise ==
    ASSUME CartInv, NEW s \in Sessions, InsertRow(s)
    PROVE  Promise!Next
<1> DEFINE u == UserOf[s]
<1>0. PICK k \in Skus, q \in Quantities : sku[s] = k /\ qty[s] = q
  BY DEF CartInv, InsertRow, UpToDate
<1>1. u \in Users /\ q \in Nat \ {0} /\ RowsFor(u, k) = {} /\ Unused(u, k) # {}
  BY <1>0, CartAssumption DEF CartInv, InsertRow, UpToDate
<1>2. PICK new \in CartRow : /\ new.user = u /\ new.sku = k /\ new.qty = q
                             /\ rows' = rows \cup {new}
  BY <1>0, <1>1, NewRowShape DEF InsertRow
<1>3. Close(s) /\ pc[s] = "insert"
  BY DEF InsertRow
<1>4. CartStep(s)
  BY WriteStep
<1>5. \A w : w.sku # k => (w \in RowsOf(u) <=> w \in RowsOf(u)')
  BY <1>2 DEF RowsOf
<1>6. Carts' = [Carts EXCEPT ![u][k] = Quantity(RowsOf(u), k)']
  BY <1>4, <1>5, OneSkuChanged DEF CartStep
<1>7. Quantity(RowsOf(u)', k) = q
  <2>1. OnePerSku(RowsOf(u)') /\ new \in RowsOf(u)'
    BY <1>2, <1>4 DEF CartStep, OneRowPerSku, OnePerSku, RowsOf
  <2> QED BY <2>1, <1>2, QuantityOf
<1>8. Quantity(RowsOf(u), k)' = q
  BY <1>7 DEF Quantity
<1>9. Carts[u][k] = 0
  BY <1>1 DEF Carts, Quantity, RowsOf, RowsFor
<1>10. Carts[u][k] + q = q
  BY <1>1, <1>9
<1>11. Carts' = [Carts EXCEPT ![u][k] = Carts[u][k] + q]
  BY <1>6, <1>8, <1>10
<1>12. Offers' = Offers
  BY <1>3, OffersKept
<1>13. Promise!Add(u, k, q)
  BY <1>11, <1>12 DEF Promise!Add, Carts, Offers
<1> QED BY <1>1, <1>13 DEF Promise!Next

(* An update of the one row of a SKU sets the quantity of that SKU.        *)
LEMMA UpdateChangesSku ==
    ASSUME CartInv, NEW s \in Sessions, CartStep(s), NEW w \in rows, w.user = UserOf[s],
           NEW x \in Nat \ {0}, rows' = Updated(w, x)
    PROVE  /\ Carts' = [Carts EXCEPT ![UserOf[s]][w.sku] = x]
           /\ Carts[UserOf[s]][w.sku] = w.qty
           /\ w.qty \in Nat \ {0}
<1> DEFINE u == UserOf[s]
           k == w.sku
           new == [w EXCEPT !.qty = x]
<1>1. u \in Users /\ k \in Skus /\ w \in CartRow /\ w.qty \in Nat \ {0}
  BY CartAssumption DEF CartInv, ShapeOK, CartRow
<1>2. rows' = (rows \ {w}) \cup {new}
  BY UpdateStep DEF CartInv, ShapeOK
<1>3. new.user = u /\ new.sku = k /\ new.qty = x
  BY <1>1, UpdatedRow
<1> HIDE DEF new
<1>4. \A v : v.sku # k => (v \in RowsOf(u) <=> v \in RowsOf(u)')
  BY <1>2, <1>3 DEF RowsOf
<1>5. Carts' = [Carts EXCEPT ![u][k] = Quantity(RowsOf(u), k)']
  BY <1>1, <1>4, OneSkuChanged DEF CartStep
<1>6. Quantity(RowsOf(u), k)' = x
  <2>1. OnePerSku(RowsOf(u)') /\ new \in RowsOf(u)'
    BY <1>2, <1>3 DEF CartStep, OneRowPerSku, OnePerSku, RowsOf
  <2>2. Quantity(RowsOf(u)', k) = x
    BY <2>1, <1>3, QuantityOf
  <2> QED BY <2>2 DEF Quantity
<1>7. Carts[u][k] = w.qty
  <2>1. OnePerSku(RowsOf(u)) /\ w \in RowsOf(u)
    BY DEF CartInv, OneRowPerSku, OnePerSku, RowsOf
  <2>2. Quantity(RowsOf(u), k) = w.qty
    BY <2>1, QuantityOf
  <2> QED BY <2>2, <1>1 DEF Carts
<1> QED BY <1>1, <1>5, <1>6, <1>7

(* A later row is an Add to the quantity of the row.                       *)
LEMMA IncreaseKeepsPromise ==
    ASSUME CartInv, NEW s \in Sessions, IncreaseRow(s)
    PROVE  Promise!Next
<1> DEFINE u == UserOf[s]
<1>1. PICK w \in rows : w.user = u /\ seen[s] = {w} /\ w.sku = sku[s]
  BY DEF CartInv, IncreaseRow, UpToDate
<1>2. PICK k \in Skus, q \in Quantities : w.sku = k /\ qty[s] = q
  BY <1>1 DEF CartInv, IncreaseRow, UpToDate
<1>3. u \in Users /\ q \in Nat \ {0} /\ w.qty \in Nat \ {0}
  BY CartAssumption DEF CartInv, ShapeOK, CartRow
<1>4. rows' = Updated(w, w.qty + q) /\ Close(s) /\ pc[s] = "increase"
  BY <1>1, <1>2 DEF IncreaseRow
<1>5. CartStep(s) /\ w.qty + q \in Nat \ {0}
  BY <1>3, WriteStep
<1>6. Carts' = [Carts EXCEPT ![u][k] = w.qty + q] /\ Carts[u][k] = w.qty
  BY <1>1, <1>2, <1>4, <1>5, UpdateChangesSku
<1>7. Carts' = [Carts EXCEPT ![u][k] = Carts[u][k] + q]
  BY <1>6
<1>8. Offers' = Offers
  BY <1>4, OffersKept
<1>9. Promise!Add(u, k, q)
  BY <1>7, <1>8 DEF Promise!Add, Carts, Offers
<1> QED BY <1>3, <1>9 DEF Promise!Next

(* A patch sets the quantity of a SKU that is in the cart, or does nothing.*)
LEMMA SetKeepsPromise ==
    ASSUME CartInv, NEW s \in Sessions, NEW n \in Levels, SetQuantity(s, n)
    PROVE  Promise!Next \/ (Carts' = Carts /\ Offers' = Offers)
<1> DEFINE u == UserOf[s]
<1>1. PICK w \in rows : w.user = u /\ seen[s] = {w} /\ w.sku = sku[s]
  BY DEF CartInv, SetQuantity, UpToDate
<1>2. PICK k \in Skus, q \in Quantities : w.sku = k /\ qty[s] = q
  BY <1>1 DEF CartInv, SetQuantity, UpToDate
<1>3. u \in Users /\ q \in Nat \ {0}
  BY CartAssumption
<1>4. Close(s) /\ pc[s] = "patch" /\ (rows' = rows \/ rows' = Updated(w, q))
  BY <1>1, <1>2 DEF SetQuantity
<1>5. Offers' = Offers
  BY <1>4, OffersKept
<1>6. CASE rows' = rows
  BY <1>5, <1>6, CartsSame
<1>7. CASE rows' = Updated(w, q)
  <2>1. CartStep(s)
    BY WriteStep
  <2>2. Carts' = [Carts EXCEPT ![u][k] = q] /\ Carts[u][k] > 0
    BY <1>1, <1>2, <1>3, <1>7, <2>1, UpdateChangesSku
  <2>3. Promise!SetQuantity(u, k, q)
    BY <1>5, <2>2 DEF Promise!SetQuantity, Carts, Offers
  <2> QED BY <1>3, <2>3 DEF Promise!Next
<1> QED BY <1>4, <1>6, <1>7

(* A removal leaves no row of the SKU.                                     *)
LEMMA DeleteKeepsPromise ==
    ASSUME CartInv, NEW s \in Sessions, DeleteRow(s)
    PROVE  Promise!Next
<1> DEFINE u == UserOf[s]
<1>1. PICK w \in rows : w.user = u /\ seen[s] = {w}
  BY DEF CartInv, DeleteRow, UpToDate
<1>2. PICK k \in Skus : w.sku = k
  BY <1>1 DEF CartInv, ShapeOK, CartRow
<1>3. u \in Users
  BY CartAssumption
<1>4. rows' = rows \ {w}
  BY <1>1 DEF DeleteRow, Id, CartInv, OneRowPerSku
<1>5. CartStep(s)
  BY WriteStep
<1>6. \A v : v.sku # k => (v \in RowsOf(u) <=> v \in RowsOf(u)')
  BY <1>2, <1>4 DEF RowsOf
<1>7. Carts' = [Carts EXCEPT ![u][k] = Quantity(RowsOf(u), k)']
  BY <1>5, <1>6, OneSkuChanged DEF CartStep
<1>8. \A v \in RowsOf(u)' : v.sku # k
  BY <1>1, <1>2, <1>4 DEF RowsOf, CartInv, OneRowPerSku
<1>9. Quantity(RowsOf(u), k)' = 0
  BY <1>8 DEF Quantity
<1>10. Offers' = Offers
  BY OffersKept DEF DeleteRow
<1>11. Promise!Remove(u, k)
  BY <1>7, <1>9, <1>10 DEF Promise!Remove, Carts, Offers
<1> QED BY <1>3, <1>11 DEF Promise!Next

(* Clearing leaves no row at all.                                          *)
LEMMA ClearKeepsPromise ==
    ASSUME CartInv, NEW s \in Sessions, ClearCart(s)
    PROVE  Promise!Next
<1> DEFINE u == UserOf[s]
<1>1. u \in Users /\ CartStep(s)
  BY CartAssumption, WriteStep
<1>2. \A k \in Skus : Quantity(RowsOf(u), k)' = [j \in Skus |-> 0][k]
  BY DEF ClearCart, RowsOf, Quantity
<1>3. Carts' = [Carts EXCEPT ![u] = [j \in Skus |-> 0]]
  BY <1>1, <1>2, CartChanged DEF CartStep
<1>4. Offers' = Offers
  BY OffersSame DEF ClearCart
<1>5. Promise!Clear(u)
  BY <1>3, <1>4 DEF Promise!Clear, Promise!Nothing, Carts, Offers
<1> QED BY <1>1, <1>5 DEF Promise!Next

(* What one client has been offered changes for its own user only.         *)
LEMMA OfferChanged ==
    ASSUME OneClientEach, NEW s \in Sessions,
           \A t \in Sessions \ {s} : guest'[t] = guest[t],
           NEW f, f = [k \in Skus |-> f[k]], \A k \in Skus : Quantity(guest'[s], k) = f[k]
    PROVE  Offers' = [Offers EXCEPT ![UserOf[s]] = f]
<1> DEFINE u == UserOf[s]
<1>1. u \in Users
  BY CartAssumption
<1>2. OfferedTo(u)' = guest'[s]
  BY OfferedOwn
<1>3. [k \in Skus |-> Quantity(OfferedTo(u), k)'] = f
  BY <1>2 DEF Quantity
<1>4. ASSUME NEW x \in Users, x # u
      PROVE  [k \in Skus |-> Quantity(OfferedTo(x), k)'] = [k \in Skus |-> Quantity(OfferedTo(x), k)]
  <2>1. \A t \in {r \in Sessions : UserOf[r] = x} : guest'[t] = guest[t]
    BY <1>4
  <2>2. OfferedTo(x)' = OfferedTo(x)
    BY <2>1 DEF OfferedTo
  <2> QED BY <2>2 DEF Quantity
<1> QED BY <1>1, <1>3, <1>4 DEF Offers

(* A merge that reads the guest's rows is offered the guest's cart.        *)
LEMMA ReadKeepsPromise ==
    ASSUME OneClientEach, CartInv, NEW s \in Sessions, NEW g \in Guests, MergeGuestCart(s, g)
    PROVE  Promise!Next
<1>1. UserOf[s] \in Users /\ g \in Users
  BY CartAssumption
<1>2. guest'[s] = RowsOf(g) /\ \A t \in Sessions \ {s} : guest'[t] = guest[t]
  BY DEF MergeGuestCart, CartInv, ShapeOK
<1>3. Carts[g] = [k \in Skus |-> Quantity(RowsOf(g), k)]
  BY <1>1 DEF Carts
<1>4. Carts[g] = [k \in Skus |-> Carts[g][k]] /\ \A k \in Skus : Quantity(guest'[s], k) = Carts[g][k]
  BY <1>2, <1>3
<1>5. Offers' = [Offers EXCEPT ![UserOf[s]] = Carts[g]]
  BY <1>2, <1>4, OfferChanged
<1>6. Carts' = Carts
  BY CartsSame DEF MergeGuestCart
<1>7. Promise!Offer(UserOf[s], g)
  BY <1>5, <1>6 DEF Promise!Offer, Carts, Offers
<1> QED BY <1>1, <1>7 DEF Promise!Next

(* After a merge the quantity of a SKU is the maximum of what the buyer had*)
(* and what the guest had.                                                 *)
LEMMA MergedQuantity ==
    ASSUME CartInv, NEW s \in Sessions, CommitMerge(s), NEW k \in Skus
    PROVE  Quantity(RowsOf(UserOf[s]), k)'
             = Max({Quantity(RowsOf(UserOf[s]), k), Quantity(guest[s], k)})
<1> DEFINE u == UserOf[s]
           had == Quantity(RowsOf(u), k)
           came == Quantity(guest[s], k)
<1>1. MergeEffect(s)
  BY MergeStep
<1>2. OnePerSku(RowsOf(u)) /\ OnePerSku(RowsOf(u)') /\ OnePerSku(guest[s])
  BY <1>1 DEF CartInv, UpToDate, MergeEffect, OneRowPerSku, OnePerSku, RowsOf
<1>3. had \in Nat
  <2>1. CASE \E w \in RowsOf(u) : w.sku = k
    <3>1. PICK w \in RowsOf(u) : w.sku = k
      BY <2>1
    <3>2. had = w.qty
      BY <1>2, <3>1, QuantityOf
    <3> QED BY <3>2 DEF RowsOf, CartInv, ShapeOK, CartRow
  <2>2. CASE ~ \E w \in RowsOf(u) : w.sku = k
    BY <2>2 DEF Quantity
  <2> QED BY <2>1, <2>2
<1>4. CASE k \notin Coming(s)
  <2>1. \A w : w \in RowsOf(u) /\ w.sku = k <=> w \in RowsOf(u)' /\ w.sku = k
    BY <1>1, <1>4 DEF MergeEffect, RowsOf
  <2>2. Quantity(RowsOf(u)', k) = had
    BY <1>2, <2>1, QuantitySame
  <2>3. Quantity(RowsOf(u), k)' = had
    BY <2>2 DEF Quantity
  <2>4. came = 0
    BY <1>4 DEF Quantity, Coming
  <2>5. Max({had, 0}) = had
    BY <1>3, MaxTwo
  <2> QED BY <2>3, <2>4, <2>5
<1>5. CASE k \in Coming(s)
  <2>1. PICK g \in guest[s] : g.sku = k
    BY <1>5 DEF Coming
  <2>2. Brought(s, k) = g.qty /\ g.qty \in Nat \ {0} /\ came = g.qty
    BY <1>2, <2>1, BroughtRow, QuantityOf DEF CartInv, ShapeOK
  <2>3. PICK v \in rows' :
            /\ v.user = u /\ v.sku = k
            /\ v.qty = IF RowsFor(u, k) = {} THEN Brought(s, k)
                       ELSE Merged(CHOOSE w \in RowsFor(u, k) : TRUE, s)
    BY <1>1, <1>5 DEF MergeEffect
  <2>4. Quantity(RowsOf(u)', k) = v.qty
    <3>1. v \in RowsOf(u)'
      BY <2>3 DEF RowsOf
    <3> QED BY <1>2, <2>3, <3>1, QuantityOf
  <2>5. Quantity(RowsOf(u), k)' = v.qty
    BY <2>4 DEF Quantity
  <2>6. CASE RowsFor(u, k) = {}
    <3>1. had = 0
      BY <2>6 DEF Quantity, RowsOf, RowsFor
    <3>2. Max({0, g.qty}) = g.qty
      BY <2>2, MaxTwo
    <3> QED BY <2>2, <2>3, <2>5, <2>6, <3>1, <3>2
  <2>7. CASE RowsFor(u, k) # {}
    <3>1. PICK w \in RowsFor(u, k) : (CHOOSE x \in RowsFor(u, k) : TRUE) = w
      BY <2>7
    <3>2. w \in RowsOf(u) /\ w.sku = k
      BY <3>1 DEF RowsOf, RowsFor
    <3>3. had = w.qty
      BY <1>2, <3>2, QuantityOf
    <3> QED BY <2>2, <2>3, <2>5, <2>7, <3>1, <3>2, <3>3 DEF Merged
  <2> QED BY <2>6, <2>7
<1> QED BY <1>4, <1>5

(* The merge is one step, and withdraws the offer.                         *)
LEMMA CommitKeepsPromise ==
    ASSUME OneClientEach, CartInv, NEW s \in Sessions, CommitMerge(s)
    PROVE  Promise!Next
<1> DEFINE u == UserOf[s]
           f == [k \in Skus |-> Max({Carts[u][k], Offers[u][k]})]
           none == [k \in Skus |-> 0]
<1>1. u \in Users /\ Foreign(s)
  BY CartAssumption, MergeCartStep DEF CartStep
<1>2. \A k \in Skus : Carts[u][k] = Quantity(RowsOf(u), k)
  BY <1>1 DEF Carts
<1>3. \A k \in Skus : Offers[u][k] = Quantity(guest[s], k)
  BY <1>1, OfferedOwn DEF Offers
<1>4. \A k \in Skus : Quantity(RowsOf(u), k)' = f[k]
  BY <1>2, <1>3, MergedQuantity
<1>5. Carts' = [Carts EXCEPT ![u] = f]
  <2>1. f = [k \in Skus |-> f[k]]
    OBVIOUS
  <2> HIDE DEF f
  <2> QED BY <1>1, <1>4, <2>1, CartChanged
<1>6. guest'[s] = {} /\ \A t \in Sessions \ {s} : guest'[t] = guest[t]
  BY DEF CommitMerge, Close, CartInv, ShapeOK
<1>7. \A k \in Skus : Quantity(guest'[s], k) = none[k]
  BY <1>6 DEF Quantity
<1>8. Offers' = [Offers EXCEPT ![u] = none]
  BY <1>6, <1>7, OfferChanged
<1>9. \A S : Promise!Max(S) = Max(S)
  BY DEF Max, Promise!Max
<1>10. Promise!Merge(u)
  BY <1>5, <1>8, <1>9 DEF Promise!Merge, Promise!Nothing, Carts, Offers
<1> QED BY <1>1, <1>10 DEF Promise!Next

(* The steps that only read change neither a cart nor an offer.            *)
LEMMA ReadsKeepPromise ==
    ASSUME CartInv, NEW s \in Sessions,
           \/ \E k \in Skus, q \in Quantities, n \in Levels : AddToCart(s, k, q, n)
           \/ \E k \in Skus, q \in Quantities : UpdateCartItem(s, k, q)
           \/ \E k \in Skus : RemoveFromCart(s, k)
           \/ FindRow(s) \/ ReadOwnCart(s)
    PROVE  Carts' = Carts /\ Offers' = Offers
<1>1. UNCHANGED rows
  BY DEF AddToCart, UpdateCartItem, RemoveFromCart, FindRow, ReadOwnCart
<1>2. Offers' = Offers
  <2>1. CASE FindRow(s) /\ Close(s)
    BY <2>1, OffersKept DEF FindRow
  <2>2. CASE UNCHANGED guest
    BY <2>2, OffersSame
  <2> QED BY <2>1, <2>2 DEF AddToCart, UpdateCartItem, RemoveFromCart, FindRow, ReadOwnCart
<1> QED BY <1>1, <1>2, CartsSame

(* Every step is a step of ShoppingCart, or none.                          *)
LEMMA StepKeepsPromise ==
    ASSUME OneClientEach, CartInv, [Next]_vars
    PROVE  Promise!Next \/ (Carts' = Carts /\ Offers' = Offers)
<1>1. CASE UNCHANGED vars
  BY <1>1, CartsSame, OffersSame DEF vars
<1>2. CASE Next
  <2>1. PICK s \in Sessions :
          \/ \E k \in Skus, q \in Quantities :
              \/ \E n \in Levels : AddToCart(s, k, q, n)
              \/ UpdateCartItem(s, k, q)
          \/ FindRow(s) \/ InsertRow(s) \/ IncreaseRow(s)
          \/ \E n \in Levels : SetQuantity(s, n)
          \/ \E k \in Skus : RemoveFromCart(s, k)
          \/ DeleteRow(s) \/ ClearCart(s)
          \/ \E g \in Guests : MergeGuestCart(s, g)
          \/ ReadOwnCart(s) \/ CommitMerge(s)
    BY <1>2 DEF Next
  <2>2. CASE \/ \E k \in Skus, q \in Quantities, n \in Levels : AddToCart(s, k, q, n)
             \/ \E k \in Skus, q \in Quantities : UpdateCartItem(s, k, q)
             \/ \E k \in Skus : RemoveFromCart(s, k)
             \/ FindRow(s) \/ ReadOwnCart(s)
    BY <2>2, ReadsKeepPromise
  <2>3. CASE InsertRow(s) \/ IncreaseRow(s) \/ DeleteRow(s) \/ ClearCart(s)
    BY <2>3, InsertKeepsPromise, IncreaseKeepsPromise, DeleteKeepsPromise, ClearKeepsPromise
  <2>4. CASE \E n \in Levels : SetQuantity(s, n)
    BY <2>4, SetKeepsPromise
  <2>5. CASE (\E g \in Guests : MergeGuestCart(s, g)) \/ CommitMerge(s)
    BY <2>5, ReadKeepsPromise, CommitKeepsPromise
  <2> QED BY <2>1, <2>2, <2>3, <2>4, <2>5
<1> QED BY <1>1, <1>2

(* Both start with empty carts.                                            *)
LEMMA InitKeepsPromise == Init => Promise!Init
<1> SUFFICES ASSUME Init PROVE Promise!Init
  OBVIOUS
<1>1. \A u \in Users : RowsOf(u) = {}
  BY DEF Init, RowsOf
<1>2. \A u \in Users : OfferedTo(u) = {}
  BY DEF Init, OfferedTo
<1> QED BY <1>1, <1>2 DEF Promise!Init, Promise!Nothing, Quantity

(* When the requests for a cart are sent one at a time, the endpoints      *)
(* implement ShoppingCart: no increment is lost, a patch sets, a merge     *)
(* takes the maximum.                                                      *)
THEOREM CartKeepsPromise ==
    ASSUME OneClientEach
    PROVE  Spec => KeepsPromise
<1>1. Init => Promise!Init
  BY InitKeepsPromise
<1>2. CartInv /\ [Next]_vars => [Promise!Next]_(Promise!promised)
  BY StepKeepsPromise DEF Promise!promised, Carts, Offers
<1> QED BY <1>1, <1>2, CartInvariant, PTL DEF Spec, KeepsPromise, Promise!Spec

-----------------------------------------------------------------------------
(* Quantities: nothing here needs one client per cart.                     *)

(* A set of numbers that is not empty has a least element.                 *)
LEMMA LeastNumber ==
    ASSUME NEW S \in SUBSET Nat, S # {}
    PROVE  \E m \in S : \A x \in S : m <= x
<1>1. PICK m \in S : \A x \in S : ~ (<<x, m>> \in OpToRel(<, Nat))
  BY WFMin, NatLessThanWellFounded
<1>2. ASSUME NEW x \in S PROVE m <= x
  <2>1. x \in Nat /\ m \in Nat
    OBVIOUS
  <2>2. ~ (x < m)
    BY <1>1, <2>1 DEF OpToRel
  <2> QED BY <2>1, <2>2
<1> QED BY <1>2

(* A bounded set of numbers has its maximum.                               *)
LEMMA MaxOfBounded ==
    ASSUME NEW S \in SUBSET Nat, S # {}, NEW top \in Nat, \A x \in S : x <= top
    PROVE  Max(S) \in S /\ \A x \in S : x <= Max(S)
<1> DEFINE gaps == {n \in Nat : \E x \in S : x + n = top}
<1>1. \A x \in S : top - x \in gaps
  BY \A x \in S : x \in Nat /\ x <= top /\ top - x \in Nat /\ x + (top - x) = top
<1>2. gaps \in SUBSET Nat /\ gaps # {}
  BY <1>1
<1>3. PICK g \in gaps : \A h \in gaps : g <= h
  <2> HIDE DEF gaps
  <2> QED BY <1>2, LeastNumber
<1>4. PICK m \in S : m + g = top
  BY <1>3
<1>5. ASSUME NEW x \in S PROVE m >= x
  <2>1. g <= top - x /\ x \in Nat /\ m \in Nat /\ g \in Nat
    BY <1>1, <1>3
  <2> QED BY <1>4, <2>1
<1>6. Max(S) \in S /\ \A x \in S : Max(S) >= x
  BY <1>5 DEF Max
<1>7. ASSUME NEW x \in S PROVE x <= Max(S)
  BY <1>6, x \in Nat, Max(S) \in Nat
<1> QED BY <1>6, <1>7

Top == Max(Quantities \cup Levels)

LEMMA AllowedQuantities ==
    ASSUME NEW q \in Nat \ {0}, NEW n \in Quantities \cup Levels, q <= n
    PROVE  q \in Allowed
<1>1. PICK top \in Quantities \cup Levels : \A x \in Quantities \cup Levels : x <= top
  BY LargestQuantity
<1>2. \A x \in Quantities \cup Levels : x <= top /\ x \in Nat
  BY <1>1, CartAssumption
<1>3. Top \in Nat /\ n <= Top
  BY <1>2, MaxOfBounded DEF Top
<1> QED BY <1>2, <1>3 DEF Allowed, Top

(* A maximum of allowed quantities is one of them.                         *)
LEMMA MaxAllowed ==
    ASSUME NEW S \in SUBSET Allowed, S # {}
    PROVE  Max(S) \in S /\ Max(S) \in Allowed
<1>1. \A x \in S : x \in Nat /\ 1 <= x /\ x <= Top
  BY DEF Allowed, Top
<1>2. Top \in Nat
  <2>1. PICK top \in Quantities \cup Levels : \A x \in Quantities \cup Levels : x <= top
    BY LargestQuantity
  <2>2. \A x \in Quantities \cup Levels : x <= top /\ x \in Nat
    BY <2>1, CartAssumption
  <2> QED BY <2>2, MaxOfBounded, CartAssumption DEF Top
<1> QED BY <1>1, <1>2, MaxOfBounded

(* What a request has checked before it writes: its own quantity is one a  *)
(* request may have, and the sum it will write was in stock.               *)
Checked(s) ==
    /\ pc[s] \in {"add", "insert", "increase", "patch"} => sku[s] \in Skus /\ qty[s] \in Quantities
    /\ pc[s] \in {"add", "increase"} => level[s] \in Levels
    /\ pc[s] = "increase" => \A w \in seen[s] : w.qty + qty[s] <= level[s]

QuantityInv == TypeOK /\ \A s \in Sessions : Checked(s)

(* A session that closes, and the sessions that do not move.               *)
LEMMA ClosedIsChecked ==
    ASSUME QuantityInv, NEW s \in Sessions, Close(s), rows' \subseteq Row
    PROVE  QuantityInv'
<1>1. TypeOK'
  BY DEF QuantityInv, TypeOK, Close, GoTo, Steps
<1>2. ASSUME NEW t \in Sessions PROVE Checked(t)'
  <2>1. CASE t = s
    BY <2>1 DEF QuantityInv, TypeOK, Close, GoTo, Checked
  <2>2. CASE t # s
    BY <2>2 DEF QuantityInv, TypeOK, Close, GoTo, Checked
  <2> QED BY <2>1, <2>2
<1> QED BY <1>1, <1>2 DEF QuantityInv

(* An UPDATE with an allowed quantity.                                     *)
LEMMA UpdatedRows ==
    ASSUME rows \subseteq Row, NEW w, NEW q \in Allowed
    PROVE  Updated(w, q) \subseteq Row
<1>1. \A v \in Row : [v EXCEPT !.qty = q] \in Row
  BY DEF Row
<1> QED BY <1>1 DEF Updated

LEMMA InsertedRow ==
    ASSUME NEW u \in Users, NEW k \in Skus, NEW q \in Allowed, Unused(u, k) # {}
    PROVE  NewRow(u, k, q) \in Row
<1>1. (CHOOSE c \in Unused(u, k) : TRUE) \in Copies
  BY DEF Unused
<1> QED BY <1>1 DEF NewRow, Row

LEMMA QuantityOfRow ==
    ASSUME NEW w \in Row
    PROVE  w.qty \in Allowed /\ w.qty \in Nat \ {0} /\ w.sku \in Skus /\ w.user \in Users
  BY DEF Row, Allowed

(* The steps that begin or continue a request and write nothing.           *)
LEMMA ReadIsChecked ==
    ASSUME QuantityInv, NEW s \in Sessions,
           \/ \E k \in Skus, q \in Quantities, n \in Levels : AddToCart(s, k, q, n)
           \/ \E k \in Skus, q \in Quantities : UpdateCartItem(s, k, q)
           \/ \E k \in Skus : RemoveFromCart(s, k)
           \/ \E g \in Guests : MergeGuestCart(s, g)
           \/ ReadOwnCart(s)
           \/ FindRow(s)
    PROVE  QuantityInv'
<1>1. \A u, k : RowsFor(u, k) \subseteq Row /\ RowsOf(u) \subseteq Row
  BY DEF RowsFor, RowsOf, QuantityInv, TypeOK
<1>2. ASSUME NEW k \in Skus, NEW q \in Quantities, NEW n \in Levels, AddToCart(s, k, q, n)
      PROVE  QuantityInv'
  BY <1>2 DEF AddToCart, QuantityInv, TypeOK, Checked, GoTo, Steps
<1>3. ASSUME NEW k \in Skus, NEW q \in Quantities, UpdateCartItem(s, k, q) PROVE QuantityInv'
  BY <1>1, <1>3 DEF UpdateCartItem, QuantityInv, TypeOK, Checked, GoTo, Steps
<1>4. ASSUME NEW k \in Skus, RemoveFromCart(s, k) PROVE QuantityInv'
  BY <1>1, <1>4 DEF RemoveFromCart, QuantityInv, TypeOK, Checked, GoTo, Steps
<1>5. ASSUME NEW g \in Guests, MergeGuestCart(s, g) PROVE QuantityInv'
  BY <1>1, <1>5 DEF MergeGuestCart, QuantityInv, TypeOK, Checked, GoTo, Steps
<1>6. CASE ReadOwnCart(s)
  BY <1>1, <1>6 DEF ReadOwnCart, QuantityInv, TypeOK, Checked, GoTo, Steps
<1>7. CASE FindRow(s)
  <2> DEFINE mine == RowsFor(UserOf[s], sku[s])
  <2>1. pc[s] = "add" /\ UNCHANGED rows
    BY <1>7 DEF FindRow
  <2>2. CASE mine = {} /\ GoTo(s, "insert") /\ UNCHANGED <<sku, qty, level, seen, guest>>
    BY <2>1, <2>2 DEF QuantityInv, TypeOK, Checked, GoTo, Steps
  <2>3. CASE /\ \E w \in mine : mine = {w} /\ w.qty + qty[s] <= level[s]
             /\ GoTo(s, "increase")
             /\ seen' = [seen EXCEPT ![s] = mine]
             /\ UNCHANGED <<sku, qty, level, guest>>
    BY <1>1, <2>1, <2>3 DEF QuantityInv, TypeOK, Checked, GoTo, Steps
  <2>4. CASE Close(s)
    BY <2>1, <2>4, ClosedIsChecked DEF QuantityInv, TypeOK
  <2> QED BY <1>7, <2>2, <2>3, <2>4 DEF FindRow
<1> QED BY <1>2, <1>3, <1>4, <1>5, <1>6, <1>7

(* The steps that write.                                                   *)
LEMMA WriteIsChecked ==
    ASSUME QuantityInv, NEW s \in Sessions,
           \/ InsertRow(s) \/ IncreaseRow(s) \/ DeleteRow(s)
           \/ \E n \in Levels : SetQuantity(s, n)
    PROVE  rows' \subseteq Row
<1>1. rows \subseteq Row /\ seen[s] \subseteq Row /\ Checked(s) /\ UserOf[s] \in Users
  BY CartAssumption DEF QuantityInv, TypeOK
<1>2. ASSUME qty[s] \in Quantities PROVE qty[s] \in Nat \ {0} /\ qty[s] \in Allowed
  <2>1. qty[s] \in Nat \ {0} /\ qty[s] \in Quantities \cup Levels
    BY <1>2, CartAssumption
  <2>2. qty[s] <= qty[s]
    BY <2>1
  <2> QED BY <2>1, <2>2, AllowedQuantities
<1>3. CASE InsertRow(s)
  BY <1>1, <1>2, <1>3, InsertedRow DEF InsertRow, Checked
<1>4. CASE IncreaseRow(s)
  <2>1. PICK w \in seen[s] : rows' = Updated(w, w.qty + qty[s])
    BY <1>4 DEF IncreaseRow
  <2>2. /\ qty[s] \in Nat \ {0} /\ level[s] \in Levels /\ level[s] \in Nat
        /\ w.qty + qty[s] <= level[s]
    BY <1>1, <1>2, <1>4, CartAssumption DEF IncreaseRow, Checked
  <2>3. w.qty \in Nat
    BY <1>1, QuantityOfRow
  <2>4. w.qty + qty[s] \in Allowed
    BY <2>2, <2>3, AllowedQuantities
  <2> QED BY <1>1, <2>1, <2>4, UpdatedRows
<1>5. ASSUME NEW n \in Levels, SetQuantity(s, n) PROVE rows' \subseteq Row
  <2>1. PICK w \in seen[s] : rows' = rows \/ rows' = Updated(w, qty[s])
    BY <1>5 DEF SetQuantity
  <2>2. qty[s] \in Allowed
    BY <1>1, <1>2, <1>5 DEF SetQuantity, Checked
  <2> QED BY <1>1, <2>1, <2>2, UpdatedRows
<1>6. CASE DeleteRow(s)
  BY <1>1, <1>6 DEF DeleteRow
<1> QED BY <1>3, <1>4, <1>5, <1>6

(* A merge writes maxima of quantities that were allowed.                  *)
LEMMA MergeIsChecked ==
    ASSUME QuantityInv, NEW s \in Sessions, CommitMerge(s)
    PROVE  rows' \subseteq Row
<1>1. rows \subseteq Row /\ seen[s] \subseteq Row /\ guest[s] \subseteq Row /\ UserOf[s] \in Users
  BY CartAssumption DEF QuantityInv, TypeOK
<1>2. ASSUME NEW k \in Coming(s) PROVE k \in Skus /\ Brought(s, k) \in Allowed
  <2>1. PICK w \in guest[s] : w.sku = k
    BY DEF Coming
  <2> DEFINE offered == {v.qty : v \in {x \in guest[s] : x.sku = k}}
  <2>2. offered \in SUBSET Allowed /\ offered # {}
    BY <1>1, <2>1, QuantityOfRow
  <2>3. Max(offered) \in Allowed
    BY <2>2, MaxAllowed
  <2>4. k \in Skus
    BY <1>1, <2>1, QuantityOfRow
  <2> QED BY <2>3, <2>4 DEF Brought
<1>3. ASSUME NEW w \in seen[s], w.sku \in Coming(s) PROVE Merged(w, s) \in Allowed
  <2>1. w.qty \in Allowed /\ Brought(s, w.sku) \in Allowed
    BY <1>1, <1>2, <1>3, QuantityOfRow
  <2> QED BY <2>1, MaxAllowed DEF Merged
<1>4. PICK lookup \in SUBSET {w \in seen[s] : w.sku \in Coming(s)} :
        LET known == {w.sku : w \in lookup}
            new == Coming(s) \ known
            raised == {w \in lookup : Merged(w, s) # w.qty}
        IN  /\ \A k \in new : Unused(UserOf[s], k) # {}
            /\ IF \A w \in raised : Present(w)
               THEN rows' = {v \in rows : \A w \in raised : Id(v) # Id(w)}
                            \cup {[w EXCEPT !.qty = Merged(w, s)] : w \in raised}
                            \cup {NewRow(UserOf[s], k, Brought(s, k)) : k \in new}
               ELSE UNCHANGED rows
  BY DEF CommitMerge
<1>5. \A w \in lookup : [w EXCEPT !.qty = Merged(w, s)] \in Row
  BY <1>1, <1>3 DEF Row
<1>6. \A k \in Coming(s) : Unused(UserOf[s], k) # {} => NewRow(UserOf[s], k, Brought(s, k)) \in Row
  BY <1>1, <1>2, InsertedRow
<1> QED BY <1>1, <1>4, <1>5, <1>6

(* No quantity in a cart, or in what a request remembers of one, is above  *)
(* what B2B once had in stock or a single request asked for: with any      *)
(* number of tabs, guests and repeated merges.                             *)
THEOREM QuantitiesStayAllowed == Spec => []TypeOK
<1>1. Init => QuantityInv
  BY CartAssumption DEF Init, QuantityInv, TypeOK, Steps, Checked
<1>2. QuantityInv /\ [Next]_vars => QuantityInv'
  <2> SUFFICES ASSUME QuantityInv, [Next]_vars PROVE QuantityInv'
    OBVIOUS
  <2>1. CASE UNCHANGED vars
    BY <2>1 DEF vars, QuantityInv, TypeOK, Checked
  <2>2. ASSUME NEW s \in Sessions,
               \/ InsertRow(s) \/ IncreaseRow(s) \/ DeleteRow(s) \/ CommitMerge(s)
               \/ \E n \in Levels : SetQuantity(s, n)
        PROVE  QuantityInv'
    <3>1. Close(s)
      BY <2>2 DEF InsertRow, IncreaseRow, DeleteRow, SetQuantity, CommitMerge
    <3>2. rows' \subseteq Row
      BY <2>2, WriteIsChecked, MergeIsChecked
    <3> QED BY <3>1, <3>2, ClosedIsChecked
  <2>3. ASSUME NEW s \in Sessions, ClearCart(s) PROVE QuantityInv'
    BY <2>3 DEF ClearCart, QuantityInv, TypeOK, Checked
  <2> QED BY <2>1, <2>2, <2>3, ReadIsChecked DEF Next
<1>3. QuantityInv => TypeOK
  BY DEF QuantityInv
<1> QED BY <1>1, <1>2, <1>3, PTL DEF Spec

=============================================================================
