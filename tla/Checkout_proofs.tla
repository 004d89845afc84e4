--------------------------- MODULE Checkout_proofs ---------------------------
(***************************************************************************)
(* Theorems about Checkout and about Fulfilment, in which B2B gives stock  *)
(* back while checkouts run, for every number of requests, keys, rows and  *)
(* faults.                                                                 *)
(***************************************************************************)
EXTENDS Fulfilment, FiniteSetTheorems, WellFoundedInduction, TLAPS

(* At any time at most one request of a key is between its INSERT and the  *)
(* end of its transaction, and none once the key has a committed order.    *)
KeyClaimedOnce ==
    \A r \in Requests : pc[r] \in {"reserve", "commit"} =>
        /\ OrdersWithKey(KeyOf[r]) = {}
        /\ \A q \in Requests \ {r} :
              KeyOf[q] = KeyOf[r] => pc[q] \notin {"reserve", "commit"}

(* The inductive invariant of the idempotency key: neither part is         *)
(* inductive without the other: a commit keeps OneOrderPerKey because the  *)
(* key it commits has no order yet, and an insert keeps KeyClaimedOnce     *)
(* because orders, once committed, stay.                                   *)
KeyInv == TypeOK /\ KeyClaimedOnce /\ OneOrderPerKey

(* A finished handler leaves a well typed state.                           *)
LEMMA FinishType ==
    ASSUME TypeOK, NEW r \in Requests, NEW code \in Replies,
           NEW id \in Requests \cup {NoOrder}, Finish(r, code, id)
    PROVE  /\ pc' \in [Requests -> Steps]
           /\ cart' \in [Requests -> SUBSET Row]
           /\ lines' \in [Requests -> SUBSET Line]
           /\ refund' \in [Requests -> SUBSET Line]
           /\ reply' \in [Requests -> Replies]
           /\ result' \in [Requests -> Requests \cup {NoOrder}]
  BY DEF TypeOK, Finish, Steps

OneRowEach(ls) == \A l, m \in ls : l.sku = m.sku => l = m

(* Enrich refuses, or leaves lines made of rows of the cart that was read, *)
(* which match the snapshot if there is one.                               *)
LEMMA EnrichStep ==
    ASSUME TypeOK, NEW r \in Requests, Enrich(r)
    PROVE  /\ UNCHANGED <<rows, orders, held, lost>> /\ pc[r] = "enrich" /\ faults' \in Nat
           /\ faults' >= faults
           /\ \/ \E code \in {"B2B_UNAVAILABLE", "SKU_NOT_FOUND", "NO_VALID_ITEMS",
                              "CART_SNAPSHOT_MISMATCH"} : Refuse(r, code)
              \/ \E ls \in SUBSET Line :
                    /\ ls # {} /\ GoTo(r, "insert")
                    /\ lines' = [lines EXCEPT ![r] = ls] /\ UNCHANGED <<cart, refund>>
                    /\ \A l \in ls : l.order = r /\ \E w \in cart[r] : l.row = w.id
                    /\ OneRowEach(cart[r]) => OneRowEach(ls)
                    /\ \/ SnapshotOf[BodyOf[r]] = <<>>
                       \/ \E actual \in Collapsed(ls) : Matches(SnapshotOf[BodyOf[r]], actual)
<1> DEFINE skus == {w.sku : w \in cart[r]}
<1>1. /\ UNCHANGED <<rows, orders, held, lost>> /\ pc[r] = "enrich" /\ faults' \in Nat
      /\ faults' >= faults
  BY QuantityAssumption DEF Enrich, Fault, TypeOK
<1>2. ASSUME NEW blank \in (SUBSET skus) \ {skus}, NEW price \in [skus -> Prices]
      PROVE  /\ Priced(r, price, blank) \in SUBSET Line
             /\ Priced(r, price, blank) # {}
             /\ \A l \in Priced(r, price, blank) :
                   l.order = r /\ \E w \in cart[r] : l.row = w.id
             /\ OneRowEach(cart[r]) => OneRowEach(Priced(r, price, blank))
  <2> DEFINE L(w) == [order |-> r, row |-> w.id, sku |-> w.sku, qty |-> w.qty,
                      price |-> price[w.sku]]
  <2>1. Priced(r, price, blank) = {L(w) : w \in {v \in cart[r] : v.sku \notin blank}}
    BY DEF Priced
  <2>2. \A w \in cart[r] : L(w) \in Line
    BY DEF TypeOK, Row, Line
  <2>3. \E w \in cart[r] : w.sku \notin blank
    OBVIOUS
  <2>4. \A w \in cart[r] : L(w).order = r /\ L(w).row = w.id /\ L(w).sku = w.sku
    OBVIOUS
  <2> HIDE DEF L
  <2>5. OneRowEach(cart[r]) => OneRowEach(Priced(r, price, blank))
    BY <2>1, <2>4 DEF OneRowEach
  <2> QED BY <2>1, <2>2, <2>3, <2>4, <2>5
<1>3. CASE \E code \in {"B2B_UNAVAILABLE", "SKU_NOT_FOUND", "NO_VALID_ITEMS",
                       "CART_SNAPSHOT_MISMATCH"} : Refuse(r, code)
  BY <1>1, <1>3
<1>4. CASE ~\E code \in {"B2B_UNAVAILABLE", "SKU_NOT_FOUND", "NO_VALID_ITEMS",
                        "CART_SNAPSHOT_MISMATCH"} : Refuse(r, code)
  <2>1. PICK blank \in (SUBSET skus) \ {skus}, price \in [skus -> Prices] :
            \E actual \in Collapsed(Priced(r, price, blank)) :
                /\ SnapshotOf[BodyOf[r]] = <<>> \/ Matches(SnapshotOf[BodyOf[r]], actual)
                /\ GoTo(r, "insert")
                /\ lines' = [lines EXCEPT ![r] = Priced(r, price, blank)]
                /\ UNCHANGED <<cart, refund>>
    BY <1>4 DEF Enrich
  <2> DEFINE ls == Priced(r, price, blank)
  <2>2. /\ ls \in SUBSET Line /\ ls # {}
        /\ \A l \in ls : l.order = r /\ \E w \in cart[r] : l.row = w.id
        /\ OneRowEach(cart[r]) => OneRowEach(ls)
    BY <1>2
  <2> HIDE DEF ls
  <2> QED BY <1>1, <2>1, <2>2 DEF ls
<1> QED BY <1>3, <1>4

(* Every step keeps the state well typed.                                  *)
LEMMA TypeStep == TypeOK /\ [Next]_vars => TypeOK'
<1> SUFFICES ASSUME TypeOK, [Next]_vars PROVE TypeOK'
  OBVIOUS
<1>0. /\ UserOf \in [Requests -> Users] /\ KeyOf \in [Requests -> Keys]
      /\ BodyOf \in [Requests -> Bodies]
  BY RequestAssumption
<1> USE <1>0
<1>1. ASSUME NEW r \in Requests, FindKey(r) PROVE TypeOK'
  <2>1. CASE GoTo(r, "cart") /\ UNCHANGED <<cart, lines, refund>>
    BY <1>1, <2>1 DEF TypeOK, FindKey, GoTo, Steps
  <2>2. CASE \E o \in OrdersWithKey(KeyOf[r]) : Replay(r, o)
    <3>1. PICK o \in orders : Replay(r, o)
      BY <2>2 DEF OrdersWithKey
    <3>2. o.id \in Requests
      BY DEF TypeOK, Order
    <3> QED BY <1>1, <3>1, <3>2, FinishType DEF Replay, Refuse, FindKey, TypeOK, Replies
  <2> QED BY <1>1, <2>1, <2>2 DEF FindKey
<1>2. ASSUME NEW r \in Requests, ReadCart(r) PROVE TypeOK'
  <2>1. CASE Refuse(r, "EMPTY_CART")
    BY <1>2, <2>1, FinishType DEF TypeOK, ReadCart, Refuse, Replies
  <2>2. CASE GoTo(r, "enrich")
    BY <1>2, <2>2 DEF TypeOK, ReadCart, GoTo, Steps, Refuse, Finish
  <2> QED BY <1>2, <2>1, <2>2 DEF ReadCart
<1>3. ASSUME NEW r \in Requests, Enrich(r) PROVE TypeOK'
  <2>0. UNCHANGED <<rows, orders, held, lost>> /\ faults' \in Nat
    BY <1>3, EnrichStep
  <2>1. CASE \E code \in {"B2B_UNAVAILABLE", "SKU_NOT_FOUND", "NO_VALID_ITEMS",
                         "CART_SNAPSHOT_MISMATCH"} : Refuse(r, code)
    BY <2>0, <2>1, FinishType DEF TypeOK, Refuse, Replies
  <2>2. CASE \E ls \in SUBSET Line :
                /\ GoTo(r, "insert") /\ lines' = [lines EXCEPT ![r] = ls]
                /\ UNCHANGED <<cart, refund>>
    BY <2>0, <2>2 DEF TypeOK, GoTo, Steps
  <2> QED BY <1>3, <2>1, <2>2, EnrichStep
<1>4. ASSUME NEW r \in Requests, InsertOrder(r) PROVE TypeOK'
  BY <1>4 DEF TypeOK, InsertOrder, GoTo, Steps
<1>5. ASSUME NEW r \in Requests, ReplayWinner(r) PROVE TypeOK'
  <2>1. CASE Refuse(r, "DUPLICATE_ENTRY")
    BY <1>5, <2>1, FinishType DEF TypeOK, ReplayWinner, Refuse, Replies
  <2>2. CASE \E o \in OrdersWithKey(KeyOf[r]) : Replay(r, o)
    <3>1. PICK o \in orders : Replay(r, o)
      BY <2>2 DEF OrdersWithKey
    <3>2. o.id \in Requests
      BY DEF TypeOK, Order
    <3> QED BY <1>5, <3>1, <3>2, FinishType DEF Replay, Refuse, ReplayWinner, TypeOK, Replies
  <2> QED BY <1>5, <2>1, <2>2 DEF ReplayWinner
<1>6. ASSUME NEW r \in Requests, Reserve(r) PROVE TypeOK'
  BY <1>6 DEF TypeOK, Reserve, GoTo, Steps
<1>7. ASSUME NEW r \in Requests, ReserveError(r) PROVE TypeOK'
  <2>1. PICK code \in {"B2B_UNAVAILABLE", "B2B_ERROR"} : Refuse(r, code)
    BY <1>7 DEF ReserveError
  <2> QED BY <1>7, <2>1, FinishType, QuantityAssumption
          DEF TypeOK, ReserveError, Fault, Refuse, Replies
<1>8. ASSUME NEW r \in Requests, Release(r) PROVE TypeOK'
  BY <1>8, QuantityAssumption DEF TypeOK, Release, Fault
<1>9. ASSUME NEW r \in Requests, ReserveFailed(r) PROVE TypeOK'
  BY <1>9, FinishType DEF TypeOK, ReserveFailed, Refuse, Replies
<1>10. ASSUME NEW r \in Requests, CommitOrder(r) PROVE TypeOK'
  BY <1>10 DEF TypeOK, CommitOrder, GoTo, Steps, Order
<1>11. ASSUME NEW r \in Requests, Answer(r) PROVE TypeOK'
  BY <1>11, FinishType DEF TypeOK, Answer, Replies
<1>12. ASSUME NEW r \in Requests, Crash(r) PROVE TypeOK'
  BY <1>12, FinishType, QuantityAssumption DEF TypeOK, Crash, Owed, Fault, Refuse, Replies
<1>13. CASE EditCart
  BY <1>13 DEF TypeOK, EditCart, AddRow, SetQuantity, RemoveRow, CartOnly, Row
<1>14. CASE UNCHANGED vars
  BY <1>14 DEF TypeOK, vars
<1> QED
  BY <1>1, <1>2, <1>3, <1>4, <1>5, <1>6, <1>7, <1>8, <1>9, <1>10, <1>11, <1>12, <1>13, <1>14
     DEF Next, Step, Handle

(* Requests, orders, carts and answers keep their types in every behaviour *)
(* of the specification.                                                   *)
THEOREM StateIsWellTyped == Spec => []TypeOK
<1>1. Init => TypeOK
  BY RequestAssumption DEF Init, TypeOK, Steps, Replies
<1> QED BY <1>1, TypeStep, PTL DEF Spec

-----------------------------------------------------------------------------
(* A step of one request that commits no order and does not newly enter    *)
(* the part of checkout() that owns the key disturbs nothing.              *)
LEMMA KeyQuiet ==
    ASSUME KeyInv, NEW r \in Requests, NEW step, orders' = orders,
           pc' = [pc EXCEPT ![r] = step],
           step \in {"reserve", "commit"} => pc[r] \in {"reserve", "commit"}
    PROVE  KeyClaimedOnce' /\ OneOrderPerKey'
  BY DEF KeyInv, TypeOK, KeyClaimedOnce, OneOrderPerKey, OrdersWithKey

(* Every step keeps the key invariant.                                     *)
LEMMA KeyStep == KeyInv /\ [Next]_vars => KeyClaimedOnce' /\ OneOrderPerKey'
<1> SUFFICES ASSUME KeyInv, [Next]_vars PROVE KeyClaimedOnce' /\ OneOrderPerKey'
  OBVIOUS
<1>1. ASSUME NEW r \in Requests, FindKey(r) \/ ReadCart(r) \/ Enrich(r) \/ ReplayWinner(r)
      PROVE  KeyClaimedOnce' /\ OneOrderPerKey'
  <2>1. orders' = orders
    BY <1>1 DEF FindKey, ReadCart, Enrich, ReplayWinner
  <2>2. PICK step \in {"cart", "enrich", "insert", "done"} : pc' = [pc EXCEPT ![r] = step]
    BY <1>1 DEF FindKey, ReadCart, Enrich, ReplayWinner, Replay, Refuse, Finish, GoTo
  <2> QED BY <2>1, <2>2, KeyQuiet
<1>2. ASSUME NEW r \in Requests, InsertOrder(r) PROVE KeyClaimedOnce' /\ OneOrderPerKey'
  <2>1. CASE OrdersWithKey(KeyOf[r]) # {}
    BY <1>2, <2>1, KeyQuiet DEF InsertOrder, GoTo
  <2>2. CASE OrdersWithKey(KeyOf[r]) = {}
    BY <1>2, <2>2
       DEF InsertOrder, GoTo, HoldsKey, KeyInv, TypeOK, KeyClaimedOnce, OneOrderPerKey,
           OrdersWithKey
  <2> QED BY <2>1, <2>2
<1>3. ASSUME NEW r \in Requests,
             Reserve(r) \/ ReserveError(r) \/ ReserveFailed(r) \/ Answer(r) \/ Crash(r)
      PROVE  KeyClaimedOnce' /\ OneOrderPerKey'
  <2>1. orders' = orders
    BY <1>3 DEF Reserve, ReserveError, ReserveFailed, Answer, Crash
  <2>2. CASE Reserve(r)
    <3>1. PICK step \in {"commit", "release"} : pc' = [pc EXCEPT ![r] = step]
      BY <2>2 DEF Reserve, GoTo
    <3>2. pc[r] = "reserve"
      BY <2>2 DEF Reserve
    <3> QED BY <2>1, <3>1, <3>2, KeyQuiet
  <2>3. CASE ReserveError(r) \/ ReserveFailed(r) \/ Answer(r) \/ Crash(r)
    <3>1. pc' = [pc EXCEPT ![r] = "done"]
      BY <2>3 DEF ReserveError, ReserveFailed, Answer, Crash, Refuse, Finish
    <3> QED BY <2>1, <3>1, KeyQuiet
  <2> QED BY <1>3, <2>2, <2>3
<1>4. ASSUME NEW r \in Requests, CommitOrder(r) PROVE KeyClaimedOnce' /\ OneOrderPerKey'
  <2>1. OrdersWithKey(KeyOf[r]) = {}
    BY <1>4 DEF CommitOrder, KeyInv, KeyClaimedOnce
  <2>2. OneOrderPerKey'
    BY <1>4, <2>1 DEF CommitOrder, KeyInv, OneOrderPerKey, OrdersWithKey
  <2>3. KeyClaimedOnce'
    BY <1>4, <2>1
       DEF CommitOrder, GoTo, KeyInv, TypeOK, KeyClaimedOnce, OrdersWithKey
  <2> QED BY <2>2, <2>3
<1>5. CASE \/ \E r \in Requests : Release(r)
           \/ EditCart \/ UNCHANGED vars
  <2>1. UNCHANGED <<orders, pc>>
    BY <1>5 DEF Release, EditCart, AddRow, SetQuantity, RemoveRow, CartOnly, vars
  <2> QED BY <2>1 DEF KeyInv, KeyClaimedOnce, OneOrderPerKey, OrdersWithKey
<1> QED BY <1>1, <1>2, <1>3, <1>4, <1>5 DEF Next, Step, Handle

(* The key invariant holds in every behaviour.                             *)
LEMMA KeyInvariant == Spec => []KeyInv
<1>1. Init => KeyInv
  <2>1. Init => TypeOK
    BY RequestAssumption DEF Init, TypeOK, Steps, Replies
  <2> QED BY <2>1 DEF Init, KeyInv, KeyClaimedOnce, OneOrderPerKey
<1>2. KeyInv /\ [Next]_vars => KeyInv'
  BY KeyStep, TypeStep DEF KeyInv
<1> QED BY <1>1, <1>2, PTL DEF Spec

(* However many requests share an Idempotency-Key, and however they        *)
(* interleave, fail and crash, at most one order has it.                   *)
THEOREM KeyHasOneOrder == Spec => []OneOrderPerKey
BY KeyInvariant, PTL DEF KeyInv

-----------------------------------------------------------------------------
(* Where a request stands, which order it made and what it was told.       *)
ProgressInv ==
    /\ \A o \in orders : pc[o.id] \in {"answer", "done"} /\ o.lines # {}
    /\ \A r \in Requests :
        /\ pc[r] = "enrich" => cart[r] # {}
        /\ pc[r] \in {"insert", "reserve", "commit"} => lines[r] # {}
        /\ pc[r] = "conflict" => OrdersWithKey(KeyOf[r]) # {}
        /\ pc[r] = "answer" => \E o \in orders :
              o.id = r /\ o.key = KeyOf[r] /\ o.body = BodyOf[r]
        /\ reply[r] # "none" <=> pc[r] = "done"

(* The invariant behind what clients are told.                             *)
AnswerInv == TypeOK /\ ProgressInv /\ AnswerIsTrue /\ LoserFindsWinner

(* Refusing a request that has made no order.                              *)
LEMMA RefuseAnswer ==
    ASSUME AnswerInv, NEW r \in Requests, NEW code \in Replies \ {"none", "201", "DUPLICATE_ENTRY"},
           Refuse(r, code), orders' = orders, pc[r] # "answer" \/ code = "crashed",
           pc[r] # "done"
    PROVE  ProgressInv' /\ AnswerIsTrue' /\ LoserFindsWinner'
<1>1. /\ pc' = [pc EXCEPT ![r] = "done"]
      /\ reply' = [reply EXCEPT ![r] = code]
      /\ result' = [result EXCEPT ![r] = NoOrder]
      /\ cart' = [cart EXCEPT ![r] = {}]
      /\ lines' = [lines EXCEPT ![r] = {}]
  BY DEF Refuse, Finish
<1>2. ProgressInv'
  BY <1>1 DEF AnswerInv, TypeOK, ProgressInv, OrdersWithKey, Order
<1>3. code # "crashed" => \A o \in orders : o.id # r
  BY DEF AnswerInv, ProgressInv
<1>4. AnswerIsTrue'
  BY <1>1, <1>3 DEF AnswerInv, TypeOK, AnswerIsTrue, OrdersWithKey
<1> QED BY <1>1, <1>2, <1>4 DEF AnswerInv, TypeOK, LoserFindsWinner

(* Answering 201 with an order of the key made from the same body.         *)
LEMMA AcceptAnswer ==
    ASSUME AnswerInv, NEW r \in Requests, NEW o \in OrdersWithKey(KeyOf[r]),
           o.body = BodyOf[r], Finish(r, "201", o.id), orders' = orders, pc[r] # "done"
    PROVE  ProgressInv' /\ AnswerIsTrue' /\ LoserFindsWinner'
<1>1. /\ pc' = [pc EXCEPT ![r] = "done"]
      /\ reply' = [reply EXCEPT ![r] = "201"]
      /\ result' = [result EXCEPT ![r] = o.id]
      /\ cart' = [cart EXCEPT ![r] = {}]
      /\ lines' = [lines EXCEPT ![r] = {}]
  BY DEF Finish
<1>2. ProgressInv'
  BY <1>1 DEF AnswerInv, TypeOK, ProgressInv, OrdersWithKey, Order
<1>3. o \in orders /\ o.lines # {}
  BY DEF AnswerInv, ProgressInv, OrdersWithKey
<1>4. AnswerIsTrue'
  BY <1>1, <1>3 DEF AnswerInv, TypeOK, AnswerIsTrue, OrdersWithKey
<1> QED BY <1>1, <1>2, <1>4 DEF AnswerInv, TypeOK, LoserFindsWinner

(* Replaying a committed order of the key.                                 *)
LEMMA ReplayAnswer ==
    ASSUME AnswerInv, NEW r \in Requests, NEW o \in OrdersWithKey(KeyOf[r]),
           Replay(r, o), orders' = orders, pc[r] \in {"find", "conflict"}
    PROVE  ProgressInv' /\ AnswerIsTrue' /\ LoserFindsWinner'
<1>1. CASE o.body = BodyOf[r]
  BY <1>1, AcceptAnswer DEF Replay
<1>2. CASE o.body # BodyOf[r]
  BY <1>2, RefuseAnswer DEF Replay, Replies
<1> QED BY <1>1, <1>2

(* A step inside the handler: it answers nobody and commits nothing.       *)
LEMMA InnerAnswer ==
    ASSUME AnswerInv, NEW r \in Requests, NEW step \in Steps, GoTo(r, step),
           orders' = orders, pc[r] \notin {"answer", "done"},
           step \notin {"answer", "done"},
           NEW cs, NEW ls, cart' = [cart EXCEPT ![r] = cs], lines' = [lines EXCEPT ![r] = ls],
           step = "enrich" => cs # {},
           step \in {"insert", "reserve", "commit"} => ls # {},
           step = "conflict" => OrdersWithKey(KeyOf[r]) # {}
    PROVE  ProgressInv' /\ AnswerIsTrue' /\ LoserFindsWinner'
<1>1. ProgressInv'
  BY DEF AnswerInv, TypeOK, ProgressInv, OrdersWithKey, Order, GoTo
<1>2. AnswerIsTrue' /\ LoserFindsWinner'
  BY DEF AnswerInv, AnswerIsTrue, LoserFindsWinner, OrdersWithKey, GoTo
<1> QED BY <1>1, <1>2

(* Every step keeps what requests were told true.                          *)
LEMMA AnswerStep ==
    AnswerInv /\ [Next]_vars => ProgressInv' /\ AnswerIsTrue' /\ LoserFindsWinner'
<1> DEFINE Goal == ProgressInv' /\ AnswerIsTrue' /\ LoserFindsWinner'
<1> SUFFICES ASSUME AnswerInv, [Next]_vars PROVE Goal
  OBVIOUS
<1>1. ASSUME NEW r \in Requests, FindKey(r) PROVE Goal
  <2>1. CASE GoTo(r, "cart") /\ UNCHANGED <<cart, lines, refund>>
    <3>1. /\ cart' = [cart EXCEPT ![r] = cart[r]]
          /\ lines' = [lines EXCEPT ![r] = lines[r]]
      BY <2>1 DEF AnswerInv, TypeOK
    <3> QED BY <1>1, <2>1, <3>1, InnerAnswer DEF FindKey, Steps
  <2>2. CASE \E o \in OrdersWithKey(KeyOf[r]) : Replay(r, o)
    BY <1>1, <2>2, ReplayAnswer DEF FindKey
  <2> QED BY <1>1, <2>1, <2>2 DEF FindKey
<1>2. ASSUME NEW r \in Requests, ReadCart(r) PROVE Goal
  <2>1. CASE Refuse(r, "EMPTY_CART")
    BY <1>2, <2>1, RefuseAnswer DEF ReadCart, Replies
  <2>2. CASE ~Refuse(r, "EMPTY_CART")
    <3>1. PICK mine : /\ mine # {} /\ GoTo(r, "enrich")
                      /\ cart' = [cart EXCEPT ![r] = mine]
                      /\ UNCHANGED lines
      BY <1>2, <2>2 DEF ReadCart
    <3>2. lines' = [lines EXCEPT ![r] = lines[r]]
      BY <3>1 DEF AnswerInv, TypeOK
    <3> QED BY <1>2, <3>1, <3>2, InnerAnswer DEF ReadCart, Steps
  <2> QED BY <2>1, <2>2
<1>3. ASSUME NEW r \in Requests, Enrich(r) PROVE Goal
  <2>0. orders' = orders /\ pc[r] = "enrich" /\ cart = [cart EXCEPT ![r] = cart[r]]
    BY <1>3, EnrichStep DEF AnswerInv, TypeOK
  <2>1. CASE \E code \in {"B2B_UNAVAILABLE", "SKU_NOT_FOUND", "NO_VALID_ITEMS",
                         "CART_SNAPSHOT_MISMATCH"} : Refuse(r, code)
    BY <2>0, <2>1, RefuseAnswer DEF Replies
  <2>2. ASSUME NEW ls \in SUBSET Line, ls # {}, GoTo(r, "insert"), UNCHANGED cart,
               lines' = [lines EXCEPT ![r] = ls]
        PROVE  Goal
    BY <2>0, <2>2, InnerAnswer DEF Steps
  <2> QED BY <1>3, <2>1, <2>2, EnrichStep DEF AnswerInv
<1>4. ASSUME NEW r \in Requests, InsertOrder(r) \/ Reserve(r) PROVE Goal
  <2>1. PICK step \in {"conflict", "reserve", "commit", "release"} :
            GoTo(r, step) /\ (step = "conflict" => OrdersWithKey(KeyOf[r]) # {})
    BY <1>4 DEF InsertOrder, Reserve
  <2>2. /\ cart' = [cart EXCEPT ![r] = cart[r]]
        /\ lines' = [lines EXCEPT ![r] = lines[r]]
    BY <1>4 DEF InsertOrder, Reserve, AnswerInv, TypeOK
  <2>3. /\ pc[r] \in {"insert", "reserve"}
        /\ orders' = orders
        /\ lines[r] # {}
    BY <1>4 DEF InsertOrder, Reserve, AnswerInv, ProgressInv
  <2> QED BY <2>1, <2>2, <2>3, InnerAnswer DEF Steps
<1>5. ASSUME NEW r \in Requests, ReplayWinner(r) PROVE Goal
  <2>1. OrdersWithKey(KeyOf[r]) # {}
    BY <1>5 DEF ReplayWinner, AnswerInv, ProgressInv
  <2> QED BY <1>5, <2>1, ReplayAnswer DEF ReplayWinner
<1>6. ASSUME NEW r \in Requests, ReserveError(r) \/ ReserveFailed(r) \/ Crash(r) PROVE Goal
  <2>1. PICK code \in {"B2B_UNAVAILABLE", "B2B_ERROR", "RESERVE_FAILED", "crashed"} :
            Refuse(r, code) /\ (pc[r] # "answer" \/ code = "crashed")
    BY <1>6 DEF ReserveError, ReserveFailed, Crash
  <2>2. orders' = orders /\ pc[r] # "done"
    BY <1>6 DEF ReserveError, ReserveFailed, Crash
  <2> QED BY <2>1, <2>2, RefuseAnswer DEF Replies
<1>7. ASSUME NEW r \in Requests, CommitOrder(r) PROVE Goal
  <2>1. lines[r] # {}
    BY <1>7 DEF CommitOrder, AnswerInv, ProgressInv
  <2> DEFINE new == [id |-> r, user |-> UserOf[r], key |-> KeyOf[r], body |-> BodyOf[r],
                     lines |-> lines[r]]
  <2>a. /\ orders' = orders \cup {new}
        /\ pc' = [pc EXCEPT ![r] = "answer"]
        /\ pc[r] = "commit"
        /\ UNCHANGED <<cart, lines, reply>>
    BY <1>7 DEF CommitOrder, GoTo
  <2>b. \A o \in orders' : pc'[o.id] \in {"answer", "done"} /\ o.lines # {}
    BY <2>1, <2>a DEF AnswerInv, TypeOK, ProgressInv, Order
  <2>c. ASSUME NEW q \in Requests, pc'[q] = "answer"
        PROVE  \E o \in orders' : o.id = q /\ o.key = KeyOf[q] /\ o.body = BodyOf[q]
    <3>1. CASE q = r
      <4>1. new \in orders' /\ new.id = q /\ new.key = KeyOf[q] /\ new.body = BodyOf[q]
        BY <2>a, <3>1
      <4> QED BY <4>1
    <3>2. CASE q # r
      <4>1. pc[q] = "answer"
        BY <2>a, <2>c, <3>2 DEF AnswerInv, TypeOK
      <4>2. PICK o \in orders : o.id = q /\ o.key = KeyOf[q] /\ o.body = BodyOf[q]
        BY <4>1 DEF AnswerInv, ProgressInv
      <4> QED BY <2>a, <4>2
    <3> QED BY <3>1, <3>2
  <2>d. ASSUME NEW q \in Requests
        PROVE  /\ pc'[q] = "enrich" => cart'[q] # {}
               /\ pc'[q] \in {"insert", "reserve", "commit"} => lines'[q] # {}
               /\ reply'[q] # "none" <=> pc'[q] = "done"
    BY <2>a DEF AnswerInv, TypeOK, ProgressInv
  <2>e. ASSUME NEW q \in Requests, pc'[q] = "conflict"
        PROVE  OrdersWithKey(KeyOf[q])' # {}
    <3>1. PICK o \in orders : o.key = KeyOf[q]
      BY <2>a, <2>e DEF AnswerInv, TypeOK, ProgressInv, OrdersWithKey
    <3> QED BY <2>a, <3>1 DEF OrdersWithKey
  <2>2. ProgressInv'
    BY <2>b, <2>c, <2>d, <2>e DEF ProgressInv
  <2>3. AnswerIsTrue'
    BY <1>7, <2>1
       DEF CommitOrder, GoTo, AnswerInv, ProgressInv, AnswerIsTrue, OrdersWithKey
  <2> QED BY <1>7, <2>2, <2>3 DEF CommitOrder, GoTo, AnswerInv, LoserFindsWinner
<1>8. ASSUME NEW r \in Requests, Answer(r) PROVE Goal
  <2>1. PICK o \in OrdersWithKey(KeyOf[r]) : o.id = r /\ o.body = BodyOf[r]
    BY <1>8 DEF Answer, AnswerInv, ProgressInv, OrdersWithKey
  <2> QED BY <1>8, <2>1, AcceptAnswer DEF Answer
<1>9. CASE \/ \E r \in Requests : Release(r)
           \/ EditCart \/ UNCHANGED vars
  <2>1. UNCHANGED <<orders, pc, cart, lines, reply, result>>
    BY <1>9 DEF Release, EditCart, AddRow, SetQuantity, RemoveRow, CartOnly, vars
  <2> QED BY <2>1 DEF AnswerInv, ProgressInv, AnswerIsTrue, LoserFindsWinner, OrdersWithKey
<1> QED BY <1>1, <1>2, <1>3, <1>4, <1>5, <1>6, <1>7, <1>8, <1>9 DEF Next, Step, Handle

(* The invariant of the answers holds in every behaviour.                  *)
LEMMA AnswerInvariant == Spec => []AnswerInv
<1>1. Init => AnswerInv
  <2>1. Init => TypeOK
    BY RequestAssumption DEF Init, TypeOK, Steps, Replies
  <2> QED BY <2>1 DEF Init, AnswerInv, ProgressInv, AnswerIsTrue, LoserFindsWinner
<1>2. AnswerInv /\ [Next]_vars => AnswerInv'
  BY AnswerStep, TypeStep DEF AnswerInv
<1> QED BY <1>1, <1>2, PTL DEF Spec

(* Behind every 201 is a committed order of the client's key and body, and *)
(* a request that was refused has left no order behind.                    *)
THEOREM AnswersAreTrue == Spec => []AnswerIsTrue
BY AnswerInvariant, PTL DEF AnswerInv

(* The request that loses the race on the unique index finds the winner's  *)
(* committed order and never answers with the raw IntegrityError.          *)
THEOREM LosersFindTheWinner == Spec => []LoserFindsWinner
BY AnswerInvariant, PTL DEF AnswerInv

-----------------------------------------------------------------------------
(* Every line names the request it was made for, only a request that is    *)
(* about to release has something to give back, and what was lost belongs  *)
(* to a request that has no order and will have none.                      *)
LinesAreTagged ==
    /\ \A r \in Requests : \A l \in lines[r] \cup refund[r] : l.order = r
    /\ \A o \in orders : \A l \in o.lines : l.order = o.id
    /\ \A r \in Requests : refund[r] # {} => pc[r] = "release"
    /\ \A l \in lost : /\ pc[l.order] \in {"release", "done"}
                        /\ \A o \in orders : o.id # l.order

(* StockAccounted when B2B has also given the lines in gone back: nothing  *)
(* in checkout() does that (gone = {}), cancellation does.                 *)
Accounted(gone) ==
    /\ gone \subseteq Ordered
    /\ held = lost \cup (Ordered \ gone) \cup InFlight
    /\ lost \cap (Ordered \cup InFlight) = {}
    /\ Ordered \cap InFlight = {}

(* The invariant behind StockAccounted: lines of different requests are    *)
(* never equal, so nothing is counted twice.                               *)
StockInv == AnswerInv /\ LinesAreTagged

(* A step after which the request that moved is owed nothing, as before.   *)
LEMMA StockQuiet ==
    ASSUME StockInv, NEW gone, Accounted(gone),
           NEW r \in Requests, NEW step, UNCHANGED <<held, lost, orders>>,
           pc' = [pc EXCEPT ![r] = step], step \notin {"commit", "release"},
           pc[r] \notin {"commit", "done"}, refund[r] = {},
           refund' = [refund EXCEPT ![r] = {}],
           pc[r] = "release" => step = "done",
           NEW ls, lines' = [lines EXCEPT ![r] = ls], \A l \in ls : l.order = r
    PROVE  LinesAreTagged' /\ Accounted(gone)'
<1> USE DEF StockInv, AnswerInv, TypeOK
<1>1. \A q \in Requests : Owed(q)' = Owed(q)
  BY DEF Owed
<1>2. InFlight' = InFlight /\ Ordered' = Ordered
  BY <1>1 DEF InFlight, Ordered
<1>3. Accounted(gone)'
  BY <1>2 DEF Accounted
<1>4. LinesAreTagged'
  BY DEF LinesAreTagged, Line
<1> QED BY <1>3, <1>4

(* What is held with the tag of a request that is about to reserve: none.  *)
LEMMA NothingHeldYet ==
    ASSUME StockInv, NEW gone, Accounted(gone), NEW r \in Requests, pc[r] = "reserve"
    PROVE  /\ \A l \in held \cup Ordered : l.order # r
           /\ refund[r] = {} /\ Owed(r) = {}
<1>1. refund[r] = {} /\ Owed(r) = {}
  BY DEF StockInv, LinesAreTagged, Owed
<1>2. ASSUME NEW l \in held \cup Ordered, l.order = r PROVE FALSE
  <2>1. CASE l \in lost
    BY <1>2, <2>1 DEF StockInv, LinesAreTagged
  <2>2. CASE l \in Ordered
    BY <1>2, <2>2 DEF StockInv, AnswerInv, ProgressInv, LinesAreTagged, Ordered
  <2>3. CASE l \in InFlight
    <3>1. PICK q \in Requests : l \in Owed(q)
      BY <2>3 DEF InFlight
    <3>2. q = r
      BY <1>2, <3>1 DEF StockInv, LinesAreTagged, Owed
    <3> QED BY <1>1, <3>1, <3>2
  <2> QED BY <2>1, <2>2, <2>3 DEF Accounted
<1> QED BY <1>1, <1>2

(* Every step keeps the books of the stock.                                *)
LEMMA StockStep ==
    ASSUME StockInv, NEW gone, Accounted(gone), [Next]_vars
    PROVE  LinesAreTagged' /\ Accounted(gone)'
<1> DEFINE Goal == LinesAreTagged' /\ Accounted(gone)'
<1>1. ASSUME NEW r \in Requests,
             \/ FindKey(r) \/ ReadCart(r) \/ Enrich(r) \/ InsertOrder(r)
             \/ ReplayWinner(r) \/ ReserveFailed(r) \/ Answer(r)
      PROVE  Goal
  <2>1. /\ UNCHANGED <<held, lost, orders>>
        /\ pc[r] \notin {"commit", "done"}
        /\ refund[r] = {}
    BY <1>1 DEF FindKey, ReadCart, Enrich, InsertOrder, ReplayWinner, ReserveFailed, Answer,
                StockInv, LinesAreTagged
  <2>2. PICK step \in {"cart", "enrich", "insert", "reserve", "conflict", "done"} :
            pc' = [pc EXCEPT ![r] = step] /\ (pc[r] = "release" => step = "done")
    BY <1>1 DEF FindKey, ReadCart, Enrich, InsertOrder, ReplayWinner, ReserveFailed, Answer,
                Replay, Refuse, Finish, GoTo
  <2>3. refund' = [refund EXCEPT ![r] = {}]
    BY <1>1, <2>1 DEF FindKey, ReadCart, Enrich, InsertOrder, ReplayWinner, ReserveFailed,
                      Answer, Replay, Refuse, Finish, StockInv, AnswerInv, TypeOK
  <2>4. \E ls : lines' = [lines EXCEPT ![r] = ls] /\ \A l \in ls : l.order = r
    <3>1. CASE lines' = [lines EXCEPT ![r] = {}]
      <4>1. lines'[r] = {}
        BY <3>1 DEF StockInv, AnswerInv, TypeOK
      <4> WITNESS lines'[r]
      <4> QED BY <3>1, <4>1
    <3>2. CASE UNCHANGED lines
      <4>1. lines' = [lines EXCEPT ![r] = lines[r]]
        BY <3>2 DEF StockInv, AnswerInv, TypeOK
      <4> QED BY <4>1 DEF StockInv, LinesAreTagged
    <3>4. CASE Enrich(r)
      BY <3>1, <3>4, EnrichStep DEF Refuse, Finish, StockInv, AnswerInv
    <3>5. CASE ~Enrich(r)
      BY <1>1, <3>1, <3>2, <3>5
         DEF FindKey, ReadCart, InsertOrder, ReplayWinner, ReserveFailed, Answer,
             Replay, Refuse, Finish
    <3> QED BY <3>4, <3>5
  <2> QED BY <2>1, <2>2, <2>3, <2>4, StockQuiet
<1>2. ASSUME NEW r \in Requests, Reserve(r) PROVE Goal
  <2>1. PICK done \in SUBSET lines[r] :
            /\ held' = held \cup done
            /\ \/ /\ done = lines[r] /\ pc' = [pc EXCEPT ![r] = "commit"]
                  /\ refund' = refund
               \/ /\ pc' = [pc EXCEPT ![r] = "release"]
                  /\ refund' = [refund EXCEPT ![r] = done]
    BY <1>2 DEF Reserve, GoTo
  <2>2. pc[r] = "reserve" /\ UNCHANGED <<orders, lines, lost>>
    BY <1>2 DEF Reserve
  <2>3. refund[r] = {} /\ Owed(r) = {} /\ \A l \in held \cup Ordered : l.order # r
    BY <2>2, NothingHeldYet
  <2>4. Owed(r)' = done /\ \A q \in Requests \ {r} : Owed(q)' = Owed(q)
    BY <2>1, <2>2 DEF Owed, StockInv, AnswerInv, TypeOK
  <2>5. InFlight' = InFlight \cup done
    BY <2>3, <2>4 DEF InFlight
  <2>6. Ordered' = Ordered
    BY <2>2 DEF Ordered
  <2>7. done \cap (held \cup Ordered) = {}
    BY <2>3 DEF StockInv, LinesAreTagged
  <2>8. Accounted(gone)'
    BY <2>1, <2>2, <2>5, <2>6, <2>7 DEF Accounted
  <2>9. LinesAreTagged'
    BY <2>1, <2>2, <2>3 DEF LinesAreTagged, StockInv, AnswerInv, TypeOK, Line, Steps
  <2> QED BY <2>8, <2>9
<1>3. ASSUME NEW r \in Requests, ReserveError(r) PROVE Goal
  <2>1. PICK done \in SUBSET lines[r] : held' = held \cup done /\ lost' = lost \cup done
    BY <1>3 DEF ReserveError
  <2>2. /\ pc[r] = "reserve" /\ UNCHANGED orders
        /\ pc' = [pc EXCEPT ![r] = "done"]
        /\ lines' = [lines EXCEPT ![r] = {}]
        /\ refund' = [refund EXCEPT ![r] = {}]
    BY <1>3 DEF ReserveError, Refuse, Finish
  <2>3. refund[r] = {} /\ Owed(r) = {} /\ \A l \in held \cup Ordered : l.order # r
    BY <2>2, NothingHeldYet
  <2>4. \A q \in Requests : Owed(q)' = Owed(q)
    BY <2>2, <2>3 DEF Owed, StockInv, AnswerInv, TypeOK
  <2>5. InFlight' = InFlight /\ Ordered' = Ordered
    BY <2>2, <2>4 DEF InFlight, Ordered
  <2>6. done \cap (held \cup Ordered) = {}
    BY <2>3 DEF StockInv, LinesAreTagged
  <2>7. Accounted(gone)'
    BY <2>1, <2>5, <2>6 DEF Accounted
  <2>8. \A o \in orders : o.id # r
    BY <2>2 DEF StockInv, AnswerInv, ProgressInv
  <2>9. LinesAreTagged'
    BY <2>1, <2>2, <2>8 DEF LinesAreTagged, StockInv, AnswerInv, TypeOK, Line
  <2> QED BY <2>7, <2>9
<1>4. ASSUME NEW r \in Requests, Release(r) PROVE Goal
  <2>1. PICK l \in refund[r] :
            /\ refund' = [refund EXCEPT ![r] = @ \ {l}]
            /\ \/ held' = held \ {l} /\ UNCHANGED lost
               \/ lost' = lost \cup {l} /\ UNCHANGED held
    BY <1>4 DEF Release
  <2>2. pc[r] = "release" /\ UNCHANGED <<orders, pc, lines>>
    BY <1>4 DEF Release
  <2>3. l.order = r /\ l \in Owed(r) /\ Owed(r)' = Owed(r) \ {l}
    BY <2>1, <2>2 DEF Owed, StockInv, LinesAreTagged, AnswerInv, TypeOK
  <2>4. \A q \in Requests \ {r} : Owed(q)' = Owed(q) /\ l \notin Owed(q)
    BY <2>1, <2>2, <2>3 DEF Owed, StockInv, LinesAreTagged, AnswerInv, TypeOK
  <2>5. l \in InFlight /\ InFlight' = InFlight \ {l} /\ Ordered' = Ordered
    BY <2>2, <2>3, <2>4 DEF InFlight, Ordered
  <2>6. Accounted(gone)'
    BY <2>1, <2>5 DEF Accounted
  <2>7. \A o \in orders : o.id # r
    BY <2>2 DEF StockInv, AnswerInv, ProgressInv
  <2>8. LinesAreTagged'
    BY <2>1, <2>2, <2>3, <2>7 DEF LinesAreTagged, StockInv, AnswerInv, TypeOK
  <2> QED BY <2>6, <2>8
<1>5. ASSUME NEW r \in Requests, CommitOrder(r) PROVE Goal
  <2> DEFINE new == [id |-> r, user |-> UserOf[r], key |-> KeyOf[r], body |-> BodyOf[r],
                     lines |-> lines[r]]
  <2>1. /\ orders' = orders \cup {new} /\ pc[r] = "commit"
        /\ pc' = [pc EXCEPT ![r] = "answer"] /\ UNCHANGED <<lines, refund, held, lost>>
    BY <1>5 DEF CommitOrder, GoTo
  <2>2. Owed(r) = lines[r] /\ Owed(r)' = {} /\ refund[r] = {}
    BY <2>1 DEF Owed, StockInv, LinesAreTagged, AnswerInv, TypeOK
  <2>3. \A q \in Requests \ {r} : Owed(q)' = Owed(q) /\ Owed(q) \cap lines[r] = {}
    BY <2>1 DEF Owed, StockInv, LinesAreTagged, AnswerInv, TypeOK
  <2>4. Ordered' = Ordered \cup lines[r]
    <3>1. new.lines = lines[r]
      OBVIOUS
    <3>2. \A l : l \in Ordered' <=> \E o \in orders \cup {new} : l \in o.lines
      BY <2>1 DEF Ordered
    <3>3. \A l : l \in Ordered' <=> l \in Ordered \/ l \in new.lines
      BY <3>2 DEF Ordered
    <3> QED BY <3>1, <3>3
  <2>5. InFlight' = InFlight \ lines[r] /\ lines[r] \subseteq InFlight
    BY <2>2, <2>3 DEF InFlight
  <2>6. Accounted(gone)'
    BY <2>1, <2>4, <2>5 DEF Accounted
  <2>7. \A l \in lost : l.order # r
    BY <2>1 DEF StockInv, LinesAreTagged
  <2>8. LinesAreTagged'
    <3>1. \A l \in new.lines : l.order = new.id
      BY DEF StockInv, LinesAreTagged
    <3> QED BY <2>1, <2>2, <2>7, <3>1 DEF LinesAreTagged, StockInv, AnswerInv, TypeOK, Line
  <2> QED BY <2>6, <2>8
<1>6. ASSUME NEW r \in Requests, Crash(r) PROVE Goal
  <2>1. /\ UNCHANGED <<orders, held>> /\ lost' = lost \cup Owed(r)
        /\ pc[r] # "done" /\ pc' = [pc EXCEPT ![r] = "done"]
        /\ lines' = [lines EXCEPT ![r] = {}]
        /\ refund' = [refund EXCEPT ![r] = {}]
    BY <1>6 DEF Crash, Refuse, Finish
  <2>2. Owed(r)' = {} /\ \A l \in Owed(r) : l.order = r
    BY <2>1 DEF Owed, StockInv, LinesAreTagged, AnswerInv, TypeOK
  <2>3. \A q \in Requests \ {r} : Owed(q)' = Owed(q) /\ Owed(q) \cap Owed(r) = {}
    BY <2>1 DEF Owed, StockInv, LinesAreTagged, AnswerInv, TypeOK
  <2>4. InFlight' = InFlight \ Owed(r) /\ Owed(r) \subseteq InFlight
    BY <2>2, <2>3 DEF InFlight
  <2>5. Ordered' = Ordered
    BY <2>1 DEF Ordered
  <2>6. Accounted(gone)'
    BY <2>1, <2>4, <2>5 DEF Accounted
  <2>7. Owed(r) # {} => \A o \in orders : o.id # r
    BY DEF Owed, StockInv, LinesAreTagged, AnswerInv, ProgressInv
  <2>8. LinesAreTagged'
    BY <2>1, <2>2, <2>7 DEF LinesAreTagged, StockInv, AnswerInv, TypeOK, Line
  <2> QED BY <2>6, <2>8
<1>7. CASE EditCart \/ UNCHANGED vars
  <2>1. UNCHANGED <<orders, pc, lines, refund, held, lost>>
    BY <1>7 DEF EditCart, AddRow, SetQuantity, RemoveRow, CartOnly, vars
  <2>2. InFlight' = InFlight /\ Ordered' = Ordered
    BY <2>1 DEF InFlight, Owed, Ordered
  <2> QED BY <2>1, <2>2 DEF StockInv, Accounted, LinesAreTagged
<1> QED BY <1>1, <1>2, <1>3, <1>4, <1>5, <1>6, <1>7 DEF Next, Step, Handle

(* The books are right in every behaviour.                                 *)
LEMMA StockInvariant == Spec => [](StockInv /\ Accounted({}))
<1>1. Init => LinesAreTagged /\ Accounted({})
  BY DEF Init, LinesAreTagged, Accounted, InFlight, Ordered, Owed
<1>2. AnswerInv /\ LinesAreTagged /\ Accounted({}) /\ [Next]_vars
        => LinesAreTagged' /\ Accounted({})'
  BY StockStep DEF StockInv
<1> QED BY <1>1, <1>2, AnswerInvariant, PTL DEF Spec, StockInv

(* Every unit that B2B holds is accounted for, once, for any number of     *)
(* requests and faults: the compensation neither leaks nor doubles.        *)
THEOREM StockIsAccounted == Spec => []StockAccounted
<1>1. Accounted({}) => StockAccounted
  BY DEF Accounted, StockAccounted
<1> QED BY <1>1, StockInvariant, PTL

-----------------------------------------------------------------------------
(* Requests that left reserved stock behind.                               *)
Losers == {l.order : l \in lost}

(* Each of them has had its fault, and an order has the key of its request.*)
LossInv ==
    /\ IsFiniteSet(Losers) /\ Cardinality(Losers) <= faults
    /\ \A o \in orders : o.key = KeyOf[o.id]

(* A step that loses lines is a fault, and they are lines of one request.  *)
LEMMA LossStep == ASSUME StockInv, LossInv, [Next]_vars PROVE LossInv'
<1>1. \/ lost' = lost /\ faults' \in Nat /\ faults' >= faults
      \/ faults' = faults + 1 /\ \E r \in Requests : \A l \in lost' : l \in lost \/ l.order = r
  <2> USE QuantityAssumption DEF StockInv, AnswerInv, TypeOK
  <2>1. ASSUME NEW r \in Requests, ReserveError(r)
        PROVE  faults' = faults + 1 /\ \A l \in lost' : l \in lost \/ l.order = r
    BY <2>1 DEF ReserveError, Fault, LinesAreTagged
  <2>2. ASSUME NEW r \in Requests, Release(r)
        PROVE  \/ lost' = lost /\ faults' = faults
               \/ faults' = faults + 1 /\ \A l \in lost' : l \in lost \/ l.order = r
    BY <2>2 DEF Release, Fault, LinesAreTagged
  <2>3. ASSUME NEW r \in Requests, Crash(r)
        PROVE  faults' = faults + 1 /\ \A l \in lost' : l \in lost \/ l.order = r
    BY <2>3 DEF Crash, Fault, Owed, LinesAreTagged
  <2>4. ASSUME NEW r \in Requests, Enrich(r)
        PROVE  lost' = lost /\ faults' \in Nat /\ faults' >= faults
    BY <2>4, EnrichStep
  <2>5. CASE \/ \E r \in Requests : \/ FindKey(r) \/ ReadCart(r) \/ InsertOrder(r)
                                    \/ ReplayWinner(r) \/ Reserve(r) \/ ReserveFailed(r)
                                    \/ Answer(r) \/ CommitOrder(r)
             \/ EditCart \/ UNCHANGED vars
    BY <2>5 DEF FindKey, ReadCart, InsertOrder, ReplayWinner, Reserve, ReserveFailed, Answer,
                CommitOrder, EditCart, AddRow, SetQuantity, RemoveRow, CartOnly, vars
  <2> QED BY <2>1, <2>2, <2>3, <2>4, <2>5 DEF Next, Step, Handle
<1>2. faults \in Nat /\ Cardinality(Losers) \in Nat
  BY FS_CardinalityType DEF StockInv, AnswerInv, TypeOK, LossInv
<1>3. IsFiniteSet(Losers') /\ Cardinality(Losers') <= faults'
  <2>1. CASE lost' = lost /\ faults' \in Nat /\ faults' >= faults
    <3>1. Losers' = Losers
      BY <2>1 DEF Losers
    <3> QED BY <1>2, <2>1, <3>1 DEF LossInv
  <2>2. ASSUME faults' = faults + 1, NEW r \in Requests,
               \A l \in lost' : l \in lost \/ l.order = r
        PROVE  IsFiniteSet(Losers') /\ Cardinality(Losers') <= faults'
    <3>1. Losers' \in SUBSET (Losers \cup {r})
      BY <2>2 DEF Losers
    <3>2. /\ IsFiniteSet(Losers \cup {r})
          /\ Cardinality(Losers \cup {r}) \in {Cardinality(Losers), Cardinality(Losers) + 1}
      BY FS_AddElement DEF LossInv
    <3>3. /\ IsFiniteSet(Losers') /\ Cardinality(Losers') \in Nat
          /\ Cardinality(Losers') <= Cardinality(Losers \cup {r})
      BY <3>1, <3>2, FS_Subset, FS_CardinalityType
    <3> QED BY <1>2, <2>2, <3>2, <3>3 DEF LossInv
  <2> QED BY <1>1, <2>1, <2>2
<1>4. \A o \in orders' : o.key = KeyOf[o.id]
  <2>1. ASSUME NEW r \in Requests, CommitOrder(r) PROVE \A o \in orders' : o.key = KeyOf[o.id]
    BY <2>1 DEF CommitOrder, LossInv
  <2>2. CASE ~ \E r \in Requests : CommitOrder(r)
    <3>1. orders' = orders
      BY <2>2 DEF Next, Step, Handle, FindKey, ReadCart, Enrich, InsertOrder, ReplayWinner,
                  Reserve, ReserveError, Release, ReserveFailed, Answer, Crash,
                  EditCart, AddRow, SetQuantity, RemoveRow, CartOnly, vars
    <3> QED BY <3>1 DEF LossInv
  <2> QED BY <2>1, <2>2
<1> QED BY <1>3, <1>4 DEF LossInv

(* Stock is held for a key by one request, and by one more for each fault, *)
(* for any number of requests of the key.                                  *)
THEOREM KeysReserveOnce == Spec => []KeyReservesOnce
<1>1. Init => LossInv
  BY FS_EmptySet DEF Init, LossInv, Losers
<1>2. StockInv /\ LossInv /\ [Next]_vars => LossInv'
  BY LossStep
<1>3. StockInv /\ Accounted({}) /\ KeyInv /\ LossInv => KeyReservesOnce
  <2> SUFFICES ASSUME StockInv, Accounted({}), KeyInv, LossInv, NEW k \in Keys
               PROVE  Cardinality(Holders(k)) <= 1 + faults
    BY DEF KeyReservesOnce
  <2> DEFINE Owns(r) == KeyOf[r] = k /\ (pc[r] = "commit" \/ \E o \in orders : o.id = r)
  <2>1. ASSUME NEW r \in Holders(k), r \notin Losers PROVE r \in Requests /\ Owns(r)
    <3>1. PICK l \in held \ refund[r] : l.order = r
      BY DEF Holders
    <3>2. l \notin lost
      BY <2>1, <3>1 DEF Losers
    <3>3. CASE l \in Ordered
      BY <3>1, <3>3 DEF Ordered, StockInv, LinesAreTagged, Holders
    <3>4. CASE l \in InFlight
      <4>1. PICK q \in Requests : l \in Owed(q)
        BY <3>4 DEF InFlight
      <4>2. q = r
        BY <3>1, <4>1 DEF Owed, StockInv, LinesAreTagged
      <4> QED BY <3>1, <4>1, <4>2 DEF Owed, Holders
    <3> QED BY <3>1, <3>2, <3>3, <3>4 DEF Accounted
  <2>2. ASSUME NEW r \in Requests, NEW q \in Requests, Owns(r), Owns(q) PROVE r = q
    BY <2>2 DEF KeyInv, KeyClaimedOnce, OneOrderPerKey, OrdersWithKey, LossInv
  <2> HIDE DEF Owns
  <2>3. \E own : Holders(k) \in SUBSET (Losers \cup {own})
    <3>1. CASE \E own \in Requests : Owns(own)
      BY <2>1, <2>2, <3>1
    <3>2. CASE ~ \E own \in Requests : Owns(own)
      BY <2>1, <3>2
    <3> QED BY <3>1, <3>2
  <2>4. PICK own : Holders(k) \in SUBSET (Losers \cup {own})
    BY <2>3
  <2>5. /\ IsFiniteSet(Losers \cup {own})
        /\ Cardinality(Losers \cup {own}) \in {Cardinality(Losers), Cardinality(Losers) + 1}
    BY FS_AddElement DEF LossInv
  <2>6. /\ Cardinality(Holders(k)) \in Nat /\ Cardinality(Losers) \in Nat
        /\ Cardinality(Holders(k)) <= Cardinality(Losers \cup {own})
    BY <2>4, <2>5, FS_Subset, FS_CardinalityType DEF LossInv
  <2>7. faults \in Nat
    BY DEF StockInv, AnswerInv, TypeOK
  <2> QED BY <2>5, <2>6, <2>7 DEF LossInv
<1> QED BY <1>1, <1>2, <1>3, StockInvariant, KeyInvariant, PTL DEF Spec

-----------------------------------------------------------------------------
(* Dividing by d leaves a quotient and a remainder.                        *)
LEMMA DivisionIs ==
    ASSUME NEW d \in Nat \ {0}, NEW n \in Nat
    PROVE  /\ n \div d \in Nat /\ n % d \in 0 .. d - 1
           /\ n = d * (n \div d) + (n % d)
  OBVIOUS

(* A price is rounded by at most half a unit, up or down.                  *)
LEMMA RoundedIsNear ==
    ASSUME NEW price \in Nat
    PROVE  /\ Rounded(price) \in Nat
           /\ 2 * (Scale * Rounded(price) - price) \in -Scale .. Scale
<1> DEFINE whole == price \div Scale
           rest == price % Scale
<1>1. Scale \in Nat \ {0}
  BY QuantityAssumption
<1>2. whole \in Nat /\ rest \in 0 .. Scale - 1 /\ price = Scale * whole + rest
  BY <1>1, DivisionIs
<1>3. Rounded(price) \in {whole, whole + 1}
  BY DEF Rounded
<1> HIDE DEF whole, rest
<1>4. CASE Rounded(price) = whole
  <2>1. 2 * rest <= Scale
    BY <1>1, <1>2, <1>4 DEF Rounded, whole, rest
  <2>2. Scale * Rounded(price) - price = -rest
    BY <1>1, <1>2, <1>4
  <2> QED BY <1>1, <1>2, <1>4, <2>1, <2>2
<1>5. CASE Rounded(price) = whole + 1
  <2>1. 2 * rest >= Scale
    BY <1>1, <1>2, <1>5 DEF Rounded, whole, rest
  <2>2. Scale * Rounded(price) - price = Scale - rest
    BY <1>1, <1>2, <1>5
  <2> QED BY <1>1, <1>2, <1>5, <2>1, <2>2
<1> QED BY <1>3, <1>4, <1>5

(* Of some positions of a sequence one is the last.                        *)
LEMMA LastPosition ==
    ASSUME NEW n \in Nat, NEW S \in SUBSET (1 .. n), S # {}
    PROVE  \E m \in S : \A x \in S : x <= m
<1> DEFINE gaps == {n - x : x \in S}
<1>1. gaps \in SUBSET Nat /\ gaps # {}
  BY \A x \in S : x \in 1 .. n /\ n - x \in Nat
<1> HIDE DEF gaps
<1>2. PICK g \in gaps : \A h \in gaps : ~ (<<h, g>> \in OpToRel(<, Nat))
  BY <1>1, WFMin, NatLessThanWellFounded
<1>3. PICK m \in S : g = n - m
  BY <1>2 DEF gaps
<1>4. ASSUME NEW x \in S PROVE x <= m
  <2>1. n - x \in gaps /\ n - x \in Nat /\ g \in Nat /\ x \in Nat /\ m \in Nat
    BY <1>1, <1>3 DEF gaps
  <2>2. ~ (n - x < g)
    BY <1>2, <2>1 DEF OpToRel
  <2> QED BY <1>3, <2>1, <2>2
<1> QED BY <1>4

(* Every SKU of a snapshot has a line that counts.                         *)
LEMMA LastLineExists ==
    ASSUME NEW snapshot \in Seq(SnapshotLine)
    PROVE  /\ LastLines(snapshot) \subseteq SnapshotLine
           /\ {x.sku : x \in LastLines(snapshot)} = {snapshot[i].sku : i \in DOMAIN snapshot}
<1>1. DOMAIN snapshot = 1 .. Len(snapshot) /\ Len(snapshot) \in Nat
      /\ \A i \in DOMAIN snapshot : snapshot[i] \in SnapshotLine
  OBVIOUS
<1>2. ASSUME NEW i \in DOMAIN snapshot
      PROVE  \E x \in LastLines(snapshot) : x.sku = snapshot[i].sku
  <2> DEFINE same == {j \in DOMAIN snapshot : snapshot[j].sku = snapshot[i].sku}
  <2>1. same \in SUBSET (1 .. Len(snapshot)) /\ same # {}
    BY <1>1
  <2>2. PICK j \in same : \A k \in same : k <= j
    <3> HIDE DEF same
    <3> QED BY <1>1, <2>1, LastPosition
  <2>3. snapshot[j] \in LastLines(snapshot) /\ snapshot[j].sku = snapshot[i].sku
    BY <1>1, <2>2 DEF LastLines
  <2> QED BY <2>3
<1> QED BY <1>1, <1>2 DEF LastLines

(* What the client saw is in the lines of a request from the enrichment    *)
(* on, because no two rows of a buyer are for one SKU.                     *)
SnapshotInv ==
    /\ \A v, w \in rows : v.user = w.user /\ v.sku = w.sku => v = w
    /\ \A r \in Requests : OneRowEach(cart[r]) /\ OneRowEach(lines[r])
    /\ \A r \in Requests : lines[r] # {} /\ SnapshotOf[BodyOf[r]] # <<>> =>
          AsSeen(SnapshotOf[BodyOf[r]], lines[r])
    /\ SnapshotHonoured

(* When every SKU has one line, actual is all the lines.                   *)
LEMMA CollapsedAll ==
    ASSUME NEW ls, OneRowEach(ls), NEW keep \in Collapsed(ls)
    PROVE  keep = ls
<1>1. keep \subseteq ls /\ {l.sku : l \in keep} = {l.sku : l \in ls}
  BY DEF Collapsed
<1>2. ASSUME NEW l \in ls PROVE l \in keep
  <2>1. PICK m \in keep : m.sku = l.sku
    BY <1>1
  <2> QED BY <1>1, <2>1 DEF OneRowEach
<1> QED BY <1>1, <1>2

(* What the comparison lets through is as the client saw it.               *)
LEMMA MatchIsSeen ==
    ASSUME NEW snapshot \in Seq(SnapshotLine), NEW ls \in SUBSET Line, OneRowEach(ls),
           Matches(snapshot, ls)
    PROVE  AsSeen(snapshot, ls)
<1>1. {l.sku : l \in ls} = {snapshot[i].sku : i \in DOMAIN snapshot}
  BY LastLineExists DEF Matches
<1>2. ASSUME NEW l \in ls, NEW x \in LastLines(snapshot), x.sku = l.sku
      PROVE  x.qty = l.qty /\ 2 * (Scale * x.price - l.price) \in -Scale .. Scale
  <2>1. x.qty = l.qty /\ x.price = Rounded(l.price)
    BY <1>2 DEF Matches
  <2>2. l.price \in Nat
    BY QuantityAssumption DEF Line
  <2> QED BY <2>1, <2>2, RoundedIsNear
<1> QED BY <1>1, <1>2 DEF AsSeen, OneRowEach

(* With one row per SKU and buyer every step keeps it.                     *)
LEMMA SnapshotStep ==
    ASSUME UniqueRows, TypeOK, ProgressInv, SnapshotInv, [Next]_vars
    PROVE  SnapshotInv'
<1>1. ASSUME NEW r \in Requests, ReadCart(r) PROVE SnapshotInv'
  <2>1. OneRowEach({w \in rows : w.user = UserOf[r]})
    BY DEF SnapshotInv, OneRowEach
  <2>2. UNCHANGED <<rows, orders>> /\ lines' \in {lines, [lines EXCEPT ![r] = {}]}
    BY <1>1 DEF ReadCart, Refuse, Finish
  <2>3. \/ cart' = [cart EXCEPT ![r] = {}]
        \/ cart' = [cart EXCEPT ![r] = {w \in rows : w.user = UserOf[r]}]
    BY <1>1 DEF ReadCart, Refuse, Finish
  <2> QED BY <2>1, <2>2, <2>3 DEF SnapshotInv, SnapshotHonoured, OneRowEach, TypeOK
<1>2. ASSUME NEW r \in Requests, Enrich(r) PROVE SnapshotInv'
  <2>1. UNCHANGED <<rows, orders>>
    BY <1>2 DEF Enrich
  <2>2. CASE \E code : Refuse(r, code)
    BY <2>1, <2>2 DEF Refuse, Finish, SnapshotInv, SnapshotHonoured, OneRowEach, TypeOK
  <2>3. CASE ~\E code : Refuse(r, code)
    <3>1. PICK new \in SUBSET Line :
              /\ lines' = [lines EXCEPT ![r] = new] /\ UNCHANGED cart
              /\ OneRowEach(cart[r]) => OneRowEach(new)
              /\ \/ SnapshotOf[BodyOf[r]] = <<>>
                 \/ \E actual \in Collapsed(new) : Matches(SnapshotOf[BodyOf[r]], actual)
      BY <1>2, <2>3, EnrichStep
    <3>2. OneRowEach(new)
      BY <3>1 DEF SnapshotInv
    <3>3. SnapshotOf[BodyOf[r]] = <<>> \/ AsSeen(SnapshotOf[BodyOf[r]], new)
      <4>1. SnapshotOf[BodyOf[r]] \in Seq(SnapshotLine)
        BY RequestAssumption
      <4> QED BY <3>1, <3>2, <4>1, CollapsedAll, MatchIsSeen
    <3> QED BY <2>1, <3>1, <3>2, <3>3 DEF SnapshotInv, SnapshotHonoured, TypeOK
  <2> QED BY <2>2, <2>3
<1>3. ASSUME NEW r \in Requests, CommitOrder(r) PROVE SnapshotInv'
  <2> DEFINE new == [id |-> r, user |-> UserOf[r], key |-> KeyOf[r], body |-> BodyOf[r],
                     lines |-> lines[r]]
  <2>1. /\ orders' = orders \cup {new} /\ rows' \subseteq rows
        /\ UNCHANGED <<cart, lines>> /\ lines[r] # {}
    BY <1>3 DEF CommitOrder, ProgressInv
  <2>2. SnapshotHonoured'
    BY <2>1 DEF SnapshotInv, SnapshotHonoured, OneRowEach
  <2> QED BY <2>1, <2>2 DEF SnapshotInv, OneRowEach
<1>4. ASSUME NEW r \in Requests, Handle(r) \/ Crash(r), ~ReadCart(r), ~Enrich(r)
      PROVE  SnapshotInv'
  <2>1. /\ UNCHANGED <<rows, orders>>
        /\ \/ UNCHANGED <<cart, lines>>
           \/ cart' = [cart EXCEPT ![r] = {}] /\ lines' = [lines EXCEPT ![r] = {}]
    <3>1. CASE FindKey(r) \/ ReplayWinner(r) \/ Answer(r) \/ Crash(r)
      BY <3>1 DEF FindKey, ReplayWinner, Answer, Crash, Replay, Refuse, Finish
    <3>2. CASE \/ InsertOrder(r) \/ Reserve(r) \/ ReserveError(r) \/ Release(r)
               \/ ReserveFailed(r)
      BY <3>2 DEF InsertOrder, Reserve, ReserveError, Release, ReserveFailed, Refuse, Finish
    <3> QED BY <1>4, <3>1, <3>2 DEF Handle
  <2> QED BY <2>1 DEF SnapshotInv, SnapshotHonoured, OneRowEach, TypeOK
<1>5. CASE EditCart
  <2>1. UNCHANGED <<orders, cart, lines>>
    BY <1>5 DEF EditCart, AddRow, SetQuantity, RemoveRow, CartOnly
  <2>2. \A v, w \in rows' : v.user = w.user /\ v.sku = w.sku => v = w
    <3>1. CASE AddRow \/ RemoveRow
      BY <3>1 DEF AddRow, RemoveRow, SnapshotInv
    <3>2. CASE SetQuantity
      <4>1. PICK w \in rows, q \in Quantities :
                rows' = (rows \ {w}) \cup {[w EXCEPT !.qty = q]}
        BY <3>2 DEF SetQuantity
      <4> DEFINE new == [w EXCEPT !.qty = q]
      <4>2. new.user = w.user /\ new.sku = w.sku
        BY DEF TypeOK, Row
      <4>3. rows' = (rows \ {w}) \cup {new}
        BY <4>1
      <4> HIDE DEF new
      <4> QED BY <4>2, <4>3 DEF SnapshotInv
    <3> QED BY <1>5, <3>1, <3>2 DEF EditCart
  <2> QED BY <2>1, <2>2 DEF SnapshotInv, SnapshotHonoured
<1>6. CASE UNCHANGED vars
  BY <1>6 DEF vars, SnapshotInv, SnapshotHonoured
<1> QED BY <1>1, <1>2, <1>3, <1>4, <1>5, <1>6 DEF Next, Step

(* As long as no buyer has two rows for one SKU, an order made from a      *)
(* snapshot is what the client saw.  The hypothesis is needed: without it  *)
(* the run checkout_duplicate_rows finds an order that is not.             *)
THEOREM SnapshotsAreHonoured == UniqueRows => (Spec => []SnapshotHonoured)
<1> SUFFICES ASSUME UniqueRows PROVE Spec => []SnapshotHonoured
  OBVIOUS
<1>1. Init => SnapshotInv
  BY DEF Init, SnapshotInv, SnapshotHonoured, OneRowEach
<1>2. TypeOK /\ ProgressInv /\ SnapshotInv /\ [Next]_vars => SnapshotInv'
  BY SnapshotStep
<1>3. SnapshotInv => SnapshotHonoured
  BY DEF SnapshotInv
<1> QED BY <1>1, <1>2, <1>3, AnswerInvariant, PTL DEF Spec, AnswerInv

-----------------------------------------------------------------------------
(* A row of the cart that a checkout has read still is the same buyer's,   *)
(* and so is deleted with the buyer's cart.                                *)
OwnerInv ==
    /\ \A v, w \in rows : v.id = w.id => v = w
    /\ \A r \in Requests : \A w \in rows :
          /\ \A c \in cart[r] : c.id = w.id => w.user = UserOf[r]
          /\ \A l \in lines[r] : l.row = w.id => w.user = UserOf[r]
    /\ BoughtRowsAreGone

(* Every step keeps the owner of a row that was read.                      *)
LEMMA OwnerStep == ASSUME TypeOK, OwnerInv, [Next]_vars PROVE OwnerInv'
<1>1. ASSUME NEW r \in Requests, Handle(r) \/ Crash(r), ~ReadCart(r), ~Enrich(r)
      PROVE  OwnerInv'
  <2>1. /\ UNCHANGED <<rows, orders>>
        /\ \/ UNCHANGED <<cart, lines>>
           \/ cart' = [cart EXCEPT ![r] = {}] /\ lines' = [lines EXCEPT ![r] = {}]
    <3>1. CASE FindKey(r) \/ ReplayWinner(r) \/ Answer(r) \/ Crash(r)
      BY <3>1 DEF FindKey, ReplayWinner, Answer, Crash, Replay, Refuse, Finish
    <3>2. CASE \/ InsertOrder(r) \/ Reserve(r) \/ ReserveError(r) \/ Release(r)
               \/ ReserveFailed(r)
      BY <3>2 DEF InsertOrder, Reserve, ReserveError, Release, ReserveFailed, Refuse, Finish
    <3> QED BY <1>1, <3>1, <3>2 DEF Handle
  <2> QED BY <2>1 DEF OwnerInv, BoughtRowsAreGone, TypeOK
<1>2. ASSUME NEW r \in Requests, ReadCart(r) PROVE OwnerInv'
  <2>1. UNCHANGED <<rows, orders>> /\ lines' \in {lines, [lines EXCEPT ![r] = {}]}
    BY <1>2 DEF ReadCart, Refuse, Finish
  <2>2. \/ cart' = [cart EXCEPT ![r] = {}]
        \/ cart' = [cart EXCEPT ![r] = {w \in rows : w.user = UserOf[r]}]
    BY <1>2 DEF ReadCart, Refuse, Finish
  <2> QED BY <2>1, <2>2 DEF OwnerInv, BoughtRowsAreGone, TypeOK
<1>3. ASSUME NEW r \in Requests, Enrich(r) PROVE OwnerInv'
  <2>1. UNCHANGED <<rows, orders>>
    BY <1>3 DEF Enrich
  <2>2. CASE \E code : Refuse(r, code)
    BY <2>1, <2>2 DEF Refuse, Finish, OwnerInv, BoughtRowsAreGone, TypeOK
  <2>3. CASE ~\E code : Refuse(r, code)
    <3>1. UNCHANGED cart /\ \E ls : /\ lines' = [lines EXCEPT ![r] = ls]
                                     /\ \A l \in ls : \E w \in cart[r] : l.row = w.id
      <4>1. PICK ls \in SUBSET Line :
                /\ lines' = [lines EXCEPT ![r] = ls] /\ UNCHANGED cart
                /\ \A l \in ls : l.order = r /\ \E w \in cart[r] : l.row = w.id
        BY <1>3, <2>3, EnrichStep
      <4> QED BY <4>1
    <3> QED BY <2>1, <3>1 DEF OwnerInv, BoughtRowsAreGone, TypeOK
  <2> QED BY <2>2, <2>3
<1>4. ASSUME NEW r \in Requests, CommitOrder(r) PROVE OwnerInv'
  <2> DEFINE new == [id |-> r, user |-> UserOf[r], key |-> KeyOf[r], body |-> BodyOf[r],
                     lines |-> lines[r]]
  <2>1. /\ orders' = orders \cup {new} /\ UNCHANGED <<cart, lines>>
        /\ rows' = {w \in rows : w.user # UserOf[r]}
    BY <1>4 DEF CommitOrder
  <2>2. \A l \in new.lines : \A w \in rows' : w.id # l.row
    BY <2>1 DEF OwnerInv
  <2>3. BoughtRowsAreGone'
    BY <2>1, <2>2 DEF OwnerInv, BoughtRowsAreGone
  <2> QED BY <2>1, <2>3 DEF OwnerInv
<1>5. CASE EditCart
  <2>1. UNCHANGED <<orders, cart, lines>>
    BY <1>5 DEF EditCart, AddRow, SetQuantity, RemoveRow, CartOnly
  <2>2. CASE RemoveRow
    BY <2>1, <2>2 DEF RemoveRow, OwnerInv, BoughtRowsAreGone
  <2>3. CASE AddRow
    <3>1. PICK new \in Row : new.id \notin KnownIds /\ rows' = rows \cup {new}
      BY <2>3 DEF AddRow
    <3>2. /\ \A w \in rows : w.id # new.id
          /\ \A r \in Requests : /\ \A c \in cart[r] : c.id # new.id
                                 /\ \A l \in lines[r] : l.row # new.id
          /\ \A o \in orders : \A l \in o.lines : l.row # new.id
      BY <3>1 DEF KnownIds, Ordered
    <3> QED BY <2>1, <3>1, <3>2 DEF OwnerInv, BoughtRowsAreGone
  <2>4. CASE SetQuantity
    <3>1. PICK w \in rows, q \in Quantities :
              rows' = (rows \ {w}) \cup {[w EXCEPT !.qty = q]}
      BY <2>4 DEF SetQuantity
    <3> DEFINE new == [w EXCEPT !.qty = q]
    <3>2. new.user = w.user /\ new.id = w.id
      BY DEF TypeOK, Row
    <3>3. rows' = (rows \ {w}) \cup {new}
      BY <3>1
    <3> HIDE DEF new
    <3> QED BY <2>1, <3>2, <3>3 DEF OwnerInv, BoughtRowsAreGone
  <2> QED BY <1>5, <2>2, <2>3, <2>4 DEF EditCart
<1>6. CASE UNCHANGED vars
  BY <1>6 DEF vars, OwnerInv, BoughtRowsAreGone
<1> QED BY <1>1, <1>2, <1>3, <1>4, <1>5, <1>6 DEF Next, Step

(* The owners of rows that were read do not change.                        *)
LEMMA OwnerInvariant == Spec => []OwnerInv
<1>1. Init => OwnerInv
  BY DEF Init, OwnerInv, BoughtRowsAreGone
<1>2. TypeOK /\ OwnerInv /\ [Next]_vars => OwnerInv'
  BY OwnerStep
<1> QED BY <1>1, <1>2, StateIsWellTyped, PTL DEF Spec

(* What was ordered leaves the cart with the order, for any number of      *)
(* buyers, keys and concurrent edits of the cart.                          *)
THEOREM BoughtRowsStayGone == Spec => []BoughtRowsAreGone
BY OwnerInvariant, PTL DEF OwnerInv

-----------------------------------------------------------------------------
(* Fulfilment: the composition with cancellation.                          *)

allvars == <<vars, life>>

(* The lines that B2B has given back.                                      *)
Gone == UNION {o.lines : o \in {p \in orders : p.id \in released}}

(* A request makes one order, only an order whose request got past its     *)
(* commit has a life, and the life agrees with the release.                *)
LifeInv ==
    /\ \A o, p \in orders : o.id = p.id => o = p
    /\ status \in [Requests -> Life!Stages]
    /\ released \subseteq Requests
    /\ \A r \in Requests : status[r] # "none" => pc[r] \in {"answer", "done"}
    /\ \A r \in released : status[r] \in {"CANCEL_PENDING", "CANCELLED"}
    /\ \A r \in Requests : status[r] = "CANCELLED" => r \in released

(* The inductive invariant of the composition.                             *)
FulfilmentInv == StockInv /\ Accounted(Gone) /\ OwnerInv /\ LifeInv

-----------------------------------------------------------------------------
(* A step of checkout() or of the cart keeps everything.                   *)
LEMMA CheckoutStep ==
    ASSUME FulfilmentInv, [Next]_vars, released' = released,
           \A r \in released : orders' \ orders \subseteq {o \in orders' : o.id # r}
    PROVE  StockInv' /\ Accounted(Gone)' /\ OwnerInv'
<1>1. PICK gone : gone = Gone
  OBVIOUS
<1>2. LinesAreTagged' /\ Accounted(gone)'
  BY <1>1, StockStep DEF FulfilmentInv
<1>3. AnswerInv' /\ OwnerInv'
  BY AnswerStep, TypeStep, OwnerStep DEF FulfilmentInv, StockInv, AnswerInv
<1>4. orders \subseteq orders'
  BY DEF Next, Step, Handle, FindKey, ReadCart, Enrich, InsertOrder, ReplayWinner, Reserve,
         ReserveError, Release, ReserveFailed, CommitOrder, Answer, Crash,
         EditCart, AddRow, SetQuantity, RemoveRow, CartOnly, vars
<1>5. {p \in orders : p.id \in released} = {p \in orders' : p.id \in released'}
  BY <1>4
<1>6. Gone' = gone
  BY <1>1, <1>5 DEF Gone
<1> QED BY <1>2, <1>3, <1>6 DEF StockInv, Accounted

(* Every step keeps the invariant.                                         *)
LEMMA FulfilmentStep == FulfilmentInv /\ [FulfilmentNext]_allvars => FulfilmentInv'
<1> SUFFICES ASSUME FulfilmentInv, [FulfilmentNext]_allvars PROVE FulfilmentInv'
  OBVIOUS
<1> USE DEF LifeInv
<1>1. ASSUME NEW r \in Requests, CommitOrder(r), Life!Place(r) PROVE FulfilmentInv'
  <2>1. /\ status[r] = "none" /\ status' = [status EXCEPT ![r] = "PAID"]
        /\ UNCHANGED released
    BY <1>1 DEF Life!Place, Life!Becomes
  <2>2. pc' = [pc EXCEPT ![r] = "answer"]
    BY <1>1 DEF CommitOrder, GoTo
  <2>3. r \notin released
    BY <2>1 DEF FulfilmentInv
  <2>4. /\ \A o \in orders' \ orders : o.id = r
        /\ \A o, p \in orders' : o.id = p.id => o = p
    <3>1. \A o \in orders : o.id # r
      BY <1>1 DEF CommitOrder, FulfilmentInv, StockInv, AnswerInv, ProgressInv
    <3> QED BY <1>1, <3>1 DEF CommitOrder, FulfilmentInv
  <2>5. StockInv' /\ Accounted(Gone)' /\ OwnerInv'
    BY <1>1, <2>1, <2>3, <2>4, CheckoutStep DEF Next, Step
  <2>6. LifeInv'
    BY <2>1, <2>2, <2>4 DEF FulfilmentInv, StockInv, AnswerInv, TypeOK, Life!Stages
  <2> QED BY <2>5, <2>6 DEF FulfilmentInv
<1>2. ASSUME NEW r \in Requests, Handle(r) \/ Crash(r), UNCHANGED life PROVE FulfilmentInv'
  <2>1. orders' = orders
    BY <1>2 DEF Handle, FindKey, ReadCart, Enrich, InsertOrder, ReplayWinner, Reserve,
                ReserveError, Release, ReserveFailed, Answer, Crash
  <2>2. StockInv' /\ Accounted(Gone)' /\ OwnerInv'
    BY <1>2, <2>1, CheckoutStep DEF Next, Step, life
  <2>3. \A q \in Requests : pc[q] \in {"answer", "done"} => pc'[q] \in {"answer", "done"}
    <3>1. PICK step : /\ pc' = [pc EXCEPT ![r] = step]
                      /\ pc[r] = "answer" => step = "done"
                      /\ pc[r] = "done" => step = "done"
      <4>1. CASE Release(r)
        BY <4>1 DEF Release, FulfilmentInv, StockInv, AnswerInv, TypeOK
      <4>2. CASE ~Release(r)
        BY <1>2, <4>2 DEF Handle, FindKey, ReadCart, Enrich, InsertOrder, ReplayWinner, Reserve,
              ReserveError, ReserveFailed, Answer, Crash, Replay, Refuse, Finish, GoTo
      <4> QED BY <4>1, <4>2
    <3> QED BY <3>1 DEF FulfilmentInv, StockInv, AnswerInv, TypeOK
  <2>4. LifeInv'
    BY <1>2, <2>1, <2>3 DEF FulfilmentInv, life
  <2> QED BY <2>2, <2>4 DEF FulfilmentInv
<1>3. CASE EditCart /\ UNCHANGED life
  <2>1. UNCHANGED <<orders, pc>>
    BY <1>3 DEF EditCart, AddRow, SetQuantity, RemoveRow, CartOnly
  <2>2. StockInv' /\ Accounted(Gone)' /\ OwnerInv'
    BY <1>3, <2>1, CheckoutStep DEF Next, life
  <2> QED BY <1>3, <2>1, <2>2 DEF FulfilmentInv, life
<1>4. ASSUME NEW o \in orders, CancelStep(o) PROVE FulfilmentInv'
  <2>1. /\ UNCHANGED <<vars, released>> /\ o.id \in Requests
        /\ \/ status[o.id] = "PAID" /\ status' = [status EXCEPT ![o.id] = "CANCEL_PENDING"]
           \/ status[o.id] = "CANCEL_PENDING" /\ o.id \in released
                /\ status' = [status EXCEPT ![o.id] = "CANCELLED"]
           \/ status[o.id] = "CANCELLED" /\ status' = [status EXCEPT ![o.id] = "CANCEL_PENDING"]
    BY <1>4 DEF CancelStep, Life!Cancellation, Life!Accept, Life!Complete, Life!Reopen,
                Life!Becomes, FulfilmentInv, StockInv, AnswerInv, TypeOK, Order
  <2>2. StockInv' /\ Accounted(Gone)' /\ OwnerInv'
    BY <2>1, CheckoutStep DEF vars
  <2>3. LifeInv'
    BY <2>1 DEF FulfilmentInv, Life!Stages, vars
  <2> QED BY <2>2, <2>3 DEF FulfilmentInv
<1>5. ASSUME NEW o \in orders, UnreserveOrder(o) PROVE FulfilmentInv'
  <2>1. /\ UNCHANGED <<rows, orders, pc, cart, lines, refund, reply, result, lost, faults>>
        /\ held' = held \ o.lines
        /\ status[o.id] = "CANCEL_PENDING" /\ UNCHANGED status
        /\ released' = released \cup {o.id} /\ o.id \in Requests
    BY <1>5 DEF UnreserveOrder, Life!GiveBack, FulfilmentInv, StockInv, AnswerInv, TypeOK, Order
  <2>2. StockInv' /\ OwnerInv'
    BY <2>1 DEF FulfilmentInv, StockInv, AnswerInv, TypeOK, ProgressInv, AnswerIsTrue,
                LoserFindsWinner, OrdersWithKey, LinesAreTagged, OwnerInv, BoughtRowsAreGone
  <2>3. Gone' = Gone \cup o.lines
    <3>1. \A p \in orders : p.id = o.id => p = o
      BY DEF FulfilmentInv
    <3> QED BY <2>1, <3>1 DEF Gone
  <2>4. o.lines \subseteq Ordered /\ Ordered' = Ordered /\ InFlight' = InFlight
    BY <2>1 DEF Ordered, InFlight, Owed
  <2>5. Accounted(Gone)'
    BY <2>1, <2>3, <2>4 DEF FulfilmentInv, Accounted
  <2>6. LifeInv'
    BY <2>1 DEF FulfilmentInv
  <2> QED BY <2>2, <2>5, <2>6 DEF FulfilmentInv
<1>6. CASE UNCHANGED allvars
  <2>1. StockInv' /\ Accounted(Gone)' /\ OwnerInv'
    BY <1>6, CheckoutStep DEF allvars, vars, life
  <2> QED BY <1>6, <2>1 DEF FulfilmentInv, allvars, vars, life
<1> QED BY <1>1, <1>2, <1>3, <1>4, <1>5, <1>6 DEF FulfilmentNext

(* The invariant holds in every behaviour.                                 *)
LEMMA FulfilmentInvariant == FulfilmentSpec => []FulfilmentInv
<1>1. FulfilmentInit => FulfilmentInv
  <2> SUFFICES ASSUME FulfilmentInit PROVE FulfilmentInv
    OBVIOUS
  <2>1. TypeOK
    BY RequestAssumption DEF FulfilmentInit, Init, TypeOK, Steps, Replies
  <2>2. StockInv
    BY <2>1 DEF FulfilmentInit, Init, StockInv, AnswerInv, ProgressInv, AnswerIsTrue,
                LoserFindsWinner, LinesAreTagged
  <2>3. Accounted(Gone)
    BY DEF FulfilmentInit, Init, Accounted, Gone, Ordered, InFlight, Owed
  <2>4. OwnerInv /\ LifeInv
    BY DEF FulfilmentInit, Init, OwnerInv, BoughtRowsAreGone, LifeInv, Life!Stages
  <2> QED BY <2>2, <2>3, <2>4 DEF FulfilmentInv
<1> QED BY <1>1, FulfilmentStep, PTL DEF FulfilmentSpec, allvars

(* The composition is well typed.                                          *)
THEOREM FulfilmentIsWellTyped == FulfilmentSpec => []FulfilmentTypeOK
<1>1. FulfilmentInv => FulfilmentTypeOK
  BY DEF FulfilmentInv, LifeInv, StockInv, AnswerInv, FulfilmentTypeOK
<1> QED BY <1>1, FulfilmentInvariant, PTL

(* Checkouts and cancellations together neither leak stock nor take it     *)
(* from a live order, for any number of requests, SKUs and faults.         *)
THEOREM StockIsConserved == FulfilmentSpec => []StockConserved
<1>1. FulfilmentInv => StockConserved
  <2> SUFFICES ASSUME FulfilmentInv PROVE StockConserved
    OBVIOUS
  <2>1. Reserved = Ordered \ Gone
    <3>1. \A o, p \in orders : \A l \in o.lines \cap p.lines : o = p
      BY DEF FulfilmentInv, LifeInv, StockInv, LinesAreTagged
    <3> QED BY <3>1 DEF Reserved, Ordered, Gone
  <2>2. \A o \in orders : status[o.id] = "CANCELLED" => o.lines \subseteq Gone
    BY DEF FulfilmentInv, LifeInv, StockInv, AnswerInv, TypeOK, Order, Gone
  <2>3. Gone \cap (lost \cup (Ordered \ Gone) \cup InFlight) = {}
    BY DEF FulfilmentInv, Accounted
  <2>4. Accounted(Gone)
    BY DEF FulfilmentInv
  <2> QED BY <2>1, <2>2, <2>3, <2>4 DEF Accounted, StockConserved
<1> QED BY <1>1, FulfilmentInvariant, PTL

(* A cart row that was ordered leaves the cart, and cancelling the order   *)
(* does not bring it back.                                                 *)
THEOREM BoughtRowsStayGoneForLife == FulfilmentSpec => []BoughtRowsAreGone
BY FulfilmentInvariant, PTL DEF FulfilmentInv, OwnerInv

=============================================================================
