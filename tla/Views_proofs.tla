---------------------------- MODULE Views_proofs ----------------------------
(***************************************************************************)
(* Proofs about Views: the pages of a cart, a wishlist and a collection,   *)
(* for any number of things and rows, any prices, limits and offsets, and  *)
(* any changes of B2B between the lookups.                                 *)
(***************************************************************************)
EXTENDS Views, FiniteSetTheorems, SequenceTheorems, WellFoundedInduction, TLAPS

(* During a request, what B2B says now is among what it has said.          *)
Witnessed == pc = "lookup" => \A t \in Things : offer[t] \in was[t]

(* Without a change of B2B, what it says now is all it has said.           *)
Steady == pc # "idle" /\ edits = 0 => \A t \in Things : was[t] = {offer[t]}

(* A row that was asked for and not found has an excuse: B2B did not know  *)
(* it, or the cart went on after an error.                                 *)
Excuses ==
    op \in {"cart", "wishlist"} /\ pc = "lookup" =>
        \A i \in DOMAIN rows :
            i < todo /\ ~ Known(rows[i]) =>
                Absent \in was[rows[i].thing] \/ (op = "cart" /\ rows[i].thing \in erred)

(* What a request was called with.                                         *)
Called ==
    /\ op = "wishlist" => rows \in Distinct /\ page.limit \in Limits /\ page.offset \in Offsets
    /\ op = "collection" => page.max_display \in Displays

(* Nothing of a request is left for the next one.                          *)
Clean == pc = "idle" => todo = 1 /\ got = <<>> /\ edits = 0 /\ erred = {} /\ op = "none"

(* The inductive invariant.                                                *)
ViewsInv == TypeOK /\ Witnessed /\ Steady /\ Excuses /\ Called /\ Clean /\ CartViewIsTrue

-----------------------------------------------------------------------------
(* Tables are finite sequences of rows.                                    *)
LEMMA TablesAreSequences ==
    ASSUME NEW t \in Tables
    PROVE  /\ Len(t) \in Nat
           /\ DOMAIN t = 1 .. Len(t)
           /\ \A i \in DOMAIN t : t[i].thing \in Things
<1>1. PICK n \in 0 .. MaxRows : t \in [1 .. n -> Row]
  BY DEF Tables
<1>2. n \in Nat
  BY ViewsAssumption
<1>3. t \in Seq(Row) /\ Len(t) = n
  BY <1>1, <1>2
<1> QED BY <1>1, <1>2, <1>3 DEF Row

LEMMA EmptyTable == <<>> \in Tables /\ Len(<<>>) = 0
<1>1. <<>> \in [1 .. 0 -> Row]
  OBVIOUS
<1>2. 0 \in 0 .. MaxRows
  BY ViewsAssumption
<1> QED BY <1>1, <1>2 DEF Tables

(* What B2B says of a thing it knows is one of these.                      *)
LEMMA OfferKinds ==
    ASSUME NEW o \in Offers \ {Absent}
    PROVE  /\ OnSale(o) => o = Offer("on sale", o.price)
           /\ ~ OnSale(o) => \/ o.is = "inactive" /\ o = Offer("inactive", 0)
                             \/ o.is = "sold out" /\ o = Offer("sold out", 0)
<1>1. \/ \E what \in {"absent", "inactive", "sold out"} : o = Offer(what, 0)
      \/ \E p \in Prices : o = Offer("on sale", p)
  BY DEF Offers
<1>2. CASE \E what \in {"absent", "inactive", "sold out"} : o = Offer(what, 0)
  <2>1. PICK what \in {"absent", "inactive", "sold out"} : o = Offer(what, 0)
    BY <1>2
  <2>2. what # "absent" /\ o.is = what
    BY <2>1 DEF Offer, Absent
  <2> QED BY <2>1, <2>2 DEF OnSale
<1>3. CASE \E p \in Prices : o = Offer("on sale", p)
  <2>1. PICK p \in Prices : o = Offer("on sale", p)
    BY <1>3
  <2>2. OnSale(o) /\ o.price = p
    BY <2>1 DEF OnSale, Offer
  <2> QED BY <2>1, <2>2
<1> QED BY <1>1, <1>2, <1>3

-----------------------------------------------------------------------------
(* The page get_cart answers with is true when every row has been asked    *)
(* for.                                                                    *)
LEMMA EnrichedIsTrue ==
    ASSUME TypeOK, Witnessed, Excuses, op = "cart", pc = "lookup", todo > Len(rows),
           NEW cart, cart = Enriched
    PROVE  IsTruePage(cart)
<1> DEFINE on == {i \in DOMAIN rows : Known(rows[i]) /\ OnSale(got[rows[i].thing])}
<1>1. /\ cart.items = [i \in on |-> got[rows[i].thing].price]
      /\ cart.unavailable = [i \in DOMAIN rows \ on |-> Reason(rows[i])]
      /\ cart.is_valid = (on = DOMAIN rows)
  BY DEF Enriched
<1>2. \A i \in DOMAIN rows : i < todo
  BY TablesAreSequences DEF TypeOK
<1>3. \A i \in DOMAIN rows : Known(rows[i]) =>
         got[rows[i].thing] \in (Offers \ {Absent}) \cap was[rows[i].thing]
  BY DEF Known, TypeOK
<1>4. ASSUME NEW i \in on PROVE Offer("on sale", cart.items[i]) \in was[rows[i].thing]
  <2> DEFINE found == got[rows[i].thing]
  <2>1. found \in Offers \ {Absent} /\ found \in was[rows[i].thing] /\ OnSale(found)
    BY <1>3
  <2>2. found = Offer("on sale", found.price)
    BY <2>1, OfferKinds
  <2> QED BY <1>1, <2>1, <2>2
<1>5. ASSUME NEW i \in DOMAIN rows, i \notin on
      PROVE  Excused(rows[i].thing, Reason(rows[i]))
  <2>1. CASE ~ Known(rows[i])
    BY <2>1, <1>2 DEF Excuses, Excused, Reason
  <2>2. CASE Known(rows[i])
    <3> DEFINE found == got[rows[i].thing]
    <3>1. found \in Offers \ {Absent} /\ found \in was[rows[i].thing] /\ ~ OnSale(found)
      BY <2>2, <1>3, <1>5
    <3>2. \/ found.is = "inactive" /\ Offer("inactive", 0) \in was[rows[i].thing]
          \/ found.is = "sold out" /\ Offer("sold out", 0) \in was[rows[i].thing]
      BY <3>1, OfferKinds
    <3> HIDE DEF found
    <3>3. Reason(rows[i]) = IF found.is = "inactive" THEN "not_active" ELSE "out_of_stock"
      BY <2>2 DEF Reason, found
    <3> QED BY <3>2, <3>3 DEF Excused
  <2> QED BY <2>1, <2>2
<1> DEFINE Verdict(i) == IF i \in DOMAIN cart.items THEN cart.items[i] ELSE cart.unavailable[i]
<1>6. ASSUME NEW i \in DOMAIN rows, NEW j \in DOMAIN rows, rows[i].thing = rows[j].thing
      PROVE  Verdict(i) = Verdict(j)
  <2>1. i \in on <=> j \in on
    BY <1>6 DEF Known
  <2>2. Reason(rows[i]) = Reason(rows[j])
    BY <1>6 DEF Reason, Known
  <2> QED BY <1>1, <1>6, <2>1, <2>2
<1>7. DOMAIN cart.items = on /\ DOMAIN cart.unavailable = DOMAIN rows \ on
  BY <1>1
<1>8. \A i \in DOMAIN cart.unavailable : Excused(rows[i].thing, cart.unavailable[i])
  BY <1>1, <1>5, <1>7
<1>9. \A i \in DOMAIN cart.items : Offer("on sale", cart.items[i]) \in was[rows[i].thing]
  BY <1>4, <1>7
<1>10. cart.is_valid <=> DOMAIN cart.items = DOMAIN rows
  BY <1>1, <1>7
<1> QED BY <1>6, <1>7, <1>8, <1>9, <1>10 DEF IsTruePage

(* A page stays true while its rows and the record of B2B do not change.   *)
LEMMA TruePageKept ==
    ASSUME NEW cart, UNCHANGED <<rows, was, erred>>, IsTruePage(cart)
    PROVE  IsTruePage(cart)'
BY DEF IsTruePage, Excused

-----------------------------------------------------------------------------
LEMMA InitIsSound == Init => ViewsInv
<1> SUFFICES ASSUME Init PROVE ViewsInv
  OBVIOUS
<1>1. TypeOK
  BY EmptyTable, ViewsAssumption DEF Init, TypeOK, Codes, Hearings
<1> QED BY <1>1 DEF Init, ViewsInv, Witnessed, Steady, Excuses, Called, Clean, CartViewIsTrue, Answered

LEMMA BeginIsSound ==
    ASSUME ViewsInv, NEW handler \in {"cart", "wishlist", "collection", "recommendations"},
           NEW t \in Tables, NEW args, Begin(handler, t, args),
           handler = "wishlist" => t \in Distinct /\ args.limit \in Limits /\ args.offset \in Offsets,
           handler = "collection" => args.max_display \in Displays
    PROVE  ViewsInv'
<1>1. got = <<>> /\ todo = 1
  BY DEF Begin, ViewsInv, Clean
<1>2. Len(t) \in Nat
  BY TablesAreSequences
<1>3. was' \in [Things -> SUBSET Offers] /\ \A u \in Things : offer'[u] \in was'[u]
  BY DEF Begin, ViewsInv, TypeOK
<1>4. TypeOK'
  BY <1>1, <1>2, <1>3 DEF Begin, ViewsInv, TypeOK
<1>5. Excuses'
  BY <1>1, <1>2, TablesAreSequences DEF Begin, Excuses
<1>6. Called'
  BY DEF Begin, ViewsInv, Called, Clean
<1>7. Steady'
  BY DEF Begin, Steady
<1> QED BY <1>3, <1>4, <1>5, <1>6, <1>7 DEF Begin, ViewsInv, Witnessed, Clean, CartViewIsTrue, Answered

(* A lookup that goes on to the next row.                                  *)
LEMMA LookupIsSound ==
    ASSUME ViewsInv, Asks({"cart", "wishlist"}), Proceed, World,
           erred \subseteq erred', erred' \subseteq Things,
           \/ /\ offer[Thing] # Absent
              /\ got' = [t \in DOMAIN got \cup {Thing} |-> IF t = Thing THEN offer[t] ELSE got[t]]
           \/ got' = got /\ (offer[Thing] = Absent \/ (op = "cart" /\ Thing \in erred'))
    PROVE  ViewsInv'
<1>1. /\ todo \in DOMAIN rows /\ Thing \in Things
      /\ DOMAIN rows = 1 .. Len(rows) /\ Len(rows) \in Nat
      /\ offer[Thing] \in Offers \cap was[Thing]
  BY TablesAreSequences DEF ViewsInv, TypeOK, Asks, Thing, Witnessed
<1>2. \A t \in DOMAIN got' : t \in Things /\ got'[t] \in (Offers \ {Absent}) \cap was[t]
  BY <1>1 DEF ViewsInv, TypeOK
<1>3. TypeOK'
  BY <1>1, <1>2 DEF ViewsInv, TypeOK, Asks, Proceed, World, request
<1>4. \A i \in DOMAIN rows : i < todo' => i < todo \/ i = todo
  BY <1>1 DEF Proceed
<1>5. DOMAIN got \subseteq DOMAIN got' /\ (offer[Thing] # Absent /\ got' # got => Thing \in DOMAIN got')
  OBVIOUS
<1>6. ASSUME NEW i \in DOMAIN rows, i < todo', rows[i].thing \notin DOMAIN got'
      PROVE  Absent \in was[rows[i].thing] \/ (op = "cart" /\ rows[i].thing \in erred')
  <2>1. CASE i < todo
    BY <2>1, <1>5, <1>6 DEF ViewsInv, Excuses, Known, Asks
  <2>2. CASE i = todo
    BY <2>2, <1>1, <1>5, <1>6 DEF Thing
  <2> QED BY <2>1, <2>2, <1>4, <1>6
<1>7. Excuses'
  BY <1>6 DEF Excuses, Known, Proceed, World, request
<1>8. Called' /\ Steady'
  BY DEF ViewsInv, Called, Steady, Asks, Proceed, World, request
<1> QED BY <1>3, <1>7, <1>8 DEF ViewsInv, Witnessed, Clean, CartViewIsTrue, Answered, Asks, Proceed,
                               World, request

(* A request that ends without a page of the cart.                         *)
LEMMA AnswerIsSound ==
    ASSUME ViewsInv, pc = "lookup", NEW code \in Codes, NEW body, Answer(code, body),
           UNCHANGED <<offer, edits, was>>, erred' \subseteq Things, heard' \in Hearings,
           op # "cart" \/ code # 200
    PROVE  ViewsInv'
<1>1. answer'.code = code /\ pc' = "answered"
  BY DEF Answer
<1>2. TypeOK'
  BY <1>1 DEF ViewsInv, TypeOK, Answer, request
<1>3. Called' /\ Steady'
  BY DEF ViewsInv, Called, Steady, Answer, request
<1> QED BY <1>1, <1>2, <1>3 DEF ViewsInv, Witnessed, Excuses, Clean, CartViewIsTrue, Answered, Answer,
                               request

LEMMA ShowCartIsSound == ASSUME ViewsInv, ShowCart PROVE ViewsInv'
<1>1. answer'.code = 200 /\ answer'.body = Enriched /\ pc' = "answered"
  BY DEF ShowCart, Answer
<1>2. TypeOK'
  BY <1>1 DEF ViewsInv, TypeOK, ShowCart, Answer, World, request, Codes
<1>3. CartViewIsTrue'
  <2>1. UNCHANGED <<rows, was, erred>>
    BY DEF ShowCart, Answer, World, request
  <2>2. IsTruePage(answer'.body)
    BY <1>1, EnrichedIsTrue DEF ViewsInv, ShowCart
  <2> QED BY <2>1, <2>2, TruePageKept DEF CartViewIsTrue
<1>4. Called' /\ Steady'
  BY DEF ViewsInv, Called, Steady, ShowCart, Answer, World, request
<1> QED BY <1>1, <1>2, <1>3, <1>4 DEF ViewsInv, Witnessed, Excuses, Clean

LEMMA EditIsSound == ASSUME ViewsInv, Edit PROVE ViewsInv'
<1>1. PICK t \in Things, o \in Offers :
         /\ offer' = [offer EXCEPT ![t] = o]
         /\ was' = [was EXCEPT ![t] = @ \cup {o}]
  BY DEF Edit
<1>2. \A u \in Things : was[u] \subseteq was'[u]
  BY <1>1 DEF ViewsInv, TypeOK
<1>3. offer' \in [Things -> Offers] /\ was' \in [Things -> SUBSET Offers]
  BY <1>1 DEF ViewsInv, TypeOK
<1>4. edits' \in 0 .. MaxEdits
  BY ViewsAssumption DEF ViewsInv, TypeOK, Edit
<1>5. TypeOK'
  BY <1>2, <1>3, <1>4 DEF ViewsInv, TypeOK, Edit, request
<1>6. Witnessed'
  BY <1>1, <1>2 DEF ViewsInv, TypeOK, Witnessed, Edit
<1>7. Excuses'
  BY <1>2, TablesAreSequences DEF ViewsInv, TypeOK, Excuses, Known, Edit, request
<1>8. Called' /\ Steady'
  BY <1>4 DEF ViewsInv, TypeOK, Called, Steady, Edit, request
<1> QED BY <1>5, <1>6, <1>7, <1>8 DEF ViewsInv, Clean, CartViewIsTrue, Answered, Edit, request

LEMMA LeaveIsSound == ASSUME ViewsInv, Leave PROVE ViewsInv'
<1>1. TypeOK'
  <2>1. /\ rows' \in Tables /\ Len(rows') = 0 /\ todo' = 1 /\ DOMAIN got' = {}
        /\ edits' \in 0 .. MaxEdits
    BY EmptyTable, ViewsAssumption DEF Leave
  <2>2. heard' \in Hearings /\ answer'.code \in Codes
    BY DEF Leave, Codes, Hearings
  <2> QED BY <2>1, <2>2 DEF ViewsInv, TypeOK, Leave
<1> QED BY <1>1 DEF ViewsInv, Witnessed, Steady, Excuses, Called, Clean, CartViewIsTrue, Answered, Leave

LEMMA NextIsSound == ViewsInv /\ [Next]_vars => ViewsInv'
<1> SUFFICES ASSUME ViewsInv, [Next]_vars PROVE ViewsInv'
  OBVIOUS
<1>1. CASE GetCart
  BY <1>1, BeginIsSound DEF GetCart
<1>2. CASE GetWishlist
  <2>1. Distinct \subseteq Tables
    BY DEF Distinct, Plain
  <2> QED BY <1>2, <2>1, BeginIsSound DEF GetWishlist
<1>3. CASE GetCollection
  BY <1>3, BeginIsSound DEF GetCollection, Plain
<1>4. CASE GetRecommendations
  BY <1>4, BeginIsSound DEF GetRecommendations, Plain
<1>5. CASE Finds
  BY <1>5, LookupIsSound DEF Finds, ViewsInv, TypeOK
<1>6. CASE Misses
  BY <1>6, LookupIsSound DEF Misses, ViewsInv, TypeOK
<1>7. CASE HttpError
  <2>1. Thing \in Things /\ erred' = erred \cup {Thing} /\ Asks({"cart", "wishlist"}) /\ World
    BY <1>7, TablesAreSequences DEF HttpError, Asks, Thing, ViewsInv, TypeOK
  <2>2. erred \subseteq erred' /\ erred' \subseteq Things
    BY <2>1 DEF ViewsInv, TypeOK
  <2>3. CASE op = "cart"
    BY <1>7, <2>1, <2>2, <2>3, LookupIsSound DEF HttpError
  <2>4. CASE op # "cart"
    BY <1>7, <2>1, <2>2, <2>4, AnswerIsSound DEF HttpError, Asks, Codes, World, ViewsInv, TypeOK
  <2> QED BY <2>3, <2>4
<1>8. CASE Unreachable
  BY <1>8, AnswerIsSound DEF Unreachable, Asks, Codes, World, ViewsInv, TypeOK
<1>9. CASE ShowCart
  BY <1>9, ShowCartIsSound
<1>10. CASE ShowWishlist
  BY <1>10, AnswerIsSound DEF ShowWishlist, Codes, World, ViewsInv, TypeOK
<1>11. ASSUME NEW how \in Hearings, NEW answers, Batch(how, answers) PROVE ViewsInv'
  BY <1>11, AnswerIsSound DEF Batch, Codes, ViewsInv, TypeOK
<1>12. CASE ShowCollection \/ BatchIsArray \/ BatchFails
  BY <1>11, <1>12 DEF ShowCollection, BatchIsArray, BatchFails, Hearings
<1>13. CASE Recommend
  <2>1. /\ pc = "lookup" /\ op = "recommendations" /\ erred' \subseteq Things
        /\ UNCHANGED <<offer, edits, was>> /\ heard' \in Hearings
    BY <1>13 DEF Recommend, Asks, World, ViewsInv, TypeOK
  <2>2. CASE offer[Thing] = Absent
    <3>1. Answer(200, "Product not found")
      BY <1>13, <2>2 DEF Recommend
    <3> QED BY <2>1, <3>1, AnswerIsSound DEF Codes
  <2>3. CASE offer[Thing] # Absent
    <3>1. Answer(500, {})
      BY <1>13, <2>3 DEF Recommend
    <3> QED BY <2>1, <3>1, AnswerIsSound DEF Codes
  <2> QED BY <2>2, <2>3
<1>14. CASE RecommendFails
  BY <1>14, AnswerIsSound DEF RecommendFails, Asks, Codes, World, ViewsInv, TypeOK
<1>15. CASE Edit
  BY <1>15, EditIsSound
<1>16. CASE Leave
  BY <1>16, LeaveIsSound
<1>17. CASE UNCHANGED vars
  <2>1. UNCHANGED <<offer, pc, op, rows, page, todo, got, answer, edits, was, erred, heard>>
    BY <1>17 DEF vars, request
  <2>2. TypeOK'
    BY <2>1 DEF ViewsInv, TypeOK
  <2>3. Witnessed' /\ Steady' /\ Excuses' /\ Called' /\ Clean'
    BY <2>1 DEF ViewsInv, Witnessed, Steady, Excuses, Known, Called, Clean
  <2>4. CartViewIsTrue'
    BY <2>1, TruePageKept DEF ViewsInv, CartViewIsTrue, Answered
  <2> QED BY <2>2, <2>3, <2>4 DEF ViewsInv
<1> QED BY <1>1, <1>2, <1>3, <1>4, <1>5, <1>6, <1>7, <1>8, <1>9, <1>10, <1>11, <1>12, <1>13,
           <1>14, <1>15, <1>16, <1>17 DEF Next

LEMMA AlwaysSound == Spec => []ViewsInv
BY InitIsSound, NextIsSound, PTL DEF Spec

-----------------------------------------------------------------------------
(* The type invariant of the pages, with every answer of B2B one that was  *)
(* given while the request ran.                                            *)
THEOREM ViewsTypeCorrect == Spec => []TypeOK
<1>1. ViewsInv => TypeOK
  BY DEF ViewsInv
<1> QED BY <1>1, AlwaysSound, PTL

(* The cart page of get_cart is true for a cart of any size, SKUs that are *)
(* there twice included, whatever sellers change between two lookups and   *)
(* whichever lookups fail.                                                 *)
THEOREM CartIsShownTruly == Spec => []CartViewIsTrue
<1>1. ViewsInv => CartViewIsTrue
  BY DEF ViewsInv
<1> QED BY <1>1, AlwaysSound, PTL

-----------------------------------------------------------------------------
(* Where the pages come from, and that they are kept until the request is  *)
(* over.                                                                   *)
LEMMA AnswerSteps ==
    ASSUME [Next]_vars, pc' = "answered", answer'.code = 200, op' # "recommendations"
    PROVE  \/ UNCHANGED vars \/ ShowCart \/ ShowWishlist
           \/ ShowCollection \/ BatchIsArray \/ BatchFails
<1>1. GetCart => pc' = "lookup"
  BY DEF GetCart, Begin
<1>2. GetWishlist => pc' = "lookup"
  BY DEF GetWishlist, Begin
<1>3. GetCollection => pc' = "lookup"
  BY DEF GetCollection, Begin
<1>4. GetRecommendations => pc' = "lookup"
  BY DEF GetRecommendations, Begin
<1>5. Finds \/ Misses => pc' = "lookup"
  BY DEF Finds, Misses, Asks, Proceed
<1>6. HttpError => pc' = "lookup" \/ answer'.code = 500
  BY DEF HttpError, Asks, Proceed, Answer
<1>7. Unreachable => answer'.code # 200
  BY DEF Unreachable, Answer
<1>8. Recommend \/ RecommendFails => op' = "recommendations"
  BY DEF Recommend, RecommendFails, Asks, Answer, request
<1>9. Edit => pc' = "lookup"
  BY DEF Edit
<1>10. Leave => pc' = "idle"
  BY DEF Leave
<1> QED BY <1>1, <1>2, <1>3, <1>4, <1>5, <1>6, <1>7, <1>8, <1>9, <1>10 DEF Next

(* What the rows were found to cost, with nothing changed and nothing      *)
(* failed, is what they cost now.                                          *)
LEMMA EnrichedTotal ==
    ASSUME ViewsInv, op = "cart", pc = "lookup", todo > Len(rows), edits = 0, erred = {}
    PROVE  Enriched.total =
              Total([i \in DOMAIN rows |->
                       IF OnSale(offer[rows[i].thing])
                       THEN offer[rows[i].thing].price * rows[i].quantity ELSE 0])
<1> DEFINE on == {i \in DOMAIN rows : Known(rows[i]) /\ OnSale(got[rows[i].thing])}
           found == [i \in DOMAIN rows |->
                       IF i \in on THEN got[rows[i].thing].price * rows[i].quantity ELSE 0]
           now == [i \in DOMAIN rows |->
                       IF OnSale(offer[rows[i].thing])
                       THEN offer[rows[i].thing].price * rows[i].quantity ELSE 0]
<1>1. ASSUME NEW i \in DOMAIN rows PROVE found[i] = now[i]
  <2>1. rows[i].thing \in Things /\ i < todo
    BY TablesAreSequences DEF ViewsInv, TypeOK
  <2>2. was[rows[i].thing] = {offer[rows[i].thing]}
    BY <2>1 DEF ViewsInv, Steady
  <2>3. CASE Known(rows[i])
    <3>1. got[rows[i].thing] = offer[rows[i].thing]
      BY <2>2, <2>3 DEF ViewsInv, TypeOK, Known
    <3> QED BY <2>3, <3>1
  <2>4. CASE ~ Known(rows[i])
    <3>1. offer[rows[i].thing] = Absent
      BY <2>1, <2>2, <2>4 DEF ViewsInv, Excuses
    <3>2. ~ OnSale(Absent)
      BY DEF OnSale, Absent, Offer
    <3> QED BY <2>4, <3>1, <3>2
  <2> QED BY <2>3, <2>4
<1>2. found = now
  BY <1>1
<1>3. Enriched.total = Total(found)
  BY DEF Enriched, TotalOf
<1> HIDE DEF found
<1> QED BY <1>2, <1>3

(* The total of a cart is the price of all its rows that are on sale.      *)
THEOREM TotalsAreOfRowsOnSale == Spec => []TotalIsOfRowsOnSale
<1>1. Init => TotalIsOfRowsOnSale
  BY DEF Init, TotalIsOfRowsOnSale, Answered
<1>2. ViewsInv /\ TotalIsOfRowsOnSale /\ [Next]_vars => TotalIsOfRowsOnSale'
  <2> SUFFICES ASSUME ViewsInv, TotalIsOfRowsOnSale, [Next]_vars, Answered("cart")',
                      edits' = 0, erred' = {}
               PROVE  TotalIsOfRowsOnSale'
    BY DEF TotalIsOfRowsOnSale
  <2>1. CASE UNCHANGED vars
    BY <2>1 DEF vars, request, TotalIsOfRowsOnSale, Answered
  <2>2. CASE ShowCart
    <3>1. UNCHANGED <<offer, rows, edits, erred>> /\ answer'.body = Enriched
      BY <2>2 DEF ShowCart, Answer, World, request
    <3>2. Enriched.total =
              Total([i \in DOMAIN rows |->
                       IF OnSale(offer[rows[i].thing])
                       THEN offer[rows[i].thing].price * rows[i].quantity ELSE 0])
      BY <2>2, <3>1, EnrichedTotal DEF ShowCart
    <3> QED BY <3>1, <3>2 DEF TotalIsOfRowsOnSale
  <2>3. ShowWishlist \/ ShowCollection \/ BatchIsArray \/ BatchFails => op' # "cart"
    BY DEF ShowWishlist, ShowCollection, BatchIsArray, BatchFails, Batch, Answer, request
  <2> QED BY <2>1, <2>2, <2>3, AnswerSteps DEF Answered
<1> QED BY <1>1, <1>2, AlwaysSound, PTL DEF Spec

-----------------------------------------------------------------------------
(* Induction and recursion, as in Catalog_proofs.                          *)

(* A set that holds 0 and with every number the next holds all numbers.    *)
LEMMA Upwards ==
    ASSUME NEW S, 0 \in S, \A n \in Nat : n \in S => n + 1 \in S
    PROVE  Nat \subseteq S
<1> SUFFICES ASSUME NEW T, T = Nat \ S, T # {} PROVE FALSE
  OBVIOUS
<1>1. PICK x \in T : \A y \in T : ~ (<<y, x>> \in OpToRel(<, Nat))
  BY WFMin, NatLessThanWellFounded
<1>2. x \in Nat /\ x # 0 /\ x - 1 \in Nat /\ x - 1 < x
  OBVIOUS
<1>3. x - 1 \notin T
  BY <1>1, <1>2 DEF OpToRel
<1>4. (x - 1) + 1 = x
  BY <1>2
<1> QED BY <1>2, <1>3, <1>4

(* The functions that walk through a set, a step at each number.           *)
StepsOn(X) == [Nat -> [X -> X]]

Follows(f, first, step) == f[0] = first /\ \A n \in Nat \ {0} : f[n] = step[n][f[n - 1]]

(* A function on the numbers can be defined by its first value and the     *)
(* step to the next: any two finite pieces of it agree where both are.     *)
LEMMA Recursion ==
    ASSUME NEW X, NEW first \in X, NEW step \in StepsOn(X)
    PROVE  \E f \in [Nat -> X] : Follows(f, first, step)
<1> USE DEF StepsOn
<1> DEFINE Upto(n) == {g \in [0 .. n -> X] : \A i \in 0 .. n : g[i] = IF i = 0 THEN first ELSE step[i][g[i - 1]]}
           Reach == {n \in Nat : \E g : g \in Upto(n)}
<1>1. Nat \subseteq Reach
  <2>1. 0 \in Reach
    <3>1. [i \in 0 .. 0 |-> first] \in Upto(0)
      OBVIOUS
    <3> QED BY <3>1
  <2>2. ASSUME NEW n \in Nat, n \in Reach PROVE n + 1 \in Reach
    <3>1. PICK g \in Upto(n) : TRUE
      BY <2>2
    <3> DEFINE h == [i \in 0 .. n + 1 |-> IF i = n + 1 THEN step[n + 1][g[n]] ELSE g[i]]
    <3>2. h \in [0 .. n + 1 -> X]
      OBVIOUS
    <3>3. ASSUME NEW i \in 0 .. n + 1 PROVE h[i] = IF i = 0 THEN first ELSE step[i][h[i - 1]]
      <4>1. CASE i = n + 1
        BY <4>1
      <4>2. CASE i \in 0 .. n
        BY <4>2, g[i] = IF i = 0 THEN first ELSE step[i][g[i - 1]]
      <4> QED BY <4>1, <4>2
    <3>4. h \in Upto(n + 1)
      BY <3>2, <3>3
    <3> QED
      <4> HIDE DEF Upto, h
      <4> QED BY <3>4
  <2> QED
    <3> HIDE DEF Reach
    <3> QED BY <2>1, <2>2, Upwards
<1>2. ASSUME NEW n \in Nat, NEW g \in Upto(n)
      PROVE  /\ g \in [0 .. n -> X] /\ g[0] = first
             /\ \A i \in Nat \ {0} : i <= n => g[i] = step[i][g[i - 1]]
  OBVIOUS
<1> HIDE DEF Upto
<1>3. ASSUME NEW n \in Nat, NEW m \in Nat, NEW g \in Upto(n), NEW h \in Upto(m), n <= m
      PROVE  \A i \in 0 .. n : g[i] = h[i]
  <2> DEFINE Same == {i \in Nat : i <= n => g[i] = h[i]}
  <2>1. 0 \in Same
    BY <1>2
  <2>2. ASSUME NEW i \in Nat, i \in Same PROVE i + 1 \in Same
    <3>1. CASE i + 1 <= n
      <4>1. i + 1 \in Nat \ {0} /\ i + 1 <= m /\ (i + 1) - 1 = i /\ i <= n
        BY <1>3, <3>1
      <4>2. g[i + 1] = step[i + 1][g[i]] /\ h[i + 1] = step[i + 1][h[i]]
        BY <1>2, <3>1, <4>1
      <4> QED BY <2>2, <4>1, <4>2
    <3> QED BY <3>1
  <2>3. Nat \subseteq Same
    <3> HIDE DEF Same
    <3> QED BY <2>1, <2>2, Upwards
  <2> QED BY <2>3
<1> DEFINE piece(n) == CHOOSE g : g \in Upto(n)
           f == [n \in Nat |-> piece(n)[n]]
<1>4. ASSUME NEW n \in Nat PROVE piece(n) \in Upto(n)
  <2>1. \E g : g \in Upto(n)
    BY <1>1
  <2> QED BY <2>1
<1> HIDE DEF piece
<1>5. ASSUME NEW n \in Nat PROVE piece(n)[n] \in X
  BY <1>2, <1>4
<1>6. ASSUME NEW n \in Nat PROVE f[n] = IF n = 0 THEN first ELSE step[n][f[n - 1]]
  <2>1. CASE n = 0
    BY <1>2, <1>4, <2>1
  <2>2. CASE n # 0
    <3>1. n - 1 \in Nat /\ n - 1 <= n /\ n - 1 \in 0 .. n - 1
      BY <2>2
    <3>2. piece(n)[n] = step[n][piece(n)[n - 1]]
      BY <1>2, <1>4, <2>2
    <3>3. piece(n - 1)[n - 1] = piece(n)[n - 1]
      BY <1>3, <1>4, <3>1
    <3> QED BY <2>2, <3>1, <3>2, <3>3
  <2> QED BY <2>1, <2>2
<1>7. f \in [Nat -> X]
  BY <1>5
<1> QED
  <2> HIDE DEF f
  <2> QED BY <1>6, <1>7 DEF Follows
(* A function stays in a set that its first value is in and no step leaves. *)

-----------------------------------------------------------------------------
(* The numbers of the rows that are kept.                                  *)

(* How many of the first n rows are kept.                                  *)
Rank(keep, n) == Cardinality(keep \cap (1 .. n))

(* A row that is kept raises the rank by one.                              *)
LEMMA RankSteps ==
    ASSUME NEW keep
    PROVE  /\ Rank(keep, 0) = 0
           /\ \A n \in Nat :
                /\ Rank(keep, n) \in Nat
                /\ Rank(keep, n + 1) = IF n + 1 \in keep THEN Rank(keep, n) + 1 ELSE Rank(keep, n)
<1>1. ASSUME NEW n \in Nat PROVE IsFiniteSet(keep \cap (1 .. n)) /\ Rank(keep, n) \in Nat
  <2>1. IsFiniteSet(1 .. n)
    BY FS_Interval
  <2>2. IsFiniteSet(keep \cap (1 .. n))
    BY <2>1, FS_Subset
  <2> QED BY <2>2, FS_CardinalityType DEF Rank
<1>2. Rank(keep, 0) = 0
  <2>1. keep \cap (1 .. 0) = {}
    OBVIOUS
  <2> QED BY <2>1, FS_EmptySet DEF Rank
<1>3. ASSUME NEW n \in Nat
      PROVE  Rank(keep, n + 1) = IF n + 1 \in keep THEN Rank(keep, n) + 1 ELSE Rank(keep, n)
  <2>1. CASE n + 1 \in keep
    <3>1. keep \cap (1 .. n + 1) = (keep \cap (1 .. n)) \cup {n + 1} /\ n + 1 \notin keep \cap (1 .. n)
      BY <2>1
    <3> QED BY <1>1, <2>1, <3>1, FS_AddElement DEF Rank
  <2>2. CASE n + 1 \notin keep
    <3>1. keep \cap (1 .. n + 1) = keep \cap (1 .. n)
      BY <2>2
    <3> QED BY <2>2, <3>1 DEF Rank
  <2> QED BY <2>1, <2>2
<1> QED BY <1>1, <1>2, <1>3

(* The recursive definition of Kept.                                       *)
LEMMA KeptSteps ==
    ASSUME NEW keep
    PROVE  /\ Kept(keep)[0] = <<>>
           /\ \A i \in Nat : Kept(keep)[i + 1] =
                 IF i + 1 \in keep THEN Append(Kept(keep)[i], i + 1) ELSE Kept(keep)[i]
<1> DEFINE X == Seq(Nat)
           first == <<>>
           step == [n \in Nat |-> [x \in X |-> IF n \in keep THEN Append(x, n) ELSE x]]
           Grown(g) == [n \in Nat |-> IF n = 0 THEN first
                          ELSE IF n \in keep THEN Append(g[n - 1], n) ELSE g[n - 1]]
<1>1. first \in X /\ step \in StepsOn(X)
  BY DEF StepsOn
<1>2. PICK f \in [Nat -> X] : Follows(f, first, step)
  <2> HIDE DEF step, X, first
  <2> QED BY <1>1, Recursion
<1>3. f = Grown(f)
  <2>1. ASSUME NEW n \in Nat PROVE f[n] = Grown(f)[n]
    <3>1. CASE n = 0
      BY <1>2, <3>1 DEF Follows
    <3>2. CASE n # 0
      <4>1. f[n - 1] \in X
        BY <3>2
      <4>2. f[n] = step[n][f[n - 1]]
        BY <1>2, <3>2 DEF Follows
      <4> QED BY <3>2, <4>1, <4>2
    <3> QED BY <3>1, <3>2
  <2>2. f = [n \in Nat |-> f[n]] /\ Grown(f) = [n \in Nat |-> Grown(f)[n]]
    OBVIOUS
  <2> HIDE DEF Grown
  <2> QED BY <2>1, <2>2
<1> DEFINE k == Kept(keep)
<1>4. k = CHOOSE g : g = Grown(g)
  BY DEF Kept
<1>5. k = Grown(k)
  <2> HIDE DEF k, Grown
  <2> QED BY <1>3, <1>4
<1> HIDE DEF k
<1>6. k[0] = <<>>
  BY <1>5
<1>7. ASSUME NEW n \in Nat PROVE k[n + 1] = IF n + 1 \in keep THEN Append(k[n], n + 1) ELSE k[n]
  <2>1. n + 1 \in Nat /\ n + 1 # 0 /\ (n + 1) - 1 = n
    OBVIOUS
  <2> QED BY <1>5, <2>1
<1> QED BY <1>6, <1>7 DEF k

(* A row that is kept stands at its rank, and what stands at a rank is the *)
(* row that has it.                                                        *)
LEMMA KeptByRank ==
    ASSUME NEW keep
    PROVE  \A n \in Nat :
              /\ Kept(keep)[n] \in Seq(keep \cap (1 .. n))
              /\ Len(Kept(keep)[n]) = Rank(keep, n)
              /\ \A j \in 1 .. Rank(keep, n) :
                    Kept(keep)[n][j] \in keep \cap (1 .. n) /\ Rank(keep, Kept(keep)[n][j]) = j
              /\ \A i \in keep \cap (1 .. n) :
                    Rank(keep, i) \in 1 .. Rank(keep, n) /\ Kept(keep)[n][Rank(keep, i)] = i
<1> DEFINE k == Kept(keep)
           R(i) == Rank(keep, i)
           K(m) == keep \cap (1 .. m)
           Good(m) == /\ k[m] \in Seq(K(m))
                      /\ Len(k[m]) = R(m)
                      /\ \A j \in 1 .. R(m) : k[m][j] \in K(m) /\ R(k[m][j]) = j
                      /\ \A i \in K(m) : R(i) \in 1 .. R(m) /\ k[m][R(i)] = i
           GoodOnes == {m \in Nat : Good(m)}
<1>1. k[0] = <<>> /\ \A m \in Nat : k[m + 1] = IF m + 1 \in keep THEN Append(k[m], m + 1) ELSE k[m]
  <2>1. Kept(keep)[0] = <<>>
    BY KeptSteps
  <2>2. \A m \in Nat : Kept(keep)[m + 1] =
           IF m + 1 \in keep THEN Append(Kept(keep)[m], m + 1) ELSE Kept(keep)[m]
    BY KeptSteps
  <2> QED BY <2>1, <2>2
<1>2. R(0) = 0 /\ \A m \in Nat : R(m) \in Nat /\ R(m + 1) = IF m + 1 \in keep THEN R(m) + 1 ELSE R(m)
  BY RankSteps
<1> HIDE DEF k, R
<1>3. 0 \in GoodOnes
  <2>1. K(0) = {} /\ 1 .. 0 = {}
    OBVIOUS
  <2>2. k[0] = <<>> /\ R(0) = 0 /\ <<>> \in Seq(K(0)) /\ Len(<<>>) = 0
    BY <1>1, <1>2
  <2> HIDE DEF K
  <2>3. Good(0)
    BY <2>1, <2>2
  <2> QED BY <2>3
<1>4. ASSUME NEW m \in Nat, m \in GoodOnes PROVE m + 1 \in GoodOnes
  <2>1. Good(m) /\ R(m) \in Nat
    BY <1>2, <1>4
  <2>2. CASE m + 1 \notin keep
    <3>1. R(m + 1) = R(m) /\ k[m + 1] = k[m]
      BY <1>1, <1>2, <2>2
    <3>2. K(m + 1) = K(m)
      BY <2>2
    <3> HIDE DEF K
    <3>3. Good(m + 1)
      BY <2>1, <3>1, <3>2
    <3> QED BY <3>3
  <2>3. CASE m + 1 \in keep
    <3>1. R(m + 1) = R(m) + 1 /\ k[m + 1] = Append(k[m], m + 1)
      BY <1>1, <1>2, <2>3
    <3>2. K(m + 1) = K(m) \cup {m + 1} /\ K(m) \subseteq K(m + 1) /\ m + 1 \in K(m + 1)
      BY <2>3
    <3> HIDE DEF K
    <3>3. k[m] \in Seq(K(m + 1))
      BY <2>1, <3>2
    <3>4. /\ k[m + 1] \in Seq(K(m + 1)) /\ Len(k[m + 1]) = R(m) + 1
          /\ \A j \in 1 .. R(m) : k[m + 1][j] = k[m][j]
          /\ k[m + 1][R(m) + 1] = m + 1
      BY <2>1, <3>1, <3>2, <3>3, AppendProperties
    <3>5. 1 .. R(m + 1) = (1 .. R(m)) \cup {R(m) + 1}
      BY <2>1, <3>1
    <3>6. \A j \in 1 .. R(m + 1) : k[m + 1][j] \in K(m + 1) /\ R(k[m + 1][j]) = j
      BY <2>1, <3>1, <3>2, <3>4, <3>5
    <3>7. \A i \in K(m + 1) : R(i) \in 1 .. R(m + 1) /\ k[m + 1][R(i)] = i
      BY <2>1, <3>1, <3>2, <3>4, <3>5
    <3>8. Good(m + 1)
      BY <3>1, <3>4, <3>6, <3>7
    <3> QED BY <3>8
  <2> QED BY <2>2, <2>3
<1>5. Nat \subseteq GoodOnes
  <2> HIDE DEF GoodOnes
  <2> QED BY <1>3, <1>4, Upwards
<1> QED BY <1>5 DEF k, R

-----------------------------------------------------------------------------
(* The smaller and the larger of two numbers, and slices.                  *)

LEMMA MinOfTwo ==
    ASSUME NEW a \in Nat, NEW b \in Nat
    PROVE  Min({a, b}) = IF a <= b THEN a ELSE b
<1> DEFINE m == IF a <= b THEN a ELSE b
<1>1. m \in {a, b} /\ \A y \in {a, b} : m <= y
  OBVIOUS
<1>2. \A x \in {a, b} : (\A y \in {a, b} : x <= y) => x = m
  OBVIOUS
<1> HIDE DEF m
<1>3. Min({a, b}) = CHOOSE x \in {a, b} : \A y \in {a, b} : x <= y
  BY DEF Min
<1>4. Min({a, b}) = m
  BY <1>1, <1>2, <1>3
<1> QED BY <1>4 DEF m

LEMMA MaxOfTwo ==
    ASSUME NEW a \in Nat, NEW b \in Nat
    PROVE  Max({a, b}) = IF a >= b THEN a ELSE b
<1> DEFINE m == IF a >= b THEN a ELSE b
<1>1. m \in {a, b} /\ \A y \in {a, b} : m >= y
  OBVIOUS
<1>2. \A x \in {a, b} : (\A y \in {a, b} : x >= y) => x = m
  OBVIOUS
<1> HIDE DEF m
<1>3. Max({a, b}) = CHOOSE x \in {a, b} : \A y \in {a, b} : x >= y
  BY DEF Max
<1>4. Max({a, b}) = m
  BY <1>1, <1>2, <1>3
<1> QED BY <1>4 DEF m

(* A slice holds what is left behind its offset, up to its limit.          *)
LEMMA SliceIsPiece ==
    ASSUME NEW S, NEW s \in Seq(S), NEW limit \in Nat, NEW offset \in Nat
    PROVE  LET cut == Slice(s, limit, offset)
               rest == IF Len(s) > offset THEN Len(s) - offset ELSE 0
           IN  /\ cut \in Seq(S)
               /\ Len(cut) = Min({limit, rest})
               /\ \A k \in 1 .. Len(cut) : cut[k] = s[offset + k] /\ offset + k \in 1 .. Len(s)
               /\ \A j \in 1 .. Len(s) :
                     offset < j /\ j <= offset + limit => j - offset \in 1 .. Len(cut)
<1> DEFINE cut == Slice(s, limit, offset)
           end == IF Len(s) <= offset + limit THEN Len(s) ELSE offset + limit
           rest == IF Len(s) > offset THEN Len(s) - offset ELSE 0
<1>1. end \in Nat /\ end <= Len(s) /\ Len(s) \in Nat
  OBVIOUS
<1>2. cut = SubSeq(s, offset + 1, end)
  <2>1. Min({Len(s), offset + limit}) = end
    BY MinOfTwo
  <2> QED BY <2>1 DEF Slice
<1>3. offset + 1 \in Int /\ end \in Int /\ \A i \in offset + 1 .. end : s[i] \in S
  BY <1>1
<1>4. Min({limit, rest}) = IF limit <= rest THEN limit ELSE rest
  <2>1. rest \in Nat
    BY <1>1
  <2> HIDE DEF rest
  <2> QED BY <2>1, MinOfTwo
<1>5. Min({limit, rest}) = IF offset <= end THEN end - offset ELSE 0
  BY <1>1, <1>4
<1>6. \A j \in 1 .. Len(s) : offset < j /\ j <= offset + limit => offset < end /\ j <= end
  BY <1>1
<1> HIDE DEF cut, end
<1>7. /\ cut \in Seq(S)
      /\ Len(cut) = IF offset + 1 <= end THEN end - (offset + 1) + 1 ELSE 0
      /\ \A i \in 1 .. end - (offset + 1) + 1 : cut[i] = s[offset + 1 + i - 1]
  BY <1>2, <1>3, SubSeqProperties
<1>8. Len(cut) = IF offset <= end THEN end - offset ELSE 0
  BY <1>1, <1>7
<1>9. ASSUME NEW k \in 1 .. Len(cut) PROVE cut[k] = s[offset + k] /\ offset + k \in 1 .. Len(s)
  <2>1. k \in 1 .. end - (offset + 1) + 1 /\ offset + 1 + k - 1 = offset + k
    BY <1>1, <1>8
  <2> QED BY <1>1, <1>7, <2>1
<1>10. ASSUME NEW j \in 1 .. Len(s), offset < j, j <= offset + limit PROVE j - offset \in 1 .. Len(cut)
  BY <1>1, <1>6, <1>8, <1>10
<1> QED BY <1>5, <1>7, <1>8, <1>9, <1>10 DEF cut

-----------------------------------------------------------------------------
(* The wishlist.                                                           *)

(* As many things as rows: a wish is kept once.                            *)
LEMMA ThingsOfWishes ==
    ASSUME rows \in Distinct, NEW some \in SUBSET DOMAIN rows
    PROVE  LET things == {rows[i].thing : i \in some}
           IN  /\ IsFiniteSet(some) /\ IsFiniteSet(things)
               /\ Cardinality(things) = Cardinality(some)
<1> DEFINE things == {rows[i].thing : i \in some}
           b == [i \in some |-> rows[i].thing]
<1>1. \A i, j \in DOMAIN rows : i # j => rows[i].thing # rows[j].thing
  BY DEF Distinct
<1>2. IsFiniteSet(some)
  <2>1. Len(rows) \in Nat /\ DOMAIN rows = 1 .. Len(rows)
    BY TablesAreSequences DEF Distinct, Plain
  <2>2. IsFiniteSet(1 .. Len(rows)) /\ some \in SUBSET (1 .. Len(rows))
    BY <2>1, FS_Interval
  <2> QED BY <2>2, FS_Subset
<1>3. b \in Bijection(some, things)
  BY <1>1 DEF Bijection, Injection, Surjection, IsInjective
<1> HIDE DEF b, things
<1>4. ExistsBijection(some, things)
  BY <1>3 DEF ExistsBijection
<1>5. IsFiniteSet(things) /\ Cardinality(things) = Cardinality(some)
  BY <1>2, <1>4, FS_Bijection
<1> QED BY <1>2, <1>5 DEF things

(* The page get_wishlist answers with is true when every row has been      *)
(* asked for.                                                              *)
LEMMA WishesAreTrue ==
    ASSUME ViewsInv, op = "wishlist", pc = "lookup", todo > Len(rows),
           NEW list, list = Wishes
    PROVE  IsTrueList(list, rows, page, was, edits = 0)
<1> DEFINE L == Len(rows)
           V == Visible
           v == Kept(V)[L]
           N == Rank(V, L)
           o == page.offset
           limit == page.limit
           cut == Slice(v, limit, o)
           wishes == {rows[i].thing : i \in DOMAIN rows}
           known == {t \in wishes : was[t] # {Absent}}
           lasting == {t \in known : Absent \notin was[t]}
           rest == IF N > o THEN N - o ELSE 0
           T(i) == rows[i].thing
<1>1. /\ rows \in Distinct /\ rows \in Tables
      /\ L \in Nat /\ DOMAIN rows = 1 .. L /\ \A i \in 1 .. L : T(i) \in Things
      /\ limit \in Nat /\ o \in Nat
  BY ViewsAssumption, TablesAreSequences DEF ViewsInv, TypeOK, Called
<1>2. \A i, j \in 1 .. L : T(i) = T(j) => i = j
  BY <1>1 DEF Distinct
<1>3. V \subseteq 1 .. L /\ V \cap (1 .. L) = V /\ N = Cardinality(V)
  BY <1>1 DEF Visible, Rank
<1>4. \A i \in 1 .. L : i \in V <=> Known(rows[i])
  BY <1>1 DEF Visible
<1>5. ASSUME NEW i \in V PROVE T(i) \in known
  <2>1. Known(rows[i]) /\ i \in DOMAIN rows
    BY <1>1, <1>3, <1>4
  <2>2. got[T(i)] \in (Offers \ {Absent}) \cap was[T(i)]
    BY <2>1 DEF ViewsInv, TypeOK, Known
  <2> QED BY <2>1, <2>2
<1>6. ASSUME NEW i \in 1 .. L, i \notin V PROVE Absent \in was[T(i)]
  <2>1. i \in DOMAIN rows /\ ~ Known(rows[i])
    BY <1>1, <1>4, <1>6
  <2>2. i < todo
    BY <1>1 DEF ViewsInv, TypeOK
  <2> QED BY <2>1, <2>2 DEF ViewsInv, Excuses
<1> HIDE DEF V, L
(* How many wishes are seen: all in V are known, and all lasting are in V. *)
<1> DEFINE seen == {T(i) : i \in V}
<1>7. N = Cardinality(seen) /\ IsFiniteSet(seen) /\ IsFiniteSet(known)
  <2>1. IsFiniteSet(seen) /\ Cardinality(seen) = Cardinality(V)
    BY <1>1, <1>3, ThingsOfWishes
  <2>2. IsFiniteSet(wishes)
    BY <1>1, ThingsOfWishes
  <2>3. IsFiniteSet(known)
    <3>1. known \in SUBSET wishes
      OBVIOUS
    <3> HIDE DEF known, wishes
    <3> QED BY <2>2, <3>1, FS_Subset
  <2> QED BY <1>3, <2>1, <2>3
<1>8. N <= Cardinality(known)
  <2>1. seen \in SUBSET known
    BY <1>5
  <2> HIDE DEF seen, known
  <2> QED BY <1>7, <2>1, FS_Subset
<1>9. N >= Cardinality(lasting)
  <2>1. lasting \in SUBSET seen
    <3> SUFFICES ASSUME NEW t \in lasting PROVE t \in seen
      OBVIOUS
    <3>1. PICK i \in 1 .. L : t = T(i)
      BY <1>1
    <3> QED BY <1>6, <3>1
  <2>2. Cardinality(seen) \in Nat
    BY <1>7, FS_CardinalityType
  <2>3. IsFiniteSet(lasting) /\ Cardinality(lasting) <= Cardinality(seen)
    <3> HIDE DEF seen, lasting
    <3> QED BY <1>7, <2>1, FS_Subset
  <2>4. Cardinality(lasting) \in Nat
    <3> HIDE DEF seen, lasting
    <3> QED BY <2>3, FS_CardinalityType
  <2> HIDE DEF seen, lasting
  <2> QED BY <1>7, <2>2, <2>3, <2>4
(* What stands on the page.                                                *)
<1>10. /\ v \in Seq(V) /\ Len(v) = N /\ N \in Nat
       /\ \A j \in 1 .. N : v[j] \in V /\ Rank(V, v[j]) = j
       /\ \A i \in V : Rank(V, i) \in 1 .. N /\ v[Rank(V, i)] = i
  <2>1. L \in Nat
    BY <1>1 DEF L
  <2>2. N \in Nat
    BY <2>1, RankSteps
  <2>3. /\ v \in Seq(V \cap (1 .. L)) /\ Len(v) = N
        /\ \A j \in 1 .. N : v[j] \in V \cap (1 .. L) /\ Rank(V, v[j]) = j
        /\ \A i \in V \cap (1 .. L) : Rank(V, i) \in 1 .. N /\ v[Rank(V, i)] = i
    BY <2>1, KeptByRank
  <2> HIDE DEF v, N
  <2> QED BY <1>3, <2>2, <2>3
<1> HIDE DEF v, N
<1>11. /\ cut \in Seq(V)
       /\ Len(cut) = Min({limit, rest}) /\ Len(cut) \in Nat
       /\ \A k \in 1 .. Len(cut) : cut[k] = v[o + k] /\ o + k \in 1 .. N
       /\ \A j \in 1 .. N : o < j /\ j <= o + limit => j - o \in 1 .. Len(cut)
  <2>1. limit \in Nat /\ o \in Nat /\ v \in Seq(V)
    BY <1>1, <1>10
  <2> DEFINE left == IF Len(v) > o THEN Len(v) - o ELSE 0
  <2>2. /\ cut \in Seq(V)
        /\ Len(cut) = Min({limit, left})
        /\ \A k \in 1 .. Len(cut) : cut[k] = v[o + k] /\ o + k \in 1 .. Len(v)
        /\ \A j \in 1 .. Len(v) : o < j /\ j <= o + limit => j - o \in 1 .. Len(cut)
    <3> HIDE DEF limit, o
    <3> QED BY <2>1, SliceIsPiece
  <2>3. left = rest /\ Len(v) = N
    BY <1>10
  <2> HIDE DEF cut, left, rest
  <2>4. Len(cut) \in Nat
    BY <2>2
  <2> QED BY <2>2, <2>3, <2>4
<1>12. list.items = ThingsOf(cut) /\ list.total_count = N
  BY <1>10 DEF Wishes, v, V, L
<1> HIDE DEF cut
<1>13. /\ DOMAIN list.items = 1 .. Len(cut) /\ Len(list.items) = Len(cut)
       /\ \A k \in 1 .. Len(cut) : list.items[k] = T(cut[k])
       /\ \A k \in 1 .. Len(cut) : cut[k] \in V /\ cut[k] \in 1 .. L /\ Rank(V, cut[k]) = o + k
  <2>1. DOMAIN cut = 1 .. Len(cut) /\ Len(cut) \in Nat
    BY <1>11
  <2>2. list.items = [k \in 1 .. Len(cut) |-> T(cut[k])]
    BY <1>12, <2>1 DEF ThingsOf
  <2>3. \A k \in 1 .. Len(cut) : cut[k] \in V /\ Rank(V, cut[k]) = o + k
    BY <1>10, <1>11
  <2>4. \A k \in 1 .. Len(cut) : cut[k] \in 1 .. L
    BY <1>3, <2>3
  <2> QED BY <2>1, <2>2, <2>3, <2>4
<1>14. \A t : t \in ToSet(list.items) <=> \E k \in 1 .. Len(cut) : t = T(cut[k])
  BY <1>13 DEF ToSet
<1>15. ToSet(list.items) \subseteq known
  BY <1>5, <1>13, <1>14
<1>16. IsInjective(list.items)
  <2>1. ASSUME NEW a \in 1 .. Len(cut), NEW b \in 1 .. Len(cut), list.items[a] = list.items[b]
        PROVE  a = b
    <3>1. cut[a] = cut[b]
      BY <1>2, <1>13, <2>1 DEF L
    <3>2. o + a = o + b
      BY <1>13, <3>1
    <3> QED BY <1>1, <3>2
  <2> QED BY <1>13, <2>1 DEF IsInjective
<1>17. Len(list.items) = Min({limit, rest})
  BY <1>11, <1>13
(* Without a change of B2B a wish is seen when it is known, and its rank   *)
(* says where.                                                             *)
<1>18. ASSUME edits = 0, NEW i \in DOMAIN rows
       PROVE  LET before == {j \in 1 .. i - 1 : T(j) \in known}
                  rank == Cardinality(before)
              IN  T(i) \in ToSet(list.items) <=> T(i) \in known /\ rank >= o /\ rank < o + limit
  <2> DEFINE before == {j \in 1 .. i - 1 : T(j) \in known}
             rank == Cardinality(before)
  <2>1. i \in 1 .. L
    BY <1>1
  <2>2. ASSUME NEW j \in 1 .. L, T(j) \in known PROVE j \in V
    <3>1. was[T(j)] = {offer[T(j)]}
      BY <1>1, <1>18 DEF ViewsInv, Steady, L
    <3>2. Absent \notin was[T(j)]
      BY <2>2, <3>1
    <3> QED BY <1>6, <3>2
  <2>3. \A j \in 1 .. L : T(j) \in known <=> j \in V
    BY <1>5, <2>2
  <2>4. before = V \cap (1 .. i - 1)
    <3>1. \A j \in 1 .. i - 1 : j \in 1 .. L
      BY <1>1, <2>1 DEF L
    <3> HIDE DEF known
    <3> QED BY <2>3, <3>1
  <2>5. rank = Rank(V, i - 1) /\ rank \in Nat
    <3>1. i - 1 \in Nat
      BY <2>1
    <3> HIDE DEF before
    <3> QED BY <2>4, <3>1, RankSteps DEF Rank
  <2> HIDE DEF rank, known
  <2>6. i \in V => Rank(V, i) = rank + 1
    <3>1. i - 1 \in Nat /\ (i - 1) + 1 = i
      BY <2>1
    <3>2. Rank(V, (i - 1) + 1) = IF (i - 1) + 1 \in V THEN Rank(V, i - 1) + 1 ELSE Rank(V, i - 1)
      BY <3>1, RankSteps
    <3> QED BY <2>5, <3>1, <3>2
  <2>7. ASSUME T(i) \in ToSet(list.items) PROVE T(i) \in known /\ rank >= o /\ rank < o + limit
    <3>1. PICK k \in 1 .. Len(cut) : T(i) = T(cut[k])
      BY <1>14, <2>7
    <3>2. i = cut[k]
      BY <1>2, <1>13, <2>1, <3>1 DEF L
    <3>3. i \in V /\ Rank(V, i) = o + k
      BY <1>13, <3>2
    <3>4. Len(cut) <= limit
      <4>1. rest \in Nat
        BY <1>1, <1>10
      <4> HIDE DEF rest
      <4> QED BY <1>1, <1>11, <4>1, MinOfTwo
    <3> QED BY <1>1, <1>11, <2>1, <2>3, <2>5, <2>6, <3>3, <3>4
  <2>8. ASSUME T(i) \in known, rank >= o, rank < o + limit PROVE T(i) \in ToSet(list.items)
    <3>1. i \in V
      BY <2>1, <2>3, <2>8
    <3>2. rank + 1 \in 1 .. N /\ v[rank + 1] = i
      BY <1>10, <2>6, <3>1
    <3> DEFINE k == (rank + 1) - o
    <3>3. o < rank + 1 /\ rank + 1 <= o + limit /\ o + k = rank + 1
      BY <1>1, <2>5, <2>8
    <3>4. k \in 1 .. Len(cut)
      <4>1. \A j \in 1 .. N : o < j /\ j <= o + limit => j - o \in 1 .. Len(cut)
        BY <1>11
      <4> HIDE DEF o, limit
      <4> QED BY <3>2, <3>3, <4>1
    <3>5. cut[k] = i
      BY <1>11, <3>2, <3>3, <3>4
    <3> QED BY <1>14, <3>4, <3>5
  <2>9. T(i) \in ToSet(list.items) <=> T(i) \in known /\ rank >= o /\ rank < o + limit
    BY <2>7, <2>8
  <2> QED BY <2>9 DEF rank, known
<1>19. list.total_count = N
  BY <1>12
<1>20. Len(list.items) =
          Min({limit, IF list.total_count > o THEN list.total_count - o ELSE 0})
  BY <1>17, <1>19
<1>21. list.total_count <= Cardinality(known) /\ list.total_count >= Cardinality(lasting)
  BY <1>8, <1>9, <1>19
<1>22. edits = 0 => \A i \in DOMAIN rows :
          LET before == {j \in 1 .. i - 1 : T(j) \in known}
              rank == Cardinality(before)
          IN  T(i) \in ToSet(list.items) <=> T(i) \in known /\ rank >= o /\ rank < o + limit
  <2> HIDE DEF known
  <2> QED BY <1>18
<1> QED BY <1>15, <1>16, <1>20, <1>21, <1>22 DEF IsTrueList

(* The pages of a wishlist hold what B2B knew while the request ran: each  *)
(* product saved once and shown once, counted if it was there all the time *)
(* and not if it never was; and without a change of B2B they are slices of *)
(* the wishlist, for every limit and offset.                               *)
THEOREM WishlistsAreShownTruly == Spec => []WishlistViewIsTrue
<1>1. Init => WishlistViewIsTrue
  BY DEF Init, WishlistViewIsTrue, Answered
<1>2. ViewsInv /\ WishlistViewIsTrue /\ [Next]_vars => WishlistViewIsTrue'
  <2> SUFFICES ASSUME ViewsInv, WishlistViewIsTrue, [Next]_vars, Answered("wishlist")'
               PROVE  WishlistViewIsTrue'
    BY DEF WishlistViewIsTrue
  <2>1. CASE UNCHANGED vars
    BY <2>1 DEF vars, request, WishlistViewIsTrue, Answered
  <2>2. CASE ShowWishlist
    <3>1. UNCHANGED <<rows, page, edits, was>> /\ answer'.body = Wishes
      BY <2>2 DEF ShowWishlist, Answer, World, request
    <3>2. IsTrueList(answer'.body, rows, page, was, edits = 0)
      BY <2>2, <3>1, WishesAreTrue DEF ShowWishlist
    <3> QED BY <3>1, <3>2 DEF WishlistViewIsTrue
  <2>3. ShowCart \/ ShowCollection \/ BatchIsArray \/ BatchFails => op' # "wishlist"
    BY DEF ShowCart, ShowCollection, BatchIsArray, BatchFails, Batch, Answer, request
  <2> QED BY <2>1, <2>2, <2>3, AnswerSteps DEF Answered
<1> QED BY <1>1, <1>2, AlwaysSound, PTL DEF Spec

-----------------------------------------------------------------------------
(* The collections.                                                        *)

(* One more row of a collection.                                           *)
Passed(acc, n, on) ==
    LET more == Append(acc.items, rows[n].thing)
    IN  IF acc.full THEN acc
        ELSE IF n \in on THEN [acc EXCEPT !.items = more, !.full = Full(more)]
        ELSE [acc EXCEPT !.unavailable_ids = Append(@, rows[n].thing)]

Empty == [items |-> <<>>, unavailable_ids |-> <<>>, full |-> FALSE]

(* The recursive definition of Collecting.                                 *)
LEMMA CollectingSteps ==
    ASSUME NEW on
    PROVE  /\ Collecting(on)[0] = Empty
           /\ \A i \in Nat : Collecting(on)[i + 1] = Passed(Collecting(on)[i], i + 1, on)
<1> DEFINE Named == {rows[n].thing : n \in Nat}
           X == [items : Seq(Named), unavailable_ids : Seq(Named), full : BOOLEAN]
           step == [n \in Nat |-> [x \in X |-> Passed(x, n, on)]]
           Grown(g) == [n \in Nat |->
                          IF n = 0 THEN [items |-> <<>>, unavailable_ids |-> <<>>, full |-> FALSE]
                          ELSE LET acc == g[n - 1]
                                   more == Append(acc.items, rows[n].thing)
                               IN  IF acc.full THEN acc
                                   ELSE IF n \in on THEN [acc EXCEPT !.items = more, !.full = Full(more)]
                                   ELSE [acc EXCEPT !.unavailable_ids = Append(@, rows[n].thing)]]
<1>1. Empty \in X /\ step \in StepsOn(X)
  <2>1. ASSUME NEW x \in X, NEW n \in Nat PROVE Passed(x, n, on) \in X
    <3>1. x.items \in Seq(Named) /\ x.unavailable_ids \in Seq(Named) /\ rows[n].thing \in Named
      OBVIOUS
    <3> HIDE DEF Named
    <3>2. Append(x.items, rows[n].thing) \in Seq(Named) /\ Append(x.unavailable_ids, rows[n].thing) \in Seq(Named)
      BY <3>1
    <3>3. Full(Append(x.items, rows[n].thing)) \in BOOLEAN
      BY DEF Full
    <3> QED BY <3>2, <3>3 DEF Passed
  <2>2. Empty \in X
    BY DEF Empty
  <2> HIDE DEF X
  <2>3. step \in StepsOn(X)
    BY <2>1 DEF StepsOn
  <2> QED BY <2>2, <2>3
<1>2. PICK f \in [Nat -> X] : Follows(f, Empty, step)
  <2> HIDE DEF step, X
  <2> QED BY <1>1, Recursion
<1>3. f = Grown(f)
  <2>1. ASSUME NEW n \in Nat PROVE f[n] = Grown(f)[n]
    <3>1. CASE n = 0
      BY <1>2, <3>1 DEF Follows, Empty
    <3>2. CASE n # 0
      <4> HIDE DEF X, step
      <4>1. f[n - 1] \in X
        BY <3>2
      <4>2. f[n] = step[n][f[n - 1]]
        BY <1>2, <3>2 DEF Follows
      <4>3. f[n] = Passed(f[n - 1], n, on)
        BY <4>1, <4>2 DEF step
      <4> QED BY <3>2, <4>3 DEF Passed
    <3> QED BY <3>1, <3>2
  <2>2. f = [n \in Nat |-> f[n]] /\ Grown(f) = [n \in Nat |-> Grown(f)[n]]
    OBVIOUS
  <2> HIDE DEF Grown
  <2> QED BY <2>1, <2>2
<1> DEFINE k == Collecting(on)
<1>4. k = CHOOSE g : g = Grown(g)
  BY DEF Collecting
<1>5. k = Grown(k)
  <2> HIDE DEF k, Grown
  <2> QED BY <1>3, <1>4
<1> HIDE DEF k
<1>6. k[0] = Empty
  BY <1>5 DEF Empty
<1>7. ASSUME NEW n \in Nat PROVE k[n + 1] = Passed(k[n], n + 1, on)
  <2>1. n + 1 \in Nat /\ n + 1 # 0 /\ (n + 1) - 1 = n
    OBVIOUS
  <2> QED BY <1>5, <2>1 DEF Passed
<1> QED BY <1>6, <1>7 DEF k

(* The things of rows are things, and grow with the rows.                  *)
LEMMA ThingsOfRows ==
    ASSUME rows \in Tables, NEW s \in Seq(DOMAIN rows), NEW i \in DOMAIN rows
    PROVE  /\ ThingsOf(s) \in Seq(Things) /\ Len(ThingsOf(s)) = Len(s)
           /\ ThingsOf(Append(s, i)) = Append(ThingsOf(s), rows[i].thing)
<1> DEFINE e == rows[i].thing
           t == ThingsOf(s)
           a == Append(s, i)
<1>1. \A j \in DOMAIN rows : rows[j].thing \in Things
  BY TablesAreSequences
<1>2. Len(s) \in Nat /\ DOMAIN s = 1 .. Len(s) /\ \A k \in 1 .. Len(s) : s[k] \in DOMAIN rows
  OBVIOUS
<1>3. t = [k \in 1 .. Len(s) |-> rows[s[k]].thing]
  BY <1>2 DEF ThingsOf
<1>4. t \in Seq(Things) /\ Len(t) = Len(s)
  BY <1>1, <1>2, <1>3
<1>5. /\ a \in Seq(DOMAIN rows) /\ Len(a) = Len(s) + 1
      /\ \A k \in 1 .. Len(s) : a[k] = s[k]
      /\ a[Len(s) + 1] = i
  BY AppendProperties
<1>6. ThingsOf(a) = [k \in 1 .. Len(s) + 1 |-> rows[a[k]].thing]
  BY <1>5 DEF ThingsOf
<1>7. Append(t, e) = [k \in 1 .. Len(s) + 1 |-> IF k <= Len(s) THEN t[k] ELSE e]
  <2>1. /\ Append(t, e) \in Seq(Things) /\ Len(Append(t, e)) = Len(s) + 1
        /\ \A k \in 1 .. Len(s) : Append(t, e)[k] = t[k]
        /\ Append(t, e)[Len(s) + 1] = e
    <3>1. e \in Things /\ Len(s) \in Nat /\ Len(t) = Len(s) /\ t \in Seq(Things)
      BY <1>1, <1>4
    <3> HIDE DEF t, e
    <3>2. /\ Append(t, e) \in Seq(Things) /\ Len(Append(t, e)) = Len(t) + 1
          /\ \A k \in 1 .. Len(t) : Append(t, e)[k] = t[k]
          /\ Append(t, e)[Len(t) + 1] = e
      BY <3>1, AppendProperties
    <3> QED BY <3>1, <3>2
  <2> DEFINE q == Append(t, e)
  <2> HIDE DEF t, e, q
  <2>2. q = [k \in 1 .. Len(s) + 1 |-> q[k]]
    <3>1. q \in Seq(Things) /\ Len(q) = Len(s) + 1
      BY <2>1 DEF q
    <3> QED BY <3>1
  <2>3. ASSUME NEW k \in 1 .. Len(s) + 1 PROVE q[k] = IF k <= Len(s) THEN t[k] ELSE e
    BY <1>2, <2>1 DEF q
  <2>4. q = [k \in 1 .. Len(s) + 1 |-> IF k <= Len(s) THEN t[k] ELSE e]
    BY <2>2, <2>3
  <2> QED BY <2>4 DEF q
<1>8. ASSUME NEW k \in 1 .. Len(s) + 1
      PROVE  rows[a[k]].thing = IF k <= Len(s) THEN t[k] ELSE e
  BY <1>2, <1>3, <1>5
<1> HIDE DEF t, e, a
<1>9. ThingsOf(a) = Append(t, e)
  BY <1>6, <1>7, <1>8
<1> QED BY <1>4, <1>9 DEF t, e, a

(* The collection that get_collection answers with, whatever is on sale.   *)
LEMMA CollectionsAreTrue ==
    ASSUME rows \in Tables, page.max_display \in Nat, NEW on \in SUBSET DOMAIN rows
    PROVE  IsTrueCollection(Collecting(on)[Len(rows)], on)
<1> DEFINE L == Len(rows)
           off == DOMAIN rows \ on
           loop == Collecting(on)
           room == Max({1, page.max_display})
           C == [items : Seq(Things), unavailable_ids : Seq(Things), full : BOOLEAN]
           Come(c) == Len(c.items) + Len(c.unavailable_ids)
           True(c, m) ==
               /\ c \in C
               /\ Come(c) <= m
               /\ c.items = ThingsOf(Kept(on)[Come(c)])
               /\ c.unavailable_ids = ThingsOf(Kept(off)[Come(c)])
               /\ c.full => Len(c.items) = room /\ Come(c) \in on
               /\ ~ c.full => Come(c) = m /\ Len(c.items) < room
           Good == {m \in Nat : m <= L => True(loop[m], m)}
<1>1. L \in Nat /\ DOMAIN rows = 1 .. L
  BY TablesAreSequences
<1>2. /\ room \in Nat /\ 1 <= room
      /\ \A n \in Nat : n < room => (n + 1 >= page.max_display => n + 1 = room)
                                     /\ (~ (n + 1 >= page.max_display) => n + 1 < room)
  <2>1. room = IF 1 >= page.max_display THEN 1 ELSE page.max_display
    BY MaxOfTwo
  <2> QED BY <2>1
<1> HIDE DEF room
<1>3. loop[0] = Empty /\ \A i \in Nat : loop[i + 1] = Passed(loop[i], i + 1, on)
  BY CollectingSteps
<1> HIDE DEF loop
<1>4. 0 \in Good
  <2>1. Kept(on)[0] = <<>> /\ Kept(off)[0] = <<>>
    BY KeptSteps
  <2>2. ThingsOf(<<>>) = <<>>
    BY DEF ThingsOf
  <2>3. Come(Empty) = 0
    BY DEF Empty
  <2>4. True(Empty, 0)
    BY <1>2, <2>1, <2>2, <2>3 DEF Empty
  <2> HIDE DEF True
  <2> QED BY <1>3, <2>4
<1>5. ASSUME NEW m \in Nat, m \in Good PROVE m + 1 \in Good
  <2> HIDE DEF True
  <2> SUFFICES ASSUME m + 1 <= L PROVE True(loop[m + 1], m + 1)
    OBVIOUS
  <2> DEFINE c == loop[m]
             d == loop[m + 1]
             e == rows[m + 1].thing
  <2>1. True(c, m) /\ d = Passed(c, m + 1, on)
    <3>1. m <= L
      BY <1>1
    <3> QED BY <1>3, <1>5, <3>1
  <2> USE DEF True
  <2>2. m + 1 \in DOMAIN rows /\ m + 1 \in 1 .. L /\ e \in Things
    BY <1>1, TablesAreSequences
  <2> HIDE DEF c, d
  <2>3. CASE c.full
    <3>1. d = c
      BY <2>1, <2>3 DEF Passed
    <3>2. Come(c) <= m + 1
      BY <2>1
    <3> HIDE DEF Come
    <3> QED BY <2>1, <2>3, <3>1, <3>2 DEF c, d
  <2>4. CASE ~ c.full
    <3>1. Come(c) = m /\ Len(c.items) < room
      BY <2>1, <2>4
    <3>2. ASSUME NEW keep \in SUBSET DOMAIN rows
          PROVE  /\ Kept(keep)[m] \in Seq(DOMAIN rows)
                 /\ m + 1 \in keep => ThingsOf(Kept(keep)[m + 1]) = Append(ThingsOf(Kept(keep)[m]), e)
                 /\ m + 1 \notin keep => Kept(keep)[m + 1] = Kept(keep)[m]
      <4>1. Kept(keep)[m] \in Seq(keep \cap (1 .. m))
        BY KeptByRank
      <4>2. Kept(keep)[m] \in Seq(DOMAIN rows)
        BY <4>1
      <4>3. Kept(keep)[m + 1] =
               IF m + 1 \in keep THEN Append(Kept(keep)[m], m + 1) ELSE Kept(keep)[m]
        BY KeptSteps
      <4> QED BY <2>2, <4>2, <4>3, ThingsOfRows
    <3>3. on \in SUBSET DOMAIN rows /\ off \in SUBSET DOMAIN rows
      OBVIOUS
    <3>4. c.items \in Seq(Things) /\ c.unavailable_ids \in Seq(Things) /\ c \in C
      BY <2>1
    <3>5. CASE m + 1 \in on
      <4> DEFINE more == Append(c.items, e)
      <4>1. d = [c EXCEPT !.items = more, !.full = Full(more)]
        BY <2>1, <2>4, <3>5 DEF Passed
      <4>2. more \in Seq(Things) /\ Len(more) = Len(c.items) + 1 /\ Len(c.items) \in Nat
        BY <2>2, <3>4, AppendProperties
      <4>3. more = ThingsOf(Kept(on)[m + 1])
        BY <2>1, <3>1, <3>2, <3>3, <3>5
      <4>4. c.unavailable_ids = ThingsOf(Kept(off)[m + 1])
        <5>1. m + 1 \notin off
          BY <3>5
        <5> HIDE DEF off
        <5> QED BY <2>1, <3>1, <3>2, <3>3, <5>1
      <4>5. Full(more) <=> Len(c.items) + 1 >= page.max_display
        BY <4>2 DEF Full
      <4> HIDE DEF more
      <4>6. /\ d \in C /\ d.items = more /\ d.unavailable_ids = c.unavailable_ids /\ d.full = Full(more)
        <5>1. Full(more) \in BOOLEAN
          BY DEF Full
        <5> HIDE DEF c, d
        <5> QED BY <3>4, <4>1, <4>2, <5>1
      <4>7. Come(d) = m + 1
        <5>1. Len(c.unavailable_ids) \in Nat /\ Len(c.items) + Len(c.unavailable_ids) = m
          BY <3>1, <3>4
        <5>2. Len(d.items) = Len(c.items) + 1 /\ d.unavailable_ids = c.unavailable_ids
          BY <4>2, <4>6
        <5>3. Len(c.items) \in Nat
          BY <4>2
        <5> DEFINE there == Len(c.items)  gone == Len(c.unavailable_ids)
        <5>4. Come(d) = (there + 1) + gone
          BY <5>2
        <5>5. there \in Nat /\ gone \in Nat /\ there + gone = m
          BY <5>1, <5>3
        <5> HIDE DEF there, gone, Come
        <5>6. (there + 1) + gone = (there + gone) + 1
          BY <5>5
        <5> QED BY <5>4, <5>5, <5>6
      <4>8. /\ d.full => Len(d.items) = room
            /\ ~ d.full => Len(d.items) < room
        BY <1>2, <3>1, <4>2, <4>5, <4>6
      <4>9. True(d, m + 1)
        <5> HIDE DEF Come, C
        <5> QED BY <3>5, <4>3, <4>4, <4>6, <4>7, <4>8
      <4> QED BY <4>9 DEF d
    <3>6. CASE m + 1 \notin on
      <4> DEFINE passed == Append(c.unavailable_ids, e)
      <4>1. d = [c EXCEPT !.unavailable_ids = passed]
        BY <2>1, <2>4, <3>6 DEF Passed
      <4>2. passed \in Seq(Things) /\ Len(passed) = Len(c.unavailable_ids) + 1
        BY <2>2, <3>4, AppendProperties
      <4>3. passed = ThingsOf(Kept(off)[m + 1])
        <5>1. m + 1 \in off
          BY <2>2, <3>6
        <5> HIDE DEF off
        <5> QED BY <2>1, <3>1, <3>2, <3>3, <5>1
      <4>4. c.items = ThingsOf(Kept(on)[m + 1])
        BY <2>1, <3>1, <3>2, <3>3, <3>6
      <4> HIDE DEF passed
      <4>5. d \in C /\ d.items = c.items /\ d.unavailable_ids = passed /\ d.full = c.full
        BY <3>4, <4>1, <4>2
      <4>6. Come(d) = m + 1
        BY <3>1, <3>4, <4>2, <4>5
      <4>7. True(d, m + 1)
        <5> HIDE DEF Come, C
        <5> QED BY <2>4, <3>1, <4>3, <4>4, <4>5, <4>6
      <4> QED BY <4>7 DEF d
    <3> QED BY <3>5, <3>6
  <2> QED BY <2>3, <2>4
<1>6. True(loop[L], L)
  <2>1. Nat \subseteq Good
    <3> HIDE DEF Good
    <3> QED BY <1>4, <1>5, Upwards
  <2> HIDE DEF True
  <2> QED BY <1>1, <2>1
<1> DEFINE shown == loop[L]
<1>7. /\ Come(shown) <= L
      /\ shown.items = ThingsOf(Kept(on)[Come(shown)])
      /\ shown.unavailable_ids = ThingsOf(Kept(off)[Come(shown)])
      /\ Len(shown.items) <= room
      /\ Come(shown) < L => Len(shown.items) = room /\ Come(shown) \in on
  <2> HIDE DEF shown
  <2>1. True(shown, L)
    BY <1>6 DEF shown
  <2>2. Len(shown.items) \in Nat
    BY <2>1
  <2> HIDE DEF Come
  <2> QED BY <1>1, <1>2, <2>1, <2>2
<1> QED BY <1>7 DEF IsTrueCollection, loop, room

(* A collection stays true while its rows do not change.                   *)
LEMMA TrueCollectionKept ==
    ASSUME NEW shown, NEW on, UNCHANGED <<rows, page>>, IsTrueCollection(shown, on)
    PROVE  IsTrueCollection(shown, on)'
<1>1. rows' = rows /\ page' = page
  OBVIOUS
<1> QED BY <1>1 DEF IsTrueCollection, ThingsOf

(* The products at these numbers are shown.                                *)
Offered(table, how, said) ==
    {i \in DOMAIN table : how = "products by id" /\ OnSale(said[table[i].thing])}

(* The answer for what B2B says of the products, and when it says nothing. *)
LEMMA CollectionAnswered ==
    ASSUME ViewsInv, ShowCollection \/ BatchIsArray \/ BatchFails
    PROVE  IsTrueCollection(answer'.body, Offered(rows, heard', offer))
<1> DEFINE on == Offered(rows, heard', offer)
           Among(answers) == {i \in DOMAIN rows : rows[i].thing \in DOMAIN answers
                                                  /\ OnSale(answers[rows[i].thing])}
<1>1. /\ rows \in Tables /\ \A i \in DOMAIN rows : rows[i].thing \in Things
      /\ op = "collection" /\ pc = "lookup" /\ page.max_display \in Nat
  BY ViewsAssumption, TablesAreSequences
     DEF ViewsInv, TypeOK, Called, ShowCollection, BatchIsArray, BatchFails, Batch
<1>2. \E answers : answer'.body = Collected(answers) /\ Among(answers) = on
  <2>1. CASE ShowCollection
    <3> DEFINE answers == [t \in {u \in Things : offer[u] # Absent} |-> offer[t]]
    <3>1. answer'.body = Collected(answers) /\ heard' = "products by id"
      BY <2>1 DEF ShowCollection, Batch, Answer
    <3>3. ~ OnSale(Absent)
      BY DEF OnSale, Absent, Offer
    <3>4. ASSUME NEW i \in DOMAIN rows PROVE i \in Among(answers) <=> i \in on
      BY <1>1, <3>1, <3>3 DEF Offered
    <3>5. Among(answers) = on
      BY <3>4 DEF Offered
    <3> HIDE DEF answers, Among, on
    <3> QED BY <3>1, <3>5
  <2>2. CASE BatchIsArray \/ BatchFails
    <3>1. answer'.body = Collected(<<>>) /\ heard' # "products by id"
      <4>1. CASE BatchIsArray
        BY <4>1 DEF BatchIsArray, Batch, Answer
      <4>2. CASE BatchFails
        BY <4>2 DEF BatchFails, Batch, Answer
      <4> QED BY <2>2, <4>1, <4>2
    <3>2. Among(<<>>) = {}
      OBVIOUS
    <3>3. on = {}
      BY <3>1 DEF Offered
    <3> HIDE DEF Among, on
    <3> QED BY <3>1, <3>2, <3>3
  <2> QED BY <2>1, <2>2
<1>3. PICK answers : answer'.body = Collected(answers) /\ Among(answers) = on
  BY <1>2
<1>4. answer'.body = Collecting(on)[Len(rows)]
  BY <1>3 DEF Collected
<1>5. on \in SUBSET DOMAIN rows
  BY DEF Offered
<1> HIDE DEF on
<1>6. IsTrueCollection(answer'.body, on)
  BY <1>1, <1>4, <1>5, CollectionsAreTrue
<1> QED BY <1>6 DEF on

(* A collection shows the first of its products that are on sale, as many  *)
(* as it may display, and names those it passed over, for every list of    *)
(* products, one that names a product twice included.                      *)
THEOREM CollectionsAreShownTruly == Spec => []CollectionIsTrue
<1>1. Init => CollectionIsTrue
  BY DEF Init, CollectionIsTrue, Answered
<1>2. ViewsInv /\ CollectionIsTrue /\ [Next]_vars => CollectionIsTrue'
  <2> SUFFICES ASSUME ViewsInv, CollectionIsTrue, [Next]_vars, Answered("collection")'
               PROVE  CollectionIsTrue'
    BY DEF CollectionIsTrue
  <2>1. CASE UNCHANGED vars
    <3>1. UNCHANGED <<rows, page, offer, heard, answer>>
          /\ IsTrueCollection(answer.body, Offered(rows, heard, offer))
      BY <2>1 DEF vars, request, CollectionIsTrue, Answered, Offered
    <3>2. IsTrueCollection(answer'.body, Offered(rows, heard', offer))
      BY <3>1
    <3> QED BY <3>1, <3>2, TrueCollectionKept DEF CollectionIsTrue, Offered
  <2>2. CASE ShowCollection \/ BatchIsArray \/ BatchFails
    <3>1. UNCHANGED <<rows, page, offer>>
      BY <2>2 DEF ShowCollection, BatchIsArray, BatchFails, Batch, Answer, request
    <3>2. IsTrueCollection(answer'.body, Offered(rows, heard', offer))
      BY <2>2, CollectionAnswered
    <3> QED BY <3>1, <3>2, TrueCollectionKept DEF CollectionIsTrue, Offered
  <2>3. ShowCart \/ ShowWishlist => op' # "collection"
    BY DEF ShowCart, ShowWishlist, Answer, request
  <2> QED BY <2>1, <2>2, <2>3, AnswerSteps DEF Answered
<1> QED BY <1>1, <1>2, AlwaysSound, PTL DEF Spec

=============================================================================
