------------------------------- MODULE Views -------------------------------
(***************************************************************************)
(* The pages that show what B2C keeps (a cart, a wishlist, a collection of *)
(* the home page) with what B2B says of it at the moment: cart.py get_cart,*)
(* wishlist.py get_wishlist, home.py get_collection, recommendations.py,   *)
(* and the lookups of b2b_client.py they are made of.  The rows are        *)
(* selected once, then B2B is asked for one thing after the other, and     *)
(* sellers change their offers in between.  The handlers share nothing, so *)
(* there is one request, over every content the tables can have: the cart  *)
(* may hold a SKU twice (run cart_two_rows), and the order of an unordered *)
(* select is any.                                                          *)
(*                                                                         *)
(* A SKU and a product are both a thing on offer here; what they are       *)
(* called and look like is left out.                                       *)
(***************************************************************************)
EXTENDS Naturals, SequencesExt, FiniteSetsExt

CONSTANTS
    Things,        \* SKUs and products
    Prices,
    Quantities,
    MaxRows,       \* bound: rows of a table that a request selects
    Limits,        \* ?limit of the wishlist
    Offsets,       \* ?offset of the wishlist
    Displays,      \* max_display of a collection
    MaxEdits       \* bound: changes of offers during a request

ASSUME ViewsAssumption ==
    /\ Prices \subseteq Nat \ {0}
    /\ Quantities \subseteq Nat \ {0} /\ 1 \in Quantities
    /\ Limits \subseteq Nat \ {0}
    /\ Offsets \subseteq Nat /\ Displays \subseteq Nat
    /\ {MaxRows, MaxEdits} \subseteq Nat

VARIABLES
    offer,     \* what B2B says of a thing: its price, or why it is not sold
    op,        \* the handler that runs, or ran last
    pc,
    rows,      \* what the handler has selected
    page,      \* limit and offset, or max_display
    todo,      \* the row to look up next
    got,       \* what the lookups found
    answer,
    edits,
    was,       \* history: what B2B has said of a thing during the request
    erred,     \* history: things for which B2B answered with an HTTP error
    heard      \* history: what the batch call of a collection came to

request == <<op, rows, page>>
vars == <<offer, pc, request, todo, got, answer, edits, was, erred, heard>>

Offer(what, price) == [is |-> what, price |-> price]

Absent == Offer("absent", 0)

Offers ==
    {Offer(what, 0) : what \in {"absent", "inactive", "sold out"}}
        \cup {Offer("on sale", p) : p \in Prices}

Row == [thing : Things, quantity : Quantities]

Tables == UNION {[1 .. n -> Row] : n \in 0 .. MaxRows}

(* Rows without a quantity.                                                *)
Plain == {t \in Tables : \A i \in DOMAIN t : t[i].quantity = 1}

(* A wish is kept once.                                                    *)
Distinct == {t \in Plain : \A i, j \in DOMAIN t : i # j => t[i].thing # t[j].thing}

OnSale(o) == o.is = "on sale"

Known(r) == r.thing \in DOMAIN got

-----------------------------------------------------------------------------
(* What the handlers make of their rows and lookups.  Loops over the rows  *)
(* are recursive functions of the number of rows they have seen: the folds *)
(* of the libraries cannot be reasoned about.                              *)

(* What all rows charge together.                                          *)
Total(charge) ==
    LET sum[n \in Nat] == IF n = 0 THEN 0 ELSE sum[n - 1] + charge[n]
    IN  sum[Len(charge)]

(* Kept(keep)[n]: of the first n rows those to keep, by number.            *)
Kept(keep) ==
    LET kept[n \in Nat] ==
            IF n = 0 THEN <<>>
            ELSE IF n \in keep THEN Append(kept[n - 1], n) ELSE kept[n - 1]
    IN  kept

(* The things of some rows.                                                *)
ThingsOf(numbers) == [k \in DOMAIN numbers |-> rows[numbers[k]].thing]

Reason(r) ==
    IF ~ Known(r) THEN "sku_not_found"
    ELSE IF got[r.thing].is = "inactive" THEN "not_active"
    ELSE "out_of_stock"

(* Mutant: the total is of the SKUs, not of the rows.                      *)
TotalOfSkus(on) ==
    Total([i \in DOMAIN rows |->
             IF i \in on /\ \A j \in on : j < i => rows[j].thing # rows[i].thing
             THEN got[rows[i].thing].price * rows[i].quantity ELSE 0])

TotalOf(on) ==
    Total([i \in DOMAIN rows |->
             IF i \in on THEN got[rows[i].thing].price * rows[i].quantity ELSE 0])

(* _enrich_cart_items and _build_cart_response: rows by their number.      *)
Enriched ==
    LET on == {i \in DOMAIN rows : Known(rows[i]) /\ OnSale(got[rows[i].thing])}
    IN  [items |-> [i \in on |-> got[rows[i].thing].price],
         unavailable |-> [i \in DOMAIN rows \ on |-> Reason(rows[i])],
         total |-> TotalOf(on),
         is_valid |-> on = DOMAIN rows]

Slice(s, limit, offset) == SubSeq(s, offset + 1, Min({Len(s), offset + limit}))

Visible == {i \in DOMAIN rows : Known(rows[i])}

(* Mutant: the page is cut before the rows that are gone are left out.     *)
WishesCutFirst ==
    LET cut == Visible \cap (page.offset + 1 .. page.offset + page.limit)
    IN  [items |-> ThingsOf(Kept(cut)[Len(rows)]),
         total_count |-> Cardinality(Visible)]

(* The rows B2B knows, and the page of them.                               *)
Wishes ==
    LET visible == Kept(Visible)[Len(rows)]
    IN  [items |-> ThingsOf(Slice(visible, page.limit, page.offset)),
         total_count |-> Len(visible)]

(* Mutant: the loop ends one product late.                                 *)
FullLate(items) == Len(items) > page.max_display

Full(items) == Len(items) >= page.max_display

(* The loop over the products of a collection: Collecting(on)[n] is what   *)
(* it has after n rows, when those at the numbers in on are on sale.       *)
Collecting(on) ==
    LET loop[n \in Nat] ==
            IF n = 0 THEN [items |-> <<>>, unavailable_ids |-> <<>>, full |-> FALSE]
            ELSE LET acc == loop[n - 1]
                     more == Append(acc.items, rows[n].thing)
                 IN  IF acc.full THEN acc
                     ELSE IF n \in on THEN [acc EXCEPT !.items = more, !.full = Full(more)]
                     ELSE [acc EXCEPT !.unavailable_ids = Append(@, rows[n].thing)]
    IN  loop

Collected(answers) ==
    Collecting({i \in DOMAIN rows : rows[i].thing \in DOMAIN answers
                                   /\ OnSale(answers[rows[i].thing])})[Len(rows)]

-----------------------------------------------------------------------------
Codes == {0, 200, 500, 502}
Hearings == {"nothing", "products by id", "array", "error"}

TypeOK ==
    /\ offer \in [Things -> Offers]
    /\ op \in {"none", "cart", "wishlist", "collection", "recommendations"}
    /\ pc \in {"idle", "lookup", "answered"}
    /\ rows \in Tables
    /\ todo \in 1 .. Len(rows) + 1
    /\ DOMAIN got \subseteq Things
    /\ \A t \in DOMAIN got : got[t] \in (Offers \ {Absent}) \cap was[t]
    /\ answer.code \in Codes
    /\ edits \in 0 .. MaxEdits
    /\ was \in [Things -> SUBSET Offers]
    /\ erred \subseteq Things
    /\ heard \in Hearings

Init ==
    /\ offer \in [Things -> Offers]
    /\ op = "none" /\ pc = "idle"
    /\ rows = <<>> /\ page = <<>> /\ todo = 1
    /\ got = <<>>
    /\ answer = [code |-> 0]
    /\ edits = 0
    /\ was = [t \in Things |-> {}]
    /\ erred = {}
    /\ heard = "nothing"

Begin(handler, table, args) ==
    /\ pc = "idle"
    /\ pc' = "lookup"
    /\ op' = handler /\ rows' = table /\ page' = args
    /\ was' = [t \in Things |-> {offer[t]}]
    /\ UNCHANGED <<offer, todo, got, answer, edits, erred, heard>>

Answer(code, body) ==
    /\ pc' = "answered"
    /\ answer' = [code |-> code, body |-> body]
    /\ UNCHANGED <<request, todo, got>>

(* The request is over.                                                    *)
Leave ==
    /\ pc = "answered"
    /\ pc' = "idle" /\ op' = "none"
    /\ rows' = <<>> /\ page' = <<>> /\ todo' = 1 /\ got' = <<>>
    /\ answer' = [code |-> 0] /\ edits' = 0 /\ erred' = {}
    /\ was' = [t \in Things |-> {}]
    /\ heard' = "nothing"
    /\ UNCHANGED offer

World == UNCHANGED <<offer, edits, was, heard>>

-----------------------------------------------------------------------------
GetCart == \E t \in Tables : Begin("cart", t, <<>>)

GetWishlist ==
    \E t \in Distinct, n \in Limits, o \in Offsets :
        Begin("wishlist", t, [limit |-> n, offset |-> o])

(* product_ids is what was stored: it may name a product twice.            *)
GetCollection ==
    \E t \in Plain, n \in Displays : Begin("collection", t, [max_display |-> n])

GetRecommendations == \E t \in Plain : Len(t) = 1 /\ Begin("recommendations", t, <<>>)

-----------------------------------------------------------------------------
(* get_skus_by_ids and the loop of get_wishlist: one thing after another,  *)
(* a SKU that is there twice is asked for twice.                           *)
Asks(handlers) == pc = "lookup" /\ op \in handlers /\ todo <= Len(rows)

Thing == rows[todo].thing

Proceed ==
    /\ todo' = todo + 1
    /\ UNCHANGED <<pc, request, answer>>

(* 200.                                                                    *)
Finds ==
    /\ Asks({"cart", "wishlist"})
    /\ offer[Thing] # Absent
    /\ got' = [t \in DOMAIN got \cup {Thing} |-> IF t = Thing THEN offer[t] ELSE got[t]]
    /\ Proceed /\ World /\ UNCHANGED erred

(* Mutant: the body of the 404 is taken for the thing.                     *)
MissesNot ==
    /\ Asks({"cart", "wishlist"})
    /\ offer[Thing] = Absent
    /\ got' = [t \in DOMAIN got \cup {Thing} |-> IF t = Thing THEN offer[t] ELSE got[t]]
    /\ Proceed /\ World /\ UNCHANGED erred

(* 404: left out.                                                          *)
Misses ==
    /\ Asks({"cart", "wishlist"})
    /\ offer[Thing] = Absent
    /\ Proceed /\ World /\ UNCHANGED <<got, erred>>

(* Any other error status, or a body that is no JSON: the cart goes on     *)
(* without the SKU, the wishlist raises.                                   *)
HttpError ==
    /\ Asks({"cart", "wishlist"})
    /\ erred' = erred \cup {Thing}
    /\ IF op = "cart" THEN Proceed /\ UNCHANGED got ELSE Answer(500, {})
    /\ World

(* Mutant: the cart goes on without the SKU.                               *)
UnreachableSkipped ==
    /\ Asks({"cart", "wishlist"})
    /\ IF op = "cart" THEN Proceed /\ UNCHANGED got ELSE Answer(500, {})
    /\ World /\ UNCHANGED erred

(* Refused connection or timeout.  get_cart maps it; nothing maps it for   *)
(* get_wishlist.                                                           *)
Unreachable ==
    /\ Asks({"cart", "wishlist"})
    /\ IF op = "cart" THEN Answer(502, "B2B_UNAVAILABLE") ELSE Answer(500, {})
    /\ World /\ UNCHANGED erred

ShowCart ==
    /\ pc = "lookup" /\ op = "cart" /\ todo > Len(rows)
    /\ Answer(200, Enriched)
    /\ World /\ UNCHANGED erred

ShowWishlist ==
    /\ pc = "lookup" /\ op = "wishlist" /\ todo > Len(rows)
    /\ Answer(200, Wishes)
    /\ World /\ UNCHANGED erred

(* get_products_by_ids: one call for all products of the collection.       *)
Batch(how, answers) ==
    /\ pc = "lookup" /\ op = "collection"
    /\ heard' = how
    /\ Answer(200, Collected(answers))
    /\ UNCHANGED <<offer, edits, was, erred>>

(* An object that holds the products B2B knows by their id.                *)
ShowCollection ==
    Batch("products by id", [t \in {u \in Things : offer[u] # Absent} |-> offer[t]])

(* The array of products of the published contract: it is not an object,   *)
(* and dropped, as if B2B knew none.                                       *)
BatchIsArray == Batch("array", <<>>)

(* B2BClientError: none, too.                                              *)
BatchFails == Batch("error", <<>>)

(* get_recommendations: get_products_by_category is called with arguments  *)
(* it does not have, so that a product B2B knows ends in a TypeError.      *)
Recommend ==
    /\ Asks({"recommendations"})
    /\ IF offer[Thing] = Absent THEN Answer(200, "Product not found") ELSE Answer(500, {})
    /\ World /\ UNCHANGED erred

(* Nothing maps the error of get_product_by_id.                            *)
RecommendFails ==
    /\ Asks({"recommendations"})
    /\ Answer(500, {})
    /\ World /\ UNCHANGED erred

(* Sellers change prices and stock, products are blocked and come back.    *)
Edit ==
    /\ pc = "lookup" /\ edits < MaxEdits
    /\ \E t \in Things, o \in Offers :
          /\ o # offer[t]
          /\ offer' = [offer EXCEPT ![t] = o]
          /\ was' = [was EXCEPT ![t] = @ \cup {o}]
    /\ edits' = edits + 1
    /\ UNCHANGED <<pc, request, todo, got, answer, erred, heard>>

Next ==
    \/ GetCart \/ GetWishlist \/ GetCollection \/ GetRecommendations
    \/ Finds \/ Misses \/ HttpError \/ Unreachable
    \/ ShowCart \/ ShowWishlist
    \/ ShowCollection \/ BatchIsArray \/ BatchFails
    \/ Recommend \/ RecommendFails
    \/ Edit
    \/ Leave

Spec == Init /\ [][Next]_vars

-----------------------------------------------------------------------------
(* Properties                                                              *)

Answered(handler) == pc = "answered" /\ op = handler /\ answer.code = 200

(* Why a row is unavailable was so at some moment of the request, or B2B   *)
(* answered for it with an error.  A B2B that cannot be reached makes      *)
(* nothing unavailable.                                                    *)
Excused(t, reason) ==
    \/ reason = "not_active" /\ Offer("inactive", 0) \in was[t]
    \/ reason = "out_of_stock" /\ Offer("sold out", 0) \in was[t]
    \/ reason = "sku_not_found" /\ (Absent \in was[t] \/ t \in erred)

(* The page and the rows it was made of agree.                             *)
IsTruePage(cart) ==
    LET Verdict(i) == IF i \in DOMAIN cart.items THEN cart.items[i] ELSE cart.unavailable[i]
    IN  /\ DOMAIN cart.items \cup DOMAIN cart.unavailable = DOMAIN rows
        /\ DOMAIN cart.items \cap DOMAIN cart.unavailable = {}
        /\ \A i \in DOMAIN cart.items : Offer("on sale", cart.items[i]) \in was[rows[i].thing]
        /\ \A i \in DOMAIN cart.unavailable : Excused(rows[i].thing, cart.unavailable[i])
        /\ \A i, j \in DOMAIN rows : rows[i].thing = rows[j].thing => Verdict(i) = Verdict(j)
        /\ cart.is_valid <=> DOMAIN cart.items = DOMAIN rows

(* A cart page shows every row of the cart once, for sale at a price the   *)
(* SKU had while the request ran or unavailable for a true reason; and     *)
(* rows of one SKU, looked up at different moments, say the same.          *)
CartViewIsTrue == Answered("cart") => IsTruePage(answer.body)

(* While nothing changes and nothing fails, the total is the price of the  *)
(* rows that are on sale now, a SKU with two rows charged for both.        *)
TotalIsOfRowsOnSale ==
    Answered("cart") /\ edits = 0 /\ erred = {} =>
        answer.body.total =
            Total([i \in DOMAIN rows |->
                     IF OnSale(offer[rows[i].thing])
                     THEN offer[rows[i].thing].price * rows[i].quantity ELSE 0])

(* What a page of the wishlist says of the rows, of limit and offset, and  *)
(* of all that B2B has said; still: B2B has not changed.                   *)
IsTrueList(list, table, cut, said, still) ==
    LET wishes == {table[i].thing : i \in DOMAIN table}
        known == {t \in wishes : said[t] # {Absent}}
        rest == IF list.total_count > cut.offset THEN list.total_count - cut.offset ELSE 0
    IN  /\ ToSet(list.items) \subseteq known /\ IsInjective(list.items)
        /\ list.total_count <= Cardinality(known)
        /\ list.total_count >= Cardinality({t \in known : Absent \notin said[t]})
        /\ Len(list.items) = Min({cut.limit, rest})
        /\ still => \A i \in DOMAIN table :
              LET before == {j \in 1 .. i - 1 : table[j].thing \in known}
                  rank == Cardinality(before)
              IN  table[i].thing \in ToSet(list.items) <=>
                      /\ table[i].thing \in known
                      /\ rank >= cut.offset /\ rank < cut.offset + cut.limit

(* The pages of a wishlist hold what B2B knew while the request ran: each  *)
(* product saved and shown once, counted if it was there all the time and  *)
(* not if it never was; and while B2B does not change, the page is the     *)
(* slice of the wishlist without what is gone.                             *)
WishlistViewIsTrue ==
    Answered("wishlist") => IsTrueList(answer.body, rows, page, was, edits = 0)

(* What a collection says when the products at the numbers in on are on    *)
(* sale: n is the number of rows it has come to.                           *)
IsTrueCollection(shown, on) ==
    LET n == Len(shown.items) + Len(shown.unavailable_ids)
        room == Max({1, page.max_display})
    IN  /\ n <= Len(rows)
        /\ shown.items = ThingsOf(Kept(on)[n])
        /\ shown.unavailable_ids = ThingsOf(Kept(DOMAIN rows \ on)[n])
        /\ Len(shown.items) <= room
        /\ n < Len(rows) => Len(shown.items) = room /\ n \in on

(* A collection of which B2B answers with products by id shows the first   *)
(* of them that are on sale, as many as it may display (one, when it may   *)
(* display none), and names as unavailable those it passed over on the way.*)
(* Any other answer degrades to a page that shows none and names all: that *)
(* is so for an error and, unlike home.py says, for the array of products  *)
(* of the contract.                                                        *)
CollectionIsTrue ==
    Answered("collection") =>
        IsTrueCollection(answer.body,
                         {i \in DOMAIN rows :
                            heard = "products by id" /\ OnSale(offer[rows[i].thing])})

=============================================================================
