------------------------------ MODULE Catalog ------------------------------
(***************************************************************************)
(* The storefront endpoints that put an answer together from several calls *)
(* to B2B (src/routes/catalog.py, src/services/facet_service.py): the      *)
(* categories, their tree and breadcrumbs, the similar products and the    *)
(* scan behind the facet counters.  The service keeps no copy of the       *)
(* catalog, so a request sees B2B at the moments of its calls, and B2B     *)
(* changes in between.  One action is one call and what the handler does   *)
(* with its answer up to the next call.  Requests share nothing (the memo  *)
(* of the counters is FacetCache), so there is one.                        *)
(*                                                                         *)
(* Abstracted: names, prices and images; a listing is in the one order of  *)
(* its sort; brand and price of a product only say that it is counted.     *)
(***************************************************************************)
EXTENDS Naturals, SequencesExt, FiniteSetsExt

CONSTANTS
    Categories,
    NewestFirst,   \* the products, in the order of sort=created_desc
    NoParent,      \* parent_id of a root
    Hidden,        \* where a product is that B2B does not show
    Limits,        \* values of ?limit of the similar products
    MaxSimilar,    \* B2B's cap on ?limit of the similar products (50)
    MaxPage,       \* B2B's cap on ?limit of a listing (100)
    PageSize,      \* FACET_PAGE_SIZE
    ScanLimit,     \* FACET_SCAN_LIMIT
    SkuLists,      \* what B2B may say of the SKUs of a product
    MaxEdits       \* bound: changes of B2B during a request

Products == ToSet(NewestFirst)

ASSUME CatalogAssumption ==
    /\ IsFiniteSet(Categories) /\ NoParent \notin Categories /\ Hidden \notin Categories
    /\ NewestFirst \in Seq(Products) /\ IsInjective(NewestFirst)
    /\ Products \cap Categories = {}
    /\ MaxSimilar \in Nat /\ 2 * MaxSimilar <= MaxPage /\ Limits \subseteq 1 .. MaxSimilar
    /\ \A skus \in SkuLists : \A k \in skus :
          {k.price, k.discount, k.active_quantity} \subseteq Nat /\ k.discount <= k.price
    /\ {PageSize, ScanLimit, MaxPage} \subseteq Nat \ {0}
    /\ PageSize <= MaxPage /\ PageSize <= ScanLimit
    /\ MaxEdits \in Nat

VARIABLES
    tree,      \* B2B: the parent of every category it has
    shelf,     \* B2B: the category of every product, or Hidden
    call,      \* the request: endpoint and parameters
    pc,        \* the call to B2B that comes next, idle when answered
    category,  \* category_id of the product the request is about
    cards,     \* what it has collected: products in order
    pages,     \* pages of a scan by offset, the ones still to come empty
    ask,       \* the last ?limit sent to B2B: similar products or a listing
    answer,    \* status and body
    edits,     \* history: changes of B2B since the request began
    shown      \* history: where products and categories were since it began

request == <<call, category>>
vars == <<tree, shelf, call, pc, category, cards, pages, ask, answer, edits, shown>>

Trees == UNION {[cs -> Categories \cup {NoParent}] : cs \in SUBSET Categories}
Endpoints == {"list", "tree", "detail", "breadcrumbs", "similar", "facets", "card", "listing"}
Steps == {"idle", "product", "listing", "categories", "similar", "parent", "topup", "page", "pages", "batch"}

(* Types; and B2B is never asked for more rows than its contract allows.   *)
TypeOK ==
    /\ tree \in Trees
    /\ shelf \in [Products -> Categories \cup {Hidden}]
    /\ call.op \in Endpoints
    /\ pc \in Steps
    /\ category \in Categories \cup {NoParent}
    /\ ToSet(cards) \subseteq Products
    /\ \A o \in DOMAIN pages : o \in PageSize .. ScanLimit - 1
    /\ ask.limit \in 0 .. (IF ask.of = "similar" THEN MaxSimilar ELSE MaxPage)
    /\ answer.code \in {0, 200, 400, 404, 422, 502}
    /\ edits \in 0 .. MaxEdits
    /\ shown \subseteq (Products \cup Categories) \X Categories

-----------------------------------------------------------------------------
(* Selected(s, keep)[n]: of the first n elements of s those to keep, in    *)
(* their order.  A recursive function: SelectSeq cannot be reasoned about. *)
Selected(s, keep) ==
    LET kept[n \in Nat] ==
            IF n = 0 THEN <<>>
            ELSE IF s[n] \in keep THEN Append(kept[n - 1], s[n]) ELSE kept[n - 1]
    IN  kept

Select(s, keep) == Selected(s, keep)[Len(s)]

(* What B2B answers.                                                       *)
Listing(c) == Select(NewestFirst, {p \in Products : shelf[p] = c})

Page(s, limit, offset) == SubSeq(s, offset + 1, Min({offset + limit, Len(s)}))

(* Its similar products are of the category the product has by now, and    *)
(* may or may not hold the product itself.                                 *)
Similar(p) == {Listing(shelf[p]), Select(Listing(shelf[p]), Products \ {p})}

(* Products always belong to a category B2B has.                           *)
Sound(t, s) == \A p \in Products : s[p] \in DOMAIN t \cup {Hidden}

Listed(s) == {w \in Products \X Categories : s[w[1]] = w[2]}

(* Where the products are, and where the categories.                       *)
Placed(t, s) == Listed(s) \cup {w \in (DOMAIN t) \X Categories : t[w[1]] = w[2]}

-----------------------------------------------------------------------------
(* The chain of a category, root first: parents are followed until there   *)
(* is none, one is missing, or one was there before.                       *)
Walk(t, c) ==
    LET walk[n \in Nat] ==
            IF n = 0 THEN <<c>>
            ELSE LET below == walk[n - 1]
                     up == t[Head(below)]
                 IN  IF up \in DOMAIN t \ ToSet(below) THEN <<up>> \o below ELSE below
    IN  walk

Chain(t, c) == Walk(t, c)[Cardinality(DOMAIN t)]

(* Mutant: a node whose parent is missing is taken for a root.             *)
BrokenCycleOnly(t, c) == t[Head(Chain(t, c))] \in DOMAIN t

Broken(t, c) == t[Head(Chain(t, c))] # NoParent

(* Mutant: level counts from one.                                          *)
RefFromOne(chain) == [id |-> Last(chain), level |-> Len(chain), path |-> chain]

Ref(chain) == [id |-> Last(chain), level |-> Len(chain) - 1, path |-> chain]

(* The nested tree: every node hangs under its parent.                     *)
Nested(t) ==
    [roots |-> {c \in DOMAIN t : t[c] = NoParent},
     children |-> [c \in DOMAIN t |-> {d \in DOMAIN t : t[d] = c}]]

Crumbs(chain) == [i \in DOMAIN chain |-> Ref(SubSeq(chain, 1, i))]

(* Mutant: only the product itself is left out, not what is there already. *)
CollectTwice(have, items, p, limit) ==
    Page(have \o Select(items, Products \ {p}), limit, 0)

(* _collect: what is new among the items, as long as there is room.        *)
Collect(have, items, p, limit) ==
    Page(have \o Select(items, Products \ ({p} \cup ToSet(have))), limit, 0)

-----------------------------------------------------------------------------
Init ==
    /\ tree \in Trees
    /\ shelf \in [Products -> Categories \cup {Hidden}]
    /\ Sound(tree, shelf)
    /\ call = [op |-> "list"]
    /\ pc = "idle"
    /\ category = NoParent
    /\ cards = <<>>
    /\ pages = <<>>
    /\ ask = [of |-> "page", limit |-> 0]
    /\ answer = [code |-> 0]
    /\ edits = 0
    /\ shown = {}

Begin(step, what) ==
    /\ pc = "idle" /\ answer.code = 0
    /\ pc' = step
    /\ call' = what
    /\ shown' = Placed(tree, shelf)
    /\ UNCHANGED <<tree, shelf, category, cards, pages, ask, answer, edits>>

(* The request is over; nothing is kept of it.                             *)
Leave ==
    /\ pc = "idle" /\ answer.code # 0
    /\ call' = [op |-> "list"]
    /\ category' = NoParent
    /\ cards' = <<>> /\ pages' = <<>>
    /\ ask' = [of |-> "page", limit |-> 0]
    /\ answer' = [code |-> 0]
    /\ edits' = 0
    /\ shown' = {}
    /\ UNCHANGED <<tree, shelf, pc>>

Answer(code, body) ==
    /\ pc' = "idle"
    /\ answer' = [code |-> code, body |-> body]

GoTo(step) ==
    /\ pc' = step
    /\ UNCHANGED answer

World == UNCHANGED <<tree, shelf, edits, shown>>

-----------------------------------------------------------------------------
(* GET /categories, /categories/tree, /categories/{id} and /breadcrumbs.   *)
GetCategories == Begin("categories", [op |-> "list"])
GetCategoryTree == Begin("categories", [op |-> "tree"])
GetCategoryDetail(c) == Begin("categories", [op |-> "detail", target |-> c])
BreadcrumbsOfCategory(c) == Begin("categories", [op |-> "breadcrumbs", target |-> c])
BreadcrumbsOfProduct(p) == Begin("product", [op |-> "breadcrumbs", product |-> p])

(* GET /products/{id}.                                                     *)
GetProduct(p) == Begin("product", [op |-> "card", product |-> p])

(* GET /products, with a filter, sort or search the service refuses or     *)
(* not (flaw), and filter[in_stock].                                       *)
GetProducts(c, n, o) ==
    \E flaw \in BOOLEAN, in_stock \in BOOLEAN :
        Begin("listing", [op |-> "listing", target |-> c, limit |-> n, offset |-> o,
                          flaw |-> flaw, in_stock |-> in_stock])

(* GET /products/{id}/similar.                                             *)
GetSimilarProducts(p, n) == Begin("product", [op |-> "similar", product |-> p, limit |-> n])

(* The scan of GET /facets and GET /categories/{id}/filters.               *)
GetFacets(c) == Begin("page", [op |-> "facets", target |-> c])

FinalPrice(k) == k.price - k.discount

InStock(skus) == {k \in skus : k.active_quantity > 0}

(* Mutant: what is sold out counts too.                                    *)
MinPriceOfAll(skus) == IF skus = {} THEN 0 ELSE Min({FinalPrice(k) : k \in skus})

(* The lowest price of what is in stock, or of all when nothing is.        *)
MinPrice(skus) ==
    LET offered == IF InStock(skus) # {} THEN InStock(skus) ELSE skus
    IN  IF offered = {} THEN 0 ELSE Min({FinalPrice(k) : k \in offered})

(* _detail_from_product.                                                   *)
Detail(skus) == [skus |-> skus, min_price |-> MinPrice(skus), has_stock |-> InStock(skus) # {}]

(* get_public_product: a product that is not shown, whether B2B answers    *)
(* 404 or with a hidden status, is a 404.                                  *)
ReadProduct ==
    LET p == call.product
    IN  /\ pc = "product"
        /\ IF shelf[p] = Hidden
           THEN Answer(404, "PRODUCT_NOT_FOUND") /\ UNCHANGED category
           ELSE /\ \/ /\ call.op = "card"
                      /\ \E skus \in SkuLists : Answer(200, Detail(skus))
                   \/ call.op = "similar" /\ GoTo("similar")
                   \/ call.op = "breadcrumbs" /\ GoTo("categories")
                /\ category' = shelf[p]
        /\ World
        /\ UNCHANGED <<call, cards, pages, ask>>

(* B2B's listing holds only what is in stock: filter[in_stock]=false is    *)
(* answered without it.                                                    *)
ReadListing ==
    /\ pc = "listing"
    /\ IF call.flaw THEN Answer(400, {}) /\ UNCHANGED <<cards, ask>>
       ELSE IF ~ call.in_stock
       THEN Answer(200, [items |-> <<>>, total_count |-> 0]) /\ UNCHANGED <<cards, ask>>
       ELSE LET all == Listing(call.target)
            IN  /\ ask' = [of |-> "page", limit |-> call.limit]
                /\ cards' = Page(all, call.limit, call.offset)
                /\ Answer(200, [items |-> cards', total_count |-> Len(all)])
    /\ World
    /\ UNCHANGED <<request, pages>>

(* get_categories, and the answer that is built from the list alone.       *)
ReadCategories ==
    LET target == IF "target" \in DOMAIN call THEN call.target ELSE category
        chain == Chain(tree, target)
    IN  /\ pc = "categories"
        /\ \/ /\ call.op \in {"list", "tree"}
              /\ IF \E c \in DOMAIN tree : Broken(tree, c) THEN Answer(422, "ORPHAN_NODE")
                 ELSE Answer(200, IF call.op = "tree" THEN Nested(tree)
                                  ELSE {Ref(Chain(tree, c)) : c \in DOMAIN tree})
           \/ /\ call.op \in {"detail", "breadcrumbs"}
              /\ IF target \notin DOMAIN tree THEN Answer(404, "CATEGORY_NOT_FOUND")
                 ELSE IF Broken(tree, target) THEN Answer(422, "ORPHAN_NODE")
                 ELSE Answer(200, IF call.op = "detail" THEN Ref(chain) ELSE Crumbs(chain))
        /\ World
        /\ UNCHANGED <<call, category, cards, pages, ask>>

-----------------------------------------------------------------------------
(* Mutant: no extra row.                                                   *)
RowsExact(n) == n

(* Mutant: the extra row is asked for beyond what B2B allows.              *)
RowsUnclamped(n) == n + 1

Rows(n) == Min({n + 1, MaxSimilar})

(* B2B's selection, one row more than wanted; a full block is the answer.  *)
(* Of a product that is hidden by now it has none (CallFails).             *)
ReadSimilar ==
    LET n == call.limit
    IN  /\ pc = "similar" /\ shelf[call.product] # Hidden
        /\ ask' = [of |-> "similar", limit |-> Rows(n)]
        /\ \E rows \in Similar(call.product) :
              cards' = Collect(<<>>, Page(rows, Rows(n), 0), call.product, n)
        /\ IF Len(cards') < n THEN GoTo("parent") ELSE Answer(200, cards')
        /\ World
        /\ UNCHANGED <<request, pages>>

(* _resolve_parent_category, from a list that may have changed by now.     *)
ResolveParent ==
    LET up == IF category \in DOMAIN tree THEN tree[category] ELSE NoParent
    IN  /\ pc = "parent"
        /\ IF up = NoParent THEN Answer(200, cards) ELSE GoTo("topup")
        /\ category' = IF up = NoParent THEN category ELSE up
        /\ World
        /\ UNCHANGED <<call, cards, pages, ask>>

(* Twice what is missing, of the parent's newest.                          *)
TopUp ==
    LET n == call.limit
        wanted == (n - Len(cards)) * 2
    IN  /\ pc = "topup"
        /\ ask' = [of |-> "page", limit |-> wanted]
        /\ cards' = Collect(cards, Page(Listing(category), wanted, 0), call.product, n)
        /\ Answer(200, cards')
        /\ World
        /\ UNCHANGED <<request, pages>>

-----------------------------------------------------------------------------
(* Mutant: the scan goes on to the end of the selection.                   *)
TargetUncapped(total) == total

Target(total) == Min({ScanLimit, total})

(* The offsets after the first page.                                       *)
Offsets(total) == {o \in PageSize .. Target(total) - 1 : o % PageSize = 0}

(* The first page says how many products there are.                        *)
FirstPage ==
    LET all == Listing(call.target)
    IN  /\ pc = "page"
        /\ ask' = [of |-> "page", limit |-> PageSize]
        /\ cards' = Page(all, PageSize, 0)
        /\ category' = call.target
        /\ IF Len(cards') >= Target(Len(all))
           THEN GoTo("batch") /\ UNCHANGED pages
           ELSE /\ GoTo("pages")
                /\ pages' = [o \in Offsets(Len(all)) |->
                                [limit |-> Min({PageSize, Target(Len(all)) - o}), items |-> <<>>, got |-> FALSE]]
        /\ World
        /\ UNCHANGED call

(* The other pages are gathered: each sees B2B at a moment of its own.     *)
NextPage(o) ==
    /\ pc = "pages"
    /\ o \in DOMAIN pages /\ ~pages[o].got
    /\ ask' = [of |-> "page", limit |-> pages[o].limit]
    /\ pages' = [pages EXCEPT ![o].got = TRUE,
                              ![o].items = Page(Listing(call.target), pages[o].limit, o)]
    /\ World
    /\ UNCHANGED <<request, pc, cards, answer>>

(* Joined[n]: the first page and those at an offset of at most n, in the   *)
(* order of their offsets.                                                 *)
Joined ==
    LET joined[n \in Nat] ==
            IF n = 0 THEN cards
            ELSE IF n \in DOMAIN pages THEN joined[n - 1] \o pages[n].items ELSE joined[n - 1]
    IN  joined

(* All are there: they are put together by offset.  No page is longer than *)
(* it was asked to be, so there is nothing to cut off at the target.       *)
JoinPages ==
    /\ pc = "pages"
    /\ \A o \in DOMAIN pages : pages[o].got
    /\ cards' = Joined[ScanLimit]
    /\ GoTo("batch")
    /\ World
    /\ UNCHANGED <<request, pages, ask>>

(* Cards by id, all batches at once.  One that is no longer shown has no   *)
(* card, and counts as in stock, or a card whose SKUs are sold out.        *)
ReadCards ==
    /\ pc = "batch"
    /\ \E out \in SUBSET {p \in ToSet(cards) : shelf[p] = Hidden} :
          Answer(200, [counted |-> cards, out |-> out])
    /\ World
    /\ UNCHANGED <<request, cards, pages, ask>>

-----------------------------------------------------------------------------
(* A call ends in B2BClientError: nothing to answer with but 502, except   *)
(* that the similar products do without what could not be added.           *)
Abort ==
    /\ pc # "idle"
    /\ IF pc \in {"parent", "topup"} THEN Answer(200, cards) ELSE Answer(502, "B2B_UNAVAILABLE")
    /\ World
    /\ UNCHANGED <<request, cards, pages, ask>>

(* Timeout, refused connection, error status or no JSON.                   *)
CallFails == Abort

(* The body is not what the contract says.                                 *)
BodyUnreadable == Abort

(* B2B shows, hides and moves products, and moves or drops categories.     *)
Edit ==
    /\ pc # "idle" /\ edits < MaxEdits
    /\ edits' = edits + 1
    /\ \/ \E p \in Products, place \in DOMAIN tree \cup {Hidden} :
            /\ place # shelf[p]
            /\ shelf' = [shelf EXCEPT ![p] = place]
            /\ UNCHANGED tree
       \/ \E c \in DOMAIN tree, up \in Categories \cup {NoParent} :
            /\ up # tree[c]
            /\ tree' = [tree EXCEPT ![c] = up]
            /\ UNCHANGED shelf
       \/ \E c \in DOMAIN tree :
            /\ tree' = [d \in DOMAIN tree \ {c} |-> tree[d]]
            /\ Sound(tree', shelf)
            /\ UNCHANGED shelf
    /\ shown' = shown \cup Placed(tree', shelf')
    /\ UNCHANGED <<request, pc, cards, pages, ask, answer>>

Next ==
    \/ GetCategories \/ GetCategoryTree
    \/ \E c \in Categories : GetCategoryDetail(c) \/ BreadcrumbsOfCategory(c) \/ GetFacets(c)
    \/ \E c \in Categories, n \in Limits, o \in 0 .. 1 : GetProducts(c, n, o)
    \/ \E p \in Products : \/ BreadcrumbsOfProduct(p) \/ GetProduct(p)
                           \/ \E n \in Limits : GetSimilarProducts(p, n)
    \/ ReadProduct \/ ReadListing \/ ReadCategories
    \/ ReadSimilar \/ ResolveParent \/ TopUp
    \/ FirstPage \/ (\E o \in DOMAIN pages : NextPage(o)) \/ JoinPages \/ ReadCards
    \/ CallFails \/ BodyUnreadable
    \/ Edit
    \/ Leave

Spec == Init /\ [][Next]_vars

-----------------------------------------------------------------------------
(* Properties                                                              *)

Navigation == {"list", "tree", "detail", "breadcrumbs"}

Answered(ops) == pc = "idle" /\ call.op \in ops /\ answer.code = 200

(* The ways from a root to a category: what a breadcrumb should be.        *)
Ways(c) ==
    {w \in UNION {[1 .. n -> DOMAIN tree] : n \in 1 .. Cardinality(DOMAIN tree)} :
        /\ tree[Head(w)] = NoParent /\ Last(w) = c
        /\ \A i \in 2 .. Len(w) : tree[w[i]] = w[i - 1]}

IsTrueRef(r) == Ways(r.id) = {r.path} /\ r.level = Len(r.path) - 1

(* What is n steps below the roots of a nested tree.                       *)
Below(nested) ==
    LET below[n \in Nat] ==
            IF n = 0 THEN nested.roots ELSE UNION {nested.children[d] : d \in below[n - 1]}
    IN  below

(* A category is reached in as many steps as its way has.                  *)
Reached(nested, c) == \E w \in Ways(c) : c \in Below(nested)[Len(w) - 1]

(* The list, the detail, the breadcrumbs and the tree agree: each ref has  *)
(* the one way from a root, breadcrumbs are that way, step by step, and no *)
(* category is lost from the list or from the tree.                        *)
PathsAreTrue ==
    /\ Answered({"list"}) =>
          /\ \A r \in answer.body : IsTrueRef(r)
          /\ {r.id : r \in answer.body} = DOMAIN tree
    /\ Answered({"detail"}) => IsTrueRef(answer.body)
    /\ Answered({"breadcrumbs"}) =>
          /\ \A i \in DOMAIN answer.body :
                IsTrueRef(answer.body[i]) /\ answer.body[i].level = i - 1
          /\ \E w \in Ways(IF "target" \in DOMAIN call THEN call.target ELSE category) :
                w = [i \in DOMAIN answer.body |-> answer.body[i].id]
    /\ Answered({"tree"}) => \A c \in DOMAIN tree : Reached(answer.body, c)

(* A hierarchy is refused when, and only when, it cannot be shown: a       *)
(* category that was asked for has no way from a root.                     *)
BrokenIsRefused ==
    pc = "idle" /\ call.op \in Navigation /\ answer.code \in {200, 422} =>
        LET asked == IF call.op \in {"list", "tree"} THEN DOMAIN tree
                     ELSE {IF "target" \in DOMAIN call THEN call.target ELSE category}
        IN  (answer.code = 422) <=> \E c \in asked : Ways(c) = {}

(* A product is next to another one if both were in one category while the *)
(* request ran, or it was in the parent of a category of the other.        *)
NextTo(p, product) ==
    \E home \in Categories :
        /\ <<product, home>> \in shown
        /\ \/ <<p, home>> \in shown
           \/ \E up \in Categories : <<home, up>> \in shown /\ <<p, up>> \in shown

(* The block of similar products holds no product twice, not the product   *)
(* itself, no more than asked for, and only products of its category or of *)
(* the parent of its category, as B2B had them while the request ran: none *)
(* of a sibling, a grandparent or a child, whatever is moved meanwhile.    *)
BlockIsClean ==
    Answered({"similar"}) =>
        LET block == answer.body
        IN  /\ IsInjective(block) /\ ~Contains(block, call.product)
            /\ Len(block) <= call.limit
            /\ \A p \in ToSet(block) : NextTo(p, call.product)

(* The block is short only when there is nothing to fill it with: while    *)
(* B2B does not change and answers, every product of the category and its  *)
(* parent is in it, and the parent's come only after all of the category's.*)
(* (At B2B's own cap there is no room for the extra row.)                  *)
BlockIsFull ==
    [][(ReadSimilar \/ ResolveParent \/ TopUp) /\ pc' = "idle" =>
          LET home == shelf[call.product]
              places == {home, tree[home]} \cap Categories
              others == {p \in Products \ {call.product} : shelf[p] \in places}
              siblings == {p \in others : shelf[p] = home}
          IN  edits = 0 /\ call.limit < MaxSimilar =>
                  /\ Len(cards') = Min({call.limit, Cardinality(others)})
                  /\ \A i \in DOMAIN cards' :
                        shelf[cards'[i]] = home <=> i <= Cardinality(siblings)]_vars

(* A card is of a product B2B showed while the request ran.  Its price is  *)
(* that of something that can be bought, and nothing that can be bought is *)
(* cheaper.  A listing holds only what was listed meanwhile.               *)
ShopWindowIsTrue ==
    /\ Answered({"card"}) =>
          LET card == answer.body
              for_sale == {k \in card.skus : k.active_quantity > 0}
          IN  /\ \E c \in Categories : <<call.product, c>> \in shown
              /\ card.has_stock <=> for_sale # {}
              /\ card.has_stock => \E k \in for_sale : card.min_price = FinalPrice(k)
              /\ \A k \in for_sale : card.min_price <= FinalPrice(k)
    /\ Answered({"listing"}) =>
          \A p \in ToSet(answer.body.items) : call.in_stock /\ <<p, call.target>> \in shown

(* The counters are of the selection: no more than the scan limit, only of *)
(* products it listed while the request ran; and while B2B does not        *)
(* change, each of its first products once and all of them in stock.       *)
CountersAreTrue ==
    Answered({"facets"}) =>
        LET counted == answer.body.counted
        IN  /\ Len(counted) <= ScanLimit
            /\ \A p \in ToSet(counted) : <<p, call.target>> \in shown
            /\ edits = 0 => /\ counted = Page(Listing(call.target), ScanLimit, 0)
                            /\ answer.body.out = {}

=============================================================================
