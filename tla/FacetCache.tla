----------------------------- MODULE FacetCache -----------------------------
(***************************************************************************)
(* The memo of the facet counters (src/services/facet_service.py), shared  *)
(* by the requests of one process.  A request that misses scans B2B for    *)
(* its selection, which takes several rounds of calls, and stores what it  *)
(* computed; others start, finish, store and expire entries meanwhile.     *)
(* The bookkeeping itself has no await, so a lookup is one action and a    *)
(* store is one.                                                           *)
(*                                                                         *)
(* Abstracted: the counters of a scan are the listing that was counted and *)
(* the time the scan began (Catalog models the scan), and time is counted  *)
(* in ticks.  What buyers type into the filters is a set of queries, each  *)
(* with the parameters of GET /catalog/products and GET /catalog/facets.   *)
(***************************************************************************)
EXTENDS Integers, FiniteSets

CONSTANTS
    Requests,
    Queries,               \* what buyers filter, search and sort by
    Categories,
    None, Empty,           \* a parameter that is not given, and ""
    TTL,                   \* FACET_CACHE_TTL_SECONDS, in ticks
    MaxEntries,            \* FACET_CACHE_MAX_ENTRIES
    ScanTime,              \* how long the calls of a scan may take, in ticks
    MaxTime                \* bound on the clock

SortMap == [price_asc |-> "price_asc", price_desc |-> "price_desc",
            popularity |-> "popular", new |-> "created_desc"]

Parameters == {"category", "price_min", "price_max", "seller", "search", "in_stock", "sort",
               "brand", "attributes"}

ASSUME QueryAssumption ==
    /\ None # FALSE
    /\ \A q \in Queries :
        /\ DOMAIN q = Parameters
        /\ q.in_stock \in BOOLEAN \cup {None}
        /\ q.sort \in DOMAIN SortMap \cup {None}

ASSUME CacheAssumption ==
    /\ TTL \in Nat
    /\ MaxEntries \in Nat \ {0}
    /\ ScanTime \in Nat
    /\ MaxTime \in Nat

-----------------------------------------------------------------------------
(* From the parameters of a request to the calls of B2B.                   *)

(* _b2b_filters: brand is one of the characteristics, and one given by its *)
(* own name (filter[attributes][brand]) wins.                              *)
Filters(q) ==
    LET brand == IF q.brand \in {None, Empty} THEN {} ELSE {"brand"}
        named == DOMAIN q.attributes
    IN  [n \in brand \cup named |-> IF n \in named THEN q.attributes[n] ELSE q.brand]

B2BSort(sort) == IF sort = None THEN SortMap.popularity ELSE SortMap[sort]

(* list_public_products leaves out what is empty.                          *)
Listing(category, search, min, max, seller, filters, sort) ==
    LET Given(x) == IF x = Empty THEN None ELSE x
    IN  [category |-> Given(category), search |-> Given(search), min_price |-> min,
         max_price |-> max, seller |-> Given(seller), sort |-> sort,
         filters |-> {<<n, filters[n]>> : n \in {m \in DOMAIN filters :
                                                    filters[m] \notin {None, Empty}}}]

(* The listing that get_products shows for a query; nothing is asked of    *)
(* B2B for what is out of stock.                                           *)
Shown(q) ==
    IF q.in_stock = FALSE THEN None
    ELSE Listing(q.category, q.search, q.price_min, q.price_max, q.seller, Filters(q),
                 B2BSort(q.sort))

(* The FacetSelection of GET /catalog/facets.  The sorted pairs of names   *)
(* and values are the function itself.                                     *)
Selection(q) ==
    [category |-> q.category, price_min |-> q.price_min, price_max |-> q.price_max,
     seller |-> q.seller, search |-> q.search, in_stock |-> q.in_stock,
     sort |-> B2BSort(q.sort), attributes |-> Filters(q)]

(* The FacetSelection of GET /catalog/categories/{id}/filters: a category, *)
(* and the defaults of the class.                                          *)
CategorySelection(c) ==
    [category |-> c, price_min |-> None, price_max |-> None, seller |-> None,
     search |-> None, in_stock |-> None, sort |-> "popular", attributes |-> [n \in {} |-> None]]

(* What a buyer asks the listing for who only opens a category.            *)
CategoryQuery(c) ==
    [category |-> c, price_min |-> None, price_max |-> None, seller |-> None,
     search |-> None, in_stock |-> None, sort |-> None, brand |-> None,
     attributes |-> [n \in {} |-> None]]

(* _scan_selection asks B2B for this listing, page by page.                *)
Scanned(sel) ==
    Listing(sel.category, sel.search, sel.price_min, sel.price_max, sel.seller,
            sel.attributes, sel.sort)

(* Mutant: the characteristics are not part of the key.                    *)
CacheKeyShort(sel) ==
    <<sel.category, sel.price_min, sel.price_max, sel.seller, sel.search, sel.in_stock, sel.sort>>

(* FacetSelection.cache_key.                                               *)
CacheKey(sel) ==
    <<sel.category, sel.price_min, sel.price_max, sel.seller, sel.search, sel.in_stock, sel.sort,
      sel.attributes>>

AllQueries == Queries \cup {CategoryQuery(c) : c \in Categories}
Selections == {Selection(q) : q \in Queries} \cup {CategorySelection(c) : c \in Categories}

-----------------------------------------------------------------------------
VARIABLES
    now,        \* time.monotonic()
    cache,      \* the entries of _facet_cache
    pc,         \* where each request is
    query,      \* history: what its buyer looks at
    selection,  \* its FacetSelection
    began,      \* when its scan began
    answer      \* the counters it was answered with, none at first

vars == <<now, cache, pc, query, selection, began, answer>>

Times == 0 .. MaxTime
Facets == [listing : {Shown(q) : q \in AllQueries}, asOf : Times]
Entry == [key : {CacheKey(sel) : sel \in Selections}, facets : Facets, stored : Times]
Answer == [facets : Facets, at : Times]

TypeOK ==
    /\ now \in Times
    /\ cache \subseteq Entry
    /\ pc \in [Requests -> {"idle", "scan"}]
    /\ query \in [Requests -> AllQueries \cup {None}]
    /\ selection \in [Requests -> Selections \cup {None}]
    /\ began \in [Requests -> Times]
    /\ answer \in [Requests -> SUBSET Answer]
    /\ \A e \in cache : e.stored <= now

-----------------------------------------------------------------------------
(* Mutant: the age is not looked at.                                       *)
ExpiredNever(e) == FALSE

Expired(e) == now - e.stored > TTL

Oldest(entries) == {e \in entries : \A f \in entries : e.stored <= f.stored}

Init ==
    /\ now = 0
    /\ cache = {}
    /\ pc = [r \in Requests |-> "idle"]
    /\ query = [r \in Requests |-> None]
    /\ selection = [r \in Requests |-> None]
    /\ began = [r \in Requests |-> 0]
    /\ answer = [r \in Requests |-> {}]

Reply(r, facets) == answer' = [answer EXCEPT ![r] = {[facets |-> facets, at |-> now]}]

(* get_facets of the service up to its first await: nothing to count, a    *)
(* hit, or a scan begins; an entry that has expired goes.                  *)
Ask(r, q, sel) ==
    LET entries == {e \in cache : e.key = CacheKey(sel)}
    IN  /\ pc[r] = "idle"
        /\ query' = [query EXCEPT ![r] = q]
        /\ selection' = [selection EXCEPT ![r] = sel]
        /\ \/ /\ sel.in_stock = FALSE
              /\ Reply(r, [listing |-> None, asOf |-> now])
              /\ UNCHANGED <<cache, pc, began>>
           \/ /\ sel.in_stock # FALSE
              /\ cache' = cache \ {e \in entries : Expired(e)}
              /\ \/ \E e \in entries : ~Expired(e) /\ Reply(r, e.facets)
                    /\ UNCHANGED <<pc, began>>
                 \/ /\ \A e \in entries : Expired(e)
                    /\ pc' = [pc EXCEPT ![r] = "scan"]
                    /\ began' = [began EXCEPT ![r] = now]
                    /\ answer' = [answer EXCEPT ![r] = {}]
        /\ UNCHANGED now

GetFacets(r) == \E q \in Queries : Ask(r, q, Selection(q))

GetCategoryFilters(r) == \E c \in Categories : Ask(r, CategoryQuery(c), CategorySelection(c))

(* Mutant: one entry too many before something is evicted.                 *)
RoomLate(entries) ==
    IF Cardinality(entries) > MaxEntries
    THEN {entries \ {e} : e \in Oldest(entries)} ELSE {entries}

(* A full cache loses its oldest entry, even when the key to be stored is  *)
(* there already; of two that are equally old, any one.                    *)
Room(entries) ==
    IF Cardinality(entries) >= MaxEntries
    THEN {entries \ {e} : e \in Oldest(entries)} ELSE {entries}

(* The scan has succeeded: _cache_put, which replaces an entry of the key. *)
StoreFacets(r) ==
    LET facets == [listing |-> Scanned(selection[r]), asOf |-> began[r]]
        key == CacheKey(selection[r])
    IN  /\ pc[r] = "scan"
        /\ \E kept \in Room(cache) :
              cache' = {e \in kept : e.key # key}
                       \cup {[key |-> key, facets |-> facets, stored |-> now]}
        /\ Reply(r, facets)
        /\ pc' = [pc EXCEPT ![r] = "idle"]
        /\ UNCHANGED <<now, query, selection, began>>

(* A call of the scan fails: B2BClientError, a 502, nothing is stored.     *)
ScanFails(r) ==
    /\ pc[r] = "scan"
    /\ pc' = [pc EXCEPT ![r] = "idle"]
    /\ UNCHANGED <<now, cache, query, selection, began, answer>>

(* Time passes; every call of a scan has its timeout.                      *)
Tick ==
    /\ now < MaxTime
    /\ \A r \in Requests : pc[r] = "scan" => now - began[r] < ScanTime
    /\ now' = now + 1
    /\ UNCHANGED <<cache, pc, query, selection, began, answer>>

Next ==
    \/ \E r \in Requests :
        GetFacets(r) \/ GetCategoryFilters(r) \/ StoreFacets(r) \/ ScanFails(r)
    \/ Tick

Spec == Init /\ [][Next]_vars

-----------------------------------------------------------------------------
(* Properties                                                              *)

(* The memo never grows past its bound, whatever the order of the stores,  *)
(* and has one entry per key.                                              *)
Bounded ==
    /\ Cardinality(cache) <= MaxEntries
    /\ \A e, f \in cache : e.key = f.key => e = f

(* The counters on a page were counted in the listing of that page: in     *)
(* what B2B is asked for when the buyer's filters, search and sort go to   *)
(* GET /catalog/products, whichever endpoint and request put the counters  *)
(* into the memo (criterion 1 of ADR-001).                                 *)
CountersFitListing ==
    \A r \in Requests : \A a \in answer[r] : a.facets.listing = Shown(query[r])

(* Counters are out of date by the time of a scan and the TTL at most, even*)
(* if a slow scan stores over a younger one.                               *)
NeverStale ==
    \A r \in Requests : \A a \in answer[r] : a.at - a.facets.asOf <= ScanTime + TTL

=============================================================================
