------------------------- MODULE FacetCache_proofs -------------------------
(***************************************************************************)
(* Proofs about FacetCache, for any number of requests, queries and        *)
(* categories, any time to live, bound on the entries and duration of a    *)
(* scan.                                                                   *)
(***************************************************************************)
EXTENDS FacetCache, FiniteSetTheorems, TLAPS

(* An entry holds the counters of whatever selection its key may be looked *)
(* up for, and they were at most a scan old when they were stored.         *)
EntryOK(e) ==
    /\ \A sel \in Selections : CacheKey(sel) = e.key => e.facets.listing = Scanned(sel)
    /\ e.stored - e.facets.asOf <= ScanTime

(* What a selection scans is what its buyer is shown.                      *)
Fits(q, sel) ==
    /\ sel.in_stock # FALSE => Scanned(sel) = Shown(q)
    /\ sel.in_stock = FALSE => Shown(q) = None

ScanFits(r) ==
    pc[r] = "scan" =>
        /\ selection[r] \in Selections
        /\ query[r] \in AllQueries
        /\ Scanned(selection[r]) = Shown(query[r])

ScanInTime(r) == pc[r] = "scan" => now - began[r] <= ScanTime

MemoInv ==
    /\ IsFiniteSet(cache)
    /\ Bounded
    /\ \A e \in cache : EntryOK(e)

(* The inductive invariant.  NeverStale is about answers; what makes it    *)
(* so is the age of what is stored and of the scans that still run.        *)
FacetInv ==
    /\ TypeOK
    /\ MemoInv
    /\ \A r \in Requests : ScanInTime(r) /\ ScanFits(r)
    /\ CountersFitListing
    /\ NeverStale

-----------------------------------------------------------------------------
(* Two selections of one key scan one listing.                             *)
LEMMA KeyIsFaithful ==
    ASSUME NEW sel \in Selections, NEW other \in Selections, CacheKey(sel) = CacheKey(other)
    PROVE  Scanned(sel) = Scanned(other)
<1>1. /\ sel.category = other.category /\ sel.price_min = other.price_min
      /\ sel.price_max = other.price_max /\ sel.seller = other.seller
      /\ sel.search = other.search /\ sel.sort = other.sort
      /\ sel.attributes = other.attributes
  BY DEF CacheKey
<1> QED BY <1>1 DEF Scanned

(* The parameters that make up a selection of GET /catalog/facets ask B2B  *)
(* for the listing they ask for in GET /catalog/products.                  *)
LEMMA SelectionFits ==
    ASSUME NEW q \in Queries
    PROVE  Fits(q, Selection(q))
  BY DEF Fits, Selection, Scanned, Shown

(* So does the page of a category.                                         *)
LEMMA CategoryFits ==
    ASSUME NEW c \in Categories
    PROVE  Fits(CategoryQuery(c), CategorySelection(c))
<1>1. Filters(CategoryQuery(c)) = [n \in {} |-> None]
  BY DEF Filters, CategoryQuery
<1>2. B2BSort(CategoryQuery(c).sort) = CategorySelection(c).sort
  BY DEF B2BSort, CategoryQuery, CategorySelection, SortMap
<1>3. CategoryQuery(c).in_stock # FALSE /\ CategorySelection(c).in_stock # FALSE
  BY QueryAssumption DEF CategoryQuery, CategorySelection
<1>4. Shown(CategoryQuery(c)) =
        Listing(c, None, None, None, None, Filters(CategoryQuery(c)),
                B2BSort(CategoryQuery(c).sort))
  BY <1>3 DEF Shown, CategoryQuery
<1>5. Scanned(CategorySelection(c)) =
        Listing(c, None, None, None, None, [n \in {} |-> None], CategorySelection(c).sort)
  BY DEF Scanned, CategorySelection
<1> QED BY <1>1, <1>2, <1>3, <1>4, <1>5 DEF Fits

(* After the eviction there is room for one entry.                         *)
LEMMA RoomForOne ==
    ASSUME NEW entries, IsFiniteSet(entries), Cardinality(entries) <= MaxEntries,
           NEW kept \in Room(entries)
    PROVE  /\ kept \subseteq entries
           /\ IsFiniteSet(kept)
           /\ Cardinality(kept) < MaxEntries
<1>1. Cardinality(entries) \in Nat /\ MaxEntries \in Nat
  BY FS_CardinalityType, CacheAssumption
<1>2. CASE Cardinality(entries) >= MaxEntries
  <2>1. PICK e \in entries : kept = entries \ {e}
    BY <1>2 DEF Room, Oldest
  <2>2. IsFiniteSet(kept) /\ Cardinality(kept) = Cardinality(entries) - 1
    BY <2>1, FS_RemoveElement
  <2> QED BY <1>1, <2>1, <2>2
<1>3. CASE ~(Cardinality(entries) >= MaxEntries)
  BY <1>1, <1>3 DEF Room
<1> QED BY <1>2, <1>3

(* A subset of the memo is as good as the memo.                            *)
LEMMA FewerEntries ==
    ASSUME MemoInv, NEW kept, kept \subseteq cache
    PROVE  /\ IsFiniteSet(kept)
           /\ Cardinality(kept) <= MaxEntries
           /\ \A e, f \in kept : e.key = f.key => e = f
<1>1. IsFiniteSet(kept) /\ Cardinality(kept) <= Cardinality(cache)
  BY FS_Subset DEF MemoInv
<1>2. Cardinality(kept) \in Nat /\ Cardinality(cache) \in Nat /\ MaxEntries \in Nat
  BY <1>1, FS_CardinalityType, CacheAssumption DEF MemoInv
<1> QED BY <1>1, <1>2 DEF MemoInv, Bounded

-----------------------------------------------------------------------------
LEMMA AskKeeps ==
    ASSUME FacetInv, NEW r \in Requests, NEW q \in AllQueries, NEW sel \in Selections,
           Fits(q, sel), Ask(r, q, sel)
    PROVE  FacetInv'
<1> DEFINE entries == {e \in cache : e.key = CacheKey(sel)}
<1>1. /\ cache' \subseteq cache
      /\ query' = [query EXCEPT ![r] = q]
      /\ selection' = [selection EXCEPT ![r] = sel]
      /\ UNCHANGED now
  BY DEF Ask
<1>2. MemoInv'
  BY <1>1, FewerEntries DEF FacetInv, MemoInv, Bounded, EntryOK
<1>3. now \in Int /\ TTL \in Int /\ TTL >= 0 /\ ScanTime \in Int /\ ScanTime >= 0
      /\ now - now = 0 /\ now \in Times
  BY CacheAssumption DEF FacetInv, TypeOK, Times
<1>4. ASSUME NEW facets \in Facets, facets.listing = Shown(q),
             now - facets.asOf <= ScanTime + TTL,
             Reply(r, facets), pc[r] = "idle", UNCHANGED <<pc, began>>
      PROVE  FacetInv'
  <2>1. answer' = [answer EXCEPT ![r] = {[facets |-> facets, at |-> now]}]
    BY <1>4 DEF Reply
  <2>2. TypeOK'
    BY <1>1, <1>4, <2>1 DEF FacetInv, TypeOK, Answer
  <2>3. CountersFitListing' /\ NeverStale'
    BY <1>1, <1>4, <2>1 DEF FacetInv, TypeOK, CountersFitListing, NeverStale
  <2>4. \A p \in Requests : ScanInTime(p)' /\ ScanFits(p)'
    BY <1>1, <1>4 DEF FacetInv, TypeOK, ScanInTime, ScanFits
  <2> QED BY <1>2, <2>2, <2>3, <2>4 DEF FacetInv
<1>5. CASE sel.in_stock = FALSE
  <2> DEFINE facets == [listing |-> None, asOf |-> now]
  <2>1. Reply(r, facets) /\ pc[r] = "idle" /\ UNCHANGED <<pc, began>>
    BY <1>5 DEF Ask
  <2>2. facets \in Facets /\ facets.listing = Shown(q) /\ now - facets.asOf = 0
    BY <1>3, <1>5 DEF Fits, Facets
  <2> HIDE DEF facets
  <2>3. now - facets.asOf <= ScanTime + TTL
    BY <1>3, <2>2
  <2> QED BY <1>4, <2>1, <2>2, <2>3
<1>6. CASE sel.in_stock # FALSE /\
           \E e \in entries : ~Expired(e) /\ Reply(r, e.facets) /\ UNCHANGED <<pc, began>>
  <2>1. PICK e \in entries : ~Expired(e) /\ Reply(r, e.facets) /\ UNCHANGED <<pc, began>>
    BY <1>6
  <2>2. e \in Entry /\ EntryOK(e) /\ e.key = CacheKey(sel)
    BY <2>1 DEF FacetInv, TypeOK, MemoInv
  <2>3. e.facets \in Facets /\ e.facets.listing = Shown(q)
    BY <1>6, <2>2 DEF Entry, EntryOK, Fits
  <2>4. now - e.facets.asOf <= ScanTime + TTL
    <3>1. e.stored \in Int /\ e.facets.asOf \in Int
      BY <2>2 DEF Entry, Facets, Times
    <3> QED BY <1>3, <2>1, <2>2, <3>1 DEF Expired, EntryOK
  <2>5. pc[r] = "idle"
    BY DEF Ask
  <2> QED BY <1>4, <2>1, <2>3, <2>4, <2>5
<1>7. CASE /\ sel.in_stock # FALSE
           /\ pc' = [pc EXCEPT ![r] = "scan"]
           /\ began' = [began EXCEPT ![r] = now]
           /\ answer' = [answer EXCEPT ![r] = {}]
  <2>1. TypeOK'
    BY <1>1, <1>7 DEF FacetInv, TypeOK
  <2>2. CountersFitListing' /\ NeverStale'
    BY <1>1, <1>7 DEF FacetInv, TypeOK, CountersFitListing, NeverStale
  <2>3. \A p \in Requests : ScanInTime(p)' /\ ScanFits(p)'
    BY <1>1, <1>3, <1>7 DEF FacetInv, TypeOK, ScanInTime, ScanFits, Fits
  <2> QED BY <1>2, <2>1, <2>2, <2>3 DEF FacetInv
<1> QED BY <1>5, <1>6, <1>7 DEF Ask

LEMMA StoreKeeps ==
    ASSUME FacetInv, NEW r \in Requests, StoreFacets(r)
    PROVE  FacetInv'
<1> DEFINE sel == selection[r]
           facets == [listing |-> Scanned(sel), asOf |-> began[r]]
           new == [key |-> CacheKey(sel), facets |-> facets, stored |-> now]
<1>1. PICK kept \in Room(cache) : cache' = {e \in kept : e.key # CacheKey(sel)} \cup {new}
  BY DEF StoreFacets
<1> DEFINE others == {e \in kept : e.key # CacheKey(sel)}
<1>2. /\ pc[r] = "scan" /\ Reply(r, facets)
      /\ pc' = [pc EXCEPT ![r] = "idle"]
      /\ UNCHANGED <<now, query, selection, began>>
  BY DEF StoreFacets
<1>3. sel \in Selections /\ query[r] \in AllQueries /\ Scanned(sel) = Shown(query[r])
  BY <1>2 DEF FacetInv, ScanFits
<1>4. facets \in Facets /\ facets.listing = Shown(query[r]) /\ now - began[r] <= ScanTime
      /\ began[r] \in Times /\ now \in Times
  BY <1>2, <1>3 DEF FacetInv, TypeOK, ScanInTime, Facets
<1>5. new \in Entry /\ new.key = CacheKey(sel) /\ new.facets = facets /\ new.stored = now
  BY <1>3, <1>4 DEF Entry
<1>6. EntryOK(new)
  <2>1. ASSUME NEW s \in Selections, CacheKey(s) = CacheKey(sel)
        PROVE  facets.listing = Scanned(s)
    BY <1>3, <2>1, KeyIsFaithful
  <2>2. facets.asOf = began[r]
    OBVIOUS
  <2> QED BY <1>4, <1>5, <2>1, <2>2 DEF EntryOK
<1>7. /\ kept \subseteq cache /\ IsFiniteSet(kept) /\ Cardinality(kept) < MaxEntries
  BY RoomForOne DEF FacetInv, MemoInv, Bounded
<1>8. IsFiniteSet(others) /\ Cardinality(others) <= Cardinality(kept) /\ new \notin others
  BY <1>7, FS_Subset
<1> HIDE DEF new, others, facets
<1>9. IsFiniteSet(cache') /\ Cardinality(cache') <= MaxEntries
  <2>1. IsFiniteSet(cache') /\ Cardinality(cache') = Cardinality(others) + 1
    BY <1>1, <1>8, FS_AddElement DEF others
  <2>2. Cardinality(others) \in Nat /\ Cardinality(kept) \in Nat /\ MaxEntries \in Nat
    BY <1>7, <1>8, FS_CardinalityType, CacheAssumption
  <2> QED BY <1>7, <1>8, <2>1, <2>2
<1>10. \A e, f \in cache' : e.key = f.key => e = f
  BY <1>1, <1>5, <1>7 DEF FacetInv, MemoInv, Bounded
<1>11. \A e \in cache' : EntryOK(e) /\ e \in Entry /\ e.stored <= now
  BY <1>1, <1>4, <1>5, <1>6, <1>7 DEF FacetInv, MemoInv, TypeOK, Times
<1>12. MemoInv'
  BY <1>9, <1>10, <1>11 DEF MemoInv, Bounded, EntryOK
<1>13. answer' = [answer EXCEPT ![r] = {[facets |-> facets, at |-> now]}]
  BY <1>2 DEF Reply
<1>14. TypeOK'
  BY <1>2, <1>4, <1>11, <1>13 DEF FacetInv, TypeOK, Answer
<1>15. CountersFitListing' /\ NeverStale'
  <2>1. now - facets.asOf <= ScanTime + TTL
    BY <1>4, CacheAssumption DEF Times, facets
  <2> QED BY <1>2, <1>4, <1>13, <2>1 DEF FacetInv, TypeOK, CountersFitListing, NeverStale
<1>16. \A p \in Requests : ScanInTime(p)' /\ ScanFits(p)'
  BY <1>2 DEF FacetInv, TypeOK, ScanInTime, ScanFits
<1> QED BY <1>12, <1>14, <1>15, <1>16 DEF FacetInv

LEMMA FailKeeps ==
    ASSUME FacetInv, NEW r \in Requests, ScanFails(r)
    PROVE  FacetInv'
  BY DEF ScanFails, FacetInv, TypeOK, MemoInv, Bounded, EntryOK, ScanInTime, ScanFits,
         CountersFitListing, NeverStale

(* Time passes no scan by: this is where the age of a scan is bounded.     *)
LEMMA TickKeeps ==
    ASSUME FacetInv, Tick
    PROVE  FacetInv'
<1>1. now \in Int /\ MaxTime \in Int /\ ScanTime \in Int
  BY CacheAssumption DEF FacetInv, TypeOK, Times
<1>2. TypeOK'
  BY <1>1 DEF Tick, FacetInv, TypeOK, Times, Entry
<1>3. \A r \in Requests : ScanInTime(r)' /\ ScanFits(r)'
  BY <1>1 DEF Tick, FacetInv, TypeOK, ScanInTime, ScanFits, Times
<1>4. MemoInv' /\ CountersFitListing' /\ NeverStale'
  BY DEF Tick, FacetInv, MemoInv, Bounded, EntryOK, CountersFitListing, NeverStale
<1> QED BY <1>2, <1>3, <1>4 DEF FacetInv

-----------------------------------------------------------------------------
(* The invariant holds at the start and every step keeps it.               *)
LEMMA FacetInvHolds == Spec => []FacetInv
<1>1. Init => FacetInv
  <2> SUFFICES ASSUME Init PROVE FacetInv
    OBVIOUS
  <2>1. /\ TypeOK /\ CountersFitListing /\ NeverStale
        /\ \A r \in Requests : ScanInTime(r) /\ ScanFits(r)
    BY CacheAssumption
       DEF Init, TypeOK, Times, CountersFitListing, NeverStale, ScanInTime, ScanFits
  <2>2. MemoInv
    BY FS_EmptySet, CacheAssumption DEF Init, MemoInv, Bounded
  <2> QED BY <2>1, <2>2 DEF FacetInv
<1>2. FacetInv /\ [Next]_vars => FacetInv'
  <2> SUFFICES ASSUME FacetInv, [Next]_vars PROVE FacetInv'
    OBVIOUS
  <2>1. CASE UNCHANGED vars
    BY <2>1 DEF vars, FacetInv, TypeOK, MemoInv, Bounded, EntryOK,
                ScanInTime, ScanFits, CountersFitListing, NeverStale
  <2>2. ASSUME NEW r \in Requests, GetFacets(r) PROVE FacetInv'
    BY <2>2, AskKeeps, SelectionFits DEF GetFacets, AllQueries, Selections
  <2>6. ASSUME NEW r \in Requests, GetCategoryFilters(r) PROVE FacetInv'
    BY <2>6, AskKeeps, CategoryFits DEF GetCategoryFilters, AllQueries, Selections
  <2>3. ASSUME NEW r \in Requests, StoreFacets(r) PROVE FacetInv'
    BY <2>3, StoreKeeps
  <2>4. ASSUME NEW r \in Requests, ScanFails(r) PROVE FacetInv'
    BY <2>4, FailKeeps
  <2>5. CASE Tick
    BY <2>5, TickKeeps
  <2> QED BY <2>1, <2>2, <2>3, <2>4, <2>5, <2>6 DEF Next
<1> QED BY <1>1, <1>2, PTL DEF Spec

(* The type invariant of the memo and its requests.                        *)
THEOREM FacetTypeCorrect == Spec => []TypeOK
<1>1. FacetInv => TypeOK
  BY DEF FacetInv
<1> QED BY <1>1, FacetInvHolds, PTL

(* The memo keeps its bound and one entry per key.                         *)
THEOREM MemoIsBounded == Spec => []Bounded
<1>1. FacetInv => Bounded
  BY DEF FacetInv, MemoInv
<1> QED BY <1>1, FacetInvHolds, PTL

(* Every buyer is answered with counters of the listing on the page, by a  *)
(* scan of the request or of another one of the same key.                  *)
THEOREM CountersFitTheListing == Spec => []CountersFitListing
<1>1. FacetInv => CountersFitListing
  BY DEF FacetInv
<1> QED BY <1>1, FacetInvHolds, PTL

(* Counters are never older than a scan and the time to live.              *)
THEOREM CountersAreNeverStale == Spec => []NeverStale
<1>1. FacetInv => NeverStale
  BY DEF FacetInv
<1> QED BY <1>1, FacetInvHolds, PTL

=============================================================================
