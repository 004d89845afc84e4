---------------------------- MODULE OrderHistory ----------------------------
(***************************************************************************)
(* The order history of a buyer (order.py, GET /orders and                 *)
(* GET /orders/{id}), read page by page while orders are placed, cancelled *)
(* and completed as OrderLife allows.  A request counts the orders and     *)
(* selects its page in two statements, each of which sees what is          *)
(* committed by then.  created_at is the start of the transaction that     *)
(* inserts an order, so an order may be committed after a newer one.       *)
(*                                                                         *)
(* The client is outside of the code: it asks for page after page under    *)
(* one filter and stops at the first page that is not full.                *)
(***************************************************************************)
EXTENDS Integers, FiniteSets

CONSTANTS
    Orders,
    Mine,            \* the orders of the buyer who reads
    Created,         \* created_at of every order
    Filters,         \* "all", or the status asked for
    Limits,          \* page sizes
    NoCard           \* no order card is open

ASSUME HistoryAssumption ==
    /\ IsFiniteSet(Orders)
    /\ Mine \subseteq Orders
    /\ Created \in [Orders -> Nat]
    /\ \A o, p \in Orders : o # p => Created[o] # Created[p]
    /\ \A n \in Limits : n \in Nat /\ n > 0

VARIABLES
    status,      \* of OrderLife
    released,    \* of OrderLife
    pc,          \* of the client and its request
    ask,         \* filter, limit and offset of the request
    total,       \* total_count, from the first statement
    page,        \* items, from the second statement
    seen,        \* every order of the pages so far
    card,        \* the order card opened last
    expected,    \* history: what matched the filter when the walk began
    left,        \* history: an order has left the filter during the walk
    came,        \* history: an order has come into it during the walk
    repeats,     \* history: a page has held an order of an earlier page
    moved        \* history: the orders changed between the two statements

life == <<status, released>>
walk == <<pc, ask, total, page, seen, expected, repeats>>
vars == <<life, walk, card, left, came, moved>>

Life == INSTANCE OrderLife WITH Itemless <- {}

(* Rows other transactions can see.                                        *)
Committed == {o \in Orders : status[o] # "none"}

(* Mutant: the buyer is forgotten.                                         *)
MatchingAnyBuyer(f) == {o \in Committed : f \in {"all", status[o]}}

(* The conditions of the query.                                            *)
Matching(f) == {o \in Committed \cap Mine : f \in {"all", status[o]}}

(* Mutant: the count forgets the status asked for.                         *)
CountAll(f) == Cardinality(Matching("all"))

(* select(func.count()).                                                   *)
Count(f) == Cardinality(Matching(f))

Rank(o, S) == Cardinality({p \in S : Created[p] > Created[o]})

(* Mutant: the offset is taken for a page number.                          *)
PageByNumber(S, a) ==
    {o \in S : Rank(o, S) \in a.offset * a.limit .. (a.offset + 1) * a.limit - 1}

(* Mutant: one order too many.                                             *)
PageLong(S, a) == {o \in S : Rank(o, S) \in a.offset .. a.offset + a.limit}

(* ORDER BY created_at DESC LIMIT limit OFFSET offset.                     *)
PageOf(S, a) == {o \in S : Rank(o, S) \in a.offset .. a.offset + a.limit - 1}

-----------------------------------------------------------------------------
Pcs == {"idle", "count", "select", "answer", "between", "done"}

TypeOK ==
    /\ status \in [Orders -> Life!Stages]
    /\ released \subseteq Orders
    /\ pc \in Pcs
    /\ ask \in [filter : Filters, limit : Limits, offset : Nat]
    /\ total \in Nat
    /\ page \subseteq Mine \cap Committed
    /\ seen \subseteq Mine \cap Committed
    /\ card \in [id : Orders, reply : {"found", "ORDER_NOT_FOUND"}] \cup {NoCard}
    /\ expected \subseteq Mine \cap Committed
    /\ left \in BOOLEAN /\ came \in BOOLEAN
    /\ repeats \in BOOLEAN /\ moved \in BOOLEAN

Init ==
    /\ Life!Init
    /\ pc = "idle"
    /\ ask \in [filter : Filters, limit : Limits, offset : {0}]
    /\ total = 0
    /\ page = {} /\ seen = {} /\ expected = {}
    /\ card = NoCard
    /\ left = FALSE /\ came = FALSE /\ repeats = FALSE /\ moved = FALSE

(* The client opens the history under a filter.                            *)
Open ==
    /\ pc \in {"idle", "done"}
    /\ ask' \in [filter : Filters, limit : Limits, offset : {0}]
    /\ pc' = "count"
    /\ expected' = Matching(ask'.filter)
    /\ seen' = {}
    /\ card' = NoCard
    /\ left' = FALSE /\ came' = FALSE /\ repeats' = FALSE
    /\ UNCHANGED <<life, total, page, moved>>

(* It asks for the page behind the one it has.                             *)
NextPage ==
    /\ pc = "between"
    /\ pc' = "count"
    /\ ask' = [ask EXCEPT !.offset = @ + ask.limit]
    /\ card' = NoCard
    /\ UNCHANGED <<life, total, page, seen, expected, left, came, repeats, moved>>

(* get_user_orders, first statement.                                       *)
CountOrders ==
    /\ pc = "count"
    /\ pc' = "select"
    /\ total' = Count(ask.filter)
    /\ UNCHANGED <<life, ask, page, seen, card, expected, left, came, repeats, moved>>

(* get_user_orders, second statement.                                      *)
SelectPage ==
    /\ pc = "select"
    /\ pc' = "answer"
    /\ page' = PageOf(Matching(ask.filter), ask)
    /\ repeats' = (repeats \/ page' \cap seen # {})
    /\ UNCHANGED <<life, ask, total, seen, card, expected, left, came, moved>>

(* The items of an order never change once it is committed.                *)
AnswerPage ==
    /\ pc = "answer"
    /\ pc' = IF Cardinality(page) < ask.limit THEN "done" ELSE "between"
    /\ seen' = seen \cup page
    /\ total' = 0 /\ page' = {} /\ moved' = FALSE
    /\ UNCHANGED <<life, ask, card, expected, left, came, repeats>>

Visible == Committed \cap Mine

(* The client opens an order while it has no request for a page out.       *)
GetOrder(o) ==
    /\ pc \in {"idle", "between", "done"}
    /\ card' = [id |-> o, reply |-> IF o \in Visible THEN "found" ELSE "ORDER_NOT_FOUND"]
    /\ UNCHANGED <<life, walk, left, came, moved>>

(* Checkouts, cancellations and the worker, of this buyer and of others.   *)
OrdersMove ==
    /\ Life!Next
    /\ UNCHANGED <<walk, card>>
    /\ LET now == Matching(ask.filter)
           then == Matching(ask.filter)'
       IN  /\ left' = (left \/ ~ now \subseteq then)
           /\ came' = (came \/ ~ then \subseteq now)
           /\ moved' = (moved \/ (pc = "select" /\ now # then))

Next ==
    \/ Open \/ NextPage \/ CountOrders \/ SelectPage \/ AnswerPage
    \/ \E o \in Orders : GetOrder(o)
    \/ OrdersMove

Spec == Init /\ [][Next]_vars

-----------------------------------------------------------------------------
(* Properties                                                              *)

(* Unless an order leaves the filter, a walk shows every order that        *)
(* matched when it began, however many are committed meanwhile, in front   *)
(* of the page or behind it.                                               *)
NoneMissed == pc = "done" /\ ~ left => expected \subseteq seen

(* Unless an order comes into the filter, no order is shown twice, however *)
(* many leave it.                                                          *)
NoneTwice == ~ came => ~ repeats

(* When nothing changes between the two statements, the page is as full as *)
(* total_count says.                                                       *)
TotalFitsPage ==
    pc = "answer" /\ ~ moved =>
        LET rest == total - ask.offset
        IN  Cardinality(page) = IF rest <= 0 THEN 0
                                ELSE IF rest < ask.limit THEN rest ELSE ask.limit

(* An order the history has shown can be opened, whatever became of it.    *)
ShownCanBeOpened ==
    [][\A o \in seen : GetOrder(o) => card'.reply = "found"]_vars

=============================================================================
