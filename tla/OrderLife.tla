------------------------------ MODULE OrderLife ------------------------------
(***************************************************************************)
(* What B2C and B2B together promise about the life of an order, without   *)
(* sessions, stale copies, retries or faults: an order is paid for once,   *)
(* its stock is given back only after its cancellation was accepted, it is *)
(* CANCELLED only after the stock was given back, and a cancellation is    *)
(* never taken back.  OrderCancel (the handlers and the worker) implements *)
(* it, Fulfilment takes its steps for the cancellation of orders beside    *)
(* checkouts, and OrderHistory reads the orders it moves.                  *)
(***************************************************************************)
CONSTANTS
    Orders,
    Itemless     \* the orders without items, for which B2B holds nothing

VARIABLES
    status,      \* "none" before the order is committed
    released     \* orders whose reservation B2B has given back

life == <<status, released>>

Stages == {"none", "PAID", "CANCEL_PENDING", "CANCELLED"}

(* The database may hold paid orders from before.                          *)
Init ==
    /\ status \in [Orders -> {"none", "PAID"}]
    /\ released = {}

Becomes(o, stage) == status' = [status EXCEPT ![o] = stage]

(* A checkout commits the order.                                           *)
Place(o) ==
    /\ status[o] = "none"
    /\ Becomes(o, "PAID")
    /\ UNCHANGED released

(* The intent to cancel is kept before B2B hears of it.                    *)
Accept(o) ==
    /\ status[o] = "PAID"
    /\ Becomes(o, "CANCEL_PENDING")
    /\ UNCHANGED released

(* B2B gives the stock of the order back, once.                            *)
GiveBack(o) ==
    /\ status[o] = "CANCEL_PENDING"
    /\ o \notin released \cup Itemless
    /\ released' = released \cup {o}
    /\ UNCHANGED status

Complete(o) ==
    /\ status[o] = "CANCEL_PENDING"
    /\ o \in released \cup Itemless
    /\ Becomes(o, "CANCELLED")
    /\ UNCHANGED released

(* A second cancel that had found the order PAID writes its intent over    *)
(* CANCELLED (run cancel_final); the order completes again.                *)
Reopen(o) ==
    /\ status[o] = "CANCELLED"
    /\ Becomes(o, "CANCEL_PENDING")
    /\ UNCHANGED released

Cancellation(o) == Accept(o) \/ Complete(o) \/ Reopen(o)

Next == \E o \in Orders : Place(o) \/ Cancellation(o) \/ GiveBack(o)

Spec == Init /\ [][Next]_life

=============================================================================
