----------------------------- MODULE Fulfilment -----------------------------
(***************************************************************************)
(* Cart, checkout and cancellation on one database and one B2B: the steps  *)
(* of Checkout, and for every order they commit the steps of OrderLife.    *)
(* OrderLife stands here for the handlers and the worker of cancellation,  *)
(* which OrderCancel shows to implement it; nothing in this module could   *)
(* depart from it.  A release takes the order's lines out of the stock     *)
(* that checkouts reserve from, and an order may be cancelled while its    *)
(* checkout is still answering or is replayed.                             *)
(***************************************************************************)
EXTENDS Checkout

VARIABLES
    status,     \* of the order each request may commit
    released    \* orders whose reservation B2B has given back

life == <<status, released>>

Life == INSTANCE OrderLife WITH Orders <- Requests, Itemless <- {}

FulfilmentTypeOK ==
    /\ TypeOK
    /\ status \in [Requests -> Life!Stages]
    /\ released \subseteq Requests

FulfilmentInit ==
    /\ Init
    /\ status = [r \in Requests |-> "none"]
    /\ released = {}

(* B2B gives back what the items of the order name, while other checkouts  *)
(* reserve.                                                                *)
UnreserveOrder(o) ==
    /\ Life!GiveBack(o.id)
    /\ held' = held \ o.lines
    /\ UNCHANGED <<rows, orders, pc, cart, lines, refund, reply, result, lost, faults>>

(* The handlers of cancellation find no order before its commit.           *)
CancelStep(o) == Life!Cancellation(o.id) /\ UNCHANGED vars

FulfilmentNext ==
    \/ \E r \in Requests : CommitOrder(r) /\ Life!Place(r)
    \/ \E r \in Requests : (Handle(r) \/ Crash(r)) /\ UNCHANGED life
    \/ EditCart /\ UNCHANGED life
    \/ \E o \in orders : CancelStep(o) \/ UnreserveOrder(o)

FulfilmentSpec == FulfilmentInit /\ [][FulfilmentNext]_<<vars, life>>

-----------------------------------------------------------------------------
(* Properties                                                              *)

Reserved == UNION {o.lines : o \in {p \in orders : p.id \notin released}}

(* Over the whole life of orders, what B2B holds is what the orders that   *)
(* were not released and the checkouts in progress need, and what faults   *)
(* have lost: cancelling never takes stock from another order, and no      *)
(* stock stays behind a cancelled one.                                     *)
StockConserved ==
    /\ held = lost \cup Reserved \cup InFlight
    /\ lost \cap (Reserved \cup InFlight) = {}
    /\ Reserved \cap InFlight = {}
    /\ \A o \in orders : status[o.id] = "CANCELLED" => held \cap o.lines = {}

=============================================================================
