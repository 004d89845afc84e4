---------------------------- MODULE ShoppingCart ----------------------------
(***************************************************************************)
(* What the cart of src/routes/cart.py promises: a cart is a quantity per  *)
(* SKU, and every request changes it at one moment.  A merge takes the     *)
(* maximum of the buyer's cart and of the guest cart as it was when the    *)
(* merge read it (the guest may go on shopping meanwhile).                 *)
(***************************************************************************)
EXTENDS Integers, FiniteSetsExt

CONSTANTS Users, Skus, Quantities

VARIABLES
    cart,   \* [Users -> [Skus -> Nat]], 0 for a SKU that is not in the cart
    offer   \* the guest cart that a buyer's merge has read, empty otherwise

promised == <<cart, offer>>

Nothing == [k \in Skus |-> 0]

Init ==
    /\ cart = [u \in Users |-> Nothing]
    /\ offer = [u \in Users |-> Nothing]

Add(u, k, q) ==
    /\ cart' = [cart EXCEPT ![u][k] = @ + q]
    /\ UNCHANGED offer

SetQuantity(u, k, q) ==
    /\ cart[u][k] > 0
    /\ cart' = [cart EXCEPT ![u][k] = q]
    /\ UNCHANGED offer

Remove(u, k) ==
    /\ cart' = [cart EXCEPT ![u][k] = 0]
    /\ UNCHANGED offer

Clear(u) ==
    /\ cart' = [cart EXCEPT ![u] = Nothing]
    /\ UNCHANGED offer

Offer(u, guest) ==
    /\ offer' = [offer EXCEPT ![u] = cart[guest]]
    /\ UNCHANGED cart

Merge(u) ==
    /\ cart' = [cart EXCEPT ![u] = [k \in Skus |-> Max({@[k], offer[u][k]})]]
    /\ offer' = [offer EXCEPT ![u] = Nothing]

Next ==
    \E u \in Users :
        \/ \E k \in Skus, q \in Quantities : Add(u, k, q) \/ SetQuantity(u, k, q)
        \/ \E k \in Skus : Remove(u, k)
        \/ Clear(u)
        \/ \E guest \in Users : Offer(u, guest)
        \/ Merge(u)

Spec == Init /\ [][Next]_promised

=============================================================================
