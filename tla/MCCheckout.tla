----------------------------- MODULE MCCheckout -----------------------------
(***************************************************************************)
(* Instances of Checkout for TLC.                                          *)
(***************************************************************************)
EXTENDS Checkout

CONSTANTS r1, r2, r3, alice, k1, other, checked, a, b

(* One buyer: a double click (r1, r2) and a reuse of its key (r3).         *)
SameUser == [r \in Requests |-> alice]
SameKey == [r \in Requests |-> k1]
ReusedBody == [r \in Requests |-> IF r = r3 THEN other ELSE checked]

CheckedBody == [r \in Requests |-> checked]

(* A client that saw one unit of each SKU at a price of 1 (a is named      *)
(* twice, and the last line counts), or only one of a.                     *)
Saw(sku, qty) == [sku |-> sku, qty |-> qty, price |-> 1]

BothSeen ==
    [x \in Bodies |-> IF x = checked THEN <<Saw(a, 2), Saw(b, 1), Saw(a, 1)>> ELSE <<>>]

OneSnapshot == [x \in Bodies |-> <<Saw(a, 1)>>]

ThreeEach == [s \in Skus |-> 3]

=============================================================================
