---------------------------- MODULE MCFulfilment ----------------------------
(***************************************************************************)
(* Instances of Fulfilment for TLC.                                        *)
(***************************************************************************)
EXTENDS Fulfilment

CONSTANTS r1, r2, alice, k1, k2, plain, checked, a, b

(* One buyer with two keys, so that both checkouts may buy one cart.       *)
OneBuyer == [r \in Requests |-> alice]
TwoKeys == [r \in Requests |-> IF r = r1 THEN k1 ELSE k2]
OneChecked == [r \in Requests |-> IF r = r1 THEN plain ELSE checked]

(* r2's client saw one a and two b at a price of 1 (a is named twice, and  *)
(* the last line counts); r1's sends no snapshot.                          *)
Saw(sku, qty) == [sku |-> sku, qty |-> qty, price |-> 1]

BothSeen ==
    [x \in Bodies |-> IF x = checked THEN <<Saw(a, 2), Saw(b, 2), Saw(a, 1)>> ELSE <<>>]

(* Enough of a for both checkouts; b is for one of them.                   *)
Scarce == [s \in Skus |-> IF s = a THEN 3 ELSE 2]

=============================================================================
