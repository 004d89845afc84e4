----------------------------- MODULE MCCatalog -----------------------------
(***************************************************************************)
(* Instances of Catalog for TLC.                                           *)
(***************************************************************************)
EXTENDS Catalog

CONSTANTS p1, p2, p3

Order == <<p1, p2, p3>>

(* The cheapest is sold out, a discount makes the dearest the cheapest.    *)
SoldOut == [price |-> 1, discount |-> 0, active_quantity |-> 0]
Plain == [price |-> 3, discount |-> 0, active_quantity |-> 1]
Discounted == [price |-> 4, discount |-> 2, active_quantity |-> 1]

SkuListsMC == SUBSET {SoldOut, Plain, Discounted}

Interchangeable == Permutations(Categories)

=============================================================================
