---------------------------- MODULE MCFacetCache ----------------------------
(***************************************************************************)
(* Instances of FacetCache for TLC.                                        *)
(***************************************************************************)
EXTENDS FacetCache, TLC

CONSTANTS c1

(* A buyer opens a category, picks a brand, picks another one among the    *)
(* characteristics, sorts by another order, and asks for what is sold out. *)
Opened == CategoryQuery(c1)
Branded == [Opened EXCEPT !.brand = "apple", !.seller = Empty]
Picked == [Branded EXCEPT !.attributes = [brand |-> "pear"]]
Newest == [Opened EXCEPT !.sort = "new"]
SoldOut == [Opened EXCEPT !.in_stock = FALSE]

FiveQueries == {Opened, Branded, Picked, Newest, SoldOut}

Interchangeable == Permutations(Requests)

=============================================================================
