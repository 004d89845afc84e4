--------------------------- MODULE MCOrderHistory ---------------------------
(* Three orders of the buyer and one of another, in an order of creation   *)
(* that has nothing to do with the order of their commits.                 *)
EXTENDS OrderHistory, TLC

CONSTANTS o1, o2, o3, x1

OrdersMC == {o1, o2, o3, x1}
MineMC == {o1, o2, o3}
CreatedMC == (o1 :> 1 @@ x1 :> 2 @@ o2 :> 3 @@ o3 :> 4)
LimitsMC == {1, 2}
FiltersMC == {"all", "PAID", "CANCEL_PENDING"}

=============================================================================
