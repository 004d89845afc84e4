------------------------------- MODULE MCCart -------------------------------
(***************************************************************************)
(* Instances of Cart for TLC.                                              *)
(***************************************************************************)
EXTENDS Cart, TLC

CONSTANTS tab1, tab2, visit, buyer, visitor, a, b

OneTabEach == [s \in Sessions |-> IF s = visit THEN visitor ELSE buyer]

=============================================================================
