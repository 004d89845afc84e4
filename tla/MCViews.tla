------------------------------ MODULE MCViews ------------------------------
(* Two things, tables of up to three rows.                                 *)
EXTENDS Views

CONSTANTS a, b

ThingsMC == {a, b}
PricesMC == {1, 2}
QuantitiesMC == {1, 2}
LimitsMC == {1, 2}
OffsetsMC == {0, 1}
DisplaysMC == {0, 1, 2}

=============================================================================
