---------------------------- MODULE MCOrderCancel ----------------------------
(***************************************************************************)
(* Instances of OrderCancel for TLC.                                       *)
(***************************************************************************)
EXTENDS OrderCancel

CONSTANTS alice, bob, o1, o2, o3

AllOfAlice == [o \in Orders |-> alice]

=============================================================================
