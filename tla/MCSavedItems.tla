---------------------------- MODULE MCSavedItems ----------------------------
(***************************************************************************)
(* Instances of SavedItems for TLC.                                        *)
(***************************************************************************)
EXTENDS SavedItems, TLC

Interchangeable == Permutations(Sessions) \cup Permutations(Ids)

=============================================================================
