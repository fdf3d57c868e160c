--------------------------- MODULE MCMarkerTests ---------------------------
(***************************************************************************)
(* MarkerTests on two addresses: one may answer while the other fails, and *)
(* the two may lead to different tenants.                                  *)
(***************************************************************************)
EXTENDS MarkerTests, TLC

CONSTANTS node, hop

MCAddresses == {node, hop}

Swapped == Permutations(MCAddresses)

=============================================================================
