-------------------------- MODULE MCStorageVolumes --------------------------
(***************************************************************************)
(* StorageVolumes with two operations in a row and two nodes.              *)
(***************************************************************************)
EXTENDS StorageVolumes, TLC

CONSTANTS n1, n2

MCPlans == {<<"retain">>, <<"hostpath">>, <<"plain", "retain">>, <<"plain", "hostpath">>}
MCNodes == {n1, n2}

Swapped == Permutations(MCNodes)

=============================================================================
