---------------------------- MODULE MCAssessment ----------------------------
(***************************************************************************)
(* Small catalogues for Assessment.  The larger has a subsystem with two   *)
(* resources, resources with one and with two operations, and one with     *)
(* none, which is left out of the report.                                  *)
(***************************************************************************)
EXTENDS Assessment

MCCatalogue ==
  [control_plane |-> <<2, 1>>, storage |-> <<1>>, network |-> <<0>>, workload |-> <<1>>]

MCLeast ==
  [control_plane |-> <<1>>, storage |-> <<1>>, network |-> <<1>>, workload |-> <<1>>]
=============================================================================
