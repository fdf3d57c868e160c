----------------------------- MODULE MCFairness -----------------------------
(***************************************************************************)
(* Campaigns for the model checker: each subsystem in one command after    *)
(* another, and two subsystems in one command.                             *)
(***************************************************************************)
EXTENDS Fairness

Campaign == {<<{"storage"}, {"storage"}>>, <<{"workload"}, {"workload"}>>,
             <<{"control", "network"}>>, <<{"storage", "workload"}>>}
Option == {[mixed |-> TRUE, pvc |-> TRUE, export |-> FALSE],
           [mixed |-> FALSE, pvc |-> FALSE, export |-> TRUE]}
=============================================================================
