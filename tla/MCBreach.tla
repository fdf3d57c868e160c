------------------------------ MODULE MCBreach ------------------------------
(***************************************************************************)
(* Breach on the experiments the subsystems declare.  A run is one         *)
(* experiment, or the two that share a name: what others leave behind is   *)
(* in nobody's way.                                                        *)
(***************************************************************************)
EXTENDS Breach, TenancyExperiments

MCServices == {"tenant2/webserver-service", "tenant1/webserver-service"}

MCReachability == {<<"pod_reachability", "service_reachability">>}

MCSingle == {<<name>> : name \in DOMAIN TheExperiments \ {"pod_reachability"}}

MCPlans == MCReachability \union MCSingle

\* The names of the pods of these runs.
MCPods ==
  UNION {{x.target, x.intruder} : x \in {TheExperiments[n] : n \in DOMAIN TheExperiments}}

=============================================================================
