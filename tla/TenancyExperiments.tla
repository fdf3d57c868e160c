------------------------ MODULE TenancyExperiments ------------------------
(***************************************************************************)
(* The breach experiments the subsystems declare, in what Breach needs of  *)
(* them.  Pods and Services are named with the tenant whose namespace they *)
(* are in: the victim's for a target and its Service, the intruder's for   *)
(* the intruder.                                                           *)
(***************************************************************************)

\* The network subsystem.  Both reachability experiments use the same target.
PodReachability ==
  [target |-> "tenant2/network-multitool", intruder |-> "tenant1/network-reach-probe",
   service |-> {}, aim |-> "address", privileged |-> FALSE, lasting |-> FALSE,
   secret |-> "confirmed", judged |-> "reachability"]

ServiceReachability ==
  [PodReachability EXCEPT !.intruder = "tenant1/service-reach-probe",
                          !.service = {"tenant2/webserver-service"}]

\* The victim is tenant1.  The record is the Service's, whatever becomes of the pod.
DnsResolution ==
  [target |-> "tenant1/network-multitool", intruder |-> "tenant2/dns-probe",
   service |-> {"tenant1/webserver-service"}, aim |-> "anywhere", privileged |-> FALSE,
   lasting |-> TRUE, secret |-> "confirmed", judged |-> "dns"]

\* The storage subsystem.  A file outlives the pod that wrote it, and a hostPath is
\* no host privilege to asks_for_host_privilege.
HostpathData ==
  [target |-> "tenant1/hostpath-target", intruder |-> "tenant2/hostpath-intruder",
   service |-> {}, aim |-> "node", privileged |-> FALSE, lasting |-> TRUE,
   secret |-> "confirmed", judged |-> "reports"]

\* The workload subsystem.
ProcessNamespace ==
  [target |-> "tenant2/target-process", intruder |-> "tenant1/spy-process",
   service |-> {}, aim |-> "node", privileged |-> TRUE, lasting |-> FALSE,
   secret |-> "confirmed", judged |-> "reports"]

NetworkNamespace ==
  [target |-> "tenant2/network-target", intruder |-> "tenant1/network-spy",
   service |-> {}, aim |-> "address", privileged |-> TRUE, lasting |-> FALSE,
   secret |-> "confirmed", judged |-> "reports"]

\* The target prints the name of the key it planted, or UNAVAILABLE in its place.
UserNamespace ==
  [target |-> "tenant2/user-target", intruder |-> "tenant1/user-spy",
   service |-> {}, aim |-> "facts", privileged |-> TRUE, lasting |-> TRUE,
   secret |-> "stated", judged |-> "keyring"]

\* System V objects belong to the namespace, not to the pod that made them.
IpcNamespace ==
  [target |-> "tenant2/ipc-target", intruder |-> "tenant1/ipc-spy",
   service |-> {}, aim |-> "node", privileged |-> TRUE, lasting |-> TRUE,
   secret |-> "published", judged |-> "repeats"]

PrivilegedSyscalls ==
  [target |-> "tenant2/tenant2-target", intruder |-> "tenant1/kernel-escape",
   service |-> {}, aim |-> "facts", privileged |-> TRUE, lasting |-> FALSE,
   secret |-> "confirmed", judged |-> "escape"]

TheExperiments ==
  [pod_reachability |-> PodReachability, service_reachability |-> ServiceReachability,
   dns_resolution |-> DnsResolution, hostpath_data |-> HostpathData,
   process_namespace |-> ProcessNamespace, network_namespace |-> NetworkNamespace,
   user_namespace |-> UserNamespace, ipc_namespace |-> IpcNamespace,
   privileged_syscalls |-> PrivilegedSyscalls]

=============================================================================
