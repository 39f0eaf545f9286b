-------------------------- MODULE MCContainerManager --------------------------
(***************************************************************************)
(* Instances of ContainerManager for TLC: routes and faults of the runs.   *)
(***************************************************************************)
EXTENDS ContainerManager, TLC

(* Names, addresses and requests are interchangeable; no liveness is checked. *)
Alike == Permutations(Names) \cup Permutations(IPs) \cup Permutations(Requests)

(* One name, what keeps a container in use, what ends it, and every failure *)
(* after which somebody cleans up.                                          *)
IdleOps == {"exec", "health", "terminate", "proxy"}
IdleFaults == {"die", "inspect", "port", "ensure", "creds", "create", "start",
               "stop"}

(* Two names, callers of the proxy port, a service that starts again, and    *)
(* every failure.                                                           *)
RestartOps == {"exec", "chat", "terminate", "proxy"}
RestartFaults == FaultKinds
=============================================================================
