---------------------------- MODULE MCZfsProjects ----------------------------
(***************************************************************************)
(* Instances of ZfsProjects for TLC.                                        *)
(***************************************************************************)
EXTENDS ZfsProjects, TLC

CONSTANTS p1, p2

TwoProjects == {p1, p2}
OneProject == {p1}
NameOrder == [p \in Projects |-> IF p = p1 THEN 1 ELSE 2]

(* Every route, and every command failing that has a path for it.  The second *)
(* project is what the first one is cloned to, or from.                     *)
AllRoutes == [op \in AllOps |-> IF op = "clone" THEN Projects ELSE {p1}]

(* A destroy and a rename back fail only where they cannot be carried out.   *)
RouteFaults == FaultKinds \ {"destroy", "back"}

(* A restore beside the first command after a restart.                      *)
RestoreAndExec == [op \in AllOps |-> IF op \in {"restore", "ensure"} THEN {p1} ELSE {}]
NoFaults == {}

Symmetric == Permutations(Asides) \cup Permutations(Snaps) \cup Permutations(Requests)
             \cup Permutations(Trees)
=============================================================================
