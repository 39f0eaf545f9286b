-------------------------- MODULE MCLegacyMigration --------------------------
(***************************************************************************)
(* Instances of LegacyMigration for TLC: a workspace of one directory and   *)
(* one plain file.                                                          *)
(***************************************************************************)
EXTENDS LegacyMigration

CONSTANTS d, e, f1, f2, f3

Tops == {d, e}
OneFolder == {d}
FileEntry == [f \in Files |-> IF f = f3 THEN e ELSE d]

(* One import at a time and everything that can go wrong with it.           *)
AllFaults == FaultKinds

(* The retry of an import whose caller has given up on it.                  *)
NoFaults == {}
=============================================================================
