--------------------------- MODULE MCProjectStorage ---------------------------
(***************************************************************************)
(* Instances of ProjectStorage for TLC.  The routes and the faults of a run *)
(* are the sets below; the other constants are in the .cfg files.           *)
(***************************************************************************)
EXTENDS ProjectStorage

CONSTANTS w1, w2, l1

(* A file and a link; l1 is the write that made the link.                   *)
SeedTree == {w1, l1}
SeedFile == {w1}

(* Two clients that archive, unarchive and stop, beside the sweeper.          *)
RaceOps == {"archive", "unarchive", "terminate"}
RaceFaults == {"stop", "tar", "put", "putlost", "get", "swap", "prune"}

(* One client that waits for each answer, and a service that may die.       *)
SerialOps == {"archive", "unarchive", "exec", "write", "delete", "terminate"}
SerialFaults == {"stop", "start", "tar", "put", "putlost", "save", "get", "swap",
                 "prune", "crash"}

(* Every route beside the sweeper; the calls whose failure only repeats a   *)
(* path of the other runs succeed, and the store's clock orders uploads.    *)
WideFaults == {"torn", "put", "delete", "get", "swap", "copy"}

(* The least that contradicts a sentence of the README.                     *)
ExecOps == {"archive", "unarchive", "exec"}
NoFaults == {}
=============================================================================
