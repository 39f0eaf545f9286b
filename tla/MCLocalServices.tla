---------------------------- MODULE MCLocalServices ----------------------------
(***************************************************************************)
(* An instance of Scaffold and LocalServices for TLC: the command lines and  *)
(* the limits.                                                              *)
(***************************************************************************)
EXTENDS LocalServices

(* Defaults, both grays, one gray, no name, flags that take "--help" or ask   *)
(* for help, and the template's own name, with which the third binding fits. *)
CreateArgLists == {
    <<"site">>,
    <<"site", "--theme", "zinc", "--base-color", "zinc">>,
    <<"site", "--theme", "zinc">>,
    <<"--theme", "site">>,
    <<"site", "--base-color", "--help">>,
    <<"site", "--help">>,
    <<"starter">>}

(* Either file, no file, and a flag without its value.                      *)
PublishArgLists == {
    <<"site", "--file", "a.md">>,
    <<"--file", "b.md", "site">>,
    <<"site", "--file", "c.md">>,
    <<"site", "--file">>}

(* No valid limit, and one.                                                 *)
Raws == {0, 1}
=============================================================================
