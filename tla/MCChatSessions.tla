---------------------------- MODULE MCChatSessions ----------------------------
(***************************************************************************)
(* An instance of ChatSessions for TLC: two tabs.                          *)
(***************************************************************************)
EXTENDS ChatSessions

CONSTANTS t1, t2, b1, b2

(* Two tabs of one browser, or a tab of each of two.                        *)
OneOrTwo == {[t \in Tabs |-> b1], [t \in Tabs |-> IF t = t1 THEN b1 ELSE b2]}
=============================================================================
