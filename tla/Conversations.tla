---------------------------- MODULE Conversations ----------------------------
(***************************************************************************)
(* What the starter's chat promises (templates/starter/app/routes/chat.tsx, *)
(* "Session isolation" and "Anonymous ownership"): a conversation is its    *)
(* owner's for ever, nobody else has it in a list or on a screen, what a    *)
(* user says in it is said by somebody who looks at it, and its messages go *)
(* only when it is out of every list or at the wish of somebody who looks   *)
(* at it.  ChatSessions implements this.                                    *)
(***************************************************************************)
EXTENDS Sequences

CONSTANTS
    Owners,     \* values of the chat-owner cookie
    Sessions,   \* ids of sessions
    Roles,      \* who says a message
    Nobody

VARIABLES
    by,         \* the owner of each conversation
    listed,     \* <<o, s>>: s is in the list of o
    viewed,     \* <<o, s>>: a page loaded for o shows s
    said        \* the messages of each conversation

vars == <<by, listed, viewed, said>>

Own == {p \in Owners \X Sessions : by[p[2]] = p[1]}

Init ==
    /\ by = [s \in Sessions |-> Nobody]
    /\ listed = {}
    /\ viewed = {}
    /\ said = [s \in Sessions |-> <<>>]

Begin(o, s) ==
    /\ by[s] = Nobody
    /\ by' = [by EXCEPT ![s] = o]
    /\ listed' = listed \cup {<<o, s>>}
    /\ UNCHANGED <<viewed, said>>

End(o, s) ==
    /\ listed' = listed \ {<<o, s>>}
    /\ UNCHANGED <<by, viewed, said>>

\* Pages are opened, left and reloaded.
Look ==
    /\ viewed' \in SUBSET Own
    /\ UNCHANGED <<by, listed, said>>

\* A user says something to what is on the screen; an answer may come later.
Say(s, m) ==
    /\ by[s] # Nobody
    /\ m = "user" => \E o \in Owners : <<o, s>> \in viewed
    /\ said' = [said EXCEPT ![s] = Append(@, m)]
    /\ UNCHANGED <<by, listed, viewed>>

Forget(s) ==
    /\ by[s] # Nobody
    /\ \A o \in Owners : <<o, s>> \notin listed
    /\ said' = [said EXCEPT ![s] = <<>>]
    /\ UNCHANGED <<by, listed, viewed>>

Clear(o, s) ==
    /\ <<o, s>> \in viewed
    /\ said' = [said EXCEPT ![s] = <<>>]
    /\ UNCHANGED <<by, listed, viewed>>

Next ==
    \/ Look
    \/ \E s \in Sessions :
        \/ Forget(s)
        \/ \E m \in Roles : Say(s, m)
        \/ \E o \in Owners : Begin(o, s) \/ End(o, s) \/ Clear(o, s)

Spec == Init /\ [][Next]_vars
=============================================================================
