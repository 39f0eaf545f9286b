---------------------------- MODULE ChatSessions ----------------------------
(***************************************************************************)
(* The chat of the starter template (create-worker/templates/starter):     *)
(* app/routes/chat.tsx in the tabs of browsers, workers/app.ts that gives a *)
(* browser its chat-owner cookie, one ChatSessionsDO for each owner (the    *)
(* index) and one Chat for each session (the messages).                     *)
(*                                                                         *)
(* A request carries the cookie of the moment it is sent and is handled     *)
(* later; handling it and getting the answer are one step.  The router, the *)
(* connection of useAgentChat and the store behind this.messages are        *)
(* outside the repository and are modelled from how chat.tsx uses them.     *)
(***************************************************************************)
EXTENDS Naturals, Sequences, FiniteSets

CONSTANTS
    Tabs,
    Browsers,
    Profiles,   \* which browser each tab may be of
    Owners,     \* values crypto.randomUUID gives to chat-owner cookies
    Sessions,   \* values it gives to sessions
    MaxMsgs,    \* bound on the messages of a conversation
    MaxClicks,  \* bound on what the users do
    MaxActs,    \* bound on the requests of fetchers under way
    Nobody,     \* no cookie, no owner
    New,        \* /chat without ?session
    Idle,       \* a tab that loads nothing
    Closed      \* a tab that shows no chat

ASSUME Distinct ==
    /\ Nobody \notin Owners
    /\ New \notin Sessions
    /\ Profiles \subseteq [Tabs -> Browsers]
    /\ MaxMsgs \in Nat
    /\ MaxClicks \in Nat
    /\ MaxActs \in Nat
    /\ Idle \notin [to : Sessions \cup {New}, as : Owners \cup {Nobody}]
    /\ Closed \notin [at : Sessions, as : Owners, list : SUBSET Sessions,
                      first : Nat, titleSet : BOOLEAN]

VARIABLES
    rows,       \* rows[o]: the ids in the table of the ChatSessionsDO of o
    madeBy,     \* madeBy[s]: whose loader made s; a history, no code reads it
    chat,       \* chat[s]: the roles of this.messages of Chat s
    answering,  \* <<t, s>>: s answers a message of t
    browser,    \* browser[t]: the browser tab t is of
    cookie,     \* cookie[b]: the chat-owner of browser b
    page,       \* page[t]: what ChatPage shows in t
    nav,        \* nav[t]: the request t waits for
    late,       \* owners for whom an abandoned request may still be handled
    acts,       \* requests of fetchers, each at its next step
    heard,      \* tabs with a message since they opened their session; history
    left,       \* deleted conversations known to keep messages; history
    clicks      \* what the users did so far, a count

index == <<rows, madeBy>>
talk == <<chat, answering, left>>
vars == <<rows, madeBy, chat, answering, browser, cookie, page, nav, late,
          acts, heard, left, clicks>>

Roles == {"user", "assistant"}

Request == [to : Sessions \cup {New}, as : Owners \cup {Nobody}]
Page == [at : Sessions, as : Owners, list : SUBSET Sessions, first : Nat,
         titleSet : BOOLEAN]
Act == [tab : Tabs, id : Sessions, as : Owners,
        step : {"delete", "wipe", "title"}, live : BOOLEAN]

Shown == {t \in Tabs : page[t] # Closed}
Used == {s \in Sessions : madeBy[s] # Nobody}
Gone(s) == \A o \in Owners : s \notin rows[o]
Cookie(t) == cookie[browser[t]]

Init ==
    /\ rows = [o \in Owners |-> {}]
    /\ madeBy = [s \in Sessions |-> Nobody]
    /\ chat = [s \in Sessions |-> <<>>]
    /\ answering = {}
    /\ browser \in Profiles
    /\ cookie = [b \in Browsers |-> Nobody]
    /\ page = [t \in Tabs |-> Closed]
    /\ nav = [t \in Tabs |-> Idle]
    /\ late = {}
    /\ acts = {}
    /\ heard = {}
    /\ left = {}
    /\ clicks = 0

Click == clicks < MaxClicks /\ clicks' = clicks + 1

-----------------------------------------------------------------------------
(* Navigation.                                                             *)

\* The tab waits for another request; one for a new session that it no longer
\* waits for may have been sent.  (Sent without a cookie it would make an index for
\* an owner nobody hears of.)
Goes(t, to) ==
    /\ nav' = [nav EXCEPT ![t] = [to |-> to, as |-> Cookie(t)]]
    /\ late' = IF nav[t] # Idle /\ nav[t].to = New
               THEN late \cup ({nav[t].as} \ {Nobody})
               ELSE late

\* "New Chat", a click in the list, a bookmark or a shared link.
navigate(t, to) ==
    /\ Click
    /\ to \in Used \cup {New}
    /\ Goes(t, to)
    /\ UNCHANGED <<index, talk, browser, cookie, page, acts, heard>>

\* An owner no part of the system has heard of.
Unknown(o) ==
    /\ \A s \in Sessions : madeBy[s] # o
    /\ \A b \in Browsers : cookie[b] # o
    /\ \A t \in Tabs : (nav[t] # Idle => nav[t].as # o)
                       /\ (page[t] # Closed => page[t].as # o)
    /\ \A a \in acts : a.as # o
    /\ o \notin late

\* The owner the worker handles a request for, with the cookie it leaves.
OwnerOf(t, o) ==
    /\ IF nav[t].as = Nobody THEN Unknown(o) ELSE o = nav[t].as
    /\ cookie' = IF nav[t].as = Nobody
                 THEN [cookie EXCEPT ![browser[t]] = o] ELSE cookie

\* ensureSession with a new id.
ensureSession(o, s) ==
    /\ madeBy[s] = Nobody
    /\ rows' = [rows EXCEPT ![o] = @ \cup {s}]
    /\ madeBy' = [madeBy EXCEPT ![s] = o]

Redirect(t, to, o) == nav' = [nav EXCEPT ![t] = [to |-> to, as |-> o]]

LoaderNew(t, o, s) ==
    /\ nav[t] # Idle
    /\ nav[t].to = New
    /\ OwnerOf(t, o)
    /\ ensureSession(o, s)
    /\ Redirect(t, s, o)
    /\ UNCHANGED <<talk, browser, page, late, acts, heard, clicks>>

(* Mutated form of isOwned: a link claims its session. *)
ClaimedNow(o, s) == madeBy[s] # Nobody

isOwned(o, s) == s \in rows[o]

(* Mutated form of Opens: no effect on [sessionId]. *)
OpensUnreset(t, s, o) ==
    IF page[t] # Closed
    THEN [page[t] EXCEPT !.at = s, !.as = o, !.list = rows[o]]
    ELSE [at |-> s, as |-> o, list |-> rows[o], first |-> Len(chat[s]),
          titleSet |-> FALSE]

\* What the page of a session starts with; a page that showed it already keeps
\* its hooks.
Opens(t, s, o) ==
    IF page[t] # Closed /\ page[t].at = s
    THEN [page[t] EXCEPT !.as = o, !.list = rows[o]]
    ELSE [at |-> s, as |-> o, list |-> rows[o], first |-> Len(chat[s]),
          titleSet |-> FALSE]

LoaderShow(t, o) ==
    /\ nav[t] # Idle
    /\ nav[t].to # New
    /\ OwnerOf(t, o)
    /\ isOwned(o, nav[t].to)
    /\ page' = [page EXCEPT ![t] = Opens(t, nav[t].to, o)]
    /\ heard' = IF page[t] # Closed /\ page[t].at = nav[t].to
                THEN heard ELSE heard \ {t}
    /\ nav' = [nav EXCEPT ![t] = Idle]
    /\ UNCHANGED <<index, talk, browser, late, acts, clicks>>

(* Mutated form of Elsewhere: ?session is kept. *)
SameAgain(s) == s

\* Where a session that is not in the list is sent.
Elsewhere(s) == New

LoaderTurnAway(t, o) ==
    /\ nav[t] # Idle
    /\ nav[t].to # New
    /\ OwnerOf(t, o)
    /\ ~isOwned(o, nav[t].to)
    /\ Redirect(t, Elsewhere(nav[t].to), o)
    /\ UNCHANGED <<index, talk, browser, page, late, acts, heard, clicks>>

\* A request for a new session whose tab went elsewhere is handled, or was lost.
LateLoader(o) ==
    /\ o \in late
    /\ late' = late \ {o}
    /\ \/ \E s \in Sessions : ensureSession(o, s)
       \/ UNCHANGED index
    /\ UNCHANGED <<talk, browser, cookie, page, nav, acts, heard, clicks>>

-----------------------------------------------------------------------------
(* The fetcher of the sidebar: one for each tab, whose next request         *)
(* supersedes the one under way.                                            *)

(* Mutated form of Superseded: a fetcher for each row of the sidebar. *)
EachItsOwn(t) == acts

Superseded(t) == {IF a.tab = t THEN [a EXCEPT !.live = FALSE] ELSE a : a \in acts}

Submits(t, id, step) ==
    acts' = Superseded(t) \cup {[tab |-> t, id |-> id, as |-> Cookie(t),
                                 step |-> step, live |-> TRUE]}

\* The rows of the sidebar, each with its buttons.
sortedSessions(t) == page[t].list

\* handleDeleteSession: the active session is left for a new one.
handleDeleteSession(t, id) ==
    /\ Click
    /\ t \in Shown
    /\ id \in sortedSessions(t)
    /\ Cardinality(acts) < MaxActs
    /\ Submits(t, id, "delete")
    /\ IF id = page[t].at THEN Goes(t, New) ELSE UNCHANGED <<nav, late>>
    /\ UNCHANGED <<index, talk, browser, cookie, page, heard>>

\* The title effect of a tab whose session has n messages: a request for a title
\* as soon as there are more than when the session was opened.
Titles(t, n) ==
    IF ~page[t].titleSet /\ n > page[t].first
    THEN /\ Submits(t, page[t].at, "title")
         /\ page' = [page EXCEPT ![t].titleSet = TRUE]
    ELSE UNCHANGED <<acts, page>>

\* The answer to a request arrives: the loaders of what the tab shows, or waits
\* for, run again; nobody waits for the answer to a superseded one.
Replies(a) ==
    /\ acts' = acts \ {a}
    /\ IF a.live /\ nav[a.tab] # Idle THEN Goes(a.tab, nav[a.tab].to)
       ELSE IF a.live /\ a.tab \in Shown THEN Goes(a.tab, page[a.tab].at)
       ELSE UNCHANGED <<nav, late>>

(* Mutated form of deleteSession: changes() of another statement. *)
ChangesOfRead(o, id) == FALSE

\* deleteSession: whether a row was removed.
deleteSession(o, id) == id \in rows[o]

ActDelete(a) ==
    /\ a \in acts
    /\ a.step = "delete"
    /\ rows' = [rows EXCEPT ![a.as] = @ \ {a.id}]
    /\ IF deleteSession(a.as, a.id)
       THEN /\ acts' = (acts \ {a}) \cup {[a EXCEPT !.step = "wipe"]}
            /\ UNCHANGED <<nav, late>>
       ELSE Replies(a)
    /\ UNCHANGED <<madeBy, talk, browser, cookie, page, heard, clicks>>

deleteAllMessages(id) == chat' = [chat EXCEPT ![id] = <<>>]

\* The messages of the row that went; the failure of the call is swallowed.
ActWipe(a) ==
    /\ a \in acts
    /\ a.step = "wipe"
    /\ \/ /\ deleteAllMessages(a.id)
          /\ left' = left \ {a.id}
       \/ /\ left' = left \cup {a.id}
          /\ UNCHANGED chat
    /\ Replies(a)
    /\ UNCHANGED <<index, answering, browser, cookie, page, heard, clicks>>

(* Mutated form of updateTitle: INSERT OR REPLACE. *)
Upserted(o, id) == [rows EXCEPT ![o] = @ \cup {id}]

\* updateTitle changes a row that is there; titles are left out.
updateTitle(o, id) == rows

ActTitle(a) ==
    /\ a \in acts
    /\ a.step = "title"
    /\ rows' = updateTitle(a.as, a.id)
    /\ Replies(a)
    /\ UNCHANGED <<madeBy, talk, browser, cookie, page, heard, clicks>>

\* A request is lost, or its handler is cancelled between two steps when the tab
\* no longer waits for it.  A tab that waits shows an error instead of a chat.
ActLost(a) ==
    /\ a \in acts
    /\ acts' = acts \ {a}
    /\ left' = IF a.step = "wipe" THEN left \cup {a.id} ELSE left
    /\ page' = IF a.live THEN [page EXCEPT ![a.tab] = Closed] ELSE page
    /\ UNCHANGED <<index, chat, answering, browser, cookie, nav, late, heard, clicks>>

-----------------------------------------------------------------------------
(* Messages.                                                               *)

\* The messages the tab shows.
messages(t) == chat[page[t].at]

\* isLoading: the tab waits for the answer to its last message.
isLoading(t) == <<t, page[t].at>> \in answering

\* A message is stored and every tab that shows the session hears it.
Says(s, m) ==
    /\ Len(chat[s]) < MaxMsgs
    /\ chat' = [chat EXCEPT ![s] = Append(@, m)]
    /\ heard' = heard \cup {t \in Shown : page[t].at = s}
    /\ left' = IF Gone(s) THEN left \cup {s} ELSE left

\* onSubmit: the message is on the screen, and counted; onChatMessage has it and
\* asks the model, or the connection is gone.
onSubmit(t) ==
    /\ Click
    /\ t \in Shown
    /\ ~isLoading(t)
    /\ Cardinality(acts) < MaxActs
    /\ Titles(t, Len(messages(t)) + 1)
    /\ \/ /\ Says(page[t].at, "user")
          /\ answering' = answering \cup {<<t, page[t].at>>}
       \/ /\ heard' = heard \cup {t}
          /\ UNCHANGED talk
    /\ UNCHANGED <<index, browser, cookie, nav, late>>

\* A tab sees what others said.
Sync(t) ==
    /\ t \in Shown
    /\ ~page[t].titleSet
    /\ Cardinality(acts) < MaxActs
    /\ \E i \in 1..Len(messages(t)) : messages(t)[i] = "user"
    /\ Len(messages(t)) > page[t].first
    /\ Titles(t, Len(messages(t)))
    /\ UNCHANGED <<index, talk, browser, cookie, nav, late, heard, clicks>>

\* The whole answer is stored, or the model ends with an error.
onFinish(t, s) ==
    /\ <<t, s>> \in answering
    /\ answering' = answering \ {<<t, s>>}
    /\ \/ Says(s, "assistant")
       \/ UNCHANGED <<chat, heard, left>>
    /\ UNCHANGED <<index, browser, cookie, page, nav, late, acts, clicks>>

\* "Clear": the messages go, the counts of the tabs stay.
clearHistory(t) ==
    /\ Click
    /\ t \in Shown
    /\ chat' = [chat EXCEPT ![page[t].at] = <<>>]
    /\ left' = left \ {page[t].at}
    /\ UNCHANGED <<index, answering, browser, cookie, page, nav, late, acts,
                   heard>>

-----------------------------------------------------------------------------

Loads(t) ==
    \E o \in Owners :
        \/ LoaderShow(t, o)
        \/ LoaderTurnAway(t, o)
        \/ \E s \in Sessions : LoaderNew(t, o, s)

Next ==
    \/ \E t \in Tabs :
        \/ Loads(t)
        \/ \E to \in Sessions \cup {New} : navigate(t, to)
        \/ \E id \in Sessions : handleDeleteSession(t, id)
        \/ onSubmit(t)
        \/ Sync(t)
        \/ clearHistory(t)
        \/ \E s \in Sessions : onFinish(t, s)
    \/ \E o \in Owners : LateLoader(o)
    \/ \E a \in acts : ActDelete(a) \/ ActWipe(a) \/ ActTitle(a) \/ ActLost(a)

Spec == Init /\ [][Next]_vars

\* The worker answers the requests tabs wait for, and those of fetchers end.
FairSpec ==
    /\ Spec
    /\ \A t \in Tabs : WF_vars(Loads(t))

-----------------------------------------------------------------------------

\* Types, and one fetcher for each tab: of the requests a tab sent with it
\* (chat.tsx, ChatWithSidebar), it waits for the answer to one at most.
TypeOK ==
    /\ rows \in [Owners -> SUBSET Sessions]
    /\ madeBy \in [Sessions -> Owners \cup {Nobody}]
    /\ chat \in [Sessions -> Seq(Roles)]
    /\ answering \in SUBSET (Tabs \X Sessions)
    /\ browser \in [Tabs -> Browsers]
    /\ cookie \in [Browsers -> Owners \cup {Nobody}]
    /\ page \in [Tabs -> Page \cup {Closed}]
    /\ nav \in [Tabs -> Request \cup {Idle}]
    /\ late \in SUBSET Owners
    /\ acts \in SUBSET Act
    /\ heard \in SUBSET Tabs
    /\ left \in SUBSET Sessions
    /\ clicks \in 0..MaxClicks
    /\ \A a, b \in acts : a.live /\ b.live /\ a.tab = b.tab => a = b

\* What a deleted conversation said is gone ("so the conversation is fully
\* removed", the delete branch of the action), once its request has ended and but
\* for a wipe that failed and for what is said to it after the row is gone.
Removed ==
    \A s \in Used :
        Gone(s) /\ (\A a \in acts : a.id = s => a.step # "wipe") /\ s \notin left
            => chat[s] = <<>>

\* A title is asked for only when something was said since the tab opened the
\* session, "not when reopening an existing session" (the effect on messages).
TitleEarned ==
    [][\A a \in acts' \ acts : a.step = "title" /\ a.live => a.tab \in heard']_vars

\* The chat keeps what Conversations promises: a conversation stays with the owner
\* it was made for, nobody else lists it, looks at it, talks in it or clears it,
\* whatever the order of loaders, deletions, titles and answers.
C == INSTANCE Conversations WITH
    by <- madeBy,
    listed <- {p \in Owners \X Sessions : p[2] \in rows[p[1]]},
    viewed <- {<<page[t].as, page[t].at>> : t \in Shown},
    said <- chat

Conversation == C!Spec

\* Redirects come to an end: a tab that waits gets a page, unless somebody keeps
\* it going by navigating, deleting or asking for a title (loader: an unknown id
\* redirects to a new chat, that to the chat it made), or the ids of the instance
\* are used up.
Settles ==
    \A t \in Tabs : nav[t] # Idle ~> nav[t] = Idle \/ Used = Sessions
=============================================================================
