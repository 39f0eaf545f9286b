-------------------------- MODULE ChatSessionsProofs --------------------------
(***************************************************************************)
(* Theorems about ChatSessions: its types, that a title is asked for only   *)
(* after something was said, that it implements Conversations, and that     *)
(* what a deleted conversation said is gone.                                *)
(***************************************************************************)
EXTENDS ChatSessions, TLAPS

\* Whoever shows a chat, or asked for one with a cookie, has a cookie.
Known ==
    \A t \in Tabs :
        t \in Shown \/ (nav[t] # Idle /\ nav[t].as # Nobody) => Cookie(t) # Nobody

\* Lists, pages, answers and wipes are of conversations somebody made; a page is of
\* the owner's, and a wipe of one in nobody's list.
Owned ==
    /\ \A o \in Owners : \A s \in rows[o] : madeBy[s] = o
    /\ \A t \in Shown : madeBy[page[t].at] = page[t].as
    /\ \A p \in answering : madeBy[p[2]] # Nobody
    /\ \A a \in acts :
        a.step = "wipe" => madeBy[a.id] # Nobody /\ Gone(a.id)

IInv == TypeOK /\ Known /\ Owned

-----------------------------------------------------------------------------
(* What the parts of the actions do to the types.                          *)

LEMMA CookieTyped ==
    ASSUME TypeOK, Known, NEW t \in Tabs
    PROVE  /\ Cookie(t) \in Owners \cup {Nobody}
           /\ t \in Shown => Cookie(t) \in Owners
  BY DEF TypeOK, Known, Cookie

LEMMA NavTyped ==
    ASSUME TypeOK, NEW t \in Tabs, nav[t] # Idle
    PROVE  nav[t] \in Request /\ nav[t].to \in Sessions \cup {New}
           /\ nav[t].as \in Owners \cup {Nobody}
  BY DEF TypeOK, Request

LEMMA PageTyped ==
    ASSUME TypeOK, NEW t \in Shown
    PROVE  t \in Tabs /\ page[t] \in Page /\ page[t].at \in Sessions
           /\ page[t].as \in Owners /\ page[t].list \in SUBSET Sessions
           /\ page[t].first \in Nat
  BY DEF TypeOK, Shown, Page

LEMMA ActTyped ==
    ASSUME TypeOK, NEW a \in acts
    PROVE  a \in Act /\ a.tab \in Tabs /\ a.id \in Sessions /\ a.as \in Owners
  BY DEF TypeOK, Act

LEMMA GoesTyped ==
    ASSUME TypeOK, Known, NEW t \in Tabs, NEW to \in Sessions \cup {New}, Goes(t, to)
    PROVE  /\ nav' \in [Tabs -> Request \cup {Idle}]
           /\ late' \in SUBSET Owners
           /\ nav'[t] # Idle
           /\ nav'[t].as = Cookie(t)
           /\ \A u \in Tabs \ {t} : nav'[u] = nav[u]
<1>1. [to |-> to, as |-> Cookie(t)] \in Request
  BY CookieTyped DEF Request
<1>2. nav' = [nav EXCEPT ![t] = [to |-> to, as |-> Cookie(t)]]
  BY DEF Goes
<1>3. [to |-> to, as |-> Cookie(t)] # Idle
  BY <1>1, Distinct DEF Distinct, Request
<1>4. late' \in SUBSET Owners
  <2>1. CASE nav[t] # Idle /\ nav[t].to = New
    BY <2>1, NavTyped DEF Goes, TypeOK
  <2>2. CASE ~(nav[t] # Idle /\ nav[t].to = New)
    BY <2>2 DEF Goes, TypeOK
  <2> QED
    BY <2>1, <2>2
<1> QED
  BY <1>1, <1>2, <1>3, <1>4 DEF TypeOK

LEMMA SubmitsTyped ==
    ASSUME TypeOK, Known, NEW t \in Shown, NEW id \in Sessions,
           NEW step \in {"delete", "title"}, Submits(t, id, step)
    PROVE  /\ acts' \in SUBSET Act
           /\ \A a, b \in acts' : a.live /\ b.live /\ a.tab = b.tab => a = b
           /\ \A a \in acts' : a.step = "wipe" =>
                \E b \in acts : b.step = "wipe" /\ b.id = a.id
           /\ \A a \in acts' \ acts : a.live => a.tab = t /\ a.step = step
<1> DEFINE new == [tab |-> t, id |-> id, as |-> Cookie(t), step |-> step, live |-> TRUE]
<1>1. new \in Act /\ new.tab = t /\ new.step = step /\ new.live /\ step # "wipe"
  BY CookieTyped, PageTyped DEF Act
<1>2. ASSUME NEW a \in Superseded(t)
      PROVE  /\ a \in Act
             /\ \E b \in acts : b.step = a.step /\ b.id = a.id /\ b.tab = a.tab
             /\ a.live => a \in acts /\ a.tab # t
  <2>1. PICK b \in acts : a = IF b.tab = t THEN [b EXCEPT !.live = FALSE] ELSE b
    BY DEF Superseded
  <2>2. b \in Act
    BY ActTyped
  <2>3. CASE b.tab = t
    BY <2>1, <2>2, <2>3 DEF Act
  <2>4. CASE b.tab # t
    BY <2>1, <2>2, <2>4
  <2> QED
    BY <2>3, <2>4
<1>3. acts' = Superseded(t) \cup {new}
  BY DEF Submits
<1>4. \A a, b \in acts : a.live /\ b.live /\ a.tab = b.tab => a = b
  BY DEF TypeOK
<1> HIDE DEF new
<1>5. ASSUME NEW a \in acts', NEW b \in acts', a.live, b.live, a.tab = b.tab
      PROVE  a = b
  BY <1>1, <1>2, <1>3, <1>4, <1>5
<1>6. acts' \in SUBSET Act
  BY <1>1, <1>2, <1>3
<1>7. ASSUME NEW a \in acts', a.step = "wipe"
      PROVE  \E b \in acts : b.step = "wipe" /\ b.id = a.id
  BY <1>1, <1>2, <1>3, <1>7
<1>8. ASSUME NEW a \in acts' \ acts, a.live
      PROVE  a.tab = t /\ a.step = step
  BY <1>1, <1>2, <1>3, <1>8
<1> QED
  BY <1>5, <1>6, <1>7, <1>8

LEMMA RepliesTyped ==
    ASSUME TypeOK, Known, NEW a \in acts, Replies(a)
    PROVE  /\ acts' = acts \ {a}
           /\ nav' \in [Tabs -> Request \cup {Idle}]
           /\ late' \in SUBSET Owners
           /\ \A u \in Tabs : nav'[u] = nav[u]
                  \/ (nav'[u] # Idle /\ nav'[u].as = Cookie(u))
<1>1. a.tab \in Tabs
  BY ActTyped
<1>2. CASE a.live /\ nav[a.tab] # Idle
  <2>1. nav[a.tab].to \in Sessions \cup {New}
    BY <1>1, <1>2, NavTyped
  <2>2. Goes(a.tab, nav[a.tab].to)
    BY <1>2 DEF Replies
  <2> QED
    BY <1>1, <2>1, <2>2, GoesTyped DEF Replies
<1>3. CASE a.live /\ nav[a.tab] = Idle /\ a.tab \in Shown
  <2>1. page[a.tab].at \in Sessions
    BY <1>3, PageTyped
  <2>2. Goes(a.tab, page[a.tab].at)
    BY <1>3 DEF Replies
  <2> QED
    BY <1>1, <2>1, <2>2, GoesTyped DEF Replies
<1>4. CASE ~a.live \/ (nav[a.tab] = Idle /\ a.tab \notin Shown)
  BY <1>4 DEF Replies, TypeOK
<1> QED
  BY <1>2, <1>3, <1>4

LEMMA OwnerOfTyped ==
    ASSUME TypeOK, Known, NEW t \in Tabs, nav[t] # Idle, NEW o \in Owners, OwnerOf(t, o)
    PROVE  /\ cookie' \in [Browsers -> Owners \cup {Nobody}]
           /\ \A u \in Tabs : cookie[browser[u]] # Nobody => cookie'[browser[u]] # Nobody
           /\ cookie'[browser[t]] # Nobody
<1>1. browser[t] \in Browsers /\ cookie \in [Browsers -> Owners \cup {Nobody}]
      /\ \A u \in Tabs : browser[u] \in Browsers
  BY DEF TypeOK
<1>2. o # Nobody
  BY Distinct DEF Distinct
<1>3. CASE nav[t].as = Nobody
  BY <1>1, <1>2, <1>3 DEF OwnerOf
<1>4. CASE nav[t].as # Nobody
  <2>1. cookie[browser[t]] # Nobody
    BY <1>4 DEF Known, Cookie
  <2> QED
    BY <1>1, <1>4, <2>1 DEF OwnerOf
<1> QED
  BY <1>3, <1>4

LEMMA RedirectTyped ==
    ASSUME TypeOK, NEW t \in Tabs, NEW to \in Sessions \cup {New}, NEW o \in Owners,
           Redirect(t, to, o)
    PROVE  /\ nav' \in [Tabs -> Request \cup {Idle}]
           /\ \A u \in Tabs \ {t} : nav'[u] = nav[u]
<1>1. [to |-> to, as |-> o] \in Request
  BY DEF Request
<1> QED
  BY <1>1 DEF Redirect, TypeOK

LEMMA MadeTyped ==
    ASSUME TypeOK, Owned, NEW o \in Owners, NEW s \in Sessions, ensureSession(o, s)
    PROVE  /\ rows' \in [Owners -> SUBSET Sessions]
           /\ madeBy' \in [Sessions -> Owners \cup {Nobody}]
           /\ \A x \in Owners : \A y \in rows'[x] : madeBy'[y] = x
           /\ \A y \in Sessions : madeBy[y] # Nobody =>
                /\ madeBy'[y] = madeBy[y]
                /\ \A x \in Owners : y \in rows'[x] => y \in rows[x]
<1>1. /\ madeBy[s] = Nobody
      /\ rows' = [rows EXCEPT ![o] = @ \cup {s}]
      /\ madeBy' = [madeBy EXCEPT ![s] = o]
      /\ rows \in [Owners -> SUBSET Sessions]
      /\ madeBy \in [Sessions -> Owners \cup {Nobody}]
      /\ \A x \in Owners : \A y \in rows[x] : madeBy[y] = x
      /\ Nobody \notin Owners
  BY Distinct DEF TypeOK, Owned, ensureSession, Distinct
<1>2. /\ rows' \in [Owners -> SUBSET Sessions]
      /\ madeBy' \in [Sessions -> Owners \cup {Nobody}]
  BY <1>1
<1>3. ASSUME NEW x \in Owners, NEW y \in rows'[x]
      PROVE  madeBy'[y] = x
  <2>1. CASE y = s /\ x = o
    BY <1>1, <2>1
  <2>2. CASE ~(y = s /\ x = o)
    <3>1. y \in rows[x]
      BY <1>1, <2>2
    <3>2. y # s
      BY <1>1, <3>1
    <3> QED
      BY <1>1, <3>1, <3>2
  <2> QED
    BY <2>1, <2>2
<1>4. ASSUME NEW y \in Sessions, madeBy[y] # Nobody
      PROVE  /\ madeBy'[y] = madeBy[y]
             /\ \A x \in Owners : y \in rows'[x] => y \in rows[x]
  BY <1>1, <1>4
<1> QED
  BY <1>2, <1>3, <1>4

\* With the tables of an owner larger by a new conversation, the rest of Owned stays.
LEMMA MadeOwned ==
    ASSUME TypeOK, Owned, NEW o \in Owners, NEW s \in Sessions, ensureSession(o, s),
           UNCHANGED <<page, answering, acts>>
    PROVE  Owned'
<1>1. \A t \in Shown : page[t].at \in Sessions /\ page[t].as \in Owners
      /\ madeBy[page[t].at] = page[t].as
  BY PageTyped DEF Owned
<1>2. \A p \in answering : p[2] \in Sessions /\ madeBy[p[2]] # Nobody
  BY DEF TypeOK, Owned
<1>3. \A a \in acts : a.id \in Sessions
        /\ (a.step = "wipe" => madeBy[a.id] # Nobody /\ Gone(a.id))
  BY ActTyped DEF Owned
<1>4. Nobody \notin Owners
  BY Distinct DEF Distinct
<1>5. \A t \in Shown' : madeBy'[page'[t].at] = page'[t].as
  <2>1. SUFFICES ASSUME NEW t \in Shown PROVE madeBy'[page[t].at] = page[t].as
    BY DEF Shown
  <2> QED
    BY <1>1, <1>4, <2>1, MadeTyped
<1>6. \A p \in answering' : madeBy'[p[2]] # Nobody
  BY <1>2, MadeTyped
<1>7. ASSUME NEW a \in acts', a.step = "wipe"
      PROVE  madeBy'[a.id] # Nobody /\ Gone(a.id)'
  BY <1>3, <1>7, MadeTyped DEF Gone
<1> QED
  BY <1>5, <1>6, <1>7, MadeTyped DEF Owned

LEMMA SaysTyped ==
    ASSUME TypeOK, NEW s \in Sessions, NEW m \in Roles, Says(s, m)
    PROVE  /\ chat' \in [Sessions -> Seq(Roles)]
           /\ heard' \in SUBSET Tabs
           /\ left' \in SUBSET Sessions
<1>1. chat[s] \in Seq(Roles)
  BY DEF TypeOK
<1>2. Append(chat[s], m) \in Seq(Roles)
  BY <1>1
<1> QED
  BY <1>2 DEF TypeOK, Says, Shown

LEMMA TitlesTyped ==
    ASSUME TypeOK, Known, NEW t \in Shown, NEW n \in Nat, Titles(t, n)
    PROVE  /\ page' \in [Tabs -> Page \cup {Closed}]
           /\ \A u \in Tabs : page'[u] = page[u]
                \/ (page[u] # Closed /\ page'[u] \in Page /\ page'[u].at = page[u].at
                    /\ page'[u].as = page[u].as)
           /\ acts' \in SUBSET Act
           /\ \A a, b \in acts' : a.live /\ b.live /\ a.tab = b.tab => a = b
           /\ \A a \in acts' : a.step = "wipe" =>
                \E b \in acts : b.step = "wipe" /\ b.id = a.id
           /\ \A a \in acts' \ acts : a.live => a.tab = t
<1>1. CASE ~page[t].titleSet /\ n > page[t].first
  <2>1. Submits(t, page[t].at, "title") /\ page[t].at \in Sessions /\ t \in Tabs
        /\ page[t] \in Page /\ page[t] # Closed
    BY <1>1, PageTyped DEF Titles, Shown
  <2>2. page' = [page EXCEPT ![t] = [page[t] EXCEPT !.titleSet = TRUE]]
    BY <1>1 DEF Titles
  <2>3. [page[t] EXCEPT !.titleSet = TRUE] \in Page
    BY <2>1 DEF Page
  <2>4. /\ page' \in [Tabs -> Page \cup {Closed}]
        /\ \A u \in Tabs : page'[u] = page[u]
                \/ (page[u] # Closed /\ page'[u] \in Page /\ page'[u].at = page[u].at
                    /\ page'[u].as = page[u].as)
    BY <2>1, <2>2, <2>3 DEF TypeOK, Page
  <2> QED
    BY <2>1, <2>4, SubmitsTyped
<1>2. CASE ~(~page[t].titleSet /\ n > page[t].first)
  BY <1>2 DEF Titles, TypeOK
<1> QED
  BY <1>1, <1>2

-----------------------------------------------------------------------------
(* The invariant, action by action.                                        *)

LEMMA NavigateKeeps ==
    ASSUME IInv, NEW t \in Tabs, NEW to \in Sessions \cup {New}, navigate(t, to)
    PROVE  IInv'
<1>1. TypeOK /\ Known /\ Owned /\ Goes(t, to)
  BY DEF IInv, navigate
<1>2. TypeOK'
  BY <1>1, GoesTyped, Distinct DEF navigate, TypeOK, index, talk, Click, Distinct
<1>3. ASSUME NEW u \in Tabs', u \in Shown' \/ (nav'[u] # Idle /\ nav'[u].as # Nobody)
      PROVE  Cookie(u)' # Nobody
  BY <1>1, <1>3, GoesTyped DEF Known, Cookie, Shown, navigate
<1>4. Owned'
  BY <1>1 DEF navigate, Owned, index, talk, Shown, Gone
<1> QED
  BY <1>2, <1>3, <1>4 DEF IInv, Known

LEMMA NewKeeps ==
    ASSUME IInv, NEW t \in Tabs, NEW o \in Owners, NEW s \in Sessions, LoaderNew(t, o, s)
    PROVE  IInv'
<1>1. TypeOK /\ Known /\ Owned /\ OwnerOf(t, o) /\ ensureSession(o, s) /\ nav[t] # Idle
      /\ Redirect(t, s, o)
  BY DEF IInv, LoaderNew
<1>2. TypeOK'
  <2>1. cookie' \in [Browsers -> Owners \cup {Nobody}]
    BY <1>1, OwnerOfTyped
  <2>2. nav' \in [Tabs -> Request \cup {Idle}]
    BY <1>1, RedirectTyped
  <2> QED
    BY <1>1, <2>1, <2>2, MadeTyped DEF LoaderNew, TypeOK, talk
<1>3. ASSUME NEW u \in Tabs', u \in Shown' \/ (nav'[u] # Idle /\ nav'[u].as # Nobody)
      PROVE  Cookie(u)' # Nobody
  <2>1. CASE u = t
    BY <1>1, <2>1, OwnerOfTyped DEF LoaderNew, Cookie
  <2>2. CASE u # t
    <3>1. nav'[u] = nav[u]
      BY <1>1, <2>2, RedirectTyped
    <3>2. Cookie(u) # Nobody
      BY <1>1, <1>3, <3>1 DEF Known, Shown, LoaderNew
    <3> QED
      BY <1>1, <3>2, OwnerOfTyped DEF LoaderNew, Cookie
  <2> QED
    BY <2>1, <2>2
<1>4. Owned'
  BY <1>1, MadeOwned DEF LoaderNew, talk
<1> QED
  BY <1>2, <1>3, <1>4 DEF IInv, Known

LEMMA OpensTyped ==
    ASSUME TypeOK, NEW t \in Tabs, NEW s \in Sessions, NEW o \in Owners
    PROVE  /\ Opens(t, s, o) \in Page
           /\ Opens(t, s, o).at = s
           /\ Opens(t, s, o).as = o
           /\ page[t] # Closed /\ page[t].at = s =>
                Opens(t, s, o).first = page[t].first
           /\ ~(page[t] # Closed /\ page[t].at = s) =>
                Opens(t, s, o).first = Len(chat[s])
<1>1. rows[o] \in SUBSET Sessions /\ Len(chat[s]) \in Nat
  BY DEF TypeOK
<1>2. CASE page[t] # Closed /\ page[t].at = s
  <2>1. page[t] \in Page
    BY <1>2, PageTyped DEF Shown
  <2>2. Opens(t, s, o) = [page[t] EXCEPT !.as = o, !.list = rows[o]]
    BY <1>2 DEF Opens
  <2> QED
    BY <1>1, <1>2, <2>1, <2>2 DEF Page
<1>3. CASE ~(page[t] # Closed /\ page[t].at = s)
  BY <1>1, <1>3 DEF Opens, Page
<1> QED
  BY <1>2, <1>3

LEMMA ShowKeeps ==
    ASSUME IInv, NEW t \in Tabs, NEW o \in Owners, LoaderShow(t, o)
    PROVE  IInv'
<1> DEFINE s == nav[t].to
<1>1. TypeOK /\ Known /\ Owned /\ OwnerOf(t, o) /\ nav[t] # Idle /\ s \in Sessions
      /\ s \in rows[o]
  BY NavTyped DEF IInv, LoaderShow, isOwned
<1>2. page' = [page EXCEPT ![t] = Opens(t, s, o)] /\ nav' = [nav EXCEPT ![t] = Idle]
      /\ Opens(t, s, o) \in Page
  BY <1>1, OpensTyped DEF LoaderShow
<1>3. TypeOK'
  <2>1. cookie' \in [Browsers -> Owners \cup {Nobody}]
    BY <1>1, OwnerOfTyped
  <2>2. heard' \in SUBSET Tabs
    BY <1>1 DEF LoaderShow, TypeOK
  <2> QED
    BY <1>1, <1>2, <2>1, <2>2 DEF LoaderShow, TypeOK, index, talk
<1>4. ASSUME NEW u \in Tabs', u \in Shown' \/ (nav'[u] # Idle /\ nav'[u].as # Nobody)
      PROVE  Cookie(u)' # Nobody
  <2>1. CASE u = t
    BY <1>1, <2>1, OwnerOfTyped DEF LoaderShow, Cookie
  <2>2. CASE u # t
    <3>1. Cookie(u) # Nobody
      BY <1>1, <1>2, <1>4, <2>2 DEF Known, Shown, TypeOK
    <3> QED
      BY <1>1, <3>1, OwnerOfTyped DEF LoaderShow, Cookie
  <2> QED
    BY <2>1, <2>2
<1>5. ASSUME NEW u \in Shown'
      PROVE  madeBy'[page'[u].at] = page'[u].as
  <2>1. CASE u = t
    <3>1. page'[u].at = s /\ page'[u].as = o
      BY <1>1, <1>2, <2>1, OpensTyped DEF TypeOK
    <3> QED
      BY <1>1, <3>1 DEF LoaderShow, Owned, index
  <2>2. CASE u # t
    BY <1>1, <1>2, <1>5, <2>2 DEF LoaderShow, Owned, index, Shown, TypeOK
  <2> QED
    BY <2>1, <2>2
<1>6. Owned'
  BY <1>1, <1>5 DEF LoaderShow, Owned, index, talk, Gone
<1> QED
  BY <1>3, <1>4, <1>6 DEF IInv, Known

LEMMA TurnAwayKeeps ==
    ASSUME IInv, NEW t \in Tabs, NEW o \in Owners, LoaderTurnAway(t, o)
    PROVE  IInv'
<1>1. TypeOK /\ Known /\ Owned /\ OwnerOf(t, o) /\ nav[t] # Idle /\ Redirect(t, New, o)
  BY DEF IInv, LoaderTurnAway, Elsewhere
<1>2. TypeOK'
  <2>1. cookie' \in [Browsers -> Owners \cup {Nobody}]
    BY <1>1, OwnerOfTyped
  <2>2. nav' \in [Tabs -> Request \cup {Idle}]
    BY <1>1, RedirectTyped
  <2> QED
    BY <1>1, <2>1, <2>2 DEF LoaderTurnAway, TypeOK, talk, index
<1>3. ASSUME NEW u \in Tabs', u \in Shown' \/ (nav'[u] # Idle /\ nav'[u].as # Nobody)
      PROVE  Cookie(u)' # Nobody
  <2>1. CASE u = t
    BY <1>1, <2>1, OwnerOfTyped DEF LoaderTurnAway, Cookie
  <2>2. CASE u # t
    <3>1. nav'[u] = nav[u]
      BY <1>1, <2>2, RedirectTyped
    <3>2. Cookie(u) # Nobody
      BY <1>1, <1>3, <3>1 DEF Known, Shown, LoaderTurnAway
    <3> QED
      BY <1>1, <3>2, OwnerOfTyped DEF LoaderTurnAway, Cookie
  <2> QED
    BY <2>1, <2>2
<1>4. Owned'
  BY <1>1 DEF LoaderTurnAway, Owned, index, talk, Shown, Gone
<1> QED
  BY <1>2, <1>3, <1>4 DEF IInv, Known

LEMMA LateKeeps ==
    ASSUME IInv, NEW o \in Owners, LateLoader(o)
    PROVE  IInv'
<1>1. TypeOK /\ Known /\ Owned
  BY DEF IInv
<1>2. Known'
  BY <1>1 DEF LateLoader, Known, Cookie, Shown
<1>3. CASE \E s \in Sessions : ensureSession(o, s)
  <2>1. PICK s \in Sessions : ensureSession(o, s)
    BY <1>3
  <2>2. TypeOK'
    BY <1>1, <2>1, MadeTyped DEF LateLoader, TypeOK, talk
  <2>3. Owned'
    BY <1>1, <2>1, MadeOwned DEF LateLoader, talk
  <2> QED
    BY <1>2, <2>2, <2>3 DEF IInv
<1>4. CASE UNCHANGED index
  <2>1. TypeOK'
    BY <1>1, <1>4 DEF LateLoader, TypeOK, talk, index
  <2>2. Owned'
    BY <1>1, <1>4 DEF LateLoader, Owned, index, talk, Shown, Gone
  <2> QED
    BY <1>2, <2>1, <2>2 DEF IInv
<1> QED
  BY <1>3, <1>4 DEF LateLoader

LEMMA DeleteSessionKeeps ==
    ASSUME IInv, NEW t \in Tabs, NEW id \in Sessions, handleDeleteSession(t, id)
    PROVE  IInv'
<1>1. TypeOK /\ Known /\ Owned /\ t \in Shown /\ Submits(t, id, "delete")
  BY DEF IInv, handleDeleteSession, sortedSessions
<1>2. /\ nav' \in [Tabs -> Request \cup {Idle}]
      /\ late' \in SUBSET Owners
      /\ \A u \in Tabs : nav'[u] = nav[u] \/ u = t
  <2>1. CASE id = page[t].at
    BY <1>1, <2>1, GoesTyped DEF handleDeleteSession, sortedSessions
  <2>2. CASE id # page[t].at
    BY <1>1, <2>2 DEF handleDeleteSession, sortedSessions, TypeOK
  <2> QED
    BY <2>1, <2>2
<1>3. TypeOK'
  BY <1>1, <1>2, SubmitsTyped, Distinct
     DEF handleDeleteSession, sortedSessions, TypeOK, index, talk, Click, Distinct
<1>4. ASSUME NEW u \in Tabs', u \in Shown' \/ (nav'[u] # Idle /\ nav'[u].as # Nobody)
      PROVE  Cookie(u)' # Nobody
  BY <1>1, <1>2, <1>4 DEF handleDeleteSession, sortedSessions, Known, Cookie, Shown
<1>5. ASSUME NEW a \in acts', a.step = "wipe"
      PROVE  madeBy'[a.id] # Nobody /\ Gone(a.id)'
  BY <1>1, <1>5, SubmitsTyped DEF handleDeleteSession, sortedSessions, Owned, index, Gone
<1>6. Owned'
  BY <1>1, <1>5 DEF handleDeleteSession, sortedSessions, Owned, index, talk, Shown
<1> QED
  BY <1>3, <1>4, <1>6 DEF IInv, Known

\* The answer to a request changes neither cookies nor pages.
LEMMA RepliesKnown ==
    ASSUME TypeOK, Known, NEW a \in acts, Replies(a), UNCHANGED <<browser, cookie, page>>
    PROVE  Known'
<1>1. ASSUME NEW u \in Tabs', u \in Shown' \/ (nav'[u] # Idle /\ nav'[u].as # Nobody)
      PROVE  Cookie(u)' # Nobody
  BY <1>1, RepliesTyped DEF Known, Cookie, Shown
<1> QED
  BY <1>1 DEF Known

LEMMA ActDeleteKeeps ==
    ASSUME IInv, NEW a \in acts, ActDelete(a)
    PROVE  IInv'
<1>1. TypeOK /\ Known /\ Owned /\ a \in Act /\ a.id \in Sessions /\ a.as \in Owners
      /\ a.step = "delete"
  BY ActTyped DEF IInv, ActDelete
<1>2. rows' = [rows EXCEPT ![a.as] = @ \ {a.id}] /\ rows' \in [Owners -> SUBSET Sessions]
      /\ \A o \in Owners : rows'[o] \subseteq rows[o]
  BY <1>1 DEF ActDelete, TypeOK
<1>3. CASE a.id \in rows[a.as]
  <2> DEFINE b == [a EXCEPT !.step = "wipe"]
  <2>1. acts' = (acts \ {a}) \cup {b} /\ b \in Act /\ b.id = a.id
        /\ b.tab = a.tab /\ b.live = a.live /\ UNCHANGED <<nav, late>>
    BY <1>1, <1>3 DEF ActDelete, deleteSession, Act
  <2>2. madeBy[a.id] = a.as /\ madeBy[a.id] # Nobody
    BY <1>1, <1>3, Distinct DEF Owned, Distinct
  <2>3. Gone(a.id)'
    <3>1. ASSUME NEW o \in Owners PROVE a.id \notin rows'[o]
      <4>1. CASE o = a.as
        BY <1>1, <1>2, <4>1 DEF TypeOK
      <4>2. CASE o # a.as
        BY <1>1, <1>2, <2>2, <4>2 DEF Owned
      <4> QED
        BY <4>1, <4>2
    <3> QED
      BY <3>1 DEF Gone
  <2> HIDE DEF b
  <2>4. \A x, y \in acts' : x.live /\ y.live /\ x.tab = y.tab => x = y
    BY <1>1, <2>1 DEF TypeOK
  <2>5. TypeOK'
    BY <1>1, <1>2, <2>1, <2>4 DEF ActDelete, TypeOK, talk
  <2>6. Known'
    BY <1>1, <2>1 DEF ActDelete, Known, Cookie, Shown
  <2>7. ASSUME NEW x \in acts', x.step = "wipe"
        PROVE  madeBy'[x.id] # Nobody /\ Gone(x.id)'
    BY <1>1, <1>2, <2>1, <2>2, <2>3, <2>7 DEF ActDelete, Owned, Gone
  <2>8. Owned'
    BY <1>1, <1>2, <2>7 DEF ActDelete, Owned, Shown, talk
  <2> QED
    BY <2>5, <2>6, <2>8 DEF IInv
<1>4. CASE a.id \notin rows[a.as]
  <2>1. Replies(a) /\ rows' = rows
    BY <1>1, <1>2, <1>4 DEF ActDelete, deleteSession, TypeOK
  <2>2. TypeOK'
    BY <1>1, <1>2, <2>1, RepliesTyped DEF ActDelete, TypeOK, talk
  <2>3. Known'
    BY <1>1, <2>1, RepliesKnown DEF ActDelete
  <2>4. Owned'
    BY <1>1, <2>1, RepliesTyped DEF ActDelete, Owned, Shown, Gone, talk
  <2> QED
    BY <2>2, <2>3, <2>4 DEF IInv
<1> QED
  BY <1>3, <1>4

LEMMA ActWipeKeeps ==
    ASSUME IInv, NEW a \in acts, ActWipe(a)
    PROVE  IInv'
<1>1. TypeOK /\ Known /\ Owned /\ a.id \in Sessions /\ Replies(a)
  BY ActTyped DEF IInv, ActWipe, deleteAllMessages
<1>2. <<>> \in Seq(Roles)
  OBVIOUS
<1>3. chat' \in [Sessions -> Seq(Roles)] /\ left' \in SUBSET Sessions
  <2>1. chat \in [Sessions -> Seq(Roles)] /\ left \in SUBSET Sessions
    BY <1>1 DEF TypeOK
  <2>2. \/ chat' = [chat EXCEPT ![a.id] = <<>>] /\ left' = left \ {a.id}
        \/ chat' = chat /\ left' = left \cup {a.id}
    BY DEF ActWipe, deleteAllMessages
  <2>3. [chat EXCEPT ![a.id] = <<>>] \in [Sessions -> Seq(Roles)]
    BY <1>1, <1>2, <2>1
  <2> QED
    BY <1>1, <2>1, <2>2, <2>3
<1>4. TypeOK'
  <2>1. UNCHANGED <<rows, madeBy, answering, browser, cookie, page, heard, clicks>>
    BY DEF ActWipe, index
  <2>2. nav' \in [Tabs -> Request \cup {Idle}] /\ late' \in SUBSET Owners
        /\ acts' \subseteq acts
    BY <1>1, RepliesTyped
  <2>3. /\ acts' \in SUBSET Act
        /\ \A b, c \in acts' : b.live /\ c.live /\ b.tab = c.tab => b = c
    BY <1>1, <2>2 DEF TypeOK
  <2> QED
    BY <1>1, <1>3, <2>1, <2>2, <2>3 DEF TypeOK
<1>5. Known'
  BY <1>1, RepliesKnown DEF ActWipe, deleteAllMessages
<1>6. Owned'
  BY <1>1, RepliesTyped DEF ActWipe, deleteAllMessages, Owned, Shown, Gone, index
<1> QED
  BY <1>4, <1>5, <1>6 DEF IInv

LEMMA ActTitleKeeps ==
    ASSUME IInv, NEW a \in acts, ActTitle(a)
    PROVE  IInv'
<1>1. TypeOK /\ Known /\ Owned /\ Replies(a) /\ rows' = rows
  BY DEF IInv, ActTitle, updateTitle
<1>2. TypeOK'
  BY <1>1, RepliesTyped DEF ActTitle, TypeOK, talk
<1>3. Known'
  BY <1>1, RepliesKnown DEF ActTitle
<1>4. Owned'
  BY <1>1, RepliesTyped DEF ActTitle, Owned, Shown, Gone, talk
<1> QED
  BY <1>2, <1>3, <1>4 DEF IInv

LEMMA ActLostKeeps ==
    ASSUME IInv, NEW a \in acts, ActLost(a)
    PROVE  IInv'
<1>1. TypeOK /\ Known /\ Owned /\ a.tab \in Tabs /\ a.id \in Sessions
  BY ActTyped DEF IInv, ActLost
<1>2. page' \in [Tabs -> Page \cup {Closed}] /\ \A u \in Shown' : u \in Shown /\ page'[u] = page[u]
  BY <1>1 DEF ActLost, TypeOK, Shown
<1>3. TypeOK'
  BY <1>1, <1>2 DEF ActLost, TypeOK, index
<1>4. Known'
  BY <1>1, <1>2 DEF ActLost, Known, Cookie, Shown
<1>5. Owned'
  BY <1>1, <1>2 DEF ActLost, Owned, Gone, index
<1> QED
  BY <1>3, <1>4, <1>5 DEF IInv

LEMMA SubmitKeeps ==
    ASSUME IInv, NEW t \in Tabs, onSubmit(t)
    PROVE  IInv'
<1> DEFINE s == page[t].at
<1>1. TypeOK /\ Known /\ Owned /\ t \in Shown /\ s \in Sessions /\ Len(chat[s]) \in Nat
      /\ Titles(t, Len(chat[s]) + 1)
  BY PageTyped DEF IInv, onSubmit, messages, TypeOK
<1>2. Len(chat[s]) + 1 \in Nat /\ "user" \in Roles
  BY <1>1 DEF Roles
<1>3. /\ chat' \in [Sessions -> Seq(Roles)] /\ heard' \in SUBSET Tabs
      /\ left' \in SUBSET Sessions /\ answering' \in SUBSET (Tabs \X Sessions)
      /\ \A p \in answering' : madeBy[p[2]] # Nobody
  <2>1. madeBy[s] # Nobody
    BY <1>1, PageTyped, Distinct DEF Owned, Distinct
  <2>2. CASE Says(s, "user") /\ answering' = answering \cup {<<t, s>>}
    BY <1>1, <1>2, <2>1, <2>2, SaysTyped DEF TypeOK, Owned
  <2>3. CASE heard' = heard \cup {t} /\ UNCHANGED talk
    BY <1>1, <2>3 DEF TypeOK, Owned, talk
  <2> QED
    BY <2>2, <2>3 DEF onSubmit, messages
<1> HIDE DEF s
<1>4. TypeOK'
  <2>1. UNCHANGED <<rows, madeBy, browser, cookie, nav, late>>
    BY DEF onSubmit, index
  <2>2. clicks' \in 0..MaxClicks
    BY <1>1, Distinct DEF onSubmit, Click, TypeOK
  <2>3. /\ page' \in [Tabs -> Page \cup {Closed}] /\ acts' \in SUBSET Act
        /\ \A a, b \in acts' : a.live /\ b.live /\ a.tab = b.tab => a = b
    BY <1>1, <1>2, TitlesTyped
  <2> QED
    BY <1>1, <1>3, <2>1, <2>2, <2>3 DEF TypeOK
<1>5. Known'
  BY <1>1, <1>2, TitlesTyped DEF onSubmit, messages, Known, Cookie, Shown
<1>6. ASSUME NEW a \in acts', a.step = "wipe"
      PROVE  madeBy'[a.id] # Nobody /\ Gone(a.id)'
  BY <1>1, <1>2, <1>6, TitlesTyped DEF onSubmit, messages, Owned, index, Gone
<1>7. ASSUME NEW u \in Shown'
      PROVE  madeBy'[page'[u].at] = page'[u].as
  BY <1>1, <1>2, <1>7, TitlesTyped DEF onSubmit, messages, Owned, index, Shown
<1>8. Owned'
  BY <1>1, <1>3, <1>6, <1>7 DEF onSubmit, messages, Owned, index
<1> QED
  BY <1>4, <1>5, <1>8 DEF IInv

LEMMA SyncKeeps ==
    ASSUME IInv, NEW t \in Tabs, Sync(t)
    PROVE  IInv'
<1>1. TypeOK /\ Known /\ Owned /\ t \in Shown /\ Len(chat[page[t].at]) \in Nat
      /\ Titles(t, Len(chat[page[t].at]))
  BY PageTyped DEF IInv, Sync, messages, TypeOK
<1>2. TypeOK'
  BY <1>1, TitlesTyped DEF Sync, messages, TypeOK, index, talk
<1>3. Known'
  BY <1>1, TitlesTyped DEF Sync, messages, Known, Cookie, Shown
<1>4. ASSUME NEW a \in acts', a.step = "wipe"
      PROVE  madeBy'[a.id] # Nobody /\ Gone(a.id)'
  BY <1>1, <1>4, TitlesTyped DEF Sync, messages, Owned, index, Gone
<1>5. ASSUME NEW u \in Shown'
      PROVE  madeBy'[page'[u].at] = page'[u].as
  BY <1>1, <1>5, TitlesTyped DEF Sync, messages, Owned, index, Shown
<1>6. Owned'
  BY <1>1, <1>4, <1>5 DEF Sync, messages, Owned, index, talk
<1> QED
  BY <1>2, <1>3, <1>6 DEF IInv

LEMMA FinishKeeps ==
    ASSUME IInv, NEW t \in Tabs, NEW s \in Sessions, onFinish(t, s)
    PROVE  IInv'
<1>1. TypeOK /\ Known /\ Owned /\ "assistant" \in Roles
  BY DEF IInv, Roles
<1>2. /\ chat' \in [Sessions -> Seq(Roles)] /\ heard' \in SUBSET Tabs
      /\ left' \in SUBSET Sessions
  <2>1. CASE Says(s, "assistant")
    BY <1>1, <2>1, SaysTyped
  <2>2. CASE UNCHANGED <<chat, heard, left>>
    BY <1>1, <2>2 DEF TypeOK
  <2> QED
    BY <2>1, <2>2 DEF onFinish
<1>3. TypeOK'
  BY <1>1, <1>2 DEF onFinish, TypeOK, index
<1>4. Known'
  BY <1>1 DEF onFinish, Known, Cookie, Shown
<1>5. Owned'
  BY <1>1 DEF onFinish, Owned, Shown, Gone, index
<1> QED
  BY <1>3, <1>4, <1>5 DEF IInv

LEMMA ClearKeeps ==
    ASSUME IInv, NEW t \in Tabs, clearHistory(t)
    PROVE  IInv'
<1>1. TypeOK /\ Known /\ Owned /\ page[t].at \in Sessions
  BY PageTyped DEF IInv, clearHistory
<1>2. <<>> \in Seq(Roles)
  OBVIOUS
<1>3. TypeOK'
  BY <1>1, <1>2, Distinct DEF clearHistory, TypeOK, index, Click, Distinct
<1>4. Known'
  BY <1>1 DEF clearHistory, Known, Cookie, Shown
<1>5. Owned'
  BY <1>1 DEF clearHistory, Owned, Shown, Gone, index
<1> QED
  BY <1>3, <1>4, <1>5 DEF IInv

LEMMA NextKeeps ==
    ASSUME IInv, [Next]_vars
    PROVE  IInv'
<1>1. CASE Next
  BY <1>1, NavigateKeeps, NewKeeps, ShowKeeps, TurnAwayKeeps, LateKeeps,
     DeleteSessionKeeps, ActDeleteKeeps, ActWipeKeeps, ActTitleKeeps, ActLostKeeps,
     SubmitKeeps, SyncKeeps, FinishKeeps, ClearKeeps
  DEF Next, Loads
<1>2. CASE UNCHANGED vars
  BY <1>2 DEF IInv, TypeOK, Known, Owned, vars, Cookie, Shown, Gone
<1> QED
  BY <1>1, <1>2

LEMMA InitKeeps == Init => IInv
<1> SUFFICES ASSUME Init PROVE IInv
  OBVIOUS
<1>1. TypeOK
  BY Distinct DEF Init, TypeOK, Distinct
<1>2. Known
  BY DEF Init, Known, Shown
<1>3. Owned
  BY DEF Init, Owned, Shown
<1> QED
  BY <1>1, <1>2, <1>3 DEF IInv

LEMMA Invariant == Spec => []IInv
  BY InitKeeps, NextKeeps, PTL DEF Spec

\* The state of the chat has its types, and of the requests the tabs sent with
\* their fetchers no tab waits for two (chat.tsx, the one useFetcher of the sidebar).
THEOREM TypeCorrect == Spec => []TypeOK
<1>1. IInv => TypeOK
  BY DEF IInv
<1> QED
  BY <1>1, Invariant, PTL

-----------------------------------------------------------------------------
(* A title is asked for only after something was said.                     *)

\* Of a session that has more messages than when a tab opened it, the tab heard.
Counted == \A t \in Shown : Len(chat[page[t].at]) > page[t].first => t \in heard

LEMMA CountedSaid ==
    ASSUME TypeOK, Counted, NEW s \in Sessions, NEW m \in Roles, Says(s, m),
           NEW u \in Shown, Len(chat'[page[u].at]) > page[u].first
    PROVE  u \in heard'
<1>1. page[u].at \in Sessions
  BY PageTyped
<1>2. CASE page[u].at = s
  BY <1>2 DEF Says
<1>3. CASE page[u].at # s
  BY <1>1, <1>3 DEF Says, TypeOK, Counted
<1> QED
  BY <1>2, <1>3

LEMMA TitlesCounted ==
    ASSUME TypeOK, NEW t \in Shown, NEW n \in Nat, Titles(t, n), NEW u \in Shown'
    PROVE  u \in Shown /\ page'[u].at = page[u].at /\ page'[u].first = page[u].first
<1>1. u \in Tabs /\ t \in Tabs /\ page[t] \in Page /\ page[t] # Closed
  BY PageTyped DEF Shown
<1>2. CASE ~page[t].titleSet /\ n > page[t].first
  <2>1. page' = [page EXCEPT ![t] = [page[t] EXCEPT !.titleSet = TRUE]]
    BY <1>2 DEF Titles
  <2> QED
    BY <1>1, <2>1 DEF TypeOK, Shown, Page
<1>3. CASE ~(~page[t].titleSet /\ n > page[t].first)
  BY <1>3 DEF Titles, Shown
<1> QED
  BY <1>2, <1>3

LEMMA ShowCounted ==
    ASSUME IInv, Counted, NEW t \in Tabs, NEW o \in Owners, LoaderShow(t, o)
    PROVE  Counted'
<1> DEFINE s == nav[t].to
<1>1. TypeOK /\ nav[t] # Idle /\ s \in Sessions
  BY NavTyped DEF IInv, LoaderShow
<1>2. page' = [page EXCEPT ![t] = Opens(t, s, o)] /\ chat' = chat
  BY DEF LoaderShow, talk
<1>3. Len(chat[s]) \in Nat
  BY <1>1 DEF TypeOK
<1>4. ASSUME NEW u \in Shown', Len(chat'[page'[u].at]) > page'[u].first
      PROVE  u \in heard'
  <2>1. CASE u # t
    BY <1>1, <1>2, <1>4, <2>1 DEF Counted, Shown, TypeOK, LoaderShow
  <2>2. CASE u = t /\ page[t] # Closed /\ page[t].at = s
    <3>1. page'[t].at = s /\ page'[t].first = page[t].first
      BY <1>1, <1>2, <2>2, OpensTyped DEF TypeOK
    <3> QED
      BY <1>2, <1>4, <2>2, <3>1 DEF Counted, Shown, LoaderShow
  <2>3. CASE u = t /\ ~(page[t] # Closed /\ page[t].at = s)
    <3>1. page'[t].at = s /\ page'[t].first = Len(chat[s])
      BY <1>1, <1>2, <2>3, OpensTyped DEF TypeOK
    <3> QED
      BY <1>2, <1>3, <1>4, <2>3, <3>1
  <2> QED
    BY <2>1, <2>2, <2>3
<1> QED
  BY <1>4 DEF Counted

LEMMA SubmitCounted ==
    ASSUME IInv, Counted, NEW t \in Tabs, onSubmit(t)
    PROVE  Counted' /\ t \in heard'
<1> DEFINE s == page[t].at
<1>1. TypeOK /\ t \in Shown /\ s \in Sessions /\ Len(chat[s]) + 1 \in Nat
      /\ Titles(t, Len(chat[s]) + 1) /\ "user" \in Roles
  BY PageTyped DEF IInv, onSubmit, messages, TypeOK, Roles
<1>2. t \in heard' /\ heard \subseteq heard'
  BY <1>1 DEF onSubmit, messages, Says
<1>3. ASSUME NEW u \in Shown', Len(chat'[page'[u].at]) > page'[u].first
      PROVE  u \in heard'
  <2>1. u \in Shown /\ Len(chat'[page[u].at]) > page[u].first
    BY <1>1, <1>3, TitlesCounted
  <2>2. CASE Says(s, "user")
    BY <1>1, <2>1, <2>2, CountedSaid
  <2>3. CASE heard' = heard \cup {t} /\ UNCHANGED talk
    BY <2>1, <2>3 DEF Counted, talk
  <2> QED
    BY <2>2, <2>3 DEF onSubmit, messages
<1> QED
  BY <1>2, <1>3 DEF Counted

LEMMA SyncCounted ==
    ASSUME IInv, Counted, NEW t \in Tabs, Sync(t)
    PROVE  Counted' /\ t \in heard'
<1>1. TypeOK /\ t \in Shown /\ Len(chat[page[t].at]) \in Nat
      /\ Titles(t, Len(chat[page[t].at]))
  BY PageTyped DEF IInv, Sync, messages, TypeOK
<1>2. t \in heard'
  BY <1>1 DEF Sync, messages, Counted
<1>3. ASSUME NEW u \in Shown', Len(chat'[page'[u].at]) > page'[u].first
      PROVE  u \in heard'
  BY <1>1, <1>3, TitlesCounted DEF Counted, Sync, messages, talk
<1> QED
  BY <1>2, <1>3 DEF Counted

LEMMA FinishCounted ==
    ASSUME IInv, Counted, NEW t \in Tabs, NEW s \in Sessions, onFinish(t, s)
    PROVE  Counted'
<1>1. TypeOK /\ "assistant" \in Roles
  BY DEF IInv, Roles
<1>2. CASE Says(s, "assistant")
  BY <1>1, <1>2, CountedSaid DEF Counted, onFinish, Shown
<1>3. CASE UNCHANGED <<chat, heard, left>>
  BY <1>3 DEF Counted, onFinish, Shown
<1> QED
  BY <1>2, <1>3 DEF onFinish

\* Conversations that are wiped or cleared have not more messages than before.
LEMMA EmptiedCounted ==
    ASSUME TypeOK, Counted, NEW s \in Sessions, chat' = [chat EXCEPT ![s] = <<>>],
           UNCHANGED <<page, heard>>
    PROVE  Counted'
<1>1. ASSUME NEW u \in Shown', Len(chat'[page'[u].at]) > page'[u].first
      PROVE  u \in heard'
  <2>1. u \in Shown /\ page'[u] = page[u] /\ page[u].at \in Sessions /\ page[u].first \in Nat
    BY PageTyped DEF Shown
  <2>2. CASE page[u].at = s
    BY <1>1, <2>1, <2>2 DEF TypeOK
  <2>3. CASE page[u].at # s
    BY <1>1, <2>1, <2>3 DEF TypeOK, Counted
  <2> QED
    BY <2>2, <2>3
<1> QED
  BY <1>1 DEF Counted

LEMMA NextCounted ==
    ASSUME IInv, Counted, [Next]_vars
    PROVE  Counted'
<1>1. TypeOK
  BY DEF IInv
<1>2. ASSUME UNCHANGED <<chat, heard, page>> PROVE Counted'
  BY <1>2 DEF Counted, Shown
<1>3. CASE \E t \in Tabs : \E to \in Sessions \cup {New} : navigate(t, to)
  BY <1>2, <1>3 DEF navigate, talk
<1>4. CASE \E t \in Tabs : Loads(t)
  <2>1. ASSUME NEW t \in Tabs, NEW o \in Owners, LoaderTurnAway(t, o) PROVE Counted'
    BY <1>2, <2>1 DEF LoaderTurnAway, talk
  <2>2. ASSUME NEW t \in Tabs, NEW o \in Owners, NEW s \in Sessions, LoaderNew(t, o, s)
        PROVE  Counted'
    BY <1>2, <2>2 DEF LoaderNew, talk
  <2> QED
    BY <1>4, <2>1, <2>2, ShowCounted DEF Loads
<1>5. CASE \E o \in Owners : LateLoader(o)
  BY <1>2, <1>5 DEF LateLoader, talk
<1>6. CASE \E t \in Tabs : \E id \in Sessions : handleDeleteSession(t, id)
  BY <1>2, <1>6 DEF handleDeleteSession, sortedSessions, talk
<1>7. CASE \E a \in acts : ActDelete(a) \/ ActTitle(a)
  BY <1>2, <1>7 DEF ActDelete, ActTitle, talk
<1>8. CASE \E a \in acts : ActWipe(a)
  <2>1. PICK a \in acts : ActWipe(a)
    BY <1>8
  <2>2. a.id \in Sessions /\ UNCHANGED <<page, heard>>
    BY <1>1, <2>1, ActTyped DEF ActWipe, deleteAllMessages
  <2>3. CASE chat' = [chat EXCEPT ![a.id] = <<>>]
    BY <1>1, <2>2, <2>3, EmptiedCounted
  <2>4. CASE UNCHANGED chat
    BY <1>2, <2>2, <2>4
  <2> QED
    BY <2>1, <2>3, <2>4 DEF ActWipe, deleteAllMessages
<1>9. CASE \E a \in acts : ActLost(a)
  <2>1. PICK a \in acts : ActLost(a)
    BY <1>9
  <2>2. \A u \in Shown' : u \in Shown /\ page'[u] = page[u]
    BY <1>1, <2>1 DEF ActLost, TypeOK, Shown
  <2> QED
    BY <2>1, <2>2 DEF ActLost, Counted
<1>10. CASE \E t \in Tabs : onSubmit(t) \/ Sync(t)
  BY <1>10, SubmitCounted, SyncCounted
<1>11. CASE \E t \in Tabs : \E s \in Sessions : onFinish(t, s)
  BY <1>11, FinishCounted
<1>12. CASE \E t \in Tabs : clearHistory(t)
  <2>1. PICK t \in Tabs : clearHistory(t)
    BY <1>12
  <2>2. page[t].at \in Sessions
    BY <1>1, <2>1, PageTyped DEF clearHistory
  <2> QED
    BY <1>1, <2>1, <2>2, EmptiedCounted DEF clearHistory
<1>13. CASE UNCHANGED vars
  BY <1>2, <1>13 DEF vars
<1> QED
  BY <1>3, <1>4, <1>5, <1>6, <1>7, <1>8, <1>9, <1>10, <1>11, <1>12, <1>13 DEF Next

LEMMA NextEarned ==
    ASSUME IInv, Counted, [Next]_vars, NEW a \in acts' \ acts, a.step = "title", a.live
    PROVE  a.tab \in heard'
<1>1. TypeOK /\ Known
  BY DEF IInv
<1>2. acts' # acts
  OBVIOUS
<1>3. CASE \E t \in Tabs : \E id \in Sessions : handleDeleteSession(t, id)
  BY <1>1, <1>3, SubmitsTyped DEF handleDeleteSession, sortedSessions
<1>4. CASE \E t \in Tabs : onSubmit(t)
  <2>1. PICK t \in Tabs : onSubmit(t)
    BY <1>4
  <2>2. t \in Shown /\ Len(chat[page[t].at]) + 1 \in Nat
        /\ Titles(t, Len(chat[page[t].at]) + 1)
    BY <1>1, <2>1, PageTyped DEF onSubmit, messages, TypeOK
  <2> QED
    BY <1>1, <2>1, <2>2, TitlesTyped, SubmitCounted
<1>5. CASE \E t \in Tabs : Sync(t)
  <2>1. PICK t \in Tabs : Sync(t)
    BY <1>5
  <2>2. t \in Shown /\ Len(chat[page[t].at]) \in Nat /\ Titles(t, Len(chat[page[t].at]))
    BY <1>1, <2>1, PageTyped DEF Sync, messages, TypeOK
  <2> QED
    BY <1>1, <2>1, <2>2, TitlesTyped, SyncCounted
<1>6. CASE \E b \in acts : ActDelete(b)
  <2>1. PICK b \in acts : ActDelete(b)
    BY <1>6
  <2>2. b \in Act
    BY <1>1, ActTyped
  <2>3. CASE deleteSession(b.as, b.id)
    <3>1. acts' \ acts \subseteq {[b EXCEPT !.step = "wipe"]}
      BY <2>1, <2>3 DEF ActDelete
    <3> QED
      BY <2>2, <3>1 DEF Act
  <2>4. CASE ~deleteSession(b.as, b.id)
    BY <2>1, <2>4 DEF ActDelete, Replies
  <2> QED
    BY <2>3, <2>4
<1>7. CASE \E b \in acts : ActWipe(b) \/ ActTitle(b) \/ ActLost(b)
  BY <1>7 DEF ActWipe, deleteAllMessages, ActTitle, ActLost, Replies
<1>8. CASE ~(\/ \E t \in Tabs : \E id \in Sessions : handleDeleteSession(t, id)
             \/ \E t \in Tabs : onSubmit(t) \/ Sync(t)
             \/ \E b \in acts : ActDelete(b) \/ ActWipe(b) \/ ActTitle(b) \/ ActLost(b))
  BY <1>2, <1>8 DEF Next, vars, Loads, LoaderNew, LoaderShow, LoaderTurnAway, navigate,
     LateLoader, onFinish, clearHistory
<1> QED
  BY <1>3, <1>4, <1>5, <1>6, <1>7, <1>8

\* A title is asked for only when something was said since the tab opened its session:
\* reopening one whose messages are replayed asks for nothing (chat.tsx, the effect on
\* messages).
THEOREM TitlesEarned == Spec => TitleEarned
<1>1. Init => Counted
  BY DEF Init, Counted, Shown
<1>2. IInv /\ Counted /\ [Next]_vars => Counted'
  BY NextCounted
<1>3. IInv /\ Counted /\ [Next]_vars
        => [\A a \in acts' \ acts : a.step = "title" /\ a.live => a.tab \in heard']_vars
  BY NextEarned
<1> QED
  BY <1>1, <1>2, <1>3, Invariant, PTL DEF Spec, TitleEarned

-----------------------------------------------------------------------------
(* The chat implements Conversations.                                      *)

LEMMA MadeBegins ==
    ASSUME TypeOK, NEW o \in Owners, NEW s \in Sessions, ensureSession(o, s),
           UNCHANGED <<page, chat>>
    PROVE  C!Begin(o, s)
<1>1. {p \in Owners \X Sessions : p[2] \in rows'[p[1]]}
        = {p \in Owners \X Sessions : p[2] \in rows[p[1]]} \cup {<<o, s>>}
  BY DEF ensureSession, TypeOK
<1> QED
  BY <1>1 DEF C!Begin, ensureSession, Shown

LEMMA DeleteEnds ==
    ASSUME TypeOK, NEW a \in acts, ActDelete(a)
    PROVE  a.as \in Owners /\ a.id \in Sessions /\ C!End(a.as, a.id)
<1>1. a.as \in Owners /\ a.id \in Sessions
  BY ActTyped
<1>2. {p \in Owners \X Sessions : p[2] \in rows'[p[1]]}
        = {p \in Owners \X Sessions : p[2] \in rows[p[1]]} \ {<<a.as, a.id>>}
  BY <1>1 DEF ActDelete, TypeOK
<1> QED
  BY <1>1, <1>2 DEF C!End, ActDelete, Shown, talk

LEMMA WipeForgets ==
    ASSUME TypeOK, Owned, NEW a \in acts, ActWipe(a)
    PROVE  (a.id \in Sessions /\ C!Forget(a.id)) \/ UNCHANGED C!vars
<1>1. a.id \in Sessions /\ madeBy[a.id] # Nobody /\ Gone(a.id)
  BY ActTyped DEF ActWipe, deleteAllMessages, Owned
<1>2. CASE chat' = [chat EXCEPT ![a.id] = <<>>]
  BY <1>1, <1>2 DEF ActWipe, deleteAllMessages, C!Forget, Gone, index, Shown
<1>3. CASE UNCHANGED chat
  BY <1>3 DEF ActWipe, deleteAllMessages, C!vars, index, Shown
<1> QED
  BY <1>1, <1>2, <1>3 DEF ActWipe, deleteAllMessages

LEMMA SubmitSays ==
    ASSUME IInv, NEW t \in Tabs, onSubmit(t)
    PROVE  (page[t].at \in Sessions /\ C!Say(page[t].at, "user")) \/ UNCHANGED C!vars
<1> DEFINE s == page[t].at
<1>1. TypeOK /\ Known /\ Owned /\ t \in Shown /\ s \in Sessions /\ Len(chat[s]) + 1 \in Nat
      /\ Titles(t, Len(chat[s]) + 1) /\ page[t].as \in Owners
  BY PageTyped DEF IInv, onSubmit, messages, TypeOK
<1>2. madeBy[s] # Nobody
  BY <1>1, Distinct DEF Owned, Distinct
<1>3. Shown' = Shown /\ \A u \in Shown : page'[u].as = page[u].as /\ page'[u].at = page[u].at
  BY <1>1, TitlesTyped, Distinct DEF Shown, Page, Distinct
<1>4. {<<page'[u].as, page'[u].at>> : u \in Shown'} = {<<page[u].as, page[u].at>> : u \in Shown}
  BY <1>3
<1>5. CASE Says(s, "user")
  <2>1. page[t].as \in Owners /\ <<page[t].as, s>> \in {<<page[u].as, page[u].at>> : u \in Shown}
    BY <1>1
  <2> QED
    BY <1>1, <1>2, <1>4, <1>5, <2>1 DEF onSubmit, messages, C!Say, Says, index
<1>6. CASE UNCHANGED talk
  BY <1>4, <1>6 DEF onSubmit, messages, C!vars, talk, index
<1> QED
  BY <1>1, <1>5, <1>6 DEF onSubmit, messages

LEMMA SyncStutters ==
    ASSUME IInv, NEW t \in Tabs, Sync(t)
    PROVE  UNCHANGED C!vars
<1>1. TypeOK /\ Known /\ t \in Shown /\ Len(chat[page[t].at]) \in Nat
      /\ Titles(t, Len(chat[page[t].at]))
  BY PageTyped DEF IInv, Sync, messages, TypeOK
<1>2. Shown' = Shown /\ \A u \in Shown : page'[u].as = page[u].as /\ page'[u].at = page[u].at
  BY <1>1, TitlesTyped, Distinct DEF Shown, Page, Distinct
<1>3. {<<page'[u].as, page'[u].at>> : u \in Shown'} = {<<page[u].as, page[u].at>> : u \in Shown}
  BY <1>2
<1> QED
  BY <1>3 DEF Sync, messages, C!vars, talk, index

LEMMA FinishSays ==
    ASSUME IInv, NEW t \in Tabs, NEW s \in Sessions, onFinish(t, s)
    PROVE  C!Say(s, "assistant") \/ UNCHANGED C!vars
<1>1. madeBy[s] # Nobody
  BY DEF onFinish, IInv, Owned
<1>2. CASE Says(s, "assistant")
  BY <1>1, <1>2 DEF onFinish, C!Say, Says, index, Shown
<1>3. CASE UNCHANGED chat
  BY <1>3 DEF onFinish, C!vars, index, Shown
<1> QED
  BY <1>2, <1>3 DEF onFinish

LEMMA ClearClears ==
    ASSUME TypeOK, NEW t \in Tabs, clearHistory(t)
    PROVE  page[t].as \in Owners /\ page[t].at \in Sessions
           /\ C!Clear(page[t].as, page[t].at)
<1>1. page[t].as \in Owners /\ page[t].at \in Sessions /\ t \in Shown
  BY PageTyped DEF clearHistory
<1> QED
  BY <1>1 DEF clearHistory, C!Clear, index, Shown

LEMMA StepImplements ==
    ASSUME IInv, IInv', [Next]_vars
    PROVE  C!Next \/ UNCHANGED C!vars
<1>1. TypeOK /\ Owned
  BY DEF IInv
<1>2. ASSUME UNCHANGED <<madeBy, rows, page, chat>> PROVE UNCHANGED C!vars
  BY <1>2 DEF C!vars, Shown
<1>3. ASSUME UNCHANGED <<madeBy, rows, chat>> PROVE C!Next
  <2>1. ASSUME NEW t \in Shown' PROVE <<page'[t].as, page'[t].at>> \in C!Own
    <3>1. page'[t] \in Page
      BY DEF IInv, TypeOK, Shown
    <3>2. madeBy[page'[t].at] = page'[t].as
      BY <1>3 DEF IInv, Owned
    <3> QED
      BY <3>1, <3>2 DEF Page, C!Own
  <2>2. {<<page'[t].as, page'[t].at>> : t \in Shown'} \in SUBSET C!Own
    BY <2>1
  <2> QED
    BY <1>3, <2>2 DEF C!Next, C!Look
<1>4. CASE \E t \in Tabs : \E to \in Sessions \cup {New} : navigate(t, to)
  BY <1>2, <1>4 DEF navigate, talk, index
<1>5. CASE \E t \in Tabs : Loads(t)
  <2>1. ASSUME NEW t \in Tabs, NEW o \in Owners, LoaderTurnAway(t, o)
        PROVE  UNCHANGED C!vars
    BY <1>2, <2>1 DEF LoaderTurnAway, talk, index
  <2>2. ASSUME NEW t \in Tabs, NEW o \in Owners, LoaderShow(t, o) PROVE C!Next
    BY <1>3, <2>2 DEF LoaderShow, talk, index
  <2>3. ASSUME NEW t \in Tabs, NEW o \in Owners, NEW s \in Sessions, LoaderNew(t, o, s)
        PROVE  C!Next
    BY <1>1, <2>3, MadeBegins DEF LoaderNew, talk, C!Next
  <2> QED
    BY <1>5, <2>1, <2>2, <2>3 DEF Loads
<1>6. CASE \E o \in Owners : LateLoader(o)
  BY <1>1, <1>2, <1>6, MadeBegins DEF LateLoader, talk, index, C!Next
<1>7. CASE \E t \in Tabs : \E id \in Sessions : handleDeleteSession(t, id)
  BY <1>2, <1>7 DEF handleDeleteSession, sortedSessions, talk, index
<1>8. CASE \E a \in acts : ActDelete(a)
  BY <1>1, <1>8, DeleteEnds DEF C!Next
<1>9. CASE \E a \in acts : ActWipe(a)
  BY <1>1, <1>9, WipeForgets DEF C!Next
<1>10. CASE \E a \in acts : ActTitle(a)
  BY <1>2, <1>10 DEF ActTitle, updateTitle, talk
<1>11. CASE \E a \in acts : ActLost(a)
  BY <1>3, <1>11 DEF ActLost, index
<1>12. CASE \E t \in Tabs : onSubmit(t)
  BY <1>12, SubmitSays DEF C!Next, Roles
<1>13. CASE \E t \in Tabs : Sync(t)
  BY <1>13, SyncStutters
<1>14. CASE \E t \in Tabs : \E s \in Sessions : onFinish(t, s)
  BY <1>14, FinishSays DEF C!Next, Roles
<1>15. CASE \E t \in Tabs : clearHistory(t)
  BY <1>1, <1>15, ClearClears DEF C!Next
<1>16. CASE UNCHANGED vars
  BY <1>2, <1>16 DEF vars
<1> QED
  BY <1>4, <1>5, <1>6, <1>7, <1>8, <1>9, <1>10, <1>11, <1>12, <1>13, <1>14, <1>15, <1>16
  DEF Next

\* The chat implements Conversations: a conversation stays with the owner its loader
\* made it for, is listed, shown and cleared for that owner only, a user talks only in
\* one that is on a screen of its owner's, and it is emptied by a deletion only once it
\* is in no list.
THEOREM Implements == Spec => Conversation
<1>1. Init => C!Init
  BY DEF Init, C!Init, Shown
<1>2. IInv /\ IInv' /\ [Next]_vars => [C!Next]_(C!vars)
  BY StepImplements
<1> QED
  BY <1>1, <1>2, Invariant, PTL DEF Spec, Conversation, C!Spec

-----------------------------------------------------------------------------
(* What a deleted conversation said is gone.                               *)

\* A request has still to remove the messages of s.
Wiping(s) == \E a \in acts : a.id = s /\ a.step = "wipe"

\* A fetcher's next request supersedes a deletion under way, and leaves it under way.
LEMMA SubmitsWiping ==
    ASSUME TypeOK, NEW t \in Tabs, NEW id, NEW step, Submits(t, id, step),
           NEW s \in Sessions, Wiping(s)
    PROVE  Wiping(s)'
<1>1. PICK a \in acts : a.id = s /\ a.step = "wipe"
  BY DEF Wiping
<1> DEFINE b == IF a.tab = t THEN [a EXCEPT !.live = FALSE] ELSE a
<1>2. b.id = s /\ b.step = "wipe"
  BY <1>1, ActTyped DEF Act
<1>3. b \in acts'
  BY <1>1 DEF Submits, Superseded
<1> QED
  BY <1>2, <1>3 DEF Wiping

LEMMA TitlesWiping ==
    ASSUME TypeOK, NEW t \in Tabs, NEW n, Titles(t, n), NEW s \in Sessions, Wiping(s)
    PROVE  Wiping(s)'
  BY SubmitsWiping DEF Titles, Wiping

\* A step that lists, empties and forgets nothing, and ends no wipe.
LEMMA RemovedKept ==
    ASSUME Removed, UNCHANGED <<rows, chat, madeBy, left>>,
           \A s \in Sessions : Wiping(s) => Wiping(s)'
    PROVE  Removed'
  BY DEF Removed, Wiping, Used, Gone

\* A new conversation is listed from the start.
LEMMA MadeRemoved ==
    ASSUME TypeOK, Removed, UNCHANGED <<chat, left, acts>>, NEW o \in Owners,
           NEW s \in Sessions, ensureSession(o, s)
    PROVE  Removed'
<1>1. ~Gone(s)'
  BY DEF ensureSession, Gone, TypeOK
<1>2. ASSUME NEW r \in Sessions, r # s
      PROVE  /\ r \in Used' => r \in Used
             /\ Gone(r)' => Gone(r)
  BY <1>2 DEF ensureSession, Gone, Used, TypeOK
<1> QED
  BY <1>1, <1>2 DEF Removed, Used

\* The row of a conversation goes, and the request has its messages to remove.
LEMMA ActDeleteRemoved ==
    ASSUME TypeOK, Removed, NEW a \in acts, ActDelete(a)
    PROVE  Removed'
<1>1. a \in Act /\ a.id \in Sessions /\ a.as \in Owners /\ a.step = "delete"
  BY ActTyped DEF ActDelete
<1>2. \A s \in Sessions : Wiping(s) => Wiping(s)'
  BY <1>1 DEF ActDelete, Replies, Wiping
<1>3. CASE deleteSession(a.as, a.id)
  <2>1. [a EXCEPT !.step = "wipe"] \in acts'
    BY <1>3 DEF ActDelete
  <2>2. Wiping(a.id)'
    BY <1>1, <2>1 DEF Wiping, Act
  <2>3. ASSUME NEW s \in Sessions, s # a.id, Gone(s)'
        PROVE  Gone(s)
    BY <1>1, <2>3 DEF ActDelete, Gone, TypeOK
  <2> QED
    BY <1>2, <2>2, <2>3 DEF Removed, Used, Wiping, ActDelete, talk
<1>4. CASE ~deleteSession(a.as, a.id)
  <2>1. rows' = rows
    BY <1>1, <1>4 DEF ActDelete, deleteSession, TypeOK
  <2> QED
    BY <1>2, <2>1, RemovedKept DEF ActDelete, talk
<1> QED
  BY <1>3, <1>4

\* The messages go with the request, or are known to be left.
LEMMA ActWipeRemoved ==
    ASSUME TypeOK, Removed, NEW a \in acts, ActWipe(a)
    PROVE  Removed'
<1>1. a.id \in Sessions
  BY ActTyped
<1>2. ASSUME NEW s \in Sessions, s # a.id
      PROVE  /\ Wiping(s) => Wiping(s)'
             /\ s \in left => s \in left'
             /\ chat'[s] = chat[s]
  BY <1>1, <1>2 DEF ActWipe, deleteAllMessages, Replies, Wiping, TypeOK
<1>3. chat'[a.id] = <<>> \/ a.id \in left'
  BY <1>1 DEF ActWipe, deleteAllMessages, TypeOK
<1> QED
  BY <1>2, <1>3 DEF Removed, Used, Gone, Wiping, ActWipe, index

LEMMA ActLostRemoved ==
    ASSUME TypeOK, Removed, NEW a \in acts, ActLost(a)
    PROVE  Removed'
<1>1. ASSUME NEW s \in Sessions
      PROVE  /\ Wiping(s) => Wiping(s)' \/ s \in left'
             /\ s \in left => s \in left'
  BY DEF ActLost, Wiping
<1> QED
  BY <1>1 DEF Removed, Used, Gone, Wiping, ActLost, index

\* What is said to a conversation that is deleted is known to be left.
LEMMA SaysRemoved ==
    ASSUME TypeOK, Removed, NEW s \in Sessions, NEW m, Says(s, m),
           UNCHANGED <<rows, madeBy>>,
           \A r \in Sessions : Wiping(r) => Wiping(r)'
    PROVE  Removed'
<1>1. ASSUME NEW r \in Sessions, r # s
      PROVE  /\ r \in left => r \in left'
             /\ chat'[r] = chat[r]
  BY <1>1 DEF Says, TypeOK
<1>2. Gone(s) => s \in left'
  BY DEF Says
<1> QED
  BY <1>1, <1>2 DEF Removed, Used, Gone, Wiping

LEMMA SubmitRemoved ==
    ASSUME IInv, Removed, NEW t \in Tabs, onSubmit(t)
    PROVE  Removed'
<1>1. TypeOK /\ t \in Shown /\ page[t].at \in Sessions
  BY PageTyped DEF IInv, onSubmit
<1>2. \A s \in Sessions : Wiping(s) => Wiping(s)'
  BY <1>1, TitlesWiping DEF onSubmit
<1>3. CASE Says(page[t].at, "user")
  BY <1>1, <1>2, <1>3, SaysRemoved DEF onSubmit, index
<1>4. CASE UNCHANGED talk
  BY <1>2, <1>4, RemovedKept DEF onSubmit, index, talk
<1> QED
  BY <1>3, <1>4 DEF onSubmit

LEMMA NextRemoved ==
    ASSUME IInv, Removed, [Next]_vars
    PROVE  Removed'
<1>1. TypeOK
  BY DEF IInv
<1>2. ASSUME UNCHANGED <<rows, chat, madeBy, left, acts>>
      PROVE  Removed'
  BY <1>2, RemovedKept DEF Wiping
<1>3. CASE \E t \in Tabs : \E to \in Sessions \cup {New} : navigate(t, to)
  BY <1>2, <1>3 DEF navigate, talk, index
<1>4. CASE \E t \in Tabs : Loads(t)
  <2>1. ASSUME NEW t \in Tabs, NEW o \in Owners, LoaderTurnAway(t, o) \/ LoaderShow(t, o)
        PROVE  Removed'
    BY <1>2, <2>1 DEF LoaderTurnAway, LoaderShow, talk, index
  <2>2. ASSUME NEW t \in Tabs, NEW o \in Owners, NEW s \in Sessions, LoaderNew(t, o, s)
        PROVE  Removed'
    BY <1>1, <2>2, MadeRemoved DEF LoaderNew, talk
  <2> QED
    BY <1>4, <2>1, <2>2 DEF Loads
<1>5. CASE \E o \in Owners : LateLoader(o)
  <2>1. PICK o \in Owners : LateLoader(o)
    BY <1>5
  <2>2. CASE \E s \in Sessions : ensureSession(o, s)
    BY <1>1, <2>1, <2>2, MadeRemoved DEF LateLoader, talk
  <2>3. CASE UNCHANGED index
    BY <1>2, <2>1, <2>3 DEF LateLoader, talk, index
  <2> QED
    BY <2>1, <2>2, <2>3 DEF LateLoader
<1>6. CASE \E t \in Tabs : \E id \in Sessions : handleDeleteSession(t, id)
  <2>1. PICK t \in Tabs, id \in Sessions : handleDeleteSession(t, id)
    BY <1>6
  <2>2. \A s \in Sessions : Wiping(s) => Wiping(s)'
    BY <1>1, <2>1, SubmitsWiping DEF handleDeleteSession
  <2> QED
    BY <2>1, <2>2, RemovedKept DEF handleDeleteSession, talk, index
<1>7. CASE \E a \in acts : ActDelete(a) \/ ActWipe(a) \/ ActLost(a)
  BY <1>1, <1>7, ActDeleteRemoved, ActWipeRemoved, ActLostRemoved
<1>8. CASE \E a \in acts : ActTitle(a)
  <2>1. PICK a \in acts : ActTitle(a)
    BY <1>8
  <2>2. \A s \in Sessions : Wiping(s) => Wiping(s)'
    BY <2>1 DEF ActTitle, Replies, Wiping
  <2> QED
    BY <2>1, <2>2, RemovedKept DEF ActTitle, updateTitle, talk
<1>9. CASE \E t \in Tabs : onSubmit(t)
  BY <1>9, SubmitRemoved
<1>10. CASE \E t \in Tabs : Sync(t)
  <2>1. PICK t \in Tabs : Sync(t)
    BY <1>10
  <2>2. \A s \in Sessions : Wiping(s) => Wiping(s)'
    BY <1>1, <2>1, TitlesWiping DEF Sync
  <2> QED
    BY <2>1, <2>2, RemovedKept DEF Sync, talk, index
<1>11. CASE \E t \in Tabs : \E s \in Sessions : onFinish(t, s)
  <2>1. PICK t \in Tabs, s \in Sessions : onFinish(t, s)
    BY <1>11
  <2>2. CASE Says(s, "assistant")
    BY <1>1, <2>1, <2>2, SaysRemoved DEF onFinish, index, Wiping
  <2>3. CASE UNCHANGED <<chat, heard, left>>
    BY <1>2, <2>1, <2>3 DEF onFinish, index
  <2> QED
    BY <2>1, <2>2, <2>3 DEF onFinish
<1>12. CASE \E t \in Tabs : clearHistory(t)
  <2>1. PICK t \in Tabs : clearHistory(t)
    BY <1>12
  <2>2. page[t].at \in Sessions
    BY <1>1, <2>1, PageTyped DEF clearHistory
  <2>3. chat'[page[t].at] = <<>>
    BY <1>1, <2>1, <2>2 DEF clearHistory, TypeOK
  <2>4. \A s \in Sessions \ {page[t].at} :
           chat'[s] = chat[s] /\ (s \in left => s \in left')
    BY <1>1, <2>1, <2>2 DEF clearHistory, TypeOK
  <2>5. UNCHANGED <<rows, madeBy, acts>>
    BY <2>1 DEF clearHistory, index
  <2> QED
    BY <2>3, <2>4, <2>5 DEF Removed, Used, Gone
<1>13. CASE UNCHANGED vars
  BY <1>2, <1>13 DEF vars, talk, index
<1> QED
  BY <1>3, <1>4, <1>5, <1>6, <1>7, <1>8, <1>9, <1>10, <1>11, <1>12, <1>13 DEF Next

\* What a deleted conversation said is gone once its request has ended, whatever else
\* the tabs do meanwhile, but for a wipe that failed and for what is said to it later
\* (chat.tsx, the delete branch of the action).
THEOREM DeletedRemoved == Spec => []Removed
<1>1. Init => Removed
  BY DEF Init, Removed, Used
<1>2. IInv /\ Removed /\ [Next]_vars => Removed'
  BY NextRemoved
<1> QED
  BY <1>1, <1>2, Invariant, PTL DEF Spec
=============================================================================
