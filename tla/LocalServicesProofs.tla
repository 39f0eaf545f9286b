------------------------- MODULE LocalServicesProofs -------------------------
(***************************************************************************)
(* Theorems about LocalServices: its types, and that what an app is         *)
(* answered is sound, for any limits, bodies, projects and runs of the      *)
(* tools.                                                                   *)
(***************************************************************************)
EXTENDS LocalServices, ScaffoldProofs, FiniteSetTheorems, WellFoundedInduction

-----------------------------------------------------------------------------
(* What a call is at each step.                                             *)

SqlCall ==
    [svc : {"sql"}, raw : RawLimits \cup {None}, pc : {"fetch", "read", "done"},
     timer : {"armed", "fired", "off"}, status : {"none", "ok", "error"},
     body : {"none", "object", "null", "other"}, size : Nat, declared : Nat,
     got : Nat, text : Nat, res : {"none", "data", "error", "status", "504"}]

ConnCall ==
    [svc : {"conn"}, pc : {"fetch", "done"},
     method : Catalogue \cup {"none", "then", "fetch", "charge"},
     res : {"none", "error", "null", "object", "status", "response"}]

\* Of a query: what is kept of the body is all that came, and within the limit,
\* until it is answered; it has a timer until then.
SqlOK(c) ==
    /\ c \in SqlCall
    /\ c.pc = "done" <=> c.timer = "off"
    /\ c.pc = "fetch" => c.got = 0
    /\ c.pc # "done" => c.text = c.got /\ c.res = "none"
    /\ c.got <= c.size /\ c.text <= c.got
    /\ c.text <= resolveMaxResponseBytes(c.raw)
    /\ c.res = "data" => c.status = "ok" /\ c.text = c.size

ImageOK(c) == \E items \in Messages, res \in {"error", "images", "unbound"} :
                  c = ImageCall(items, res)

CallOK(c) == SqlOK(c) \/ c \in ConnCall \/ ImageOK(c)

\* Beside what ScaffoldProofs knows of the directories.
Serving ==
    /\ version \in [Files -> 1..(MaxEdits + 1)]
    /\ mixed \subseteq Names
    /\ runs \in 0..MaxRuns
    /\ dev \in Names \cup {None}
    /\ dev # None => dir[dev] # None
    /\ call # None => dev # None /\ CallOK(call)

LEMMA LimitPositive ==
    ASSUME NEW raw \in RawLimits \cup {None}
    PROVE  resolveMaxResponseBytes(raw) \in Nat \ {0}
  BY Limits DEF resolveMaxResponseBytes

\* A new query.
LEMMA SqlNew ==
    ASSUME NEW raw \in RawLimits \cup {None}
    PROVE  SqlOK(Sql(raw))
<1> DEFINE c == Sql(raw)
<1>1. /\ c \in SqlCall /\ c.pc = "fetch" /\ c.timer = "armed" /\ c.got = 0 /\ c.text = 0
      /\ c.size = 0 /\ c.res = "none" /\ c.raw = raw
  BY DEF Sql, SqlCall
<1> HIDE DEF c
<1>2. SqlOK(c)
  BY <1>1, LimitPositive DEF SqlOK
<1> QED
  BY <1>2 DEF c

\* The finally clause: data is for a whole body of a good answer.
LEMMA AnswerOK ==
    ASSUME NEW c, SqlOK(c), c.pc # "done", NEW res \in {"data", "error", "status", "504"},
           res = "data" => c.status = "ok" /\ c.text = c.size
    PROVE  SqlOK(Answer(c, res))
<1> DEFINE a == Answer(c, res)
<1>1. /\ a \in SqlCall /\ a.pc = "done" /\ a.timer = "off" /\ a.got = c.got /\ a.text = c.text
      /\ a.size = c.size /\ a.res = res /\ a.raw = c.raw /\ a.status = c.status
  BY DEF Answer, SqlCall, SqlOK
<1> HIDE DEF a
<1>2. SqlOK(a)
  BY <1>1 DEF SqlOK
<1> QED
  BY <1>2 DEF a

LEMMA CallIsSql ==
    ASSUME NEW c, CallOK(c), c.svc = "sql"
    PROVE  SqlOK(c)
  BY DEF CallOK, ConnCall, ImageOK, ImageCall

-----------------------------------------------------------------------------
(* The steps of a query.                                                    *)

LEMMA RespondOK ==
    ASSUME Serving, Respond
    PROVE  SqlOK(call') /\ dev' = dev /\ dev # None
<1>1. call # None /\ call.pc = "fetch" /\ SqlOK(call) /\ dev # None
  BY CallIsSql DEF Respond, OnSql, Serving
<1>2. PICK status \in {"ok", "error"}, body \in {"object", "null", "other"},
           size \in 0..MaxBody, declared \in 0..MaxBody :
        LET c == [call EXCEPT !.status = status, !.body = body, !.size = size,
                              !.declared = declared]
        IN  Becomes(IF TooLarge(c, declared) THEN Answer(c, "error") ELSE Headed(c))
  BY DEF Respond
<1> DEFINE c == [call EXCEPT !.status = status, !.body = body, !.size = size,
                             !.declared = declared]
           h == Headed(c)
<1>3. size \in Nat /\ declared \in Nat
  BY Limits
<1>4. /\ c \in SqlCall /\ c.pc = "fetch" /\ c.timer = call.timer /\ c.got = 0
      /\ c.text = call.text /\ c.size = size /\ c.res = call.res /\ c.raw = call.raw
  BY <1>1, <1>3 DEF SqlOK, SqlCall
<1>5. call' = (IF TooLarge(c, declared) THEN Answer(c, "error") ELSE h) /\ dev' = dev
  BY <1>2 DEF Becomes
<1> HIDE DEF c
<1>6. SqlOK(c)
  BY <1>1, <1>3, <1>4 DEF SqlOK
<1>7. /\ h \in SqlCall /\ h.pc = "read" /\ h.timer = c.timer /\ h.got = c.got
      /\ h.text = c.text /\ h.size = c.size /\ h.res = c.res /\ h.raw = c.raw
  BY <1>4 DEF Headed, SqlCall
<1> HIDE DEF h
<1>8. SqlOK(h)
  BY <1>4, <1>6, <1>7 DEF SqlOK
<1> QED
  BY <1>1, <1>4, <1>5, <1>6, <1>8, AnswerOK

LEMMA ChunkOK ==
    ASSUME Serving, Chunk
    PROVE  SqlOK(call') /\ dev' = dev /\ dev # None
<1>1. call # None /\ call.pc = "read" /\ SqlOK(call) /\ dev # None
  BY CallIsSql DEF Chunk, OnSql, Serving
<1>2. PICK k \in 1..MaxBody :
        /\ call.got + k <= call.size
        /\ LET c == [call EXCEPT !.got = @ + k] IN
            Becomes(IF TooLarge(c, c.got) THEN Answer(c, "error")
                  ELSE [c EXCEPT !.text = @ + k])
  BY DEF Chunk
<1> DEFINE c == [call EXCEPT !.got = @ + k]
           kept == [c EXCEPT !.text = @ + k]
<1>3. k \in Nat
  BY Limits
<1>4. /\ call \in SqlCall /\ call.got \in Nat /\ call.text = call.got /\ call.size \in Nat
      /\ call.raw \in RawLimits \cup {None}
  BY <1>1 DEF SqlOK, SqlCall
<1>5. /\ c \in SqlCall /\ c.pc = "read" /\ c.timer = call.timer /\ c.got = call.got + k
      /\ c.text = call.text /\ c.size = call.size /\ c.res = call.res /\ c.raw = call.raw
      /\ c.status = call.status
  BY <1>1, <1>3, <1>4 DEF SqlCall
<1>6. call' = (IF TooLarge(c, c.got) THEN Answer(c, "error") ELSE kept) /\ dev' = dev
  BY <1>2 DEF Becomes
<1> HIDE DEF c
<1>7. /\ kept \in SqlCall /\ kept.pc = "read" /\ kept.timer = c.timer /\ kept.got = c.got
      /\ kept.text = c.text + k /\ kept.size = c.size /\ kept.res = c.res /\ kept.raw = c.raw
  BY <1>3, <1>4, <1>5 DEF SqlCall
<1> HIDE DEF kept
<1>8. CASE TooLarge(c, c.got)
  <2> DEFINE a == Answer(c, "error")
  <2>1. /\ a \in SqlCall /\ a.pc = "done" /\ a.timer = "off" /\ a.got = c.got
        /\ a.text = c.text /\ a.size = c.size /\ a.res = "error" /\ a.raw = c.raw
    BY <1>5 DEF Answer, SqlCall
  <2> HIDE DEF a
  <2>2. SqlOK(a)
    BY <1>1, <1>2, <1>3, <1>4, <1>5, <2>1 DEF SqlOK
  <2> QED
    BY <1>1, <1>6, <1>8, <2>2 DEF a
<1>9. CASE ~TooLarge(c, c.got)
  <2>1. call.got + k <= resolveMaxResponseBytes(call.raw)
    BY <1>3, <1>4, <1>5, <1>9, LimitPositive DEF TooLarge
  <2>2. SqlOK(kept)
    BY <1>1, <1>2, <1>3, <1>4, <1>5, <1>7, <2>1 DEF SqlOK
  <2> QED
    BY <1>1, <1>6, <1>9, <2>2
<1> QED
  BY <1>8, <1>9

LEMMA EndOfBodyOK ==
    ASSUME Serving, EndOfBody
    PROVE  SqlOK(call') /\ dev' = dev /\ dev # None
<1>1. /\ call # None /\ call.pc = "read" /\ call.got = call.size /\ SqlOK(call) /\ dev # None
      /\ dev' = dev
  BY CallIsSql DEF EndOfBody, OnSql, Serving, Becomes
<1>2. PICK res \in {"data", "error", "status"} :
          call' = Answer(call, res) /\ (res = "data" => call.status = "ok")
  BY DEF EndOfBody, Becomes
<1>3. call.text = call.size
  BY <1>1 DEF SqlOK
<1> QED
  BY <1>1, <1>2, <1>3, AnswerOK

LEMMA EndedOK ==
    ASSUME Serving, Broken \/ Aborted
    PROVE  SqlOK(call') /\ dev' = dev /\ dev # None
<1>1. call # None /\ call.pc # "done" /\ SqlOK(call) /\ dev # None
  BY CallIsSql DEF Broken, Aborted, Waiting, Serving
<1> QED
  BY <1>1, AnswerOK DEF Broken, Aborted, Becomes

LEMMA TimeoutOK ==
    ASSUME Serving, Timeout
    PROVE  SqlOK(call') /\ dev' = dev /\ dev # None
<1>1. /\ call # None /\ call.timer = "armed" /\ SqlOK(call) /\ dev # None /\ dev' = dev
      /\ call' = [call EXCEPT !.timer = "fired"]
  BY CallIsSql DEF Timeout, Serving, Becomes
<1>2. /\ call' \in SqlCall /\ call'.pc = call.pc /\ call'.timer = "fired"
      /\ call'.got = call.got /\ call'.text = call.text /\ call'.size = call.size
      /\ call'.res = call.res /\ call'.raw = call.raw /\ call'.status = call.status
  BY <1>1 DEF SqlOK, SqlCall
<1> QED
  BY <1>1, <1>2 DEF SqlOK

-----------------------------------------------------------------------------
(* The other calls.                                                         *)

LEMMA OtherCalls ==
    ASSUME Serving, \/ SqlQuery \/ SqlNowhere \/ Connect \/ ConnectNowhere \/ Connected
                    \/ GenerateImage
    PROVE  (call' # None => CallOK(call')) /\ dev' = dev /\ dev # None
<1>1. dev # None /\ dev' = dev
  BY DEF Serving, SqlQuery, SqlNowhere, Connect, ConnectNowhere, Connected, GenerateImage,
         Free, Becomes
<1>2. CASE SqlQuery
  BY <1>1, <1>2, SqlNew DEF SqlQuery, Becomes, CallOK
<1>3. CASE SqlNowhere
  <2>1. Sql(None).pc # "done"
    BY DEF Sql
  <2> QED
    BY <1>1, <1>3, <2>1, SqlNew, AnswerOK DEF SqlNowhere, Becomes, CallOK
<1>4. CASE Connect
  BY <1>1, <1>4 DEF Connect, Becomes, Conn, ConnCall, CallOK, Called, Catalogue
<1>5. CASE ConnectNowhere
  BY <1>1, <1>5 DEF ConnectNowhere, Becomes, Conn, ConnCall, CallOK
<1>6. CASE Connected
  <2>1. call \in ConnCall
    BY <1>6 DEF Connected, Serving, CallOK, SqlOK, SqlCall, ImageOK, ImageCall
  <2> QED
    BY <1>1, <1>6, <2>1 DEF Connected, Becomes, responseFromFetchPayload, ConnCall, CallOK
<1>7. CASE GenerateImage
  <2>1. <<>> \in Messages
    BY DEF Messages
  <2>2. ImageOK(call')
    BY <1>7, <2>1 DEF GenerateImage, Becomes, ImageOK
  <2> QED
    BY <1>1, <2>2 DEF CallOK
<1> QED
  BY <1>2, <1>3, <1>4, <1>5, <1>6, <1>7

-----------------------------------------------------------------------------
(* Every step of the services and of the tools.                             *)

LEMMA ServeKeeps ==
    ASSUME IInv, Serving, Serve
    PROVE  UNCHANGED vars /\ Serving'
<1>1. UNCHANGED vars
  BY DEF Serve, StartDev, StopDev, Returned, SqlQuery, SqlNowhere, Respond, Chunk, EndOfBody,
         Broken, Timeout, Aborted, Connect, ConnectNowhere, Connected, GenerateImage, Becomes
<1>2. ASSUME dev' \in Names \cup {None}, dev' # None => dir[dev'] # None,
             call' # None => dev' # None /\ CallOK(call')
      PROVE  Serving'
  BY <1>1, <1>2 DEF Serving, vars, CallOK, ImageOK
<1>3. dev \in Names \cup {None} /\ (dev # None => dir[dev] # None) /\ (call # None => dev # None)
  BY DEF Serving
<1>4. ASSUME NEW n \in Names, StartDev(n)
      PROVE  Serving'
  <2>1. dir[n] # None
    BY <1>4 DEF StartDev, IInv, Made, HasConfig
  <2> QED
    BY <1>2, <1>4, <1>3, <2>1 DEF StartDev
<1>5. CASE StopDev \/ Returned
  BY <1>1, <1>2, <1>5, <1>3 DEF StopDev, Returned, Becomes
<1>6. CASE Respond \/ Chunk \/ EndOfBody \/ Broken \/ Timeout \/ Aborted
  <2>1. CallOK(call') /\ dev' = dev /\ dev # None
    BY <1>6, RespondOK, ChunkOK, EndOfBodyOK, EndedOK, TimeoutOK DEF CallOK
  <2> QED
    BY <1>1, <1>2, <1>3, <2>1
<1>7. CASE \/ SqlQuery \/ SqlNowhere \/ Connect \/ ConnectNowhere \/ Connected
           \/ GenerateImage
  BY <1>1, <1>2, <1>7, <1>3, OtherCalls
<1> QED
  BY <1>1, <1>4, <1>5, <1>6, <1>7 DEF Serve

LEMMA ToolsKeep ==
    ASSUME IInv, IInv', Serving, dev = None, Next, UNCHANGED local
    PROVE  Serving'
<1> DEFINE Counts == /\ version' \in [Files -> 1..(MaxEdits + 1)]
                     /\ mixed' \subseteq Names
                     /\ runs' \in 0..MaxRuns
<1>1. version \in [Files -> 1..(MaxEdits + 1)] /\ mixed \subseteq Names /\ runs \in 0..MaxRuns
  BY DEF Serving
<1>2. MaxRuns \in Nat /\ MaxEdits \in Nat
  BY ScaffoldAssumption
<1>3. ASSUME NEW p \in Procs, Create(p) \/ Publish(p)
      PROVE  Counts
  BY <1>1, <1>2, <1>3 DEF Create, Creates, Publish, Publishes, Begins
<1>4. ASSUME NEW f \in Files, Edit(f)
      PROVE  Counts
  <2>1. version[f] + 1 \in 1..(MaxEdits + 1)
    BY <1>1, <1>2, <1>4 DEF Edit
  <2> QED
    BY <1>1, <1>4, <2>1 DEF Edit
<1>5. ASSUME NEW n \in Names, DeployByHand(n)
      PROVE  Counts
  BY <1>1, <1>5 DEF DeployByHand, Mixing
<1>9. ASSUME NEW p \in Procs, Deploy(p)
      PROVE  Counts
  BY <1>1, <1>9 DEF Deploy, Mixing
<1>6. UNCHANGED <<version, mixed, runs>> => Counts
  BY <1>1
<1>7. ASSUME NEW p \in Procs, \/ CopyTemplate(p) \/ FetchPreset(p) \/ WriteCss(p)
                              \/ WriteComponents(p) \/ Configure(p) \/ Install(p)
                              \/ WriteConfig(p) \/ WriteWorker(p) \/ CopyBundle(p)
                              \/ WriteIndex(p) \/ CopyFile(p) \/ Kill(p)
      PROVE  UNCHANGED <<version, mixed, runs>>
  BY <1>7 DEF CopyTemplate, FetchPreset, WriteCss, WriteComponents, Configure, Install,
              WriteConfig, WriteWorker, CopyBundle, WriteIndex, CopyFile, Kill, Writes
<1>8. Counts
  BY <1>3, <1>4, <1>5, <1>6, <1>7, <1>9 DEF Next
<1> QED
  BY <1>8 DEF Serving, local

LEMMA AllInductive == FairSpec => [](IInv /\ Serving)
<1>1. AllInit => IInv /\ Serving
  BY InitHolds, ScaffoldAssumption DEF AllInit, Init, Serving
<1>2. IInv /\ Serving /\ [AllNext]_allVars => (IInv /\ Serving)'
  <2> SUFFICES ASSUME IInv, Serving, [AllNext]_allVars
               PROVE  IInv' /\ Serving'
    OBVIOUS
  <2>1. CASE dev = None /\ Next /\ UNCHANGED local
    BY <2>1, NextKeeps, ToolsKeep
  <2>2. CASE Serve
    BY <2>2, NextKeeps, ServeKeeps
  <2>3. CASE UNCHANGED allVars
    <3>1. IInv'
      BY <2>3, NextKeeps DEF allVars
    <3> QED
      BY <2>3, <3>1 DEF allVars, vars, local, Serving, CallOK, ImageOK
  <2> QED
    BY <2>1, <2>2, <2>3 DEF AllNext
<1> QED
  BY <1>1, <1>2, PTL DEF FairSpec

(* The types of the directories, the runs, the server and its calls: while  *)
(* an app has a call there is a server, of a directory that is there, and a *)
(* query has a timer just as long as it is not answered (the finally clause *)
(* of request, data-proxy.ts).                                              *)
THEOREM ServicesTypeCorrect == FairSpec => []TypeOK
<1>1. ASSUME IInv, Serving
      PROVE  TypeOK
  <2>1. ASSUME call # None
        PROVE  call.pc \in {"fetch", "read", "done"}
    BY <1>1, <2>1 DEF Serving, CallOK, SqlOK, SqlCall, ConnCall, ImageOK, ImageCall
  <2>2. ASSUME call # None, call.svc = "sql"
        PROVE  /\ call.timer \in {"armed", "fired", "off"}
               /\ call.pc = "done" <=> call.timer = "off"
               /\ call.got \in 0..call.size /\ call.text \in 0..call.got
    BY <1>1, <2>2, CallIsSql DEF Serving, SqlOK, SqlCall
  <2> QED
    BY <1>1, <2>1, <2>2 DEF IInv, Typed, Serving, TypeOK
<1> QED
  BY <1>1, AllInductive, PTL

-----------------------------------------------------------------------------
(* The order of images.                                                     *)

LEMMA LeastNat ==
    ASSUME NEW T \in SUBSET Nat, T # {}
    PROVE  \E n \in T : \A m \in T : n <= m
<1> DEFINE R == OpToRel(<, Nat)
<1>1. IsWellFoundedOn(R, Nat)
  BY NatLessThanWellFounded
<1>2. PICK n \in T : \A m \in T : ~(<<m, n>> \in R)
  BY <1>1, WFMin
<1>3. ASSUME NEW m \in T
      PROVE  n <= m
  <2>1. ~(m < n)
    BY <1>2, <1>3 DEF OpToRel
  <2> QED
    BY <2>1
<1> QED
  BY <1>3

(* The first of the images with a url is one that no other is before.       *)
LEMMA FirstImage ==
    ASSUME NEW items \in Messages, NEW k \in DOMAIN items, items[k].url
    PROVE  /\ Images(items) # <<>>
           /\ Images(items)[1] \in DOMAIN items
           /\ items[Images(items)[1]].url
           /\ IndexOf(items, Images(items)[1]) <= IndexOf(items, k)
<1> DEFINE with == {j \in DOMAIN items : items[j].url}
           earlier(i) == {j \in with : Before(items, j, i)}
           T == {IndexOf(items, j) : j \in with}
<1>1. PICK m \in 0..2 : items \in [1..m -> Items]
  BY DEF Messages
<1>2. \A j \in with : j \in 1..m /\ items[j] \in Items
  BY <1>1
<1>3. \A j \in with : IndexOf(items, j) \in Nat
  BY <1>2 DEF Items, IndexOf
<1>4. with \subseteq Nat /\ T \subseteq Nat /\ k \in with
  BY <1>2, <1>3
<1>5. IsFiniteSet(with) /\ \A i : IsFiniteSet(earlier(i))
  <2>1. IsFiniteSet(1..m) /\ with \subseteq 1..m /\ \A i : earlier(i) \subseteq 1..m
    BY <1>2, FS_Interval
  <2> QED
    BY <2>1, FS_Subset
<1>6. \E l \in with : earlier(l) = {}
  <2>1. PICK n \in T : \A i \in T : n <= i
    BY <1>4, LeastNat
  <2> DEFINE U == {j \in with : IndexOf(items, j) = n}
  <2>2. U \subseteq Nat /\ U # {}
    BY <1>4, <2>1
  <2>3. PICK l \in U : \A j \in U : l <= j
    BY <2>2, LeastNat
  <2>4. ASSUME NEW j \in with, Before(items, j, l)
        PROVE  FALSE
    <3>1. IndexOf(items, j) \in T /\ IndexOf(items, l) = n /\ n <= IndexOf(items, j)
      BY <2>1, <2>3
    <3>2. IndexOf(items, j) = n /\ j < l
      BY <1>3, <2>3, <2>4, <3>1 DEF Before
    <3>3. l <= j
      BY <2>3, <3>2
    <3> QED
      BY <1>4, <2>2, <2>3, <3>2, <3>3
  <2> QED
    BY <2>3, <2>4
<1> DEFINE First(i) == Cardinality(earlier(i)) = 1 - 1
           c == CHOOSE i \in with : First(i)
<1>7. c \in with /\ earlier(c) = {}
  <2>1. \A i : First(i) <=> earlier(i) = {}
    <3>1. ASSUME NEW i
          PROVE  First(i) <=> earlier(i) = {}
      <4> DEFINE E == earlier(i)
      <4>1. IsFiniteSet(E)
        BY <1>5
      <4> HIDE DEF E
      <4>2. Cardinality(E) = 1 - 1 <=> E = {}
        BY <4>1, FS_EmptySet
      <4> QED
        BY <4>2 DEF E
    <3> QED
      BY <3>1
  <2> HIDE DEF First, earlier
  <2>2. c \in with /\ First(c)
    BY <1>6, <2>1
  <2> QED
    BY <2>1, <2>2
<1>8. 1 \in 1..Cardinality(with)
  <2>1. Cardinality(with) \in Nat /\ Cardinality(with) # 0
    BY <1>4, <1>5, FS_CardinalityType, FS_EmptySet
  <2> QED
    BY <2>1
<1>9. Images(items)[1] = c
  BY <1>8 DEF Images
<1>12. Images(items) # <<>>
  <2>1. 1 \in DOMAIN Images(items)
    BY <1>8 DEF Images
  <2> QED
    BY <2>1
<1> HIDE DEF c
<1>10. ~Before(items, k, c)
  BY <1>4, <1>7
<1>11. IndexOf(items, c) <= IndexOf(items, k)
  BY <1>3, <1>4, <1>7, <1>10 DEF Before
<1> QED
  BY <1>7, <1>9, <1>11, <1>12

(* An app is given data for a whole body of a good answer only, never more  *)
(* of a body than the limit, however chunks, lengths that are declared, the *)
(* timer and breaking connections come (request, readTextWithLimit).        *)
THEOREM AnswersSound == FairSpec => []AnswerSound
<1>1. ASSUME Serving, call # None, call.svc = "sql"
      PROVE  /\ call.text <= resolveMaxResponseBytes(call.raw)
             /\ call.res = "data" => call.status = "ok" /\ call.text = call.size
  BY <1>1, CallIsSql DEF Serving, SqlOK
<1>2. Serving => AnswerSound
  BY <1>1 DEF AnswerSound
<1> QED
  BY <1>2, AllInductive, PTL

(* An answer with images that have a url has a first one, which none of     *)
(* them comes before, whichever of them carry an index                      *)
(* (parseGenerateImageResponse).                                            *)
THEOREM FirstAlwaysShown == FairSpec => []FirstShown
<1>1. ASSUME Serving, call # None, call.svc = "image"
      PROVE  ImageOK(call)
  BY <1>1 DEF Serving, SqlOK, SqlCall, ConnCall, CallOK
<1>2. ASSUME Serving, call # None, call.svc = "image", call.res = "images",
             NEW k \in DOMAIN call.items, call.items[k].url
      PROVE  /\ call.images # <<>>
             /\ call.images[1] \in DOMAIN call.items
             /\ call.items[call.images[1]].url
             /\ IndexOf(call.items, call.images[1]) <= IndexOf(call.items, k)
  <2>1. PICK items \in Messages, res \in {"error", "images", "unbound"} :
            call = ImageCall(items, res)
    BY <1>1, <1>2 DEF ImageOK
  <2>2. call.items = items /\ call.images = Images(items)
    BY <1>2, <2>1 DEF ImageCall
  <2> QED
    BY <1>2, <2>1, <2>2, FirstImage
<1>3. Serving => FirstShown
  BY <1>2 DEF FirstShown
<1> QED
  BY <1>3, AllInductive, PTL
=============================================================================
