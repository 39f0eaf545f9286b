--------------------------- MODULE LocalServices ----------------------------
(***************************************************************************)
(* The development server of a created project and the three services its   *)
(* worker binds to itself: workers/data-proxy.ts, workers/connections.ts    *)
(* behind the proxies of app/lib/connections.ts, workers/camelai-service.ts. *)
(* A call reaches a service when the binding names the worker that runs.    *)
(* The services behind (databases, connections, models) answer or do not.   *)
(***************************************************************************)
EXTENDS Scaffold, Integers, FiniteSets

CONSTANTS
    DefaultMax, \* DEFAULT_MAX_RESPONSE_BYTES, in chunks
    RawLimits,  \* what DATA_PROXY_MAX_RESPONSE_BYTES may be, in chunks, or None
    MaxBody     \* the longest body a service behind sends, in chunks

VARIABLES
    dev,        \* the project whose server runs, or None
    call        \* the call an app made last, or None

local == <<dev, call>>
allVars == <<vars, local>>

ASSUME Limits ==
    /\ DefaultMax \in Nat \ {0} /\ MaxBody \in Nat
    /\ RawLimits \subseteq Int \cup {None}

\* "bun dev" of a project that was said to be ready, after the tools are done.
StartDev(n) ==
    /\ dev = None
    /\ \A p \in Procs : run[p] = None
    /\ n \in ready
    /\ ~dir[n].config.static
    /\ dev' = n
    /\ UNCHANGED <<vars, call>>

StopDev ==
    /\ dev # None
    /\ dev' = None
    /\ call' = None
    /\ UNCHANGED vars

Free == dev # None /\ call = None

\* Whether the binding b of the project that runs is of its own worker.
Bound(b) == dir[dev].config.service[b] = dir[dev].config.name

Becomes(c) == call' = c /\ UNCHANGED <<vars, dev>>

\* The app has its answer.
Returned ==
    /\ call # None /\ call.pc = "done"
    /\ Becomes(None)

-----------------------------------------------------------------------------
(* DATA_PROXY: request, for each of its three methods.                     *)

\* A value that is not there, not a number or not positive counts for nothing.
resolveMaxResponseBytes(raw) ==
    IF raw = None THEN DefaultMax ELSE IF raw <= 0 THEN DefaultMax ELSE raw

Sql(raw) ==
    [svc |-> "sql", raw |-> raw, pc |-> "fetch", timer |-> "armed", status |-> "none",
     body |-> "none", size |-> 0, declared |-> 0, got |-> 0, text |-> 0,
     res |-> "none"]

OnSql(pc) == call # None /\ call.svc = "sql" /\ call.pc = pc
Waiting == call # None /\ call.svc = "sql" /\ call.pc \in {"fetch", "read"}

(* Mutated form of Answer: without the finally clause. *)
AnswerAlone(c, res) == [c EXCEPT !.pc = "done", !.res = res]

\* The finally clause: with the answer, the timer goes.
Answer(c, res) == [c EXCEPT !.pc = "done", !.res = res, !.timer = "off"]

\* A method of the shim.
SqlQuery ==
    /\ Free /\ Bound("DATA_PROXY")
    /\ \E raw \in RawLimits : Becomes(Sql(raw))

\* baseUrl: without DATA_PROXY_URL it throws.
SqlNowhere ==
    /\ Free /\ Bound("DATA_PROXY")
    /\ Becomes(Answer(Sql(None), "error"))

(* Mutated form of Headed: the timer is for the headers. *)
HeadedOff(c) == [c EXCEPT !.pc = "read", !.timer = "off"]

Headed(c) == [c EXCEPT !.pc = "read"]

(* Mutated form of TooLarge: the declared length is believed. *)
TooLargeDeclared(c, total) == c.declared > resolveMaxResponseBytes(c.raw)

TooLarge(c, total) == total > resolveMaxResponseBytes(c.raw)

\* The headers arrive, with a length of the body or none (0), which need not be that
\* of what is read; a body that is declared to be too large is not read.
Respond ==
    /\ OnSql("fetch")
    /\ \E status \in {"ok", "error"}, body \in {"object", "null", "other"},
          size \in 0..MaxBody, declared \in 0..MaxBody :
        LET c == [call EXCEPT !.status = status, !.body = body, !.size = size,
                              !.declared = declared]
        IN  Becomes(IF TooLarge(c, declared) THEN Answer(c, "error") ELSE Headed(c))

\* A chunk, kept when the whole is within the limit.
Chunk ==
    /\ OnSql("read")
    /\ \E k \in 1..MaxBody :
        /\ call.got + k <= call.size
        /\ LET c == [call EXCEPT !.got = @ + k] IN
            Becomes(IF TooLarge(c, c.got) THEN Answer(c, "error")
                  ELSE [c EXCEPT !.text = @ + k])

\* The body of the response is parsed: nothing is an object, what is not JSON an
\* object with an error, null stays null and has no error to read.
Payload(c) == IF c.text = 0 THEN "object" ELSE c.body

EndOfBody ==
    /\ OnSql("read")
    /\ call.got = call.size
    /\ Becomes(Answer(call, IF call.status = "ok" THEN "data"
                          ELSE IF Payload(call) = "null" THEN "error"
                          ELSE "status"))

\* The connection breaks.
Broken ==
    /\ Waiting
    /\ Becomes(Answer(call, "error"))

Timeout ==
    /\ call # None /\ call.svc = "sql" /\ call.timer = "armed"
    /\ Becomes([call EXCEPT !.timer = "fired"])

\* What the request waits for is aborted.
Aborted ==
    /\ Waiting
    /\ call.timer = "fired"
    /\ Becomes(Answer(call, "504"))

-----------------------------------------------------------------------------
(* CONNECTIONS: the proxies of createConnections over LocalConnectionsService. *)

Conn == [svc |-> "conn", pc |-> "fetch", method |-> "none", res |-> "none"]

\* The methods of the shim an app calls by name.
Catalogue == {"methods", "find", "test", "list", "get", "tools"}

\* What a method of a connection calls.  A property "then" of either proxy is
\* undefined, so that awaiting one calls nothing.
Called(connection, method) ==
    IF connection = "then" THEN None
    ELSE IF connection \in Catalogue THEN connection
    ELSE IF method = "then" THEN None ELSE "invoke"

\* A call of the catalogue or of a connection; it has no timer.
Connect ==
    /\ Free /\ Bound("CONNECTIONS")
    /\ \E connection \in {"then", "list", "stripe"}, method \in {"then", "fetch", "charge"} :
        /\ Called(connection, method) # None
        /\ Becomes([Conn EXCEPT !.method =
                        IF Called(connection, method) = "invoke" THEN method
                        ELSE Called(connection, method)])

\* fallbackConnectionsUrl: neither url is set.
ConnectNowhere ==
    /\ Free /\ Bound("CONNECTIONS")
    /\ Becomes([Conn EXCEPT !.pc = "done", !.res = "error"])

\* What a fetch gets is made a response when it has a status.
responseFromFetchPayload(payload) == IF payload = "status" THEN "response" ELSE payload

\* The answer: an error status throws, a body that is not JSON is null.
Connected ==
    /\ call # None /\ call.svc = "conn" /\ call.pc = "fetch"
    /\ \/ Becomes([call EXCEPT !.pc = "done", !.res = "error"])
       \/ \E body \in {"null", "object", "status"} :
            Becomes([call EXCEPT !.pc = "done",
                                 !.res = IF call.method = "fetch"
                                         THEN responseFromFetchPayload(body) ELSE body])

-----------------------------------------------------------------------------
(* CAMELAI: generateImage.                                                 *)

Items == [url : BOOLEAN, index : {0, 1, None}]
Messages == UNION {[1..k -> Items] : k \in 0..2}

\* Where an image without an index goes: where it came, from 0.
IndexOf(items, k) == IF items[k].index = None THEN k - 1 ELSE items[k].index

(* Mutated form of Before: images without an index come last. *)
BeforeNamed(items, j, k) ==
    \/ items[j].index # None /\ items[k].index = None
    \/ items[j].index # None /\ items[k].index # None /\ items[j].index < items[k].index
    \/ items[j].index = items[k].index /\ j < k

\* The sort is stable.
Before(items, j, k) ==
    \/ IndexOf(items, j) < IndexOf(items, k)
    \/ IndexOf(items, j) = IndexOf(items, k) /\ j < k

\* parseGenerateImageResponse: the items that have a url, each behind the ones that
\* are before it; of what has no such list there is no image.
Images(items) ==
    LET with == {k \in DOMAIN items : items[k].url}
        earlier(k) == {j \in with : Before(items, j, k)}
    IN  [i \in 1..Cardinality(with) |->
            CHOOSE k \in with : Cardinality(earlier(k)) = i - 1]

ImageCall(items, res) ==
    [svc |-> "image", pc |-> "done", items |-> items, res |-> res,
     images |-> IF res = "images" THEN Images(items) ELSE <<>>]

\* The parts of what the model is sent; a prompt is needed, a reference not.
buildGenerateImageMessages(prompt, reference) ==
    IF prompt = "" THEN None
    ELSE IF reference = "" THEN <<"text">> ELSE <<"image_url", "text">>

\* An empty prompt throws, and so does a stream; "auto_image" answers at once here.
GenerateImage ==
    /\ Free
    /\ IF Bound("CAMELAI")
       THEN \E prompt \in {"", "a cat"}, reference \in {"", "url"} :
                IF buildGenerateImageMessages(prompt, reference) = None
                THEN Becomes(ImageCall(<<>>, "error"))
                ELSE \/ Becomes(ImageCall(<<>>, "error"))
                     \/ \E items \in Messages : Becomes(ImageCall(items, "images"))
       ELSE Becomes(ImageCall(<<>>, "unbound"))

-----------------------------------------------------------------------------

Serve ==
    \/ \E n \in Names : StartDev(n)
    \/ StopDev
    \/ Returned
    \/ SqlQuery
    \/ SqlNowhere
    \/ Respond
    \/ Chunk
    \/ EndOfBody
    \/ Broken
    \/ Timeout
    \/ Aborted
    \/ Connect
    \/ ConnectNowhere
    \/ Connected
    \/ GenerateImage

AllInit == Init /\ dev = None /\ call = None

\* The server and its calls use what the tools left: a call looks at no directory
\* but through Bound, and while a server runs no tool does.
AllNext == (dev = None /\ Next /\ UNCHANGED local) \/ Serve

\* The clock goes on and an aborted request ends.
FairSpec ==
    /\ AllInit
    /\ [][AllNext]_allVars
    /\ WF_allVars(Timeout)
    /\ WF_allVars(Aborted)

-----------------------------------------------------------------------------

TypeOK ==
    /\ dir \in [Names -> Dir \cup {None}]
    /\ live \in [Names -> Dir \cup {None}]
    /\ run \in [Procs -> Run \cup {None}]
    /\ version \in [Files -> 1..(MaxEdits + 1)]
    /\ ready \subseteq Names /\ mixed \subseteq Names
    /\ runs \in 0..MaxRuns
    /\ dev \in Names \cup {None}
    /\ dev # None => dir[dev] # None
    /\ call # None => dev # None /\ call.pc \in {"fetch", "read", "done"}
    /\ (call # None /\ call.svc = "sql") =>
        /\ call.timer \in {"armed", "fired", "off"}
        /\ call.pc = "done" <=> call.timer = "off"
        /\ call.got \in 0..call.size /\ call.text \in 0..call.got

\* Data is given for a whole body of a good answer only, and never more of a body is
\* kept than the limit, whatever was declared and however the chunks, the end of the
\* connection and the timer come (request, readTextWithLimit).
AnswerSound ==
    call # None /\ call.svc = "sql" =>
        /\ call.text <= resolveMaxResponseBytes(call.raw)
        /\ call.res = "data" => call.status = "ok" /\ call.text = call.size

\* If an image of the answer has a url there is a first one, it has a url, and none
\* with a url has a lower index, whichever of them say which index they have
\* (generateImage, parseGenerateImageResponse).
FirstShown ==
    call # None /\ call.svc = "image" /\ call.res = "images" =>
        \A k \in DOMAIN call.items :
            call.items[k].url =>
                /\ call.images # <<>>
                /\ call.images[1] \in DOMAIN call.items
                /\ call.items[call.images[1]].url
                /\ IndexOf(call.items, call.images[1]) <= IndexOf(call.items, k)

\* A query is answered, at the latest when the time for it is up, also when the
\* service behind stops in the middle of a body (request, the timer and finally).
SqlAnswered == OnSql("fetch") ~> (call = None \/ call.pc = "done")
=============================================================================
