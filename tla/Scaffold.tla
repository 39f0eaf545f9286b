------------------------------ MODULE Scaffold ------------------------------
(***************************************************************************)
(* The two tools of the sandbox that make directories and workers:          *)
(* create-worker.mjs copies the starter template and styles it, publish.mjs *)
(* wraps a file in a static worker and deploys it.  Both are run in one     *)
(* working directory, at once or one after the other, and may be killed     *)
(* between any two of their writes.                                         *)
(***************************************************************************)
EXTENDS Naturals, Sequences, SequencesExt

CONSTANTS
    Names,          \* names of projects: directories and workers
    Files,          \* names of files to publish
    Procs,          \* runs of a tool at the same time
    CreateLines,    \* arguments create-worker is run with
    PublishLines,   \* arguments publish is run with
    MaxRuns,        \* bound on the runs of a tool
    MaxEdits,       \* bound on the edits of a file
    None            \* nothing there

Bindings == {"DATA_PROXY", "CONNECTIONS", "CAMELAI"}
OPTIONS == [theme : {"neutral", "amber", "zinc"}, base : {"neutral", "zinc"}]
DEFAULTS == [theme |-> "neutral", base |-> "neutral"]
GrayThemes == {"zinc"}

VARIABLES
    dir,        \* dir[n]: what is in the directory n, or None
    live,       \* live[n]: what was deployed as worker n, or None
    version,    \* version[f]: the content of file f
    run,        \* run[p]: what p does, or None
    ready,      \* names whose last command said what to run next
    mixed,      \* names two runs, or a run and a deploy, worked on at once, and
                \* workers deployed from such a directory; history
    runs        \* runs so far, a count

vars == <<dir, live, version, run, ready, mixed, runs>>

-----------------------------------------------------------------------------
(* Command lines.  The options but theme and base color are checked, fetched *)
(* and written like these two and left out.                                *)

Flags == ("--theme" :> "theme") @@ ("--base-color" :> "base")

\* parseArgs of create-worker: a flag takes the argument after it, whatever it is;
\* an argument that is no flag is the name, once.
CreateArgs(args) ==
    LET Take(acc, arg) ==
        IF acc.help THEN acc
        ELSE IF acc.flag # None
             THEN [acc EXCEPT !.options[acc.flag] = arg, !.flag = None]
        ELSE IF arg = "--help" THEN [acc EXCEPT !.help = TRUE]
        ELSE IF arg \in DOMAIN Flags THEN [acc EXCEPT !.flag = Flags[arg]]
        ELSE IF arg \in Names /\ acc.name = None THEN [acc EXCEPT !.name = arg]
        ELSE acc
    IN FoldLeft(Take, [help |-> FALSE, flag |-> None, name |-> None,
                       options |-> DEFAULTS], args)

(* Mutated form of validateOptions: each value for itself. *)
InLists(options) == options \in OPTIONS

\* validateOptions: values are of the lists, and a gray theme is the base color.
validateOptions(options) ==
    /\ options \in OPTIONS
    /\ options.theme \in GrayThemes => options.base = options.theme

\* parseArgs of publish.
PublishArgs(args) ==
    LET Take(acc, arg) ==
        IF acc.help THEN acc
        ELSE IF acc.flag THEN [acc EXCEPT !.file = arg, !.flag = FALSE]
        ELSE IF arg = "--help" THEN [acc EXCEPT !.help = TRUE]
        ELSE IF arg = "--file" THEN [acc EXCEPT !.flag = TRUE]
        ELSE IF arg \in Names /\ acc.name = None THEN [acc EXCEPT !.name = arg]
        ELSE acc
    IN FoldLeft(Take, [help |-> FALSE, flag |-> FALSE, name |-> None, file |-> None],
                args)

-----------------------------------------------------------------------------
(* Directories.                                                            *)

\* wrangler.jsonc of the template.
TemplateConfig == [name |-> "starter", static |-> FALSE,
                   service |-> [b \in Bindings |-> "starter"]]

\* wrangler.jsonc as generateWranglerConfig writes it.
StaticConfig(n) == [name |-> n, static |-> TRUE, service |-> [b \in Bindings |-> None]]

\* What a directory holds: the template's files, its wrangler.jsonc, the options
\* of app.css and of components.json, whether there is a worker.js, the file the
\* viewer opens with the version it had when that publish began, the published files.
Empty == [app |-> FALSE, config |-> None, css |-> None, components |-> None,
          worker |-> FALSE, index |-> None, since |-> 0,
          files |-> [f \in Files |-> 0]]

\* The types of these.
Config == [name : Names \cup {"starter"}, static : BOOLEAN,
           service : [Bindings -> Names \cup {"starter", None}]]
Dir == [app : BOOLEAN, config : Config \cup {None}, css : OPTIONS \cup {None},
        components : OPTIONS \cup {None}, worker : BOOLEAN,
        index : Files \cup {None}, since : Nat, files : [Files -> Nat]]
Run == [name : Names, options : OPTIONS, file : Files \cup {None}, since : Nat,
        step : {"copy", "fetch", "css", "components", "configure", "install",
                "config", "worker", "bundle", "title", "file", "deploy"}]

ASSUME ScaffoldAssumption ==
    /\ None \notin Files \cup Config \cup OPTIONS \cup Dir \cup Run
    /\ None \notin Names \cup {"starter"}
    /\ MaxRuns \in Nat /\ MaxEdits \in Nat

Working(n) == {p \in Procs : run[p] # None /\ run[p].name = n}

Init ==
    /\ dir = [n \in Names |-> None]
    /\ live = [n \in Names |-> None]
    /\ version = [f \in Files |-> 1]
    /\ run = [p \in Procs |-> None]
    /\ ready = {}
    /\ mixed = {}
    /\ runs = 0

\* A run on n begins: what was said about n before is out of date.
Begins(p, n, r) ==
    /\ run[p] = None
    /\ runs < MaxRuns
    /\ runs' = runs + 1
    /\ run' = [run EXCEPT ![p] = r]
    /\ ready' = ready \ {n}
    /\ mixed' = IF Working(n) # {} THEN mixed \cup {n} ELSE mixed
    /\ UNCHANGED <<dir, live, version>>

Goes(p, step) == run' = [run EXCEPT ![p].step = step]
Ends(p) == run' = [run EXCEPT ![p] = None]

\* p changes the directory of its project and goes on.
Writes(p, contents, step) ==
    /\ dir' = [dir EXCEPT ![run[p].name] = contents]
    /\ Goes(p, step)
    /\ UNCHANGED <<live, version, ready, mixed, runs>>

At(p, step) == run[p] # None /\ run[p].step = step

\* The directory as a write that makes it finds it.
Found(n) == IF dir[n] = None THEN Empty ELSE dir[n]

-----------------------------------------------------------------------------
(* create-worker.                                                          *)

\* The command lines that start a run: bad arguments end it before it writes.
Creates == {parsed \in {CreateArgs(args) : args \in CreateLines} :
                ~parsed.help /\ parsed.name \in Names /\ validateOptions(parsed.options)}

\* An existing directory ends the run.
Create(p) ==
    \E parsed \in Creates :
        /\ dir[parsed.name] = None
        /\ Begins(p, parsed.name,
                  [name |-> parsed.name, step |-> "copy", options |-> parsed.options,
                   file |-> None, since |-> 0])

\* copyTemplate: over whatever came to be there, to the end or not.
CopyTemplate(p) ==
    /\ At(p, "copy")
    /\ LET n == run[p].name IN
        \/ Writes(p, [Found(n) EXCEPT !.app = TRUE, !.config = TemplateConfig], "fetch")
        \/ /\ dir' = [dir EXCEPT ![n] = Found(n)]
           /\ Ends(p)
           /\ UNCHANGED <<live, version, ready, mixed, runs>>

\* fetchPresetConfig: what was copied stays when it fails.
FetchPreset(p) ==
    /\ At(p, "fetch")
    /\ Goes(p, "css") \/ Ends(p)
    /\ UNCHANGED <<dir, live, version, ready, mixed, runs>>

WriteCss(p) ==
    /\ At(p, "css")
    /\ Writes(p, [Found(run[p].name) EXCEPT !.css = run[p].options], "components")

WriteComponents(p) ==
    /\ At(p, "components")
    /\ Writes(p, [Found(run[p].name) EXCEPT !.components = run[p].options], "configure")

\* The three replacements in wrangler.jsonc: the name, and the service of two of
\* the three bindings the template has.
Renamed(config, n) ==
    [config EXCEPT !.name = n,
                   !.service = [b \in Bindings |->
                        IF b \in {"DATA_PROXY", "CONNECTIONS"} /\ config.service[b] # None
                        THEN n ELSE config.service[b]]]

\* wrangler.jsonc, if it is there.
Configure(p) ==
    /\ At(p, "configure")
    /\ LET n == run[p].name IN
        dir' = IF dir[n] = None \/ dir[n].config = None THEN dir
               ELSE [dir EXCEPT ![n].config = Renamed(@, n)]
    /\ Goes(p, "install")
    /\ UNCHANGED <<live, version, ready, mixed, runs>>

\* package.json and "bun install", whose failure is a warning; then the user is told
\* what to run next.
Install(p) ==
    /\ At(p, "install")
    /\ ready' = ready \cup {run[p].name}
    /\ Ends(p)
    /\ UNCHANGED <<dir, live, version, mixed, runs>>

-----------------------------------------------------------------------------
(* publish.                                                                *)

\* A name and a file are needed.
Publishes == {parsed \in {PublishArgs(args) : args \in PublishLines} :
                ~parsed.help /\ parsed.name \in Names /\ parsed.file # None}

\* The file has to be there; the directory may be.
Publish(p) ==
    \E parsed \in Publishes :
        /\ parsed.file \in Files
        /\ Begins(p, parsed.name,
                  [name |-> parsed.name, step |-> "config", options |-> DEFAULTS,
                   file |-> parsed.file, since |-> version[parsed.file]])

\* mkdirSync and wrangler.jsonc: an app in the directory loses its configuration.
WriteConfig(p) ==
    /\ At(p, "config")
    /\ LET n == run[p].name IN
        Writes(p, [Found(n) EXCEPT !.config = StaticConfig(n)], "worker")

WriteWorker(p) ==
    /\ At(p, "worker")
    /\ Writes(p, [Found(run[p].name) EXCEPT !.worker = TRUE], "bundle")

\* copyRendererBundle: the index of the bundle, then with the name of the file.
CopyBundle(p) ==
    /\ At(p, "bundle")
    /\ Writes(p, [Found(run[p].name) EXCEPT !.index = None], "title")

WriteIndex(p) ==
    /\ At(p, "title")
    /\ Writes(p, [Found(run[p].name) EXCEPT !.index = run[p].file,
                                            !.since = run[p].since], "file")

(* Mutated form of Copied: without force, a file that is there stays. *)
CopiedOnce(files, f) == IF files[f] = 0 THEN [files EXCEPT ![f] = version[f]] ELSE files

\* cpSync with force.
Copied(files, f) == [files EXCEPT ![f] = version[f]]

CopyFile(p) ==
    /\ At(p, "file")
    /\ LET n == run[p].name IN
        Writes(p, [Found(n) EXCEPT !.files = Copied(@, run[p].file)], "deploy")

\* wrangler deploy, of the worker that the directory names.
Deploys(n) == live' = [live EXCEPT ![dir[n].config.name] = dir[n]]

\* That worker is as mixed as the directory: one that two runs worked on may still
\* have the template's name.
Mixing(m, n) == IF n \in m THEN m \cup {dir[n].config.name} ELSE m

\* A deploy that fails can be tried again by hand.
Deploy(p) ==
    /\ At(p, "deploy")
    /\ LET n == run[p].name IN
        \/ /\ dir[n].config.name \in Names
           /\ Deploys(n)
           /\ mixed' = Mixing(mixed, n)
           /\ UNCHANGED ready
        \/ /\ ready' = ready \cup {n}
           /\ UNCHANGED <<live, mixed>>
    /\ Ends(p)
    /\ UNCHANGED <<dir, version, runs>>

-----------------------------------------------------------------------------
(* What happens around the tools.                                          *)

\* What a finished create-worker, or a publish that could not deploy, told to do.
DeployByHand(n) ==
    /\ n \in ready
    /\ dir[n].config # None
    /\ dir[n].config.name \in Names
    /\ Deploys(n)
    /\ mixed' = Mixing(IF Working(n) # {} THEN mixed \cup {n} ELSE mixed, n)
    /\ UNCHANGED <<dir, version, run, ready, runs>>

Edit(f) ==
    /\ version[f] <= MaxEdits
    /\ version' = [version EXCEPT ![f] = @ + 1]
    /\ UNCHANGED <<dir, live, run, ready, mixed, runs>>

Kill(p) ==
    /\ run[p] # None
    /\ Ends(p)
    /\ UNCHANGED <<dir, live, version, ready, mixed, runs>>

Next ==
    \/ \E p \in Procs :
        \/ Create(p)
        \/ CopyTemplate(p)
        \/ FetchPreset(p)
        \/ WriteCss(p)
        \/ WriteComponents(p)
        \/ Configure(p)
        \/ Install(p)
        \/ Publish(p)
        \/ WriteConfig(p)
        \/ WriteWorker(p)
        \/ CopyBundle(p)
        \/ WriteIndex(p)
        \/ CopyFile(p)
        \/ Deploy(p)
        \/ Kill(p)
    \/ \E n \in Names : DeployByHand(n)
    \/ \E f \in Files : Edit(f)

Spec == Init /\ [][Next]_vars

-----------------------------------------------------------------------------

\* An app somebody is told to run or deploy is styled as one command line asked,
\* coherently, and it, its data proxy and its connections have its own name, however
\* many runs ended half way before it (createProject, validateOptions).  Its third
\* service, CAMELAI, is the template's still: see Renamed.
Whole(n, d) ==
    /\ d.app /\ d.css # None /\ d.css = d.components
    /\ d.css.theme \in GrayThemes => d.css.base = d.css.theme
    /\ d.config.name = n
    /\ \A b \in {"DATA_PROXY", "CONNECTIONS"} : d.config.service[b] = n

AppWhole ==
    \A n \in Names \ mixed :
        /\ n \in ready /\ ~dir[n].config.static => Whole(n, dir[n])
        /\ live[n] # None /\ ~live[n].config.static => Whole(n, live[n])

\* The viewer that is deployed has its worker and opens a file that is deployed with
\* it, as it was when its publish began or newer: also after runs that were killed,
\* deploys that failed and were tried again, and files published there before
\* (publish).
PublishedWhole ==
    \A n \in Names \ mixed :
        live[n] # None /\ live[n].config.static =>
            /\ live[n].worker /\ live[n].index # None
            /\ live[n].files[live[n].index] >= live[n].since
=============================================================================
