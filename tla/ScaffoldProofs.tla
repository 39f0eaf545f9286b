--------------------------- MODULE ScaffoldProofs ---------------------------
(***************************************************************************)
(* What the two tools leave, for any names, files and runs at once: apps   *)
(* and viewers that are whole.  The inductive invariant IInv says how far  *)
(* a run that is alone on its name has come in the directory of that name. *)
(***************************************************************************)
EXTENDS Scaffold, TLAPS

Typed ==
    /\ dir \in [Names -> Dir \cup {None}]
    /\ live \in [Names -> Dir \cup {None}]
    /\ version \in [Files -> Nat]
    /\ run \in [Procs -> Run \cup {None}]
    /\ ready \subseteq Names

\* Grays go with themselves.
Coherent(options) == options.theme \in GrayThemes => options.base = options.theme

\* Runs have options and files as they began with.
Begun ==
    \A p \in Procs : run[p] # None =>
        /\ Coherent(run[p].options)
        /\ run[p].file # None => run[p].since <= version[run[p].file]

\* A directory is configured as the project it is, or still as the template.
Configured(n, d) == d # None /\ d.config # None => d.config.name \in {n, "starter"}

Named == \A n \in Names : Configured(n, dir[n])

\* A configuration once written is never removed, so that a run past its first
\* step and a command to run next have one.
HasConfig(d) == d # None /\ d.config # None

Made ==
    /\ \A p \in Procs : run[p] # None /\ run[p].step \notin {"copy", "config"} =>
            HasConfig(dir[run[p].name])
    /\ \A n \in ready : HasConfig(dir[n])

\* Without a history of overlapping, a run has its name to itself.
Alone ==
    \A n \in Names \ mixed : \A p \in Procs : run[p] # None /\ run[p].name = n =>
        /\ n \notin ready
        /\ \A q \in Procs : run[q] # None /\ run[q].name = n => q = p

Served(d) == d.worker /\ d.index # None /\ d.files[d.index] >= d.since

Sound(n, d) ==
    /\ d # None /\ d.config # None
    /\ d.config.name = n
    /\ IF d.config.static THEN Served(d) ELSE Whole(n, d)

\* What run r has done to the directory d of its name.
Stage(r, d) ==
    /\ r.step \in {"fetch", "css", "components", "configure"} =>
        d # None /\ d.app /\ d.config = TemplateConfig
    /\ r.step \in {"components", "configure"} => d.css = r.options
    /\ r.step = "configure" => d.components = r.options
    /\ r.step = "install" => Sound(r.name, d)
    /\ r.step \in {"config", "worker", "bundle", "title", "file", "deploy"} =>
        r.file \in Files
    /\ r.step \in {"worker", "bundle", "title", "file", "deploy"} =>
        d # None /\ d.config = StaticConfig(r.name)
    /\ r.step \in {"bundle", "title", "file", "deploy"} => d.worker
    /\ r.step \in {"file", "deploy"} => d.index = r.file /\ d.since = r.since
    /\ r.step = "deploy" => d.files[r.file] >= r.since

Staged ==
    \A p \in Procs : run[p] # None /\ run[p].name \notin mixed =>
        Stage(run[p], dir[run[p].name])

Told == \A n \in ready \ mixed : Sound(n, dir[n])

Live == \A n \in Names \ mixed : live[n] # None => Sound(n, live[n])

IInv == Typed /\ Begun /\ Named /\ Made /\ Alone /\ Staged /\ Told /\ Live

-----------------------------------------------------------------------------

\* What a run is.
LEMMA RunTyped ==
    ASSUME Typed, NEW p \in Procs, run[p] # None
    PROVE  /\ run[p] \in Run
           /\ run[p].name \in Names
           /\ dir[run[p].name] \in Dir \cup {None}
  BY DEF Typed, Run

\* A run that goes on to another step is otherwise the same.
LEMMA StepTyped ==
    ASSUME Typed, NEW p \in Procs, run[p] # None, NEW s,
           [run[p] EXCEPT !.step = s] \in Run,
           Goes(p, s)
    PROVE  /\ run' \in [Procs -> Run \cup {None}]
           /\ run'[p] = [run[p] EXCEPT !.step = s]
           /\ \A q \in Procs : q # p => run'[q] = run[q]
           /\ \A q \in Procs : run'[q] # None <=> run[q] # None
           /\ \A q \in Procs : run[q] # None =>
                /\ run'[q].name = run[q].name
                /\ run'[q].file = run[q].file
                /\ run'[q].since = run[q].since
                /\ run'[q].options = run[q].options
<1> DEFINE r == [run[p] EXCEPT !.step = s]
<1>1. run[p] \in Run
  BY RunTyped
<1>2. r \in Run /\ r # None
  BY ScaffoldAssumption
<1>3. run' = [run EXCEPT ![p] = r]
  BY DEF Goes
<1>4. /\ run' \in [Procs -> Run \cup {None}]
      /\ run'[p] = r
      /\ \A q \in Procs : q # p => run'[q] = run[q]
  BY <1>2, <1>3 DEF Typed
<1>5. /\ r.name = run[p].name
      /\ r.file = run[p].file
      /\ r.since = run[p].since
      /\ r.options = run[p].options
  BY <1>1 DEF Run
<1> QED
  BY <1>2, <1>4, <1>5

\* A run writes in its directory and goes on.
LEMMA WritesKeeps ==
    ASSUME IInv, NEW p \in Procs, run[p] # None, NEW d \in Dir, NEW s,
           [run[p] EXCEPT !.step = s] \in Run,
           Writes(p, d, s),
           HasConfig(d),
           Configured(run[p].name, d),
           run[p].name \notin mixed => Stage([run[p] EXCEPT !.step = s], d)
    PROVE  IInv'
<1> DEFINE n == run[p].name
<1> USE DEF IInv
<1>1. n \in Names
  BY RunTyped
<1>2. /\ dir' = [dir EXCEPT ![n] = d]
      /\ Goes(p, s)
      /\ UNCHANGED <<live, version, ready, mixed>>
  BY DEF Writes
<1>3. /\ run' \in [Procs -> Run \cup {None}]
      /\ run'[p] = [run[p] EXCEPT !.step = s]
      /\ \A q \in Procs : q # p => run'[q] = run[q]
      /\ \A q \in Procs : run'[q] # None <=> run[q] # None
      /\ \A q \in Procs : run[q] # None =>
            /\ run'[q].name = run[q].name
            /\ run'[q].file = run[q].file
            /\ run'[q].since = run[q].since
            /\ run'[q].options = run[q].options
  BY <1>2, StepTyped
<1>4. /\ dir'[n] = d
      /\ \A x \in Names : x # n => dir'[x] = dir[x]
  BY <1>1, <1>2 DEF Typed
<1>5. Typed'
  BY <1>1, <1>2, <1>3 DEF Typed
<1>6. Begun'
  BY <1>2, <1>3 DEF Begun
<1>7. Named'
  BY <1>4 DEF Named
<1>12. Made'
  <2>1. \A x \in Names : HasConfig(dir[x]) => HasConfig(dir'[x])
    BY <1>4
  <2>2. ASSUME NEW q \in Procs, run'[q] # None,
               run'[q].step \notin {"copy", "config"}
        PROVE  HasConfig(dir'[run'[q].name])
    <3>1. CASE q = p
      BY <3>1, <1>3, <1>4
    <3>2. CASE q # p
      <4>1. run'[q] = run[q] /\ run[q] # None /\ run[q].name \in Names
        BY <2>2, <3>2, <1>3, RunTyped
      <4> QED
        BY <4>1, <2>1, <2>2 DEF Made
    <3> QED
      BY <3>1, <3>2
  <2>3. ASSUME NEW x \in ready PROVE HasConfig(dir'[x])
    BY <2>1, <2>3 DEF Made, Typed
  <2> QED
    BY <1>2, <2>2, <2>3 DEF Made
<1>8. Alone'
  BY <1>2, <1>3 DEF Alone
<1>9. Staged'
  <2> SUFFICES ASSUME NEW q \in Procs, run'[q] # None, run'[q].name \notin mixed
               PROVE  Stage(run'[q], dir'[run'[q].name])
    BY <1>2 DEF Staged
  <2>1. CASE q = p
    BY <2>1, <1>3, <1>4
  <2>2. CASE q # p
    <3>1. run'[q] = run[q] /\ run[q] # None /\ run[q].name \in Names
      BY <2>2, <1>3, RunTyped
    <3>2. run[q].name # n
      BY <2>2, <3>1, <1>1 DEF Alone
    <3> QED
      BY <3>1, <3>2, <1>4 DEF Staged
  <2> QED
    BY <2>1, <2>2
<1>10. Told'
  <2> SUFFICES ASSUME NEW x \in ready \ mixed
               PROVE  Sound(x, dir'[x])
    BY <1>2 DEF Told
  <2>1. x \in Names /\ x # n
    BY <1>1 DEF Alone, Typed
  <2> QED
    BY <2>1, <1>4 DEF Told
<1>11. Live'
  BY <1>2 DEF Live
<1> QED
  BY <1>5, <1>6, <1>7, <1>8, <1>9, <1>10, <1>11, <1>12

\* A run ends, with what it wrote last, said and deployed, as w.
LEMMA EndKeeps ==
    ASSUME IInv, NEW p \in Procs, run[p] # None, NEW d \in Dir \cup {None}, NEW w \in Names,
           Ends(p),
           dir' = [dir EXCEPT ![run[p].name] = d],
           Configured(run[p].name, d),
           HasConfig(dir[run[p].name]) => HasConfig(d),
           ready' # ready => HasConfig(d),
           ready' \in {ready, ready \cup {run[p].name}},
           ready' # ready /\ run[p].name \notin mixed => Sound(run[p].name, d),
           live' \in {live, [live EXCEPT ![w] = d]},
           live' # live /\ w \notin mixed' => Sound(w, d),
           mixed \subseteq mixed',
           UNCHANGED version
    PROVE  IInv'
<1> DEFINE n == run[p].name
<1> USE DEF IInv
<1>1. n \in Names
  BY RunTyped
<1>2. /\ run' \in [Procs -> Run \cup {None}]
      /\ run'[p] = None
      /\ \A q \in Procs : q # p => run'[q] = run[q]
  BY DEF Typed, Ends
<1>3. /\ dir'[n] = d
      /\ \A x \in Names : x # n => dir'[x] = dir[x]
  BY <1>1 DEF Typed
<1>4. /\ \A x \in Names : x # w => live'[x] = live[x]
      /\ live' # live => live'[w] = d
      /\ live' \in [Names -> Dir \cup {None}]
  BY DEF Typed
<1>5. Typed'
  BY <1>1, <1>2, <1>4 DEF Typed
<1>6. Begun'
  BY <1>2 DEF Begun
<1>7. Named'
  BY <1>3 DEF Named
<1>12. Made'
  <2>1. \A x \in Names : HasConfig(dir[x]) => HasConfig(dir'[x])
    BY <1>3
  <2>2. ASSUME NEW q \in Procs, run'[q] # None,
               run'[q].step \notin {"copy", "config"}
        PROVE  HasConfig(dir'[run'[q].name])
    <3>1. run'[q] = run[q] /\ run[q] # None /\ run[q].name \in Names
      BY <2>2, <1>2, RunTyped
    <3> QED
      BY <3>1, <2>1, <2>2 DEF Made
  <2>3. ASSUME NEW x \in ready' PROVE HasConfig(dir'[x])
    <3>1. CASE x \in ready
      BY <3>1, <2>1 DEF Made, Typed
    <3>2. CASE x \notin ready
      BY <2>3, <3>2, <1>3
    <3> QED
      BY <3>1, <3>2
  <2> QED
    BY <2>2, <2>3 DEF Made
<1>8. Alone'
  <2> SUFFICES ASSUME NEW x \in Names \ mixed', NEW q \in Procs, run'[q] # None,
                      run'[q].name = x
               PROVE  /\ x \notin ready'
                      /\ \A u \in Procs : run'[u] # None /\ run'[u].name = x => u = q
    BY DEF Alone
  <2>1. q # p /\ run[q] # None /\ run[q].name = x
    BY <1>2
  <2>2. x # n
    BY <2>1, <1>1 DEF Alone
  <2> QED
    BY <2>1, <2>2, <1>2 DEF Alone
<1>9. Staged'
  <2> SUFFICES ASSUME NEW q \in Procs, run'[q] # None, run'[q].name \notin mixed'
               PROVE  Stage(run'[q], dir'[run'[q].name])
    BY DEF Staged
  <2>1. q # p /\ run'[q] = run[q] /\ run[q].name \in Names
    BY <1>2, RunTyped
  <2>2. run[q].name # n
    BY <2>1, <1>1 DEF Alone
  <2> QED
    BY <2>1, <2>2, <1>3 DEF Staged
<1>10. Told'
  <2> SUFFICES ASSUME NEW x \in ready' \ mixed'
               PROVE  Sound(x, dir'[x])
    BY DEF Told
  <2>1. CASE x = n
    <3>1. n \notin ready
      BY <2>1, <1>1 DEF Alone
    <3> QED
      BY <2>1, <3>1, <1>3
  <2>2. CASE x # n
    BY <2>2, <1>3 DEF Told, Typed
  <2> QED
    BY <2>1, <2>2
<1>11. Live'
  <2> SUFFICES ASSUME NEW x \in Names \ mixed', live'[x] # None
               PROVE  Sound(x, live'[x])
    BY DEF Live
  <2>1. CASE live'[x] = live[x]
    BY <2>1 DEF Live
  <2>2. CASE live'[x] # live[x]
    BY <2>2, <1>4
  <2> QED
    BY <2>1, <2>2
<1> QED
  BY <1>5, <1>6, <1>7, <1>8, <1>9, <1>10, <1>11, <1>12

\* A run begins: it has the name to itself, or the name is mixed.
LEMMA BeginKeeps ==
    ASSUME IInv, NEW p \in Procs, NEW r \in Run,
           Begins(p, r.name, r),
           Coherent(r.options),
           r.file # None => r.since <= version[r.file],
           r.step \in {"copy", "config"},
           Stage(r, dir[r.name])
    PROVE  IInv'
<1> DEFINE n == r.name
<1> USE DEF IInv
<1>1. n \in Names /\ r # None
  BY ScaffoldAssumption DEF Run
<1>2. /\ run[p] = None
      /\ run' = [run EXCEPT ![p] = r]
      /\ ready' = ready \ {n}
      /\ mixed' = IF Working(n) # {} THEN mixed \cup {n} ELSE mixed
      /\ UNCHANGED <<dir, live, version>>
  BY DEF Begins
<1>3. /\ run' \in [Procs -> Run \cup {None}]
      /\ run'[p] = r
      /\ \A q \in Procs : q # p => run'[q] = run[q]
  BY <1>2 DEF Typed
<1>4. n \notin mixed' => \A q \in Procs : run[q] # None => run[q].name # n
  BY <1>2 DEF Working
<1>5. Typed'
  BY <1>1, <1>2, <1>3 DEF Typed
<1>6. Begun'
  BY <1>2, <1>3 DEF Begun
<1>7. Named'
  BY <1>2 DEF Named
<1>12. Made'
  <2>1. ASSUME NEW q \in Procs, run'[q] # None,
               run'[q].step \notin {"copy", "config"}
        PROVE  HasConfig(dir[run'[q].name])
    BY <2>1, <1>3 DEF Made
  <2> QED
    BY <1>2, <2>1 DEF Made
<1>8. Alone'
  <2> SUFFICES ASSUME NEW x \in Names \ mixed', NEW q \in Procs, run'[q] # None,
                      run'[q].name = x
               PROVE  /\ x \notin ready'
                      /\ \A u \in Procs : run'[u] # None /\ run'[u].name = x => u = q
    BY DEF Alone
  <2>0. x \notin mixed
    BY <1>2
  <2>1. CASE x = n
    <3>1. q = p
      BY <2>1, <1>3, <1>4
    <3> QED
      BY <2>1, <3>1, <1>2, <1>3, <1>4
  <2>2. CASE x # n
    <3>1. q # p /\ run'[q] = run[q]
      BY <2>2, <1>3
    <3> QED
      BY <2>0, <2>2, <3>1, <1>2, <1>3 DEF Alone
  <2> QED
    BY <2>1, <2>2
<1>9. Staged'
  <2> SUFFICES ASSUME NEW q \in Procs, run'[q] # None, run'[q].name \notin mixed'
               PROVE  Stage(run'[q], dir[run'[q].name])
    BY <1>2 DEF Staged
  <2>1. CASE q = p
    BY <2>1, <1>3
  <2>2. CASE q # p
    BY <2>2, <1>2, <1>3 DEF Staged
  <2> QED
    BY <2>1, <2>2
<1>10. Told'
  BY <1>2 DEF Told
<1>11. Live'
  BY <1>2 DEF Live
<1> QED
  BY <1>5, <1>6, <1>7, <1>8, <1>9, <1>10, <1>11, <1>12

-----------------------------------------------------------------------------
(* The contents written.                                                   *)

LEMMA ConfigsTyped ==
    ASSUME NEW n \in Names
    PROVE  /\ TemplateConfig \in Config /\ TemplateConfig # None
           /\ StaticConfig(n) \in Config /\ StaticConfig(n) # None
           /\ StaticConfig(n).name = n /\ StaticConfig(n).static
           /\ TemplateConfig.name = "starter"
           /\ \A c \in Config : c # None
<1>1. \A c \in Config : c # None
  BY ScaffoldAssumption
<1>2. TemplateConfig \in Config
  BY DEF TemplateConfig, Config
<1>3. StaticConfig(n) \in Config
  BY DEF StaticConfig, Config
<1> QED
  BY <1>1, <1>2, <1>3 DEF TemplateConfig, StaticConfig

\* A directory found, if only just made, and that something made it.
LEMMA FoundTyped ==
    ASSUME Typed, Named, NEW n \in Names
    PROVE  /\ Found(n) \in Dir /\ Found(n) # None
           /\ Configured(n, Found(n))
           /\ dir[n] # None => Found(n) = dir[n]
<1>1. Empty \in Dir
  BY DEF Empty, Dir
<1>2. \A d \in Dir : d # None
  BY ScaffoldAssumption
<1>3. Configured(n, Empty)
  BY DEF Configured, Empty
<1>4. CASE dir[n] = None
  BY <1>1, <1>2, <1>3, <1>4 DEF Found
<1>5. CASE dir[n] # None
  BY <1>2, <1>5 DEF Found, Typed, Named
<1> QED
  BY <1>4, <1>5

\* A run at a step is one.
LEMMA AtTyped ==
    ASSUME IInv, NEW p \in Procs, NEW s, At(p, s)
    PROVE  /\ run[p] # None /\ run[p] \in Run /\ run[p].step = s
           /\ run[p].name \in Names
           /\ Found(run[p].name) \in Dir
           /\ Configured(run[p].name, Found(run[p].name))
           /\ s \notin {"copy", "config"} =>
                /\ HasConfig(dir[run[p].name])
                /\ Found(run[p].name) = dir[run[p].name]
                /\ HasConfig(Found(run[p].name))
           /\ run[p].name \notin mixed => Stage(run[p], dir[run[p].name])
<1> USE DEF IInv
<1>1. run[p] # None /\ run[p].step = s
  BY DEF At
<1>2. run[p] \in Run /\ run[p].name \in Names
  BY <1>1, RunTyped
<1>3. /\ Found(run[p].name) \in Dir
      /\ Configured(run[p].name, Found(run[p].name))
  BY <1>2, FoundTyped
<1>4. s \notin {"copy", "config"} =>
        /\ HasConfig(dir[run[p].name])
        /\ Found(run[p].name) = dir[run[p].name]
  BY <1>1 DEF Made, HasConfig, Found
<1>5. run[p].name \notin mixed => Stage(run[p], dir[run[p].name])
  BY <1>1 DEF Staged
<1> QED
  BY <1>1, <1>2, <1>3, <1>4, <1>5

\* Runs stay runs when they go on.
LEMMA GoesTyped ==
    ASSUME NEW r \in Run,
           NEW s \in {"copy", "fetch", "css", "components", "configure", "install",
                      "config", "worker", "bundle", "title", "file", "deploy"}
    PROVE  /\ [r EXCEPT !.step = s] \in Run
           /\ [r EXCEPT !.step = s].step = s
           /\ [r EXCEPT !.step = s].name = r.name
           /\ [r EXCEPT !.step = s].options = r.options
           /\ [r EXCEPT !.step = s].file = r.file
           /\ [r EXCEPT !.step = s].since = r.since
  BY DEF Run

-----------------------------------------------------------------------------
(* create-worker.                                                          *)

LEMMA CopyTemplateKeeps ==
    ASSUME IInv, NEW p \in Procs, CopyTemplate(p)
    PROVE  IInv'
<1> DEFINE n == run[p].name
           d == [Found(n) EXCEPT !.app = TRUE, !.config = TemplateConfig]
<1>1. At(p, "copy")
  BY DEF CopyTemplate
<1>2. /\ run[p] # None /\ run[p] \in Run /\ n \in Names
      /\ Found(n) \in Dir /\ Configured(n, Found(n))
  BY <1>1, AtTyped
<1>3. CASE Writes(p, d, "fetch")
  <2>1. TemplateConfig \in Config /\ TemplateConfig # None /\ TemplateConfig.name = "starter"
    BY <1>2, ConfigsTyped
  <2>2. d \in Dir /\ d.config = TemplateConfig /\ d.app
    BY <1>2, <2>1 DEF Dir
  <2>3. d # None
    BY <2>2, ScaffoldAssumption
  <2>4. HasConfig(d) /\ Configured(n, d)
    BY <2>1, <2>2, <2>3 DEF HasConfig, Configured
  <2>5. [run[p] EXCEPT !.step = "fetch"] \in Run /\ [run[p] EXCEPT !.step = "fetch"].step = "fetch"
    BY <1>2, GoesTyped
  <2>6. Stage([run[p] EXCEPT !.step = "fetch"], d)
    BY <2>2, <2>3, <2>5 DEF Stage
  <2> QED
    BY <1>2, <1>3, <2>2, <2>4, <2>5, <2>6, WritesKeeps
<1>4. CASE /\ dir' = [dir EXCEPT ![n] = Found(n)]
           /\ Ends(p)
           /\ UNCHANGED <<live, version, ready, mixed, runs>>
  <2>1. HasConfig(dir[n]) => HasConfig(Found(n))
    BY DEF HasConfig, Found
  <2> QED
    BY <1>2, <1>4, <2>1, EndKeeps
<1> QED
  BY <1>3, <1>4 DEF CopyTemplate

LEMMA FetchPresetKeeps ==
    ASSUME IInv, NEW p \in Procs, FetchPreset(p)
    PROVE  IInv'
<1> DEFINE n == run[p].name
<1>1. At(p, "fetch") /\ UNCHANGED <<dir, live, version, ready, mixed, runs>>
  BY DEF FetchPreset
<1>2. /\ run[p] # None /\ run[p] \in Run /\ n \in Names /\ run[p].step = "fetch"
      /\ Found(n) \in Dir /\ Configured(n, Found(n))
      /\ HasConfig(dir[n]) /\ Found(n) = dir[n]
      /\ n \notin mixed => Stage(run[p], dir[n])
  BY <1>1, AtTyped
<1>3. dir' = [dir EXCEPT ![n] = dir[n]]
  BY <1>1, <1>2 DEF IInv, Typed
<1>4. CASE Goes(p, "css")
  <2>1. Writes(p, dir[n], "css")
    BY <1>1, <1>3, <1>4 DEF Writes
  <2>2. [run[p] EXCEPT !.step = "css"] \in Run /\ [run[p] EXCEPT !.step = "css"].step = "css"
    BY <1>2, GoesTyped
  <2>3. n \notin mixed => Stage([run[p] EXCEPT !.step = "css"], dir[n])
    BY <1>2, <2>2 DEF Stage
  <2> QED
    BY <1>2, <2>1, <2>2, <2>3, WritesKeeps
<1>5. CASE Ends(p)
  BY <1>1, <1>2, <1>3, <1>5, EndKeeps
<1> QED
  BY <1>4, <1>5 DEF FetchPreset

LEMMA WriteCssKeeps ==
    ASSUME IInv, NEW p \in Procs, WriteCss(p)
    PROVE  IInv'
<1> DEFINE n == run[p].name
           d == [Found(n) EXCEPT !.css = run[p].options]
           r == [run[p] EXCEPT !.step = "components"]
<1>1. At(p, "css") /\ Writes(p, d, "components")
  BY DEF WriteCss
<1>2. /\ run[p] # None /\ run[p] \in Run /\ n \in Names /\ run[p].step = "css"
      /\ Found(n) \in Dir /\ Configured(n, Found(n)) /\ HasConfig(Found(n))
      /\ Found(n) = dir[n]
      /\ n \notin mixed => Stage(run[p], dir[n])
  BY <1>1, AtTyped
<1>3. run[p].options \in OPTIONS
  BY <1>2 DEF Run
<1>4. /\ d \in Dir /\ d.css = run[p].options
      /\ d.app = Found(n).app /\ d.config = Found(n).config
  BY <1>2, <1>3 DEF Dir
<1>5. d # None
  BY <1>4, ScaffoldAssumption
<1>6. HasConfig(d) /\ Configured(n, d)
  BY <1>2, <1>4, <1>5 DEF HasConfig, Configured
<1>7. r \in Run /\ r.step = "components" /\ r.options = run[p].options
  BY <1>2, GoesTyped
<1>8. n \notin mixed => Stage(r, d)
  BY <1>2, <1>4, <1>5, <1>7 DEF Stage
<1> QED
  BY <1>1, <1>2, <1>4, <1>6, <1>7, <1>8, WritesKeeps

LEMMA WriteComponentsKeeps ==
    ASSUME IInv, NEW p \in Procs, WriteComponents(p)
    PROVE  IInv'
<1> DEFINE n == run[p].name
           d == [Found(n) EXCEPT !.components = run[p].options]
           r == [run[p] EXCEPT !.step = "configure"]
<1>1. At(p, "components") /\ Writes(p, d, "configure")
  BY DEF WriteComponents
<1>2. /\ run[p] # None /\ run[p] \in Run /\ n \in Names /\ run[p].step = "components"
      /\ Found(n) \in Dir /\ Configured(n, Found(n)) /\ HasConfig(Found(n))
      /\ Found(n) = dir[n]
      /\ n \notin mixed => Stage(run[p], dir[n])
  BY <1>1, AtTyped
<1>3. run[p].options \in OPTIONS
  BY <1>2 DEF Run
<1>4. /\ d \in Dir /\ d.components = run[p].options
      /\ d.app = Found(n).app /\ d.config = Found(n).config /\ d.css = Found(n).css
  BY <1>2, <1>3 DEF Dir
<1>5. d # None
  BY <1>4, ScaffoldAssumption
<1>6. HasConfig(d) /\ Configured(n, d)
  BY <1>2, <1>4, <1>5 DEF HasConfig, Configured
<1>7. r \in Run /\ r.step = "configure" /\ r.options = run[p].options
  BY <1>2, GoesTyped
<1>8. n \notin mixed => Stage(r, d)
  BY <1>2, <1>4, <1>5, <1>7 DEF Stage
<1> QED
  BY <1>1, <1>2, <1>4, <1>6, <1>7, <1>8, WritesKeeps

LEMMA ConfigureKeeps ==
    ASSUME IInv, NEW p \in Procs, Configure(p)
    PROVE  IInv'
<1> DEFINE n == run[p].name
           c == Renamed(dir[n].config, n)
           d == [dir[n] EXCEPT !.config = c]
           r == [run[p] EXCEPT !.step = "install"]
<1>1. At(p, "configure")
  BY DEF Configure
<1>2. /\ run[p] # None /\ run[p] \in Run /\ n \in Names /\ run[p].step = "configure"
      /\ HasConfig(dir[n])
      /\ n \notin mixed => Stage(run[p], dir[n])
  BY <1>1, AtTyped
<1>3. dir[n] \in Dir /\ dir[n].config \in Config
  BY <1>2 DEF IInv, Typed, HasConfig, Dir
<1>4. Writes(p, d, "install")
  BY <1>2 DEF Configure, HasConfig, Writes
<1>5. c \in Config /\ c # None /\ c.name = n /\ c.static = dir[n].config.static
  <2>1. \A b \in Bindings : dir[n].config.service[b] \in Names \cup {"starter", None}
    BY <1>3 DEF Config
  <2>2. [b \in Bindings |->
            IF b \in {"DATA_PROXY", "CONNECTIONS"} /\ dir[n].config.service[b] # None
            THEN n ELSE dir[n].config.service[b]]
        \in [Bindings -> Names \cup {"starter", None}]
    BY <1>2, <2>1
  <2>3. c \in Config /\ c.name = n /\ c.static = dir[n].config.static
    BY <1>2, <1>3, <2>2 DEF Renamed, Config
  <2> QED
    BY <1>2, <2>3, ConfigsTyped
<1>6. /\ d \in Dir /\ d.config = c /\ d.app = dir[n].app
      /\ d.css = dir[n].css /\ d.components = dir[n].components
  BY <1>3, <1>5 DEF Dir
<1>7. d # None
  BY <1>6, ScaffoldAssumption
<1>8. HasConfig(d) /\ Configured(n, d)
  BY <1>5, <1>6, <1>7 DEF HasConfig, Configured
<1>9. ASSUME n \notin mixed PROVE Sound(n, d)
  <2>1. /\ dir[n].app /\ dir[n].config = TemplateConfig
        /\ dir[n].css = run[p].options /\ dir[n].components = run[p].options
    BY <1>2, <1>9 DEF Stage
  <2>2. run[p].options \in OPTIONS /\ run[p].options # None
    BY <1>2, ScaffoldAssumption DEF Run
  <2>3. Coherent(run[p].options)
    BY <1>2 DEF IInv, Begun
  <2>4. ~c.static
    BY <1>5, <2>1 DEF TemplateConfig
  <2>5. \A b \in {"DATA_PROXY", "CONNECTIONS"} : c.service[b] = n
    <3>1. "starter" # None
      BY ScaffoldAssumption
    <3> QED
      BY <1>3, <2>1, <3>1 DEF Renamed, TemplateConfig, Bindings, Config
  <2> QED
    BY <1>5, <1>6, <1>7, <2>1, <2>2, <2>3, <2>4, <2>5 DEF Sound, Whole, Coherent
<1>10. r \in Run /\ r.step = "install" /\ r.name = n
  BY <1>2, GoesTyped
<1>11. n \notin mixed => Stage(r, d)
  BY <1>9, <1>10 DEF Stage
<1> QED
  BY <1>2, <1>4, <1>6, <1>8, <1>10, <1>11, WritesKeeps

LEMMA InstallKeeps ==
    ASSUME IInv, NEW p \in Procs, Install(p)
    PROVE  IInv'
<1> DEFINE n == run[p].name
<1>1. At(p, "install") /\ Ends(p) /\ UNCHANGED <<dir, live, version, mixed, runs>>
      /\ ready' = ready \cup {n}
  BY DEF Install
<1>2. /\ run[p] # None /\ run[p] \in Run /\ n \in Names /\ run[p].step = "install"
      /\ Found(n) \in Dir /\ Configured(n, Found(n))
      /\ HasConfig(dir[n]) /\ Found(n) = dir[n]
      /\ n \notin mixed => Stage(run[p], dir[n])
  BY <1>1, AtTyped
<1>3. dir' = [dir EXCEPT ![n] = dir[n]]
  BY <1>1, <1>2 DEF IInv, Typed
<1>4. n \notin mixed => Sound(n, dir[n])
  BY <1>2 DEF Stage
<1> QED
  BY <1>1, <1>2, <1>3, <1>4, EndKeeps

LEMMA CreateKeeps ==
    ASSUME IInv, NEW p \in Procs, Create(p)
    PROVE  IInv'
<1>1. PICK parsed \in Creates :
        /\ dir[parsed.name] = None
        /\ Begins(p, parsed.name,
                  [name |-> parsed.name, step |-> "copy", options |-> parsed.options,
                   file |-> None, since |-> 0])
  BY DEF Create
<1> DEFINE r == [name |-> parsed.name, step |-> "copy", options |-> parsed.options,
                 file |-> None, since |-> 0]
<1>2. parsed.name \in Names /\ validateOptions(parsed.options)
  BY DEF Creates
<1>3. r \in Run /\ Coherent(r.options)
  BY <1>2 DEF validateOptions, Run, Coherent
<1>4. Stage(r, dir[r.name])
  BY DEF Stage
<1> QED
  BY <1>1, <1>3, <1>4, BeginKeeps

-----------------------------------------------------------------------------
(* publish.                                                                *)

LEMMA PublishKeeps ==
    ASSUME IInv, NEW p \in Procs, Publish(p)
    PROVE  IInv'
<1>1. PICK parsed \in Publishes :
        /\ parsed.file \in Files
        /\ Begins(p, parsed.name,
                  [name |-> parsed.name, step |-> "config", options |-> DEFAULTS,
                   file |-> parsed.file, since |-> version[parsed.file]])
  BY DEF Publish
<1> DEFINE r == [name |-> parsed.name, step |-> "config", options |-> DEFAULTS,
                 file |-> parsed.file, since |-> version[parsed.file]]
<1>2. parsed.name \in Names /\ parsed.file \in Files
  BY <1>1 DEF Publishes
<1>3. version[parsed.file] \in Nat
  BY <1>2 DEF IInv, Typed
<1>4. DEFAULTS \in OPTIONS /\ Coherent(DEFAULTS)
  BY DEF DEFAULTS, OPTIONS, Coherent, GrayThemes
<1>5. r \in Run /\ Coherent(r.options)
  BY <1>2, <1>3, <1>4 DEF Run
<1>6. r.since <= version[r.file]
  BY <1>3
<1>7. Stage(r, dir[r.name])
  BY <1>2 DEF Stage
<1> QED
  BY <1>1, <1>5, <1>6, <1>7, BeginKeeps

LEMMA WriteConfigKeeps ==
    ASSUME IInv, NEW p \in Procs, WriteConfig(p)
    PROVE  IInv'
<1> DEFINE n == run[p].name
           d == [Found(n) EXCEPT !.config = StaticConfig(n)]
           r == [run[p] EXCEPT !.step = "worker"]
<1>1. At(p, "config") /\ Writes(p, d, "worker")
  BY DEF WriteConfig
<1>2. /\ run[p] # None /\ run[p] \in Run /\ n \in Names /\ run[p].step = "config"
      /\ Found(n) \in Dir
      /\ n \notin mixed => Stage(run[p], dir[n])
  BY <1>1, AtTyped
<1>3. /\ StaticConfig(n) \in Config /\ StaticConfig(n) # None
      /\ StaticConfig(n).name = n
  BY <1>2, ConfigsTyped
<1>4. d \in Dir /\ d.config = StaticConfig(n)
  BY <1>2, <1>3 DEF Dir
<1>5. d # None
  BY <1>4, ScaffoldAssumption
<1>6. HasConfig(d) /\ Configured(n, d)
  BY <1>3, <1>4, <1>5 DEF HasConfig, Configured
<1>7. /\ r \in Run /\ r.step = "worker"
      /\ r.name = n /\ r.file = run[p].file
  BY <1>2, GoesTyped
<1>8. n \notin mixed => Stage(r, d)
  BY <1>2, <1>4, <1>5, <1>7 DEF Stage
<1> QED
  BY <1>1, <1>2, <1>4, <1>6, <1>7, <1>8, WritesKeeps

LEMMA WriteWorkerKeeps ==
    ASSUME IInv, NEW p \in Procs, WriteWorker(p)
    PROVE  IInv'
<1> DEFINE n == run[p].name
           d == [Found(n) EXCEPT !.worker = TRUE]
           r == [run[p] EXCEPT !.step = "bundle"]
<1>1. At(p, "worker") /\ Writes(p, d, "bundle")
  BY DEF WriteWorker
<1>2. /\ run[p] # None /\ run[p] \in Run /\ n \in Names /\ run[p].step = "worker"
      /\ Found(n) \in Dir /\ Configured(n, Found(n)) /\ HasConfig(Found(n))
      /\ Found(n) = dir[n]
      /\ n \notin mixed => Stage(run[p], dir[n])
  BY <1>1, AtTyped
<1>3. d \in Dir /\ d.config = Found(n).config /\ d.worker
  BY <1>2 DEF Dir
<1>4. d # None
  BY <1>3, ScaffoldAssumption
<1>5. HasConfig(d) /\ Configured(n, d)
  BY <1>2, <1>3, <1>4 DEF HasConfig, Configured
<1>6. /\ r \in Run /\ r.step = "bundle"
      /\ r.name = n /\ r.file = run[p].file
  BY <1>2, GoesTyped
<1>7. n \notin mixed => Stage(r, d)
  BY <1>2, <1>3, <1>4, <1>6 DEF Stage
<1> QED
  BY <1>1, <1>2, <1>3, <1>5, <1>6, <1>7, WritesKeeps

LEMMA CopyBundleKeeps ==
    ASSUME IInv, NEW p \in Procs, CopyBundle(p)
    PROVE  IInv'
<1> DEFINE n == run[p].name
           d == [Found(n) EXCEPT !.index = None]
           r == [run[p] EXCEPT !.step = "title"]
<1>1. At(p, "bundle") /\ Writes(p, d, "title")
  BY DEF CopyBundle
<1>2. /\ run[p] # None /\ run[p] \in Run /\ n \in Names /\ run[p].step = "bundle"
      /\ Found(n) \in Dir /\ Configured(n, Found(n)) /\ HasConfig(Found(n))
      /\ Found(n) = dir[n]
      /\ n \notin mixed => Stage(run[p], dir[n])
  BY <1>1, AtTyped
<1>3. d \in Dir /\ d.config = Found(n).config /\ d.worker = Found(n).worker
  BY <1>2 DEF Dir
<1>4. d # None
  BY <1>3, ScaffoldAssumption
<1>5. HasConfig(d) /\ Configured(n, d)
  BY <1>2, <1>3, <1>4 DEF HasConfig, Configured
<1>6. /\ r \in Run /\ r.step = "title"
      /\ r.name = n /\ r.file = run[p].file
  BY <1>2, GoesTyped
<1>7. n \notin mixed => Stage(r, d)
  BY <1>2, <1>3, <1>4, <1>6 DEF Stage
<1> QED
  BY <1>1, <1>2, <1>3, <1>5, <1>6, <1>7, WritesKeeps

LEMMA WriteIndexKeeps ==
    ASSUME IInv, NEW p \in Procs, WriteIndex(p)
    PROVE  IInv'
<1> DEFINE n == run[p].name
           d == [Found(n) EXCEPT !.index = run[p].file, !.since = run[p].since]
           r == [run[p] EXCEPT !.step = "file"]
<1>1. At(p, "title") /\ Writes(p, d, "file")
  BY DEF WriteIndex
<1>2. /\ run[p] # None /\ run[p] \in Run /\ n \in Names /\ run[p].step = "title"
      /\ Found(n) \in Dir /\ Configured(n, Found(n)) /\ HasConfig(Found(n))
      /\ Found(n) = dir[n]
      /\ n \notin mixed => Stage(run[p], dir[n])
  BY <1>1, AtTyped
<1>3. run[p].file \in Files \cup {None} /\ run[p].since \in Nat
  BY <1>2 DEF Run
<1>4. /\ d \in Dir /\ d.config = Found(n).config /\ d.worker = Found(n).worker
      /\ d.index = run[p].file /\ d.since = run[p].since
  BY <1>2, <1>3 DEF Dir
<1>5. d # None
  BY <1>4, ScaffoldAssumption
<1>6. HasConfig(d) /\ Configured(n, d)
  BY <1>2, <1>4, <1>5 DEF HasConfig, Configured
<1>7. /\ r \in Run /\ r.step = "file"
      /\ r.name = n /\ r.file = run[p].file /\ r.since = run[p].since
  BY <1>2, GoesTyped
<1>8. n \notin mixed => Stage(r, d)
  BY <1>2, <1>4, <1>5, <1>7 DEF Stage
<1> QED
  BY <1>1, <1>2, <1>4, <1>6, <1>7, <1>8, WritesKeeps

LEMMA CopyFileKeeps ==
    ASSUME IInv, NEW p \in Procs, CopyFile(p)
    PROVE  IInv'
<1> DEFINE n == run[p].name
           f == run[p].file
           d == [Found(n) EXCEPT !.files = Copied(@, f)]
           r == [run[p] EXCEPT !.step = "deploy"]
<1>1. At(p, "file") /\ Writes(p, d, "deploy")
  BY DEF CopyFile
<1>2. /\ run[p] # None /\ run[p] \in Run /\ n \in Names /\ run[p].step = "file"
      /\ Found(n) \in Dir /\ Configured(n, Found(n)) /\ HasConfig(Found(n))
      /\ Found(n) = dir[n]
      /\ n \notin mixed => Stage(run[p], dir[n])
  BY <1>1, AtTyped
<1>3. /\ Found(n).files \in [Files -> Nat]
      /\ version \in [Files -> Nat]
  BY <1>2 DEF IInv, Typed, Dir
<1>4. /\ Copied(Found(n).files, f) \in [Files -> Nat]
      /\ f \in Files => Copied(Found(n).files, f)[f] = version[f]
  BY <1>3 DEF Copied
<1>5. /\ d \in Dir /\ d.config = Found(n).config /\ d.worker = Found(n).worker
      /\ d.index = Found(n).index /\ d.since = Found(n).since
      /\ d.files = Copied(Found(n).files, f)
  BY <1>2, <1>4 DEF Dir
<1>6. d # None
  BY <1>5, ScaffoldAssumption
<1>7. HasConfig(d) /\ Configured(n, d)
  BY <1>2, <1>5, <1>6 DEF HasConfig, Configured
<1>8. /\ r \in Run /\ r.step = "deploy"
      /\ r.name = n /\ r.file = f /\ r.since = run[p].since
  BY <1>2, GoesTyped
<1>9. n \notin mixed => Stage(r, d)
  <2>1. f # None => run[p].since <= version[f]
    BY <1>2 DEF IInv, Begun
  <2>2. f \in Files => f # None
    BY ScaffoldAssumption
  <2>3. ASSUME n \notin mixed PROVE d.files[f] >= run[p].since
    <3>1. f \in Files
      BY <1>2, <2>3 DEF Stage
    <3>2. d.files[f] = version[f]
      BY <1>4, <1>5, <3>1
    <3> QED
      BY <1>3, <2>1, <2>2, <3>1, <3>2, <1>2 DEF Run
  <2> QED
    BY <1>2, <1>5, <1>6, <1>8, <2>3 DEF Stage
<1> QED
  BY <1>1, <1>2, <1>5, <1>7, <1>8, <1>9, WritesKeeps

LEMMA DeployKeeps ==
    ASSUME IInv, NEW p \in Procs, Deploy(p)
    PROVE  IInv'
<1> DEFINE n == run[p].name
           w == dir[n].config.name
<1>1. At(p, "deploy") /\ Ends(p) /\ UNCHANGED <<dir, version, runs>>
  BY DEF Deploy
<1>2. /\ run[p] # None /\ run[p] \in Run /\ n \in Names /\ run[p].step = "deploy"
      /\ Found(n) \in Dir /\ Configured(n, Found(n))
      /\ HasConfig(dir[n]) /\ Found(n) = dir[n]
      /\ n \notin mixed => Stage(run[p], dir[n])
  BY <1>1, AtTyped
<1>3. dir' = [dir EXCEPT ![n] = dir[n]]
  BY <1>1, <1>2 DEF IInv, Typed
<1>4. n \notin mixed => Sound(n, dir[n]) /\ w = n
  <2>1. StaticConfig(n).name = n /\ StaticConfig(n).static /\ \A f \in Files : f # None
    BY <1>2, ConfigsTyped, ScaffoldAssumption
  <2> QED
    BY <1>2, <2>1 DEF Stage, Sound, Served, HasConfig
<1>5. CASE /\ w \in Names
           /\ Deploys(n)
           /\ mixed' = Mixing(mixed, n)
           /\ UNCHANGED ready
  <2>1. live' = [live EXCEPT ![w] = dir[n]]
    BY <1>5 DEF Deploys
  <2>2. mixed \subseteq mixed' /\ (w \notin mixed' => Sound(w, dir[n]))
    BY <1>4, <1>5 DEF Mixing
  <2> QED
    BY <1>1, <1>2, <1>3, <1>5, <2>1, <2>2, EndKeeps
<1>6. CASE /\ ready' = ready \cup {n}
           /\ UNCHANGED <<live, mixed>>
  BY <1>1, <1>2, <1>3, <1>4, <1>6, EndKeeps
<1> QED
  BY <1>5, <1>6 DEF Deploy

-----------------------------------------------------------------------------
(* What happens around the tools.                                          *)

LEMMA DeployByHandKeeps ==
    ASSUME IInv, NEW n \in Names, DeployByHand(n)
    PROVE  IInv'
<1> DEFINE w == dir[n].config.name
           m == IF Working(n) # {} THEN mixed \cup {n} ELSE mixed
<1> USE DEF IInv
<1>1. /\ n \in ready /\ w \in Names
      /\ mixed' = Mixing(m, n)
      /\ live' = [live EXCEPT ![w] = dir[n]]
      /\ UNCHANGED <<dir, version, run, ready, runs>>
  BY DEF DeployByHand, Deploys
<1>2. mixed \subseteq m /\ m \subseteq mixed'
  BY <1>1 DEF Mixing
<1>3. w \notin mixed' => Sound(w, dir[n])
  <2>1. w \notin mixed' => n \notin m
    BY <1>1 DEF Mixing
  <2>2. n \notin m => Sound(n, dir[n])
    BY <1>1, <1>2 DEF Told
  <2> QED
    BY <2>1, <2>2 DEF Sound
<1>4. \A x : x \notin mixed' => x \notin mixed
  BY <1>2
<1>5. Typed'
  BY <1>1 DEF Typed
<1>6. Begun' /\ Named' /\ Made'
  BY <1>1 DEF Begun, Named, Made
<1>7. Alone'
  <2> SUFFICES ASSUME NEW x \in Names \ mixed', NEW p \in Procs, run[p] # None,
                      run[p].name = x
               PROVE  /\ x \notin ready
                      /\ \A q \in Procs : run[q] # None /\ run[q].name = x => q = p
    BY <1>1 DEF Alone
  <2>1. x \notin mixed
    BY <1>4
  <2> QED
    BY <2>1 DEF Alone
<1>8. Staged'
  BY <1>1, <1>4 DEF Staged
<1>9. Told'
  BY <1>1, <1>4 DEF Told
<1>10. Live'
  <2> SUFFICES ASSUME NEW x \in Names \ mixed', live'[x] # None
               PROVE  Sound(x, live'[x])
    BY DEF Live
  <2>1. CASE x = w
    <3>1. live'[w] = dir[n]
      BY <1>1 DEF Typed
    <3> QED
      BY <1>3, <2>1, <3>1
  <2>2. CASE x # w
    BY <1>1, <1>4, <2>2 DEF Live, Typed
  <2> QED
    BY <2>1, <2>2
<1> QED
  BY <1>5, <1>6, <1>7, <1>8, <1>9, <1>10

LEMMA EditKeeps ==
    ASSUME IInv, NEW f \in Files, Edit(f)
    PROVE  IInv'
<1> USE DEF IInv
<1>1. /\ version' = [version EXCEPT ![f] = version[f] + 1]
      /\ UNCHANGED <<dir, live, run, ready, mixed>>
  BY DEF Edit
<1>2. Typed'
  BY <1>1 DEF Typed
<1>3. \A x \in Files : version'[x] >= version[x] /\ version[x] \in Nat /\ version'[x] \in Nat
  BY <1>1 DEF Typed
<1>4. Begun'
  <2> SUFFICES ASSUME NEW p \in Procs, run[p] # None, run[p].file # None
               PROVE  run[p].since <= version'[run[p].file]
    BY <1>1 DEF Begun
  <2>1. run[p].file \in Files /\ run[p].since \in Nat
    BY RunTyped DEF Run
  <2>2. run[p].since <= version[run[p].file]
    BY DEF Begun
  <2> QED
    BY <1>3, <2>1, <2>2
<1>5. Named' /\ Made' /\ Alone'
  BY <1>1 DEF Named, Made, Alone
<1>6. Staged' /\ Told' /\ Live'
  BY <1>1 DEF Staged, Told, Live
<1> QED
  BY <1>2, <1>4, <1>5, <1>6

LEMMA KillKeeps ==
    ASSUME IInv, NEW p \in Procs, Kill(p)
    PROVE  IInv'
<1> DEFINE n == run[p].name
<1>1. /\ run[p] # None /\ Ends(p)
      /\ UNCHANGED <<dir, live, version, ready, mixed, runs>>
  BY DEF Kill
<1>2. n \in Names /\ dir[n] \in Dir \cup {None}
  BY <1>1, RunTyped DEF IInv
<1>3. dir' = [dir EXCEPT ![n] = dir[n]]
  BY <1>1, <1>2 DEF IInv, Typed
<1>4. Configured(n, dir[n])
  BY <1>2 DEF IInv, Named
<1> QED
  BY <1>1, <1>2, <1>3, <1>4, EndKeeps

-----------------------------------------------------------------------------
(* The invariant and what it says of apps and viewers.                     *)

LEMMA InitHolds == Init => IInv
<1> SUFFICES ASSUME Init PROVE IInv
  OBVIOUS
<1>1. Typed
  BY DEF Init, Typed
<1>2. Begun /\ Alone /\ Staged /\ Made /\ Told
  BY DEF Init, Begun, Alone, Staged, Made, Told
<1>3. Named /\ Live
  BY DEF Init, Named, Configured, Live
<1> QED
  BY <1>1, <1>2, <1>3 DEF IInv

LEMMA NextKeeps ==
    ASSUME IInv, [Next]_vars
    PROVE  IInv'
<1>1. ASSUME NEW p \in Procs, Create(p) \/ CopyTemplate(p) \/ FetchPreset(p)
      PROVE  IInv'
  BY <1>1, CreateKeeps, CopyTemplateKeeps, FetchPresetKeeps
<1>2. ASSUME NEW p \in Procs,
             WriteCss(p) \/ WriteComponents(p) \/ Configure(p) \/ Install(p)
      PROVE  IInv'
  BY <1>2, WriteCssKeeps, WriteComponentsKeeps, ConfigureKeeps, InstallKeeps
<1>3. ASSUME NEW p \in Procs,
             Publish(p) \/ WriteConfig(p) \/ WriteWorker(p) \/ CopyBundle(p)
      PROVE  IInv'
  BY <1>3, PublishKeeps, WriteConfigKeeps, WriteWorkerKeeps, CopyBundleKeeps
<1>4. ASSUME NEW p \in Procs, WriteIndex(p) \/ CopyFile(p) \/ Deploy(p) \/ Kill(p)
      PROVE  IInv'
  BY <1>4, WriteIndexKeeps, CopyFileKeeps, DeployKeeps, KillKeeps
<1>5. ASSUME NEW n \in Names, DeployByHand(n) PROVE IInv'
  BY <1>5, DeployByHandKeeps
<1>6. ASSUME NEW f \in Files, Edit(f) PROVE IInv'
  BY <1>6, EditKeeps
<1>7. CASE UNCHANGED vars
  BY <1>7 DEF vars, IInv, Typed, Begun, Named, Configured, Made, HasConfig, Alone, Staged,
              Stage, Told, Live, Sound, Served, Whole
<1> QED
  BY <1>1, <1>2, <1>3, <1>4, <1>5, <1>6, <1>7 DEF Next

\* The invariant holds of every behaviour.
LEMMA Inductive == Spec => []IInv
<1>1. IInv /\ [Next]_vars => IInv'
  BY NextKeeps
<1> QED
  BY InitHolds, <1>1, PTL DEF Spec

\* Whatever runs were refused, failed or killed before, an app that create-worker says
\* to run next, or that was deployed, is complete (createProject).
THEOREM AppsWhole == Spec => []AppWhole
<1>1. IInv => AppWhole
  BY DEF IInv, Told, Live, Sound, AppWhole, Typed
<1> QED
  BY Inductive, <1>1, PTL

\* The viewer that publish or a repeated wrangler deploy puts live opens a file that
\* is there, at least as new as when its publish began (publish, copyFile).
THEOREM ViewersWhole == Spec => []PublishedWhole
<1>1. ASSUME IInv, NEW n \in Names \ mixed, live[n] # None, live[n].config.static
      PROVE  /\ live[n].worker /\ live[n].index # None
             /\ live[n].files[live[n].index] >= live[n].since
  BY <1>1 DEF IInv, Live, Sound, Served
<1>2. IInv => PublishedWhole
  BY <1>1 DEF PublishedWhole
<1> QED
  BY Inductive, <1>2, PTL
=============================================================================
