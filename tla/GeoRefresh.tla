----------------------------- MODULE GeoRefresh -----------------------------
(***************************************************************************)
(* The life of one downloaded table: the geofeed, a country database       *)
(* (dbip, registry) or the cidr allow-list.  A processor loads the table   *)
(* when it is built, requests notice that it is stale and start one        *)
(* download behind it, and a hot reload builds the next processor, which   *)
(* adopts the table of the last one when its configuration block did not   *)
(* change.  Sources fail, answer short and recover at any time.            *)
(*                                                                         *)
(* The three kinds share this cycle and differ in what a failed first      *)
(* load means, in what an interval of 0 means, and in which edit of the    *)
(* configuration makes them download again.  Clocks are kept as distances: *)
(* the age of a table, and what is left until its retry.                   *)
(***************************************************************************)
EXTENDS Integers, FiniteSets

CONSTANTS
    Kinds,        \* the kinds looked at
    SourceLists,  \* what a configuration block may list
    Mirrors,      \* the sources of one list
    Interval,     \* refresh_interval, when it is not 0
    RetryAfter,   \* reloadRetryInterval
    MaxShift,     \* maxRetryBackoffShift
    MaxLooks,     \* requests between reading "stale" and taking the lock
    NoSources, Never, Nothing

ASSUME Parameters ==
    /\ Kinds \subseteq {"geofeed", "dbip", "registry", "cidr"}
    /\ IsFiniteSet(Mirrors)
    /\ Interval \in Nat \ {0} /\ RetryAfter \in Nat \ {0}
    /\ MaxShift \in Nat /\ MaxLooks \in Nat \ {0}
    /\ NoSources \notin SourceLists
    /\ Never \notin Nat

-----------------------------------------------------------------------------
(* Downloads.                                                              *)

\* What a source may do: answer whole, answer short with a 200 (no error
\* anywhere), or fail on the way.
SourceAnswers == {"whole", "short", "unreachable", "badStatus", "notFound",
                  "oversized", "undecodable", "junk"}

\* readBody stops one byte past the caller's limit.
WithinLimit(answer) == answer # "oversized"

\* MaybeDecode: a gzip stream is cut off when it is broken or expands beyond
\* the allowed ratio.
Decoded(answer) == answer # "undecodable"

\* fetch.BytesWithType
Fetched(answer) ==
    /\ answer \notin {"unreachable", "badStatus", "notFound"}
    /\ Decoded(answer) /\ WithinLimit(answer)

\* A body in which no line parses counts as a failed source.
Parsed(answer) == Fetched(answer) /\ answer # "junk"

WholeSize == 3      \* what a source yields when it answers whole; short is 1

(***************************************************************************)
(* LoadAll, LoadRegistry and cidrset.Load: a source that fails is skipped  *)
(* and counted, and only a load with nothing in it is an error.            *)
(***************************************************************************)
Load(answers) ==
    LET parsed == {m \in Mirrors : Parsed(answers[m])}
        whole  == {m \in parsed : answers[m] = "whole"}
    IN  [size   |-> WholeSize * Cardinality(whole) + Cardinality(parsed \ whole),
         failed |-> Cardinality(Mirrors \ parsed)]

\* One source, and a month that is not published yet sends it to the last
\* one: its failure is a total one and never counted.
LoadDBIP(current, previous) ==
    LET answer == IF current = "notFound" THEN previous ELSE current
    IN  [size   |-> CASE ~Parsed(answer)    -> 0
                      [] answer = "whole"   -> WholeSize
                      [] answer = "short"   -> 1,
         failed |-> 0]

Full(kind) ==
    IF kind = "dbip" THEN WholeSize ELSE WholeSize * Cardinality(Mirrors)

\* What sources in trouble may yield.
DBIPLoads   == {LoadDBIP(c, p) : c, p \in SourceAnswers}
MirrorLoads == {Load(a) : a \in [Mirrors -> SourceAnswers]}

Empty(load) == load.size = 0

-----------------------------------------------------------------------------
(* Configurations and tables.                                              *)

\* An explicit 0 freezes the geofeed; the other blocks read it as unset.
Effective(kind, every) ==
    IF every = 0 /\ kind # "geofeed" THEN Interval ELSE every

Configs(kind) ==
    [src    : SourceLists \cup {NoSources},
     every  : {Effective(kind, e) : e \in {0, Interval}}]

\* A processor with no source to load never refreshes, whatever its interval.
Refreshes(cfg) == cfg.src # NoSources /\ cfg.every > 0

Tables ==
    [src      : SourceLists \cup {NoSources},
     size     : Nat,
     age      : (0..Interval) \cup {Never},
     retry    : (0..Interval) \cup {Never},
     failures : 0..(MaxShift + 1)]

Absent == [src |-> NoSources, size |-> 0, age |-> Never, retry |-> Never,
           failures |-> 0]

Smaller(a, b) == IF a <= b THEN a ELSE b

\* The delay doubles with every failure and is clamped to the interval.
RetryDelay(failures) ==
    LET delay == RetryAfter * 2^Smaller(failures, MaxShift)
    IN  IF delay \in 1..Interval THEN delay ELSE Interval

\* scheduleRetryLocked
Rearmed(t) == [t EXCEPT !.retry    = RetryDelay(t.failures),
                        !.failures = Smaller(@ + 1, MaxShift + 1)]

(***************************************************************************)
(* A load is kept out while a table is in force, when a source failed or   *)
(* when less than half of the table would be left.                         *)
(***************************************************************************)
SwapRefused(size, load) ==
    size > 0 /\ (load.failed > 0 \/ 2 * load.size < size)

\* A table that was just loaded.
Fresh(src, load) ==
    [src |-> src, size |-> load.size, age |-> 0, retry |-> Never,
     failures |-> 0]

\* A table none of whose sources answered: nothing to serve, a retry armed.
Unloaded(src) == Rearmed([Absent EXCEPT !.src = src])

-----------------------------------------------------------------------------
(* The first load of a processor: the table it starts with, or Nothing     *)
(* when NewProcessor fails.                                                *)

\* What a load leaves where nothing better is in force.
Partial(cfg, load) ==
    IF load.failed > 0 /\ Refreshes(cfg)
    THEN Rearmed(Fresh(cfg.src, load)) ELSE Fresh(cfg.src, load)

\* Mutant of InitialGeofeed: any carried table is adopted.
GeofeedAdopted(cfg, carried, load) ==
    CASE carried # Nothing -> carried
      [] carried = Nothing /\ cfg.src = NoSources ->
           Fresh(NoSources, [size |-> 0, failed |-> 0])
      [] carried = Nothing /\ cfg.src # NoSources /\ ~Empty(load) ->
           Partial(cfg, load)
      [] carried = Nothing /\ cfg.src # NoSources /\ Empty(load) ->
           IF cfg.every = 0 THEN Nothing ELSE Unloaded(cfg.src)

InitialGeofeed(cfg, carried, load) ==
    CASE carried # Nothing ->
           IF carried.size = 0 /\ cfg.src # NoSources /\ cfg.every = 0
           THEN Nothing ELSE carried
      [] carried = Nothing /\ cfg.src = NoSources ->
           Fresh(NoSources, [size |-> 0, failed |-> 0])
      [] carried = Nothing /\ cfg.src # NoSources /\ ~Empty(load) ->
           Partial(cfg, load)
      [] carried = Nothing /\ cfg.src # NoSources /\ Empty(load) ->
           IF cfg.every = 0 THEN Nothing ELSE Unloaded(cfg.src)

NewGeoDB(cfg, carried, load) ==
    CASE carried # Nothing -> carried
      [] carried = Nothing /\ Empty(load)  -> Unloaded(cfg.src)
      [] carried = Nothing /\ ~Empty(load) -> Partial(cfg, load)

NewCIDRStore(cfg, carried, load) ==
    CASE carried # Nothing -> carried
      [] carried = Nothing /\ Empty(load)  -> Nothing
      [] carried = Nothing /\ ~Empty(load) -> Partial(cfg, load)

\* A country database no chain names, or a list no filter asks for, is not
\* built at all.
NewProcessor(kind, cfg, carried, load) ==
    CASE kind = "geofeed" -> InitialGeofeed(cfg, carried, load)
      [] kind \in {"dbip", "registry"} /\ cfg.src # NoSources ->
           NewGeoDB(cfg, carried, load)
      [] kind = "cidr" /\ cfg.src # NoSources ->
           NewCIDRStore(cfg, carried, load)
      [] kind # "geofeed" /\ cfg.src = NoSources -> Absent

-----------------------------------------------------------------------------
VARIABLES
    kind,         \* the kind of the table
    proc,         \* Reloader.currentProc: the configuration it was built
                  \* from (currentProcCfg) and its table
    runCfg,       \* Reloader.currentCfg, which a failed Apply leaves behind
    build,        \* the configuration being built and the state carried
                  \* into it, or Nothing
    looks,        \* requests that read "stale" and did not try the lock yet
    downloading,  \* reloadMu of the table is held
    trouble       \* the sources may fail or answer short

geoVars == <<kind, proc, runCfg, build, looks, downloading, trouble>>

Loads ==
    CASE ~trouble                 -> {[size |-> Full(kind), failed |-> 0]}
      [] trouble /\ kind = "dbip" -> DBIPLoads
      [] trouble /\ kind # "dbip" -> MirrorLoads

Processors == [cfg : Configs(kind), table : Tables]
Builds     == [cfg : Configs(kind), carried : Tables \cup {Nothing}]

\* Every variable keeps its type; the retry of a table never lies further
\* away than the refresh interval, however many attempts failed.
GeoOK ==
    /\ kind \in Kinds /\ proc \in Processors /\ runCfg \in Configs(kind)
    /\ build \in Builds \cup {Nothing}
    /\ looks \in 0..MaxLooks
    /\ downloading \in BOOLEAN /\ trouble \in BOOLEAN

\* Startup: nothing is carried, and a table that is fatal ends the process.
GeoInit ==
    /\ kind \in Kinds /\ trouble \in BOOLEAN
    /\ \E cfg \in Configs(kind), load \in Loads :
          /\ NewProcessor(kind, cfg, Nothing, load) # Nothing
          /\ proc = [cfg |-> cfg,
                     table |-> NewProcessor(kind, cfg, Nothing, load)]
          /\ runCfg = cfg
    /\ build = Nothing /\ looks = 0 /\ downloading = FALSE

-----------------------------------------------------------------------------
(* Refreshes, behind requests.                                             *)

\* Mutant of Stale: the retry is armed and not read.
StaleByAge(p) == Refreshes(p.cfg) /\ p.table.age = Interval

\* shouldReloadGeofeedLocked and staleLocked: a pending retry overrides the
\* age in both directions.
Stale(p) ==
    /\ Refreshes(p.cfg)
    /\ IF p.table.retry # Never THEN p.table.retry = 0
                                ELSE p.table.age \in {Never, Interval}

\* A request finds the table stale and releases the read lock.
Look ==
    /\ Stale(proc) /\ looks < MaxLooks
    /\ looks' = looks + 1
    /\ UNCHANGED <<kind, proc, runCfg, build, downloading, trouble>>

\* It looks at the geofeed as it takes its country lookup, and at the other
\* tables before that.
CurrentEntries        == kind = "geofeed" /\ Look
MaybeRefreshDatabases == kind # "geofeed" /\ Look

\* It goes on to TryLock: one download runs at a time, and a request that
\* comes too late for one may start the next.
TryReload ==
    /\ looks > 0
    /\ looks' = looks - 1 /\ downloading' = TRUE
    /\ UNCHANGED <<kind, proc, runCfg, build, trouble>>

\* doReload: what the table of a live processor becomes.
Reloaded(t, load) ==
    CASE Empty(load) \/ SwapRefused(t.size, load) -> Rearmed(t)
      [] ~Empty(load) /\ ~SwapRefused(t.size, load) /\ load.failed > 0 ->
           Rearmed([t EXCEPT !.size = load.size, !.age = 0])
      [] ~Empty(load) /\ ~SwapRefused(t.size, load) /\ load.failed = 0 ->
           Fresh(t.src, load)

FinishReload ==
    /\ downloading /\ downloading' = FALSE
    /\ \E load \in Loads : proc' = [proc EXCEPT !.table = Reloaded(@, load)]
    /\ UNCHANGED <<kind, runCfg, build, looks, trouble>>

-----------------------------------------------------------------------------
(* Hot reloads.                                                            *)

\* GeofeedSourcesChanged looks at the sources alone; DBIPChanged,
\* RegistryChanged and CIDRFiltersChanged at the whole block.
Changed(old, new) ==
    old.src # new.src \/ (kind # "geofeed" /\ old.every # new.every)

\* Mutant of Carried: judged against the policy the worker runs.
CarriedByPolicy(cfg) ==
    IF Changed(runCfg, cfg) \/ proc.table = Absent
    THEN Nothing ELSE proc.table

\* carryLoadedState: judged against the configuration that built the live
\* processor, and only a table that exists is carried.
Carried(cfg) ==
    IF Changed(proc.cfg, cfg) \/ proc.table = Absent
    THEN Nothing ELSE proc.table

\* Reload: the file changed, here (cfg) or in a part of it that says nothing
\* about this table: the crawler rewrites private.yaml all day.
BeginBuild ==
    /\ build = Nothing
    /\ \E cfg \in Configs(kind) :
          build' = [cfg |-> cfg, carried |-> Carried(cfg)]
    /\ UNCHANGED <<kind, proc, runCfg, looks, downloading, trouble>>

\* The new processor is published: requests use it from here on, and what
\* happened to the old table since it was carried is lost with it.  An Apply
\* that fails or refuses the file leaves currentCfg behind.
Publish ==
    /\ build # Nothing
    /\ \E load \in Loads :
          LET table == NewProcessor(kind, build.cfg, build.carried, load)
          IN  /\ table # Nothing
              /\ proc' = [cfg |-> build.cfg, table |-> table]
    /\ runCfg' \in {build.cfg, runCfg}
    /\ build' = Nothing /\ looks' = 0 /\ downloading' = FALSE
    /\ UNCHANGED <<kind, trouble>>

\* The build fails over this table or over another one.
Abandon ==
    /\ build # Nothing /\ build' = Nothing
    /\ UNCHANGED <<kind, proc, runCfg, looks, downloading, trouble>>

-----------------------------------------------------------------------------
Older(t) ==
    [t EXCEPT !.age   = IF @ = Never THEN @ ELSE Smaller(@ + 1, Interval),
              !.retry = IF @ \in {Never, 0} THEN @ ELSE @ - 1]

\* Time passes for the live table and for the one being carried.
Tick ==
    /\ proc' = [proc EXCEPT !.table = Older(@)]
    /\ build' = IF build = Nothing \/ build.carried = Nothing THEN build
                ELSE [build EXCEPT !.carried = Older(@)]
    /\ UNCHANGED <<kind, runCfg, looks, downloading, trouble>>

Weather ==
    /\ trouble' = ~trouble
    /\ UNCHANGED <<kind, proc, runCfg, build, looks, downloading>>

GeoNext ==
    \/ CurrentEntries \/ MaybeRefreshDatabases \/ TryReload \/ FinishReload
    \/ BeginBuild \/ Publish \/ Abandon
    \/ Tick \/ Weather

GeoSpec == GeoInit /\ [][GeoNext]_geoVars

\* Requests keep coming (the worker's cycles), a download ends (the client
\* has a deadline), a build ends, and time passes.
Fairness ==
    /\ WF_geoVars(Look) /\ WF_geoVars(TryReload) /\ WF_geoVars(FinishReload)
    /\ WF_geoVars(Publish \/ Abandon) /\ WF_geoVars(Tick)

FairGeoSpec == GeoSpec /\ Fairness

-----------------------------------------------------------------------------
(* Properties.                                                             *)

(***************************************************************************)
(* An empty table is never in force for good: where sources are listed, a  *)
(* retry is armed and the interval lets it fire, and an allow-list is      *)
(* never empty at all.  A failed first load, a carried table and an edit   *)
(* of the interval have to agree on it.                                    *)
(***************************************************************************)
NoSilentVoid ==
    (proc.cfg.src # NoSources /\ proc.table.size = 0) =>
        /\ kind # "cidr"
        /\ Refreshes(proc.cfg) /\ proc.table.retry # Never

(***************************************************************************)
(* The table in force was loaded from the sources its processor is         *)
(* configured with, also after an Apply that failed left currentCfg behind *)
(* the processor and an operator reverted the file.                        *)
(***************************************************************************)
OwnSources == proc.table.src = proc.cfg.src

(***************************************************************************)
(* Once the sources stay well and the configuration stays put, the table   *)
(* becomes whole: a failed or refused download, a partial one, a shrunken  *)
(* one and a carried one are all replaced in the end.                      *)
(***************************************************************************)
Settled == ~trouble /\ build = Nothing /\ Refreshes(proc.cfg)

EventuallyWhole == <>[]Settled => <>[](proc.table.size = Full(kind))

=============================================================================
