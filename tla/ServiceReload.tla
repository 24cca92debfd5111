---------------------------- MODULE ServiceReload ----------------------------
(***************************************************************************)
(* How an edit of the config file reaches the stable worker, and how the   *)
(* service takes the worker down.  Three goroutines share the state:       *)
(*                                                                         *)
(*   - the watcher goroutine runs reload.Reloader.Reload, one file event   *)
(*     at a time, and is the only caller of stable.Controller.Apply and    *)
(*     UseProcessor while the service is up;                               *)
(*   - the worker goroutine runs stable.Checker.Run: a cycle at once, then *)
(*     one per tick, each reading the published spec exactly once;         *)
(*   - the main goroutine runs app.Run: it waits for a signal or a listen  *)
(*     error and then joins the watcher, stops the worker and closes the   *)
(*     geoblock store, each join bounded by a timeout.                     *)
(*                                                                         *)
(* A config is the pair of what the worker policy is derived from (sources *)
(* groups, filters, prober and annotate blocks) and what only the          *)
(* processor is built from (geo sources, resolvers and the like).  A       *)
(* processor is named by the config that built it, a worker policy by its  *)
(* policy half, so a published spec is the pair [policy, filterer].        *)
(***************************************************************************)
EXTENDS Naturals

CONSTANTS
    Policies,      \* policy halves a config file may carry
    Procs,         \* processor-only halves a config file may carry
    Sourceless,    \* policies whose merged source list is empty
    Armed,         \* policies with a gemini gate: Apply must read its key file
    IntervalOf,    \* the cycle interval each policy sets, in ticks of the clock
    MaxOutages,    \* bound: outages of the key file or of a download
    CanStop        \* bound: whether the run looks at the end of the service

Configs == [policy : Policies, proc : Procs]

CONSTANTS
    Malformed,     \* a file config.Load refuses
    NoSpec         \* no checker was built yet, or none has cycled

ASSUME ConstantsAssumption ==
    /\ Sourceless \subseteq Policies
    /\ Armed \subseteq Policies
    /\ Malformed \notin Configs
    /\ NoSpec \notin [policy : Policies, filterer : Configs]
    /\ IntervalOf \in [Policies -> Nat \ {0}]
    /\ MaxOutages \in Nat
    /\ CanStop \in BOOLEAN

\* CheckerSpec: the worker policy and the processor it travels with.
Specs == [policy : Policies, filterer : Configs]

Enabled(c) == c.policy \notin Sourceless

VARIABLES
    file,            \* content of config.yaml and its overlays
    event,           \* a file event is waiting for the watcher goroutine
    keyUp,           \* the gemini key file is readable
    fetchUp,         \* the downloads NewProcessor needs succeed
    outages,         \* what the bound has left us with
    rpc,             \* program point of the watcher goroutine
    newCfg,          \* Reload's local: the config it loaded
    currentCfg,      \* Reloader.currentCfg
    currentProcCfg,  \* Reloader.currentProcCfg
    holder,          \* config that built the processor in reload.Holder
    checker,         \* Controller.checker # nil
    spec,            \* Checker.spec
    poke,            \* a value sits in Checker.reload
    wpc,             \* program point of the worker goroutine
    cycle,           \* the spec the worker's latest cycle loaded
    ticking,         \* the interval its ticker runs at
    left,            \* time until the ticker fires, 0 while there is none
    fired,           \* a tick waits in the channel of the ticker
    baseDone,        \* the context given to app.Run is cancelled
    workerCancel,    \* Controller.cancel was called on the live worker
    mpc,             \* program point of the main goroutine
    spc,             \* program point of the goroutine that calls Stop
    abandoned,       \* joins that timed out
    applyFailed      \* history: configs whose Apply returned an error

fileVars     == <<file, event, keyUp, fetchUp, outages>>
reloaderVars == <<rpc, newCfg, currentCfg, currentProcCfg, holder>>
specVars     == <<checker, spec, poke>>
tickerVars   == <<ticking, left, fired>>
workerVars   == <<wpc, cycle, tickerVars>>
mainVars     == <<baseDone, workerCancel, mpc, spc, abandoned>>
vars == <<fileVars, reloaderVars, specVars, workerVars, mainVars, applyFailed>>

(***************************************************************************)
(* The worker's context is done when the base context is, or when Stop has *)
(* cancelled the child context Apply derived for this worker.              *)
(***************************************************************************)
WorkerDone == baseDone \/ workerCancel

Running == mpc # "exited"

\* A worker goroutine exists and has not returned.
Live == wpc \notin {"none", "done"}

FileTypes ==
    /\ file \in Configs \cup {Malformed}
    /\ event \in BOOLEAN /\ keyUp \in BOOLEAN /\ fetchUp \in BOOLEAN
    /\ outages \in 0..MaxOutages

ReloaderTypes ==
    /\ rpc \in {"idle", "build", "publish", "poke", "down"}
    /\ newCfg \in Configs /\ holder \in Configs
    /\ currentCfg \in Configs /\ currentProcCfg \in Configs
    /\ applyFailed \subseteq Configs

SpecTypes ==
    /\ checker \in BOOLEAN /\ poke \in BOOLEAN
    /\ spec \in Specs \cup {NoSpec}

WorkerTypes ==
    /\ wpc \in {"none", "start", "cycle", "reread", "select", "done"}
    /\ cycle \in Specs \cup {NoSpec}
    /\ ticking \in {IntervalOf[p] : p \in Policies}
    /\ left \in 0..ticking /\ fired \in BOOLEAN

MainTypes ==
    /\ baseDone \in BOOLEAN /\ workerCancel \in BOOLEAN
    /\ mpc \in {"serve", "joinWatcher", "stopController", "joinWorker",
                "closeStore", "closed", "exited"}
    /\ spc \in {"none", "cancel", "wait", "returned"}
    /\ abandoned \subseteq {"watcher", "worker"}

\* Every variable keeps its type; in particular a spec, once built, always
\* carries the processor its policy was published with.
TypeOK == FileTypes /\ ReloaderTypes /\ SpecTypes /\ WorkerTypes /\ MainTypes

-----------------------------------------------------------------------------
(***************************************************************************)
(* app.Run up to the moment it serves: the startup config loaded, built    *)
(* and was applied (a failed Apply ends the process), so a worker exists   *)
(* exactly when that config has sources.                                   *)
(***************************************************************************)
Init ==
    /\ \E c \in Configs :
          /\ file = c /\ newCfg = c
          /\ currentCfg = c /\ currentProcCfg = c /\ holder = c
          /\ checker = Enabled(c)
          /\ spec = IF Enabled(c) THEN [policy |-> c.policy, filterer |-> c] ELSE NoSpec
          /\ wpc = IF Enabled(c) THEN "start" ELSE "none"
          /\ ticking = IntervalOf[c.policy]
    /\ event = FALSE /\ keyUp = TRUE /\ fetchUp = TRUE
    /\ outages = 0 /\ left = 0 /\ fired = FALSE
    /\ rpc = "idle" /\ poke = FALSE
    /\ cycle = NoSpec
    /\ baseDone = FALSE /\ workerCancel = FALSE
    /\ mpc = "serve" /\ spc = "none" /\ abandoned = {}
    /\ applyFailed = {}

-----------------------------------------------------------------------------
(* The environment: the file, the key file and the downloads.  It acts     *)
(* while the service is up; the last edit may still be waiting when the    *)
(* service stops, which is the only one a stopping watcher can pick up.    *)

\* The file is rewritten, and the watcher will get an event for it.  Saving
\* the same content again is an edit too: that is how an operator retries.
EditFile ==
    /\ mpc = "serve"
    /\ \E c \in Configs \cup {Malformed} : file' = c
    /\ event' = TRUE
    /\ UNCHANGED <<keyUp, fetchUp, outages, reloaderVars, specVars, workerVars,
                   mainVars, applyFailed>>

\* The key file, or a download a new processor needs, goes away or returns.
\* Neither is watched: no file event follows.
KeyFlips ==
    /\ mpc = "serve" /\ (keyUp => outages < MaxOutages)
    /\ keyUp' = ~keyUp
    /\ outages' = IF keyUp THEN outages + 1 ELSE outages
    /\ UNCHANGED <<file, event, fetchUp, reloaderVars, specVars, workerVars,
                   mainVars, applyFailed>>

FetchFlips ==
    /\ mpc = "serve" /\ (fetchUp => outages < MaxOutages)
    /\ fetchUp' = ~fetchUp
    /\ outages' = IF fetchUp THEN outages + 1 ELSE outages
    /\ UNCHANGED <<file, event, keyUp, reloaderVars, specVars, workerVars,
                   mainVars, applyFailed>>

Environment == EditFile \/ KeyFlips \/ FetchFlips

-----------------------------------------------------------------------------
(* The watcher goroutine: Reloader.Reload.                                 *)

\* Mutant of Redundant: the fast path looks at the committed config alone.
RedundantByConfigAlone(c) == currentCfg = c

\* The fast path: both the policy in force and the processor in force come
\* from this very config.
Redundant(c) == currentCfg = c /\ currentProcCfg = c

\* SubscriptionsChanged, GroupsChanged, FiltersChanged, ProberChanged or
\* AnnotateChanged against the config the worker's policy came from.
SubsAffected == currentCfg.policy # newCfg.policy

\* config.Load fails, or the config is the one already in force: keep all.
LoadRejected ==
    /\ Running /\ rpc = "idle" /\ event
    /\ file = Malformed \/ Redundant(file)
    /\ event' = FALSE
    /\ UNCHANGED <<file, keyUp, fetchUp, outages, reloaderVars, specVars,
                   workerVars, mainVars, applyFailed>>

LoadChanged ==
    /\ Running /\ rpc = "idle" /\ event
    /\ file # Malformed /\ ~Redundant(file)
    /\ event' = FALSE
    /\ newCfg' = file
    /\ rpc' = "build"
    /\ UNCHANGED <<file, keyUp, fetchUp, outages, currentCfg, currentProcCfg,
                   holder, specVars, workerVars, mainVars, applyFailed>>

\* NewProcessor could not download the geofeed or the cidr list it starts
\* from, or its context ended.  What the previous processor had loaded is
\* carried over, so a build from the same config needs no download.
BuildFails ==
    /\ Running /\ rpc = "build"
    /\ ~fetchUp \/ mpc # "serve"
    /\ newCfg # currentProcCfg
    /\ rpc' = "idle"
    /\ UNCHANGED <<fileVars, newCfg, currentCfg, currentProcCfg, holder, specVars,
                   workerVars, mainVars, applyFailed>>

\* The new processor is stored in the reload holder before anything else is
\* decided, for a config that will be refused as well.
BuildProcessor ==
    /\ Running /\ rpc = "build"
    /\ holder' = newCfg
    /\ rpc' = "publish"
    /\ UNCHANGED <<fileVars, newCfg, currentCfg, currentProcCfg, specVars, workerVars,
                   mainVars, applyFailed>>

\* The tail of Reload: the processor is recorded as current whatever became
\* of the policy, the config only when the worker's policy comes from it.
Commit(applied) ==
    /\ currentProcCfg' = newCfg
    /\ currentCfg' = IF applied THEN newCfg ELSE currentCfg
    /\ rpc' = "idle"
    /\ UNCHANGED <<newCfg, holder>>

\* Controller.UseProcessor: copy the live policy forward with the processor.
UseProcessor(c) ==
    /\ spec' = IF checker THEN [spec EXCEPT !.filterer = c] ELSE spec
    /\ UNCHANGED <<checker, poke>>

PublishProcessor ==
    /\ Running /\ rpc = "publish" /\ ~SubsAffected
    /\ UseProcessor(newCfg)
    /\ Commit(TRUE)
    /\ UNCHANGED <<fileVars, workerVars, mainVars, applyFailed>>

\* Apply reports a config without sources as refused: neither half is
\* published and the config is not committed.
ApplyRefused ==
    /\ Running /\ rpc = "publish" /\ SubsAffected
    /\ ~Enabled(newCfg)
    /\ Commit(FALSE)
    /\ UNCHANGED <<fileVars, specVars, workerVars, mainVars, applyFailed>>

\* resolveGeminiKey finds no key: Apply returns an error, and Reload still
\* hands the rebuilt processor to the worker.
ApplyFails ==
    /\ Running /\ rpc = "publish" /\ SubsAffected
    /\ Enabled(newCfg)
    /\ newCfg.policy \in Armed /\ ~keyUp
    /\ UseProcessor(newCfg)
    /\ Commit(FALSE)
    /\ applyFailed' = applyFailed \cup {newCfg}
    /\ UNCHANGED <<fileVars, workerVars, mainVars>>

ApplyOK ==
    /\ Running /\ rpc = "publish" /\ SubsAffected
    /\ Enabled(newCfg)
    /\ newCfg.policy \in Armed => keyUp

\* Mutant of ApplyReconfigures: the policy is stored without its processor.
ReconfigureKeepsProcessor ==
    /\ ApplyOK /\ checker
    /\ spec' = [spec EXCEPT !.policy = newCfg.policy]
    /\ rpc' = "poke"
    /\ UNCHANGED <<fileVars, newCfg, currentCfg, currentProcCfg, holder, checker, poke,
                   workerVars, mainVars, applyFailed>>

\* A running checker is reconfigured: the pair is stored, then Run is poked.
ApplyReconfigures ==
    /\ ApplyOK /\ checker
    /\ spec' = [policy |-> newCfg.policy, filterer |-> holder]
    /\ rpc' = "poke"
    /\ UNCHANGED <<fileVars, newCfg, currentCfg, currentProcCfg, holder, checker, poke,
                   workerVars, mainVars, applyFailed>>

\* Mutant of PokeWorker: the worker is not woken.
PokeForgotten ==
    /\ Running /\ rpc = "poke"
    /\ Commit(TRUE)
    /\ UNCHANGED <<fileVars, specVars, workerVars, mainVars, applyFailed>>

PokeWorker ==
    /\ Running /\ rpc = "poke"
    /\ poke' = TRUE
    /\ Commit(TRUE)
    /\ UNCHANGED <<fileVars, checker, spec, workerVars, mainVars, applyFailed>>

\* The first config with sources starts the worker under a fresh context.
ApplyStarts ==
    /\ ApplyOK /\ ~checker
    /\ checker' = TRUE
    /\ spec' = [policy |-> newCfg.policy, filterer |-> holder]
    /\ poke' = FALSE
    /\ wpc' = "start" /\ left' = 0 /\ fired' = FALSE
    /\ workerCancel' = FALSE
    /\ Commit(TRUE)
    /\ UNCHANGED <<fileVars, cycle, ticking, baseDone, mpc, spc, abandoned,
                   applyFailed>>

\* The watcher loop sees its own context cancelled between two reloads.
WatcherReturns ==
    /\ Running /\ rpc = "idle" /\ mpc # "serve"
    /\ rpc' = "down"
    /\ UNCHANGED <<fileVars, newCfg, currentCfg, currentProcCfg, holder, specVars,
                   workerVars, mainVars, applyFailed>>

Watcher ==
    \/ LoadRejected \/ LoadChanged
    \/ BuildFails \/ BuildProcessor
    \/ PublishProcessor \/ ApplyRefused \/ ApplyFails
    \/ ApplyReconfigures \/ PokeWorker \/ ApplyStarts
    \/ WatcherReturns

-----------------------------------------------------------------------------
(* The worker goroutine: Checker.Run, a cycle seen from outside.           *)

\* Time passes for the ticker of a running worker.  When it fires while a tick
\* still waits in its channel, the new one is dropped.
ClockTicks ==
    /\ Running /\ Live /\ left > 0
    /\ left' = IF left = 1 THEN ticking ELSE left - 1
    /\ fired' = (fired \/ left = 1)
    /\ UNCHANGED <<fileVars, reloaderVars, specVars, wpc, cycle, ticking, mainVars,
                   applyFailed>>

\* RunOnce loads the spec once, up front.  The first cycle waits for nothing, a
\* later one for a tick.
BeginCycle ==
    /\ Running
    /\ wpc = "start" \/ (wpc = "select" /\ fired)
    /\ cycle' = spec
    /\ fired' = FALSE
    /\ wpc' = "cycle"
    /\ UNCHANGED <<fileVars, reloaderVars, specVars, ticking, left, mainVars,
                   applyFailed>>

\* It published a list, kept the one before, failed or was cancelled.
EndCycle ==
    /\ Running /\ wpc = "cycle"
    /\ wpc' = "reread"
    /\ UNCHANGED <<fileVars, reloaderVars, specVars, cycle, tickerVars, mainVars,
                   applyFailed>>

\* NewTicker and Ticker.Reset: a whole interval from now, and no stale tick.
Arm(i) == ticking' = i /\ left' = i /\ fired' = FALSE

\* Mutant of RereadInterval: every wakeup re-arms the ticker.
RereadRearms ==
    /\ Running /\ wpc = "reread"
    /\ Arm(IntervalOf[spec.policy])
    /\ wpc' = "select"
    /\ UNCHANGED <<fileVars, reloaderVars, specVars, cycle, mainVars,
                   applyFailed>>

\* The interval is read again after every cycle and after every poke.  The
\* ticker is started after the first cycle, and re-armed for a new interval only.
RereadInterval ==
    /\ Running /\ wpc = "reread"
    /\ LET next == IntervalOf[spec.policy]
       IN  IF left = 0 \/ next # ticking THEN Arm(next) ELSE UNCHANGED tickerVars
    /\ wpc' = "select"
    /\ UNCHANGED <<fileVars, reloaderVars, specVars, cycle, mainVars,
                   applyFailed>>

TakePoke ==
    /\ Running /\ wpc = "select" /\ poke
    /\ poke' = FALSE
    /\ wpc' = "reread"
    /\ UNCHANGED <<fileVars, reloaderVars, checker, spec, cycle, tickerVars,
                   mainVars, applyFailed>>

WorkerReturns ==
    /\ Running /\ wpc = "select" /\ WorkerDone
    /\ wpc' = "done"
    /\ left' = 0 /\ fired' = FALSE
    /\ UNCHANGED <<fileVars, reloaderVars, specVars, cycle, ticking, mainVars,
                   applyFailed>>

Worker ==
    \/ BeginCycle \/ EndCycle \/ RereadInterval \/ TakePoke \/ WorkerReturns

-----------------------------------------------------------------------------
(* The main goroutine: the tail of app.Run and its deferred joins.         *)

\* A signal cancels the base context; a listen error does not.
ServeEnds ==
    /\ CanStop /\ mpc = "serve"
    /\ baseDone' \in BOOLEAN
    /\ mpc' = "joinWatcher"
    /\ UNCHANGED <<fileVars, reloaderVars, specVars, workerVars, workerCancel, spc,
                   abandoned, applyFailed>>

\* The signal that comes after a listen error finds the joins under way.
LateSignal ==
    /\ mpc \notin {"serve", "exited"} /\ ~baseDone
    /\ baseDone' = TRUE
    /\ UNCHANGED <<fileVars, reloaderVars, specVars, workerVars, workerCancel, mpc, spc,
                   abandoned, applyFailed>>

WatcherJoined ==
    /\ mpc = "joinWatcher" /\ rpc = "down"
    /\ mpc' = "stopController"
    /\ UNCHANGED <<fileVars, reloaderVars, specVars, workerVars, baseDone, workerCancel,
                   spc, abandoned, applyFailed>>

\* A reload wedged past the budget is abandoned.
WatcherTimesOut ==
    /\ mpc = "joinWatcher" /\ rpc # "down"
    /\ mpc' = "stopController"
    /\ abandoned' = abandoned \cup {"watcher"}
    /\ UNCHANGED <<fileVars, reloaderVars, specVars, workerVars, baseDone, workerCancel,
                   spc, applyFailed>>

\* Mutant of StopSpawned: the worker is cancelled but not waited for.
StopNotJoined ==
    /\ mpc = "stopController"
    /\ spc' = "cancel"
    /\ mpc' = "closeStore"
    /\ UNCHANGED <<fileVars, reloaderVars, specVars, workerVars, baseDone, workerCancel,
                   abandoned, applyFailed>>

\* stopController runs Stop in a goroutine of its own and waits for it.
StopSpawned ==
    /\ mpc = "stopController"
    /\ spc' = "cancel"
    /\ mpc' = "joinWorker"
    /\ UNCHANGED <<fileVars, reloaderVars, specVars, workerVars, baseDone, workerCancel,
                   abandoned, applyFailed>>

\* Stop without a worker returns at once; otherwise it cancels the worker.
StopCancels ==
    /\ Running /\ spc = "cancel"
    /\ workerCancel' = checker
    /\ spc' = IF checker THEN "wait" ELSE "returned"
    /\ UNCHANGED <<fileVars, reloaderVars, specVars, workerVars, baseDone, mpc,
                   abandoned, applyFailed>>

\* Mutant of StopReturns: Stop forgets the checker without waiting for it.
StopForgetsAtOnce ==
    /\ Running /\ spc = "wait"
    /\ spc' = "returned"
    /\ checker' = FALSE
    /\ UNCHANGED <<fileVars, reloaderVars, spec, poke, workerVars, baseDone, workerCancel,
                   mpc, abandoned, applyFailed>>

\* The worker goroutine closed its done channel: Stop forgets the checker.
StopReturns ==
    /\ Running /\ spc = "wait" /\ wpc = "done"
    /\ spc' = "returned"
    /\ checker' = FALSE
    /\ UNCHANGED <<fileVars, reloaderVars, spec, poke, workerVars, baseDone, workerCancel,
                   mpc, abandoned, applyFailed>>

WorkerJoined ==
    /\ mpc = "joinWorker" /\ spc = "returned"
    /\ mpc' = "closeStore"
    /\ UNCHANGED <<fileVars, reloaderVars, specVars, workerVars, baseDone, workerCancel,
                   spc, abandoned, applyFailed>>

WorkerTimesOut ==
    /\ mpc = "joinWorker" /\ spc # "returned"
    /\ mpc' = "closeStore"
    /\ abandoned' = abandoned \cup {"worker"}
    /\ UNCHANGED <<fileVars, reloaderVars, specVars, workerVars, baseDone, workerCancel,
                   spc, applyFailed>>

CloseStore ==
    /\ mpc = "closeStore"
    /\ mpc' = "closed"
    /\ UNCHANGED <<fileVars, reloaderVars, specVars, workerVars, baseDone, workerCancel,
                   spc, abandoned, applyFailed>>

ProcessExits ==
    /\ mpc = "closed"
    /\ mpc' = "exited"
    /\ UNCHANGED <<fileVars, reloaderVars, specVars, workerVars, baseDone, workerCancel,
                   spc, abandoned, applyFailed>>

Main ==
    \/ ServeEnds \/ LateSignal \/ WatcherJoined \/ WatcherTimesOut \/ StopSpawned
    \/ WorkerJoined \/ WorkerTimesOut \/ CloseStore \/ ProcessExits

Stopper == StopCancels \/ StopReturns

\* An exited process takes no step; any other state without one is a deadlock.
Exited == mpc = "exited" /\ UNCHANGED vars

Next == Environment \/ Watcher \/ ClockTicks \/ Worker \/ Main \/ Stopper \/ Exited

Spec == Init /\ [][Next]_vars

(***************************************************************************)
(* Fairness.  Every goroutine that can take a step of its own takes it:    *)
(* Reload and RunOnce only call bounded work (each download, probe and     *)
(* through-node request carries a timeout), and time passes.  Run's select *)
(* picks among its ready cases at random, so a tick that is ready again    *)
(* and again beside pokes is taken at last: that is strong fairness.       *)
(* Nothing is assumed of the environment nor of the main goroutine.        *)
(***************************************************************************)
WatcherFairness == WF_vars(Watcher)

WorkerFairness == WF_vars(ClockTicks) /\ WF_vars(Worker) /\ SF_vars(BeginCycle)

FairSpec == Spec /\ WatcherFairness /\ WorkerFairness

-----------------------------------------------------------------------------
(* Safety.                                                                 *)

Published == {s \in {spec, cycle} : s # NoSpec}

\* Policy and processor of a spec agree on everything the policy is made of.
Coherent(s) == s.policy = s.filterer.policy

(***************************************************************************)
(* A cycle reads its country deny-set, its filter chain and its lookup     *)
(* providers from one config: whatever Reload, Apply and RunOnce           *)
(* interleave, the published spec and the spec of the latest cycle pair a  *)
(* policy with a processor built from the same policy.  The one exception  *)
(* the code documents is a processor whose own Apply failed, which the     *)
(* worker gets without its policy.                                         *)
(***************************************************************************)
CycleReadsOneGeneration ==
    \A s \in Published : Coherent(s) \/ s.filterer \in applyFailed

(***************************************************************************)
(* What RunOnce's comment says of the spec it reads: "the deny-set, the    *)
(* filter chain and the lookup providers always agree", without exception. *)
(* A cycle after a failed Apply violates it.                               *)
(***************************************************************************)
CycleAlwaysAgrees == cycle # NoSpec => Coherent(cycle)

(***************************************************************************)
(* A config without sources, nearly always a truncated overlay, never      *)
(* reaches the worker: neither its policy nor the processor Reload had     *)
(* already built and stored in the holder by the time Apply refused it.    *)
(***************************************************************************)
RefusedNeverRuns ==
    \A s \in Published : s.policy \notin Sourceless /\ Enabled(s.filterer)

(***************************************************************************)
(* The "config unchanged; skipping reload" fast path never hides a         *)
(* difference: when a reload of c would be skipped, the live worker runs   *)
(* c's policy with c's processor.  After a failed Apply a revert to the    *)
(* old file therefore still goes through.                                  *)
(***************************************************************************)
SkipMeansInForce ==
    \A c \in Configs :
        checker /\ rpc = "idle" /\ Redundant(c)
            => spec = [policy |-> c.policy, filterer |-> c]

(***************************************************************************)
(* No interval change is missed: while the worker sits in its select with  *)
(* no poke pending, its ticker runs at the published interval, however     *)
(* the store of the spec, the poke and the worker's drain interleaved.     *)
(***************************************************************************)
IntervalNotMissed ==
    wpc = "select" /\ ~poke /\ rpc # "poke" => ticking = IntervalOf[spec.policy]

(***************************************************************************)
(* The geoblock store outlives its writers: once it is closed, both        *)
(* goroutines that use it have returned, unless a join was given up on.    *)
(***************************************************************************)
StoreClosedLast ==
    mpc = "closed" /\ abandoned = {} => rpc = "down" /\ ~Live /\ ~checker

(***************************************************************************)
(* There is never a second worker: Apply starts one only when no worker    *)
(* goroutine is alive, even when a wedged reload wakes up while Stop runs. *)
(***************************************************************************)
NeverTwoWorkers == [][ApplyStarts => ~Live]_vars

-----------------------------------------------------------------------------
(* Liveness.                                                               *)

\* What an operator needs for an edit to go through.
Effective ==
    /\ file # Malformed /\ keyUp /\ fetchUp /\ mpc = "serve"
    /\ Enabled(file)

InForce == checker /\ spec = [policy |-> file.policy, filterer |-> file]

(***************************************************************************)
(* An edit that names sources and whose key and downloads are available    *)
(* ends up as the spec the worker publishes cycles under, whatever state   *)
(* earlier failed or refused reloads left behind -- unless the file is     *)
(* changed again, the key or the downloads go, or the service is stopped.  *)
(***************************************************************************)
EditTakesEffect ==
    \A c \in Configs :
        event /\ file = c /\ Effective ~> ~Effective \/ file # c \/ InForce

(***************************************************************************)
(* Reconfiguring does not starve the worker, however long edits keep       *)
(* coming and poking it out of its select: as long as the interval stays   *)
(* the same, a published spec the latest cycle did not run under is taken  *)
(* up by a later one.  Only a new interval lets Run start its wait anew.   *)
(***************************************************************************)
PublishedSpecCycles ==
    \A i \in {IntervalOf[p] : p \in Policies} :
        checker /\ cycle # spec /\ IntervalOf[spec.policy] = i
            ~> mpc # "serve" \/ cycle = spec \/ IntervalOf[spec.policy] # i
=============================================================================
