----------------------------- MODULE StableCycle -----------------------------
(***************************************************************************)
(* One stable worker and what its cycles do to the state that outlives     *)
(* them: stable.Checker.RunOnce with its exits, the dead cache, the        *)
(* geoblock store, the prober's adapters and resolver bindings, the served *)
(* list and its snapshot on disk.  The cycle may be cancelled at any point *)
(* and the process may be killed at any point.                             *)
(*                                                                         *)
(* A node is a merged entry: one server:port at the address the IP stage   *)
(* resolved, which is also its dead-cache key.  HostOf names the host the  *)
(* geoblock store would record for it.  The caches hold their unexpired    *)
(* entries only: Blocked ignores the others and pruneCaches just frees     *)
(* them.  The writes of SaveSnapshot are one step here; SnapshotFile takes *)
(* them apart.                                                             *)
(***************************************************************************)
EXTENDS NodeFilters, Sequences

CONSTANTS
    Nodes,     \* what the sources may name
    HostOf,    \* the host of each node
    Chain,     \* the through-node gates, in configuration order
    NoList     \* the holder is empty, or there is no snapshot

Hosts == {HostOf[n] : n \in Nodes}

\* A published list: its nodes, and whether the end of the context has cost it
\* something: a node no gate could ask any more, or a tag that was not resolved.
AnyList == [nodes : SUBSET Nodes, degraded : BOOLEAN]

\* The lists worth publishing.
GoodLists == {l \in AnyList : l.nodes # {} /\ ~l.degraded}

ASSUME CycleAssumption ==
    /\ IsFiniteSet(Nodes)
    /\ Chain \in Seq(Gates)
    /\ NoList \notin AnyList

VARIABLES
    pc,         \* program point of the worker, "absent" while there is none
    cancelled,  \* the worker's context is done
    probe,      \* the entries of this cycle: merged, then those to probe
    kept,       \* the survivors so far
    gate,       \* index of the next gate
    pending,    \* hosts keepOutcomes has still to record
    degraded,   \* a gate or BuildPayload ran, in part, under a cancelled context
    adapters,   \* who owes the close of the parsed proxies
    bound,      \* resolver pins of this cycle are installed
    errors,     \* ObserveError calls of the latest cycle
    observed,   \* Observe calls of the latest cycle
    stored,     \* the latest cycle swapped a list in
    served,     \* stable.Holder
    disk,       \* the snapshot file
    dead,       \* DeadSet
    blocked,    \* geoblock.Store, in memory
    rows        \* geoblock.Store, in its database

cycleVars  == <<probe, kept, gate, pending, degraded>>
proberVars == <<adapters, bound>>
reportVars == <<errors, observed>>
listVars   == <<stored, served, disk>>
storeVars  == <<blocked, rows>>
vars == <<pc, cancelled, cycleVars, proberVars, reportVars, listVars, dead, storeVars>>

TypeOK ==
    /\ pc \in {"absent", "start", "idle", "merged", "probe", "probed", "filter", "render",
               "publish", "save", "report", "done"}
    /\ cancelled \in BOOLEAN /\ degraded \in BOOLEAN
    /\ bound \in BOOLEAN /\ stored \in BOOLEAN
    /\ probe \subseteq Nodes /\ kept \subseteq Nodes /\ dead \subseteq Nodes
    /\ gate \in 1..(Len(Chain) + 1)
    /\ adapters \in {"none", "prober", "cycle"}
    /\ errors \in 0..1 /\ observed \in 0..1
    /\ served \in AnyList \cup {NoList} /\ disk \in AnyList \cup {NoList}
    /\ pending \subseteq Hosts /\ blocked \subseteq Hosts /\ rows \subseteq Hosts

Init ==
    /\ pc \in {"absent", "start"} /\ cancelled = FALSE
    /\ probe = {} /\ kept = {} /\ gate = 1 /\ pending = {} /\ degraded = FALSE
    /\ adapters = "none" /\ bound = FALSE
    /\ errors = 0 /\ observed = 0 /\ stored = FALSE
    /\ served = NoList /\ disk = NoList
    /\ dead = {} /\ blocked = {} /\ rows = {}

-----------------------------------------------------------------------------
(* The world around the worker.                                            *)

\* Stop, or the end of the base context.
Cancel ==
    /\ ~cancelled
    /\ cancelled' = TRUE
    /\ UNCHANGED <<pc, cycleVars, proberVars, reportVars, listVars, dead, storeVars>>

\* The two TTLs.
DeadExpires ==
    \E n \in dead :
        /\ dead' = dead \ {n}
        /\ UNCHANGED <<pc, cancelled, cycleVars, proberVars, reportVars, listVars,
                       storeVars>>

BlockExpires ==
    \E h \in blocked \cup rows :
        /\ blocked' = blocked \ {h} /\ rows' = rows \ {h}
        /\ UNCHANGED <<pc, cancelled, cycleVars, proberVars, reportVars, listVars, dead>>

\* The process is killed, or has exited, and is started again: the blocks come
\* back from the database, the list from the snapshot if the config it starts
\* with has subscriptions, the predicate Apply starts a worker under.
Restart ==
    /\ pc' \in {"absent", "start"} /\ cancelled' = FALSE
    /\ probe' = {} /\ kept' = {} /\ gate' = 1 /\ pending' = {} /\ degraded' = FALSE
    /\ adapters' = "none" /\ bound' = FALSE
    /\ errors' = 0 /\ observed' = 0 /\ stored' = FALSE
    /\ served' = IF pc' = "start" THEN disk ELSE NoList
    /\ dead' = {} /\ blocked' = rows
    /\ UNCHANGED <<disk, rows>>

\* A reload brings the first sources; the holder stays as it is.
WorkerStarts ==
    /\ pc = "absent"
    /\ pc' = "start"
    /\ UNCHANGED <<cancelled, cycleVars, proberVars, reportVars, listVars, dead, storeVars>>

Environment == Cancel \/ DeadExpires \/ BlockExpires \/ Restart \/ WorkerStarts

-----------------------------------------------------------------------------
(* The cycle: RunOnce, which Run calls at once and then again from its     *)
(* select.                                                                 *)

\* A return of RunOnce: what the cycle was working on is gone.
Return ==
    /\ pc' = "idle"
    /\ probe' = {} /\ kept' = {} /\ gate' = 1 /\ pending' = {} /\ degraded' = FALSE

\* The adapters are closed and the pins of the resolver taken back.
Close == adapters' = "none" /\ bound' = FALSE

ReportError ==
    /\ errors' = errors + 1
    /\ UNCHANGED observed

\* fetchSources and Merge.  Preprocess drops the blocked hosts' nodes before
\* they are merged; which of the others arrive is up to the sources.
FetchAndMerge ==
    /\ pc \in {"start", "idle"}
    /\ probe' \in SUBSET {n \in Nodes : HostOf[n] \notin blocked}
    /\ pc' = "merged"
    /\ errors' = 0 /\ observed' = 0 /\ stored' = FALSE
    /\ UNCHANGED <<cancelled, kept, gate, pending, degraded, proberVars, served, disk,
                   dead, storeVars>>

\* Nothing merged, or everything recently dead: the old list stays.
NothingToProbe ==
    /\ pc = "merged" /\ probe \subseteq dead
    /\ Return
    /\ ReportError
    /\ UNCHANGED <<cancelled, proberVars, listVars, dead, storeVars>>

\* filterDead, and ProbeBound up to its rounds: pins installed, the adapters
\* parsed and held by the prober.
BeginProbe ==
    /\ pc = "merged" /\ ~(probe \subseteq dead)
    /\ probe' = probe \ dead
    /\ bound' = TRUE /\ adapters' = "prober"
    /\ pc' = "probe"
    /\ UNCHANGED <<cancelled, kept, gate, pending, degraded, reportVars, listVars, dead,
                   storeVars>>

\* No parsable proxy, or the context ended: the prober closes what it holds.
ProbeFails ==
    /\ pc = "probe"
    /\ Return /\ Close
    /\ ReportError
    /\ UNCHANGED <<cancelled, listVars, dead, storeVars>>

\* The rounds are over and the context was still live.  The cycle takes the
\* adapters, which its deferred close pays for from now on.
ProbeSucceeds ==
    /\ pc = "probe" /\ ~cancelled
    /\ adapters' = "cycle"
    /\ pc' = "probed"
    /\ UNCHANGED <<cancelled, cycleVars, bound, reportVars, listVars, dead, storeVars>>

\* Mutant of ProbeCancelled: the close is deferred after this check.
ProbeCancelledLeaks ==
    /\ pc = "probed" /\ cancelled
    /\ Return
    /\ ReportError
    /\ UNCHANGED <<cancelled, proberVars, listVars, dead, storeVars>>

ProbeCancelled ==
    /\ pc = "probed" /\ cancelled
    /\ Return /\ Close
    /\ ReportError
    /\ UNCHANGED <<cancelled, listVars, dead, storeVars>>

\* What the probe made of a node: passed all gates of SelectSurvivors, failed
\* every round at its own address, or neither: slow, too many failed rounds,
\* a refused mapping, or no success at an address that is not the entry's.
ProbeResults == {"passed", "dead", "unproved"}

\* recordDead, unless the pre-check disbelieved its own verdict, and then
\* SelectSurvivors.
RecordAndSelect ==
    /\ pc = "probed" /\ ~cancelled
    /\ \E res \in [probe -> ProbeResults], tripped \in BOOLEAN :
        /\ dead' = dead \cup {n \in probe : ~tripped /\ res[n] = "dead"}
        /\ kept' = {n \in probe : res[n] = "passed"}
    /\ probe' = {} /\ pc' = "filter"
    /\ UNCHANGED <<cancelled, gate, pending, degraded, proberVars, reportVars, listVars,
                   storeVars>>

\* The chain is not run at all over an empty batch; once begun it is run to
\* its end, whatever a gate left.
InChain == /\ pc = "filter" /\ pending = {} /\ gate <= Len(Chain)
           /\ kept # {} \/ gate > 1

\* A strict gate goes on once the context is done, over answers it did not get.
RunGate ==
    /\ InChain
    /\ \E answers \in [kept -> Verdicts] :
        /\ kept' = Kept(Chain[gate], answers, cancelled)
        /\ pending' = IF cancelled THEN {}
                      ELSE {HostOf[n] : n \in ToBlock(Chain[gate], answers)}
        /\ degraded' = (degraded \/ (cancelled /\ kept' # kept))
    /\ gate' = gate + 1
    /\ UNCHANGED <<pc, cancelled, probe, proberVars, reportVars, listVars, dead,
                   storeVars>>

\* Store.Block: memory first, then the database, whose failure is a warning.
\* The context is asked again before each write.
BlockHost ==
    /\ pc = "filter"
    /\ \E h \in pending :
        /\ pending' = pending \ {h}
        /\ blocked' = IF cancelled THEN blocked ELSE blocked \cup {h}
        /\ rows' \in IF cancelled THEN {rows} ELSE {rows, rows \cup {h}}
    /\ UNCHANGED <<pc, cancelled, probe, kept, gate, degraded, proberVars, reportVars,
                   listVars, dead>>

ChainEnded == pc = "filter" /\ pending = {} /\ ~InChain

\* Mutant of FiltersEndEmpty: the cycle ends without a report.
FiltersEndSilently ==
    /\ ChainEnded /\ (cancelled \/ kept = {})
    /\ Return /\ Close
    /\ UNCHANGED <<cancelled, reportVars, listVars, dead, storeVars>>

\* The cycle was cancelled meanwhile, or no survivor is left.
FiltersEndEmpty ==
    /\ ChainEnded /\ (cancelled \/ kept = {})
    /\ Return /\ Close
    /\ ReportError
    /\ UNCHANGED <<cancelled, listVars, dead, storeVars>>

BeginRender ==
    /\ ChainEnded /\ ~cancelled /\ kept # {}
    /\ pc' = "render"
    /\ UNCHANGED <<cancelled, cycleVars, proberVars, reportVars, listVars, dead, storeVars>>

\* BuildPayload: once the context is done the annotate chain resolves nothing.
EndRender ==
    /\ pc = "render"
    /\ degraded' \in {degraded, cancelled}
    /\ pc' = "publish"
    /\ UNCHANGED <<cancelled, probe, kept, gate, pending, proberVars, reportVars, listVars,
                   dead, storeVars>>

PublishCancelled ==
    /\ pc = "publish" /\ cancelled
    /\ Return /\ Close
    /\ ReportError
    /\ UNCHANGED <<cancelled, listVars, dead, storeVars>>

\* Mutant of Publish: the context was checked before the rendering only.
PublishUnchecked ==
    /\ pc = "publish"
    /\ served' = [nodes |-> kept, degraded |-> degraded]
    /\ stored' = TRUE
    /\ pc' = "save"
    /\ UNCHANGED <<cancelled, cycleVars, proberVars, reportVars, disk, dead, storeVars>>

\* The gate, and then the swap of the list.
Publish ==
    /\ pc = "publish" /\ ~cancelled
    /\ served' = [nodes |-> kept, degraded |-> degraded]
    /\ stored' = TRUE
    /\ pc' = "save"
    /\ UNCHANGED <<cancelled, cycleVars, proberVars, reportVars, disk, dead, storeVars>>

\* SaveSnapshot; a failure costs a warning.
SaveSnapshot ==
    /\ pc = "save"
    /\ disk' \in {disk, served}
    /\ pc' = "report"
    /\ UNCHANGED <<cancelled, cycleVars, proberVars, reportVars, stored, served, dead,
                   storeVars>>

\* Reporter.Observe, and the deferred close.
Observe ==
    /\ pc = "report"
    /\ observed' = observed + 1
    /\ Return /\ Close
    /\ UNCHANGED <<cancelled, errors, listVars, dead, storeVars>>

\* Run leaves its select; whether it runs one more cycle first is not fixed.
WorkerReturns ==
    /\ pc = "idle" /\ cancelled
    /\ pc' = "done"
    /\ UNCHANGED <<cancelled, cycleVars, proberVars, reportVars, listVars, dead, storeVars>>

Cycle ==
    \/ FetchAndMerge \/ NothingToProbe
    \/ BeginProbe \/ ProbeFails \/ ProbeSucceeds \/ ProbeCancelled
    \/ RecordAndSelect \/ RunGate \/ BlockHost \/ FiltersEndEmpty
    \/ BeginRender \/ EndRender \/ PublishCancelled \/ Publish
    \/ SaveSnapshot \/ Observe \/ WorkerReturns

Next == Environment \/ Cycle

Spec == Init /\ [][Next]_vars

-----------------------------------------------------------------------------
(***************************************************************************)
(* Every cycle is accounted for exactly once, on whichever of its exits it *)
(* leaves: as published when it swapped a list in, as an error otherwise.  *)
(***************************************************************************)
OneReportPerCycle ==
    pc \in {"idle", "done"} =>
        errors + observed = 1 /\ (observed = 1 <=> stored)

(***************************************************************************)
(* The parsed proxies and the process-wide resolver pins are released by   *)
(* the end of the cycle on every exit, and not before: as long as the      *)
(* gates may dial, both are what the probe judged the nodes through.       *)
(***************************************************************************)
AdaptersOwned ==
    /\ pc \in {"absent", "start", "idle", "merged", "done"} => adapters = "none" /\ ~bound
    /\ pc \in {"filter", "render", "publish"} => adapters = "cycle" /\ bound

(***************************************************************************)
(* A node on its way to the list is not one the dead cache would skip: not *)
(* for an older verdict, and not for the one of this cycle.                *)
(***************************************************************************)
SurvivorsNotDead ==
    pc \in {"filter", "render", "publish"} => kept \cap dead = {}

(***************************************************************************)
(* What breakerTrips's comment says of recordDead: the dead-cache write    *)
(* "refuses a verdict that condemns the whole pool".  The write heeds the  *)
(* pre-check's verdict only, so a pool whose every URL test failed after a *)
(* healthy pre-check violates it.                                          *)
(***************************************************************************)
WholePoolDisbelieved == [][RecordAndSelect => ~(probe \subseteq dead')]_vars

(***************************************************************************)
(* A host is put into the month-long store only on a verdict that told the *)
(* nodes of its batch apart: the same gate left some survivors and dropped *)
(* some, so an outage of the checked service evicts nobody.                *)
(***************************************************************************)
BlockHasWitness ==
    [][RunGate /\ pending' # {} => kept' # {} /\ kept' # kept]_vars

\* The promise to the readers; whatever is saved is taken as settled.
Promise == INSTANCE PublishedList WITH
    Lists <- GoodLists,
    fed   <- pc # "absent",
    list  <- served,
    saved <- disk,
    safe  <- disk

(***************************************************************************)
(* RunOnce, in any mix of failed, cancelled and killed cycles, keeps the   *)
(* promise of PublishedList: the list is replaced by non-empty lists only, *)
(* never by an error nor by one that a cancellation cut short, be it in a  *)
(* gate or in the rendering, and is there only with a worker behind it.    *)
(***************************************************************************)
KeepsPromise == Promise!Spec
=============================================================================
