# A TLA+ model of sub-preprocessor

sub-preprocessor fetches proxy subscriptions, keeps the nodes worth routing
through and serves them as one list at `/stable.txt`. This directory holds TLA+
modules translated from its Go source, TLC configurations that check them on
small instances, and TLAPS proofs of the main safety properties for every value
of the constants. Paths below are relative to `src/internal/`.

## The system

Two processes run from one binary.

**The service** (`app/app.go`) has these goroutines and shared state:

| part | state it keeps | operations |
|---|---|---|
| config watcher (`reload/watcher.go`) | fsnotify watch, debounce timer | debounce, recheck, call `Reload` |
| reloader (`reload/reloader.go`) | `currentCfg`, `currentProcCfg`, the processor holder | `Reload` |
| controller (`stable/controller.go`) | the running checker and its cancel | `Apply`, `UseProcessor`, `Stop` |
| stable worker (`stable/checker.go`) | the published spec, the poke channel | `Run`, `RunOnce`, `Reconfigure` |
| prober (`stable/prober.go`) | parsed adapters, process-wide resolver pins | `ProbeBound`, `TakeProbedAdapters`, `ReleaseBindings` |
| through-node gates (`stable/nodefilter.go`) | none | `apply`, per gate |
| dead-node cache (`stable/deadset.go`) | endpoint to expiry, in memory | `Blocked`, `Block`, `Prune` |
| geoblock store (`geoblock/store.go`) | host to expiry, in memory and in SQLite | `Blocked`, `Block`, `Prune`, `Close` |
| list holder and snapshot (`stable/stable.go`, `snapshot.go`) | the served list, the file it survives in | `Store`, `Load`, `SaveSnapshot`, `LoadSnapshot` |
| preprocess pipeline (`preprocess/processor.go`) | geo databases and CIDR list with their refresh state | `FilterNodes`, refresh |
| resolvers (`resolver/`, `asn/`) | answer caches, lookups in flight | `Resolve` |
| HTTP server (`server/server.go`) | none | serve the holder |

A file event reaches `Reload`, which loads the config, builds a processor, and
hands policy and processor to the worker through the controller. The worker
reads its spec once per cycle, fetches the sources through the processor, skips
what the dead cache knows, probes the rest, runs the survivors through the
gates, and swaps the rendered list into the holder. On shutdown `app.Run` joins
the watcher, then the worker, then closes the store, each join under a timeout.

The fetching half of a cycle is `Checker.fetchSources`: every source runs through
`Processor.FilterNodes` (fetch, parse, resolve, judge by the geo databases), a few
at a time, and `stable.Merge` makes one pool of the results. The databases
themselves are loaded when a processor is built, refreshed behind the requests
that find them stale, and carried from one processor to the next by a reload.

**The crawler** (`crawl/`, `ghfind/`) is a sidecar process of its own:

| part | state it keeps | operations |
|---|---|---|
| cycle (`crawl/crawl.go`) | `Crawler.running`, one cycle at a time | `RunOnce`: recheck, discovery, withdrawal, merge, write |
| overlay (`config/private.yaml`) | a list of sources, hand-made or managed | read by the service, rewritten by the crawler, edited by the operator |
| state file (`crawl/state.go`, `outcomes.go`) | streaks, dead stamps, bulk-prune proposal, probation, productive topics, ladders, search cursor, repositories | load, prune, save (twice in a cycle, or to withdraw a proposal) |
| channel scan (`crawl/discover.go`, `ladder.go`, `channels.go`) | queue, visited set, topics seen | seeds, reposts, forum topics, the ladder of topic numbers |
| GitHub pass (`crawl/github.go`, `ghfind/`) | census file, search budgets | search, admit, list trees, probe files, select by novelty |

It finds subscription links in Telegram channels and GitHub repositories, checks
that they still answer, mints names for new ones and rewrites the overlay, which
the service hot-reloads; and it reads from the service's metrics how the probes
of each source ended, which puts its finds from GitHub on probation. So the two
processes make one loop through two files and a metrics page, and none of the
three is locked.

What is hard here, line by line, is the `hazards` list of `PROJECT.json`. In
short: one reload publishes two halves that must stay together through
failures; a cycle has a dozen exits and may be cancelled at each; verdicts
about nodes must not be verdicts about our own uplink; a restart may come
between any two steps of a save; the shutdown joins may give up; and the crawler
deletes on what it remembers, while it may forget, be killed, or be overtaken by
the operator and by the service it feeds.

## Modules

| module | models | checked by | proofs |
|---|---|---|---|
| `ServiceReload` | hot reload, worker loop and shutdown as three goroutines | `MCServiceReload` with two configurations | `ServiceReloadProofs` |
| `PublishedList` | what a reader of the list is promised (abstract) | through the two modules below | |
| `SnapshotFile` | save, restart and power loss of the snapshot | `MCSnapshotFile.cfg` | `SnapshotFileProofs` |
| `NodeFilters` | one gate over one batch, and the breaker (operators) | through `StableCycle` | lemmas in `StableCycleProofs` |
| `StableCycle` | `RunOnce` with all its exits and what outlives it | `MCStableCycle` with two configurations | `StableCycleProofs` |
| `AsnFlights` | the shared lookups of `asn.Resolver`, both layers | `MCAsnFlights.cfg` | first part of `AddressDataProofs` |
| `ProbePass` | one pass of the prober, and what the cycle concludes from it | `MCProbePass.cfg` | `ProbePassProofs` |
| `SourcePass` | the fetching half of a cycle, and the merge | `MCSourcePass.cfg` | `SourcePassProofs` |
| `GeoRefresh` | a downloaded table over refreshes and reloads | `MCGeoRefresh.cfg` | second part of `AddressDataProofs` |
| `CrawlCycle` | the crawler's cycles over the overlay and the state file | `MCCrawlCycle.cfg`, `MCCrawlProbation.cfg` | `CrawlCycleProofs` |
| `CrawlWorld` | what the two searches share: cycle, faults, live URLs | through `CrawlDiscovery` | |
| `ChannelScan` | the scan of channels, forum groups and topics | through `CrawlDiscovery` | |
| `GithubPass` | search, admission, probing and selection of repositories | through `CrawlDiscovery` | |
| `CrawlDiscovery` | both searches over cycles, saves and kills | `MCCrawlDiscovery.cfg` | `CrawlDiscoveryProofs` |

The modules meet where the code does. `ServiceReload` sees a cycle from outside;
`StableCycle` is that cycle, with the outcome of fetch and probe as choices;
`SourcePass` and `ProbePass` are where those choices come from, and `AsnFlights`
and `GeoRefresh` are where `SourcePass` gets its answers about an address.
`CrawlCycle` leaves open what the searches find, and `CrawlDiscovery` what the
merge accepts. Composition in one module is used where the parts share state:
`NodeFilters` in `StableCycle` and `ProbePass`, the snapshot and the holder with
`PublishedList`, scan and pass in `CrawlDiscovery`. `map` in `PROJECT.json` names
the source lines behind every definition.

### ServiceReload

The state is the fields of `Reloader`, `Controller` and `Checker` plus one
program counter per goroutine (`rpc`, `wpc`, `mpc`, and `spc` for the goroutine
`stopController` starts). A config is a pair: what the worker policy is derived
from, and what only the processor is built from. `Reload` is cut at the points
where another goroutine can see the difference: load (`LoadRejected`,
`LoadChanged`), build and holder store (`BuildFails`, `BuildProcessor`), the
decision (`PublishProcessor`, `ApplyRefused`, `ApplyFails`,
`ApplyReconfigures`, `ApplyStarts`), and the poke, which `Reconfigure` sends
after the spec is stored. A failed build is possible only when the new config
needs something downloaded, because the reloader carries loaded state over.
A cycle is seen from outside: `BeginCycle` loads the spec, `EndCycle` leaves what
the cycle published to `StableCycle`, and the interval is re-read after each. The worker's ticker is
`ticking` (its interval), `left` (the time until it fires) and `fired` (the tick
that waits in its channel): `ClockTicks` counts down and drops a tick when one
waits, `BeginCycle` takes it, and `RereadInterval` re-arms the ticker, which
discards a waiting tick, for a new interval only.

Properties: `CycleReadsOneGeneration`, `SkipMeansInForce`, `IntervalNotMissed`,
`StoreClosedLast`, `NeverTwoWorkers`, and, under fairness, `EditTakesEffect` and
`PublishedSpecCycles`. Their comments state them in words. `RefusedNeverRuns`, that
a refused config never reaches a cycle, is proved only.

Bounds. `service_reload` checks safety and liveness together over two kinds of
behaviour, which `MCServiceReload` tells apart; 210,000 states. A service that
stays up may be edited for ever, so that pokes never cease, among two policies of
one interval, one of which needs a key file, and one without sources, with one
outage; one is enough because key and downloads fail at different program points.
The interval of these is 1, as it takes no more than one tick to be put off: the
mutant that re-arms the ticker at each wakeup is found. A service that may stop is
edited twice, a change and its revert, with a policy of another interval and
without an outage, which the deferred joins do not look at. Deadlock is checked.
The run of the disagreement takes the first kind only.

Fairness. `WF(Watcher)` and `WF(Worker)`: every step of `Reload` and `RunOnce` is
bounded by a timeout. `WF(ClockTicks)`: time passes. `SF(BeginCycle)`: a Go
`select` with several ready cases chooses at random, so a worker that finds a tick
waiting again and again, beside a poke or not, takes it at some time. That is all a
waiting tick needs; strong fairness helps nobody whose tick is discarded before it
is seen. `PublishedSpecCycles` therefore excepts a change of the interval: edits that
change it each time, faster than it passes, do put the next cycle off for ever. No fairness is assumed of the environment or of the main goroutine.

Proof. `IInv` in `ServiceReloadProofs` strengthens the five invariants by what
each goroutine relies on between two of its steps: `SpecBuilt` (a spec exists
as soon as a checker does, and is one a reload produced), `ReloadInProgress`
(what `newCfg` and `holder` are while a reload is under way),
`RecordsMatchSpec` (what `currentCfg` and `currentProcCfg` say about the spec),
`JoinsInOrder` (what main has already joined, at each of its program points),
and `LiveIsKnown` (a live worker is one `Stop` waits for). The last is the heart
of `NeverTwoWorkers`: `Apply` starts a worker only without a checker, and `Stop`
forgets the checker only after that worker has returned.

### PublishedList and SnapshotFile

`PublishedList` says: a list is served whole or not at all, is replaced only by
another, only served lists are persisted, a restarted process serves what was
saved, and a restarted host may fall back to the save before. That holds of a
process behind whose list a worker stands (`fed`): one that is started without
subscriptions serves nothing, whatever an earlier one saved, until a reload has
brought sources (`Feed`) and their worker has published. Every restart may meet
another config, so it chooses which of the two it is. `SnapshotFile`
opens, writes, syncs and renames step by step, lets every call fail, kills the
process anywhere, and on a power loss tears whatever was not synced and forgets
directory entries that were not written back (the code does not sync the
directory). It implements `PublishedList`, with `LoadSnapshot` of the file as the
refinement mapping. `restoreStableList` asks the config first, as in `app.go`
(`RestoreAlways` is its mutant), and a process without a worker is at the program
point "absent". Init starts from any whole file or none. A snapshot path is taken
to be configured; with an empty one both `SaveSnapshot` and `LoadSnapshot` do
nothing.

The run has three lists, enough for the served, the saved and the settled list
to differ. There is no counter to bound. The inductive invariant of the proof
says what the temporary file holds at each program point, and that every file
under the final name is whole and synced.

### NodeFilters and StableCycle

`StableCycle` has one action per exit of `RunOnce` and one per stage that
changes shared state. It keeps the dead cache, the store in memory and in its
database, the adapters and pins, the list and its snapshot, and counts the
reports of the latest cycle. Cancellation may come at any point, so may a kill.
What a probe or a gate finds out about a node is a choice among the verdicts
the code tells apart; what follows from the verdicts is `NodeFilters`. A restart
reads the snapshot only with subscriptions, as in `SnapshotFile`.

`degraded` says that the end of the context has cost the coming list something: a
tag that `BuildPayload` could not resolve, or a survivor that a strict gate dropped.
For `requireVerified` (the deepl gate) `apiFilter.apply` skips its early return, so
a check that was cut off drops whom it did not ask. `KeepsPromise` says that no
such list is ever served.

The run has three nodes on two hosts, a lax gate that persists followed by a
strict one, and the breaker scaled to a minimum of 3 and 60%, so that both arms
matter in batches of three: two refusals of three trip it, one does not.
Deadlock is checked: a cycle always has a next step. That a survivor is never in
the dead cache (`SurvivorsNotDead`) is proved only.

Abstractions. Only a prober with all capabilities is modelled; a gate that is
not configured or not supported is absent from `Chain`. The trace stage only
annotates and is left out. A check of the context and the write that follows it
are one step where a cancellation between the two is indistinguishable from one
after them. An empty snapshot path and an absent store are configurations in
which the corresponding steps do nothing. Source failures are part of the choice
of what is merged. `SaveSnapshot` is one step here.

Proof. `StableCycleProofs` proves the invariants from `IInv` = types,
`Ownership`, `Accounting`, `NotDead` and `Publishable`, and the two action
properties from it. `BlockHasWitness` needs arithmetic about the breaker over
finite sets: a batch that is refused as a whole always trips it
(`TotalRefusalTrips`), hence a block implies a node that was not refused, for
every threshold and batch.

### AsnFlights

`asn.Resolver` answers many concurrent calls with few queries: a call that
misses the cache joins the flight of its IP or registers one, and the flight of
an IP does the same once more, by AS number, to get the name of the AS. Both
layers are the same protocol written twice (`resolveCold`, `waitIPFlight`,
`dropIPWaiter`, `finishIPFlight`, and their name counterparts), so the model has
one set of actions for both. A party is a call, or the goroutine of an IP flight
in the role of a caller of `lookupName`; a flight is named by the party that
registered it, and `KeyOf` says which table entry and cache entry it is about.
The two differ in whose context a party waits under (`ContextOf`), in how a
query ends (`QueryEndsFlight`, `OriginKnown`, `NameReturned`) and in the name
layer's `DeadlineExceeded`, which is the IP flight's own deadline and counts as
a failure.

Each critical section of `flightMu` is one action, and the cache probe, the
registration and the re-check are apart, since other parties act in between.
Three things are merged: the probe with the test of the context that follows it
when it misses, `cancel()` with the section before it, and `close(done)` with
the result, which `Wake` reads only then. `Leave` and `Wake` are both enabled
when a flight has finished under a context that has ended, as a `select` may take
either. When an entry expires or is evicted is left open (`EntryGoes`), so the
amounts of the TTLs and their caps do not matter; an answer is `ok` or `fail`.

Bounds. Three calls, two of them for one IP, and two IPs of one AS: two waiters
share an IP flight, and two IP flights share the flight of a name. `MaxMishaps`
counts contexts that end and entries that go; one lets a caller leave the other
behind, or a deadline pass, or the entry go that a call waited for. Safety and
liveness are one run, hence without symmetry. `Finished` lets the run stutter when
all calls are answered, so deadlock is checked.

Fairness. Every flight and every party takes its steps: goroutines are scheduled,
and a query returns, because it runs under a context with a deadline. No caller
has to give up for `EveryCallReturns` to hold.

Proof. `IInv` is the types and five parts: `Owner` (the table names exactly the
flights that run and are not abandoned), `Places` (program points of a party
against those of its flight), `Counted` (the counter is the number of waiters
while the flight runs, and a wanted flight has one), `Told` (a running flight is
cancelled only when abandoned, and nobody waits for an abandoned one), `Handed`
(nobody waits for a result that says Canceled). The last two carry
`OwnCancellationOnly` through both layers: a query can end with Canceled only
under a cancelled context, hence on an abandoned flight, hence with nobody there
to receive it. Counting needs cardinalities of sets of waiters, so the calls are
assumed to be finitely many.

### ProbePass

`StableCycle` takes the outcome of a probe as a choice; `ProbePass` is where it
comes from. `BindEntry` is one step of `newBinding`, which reads the entries in
any order here and builds two tables, by server:port for the pre-check and by
host for mihomo's resolver. `Dial` is one attempt of `reachableTCP`; `Condemn`
and `BreakPrecheck` are the two ends of `filterReachable`, with `BreakerTrips`
of `NodeFilters`. Each round spawns its tests in payload order, all rounds share
the slots (`Spawn`), and a test ends by `TestPasses` or `TestFails`.
`RecordAndSelect` is `foldProbeResults`, `recordDead` and `SelectSurvivors`,
which nothing interrupts. The context may end at any step.

A test that is not pinned reaches one of the addresses that occur (`Reaches`).
`missed` is not in the code: it counts the failed tests that did reach the
entry's own address while the cycle was not cancelled, and `DeadWasTried`
compares what was cached as dead with it.

Bounds. Three entries name one host at two addresses, so that a third meets the
disagreement of the first two; of these, one shares its server:port with a
disagreeing one, so that the pre-check dials its name, and one does not, so that
the pre-check is bound although the URL test is not. The fourth has a pinned
host, UDP and two ports. Two dialled endpoints give a partial and a total
refusal (the percentage arm of the breaker is the subject of `StableCycle`).
With two rounds and no failure allowed, the rounds of two ports could be
mistaken for the rounds of one; the delays lie on either side of the limit. Two
slots let tests of both rounds overlap. The graph has no cycle but the stutter
at the end, so the deadlock check shows that every pass ends.

Abstractions. Hosts are taken modulo case and trailing dot. A delay is one of
two values. The stage of a failure only decides what is reported and is left
out. A test passes only before the context ends, as its own context derives
from the cycle's and the order in which results are accounted is not observed.
The prober is the one with the refusal account, so a label without a result is
never cached as dead.

Proof. `Binding` says of each table what the entries read so far agree on, and
gives `PinsUnanimous` when all are read. `Counts` says that the failed, passed
and pending tests of a pinned position add up to the rounds while the cycle is
not cancelled, and that no position has more successes than rounds. `Judged`
ties the condemned positions to the verdicts, so that the positions of an entry
are all condemned or none, and holds because a pre-check that refused all it
judged trips the breaker at any size (`TotalRefusalImplausible`). The fold is a
`CHOOSE` of a result that no other beats; that there is one (`BestExists`) takes
two minima, of lost rounds and then of delays.

### SourcePass

`StableCycle` takes what is merged as a choice; `SourcePass` is where that comes
from. A source is its place in the config, and its request runs from `Spawn`,
which takes one of the slots, through `Load`, one `Judge` per node (with `Lookup...`
when the server needs DNS) to `Deliver` or `Refuse`. The requests share the cache
of `resolver.Resolver`, which outlives the cycle, and the databases, which are
refreshed behind them: a request keeps the version of the country databases it
started with, and reads the allow-list in force at each node. Deadlines pass
(`Expire`), the worker is stopped (`Cancel`), entries go (`EntryGoes`), the next
version is installed (`Refresh`), all at any point. `Merge` is `stable.Merge` over
what was delivered; `NextCycle` starts again with the cache as it is.

Properties: `DeliveredWhole` (a list cut short never counts as delivered),
`NoForeignDrop` (the end of one request never passes, through the cache, for an
answer about a name), `OneVerdictPerAddress` (one version of the databases per
request) and `FirstWins` (the merged pool against a reference that does not know
the order in which requests finish).

Bounds. Three sources, one of them inline, on two slots: two run at a time and one
waits. Eight nodes on five servers: a name that always resolves and one that may
not, an address, IPv6, a blocked host; two spellings of one server:port, a
stand-in and a node that cannot be relabelled, both ahead of a usable node with
their server:port. Two versions of the databases and two of the allow-list. 2.5
million states. Without fairness: the deadlock check is what shows that a slot is
not kept.

Abstractions. The start of a goroutine and the moment its request takes the
databases are one step. The geoblock store does not change during a fetch: only
gates write it, and they run after it. The sharing of one DNS query by concurrent
callers is inside the library. A body may differ from cycle to cycle only in the
fetched sources. Which addresses Cymru does not answer for is a choice (`deaf`;
`AsnFlights` is where answers come from), and an answer with a country but no name
is not told apart from none. `Stats` is the `why` of the judged nodes.

Proof. `IInv` is the types, `Shared` (the cache remembers a failure only for names
that DNS may fail on) and, for every source, `Places`, `InOrder`, `Honest` and
`Consistent`. `Honest` is the delicate one: a request that has ended may hold wrong
failures in its own memory, which is harmless because it is not delivered and its
memory goes with it. The verdict on a node is a least filter that leaves nothing;
that there is a least one takes the well-ordering of the naturals.

`FirstWins` needs no invariant beyond the types: `Merge` is one step, and the
theorem is about the two recursions in it. `Pool` reads the judged nodes source by
source, and is shown to list every place of every body once, in the order of the
config (`PoolLists`). `Merged` walks that list with a record of the keys it has
seen, and `Built` says of each prefix what that record and the entries so far are:
exactly the usable places without an earlier usable one of their server:port. The
reference `Winners` says the same of the whole, by quantifiers.

### GeoRefresh

One table, of any of the four kinds: the geofeed, the two country databases, the
allow-list. A processor loads it when it is built. A request that finds it stale
(`Look`) starts one download behind it (`TryReload`, `FinishReload`); reading that
it is stale and taking the lock are apart, so two requests may both see it. A hot
reload (`BeginBuild`, `Publish`, `Abandon`) builds the next processor with what it
may carry over, and compares for that with `currentCfg`, which a failed `Apply`
leaves behind. The kinds differ in what a failed first load means, what an
interval of 0 means, and which edits make them download again. `Weather` puts the
sources in and out of trouble; what they answer then is whatever
`fetch.BytesWithType` and the parsers can make of it, a short 200 included.
Clocks are distances: the age of a table, and what is left until its retry.

Properties: `NoSilentVoid` (an empty table always has a retry that will fire, and
an allow-list is never empty), `OwnSources` (a table comes from the sources its
own processor is configured with), and `EventuallyWhole` under fairness: once the
sources stay well and the configuration stays put, the table becomes whole.

Bounds. Two lists of two mirrors (a load in part needs two), an interval of 2
with a retry of 1 and two doublings, so that a backoff reaches the clamp; one
request at a time between its look and the lock.

Fairness. Requests keep coming (the worker's cycles), a download ends (the client
has a deadline), a build ends, time passes. Nothing is assumed of the sources:
`EventuallyWhole` has their recovery as its premise.

Not claimed: that a table never shrinks across a publish. A refresh that completes
while a build is under way is lost with the old processor, and a partial geofeed
that was frozen and is carried into a config that refreshes waits a full interval.
A worker that keeps its old processor after a refused `Apply` is not followed.

Proof. `GeoInv` is the types, `Sound` of the table in force (its sources, and a retry
that will fire if it is empty) and `SoundCarry` of the one being carried, which is
weaker: a carried table may meet a configuration that never refreshes, and is
judged when the build ends.

### CrawlCycle

`Crawler.RunOnce`, cycle after cycle, over the overlay and the state file. Cycles
exclude each other, so there is one program counter; the difficulty is in what is
remembered. A cycle works on `mem`, which is the state file as read (`Load`), or
nothing when it could not be read (`amnesia`, after which nothing is saved over
it), and the saves in between (`Persist`) may fail. `Recheck` folds the verdicts
into streaks and dead stamps, `Withhold` folds the service's outcomes into
probation and condemns what ran out of its window, the `Merge...` actions are the
ways past the prune floor (`MergeSame`, `MergeSmall`, `MergeConfirmed`,
`MergeRefused`), `Write` rewrites the overlay. `Abandon` is a kill, the end of the
budget or the guard, at any point. Around it the operator adds, takes over,
removes, empties and curates, and the service publishes lists.

`Loadable` are the URLs that pass `fetch.ValidatePublicHTTPSURL`. `config.Load`
refuses an overlay with any other, so the crawler asks three times: of a candidate
(`Offers`, `Scan`), of what it retains (`Kept` and `Deleted`, which is `mintRetained`)
and before it writes (`Valid`). Managed entries get there by the crawler alone and
pass the first, so the second is reached by a slip of the operator, `HandSlip`, who
overwrites the URL of a managed entry. Such an entry is dropped although it may
answer, so `DeletedOnEvidence` is about URLs that load, and `MintSound` says that a
bad URL blocks the write as a hand-made entry only. The service publishes nothing new
from a file it refuses; what it serves of the one before is not followed.

What really happened is kept in history variables that the code does not have:
`observed` (not-live verdicts since the last live one that was saved), `refusals`
(bulk prunes that were refused) and `barrenLists` (lists without a survivor under
a name). The properties compare what the crawler does with them:
`DeletedOnEvidence`, `BulkConfirmed` and `BarrenWitnessed` say that no crash, lost
save or double reading shortens a wait; `MintSound` that the new overlay is one the
service accepts and leaves the entries of others alone, whatever was edited
meanwhile; `NeverRebuilt` that an emptied overlay is not filled from one cycle's
discoveries.

Bounds. A channel source and a GitHub source whose names share a stem, so that
ordinals collide, also with the operator's names, and a URL that does not load; the
windows and delays are the smallest that need two cycles. Ticks, lists, edits (twice) and failures share a
budget of 3 (`Eventful`), because a cycle with all of them at once is a product of
independent things; for the same reason a slip of the operator is studied in cycles
without lists and failures (`Slipped`). `MCNext` lets others move only at the program points whose
next step reads what they change; elsewhere their steps commute with the cycle's.
3 million states. The configuration of the disagreement has a budget of 4 and
neither edits nor failures. `CHECK_DEADLOCK FALSE`: the counters of the model are
used up.

Left out: the inline aggregate, `x-hwid`, the adoption of names from before the
managed field, names that are a bare hash, caps on the sizes of the memories,
unreadable curated files. An edit that falls between the re-read and the write is
overwritten; this is how the code is, and no comment promises otherwise.

Proof. `EvidenceInv`, `BulkInv`, `BarrenInv` and `EmptiedInv` prove one property
each. They have the same form: whatever either memory holds, on disk or in the
cycle, is covered by the history (`Witnessed`, `Backed`, `Covered`). Lemma
`MemorySteps` says once, for all actions, where the memories after a step come
from, so that each invariant needs only its own two or three actions. The streak
is the hardest: a live answer ends the observed streak only once it is saved,
because until then the older, longer one is what a restart finds.

`MintSound` is about one step, `Write`, and about arithmetic. The names the merge
gives are stems with ordinals: for a stem, the ordinals that no name in use holds,
in rising order, go to the new URLs of that stem in rising order of rank. The proof
counts: names in use and curated names are at most as many as the URLs that are not
new (`Room`), so that for `Ordinals` infinite, as in the code, or twice as many as
the URLs, as in the run (`NamingAssumption`), enough are free; then the free ordinal
with `i` free ones up to it exists for each place `i` that is needed (`NthExists`),
and ordinals of different places differ (`Places`, `Minted`).

### CrawlWorld, ChannelScan, GithubPass, CrawlDiscovery

What the merge of `CrawlCycle` is offered. `ChannelScan` is the walk of the repost
graph by one goroutine: seeds in any order (they come from a Go map), listings in
pages, forum groups read topic by topic, reposts admitted up to a depth and a
number, and the ladder, which sweeps the low topic numbers of a group found
without one, once. `GithubPass` is the GitHub phase: the census of endpoints, the
two grids of queries from a cursor that turns, admission, trees, probes (the only
concurrent part) and the greedy selection by novelty, under a context that may end
at any step and requests that are retried. `CrawlDiscovery` composes them as
`RunOnce` does, on one state with its two saves, with kills, over several cycles;
`CrawlWorld` holds what both use.

Properties: `TopicAskedRight` (a topic is fetched once a cycle, by whichever of
five ways it is reached, and a channel's post is never taken for a topic),
`SweptKept` (what a sweep found is remembered as long as it is remembered that
the group was swept), `NovelIsReal` (novelty credited is novelty there is),
`SourceCap`, `GridInTurn`.

Bounds. Three cycles and two faults; two channels, two groups, and three
repositories of which one is a copy in part and one a fork that was left behind.
The pictures of the world are constant, so what varies is order, failures and
cycles. 1.4 million states.

Left out: inline nodes, post ids, the reject log, counters and alarms, URLs judged
dead (`CrawlCycle` remembers those), the pacing of the API (one caller that
sleeps), a census file that cannot be parsed, endpoints of stand-ins. The merge
takes all of what is live or none, and an entry keeps the feed it was minted with.

The order of a worklist is `Sorted` by a relation, and of what stands on several
pages or in several trees by `Reading`, so that an order can be reasoned about
without knowing how it is computed. `DiscoveryAssumption` says that a chat is not a
repository, as the feeds of the two differ by a prefix.

Two things seen on the way, which no run is about. A file already known that is a
copy of one in an earlier repository is folded into the union only when its own
repository's turn comes. And the ladder counts a group as swept also if every one
of its probes failed on the way; `SweptKept` excepts them (`missed`).

Proof. `IInv` of `CrawlDiscoveryProofs` is the types with what each step of the scan
and of the pass may rely on (`ScanPoints`, `PassPoints`). Its difficulty is in the
data: `Sorted` yields a sequence of the members (`SortedSeq`), because each has a
number of predecessors of its own; the rungs of the ladder, the greedy choice of
the cover and the walks through candidates are minima that exist. The recursive
functions of the selection are unrolled by a lemma on recursion up to a given
number. The library states it with an operator parameter; here it is proved for
sets of functions by well-founded minima instead.

Each property takes a strengthening of its own:

- `NovelIsReal`, `PicksBacked`: from the selection on, the novel endpoints of the
  picks add up to at most what their files have beyond the baseline *and* to what
  was added to the union. `Pick` folds and credits in one step, and the known files
  were folded before, without credit.
- `SourceCap`, `CapKept`: the overlay and the finds together are within the cap. The
  room is counted on `managed`, a reading of the overlay, and used when the pass has
  ended; the invariant is that nobody else writes in between and that `live` owns
  nothing from GitHub before the pass offers it. That `Admitted` fits in the room is a
  statement about ranks: of the files that have fewer than `Room` richer ones there
  are at most `Room`.
- `GridInTurn`, `GridWalked`: counts how often each query was sent as full rounds, the
  part of the current round before the cursor, and a slack of one for every pass
  whose cursor was lost. The cursor on disk and the one in the cycle agree except
  after the pass, and then they differ by the calls of that pass.
- `TopicAskedRight`, `Asking`: the five ways to a topic are remembered seed, repost,
  carved child, the node's own topic and the ladder. A topic asked is in `topicsSeen`,
  or its group is `Closed`: all seeds are gone, no carved child of it waits, and the
  one node of it under way is the one that climbs. The seeds must go first, because
  a group reached by a seed is entered again by another.
- `SweptKept`, `SweepsHeld`: what is on disk is not enough, as a save prunes by age and
  then by number. The invariant says that a hit is at least as recent as the sweep,
  *or* as many others are as the memory may hold; recency is what makes a ladder
  expire no later than its hits, and the second half what remains of a hit that the
  cap cut off.

## Three disagreements between comments and code

1. `service_reload_mixed`: `RunOnce`'s comment promises that deny-set, filter
   chain and lookup providers always agree. After a failed `Apply` they do not:
   the rebuilt processor is handed over without its policy. The comment at that
   place calls it the documented tradeoff, but the document it refers to does
   not mention it.
2. `stable_cycle_pool`: the comments in `prober.go` say that the dead-cache
   write shares the breaker and refuses to condemn a whole pool. `recordDead`
   asks only whether the pre-check tripped, as its own comment explains.
3. `crawl_probation`: `forgetProbation`'s comment says that a probation record
   must not survive its source. It survives one that leaves by its own verdict
   when it was the last GitHub source, since `githubWithdrawals` then returns
   before it prunes: found again, the source continues its old barren streak.

## Checked, proved, and neither

Checked on the instances and proved for all constants: every safety property of
the runs, invariant or action property, and both refinements of `PublishedList`.

Proved only: the type invariants (that of `CrawlDiscovery` is checked as well),
`RefusedNeverRuns` and `SurvivorsNotDead`.

Model-checked only: the liveness properties (`EditTakesEffect`,
`PublishedSpecCycles`, `EveryCallReturns`, `EventuallyWhole`), since TLAPS does
not reason about fairness or `ENABLED`. Absence of deadlock is checked by the runs
that say so, for the same reason.

Recursion over data is proved about where an invariant of the recursion says enough:
the pool and the merge (`FirstWins`), the picks and their sum (`NovelIsReal`), the
ordinals of names (`MintSound`). The induction theorems of the library cannot be
instantiated, so each such lemma takes the least counterexample of a set of numbers.

The proofs assume `ConstantsAssumption` (`ServiceReload`), `FilesAssumption` and
`NoFileAssumption` (`SnapshotFile`), `BreakerAssumption` (`NodeFilters`),
`CycleAssumption` (`StableCycle`), `FlightsAssumption` (`AsnFlights`),
`ProbeAssumption` (`ProbePass`), `PassAssumption` (`SourcePass`), `Parameters`
(`GeoRefresh`), `CrawlAssumption`, `NamingAssumption` and `NoneAssumption`
(`CrawlCycle`), `WorldAssumption`, `ScanAssumption`, `PassAssumption` and
`DiscoveryAssumption` (`CrawlDiscovery` and its parts), and nothing else: types and
finiteness of the constants, that ranks which stand for the order of strings are
injective, that a group has topics, and that the values standing for "none" are none
of the others. TLC evaluates them on every run.

## Not modelled

- **Config watcher** (`reload/watcher.go`): the debounce timer and the recheck of a
  directory whose watch the kernel dropped. What happens depends on the order in
  which fsnotify and a timer channel deliver, which the code does not determine.
  `ServiceReload` starts from one pending event per edit.
- **Expiry times** of the geoblock store, the dead set and the caches: an entry may
  go at any time (`EntryGoes`) or is there. So the store's two copies that differ
  after a failed database write, and the jitter, are not seen.
- **Bookkeeping of the reports**: rows per source, counters, the trace stage, which
  only annotates.
- **Text**: parsers of the subscription formats, the rewriting of links,
  classification of bodies. Stateless; nodes are told apart by what follows from
  them.
- **Third parties**: the HTTP exchanges through a node, redirect and address rules
  of the fetcher, mihomo's adapters. Their outcomes are choices.
- **Startup and HTTP**: flags, the parsing and validation of the config, the
  metrics listener, the draining of the server.

`PROJECT.json` says it per component.

## What comes next

The config watcher with its timer and watches as an environment of
`ServiceReload`; the geoblock store with expiry times, memory against database and
restarts; the rows per source of the report, which are what `CrawlCycle` reads as
`rows`.
