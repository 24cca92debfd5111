------------------------------ MODULE CrawlCycle ------------------------------
(***************************************************************************)
(* The crawler sidecar and the two files it owns: crawl.Crawler.RunOnce,   *)
(* cycle after cycle, over private.yaml (the overlay the service loads)    *)
(* and over its own state file.  A cycle may be killed or run out of its   *)
(* budget at any point, saves may fail, the operator edits the overlay and *)
(* the curated files meanwhile, and the service publishes lists whose      *)
(* per-source rows the crawler reads back.                                 *)
(*                                                                         *)
(* Cycles exclude each other (Crawler.running), so there is one program    *)
(* counter.  An overlay holds one entry per URL at most and no name twice: *)
(* the service refuses any other, so it is what an operator leaves behind. *)
(* The one slip of theirs that is modelled is a URL which the service does *)
(* not load; what it publishes before that is mended is left out.          *)
(* A name is the stem of the post or repository and an ordinal; the first  *)
(* ordinal is the bare stem.  Left out: the inline aggregate, the x-hwid,  *)
(* the adoption of names of before the managed field, bare-hash names, and *)
(* the caps on the size of the memories.  How the channels and the         *)
(* repositories are searched is the business of CrawlDiscovery.            *)
(***************************************************************************)
EXTENDS Integers, FiniteSets

CONSTANTS
    Urls,             \* subscription URLs anyone may name
    GhUrls,           \* those the GitHub phase offers; channels offer the rest
    Loadable,         \* those that pass fetch.ValidatePublicHTTPSURL
    StemOf,           \* the stem a URL's post or repository lends its name
    Rank,             \* the sorted order of the URLs
    HandName,         \* the name an operator gives the URL
    Ordinals,         \* how far the ordinals are walked
    MaxSources,       \* Options.GitHub.MaxSources
    Window,           \* Options.GitHub.Probation
    WithdrawFloor, WithdrawPercent,
    RetireCycles, RetireAfter,
    MinDrop, DropPercent, Overlap, ConfirmAfter, RecordTTL,
    DeadTTL,
    None,             \* absent
    MaxNow, MaxLists, MaxEdits, MaxFaults   \* bounds of the model

Names   == {StemOf[u] : u \in Urls} \X Ordinals
Entries == [name : Names, managed : BOOLEAN]
Times   == 0..MaxNow

ASSUME CrawlAssumption ==
    /\ IsFiniteSet(Urls) /\ GhUrls \subseteq Urls /\ Loadable \subseteq Urls
    /\ Rank \in [Urls -> Nat]
    /\ Ordinals \subseteq Nat
    /\ HandName \in [Urls -> Names]
    /\ {MaxNow, MaxLists, MaxEdits, MaxFaults} \subseteq Nat
    /\ {MaxSources, Window, RetireCycles, WithdrawFloor} \subseteq Nat \ {0}
    /\ {RetireAfter, ConfirmAfter, RecordTTL, DeadTTL, MinDrop, DropPercent, Overlap,
        WithdrawPercent} \subseteq Nat
    /\ None \notin Entries

Streaks   == [n : 0..RetireCycles, since : Times]
Proposals == [at : Times, urls : SUBSET Urls]
Folds     == [barren : 0..MaxLists, published : 1..MaxLists]

\* The URLs are sorted as strings, so no two are equal; the ordinals of a stem are
\* walked without end, so they never run out.
ASSUME NamingAssumption ==
    /\ \A u, v \in Urls : Rank[u] = Rank[v] => u = v
    /\ IsFiniteSet(Ordinals) => Cardinality(Ordinals) >= 2 * Cardinality(Urls)

ASSUME NoneAssumption == None \notin Streaks \cup Proposals \cup Folds \cup (0..(MaxNow + DeadTTL))

\* What the state file remembers.
Memories ==
    [streak    : [Urls -> Streaks \cup {None}],              \* state.Managed
     refused   : Proposals \cup {None},                       \* state.BulkPrune*
     dead      : [Urls -> 0..(MaxNow + DeadTTL) \cup {None}], \* state.Dead
     probation : [Names -> Folds \cup {None}]]                \* state.Probation

Blank == [streak    |-> [u \in Urls |-> None],
          refused   |-> None,
          dead      |-> [u \in Urls |-> None],
          probation |-> [n \in Names |-> None]]

Overlays == [Urls -> Entries \cup {None}]

VARIABLES
    pc,        \* program point of the crawler
    now,       \* the clock
    file,      \* private.yaml
    curated,   \* URLs in the curated files, under their HandName
    edits,     \* edits made so far
    lists,     \* lists the service has published: its success timestamp
    rows,      \* probe outcome of each name in the latest list
    disk,      \* the state file
    faults,    \* failed saves and reads so far
    mem,       \* the state this cycle works on
    amnesia,   \* mem stands in for a file that could not be read
    start,     \* recheckResult.managedURL
    live, unknown, stale,   \* what this cycle learned
    prune,     \* the cycle is not dark
    pf,        \* the overlay as re-read before the merge
    denied,    \* URLs withheld from the write
    reserved,  \* curated names the mint avoided
    next       \* the overlay to write

\* History, for the properties: not-live verdicts of each URL that loads, refusals
\* of bulk prunes, and lists without a survivor under each name.
VARIABLES observed, refusals, barrenLists

world   == <<file, curated, edits>>
service == <<lists, rows>>
cycle   == <<start, live, unknown, stale, prune, pf, denied, reserved, next>>
history == <<observed, refusals, barrenLists>>
vars == <<pc, now, world, service, disk, faults, mem, amnesia, cycle, history>>

Smaller(i, j) == IF i < j THEN i ELSE j
Larger(i, j)  == IF i > j THEN i ELSE j

Managed(f) == {u \in Urls : f[u] # None /\ f[u].managed}
Gh(f)      == Managed(f) \cap GhUrls
NamesIn(f, S) == {f[u].name : u \in {v \in S : f[v] # None}}

\* (The names in an overlay are MintSound's.)
TypeOK ==
    /\ pc \in {"idle", "scan", "recheck", "reload", "merge", "write"}
    /\ now \in Times
    /\ DOMAIN file = Urls /\ DOMAIN pf = Urls /\ DOMAIN next = Urls
    /\ curated \subseteq Urls /\ edits \in 0..MaxEdits
    /\ lists \in 0..MaxLists /\ rows \in [Names -> {"none", "barren", "alive"}]
    /\ disk \in Memories /\ mem \in Memories
    /\ faults \in 0..MaxFaults /\ amnesia \in BOOLEAN /\ prune \in BOOLEAN
    /\ start \subseteq Urls /\ live \subseteq Urls /\ unknown \subseteq Urls
    /\ stale \subseteq Urls /\ denied \subseteq Urls /\ reserved \subseteq Names
    /\ observed \in [Loadable -> Streaks]
    /\ refusals \subseteq Proposals
    /\ barrenLists \in [Names -> 0..MaxLists]

NoOverlay == [u \in Urls |-> None]

Init ==
    /\ pc = "idle" /\ now = 0
    /\ file = NoOverlay /\ curated = {} /\ edits = 0
    /\ lists = 0 /\ rows = [n \in Names |-> "none"]
    /\ disk = Blank /\ faults = 0
    /\ mem = Blank /\ amnesia = FALSE
    /\ start = {} /\ live = {} /\ unknown = {} /\ stale = {}
    /\ prune = FALSE /\ pf = NoOverlay /\ denied = {} /\ reserved = {}
    /\ next = NoOverlay
    /\ observed = [u \in Loadable |-> [n |-> 0, since |-> 0]]
    /\ refusals = {}
    /\ barrenLists = [n \in Names |-> 0]

-----------------------------------------------------------------------------
(* The world around the crawler.                                           *)

Tick ==
    /\ now < MaxNow
    /\ now' = now + 1
    /\ refusals' = {r \in refusals : r.at + RecordTTL >= now'}
    /\ UNCHANGED <<pc, world, service, disk, faults, mem, amnesia, cycle,
                   observed, barrenLists>>

\* The operator adds an entry, takes one over, removes one, or empties the file.
Edit(f) ==
    /\ edits < MaxEdits
    /\ file' = f /\ edits' = edits + 1
    /\ UNCHANGED <<pc, now, curated, service, disk, faults, mem, amnesia, cycle, history>>

HandAdd(u) ==
    /\ file[u] = None /\ u \notin curated /\ u \in Loadable
    /\ HandName[u] \notin NamesIn(file, Urls)
    /\ Edit([file EXCEPT ![u] = [name |-> HandName[u], managed |-> FALSE]])

HandTake(u) ==
    /\ u \in Managed(file)
    /\ Edit([file EXCEPT ![u].managed = FALSE])

HandRemove(u) ==
    /\ file[u] # None
    /\ Edit([file EXCEPT ![u] = None])

\* The URL of a managed entry is overwritten by one the service does not load.
HandSlip(u, v) ==
    /\ u \in Managed(file) /\ file[v] = None
    /\ v \notin Loadable /\ (u \in GhUrls <=> v \in GhUrls)
    /\ Edit([file EXCEPT ![u] = None, ![v] = file[u]])

Truncate == file # NoOverlay /\ Edit(NoOverlay)

Curate(u) ==
    /\ edits < MaxEdits
    /\ u \in Loadable \ curated /\ HandName[u] \notin NamesIn(file, Urls)
    /\ curated' = curated \cup {u} /\ edits' = edits + 1
    /\ UNCHANGED <<pc, now, file, service, disk, faults, mem, amnesia, cycle, history>>

\* What config.Load asks of each source.
Loads(f) == \A u \in Urls : f[u] # None => u \in Loadable

\* A service cycle publishes: the rows of the latest list name the GitHub
\* sources of the overlay it has loaded.
Publish ==
    \E alive \in SUBSET NamesIn(file, Gh(file)) :
        LET named == NamesIn(file, Gh(file))
        IN  /\ lists < MaxLists /\ Loads(file)
            /\ lists' = lists + 1
            /\ rows' = [n \in Names |-> IF n \notin named THEN "none"
                                        ELSE IF n \in alive THEN "alive" ELSE "barren"]
            /\ barrenLists' = [n \in Names |-> IF n \in named \ alive
                                               THEN barrenLists[n] + 1 ELSE barrenLists[n]]
            /\ UNCHANGED <<pc, now, world, disk, faults, mem, amnesia, cycle,
                           observed, refusals>>

-----------------------------------------------------------------------------
(* The state file.                                                         *)

\* persistState: nothing is written over a file that could not be read, and a
\* failed save is only logged.
Persist(m) ==
    \/ ~amnesia /\ disk' = m /\ UNCHANGED faults
    \/ amnesia /\ UNCHANGED <<disk, faults>>
    \/ /\ ~amnesia /\ m # disk /\ faults < MaxFaults
       /\ faults' = faults + 1 /\ UNCHANGED disk

\* The cycle is over, for one reason or another.
EndCycle ==
    /\ pc' = "idle"
    /\ mem' = Blank /\ amnesia' = FALSE
    /\ start' = {} /\ live' = {} /\ unknown' = {} /\ stale' = {}
    /\ prune' = FALSE /\ pf' = NoOverlay /\ denied' = {} /\ reserved' = {}
    /\ next' = NoOverlay

\* Killed, out of budget, or refused by the guard.
Abandon ==
    /\ pc # "idle"
    /\ EndCycle
    /\ UNCHANGED <<now, world, service, disk, faults, observed, refusals, barrenLists>>

-----------------------------------------------------------------------------
(* The cycle.                                                              *)

Remembered(m) == {u \in Urls : m.streak[u] # None}

\* The guard of loadCycle: the overlay lost a corpus the state remembers.
Emptied(m) == Managed(file) = {} /\ Remembered(m) # {}

\* pruneDead
Unexpired(m) == [m EXCEPT !.dead = [u \in Urls |->
                    IF m.dead[u] # None /\ m.dead[u] > now THEN m.dead[u] ELSE None]]

\* loadCycle, with a state file that reads or does not, and pruneDead.
Load ==
    /\ pc = "idle"
    /\ \E lost \in BOOLEAN :
        LET m == IF lost THEN Blank ELSE disk
        IN  /\ lost => faults < MaxFaults
            /\ ~Emptied(m)
            /\ faults' = IF lost THEN faults + 1 ELSE faults
            /\ amnesia' = lost
            /\ mem' = Unexpired(m)
    /\ start' = Managed(file)
    /\ pf' = file
    /\ pc' = "scan"
    /\ UNCHANGED <<now, world, service, disk, live, unknown, stale, prune, denied, reserved,
                   next, history>>

\* deadSet
Withheld == IF DeadTTL = 0 THEN {} ELSE {u \in Urls : mem.dead[u] # None}

\* recordDead
Stamp(m, S) ==
    IF DeadTTL = 0 THEN m
    ELSE [m EXCEPT !.dead = [u \in Urls |-> IF u \in S THEN now + DeadTTL ELSE m.dead[u]]]

\* scanGitHub: files the overlay does not hold, within the room under the cap.
Offers ==
    {offered \in SUBSET {u \in (GhUrls \cap Loadable) \ Withheld : pf[u] = None} :
        Cardinality(offered) <= Larger(0, MaxSources - Cardinality(Gh(pf)))}

\* scan: the channels show some URLs live and some gone, of those that candidate
\* lets through; then scanGitHub.
\* "stale" carries the channels' gone verdicts to the judgement.
Scan ==
    /\ pc = "scan"
    /\ \E found \in SUBSET (Loadable \ (GhUrls \cup Withheld)) :
       \E gone \in SUBSET (Loadable \ (GhUrls \cup Withheld \cup found)) :
       \E offered \in Offers :
        /\ live' = found \cup offered
        /\ stale' = gone
    /\ Persist(mem)
    /\ pc' = "recheck"
    /\ UNCHANGED <<now, world, service, mem, amnesia, start, unknown, prune, pf, denied,
                   reserved, next, history>>

\* Mutant of Age: a live answer does not end the streak.
AgeUnreset(streak, alive) ==
    [u \in Urls |->
        IF u \notin start THEN None
        ELSE IF u \in alive THEN IF streak[u] = None THEN [n |-> 0, since |-> 0] ELSE streak[u]
        ELSE IF streak[u] = None \/ streak[u].n = 0 THEN [n |-> 1, since |-> now]
        ELSE [streak[u] EXCEPT !.n = Smaller(@ + 1, RetireCycles)]]

\* ageManaged
Age(streak, alive) ==
    [u \in Urls |->
        IF u \notin start THEN None
        ELSE IF u \in alive THEN [n |-> 0, since |-> 0]
        ELSE IF streak[u] = None \/ streak[u].n = 0 THEN [n |-> 1, since |-> now]
        ELSE [streak[u] EXCEPT !.n = Smaller(@ + 1, RetireCycles)]]

RunOut(s) == s.n >= RetireCycles /\ now >= s.since + RetireAfter

\* clearDead
Cleared(m, alive) == [m EXCEPT !.dead = [u \in Urls |-> IF u \in alive THEN None ELSE @[u]]]

\* rememberVerdicts: a cycle without any live answer stamps nothing.
Stamped(m, gone, alive) == IF alive = {} THEN m ELSE Cleared(Stamp(m, gone), alive)

\* What trackLiveness saves.
Judged(m, gone, alive) == [Stamped(m, gone, alive) EXCEPT !.streak = Age(@, alive)]

\* recheckResult.dark
Dark(revived) == live = {} /\ start # {} /\ revived = {}

Observe(alive, saved) ==
    observed' = [u \in Loadable |->
        IF u \notin start THEN observed[u]
        ELSE IF u \notin alive
             THEN IF observed[u].n = 0 THEN [n |-> 1, since |-> now]
                  ELSE [observed[u] EXCEPT !.n = Smaller(@ + 1, RetireCycles)]
             ELSE IF saved THEN [n |-> 0, since |-> 0] ELSE observed[u]]

\* recheckManaged fetches the managed URLs not rediscovered; unless the cycle is
\* dark, rememberVerdicts and trackLiveness fold the verdicts in and save.
Recheck ==
    /\ pc = "recheck"
    /\ \E revived \in SUBSET (start \ live) :
       \E gone \in SUBSET (start \ (live \cup revived)) :
        LET alive == live \cup revived
            judged == Judged(mem, stale \cup gone, alive)
        IN  /\ live' = alive
            /\ unknown' = start \ (alive \cup gone)
            /\ prune' = ~Dark(revived)
            /\ IF Dark(revived)
               THEN /\ stale' = {}
                    /\ UNCHANGED <<mem, disk, faults, observed>>
               ELSE /\ mem' = judged
                    /\ stale' = {u \in start : RunOut(judged.streak[u])}
                    /\ Persist(judged)
                    /\ Observe(alive, disk' = judged)
    /\ pc' = "reload"
    /\ UNCHANGED <<now, world, service, amnesia, start, pf, denied, reserved, next, refusals, barrenLists>>

\* Mutant of Fold: the list need not be a new one.
FoldAgain(probation, known) ==
    [n \in Names |->
        IF n \notin known \/ rows[n] = "none" THEN probation[n]
        ELSE [published |-> lists,
              barren |-> IF rows[n] = "alive" THEN 0
                         ELSE IF probation[n] = None THEN 1 ELSE probation[n].barren + 1]]

\* foldOutcome, for the names the reading mentions.
Fold(probation, known) ==
    [n \in Names |->
        LET e == probation[n]
        IN  IF n \notin known \/ rows[n] = "none" THEN e
            ELSE IF e # None /\ lists <= e.published THEN e
            ELSE [published |-> lists,
                  barren |-> IF rows[n] = "alive" THEN 0
                             ELSE IF e = None THEN 1 ELSE e.barren + 1]]

\* foldReading: the names whose window the advancing reading closed.
Due(probation, known) ==
    {n \in known : /\ rows[n] = "barren"
                   /\ probation[n] # None => lists > probation[n].published
                   /\ Fold(probation, known)[n].barren >= Window}

WithdrawRoom(population) == Larger(WithdrawFloor, (population * WithdrawPercent) \div 100)

\* Mutant of Reload: the guard is applied when the cycle loads only.
ReloadUnguarded ==
    /\ pc = "reload"
    /\ pf' = file
    /\ pc' = "merge"

\* The overlay is read again for the merge and the guard of loadCycle applied
\* again; the curated URLs are read too.
Reload ==
    /\ pc = "reload"
    /\ ~Emptied(mem)
    /\ pf' = file
    /\ pc' = "merge"

\* pruneProbation and forgetProbation.
Keep(probation, names) == [n \in Names |-> IF n \in names THEN probation[n] ELSE None]

\* withholdCondemned, when the outcomes could be read and name any source.
Withhold ==
    /\ Reload
    /\ Gh(file) # {} /\ lists > 0 /\ \E n \in Names : rows[n] # "none"
    /\ LET known  == NamesIn(file, Gh(file))
           due    == Due(mem.probation, known)
           folded == Fold(mem.probation, known)
           room   == Smaller(Cardinality(due), WithdrawRoom(Cardinality(Gh(file))))
       IN  \E condemned \in SUBSET due :
            LET urls == {u \in Gh(file) : file[u].name \in condemned}
                kept == Keep(folded, known \ condemned)
                m == [Stamp(mem, urls) EXCEPT !.probation = kept]
            IN  /\ Cardinality(condemned) = room
                \* longest-barren first
                /\ \A n \in condemned, o \in due \ condemned :
                        folded[n].barren >= folded[o].barren
                /\ mem' = m
                /\ Persist(m)
                /\ denied' = curated \cup urls
                /\ barrenLists' = [n \in Names |->
                       IF disk' = m /\ n \in known /\ kept[n] # None /\ kept[n].barren = 0
                       THEN 0 ELSE barrenLists[n]]
    /\ UNCHANGED <<now, world, service, amnesia, start, live, unknown, stale, prune,
                   reserved, next, observed, refusals>>

\* It owns nothing, or could not read the outcomes.
WithholdNothing ==
    /\ Reload
    /\ denied' = curated
    /\ Persist(mem)
    /\ UNCHANGED <<now, world, service, mem, amnesia, start, live, unknown, stale, prune,
                   reserved, next, history>>

\* retainManaged
Retained(u) ==
    \/ u \in live
    \/ u \notin start
    \/ ~prune
    \/ u \in unknown /\ u \notin stale

\* mintRetained, the managed URLs of the next overlay: the old ones retained and
\* the live ones nobody shelters, less what is withheld, and only what the
\* service would load.
Kept == {u \in (Managed(pf) \cup {v \in live : pf[v] = None}) \ denied :
            Retained(u) /\ u \in Loadable}

\* What the prune floor rules on: withholding a source is no deletion.
Deleted == {u \in Managed(pf) \ denied : ~(Retained(u) /\ u \in Loadable)}

\* mintSource: an entry keeps its name; new ones take, in sorted order, the free
\* ordinals of their stem.
FreeOrdinals(stem, used) == {k \in Ordinals : <<stem, k>> \notin used}

NthFree(stem, used, i) ==
    CHOOSE k \in FreeOrdinals(stem, used) :
        Cardinality({j \in FreeOrdinals(stem, used) : j <= k}) = i

MintedName(u, fresh, used) ==
    LET place == Cardinality({v \in fresh : StemOf[v] = StemOf[u] /\ Rank[v] <= Rank[u]})
    IN  <<StemOf[u], NthFree(StemOf[u], used, place)>>

\* Mutant of Merged: the names of hand-written entries are not avoided.
MergedOverHand(taken) ==
    LET used  == taken \cup NamesIn(pf, Managed(pf))
        fresh == Kept \ Managed(pf)
    IN  [u \in Urls |->
            IF u \in fresh THEN [name |-> MintedName(u, fresh, used), managed |-> TRUE]
            ELSE IF u \in Managed(pf) \ Kept THEN None
            ELSE pf[u]]

\* mergeManaged, over the names curated and held.
Merged(taken) ==
    LET used  == taken \cup NamesIn(pf, Urls)
        fresh == Kept \ Managed(pf)
    IN  [u \in Urls |->
            IF u \in fresh THEN [name |-> MintedName(u, fresh, used), managed |-> TRUE]
            ELSE IF u \in Managed(pf) \ Kept THEN None
            ELSE pf[u]]

\* sameProposal
SameProposal(a, b) ==
    /\ a # {} /\ b # {}
    /\ Cardinality(a \cap b) * 100 >= Larger(Cardinality(a), Cardinality(b)) * Overlap

\* The prune floor of allowShrink.
WithinFloor(drop, before) == drop <= MinDrop \/ drop * 100 <= before * DropPercent

\* withdrawBulkPrune: a proposal is forgotten, and only that is worth a save.
Withdraw == [mem EXCEPT !.refused = None]

PersistWithdrawal ==
    IF mem.refused = None THEN UNCHANGED <<disk, faults>> ELSE Persist(Withdraw)

\* The merge changes nothing.
MergeSame ==
    /\ pc = "merge"
    /\ Merged({HandName[u] : u \in curated}) = pf
    /\ PersistWithdrawal
    /\ EndCycle
    /\ UNCHANGED <<now, world, service, observed, refusals, barrenLists>>

\* The floor holds, or a refused proposal is confirmed: on to the write.
Proceed ==
    LET taken == {HandName[u] : u \in curated}
    IN  /\ pc = "merge"
        /\ Merged(taken) # pf
        /\ next' = Merged(taken) /\ reserved' = taken
        /\ mem' = Withdraw /\ PersistWithdrawal
        /\ pc' = "write"
        /\ UNCHANGED <<now, world, service, amnesia, start, live, unknown, stale, prune, pf,
                       denied, history>>

MergeSmall ==
    /\ WithinFloor(Cardinality(Deleted), Cardinality(Managed(pf)))
    /\ Proceed

\* Mutant of Pending: a refusal never expires.
PendingForever == mem.refused # None /\ SameProposal(mem.refused.urls, Deleted)

\* confirmBulkPrune knows the proposal.
Pending ==
    /\ mem.refused # None
    /\ now <= mem.refused.at + RecordTTL
    /\ SameProposal(mem.refused.urls, Deleted)

MergeConfirmed ==
    /\ pc = "merge"
    /\ ~WithinFloor(Cardinality(Deleted), Cardinality(Managed(pf)))
    /\ Pending /\ now >= mem.refused.at + ConfirmAfter
    /\ Proceed

\* Refused, and remembered if it is new.
MergeRefused ==
    /\ pc = "merge"
    /\ ~WithinFloor(Cardinality(Deleted), Cardinality(Managed(pf)))
    /\ Merged({HandName[u] : u \in curated}) # pf
    /\ Pending => now < mem.refused.at + ConfirmAfter
    /\ LET r == [at |-> now, urls |-> Deleted]
       IN  IF Pending THEN UNCHANGED <<disk, faults, refusals>>
           ELSE /\ Persist([mem EXCEPT !.refused = r])
                /\ refusals' = refusals \cup {r}
    /\ EndCycle
    /\ UNCHANGED <<now, world, service, observed, barrenLists>>

UniqueNames(f) == \A u, v \in Urls : f[u] # None /\ f[v] # None /\ f[u].name = f[v].name => u = v

\* validatePrivate
Valid(f) == UniqueNames(f) /\ Loads(f)

\* writePrivate: validated, then written aside and renamed.
Write ==
    /\ pc = "write"
    /\ Valid(next)
    /\ file' = next
    /\ EndCycle
    /\ UNCHANGED <<now, curated, edits, service, disk, faults, observed, refusals,
                   barrenLists>>

WriteFails ==
    /\ pc = "write"
    /\ ~Valid(next) \/ faults < MaxFaults
    /\ faults' = IF Valid(next) THEN faults + 1 ELSE faults
    /\ EndCycle
    /\ UNCHANGED <<now, world, service, disk, observed, refusals, barrenLists>>

Operator == Truncate \/ \E u \in Urls : HandAdd(u) \/ HandTake(u) \/ HandRemove(u) \/ Curate(u)
                            \/ \E v \in Urls : HandSlip(u, v)

Next ==
    \/ Tick \/ Operator \/ Publish
    \/ Load \/ Scan \/ Recheck \/ Withhold \/ WithholdNothing
    \/ MergeSame \/ MergeSmall \/ MergeConfirmed \/ MergeRefused
    \/ Write \/ WriteFails \/ Abandon

Spec == Init /\ [][Next]_vars

-----------------------------------------------------------------------------
(* Properties.                                                             *)

\* The managed sources the pending write drops other than by withholding.
Dropped == {u \in Managed(pf) \ denied : next[u] = None}

\* A source is deleted (retainManaged, ageManaged) only if some URL answered in
\* this cycle while it did not, and either its answer was that it is gone, or
\* enough cycles over enough time have seen it not live with no live answer
\* remembered in between: no crash, failed save or dark cycle shortens the wait.
\* A URL that would make the service refuse the file goes without any.
DeletedOnEvidence ==
    pc = "write" => \A u \in Dropped \cap Loadable :
        /\ u \in start \ live /\ live # {}
        /\ u \in unknown => RunOut(observed[u])

\* A write that deletes a large share of the corpus is decided on (allowShrink,
\* confirmBulkPrune) only when, in the crawler's whole history, much the same
\* deletion has been refused before, long enough and not too long ago.
BulkConfirmed ==
    [][pc = "merge" /\ pc' = "write"
         /\ ~WithinFloor(Cardinality(Deleted), Cardinality(Managed(pf))) =>
         \E r \in refusals : /\ SameProposal(r.urls, Deleted)
                             /\ r.at + ConfirmAfter <= now /\ now <= r.at + RecordTTL]_vars

\* A source's barren streak (foldOutcome) never outruns the lists in which its
\* name had no survivor since the last remembered list in which it had one: a
\* list read twice, or a fold lost with a failed save, is never counted twice.
BarrenWitnessed ==
    \A n \in Names : disk.probation[n] # None => disk.probation[n].barren <= barrenLists[n]

\* Whatever the operator does meanwhile, the merge (mergeManaged, mintSource)
\* leaves the entries of others as they are, finds a name for each new one, and
\* turns an overlay without duplicate names into one that validatePrivate accepts
\* and whose new names are not those of curated sources.  A URL the service does
\* not load blocks the write as a hand-written entry, never as a managed one.
MintSound ==
    pc = "write" =>
        /\ next \in Overlays
        /\ \A u \in Urls \ Managed(pf) : pf[u] # None => next[u] = pf[u]
        /\ UniqueNames(next)
        /\ (\A u \in Urls \ Managed(pf) : pf[u] # None => u \in Loadable) => Loads(next)
        /\ \A u \in Urls : pf[u] = None /\ next[u] # None => next[u].name \notin reserved

\* An overlay emptied behind the crawler's back (loadCycle and RunOnce's second
\* guard) is never rebuilt from one cycle's discoveries: neither when the cycle
\* began with a corpus nor when the state file, if it can be read, remembers one.
NeverRebuilt ==
    pc = "write" /\ Managed(pf) = {} => start = {} /\ (amnesia \/ Remembered(disk) = {})

\* A source enters probation without the streak of another: "its record must not
\* survive the source: a rediscovery after the dead stamp expires would otherwise
\* re-enter probation carrying the old streak" (forgetProbation).
EntersAfresh ==
    [][\A u \in GhUrls : file[u] = None /\ file'[u] # None /\ file'[u].managed =>
            \/ disk.probation[file'[u].name] = None
            \/ disk.probation[file'[u].name].barren = 0]_vars
=============================================================================
