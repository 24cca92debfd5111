--------------------------- MODULE CrawlDiscovery ---------------------------
(***************************************************************************)
(* Discovery over the cycles of the crawler: RunOnce runs the channel scan *)
(* and then the GitHub phase on one state and one map of live URLs, saves  *)
(* the state after each, and the merge may take what was found into the    *)
(* overlay.  A cycle that ends during the scan keeps nothing; the process  *)
(* may be killed anywhere and starts again from the state file.  What the  *)
(* cycle does between the second save and the next start is CrawlCycle's:  *)
(* here the merge takes all of live or, the cycle aborted, none.           *)
(***************************************************************************)
EXTENDS ChannelScan, GithubPass

VARIABLES
    phase,      \* where RunOnce is
    disk,       \* the state file
    overlay,    \* private.yaml: URL -> the feed it was minted with, or None
    lost        \* history: passes whose queries the state file does not know of

\* The feed of a repository, "gh:owner/name", is no chat.
ASSUME DiscoveryAssumption == Slugs \cap Repos = {}

vars == <<phase, disk, overlay, lost, cycle, faults, live, scanVars, passVars>>

Memories == [productive : [Refs -> 0..MaxCycles], ladders : [Slugs -> 0..MaxCycles],
             cursor : [code : Nat, repo : Nat], repos : [Repos -> 0..MaxCycles]]

TypeOK ==
    /\ WorldOK /\ ScanOK /\ PassOK
    /\ phase \in {"idle", "scan", "github", "merge"}
    /\ disk \in Memories /\ overlay \in [Urls -> Origins \cup {None}] /\ lost \in 0..MaxFaults

Init ==
    /\ phase = "idle" /\ cycle = 0 /\ faults = 0 /\ live = [u \in Urls |-> None]
    /\ ScanInit /\ PassInit
    /\ disk = [productive |-> productive, ladders |-> ladders, cursor |-> cursor, repos |-> repos]
    /\ overlay = [u \in Urls |-> None] /\ lost = 0

\* The state file is read and the phases start from nothing.
StartCycle ==
    /\ phase = "idle" /\ cycle < MaxCycles
    /\ phase' = "scan" /\ cycle' = cycle + 1
    /\ UNCHANGED <<disk, overlay, lost, faults, live, scanVars, passVars>>

Scanning ==
    /\ phase = "scan"
    /\ ScanNext
    /\ UNCHANGED <<phase, disk, overlay, lost, cycle, passVars>>

ResetScan ==
    /\ at' = "off" /\ roots' = {} /\ queue' = <<>> /\ visited' = {} /\ topicsSeen' = {}
    /\ discovered' = 0 /\ node' = NoNode /\ pages' = <<>> /\ viaTopic' = FALSE /\ failed' = FALSE
    /\ rung' = 0 /\ groups' = 0 /\ asked' = [r \in InForum |-> 0]

ResetPass ==
    /\ step' = "off" /\ ended' = FALSE /\ tries' = 0 /\ census' = None
    /\ codeUsed' = 0 /\ repoUsed' = 0 /\ found' = <<>> /\ proposed' = <<>> /\ todo' = <<>>
    /\ seen' = {} /\ remaining' = 0 /\ admitted' = <<>> /\ turn' = 1
    /\ listed' = [r \in Repos |-> <<>>] /\ waiting' = <<>> /\ inflight' = {}
    /\ outcome' = [f \in Files |-> "none"] /\ union' = {} /\ picks' = <<>>

\* The first save: the memory is pruned and written, at best, before the
\* GitHub phase spends what is left of the cycle.
SaveScan ==
    /\ phase = "scan" /\ at = "done"
    /\ productive' = PrunedRefs /\ ladders' = PrunedLadders /\ repos' = PrunedRepos
    /\ \/ /\ Fine
          /\ disk' = [disk EXCEPT !.productive = PrunedRefs, !.ladders = PrunedLadders,
                                  !.repos = PrunedRepos]
       \/ Fault /\ UNCHANGED disk
    /\ ResetScan
    /\ phase' = "github" /\ managed' = overlay
    /\ UNCHANGED <<step, ended, tries, census, censusFile, work, cursor, asks, overlay, lost,
                   cycle, live, missed>>

Searching ==
    /\ phase = "github"
    /\ PassNext
    /\ UNCHANGED <<phase, disk, overlay, lost, cycle, scanVars>>

\* The second save.
SavePass ==
    /\ phase = "github" /\ step = "done"
    /\ \/ /\ Fine /\ UNCHANGED lost
          /\ disk' = [productive |-> productive, ladders |-> ladders, cursor |-> cursor,
                      repos |-> repos]
       \/ Fault /\ UNCHANGED disk /\ lost' = lost + 1
    /\ ResetPass
    /\ phase' = "merge"
    /\ UNCHANGED <<overlay, cycle, live, scanVars, censusFile, cursor, repos, managed, asks>>

\* The state of the cycle is gone; the next one reads the file.
Forget ==
    /\ productive' = disk.productive /\ ladders' = disk.ladders
    /\ cursor' = disk.cursor /\ repos' = disk.repos
    /\ managed' = [u \in Urls |-> None] /\ live' = [u \in Urls |-> None]
    /\ phase' = "idle"
    /\ UNCHANGED <<disk, cycle, missed, censusFile, asks>>

Merge ==
    /\ phase = "merge"
    /\ \/ Fine  /\ overlay' = [u \in Urls |-> IF overlay[u] # None THEN overlay[u] ELSE live[u]]
       \/ Fault /\ UNCHANGED overlay
    /\ Forget
    /\ UNCHANGED <<lost, at, seeding, admission, node, answer, rung, groups, asked,
                   step, ended, tries, census, work>>

\* The cycle ends during the scan, or the process is killed.
Drop ==
    /\ phase \in {"scan", "github"}
    /\ Fault /\ Forget /\ ResetScan /\ ResetPass
    /\ lost' = IF codeUsed > 0 \/ step = "done" THEN lost + 1 ELSE lost
    /\ UNCHANGED overlay

\* Bound of the model: after the last cycle.
Rest == phase = "idle" /\ cycle = MaxCycles /\ UNCHANGED vars

Next == StartCycle \/ Scanning \/ SaveScan \/ Searching \/ SavePass \/ Merge \/ Drop \/ Rest

Spec == Init /\ [][Next]_vars

--------------------------------------------------------------------------
\* The topic of a group is read once in a cycle at most, whichever way the scan
\* comes to it: as a remembered seed, a repost, a carved child, a rung of the
\* ladder.  A post of a channel, whose permalink looks the same, is never read as
\* a topic, even when the listing of the channel does not come back.
TopicAskedRight ==
    \A r \in InForum : asked[r] <= IF HasMessages(Listing[r.slug]) THEN 0 ELSE 1

\* As long as the state file says that a group was swept, it remembers every
\* topic the sweep could read and that carried a subscription, unless it is
\* full: a group is not swept again, so a hit that is not a seed is lost.
SweptKept ==
    Cardinality({r \in Refs : disk.productive[r] # 0}) < MaxProductive =>
        \A r \in InForum \ missed :
            disk.ladders[r.slug] # 0 /\ Carries(Discussion(r)) => disk.productive[r] # 0

\* The novel endpoints credited to the files of a pass are endpoints, counted
\* once, that the baseline does not have; each file brings MinNovel of them and
\* is one that may be minted.
NovelIsReal ==
    LET chosen == {picks[i].file : i \in DOMAIN picks}
        claimed[n \in 0..Len(picks)] == IF n = 0 THEN 0 ELSE claimed[n - 1] + picks[n].novel
    IN  /\ picks # <<>> => claimed[Len(picks)] <= Cardinality(FoldOf(chosen) \ census)
        /\ \A i \in DOMAIN picks : picks[i].novel >= MinNovel
        /\ chosen \cap KnownUrls = {}

\* The sources minted from GitHub never outnumber MaxSources, although the room
\* is counted before the pass and used after it, and whichever way a file came
\* to be known first.
SourceCap == Cardinality(Owned(overlay)) <= MaxSources

\* The grid is walked in turn across passes that are cut short or fail: no
\* query is sent twice more often than another but for passes whose cursor was
\* lost with the process or its save.
GridInTurn == \A q, p \in DOMAIN asks : asks[q] <= asks[p] + 1 + lost

=============================================================================
