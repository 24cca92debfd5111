----------------------------- MODULE GithubPass -----------------------------
(***************************************************************************)
(* The GitHub phase of a crawl cycle: Crawler.scanGitHub, the census of    *)
(* endpoints it measures novelty against, and one ghfind.Discover pass:    *)
(* search, admit, trees, probe, select.                                    *)
(*                                                                         *)
(* The pass has a budget: its context may end at any step, and each phase  *)
(* looks.  Requests fail; those GitHub asks to repeat are, MaxRetries      *)
(* times.  Only the probe is concurrent.  A file stands for its raw URL; a *)
(* body is its set of endpoints.  The pacing of the calls is left out: the *)
(* one caller sleeps until its bucket lets it go on.                       *)
(***************************************************************************)
EXTENDS CrawlWorld

CONSTANTS
    Repos, Files,        \* Files \subseteq Urls, each in one repository
    EndpointsOf,         \* URL -> the endpoints of its body
    Curated,             \* URLs of the curated files
    Stamped,             \* URLs under a standing dead stamp
    CodeHits, RepoHits,  \* query of a grid -> the repositories of its answer
    Meta,                \* repository -> [archived, fork, age]
    Tree, Blob,          \* repository -> its files; file -> its attributes
    PathRank, RepoRank,  \* lexical order of paths and of names
    SearchCode, SearchRepo, MaxRepos, FilesPerRepo, AcceptPerRepo, MinNovel,
    FreshFor, ForkDivisor, FloorMin, FloorPercent, Concurrency, MaxRetries,
    MaxSources, CensusTTL, MaxProductiveRepos

CodeLen == Len(CodeHits)
RepoLen == Len(RepoHits)
Endpoints == UNION {EndpointsOf[u] : u \in Urls}

ASSUME PassAssumption ==
    /\ Repos \subseteq Origins /\ Files \subseteq Urls /\ Curated \cup Stamped \subseteq Urls
    /\ IsFiniteSet(Endpoints)
    /\ CodeHits \in Seq(Seq(Repos)) /\ RepoHits \in Seq(Seq(Repos))
    /\ DOMAIN EndpointsOf = Urls /\ DOMAIN Meta = Repos
    /\ Tree \in [Repos -> SUBSET Files]
    /\ \A f \in Files : \E r \in Repos : f \in Tree[r]
    /\ \A r, q \in Repos : r # q => Tree[r] \cap Tree[q] = {}
    /\ \A f \in Files : Blob[f].size \in Nat /\ Blob[f].keywords \in Nat
    /\ PathRank \in [Files -> Nat] /\ \A f, g \in Files : PathRank[f] = PathRank[g] => f = g
    /\ RepoRank \in [Repos -> Nat] /\ \A r, q \in Repos : RepoRank[r] = RepoRank[q] => r = q
    /\ {SearchCode, SearchRepo, MaxRepos, FilesPerRepo, AcceptPerRepo, MinNovel, FreshFor,
        FloorMin, FloorPercent, MaxRetries, MaxSources, CensusTTL, MaxProductiveRepos}
          \subseteq Nat
    /\ {ForkDivisor, Concurrency} \subseteq Nat \ {0}

VARIABLES
    step,                \* program point of the pass
    ended,               \* the context of the pass is done
    tries,               \* attempts of the request under way, 0 when there is none
    census,              \* the baseline: a set of endpoints, None for no census
    censusFile,          \* the persisted one: [eps, at], or None
    codeUsed, repoUsed,  \* queries consumed of either grid
    found, proposed,     \* repositories from code search, from repository search
    todo, seen, remaining, admitted,
    turn,                \* the admitted repository whose tree is next
    listed,              \* admitted repository -> its candidates, best first
    waiting, inflight, outcome,   \* probes: files to fetch, being fetched, and their ends
    union, picks,        \* selection: the running union, the accepted files
    cursor, repos,       \* memory: grid positions, cycle a repository last contributed
    managed,             \* the overlay this cycle started with: URL -> its feed, or None
    asks                 \* history: times each code query was sent

passVars == <<step, ended, tries, census, censusFile, codeUsed, repoUsed, found, proposed, todo,
              seen, remaining, admitted, turn, listed, waiting, inflight, outcome, union, picks,
              cursor, repos, managed, asks>>
work == <<codeUsed, repoUsed, found, proposed, todo, seen, remaining, admitted, turn,
          listed, waiting, inflight, outcome, union, picks>>
memory == <<cursor, repos, managed, censusFile>>

FoundRepos == [repo : Repos, meta : BOOLEAN, productive : BOOLEAN]
Picks      == [file : Files, repo : Repos, novel : Nat]

CallOK ==
    /\ step \in {"off", "census", "code", "repo", "admit", "trees", "probe", "select", "offer",
                 "done"}
    /\ ended \in BOOLEAN /\ tries \in 0..(MaxRetries + 1)
CensusOK ==
    /\ census \in {None} \cup SUBSET Endpoints
    /\ censusFile \in {None} \cup [eps : SUBSET Endpoints, at : 0..MaxCycles]
SearchOK ==
    /\ codeUsed \in 0..Least(SearchCode, CodeLen) /\ repoUsed \in 0..Least(SearchRepo, RepoLen)
    /\ found \in Seq(Repos) /\ proposed \in Seq(Repos)
AdmitOK ==
    /\ todo \in Seq(FoundRepos) /\ seen \subseteq Repos
    /\ remaining \in 0..MaxRepos /\ admitted \in Seq(Repos)
FilesOK ==
    /\ turn \in Nat \ {0} /\ listed \in [Repos -> Seq(Files)]
    /\ waiting \in Seq(Files) /\ inflight \subseteq Files
    /\ outcome \in [Files -> {"none", "live", "barren", "failed"}]
    /\ union \subseteq Endpoints /\ picks \in Seq(Picks)
MemoryOK ==
    /\ cursor \in [code : Nat, repo : Nat] /\ repos \in [Repos -> 0..MaxCycles]
    /\ managed \in [Urls -> Origins \cup {None}]
    /\ asks \in [0..(CodeLen - 1) -> Nat]
PassOK == CallOK /\ CensusOK /\ SearchOK /\ AdmitOK /\ FilesOK /\ MemoryOK

NoWork == /\ codeUsed = 0 /\ repoUsed = 0 /\ found = <<>> /\ proposed = <<>> /\ todo = <<>>
          /\ seen = {} /\ remaining = 0 /\ admitted = <<>> /\ turn = 1 /\ listed = [r \in Repos |-> <<>>]
          /\ waiting = <<>> /\ inflight = {} /\ outcome = [f \in Files |-> "none"]
          /\ union = {} /\ picks = <<>>

PassInit == /\ step = "off" /\ ended = FALSE /\ tries = 0 /\ census = None /\ NoWork
            /\ censusFile = None
            /\ cursor = [code |-> 0, repo |-> 0] /\ repos = [r \in Repos |-> 0]
            /\ managed = [u \in Urls |-> None]
            /\ asks = [q \in 0..(CodeLen - 1) |-> 0]

--------------------------------------------------------------------------
(* The census and the cap. *)

Owned(feeds) == {u \in Urls : feeds[u] \in Repos}
Carried(feeds) == {u \in Urls : feeds[u] # None}
\* Mutant of Room: what the overlay already holds is not recognised.
RoomOfCap == MaxSources
Room == MaxSources - Cardinality(Owned(managed))

Corpus == Carried(managed) \cup Curated
FoldOf(S) == UNION {EndpointsOf[u] : u \in S}

\* A full cap is decided before any network work.
CapReached ==
    /\ step = "off" /\ Room <= 0
    /\ step' = "done"
    /\ UNCHANGED <<ended, tries, census, work, memory, asks, live, faults>>

BeginPass ==
    /\ step = "off" /\ Room > 0
    /\ step' = "census"
    /\ UNCHANGED <<ended, tries, census, work, memory, asks, live, faults>>

Young == censusFile # None /\ cycle - censusFile.at < CensusTTL
Stale == IF censusFile = None THEN None ELSE censusFile.eps

\* With no baseline at all the pass is refused.
Baseline(c) == /\ census' = c
               /\ step' = IF c = None THEN "done" ELSE "code"

ReuseCensus ==
    /\ step = "census" /\ Young
    /\ Baseline(censusFile.eps)
    /\ UNCHANGED <<ended, tries, work, memory, asks, live, faults>>

\* A source that does not answer is skipped; the save is best effort.
BuildCensus ==
    /\ step = "census" /\ ~Young /\ ~ended
    /\ \E answered \in SUBSET Corpus \ {{}} :
          /\ Baseline(FoldOf(answered))
          /\ \/ /\ censusFile' = [eps |-> FoldOf(answered), at |-> cycle]
                /\ IF answered = Corpus THEN Fine ELSE Fault
             \/ answered = Corpus /\ Fault /\ UNCHANGED censusFile
    /\ UNCHANGED <<ended, tries, work, cursor, repos, managed, asks, live>>

\* No source, none that answers, or the budget spent meanwhile: the old baseline.
KeepStale ==
    /\ step = "census" /\ ~Young
    /\ \/ Corpus = {} /\ Fine
       \/ Corpus # {} /\ ended /\ Fine
       \/ Corpus # {} /\ ~ended /\ Fault
    /\ Baseline(Stale)
    /\ UNCHANGED <<ended, tries, work, memory, asks, live>>

--------------------------------------------------------------------------
(* API calls. *)

\* An attempt that is to be repeated: too many requests, a secondary limit, an
\* exhausted allowance, a server error.  The last one is an error.
Again == /\ tries > 0 /\ ~ended /\ tries <= MaxRetries
         /\ Fault /\ tries' = tries + 1
         /\ UNCHANGED <<step, ended, census, work, memory, asks, live>>

Answered == tries > 0 /\ ~ended /\ tries' = 0 /\ Fine
Rejected == tries > 0 /\ ~ended /\ tries' = 0 /\ Fault
Aborted  == tries > 0 /\ ended /\ tries' = 0 /\ Fine

--------------------------------------------------------------------------
(* Search. *)

CodeQuery == (cursor.code + codeUsed - 1) % CodeLen
RepoQuery == (cursor.repo + repoUsed - 1) % RepoLen

\* A query counts as used before it is sent.
AskCode ==
    /\ step = "code" /\ tries = 0 /\ ~ended /\ codeUsed < Least(SearchCode, CodeLen)
    /\ codeUsed' = codeUsed + 1 /\ tries' = 1
    /\ LET q == (cursor.code + codeUsed) % CodeLen IN asks' = [asks EXCEPT ![q] = @ + 1]
    /\ UNCHANGED <<step, ended, census, repoUsed, found, proposed, todo, seen, remaining,
                   admitted, turn, listed, waiting, inflight, outcome, union, picks, memory, live,
                   faults>>

WalkCode ==
    /\ step = "code"
    /\ \/ Answered /\ found' = found \o CodeHits[CodeQuery + 1] /\ UNCHANGED step
       \/ Rejected /\ UNCHANGED <<found, step>>
       \/ Aborted  /\ UNCHANGED <<found, step>>
       \/ /\ tries = 0 /\ (ended \/ codeUsed = Least(SearchCode, CodeLen))
          /\ step' = "repo" /\ UNCHANGED <<found, tries, faults>>
    /\ UNCHANGED <<ended, census, codeUsed, repoUsed, proposed, todo, seen, remaining,
                   admitted, turn, listed, waiting, inflight, outcome, union, picks, memory, asks, live>>

AskRepo ==
    /\ step = "repo" /\ tries = 0 /\ ~ended /\ repoUsed < Least(SearchRepo, RepoLen)
    /\ repoUsed' = repoUsed + 1 /\ tries' = 1
    /\ UNCHANGED <<step, ended, census, codeUsed, found, proposed, todo, seen, remaining,
                   admitted, turn, listed, waiting, inflight, outcome, union, picks, memory, asks, live,
                   faults>>

\* The repositories to consider: the remembered ones, most recent first, those
\* of repository search, which came with their metadata, those of code search.
GithubRepos ==
    LET remembered == {r \in Repos : repos[r] # 0}
    IN  Sorted(remembered, {p \in remembered \X remembered :
                               \/ repos[p[1]] > repos[p[2]]
                               \/ repos[p[1]] = repos[p[2]] /\ RepoRank[p[1]] < RepoRank[p[2]]})
Considered ==
    LET as(seq, m, p) == [i \in DOMAIN seq |-> [repo |-> seq[i], meta |-> m, productive |-> p]]
    IN  as(GithubRepos, FALSE, TRUE) \o as(proposed, TRUE, FALSE) \o as(found, FALSE, FALSE)

WalkRepo ==
    /\ step = "repo"
    /\ \/ /\ Answered /\ proposed' = proposed \o RepoHits[RepoQuery + 1]
          /\ UNCHANGED <<step, todo, remaining>>
       \/ Rejected /\ UNCHANGED <<proposed, step, todo, remaining>>
       \/ Aborted  /\ UNCHANGED <<proposed, step, todo, remaining>>
       \/ /\ tries = 0 /\ (ended \/ repoUsed = Least(SearchRepo, RepoLen))
          /\ IF ended THEN step' = "offer" /\ UNCHANGED <<todo, remaining>>
             ELSE step' = "admit" /\ todo' = Considered /\ remaining' = MaxRepos
          /\ UNCHANGED <<proposed, tries, faults>>
    /\ UNCHANGED <<ended, census, codeUsed, repoUsed, found, seen, admitted, turn, listed,
                   waiting, inflight, outcome, union, picks, memory, asks, live>>

--------------------------------------------------------------------------
(* Admission and trees. *)

PushedLately(r) ==
    /\ ~Meta[r].archived
    /\ Meta[r].age <= FreshFor
    /\ Meta[r].fork => Meta[r].age <= FreshFor \div ForkDivisor

Overlooked(c) == c.repo \in seen \/ (~c.productive /\ remaining = 0)

\* Only an admitted repository that was not remembered uses up the budget.
Judge(c) ==
    IF PushedLately(c.repo)
    THEN /\ admitted' = Append(admitted, c.repo)
         /\ remaining' = IF c.productive THEN remaining ELSE remaining - 1
    ELSE UNCHANGED <<admitted, remaining>>

Consider ==
    /\ step = "admit" /\ tries = 0 /\ todo # <<>>
    /\ LET c == Head(todo) IN
       \/ Overlooked(c) /\ todo' = Tail(todo) /\ UNCHANGED <<seen, tries, admitted, remaining>>
       \/ /\ ~Overlooked(c) /\ c.meta
          /\ todo' = Tail(todo) /\ seen' = seen \cup {c.repo} /\ Judge(c) /\ UNCHANGED tries
       \/ /\ ~Overlooked(c) /\ ~c.meta
          /\ seen' = seen \cup {c.repo} /\ tries' = 1 /\ UNCHANGED <<todo, admitted, remaining>>
    /\ UNCHANGED <<step, ended, census, codeUsed, repoUsed, found, proposed, turn, listed,
                   waiting, inflight, outcome, union, picks, memory, asks, live, faults>>

\* The metadata a code-search hit came without.
FetchMeta ==
    /\ step = "admit" /\ tries > 0 /\ todo' = Tail(todo)
    /\ \/ Answered /\ Judge(Head(todo))
       \/ Rejected /\ UNCHANGED <<admitted, remaining>>
       \/ Aborted  /\ UNCHANGED <<admitted, remaining>>
    /\ UNCHANGED <<step, ended, census, codeUsed, repoUsed, found, proposed, seen, turn, listed,
                   waiting, inflight, outcome, union, picks, memory, asks, live>>

EndAdmit ==
    /\ step = "admit" /\ tries = 0 /\ todo = <<>>
    /\ step' = IF ended THEN "offer" ELSE "trees"
    /\ UNCHANGED <<ended, tries, census, work, memory, asks, live, faults>>

\* The candidate filter, on sizes in KB.
ExtScore(ext) == CASE ext = "txt" -> 3 [] ext \in {"", "conf", "list", "sub", "base64"} -> 2
                   [] ext = "json" -> 1 [] OTHER -> -1
SizeBucket(size) == IF size >= 200 THEN 3 ELSE IF size >= 20 THEN 2 ELSE IF size >= 2 THEN 1 ELSE 0
Score(b) == ExtScore(b.ext) + SizeBucket(b.size) + 2 * b.keywords
Plausible(b) ==
    /\ b.blob /\ b.size > 0 /\ b.size <= 10240
    /\ ~b.hidden /\ ~b.refusedDir /\ ~b.refusedName
    /\ ExtScore(b.ext) >= 0
    /\ b.size >= 2 \/ Score(b) >= 7
Better(f, g) ==
    LET a == Blob[f]  b == Blob[g] IN
    \/ Score(a) > Score(b)
    \/ Score(a) = Score(b) /\ a.size > b.size
    \/ Score(a) = Score(b) /\ a.size = b.size /\ PathRank[f] < PathRank[g]
CandidatesOf ==
    [r \in Repos |->
        LET kept == {f \in Tree[r] : Plausible(Blob[f])}
            best == Sorted(kept, {p \in kept \X kept : Better(p[1], p[2])})
        IN  SubSeq(best, 1, Least(FilesPerRepo, Len(best)))]

\* One job per candidate of every tree that was read, in the order of admission.
Jobs ==
    LET places == Places([i \in DOMAIN admitted |-> listed[admitted[i]]])
        job    == Sorted(places, Reading(places))
    IN  [n \in DOMAIN job |-> listed[admitted[job[n][1]]][job[n][2]]]

AskTree ==
    /\ step = "trees" /\ tries = 0 /\ ~ended /\ turn <= Len(admitted)
    /\ tries' = 1
    /\ UNCHANGED <<step, ended, census, work, memory, asks, live, faults>>

WalkTrees ==
    /\ step = "trees"
    /\ \/ /\ Answered /\ turn' = turn + 1
          /\ listed' = [listed EXCEPT ![admitted[turn]] = CandidatesOf[admitted[turn]]]
          /\ UNCHANGED <<step, waiting>>
       \/ Rejected /\ turn' = turn + 1 /\ UNCHANGED <<step, listed, waiting>>
       \/ Aborted  /\ turn' = turn + 1 /\ UNCHANGED <<step, listed, waiting>>
       \/ /\ tries = 0 /\ (ended \/ turn > Len(admitted))
          /\ IF ended THEN step' = "offer" /\ UNCHANGED waiting
             ELSE /\ step' = "probe"
                  /\ waiting' = Jobs
          /\ UNCHANGED <<listed, turn, tries, faults>>
    /\ UNCHANGED <<ended, census, codeUsed, repoUsed, found, proposed, todo, seen, remaining,
                   admitted, inflight, outcome, union, picks, memory, asks, live>>

--------------------------------------------------------------------------
(* Probe: a pool of workers, each writing the outcome of its own file. *)

Dispatch ==
    /\ step = "probe" /\ ~ended /\ waiting # <<>> /\ Cardinality(inflight) < Concurrency
    /\ waiting' = Tail(waiting) /\ inflight' = inflight \cup {Head(waiting)}
    /\ UNCHANGED <<step, ended, tries, census, codeUsed, repoUsed, found, proposed, todo, seen,
                   remaining, admitted, turn, listed, outcome, union, picks, memory, asks, live,
                   faults>>

Verdict(f) == IF EndpointsOf[f] = {} THEN "barren" ELSE "live"

ProbeFile ==
    /\ step = "probe"
    /\ \E f \in inflight :
          /\ inflight' = inflight \ {f}
          /\ \/ ~ended /\ Fine  /\ outcome' = [outcome EXCEPT ![f] = Verdict(f)]
             \/ ~ended /\ Fault /\ outcome' = [outcome EXCEPT ![f] = "failed"]
             \/ ended  /\ Fine  /\ outcome' = [outcome EXCEPT ![f] = "failed"]
    /\ UNCHANGED <<step, ended, tries, census, codeUsed, repoUsed, found, proposed, todo, seen,
                   remaining, admitted, turn, listed, waiting, union, picks, memory, asks, live>>

EndProbe ==
    /\ step = "probe" /\ inflight = {} /\ (waiting = <<>> \/ ended)
    /\ step' = "select" /\ waiting' = <<>>
    /\ UNCHANGED <<ended, tries, census, codeUsed, repoUsed, found, proposed, todo, seen,
                   remaining, admitted, turn, listed, inflight, outcome, union, picks, memory,
                   asks, live, faults>>

--------------------------------------------------------------------------
(* Selection. *)

KnownUrls == Carried(managed) \cup Stamped

CoverFloor(sets) ==
    LET pct == (Cardinality(UNION {sets[i] : i \in DOMAIN sets}) * FloorPercent) \div 100
    IN  IF pct > FloorMin THEN pct ELSE FloorMin

\* Greedy cover: the indices of the sets that add most, the lower one of equals.
Cover(sets, floor, accept) ==
    LET Gain(acc, i) == Cardinality(sets[i] \ acc.covered)
        Left(acc)    == DOMAIN sets \ {acc.chosen[n] : n \in DOMAIN acc.chosen}
        Best(acc)    == CHOOSE i \in Left(acc) :
                            \A j \in Left(acc) : \/ Gain(acc, i) > Gain(acc, j)
                                                 \/ Gain(acc, i) = Gain(acc, j) /\ i <= j
        Stop(acc)    == \/ Left(acc) = {}
                        \/ Gain(acc, Best(acc)) = 0 \/ Gain(acc, Best(acc)) < floor
        Round(acc)   == IF Stop(acc) THEN acc
                        ELSE [covered |-> acc.covered \cup sets[Best(acc)],
                              chosen  |-> Append(acc.chosen, Best(acc))]
        after[n \in 0..accept] == IF n = 0 THEN [covered |-> {}, chosen |-> <<>>]
                                  ELSE Round(after[n - 1])
    IN  after[accept].chosen

\* What a file adds to the census and to everything folded so far.
Novel(f, folded) == Cardinality(EndpointsOf[f] \ (census \cup folded))
Folded(f, folded) == folded \cup (EndpointsOf[f] \ census)

\* Mutant of Pick: an accepted file does not join the union.
PickUnfolded(acc, f, r) ==
    IF f \in KnownUrls \/ Novel(f, acc.union) < MinNovel THEN acc
    ELSE [acc EXCEPT !.picks = Append(@, [file |-> f, repo |-> r, novel |-> Novel(f, acc.union)])]
Pick(acc, f, r) ==
    IF f \in KnownUrls \/ Novel(f, acc.union) < MinNovel THEN acc
    ELSE [union |-> Folded(f, acc.union),
          picks |-> Append(acc.picks, [file |-> f, repo |-> r, novel |-> Novel(f, acc.union)])]

SelectRepo(acc, r) ==
    LET alive == {i \in DOMAIN listed[r] : outcome[listed[r][i]] = "live"}
        known == {listed[r][i] : i \in alive} \cap KnownUrls
        sets  == [i \in alive |-> EndpointsOf[listed[r][i]]]
        order == Cover(sets, CoverFloor(sets), AcceptPerRepo)
        taken[n \in 0..Len(order)] ==
            IF n = 0 THEN [acc EXCEPT !.union = @ \cup (FoldOf(known) \ census)]
            ELSE Pick(taken[n - 1], listed[r][order[n]], r)
    IN  taken[Len(order)]

\* The repositories in the order of admission.
Chosen ==
    LET after[k \in 0..Len(admitted)] ==
            IF k = 0 THEN [union |-> {}, picks |-> <<>>]
            ELSE SelectRepo(after[k - 1], admitted[k])
    IN  after[Len(admitted)]

SelectFiles ==
    /\ step = "select"
    /\ union' = Chosen.union /\ picks' = Chosen.picks
    /\ step' = "offer"
    /\ UNCHANGED <<ended, tries, census, codeUsed, repoUsed, found, proposed, todo, seen,
                   remaining, admitted, turn, listed, waiting, inflight, outcome, memory, asks,
                   live, faults>>

--------------------------------------------------------------------------
(* The result: the cursor moves on whatever came of the pass; the richest  *)
(* files are admitted while there is room.                                 *)

Advance(cur, used, size) == IF size = 0 THEN cur ELSE (cur + used) % size

Richer(p, q) == \/ p.novel > q.novel
                \/ p.novel = q.novel /\ PathRank[p.file] < PathRank[q.file]
Offered  == {i \in DOMAIN picks : live[picks[i].file] = None}
Admitted ==
    {picks[i] : i \in {i \in Offered :
                          Cardinality({j \in Offered : Richer(picks[j], picks[i])}) < Room}}

\* Mutant of RecordCursor: a pass that was cut short is repeated.
RecordCursorWhole == IF ended THEN cursor
    ELSE [code |-> Advance(cursor.code, codeUsed, CodeLen),
          repo |-> Advance(cursor.repo, repoUsed, RepoLen)]
RecordCursor == [code |-> Advance(cursor.code, codeUsed, CodeLen),
                 repo |-> Advance(cursor.repo, repoUsed, RepoLen)]

AdmitGithub ==
    /\ step = "offer"
    /\ cursor' = RecordCursor
    /\ live' = [u \in Urls |-> IF \E p \in Admitted : p.file = u
                               THEN (CHOOSE p \in Admitted : p.file = u).repo ELSE live[u]]
    /\ repos' = [r \in Repos |-> IF \E p \in Admitted : p.repo = r THEN cycle ELSE repos[r]]
    /\ step' = "done"
    /\ UNCHANGED <<ended, tries, census, work, censusFile, managed, asks, faults>>

\* Half of what is left of the cycle's time has passed, or the cycle's own end.
EndContext ==
    /\ step \notin {"off", "done"} /\ ~ended
    /\ ended' = TRUE /\ Fault
    /\ UNCHANGED <<step, tries, census, work, memory, asks, live>>

PassNext ==
    \/ CapReached \/ BeginPass \/ ReuseCensus \/ BuildCensus \/ KeepStale
    \/ Again \/ AskCode \/ WalkCode \/ AskRepo \/ WalkRepo
    \/ Consider \/ FetchMeta \/ EndAdmit \/ AskTree \/ WalkTrees
    \/ Dispatch \/ ProbeFile \/ EndProbe \/ SelectFiles \/ AdmitGithub \/ EndContext

\* What the state keeps of the repositories.
PrunedRepos == Recent(Fresh(repos), RepoRank, MaxProductiveRepos)

=============================================================================
