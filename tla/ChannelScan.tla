---------------------------- MODULE ChannelScan ----------------------------
(***************************************************************************)
(* Crawler.scan: the breadth-first walk of the Telegram repost graph.  A   *)
(* ref names a chat and maybe a forum topic; a channel is read through its *)
(* listing, a forum group, whose listing carries no message, through the   *)
(* discussion embed of a topic.  A discovered group that came without a    *)
(* topic is swept once over the low topic ids (the ladder) and its hits    *)
(* are seeds of later cycles.                                              *)
(*                                                                         *)
(* One goroutine runs the scan, one request at a time.  A request may      *)
(* fail.  The order of the seeds is that of a Go map: any.  A page is the  *)
(* URLs and the refs it carries, whether it wraps any message and whether  *)
(* it carries a cursor to an older page.  Left out: the inline nodes, the  *)
(* post ids, the reject log, the counters, and the URLs judged not live,   *)
(* which CrawlCycle remembers.                                             *)
(***************************************************************************)
EXTENDS CrawlWorld

CONSTANTS
    Slugs, Topics,       \* chats and topic ids; topic 0 is none
    Listing,             \* chat -> the pages of its t.me/s listing, newest first
    Embed,               \* ref with a topic -> the page of its discussion embed
    Alive,               \* URLs that classify as a live subscription
    Configured,          \* CRAWL_CHANNELS and the channels file
    Pages, DiscoveredPages, MaxDepth, MaxDiscovered,
    LadderGroups,        \* groups swept in a cycle
    RefRank, MaxProductive

Refs      == [slug : Slugs, topic : Topics \cup {0}]
Bare(s)   == [slug |-> s, topic |-> 0]
InForum   == {r \in Refs : r.topic # 0}
Node      == [ref : Refs, depth : 0..(MaxDepth + 1), configured : BOOLEAN, carved : BOOLEAN]
PageShape == [wrap : BOOLEAN, cursor : BOOLEAN, urls : SUBSET Urls, refs : Seq(Refs)]

ASSUME ScanAssumption ==
    /\ Slugs \subseteq Origins /\ Topics \subseteq Nat \ {0} /\ IsFiniteSet(Topics)
    /\ Slugs # {} /\ Topics # {}
    /\ Configured \subseteq Refs /\ Alive \subseteq Urls
    /\ DOMAIN Listing = Slugs /\ DOMAIN Embed = InForum
    /\ \A s \in Slugs : Listing[s] \in Seq(PageShape)
    /\ \A r \in InForum : Embed[r] \in PageShape
    /\ {MaxDepth, MaxDiscovered, LadderGroups, MaxProductive} \subseteq Nat
    /\ {Pages, DiscoveredPages} \subseteq Nat \ {0}
    /\ RefRank \in [Refs -> Nat] /\ \A r, q \in Refs : RefRank[r] = RefRank[q] => r = q

VARIABLES
    at,                  \* program point of the scan
    roots, queue,        \* nodes to scan: the seeds, then the discovered ones
    visited, topicsSeen, discovered,
    node, pages, viaTopic, failed,     \* the node being scanned and what came back
    rung, groups,        \* the ladder: the id to probe, groups left this cycle
    productive, ladders, \* memory: cycle a ref last yielded, cycle a group was swept
    asked, missed        \* history: embed requests this cycle; probes of a sweep that failed

seeding  == <<roots, queue>>
admission == <<visited, topicsSeen, discovered>>
answer   == <<pages, viaTopic, failed>>
climbing == <<rung, groups, ladders>>
scanVars == <<at, seeding, admission, node, answer, climbing, productive, asked, missed>>

NoNode == [ref |-> Bare(CHOOSE s \in Slugs : TRUE), depth |-> 0, configured |-> FALSE,
           carved |-> FALSE]

ScanOK ==
    /\ at \in {"off", "next", "listing", "topic", "deadend", "climb", "harvest", "done"}
    /\ roots \subseteq Node /\ queue \in Seq(Node) /\ node \in Node
    /\ visited \subseteq Slugs /\ topicsSeen \subseteq Refs
    /\ discovered \in 0..MaxDiscovered /\ groups \in 0..LadderGroups
    /\ pages \in Seq(PageShape) /\ {viaTopic, failed} \subseteq BOOLEAN
    /\ rung \in Topics \cup {0}
    /\ productive \in [Refs -> 0..MaxCycles] /\ ladders \in [Slugs -> 0..MaxCycles]
    /\ asked \in [InForum -> Nat] /\ missed \subseteq InForum

Idle == /\ at = "off" /\ roots = {} /\ queue = <<>> /\ visited = {} /\ topicsSeen = {}
        /\ discovered = 0 /\ node = NoNode /\ pages = <<>> /\ viaTopic = FALSE /\ failed = FALSE
        /\ rung = 0 /\ groups = 0 /\ asked = [r \in InForum |-> 0]

ScanInit == /\ Idle /\ missed = {}
            /\ productive = [r \in Refs |-> 0] /\ ladders = [s \in Slugs |-> 0]

--------------------------------------------------------------------------
(* Seeds. *)

Remembered == {r \in Refs : productive[r] # 0}

\* One seed per full ref; a bare ref gives way to the topics of its chat, and
\* hands them the page budget of a configured one.
Seeds ==
    LET named  == Configured \cup Remembered
        bare(r) == Bare(r.slug)
        absorbed == {r \in named : r.topic = 0 /\ \E q \in named : q.slug = r.slug /\ q.topic # 0}
    IN  {[ref |-> r, depth |-> 0, carved |-> FALSE,
          configured |-> r \in Configured \/ bare(r) \in Configured] : r \in named \ absorbed}

BeginScan ==
    /\ at = "off"
    /\ at' = "next" /\ roots' = Seeds /\ groups' = LadderGroups
    /\ live' = [u \in Urls |-> None]
    /\ UNCHANGED <<queue, admission, node, answer, rung, ladders, productive, asked, missed,
                   faults>>

EndScan ==
    /\ at = "next" /\ roots = {} /\ queue = <<>>
    /\ at' = "done"
    /\ UNCHANGED <<seeding, admission, node, answer, climbing, productive, asked, missed, live,
                   faults>>

--------------------------------------------------------------------------
(* Admission. *)

\* A seed and a carved child are known by the full ref, any other by its chat.
ByRef(n) == n.carved \/ n.depth = 0
Known(n) == IF ByRef(n) THEN n.ref \in topicsSeen ELSE n.ref.slug \in visited
\* Mutant of Admissible: the cap on discovered nodes is off by one.
AdmissibleOver(n) == ~Known(n) /\ (n.depth > 0 => discovered <= MaxDiscovered)
Admissible(n) == ~Known(n) /\ (n.depth > 0 => discovered < MaxDiscovered)

\* Mutant of MarkSeen: a cross-channel discovery leaves no mark under its ref.
MarkSeenByKey(n) == IF ByRef(n) THEN topicsSeen \cup {n.ref} ELSE topicsSeen

MarkSeen(n) == topicsSeen \cup {n.ref}

Pop(n) == \/ n \in roots /\ roots' = roots \ {n} /\ UNCHANGED queue
          \/ /\ roots = {} /\ queue # <<>> /\ n = Head(queue)
             /\ queue' = Tail(queue) /\ UNCHANGED roots

Waiting == IF roots # {} THEN roots ELSE IF queue # <<>> THEN {Head(queue)} ELSE {}

Refuse ==
    \E n \in Waiting :
       /\ at = "next" /\ Pop(n) /\ ~Admissible(n)
       /\ UNCHANGED <<at, admission, node, answer, climbing, productive, asked, missed, live,
                      faults>>

Admit ==
    \E n \in Waiting :
       /\ at = "next" /\ Pop(n) /\ Admissible(n)
       /\ at' = "listing" /\ node' = n
       /\ visited' = visited \cup {n.ref.slug} /\ topicsSeen' = MarkSeen(n)
       /\ discovered' = IF n.depth > 0 THEN discovered + 1 ELSE discovered
       /\ UNCHANGED <<answer, climbing, productive, asked, missed, live, faults>>

--------------------------------------------------------------------------
(* Reading one chat. *)

Budget(n) == IF n.configured THEN Pages ELSE Least(Pages, DiscoveredPages)

\* The pages a walk reads when no request fails: it stops at the budget and at
\* a page without a cursor.
Walk(n) ==
    LET all == Listing[n.ref.slug]
        goes(i) == \A j \in 1..(i - 1) : all[j].cursor
        reach == {i \in DOMAIN all : i <= Budget(n) /\ goes(i)}
    IN  SubSeq(all, 1, Cardinality(reach))

HasMessages(ps) == ps # <<>> /\ ps[1].wrap

NeedsTopic(ps, lost) == ~lost /\ node.ref.topic # 0 /\ ~HasMessages(ps)

\* A discovered group whose listing was read, and whose ref names no topic.
DeadEnd(ps, lost) == ~lost /\ node.depth > 0 /\ node.ref.topic = 0 /\ ~HasMessages(ps)

ReadListing ==
    /\ at = "listing"
    /\ \/ Fine  /\ pages' = Walk(node) /\ failed' = FALSE
       \/ Fault /\ failed' = TRUE
                /\ \E k \in 0..Len(Walk(node)) :
                      (k = 0 \/ k < Len(Walk(node))) /\ pages' = SubSeq(Walk(node), 1, k)
    /\ at' = IF NeedsTopic(pages', failed') THEN "topic"
             ELSE IF DeadEnd(pages', failed') THEN "deadend" ELSE "harvest"
    /\ UNCHANGED <<seeding, admission, node, viaTopic, climbing, productive, asked, missed, live>>

\* What the discussion embed yields: nothing when it wraps no message.
Discussion(r) == IF Embed[r].wrap THEN <<Embed[r]>> ELSE <<>>
Ask(r) == asked' = [asked EXCEPT ![r] = @ + 1]

ReadTopic ==
    /\ at = "topic"
    /\ Ask(node.ref)
    /\ \/ Fine  /\ pages' = Discussion(node.ref)
       \/ Fault /\ pages' = <<>>
    /\ viaTopic' = TRUE /\ at' = "harvest"
    /\ UNCHANGED <<seeding, admission, node, failed, climbing, productive, missed, live>>

--------------------------------------------------------------------------
(* The ladder. *)

FirstRung == CHOOSE i \in Topics : \A j \in Topics : i <= j
Above(i) == {j \in Topics : j > i}
RungAfter(i) == IF Above(i) = {} THEN 0
                ELSE CHOOSE j \in Above(i) : \A k \in Above(i) : j <= k

LeaveDeadEnd ==
    /\ at = "deadend"
    /\ ladders[node.ref.slug] # 0 \/ groups = 0
    /\ at' = "harvest"
    /\ UNCHANGED <<seeding, admission, node, answer, climbing, productive, asked, missed, live,
                   faults>>

BeginClimb ==
    /\ at = "deadend"
    /\ ladders[node.ref.slug] = 0 /\ groups > 0
    /\ at' = "climb" /\ rung' = FirstRung /\ groups' = groups - 1
    /\ ladders' = [ladders EXCEPT ![node.ref.slug] = cycle]
    /\ UNCHANGED <<seeding, admission, node, answer, productive, asked, missed, live, faults>>

Carries(ps) == \E i \in DOMAIN ps : ps[i].urls # {}

\* Mutant of Record: a hit is remembered by its chat alone.
RecordBare(r) == productive' = [productive EXCEPT ![Bare(r.slug)] = cycle]
Record(r) == productive' = [productive EXCEPT ![r] = cycle]

\* One probe: a hit is remembered as a seed, not harvested.
Climb ==
    LET r == [slug |-> node.ref.slug, topic |-> rung] IN
    /\ at = "climb"
    /\ Ask(r)
    /\ \/ /\ Fine /\ UNCHANGED missed
          /\ IF Carries(Discussion(r)) THEN Record(r) ELSE UNCHANGED productive
       \/ /\ Fault /\ missed' = missed \cup {r} /\ UNCHANGED productive
    /\ rung' = RungAfter(rung)
    /\ at' = IF RungAfter(rung) = 0 THEN "harvest" ELSE "climb"
    /\ UNCHANGED <<seeding, admission, node, answer, groups, ladders, live>>

--------------------------------------------------------------------------
(* Harvest, verdicts and the next hop. *)

Candidates == UNION {pages[i].urls : i \in DOMAIN pages}

\* The places of the pages that name a ref for the first time.
RefAt(p) == pages[p[1]].refs[p[2]]
ExtractRefs ==
    LET all == Places([i \in DOMAIN pages |-> pages[i].refs])
    IN  {p \in all : \A q \in all : <<q, p>> \in Reading(all) => RefAt(q) # RefAt(p)}

\* Another chat by any ref; the scanned one only by another of its topics, and
\* only when it was read through one.
ChildRefs ==
    LET same(r)   == r.slug = node.ref.slug
        follow(r) == same(r) => viaTopic /\ r.topic \notin {0, node.ref.topic}
        followed  == {p \in ExtractRefs : follow(RefAt(p))}
        kids      == Sorted(followed, Reading(followed))
    IN  [i \in DOMAIN kids |-> [ref |-> RefAt(kids[i]), depth |-> node.depth + 1,
                                configured |-> FALSE, carved |-> same(RefAt(kids[i]))]]

Expands(found) == node.depth < MaxDepth /\ (node.depth > 0 => found # {})

\* The first chat to show a URL keeps the credit.
Credited(found) == [u \in Urls |-> IF u \in found /\ live[u] = None
                                   THEN node.ref.slug ELSE live[u]]

Harvest ==
    /\ at = "harvest"
    /\ \E found \in SUBSET (Candidates \cap Alive) :
          /\ IF found = Candidates \cap Alive THEN Fine ELSE Fault
          /\ live' = Credited(found)
          /\ IF found = {} THEN UNCHANGED productive
             ELSE Record(IF viaTopic THEN node.ref ELSE Bare(node.ref.slug))
          /\ queue' = IF pages # <<>> /\ Expands(found) THEN queue \o ChildRefs ELSE queue
    /\ at' = "next" /\ pages' = <<>> /\ viaTopic' = FALSE /\ failed' = FALSE /\ node' = NoNode
    /\ UNCHANGED <<roots, admission, climbing, asked, missed>>

ScanNext == \/ BeginScan \/ EndScan \/ Refuse \/ Admit
            \/ ReadListing \/ ReadTopic \/ LeaveDeadEnd \/ BeginClimb \/ Climb \/ Harvest

\* What the state keeps when the scan is over: what yielded, or was swept,
\* lately, and no more refs than its cap.
PrunedRefs    == Recent(Fresh(productive), RefRank, MaxProductive)
PrunedLadders == Fresh(ladders)

=============================================================================
