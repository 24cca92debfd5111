----------------------------- MODULE SourcePass -----------------------------
(***************************************************************************)
(* The first half of a cycle: Checker.fetchSources runs every source       *)
(* through Processor.FilterNodes, several at a time, and stable.Merge      *)
(* makes one pool of what they deliver.                                    *)
(*                                                                         *)
(* A source is its position in the config.  Its request shares with the    *)
(* others the cache of resolver.Resolver, which outlives the cycle, and    *)
(* the databases its filters read, which are refreshed behind it.  A body  *)
(* is the sequence of its nodes: a line that is no node is skipped.  A     *)
(* server is a name or an address, and the spellings of one server:port    *)
(* have one key.                                                           *)
(***************************************************************************)
EXTENDS Naturals, Sequences, FiniteSetsExt

CONSTANTS
    N,                 \* the sources are 1..N
    Inline,            \* those whose body is in the config
    Nodes,
    Servers, ServerOf, \* the server of a node
    Keys, KeyOf,       \* its server:port in lower case
    Placeholders,      \* the nodes PlaceholderNode names
    Unlabelled,        \* those that cannot be parsed again or relabelled
    Names,             \* the servers that need DNS
    Failing,           \* the names DNS may have no address for
    Addrs, NoAddr,
    Literal,           \* the address a server is; NoAddr when it is not IPv4
    Answers,           \* what DNS may answer for a name
    Blocklist,         \* the servers the geoblock store holds
    Filters,           \* the IP filters in config order
    DeniedBy,          \* of each version of the databases, the addresses denied
    AllowedBy,         \* of each version of the allow-list, those in it
    AsnDenied, AsnForeign,   \* addresses by the name and country of their AS
    CachesAnswers, CachesFailures,   \* cacheTTL > 0, negativeTTL > 0
    Miss,              \* no entry
    Concurrency,       \* fetchConcurrency
    MaxNodes,          \* maxSubscriptionNodes
    BodiesOf           \* bound: the bodies each source may answer with

Sources == 1..N

\* What a cache may know of a name: nothing, that it has no address, or some.
Known == {Miss, <<>>} \cup UNION {Answers[h] : h \in Names}

ASSUME PassAssumption ==
    /\ N \in Nat /\ Inline \subseteq Sources
    /\ ServerOf \in [Nodes -> Servers] /\ KeyOf \in [Nodes -> Keys]
    /\ Names \subseteq Servers /\ Failing \subseteq Names
    /\ AsnDenied \cup AsnForeign \subseteq Addrs
    /\ Filters \in Seq({"country", "asnCountry", "asn", "cidr"})
    /\ NoAddr \notin Addrs /\ Literal \in [Servers \ Names -> Addrs \cup {NoAddr}]
    /\ \A h \in Names : \A a \in Answers[h] : a \in Seq(Addrs) /\ a # <<>>
    /\ Miss # <<>> /\ \A h \in Names : Miss \notin Answers[h]
    /\ DeniedBy \in Seq(SUBSET Addrs) /\ DeniedBy # <<>>
    /\ AllowedBy \in Seq(SUBSET Addrs) /\ AllowedBy # <<>>
    /\ \A s \in Sources : \A b \in BodiesOf[s] : b \in Seq(Nodes)

VARIABLES
    phase,       \* of the cycle: "fetch" or "merged"
    cancelled,   \* its context is done
    spawned,     \* the sources whose goroutine has been started are 1..spawned
    pc,          \* program point of the request of a source
    expired,     \* its SourceTimeout has passed
    chain,       \* the databases it judges countries by, a version
    body,        \* what it fetched
    judged,      \* its nodes so far, each with what became of it
    memo,        \* pctx.Resolved
    cache,       \* Resolver.cache
    databases, allowlist,    \* the versions in force
    entries      \* what Merge returned

requestVars == <<pc, expired, chain, body, judged, memo>>
tableVars   == <<databases, allowlist>>
vars == <<phase, cancelled, spawned, requestVars, cache, tableVars, entries>>

Whys == {"kept", "blocked", "ipv6", "dns", "geo", "asn", "cidr"}

\* What becomes of a node.
Verdicts == [node : Nodes, why : Whys, ip : Addrs \cup {NoAddr}]

\* (What entries holds is said by FirstWins.)
TypeOK ==
    /\ phase \in {"fetch", "merged"} /\ cancelled \in BOOLEAN /\ spawned \in 0..N
    /\ pc \in [Sources -> {"waiting", "load", "parse", "lookup", "delivered", "failed"}]
    /\ expired \in [Sources -> BOOLEAN]
    /\ chain \in [Sources -> 1..Len(DeniedBy)]
    /\ body \in [Sources -> Seq(Nodes)]
    /\ judged \in [Sources -> Seq(Verdicts)]
    /\ memo \in [Sources -> [Names -> Known]]
    /\ cache \in [Names -> Known]
    /\ databases \in 1..Len(DeniedBy) /\ allowlist \in 1..Len(AllowedBy)

NoMemo == [h \in Names |-> Miss]

Each(x) == [s \in Sources |-> x]

Init ==
    /\ phase = "fetch" /\ cancelled = FALSE /\ spawned = 0
    /\ pc = Each("waiting") /\ expired = Each(FALSE) /\ chain = Each(1)
    /\ body = Each(<<>>) /\ judged = Each(<<>>) /\ memo = Each(NoMemo)
    /\ cache = NoMemo /\ databases = 1 /\ allowlist = 1 /\ entries = <<>>

Running(s) == pc[s] \in {"load", "parse", "lookup"}

Ended(s) == cancelled \/ expired[s]

-----------------------------------------------------------------------------
(* The slots, and the fetch of a body.                                     *)

\* The slots of sem that are taken.
Busy == {s \in Sources : Running(s)}

\* The next source in config order gets a slot; its request takes the
\* databases that are in force as it starts.
Spawn ==
    /\ phase = "fetch" /\ spawned < N /\ Cardinality(Busy) < Concurrency
    /\ spawned' = spawned + 1
    /\ pc' = [pc EXCEPT ![spawned + 1] = "load"]
    /\ chain' = [chain EXCEPT ![spawned + 1] = databases]
    /\ UNCHANGED <<phase, cancelled, expired, body, judged, memo, cache, tableVars, entries>>

\* The body arrives; one with too many nodes is refused before any lookup.
Load(s) ==
    /\ pc[s] = "load" /\ (s \in Inline \/ ~Ended(s))
    /\ \E b \in BodiesOf[s] :
          IF Len(b) > MaxNodes
          THEN pc' = [pc EXCEPT ![s] = "failed"] /\ UNCHANGED body
          ELSE /\ pc' = [pc EXCEPT ![s] = "parse"]
               /\ body' = [body EXCEPT ![s] = b]
    /\ UNCHANGED <<phase, cancelled, spawned, expired, chain, judged, memo, cache,
                   tableVars, entries>>

\* The fetch fails, or is cut short by fetch.timeout or the context.
LoadFails(s) ==
    /\ pc[s] = "load" /\ s \notin Inline
    /\ pc' = [pc EXCEPT ![s] = "failed"]
    /\ UNCHANGED <<phase, cancelled, spawned, expired, chain, body, judged, memo, cache,
                   tableVars, entries>>

-----------------------------------------------------------------------------
(* The IP filters.                                                         *)

AsnFilters == {i \in 1..Len(Filters) : Filters[i] \in {"asn", "asnCountry"}}

\* Whether the i-th filter lets an address pass; Cymru does not answer for
\* the addresses in deaf[i], which pass.
Passes(i, a, denied, allowed, deaf) ==
    CASE Filters[i] = "country" -> a \notin denied
      [] Filters[i] = "asnCountry" -> a \in deaf[i] \/ a \notin AsnForeign
      [] Filters[i] = "asn" -> a \in deaf[i] \/ a \notin AsnDenied \cup AsnForeign
      [] Filters[i] = "cidr" -> a \in allowed

\* How a node is booked that loses its last addresses to the i-th filter.
Reason(i, last, deaf) ==
    CASE Filters[i] \in {"country", "asnCountry"} -> "geo"
      [] Filters[i] = "asn" -> IF last \cap (AsnDenied \ deaf[i]) # {} THEN "asn" ELSE "geo"
      [] Filters[i] = "cidr" -> "cidr"

\* What the filters make of a node with these addresses: it is kept at the
\* first one that passes them all, or dropped by the one that leaves none.
Verdict(ips, denied, allowed, deaf) ==
    LET left(i) == {k \in DOMAIN ips :
                       \A j \in 1..i : Passes(j, ips[k], denied, allowed, deaf)}
        by == Min({i \in 1..Len(Filters) : left(i) = {}})
    IN IF left(Len(Filters)) # {} THEN [why |-> "kept", ip |-> ips[Min(left(Len(Filters)))]]
       ELSE [why |-> Reason(by, {ips[k] : k \in left(by - 1)}, deaf), ip |-> NoAddr]

Dropped(why) == [why |-> why, ip |-> NoAddr]

-----------------------------------------------------------------------------
(* The nodes of a body, one at a time.                                     *)

Current(s) == body[s][Len(judged[s]) + 1]

Host(s) == ServerOf[Current(s)]

More(s) == Len(judged[s]) < Len(body[s])

Book(s, v) ==
    judged' = [judged EXCEPT ![s] = Append(@, [node |-> Current(s), why |-> v.why, ip |-> v.ip])]

\* Mutant of Denied: the filter follows the refresh within a request.
DeniedNow(s) == DeniedBy[databases]

\* The country filter judges by the databases the request started with.
Denied(s) == DeniedBy[chain[s]]

\* The node is booked by the addresses of its server; the allow-list is the
\* one in force now.
BookAt(s, ips) ==
    IF ips = <<>> THEN Book(s, Dropped("dns"))
    ELSE \E deaf \in [AsnFilters -> SUBSET (AsnDenied \cup AsnForeign)] :
            Book(s, Verdict(ips, Denied(s), AllowedBy[allowlist], deaf))

\* processNode, up to a lookup or without one.
Judge(s) ==
    /\ pc[s] = "parse" /\ ~Ended(s) /\ More(s)
    /\ \/ /\ Host(s) \in Blocklist
          /\ Book(s, Dropped("blocked")) /\ UNCHANGED <<pc, memo>>
       \/ /\ Host(s) \in Servers \ (Blocklist \cup Names)
          /\ IF Literal[Host(s)] = NoAddr THEN Book(s, Dropped("ipv6"))
             ELSE BookAt(s, <<Literal[Host(s)]>>)
          /\ UNCHANGED <<pc, memo>>
       \/ /\ Host(s) \in Names \ Blocklist
          /\ memo[s][Host(s)] # Miss
          /\ BookAt(s, memo[s][Host(s)]) /\ UNCHANGED <<pc, memo>>
       \/ /\ Host(s) \in Names \ Blocklist
          /\ memo[s][Host(s)] = Miss /\ cache[Host(s)] # Miss
          /\ memo' = [memo EXCEPT ![s][Host(s)] = cache[Host(s)]]
          /\ BookAt(s, cache[Host(s)]) /\ UNCHANGED pc
       \/ /\ Host(s) \in Names \ Blocklist
          /\ memo[s][Host(s)] = Miss /\ cache[Host(s)] = Miss
          /\ pc' = [pc EXCEPT ![s] = "lookup"] /\ UNCHANGED <<judged, memo>>
    /\ UNCHANGED <<phase, cancelled, spawned, expired, chain, body, cache, tableVars, entries>>

\* The node is booked, and the request goes on, with what the lookup found.
Resolved(s, ips) ==
    /\ memo' = [memo EXCEPT ![s][Host(s)] = ips]
    /\ BookAt(s, ips)
    /\ pc' = [pc EXCEPT ![s] = "parse"]
    /\ UNCHANGED <<phase, cancelled, spawned, expired, chain, body, tableVars, entries>>

\* storeCache: a zero TTL turns this half of the cache off.
Store(h, ips) ==
    cache' = IF (IF ips = <<>> THEN CachesFailures ELSE CachesAnswers)
             THEN [cache EXCEPT ![h] = ips]
             ELSE cache

\* DNS answers, with an address or, for some names, without.
LookupAnswered(s) ==
    /\ pc[s] = "lookup"
    /\ \E ips \in Answers[Host(s)] \cup (IF Host(s) \in Failing THEN {<<>>} ELSE {}) :
          Store(Host(s), ips) /\ Resolved(s, ips)

\* Mutant of LookupFailed: the end of the caller passes for an answer.
LookupFailedStored(s) ==
    /\ pc[s] = "lookup" /\ (Ended(s) \/ Host(s) \in Failing)
    /\ Store(Host(s), <<>>)
    /\ Resolved(s, <<>>)

\* The lookup fails.  That the caller's context has ended says nothing about
\* the name.
LookupFailed(s) ==
    /\ pc[s] = "lookup" /\ (Ended(s) \/ Host(s) \in Failing)
    /\ IF Ended(s) THEN UNCHANGED cache ELSE Store(Host(s), <<>>)
    /\ Resolved(s, <<>>)

\* Mutant of Deliver: the nodes judged so far pass for the body.
DeliverCut(s) ==
    /\ pc[s] = "parse" /\ (Ended(s) \/ ~More(s)) /\ judged[s] # <<>>
    /\ pc' = [pc EXCEPT ![s] = "delivered"]
    /\ UNCHANGED <<phase, cancelled, spawned, expired, chain, body, judged, memo, cache,
                   tableVars, entries>>

\* All nodes are judged and the context is still alive.
Deliver(s) ==
    /\ pc[s] = "parse" /\ ~Ended(s) /\ ~More(s) /\ body[s] # <<>>
    /\ pc' = [pc EXCEPT ![s] = "delivered"]
    /\ UNCHANGED <<phase, cancelled, spawned, expired, chain, body, judged, memo, cache,
                   tableVars, entries>>

\* The context has ended, or the body holds no node: an error either way.
Refuse(s) ==
    /\ pc[s] = "parse" /\ (Ended(s) \/ body[s] = <<>>)
    /\ pc' = [pc EXCEPT ![s] = "failed"]
    /\ UNCHANGED <<phase, cancelled, spawned, expired, chain, body, judged, memo, cache,
                   tableVars, entries>>

-----------------------------------------------------------------------------
(* Merge.                                                                  *)

\* The nodes of a source that count, by their place: the source and the index.
\* (Those it dropped are passed over when they are merged.)
SourceBody(s) == IF pc[s] = "delivered" THEN [k \in DOMAIN judged[s] |-> <<s, k>>] ELSE <<>>

At(p) == judged[p[1]][p[2]]

KeyAt(p) == KeyOf[At(p).node]

\* The places in config order, whichever source finished first.
Pool ==
    LET upTo[s \in 0..N] == IF s = 0 THEN <<>> ELSE upTo[s - 1] \o SourceBody(s)
    IN upTo[N]

\* The entry a node becomes; NNN counts the entries of its source.
Entry(es, p) ==
    [source |-> p[1],
     number |-> Cardinality({i \in DOMAIN es : es[i].source = p[1]}) + 1,
     addr |-> KeyAt(p), node |-> At(p).node, ip |-> At(p).ip]

\* Mutant of Admits: a stand-in shadows the nodes behind it.
AdmitsThenLooks(pool, k, es) ==
    /\ At(pool[k]).why = "kept"
    /\ \A i \in 1..k - 1 : At(pool[i]).why = "kept" => KeyAt(pool[i]) # KeyAt(pool[k])
    /\ At(pool[k]).node \notin Placeholders \cup Unlabelled

\* The k-th node becomes an entry: it was kept, it can be parsed and relabelled,
\* it is no stand-in, and only entries occupy their server:port.
Admits(pool, k, es) ==
    /\ At(pool[k]).why = "kept"
    /\ At(pool[k]).node \notin Placeholders
    /\ \A i \in DOMAIN es : es[i].addr # KeyAt(pool[k])
    /\ At(pool[k]).node \notin Unlabelled

Merged(pool) ==
    LET es[k \in 0..Len(pool)] ==
            IF k = 0 THEN <<>>
            ELSE IF Admits(pool, k, es[k - 1]) THEN Append(es[k - 1], Entry(es[k - 1], pool[k]))
            ELSE es[k - 1]
    IN es[Len(pool)]

\* All requests have returned.
Merge ==
    /\ phase = "fetch" /\ spawned = N /\ \A s \in Sources : pc[s] \in {"delivered", "failed"}
    /\ phase' = "merged" /\ entries' = Merged(Pool)
    /\ UNCHANGED <<cancelled, spawned, requestVars, cache, tableVars>>

\* The next cycle; the cache is still the old one.
NextCycle ==
    /\ phase = "merged" /\ ~cancelled
    /\ phase' = "fetch" /\ entries' = <<>> /\ spawned' = 0
    /\ pc' = Each("waiting") /\ expired' = Each(FALSE) /\ chain' = Each(1)
    /\ body' = Each(<<>>) /\ judged' = Each(<<>>) /\ memo' = Each(NoMemo)
    /\ UNCHANGED <<cancelled, cache, tableVars>>

\* Run returns: nothing more is merged.
Stopped == phase = "merged" /\ cancelled /\ UNCHANGED vars

-----------------------------------------------------------------------------
(* The environment.                                                        *)

\* The SourceTimeout of a request passes.
Expire(s) ==
    /\ Running(s) /\ ~expired[s]
    /\ expired' = [expired EXCEPT ![s] = TRUE]
    /\ UNCHANGED <<phase, cancelled, spawned, pc, chain, body, judged, memo, cache,
                   tableVars, entries>>

\* The worker is stopped.
Cancel ==
    /\ ~cancelled /\ cancelled' = TRUE
    /\ UNCHANGED <<phase, spawned, requestVars, cache, tableVars, entries>>

\* An entry expires, or is evicted to make room.
EntryGoes(h) ==
    /\ cache[h] # Miss /\ cache' = [cache EXCEPT ![h] = Miss]
    /\ UNCHANGED <<phase, cancelled, spawned, requestVars, tableVars, entries>>

\* A refresh installs the next version.
Refresh ==
    /\ \/ databases < Len(DeniedBy) /\ databases' = databases + 1 /\ UNCHANGED allowlist
       \/ allowlist < Len(AllowedBy) /\ allowlist' = allowlist + 1 /\ UNCHANGED databases
    /\ UNCHANGED <<phase, cancelled, spawned, requestVars, cache, entries>>

\* A step of the goroutine of a source.
Request(s) ==
    \/ Load(s) \/ LoadFails(s) \/ Judge(s) \/ LookupAnswered(s) \/ LookupFailed(s)
    \/ Deliver(s) \/ Refuse(s)

Next ==
    \/ Spawn \/ Merge \/ NextCycle \/ Stopped \/ Cancel \/ Refresh
    \/ \E s \in Sources : Request(s) \/ Expire(s)
    \/ \E h \in Names : EntryGoes(h)

Spec == Init /\ [][Next]_vars

-----------------------------------------------------------------------------
(* Properties.                                                             *)

(***************************************************************************)
(* A source that counts as delivered had every node of its body judged,    *)
(* once and in order: however late its context ended, a list cut short is  *)
(* never taken for the whole.                                              *)
(***************************************************************************)
DeliveredWhole ==
    \A s \in Sources : pc[s] = "delivered" =>
        /\ Len(judged[s]) = Len(body[s])
        /\ \A k \in DOMAIN judged[s] : judged[s][k].node = body[s][k]

(***************************************************************************)
(* A delivered source loses a node for want of an address only when DNS    *)
(* has none for it: the deadline of another source, or of this one in an   *)
(* earlier cycle, never passes for an answer through the shared cache.     *)
(***************************************************************************)
NoForeignDrop ==
    \A s \in Sources : pc[s] = "delivered" =>
        \A k \in DOMAIN judged[s] :
            judged[s][k].why = "dns" => ServerOf[judged[s][k].node] \in Failing

(***************************************************************************)
(* One request judges countries by one version of the databases, though    *)
(* they are refreshed while it runs: of two nodes with the same address,   *)
(* the country filter does not keep one and drop the other.                *)
(***************************************************************************)
OneVerdictPerAddress ==
    \A s \in Sources : pc[s] = "delivered" =>
        \A j, k \in DOMAIN judged[s] :
            LET h == ServerOf[judged[s][j].node]
            IN ~( /\ h \notin Names /\ ServerOf[judged[s][k].node] = h
                  /\ judged[s][j].why = "kept" /\ judged[s][k].why = "geo"
                  /\ Literal[h] \notin AsnForeign )

\* The places whose nodes compete for their server:port.
Competitors ==
    {p \in UNION {{s} \X DOMAIN judged[s] : s \in {t \in Sources : pc[t] = "delivered"}} :
        At(p).why = "kept" /\ At(p).node \notin Placeholders \cup Unlabelled}

Before(p, q) == p[1] < q[1] \/ (p[1] = q[1] /\ p[2] < q[2])

\* The reference: of the competitors for a server:port, the first in config
\* order and then in its body.
Winners == {p \in Competitors : \A q \in Competitors : KeyAt(q) = KeyAt(p) => ~Before(q, p)}

(***************************************************************************)
(* The merged pool holds, for every server:port some delivered source has  *)
(* a usable node for, exactly the first such node in config order, with    *)
(* the address that node was judged at and a label of its own -- whatever  *)
(* order the requests finished in.                                         *)
(***************************************************************************)
FirstWins ==
    phase = "merged" =>
        /\ {<<e.source, e.node, e.ip>> : e \in {entries[i] : i \in DOMAIN entries}}
             = {<<p[1], At(p).node, At(p).ip>> : p \in Winners}
        /\ Len(entries) = Cardinality(Winners)
        /\ \A i, j \in DOMAIN entries : i # j =>
              <<entries[i].source, entries[i].number>> # <<entries[j].source, entries[j].number>>
=============================================================================
