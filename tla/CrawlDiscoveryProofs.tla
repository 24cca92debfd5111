------------------------ MODULE CrawlDiscoveryProofs ------------------------
(***************************************************************************)
(* What discovery promises for any chats, pages, repositories, files,      *)
(* budgets and bounds.  IInv is the type invariant with what the program   *)
(* points imply; each property then follows the memory of the cycle and    *)
(* the one on disk through the two phases, the saves and the kills.        *)
(***************************************************************************)
EXTENDS CrawlDiscovery, FiniteSetTheorems, SequenceTheorems, WellFoundedInduction, TLAPS

-----------------------------------------------------------------------------
(* Finite sets in a strict total order.                                    *)

StrictTotal(S, Order) ==
    /\ \A x \in S : <<x, x>> \notin Order
    /\ \A x, y, z \in S : <<x, y>> \in Order /\ <<y, z>> \in Order => <<x, z>> \in Order
    /\ \A x, y \in S : x # y => <<x, y>> \in Order \/ <<y, x>> \in Order

Below(S, Order, x) == {y \in S : <<y, x>> \in Order}

LEMMA Smallest ==
    ASSUME NEW S \in SUBSET Nat, S # {} PROVE \E x \in S : \A y \in S : x <= y
<1>1. \A y, z \in Nat : y < z => <<y, z>> \in OpToRel(<, Nat)
  BY DEF OpToRel
<1>2. PICK x \in S : \A y \in S : <<y, x>> \notin OpToRel(<, Nat)
  BY NatLessThanWellFounded, WFMin
<1>3. \A y \in S : ~(y < x)
  BY <1>1, <1>2, Zenon
<1> QED BY <1>3

\* What is before x is finite, and less than what is before a later y.
LEMMA BelowGrows ==
    ASSUME NEW S, IsFiniteSet(S), NEW Order, StrictTotal(S, Order), NEW x \in S
    PROVE  /\ IsFiniteSet(Below(S, Order, x))
           /\ Cardinality(Below(S, Order, x)) \in 0..(Cardinality(S) - 1)
           /\ \A y \in S : <<x, y>> \in Order =>
                Cardinality(Below(S, Order, x)) < Cardinality(Below(S, Order, y))
<1>1. ASSUME NEW z \in S PROVE IsFiniteSet(Below(S, Order, z)) /\ Cardinality(Below(S, Order, z)) \in Nat
  <2>1. Below(S, Order, z) \in SUBSET S
    BY DEF Below
  <2> QED BY <2>1, FS_Subset, FS_CardinalityType
<1>2. Cardinality(Below(S, Order, x)) <= Cardinality(S) - 1
  <2>1. Below(S, Order, x) \in SUBSET (S \ {x})
    BY DEF Below, StrictTotal
  <2>2. IsFiniteSet(S \ {x}) /\ Cardinality(S \ {x}) = Cardinality(S) - 1
    BY FS_RemoveElement
  <2> QED BY <2>1, <2>2, FS_Subset
<1>3. ASSUME NEW y \in S, <<x, y>> \in Order
      PROVE  Cardinality(Below(S, Order, x)) < Cardinality(Below(S, Order, y))
  <2>1. Below(S, Order, x) \in SUBSET Below(S, Order, y)
    BY <1>3 DEF Below, StrictTotal
  <2>2. x \in Below(S, Order, y) /\ x \notin Below(S, Order, x)
    BY <1>3 DEF Below, StrictTotal
  <2>3. /\ Cardinality(Below(S, Order, x)) <= Cardinality(Below(S, Order, y))
        /\ Cardinality(Below(S, Order, x)) # Cardinality(Below(S, Order, y))
    BY <1>1, <2>1, <2>2, FS_Subset
  <2> QED BY <1>1, <2>3
<1>4. Cardinality(S) \in Nat
  BY FS_CardinalityType
<1> QED BY <1>1, <1>2, <1>3, <1>4

\* Sorted gives each place the member with as many before it.
LEMMA SortedPlaces ==
    ASSUME NEW S, IsFiniteSet(S), NEW Order, StrictTotal(S, Order)
    PROVE  /\ Cardinality(S) \in Nat
           /\ Sorted(S, Order) \in [1..Cardinality(S) -> S]
           /\ \A i \in 1..Cardinality(S) :
                Cardinality(Below(S, Order, Sorted(S, Order)[i])) = i - 1
<1> DEFINE n == Cardinality(S)
           rank == [x \in S |-> Cardinality(Below(S, Order, x))]
<1>1. n \in Nat
  BY FS_CardinalityType
<1>2. rank \in [S -> 0..(n - 1)]
  BY BelowGrows
<1>3. ASSUME NEW x \in S, NEW y \in S, rank[x] = rank[y] PROVE x = y
  <2>1. rank[x] \in Int /\ rank[x] = Cardinality(Below(S, Order, x)) /\ rank[y] = Cardinality(Below(S, Order, y))
    BY <1>1, <1>2
  <2>2. <<x, y>> \in Order => rank[x] < rank[y]
    BY <2>1, BelowGrows
  <2>3. <<y, x>> \in Order => rank[y] < rank[x]
    BY <2>1, BelowGrows
  <2> HIDE DEF rank
  <2> QED BY <1>3, <2>1, <2>2, <2>3 DEF StrictTotal
<1>4. rank \in Injection(S, 0..(n - 1))
  <2> HIDE DEF rank
  <2> QED BY <1>2, <1>3 DEF Injection, IsInjective
<1>5. IsFiniteSet(0..(n - 1)) /\ Cardinality(0..(n - 1)) = n
  BY <1>1, FS_Interval
<1>6. rank \in Surjection(S, 0..(n - 1))
  <2> HIDE DEF rank
  <2> QED BY <1>4, <1>5, FS_Injection
<1>7. ASSUME NEW i \in 1..n PROVE \E x \in S : Cardinality(Below(S, Order, x)) = i - 1
  <2>1. i - 1 \in 0..(n - 1)
    BY <1>1
  <2>2. \E x \in S : rank[x] = i - 1
    <3> HIDE DEF rank
    <3> QED BY <1>6, <2>1 DEF Surjection
  <2> QED BY <2>2
<1> DEFINE nth(i) == CHOOSE x \in S : Cardinality({y \in S : <<y, x>> \in Order}) = i - 1
<1>8. ASSUME NEW i \in 1..n
      PROVE  nth(i) \in S /\ Cardinality(Below(S, Order, nth(i))) = i - 1
  <2>1. nth(i) = CHOOSE x \in S : Cardinality(Below(S, Order, x)) = i - 1
    BY DEF Below
  <2> QED BY <1>7, <2>1
<1>9. Sorted(S, Order) = [i \in 1..n |-> nth(i)]
  BY DEF Sorted
<1> HIDE DEF nth, n
<1>10. Sorted(S, Order) \in [1..n -> S] /\ \A i \in 1..n : Sorted(S, Order)[i] = nth(i)
  BY <1>8, <1>9
<1> QED BY <1>1, <1>8, <1>10 DEF n

LEMMA SortedSeq ==
    ASSUME NEW S, IsFiniteSet(S), NEW Order, StrictTotal(S, Order)
    PROVE  Sorted(S, Order) \in Seq(S)
BY SortedPlaces

\* Members with fewer than cap before them, in a set that is totally ordered,
\* are at most cap.
LEMMA FewBefore ==
    ASSUME NEW S, IsFiniteSet(S), NEW Order, StrictTotal(S, Order), NEW cap \in Nat,
           \A x \in S : Cardinality(Below(S, Order, x)) < cap
    PROVE  Cardinality(S) <= cap
<1>1. SUFFICES ASSUME Cardinality(S) > cap PROVE FALSE
  BY FS_CardinalityType
<1>2. Cardinality(S) \in 1..Cardinality(S)
  BY <1>1, FS_CardinalityType
<1>3. /\ Sorted(S, Order)[Cardinality(S)] \in S
      /\ Cardinality(Below(S, Order, Sorted(S, Order)[Cardinality(S)])) = Cardinality(S) - 1
  BY <1>2, SortedPlaces
<1> QED BY <1>1, <1>3, FS_CardinalityType

\* As many have fewer than cap before them as cap says, or all have.
LEMMA ManyFirst ==
    ASSUME NEW S, IsFiniteSet(S), NEW Order, StrictTotal(S, Order), NEW cap \in Nat,
           cap <= Cardinality(S)
    PROVE  cap <= Cardinality({x \in S : Cardinality(Below(S, Order, x)) < cap})
<1> DEFINE T == {x \in S : Cardinality(Below(S, Order, x)) < cap}
           f == [i \in 1..cap |-> Sorted(S, Order)[i]]
<1>1. \A i \in 1..cap : i \in 1..Cardinality(S)
  BY FS_CardinalityType
<1>2. ASSUME NEW i \in 1..cap
      PROVE  f[i] \in T /\ Cardinality(Below(S, Order, f[i])) = i - 1
  <2>1. /\ Sorted(S, Order)[i] \in S
        /\ Cardinality(Below(S, Order, Sorted(S, Order)[i])) = i - 1
    BY <1>1, SortedPlaces
  <2> QED BY <2>1
<1>3. f \in Injection(1..cap, T)
  <2>1. f \in [1..cap -> T]
    BY <1>2
  <2>2. ASSUME NEW i \in 1..cap, NEW j \in 1..cap, f[i] = f[j] PROVE i = j
    <3>1. i - 1 = j - 1
      BY <1>2, <2>2
    <3> QED BY <3>1
  <2> HIDE DEF f, T
  <2> QED BY <2>1, <2>2 DEF Injection, IsInjective
<1>4. IsFiniteSet(T)
  BY FS_Subset
<1>5. Cardinality(1..cap) = cap
  BY FS_Interval
<1> HIDE DEF f, T
<1>6. Cardinality(1..cap) <= Cardinality(T)
  BY <1>3, <1>4, FS_Injection
<1> QED BY <1>5, <1>6 DEF T

-----------------------------------------------------------------------------
(* Sequences of sequences.                                                 *)

LEMMA ReadingTotal ==
    ASSUME NEW P \in SUBSET (Nat \X Nat) PROVE StrictTotal(P, Reading(P))
BY DEF StrictTotal, Reading

LEMMA Images ==
    ASSUME NEW S, IsFiniteSet(S), NEW f PROVE IsFiniteSet({f[x] : x \in S})
<1> DEFINE T == {f[x] : x \in S}
           g == [x \in S |-> f[x]]
<1>1. g \in Surjection(S, T)
  BY DEF Surjection
<1> HIDE DEF g, T
<1> QED BY <1>1, FS_Surjection DEF T

LEMMA PlacesOf ==
    ASSUME NEW X, NEW ss, IsFiniteSet(DOMAIN ss), DOMAIN ss \subseteq Nat,
           \A i \in DOMAIN ss : ss[i] \in Seq(X)
    PROVE  /\ IsFiniteSet(Places(ss)) /\ Places(ss) \in SUBSET (Nat \X Nat)
           /\ \A p \in Places(ss) : p[1] \in DOMAIN ss /\ p[2] \in DOMAIN ss[p[1]]
<1> DEFINE row == [i \in DOMAIN ss |-> {<<i, k>> : k \in DOMAIN ss[i]}]
<1>1. ASSUME NEW i \in DOMAIN ss PROVE IsFiniteSet(row[i])
  <2> DEFINE f == [k \in 1..Len(ss[i]) |-> <<i, k>>]
  <2>1. row[i] = {f[k] : k \in 1..Len(ss[i])}
    OBVIOUS
  <2> HIDE DEF f, row
  <2>2. IsFiniteSet(1..Len(ss[i]))
    BY FS_Interval
  <2>3. IsFiniteSet({f[k] : k \in 1..Len(ss[i])})
    BY <2>2, Images
  <2> QED BY <2>1, <2>3
<1>2. Places(ss) = UNION {row[i] : i \in DOMAIN ss}
  BY DEF Places
<1>3. IsFiniteSet({row[i] : i \in DOMAIN ss})
  <2> HIDE DEF row
  <2> QED BY Images
<1>4. IsFiniteSet(Places(ss))
  <2>1. \A T \in {row[i] : i \in DOMAIN ss} : IsFiniteSet(T)
    BY <1>1
  <2> HIDE DEF row
  <2> QED BY <1>2, <1>3, <2>1, FS_UNION
<1>5. ASSUME NEW p \in Places(ss)
      PROVE  p \in Nat \X Nat /\ p[1] \in DOMAIN ss /\ p[2] \in DOMAIN ss[p[1]]
  <2>1. PICK i \in DOMAIN ss : \E k \in DOMAIN ss[i] : p = <<i, k>>
    BY DEF Places
  <2>2. PICK k \in DOMAIN ss[i] : p = <<i, k>>
    BY <2>1
  <2>3. k \in Nat
    OBVIOUS
  <2> QED BY <2>2, <2>3
<1> QED BY <1>4, <1>5

\* Reading some places of it in order.
LEMMA InReadingOrder ==
    ASSUME NEW X, NEW ss, IsFiniteSet(DOMAIN ss), DOMAIN ss \subseteq Nat,
           \A i \in DOMAIN ss : ss[i] \in Seq(X), NEW P \in SUBSET Places(ss)
    PROVE  Sorted(P, Reading(P)) \in Seq(P)
<1>1. IsFiniteSet(P) /\ P \in SUBSET (Nat \X Nat)
  BY PlacesOf, FS_Subset
<1> QED BY <1>1, ReadingTotal, SortedSeq

LEMMA ScanNumbers ==
    /\ MaxDepth \in Nat /\ MaxDiscovered \in Nat /\ LadderGroups \in Nat /\ MaxProductive \in Nat
    /\ Pages \in Nat \ {0} /\ DiscoveredPages \in Nat \ {0}
    /\ MaxCycles \in Nat /\ MaxFaults \in Nat /\ StateTTL \in Nat
BY ScanAssumption, WorldAssumption

\* The children of a node that may expand.
LEMMA Children ==
    ASSUME node \in Node, node.depth < MaxDepth, pages \in Seq(PageShape)
    PROVE  /\ ChildRefs \in Seq(Node)
           /\ \A i \in DOMAIN ChildRefs :
                 /\ ChildRefs[i].depth > 0
                 /\ ChildRefs[i].carved =>
                       /\ viaTopic /\ ChildRefs[i].ref.topic # 0
                       /\ ChildRefs[i].ref.slug = node.ref.slug
<1> DEFINE refs == [i \in DOMAIN pages |-> pages[i].refs]
           same(r) == r.slug = node.ref.slug
           follow(r) == same(r) => viaTopic /\ r.topic \notin {0, node.ref.topic}
           followed == {p \in ExtractRefs : follow(RefAt(p))}
           kids == Sorted(followed, Reading(followed))
           child(p) == [ref |-> RefAt(p), depth |-> node.depth + 1, configured |-> FALSE,
                        carved |-> same(RefAt(p))]
<1>1. /\ IsFiniteSet(DOMAIN refs) /\ DOMAIN refs \subseteq Nat
      /\ \A i \in DOMAIN refs : refs[i] \in Seq(Refs)
  <2>1. DOMAIN refs = 1..Len(pages) /\ Len(pages) \in Nat
    OBVIOUS
  <2>2. IsFiniteSet(1..Len(pages))
    BY <2>1, FS_Interval
  <2>3. ASSUME NEW i \in DOMAIN refs PROVE refs[i] \in Seq(Refs)
    <3>1. pages[i] \in PageShape
      OBVIOUS
    <3> QED BY <3>1 DEF PageShape
  <2> HIDE DEF refs
  <2> QED BY <2>1, <2>2, <2>3
<1>2. followed \subseteq Places(refs)
  BY DEF ExtractRefs
<1>3. \A p \in Places(refs) : RefAt(p) \in Refs
  <2>1. \A p \in Places(refs) : p[1] \in DOMAIN refs /\ p[2] \in DOMAIN refs[p[1]]
    <3> HIDE DEF refs
    <3> QED BY <1>1, PlacesOf
  <2>2. \A p \in Places(refs) : RefAt(p) = refs[p[1]][p[2]]
    BY <2>1 DEF RefAt
  <2> HIDE DEF refs
  <2> QED BY <1>1, <2>1, <2>2
<1>4. kids \in Seq(followed)
  <2> HIDE DEF refs, followed
  <2> QED BY <1>1, <1>2, InReadingOrder
<1>5. ASSUME NEW p \in followed
      PROVE  /\ child(p) \in Node /\ child(p).depth > 0
             /\ child(p).carved => /\ viaTopic /\ child(p).ref.topic # 0
                                   /\ child(p).ref.slug = node.ref.slug
  <2>1. RefAt(p) \in Refs
    BY <1>2, <1>3
  <2>2. node.depth + 1 \in 0..(MaxDepth + 1) /\ node.depth + 1 > 0
    BY ScanNumbers DEF Node
  <2>3. follow(RefAt(p))
    OBVIOUS
  <2> QED BY <2>1, <2>2, <2>3 DEF Node
<1>6. ChildRefs = [i \in DOMAIN kids |-> child(kids[i])]
  BY DEF ChildRefs
<1> HIDE DEF refs, kids, followed, child
<1>7. DOMAIN kids = 1..Len(kids) /\ \A i \in DOMAIN kids : kids[i] \in followed
  BY <1>4
<1> QED BY <1>4, <1>5, <1>6, <1>7

LEMMA Prefix ==
    ASSUME NEW X, NEW s \in Seq(X), NEW k \in 0..Len(s)
    PROVE  SubSeq(s, 1, k) \in Seq(X) /\ Len(SubSeq(s, 1, k)) = k
           /\ (k > 0 => SubSeq(s, 1, k)[1] = s[1])
<1>1. \A i \in 1..k : s[i] \in X
  OBVIOUS
<1> QED BY <1>1, SubSeqProperties

\* A walk reads some of the listing, and its first page if it has one.
LEMMA Walks ==
    ASSUME NEW n \in Node
    PROVE  Walk(n) \in Seq(PageShape) /\ (HasMessages(Walk(n)) <=> HasMessages(Listing[n.ref.slug]))
<1> DEFINE all == Listing[n.ref.slug]
           goes(i) == \A j \in 1..(i - 1) : all[j].cursor
           reach == {i \in DOMAIN all : i <= Budget(n) /\ goes(i)}
<1>1. all \in Seq(PageShape)
  BY ScanAssumption DEF Node, Refs
<1>2. Walk(n) = SubSeq(all, 1, Cardinality(reach))
  BY DEF Walk
<1>3. Budget(n) \in Nat \ {0}
  BY ScanNumbers DEF Budget, Least, Node
<1>4. Cardinality(reach) \in 0..Len(all) /\ (Cardinality(reach) = 0 <=> reach = {})
  <2> HIDE DEF all
  <2>0. Len(all) \in Nat
    BY <1>1
  <2>1. IsFiniteSet(1..Len(all)) /\ Cardinality(1..Len(all)) = Len(all) /\ Len(all) \in Nat
    <3>1. 1 \in Int /\ Len(all) \in Int /\ Len(all) - 1 + 1 = Len(all)
          /\ (1 > Len(all) => Len(all) = 0)
      BY <2>0
    <3>2. IsFiniteSet(1..Len(all))
          /\ Cardinality(1..Len(all)) = IF 1 > Len(all) THEN 0 ELSE Len(all) - 1 + 1
      BY <3>1, FS_Interval
    <3> QED BY <2>0, <3>1, <3>2
  <2>2. reach \in SUBSET (1..Len(all))
    BY <1>1
  <2> HIDE DEF reach
  <2>3. IsFiniteSet(reach) /\ Cardinality(reach) <= Len(all)
    BY <2>1, <2>2, FS_Subset
  <2> QED BY <2>1, <2>3, FS_EmptySet, FS_CardinalityType
<1>5. reach = {} <=> all = <<>>
  <2>1. ASSUME all # <<>> PROVE 1 \in reach
    BY <1>1, <1>3, <2>1
  <2>2. ASSUME all = <<>> PROVE reach = {}
    BY <2>2
  <2> QED BY <2>1, <2>2
<1> HIDE DEF all, reach
<1>6. /\ Walk(n) \in Seq(PageShape) /\ Len(Walk(n)) = Cardinality(reach)
      /\ Cardinality(reach) > 0 => Walk(n)[1] = all[1]
  BY <1>1, <1>2, <1>4, Prefix
<1>7. Walk(n) = <<>> <=> all = <<>>
  BY <1>1, <1>4, <1>5, <1>6
<1>8. Walk(n) # <<>> => Walk(n)[1] = all[1]
  BY <1>4, <1>5, <1>6, <1>7
<1> QED BY <1>6, <1>7, <1>8 DEF HasMessages, all

-----------------------------------------------------------------------------
(* The lists of the pass.                                                  *)

LEMMA PassNumbers ==
    /\ CodeLen \in Nat /\ RepoLen \in Nat
    /\ SearchCode \in Nat /\ SearchRepo \in Nat /\ MaxRepos \in Nat /\ FilesPerRepo \in Nat
    /\ AcceptPerRepo \in Nat /\ MinNovel \in Nat /\ MaxRetries \in Nat /\ MaxSources \in Nat
    /\ Files \subseteq Urls /\ Repos \subseteq Origins /\ Slugs \subseteq Origins
    /\ IsFiniteSet(Urls) /\ IsFiniteSet(Repos) /\ IsFiniteSet(Files)
<1>1. CodeLen \in Nat /\ RepoLen \in Nat
  <2>1. CodeHits \in Seq(Seq(Repos)) /\ RepoHits \in Seq(Seq(Repos))
    BY PassAssumption
  <2> QED BY <2>1, LenProperties DEF CodeLen, RepoLen
<1>2. IsFiniteSet(Repos) /\ IsFiniteSet(Files)
  BY PassAssumption, WorldAssumption, FS_Subset
<1> QED BY <1>1, <1>2, PassAssumption, ScanAssumption, WorldAssumption

LEMMA RememberedRepos ==
    ASSUME repos \in [Repos -> 0..MaxCycles] PROVE GithubRepos \in Seq(Repos)
<1> DEFINE R == {r \in Repos : repos[r] # 0}
           O == {p \in R \X R : \/ repos[p[1]] > repos[p[2]]
                                \/ repos[p[1]] = repos[p[2]] /\ RepoRank[p[1]] < RepoRank[p[2]]}
<1>1. IsFiniteSet(R)
  BY PassNumbers, FS_Subset
<1>2. StrictTotal(R, O)
  <2>1. \A x, y \in R : <<x, y>> \in O <=> \/ repos[x] > repos[y]
                                           \/ repos[x] = repos[y] /\ RepoRank[x] < RepoRank[y]
    OBVIOUS
  <2>2. \A x \in R : repos[x] \in Int /\ RepoRank[x] \in Int
    BY PassAssumption, ScanNumbers
  <2>3. \A x, y \in R : RepoRank[x] = RepoRank[y] => x = y
    BY PassAssumption
  <2> HIDE DEF R, O
  <2> QED BY <2>1, <2>2, <2>3 DEF StrictTotal
<1>3. GithubRepos = Sorted(R, O)
  BY DEF GithubRepos
<1>4. Sorted(R, O) \in Seq(R)
  <2> HIDE DEF R, O
  <2> QED BY <1>1, <1>2, SortedSeq
<1> QED BY <1>3, <1>4

LEMMA ConsideredSeq ==
    ASSUME repos \in [Repos -> 0..MaxCycles], proposed \in Seq(Repos), found \in Seq(Repos)
    PROVE  Considered \in Seq(FoundRepos)
<1> DEFINE as(seq, m, p) == [i \in DOMAIN seq |-> [repo |-> seq[i], meta |-> m, productive |-> p]]
<1>1. ASSUME NEW seq \in Seq(Repos), NEW m \in BOOLEAN, NEW p \in BOOLEAN
      PROVE  as(seq, m, p) \in Seq(FoundRepos)
  <2>1. DOMAIN seq = 1..Len(seq) /\ Len(seq) \in Nat
    OBVIOUS
  <2>2. \A i \in 1..Len(seq) : [repo |-> seq[i], meta |-> m, productive |-> p] \in FoundRepos
    BY DEF FoundRepos
  <2> QED BY <2>1, <2>2
<1>2. Considered = as(GithubRepos, FALSE, TRUE) \o as(proposed, TRUE, FALSE) \o as(found, FALSE, FALSE)
  BY DEF Considered
<1>3. /\ as(GithubRepos, FALSE, TRUE) \in Seq(FoundRepos)
      /\ as(proposed, TRUE, FALSE) \in Seq(FoundRepos)
      /\ as(found, FALSE, FALSE) \in Seq(FoundRepos)
  <2> HIDE DEF as
  <2> QED BY <1>1, RememberedRepos
<1> HIDE DEF as
<1>4. as(GithubRepos, FALSE, TRUE) \o as(proposed, TRUE, FALSE) \in Seq(FoundRepos)
  BY <1>3, ConcatProperties
<1> QED BY <1>2, <1>3, <1>4, ConcatProperties

\* The best files of a tree first: score, then size, then path.
LEMMA CandidateSeq ==
    ASSUME NEW r \in Repos PROVE CandidatesOf[r] \in Seq(Files)
<1> DEFINE K == {f \in Tree[r] : Plausible(Blob[f])}
           O == {p \in K \X K : Better(p[1], p[2])}
           best == Sorted(K, O)
<1>1. IsFiniteSet(K) /\ K \subseteq Files
  <2>1. K \subseteq Files
    BY PassAssumption
  <2> HIDE DEF K
  <2> QED BY <2>1, PassNumbers, FS_Subset
<1>2. StrictTotal(K, O)
  <2>1. \A f \in Files : Score(Blob[f]) \in Int /\ Blob[f].size \in Int /\ PathRank[f] \in Int
    <3>1. ASSUME NEW f \in Files PROVE Score(Blob[f]) \in Int
      <4>1. Blob[f].keywords \in Nat
        BY PassAssumption
      <4>2. SizeBucket(Blob[f].size) \in Int
        BY DEF SizeBucket
      <4>3. ExtScore(Blob[f].ext) \in Int
        BY DEF ExtScore
      <4> QED BY <4>1, <4>2, <4>3 DEF Score
    <3>2. \A f \in Files : Blob[f].size \in Nat /\ PathRank[f] \in Nat
      BY PassAssumption
    <3> QED BY <3>1, <3>2
  <2>2. \A f, g \in Files : PathRank[f] = PathRank[g] => f = g
    BY PassAssumption
  <2>3. \A f, g \in K : <<f, g>> \in O <=>
          \/ Score(Blob[f]) > Score(Blob[g])
          \/ Score(Blob[f]) = Score(Blob[g]) /\ Blob[f].size > Blob[g].size
          \/ /\ Score(Blob[f]) = Score(Blob[g]) /\ Blob[f].size = Blob[g].size
             /\ PathRank[f] < PathRank[g]
    BY DEF Better
  <2> HIDE DEF K, O
  <2> QED BY <1>1, <2>1, <2>2, <2>3 DEF StrictTotal
<1>3. best \in Seq(Files)
  <2>1. best \in Seq(K)
    <3> HIDE DEF K, O
    <3> QED BY <1>1, <1>2, SortedSeq
  <2> HIDE DEF best, K
  <2> QED BY <1>1, <2>1
<1>4. CandidatesOf[r] = SubSeq(best, 1, Least(FilesPerRepo, Len(best)))
  BY DEF CandidatesOf
<1>5. Least(FilesPerRepo, Len(best)) \in 0..Len(best)
  <2> HIDE DEF best
  <2> QED BY <1>3, PassNumbers DEF Least
<1> HIDE DEF best
<1> QED BY <1>3, <1>4, <1>5, Prefix

LEMMA JobSeq ==
    ASSUME admitted \in Seq(Repos), listed \in [Repos -> Seq(Files)]
    PROVE  Jobs \in Seq(Files)
<1> DEFINE ss == [i \in DOMAIN admitted |-> listed[admitted[i]]]
           P == Places(ss)
           job == Sorted(P, Reading(P))
<1>1. /\ IsFiniteSet(DOMAIN ss) /\ DOMAIN ss \subseteq Nat
      /\ \A i \in DOMAIN ss : ss[i] \in Seq(Files)
  <2>1. DOMAIN ss = 1..Len(admitted) /\ Len(admitted) \in Nat
    OBVIOUS
  <2>2. IsFiniteSet(1..Len(admitted))
    BY <2>1, FS_Interval
  <2>3. ASSUME NEW i \in DOMAIN ss PROVE ss[i] \in Seq(Files)
    OBVIOUS
  <2> HIDE DEF ss
  <2> QED BY <2>1, <2>2, <2>3
<1>2. job \in Seq(P)
  <2> HIDE DEF ss
  <2> QED BY <1>1, InReadingOrder
<1>3. \A p \in P : p[1] \in DOMAIN ss /\ p[2] \in DOMAIN ss[p[1]]
  <2> HIDE DEF ss
  <2> QED BY <1>1, PlacesOf
<1>4. Jobs = [n \in DOMAIN job |-> ss[job[n][1]][job[n][2]]]
  <2>1. \A p \in P : listed[admitted[p[1]]][p[2]] = ss[p[1]][p[2]]
    BY <1>3
  <2>2. \A n \in DOMAIN job : job[n] \in P
    <3> HIDE DEF job, P
    <3> QED BY <1>2
  <2> QED BY <2>1, <2>2 DEF Jobs
<1> HIDE DEF ss, job, P
<1>5. DOMAIN job = 1..Len(job) /\ Len(job) \in Nat /\ \A n \in DOMAIN job : job[n] \in P
  BY <1>2
<1>6. \A n \in DOMAIN job : ss[job[n][1]][job[n][2]] \in Files
  BY <1>1, <1>3, <1>5
<1> QED BY <1>4, <1>5, <1>6

-----------------------------------------------------------------------------
(* Recursive functions over an initial segment of the naturals.            *)

\* Induction, in the form of a set that the values of u do not leave.
LEMMA Stays ==
    ASSUME NEW n \in Nat, NEW u, NEW S, u[0] \in S, \A k \in 1..n : u[k - 1] \in S => u[k] \in S
    PROVE  \A k \in 0..n : u[k] \in S
<1> DEFINE Bad == {k \in 0..n : u[k] \notin S}
<1>1. SUFFICES ASSUME Bad # {} PROVE FALSE
  OBVIOUS
<1>2. PICK m \in Bad : \A k \in Bad : m <= k
  <2>1. Bad \in SUBSET Nat
    OBVIOUS
  <2> HIDE DEF Bad
  <2> QED BY <1>1, <2>1, Smallest
<1>3. m \in 1..n /\ m - 1 \in 0..n /\ m - 1 \notin Bad
  BY <1>2
<1> QED BY <1>2, <1>3

\* f follows the step functions G from b.
Follows(f, n, b, G) == f[0] = b /\ \A k \in 1..n : f[k] = G[k][f[k - 1]]

\* Step functions that stay within S define a recursive function into S.
LEMMA Recursion ==
    ASSUME NEW n \in Nat, NEW S, NEW b \in S, NEW G \in [1..n -> [S -> S]]
    PROVE  \E f \in [0..n -> S] : Follows(f, n, b, G)
<1> DEFINE T == {m \in 0..n : \E f \in [0..m -> S] : Follows(f, m, b, G)}
           u == [k \in 0..n |-> k]
<1>1. 0 \in T
  <2> DEFINE f == [k \in 0..0 |-> b]
  <2>1. f \in [0..0 -> S] /\ Follows(f, 0, b, G)
    BY DEF Follows
  <2> HIDE DEF f
  <2> QED BY <2>1
<1>2. ASSUME NEW k \in 1..n, k - 1 \in T PROVE k \in T
  <2>1. PICK f \in [0..(k - 1) -> S] : Follows(f, k - 1, b, G)
    BY <1>2
  <2> DEFINE g == [j \in 0..k |-> IF j < k THEN f[j] ELSE G[k][f[k - 1]]]
  <2>0. k \in Nat /\ k - 1 \in 0..(k - 1) /\ 0..(k - 1) \subseteq 0..k
        /\ \A j \in 0..k : j < k => j \in 0..(k - 1)
    OBVIOUS
  <2>2. g \in [0..k -> S]
    <3>1. G[k][f[k - 1]] \in S
      BY <2>0, <2>1
    <3> QED BY <2>0, <2>1, <3>1
  <2>3. ASSUME NEW j \in 1..k PROVE g[j] = G[j][g[j - 1]]
    BY <2>0, <2>1, <2>3 DEF Follows
  <2>4. g[0] = b
    BY <2>0, <2>1 DEF Follows
  <2>5. k \in 0..n
    OBVIOUS
  <2> HIDE DEF g
  <2> QED BY <2>2, <2>3, <2>4, <2>5 DEF Follows
<1>3. \A k \in 0..n : u[k] = k
  OBVIOUS
<1>4. n \in T
  <2> HIDE DEF T, u
  <2>1. ASSUME NEW k \in 1..n PROVE u[k - 1] \in T => u[k] \in T
    <3>1. u[k - 1] = k - 1 /\ u[k] = k
      BY <1>3
    <3> QED BY <1>2, <3>1
  <2>2. u[0] \in T
    BY <1>1, <1>3
  <2>3. \A k \in 0..n : u[k] \in T
    BY <2>1, <2>2, Stays
  <2> QED BY <1>3, <2>3
<1> QED BY <1>4

-----------------------------------------------------------------------------
(* The greedy cover.                                                       *)

LEMMA EndpointSets ==
    /\ IsFiniteSet(Endpoints) /\ \A u \in Urls : EndpointsOf[u] \in SUBSET Endpoints
    /\ \A S \in SUBSET Endpoints : IsFiniteSet(S) /\ Cardinality(S) \in Nat
    /\ \A S \in SUBSET Urls : FoldOf(S) \in SUBSET Endpoints
<1>1. IsFiniteSet(Endpoints)
  BY PassAssumption
<1>2. ASSUME NEW S \in SUBSET Endpoints PROVE IsFiniteSet(S) /\ Cardinality(S) \in Nat
  BY <1>1, FS_Subset, FS_CardinalityType
<1>3. \A u \in Urls : EndpointsOf[u] \in SUBSET Endpoints
  BY DEF Endpoints
<1> QED BY <1>1, <1>2, <1>3 DEF FoldOf

\* Of some numbered sets one adds most, and is the first that does.
LEMMA BestExists ==
    ASSUME NEW Left \in SUBSET Nat, Left # {}, NEW gain \in [Left -> Nat], NEW most \in Nat,
           \A i \in Left : gain[i] <= most
    PROVE  \E i \in Left : \A j \in Left : gain[i] > gain[j] \/ (gain[i] = gain[j] /\ i <= j)
<1> DEFINE Short == {most - gain[i] : i \in Left}
<1>1. PICK s \in Short : \A t \in Short : s <= t
  <2>1. \A i \in Left : most - gain[i] \in Nat
    OBVIOUS
  <2>2. Short \in SUBSET Nat /\ Short # {}
    BY <2>1
  <2> HIDE DEF Short
  <2> QED BY <2>2, Smallest
<1>2. PICK b \in Left : s = most - gain[b]
  BY <1>1
<1>3. \A j \in Left : gain[j] <= gain[b]
  BY <1>1, <1>2
<1> DEFINE Tops == {i \in Left : gain[i] = gain[b]}
<1>4. PICK i \in Tops : \A j \in Tops : i <= j
  <2>1. Tops \in SUBSET Nat /\ Tops # {}
    OBVIOUS
  <2> HIDE DEF Tops
  <2> QED BY <2>1, Smallest
<1> QED BY <1>3, <1>4

LEMMA CoverSeq ==
    ASSUME NEW D \in SUBSET Nat, NEW sets \in [D -> SUBSET Endpoints], NEW floor, NEW accept \in Nat
    PROVE  Cover(sets, floor, accept) \in Seq(D)
<1> DEFINE S == [covered : SUBSET Endpoints, chosen : Seq(D)]
           b == [covered |-> {}, chosen |-> <<>>]
           Gain(acc, i) == Cardinality(sets[i] \ acc.covered)
           Left(acc) == DOMAIN sets \ {acc.chosen[n] : n \in DOMAIN acc.chosen}
           Best(acc) == CHOOSE i \in Left(acc) :
                            \A j \in Left(acc) : \/ Gain(acc, i) > Gain(acc, j)
                                                 \/ Gain(acc, i) = Gain(acc, j) /\ i <= j
           Stop(acc) == \/ Left(acc) = {}
                        \/ Gain(acc, Best(acc)) = 0 \/ Gain(acc, Best(acc)) < floor
           Round(acc) == IF Stop(acc) THEN acc
                         ELSE [covered |-> acc.covered \cup sets[Best(acc)],
                               chosen  |-> Append(acc.chosen, Best(acc))]
           F(f) == f = [n \in 0..accept |-> IF n = 0 THEN b ELSE Round(f[n - 1])]
           G == [n \in 1..accept |-> [acc \in S |-> Round(acc)]]
           u == CHOOSE f : F(f)
<1>1. ASSUME NEW acc \in S, Left(acc) # {} PROVE Best(acc) \in D
  <2> DEFINE gain == [i \in Left(acc) |-> Gain(acc, i)]
  <2>1. Left(acc) \in SUBSET Nat /\ Left(acc) \subseteq D
    OBVIOUS
  <2>2. ASSUME NEW i \in Left(acc) PROVE gain[i] \in Nat /\ gain[i] <= Cardinality(Endpoints)
    <3>1. sets[i] \ acc.covered \in SUBSET Endpoints
      BY <2>1
    <3> HIDE DEF Left
    <3> QED BY <3>1, EndpointSets, FS_Subset
  <2>3. Cardinality(Endpoints) \in Nat /\ gain = [i \in Left(acc) |-> gain[i]]
    BY EndpointSets, FS_CardinalityType
  <2>4. \A i \in Left(acc) : gain[i] = Gain(acc, i)
    OBVIOUS
  <2> HIDE DEF gain, Gain, Left
  <2>5. gain \in [Left(acc) -> Nat]
    BY <2>2, <2>3
  <2>6. \E i \in Left(acc) : \A j \in Left(acc) : gain[i] > gain[j] \/ (gain[i] = gain[j] /\ i <= j)
    BY <1>1, <2>1, <2>2, <2>3, <2>5, BestExists
  <2>7. \E i \in Left(acc) : \A j \in Left(acc) : \/ Gain(acc, i) > Gain(acc, j)
                                                  \/ Gain(acc, i) = Gain(acc, j) /\ i <= j
    BY <2>4, <2>6
  <2>8. Best(acc) \in Left(acc)
    BY <2>7
  <2> HIDE DEF Best
  <2> QED BY <2>1, <2>8
<1>2. b \in S
  OBVIOUS
<1>3. ASSUME NEW acc \in S PROVE Round(acc) \in S
  <2>1. CASE Stop(acc)
    <3> HIDE DEF Stop
    <3> QED BY <2>1
  <2>2. CASE ~Stop(acc)
    <3>1. Left(acc) # {}
      BY <2>2
    <3>2. Best(acc) \in D
      BY <1>1, <3>1
    <3> HIDE DEF Stop, Best, Left
    <3> QED BY <2>2, <3>2
  <2> QED BY <2>1, <2>2
<1> HIDE DEF S, b, Round
<1>4. G \in [1..accept -> [S -> S]]
  BY <1>3
<1>5. PICK f \in [0..accept -> S] : Follows(f, accept, b, G)
  <2> HIDE DEF G
  <2> QED BY <1>2, <1>4, Recursion
<1>6. F(f)
  <2>1. ASSUME NEW n \in 1..accept PROVE f[n] = Round(f[n - 1])
    <3>1. n - 1 \in 0..accept
      OBVIOUS
    <3>2. f[n - 1] \in S
      BY <1>5, <3>1
    <3> QED BY <1>5, <3>2 DEF Follows
  <2>2. f[0] = b /\ f = [n \in 0..accept |-> f[n]]
    BY <1>5 DEF Follows
  <2>3. \A n \in 0..accept : n = 0 \/ n \in 1..accept
    OBVIOUS
  <2> QED BY <2>1, <2>2, <2>3
<1>7. F(u)
  <2> HIDE DEF F
  <2> QED BY <1>6
<1>8. Cover(sets, floor, accept) = u[accept].chosen
  BY DEF Cover, Round, b
<1> HIDE DEF u
<1>9. u[0] = b /\ \A n \in 1..accept : u[n] = Round(u[n - 1])
  BY <1>7
<1>10. \A n \in 0..accept : u[n] \in S
  <2>1. u[0] \in S
    BY <1>2, <1>9
  <2>2. \A n \in 1..accept : u[n - 1] \in S => u[n] \in S
    BY <1>3, <1>9
  <2> HIDE DEF S, Round
  <2> QED BY <2>1, <2>2, Stays
<1> QED BY <1>8, <1>10 DEF S

-----------------------------------------------------------------------------
(* The selection: what is claimed for the picks is in the union, and new.  *)

FilesIn(ps) == {ps[i].file : i \in DOMAIN ps}
Sums(f, ps) == f[0] = 0 /\ \A k \in 1..Len(ps) : f[k] = f[k - 1] + ps[k].novel
Gained(folded, ps) == (FoldOf(FilesIn(ps)) \ census) \cap folded
Backed(folded, ps) ==
    \E f \in [0..Len(ps) -> Nat] : Sums(f, ps) /\ f[Len(ps)] <= Cardinality(Gained(folded, ps))
Mintable(ps) == \A i \in DOMAIN ps : ps[i].novel >= MinNovel /\ ps[i].file \notin KnownUrls
Accepted == {acc \in [union : SUBSET Endpoints, picks : Seq(Picks)] :
                Backed(acc.union, acc.picks) /\ Mintable(acc.picks)}

LEMMA GainedFinite ==
    ASSUME NEW folded \in SUBSET Endpoints, NEW ps
    PROVE  Gained(folded, ps) \in SUBSET Endpoints /\ Cardinality(Gained(folded, ps)) \in Nat
<1>1. Gained(folded, ps) \in SUBSET Endpoints
  BY DEF Gained
<1> QED BY <1>1, EndpointSets

\* Endpoints that join the union take nothing back.
LEMMA GrowUnion ==
    ASSUME NEW acc \in Accepted, NEW E \in SUBSET Endpoints
    PROVE  [acc EXCEPT !.union = @ \cup E] \in Accepted
<1>1. /\ acc.union \in SUBSET Endpoints /\ acc.picks \in Seq(Picks)
      /\ Backed(acc.union, acc.picks) /\ Mintable(acc.picks)
      /\ acc = [union |-> acc.union, picks |-> acc.picks]
  BY DEF Accepted
<1>2. PICK f \in [0..Len(acc.picks) -> Nat] :
        Sums(f, acc.picks) /\ f[Len(acc.picks)] <= Cardinality(Gained(acc.union, acc.picks))
  BY <1>1 DEF Backed
<1>3. acc.union \cup E \in SUBSET Endpoints
  BY <1>1
<1>4. Gained(acc.union, acc.picks) \subseteq Gained(acc.union \cup E, acc.picks)
  BY DEF Gained
<1>5. Cardinality(Gained(acc.union, acc.picks)) <= Cardinality(Gained(acc.union \cup E, acc.picks))
  BY <1>3, <1>4, GainedFinite, EndpointSets, FS_Subset
<1>6. Backed(acc.union \cup E, acc.picks)
  <2>1. f[Len(acc.picks)] \in Nat
    BY <1>1, <1>2
  <2>2. /\ Cardinality(Gained(acc.union, acc.picks)) \in Nat
        /\ Cardinality(Gained(acc.union \cup E, acc.picks)) \in Nat
    BY <1>1, <1>3, GainedFinite
  <2>3. f[Len(acc.picks)] <= Cardinality(Gained(acc.union \cup E, acc.picks))
    BY <1>2, <1>5, <2>1, <2>2
  <2> QED BY <1>2, <2>3 DEF Backed
<1>7. [acc EXCEPT !.union = @ \cup E] = [union |-> acc.union \cup E, picks |-> acc.picks]
  BY <1>1
<1> QED BY <1>1, <1>3, <1>6, <1>7 DEF Accepted

LEMMA PickAccepted ==
    ASSUME NEW acc \in Accepted, NEW f \in Files, NEW r \in Repos
    PROVE  Pick(acc, f, r) \in Accepted
<1> DEFINE n == Novel(f, acc.union)
           u == Folded(f, acc.union)
           x == [file |-> f, repo |-> r, novel |-> n]
           ps == acc.picks
           qs == Append(ps, x)
           New == EndpointsOf[f] \ (census \cup acc.union)
<1>1. /\ acc.union \in SUBSET Endpoints /\ ps \in Seq(Picks)
      /\ Backed(acc.union, ps) /\ Mintable(ps)
  BY DEF Accepted
<1>2. EndpointsOf[f] \in SUBSET Endpoints
  BY EndpointSets, PassNumbers
<1>3. New \in SUBSET Endpoints /\ IsFiniteSet(New) /\ n = Cardinality(New) /\ n \in Nat
  <2>1. New \in SUBSET Endpoints
    BY <1>2
  <2> QED BY <2>1, EndpointSets DEF Novel
<1>4. u \in SUBSET Endpoints
  BY <1>1, <1>2 DEF Folded
<1>5. Pick(acc, f, r) = IF f \in KnownUrls \/ n < MinNovel THEN acc ELSE [union |-> u, picks |-> qs]
  BY DEF Pick
<1>6. CASE f \in KnownUrls \/ n < MinNovel
  <2> HIDE DEF n, u, qs
  <2> QED BY <1>5, <1>6
<1>7. CASE ~(f \in KnownUrls \/ n < MinNovel)
  <2>1. x \in Picks /\ x.file = f /\ x.novel = n
    BY <1>3 DEF Picks
  <2> HIDE DEF x
  <2>2. /\ qs \in Seq(Picks) /\ Len(qs) = Len(ps) + 1 /\ Len(ps) \in Nat
        /\ \A i \in 1..Len(ps) : qs[i] = ps[i]
        /\ qs[Len(ps) + 1] = x
    BY <1>1, <2>1
  <2> HIDE DEF n, u, ps, qs, New
  <2>3. DOMAIN qs = 1..(Len(ps) + 1) /\ DOMAIN ps = 1..Len(ps)
    BY <1>1, <2>2
  <2>4. Mintable(qs)
    <3>1. ASSUME NEW i \in DOMAIN qs PROVE qs[i].novel >= MinNovel /\ qs[i].file \notin KnownUrls
      <4>1. CASE i \in 1..Len(ps)
        BY <1>1, <2>2, <2>3, <4>1 DEF Mintable
      <4>2. CASE i = Len(ps) + 1
        <5>1. n >= MinNovel /\ f \notin KnownUrls
          BY <1>3, <1>7, PassNumbers
        <5> QED BY <2>1, <2>2, <4>2, <5>1
      <4> QED BY <2>2, <2>3, <4>1, <4>2
    <3> QED BY <3>1 DEF Mintable
  <2>5. FilesIn(qs) = FilesIn(ps) \cup {f}
    <3>1. \A y \in FilesIn(qs) : y \in FilesIn(ps) \/ y = f
      BY <2>1, <2>2, <2>3 DEF FilesIn
    <3>2. \A y \in FilesIn(ps) : y \in FilesIn(qs)
      BY <2>2, <2>3 DEF FilesIn
    <3>3. f \in FilesIn(qs)
      <4>1. Len(ps) + 1 \in DOMAIN qs /\ qs[Len(ps) + 1].file = f
        BY <2>1, <2>2, <2>3
      <4> QED BY <4>1 DEF FilesIn
    <3> QED BY <3>1, <3>2, <3>3
  <2>6. /\ Gained(acc.union, ps) \cap New = {}
        /\ Gained(acc.union, ps) \cup New \subseteq Gained(u, qs)
    BY <2>5 DEF Gained, New, FoldOf, Folded, u
  <2>7. Cardinality(Gained(acc.union, ps)) + n <= Cardinality(Gained(u, qs))
    <3> DEFINE A == Gained(acc.union, ps)
               B == Gained(u, qs)
    <3>1. /\ IsFiniteSet(A) /\ Cardinality(A) \in Nat
          /\ IsFiniteSet(B) /\ Cardinality(B) \in Nat
      BY <1>1, <1>4, GainedFinite, EndpointSets
    <3> HIDE DEF A, B
    <3>2. A \cap New = {} /\ A \cup New \in SUBSET B
      BY <2>6 DEF A, B
    <3>3. Cardinality(A \cup New) = Cardinality(A) + Cardinality(New) - Cardinality(A \cap New)
      BY <1>3, <3>1, FS_Union
    <3>4. Cardinality(A \cap New) = 0
      BY <3>2, FS_EmptySet
    <3>5. Cardinality(A \cup New) <= Cardinality(B)
      BY <3>1, <3>2, FS_Subset
    <3> QED BY <1>3, <3>1, <3>3, <3>4, <3>5 DEF A, B
  <2>8. Backed(u, qs)
    <3>1. PICK g \in [0..Len(ps) -> Nat] :
            Sums(g, ps) /\ g[Len(ps)] <= Cardinality(Gained(acc.union, ps))
      BY <1>1 DEF Backed
    <3> DEFINE h == [k \in 0..Len(qs) |-> IF k <= Len(ps) THEN g[k] ELSE g[Len(ps)] + n]
    <3>2. h \in [0..Len(qs) -> Nat] /\ h[Len(qs)] = g[Len(ps)] + n /\ h[0] = g[0]
          /\ \A k \in 0..Len(ps) : h[k] = g[k]
      BY <1>3, <2>2, <3>1
    <3> HIDE DEF h
    <3>3. ASSUME NEW k \in 1..Len(qs) PROVE h[k] = h[k - 1] + qs[k].novel
      <4>1. CASE k \in 1..Len(ps)
        BY <2>2, <3>1, <3>2, <4>1 DEF Sums
      <4>2. CASE k = Len(ps) + 1
        <5>1. k - 1 \in 0..Len(ps) /\ k - 1 = Len(ps)
          BY <2>2, <4>2
        <5> QED BY <2>1, <2>2, <3>2, <4>2, <5>1
      <4> QED BY <2>2, <4>1, <4>2
    <3>4. h[0] = 0
      BY <3>1, <3>2 DEF Sums
    <3>5. h[Len(qs)] <= Cardinality(Gained(u, qs))
      <4>1. /\ g[Len(ps)] \in Nat /\ Cardinality(Gained(acc.union, ps)) \in Nat
            /\ Cardinality(Gained(u, qs)) \in Nat
        <5>1. g[Len(ps)] \in Nat
          BY <2>2, <3>1
        <5>2. Cardinality(Gained(acc.union, ps)) \in Nat
          BY <1>1, GainedFinite
        <5>3. Cardinality(Gained(u, qs)) \in Nat
          BY <1>4, GainedFinite
        <5> QED BY <5>1, <5>2, <5>3
      <4>2. h[Len(qs)] = g[Len(ps)] + n /\ g[Len(ps)] <= Cardinality(Gained(acc.union, ps))
        BY <3>1, <3>2
      <4> QED BY <1>3, <2>7, <4>1, <4>2
    <3>6. Sums(h, qs)
      BY <3>3, <3>4 DEF Sums
    <3> QED BY <3>2, <3>5, <3>6 DEF Backed
  <2>9. [union |-> u, picks |-> qs] \in Accepted
    BY <1>4, <2>2, <2>4, <2>8 DEF Accepted
  <2> QED BY <1>5, <1>7, <2>9
<1> QED BY <1>6, <1>7

LEMMA RepoAccepted ==
    ASSUME NEW acc \in Accepted, NEW r \in Repos, listed \in [Repos -> Seq(Files)]
    PROVE  SelectRepo(acc, r) \in Accepted
<1> DEFINE alive == {i \in DOMAIN listed[r] : outcome[listed[r][i]] = "live"}
           known == {listed[r][i] : i \in alive} \cap KnownUrls
           sets == [i \in alive |-> EndpointsOf[listed[r][i]]]
           order == Cover(sets, CoverFloor(sets), AcceptPerRepo)
           b == [acc EXCEPT !.union = @ \cup (FoldOf(known) \ census)]
           F(f) == f = [n \in 0..Len(order) |-> IF n = 0 THEN b
                                                ELSE Pick(f[n - 1], listed[r][order[n]], r)]
           G == [n \in 1..Len(order) |-> [a \in Accepted |-> Pick(a, listed[r][order[n]], r)]]
           u == CHOOSE f : F(f)
<1>1. /\ listed[r] \in Seq(Files) /\ alive \in SUBSET Nat /\ alive \subseteq DOMAIN listed[r]
      /\ \A i \in alive : listed[r][i] \in Files
  <2>1. listed[r] \in Seq(Files)
    OBVIOUS
  <2>2. \A i \in DOMAIN listed[r] : i \in Nat /\ listed[r][i] \in Files
    BY <2>1
  <2> QED BY <2>1, <2>2
<1>2. order \in Seq(alive)
  <2>1. sets \in [alive -> SUBSET Endpoints]
    BY <1>1, EndpointSets, PassNumbers
  <2> HIDE DEF sets, alive
  <2> QED BY <1>1, <2>1, CoverSeq, PassNumbers
<1>3. b \in Accepted
  <2>1. known \in SUBSET Urls
    BY <1>1, PassNumbers
  <2>2. FoldOf(known) \ census \in SUBSET Endpoints
    <3> HIDE DEF known
    <3> QED BY <2>1, EndpointSets
  <2> HIDE DEF known
  <2> QED BY <2>2, GrowUnion
<1> HIDE DEF b, sets, alive, known
<1>4. ASSUME NEW n \in 1..Len(order), NEW a \in Accepted
      PROVE  Pick(a, listed[r][order[n]], r) \in Accepted
  <2>1. order[n] \in alive
    BY <1>2
  <2>2. listed[r][order[n]] \in Files
    BY <1>1, <2>1
  <2> QED BY <2>2, PickAccepted
<1>5. Len(order) \in Nat
  BY <1>2
<1> HIDE DEF order
<1>6. G \in [1..Len(order) -> [Accepted -> Accepted]]
  BY <1>4
<1>7. PICK f \in [0..Len(order) -> Accepted] : Follows(f, Len(order), b, G)
  <2> HIDE DEF G
  <2> QED BY <1>3, <1>5, <1>6, Recursion
<1>8. F(f)
  <2>1. ASSUME NEW n \in 1..Len(order) PROVE f[n] = Pick(f[n - 1], listed[r][order[n]], r)
    <3>1. n - 1 \in 0..Len(order)
      BY <1>5
    <3>2. f[n - 1] \in Accepted
      BY <1>7, <3>1
    <3> QED BY <1>7, <3>2 DEF Follows
  <2>2. f[0] = b /\ f = [n \in 0..Len(order) |-> f[n]]
    BY <1>7 DEF Follows
  <2>3. \A n \in 0..Len(order) : n = 0 \/ n \in 1..Len(order)
    BY <1>5
  <2> QED BY <2>1, <2>2, <2>3
<1>9. F(u)
  <2> HIDE DEF F
  <2> QED BY <1>8
<1>10. SelectRepo(acc, r) = u[Len(order)]
  BY DEF SelectRepo, order, b, sets, known, alive
<1> HIDE DEF u
<1>11. u[0] = b /\ \A n \in 1..Len(order) : u[n] = Pick(u[n - 1], listed[r][order[n]], r)
  BY <1>5, <1>9
<1>12. \A n \in 1..Len(order) : u[n - 1] \in Accepted => u[n] \in Accepted
  BY <1>4, <1>11
<1>13. \A n \in 0..Len(order) : u[n] \in Accepted
  BY <1>3, <1>5, <1>11, <1>12, Stays
<1> QED BY <1>5, <1>10, <1>13

LEMMA NothingAccepted == [union |-> {}, picks |-> <<>>] \in Accepted
<1> DEFINE f == [k \in 0..0 |-> 0]
<1>1. f \in [0..Len(<<>>) -> Nat] /\ Sums(f, <<>>) /\ f[Len(<<>>)] = 0
  BY DEF Sums
<1>2. Cardinality(Gained({}, <<>>)) \in Nat
  BY GainedFinite
<1> HIDE DEF f
<1>3. Backed({}, <<>>)
  <2>1. f[Len(<<>>)] <= Cardinality(Gained({}, <<>>))
    BY <1>1, <1>2
  <2> QED BY <1>1, <2>1 DEF Backed
<1>4. Mintable(<<>>)
  BY DEF Mintable
<1>5. [union |-> {}, picks |-> <<>>] \in [union : SUBSET Endpoints, picks : Seq(Picks)]
  OBVIOUS
<1> QED BY <1>3, <1>4, <1>5 DEF Accepted

LEMMA ChosenAccepted ==
    ASSUME admitted \in Seq(Repos), listed \in [Repos -> Seq(Files)] PROVE Chosen \in Accepted
<1> DEFINE b == [union |-> {}, picks |-> <<>>]
           N == Len(admitted)
           F(f) == f = [k \in 0..Len(admitted) |-> IF k = 0 THEN [union |-> {}, picks |-> <<>>]
                                                   ELSE SelectRepo(f[k - 1], admitted[k])]
           G == [k \in 1..N |-> [a \in Accepted |-> SelectRepo(a, admitted[k])]]
           u == CHOOSE f : F(f)
<1>1. N \in Nat /\ \A k \in 1..N : admitted[k] \in Repos
  OBVIOUS
<1>2. ASSUME NEW k \in 1..N, NEW a \in Accepted PROVE SelectRepo(a, admitted[k]) \in Accepted
  BY <1>1, RepoAccepted
<1>3. b \in Accepted
  BY NothingAccepted
<1>4. G \in [1..N -> [Accepted -> Accepted]]
  BY <1>2
<1>5. PICK f \in [0..N -> Accepted] : Follows(f, N, b, G)
  <2> HIDE DEF G, b, N
  <2> QED BY <1>1, <1>3, <1>4, Recursion
<1>6. F(f)
  <2>1. ASSUME NEW k \in 1..N PROVE f[k] = SelectRepo(f[k - 1], admitted[k])
    <3>1. k - 1 \in 0..N
      BY <1>1
    <3>2. f[k - 1] \in Accepted
      BY <1>5, <3>1
    <3> QED BY <1>5, <3>2 DEF Follows
  <2>2. f[0] = b /\ f = [k \in 0..N |-> f[k]]
    BY <1>5 DEF Follows
  <2>3. \A k \in 0..N : k = 0 \/ k \in 1..N
    BY <1>1
  <2> QED BY <2>1, <2>2, <2>3
<1>7. F(u)
  <2> HIDE DEF F
  <2> QED BY <1>6
<1>8. Chosen = u[N]
  BY DEF Chosen
<1> HIDE DEF u, b
<1>9. u[0] = b /\ \A k \in 1..N : u[k] = SelectRepo(u[k - 1], admitted[k])
  <2>1. \A k \in 0..N : u[k] = IF k = 0 THEN b ELSE SelectRepo(u[k - 1], admitted[k])
    BY <1>7 DEF b
  <2>2. 0 \in 0..N /\ \A k \in 1..N : k \in 0..N /\ k # 0
    BY <1>1
  <2>3. u[0] = b
    BY <2>1, <2>2
  <2> HIDE DEF N
  <2> QED BY <2>1, <2>2, <2>3
<1>10. \A k \in 1..N : u[k - 1] \in Accepted => u[k] \in Accepted
  BY <1>2, <1>9
<1> HIDE DEF N
<1>11. \A k \in 0..N : u[k] \in Accepted
  BY <1>1, <1>3, <1>9, <1>10, Stays
<1> QED BY <1>1, <1>8, <1>11

\* What is claimed for the picks is what a sum of theirs comes to.
LEMMA ClaimIsSum ==
    ASSUME NEW ps \in Seq(Picks), NEW f \in [0..Len(ps) -> Nat], Sums(f, ps)
    PROVE  LET claimed[n \in 0..Len(ps)] == IF n = 0 THEN 0 ELSE claimed[n - 1] + ps[n].novel
           IN  claimed[Len(ps)] = f[Len(ps)]
<1> DEFINE F(g) == g = [n \in 0..Len(ps) |-> IF n = 0 THEN 0 ELSE g[n - 1] + ps[n].novel]
           u == CHOOSE g : F(g)
           D == [k \in 0..Len(ps) |-> <<u[k], f[k]>>]
           Same == {p \in Nat \X Nat : p[1] = p[2]}
<1>1. Len(ps) \in Nat
  OBVIOUS
<1>2. F(f)
  <2>1. f = [n \in 0..Len(ps) |-> f[n]] /\ f[0] = 0
        /\ \A n \in 1..Len(ps) : f[n] = f[n - 1] + ps[n].novel
    BY DEF Sums
  <2>2. \A n \in 0..Len(ps) : n = 0 \/ n \in 1..Len(ps)
    BY <1>1
  <2> QED BY <2>1, <2>2
<1>3. F(u)
  <2> HIDE DEF F
  <2> QED BY <1>2
<1> HIDE DEF u
<1>4. u[0] = 0 /\ \A n \in 1..Len(ps) : u[n] = u[n - 1] + ps[n].novel
  BY <1>1, <1>3
<1>5. D[0] \in Same
  <2>1. D[0] = <<u[0], f[0]>> /\ u[0] = 0 /\ f[0] = 0
    BY <1>1, <1>4 DEF Sums
  <2> HIDE DEF D
  <2> QED BY <2>1
<1>6. ASSUME NEW k \in 1..Len(ps), D[k - 1] \in Same PROVE D[k] \in Same
  <2>1. /\ k - 1 \in 0..Len(ps) /\ D[k - 1] = <<u[k - 1], f[k - 1]>>
        /\ k \in 0..Len(ps) /\ D[k] = <<u[k], f[k]>>
    BY <1>1
  <2>2. u[k - 1] = f[k - 1]
    BY <1>6, <2>1
  <2>3. u[k] = f[k] /\ f[k] \in Nat
    BY <1>4, <2>1, <2>2 DEF Sums
  <2> HIDE DEF D
  <2> QED BY <2>1, <2>3
<1>7. u[Len(ps)] = f[Len(ps)]
  <2>1. \A k \in 0..Len(ps) : D[k] \in Same
    <3> HIDE DEF D, Same
    <3> QED BY <1>1, <1>5, <1>6, Stays
  <2>2. Len(ps) \in 0..Len(ps) /\ D[Len(ps)] = <<u[Len(ps)], f[Len(ps)]>>
    BY <1>1
  <2> HIDE DEF D
  <2> QED BY <2>1, <2>2
<1> QED BY <1>7 DEF u

-----------------------------------------------------------------------------
(* Types, with what the program points imply.                              *)

ScanPoints ==
    /\ at = "topic" => node.ref.topic # 0
    /\ at = "climb" => rung \in Topics
PassPoints ==
    /\ tries > 0 => step \in {"code", "repo", "admit", "trees"}
    /\ step = "code" /\ tries > 0 => codeUsed > 0
    /\ step = "repo" /\ tries > 0 => repoUsed > 0
    /\ step = "admit" /\ tries > 0 => todo # <<>> /\ (Head(todo).productive \/ remaining > 0)

IInv == TypeOK /\ ScanPoints /\ PassPoints /\ lost <= faults

LEMMA RecentType ==
    ASSUME NEW D, NEW n \in Nat, NEW m \in [D -> 0..n], NEW Rank, NEW cap
    PROVE  Recent(m, Rank, cap) \in [D -> 0..n]
BY DEF Recent

LEMMA FreshType ==
    ASSUME NEW D, NEW n \in Nat, NEW m \in [D -> 0..n] PROVE Fresh(m) \in [D -> 0..n]
BY DEF Fresh

LEMMA Modulo ==
    ASSUME NEW a \in Nat, NEW n \in Nat \ {0} PROVE a % n \in 0..(n - 1)
OBVIOUS

LEMMA NodeFacts ==
    ASSUME NEW n \in Node
    PROVE  /\ n.ref \in Refs /\ n.ref.slug \in Slugs /\ n.ref.slug \in Origins
           /\ n.depth \in 0..(MaxDepth + 1) /\ Bare(n.ref.slug) \in Refs
           /\ n.ref.topic \in Topics \cup {0} /\ n.ref.topic \in Nat
<1>1. Slugs \subseteq Origins /\ Topics \subseteq Nat
  BY ScanAssumption
<1>2. n.ref \in [slug : Slugs, topic : Topics \cup {0}] /\ n.depth \in 0..(MaxDepth + 1)
  BY DEF Node, Refs
<1>3. n.ref.slug \in Slugs /\ n.ref.topic \in Topics \cup {0} /\ n.ref \in Refs
  BY <1>2 DEF Refs
<1>4. Bare(n.ref.slug) \in Refs
  BY <1>3 DEF Bare, Refs
<1>5. n.ref.topic \in Nat
  <2>1. \A t \in Topics \cup {0} : t \in Nat
    BY <1>1
  <2> QED BY <1>3, <2>1, Zenon
<1> QED BY <1>1, <1>2, <1>3, <1>4, <1>5

LEMMA NoPages == <<>> \in Seq(PageShape)
OBVIOUS

LEMMA NoNodes == <<>> \in Seq(Node)
OBVIOUS

LEMMA AskType ==
    ASSUME asked \in [InForum -> Nat], NEW r \in InForum, Ask(r)
    PROVE  /\ asked' \in [InForum -> Nat] /\ asked'[r] = asked[r] + 1
           /\ \A q \in InForum : q # r => asked'[q] = asked[q]
BY DEF Ask

LEMMA PopType ==
    ASSUME roots \subseteq Node, queue \in Seq(Node), NEW n \in Waiting, Pop(n)
    PROVE  /\ n \in Node /\ roots' \subseteq Node /\ queue' \in Seq(Node)
           /\ \/ n \in roots /\ roots' \subseteq roots /\ queue' = queue
              \/ /\ roots = {} /\ roots' = {} /\ queue # <<>> /\ n = queue[1]
                 /\ Len(queue') = Len(queue) - 1
                 /\ \A i \in 1..Len(queue') : queue'[i] = queue[i + 1]
<1>1. CASE roots # {}
  BY <1>1 DEF Waiting, Pop
<1>2. CASE roots = {}
  <2>1. queue # <<>> /\ n = Head(queue) /\ queue' = Tail(queue) /\ roots' = {}
    BY <1>2 DEF Waiting, Pop
  <2> QED BY <1>2, <2>1, HeadTailProperties
<1> QED BY <1>1, <1>2

LEMMA NoNodeFacts == NoNode \in Node /\ NoNode.ref.topic = 0
<1>1. (CHOOSE s \in Slugs : TRUE) \in Slugs
  BY ScanAssumption
<1> QED BY <1>1, ScanNumbers DEF NoNode, Node, Refs, Bare

LEMMA SeedNodes ==
    ASSUME productive \in [Refs -> 0..MaxCycles]
    PROVE  Seeds \subseteq Node /\ \A n \in Seeds : n.depth = 0 /\ ~n.carved
<1> DEFINE named == Configured \cup Remembered
           seed(r) == [ref |-> r, depth |-> 0, carved |-> FALSE,
                       configured |-> r \in Configured \/ Bare(r.slug) \in Configured]
<1>1. named \subseteq Refs
  BY ScanAssumption DEF Remembered
<1>2. 0 \in 0..(MaxDepth + 1)
  BY ScanNumbers
<1>3. \A n \in Seeds : \E r \in named : n = seed(r)
  BY DEF Seeds
<1>4. ASSUME NEW r \in named PROVE seed(r) \in Node /\ seed(r).depth = 0 /\ ~seed(r).carved
  <2>1. (r \in Configured \/ Bare(r.slug) \in Configured) \in BOOLEAN
    OBVIOUS
  <2> DEFINE c == r \in Configured \/ Bare(r.slug) \in Configured
  <2>2. r \in Refs
    BY <1>1
  <2> HIDE DEF c, named
  <2>3. c \in BOOLEAN
    BY DEF c
  <2>4. [ref |-> r, depth |-> 0, carved |-> FALSE, configured |-> c] \in Node
    BY <1>2, <2>2, <2>3 DEF Node
  <2> QED BY <2>4 DEF c
<1> HIDE DEF seed, named
<1> QED BY <1>3, <1>4

LEMMA Rungs ==
    /\ FirstRung \in Topics /\ \A j \in Topics : FirstRung <= j
    /\ \A i \in Topics : Above(i) # {} =>
          /\ RungAfter(i) \in Topics /\ RungAfter(i) > i /\ RungAfter(i) # 0
          /\ \A j \in Topics : j > i => j >= RungAfter(i)
    /\ \A i \in Topics : Above(i) = {} => RungAfter(i) = 0
<1>1. Topics \in SUBSET Nat /\ Topics # {} /\ 0 \notin Topics
  BY ScanAssumption
<1>2. \E i \in Topics : \A j \in Topics : i <= j
  BY <1>1, Smallest
<1>3. ASSUME NEW i \in Topics, Above(i) # {}
      PROVE  /\ RungAfter(i) \in Topics /\ RungAfter(i) > i /\ RungAfter(i) # 0
             /\ \A j \in Topics : j > i => j >= RungAfter(i)
  <2>1. Above(i) \in SUBSET Nat
    BY <1>1 DEF Above
  <2>2. \E j \in Above(i) : \A k \in Above(i) : j <= k
    BY <1>3, <2>1, Smallest
  <2>3. RungAfter(i) \in Above(i) /\ \A k \in Above(i) : RungAfter(i) <= k
    BY <1>3, <2>2 DEF RungAfter
  <2>4. RungAfter(i) \in Nat
    BY <2>1, <2>3
  <2> HIDE DEF RungAfter
  <2> QED BY <1>1, <2>3, <2>4 DEF Above
<1>4. FirstRung \in Topics /\ \A j \in Topics : FirstRung <= j
  BY <1>2 DEF FirstRung
<1> QED BY <1>3, <1>4 DEF RungAfter

-----------------------------------------------------------------------------
(* The scan keeps its types.                                               *)

LEMMA FaultTypes ==
    ASSUME faults \in 0..MaxFaults, Fine \/ Fault
    PROVE  faults' \in 0..MaxFaults /\ faults <= faults'
BY ScanNumbers DEF Fine, Fault

LEMMA ScanStep ==
    ASSUME WorldOK, ScanOK, ScanPoints, ScanNext, UNCHANGED cycle
    PROVE  ScanOK' /\ ScanPoints' /\ WorldOK' /\ faults <= faults'
<1> USE DEF WorldOK, ScanOK
<1>0. faults \in Nat /\ MaxFaults \in Nat
  BY ScanNumbers
<1>1. CASE BeginScan
  <2>1. LadderGroups \in 0..LadderGroups
    BY ScanNumbers
  <2> QED BY <1>0, <1>1, <2>1, SeedNodes DEF BeginScan, admission, answer, ScanPoints
<1>2. CASE EndScan
  BY <1>0, <1>2 DEF EndScan, seeding, admission, answer, climbing, ScanPoints
<1>3. CASE Refuse
  <2>1. PICK n \in Waiting : at = "next" /\ Pop(n)
    BY <1>3 DEF Refuse
  <2>2. roots' \subseteq Node /\ queue' \in Seq(Node)
    BY <2>1, PopType
  <2> QED BY <1>0, <1>3, <2>2 DEF Refuse, admission, answer, climbing, ScanPoints
<1>4. CASE Admit
  <2>1. PICK n \in Waiting :
          /\ at = "next" /\ Pop(n) /\ Admissible(n)
          /\ at' = "listing" /\ node' = n
          /\ visited' = visited \cup {n.ref.slug} /\ topicsSeen' = MarkSeen(n)
          /\ discovered' = IF n.depth > 0 THEN discovered + 1 ELSE discovered
          /\ UNCHANGED <<answer, climbing, productive, asked, missed, live, faults>>
    BY <1>4 DEF Admit
  <2>2. roots' \subseteq Node /\ queue' \in Seq(Node) /\ n \in Node
    BY <2>1, PopType
  <2>3. discovered' \in 0..MaxDiscovered
    BY <2>1, ScanNumbers DEF Admissible
  <2>4. visited' \subseteq Slugs /\ topicsSeen' \subseteq Refs
    BY <2>1, <2>2, NodeFacts DEF MarkSeen
  <2> QED BY <1>0, <2>1, <2>2, <2>3, <2>4 DEF answer, climbing, ScanPoints
<1>5. CASE ReadListing
  <2>1. Walk(node) \in Seq(PageShape)
    BY Walks
  <2>2. pages' \in Seq(PageShape) /\ failed' \in BOOLEAN /\ (Fine \/ Fault)
    <3>1. CASE pages' = Walk(node) /\ failed' = FALSE /\ Fine
      BY <2>1, <3>1
    <3>2. CASE \E k \in 0..Len(Walk(node)) :
                  pages' = SubSeq(Walk(node), 1, k) /\ failed' = TRUE /\ Fault
      BY <2>1, <3>2, Prefix
    <3> QED BY <1>5, <3>1, <3>2 DEF ReadListing
  <2>3. faults' \in 0..MaxFaults /\ faults <= faults'
    BY <2>2, FaultTypes
  <2>4. at' \in {"topic", "deadend", "harvest"} /\ (at' = "topic" => node.ref.topic # 0)
    BY <1>5 DEF ReadListing, NeedsTopic
  <2>5. UNCHANGED <<seeding, admission, node, viaTopic, climbing, productive, asked, missed, live>>
    BY <1>5 DEF ReadListing
  <2> QED BY <1>0, <2>2, <2>3, <2>4, <2>5 DEF seeding, admission, climbing, ScanPoints
<1>6. CASE ReadTopic
  <2>1. faults' \in 0..MaxFaults /\ faults <= faults'
    BY <1>6, FaultTypes DEF ReadTopic
  <2>2. node.ref \in InForum
    BY <1>6, NodeFacts DEF ReadTopic, ScanPoints, InForum
  <2>3. Discussion(node.ref) \in Seq(PageShape)
    BY <2>2, ScanAssumption DEF Discussion
  <2>4. asked' \in [InForum -> Nat]
    BY <1>6, <2>2, AskType DEF ReadTopic
  <2>5. pages' \in Seq(PageShape)
    <3>1. pages' = Discussion(node.ref) \/ pages' = <<>>
      BY <1>6 DEF ReadTopic
    <3> QED BY <2>3, <3>1, NoPages
  <2>6. /\ viaTopic' = TRUE /\ at' = "harvest"
        /\ UNCHANGED <<seeding, admission, node, failed, climbing, productive, missed, live>>
    BY <1>6 DEF ReadTopic
  <2> QED
    BY <1>0, <2>1, <2>4, <2>5, <2>6 DEF seeding, admission, climbing, ScanPoints
<1>7. CASE LeaveDeadEnd
  BY <1>0, <1>7 DEF LeaveDeadEnd, seeding, admission, answer, climbing, ScanPoints
<1>8. CASE BeginClimb
  <2>1. groups - 1 \in 0..LadderGroups
    BY <1>8, ScanNumbers DEF BeginClimb
  <2>2. [ladders EXCEPT ![node.ref.slug] = cycle] \in [Slugs -> 0..MaxCycles]
    OBVIOUS
  <2> QED
    BY <1>0, <1>8, <2>1, <2>2, Rungs DEF BeginClimb, seeding, admission, answer, ScanPoints
<1>9. CASE Climb
  <2> DEFINE r == [slug |-> node.ref.slug, topic |-> rung]
  <2>1. r \in InForum /\ rung \in Topics
    BY <1>9, NodeFacts, ScanAssumption DEF Climb, ScanPoints, InForum, Refs
  <2>2. faults' \in 0..MaxFaults /\ faults <= faults'
    BY <1>9, FaultTypes DEF Climb
  <2>3. asked' \in [InForum -> Nat]
    BY <1>9, <2>1, AskType DEF Climb
  <2>4. productive' \in [Refs -> 0..MaxCycles] /\ missed' \subseteq InForum
    BY <1>9, <2>1 DEF Climb, Record
  <2>5. RungAfter(rung) \in Topics \cup {0}
    BY <2>1, Rungs
  <2>6. /\ rung' = RungAfter(rung) /\ at' = IF RungAfter(rung) = 0 THEN "harvest" ELSE "climb"
        /\ UNCHANGED <<seeding, admission, node, answer, groups, ladders, live>>
    BY <1>9 DEF Climb
  <2> QED
    BY <1>0, <2>2, <2>3, <2>4, <2>5, <2>6 DEF seeding, admission, answer, ScanPoints
<1>10. CASE Harvest
  <2>1. PICK hits \in SUBSET (Candidates \cap Alive) :
          /\ IF hits = Candidates \cap Alive THEN Fine ELSE Fault
          /\ live' = Credited(hits)
          /\ IF hits = {} THEN UNCHANGED productive
             ELSE Record(IF viaTopic THEN node.ref ELSE Bare(node.ref.slug))
          /\ queue' = IF pages # <<>> /\ Expands(hits) THEN queue \o ChildRefs ELSE queue
    BY <1>10 DEF Harvest
  <2>2. faults' \in 0..MaxFaults /\ faults <= faults'
    BY <2>1, FaultTypes
  <2>3. live' \in [Urls -> Origins \cup {None}]
    BY <2>1, NodeFacts DEF Credited
  <2>4. productive' \in [Refs -> 0..MaxCycles]
    BY <2>1 DEF Record
  <2>5. queue' \in Seq(Node)
    <3>1. CASE Expands(hits)
      <4>1. node.depth < MaxDepth
        BY <3>1 DEF Expands
      <4>2. queue \o ChildRefs \in Seq(Node)
        BY <4>1, Children, ConcatProperties
      <4> QED BY <2>1, <4>2
    <3>2. CASE ~Expands(hits)
      BY <2>1, <3>2
    <3> QED BY <3>1, <3>2
  <2>6. /\ at' = "next" /\ pages' = <<>> /\ viaTopic' = FALSE /\ failed' = FALSE /\ node' = NoNode
        /\ UNCHANGED <<roots, admission, climbing, asked, missed>>
    BY <1>10 DEF Harvest
  <2> QED
    BY <1>0, <2>2, <2>3, <2>4, <2>5, <2>6, NoNodeFacts, NoPages
    DEF admission, climbing, ScanPoints
<1> QED
  BY <1>1, <1>2, <1>3, <1>4, <1>5, <1>6, <1>7, <1>8, <1>9, <1>10 DEF ScanNext

-----------------------------------------------------------------------------
(* The pass keeps its types.                                               *)

LEMMA LeastBound ==
    ASSUME NEW a \in Nat, NEW b \in Nat
    PROVE  Least(a, b) \in Nat /\ Least(a, b) <= a /\ Least(a, b) <= b
BY DEF Least

\* Nothing but the program point, and what the call under way says of it.
LEMMA OnlyCall ==
    ASSUME PassOK, WorldOK, UNCHANGED <<census, work, memory, asks, live, cycle>>
    PROVE  /\ CensusOK' /\ SearchOK' /\ AdmitOK' /\ FilesOK' /\ MemoryOK'
           /\ live' \in [Urls -> Origins \cup {None}] /\ cycle' \in 0..MaxCycles
<1>1. CensusOK' /\ SearchOK' /\ AdmitOK'
  BY DEF PassOK, CensusOK, SearchOK, AdmitOK, work, memory
<1>2. FilesOK'
  BY DEF PassOK, FilesOK, work
<1>3. MemoryOK'
  BY DEF PassOK, MemoryOK, memory
<1> QED BY <1>1, <1>2, <1>3 DEF WorldOK

LEMMA PassNats ==
    /\ MaxFaults \in Nat /\ MaxRetries \in Nat /\ MaxRepos \in Nat /\ CodeLen \in Nat /\ RepoLen \in Nat
    /\ Least(SearchCode, CodeLen) \in Nat /\ Least(SearchCode, CodeLen) <= CodeLen
    /\ Least(SearchRepo, RepoLen) \in Nat /\ Least(SearchRepo, RepoLen) <= RepoLen
BY ScanNumbers, PassNumbers, LeastBound

\* A search that has slots to spend, or has spent one, has queries to ask.
LEMMA QuerySlots ==
    ASSUME NEW c \in Nat, NEW u \in Nat, NEW l \in Nat, NEW b \in Nat, b <= l, u <= b
    PROVE  /\ u < b => c + u \in Nat /\ l \in Nat \ {0}
           /\ u > 0 => c + u - 1 \in Nat /\ l \in Nat \ {0}
OBVIOUS

Steady == PassOK /\ PassPoints /\ WorldOK

LEMMA CallSteps ==
    ASSUME Steady, UNCHANGED cycle,
           CapReached \/ BeginPass \/ Again \/ EndAdmit \/ AskTree \/ EndContext
    PROVE  Steady' /\ faults <= faults'
<1>1. UNCHANGED <<census, work, memory, asks, live>>
  BY DEF CapReached, BeginPass, Again, EndAdmit, AskTree, EndContext
<1>2. faults' \in 0..MaxFaults /\ faults <= faults'
  BY PassNats DEF Steady, WorldOK, CapReached, BeginPass, Again, EndAdmit, AskTree, EndContext, Fault
<1>3. CallOK' /\ PassPoints'
  <2>1. UNCHANGED <<codeUsed, repoUsed, todo, remaining>>
    BY <1>1 DEF work
  <2> USE DEF Steady, PassOK, CallOK, PassPoints
  <2>2. CASE CapReached \/ BeginPass
    BY <2>1, <2>2, PassNats DEF CapReached, BeginPass
  <2>3. CASE Again
    BY <2>1, <2>3, PassNats DEF Again
  <2>4. CASE EndAdmit
    <3>1. step' \in {"offer", "trees"} /\ tries' = 0 /\ UNCHANGED ended
      BY <2>4 DEF EndAdmit
    <3> QED BY <2>1, <3>1, PassNats
  <2>5. CASE AskTree
    BY <2>1, <2>5, PassNats DEF AskTree
  <2>6. CASE EndContext
    BY <2>1, <2>6, PassNats DEF EndContext
  <2> QED BY <2>2, <2>3, <2>4, <2>5, <2>6
<1> QED BY <1>1, <1>2, <1>3, OnlyCall DEF Steady, PassOK, WorldOK

LEMMA CensusSteps ==
    ASSUME Steady, UNCHANGED cycle, ReuseCensus \/ BuildCensus \/ KeepStale
    PROVE  Steady' /\ faults <= faults'
<1>1. /\ step = "census" /\ UNCHANGED <<ended, tries, work, cursor, repos, managed, asks, live>>
      /\ step' \in {"done", "code"}
  BY DEF ReuseCensus, BuildCensus, KeepStale, memory, Baseline
<1>2. faults' \in 0..MaxFaults /\ faults <= faults'
  <2>1. Fine \/ Fault
    BY DEF ReuseCensus, BuildCensus, KeepStale, Fine
  <2> QED BY <2>1, FaultTypes DEF Steady, WorldOK
<1>3. CensusOK'
  <2> USE DEF Steady, PassOK, CensusOK
  <2>1. CASE ReuseCensus
    <3>1. censusFile.eps \in SUBSET Endpoints
      BY <2>1 DEF ReuseCensus, Young
    <3>2. census' = censusFile.eps /\ censusFile' = censusFile
      BY <2>1 DEF ReuseCensus, Baseline, memory
    <3> QED BY <3>1, <3>2
  <2>2. CASE BuildCensus
    <3>1. PICK answered \in SUBSET Corpus \ {{}} :
            /\ Baseline(FoldOf(answered))
            /\ \/ censusFile' = [eps |-> FoldOf(answered), at |-> cycle]
               \/ UNCHANGED censusFile
      BY <2>2 DEF BuildCensus
    <3>2. FoldOf(answered) \in SUBSET Endpoints
      <4>1. Corpus \subseteq Urls
        BY PassAssumption DEF Corpus, Carried
      <4> QED BY <4>1, EndpointSets
    <3>3. cycle \in 0..MaxCycles
      BY DEF WorldOK
    <3>4. census' = FoldOf(answered)
      BY <3>1 DEF Baseline
    <3>5. censusFile' \in {None} \cup [eps : SUBSET Endpoints, at : 0..MaxCycles]
      BY <3>1, <3>2, <3>3
    <3> QED BY <3>2, <3>4, <3>5
  <2>3. CASE KeepStale
    <3>1. Stale \in {None} \cup SUBSET Endpoints
      BY DEF Stale
    <3>2. census' = Stale /\ censusFile' = censusFile
      BY <2>3 DEF KeepStale, Baseline, memory
    <3> QED BY <3>1, <3>2
  <2> QED BY <2>1, <2>2, <2>3
<1>4. CallOK' /\ PassPoints'
  <2>1. UNCHANGED <<codeUsed, repoUsed, todo, remaining>>
    BY <1>1 DEF work
  <2> QED BY <1>1, <2>1, PassNats DEF Steady, PassOK, CallOK, PassPoints
<1>5. SearchOK' /\ AdmitOK'
  BY <1>1 DEF Steady, PassOK, SearchOK, AdmitOK, work
<1>6. FilesOK'
  BY <1>1 DEF Steady, PassOK, FilesOK, work
<1>7. MemoryOK'
  BY <1>1 DEF Steady, PassOK, MemoryOK
<1> QED BY <1>1, <1>2, <1>3, <1>4, <1>5, <1>6, <1>7 DEF Steady, PassOK, WorldOK

LEMMA SearchSteps ==
    ASSUME Steady, UNCHANGED cycle, AskCode \/ WalkCode \/ AskRepo \/ WalkRepo
    PROVE  Steady' /\ faults <= faults'
<1>1. UNCHANGED <<ended, census, censusFile, seen, admitted, turn, listed, waiting, inflight,
                  outcome, union, picks, cursor, repos, managed, live>>
  BY DEF AskCode, WalkCode, AskRepo, WalkRepo, memory
<1>2. faults' \in 0..MaxFaults /\ faults <= faults'
  <2>1. Fine \/ Fault
    BY DEF AskCode, WalkCode, AskRepo, WalkRepo, Answered, Rejected, Aborted, Fine
  <2> QED BY <2>1, FaultTypes DEF Steady, WorldOK
<1>3. CensusOK' /\ FilesOK'
  BY <1>1 DEF Steady, PassOK, CensusOK, FilesOK
<1>4. WorldOK'
  BY <1>1, <1>2 DEF Steady, WorldOK
<1> USE DEF Steady, PassOK
<1>5. CASE AskCode
  <2>1. /\ step = "code" /\ tries = 0 /\ codeUsed < Least(SearchCode, CodeLen)
        /\ codeUsed' = codeUsed + 1 /\ tries' = 1
        /\ asks' = [asks EXCEPT ![(cursor.code + codeUsed) % CodeLen] = @ + 1]
        /\ UNCHANGED <<step, repoUsed, found, proposed, todo, remaining>>
    BY <1>5 DEF AskCode
  <2>2. (cursor.code + codeUsed) % CodeLen \in 0..(CodeLen - 1)
    <3>0. cursor.code \in Nat /\ codeUsed \in 0..Least(SearchCode, CodeLen)
      BY DEF MemoryOK, SearchOK
    <3>1. cursor.code + codeUsed \in Nat /\ CodeLen \in Nat \ {0}
      <4>1. codeUsed \in Nat /\ codeUsed <= Least(SearchCode, CodeLen)
        BY <3>0, PassNats
      <4> QED BY <2>1, <3>0, <4>1, PassNats, QuerySlots
    <3> QED BY <3>1, Modulo
  <2>3. MemoryOK'
    <3> DEFINE q == (cursor.code + codeUsed) % CodeLen
    <3>1. q \in 0..(CodeLen - 1) /\ asks' = [asks EXCEPT ![q] = @ + 1]
      BY <2>1, <2>2
    <3> HIDE DEF q
    <3> QED BY <1>1, <3>1 DEF MemoryOK
  <2>4. SearchOK' /\ codeUsed' > 0
    BY <2>1, PassNats DEF SearchOK
  <2>5. AdmitOK'
    BY <1>1, <2>1 DEF AdmitOK
  <2>6. CallOK' /\ PassPoints'
    BY <1>1, <2>1, <2>4, PassNats DEF CallOK, PassPoints
  <2> QED BY <1>2, <1>3, <1>4, <2>3, <2>4, <2>5, <2>6
<1>6. CASE AskRepo
  <2>1. /\ step = "repo" /\ tries = 0 /\ repoUsed < Least(SearchRepo, RepoLen)
        /\ repoUsed' = repoUsed + 1 /\ tries' = 1
        /\ UNCHANGED <<step, codeUsed, found, proposed, todo, remaining, asks>>
    BY <1>6 DEF AskRepo
  <2>2. SearchOK' /\ repoUsed' > 0
    BY <2>1, PassNats DEF SearchOK
  <2>3. AdmitOK' /\ MemoryOK'
    BY <1>1, <2>1 DEF AdmitOK, MemoryOK
  <2>4. CallOK' /\ PassPoints'
    BY <1>1, <2>1, <2>2, PassNats DEF CallOK, PassPoints
  <2> QED BY <1>2, <1>3, <1>4, <2>2, <2>3, <2>4
<1>7. CASE WalkCode
  <2>1. /\ step = "code" /\ tries' = 0 /\ step' \in {"code", "repo"}
        /\ UNCHANGED <<codeUsed, repoUsed, proposed, todo, remaining, asks>>
    BY <1>7 DEF WalkCode, Answered, Rejected, Aborted
  <2>2. found' \in Seq(Repos)
    <3>1. CASE Answered /\ found' = found \o CodeHits[CodeQuery + 1]
      <4>1. cursor.code + codeUsed - 1 \in Nat /\ CodeLen \in Nat \ {0}
        <5>1. codeUsed > 0
          BY <2>1, <3>1 DEF Answered, PassPoints
        <5>2. cursor.code \in Nat /\ codeUsed \in 0..Least(SearchCode, CodeLen)
          BY DEF MemoryOK, SearchOK
        <5>3. codeUsed \in Nat /\ codeUsed <= Least(SearchCode, CodeLen)
          BY <5>2, PassNats
        <5> QED BY <5>1, <5>2, <5>3, PassNats, QuerySlots
      <4>2. CodeQuery \in 0..(CodeLen - 1)
        BY <4>1, Modulo DEF CodeQuery
      <4>3. CodeHits \in Seq(Seq(Repos)) /\ CodeLen = Len(CodeHits)
        BY PassAssumption DEF CodeLen
      <4>4. CodeHits[CodeQuery + 1] \in Seq(Repos)
        BY <4>2, <4>3, PassNats
      <4>5. found \in Seq(Repos)
        BY DEF SearchOK
      <4> QED BY <3>1, <4>4, <4>5, ConcatProperties
    <3>2. CASE UNCHANGED found
      BY <3>2 DEF SearchOK
    <3> QED BY <1>7, <3>1, <3>2 DEF WalkCode
  <2>3. SearchOK'
    BY <2>1, <2>2 DEF SearchOK
  <2>4. AdmitOK' /\ MemoryOK'
    BY <1>1, <2>1 DEF AdmitOK, MemoryOK
  <2>5. CallOK' /\ PassPoints'
    BY <1>1, <2>1, PassNats DEF CallOK, PassPoints
  <2> QED BY <1>2, <1>3, <1>4, <2>3, <2>4, <2>5
<1>8. CASE WalkRepo
  <2>1. /\ step = "repo" /\ tries' = 0 /\ step' \in {"repo", "admit", "offer"}
        /\ UNCHANGED <<codeUsed, repoUsed, found, asks>>
    BY <1>8 DEF WalkRepo, Answered, Rejected, Aborted
  <2>2. proposed' \in Seq(Repos)
    <3>1. CASE Answered /\ proposed' = proposed \o RepoHits[RepoQuery + 1]
      <4>1. cursor.repo + repoUsed - 1 \in Nat /\ RepoLen \in Nat \ {0}
        <5>1. repoUsed > 0
          BY <2>1, <3>1 DEF Answered, PassPoints
        <5>2. cursor.repo \in Nat /\ repoUsed \in 0..Least(SearchRepo, RepoLen)
          BY DEF MemoryOK, SearchOK
        <5>3. repoUsed \in Nat /\ repoUsed <= Least(SearchRepo, RepoLen)
          BY <5>2, PassNats
        <5> QED BY <5>1, <5>2, <5>3, PassNats, QuerySlots
      <4>2. RepoQuery \in 0..(RepoLen - 1)
        BY <4>1, Modulo DEF RepoQuery
      <4>3. RepoHits \in Seq(Seq(Repos)) /\ RepoLen = Len(RepoHits)
        BY PassAssumption DEF RepoLen
      <4>4. RepoHits[RepoQuery + 1] \in Seq(Repos)
        BY <4>2, <4>3, PassNats
      <4>5. proposed \in Seq(Repos)
        BY DEF SearchOK
      <4> QED BY <3>1, <4>4, <4>5, ConcatProperties
    <3>2. CASE UNCHANGED proposed
      BY <3>2 DEF SearchOK
    <3> QED BY <1>8, <3>1, <3>2 DEF WalkRepo
  <2>3. SearchOK'
    BY <2>1, <2>2 DEF SearchOK
  <2>4. MemoryOK'
    BY <1>1, <2>1 DEF MemoryOK
  <2>5. (todo' = Considered /\ remaining' = MaxRepos) \/ UNCHANGED <<todo, remaining>>
    BY <1>8 DEF WalkRepo
  <2>6. todo' \in Seq(FoundRepos) /\ remaining' \in 0..MaxRepos
    <3>1. Considered \in Seq(FoundRepos)
      BY ConsideredSeq DEF MemoryOK, SearchOK
    <3> QED BY <2>5, <3>1, PassNats DEF AdmitOK
  <2>7. AdmitOK'
    BY <1>1, <2>6 DEF AdmitOK
  <2>8. CallOK' /\ PassPoints'
    BY <1>1, <2>1, PassNats DEF CallOK, PassPoints
  <2> QED BY <1>2, <1>3, <1>4, <2>3, <2>4, <2>7, <2>8
<1> QED BY <1>5, <1>6, <1>7, <1>8

LEMMA JudgeTypes ==
    ASSUME admitted \in Seq(Repos), remaining \in 0..MaxRepos, NEW c \in FoundRepos,
           c.productive \/ remaining > 0, Judge(c)
    PROVE  admitted' \in Seq(Repos) /\ remaining' \in 0..MaxRepos
<1>1. c.repo \in Repos
  BY DEF FoundRepos
<1> QED BY <1>1, PassNumbers DEF Judge

LEMMA AdmitSteps ==
    ASSUME Steady, UNCHANGED cycle, Consider \/ FetchMeta
    PROVE  Steady' /\ faults <= faults'
<1>1. /\ step = "admit"
      /\ UNCHANGED <<step, ended, census, censusFile, codeUsed, repoUsed, found, proposed, turn,
           listed, waiting, inflight, outcome, union, picks, cursor, repos, managed, asks, live>>
  BY DEF Consider, FetchMeta, memory
<1>2. faults' \in 0..MaxFaults /\ faults <= faults'
  <2>1. Fine \/ Fault
    BY DEF Consider, FetchMeta, Answered, Rejected, Aborted, Fine
  <2> QED BY <2>1, FaultTypes DEF Steady, WorldOK
<1>3. CensusOK' /\ FilesOK' /\ SearchOK'
  BY <1>1 DEF Steady, PassOK, CensusOK, FilesOK, SearchOK
<1>4. WorldOK' /\ MemoryOK'
  BY <1>1, <1>2 DEF Steady, PassOK, WorldOK, MemoryOK
<1> USE DEF Steady, PassOK
<1>5. CASE Consider
  <2> DEFINE c == Head(todo)
  <2>1. tries = 0 /\ todo # <<>>
    BY <1>5 DEF Consider
  <2>2. c \in FoundRepos /\ Tail(todo) \in Seq(FoundRepos)
    BY <2>1, HeadTailProperties DEF AdmitOK
  <2>3. c.repo \in Repos
    BY <2>2 DEF FoundRepos
  <2> HIDE DEF c
  <2>4. CASE Overlooked(c) /\ todo' = Tail(todo) /\ UNCHANGED <<seen, tries, admitted, remaining>>
    <3>1. AdmitOK'
      BY <2>2, <2>4 DEF AdmitOK
    <3>2. CallOK' /\ PassPoints'
      BY <1>1, <2>1, <2>4, PassNats DEF CallOK, PassPoints
    <3> QED BY <1>2, <1>3, <1>4, <3>1, <3>2
  <2>5. CASE /\ ~Overlooked(c) /\ todo' = Tail(todo) /\ seen' = seen \cup {c.repo} /\ Judge(c)
             /\ UNCHANGED tries
    <3>1. c.productive \/ remaining > 0
      BY <2>5, PassNats DEF Overlooked, AdmitOK
    <3>2. admitted' \in Seq(Repos) /\ remaining' \in 0..MaxRepos
      BY <2>2, <2>5, <3>1, JudgeTypes DEF AdmitOK
    <3>3. AdmitOK'
      BY <2>2, <2>3, <2>5, <3>2 DEF AdmitOK
    <3>4. CallOK' /\ PassPoints'
      BY <1>1, <2>1, <2>5, PassNats DEF CallOK, PassPoints
    <3> QED BY <1>2, <1>3, <1>4, <3>3, <3>4
  <2>6. CASE /\ ~Overlooked(c) /\ seen' = seen \cup {c.repo} /\ tries' = 1
             /\ UNCHANGED <<todo, admitted, remaining>>
    <3>1. c.productive \/ remaining > 0
      BY <2>6, PassNats DEF Overlooked, AdmitOK
    <3>2. AdmitOK'
      BY <2>3, <2>6 DEF AdmitOK
    <3>3. CallOK' /\ PassPoints'
      BY <1>1, <2>1, <2>6, <3>1, PassNats DEF CallOK, PassPoints, c
    <3> QED BY <1>2, <1>3, <1>4, <3>2, <3>3
  <2> QED BY <1>5, <2>4, <2>5, <2>6 DEF Consider, c
<1>6. CASE FetchMeta
  <2>1. /\ tries > 0 /\ todo' = Tail(todo) /\ tries' = 0 /\ UNCHANGED seen
        /\ (Judge(Head(todo)) \/ UNCHANGED <<admitted, remaining>>)
    BY <1>6 DEF FetchMeta, Answered, Rejected, Aborted
  <2>2. todo # <<>> /\ (Head(todo).productive \/ remaining > 0)
    BY <1>1, <2>1 DEF PassPoints
  <2>3. Head(todo) \in FoundRepos /\ Tail(todo) \in Seq(FoundRepos)
    BY <2>2, HeadTailProperties DEF AdmitOK
  <2>4. admitted' \in Seq(Repos) /\ remaining' \in 0..MaxRepos
    BY <2>1, <2>2, <2>3, JudgeTypes DEF AdmitOK
  <2>5. AdmitOK'
    BY <2>1, <2>3, <2>4 DEF AdmitOK
  <2>6. CallOK' /\ PassPoints'
    BY <1>1, <2>1, PassNats DEF CallOK, PassPoints
  <2> QED BY <1>2, <1>3, <1>4, <2>5, <2>6
<1> QED BY <1>5, <1>6

LEMMA FileSteps ==
    ASSUME Steady, UNCHANGED cycle, WalkTrees \/ Dispatch \/ ProbeFile \/ EndProbe \/ SelectFiles
    PROVE  Steady' /\ faults <= faults'
<1>1. /\ UNCHANGED <<ended, census, codeUsed, repoUsed, found, proposed, todo, seen, remaining,
                     admitted, censusFile, cursor, repos, managed, asks, live>>
      /\ tries' \in {tries, 0} /\ step' \in {"trees", "probe", "select", "offer"}
      /\ step # "trees" => tries' = tries
      /\ step = "trees" /\ step' # "trees" => tries' = 0
  BY DEF WalkTrees, Dispatch, ProbeFile, EndProbe, SelectFiles, memory, Answered, Rejected, Aborted
<1>2. faults' \in 0..MaxFaults /\ faults <= faults'
  <2>1. Fine \/ Fault
    BY DEF WalkTrees, Dispatch, ProbeFile, EndProbe, SelectFiles, Answered, Rejected, Aborted, Fine
  <2> QED BY <2>1, FaultTypes DEF Steady, WorldOK
<1>3. CensusOK' /\ SearchOK' /\ AdmitOK'
  BY <1>1 DEF Steady, PassOK, CensusOK, SearchOK, AdmitOK
<1>4. WorldOK' /\ MemoryOK'
  BY <1>1, <1>2 DEF Steady, PassOK, WorldOK, MemoryOK
<1>5. CallOK' /\ PassPoints'
  <2>1. step \in {"trees", "probe", "select"}
    BY DEF WalkTrees, Dispatch, ProbeFile, EndProbe, SelectFiles
  <2>2. tries' > 0 => step' = "trees"
    BY <1>1, <2>1, PassNats DEF Steady, PassOK, CallOK, PassPoints
  <2> QED BY <1>1, <2>1, <2>2, PassNats DEF Steady, PassOK, CallOK, PassPoints
<1>6. FilesOK'
  <2> USE DEF Steady, PassOK, FilesOK
  <2>1. CASE WalkTrees
    <3>1. turn' \in Nat \ {0}
      BY <2>1 DEF WalkTrees
    <3>2. listed' \in [Repos -> Seq(Files)]
      <4>1. CASE listed' = [listed EXCEPT ![admitted[turn]] = CandidatesOf[admitted[turn]]]
        <5>1. CASE admitted[turn] \in Repos
          BY <4>1, <5>1, CandidateSeq
        <5>2. CASE admitted[turn] \notin Repos
          BY <4>1, <5>2
        <5> QED BY <5>1, <5>2
      <4>2. CASE listed' = listed
        BY <4>2
      <4> QED BY <2>1, <4>1, <4>2 DEF WalkTrees
    <3>3. waiting' \in Seq(Files)
      <4>1. waiting' = waiting \/ waiting' = Jobs
        BY <2>1 DEF WalkTrees
      <4>2. Jobs \in Seq(Files)
        BY JobSeq DEF AdmitOK
      <4> QED BY <4>1, <4>2
    <3>4. UNCHANGED <<inflight, outcome, union, picks>>
      BY <2>1 DEF WalkTrees
    <3> QED BY <3>1, <3>2, <3>3, <3>4
  <2>2. CASE Dispatch
    <3>1. Head(waiting) \in Files /\ Tail(waiting) \in Seq(Files)
      BY <2>2, HeadTailProperties DEF Dispatch
    <3>2. inflight' \subseteq Files /\ waiting' \in Seq(Files)
      BY <2>2, <3>1 DEF Dispatch
    <3>3. UNCHANGED <<turn, listed, outcome, union, picks>>
      BY <2>2 DEF Dispatch
    <3> QED BY <3>2, <3>3
  <2>3. CASE ProbeFile
    <3>1. PICK f \in inflight :
            /\ inflight' = inflight \ {f}
            /\ \/ outcome' = [outcome EXCEPT ![f] = Verdict(f)]
               \/ outcome' = [outcome EXCEPT ![f] = "failed"]
      BY <2>3 DEF ProbeFile
    <3>2. outcome' \in [Files -> {"none", "live", "barren", "failed"}]
      BY <3>1 DEF Verdict
    <3>3. UNCHANGED <<turn, listed, waiting, union, picks>>
      BY <2>3 DEF ProbeFile
    <3> QED BY <3>1, <3>2, <3>3
  <2>4. CASE EndProbe
    <3>1. waiting' \in Seq(Files)
      BY <2>4 DEF EndProbe
    <3>2. UNCHANGED <<turn, listed, inflight, outcome, union, picks>>
      BY <2>4 DEF EndProbe
    <3> QED BY <3>1, <3>2
  <2>5. CASE SelectFiles
    <3>1. Chosen \in Accepted
      BY ChosenAccepted DEF AdmitOK
    <3>2. union' \subseteq Endpoints /\ picks' \in Seq(Picks)
      BY <2>5, <3>1 DEF SelectFiles, Accepted
    <3>3. UNCHANGED <<turn, listed, waiting, inflight, outcome>>
      BY <2>5 DEF SelectFiles
    <3> QED BY <3>2, <3>3
  <2> QED BY <2>1, <2>2, <2>3, <2>4, <2>5
<1> QED BY <1>2, <1>3, <1>4, <1>5, <1>6 DEF Steady, PassOK

LEMMA OfferStep ==
    ASSUME Steady, UNCHANGED cycle, AdmitGithub
    PROVE  Steady' /\ faults <= faults'
<1>1. /\ UNCHANGED <<ended, tries, census, work, censusFile, managed, asks, faults>>
      /\ step = "offer" /\ step' = "done" /\ cursor' = RecordCursor
  BY DEF AdmitGithub
<1>2. Admitted \subseteq Picks
  <2>1. \A i \in DOMAIN picks : picks[i] \in Picks
    BY DEF Steady, PassOK, FilesOK
  <2> QED BY <2>1 DEF Admitted, Offered
<1>3. live' \in [Urls -> Origins \cup {None}]
  <2>1. ASSUME NEW u \in Urls, \E p \in Admitted : p.file = u
        PROVE  (CHOOSE p \in Admitted : p.file = u).repo \in Origins
    <3>1. (CHOOSE p \in Admitted : p.file = u) \in Admitted
      BY <2>1
    <3> QED BY <1>2, <3>1, PassNumbers DEF Picks
  <2>2. live \in [Urls -> Origins \cup {None}]
    BY DEF Steady, WorldOK
  <2>3. live' = [u \in Urls |-> IF \E p \in Admitted : p.file = u
                               THEN (CHOOSE p \in Admitted : p.file = u).repo ELSE live[u]]
    BY DEF AdmitGithub
  <2> QED BY <2>1, <2>2, <2>3
<1>4. cursor' \in [code : Nat, repo : Nat]
  <2>1. ASSUME NEW c \in Nat, NEW k \in Nat, NEW n \in Nat PROVE Advance(c, k, n) \in Nat
    <3>1. CASE n = 0
      BY <3>1 DEF Advance
    <3>2. CASE n # 0
      <4>1. (c + k) % n \in 0..(n - 1)
        BY <3>2, Modulo
      <4> QED BY <3>2, <4>1 DEF Advance
    <3> QED BY <3>1, <3>2
  <2>2. cursor.code \in Nat /\ cursor.repo \in Nat /\ codeUsed \in Nat /\ repoUsed \in Nat
    BY PassNats DEF Steady, PassOK, MemoryOK, SearchOK
  <2> QED BY <1>1, <2>1, <2>2, PassNats DEF RecordCursor
<1>5. repos' \in [Repos -> 0..MaxCycles]
  BY DEF AdmitGithub, Steady, WorldOK, PassOK, MemoryOK
<1>6. MemoryOK'
  BY <1>1, <1>4, <1>5 DEF Steady, PassOK, MemoryOK
<1>7. WorldOK' /\ faults <= faults'
  BY <1>1, <1>3, ScanNumbers DEF Steady, WorldOK
<1>8. CensusOK' /\ SearchOK' /\ AdmitOK'
  BY <1>1 DEF Steady, PassOK, CensusOK, SearchOK, AdmitOK, work
<1>9. FilesOK'
  BY <1>1 DEF Steady, PassOK, FilesOK, work
<1>10. CallOK' /\ PassPoints'
  <2>1. UNCHANGED <<codeUsed, repoUsed, todo, remaining>>
    BY <1>1 DEF work
  <2> QED BY <1>1, <2>1, PassNats DEF Steady, PassOK, CallOK, PassPoints
<1> QED BY <1>6, <1>7, <1>8, <1>9, <1>10 DEF Steady, PassOK

LEMMA PassStep ==
    ASSUME Steady, UNCHANGED cycle, PassNext
    PROVE  Steady' /\ faults <= faults'
BY CallSteps, CensusSteps, SearchSteps, AdmitSteps, FileSteps, OfferStep DEF PassNext

-----------------------------------------------------------------------------
(* The cycle keeps its types.                                              *)

LEMMA Kept ==
    ASSUME IInv
    PROVE  /\ PrunedRefs \in [Refs -> 0..MaxCycles] /\ PrunedLadders \in [Slugs -> 0..MaxCycles]
           /\ PrunedRepos \in [Repos -> 0..MaxCycles]
<1>1. /\ MaxCycles \in Nat /\ productive \in [Refs -> 0..MaxCycles]
      /\ ladders \in [Slugs -> 0..MaxCycles] /\ repos \in [Repos -> 0..MaxCycles]
  BY ScanNumbers DEF IInv, TypeOK, ScanOK, PassOK, MemoryOK
<1>2. /\ Fresh(productive) \in [Refs -> 0..MaxCycles] /\ Fresh(ladders) \in [Slugs -> 0..MaxCycles]
      /\ Fresh(repos) \in [Repos -> 0..MaxCycles]
  BY <1>1, FreshType
<1> QED BY <1>1, <1>2, RecentType DEF PrunedRefs, PrunedLadders, PrunedRepos

LEMMA ScanReset ==
    ASSUME ResetScan, missed' \subseteq InForum, productive' \in [Refs -> 0..MaxCycles],
           ladders' \in [Slugs -> 0..MaxCycles]
    PROVE  ScanOK' /\ ScanPoints'
<1>1. 0 \in 0..MaxDiscovered /\ 0 \in 0..LadderGroups
  BY ScanNumbers
<1>2. /\ at' = "off" /\ roots' = {} /\ queue' \in Seq(Node) /\ visited' = {} /\ topicsSeen' = {}
      /\ discovered' = 0 /\ groups' = 0 /\ rung' = 0 /\ node' \in Node /\ pages' \in Seq(PageShape)
      /\ viaTopic' = FALSE /\ failed' = FALSE /\ asked' = [r \in InForum |-> 0]
  BY NoNodeFacts, NoPages, NoNodes DEF ResetScan
<1>3. asked' \in [InForum -> Nat]
  BY <1>2
<1>4. ScanPoints'
  BY <1>2, Zenon DEF ScanPoints
<1> QED BY <1>1, <1>2, <1>3, <1>4 DEF ScanOK

LEMMA PassReset ==
    ASSUME ResetPass, MemoryOK',
           censusFile' \in {None} \cup [eps : SUBSET Endpoints, at : 0..MaxCycles]
    PROVE  PassOK' /\ PassPoints'
<1>1. CallOK' /\ PassPoints'
  <2>1. step' = "off" /\ ended' = FALSE /\ tries' = 0
    BY DEF ResetPass
  <2>2. ~(tries' > 0) /\ 0 \in 0..(MaxRetries + 1)
    BY <2>1, PassNats
  <2>3. PassPoints'
    BY <2>2, Zenon DEF PassPoints
  <2> QED BY <2>1, <2>2, <2>3 DEF CallOK
<1>2. CensusOK'
  BY DEF ResetPass, CensusOK
<1>3. SearchOK' /\ AdmitOK'
  BY PassNats DEF ResetPass, SearchOK, AdmitOK
<1>4. FilesOK'
  BY DEF ResetPass, FilesOK
<1> QED BY <1>1, <1>2, <1>3, <1>4 DEF PassOK

LEMMA StartTyped == Init => IInv
<1> SUFFICES ASSUME Init PROVE IInv
  OBVIOUS
<1> USE DEF Init
<1>1. 0 \in 0..MaxCycles /\ 0 \in 0..MaxFaults
  BY ScanNumbers
<1>2. WorldOK
  BY <1>1 DEF WorldOK
<1>3. ScanOK /\ ScanPoints
  <2>1. 0 \in 0..MaxDiscovered /\ 0 \in 0..LadderGroups
    BY ScanNumbers
  <2>2. /\ at = "off" /\ roots = {} /\ queue \in Seq(Node) /\ visited = {} /\ topicsSeen = {}
        /\ discovered = 0 /\ groups = 0 /\ rung = 0 /\ node \in Node /\ pages \in Seq(PageShape)
        /\ viaTopic = FALSE /\ failed = FALSE /\ missed = {}
    BY NoNodeFacts, NoPages, NoNodes DEF ScanInit, Idle
  <2>3. /\ asked \in [InForum -> Nat] /\ productive \in [Refs -> 0..MaxCycles]
        /\ ladders \in [Slugs -> 0..MaxCycles]
    BY <1>1 DEF ScanInit, Idle
  <2>4. ScanPoints
    BY <2>2, Zenon DEF ScanPoints
  <2> QED BY <2>1, <2>2, <2>3, <2>4 DEF ScanOK
<1>4. CallOK /\ PassPoints
  <2>1. step = "off" /\ ended = FALSE /\ tries = 0
    BY DEF PassInit
  <2>2. ~(tries > 0) /\ 0 \in 0..(MaxRetries + 1)
    BY <2>1, PassNats
  <2>3. PassPoints
    BY <2>2, Zenon DEF PassPoints
  <2> QED BY <2>1, <2>2, <2>3 DEF CallOK
<1>5. CensusOK /\ SearchOK /\ AdmitOK
  BY PassNats DEF PassInit, NoWork, CensusOK, SearchOK, AdmitOK
<1>6. FilesOK
  BY DEF PassInit, NoWork, FilesOK
<1>7. MemoryOK
  BY <1>1 DEF PassInit, MemoryOK
<1>8. disk \in Memories
  BY <1>1 DEF ScanInit, PassInit, Memories
<1> QED BY <1>1, <1>2, <1>3, <1>4, <1>5, <1>6, <1>7, <1>8 DEF IInv, TypeOK, PassOK

LEMMA SavedScan == ASSUME IInv, SaveScan PROVE IInv'
<1>1. /\ phase' = "github" /\ managed' = overlay /\ ResetScan
      /\ productive' = PrunedRefs /\ ladders' = PrunedLadders /\ repos' = PrunedRepos
      /\ UNCHANGED <<step, ended, tries, census, censusFile, work, cursor, asks, overlay, lost,
                     cycle, live, missed>>
  BY DEF SaveScan
<1>2. faults' \in 0..MaxFaults /\ lost' <= faults' /\ lost' \in 0..MaxFaults
  <2>1. faults \in 0..MaxFaults /\ lost \in 0..MaxFaults /\ lost <= faults
    BY DEF IInv, TypeOK, WorldOK
  <2>2. Fine \/ Fault
    BY DEF SaveScan
  <2> QED BY <1>1, <2>1, <2>2, ScanNumbers DEF Fine, Fault
<1>3. ScanOK' /\ ScanPoints'
  <2>1. missed' \subseteq InForum
    BY <1>1 DEF IInv, TypeOK, ScanOK
  <2> QED BY <1>1, <2>1, Kept, ScanReset
<1>4. WorldOK'
  BY <1>1, <1>2 DEF IInv, TypeOK, WorldOK
<1>5. disk' \in Memories
  BY Kept DEF SaveScan, IInv, TypeOK, Memories
<1>6. CallOK' /\ PassPoints'
  BY <1>1 DEF IInv, TypeOK, PassOK, CallOK, PassPoints, work
<1>7. CensusOK' /\ SearchOK' /\ AdmitOK'
  BY <1>1 DEF IInv, TypeOK, PassOK, CensusOK, SearchOK, AdmitOK, work
<1>8. FilesOK'
  BY <1>1 DEF IInv, TypeOK, PassOK, FilesOK, work
<1>9. MemoryOK'
  <2>1. overlay \in [Urls -> Origins \cup {None}]
    BY DEF IInv, TypeOK
  <2> QED BY <1>1, <2>1, Kept DEF IInv, TypeOK, PassOK, MemoryOK
<1>10. overlay' \in [Urls -> Origins \cup {None}]
  BY <1>1 DEF IInv, TypeOK
<1> QED
  BY <1>1, <1>2, <1>3, <1>4, <1>5, <1>6, <1>7, <1>8, <1>9, <1>10 DEF IInv, TypeOK, PassOK

LEMMA SavedPass == ASSUME IInv, SavePass PROVE IInv'
<1>1. /\ phase' = "merge" /\ ResetPass
      /\ UNCHANGED <<overlay, cycle, live, scanVars, censusFile, cursor, repos, managed, asks>>
  BY DEF SavePass
<1>2. faults' \in 0..MaxFaults /\ lost' <= faults' /\ lost' \in 0..MaxFaults
  <2>1. faults \in 0..MaxFaults /\ lost \in 0..MaxFaults /\ lost <= faults
    BY DEF IInv, TypeOK, WorldOK
  <2>2. (Fine /\ lost' = lost) \/ (Fault /\ lost' = lost + 1)
    BY DEF SavePass
  <2> QED BY <1>1, <2>1, <2>2, ScanNumbers DEF Fine, Fault
<1>3. ScanOK' /\ ScanPoints'
  BY <1>1 DEF IInv, TypeOK, ScanOK, ScanPoints, scanVars, seeding, admission, answer, climbing
<1>4. WorldOK' /\ overlay' \in [Urls -> Origins \cup {None}]
  BY <1>1, <1>2 DEF IInv, TypeOK, WorldOK
<1>5. disk' \in Memories
  BY DEF SavePass, IInv, TypeOK, Memories, ScanOK, PassOK, MemoryOK
<1>6. MemoryOK' /\ censusFile' \in {None} \cup [eps : SUBSET Endpoints, at : 0..MaxCycles]
  BY <1>1 DEF IInv, TypeOK, PassOK, MemoryOK, CensusOK
<1>7. PassOK' /\ PassPoints'
  BY <1>1, <1>6, PassReset
<1> QED BY <1>1, <1>2, <1>3, <1>4, <1>5, <1>7 DEF IInv, TypeOK

\* What the next cycle starts from is what the file says.
LEMMA Forgotten ==
    ASSUME IInv, Forget
    PROVE  /\ phase' \in {"idle"} /\ disk' \in Memories /\ cycle' \in 0..MaxCycles
           /\ live' \in [Urls -> Origins \cup {None}]
           /\ productive' \in [Refs -> 0..MaxCycles] /\ ladders' \in [Slugs -> 0..MaxCycles]
           /\ missed' \subseteq InForum /\ MemoryOK'
           /\ censusFile' \in {None} \cup [eps : SUBSET Endpoints, at : 0..MaxCycles]
<1>1. disk \in Memories /\ missed \subseteq InForum /\ cycle \in 0..MaxCycles
  BY DEF IInv, TypeOK, ScanOK, WorldOK
<1>2. /\ asks \in [0..(CodeLen - 1) -> Nat]
      /\ censusFile \in {None} \cup [eps : SUBSET Endpoints, at : 0..MaxCycles]
  BY DEF IInv, TypeOK, PassOK, MemoryOK, CensusOK
<1> QED BY <1>1, <1>2 DEF Forget, Memories, MemoryOK

LEMMA Merged == ASSUME IInv, Merge PROVE IInv'
<1>1. /\ Forget
      /\ UNCHANGED <<lost, at, seeding, admission, node, answer, rung, groups, asked,
                     step, ended, tries, census, work>>
  BY DEF Merge
<1>2. faults' \in 0..MaxFaults /\ lost' <= faults' /\ lost' \in 0..MaxFaults
  <2>1. faults \in 0..MaxFaults /\ lost \in 0..MaxFaults /\ lost <= faults
    BY DEF IInv, TypeOK, WorldOK
  <2>2. Fine \/ Fault
    BY DEF Merge
  <2> QED BY <1>1, <2>1, <2>2, ScanNumbers DEF Fine, Fault
<1>3. overlay' \in [Urls -> Origins \cup {None}]
  BY DEF Merge, IInv, TypeOK, WorldOK
<1>4. ScanOK' /\ ScanPoints'
  BY <1>1, Forgotten DEF IInv, TypeOK, ScanOK, ScanPoints, seeding, admission, answer
<1>5. CallOK' /\ PassPoints'
  BY <1>1 DEF IInv, TypeOK, PassOK, CallOK, PassPoints, work
<1>6. CensusOK' /\ SearchOK' /\ AdmitOK'
  BY <1>1, Forgotten DEF IInv, TypeOK, PassOK, CensusOK, SearchOK, AdmitOK, work
<1>7. FilesOK'
  BY <1>1 DEF IInv, TypeOK, PassOK, FilesOK, work
<1>8. WorldOK'
  BY <1>1, <1>2, Forgotten DEF WorldOK
<1> QED
  BY <1>1, <1>2, <1>3, <1>4, <1>5, <1>6, <1>7, <1>8, Forgotten DEF IInv, TypeOK, PassOK

LEMMA Dropped == ASSUME IInv, Drop PROVE IInv'
<1>1. Fault /\ Forget /\ ResetScan /\ ResetPass /\ UNCHANGED overlay /\ lost' \in {lost, lost + 1}
  BY DEF Drop
<1>2. faults' \in 0..MaxFaults /\ lost' <= faults' /\ lost' \in 0..MaxFaults
  <2>1. faults \in 0..MaxFaults /\ lost \in 0..MaxFaults /\ lost <= faults
    BY DEF IInv, TypeOK, WorldOK
  <2> QED BY <1>1, <2>1, ScanNumbers DEF Fault
<1>3. overlay' \in [Urls -> Origins \cup {None}]
  BY <1>1 DEF IInv, TypeOK
<1>4. ScanOK' /\ ScanPoints'
  BY <1>1, Forgotten, ScanReset
<1>5. PassOK' /\ PassPoints'
  BY <1>1, Forgotten, PassReset
<1>6. WorldOK'
  BY <1>1, <1>2, Forgotten DEF WorldOK
<1> QED BY <1>1, <1>2, <1>3, <1>4, <1>5, <1>6, Forgotten DEF IInv, TypeOK

LEMMA Same == ASSUME IInv, UNCHANGED vars PROVE IInv'
<1>1. WorldOK' /\ ScanOK' /\ ScanPoints'
  BY DEF IInv, TypeOK, WorldOK, ScanOK, ScanPoints, vars, scanVars, seeding, admission, answer,
         climbing
<1>2. CallOK' /\ PassPoints'
  BY DEF IInv, TypeOK, PassOK, CallOK, PassPoints, vars, passVars
<1>3. CensusOK' /\ SearchOK' /\ AdmitOK'
  BY DEF IInv, TypeOK, PassOK, CensusOK, SearchOK, AdmitOK, vars, passVars
<1>4. FilesOK' /\ MemoryOK'
  BY DEF IInv, TypeOK, PassOK, FilesOK, MemoryOK, vars, passVars
<1>5. /\ phase' \in {"idle", "scan", "github", "merge"} /\ disk' \in Memories
      /\ overlay' \in [Urls -> Origins \cup {None}] /\ lost' \in 0..MaxFaults /\ lost' <= faults'
  BY DEF IInv, TypeOK, vars
<1> QED BY <1>1, <1>2, <1>3, <1>4, <1>5 DEF IInv, TypeOK, PassOK

LEMMA Started == ASSUME IInv, StartCycle PROVE IInv'
<1>1. /\ phase' = "scan" /\ cycle' \in 0..MaxCycles
      /\ UNCHANGED <<disk, overlay, lost, faults, live, scanVars, passVars>>
  BY ScanNumbers DEF StartCycle, IInv, TypeOK, WorldOK
<1>2. WorldOK' /\ ScanOK' /\ ScanPoints'
  BY <1>1 DEF IInv, TypeOK, WorldOK, ScanOK, ScanPoints, scanVars, seeding, admission, answer,
         climbing
<1>3. CallOK' /\ PassPoints'
  BY <1>1 DEF IInv, TypeOK, PassOK, CallOK, PassPoints, passVars
<1>4. CensusOK' /\ SearchOK' /\ AdmitOK'
  BY <1>1 DEF IInv, TypeOK, PassOK, CensusOK, SearchOK, AdmitOK, passVars
<1>5. FilesOK' /\ MemoryOK'
  BY <1>1 DEF IInv, TypeOK, PassOK, FilesOK, MemoryOK, passVars
<1>6. /\ disk' \in Memories
      /\ overlay' \in [Urls -> Origins \cup {None}] /\ lost' \in 0..MaxFaults /\ lost' <= faults'
  BY <1>1 DEF IInv, TypeOK
<1> QED BY <1>1, <1>2, <1>3, <1>4, <1>5, <1>6 DEF IInv, TypeOK, PassOK

LEMMA Scanned == ASSUME IInv, Scanning PROVE IInv'
<1>1. ScanNext /\ UNCHANGED <<phase, disk, overlay, lost, cycle, passVars>>
  BY DEF Scanning
<1>2. WorldOK' /\ ScanOK' /\ ScanPoints' /\ faults <= faults'
  BY <1>1, ScanStep DEF IInv, TypeOK
<1>3. CallOK' /\ PassPoints'
  BY <1>1 DEF IInv, TypeOK, PassOK, CallOK, PassPoints, passVars
<1>4. CensusOK' /\ SearchOK' /\ AdmitOK'
  BY <1>1 DEF IInv, TypeOK, PassOK, CensusOK, SearchOK, AdmitOK, passVars
<1>5. FilesOK' /\ MemoryOK'
  BY <1>1 DEF IInv, TypeOK, PassOK, FilesOK, MemoryOK, passVars
<1>6. /\ phase' \in {"idle", "scan", "github", "merge"} /\ disk' \in Memories
      /\ overlay' \in [Urls -> Origins \cup {None}] /\ lost' \in 0..MaxFaults
  BY <1>1 DEF IInv, TypeOK
<1>7. lost' <= faults'
  BY <1>1, <1>2, ScanNumbers DEF IInv, TypeOK, WorldOK
<1> QED BY <1>2, <1>3, <1>4, <1>5, <1>6, <1>7 DEF IInv, TypeOK, PassOK

LEMMA Searched == ASSUME IInv, Searching PROVE IInv'
<1>1. PassNext /\ UNCHANGED <<phase, disk, overlay, lost, cycle, scanVars>>
  BY DEF Searching
<1>2. PassOK' /\ PassPoints' /\ WorldOK' /\ faults <= faults'
  BY <1>1, PassStep DEF IInv, TypeOK, Steady
<1>3. ScanOK' /\ ScanPoints'
  BY <1>1 DEF IInv, TypeOK, ScanOK, ScanPoints, scanVars, seeding, admission, answer, climbing
<1>4. /\ phase' \in {"idle", "scan", "github", "merge"} /\ disk' \in Memories
      /\ overlay' \in [Urls -> Origins \cup {None}] /\ lost' \in 0..MaxFaults
  BY <1>1 DEF IInv, TypeOK
<1>5. lost' <= faults'
  BY <1>1, <1>2, ScanNumbers DEF IInv, TypeOK, WorldOK
<1> QED BY <1>2, <1>3, <1>4, <1>5 DEF IInv, TypeOK

LEMMA StepTyped == ASSUME IInv, [Next]_vars PROVE IInv'
BY Started, Scanned, SavedScan, Searched, SavedPass, Merged, Dropped, Same DEF Next, Rest

\* The state of a crawl, of its scan and of its pass is one the code can be in:
\* counters within their caps, requests within their retries, lists of what they
\* list, and no more passes lost than faults met.
THEOREM DiscoveryTyped == Spec => []IInv
<1>1. Init => IInv
  BY StartTyped
<1>2. IInv /\ [Next]_vars => IInv'
  BY StepTyped
<1> QED BY <1>1, <1>2, PTL DEF Spec

\* The type invariant itself.
THEOREM DiscoveryTypes == Spec => []TypeOK
<1>1. IInv => TypeOK
  BY DEF IInv
<1> QED BY <1>1, DiscoveryTyped, PTL

-----------------------------------------------------------------------------
(* What the files of a pass are credited with.                             *)

PicksBacked ==
    picks # <<>> =>
        /\ phase = "github" /\ step \in {"offer", "done"}
        /\ Backed(union, picks) /\ Mintable(picks)

\* The baseline and the overlay a selection was made against stay what they were.
LEMMA SameBaseline ==
    ASSUME UNCHANGED <<union, picks, census, managed>>, Backed(union, picks), Mintable(picks)
    PROVE  Backed(union, picks)' /\ Mintable(picks)'
<1>1. FilesIn(picks)' = FilesIn(picks) /\ KnownUrls' = KnownUrls
  BY DEF FilesIn, KnownUrls, Carried
<1>2. Gained(union, picks)' = Gained(union, picks)
  BY <1>1 DEF Gained, FoldOf
<1>3. \A f : Sums(f, picks)' <=> Sums(f, picks)
  BY DEF Sums
<1> QED BY <1>1, <1>2, <1>3 DEF Backed, Mintable

LEMMA SelectionBacked ==
    ASSUME IInv, SelectFiles PROVE Backed(union, picks)' /\ Mintable(picks)' /\ step' = "offer"
<1>1. Chosen \in Accepted
  BY ChosenAccepted DEF IInv, TypeOK, PassOK, AdmitOK, FilesOK
<1>2. /\ union' = Chosen.union /\ picks' = Chosen.picks /\ step' = "offer"
      /\ census' = census /\ managed' = managed
  BY DEF SelectFiles, memory
<1>3. Backed(union', picks') /\ Mintable(picks')
  BY <1>1, <1>2 DEF Accepted
<1>4. KnownUrls' = KnownUrls
  BY <1>2 DEF KnownUrls, Carried
<1>5. Gained(union, picks)' = Gained(union', picks')
  BY <1>2 DEF Gained, FoldOf, FilesIn
<1>6. \A f : Sums(f, picks)' <=> Sums(f, picks')
  BY DEF Sums
<1> QED BY <1>2, <1>3, <1>4, <1>5, <1>6 DEF Backed, Mintable

LEMMA PicksStep == ASSUME IInv, PicksBacked, [Next]_vars PROVE PicksBacked'
<1>1. CASE StartCycle \/ Scanning \/ Rest \/ UNCHANGED vars
  <2>1. /\ UNCHANGED <<union, picks, census, managed, step>>
        /\ phase' = phase \/ phase # "github"
    BY <1>1 DEF StartCycle, Scanning, Rest, vars, passVars
  <2> QED BY <2>1, SameBaseline DEF PicksBacked
<1>2. CASE SaveScan \/ Merge
  <2>1. picks' = picks /\ phase # "github"
    BY <1>2 DEF SaveScan, Merge, work
  <2> QED BY <2>1 DEF PicksBacked
<1>3. CASE SavePass \/ Drop
  <2>1. picks' = <<>>
    BY <1>3 DEF SavePass, Drop, ResetPass
  <2> QED BY <2>1 DEF PicksBacked
<1>4. CASE Searching
  <2>1. phase = "github" /\ phase' = "github" /\ PassNext
    BY <1>4 DEF Searching
  <2>2. CASE SelectFiles
    BY <2>1, <2>2, SelectionBacked DEF PicksBacked
  <2>3. CASE AdmitGithub \/ EndContext
    <3>1. UNCHANGED <<union, picks, census, managed>> /\ step' \in {step, "done"}
      BY <2>3 DEF AdmitGithub, EndContext, work, memory
    <3> QED BY <2>1, <3>1, SameBaseline DEF PicksBacked
  <2>4. CASE ~SelectFiles /\ ~AdmitGithub /\ ~EndContext
    <3>1. picks' = picks
      BY <2>1, <2>4 DEF PassNext, CapReached, BeginPass, ReuseCensus, BuildCensus, KeepStale,
           Again, AskCode, WalkCode, AskRepo, WalkRepo, Consider, FetchMeta, EndAdmit, AskTree,
           WalkTrees, Dispatch, ProbeFile, EndProbe, work
    <3>2. step \notin {"offer", "done"} \/ Again
      BY <2>1, <2>4 DEF PassNext, CapReached, BeginPass, ReuseCensus, BuildCensus, KeepStale,
           AskCode, WalkCode, AskRepo, WalkRepo, Consider, FetchMeta, EndAdmit, AskTree,
           WalkTrees, Dispatch, ProbeFile, EndProbe
    <3>3. Again => step \notin {"offer", "done"}
      BY DEF Again, IInv, PassPoints
    <3> QED BY <3>1, <3>2, <3>3 DEF PicksBacked
  <2> QED BY <2>2, <2>3, <2>4
<1> QED BY <1>1, <1>2, <1>3, <1>4 DEF Next

LEMMA BackedIsReal == ASSUME IInv, PicksBacked PROVE NovelIsReal
<1> DEFINE chosen == {picks[i].file : i \in DOMAIN picks}
           F(g) == g = [n \in 0..Len(picks) |-> IF n = 0 THEN 0 ELSE g[n - 1] + picks[n].novel]
           claimed == CHOOSE g : F(g)
<1>1. picks \in Seq(Picks) /\ union \in SUBSET Endpoints
  BY DEF IInv, TypeOK, PassOK, FilesOK
<1>2. chosen = FilesIn(picks) /\ chosen \in SUBSET Urls
  <2>1. \A i \in DOMAIN picks : picks[i] \in Picks
    BY <1>1
  <2> QED BY <2>1, PassNumbers DEF FilesIn, Picks
<1>3. ASSUME picks # <<>> PROVE claimed[Len(picks)] <= Cardinality(FoldOf(chosen) \ census)
  <2>1. PICK f \in [0..Len(picks) -> Nat] :
          Sums(f, picks) /\ f[Len(picks)] <= Cardinality(Gained(union, picks))
    BY <1>3 DEF PicksBacked, Backed
  <2>2. claimed[Len(picks)] = f[Len(picks)]
    BY <1>1, <2>1, ClaimIsSum
  <2> HIDE DEF claimed
  <2>3. /\ FoldOf(chosen) \ census \in SUBSET Endpoints
        /\ Gained(union, picks) \in SUBSET (FoldOf(chosen) \ census)
    <3> HIDE DEF chosen
    <3> QED BY <1>2, EndpointSets DEF Gained
  <2> HIDE DEF chosen
  <2>4. /\ Cardinality(Gained(union, picks)) <= Cardinality(FoldOf(chosen) \ census)
        /\ Cardinality(Gained(union, picks)) \in Nat
        /\ Cardinality(FoldOf(chosen) \ census) \in Nat
    BY <1>1, <2>3, EndpointSets, GainedFinite, FS_Subset
  <2>5. f[Len(picks)] \in Nat
    BY <1>1, <2>1
  <2> QED BY <2>1, <2>2, <2>4, <2>5
<1>4. (\A i \in DOMAIN picks : picks[i].novel >= MinNovel) /\ chosen \cap KnownUrls = {}
  <2>1. CASE picks = <<>>
    BY <2>1
  <2>2. CASE picks # <<>>
    BY <2>2 DEF PicksBacked, Mintable
  <2> QED BY <2>1, <2>2
<1> QED BY <1>3, <1>4 DEF NovelIsReal

\* What ghfind credits a file with is real: the novel endpoints of the files of a
\* pass are endpoints the baseline does not have, each counted once, every file
\* brings MinNovel of them and none is managed or stamped already.
THEOREM NoveltyIsReal == Spec => []NovelIsReal
<1>1. Init => PicksBacked
  BY DEF Init, PassInit, NoWork, PicksBacked
<1>2. IInv /\ PicksBacked /\ [Next]_vars => PicksBacked'
  BY PicksStep
<1>3. IInv /\ PicksBacked => NovelIsReal
  BY BackedIsReal
<1> QED BY <1>1, <1>2, <1>3, DiscoveryTyped, PTL DEF Spec

-----------------------------------------------------------------------------
(* The cap on the sources minted from GitHub.                              *)

CapKept ==
    /\ Cardinality(Owned(overlay) \cup Owned(live)) <= MaxSources
    /\ phase \in {"github", "merge"} => managed = overlay
    /\ Owned(live) # {} => phase = "merge" \/ (phase = "github" /\ step = "done")

LEMMA OwnedFinite ==
    ASSUME NEW f, NEW g
    PROVE  /\ IsFiniteSet(Owned(f)) /\ Cardinality(Owned(f)) \in Nat
           /\ IsFiniteSet(Owned(f) \cup Owned(g)) /\ Cardinality(Owned(f) \cup Owned(g)) \in Nat
<1>1. Owned(f) \in SUBSET Urls /\ Owned(f) \cup Owned(g) \in SUBSET Urls
  BY DEF Owned
<1> QED BY <1>1, PassNumbers, FS_Subset, FS_CardinalityType

LEMMA OwnedShrinks ==
    ASSUME NEW f, NEW g, NEW h, NEW k, Cardinality(Owned(f) \cup Owned(g)) <= MaxSources,
           Owned(h) \cup Owned(k) \subseteq Owned(f) \cup Owned(g)
    PROVE  Cardinality(Owned(h) \cup Owned(k)) <= MaxSources
<1>1. Cardinality(Owned(h) \cup Owned(k)) <= Cardinality(Owned(f) \cup Owned(g))
  BY OwnedFinite, FS_Subset
<1>2. Cardinality(Owned(h) \cup Owned(k)) \in Nat /\ Cardinality(Owned(f) \cup Owned(g)) \in Nat
  BY OwnedFinite
<1>3. MaxSources \in Nat
  BY PassNumbers
<1> QED BY <1>1, <1>2, <1>3

\* More first, a rank of its own for each breaking ties.
LEMMA MoreFirst ==
    ASSUME NEW R, NEW v \in [R -> Nat], NEW w \in [R -> Nat], NEW O,
           \A i, j \in R : w[i] = w[j] => i = j,
           \A i, j \in R : <<i, j>> \in O <=> v[i] > v[j] \/ (v[i] = v[j] /\ w[i] < w[j])
    PROVE  StrictTotal(R, O)
<1>0. \A i \in R : v[i] \in Int /\ w[i] \in Int
  OBVIOUS
<1>1. \A i \in R : <<i, i>> \notin O
  BY <1>0
<1>2. ASSUME NEW x \in R, NEW y \in R, NEW z \in R, <<x, y>> \in O, <<y, z>> \in O
      PROVE  <<x, z>> \in O
  <2>1. /\ v[x] > v[y] \/ (v[x] = v[y] /\ w[x] < w[y])
        /\ v[y] > v[z] \/ (v[y] = v[z] /\ w[y] < w[z])
    BY <1>2
  <2>2. v[x] > v[z] \/ (v[x] = v[z] /\ w[x] < w[z])
    BY <1>0, <2>1
  <2> QED BY <2>2
<1>3. ASSUME NEW x \in R, NEW y \in R, x # y PROVE <<x, y>> \in O \/ <<y, x>> \in O
  <2>1. w[x] # w[y]
    BY <1>3
  <2> QED BY <1>0, <2>1
<1> QED BY <1>1, <1>2, <1>3 DEF StrictTotal

\* Richer is an order of places that show different files.
LEMMA RicherFirst ==
    ASSUME NEW R,
           \A i \in R : picks[i].novel \in Nat,
           \A i \in R : PathRank[picks[i].file] \in Nat,
           \A i, j \in R : PathRank[picks[i].file] = PathRank[picks[j].file] => i = j
    PROVE  StrictTotal(R, {p \in R \X R : Richer(picks[p[1]], picks[p[2]])})
<1> DEFINE O == {p \in R \X R : Richer(picks[p[1]], picks[p[2]])}
           v == [i \in R |-> picks[i].novel]
           w == [i \in R |-> PathRank[picks[i].file]]
<1>1. v \in [R -> Nat] /\ w \in [R -> Nat]
  OBVIOUS
<1>2. \A i, j \in R : w[i] = w[j] => i = j
  OBVIOUS
<1>3. \A i, j \in R : <<i, j>> \in O <=> v[i] > v[j] \/ (v[i] = v[j] /\ w[i] < w[j])
  BY DEF Richer
<1> HIDE DEF v, w, O
<1>4. StrictTotal(R, O)
  BY <1>1, <1>2, <1>3, MoreFirst
<1> QED BY <1>4 DEF O

\* No more files are admitted than there is room for: of the places that show an
\* admitted file, one for each file, any has fewer than Room richer ones.
LEMMA AdmittedFit ==
    ASSUME picks \in Seq(Picks), Room \in Nat
    PROVE  LET A == {p.file : p \in Admitted}
           IN  IsFiniteSet(A) /\ Cardinality(A) <= Room
<1> DEFINE I == {i \in Offered :
                   Cardinality({j \in Offered : Richer(picks[j], picks[i])}) < Room}
           A == {p.file : p \in Admitted}
           rep == [f \in A |-> CHOOSE i \in I : picks[i].file = f]
           R == {rep[f] : f \in A}
           O == {p \in R \X R : Richer(picks[p[1]], picks[p[2]])}
<1>1. /\ IsFiniteSet(Offered) /\ Offered \in SUBSET Nat
      /\ \A i \in Offered : picks[i] \in Picks
  <2>1. DOMAIN picks = 1..Len(picks) /\ Len(picks) \in Nat
    OBVIOUS
  <2>2. IsFiniteSet(1..Len(picks))
    BY <2>1, FS_Interval
  <2>3. Offered \in SUBSET (1..Len(picks))
    BY <2>1 DEF Offered
  <2>4. IsFiniteSet(Offered)
    BY <2>2, <2>3, FS_Subset
  <2> QED BY <2>1, <2>3, <2>4
<1>2. A = {picks[i].file : i \in I}
  BY DEF Admitted
<1>3. I \subseteq Offered
  OBVIOUS
<1>4. \A i \in I : Cardinality({j \in Offered : Richer(picks[j], picks[i])}) < Room
  OBVIOUS
<1> HIDE DEF I, A
<1>5. ASSUME NEW f \in A PROVE rep[f] \in I /\ picks[rep[f]].file = f
  <2>1. \E i \in I : picks[i].file = f
    BY <1>2
  <2>2. rep[f] = CHOOSE i \in I : picks[i].file = f
    OBVIOUS
  <2> HIDE DEF rep
  <2> QED BY <2>1, <2>2
<1> HIDE DEF rep
<1>6. /\ R \subseteq I /\ \A i, j \in R : picks[i].file = picks[j].file => i = j
  BY <1>5
<1>7. IsFiniteSet(R)
  <2>1. R \in SUBSET Offered
    BY <1>3, <1>6
  <2> QED BY <1>1, <2>1, FS_Subset
<1>8. StrictTotal(R, O)
  <2>1. \A i \in R : picks[i].novel \in Nat /\ picks[i].file \in Files
    BY <1>1, <1>3, <1>6 DEF Picks
  <2>2. \A i \in R : PathRank[picks[i].file] \in Nat
    BY <2>1, PassAssumption
  <2>3. \A i, j \in R : PathRank[picks[i].file] = PathRank[picks[j].file] => i = j
    BY <1>6, <2>1, PassAssumption
  <2> HIDE DEF R
  <2> QED BY <2>1, <2>2, <2>3, RicherFirst
<1>9. ASSUME NEW i \in R PROVE Cardinality(Below(R, O, i)) < Room
  <2> DEFINE J == {j \in Offered : Richer(picks[j], picks[i])}
  <2>1. Below(R, O, i) \in SUBSET J
    BY <1>3, <1>6 DEF Below
  <2>2. J \in SUBSET Offered
    OBVIOUS
  <2>3. IsFiniteSet(J) /\ Cardinality(J) < Room
    BY <1>1, <1>4, <1>6, <2>2, FS_Subset
  <2> HIDE DEF J
  <2>4. Cardinality(Below(R, O, i)) <= Cardinality(J) /\ Cardinality(J) \in Nat
        /\ Cardinality(Below(R, O, i)) \in Nat
    BY <2>1, <2>3, FS_Subset, FS_CardinalityType
  <2> QED BY <2>3, <2>4
<1>10. Cardinality(R) <= Room
  <2> HIDE DEF R, O
  <2> QED BY <1>7, <1>8, <1>9, FewBefore
<1>11. rep \in Injection(A, R)
  <2>1. rep \in [A -> R]
    BY DEF rep
  <2>2. \A f, g \in A : rep[f] = rep[g] => f = g
    BY <1>5
  <2> HIDE DEF R
  <2> QED BY <2>1, <2>2 DEF Injection, IsInjective
<1>12. IsFiniteSet(A) /\ Cardinality(A) <= Cardinality(R)
  <2>1. rep \in Surjection(A, R)
    <3>1. rep \in [A -> R] /\ \A i \in R : \E f \in A : rep[f] = i
      BY <1>11 DEF Injection
    <3> QED BY <3>1 DEF Surjection
  <2>2. IsFiniteSet(A)
    <3> DEFINE back == [i \in R |-> picks[i].file]
    <3>1. A = {back[i] : i \in R}
      BY <1>5
    <3> HIDE DEF back, R
    <3> QED BY <1>7, <3>1, Images
  <2> HIDE DEF R
  <2> QED BY <1>7, <1>11, <2>2, FS_Injection
<1> QED
  <2>1. Cardinality(A) \in Nat /\ Cardinality(R) \in Nat
    BY <1>7, <1>12, FS_CardinalityType
  <2> QED BY <1>10, <1>12, <2>1 DEF A

LEMMA CapAfterOffer == ASSUME IInv, CapKept, phase = "github", AdmitGithub
                       PROVE  Cardinality(Owned(overlay) \cup Owned(live')) <= MaxSources
<1> DEFINE A == {p.file : p \in Admitted}
<1>1. Owned(live) = {} /\ managed = overlay
  BY DEF CapKept, AdmitGithub
<1>2. Cardinality(Owned(overlay)) <= MaxSources /\ Cardinality(Owned(overlay)) \in Nat
  <2>1. Owned(overlay) \cup Owned(live) = Owned(overlay)
    BY <1>1
  <2> QED BY <2>1, OwnedFinite DEF CapKept
<1>3. Room \in Nat /\ Cardinality(Owned(overlay)) + Room = MaxSources
  BY <1>1, <1>2, PassNumbers DEF Room
<1>4. IsFiniteSet(A) /\ Cardinality(A) <= Room
  <2>1. picks \in Seq(Picks)
    BY DEF IInv, TypeOK, PassOK, FilesOK
  <2> QED BY <1>3, <2>1, AdmittedFit
<1>5. Owned(live') \in SUBSET A
  <2>1. ASSUME NEW u \in Urls, live'[u] \in Repos PROVE u \in A
    <3>1. live[u] \notin Repos
      BY <1>1 DEF Owned
    <3>2. \E p \in Admitted : p.file = u
      BY <2>1, <3>1 DEF AdmitGithub
    <3> QED BY <3>2
  <2> QED BY <2>1 DEF Owned
<1> HIDE DEF A
<1>6. Cardinality(Owned(live')) <= Room
  <2>1. Cardinality(Owned(live')) <= Cardinality(A)
    BY <1>4, <1>5, FS_Subset
  <2> QED BY <1>3, <1>4, <2>1, OwnedFinite, FS_CardinalityType
<1>7. Cardinality(Owned(overlay) \cup Owned(live'))
        = Cardinality(Owned(overlay)) + Cardinality(Owned(live'))
             - Cardinality(Owned(overlay) \cap Owned(live'))
  BY OwnedFinite, FS_Union
<1>8. Cardinality(Owned(overlay) \cap Owned(live')) \in Nat
  BY OwnedFinite, FS_Intersection, FS_CardinalityType
<1> QED BY <1>2, <1>3, <1>6, <1>7, <1>8, OwnedFinite, PassNumbers

LEMMA NoneOwned ==
    ASSUME NEW f, \A u \in Urls : f[u] \in Slugs \cup {None} PROVE Owned(f) = {}
<1>1. None \notin Repos
  BY PassNumbers, WorldAssumption
<1>2. \A u \in Urls : f[u] \notin Repos
  BY <1>1, DiscoveryAssumption
<1> QED BY <1>2 DEF Owned

LEMMA CapStep == ASSUME IInv, CapKept, [Next]_vars PROVE CapKept'
<1>1. CASE StartCycle \/ Rest \/ UNCHANGED vars
  <2>1. /\ UNCHANGED <<overlay, live, managed, step>>
        /\ phase' = phase \/ (phase = "idle" /\ phase' = "scan")
    BY <1>1 DEF StartCycle, Rest, vars, passVars
  <2> QED BY <2>1 DEF CapKept, Owned
<1>2. CASE Scanning
  <2>1. phase = "scan" /\ phase' = "scan" /\ overlay' = overlay /\ managed' = managed
    BY <1>2 DEF Scanning, passVars
  <2>2. Owned(live) = {}
    BY <2>1 DEF CapKept
  <2>3. Owned(live)' = {}
    <3>1. CASE Harvest
      <4>1. PICK hits : live' = Credited(hits)
        BY <3>1 DEF Harvest
      <4>2. node.ref.slug \in Slugs
        BY NodeFacts DEF IInv, TypeOK, ScanOK
      <4>3. ASSUME NEW u \in Urls PROVE live'[u] \notin Repos
        <5>1. live'[u] = node.ref.slug \/ live'[u] = live[u]
          BY <4>1 DEF Credited
        <5>2. live[u] \notin Repos
          BY <2>2 DEF Owned
        <5> QED BY <4>2, <5>1, <5>2, DiscoveryAssumption
      <4> QED BY <4>3 DEF Owned
    <3>2. CASE BeginScan
      <4>1. \A u \in Urls : live'[u] = None
        BY <3>2 DEF BeginScan
      <4> QED BY <4>1, NoneOwned DEF Owned
    <3>3. CASE ~Harvest /\ ~BeginScan
      <4>1. live' = live
        BY <1>2, <3>3 DEF Scanning, ScanNext, EndScan, Refuse, Admit, ReadListing, ReadTopic,
           LeaveDeadEnd, BeginClimb, Climb
      <4> QED BY <2>2, <4>1 DEF Owned
    <3> QED BY <3>1, <3>2, <3>3
  <2>4. Owned(overlay)' = Owned(overlay)
    BY <2>1 DEF Owned
  <2> QED BY <2>1, <2>2, <2>3, <2>4 DEF CapKept
<1>3. CASE SaveScan
  <2>1. phase' = "github" /\ managed' = overlay /\ overlay' = overlay /\ live' = live
        /\ phase = "scan"
    BY <1>3 DEF SaveScan
  <2> QED BY <2>1 DEF CapKept, Owned
<1>4. CASE Searching
  <2>1. /\ phase = "github" /\ phase' = "github" /\ PassNext /\ overlay' = overlay
    BY <1>4 DEF Searching
  <2>2. managed' = managed
    BY <2>1 DEF PassNext, CapReached, BeginPass, ReuseCensus, BuildCensus, KeepStale, Again,
       AskCode, WalkCode, AskRepo, WalkRepo, Consider, FetchMeta, EndAdmit, AskTree, WalkTrees,
       Dispatch, ProbeFile, EndProbe, SelectFiles, AdmitGithub, EndContext, memory
  <2>3. CASE AdmitGithub
    <3>1. step' = "done" /\ Owned(overlay)' = Owned(overlay) /\ Owned(live)' = Owned(live')
      BY <2>1, <2>3 DEF AdmitGithub, Owned
    <3>2. Cardinality(Owned(overlay) \cup Owned(live')) <= MaxSources
      BY <2>1, <2>3, CapAfterOffer
    <3> QED BY <2>1, <2>2, <3>1, <3>2 DEF CapKept
  <2>4. CASE ~AdmitGithub
    <3>1. live' = live
      BY <2>1, <2>4 DEF PassNext, CapReached, BeginPass, ReuseCensus, BuildCensus, KeepStale,
         Again, AskCode, WalkCode, AskRepo, WalkRepo, Consider, FetchMeta, EndAdmit, AskTree,
         WalkTrees, Dispatch, ProbeFile, EndProbe, SelectFiles, EndContext
    <3>2. step = "done" => step' = "done"
      <4>1. Again => step # "done"
        BY DEF Again, IInv, PassPoints
      <4> QED BY <2>1, <2>4, <4>1 DEF PassNext, CapReached, BeginPass, ReuseCensus, BuildCensus,
           KeepStale, AskCode, WalkCode, AskRepo, WalkRepo, Consider, FetchMeta, EndAdmit,
           AskTree, WalkTrees, Dispatch, ProbeFile, EndProbe, SelectFiles, EndContext
    <3> QED BY <2>1, <2>2, <3>1, <3>2 DEF CapKept, Owned
  <2> QED BY <2>3, <2>4
<1>5. CASE SavePass
  <2>1. phase' = "merge" /\ phase = "github" /\ UNCHANGED <<overlay, live, managed>>
    BY <1>5 DEF SavePass
  <2> QED BY <2>1 DEF CapKept, Owned
<1>6. CASE Merge \/ Drop
  <2>1. phase' = "idle" /\ live' = [u \in Urls |-> None]
    BY <1>6 DEF Merge, Drop, Forget
  <2>2. Owned(live)' = {}
    <3>1. \A u \in Urls : live'[u] = None
      BY <2>1
    <3> QED BY <3>1, NoneOwned DEF Owned
  <2>3. \/ overlay' = [u \in Urls |-> IF overlay[u] # None THEN overlay[u] ELSE live[u]]
        \/ overlay' = overlay
    BY <1>6 DEF Merge, Drop
  <2>4. Owned(overlay') \cup Owned(live') \subseteq Owned(overlay) \cup Owned(live)
    <3>1. Owned(live') = {}
      BY <2>2 DEF Owned
    <3>2. Owned(overlay') \subseteq Owned(overlay) \cup Owned(live)
      BY <2>3 DEF Owned
    <3> QED BY <3>1, <3>2
  <2>5. Cardinality(Owned(overlay') \cup Owned(live')) <= MaxSources
    BY <2>4, OwnedShrinks DEF CapKept
  <2>6. (Owned(overlay) \cup Owned(live))' = Owned(overlay') \cup Owned(live')
    BY DEF Owned
  <2> QED BY <2>1, <2>2, <2>5, <2>6 DEF CapKept
<1> QED BY <1>1, <1>2, <1>3, <1>4, <1>5, <1>6 DEF Next

LEMMA CapStart == Init => CapKept
<1> SUFFICES ASSUME Init PROVE CapKept
  OBVIOUS
<1>1. phase = "idle" /\ (\A u \in Urls : live[u] = None /\ overlay[u] = None)
  BY DEF Init
<1>2. Owned(live) = {} /\ Owned(overlay) = {}
  BY <1>1, NoneOwned
<1>3. Cardinality(Owned(overlay) \cup Owned(live)) = 0
  BY <1>2, FS_EmptySet
<1> QED BY <1>1, <1>2, <1>3, PassNumbers DEF CapKept

\* The sources minted from GitHub never outnumber MaxSources: the room counted
\* before the pass still holds when its files are admitted, and the merge adds
\* nothing to what was counted.
THEOREM SourcesCapped == Spec => []SourceCap
<1>1. IInv /\ CapKept => SourceCap
  <2> SUFFICES ASSUME CapKept PROVE SourceCap
    OBVIOUS
  <2>1. Cardinality(Owned(overlay)) <= Cardinality(Owned(overlay) \cup Owned(live))
    BY OwnedFinite, FS_Subset
  <2> QED BY <2>1, OwnedFinite, PassNumbers DEF CapKept, SourceCap
<1>2. IInv /\ CapKept /\ [Next]_vars => CapKept'
  BY CapStep
<1> QED BY <1>1, <1>2, CapStart, DiscoveryTyped, PTL DEF Spec

-----------------------------------------------------------------------------
(* The grid of code queries.                                               *)

\* Of t queries sent one after the other from the first of the grid, those that
\* were q: the cursor is within the grid and a pass goes round it once at most.
Times(q, t) == (IF q < t THEN 1 ELSE 0) + (IF q < t - CodeLen THEN 1 ELSE 0)
Sent == disk.cursor.code + codeUsed
Rounds(m, t, slack) ==
    \A q \in 0..(CodeLen - 1) : m + Times(q, t) <= asks[q] /\ asks[q] <= m + Times(q, t) + slack

GridWalked ==
    CodeLen > 0 =>
        /\ disk.cursor.code < CodeLen
        /\ phase # "github" => step = "off"
        /\ step \in {"off", "census"} => codeUsed = 0
        /\ phase # "merge" /\ step # "done" => cursor.code = disk.cursor.code
        /\ step = "done" => cursor.code = Advance(disk.cursor.code, codeUsed, CodeLen)
        /\ \E m \in Nat : Rounds(m, Sent, lost)

LEMMA Wrapped ==
    ASSUME NEW n \in Nat \ {0}, NEW a \in Nat, a < 2 * n
    PROVE  a % n = IF a < n THEN a ELSE a - n
<1>1. CASE a < n
  BY <1>1
<1>2. CASE n <= a
  <2>1. a % n = a - n
    BY <1>2
  <2> QED BY <1>2, <2>1
<1> QED BY <1>1, <1>2

LEMMA GridNumbers ==
    ASSUME IInv, GridWalked, CodeLen > 0
    PROVE  /\ CodeLen \in Nat \ {0} /\ disk.cursor.code \in Nat /\ disk.cursor.code < CodeLen
           /\ codeUsed \in Nat /\ codeUsed <= CodeLen /\ lost \in Nat
           /\ asks \in [0..(CodeLen - 1) -> Nat]
           /\ Sent \in Nat /\ Sent < 2 * CodeLen
<1>1. CodeLen \in Nat \ {0} /\ disk.cursor.code < CodeLen
  BY PassNats DEF GridWalked
<1>2. disk.cursor.code \in Nat
  BY DEF IInv, TypeOK, Memories
<1>3. codeUsed \in Nat /\ codeUsed <= CodeLen
  BY PassNats DEF IInv, TypeOK, PassOK, SearchOK
<1>4. lost \in Nat /\ asks \in [0..(CodeLen - 1) -> Nat]
  BY ScanNumbers DEF IInv, TypeOK, PassOK, MemoryOK
<1> QED BY <1>1, <1>2, <1>3, <1>4 DEF Sent

\* One pass asks a query at most once.
LEMMA OnceAPass ==
    ASSUME CodeLen \in Nat \ {0}, NEW c \in Nat, c < CodeLen, NEW u \in Nat, u <= CodeLen,
           NEW q \in 0..(CodeLen - 1)
    PROVE  /\ Times(q, c) \in Nat /\ Times(q, c + u) \in Nat
           /\ Times(q, c) <= Times(q, c + u) /\ Times(q, c + u) <= Times(q, c) + 1
<1>1. Times(q, c) = IF q < c THEN 1 ELSE 0
  BY DEF Times
<1>2. CASE q < c
  BY <1>1, <1>2 DEF Times
<1>3. CASE ~(q < c)
  BY <1>1, <1>3 DEF Times
<1> QED BY <1>2, <1>3

\* A query is asked in its turn.
LEMMA NextQuery ==
    ASSUME NEW n \in Nat \ {0}, CodeLen = n, NEW t \in Nat, t < 2 * n, t + 1 < 2 * n,
           NEW q \in 0..(n - 1)
    PROVE  Times(q, t + 1) = IF q = t % n THEN Times(q, t) + 1 ELSE Times(q, t)
<1>1. t % n = IF t < n THEN t ELSE t - n
  BY Wrapped
<1> QED BY <1>1 DEF Times

\* A pass the file does not know of is one more that may be repeated.
LEMMA Repeated ==
    ASSUME IInv, GridWalked, CodeLen > 0, NEW m \in Nat, Rounds(m, Sent, lost)
    PROVE  Rounds(m, disk.cursor.code, lost + 1)
<1>1. ASSUME NEW q \in 0..(CodeLen - 1)
      PROVE  /\ m + Times(q, disk.cursor.code) <= asks[q]
             /\ asks[q] <= m + Times(q, disk.cursor.code) + (lost + 1)
  <2>1. m + Times(q, Sent) <= asks[q] /\ asks[q] <= m + Times(q, Sent) + lost
    BY DEF Rounds
  <2>2. /\ Times(q, disk.cursor.code) <= Times(q, Sent)
        /\ Times(q, Sent) <= Times(q, disk.cursor.code) + 1
        /\ Times(q, disk.cursor.code) \in Nat /\ Times(q, Sent) \in Nat
    BY GridNumbers, OnceAPass DEF Sent
  <2>3. asks[q] \in Nat /\ lost \in Nat
    BY GridNumbers
  <2> QED BY <2>1, <2>2, <2>3
<1> QED BY <1>1 DEF Rounds

\* The cursor a finished pass records is where the next one goes on.
LEMMA Advanced ==
    ASSUME IInv, GridWalked, CodeLen > 0, NEW m \in Nat, Rounds(m, Sent, lost)
    PROVE  LET c == Advance(disk.cursor.code, codeUsed, CodeLen)
           IN  c \in Nat /\ c < CodeLen /\ \E k \in Nat : Rounds(k, c, lost)
<1> DEFINE c == Advance(disk.cursor.code, codeUsed, CodeLen)
<1>1. c = IF Sent < CodeLen THEN Sent ELSE Sent - CodeLen
  BY GridNumbers, Wrapped DEF Advance, Sent
<1> HIDE DEF c
<1>2. c \in Nat /\ c < CodeLen
  BY <1>1, GridNumbers
<1>3. CASE Sent < CodeLen
  BY <1>1, <1>2, <1>3 DEF c
<1>4. CASE Sent >= CodeLen
  <2>1. ASSUME NEW q \in 0..(CodeLen - 1) PROVE Times(q, Sent) = Times(q, c) + 1 /\ Times(q, c) \in Nat
    BY <1>1, <1>4, GridNumbers DEF Times
  <2>2. Rounds(m + 1, c, lost)
    <3>1. ASSUME NEW q \in 0..(CodeLen - 1)
          PROVE  m + 1 + Times(q, c) <= asks[q] /\ asks[q] <= m + 1 + Times(q, c) + lost
      <4>1. m + Times(q, Sent) <= asks[q] /\ asks[q] <= m + Times(q, Sent) + lost
        BY DEF Rounds
      <4> QED BY <2>1, <4>1, GridNumbers
    <3> QED BY <3>1 DEF Rounds
  <2> QED BY <1>2, <2>2 DEF c
<1> QED BY <1>3, <1>4, GridNumbers

\* Nothing the grid is about has moved.
LEMMA GridStill ==
    ASSUME GridWalked, UNCHANGED <<step, codeUsed, cursor, asks, lost>>,
           disk'.cursor = disk.cursor, phase' = "merge" <=> phase = "merge",
           phase' = "github" <=> phase = "github"
    PROVE  GridWalked'
<1>1. ASSUME NEW m PROVE Rounds(m, Sent, lost)' <=> Rounds(m, Sent, lost)
  BY DEF Rounds, Sent, Times
<1> QED BY <1>1 DEF GridWalked

LEMMA GridPass ==
    ASSUME IInv, GridWalked, phase = "github", phase' = "github", PassNext,
           UNCHANGED <<disk, lost>>
    PROVE  GridWalked'
<1> SUFFICES ASSUME CodeLen > 0 PROVE GridWalked'
  BY DEF GridWalked
<1>0. PICK m \in Nat : Rounds(m, Sent, lost)
  BY DEF GridWalked
<1>1. CASE AskCode
  <2> DEFINE q == (cursor.code + codeUsed) % CodeLen
  <2>1. /\ step = "code" /\ step' = "code" /\ codeUsed < CodeLen /\ codeUsed' = codeUsed + 1
        /\ asks' = [asks EXCEPT ![q] = @ + 1] /\ cursor' = cursor
    <3>1. codeUsed < Least(SearchCode, CodeLen)
      BY <1>1 DEF AskCode
    <3>2. codeUsed < CodeLen
      BY <3>1, PassNats, GridNumbers
    <3> QED BY <1>1, <3>2 DEF AskCode, memory
  <2>2. cursor.code = disk.cursor.code /\ q = Sent % CodeLen
    BY <2>1 DEF GridWalked, Sent
  <2>3. Sent' = Sent + 1 /\ Sent + 1 < 2 * CodeLen
    <3>1. /\ disk.cursor.code \in Nat /\ disk.cursor.code < CodeLen /\ CodeLen \in Nat
          /\ codeUsed \in Nat
      BY GridNumbers
    <3>2. Sent = disk.cursor.code + codeUsed /\ Sent' = disk.cursor.code + codeUsed'
      BY DEF Sent
    <3> QED BY <2>1, <3>1, <3>2
  <2>4. q \in 0..(CodeLen - 1)
    BY <2>2, GridNumbers, Modulo
  <2> HIDE DEF q
  <2>5. ASSUME NEW p \in 0..(CodeLen - 1)
        PROVE  /\ m + Times(p, Sent + 1) <= asks'[p]
               /\ asks'[p] <= m + Times(p, Sent + 1) + lost
    <3>1. m + Times(p, Sent) <= asks[p] /\ asks[p] <= m + Times(p, Sent) + lost
      BY <1>0 DEF Rounds
    <3>2. Times(p, Sent + 1) = IF p = q THEN Times(p, Sent) + 1 ELSE Times(p, Sent)
      BY <2>2, <2>3, GridNumbers, NextQuery
    <3>3. asks'[p] = IF p = q THEN asks[p] + 1 ELSE asks[p]
      BY <2>1, <2>4, GridNumbers
    <3>4. Times(p, Sent) \in Nat /\ asks[p] \in Nat /\ lost \in Nat
      BY GridNumbers DEF Times
    <3> QED BY <3>1, <3>2, <3>3, <3>4
  <2>6. Rounds(m, Sent, lost)'
    <3>1. \A p \in 0..(CodeLen - 1) : Times(p, Sent)' = Times(p, Sent + 1)
      BY <2>3 DEF Times
    <3> QED BY <2>5, <3>1 DEF Rounds
  <2> QED BY <2>1, <2>2, <2>6, GridNumbers DEF GridWalked
<1>2. CASE AdmitGithub
  <2>1. /\ step = "offer" /\ step' = "done" /\ UNCHANGED <<codeUsed, asks>>
        /\ cursor'.code = Advance(cursor.code, codeUsed, CodeLen)
    BY <1>2 DEF AdmitGithub, RecordCursor, work
  <2>2. cursor.code = disk.cursor.code
    BY <2>1 DEF GridWalked
  <2>3. Rounds(m, Sent, lost)'
    BY <1>0, <2>1 DEF Rounds, Sent, Times
  <2>4. cursor'.code = Advance(disk.cursor.code, codeUsed, CodeLen)'
    BY <2>1, <2>2 DEF Advance
  <2> QED BY <2>1, <2>3, <2>4 DEF GridWalked
<1>3. CASE ~AskCode /\ ~AdmitGithub
  <2>1. UNCHANGED <<codeUsed, asks, cursor>>
    BY <1>3 DEF PassNext, CapReached, BeginPass, ReuseCensus, BuildCensus, KeepStale, Again,
       WalkCode, AskRepo, WalkRepo, Consider, FetchMeta, EndAdmit, AskTree, WalkTrees,
       Dispatch, ProbeFile, EndProbe, SelectFiles, EndContext, work, memory
  <2>2. /\ step' \in {"off", "census"} => step \in {"off", "census"}
        /\ step' = "done" => step \in {"off", "census", "done"}
        /\ step = "done" => step' = "done"
    <3>1. Again => step # "done"
      BY DEF Again, IInv, PassPoints
    <3> QED BY <1>3, <3>1 DEF PassNext, CapReached, BeginPass, ReuseCensus, BuildCensus,
         KeepStale, Baseline, Again, WalkCode, AskRepo, WalkRepo, Consider, FetchMeta, EndAdmit,
         AskTree, WalkTrees, Dispatch, ProbeFile, EndProbe, SelectFiles, EndContext
  <2>3. Rounds(m, Sent, lost)'
    BY <1>0, <2>1 DEF Rounds, Sent, Times
  <2>4. codeUsed = 0 => Advance(disk.cursor.code, codeUsed, CodeLen) = disk.cursor.code
    <3>1. disk.cursor.code + 0 = disk.cursor.code /\ disk.cursor.code < 2 * CodeLen
      BY GridNumbers
    <3>2. disk.cursor.code % CodeLen = disk.cursor.code
      BY <3>1, GridNumbers, Wrapped
    <3> QED BY <3>1, <3>2 DEF Advance
  <2>5. step' = "done" => cursor'.code = Advance(disk.cursor.code, codeUsed, CodeLen)'
    <3>1. Advance(disk.cursor.code, codeUsed, CodeLen)'
            = Advance(disk.cursor.code, codeUsed, CodeLen)
      BY <2>1 DEF Advance
    <3> QED BY <2>1, <2>2, <2>4, <3>1 DEF GridWalked
  <2> QED BY <2>1, <2>2, <2>3, <2>5 DEF GridWalked
<1> QED BY <1>1, <1>2, <1>3

\* The cycle is over without its cursor on disk, or with it.
LEMMA GridDone ==
    ASSUME IInv, GridWalked, SavePass \/ Drop PROVE GridWalked'
<1> SUFFICES ASSUME CodeLen > 0 PROVE GridWalked'
  BY DEF GridWalked
<1>0. PICK m \in Nat : Rounds(m, Sent, lost)
  BY DEF GridWalked
<1>1. step' = "off" /\ codeUsed' = 0 /\ asks' = asks
  BY DEF SavePass, Drop, ResetPass, Forget
<1>2. CASE SavePass /\ disk'.cursor = cursor /\ lost' = lost
  <2> DEFINE c == Advance(disk.cursor.code, codeUsed, CodeLen)
  <2>1. step = "done" /\ phase' = "merge"
    BY <1>2 DEF SavePass
  <2>2. disk'.cursor.code = c
    BY <1>2, <2>1 DEF GridWalked
  <2>3. c \in Nat /\ c < CodeLen /\ \E k \in Nat : Rounds(k, c, lost)
    BY <1>0, Advanced
  <2> HIDE DEF c
  <2>4. PICK k \in Nat : Rounds(k, c, lost)
    BY <2>3
  <2>5. Sent' = c
    BY <1>1, <2>2, <2>3 DEF Sent
  <2>6. Rounds(k, Sent, lost)'
    BY <1>1, <1>2, <2>4, <2>5 DEF Rounds, Times
  <2> QED BY <1>1, <2>1, <2>2, <2>3, <2>6 DEF GridWalked
<1>3. CASE disk' = disk /\ lost' = lost + 1
  <2>1. Rounds(m, disk.cursor.code, lost + 1)
    BY <1>0, Repeated
  <2>2. Sent' = disk.cursor.code
    BY <1>1, <1>3, GridNumbers DEF Sent
  <2>3. Rounds(m, Sent, lost)'
    BY <1>1, <1>3, <2>1, <2>2 DEF Rounds, Times
  <2>4. phase' = "merge" \/ (phase' = "idle" /\ cursor' = disk.cursor)
    BY DEF SavePass, Drop, Forget
  <2> QED BY <1>1, <1>3, <2>3, <2>4, GridNumbers DEF GridWalked
<1>4. CASE Drop /\ codeUsed = 0 /\ disk' = disk /\ lost' = lost
  <2>1. Sent' = Sent
    BY <1>1, <1>4 DEF Sent
  <2>2. Rounds(m, Sent, lost)'
    BY <1>0, <1>1, <1>4, <2>1 DEF Rounds, Times
  <2>3. phase' = "idle" /\ cursor' = disk.cursor
    BY <1>4 DEF Drop, Forget
  <2> QED BY <1>1, <1>4, <2>2, <2>3, GridNumbers DEF GridWalked
<1>5. codeUsed > 0 \/ codeUsed = 0
  BY GridNumbers
<1> QED BY <1>2, <1>3, <1>4, <1>5 DEF SavePass, Drop, Forget

LEMMA GridStep == ASSUME IInv, GridWalked, [Next]_vars PROVE GridWalked'
<1>1. CASE StartCycle \/ Scanning \/ Rest \/ UNCHANGED vars
  <2>1. /\ UNCHANGED <<step, codeUsed, cursor, asks, lost, disk>>
        /\ (phase' = phase) \/ (phase = "idle" /\ phase' = "scan")
    BY <1>1 DEF StartCycle, Scanning, Rest, vars, passVars
  <2> QED BY <2>1, GridStill
<1>2. CASE SaveScan
  <2>1. /\ UNCHANGED <<step, codeUsed, cursor, asks, lost>> /\ phase = "scan" /\ phase' = "github"
    BY <1>2 DEF SaveScan, work
  <2>2. disk'.cursor = disk.cursor
    BY <1>2 DEF SaveScan, IInv, TypeOK, Memories
  <2>3. CodeLen > 0 => step = "off" /\ cursor.code = disk.cursor.code
    BY <2>1 DEF GridWalked
  <2>4. ASSUME NEW m PROVE Rounds(m, Sent, lost)' <=> Rounds(m, Sent, lost)
    BY <2>1, <2>2 DEF Rounds, Sent, Times
  <2> QED BY <2>1, <2>2, <2>3, <2>4 DEF GridWalked
<1>3. CASE Searching
  <2>1. phase = "github" /\ phase' = "github" /\ PassNext /\ UNCHANGED <<disk, lost>>
    BY <1>3 DEF Searching
  <2> QED BY <2>1, GridPass
<1>4. CASE SavePass \/ Drop
  BY <1>4, GridDone
<1>5. CASE Merge
  <2>1. /\ UNCHANGED <<step, codeUsed, asks, lost, disk>> /\ phase = "merge" /\ phase' = "idle"
        /\ cursor' = disk.cursor
    BY <1>5 DEF Merge, Forget, work
  <2>2. ASSUME NEW m PROVE Rounds(m, Sent, lost)' <=> Rounds(m, Sent, lost)
    BY <2>1 DEF Rounds, Sent, Times
  <2> QED BY <2>1, <2>2 DEF GridWalked
<1> QED BY <1>1, <1>2, <1>3, <1>4, <1>5 DEF Next

LEMMA GridStart == Init => GridWalked
<1> SUFFICES ASSUME Init, CodeLen > 0 PROVE GridWalked
  BY DEF GridWalked
<1>1. /\ phase = "idle" /\ step = "off" /\ codeUsed = 0 /\ cursor.code = 0 /\ disk.cursor.code = 0
      /\ lost = 0 /\ asks = [q \in 0..(CodeLen - 1) |-> 0]
  BY DEF Init, PassInit, NoWork
<1>2. Rounds(0, Sent, lost)
  BY <1>1, PassNats DEF Rounds, Sent, Times
<1> QED BY <1>1, <1>2, PassNats DEF GridWalked

LEMMA WalkedInTurn == ASSUME IInv, GridWalked PROVE GridInTurn
<1>1. DOMAIN asks = 0..(CodeLen - 1)
  BY DEF IInv, TypeOK, PassOK, MemoryOK
<1>2. CASE CodeLen > 0
  <2>1. PICK m \in Nat : Rounds(m, Sent, lost)
    BY <1>2 DEF GridWalked
  <2>2. ASSUME NEW q \in 0..(CodeLen - 1), NEW p \in 0..(CodeLen - 1)
        PROVE  asks[q] <= asks[p] + 1 + lost
    <3>1. asks[q] <= m + Times(q, Sent) + lost /\ m + Times(p, Sent) <= asks[p]
      BY <2>1 DEF Rounds
    <3>2. Times(q, Sent) <= Times(p, Sent) + 1 /\ Times(q, Sent) \in Nat /\ Times(p, Sent) \in Nat
      BY <1>2, GridNumbers DEF Times
    <3>3. asks[q] \in Nat /\ asks[p] \in Nat /\ lost \in Nat
      BY <1>2, GridNumbers
    <3> QED BY <3>1, <3>2, <3>3
  <2> QED BY <1>1, <2>2 DEF GridInTurn
<1>3. CASE ~(CodeLen > 0)
  <2>1. 0..(CodeLen - 1) = {}
    BY <1>3, PassNats
  <2> QED BY <1>1, <2>1 DEF GridInTurn
<1> QED BY <1>2, <1>3

\* The grid of code queries is walked in turn, over passes that are cut short,
\* fail, are refused or lost: a query is sent more than once more often than
\* another only for passes whose cursor did not reach the state file.
THEOREM GridWalkedInTurn == Spec => []GridInTurn
<1>1. IInv /\ GridWalked /\ [Next]_vars => GridWalked'
  BY GridStep
<1>2. IInv /\ GridWalked => GridInTurn
  BY WalkedInTurn
<1> QED BY <1>1, <1>2, GridStart, DiscoveryTyped, PTL DEF Spec

-----------------------------------------------------------------------------
(* A topic is asked for once.                                              *)

Busy == at \in {"listing", "topic", "deadend", "climb", "harvest"}
OneOf(s, j) == [slug |-> s, topic |-> j]
NoCarved(s) == \A i \in DOMAIN queue : ~(queue[i].carved /\ queue[i].ref.slug = s)

\* A group that was climbed is not entered again: no seed is left, no carved child
\* of it waits, and the one node of it that is under way is the one that climbed.
Closed(s) == /\ roots = {} /\ NoCarved(s)
             /\ Busy /\ node.ref.slug = s => node.ref.topic = 0 /\ node.depth > 0

Marked == /\ \A r \in topicsSeen : r.slug \in visited
          /\ Busy => /\ node.ref \in topicsSeen /\ node.ref.slug \in visited
                     /\ node.depth > 0 => roots = {}
                     /\ node.depth > 0 /\ node.ref.topic = 0 => NoCarved(node.ref.slug)
          /\ viaTopic => at = "harvest" /\ node.ref.topic # 0
Queued == /\ at = "off" => roots = {} /\ queue = <<>> /\ \A r \in InForum : asked[r] = 0
          /\ \A n \in roots : n.depth = 0 /\ ~n.carved
          /\ \A i \in DOMAIN queue :
                /\ queue[i].depth > 0
                /\ queue[i].carved => queue[i].ref.topic # 0 /\ queue[i].ref.slug \in visited
Silent == /\ at \in {"topic", "deadend", "climb"} => ~HasMessages(Listing[node.ref.slug])
          /\ at \in {"deadend", "climb"} => node.depth > 0 /\ node.ref.topic = 0
Unasked == /\ at \in {"listing", "topic"} /\ node.ref.topic # 0 => asked[node.ref] = 0
           /\ at \in {"listing", "deadend"} /\ node.depth > 0 /\ node.ref.topic = 0 =>
                 \A j \in Topics : asked[OneOf(node.ref.slug, j)] = 0
           /\ at = "climb" =>
                 \A j \in Topics : j >= rung => asked[OneOf(node.ref.slug, j)] = 0
AskedOnce == \A r \in InForum : asked[r] # 0 =>
                /\ asked[r] = 1 /\ r.slug \in visited /\ ~HasMessages(Listing[r.slug])
                /\ r \in topicsSeen \/ Closed(r.slug)
Asking == Marked /\ Queued /\ Silent /\ Unasked /\ AskedOnce

LEMMA Forums ==
    ASSUME NEW s \in Slugs, NEW j \in Topics
    PROVE  OneOf(s, j) \in InForum /\ OneOf(s, j).slug = s /\ OneOf(s, j).topic = j
<1>1. j # 0
  BY ScanAssumption
<1> QED BY <1>1 DEF OneOf, InForum, Refs

\* Nothing that asking depends on has moved, but that the queue may have shrunk.
LEMMA AskingStill ==
    ASSUME Asking, UNCHANGED <<at, roots, queue, visited, topicsSeen, node, viaTopic, rung, asked>>
    PROVE  Asking'
<1>1. Marked' /\ Queued' /\ Silent' /\ Unasked'
  BY DEF Asking, Marked, Queued, Silent, Unasked, Busy, NoCarved
<1>2. AskedOnce'
  BY DEF Asking, AskedOnce, Closed, Busy, NoCarved
<1> QED BY <1>1, <1>2 DEF Asking

LEMMA AskingAdmit ==
    ASSUME ScanOK, Asking, Admit PROVE Asking'
<1>1. PICK n \in Waiting :
        /\ at = "next" /\ Pop(n) /\ Admissible(n)
        /\ at' = "listing" /\ node' = n
        /\ visited' = visited \cup {n.ref.slug} /\ topicsSeen' = MarkSeen(n)
        /\ UNCHANGED <<answer, climbing, productive, asked, missed, live, faults>>
  BY DEF Admit
<1>2. /\ n \in Node /\ roots' \subseteq Node /\ queue' \in Seq(Node)
      /\ \/ n \in roots /\ roots' \subseteq roots /\ queue' = queue
         \/ /\ roots = {} /\ roots' = {} /\ queue # <<>> /\ n = queue[1]
            /\ Len(queue') = Len(queue) - 1
            /\ \A i \in 1..Len(queue') : queue'[i] = queue[i + 1]
  BY <1>1, PopType DEF ScanOK
<1>3. /\ roots' \subseteq roots
      /\ \A i \in DOMAIN queue' : \E j \in DOMAIN queue : queue'[i] = queue[j]
  <2>1. queue \in Seq(Node)
    BY DEF ScanOK
  <2> QED BY <1>2, <2>1
<1>4. \/ n \in roots /\ n.depth = 0 /\ ~n.carved
      \/ roots = {} /\ roots' = {} /\ n.depth > 0 /\ \E i \in DOMAIN queue : n = queue[i]
  <2>1. queue \in Seq(Node)
    BY DEF ScanOK
  <2> QED BY <1>2, <2>1 DEF Asking, Queued
<1>5. n.ref \in Refs /\ n.ref.slug \in Slugs
  BY <1>2, NodeFacts
<1>6. ~Busy /\ viaTopic = FALSE /\ viaTopic' = FALSE
  BY <1>1 DEF Busy, Asking, Marked, ScanOK, answer
<1>7. \A i \in DOMAIN queue' :
        /\ queue'[i].depth > 0
        /\ queue'[i].carved => queue'[i].ref.topic # 0 /\ queue'[i].ref.slug \in visited
  BY <1>3 DEF Asking, Queued
<1>8. ASSUME n.depth > 0, ~n.carved PROVE n.ref.slug \notin visited
  BY <1>1, <1>2, <1>8 DEF Admissible, Known, ByRef
<1>9. ASSUME n.depth = 0 \/ n.carved PROVE n.ref \notin topicsSeen
  BY <1>1, <1>9 DEF Admissible, Known, ByRef
<1>10. n.depth \in Nat /\ n.carved \in BOOLEAN
  BY <1>2, ScanNumbers DEF Node
<1>11. n.depth > 0 /\ n.ref.topic = 0 => ~n.carved
  BY <1>4, <1>10 DEF Asking, Queued
<1>12. Marked'
  <2>1. \A r \in topicsSeen' : r.slug \in visited'
    BY <1>1 DEF MarkSeen, Asking, Marked
  <2>2. n.depth > 0 => roots' = {}
    BY <1>4, <1>10
  <2>3. n.depth > 0 /\ n.ref.topic = 0 => NoCarved(n.ref.slug)'
    BY <1>7, <1>8, <1>11 DEF NoCarved
  <2>4. node'.ref \in topicsSeen' /\ node'.ref.slug \in visited'
    BY <1>1 DEF MarkSeen
  <2>5. NoCarved(node.ref.slug)' <=> NoCarved(n.ref.slug)'
    BY <1>1 DEF NoCarved
  <2> QED BY <1>1, <1>6, <2>1, <2>2, <2>3, <2>4, <2>5 DEF Marked
<1>13. Queued'
  BY <1>1, <1>3, <1>7 DEF Asking, Queued
<1>14. Silent'
  BY <1>1 DEF Silent
<1>15. ASSUME NEW r \in InForum, asked[r] # 0, r \notin topicsSeen
       PROVE  n.ref.slug # r.slug /\ Closed(r.slug)
  <2>1. r.slug \in visited /\ Closed(r.slug)
    BY <1>15 DEF Asking, AskedOnce
  <2>2. roots = {} /\ NoCarved(r.slug)
    BY <2>1 DEF Closed
  <2>3. n.depth > 0 /\ \E i \in DOMAIN queue : n = queue[i]
    BY <1>4, <2>2
  <2>4. n.ref.slug = r.slug => ~n.carved
    BY <2>2, <2>3 DEF NoCarved
  <2> QED BY <1>8, <2>1, <2>3, <2>4
<1>16. Unasked'
  <2>1. n.ref.topic # 0 => asked[n.ref] = 0
    <3>1. SUFFICES ASSUME n.ref.topic # 0, asked[n.ref] # 0 PROVE FALSE
      OBVIOUS
    <3>2. n.ref \in InForum
      BY <1>5, <3>1 DEF InForum
    <3>3. n.ref \in topicsSeen
      BY <1>15, <3>1, <3>2
    <3>4. n.depth > 0 /\ ~n.carved
      BY <1>9, <1>10, <3>3
    <3>5. n.ref.slug \in visited
      BY <3>3 DEF Asking, Marked
    <3> QED BY <1>8, <3>4, <3>5
  <2>2. ASSUME n.depth > 0, n.ref.topic = 0, NEW j \in Topics
        PROVE  asked[OneOf(n.ref.slug, j)] = 0
    <3>1. n.ref.slug \notin visited
      BY <1>8, <1>11, <2>2
    <3> QED BY <1>5, <3>1, Forums DEF Asking, AskedOnce
  <2> QED BY <1>1, <2>1, <2>2 DEF Unasked
<1>17. AskedOnce'
  <2>1. ASSUME NEW r \in InForum, asked'[r] # 0
        PROVE  /\ asked'[r] = 1 /\ r.slug \in visited' /\ ~HasMessages(Listing[r.slug])
               /\ r \in topicsSeen' \/ Closed(r.slug)'
    <3>1. asked[r] # 0 /\ asked'[r] = asked[r]
      BY <1>1, <2>1
    <3>2. asked[r] = 1 /\ r.slug \in visited /\ ~HasMessages(Listing[r.slug])
      BY <3>1 DEF Asking, AskedOnce
    <3>3. ASSUME r \notin topicsSeen PROVE Closed(r.slug)'
      <4>1. n.ref.slug # r.slug /\ Closed(r.slug)
        BY <1>15, <3>1, <3>3
      <4>2. roots' = {}
        BY <1>3, <4>1 DEF Closed
      <4>3. NoCarved(r.slug)'
        BY <1>3, <4>1 DEF Closed, NoCarved
      <4> QED BY <1>1, <4>1, <4>2, <4>3 DEF Closed
    <3> QED BY <1>1, <3>1, <3>2, <3>3 DEF MarkSeen
  <2> QED BY <2>1 DEF AskedOnce
<1> QED BY <1>12, <1>13, <1>14, <1>16, <1>17 DEF Asking

LEMMA AskingRefuse ==
    ASSUME ScanOK, Asking, Refuse PROVE Asking'
<1>1. PICK n \in Waiting : at = "next" /\ Pop(n)
  BY DEF Refuse
<1>2. UNCHANGED <<at, visited, topicsSeen, node, viaTopic, rung, asked>>
  BY DEF Refuse, admission, answer, climbing
<1>3. /\ roots' \subseteq roots
      /\ \A i \in DOMAIN queue' : \E j \in DOMAIN queue : queue'[i] = queue[j]
  <2>1. queue \in Seq(Node) /\ roots \subseteq Node
    BY DEF ScanOK
  <2>2. /\ n \in Node /\ roots' \subseteq Node /\ queue' \in Seq(Node)
        /\ \/ n \in roots /\ roots' \subseteq roots /\ queue' = queue
           \/ /\ roots = {} /\ roots' = {} /\ queue # <<>> /\ n = queue[1]
              /\ Len(queue') = Len(queue) - 1
              /\ \A i \in 1..Len(queue') : queue'[i] = queue[i + 1]
    BY <1>1, <2>1, PopType
  <2> QED BY <2>1, <2>2
<1>4. \A s : NoCarved(s) => NoCarved(s)'
  BY <1>3 DEF NoCarved
<1>5. Marked' /\ Silent' /\ Unasked'
  BY <1>1, <1>2 DEF Asking, Marked, Silent, Unasked, Busy
<1>6. Queued'
  BY <1>1, <1>2, <1>3 DEF Asking, Queued
<1>7. AskedOnce'
  <2>1. \A s : Closed(s) => Closed(s)'
    BY <1>1, <1>2, <1>3, <1>4 DEF Closed, Busy
  <2> QED BY <1>2, <2>1 DEF Asking, AskedOnce
<1> QED BY <1>5, <1>6, <1>7 DEF Asking

LEMMA AskingEdges ==
    ASSUME ScanOK, Asking, BeginScan \/ EndScan \/ LeaveDeadEnd PROVE Asking'
<1>1. CASE BeginScan
  <2>1. /\ at = "off" /\ at' = "next" /\ roots' = Seeds
        /\ UNCHANGED <<queue, visited, topicsSeen, node, viaTopic, asked>>
    BY <1>1 DEF BeginScan, admission, answer
  <2>2. queue = <<>> /\ roots = {}
    BY <2>1 DEF Asking, Queued
  <2>3. \A n \in roots' : n.depth = 0 /\ ~n.carved
    BY <2>1, SeedNodes DEF ScanOK
  <2>4. AskedOnce'
    BY <2>1 DEF Asking, Queued, AskedOnce
  <2>5. Marked' /\ Silent' /\ Unasked'
    BY <2>1 DEF Asking, Marked, Silent, Unasked, Busy
  <2>6. Queued'
    BY <2>1, <2>2, <2>3 DEF Queued
  <2> QED BY <2>4, <2>5, <2>6 DEF Asking
<1>2. CASE EndScan \/ LeaveDeadEnd
  <2>1. /\ UNCHANGED <<roots, queue, visited, topicsSeen, node, viaTopic, rung, asked>>
        /\ \/ at = "next" /\ at' = "done"
           \/ at = "deadend" /\ at' = "harvest"
    BY <1>2 DEF EndScan, LeaveDeadEnd, seeding, admission, answer, climbing
  <2>2. Marked' /\ Queued' /\ Silent' /\ Unasked'
    BY <2>1 DEF Asking, Marked, Queued, Silent, Unasked, Busy, NoCarved
  <2>3. AskedOnce'
    BY <2>1 DEF Asking, AskedOnce, Closed, Busy, NoCarved
  <2> QED BY <2>2, <2>3 DEF Asking
<1> QED BY <1>1, <1>2

LEMMA AskingListing ==
    ASSUME ScanOK, Asking, ReadListing PROVE Asking'
<1>1. /\ at = "listing"
      /\ UNCHANGED <<roots, queue, visited, topicsSeen, node, viaTopic, rung, asked>>
      /\ at' = IF NeedsTopic(pages', failed') THEN "topic"
               ELSE IF DeadEnd(pages', failed') THEN "deadend" ELSE "harvest"
      /\ failed' # TRUE => pages' = Walk(node)
  BY DEF ReadListing, seeding, admission, climbing
<1>2. at' \in {"topic", "deadend"} => ~HasMessages(Listing[node.ref.slug])
  <2>1. at' \in {"topic", "deadend"} => ~HasMessages(Walk(node))
    BY <1>1 DEF NeedsTopic, DeadEnd
  <2> QED BY <2>1, Walks DEF ScanOK
<1>3. /\ at' = "topic" => node.ref.topic # 0
      /\ at' = "deadend" => node.depth > 0 /\ node.ref.topic = 0
      /\ at' \in {"topic", "deadend", "harvest"}
  BY <1>1 DEF NeedsTopic, DeadEnd
<1>4. Marked' /\ Queued' /\ Silent' /\ Unasked'
  BY <1>1, <1>2, <1>3 DEF Asking, Marked, Queued, Silent, Unasked, Busy, NoCarved
<1>5. AskedOnce'
  BY <1>1, <1>3 DEF Asking, AskedOnce, Closed, Busy, NoCarved
<1> QED BY <1>4, <1>5 DEF Asking

\* One more question, of the node under way.
LEMMA AskingOnce ==
    ASSUME ScanOK, Asking, NEW r \in InForum, Ask(r), asked[r] = 0, r.slug = node.ref.slug,
           Busy, Busy', UNCHANGED <<roots, queue, visited, topicsSeen, node>>,
           ~HasMessages(Listing[r.slug]),
           r = node.ref \/ (node.depth > 0 /\ node.ref.topic = 0)
    PROVE  AskedOnce'
<1>1. asked'[r] = 1 /\ \A q \in InForum : q # r => asked'[q] = asked[q]
  BY AskType DEF ScanOK
<1>2. r.slug \in visited
  BY DEF Asking, Marked
<1>3. \A s : Closed(s)' <=> Closed(s)
  BY DEF Closed, NoCarved
<1>4. r \in topicsSeen \/ Closed(r.slug)
  BY DEF Asking, Marked, Closed
<1> QED BY <1>1, <1>2, <1>3, <1>4 DEF Asking, AskedOnce

LEMMA AskingTopic ==
    ASSUME ScanOK, ScanPoints, Asking, ReadTopic PROVE Asking'
<1>1. /\ at = "topic" /\ Ask(node.ref) /\ viaTopic' = TRUE /\ at' = "harvest"
      /\ UNCHANGED <<roots, queue, visited, topicsSeen, node, rung>>
  BY DEF ReadTopic, seeding, admission, climbing
<1>2. node.ref.topic # 0 /\ node.ref \in InForum
  BY <1>1, NodeFacts DEF ScanPoints, InForum, ScanOK
<1>3. asked[node.ref] = 0 /\ ~HasMessages(Listing[node.ref.slug])
  BY <1>1, <1>2 DEF Asking, Unasked, Silent
<1>4. AskedOnce'
  BY <1>1, <1>2, <1>3, AskingOnce DEF Busy
<1>5. Marked' /\ Queued' /\ Silent' /\ Unasked'
  BY <1>1, <1>2 DEF Asking, Marked, Queued, Silent, Unasked, Busy, NoCarved
<1> QED BY <1>4, <1>5 DEF Asking

LEMMA AskingClimb ==
    ASSUME ScanOK, ScanPoints, Asking, BeginClimb \/ Climb PROVE Asking'
<1>1. CASE BeginClimb
  <2>1. /\ at = "deadend" /\ at' = "climb"
        /\ UNCHANGED <<roots, queue, visited, topicsSeen, node, viaTopic, asked>>
    BY <1>1 DEF BeginClimb, seeding, admission, answer
  <2>2. Marked' /\ Queued' /\ Silent'
    BY <2>1 DEF Asking, Marked, Queued, Silent, Busy, NoCarved
  <2>3. Unasked'
    BY <2>1 DEF Asking, Silent, Unasked
  <2>4. AskedOnce'
    BY <2>1 DEF Asking, AskedOnce, Closed, Busy, NoCarved
  <2> QED BY <2>2, <2>3, <2>4 DEF Asking
<1>2. CASE Climb
  <2> DEFINE r == OneOf(node.ref.slug, rung)
  <2>1. /\ at = "climb" /\ Ask(r) /\ rung' = RungAfter(rung)
        /\ at' = IF RungAfter(rung) = 0 THEN "harvest" ELSE "climb"
        /\ UNCHANGED <<roots, queue, visited, topicsSeen, node, viaTopic>>
    BY <1>2 DEF Climb, OneOf, seeding, admission, answer
  <2>2. rung \in Topics /\ node.ref.slug \in Slugs
    BY <2>1, NodeFacts DEF ScanPoints, ScanOK
  <2>3. r \in InForum /\ r.slug = node.ref.slug /\ r.topic = rung
    BY <2>2, Forums
  <2>4. \A j \in Topics : j \in Int
    BY ScanAssumption
  <2>5. asked[r] = 0
    BY <2>1, <2>2, <2>4 DEF Asking, Unasked
  <2>6. node.depth > 0 /\ node.ref.topic = 0 /\ ~HasMessages(Listing[node.ref.slug])
    BY <2>1 DEF Asking, Silent
  <2> HIDE DEF r
  <2>7. AskedOnce'
    BY <2>1, <2>3, <2>5, <2>6, AskingOnce DEF Busy
  <2>8. Marked' /\ Queued'
    BY <2>1 DEF Asking, Marked, Queued, Busy, NoCarved
  <2>9. Silent'
    BY <2>1, <2>6 DEF Silent
  <2>10. Unasked'
    <3>1. SUFFICES ASSUME at' = "climb" PROVE \A j \in Topics :
                     j >= rung' => asked'[OneOf(node.ref.slug, j)] = 0
      BY <2>1 DEF Unasked
    <3>2. Above(rung) # {} /\ rung' \in Topics /\ rung' > rung
      BY <2>1, <2>2, <3>1, Rungs
    <3>3. ASSUME NEW j \in Topics, j >= rung' PROVE asked'[OneOf(node.ref.slug, j)] = 0
      <4>1. j >= rung /\ j # rung
        BY <2>2, <2>4, <3>2, <3>3
      <4>2. OneOf(node.ref.slug, j) \in InForum /\ OneOf(node.ref.slug, j) # r
        BY <2>2, <2>3, <4>1, Forums
      <4>3. asked[OneOf(node.ref.slug, j)] = 0
        BY <2>1, <4>1 DEF Asking, Unasked
      <4>4. asked'[OneOf(node.ref.slug, j)] = asked[OneOf(node.ref.slug, j)]
        BY <2>1, <2>3, <4>2, AskType DEF ScanOK
      <4> QED BY <4>3, <4>4
    <3> QED BY <3>3
  <2> QED BY <2>7, <2>8, <2>9, <2>10 DEF Asking
<1> QED BY <1>1, <1>2

LEMMA AskingHarvest ==
    ASSUME ScanOK, Asking, Harvest PROVE Asking'
<1>1. PICK hits \in SUBSET (Candidates \cap Alive) :
        queue' = IF pages # <<>> /\ Expands(hits) THEN queue \o ChildRefs ELSE queue
  BY DEF Harvest
<1>2. /\ at = "harvest" /\ at' = "next" /\ viaTopic' = FALSE
      /\ UNCHANGED <<roots, visited, topicsSeen, rung, asked>>
  BY DEF Harvest, admission, climbing
<1>3. queue \in Seq(Node) /\ node.ref.slug \in visited
  BY <1>2 DEF ScanOK, Asking, Marked, Busy
\* What joins the queue was found below the node, carved only if it was read by topic.
<1>4. ASSUME NEW i \in DOMAIN queue'
      PROVE  \/ \E j \in DOMAIN queue : queue'[i] = queue[j]
             \/ /\ queue'[i].depth > 0
                /\ queue'[i].carved => /\ viaTopic /\ queue'[i].ref.topic # 0
                                       /\ queue'[i].ref.slug = node.ref.slug
  <2>1. CASE queue' = queue
    BY <2>1
  <2>2. CASE Expands(hits) /\ queue' = queue \o ChildRefs
    <3>1. /\ ChildRefs \in Seq(Node)
          /\ \A k \in DOMAIN ChildRefs :
               /\ ChildRefs[k].depth > 0
               /\ ChildRefs[k].carved =>
                     /\ viaTopic /\ ChildRefs[k].ref.topic # 0
                     /\ ChildRefs[k].ref.slug = node.ref.slug
      BY <2>2, Children DEF Expands, ScanOK
    <3> DEFINE kids == ChildRefs
    <3>2. kids \in Seq(Node) /\ queue' = queue \o kids
      BY <2>2, <3>1
    <3> HIDE DEF kids
    <3>3. \/ i \in DOMAIN queue /\ queue'[i] = queue[i]
          \/ i - Len(queue) \in DOMAIN kids /\ queue'[i] = kids[i - Len(queue)]
      <4>1. /\ Len(queue') = Len(queue) + Len(kids) /\ DOMAIN queue' = 1..Len(queue')
            /\ \A k \in 1..(Len(queue) + Len(kids)) :
                 queue'[k] = IF k <= Len(queue) THEN queue[k] ELSE kids[k - Len(queue)]
        BY <1>3, <3>2, ConcatProperties
      <4>2. DOMAIN queue = 1..Len(queue) /\ DOMAIN kids = 1..Len(kids)
            /\ Len(queue) \in Nat /\ Len(kids) \in Nat
        BY <1>3, <3>2
      <4> QED BY <4>1, <4>2
    <3> QED BY <3>1, <3>3 DEF kids
  <2> QED BY <1>1, <2>1, <2>2
<1>5. Queued'
  <2>1. ASSUME NEW i \in DOMAIN queue'
        PROVE  /\ queue'[i].depth > 0
               /\ queue'[i].carved => queue'[i].ref.topic # 0 /\ queue'[i].ref.slug \in visited
    BY <1>3, <1>4 DEF Asking, Queued
  <2> QED BY <1>2, <2>1 DEF Asking, Queued
<1>6. Marked' /\ Silent' /\ Unasked'
  BY <1>2 DEF Asking, Marked, Silent, Unasked, Busy
<1>7. AskedOnce'
  <2>1. ASSUME NEW s, Closed(s) PROVE Closed(s)'
    <3>1. node.ref.slug = s => ~viaTopic
      BY <1>2, <2>1 DEF Closed, Busy, Asking, Marked
    <3>2. NoCarved(s)'
      BY <1>4, <2>1, <3>1 DEF NoCarved, Closed
    <3> QED BY <1>2, <2>1, <3>2 DEF Closed, Busy
  <2> QED BY <1>2, <2>1 DEF Asking, AskedOnce
<1> QED BY <1>5, <1>6, <1>7 DEF Asking

LEMMA AskingReset == ASSUME ResetScan PROVE Asking'
<1>1. /\ at' = "off" /\ roots' = {} /\ queue' = <<>> /\ topicsSeen' = {} /\ viaTopic' = FALSE
      /\ \A r \in InForum : asked'[r] = 0
  BY DEF ResetScan
<1>2. Marked' /\ Queued' /\ Silent' /\ Unasked'
  BY <1>1 DEF Marked, Queued, Silent, Unasked, Busy
<1>3. AskedOnce'
  BY <1>1 DEF AskedOnce
<1> QED BY <1>2, <1>3 DEF Asking

LEMMA AskingStep == ASSUME IInv, Asking, [Next]_vars PROVE Asking'
<1>1. CASE Scanning
  <2>1. ScanNext /\ ScanOK /\ ScanPoints
    BY <1>1 DEF Scanning, IInv, TypeOK
  <2> QED
    BY <2>1, AskingEdges, AskingRefuse, AskingAdmit, AskingListing, AskingTopic, AskingClimb,
       AskingHarvest DEF ScanNext
<1>2. CASE SaveScan \/ Drop
  BY <1>2, AskingReset DEF SaveScan, Drop
<1>3. CASE StartCycle \/ Searching \/ SavePass \/ Merge \/ Rest \/ UNCHANGED vars
  <2>1. UNCHANGED <<at, roots, queue, visited, topicsSeen, node, viaTopic, rung, asked>>
    BY <1>3 DEF StartCycle, Searching, SavePass, Merge, Rest, vars, scanVars, seeding, admission,
       answer, climbing
  <2> QED BY <2>1, AskingStill
<1> QED BY <1>1, <1>2, <1>3 DEF Next

LEMMA AskingStart == Init => Asking
<1> SUFFICES ASSUME Init PROVE Asking
  OBVIOUS
<1>1. /\ at = "off" /\ roots = {} /\ queue = <<>> /\ topicsSeen = {} /\ viaTopic = FALSE
      /\ \A r \in InForum : asked[r] = 0
  BY DEF Init, ScanInit, Idle
<1>2. Marked /\ Queued /\ Silent /\ Unasked
  BY <1>1 DEF Marked, Queued, Silent, Unasked, Busy
<1>3. AskedOnce
  BY <1>1 DEF AskedOnce
<1> QED BY <1>2, <1>3 DEF Asking

\* A topic is read once in a cycle at most, whichever way the scan comes to it, and
\* never in a chat whose listing carries messages.
THEOREM TopicsAskedRight == Spec => []TopicAskedRight
<1>1. IInv /\ Asking => TopicAskedRight
  <2> SUFFICES ASSUME IInv, Asking PROVE TopicAskedRight
    OBVIOUS
  <2>1. \A r \in InForum : asked[r] \in Nat
    BY DEF IInv, TypeOK, ScanOK
  <2> QED BY <2>1 DEF Asking, AskedOnce, TopicAskedRight
<1>2. IInv /\ Asking /\ [Next]_vars => Asking'
  BY AskingStep
<1> QED BY <1>1, <1>2, AskingStart, DiscoveryTyped, PTL DEF Spec

-----------------------------------------------------------------------------
(* A sweep is not forgotten before its hits.                               *)

\* The keys of a memory that were marked in cycle a or later.
Since(p, a) == {k \in Refs : p[k] >= a}

\* A hit is remembered for as long as the sweep that made it, or the memory was
\* full of what is as recent.
Held(p, l, r) ==
    l[r.slug] # 0 /\ Carries(Discussion(r)) =>
        p[r] >= l[r.slug] \/ Cardinality(Since(p, l[r.slug])) >= MaxProductive

Climbing(r) == at = "climb" /\ r.slug = node.ref.slug /\ r.topic >= rung
SweepsHeld ==
    /\ phase # "scan" => at = "off"
    /\ at = "climb" => ladders[node.ref.slug] = cycle
    /\ \A k \in Refs : productive[k] <= cycle /\ disk.productive[k] <= cycle
    /\ \A r \in InForum \ missed : ~Climbing(r) => Held(productive, ladders, r)
    /\ \A r \in InForum \ missed : Held(disk.productive, disk.ladders, r)

LEMMA RefsFinite == IsFiniteSet(Refs) /\ InForum \subseteq Refs
<1>1. IsFiniteSet(Slugs)
  BY ScanAssumption, WorldAssumption, FS_Subset
<1>2. IsFiniteSet(Topics \cup {0})
  BY ScanAssumption, FS_Singleton, FS_Union
<1>3. IsFiniteSet(Slugs \X (Topics \cup {0}))
  BY <1>1, <1>2, FS_Product
<1> DEFINE f == [p \in Slugs \X (Topics \cup {0}) |-> [slug |-> p[1], topic |-> p[2]]]
<1>4. Refs = {f[p] : p \in Slugs \X (Topics \cup {0})}
  <2>1. ASSUME NEW r \in Refs PROVE \E p \in Slugs \X (Topics \cup {0}) : r = f[p]
    <3>1. r = [slug |-> r.slug, topic |-> r.topic] /\ r.slug \in Slugs /\ r.topic \in Topics \cup {0}
      BY DEF Refs
    <3>2. <<r.slug, r.topic>> \in Slugs \X (Topics \cup {0}) /\ f[<<r.slug, r.topic>>] = r
      BY <3>1
    <3> QED BY <3>2
  <2>2. \A p \in Slugs \X (Topics \cup {0}) : f[p] \in Refs
    BY DEF Refs
  <2> HIDE DEF f
  <2> QED BY <2>1, <2>2
<1> HIDE DEF f
<1>5. IsFiniteSet(Refs)
  BY <1>3, <1>4, Images
<1> QED BY <1>5 DEF InForum

LEMMA SinceGrows ==
    ASSUME NEW p, NEW q, NEW a, NEW b, Since(p, a) \subseteq Since(q, b),
           Cardinality(Since(p, a)) >= MaxProductive
    PROVE  Cardinality(Since(q, b)) >= MaxProductive
<1>1. Since(q, b) \in SUBSET Refs /\ Since(p, a) \in SUBSET Refs
  BY DEF Since
<1>2. IsFiniteSet(Since(q, b)) /\ IsFiniteSet(Since(p, a))
  BY <1>1, RefsFinite, FS_Subset
<1>3. Cardinality(Since(p, a)) <= Cardinality(Since(q, b))
  BY <1>2, FS_Subset
<1> QED BY <1>2, <1>3, FS_CardinalityType, ScanNumbers

\* A memory that only grows holds what it held.
LEMMA HeldMore ==
    ASSUME NEW p \in [Refs -> Nat], NEW q \in [Refs -> Nat], \A k \in Refs : q[k] >= p[k],
           NEW l \in [Slugs -> Nat], NEW r \in InForum, Held(p, l, r)
    PROVE  Held(q, l, r)
<1>1. r \in Refs /\ r.slug \in Slugs
  BY DEF InForum, Refs
<1>2. l[r.slug] \in Nat
  BY <1>1
<1>3. Since(p, l[r.slug]) \subseteq Since(q, l[r.slug])
  BY <1>2 DEF Since
<1>4. p[r] >= l[r.slug] => q[r] >= l[r.slug]
  BY <1>1, <1>2
<1> QED BY <1>3, <1>4, SinceGrows DEF Held

\* Of the keys marked since a, the cut keeps all or keeps as many as it may.
LEMMA CutKeeps ==
    ASSUME NEW m \in [Refs -> Nat], NEW a \in Nat \ {0}
    PROVE  LET c == Recent(m, RefRank, MaxProductive)
           IN  \/ \A k \in Since(m, a) : c[k] = m[k]
               \/ Cardinality(Since(c, a)) >= MaxProductive
<1> DEFINE c == Recent(m, RefRank, MaxProductive)
           Before(x, y) == m[x] > m[y] \/ (m[x] = m[y] /\ RefRank[x] < RefRank[y])
           Ahead(k) == {j \in Refs : m[j] # 0 /\ Before(j, k)}
           K == Since(m, a)
           O == {p \in K \X K : Before(p[1], p[2])}
           T == {x \in K : Cardinality(Below(K, O, x)) < MaxProductive}
<1>1. DOMAIN m = Refs /\ \A k \in Refs :
        c[k] = IF m[k] # 0 /\ Cardinality(Ahead(k)) < MaxProductive THEN m[k] ELSE 0
  BY DEF Recent
<1>2. K \subseteq Refs /\ \A k \in Refs : k \in K <=> m[k] >= a
  BY DEF Since
<1>3. IsFiniteSet(K)
  BY <1>2, RefsFinite, FS_Subset
<1>4. \A x \in Refs : m[x] \in Int /\ RefRank[x] \in Int /\ a \in Int /\ a > 0
  BY ScanAssumption
<1>5. StrictTotal(K, O)
  <2> DEFINE v == [k \in K |-> m[k]]
             w == [k \in K |-> RefRank[k]]
  <2>1. v \in [K -> Nat] /\ w \in [K -> Nat]
    BY <1>2, ScanAssumption
  <2>2. \A i, j \in K : w[i] = w[j] => i = j
    BY <1>2, ScanAssumption
  <2>3. \A i, j \in K : <<i, j>> \in O <=> v[i] > v[j] \/ (v[i] = v[j] /\ w[i] < w[j])
    OBVIOUS
  <2> HIDE DEF v, w, K, O
  <2> QED BY <2>1, <2>2, <2>3, MoreFirst
<1>6. ASSUME NEW k \in K PROVE Below(K, O, k) = Ahead(k)
  <2>1. ASSUME NEW j \in Refs, m[j] # 0, Before(j, k) PROVE j \in K
    BY <1>2, <1>4, <2>1
  <2> HIDE DEF K
  <2>2. \A j \in Refs : j \in K /\ Before(j, k) <=> m[j] # 0 /\ Before(j, k)
    BY <1>2, <1>4, <2>1
  <2> QED BY <1>2, <2>2 DEF Below
<1>7. ASSUME NEW k \in T PROVE c[k] = m[k] /\ k \in Since(c, a)
  <2>1. k \in K /\ k \in Refs /\ m[k] >= a
    BY <1>2
  <2>2. Cardinality(Ahead(k)) < MaxProductive
    BY <1>6, <2>1
  <2> HIDE DEF c, Ahead, T, K
  <2>3. m[k] # 0
    BY <1>4, <2>1
  <2>4. c[k] = m[k]
    BY <1>1, <2>1, <2>2, <2>3
  <2> QED BY <2>1, <2>4 DEF Since
<1> HIDE DEF c, O, Ahead
<1>8. CASE MaxProductive <= Cardinality(K)
  <2>1. MaxProductive <= Cardinality(T)
    <3> HIDE DEF K
    <3> QED BY <1>3, <1>5, <1>8, ManyFirst, ScanNumbers
  <2>2. T \subseteq Since(c, a) /\ Since(c, a) \in SUBSET Refs /\ T \in SUBSET K
    BY <1>7 DEF Since
  <2> HIDE DEF T, K
  <2>3. /\ IsFiniteSet(Since(c, a)) /\ IsFiniteSet(T)
        /\ Cardinality(T) <= Cardinality(Since(c, a))
    BY <1>3, <2>2, RefsFinite, FS_Subset
  <2>4. Cardinality(T) \in Nat /\ Cardinality(Since(c, a)) \in Nat
    BY <2>3, FS_CardinalityType
  <2> QED BY <2>1, <2>3, <2>4, ScanNumbers DEF c
<1>9. CASE ~(MaxProductive <= Cardinality(K))
  <2>1. ASSUME NEW k \in K PROVE k \in T
    <3>1. Cardinality(Below(K, O, k)) \in 0..(Cardinality(K) - 1)
      <4> HIDE DEF K
      <4> QED BY <1>3, <1>5, BelowGrows
    <3>2. Cardinality(K) \in Nat
      BY <1>3, FS_CardinalityType
    <3>3. Cardinality(Below(K, O, k)) < MaxProductive
      BY <1>9, <3>1, <3>2, ScanNumbers
    <3> QED BY <3>3
  <2> QED BY <1>7, <2>1 DEF c
<1> QED BY <1>8, <1>9

\* What the state keeps holds what the cycle held.
LEMMA PruneHolds ==
    ASSUME cycle \in Nat, productive \in [Refs -> Nat], ladders \in [Slugs -> Nat],
           NEW r \in InForum, Held(productive, ladders, r)
    PROVE  Held(PrunedRefs, PrunedLadders, r)
<1> DEFINE a == ladders[r.slug]
           m == Fresh(productive)
           c == Recent(m, RefRank, MaxProductive)
<1>1. SUFFICES ASSUME PrunedLadders[r.slug] # 0, Carries(Discussion(r))
               PROVE  c[r] >= PrunedLadders[r.slug]
                      \/ Cardinality(Since(c, PrunedLadders[r.slug])) >= MaxProductive
  BY DEF Held, PrunedRefs
<1>2. r \in Refs /\ r.slug \in Slugs /\ a \in Nat
  BY DEF InForum, Refs
<1>3. PrunedLadders[r.slug] = a /\ a # 0 /\ a + StateTTL >= cycle
  BY <1>1, <1>2 DEF PrunedLadders, Fresh
<1>4. m \in [Refs -> Nat] /\ \A k \in Refs : productive[k] >= a => m[k] = productive[k]
  <2>1. \A k \in Refs : productive[k] \in Nat
    OBVIOUS
  <2>2. \A k \in Refs : m[k] = IF productive[k] + StateTTL >= cycle THEN productive[k] ELSE 0
    BY DEF Fresh
  <2>3. m \in [Refs -> Nat]
    BY <2>1 DEF Fresh
  <2> HIDE DEF m, a
  <2> QED BY <1>2, <1>3, <2>1, <2>2, <2>3, ScanNumbers
<1>5. productive[r] >= a \/ Cardinality(Since(productive, a)) >= MaxProductive
  BY <1>1, <1>3 DEF Held
<1>6. Since(productive, a) \subseteq Since(m, a)
  <2> HIDE DEF m, a
  <2> QED BY <1>4 DEF Since
<1>7. a \in Nat \ {0}
  BY <1>2, <1>3
<1>8. \/ \A k \in Since(m, a) : c[k] = m[k]
      \/ Cardinality(Since(c, a)) >= MaxProductive
  <2> HIDE DEF m, a
  <2> QED BY <1>4, <1>7, CutKeeps
<1>9. ASSUME \A k \in Since(m, a) : c[k] = m[k]
      PROVE  c[r] >= a \/ Cardinality(Since(c, a)) >= MaxProductive
  <2>1. Since(m, a) \subseteq Since(c, a)
    <3> HIDE DEF m, a, c
    <3> QED BY <1>9 DEF Since
  <2>2. productive[r] >= a => c[r] >= a
    <3> HIDE DEF m, a, c
    <3>1. productive[r] >= a => r \in Since(m, a)
      BY <1>2, <1>6 DEF Since
    <3> QED BY <1>9, <3>1, <2>1 DEF Since
  <2>3. Since(productive, a) \subseteq Since(c, a)
    BY <1>6, <2>1
  <2> HIDE DEF m, a, c
  <2> QED BY <1>5, <2>2, <2>3, SinceGrows
<1> QED BY <1>3, <1>8, <1>9

\* The hits of a sweep join the memory as it goes.
LEMMA HeldScan ==
    ASSUME IInv, SweepsHeld, Scanning PROVE SweepsHeld'
<1>1. /\ phase = "scan" /\ phase' = "scan" /\ disk' = disk /\ cycle' = cycle /\ cycle \in Nat
      /\ ScanNext
  BY ScanNumbers DEF Scanning, IInv, TypeOK, WorldOK
<1>2. /\ productive \in [Refs -> Nat] /\ ladders \in [Slugs -> Nat]
      /\ productive' \in [Refs -> Nat] /\ ladders' \in [Slugs -> Nat] /\ node \in Node
  BY Scanned, ScanNumbers DEF IInv, TypeOK, ScanOK
<1>3. \A k \in Refs : productive[k] \in Nat /\ productive[k] <= cycle
  BY <1>2 DEF SweepsHeld
<1>4. missed \subseteq missed'
  BY <1>1 DEF ScanNext, BeginScan, EndScan, Refuse, Admit, ReadListing, ReadTopic, LeaveDeadEnd,
     BeginClimb, Climb, Harvest
<1>5. \A k \in Refs : productive'[k] >= productive[k] /\ productive'[k] <= cycle
  <2>1. CASE Climb
    <3>1. \/ productive' = productive
          \/ \E r : productive' = [productive EXCEPT ![r] = cycle]
      BY <2>1 DEF Climb, Record
    <3> QED BY <1>1, <1>2, <1>3, <3>1
  <2>2. CASE Harvest
    <3>1. \/ productive' = productive
          \/ \E r : productive' = [productive EXCEPT ![r] = cycle]
      BY <2>2 DEF Harvest, Record
    <3> QED BY <1>1, <1>2, <1>3, <3>1
  <2>3. CASE ~Climb /\ ~Harvest
    <3>1. productive' = productive
      BY <1>1, <2>3 DEF ScanNext, BeginScan, EndScan, Refuse, Admit, ReadListing, ReadTopic,
         LeaveDeadEnd, BeginClimb
    <3> QED BY <1>3, <3>1
  <2> QED BY <2>1, <2>2, <2>3
<1>6. (\A k \in Refs : productive[k] <= cycle /\ disk.productive[k] <= cycle)'
  BY <1>1, <1>5 DEF SweepsHeld
<1>7. ASSUME NEW r \in InForum \ missed' PROVE Held(disk.productive, disk.ladders, r)'
  <2>1. Held(disk.productive, disk.ladders, r)
    BY <1>4, <1>7 DEF SweepsHeld
  <2> QED BY <1>1, <2>1 DEF Held, Since, Carries, Discussion
<1>8. /\ (at = "climb" => ladders[node.ref.slug] = cycle)'
      /\ \A r \in InForum \ missed' : ~Climbing(r)' => Held(productive', ladders', r)
  <2>1. CASE ~BeginClimb /\ ~Climb
    <3>1. /\ at' # "climb" /\ ladders' = ladders /\ at # "climb"
      <4>1. at' # "climb" /\ at # "climb"
        BY <1>1, <2>1 DEF ScanNext, BeginScan, EndScan, Refuse, Admit, ReadListing, ReadTopic,
           LeaveDeadEnd, Harvest
      <4>2. ladders' = ladders
        BY <1>1, <2>1 DEF ScanNext, BeginScan, EndScan, Refuse, Admit, ReadListing, ReadTopic,
           LeaveDeadEnd, Harvest, climbing
      <4> QED BY <4>1, <4>2
    <3>2. ASSUME NEW r \in InForum \ missed' PROVE Held(productive', ladders', r)
      <4>1. Held(productive, ladders, r)
        BY <1>4, <3>1, <3>2 DEF SweepsHeld, Climbing
      <4> QED BY <1>2, <1>5, <3>1, <4>1, HeldMore
    <3> QED BY <3>1, <3>2
  <2>2. CASE BeginClimb
    <3> DEFINE s == node.ref.slug
    <3>1. /\ at = "deadend" /\ at' = "climb" /\ rung' = FirstRung /\ node' = node
          /\ ladders' = [ladders EXCEPT ![s] = cycle] /\ productive' = productive
          /\ missed' = missed
      BY <2>2 DEF BeginClimb
    <3>2. s \in Slugs
      BY <1>2, NodeFacts
    <3>3. ladders'[s] = cycle /\ \A z \in Slugs : z # s => ladders'[z] = ladders[z]
      BY <1>2, <3>1, <3>2
    <3>4. ASSUME NEW r \in InForum \ missed', ~Climbing(r)' PROVE Held(productive', ladders', r)
      <4>1. r.slug \in Slugs /\ r.topic \in Topics
        BY DEF InForum, Refs
      <4>2. r.topic >= FirstRung
        <5>1. \A j \in Topics : j \in Int
          BY ScanAssumption
        <5>2. FirstRung \in Topics /\ FirstRung <= r.topic
          BY <4>1, Rungs
        <5> QED BY <4>1, <5>1, <5>2
      <4>3. r.slug # s
        BY <3>1, <3>4, <4>2 DEF Climbing
      <4>4. Held(productive, ladders, r)
        BY <3>1, <3>4 DEF SweepsHeld, Climbing
      <4>5. ladders'[r.slug] = ladders[r.slug]
        BY <3>3, <4>1, <4>3
      <4> QED BY <3>1, <4>4, <4>5 DEF Held
    <3> QED BY <1>1, <3>1, <3>3, <3>4
  <2>3. CASE Climb
    <3> DEFINE s == node.ref.slug
               r == OneOf(s, rung)
    <3>1. /\ at = "climb" /\ node' = node /\ ladders' = ladders /\ rung' = RungAfter(rung)
          /\ at' = IF RungAfter(rung) = 0 THEN "harvest" ELSE "climb"
          /\ \/ /\ missed' = missed
                /\ IF Carries(Discussion(r)) THEN Record(r) ELSE UNCHANGED productive
             \/ missed' = missed \cup {r}
      BY <2>3 DEF Climb, OneOf, climbing
    <3>2. s \in Slugs /\ rung \in Topics /\ ladders[s] = cycle
      BY <1>2, <3>1, NodeFacts DEF IInv, ScanPoints, SweepsHeld
    <3>3. r \in InForum /\ r.slug = s /\ r.topic = rung
      BY <3>2, Forums
    <3> HIDE DEF r
    <3>4. ASSUME NEW q \in InForum \ missed', ~Climbing(q)' PROVE Held(productive', ladders', q)
      <4>1. CASE q = r
        <5>1. Carries(Discussion(r)) => productive' = [productive EXCEPT ![r] = cycle]
          BY <3>1, <3>4, <4>1 DEF Record
        <5>2. Carries(Discussion(r)) => productive'[r] >= ladders'[r.slug]
          BY <1>1, <1>2, <3>1, <3>2, <3>3, <5>1 DEF InForum
        <5> QED BY <4>1, <5>2 DEF Held
      <4>2. CASE q # r
        <5>1. q.slug \in Slugs /\ q.topic \in Topics
          BY DEF InForum, Refs
        <5>2. q.slug = s => q.topic # rung
          <6>1. q = [slug |-> q.slug, topic |-> q.topic]
            BY DEF InForum, Refs
          <6> QED BY <4>2, <6>1 DEF r, OneOf
        <5>3. ~Climbing(q)
          <6>1. SUFFICES ASSUME q.slug = s, q.topic >= rung PROVE FALSE
            BY DEF Climbing
          <6>2. \A j \in Topics : j \in Int
            BY ScanAssumption
          <6>3. q.topic > rung
            BY <3>2, <5>1, <5>2, <6>1, <6>2
          <6>4. Above(rung) # {} /\ RungAfter(rung) # 0 /\ q.topic >= RungAfter(rung)
            BY <3>2, <5>1, <6>3, Rungs DEF Above
          <6> QED BY <3>1, <3>4, <6>1, <6>4 DEF Climbing
        <5>4. Held(productive, ladders, q)
          BY <1>4, <3>4, <5>3 DEF SweepsHeld
        <5> QED BY <1>2, <1>5, <3>1, <5>4, HeldMore
      <4> QED BY <4>1, <4>2
    <3> QED BY <1>1, <3>1, <3>2, <3>4
  <2> QED BY <2>1, <2>2, <2>3
<1>9. (\A r \in InForum \ missed : ~Climbing(r) => Held(productive, ladders, r))'
  <2>1. ASSUME NEW r \in InForum \ missed', Held(productive', ladders', r)
        PROVE  Held(productive, ladders, r)'
    BY <2>1 DEF Held, Since, Carries, Discussion
  <2> QED BY <1>8, <2>1
<1> QED BY <1>1, <1>6, <1>7, <1>8, <1>9 DEF SweepsHeld

LEMMA HeldSaved ==
    ASSUME IInv, SweepsHeld, SaveScan PROVE SweepsHeld'
<1>1. /\ productive' = PrunedRefs /\ ladders' = PrunedLadders /\ at' = "off" /\ at = "done"
      /\ missed' = missed /\ cycle' = cycle /\ cycle \in Nat
  BY ScanNumbers DEF SaveScan, ResetScan, IInv, TypeOK, WorldOK
<1>2. productive \in [Refs -> Nat] /\ ladders \in [Slugs -> Nat]
  BY ScanNumbers DEF IInv, TypeOK, ScanOK
<1>3. \/ disk'.productive = PrunedRefs /\ disk'.ladders = PrunedLadders
      \/ disk' = disk
  BY DEF SaveScan, IInv, TypeOK, Memories
<1>4. ASSUME NEW r \in InForum \ missed PROVE Held(PrunedRefs, PrunedLadders, r)
  <2>1. Held(productive, ladders, r)
    BY <1>1 DEF SweepsHeld, Climbing
  <2> QED BY <1>1, <1>2, <2>1, PruneHolds
<1>5. \A k \in Refs : PrunedRefs[k] <= cycle
  <2>1. ASSUME NEW k \in Refs PROVE PrunedRefs[k] = 0 \/ PrunedRefs[k] = productive[k]
    BY <1>2 DEF PrunedRefs, Recent, Fresh
  <2> QED BY <1>1, <2>1 DEF SweepsHeld
<1>6. ASSUME NEW r \in InForum \ missed'
      PROVE  Held(productive, ladders, r)' /\ Held(disk.productive, disk.ladders, r)'
  <2>1. Held(PrunedRefs, PrunedLadders, r) /\ Held(disk.productive, disk.ladders, r)
    BY <1>1, <1>4, <1>6 DEF SweepsHeld
  <2>2. Held(productive', ladders', r) /\ Held(disk'.productive, disk'.ladders, r)
    BY <1>1, <1>3, <2>1
  <2> QED BY <2>2 DEF Held, Since, Carries, Discussion
<1>7. (\A k \in Refs : productive[k] <= cycle /\ disk.productive[k] <= cycle)'
  BY <1>1, <1>3, <1>5 DEF SweepsHeld
<1>8. at' = "off" /\ at' # "climb"
  BY <1>1
<1> QED BY <1>6, <1>7, <1>8 DEF SweepsHeld

\* The memory or the file becomes what the other is, or neither moves.
LEMMA HeldElsewhere ==
    ASSUME IInv, SweepsHeld, at' = "off" \/ UNCHANGED <<at, node, rung>>,
           phase' # "scan" => at' = "off", cycle' \in Nat, cycle' >= cycle,
           at' # "off" => cycle' = cycle, missed' = missed,
           \/ productive' = productive /\ ladders' = ladders /\ (at' # "off" \/ at = "off")
           \/ productive' = disk.productive /\ ladders' = disk.ladders /\ at' = "off",
           \/ disk'.productive = disk.productive /\ disk'.ladders = disk.ladders
           \/ disk'.productive = productive /\ disk'.ladders = ladders /\ at = "off"
    PROVE  SweepsHeld'
<1>1. /\ productive \in [Refs -> Nat] /\ disk.productive \in [Refs -> Nat] /\ cycle \in Nat
  BY ScanNumbers DEF IInv, TypeOK, ScanOK, Memories, WorldOK
<1>2. (\A k \in Refs : productive[k] <= cycle /\ disk.productive[k] <= cycle)'
  BY <1>1 DEF SweepsHeld
<1>3. ASSUME NEW r \in InForum \ missed' PROVE Held(disk.productive, disk.ladders, r)'
  <2>1. Held(disk'.productive, disk'.ladders, r)
    BY <1>3 DEF SweepsHeld, Climbing
  <2> QED BY <2>1 DEF Held, Since, Carries, Discussion
<1>4. ASSUME NEW r \in InForum \ missed', ~Climbing(r)' PROVE Held(productive, ladders, r)'
  <2>1. Held(productive', ladders', r)
    BY <1>4 DEF SweepsHeld, Climbing
  <2> QED BY <2>1 DEF Held, Since, Carries, Discussion
<1>5. (at = "climb" => ladders[node.ref.slug] = cycle)'
  BY DEF SweepsHeld
<1> QED BY <1>2, <1>3, <1>4, <1>5 DEF SweepsHeld

LEMMA HeldStep == ASSUME IInv, SweepsHeld, [Next]_vars PROVE SweepsHeld'
<1>0. cycle \in Nat
  BY ScanNumbers DEF IInv, TypeOK, WorldOK
<1>1. CASE Scanning
  BY <1>1, HeldScan
<1>2. CASE SaveScan
  BY <1>2, HeldSaved
<1>3. CASE StartCycle \/ Searching \/ Rest \/ UNCHANGED vars
  <2>1. /\ UNCHANGED <<at, node, rung, missed, productive, ladders, disk>>
        /\ cycle' = cycle \/ (phase = "idle" /\ cycle' = cycle + 1)
        /\ phase' = phase \/ (phase = "idle" /\ phase' = "scan")
    BY <1>3 DEF StartCycle, Searching, Rest, vars, scanVars, climbing
  <2>2. phase = "idle" => at = "off"
    BY DEF SweepsHeld
  <2>3. phase' # "scan" => at' = "off"
    BY <2>1 DEF SweepsHeld
  <2> QED BY <1>0, <2>1, <2>2, <2>3, HeldElsewhere
<1>4. CASE SavePass
  <2>1. /\ UNCHANGED <<at, node, rung, missed, productive, ladders, cycle>>
        /\ phase = "github" /\ phase' = "merge"
    BY <1>4 DEF SavePass, scanVars, climbing
  <2>2. at = "off"
    BY <2>1 DEF SweepsHeld
  <2>3. \/ disk'.productive = disk.productive /\ disk'.ladders = disk.ladders
        \/ disk'.productive = productive /\ disk'.ladders = ladders
    BY <1>4 DEF SavePass
  <2> QED BY <1>0, <2>1, <2>2, <2>3, HeldElsewhere
<1>5. CASE Merge \/ Drop
  <2>1. /\ productive' = disk.productive /\ ladders' = disk.ladders /\ disk' = disk
        /\ cycle' = cycle /\ missed' = missed
    BY <1>5 DEF Merge, Drop, Forget
  <2>2. at' = "off"
    <3>1. CASE Merge
      BY <3>1 DEF Merge, SweepsHeld
    <3>2. CASE Drop
      BY <3>2 DEF Drop, ResetScan
    <3> QED BY <1>5, <3>1, <3>2
  <2> QED BY <1>0, <2>1, <2>2, HeldElsewhere
<1> QED BY <1>1, <1>2, <1>3, <1>4, <1>5 DEF Next

LEMMA HeldStart == Init => SweepsHeld
<1> SUFFICES ASSUME Init PROVE SweepsHeld
  OBVIOUS
<1>1. /\ at = "off" /\ cycle = 0 /\ productive = [r \in Refs |-> 0]
      /\ ladders = [s \in Slugs |-> 0]
      /\ disk.productive = productive /\ disk.ladders = ladders
  BY DEF Init, ScanInit, Idle
<1>2. \A r \in InForum : Held(productive, ladders, r) /\ Held(disk.productive, disk.ladders, r)
  <2>1. \A r \in InForum : ladders[r.slug] = 0
    BY <1>1 DEF InForum, Refs
  <2> QED BY <1>1, <2>1 DEF Held
<1> QED BY <1>1, <1>2 DEF SweepsHeld

LEMMA HeldIsKept == ASSUME IInv, SweepsHeld PROVE SweptKept
<1>1. SUFFICES ASSUME Cardinality({r \in Refs : disk.productive[r] # 0}) < MaxProductive,
                      NEW r \in InForum \ missed, disk.ladders[r.slug] # 0,
                      Carries(Discussion(r))
               PROVE  disk.productive[r] # 0
  BY DEF SweptKept
<1> DEFINE a == disk.ladders[r.slug]
           Full == {k \in Refs : disk.productive[k] # 0}
<1>2. disk.productive \in [Refs -> Nat] /\ disk.ladders \in [Slugs -> Nat]
  BY ScanNumbers DEF IInv, TypeOK, Memories
<1>3. a \in Nat \ {0} /\ r \in Refs
  BY <1>1, <1>2 DEF InForum, Refs
<1>4. disk.productive[r] >= a \/ Cardinality(Since(disk.productive, a)) >= MaxProductive
  BY <1>1 DEF SweepsHeld, Held
<1>5. ~(Cardinality(Since(disk.productive, a)) >= MaxProductive)
  <2>1. Since(disk.productive, a) \in SUBSET Full /\ Full \in SUBSET Refs
    <3> HIDE DEF a
    <3> QED BY <1>2, <1>3 DEF Since
  <2> HIDE DEF Full, a
  <2>2. /\ IsFiniteSet(Full) /\ IsFiniteSet(Since(disk.productive, a))
        /\ Cardinality(Since(disk.productive, a)) <= Cardinality(Full)
    BY <2>1, RefsFinite, FS_Subset
  <2>3. Cardinality(Full) < MaxProductive
    BY <1>1 DEF Full
  <2> QED BY <2>2, <2>3, FS_CardinalityType, ScanNumbers
<1> HIDE DEF a
<1> QED BY <1>2, <1>3, <1>4, <1>5

\* As long as the state file says that a group was swept it remembers every topic
\* the sweep could read and that carried a subscription, unless it is full.
THEOREM SweepsAreKept == Spec => []SweptKept
<1>1. IInv /\ SweepsHeld /\ [Next]_vars => SweepsHeld'
  BY HeldStep
<1>2. IInv /\ SweepsHeld => SweptKept
  BY HeldIsKept
<1> QED BY <1>1, <1>2, HeldStart, DiscoveryTyped, PTL DEF Spec

=============================================================================
