-------------------------- MODULE SourcePassProofs --------------------------
(***************************************************************************)
(* What a source pass promises for any sources, bodies, names and filters: *)
(* a delivered source is whole, loses a node for want of an address only   *)
(* when DNS has none, and judges countries by one version of the           *)
(* databases.  IInv follows the verdicts from the shared cache through the *)
(* memory of a request to the nodes it books.                              *)
(***************************************************************************)
EXTENDS SourcePass, FiniteSetTheorems, WellFoundedInduction, TLAPS

LEMMA MinInSet ==
    ASSUME NEW S \in SUBSET Nat, S # {}
    PROVE  Min(S) \in S /\ \A y \in S : Min(S) <= y
<1>1. \A y, z \in Nat : y < z => <<y, z>> \in OpToRel(<, Nat)
  BY DEF OpToRel
<1>2. \E x \in S : \A y \in S : <<y, x>> \notin OpToRel(<, Nat)
  BY NatLessThanWellFounded, WFMin
<1>3. PICK x \in S : \A y \in S : <<y, x>> \notin OpToRel(<, Nat)
  BY <1>2
<1>4. \A y \in S : ~(y < x)
  BY <1>1, <1>3, Zenon
<1>5. \A y \in S : x <= y
  BY <1>4
<1> QED BY <1>5 DEF Min

-----------------------------------------------------------------------------
(* Recursive functions over an initial segment of the naturals.            *)

\* Induction, in the form of a set that is closed under successors.
LEMMA Upward ==
    ASSUME NEW n \in Nat, NEW T, 0 \in T, \A k \in 0..n : k \in T /\ k < n => k + 1 \in T
    PROVE  \A k \in 0..n : k \in T
<1> DEFINE S == (0..n) \ T
<1>1. SUFFICES ASSUME S # {} PROVE FALSE
  OBVIOUS
<1>2. S \in SUBSET Nat
  OBVIOUS
<1>3. Min(S) \in S /\ \A y \in S : Min(S) <= y
  <2> HIDE DEF S
  <2> QED BY <1>1, <1>2, MinInSet
<1>4. PICK m \in S : \A y \in S : m <= y
  BY <1>3
<1>5. m # 0 /\ m \in 0..n
  OBVIOUS
<1>6. m - 1 \in 0..n /\ m - 1 \notin S /\ m - 1 < n
  BY <1>4, <1>5
<1> QED BY <1>5, <1>6

\* f follows the step function G from b.
Follows(f, n, b, G) == f[0] = b /\ \A k \in 1..n : f[k] = G[k][f[k - 1]]

\* A step function that stays within S defines a recursive function into S.
LEMMA Recursion ==
    ASSUME NEW n \in Nat, NEW S, NEW b \in S, NEW G \in [1..n -> [S -> S]]
    PROVE  \E f \in [0..n -> S] : Follows(f, n, b, G)
<1> DEFINE T == {m \in 0..n : \E f \in [0..m -> S] : Follows(f, m, b, G)}
<1>1. 0 \in T
  <2> DEFINE f == [k \in 0..0 |-> b]
  <2>1. f \in [0..0 -> S] /\ Follows(f, 0, b, G)
    BY DEF Follows
  <2> HIDE DEF f
  <2> QED BY <2>1
<1>2. ASSUME NEW m \in 0..n, m \in T, m < n PROVE m + 1 \in T
  <2>1. PICK f \in [0..m -> S] : Follows(f, m, b, G)
    BY <1>2
  <2> DEFINE g == [k \in 0..(m + 1) |-> IF k <= m THEN f[k] ELSE G[m + 1][f[m]]]
  <2>2. g \in [0..(m + 1) -> S]
    BY <1>2
  <2>3. ASSUME NEW k \in 1..(m + 1) PROVE g[k] = G[k][g[k - 1]]
    BY <1>2, <2>1, <2>3 DEF Follows
  <2>4. g[0] = b
    BY <2>1 DEF Follows
  <2> HIDE DEF g
  <2>5. Follows(g, m + 1, b, G)
    BY <2>3, <2>4 DEF Follows
  <2>6. m + 1 \in 0..n
    BY <1>2
  <2> QED BY <2>2, <2>5, <2>6
<1>3. n \in T
  <2> HIDE DEF T
  <2>1. \A k \in 0..n : k \in T /\ k < n => k + 1 \in T
    BY <1>2
  <2>2. \A k \in 0..n : k \in T
    BY <1>1, <2>1, Upward
  <2> QED BY <2>2
<1> QED BY <1>3

-----------------------------------------------------------------------------
(* The filters.                                                            *)

\* What is left of some addresses after the first i filters.
Left(ips, denied, allowed, deaf, i) ==
    {k \in DOMAIN ips : \A j \in 1..i : Passes(j, ips[k], denied, allowed, deaf)}

\* The filter that leaves none.
By(ips, denied, allowed, deaf) ==
    Min({i \in 1..Len(Filters) : Left(ips, denied, allowed, deaf, i) = {}})

LEMMA VerdictUnfolded ==
    ASSUME NEW ips, NEW denied, NEW allowed, NEW deaf
    PROVE  Verdict(ips, denied, allowed, deaf) =
             IF Left(ips, denied, allowed, deaf, Len(Filters)) # {}
             THEN [why |-> "kept", ip |-> ips[Min(Left(ips, denied, allowed, deaf, Len(Filters)))]]
             ELSE [why |-> Reason(By(ips, denied, allowed, deaf),
                                  {ips[k] : k \in Left(ips, denied, allowed, deaf,
                                                       By(ips, denied, allowed, deaf) - 1)},
                                  deaf),
                   ip |-> NoAddr]
BY DEF Verdict, Left, By

\* A node that has addresses and loses them all loses them to some filter.
LEMMA ByIsFilter ==
    ASSUME NEW ips \in Seq(Addrs), ips # <<>>, NEW denied, NEW allowed, NEW deaf,
           Left(ips, denied, allowed, deaf, Len(Filters)) = {}
    PROVE  LET by == By(ips, denied, allowed, deaf)
           IN  /\ by \in 1..Len(Filters) /\ Left(ips, denied, allowed, deaf, by) = {}
               /\ Left(ips, denied, allowed, deaf, by - 1) # {}
<1> DEFINE S == {i \in 1..Len(Filters) : Left(ips, denied, allowed, deaf, i) = {}}
<1>1. Len(Filters) \in Nat
  BY PassAssumption
<1>2. Left(ips, denied, allowed, deaf, 0) # {}
  <2>1. 1 \in DOMAIN ips
    OBVIOUS
  <2>2. \A k \in DOMAIN ips : k \in Left(ips, denied, allowed, deaf, 0)
    BY DEF Left
  <2> QED BY <2>1, <2>2
<1>3. Len(Filters) \in S
  BY <1>1, <1>2
<1>4. S \in SUBSET Nat
  BY <1>1
<1>5. Min(S) \in S /\ \A y \in S : Min(S) <= y
  <2> HIDE DEF S
  <2> QED BY <1>3, <1>4, MinInSet
<1>6. Left(ips, denied, allowed, deaf, Min(S) - 1) # {}
  <2> DEFINE m == Min(S)
  <2>1. m \in 1..Len(Filters) /\ \A y \in S : m <= y
    BY <1>5
  <2> HIDE DEF m
  <2>2. m - 1 \notin S
    BY <1>1, <2>1
  <2>3. m - 1 = 0 \/ m - 1 \in 1..Len(Filters)
    BY <1>1, <2>1
  <2>4. m - 1 # 0 => Left(ips, denied, allowed, deaf, m - 1) # {}
    BY <2>2, <2>3
  <2>5. Left(ips, denied, allowed, deaf, m - 1) # {}
    BY <1>2, <2>4
  <2> QED BY <2>5 DEF m
<1> QED BY <1>5, <1>6 DEF By

LEMMA VerdictType ==
    ASSUME NEW ips \in Seq(Addrs), ips # <<>>, NEW denied, NEW allowed, NEW deaf
    PROVE  LET v == Verdict(ips, denied, allowed, deaf)
           IN  v.why \in {"kept", "geo", "asn", "cidr"} /\ v.ip \in Addrs \cup {NoAddr}
<1> DEFINE L == Left(ips, denied, allowed, deaf, Len(Filters))
           by == By(ips, denied, allowed, deaf)
<1>1. CASE L # {}
  <2>1. L \in SUBSET Nat /\ L \subseteq DOMAIN ips
    BY DEF Left
  <2> HIDE DEF L
  <2>2. Min(L) \in DOMAIN ips
    BY <1>1, <2>1, MinInSet
  <2>3. Verdict(ips, denied, allowed, deaf) = [why |-> "kept", ip |-> ips[Min(L)]]
    BY <1>1, VerdictUnfolded DEF L
  <2>4. ips[Min(L)] \in Addrs
    BY <2>2
  <2> QED BY <2>3, <2>4
<1>2. CASE L = {}
  <2>1. by \in 1..Len(Filters)
    BY <1>2, ByIsFilter
  <2>2. Filters[by] \in {"country", "asnCountry", "asn", "cidr"}
    BY <2>1, PassAssumption
  <2> HIDE DEF by
  <2>3. \A last : Reason(by, last, deaf) \in {"geo", "asn", "cidr"}
    BY <2>2 DEF Reason
  <2> QED BY <1>2, <2>3, VerdictUnfolded DEF by
<1> QED BY <1>1, <1>2

\* A node with one address is dropped for its country, and not by its AS, only
\* when the country filter denies it, and kept only when it does not.
HasCountry == \E i \in 1..Len(Filters) : Filters[i] = "country"

LEMMA OneAddress ==
    ASSUME NEW a \in Addrs \ AsnForeign, NEW denied, NEW allowed,
           NEW deaf \in [AsnFilters -> SUBSET (AsnDenied \cup AsnForeign)]
    PROVE  LET v == Verdict(<<a>>, denied, allowed, deaf)
           IN  /\ v.why = "geo" => HasCountry /\ a \in denied
               /\ v.why = "kept" /\ HasCountry => a \notin denied
<1> DEFINE ips == <<a>>
           L == Left(ips, denied, allowed, deaf, Len(Filters))
           by == By(ips, denied, allowed, deaf)
           v == Verdict(ips, denied, allowed, deaf)
           last == {ips[k] : k \in Left(ips, denied, allowed, deaf, by - 1)}
<1>0. ips \in Seq(Addrs) /\ ips # <<>> /\ DOMAIN ips = {1} /\ ips[1] = a
  OBVIOUS
<1> HIDE DEF ips
<1>1. CASE L # {}
  <2>1. 1 \in L
    BY <1>0, <1>1 DEF Left
  <2>2. \A i \in 1..Len(Filters) : Passes(i, a, denied, allowed, deaf)
    BY <1>0, <2>1 DEF Left
  <2>3. HasCountry => a \notin denied
    BY <2>2 DEF HasCountry, Passes
  <2>4. v.why = "kept"
    BY <1>1, VerdictUnfolded
  <2> QED BY <2>3, <2>4 DEF ips
<1>2. CASE L = {}
  <2>1. by \in 1..Len(Filters) /\ Left(ips, denied, allowed, deaf, by) = {}
        /\ Left(ips, denied, allowed, deaf, by - 1) # {}
    BY <1>0, <1>2, ByIsFilter DEF by
  <2>2. v.why = Reason(by, last, deaf)
    BY <1>2, VerdictUnfolded
  <2> HIDE DEF by
  <2>3. Len(Filters) \in Nat /\ Filters[by] \in {"country", "asnCountry", "asn", "cidr"}
    BY <2>1, PassAssumption
  <2>4. v.why # "kept"
    BY <2>2, <2>3 DEF Reason
  <2>5. ASSUME v.why = "geo" PROVE HasCountry /\ a \in denied
    <3>1. 1 \in Left(ips, denied, allowed, deaf, by - 1) /\ last = {a}
      BY <1>0, <2>1 DEF Left
    <3>2. ~Passes(by, a, denied, allowed, deaf)
      BY <1>0, <2>1, <2>3, <3>1 DEF Left
    <3>3. Reason(by, {a}, deaf) = "geo"
      BY <2>2, <2>5, <3>1
    <3>4. Filters[by] = "country" => a \in denied
      BY <3>2 DEF Passes
    <3>5. Filters[by] # "asnCountry"
      BY <3>2 DEF Passes
    <3>6. Filters[by] # "asn"
      BY <3>2, <3>3 DEF Passes, Reason
    <3>7. Filters[by] # "cidr"
      BY <3>3 DEF Reason
    <3> QED BY <2>1, <2>3, <3>4, <3>5, <3>6, <3>7 DEF HasCountry
  <2> QED BY <2>4, <2>5 DEF ips
<1> QED BY <1>1, <1>2
-----------------------------------------------------------------------------
(* The invariant.                                                          *)

\* What the country filter said of a node that needs no DNS, whose AS is not
\* of a denied country.
Judges(v, s) ==
    LET h == ServerOf[v.node]
    IN  h \notin Names /\ Literal[h] \notin AsnForeign =>
            /\ v.why = "geo" => HasCountry /\ Literal[h] \in Denied(s)
            /\ v.why = "kept" /\ HasCountry => Literal[h] \notin Denied(s)

\* Program points against the nodes judged.
Places(s) ==
    /\ s > spawned => pc[s] = "waiting"
    /\ pc[s] \in {"waiting", "load"} => judged[s] = <<>>
    /\ pc[s] = "lookup" => More(s) /\ Host(s) \in Names

\* The nodes judged are the first ones of the body.
InOrder(s) ==
    /\ Len(judged[s]) <= Len(body[s])
    /\ \A k \in DOMAIN judged[s] : judged[s][k].node = body[s][k]
    /\ pc[s] = "delivered" => Len(judged[s]) = Len(body[s])

\* No address means that DNS has none, unless the request has ended.
Honest(s) ==
    /\ ~Ended(s) => \A h \in Names : memo[s][h] = <<>> => h \in Failing
    /\ ~Ended(s) \/ pc[s] = "delivered" =>
           \A k \in DOMAIN judged[s] :
               judged[s][k].why = "dns" => ServerOf[judged[s][k].node] \in Failing

Consistent(s) == \A k \in DOMAIN judged[s] : Judges(judged[s][k], s)

Sound(s) == Places(s) /\ InOrder(s) /\ Honest(s) /\ Consistent(s)

Shared == \A h \in Names : cache[h] = <<>> => h \in Failing

IInv == TypeOK /\ Shared /\ \A s \in Sources : Sound(s)

LEMMA KnownAddrs ==
    ASSUME NEW k \in Known, k # Miss PROVE k \in Seq(Addrs)
<1>1. CASE k = <<>>
  BY <1>1
<1>2. CASE k # <<>>
  <2>1. PICK h \in Names : k \in Answers[h]
    BY <1>2 DEF Known
  <2> QED BY <2>1, PassAssumption
<1> QED BY <1>1, <1>2

\* The node at hand.
LEMMA CurrentNode ==
    ASSUME TypeOK, NEW s \in Sources, More(s)
    PROVE  Current(s) \in Nodes /\ Host(s) \in Servers
<1>1. /\ judged[s] \in Seq(Verdicts) /\ body[s] \in Seq(Nodes)
      /\ Len(judged[s]) \in Nat /\ Len(body[s]) \in Nat
  BY DEF TypeOK
<1>2. Len(judged[s]) + 1 \in 1..Len(body[s])
  BY <1>1 DEF More
<1> QED BY <1>1, <1>2, PassAssumption DEF Current, Host

\* What a request books, and knows of the name when it books it for DNS.
Books(s, v) ==
    /\ v \in Verdicts /\ v.node = Current(s) /\ Judges(v, s)
    /\ v.why = "dns" => Host(s) \in Names /\ memo'[s][Host(s)] = <<>>
    /\ judged' = [judged EXCEPT ![s] = Append(@, v)]

\* Nodes dropped before the filters.
LEMMA BookDropped ==
    ASSUME TypeOK, NEW s \in Sources, More(s),
           NEW why \in {"blocked", "ipv6", "dns"}, Book(s, Dropped(why)),
           why = "dns" => Host(s) \in Names /\ memo'[s][Host(s)] = <<>>
    PROVE  \E v \in Verdicts : Books(s, v)
<1> DEFINE v == [node |-> Current(s), why |-> why, ip |-> NoAddr]
<1>1. v \in Verdicts
  BY CurrentNode DEF Verdicts, Whys
<1>2. judged' = [judged EXCEPT ![s] = Append(@, v)]
  BY DEF Book, Dropped
<1>3. Judges(v, s)
  BY DEF Judges
<1> QED BY <1>1, <1>2, <1>3 DEF Books

\* Nodes booked by what is known of their addresses.
LEMMA BookKnown ==
    ASSUME TypeOK, NEW s \in Sources, More(s), NEW ips \in Seq(Addrs), BookAt(s, ips),
           ips = <<>> => Host(s) \in Names /\ memo'[s][Host(s)] = <<>>,
           Host(s) \notin Names => ips = <<Literal[Host(s)]>> /\ Literal[Host(s)] \in Addrs
    PROVE  \E v \in Verdicts : Books(s, v)
<1>1. CASE ips = <<>>
  BY <1>1, BookDropped DEF BookAt
<1>2. CASE ips # <<>>
  <2>1. PICK deaf \in [AsnFilters -> SUBSET (AsnDenied \cup AsnForeign)] :
            Book(s, Verdict(ips, Denied(s), AllowedBy[allowlist], deaf))
    BY <1>2 DEF BookAt
  <2> DEFINE w == Verdict(ips, Denied(s), AllowedBy[allowlist], deaf)
             v == [node |-> Current(s), why |-> w.why, ip |-> w.ip]
  <2>2. w.why \in {"kept", "geo", "asn", "cidr"} /\ w.ip \in Addrs \cup {NoAddr}
    BY <1>2, VerdictType
  <2>3. Host(s) \notin Names /\ Literal[Host(s)] \notin AsnForeign =>
            /\ w.why = "geo" => HasCountry /\ Literal[Host(s)] \in Denied(s)
            /\ w.why = "kept" /\ HasCountry => Literal[Host(s)] \notin Denied(s)
    BY OneAddress
  <2>4. judged' = [judged EXCEPT ![s] = Append(@, v)]
    BY <2>1 DEF Book
  <2> HIDE DEF w
  <2>5. v \in Verdicts
    BY <2>2, CurrentNode DEF Verdicts, Whys
  <2>6. Judges(v, s)
    BY <2>3 DEF Judges, Host
  <2>7. v.why # "dns"
    BY <2>2
  <2> HIDE DEF v
  <2>8. v.node = Current(s)
    BY DEF v
  <2> QED BY <2>4, <2>5, <2>6, <2>7, <2>8 DEF Books
<1> QED BY <1>1, <1>2

-----------------------------------------------------------------------------
(* The steps of a request.                                                 *)

others == <<phase, cancelled, spawned, expired, chain, body, databases, allowlist, entries>>

\* A request moves to the next node, or to a lookup.
Moves(s) ==
    \/ /\ pc' = [pc EXCEPT ![s] = "lookup"] /\ More(s) /\ Host(s) \in Names
       /\ UNCHANGED <<judged, memo>>
    \/ /\ More(s) /\ \E v \in Verdicts : Books(s, v)
       /\ pc' = pc
       /\ \/ memo' = memo
          \/ \E h \in Names : /\ cache[h] # Miss
                              /\ memo' = [memo EXCEPT ![s][h] = cache[h]]

LEMMA JudgeMoves ==
    ASSUME TypeOK, NEW s \in Sources, Judge(s)
    PROVE  pc[s] = "parse" /\ ~Ended(s) /\ Moves(s) /\ UNCHANGED <<others, cache>>
<1>1. pc[s] = "parse" /\ ~Ended(s) /\ More(s) /\ UNCHANGED <<others, cache>>
  BY DEF Judge, others, tableVars
<1>2. Host(s) \in Servers
  BY <1>1, CurrentNode
<1>3. CASE Host(s) \in Blocklist /\ Book(s, Dropped("blocked")) /\ UNCHANGED <<pc, memo>>
  BY <1>1, <1>3, BookDropped DEF Moves
<1>4. CASE /\ Host(s) \in Servers \ (Blocklist \cup Names)
           /\ IF Literal[Host(s)] = NoAddr THEN Book(s, Dropped("ipv6"))
              ELSE BookAt(s, <<Literal[Host(s)]>>)
           /\ UNCHANGED <<pc, memo>>
  <2>1. CASE Literal[Host(s)] = NoAddr
    BY <1>1, <1>4, <2>1, BookDropped DEF Moves
  <2>2. CASE Literal[Host(s)] # NoAddr
    <3>1. Literal[Host(s)] \in Addrs
      BY <1>4, <2>2, PassAssumption
    <3> DEFINE ips == <<Literal[Host(s)]>>
    <3>2. ips \in Seq(Addrs) /\ ips # <<>> /\ BookAt(s, ips)
      BY <1>4, <2>2, <3>1
    <3>3. \E v \in Verdicts : Books(s, v)
      BY <1>1, <3>1, <3>2, BookKnown
    <3> QED BY <1>1, <1>4, <3>3 DEF Moves
  <2> QED BY <2>1, <2>2
<1>5. CASE /\ Host(s) \in Names \ Blocklist /\ memo[s][Host(s)] # Miss
           /\ BookAt(s, memo[s][Host(s)]) /\ UNCHANGED <<pc, memo>>
  <2>1. memo[s][Host(s)] \in Known
    BY <1>5 DEF TypeOK
  <2>2. memo[s][Host(s)] \in Seq(Addrs)
    BY <1>5, <2>1, KnownAddrs
  <2>3. \E v \in Verdicts : Books(s, v)
    BY <1>1, <1>5, <2>2, BookKnown
  <2> QED BY <1>1, <1>5, <2>3 DEF Moves
<1>6. CASE /\ Host(s) \in Names \ Blocklist
           /\ memo[s][Host(s)] = Miss /\ cache[Host(s)] # Miss
           /\ memo' = [memo EXCEPT ![s][Host(s)] = cache[Host(s)]]
           /\ BookAt(s, cache[Host(s)]) /\ UNCHANGED pc
  <2>1. cache[Host(s)] \in Known /\ memo'[s][Host(s)] = cache[Host(s)]
    BY <1>6 DEF TypeOK
  <2>2. cache[Host(s)] \in Seq(Addrs)
    BY <1>6, <2>1, KnownAddrs
  <2>3. \E v \in Verdicts : Books(s, v)
    BY <1>1, <1>6, <2>1, <2>2, BookKnown
  <2> QED BY <1>1, <1>6, <2>3 DEF Moves
<1>7. CASE /\ Host(s) \in Names \ Blocklist
           /\ memo[s][Host(s)] = Miss /\ cache[Host(s)] = Miss
           /\ pc' = [pc EXCEPT ![s] = "lookup"] /\ UNCHANGED <<judged, memo>>
  BY <1>1, <1>7 DEF Moves
<1> QED BY <1>1, <1>3, <1>4, <1>5, <1>6, <1>7 DEF Judge

\* A lookup ends with addresses of the name, or with none.
Looked(s, ips) ==
    /\ pc[s] = "lookup" /\ ips \in Known \ {Miss}
    /\ \/ ips # <<>> \/ Ended(s) \/ Host(s) \in Failing
    /\ cache' = cache \/ (cache' = [cache EXCEPT ![Host(s)] = ips] /\ (ips = <<>> => Host(s) \in Failing))
    /\ memo' = [memo EXCEPT ![s][Host(s)] = ips]
    /\ \E v \in Verdicts : Books(s, v)
    /\ pc' = [pc EXCEPT ![s] = "parse"]
    /\ UNCHANGED others

LEMMA LookupMoves ==
    ASSUME TypeOK, NEW s \in Sources, Places(s), LookupAnswered(s) \/ LookupFailed(s)
    PROVE  \E ips : Looked(s, ips)
<1>1. pc[s] = "lookup" /\ More(s) /\ Host(s) \in Names
  BY DEF LookupAnswered, LookupFailed, Places
<1>2. ASSUME NEW ips \in Known \ {Miss}, Resolved(s, ips)
      PROVE  /\ \E v \in Verdicts : Books(s, v)
             /\ memo' = [memo EXCEPT ![s][Host(s)] = ips]
             /\ pc' = [pc EXCEPT ![s] = "parse"] /\ UNCHANGED others
  <2>1. /\ memo' = [memo EXCEPT ![s][Host(s)] = ips] /\ BookAt(s, ips)
        /\ pc' = [pc EXCEPT ![s] = "parse"] /\ UNCHANGED others
    BY <1>2 DEF Resolved, others, tableVars
  <2>2. memo'[s][Host(s)] = ips
    BY <1>1, <2>1 DEF TypeOK
  <2>3. ips \in Seq(Addrs)
    BY <1>2, KnownAddrs
  <2> QED BY <1>1, <2>1, <2>2, <2>3, BookKnown
<1>3. <<>> \in Known \ {Miss}
  BY PassAssumption DEF Known
<1>4. CASE LookupAnswered(s)
  <2>1. PICK ips \in Answers[Host(s)] \cup (IF Host(s) \in Failing THEN {<<>>} ELSE {}) :
            Store(Host(s), ips) /\ Resolved(s, ips)
    BY <1>4 DEF LookupAnswered
  <2>2. ips \in Known \ {Miss} /\ (ips = <<>> => Host(s) \in Failing)
    BY <1>1, <1>3, <2>1, PassAssumption DEF Known
  <2> QED BY <1>1, <1>2, <2>1, <2>2 DEF Looked, Store
<1>5. CASE LookupFailed(s)
  <2>1. /\ Ended(s) \/ Host(s) \in Failing
        /\ cache' = cache \/ (~Ended(s) /\ Store(Host(s), <<>>))
        /\ Resolved(s, <<>>)
    BY <1>5 DEF LookupFailed
  <2> QED BY <1>1, <1>2, <1>3, <2>1 DEF Looked, Store
<1> QED BY <1>4, <1>5

\* What the steps of a request come to, other than Moves and Looked.
Simple(s) ==
    /\ UNCHANGED <<phase, cancelled, spawned, expired, chain, judged, memo, cache,
                   databases, allowlist, entries>>
    /\ \/ /\ pc[s] = "load" /\ pc' = [pc EXCEPT ![s] = "failed"] /\ UNCHANGED body
       \/ /\ pc[s] = "load" /\ pc' = [pc EXCEPT ![s] = "parse"]
          /\ \E b \in Seq(Nodes) : body' = [body EXCEPT ![s] = b]
       \/ /\ pc[s] = "parse" /\ pc' = [pc EXCEPT ![s] = "failed"] /\ UNCHANGED body
       \/ /\ pc[s] = "parse" /\ ~Ended(s) /\ ~More(s)
          /\ pc' = [pc EXCEPT ![s] = "delivered"] /\ UNCHANGED body

LEMMA RequestSteps ==
    ASSUME TypeOK, NEW s \in Sources, Places(s), Request(s)
    PROVE  \/ pc[s] = "parse" /\ ~Ended(s) /\ Moves(s) /\ UNCHANGED <<others, cache>>
           \/ \E ips : Looked(s, ips)
           \/ Simple(s)
<1>1. CASE Load(s)
  <2>1. PICK b \in BodiesOf[s] :
            IF Len(b) > MaxNodes
            THEN pc' = [pc EXCEPT ![s] = "failed"] /\ UNCHANGED body
            ELSE /\ pc' = [pc EXCEPT ![s] = "parse"]
                 /\ body' = [body EXCEPT ![s] = b]
    BY <1>1 DEF Load
  <2>2. b \in Seq(Nodes)
    BY PassAssumption
  <2> QED BY <1>1, <2>1, <2>2 DEF Load, Simple, tableVars
<1>2. CASE LoadFails(s) \/ Deliver(s) \/ Refuse(s)
  BY <1>2 DEF LoadFails, Deliver, Refuse, Simple, tableVars
<1>3. CASE Judge(s)
  BY <1>3, JudgeMoves
<1>4. CASE LookupAnswered(s) \/ LookupFailed(s)
  BY <1>4, LookupMoves
<1> QED BY <1>1, <1>2, <1>3, <1>4 DEF Request

-----------------------------------------------------------------------------
(* Types.                                                                  *)

LEMMA BooksType ==
    ASSUME TypeOK, NEW s \in Sources, \E v \in Verdicts : Books(s, v)
    PROVE  judged' \in [Sources -> Seq(Verdicts)]
<1>1. PICK v \in Verdicts : judged' = [judged EXCEPT ![s] = Append(@, v)]
  BY DEF Books
<1>2. Append(judged[s], v) \in Seq(Verdicts)
  BY DEF TypeOK
<1> QED BY <1>1, <1>2 DEF TypeOK

LEMMA TypesStep == IInv /\ [Next]_vars => TypeOK'
<1> SUFFICES ASSUME IInv, [Next]_vars PROVE TypeOK'
  OBVIOUS
<1>0. TypeOK /\ (\A s \in Sources : Places(s)) /\ N \in Nat
  BY PassAssumption DEF IInv, Sound
<1>1. ASSUME NEW s \in Sources, Request(s) PROVE TypeOK'
  <2>1. CASE Moves(s) /\ UNCHANGED <<others, cache>>
    <3>1. CASE \E v \in Verdicts : Books(s, v)
      <4>1. memo' \in [Sources -> [Names -> Known]]
        <5>1. CASE memo' = memo
          BY <1>0, <5>1 DEF TypeOK
        <5>2. CASE \E h \in Names : memo' = [memo EXCEPT ![s][h] = cache[h]]
          BY <1>0, <5>2 DEF TypeOK
        <5> QED BY <2>1, <5>1, <5>2 DEF Moves
      <4>2. pc' \in [Sources -> {"waiting", "load", "parse", "lookup", "delivered", "failed"}]
        BY <1>0, <2>1 DEF TypeOK, Moves
      <4> QED BY <1>0, <2>1, <3>1, <4>1, <4>2, BooksType DEF TypeOK, others
    <3>2. CASE ~\E v \in Verdicts : Books(s, v)
      BY <1>0, <2>1, <3>2 DEF TypeOK, Moves, others
    <3> QED BY <3>1, <3>2
  <2>2. CASE \E ips : Looked(s, ips)
    <3>1. PICK ips : Looked(s, ips)
      BY <2>2
    <3>2. Host(s) \in Names
      BY <1>0, <3>1 DEF Looked, Places
    <3>3. /\ memo' \in [Sources -> [Names -> Known]] /\ cache' \in [Names -> Known]
          /\ pc' \in [Sources -> {"waiting", "load", "parse", "lookup", "delivered", "failed"}]
      BY <1>0, <3>1, <3>2 DEF TypeOK, Looked
    <3>4. judged' \in [Sources -> Seq(Verdicts)]
      BY <1>0, <3>1, BooksType DEF Looked
    <3> QED BY <1>0, <3>1, <3>3, <3>4 DEF TypeOK, Looked, others
  <2>3. CASE Simple(s)
    BY <1>0, <2>3 DEF TypeOK, Simple
  <2> QED BY <1>0, <1>1, <2>1, <2>2, <2>3, RequestSteps
<1>2. CASE Spawn
  BY <1>0, <1>2 DEF TypeOK, Spawn, tableVars, Sources
<1>3. CASE Merge \/ Stopped \/ Cancel \/ UNCHANGED vars
  BY <1>0, <1>3 DEF TypeOK, Merge, Stopped, Cancel, vars, requestVars, tableVars
<1>4. CASE NextCycle
  <2>1. 1 \in 1..Len(DeniedBy) /\ NoMemo \in [Names -> Known]
    BY PassAssumption DEF NoMemo, Known
  <2> QED BY <1>0, <1>4, <2>1 DEF TypeOK, NextCycle, tableVars, Each
<1>5. CASE Refresh
  BY <1>0, <1>5, PassAssumption DEF TypeOK, Refresh, requestVars
<1>6. ASSUME NEW s \in Sources, Expire(s) PROVE TypeOK'
  BY <1>0, <1>6 DEF TypeOK, Expire, tableVars
<1>7. ASSUME NEW h \in Names, EntryGoes(h) PROVE TypeOK'
  <2>1. Miss \in Known
    BY DEF Known
  <2> QED BY <1>0, <1>7, <2>1 DEF TypeOK, EntryGoes, requestVars, tableVars
<1> QED BY <1>1, <1>2, <1>3, <1>4, <1>5, <1>6, <1>7 DEF Next
-----------------------------------------------------------------------------
(* Soundness.                                                              *)

\* A step that leaves a request alone, or only ends its context.
Kept(s) ==
    /\ pc'[s] = pc[s] /\ chain'[s] = chain[s] /\ body'[s] = body[s]
    /\ judged'[s] = judged[s] /\ memo'[s] = memo[s]
    /\ Ended(s) => Ended(s)'
    /\ s > spawned' => s > spawned

LEMMA KeptSound ==
    ASSUME NEW s, Sound(s), Kept(s)
    PROVE  Sound(s)'
<1>1. Places(s)'
  BY DEF Sound, Kept, Places, More, Host, Current
<1>2. InOrder(s)'
  BY DEF Sound, Kept, InOrder
<1>3. Honest(s)'
  BY DEF Sound, Kept, Honest
<1>4. Consistent(s)'
  BY DEF Sound, Kept, Consistent, Judges, Denied
<1> QED BY <1>1, <1>2, <1>3, <1>4 DEF Sound

\* A request that books a node stays in order and consistent.
LEMMA BookedSound ==
    ASSUME TypeOK, NEW s \in Sources, Sound(s), More(s), \E v \in Verdicts : Books(s, v),
           UNCHANGED others, pc'[s] = "parse", pc[s] \in {"parse", "lookup"},
           ~Ended(s) => \A h \in Names : memo'[s][h] = <<>> => h \in Failing
    PROVE  Sound(s)'
<1>1. PICK v \in Verdicts : Books(s, v)
  OBVIOUS
<1> DEFINE n == Len(judged[s])
<1>2. /\ judged[s] \in Seq(Verdicts) /\ body[s] \in Seq(Nodes) /\ n \in Nat
      /\ Len(body[s]) \in Nat /\ n < Len(body[s])
  BY DEF TypeOK, More
<1>3. /\ judged'[s] = Append(judged[s], v)
      /\ body'[s] = body[s] /\ chain'[s] = chain[s] /\ (Ended(s)' <=> Ended(s))
      /\ spawned' = spawned
  BY <1>1 DEF Books, TypeOK, others, Ended
<1>4. /\ Len(judged'[s]) = n + 1 /\ DOMAIN judged'[s] = 1..(n + 1) /\ judged'[s][n + 1] = v
      /\ DOMAIN judged[s] = 1..n /\ \A k \in 1..n : judged'[s][k] = judged[s][k]
  BY <1>2, <1>3
<1>5. v.node = body[s][n + 1] /\ Judges(v, s)
      /\ (v.why = "dns" => ServerOf[v.node] \in Names /\ memo'[s][ServerOf[v.node]] = <<>>)
  BY <1>1 DEF Books, Current, Host
<1>6. Places(s)'
  BY <1>3 DEF Places, Sound
<1> HIDE DEF n
<1>UpTo. \A k \in 1..(n + 1) : k = n + 1 \/ k \in 1..n
  BY <1>2
<1>7. InOrder(s)'
  <2>1. Len(judged'[s]) <= Len(body'[s])
    BY <1>2, <1>3, <1>4
  <2>2. ASSUME NEW k \in 1..(n + 1) PROVE judged'[s][k].node = body'[s][k]
    <3>1. CASE k = n + 1
      BY <1>3, <1>4, <1>5, <3>1
    <3>2. CASE k \in 1..n
      <4>1. judged'[s][k] = judged[s][k] /\ body'[s] = body[s] /\ k \in DOMAIN judged[s]
        BY <1>3, <1>4, <3>2
      <4> QED BY <4>1 DEF Sound, InOrder
    <3> QED BY <1>UpTo, <3>1, <3>2
  <2> QED BY <1>4, <2>1, <2>2 DEF InOrder
<1>8. Honest(s)'
  <2>1. ~Ended(s)' => \A h \in Names : memo'[s][h] = <<>> => h \in Failing
    BY <1>3
  <2>2. ASSUME ~Ended(s)', NEW k \in 1..(n + 1), judged'[s][k].why = "dns"
        PROVE  ServerOf[judged'[s][k].node] \in Failing
    <3>1. CASE k = n + 1
      BY <1>4, <1>5, <2>1, <2>2, <3>1
    <3>2. CASE k \in 1..n
      <4>1. judged'[s][k] = judged[s][k] /\ k \in DOMAIN judged[s] /\ ~Ended(s)
        BY <1>3, <1>4, <2>2, <3>2
      <4> QED BY <2>2, <4>1 DEF Sound, Honest
    <3> QED BY <1>UpTo, <3>1, <3>2
  <2> QED BY <1>4, <2>1, <2>2 DEF Honest
<1>9. Consistent(s)'
  <2>1. ASSUME NEW w, Judges(w, s) PROVE Judges(w, s)'
    BY <1>3, <2>1 DEF Judges, Denied
  <2>2. ASSUME NEW k \in 1..(n + 1) PROVE Judges(judged[s][k], s)'
    <3>1. CASE k = n + 1
      <4>1. judged'[s][k] = v
        BY <1>4, <3>1
      <4>2. Judges(v, s)'
        BY <1>5, <2>1
      <4> QED BY <4>1, <4>2 DEF Judges
    <3>2. CASE k \in 1..n
      <4>1. judged'[s][k] = judged[s][k] /\ Judges(judged[s][k], s)
        BY <1>4, <3>2 DEF Sound, Consistent
      <4> QED BY <1>3, <4>1 DEF Judges, Denied
    <3> QED BY <1>2, <3>1, <3>2
  <2> QED BY <1>4, <2>2 DEF Consistent
<1> QED BY <1>6, <1>7, <1>8, <1>9 DEF Sound

LEMMA MovesSound ==
    ASSUME TypeOK, Shared, NEW s \in Sources, Sound(s), pc[s] = "parse", ~Ended(s),
           Moves(s), UNCHANGED <<others, cache>>
    PROVE  Sound(s)'
<1>1. CASE /\ pc' = [pc EXCEPT ![s] = "lookup"] /\ More(s) /\ Host(s) \in Names
           /\ UNCHANGED <<judged, memo>>
  <2>1. pc'[s] = "lookup"
    BY <1>1 DEF TypeOK
  <2>2. Places(s)'
    BY <1>1, <2>1 DEF Sound, Places, others, More, Host, Current
  <2>3. InOrder(s)'
    BY <1>1, <2>1 DEF Sound, InOrder, others
  <2>4. Honest(s)'
    BY <1>1, <2>1 DEF Sound, Honest, others, Ended
  <2>5. Consistent(s)'
    BY <1>1 DEF Sound, Consistent, others, Judges, Denied
  <2> QED BY <2>2, <2>3, <2>4, <2>5 DEF Sound
<1>2. CASE /\ More(s) /\ (\E v \in Verdicts : Books(s, v)) /\ pc' = pc
           /\ \/ memo' = memo
              \/ \E h \in Names : /\ cache[h] # Miss
                                  /\ memo' = [memo EXCEPT ![s][h] = cache[h]]
  <2>1. \A h \in Names : memo[s][h] = <<>> => h \in Failing
    BY DEF Sound, Honest
  <2>2. \A h \in Names : memo'[s][h] = <<>> => h \in Failing
    <3>1. CASE memo' = memo
      BY <2>1, <3>1
    <3>2. CASE \E h \in Names : memo' = [memo EXCEPT ![s][h] = cache[h]]
      <4>1. PICK h \in Names : memo' = [memo EXCEPT ![s][h] = cache[h]]
        BY <3>2
      <4>2. \A g \in Names : memo'[s][g] = IF g = h THEN cache[h] ELSE memo[s][g]
        BY <4>1 DEF TypeOK
      <4> QED BY <2>1, <4>2 DEF Shared
    <3> QED BY <1>2, <3>1, <3>2
  <2> QED BY <1>2, <2>2, BookedSound
<1> QED BY <1>1, <1>2 DEF Moves

LEMMA LookedSound ==
    ASSUME TypeOK, NEW s \in Sources, Sound(s), NEW ips, Looked(s, ips)
    PROVE  Sound(s)'
<1>1. More(s) /\ Host(s) \in Names
  BY DEF Looked, Sound, Places
<1>2. pc'[s] = "parse"
  BY DEF Looked, TypeOK
<1>3. ASSUME ~Ended(s), NEW h \in Names, memo'[s][h] = <<>> PROVE h \in Failing
  <2>1. memo'[s][h] = IF h = Host(s) THEN ips ELSE memo[s][h]
    BY <1>1 DEF Looked, TypeOK
  <2> QED BY <1>3, <2>1 DEF Looked, Sound, Honest
<1> QED BY <1>1, <1>2, <1>3, BookedSound DEF Looked

LEMMA SimpleSound ==
    ASSUME TypeOK, NEW s \in Sources, Sound(s), Simple(s)
    PROVE  Sound(s)'
<1>1. /\ judged'[s] = judged[s] /\ memo'[s] = memo[s] /\ chain'[s] = chain[s]
      /\ (Ended(s)' <=> Ended(s)) /\ spawned' = spawned
      /\ judged[s] \in Seq(Verdicts) /\ body[s] \in Seq(Nodes)
  BY DEF Simple, Ended, TypeOK
<1>2. Consistent(s)'
  BY <1>1 DEF Sound, Consistent, Judges, Denied
<1>3. CASE pc[s] = "load" /\ pc'[s] \in {"failed", "parse"} /\ body' \in [Sources -> Seq(Nodes)]
  <2>1. judged'[s] = <<>> /\ Len(body'[s]) \in Nat
    BY <1>1, <1>3 DEF Sound, Places
  <2>2. Places(s)' /\ InOrder(s)' /\ Honest(s)'
    BY <1>1, <1>3, <2>1 DEF Sound, Places, InOrder, Honest
  <2> QED BY <1>2, <2>2 DEF Sound
<1>4. CASE pc[s] = "parse" /\ pc'[s] = "failed" /\ body' = body
  BY <1>1, <1>2, <1>4 DEF Sound, Places, InOrder, Honest
<1>5. CASE pc[s] = "parse" /\ ~Ended(s) /\ ~More(s) /\ pc'[s] = "delivered" /\ body' = body
  <2>1. Len(judged[s]) = Len(body[s])
    BY <1>1, <1>5 DEF More, Sound, InOrder
  <2>2. Places(s)'
    BY <1>1, <1>5 DEF Sound, Places
  <2>3. InOrder(s)'
    BY <1>1, <1>5, <2>1 DEF Sound, InOrder
  <2>4. Honest(s)'
    BY <1>1, <1>5 DEF Sound, Honest
  <2> QED BY <1>2, <2>2, <2>3, <2>4 DEF Sound
<1> QED
  <2>1. CASE pc' = [pc EXCEPT ![s] = "failed"] /\ UNCHANGED body /\ pc[s] \in {"load", "parse"}
    BY <1>3, <1>4, <2>1 DEF TypeOK
  <2>2. CASE /\ pc[s] = "load" /\ pc' = [pc EXCEPT ![s] = "parse"]
             /\ \E b \in Seq(Nodes) : body' = [body EXCEPT ![s] = b]
    BY <1>3, <2>2 DEF TypeOK
  <2>3. CASE /\ pc[s] = "parse" /\ ~Ended(s) /\ ~More(s)
             /\ pc' = [pc EXCEPT ![s] = "delivered"] /\ UNCHANGED body
    BY <1>5, <2>3 DEF TypeOK
  <2> QED BY <2>1, <2>2, <2>3 DEF Simple

\* The other requests do not see the step of one.
LEMMA OthersKept ==
    ASSUME TypeOK, NEW s \in Sources, NEW t \in Sources, s # t, Sound(s),
           \/ Moves(s) /\ UNCHANGED <<others, cache>>
           \/ \E ips : Looked(s, ips)
           \/ Simple(s)
    PROVE  Kept(t)
<1>1. CASE Moves(s) /\ UNCHANGED <<others, cache>>
  BY <1>1 DEF Moves, Books, others, Kept, TypeOK, Ended
<1>2. CASE \E ips : Looked(s, ips)
  BY <1>2 DEF Looked, Books, others, Kept, TypeOK, Ended
<1>3. CASE Simple(s)
  BY <1>3 DEF Simple, Kept, TypeOK, Ended
<1> QED BY <1>1, <1>2, <1>3

LEMMA SoundStep == IInv /\ [Next]_vars => \A t \in Sources : Sound(t)'
<1> SUFFICES ASSUME IInv, [Next]_vars, NEW t \in Sources PROVE Sound(t)'
  OBVIOUS
<1>0. TypeOK /\ Shared /\ (\A s \in Sources : Sound(s) /\ Places(s)) /\ N \in Nat
  BY PassAssumption DEF IInv, Sound
<1>1. ASSUME NEW s \in Sources, Request(s) PROVE Sound(t)'
  <2>1. \/ pc[s] = "parse" /\ ~Ended(s) /\ Moves(s) /\ UNCHANGED <<others, cache>>
        \/ \E ips : Looked(s, ips)
        \/ Simple(s)
    BY <1>0, <1>1, RequestSteps
  <2>2. CASE s # t
    BY <1>0, <2>1, <2>2, OthersKept, KeptSound
  <2>3. CASE s = t
    BY <1>0, <2>1, <2>3, MovesSound, LookedSound, SimpleSound
  <2> QED BY <2>2, <2>3
<1>2. CASE Spawn
  <2>1. spawned \in 0..N /\ spawned + 1 \in Sources /\ t \in 1..N
    BY <1>0, <1>2 DEF Spawn, TypeOK, Sources
  <2>2. CASE t # spawned + 1
    <3>1. Kept(t)
      BY <1>0, <1>2, <2>1, <2>2 DEF Spawn, Kept, TypeOK, Ended
    <3> QED BY <1>0, <3>1, KeptSound
  <2>3. CASE t = spawned + 1
    <3>1. judged[t] = <<>>
      BY <1>0, <2>1, <2>3 DEF Places
    <3>2. /\ pc'[t] = "load" /\ judged'[t] = <<>> /\ body'[t] = body[t] /\ memo'[t] = memo[t]
          /\ (Ended(t)' <=> Ended(t)) /\ spawned' = spawned + 1
      BY <1>0, <1>2, <2>3, <3>1 DEF Spawn, TypeOK, Ended
    <3>3. Places(t)' /\ InOrder(t)' /\ Consistent(t)'
      BY <1>0, <2>1, <2>3, <3>1, <3>2 DEF Places, InOrder, Consistent, Sound
    <3>4. Honest(t)'
      BY <1>0, <3>2 DEF Honest, Sound
    <3> QED BY <3>3, <3>4 DEF Sound
  <2> QED BY <2>2, <2>3
<1>3. CASE Merge \/ Stopped \/ Cancel \/ Refresh \/ (\E h \in Names : EntryGoes(h)) \/ UNCHANGED vars
  <2>1. Kept(t)
    BY <1>3 DEF Merge, Stopped, Cancel, Refresh, EntryGoes, vars, requestVars, tableVars, Kept, Ended
  <2> QED BY <1>0, <2>1, KeptSound
<1>4. CASE NextCycle
  <2>1. /\ pc'[t] = "waiting" /\ judged'[t] = <<>> /\ body'[t] = <<>>
        /\ memo'[t] = NoMemo
    BY <1>4 DEF NextCycle, Each
  <2>2. \A h \in Names : NoMemo[h] # <<>>
    BY PassAssumption DEF NoMemo
  <2> QED BY <2>1, <2>2 DEF Sound, Places, InOrder, Honest, Consistent
<1>5. ASSUME NEW s \in Sources, Expire(s) PROVE Sound(t)'
  <2>1. Kept(t)
    BY <1>0, <1>5 DEF Expire, tableVars, Kept, Ended, TypeOK
  <2> QED BY <1>0, <2>1, KeptSound
<1> QED BY <1>1, <1>2, <1>3, <1>4, <1>5 DEF Next

LEMMA SharedStep == IInv /\ [Next]_vars => Shared'
<1> SUFFICES ASSUME IInv, [Next]_vars PROVE Shared'
  OBVIOUS
<1>0. TypeOK /\ Shared /\ (\A s \in Sources : Places(s)) /\ Miss # <<>>
  BY PassAssumption DEF IInv, Sound
<1>1. CASE cache' = cache
  BY <1>0, <1>1 DEF Shared
<1>2. ASSUME NEW s \in Sources, Request(s) PROVE Shared'
  <2>1. ASSUME NEW ips, Looked(s, ips) PROVE Shared'
    <3>1. Host(s) \in Names
      BY <1>0, <2>1 DEF Looked, Places
    <3>2. CASE cache' = [cache EXCEPT ![Host(s)] = ips] /\ (ips = <<>> => Host(s) \in Failing)
      BY <1>0, <3>1, <3>2 DEF Shared, TypeOK
    <3> QED BY <1>1, <2>1, <3>2 DEF Looked
  <2> QED BY <1>0, <1>1, <1>2, <2>1, RequestSteps DEF Simple
<1>3. ASSUME NEW h \in Names, EntryGoes(h) PROVE Shared'
  BY <1>0, <1>3 DEF EntryGoes, Shared, TypeOK
<1>4. CASE \/ Spawn \/ Merge \/ NextCycle \/ Stopped \/ Cancel \/ Refresh \/ UNCHANGED vars
           \/ \E s \in Sources : Expire(s)
  BY <1>1, <1>4 DEF Spawn, Merge, NextCycle, Stopped, Cancel, Refresh, Expire, vars
<1> QED BY <1>2, <1>3, <1>4 DEF Next

LEMMA InitInv == Init => IInv
<1> SUFFICES ASSUME Init PROVE IInv
  OBVIOUS
<1>1. /\ 1 \in 1..Len(DeniedBy) /\ 1 \in 1..Len(AllowedBy) /\ N \in Nat
      /\ NoMemo \in [Names -> Known] /\ \A h \in Names : NoMemo[h] # <<>>
  BY PassAssumption DEF NoMemo, Known
<1>2. TypeOK
  <2>1. ASSUME NEW S, NEW x \in S PROVE Each(x) \in [Sources -> S]
    BY DEF Each
  <2>2. Each(<<>>) \in [Sources -> Seq(Nodes)] /\ Each(<<>>) \in [Sources -> Seq(Verdicts)]
    <3>1. <<>> \in Seq(Nodes) /\ <<>> \in Seq(Verdicts)
      OBVIOUS
    <3> QED BY <2>1, <3>1
  <2>3. /\ Each(FALSE) \in [Sources -> BOOLEAN] /\ Each(1) \in [Sources -> 1..Len(DeniedBy)]
        /\ Each(NoMemo) \in [Sources -> [Names -> Known]]
    BY <1>1, <2>1, Zenon
  <2>4. Each("waiting") \in [Sources -> {"waiting", "load", "parse", "lookup", "delivered", "failed"}]
    BY <2>1
  <2>5. spawned \in 0..N
    BY <1>1 DEF Init
  <2> QED BY <1>1, <2>2, <2>3, <2>4, <2>5 DEF Init, TypeOK
<1>3. Shared
  BY <1>1 DEF Init, Shared
<1>4. ASSUME NEW s \in Sources PROVE Sound(s)
  BY <1>1 DEF Init, Each, Sound, Places, InOrder, Honest, Consistent
<1> QED BY <1>2, <1>3, <1>4 DEF IInv

LEMMA Invariance == Spec => []IInv
<1>1. IInv /\ [Next]_vars => IInv'
  BY TypesStep, SoundStep, SharedStep DEF IInv
<1> QED BY InitInv, <1>1, PTL DEF Spec

-----------------------------------------------------------------------------
(* Merge.                                                                  *)

\* The places of the first n sources.
PlacesTo(n) == UNION {{s} \X DOMAIN judged[s] : s \in {t \in 1..n : pc[t] = "delivered"}}

\* A pool holds these places in their order.
Lists(pool, S) ==
    /\ pool \in Seq(S)
    /\ S = {pool[i] : i \in DOMAIN pool}
    /\ \A i, j \in DOMAIN pool : i < j => Before(pool[i], pool[j])

LEMMA BodyLists ==
    ASSUME TypeOK, NEW s \in Sources
    PROVE  Lists(SourceBody(s), IF pc[s] = "delivered" THEN {s} \X DOMAIN judged[s] ELSE {})
<1>1. DOMAIN judged[s] = 1..Len(judged[s]) /\ Len(judged[s]) \in Nat
  BY DEF TypeOK
<1>2. CASE pc[s] = "delivered"
  <2> DEFINE b == [k \in 1..Len(judged[s]) |-> <<s, k>>]
  <2>1. SourceBody(s) = b
    BY <1>1, <1>2 DEF SourceBody
  <2>2. b \in Seq({s} \X (1..Len(judged[s]))) /\ DOMAIN b = 1..Len(judged[s])
    BY <1>1
  <2>3. {s} \X (1..Len(judged[s])) = {b[i] : i \in DOMAIN b}
    <3>1. ASSUME NEW x \in {s} \X (1..Len(judged[s])) PROVE \E i \in DOMAIN b : b[i] = x
      <4>1. x[2] \in 1..Len(judged[s]) /\ x = <<s, x[2]>>
        OBVIOUS
      <4> QED BY <4>1
    <3>2. \A i \in DOMAIN b : b[i] \in {s} \X (1..Len(judged[s]))
      OBVIOUS
    <3> HIDE DEF b
    <3> QED BY <3>1, <3>2
  <2>4. ASSUME NEW i \in DOMAIN b, NEW j \in DOMAIN b, i < j PROVE Before(b[i], b[j])
    BY <2>4 DEF Before
  <2> HIDE DEF b
  <2> QED BY <1>1, <1>2, <2>1, <2>2, <2>3, <2>4 DEF Lists
<1>3. CASE pc[s] # "delivered"
  BY <1>3 DEF Lists, SourceBody
<1> QED BY <1>2, <1>3

\* Two pools in a row.
LEMMA ListsConcat ==
    ASSUME NEW P, NEW Q, NEW p, NEW q, Lists(p, P), Lists(q, Q),
           \A x \in P, y \in Q : Before(x, y)
    PROVE  Lists(p \o q, P \cup Q)
<1> DEFINE r == p \o q
<1>1. /\ p \in Seq(P) /\ q \in Seq(Q)
      /\ DOMAIN p = 1..Len(p) /\ DOMAIN q = 1..Len(q) /\ Len(p) \in Nat /\ Len(q) \in Nat
  BY DEF Lists
<1>2. /\ r \in Seq(P \cup Q) /\ DOMAIN r = 1..(Len(p) + Len(q))
      /\ \A i \in DOMAIN p : r[i] = p[i]
      /\ \A i \in DOMAIN q : r[Len(p) + i] = q[i]
  BY <1>1
<1>3. \A i \in DOMAIN r : i \in DOMAIN p \/ (i - Len(p) \in DOMAIN q /\ i = Len(p) + (i - Len(p)))
  BY <1>1, <1>2
<1> HIDE DEF r
<1>4. ASSUME NEW x \in P \cup Q PROVE \E i \in DOMAIN r : r[i] = x
  <2>1. CASE x \in P
    BY <1>1, <1>2, <2>1 DEF Lists
  <2>2. CASE x \in Q
    <3>1. PICK i \in DOMAIN q : q[i] = x
      BY <2>2 DEF Lists
    <3>2. Len(p) + i \in DOMAIN r
      BY <1>1, <1>2
    <3> QED BY <1>2, <3>1, <3>2
  <2> QED BY <2>1, <2>2
<1>5. \A i \in DOMAIN r : r[i] \in P \cup Q
  BY <1>2
<1>6. ASSUME NEW i \in DOMAIN r, NEW j \in DOMAIN r, i < j PROVE Before(r[i], r[j])
  <2>1. CASE j \in DOMAIN p
    <3>1. i \in DOMAIN p
      BY <1>1, <1>2, <1>6, <2>1
    <3> QED BY <1>2, <1>6, <2>1, <3>1 DEF Lists
  <2>2. CASE i \notin DOMAIN p
    <3>1. /\ i - Len(p) \in DOMAIN q /\ j - Len(p) \in DOMAIN q /\ i - Len(p) < j - Len(p)
          /\ r[i] = q[i - Len(p)] /\ r[j] = q[j - Len(p)]
      BY <1>1, <1>2, <1>3, <1>6, <2>2
    <3> QED BY <3>1 DEF Lists
  <2>3. CASE i \in DOMAIN p /\ j \notin DOMAIN p
    <3>1. r[i] \in P /\ r[j] \in Q
      BY <1>1, <1>2, <1>3, <2>3
    <3> QED BY <3>1
  <2> QED BY <2>1, <2>2, <2>3
<1>7. P \cup Q = {r[i] : i \in DOMAIN r}
  BY <1>4, <1>5
<1> QED BY <1>2, <1>6, <1>7 DEF Lists, r

LEMMA PoolLists == ASSUME TypeOK PROVE Lists(Pool, PlacesTo(N))
<1> DEFINE S == Seq(PlacesTo(N))
           G == [s \in 1..N |-> [p \in S |-> p \o SourceBody(s)]]
           F(f) == f = [s \in 0..N |-> IF s = 0 THEN <<>> ELSE f[s - 1] \o SourceBody(s)]
<1>1. N \in Nat
  BY PassAssumption
<1>2. ASSUME NEW s \in 1..N PROVE SourceBody(s) \in S
  <2>1. s \in Sources
    BY DEF Sources
  <2>2. SourceBody(s) \in Seq(IF pc[s] = "delivered" THEN {s} \X DOMAIN judged[s] ELSE {})
    BY <2>1, BodyLists DEF Lists
  <2>3. (IF pc[s] = "delivered" THEN {s} \X DOMAIN judged[s] ELSE {}) \subseteq PlacesTo(N)
    BY DEF PlacesTo
  <2> HIDE DEF PlacesTo
  <2> QED BY <2>2, <2>3
<1>3. G \in [1..N -> [S -> S]] /\ <<>> \in S
  BY <1>2
<1>4. PICK f \in [0..N -> S] : Follows(f, N, <<>>, G)
  <2> HIDE DEF S, G
  <2> QED BY <1>1, <1>3, Recursion
<1>5. F(f)
  <2>1. ASSUME NEW s \in 1..N PROVE f[s] = f[s - 1] \o SourceBody(s)
    <3>1. s - 1 \in 0..N
      BY <1>1
    <3>2. f[s - 1] \in S
      BY <1>4, <3>1
    <3> HIDE DEF S
    <3> QED BY <1>4, <3>2 DEF Follows
  <2>2. DOMAIN f = 0..N /\ f = [s \in 0..N |-> f[s]]
    BY <1>4
  <2>3. f[0] = <<>>
    BY <1>4 DEF Follows
  <2>4. f = [s \in 0..N |-> IF s = 0 THEN <<>> ELSE f[s - 1] \o SourceBody(s)]
    <3>1. ASSUME NEW s \in 0..N PROVE f[s] = IF s = 0 THEN <<>> ELSE f[s - 1] \o SourceBody(s)
      <4>1. CASE s = 0
        BY <2>3, <4>1
      <4>2. CASE s # 0
        <5>1. s \in 1..N
          BY <1>1, <4>2
        <5> HIDE DEF G, S
        <5> QED BY <2>1, <4>2, <5>1
      <4> QED BY <4>1, <4>2
    <3> HIDE DEF G, S
    <3> QED BY <2>2, <3>1
  <2> QED BY <2>4
<1> DEFINE u == CHOOSE g : F(g)
<1>6. F(u)
  <2> HIDE DEF F
  <2> QED BY <1>5
<1>7. Pool = u[N]
  BY DEF Pool
<1> HIDE DEF u
<1>8. u[0] = <<>> /\ \A s \in 1..N : u[s] = u[s - 1] \o SourceBody(s)
  <2>1. \A s \in 0..N : u[s] = IF s = 0 THEN <<>> ELSE u[s - 1] \o SourceBody(s)
    BY <1>6
  <2>2. 0 \in 0..N /\ \A s \in 1..N : s \in 0..N /\ s # 0
    BY <1>1
  <2>3. u[0] = <<>>
    BY <2>1, <2>2
  <2>4. \A s \in 1..N : u[s] = u[s - 1] \o SourceBody(s)
    BY <2>1, <2>2
  <2> QED BY <2>3, <2>4
<1> DEFINE W == {s \in 0..N : Lists(u[s], PlacesTo(s))}
<1>9. 0 \in W
  <2>1. PlacesTo(0) = {}
    BY DEF PlacesTo
  <2>2. Lists(<<>>, {})
    BY DEF Lists
  <2>3. Lists(u[0], PlacesTo(0))
    BY <1>8, <2>1, <2>2, Zenon
  <2> QED BY <1>1, <2>3
<1>10. ASSUME NEW s \in 0..N, s \in W, s < N PROVE s + 1 \in W
  <2> DEFINE B == IF pc[s + 1] = "delivered" THEN {s + 1} \X DOMAIN judged[s + 1] ELSE {}
  <2>1. s + 1 \in Sources /\ s + 1 \in 1..N /\ (s + 1) - 1 = s
    BY <1>1, <1>10 DEF Sources
  <2>2. Lists(SourceBody(s + 1), B)
    BY <2>1, BodyLists
  <2>3. PlacesTo(s + 1) = PlacesTo(s) \cup B
    <3>1. 1..(s + 1) = 1..s \cup {s + 1}
      BY <1>1
    <3> QED BY <3>1 DEF PlacesTo
  <2>4. \A x \in PlacesTo(s), y \in B : Before(x, y)
    BY <1>1 DEF PlacesTo, Before
  <2>5. Lists(u[s], PlacesTo(s)) /\ u[s + 1] = u[s] \o SourceBody(s + 1)
    BY <1>8, <1>10, <2>1
  <2> HIDE DEF B
  <2>6. Lists(u[s + 1], PlacesTo(s + 1))
    BY <2>2, <2>3, <2>4, <2>5, ListsConcat
  <2> QED BY <2>1, <2>6
<1>11. N \in W
  <2> HIDE DEF W
  <2>1. \A s \in 0..N : s \in W /\ s < N => s + 1 \in W
    BY <1>10
  <2>2. \A s \in 0..N : s \in W
    BY <1>1, <1>9, <2>1, Upward
  <2> QED BY <1>1, <2>2
<1> QED BY <1>7, <1>11

-----------------------------------------------------------------------------
(* The entries.                                                            *)

Usable(p) == At(p).why = "kept" /\ At(p).node \notin Placeholders \cup Unlabelled

\* Of the first k places, those that are the first usable one of their address.
First(pool, k) ==
    {pool[i] : i \in {j \in 1..k : /\ Usable(pool[j])
                                   /\ \A l \in 1..(j - 1) : Usable(pool[l]) =>
                                          KeyAt(pool[l]) # KeyAt(pool[j])}}

Shown(p) == <<p[1], At(p).node, At(p).ip>>

Labels(es) ==
    \A i, j \in DOMAIN es : i # j =>
        <<es[i].source, es[i].number>> # <<es[j].source, es[j].number>>

EntryRecords == [source : Sources, number : Nat, addr : Keys, node : Nodes, ip : Addrs \cup {NoAddr}]

\* What the first k places have made of the list of entries.
Built(pool, k, es) ==
    /\ es \in Seq(EntryRecords)
    /\ {<<e.source, e.node, e.ip>> : e \in {es[i] : i \in DOMAIN es}}
         = {Shown(p) : p \in First(pool, k)}
    /\ IsFiniteSet(First(pool, k)) /\ Len(es) = Cardinality(First(pool, k))
    /\ {es[i].addr : i \in DOMAIN es} = {KeyAt(pool[i]) : i \in {j \in 1..k : Usable(pool[j])}}
    /\ \A i \in DOMAIN es :
          es[i].number = Cardinality({j \in 1..(i - 1) : es[j].source = es[i].source}) + 1

LEMMA PlaceTypes ==
    ASSUME TypeOK, NEW p \in PlacesTo(N)
    PROVE  /\ p[1] \in Sources /\ p[2] \in DOMAIN judged[p[1]] /\ p = <<p[1], p[2]>>
           /\ p[1] \in Int /\ p[2] \in Int
           /\ At(p) \in Verdicts /\ KeyAt(p) \in Keys
<1>1. PICK s \in Sources : p \in {s} \X DOMAIN judged[s]
  BY DEF PlacesTo, Sources
<1>2. p[1] = s /\ p[2] \in DOMAIN judged[s] /\ p = <<p[1], p[2]>>
  BY <1>1
<1>3. judged[s] \in Seq(Verdicts)
  BY DEF TypeOK
<1>4. At(p) \in Verdicts
  BY <1>2, <1>3 DEF At
<1>5. KeyAt(p) \in Keys
  BY <1>4, PassAssumption DEF KeyAt, Verdicts
<1>6. p[1] \in Int /\ p[2] \in Int
  <2>1. Len(judged[s]) \in Nat /\ DOMAIN judged[s] = 1..Len(judged[s])
    BY <1>3
  <2> QED BY <1>2, <2>1, PassAssumption DEF Sources
<1> QED BY <1>2, <1>4, <1>5, <1>6

\* A new entry is numbered after those of its source, so all labels differ.
LEMMA LabelsDiffer ==
    ASSUME NEW pool, NEW k, NEW es, Built(pool, k, es)
    PROVE  Labels(es)
<1> DEFINE Same(i) == {j \in 1..(i - 1) : es[j].source = es[i].source}
<1>1. DOMAIN es = 1..Len(es) /\ Len(es) \in Nat
  BY DEF Built
<1>2. ASSUME NEW i \in DOMAIN es, NEW j \in DOMAIN es, i < j, es[i].source = es[j].source
      PROVE  es[i].number # es[j].number
  <2>1. Same(i) \subseteq Same(j) /\ i \in Same(j) /\ i \notin Same(i)
    BY <1>1, <1>2
  <2>2. IsFiniteSet(Same(j))
    <3>1. IsFiniteSet(1..(j - 1))
      BY <1>1, FS_Interval
    <3> QED BY <3>1, FS_Subset
  <2>3. Cardinality(Same(i)) < Cardinality(Same(j))
    <3> HIDE DEF Same
    <3>1. Same(i) # Same(j)
      BY <2>1
    <3>2. /\ Cardinality(Same(i)) <= Cardinality(Same(j)) /\ IsFiniteSet(Same(i))
          /\ Cardinality(Same(i)) = Cardinality(Same(j)) => Same(i) = Same(j)
      BY <2>1, <2>2, FS_Subset
    <3>3. Cardinality(Same(i)) \in Nat /\ Cardinality(Same(j)) \in Nat
      BY <2>2, <3>2, FS_CardinalityType
    <3> QED BY <3>1, <3>2, <3>3
  <2>4. es[i].number = Cardinality(Same(i)) + 1 /\ es[j].number = Cardinality(Same(j)) + 1
    BY DEF Built
  <2>5. IsFiniteSet(Same(i))
    BY <2>1, <2>2, FS_Subset
  <2> HIDE DEF Same
  <2>6. Cardinality(Same(i)) \in Nat /\ Cardinality(Same(j)) \in Nat
    BY <2>2, <2>5, FS_CardinalityType
  <2> QED BY <2>3, <2>4, <2>6
<1>3. ASSUME NEW i \in DOMAIN es, NEW j \in DOMAIN es, i # j
      PROVE  <<es[i].source, es[i].number>> # <<es[j].source, es[j].number>>
  <2>1. i < j \/ j < i
    BY <1>1, <1>3
  <2> QED BY <1>2, <2>1
<1> QED BY <1>3 DEF Labels

\* Whether the next place is the first usable one of its address.
LEMMA FirstNext ==
    ASSUME TypeOK, NEW pool, Lists(pool, PlacesTo(N)), NEW k \in Nat, k + 1 \in DOMAIN pool
    PROVE  LET p == pool[k + 1]
               opens == Usable(p) /\ \A l \in 1..k : Usable(pool[l]) => KeyAt(pool[l]) # KeyAt(p)
           IN  /\ opens => First(pool, k + 1) = First(pool, k) \cup {p} /\ p \notin First(pool, k)
               /\ ~opens => First(pool, k + 1) = First(pool, k)
<1> DEFINE p == pool[k + 1]
           opens == Usable(p) /\ \A l \in 1..k : Usable(pool[l]) => KeyAt(pool[l]) # KeyAt(p)
           I(m) == {j \in 1..m : /\ Usable(pool[j])
                                 /\ \A l \in 1..(j - 1) : Usable(pool[l]) =>
                                       KeyAt(pool[l]) # KeyAt(pool[j])}
<1>1. 1..(k + 1) = 1..k \cup {k + 1} /\ k + 1 \notin 1..k /\ (k + 1) - 1 = k
  OBVIOUS
<1>2. opens => I(k + 1) = I(k) \cup {k + 1}
  BY <1>1
<1>3. ~opens => I(k + 1) = I(k)
  BY <1>1
<1>4. p \notin First(pool, k)
  <2>1. SUFFICES ASSUME NEW i \in 1..k, pool[i] = p PROVE FALSE
    BY DEF First
  <2>2. i \in DOMAIN pool /\ i < k + 1
    BY DEF Lists
  <2>3. Before(p, p)
    BY <2>1, <2>2 DEF Lists
  <2>4. p \in PlacesTo(N)
    BY DEF Lists
  <2>5. p[1] \in Int /\ p[2] \in Int
    BY <2>4, PlaceTypes
  <2> QED BY <2>3, <2>5 DEF Before
<1>5. \A m : First(pool, m) = {pool[i] : i \in I(m)}
  BY DEF First
<1> HIDE DEF I
<1>6. opens => First(pool, k + 1) = First(pool, k) \cup {p}
  BY <1>2, <1>5
<1>7. ~opens => First(pool, k + 1) = First(pool, k)
  BY <1>3, <1>5
<1> QED BY <1>4, <1>6, <1>7

LEMMA AdmitsRight ==
    ASSUME TypeOK, NEW pool, Lists(pool, PlacesTo(N)), NEW k \in Nat, k + 1 \in DOMAIN pool,
           NEW es, Built(pool, k, es)
    PROVE  Admits(pool, k + 1, es) <=>
              Usable(pool[k + 1]) /\ \A l \in 1..k : Usable(pool[l]) =>
                                          KeyAt(pool[l]) # KeyAt(pool[k + 1])
<1> DEFINE A == {es[i].addr : i \in DOMAIN es}
<1>1. A = {KeyAt(pool[i]) : i \in {j \in 1..k : Usable(pool[j])}}
  BY DEF Built
<1>2. (\A i \in DOMAIN es : es[i].addr # KeyAt(pool[k + 1])) <=> KeyAt(pool[k + 1]) \notin A
  OBVIOUS
<1> HIDE DEF A
<1>3. KeyAt(pool[k + 1]) \notin A <=> \A l \in 1..k : Usable(pool[l]) => KeyAt(pool[l]) # KeyAt(pool[k + 1])
  BY <1>1
<1> QED BY <1>2, <1>3 DEF Admits, Usable

LEMMA EntryType ==
    ASSUME TypeOK, NEW p \in PlacesTo(N), NEW es \in Seq(EntryRecords)
    PROVE  Entry(es, p) \in EntryRecords
<1>1. p[1] \in Sources /\ At(p) \in Verdicts /\ KeyAt(p) \in Keys
  BY PlaceTypes
<1>2. Cardinality({i \in DOMAIN es : es[i].source = p[1]}) \in Nat
  <2>1. IsFiniteSet(1..Len(es))
    BY FS_Interval
  <2>2. {i \in DOMAIN es : es[i].source = p[1]} \subseteq 1..Len(es)
    OBVIOUS
  <2> QED BY <2>1, <2>2, FS_Subset, FS_CardinalityType
<1> QED BY <1>1, <1>2 DEF Entry, EntryRecords, Verdicts

LEMMA BuiltStep ==
    ASSUME TypeOK, NEW pool, Lists(pool, PlacesTo(N)), NEW k \in Nat, k + 1 \in DOMAIN pool,
           NEW es, Built(pool, k, es)
    PROVE  Built(pool, k + 1, IF Admits(pool, k + 1, es)
                              THEN Append(es, Entry(es, pool[k + 1])) ELSE es)
<1> DEFINE p == pool[k + 1]
           e == Entry(es, p)
           new == Append(es, e)
           earlier == \E l \in 1..k : Usable(pool[l]) /\ KeyAt(pool[l]) = KeyAt(p)
<1>1. /\ p \in PlacesTo(N)
      /\ es \in Seq(EntryRecords) /\ DOMAIN es = 1..Len(es) /\ Len(es) \in Nat
      /\ 1..(k + 1) = 1..k \cup {k + 1}
  BY DEF Lists, Built
<1>2. CASE Admits(pool, k + 1, es)
  <2>1. Usable(p) /\ ~earlier
    BY <1>2, AdmitsRight
  <2>2. First(pool, k + 1) = First(pool, k) \cup {p} /\ p \notin First(pool, k)
    <3> HIDE DEF p
    <3> QED BY <2>1, FirstNext DEF p
  <2>3. e \in EntryRecords /\ <<e.source, e.node, e.ip>> = Shown(p) /\ e.addr = KeyAt(p)
        /\ e.number = Cardinality({i \in DOMAIN es : es[i].source = p[1]}) + 1 /\ e.source = p[1]
    <3> HIDE DEF p
    <3> QED BY <1>1, EntryType DEF Entry, Shown
  <2> HIDE DEF e, p
  <2>4. /\ new \in Seq(EntryRecords) /\ Len(new) = Len(es) + 1
        /\ DOMAIN new = DOMAIN es \cup {Len(es) + 1} /\ Len(es) + 1 \notin DOMAIN es
        /\ \A i \in DOMAIN es : new[i] = es[i]
        /\ new[Len(es) + 1] = e
    BY <1>1, <2>3
  <2> HIDE DEF new
  <2>5. {new[i] : i \in DOMAIN new} = {es[i] : i \in DOMAIN es} \cup {e}
    BY <2>4
  <2>6. {<<x.source, x.node, x.ip>> : x \in {new[i] : i \in DOMAIN new}}
          = {Shown(q) : q \in First(pool, k + 1)}
    <3> DEFINE X == {es[i] : i \in DOMAIN es}
    <3>1. {<<x.source, x.node, x.ip>> : x \in X} = {Shown(q) : q \in First(pool, k)}
      BY DEF Built
    <3> HIDE DEF X
    <3>2. {<<x.source, x.node, x.ip>> : x \in X \cup {e}}
            = {<<x.source, x.node, x.ip>> : x \in X} \cup {<<e.source, e.node, e.ip>>}
      OBVIOUS
    <3>3. {Shown(q) : q \in First(pool, k) \cup {p}} = {Shown(q) : q \in First(pool, k)} \cup {Shown(p)}
      OBVIOUS
    <3>4. {Shown(q) : q \in First(pool, k + 1)} = {Shown(q) : q \in First(pool, k)} \cup {Shown(p)}
      BY <2>2, <3>3
    <3>5. {<<x.source, x.node, x.ip>> : x \in {new[i] : i \in DOMAIN new}}
            = {<<x.source, x.node, x.ip>> : x \in X \cup {e}}
      BY <2>5 DEF X
    <3> QED BY <2>3, <3>1, <3>2, <3>4, <3>5
  <2>7. IsFiniteSet(First(pool, k + 1)) /\ Len(new) = Cardinality(First(pool, k + 1))
    BY <2>2, <2>4, FS_AddElement DEF Built
  <2>8. {new[i].addr : i \in DOMAIN new} = {KeyAt(pool[i]) : i \in {j \in 1..(k + 1) : Usable(pool[j])}}
    <3>1. {new[i].addr : i \in DOMAIN new} = {es[i].addr : i \in DOMAIN es} \cup {e.addr}
      BY <2>4
    <3>2. {j \in 1..(k + 1) : Usable(pool[j])} = {j \in 1..k : Usable(pool[j])} \cup {k + 1}
      BY <1>1, <2>1 DEF p
    <3>3. {es[i].addr : i \in DOMAIN es} = {KeyAt(pool[i]) : i \in {j \in 1..k : Usable(pool[j])}}
      BY DEF Built
    <3> DEFINE U == {j \in 1..k : Usable(pool[j])}
    <3> HIDE DEF U
    <3>4. {KeyAt(pool[i]) : i \in U \cup {k + 1}} = {KeyAt(pool[i]) : i \in U} \cup {KeyAt(p)}
      BY DEF p
    <3> QED BY <2>3, <3>1, <3>2, <3>3, <3>4 DEF U
  <2>9. ASSUME NEW i \in DOMAIN new
        PROVE  new[i].number = Cardinality({j \in 1..(i - 1) : new[j].source = new[i].source}) + 1
    <3>1. \A j \in 1..(i - 1) : j \in DOMAIN es /\ new[j] = es[j]
      BY <1>1, <2>4
    <3>2. CASE i \in DOMAIN es
      <4>1. {j \in 1..(i - 1) : new[j].source = new[i].source}
              = {j \in 1..(i - 1) : es[j].source = es[i].source}
        BY <2>4, <3>1, <3>2
      <4>2. es[i].number = Cardinality({j \in 1..(i - 1) : es[j].source = es[i].source}) + 1
        BY <3>2 DEF Built
      <4> QED BY <2>4, <3>2, <4>1, <4>2
    <3>3. CASE i = Len(es) + 1
      <4>1. 1..(i - 1) = DOMAIN es /\ new[i] = e
        BY <1>1, <2>4, <3>3
      <4>2. {j \in 1..(i - 1) : new[j].source = new[i].source} = {j \in DOMAIN es : es[j].source = p[1]}
        BY <2>3, <3>1, <4>1
      <4> QED BY <2>3, <4>1, <4>2
    <3> QED BY <2>4, <3>2, <3>3
  <2>10. Built(pool, k + 1, new)
    BY <2>4, <2>6, <2>7, <2>8, <2>9 DEF Built
  <2> QED BY <1>2, <2>10 DEF new, e, p
<1>3. CASE ~Admits(pool, k + 1, es)
  <2>1. Usable(p) => earlier
    BY <1>3, AdmitsRight
  <2>2. First(pool, k + 1) = First(pool, k)
    <3> HIDE DEF p
    <3> QED BY <2>1, FirstNext DEF p
  <2>3. {KeyAt(pool[i]) : i \in {j \in 1..(k + 1) : Usable(pool[j])}}
          = {KeyAt(pool[i]) : i \in {j \in 1..k : Usable(pool[j])}}
    BY <1>1, <2>1
  <2>4. Built(pool, k + 1, es)
    BY <2>2, <2>3 DEF Built
  <2> QED BY <1>3, <2>4
<1> QED BY <1>2, <1>3

\* What Merged makes of a pool.
LEMMA MergedBuilt ==
    ASSUME TypeOK, NEW pool, Lists(pool, PlacesTo(N))
    PROVE  Built(pool, Len(pool), Merged(pool))
<1> DEFINE n == Len(pool)
           S == Seq(EntryRecords)
           Step(k, es) == IF Admits(pool, k, es) THEN Append(es, Entry(es, pool[k])) ELSE es
           G == [k \in 1..n |-> [es \in S |-> Step(k, es)]]
           F(f) == f = [k \in 0..n |-> IF k = 0 THEN <<>>
                            ELSE IF Admits(pool, k, f[k - 1])
                                 THEN Append(f[k - 1], Entry(f[k - 1], pool[k]))
                                 ELSE f[k - 1]]
<1>1. n \in Nat /\ DOMAIN pool = 1..n /\ \A k \in 1..n : pool[k] \in PlacesTo(N)
  BY DEF Lists
<1>2. ASSUME NEW k \in 1..n, NEW es \in S PROVE Step(k, es) \in S
  <2>1. Entry(es, pool[k]) \in EntryRecords
    BY <1>1, EntryType
  <2> QED BY <2>1
<1>3. G \in [1..n -> [S -> S]] /\ <<>> \in S
  <2> HIDE DEF Step
  <2> QED BY <1>2
<1>4. PICK f \in [0..n -> S] : Follows(f, n, <<>>, G)
  <2> HIDE DEF S, G, n
  <2> QED BY <1>1, <1>3, Recursion
<1>5. F(f)
  <2>1. ASSUME NEW k \in 1..n PROVE f[k] = Step(k, f[k - 1])
    <3>1. k - 1 \in 0..n
      BY <1>1
    <3>2. f[k - 1] \in S
      BY <1>4, <3>1
    <3> HIDE DEF S, n, Step
    <3> QED BY <1>4, <3>2 DEF Follows
  <2>2. DOMAIN f = 0..n /\ f[0] = <<>>
    BY <1>4 DEF Follows
  <2>3. f = [k \in 0..n |-> f[k]]
    BY <1>4
  <2>4. ASSUME NEW k \in 0..n
        PROVE  f[k] = IF k = 0 THEN <<>> ELSE Step(k, f[k - 1])
    <3>1. CASE k = 0
      BY <2>2, <3>1
    <3>2. CASE k # 0
      <4>1. k \in 1..n
        BY <1>1, <3>2
      <4> HIDE DEF Step, n, S, G
      <4> QED BY <2>1, <3>2, <4>1
    <3> QED BY <3>1, <3>2
  <2> HIDE DEF S, G, n
  <2> QED BY <2>3, <2>4
<1> DEFINE u == CHOOSE g : F(g)
<1>6. F(u)
  <2> HIDE DEF F
  <2> QED BY <1>5
<1>7. Merged(pool) = u[n]
  BY DEF Merged
<1> HIDE DEF u
<1>8. /\ u[0] = <<>>
      /\ \A k \in 0..n : k < n => u[k + 1] = Step(k + 1, u[k])
  <2>1. \A k \in 0..n : u[k] = IF k = 0 THEN <<>> ELSE Step(k, u[k - 1])
    BY <1>6
  <2>2. 0 \in 0..n /\ \A k \in 0..n : k < n => k + 1 \in 0..n /\ k + 1 # 0 /\ (k + 1) - 1 = k
    BY <1>1
  <2> HIDE DEF Step, n
  <2>3. u[0] = <<>>
    BY <2>1, <2>2
  <2>4. \A k \in 0..n : k < n => u[k + 1] = Step(k + 1, u[k])
    BY <2>1, <2>2
  <2> QED BY <2>3, <2>4
<1> DEFINE W == {k \in 0..n : Built(pool, k, u[k])}
<1>9. 0 \in W
  <2>1. First(pool, 0) = {}
    BY DEF First
  <2>2. Built(pool, 0, <<>>)
    BY <2>1, FS_EmptySet DEF Built
  <2>3. Built(pool, 0, u[0])
    BY <1>8, <2>2, Zenon
  <2> QED BY <1>1, <2>3
<1>10. ASSUME NEW k \in 0..n, k \in W, k < n PROVE k + 1 \in W
  <2>1. k \in Nat /\ k + 1 \in DOMAIN pool /\ k + 1 \in 0..n
    BY <1>1, <1>10
  <2>2. Built(pool, k, u[k])
    BY <1>10
  <2>3. Built(pool, k + 1, Step(k + 1, u[k]))
    BY <2>1, <2>2, BuiltStep
  <2>4. u[k + 1] = Step(k + 1, u[k])
    <3> HIDE DEF Step
    <3> QED BY <1>8, <1>10
  <2> HIDE DEF Step
  <2> QED BY <2>1, <2>3, <2>4
<1>11. n \in W
  <2> HIDE DEF W
  <2>1. \A k \in 0..n : k \in W /\ k < n => k + 1 \in W
    BY <1>10
  <2>2. \A k \in 0..n : k \in W
    BY <1>1, <1>9, <2>1, Upward
  <2> QED BY <1>1, <2>2
<1> QED BY <1>7, <1>11

\* The places that opened their address are the winners of the reference.
LEMMA FirstAreWinners ==
    ASSUME TypeOK, NEW pool, Lists(pool, PlacesTo(N))
    PROVE  First(pool, Len(pool)) = Winners
<1>1. Len(pool) \in Nat /\ DOMAIN pool = 1..Len(pool) /\ PlacesTo(N) = {pool[i] : i \in DOMAIN pool}
  BY DEF Lists
<1>2. Competitors = {p \in PlacesTo(N) : Usable(p)}
  BY DEF Competitors, PlacesTo, Sources, Usable
<1>3. ASSUME NEW p \in PlacesTo(N) PROVE p[1] \in Int /\ p[2] \in Int
  BY PlaceTypes
<1>4. ASSUME NEW i \in DOMAIN pool, NEW j \in DOMAIN pool
      PROVE  Before(pool[i], pool[j]) <=> i < j
  <2>1. /\ pool[i] \in PlacesTo(N) /\ pool[j] \in PlacesTo(N)
        /\ i < j => Before(pool[i], pool[j])
        /\ j < i => Before(pool[j], pool[i])
    BY DEF Lists
  <2>2. /\ pool[i][1] \in Int /\ pool[i][2] \in Int
        /\ pool[j][1] \in Int /\ pool[j][2] \in Int
    BY <1>3, <2>1
  <2>3. i = j \/ i < j \/ j < i
    BY <1>1
  <2>4. i = j => ~Before(pool[i], pool[j])
    BY <2>2 DEF Before
  <2>5. Before(pool[j], pool[i]) => ~Before(pool[i], pool[j])
    BY <2>2 DEF Before
  <2>6. ~(i < j /\ j < i) /\ ~(i < j /\ i = j)
    BY <1>1
  <2> QED BY <2>1, <2>3, <2>4, <2>5, <2>6
<1>5. ASSUME NEW i \in DOMAIN pool, Usable(pool[i])
      PROVE  (\A l \in 1..(i - 1) : Usable(pool[l]) => KeyAt(pool[l]) # KeyAt(pool[i]))
               <=> pool[i] \in Winners
  <2>1. pool[i] \in Competitors
    BY <1>1, <1>2, <1>5
  <2>2. (\A l \in 1..(i - 1) : Usable(pool[l]) => KeyAt(pool[l]) # KeyAt(pool[i]))
          <=> \A l \in DOMAIN pool : Usable(pool[l]) /\ KeyAt(pool[l]) = KeyAt(pool[i]) => ~(l < i)
    BY <1>1
  <2>3. (\A l \in DOMAIN pool : Usable(pool[l]) /\ KeyAt(pool[l]) = KeyAt(pool[i]) => ~(l < i))
          <=> \A q \in Competitors : KeyAt(q) = KeyAt(pool[i]) => ~Before(q, pool[i])
    BY <1>1, <1>2, <1>4
  <2> QED BY <2>1, <2>2, <2>3 DEF Winners
<1>6. ASSUME NEW p \in Winners PROVE p \in First(pool, Len(pool))
  <2>1. PICK i \in DOMAIN pool : pool[i] = p /\ Usable(p)
    BY <1>1, <1>2 DEF Winners
  <2> QED BY <1>1, <1>5, <2>1 DEF First
<1>7. ASSUME NEW p \in First(pool, Len(pool)) PROVE p \in Winners
  <2>1. PICK i \in DOMAIN pool :
            /\ pool[i] = p /\ Usable(pool[i])
            /\ \A l \in 1..(i - 1) : Usable(pool[l]) => KeyAt(pool[l]) # KeyAt(pool[i])
    BY <1>1 DEF First
  <2> QED BY <1>5, <2>1
<1> QED BY <1>6, <1>7

\* What FirstWins says of a list of entries.
Right(es) ==
    /\ {<<e.source, e.node, e.ip>> : e \in {es[i] : i \in DOMAIN es}}
         = {<<p[1], At(p).node, At(p).ip>> : p \in Winners}
    /\ Len(es) = Cardinality(Winners)
    /\ Labels(es)

LEMMA MergeRight == ASSUME TypeOK PROVE Right(Merged(Pool))
<1> DEFINE es == Merged(Pool)
<1>1. Lists(Pool, PlacesTo(N))
  BY PoolLists
<1>2. Built(Pool, Len(Pool), es) /\ First(Pool, Len(Pool)) = Winners
  BY <1>1, MergedBuilt, FirstAreWinners
<1>3. Labels(es)
  BY <1>2, LabelsDiffer
<1> HIDE DEF es
<1> QED BY <1>2, <1>3 DEF Right, Built, Shown, es

\* Once merged, nothing a request did changes before the next cycle.
Finished ==
    phase = "merged" =>
        /\ \A s \in Sources : pc[s] \in {"delivered", "failed"}
        /\ spawned = N /\ Right(entries)

LEMMA FinishedStep == TypeOK /\ Finished /\ [Next]_vars => Finished'
<1> SUFFICES ASSUME TypeOK, Finished, [Next]_vars, phase' = "merged" PROVE Finished'
  BY DEF Finished
<1>1. ASSUME pc' = pc, judged' = judged, NEW CONSTANT es, Right(es) PROVE Right(es)'
  <2>1. \A p : At(p)' = At(p) /\ KeyAt(p)' = KeyAt(p)
    BY <1>1 DEF At, KeyAt
  <2>2. Competitors' = Competitors
    BY <1>1, <2>1 DEF Competitors
  <2>3. Winners' = Winners
    BY <2>1, <2>2 DEF Winners, Before
  <2> QED BY <1>1, <2>1, <2>3 DEF Right, Labels
<1>2. CASE Merge
  <2>1. pc' = pc /\ judged' = judged /\ spawned' = spawned /\ entries' = Merged(Pool)
    BY <1>2 DEF Merge, requestVars
  <2>2. Right(Merged(Pool))
    BY MergeRight
  <2>3. PICK es : es = Merged(Pool)
    OBVIOUS
  <2>4. Right(es)'
    BY <1>1, <2>1, <2>2, <2>3
  <2>5. Right(entries)'
    BY <2>1, <2>3, <2>4 DEF Right, Labels
  <2> QED BY <1>2, <2>1, <2>5 DEF Finished, Merge
<1>3. CASE phase = "merged" /\ UNCHANGED <<spawned, pc, judged, entries>>
  <2>1. PICK es : es = entries
    OBVIOUS
  <2>2. Right(es)'
    BY <1>1, <1>3, <2>1 DEF Finished
  <2>3. Right(entries)'
    BY <1>3, <2>1, <2>2 DEF Right, Labels
  <2> QED BY <1>3, <2>3 DEF Finished
<1>4. CASE Stopped \/ Cancel \/ Refresh \/ (\E h \in Names : EntryGoes(h)) \/ UNCHANGED vars
  BY <1>3, <1>4 DEF Stopped, Cancel, Refresh, EntryGoes, vars, requestVars
<1>5. CASE Spawn \/ NextCycle
  BY <1>5 DEF Spawn, NextCycle, Finished, TypeOK
<1>6. ASSUME NEW s \in Sources, Request(s) \/ Expire(s) PROVE FALSE
  <2>1. phase' = phase
    BY <1>6 DEF Request, Load, LoadFails, Judge, LookupAnswered, LookupFailed, Resolved, Deliver,
                Refuse, Expire
  <2>2. pc[s] \in {"load", "parse", "lookup"}
    BY <1>6 DEF Request, Load, LoadFails, Judge, LookupAnswered, LookupFailed, Deliver, Refuse,
                Expire, Running
  <2> QED BY <2>1, <2>2 DEF Finished
<1> QED BY <1>2, <1>4, <1>5, <1>6 DEF Next

-----------------------------------------------------------------------------
(* The theorems.                                                           *)

\* Whatever the sources, names, filters and interleavings, the state of the
\* requests and of the shared cache stays well-formed.
THEOREM TypeCorrect == Spec => []TypeOK
BY Invariance, PTL DEF IInv

\* A source FilterNodes returns without an error had every node of its body
\* judged once, in order.
THEOREM Whole == Spec => []DeliveredWhole
<1>1. IInv => DeliveredWhole
  BY DEF IInv, Sound, InOrder, DeliveredWhole
<1> QED BY <1>1, Invariance, PTL

\* The ended context of a request never makes another one drop a node, through
\* the cache of resolver.Resolver or otherwise.
THEOREM OwnVerdict == Spec => []NoForeignDrop
<1>1. IInv => NoForeignDrop
  BY DEF IInv, Sound, Honest, NoForeignDrop
<1> QED BY <1>1, Invariance, PTL

\* The country filter judges all nodes of a request by one version of the
\* databases, whatever is installed meanwhile.
THEOREM OneVersion == Spec => []OneVerdictPerAddress
<1>1. ASSUME IInv, NEW s \in Sources, NEW j \in DOMAIN judged[s], NEW k \in DOMAIN judged[s]
      PROVE  LET h == ServerOf[judged[s][j].node]
             IN ~( /\ h \notin Names /\ ServerOf[judged[s][k].node] = h
                   /\ judged[s][j].why = "kept" /\ judged[s][k].why = "geo"
                   /\ Literal[h] \notin AsnForeign )
  <2>1. Judges(judged[s][j], s) /\ Judges(judged[s][k], s)
    BY <1>1 DEF IInv, Sound, Consistent
  <2> QED BY <2>1 DEF Judges
<1>2. IInv => OneVerdictPerAddress
  BY <1>1 DEF OneVerdictPerAddress
<1> QED BY <1>2, Invariance, PTL

\* Whatever order the requests finished in, Merge returns exactly the first
\* usable node of every server:port in config order, each with the address it
\* was judged at and a label of its own.
THEOREM FirstOfConfig == Spec => []FirstWins
<1>1. Init => Finished
  BY DEF Init, Finished
<1>2. IInv /\ Finished /\ [Next]_vars => Finished'
  BY FinishedStep DEF IInv
<1>3. Finished => FirstWins
  BY DEF Finished, Right, Labels, FirstWins
<1> QED BY <1>1, <1>2, <1>3, Invariance, PTL DEF Spec

=============================================================================
