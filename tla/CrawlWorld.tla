----------------------------- MODULE CrawlWorld -----------------------------
(***************************************************************************)
(* What the two discovery phases of a crawl cycle share: the number of the *)
(* cycle, which stands for the time its records carry, the URLs found live *)
(* so far with the chat or repository each is credited to, and the bounds  *)
(* of the model.                                                           *)
(***************************************************************************)
EXTENDS Integers, FiniteSets, Sequences

CONSTANTS
    Urls,                \* subscription URLs, GitHub files included
    Origins,             \* chats and repositories
    None,                \* absent
    StateTTL,            \* cycles a memory lasts
    MaxCycles,           \* bound: cycles
    MaxFaults            \* bound: failed requests and saves, lost passes, kills

ASSUME WorldAssumption ==
    /\ IsFiniteSet(Urls) /\ IsFiniteSet(Origins)
    /\ None \notin Urls \cup Origins
    /\ {StateTTL, MaxCycles, MaxFaults} \subseteq Nat

VARIABLES
    cycle,      \* the current cycle, 0 before the first
    faults,     \* faults so far
    live        \* URL -> the origin it is credited to, or None

WorldOK == /\ cycle \in 0..MaxCycles
           /\ faults \in 0..MaxFaults
           /\ live \in [Urls -> Origins \cup {None}]

Fine  == UNCHANGED faults
Fault == faults < MaxFaults /\ faults' = faults + 1

Least(i, j) == IF i < j THEN i ELSE j

\* The members of S in a strict total order of them, a set of pairs.
Sorted(S, Order) ==
    [i \in 1..Cardinality(S) |->
        CHOOSE x \in S : Cardinality({y \in S : <<y, x>> \in Order}) = i - 1]

\* The places of a sequence of sequences, and the order they are read in.
Places(ss) == UNION {{<<i, k>> : k \in DOMAIN ss[i]} : i \in DOMAIN ss}
Reading(P) == {pq \in P \X P : \/ pq[1][1] < pq[2][1]
                               \/ pq[1][1] = pq[2][1] /\ pq[1][2] < pq[2][2]}

\* What of a memory was marked within the last StateTTL cycles.
Fresh(memory) == [k \in DOMAIN memory |-> IF memory[k] + StateTTL >= cycle THEN memory[k] ELSE 0]

\* At most cap of the members of a memory (key -> cycle last productive, 0 for
\* none), the most recent first, Rank breaking ties.
Recent(memory, Rank, cap) ==
    LET Before(a, b) == \/ memory[a] > memory[b]
                        \/ memory[a] = memory[b] /\ Rank[a] < Rank[b]
        kept == {k \in DOMAIN memory :
                    /\ memory[k] # 0
                    /\ Cardinality({j \in DOMAIN memory : memory[j] # 0 /\ Before(j, k)}) < cap}
    IN  [k \in DOMAIN memory |-> IF k \in kept THEN memory[k] ELSE 0]

=============================================================================
