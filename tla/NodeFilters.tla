----------------------------- MODULE NodeFilters -----------------------------
(***************************************************************************)
(* One through-node gate over one batch of survivors: apiFilter.apply with *)
(* keepOutcomes, bandwidthFilter.apply, and the breaker they share with    *)
(* the TCP pre-check.  A gate is a record of two flags:                    *)
(*                                                                         *)
(*   strict    requireVerified (deepl): an inconclusive answer is a drop,  *)
(*             and the breaker suppresses the writes but not the drops;    *)
(*   persists  the gate has a store: a refused host is blocked for long.   *)
(*                                                                         *)
(* gemini, claude and chatgpt persist, deepl is strict and persists, tidal *)
(* and bandwidth do neither.  What a check found out about a node is one   *)
(* verdict; for the bandwidth gate "refused" is a download under the floor *)
(* and nothing is inconclusive.  Answers is the function from the batch to *)
(* its verdicts.                                                           *)
(***************************************************************************)
EXTENDS Naturals, FiniteSets

CONSTANTS
    BreakerMin,       \* precheckBreakerMin
    BreakerPercent    \* precheckBreakerPercent

ASSUME BreakerAssumption == BreakerMin \in Nat /\ BreakerPercent \in Nat

Gates == [strict : BOOLEAN, persists : BOOLEAN]

Verdicts == {"passed", "refused", "unreachable", "inconclusive"}

\* A verdict that condemns (nearly) the whole batch is about our egress or
\* the endpoint, not about the nodes.  Only a partial one needs a minimum.
BreakerTrips(failed, total) ==
    \/ failed = total /\ total > 0
    \/ total >= BreakerMin /\ failed * 100 >= total * BreakerPercent

Failed(gate, answers) ==
    {n \in DOMAIN answers :
        \/ answers[n] \in {"refused", "unreachable"}
        \/ gate.strict /\ answers[n] = "inconclusive"}

Tripped(gate, answers) ==
    BreakerTrips(Cardinality(Failed(gate, answers)), Cardinality(DOMAIN answers))

\* A lax gate believes neither a cancelled check nor a tripped one.
Kept(gate, answers, cancelled) ==
    IF ~gate.strict /\ (cancelled \/ Tripped(gate, answers))
    THEN DOMAIN answers
    ELSE DOMAIN answers \ Failed(gate, answers)

\* Mutant of ToBlock: the breaker spares the nodes but not the store.
ToBlockUntrusted(gate, answers) ==
    {n \in DOMAIN answers : gate.persists /\ answers[n] = "refused"}

\* The nodes whose host keepOutcomes records, if the cycle is still live.
ToBlock(gate, answers) ==
    {n \in DOMAIN answers :
        gate.persists /\ answers[n] = "refused" /\ ~Tripped(gate, answers)}
=============================================================================
