---------------------------- MODULE MCCrawlCycle ----------------------------
(* A small instance of CrawlCycle for TLC: b comes from a channel and c    *)
(* from a repository whose stem is the slug of that channel's post, so     *)
(* that their names share a stem; an operator would call c what the mint   *)
(* calls the first entry of that stem.  The service refuses to load x.     *)
EXTENDS CrawlCycle

CONSTANTS b, c, x, stem,
          MaxEvents   \* ticks, lists, edits (twice) and failures share a budget

MCStemOf == [u \in Urls |-> stem]
MCRank == [u \in Urls |-> IF u = b THEN 1 ELSE IF u = c THEN 2 ELSE 3]
MCHandName == [u \in Urls |-> IF u = b THEN <<stem, 2>> ELSE <<stem, 1>>]

\* The slip of the operator is studied in cycles without lists and failures.
Slipped == \E f \in {file, pf, next} : f[x] # None

Eventful ==
    /\ now + lists + 2 * edits + faults <= MaxEvents
    /\ Slipped => lists + faults = 0

\* A cycle reads the world when it loads, when it reloads, and the curated names
\* once more for the merge; the service reads what it wrote.  So it is enough to
\* let others move at these places: their steps commute with the other steps of
\* the cycle.
Others ==
    \/ pc = "idle" /\ (Tick \/ Operator \/ Publish)
    \/ pc = "reload" /\ Operator
    \/ pc = "merge" /\ \E u \in Urls : Curate(u)
    \/ pc = "write" /\ Publish

MCNext ==
    \/ Others
    \/ Load \/ Scan \/ Recheck \/ Withhold \/ WithholdNothing
    \/ MergeSame \/ MergeSmall \/ MergeConfirmed \/ MergeRefused
    \/ Write \/ WriteFails \/ Abandon

MCSpec == Init /\ [][MCNext]_vars
=============================================================================
