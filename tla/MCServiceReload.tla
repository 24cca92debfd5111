--------------------------- MODULE MCServiceReload ---------------------------
(***************************************************************************)
(* Small instances of ServiceReload for TLC.  A behaviour is either of a   *)
(* service that stays up, with outages and with edits without bound among  *)
(* policies of one interval, or of one that may stop, with a bound on its  *)
(* edits and policies of two intervals.                                    *)
(***************************************************************************)
EXTENDS ServiceReload

CONSTANTS pa, pb, pk, ps, qa

\* pb has a longer interval than the others; pk is armed; ps has no sources.
MCIntervals == [p \in Policies |-> IF p = pb THEN 2 ELSE 1]

CONSTANT MaxEdits  \* bound: edits of the config file of a service that may stop

VARIABLES
    stays,   \* the service is not stopped
    edits    \* what the bound has left us with

\* bound: the policies an operator writes, of one interval or of two
Written == file = Malformed \/ file.policy # (IF stays THEN pb ELSE pa)

MCInit == Init /\ edits = 0 /\ stays \in {TRUE, ~CanStop} /\ Written

Edit ==
    /\ EditFile /\ Written' /\ (stays \/ edits < MaxEdits)
    /\ edits' = IF stays THEN edits ELSE edits + 1

WhileItStays == stays /\ (KeyFlips \/ FetchFlips)

OnceItStops == ~stays /\ Main

InBoth == Watcher \/ ClockTicks \/ Worker \/ Stopper \/ Exited

MCNext ==
    /\ stays' = stays
    /\ Edit \/ (UNCHANGED edits /\ (WhileItStays \/ OnceItStops \/ InBoth))

MCSpec == MCInit /\ [][MCNext]_<<vars, stays, edits>>

MCFairSpec == MCSpec /\ WatcherFairness /\ WorkerFairness
=============================================================================
