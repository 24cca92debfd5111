---------------------------- MODULE PublishedList ----------------------------
(***************************************************************************)
(* What the stable list promises its readers, without saying how it is     *)
(* produced.  /stable.txt answers with one whole list at a time, or with   *)
(* none before the first; and a list once served is only ever replaced by  *)
(* another.  A restart serves the list that was last persisted, which is   *)
(* always one that had been served -- unless no worker stands behind the   *)
(* list: a process started without subscriptions answers with nothing      *)
(* until a worker was started and has published, however much an earlier   *)
(* process left behind.  A host that loses power may fall back to the list *)
(* before the last one, never to part of a list.                           *)
(***************************************************************************)
CONSTANTS
    Lists,     \* the lists worth publishing: whole, and never empty
    NoList     \* nothing to serve

VARIABLES
    fed,       \* a worker stands behind the list
    list,      \* what a reader is answered with
    saved,     \* what a restarted process would find
    safe       \* what a restarted host would find

vars == <<fed, list, saved, safe>>

TypeOK == fed \in BOOLEAN /\ {list, saved, safe} \subseteq Lists \cup {NoList}

\* The service starts from whatever an earlier one left behind.
Init ==
    /\ saved \in Lists \cup {NoList} /\ safe = saved
    /\ fed \in BOOLEAN
    /\ list = IF fed THEN saved ELSE NoList

Publish ==
    /\ fed
    /\ list' \in Lists
    /\ UNCHANGED <<fed, saved, safe>>

\* Only a list that is being served is ever persisted.
Save ==
    /\ list # NoList
    /\ saved' = list
    /\ safe' \in {safe, list}
    /\ UNCHANGED <<fed, list>>

Settle ==
    /\ safe' = saved
    /\ UNCHANGED <<fed, list, saved>>

\* The worker comes late; nothing is restored for it.
Feed ==
    /\ ~fed /\ fed'
    /\ UNCHANGED <<list, saved, safe>>

ProcessRestarts ==
    /\ fed' \in BOOLEAN
    /\ list' = IF fed' THEN saved ELSE NoList
    /\ UNCHANGED <<saved, safe>>

HostRestarts ==
    /\ fed' \in BOOLEAN
    /\ list' = IF fed' THEN safe ELSE NoList
    /\ saved' = safe
    /\ UNCHANGED safe

Next == Publish \/ Save \/ Settle \/ Feed \/ ProcessRestarts \/ HostRestarts

Spec == Init /\ [][Next]_vars
=============================================================================
