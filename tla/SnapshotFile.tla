----------------------------- MODULE SnapshotFile -----------------------------
(***************************************************************************)
(* How a published list reaches the disk and comes back after a restart:   *)
(* stable.Holder, stable.SaveSnapshot with its temp file, fsync and        *)
(* rename, stable.LoadSnapshot, and app.restoreStableList, which restores  *)
(* nothing for a process whose config has no subscriptions.  The process   *)
(* may be killed between any two system calls, and the host may lose       *)
(* power: a directory entry that was not written back then names the       *)
(* previous file, and a file that was not synced comes back with part of   *)
(* its content.  A snapshot path is configured.                            *)
(***************************************************************************)
CONSTANTS
    Lists,     \* payloads a cycle may publish; none of them is empty
    NoList,    \* the holder is empty: /stable.txt answers 503
    Partial,   \* a file that holds only part of a document
    NoFile     \* there is no file of that name

ASSUME FilesAssumption ==
    /\ NoList \notin Lists
    /\ Partial \notin Lists /\ Partial # NoList

\* A file is its content and whether that content has reached the device.
Files == [data : Lists \cup {Partial}, synced : BOOLEAN]

ASSUME NoFileAssumption == NoFile \notin Files

VARIABLES
    served,    \* stable.Holder
    pc,        \* program point of SaveSnapshot: "idle" between two calls,
               \* "absent" while the process has no worker to make one
    temp,      \* the file at path.tmp
    disk,      \* the file at path
    durable    \* the file at path, as the device has its directory entry

vars == <<served, pc, temp, disk, durable>>

TypeOK ==
    /\ served \in Lists \cup {NoList}
    /\ pc \in {"absent", "idle", "open", "write", "sync", "rename", "remove"}
    /\ {temp, disk, durable} \subseteq Files \cup {NoFile}

\* LoadSnapshot: a missing, unreadable or malformed file restores nothing.
LoadSnapshot(f) == IF f = NoFile \/ f.data = Partial THEN NoList ELSE f.data

\* Mutant of restoreStableList: the config is not asked.
RestoreAlways(enabled, f) == LoadSnapshot(f)

\* What the holder of a new process starts with; enabled is what
\* SubscriptionsEnabled says of the config it was started with.
restoreStableList(enabled, f) == IF enabled THEN LoadSnapshot(f) ELSE NoList

\* Apply starts a worker in the very configs a list is restored for.
FirstPoint(enabled) == IF enabled THEN "idle" ELSE "absent"

Init ==
    /\ \E l \in Lists : disk \in {NoFile, [data |-> l, synced |-> TRUE]}
    /\ durable = disk /\ temp = NoFile
    /\ \E enabled \in BOOLEAN :
          /\ served = restoreStableList(enabled, disk)
          /\ pc = FirstPoint(enabled)

-----------------------------------------------------------------------------
\* A reload brings the first sources, and Apply starts the worker: its holder
\* is the one the process has had from the start.
WorkerStarts ==
    /\ pc = "absent"
    /\ pc' = "idle"
    /\ UNCHANGED <<served, temp, disk, durable>>

\* Checker.publish: the new list is served first, and then persisted.
Publish ==
    /\ pc = "idle"
    /\ served' \in Lists
    /\ pc' = "open"
    /\ UNCHANGED <<temp, disk, durable>>

\* OpenFile with O_TRUNC: a temp file an earlier process left is emptied.
OpenTemp ==
    /\ pc = "open"
    /\ temp' = [data |-> Partial, synced |-> FALSE]
    /\ pc' = "write"
    /\ UNCHANGED <<served, disk, durable>>

WriteTemp ==
    /\ pc = "write"
    /\ temp' = [temp EXCEPT !.data = served]
    /\ pc' = "sync"
    /\ UNCHANGED <<served, disk, durable>>

\* Mutant of SyncTemp: the file is renamed without being synced.
SyncForgotten ==
    /\ pc = "sync"
    /\ pc' = "rename"
    /\ UNCHANGED <<served, temp, disk, durable>>

SyncTemp ==
    /\ pc = "sync"
    /\ temp' = [temp EXCEPT !.synced = TRUE]
    /\ pc' = "rename"
    /\ UNCHANGED <<served, disk, durable>>

RenameTemp ==
    /\ pc = "rename"
    /\ disk' = temp /\ temp' = NoFile
    /\ pc' = "idle"
    /\ UNCHANGED <<served, durable>>

\* Any of the calls fails; the caller only warns.  A document of which part
\* was written is closed and removed by the deferred call.
StepFails ==
    /\ pc \in {"open", "write", "sync", "rename"}
    /\ pc' = IF pc = "open" THEN "idle" ELSE "remove"
    /\ UNCHANGED <<served, temp, disk, durable>>

\* The removal is best effort.
RemoveTemp ==
    /\ pc = "remove"
    /\ temp' \in {temp, NoFile}
    /\ pc' = "idle"
    /\ UNCHANGED <<served, disk, durable>>

Save == OpenTemp \/ WriteTemp \/ SyncTemp \/ RenameTemp \/ StepFails \/ RemoveTemp

-----------------------------------------------------------------------------
\* The operating system writes the directory entry back in its own time.
WriteBack ==
    /\ durable # disk
    /\ durable' = disk
    /\ UNCHANGED <<served, pc, temp, disk>>

\* The process dies and is started again, perhaps with another config.
ProcessRestarts ==
    /\ \E enabled \in BOOLEAN :
          /\ served' = restoreStableList(enabled, disk)
          /\ pc' = FirstPoint(enabled)
    /\ UNCHANGED <<temp, disk, durable>>

\* What a power loss leaves of a file.
Survives(f) ==
    IF f # NoFile /\ ~f.synced THEN [data |-> Partial, synced |-> TRUE] ELSE f

HostRestarts ==
    /\ disk' = Survives(durable) /\ durable' = disk'
    /\ temp' \in {NoFile, Survives(temp)}
    /\ \E enabled \in BOOLEAN :
          /\ served' = restoreStableList(enabled, disk')
          /\ pc' = FirstPoint(enabled)

Next == WorkerStarts \/ Publish \/ Save \/ WriteBack \/ ProcessRestarts \/ HostRestarts

Spec == Init /\ [][Next]_vars

-----------------------------------------------------------------------------
(***************************************************************************)
(* A reader of the file, the next process included, finds a whole document *)
(* or none, wherever the writer was stopped and whatever the power loss    *)
(* took; a document that made it under the final name cannot be torn.      *)
(***************************************************************************)
DiskIsWhole == \A f \in {disk, durable} : f # NoFile => f.data # Partial /\ f.synced

\* The promise to the readers, the named file being what a restart finds.
Promise == INSTANCE PublishedList WITH
    fed   <- pc # "absent",
    list  <- served,
    saved <- LoadSnapshot(disk),
    safe  <- LoadSnapshot(durable)

(***************************************************************************)
(* SaveSnapshot, LoadSnapshot and restoreStableList, step by step and with *)
(* failures, kills, power losses and changes of the config in between,     *)
(* keep the promise of PublishedList: a reader sees whole lists only, a    *)
(* restart brings back the one last persisted, and a process without a     *)
(* worker never answers with a list nobody would ever replace.             *)
(***************************************************************************)
KeepsPromise == Promise!Spec
=============================================================================
