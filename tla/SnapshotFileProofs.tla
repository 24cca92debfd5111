-------------------------- MODULE SnapshotFileProofs --------------------------
(***************************************************************************)
(* Proofs about SnapshotFile, for every set of lists: neither kills nor    *)
(* power losses tear the snapshot, and the writer keeps the promise of     *)
(* PublishedList.                                                          *)
(***************************************************************************)
EXTENDS SnapshotFile, TLAPS

\* A document that is whole and has reached the device.
Settled == [data : Lists, synced : {TRUE}]

(***************************************************************************)
(* The inductive invariant: what is named is settled, the temp file is as  *)
(* far as the program point says, and nothing is served that no worker     *)
(* stands behind.                                                          *)
(***************************************************************************)
IInv ==
    /\ TypeOK
    /\ {disk, durable} \subseteq Settled \cup {NoFile}
    /\ pc = "absent" => served = NoList
    /\ pc \notin {"absent", "idle"} => served \in Lists
    /\ pc = "write" => temp \in Files
    /\ pc = "sync" => temp \in Files /\ temp.data = served
    /\ pc = "rename" => temp \in Settled /\ temp.data = served

LEMMA SettledFiles == Settled \subseteq Files
BY DEF Settled, Files

\* LoadSnapshot of a settled file is its list.
LEMMA LoadType ==
    ASSUME NEW f \in Files \cup {NoFile}
    PROVE  LoadSnapshot(f) \in Lists \cup {NoList}
BY DEF LoadSnapshot, Files

LEMMA LoadSettled ==
    ASSUME NEW f \in Settled
    PROVE  LoadSnapshot(f) = f.data
BY NoFileAssumption, FilesAssumption, SettledFiles DEF LoadSnapshot, Settled

\* A settled file survives a power loss.
LEMMA SettledSurvives ==
    ASSUME NEW f \in Settled \cup {NoFile}
    PROVE  Survives(f) = f
BY DEF Survives, Settled

LEMMA SurvivesType ==
    ASSUME NEW f \in Files \cup {NoFile}
    PROVE  Survives(f) \in Files \cup {NoFile}
BY DEF Survives, Files

\* What a new process starts with, and from where.
LEMMA Restored ==
    ASSUME NEW enabled \in BOOLEAN, NEW f \in Files \cup {NoFile}
    PROVE  /\ FirstPoint(enabled) = "absent" => restoreStableList(enabled, f) = NoList
           /\ FirstPoint(enabled) \in {"absent", "idle"}
           /\ restoreStableList(enabled, f) \in Lists \cup {NoList}
           /\ restoreStableList(enabled, f)
                 = IF FirstPoint(enabled) # "absent" THEN LoadSnapshot(f) ELSE NoList
BY LoadType DEF FirstPoint, restoreStableList

LEMMA InitDisk == Init => disk \in Settled \cup {NoFile} /\ durable = disk
<1> SUFFICES ASSUME Init PROVE disk \in Settled \cup {NoFile}
  BY DEF Init
<1>1. PICK l \in Lists : disk \in {NoFile, [data |-> l, synced |-> TRUE]}
  BY DEF Init
<1>2. [data |-> l, synced |-> TRUE] \in Settled
  BY DEF Settled
<1>3. QED
  BY <1>1, <1>2

LEMMA InitInv == Init => IInv
<1> SUFFICES ASSUME Init PROVE IInv
  OBVIOUS
<1>1. disk \in Settled \cup {NoFile} /\ durable = disk
  BY InitDisk
<1>2. disk \in Files \cup {NoFile} /\ temp = NoFile
  BY <1>1, SettledFiles DEF Init
<1>3. PICK enabled \in BOOLEAN :
          served = restoreStableList(enabled, disk) /\ pc = FirstPoint(enabled)
  BY DEF Init
<1>4. /\ pc = "absent" => served = NoList
      /\ pc \in {"absent", "idle"}
      /\ served \in Lists \cup {NoList}
  BY <1>2, <1>3, Restored
<1>5. QED
  BY <1>1, <1>2, <1>4 DEF IInv, TypeOK

LEMMA NextInv == IInv /\ [Next]_vars => IInv'
<1> SUFFICES ASSUME IInv, [Next]_vars PROVE IInv'
  OBVIOUS
<1> USE DEF IInv, TypeOK
<1>1. CASE WorkerStarts \/ Publish
  BY <1>1 DEF WorkerStarts, Publish
<1>2. CASE OpenTemp
  BY <1>2 DEF OpenTemp, Files
<1>3. CASE WriteTemp
  <2>1. temp' \in Files /\ temp'.data = served
    BY <1>3 DEF WriteTemp, Files
  <2>2. QED
    BY <1>3, <2>1 DEF WriteTemp
<1>4. CASE SyncTemp
  <2>1. temp' \in Settled /\ temp'.data = served
    BY <1>4 DEF SyncTemp, Files, Settled
  <2>2. QED
    BY <1>4, <2>1, SettledFiles DEF SyncTemp
<1>5. CASE RenameTemp
  BY <1>5, SettledFiles DEF RenameTemp
<1>6. CASE StepFails \/ RemoveTemp
  BY <1>6 DEF StepFails, RemoveTemp
<1>7. CASE WriteBack
  BY <1>7 DEF WriteBack
<1>8. CASE ProcessRestarts
  <2>1. PICK enabled \in BOOLEAN :
            served' = restoreStableList(enabled, disk) /\ pc' = FirstPoint(enabled)
    BY <1>8 DEF ProcessRestarts
  <2>2. /\ pc' = "absent" => served' = NoList
        /\ pc' \in {"absent", "idle"}
        /\ served' \in Lists \cup {NoList}
    BY <2>1, Restored
  <2>3. QED
    BY <1>8, <2>2 DEF ProcessRestarts
<1>9. CASE HostRestarts
  <2>1. disk' = durable /\ durable' = durable
    BY <1>9, SettledSurvives DEF HostRestarts
  <2>2. PICK enabled \in BOOLEAN :
            served' = restoreStableList(enabled, disk') /\ pc' = FirstPoint(enabled)
    BY <1>9 DEF HostRestarts
  <2>3. /\ pc' = "absent" => served' = NoList
        /\ pc' \in {"absent", "idle"}
        /\ served' \in Lists \cup {NoList}
    BY <2>1, <2>2, Restored
  <2>4. temp' \in Files \cup {NoFile}
    BY <1>9, SurvivesType DEF HostRestarts
  <2>5. QED
    BY <2>1, <2>3, <2>4
<1>10. CASE UNCHANGED vars
  BY <1>10 DEF vars
<1>11. QED
  BY <1>1, <1>2, <1>3, <1>4, <1>5, <1>6, <1>7, <1>8, <1>9, <1>10 DEF Next, Save

\* The inductive invariant holds in every state SaveSnapshot can be stopped in.
THEOREM Invariance == Spec => []IInv
BY InitInv, NextInv, PTL DEF Spec

\* The served list, the files and the program point keep their types, whatever
\* fails or stops.
THEOREM TypeCorrect == Spec => []TypeOK
<1>1. IInv => TypeOK
  BY DEF IInv
<1>2. QED
  BY <1>1, Invariance, PTL

(***************************************************************************)
(* The file named by the snapshot path is always a whole, synced document, *)
(* for every interleaving of SaveSnapshot's system calls with kills, power *)
(* losses and write-backs.                                                 *)
(***************************************************************************)
THEOREM WholeOnDisk == Spec => []DiskIsWhole
<1>1. IInv => DiskIsWhole
  BY FilesAssumption DEF IInv, DiskIsWhole, Settled
<1>2. QED
  BY <1>1, Invariance, PTL

(***************************************************************************)
(* Every step of SaveSnapshot, LoadSnapshot and restoreStableList is a     *)
(* step of PublishedList or changes nothing a reader or a restart could    *)
(* see.  A process started without subscriptions restores nothing and      *)
(* serves nothing until a reload brought it a worker that published.       *)
(***************************************************************************)
THEOREM Implements == Spec => KeepsPromise
<1> USE DEF Promise!Init, Promise!Next, Promise!Publish, Promise!Save, Promise!Settle,
            Promise!Feed, Promise!ProcessRestarts, Promise!HostRestarts, Promise!vars
<1>1. Init => Promise!Init
  <2> SUFFICES ASSUME Init PROVE Promise!Init
    OBVIOUS
  <2>1. disk \in Files \cup {NoFile} /\ durable = disk
    BY InitDisk, SettledFiles
  <2>2. LoadSnapshot(disk) \in Lists \cup {NoList}
    BY <2>1, LoadType
  <2>3. PICK enabled \in BOOLEAN :
            served = restoreStableList(enabled, disk) /\ pc = FirstPoint(enabled)
    BY DEF Init
  <2>4. served = IF pc # "absent" THEN LoadSnapshot(disk) ELSE NoList
    BY <2>1, <2>3, Restored
  <2>5. QED
    BY <2>1, <2>2, <2>4
<1>2. IInv /\ [Next]_vars => [Promise!Next]_(Promise!vars)
  <2> SUFFICES ASSUME IInv, [Next]_vars PROVE [Promise!Next]_(Promise!vars)
    OBVIOUS
  <2>1. CASE WorkerStarts \/ Publish
    BY <2>1 DEF WorkerStarts, Publish
  <2>2. CASE OpenTemp \/ WriteTemp \/ SyncTemp \/ StepFails \/ RemoveTemp
    BY <2>2 DEF OpenTemp, WriteTemp, SyncTemp, StepFails, RemoveTemp
  <2>3. CASE RenameTemp
    <3>1. LoadSnapshot(disk') = served
      BY <2>3, LoadSettled DEF RenameTemp, IInv
    <3>2. served # NoList
      BY <2>3, FilesAssumption DEF RenameTemp, IInv
    <3>3. QED
      BY <2>3, <3>1, <3>2 DEF RenameTemp
  <2>4. CASE WriteBack
    BY <2>4 DEF WriteBack
  <2>5. CASE ProcessRestarts
    <3>1. PICK enabled \in BOOLEAN :
              served' = restoreStableList(enabled, disk) /\ pc' = FirstPoint(enabled)
      BY <2>5 DEF ProcessRestarts
    <3>2. served' = IF pc' # "absent" THEN LoadSnapshot(disk) ELSE NoList
      BY <3>1, Restored DEF IInv, TypeOK
    <3>3. QED
      BY <2>5, <3>2 DEF ProcessRestarts
  <2>6. CASE HostRestarts
    <3>1. disk' = durable /\ durable' = durable
      BY <2>6, SettledSurvives DEF HostRestarts, IInv
    <3>2. PICK enabled \in BOOLEAN :
              served' = restoreStableList(enabled, disk') /\ pc' = FirstPoint(enabled)
      BY <2>6 DEF HostRestarts
    <3>3. served' = IF pc' # "absent" THEN LoadSnapshot(durable) ELSE NoList
      BY <3>1, <3>2, Restored DEF IInv, TypeOK
    <3>4. QED
      BY <3>1, <3>3
  <2>7. CASE UNCHANGED vars
    BY <2>7 DEF vars
  <2>8. QED
    BY <2>1, <2>2, <2>3, <2>4, <2>5, <2>6, <2>7 DEF Next, Save
<1>3. QED
  BY <1>1, <1>2, Invariance, PTL DEF Spec, KeepsPromise, Promise!Spec
=============================================================================
