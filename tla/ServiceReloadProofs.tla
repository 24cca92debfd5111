------------------------- MODULE ServiceReloadProofs -------------------------
(***************************************************************************)
(* Proofs about ServiceReload, for every set of policies and processors    *)
(* and every bound: its type invariant, and the safety properties its runs *)
(* check on a small instance.  IInv is the inductive strengthening they    *)
(* all follow from.                                                        *)
(***************************************************************************)
EXTENDS ServiceReload, TLAPS

(***************************************************************************)
(* A checker, and a worker goroutine, always have a real spec to read: no  *)
(* step ever takes the spec back to none.                                  *)
(***************************************************************************)
SpecBuilt ==
    /\ checker => spec \in Specs
    /\ wpc # "none" => spec \in Specs

(***************************************************************************)
(* What the watcher goroutine may rely on in the middle of a reload.  The  *)
(* holder carries the processor of the config being applied until Apply    *)
(* has read it back, and between the store of a spec and the poke that     *)
(* announces it the spec is exactly the new pair.                          *)
(***************************************************************************)
ReloadInProgress ==
    /\ rpc \in {"publish", "poke"} => holder = newCfg
    /\ rpc = "poke" => spec = [policy |-> newCfg.policy, filterer |-> newCfg]

(***************************************************************************)
(* The reloader's two records against the live spec: currentCfg names the  *)
(* policy in force, and when both records agree they name the processor as *)
(* well.                                                                   *)
(***************************************************************************)
RecordsMatchSpec ==
    checker /\ rpc # "poke" =>
        /\ spec.policy = currentCfg.policy
        /\ currentCfg = currentProcCfg => spec.filterer = currentCfg

(***************************************************************************)
(* The order of the deferred joins, as far as none of them timed out.      *)
(***************************************************************************)
JoinsInOrder ==
    /\ mpc \notin {"serve", "joinWatcher"} /\ "watcher" \notin abandoned => rpc = "down"
    /\ spc # "none" => mpc \notin {"serve", "joinWatcher", "stopController"}
    /\ spc = "returned" /\ "watcher" \notin abandoned => ~checker
    /\ mpc \in {"closeStore", "closed", "exited"} /\ "worker" \notin abandoned
           => spc = "returned"

\* A worker goroutine that is still alive is the one the controller knows.
LiveIsKnown == Live => checker

IInv ==
    /\ TypeOK
    /\ SpecBuilt
    /\ ReloadInProgress
    /\ RecordsMatchSpec
    /\ CycleReadsOneGeneration
    /\ RefusedNeverRuns
    /\ IntervalNotMissed
    /\ JoinsInOrder
    /\ LiveIsKnown

\* The variables of each group stay what they are.
USE DEF fileVars, reloaderVars, specVars, tickerVars, workerVars, mainVars

-----------------------------------------------------------------------------
(***************************************************************************)
(* Frames: which actions write which group of variables.  Each step below  *)
(* then looks at these actions only.                                       *)
(***************************************************************************)
LEMMA FileFrame ==
    [Next]_vars =>
           EditFile \/ KeyFlips \/ FetchFlips \/ LoadRejected \/ LoadChanged
        \/ UNCHANGED fileVars
BY DEF Next, Environment, Watcher, Worker, Main, Stopper, EditFile, KeyFlips, FetchFlips,
       LoadRejected, LoadChanged, BuildFails, BuildProcessor, PublishProcessor,
       ApplyRefused, ApplyFails, ApplyReconfigures, PokeWorker, ApplyStarts,
       WatcherReturns, ClockTicks, BeginCycle, EndCycle, RereadInterval, Arm, TakePoke,
       WorkerReturns, ServeEnds, LateSignal, WatcherJoined, WatcherTimesOut,
       StopSpawned, WorkerJoined, WorkerTimesOut, CloseStore, ProcessExits,
       StopCancels, StopReturns, Exited, vars, Commit, UseProcessor

LEMMA ReloaderFrame ==
    [Next]_vars =>
           LoadChanged \/ BuildFails \/ BuildProcessor \/ PublishProcessor
        \/ ApplyRefused \/ ApplyFails \/ ApplyReconfigures \/ PokeWorker
        \/ ApplyStarts \/ WatcherReturns
        \/ UNCHANGED <<reloaderVars, applyFailed>>
BY DEF Next, Environment, Watcher, Worker, Main, Stopper, EditFile, KeyFlips, FetchFlips,
       LoadRejected, LoadChanged, BuildFails, BuildProcessor, PublishProcessor,
       ApplyRefused, ApplyFails, ApplyReconfigures, PokeWorker, ApplyStarts,
       WatcherReturns, ClockTicks, BeginCycle, EndCycle, RereadInterval, Arm, TakePoke,
       WorkerReturns, ServeEnds, LateSignal, WatcherJoined, WatcherTimesOut,
       StopSpawned, WorkerJoined, WorkerTimesOut, CloseStore, ProcessExits,
       StopCancels, StopReturns, Exited, vars, Commit, UseProcessor

LEMMA SpecFrame ==
    [Next]_vars =>
           PublishProcessor \/ ApplyFails \/ ApplyReconfigures \/ PokeWorker
        \/ ApplyStarts \/ TakePoke \/ StopReturns
        \/ UNCHANGED specVars
BY DEF Next, Environment, Watcher, Worker, Main, Stopper, EditFile, KeyFlips, FetchFlips,
       LoadRejected, LoadChanged, BuildFails, BuildProcessor, PublishProcessor,
       ApplyRefused, ApplyFails, ApplyReconfigures, PokeWorker, ApplyStarts,
       WatcherReturns, ClockTicks, BeginCycle, EndCycle, RereadInterval, Arm, TakePoke,
       WorkerReturns, ServeEnds, LateSignal, WatcherJoined, WatcherTimesOut,
       StopSpawned, WorkerJoined, WorkerTimesOut, CloseStore, ProcessExits,
       StopCancels, StopReturns, Exited, vars, Commit, UseProcessor

LEMMA WorkerFrame ==
    [Next]_vars =>
           ApplyStarts \/ ClockTicks \/ BeginCycle \/ EndCycle
        \/ RereadInterval \/ TakePoke \/ WorkerReturns
        \/ UNCHANGED workerVars
BY DEF Next, Environment, Watcher, Worker, Main, Stopper, EditFile, KeyFlips, FetchFlips,
       LoadRejected, LoadChanged, BuildFails, BuildProcessor, PublishProcessor,
       ApplyRefused, ApplyFails, ApplyReconfigures, PokeWorker, ApplyStarts,
       WatcherReturns, ClockTicks, BeginCycle, EndCycle, RereadInterval, Arm, TakePoke,
       WorkerReturns, ServeEnds, LateSignal, WatcherJoined, WatcherTimesOut,
       StopSpawned, WorkerJoined, WorkerTimesOut, CloseStore, ProcessExits,
       StopCancels, StopReturns, Exited, vars, Commit, UseProcessor

LEMMA MainFrame ==
    [Next]_vars =>
           ApplyStarts \/ ServeEnds \/ LateSignal \/ WatcherJoined \/ WatcherTimesOut
        \/ StopSpawned \/ WorkerJoined \/ WorkerTimesOut \/ CloseStore
        \/ ProcessExits \/ StopCancels \/ StopReturns
        \/ UNCHANGED mainVars
BY DEF Next, Environment, Watcher, Worker, Main, Stopper, EditFile, KeyFlips, FetchFlips,
       LoadRejected, LoadChanged, BuildFails, BuildProcessor, PublishProcessor,
       ApplyRefused, ApplyFails, ApplyReconfigures, PokeWorker, ApplyStarts,
       WatcherReturns, ClockTicks, BeginCycle, EndCycle, RereadInterval, Arm, TakePoke,
       WorkerReturns, ServeEnds, LateSignal, WatcherJoined, WatcherTimesOut,
       StopSpawned, WorkerJoined, WorkerTimesOut, CloseStore, ProcessExits,
       StopCancels, StopReturns, Exited, vars, Commit, UseProcessor

-----------------------------------------------------------------------------
(***************************************************************************)
(* Types, one group of variables at a time.                                *)
(***************************************************************************)
LEMMA FileStep == FileTypes /\ [Next]_vars => FileTypes'
<1> SUFFICES ASSUME FileTypes, [Next]_vars PROVE FileTypes'
  OBVIOUS
<1> USE DEF FileTypes
<1>1. CASE EditFile
  BY <1>1, ConstantsAssumption DEF EditFile
<1>2. CASE KeyFlips
  BY <1>2, ConstantsAssumption DEF KeyFlips
<1>3. CASE FetchFlips
  BY <1>3, ConstantsAssumption DEF FetchFlips
<1>4. CASE LoadRejected
  BY <1>4 DEF LoadRejected
<1>5. CASE LoadChanged
  BY <1>5 DEF LoadChanged
<1>6. CASE UNCHANGED fileVars
  BY <1>6
<1>7. QED
  BY <1>1, <1>2, <1>3, <1>4, <1>5, <1>6, FileFrame

LEMMA ReloaderStep == FileTypes /\ ReloaderTypes /\ [Next]_vars => ReloaderTypes'
<1> SUFFICES ASSUME FileTypes, ReloaderTypes, [Next]_vars PROVE ReloaderTypes'
  OBVIOUS
<1> USE DEF FileTypes, ReloaderTypes
<1>1. CASE LoadChanged
  BY <1>1 DEF LoadChanged
<1>2. CASE BuildFails
  BY <1>2 DEF BuildFails
<1>3. CASE BuildProcessor
  BY <1>3 DEF BuildProcessor
<1>4. CASE PublishProcessor
  BY <1>4 DEF PublishProcessor, Commit
<1>5. CASE ApplyRefused
  BY <1>5 DEF ApplyRefused, Commit
<1>6. CASE ApplyFails
  BY <1>6 DEF ApplyFails, Commit
<1>7. CASE ApplyReconfigures
  BY <1>7 DEF ApplyReconfigures
<1>8. CASE PokeWorker
  BY <1>8 DEF PokeWorker, Commit
<1>9. CASE ApplyStarts
  BY <1>9 DEF ApplyStarts, Commit
<1>10. CASE WatcherReturns
  BY <1>10 DEF WatcherReturns
<1>11. CASE UNCHANGED <<reloaderVars, applyFailed>>
  BY <1>11
<1>12. QED
  BY <1>1, <1>2, <1>3, <1>4, <1>5, <1>6, <1>7, <1>8, <1>9, <1>10, <1>11,
     ReloaderFrame

LEMMA SpecStep == ReloaderTypes /\ SpecTypes /\ SpecBuilt /\ [Next]_vars => SpecTypes'
<1> SUFFICES ASSUME ReloaderTypes, SpecTypes, SpecBuilt, [Next]_vars PROVE SpecTypes'
  OBVIOUS
<1> USE DEF ReloaderTypes, SpecTypes, Specs
<1>1. CASE PublishProcessor
  BY <1>1 DEF PublishProcessor, UseProcessor, SpecBuilt
<1>2. CASE ApplyFails
  BY <1>2 DEF ApplyFails, UseProcessor, SpecBuilt
<1>3. CASE ApplyReconfigures
  BY <1>3 DEF ApplyReconfigures, ApplyOK, Configs
<1>4. CASE PokeWorker
  BY <1>4 DEF PokeWorker
<1>5. CASE ApplyStarts
  BY <1>5 DEF ApplyStarts, ApplyOK, Configs
<1>6. CASE TakePoke
  BY <1>6 DEF TakePoke
<1>7. CASE StopReturns
  BY <1>7 DEF StopReturns
<1>8. CASE UNCHANGED specVars
  BY <1>8
<1>9. QED
  BY <1>1, <1>2, <1>3, <1>4, <1>5, <1>6, <1>7, <1>8, SpecFrame

LEMMA SpecBuiltStep ==
    ReloaderTypes /\ SpecTypes /\ SpecBuilt /\ [Next]_vars => SpecBuilt'
<1> SUFFICES ASSUME ReloaderTypes, SpecTypes, SpecBuilt, [Next]_vars PROVE SpecBuilt'
  OBVIOUS
<1>1. CASE ApplyStarts
  BY <1>1 DEF ApplyStarts, ApplyOK, ReloaderTypes, Specs, Configs, SpecBuilt
<1>2. CASE ~ApplyStarts
  <2>1. spec \in Specs => spec' \in Specs
    <3>1. CASE PublishProcessor \/ ApplyFails
      BY <3>1 DEF PublishProcessor, ApplyFails, UseProcessor, ReloaderTypes, Specs
    <3>2. CASE ApplyReconfigures
      BY <3>2 DEF ApplyReconfigures, ReloaderTypes, Specs, Configs
    <3>3. QED
      BY <1>2, <3>1, <3>2, SpecFrame DEF PokeWorker, TakePoke, StopReturns
  <2>2. checker' => checker
    BY <1>2, SpecFrame
    DEF PublishProcessor, ApplyFails, UseProcessor, ApplyReconfigures, PokeWorker,
        TakePoke, StopReturns
  <2>3. wpc' # "none" => wpc # "none"
    BY <1>2, WorkerFrame
    DEF ClockTicks, BeginCycle, EndCycle, RereadInterval, TakePoke, WorkerReturns
  <2>4. QED
    BY <2>1, <2>2, <2>3 DEF SpecBuilt
<1>3. QED
  BY <1>1, <1>2

LEMMA WorkerStep ==
    ReloaderTypes /\ SpecBuilt /\ WorkerTypes /\ [Next]_vars => WorkerTypes'
<1> SUFFICES ASSUME ReloaderTypes, SpecBuilt, WorkerTypes, [Next]_vars PROVE WorkerTypes'
  OBVIOUS
<1> USE DEF WorkerTypes
<1>1. CASE ApplyStarts
  <2>1. 0 \in 0..ticking
    BY ConstantsAssumption
  <2>2. left' \in 0..ticking' /\ UNCHANGED <<ticking, cycle>> /\ wpc' = "start"
    BY <1>1, <2>1 DEF ApplyStarts
  <2>3. fired' \in BOOLEAN
    BY <1>1 DEF ApplyStarts
  <2>4. QED
    BY <2>2, <2>3
<1>2. CASE ClockTicks
  <2>1. ticking \in Nat
    BY ConstantsAssumption
  <2>2. left' \in 0..ticking /\ fired' \in BOOLEAN
    BY <1>2, <2>1 DEF ClockTicks
  <2>3. QED
    BY <1>2, <2>2 DEF ClockTicks
<1>3. CASE BeginCycle
  BY <1>3 DEF BeginCycle, SpecBuilt
<1>4. CASE EndCycle
  BY <1>4 DEF EndCycle
<1>5. CASE RereadInterval
  <2>1. spec.policy \in Policies
    BY <1>5 DEF RereadInterval, SpecBuilt, Specs
  <2>2. IntervalOf[spec.policy] \in Nat
    BY <2>1, ConstantsAssumption
  <2>3. CASE Arm(IntervalOf[spec.policy])
    <3>1. ticking' \in {IntervalOf[p] : p \in Policies} /\ left' \in 0..ticking'
      BY <2>1, <2>2, <2>3 DEF Arm
    <3>2. fired' \in BOOLEAN
      BY <2>3 DEF Arm
    <3>3. UNCHANGED <<cycle>> /\ wpc' = "select"
      BY <1>5 DEF RereadInterval
    <3>4. QED
      BY <3>1, <3>2, <3>3
  <2>4. CASE UNCHANGED tickerVars
    BY <1>5, <2>4 DEF RereadInterval
  <2>5. QED
    BY <1>5, <2>3, <2>4 DEF RereadInterval
<1>6. CASE TakePoke
  BY <1>6 DEF TakePoke
<1>7. CASE WorkerReturns
  <2>1. 0 \in 0..ticking
    BY ConstantsAssumption
  <2>2. left' \in 0..ticking' /\ UNCHANGED <<ticking, cycle>> /\ wpc' = "done"
    BY <1>7, <2>1 DEF WorkerReturns
  <2>3. fired' \in BOOLEAN
    BY <1>7 DEF WorkerReturns
  <2>4. QED
    BY <2>2, <2>3
<1>8. CASE UNCHANGED workerVars
  BY <1>8
<1>9. QED
  BY <1>1, <1>2, <1>3, <1>4, <1>5, <1>6, <1>7, <1>8, WorkerFrame

LEMMA MainStep ==
    SpecTypes /\ MainTypes /\ [Next]_vars => MainTypes'
<1> SUFFICES ASSUME SpecTypes, MainTypes, [Next]_vars PROVE MainTypes'
  OBVIOUS
<1> USE DEF MainTypes
<1>1. CASE ApplyStarts
  BY <1>1 DEF ApplyStarts
<1>2. CASE ServeEnds \/ LateSignal
  BY <1>2 DEF ServeEnds, LateSignal
<1>3. CASE WatcherJoined
  BY <1>3 DEF WatcherJoined
<1>4. CASE WatcherTimesOut
  BY <1>4 DEF WatcherTimesOut
<1>5. CASE StopSpawned
  BY <1>5 DEF StopSpawned
<1>6. CASE WorkerJoined
  BY <1>6 DEF WorkerJoined
<1>7. CASE WorkerTimesOut
  BY <1>7 DEF WorkerTimesOut
<1>8. CASE CloseStore
  BY <1>8 DEF CloseStore
<1>9. CASE ProcessExits
  BY <1>9 DEF ProcessExits
<1>10. CASE StopCancels
  BY <1>10 DEF StopCancels, SpecTypes
<1>11. CASE StopReturns
  BY <1>11 DEF StopReturns
<1>12. CASE UNCHANGED mainVars
  BY <1>12
<1>13. QED
  BY <1>1, <1>2, <1>3, <1>4, <1>5, <1>6, <1>7, <1>8, <1>9, <1>10, <1>11, <1>12,
     MainFrame

LEMMA TypeStep == TypeOK /\ SpecBuilt /\ [Next]_vars => TypeOK' /\ SpecBuilt'
BY FileStep, ReloaderStep, SpecStep, SpecBuiltStep, WorkerStep, MainStep DEF TypeOK

-----------------------------------------------------------------------------
(***************************************************************************)
(* The inductive step of each conjunct of IInv.                            *)
(***************************************************************************)
LEMMA ReloadInProgressStep ==
    ReloadInProgress /\ [Next]_vars => ReloadInProgress'
<1> SUFFICES ASSUME ReloadInProgress, [Next]_vars PROVE ReloadInProgress'
  OBVIOUS
<1> USE DEF ReloadInProgress
<1>1. CASE LoadChanged
  BY <1>1 DEF LoadChanged
<1>2. CASE BuildFails
  BY <1>2 DEF BuildFails
<1>3. CASE BuildProcessor
  BY <1>3 DEF BuildProcessor
<1>4. CASE PublishProcessor
  BY <1>4 DEF PublishProcessor, Commit
<1>5. CASE ApplyRefused
  BY <1>5 DEF ApplyRefused, Commit
<1>6. CASE ApplyFails
  BY <1>6 DEF ApplyFails, Commit
<1>7. CASE ApplyReconfigures
  BY <1>7 DEF ApplyReconfigures, ApplyOK
<1>8. CASE PokeWorker
  BY <1>8 DEF PokeWorker, Commit
<1>9. CASE ApplyStarts
  BY <1>9 DEF ApplyStarts, Commit
<1>10. CASE WatcherReturns
  BY <1>10 DEF WatcherReturns
<1>11. CASE UNCHANGED <<reloaderVars, applyFailed>>
  <2>1. rpc = "poke" => UNCHANGED spec
    BY <1>11, SpecFrame
    DEF PublishProcessor, ApplyFails, ApplyReconfigures, ApplyOK, PokeWorker, ApplyStarts,
        TakePoke, StopReturns
  <2>2. QED
    BY <1>11, <2>1
<1>12. QED
  BY <1>1, <1>2, <1>3, <1>4, <1>5, <1>6, <1>7, <1>8, <1>9, <1>10, <1>11, ReloaderFrame

LEMMA RecordsMatchSpecStep ==
    /\ TypeOK /\ SpecBuilt /\ ReloadInProgress /\ RecordsMatchSpec
    /\ [Next]_vars
    => RecordsMatchSpec'
<1> SUFFICES ASSUME TypeOK, SpecBuilt, ReloadInProgress, RecordsMatchSpec, [Next]_vars
             PROVE  RecordsMatchSpec'
  OBVIOUS
<1> USE DEF RecordsMatchSpec
<1>1. CASE PublishProcessor
  BY <1>1 DEF PublishProcessor, UseProcessor, Commit, SubsAffected, SpecBuilt, Specs
<1>2. CASE ApplyRefused
  BY <1>2 DEF ApplyRefused, Commit, SubsAffected
<1>3. CASE ApplyFails
  BY <1>3 DEF ApplyFails, UseProcessor, Commit, SubsAffected, SpecBuilt, Specs
<1>4. CASE ApplyReconfigures
  BY <1>4 DEF ApplyReconfigures
<1>5. CASE PokeWorker
  BY <1>5 DEF PokeWorker, Commit, ReloadInProgress
<1>6. CASE ApplyStarts
  BY <1>6 DEF ApplyStarts, ApplyOK, Commit, ReloadInProgress
<1>7. CASE LoadChanged \/ BuildFails \/ BuildProcessor \/ WatcherReturns
  BY <1>7 DEF LoadChanged, BuildFails, BuildProcessor, WatcherReturns
<1>8. CASE UNCHANGED <<reloaderVars, applyFailed>>
  <2>1. CASE UNCHANGED specVars
    BY <1>8, <2>1
  <2>2. CASE TakePoke \/ StopReturns
    BY <1>8, <2>2 DEF TakePoke, StopReturns
  <2>3. QED
    BY <2>1, <2>2, <1>1, <1>3, <1>4, <1>5, <1>6, SpecFrame
<1>9. QED
  BY <1>1, <1>2, <1>3, <1>4, <1>5, <1>6, <1>7, <1>8, ReloaderFrame

\* A cycle loads the spec that is published when it begins, and no other.
LEMMA CycleReadsSpec == [Next]_vars => cycle' \in {cycle, spec}
<1> SUFFICES ASSUME [Next]_vars PROVE cycle' \in {cycle, spec}
  OBVIOUS
<1>1. CASE BeginCycle
  BY <1>1 DEF BeginCycle
<1>2. CASE ~BeginCycle
  BY <1>2, WorkerFrame
  DEF ApplyStarts, ClockTicks, EndCycle, RereadInterval, TakePoke, WorkerReturns
<1>3. QED
  BY <1>1, <1>2

(***************************************************************************)
(* A spec the controller holds, or a cycle has loaded, was published       *)
(* either as a pair by Apply, or by UseProcessor onto a live policy.       *)
(***************************************************************************)
LEMMA GenerationStep ==
    /\ TypeOK /\ SpecBuilt /\ ReloadInProgress /\ RecordsMatchSpec
    /\ CycleReadsOneGeneration /\ [Next]_vars
    => CycleReadsOneGeneration'
<1> SUFFICES ASSUME TypeOK, SpecBuilt, ReloadInProgress, RecordsMatchSpec,
                    CycleReadsOneGeneration, [Next]_vars
             PROVE  CycleReadsOneGeneration'
  OBVIOUS
<1> DEFINE Fine(s) == s # NoSpec => s.policy = s.filterer.policy \/ s.filterer \in applyFailed
<1>1. Fine(spec) /\ Fine(cycle)
  BY DEF CycleReadsOneGeneration, Published, Coherent
<1>2. applyFailed \subseteq applyFailed'
  BY ReloaderFrame
  DEF LoadChanged, BuildFails, BuildProcessor, PublishProcessor, ApplyRefused, ApplyFails,
      ApplyReconfigures, PokeWorker, ApplyStarts, WatcherReturns
<1>3. Fine(spec)'
  <2>1. CASE PublishProcessor
    <3>1. CASE checker
      BY <2>1, <3>1
      DEF PublishProcessor, UseProcessor, SubsAffected, RecordsMatchSpec, SpecBuilt, Specs
    <3>2. CASE ~checker
      BY <2>1, <3>2, <1>1 DEF PublishProcessor, UseProcessor
    <3>3. QED
      BY <3>1, <3>2
  <2>2. CASE ApplyFails
    <3>1. CASE checker
      BY <2>2, <3>1 DEF ApplyFails, UseProcessor, SpecBuilt, Specs
    <3>2. CASE ~checker
      BY <2>2, <3>2, <1>1, <1>2 DEF ApplyFails, UseProcessor
    <3>3. QED
      BY <3>1, <3>2
  <2>3. CASE ApplyReconfigures \/ ApplyStarts
    <3>1. spec' = [policy |-> newCfg.policy, filterer |-> newCfg]
      BY <2>3 DEF ApplyReconfigures, ApplyStarts, ApplyOK, ReloadInProgress
    <3>2. QED
      BY <3>1
  <2>4. CASE UNCHANGED spec
    BY <2>4, <1>1, <1>2
  <2>5. QED
    BY <2>1, <2>2, <2>3, <2>4, SpecFrame DEF PokeWorker, TakePoke, StopReturns
<1>4. Fine(cycle)'
  BY <1>1, <1>2, CycleReadsSpec
<1>5. QED
  BY <1>3, <1>4 DEF CycleReadsOneGeneration, Published, Coherent

LEMMA RefusedStep ==
    /\ TypeOK /\ SpecBuilt /\ ReloadInProgress /\ RecordsMatchSpec
    /\ RefusedNeverRuns /\ [Next]_vars
    => RefusedNeverRuns'
<1> SUFFICES ASSUME TypeOK, SpecBuilt, ReloadInProgress, RecordsMatchSpec,
                    RefusedNeverRuns, [Next]_vars
             PROVE  RefusedNeverRuns'
  OBVIOUS
<1> DEFINE Fine(s) == s # NoSpec => /\ s.policy \notin Sourceless
                                   /\ s.filterer.policy \notin Sourceless
<1>1. Fine(spec) /\ Fine(cycle)
  BY DEF RefusedNeverRuns, Published, Enabled
<1>2. checker => spec # NoSpec
  BY ConstantsAssumption DEF SpecBuilt, Specs
<1>3. Fine(spec)'
  <2>1. CASE PublishProcessor
    <3>1. CASE checker
      BY <2>1, <3>1, <1>1, <1>2
      DEF PublishProcessor, UseProcessor, SubsAffected, RecordsMatchSpec, SpecBuilt, Specs
    <3>2. CASE ~checker
      BY <2>1, <3>2, <1>1 DEF PublishProcessor, UseProcessor
    <3>3. QED
      BY <3>1, <3>2
  <2>2. CASE ApplyFails
    <3>1. CASE checker
      BY <2>2, <3>1, <1>1, <1>2 DEF ApplyFails, UseProcessor, SpecBuilt, Specs, Enabled
    <3>2. CASE ~checker
      BY <2>2, <3>2, <1>1 DEF ApplyFails, UseProcessor
    <3>3. QED
      BY <3>1, <3>2
  <2>3. CASE ApplyReconfigures \/ ApplyStarts
    <3>1. /\ spec' = [policy |-> newCfg.policy, filterer |-> newCfg]
          /\ newCfg.policy \notin Sourceless
      BY <2>3
      DEF ApplyReconfigures, ApplyStarts, ApplyOK, ReloadInProgress, Enabled
    <3>2. QED
      BY <3>1
  <2>4. CASE UNCHANGED spec
    BY <2>4, <1>1
  <2>5. QED
    BY <2>1, <2>2, <2>3, <2>4, SpecFrame DEF PokeWorker, TakePoke, StopReturns
<1>4. Fine(cycle)'
  BY <1>1, CycleReadsSpec
<1>5. QED
  BY <1>3, <1>4 DEF RefusedNeverRuns, Published, Enabled

(***************************************************************************)
(* The policy of the spec changes only in the step that makes the reload   *)
(* owe a poke, or in the one that starts a worker which has not yet read   *)
(* its interval.                                                           *)
(***************************************************************************)
LEMMA IntervalStep ==
    TypeOK /\ SpecBuilt /\ IntervalNotMissed /\ [Next]_vars => IntervalNotMissed'
<1> SUFFICES ASSUME TypeOK, SpecBuilt, IntervalNotMissed, [Next]_vars,
                    wpc' = "select", ~poke', rpc' # "poke"
             PROVE  ticking' = IntervalOf[spec'.policy]
  BY DEF IntervalNotMissed
<1>1. CASE RereadInterval
  BY <1>1 DEF RereadInterval, Arm
<1>2. CASE ~RereadInterval
  <2>1. wpc = "select" /\ UNCHANGED ticking
    BY <1>2, WorkerFrame
    DEF ApplyStarts, ClockTicks, BeginCycle, EndCycle, TakePoke, WorkerReturns
  <2>2. CASE PublishProcessor \/ ApplyFails
    <3>1. spec'.policy = spec.policy
      <4>1. CASE checker
        BY <2>2, <4>1 DEF PublishProcessor, ApplyFails, UseProcessor, SpecBuilt, Specs
      <4>2. CASE ~checker
        BY <2>2, <4>2 DEF PublishProcessor, ApplyFails, UseProcessor
      <4>3. QED
        BY <4>1, <4>2
    <3>2. UNCHANGED poke
      BY <2>2 DEF PublishProcessor, ApplyFails, UseProcessor
    <3>3. rpc # "poke"
      BY <2>2 DEF PublishProcessor, ApplyFails
    <3>4. ~poke
      BY <3>2
    <3>5. QED
      BY <2>1, <3>1, <3>3, <3>4 DEF IntervalNotMissed
  <2>3. CASE StopReturns
    BY <2>1, <2>3 DEF StopReturns, IntervalNotMissed
  <2>4. CASE UNCHANGED specVars
    <3>1. rpc # "poke"
      BY <2>4, ReloaderFrame
      DEF LoadChanged, BuildFails, BuildProcessor, PublishProcessor, ApplyRefused, ApplyFails,
          ApplyReconfigures, ApplyOK, PokeWorker, ApplyStarts, WatcherReturns, TypeOK,
          SpecTypes
    <3>2. QED
      BY <2>1, <2>4, <3>1 DEF IntervalNotMissed
  <2>5. QED
    BY <2>1, <2>2, <2>3, <2>4, SpecFrame
    DEF ApplyReconfigures, PokeWorker, ApplyStarts, TakePoke
<1>3. QED
  BY <1>1, <1>2

LEMMA LiveIsKnownStep == LiveIsKnown /\ [Next]_vars => LiveIsKnown'
<1> SUFFICES ASSUME LiveIsKnown, [Next]_vars, Live' PROVE checker'
  BY DEF LiveIsKnown
<1>1. CASE ApplyStarts
  BY <1>1 DEF ApplyStarts
<1>2. CASE ~ApplyStarts
  <2>1. Live
    BY <1>2, WorkerFrame
    DEF Live, ClockTicks, BeginCycle, EndCycle, RereadInterval, TakePoke, WorkerReturns
  <2>2. ~StopReturns
    BY DEF StopReturns, Live
  <2>3. QED
    BY <1>2, <2>1, <2>2, SpecFrame
    DEF LiveIsKnown, PublishProcessor, ApplyFails, UseProcessor, ApplyReconfigures, ApplyOK,
        PokeWorker, TakePoke
<1>3. QED
  BY <1>1, <1>2

(***************************************************************************)
(* A watcher that has returned starts no worker, which is why joining it   *)
(* before Stop runs is what makes Stop's answer final.                     *)
(***************************************************************************)
LEMMA JoinsInOrderStep ==
    TypeOK /\ JoinsInOrder /\ [Next]_vars => JoinsInOrder'
<1> SUFFICES ASSUME TypeOK, JoinsInOrder, [Next]_vars PROVE JoinsInOrder'
  OBVIOUS
<1> USE DEF JoinsInOrder
<1>1. rpc = "down" => rpc' = "down"
  BY ReloaderFrame
  DEF LoadChanged, BuildFails, BuildProcessor, PublishProcessor, ApplyRefused, ApplyFails,
      ApplyReconfigures, ApplyOK, PokeWorker, ApplyStarts, WatcherReturns
<1>2. rpc = "down" /\ ~checker => ~checker'
  BY SpecFrame
  DEF PublishProcessor, ApplyFails, UseProcessor, ApplyReconfigures, ApplyOK, PokeWorker,
      ApplyStarts, TakePoke, StopReturns
<1>3. CASE ApplyStarts
  BY <1>3 DEF ApplyStarts, ApplyOK, Commit
<1>4. CASE ServeEnds \/ LateSignal
  BY <1>1, <1>2, <1>4 DEF ServeEnds, LateSignal
<1>5. CASE WatcherJoined
  BY <1>1, <1>2, <1>5 DEF WatcherJoined
<1>6. CASE WatcherTimesOut
  BY <1>1, <1>2, <1>6 DEF WatcherTimesOut
<1>7. CASE StopSpawned
  BY <1>1, <1>2, <1>7 DEF StopSpawned
<1>8. CASE WorkerJoined
  BY <1>1, <1>2, <1>8 DEF WorkerJoined
<1>9. CASE WorkerTimesOut
  BY <1>1, <1>2, <1>9 DEF WorkerTimesOut
<1>10. CASE CloseStore \/ ProcessExits
  BY <1>1, <1>2, <1>10 DEF CloseStore, ProcessExits
<1>11. CASE StopCancels
  BY <1>1, <1>11 DEF StopCancels, TypeOK, SpecTypes
<1>12. CASE StopReturns
  BY <1>1, <1>12 DEF StopReturns
<1>13. CASE UNCHANGED mainVars
  BY <1>1, <1>2, <1>13
<1>14. QED
  BY <1>3, <1>4, <1>5, <1>6, <1>7, <1>8, <1>9, <1>10, <1>11, <1>12, <1>13, MainFrame

-----------------------------------------------------------------------------
LEMMA InitInv == Init => IInv
<1> SUFFICES ASSUME Init PROVE IInv
  OBVIOUS
<1>1. PICK c \in Configs :
          /\ file = c /\ newCfg = c
          /\ currentCfg = c /\ currentProcCfg = c /\ holder = c
          /\ checker = Enabled(c)
          /\ spec = IF Enabled(c) THEN [policy |-> c.policy, filterer |-> c] ELSE NoSpec
          /\ wpc = IF Enabled(c) THEN "start" ELSE "none"
          /\ ticking = IntervalOf[c.policy]
  BY DEF Init
<1>2. c.policy \in Policies
  BY <1>1 DEF Configs
<1>3. TypeOK
  <2>1. FileTypes
    <3>1. file \in Configs
      BY <1>1
    <3>2. outages = 0 /\ event = FALSE /\ keyUp = TRUE /\ fetchUp = TRUE
      BY DEF Init
    <3>3. MaxOutages \in Nat
      BY ConstantsAssumption
    <3>4. event \in BOOLEAN /\ keyUp \in BOOLEAN /\ fetchUp \in BOOLEAN
      BY <3>2
    <3>5. outages \in 0..MaxOutages
      BY <3>2, <3>3
    <3>6. QED
      BY <3>1, <3>4, <3>5 DEF FileTypes
  <2>2. ReloaderTypes
    BY <1>1 DEF Init, ReloaderTypes
  <2>3. SpecTypes
    BY <1>1, <1>2 DEF Init, SpecTypes, Specs, Enabled
  <2>4. WorkerTypes
    <3>1. ticking \in Nat /\ ticking \in {IntervalOf[p] : p \in Policies}
      BY <1>1, <1>2, ConstantsAssumption
    <3>2. left = 0 /\ fired = FALSE
      BY DEF Init
    <3>3. left \in 0..ticking
      BY <3>1, <3>2
    <3>4. fired \in BOOLEAN
      BY <3>2
    <3>5. QED
      BY <1>1, <1>2, <3>1, <3>3, <3>4 DEF Init, WorkerTypes
  <2>5. MainTypes
    BY DEF Init, MainTypes
  <2>6. QED
    BY <2>1, <2>2, <2>3, <2>4, <2>5 DEF TypeOK
<1>4. SpecBuilt
  BY <1>1, <1>2 DEF SpecBuilt, Specs
<1>5. ReloadInProgress /\ RecordsMatchSpec
  BY <1>1 DEF Init, ReloadInProgress, RecordsMatchSpec
<1>6. CycleReadsOneGeneration /\ RefusedNeverRuns
  BY <1>1 DEF Init, CycleReadsOneGeneration, RefusedNeverRuns, Published, Coherent, Enabled
<1>7. IntervalNotMissed /\ JoinsInOrder /\ LiveIsKnown
  BY <1>1 DEF Init, IntervalNotMissed, JoinsInOrder, LiveIsKnown, Live
<1>8. QED
  BY <1>3, <1>4, <1>5, <1>6, <1>7 DEF IInv

LEMMA NextInv == IInv /\ [Next]_vars => IInv'
BY TypeStep, ReloadInProgressStep, RecordsMatchSpecStep, GenerationStep, RefusedStep,
   IntervalStep, JoinsInOrderStep, LiveIsKnownStep
DEF IInv

(***************************************************************************)
(* The inductive invariant holds in every reachable state, for every set   *)
(* of configs: Reload, Controller, Checker.Run and app.Run's teardown, in  *)
(* any interleaving, with failing builds and applies, refusals, timed-out  *)
(* joins and edits without bound.                                          *)
(***************************************************************************)
THEOREM Invariance == Spec => []IInv
BY InitInv, NextInv, PTL DEF Spec

(***************************************************************************)
(* Type correctness: in particular Reconfigure and UseFilterer never leave *)
(* the checker with a policy and no processor.                             *)
(***************************************************************************)
THEOREM TypeCorrect == Spec => []TypeOK
<1>1. IInv => TypeOK
  BY DEF IInv
<1>2. QED
  BY <1>1, Invariance, PTL

(***************************************************************************)
(* Every cycle of Checker.RunOnce reads a policy and a processor of one    *)
(* generation, except for a processor whose own Controller.Apply failed.   *)
(***************************************************************************)
THEOREM OneGeneration == Spec => []CycleReadsOneGeneration
<1>1. IInv => CycleReadsOneGeneration
  BY DEF IInv
<1>2. QED
  BY <1>1, Invariance, PTL

(***************************************************************************)
(* A config Controller.Apply refuses for lack of sources never reaches the *)
(* worker, in neither half.                                                *)
(***************************************************************************)
THEOREM RefusedConfigs == Spec => []RefusedNeverRuns
<1>1. IInv => RefusedNeverRuns
  BY DEF IInv
<1>2. QED
  BY <1>1, Invariance, PTL

(***************************************************************************)
(* When Reloader.Reload would skip a config as unchanged, the live worker  *)
(* runs exactly that config.                                               *)
(***************************************************************************)
THEOREM SkipIsSound == Spec => []SkipMeansInForce
<1>1. IInv => SkipMeansInForce
  <2> SUFFICES ASSUME IInv, NEW c \in Configs, checker, rpc = "idle", Redundant(c)
               PROVE  spec = [policy |-> c.policy, filterer |-> c]
    BY DEF SkipMeansInForce
  <2>1. spec.policy = c.policy /\ spec.filterer = c
    BY DEF IInv, RecordsMatchSpec, Redundant
  <2>2. spec \in Specs
    BY DEF IInv, SpecBuilt
  <2>3. QED
    BY <2>1, <2>2 DEF Specs
<1>2. QED
  BY <1>1, Invariance, PTL

(***************************************************************************)
(* The interval Checker.Run ticks at is the published one whenever no poke *)
(* of Reconfigure is outstanding.                                          *)
(***************************************************************************)
THEOREM IntervalFollows == Spec => []IntervalNotMissed
<1>1. IInv => IntervalNotMissed
  BY DEF IInv
<1>2. QED
  BY <1>1, Invariance, PTL

(***************************************************************************)
(* app.Run closes the geoblock store after the watcher and the worker have *)
(* returned, unless one of the two bounded joins timed out.                *)
(***************************************************************************)
THEOREM StoreOutlivesWriters == Spec => []StoreClosedLast
<1>1. IInv => StoreClosedLast
  BY DEF IInv, StoreClosedLast, JoinsInOrder, LiveIsKnown
<1>2. QED
  BY <1>1, Invariance, PTL

(***************************************************************************)
(* Controller.Apply starts a worker only when none is alive, also when     *)
(* Stop runs concurrently with a reload that was given up on.              *)
(***************************************************************************)
THEOREM OneWorker == Spec => NeverTwoWorkers
<1>1. IInv => (ApplyStarts => ~Live)
  BY DEF IInv, LiveIsKnown, ApplyStarts
<1>2. QED
  BY <1>1, Invariance, PTL DEF NeverTwoWorkers

=============================================================================
