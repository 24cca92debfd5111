-------------------------- MODULE StableCycleProofs --------------------------
(***************************************************************************)
(* Proofs about StableCycle, for every finite set of nodes, every chain of *)
(* gates and every setting of the breaker.                                 *)
(***************************************************************************)
EXTENDS StableCycle, FiniteSetTheorems, TLAPS

-----------------------------------------------------------------------------
(***************************************************************************)
(* One gate over one batch.                                                *)
(***************************************************************************)
LEMMA KeptIsSubset ==
    ASSUME NEW g, NEW answers, NEW stopped
    PROVE  Kept(g, answers, stopped) \subseteq DOMAIN answers
BY DEF Kept

(***************************************************************************)
(* The total-refusal arm of the breaker: a batch that failed as a whole is *)
(* disbelieved, whatever its size.                                         *)
(***************************************************************************)
LEMMA TotalRefusalTrips ==
    ASSUME NEW g, NEW answers, IsFiniteSet(DOMAIN answers), DOMAIN answers # {},
           Failed(g, answers) = DOMAIN answers
    PROVE  Tripped(g, answers)
<1>1. Cardinality(DOMAIN answers) \in Nat /\ Cardinality(DOMAIN answers) # 0
  BY FS_CardinalityType, FS_EmptySet
<1>2. QED
  BY <1>1 DEF Tripped, BreakerTrips

(***************************************************************************)
(* A gate that has a host recorded has told the nodes of its batch apart.  *)
(***************************************************************************)
LEMMA WitnessOfBlock ==
    ASSUME NEW g, NEW answers, NEW stopped, IsFiniteSet(DOMAIN answers),
           ToBlock(g, answers) # {}, ~stopped
    PROVE  /\ Kept(g, answers, stopped) # {}
           /\ Kept(g, answers, stopped) # DOMAIN answers
<1>1. PICK n \in DOMAIN answers : answers[n] = "refused" /\ ~Tripped(g, answers)
  BY DEF ToBlock
<1>2. n \in Failed(g, answers)
  BY <1>1 DEF Failed
<1>3. Failed(g, answers) # DOMAIN answers
  BY <1>1, TotalRefusalTrips
<1>4. Failed(g, answers) \subseteq DOMAIN answers
  BY DEF Failed
<1>5. Kept(g, answers, stopped) = DOMAIN answers \ Failed(g, answers)
  BY <1>1 DEF Kept
<1>6. QED
  BY <1>2, <1>3, <1>4, <1>5

(***************************************************************************)
(* A lax gate never empties a batch, so only a strict one makes a cycle    *)
(* with survivors keep the old list.                                       *)
(***************************************************************************)
LEMMA LaxKeepsSome ==
    ASSUME NEW g, NEW answers, NEW stopped, IsFiniteSet(DOMAIN answers),
           ~g.strict, DOMAIN answers # {}
    PROVE  Kept(g, answers, stopped) # {}
<1>1. CASE stopped \/ Tripped(g, answers)
  BY <1>1 DEF Kept
<1>2. CASE ~stopped /\ ~Tripped(g, answers)
  <2>1. Kept(g, answers, stopped) = DOMAIN answers \ Failed(g, answers)
    BY <1>2 DEF Kept
  <2>2. Failed(g, answers) # DOMAIN answers
    BY <1>2, TotalRefusalTrips
  <2>3. QED
    BY <2>1, <2>2 DEF Failed
<1>3. QED
  BY <1>1, <1>2

-----------------------------------------------------------------------------
(***************************************************************************)
(* What the program point says about the state.                            *)
(***************************************************************************)
Probing == pc \in {"probe", "probed"}

Holding == pc \in {"probed", "filter", "render", "publish", "save", "report"}

\* The adapters go from the prober to the cycle and are closed on the way out.
Ownership ==
    /\ pc \in {"absent", "start", "idle", "merged", "done"} => adapters = "none" /\ ~bound
    /\ pc = "probe" => adapters = "prober" /\ bound
    /\ Holding => adapters = "cycle" /\ bound

\* Nothing is reported before the cycle is over.
Accounting ==
    /\ pc \in {"idle", "done"} => errors + observed = 1 /\ (observed = 1 <=> stored)
    /\ pc \notin {"idle", "done"} => errors = 0 /\ observed = 0
    /\ pc \notin {"idle", "done"} => (stored <=> pc \in {"save", "report"})

\* What is probed, and what survives, was not in the dead cache.
NotDead ==
    /\ Probing => probe \cap dead = {}
    /\ pc \in {"filter", "render", "publish"} => kept \cap dead = {}

\* Only good lists are on their way out, served and saved.
Publishable ==
    /\ served \in GoodLists \cup {NoList} /\ disk \in GoodLists \cup {NoList}
    /\ degraded => cancelled
    /\ pc \in {"render", "publish"} => kept # {}
    /\ pc = "save" => served \in GoodLists

USE DEF cycleVars, proberVars, reportVars, listVars, storeVars

\* The lemmas below look at one action at a time.
LEMMA Actions ==
    [Next]_vars =>
        \/ Cancel \/ DeadExpires \/ BlockExpires \/ Restart \/ WorkerStarts
        \/ FetchAndMerge \/ NothingToProbe
        \/ BeginProbe \/ ProbeFails \/ ProbeSucceeds \/ ProbeCancelled
        \/ RecordAndSelect \/ RunGate \/ BlockHost \/ FiltersEndEmpty
        \/ BeginRender \/ EndRender \/ PublishCancelled \/ Publish
        \/ SaveSnapshot \/ Observe \/ WorkerReturns
        \/ UNCHANGED vars
BY DEF Next, Environment, Cycle

LEMMA OwnershipStep == Ownership /\ [Next]_vars => Ownership'
<1> SUFFICES ASSUME Ownership, [Next]_vars PROVE Ownership'
  OBVIOUS
<1> USE DEF Ownership, Holding, Return, Close
<1>1. CASE Cancel \/ DeadExpires \/ BlockExpires \/ Restart \/ WorkerStarts
  BY <1>1 DEF Cancel, DeadExpires, BlockExpires, Restart, WorkerStarts
<1>2. CASE FetchAndMerge \/ NothingToProbe \/ BeginProbe
  BY <1>2 DEF FetchAndMerge, NothingToProbe, BeginProbe
<1>3. CASE ProbeFails \/ ProbeSucceeds \/ ProbeCancelled
  BY <1>3 DEF ProbeFails, ProbeSucceeds, ProbeCancelled
<1>4. CASE RecordAndSelect \/ RunGate \/ BlockHost \/ FiltersEndEmpty
  BY <1>4 DEF RecordAndSelect, RunGate, InChain, BlockHost, FiltersEndEmpty
<1>5. CASE BeginRender \/ EndRender \/ PublishCancelled \/ Publish
  BY <1>5 DEF BeginRender, ChainEnded, EndRender, PublishCancelled, Publish
<1>6. CASE SaveSnapshot \/ Observe \/ WorkerReturns
  BY <1>6 DEF SaveSnapshot, Observe, WorkerReturns
<1>7. CASE UNCHANGED vars
  BY <1>7 DEF vars
<1>8. QED
  BY <1>1, <1>2, <1>3, <1>4, <1>5, <1>6, <1>7, Actions

LEMMA AccountingStep == Accounting /\ [Next]_vars => Accounting'
<1> SUFFICES ASSUME Accounting, [Next]_vars PROVE Accounting'
  OBVIOUS
<1> USE DEF Accounting, Return, ReportError
<1>1. CASE Cancel \/ DeadExpires \/ BlockExpires \/ Restart \/ WorkerStarts
  BY <1>1 DEF Cancel, DeadExpires, BlockExpires, Restart, WorkerStarts
<1>2. CASE FetchAndMerge \/ NothingToProbe \/ BeginProbe
  BY <1>2 DEF FetchAndMerge, NothingToProbe, BeginProbe
<1>3. CASE ProbeFails \/ ProbeSucceeds \/ ProbeCancelled
  BY <1>3 DEF ProbeFails, ProbeSucceeds, ProbeCancelled
<1>4. CASE RecordAndSelect \/ RunGate \/ BlockHost \/ FiltersEndEmpty
  BY <1>4 DEF RecordAndSelect, RunGate, InChain, BlockHost, FiltersEndEmpty, ChainEnded
<1>5. CASE BeginRender \/ EndRender
  <2>1. CASE BeginRender
    BY <2>1 DEF BeginRender, ChainEnded
  <2>2. CASE EndRender
    BY <2>2 DEF EndRender
  <2>3. QED
    BY <1>5, <2>1, <2>2
<1>6. CASE PublishCancelled
  BY <1>6 DEF PublishCancelled
<1>7. CASE Publish
  BY <1>7 DEF Publish
<1>8. CASE SaveSnapshot \/ Observe \/ WorkerReturns
  BY <1>8 DEF SaveSnapshot, Observe, WorkerReturns
<1>9. CASE UNCHANGED vars
  BY <1>9 DEF vars
<1>10. QED
  BY <1>1, <1>2, <1>3, <1>4, <1>5, <1>6, <1>7, <1>8, <1>9, Actions

LEMMA NotDeadStep == NotDead /\ [Next]_vars => NotDead'
<1> SUFFICES ASSUME NotDead, [Next]_vars PROVE NotDead'
  OBVIOUS
<1> USE DEF NotDead, Probing, Return
<1>1. CASE Cancel \/ DeadExpires \/ BlockExpires \/ Restart \/ WorkerStarts
  BY <1>1 DEF Cancel, DeadExpires, BlockExpires, Restart, WorkerStarts
<1>2. CASE FetchAndMerge \/ NothingToProbe \/ BeginProbe
  BY <1>2 DEF FetchAndMerge, NothingToProbe, BeginProbe
<1>3. CASE ProbeFails \/ ProbeSucceeds \/ ProbeCancelled
  BY <1>3 DEF ProbeFails, ProbeSucceeds, ProbeCancelled
<1>4. CASE RecordAndSelect
  <2>1. PICK res \in [probe -> ProbeResults], tripped \in BOOLEAN :
            /\ dead' = dead \cup {n \in probe : ~tripped /\ res[n] = "dead"}
            /\ kept' = {n \in probe : res[n] = "passed"}
    BY <1>4 DEF RecordAndSelect
  <2>2. kept' \cap dead' = {}
    BY <1>4, <2>1 DEF RecordAndSelect
  <2>3. QED
    BY <1>4, <2>2 DEF RecordAndSelect
<1>5. CASE RunGate
  <2>1. kept' \subseteq kept
    BY <1>5, KeptIsSubset DEF RunGate
  <2>2. QED
    BY <1>5, <2>1 DEF RunGate, InChain
<1>6. CASE BlockHost \/ FiltersEndEmpty \/ BeginRender
  BY <1>6 DEF BlockHost, FiltersEndEmpty, BeginRender, ChainEnded
<1>7. CASE EndRender \/ PublishCancelled \/ Publish
  BY <1>7 DEF EndRender, PublishCancelled, Publish
<1>8. CASE SaveSnapshot \/ Observe \/ WorkerReturns
  BY <1>8 DEF SaveSnapshot, Observe, WorkerReturns
<1>9. CASE UNCHANGED vars
  BY <1>9 DEF vars
<1>10. QED
  BY <1>1, <1>2, <1>3, <1>4, <1>5, <1>6, <1>7, <1>8, <1>9, Actions

\* A batch of survivors is always a set of nodes, hence finite.
LEMMA KeptStep == kept \subseteq Nodes /\ probe \subseteq Nodes /\ [Next]_vars
                     => kept' \subseteq Nodes /\ probe' \subseteq Nodes
<1> SUFFICES ASSUME kept \subseteq Nodes, probe \subseteq Nodes, [Next]_vars
             PROVE  kept' \subseteq Nodes /\ probe' \subseteq Nodes
  OBVIOUS
<1>1. CASE RunGate
  BY <1>1, KeptIsSubset DEF RunGate
<1>2. CASE RecordAndSelect
  BY <1>2 DEF RecordAndSelect
<1>3. CASE FetchAndMerge \/ BeginProbe
  BY <1>3 DEF FetchAndMerge, BeginProbe
<1>4. CASE ~(RunGate \/ RecordAndSelect \/ FetchAndMerge \/ BeginProbe)
  BY <1>4, Actions
  DEF Cancel, DeadExpires, BlockExpires, Restart, WorkerStarts, NothingToProbe,
      ProbeFails, ProbeSucceeds, ProbeCancelled, BlockHost, FiltersEndEmpty, BeginRender, EndRender,
      PublishCancelled, Publish, SaveSnapshot, Observe, WorkerReturns, Return, vars
<1>5. QED
  BY <1>1, <1>2, <1>3, <1>4

LEMMA PublishableStep ==
    kept \subseteq Nodes /\ Publishable /\ [Next]_vars => Publishable'
<1> SUFFICES ASSUME kept \subseteq Nodes, Publishable, [Next]_vars PROVE Publishable'
  OBVIOUS
<1> USE DEF Publishable, Return
<1>1. CASE Cancel \/ DeadExpires \/ BlockExpires \/ Restart \/ WorkerStarts
  BY <1>1 DEF Cancel, DeadExpires, BlockExpires, Restart, WorkerStarts
<1>2. CASE FetchAndMerge \/ NothingToProbe \/ BeginProbe
  BY <1>2 DEF FetchAndMerge, NothingToProbe, BeginProbe
<1>3. CASE ProbeFails \/ ProbeSucceeds \/ ProbeCancelled
  BY <1>3 DEF ProbeFails, ProbeSucceeds, ProbeCancelled
<1>4. CASE RecordAndSelect \/ RunGate \/ BlockHost
  <2>1. CASE RunGate
    <3>1. degraded' => degraded \/ cancelled
      BY <2>1 DEF RunGate
    <3>2. QED
      BY <2>1, <3>1 DEF RunGate, InChain
  <2>2. CASE RecordAndSelect \/ BlockHost
    BY <2>2 DEF RecordAndSelect, BlockHost
  <2>3. QED
    BY <1>4, <2>1, <2>2
<1>5. CASE FiltersEndEmpty \/ BeginRender
  BY <1>5 DEF FiltersEndEmpty, BeginRender, ChainEnded
<1>6. CASE EndRender \/ PublishCancelled
  <2>1. CASE EndRender
    <3>1. degraded' = degraded \/ degraded' = cancelled
      BY <2>1 DEF EndRender
    <3>2. degraded' => cancelled
      BY <3>1
    <3>3. QED
      BY <2>1, <3>2 DEF EndRender
  <2>2. CASE PublishCancelled
    BY <2>2 DEF PublishCancelled
  <2>3. QED
    BY <1>6, <2>1, <2>2
<1>7. CASE Publish
  <2>1. [nodes |-> kept, degraded |-> FALSE] \in GoodLists
    BY <1>7 DEF Publish, GoodLists, AnyList
  <2>2. degraded = FALSE
    BY <1>7 DEF Publish
  <2>3. served' \in GoodLists
    BY <1>7, <2>1, <2>2 DEF Publish
  <2>4. QED
    BY <1>7, <2>3 DEF Publish
<1>8. CASE SaveSnapshot \/ Observe \/ WorkerReturns
  BY <1>8 DEF SaveSnapshot, Observe, WorkerReturns
<1>9. CASE UNCHANGED vars
  BY <1>9 DEF vars
<1>10. QED
  BY <1>1, <1>2, <1>3, <1>4, <1>5, <1>6, <1>7, <1>8, <1>9, Actions

-----------------------------------------------------------------------------
(***************************************************************************)
(* The inductive invariant.  Its first line is the part of TypeOK that the *)
(* others need: the sets a gate or a probe runs over are finite.           *)
(***************************************************************************)
IInv ==
    /\ kept \subseteq Nodes /\ probe \subseteq Nodes
    /\ Ownership
    /\ Accounting
    /\ NotDead
    /\ Publishable

LEMMA InitInv == Init => IInv
BY DEF Init, IInv, Ownership, Holding, Accounting, NotDead, Probing, Publishable

LEMMA NextInv == IInv /\ [Next]_vars => IInv'
BY KeptStep, OwnershipStep, AccountingStep, NotDeadStep, PublishableStep DEF IInv

\* The inductive invariant holds wherever a cycle is cancelled or killed.
THEOREM Invariance == Spec => []IInv
BY InitInv, NextInv, PTL DEF Spec

(***************************************************************************)
(* RunOnce reports every cycle exactly once, as published exactly when it  *)
(* swapped a list in.                                                      *)
(***************************************************************************)
THEOREM Accounted == Spec => []OneReportPerCycle
<1>1. IInv => OneReportPerCycle
  BY DEF IInv, Accounting, OneReportPerCycle
<1>2. QED
  BY <1>1, Invariance, PTL

(***************************************************************************)
(* The adapters and the resolver pins of ProbeBound live until the last    *)
(* gate has run, and never beyond the cycle.                               *)
(***************************************************************************)
THEOREM Owned == Spec => []AdaptersOwned
<1>1. IInv => AdaptersOwned
  BY DEF IInv, Ownership, Holding, AdaptersOwned
<1>2. QED
  BY <1>1, Invariance, PTL

(***************************************************************************)
(* No survivor of a cycle is in the dead cache while it is on its way to   *)
(* the list.                                                               *)
(***************************************************************************)
THEOREM NeverDead == Spec => []SurvivorsNotDead
<1>1. IInv => SurvivorsNotDead
  BY DEF IInv, NotDead, SurvivorsNotDead
<1>2. QED
  BY <1>1, Invariance, PTL

(***************************************************************************)
(* keepOutcomes records a host only after a gate that both kept and        *)
(* dropped nodes, for every chain of gates, batch and breaker setting.     *)
(***************************************************************************)
THEOREM Witnessed == Spec => BlockHasWitness
<1>1. IInv => (RunGate /\ pending' # {} => kept' # {} /\ kept' # kept)
  <2> SUFFICES ASSUME IInv, RunGate, pending' # {}
               PROVE  kept' # {} /\ kept' # kept
    OBVIOUS
  <2>1. PICK answers \in [kept -> Verdicts] :
            /\ kept' = Kept(Chain[gate], answers, cancelled)
            /\ pending' = IF cancelled THEN {}
                          ELSE {HostOf[n] : n \in ToBlock(Chain[gate], answers)}
    BY DEF RunGate
  <2>2. ~cancelled /\ ToBlock(Chain[gate], answers) # {}
    BY <2>1
  <2>3. DOMAIN answers = kept /\ IsFiniteSet(kept)
    BY <2>1, CycleAssumption, FS_Subset DEF IInv
  <2>4. QED
    BY <2>1, <2>2, <2>3, WitnessOfBlock
<1>2. QED
  BY <1>1, Invariance, PTL DEF BlockHasWitness

(***************************************************************************)
(* Every step of the cycle, of its failures and of a restart, with         *)
(* subscriptions or without, is a step of PublishedList, or one its        *)
(* readers cannot see.                                                     *)
(***************************************************************************)
THEOREM Implements == Spec => KeepsPromise
<1> USE DEF Promise!Init, Promise!Next, Promise!Publish, Promise!Save, Promise!Settle,
            Promise!Feed, Promise!ProcessRestarts, Promise!HostRestarts, Promise!vars
<1>1. Init => Promise!Init
  BY DEF Init
<1>2. IInv /\ IInv' /\ [Next]_vars => [Promise!Next]_(Promise!vars)
  <2> SUFFICES ASSUME IInv, IInv', [Next]_vars PROVE [Promise!Next]_(Promise!vars)
    OBVIOUS
  <2>1. CASE Publish
    <3>1. served' \in GoodLists
      BY <2>1 DEF Publish, IInv, Publishable
    <3>2. QED
      BY <2>1, <3>1 DEF Publish
  <2>2. CASE SaveSnapshot
    <3>1. served # NoList
      BY <2>2, CycleAssumption DEF SaveSnapshot, IInv, Publishable, GoodLists
    <3>2. QED
      BY <2>2, <3>1 DEF SaveSnapshot
  <2>3. CASE Restart \/ WorkerStarts
    BY <2>3 DEF Restart, WorkerStarts
  <2>4. CASE ~(Publish \/ SaveSnapshot \/ Restart \/ WorkerStarts)
    <3>1. UNCHANGED <<served, disk>>
      BY <2>4, Actions
      DEF Cancel, DeadExpires, BlockExpires, FetchAndMerge, NothingToProbe, BeginProbe,
          ProbeFails, ProbeSucceeds, ProbeCancelled, RecordAndSelect, RunGate, BlockHost,
          FiltersEndEmpty, BeginRender, EndRender, PublishCancelled, Observe,
          WorkerReturns, vars
    <3>2. pc' = "absent" <=> pc = "absent"
      BY <2>4, Actions
      DEF Cancel, DeadExpires, BlockExpires, FetchAndMerge, NothingToProbe, BeginProbe,
          ProbeFails, ProbeSucceeds, ProbeCancelled, RecordAndSelect, RunGate, InChain,
          BlockHost, FiltersEndEmpty, BeginRender, ChainEnded, EndRender,
          PublishCancelled, Observe, WorkerReturns, Return, vars
    <3>3. QED
      BY <3>1, <3>2
  <2>5. QED
    BY <2>1, <2>2, <2>3, <2>4
<1>3. QED
  BY <1>1, <1>2, Invariance, PTL DEF Spec, KeepsPromise, Promise!Spec

-----------------------------------------------------------------------------
(***************************************************************************)
(* Type correctness, on top of the inductive invariant: the report         *)
(* counters, the lists and the batches get their types from IInv.          *)
(***************************************************************************)
CycleTypes ==
    /\ pc \in {"absent", "start", "idle", "merged", "probe", "probed", "filter", "render",
               "publish", "save", "report", "done"}
    /\ cancelled \in BOOLEAN /\ degraded \in BOOLEAN
    /\ bound \in BOOLEAN /\ stored \in BOOLEAN
    /\ adapters \in {"none", "prober", "cycle"}

GateType == gate \in 1..(Len(Chain) + 1)

CacheTypes ==
    /\ dead \subseteq Nodes
    /\ pending \subseteq Hosts /\ blocked \subseteq Hosts /\ rows \subseteq Hosts

ReportTypes == errors \in 0..1 /\ observed \in 0..1

LEMMA CycleTypesStep == CycleTypes /\ [Next]_vars => CycleTypes'
<1> SUFFICES ASSUME CycleTypes, [Next]_vars PROVE CycleTypes'
  OBVIOUS
<1> USE DEF CycleTypes, Return, Close
<1>1. CASE Cancel \/ DeadExpires \/ BlockExpires \/ Restart \/ WorkerStarts
  BY <1>1 DEF Cancel, DeadExpires, BlockExpires, Restart, WorkerStarts
<1>2. CASE FetchAndMerge \/ NothingToProbe \/ BeginProbe
  BY <1>2 DEF FetchAndMerge, NothingToProbe, BeginProbe
<1>3. CASE ProbeFails \/ ProbeSucceeds \/ ProbeCancelled
  BY <1>3 DEF ProbeFails, ProbeSucceeds, ProbeCancelled
<1>4. CASE RecordAndSelect \/ RunGate \/ BlockHost
  BY <1>4 DEF RecordAndSelect, RunGate, BlockHost
<1>5. CASE FiltersEndEmpty \/ BeginRender
  BY <1>5 DEF FiltersEndEmpty, BeginRender
<1>6. CASE EndRender
  <2>1. degraded' \in BOOLEAN
    BY <1>6 DEF EndRender
  <2>2. QED
    BY <1>6, <2>1 DEF EndRender
<1>7. CASE PublishCancelled \/ Publish
  BY <1>7 DEF PublishCancelled, Publish
<1>8. CASE SaveSnapshot \/ Observe \/ WorkerReturns
  BY <1>8 DEF SaveSnapshot, Observe, WorkerReturns
<1>9. CASE UNCHANGED vars
  BY <1>9 DEF vars
<1>10. QED
  BY <1>1, <1>2, <1>3, <1>4, <1>5, <1>6, <1>7, <1>8, <1>9, Actions

LEMMA GateTypeStep == GateType /\ [Next]_vars => GateType'
<1> SUFFICES ASSUME GateType, [Next]_vars PROVE GateType'
  OBVIOUS
<1>1. Len(Chain) \in Nat
  BY CycleAssumption
<1>2. CASE RunGate
  <2>1. gate <= Len(Chain) /\ gate' = gate + 1
    BY <1>2 DEF RunGate, InChain
  <2>2. QED
    BY <1>1, <2>1 DEF GateType
<1>3. CASE ~RunGate
  <2>1. gate' = gate \/ gate' = 1
    BY <1>3, Actions
    DEF Cancel, DeadExpires, BlockExpires, Restart, WorkerStarts, FetchAndMerge,
        NothingToProbe, BeginProbe, ProbeFails, ProbeSucceeds, ProbeCancelled, RecordAndSelect, BlockHost,
        FiltersEndEmpty, BeginRender, EndRender, PublishCancelled, Publish, SaveSnapshot,
        Observe, WorkerReturns, Return, vars
  <2>2. QED
    BY <1>1, <2>1 DEF GateType
<1>4. QED
  BY <1>2, <1>3

LEMMA CacheTypesStep ==
    kept \subseteq Nodes /\ probe \subseteq Nodes /\ CacheTypes /\ [Next]_vars
        => CacheTypes'
<1> SUFFICES ASSUME kept \subseteq Nodes, probe \subseteq Nodes, CacheTypes, [Next]_vars
             PROVE  CacheTypes'
  OBVIOUS
<1> USE DEF CacheTypes, Return
<1>1. CASE RecordAndSelect
  BY <1>1 DEF RecordAndSelect
<1>2. CASE RunGate
  <2>1. PICK answers \in [kept -> Verdicts] :
            pending' = IF cancelled THEN {}
                       ELSE {HostOf[n] : n \in ToBlock(Chain[gate], answers)}
    BY <1>2 DEF RunGate
  <2>2. ToBlock(Chain[gate], answers) \subseteq Nodes
    BY <2>1 DEF ToBlock
  <2>3. pending' \subseteq Hosts
    BY <2>1, <2>2 DEF Hosts
  <2>4. QED
    BY <1>2, <2>3 DEF RunGate
<1>3. CASE BlockHost
  BY <1>3 DEF BlockHost
<1>4. CASE DeadExpires \/ BlockExpires \/ Restart
  BY <1>4 DEF DeadExpires, BlockExpires, Restart
<1>5. CASE ~(RecordAndSelect \/ RunGate \/ BlockHost
               \/ DeadExpires \/ BlockExpires \/ Restart)
  BY <1>5, Actions
  DEF Cancel, WorkerStarts, FetchAndMerge, NothingToProbe, BeginProbe, ProbeFails,
      ProbeSucceeds, ProbeCancelled, FiltersEndEmpty, BeginRender, EndRender, PublishCancelled, Publish,
      SaveSnapshot, Observe, WorkerReturns, vars
<1>6. QED
  BY <1>1, <1>2, <1>3, <1>4, <1>5

\* The counters are 0 until the cycle ends, and then one of them is 1.
LEMMA ReportTypesStep == Accounting /\ ReportTypes /\ [Next]_vars => ReportTypes'
<1> SUFFICES ASSUME Accounting, ReportTypes, [Next]_vars PROVE ReportTypes'
  OBVIOUS
<1> USE DEF ReportTypes
<1>1. CASE NothingToProbe \/ ProbeFails \/ ProbeCancelled \/ PublishCancelled
  BY <1>1
  DEF Accounting, ReportError, NothingToProbe, ProbeFails, ProbeCancelled, PublishCancelled
<1>2. CASE FiltersEndEmpty
  BY <1>2 DEF Accounting, ReportError, FiltersEndEmpty, ChainEnded
<1>3. CASE Observe
  BY <1>3 DEF Accounting, Observe
<1>4. CASE Restart \/ FetchAndMerge
  BY <1>4 DEF Restart, FetchAndMerge
<1>5. CASE ~(\/ NothingToProbe \/ ProbeFails \/ ProbeCancelled \/ PublishCancelled
             \/ FiltersEndEmpty \/ Observe \/ Restart \/ FetchAndMerge)
  BY <1>5, Actions
  DEF Cancel, DeadExpires, BlockExpires, WorkerStarts, BeginProbe, ProbeSucceeds,
      RecordAndSelect, RunGate, BlockHost, BeginRender, EndRender, Publish, SaveSnapshot, WorkerReturns,
      vars
<1>6. QED
  BY <1>1, <1>2, <1>3, <1>4, <1>5

(***************************************************************************)
(* RunOnce keeps the type of every variable, for every chain of gates.     *)
(***************************************************************************)
THEOREM TypeCorrect == Spec => []TypeOK
<1> DEFINE Types == CycleTypes /\ GateType /\ CacheTypes /\ ReportTypes
<1>1. Init => Types
  <2>1. Len(Chain) \in Nat
    BY CycleAssumption
  <2>2. Init => GateType /\ ReportTypes
    BY <2>1 DEF Init, GateType, ReportTypes
  <2>3. Init => CycleTypes /\ CacheTypes
    BY DEF Init, CycleTypes, CacheTypes
  <2>4. QED
    BY <2>2, <2>3
<1>2. IInv /\ Types /\ [Next]_vars => Types'
  BY CycleTypesStep, GateTypeStep, CacheTypesStep, ReportTypesStep DEF IInv
<1>3. IInv /\ Types => TypeOK
  BY DEF IInv, Publishable, GoodLists, CycleTypes, GateType, CacheTypes, ReportTypes,
      TypeOK
<1>4. QED
  <2> HIDE DEF Types
  <2>1. QED
    BY <1>1, <1>2, <1>3, Invariance, PTL DEF Spec
=============================================================================
