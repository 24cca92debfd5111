--------------------------- MODULE CrawlCycleProofs ---------------------------
(***************************************************************************)
(* What the crawler promises for any URLs, windows, floors and bounds: it  *)
(* deletes on evidence, deletes in bulk only what it proposed before,      *)
(* counts no barren list twice, and rebuilds no overlay that was emptied   *)
(* behind its back.  Every property is followed through the two memories,  *)
(* the one a cycle works on and the one on disk, either of which may be    *)
(* the older.                                                              *)
(***************************************************************************)
EXTENDS CrawlCycle, FiniteSetTheorems, WellFoundedInduction, TLAPS

\* Memories, with no bound on the lists counted.
Shape == [streak    : [Urls -> Streaks \cup {None}],
          refused   : Proposals \cup {None},
          dead      : [Urls -> 0..(MaxNow + DeadTTL) \cup {None}],
          probation : [Names -> [barren : Nat, published : Nat \ {0}] \cup {None}]]

Shaped ==
    /\ now \in Times /\ lists \in 0..MaxLists /\ rows \in [Names -> {"none", "barren", "alive"}]
    /\ mem \in Shape /\ disk \in Shape
    /\ start \subseteq Urls
    /\ observed \in [Loadable -> Streaks]
    /\ barrenLists \in [Names -> Nat]
    /\ file = [u \in Urls |-> file[u]] /\ pf = [u \in Urls |-> pf[u]]
    /\ next = [u \in Urls |-> next[u]]

LEMMA Numbers ==
    /\ MaxNow \in Nat /\ RetireCycles \in Nat \ {0} /\ RetireAfter \in Nat /\ DeadTTL \in Nat
    /\ RecordTTL \in Nat /\ ConfirmAfter \in Nat /\ Window \in Nat /\ MaxLists \in Nat
    /\ Loadable \subseteq Urls
BY CrawlAssumption

LEMMA BlankShape == Blank \in Shape
BY DEF Blank, Shape

-----------------------------------------------------------------------------
(* The operations on memories.                                             *)

\* Only the dead stamps differ.
Like(m, o) == m \in Shape /\ m.streak = o.streak /\ m.refused = o.refused /\ m.probation = o.probation

LEMMA UnexpiredLike ==
    ASSUME NEW m \in Shape PROVE Like(Unexpired(m), m)
BY DEF Unexpired, Shape, Like

LEMMA StampLike ==
    ASSUME NEW m \in Shape, NEW S, now \in Times PROVE Like(Stamp(m, S), m)
<1>1. now + DeadTTL \in 0..(MaxNow + DeadTTL)
  BY Numbers DEF Times
<1> QED BY <1>1 DEF Stamp, Shape, Like

LEMMA StampedLike ==
    ASSUME NEW m \in Shape, NEW gone, NEW alive, now \in Times
    PROVE  Like(Stamped(m, gone, alive), m)
<1>1. Like(Stamp(m, gone), m)
  BY StampLike
<1>2. ASSUME NEW o \in Shape PROVE Like(Cleared(o, alive), o)
  BY DEF Cleared, Shape, Like
<1>3. Like(m, m)
  BY DEF Like
<1> QED BY <1>1, <1>2, <1>3 DEF Stamped, Like

LEMMA AgeType ==
    ASSUME Shaped, NEW streak \in [Urls -> Streaks \cup {None}], NEW alive
    PROVE  Age(streak, alive) \in [Urls -> Streaks \cup {None}]
<1>1. ASSUME NEW u \in Urls PROVE Age(streak, alive)[u] \in Streaks \cup {None}
  <2>1. [n |-> 0, since |-> 0] \in Streaks /\ [n |-> 1, since |-> now] \in Streaks
    BY Numbers DEF Streaks, Times, Shaped
  <2>2. ASSUME streak[u] # None PROVE [streak[u] EXCEPT !.n = Smaller(@ + 1, RetireCycles)] \in Streaks
    <3>1. streak[u] \in Streaks
      BY <2>2
    <3>2. Smaller(streak[u].n + 1, RetireCycles) \in 0..RetireCycles
      BY <3>1, Numbers DEF Smaller, Streaks
    <3> QED BY <3>1, <3>2 DEF Streaks
  <2> QED BY <2>1, <2>2 DEF Age
<1> QED BY <1>1 DEF Age

LEMMA JudgedLike ==
    ASSUME Shaped, NEW gone, NEW alive
    PROVE  LET j == Judged(mem, gone, alive)
           IN  /\ j \in Shape /\ j.streak = Age(mem.streak, alive)
               /\ j.refused = mem.refused /\ j.probation = mem.probation
<1> DEFINE s == Stamped(mem, gone, alive)
<1>1. Like(s, mem)
  BY StampedLike DEF Shaped
<1>2. Age(mem.streak, alive) \in [Urls -> Streaks \cup {None}]
  BY AgeType DEF Shaped, Shape
<1> HIDE DEF s
<1>3. Judged(mem, gone, alive) = [s EXCEPT !.streak = Age(mem.streak, alive)]
  BY <1>1 DEF Judged, Like, s
<1> QED BY <1>1, <1>2, <1>3 DEF Like, Shape

-----------------------------------------------------------------------------
(* Where the memories of a step come from.                                 *)

StreakCarried ==
    /\ mem'.streak \in {mem.streak, disk.streak, Blank.streak}
    /\ disk'.streak \in {mem.streak, disk.streak}

RefusalCarried ==
    /\ mem'.refused \in {mem.refused, disk.refused, None}
    /\ disk'.refused \in {mem.refused, disk.refused, None}

ProbationCarried ==
    /\ mem'.probation \in {mem.probation, disk.probation, Blank.probation}
    /\ disk'.probation \in {mem.probation, disk.probation}

Carried == StreakCarried /\ RefusalCarried /\ ProbationCarried

\* What withholdCondemned leaves of the records.
KeptFold(condemned) ==
    LET known == NamesIn(file, Gh(file))
    IN  Keep(Fold(mem.probation, known), known \ condemned)

LEMMA FoldType ==
    ASSUME Shaped, lists > 0, NEW condemned
    PROVE  KeptFold(condemned) \in [Names -> [barren : Nat, published : Nat \ {0}] \cup {None}]
<1> DEFINE F == [barren : Nat, published : Nat \ {0}]
           known == NamesIn(file, Gh(file))
           folded == Fold(mem.probation, known)
<1>1. ASSUME NEW n \in Names PROVE folded[n] \in F \cup {None}
  <2>1. mem.probation[n] \in F \cup {None} /\ lists \in Nat \ {0}
    BY Numbers DEF Shaped, Shape
  <2>2. mem.probation[n] # None => mem.probation[n].barren + 1 \in Nat
    BY <2>1
  <2> QED BY <2>1, <2>2 DEF Fold
<1> QED BY <1>1 DEF KeptFold, Keep

\* The memory withholdCondemned leaves.
Withdrawn(m) ==
    \E condemned : /\ m \in Shape /\ m.streak = mem.streak /\ m.refused = mem.refused
                   /\ m.probation = KeptFold(condemned)

LEMMA WithholdMemory ==
    ASSUME Shaped, Withhold
    PROVE  /\ Withdrawn(mem')
           /\ disk' = mem' \/ disk' = disk
           /\ \A n \in Names : \/ barrenLists'[n] = barrenLists[n]
                               \/ /\ barrenLists'[n] = 0 /\ disk' = mem'
                                  /\ mem'.probation[n] # None
                                  /\ mem'.probation[n].barren = 0
           /\ barrenLists' \in [Names -> Nat]
<1> DEFINE known  == NamesIn(file, Gh(file))
           due    == Due(mem.probation, known)
<1>1. PICK condemned \in SUBSET due :
        LET urls == {u \in Gh(file) : file[u].name \in condemned}
            kept == Keep(Fold(mem.probation, known), known \ condemned)
            m == [Stamp(mem, urls) EXCEPT !.probation = kept]
        IN  /\ mem' = m
            /\ Persist(m)
            /\ barrenLists' = [n \in Names |->
                   IF disk' = m /\ n \in known /\ kept[n] # None /\ kept[n].barren = 0
                   THEN 0 ELSE barrenLists[n]]
  BY DEF Withhold
<1> DEFINE urls == {u \in Gh(file) : file[u].name \in condemned}
           kept == Keep(Fold(mem.probation, known), known \ condemned)
           m == [Stamp(mem, urls) EXCEPT !.probation = kept]
<1>2. Like(Stamp(mem, urls), mem)
  BY StampLike DEF Shaped
<1>3. kept = KeptFold(condemned)
  BY DEF KeptFold
<1>4. kept \in [Names -> [barren : Nat, published : Nat \ {0}] \cup {None}]
  <2>1. lists > 0
    BY DEF Withhold
  <2>2. KeptFold(condemned) \in [Names -> [barren : Nat, published : Nat \ {0}] \cup {None}]
    BY <2>1, FoldType
  <2> HIDE DEF kept
  <2> QED BY <1>3, <2>2
<1> HIDE DEF kept
<1>5. /\ m \in Shape /\ m.streak = mem.streak /\ m.refused = mem.refused
      /\ m.probation = kept
  BY <1>2, <1>4 DEF Like, Shape
<1>6. /\ mem' = m /\ Persist(m)
      /\ barrenLists' = [n \in Names |->
             IF disk' = m /\ n \in known /\ kept[n] # None /\ kept[n].barren = 0
             THEN 0 ELSE barrenLists[n]]
  BY <1>1 DEF kept
<1> HIDE DEF m, known, urls
<1>7. Withdrawn(mem')
  BY <1>3, <1>5, <1>6 DEF Withdrawn
<1>8. disk' = mem' \/ disk' = disk
  BY <1>6 DEF Persist
<1>9. barrenLists' \in [Names -> Nat]
  BY <1>6 DEF Shaped
<1> QED BY <1>5, <1>6, <1>7, <1>8, <1>9

LEMMA EndBlank == EndCycle => mem' = Blank /\ start' = {} /\ pf' = NoOverlay
BY DEF EndCycle

LEMMA WithdrawShape ==
    ASSUME Shaped
    PROVE  /\ Withdraw \in Shape /\ Withdraw.streak = mem.streak
           /\ Withdraw.refused = None /\ Withdraw.probation = mem.probation
BY DEF Shaped, Shape, Withdraw

LEMMA MemorySteps ==
    ASSUME Shaped, [Next]_vars
    PROVE  /\ mem' \in Shape /\ disk' \in Shape
           /\ Recheck \/ StreakCarried
           /\ MergeRefused \/ RefusalCarried
           /\ Withhold \/ ProbationCarried
<1>0. mem \in Shape /\ disk \in Shape /\ Blank \in Shape /\ Blank.refused = None
  BY BlankShape DEF Shaped, Blank
<1>1. CASE (Tick \/ Operator \/ Publish \/ UNCHANGED vars) /\ mem' = mem /\ disk' = disk
  BY <1>0, <1>1 DEF StreakCarried, RefusalCarried, ProbationCarried
<1>2. CASE Tick \/ Operator \/ Publish \/ UNCHANGED vars
  BY <1>1, <1>2 DEF Tick, Operator, Publish, HandAdd, HandTake, HandRemove, HandSlip, Truncate,
     Curate, Edit, vars
<1>3. CASE Abandon \/ Write \/ WriteFails
  <2>1. mem' = Blank /\ disk' = disk
    BY <1>3, EndBlank DEF Abandon, Write, WriteFails
  <2> QED BY <1>0, <2>1 DEF StreakCarried, RefusalCarried, ProbationCarried
<1>4. CASE Load
  <2>1. PICK m \in {Blank, disk} : mem' = Unexpired(m) /\ disk' = disk
    BY <1>4 DEF Load
  <2>2. Like(mem', m)
    BY <1>0, <2>1, UnexpiredLike
  <2> QED BY <1>0, <2>1, <2>2 DEF StreakCarried, RefusalCarried, ProbationCarried, Like
<1>5. CASE Scan \/ WithholdNothing
  <2>1. mem' = mem /\ disk' \in {mem, disk}
    BY <1>5 DEF Scan, WithholdNothing, Persist
  <2> QED BY <1>0, <2>1 DEF StreakCarried, RefusalCarried, ProbationCarried
<1>6. CASE Recheck
  <2>1. \E gone, alive : LET j == Judged(mem, gone, alive)
                         IN mem' \in {mem, j} /\ disk' \in {disk, j}
    BY <1>6 DEF Recheck, Persist
  <2>2. PICK j \in Shape : /\ j.refused = mem.refused /\ j.probation = mem.probation
                           /\ mem' \in {mem, j} /\ disk' \in {disk, j}
    BY <2>1, JudgedLike
  <2> QED BY <1>0, <1>6, <2>2 DEF RefusalCarried, ProbationCarried
<1>7. CASE Withhold
  BY <1>0, <1>7, WithholdMemory DEF Withdrawn, StreakCarried, RefusalCarried
<1>8. CASE MergeSame
  <2>1. mem' = Blank /\ disk' \in {disk, Withdraw}
    BY <1>8, EndBlank DEF MergeSame, PersistWithdrawal, Persist
  <2> QED BY <1>0, <2>1, WithdrawShape DEF StreakCarried, RefusalCarried, ProbationCarried
<1>9. CASE MergeSmall \/ MergeConfirmed
  <2>1. mem' = Withdraw /\ disk' \in {disk, Withdraw}
    BY <1>9 DEF MergeSmall, MergeConfirmed, Proceed, PersistWithdrawal, Persist
  <2> QED BY <1>0, <2>1, WithdrawShape DEF StreakCarried, RefusalCarried, ProbationCarried
<1>10. CASE MergeRefused
  <2> DEFINE r == [at |-> now, urls |-> Deleted]
             o == [mem EXCEPT !.refused = r]
  <2>1. mem' = Blank /\ disk' \in {disk, o}
    BY <1>10, EndBlank DEF MergeRefused, Persist
  <2>2. r \in Proposals
    BY DEF Proposals, Deleted, Shaped, Managed
  <2> HIDE DEF r
  <2>3. o \in Shape /\ o.streak = mem.streak /\ o.probation = mem.probation
    BY <1>0, <2>2 DEF Shape
  <2> QED BY <1>0, <1>10, <2>1, <2>3 DEF StreakCarried, ProbationCarried
<1> QED BY <1>2, <1>3, <1>4, <1>5, <1>6, <1>7, <1>8, <1>9, <1>10 DEF Next

-----------------------------------------------------------------------------
(* Shapes.                                                                 *)

LEMMA ObserveType ==
    ASSUME Shaped, NEW alive, NEW saved, Observe(alive, saved)
    PROVE  observed' \in [Loadable -> Streaks]
<1>1. ASSUME NEW u \in Loadable PROVE observed'[u] \in Streaks
  <2>1. [n |-> 0, since |-> 0] \in Streaks /\ [n |-> 1, since |-> now] \in Streaks
        /\ observed[u] \in Streaks
    BY Numbers DEF Streaks, Times, Shaped
  <2>2. [observed[u] EXCEPT !.n = Smaller(@ + 1, RetireCycles)] \in Streaks
    <3>1. Smaller(observed[u].n + 1, RetireCycles) \in 0..RetireCycles
      BY <2>1, Numbers DEF Smaller, Streaks
    <3> QED BY <2>1, <3>1 DEF Streaks
  <2> QED BY <2>1, <2>2 DEF Observe
<1> QED BY <1>1 DEF Observe

LEMMA ShapedStep == Shaped /\ [Next]_vars => Shaped'
<1> SUFFICES ASSUME Shaped, [Next]_vars PROVE Shaped'
  OBVIOUS
<1>1. mem' \in Shape /\ disk' \in Shape
  BY MemorySteps
<1>2. now' \in Times /\ lists' \in 0..MaxLists /\ rows' \in [Names -> {"none", "barren", "alive"}]
  <2>1. CASE Tick
    BY <2>1, Numbers DEF Tick, Shaped, Times, service
  <2>2. CASE Publish
    BY <2>2, Numbers DEF Publish, Shaped
  <2>3. CASE ~Tick /\ ~Publish
    BY <2>3 DEF Next, Operator, HandAdd, HandTake, HandRemove, HandSlip, Truncate, Curate, Edit,
       Load, Scan, Recheck, Withhold, WithholdNothing, MergeSame, MergeSmall, MergeConfirmed,
       Proceed, MergeRefused, Write, WriteFails, Abandon, service, vars, Shaped
  <2> QED BY <2>1, <2>2, <2>3
<1>3. start' \subseteq Urls
  BY DEF Next, Tick, Publish, Operator, HandAdd, HandTake, HandRemove, HandSlip, Truncate,
     Curate, Edit, Load, Scan, Recheck, Withhold, WithholdNothing, MergeSame, MergeSmall,
     MergeConfirmed, Proceed, MergeRefused, Write, WriteFails, Abandon, EndCycle, cycle, vars,
     Shaped, Managed
<1>4. observed' \in [Loadable -> Streaks]
  <2>1. CASE Recheck
    BY <2>1, ObserveType DEF Recheck, Shaped
  <2>2. CASE ~Recheck
    BY <2>2 DEF Next, Tick, Publish, Operator, HandAdd, HandTake, HandRemove, HandSlip,
       Truncate, Curate, Edit, Load, Scan, Withhold, WithholdNothing, MergeSame, MergeSmall,
       MergeConfirmed, Proceed, MergeRefused, Write, WriteFails, Abandon, history, vars, Shaped
  <2> QED BY <2>1, <2>2
<1>5. barrenLists' \in [Names -> Nat]
  <2>1. CASE Publish
    BY <2>1 DEF Publish, Shaped
  <2>2. CASE Withhold
    BY <2>2, WithholdMemory
  <2>3. CASE ~Publish /\ ~Withhold
    BY <2>3 DEF Next, Tick, Operator, HandAdd, HandTake, HandRemove, HandSlip, Truncate, Curate,
       Edit, Load, Scan, Recheck, WithholdNothing, MergeSame, MergeSmall, MergeConfirmed,
       Proceed, MergeRefused, Write, WriteFails, Abandon, history, vars, Shaped
  <2> QED BY <2>1, <2>2, <2>3
<1>6. /\ file' = [u \in Urls |-> file'[u]] /\ pf' = [u \in Urls |-> pf'[u]]
      /\ next' = [u \in Urls |-> next'[u]]
  <2>1. NoOverlay = [u \in Urls |-> NoOverlay[u]]
    BY DEF NoOverlay
  <2>2. CASE Write \/ MergeSmall \/ MergeConfirmed
    BY <2>1, <2>2 DEF Write, EndCycle, MergeSmall, MergeConfirmed, Proceed, Merged, world, Shaped
  <2>3. CASE Operator
    BY <2>1, <2>3 DEF Operator, HandAdd, HandTake, HandRemove, HandSlip, Truncate, Curate, Edit,
       cycle, Shaped
  <2>4. CASE ~Write /\ ~Operator /\ ~MergeSmall /\ ~MergeConfirmed
    BY <2>1, <2>4 DEF Next, Tick, Publish, Load, Scan, Recheck, Withhold, WithholdNothing, Reload, MergeSame,
     MergeRefused, WriteFails, Abandon, EndCycle, world,
     cycle, vars, Shaped
  <2> QED BY <2>2, <2>3, <2>4
<1> QED BY <1>1, <1>2, <1>3, <1>4, <1>5, <1>6 DEF Shaped

LEMMA ShapedInit == Init => Shaped
BY BlankShape, Numbers DEF Init, Shaped, NoOverlay, Streaks, Times

-----------------------------------------------------------------------------
(* Bulk deletions.                                                         *)

\* A refusal some memory holds, and that has not expired, has been made.
Backed(m) == m.refused # None /\ now <= m.refused.at + RecordTTL => m.refused \in refusals

BulkInv == Shaped /\ Backed(mem) /\ Backed(disk)

\* Time passes, and unexpired refusals stay.
LEMMA RefusalsStay ==
    ASSUME Shaped, [Next]_vars
    PROVE  /\ now \in Nat /\ now' \in Nat /\ now <= now'
           /\ \A r \in refusals : now' <= r.at + RecordTTL => r \in refusals'
<1>1. now \in Nat
  BY Numbers DEF Shaped, Times
<1>2. CASE Tick
  BY <1>1, <1>2 DEF Tick
<1>3. CASE Operator
  BY <1>1, <1>3 DEF Operator, HandAdd, HandTake, HandRemove, HandSlip, Truncate, Curate, Edit,
     history
<1>4. CASE MergeRefused
  BY <1>1, <1>4 DEF MergeRefused
<1>5. CASE ~Tick /\ ~Operator /\ ~MergeRefused
  BY <1>1, <1>5 DEF Next, Publish, Load, Scan, Recheck, Withhold, WithholdNothing, MergeSame,
     MergeSmall, MergeConfirmed, Proceed, Write, WriteFails, Abandon, history, vars
<1> QED BY <1>2, <1>3, <1>4, <1>5

LEMMA BulkStep == BulkInv /\ [Next]_vars => BulkInv'
<1> SUFFICES ASSUME BulkInv, [Next]_vars PROVE BulkInv'
  OBVIOUS
<1>0. Shaped /\ Backed(mem) /\ Backed(disk) /\ Shaped'
  BY ShapedStep DEF BulkInv
<1>1. /\ now \in Nat /\ now' \in Nat /\ now <= now'
      /\ \A r \in refusals : now' <= r.at + RecordTTL => r \in refusals'
  BY <1>0, RefusalsStay
<1>2. ASSUME NEW r \in {mem.refused, disk.refused, None}, r # None, now' <= r.at + RecordTTL
      PROVE  r \in refusals'
  <2>1. r.at \in Nat
    BY <1>0, <1>2, Numbers DEF Shaped, Shape, Proposals, Times
  <2>2. now <= r.at + RecordTTL
    BY <1>1, <1>2, <2>1, Numbers
  <2> QED BY <1>0, <1>1, <1>2, <2>2 DEF Backed
<1>3. CASE RefusalCarried
  BY <1>0, <1>2, <1>3 DEF RefusalCarried, BulkInv, Backed
<1>4. CASE MergeRefused
  <2> DEFINE r == [at |-> now, urls |-> Deleted]
  <2>1. mem'.refused = None
    BY <1>4, EndBlank DEF MergeRefused, Blank
  <2>2. disk' = disk \/ (disk' = [mem EXCEPT !.refused = r] /\ r \in refusals')
    BY <1>4 DEF MergeRefused, Persist
  <2>3. disk'.refused = disk.refused \/ (disk'.refused = r /\ r \in refusals')
    BY <1>0, <2>2 DEF Shaped, Shape
  <2> HIDE DEF r
  <2> QED BY <1>0, <1>2, <2>1, <2>3 DEF BulkInv, Backed
<1> QED BY <1>0, <1>3, <1>4, MemorySteps

LEMMA BulkInit == Init => BulkInv
BY ShapedInit DEF Init, BulkInv, Backed, Blank

-----------------------------------------------------------------------------
(* Evidence.                                                               *)

\* Every streak some memory holds has been observed, cycle by cycle.
Witnessed(m) ==
    \A u \in Loadable : m.streak[u] # None /\ m.streak[u].n > 0 =>
        m.streak[u].n <= observed[u].n /\ observed[u].since <= m.streak[u].since

Judging == pc \in {"reload", "merge", "write"}

EvidenceInv ==
    /\ Shaped /\ Witnessed(mem) /\ Witnessed(disk)
    /\ \A u \in Loadable : observed[u].since <= now
    /\ Judging => /\ prune /\ start # {} => live # {}
                  /\ \A u \in Loadable \cap stale : RunOut(observed[u])
    /\ DeletedOnEvidence

LEMMA BlankStreak == \A u \in Urls : Blank.streak[u] = None
BY DEF Blank

\* What the recheck makes of the streaks is observed.
LEMMA AgeWitnessed ==
    ASSUME Shaped, Witnessed(mem), NEW alive, NEW saved, Observe(alive, saved),
           \A u \in Loadable : observed[u].since <= now,
           NEW u \in Loadable, Age(mem.streak, alive)[u] # None, Age(mem.streak, alive)[u].n > 0
    PROVE  /\ Age(mem.streak, alive)[u].n <= observed'[u].n
           /\ observed'[u].since <= Age(mem.streak, alive)[u].since
<1> DEFINE s == mem.streak[u]
           o == observed[u]
<1>1. u \in start /\ u \notin alive
  BY Numbers DEF Age
<1>2. Age(mem.streak, alive)[u] = IF s = None \/ s.n = 0 THEN [n |-> 1, since |-> now]
                                  ELSE [s EXCEPT !.n = Smaller(@ + 1, RetireCycles)]
  BY <1>1, Numbers DEF Age
<1>3. observed'[u] = IF o.n = 0 THEN [n |-> 1, since |-> now]
                     ELSE [o EXCEPT !.n = Smaller(@ + 1, RetireCycles)]
  BY <1>1 DEF Observe
<1>4. o \in Streaks /\ o.since <= now /\ now \in Nat
  BY Numbers DEF Shaped, Times
<1>5. CASE s = None \/ s.n = 0
  <2>1. observed'[u].n >= 1 /\ observed'[u].since <= now
    BY <1>3, <1>4, Numbers DEF Smaller, Streaks
  <2> QED BY <1>2, <1>5, <2>1
<1>6. CASE s # None /\ s.n # 0
  <2>1. s \in Streaks
    BY <1>6, Numbers DEF Shaped, Shape
  <2>2. s.n > 0 /\ s.n <= o.n /\ o.since <= s.since
    BY <1>6, <2>1 DEF Witnessed, Streaks
  <2>3. o.n # 0
    BY <1>4, <2>1, <2>2 DEF Streaks
  <2> HIDE DEF s, o
  <2>4. Age(mem.streak, alive)[u].n = Smaller(s.n + 1, RetireCycles)
        /\ Age(mem.streak, alive)[u].since = s.since
        /\ observed'[u].n = Smaller(o.n + 1, RetireCycles) /\ observed'[u].since = o.since
    BY <1>2, <1>3, <1>4, <1>6, <2>1, <2>3 DEF Streaks
  <2> QED BY <1>4, <2>1, <2>2, <2>4, Numbers DEF Smaller, Streaks
<1> QED BY <1>5, <1>6

\* What is on disk stays observed, unless the recheck replaces it.
LEMMA OldWitnessed ==
    ASSUME Shaped, NEW m \in Shape, Witnessed(m), NEW alive, Observe(alive, FALSE),
           \A u \in Loadable : observed[u].since <= now,
           NEW u \in Loadable, m.streak[u] # None, m.streak[u].n > 0
    PROVE  m.streak[u].n <= observed'[u].n /\ observed'[u].since <= m.streak[u].since
<1> DEFINE s == m.streak[u]
           o == observed[u]
<1>1. s \in Streaks /\ o \in Streaks /\ s.n <= o.n /\ o.since <= s.since
  BY Numbers DEF Shaped, Shape, Witnessed
<1>2. o.n # 0
  BY <1>1 DEF Streaks
<1>3. observed'[u] \in {o, [o EXCEPT !.n = Smaller(@ + 1, RetireCycles)]}
  BY <1>2 DEF Observe
<1> HIDE DEF s, o
<1> QED BY <1>1, <1>3, Numbers DEF Smaller, Streaks, s

LEMMA RecheckEvidence ==
    ASSUME EvidenceInv, Recheck
    PROVE  /\ Witnessed(mem)' /\ Witnessed(disk)'
           /\ \A u \in Loadable : observed'[u].since <= now
           /\ prune' /\ start' # {} => live' # {}
           /\ \A u \in Loadable \cap stale' : RunOut(observed[u])'
<1>0. /\ Shaped /\ Witnessed(mem) /\ Witnessed(disk)
      /\ \A u \in Loadable : observed[u].since <= now
      /\ mem \in Shape /\ disk \in Shape
  BY DEF EvidenceInv, Shaped
<1>1. PICK revived, gone :
        LET alive == live \cup revived
            judged == Judged(mem, stale \cup gone, alive)
        IN  /\ live' = alive
            /\ prune' = ~Dark(revived)
            /\ IF Dark(revived)
               THEN /\ stale' = {}
                    /\ UNCHANGED <<mem, disk, faults, observed>>
               ELSE /\ mem' = judged
                    /\ stale' = {u \in start : RunOut(judged.streak[u])}
                    /\ Persist(judged)
                    /\ Observe(alive, disk' = judged)
  BY DEF Recheck
<1> DEFINE alive == live \cup revived
           judged == Judged(mem, stale \cup gone, alive)
<1>2. now' = now /\ start' = start
  BY DEF Recheck
<1>3. CASE Dark(revived)
  BY <1>0, <1>1, <1>2, <1>3 DEF Witnessed
<1>4. CASE ~Dark(revived)
  <2>1. /\ mem' = judged /\ live' = alive
        /\ stale' = {u \in start : RunOut(judged.streak[u])}
        /\ disk' = judged \/ disk' = disk
        /\ Observe(alive, disk' = judged)
    BY <1>1, <1>4 DEF Persist
  <2>2. judged \in Shape /\ judged.streak = Age(mem.streak, alive)
    BY <1>0, JudgedLike
  <2> HIDE DEF judged
  <2>3. ASSUME NEW u \in Loadable, judged.streak[u] # None, judged.streak[u].n > 0
        PROVE  judged.streak[u].n <= observed'[u].n /\ observed'[u].since <= judged.streak[u].since
    BY <1>0, <2>1, <2>2, <2>3, AgeWitnessed
  <2>4. Witnessed(mem)'
    BY <2>1, <2>3 DEF Witnessed
  <2>5. Witnessed(disk)'
    <3>1. CASE disk' = judged
      BY <2>3, <3>1 DEF Witnessed
    <3>2. CASE disk' # judged
      <4>1. Observe(alive, FALSE)
        BY <2>1, <3>2 DEF Observe
      <4> QED BY <1>0, <2>1, <3>2, <4>1, OldWitnessed DEF Witnessed
    <3> QED BY <3>1, <3>2
  <2>6. \A u \in Loadable : observed'[u].since <= now
    <3>1. ASSUME NEW u \in Loadable PROVE observed'[u].since <= now
      <4>1. observed'[u] \in {[n |-> 1, since |-> now], [n |-> 0, since |-> 0], observed[u],
                               [observed[u] EXCEPT !.n = Smaller(@ + 1, RetireCycles)]}
        BY <2>1 DEF Observe
      <4>2. observed[u] \in Streaks /\ now \in Nat
        BY <1>0, Numbers DEF Shaped, Times
      <4> QED BY <1>0, <4>1, <4>2 DEF Streaks
    <3> QED BY <3>1
  <2>7. start # {} => live' # {}
    BY <1>4, <2>1 DEF Dark
  <2>8. ASSUME NEW u \in Loadable, u \in stale' PROVE RunOut(observed'[u])
    <3>1. u \in start /\ u \in Urls /\ RunOut(judged.streak[u])
      BY <1>0, <2>1, <2>8 DEF Shaped
    <3>2. judged.streak[u] \in Streaks
      <4>1. CASE u \in alive
        BY <2>2, <3>1, <4>1, Numbers DEF Age, Streaks, Times
      <4>2. CASE u \notin alive /\ (mem.streak[u] = None \/ mem.streak[u].n = 0)
        BY <1>0, <2>2, <3>1, <4>2, Numbers DEF Age, Streaks, Shaped
      <4>3. CASE u \notin alive /\ ~(mem.streak[u] = None \/ mem.streak[u].n = 0)
        <5>1. judged.streak[u] = [mem.streak[u] EXCEPT !.n = Smaller(@ + 1, RetireCycles)]
          BY <2>2, <3>1, <4>3 DEF Age
        <5>2. mem.streak[u] \in Streaks
          BY <1>0, <3>1, <4>3 DEF Shape
        <5> QED BY <5>1, <5>2, Numbers DEF Smaller, Streaks
      <4> QED BY <4>1, <4>2, <4>3
    <3>3. judged.streak[u] # None /\ judged.streak[u].n > 0
      BY <3>1, <3>2, Numbers, NoneAssumption DEF RunOut, Streaks
    <3>4. observed'[u] \in Streaks
      BY <1>0, <2>1, <3>1, ObserveType
    <3> QED BY <1>0, <2>3, <3>1, <3>2, <3>3, <3>4, Numbers DEF RunOut, Streaks, Times, Shaped
  <2> QED BY <1>2, <2>4, <2>5, <2>6, <2>7, <2>8 DEF RunOut
<1> QED BY <1>3, <1>4

\* Every other step of a cycle leaves what the recheck learned.
LEMMA OtherSteps ==
    ASSUME [Next]_vars, ~Recheck
    PROVE  /\ observed' = observed
           /\ Judging' => Judging /\ UNCHANGED <<start, live, unknown, stale, prune>>
<1>1. observed' = observed
  BY DEF Next, Tick, Publish, Operator, HandAdd, HandTake, HandRemove, HandSlip, Truncate,
     Curate, Edit, Load, Scan, Withhold, WithholdNothing, MergeSame, MergeSmall, MergeConfirmed,
     Proceed, MergeRefused, Write, WriteFails, Abandon, history, vars
<1>2. Judging' => Judging /\ UNCHANGED <<start, live, unknown, stale, prune>>
  BY DEF Next, Tick, Publish, Operator, HandAdd, HandTake, HandRemove, HandSlip, Truncate,
     Curate, Edit, Load, Scan, Withhold, WithholdNothing, Reload, MergeSame, MergeSmall,
     MergeConfirmed, Proceed, MergeRefused, Write, WriteFails, Abandon, EndCycle, cycle, vars,
     Judging
<1> QED BY <1>1, <1>2

\* A write comes from the merge, or waits.
LEMMA WriteSteps ==
    ASSUME [Next]_vars, pc' = "write"
    PROVE  \/ MergeSmall \/ MergeConfirmed
           \/ pc = "write" /\ UNCHANGED <<cycle, mem, amnesia>> /\ disk' = disk
BY DEF Next, Tick, Publish, Operator, HandAdd, HandTake, HandRemove, HandSlip, Truncate, Curate,
   Edit, Load, Scan, Recheck, Withhold, WithholdNothing, Reload, MergeSame, MergeRefused, Write,
   WriteFails, Abandon, EndCycle, cycle, vars

\* What the merge drops.
LEMMA ProceedDrops ==
    ASSUME Proceed, NEW u \in (Managed(pf) \ denied) \cap Loadable, next'[u] = None
    PROVE  ~Retained(u)
<1>1. u \in Urls /\ pf[u] # None
  BY DEF Managed
<1>2. next' = Merged({HandName[v] : v \in curated})
  BY DEF Proceed
<1>3. next'[u] = IF u \in Managed(pf) \ Kept THEN None ELSE pf[u]
  BY <1>1, <1>2 DEF Merged
<1>4. u \notin Kept
  BY <1>1, <1>3
<1> QED BY <1>1, <1>4 DEF Kept

LEMMA EvidenceStep == EvidenceInv /\ [Next]_vars => EvidenceInv'
<1> SUFFICES ASSUME EvidenceInv, [Next]_vars PROVE EvidenceInv'
  OBVIOUS
<1>0. /\ Shaped /\ Shaped' /\ Witnessed(mem) /\ Witnessed(disk)
      /\ \A u \in Loadable : observed[u].since <= now
  BY ShapedStep DEF EvidenceInv
<1>1. now \in Nat /\ now' \in Nat /\ now <= now'
  BY <1>0, RefusalsStay
<1>2. CASE Recheck
  <2>1. pc' = "reload" /\ now' = now
    BY <1>2 DEF Recheck
  <2> QED BY <1>0, <1>2, <2>1, RecheckEvidence DEF EvidenceInv, DeletedOnEvidence
<1>3. CASE ~Recheck
  <2>1. observed' = observed /\ (Judging' => Judging /\ UNCHANGED <<start, live, unknown, stale, prune>>)
    BY <1>3, OtherSteps
  <2>2. StreakCarried
    BY <1>0, <1>3, MemorySteps
  <2>3. Witnessed(mem)' /\ Witnessed(disk)'
    BY <1>0, <2>1, <2>2, BlankStreak, Numbers DEF StreakCarried, Witnessed
  <2>4. ASSUME NEW u \in Loadable PROVE observed'[u].since <= now'
    <3>1. observed[u].since <= now /\ observed[u].since \in Nat
      BY <1>0 DEF Shaped, Streaks, Times
    <3> QED BY <1>1, <2>1, <3>1
  <2>5. ASSUME NEW u \in Loadable, RunOut(observed[u]) PROVE RunOut(observed[u])'
    <3>1. observed[u].since \in Nat
      BY <1>0 DEF Shaped, Streaks, Times
    <3> QED BY <1>1, <2>1, <2>5, <3>1, Numbers DEF RunOut
  <2>6. Judging' => /\ prune' /\ start' # {} => live' # {}
                    /\ \A u \in Loadable \cap stale' : RunOut(observed[u])'
    BY <2>1, <2>5 DEF EvidenceInv
  <2>7. ASSUME pc' = "write", NEW u \in Dropped' \cap Loadable
        PROVE  /\ u \in start' \ live' /\ live' # {}
               /\ u \in unknown' => RunOut(observed[u])'
    <3>1. Judging /\ UNCHANGED <<start, live, unknown, stale, prune>>
      BY <2>1, <2>7 DEF Judging
    <3>2. CASE MergeSmall \/ MergeConfirmed
      <4>1. Proceed /\ UNCHANGED <<pf, denied>>
        BY <3>2 DEF MergeSmall, MergeConfirmed, Proceed
      <4>2. u \in Managed(pf) \ denied /\ next'[u] = None /\ u \in Urls
        BY <2>7, <4>1 DEF Dropped, Managed
      <4>3. ~Retained(u)
        BY <4>1, <4>2, ProceedDrops
      <4>4. u \in start \ live /\ live # {} /\ (u \in unknown => u \in stale)
        BY <3>1, <4>3 DEF Retained, EvidenceInv
      <4> QED BY <2>6, <2>7, <3>1, <4>2, <4>4 DEF Judging
    <3>3. CASE pc = "write" /\ UNCHANGED cycle
      <4>1. u \in Dropped \cap Loadable
        BY <2>7, <3>3 DEF Dropped, cycle, Managed
      <4>2. u \in start \ live /\ live # {} /\ (u \in unknown => RunOut(observed[u]))
        BY <3>3, <4>1 DEF EvidenceInv, DeletedOnEvidence
      <4> QED BY <2>5, <3>1, <4>1, <4>2
    <3> QED BY <2>7, <3>2, <3>3, WriteSteps
  <2>8. DeletedOnEvidence'
    BY <2>7 DEF DeletedOnEvidence
  <2> QED BY <1>0, <2>3, <2>4, <2>6, <2>8 DEF EvidenceInv
<1> QED BY <1>2, <1>3

LEMMA EvidenceInit == Init => EvidenceInv
BY ShapedInit, Numbers DEF Init, EvidenceInv, Witnessed, Blank, Judging, DeletedOnEvidence

-----------------------------------------------------------------------------
(* Barren lists.                                                           *)

\* A record of a name is covered by the barren lists seen, one of them still to
\* be folded when the latest is barren and newer than the record.
Covered(n, e) ==
    /\ e.published <= lists /\ e.barren <= barrenLists[n]
    /\ rows[n] = "barren" => IF e.published < lists THEN e.barren + 1 <= barrenLists[n]
                             ELSE e.barren >= 1

Counted(m) == \A n \in Names : m.probation[n] # None => Covered(n, m.probation[n])

RowsCounted == \A n \in Names : /\ barrenLists[n] <= lists
                                /\ rows[n] = "barren" => barrenLists[n] >= 1

BarrenInv == Shaped /\ RowsCounted /\ Counted(mem) /\ Counted(disk)

LEMMA BlankRecord == \A n \in Names : Blank.probation[n] = None
BY DEF Blank

LEMMA PublishCounted ==
    ASSUME BarrenInv, Publish
    PROVE  RowsCounted' /\ Counted(mem)' /\ Counted(disk)'
<1>1. /\ lists \in Nat /\ lists' = lists + 1 /\ mem' = mem /\ disk' = disk
      /\ \A n \in Names : barrenLists[n] \in Nat
      /\ mem \in Shape /\ disk \in Shape
  BY DEF BarrenInv, Shaped, Publish
<1>2. \A n \in Names : IF rows'[n] = "barren" THEN barrenLists'[n] = barrenLists[n] + 1
                       ELSE barrenLists'[n] = barrenLists[n]
  BY DEF Publish
<1>3. RowsCounted'
  BY <1>1, <1>2 DEF RowsCounted, BarrenInv
<1>4. ASSUME NEW m \in Shape, Counted(m), NEW n \in Names, m.probation[n] # None
      PROVE  Covered(n, m.probation[n])'
  <2>1. m.probation[n] \in [barren : Nat, published : Nat \ {0}]
    BY <1>4 DEF Shape
  <2>2. m.probation[n].published <= lists /\ m.probation[n].barren <= barrenLists[n]
    BY <1>4 DEF Counted, Covered
  <2> QED BY <1>1, <1>2, <2>1, <2>2 DEF Covered
<1>5. Counted(mem)' /\ Counted(disk)'
  BY <1>1, <1>4 DEF Counted, BarrenInv
<1> QED BY <1>3, <1>5

\* What foldOutcome makes of a record.
LEMMA FoldCovered ==
    ASSUME BarrenInv, NEW known, NEW n \in Names, Fold(mem.probation, known)[n] # None, n \in known
    PROVE  LET e == Fold(mem.probation, known)[n]
           IN  Covered(n, e) /\ (rows[n] = "barren" => e.barren >= 1)
<1> DEFINE e == mem.probation[n]
           f == Fold(mem.probation, known)[n]
<1>1. /\ lists \in Nat /\ barrenLists[n] \in Nat
      /\ e # None => e \in [barren : Nat, published : Nat \ {0}] /\ Covered(n, e)
      /\ rows[n] = "barren" => barrenLists[n] >= 1
  BY DEF BarrenInv, Shaped, Shape, Counted, RowsCounted
<1>2. CASE rows[n] = "none" \/ (e # None /\ lists <= e.published)
  <2>1. f = e /\ e # None
    BY <1>2 DEF Fold
  <2>2. rows[n] = "barren" => ~(e.published < lists)
    BY <1>1, <1>2, <2>1
  <2> QED BY <1>1, <2>1, <2>2 DEF Covered
<1>3. CASE rows[n] # "none" /\ ~(e # None /\ lists <= e.published)
  <2>1. f = [published |-> lists, barren |-> IF rows[n] = "alive" THEN 0
                                             ELSE IF e = None THEN 1 ELSE e.barren + 1]
    BY <1>3 DEF Fold
  <2>2. CASE rows[n] = "barren"
    <3>1. CASE e = None
      BY <1>1, <2>1, <2>2, <3>1 DEF Covered
    <3>2. CASE e # None
      <4>1. e.published < lists /\ e.barren + 1 <= barrenLists[n] /\ e.barren \in Nat
        BY <1>1, <1>3, <2>2, <3>2 DEF Covered
      <4> QED BY <1>1, <2>1, <2>2, <3>2, <4>1 DEF Covered
    <3> QED BY <3>1, <3>2
  <2>3. CASE rows[n] = "alive"
    BY <1>1, <2>1, <2>3 DEF Covered
  <2>4. rows[n] \in {"none", "barren", "alive"}
    BY DEF BarrenInv, Shaped
  <2> QED BY <1>3, <2>2, <2>3, <2>4
<1> QED BY <1>2, <1>3

LEMMA WithholdCounted ==
    ASSUME BarrenInv, Withhold
    PROVE  RowsCounted' /\ Counted(mem)' /\ Counted(disk)'
<1>0. Shaped /\ lists' = lists /\ rows' = rows
  BY DEF BarrenInv, Withhold, service
<1>1. PICK condemned : mem'.probation = KeptFold(condemned)
  BY <1>0, WithholdMemory DEF Withdrawn
<1> DEFINE known == NamesIn(file, Gh(file))
<1>2. ASSUME NEW n \in Names, mem'.probation[n] # None
      PROVE  Covered(n, mem'.probation[n]) /\ (rows[n] = "barren" => mem'.probation[n].barren >= 1)
  <2>1. n \in known /\ mem'.probation[n] = Fold(mem.probation, known)[n]
    BY <1>1, <1>2 DEF KeptFold, Keep
  <2> HIDE DEF known
  <2> QED BY <1>2, <2>1, FoldCovered
<1>3. ASSUME NEW n \in Names
      PROVE  \/ barrenLists'[n] = barrenLists[n]
             \/ /\ barrenLists'[n] = 0 /\ disk' = mem' /\ rows[n] # "barren"
                /\ mem'.probation[n] # None /\ mem'.probation[n].barren = 0
  BY <1>0, <1>2, WithholdMemory
<1>4. RowsCounted'
  BY <1>0, <1>3, Numbers DEF BarrenInv, RowsCounted, Shaped
<1>5. Counted(mem)'
  <2>1. ASSUME NEW n \in Names, mem'.probation[n] # None PROVE Covered(n, mem.probation[n])'
    BY <1>0, <1>2, <1>3, <2>1 DEF Covered
  <2> QED BY <2>1 DEF Counted
<1>6. CASE disk' = mem'
  BY <1>4, <1>5, <1>6 DEF Counted
<1>7. CASE disk' # mem'
  <2>1. disk' = disk /\ \A n \in Names : barrenLists'[n] = barrenLists[n]
    BY <1>0, <1>3, <1>7, WithholdMemory
  <2>2. Counted(disk)'
    BY <1>0, <2>1 DEF BarrenInv, Counted, Covered
  <2> QED BY <1>4, <1>5, <2>2
<1> QED BY <1>6, <1>7

LEMMA BarrenStep == BarrenInv /\ [Next]_vars => BarrenInv'
<1> SUFFICES ASSUME BarrenInv, [Next]_vars PROVE BarrenInv'
  OBVIOUS
<1>0. Shaped /\ Shaped'
  BY ShapedStep DEF BarrenInv
<1>1. CASE Publish
  BY <1>0, <1>1, PublishCounted DEF BarrenInv
<1>2. CASE Withhold
  BY <1>0, <1>2, WithholdCounted DEF BarrenInv
<1>3. CASE ~Publish /\ ~Withhold
  <2>1. UNCHANGED <<lists, rows, barrenLists>>
    BY <1>3 DEF Next, Tick, Operator, HandAdd, HandTake, HandRemove, HandSlip, Truncate, Curate,
       Edit, Load, Scan, Recheck, WithholdNothing, MergeSame, MergeSmall, MergeConfirmed,
       Proceed, MergeRefused, Write, WriteFails, Abandon, service, history, vars
  <2>2. ProbationCarried
    BY <1>0, <1>3, MemorySteps
  <2>3. \A m : Counted(m) => \A n \in Names : m.probation[n] # None => Covered(n, m.probation[n])'
    BY <2>1 DEF Counted, Covered
  <2>4. Counted(mem)' /\ Counted(disk)'
    BY <2>2, <2>3, BlankRecord DEF ProbationCarried, BarrenInv, Counted
  <2>5. RowsCounted'
    BY <2>1 DEF RowsCounted, BarrenInv
  <2> QED BY <1>0, <2>4, <2>5 DEF BarrenInv
<1> QED BY <1>1, <1>2, <1>3

LEMMA BarrenInit == Init => BarrenInv
BY ShapedInit DEF Init, BarrenInv, Counted, RowsCounted, Blank

-----------------------------------------------------------------------------
(* Types.                                                                  *)

LEMMA MemoryTypes ==
    ASSUME BarrenInv
    PROVE  mem \in Memories /\ disk \in Memories
<1>1. ASSUME NEW m \in Shape, Counted(m) PROVE m \in Memories
  <2>1. ASSUME NEW n \in Names PROVE m.probation[n] \in Folds \cup {None}
    <3>1. CASE m.probation[n] # None
      <4>1. /\ m.probation[n] \in [barren : Nat, published : Nat \ {0}]
            /\ Covered(n, m.probation[n])
        BY <1>1, <3>1 DEF Shape, Counted
      <4>2. lists \in 0..MaxLists /\ barrenLists[n] \in Nat /\ barrenLists[n] <= lists
        BY DEF BarrenInv, Shaped, RowsCounted
      <4> QED BY <4>1, <4>2, Numbers DEF Covered, Folds
    <3> QED BY <3>1
  <2> QED BY <2>1 DEF Shape, Memories
<1> QED BY <1>1 DEF BarrenInv, Shaped

\* The types that do not depend on what is counted.
Simple ==
    /\ pc \in {"idle", "scan", "recheck", "reload", "merge", "write"}
    /\ curated \subseteq Urls /\ edits \in 0..MaxEdits
    /\ faults \in 0..MaxFaults /\ amnesia \in BOOLEAN /\ prune \in BOOLEAN
    /\ live \subseteq Urls /\ unknown \subseteq Urls
    /\ stale \subseteq Urls /\ denied \subseteq Urls /\ reserved \subseteq Names
    /\ refusals \subseteq Proposals

LEMMA SimpleStep == Shaped /\ Simple /\ [Next]_vars => Simple'
<1> SUFFICES ASSUME Shaped, Simple, [Next]_vars PROVE Simple'
  OBVIOUS
<1>0. /\ MaxEdits \in Nat /\ MaxFaults \in Nat /\ \A u \in Urls : HandName[u] \in Names
      /\ edits + 1 \in Nat /\ faults + 1 \in Nat /\ GhUrls \subseteq Urls
  BY CrawlAssumption DEF Simple
<1>1. ASSUME NEW m, Persist(m) PROVE faults' \in 0..MaxFaults
  BY <1>0, <1>1 DEF Persist, Simple
<1>2. ASSUME EndCycle
      PROVE  /\ pc' = "idle" /\ amnesia' \in BOOLEAN /\ prune' \in BOOLEAN /\ live' \subseteq Urls
             /\ unknown' \subseteq Urls /\ stale' \subseteq Urls /\ denied' \subseteq Urls
             /\ reserved' \subseteq Names
  BY <1>2 DEF EndCycle
<1>3. CASE Tick \/ Publish \/ UNCHANGED vars
  BY <1>3 DEF Tick, Publish, Simple, world, service, cycle, history, vars
<1>4. CASE Operator
  BY <1>0, <1>4 DEF Operator, HandAdd, HandTake, HandRemove, HandSlip, Truncate, Curate, Edit,
     Simple, cycle, history
<1>5. CASE Load
  BY <1>0, <1>5 DEF Load, Simple, world, history
<1>6. CASE Scan
  <2>1. live' \subseteq Urls /\ stale' \subseteq Urls
    BY <1>0, <1>6, Numbers DEF Scan, Offers
  <2>2. faults' \in 0..MaxFaults
    BY <1>1, <1>6 DEF Scan
  <2> QED BY <1>6, <2>1, <2>2 DEF Scan, Simple, world, history
<1>7. CASE Recheck
  <2>1. live' \subseteq Urls /\ stale' \subseteq Urls /\ unknown' \subseteq Urls /\ prune' \in BOOLEAN
    BY <1>7 DEF Recheck, Simple, Shaped, Dark
  <2>2. faults' \in 0..MaxFaults
    BY <1>1, <1>7 DEF Recheck, Simple
  <2> QED BY <1>7, <2>1, <2>2 DEF Recheck, Simple, world
<1>8. CASE Withhold
  <2>1. denied' \subseteq Urls
    BY <1>0, <1>8 DEF Withhold, Simple, Gh, Managed
  <2>2. faults' \in 0..MaxFaults
    BY <1>1, <1>8 DEF Withhold
  <2> QED BY <1>8, <2>1, <2>2 DEF Withhold, Reload, Simple, world
<1>9. CASE WithholdNothing
  BY <1>1, <1>9 DEF WithholdNothing, Reload, Simple, world, history
<1>10. CASE MergeSame
  <2>1. faults' \in 0..MaxFaults
    BY <1>1, <1>10 DEF MergeSame, PersistWithdrawal, Simple
  <2> QED BY <1>2, <1>10, <2>1 DEF MergeSame, Simple, world
<1>11. CASE MergeSmall \/ MergeConfirmed
  <2>1. Proceed
    BY <1>11 DEF MergeSmall, MergeConfirmed
  <2>2. faults' \in 0..MaxFaults
    BY <1>1, <2>1 DEF Proceed, PersistWithdrawal, Simple
  <2>3. reserved' \subseteq Names
    BY <1>0, <2>1 DEF Proceed, Simple
  <2> QED BY <2>1, <2>2, <2>3 DEF Proceed, Simple, world, history
<1>12. CASE MergeRefused
  <2>1. faults' \in 0..MaxFaults
    BY <1>1, <1>12 DEF MergeRefused, Simple
  <2>2. [at |-> now, urls |-> Deleted] \in Proposals
    BY DEF Proposals, Deleted, Shaped, Managed
  <2>3. refusals' \subseteq Proposals
    BY <1>12, <2>2 DEF MergeRefused, Simple
  <2> QED BY <1>2, <1>12, <2>1, <2>3 DEF MergeRefused, Simple, world
<1>13. CASE Write \/ WriteFails \/ Abandon
  BY <1>0, <1>2, <1>13 DEF Write, WriteFails, Abandon, Simple, world
<1> QED BY <1>3, <1>4, <1>5, <1>6, <1>7, <1>8, <1>9, <1>10, <1>11, <1>12, <1>13 DEF Next

LEMMA SimpleInit == Init => Simple
<1>1. MaxEdits \in Nat /\ MaxFaults \in Nat
  BY CrawlAssumption
<1> SUFFICES ASSUME Init PROVE Simple
  OBVIOUS
<1>2. edits = 0 /\ faults = 0
  BY DEF Init
<1>3. pc = "idle" /\ amnesia \in BOOLEAN /\ prune \in BOOLEAN
  BY Zenon DEF Init
<1>4. /\ curated = {} /\ live = {} /\ unknown = {} /\ stale = {} /\ denied = {}
      /\ reserved = {} /\ refusals = {}
  BY DEF Init
<1> QED BY <1>1, <1>2, <1>3, <1>4 DEF Simple

-----------------------------------------------------------------------------
(* An emptied overlay.                                                     *)

Working == pc \in {"scan", "recheck", "reload", "merge", "write"}

\* Nothing remembered, or a file that could not be read.
Forgotten == Remembered(mem) = {} /\ (amnesia \/ Remembered(disk) = {})

EmptiedInv ==
    /\ Shaped
    /\ Working /\ start = {} => Forgotten
    /\ pc \in {"reload", "merge"} => /\ ~prune => live = {}
                                     /\ prune /\ start # {} => Remembered(mem) # {}
    /\ pc = "merge" /\ Managed(pf) = {} => Remembered(mem) = {}
    /\ NeverRebuilt

\* In the middle of a cycle, only the recheck touches the streaks.
LEMMA WorkSteps ==
    ASSUME Shaped, [Next]_vars, ~Load, ~Recheck, Working'
    PROVE  /\ Working /\ start' = start /\ amnesia' = amnesia /\ mem'.streak = mem.streak
           /\ disk'.streak = disk.streak \/ (~amnesia /\ disk'.streak = mem.streak)
<1>1. CASE Tick \/ Operator \/ Publish \/ UNCHANGED vars
  BY <1>1 DEF Tick, Operator, Publish, HandAdd, HandTake, HandRemove, HandSlip, Truncate,
     Curate, Edit, cycle, vars, Working
<1>2. CASE Scan \/ WithholdNothing
  BY <1>2 DEF Scan, WithholdNothing, Reload, Persist, Working
<1>3. CASE Withhold
  <2>1. mem'.streak = mem.streak /\ (disk' = mem' \/ disk' = disk)
    BY <1>3, WithholdMemory DEF Withdrawn
  <2>2. amnesia => disk' = disk
    BY <1>3 DEF Withhold, Persist
  <2> QED BY <1>3, <2>1, <2>2 DEF Withhold, Reload, Working
<1>4. CASE MergeSmall \/ MergeConfirmed
  <2>1. /\ mem' = Withdraw /\ start' = start /\ amnesia' = amnesia /\ pc = "merge"
        /\ disk' = disk \/ (~amnesia /\ disk' = Withdraw)
    BY <1>4 DEF MergeSmall, MergeConfirmed, Proceed, PersistWithdrawal, Persist
  <2> QED BY <2>1, WithdrawShape DEF Working
<1> QED BY <1>1, <1>2, <1>3, <1>4 DEF Next, MergeSame, MergeRefused, Write, WriteFails, Abandon,
        EndCycle, Working

\* The merge works on the overlay of the reload.
LEMMA MergeSteps ==
    ASSUME [Next]_vars, ~Recheck, pc' \in {"reload", "merge"}
    PROVE  /\ pc \in {"reload", "merge"} /\ UNCHANGED <<start, live, prune>>
           /\ \/ pc' = "reload"
              \/ ~Emptied(mem) /\ pf' = file
              \/ pc = "merge" /\ pf' = pf
BY DEF Next, Tick, Publish, Operator, HandAdd, HandTake, HandRemove, HandSlip, Truncate, Curate,
   Edit, Load, Scan, Withhold, WithholdNothing, Reload, MergeSame, MergeSmall, MergeConfirmed,
   Proceed, MergeRefused, Write, WriteFails, Abandon, EndCycle, cycle, vars

\* Without managed sources, and without live ones, there is nothing to write.
LEMMA NothingToWrite ==
    ASSUME Shaped, Managed(pf) = {}, live = {} PROVE ~Proceed
<1>1. Kept = {}
  BY DEF Kept
<1>2. ASSUME NEW taken PROVE Merged(taken) = pf
  <2>1. Merged(taken) = [u \in Urls |-> pf[u]]
    BY <1>1 DEF Merged
  <2> QED BY <2>1 DEF Shaped
<1> QED BY <1>2 DEF Proceed

LEMMA EmptiedStep == EmptiedInv /\ [Next]_vars => EmptiedInv'
<1> SUFFICES ASSUME EmptiedInv, [Next]_vars PROVE EmptiedInv'
  OBVIOUS
<1>0. Shaped /\ Shaped' /\ mem \in Shape /\ disk \in Shape
  BY ShapedStep DEF EmptiedInv, Shaped
<1>1. CASE Load
  <2>1. PICK m \in {Blank, disk} : /\ mem' = Unexpired(m) /\ disk' = disk /\ ~Emptied(m)
                                   /\ m = disk \/ amnesia'
    BY <1>1 DEF Load
  <2>2. mem'.streak = m.streak
    BY <1>0, <2>1, BlankShape, UnexpiredLike DEF Like
  <2>3. pc' = "scan" /\ start' = Managed(file)
    BY <1>1 DEF Load
  <2>4. start' = {} => Forgotten'
    BY <2>1, <2>2, <2>3 DEF Emptied, Forgotten, Remembered
  <2> QED BY <1>0, <2>3, <2>4 DEF EmptiedInv, NeverRebuilt
<1>2. CASE Recheck
  <2>1. pc = "recheck" /\ pc' = "reload" /\ start' = start /\ amnesia' = amnesia
    BY <1>2 DEF Recheck
  <2>2. PICK revived, gone :
          LET alive == live \cup revived
              judged == Judged(mem, stale \cup gone, alive)
          IN  /\ live' = alive /\ prune' = ~Dark(revived)
              /\ IF Dark(revived) THEN mem' = mem /\ disk' = disk
                 ELSE mem' = judged /\ Persist(judged)
    BY <1>2 DEF Recheck
  <2> DEFINE alive == live \cup revived
             judged == Judged(mem, stale \cup gone, alive)
  <2>3. CASE Dark(revived)
    <3>1. mem' = mem /\ disk' = disk /\ ~prune' /\ live' = {} /\ start # {}
      BY <2>2, <2>3 DEF Dark
    <3> QED BY <1>0, <2>1, <3>1 DEF EmptiedInv, NeverRebuilt
  <2>4. CASE ~Dark(revived)
    <3>1. judged.streak = Age(mem.streak, alive)
      BY <1>0, JudgedLike
    <3>2. mem' = judged /\ prune' /\ (disk' = disk \/ (~amnesia /\ disk' = judged))
      BY <2>2, <2>4 DEF Persist
    <3> HIDE DEF judged
    <3>3. Age(mem.streak, alive) \in [Urls -> Streaks \cup {None}]
      BY <1>0, AgeType DEF Shape
    <3>4. Remembered(judged) = start
      <4>1. ASSUME NEW u \in Urls, u \notin start PROVE judged.streak[u] = None
        BY <3>1, <4>1 DEF Age
      <4>2. ASSUME NEW u \in Urls, u \in start PROVE judged.streak[u] # None
        <5>1. [n |-> 0, since |-> 0] \in Streaks /\ [n |-> 1, since |-> now] \in Streaks
          BY <1>0, Numbers DEF Streaks, Times, Shaped
        <5>2. mem.streak[u] # None => [mem.streak[u] EXCEPT !.n = Smaller(@ + 1, RetireCycles)] \in Streaks
          <6>1. CASE mem.streak[u] \in Streaks
            <7>1. Smaller(mem.streak[u].n + 1, RetireCycles) \in 0..RetireCycles
              BY <6>1, Numbers DEF Smaller, Streaks
            <7> QED BY <6>1, <7>1 DEF Streaks
          <6> QED BY <1>0, <6>1 DEF Shape
        <5> QED BY <3>1, <4>2, <5>1, <5>2, NoneAssumption DEF Age
      <4> QED BY <1>0, <4>1, <4>2 DEF Remembered, Shaped
    <3>5. start' = {} => Forgotten'
      BY <2>1, <3>2, <3>4 DEF EmptiedInv, Working, Forgotten, Remembered
    <3> QED BY <1>0, <2>1, <3>2, <3>4, <3>5 DEF EmptiedInv, NeverRebuilt
  <2> QED BY <2>3, <2>4
<1>3. CASE ~Load /\ ~Recheck
  <2>1. Working' => /\ Working /\ start' = start /\ amnesia' = amnesia /\ mem'.streak = mem.streak
                    /\ disk'.streak = disk.streak \/ (~amnesia /\ disk'.streak = mem.streak)
    BY <1>0, <1>3, WorkSteps
  <2>2. Working' /\ start' = {} => Forgotten'
    BY <2>1 DEF EmptiedInv, Forgotten, Remembered
  <2>3. pc' \in {"reload", "merge"} => /\ ~prune' => live' = {}
                                       /\ prune' /\ start' # {} => Remembered(mem)' # {}
    BY <1>3, <2>1, MergeSteps DEF EmptiedInv, Working, Remembered
  <2>4. pc' = "merge" /\ Managed(pf)' = {} => Remembered(mem)' = {}
    BY <1>3, <2>1, MergeSteps DEF EmptiedInv, Working, Remembered, Emptied, Managed
  <2>5. ASSUME pc' = "write", Managed(pf)' = {} PROVE start' = {}
    <3>1. CASE MergeSmall \/ MergeConfirmed
      <4>1. Proceed /\ pc = "merge" /\ pf' = pf /\ start' = start
        BY <3>1 DEF MergeSmall, MergeConfirmed, Proceed
      <4>2. Managed(pf) = {}
        BY <2>5, <4>1 DEF Managed
      <4>3. live # {}
        BY <1>0, <4>1, <4>2, NothingToWrite
      <4> QED BY <4>1, <4>2, <4>3 DEF EmptiedInv
    <3>2. CASE pc = "write" /\ UNCHANGED cycle
      BY <2>5, <3>2 DEF EmptiedInv, NeverRebuilt, cycle, Managed
    <3> QED BY <2>5, <3>1, <3>2, WriteSteps
  <2>6. NeverRebuilt'
    BY <2>2, <2>5 DEF NeverRebuilt, Working, Forgotten
  <2> QED BY <1>0, <2>2, <2>3, <2>4, <2>6 DEF EmptiedInv
<1> QED BY <1>1, <1>2, <1>3

LEMMA EmptiedInit == Init => EmptiedInv
BY ShapedInit DEF Init, EmptiedInv, Working, NeverRebuilt

-----------------------------------------------------------------------------
(* The names of new entries.                                               *)

LEMMA Least ==
    ASSUME NEW S \in SUBSET Nat, S # {}
    PROVE  \E x \in S : \A y \in S : x <= y
<1>1. \A y, z \in Nat : y < z => <<y, z>> \in OpToRel(<, Nat)
  BY DEF OpToRel
<1>2. PICK x \in S : \A y \in S : <<y, x>> \notin OpToRel(<, Nat)
  BY NatLessThanWellFounded, WFMin
<1>3. \A y \in S : ~(y < x)
  BY <1>1, <1>2, Zenon
<1> QED BY <1>3

UpTo(F, k) == {j \in F : j <= k}

\* The elements of F up to one of them, and the next one.
LEMMA UpToNext ==
    ASSUME NEW F \in SUBSET Nat, NEW k \in F, NEW n \in F, k < n,
           \A j \in F : k < j => n <= j
    PROVE  UpTo(F, n) = UpTo(F, k) \cup {n} /\ n \notin UpTo(F, k)
<1>1. k \in Int /\ n \in Int /\ \A j \in F : j \in Int
  OBVIOUS
<1>2. \A j \in F : j <= n <=> j <= k \/ j = n
  BY <1>1
<1>3. ~(n <= k)
  BY <1>1
<1> QED BY <1>2, <1>3 DEF UpTo

LEMMA UpToFinite ==
    ASSUME NEW F \in SUBSET Nat, NEW k \in Nat
    PROVE  IsFiniteSet(UpTo(F, k))
<1>1. UpTo(F, k) \in SUBSET Nat /\ \A j \in UpTo(F, k) : j <= k
  BY DEF UpTo
<1> QED BY <1>1, FS_BoundedSetOfNaturals

\* A set of naturals that has i elements has an i-th one.
LEMMA NthExists ==
    ASSUME NEW F \in SUBSET Nat, NEW i \in Nat \ {0}, IsFiniteSet(F) => i <= Cardinality(F)
    PROVE  \E k \in F : Cardinality(UpTo(F, k)) = i
<1> DEFINE W == {m \in 1..i : \A k \in F : Cardinality(UpTo(F, k)) # m}
<1>1. SUFFICES ASSUME W # {} PROVE FALSE
  <2>1. i \in 1..i
    OBVIOUS
  <2> QED BY <2>1
<1>2. PICK m \in W : \A y \in W : m <= y
  <2>1. W \in SUBSET Nat
    OBVIOUS
  <2> HIDE DEF W
  <2> QED BY <1>1, <2>1, Least
<1>3. m \in 1..i /\ \A k \in F : Cardinality(UpTo(F, k)) # m
  OBVIOUS
<1>4. CASE m = 1
  <2>1. F # {}
    BY FS_EmptySet
  <2>2. PICK k \in F : \A y \in F : k <= y
    BY <2>1, Least
  <2>3. UpTo(F, k) = {k}
    <3>1. k \in Int /\ \A j \in F : j \in Int
      OBVIOUS
    <3>2. \A j \in F : j <= k <=> j = k
      BY <2>2, <3>1
    <3> QED BY <3>2 DEF UpTo
  <2> QED BY <1>3, <1>4, <2>3, FS_Singleton
<1>5. CASE m # 1
  <2>1. m - 1 \in 1..i /\ m - 1 \notin W /\ (m - 1) + 1 = m
    BY <1>2, <1>5
  <2>2. PICK k \in F : Cardinality(UpTo(F, k)) = m - 1
    BY <2>1
  <2>3. IsFiniteSet(UpTo(F, k))
    BY UpToFinite
  <2> DEFINE L == {j \in F : k < j}
  <2>4. L # {}
    <3>1. SUFFICES ASSUME L = {} PROVE FALSE
      OBVIOUS
    <3>2. UpTo(F, k) = F
      <4>1. k \in Int /\ \A j \in F : j \in Int /\ ~(k < j)
        BY <3>1
      <4>2. \A j \in F : j <= k
        BY <4>1
      <4> QED BY <4>2 DEF UpTo
    <3> QED BY <1>3, <2>2, <2>3, <3>2
  <2>5. PICK n \in L : \A y \in L : n <= y
    <3>1. L \in SUBSET Nat
      OBVIOUS
    <3> HIDE DEF L
    <3> QED BY <2>4, <3>1, Least
  <2>6. UpTo(F, n) = UpTo(F, k) \cup {n} /\ n \notin UpTo(F, k)
    BY <2>5, UpToNext
  <2>7. Cardinality(UpTo(F, n)) = m
    BY <2>1, <2>2, <2>3, <2>6, FS_AddElement
  <2> QED BY <1>3, <2>7
<1> QED BY <1>4, <1>5

LEMMA NthRight ==
    ASSUME NEW stem, NEW used, NEW i \in Nat \ {0},
           IsFiniteSet(FreeOrdinals(stem, used)) => i <= Cardinality(FreeOrdinals(stem, used))
    PROVE  /\ NthFree(stem, used, i) \in FreeOrdinals(stem, used)
           /\ Cardinality(UpTo(FreeOrdinals(stem, used), NthFree(stem, used, i))) = i
<1> DEFINE F == FreeOrdinals(stem, used)
<1>1. F \in SUBSET Nat
  BY CrawlAssumption DEF FreeOrdinals
<1> HIDE DEF F
<1>2. \E k \in F : Cardinality(UpTo(F, k)) = i
  BY <1>1, NthExists DEF F
<1>3. \E k \in F : Cardinality({j \in F : j <= k}) = i
  BY <1>2 DEF UpTo
<1>4. NthFree(stem, used, i) = CHOOSE k \in F : Cardinality({j \in F : j <= k}) = i
  BY DEF NthFree, F
<1>5. NthFree(stem, used, i) \in F /\ Cardinality({j \in F : j <= NthFree(stem, used, i)}) = i
  BY <1>3, <1>4
<1> QED BY <1>5 DEF UpTo, F

LEMMA Images ==
    ASSUME NEW S, IsFiniteSet(S), NEW f
    PROVE  /\ IsFiniteSet({f[x] : x \in S})
           /\ Cardinality({f[x] : x \in S}) <= Cardinality(S)
<1> DEFINE T == {f[x] : x \in S}
           g == [x \in S |-> f[x]]
<1>1. g \in Surjection(S, T)
  BY DEF Surjection
<1> HIDE DEF g, T
<1> QED BY <1>1, FS_Surjection DEF T

Taken == {HandName[u] : u \in curated}
Fresh == Kept \ Managed(pf)
Used  == Taken \cup NamesIn(pf, Urls)

\* The merge has what it needs.
Mergeable == live \subseteq Urls /\ curated \subseteq Urls /\ pf \in Overlays /\ UniqueNames(pf)

LEMMA FreshNew ==
    ASSUME Mergeable
    PROVE  Fresh \subseteq {u \in Urls : pf[u] = None} /\ IsFiniteSet(Fresh)
<1>1. Fresh \subseteq {u \in Urls : pf[u] = None}
  BY DEF Mergeable, Fresh, Kept, Managed
<1> QED BY <1>1, CrawlAssumption, FS_Subset

\* The ordinals are enough for the new entries of a stem.
LEMMA Room ==
    ASSUME Mergeable, NEW stem, IsFiniteSet(FreeOrdinals(stem, Used))
    PROVE  Cardinality(Fresh) <= Cardinality(FreeOrdinals(stem, Used))
<1> DEFINE F == FreeOrdinals(stem, Used)
           O == {k \in Ordinals : <<stem, k>> \in Used}
           H == {u \in Urls : pf[u] # None}
<1>1. IsFiniteSet(Urls) /\ Cardinality(Urls) \in Nat
  BY CrawlAssumption, FS_CardinalityType
<1>2. IsFiniteSet(Taken) /\ Cardinality(Taken) <= Cardinality(Urls) /\ Cardinality(Taken) \in Nat
  <2>1. IsFiniteSet(curated) /\ Cardinality(curated) <= Cardinality(Urls)
    BY <1>1, FS_Subset DEF Mergeable
  <2>2. IsFiniteSet(Taken) /\ Cardinality(Taken) <= Cardinality(curated)
    BY <2>1, Images DEF Taken
  <2>3. Cardinality(curated) \in Nat /\ Cardinality(Taken) \in Nat
    BY <2>1, <2>2, FS_CardinalityType
  <2> QED BY <1>1, <2>1, <2>2, <2>3
<1>3. IsFiniteSet(H) /\ Cardinality(H) + Cardinality(Fresh) <= Cardinality(Urls)
      /\ Cardinality(H) \in Nat /\ Cardinality(Fresh) \in Nat
  <2>1. IsFiniteSet(H) /\ IsFiniteSet(Fresh) /\ H \cap Fresh = {} /\ H \cup Fresh \subseteq Urls
    BY <1>1, FreshNew, FS_Subset
  <2> HIDE DEF H
  <2>2. Cardinality(H \cup Fresh) = Cardinality(H) + Cardinality(Fresh) - Cardinality(H \cap Fresh)
    BY <2>1, FS_Union
  <2>3. Cardinality(H \cap Fresh) = 0
    BY <2>1, FS_EmptySet
  <2>4. Cardinality(H \cup Fresh) <= Cardinality(Urls)
    BY <1>1, <2>1, FS_Subset
  <2>5. Cardinality(H) \in Nat /\ Cardinality(Fresh) \in Nat
    BY <2>1, FS_CardinalityType
  <2> QED BY <1>1, <2>1, <2>2, <2>3, <2>4, <2>5
<1>4. IsFiniteSet(NamesIn(pf, Urls)) /\ Cardinality(NamesIn(pf, Urls)) <= Cardinality(H)
      /\ Cardinality(NamesIn(pf, Urls)) \in Nat
  <2> DEFINE f == [u \in H |-> pf[u].name]
  <2>1. NamesIn(pf, Urls) = {f[u] : u \in H}
    BY DEF NamesIn
  <2> HIDE DEF f, H
  <2>2. /\ IsFiniteSet({f[u] : u \in H})
        /\ Cardinality({f[u] : u \in H}) <= Cardinality(H)
    BY <1>3, Images
  <2> QED BY <2>1, <2>2, FS_CardinalityType
<1> HIDE DEF H
<1>5. IsFiniteSet(Used) /\ Cardinality(Used) \in Nat
      /\ Cardinality(Used) <= Cardinality(Taken) + Cardinality(NamesIn(pf, Urls))
  <2>1. IsFiniteSet(Used)
        /\ Cardinality(Used) = Cardinality(Taken) + Cardinality(NamesIn(pf, Urls))
                                 - Cardinality(Taken \cap NamesIn(pf, Urls))
    BY <1>2, <1>4, FS_Union DEF Used
  <2>2. IsFiniteSet(Taken \cap NamesIn(pf, Urls))
    BY <1>2, FS_Intersection
  <2>3. Cardinality(Taken \cap NamesIn(pf, Urls)) \in Nat /\ Cardinality(Used) \in Nat
    BY <2>1, <2>2, FS_CardinalityType
  <2> QED BY <1>2, <1>4, <2>1, <2>3
<1>6. IsFiniteSet(O) /\ Cardinality(O) <= Cardinality(Used) /\ Cardinality(O) \in Nat
  <2> DEFINE g == [k \in O |-> <<stem, k>>]
  <2>1. g \in Injection(O, Used)
    BY DEF Injection, IsInjective
  <2> HIDE DEF g, O
  <2>2. IsFiniteSet(O) /\ Cardinality(O) <= Cardinality(Used)
    BY <1>5, <2>1, FS_Injection
  <2> QED BY <2>2, FS_CardinalityType
<1>7. Ordinals = F \cup O /\ IsFiniteSet(F)
  BY DEF FreeOrdinals
<1> HIDE DEF O, F
<1>8. /\ IsFiniteSet(Ordinals) /\ Cardinality(F) \in Nat
      /\ Cardinality(Ordinals) \in Nat /\ Cardinality(Ordinals) <= Cardinality(F) + Cardinality(O)
  <2>1. /\ IsFiniteSet(Ordinals)
        /\ Cardinality(Ordinals) = Cardinality(F) + Cardinality(O) - Cardinality(F \cap O)
    BY <1>6, <1>7, FS_Union
  <2>2. IsFiniteSet(F \cap O)
    BY <1>6, <1>7, FS_Intersection
  <2>3. /\ Cardinality(F) \in Nat /\ Cardinality(F \cap O) \in Nat
        /\ Cardinality(Ordinals) \in Nat
    BY <1>7, <2>1, <2>2, FS_CardinalityType
  <2> QED BY <1>6, <2>1, <2>3
<1>9. Cardinality(Ordinals) >= 2 * Cardinality(Urls)
  BY <1>8, NamingAssumption
<1>10. Cardinality(Fresh) <= Cardinality(F)
  BY <1>1, <1>2, <1>3, <1>4, <1>5, <1>6, <1>8, <1>9
<1> QED BY <1>10 DEF F

\* The place of a new entry among those of its stem.
Place(u) == Cardinality({v \in Fresh : StemOf[v] = StemOf[u] /\ Rank[v] <= Rank[u]})

LEMMA Places ==
    ASSUME Mergeable, NEW u \in Fresh
    PROVE  /\ Place(u) \in Nat \ {0} /\ Place(u) <= Cardinality(Fresh)
           /\ \A v \in Fresh : StemOf[v] = StemOf[u] /\ v # u => Place(v) # Place(u)
<1> DEFINE P(w) == {v \in Fresh : StemOf[v] = StemOf[w] /\ Rank[v] <= Rank[w]}
<1>1. IsFiniteSet(Fresh) /\ Fresh \subseteq Urls /\ \A v \in Fresh : Rank[v] \in Int
  BY FreshNew, CrawlAssumption
<1>2. \A w \in Fresh : w \in P(w) /\ P(w) \subseteq Fresh
  BY <1>1
<1>3. ASSUME NEW v \in Fresh, NEW w \in Fresh, StemOf[v] = StemOf[w], Rank[v] < Rank[w]
      PROVE  P(v) \subseteq P(w) /\ w \notin P(v)
  BY <1>1, <1>3
<1>4. \A w : Place(w) = Cardinality(P(w))
  BY DEF Place
<1> HIDE DEF P
<1>5. \A w \in Fresh : IsFiniteSet(P(w)) /\ Place(w) \in Nat /\ Place(w) <= Cardinality(Fresh)
  BY <1>1, <1>2, <1>4, FS_Subset, FS_CardinalityType
<1>6. Place(u) # 0
  BY <1>2, <1>4, <1>5, FS_EmptySet
<1>7. ASSUME NEW v \in Fresh, NEW w \in Fresh, StemOf[v] = StemOf[w], Rank[v] < Rank[w]
      PROVE  Place(v) # Place(w)
  BY <1>2, <1>3, <1>4, <1>5, <1>7, FS_Subset
<1>8. ASSUME NEW v \in Fresh, StemOf[v] = StemOf[u], v # u PROVE Place(v) # Place(u)
  <2>1. Rank[v] < Rank[u] \/ Rank[u] < Rank[v]
    BY <1>1, <1>8, NamingAssumption
  <2> QED BY <1>7, <1>8, <2>1
<1> QED BY <1>5, <1>6, <1>8

\* The names of new entries are not in use and differ from each other.
LEMMA Minted ==
    ASSUME Mergeable, NEW u \in Fresh
    PROVE  /\ MintedName(u, Fresh, Used) \in Names
           /\ MintedName(u, Fresh, Used) \notin Used
           /\ \A v \in Fresh : MintedName(v, Fresh, Used) = MintedName(u, Fresh, Used) => v = u
<1> DEFINE F(w) == FreeOrdinals(StemOf[w], Used)
           k(w) == NthFree(StemOf[w], Used, Place(w))
<1>1. \A w : MintedName(w, Fresh, Used) = <<StemOf[w], k(w)>>
  BY DEF MintedName, Place
<1>2. ASSUME NEW w \in Fresh
      PROVE  k(w) \in F(w) /\ Cardinality(UpTo(F(w), k(w))) = Place(w)
  <2>1. Place(w) \in Nat \ {0} /\ Place(w) <= Cardinality(Fresh)
    BY Places
  <2>2. IsFiniteSet(F(w)) => Place(w) <= Cardinality(F(w))
    <3>1. SUFFICES ASSUME IsFiniteSet(F(w)) PROVE Place(w) <= Cardinality(F(w))
      OBVIOUS
    <3>2. Cardinality(Fresh) <= Cardinality(F(w))
      BY <3>1, Room
    <3>3. Cardinality(F(w)) \in Nat /\ Cardinality(Fresh) \in Nat
      BY <3>1, FreshNew, FS_CardinalityType
    <3> HIDE DEF F
    <3> QED BY <2>1, <3>2, <3>3
  <2> QED BY <2>1, <2>2, NthRight
<1>3. k(u) \in Ordinals /\ <<StemOf[u], k(u)>> \notin Used
  BY <1>2 DEF FreeOrdinals
<1>4. ASSUME NEW v \in Fresh, StemOf[v] = StemOf[u], k(v) = k(u) PROVE v = u
  <2>1. F(v) = F(u)
    BY <1>4
  <2>2. Place(v) = Place(u)
    <3> HIDE DEF F, k
    <3> QED BY <1>2, <1>4, <2>1
  <2> QED BY <1>4, <2>2, Places
<1>5. u \in Urls
  BY FreshNew
<1> HIDE DEF F, k
<1> QED BY <1>1, <1>3, <1>4, <1>5 DEF Names

\* What MintSound says of an overlay.
Sound(f) ==
    /\ f \in Overlays
    /\ \A u \in Urls \ Managed(pf) : pf[u] # None => f[u] = pf[u]
    /\ UniqueNames(f)
    /\ (\A u \in Urls \ Managed(pf) : pf[u] # None => u \in Loadable) => Loads(f)
    /\ \A u \in Urls : pf[u] = None /\ f[u] # None => f[u].name \notin Taken

LEMMA MergedSound == ASSUME Mergeable PROVE Sound(Merged(Taken))
<1> DEFINE f == Merged(Taken)
           e(u) == [name |-> MintedName(u, Fresh, Used), managed |-> TRUE]
<1>1. f = [u \in Urls |-> IF u \in Fresh THEN e(u)
                          ELSE IF u \in Managed(pf) \ Kept THEN None
                          ELSE pf[u]]
  BY DEF Merged, Fresh, Used
<1>2. ASSUME NEW u \in Urls
      PROVE  \/ u \in Fresh /\ f[u] = e(u) /\ pf[u] = None
             \/ u \notin Fresh /\ f[u] = pf[u]
             \/ f[u] = None /\ u \in Managed(pf)
  <2> HIDE DEF f, e
  <2> QED BY <1>1, FreshNew
<1>3. \A u \in Fresh : e(u) \in Entries /\ e(u) # None
  <2>1. ASSUME NEW u \in Fresh PROVE e(u) \in Entries
    <3>1. MintedName(u, Fresh, Used) \in Names
      BY Minted
    <3> QED BY <3>1 DEF Entries
  <2>2. None \notin Entries
    BY CrawlAssumption
  <2> HIDE DEF e
  <2> QED BY <2>1, <2>2
<1>4. \A u \in Urls : pf[u] \in Entries \cup {None} /\ (pf[u] # None => pf[u].name \in Used)
  BY DEF Mergeable, Overlays, NamesIn, Used
<1>5. \A u \in Fresh : e(u).name = MintedName(u, Fresh, Used)
  OBVIOUS
<1> HIDE DEF f, e
<1>6. f \in Overlays
  <2>1. f = [u \in Urls |-> f[u]]
    BY <1>1
  <2>2. \A u \in Urls : f[u] \in Entries \cup {None}
    BY <1>2, <1>3, <1>4
  <2> QED BY <2>1, <2>2 DEF Overlays
<1>7. \A u \in Urls \ Managed(pf) : pf[u] # None => f[u] = pf[u]
  BY <1>2
<1>8. ASSUME NEW u \in Urls, NEW v \in Urls, f[u] # None, f[v] # None, f[u].name = f[v].name
      PROVE  u = v
  <2>1. CASE u \in Fresh /\ v \in Fresh
    BY <1>2, <1>5, <1>8, <2>1, Minted, FreshNew
  <2>2. CASE u \in Fresh /\ v \notin Fresh
    <3>1. f[u] = e(u) /\ f[v] = pf[v]
      BY <1>2, <1>8, <2>2
    <3> QED BY <1>4, <1>5, <1>8, <2>2, <3>1, Minted
  <2>3. CASE u \notin Fresh /\ v \in Fresh
    <3>1. f[v] = e(v) /\ f[u] = pf[u]
      BY <1>2, <1>8, <2>3
    <3> QED BY <1>4, <1>5, <1>8, <2>3, <3>1, Minted
  <2>4. CASE u \notin Fresh /\ v \notin Fresh
    <3>1. f[u] = pf[u] /\ f[v] = pf[v]
      BY <1>2, <1>8, <2>4
    <3> QED BY <1>8, <3>1 DEF Mergeable, UniqueNames
  <2> QED BY <2>1, <2>2, <2>3, <2>4
<1>9. ASSUME NEW u \in Urls, pf[u] = None, f[u] # None PROVE f[u].name \notin Taken
  <2>1. u \in Fresh /\ f[u] = e(u)
    BY <1>2, <1>9
  <2> QED BY <1>5, <2>1, Minted DEF Used
<1>10. UniqueNames(f)
  BY <1>8 DEF UniqueNames
<1>11. (\A u \in Urls \ Managed(pf) : pf[u] # None => u \in Loadable) => Loads(f)
  <2>1. SUFFICES ASSUME \A u \in Urls \ Managed(pf) : pf[u] # None => u \in Loadable,
                        NEW u \in Urls, f[u] # None
                 PROVE  u \in Loadable
    BY DEF Loads
  <2>2. CASE u \in Kept
    BY <2>2 DEF Kept
  <2>3. CASE u \notin Kept
    <3>1. u \notin Fresh /\ (u \in Managed(pf) => f[u] = None)
      BY <1>1, <2>3 DEF Fresh
    <3>2. f[u] = pf[u] /\ u \notin Managed(pf)
      BY <1>2, <2>1, <3>1
    <3> QED BY <2>1, <3>2
  <2> QED BY <2>2, <2>3
<1> QED BY <1>6, <1>7, <1>9, <1>10, <1>11 DEF Sound, f

MintInv ==
    /\ Shaped /\ Simple
    /\ file \in Overlays /\ UniqueNames(file)
    /\ pf \in Overlays /\ UniqueNames(pf)
    /\ MintSound

LEMMA NothingNamed == NoOverlay \in Overlays /\ UniqueNames(NoOverlay)
BY DEF NoOverlay, Overlays, UniqueNames

LEMMA TakenOver ==
    ASSUME NEW e \in Entries, NEW x \in BOOLEAN
    PROVE  [e EXCEPT !.managed = x] = [name |-> e.name, managed |-> x]
BY DEF Entries

\* Whoever writes the overlay leaves no name in it twice.
LEMMA FileStep == MintInv /\ [Next]_vars => (file \in Overlays /\ UniqueNames(file))'
<1> SUFFICES ASSUME MintInv, [Next]_vars PROVE (file \in Overlays /\ UniqueNames(file))'
  OBVIOUS
<1>0. file \in Overlays /\ UniqueNames(file)
  BY DEF MintInv
<1>1. CASE file' = file
  BY <1>0, <1>1 DEF UniqueNames
<1>2. CASE Write
  BY <1>2 DEF Write, Valid, MintInv, MintSound, UniqueNames
<1>3. ASSUME NEW u \in Urls, HandAdd(u) PROVE (file \in Overlays /\ UniqueNames(file))'
  <2>1. /\ file' = [file EXCEPT ![u] = [name |-> HandName[u], managed |-> FALSE]]
        /\ file[u] = None /\ HandName[u] \notin NamesIn(file, Urls)
    BY <1>3 DEF HandAdd, Edit
  <2>2. [name |-> HandName[u], managed |-> FALSE] \in Entries
    BY CrawlAssumption DEF Entries
  <2>3. file' \in Overlays
    BY <1>0, <2>1, <2>2 DEF Overlays
  <2>4. \A v \in Urls : file[v] # None => file[v].name # HandName[u]
    BY <2>1 DEF NamesIn
  <2>5. \A v \in Urls : v # u => file'[v] = file[v]
    BY <1>0, <2>1 DEF Overlays
  <2>6. file'[u].name = HandName[u]
    BY <1>0, <2>1 DEF Overlays
  <2> QED BY <1>0, <2>3, <2>4, <2>5, <2>6 DEF UniqueNames
<1>4. ASSUME NEW u \in Urls, HandTake(u) PROVE (file \in Overlays /\ UniqueNames(file))'
  <2>1. file' = [file EXCEPT ![u].managed = FALSE] /\ file[u] \in Entries
    BY <1>0, <1>4 DEF HandTake, Edit, Managed, Overlays
  <2>2. file' = [file EXCEPT ![u] = [name |-> file[u].name, managed |-> FALSE]]
    <3>1. [file[u] EXCEPT !.managed = FALSE] = [name |-> file[u].name, managed |-> FALSE]
      BY <2>1, TakenOver
    <3>2. file' = [file EXCEPT ![u] = [file[u] EXCEPT !.managed = FALSE]]
      BY <2>1
    <3> QED BY <3>1, <3>2
  <2>3. [name |-> file[u].name, managed |-> FALSE] \in Entries
    BY <2>1 DEF Entries
  <2>4. file' \in Overlays
    BY <1>0, <2>2, <2>3 DEF Overlays
  <2>5. \A v \in Urls : v # u => file'[v] = file[v]
    BY <1>0, <2>2 DEF Overlays
  <2>6. file'[u].name = file[u].name /\ file[u] # None
    BY <1>0, <2>1, <2>2, CrawlAssumption DEF Overlays
  <2> QED BY <1>0, <2>4, <2>5, <2>6 DEF UniqueNames
<1>5. ASSUME NEW u \in Urls, HandRemove(u) PROVE (file \in Overlays /\ UniqueNames(file))'
  <2>1. file' = [file EXCEPT ![u] = None]
    BY <1>5 DEF HandRemove, Edit
  <2>2. file'[u] = None /\ \A v \in Urls : v # u => file'[v] = file[v]
    BY <1>0, <2>1 DEF Overlays
  <2> QED BY <1>0, <2>1, <2>2 DEF UniqueNames, Overlays
<1>6. CASE Truncate
  <2>1. file' = NoOverlay
    BY <1>6 DEF Truncate, Edit
  <2> QED BY <2>1, NothingNamed DEF UniqueNames
<1>7. ASSUME NEW u \in Urls, NEW v \in Urls, HandSlip(u, v)
      PROVE  (file \in Overlays /\ UniqueNames(file))'
  <2>1. /\ file' = [file EXCEPT ![u] = None, ![v] = file[u]]
        /\ file[u] \in Entries /\ file[u] # None /\ file[v] = None
    BY <1>0, <1>7 DEF HandSlip, Edit, Managed, Overlays
  <2>2. file' \in Overlays
    BY <1>0, <2>1 DEF Overlays
  <2>3. file'[v] = file[u] /\ file'[u] = None
        /\ \A w \in Urls \ {u, v} : file'[w] = file[w]
    BY <1>0, <2>1 DEF Overlays
  <2> DEFINE from(w) == IF w = v THEN u ELSE w
  <2>4. ASSUME NEW w \in Urls, file'[w] # None
        PROVE  w # u /\ from(w) \in Urls /\ file'[w] = file[from(w)]
    BY <2>3, <2>4
  <2>5. \A w, z \in Urls \ {u} : from(w) = from(z) => w = z
    OBVIOUS
  <2> HIDE DEF from
  <2>6. UniqueNames(file)'
    BY <1>0, <2>4, <2>5 DEF UniqueNames
  <2> QED BY <2>2, <2>6
<1>8. CASE \E u \in Urls : Curate(u)
  BY <1>1, <1>8 DEF Curate
<1>9. CASE Operator
  BY <1>3, <1>4, <1>5, <1>6, <1>7, <1>8, <1>9 DEF Operator
<1>10. CASE ~Write /\ ~Operator
  BY <1>1, <1>10 DEF Next, Tick, Publish, Load, Scan, Recheck, Withhold, WithholdNothing, MergeSame,
     MergeSmall, MergeConfirmed, Proceed, MergeRefused, WriteFails, Abandon, world, vars
<1> QED BY <1>2, <1>9, <1>10

\* The overlay a cycle works on is the file as it was, or nothing.
LEMMA ReadStep ==
    ASSUME [Next]_vars
    PROVE  pf' = pf \/ pf' = file \/ pf' = NoOverlay
BY DEF Next, Tick, Operator, HandAdd, HandTake, HandRemove, HandSlip, Truncate, Curate, Edit,
   Publish, Load, Scan, Recheck, Reload, Withhold, WithholdNothing, EndCycle, MergeSame,
   MergeSmall, MergeConfirmed, Proceed, MergeRefused, Write, WriteFails, Abandon, cycle, vars

LEMMA MintStep == MintInv /\ [Next]_vars => MintInv'
<1> SUFFICES ASSUME MintInv, [Next]_vars PROVE MintInv'
  OBVIOUS
<1>1. Shaped' /\ Simple'
  BY ShapedStep, SimpleStep DEF MintInv
<1>2. (pf \in Overlays /\ UniqueNames(pf))'
  BY ReadStep, NothingNamed DEF MintInv, UniqueNames
<1>3. MintSound'
  <2>1. SUFFICES ASSUME pc' = "write" PROVE MintSound'
    BY DEF MintSound
  <2>2. CASE Proceed
    <3>1. Mergeable
      BY DEF MintInv, Simple, Mergeable
    <3>2. next' = Merged(Taken) /\ reserved' = Taken /\ pf' = pf
      BY <2>2 DEF Proceed, Taken
    <3>3. Sound(Merged(Taken))
      BY <3>1, MergedSound
    <3> QED BY <3>2, <3>3 DEF Sound, MintSound, Managed, UniqueNames, Loads
  <2>3. CASE ~Proceed
    <3>1. pc = "write" /\ UNCHANGED <<pf, next, reserved>>
      BY <2>1, <2>3 DEF Next, Tick, Operator, HandAdd, HandTake, HandRemove, HandSlip, Truncate,
         Curate, Edit, Publish, Load, Scan, Recheck, Reload, Withhold, WithholdNothing,
         EndCycle, MergeSame, MergeSmall, MergeConfirmed, MergeRefused, Write, WriteFails,
         Abandon, cycle, vars
    <3> QED BY <3>1 DEF MintInv, MintSound, Managed, UniqueNames, Loads
  <2> QED BY <2>2, <2>3
<1> QED BY <1>1, <1>2, <1>3, FileStep DEF MintInv

LEMMA MintInit == Init => MintInv
BY ShapedInit, SimpleInit, NothingNamed DEF Init, MintInv, MintSound

-----------------------------------------------------------------------------
(* The theorems.                                                           *)

\* Every variable keeps its type; no streak, stamp or record outgrows its bound.
THEOREM TypeCorrect == Spec => []TypeOK
<1>1. Spec => [](BarrenInv /\ Simple)
  <2>1. BarrenInv /\ Simple /\ [Next]_vars => BarrenInv' /\ Simple'
    BY BarrenStep, SimpleStep DEF BarrenInv
  <2> QED BY BarrenInit, SimpleInit, <2>1, PTL DEF Spec
<1>2. BarrenInv /\ Simple => TypeOK
  <2> SUFFICES ASSUME BarrenInv, Simple PROVE TypeOK
    OBVIOUS
  <2>1. DOMAIN file = Urls /\ DOMAIN pf = Urls /\ DOMAIN next = Urls
    BY DEF BarrenInv, Shaped
  <2>2. barrenLists \in [Names -> 0..MaxLists]
    BY Numbers DEF BarrenInv, Shaped, RowsCounted
  <2> QED BY <2>1, <2>2, MemoryTypes DEF BarrenInv, Shaped, Simple, TypeOK
<1> QED BY <1>1, <1>2, PTL

\* A source is deleted only on evidence of this cycle or on a streak that was
\* observed cycle by cycle, whatever was lost with a crash or a failed save.
THEOREM OnEvidence == Spec => []DeletedOnEvidence
<1>1. Spec => []EvidenceInv
  BY EvidenceInit, EvidenceStep, PTL DEF Spec
<1>2. EvidenceInv => DeletedOnEvidence
  BY DEF EvidenceInv
<1> QED BY <1>1, <1>2, PTL

\* A bulk deletion was refused before, long enough and not too long ago.
THEOREM Confirmed == Spec => BulkConfirmed
<1>1. Spec => []BulkInv
  BY BulkInit, BulkStep, PTL DEF Spec
<1>2. ASSUME BulkInv, [Next]_vars
      PROVE  [pc = "merge" /\ pc' = "write"
                /\ ~WithinFloor(Cardinality(Deleted), Cardinality(Managed(pf))) =>
                \E r \in refusals : /\ SameProposal(r.urls, Deleted)
                                    /\ r.at + ConfirmAfter <= now /\ now <= r.at + RecordTTL]_vars
  <2>1. SUFFICES ASSUME pc = "merge", pc' = "write",
                        ~WithinFloor(Cardinality(Deleted), Cardinality(Managed(pf)))
                 PROVE  \E r \in refusals : /\ SameProposal(r.urls, Deleted)
                                            /\ r.at + ConfirmAfter <= now /\ now <= r.at + RecordTTL
    OBVIOUS
  <2>2. MergeConfirmed
    BY <1>2, <2>1, WriteSteps DEF MergeSmall
  <2>3. Pending /\ mem.refused.at + ConfirmAfter <= now /\ mem.refused # None
    <3>1. mem.refused # None => mem.refused.at \in Nat /\ now \in Nat
      BY <1>2, Numbers DEF BulkInv, Shaped, Shape, Proposals, Times
    <3> QED BY <2>2, <3>1, Numbers DEF MergeConfirmed, Pending
  <2>4. mem.refused \in refusals
    BY <1>2, <2>3 DEF BulkInv, Backed, Pending
  <2> QED BY <2>3, <2>4 DEF Pending
<1> QED BY <1>1, <1>2, PTL DEF Spec, BulkConfirmed

\* No list counts twice against a source.
THEOREM Witness == Spec => []BarrenWitnessed
<1>1. Spec => []BarrenInv
  BY BarrenInit, BarrenStep, PTL DEF Spec
<1>2. BarrenInv => BarrenWitnessed
  BY DEF BarrenInv, Counted, Covered, BarrenWitnessed
<1> QED BY <1>1, <1>2, PTL

\* An overlay emptied behind the crawler's back stays empty while a corpus is
\* remembered.
THEOREM StaysEmpty == Spec => []NeverRebuilt
<1>1. Spec => []EmptiedInv
  BY EmptiedInit, EmptiedStep, PTL DEF Spec
<1>2. EmptiedInv => NeverRebuilt
  BY DEF EmptiedInv
<1> QED BY <1>1, <1>2, PTL

\* Whatever the operator does meanwhile, an overlay that is written has no name
\* twice, leaves the entries of others alone and takes no curated name.
THEOREM NamesSound == Spec => []MintSound
<1>1. Spec => []MintInv
  BY MintInit, MintStep, PTL DEF Spec
<1>2. MintInv => MintSound
  BY DEF MintInv
<1> QED BY <1>1, <1>2, PTL

=============================================================================
