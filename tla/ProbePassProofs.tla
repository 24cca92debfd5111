--------------------------- MODULE ProbePassProofs ---------------------------
(***************************************************************************)
(* Proofs about ProbePass, for every set of entries, positions and         *)
(* addresses and every configuration.  IInv collects the types, the        *)
(* binding (Binding), the account of the tests (Counts), the pre-check     *)
(* (Judged) and the outcome.                                               *)
(***************************************************************************)
EXTENDS ProbePass, FiniteSetTheorems, WellFoundedInduction, TLAPS

\* The tables of a binding after the entries of seen: key is the field of an
\* entry a table is keyed by.
Agreed(table, conflicts, key, seen) ==
    \A k \in DOMAIN table :
        /\ k \in conflicts =>
              /\ table[k] = NoIp
              /\ \E e, f \in seen : key[e] = k /\ key[f] = k /\ IpOf[e] # IpOf[f]
        /\ k \notin conflicts => \A e \in seen : key[e] = k => IpOf[e] = table[k]
        /\ table[k] # NoIp => \E e \in seen : key[e] = k /\ IpOf[e] = table[k]

HostKey == [e \in Entries |-> HostOf[e]]

EndpointKey == [e \in Entries |-> Endpoint(e)]

Read == Entries \ left

Named == {e \in Read : HostOf[e] \notin Literals}

Tables ==
    /\ Agreed(byAddr, addrUnbound, EndpointKey, Read)
    /\ Agreed(hosts, unbound, HostKey, Named)

ReadFirst == pc # "bind" => left = {}

(***************************************************************************)
(* One step of newBinding keeps a table in agreement with the entries      *)
(* read, and its entries and conflicts among the known keys.               *)
(***************************************************************************)
LEMMA SelectAgrees ==
    ASSUME NEW Keys, NEW table \in [Keys -> Ips \cup {NoIp}],
           NEW conflicts \in SUBSET Keys,
           NEW key \in [Entries -> Keys], NEW seen \in SUBSET Entries, NEW e \in Entries,
           Agreed(table, conflicts, key, seen)
    PROVE  /\ Select(table, conflicts, key[e], IpOf[e]) \in [Keys -> Ips \cup {NoIp}]
           /\ Clash(table, conflicts, key[e], IpOf[e]) \in SUBSET Keys
           /\ Agreed(Select(table, conflicts, key[e], IpOf[e]),
                     Clash(table, conflicts, key[e], IpOf[e]), key, seen \cup {e})
<1> DEFINE new == Select(table, conflicts, key[e], IpOf[e])
           clash == Clash(table, conflicts, key[e], IpOf[e])
<1>1. /\ key[e] \in Keys
      /\ \A f \in Entries : IpOf[f] \in Ips /\ IpOf[f] # NoIp
    BY ProbeAssumption DEF Ips
<1>2. new \in [Keys -> Ips \cup {NoIp}] /\ clash \in SUBSET Keys
    BY <1>1 DEF Select, Clash
<1>3. ASSUME NEW k \in Keys, k # key[e]
      PROVE  new[k] = table[k] /\ (k \in clash <=> k \in conflicts)
    BY <1>1, <1>3 DEF Select, Clash
<1>4. new[key[e]] = IF table[key[e]] = IpOf[e] \/ (table[key[e]] = NoIp /\ key[e] \notin conflicts)
                    THEN IpOf[e] ELSE NoIp
    BY <1>1 DEF Select
<1>5. key[e] \in clash <=> key[e] \in conflicts \/ table[key[e]] \notin {NoIp, IpOf[e]}
    BY DEF Clash
<1> HIDE DEF new, clash
<1>6. SUFFICES ASSUME NEW k \in Keys
               PROVE  /\ k \in clash =>
                            /\ new[k] = NoIp
                            /\ \E f, g \in seen \cup {e} :
                                  key[f] = k /\ key[g] = k /\ IpOf[f] # IpOf[g]
                      /\ k \notin clash =>
                            \A f \in seen \cup {e} : key[f] = k => IpOf[f] = new[k]
                      /\ new[k] # NoIp => \E f \in seen \cup {e} : key[f] = k /\ IpOf[f] = new[k]
    BY <1>2 DEF Agreed, new, clash
<1>7. /\ k \in conflicts =>
            /\ table[k] = NoIp
            /\ \E f, g \in seen : key[f] = k /\ key[g] = k /\ IpOf[f] # IpOf[g]
      /\ k \notin conflicts => \A f \in seen : key[f] = k => IpOf[f] = table[k]
      /\ table[k] # NoIp => \E f \in seen : key[f] = k /\ IpOf[f] = table[k]
    BY DEF Agreed
<1>8. CASE k # key[e]
    BY <1>3, <1>7, <1>8
<1>9. CASE k = key[e]
  <2>1. CASE k \in conflicts
    BY <1>1, <1>4, <1>5, <1>7, <1>9, <2>1
  <2>2. CASE k \notin conflicts /\ table[k] = NoIp
    BY <1>1, <1>4, <1>5, <1>7, <1>9, <2>2
  <2>3. CASE k \notin conflicts /\ table[k] = IpOf[e]
    BY <1>1, <1>4, <1>5, <1>7, <1>9, <2>3
  <2>4. CASE k \notin conflicts /\ table[k] \notin {NoIp, IpOf[e]}
    <3>1. k \in clash /\ new[k] = NoIp
      BY <1>4, <1>5, <1>9, <2>4
    <3>2. PICK f \in seen : key[f] = k /\ IpOf[f] = table[k]
      BY <1>7, <2>4
    <3> QED BY <1>9, <2>4, <3>1, <3>2
  <2> QED BY <2>1, <2>2, <2>3, <2>4
<1> QED BY <1>8, <1>9

-----------------------------------------------------------------------------
(* Type correctness.                                                       *)

\* TypeOK by groups: the binding, the pre-check, the rounds, the outcome.
TypeBind ==
    /\ left \subseteq Entries
    /\ byAddr \in [Endpoints -> Ips \cup {NoIp}] /\ addrUnbound \subseteq Endpoints
    /\ hosts \in [Hosts -> Ips \cup {NoIp}] /\ unbound \subseteq Hosts

TypeCheck ==
    /\ verdict \in [Targets -> {"unresolved", "refused", "reachable"}]
    /\ attempts \in [Targets -> 0..Attempts]
    /\ precheck \in {"absent", "ran", "tripped"}
    /\ condemned \subseteq Positions /\ live \subseteq Positions

TypeRounds ==
    /\ rest \in [1..Rounds -> SUBSET Positions]
    /\ inflight \subseteq (1..Rounds) \X Positions
    /\ accs \in [Positions -> [succ : Nat, sum : Nat]]
    /\ missed \in [Positions -> Nat]

TypePlace ==
    /\ pc \in {"bind", "dial", "parse", "rounds", "record", "done", "failed"}
    /\ cancelled \in BOOLEAN
    /\ dead \subseteq Entries /\ kept \subseteq Entries

LEMMA TypeParts == TypeOK <=> TypeBind /\ TypeCheck /\ TypeRounds /\ TypePlace
BY DEF TypeOK, TypeBind, TypeCheck, TypeRounds, TypePlace

\* The keys and addresses of entries are in the domains of the tables.
LEMMA EntryKeys ==
    ASSUME NEW e \in Entries
    PROVE  /\ HostOf[e] \in Hosts /\ Endpoint(e) \in Endpoints
           /\ IpOf[e] \in Ips /\ IpOf[e] # NoIp
           /\ HostKey \in [Entries -> Hosts] /\ HostKey[e] = HostOf[e]
           /\ EndpointKey \in [Entries -> Endpoints] /\ EndpointKey[e] = Endpoint(e)
BY ProbeAssumption DEF Hosts, Endpoints, Ips, HostKey, EndpointKey

\* Spawn takes a position that is there.
LEMMA MinInSet ==
    ASSUME NEW S \in SUBSET Nat, S # {}
    PROVE  Min(S) \in S /\ \A y \in S : Min(S) <= y
<1>1. \A y, z \in Nat : y < z => <<y, z>> \in OpToRel(<, Nat)
  BY DEF OpToRel
<1>2. \E x \in S : \A y \in S : <<y, x>> \notin OpToRel(<, Nat)
  BY NatLessThanWellFounded, WFMin
<1>3. PICK x \in S : \A y \in S : <<y, x>> \notin OpToRel(<, Nat)
  BY <1>2
<1>4. \A y \in S : ~(y < x)
  BY <1>1, <1>3, Zenon
<1>5. \A y \in S : x <= y
  BY <1>4
<1> QED BY <1>5 DEF Min

LEMMA TypeInit == Init => TypeOK
<1> SUFFICES ASSUME Init PROVE TypeOK
  OBVIOUS
<1>1. TypeBind
  BY DEF Init, TypeBind
<1>2. TypeCheck
  BY ProbeAssumption DEF Init, TypeCheck
<1>3. TypeRounds
  BY DEF Init, TypeRounds
<1>4. TypePlace
  BY DEF Init, TypePlace
<1> QED BY <1>1, <1>2, <1>3, <1>4, TypeParts

LEMMA TypeStep == TypeOK /\ [Next]_vars => TypeOK'
<1> SUFFICES ASSUME TypeBind, TypeCheck, TypeRounds, TypePlace, [Next]_vars
             PROVE  TypeBind' /\ TypeCheck' /\ TypeRounds' /\ TypePlace'
  BY TypeParts DEF TypeOK, TypeBind, TypeCheck, TypeRounds, TypePlace
<1> USE DEF bindVars, dialVars, splitVars, roundVars
<1>1. CASE Cancel
  BY <1>1 DEF Cancel, TypeBind, TypeCheck, TypeRounds, TypePlace
<1>2. ASSUME NEW e \in Entries, BindEntry(e)
      PROVE  TypeBind' /\ TypeCheck' /\ TypeRounds' /\ TypePlace'
  <2>1. TypeCheck' /\ TypeRounds' /\ TypePlace'
    BY <1>2 DEF BindEntry, TypeCheck, TypeRounds, TypePlace
  <2>2. left' \subseteq Entries
    BY <1>2 DEF BindEntry, TypeBind
  <2>3. byAddr' \in [Endpoints -> Ips \cup {NoIp}] /\ addrUnbound' \subseteq Endpoints
    BY <1>2, EntryKeys DEF BindEntry, TypeBind, Select, Clash
  <2>4. hosts' \in [Hosts -> Ips \cup {NoIp}] /\ unbound' \subseteq Hosts
    BY <1>2, EntryKeys DEF BindEntry, TypeBind, Select, Clash
  <2> QED BY <2>1, <2>2, <2>3, <2>4 DEF TypeBind
<1>3. CASE PinHosts
  BY <1>3 DEF PinHosts, TypeBind, TypeCheck, TypeRounds, TypePlace
<1>4. ASSUME NEW t \in Targets, Dial(t)
      PROVE  TypeBind' /\ TypeCheck' /\ TypeRounds' /\ TypePlace'
  <2>1. TypeBind' /\ TypeRounds' /\ TypePlace'
    BY <1>4 DEF Dial, TypeBind, TypeRounds, TypePlace
  <2>2. attempts[t] \in 1..Attempts /\ Attempts \in Nat
    BY <1>4, ProbeAssumption DEF Dial, Settled, TypeCheck
  <2>3. TypeCheck'
    BY <1>4, <2>2 DEF Dial, TypeCheck
  <2> QED BY <2>1, <2>3
<1>5. CASE BreakPrecheck
  BY <1>5 DEF BreakPrecheck, TypeBind, TypeCheck, TypeRounds, TypePlace
<1>6. CASE Condemn
  BY <1>6 DEF Condemn, TcpPositions, TypeBind, TypeCheck, TypeRounds, TypePlace
<1>7. CASE Parse
  BY <1>7 DEF Parse, TypeBind, TypeCheck, TypeRounds, TypePlace
<1>8. CASE NothingParses
  BY <1>8 DEF NothingParses, TypeBind, TypeCheck, TypeRounds, TypePlace
<1>9. ASSUME NEW r \in 1..Rounds, Spawn(r)
      PROVE  TypeBind' /\ TypeCheck' /\ TypeRounds' /\ TypePlace'
  <2>1. PICK p \in rest[r] : /\ rest' = [rest EXCEPT ![r] = @ \ {p}]
                            /\ inflight' = inflight \cup {<<r, p>>}
    BY <1>9, MinInSet, ProbeAssumption DEF Spawn, TypeRounds
  <2>2. TypeRounds'
    <3>1. p \in Positions /\ rest[r] \ {p} \in SUBSET Positions
      BY <2>1 DEF TypeRounds
    <3>2. rest' \in [1..Rounds -> SUBSET Positions] /\ inflight' \subseteq (1..Rounds) \X Positions
      BY <2>1, <3>1 DEF TypeRounds
    <3>3. UNCHANGED <<accs, missed>>
      BY <1>9 DEF Spawn
    <3> QED BY <3>2, <3>3 DEF TypeRounds
  <2> QED BY <1>9, <2>2 DEF Spawn, TypeBind, TypeCheck, TypePlace
<1>10. ASSUME NEW r \in 1..Rounds, NEW p \in Positions, TestPasses(r, p)
       PROVE  TypeBind' /\ TypeCheck' /\ TypeRounds' /\ TypePlace'
  <2>1. PICK d \in Delays : accs' = [accs EXCEPT ![p] =
                                               [succ |-> @.succ + 1, sum |-> @.sum + d]]
    BY <1>10 DEF TestPasses
  <2>2. d \in Nat
    BY ProbeAssumption
  <2>3. accs' \in [Positions -> [succ : Nat, sum : Nat]]
    BY <2>1, <2>2 DEF TypeRounds
  <2> QED BY <1>10, <2>3 DEF TestPasses, TypeBind, TypeCheck, TypeRounds, TypePlace
<1>11. ASSUME NEW r \in 1..Rounds, NEW p \in Positions, TestFails(r, p)
       PROVE  TypeBind' /\ TypeCheck' /\ TypeRounds' /\ TypePlace'
  BY <1>11 DEF TestFails, TypeBind, TypeCheck, TypeRounds, TypePlace
<1>12. CASE ProbeReturns
  BY <1>12 DEF ProbeReturns, TypeBind, TypeCheck, TypeRounds, TypePlace
<1>13. CASE Interrupted
  BY <1>13 DEF Interrupted, TypeBind, TypeCheck, TypeRounds, TypePlace
<1>14. CASE RecordAndSelect
  BY <1>14 DEF RecordAndSelect, TypeBind, TypeCheck, TypeRounds, TypePlace
<1>15. CASE UNCHANGED vars
  BY <1>15 DEF vars, TypeBind, TypeCheck, TypeRounds, TypePlace
<1> QED BY <1>1, <1>2, <1>3, <1>4, <1>5, <1>6, <1>7, <1>8, <1>9, <1>10, <1>11, <1>12,
           <1>13, <1>14, <1>15 DEF Next, Step, Finished

\* The variables keep the types the code gives them (TypeOK); in particular no
\* endpoint is dialled more often than precheckAttempts allows.
THEOREM TypeCorrect == Spec => []TypeOK
<1> QED BY TypeInit, TypeStep, PTL DEF Spec

-----------------------------------------------------------------------------
(* The binding.                                                            *)

Binding == Tables /\ ReadFirst

LEMMA BindingInit == Init => Binding
<1> SUFFICES ASSUME Init PROVE Binding
  OBVIOUS
<1>1. Read = {} /\ Named = {}
  BY DEF Init, Read, Named
<1>2. ReadFirst
  BY DEF Init, ReadFirst
<1>3. Agreed(byAddr, addrUnbound, EndpointKey, {}) /\ Agreed(hosts, unbound, HostKey, {})
  BY DEF Init, Agreed
<1> QED BY <1>1, <1>2, <1>3 DEF Binding, Tables

LEMMA BindingStep == TypeOK /\ Binding /\ [Next]_vars => Binding'
<1> SUFFICES ASSUME TypeOK, Tables, ReadFirst, [Next]_vars
             PROVE  Tables' /\ ReadFirst'
  BY DEF Binding
<1>1. ASSUME NEW e \in Entries, BindEntry(e)
      PROVE  Tables' /\ ReadFirst'
  <2>1. ReadFirst'
    BY <1>1 DEF BindEntry, ReadFirst
  <2>2. Read' = Read \cup {e} /\ Read \subseteq Entries /\ Named \subseteq Entries
    BY <1>1 DEF BindEntry, Read, Named
  <2>3. Agreed(byAddr, addrUnbound, EndpointKey, Read)'
    <3>1. /\ byAddr' = Select(byAddr, addrUnbound, EndpointKey[e], IpOf[e])
          /\ addrUnbound' = Clash(byAddr, addrUnbound, EndpointKey[e], IpOf[e])
      BY <1>1, EntryKeys DEF BindEntry
    <3>2. Agreed(byAddr', addrUnbound', EndpointKey, Read \cup {e})
      BY <2>2, <3>1, SelectAgrees, EntryKeys DEF Tables, TypeOK
    <3> QED BY <2>2, <3>2
  <2>4. Agreed(hosts, unbound, HostKey, Named)'
    <3>1. CASE HostOf[e] \in Literals
      <4>1. hosts' = hosts /\ unbound' = unbound
        BY <1>1, <3>1 DEF BindEntry
      <4>2. Named' = Named
        BY <2>2, <3>1 DEF Named
      <4> QED BY <4>1, <4>2 DEF Tables
    <3>2. CASE HostOf[e] \notin Literals
      <4>1. /\ hosts' = Select(hosts, unbound, HostKey[e], IpOf[e])
            /\ unbound' = Clash(hosts, unbound, HostKey[e], IpOf[e])
        BY <1>1, <3>2, EntryKeys DEF BindEntry
      <4>2. Named' = Named \cup {e}
        BY <2>2, <3>2 DEF Named
      <4>3. Agreed(hosts', unbound', HostKey, Named \cup {e})
        BY <2>2, <4>1, SelectAgrees, EntryKeys DEF Tables, TypeOK
      <4> QED BY <4>2, <4>3
    <3> QED BY <3>1, <3>2
  <2> QED BY <2>1, <2>3, <2>4 DEF Tables
<1>2. CASE PinHosts
  <2>1. Read' = Read /\ Named' = Named
    BY <1>2 DEF PinHosts, bindVars, Read, Named
  <2> QED BY <1>2, <2>1 DEF PinHosts, bindVars, Tables, ReadFirst
<1>3. ASSUME UNCHANGED bindVars, pc' # "bind" => pc # "bind"
      PROVE  Tables' /\ ReadFirst'
  <2>1. Read' = Read /\ Named' = Named
    BY <1>3 DEF bindVars, Read, Named
  <2> QED BY <1>3, <2>1 DEF bindVars, Tables, ReadFirst
<1>4. CASE Cancel
  BY <1>3, <1>4 DEF Cancel
<1>5. ASSUME NEW t \in Targets, Dial(t) PROVE Tables' /\ ReadFirst'
  BY <1>3, <1>5 DEF Dial
<1>6. CASE BreakPrecheck \/ Condemn
  BY <1>3, <1>6 DEF BreakPrecheck, Condemn, DialsEnded
<1>7. CASE Parse \/ NothingParses
  BY <1>3, <1>7 DEF Parse, NothingParses
<1>8. ASSUME NEW r \in 1..Rounds, Spawn(r) PROVE Tables' /\ ReadFirst'
  BY <1>3, <1>8 DEF Spawn
<1>9. ASSUME NEW r \in 1..Rounds, NEW p \in Positions, TestPasses(r, p) \/ TestFails(r, p)
      PROVE  Tables' /\ ReadFirst'
  BY <1>3, <1>9 DEF TestPasses, TestFails
<1>10. CASE ProbeReturns \/ Interrupted
  BY <1>3, <1>10 DEF ProbeReturns, Interrupted, RoundsEnded
<1>11. CASE RecordAndSelect
  BY <1>3, <1>11 DEF RecordAndSelect
<1>12. CASE UNCHANGED vars
  BY <1>3, <1>12 DEF vars
<1> QED BY <1>1, <1>2, <1>4, <1>5, <1>6, <1>7, <1>8, <1>9, <1>10, <1>11, <1>12
        DEF Next, Step, Finished

LEMMA BindingPins == TypeOK /\ Binding => PinsUnanimous
<1> SUFFICES ASSUME TypeOK, Binding, pc # "bind", NEW e \in Entries
             PROVE  /\ HostOf[e] \notin Literals =>
                          hosts[HostOf[e]] =
                              IF \A f \in Entries : HostOf[f] = HostOf[e] => IpOf[f] = IpOf[e]
                              THEN IpOf[e] ELSE NoIp
                    /\ byAddr[Endpoint(e)] =
                          IF \A f \in Entries : Endpoint(f) = Endpoint(e) => IpOf[f] = IpOf[e]
                          THEN IpOf[e] ELSE NoIp
  BY DEF PinsUnanimous
<1>1. Read = Entries /\ Named = {f \in Entries : HostOf[f] \notin Literals}
  BY DEF Binding, ReadFirst, Read, Named
<1>2. /\ DOMAIN hosts = Hosts /\ DOMAIN byAddr = Endpoints
      /\ \A f \in Entries : HostKey[f] = HostOf[f] /\ EndpointKey[f] = Endpoint(f)
      /\ HostOf[e] \in Hosts /\ Endpoint(e) \in Endpoints /\ IpOf[e] # NoIp
  BY EntryKeys DEF TypeOK
<1>3. ASSUME HostOf[e] \notin Literals
      PROVE  hosts[HostOf[e]] =
                 IF \A f \in Entries : HostOf[f] = HostOf[e] => IpOf[f] = IpOf[e]
                 THEN IpOf[e] ELSE NoIp
  <2>1. CASE HostOf[e] \in unbound
    <3>1. /\ hosts[HostOf[e]] = NoIp
          /\ \E f, g \in Named : HostKey[f] = HostOf[e] /\ HostKey[g] = HostOf[e]
                                 /\ IpOf[f] # IpOf[g]
      BY <1>2, <2>1 DEF Binding, Tables, Agreed
    <3> QED BY <1>1, <1>2, <3>1
  <2>2. CASE HostOf[e] \notin unbound
    <3>1. \A f \in Named : HostKey[f] = HostOf[e] => IpOf[f] = hosts[HostOf[e]]
      BY <1>2, <2>2 DEF Binding, Tables, Agreed
    <3> QED BY <1>1, <1>2, <1>3, <3>1
  <2> QED BY <2>1, <2>2
<1>4. byAddr[Endpoint(e)] =
          IF \A f \in Entries : Endpoint(f) = Endpoint(e) => IpOf[f] = IpOf[e]
          THEN IpOf[e] ELSE NoIp
  <2> DEFINE a == Endpoint(e)
  <2>1. CASE a \in addrUnbound
    <3>1. /\ byAddr[a] = NoIp
          /\ \E f, g \in Read : EndpointKey[f] = a /\ EndpointKey[g] = a /\ IpOf[f] # IpOf[g]
      BY <1>2, <2>1 DEF Binding, Tables, Agreed
    <3> QED BY <1>1, <1>2, <3>1
  <2>2. CASE a \notin addrUnbound
    <3>1. \A f \in Read : EndpointKey[f] = a => IpOf[f] = byAddr[a]
      BY <1>2, <2>2 DEF Binding, Tables, Agreed
    <3> QED BY <1>1, <1>2, <3>1
  <2> QED BY <2>1, <2>2
<1> QED BY <1>3, <1>4

\* newBinding pins a host, and binds an endpoint, exactly when all entries that
\* share it agree (PinsUnanimous).
THEOREM PinsCorrect == Spec => []PinsUnanimous
<1>1. Init => TypeOK /\ Binding
  BY TypeInit, BindingInit
<1>2. TypeOK /\ Binding /\ [Next]_vars => TypeOK' /\ Binding'
  BY TypeStep, BindingStep
<1> QED BY <1>1, <1>2, BindingPins, PTL DEF Spec

-----------------------------------------------------------------------------
(* The rounds.  The failed, the passed and the pending tests of a live     *)
(* position that is pinned add up to the rounds while the cycle lives.     *)

Pending(p) == {r \in 1..Rounds : p \in rest[r] \/ <<r, p>> \in inflight}

Fresh ==
    pc \in {"bind", "dial", "parse"} =>
        /\ live = {} /\ inflight = {} /\ \A r \in 1..Rounds : rest[r] = {}
        /\ \A p \in Positions : accs[p].succ = 0 /\ missed[p] = 0

Over == pc \in {"record", "done"} => \A p \in Positions : Pending(p) = {}

Counted(p) ==
    /\ \A r \in 1..Rounds : <<r, p>> \in inflight => p \notin rest[r]
    /\ p \notin live => Pending(p) = {} /\ accs[p].succ = 0
    /\ accs[p].succ + Cardinality(Pending(p)) <= Rounds
    /\ p \in live /\ UrlBound(EntryOf[p]) =>
          cancelled \/ missed[p] + accs[p].succ + Cardinality(Pending(p)) = Rounds

Counts == Fresh /\ Over /\ \A p \in Positions : Counted(p)

LEMMA PendingFinite ==
    ASSUME NEW p
    PROVE  /\ IsFiniteSet(Pending(p)) /\ Cardinality(Pending(p)) \in Nat
           /\ Pending(p) = {} => Cardinality(Pending(p)) = 0
<1>1. IsFiniteSet(1..Rounds) /\ Pending(p) \in SUBSET (1..Rounds)
  BY FS_Interval, ProbeAssumption DEF Pending
<1> QED BY <1>1, FS_Subset, FS_CardinalityType, FS_EmptySet

LEMMA CountsInit == Init => Counts
<1> SUFFICES ASSUME Init PROVE Counts
  OBVIOUS
<1>1. Fresh /\ Over
  BY DEF Init, Fresh, Over
<1>2. ASSUME NEW p \in Positions PROVE Counted(p)
  <2>1. Pending(p) = {} /\ accs[p].succ = 0 /\ p \notin live /\ inflight = {}
    BY DEF Init, Pending
  <2>2. Cardinality(Pending(p)) = 0
    BY <2>1, PendingFinite
  <2> QED BY <2>1, <2>2, ProbeAssumption DEF Counted
<1> QED BY <1>1, <1>2 DEF Counts

\* A test of e that is pinned reaches the address of e only.
LEMMA PinnedReach ==
    ASSUME TypeOK, Binding, pc # "bind", NEW e \in Entries, UrlBound(e)
    PROVE  Reaches(e) = {IpOf[e]}
<1>1. HostOf[e] \in Literals \/ hosts[HostOf[e]] # NoIp
  BY DEF UrlBound
<1>2. HostOf[e] \notin Literals => hosts[HostOf[e]] = IpOf[e] \/ hosts[HostOf[e]] = NoIp
  BY BindingPins DEF PinsUnanimous
<1> QED BY <1>1, <1>2 DEF Reaches

\* A step that leaves the rounds alone.
LEMMA CountsKept ==
    ASSUME TypeOK, Counts, UNCHANGED roundVars, UNCHANGED <<live, hosts>>,
           pc' \in {"bind", "dial", "parse"} => pc \in {"bind", "dial", "parse"},
           pc' \in {"record", "done"} => pc \in {"record", "done"} \/ RoundsEnded,
           cancelled => cancelled'
    PROVE  Counts'
<1>1. \A p : Pending(p)' = Pending(p)
  BY DEF roundVars, Pending
<1>2. Fresh'
  BY DEF Counts, Fresh, roundVars
<1>3. Over'
  BY <1>1 DEF Counts, Over, RoundsEnded, Pending, roundVars
<1>4. ASSUME NEW p \in Positions PROVE Counted(p)'
  <2>1. Pending(p)' = Pending(p) /\ UrlBound(EntryOf[p])' = UrlBound(EntryOf[p])
    BY <1>1 DEF UrlBound
  <2>2. Counted(p)
    BY DEF Counts
  <2> QED BY <2>1, <2>2 DEF Counted, roundVars
<1> QED BY <1>2, <1>3, <1>4 DEF Counts

\* A test that ends is no longer pending, and no other test is affected.
LEMMA EndsOne ==
    ASSUME TypeOK, Counts, NEW r \in 1..Rounds, NEW p \in Positions, <<r, p>> \in inflight,
           inflight' = inflight \ {<<r, p>>}, rest' = rest
    PROVE  /\ Cardinality(Pending(p)') = Cardinality(Pending(p)) - 1
           /\ \A q \in Positions : q # p => Pending(q)' = Pending(q)
           /\ \A q \in Positions, s \in 1..Rounds : <<s, q>> \in inflight' => q \notin rest'[s]
           /\ p \in live
<1>1. Counted(p) /\ r \in Pending(p)
  BY DEF Counts, Pending
<1>2. p \notin rest[r] /\ p \in live
  BY <1>1 DEF Counted
<1>3. Pending(p)' = Pending(p) \ {r}
  BY <1>2 DEF Pending
<1>4. Cardinality(Pending(p)') = Cardinality(Pending(p)) - 1
  BY <1>1, <1>3, PendingFinite, FS_RemoveElement
<1>5. \A q \in Positions : q # p => Pending(q)' = Pending(q)
  BY DEF Pending
<1>6. \A q \in Positions, s \in 1..Rounds : <<s, q>> \in inflight' => q \notin rest'[s]
  BY DEF Counts, Counted
<1> QED BY <1>2, <1>4, <1>5, <1>6

LEMMA CountsStep == TypeOK /\ Binding /\ Counts /\ [Next]_vars => Counts'
<1> SUFFICES ASSUME TypeOK, Binding, Counts, [Next]_vars PROVE Counts'
  OBVIOUS
<1>1. CASE Cancel
  BY <1>1, CountsKept DEF Cancel, roundVars, splitVars, bindVars
<1>2. ASSUME NEW e \in Entries, BindEntry(e) PROVE Counts'
  <2>1. /\ pc = "bind" /\ pc' = "bind" /\ live = {} /\ live' = {}
        /\ UNCHANGED <<rest, inflight, accs, missed, cancelled>>
    BY <1>2 DEF BindEntry, splitVars, roundVars, Counts, Fresh
  <2>2. Fresh' /\ Over'
    BY <2>1 DEF Counts, Fresh, Over
  <2>3. ASSUME NEW p \in Positions PROVE Counted(p)'
    <3>1. Pending(p)' = Pending(p)
      BY <2>1 DEF Pending
    <3>2. Counted(p)
      BY DEF Counts
    <3> QED BY <2>1, <3>1, <3>2 DEF Counted
  <2> QED BY <2>2, <2>3 DEF Counts
<1>3. CASE PinHosts
  BY <1>3, CountsKept DEF PinHosts, splitVars, bindVars
<1>4. ASSUME NEW t \in Targets, Dial(t) PROVE Counts'
  BY <1>4, CountsKept DEF Dial, splitVars, bindVars
<1>5. CASE BreakPrecheck \/ Condemn
  BY <1>5, CountsKept DEF BreakPrecheck, Condemn, DialsEnded, bindVars
<1>6. CASE Parse
  <2>1. PICK parsed \in SUBSET (Positions \ condemned) :
            live' = parsed /\ rest' = [r \in 1..Rounds |-> parsed]
    BY <1>6 DEF Parse
  <2>2. /\ pc' = "rounds" /\ inflight' = {} /\ inflight = {}
        /\ \A p \in Positions : accs'[p].succ = 0 /\ missed'[p] = 0
    BY <1>6 DEF Parse, Counts, Fresh
  <2>3. Fresh' /\ Over'
    BY <2>2 DEF Fresh, Over
  <2>4. ASSUME NEW p \in Positions PROVE Counted(p)'
    <3>1. CASE p \in parsed
      <4>1. Pending(p)' = 1..Rounds
        BY <2>1, <2>2, <3>1 DEF Pending
      <4>2. Cardinality(Pending(p)') = Rounds
        BY <4>1, FS_Interval, ProbeAssumption
      <4> QED BY <2>1, <2>2, <3>1, <4>2, ProbeAssumption DEF Counted
    <3>2. CASE p \notin parsed
      <4>1. Pending(p)' = {}
        BY <2>1, <2>2, <3>2 DEF Pending
      <4>2. Cardinality(Pending(p)') = 0
        BY <4>1, FS_EmptySet
      <4> QED BY <2>1, <2>2, <3>2, <4>1, <4>2, ProbeAssumption DEF Counted
    <3> QED BY <3>1, <3>2
  <2> QED BY <2>3, <2>4 DEF Counts
<1>7. CASE NothingParses
  BY <1>7, CountsKept DEF NothingParses, bindVars
<1>8. ASSUME NEW r \in 1..Rounds, Spawn(r) PROVE Counts'
  <2>1. PICK p \in rest[r] : /\ rest' = [rest EXCEPT ![r] = @ \ {p}]
                            /\ inflight' = inflight \cup {<<r, p>>}
    BY <1>8, MinInSet, ProbeAssumption DEF Spawn, TypeOK
  <2>2. /\ pc = "rounds" /\ pc' = "rounds" /\ p \in Positions
        /\ UNCHANGED <<cancelled, hosts, live, accs, missed>>
    BY <1>8, <2>1 DEF Spawn, bindVars, splitVars, TypeOK
  <2>3. Fresh' /\ Over'
    BY <2>2 DEF Fresh, Over
  <2>4. \A q \in Positions : Pending(q)' = Pending(q)
    BY <2>1 DEF Pending, TypeOK
  <2>5. ASSUME NEW q \in Positions PROVE Counted(q)'
    <3>1. Pending(q)' = Pending(q) /\ UrlBound(EntryOf[q])' = UrlBound(EntryOf[q])
      BY <2>2, <2>4 DEF UrlBound
    <3>2. Counted(q)
      BY DEF Counts
    <3>3. \A s \in 1..Rounds : <<s, q>> \in inflight' => q \notin rest'[s]
      BY <2>1, <3>2 DEF Counted, TypeOK
    <3> QED BY <2>2, <3>1, <3>2, <3>3 DEF Counted
  <2> QED BY <2>3, <2>5 DEF Counts
<1>9. ASSUME NEW r \in 1..Rounds, NEW p \in Positions, TestPasses(r, p) PROVE Counts'
  <2>1. /\ <<r, p>> \in inflight /\ inflight' = inflight \ {<<r, p>>} /\ rest' = rest
        /\ pc = "rounds" /\ pc' = "rounds"
        /\ UNCHANGED <<cancelled, hosts, live, missed>>
    BY <1>9 DEF TestPasses, bindVars, splitVars
  <2>2. /\ accs'[p].succ = accs[p].succ + 1
        /\ \A q \in Positions : q # p => accs'[q] = accs[q]
    BY <1>9 DEF TestPasses, TypeOK
  <2>3. Fresh' /\ Over'
    BY <2>1 DEF Fresh, Over
  <2>4. ASSUME NEW q \in Positions PROVE Counted(q)'
    <3>1. UrlBound(EntryOf[q])' = UrlBound(EntryOf[q]) /\ Counted(q)
      BY <2>1 DEF UrlBound, Counts
    <3>2. accs[q].succ \in Nat /\ missed[q] \in Nat /\ Cardinality(Pending(q)) \in Nat
      BY PendingFinite DEF TypeOK
    <3>3. CASE q = p
      <4>1. /\ Cardinality(Pending(p)') = Cardinality(Pending(p)) - 1
            /\ \A s \in 1..Rounds : <<s, p>> \in inflight' => p \notin rest'[s]
            /\ p \in live'
        BY <2>1, EndsOne
      <4> QED BY <2>1, <2>2, <3>1, <3>2, <3>3, <4>1, ProbeAssumption DEF Counted
    <3>4. CASE q # p
      <4>1. /\ Pending(q)' = Pending(q)
            /\ \A s \in 1..Rounds : <<s, q>> \in inflight' => q \notin rest'[s]
        BY <2>1, <3>4, EndsOne
      <4> QED BY <2>1, <2>2, <3>1, <3>4, <4>1 DEF Counted
    <3> QED BY <3>3, <3>4
  <2> QED BY <2>3, <2>4 DEF Counts
<1>10. ASSUME NEW r \in 1..Rounds, NEW p \in Positions, TestFails(r, p) PROVE Counts'
  <2>1. /\ <<r, p>> \in inflight /\ inflight' = inflight \ {<<r, p>>} /\ rest' = rest
        /\ pc = "rounds" /\ pc' = "rounds"
        /\ UNCHANGED <<cancelled, hosts, live, accs>>
    BY <1>10 DEF TestFails, bindVars, splitVars
  <2>2. \A q \in Positions : q # p => missed'[q] = missed[q]
    BY <1>10 DEF TestFails, TypeOK
  <2>3. UrlBound(EntryOf[p]) /\ ~cancelled => missed'[p] = missed[p] + 1
    <3>1. SUFFICES ASSUME UrlBound(EntryOf[p]), ~cancelled PROVE missed'[p] = missed[p] + 1
      OBVIOUS
    <3>2. Reaches(EntryOf[p]) = {IpOf[EntryOf[p]]}
      BY <2>1, <3>1, PinnedReach, ProbeAssumption
    <3> QED BY <1>10, <3>1, <3>2 DEF TestFails, TypeOK
  <2>4. Fresh' /\ Over'
    BY <2>1 DEF Fresh, Over
  <2>5. ASSUME NEW q \in Positions PROVE Counted(q)'
    <3>1. UrlBound(EntryOf[q])' = UrlBound(EntryOf[q]) /\ Counted(q)
      BY <2>1 DEF UrlBound, Counts
    <3>2. accs[q].succ \in Nat /\ missed[q] \in Nat /\ Cardinality(Pending(q)) \in Nat
      BY PendingFinite DEF TypeOK
    <3>3. CASE q = p
      <4>1. /\ Cardinality(Pending(p)') = Cardinality(Pending(p)) - 1
            /\ \A s \in 1..Rounds : <<s, p>> \in inflight' => p \notin rest'[s]
            /\ p \in live'
        BY <2>1, EndsOne
      <4> QED BY <2>1, <2>3, <3>1, <3>2, <3>3, <4>1, ProbeAssumption DEF Counted
    <3>4. CASE q # p
      <4>1. /\ Pending(q)' = Pending(q)
            /\ \A s \in 1..Rounds : <<s, q>> \in inflight' => q \notin rest'[s]
        BY <2>1, <3>4, EndsOne
      <4> QED BY <2>1, <2>2, <3>1, <3>4, <4>1 DEF Counted
    <3> QED BY <3>3, <3>4
  <2> QED BY <2>4, <2>5 DEF Counts
<1>11. CASE ProbeReturns \/ Interrupted
  BY <1>11, CountsKept DEF ProbeReturns, Interrupted, splitVars, bindVars
<1>12. CASE RecordAndSelect
  BY <1>12, CountsKept DEF RecordAndSelect, splitVars, bindVars
<1>13. CASE UNCHANGED vars
  BY <1>13, CountsKept DEF vars, roundVars, splitVars, bindVars
<1> QED BY <1>1, <1>2, <1>3, <1>4, <1>5, <1>6, <1>7, <1>8, <1>9, <1>10, <1>11, <1>12, <1>13
        DEF Next, Step, Finished

-----------------------------------------------------------------------------
(* The pre-check.                                                          *)

VerdictOn(p) == verdict[TargetOf(EntryOf[p])]

Judged ==
    /\ pc \in {"bind", "dial"} => condemned = {}
    /\ condemned # {} =>
          \A p \in Positions : p \in condemned <=> p \in TcpPositions /\ VerdictOn(p) = "refused"
    /\ live \cap condemned = {}
    /\ pc \in {"parse", "rounds", "record", "done"} /\ precheck # "tripped" =>
          ((\E p \in TcpPositions : VerdictOn(p) = "refused")
              => \E p \in TcpPositions : VerdictOn(p) = "reachable")

LEMMA JudgedInit == Init => Judged
BY DEF Init, Judged

\* The pre-check dials the address an entry selected, or its name.
LEMMA TargetKnown ==
    ASSUME TypeOK, Binding, pc # "bind", NEW e \in Entries
    PROVE  /\ TargetOf(e) \in Targets
           /\ PrecheckBound(e) => TargetOf(e) = OwnAddress(e)
<1>1. byAddr[Endpoint(e)] \in {NoIp, IpOf[e]}
  BY BindingPins DEF PinsUnanimous
<1> QED BY <1>1 DEF TargetOf, Targets, Endpoints, OwnAddress, PrecheckBound

\* A pre-check that refused all it judged is implausible, at any size.
LEMMA TotalRefusalImplausible ==
    ASSUME TypeOK, Binding, pc # "bind",
           \E p \in TcpPositions : VerdictOn(p) = "refused",
           \A p \in TcpPositions : VerdictOn(p) # "reachable"
    PROVE  Implausible
<1> DEFINE judged == Dialled \ WithVerdict("unresolved")
<1>1. IsFiniteSet(Dialled)
  <2> DEFINE target == [p \in TcpPositions |-> TargetOf(EntryOf[p])]
  <2>1. IsFiniteSet(TcpPositions)
    BY ProbeAssumption, FS_Subset DEF TcpPositions
  <2>2. target \in Surjection(TcpPositions, Dialled)
    BY DEF Surjection, Dialled
  <2> QED BY <2>1, <2>2, FS_Surjection
<1>2. \A t \in Dialled : verdict[t] \in {"unresolved", "refused"}
  <2>1. SUFFICES ASSUME NEW p \in TcpPositions
                 PROVE  VerdictOn(p) \in {"unresolved", "refused"}
    BY DEF Dialled, VerdictOn
  <2>2. EntryOf[p] \in Entries
    BY ProbeAssumption DEF TcpPositions
  <2>3. TargetOf(EntryOf[p]) \in Targets
    BY <2>2, TargetKnown
  <2> QED BY <2>3 DEF TypeOK, VerdictOn
<1>3. WithVerdict("refused") = judged
  BY <1>2 DEF WithVerdict
<1>4. judged # {} /\ IsFiniteSet(judged)
  <2>1. PICK p \in TcpPositions : VerdictOn(p) = "refused"
    OBVIOUS
  <2>2. TargetOf(EntryOf[p]) \in judged
    BY <2>1 DEF Dialled, WithVerdict, VerdictOn
  <2>3. judged \in SUBSET Dialled
    OBVIOUS
  <2> QED BY <1>1, <2>2, <2>3, FS_Subset
<1>5. Cardinality(judged) \in Nat /\ Cardinality(judged) # 0
  BY <1>4, FS_CardinalityType, FS_EmptySet
<1>6. BreakerTrips(Cardinality(WithVerdict("refused")), Cardinality(judged))
  BY <1>3, <1>5 DEF BreakerTrips
<1> QED BY <1>4, <1>6 DEF Implausible

LEMMA JudgedKept ==
    ASSUME Judged, UNCHANGED <<byAddr, verdict, condemned, live, precheck>>,
           pc' \in {"bind", "dial"} => pc \in {"bind", "dial"},
           pc' \in {"parse", "rounds", "record", "done"} =>
               pc \in {"parse", "rounds", "record", "done"}
    PROVE  Judged'
<1>1. \A p : VerdictOn(p)' = VerdictOn(p)
  BY DEF VerdictOn, TargetOf
<1> QED BY <1>1 DEF Judged

LEMMA JudgedStep == TypeOK /\ Binding /\ Counts /\ Judged /\ [Next]_vars => Judged'
<1> SUFFICES ASSUME TypeOK, Binding, Counts, Judged, [Next]_vars PROVE Judged'
  OBVIOUS
<1> USE DEF bindVars, dialVars, splitVars, roundVars
<1>1. CASE Cancel
  BY <1>1, JudgedKept DEF Cancel
<1>2. ASSUME NEW e \in Entries, BindEntry(e) PROVE Judged'
  BY <1>2 DEF BindEntry, Judged
<1>3. CASE PinHosts
  BY <1>3, JudgedKept DEF PinHosts
<1>4. ASSUME NEW t \in Targets, Dial(t) PROVE Judged'
  BY <1>4 DEF Dial, Judged
<1>5. CASE BreakPrecheck
  BY <1>5 DEF BreakPrecheck, DialsEnded, Judged
<1>6. CASE Condemn
  <2>1. /\ pc = "dial" /\ pc' = "parse" /\ ~Implausible /\ live = {} /\ live' = {}
        /\ condemned' = {p \in TcpPositions : VerdictOn(p) = "refused"}
        /\ \A p : VerdictOn(p)' = VerdictOn(p)
    BY <1>6 DEF Condemn, DialsEnded, VerdictOn, TargetOf, Counts, Fresh
  <2>2. (\E p \in TcpPositions : VerdictOn(p) = "refused")
            => \E p \in TcpPositions : VerdictOn(p) = "reachable"
    BY <2>1, TotalRefusalImplausible
  <2> QED BY <2>1, <2>2 DEF Judged, TcpPositions
<1>7. CASE Parse
  <2>1. /\ pc = "parse" /\ pc' = "rounds" /\ live' \subseteq Positions \ condemned
        /\ UNCHANGED <<condemned, precheck>>
        /\ \A p : VerdictOn(p)' = VerdictOn(p)
    BY <1>7 DEF Parse, VerdictOn, TargetOf
  <2> QED BY <2>1 DEF Judged
<1>8. CASE NothingParses
  <2>1. pc' = "failed" /\ condemned' = {}
    BY <1>8 DEF NothingParses
  <2> QED BY <2>1 DEF Judged
<1>9. ASSUME NEW r \in 1..Rounds, Spawn(r) PROVE Judged'
  BY <1>9, JudgedKept DEF Spawn
<1>10. ASSUME NEW r \in 1..Rounds, NEW p \in Positions, TestPasses(r, p) \/ TestFails(r, p)
       PROVE  Judged'
  BY <1>10, JudgedKept DEF TestPasses, TestFails
<1>11. CASE ProbeReturns \/ Interrupted \/ RecordAndSelect
  BY <1>11, JudgedKept DEF ProbeReturns, Interrupted, RecordAndSelect, RoundsEnded
<1>12. CASE UNCHANGED vars
  BY <1>12, JudgedKept DEF vars
<1> QED BY <1>1, <1>2, <1>3, <1>4, <1>5, <1>6, <1>7, <1>8, <1>9, <1>10, <1>11, <1>12
        DEF Next, Step, Finished

-----------------------------------------------------------------------------
(* The fold: the result of an entry is that of one of its positions, and   *)
(* no other position of the entry has a better one.                        *)

Folded(e) == PositionsOf(e) \cap (live \cup condemned)

LEMMA ResultFields ==
    ASSUME TypeOK, NEW p \in Positions
    PROVE  /\ ResultOf(p).succ = accs[p].succ /\ accs[p].succ \in Nat
           /\ ResultOf(p).mean \in Nat
           /\ accs[p].succ > 0 => ResultOf(p).mean = accs[p].sum \div accs[p].succ
           /\ ResultOf(p).unbound <=> IF p \in condemned THEN ~PrecheckBound(EntryOf[p])
                                      ELSE ~UrlBound(EntryOf[p])
<1>1. accs[p].succ \in Nat /\ accs[p].sum \in Nat
  BY DEF TypeOK
<1>2. accs[p].succ > 0 => accs[p].sum \div accs[p].succ \in Nat
  BY <1>1
<1> QED BY <1>1, <1>2 DEF ResultOf

LEMMA BestExists ==
    ASSUME TypeOK, Counts, NEW e \in Entries, Folded(e) # {}
    PROVE  \E q \in Folded(e) : \A p \in Folded(e) : ~Better(ResultOf(p), ResultOf(q))
<1> DEFINE S == Folded(e)
           lost == {Rounds - accs[p].succ : p \in S}
           T == {p \in S : Rounds - accs[p].succ = Min(lost)}
           means == {ResultOf(p).mean : p \in T}
<1>1. \A p \in S : /\ p \in Positions /\ accs[p].succ \in Nat /\ Rounds - accs[p].succ \in Nat
                  /\ ResultOf(p).succ = accs[p].succ /\ ResultOf(p).mean \in Nat
  <2>1. SUFFICES ASSUME NEW p \in S
                 PROVE  /\ p \in Positions /\ accs[p].succ \in Nat
                        /\ Rounds - accs[p].succ \in Nat
                        /\ ResultOf(p).succ = accs[p].succ /\ ResultOf(p).mean \in Nat
    OBVIOUS
  <2>2. p \in Positions
    BY DEF Folded, PositionsOf
  <2>3. accs[p].succ + Cardinality(Pending(p)) <= Rounds /\ Cardinality(Pending(p)) \in Nat
    BY <2>2, PendingFinite DEF Counts, Counted
  <2> QED BY <2>2, <2>3, ResultFields, ProbeAssumption
<1>2. Min(lost) \in lost /\ \A y \in lost : Min(lost) <= y
  <2>1. lost \in SUBSET Nat /\ lost # {}
    BY <1>1
  <2> HIDE DEF lost
  <2> QED BY <2>1, MinInSet
<1>3. Min(means) \in means /\ \A y \in means : Min(means) <= y
  <2>1. means \in SUBSET Nat /\ means # {}
    BY <1>1, <1>2
  <2> HIDE DEF means
  <2> QED BY <2>1, MinInSet
<1>4. PICK q \in T : ResultOf(q).mean = Min(means)
  BY <1>3
<1>5. ASSUME NEW p \in S PROVE ~Better(ResultOf(p), ResultOf(q))
  <2>1. Rounds - accs[q].succ <= Rounds - accs[p].succ
    BY <1>2, <1>4
  <2>2. accs[p].succ = accs[q].succ => ResultOf(q).mean <= ResultOf(p).mean
    BY <1>3, <1>4
  <2> QED BY <1>1, <1>4, <2>1, <2>2, ProbeAssumption DEF Better
<1> QED BY <1>4, <1>5

LEMMA ResultIsBest ==
    ASSUME TypeOK, Counts, NEW e \in Entries, Result(e) # NoResult
    PROVE  \E q \in Folded(e) :
              /\ Result(e) = ResultOf(q)
              /\ \A p \in Folded(e) : ~Better(ResultOf(p), ResultOf(q))
<1> DEFINE results == {ResultOf(p) : p \in Folded(e)}
           best == CHOOSE a \in results : \A b \in results : ~Better(b, a)
<1>1. Result(e) = best /\ Folded(e) # {}
  BY DEF Result, Folded
<1>2. \E a \in results : \A b \in results : ~Better(b, a)
  BY <1>1, BestExists
<1>3. best \in results /\ \A b \in results : ~Better(b, best)
  BY <1>2
<1> QED BY <1>1, <1>3

-----------------------------------------------------------------------------
(* What the cycle makes of the results.                                    *)

Concluded ==
    /\ pc # "done" => dead = {} /\ kept = {}
    /\ dead # {} => precheck # "tripped"

IInv == TypeOK /\ Binding /\ Counts /\ Judged /\ Concluded /\ DeadWasTried /\ KeptOnMerit

LEMMA MeanBound ==
    ASSUME NEW sum \in Nat, NEW n \in Nat \ {0}, NEW m \in Nat, sum \div n <= m
    PROVE  sum < (m + 1) * n
<1> DEFINE q == sum \div n
<1>1. q \in Int /\ q >= 0 /\ sum < n * (q + 1)
  OBVIOUS
<1>2. q <= m
  OBVIOUS
<1> HIDE DEF q
<1>3. n * (q + 1) <= n * (m + 1)
  BY <1>1, <1>2
<1> QED BY <1>1, <1>3

\* An entry proved dead failed at its own address with every position.
LEMMA DeadIsTried ==
    ASSUME TypeOK, Binding, Counts, Judged, pc = "record", ~cancelled,
           NEW e \in Entries, ProvedDead(e)
    PROVE  /\ Folded(e) # {}
           /\ \A p \in PositionsOf(e) \cap live : accs[p].succ = 0 /\ missed[p] = Rounds
           /\ \A p \in PositionsOf(e) \cap condemned :
                 TargetOf(e) = OwnAddress(e) /\ verdict[OwnAddress(e)] = "refused"
<1>1. PICK q \in Folded(e) : /\ Result(e) = ResultOf(q)
                            /\ \A p \in Folded(e) : ~Better(ResultOf(p), ResultOf(q))
  BY ResultIsBest DEF ProvedDead
<1>2. /\ q \in Positions /\ EntryOf[q] = e
      /\ ResultOf(q).succ = 0 /\ ~ResultOf(q).unbound
  BY <1>1 DEF ProvedDead, Folded, PositionsOf
<1>3. ASSUME NEW p \in Folded(e) PROVE p \in Positions /\ EntryOf[p] = e /\ accs[p].succ = 0
  <2>1. p \in Positions /\ EntryOf[p] = e
    BY DEF Folded, PositionsOf
  <2>2. ResultOf(p).succ = accs[p].succ /\ accs[p].succ \in Nat
    BY <2>1, ResultFields
  <2>3. ~(ResultOf(p).succ > 0)
    BY <1>1, <1>2 DEF Better
  <2> QED BY <2>1, <2>2, <2>3
<1>4. ASSUME NEW p \in PositionsOf(e) \cap live
      PROVE  accs[p].succ = 0 /\ missed[p] = Rounds
  <2>1. p \in Positions /\ EntryOf[p] = e /\ accs[p].succ = 0 /\ p \notin condemned
    BY <1>3 DEF Folded, Judged
  <2>2. q \notin condemned
    BY <1>2, <2>1 DEF Judged, TcpPositions, VerdictOn
  <2>3. UrlBound(e)
    BY <1>2, <2>2, ResultFields
  <2>4. Pending(p) = {} /\ Cardinality(Pending(p)) = 0
    BY <2>1, PendingFinite DEF Counts, Over
  <2>5. missed[p] + accs[p].succ + Cardinality(Pending(p)) = Rounds
    BY <2>1, <2>3 DEF Counts, Counted
  <2> QED BY <2>1, <2>4, <2>5 DEF TypeOK
<1>5. ASSUME NEW p \in PositionsOf(e) \cap condemned
      PROVE  TargetOf(e) = OwnAddress(e) /\ verdict[OwnAddress(e)] = "refused"
  <2>1. p \in Positions /\ EntryOf[p] = e /\ p \in TcpPositions /\ VerdictOn(p) = "refused"
    BY DEF PositionsOf, Judged
  <2>2. q \in condemned
    BY <1>2, <2>1 DEF Judged, TcpPositions, VerdictOn
  <2>3. PrecheckBound(e)
    BY <1>2, <2>2, ResultFields
  <2>4. TargetOf(e) = OwnAddress(e)
    BY <2>3, TargetKnown
  <2> QED BY <2>1, <2>4 DEF VerdictOn
<1> QED BY <1>1, <1>4, <1>5

\* A survivor met the limits with one live position, and is not proved dead.
LEMMA KeptIsAlive ==
    ASSUME TypeOK, Counts, NEW e \in Entries, Survives(e)
    PROVE  /\ ~ProvedDead(e)
           /\ \E p \in PositionsOf(e) \cap live :
                 /\ accs[p].succ \in (Rounds - MaxFail)..Rounds
                 /\ accs[p].sum < (MaxAvg + 1) * accs[p].succ
<1>1. PICK q \in Folded(e) : Result(e) = ResultOf(q)
  BY ResultIsBest DEF Survives
<1>2. q \in Positions /\ q \in PositionsOf(e)
  BY DEF Folded, PositionsOf
<1>3. /\ ResultOf(q).succ = accs[q].succ /\ accs[q].succ \in Nat /\ accs[q].sum \in Nat
      /\ accs[q].succ > 0 => ResultOf(q).mean = accs[q].sum \div accs[q].succ
  BY <1>2, ResultFields DEF TypeOK
<1>4. accs[q].succ > 0 /\ accs[q].succ >= Rounds - MaxFail /\ ResultOf(q).mean <= MaxAvg
  BY <1>1, <1>3, ProbeAssumption DEF Survives
<1>5. q \in live
  BY <1>2, <1>3, <1>4 DEF Counts, Counted
<1>6. accs[q].succ <= Rounds
  <2>1. accs[q].succ + Cardinality(Pending(q)) <= Rounds /\ Cardinality(Pending(q)) \in Nat
    BY <1>2, PendingFinite DEF Counts, Counted
  <2> QED BY <1>3, <2>1, ProbeAssumption
<1>7. accs[q].succ \in (Rounds - MaxFail)..Rounds
  BY <1>3, <1>4, <1>6, ProbeAssumption
<1>8. accs[q].sum < (MaxAvg + 1) * accs[q].succ
  <2>1. /\ accs[q].sum \in Nat /\ accs[q].succ \in Nat \ {0} /\ MaxAvg \in Nat
        /\ accs[q].sum \div accs[q].succ <= MaxAvg
    BY <1>3, <1>4, ProbeAssumption
  <2> QED BY ONLY <2>1, MeanBound, Zenon
<1>9. ~ProvedDead(e)
  BY <1>1, <1>3, <1>4 DEF ProvedDead
<1> QED BY <1>2, <1>5, <1>7, <1>8, <1>9

LEMMA OutcomeStep ==
    IInv /\ [Next]_vars => Concluded' /\ DeadWasTried' /\ KeptOnMerit'
<1> SUFFICES ASSUME IInv, [Next]_vars PROVE Concluded' /\ DeadWasTried' /\ KeptOnMerit'
  OBVIOUS
<1> USE DEF bindVars, dialVars, splitVars, roundVars
<1>1. ASSUME pc # "done", pc' # "done", UNCHANGED <<dead, kept>>
      PROVE  Concluded' /\ DeadWasTried' /\ KeptOnMerit'
  <2>1. dead' = {} /\ kept' = {}
    BY <1>1 DEF IInv, Concluded
  <2> QED BY <1>1, <2>1 DEF Concluded, DeadWasTried, KeptOnMerit
<1>2. CASE Cancel
  BY <1>1, <1>2 DEF Cancel
<1>3. ASSUME NEW e \in Entries, BindEntry(e) PROVE Concluded' /\ DeadWasTried' /\ KeptOnMerit'
  BY <1>1, <1>3 DEF BindEntry
<1>4. CASE PinHosts
  BY <1>1, <1>4 DEF PinHosts
<1>5. ASSUME NEW t \in Targets, Dial(t) PROVE Concluded' /\ DeadWasTried' /\ KeptOnMerit'
  BY <1>1, <1>5 DEF Dial
<1>6. CASE BreakPrecheck \/ Condemn
  BY <1>1, <1>6 DEF BreakPrecheck, Condemn, DialsEnded
<1>7. CASE Parse \/ NothingParses
  BY <1>1, <1>7 DEF Parse, NothingParses
<1>8. ASSUME NEW r \in 1..Rounds, Spawn(r) PROVE Concluded' /\ DeadWasTried' /\ KeptOnMerit'
  BY <1>1, <1>8 DEF Spawn
<1>9. ASSUME NEW r \in 1..Rounds, NEW p \in Positions, TestPasses(r, p) \/ TestFails(r, p)
      PROVE  Concluded' /\ DeadWasTried' /\ KeptOnMerit'
  BY <1>1, <1>9 DEF TestPasses, TestFails
<1>10. CASE ProbeReturns \/ Interrupted
  BY <1>1, <1>10 DEF ProbeReturns, Interrupted, RoundsEnded
<1>11. CASE RecordAndSelect
  <2>1. /\ pc = "record" /\ pc' = "done" /\ ~cancelled
        /\ \A e \in dead' : e \in Entries /\ ProvedDead(e) /\ precheck # "tripped"
        /\ \A e \in kept' : e \in Entries /\ Survives(e)
        /\ UNCHANGED <<live, condemned, precheck, accs, missed, verdict, byAddr>>
    BY <1>11 DEF RecordAndSelect
  <2>2. Concluded'
    BY <2>1 DEF Concluded
  <2>3. DeadWasTried'
    <3>1. SUFFICES ASSUME NEW e \in dead'
                   PROVE  /\ PositionsOf(e) \cap (live \cup condemned) # {}
                          /\ \A p \in PositionsOf(e) \cap live :
                                accs[p].succ = 0 /\ missed[p] = Rounds
                          /\ \A p \in PositionsOf(e) \cap condemned :
                                /\ TargetOf(e) = OwnAddress(e)
                                /\ verdict[OwnAddress(e)] = "refused"
      BY <2>1 DEF DeadWasTried, TargetOf
    <3> QED BY <2>1, <3>1, DeadIsTried DEF IInv, Folded
  <2>4. KeptOnMerit'
    BY <2>1, KeptIsAlive DEF IInv, KeptOnMerit
  <2> QED BY <2>2, <2>3, <2>4
<1>12. CASE UNCHANGED vars
  BY <1>12 DEF vars, IInv, Concluded, DeadWasTried, KeptOnMerit, TargetOf
<1> QED BY <1>2, <1>3, <1>4, <1>5, <1>6, <1>7, <1>8, <1>9, <1>10, <1>11, <1>12
        DEF Next, Step, Finished

LEMMA IInvInit == Init => IInv
<1>1. Init => Concluded /\ DeadWasTried /\ KeptOnMerit
  BY DEF Init, Concluded, DeadWasTried, KeptOnMerit
<1> QED BY <1>1, TypeInit, BindingInit, CountsInit, JudgedInit DEF IInv

LEMMA IInvStep == IInv /\ [Next]_vars => IInv'
BY TypeStep, BindingStep, CountsStep, JudgedStep, OutcomeStep DEF IInv

LEMMA OutageExcluded == IInv => OutageCondemnsNobody
<1> SUFFICES ASSUME IInv, pc = "done", WithVerdict("refused") # {},
                    WithVerdict("reachable") = {}, dead # {}
             PROVE  FALSE
  BY DEF OutageCondemnsNobody
<1>1. \E p \in TcpPositions : VerdictOn(p) = "refused"
  BY DEF WithVerdict, Dialled, VerdictOn
<1>2. \A p \in TcpPositions : VerdictOn(p) # "reachable"
  BY DEF WithVerdict, Dialled, VerdictOn
<1> QED BY <1>1, <1>2 DEF IInv, Concluded, Judged

\* Of a live cycle the rounds of a pinned position are all accounted for: its
\* failures at the entry's address, its successes and its pending tests (IInv).
THEOREM Invariance == Spec => []IInv
BY IInvInit, IInvStep, PTL DEF Spec

\* recordDead caches an entry only for what its own address did
\* (DeadWasTried).
THEOREM DeadCorrect == Spec => []DeadWasTried
<1>1. IInv => DeadWasTried
  BY DEF IInv
<1> QED BY <1>1, Invariance, PTL

\* A pre-check that met an outage of the uplink makes recordDead write nothing
\* (OutageCondemnsNobody).
THEOREM OutageCorrect == Spec => []OutageCondemnsNobody
BY OutageExcluded, Invariance, PTL

\* SelectSurvivors keeps an entry only when one of its adapters alone met the
\* limits of the config (KeptOnMerit).
THEOREM KeptCorrect == Spec => []KeptOnMerit
<1>1. IInv => KeptOnMerit
  BY DEF IInv
<1> QED BY <1>1, Invariance, PTL
==============================================================================
