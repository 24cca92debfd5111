------------------------------ MODULE ProbePass ------------------------------
(***************************************************************************)
(* One pass of the prober over the entries of a cycle, up to what the      *)
(* cycle makes of it: MihomoProber.ProbeBound with newBinding,             *)
(* filterReachable, parseLive, the rounds and foldProbeResults, and then   *)
(* recordDead and SelectSurvivors.                                         *)
(*                                                                         *)
(* An entry is a server:port at the address the IP stage resolved and      *)
(* judged.  The prober dials hostnames, so it has to bind its dials to     *)
(* that address, which it cannot when two entries of one host disagree.  A *)
(* position is one adapter built from an entry; a mierus link has several, *)
(* an entry the converter does not understand has none.  Hosts are taken   *)
(* modulo case and the trailing dot, as pinKey does, so that two entries   *)
(* may share even server:port.                                             *)
(***************************************************************************)
EXTENDS NodeFilters, Integers, FiniteSetsExt

CONSTANTS
    Entries,
    HostOf, PortOf,   \* the server:port of each entry
    IpOf,             \* the address the IP stage selected
    Literals,         \* the hosts that are addresses themselves
    Tcp,              \* the entries whose server is dialled over plain TCP
    Positions,        \* the indices of the mappings in the payload
    EntryOf,          \* the entry of each position
    NoIp, NoResult,
    Attempts,         \* precheckAttempts
    Rounds, Concurrency, MaxFail, MaxAvg,    \* the check section of the config
    Delays            \* bound: the delays a test may measure

Hosts == {HostOf[e] : e \in Entries}

Ips == {IpOf[e] : e \in Entries}

Endpoint(e) == <<HostOf[e], PortOf[e]>>

OwnAddress(e) == <<IpOf[e], PortOf[e]>>

Endpoints == {Endpoint(e) : e \in Entries}

Targets == Endpoints \cup {OwnAddress(e) : e \in Entries}

PositionsOf(e) == {p \in Positions : EntryOf[p] = e}

ASSUME ProbeAssumption ==
    /\ IsFiniteSet(Entries) /\ IsFiniteSet(Positions) /\ Positions \subseteq Nat
    /\ EntryOf \in [Positions -> Entries] /\ Tcp \subseteq Entries
    /\ NoIp \notin Ips
    /\ \A e, f \in Entries :
          HostOf[e] = HostOf[f] /\ HostOf[e] \in Literals => IpOf[e] = IpOf[f]
    /\ Attempts \in Nat \ {0} /\ Rounds \in Nat \ {0} /\ Concurrency \in Int
    /\ MaxFail \in Nat /\ MaxFail < Rounds
    /\ MaxAvg \in Nat /\ Delays \subseteq Nat

VARIABLES
    pc,          \* program point of the cycle
    cancelled,   \* its context is done
    left,        \* the entries newBinding has still to read
    byAddr, addrUnbound, hosts, unbound,     \* binding
    verdict,     \* what the dials of an endpoint proved
    attempts,    \* the dials it has left
    precheck,    \* PrecheckReport.State
    condemned,   \* the positions the pre-check ruled out
    live,        \* those that carry an adapter
    rest,        \* of each round, the positions it has still to test
    inflight,    \* the running tests
    accs,        \* accs
    missed,      \* failed tests at the entry's own address, not of our making
    dead,        \* what recordDead wrote
    kept         \* what SelectSurvivors returned

bindVars  == <<left, byAddr, addrUnbound, hosts, unbound>>
dialVars  == <<verdict, attempts>>
splitVars == <<precheck, condemned, live>>
roundVars == <<rest, inflight, accs, missed>>
vars == <<pc, cancelled, bindVars, dialVars, splitVars, roundVars, dead, kept>>

TypeOK ==
    /\ pc \in {"bind", "dial", "parse", "rounds", "record", "done", "failed"}
    /\ cancelled \in BOOLEAN
    /\ left \subseteq Entries
    /\ byAddr \in [Endpoints -> Ips \cup {NoIp}] /\ addrUnbound \subseteq Endpoints
    /\ hosts \in [Hosts -> Ips \cup {NoIp}] /\ unbound \subseteq Hosts
    /\ verdict \in [Targets -> {"unresolved", "refused", "reachable"}]
    /\ attempts \in [Targets -> 0..Attempts]
    /\ precheck \in {"absent", "ran", "tripped"}
    /\ condemned \subseteq Positions /\ live \subseteq Positions
    /\ rest \in [1..Rounds -> SUBSET Positions]
    /\ inflight \subseteq (1..Rounds) \X Positions
    /\ accs \in [Positions -> [succ : Nat, sum : Nat]]
    /\ missed \in [Positions -> Nat]
    /\ dead \subseteq Entries /\ kept \subseteq Entries

Init ==
    /\ pc = "bind" /\ cancelled = FALSE /\ left = Entries
    /\ byAddr = [a \in Endpoints |-> NoIp] /\ addrUnbound = {}
    /\ hosts = [h \in Hosts |-> NoIp] /\ unbound = {}
    /\ verdict = [t \in Targets |-> "unresolved"]
    /\ attempts = [t \in Targets |-> Attempts]
    /\ precheck = "absent" /\ condemned = {} /\ live = {}
    /\ rest = [r \in 1..Rounds |-> {}] /\ inflight = {}
    /\ accs = [p \in Positions |-> [succ |-> 0, sum |-> 0]]
    /\ missed = [p \in Positions |-> 0]
    /\ dead = {} /\ kept = {}

Cancel ==
    /\ ~cancelled /\ pc \notin {"done", "failed"}
    /\ cancelled' = TRUE
    /\ UNCHANGED <<pc, bindVars, dialVars, splitVars, roundVars, dead, kept>>

-----------------------------------------------------------------------------
(* The binding.                                                            *)

\* Mutant of Select: a third entry finds no trace of the first two.
SelectAgain(table, conflicts, k, ip) ==
    [table EXCEPT ![k] = IF @ \in {NoIp, ip} THEN ip ELSE NoIp]

\* An address for k is recorded, confirmed, or taken back for good.
Select(table, conflicts, k, ip) ==
    [table EXCEPT ![k] = IF @ = ip \/ (@ = NoIp /\ k \notin conflicts) THEN ip ELSE NoIp]

Clash(table, conflicts, k, ip) ==
    IF table[k] \in {NoIp, ip} THEN conflicts ELSE conflicts \cup {k}

\* One step of newBinding, over the entries in any order.
BindEntry(e) ==
    LET h == HostOf[e]
        a == Endpoint(e)
    IN  /\ pc = "bind" /\ e \in left
        /\ left' = left \ {e}
        /\ byAddr' = Select(byAddr, addrUnbound, a, IpOf[e])
        /\ addrUnbound' = Clash(byAddr, addrUnbound, a, IpOf[e])
        /\ hosts' = IF h \in Literals THEN hosts ELSE Select(hosts, unbound, h, IpOf[e])
        /\ unbound' = IF h \in Literals THEN unbound ELSE Clash(hosts, unbound, h, IpOf[e])
        /\ UNCHANGED <<pc, cancelled, dialVars, splitVars, roundVars, dead, kept>>

\* pinHosts: from here on hosts is mihomo's resolver table.
PinHosts ==
    /\ pc = "bind" /\ left = {}
    /\ pc' = "dial"
    /\ UNCHANGED <<cancelled, bindVars, dialVars, splitVars, roundVars, dead, kept>>

\* precheckAddr: the selected address, or the name when there is none.
TargetOf(e) == IF byAddr[Endpoint(e)] # NoIp
               THEN <<byAddr[Endpoint(e)], PortOf[e]>> ELSE Endpoint(e)

PrecheckBound(e) == byAddr[Endpoint(e)] # NoIp

UrlBound(e) == HostOf[e] \in Literals \/ hosts[HostOf[e]] # NoIp

\* The addresses a test of e may reach: the pinned one, or whatever the
\* resolver answers.
Reaches(e) == IF HostOf[e] \in Literals THEN {IpOf[e]}
              ELSE IF hosts[HostOf[e]] # NoIp THEN {hosts[HostOf[e]]} ELSE Ips

-----------------------------------------------------------------------------
(* The pre-check.                                                          *)

TcpPositions == {p \in Positions : EntryOf[p] \in Tcp}

\* One dial per distinct endpoint.
Dialled == {TargetOf(EntryOf[p]) : p \in TcpPositions}

Settled(t) == attempts[t] = 0

\* One attempt of reachableTCP, the last one deciding.  Only a name can fail
\* to resolve; a dial that fails in a cancelled cycle proves nothing.
Dial(t) ==
    /\ pc = "dial" /\ t \in Dialled /\ ~Settled(t)
    /\ \E v \in {"reachable", "refused"} \cup (IF t \in Endpoints THEN {"unresolved"} ELSE {}) :
        /\ verdict' = [verdict EXCEPT ![t] =
                          IF v = "refused" /\ cancelled THEN "unresolved" ELSE v]
        /\ attempts' = [attempts EXCEPT ![t] =
                           IF v = "reachable" \/ cancelled THEN 0 ELSE @ - 1]
    /\ UNCHANGED <<pc, cancelled, bindVars, splitVars, roundVars, dead, kept>>

WithVerdict(v) == {t \in Dialled : verdict[t] = v}

\* The share is taken over the endpoints that were judged.
Implausible ==
    /\ Dialled # {}
    /\ BreakerTrips(Cardinality(WithVerdict("refused")),
                    Cardinality(Dialled \ WithVerdict("unresolved")))

DialsEnded == pc = "dial" /\ \A t \in Dialled : Settled(t)

\* Mutant of BreakPrecheck: the verdict is reported as implausible and used.
BreakPrecheckAfterwards ==
    /\ DialsEnded /\ Implausible
    /\ precheck' = "ran"
    /\ condemned' = {p \in TcpPositions : verdict[TargetOf(EntryOf[p])] = "refused"}
    /\ pc' = "parse"
    /\ UNCHANGED <<cancelled, bindVars, dialVars, live, roundVars, dead, kept>>

BreakPrecheck ==
    /\ DialsEnded /\ Implausible
    /\ precheck' = "tripped"
    /\ pc' = "parse"
    /\ UNCHANGED <<cancelled, bindVars, dialVars, condemned, live, roundVars, dead, kept>>

Condemn ==
    /\ DialsEnded /\ ~Implausible
    /\ precheck' = "ran"
    /\ condemned' = {p \in TcpPositions : verdict[TargetOf(EntryOf[p])] = "refused"}
    /\ pc' = "parse"
    /\ UNCHANGED <<cancelled, bindVars, dialVars, live, roundVars, dead, kept>>

\* parseLive: mihomo may refuse any mapping.
Parse ==
    /\ pc = "parse"
    /\ \E parsed \in SUBSET (Positions \ condemned) :
        /\ parsed # {} \/ condemned # {}
        /\ live' = parsed
        /\ rest' = [r \in 1..Rounds |-> parsed]
    /\ pc' = "rounds"
    /\ UNCHANGED <<cancelled, bindVars, dialVars, precheck, condemned, inflight, accs, missed,
                   dead, kept>>

\* No parsable proxy: the account of the pre-check is withdrawn.
NothingParses ==
    /\ pc = "parse" /\ condemned = {}
    /\ precheck' = "absent"
    /\ pc' = "failed"
    /\ UNCHANGED <<cancelled, bindVars, dialVars, condemned, live, roundVars, dead, kept>>

-----------------------------------------------------------------------------
(* The rounds, which run side by side under one semaphore.                 *)

Slots == IF Concurrency < 1 THEN 1 ELSE Concurrency

\* runRound takes the slot before it starts the worker, in payload order.
Spawn(r) ==
    /\ pc = "rounds" /\ rest[r] # {} /\ Cardinality(inflight) < Slots
    /\ LET p == Min(rest[r]) IN
        /\ rest' = [rest EXCEPT ![r] = @ \ {p}]
        /\ inflight' = inflight \cup {<<r, p>>}
    /\ UNCHANGED <<pc, cancelled, bindVars, dialVars, splitVars, accs, missed, dead, kept>>

\* The context of a test ends with the cycle's, and the order in which tests
\* account their results is not observed.
TestPasses(r, p) ==
    /\ pc = "rounds" /\ <<r, p>> \in inflight /\ ~cancelled
    /\ inflight' = inflight \ {<<r, p>>}
    /\ \E d \in Delays :
        accs' = [accs EXCEPT ![p] = [succ |-> @.succ + 1, sum |-> @.sum + d]]
    /\ UNCHANGED <<pc, cancelled, bindVars, dialVars, splitVars, rest, missed, dead, kept>>

\* A test that fails before the cycle is cancelled says something about the
\* address it reached.
TestFails(r, p) ==
    /\ pc = "rounds" /\ <<r, p>> \in inflight
    /\ inflight' = inflight \ {<<r, p>>}
    /\ \E ip \in Reaches(EntryOf[p]) :
        missed' = IF ip = IpOf[EntryOf[p]] /\ ~cancelled
                  THEN [missed EXCEPT ![p] = @ + 1] ELSE missed
    /\ UNCHANGED <<pc, cancelled, bindVars, dialVars, splitVars, rest, accs, dead, kept>>

RoundsEnded == pc = "rounds" /\ inflight = {} /\ \A r \in 1..Rounds : rest[r] = {}

ProbeReturns ==
    /\ RoundsEnded /\ ~cancelled
    /\ pc' = "record"
    /\ UNCHANGED <<cancelled, bindVars, dialVars, splitVars, roundVars, dead, kept>>

\* A cancelled probe returns no results; nor does the cycle use those of one
\* that was cancelled right after.
Interrupted ==
    /\ cancelled
    /\ RoundsEnded \/ pc = "record"
    /\ pc' = "failed"
    /\ UNCHANGED <<cancelled, bindVars, dialVars, splitVars, roundVars, dead, kept>>

-----------------------------------------------------------------------------
(* What the cycle makes of the results.                                    *)

\* One position folded: an Unbound result says nothing about the entry's ip.
ResultOf(p) ==
    [succ    |-> accs[p].succ,
     mean    |-> IF accs[p].succ > 0 THEN accs[p].sum \div accs[p].succ ELSE 0,
     unbound |-> IF p \in condemned THEN ~PrecheckBound(EntryOf[p]) ELSE ~UrlBound(EntryOf[p])]

\* betterProbe; the stage, which breaks a tie between failures for the
\* report, is left out.
Better(a, b) ==
    \/ a.succ > b.succ
    \/ a.succ = b.succ /\ a.mean < b.mean

\* Mutant of Result: the rounds of all the ports of a link are added up.
ResultSummed(e) ==
    LET ps == PositionsOf(e) \cap (live \cup condemned)
        succ == MapThenSumSet(LAMBDA p : accs[p].succ, ps)
        sum  == MapThenSumSet(LAMBDA p : accs[p].sum, ps)
    IN  IF ps = {} THEN NoResult
        ELSE [succ |-> succ, mean |-> IF succ > 0 THEN sum \div succ ELSE 0,
              unbound |-> \E p \in ps : ResultOf(p).unbound]

\* foldProbeResults: the best of the positions of a label.
Result(e) ==
    LET results == {ResultOf(p) : p \in PositionsOf(e) \cap (live \cup condemned)}
    IN  IF results = {} THEN NoResult
        ELSE CHOOSE a \in results : \A b \in results : ~Better(b, a)

\* Mutant of ProvedDead: a failure at any address counts.
ProvedDeadAnywhere(e) == Result(e) # NoResult /\ Result(e).succ = 0

\* A label without a result was refused by converter or adapter, which is no
\* verdict about the endpoint.
ProvedDead(e) == Result(e) # NoResult /\ Result(e).succ = 0 /\ ~Result(e).unbound

Survives(e) ==
    /\ Result(e) # NoResult
    /\ Rounds - Result(e).succ <= MaxFail /\ Result(e).mean <= MaxAvg

\* recordDead, which a tripped pre-check suppresses, and SelectSurvivors.
RecordAndSelect ==
    /\ pc = "record" /\ ~cancelled
    /\ dead' = IF precheck = "tripped" THEN {} ELSE {e \in Entries : ProvedDead(e)}
    /\ kept' = {e \in Entries : Survives(e)}
    /\ pc' = "done"
    /\ UNCHANGED <<cancelled, bindVars, dialVars, splitVars, roundVars>>

Step ==
    \/ \E e \in Entries : BindEntry(e)
    \/ PinHosts
    \/ \E t \in Targets : Dial(t)
    \/ BreakPrecheck \/ Condemn \/ Parse \/ NothingParses
    \/ \E r \in 1..Rounds :
        Spawn(r) \/ \E p \in Positions : TestPasses(r, p) \/ TestFails(r, p)
    \/ ProbeReturns \/ Interrupted \/ RecordAndSelect

Finished == pc \in {"done", "failed"} /\ UNCHANGED vars

Next == Cancel \/ Step \/ Finished

Spec == Init /\ [][Next]_vars

-----------------------------------------------------------------------------
(***************************************************************************)
(* A hostname is pinned, and an endpoint dialled by address, exactly when  *)
(* all the entries that share it selected one address: newBinding forgets  *)
(* no disagreement, in whatever order it meets the entries.                *)
(***************************************************************************)
PinsUnanimous ==
    pc # "bind" =>
        \A e \in Entries :
            /\ HostOf[e] \notin Literals =>
                  hosts[HostOf[e]] =
                      IF \A f \in Entries : HostOf[f] = HostOf[e] => IpOf[f] = IpOf[e]
                      THEN IpOf[e] ELSE NoIp
            /\ byAddr[Endpoint(e)] =
                  IF \A f \in Entries : Endpoint(f) = Endpoint(e) => IpOf[f] = IpOf[e]
                  THEN IpOf[e] ELSE NoIp

(***************************************************************************)
(* An entry is cached as dead only for what its own address did: each of   *)
(* its adapters failed every round there, or the endpoint refused the      *)
(* pre-check there; never for a name that resolved elsewhere, for the end  *)
(* of the cycle, or for a mapping mihomo refused.                          *)
(***************************************************************************)
DeadWasTried ==
    \A e \in dead :
        /\ PositionsOf(e) \cap (live \cup condemned) # {}
        /\ \A p \in PositionsOf(e) \cap live : accs[p].succ = 0 /\ missed[p] = Rounds
        /\ \A p \in PositionsOf(e) \cap condemned :
              TargetOf(e) = OwnAddress(e) /\ verdict[OwnAddress(e)] = "refused"

(***************************************************************************)
(* A pre-check that reached nothing and was refused somewhere speaks of    *)
(* our own uplink: such a pass condemns nobody to the dead cache.          *)
(***************************************************************************)
OutageCondemnsNobody ==
    pc = "done" /\ WithVerdict("refused") # {} /\ WithVerdict("reachable") = {}
        => dead = {}

(***************************************************************************)
(* A survivor has one adapter that alone met the limits of the config, as  *)
(* a client will dial one of its ports and not their sum; and it was not   *)
(* cached as dead by the same pass.                                        *)
(***************************************************************************)
KeptOnMerit ==
    \A e \in kept :
        /\ e \notin dead
        /\ \E p \in PositionsOf(e) \cap live :
              /\ accs[p].succ \in (Rounds - MaxFail)..Rounds
              /\ accs[p].sum < (MaxAvg + 1) * accs[p].succ
=============================================================================
