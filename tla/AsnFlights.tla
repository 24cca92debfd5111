------------------------------ MODULE AsnFlights ------------------------------
(***************************************************************************)
(* asn.Resolver: lookups of IP addresses that share their queries.  A call *)
(* that misses the cache joins the flight of its IP or registers one; the  *)
(* flight asks for the origin AS and then, through a second layer of the   *)
(* same protocol, for the name of that AS, which all its IPs share.  A     *)
(* flight has a deadline of its own, and is cancelled when the last of its *)
(* waiters has left.                                                       *)
(*                                                                         *)
(* Both layers are one: a party is a call, or the goroutine of an IP       *)
(* flight in the role of somebody who wants a name, and a flight is named  *)
(* by the party that registered it.  A key is an IP or an AS.  What is     *)
(* cached is an answer or a failure; when an entry expires or is evicted   *)
(* is left open.                                                           *)
(***************************************************************************)
EXTENDS Integers, FiniteSets

CONSTANTS
    Calls,     \* the calls of Resolve, one caller each
    IpOf,      \* the IP each call asks for
    AsnOf,     \* the AS each IP originates from
    None,      \* no flight, no cache entry
    MaxMishaps \* bound: contexts that end and cache entries that go

Call(c) == <<"call", c>>

\* The IP flight that call c registered, wanting a name.
NameFor(c) == <<"name", c>>

Callers == {Call(c) : c \in Calls}

Namers == {NameFor(c) : c \in Calls}

Parties == Callers \cup Namers

Ips == {IpOf[c] : c \in Calls}

Asns == {AsnOf[i] : i \in Ips}

Keys == Ips \cup Asns

KeyOf == [p \in Parties |-> IF p \in Callers THEN IpOf[p[2]] ELSE AsnOf[IpOf[p[2]]]]

ASSUME FlightsAssumption ==
    /\ IsFiniteSet(Calls)
    /\ Ips \cap Asns = {}
    /\ MaxMishaps \in Nat
    /\ None \notin Parties /\ None \notin {"ok", "fail"}

VARIABLES
    caller,      \* the context of each call
    at,          \* program point of each party
    on,          \* the flight a party waits for
    out,         \* what a party returned with
    table,       \* Resolver.flights and Resolver.nameFlights
    cache,       \* Resolver.cache and Resolver.nameCache
    body,        \* program point of each flight
    ctx,         \* the context of each flight
    waiters,     \* its waiters
    abandoned,   \* its abandoned
    result,      \* its result and err
    mishaps      \* what the bound has left us with

partyVars  == <<at, on, out>>
sharedVars == <<table, cache>>
flightVars == <<body, ctx, waiters, abandoned, result>>
vars == <<caller, mishaps, partyVars, sharedVars, flightVars>>

\* The state of a context: Err is nil, Canceled or DeadlineExceeded.
Contexts == {"live", "canceled", "expired"}

\* A failure is whatever Cymru or the flight's own deadline made of a query.
Outcomes == {"ok", "fail", "canceled", "expired"}

TypeOK ==
    /\ caller \in [Calls -> Contexts]
    /\ at \in [Parties -> {"none", "new", "enter", "recheck", "waiting", "done"}]
    /\ on \in [Parties -> Parties] /\ out \in [Parties -> Outcomes]
    /\ table \in [Keys -> Parties \cup {None}]
    /\ cache \in [Keys -> {"ok", "fail", None}]
    /\ body \in [Parties -> {"none", "registered", "query", "name", "finished"}]
    /\ ctx \in [Parties -> Contexts]
    /\ waiters \in [Parties -> Nat] /\ abandoned \in [Parties -> BOOLEAN]
    /\ result \in [Parties -> Outcomes] /\ mishaps \in 0..MaxMishaps

\* The context a party waits under: its caller's, or that of its IP flight.
ContextOf(p) == IF p \in Callers THEN caller[p[2]] ELSE ctx[Call(p[2])]

InFlight(f) == body[f] \in {"registered", "query", "name"}

Init ==
    /\ caller = [c \in Calls |-> "live"]
    /\ at = [p \in Parties |-> IF p \in Callers THEN "new" ELSE "none"]
    /\ on = [p \in Parties |-> p] /\ out = [p \in Parties |-> "fail"]
    /\ table = [k \in Keys |-> None] /\ cache = [k \in Keys |-> None]
    /\ body = [p \in Parties |-> "none"] /\ ctx = [p \in Parties |-> "live"]
    /\ waiters = [p \in Parties |-> 0] /\ abandoned = [p \in Parties |-> FALSE]
    /\ result = [p \in Parties |-> "fail"] /\ mishaps = 0

-----------------------------------------------------------------------------
(* The world: contexts end, and cache entries expire or are evicted.       *)

Mishap == mishaps < MaxMishaps /\ mishaps' = mishaps + 1

CallerGivesUp(c) ==
    /\ caller[c] = "live" /\ at[Call(c)] # "done"
    /\ Mishap
    /\ \E e \in {"canceled", "expired"} : caller' = [caller EXCEPT ![c] = e]
    /\ UNCHANGED <<partyVars, sharedVars, flightVars>>

DeadlinePasses(f) ==
    /\ InFlight(f) /\ ctx[f] = "live"
    /\ Mishap
    /\ ctx' = [ctx EXCEPT ![f] = "expired"]
    /\ UNCHANGED <<caller, partyVars, sharedVars, body, waiters, abandoned, result>>

EntryGoes(k) ==
    /\ cache[k] # None
    /\ Mishap
    /\ cache' = [cache EXCEPT ![k] = None]
    /\ UNCHANGED <<caller, partyVars, table, flightVars>>

-----------------------------------------------------------------------------
(* The flights.                                                            *)

\* cancel() on a context that has ended already does nothing.
Cancelled(f) == [ctx EXCEPT ![f] = IF @ = "live" THEN "canceled" ELSE @]

\* What a returned flight leaves in the cache, if anything.
Entry(f, r) == IF r = "canceled" THEN cache[KeyOf[f]] ELSE r

\* Mutant of Finish: the entry of the key is removed whoever owns it.
FinishUnowned(f, r, entry) ==
    /\ body' = [body EXCEPT ![f] = "finished"]
    /\ result' = [result EXCEPT ![f] = r]
    /\ ctx' = Cancelled(f)
    /\ table' = [table EXCEPT ![KeyOf[f]] = None]
    /\ cache' = IF table[KeyOf[f]] = f THEN [cache EXCEPT ![KeyOf[f]] = entry] ELSE cache
    /\ UNCHANGED <<waiters, abandoned>>

\* Mutant of Finish: the answer of a replaced flight is cached as well.
FinishStale(f, r, entry) ==
    /\ body' = [body EXCEPT ![f] = "finished"]
    /\ result' = [result EXCEPT ![f] = r]
    /\ ctx' = Cancelled(f)
    /\ table' = [table EXCEPT ![KeyOf[f]] = IF @ = f THEN None ELSE @]
    /\ cache' = [cache EXCEPT ![KeyOf[f]] = entry]
    /\ UNCHANGED <<waiters, abandoned>>

\* finishIPFlight and finishNameFlight.
Finish(f, r, entry) ==
    /\ body' = [body EXCEPT ![f] = "finished"]
    /\ result' = [result EXCEPT ![f] = r]
    /\ ctx' = Cancelled(f)
    /\ table' = [table EXCEPT ![KeyOf[f]] = IF @ = f THEN None ELSE @]
    /\ cache' = IF table[KeyOf[f]] = f /\ ~abandoned[f]
                THEN [cache EXCEPT ![KeyOf[f]] = entry] ELSE cache
    /\ UNCHANGED <<waiters, abandoned>>

\* How a TXT query ends: under a cancelled context it may say so.
Answers(f) == {"ok", "fail"} \cup (IF ctx[f] = "canceled" THEN {"canceled"} ELSE {})

\* The query of a name flight, or the origin query of an IP flight, which is
\* the whole of it when there is no origin.
QueryEndsFlight(f) ==
    /\ body[f] = "query"
    /\ \E r \in Answers(f) :
        /\ f \in Namers \/ r # "ok"
        /\ Finish(f, r, Entry(f, r))
    /\ UNCHANGED <<caller, mishaps, partyVars>>

\* The origin is known: the IP flight goes on as somebody who wants a name.
OriginKnown(f) ==
    /\ body[f] = "query" /\ f \in Callers
    /\ body' = [body EXCEPT ![f] = "name"]
    /\ at' = [at EXCEPT ![NameFor(f[2])] = "new"]
    /\ UNCHANGED <<caller, mishaps, on, out, sharedVars, ctx, waiters, abandoned, result>>

\* lookupName returned to the IP flight.  Its own deadline is a failure.
NameReturned(f) ==
    /\ body[f] = "name" /\ at[NameFor(f[2])] = "done"
    /\ LET r == IF out[NameFor(f[2])] = "expired" THEN "fail" ELSE out[NameFor(f[2])]
       IN  Finish(f, r, Entry(f, r))
    /\ UNCHANGED <<caller, mishaps, partyVars>>

FlightStep(f) == QueryEndsFlight(f) \/ OriginKnown(f) \/ NameReturned(f)

-----------------------------------------------------------------------------
(* The parties: Resolve with resolveCold, and lookupName.                  *)

Return(p, r) ==
    /\ at' = [at EXCEPT ![p] = "done"] /\ out' = [out EXCEPT ![p] = r]

HitCache(p) ==
    /\ at[p] = "new" /\ cache[KeyOf[p]] # None
    /\ Return(p, cache[KeyOf[p]])
    /\ UNCHANGED <<caller, mishaps, on, sharedVars, flightVars>>

\* A context that has ended neither starts nor joins a flight.
RefuseEnded(p) ==
    /\ at[p] = "new" /\ cache[KeyOf[p]] = None /\ ContextOf(p) # "live"
    /\ Return(p, ContextOf(p))
    /\ UNCHANGED <<caller, mishaps, on, sharedVars, flightVars>>

MissCache(p) ==
    /\ at[p] = "new" /\ cache[KeyOf[p]] = None /\ ContextOf(p) = "live"
    /\ at' = [at EXCEPT ![p] = "enter"]
    /\ UNCHANGED <<caller, mishaps, on, out, sharedVars, flightVars>>

\* Mutant of Join: the new waiter is not counted.
JoinUncounted(p) ==
    /\ at[p] = "enter" /\ table[KeyOf[p]] # None
    /\ on' = [on EXCEPT ![p] = table[KeyOf[p]]]
    /\ at' = [at EXCEPT ![p] = "waiting"]
    /\ UNCHANGED <<caller, mishaps, out, sharedVars, flightVars>>

Join(p) ==
    /\ at[p] = "enter" /\ table[KeyOf[p]] # None
    /\ on' = [on EXCEPT ![p] = table[KeyOf[p]]]
    /\ waiters' = [waiters EXCEPT ![table[KeyOf[p]]] = @ + 1]
    /\ at' = [at EXCEPT ![p] = "waiting"]
    /\ UNCHANGED <<caller, mishaps, out, sharedVars, body, ctx, abandoned, result>>

Register(p) ==
    /\ at[p] = "enter" /\ table[KeyOf[p]] = None
    /\ table' = [table EXCEPT ![KeyOf[p]] = p]
    /\ body' = [body EXCEPT ![p] = "registered"]
    /\ waiters' = [waiters EXCEPT ![p] = 1]
    /\ on' = [on EXCEPT ![p] = p]
    /\ at' = [at EXCEPT ![p] = "recheck"]
    /\ UNCHANGED <<caller, mishaps, out, cache, ctx, abandoned, result>>

\* Mutant of RecheckHit: the flight is left registered, and unfinished.
RecheckReturns(p) ==
    /\ at[p] = "recheck" /\ cache[KeyOf[p]] # None
    /\ Return(p, cache[KeyOf[p]])
    /\ UNCHANGED <<caller, mishaps, on, sharedVars, flightVars>>

\* Another flight stored the answer between the miss and the registration:
\* whoever joined meanwhile gets it too, and nothing new is cached.
RecheckHit(p) ==
    /\ at[p] = "recheck" /\ cache[KeyOf[p]] # None
    /\ Return(p, cache[KeyOf[p]])
    /\ Finish(p, cache[KeyOf[p]], cache[KeyOf[p]])
    /\ UNCHANGED <<caller, mishaps, on>>

Launch(p) ==
    /\ at[p] = "recheck" /\ cache[KeyOf[p]] = None
    /\ body' = [body EXCEPT ![p] = "query"]
    /\ at' = [at EXCEPT ![p] = "waiting"]
    /\ UNCHANGED <<caller, mishaps, on, out, sharedVars, ctx, waiters, abandoned, result>>

\* The flight closed its done channel.
Wake(p) ==
    /\ at[p] = "waiting" /\ body[on[p]] = "finished"
    /\ Return(p, result[on[p]])
    /\ UNCHANGED <<caller, mishaps, on, sharedVars, flightVars>>

\* dropIPWaiter and dropNameWaiter: a waiter other than the last one leaves,
\* or the flight has finished already.
Leave(p) ==
    /\ at[p] = "waiting" /\ ContextOf(p) # "live"
    /\ waiters[on[p]] > 1 \/ body[on[p]] = "finished"
    /\ Return(p, ContextOf(p))
    /\ waiters' = [waiters EXCEPT ![on[p]] = @ - 1]
    /\ UNCHANGED <<caller, mishaps, on, sharedVars, body, ctx, abandoned, result>>

\* Mutant of LeaveLast: the flight nobody waits for is left to itself.
LeaveRunning(p) ==
    /\ at[p] = "waiting" /\ ContextOf(p) # "live"
    /\ waiters[on[p]] <= 1 /\ body[on[p]] # "finished"
    /\ Return(p, ContextOf(p))
    /\ waiters' = [waiters EXCEPT ![on[p]] = @ - 1]
    /\ UNCHANGED <<caller, mishaps, on, sharedVars, body, ctx, abandoned, result>>

\* The last waiter leaves: the flight is unregistered and cancelled.
LeaveLast(p) ==
    LET f == on[p] IN
    /\ at[p] = "waiting" /\ ContextOf(p) # "live"
    /\ waiters[f] <= 1 /\ body[f] # "finished"
    /\ Return(p, ContextOf(p))
    /\ waiters' = [waiters EXCEPT ![f] = @ - 1]
    /\ abandoned' = [abandoned EXCEPT ![f] = TRUE]
    /\ table' = [table EXCEPT ![KeyOf[f]] = IF @ = f THEN None ELSE @]
    /\ ctx' = Cancelled(f)
    /\ UNCHANGED <<caller, mishaps, on, cache, body, result>>

PartyStep(p) ==
    \/ HitCache(p) \/ MissCache(p) \/ RefuseEnded(p)
    \/ Join(p) \/ Register(p) \/ RecheckHit(p) \/ Launch(p)
    \/ Wake(p) \/ Leave(p) \/ LeaveLast(p)

\* Every call has returned and no flight is left behind.
AllReturned ==
    /\ \A p \in Callers : at[p] = "done" /\ ~InFlight(p)
    /\ \A p \in Namers : ~InFlight(p)

Finished == AllReturned /\ UNCHANGED vars

Next ==
    \/ \E c \in Calls : CallerGivesUp(c)
    \/ \E k \in Keys : EntryGoes(k)
    \/ \E p \in Parties : DeadlinePasses(p) \/ FlightStep(p) \/ PartyStep(p)
    \/ Finished

Spec == Init /\ [][Next]_vars

(***************************************************************************)
(* Fairness: goroutines that can take a step take it, and every query      *)
(* returns, at the latest when the deadline of its flight has passed.      *)
(* Callers may wait for ever.                                              *)
(***************************************************************************)
FlightsEnd == \A f \in Parties : WF_vars(FlightStep(f))

PartiesRun == \A p \in Parties : WF_vars(PartyStep(p))

FairSpec == Spec /\ FlightsEnd /\ PartiesRun

-----------------------------------------------------------------------------
(***************************************************************************)
(* A key is looked up at most once at a time, not counting lookups that    *)
(* everybody has left: a lookup that was abandoned, and returns after its  *)
(* successor registered, must not unregister the successor.                *)
(***************************************************************************)
OneLookupPerKey ==
    \A f, g \in Parties :
        /\ KeyOf[f] = KeyOf[g]
        /\ InFlight(f) /\ InFlight(g)
        /\ ~abandoned[f] /\ ~abandoned[g]
        => f = g

(***************************************************************************)
(* A party returns Canceled only when its own context was cancelled, never *)
(* because another party that shared its lookup went away.                 *)
(***************************************************************************)
OwnCancellationOnly ==
    \A p \in Parties :
        at[p] = "done" /\ out[p] = "canceled" => ContextOf(p) = "canceled"

(***************************************************************************)
(* Abandoned work does not run out its full timeout: a lookup that runs    *)
(* while nobody waits for it has been told to stop.                        *)
(***************************************************************************)
NobodyRunsForNobody ==
    \A f \in Parties :
        InFlight(f) /\ ctx[f] = "live" =>
            \E p \in Parties : at[p] \in {"recheck", "waiting"} /\ on[p] = f

(***************************************************************************)
(* Only the lookup that owns the key commits its answer, so that stale     *)
(* work never overwrites that of a newer lookup.                           *)
(***************************************************************************)
CommittedByOwner ==
    [][\A k \in Keys :
          cache'[k] \notin {cache[k], None} =>
              /\ table[k] # None /\ table'[k] = None
              /\ ~abandoned[table[k]]
              /\ result'[table[k]] = cache'[k]]_vars

(***************************************************************************)
(* Every call returns, at the latest when the deadlines of the two lookups *)
(* it waits for have passed.                                               *)
(***************************************************************************)
EveryCallReturns == \A c \in Calls : <>(at[Call(c)] = "done")
=============================================================================
