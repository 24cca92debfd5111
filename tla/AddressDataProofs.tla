--------------------------- MODULE AddressDataProofs ---------------------------
(***************************************************************************)
(* Proofs about what the filters know of addresses, and how they come to   *)
(* know it.  The AS of an address is asked for, one request at a time, and *)
(* shared (AsnFlights): for every finite set of calls, whichever IPs they  *)
(* ask for and whichever AS those belong to.  The countries and the        *)
(* allow-list are downloaded behind the requests (GeoRefresh): for every   *)
(* number of mirrors, every interval and every backoff.                    *)
(***************************************************************************)
EXTENDS AsnFlights, GeoRefresh, FiniteSetTheorems, TLAPS

USE DEF partyVars, sharedVars, flightVars

-----------------------------------------------------------------------------
(***************************************************************************)
(* Parties, and the keys they ask for.                                     *)
(***************************************************************************)
LEMMA Sorts ==
    /\ Callers \cap Namers = {} /\ Parties = Callers \cup Namers
    /\ \A c \in Calls : /\ Call(c) \in Callers /\ Call(c)[2] = c
                        /\ NameFor(c) \in Namers /\ NameFor(c)[2] = c
    /\ \A p \in Callers : p[2] \in Calls /\ p = Call(p[2])
    /\ \A p \in Namers : p[2] \in Calls /\ p = NameFor(p[2])
BY DEF Callers, Namers, Parties, Call, NameFor

LEMMA Keyed == \A p \in Parties : KeyOf[p] \in Keys
<1> TAKE p \in Parties
<1>1. IpOf[p[2]] \in Ips
  BY Sorts DEF Ips
<1>2. AsnOf[IpOf[p[2]]] \in Asns
  BY <1>1 DEF Asns
<1>3. QED
  BY <1>1, <1>2 DEF KeyOf, Keys

LEMMA FewParties == IsFiniteSet(Parties)
<1>1. IsFiniteSet(Callers)
  <2> DEFINE f == [c \in Calls |-> Call(c)]
  <2>1. f \in Surjection(Calls, Callers)
    BY DEF Surjection, Callers
  <2>2. QED
    BY <2>1, FS_Surjection, FlightsAssumption
<1>2. IsFiniteSet(Namers)
  <2> DEFINE f == [c \in Calls |-> NameFor(c)]
  <2>1. f \in Surjection(Calls, Namers)
    BY DEF Surjection, Namers
  <2>2. QED
    BY <2>1, FS_Surjection, FlightsAssumption
<1>3. QED
  BY <1>1, <1>2, FS_Union DEF Parties

-----------------------------------------------------------------------------
(***************************************************************************)
(* The invariant.  Who is counted as a waiter of a flight:                 *)
(***************************************************************************)
Waiting(f) == {p \in Parties : at[p] \in {"recheck", "waiting"} /\ on[p] = f}

\* The table names the flights that run and that somebody wants.
Owner ==
    /\ \A k \in Keys : table[k] # None =>
          KeyOf[table[k]] = k /\ InFlight(table[k]) /\ ~abandoned[table[k]]
    /\ \A f \in Parties : InFlight(f) /\ ~abandoned[f] => table[KeyOf[f]] = f

\* Where a party and the flight it registered, or waits for, are.
Places ==
    /\ \A p \in Parties : at[p] \in {"none", "new", "enter"} => body[p] = "none"
    /\ \A p \in Parties : at[p] = "recheck" => on[p] = p
    /\ \A p \in Parties : at[p] = "recheck" <=> body[p] = "registered"
    /\ \A p \in Parties : at[p] = "waiting" =>
          body[on[p]] # "none" /\ (InFlight(on[p]) => ~abandoned[on[p]])
    /\ \A f \in Namers : body[f] # "name"
    /\ \A c \in Calls : at[NameFor(c)] # "none" => body[Call(c)] \in {"name", "finished"}

\* The counter is right as long as it matters.
Counted ==
    \A f \in Parties :
        /\ Cardinality(Waiting(f)) <= waiters[f]
        /\ InFlight(f) => Cardinality(Waiting(f)) = waiters[f]
        /\ InFlight(f) /\ ~abandoned[f] => Waiting(f) # {}

\* A flight is cancelled when it is abandoned or has returned, not before.
Told ==
    \A f \in Parties :
        /\ InFlight(f) => (ctx[f] = "canceled" => abandoned[f])
        /\ abandoned[f] => body[f] # "none" /\ ctx[f] # "live" /\ Waiting(f) = {}
        /\ body[f] = "none" => ctx[f] = "live"

\* Nobody waits for a result that says Canceled.
Handed ==
    /\ \A p \in Parties :
          at[p] = "done" /\ out[p] = "canceled" => ContextOf(p) = "canceled"
    /\ \A p \in Parties :
          at[p] = "waiting" /\ body[on[p]] = "finished" => result[on[p]] # "canceled"

IInv == TypeOK /\ Owner /\ Places /\ Counted /\ Told /\ Handed

\* The actions, one at a time.
LEMMA Steps ==
    [Next]_vars =>
        \/ \E c \in Calls : CallerGivesUp(c)
        \/ \E k \in Keys : EntryGoes(k)
        \/ \E p \in Parties :
              \/ DeadlinePasses(p)
              \/ QueryEndsFlight(p) \/ OriginKnown(p) \/ NameReturned(p)
              \/ HitCache(p) \/ RefuseEnded(p) \/ MissCache(p)
              \/ Join(p) \/ Register(p) \/ RecheckHit(p) \/ Launch(p)
              \/ Wake(p) \/ Leave(p) \/ LeaveLast(p)
        \/ UNCHANGED vars
BY DEF Next, FlightStep, PartyStep, Finished

\* The three ways a flight returns.
Returns(f) == QueryEndsFlight(f) \/ NameReturned(f) \/ RecheckHit(f)

\* With what, and what it leaves in the cache.
LEMMA Returned ==
    ASSUME IInv, NEW f \in Parties, Returns(f)
    PROVE  /\ InFlight(f)
           /\ \E r \in {"ok", "fail", "canceled"}, e \in {"ok", "fail", None} :
                 /\ Finish(f, r, e)
                 /\ r = "canceled" => ctx[f] = "canceled" /\ e = cache[KeyOf[f]]
                 /\ r # "canceled" => e = r \/ e = cache[KeyOf[f]]
                 /\ e # cache[KeyOf[f]] => e = r
<1> USE Keyed DEF IInv, TypeOK, InFlight
<1>1. KeyOf[f] \in Keys /\ cache[KeyOf[f]] \in {"ok", "fail", None}
  OBVIOUS
<1>2. CASE QueryEndsFlight(f)
  BY <1>1, <1>2 DEF QueryEndsFlight, Answers, Entry
<1>3. CASE NameReturned(f)
  <2> DEFINE o == out[NameFor(f[2])]
             r == IF o = "expired" THEN "fail" ELSE o
  <2>1. f \in Callers
    BY <1>3, Sorts DEF NameReturned, Places
  <2>2. NameFor(f[2]) \in Parties /\ ContextOf(NameFor(f[2])) = ctx[f]
    BY <2>1, Sorts DEF ContextOf
  <2>3. r \in {"ok", "fail", "canceled"} /\ (r = "canceled" => ctx[f] = "canceled")
    BY <1>3, <2>2 DEF NameReturned, Handed, Outcomes
  <2>4. Finish(f, r, Entry(f, r)) /\ body[f] = "name"
    BY <1>3 DEF NameReturned
  <2>5. QED
    BY <1>1, <2>3, <2>4 DEF Entry
<1>4. CASE RecheckHit(f)
  BY <1>1, <1>4 DEF RecheckHit, Places
<1>5. QED
  BY <1>2, <1>3, <1>4 DEF Returns

-----------------------------------------------------------------------------
LEMMA InitIInv == Init => IInv
<1> SUFFICES ASSUME Init PROVE IInv
  OBVIOUS
<1> USE Sorts, Keyed DEF Init
<1>1. TypeOK
  BY FlightsAssumption DEF TypeOK, Contexts, Outcomes
<1>2. Owner
  BY DEF Owner, InFlight
<1>3. Places
  BY DEF Places
<1>4. \A f \in Parties : Waiting(f) = {}
  BY DEF Waiting
<1>5. Counted
  <2> SUFFICES ASSUME NEW f \in Parties
               PROVE  Cardinality(Waiting(f)) <= waiters[f] /\ ~InFlight(f)
    BY DEF Counted
  <2>1. Cardinality(Waiting(f)) = 0 /\ waiters[f] = 0
    BY <1>4, FS_EmptySet
  <2>2. QED
    BY <2>1 DEF InFlight
<1>6. Told
  BY DEF Told, InFlight
<1>7. Handed
  BY DEF Handed
<1>8. QED
  BY <1>1, <1>2, <1>3, <1>5, <1>6, <1>7 DEF IInv

-----------------------------------------------------------------------------
(***************************************************************************)
(* Types.                                                                  *)
(***************************************************************************)
LEMMA WaiterCounts ==
    ASSUME IInv, NEW p \in Parties, at[p] \in {"recheck", "waiting"}
    PROVE  /\ on[p] \in Parties /\ waiters[on[p]] \in Nat /\ waiters[on[p]] # 0
           /\ waiters[on[p]] - 1 \in Nat
           /\ waiters[on[p]] <= 1 /\ InFlight(on[p]) => Waiting(on[p]) = {p}
           /\ IsFiniteSet(Waiting(on[p])) /\ p \in Waiting(on[p])
<1>1. on[p] \in Parties /\ waiters[on[p]] \in Nat
  BY DEF IInv, TypeOK
<1>2. p \in Waiting(on[p]) /\ Waiting(on[p]) \subseteq Parties
  BY DEF Waiting
<1>3. IsFiniteSet(Waiting(on[p])) /\ Cardinality(Waiting(on[p])) \in Nat
  BY <1>2, FewParties, FS_Subset, FS_CardinalityType
<1>4. Cardinality(Waiting(on[p])) # 0
  BY <1>2, <1>3, FS_EmptySet
<1>5. waiters[on[p]] # 0
  BY <1>1, <1>3, <1>4 DEF IInv, Counted
<1>6. ASSUME waiters[on[p]] <= 1, InFlight(on[p])
      PROVE  Waiting(on[p]) = {p}
  <2>1. Cardinality(Waiting(on[p])) = 1
    BY <1>1, <1>3, <1>4, <1>6 DEF IInv, Counted
  <2>2. QED
    BY <1>2, <1>3, <2>1, FS_Singleton
<1>7. QED
  BY <1>1, <1>2, <1>3, <1>5, <1>6

LEMMA ContextsEnd ==
    ASSUME TypeOK, NEW p \in Parties PROVE ContextOf(p) \in Contexts
<1>1. CASE p \in Callers
  BY <1>1, Sorts DEF TypeOK, ContextOf
<1>2. CASE p \in Namers
  <2>1. Call(p[2]) \in Parties /\ p \notin Callers
    BY <1>2, Sorts
  <2>2. QED
    BY <2>1 DEF TypeOK, ContextOf
<1>3. QED
  BY <1>1, <1>2, Sorts

LEMMA TypesStep == IInv /\ [Next]_vars => TypeOK'
<1> SUFFICES ASSUME IInv, [Next]_vars PROVE TypeOK'
  OBVIOUS
<1>1. TypeOK
  BY DEF IInv
<1> USE <1>1, Keyed DEF TypeOK, Contexts, Outcomes
<1>2. ASSUME NEW c \in Calls, CallerGivesUp(c) PROVE TypeOK'
  BY <1>2, FlightsAssumption DEF CallerGivesUp, Mishap
<1>3. ASSUME NEW k \in Keys, EntryGoes(k) PROVE TypeOK'
  BY <1>3, FlightsAssumption DEF EntryGoes, Mishap
<1>4. ASSUME NEW f \in Parties, DeadlinePasses(f) PROVE TypeOK'
  BY <1>4, FlightsAssumption DEF DeadlinePasses, Mishap
<1>5. ASSUME NEW f \in Parties, Returns(f) PROVE TypeOK'
  <2>1. PICK r \in {"ok", "fail", "canceled"}, e \in {"ok", "fail", None} : Finish(f, r, e)
    BY <1>5, Returned
  <2>2. /\ table' \in [Keys -> Parties \cup {None}]
        /\ cache' \in [Keys -> {"ok", "fail", None}]
    BY <2>1 DEF Finish
  <2>3. /\ body' \in [Parties -> {"none", "registered", "query", "name", "finished"}]
        /\ result' \in [Parties -> Outcomes] /\ ctx' \in [Parties -> Contexts]
        /\ UNCHANGED <<waiters, abandoned>>
    BY <2>1 DEF Finish, Cancelled
  <2>4. /\ UNCHANGED <<caller, mishaps, on>>
        /\ at' \in [Parties -> {"none", "new", "enter", "recheck", "waiting", "done"}]
        /\ out' \in [Parties -> Outcomes]
    <3>1. CASE RecheckHit(f)
      BY <3>1 DEF RecheckHit, Return
    <3>2. CASE QueryEndsFlight(f) \/ NameReturned(f)
      BY <3>2 DEF QueryEndsFlight, NameReturned
    <3>3. QED
      BY <1>5, <3>1, <3>2 DEF Returns
  <2>5. QED
    BY <2>2, <2>3, <2>4
<1>6. ASSUME NEW f \in Parties, OriginKnown(f) PROVE TypeOK'
  BY <1>6, Sorts DEF OriginKnown
<1>7. ASSUME NEW p \in Parties, HitCache(p) PROVE TypeOK'
  BY <1>7 DEF HitCache, Return
<1>8. ASSUME NEW p \in Parties, RefuseEnded(p) PROVE TypeOK'
  BY <1>8, ContextsEnd DEF RefuseEnded, Return
<1>9. ASSUME NEW p \in Parties, MissCache(p) PROVE TypeOK'
  BY <1>9 DEF MissCache
<1>10. ASSUME NEW p \in Parties, Join(p) PROVE TypeOK'
  BY <1>10 DEF Join
<1>11. ASSUME NEW p \in Parties, Register(p) PROVE TypeOK'
  BY <1>11 DEF Register
<1>12. ASSUME NEW p \in Parties, Launch(p) PROVE TypeOK'
  BY <1>12 DEF Launch
<1>13. ASSUME NEW p \in Parties, Wake(p) PROVE TypeOK'
  BY <1>13 DEF Wake, Return
<1>14. ASSUME NEW p \in Parties, Leave(p) PROVE TypeOK'
  <2>1. waiters[on[p]] - 1 \in Nat
    BY <1>14, WaiterCounts, at[p] \in {"recheck", "waiting"} DEF Leave
  <2>2. waiters' \in [Parties -> Nat]
    BY <1>14, <2>1 DEF Leave
  <2>3. QED
    BY <1>14, <2>2, ContextsEnd DEF Leave, Return
<1>15. ASSUME NEW p \in Parties, LeaveLast(p) PROVE TypeOK'
  <2>1. waiters[on[p]] - 1 \in Nat
    BY <1>15, WaiterCounts, at[p] \in {"recheck", "waiting"} DEF LeaveLast
  <2>2. waiters' \in [Parties -> Nat]
    BY <1>15, <2>1 DEF LeaveLast
  <2>3. on[p] \in Parties
    OBVIOUS
  <2>4. /\ table' \in [Keys -> Parties \cup {None}]
        /\ abandoned' \in [Parties -> BOOLEAN]
        /\ ctx' \in [Parties -> Contexts]
    <3>1. table' \in [Keys -> Parties \cup {None}]
      BY <1>15, <2>3 DEF LeaveLast
    <3>2. abandoned' \in [Parties -> BOOLEAN]
      BY <1>15, <2>3 DEF LeaveLast
    <3>3. ctx' \in [Parties -> Contexts]
      BY <1>15, <2>3 DEF LeaveLast, Cancelled
    <3>4. QED
      BY <3>1, <3>2, <3>3
  <2>5. /\ at' \in [Parties -> {"none", "new", "enter", "recheck", "waiting", "done"}]
        /\ out' \in [Parties -> Outcomes]
    BY <1>15, ContextsEnd DEF LeaveLast, Return
  <2>6. UNCHANGED <<caller, mishaps, on, cache, body, result>>
    BY <1>15 DEF LeaveLast
  <2>7. QED
    BY <2>2, <2>4, <2>5, <2>6
<1>16. CASE UNCHANGED vars
  BY <1>16 DEF vars
<1>17. QED
  BY Steps, <1>2, <1>3, <1>4, <1>5, <1>6, <1>7, <1>8, <1>9, <1>10, <1>11, <1>12,
     <1>13, <1>14, <1>15, <1>16 DEF Returns

-----------------------------------------------------------------------------
(***************************************************************************)
(* The table and the flights.                                              *)
(***************************************************************************)
LEMMA OwnerStep == IInv /\ [Next]_vars => Owner'
<1> SUFFICES ASSUME IInv, [Next]_vars PROVE Owner'
  OBVIOUS
<1>1. TypeOK /\ Owner
  BY DEF IInv
<1> USE <1>1, Keyed, FlightsAssumption DEF TypeOK, Owner, InFlight
<1>2. CASE UNCHANGED <<table, body, abandoned>>
  BY <1>2
<1>3. ASSUME NEW f \in Parties, Returns(f) PROVE Owner'
  <2>1. body' = [body EXCEPT ![f] = "finished"] /\ UNCHANGED abandoned
    BY <1>3, Returned DEF Finish
  <2>2. table' = [table EXCEPT ![KeyOf[f]] = IF @ = f THEN None ELSE @]
    BY <1>3, Returned DEF Finish
  <2>3. QED
    BY <2>1, <2>2
<1>4. ASSUME NEW f \in Parties, OriginKnown(f) PROVE Owner'
  BY <1>4 DEF OriginKnown
<1>5. ASSUME NEW p \in Parties, Register(p) PROVE Owner'
  <2>1. body[p] = "none" /\ ~abandoned[p]
    BY <1>5 DEF IInv, Places, Told, Register
  <2>2. QED
    BY <1>5, <2>1 DEF Register
<1>6. ASSUME NEW p \in Parties, Launch(p) PROVE Owner'
  <2>1. body[p] = "registered"
    BY <1>6 DEF IInv, Places, Launch
  <2>2. QED
    BY <1>6, <2>1 DEF Launch
<1>7. ASSUME NEW p \in Parties, LeaveLast(p) PROVE Owner'
  <2> DEFINE f == on[p]
  <2>1. /\ f \in Parties /\ UNCHANGED body
        /\ abandoned' = [abandoned EXCEPT ![f] = TRUE]
        /\ table' = [table EXCEPT ![KeyOf[f]] = IF @ = f THEN None ELSE @]
    BY <1>7 DEF LeaveLast
  <2>2. QED
    BY <2>1
<1>8. QED
  BY Steps, <1>2, <1>3, <1>4, <1>5, <1>6, <1>7
  DEF Returns, CallerGivesUp, EntryGoes, DeadlinePasses, HitCache, RefuseEnded, MissCache,
      Join, Wake, Leave, vars

LEMMA PlacesStep == IInv /\ [Next]_vars => Places'
<1> SUFFICES ASSUME IInv, [Next]_vars PROVE Places'
  OBVIOUS
<1>1. TypeOK /\ Places
  BY DEF IInv
<1> USE <1>1, Sorts DEF TypeOK, Places, InFlight
<1>2. CASE UNCHANGED <<at, on, body, abandoned>>
  BY <1>2
<1>3. ASSUME NEW f \in Parties, QueryEndsFlight(f) \/ NameReturned(f) PROVE Places'
  <2>1. body' = [body EXCEPT ![f] = "finished"] /\ body[f] \in {"query", "name"}
        /\ UNCHANGED <<at, on, abandoned>>
    BY <1>3 DEF QueryEndsFlight, NameReturned, Finish
  <2>2. QED
    BY <2>1
<1>4. ASSUME NEW p \in Parties, RecheckHit(p) PROVE Places'
  <2>1. /\ body' = [body EXCEPT ![p] = "finished"] /\ at[p] = "recheck"
        /\ at' = [at EXCEPT ![p] = "done"] /\ UNCHANGED <<on, abandoned>>
    BY <1>4 DEF RecheckHit, Return, Finish
  <2>2. QED
    BY <2>1
<1>5. ASSUME NEW f \in Parties, OriginKnown(f) PROVE Places'
  <2> DEFINE n == NameFor(f[2])
  <2>1. f \in Callers /\ n \in Namers /\ n # f /\ f = Call(f[2]) /\ f[2] \in Calls
    BY <1>5 DEF OriginKnown
  <2>2. at[n] = "none" /\ body[n] = "none" /\ body[f] = "query"
    <3>1. body[f] = "query"
      BY <1>5 DEF OriginKnown
    <3> QED BY <2>1, <3>1
  <2>3. /\ body' = [body EXCEPT ![f] = "name"] /\ at' = [at EXCEPT ![n] = "new"]
        /\ UNCHANGED <<on, abandoned>>
    BY <1>5 DEF OriginKnown
  <2>4. \A c \in Calls : at'[NameFor(c)] # "none" => body'[Call(c)] \in {"name", "finished"}
    BY <2>1, <2>2, <2>3
  <2>5. \A g \in Namers : body'[g] # "name"
    BY <2>1, <2>3
  <2>6. QED
    BY <2>1, <2>2, <2>3, <2>4, <2>5
<1>6. ASSUME NEW p \in Parties, at[p] \in {"new", "waiting"}, at' = [at EXCEPT ![p] = "done"],
             UNCHANGED <<on, body, abandoned>>
      PROVE  Places'
  BY <1>6
<1>7. ASSUME NEW p \in Parties, MissCache(p) PROVE Places'
  BY <1>7 DEF MissCache
<1>8. ASSUME NEW p \in Parties, Join(p) PROVE Places'
  <2>1. InFlight(table[KeyOf[p]]) /\ ~abandoned[table[KeyOf[p]]] /\ table[KeyOf[p]] \in Parties
    BY <1>8, Keyed DEF IInv, Owner, Join
  <2>2. QED
    BY <1>8, <2>1 DEF Join
<1>9. ASSUME NEW p \in Parties, Register(p) PROVE Places'
  <2>1. body[p] = "none" /\ ~abandoned[p] /\ at[p] = "enter"
    BY <1>9 DEF IInv, Told, Register
  <2>2. /\ body' = [body EXCEPT ![p] = "registered"] /\ at' = [at EXCEPT ![p] = "recheck"]
        /\ on' = [on EXCEPT ![p] = p] /\ UNCHANGED abandoned
    BY <1>9 DEF Register
  <2>3. \A q \in Parties : at[q] = "waiting" => on[q] # p
    BY <2>1
  <2>4. QED
    BY <2>1, <2>2, <2>3
<1>10. ASSUME NEW p \in Parties, Launch(p) PROVE Places'
  <2>1. at[p] = "recheck" /\ on[p] = p /\ body[p] = "registered"
    BY <1>10 DEF Launch
  <2>2. ~abandoned[p]
    <3>1. p \in Waiting(p)
      BY <2>1 DEF Waiting
    <3>2. QED
      BY <3>1 DEF IInv, Told
  <2>3. /\ body' = [body EXCEPT ![p] = "query"] /\ at' = [at EXCEPT ![p] = "waiting"]
        /\ UNCHANGED <<on, abandoned>>
    BY <1>10 DEF Launch
  <2>4. QED
    BY <2>1, <2>2, <2>3
<1>11. ASSUME NEW p \in Parties, LeaveLast(p) PROVE Places'
  <2> DEFINE f == on[p]
  <2>1. f \in Parties /\ at[p] = "waiting" /\ InFlight(f) /\ waiters[f] <= 1
    BY <1>11 DEF LeaveLast
  <2>2. Waiting(f) = {p}
    BY <2>1, WaiterCounts
  <2>3. \A q \in Parties \ {p} : at[q] = "waiting" => on[q] # f
    BY <2>2 DEF Waiting
  <2>4. /\ abandoned' = [abandoned EXCEPT ![f] = TRUE] /\ at' = [at EXCEPT ![p] = "done"]
        /\ UNCHANGED <<on, body>>
    BY <1>11 DEF LeaveLast, Return
  <2>5. QED
    BY <2>1, <2>3, <2>4
<1>12. QED
  BY Steps, <1>2, <1>3, <1>4, <1>5, <1>6, <1>7, <1>8, <1>9, <1>10, <1>11
  DEF CallerGivesUp, EntryGoes, DeadlinePasses, HitCache, RefuseEnded, Wake, Leave, Return, vars

-----------------------------------------------------------------------------
(***************************************************************************)
(* The counters.                                                           *)
(***************************************************************************)
LEMMA WaitingFinite ==
    \A f : IsFiniteSet(Waiting(f)) /\ Cardinality(Waiting(f)) \in Nat
<1> TAKE f
<1>1. Waiting(f) \subseteq Parties
  BY DEF Waiting
<1>2. QED
  BY <1>1, FewParties, FS_Subset, FS_CardinalityType

\* A waiter that returns is one less for the flight it waited for.
LEMMA OneLess ==
    ASSUME TypeOK, NEW p \in Parties, at[p] \in {"recheck", "waiting"},
           at' = [at EXCEPT ![p] = "done"], UNCHANGED on
    PROVE  /\ Waiting(on[p])' = Waiting(on[p]) \ {p}
           /\ Cardinality(Waiting(on[p])') = Cardinality(Waiting(on[p])) - 1
           /\ \A g \in Parties : g # on[p] => Waiting(g)' = Waiting(g)
<1>1. p \in Waiting(on[p])
  BY DEF Waiting
<1>2. Waiting(on[p])' = Waiting(on[p]) \ {p}
  BY DEF Waiting, TypeOK
<1>3. \A g \in Parties : g # on[p] => Waiting(g)' = Waiting(g)
  BY DEF Waiting, TypeOK
<1>4. QED
  BY <1>1, <1>2, <1>3, WaitingFinite, FS_RemoveElement

\* What a step that touches the waiters of one flight has to show.
LEMMA OneFlight ==
    ASSUME Counted, NEW f \in Parties,
           \A g \in Parties : g # f =>
              /\ Waiting(g)' = Waiting(g) /\ waiters'[g] = waiters[g]
              /\ abandoned'[g] = abandoned[g] /\ body'[g] = body[g],
           Cardinality(Waiting(f)') <= waiters'[f],
           InFlight(f)' => Cardinality(Waiting(f)') = waiters'[f],
           InFlight(f)' /\ ~abandoned'[f] => Waiting(f)' # {}
    PROVE  Counted'
<1>1. ASSUME NEW g \in Parties, g # f
      PROVE  /\ Cardinality(Waiting(g)') <= waiters'[g]
             /\ InFlight(g)' => Cardinality(Waiting(g)') = waiters'[g]
             /\ InFlight(g)' /\ ~abandoned'[g] => Waiting(g)' # {}
  <2>1. /\ Waiting(g)' = Waiting(g) /\ waiters'[g] = waiters[g]
        /\ abandoned'[g] = abandoned[g] /\ InFlight(g)' = InFlight(g)
    BY <1>1 DEF InFlight
  <2>2. QED
    BY <2>1 DEF Counted
<1>2. ASSUME NEW g \in Parties
      PROVE  /\ Cardinality(Waiting(g)') <= waiters'[g]
             /\ InFlight(g)' => Cardinality(Waiting(g)') = waiters'[g]
             /\ InFlight(g)' /\ ~abandoned'[g] => Waiting(g)' # {}
  BY <1>1
<1>3. QED
  BY <1>2 DEF Counted

LEMMA CountedStep == IInv /\ [Next]_vars => Counted'
<1> SUFFICES ASSUME IInv, [Next]_vars PROVE Counted'
  OBVIOUS
<1>1. TypeOK /\ Counted
  BY DEF IInv
<1> USE <1>1, Sorts DEF TypeOK, InFlight
<1> DEFINE Same == \A f \in Parties : Waiting(f)' = Waiting(f)
<1>2. ASSUME Same, UNCHANGED <<waiters, abandoned>>,
             \A f \in Parties : InFlight(f)' => InFlight(f)
      PROVE  Counted'
  BY <1>2, WaitingFinite DEF Counted
<1>3. ASSUME UNCHANGED <<at, on, body, waiters, abandoned>> PROVE Counted'
  BY <1>2, <1>3 DEF Waiting
<1>4. ASSUME NEW f \in Parties, QueryEndsFlight(f) \/ NameReturned(f) PROVE Counted'
  <2>1. body' = [body EXCEPT ![f] = "finished"] /\ UNCHANGED <<at, on, waiters, abandoned>>
    BY <1>4 DEF QueryEndsFlight, NameReturned, Finish
  <2>2. Same
    BY <2>1 DEF Waiting
  <2>3. QED
    BY <1>2, <2>1, <2>2
<1>5. ASSUME NEW f \in Parties, OriginKnown(f) PROVE Counted'
  <2>1. at[NameFor(f[2])] = "none" /\ NameFor(f[2]) \in Parties
    BY <1>5 DEF OriginKnown, IInv, Places
  <2>2. Same
    BY <1>5, <2>1 DEF OriginKnown, Waiting
  <2>3. QED
    BY <1>2, <1>5, <2>2 DEF OriginKnown
<1>6. ASSUME NEW p \in Parties, NEW s \in {"done", "enter"}, at[p] = "new",
             at' = [at EXCEPT ![p] = s], UNCHANGED <<on, body, waiters, abandoned>>
      PROVE  Counted'
  <2>1. Same
    BY <1>6 DEF Waiting
  <2>2. QED
    BY <1>2, <1>6, <2>1
<1>7. ASSUME NEW p \in Parties, Join(p) PROVE Counted'
  <2>1. PICK f \in Parties : f = table[KeyOf[p]] /\ InFlight(f)
    BY <1>7, Keyed DEF IInv, Owner, Join
  <2>2. p \notin Waiting(f) /\ Waiting(f)' = Waiting(f) \cup {p}
    BY <1>7, <2>1 DEF Join, Waiting
  <2>3. Cardinality(Waiting(f)') = Cardinality(Waiting(f)) + 1
    BY <2>2, WaitingFinite, FS_AddElement
  <2>4. \A g \in Parties : g # f => Waiting(g)' = Waiting(g)
    <3>1. /\ at[p] = "enter"
          /\ at' = [at EXCEPT ![p] = "waiting"]
          /\ on' = [on EXCEPT ![p] = f]
      BY <1>7, <2>1 DEF Join
    <3>2. \A q \in Parties : q # p => at'[q] = at[q] /\ on'[q] = on[q]
      BY <3>1 DEF TypeOK
    <3>3. on'[p] = f
      BY <3>1 DEF TypeOK
    <3> QED BY <3>1, <3>2, <3>3 DEF Waiting
  <2>5. waiters' = [waiters EXCEPT ![f] = @ + 1] /\ UNCHANGED <<body, abandoned>>
    BY <1>7, <2>1 DEF Join
  <2>6. Cardinality(Waiting(f)) = waiters[f]
    BY <2>1 DEF Counted
  <2>7. Cardinality(Waiting(f)') = waiters'[f] /\ Cardinality(Waiting(f)') <= waiters'[f]
    BY <2>1, <2>3, <2>5, <2>6
  <2>8. Waiting(f)' # {}
    BY <2>2
  <2>9. QED
    BY <2>1, <2>4, <2>5, <2>7, <2>8, OneFlight
<1>8. ASSUME NEW p \in Parties, Register(p) PROVE Counted'
  <2>1. at[p] = "enter" /\ body[p] = "none"
    BY <1>8 DEF Register, IInv, Places
  <2>2. \A q \in Parties : at[q] \in {"recheck", "waiting"} => on[q] # p
    BY <2>1 DEF IInv, Places
  <2>3. Waiting(p)' = {p}
    BY <1>8, <2>2 DEF Register, Waiting
  <2>4. Cardinality(Waiting(p)') = 1
    BY <2>3, FS_Singleton
  <2>5. \A g \in Parties : g # p => Waiting(g)' = Waiting(g)
    BY <1>8, <2>1 DEF Register, Waiting
  <2>6. /\ body' = [body EXCEPT ![p] = "registered"]
        /\ waiters' = [waiters EXCEPT ![p] = 1] /\ UNCHANGED abandoned
    BY <1>8 DEF Register
  <2>7. waiters'[p] = 1 /\ Waiting(p)' # {}
    BY <2>3, <2>6 DEF IInv, TypeOK
  <2>8. \A g \in Parties : g # p =>
           /\ Waiting(g)' = Waiting(g) /\ waiters'[g] = waiters[g]
           /\ abandoned'[g] = abandoned[g] /\ body'[g] = body[g]
    BY <2>5, <2>6 DEF IInv, TypeOK
  <2>9. Cardinality(Waiting(p)') <= waiters'[p] /\ Cardinality(Waiting(p)') = waiters'[p]
    BY <2>4, <2>7
  <2>10. QED
    BY <2>7, <2>8, <2>9, OneFlight
<1>9. ASSUME NEW p \in Parties, Launch(p) PROVE Counted'
  <2>1. Same
    BY <1>9 DEF Launch, Waiting
  <2>2. body[p] = "registered"
    BY <1>9 DEF Launch, IInv, Places
  <2>3. QED
    BY <1>2, <1>9, <2>1, <2>2 DEF Launch
<1>10. ASSUME NEW p \in Parties, Wake(p) \/ RecheckHit(p) PROVE Counted'
  <2> DEFINE f == on[p]
  <2>1. /\ at[p] \in {"recheck", "waiting"} /\ at' = [at EXCEPT ![p] = "done"]
        /\ UNCHANGED <<on, waiters, abandoned>>
    BY <1>10 DEF Wake, RecheckHit, Return, Finish
  <2>2. /\ ~InFlight(f)' /\ \A g \in Parties : InFlight(g)' => InFlight(g)
    <3>1. CASE Wake(p)
      BY <3>1 DEF Wake
    <3>2. CASE RecheckHit(p)
      <4>1. f = p
        BY <3>2 DEF RecheckHit, IInv, Places
      <4>2. QED
        BY <3>2, <4>1 DEF RecheckHit, Finish
    <3>3. QED
      BY <1>10, <3>1, <3>2
  <2>3. /\ Cardinality(Waiting(f)') = Cardinality(Waiting(f)) - 1
        /\ \A g \in Parties : g # f => Waiting(g)' = Waiting(g)
    BY <2>1, OneLess
  <2>4. QED
    BY <2>1, <2>2, <2>3, WaitingFinite DEF Counted
<1>11. ASSUME NEW p \in Parties, Leave(p) \/ LeaveLast(p) PROVE Counted'
  <2> DEFINE f == on[p]
  <2>1. /\ f \in Parties /\ at[p] = "waiting" /\ at' = [at EXCEPT ![p] = "done"]
        /\ waiters' = [waiters EXCEPT ![f] = @ - 1] /\ UNCHANGED <<on, body>>
    BY <1>11 DEF Leave, LeaveLast, Return
  <2>2. /\ Cardinality(Waiting(f)') = Cardinality(Waiting(f)) - 1
        /\ \A g \in Parties : g # f => Waiting(g)' = Waiting(g)
    BY <2>1, OneLess
  <2>3. \A g \in Parties : g # f => abandoned'[g] = abandoned[g]
    BY <1>11, <2>1 DEF Leave, LeaveLast
  <2>4. /\ Cardinality(Waiting(f)') <= waiters'[f]
        /\ InFlight(f)' => Cardinality(Waiting(f)') = waiters'[f]
    <3>1. waiters[f] \in Nat /\ waiters'[f] = waiters[f] - 1 /\ InFlight(f)' = InFlight(f)
      BY <2>1
    <3>2. /\ Cardinality(Waiting(f)) <= waiters[f]
          /\ InFlight(f) => Cardinality(Waiting(f)) = waiters[f]
      BY <2>1 DEF Counted
    <3>3. QED
      BY <2>2, <3>1, <3>2, WaitingFinite
  <2>5. InFlight(f)' /\ ~abandoned'[f] => Waiting(f)' # {}
    <3>1. SUFFICES ASSUME InFlight(f), ~abandoned'[f] PROVE Cardinality(Waiting(f)') # 0
      BY <2>1, FS_EmptySet
    <3>2. waiters[f] > 1
      BY <1>11, <2>1, <3>1 DEF Leave, LeaveLast
    <3>3. Cardinality(Waiting(f)) = waiters[f]
      BY <2>1, <3>1 DEF Counted
    <3>4. QED
      BY <2>1, <2>2, <3>2, <3>3
  <2>6. \A g \in Parties : g # f => waiters'[g] = waiters[g] /\ body'[g] = body[g]
    BY <2>1
  <2>7. QED
    BY <2>1, <2>2, <2>3, <2>4, <2>5, <2>6, OneFlight
<1>12. QED
  <2>1. ASSUME NEW p \in Parties, HitCache(p) \/ RefuseEnded(p) \/ MissCache(p) PROVE Counted'
    BY <2>1, <1>6 DEF HitCache, RefuseEnded, MissCache, Return
  <2>2. QED
    BY Steps, <2>1, <1>3, <1>4, <1>5, <1>7, <1>8, <1>9, <1>10, <1>11
    DEF CallerGivesUp, EntryGoes, DeadlinePasses, vars

-----------------------------------------------------------------------------
(***************************************************************************)
(* Who has been told to stop.                                              *)
(***************************************************************************)
LEMMA ToldStep == IInv /\ [Next]_vars => Told'
<1> SUFFICES ASSUME IInv, [Next]_vars PROVE Told'
  OBVIOUS
<1>1. TypeOK /\ Told
  BY DEF IInv
<1> USE <1>1, Sorts DEF TypeOK, InFlight
\* Most steps abandon no flight, and let nobody wait for an abandoned one.
<1>2. ASSUME UNCHANGED abandoned,
             \A f \in Parties : abandoned[f] => Waiting(f)' \subseteq Waiting(f),
             \A f \in Parties :
                \/ body'[f] = body[f] /\ ctx'[f] = ctx[f]
                \/ InFlight(f) /\ body'[f] # "none" /\ ctx'[f] = ctx[f]
                \/ InFlight(f) /\ body'[f] # "none" /\ ctx'[f] = "expired"
                \/ body'[f] = "finished" /\ ctx'[f] # "live"
                \/ body[f] = "none" /\ ctx'[f] = ctx[f] /\ body'[f] = "registered"
      PROVE  Told'
  <2>1. ASSUME NEW f \in Parties
        PROVE  /\ InFlight(f)' => (ctx'[f] = "canceled" => abandoned'[f])
               /\ body'[f] = "none" => ctx'[f] = "live"
    BY <1>2 DEF Told
  <2>2. ASSUME NEW f \in Parties, abandoned'[f]
        PROVE  body'[f] # "none" /\ ctx'[f] # "live" /\ Waiting(f)' = {}
    BY <1>2, <2>2 DEF Told
  <2>3. QED
    BY <2>1, <2>2 DEF Told
<1>3. ASSUME UNCHANGED <<at, on, body, ctx, abandoned>> PROVE Told'
  BY <1>2, <1>3 DEF Waiting
<1>4. ASSUME NEW f \in Parties, DeadlinePasses(f) PROVE Told'
  BY <1>2, <1>4 DEF DeadlinePasses, Waiting
<1>5. ASSUME NEW f \in Parties, QueryEndsFlight(f) \/ NameReturned(f) PROVE Told'
  <2>1. /\ body' = [body EXCEPT ![f] = "finished"] /\ ctx' = Cancelled(f)
        /\ UNCHANGED <<at, on, abandoned>>
    BY <1>5 DEF QueryEndsFlight, NameReturned, Finish
  <2>2. QED
    BY <1>2, <2>1 DEF Waiting, Cancelled
<1>6. ASSUME NEW f \in Parties, OriginKnown(f) PROVE Told'
  <2>1. \A g \in Parties : Waiting(g)' \subseteq Waiting(g)
    BY <1>6 DEF OriginKnown, Waiting
  <2>2. QED
    BY <1>2, <1>6, <2>1 DEF OriginKnown
<1>7. ASSUME NEW p \in Parties, NEW s \in {"done", "enter"},
             at' = [at EXCEPT ![p] = s], UNCHANGED <<on, body, ctx, abandoned>>
      PROVE  Told'
  <2>1. \A g \in Parties : Waiting(g)' \subseteq Waiting(g)
    BY <1>7 DEF Waiting
  <2>2. QED
    BY <1>2, <1>7, <2>1
<1>8. ASSUME NEW p \in Parties, Join(p) PROVE Told'
  <2> DEFINE f == table[KeyOf[p]]
  <2>1. f \in Parties /\ ~abandoned[f]
    BY <1>8, Keyed DEF IInv, Owner, Join
  <2>2. \A g \in Parties : g # f => Waiting(g)' \subseteq Waiting(g)
    BY <1>8 DEF Join, Waiting
  <2>3. UNCHANGED <<body, ctx, abandoned>>
    BY <1>8 DEF Join
  <2>4. QED
    BY <1>2, <2>1, <2>2, <2>3
<1>9. ASSUME NEW p \in Parties, Register(p) PROVE Told'
  <2>1. body[p] = "none" /\ ~abandoned[p]
    BY <1>9 DEF Register, IInv, Places, Told
  <2>2. \A g \in Parties : g # p => Waiting(g)' \subseteq Waiting(g)
    BY <1>9 DEF Register, Waiting
  <2>3. QED
    BY <1>2, <1>9, <2>1, <2>2 DEF Register
<1>10. ASSUME NEW p \in Parties, RecheckHit(p) PROVE Told'
  <2>1. /\ body' = [body EXCEPT ![p] = "finished"] /\ ctx' = Cancelled(p)
        /\ at' = [at EXCEPT ![p] = "done"] /\ UNCHANGED <<on, abandoned>>
    BY <1>10 DEF RecheckHit, Return, Finish
  <2>2. \A g \in Parties : Waiting(g)' \subseteq Waiting(g)
    BY <2>1 DEF Waiting
  <2>3. QED
    BY <1>2, <2>1, <2>2 DEF Cancelled
<1>11. ASSUME NEW p \in Parties, Launch(p) PROVE Told'
  <2>1. body[p] = "registered" /\ at[p] = "recheck"
    BY <1>11 DEF Launch, IInv, Places
  <2>2. \A g \in Parties : Waiting(g)' \subseteq Waiting(g)
    BY <1>11, <2>1 DEF Launch, Waiting
  <2>3. QED
    BY <1>2, <1>11, <2>1, <2>2 DEF Launch
<1>12. ASSUME NEW p \in Parties, LeaveLast(p) PROVE Told'
  <2> DEFINE f == on[p]
  <2>1. /\ f \in Parties /\ at[p] = "waiting" /\ at' = [at EXCEPT ![p] = "done"]
        /\ abandoned' = [abandoned EXCEPT ![f] = TRUE] /\ ctx' = Cancelled(f)
        /\ UNCHANGED <<on, body>>
    BY <1>12 DEF LeaveLast, Return
  <2>2. Waiting(f) = {p} /\ body[f] # "none"
    <3>1. body[f] # "none"
      BY <2>1 DEF IInv, Places
    <3>2. InFlight(f) /\ waiters[f] <= 1
      BY <1>12, <2>1, <3>1 DEF LeaveLast
    <3>3. QED
      BY <2>1, <3>1, <3>2, WaiterCounts
  <2>3. Waiting(f)' = {} /\ \A g \in Parties : g # f => Waiting(g)' = Waiting(g)
    BY <2>1, <2>2, OneLess
  <2>4. ctx'[f] # "live" /\ abandoned'[f]
    BY <2>1 DEF Cancelled
  <2>5. \A g \in Parties : g # f => ctx'[g] = ctx[g] /\ abandoned'[g] = abandoned[g]
    BY <2>1 DEF Cancelled
  <2>6. ASSUME NEW g \in Parties, g # f
        PROVE  /\ InFlight(g)' => (ctx'[g] = "canceled" => abandoned'[g])
               /\ abandoned'[g] => body'[g] # "none" /\ ctx'[g] # "live" /\ Waiting(g)' = {}
               /\ body'[g] = "none" => ctx'[g] = "live"
    BY <2>1, <2>3, <2>5, <2>6 DEF Told
  <2>7. QED
    BY <2>1, <2>2, <2>3, <2>4, <2>6 DEF Told
<1>13. QED
  BY Steps, <1>3, <1>4, <1>5, <1>6, <1>7, <1>8, <1>9, <1>10, <1>11, <1>12
  DEF CallerGivesUp, EntryGoes, HitCache, RefuseEnded, MissCache, Wake, Leave, Return, vars

-----------------------------------------------------------------------------
(***************************************************************************)
(* Who is told Canceled.                                                   *)
(***************************************************************************)
LEMMA CanceledStays ==
    IInv /\ [Next]_vars =>
        \A p \in Parties : ContextOf(p) = "canceled" => ContextOf(p)' = "canceled"
<1> SUFFICES ASSUME IInv, [Next]_vars
             PROVE  /\ \A c \in Calls : caller[c] = "canceled" => caller'[c] = "canceled"
                    /\ \A f \in Parties : ctx[f] = "canceled" => ctx'[f] = "canceled"
  BY Sorts DEF ContextOf
<1>1. TypeOK
  BY DEF IInv
<1> USE <1>1 DEF TypeOK
<1>2. CASE UNCHANGED <<caller, ctx>>
  BY <1>2
<1>3. ASSUME NEW c \in Calls, CallerGivesUp(c)
      PROVE  UNCHANGED ctx /\ \A d \in Calls : caller[d] = "canceled" => caller'[d] = "canceled"
  BY <1>3 DEF CallerGivesUp
<1>4. ASSUME NEW f \in Parties, ctx' = Cancelled(f) \/ DeadlinePasses(f)
      PROVE  \A g \in Parties : ctx[g] = "canceled" => ctx'[g] = "canceled"
  BY <1>4 DEF Cancelled, DeadlinePasses
<1>5. ASSUME NEW f \in Parties, Returns(f) PROVE ctx' = Cancelled(f) /\ UNCHANGED caller
  BY <1>5 DEF Returns, QueryEndsFlight, NameReturned, RecheckHit, Finish
<1>6. ASSUME NEW p \in Parties, LeaveLast(p) PROVE ctx' = Cancelled(on[p]) /\ UNCHANGED caller
  BY <1>6 DEF LeaveLast
<1>7. QED
  BY Steps, <1>2, <1>3, <1>4, <1>5, <1>6
  DEF Returns, EntryGoes, DeadlinePasses, OriginKnown, HitCache, RefuseEnded, MissCache, Join,
      Register, Launch, Wake, Leave, vars

LEMMA HandedStep == IInv /\ [Next]_vars => Handed'
<1> SUFFICES ASSUME IInv, [Next]_vars PROVE Handed'
  OBVIOUS
<1>1. TypeOK /\ Handed
  BY DEF IInv
<1>2. \A p \in Parties : ContextOf(p) = "canceled" => ContextOf(p)' = "canceled"
  BY CanceledStays
<1> USE <1>1, Sorts DEF TypeOK
\* Nobody waits for a flight that returns Canceled.
<1>3. ASSUME NEW f \in Parties, Returns(f)
      PROVE  /\ body' = [body EXCEPT ![f] = "finished"] /\ UNCHANGED on
             /\ \A p \in Parties : at[p] = "waiting" /\ on[p] = f => result'[f] # "canceled"
             /\ \A g \in Parties : g # f => result'[g] = result[g]
  <2>1. /\ InFlight(f) /\ body' = [body EXCEPT ![f] = "finished"]
        /\ result'[f] = "canceled" => ctx[f] = "canceled"
        /\ \A g \in Parties : g # f => result'[g] = result[g]
    BY <1>3, Returned DEF Finish
  <2>2. ctx[f] = "canceled" => Waiting(f) = {}
    BY <2>1 DEF IInv, Told
  <2>3. UNCHANGED on
    BY <1>3 DEF Returns, QueryEndsFlight, NameReturned, RecheckHit
  <2>4. QED
    BY <2>1, <2>2, <2>3 DEF Waiting
\* A party that returns, and the others.
<1>4. ASSUME NEW p \in Parties, NEW r, Return(p, r), r = "canceled" => ContextOf(p) = "canceled"
      PROVE  \A q \in Parties :
                at'[q] = "done" /\ out'[q] = "canceled" => ContextOf(q)' = "canceled"
  BY <1>2, <1>4 DEF Return, Handed
<1>5. ASSUME NEW p \in Parties, HitCache(p) \/ RefuseEnded(p) \/ Wake(p) \/ Leave(p) \/ LeaveLast(p)
      PROVE  Handed'
  <2>1. PICK r : Return(p, r) /\ (r = "canceled" => ContextOf(p) = "canceled")
    <3>1. CASE HitCache(p)
      BY <3>1, Keyed, FlightsAssumption DEF HitCache
    <3>2. CASE Wake(p)
      BY <3>2 DEF Wake, Handed
    <3>3. CASE RefuseEnded(p) \/ Leave(p) \/ LeaveLast(p)
      BY <3>3 DEF RefuseEnded, Leave, LeaveLast
    <3> QED BY <1>5, <3>1, <3>2, <3>3
  <2>2. at' = [at EXCEPT ![p] = "done"] /\ UNCHANGED <<on, body, result>>
    BY <1>5 DEF HitCache, RefuseEnded, Wake, Leave, LeaveLast, Return
  <2>3. \A q \in Parties :
           at'[q] = "done" /\ out'[q] = "canceled" => ContextOf(q)' = "canceled"
    BY <1>4, <2>1
  <2>4. \A q \in Parties :
           at'[q] = "waiting" /\ body'[on'[q]] = "finished" => result'[on'[q]] # "canceled"
    BY <2>2 DEF Handed
  <2>5. QED
    BY <2>3, <2>4 DEF Handed
<1>6. ASSUME NEW p \in Parties, RecheckHit(p) PROVE Handed'
  <2>1. Return(p, cache[KeyOf[p]]) /\ cache[KeyOf[p]] # "canceled"
    BY <1>6, Keyed, FlightsAssumption DEF RecheckHit
  <2>2. \A q \in Parties :
           at'[q] = "done" /\ out'[q] = "canceled" => ContextOf(q)' = "canceled"
    BY <1>4, <2>1
  <2>3. at' = [at EXCEPT ![p] = "done"]
    BY <2>1 DEF Return
  <2>4. \A q \in Parties :
           at'[q] = "waiting" /\ body'[on'[q]] = "finished" => result'[on'[q]] # "canceled"
    BY <1>3, <1>6, <2>3 DEF Returns, Handed
  <2>5. QED
    BY <2>2, <2>4 DEF Handed
<1>7. ASSUME NEW f \in Parties, QueryEndsFlight(f) \/ NameReturned(f) PROVE Handed'
  <2>1. UNCHANGED <<at, out>>
    BY <1>7 DEF QueryEndsFlight, NameReturned
  <2>2. \A q \in Parties :
           at'[q] = "waiting" /\ body'[on'[q]] = "finished" => result'[on'[q]] # "canceled"
    BY <1>3, <1>7, <2>1 DEF Returns, Handed
  <2>3. QED
    BY <1>2, <2>1, <2>2 DEF Handed
<1>8. ASSUME UNCHANGED <<at, on, out, body, result>> PROVE Handed'
  BY <1>2, <1>8 DEF Handed
<1>9. ASSUME NEW p \in Parties, Join(p) PROVE Handed'
  <2>1. table[KeyOf[p]] \in Parties /\ body[table[KeyOf[p]]] # "finished"
    BY <1>9, Keyed DEF IInv, Owner, Join, InFlight
  <2>2. QED
    BY <1>2, <1>9, <2>1 DEF Join, Handed
<1>10. ASSUME NEW p \in Parties, Launch(p) PROVE Handed'
  <2>1. on[p] = p
    BY <1>10 DEF IInv, Places, Launch
  <2>2. QED
    BY <1>2, <1>10, <2>1 DEF Launch, Handed
<1>11. ASSUME NEW p \in Parties, Register(p) \/ MissCache(p) \/ OriginKnown(p) PROVE Handed'
  BY <1>2, <1>11 DEF Register, MissCache, OriginKnown, Handed
<1>12. QED
  BY Steps, <1>5, <1>6, <1>7, <1>8, <1>9, <1>10, <1>11
  DEF CallerGivesUp, EntryGoes, DeadlinePasses, vars

-----------------------------------------------------------------------------
(***************************************************************************)
(* The invariant holds of every behaviour: whatever resolveCold,           *)
(* lookupName, the waiters and the goroutines of the flights do under the  *)
(* mutex of the resolver leaves the table, the counters, the contexts and  *)
(* the results consistent.                                                 *)
(***************************************************************************)
THEOREM Invariance == Spec => []IInv
<1>1. IInv /\ [Next]_vars => IInv'
  BY TypesStep, OwnerStep, PlacesStep, CountedStep, ToldStep, HandedStep DEF IInv
<1>2. QED
  BY InitIInv, <1>1, PTL DEF Spec

(***************************************************************************)
(* Every variable of the resolver keeps its type; in particular no count   *)
(* of waiters that dropIPWaiter or dropNameWaiter decrements goes below 0. *)
(***************************************************************************)
THEOREM TypeCorrect == Spec => []TypeOK
BY Invariance, PTL DEF IInv

(***************************************************************************)
(* resolveCold and lookupName look a key up at most once at a time, however *)
(* late a lookup that was abandoned returns.                               *)
(***************************************************************************)
THEOREM OneLookup == Spec => []OneLookupPerKey
<1>1. IInv => OneLookupPerKey
  BY DEF IInv, Owner, OneLookupPerKey
<1>2. QED
  BY <1>1, Invariance, PTL

(***************************************************************************)
(* waitIPFlight and waitNameFlight return Canceled to a party only when    *)
(* the context of that party was cancelled.                                *)
(***************************************************************************)
THEOREM OwnCancellation == Spec => []OwnCancellationOnly
<1>1. IInv => OwnCancellationOnly
  BY DEF IInv, Handed, OwnCancellationOnly
<1>2. QED
  BY <1>1, Invariance, PTL

(***************************************************************************)
(* dropIPWaiter and dropNameWaiter cancel a flight when its last waiter    *)
(* leaves: what still runs on, somebody waits for.                         *)
(***************************************************************************)
THEOREM Wanted == Spec => []NobodyRunsForNobody
<1>1. IInv => NobodyRunsForNobody
  <2> SUFFICES ASSUME IInv, NEW f \in Parties, InFlight(f), ctx[f] = "live"
               PROVE  Waiting(f) # {}
    BY DEF NobodyRunsForNobody, Waiting
  <2>1. ~abandoned[f]
    BY DEF IInv, Told
  <2>2. QED
    BY <2>1 DEF IInv, Counted
<1>2. QED
  BY <1>1, Invariance, PTL

(***************************************************************************)
(* finishIPFlight and finishNameFlight store an answer only for the flight *)
(* that the table names, and only the answer of that flight.               *)
(***************************************************************************)
THEOREM Committed == Spec => CommittedByOwner
<1> DEFINE Commit(k) ==
        cache'[k] \notin {cache[k], None} =>
            /\ table[k] # None /\ table'[k] = None
            /\ ~abandoned[table[k]]
            /\ result'[table[k]] = cache'[k]
<1>1. ASSUME IInv, [Next]_vars PROVE \A k \in Keys : Commit(k)
  <2>1. TypeOK
    BY <1>1 DEF IInv
  <2> USE <2>1, Keyed, FlightsAssumption DEF TypeOK
  <2>2. ASSUME NEW f \in Parties, Returns(f) PROVE \A k \in Keys : Commit(k)
    <3>1. PICK r \in {"ok", "fail", "canceled"}, e \in {"ok", "fail", None} :
             Finish(f, r, e) /\ (e # cache[KeyOf[f]] => e = r)
      BY <1>1, <2>2, Returned
    <3>2. /\ result'[f] = r /\ \A k \in Keys : k # KeyOf[f] => cache'[k] = cache[k]
          /\ table[KeyOf[f]] = f => table'[KeyOf[f]] = None
          /\ cache'[KeyOf[f]] # cache[KeyOf[f]] =>
                table[KeyOf[f]] = f /\ ~abandoned[f] /\ cache'[KeyOf[f]] = e
      BY <3>1 DEF Finish
    <3>3. QED
      BY <3>1, <3>2
  <2>3. ASSUME NEW k \in Keys, EntryGoes(k) PROVE \A l \in Keys : Commit(l)
    BY <2>3 DEF EntryGoes
  <2>4. CASE UNCHANGED cache
    BY <2>4
  <2>5. QED
    BY <1>1, Steps, <2>2, <2>3, <2>4
    DEF Returns, CallerGivesUp, DeadlinePasses, OriginKnown, HitCache, RefuseEnded, MissCache,
        Join, Register, Launch, Wake, Leave, LeaveLast, vars
<1>2. ASSUME IInv PROVE [Next]_vars => [\A k \in Keys : Commit(k)]_vars
  BY <1>1, <1>2
<1>3. QED
  BY <1>2, Invariance, PTL DEF Spec, CommittedByOwner

-----------------------------------------------------------------------------
(***************************************************************************)
(* Downloaded tables.                                                      *)
(***************************************************************************)
\* A load yields a size, whatever the mirrors answer.
Loaded == [size : Nat, failed : Nat]

\* LoadAll, LoadRegistry and cidrset.Load return a count of ranges and a
\* count of failed sources.
LEMMA LoadTypes ==
    ASSUME NEW answers PROVE Load(answers) \in Loaded
<1> DEFINE parsed == {m \in Mirrors : Parsed(answers[m])}
           whole  == {m \in parsed : answers[m] = "whole"}
<1>1. /\ IsFiniteSet(whole) /\ IsFiniteSet(parsed \ whole)
      /\ IsFiniteSet(Mirrors \ parsed)
  BY Parameters, FS_Subset
<1>2. /\ Cardinality(whole) \in Nat /\ Cardinality(parsed \ whole) \in Nat
      /\ Cardinality(Mirrors \ parsed) \in Nat
  BY <1>1, FS_CardinalityType
<1> HIDE DEF parsed, whole
<1>3. WholeSize * Cardinality(whole) + Cardinality(parsed \ whole) \in Nat
  BY <1>2 DEF WholeSize
<1> QED BY <1>2, <1>3 DEF Load, Loaded, parsed, whole

LEMMA LoadDBIPTypes ==
    ASSUME NEW c \in SourceAnswers, NEW p \in SourceAnswers
    PROVE  LoadDBIP(c, p) \in Loaded
<1> DEFINE answer == IF c = "notFound" THEN p ELSE c
<1>1. answer \in SourceAnswers
  OBVIOUS
<1> HIDE DEF answer
<1>2. Parsed(answer) => answer \in {"whole", "short"}
  BY <1>1 DEF SourceAnswers, Parsed, Fetched, Decoded, WithinLimit
<1>3. \A parsed \in BOOLEAN : (parsed => answer \in {"whole", "short"}) =>
        (CASE ~parsed -> 0 [] answer = "whole" -> WholeSize
           [] answer = "short" -> 1) \in Nat
  BY DEF WholeSize
<1> QED BY <1>2, <1>3 DEF LoadDBIP, Loaded, answer, Parsed

LEMMA LoadsTypes == Loads \subseteq Loaded
<1>1. Full(kind) \in Nat
  BY Parameters, FS_CardinalityType DEF Full, WholeSize
<1>2. DBIPLoads \subseteq Loaded /\ MirrorLoads \subseteq Loaded
  BY LoadTypes, LoadDBIPTypes DEF DBIPLoads, MirrorLoads
<1> QED BY <1>1, <1>2 DEF Loads, Loaded

\* The delay before a retry is positive and at most the interval.
LEMMA RetryDelayType ==
    ASSUME NEW f PROVE RetryDelay(f) \in 1..Interval
  BY Parameters DEF RetryDelay

LEMMA RearmedType ==
    ASSUME NEW t \in Tables
    PROVE  /\ Rearmed(t) \in Tables
           /\ Rearmed(t).src = t.src /\ Rearmed(t).size = t.size
           /\ Rearmed(t).retry # Never
<1> DEFINE delay == RetryDelay(t.failures)
           count == Smaller(t.failures + 1, MaxShift + 1)
<1>1. delay \in 1..Interval
  BY RetryDelayType
<1>2. count \in 0..(MaxShift + 1)
  BY Parameters DEF Tables, Smaller
<1>3. Rearmed(t) = [t EXCEPT !.retry = delay, !.failures = count]
  BY DEF Rearmed
<1> HIDE DEF delay, count
<1>4. delay \in (0..Interval) \cup {Never} /\ delay # Never
  BY <1>1, Parameters
<1> QED BY <1>2, <1>3, <1>4 DEF Tables

LEMMA FreshType ==
    ASSUME NEW src \in SourceLists \cup {NoSources}, NEW load \in Loaded
    PROVE  /\ Fresh(src, load) \in Tables
           /\ Fresh(src, load).src = src /\ Fresh(src, load).size = load.size
  BY Parameters DEF Fresh, Tables, Loaded

LEMMA UnloadedType ==
    ASSUME NEW src \in SourceLists \cup {NoSources}
    PROVE  /\ Unloaded(src) \in Tables
           /\ Unloaded(src).src = src /\ Unloaded(src).size = 0
           /\ Unloaded(src).retry # Never
<1>1. /\ [Absent EXCEPT !.src = src] \in Tables
      /\ [Absent EXCEPT !.src = src].src = src
      /\ [Absent EXCEPT !.src = src].size = 0
  BY Parameters DEF Absent, Tables
<1> QED BY <1>1, RearmedType DEF Unloaded

LEMMA AbsentType == Absent \in Tables
  BY Parameters DEF Absent, Tables

-----------------------------------------------------------------------------
(***************************************************************************)
(* What is true of a table under a configuration: it is typed, it comes    *)
(* from the listed sources, and if it is empty a retry is on its way.      *)
(***************************************************************************)
Sound(cfg, t) ==
    /\ t \in Tables
    /\ t.src = cfg.src
    /\ (cfg.src # NoSources /\ t.size = 0) =>
          kind # "cidr" /\ Refreshes(cfg) /\ t.retry # Never

\* A carried table may meet a frozen configuration; it is judged when the
\* build ends.
SoundCarry(cfg, t) ==
    /\ t \in Tables
    /\ t.src = cfg.src
    /\ (cfg.src # NoSources /\ t.size = 0) =>
          kind # "cidr" /\ t.retry # Never

GeoInv ==
    /\ GeoOK
    /\ Sound(proc.cfg, proc.table)
    /\ (build # Nothing /\ build.carried # Nothing) =>
          SoundCarry(build.cfg, build.carried)

\* The databases and the allow-list always have a positive interval.
LEMMA OnlyGeofeedFreezes ==
    ASSUME kind \in Kinds, NEW cfg \in Configs(kind),
           cfg.src # NoSources, kind # "geofeed" \/ cfg.every # 0
    PROVE  Refreshes(cfg)
  BY Parameters DEF Configs, Effective, Refreshes

\* Whatever NewProcessor returns, other than a failure, is sound.
LEMMA NewProcessorSound ==
    ASSUME kind \in Kinds, NEW cfg \in Configs(kind), NEW carried,
           carried # Nothing => SoundCarry(cfg, carried),
           NEW load \in Loaded,
           NewProcessor(kind, cfg, carried, load) # Nothing
    PROVE  Sound(cfg, NewProcessor(kind, cfg, carried, load))
<1> DEFINE t == NewProcessor(kind, cfg, carried, load)
<1>0. cfg.src \in SourceLists \cup {NoSources}
  BY DEF Configs
<1>1. CASE cfg.src = NoSources /\ kind # "geofeed"
  BY <1>1, AbsentType DEF NewProcessor, Sound, Absent
<1>2. CASE carried # Nothing /\ (cfg.src # NoSources \/ kind = "geofeed")
  <2>1. t = carried
    BY <1>2, Parameters DEF NewProcessor, InitialGeofeed, NewGeoDB, NewCIDRStore
  <2>2. carried.size = 0 /\ cfg.src # NoSources => Refreshes(cfg)
    BY <1>2, OnlyGeofeedFreezes, Parameters
       DEF NewProcessor, InitialGeofeed
  <2> QED BY <1>2, <2>1, <2>2 DEF Sound, SoundCarry
<1>3. CASE carried = Nothing /\ cfg.src = NoSources /\ kind = "geofeed"
  <2>1. t = Fresh(NoSources, [size |-> 0, failed |-> 0])
    BY <1>3 DEF NewProcessor, InitialGeofeed
  <2> QED BY <1>3, <2>1, FreshType DEF Sound, Loaded
<1>4. CASE carried = Nothing /\ cfg.src # NoSources /\ ~Empty(load)
  <2>1. t = Partial(cfg, load)
    BY <1>4, Parameters DEF NewProcessor, InitialGeofeed, NewGeoDB, NewCIDRStore
  <2>2. t \in Tables /\ t.src = cfg.src /\ t.size = load.size
    BY <1>0, <2>1, FreshType, RearmedType DEF Partial
  <2> QED BY <1>4, <2>2 DEF Sound, Empty
<1>5. CASE carried = Nothing /\ cfg.src # NoSources /\ Empty(load)
  <2>1. /\ t = Unloaded(cfg.src) /\ kind # "cidr"
        /\ kind # "geofeed" \/ cfg.every # 0
    BY <1>5, Parameters DEF NewProcessor, InitialGeofeed, NewGeoDB, NewCIDRStore
  <2>2. Refreshes(cfg)
    BY <1>5, <2>1, OnlyGeofeedFreezes
  <2> QED BY <1>0, <2>1, <2>2, UnloadedType DEF Sound
<1> QED BY <1>1, <1>2, <1>3, <1>4, <1>5

\* An accepted load leaves something in force, and any other arms a retry.
LEMMA ReloadedSound ==
    ASSUME kind \in Kinds, NEW cfg \in Configs(kind), NEW t, Sound(cfg, t),
           NEW load \in Loaded
    PROVE  Sound(cfg, Reloaded(t, load))
<1> DEFINE kept == [t EXCEPT !.size = load.size, !.age = 0]
<1>0. t \in Tables /\ load.size \in Nat /\ 0 \in 0..Interval
  BY Parameters DEF Sound, Loaded
<1>1. kept \in Tables /\ kept.src = t.src /\ kept.size = load.size
  BY <1>0 DEF Tables
<1> HIDE DEF kept
<1>2. CASE Empty(load) \/ SwapRefused(t.size, load)
  BY <1>2, RearmedType DEF Reloaded, Sound
<1>3. CASE ~Empty(load) /\ ~SwapRefused(t.size, load) /\ load.failed > 0
  <2>1. Reloaded(t, load) = Rearmed(kept)
    BY <1>3 DEF Reloaded, kept
  <2> QED BY <1>1, <1>3, <2>1, RearmedType DEF Sound, Empty
<1>4. CASE ~Empty(load) /\ ~SwapRefused(t.size, load) /\ load.failed = 0
  <2>1. Reloaded(t, load) = Fresh(t.src, load)
    BY <1>4 DEF Reloaded
  <2>2. t.src \in SourceLists \cup {NoSources}
    BY DEF Sound, Tables
  <2> QED BY <1>4, <2>1, <2>2, FreshType DEF Sound, Empty
<1> QED BY <1>2, <1>3, <1>4 DEF Loaded

\* Time changes neither the source, nor the size, nor whether a retry is armed.
LEMMA OlderType ==
    ASSUME NEW t \in Tables
    PROVE  /\ Older(t) \in Tables
           /\ Older(t).src = t.src /\ Older(t).size = t.size
           /\ (Older(t).retry = Never) <=> (t.retry = Never)
<1> DEFINE age   == IF t.age = Never THEN t.age ELSE Smaller(t.age + 1, Interval)
           retry == IF t.retry \in {Never, 0} THEN t.retry ELSE t.retry - 1
<1>1. age \in (0..Interval) \cup {Never}
  BY Parameters DEF Tables, Smaller
<1>2. retry \in (0..Interval) \cup {Never} /\ (retry = Never <=> t.retry = Never)
  <2>1. CASE t.retry \in {Never, 0}
    BY <2>1 DEF Tables
  <2>2. CASE t.retry \notin {Never, 0}
    <3>1. t.retry \in 1..Interval /\ t.retry - 1 \in 0..Interval
      BY <2>2, Parameters DEF Tables
    <3> QED BY <2>2, <3>1, Parameters
  <2> QED BY <2>1, <2>2
<1>3. Older(t) = [t EXCEPT !.age = age, !.retry = retry]
  BY DEF Older
<1> HIDE DEF age, retry
<1> QED BY <1>1, <1>2, <1>3 DEF Tables

-----------------------------------------------------------------------------
LEMMA NoLooks == 0 \in 0..MaxLooks
  BY Parameters

LEMMA GeoInitInv == GeoInit => GeoInv
<1> SUFFICES ASSUME GeoInit PROVE GeoInv
  OBVIOUS
<1>1. kind \in Kinds
  BY DEF GeoInit
<1>2. PICK cfg \in Configs(kind), load \in Loads :
        /\ NewProcessor(kind, cfg, Nothing, load) # Nothing
        /\ proc = [cfg |-> cfg, table |-> NewProcessor(kind, cfg, Nothing, load)]
        /\ runCfg = cfg
  BY DEF GeoInit
<1>3. Sound(cfg, NewProcessor(kind, cfg, Nothing, load))
  BY <1>1, <1>2, LoadsTypes, NewProcessorSound
<1>4. Sound(proc.cfg, proc.table) /\ proc \in Processors
  BY <1>2, <1>3 DEF Sound, Processors
<1>5. /\ build = Nothing /\ looks = 0 /\ downloading = FALSE
      /\ trouble \in BOOLEAN
  BY DEF GeoInit
<1>6. looks \in 0..MaxLooks
  BY <1>5, NoLooks
<1>7. runCfg \in Configs(kind)
  BY <1>2
<1> QED BY <1>1, <1>4, <1>5, <1>6, <1>7 DEF GeoInv, GeoOK

\* A carried table came from the sources the next processor lists.
LEMMA CarriedSound ==
    ASSUME GeoInv, NEW cfg \in Configs(kind), Carried(cfg) # Nothing
    PROVE  SoundCarry(cfg, Carried(cfg))
<1>1. Carried(cfg) = proc.table /\ proc.cfg.src = cfg.src
  BY DEF Carried, Changed
<1> QED BY <1>1 DEF GeoInv, Sound, SoundCarry

LEMMA GeoNextInv == GeoInv /\ [GeoNext]_geoVars => GeoInv'
<1> SUFFICES ASSUME GeoInv, [GeoNext]_geoVars PROVE GeoInv'
  OBVIOUS
<1> USE DEF GeoInv, GeoOK
<1>0. proc.cfg \in Configs(kind) /\ proc.table \in Tables
  BY DEF Processors
<1>1. CASE CurrentEntries \/ MaybeRefreshDatabases
  BY <1>1, Parameters
     DEF CurrentEntries, MaybeRefreshDatabases, Look, Sound, SoundCarry,
         Processors, Builds, Refreshes
<1>2. CASE TryReload
  BY <1>2, Parameters
     DEF TryReload, Sound, SoundCarry, Processors, Builds, Refreshes
<1>3. CASE FinishReload
  <2>1. PICK load \in Loads : proc' = [proc EXCEPT !.table = Reloaded(@, load)]
    BY <1>3 DEF FinishReload
  <2>2. Sound(proc.cfg, Reloaded(proc.table, load))
    BY <1>0, LoadsTypes, ReloadedSound
  <2>3. /\ proc' \in Processors /\ proc'.cfg = proc.cfg
        /\ proc'.table = Reloaded(proc.table, load)
    BY <1>0, <2>1, <2>2 DEF Processors, Sound
  <2>4. UNCHANGED <<kind, runCfg, build, looks, trouble>> /\ downloading' = FALSE
    BY <1>3 DEF FinishReload
  <2> QED BY <2>2, <2>3, <2>4
          DEF Sound, SoundCarry, Processors, Builds, Refreshes
<1>4. CASE BeginBuild
  <2>1. PICK cfg \in Configs(kind) :
          build' = [cfg |-> cfg, carried |-> Carried(cfg)]
    BY <1>4 DEF BeginBuild
  <2>2. Carried(cfg) \in Tables \cup {Nothing}
    BY <1>0 DEF Carried
  <2>3. build'.cfg = cfg /\ build'.carried = Carried(cfg) /\ build' \in Builds
    BY <2>1, <2>2 DEF Builds
  <2>4. build'.carried # Nothing => SoundCarry(build'.cfg, build'.carried)
    BY <2>3, CarriedSound
  <2>5. UNCHANGED <<kind, proc, runCfg, looks, downloading, trouble>>
    BY <1>4 DEF BeginBuild
  <2> QED BY <2>3, <2>4, <2>5
          DEF Sound, SoundCarry, Processors, Builds, Refreshes
<1>5. CASE Publish
  <2> DEFINE built(load) ==
               NewProcessor(kind, build.cfg, build.carried, load)
  <2>1. PICK load \in Loads :
          built(load) # Nothing /\ proc' = [cfg |-> build.cfg, table |-> built(load)]
    BY <1>5 DEF Publish
  <2>2. build \in Builds /\ build.cfg \in Configs(kind)
    BY <1>5 DEF Publish, Builds
  <2>3. Sound(build.cfg, built(load))
    BY <1>5, <2>1, <2>2, LoadsTypes, NewProcessorSound DEF Publish
  <2> HIDE DEF built
  <2>4. /\ proc' \in Processors /\ proc'.cfg = build.cfg
        /\ proc'.table = built(load)
    BY <2>1, <2>2, <2>3 DEF Processors, Sound
  <2>5. /\ kind' = kind /\ trouble' = trouble /\ build' = Nothing
        /\ runCfg' \in {build.cfg, runCfg} /\ looks' = 0 /\ downloading' = FALSE
    BY <1>5 DEF Publish
  <2>6. Sound(proc.cfg, proc.table)'
    BY <2>3, <2>4, <2>5 DEF Sound
  <2>7. looks' \in 0..MaxLooks /\ runCfg' \in Configs(kind)
    BY <2>2, <2>5, NoLooks
  <2>8. GeoOK'
    BY <2>4, <2>5, <2>7 DEF Processors
  <2> QED BY <2>5, <2>6, <2>8
<1>6. CASE Abandon
  BY <1>6, Parameters
     DEF Abandon, Sound, SoundCarry, Processors, Builds, Refreshes
<1>7. CASE Tick
  <2>1. proc' = [proc EXCEPT !.table = Older(@)]
    BY <1>7 DEF Tick
  <2>2. proc' \in Processors /\ proc'.cfg = proc.cfg /\ proc'.table = Older(proc.table)
    BY <1>0, <2>1, OlderType DEF Processors
  <2>3. Sound(proc'.cfg, proc'.table)
    BY <1>0, <2>2, OlderType DEF Sound
  <2>4. /\ build' \in Builds \cup {Nothing}
        /\ build' # Nothing /\ build'.carried # Nothing =>
             SoundCarry(build'.cfg, build'.carried)
    <3>1. CASE build = Nothing \/ build.carried = Nothing
      BY <1>7, <3>1 DEF Tick
    <3>2. CASE build # Nothing /\ build.carried # Nothing
      <4>1. build \in Builds /\ build.carried \in Tables
        BY <3>2 DEF Builds
      <4>2. build' = [build EXCEPT !.carried = Older(@)]
        BY <1>7, <3>2 DEF Tick
      <4>3. /\ build' \in Builds /\ build'.cfg = build.cfg
            /\ build'.carried = Older(build.carried)
        BY <4>1, <4>2, OlderType DEF Builds
      <4> QED BY <3>2, <4>1, <4>3, OlderType DEF SoundCarry
    <3> QED BY <3>1, <3>2
  <2>5. UNCHANGED <<kind, runCfg, looks, downloading, trouble>>
    BY <1>7 DEF Tick
  <2> QED BY <2>2, <2>3, <2>4, <2>5
          DEF Sound, SoundCarry, Processors, Builds, Refreshes
<1>8. CASE Weather
  BY <1>8, Parameters
     DEF Weather, Sound, SoundCarry, Processors, Builds, Refreshes
<1>9. CASE UNCHANGED geoVars
  BY <1>9 DEF geoVars, Sound, SoundCarry, Processors, Builds, Refreshes
<1> QED
  BY <1>1, <1>2, <1>3, <1>4, <1>5, <1>6, <1>7, <1>8, <1>9 DEF GeoNext

LEMMA GeoInvariance == GeoSpec => []GeoInv
<1> QED BY GeoInitInv, GeoNextInv, PTL DEF GeoSpec

\* Every variable keeps its type: the retry of a failing source never lies
\* further away than the refresh interval, for every backoff.
THEOREM GeoTypes == GeoSpec => []GeoOK
<1>1. GeoInv => GeoOK
  BY DEF GeoInv
<1> QED BY <1>1, GeoInvariance, PTL

\* No processor, however it came by its table, serves an empty one for good.
THEOREM NeverSilentlyVoid == GeoSpec => []NoSilentVoid
<1>1. GeoInv => NoSilentVoid
  BY DEF GeoInv, Sound, NoSilentVoid
<1> QED BY <1>1, GeoInvariance, PTL

\* No reload carries a table across a change of its sources.
THEOREM SourcesMatch == GeoSpec => []OwnSources
<1>1. GeoInv => OwnSources
  BY DEF GeoInv, Sound, OwnSources
<1> QED BY <1>1, GeoInvariance, PTL

=============================================================================
