-------------------------- MODULE AdmissionProofs ---------------------------
(***************************************************************************)
(* TLAPS proofs about the two guards that decide which requests get in:      *)
(* Budget, for every number of requests, tenants and days and for all caps,  *)
(* stakes and costs; and McpGate, for all limits, clients and isolates.      *)
(* The two share no state, but their proofs count the same way, with         *)
(* cardinalities.                                                          *)
(***************************************************************************)
EXTENDS Budget, McpGate, FiniteSetTheorems, TLAPS
-----------------------------------------------------------------------------
(* Sums of natural numbers over finite sets. *)

\* The cents of one summand, and their number.
LEMMA CentsOfOne ==
    ASSUME NEW x, NEW n \in Nat
    PROVE  IsFiniteSet({x} \X (1 .. n)) /\ Cardinality({x} \X (1 .. n)) = n
<1>1. IsFiniteSet({x}) /\ Cardinality({x}) = 1
      BY FS_Singleton
<1>2. IsFiniteSet(1 .. n) /\ Cardinality(1 .. n) = n
      BY FS_Interval
<1>3. /\ IsFiniteSet({x} \X (1 .. n))
      /\ Cardinality({x} \X (1 .. n)) = Cardinality({x}) * Cardinality(1 .. n)
      BY <1>1, <1>2, FS_Product, Zenon
<1>. QED BY <1>1, <1>2, <1>3

\* A finite sum of natural numbers is made of finitely many cents.
LEMMA CentsFinite ==
    ASSUME NEW S, IsFiniteSet(S), NEW f \in [S -> Nat]
    PROVE  IsFiniteSet(Cents(f))
<1> DEFINE part == [x \in S |-> {x} \X (1 .. f[x])]
           Parts == {{x} \X (1 .. f[x]) : x \in S}
<1>1. part \in Surjection(S, Parts)
      BY DEF Surjection
<1>2. IsFiniteSet(Parts)
      BY <1>1, FS_Surjection
<1>3. ASSUME NEW T \in Parts PROVE IsFiniteSet(T)
  <2>1. PICK x \in S : T = {x} \X (1 .. f[x])
        OBVIOUS
  <2>2. f[x] \in Nat
        OBVIOUS
  <2>. QED BY <2>1, <2>2, CentsOfOne, Zenon
<1>4. Cents(f) = UNION Parts
      BY DEF Cents
<1>. QED BY <1>2, <1>3, <1>4, FS_UNION

\* A sum of natural numbers is one.
LEMMA TotalIsNat ==
    ASSUME NEW S, IsFiniteSet(S), NEW f \in [S -> Nat]
    PROVE  Total(f) \in Nat
BY CentsFinite, FS_CardinalityType DEF Total

\* The cents of all summands but one, and those of that one, make up the sum.
LEMMA TotalSplit ==
    ASSUME NEW S, IsFiniteSet(S), NEW f \in [S -> Nat], NEW x \in S
    PROVE  LET rest == UNION {{y} \X (1 .. f[y]) : y \in S \ {x}}
           IN /\ Cardinality(rest) \in Nat
              /\ Total(f) = Cardinality(rest) + f[x]
<1> DEFINE rest == UNION {{y} \X (1 .. f[y]) : y \in S \ {x}}
           one  == {x} \X (1 .. f[x])
<1>1. Cents(f) = rest \cup one
      BY DEF Cents
<1>2. rest \cap one = {}
      OBVIOUS
<1>3. IsFiniteSet(one) /\ Cardinality(one) = f[x]
      BY CentsOfOne
<1>4. IsFiniteSet(rest)
  <2>1. IsFiniteSet(Cents(f)) /\ rest \in SUBSET Cents(f)
        BY <1>1, CentsFinite
  <2>. QED BY <2>1, FS_Subset
<1>5. Cardinality(rest) \in Nat
      BY <1>4, FS_CardinalityType
<1> HIDE DEF rest, one
<1>6. Cardinality(rest \cup one) =
         Cardinality(rest) + Cardinality(one) - Cardinality(rest \cap one)
      BY <1>3, <1>4, FS_Union, Zenon
<1>7. Cardinality(rest \cap one) = 0
      BY <1>2, FS_EmptySet, Zenon
<1>8. f[x] \in Nat
      OBVIOUS
<1>9. Total(f) = Cardinality(rest) + f[x]
      BY <1>1, <1>3, <1>5, <1>6, <1>7, <1>8 DEF Total
<1>. QED BY <1>5, <1>9 DEF rest

\* When one summand changes, the sum changes by as much.
LEMMA TotalChange ==
    ASSUME NEW S, IsFiniteSet(S), NEW f \in [S -> Nat], NEW g \in [S -> Nat],
           NEW x \in S, \A y \in S \ {x} : g[y] = f[y]
    PROVE  Total(g) = Total(f) - f[x] + g[x]
<1> DEFINE rest(h) == UNION {{y} \X (1 .. h[y]) : y \in S \ {x}}
<1>1. rest(f) = rest(g)
      OBVIOUS
<1>2. Total(f) = Cardinality(rest(f)) + f[x] /\ Cardinality(rest(f)) \in Nat
      BY TotalSplit
<1>3. Total(g) = Cardinality(rest(g)) + g[x]
      BY TotalSplit
<1>4. f[x] \in Nat /\ g[x] \in Nat
      OBVIOUS
<1> HIDE DEF rest
<1>. QED BY <1>1, <1>2, <1>3, <1>4

\* No summand exceeds the sum.
LEMMA TotalBounds ==
    ASSUME NEW S, IsFiniteSet(S), NEW f \in [S -> Nat], NEW x \in S
    PROVE  f[x] <= Total(f)
<1> DEFINE rest == UNION {{y} \X (1 .. f[y]) : y \in S \ {x}}
<1>1. Total(f) = Cardinality(rest) + f[x] /\ Cardinality(rest) \in Nat
      BY TotalSplit
<1>2. f[x] \in Nat
      OBVIOUS
<1> HIDE DEF rest
<1>. QED BY <1>1, <1>2

\* A sum of zeros is zero.
LEMMA TotalOfZeros ==
    ASSUME NEW f, \A x \in DOMAIN f : f[x] = 0
    PROVE  Total(f) = 0
<1>1. \A x \in DOMAIN f : {x} \X (1 .. f[x]) = {}
      OBVIOUS
<1>2. Cents(f) = {}
      BY <1>1 DEF Cents
<1>. QED BY <1>2, FS_EmptySet DEF Total

-----------------------------------------------------------------------------
(* Budget: the invariant, and the requests. *)

\* The strengthening CapBound needs: the SQL predicate tests the reserved
\* column, so that column must cover the live stakes up to the overdraft.
ReservedCoversHeld ==
    \A a \in Accounts, d \in Days :
        held[a][d] - overdraft[a][d] <= row[a][d].reserved

LedgerTyped ==
    /\ row \in [Accounts -> [Days -> Row]]
    /\ overdraft \in [Accounts -> [Days -> Nat]]
    /\ orphaned \in [Accounts -> [Days -> Nat]]
    /\ leaked \in [Accounts -> [Days -> Nat]]

LedgerInv == LedgerTyped /\ CapBound /\ ReservedCoversHeld

\* What the phase of a request says about its two days: a request that has not
\* got a reservation yet has no stake.
Stages ==
    \A c \in Calls :
        /\ call[c].pc = "idle" => call[c].tenantDay = NoDay /\ call[c].fleetDay = NoDay
        /\ call[c].pc = "tenantHeld" => call[c].fleetDay = NoDay

IInv == TypeOK /\ Stages /\ CapBound /\ ReservedCoversHeld

\* What a step does to the stakes in flight: it leaves them, adds one of request c
\* on today's row, or takes c's stake of day origin, or both stakes of c, away.
Keeps == \A b \in Accounts, d \in Days : held'[b][d] = held[b][d]

Takes(a, c) ==
    \A b \in Accounts, d \in Days :
        held'[b][d] = IF b = a /\ d = day THEN held[b][d] + MaxOf(c) ELSE held[b][d]

Gives(a, c, origin) ==
    \A b \in Accounts, d \in Days :
        held'[b][d] = IF b = a /\ d = origin THEN held[b][d] - MaxOf(c) ELSE held[b][d]

Drops(c) ==
    \A b \in Accounts, d \in Days : held'[b][d] = held[b][d] - StakeOn(c, b, d)

\* The stake of a request is a number of cents.
LEMMA StakeIsNat ==
    ASSUME TypeOK, NEW c \in Calls
    PROVE  MaxOf(c) \in Nat
BY BudgetAssumption DEF TypeOK, CallRecord, MaxOf

\* So is every cap.
LEMMA CapIsNat == ASSUME NEW a \in Accounts PROVE CapOf(a) \in Nat
BY BudgetAssumption DEF CapOf

\* The fields of a request, typed.
LEMMA CallFields ==
    ASSUME TypeOK, NEW c \in Calls
    PROVE  /\ call[c].slug \in Slugs /\ call[c].slug \in Accounts
           /\ call[c].slug # Fleet /\ Fleet \in Accounts
           /\ call[c].fleetDay \in Days \cup {NoDay}
           /\ call[c].tenantDay \in Days \cup {NoDay}
           /\ call[c].cost \in Nat /\ day \in Days /\ NoDay \notin Days
<1>1. call[c] \in CallRecord /\ day \in Days
      BY DEF TypeOK
<1>2. /\ call[c].slug \in Slugs
      /\ call[c].fleetDay \in Days \cup {NoDay}
      /\ call[c].tenantDay \in Days \cup {NoDay}
      /\ call[c].cost \in Costs \cup {0}
      BY <1>1 DEF CallRecord
<1>3. Costs \cup {0} \subseteq Nat /\ Fleet \notin Slugs /\ NoDay \notin Days
      BY BudgetAssumption DEF NoDay, Days
<1>. QED BY <1>1, <1>2, <1>3 DEF Accounts

\* The part of the type invariant outside the ledgers is preserved.
LEMMA CallTypeStep ==
    ASSUME TypeOK, [Next]_vars
    PROVE  /\ day' \in Days
           /\ call' \in [Calls -> CallRecord]
<1>0. day \in Days /\ call \in [Calls -> CallRecord]
      BY DEF TypeOK
<1>1. CASE UNCHANGED vars
      BY <1>0, <1>1 DEF vars
<1>2. CASE Midnight
      BY <1>0, <1>2, BudgetAssumption DEF Midnight, Days
<1>3. ASSUME NEW c \in Calls, Step(c) \/ Crash(c)
      PROVE  /\ day' \in Days
             /\ call' \in [Calls -> CallRecord]
  <2>1. day' = day
        BY <1>3 DEF Step, Crash, ReserveTenant, ReserveFleet, Rollback,
                    RecordFleet, RecordTenant, ReleaseFleet, ReleaseTenant,
                    Respond, ThrowUncaught, Abandon
  <2>4. /\ call[c] \in CallRecord
        /\ day \in Days \cup {NoDay} /\ NoDay \in Days \cup {NoDay}
        BY <1>0
  <2>5. call' \in [Calls -> CallRecord]
    <3>. USE <1>0, <2>4
    <3>1. ASSUME NEW pc \in Phases, Move(c, pc)
          PROVE  call' \in [Calls -> CallRecord]
          BY <3>1 DEF Move, CallRecord
    <3>2. ASSUME NEW pc \in Phases, NEW t \in Days \cup {NoDay},
                 call' = [call EXCEPT ![c].pc = pc, ![c].tenantDay = t]
          PROVE  call' \in [Calls -> CallRecord]
          BY <3>2 DEF CallRecord
    <3>3. ASSUME NEW pc \in Phases, NEW f \in Days \cup {NoDay},
                 call' = [call EXCEPT ![c].pc = pc, ![c].fleetDay = f]
          PROVE  call' \in [Calls -> CallRecord]
          BY <3>3 DEF CallRecord
    <3>4. ASSUME NEW pc \in Phases, NEW f \in Days \cup {NoDay}, NEW k \in Costs,
                 call' = [call EXCEPT ![c].pc = pc, ![c].fleetDay = f, ![c].cost = k]
          PROVE  call' \in [Calls -> CallRecord]
          BY <3>4 DEF CallRecord
    <3>5. CASE ReserveTenant(c)
          BY <3>1, <3>2, <3>5, Zenon DEF ReserveTenant, Phases
    <3>6. CASE ReserveFleet(c)
      <4>1. \/ call' = [call EXCEPT ![c].pc = "running", ![c].fleetDay = day]
            \/ Move(c, "rollback")
            \/ Move(c, "closed")
            BY <3>6 DEF ReserveFleet
      <4>. QED BY <4>1, <3>1, <3>3, Zenon DEF Phases
    <3>7. CASE RecordFleet(c)
      <4>1. PICK k \in Costs, pc \in {"settled", "fleetRecorded"} :
               call' = [call EXCEPT ![c].pc = pc, ![c].fleetDay = NoDay, ![c].cost = k]
            BY <3>7 DEF RecordFleet
      <4>2. pc \in Phases
            BY DEF Phases
      <4>. QED BY <4>1, <4>2, <3>4
    <3>8. CASE Rollback(c) \/ RecordTenant(c) \/ ReleaseTenant(c)
          BY <3>8 DEF Rollback, RecordTenant, ReleaseTenant, CallRecord, Phases
    <3>9. CASE ReleaseFleet(c)
          BY <3>9 DEF ReleaseFleet, CallRecord, Phases
    <3>10. CASE Respond(c)
           BY <3>10, <3>1, Zenon DEF Respond, Phases
    <3>11. CASE ThrowUncaught(c) \/ Crash(c)
           BY <3>11 DEF ThrowUncaught, Crash, Abandon, CallRecord, Phases
    <3>. QED BY <1>3, <3>5, <3>6, <3>7, <3>8, <3>9, <3>10, <3>11 DEF Step
  <2>. QED BY <1>0, <2>1, <2>5
<1>. QED BY <1>1, <1>2, <1>3 DEF Next

\* How one request's step changes what its own record says, and nobody else's.
LEMMA CallChange ==
    ASSUME TypeOK, NEW c \in Calls, Step(c) \/ Crash(c)
    PROVE  /\ call' \in [Calls -> CallRecord]
           /\ \A e \in Calls \ {c} : call'[e] = call[e]
           /\ call'[c].kind = call[c].kind /\ call'[c].slug = call[c].slug
<1>1. call' \in [Calls -> CallRecord]
      BY CallTypeStep DEF Next
<1>2. call \in [Calls -> CallRecord]
      BY DEF TypeOK
<1>3. CASE ReserveTenant(c) \/ ReserveFleet(c) \/ Respond(c)
      BY <1>1, <1>2, <1>3 DEF ReserveTenant, ReserveFleet, Respond, Move, CallRecord
<1>4. CASE Rollback(c) \/ RecordTenant(c) \/ ReleaseFleet(c) \/ ReleaseTenant(c)
      BY <1>1, <1>2, <1>4 DEF Rollback, RecordTenant, ReleaseFleet, ReleaseTenant, CallRecord
<1>6. CASE ThrowUncaught(c) \/ Crash(c)
      BY <1>1, <1>2, <1>6 DEF ThrowUncaught, Crash, Abandon, CallRecord
<1>5. CASE RecordFleet(c)
  <2>1. PICK pc, k : call' = [call EXCEPT ![c].pc = pc, ![c].fleetDay = NoDay, ![c].cost = k]
        BY <1>5 DEF RecordFleet
  <2>. QED BY <1>1, <1>2, <2>1 DEF CallRecord
<1>. QED BY <1>3, <1>4, <1>5, <1>6 DEF Step

LEMMA StagesStep == ASSUME TypeOK, Stages, [Next]_vars PROVE Stages'
<1>1. CASE UNCHANGED vars \/ Midnight
      BY <1>1 DEF vars, Midnight, Stages
<1>2. ASSUME NEW c \in Calls, Step(c) \/ Crash(c) PROVE Stages'
  <2>1. \A e \in Calls \ {c} : call'[e] = call[e]
        BY <1>2, CallChange
  <2>2. call \in [Calls -> CallRecord]
        BY DEF TypeOK
  <2>3. /\ call'[c].pc = "idle" => call'[c].tenantDay = NoDay /\ call'[c].fleetDay = NoDay
        /\ call'[c].pc = "tenantHeld" => call'[c].fleetDay = NoDay
    <3>1. CASE ReserveTenant(c)
          BY <2>2, <3>1 DEF ReserveTenant, Move, CallRecord, Stages
    <3>2. CASE ReserveFleet(c) \/ Respond(c)
          BY <2>2, <3>2 DEF ReserveFleet, Respond, Move, CallRecord
    <3>3. CASE Rollback(c) \/ RecordTenant(c) \/ ReleaseFleet(c) \/ ReleaseTenant(c)
          BY <2>2, <3>3 DEF Rollback, RecordTenant, ReleaseFleet, ReleaseTenant, CallRecord
    <3>5. CASE ThrowUncaught(c) \/ Crash(c)
          BY <2>2, <3>5 DEF ThrowUncaught, Crash, Abandon, CallRecord
    <3>4. CASE RecordFleet(c)
          BY <2>2, <3>4 DEF RecordFleet, CallRecord
    <3>. QED BY <1>2, <3>1, <3>2, <3>3, <3>4, <3>5 DEF Step
  <2>. QED BY <2>1, <2>3 DEF Stages
<1>. QED BY <1>1, <1>2 DEF Next

-----------------------------------------------------------------------------
(* Budget: the stakes in flight. *)

\* A stake is a number of cents.
LEMMA StakeOnIsNat ==
    ASSUME TypeOK, NEW c \in Calls, NEW a, NEW d PROVE StakeOn(c, a, d) \in Nat
BY StakeIsNat DEF StakeOn

LEMMA StakeTotal ==
    ASSUME TypeOK, NEW a, NEW d
    PROVE  /\ [c \in Calls |-> StakeOn(c, a, d)] \in [Calls -> Nat]
           /\ Total([c \in Calls |-> StakeOn(c, a, d)]) \in Nat
<1>1. [c \in Calls |-> StakeOn(c, a, d)] \in [Calls -> Nat]
      BY StakeOnIsNat
<1>. QED BY <1>1, TotalIsNat, BudgetAssumption

\* The stakes in flight, typed; each of them is among what is held on its row.
LEMMA HeldTyped ==
    ASSUME TypeOK
    PROVE  /\ held \in [Accounts -> [Days -> Nat]]
           /\ \A c \in Calls, a \in Accounts, d \in Days : StakeOn(c, a, d) <= held[a][d]
<1>1. ASSUME NEW a \in Accounts, NEW d \in Days
      PROVE  /\ Total([c \in Calls |-> StakeOn(c, a, d)]) \in Nat
             /\ held[a][d] = Total([c \in Calls |-> StakeOn(c, a, d)])
      BY StakeTotal DEF held
<1>2. held \in [Accounts -> [Days -> Nat]]
      BY <1>1 DEF held
<1>3. ASSUME NEW c \in Calls, NEW a \in Accounts, NEW d \in Days
      PROVE  StakeOn(c, a, d) <= held[a][d]
  <2> DEFINE f == [e \in Calls |-> StakeOn(e, a, d)]
  <2>1. f \in [Calls -> Nat]
        BY StakeTotal
  <2>2. f[c] <= Total(f)
        BY <2>1, TotalBounds, BudgetAssumption
  <2>. QED BY <1>1, <2>2
<1>. QED BY <1>2, <1>3

\* Nothing is staked or given up while no request moves.
LEMMA HeldKept == ASSUME call' = call PROVE Keeps
<1>1. ASSUME NEW a, NEW d
      PROVE  Total([c \in Calls |-> StakeOn(c, a, d)])' = Total([c \in Calls |-> StakeOn(c, a, d)])
      BY DEF StakeOn, MaxOf, Total, Cents
<1>2. \A a \in Accounts, d \in Days : held'[a][d] = held[a][d]
      BY <1>1 DEF held
<1>. QED BY <1>2 DEF Keeps

\* The stake of the request that moves, before and after.
LEMMA StakeAfter ==
    ASSUME TypeOK, NEW c \in Calls, Step(c) \/ Crash(c), NEW a, NEW d
    PROVE  /\ StakeOn(c, a, d)' = IF \/ a = Fleet /\ d = call'[c].fleetDay
                                     \/ a = call[c].slug /\ d = call'[c].tenantDay
                                  THEN MaxOf(c) ELSE 0
           /\ MaxOf(c) \in Nat
BY CallChange, StakeIsNat DEF StakeOn, MaxOf

\* The stakes held on a row follow the one request that moved.
LEMMA HeldFollows ==
    ASSUME TypeOK, NEW c \in Calls, Step(c) \/ Crash(c), NEW a \in Accounts, NEW d \in Days
    PROVE  held'[a][d] = held[a][d] - StakeOn(c, a, d) + StakeOn(c, a, d)'
<1> DEFINE f == [e \in Calls |-> StakeOn(e, a, d)]
           g == [e \in Calls |-> StakeOn(e, a, d)']
<1>1. f \in [Calls -> Nat]
      BY StakeTotal
<1>2. /\ call' \in [Calls -> CallRecord]
      /\ \A e \in Calls \ {c} : call'[e] = call[e]
      BY CallChange
<1>3. g \in [Calls -> Nat]
  <2>1. ASSUME NEW e \in Calls PROVE StakeOn(e, a, d)' \in Nat
    <3>1. Stake[call'[e].kind] \in Nat
          BY <1>2, BudgetAssumption DEF CallRecord
    <3>. QED BY <3>1 DEF StakeOn, MaxOf
  <2>. QED BY <2>1
<1>4. \A e \in Calls \ {c} : g[e] = f[e]
      BY <1>2 DEF StakeOn, MaxOf
<1>5. Total(g) = Total(f) - f[c] + g[c]
      BY <1>1, <1>3, <1>4, TotalChange, BudgetAssumption
<1>6. held[a][d] = Total(f)
      BY DEF held
<1>7. held'[a][d] = Total(g)
  <2>1. Total([e \in Calls |-> StakeOn(e, a, d)])' = Total(g)
        BY DEF Total, Cents
  <2>2. held'[a][d] = Total([e \in Calls |-> StakeOn(e, a, d)])'
        BY DEF held
  <2>. QED BY <2>1, <2>2
<1>. QED BY <1>5, <1>6, <1>7

\* What a change of the two days of a request does to the stakes in flight.
LEMMA StakesMove ==
    ASSUME TypeOK, NEW c \in Calls, Step(c) \/ Crash(c),
           NEW t, t = call'[c].tenantDay, NEW f, f = call'[c].fleetDay
    PROVE  /\ t = call[c].tenantDay /\ f = call[c].fleetDay => Keeps
           /\ call[c].tenantDay = NoDay /\ t = day /\ f = call[c].fleetDay
                 => Takes(call[c].slug, c)
           /\ t = call[c].tenantDay /\ call[c].fleetDay = NoDay /\ f = day
                 => Takes(Fleet, c)
           /\ t = NoDay /\ f = call[c].fleetDay => Gives(call[c].slug, c, call[c].tenantDay)
           /\ t = call[c].tenantDay /\ f = NoDay => Gives(Fleet, c, call[c].fleetDay)
           /\ t = NoDay /\ f = NoDay => Drops(c)
<1>1. /\ call[c].slug \in Accounts /\ call[c].slug # Fleet /\ Fleet \in Accounts
      /\ day \in Days /\ NoDay \notin Days
      BY CallFields
<1>2. ASSUME NEW a \in Accounts, NEW d \in Days
      PROVE  /\ held[a][d] \in Nat /\ MaxOf(c) \in Nat
             /\ StakeOn(c, a, d) = IF \/ a = Fleet /\ d = call[c].fleetDay
                                      \/ a = call[c].slug /\ d = call[c].tenantDay
                                   THEN MaxOf(c) ELSE 0
             /\ held'[a][d] = held[a][d] - StakeOn(c, a, d)
                   + (IF (a = Fleet /\ d = f) \/ (a = call[c].slug /\ d = t)
                      THEN MaxOf(c) ELSE 0)
  <2>1. held'[a][d] = held[a][d] - StakeOn(c, a, d) + StakeOn(c, a, d)'
        BY HeldFollows
  <2>2. StakeOn(c, a, d)' = IF (a = Fleet /\ d = f) \/ (a = call[c].slug /\ d = t)
                            THEN MaxOf(c) ELSE 0
        BY StakeAfter
  <2>3. held[a][d] \in Nat /\ MaxOf(c) \in Nat
        BY HeldTyped, StakeIsNat
  <2>. QED BY <2>1, <2>2, <2>3 DEF StakeOn
<1>3. t = call[c].tenantDay /\ f = call[c].fleetDay => Keeps
      BY <1>2 DEF Keeps
<1>4. call[c].tenantDay = NoDay /\ t = day /\ f = call[c].fleetDay => Takes(call[c].slug, c)
      BY <1>1, <1>2 DEF Takes
<1>5. t = call[c].tenantDay /\ call[c].fleetDay = NoDay /\ f = day => Takes(Fleet, c)
      BY <1>1, <1>2 DEF Takes
<1>6. t = NoDay /\ f = call[c].fleetDay => Gives(call[c].slug, c, call[c].tenantDay)
      BY <1>1, <1>2 DEF Gives
<1>7. t = call[c].tenantDay /\ f = NoDay => Gives(Fleet, c, call[c].fleetDay)
      BY <1>1, <1>2 DEF Gives
<1>8. t = NoDay /\ f = NoDay => Drops(c)
      BY <1>1, <1>2 DEF Drops
<1>. QED BY <1>3, <1>4, <1>5, <1>6, <1>7, <1>8

\* What each action does to the stakes in flight.
LEMMA ReserveMoves ==
    ASSUME TypeOK, Stages, NEW c \in Calls
    PROVE  /\ ReserveTenant(c) =>
                 \/ Keeps /\ UNCHANGED rows
                 \/ /\ Headroom(call[c].slug, c) /\ Hold(call[c].slug, c)
                    /\ Takes(call[c].slug, c)
           /\ ReserveFleet(c) =>
                 \/ Keeps /\ UNCHANGED rows
                 \/ Headroom(Fleet, c) /\ Hold(Fleet, c) /\ Takes(Fleet, c)
<1>1. call \in [Calls -> CallRecord]
      BY DEF TypeOK
<1>2. ASSUME Step(c), NEW pc, Move(c, pc) PROVE Keeps
  <2>1. call'[c].tenantDay = call[c].tenantDay /\ call'[c].fleetDay = call[c].fleetDay
        BY <1>1, <1>2 DEF Move, CallRecord
  <2>. QED BY <1>2, <2>1, StakesMove
<1>3. ASSUME ReserveTenant(c), call' = [call EXCEPT ![c].pc = "tenantHeld", ![c].tenantDay = day]
      PROVE  Takes(call[c].slug, c)
  <2>1. call[c].tenantDay = NoDay
        BY <1>3 DEF ReserveTenant, Stages
  <2>2. call'[c].tenantDay = day /\ call'[c].fleetDay = call[c].fleetDay
        BY <1>1, <1>3 DEF CallRecord
  <2>3. Step(c)
        BY <1>3 DEF Step
  <2>. QED BY <2>1, <2>2, <2>3, StakesMove
<1>4. ASSUME ReserveFleet(c), call' = [call EXCEPT ![c].pc = "running", ![c].fleetDay = day]
      PROVE  Takes(Fleet, c)
  <2>1. call[c].fleetDay = NoDay
        BY <1>4 DEF ReserveFleet, Stages
  <2>2. call'[c].fleetDay = day /\ call'[c].tenantDay = call[c].tenantDay
        BY <1>1, <1>4 DEF CallRecord
  <2>3. Step(c)
        BY <1>4 DEF Step
  <2>. QED BY <2>1, <2>2, <2>3, StakesMove
<1>5. ASSUME ReserveTenant(c)
      PROVE  \/ Keeps /\ UNCHANGED rows
             \/ Headroom(call[c].slug, c) /\ Hold(call[c].slug, c) /\ Takes(call[c].slug, c)
  <2>1. Step(c)
        BY <1>5 DEF Step
  <2>. QED BY <1>2, <1>3, <1>5, <2>1, Zenon DEF ReserveTenant
<1>6. ASSUME ReserveFleet(c)
      PROVE  \/ Keeps /\ UNCHANGED rows
             \/ Headroom(Fleet, c) /\ Hold(Fleet, c) /\ Takes(Fleet, c)
  <2>1. Step(c)
        BY <1>6 DEF Step
  <2>2. \/ /\ Headroom(Fleet, c) /\ Hold(Fleet, c)
           /\ call' = [call EXCEPT ![c].pc = "running", ![c].fleetDay = day]
        \/ UNCHANGED rows /\ \E pc : Move(c, pc)
        BY <1>6 DEF ReserveFleet
  <2>. QED BY <1>2, <1>4, <1>6, <2>1, <2>2, Zenon
<1>. QED BY <1>5, <1>6

LEMMA SettleMoves ==
    ASSUME TypeOK, NEW c \in Calls
    PROVE  /\ Rollback(c) \/ RecordTenant(c) \/ ReleaseTenant(c)
                 => Gives(call[c].slug, c, call[c].tenantDay)
           /\ RecordFleet(c) \/ ReleaseFleet(c) => Gives(Fleet, c, call[c].fleetDay)
           /\ Respond(c) => Keeps
           /\ ThrowUncaught(c) \/ Crash(c) => Drops(c)
<1>1. call \in [Calls -> CallRecord]
      BY DEF TypeOK
<1>2. ASSUME Rollback(c) \/ RecordTenant(c) \/ ReleaseTenant(c)
      PROVE  Gives(call[c].slug, c, call[c].tenantDay)
  <2>1. call'[c].tenantDay = NoDay /\ call'[c].fleetDay = call[c].fleetDay
        BY <1>1, <1>2 DEF Rollback, RecordTenant, ReleaseTenant, CallRecord
  <2>2. Step(c)
        BY <1>2 DEF Step
  <2>. QED BY <2>1, <2>2, StakesMove
<1>3. ASSUME RecordFleet(c) \/ ReleaseFleet(c)
      PROVE  Gives(Fleet, c, call[c].fleetDay)
  <2>1. call'[c].fleetDay = NoDay /\ call'[c].tenantDay = call[c].tenantDay
        BY <1>1, <1>3 DEF RecordFleet, ReleaseFleet, CallRecord
  <2>2. Step(c)
        BY <1>3 DEF Step
  <2>. QED BY <2>1, <2>2, StakesMove
<1>4. ASSUME Respond(c) PROVE Keeps
  <2>1. call'[c].tenantDay = call[c].tenantDay /\ call'[c].fleetDay = call[c].fleetDay
        BY <1>1, <1>4 DEF Respond, Move, CallRecord
  <2>2. Step(c)
        BY <1>4 DEF Step
  <2>. QED BY <2>1, <2>2, StakesMove
<1>5. ASSUME ThrowUncaught(c) \/ Crash(c) PROVE Drops(c)
  <2>1. call'[c].tenantDay = NoDay /\ call'[c].fleetDay = NoDay
        BY <1>1, <1>5 DEF ThrowUncaught, Crash, Abandon, CallRecord
  <2>2. Step(c) \/ Crash(c)
        BY <1>5 DEF Step
  <2>. QED BY <2>1, <2>2, StakesMove
<1>. QED BY <1>2, <1>3, <1>4, <1>5

-----------------------------------------------------------------------------
(* Budget: the caps. *)

\* A reservation admitted by the conditional UPDATE keeps the ledger sound.
LEMMA HoldKeepsLedger ==
    ASSUME TypeOK, LedgerInv, NEW c \in Calls, NEW a \in Accounts,
           Headroom(a, c), Hold(a, c), Takes(a, c)
    PROVE  LedgerInv'
<1>1. MaxOf(c) \in Nat /\ CapOf(a) \in Nat
      BY StakeIsNat, CapIsNat
<1>2. day \in Days
      BY DEF TypeOK
<1>3. LedgerTyped'
      BY <1>1, <1>2 DEF LedgerInv, LedgerTyped, Hold, Reserved, Row
<1>4. ASSUME NEW b \in Accounts, NEW d \in Days
      PROVE  /\ row'[b][d].spent + held'[b][d] <= CapOf(b) + overdraft'[b][d]
             /\ held'[b][d] - overdraft'[b][d] <= row'[b][d].reserved
  <2>1. /\ row[b][d].spent + held[b][d] <= CapOf(b) + overdraft[b][d]
        /\ held[b][d] - overdraft[b][d] <= row[b][d].reserved
        /\ row[b][d] \in Row /\ held[b][d] \in Int /\ overdraft[b][d] \in Nat
        /\ CapOf(b) \in Nat
        BY CapIsNat, HeldTyped DEF LedgerInv, LedgerTyped, CapBound, ReservedCoversHeld
  <2>2. CASE b = a /\ d = day
    <3>1. /\ row'[b][d] = Reserved(row[b][d], MaxOf(c))
          /\ held'[b][d] = held[b][d] + MaxOf(c)
          /\ overdraft' = overdraft
          BY <2>2 DEF Hold, Takes, LedgerInv, LedgerTyped
    <3>2. row[b][d].spent + row[b][d].reserved + MaxOf(c) <= CapOf(b)
          BY <2>2 DEF Headroom, Fits
    <3>. QED BY <3>1, <3>2, <2>1, <1>1 DEF Reserved, Row
  <2>3. CASE ~ (b = a /\ d = day)
    <3>1. row'[b][d] = row[b][d] /\ held'[b][d] = held[b][d] /\ overdraft' = overdraft
          BY <2>3 DEF Hold, Takes, LedgerInv, LedgerTyped
    <3>. QED BY <3>1, <2>1
  <2>. QED BY <2>2, <2>3
<1>. QED BY <1>3, <1>4 DEF LedgerInv, CapBound, ReservedCoversHeld, CapOf

\* A settlement keeps the ledger sound, whatever row the stake was made on.
LEMMA RecordKeepsLedger ==
    ASSUME TypeOK, LedgerInv, NEW c \in Calls, NEW a \in Accounts,
           NEW actual \in Nat, NEW origin \in Days \cup {NoDay},
           Record(a, c, actual, origin), Gives(a, c, origin)
    PROVE  LedgerInv'
<1>1. MaxOf(c) \in Nat /\ CapOf(a) \in Nat
      BY StakeIsNat, CapIsNat
<1>2. day \in Days
      BY DEF TypeOK
<1>3. LedgerTyped'
  <2>1. row' \in [Accounts -> [Days -> Row]]
        BY <1>1, <1>2 DEF LedgerInv, LedgerTyped, Record, Recorded, Row, NonNeg
  <2>3. overdraft' \in [Accounts -> [Days -> Nat]]
        BY <1>1, <1>2 DEF LedgerInv, LedgerTyped, Record, Account, NonNeg, Larger
  <2>4. orphaned' \in [Accounts -> [Days -> Nat]]
        BY <1>1, <1>2 DEF LedgerInv, LedgerTyped, Record, Account
  <2>5. leaked' \in [Accounts -> [Days -> Nat]]
        BY DEF LedgerInv, LedgerTyped, Record, Account
  <2>. QED BY <2>1, <2>3, <2>4, <2>5 DEF LedgerTyped
<1>4. ASSUME NEW b \in Accounts, NEW d \in Days
      PROVE  /\ row'[b][d].spent + held'[b][d] <= CapOf(b) + overdraft'[b][d]
             /\ held'[b][d] - overdraft'[b][d] <= row'[b][d].reserved
  <2>1. /\ row[b][d].spent + held[b][d] <= CapOf(b) + overdraft[b][d]
        /\ held[b][d] - overdraft[b][d] <= row[b][d].reserved
        /\ row[b][d] \in Row /\ held[b][d] \in Int /\ overdraft[b][d] \in Nat
        /\ CapOf(b) \in Nat
        BY CapIsNat, HeldTyped DEF LedgerInv, LedgerTyped, CapBound, ReservedCoversHeld
  <2>2. held'[b][d] = IF b = a /\ d = origin THEN held[b][d] - MaxOf(c)
                                             ELSE held[b][d]
        BY DEF Gives
  <2>3. CASE b = a /\ d = day
    <3>1. row'[b][d] = Recorded(row[b][d], MaxOf(c), actual)
          BY <2>3 DEF Record, LedgerInv, LedgerTyped
    <3>2. overdraft'[b][d] = overdraft[b][d] +
             IF origin = day THEN NonNeg(actual - MaxOf(c))
                             ELSE Larger(MaxOf(c), actual)
          BY <2>3 DEF Record, Account, LedgerInv, LedgerTyped
    <3>3. CASE origin = day
          BY <3>1, <3>2, <3>3, <2>1, <2>2, <2>3, <1>1 DEF Recorded, NonNeg, Row
    <3>4. CASE origin # day
          BY <3>1, <3>2, <3>4, <2>1, <2>2, <2>3, <1>1 DEF Recorded, NonNeg, Larger, Row
    <3>. QED BY <3>3, <3>4
  <2>4. CASE ~ (b = a /\ d = day)
    <3>1. row'[b][d] = row[b][d] /\ overdraft'[b][d] = overdraft[b][d]
          BY <2>4 DEF Record, Account, LedgerInv, LedgerTyped
    <3>. QED BY <3>1, <2>1, <2>2, <1>1 DEF Row
  <2>. QED BY <2>3, <2>4
<1>. QED BY <1>3, <1>4 DEF LedgerInv, CapBound, ReservedCoversHeld, CapOf

\* A release settles at cost zero.
LEMMA ReleaseKeepsLedger ==
    ASSUME TypeOK, LedgerInv, NEW c \in Calls, NEW a \in Accounts,
           NEW origin \in Days \cup {NoDay}, Release(a, c, origin),
           Gives(a, c, origin)
    PROVE  LedgerInv'
<1>1. day \in Days /\ row[a][day] \in Row
      BY DEF TypeOK
<1>2. Released(row[a][day], MaxOf(c)) = Recorded(row[a][day], MaxOf(c), 0)
      BY <1>1 DEF Released, Recorded, Row
<1>3. Record(a, c, 0, origin)
      BY <1>1, <1>2 DEF Record, Release, TypeOK
<1>. QED BY <1>3, RecordKeepsLedger

\* A request that ends and leaves its stakes: what is held falls, the rows keep
\* their values.
LEMMA AbandonKeepsLedger ==
    ASSUME TypeOK, LedgerInv, NEW c \in Calls, ThrowUncaught(c) \/ Crash(c), Drops(c)
    PROVE  LedgerInv'
<1>1. ASSUME NEW a \in Accounts, NEW d \in Days PROVE StakeOn(c, a, d) \in Nat
      BY StakeOnIsNat
<1>2. /\ row' = row /\ overdraft' = overdraft
      /\ orphaned' = orphaned \/ orphaned' = WithStakes(orphaned, c)
      /\ leaked' = leaked \/ leaked' = WithStakes(leaked, c)
      BY DEF ThrowUncaught, Crash, Abandon
<1>3. LedgerTyped'
      BY <1>1, <1>2 DEF LedgerInv, LedgerTyped, WithStakes
<1>4. ASSUME NEW b \in Accounts, NEW d \in Days
      PROVE  /\ row'[b][d].spent + held'[b][d] <= CapOf(b) + overdraft'[b][d]
             /\ held'[b][d] - overdraft'[b][d] <= row'[b][d].reserved
  <2>1. /\ row[b][d].spent + held[b][d] <= CapOf(b) + overdraft[b][d]
        /\ held[b][d] - overdraft[b][d] <= row[b][d].reserved
        /\ row[b][d] \in Row /\ held[b][d] \in Int /\ overdraft[b][d] \in Nat
        /\ CapOf(b) \in Nat /\ StakeOn(c, b, d) \in Nat
        BY <1>1, CapIsNat, HeldTyped DEF LedgerInv, LedgerTyped, CapBound, ReservedCoversHeld
  <2>2. held'[b][d] = held[b][d] - StakeOn(c, b, d)
        BY DEF Drops
  <2>. QED BY <1>2, <2>1, <2>2 DEF Row
<1>. QED BY <1>3, <1>4 DEF LedgerInv, CapBound, ReservedCoversHeld, CapOf

\* Every step of the system keeps both ledgers sound: one case per action.
LEMMA LedgerStep ==
    ASSUME TypeOK, Stages, LedgerInv, [Next]_vars
    PROVE  LedgerInv'
<1>1. ASSUME UNCHANGED rows, Keeps PROVE LedgerInv'
      BY <1>1 DEF rows, Keeps, LedgerInv, LedgerTyped, CapBound, ReservedCoversHeld, CapOf
<1>2. CASE UNCHANGED vars
      BY <1>2, <1>1, HeldKept DEF vars, rows
<1>3. CASE Midnight
      BY <1>3, <1>1, HeldKept DEF Midnight
<1>4. ASSUME NEW c \in Calls, Step(c) \/ Crash(c) PROVE LedgerInv'
  <2>1. /\ call[c].slug \in Accounts /\ Fleet \in Accounts
        /\ call[c].fleetDay \in Days \cup {NoDay}
        /\ call[c].tenantDay \in Days \cup {NoDay}
        /\ call[c].cost \in Nat
    <3>1. call[c] \in CallRecord
          BY DEF TypeOK
    <3>2. /\ call[c].slug \in Slugs
          /\ call[c].fleetDay \in Days \cup {NoDay}
          /\ call[c].tenantDay \in Days \cup {NoDay}
          /\ call[c].cost \in Costs \cup {0}
          BY <3>1 DEF CallRecord
    <3>3. Costs \cup {0} \subseteq Nat
          BY BudgetAssumption
    <3>. QED BY <3>2, <3>3 DEF Accounts
  <2>2. CASE ReserveTenant(c)
        BY <2>2, <2>1, <1>1, HoldKeepsLedger, ReserveMoves
  <2>3. CASE ReserveFleet(c)
        BY <2>3, <2>1, <1>1, HoldKeepsLedger, ReserveMoves
  <2>4. CASE Rollback(c)
        BY <2>4, <2>1, ReleaseKeepsLedger, SettleMoves DEF Rollback
  <2>5. CASE RecordFleet(c)
    <3>1. PICK actual \in Costs : Record(Fleet, c, actual, call[c].fleetDay)
          BY <2>5 DEF RecordFleet
    <3>2. actual \in Nat
          BY BudgetAssumption
    <3>. QED BY <2>5, <3>1, <3>2, <2>1, RecordKeepsLedger, SettleMoves
  <2>6. CASE RecordTenant(c)
        BY <2>6, <2>1, RecordKeepsLedger, SettleMoves DEF RecordTenant
  <2>7. CASE ReleaseFleet(c)
        BY <2>7, <2>1, ReleaseKeepsLedger, SettleMoves DEF ReleaseFleet
  <2>8. CASE ReleaseTenant(c)
        BY <2>8, <2>1, ReleaseKeepsLedger, SettleMoves DEF ReleaseTenant
  <2>9. CASE Respond(c)
        BY <2>9, <1>1, SettleMoves DEF Respond
  <2>10. CASE ThrowUncaught(c) \/ Crash(c)
        BY <2>10, AbandonKeepsLedger, SettleMoves
  <2>. QED BY <1>4, <2>2, <2>3, <2>4, <2>5, <2>6, <2>7, <2>8, <2>9, <2>10
           DEF Step
<1>. QED BY <1>2, <1>3, <1>4 DEF Next

LEMMA HeldAtFirst ==
    ASSUME Init PROVE \A a \in Accounts, d \in Days : held[a][d] = 0
<1>1. ASSUME NEW a \in Accounts, NEW d \in Days
      PROVE  Total([c \in Calls |-> StakeOn(c, a, d)]) = 0
  <2>1. NoDay \notin Days
        BY BudgetAssumption DEF NoDay, Days
  <2>2. \A c \in Calls : StakeOn(c, a, d) = 0
        BY <2>1 DEF Init, StakeOn
  <2>. QED BY <2>2, TotalOfZeros
<1>. QED BY <1>1 DEF held

LEMMA InitIInv == ASSUME Init PROVE IInv
<1>1. 0 \in Days /\ 0 \in Nat /\ FreshRow \in Row
      BY BudgetAssumption DEF Days, FreshRow, Row
<1>2. TypeOK
      BY <1>1, BudgetAssumption
      DEF Init, TypeOK, CallRecord, Phases, Zero, AllKinds
<1>3. ASSUME NEW a \in Accounts, NEW d \in Days
      PROVE  /\ row[a][d] = FreshRow /\ held[a][d] = 0 /\ overdraft[a][d] = 0
             /\ CapOf(a) \in Nat
      BY CapIsNat, HeldAtFirst DEF Init, Zero
<1>4. Stages
      BY DEF Init, Stages
<1>. QED BY <1>2, <1>3, <1>4 DEF IInv, CapBound, ReservedCoversHeld, FreshRow

LEMMA NextIInv == ASSUME IInv, [Next]_vars PROVE IInv'
<1>1. LedgerInv
      BY DEF IInv, TypeOK, LedgerInv, LedgerTyped
<1>2. LedgerInv' /\ Stages'
      BY <1>1, LedgerStep, StagesStep DEF IInv
<1>3. /\ day' \in Days
      /\ call' \in [Calls -> CallRecord]
      BY CallTypeStep DEF IInv
<1>. QED BY <1>2, <1>3 DEF IInv, TypeOK, LedgerInv, LedgerTyped

\* Type correctness of the budget model in every reachable state.
THEOREM BudgetTypeCorrect == Spec => []TypeOK
<1>. QED BY InitIInv, NextIInv, PTL DEF Spec, IInv

\* On both ledgers, on every day's row, whatever requests interleave, fail,
\* crash or straddle midnight: spend plus live stakes exceed the cap by no more
\* than the headroom freed by settlements that did not own it.
THEOREM BudgetCapBound == Spec => []CapBound
<1>. QED BY InitIInv, NextIInv, PTL DEF Spec, IInv
-----------------------------------------------------------------------------
(* OWNERSHIP *)

\* A settlement with the stake's own day leaves every reserved cent owned.
LEMMA RecordKeepsOwned ==
    ASSUME TypeOK, ReservedIsOwned, NEW c \in Calls, NEW a \in Accounts,
           NEW k \in Nat, NEW origin \in Days \cup {NoDay}, Account(a, c, k, origin),
           \/ row' = [row EXCEPT ![a][day] = Recorded(@, MaxOf(c), k)]
           \/ row' = [row EXCEPT ![a][day] = Released(@, MaxOf(c))],
           origin # NoDay => StakeOn(c, a, origin) = MaxOf(c), Gives(a, c, origin)
    PROVE  ReservedIsOwned'
<1>1. ASSUME NEW b \in Accounts, NEW d \in Days
      PROVE  row'[b][d].reserved <= held'[b][d] + orphaned'[b][d] + leaked'[b][d]
  <2>1. /\ row[b][d].reserved <= held[b][d] + orphaned[b][d] + leaked[b][d]
        /\ row[b][d].reserved \in Nat /\ orphaned[b][d] \in Nat /\ leaked[b][d] \in Nat
        /\ held[b][d] \in Nat /\ MaxOf(c) \in Nat /\ day \in Days /\ NoDay \notin Days
        BY HeldTyped, StakeIsNat, CallFields DEF ReservedIsOwned, TypeOK, Row
  <2>2. held'[b][d] = IF b = a /\ d = origin THEN held[b][d] - MaxOf(c)
                                             ELSE held[b][d]
        BY DEF Gives
  <2>3. row'[b][d].reserved = IF b = a /\ d = day
                              THEN NonNeg(row[b][d].reserved - MaxOf(c))
                              ELSE row[b][d].reserved
    <3>1. row \in [Accounts -> [Days -> Row]]
          BY DEF TypeOK
    <3>. QED BY <3>1 DEF Recorded, Released
  <2>4. orphaned'[b][d] = IF b = a /\ d = origin /\ origin # day
                          THEN orphaned[b][d] + MaxOf(c) ELSE orphaned[b][d]
        BY <2>1 DEF Account, TypeOK
  <2>5. b = a /\ d = origin => MaxOf(c) <= held[b][d]
        BY <2>1, HeldTyped
  <2>6. leaked' = leaked
        BY DEF Account
  <2>. QED BY <2>1, <2>2, <2>3, <2>4, <2>5, <2>6 DEF NonNeg
<1>. QED BY <1>1 DEF ReservedIsOwned, Accounts, Days

LEMMA HoldKeepsOwned ==
    ASSUME TypeOK, ReservedIsOwned, NEW c \in Calls, NEW a \in Accounts, Hold(a, c), Takes(a, c)
    PROVE  ReservedIsOwned'
<1>1. ASSUME NEW b \in Accounts, NEW d \in Days
      PROVE  row'[b][d].reserved <= held'[b][d] + orphaned'[b][d] + leaked'[b][d]
  <2>1. /\ row[b][d].reserved <= held[b][d] + orphaned[b][d] + leaked[b][d]
        /\ row[b][d].reserved \in Nat /\ orphaned[b][d] \in Nat /\ leaked[b][d] \in Nat
        /\ held[b][d] \in Int /\ MaxOf(c) \in Nat /\ day \in Days
        BY StakeIsNat, HeldTyped DEF ReservedIsOwned, TypeOK, Row
  <2>2. held'[b][d] = IF b = a /\ d = day THEN held[b][d] + MaxOf(c) ELSE held[b][d]
        BY DEF Takes
  <2>3. row'[b][d].reserved = IF b = a /\ d = day THEN row[b][d].reserved + MaxOf(c)
                                                  ELSE row[b][d].reserved
        BY <2>1 DEF Hold, TypeOK, Reserved
  <2>. QED BY <2>1, <2>2, <2>3 DEF Hold
<1>. QED BY <1>1 DEF ReservedIsOwned, Accounts, Days

\* OWNERSHIP is inductive: one case per action.
LEMMA OwnedStep ==
    ASSUME TypeOK, Stages, ReservedIsOwned, [Next]_vars
    PROVE  ReservedIsOwned'
<1>1. ASSUME UNCHANGED rows, Keeps PROVE ReservedIsOwned'
      BY <1>1 DEF rows, Keeps, ReservedIsOwned
<1>2. CASE UNCHANGED vars \/ Midnight
      BY <1>1, <1>2, HeldKept DEF vars, rows, Midnight
<1>3. ASSUME NEW c \in Calls, Step(c) \/ Crash(c) PROVE ReservedIsOwned'
  <2>1. /\ call[c].slug \in Accounts /\ Fleet \in Accounts
        /\ call[c].fleetDay \in Days \cup {NoDay}
        /\ call[c].tenantDay \in Days \cup {NoDay}
        /\ call[c].cost \in Nat /\ Costs \subseteq Nat
        BY CallFields, BudgetAssumption
  <2>2. /\ StakeOn(c, call[c].slug, call[c].tenantDay) = MaxOf(c)
        /\ StakeOn(c, Fleet, call[c].fleetDay) = MaxOf(c)
        BY DEF StakeOn
  <2>3. CASE ReserveTenant(c) \/ ReserveFleet(c)
        BY <1>1, <2>1, <2>3, HoldKeepsOwned, ReserveMoves
  <2>4. CASE Rollback(c)
        BY <2>1, <2>2, <2>4, RecordKeepsOwned, SettleMoves DEF Rollback, Release
  <2>5. CASE RecordFleet(c)
    <3>1. PICK k \in Costs : Record(Fleet, c, k, call[c].fleetDay)
          BY <2>5 DEF RecordFleet
    <3>. QED BY <2>1, <2>2, <2>5, <3>1, RecordKeepsOwned, SettleMoves DEF Record
  <2>6. CASE RecordTenant(c)
        BY <2>1, <2>2, <2>6, RecordKeepsOwned, SettleMoves DEF RecordTenant, Record
  <2>7. CASE ReleaseFleet(c)
        BY <2>1, <2>2, <2>7, RecordKeepsOwned, SettleMoves DEF ReleaseFleet, Release
  <2>8. CASE ReleaseTenant(c)
        BY <2>1, <2>2, <2>8, RecordKeepsOwned, SettleMoves DEF ReleaseTenant, Release
  <2>9. CASE Respond(c)
        BY <1>1, <2>9, SettleMoves DEF Respond
  <2>10. CASE ThrowUncaught(c) \/ Crash(c)
    <3>1. ASSUME NEW a \in Accounts, NEW d \in Days
          PROVE  row'[a][d].reserved <= held'[a][d] + orphaned'[a][d] + leaked'[a][d]
      <4>1. held'[a][d] = held[a][d] - StakeOn(c, a, d) /\ row' = row
            BY <2>10, SettleMoves DEF Drops, ThrowUncaught, Crash, Abandon
      <4>2. \/ orphaned' = WithStakes(orphaned, c) /\ leaked' = leaked
            \/ leaked' = WithStakes(leaked, c) /\ orphaned' = orphaned
            BY <2>10 DEF ThrowUncaught, Crash
      <4>3. /\ held[a][d] \in Nat /\ orphaned[a][d] \in Nat /\ leaked[a][d] \in Nat
            /\ row[a][d].reserved \in Nat /\ StakeOn(c, a, d) \in Nat
            BY StakeOnIsNat, HeldTyped DEF TypeOK, Row
      <4>4. orphaned'[a][d] + leaked'[a][d] = orphaned[a][d] + leaked[a][d] + StakeOn(c, a, d)
            BY <4>2, <4>3 DEF WithStakes
      <4>5. orphaned'[a][d] \in Nat /\ leaked'[a][d] \in Nat
            BY <4>2, <4>3 DEF WithStakes
      <4>. QED BY <4>1, <4>3, <4>4, <4>5 DEF ReservedIsOwned
    <3>. QED BY <3>1 DEF ReservedIsOwned, Accounts, Days
  <2>. QED BY <1>3, <2>3, <2>4, <2>5, <2>6, <2>7, <2>8, <2>9, <2>10 DEF Step
<1>. QED BY <1>2, <1>3 DEF Next
-----------------------------------------------------------------------------
(* ATTRIBUTION: the sums over the tenants' rows and over the fleet's. *)

\* The costs recorded on the fleet's row and not yet on a tenant's.
Pending(c) == IF call[c].pc = "fleetRecorded" THEN call[c].cost ELSE 0

AttributionCovered ==
    SpentOn(Slugs) + Total([c \in Calls |-> Pending(c)]) <= SpentOn({Fleet})

SumInv == IInv /\ ReservedIsOwned /\ AttributionCovered

SpentRow(A) == [p \in A \X Days |-> row[p[1]][p[2]].spent]
Pendings == [c \in Calls |-> Pending(c)]

\* The rows of finitely many accounts are finitely many.
LEMMA RowsFinite == IsFiniteSet(Slugs \X Days) /\ IsFiniteSet({Fleet} \X Days)
<1>1. IsFiniteSet(Days)
      BY FS_Interval, BudgetAssumption DEF Days
<1>2. IsFiniteSet(Slugs) /\ IsFiniteSet({Fleet})
      BY FS_Singleton, BudgetAssumption
<1>. QED BY <1>1, <1>2, FS_Product, Zenon

LEMMA SpendTyped ==
    ASSUME TypeOK, NEW A \in SUBSET Accounts
    PROVE  SpentRow(A) \in [A \X Days -> Nat]
BY DEF TypeOK, SpentRow, Row

LEMMA PendingTyped ==
    ASSUME TypeOK PROVE Pendings \in [Calls -> Nat]
BY CallFields DEF Pendings, Pending

\* Spend on one row of account a grows: so does the sum that counts it.
LEMMA SpendGrows ==
    ASSUME TypeOK, TypeOK', NEW a \in Accounts, NEW d \in Days, NEW k \in Nat,
           NEW A \in SUBSET Accounts, IsFiniteSet(A \X Days),
           \A b \in Accounts, e \in Days :
               row'[b][e].spent = IF b = a /\ e = d THEN row[b][e].spent + k
                                                    ELSE row[b][e].spent
    PROVE  /\ a \in A => SpentOn(A)' = SpentOn(A) + k
           /\ a \notin A => SpentOn(A)' = SpentOn(A)
<1>1. SpentRow(A) \in [A \X Days -> Nat] /\ SpentRow(A)' \in [A \X Days -> Nat]
      BY DEF TypeOK, SpentRow, Row
<1>2. SpentOn(A) = Total(SpentRow(A)) /\ SpentOn(A)' = Total(SpentRow(A)')
      BY DEF SpentOn, SpentRow, Total, Cents
<1>3. Total(SpentRow(A)) \in Nat
      BY <1>1, TotalIsNat
<1>4. CASE a \in A
  <2> DEFINE p == <<a, d>>
  <2>1. p \in A \X Days
        BY <1>4
  <2>2. SpentRow(A)'[p] = SpentRow(A)[p] + k
        BY <1>4 DEF SpentRow
  <2>3. \A q \in (A \X Days) \ {p} : SpentRow(A)'[q] = SpentRow(A)[q]
        BY DEF SpentRow
  <2>4. Total(SpentRow(A)') = Total(SpentRow(A)) - SpentRow(A)[p] + SpentRow(A)'[p]
        BY <1>1, <2>1, <2>3, TotalChange
  <2>5. SpentRow(A)[p] \in Nat
        BY <1>1, <2>1
  <2>. QED BY <1>2, <1>3, <1>4, <2>2, <2>4, <2>5
<1>5. CASE a \notin A
  <2>1. SpentRow(A)' = SpentRow(A)
        BY <1>5 DEF SpentRow
  <2>. QED BY <1>2, <1>3, <1>5, <2>1
<1>. QED BY <1>4, <1>5

\* The cost a request has yet to record on its tenant.
LEMMA PendingChange ==
    ASSUME TypeOK, TypeOK', NEW c \in Calls, Step(c) \/ Crash(c)
    PROVE  /\ Total(Pendings)' = Total(Pendings) - Pending(c) + Pending(c)'
           /\ Total(Pendings) \in Nat /\ Pending(c) \in Nat /\ Pending(c)' \in Nat
<1>1. Pendings \in [Calls -> Nat]
      BY PendingTyped
<1>2. \A e \in Calls : call'[e] \in CallRecord
      BY DEF TypeOK
<1>3. Pendings' \in [Calls -> Nat]
  <2>1. \A e \in Calls : call'[e].cost \in Costs \cup {0}
        BY <1>2 DEF CallRecord
  <2>2. Costs \cup {0} \subseteq Nat
        BY BudgetAssumption
  <2>. QED BY <2>1, <2>2 DEF Pendings, Pending
<1>4. \A e \in Calls \ {c} : Pendings'[e] = Pendings[e]
      BY CallChange DEF Pendings, Pending
<1>5. Total(Pendings') = Total(Pendings) - Pendings[c] + Pendings'[c]
      BY <1>1, <1>3, <1>4, TotalChange, BudgetAssumption
<1>6. Total(Pendings)' = Total(Pendings')
      BY DEF Total, Cents
<1>7. Total(Pendings) \in Nat
      BY <1>1, TotalIsNat, BudgetAssumption
<1>8. Pendings[c] = Pending(c) /\ Pendings'[c] = Pending(c)'
      BY DEF Pendings
<1>9. Pendings[c] \in Nat /\ Pendings'[c] \in Nat
      BY <1>1, <1>3
<1>. QED BY <1>5, <1>6, <1>7, <1>8, <1>9

\* Reservations, releases and crashes spend nothing.
LEMMA SpendKept ==
    ASSUME TypeOK, TypeOK', NEW A \in SUBSET Accounts,
           \A b \in Accounts, e \in Days : row'[b][e].spent = row[b][e].spent
    PROVE  SpentOn(A)' = SpentOn(A)
<1>1. SpentRow(A)' = SpentRow(A)
      BY DEF SpentRow
<1>2. SpentOn(A) = Total(SpentRow(A)) /\ SpentOn(A)' = Total(SpentRow(A)')
      BY DEF SpentOn, SpentRow, Total, Cents
<1>. QED BY <1>1, <1>2

\* What a settlement writes into the spent column.
LEMMA RecordSpends ==
    ASSUME TypeOK, NEW c \in Calls, NEW a \in Accounts, NEW k \in Nat,
           row' = [row EXCEPT ![a][day] = Recorded(@, MaxOf(c), k)]
    PROVE  \A b \in Accounts, e \in Days :
               row'[b][e].spent = IF b = a /\ e = day THEN row[b][e].spent + k
                                                      ELSE row[b][e].spent
BY DEF TypeOK, Row, Recorded

\* ATTRIBUTION is inductive once the pending costs are counted with the tenants'.
LEMMA AttributionStep ==
    ASSUME TypeOK, TypeOK', AttributionCovered, [Next]_vars
    PROVE  AttributionCovered'
<1> USE DEF Pendings
<1>0. /\ IsFiniteSet(Slugs \X Days) /\ IsFiniteSet({Fleet} \X Days)
      /\ Slugs \in SUBSET Accounts /\ {Fleet} \in SUBSET Accounts
      /\ Fleet \notin Slugs /\ Fleet \in Accounts
      BY RowsFinite, BudgetAssumption DEF Accounts
<1>1. SpentOn(Slugs) \in Nat /\ SpentOn({Fleet}) \in Nat
      BY <1>0, SpendTyped, TotalIsNat DEF SpentOn, SpentRow
<1>2. ASSUME UNCHANGED <<row, call>> PROVE AttributionCovered'
      BY <1>2 DEF AttributionCovered, SpentOn, Pending, Total, Cents
<1>3. CASE UNCHANGED vars \/ Midnight
      BY <1>2, <1>3 DEF vars, rows, Midnight
<1>4. ASSUME NEW c \in Calls, Step(c) \/ Crash(c) PROVE AttributionCovered'
  <2>1. /\ Total(Pendings)' = Total(Pendings) - Pending(c) + Pending(c)'
        /\ Total(Pendings) \in Nat /\ Pending(c) \in Nat /\ Pending(c)' \in Nat
        BY <1>4, PendingChange
  <2>2. SpentOn(Slugs) + Total(Pendings) <= SpentOn({Fleet})
        BY DEF AttributionCovered
  <2> HIDE DEF Pendings
  <2>3. ASSUME \A b \in Accounts, e \in Days : row'[b][e].spent = row[b][e].spent,
               Pending(c)' <= Pending(c)
        PROVE  SpentOn(Slugs)' + Total(Pendings)' <= SpentOn({Fleet})'
    <3>1. SpentOn(Slugs)' = SpentOn(Slugs) /\ SpentOn({Fleet})' = SpentOn({Fleet})
          BY <1>0, <2>3, SpendKept
    <3>. QED BY <1>1, <2>1, <2>2, <2>3, <3>1
  <2>4. /\ call \in [Calls -> CallRecord] /\ day \in Days
        /\ row \in [Accounts -> [Days -> Row]]
        /\ call[c].slug \in Slugs /\ call[c].slug \in Accounts /\ call[c].cost \in Nat
        BY CallFields DEF TypeOK
  <2>5. SpentOn(Slugs)' + Total(Pendings)' <= SpentOn({Fleet})'
    <3>1. CASE RecordFleet(c)
      <4>1. PICK k \in Costs :
               /\ row' = [row EXCEPT ![Fleet][day] = Recorded(@, MaxOf(c), k)]
               /\ call' = [call EXCEPT
                     ![c].pc = IF call[c].kind = "fleet" THEN "settled"
                                                          ELSE "fleetRecorded",
                     ![c].fleetDay = NoDay, ![c].cost = k]
            BY <3>1 DEF RecordFleet, Record
      <4>2. k \in Nat
            BY BudgetAssumption
      <4>3. \A b \in Accounts, e \in Days :
               row'[b][e].spent = IF b = Fleet /\ e = day THEN row[b][e].spent + k
                                                          ELSE row[b][e].spent
            BY <1>0, <4>1, <4>2, RecordSpends
      <4>4. SpentOn(Slugs)' = SpentOn(Slugs)
            BY <1>0, <2>4, <4>2, <4>3, SpendGrows
      <4>5. SpentOn({Fleet})' = SpentOn({Fleet}) + k
            BY <1>0, <2>4, <4>2, <4>3, SpendGrows
      <4>6. Pending(c) = 0 /\ Pending(c)' <= k
            BY <2>4, <3>1, <4>1, <4>2 DEF RecordFleet, Pending, CallRecord
      <4>. QED BY <1>1, <2>1, <2>2, <4>2, <4>4, <4>5, <4>6
    <3>2. CASE RecordTenant(c)
      <4>1. PICK s \in Slugs, k \in Nat :
               /\ s = call[c].slug /\ k = call[c].cost
               /\ row' = [row EXCEPT ![s][day] = Recorded(@, MaxOf(c), k)]
               /\ call' = [call EXCEPT ![c].pc = "settled", ![c].tenantDay = NoDay]
               /\ call[c].pc = "fleetRecorded"
            BY <2>4, <3>2 DEF RecordTenant, Record
      <4>2. s \in Accounts /\ s \notin {Fleet}
            BY <1>0
      <4>3. \A b \in Accounts, e \in Days :
               row'[b][e].spent = IF b = s /\ e = day THEN row[b][e].spent + k
                                                      ELSE row[b][e].spent
            BY <4>1, <4>2, RecordSpends
      <4>4. SpentOn(Slugs)' = SpentOn(Slugs) + k
            BY <1>0, <2>4, <4>2, <4>3, SpendGrows
      <4>5. SpentOn({Fleet})' = SpentOn({Fleet})
        <5>1. PICK A : A = {Fleet}
              OBVIOUS
        <5>2. /\ A \in SUBSET Accounts /\ IsFiniteSet(A \X Days) /\ s \notin A
              /\ SpentOn(A) \in Nat
              BY <1>0, <1>1, <4>2, <5>1, Zenon
        <5>3. SpentOn(A)' = SpentOn(A)
              BY <2>4, <4>2, <4>3, <5>2, SpendGrows
        <5>. QED BY <5>1, <5>3
      <4>6. Pending(c) = k /\ Pending(c)' = 0
            BY <2>4, <4>1 DEF Pending, CallRecord
      <4>. QED BY <1>1, <2>1, <2>2, <4>2, <4>4, <4>5, <4>6
    <3>3. CASE ReserveTenant(c) \/ ReserveFleet(c)
      <4>1. row' = row \/ \E a \in Accounts :
               row' = [row EXCEPT ![a][day] = Reserved(@, MaxOf(c))]
            BY <1>0, <2>4, <3>3 DEF ReserveTenant, ReserveFleet, Hold, rows
      <4>2. \A b \in Accounts, e \in Days : row'[b][e].spent = row[b][e].spent
            BY <2>4, <4>1 DEF Reserved
      <4>3. call'[c].pc # "fleetRecorded"
            BY <2>4, <3>3 DEF ReserveTenant, ReserveFleet, Move, CallRecord
      <4>4. Pending(c)' <= Pending(c)
            BY <2>1, <4>3 DEF Pending
      <4>. QED BY <2>3, <4>2, <4>4
    <3>4. CASE \/ Rollback(c) \/ ReleaseFleet(c) \/ ReleaseTenant(c)
               \/ Respond(c) \/ ThrowUncaught(c) \/ Crash(c)
      <4>1. row' = row \/ \E a \in Accounts :
               row' = [row EXCEPT ![a][day] = Released(@, MaxOf(c))]
            BY <1>0, <2>4, <3>4
            DEF Rollback, ReleaseFleet, ReleaseTenant, Respond, ThrowUncaught, Crash,
                Abandon, Release, rows
      <4>2. \A b \in Accounts, e \in Days : row'[b][e].spent = row[b][e].spent
            BY <2>4, <4>1 DEF Released
      <4>3. call'[c].pc # "fleetRecorded"
            BY <2>4, <3>4
            DEF Rollback, ReleaseFleet, ReleaseTenant, Respond, ThrowUncaught, Crash,
                Abandon, Move, CallRecord
      <4>4. Pending(c)' <= Pending(c)
            BY <2>1, <4>3 DEF Pending
      <4>. QED BY <2>3, <4>2, <4>4
    <3>. QED BY <1>4, <3>1, <3>2, <3>3, <3>4 DEF Step
  <2>. QED BY <2>5 DEF AttributionCovered, Pendings
<1>. QED BY <1>3, <1>4 DEF Next

LEMMA InitSumInv == ASSUME Init PROVE SumInv
<1>1. IInv
      BY InitIInv
<1>2. ReservedIsOwned
      BY HeldAtFirst DEF Init, ReservedIsOwned, FreshRow, Zero
<1>3. AttributionCovered
  <2>1. ASSUME NEW A \in SUBSET Accounts PROVE SpentOn(A) = 0
        BY TotalOfZeros DEF Init, SpentOn, FreshRow
  <2>2. SpentOn(Slugs) = 0 /\ SpentOn({Fleet}) = 0
        BY <2>1 DEF Accounts
  <2>3. \A c \in Calls : Pending(c) = 0
        BY DEF Init, Pending
  <2>4. Total([c \in Calls |-> Pending(c)]) = 0
        BY <2>3, TotalOfZeros
  <2>. QED BY <2>2, <2>4 DEF AttributionCovered
<1>. QED BY <1>1, <1>2, <1>3 DEF SumInv

LEMMA NextSumInv == ASSUME SumInv, [Next]_vars PROVE SumInv'
<1>1. IInv /\ IInv'
      BY NextIInv DEF SumInv
<1>2. TypeOK /\ TypeOK' /\ Stages
      BY <1>1 DEF IInv
<1>3. ReservedIsOwned' /\ AttributionCovered'
      BY <1>2, OwnedStep, AttributionStep DEF SumInv
<1>. QED BY <1>1, <1>3 DEF SumInv

LEMMA SumInvAttributes == ASSUME SumInv PROVE AttributedWithinFleet
<1>1. /\ IsFiniteSet(Slugs \X Days) /\ IsFiniteSet({Fleet} \X Days)
      /\ Slugs \in SUBSET Accounts /\ {Fleet} \in SUBSET Accounts
      BY RowsFinite DEF Accounts
<1>2. SpentOn(Slugs) \in Nat /\ SpentOn({Fleet}) \in Nat
      BY <1>1, SpendTyped, TotalIsNat DEF SpentOn, SpentRow, SumInv, IInv
<1>3. Total([c \in Calls |-> Pending(c)]) \in Nat
      BY PendingTyped, TotalIsNat, BudgetAssumption DEF Pendings, SumInv, IInv
<1>. QED BY <1>2, <1>3 DEF SumInv, AttributionCovered, AttributedWithinFleet

\* OWNERSHIP, for any number of requests, tenants and days: every reserved cent of
\* a row is the stake of a request in flight, or was stranded by a crash, by
\* midnight or by the handler that throws between its paid call and its records.
THEOREM BudgetReservedIsOwned == Spec => []ReservedIsOwned
<1>. QED BY InitSumInv, NextSumInv, PTL DEF Spec, SumInv

\* The tenants' spend never adds up to more than the fleet's, whichever half of a
\* settlement a crash or midnight cuts off.
THEOREM BudgetAttributedWithinFleet == Spec => []AttributedWithinFleet
<1>. QED BY InitSumInv, NextSumInv, SumInvAttributes, PTL DEF Spec
-----------------------------------------------------------------------------
(* McpGate: the invariant that its promises need. *)

Numbers == 1 .. Len(log)

\* The checks limiter l made of client c.
Of(i, l, c) == log[i].by = l /\ log[i].ip = c

\* What a limiter counts for a client are requests it admitted since it last
\* forgot it.
KeptAdmitted ==
    \A l \in Limiters, c \in Ips : \A i \in hits[l][c].kept :
        /\ i \in Numbers /\ Of(i, l, c)
        /\ log[i].ok /\ log[i].life = life[l][c]

\* And every such request younger than a window is counted.
YoungKept ==
    \A l \in Limiters, c \in Ips : \A i \in Numbers :
        /\ Of(i, l, c) /\ log[i].ok /\ log[i].life = life[l][c]
        /\ log[i].at > now - Window
        => i \in hits[l][c].kept

\* No limiter counts more than its limit.
KeptBounded ==
    \A l \in Limiters, c \in Ips : Cardinality(hits[l][c].kept) <= Limit

\* A client in the map has its place from its last check.
PlaceIsLast ==
    \A l \in Limiters, c \in Ips : hits[l][c].touched > 0 =>
        /\ hits[l][c].touched \in Numbers
        /\ Of(hits[l][c].touched, l, c)
        /\ \A i \in Numbers : Of(i, l, c) => i <= hits[l][c].touched

\* A client out of the map starts a life no check belongs to.
LivesAscend ==
    /\ \A i \in Numbers : log[i].life <= life[log[i].by][log[i].ip]
    /\ \A l \in Limiters, c \in Ips : hits[l][c].touched = 0 =>
          /\ hits[l][c].kept = {}
          /\ \A i \in Numbers : Of(i, l, c) => log[i].life < life[l][c]

\* The log is written in the order of the clock.
TimesAscend ==
    /\ \A i \in Numbers : log[i].at <= now
    /\ \A i, j \in Numbers : i <= j => log[i].at <= log[j].at

\* As long as nothing was admitted since a refusal, fewer than Limit requests are
\* counted that will still be young when the wait is over.
WaitFrees ==
    \A i \in Numbers :
        LET l == log[i].by
            c == log[i].ip
        IN /\ ~ log[i].ok
           /\ \A k \in Numbers : k > i /\ Of(k, l, c) => ~ log[k].ok
           => Cardinality({k \in hits[l][c].kept :
                              log[k].at + Window > log[i].at + log[i].wait}) < Limit

GateInv ==
    /\ GateTypeOK
    /\ KeptAdmitted /\ YoungKept /\ KeptBounded
    /\ PlaceIsLast /\ LivesAscend /\ TimesAscend
    /\ WaitFrees
    /\ WindowBound /\ RefusalEarned /\ RetryAfterSuffices

\* What a check does: how it answers, what it counts, whom it pushes out.
Counted(l, c, ok) == IF ok THEN Recent(l, c) \cup {Len(log) + 1} ELSE Recent(l, c)

Outcome(l, c, ok, wait, gone) ==
    /\ ok = (Cardinality(Recent(l, c)) < Limit)
    /\ ~ ok => \E oldest \in Recent(l, c) :
                  /\ \A i \in Recent(l, c) : oldest <= i
                  /\ wait = log[oldest].at + Window - now
    /\ gone = IF ok THEN Evicted(Touched(hits[l], c, Counted(l, c, ok))) ELSE {}
    /\ Forget(l, Touched(hits[l], c, Counted(l, c, ok)), gone)
    /\ Logged(l, c, ok, wait)

\* The effect of an outcome, entry by entry.
Effect(l, c, ok, wait, gone) ==
    /\ Len(log) \in Nat /\ Len(log') = Len(log) + 1 /\ log' \in Seq(Check)
    /\ \A i \in Numbers : log'[i] = log[i]
    /\ log'[Len(log) + 1] = [ip |-> c, at |-> now, by |-> l, life |-> life[l][c],
                            ok |-> ok, wait |-> wait]
    /\ hits' \in [Limiters -> [Ips -> Entry]] /\ life' \in [Limiters -> [Ips -> Nat]]
    /\ \A m \in Limiters, d \in Ips : ~ (m = l /\ (d = c \/ d \in gone)) =>
          hits'[m][d] = hits[m][d] /\ life'[m][d] = life[m][d]
    /\ \A d \in gone : hits'[l][d] = Absent /\ life'[l][d] = life[l][d] + 1
    /\ c \notin gone
    /\ hits'[l][c].kept = Counted(l, c, ok) /\ hits'[l][c].touched = Len(log) + 1
    /\ life'[l][c] = life[l][c]

\* The constants, and a limiter's entry for a client.
LEMMA GateConstants ==
    /\ Limit \in Nat /\ Limit > 0 /\ Window \in Nat /\ Window > 0
    /\ MaxIps \in Nat /\ MaxIps > 0 /\ MaxTime \in Nat
    /\ IsFiniteSet(Ips) /\ Global \in Limiters
BY McpGateAssumption DEF Limiters

LEMMA LogEntry ==
    ASSUME GateTypeOK, NEW i \in Numbers
    PROVE  /\ log[i].ip \in Ips /\ log[i].by \in Limiters /\ log[i].at \in Nat
           /\ log[i].life \in Nat /\ log[i].ok \in BOOLEAN /\ log[i].wait \in Nat
<1>1. log[i] \in Check
      BY DEF GateTypeOK, Numbers
<1>. QED BY <1>1, McpGateAssumption DEF Check, Times

\* The checks made so far, and those after the next, are finitely many.
LEMMA NumbersFinite ==
    ASSUME NEW n \in Nat
    PROVE  IsFiniteSet(1 .. n)
BY FS_Interval

\* One element more is at most one more to count.
LEMMA AddOne ==
    ASSUME NEW S, IsFiniteSet(S), NEW x
    PROVE  /\ IsFiniteSet(S \cup {x}) /\ Cardinality(S \cup {x}) \in Nat
           /\ Cardinality(S \cup {x}) <= Cardinality(S) + 1
<1>1. /\ IsFiniteSet(S \cup {x})
      /\ Cardinality(S \cup {x}) = IF x \in S THEN Cardinality(S) ELSE Cardinality(S) + 1
      BY FS_AddElement, Zenon
<1>2. Cardinality(S) \in Nat /\ Cardinality(S \cup {x}) \in Nat
      BY <1>1, FS_CardinalityType
<1>. QED BY <1>1, <1>2

\* Finitely many checks are counted.
LEMMA KeptFinite ==
    ASSUME GateTypeOK, KeptAdmitted, NEW l \in Limiters, NEW c \in Ips
    PROVE  /\ IsFiniteSet(hits[l][c].kept) /\ IsFiniteSet(Recent(l, c))
           /\ hits[l][c].kept \subseteq Numbers /\ Recent(l, c) \subseteq hits[l][c].kept
           /\ Cardinality(hits[l][c].kept) \in Nat /\ Cardinality(Recent(l, c)) \in Nat
           /\ Cardinality(Recent(l, c)) <= Cardinality(hits[l][c].kept)
<1>1. Len(log) \in Nat
      BY DEF GateTypeOK
<1>2. IsFiniteSet(Numbers)
      BY <1>1, NumbersFinite DEF Numbers
<1>3. hits[l][c].kept \subseteq Numbers /\ Recent(l, c) \subseteq hits[l][c].kept
      BY DEF KeptAdmitted, Recent
<1>4. IsFiniteSet(hits[l][c].kept)
      BY <1>2, <1>3, FS_Subset
<1>5. IsFiniteSet(Recent(l, c)) /\ Cardinality(Recent(l, c)) <= Cardinality(hits[l][c].kept)
      BY <1>3, <1>4, FS_Subset
<1>. QED BY <1>3, <1>4, <1>5, FS_CardinalityType

\* A decision is an outcome.
LEMMA DecideIsOutcome ==
    ASSUME GateTypeOK, KeptAdmitted, NEW l \in Limiters, NEW c \in Ips, Decide(l, c)
    PROVE  \E ok \in BOOLEAN, wait \in Nat, gone \in SUBSET Ips :
               Outcome(l, c, ok, wait, gone)
<1>0. Cardinality(Recent(l, c)) \in Nat /\ Limit \in Nat
      BY KeptFinite, GateConstants
<1>1. CASE Admit(l, c)
  <2> DEFINE gone == Evicted(Touched(hits[l], c, Counted(l, c, TRUE)))
  <2>1. gone \in SUBSET Ips
        BY DEF Evicted, Present
  <2>2. Outcome(l, c, TRUE, 0, gone)
        BY <1>1 DEF Admit, Outcome, Counted
  <2>. QED BY <2>1, <2>2
<1>2. CASE Refuse(l, c)
  <2>1. PICK oldest \in Recent(l, c) :
           /\ \A i \in Recent(l, c) : oldest <= i
           /\ Logged(l, c, FALSE, log[oldest].at + Window - now)
        BY <1>2 DEF Refuse
  <2>2. oldest \in Numbers /\ log[oldest].at > now - Window
        BY KeptFinite DEF Recent
  <2>3. log[oldest].at + Window - now \in Nat
        BY <2>2, LogEntry, GateConstants DEF GateTypeOK, Times
  <2>4. ~ (Cardinality(Recent(l, c)) < Limit)
        BY <1>0, <1>2 DEF Refuse
  <2>5. Outcome(l, c, FALSE, log[oldest].at + Window - now, {})
    <3> DEFINE w == log[oldest].at + Window - now
    <3>1. Forget(l, Touched(hits[l], c, Counted(l, c, FALSE)), {})
          BY <1>2 DEF Refuse, Counted
    <3>2. FALSE = (Cardinality(Recent(l, c)) < Limit)
          BY <2>4
    <3>3. \E o \in Recent(l, c) : /\ \A i \in Recent(l, c) : o <= i
                                  /\ w = log[o].at + Window - now
          BY <2>1
    <3>4. Logged(l, c, FALSE, w)
          BY <2>1
    <3> HIDE DEF w
    <3>5. Outcome(l, c, FALSE, w, {})
          BY <3>1, <3>2, <3>3, <3>4, Zenon DEF Outcome
    <3>. QED BY <3>5 DEF w
  <2>. QED BY <2>3, <2>5
<1>. QED BY <1>1, <1>2 DEF Decide

\* Every outcome has this effect; the client asked about is never pushed out.
LEMMA OutcomeEffect ==
    ASSUME GateTypeOK, KeptAdmitted, PlaceIsLast, NEW l \in Limiters, NEW c \in Ips,
           NEW ok \in BOOLEAN, NEW wait \in Nat, NEW gone \in SUBSET Ips,
           Outcome(l, c, ok, wait, gone)
    PROVE  Effect(l, c, ok, wait, gone)
<1> DEFINE new == [ip |-> c, at |-> now, by |-> l, life |-> life[l][c],
                   ok |-> ok, wait |-> wait]
           map == Touched(hits[l], c, Counted(l, c, ok))
<1>1. /\ log \in Seq(Check) /\ hits \in [Limiters -> [Ips -> Entry]]
      /\ life \in [Limiters -> [Ips -> Nat]] /\ Len(log) \in Nat
      BY DEF GateTypeOK
<1>2. new \in Check
      BY <1>1 DEF Check, GateTypeOK
<1>3. log' = Append(log, new)
      BY DEF Outcome, Logged
<1>4. /\ Len(log') = Len(log) + 1 /\ log' \in Seq(Check)
      /\ \A i \in Numbers : log'[i] = log[i]
      /\ log'[Len(log) + 1] = new
      BY <1>1, <1>2, <1>3 DEF Numbers
<1>5. Counted(l, c, ok) \in SUBSET Nat
  <2>1. Recent(l, c) \subseteq Numbers
        BY KeptFinite
  <2>. QED BY <1>1, <2>1 DEF Counted, Numbers
<1>6. /\ map \in [Ips -> Entry]
      /\ map[c] = [kept |-> Counted(l, c, ok), touched |-> Len(log) + 1]
      /\ \A d \in Ips \ {c} : map[d] = hits[l][d]
      BY <1>1, <1>5 DEF Touched, Entry
<1>7. c \notin gone
  <2>1. SUFFICES ASSUME c \in gone PROVE FALSE
        OBVIOUS
  <2>2. /\ c \in Present(map) /\ Cardinality(Present(map)) > MaxIps
        /\ \A d \in Present(map) : map[c].touched <= map[d].touched
        BY <2>1 DEF Outcome, Evicted
  <2>3. Present(map) # {c}
    <3>1. Cardinality({c}) = 1
          BY FS_Singleton, Zenon
    <3>. QED BY <2>2, <3>1, GateConstants
  <2>4. PICK d \in Present(map) : d # c
        BY <2>2, <2>3
  <2>5. d \in Ips \ {c} /\ hits[l][d].touched > 0 /\ map[d].touched = hits[l][d].touched
        BY <1>6, <2>4 DEF Present
  <2>6. hits[l][d].touched \in Numbers
        BY <2>5 DEF PlaceIsLast
  <2>. QED BY <1>1, <1>6, <2>2, <2>4, <2>5, <2>6 DEF Numbers
<1> HIDE DEF map
<1>8. /\ hits' = [hits EXCEPT ![l] = [d \in Ips |-> IF d \in gone THEN Absent ELSE map[d]]]
      /\ life' = [life EXCEPT ![l] = [d \in Ips |-> IF d \in gone THEN @[d] + 1 ELSE @[d]]]
      BY DEF Outcome, Forget, map
<1>9. hits' \in [Limiters -> [Ips -> Entry]] /\ life' \in [Limiters -> [Ips -> Nat]]
  <2>1. Absent \in Entry
        BY DEF Absent, Entry
  <2>. QED BY <1>1, <1>6, <1>8, <2>1
<1>10. \A m \in Limiters, d \in Ips : ~ (m = l /\ (d = c \/ d \in gone)) =>
          hits'[m][d] = hits[m][d] /\ life'[m][d] = life[m][d]
       BY <1>1, <1>6, <1>8
<1>11. \A d \in gone : hits'[l][d] = Absent /\ life'[l][d] = life[l][d] + 1
       BY <1>1, <1>8
<1>12. /\ hits'[l][c].kept = Counted(l, c, ok) /\ hits'[l][c].touched = Len(log) + 1
       /\ life'[l][c] = life[l][c]
       BY <1>1, <1>6, <1>7, <1>8
<1>. QED BY <1>1, <1>4, <1>7, <1>9, <1>10, <1>11, <1>12 DEF Effect
-----------------------------------------------------------------------------
(* What one check preserves. *)

\* The entries an outcome leaves alone.
Apart(m, d, l, c, gone) == ~ (m = l /\ (d = c \/ d \in gone))

\* The entry a check adds to the log.
Written(l, c, ok, wait) ==
    [ip |-> c, at |-> now, by |-> l, life |-> life[l][c], ok |-> ok, wait |-> wait]

LEMMA EffectLog ==
    ASSUME NEW l, NEW c, NEW ok, NEW wait, NEW gone, Effect(l, c, ok, wait, gone),
           NEW i \in Numbers'
    PROVE  \/ i \in Numbers /\ log'[i] = log[i] /\ i < Len(log) + 1
           \/ i = Len(log) + 1 /\ i \notin Numbers /\ log'[i] = Written(l, c, ok, wait)
BY DEF Effect, Numbers, Written

LEMMA CheckKeptAdmitted ==
    ASSUME GateInv, NEW l \in Limiters, NEW c \in Ips, NEW ok \in BOOLEAN,
           NEW wait \in Nat, NEW gone \in SUBSET Ips, Effect(l, c, ok, wait, gone)
    PROVE  KeptAdmitted'
<1> SUFFICES ASSUME NEW m \in Limiters, NEW d \in Ips, NEW i \in hits'[m][d].kept
             PROVE  /\ i \in Numbers' /\ Of(i, m, d)'
                    /\ log'[i].ok /\ log'[i].life = life'[m][d]
    BY DEF KeptAdmitted
<1>1. GateTypeOK /\ KeptAdmitted
      BY DEF GateInv
<1>2. Numbers \subseteq Numbers' /\ Len(log) + 1 \in Numbers'
      BY DEF Effect, Numbers
<1>3. ASSUME i \in hits[m][d].kept, life'[m][d] = life[m][d]
      PROVE  /\ i \in Numbers' /\ Of(i, m, d)'
             /\ log'[i].ok /\ log'[i].life = life'[m][d]
  <2>1. /\ i \in Numbers /\ Of(i, m, d)
        /\ log[i].ok /\ log[i].life = life[m][d]
        BY <1>1, <1>3, Zenon DEF KeptAdmitted
  <2>2. log'[i] = log[i]
        BY <2>1 DEF Effect
  <2>3. Of(i, m, d)'
        BY <2>1, <2>2 DEF Of
  <2>. QED BY <1>2, <1>3, <2>1, <2>2, <2>3, Zenon
<1>4. CASE Apart(m, d, l, c, gone)
      BY <1>3, <1>4 DEF Effect, Apart
<1>5. CASE m = l /\ d \in gone
      BY <1>5 DEF Effect, Absent
<1>6. CASE m = l /\ d = c
  <2>1. i \in Recent(l, c) \/ (i = Len(log) + 1 /\ ok)
        BY <1>6 DEF Effect, Counted
  <2>2. CASE i \in Recent(l, c)
        BY <1>3, <1>6, <2>2 DEF Recent, Effect
  <2>3. CASE i = Len(log) + 1 /\ ok
        BY <1>2, <1>6, <2>3 DEF Effect, Of
  <2>. QED BY <2>1, <2>2, <2>3
<1>. QED BY <1>4, <1>5, <1>6 DEF Apart

LEMMA CheckYoungKept ==
    ASSUME GateInv, NEW l \in Limiters, NEW c \in Ips, NEW ok \in BOOLEAN,
           NEW wait \in Nat, NEW gone \in SUBSET Ips, Effect(l, c, ok, wait, gone),
           now' = now
    PROVE  YoungKept'
<1> SUFFICES ASSUME NEW m \in Limiters, NEW d \in Ips, NEW i \in Numbers',
                    Of(i, m, d)', log'[i].ok, log'[i].life = life'[m][d],
                    log'[i].at > now - Window
             PROVE  i \in hits'[m][d].kept
    BY DEF YoungKept
<1>1. GateTypeOK /\ YoungKept /\ LivesAscend
      BY DEF GateInv
<1>2. \/ i \in Numbers /\ log'[i] = log[i]
      \/ i = Len(log) + 1 /\ log'[i] = Written(l, c, ok, wait)
      BY EffectLog, Zenon
<1>3. CASE i \in Numbers /\ log'[i] = log[i]
  <2>1. Of(i, m, d)
        BY <1>3 DEF Of
  <2>2. ASSUME life'[m][d] = life[m][d] PROVE i \in hits[m][d].kept
        BY <1>1, <1>3, <2>1, <2>2 DEF YoungKept
  <2>3. CASE Apart(m, d, l, c, gone)
        BY <2>2, <2>3 DEF Effect, Apart
  <2>4. CASE m = l /\ d \in gone
    <3>1. log[i].life <= life[m][d] /\ log[i].life \in Nat /\ life[m][d] \in Nat
          BY <1>1, <1>3, <2>1, LogEntry DEF LivesAscend, Of, GateTypeOK
    <3>2. life'[m][d] = life[m][d] + 1
          BY <2>4 DEF Effect
    <3>. QED BY <1>3, <3>1, <3>2
  <2>5. CASE m = l /\ d = c
        BY <1>3, <2>2, <2>5 DEF Effect, Counted, Recent
  <2>. QED BY <2>3, <2>4, <2>5 DEF Apart
<1>4. CASE i = Len(log) + 1 /\ log'[i] = Written(l, c, ok, wait)
      BY <1>4 DEF Effect, Counted, Of, Written
<1>. QED BY <1>2, <1>3, <1>4

LEMMA CheckKeptBounded ==
    ASSUME GateInv, NEW l \in Limiters, NEW c \in Ips, NEW ok \in BOOLEAN,
           NEW wait \in Nat, NEW gone \in SUBSET Ips,
           Outcome(l, c, ok, wait, gone), Effect(l, c, ok, wait, gone)
    PROVE  KeptBounded'
<1>1. GateTypeOK /\ KeptAdmitted /\ KeptBounded
      BY DEF GateInv
<1>2. Cardinality(Counted(l, c, ok)) <= Limit
  <2>1. /\ IsFiniteSet(Recent(l, c)) /\ Cardinality(Recent(l, c)) \in Nat
        /\ Cardinality(Recent(l, c)) <= Cardinality(hits[l][c].kept)
        /\ Cardinality(hits[l][c].kept) \in Nat
        BY <1>1, KeptFinite
  <2>2. CASE ok
    <3>1. /\ Cardinality(Recent(l, c) \cup {Len(log) + 1}) <= Cardinality(Recent(l, c)) + 1
          /\ Cardinality(Recent(l, c) \cup {Len(log) + 1}) \in Nat
          BY <2>1, AddOne
    <3>3. Cardinality(Recent(l, c)) < Limit
          BY <2>2 DEF Outcome
    <3>. QED BY <2>1, <2>2, <3>1, <3>3, GateConstants DEF Counted
  <2>3. CASE ~ ok
        BY <1>1, <2>1, <2>3, GateConstants DEF Counted, KeptBounded
  <2>. QED BY <2>2, <2>3
<1>3. ASSUME NEW m \in Limiters, NEW d \in Ips
      PROVE  Cardinality(hits'[m][d].kept) <= Limit
  <2>1. CASE Apart(m, d, l, c, gone)
        BY <1>1, <2>1 DEF Effect, Apart, KeptBounded
  <2>2. CASE m = l /\ d \in gone
    <3>1. Cardinality({}) = 0
          BY FS_EmptySet
    <3>2. hits'[m][d].kept = {}
          BY <2>2 DEF Effect, Absent
    <3>. QED BY <3>1, <3>2, GateConstants
  <2>3. CASE m = l /\ d = c
        BY <1>2, <2>3 DEF Effect
  <2>. QED BY <2>1, <2>2, <2>3 DEF Apart
<1>. QED BY <1>3 DEF KeptBounded

LEMMA CheckPlaceIsLast ==
    ASSUME GateInv, NEW l \in Limiters, NEW c \in Ips, NEW ok \in BOOLEAN,
           NEW wait \in Nat, NEW gone \in SUBSET Ips, Effect(l, c, ok, wait, gone)
    PROVE  PlaceIsLast'
<1> SUFFICES ASSUME NEW m \in Limiters, NEW d \in Ips, hits'[m][d].touched > 0
             PROVE  LET t == hits'[m][d].touched
                    IN /\ t \in Numbers' /\ log'[t].by = m /\ log'[t].ip = d
                       /\ \A i \in Numbers' : log'[i].by = m /\ log'[i].ip = d => i <= t
    BY DEF PlaceIsLast, Of
<1>1. GateTypeOK /\ PlaceIsLast
      BY DEF GateInv
<1>2. Numbers \subseteq Numbers' /\ Len(log) + 1 \in Numbers'
      BY DEF Effect, Numbers
<1>3. CASE Apart(m, d, l, c, gone)
  <2>1. PICK t : t = hits[m][d].touched
        OBVIOUS
  <2>2. hits'[m][d].touched = t
        BY <1>3, <2>1 DEF Effect, Apart
  <2>3. /\ t \in Numbers /\ log[t].by = m /\ log[t].ip = d
        /\ \A i \in Numbers : log[i].by = m /\ log[i].ip = d => i <= t
        BY <1>1, <2>1, <2>2 DEF PlaceIsLast, Of
  <2>4. ASSUME NEW i \in Numbers', log'[i].by = m, log'[i].ip = d PROVE i <= t
    <3>1. ~ (m = l /\ d = c)
          BY <1>3 DEF Apart
    <3>2. ~ log'[i] = Written(l, c, ok, wait)
          BY <2>4, <3>1 DEF Written
    <3>3. i \in Numbers /\ log'[i] = log[i]
          BY <3>2, EffectLog, Zenon
    <3>. QED BY <2>3, <2>4, <3>3
  <2>5. log'[t] = log[t]
        BY <2>3 DEF Effect
  <2>. QED BY <1>2, <2>2, <2>3, <2>4, <2>5
<1>4. CASE m = l /\ d \in gone
      BY <1>4 DEF Effect, Absent
<1>5. CASE m = l /\ d = c
  <2>1. hits'[m][d].touched = Len(log) + 1
        BY <1>5 DEF Effect
  <2>2. log'[Len(log) + 1].by = m /\ log'[Len(log) + 1].ip = d
        BY <1>5 DEF Effect
  <2>3. \A i \in Numbers' : i <= Len(log) + 1
        BY DEF Effect, Numbers
  <2>. QED BY <1>2, <2>1, <2>2, <2>3
<1>. QED BY <1>3, <1>4, <1>5 DEF Apart

LEMMA CheckLivesAscend ==
    ASSUME GateInv, NEW l \in Limiters, NEW c \in Ips, NEW ok \in BOOLEAN,
           NEW wait \in Nat, NEW gone \in SUBSET Ips, Effect(l, c, ok, wait, gone)
    PROVE  LivesAscend'
<1>1. GateTypeOK /\ LivesAscend
      BY DEF GateInv
<1>2. \A m \in Limiters, d \in Ips : life[m][d] \in Nat /\ life[m][d] <= life'[m][d]
  <2>1. ASSUME NEW m \in Limiters, NEW d \in Ips
        PROVE  /\ life[m][d] \in Nat
               /\ life'[m][d] = life[m][d] \/ life'[m][d] = life[m][d] + 1
    <3>1. life[m][d] \in Nat
          BY <1>1 DEF GateTypeOK
    <3>2. CASE Apart(m, d, l, c, gone)
          BY <3>1, <3>2 DEF Effect, Apart
    <3>3. CASE ~ Apart(m, d, l, c, gone)
          BY <3>1, <3>3 DEF Effect, Apart
    <3>. QED BY <3>1, <3>2, <3>3
  <2>. QED BY <2>1
<1>3. ASSUME NEW i \in Numbers'
      PROVE  log'[i].life <= life'[log'[i].by][log'[i].ip]
  <2>1. CASE i \in Numbers /\ log'[i] = log[i]
    <3>1. log[i].life <= life[log[i].by][log[i].ip] /\ log[i].life \in Nat
          BY <1>1, <2>1, LogEntry DEF LivesAscend
    <3>2. log[i].by \in Limiters /\ log[i].ip \in Ips
          BY <1>1, <2>1, LogEntry
    <3>3. life'[log[i].by][log[i].ip] \in Nat
          BY <3>2 DEF Effect
    <3>. QED BY <1>2, <2>1, <3>1, <3>2, <3>3
  <2>2. CASE log'[i] = Written(l, c, ok, wait)
        BY <1>2, <2>2 DEF Effect, Written
  <2>. QED BY <2>1, <2>2, EffectLog, Zenon
<1>4. ASSUME NEW m \in Limiters, NEW d \in Ips, hits'[m][d].touched = 0
      PROVE  /\ hits'[m][d].kept = {}
             /\ \A i \in Numbers' : log'[i].by = m /\ log'[i].ip = d =>
                                       log'[i].life < life'[m][d]
  <2>1. CASE Apart(m, d, l, c, gone)
    <3>1. hits'[m][d] = hits[m][d] /\ life'[m][d] = life[m][d]
          BY <2>1 DEF Effect, Apart
    <3>2. /\ hits[m][d].kept = {}
          /\ \A i \in Numbers : log[i].by = m /\ log[i].ip = d =>
                                   log[i].life < life[m][d]
          BY <1>1, <1>4, <3>1 DEF LivesAscend, Of
    <3>3. ASSUME NEW i \in Numbers', log'[i].by = m, log'[i].ip = d
          PROVE  log'[i].life < life'[m][d]
      <4>1. ~ (log'[i] = Written(l, c, ok, wait))
            BY <2>1, <3>3 DEF Apart, Written
      <4>2. i \in Numbers /\ log'[i] = log[i]
            BY <4>1, EffectLog, Zenon
      <4>. QED BY <3>1, <3>2, <3>3, <4>2
    <3>. QED BY <3>1, <3>2, <3>3
  <2>2. CASE m = l /\ d \in gone
    <3>1. hits'[m][d] = Absent /\ life'[m][d] = life[m][d] + 1 /\ d # c
          BY <2>2 DEF Effect
    <3>2. ASSUME NEW i \in Numbers', log'[i].by = m, log'[i].ip = d
          PROVE  log'[i].life < life'[m][d]
      <4>1. ~ (log'[i] = Written(l, c, ok, wait))
            BY <3>1, <3>2 DEF Written
      <4>2. i \in Numbers /\ log'[i] = log[i]
            BY <4>1, EffectLog, Zenon
      <4>3. log[i].life <= life[m][d] /\ log[i].life \in Nat
            BY <1>1, <3>2, <4>2, LogEntry DEF LivesAscend
      <4>. QED BY <1>2, <3>1, <4>2, <4>3
    <3>. QED BY <3>1, <3>2 DEF Absent
  <2>3. CASE m = l /\ d = c
        BY <1>4, <2>3 DEF Effect
  <2>. QED BY <2>1, <2>2, <2>3 DEF Apart
<1>. QED BY <1>3, <1>4 DEF LivesAscend, Of

LEMMA CheckTimesAscend ==
    ASSUME GateInv, NEW l \in Limiters, NEW c \in Ips, NEW ok \in BOOLEAN,
           NEW wait \in Nat, NEW gone \in SUBSET Ips, Effect(l, c, ok, wait, gone),
           now' = now
    PROVE  TimesAscend'
<1>1. GateTypeOK /\ TimesAscend /\ now \in Nat
      BY GateConstants DEF GateInv, GateTypeOK, Times
<1>2. ASSUME NEW i \in Numbers'
      PROVE  /\ log'[i].at <= now
             /\ i \notin Numbers => i = Len(log) + 1 /\ log'[i].at = now
             /\ i \in Numbers => log'[i].at = log[i].at /\ i < Len(log) + 1
  <2>1. CASE i \in Numbers /\ log'[i] = log[i] /\ i < Len(log) + 1
        BY <1>1, <2>1 DEF TimesAscend
  <2>2. CASE i = Len(log) + 1 /\ i \notin Numbers /\ log'[i] = Written(l, c, ok, wait)
        BY <1>1, <2>2 DEF Written
  <2>. QED BY <2>1, <2>2, EffectLog, Zenon
<1>3. ASSUME NEW i \in Numbers', NEW j \in Numbers', i <= j
      PROVE  log'[i].at <= log'[j].at
      BY <1>1, <1>2, <1>3 DEF TimesAscend, Effect, Numbers
<1>. QED BY <1>1, <1>2, <1>3 DEF TimesAscend

\* How a refusal's wait is made, and that a whole window's worth is counted then.
LEMMA RefusedAtLimit ==
    ASSUME GateInv, NEW l \in Limiters, NEW c \in Ips,
           NEW wait \in Nat, NEW gone \in SUBSET Ips, Outcome(l, c, FALSE, wait, gone)
    PROVE  Cardinality({k \in Recent(l, c) : log[k].at + Window > now + wait}) < Limit
<1>1. PICK oldest \in Recent(l, c) :
         /\ \A i \in Recent(l, c) : oldest <= i
         /\ wait = log[oldest].at + Window - now
      BY DEF Outcome
<1>2. /\ IsFiniteSet(Recent(l, c)) /\ Cardinality(Recent(l, c)) \in Nat
      /\ Cardinality(Recent(l, c)) <= Limit /\ Limit \in Nat
      /\ Recent(l, c) \subseteq Numbers
      BY KeptFinite, GateConstants DEF GateInv, KeptBounded
<1>3. now \in Nat /\ Window \in Nat
      BY GateConstants DEF GateInv, GateTypeOK, Times
<1> DEFINE later == {k \in Recent(l, c) : log[k].at + Window > now + wait}
<1>4. oldest \in Numbers /\ log[oldest].at \in Nat
      BY <1>2, LogEntry DEF GateInv
<1>5. later \subseteq Recent(l, c) \ {oldest}
      BY <1>1, <1>3, <1>4
<1>6. /\ IsFiniteSet(Recent(l, c) \ {oldest})
      /\ Cardinality(Recent(l, c) \ {oldest}) = Cardinality(Recent(l, c)) - 1
      BY <1>2, FS_RemoveElement
<1>7. IsFiniteSet(later) /\ Cardinality(later) <= Cardinality(Recent(l, c) \ {oldest})
      BY <1>5, <1>6, FS_Subset
<1>8. Cardinality(later) \in Nat
      BY <1>7, FS_CardinalityType
<1>. QED BY <1>2, <1>6, <1>7, <1>8

LEMMA CheckWaitFrees ==
    ASSUME GateInv, NEW l \in Limiters, NEW c \in Ips, NEW ok \in BOOLEAN,
           NEW wait \in Nat, NEW gone \in SUBSET Ips,
           Outcome(l, c, ok, wait, gone), Effect(l, c, ok, wait, gone), now' = now
    PROVE  WaitFrees'
<1> SUFFICES ASSUME NEW i \in Numbers', NEW m, NEW d,
                    m = log'[i].by, d = log'[i].ip, ~ log'[i].ok,
                    \A k \in Numbers' : k > i /\ log'[k].by = m /\ log'[k].ip = d =>
                                           ~ log'[k].ok
             PROVE  Cardinality({k \in hits'[m][d].kept :
                                   log'[k].at + Window > log'[i].at + log'[i].wait}) < Limit
    BY DEF WaitFrees, Of
<1> DEFINE due(k) == log'[k].at + Window > log'[i].at + log'[i].wait
           young  == {k \in hits'[m][d].kept : due(k)}
<1>1. GateTypeOK /\ KeptAdmitted /\ WaitFrees
      BY DEF GateInv
<1>2. CASE i \in Numbers /\ log'[i] = log[i]
  <2>1. m \in Limiters /\ d \in Ips
        BY <1>1, <1>2, LogEntry
  <2>2. ASSUME NEW k \in Numbers, k > i, log[k].by = m, log[k].ip = d PROVE ~ log[k].ok
    <3>1. log'[k] = log[k] /\ k \in Numbers'
          BY DEF Effect, Numbers
    <3>. QED BY <2>2, <3>1
  <2> DEFINE old == {k \in hits[m][d].kept :
                        log[k].at + Window > log[i].at + log[i].wait}
  <2>3. Cardinality(old) < Limit
        BY <1>1, <1>2, <2>2 DEF WaitFrees, Of
  <2>4. IsFiniteSet(old) /\ Cardinality(old) \in Nat
    <3>1. IsFiniteSet(hits[m][d].kept)
          BY <1>1, <2>1, KeptFinite
    <3>2. IsFiniteSet(old)
          BY <3>1, FS_Subset
    <3>. QED BY <3>2, FS_CardinalityType
  <2>5. hits'[m][d].kept \subseteq hits[m][d].kept
    <3>1. CASE Apart(m, d, l, c, gone)
          BY <2>1, <3>1 DEF Effect, Apart
    <3>2. CASE m = l /\ d \in gone
          BY <3>2 DEF Effect, Absent
    <3>3. CASE m = l /\ d = c
      <4>1. log'[Len(log) + 1] = Written(l, c, ok, wait) /\ Len(log) + 1 \in Numbers'
            /\ Len(log) + 1 > i
            BY <1>2 DEF Effect, Written, Numbers
      <4>2. ~ ok
            BY <3>3, <4>1 DEF Written
      <4>3. hits'[l][c].kept = Recent(l, c)
            BY <4>2 DEF Effect, Counted
      <4>. QED BY <3>3, <4>3 DEF Recent
    <3>. QED BY <3>1, <3>2, <3>3 DEF Apart
  <2>6. young \subseteq old
    <3>1. ASSUME NEW k \in young PROVE k \in old
      <4>1. k \in hits[m][d].kept
            BY <2>5
      <4>2. log'[k] = log[k]
            BY <1>1, <2>1, <4>1 DEF KeptAdmitted, Effect
      <4>. QED BY <1>2, <4>1, <4>2
    <3>. QED BY <3>1
  <2>7. IsFiniteSet(young) /\ Cardinality(young) <= Cardinality(old)
        BY <2>4, <2>6, FS_Subset
  <2>8. Cardinality(young) \in Nat
        BY <2>7, FS_CardinalityType
  <2>. QED BY <2>3, <2>4, <2>7, <2>8, GateConstants
<1>3. CASE i = Len(log) + 1 /\ log'[i] = Written(l, c, ok, wait)
  <2>1. /\ m = l /\ d = c /\ ~ ok /\ log'[i].at = now /\ log'[i].wait = wait
        BY <1>3 DEF Written
  <2>2. hits'[m][d].kept = Recent(l, c)
        BY <2>1 DEF Effect, Counted
  <2>3. \A k \in Recent(l, c) : log'[k] = log[k]
        BY <1>1 DEF KeptAdmitted, Effect, Recent
  <2>4. young = {k \in Recent(l, c) : log[k].at + Window > now + wait}
        BY <2>1, <2>2, <2>3
  <2>5. ok = FALSE
        BY <2>1
  <2>6. Outcome(l, c, FALSE, wait, gone)
        BY <2>5
  <2>. QED BY <2>4, <2>6, RefusedAtLimit
<1>. QED BY <1>2, <1>3, EffectLog, Zenon

LEMMA CheckWindowBound ==
    ASSUME GateInv, NEW l \in Limiters, NEW c \in Ips, NEW ok \in BOOLEAN,
           NEW wait \in Nat, NEW gone \in SUBSET Ips,
           Outcome(l, c, ok, wait, gone), Effect(l, c, ok, wait, gone), now' = now
    PROVE  WindowBound'
<1>1. GateTypeOK /\ YoungKept /\ TimesAscend /\ LivesAscend /\ WindowBound /\ KeptAdmitted
      BY DEF GateInv
<1>2. now \in Nat /\ Window \in Nat /\ Limit \in Nat /\ MaxTime \in Nat
      BY <1>1, GateConstants DEF GateTypeOK, Times
<1> SUFFICES ASSUME NEW m \in Limiters, NEW d \in Ips, NEW n \in 0 .. life'[m][d],
                    NEW t \in Times
             PROVE  Cardinality({i \in Numbers' : /\ log'[i].by = m /\ log'[i].ip = d
                                                  /\ log'[i].ok /\ log'[i].life = n
                                                  /\ t - Window < log'[i].at
                                                  /\ log'[i].at <= t}) <= Limit
    BY DEF WindowBound, Admitted, Numbers
<1> DEFINE young == {i \in Numbers' : /\ log'[i].by = m /\ log'[i].ip = d
                                      /\ log'[i].ok /\ log'[i].life = n
                                      /\ t - Window < log'[i].at /\ log'[i].at <= t}
           old == {i \in Numbers : /\ log[i].by = m /\ log[i].ip = d
                                   /\ log[i].ok /\ log[i].life = n
                                   /\ t - Window < log[i].at /\ log[i].at <= t}
<1> SUFFICES Cardinality(young) <= Limit
    OBVIOUS
<1>3. IsFiniteSet(old) /\ Cardinality(old) \in Nat
  <2>1. Len(log) \in Nat
        BY <1>1 DEF GateTypeOK
  <2>2. IsFiniteSet(Numbers)
        BY <2>1, NumbersFinite DEF Numbers
  <2>3. IsFiniteSet(old)
        BY <2>2, FS_Subset
  <2>. QED BY <2>3, FS_CardinalityType
<1>4. Cardinality(old) <= Limit
  <2>1. CASE n \in 0 .. life[m][d]
        BY <1>1, <2>1 DEF WindowBound, Admitted, Numbers
  <2>2. CASE ~ (n \in 0 .. life[m][d])
    <3>1. life[m][d] \in Nat /\ n \in Nat /\ n > life[m][d]
          BY <1>1, <2>2 DEF GateTypeOK, Effect
    <3>2. \A i \in Numbers : log[i].by = m /\ log[i].ip = d =>
             log[i].life \in Nat /\ log[i].life <= life[m][d]
          BY <1>1, LogEntry DEF LivesAscend
    <3>3. old = {}
          BY <3>1, <3>2
    <3>4. Cardinality(old) = 0
          BY <3>3, FS_EmptySet, Zenon
    <3> HIDE DEF old
    <3>. QED BY <1>2, <3>4
  <2>. QED BY <2>1, <2>2
<1>5. young \subseteq old \cup {Len(log) + 1}
  <2>1. ASSUME NEW i \in young PROVE i \in old \cup {Len(log) + 1}
    <3>1. i \in Numbers'
          OBVIOUS
    <3>2. (i \in Numbers /\ log'[i] = log[i]) \/ i = Len(log) + 1
          BY <3>1, EffectLog, Zenon
    <3>. QED BY <3>2
  <2>. QED BY <2>1
<1>6. CASE Len(log) + 1 \notin young
  <2>1. young \subseteq old
        BY <1>5, <1>6
  <2>2. IsFiniteSet(young) /\ Cardinality(young) <= Cardinality(old)
        BY <1>3, <2>1, FS_Subset
  <2>3. Cardinality(young) \in Nat
        BY <2>2, FS_CardinalityType
  <2>. QED BY <1>2, <1>3, <1>4, <2>2, <2>3
<1>7. CASE Len(log) + 1 \in young
  <2>1. log'[Len(log) + 1] = Written(l, c, ok, wait)
        BY DEF Effect, Written
  <2>2. /\ m = l /\ d = c /\ ok /\ n = life[l][c]
        /\ t - Window < now /\ now <= t /\ t \in Nat
        BY <1>2, <1>7, <2>1 DEF Written, Times
  <2>3. old \subseteq Recent(l, c)
    <3>1. ASSUME NEW i \in old PROVE i \in Recent(l, c)
      <4>1. log[i].at \in Nat /\ log[i].at <= now /\ log[i].at > now - Window
            BY <1>1, <1>2, <2>2, LogEntry DEF TimesAscend
      <4>2. i \in hits[l][c].kept
            BY <1>1, <2>2, <4>1 DEF YoungKept, Of
      <4>. QED BY <4>1, <4>2 DEF Recent
    <3>. QED BY <3>1
  <2>4. IsFiniteSet(Recent(l, c)) /\ Cardinality(Recent(l, c)) \in Nat
        BY <1>1, KeptFinite
  <2>5. Cardinality(old) <= Cardinality(Recent(l, c))
        BY <2>3, <2>4, FS_Subset
  <2>6. Cardinality(Recent(l, c)) < Limit
        BY <2>2 DEF Outcome
  <2>7. /\ IsFiniteSet(old \cup {Len(log) + 1})
        /\ Cardinality(old \cup {Len(log) + 1}) \in Nat
        /\ Cardinality(old \cup {Len(log) + 1}) <= Cardinality(old) + 1
        BY <1>3, AddOne
  <2>8. IsFiniteSet(young) /\ Cardinality(young) <= Cardinality(old \cup {Len(log) + 1})
        BY <1>5, <2>7, FS_Subset
  <2>9. Cardinality(young) \in Nat
        BY <2>8, FS_CardinalityType
  <2>. HIDE DEF young, old
  <2>. QED BY <1>2, <1>3, <2>4, <2>5, <2>6, <2>7, <2>8, <2>9
<1>. QED BY <1>6, <1>7

LEMMA CheckRefusalEarned ==
    ASSUME GateInv, NEW l \in Limiters, NEW c \in Ips, NEW ok \in BOOLEAN,
           NEW wait \in Nat, NEW gone \in SUBSET Ips,
           Outcome(l, c, ok, wait, gone), Effect(l, c, ok, wait, gone), now' = now
    PROVE  RefusalEarned'
<1>1. GateTypeOK /\ KeptAdmitted /\ TimesAscend /\ RefusalEarned
      BY DEF GateInv
<1>2. now \in Nat /\ Window \in Nat /\ Limit \in Nat /\ Len(log) \in Nat
      BY <1>1, GateConstants DEF GateTypeOK, Times
<1> SUFFICES ASSUME NEW i \in Numbers', ~ log'[i].ok
             PROVE  Cardinality({j \in {k \in Numbers' :
                        /\ log'[k].by = log'[i].by /\ log'[k].ip = log'[i].ip
                        /\ log'[k].ok /\ log'[k].life = log'[i].life
                        /\ log'[i].at - Window < log'[k].at
                        /\ log'[k].at <= log'[i].at} : j < i}) >= Limit
    BY DEF RefusalEarned, Admitted, Numbers
<1> DEFINE young == {j \in {k \in Numbers' :
                        /\ log'[k].by = log'[i].by /\ log'[k].ip = log'[i].ip
                        /\ log'[k].ok /\ log'[k].life = log'[i].life
                        /\ log'[i].at - Window < log'[k].at
                        /\ log'[k].at <= log'[i].at} : j < i}
<1> SUFFICES Cardinality(young) >= Limit
    OBVIOUS
<1>3. IsFiniteSet(young) /\ Cardinality(young) \in Nat
  <2>0. Len(log') \in Nat
        BY <1>2 DEF Effect
  <2>1. IsFiniteSet(Numbers')
        BY <2>0, NumbersFinite DEF Numbers
  <2>2. young \subseteq Numbers'
        OBVIOUS
  <2>3. IsFiniteSet(young)
        BY <2>1, <2>2, FS_Subset
  <2>. QED BY <2>3, FS_CardinalityType
<1>4. \A k \in Numbers : k \in Numbers' /\ log'[k] = log[k]
      BY <1>2 DEF Effect, Numbers
<1>5. CASE i \in Numbers /\ log'[i] = log[i]
  <2> DEFINE old == {j \in {k \in Numbers :
                        /\ log[k].by = log[i].by /\ log[k].ip = log[i].ip
                        /\ log[k].ok /\ log[k].life = log[i].life
                        /\ log[i].at - Window < log[k].at
                        /\ log[k].at <= log[i].at} : j < i}
  <2>1. Cardinality(old) >= Limit
        BY <1>1, <1>5 DEF RefusalEarned, Admitted, Numbers
  <2>2. old \subseteq young
        BY <1>4, <1>5
  <2>3. IsFiniteSet(old) /\ Cardinality(old) <= Cardinality(young)
        BY <1>3, <2>2, FS_Subset
  <2>4. Cardinality(old) \in Nat
        BY <2>3, FS_CardinalityType
  <2>. HIDE DEF old, young
  <2>. QED BY <1>2, <1>3, <2>1, <2>3, <2>4
<1>6. CASE i = Len(log) + 1 /\ i \notin Numbers /\ log'[i] = Written(l, c, ok, wait)
  <2>1. /\ log'[i].by = l /\ log'[i].ip = c /\ log'[i].at = now
        /\ log'[i].life = life[l][c] /\ ~ ok
        BY <1>6 DEF Written
  <2>2. Recent(l, c) \subseteq young
    <3>1. ASSUME NEW k \in Recent(l, c) PROVE k \in young
      <4>1. /\ k \in Numbers /\ Of(k, l, c) /\ log[k].ok
            /\ log[k].life = life[l][c] /\ log[k].at > now - Window
            BY <1>1 DEF KeptAdmitted, Recent
      <4>2. log[k].at <= now /\ log[k].at \in Nat
            BY <1>1, <4>1, LogEntry DEF TimesAscend
      <4>3. k < i
            BY <1>2, <1>6, <4>1 DEF Numbers
      <4>4. k \in Numbers' /\ log'[k] = log[k]
            BY <1>4, <4>1
      <4>. QED BY <1>2, <2>1, <4>1, <4>2, <4>3, <4>4 DEF Of
    <3>. QED BY <3>1
  <2>3. Cardinality(Recent(l, c)) <= Cardinality(young)
        BY <1>3, <2>2, FS_Subset
  <2>4. Cardinality(Recent(l, c)) \in Nat
        BY <1>1, KeptFinite
  <2>5. ~ (Cardinality(Recent(l, c)) < Limit)
        BY <2>1 DEF Outcome
  <2>. HIDE DEF young
  <2>. QED BY <1>2, <1>3, <2>3, <2>4, <2>5
<1>. QED BY <1>5, <1>6, EffectLog, Zenon

\* What is young when the wait is over will still be young at its end.
LEMMA WaitOver ==
    ASSUME NEW at \in Nat, NEW n \in Nat, NEW w \in Nat, NEW from \in Nat, NEW wait \in Nat,
           at > n - w, n >= from + wait
    PROVE  at + w > from + wait
OBVIOUS

LEMMA CheckRetryAfterSuffices ==
    ASSUME GateInv, NEW l \in Limiters, NEW c \in Ips, NEW ok \in BOOLEAN,
           NEW wait \in Nat, NEW gone \in SUBSET Ips,
           Outcome(l, c, ok, wait, gone), Effect(l, c, ok, wait, gone), now' = now
    PROVE  RetryAfterSuffices'
<1>1. GateTypeOK /\ KeptAdmitted /\ WaitFrees /\ RetryAfterSuffices
      BY DEF GateInv
<1>2. now \in Nat /\ Window \in Nat /\ Limit \in Nat /\ Len(log) \in Nat
      BY <1>1, GateConstants DEF GateTypeOK, Times
<1> SUFFICES ASSUME NEW i \in Numbers', NEW j \in Numbers', i < j, ~ log'[i].ok,
                    log'[j].ip = log'[i].ip, log'[j].by = log'[i].by,
                    log'[j].at >= log'[i].at + log'[i].wait,
                    \A k \in i + 1 .. j - 1 :
                        log'[k].ip = log'[i].ip /\ log'[k].by = log'[i].by => ~ log'[k].ok
             PROVE  log'[j].ok
    BY DEF RetryAfterSuffices, Numbers
<1>3. \A k \in Numbers : log'[k] = log[k]
      BY DEF Effect
<1>4. i \in Numbers /\ log'[i] = log[i]
      BY <1>2, <1>3 DEF Effect, Numbers
<1>5. CASE j \in Numbers /\ log'[j] = log[j]
  <2>1. \A k \in i + 1 .. j - 1 : k \in Numbers /\ log'[k] = log[k]
        BY <1>2, <1>3, <1>4, <1>5 DEF Numbers
  <2>. QED BY <1>1, <1>4, <1>5, <2>1 DEF RetryAfterSuffices, Numbers
<1>6. CASE j = Len(log) + 1 /\ log'[j] = Written(l, c, ok, wait)
  <2>1. log[i].by = l /\ log[i].ip = c /\ now >= log[i].at + log[i].wait /\ ~ log[i].ok
        BY <1>4, <1>6 DEF Written
  <2>2. \A k \in Numbers : k > i /\ Of(k, log[i].by, log[i].ip) => ~ log[k].ok
        BY <1>2, <1>3, <1>4, <1>6 DEF Of, Numbers
  <2> DEFINE due == {k \in hits[l][c].kept : log[k].at + Window > log[i].at + log[i].wait}
  <2>3. Cardinality(due) < Limit
        BY <1>1, <1>4, <2>1, <2>2 DEF WaitFrees
  <2>4. Recent(l, c) \subseteq due
    <3>1. ASSUME NEW k \in Recent(l, c) PROVE k \in due
      <4>1. k \in hits[l][c].kept /\ k \in Numbers /\ log[k].at > now - Window
            BY <1>1 DEF KeptAdmitted, Recent
      <4>2. log[k].at \in Nat /\ log[i].at \in Nat /\ log[i].wait \in Nat
            BY <1>1, <1>4, <4>1, LogEntry
      <4>3. log[k].at + Window > log[i].at + log[i].wait
            BY <1>2, <2>1, <4>1, <4>2, WaitOver
      <4>. QED BY <4>1, <4>3
    <3>. QED BY <3>1
  <2>5. IsFiniteSet(hits[l][c].kept)
        BY <1>1, KeptFinite
  <2>6. IsFiniteSet(due)
        BY <2>5, FS_Subset
  <2>7. Cardinality(due) \in Nat /\ Cardinality(Recent(l, c)) \in Nat
        BY <1>1, <2>6, KeptFinite, FS_CardinalityType
  <2>8. Cardinality(Recent(l, c)) <= Cardinality(due)
        BY <2>4, <2>6, FS_Subset
  <2>9. Cardinality(Recent(l, c)) < Limit
        BY <1>2, <2>3, <2>7, <2>8
  <2>10. ok
        BY <2>9 DEF Outcome
  <2>. QED BY <1>6, <2>10 DEF Written
<1>. QED BY <1>5, <1>6, EffectLog, Zenon

\* A set of naturals that is not empty has a least element.
LEMMA Least ==
    ASSUME NEW S \in SUBSET Nat, S # {}
    PROVE  \E m \in S : \A n \in S : m <= n
<1>1. PICK m \in S : \A n \in S : ~ (<<n, m>> \in OpToRel(<, Nat))
      BY NatLessThanWellFounded, WFMin, Zenon
<1>2. \A n \in S : ~ (n < m)
      BY <1>1 DEF OpToRel
<1>. QED BY <1>2

\* A map grown past its bound has a least recently touched client to push out.
LEMMA EvictedNonempty ==
    ASSUME NEW map \in [Ips -> Entry], Cardinality(Present(map)) > MaxIps
    PROVE  Evicted(map) # {}
<1> DEFINE S == {map[d].touched : d \in Present(map)}
<1>1. Present(map) # {}
  <2>1. Cardinality({}) = 0
        BY FS_EmptySet
  <2>. QED BY <2>1, GateConstants
<1>2. S \in SUBSET Nat /\ S # {}
      BY <1>1 DEF Present, Entry
<1>3. PICK m \in S : \A n \in S : m <= n
      BY <1>2, Least
<1>4. PICK d \in Present(map) : map[d].touched = m
      OBVIOUS
<1>5. d \in Evicted(map)
      BY <1>3, <1>4 DEF Evicted
<1>. QED BY <1>5

LEMMA PresentFinite ==
    ASSUME NEW map
    PROVE  IsFiniteSet(Present(map)) /\ Cardinality(Present(map)) \in Nat
<1>1. Present(map) \subseteq Ips
      BY DEF Present
<1>2. IsFiniteSet(Present(map))
      BY <1>1, GateConstants, FS_Subset
<1>. QED BY <1>2, FS_CardinalityType

\* A client refused is in the map already, so only an admission can fill it.
LEMMA CheckRoom ==
    ASSUME GateInv, NEW l \in Limiters, NEW c \in Ips, NEW ok \in BOOLEAN,
           NEW wait \in Nat, NEW gone \in SUBSET Ips,
           Outcome(l, c, ok, wait, gone), Effect(l, c, ok, wait, gone)
    PROVE  Cardinality(Present(hits'[l])) <= MaxIps
<1>1. GateTypeOK /\ KeptAdmitted /\ PlaceIsLast /\ LivesAscend
      BY DEF GateInv
<1>2. Limit \in Nat /\ Limit > 0 /\ MaxIps \in Nat /\ Len(log) \in Nat
      BY GateConstants DEF Effect
<1> DEFINE all == Present(hits[l]) \cup {c}
<1>3. Present(hits'[l]) \subseteq all \ gone
  <2>1. ASSUME NEW d \in Present(hits'[l]) PROVE d \in all \ gone
    <3>1. d \in Ips /\ hits'[l][d].touched > 0
          BY DEF Present
    <3>2. d \notin gone
          BY <3>1 DEF Effect, Absent
    <3>3. CASE d # c
      <4>1. Apart(l, d, l, c, gone)
            BY <3>2, <3>3 DEF Apart
      <4>2. hits'[l][d] = hits[l][d]
            BY <3>1, <4>1 DEF Effect, Apart
      <4>. QED BY <3>1, <3>2, <4>2 DEF Present
    <3>. QED BY <3>2, <3>3
  <2>. QED BY <2>1
<1>4. /\ IsFiniteSet(Present(hits[l])) /\ Cardinality(Present(hits[l])) \in Nat
      /\ Cardinality(Present(hits[l])) <= MaxIps
      BY <1>1, PresentFinite DEF GateTypeOK
<1>5. /\ IsFiniteSet(Present(hits'[l])) /\ Cardinality(Present(hits'[l])) \in Nat
      BY PresentFinite
<1>6. CASE ~ ok
  <2>1. Cardinality(Recent(l, c)) \in Nat /\ Recent(l, c) \subseteq hits[l][c].kept
        BY <1>1, KeptFinite
  <2>2. Recent(l, c) # {}
    <3>1. Cardinality({}) = 0
          BY FS_EmptySet
    <3>. QED BY <1>2, <1>6, <3>1 DEF Outcome
  <2>3. hits[l][c].touched # 0 /\ hits[l][c].touched \in Nat
        BY <1>1, <2>1, <2>2 DEF LivesAscend, GateTypeOK, Entry
  <2>4. c \in Present(hits[l])
        BY <2>3 DEF Present
  <2>5. Present(hits'[l]) \subseteq Present(hits[l])
        BY <1>3, <2>4
  <2>6. Cardinality(Present(hits'[l])) <= Cardinality(Present(hits[l]))
        BY <1>4, <2>5, FS_Subset
  <2>. QED BY <1>2, <1>4, <1>5, <2>6
<1>7. CASE ok
  <2>1. /\ IsFiniteSet(all) /\ Cardinality(all) \in Nat
        /\ Cardinality(all) <= MaxIps + 1
    <3>1. /\ IsFiniteSet(all) /\ Cardinality(all) \in Nat
          /\ Cardinality(all) <= Cardinality(Present(hits[l])) + 1
          BY <1>4, AddOne
    <3>. QED BY <1>2, <1>4, <3>1
  <2>2. CASE Cardinality(all) <= MaxIps
    <3>1. Cardinality(Present(hits'[l])) <= Cardinality(all)
      <4>1. Present(hits'[l]) \subseteq all
            BY <1>3
      <4>. QED BY <2>1, <4>1, FS_Subset
    <3>. QED BY <1>2, <1>5, <2>1, <2>2, <3>1
  <2>3. CASE Cardinality(all) > MaxIps
    <3> DEFINE map == Touched(hits[l], c, Counted(l, c, ok))
    <3>1. Counted(l, c, ok) \in SUBSET Nat
      <4>1. Recent(l, c) \subseteq Numbers
            BY <1>1, KeptFinite
      <4>. QED BY <1>2, <4>1 DEF Counted, Numbers
    <3>2. /\ map \in [Ips -> Entry] /\ map[c].touched = Len(log) + 1
          /\ \A d \in Ips \ {c} : map[d] = hits[l][d]
          BY <1>1, <1>2, <3>1 DEF Touched, Entry, GateTypeOK
    <3>3. gone = Evicted(map)
          BY <1>7 DEF Outcome
    <3> HIDE DEF map
    <3>4. Present(map) = all
          BY <1>2, <3>2 DEF Present
    <3>5. PICK g : g \in gone
          BY <2>3, <3>2, <3>3, <3>4, EvictedNonempty
    <3>6. g \in all
          BY <3>3, <3>4, <3>5 DEF Evicted
    <3>7. Present(hits'[l]) \subseteq all \ {g}
          BY <1>3, <3>5
    <3>8. /\ IsFiniteSet(all \ {g})
          /\ Cardinality(all \ {g}) = Cardinality(all) - 1
          BY <2>1, <3>6, FS_RemoveElement
    <3>9. Cardinality(Present(hits'[l])) <= Cardinality(all \ {g})
          BY <3>7, <3>8, FS_Subset
    <3> HIDE DEF all
    <3>. QED BY <1>2, <1>5, <2>1, <3>8, <3>9
  <2>. QED BY <1>2, <2>1, <2>2, <2>3
<1>. QED BY <1>6, <1>7

\* The types of what a limiter's step changes.
LimiterTypes ==
    /\ hits \in [Limiters -> [Ips -> Entry]]
    /\ \A l \in Limiters : Cardinality(Present(hits[l])) <= MaxIps
    /\ life \in [Limiters -> [Ips -> Nat]]
    /\ log \in Seq(Check)

LEMMA CheckTypes ==
    ASSUME GateInv, NEW l \in Limiters, NEW c \in Ips, NEW ok \in BOOLEAN,
           NEW wait \in Nat, NEW gone \in SUBSET Ips,
           Outcome(l, c, ok, wait, gone), Effect(l, c, ok, wait, gone)
    PROVE  LimiterTypes'
<1>1. GateTypeOK
      BY DEF GateInv
<1>2. ASSUME NEW m \in Limiters PROVE Cardinality(Present(hits'[m])) <= MaxIps
  <2>1. CASE m = l
        BY <2>1, CheckRoom
  <2>2. CASE m # l
    <3>1. \A d \in Ips : hits'[m][d] = hits[m][d]
          BY <2>2 DEF Effect
    <3>2. Present(hits'[m]) = Present(hits[m])
          BY <3>1 DEF Present
    <3>. QED BY <1>1, <3>2 DEF GateTypeOK
  <2>. QED BY <2>1, <2>2
<1>3. ASSUME NEW m \in Limiters PROVE Cardinality(Present(hits[m])') <= MaxIps
      BY <1>2 DEF Present
<1>. QED BY <1>3 DEF LimiterTypes, Effect

\* One check preserves everything.
LEMMA CheckGateInv ==
    ASSUME GateInv, NEW l \in Limiters, NEW c \in Ips, Decide(l, c), now' = now
    PROVE  LimiterTypes' /\ (GateTypeOK' => GateInv')
<1>1. GateTypeOK /\ KeptAdmitted /\ PlaceIsLast
      BY DEF GateInv
<1>2. PICK ok \in BOOLEAN, wait \in Nat, gone \in SUBSET Ips :
         Outcome(l, c, ok, wait, gone)
      BY <1>1, DecideIsOutcome
<1>3. Effect(l, c, ok, wait, gone)
      BY <1>1, <1>2, OutcomeEffect
<1>4. KeptAdmitted' /\ YoungKept' /\ KeptBounded' /\ PlaceIsLast'
      BY <1>2, <1>3, CheckKeptAdmitted, CheckYoungKept, CheckKeptBounded, CheckPlaceIsLast
<1>5. LivesAscend' /\ TimesAscend' /\ WaitFrees'
      BY <1>2, <1>3, CheckLivesAscend, CheckTimesAscend, CheckWaitFrees
<1>6. WindowBound' /\ RefusalEarned' /\ RetryAfterSuffices'
      BY <1>2, <1>3, CheckWindowBound, CheckRefusalEarned, CheckRetryAfterSuffices
<1>7. LimiterTypes'
      BY <1>2, <1>3, CheckTypes
<1>. QED BY <1>4, <1>5, <1>6, <1>7 DEF GateInv
-----------------------------------------------------------------------------
(* Steps without a check: time passes, clients are forgotten, an answer is lost. *)

Quiet ==
    /\ log' = log
    /\ now' \in Nat /\ now <= now'
    /\ \A l \in Limiters, c \in Ips :
          \/ hits'[l][c] = hits[l][c] /\ life'[l][c] = life[l][c]
          \/ hits'[l][c] = Absent /\ life'[l][c] = life[l][c] + 1

\* Clients are forgotten only when all of them are.
Wiped ==
    \A l \in Limiters, c \in Ips : life'[l][c] # life[l][c] => Present(hits[l])' = {}

LEMMA QuietCounting ==
    ASSUME GateInv, Quiet
    PROVE  KeptAdmitted' /\ YoungKept' /\ KeptBounded'
<1>1. GateTypeOK /\ KeptAdmitted /\ YoungKept /\ KeptBounded /\ LivesAscend
      BY DEF GateInv
<1>2. now \in Nat /\ Window \in Nat /\ Limit \in Nat
      BY <1>1, GateConstants DEF GateTypeOK, Times
<1>3. KeptAdmitted'
  <2> SUFFICES ASSUME NEW l \in Limiters, NEW c \in Ips, NEW i \in hits'[l][c].kept
               PROVE  /\ i \in Numbers /\ Of(i, l, c)
                      /\ log[i].ok /\ log[i].life = life'[l][c]
      BY DEF KeptAdmitted, Quiet, Numbers, Of
  <2>1. hits'[l][c] = hits[l][c] /\ life'[l][c] = life[l][c]
        BY DEF Quiet, Absent
  <2>. QED BY <1>1, <2>1, Zenon DEF KeptAdmitted
<1>4. YoungKept'
  <2> SUFFICES ASSUME NEW l \in Limiters, NEW c \in Ips, NEW i \in Numbers, Of(i, l, c),
                      log[i].ok, log[i].life = life'[l][c], log[i].at > now' - Window
               PROVE  i \in hits'[l][c].kept
      BY DEF YoungKept, Quiet, Numbers, Of
  <2>1. /\ log[i].life \in Nat /\ log[i].life <= life[l][c] /\ life[l][c] \in Nat
        /\ log[i].at \in Nat
        BY <1>1, LogEntry DEF LivesAscend, Of, GateTypeOK
  <2>2. hits'[l][c] = hits[l][c] /\ life'[l][c] = life[l][c]
        BY <2>1 DEF Quiet
  <2>3. log[i].at > now - Window
        BY <1>2, <2>1 DEF Quiet
  <2>. QED BY <1>1, <2>2, <2>3 DEF YoungKept
<1>5. KeptBounded'
  <2> SUFFICES ASSUME NEW l \in Limiters, NEW c \in Ips
               PROVE  Cardinality(hits'[l][c].kept) <= Limit
      BY DEF KeptBounded
  <2>1. CASE hits'[l][c] = hits[l][c]
        BY <1>1, <2>1 DEF KeptBounded
  <2>2. CASE hits'[l][c] = Absent
    <3>1. hits'[l][c].kept = {}
          BY <2>2 DEF Absent
    <3>2. Cardinality({}) = 0
          BY FS_EmptySet
    <3>. QED BY <1>2, <3>1, <3>2
  <2>. QED BY <2>1, <2>2 DEF Quiet
<1>. QED BY <1>3, <1>4, <1>5

LEMMA QuietOrder ==
    ASSUME GateInv, Quiet
    PROVE  PlaceIsLast' /\ LivesAscend' /\ TimesAscend'
<1>1. GateTypeOK /\ PlaceIsLast /\ LivesAscend /\ TimesAscend
      BY DEF GateInv
<1>2. now \in Nat
      BY <1>1, GateConstants DEF GateTypeOK, Times
<1>3. PlaceIsLast'
  <2> SUFFICES ASSUME NEW l \in Limiters, NEW c \in Ips, hits'[l][c].touched > 0
               PROVE  /\ hits'[l][c].touched \in Numbers
                      /\ Of(hits'[l][c].touched, l, c)
                      /\ \A i \in Numbers : Of(i, l, c) => i <= hits'[l][c].touched
      BY DEF PlaceIsLast, Quiet, Numbers, Of
  <2>1. hits'[l][c] = hits[l][c]
        BY DEF Quiet, Absent
  <2>. QED BY <1>1, <2>1 DEF PlaceIsLast
<1>4. \A l \in Limiters, c \in Ips : life[l][c] \in Nat /\ life[l][c] <= life'[l][c]
  <2>1. ASSUME NEW l \in Limiters, NEW c \in Ips
        PROVE  life[l][c] \in Nat /\ life[l][c] <= life'[l][c]
    <3>1. life[l][c] \in Nat
          BY <1>1 DEF GateTypeOK
    <3>2. life'[l][c] = life[l][c] \/ life'[l][c] = life[l][c] + 1
          BY DEF Quiet
    <3>. QED BY <3>1, <3>2
  <2>. QED BY <2>1
<1>5. LivesAscend'
  <2>1. ASSUME NEW i \in Numbers
        PROVE  log[i].life <= life'[log[i].by][log[i].ip]
    <3>1. /\ log[i].by \in Limiters /\ log[i].ip \in Ips /\ log[i].life \in Nat
          /\ log[i].life <= life[log[i].by][log[i].ip]
          BY <1>1, LogEntry DEF LivesAscend
    <3>2. PICK m, n : m = life[log[i].by][log[i].ip] /\ n = life'[log[i].by][log[i].ip]
          OBVIOUS
    <3>3. n = m \/ n = m + 1
          BY <3>1, <3>2 DEF Quiet
    <3>4. m \in Nat
          BY <1>4, <3>1, <3>2
    <3>. QED BY <3>1, <3>2, <3>3, <3>4
  <2>2. ASSUME NEW l \in Limiters, NEW c \in Ips, hits'[l][c].touched = 0
        PROVE  /\ hits'[l][c].kept = {}
               /\ \A i \in Numbers : Of(i, l, c) => log[i].life < life'[l][c]
    <3>1. CASE hits'[l][c] = hits[l][c] /\ life'[l][c] = life[l][c]
          BY <1>1, <2>2, <3>1 DEF LivesAscend
    <3>2. CASE hits'[l][c] = Absent /\ life'[l][c] = life[l][c] + 1
      <4>1. hits'[l][c].kept = {}
            BY <3>2 DEF Absent
      <4>2. ASSUME NEW i \in Numbers, Of(i, l, c) PROVE log[i].life < life'[l][c]
        <5>1. log[i].life <= life[l][c] /\ log[i].life \in Nat
              BY <1>1, <4>2, LogEntry DEF LivesAscend, Of
        <5>. QED BY <1>4, <3>2, <5>1
      <4>. QED BY <4>1, <4>2
    <3>. QED BY <3>1, <3>2 DEF Quiet
  <2>. QED BY <2>1, <2>2 DEF LivesAscend, Quiet, Numbers, Of
<1>6. TimesAscend'
  <2>1. ASSUME NEW i \in Numbers PROVE log[i].at <= now'
        BY <1>1, <1>2, LogEntry DEF TimesAscend, Quiet
  <2>. QED BY <1>1, <2>1 DEF TimesAscend, Quiet, Numbers
<1>. QED BY <1>3, <1>5, <1>6

LEMMA QuietPromises ==
    ASSUME GateInv, Quiet
    PROVE  WaitFrees' /\ WindowBound' /\ RefusalEarned' /\ RetryAfterSuffices'
<1>1. /\ GateTypeOK /\ KeptAdmitted /\ WaitFrees /\ WindowBound /\ RefusalEarned
      /\ RetryAfterSuffices /\ LivesAscend
      BY DEF GateInv
<1>2. log' = log /\ Limit \in Nat
      BY GateConstants DEF Quiet
<1>3. RefusalEarned' /\ RetryAfterSuffices'
      BY <1>1, <1>2 DEF RefusalEarned, RetryAfterSuffices, Admitted
<1>4. WaitFrees'
  <2> SUFFICES ASSUME NEW i \in Numbers, NEW l, NEW c, l = log[i].by, c = log[i].ip,
                      ~ log[i].ok,
                      \A k \in Numbers : k > i /\ log[k].by = l /\ log[k].ip = c => ~ log[k].ok
               PROVE  Cardinality({k \in hits'[l][c].kept :
                          log[k].at + Window > log[i].at + log[i].wait}) < Limit
      BY <1>2 DEF WaitFrees, Of, Numbers
  <2> DEFINE old == {k \in hits[l][c].kept :
                        log[k].at + Window > log[i].at + log[i].wait}
             young == {k \in hits'[l][c].kept :
                        log[k].at + Window > log[i].at + log[i].wait}
  <2>1. l \in Limiters /\ c \in Ips
        BY <1>1, LogEntry
  <2>2. Cardinality(old) < Limit
        BY <1>1 DEF WaitFrees, Of
  <2>3. IsFiniteSet(hits[l][c].kept)
        BY <1>1, <2>1, KeptFinite
  <2>4. IsFiniteSet(old) /\ Cardinality(old) \in Nat
    <3>1. IsFiniteSet(old)
          BY <2>3, FS_Subset
    <3>. QED BY <3>1, FS_CardinalityType
  <2>5. young \subseteq old
        BY <2>1 DEF Quiet, Absent
  <2>6. IsFiniteSet(young) /\ Cardinality(young) <= Cardinality(old)
        BY <2>4, <2>5, FS_Subset
  <2>7. Cardinality(young) \in Nat
        BY <2>6, FS_CardinalityType
  <2>. QED BY <1>2, <2>2, <2>4, <2>6, <2>7
<1>5. WindowBound'
  <2> SUFFICES ASSUME NEW l \in Limiters, NEW c \in Ips, NEW n \in 0 .. life'[l][c],
                      NEW t \in Times
               PROVE  Cardinality(Admitted(l, c, n, t - Window, t)) <= Limit
      BY <1>2 DEF WindowBound, Admitted
  <2>1. CASE n \in 0 .. life[l][c]
        BY <1>1, <2>1 DEF WindowBound
  <2>2. CASE n \notin 0 .. life[l][c]
    <3>1. life[l][c] \in Nat
          BY <1>1 DEF GateTypeOK
    <3>2. life'[l][c] = life[l][c] \/ life'[l][c] = life[l][c] + 1
          BY DEF Quiet
    <3>3. n > life[l][c] /\ n \in Nat
          BY <2>2, <3>1, <3>2
    <3>4. \A i \in Numbers : log[i].by = l /\ log[i].ip = c =>
             log[i].life \in Nat /\ log[i].life <= life[l][c]
          BY <1>1, LogEntry DEF LivesAscend
    <3>5. Admitted(l, c, n, t - Window, t) = {}
          BY <3>1, <3>3, <3>4 DEF Admitted, Numbers
    <3>6. Cardinality({}) = 0
          BY FS_EmptySet
    <3>. QED BY <1>2, <3>5, <3>6
  <2>. QED BY <2>1, <2>2
<1>. QED BY <1>3, <1>4, <1>5

LEMMA QuietGateInv ==
    ASSUME GateInv, Quiet, GateTypeOK'
    PROVE  GateInv'
BY QuietCounting, QuietOrder, QuietPromises DEF GateInv

\* A step that forgets a set of clients of a limiter, and one that forgets none.
LEMMA ForgetIsQuiet ==
    ASSUME GateInv, NEW l \in Limiters, Forget(l, hits[l], Present(hits[l])),
           log' = log, now' = now
    PROVE  Quiet /\ Wiped /\ LimiterTypes'
<1>1. GateTypeOK /\ now \in Nat
      BY GateConstants DEF GateInv, GateTypeOK, Times
<1>2. Absent \in Entry
      BY DEF Absent, Entry
<1>3. hits' \in [Limiters -> [Ips -> Entry]] /\ life' \in [Limiters -> [Ips -> Nat]]
      BY <1>1, <1>2 DEF GateTypeOK, Forget
<1>4. Quiet
      BY <1>1 DEF GateTypeOK, Forget, Quiet
<1>5. \A c \in Ips : hits'[l][c].touched > 0 => FALSE
      BY <1>1 DEF GateTypeOK, Forget, Absent, Present
<1>6. Present(hits[l])' = {}
      BY <1>5 DEF Present
<1>7. ASSUME NEW m \in Limiters PROVE Cardinality(Present(hits[m])') <= MaxIps
  <2>1. CASE m = l
    <3>1. Cardinality({}) = 0
          BY FS_EmptySet
    <3>. QED BY <1>6, <2>1, <3>1, GateConstants
  <2>2. CASE m # l
    <3>1. hits'[m] = hits[m]
          BY <1>1, <2>2 DEF GateTypeOK, Forget
    <3>2. Present(hits[m])' = Present(hits[m])
          BY <3>1 DEF Present
    <3>. QED BY <1>1, <3>2 DEF GateTypeOK
  <2>. QED BY <2>1, <2>2
<1>8. LimiterTypes'
      BY <1>1, <1>3, <1>7 DEF LimiterTypes, GateTypeOK
<1>9. Wiped
      BY <1>1, <1>6 DEF GateTypeOK, Forget, Wiped
<1>. QED BY <1>4, <1>8, <1>9

LEMMA NothingIsQuiet ==
    ASSUME GateInv, UNCHANGED <<hits, life, log>>, now' \in Nat, now <= now'
    PROVE  Quiet /\ Wiped /\ LimiterTypes'
<1>1. Quiet /\ Wiped
      BY DEF Quiet, Wiped
<1>2. GateTypeOK
      BY DEF GateInv
<1>. QED BY <1>1, <1>2 DEF LimiterTypes, GateTypeOK, Present
-----------------------------------------------------------------------------
(* The specification. *)

LEMMA InitGateInv == GateInit => GateInv
<1> SUFFICES ASSUME GateInit PROVE GateInv
    OBVIOUS
<1>1. /\ Len(log) = 0 /\ Numbers = {} /\ 1 .. Len(log) = {}
      BY DEF GateInit, Numbers
<1>2. \A l \in Limiters, c \in Ips : hits[l][c] = Absent /\ life[l][c] = 0
      BY DEF GateInit
<1>3. \A l \in Limiters : Present(hits[l]) = {}
      BY <1>2 DEF Present, Absent
<1>4. Cardinality({}) = 0
      BY FS_EmptySet
<1>5. GateTypeOK
  <2>1. \A l \in Limiters : Cardinality(Present(hits[l])) <= MaxIps
        BY <1>3, <1>4, GateConstants
  <2>2. hits \in [Limiters -> [Ips -> Entry]]
        BY DEF GateInit, Absent, Entry
  <2>3. {MaxCalls, MaxTime, MaxOutages} \subseteq Nat
        BY McpGateAssumption
  <2>4. now \in Times /\ made \in 0 .. MaxCalls /\ outages \in 0 .. MaxOutages
        BY <2>3 DEF GateInit, Times
  <2>5. log \in Seq(Check) /\ life \in [Limiters -> [Ips -> Nat]]
        BY DEF GateInit
  <2>6. pending \in SUBSET [no : 1 .. MaxCalls, ip : Ips, iso : Isolates]
        BY DEF GateInit
  <2>. QED BY <2>1, <2>2, <2>4, <2>5, <2>6 DEF GateTypeOK
<1>6. KeptAdmitted /\ YoungKept /\ PlaceIsLast /\ LivesAscend /\ TimesAscend
      BY <1>1, <1>2 DEF KeptAdmitted, YoungKept, PlaceIsLast, LivesAscend, TimesAscend, Absent
<1>9. KeptBounded
  <2>1. \A l \in Limiters, c \in Ips : hits[l][c].kept = {}
        BY <1>2 DEF Absent
  <2>2. ASSUME NEW l \in Limiters, NEW c \in Ips
        PROVE  Cardinality(hits[l][c].kept) <= Limit
    <3>1. hits[l][c].kept = {}
          BY <2>1
    <3>. QED BY <1>4, <3>1, GateConstants
  <2>. QED BY <2>2 DEF KeptBounded
<1>7. WaitFrees /\ RefusalEarned /\ RetryAfterSuffices
      BY <1>1 DEF WaitFrees, RefusalEarned, RetryAfterSuffices
<1>8. WindowBound
  <2>1. \A l, c, n, from, to : Admitted(l, c, n, from, to) = {}
        BY <1>1 DEF Admitted
  <2>. QED BY <1>4, <2>1, GateConstants DEF WindowBound
<1>. QED BY <1>5, <1>6, <1>7, <1>8, <1>9 DEF GateInv

\* What is asked of a limiter in one step; everything else is quiet.
LEMMA GateSteps ==
    ASSUME GateInv, [GateNext]_gateVars
    PROVE  /\ GateTypeOK'
           /\ \/ Quiet /\ Wiped
              \/ now' = now /\ \E l \in Limiters, c \in Ips : Decide(l, c)
<1>1. /\ GateTypeOK /\ now \in Nat /\ now \in Times
      /\ {MaxCalls, MaxTime, MaxOutages} \subseteq Nat
      BY McpGateAssumption DEF GateInv, GateTypeOK, Times
<1>2. CASE \E c \in Ips, iso \in Isolates : Ask(c, iso)
  <2>1. PICK c \in Ips, iso \in Isolates : Ask(c, iso)
        BY <1>2
  <2>2. made < MaxCalls /\ made' = made + 1 /\ now' = now
        BY <2>1 DEF Ask
  <2>3. /\ made' \in 0 .. MaxCalls /\ now' \in Times /\ made + 1 \in 1 .. MaxCalls
        BY <1>1, <2>2 DEF GateTypeOK
  <2>4. pending' \in SUBSET [no : 1 .. MaxCalls, ip : Ips, iso : Isolates]
        BY <1>1, <2>1, <2>3 DEF Ask, GateTypeOK
  <2>5. outages' \in 0 .. MaxOutages
        BY <1>1, <2>1 DEF Ask, GateTypeOK
  <2>6. Decide(Global, c) \/ UNCHANGED <<hits, life, log>>
        BY <2>1 DEF Ask
  <2>7. CASE Decide(Global, c)
    <3>1. LimiterTypes'
          BY <2>2, <2>7, GateConstants, CheckGateInv
    <3>. QED BY <2>2, <2>3, <2>4, <2>5, <2>7, <3>1, GateConstants DEF GateTypeOK, LimiterTypes
  <2>8. CASE UNCHANGED <<hits, life, log>>
    <3>1. Quiet /\ Wiped /\ LimiterTypes'
          BY <1>1, <2>2, <2>8, NothingIsQuiet
    <3>. QED BY <2>3, <2>4, <2>5, <3>1 DEF GateTypeOK, LimiterTypes
  <2>. QED BY <2>6, <2>7, <2>8
<1>3. CASE \E p \in pending : Fallback(p)
  <2>1. PICK p \in pending : Fallback(p)
        BY <1>3
  <2>2. p.ip \in Ips /\ p.iso \in Limiters
        BY <1>1, <2>1 DEF GateTypeOK, Limiters
  <2>3. LimiterTypes'
        BY <2>1, <2>2, CheckGateInv DEF Fallback
  <2>4. GateTypeOK'
        BY <1>1, <2>1, <2>3 DEF Fallback, GateTypeOK, LimiterTypes
  <2>. QED BY <2>1, <2>2, <2>4 DEF Fallback
<1>4. CASE \E l \in Limiters : Restart(l)
  <2>1. PICK l \in Limiters : Restart(l)
        BY <1>4
  <2>2. Quiet /\ Wiped /\ LimiterTypes'
        BY <2>1, ForgetIsQuiet DEF Restart
  <2>. QED BY <1>1, <2>1, <2>2 DEF Restart, GateTypeOK, LimiterTypes
<1>5. CASE Pass
  <2>1. now' \in Nat /\ now <= now' /\ now' \in Times
        BY <1>1, <1>5 DEF Pass, Times
  <2>2. Quiet /\ Wiped /\ LimiterTypes'
        BY <1>5, <2>1, NothingIsQuiet DEF Pass
  <2>. QED BY <1>1, <1>5, <2>1, <2>2 DEF Pass, GateTypeOK, LimiterTypes
<1>6. CASE UNCHANGED gateVars
  <2>1. Quiet /\ Wiped /\ LimiterTypes'
        BY <1>1, <1>6, NothingIsQuiet DEF gateVars
  <2>. QED BY <1>1, <1>6, <2>1 DEF gateVars, GateTypeOK, LimiterTypes
<1>. QED BY <1>2, <1>3, <1>4, <1>5, <1>6 DEF GateNext

LEMMA NextGateInv == GateInv /\ [GateNext]_gateVars => GateInv'
<1> SUFFICES ASSUME GateInv, [GateNext]_gateVars PROVE GateInv'
    OBVIOUS
<1>1. GateTypeOK'
      BY GateSteps
<1>2. CASE Quiet
      BY <1>1, <1>2, QuietGateInv
<1>3. CASE now' = now /\ \E l \in Limiters, c \in Ips : Decide(l, c)
      BY <1>1, <1>3, CheckGateInv
<1>. QED BY <1>2, <1>3, GateSteps

LEMMA GateInvAlways == GateSpec => []GateInv
BY InitGateInv, NextGateInv, PTL DEF GateSpec

\* The types of the gate's state, and no limiter's map past its bound.
THEOREM GateTypeCorrect == GateSpec => []GateTypeOK
<1>1. GateInv => GateTypeOK
      BY DEF GateInv
<1>. QED BY <1>1, GateInvAlways, PTL

\* WindowBound: no more than Limit requests of a client in any window, whatever
\* the limits, the clock and the clients.
THEOREM GateWindowBound == GateSpec => []WindowBound
<1>1. GateInv => WindowBound
      BY DEF GateInv
<1>. QED BY <1>1, GateInvAlways, PTL

\* RefusalEarned: behind every refusal stand Limit requests admitted within the
\* window.
THEOREM GateRefusalEarned == GateSpec => []RefusalEarned
<1>1. GateInv => RefusalEarned
      BY DEF GateInv
<1>. QED BY <1>1, GateInvAlways, PTL

\* RetryAfterSuffices: a client that waits as told is admitted.
THEOREM GateRetryAfterSuffices == GateSpec => []RetryAfterSuffices
<1>1. GateInv => RetryAfterSuffices
      BY DEF GateInv
<1>. QED BY <1>1, GateInvAlways, PTL

\* The client an admission pushes out has been idle while all others came.
LEMMA PushedOutInCrowd ==
    ASSUME GateInv, NEW l \in Limiters, NEW c \in Ips, NEW ok \in BOOLEAN,
           NEW wait \in Nat, NEW gone \in SUBSET Ips, Outcome(l, c, ok, wait, gone),
           Effect(l, c, ok, wait, gone), NEW d \in gone
    PROVE  Cardinality(Since(l, d)') >= MaxIps
<1>1. /\ GateTypeOK /\ PlaceIsLast /\ KeptAdmitted
      /\ MaxIps \in Nat /\ Len(log) \in Nat
      BY GateConstants DEF GateInv, Effect
<1> DEFINE map == Touched(hits[l], c, Counted(l, c, ok))
<1>2. d \in Present(map) /\ Cardinality(Present(map)) > MaxIps
      /\ \A e \in Present(map) : map[d].touched <= map[e].touched
      BY DEF Outcome, Evicted
<1>3. /\ map[c].touched = Len(log) + 1
      /\ \A e \in Ips \ {c} : map[e] = hits[l][e]
      BY <1>1 DEF Touched, GateTypeOK
<1>4. d \in Ips \ {c}
      BY DEF Effect
<1> HIDE DEF map
<1>5. ASSUME NEW e \in Present(map), e # d
      PROVE  e \in Since(l, d)'
  <2>1. PICK i : i = map[e].touched
        OBVIOUS
  <2>2. e \in Ips /\ i > 0
        BY <2>1 DEF Present
  <2>3. i \in Numbers' /\ log'[i].by = l /\ log'[i].ip = e
    <3>1. CASE e = c
          BY <1>1, <1>3, <2>1, <3>1 DEF Effect, Numbers
    <3>2. CASE e # c
      <4>1. i = hits[l][e].touched
            BY <1>3, <2>1, <2>2, <3>2
      <4>2. i \in Numbers /\ Of(i, l, e)
            BY <1>1, <2>2, <4>1 DEF PlaceIsLast
      <4>. QED BY <1>1, <4>2 DEF Effect, Of, Numbers
    <3>. QED BY <3>1, <3>2
  <2>4. ASSUME NEW j \in Numbers', log'[j].by = l, log'[j].ip = d
        PROVE  j < i
    <3>1. ~ (log'[j] = Written(l, c, ok, wait))
          BY <1>4, <2>4 DEF Written
    <3>2. j \in Numbers /\ log'[j] = log[j]
          BY <3>1, EffectLog, Zenon
    <3>3. hits[l][d].touched = map[d].touched /\ map[d].touched > 0
          BY <1>2, <1>3, <1>4 DEF Present
    <3>4. j <= map[d].touched /\ map[d].touched \in Numbers
          BY <1>1, <1>4, <2>4, <3>2, <3>3 DEF PlaceIsLast, Of
    <3>5. map[d].touched <= i
          BY <1>2, <2>1
    <3>6. j # i
          BY <1>5, <2>3, <2>4
    <3>. QED BY <1>1, <2>3, <3>2, <3>4, <3>5, <3>6 DEF Effect, Numbers
  <2>. QED BY <2>3, <2>4 DEF Since, Numbers
<1>6. Since(l, d)' \subseteq Ips
  <2>1. \A i \in 1 .. Len(log') : log'[i] \in Check
        BY DEF Effect
  <2>2. \A i \in 1 .. Len(log') : log'[i].ip \in Ips
        BY <2>1 DEF Check
  <2>. QED BY <2>2 DEF Since
<1>7. IsFiniteSet(Since(l, d)') /\ Cardinality(Since(l, d)') \in Nat
  <2>1. IsFiniteSet(Since(l, d)')
        BY <1>6, GateConstants, FS_Subset
  <2>. QED BY <2>1, FS_CardinalityType
<1>8. IsFiniteSet(Present(map)) /\ Cardinality(Present(map)) \in Nat
      BY PresentFinite
<1>9. /\ IsFiniteSet(Present(map) \ {d})
      /\ Cardinality(Present(map) \ {d}) = Cardinality(Present(map)) - 1
      BY <1>2, <1>8, FS_RemoveElement
<1>10. Present(map) \ {d} \subseteq Since(l, d)'
       BY <1>5
<1>11. Cardinality(Present(map) \ {d}) <= Cardinality(Since(l, d)')
       BY <1>7, <1>10, FS_Subset
<1>. QED BY <1>1, <1>2, <1>7, <1>8, <1>9, <1>11

\* ForgottenOnlyInCrowd: while a limiter remembers anyone, it forgets a client
\* only after MaxIps others came.
THEOREM GateForgottenOnlyInCrowd == GateSpec => ForgottenOnlyInCrowd
<1>1. ASSUME GateInv, [GateNext]_gateVars, NEW l \in Limiters, NEW c \in Ips,
             life'[l][c] # life[l][c], Present(hits[l])' # {}
      PROVE  Cardinality(Since(l, c)') >= MaxIps
  <2>1. ~ Wiped
        BY <1>1 DEF Wiped
  <2>2. PICK m \in Limiters, d \in Ips : Decide(m, d)
        BY <1>1, <2>1, GateSteps
  <2>3. GateTypeOK /\ KeptAdmitted /\ PlaceIsLast
        BY <1>1 DEF GateInv
  <2>4. PICK ok \in BOOLEAN, wait \in Nat, gone \in SUBSET Ips :
           Outcome(m, d, ok, wait, gone)
        BY <2>2, <2>3, DecideIsOutcome
  <2>5. Effect(m, d, ok, wait, gone)
        BY <2>3, <2>4, OutcomeEffect
  <2>6. l = m /\ c \in gone
        BY <1>1, <2>5 DEF Effect
  <2>. QED BY <1>1, <2>4, <2>5, <2>6, PushedOutInCrowd
<1>2. GateInv /\ [GateNext]_gateVars =>
          [\A l \in Limiters, c \in Ips :
              life'[l][c] # life[l][c] /\ Present(hits[l])' # {}
                  => Cardinality(Since(l, c)') >= MaxIps]_gateVars
      BY <1>1
<1>. QED BY <1>2, GateInvAlways, PTL DEF GateSpec, ForgottenOnlyInCrowd
=============================================================================
