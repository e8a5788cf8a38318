------------------------------- MODULE Budget -------------------------------
(***************************************************************************)
(* Daily AI spend: the fleet-wide kill switch and the per-tenant cap, and  *)
(* the routes that reserve from them before a paid call and settle after   *)
(* it.  Several server instances share one SQLite database, so between two *)
(* SQL statements of one request any statement of another request may run; *)
(* the paid call itself is awaited.                                        *)
(*                                                                         *)
(* Three kinds of request reserve before a paid call:                      *)
(*   gated      verify-rating, profile-score, ai-recommendations: reserve  *)
(*              the tenant ledger, then the fleet ledger                   *)
(*   bot        POST /agents/:slug/query: reserve the fleet ledger only,   *)
(*              record on both                                             *)
(*   fleet      format-judge, demo, citation readiness: fleet ledger only  *)
(* The MCP tool and the platform-context pages pay without any ledger and  *)
(* have no state to model.                                                 *)
(***************************************************************************)
EXTENDS BudgetLedger, FiniteSets

CONSTANTS
    Calls,       \* requests, each used at most once
    Slugs,       \* tenants
    Fleet,       \* the account of the fleet-wide kill switch
    FleetCap,    \* DAILY_BUDGET_USD
    TenantCap,   \* PER_TENANT_DAILY_BUDGET_USD
    Kinds,       \* the kinds of request that arrive
    Stake,       \* reservation of each kind
    Costs,       \* what a paid call may turn out to cost
    LastDay      \* bound: the number of midnights modelled

AllKinds == {"gated", "bot", "fleet"}
Days     == 0 .. LastDay
NoDay    == -1
Accounts == Slugs \cup {Fleet}
CapOf(a) == IF a = Fleet THEN FleetCap ELSE TenantCap

ASSUME BudgetAssumption ==
    /\ Fleet \notin Slugs
    /\ FleetCap \in Nat
    /\ TenantCap \in Nat
    /\ Kinds \subseteq AllKinds
    /\ Stake \in [AllKinds -> Nat]
    /\ Costs \subseteq Nat
    /\ LastDay \in Nat
    /\ IsFiniteSet(Calls) /\ IsFiniteSet(Slugs)

VARIABLES
    day,        \* utcDateKey()
    row,        \* budget_state and tenant_budget_state
    call,       \* the requests in flight
    overdraft,  \* history: headroom a settlement freed without owning it
    orphaned,   \* history: stakes left on a row by a crash or by midnight
    leaked      \* history: stakes left on a row by a handler that threw

rows  == <<row, overdraft, orphaned, leaked>>
vars  == <<day, row, call, overdraft, orphaned, leaked>>

Phases == {"idle", "tenantHeld", "rollback", "running", "fleetRecorded",
           "settled", "fleetReleased", "fleetCaught", "closed"}

CallRecord == [pc : Phases, kind : AllKinds, slug : Slugs,
               fleetDay : Days \cup {NoDay}, tenantDay : Days \cup {NoDay},
               cost : Costs \cup {0}]

TypeOK ==
    /\ day \in Days
    /\ row \in [Accounts -> [Days -> Row]]
    /\ call \in [Calls -> CallRecord]
    /\ overdraft \in [Accounts -> [Days -> Nat]]
    /\ orphaned \in [Accounts -> [Days -> Nat]]
    /\ leaked \in [Accounts -> [Days -> Nat]]

Zero == [a \in Accounts |-> [d \in Days |-> 0]]

Init ==
    /\ day = 0
    /\ row = [a \in Accounts |-> [d \in Days |-> FreshRow]]
    /\ call \in [Calls -> {[pc |-> "idle", kind |-> k, slug |-> s,
                            fleetDay |-> NoDay, tenantDay |-> NoDay, cost |-> 0]
                           : k \in Kinds, s \in Slugs}]
    /\ overdraft = Zero
    /\ orphaned = Zero
    /\ leaked = Zero
-----------------------------------------------------------------------------
(* The ledger operations.  They always address the row of the current day. *)

MaxOf(c) == Stake[call[c].kind]

\* The stake request c has on the row of account a for day d.
StakeOn(c, a, d) ==
    IF \/ a = Fleet /\ d = call[c].fleetDay
       \/ a = call[c].slug /\ d = call[c].tenantDay
    THEN MaxOf(c) ELSE 0

Headroom(a, c) == Fits(row[a][day], MaxOf(c), CapOf(a))

\* reserve / reserveForSlug when the conditional UPDATE changed one row
Hold(a, c) ==
    /\ row' = [row EXCEPT ![a][day] = Reserved(@, MaxOf(c))]
    /\ UNCHANGED <<overdraft, orphaned, leaked>>

\* History of a settlement: origin is the day whose row carries the stake of
\* this call, or NoDay when the call has no stake on account a.
Account(a, c, actual, origin) ==
    /\ overdraft' = [overdraft EXCEPT ![a][day] =
                        @ + IF origin = day THEN NonNeg(actual - MaxOf(c))
                                            ELSE Larger(MaxOf(c), actual)]
    /\ orphaned' = IF origin \in {NoDay, day} THEN orphaned
                   ELSE [orphaned EXCEPT ![a][origin] = @ + MaxOf(c)]
    /\ UNCHANGED leaked

\* record / recordForSlug
Record(a, c, actual, origin) ==
    /\ row' = [row EXCEPT ![a][day] = Recorded(@, MaxOf(c), actual)]
    /\ Account(a, c, actual, origin)

\* release / releaseForSlug
Release(a, c, origin) ==
    /\ row' = [row EXCEPT ![a][day] = Released(@, MaxOf(c))]
    /\ Account(a, c, 0, origin)
-----------------------------------------------------------------------------
(* The routes. *)

Move(c, pc) == call' = [call EXCEPT ![c].pc = pc]

\* First gate of a gated route: refused with 503 scope "tenant", or held.
ReserveTenant(c) ==
    /\ call[c].pc = "idle"
    /\ call[c].kind = "gated"
    /\ \/ /\ Headroom(call[c].slug, c)
          /\ Hold(call[c].slug, c)
          /\ call' = [call EXCEPT ![c].pc = "tenantHeld", ![c].tenantDay = day]
       \/ /\ ~ Headroom(call[c].slug, c)
          /\ Move(c, "closed")
          /\ UNCHANGED rows
    /\ UNCHANGED day

\* The fleet gate: second for a gated route, the only one for bot and fleet.
ReserveFleet(c) ==
    /\ \/ call[c].pc = "tenantHeld"
       \/ call[c].pc = "idle" /\ call[c].kind \in {"bot", "fleet"}
    /\ \/ /\ Headroom(Fleet, c)
          /\ Hold(Fleet, c)
          /\ call' = [call EXCEPT ![c].pc = "running", ![c].fleetDay = day]
       \/ /\ ~ Headroom(Fleet, c)
          /\ Move(c, IF call[c].kind = "gated" THEN "rollback" ELSE "closed")
          /\ UNCHANGED rows
    /\ UNCHANGED day

\* Mutant of Rollback: the 503 is answered and the stake stays on the row.
RollbackForgets(c) ==
    /\ call[c].pc = "rollback"
    /\ call' = [call EXCEPT ![c].pc = "closed", ![c].tenantDay = NoDay]
    /\ UNCHANGED <<day, rows>>

\* The fleet refused: give the tenant stake back and answer 503.
Rollback(c) ==
    /\ call[c].pc = "rollback"
    /\ Release(call[c].slug, c, call[c].tenantDay)
    /\ call' = [call EXCEPT ![c].pc = "closed", ![c].tenantDay = NoDay]
    /\ UNCHANGED day

\* The paid call returned: close the fleet reservation with the actual cost.
RecordFleet(c) ==
    /\ call[c].pc = "running"
    /\ \E actual \in Costs :
          /\ Record(Fleet, c, actual, call[c].fleetDay)
          /\ call' = [call EXCEPT
                ![c].pc = IF call[c].kind = "fleet" THEN "settled"
                                                     ELSE "fleetRecorded",
                ![c].fleetDay = NoDay, ![c].cost = actual]
    /\ UNCHANGED day

\* Mutant of RecordTenant: records the estimate instead of the actual cost.
RecordTenantEstimate(c) ==
    /\ call[c].pc = "fleetRecorded"
    /\ Record(call[c].slug, c, MaxOf(c), call[c].tenantDay)
    /\ call' = [call EXCEPT ![c].pc = "settled", ![c].tenantDay = NoDay]
    /\ UNCHANGED day

\* recordForSlug.  A bot query reaches it without ever having reserved there.
RecordTenant(c) ==
    /\ call[c].pc = "fleetRecorded"
    /\ Record(call[c].slug, c, call[c].cost, call[c].tenantDay)
    /\ call' = [call EXCEPT ![c].pc = "settled", ![c].tenantDay = NoDay]
    /\ UNCHANGED day

\* The fleet stake is given back: by the catch block, when the paid call or, with
\* both ledgers settled, building the response threw; or in the try block itself
\* (verify-rating refused before the paid call, agent.ts:517-520).  A gated route
\* then releases the tenant stake.
ReleaseFleet(c) ==
    /\ call[c].pc \in {"running", "settled"}
    /\ Release(Fleet, c, call[c].fleetDay)
    /\ \/ /\ call[c].kind # "gated"
          /\ call' = [call EXCEPT ![c].pc = "closed", ![c].fleetDay = NoDay]
       \/ /\ call[c].kind = "gated"
          /\ call' = [call EXCEPT ![c].pc = "fleetCaught", ![c].fleetDay = NoDay]
       \/ /\ call[c].kind = "gated" /\ call[c].pc = "running"
          /\ call' = [call EXCEPT ![c].pc = "fleetReleased", ![c].fleetDay = NoDay]
    /\ UNCHANGED day

\* After a release in the try block the response may still throw and be caught.
ReleaseTenant(c) ==
    /\ call[c].pc \in {"fleetReleased", "fleetCaught"}
    /\ Release(call[c].slug, c, call[c].tenantDay)
    /\ call' = [call EXCEPT
          ![c].pc = IF call[c].pc = "fleetReleased" THEN "settled" ELSE "closed",
          ![c].tenantDay = NoDay]
    /\ UNCHANGED day

Respond(c) ==
    /\ call[c].pc = "settled"
    /\ Move(c, "closed")
    /\ UNCHANGED <<day, rows>>

\* c ends and its stakes, whatever they are, stay where they are.
Abandon(c) ==
    /\ call' = [call EXCEPT ![c].pc = "closed", ![c].fleetDay = NoDay,
                            ![c].tenantDay = NoDay]
    /\ UNCHANGED <<day, row, overdraft>>

WithStakes(history, c) ==
    [a \in Accounts |-> [d \in Days |-> history[a][d] + StakeOn(c, a, d)]]

\* ai-recommendations writes its cache after the paid call and before the records,
\* outside the try block: when that throws, nothing settles the call.
ThrowUncaught(c) ==
    /\ call[c].pc = "running"
    /\ call[c].kind = "gated"
    /\ Abandon(c)
    /\ leaked' = WithStakes(leaked, c)
    /\ UNCHANGED orphaned

\* The instance dies while it serves c.
Crash(c) ==
    /\ call[c].pc \notin {"idle", "closed"}
    /\ Abandon(c)
    /\ orphaned' = WithStakes(orphaned, c)
    /\ UNCHANGED leaked

\* UTC midnight: from now on every mutator addresses the next day's row.
Midnight ==
    /\ day < LastDay
    /\ day' = day + 1
    /\ UNCHANGED <<call, rows>>

Step(c) ==
    \/ ReserveTenant(c)
    \/ ReserveFleet(c)
    \/ Rollback(c)
    \/ RecordFleet(c)
    \/ RecordTenant(c)
    \/ ReleaseFleet(c)
    \/ ReleaseTenant(c)
    \/ Respond(c)
    \/ ThrowUncaught(c)

Next == Midnight \/ \E c \in Calls : Step(c) \/ Crash(c)

Spec == Init /\ [][Next]_vars
-----------------------------------------------------------------------------
(* What the ledgers promise. *)

\* The sum of a function into Nat over its domain, counted one cent at a time.
Cents(f) == UNION {{x} \X (1 .. f[x]) : x \in DOMAIN f}
Total(f) == Cardinality(Cents(f))

\* The stakes of the requests in flight, by account and day.
held == [a \in Accounts |-> [d \in Days |->
            Total([c \in Calls |-> StakeOn(c, a, d)])]]

\* What a set of accounts spent on all days together.
SpentOn(A) == Total([p \in A \X Days |-> row[p[1]][p[2]].spent])

\* CAP.  On every row, what was spent plus what live requests may still spend
\* stays within the cap, except for headroom that settlements freed without
\* owning it (a bot query closing a tenant reservation it never made, a request
\* settling after midnight on the next day's row, a release after the record)
\* and for costs above the stake.  A crash never widens the cap.
CapBound ==
    \A a \in Accounts, d \in Days :
        row[a][d].spent + held[a][d] <= CapOf(a) + overdraft[a][d]

\* OWNERSHIP.  Every reserved cent of a row is the stake of a request in flight,
\* or was stranded by a crash, by midnight or by a handler that threw between its
\* paid call and its records: no refusal, no caught failure and no success leaks
\* headroom of the day it runs in.
ReservedIsOwned ==
    \A a \in Accounts, d \in Days :
        row[a][d].reserved <= held[a][d] + orphaned[a][d] + leaked[a][d]

\* ATTRIBUTION.  The admin view's per-tenant spenders never add up to more than
\* the fleet-wide spend, also when a request dies between its two records or
\* records its two halves on different days.
AttributedWithinFleet == SpentOn(Slugs) <= SpentOn({Fleet})
=============================================================================
