----------------------------- MODULE RailwaySync -----------------------------
(***************************************************************************)
(* Registering a paid tenant on the agent backend ("Railway").  Four paths  *)
(* of the worker do it and share no lock:                                  *)
(*   - Stripe webhook deliveries, duplicated and concurrent at will;       *)
(*   - the operator's retry endpoint;                                      *)
(*   - the operator's key rotation;                                        *)
(*   - the reconciler, a cron tick over a candidate list scanned at its    *)
(*     start.                                                              *)
(* Each registers over HTTP, then writes the returned api_key into D1, then *)
(* stamps railway_synced_at: three awaits, and the response may be lost     *)
(* after the backend has committed.  A worker that dies between two awaits  *)
(* takes the failing branch of its next step.                              *)
(***************************************************************************)
EXTENDS Integers, Sequences, FiniteSets, Functions

CONSTANTS
    Tenants,      \* slugs
    Kv,           \* Kv[t]: the slug in the KV record kept under the domain of
                  \* t's D1 row, another one when two tenants took the domain
    Profiled,     \* tenants whose domain's KV record carries a wizard profile
    NoTenant,     \* no candidate is being worked on
    BatchSize,    \* BATCH_SIZE, the LIMIT of the scan
    Deliveries,   \* webhook deliveries
    Retries,      \* calls of POST /admin/onboard/retry-railway
    Rotations,    \* calls of POST /admin/onboard/rotate-railway-key
    For,          \* the tenant each of those is about: target_slug of a rotation
    From,         \* railway_slug of a rotation
    MaxFaults     \* bound: lost responses, refusals and failed D1 writes

Calls == Deliveries \cup Retries \cup Rotations

ASSUME SyncAssumption ==
    /\ Profiled \subseteq Tenants
    /\ Kv \in [Tenants -> Tenants]
    /\ NoTenant \notin Tenants
    /\ IsFiniteSet(Tenants)
    /\ BatchSize \in Nat \ {0}
    /\ For \in [Calls -> Tenants]
    /\ From \in [Rotations -> Tenants]
    /\ MaxFaults \in Nat
    /\ Retries \cap Deliveries = {}
    /\ Rotations \cap (Deliveries \cup Retries) = {}

VARIABLES
    railway,   \* the backend's rows of a tenant: key i has slug suffix i - 1
    issued,    \* issued[k]: the tenant that key k was minted for
    d1,        \* the worker's businesses rows
    pc,        \* webhook deliveries, retries and rotations
    got,       \* the api_key such a call received
    tick,      \* the reconciler: its step, its remaining candidates, the one at
               \* hand, the key received for it
    faults

vars == <<railway, issued, d1, pc, got, tick, faults>>

Pending == 0                       \* the placeholder api_key 'pending'
Keys    == 0 .. Len(issued)
Steps   == {"idle", "register", "writeKey", "writeMarker", "closed"}
TickSteps == {"idle", "next", "register", "writeKey", "writeMarker"}

TypeOK ==
    /\ railway \in [Tenants -> Seq(Nat)]
    /\ issued \in Seq(Tenants)
    /\ d1 \in [Tenants -> [exists : BOOLEAN, paid : BOOLEAN,
                           key : Nat, synced : BOOLEAN]]
    /\ pc \in [Calls -> Steps]
    /\ got \in [Calls -> Nat]
    /\ tick \in [pc : TickSteps, todo : SUBSET Tenants,
                 cur : Tenants \cup {NoTenant}, key : Nat]
    /\ tick.cur = NoTenant => tick.pc \in {"idle", "next"}
    /\ faults \in 0 .. MaxFaults

\* A checkout may have left no D1 row: registerBusinessInD1 swallows errors.
Init ==
    /\ railway = [t \in Tenants |-> << >>]
    /\ issued = << >>
    /\ d1 \in [Tenants -> [exists : BOOLEAN, paid : {FALSE},
                           key : {Pending}, synced : {FALSE}]]
    /\ pc = [c \in Calls |-> "idle"]
    /\ got = [c \in Calls |-> Pending]
    /\ tick = [pc |-> "idle", todo |-> {}, cur |-> NoTenant, key |-> Pending]
    /\ faults = 0
-----------------------------------------------------------------------------
(* The backend. *)

NewKey == Len(issued) + 1

\* Mutant of AddRow: re-registering a slug replaces its row.
UpsertRow(t) ==
    /\ railway' = [railway EXCEPT ![t] = <<NewKey>>]
    /\ issued' = Append(issued, t)

\* POST /register: the first free suffix of the slug, always with a fresh key.
AddRow(t) ==
    /\ railway' = [railway EXCEPT ![t] = Append(@, NewKey)]
    /\ issued' = Append(issued, t)

\* POST /agents/:slug/rotate-key
ReplaceKey(t, i) ==
    /\ railway' = [railway EXCEPT ![t][i] = NewKey]
    /\ issued' = Append(issued, t)

\* The request never took effect: refused, unreachable, or not sent.
NoCall == UNCHANGED <<railway, issued>>

Fault == faults < MaxFaults /\ faults' = faults + 1
-----------------------------------------------------------------------------
(* D1: an UPDATE of a missing row changes nothing. *)

Update(t, row) ==
    d1' = IF d1[t].exists THEN [d1 EXCEPT ![t] = row] ELSE d1

\* Mutant of StoreKey: WHERE domain = ? in place of WHERE slug = ?.
StoreKeyByDomain(t, k) ==
    d1' = [u \in Tenants |-> IF d1[u].exists /\ Kv[u] = Kv[t]
                             THEN [d1[u] EXCEPT !.key = k] ELSE d1[u]]

StoreKey(t, k) == Update(t, [d1[t] EXCEPT !.key = k])
StoreMarker(t) == Update(t, [d1[t] EXCEPT !.synced = TRUE])
-----------------------------------------------------------------------------
(* Calls of the webhook and of the two operator endpoints. *)

Goto(c, step) == pc' = [pc EXCEPT ![c] = step]

\* The slug a call names to the backend: the webhook's own, that of the record a
\* retry finds by domain, or the one an operator gives a rotation.  The key is
\* stored under For[c], which nobody compares with it.
Asks(c) == CASE c \in Deliveries -> For[c]
             [] c \in Retries    -> Kv[For[c]]
             [] c \in Rotations  -> From[c]

\* The webhook records the Stripe ids; a D1 error is logged and ignored.
StampPaid(c) ==
    /\ c \in Deliveries
    /\ pc[c] = "idle"
    /\ Goto(c, "register")
    /\ \/ /\ Update(For[c], [d1[For[c]] EXCEPT !.paid = TRUE])
          /\ UNCHANGED faults
       \/ /\ Fault
          /\ UNCHANGED d1
    /\ UNCHANGED <<railway, issued, got, tick>>

\* The endpoints answer 404 without a row, the retry 422 without a profile.
OperatorStart(c) ==
    /\ c \in Retries \cup Rotations
    /\ pc[c] = "idle"
    /\ Goto(c, IF d1[For[c]].exists /\ (c \in Retries => For[c] \in Profiled)
               THEN "register" ELSE "closed")
    /\ UNCHANGED <<railway, issued, d1, got, tick, faults>>

\* registerBusinessOnRailway, and its three outcomes.
Register(c) ==
    /\ c \in Deliveries \cup Retries
    /\ pc[c] = "register"
    /\ \/ /\ AddRow(Asks(c))
          /\ got' = [got EXCEPT ![c] = NewKey]
          /\ Goto(c, "writeKey")
          /\ UNCHANGED faults
       \/ /\ AddRow(Asks(c)) \/ NoCall
          /\ Fault
          /\ Goto(c, "closed")
          /\ UNCHANGED got
    /\ UNCHANGED <<d1, tick>>

\* The rotation of one of the backend rows of the slug it is given.
Rotate(c) ==
    /\ c \in Rotations
    /\ pc[c] = "register"
    /\ \/ /\ \E i \in DOMAIN railway[Asks(c)] : ReplaceKey(Asks(c), i)
          /\ got' = [got EXCEPT ![c] = NewKey]
          /\ Goto(c, "writeKey")
          /\ UNCHANGED faults
       \/ /\ \/ \E i \in DOMAIN railway[Asks(c)] : ReplaceKey(Asks(c), i)
             \/ NoCall
          /\ Fault
          /\ Goto(c, "closed")
          /\ UNCHANGED got
       \/ /\ railway[Asks(c)] = << >>
          /\ NoCall
          /\ Goto(c, "closed")
          /\ UNCHANGED <<got, faults>>
    /\ UNCHANGED <<d1, tick>>

\* Mutant of WriteKey: the error is swallowed and the marker still stamped.
WriteKeyOrCarryOn(c) ==
    /\ pc[c] = "writeKey"
    /\ Goto(c, "writeMarker")
    /\ \/ StoreKey(For[c], got[c]) /\ UNCHANGED faults
       \/ Fault /\ UNCHANGED d1
    /\ UNCHANGED <<railway, issued, got, tick>>

\* updateBusinessApiKey; a throw ends the registration part of the handler.
WriteKey(c) ==
    /\ pc[c] = "writeKey"
    /\ \/ /\ StoreKey(For[c], got[c])
          /\ Goto(c, "writeMarker")
          /\ UNCHANGED faults
       \/ /\ Fault
          /\ Goto(c, "closed")
          /\ UNCHANGED d1
    /\ UNCHANGED <<railway, issued, got, tick>>

\* The best-effort railway_synced_at stamp.
WriteMarker(c) ==
    /\ pc[c] = "writeMarker"
    /\ Goto(c, "closed")
    /\ \/ StoreMarker(For[c]) /\ UNCHANGED faults
       \/ Fault /\ UNCHANGED d1
    /\ UNCHANGED <<railway, issued, got, tick>>
-----------------------------------------------------------------------------
(* The reconciler. *)

\* Mutant of Candidate: the placeholder guard the reconciler's header describes.
CandidateWithPlaceholder(t) ==
    d1[t].exists /\ d1[t].paid /\ ~ d1[t].synced /\ d1[t].key = Pending

Candidate(t) == d1[t].exists /\ d1[t].paid /\ ~ d1[t].synced

Atmost(m, n) == IF m < n THEN m ELSE n

\* The SELECT ... LIMIT of one tick; it has no ORDER BY, so which candidates are
\* left out, and the order of the others, is up to the database.
Scan ==
    /\ tick.pc = "idle"
    /\ LET found == {t \in Tenants : Candidate(t)}
       IN /\ found # {}
          /\ \E batch \in SUBSET found :
                /\ Cardinality(batch) = Atmost(Cardinality(found), BatchSize)
                /\ tick' = [pc |-> "next", todo |-> batch, cur |-> NoTenant,
                            key |-> Pending]
    /\ UNCHANGED <<railway, issued, d1, pc, got, faults>>

\* The reconciler at a step, with a candidate at hand but no key for it.
Give(step, t) ==
    [pc |-> step, todo |-> tick.todo \ {t}, cur |-> t, key |-> Pending]

\* The loop head: end the tick, skip a tenant without a profile, or take it.
NextCandidate ==
    /\ tick.pc = "next"
    /\ \/ /\ tick.todo = {}
          /\ tick' = Give("idle", NoTenant)
       \/ \E t \in tick.todo :
             tick' = Give(IF t \in Profiled THEN "register" ELSE "next", t)
    /\ UNCHANGED <<railway, issued, d1, pc, got, faults>>

\* The reconciler has a key and goes on to store it, or to stamp the marker.
Carry(step, k) ==
    [pc |-> step, todo |-> tick.todo, cur |-> tick.cur, key |-> k]

\* The record found under the candidate's domain is registered, whatever its slug.
TickRegister ==
    /\ tick.pc = "register"
    /\ \/ /\ AddRow(Kv[tick.cur])
          /\ tick' = Carry("writeKey", NewKey)
          /\ UNCHANGED faults
       \/ /\ AddRow(Kv[tick.cur]) \/ NoCall
          /\ Fault
          /\ tick' = Give("next", NoTenant)
    /\ UNCHANGED <<d1, pc, got>>

\* Mutant of TickWriteKey: the key goes to another candidate of the batch.
TickWriteKeyToOther ==
    /\ tick.pc = "writeKey"
    /\ \E t \in tick.todo \cup {tick.cur} : StoreKey(t, tick.key)
    /\ tick' = Carry("writeMarker", tick.key)
    /\ UNCHANGED <<railway, issued, pc, got, faults>>

TickWriteKey ==
    /\ tick.pc = "writeKey"
    /\ \/ /\ StoreKey(tick.cur, tick.key)
          /\ tick' = Carry("writeMarker", tick.key)
          /\ UNCHANGED faults
       \/ /\ Fault
          /\ tick' = Give("next", NoTenant)
          /\ UNCHANGED d1
    /\ UNCHANGED <<railway, issued, pc, got>>

TickWriteMarker ==
    /\ tick.pc = "writeMarker"
    /\ tick' = Give("next", NoTenant)
    /\ \/ StoreMarker(tick.cur) /\ UNCHANGED faults
       \/ Fault /\ UNCHANGED d1
    /\ UNCHANGED <<railway, issued, pc, got>>

Tick == Scan \/ NextCandidate \/ TickRegister \/ TickWriteKey \/ TickWriteMarker

Step(c) ==
    \/ StampPaid(c)
    \/ OperatorStart(c)
    \/ Register(c)
    \/ Rotate(c)
    \/ WriteKey(c)
    \/ WriteMarker(c)

Next == Tick \/ \E c \in Calls : Step(c)

\* The cron fires every fifteen minutes and its handler runs to the end unless
\* it meets a fault; nothing obliges Stripe or an operator to call.
Spec == Init /\ [][Next]_vars /\ WF_vars(Tick)
-----------------------------------------------------------------------------
\* The slugs a key of tenant t can have been minted for.
Sources(t) == {t, Kv[t]} \cup {From[c] : c \in {r \in Rotations : For[r] = t}}

\* OWN KEY.  A tenant's D1 key, and every key on its way there, was minted for
\* that tenant, for the record kept under its domain, or for the slug an operator
\* gave a rotation: neither the reconciler's loop over candidates nor late handlers
\* hand a tenant the key of anybody else.
OwnKey ==
    LET minted(S, k) == (k = Pending) \/ (k \in Keys /\ issued[k] \in S)
    IN /\ \A t \in Tenants : minted(Sources(t), d1[t].key)
       /\ \A c \in Calls : minted({Asks(c)}, got[c])
       /\ tick.pc \in {"writeKey", "writeMarker"} => minted({Kv[tick.cur]}, tick.key)

\* MARKER AFTER KEY.  railway_synced_at, which takes a tenant out of the
\* reconciler's reach for good, is only ever set on a row with a backend key.
SyncedHasKey == \A t \in Tenants : d1[t].synced => d1[t].key # Pending

\* DEAD KEYS.  Registrations however duplicated, late or lost never leave D1 with a
\* key that no backend row of the slug it was minted for accepts; only a rotation
\* of that slug does, whichever row the new key then goes to.
DeadKeyOnlyByRotation ==
    \A t \in Tenants :
        LET k == d1[t].key IN
        \/ k = Pending
        \/ k \in Range(railway[issued[k]])
        \/ \E c \in Rotations : From[c] = issued[k] /\ pc[c] # "idle"

\* SELF-HEALING.  A paid tenant with a row and a profile is eventually marked
\* synced, although responses are lost and D1 writes fail, finitely often.
PaidIsReconciled ==
    \A t \in Profiled : Candidate(t) ~> d1[t].synced
-----------------------------------------------------------------------------
(* What comments of the code claim and the code does not do. *)

\* "distinguish 'synced and good' from 'stuck' ... Railway 401s on the stale
\* api_key" (migrations/0013_railway_synced_at.sql), "Railway will return the
\* same api_key for the same slug" (railwayReconciler.ts): a synced tenant's key
\* authenticates for the tenant's own slug, which is suffix 0.
SyncedTenantAuthenticates ==
    \A t \in Tenants :
        d1[t].synced => railway[t] # << >> /\ d1[t].key = railway[t][1]
=============================================================================
