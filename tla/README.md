# AdvocateMCP, specified in TLA+

AdvocateMCP gives local businesses an agent that AI assistants can query, book and
hand over to. It consists of an edge **worker** (Cloudflare: `src/worker`, with D1, KV
and a Durable Object) that sells, onboards and serves tenants, and a **backend**
(Express + SQLite on Railway: `src/server`, called "Railway" in the code) that holds the
agents and the MCP tools. This directory models the parts of both whose correctness
depends on the order in which requests, webhooks, cron ticks and crashes meet.

Contents: [inventory](#inventory) · [modules](#modules-and-how-they-correspond-to-the-code)
· [runs](#runs) · [bounds](#bounds) · [fairness](#fairness) · [proofs](#proofs) ·
[divergences](#where-code-and-comments-disagree) · [not modelled](#what-is-not-modelled)
· [plan](#plan)

## Inventory

| Component | State | Operations | Hard behaviour | Correct when | Module |
|---|---|---|---|---|---|
| **Spend ledgers** `server/src/middleware/{budgetKillSwitch,tenantBudget}.ts` and the paid routes | one SQLite row per UTC day: fleet `budget_state`, tenant `tenant_budget_state` | reserve (conditional UPDATE), record, release | two gates per request, the paid call awaited in between, several instances, crashes, midnight, `MAX(0, ...)` hiding mismatches | spend plus live stakes stays under the cap; what a row holds back is the stake of a live request or was stranded by a known cause | `Budget` |
| **Backend registration** `worker/src/routes/stripe.ts`, `worker/src/lib/railwayReconciler.ts`, `server/src/routes/register.ts` | D1 `businesses` (`api_key`, Stripe ids, `railway_synced_at`), backend `businesses` rows | webhook, operator retry, key rotation, reconciler tick | duplicate webhooks, lost responses, scans that go stale, no locks | every paid tenant ends up with a key, minted for a slug it may come from; keys die only by a rotation | `RailwaySync` |
| **Reservations** `server/src/mcp/tools/reserveSlot.ts`, `server/src/routes/a2a.ts`, `server/src/jobs/expirySweeper.ts` | `reservations`, `agent_requests`, signed tokens | reserve_slot (sweeps on entry), `/a2a/confirm` | idempotent retries racing, expiry only on demand, tokens valid after the hold lapsed, replayed audit rows | one reservation per key; a decided hold stays decided; conversions credited once | `Reservation`, `Hold` |
| **Callbacks and handoffs** `server/src/mcp/tools/{requestCallback,initiateHandoff}.ts`, `server/src/lib/notify.ts`, `/a2a/continue` | `callback_requests`, `handoffs`, `agent_requests` | the two tools, Twilio's answer, continue | an awaited SMS between duplicate test and INSERT, lost answers, crashes, routing edited meanwhile | same answer for the same key; no second text without a cause; what is filed is what happened | `Contact` |
| **Team** `worker/src/routes/team.ts`, `worker/src/lib/inviteToken.ts` | `user_business_access`, `users`, `sessions` | invite, remove, change role, accept | every D1 query awaited, check-then-act on seats and roles, demote-then-promote in two statements | ownership is handed on, invitations never overwrite a member, one password per invitation; seats, links and owners are kept up to named races | `Team`, `TeamHistory` |
| **Custom domains** `worker/src/routes/{onboard,domains,activate,clientSwitchDomain,stripe}.ts` | `TENANT_DATA` records and `BUSINESS_MAP` routes in KV, `businesses.domain` | onboard, free, checkout, webhook, verify, verify-all, disable, activate (customer, admin), backfill, switch | whole-record read-modify-write over awaits and several KV calls per handler, any of which may throw | an active record is routed, no customer takes a routed host, an activation keeps the status of the record | `Hostname` |
| **Weekly digest and monthly review** `server/src/jobs/{weeklyDigest,monthlyPerformanceReview}.ts`, `server/src/lib/resend.ts` | `radar_digests`, `monthly_review_dispatch` | batch, retry run, record success or error, unsubscribe | overlapping runs around an awaited mail, lost answers, crashes, backoff slots | no copy without a cause, no silent drop, a sent mail stays sent, a tried one settles | `Mailing` |
| **Google traffic feeds** `worker/src/cron/{ga4Sync,gscSync}.ts`, `worker/src/routes/portal.ts` | `ga4_connections`, `gsc_connections`, `traffic_daily`, `gsc_daily` | consent, disconnect, select property with backfill, resync, cron | a connection read minutes before it is stamped by slug, several writers of the same rows, reports with gaps | rows of a stamped sync show the selected property; nobody is reconnected | `TrafficSync` |
| **Rate limit of /mcp** `worker/src/lib/mcpRateLimit.ts`, `worker/src/lib/mcpRateLimitDO.ts`, `worker/src/index.ts` | a bounded map of sliding windows per limiter | check, evict, ask the Durable Object, fall back to the isolate | window edges, eviction of an active client, a Durable Object that counted but did not answer | no limiter admits more than its limit, nor refuses without reason | `McpGate` |
| **Checkout** `worker/src/routes/stripe.ts`, **activation tokens** `worker/src/routes/activate.ts` | D1 `businesses`, KV, Stripe sessions, activation tokens | start checkout, webhook, activate, resend | repeated or abandoned checkouts, single use against resend | one tenant per slug, a token activates once | KV side in `Hostname`, registration in `RailwaySync`; the rest not modelled |
| **Subscriptions, sessions and login, radar/insight/trial jobs, reputation and revenue, answers and prompts, backend rate limits, edge proxy and rendering, sites and admin pages** | | | little shared mutable protocol state | see [not modelled](#what-is-not-modelled) | |

How they interact: the worker's webhook and reconciler *call* the backend's `/register`
and `rotate-key` (`RailwaySync`) and *write* the KV records the domain handlers share
(`Hostname`); the backend's keys gate the tools; `reserve_slot` and `/a2a/confirm`
communicate through signed tokens and the `reservations` table, `initiate_handoff` and
`/a2a/continue` through the handoff row; the audit rows of all tools feed the nightly
reputation rollup; all paid routes share the spend ledgers; teams, checkout and
activation share the D1 `users` and `businesses` rows. PROJECT.json lists each hazard at
its line.

## Modules and how they correspond to the code

**`BudgetLedger`** - a day's row and the three statements on it: `Fits` and `Reserved` are
the `WHERE` and the `SET` of the conditional UPDATE, `Recorded` and `Released` the
clamped subtractions. Amounts are integers (a unit is any common divisor of the stakes).

**`Budget`** (extends it) - `row[account][day]` holds both tables; an account is a tenant
or the fleet. A call is one request: `gated` (tenant, then fleet: verify-rating,
profile-score, ai-recommendations), `bot` (`/agents/:slug/query`: fleet gate only, records
on both) or `fleet` (format-judge, demo, citation readiness). One action per SQL
statement: `ReserveTenant`, `ReserveFleet`, `Rollback`, `RecordFleet`, `RecordTenant`,
`ReleaseFleet`, `ReleaseTenant`; `Crash` and `Midnight` between any two. Statements
address the row of the current UTC day, whatever day the stake was put on. `ReleaseFleet` is
also the release before the paid call (`agent.ts:517-520`), after which the response may
still throw and be caught, and both stakes released again; `ThrowUncaught` is the throw of
ai-recommendations between its paid call and its records (`aiRecommendations.ts:714-733`),
which settles nothing. `held` sums the stakes of the live requests. History variables:
`overdraft` (headroom a settlement freed without owning it, and cost above the stake),
`orphaned` (stakes a crash or midnight stranded) and `leaked` (those of the uncaught
throw); they turn "roughly respects the cap" into an exact statement.

**`RailwaySync`** - `railway[t]` is the sequence of the tenant's backend rows (index =
slug suffix), `issued[k]` the slug key k was minted for, `d1[t]` the worker's row, `pc`/`got` the webhook deliveries, retries and
rotations, `tick` the reconciler. A path is three awaits: register, write the key, stamp
the marker; each may fail (`Fault`), and a registration may commit while its response is
lost. `Scan` is the `SELECT ... LIMIT`; the query has no ORDER BY, so which candidates a
batch leaves out, and the order of the others, is a free choice. The slug a path names to the
backend is not always the one it stores the key under, and no path compares them: the retry
and the reconciler find the KV record by the domain of the D1 row and register *its* slug
(`Kv`), a rotation takes two slugs from the operator (`From` and `For`), a webhook delivery
uses one and the same (`Asks`). `Kv` is fixed: what the domain handlers do to the record is
`Hostname`'s subject.

**`Hold`** - the abstract promise about one idempotency key: free, then held, then once
and for all confirmed or expired.

**`Reservation`** - implements `Hold`. A `reserve_slot` call runs `Sweep`, `Redact`,
`LookUp`, `Insert`, `Log`, `Stamp`, one SQL statement each; `Confirm(tok)` is the
conditional UPDATE of `/a2a/confirm`, `Credit` the stamping of the audit row found by
`findByRelatedId` (any of the newest when timestamps tie). Tokens are self-contained, so
`tokens` only grows and any fresh member may be presented, repeatedly. A row lapses by
the clock and becomes `expired` only when some call sweeps.

**`Contact`** - a `request_callback` replays the row on file or, before its await, either
files at once (routing `form` or none) or sends (`LookUp`, `Dispatch`); `Twilio` takes the
text, takes it and loses the answer, or refuses; `FinishCallback` inserts the row under
its primary key and the loser of a race throws. A handoff has a random id: the call names
the row. `Continue` credits the audit rows that carry the ticket. SQLite is synchronous,
so a step is what runs between two awaits; `Crash` ends every live call, and a text on its
way may still arrive.

**`Team`** - `role` is `user_business_access`, `account` and `password` the `users` row,
`sessions` the sessions named by the call that minted them. One action per D1 query;
each call chooses its caller and target when it begins, which is where the code reads
the caller's role. An admin acts as the owner of a tenant it is no member of.
**`TeamHistory`** runs beside it and records how its handlers disturb each other, so that
the properties can say up to what they hold: `overbooked` counts the invitations that saw a
free seat while others (`Booked`) were on their way to the last ones, `disturbed` the new
users whose invitation was cut short before the link or was not alone at work on the
address (`Inviting`), `linked` those ever given a link, `promoted` the removals whose target
became an owner after its role was read.

**`Hostname`** - one domain in its two variants (apex and www), the two KV namespaces, and
the eleven handlers that write them. A handler begins by reading the record (`Onboard`,
`Checkout`, `Paid`, `Verify`, ...), asks Cloudflare or Stripe where the code does, and is
left with a list `todo` of KV and D1 writes in the order of the code (`Route`, `Load`,
`Save`, ...), performed one per step; any of them may throw and the handler may be cut
off. History: `alone` (nothing overlapped this handler), `crossed` (a disable overlapped
another handler), `skipped` (a backfill could not write this route and goes on).

**`Mailing`** - a run (batch or retry sweep) reads its list once, then per item builds and
inserts (`Prepare`), awaits Resend (`Answer`: taken, taken with the answer lost, refused)
and records (`RecordSuccess`, `RecordError`). A mail may lose what it is built from at any
time (`Withdraw`: unsubscribed, downgraded, deleted, no address). The retry of a digest then
gives it up; that of a review leaves the row as it is, due for ever. `Attempted` is the UPDATE guarded by
`sent_at IS NULL`; `seen` are the attempts as the retry run's list had them. `struck` and
`contended` are history: items a fault hit, items two live runs had at once.

**`TrafficSync`** - a connection (`conn`), the property each row's figures came from
(`rows`, keyed by day for GA4, by day and query for Search Console), and the writers: the
cron and the tenant's requests. A writer keeps what it read (`prop`, `day`), fetches a
report, upserts it row by row, in any order, and stamps the connection by slug. Nothing is
ever deleted. What Google has of a property is a constant (`Has`: not every day, not every
query, already cut to the hundred queries a day the code keeps), reported with a delay
(`Latency`). `feed` is GA4 or Search Console; they differ in the scan (only GA4 picks up
what was never synced) and in the look-back. History: `good`, `full` (stamped syncs of the
current selection), `tainted` (rows last upserted by a writer older than it).

**`McpGate`** - a check is named by its number in `log`. A limiter's map (`hits`) gives each
client the checks still counted and the check that touched it last: its place in the
insertion order of a JavaScript `Map`, which `delete` and `set` renew, 0 when it is not in
the map. `Decide` is `McpRateLimiter.check`, either `Refuse` or `Admit`, which may push out
the client touched longest ago (`Evicted`). `Ask` goes to the Durable Object, whose answer
may be lost after it counted; `Fallback` then asks the isolate's limiter. History: `log`,
and `life`, how often a limiter has forgotten a client. The wait is exact, where the code
rounds it up to seconds. A request without an address is let through before any limiter is
asked (`mcpRateLimit.ts:58-63`) and is not a check.

`MCBudget`, `MCRailwaySync`, `MCReservation`, `MCContact`, `MCTeamHistory`, `MCHostname`,
`MCMailing`, `MCTrafficSync`, `MCMcpGate` instantiate them for TLC; `AdmissionProofs`
(`Budget` and `McpGate`), `RailwayProofs`, `ReservationProofs`, `ContactProofs`, `TeamProofs`, `HostnameProofs`,
`MailingProofs`, `TrafficProofs` hold the TLAPS proofs. In every module the definitions
commented "Mutant of ..." are plausible wrong versions of the definition after them;
no action uses them. Each property was seen to fail with one of them in place.

## Runs

Passing runs:

| Run | States | What it shows |
|---|---|---|
| `budget` | 812k | Three requests of any kind mix, any of them dying anywhere, one midnight. `CapBound`: spend plus live stakes never exceeds the cap by more than the recorded overdraft. `ReservedIsOwned`: every reserved cent of a row is the stake of a live request or was stranded by a crash, by midnight or by the uncaught throw of ai-recommendations; no other refusal, failure or success path leaves one behind. `AttributedWithinFleet`: the tenants' spend never adds up to more than the fleet's, also when a request dies between its two records. |
| `railway_sync` | 3.4M | One tenant whose domain is on file for another slug `x`: two deliveries, a retry, a rotation of `x` into the tenant's row, the reconciler and a fault. `OwnKey`: a key in D1 or on its way was minted for the tenant, for the slug its domain is on file for, or for the one an operator named. `SyncedHasKey`: the marker, which takes a tenant out of the reconciler's reach for good, is never on a row without a key. `DeadKeyOnlyByRotation`: registrations, however duplicated or late, leave D1 with a key that some backend row of the slug it was minted for accepts; only a rotation of that slug can break that. |
| `reconciler` | 430k | Two tenants in one batch, the domain of one on file for a third slug, two faults. `OwnKey`: neither receives a key of the other. `PaidIsReconciled` (liveness): a paid tenant with a row and a profile is eventually marked synced. |
| `reservation` | 78k | Two agents race or retry one key, an anonymous call only sweeps, six units of time. `OneReservationPerKey`, `SingleCredit`, `HoldImplemented` (refinement of `Hold`); `LateConfirmBounded`: a lapsed hold can be confirmed, but no later than one token lifetime after it lapsed; `ConfirmedContactKept`: such a booking has not lost its contact details to the earlier redaction. |
| `contact` | 256k | Three callback requests with one key, a handoff, an edit of the routing, a fault. `OneAnswerPerKey`: all callers are told what is on file. `RepeatHasCause`: the business is texted twice only in a race or a crash. `FiledAsDelivered`: "notified" only when it was texted, and the other way round up to lost answers, races and crashes. `EveryLeadIsFiled` (liveness). |
| `team_roles` | 2.4M | Three users and an admin; two role changes, an invitation and a removal interleave. `OwnershipHandedOn`: owners multiply only through promotions whose caller owned nothing (any more) when its row was demoted. `OwnersStay`: an owner leaves the team only by a removal that a promotion of its target overtook between two queries. |
| `team_invites` | 636k | Two new addresses and two seats: two invitations, of one address or of both, two clicks on links, a removal. `OneWinner`: exactly the call that set the password signs in. `InvitationsOnlyAdd`: an invitation, however late, never changes a member's role. `SeatsKept`: members and invitations under way exceed the plan by no more than the invitations that counted next to others. `LinkSent`: a member whose invitation is not accepted has been given a link, unless that invitation was cut short or not alone. |
| `hostname` | 3.8M | Two tenants want one domain; any three of eleven handlers, two at a time, one cut off or failing. `ActiveIsRouted`: a record says active only once its host is routed, whichever write was the last. `NoTakeover`: an activation or switch of a customer redirects no routed host of another tenant. `StatusKept`: an activation that runs alone leaves an existing record the status it had; its route does come back, also that of a disabled tenant. |
| `mailing` | 441k | A digest and two reviews, two batches over retry runs, any of them withdrawn, a lost answer or a crash. `DuplicateHasCause`, `NoSilentDrop`, `SentIsFinal`, and `EveryMailSettles` (liveness): a mail that was tried is sent or given up for a reason; a review only while it can be built and reviews that cannot do not fill the run (`Clogged`). |
| `traffic_sync` | 963k | The cron, two requests, a renewed consent, a disconnect, a fault, a new day, both feeds. `StampedDaysShown`: over the days a stamped sync looked back on, every row Google had of the selected property shows it. `BackfillShown`: a stamped backfill does so for the whole history. Rows the property has no figures for are not promised. `OnlyConsentConnects`: no late sync brings back a connection or a property. `DueIsSynced` (liveness): a due connection is stamped in the end. |
| `mcp_gate` | 1.9M | Five requests of three clients, a map of two, a limit of two per window, two outages. `WindowBound`, `RefusalEarned`, `RetryAfterSuffices`, `ForgottenOnlyInCrowd`: each limiter keeps its window, refuses only who earned it, keeps its word on Retry-After, and forgets an active client only when its map is full of others. |

The type invariants of `Budget` and `McpGate` are run; those of the other modules are proved
([below](#proofs)) rather than run. `traffic_sync` has a `CONSTRAINT`, `InOrder`: the two
requests are interchangeable, so the first to come is called `q1`; the behaviours left out
are those with the two names exchanged.

One run ends in a violation, `slug_split`; see
[divergences](#where-code-and-comments-disagree).

Deadlock is not checked: calls are used once, mails settle and the clock is bounded, so
every model stops when all of them are done. That nothing stops too early is what
`PaidIsReconciled`, `EveryMailSettles`, `EveryLeadIsFiled` and `DueIsSynced` say.

## Bounds

| Module | Bound | Why it suffices |
|---|---|---|
| Budget | 3 requests, 1 tenant, caps 6 and 4, stakes 3/2/2, costs 1 and 4, 1 midnight | two requests fit and the third is refused at either gate; a cost below and one above each stake; a stake can be held by a live request, stolen by a second and reused by a third; one midnight separates origin day from settling day. |
| RailwaySync | 4 calls on one tenant and a second slug with 1 fault; 2 tenants and a third slug, 2 deliveries, 2 faults | duplicates, retry, rotation and tick overlap in every order; two faults reach "registered but not stored" and "stored but not marked". `MaxFaults` bounds `Fault`. |
| Reservation | 3 calls, 2 keys, `MaxTime` 6 | a unit is 15 minutes; hold 1, token lifetime 2 (an hour in the code, shortened), retention 3 to 4: a hold can lapse, be replayed before the sweep of another call, be confirmed late, be redacted and outlive its retention within 6 units. Time passes only between handlers, which are synchronous and take milliseconds. |
| Contact | 3 callbacks on 1 key, 1 handoff, `MaxReroutes` 1, `MaxFaults` 1 | two calls race and a third replays; keys do not interact, as every statement names one; one fault is a lost answer or a crash. |
| Team | 3 users, 4 or 5 calls, 2 seats | two overlapping promotions need a founder, two targets and an admin; one seat is free, so two invitations reach the limit together, and a third would only repeat the second. Calls of one kind are symmetric. |
| Hostname | 2 variants, 2 tenants, `MaxOps` 3 handlers on 2 slots, `MaxFaults` 1 | one handler sets the stage, two overlap on it, one of them is cut off between any two writes. |
| Mailing | a digest and 2 reviews, `MaxBatches` 2, 1 retry slot, `MaxAttempts` 2, `PerRun` 1, `MaxFaults` 1 | two reviews compete for a retry run of one, and one that cannot be built clogs it; the last slot of the backoff is reached and passed; a batch overlaps a retry run. |
| TrafficSync | 2 properties, 2 requests, days 3 to 4 of 4, `MaxConsents` 1, `MaxFaults` 1, `Healthy` 2 | the two properties share rows and have rows of their own; Search Console reports a day late; the look-back of one or two days overlaps the next tick's; the history is below and above `Healthy`. |
| McpGate | 3 clients, `MaxIps` 2, `Limit` 2, `Window` 2, `MaxCalls` 5, `MaxTime` 3, `MaxOutages` 2 | two requests fill a window, a third is refused, two other clients evict; a request exactly one window old occurs. |

The theorems have none of these bounds.

## Fairness

- `RailwaySync`: `WF_vars(Tick)`. The cron trigger (`worker/wrangler.toml`) fires every
  fifteen minutes and its handler runs to the end unless it meets a fault. Nothing obliges
  Stripe or an operator to call again, so no other action is fair.
- `Mailing`: the retry cron of each job keeps firing, a run comes to its end
  (`Continue`: the request to Resend has a timeout), time passes (`FallDue`). The two crons
  are independent in the code and share slots only in the model, so `StartRetry` is strongly
  fair for each job: neither waits for the other for ever. Batches are not fair, so a mail
  that no batch tried promises nothing.
- `Contact`: a call that has begun comes to its end (`Proceed`), as `fetch` does. Nothing
  obliges an agent to call.
- `TrafficSync`: the cron's steps; the tenant's requests are not fair and may stop anywhere.

Faults are finitely many (`MaxFaults`): were a service down forever, nothing could be
promised. `Budget`, `Reservation`, `Team`, `Hostname`, `McpGate` state safety only.

## Proofs

All proof modules hold for arbitrary constants under the named assumptions of their
modules (`BudgetAssumption`, `SyncAssumption`, ...): amounts and bounds are naturals, the
sets are what the comments say, kinds are disjoint, slots are finite where the model counts
them. Every module has its type invariant as a theorem (`...TypeCorrect`); it is the first
conjunct of every argument below.

**`AdmissionProofs`**, on `Budget` - `BudgetCapBound`. `CapBound` is not inductive: the
predicate in the SQL tests `spent + reserved`, not `spent + held`. The strengthening
`ReservedCoversHeld` (`held - overdraft <= reserved`) says the column covers the live stakes
except where a settlement took away what it did not own; then admission (`Hold`) keeps the
cap because the column bounds `held`, and settlement (`Record`, `Release`) keeps the
strengthening because what the clamp `MAX(0, ...)` swallows is booked as overdraft. One
lemma per ledger statement, one for crashes; the two views (ledger, call types) are combined
last.

The other two are about sums, and no prover here can do induction over the set summed. So
a sum is stated as the number of its cents: `Total(f)` is the cardinality of the pairs
`<<x, i>>` with `i <= f[x]`, and the library's facts about cardinalities give what is needed
(`TotalSplit`, `TotalChange`: changing one summand by k changes the total by k;
`TotalBounds`). `Stages` says on which day a call at each stage holds a stake: each step
changes the sum `held` of one row by that row's share of one call. `BudgetReservedIsOwned` is
inductive with it, as what a settlement releases is at most what its request held, and what
stays behind without a request is booked under its cause. `BudgetAttributedWithinFleet` by
`AttributionCovered`: the tenants' spend plus what is `Pending` (recorded for the fleet, not
yet for the tenant) is within the fleet's.

**`AdmissionProofs`**, on `McpGate` - the five theorems share the invariant `GateInv`. What
is counted was admitted in the client's present life (`KeptAdmitted`), and everything so
admitted that is younger than a window is counted (`YoungKept`): this and the order of the
clock (`TimesAscend`) make the code's pruned list as good as the whole history, which is
`WindowBound` and `RefusalEarned`. `LivesAscend`: a client out of the map begins a life
without checks, so forgetting cannot mix two lives. `GateRetryAfterSuffices` by `WaitFrees`:
as long as nothing more is admitted, fewer than `Limit` of the counted requests outlive the
wait a refusal named. `GateForgottenOnlyInCrowd` by `PlaceIsLast`: whoever is pushed out was
touched before all others in the map. That the map never outgrows `MaxIps`
(`GateTypeCorrect`) needs that a refused client is in it already. Every check is put into
one form first (`Outcome`, and what it changes, `Effect`); time, restarts and lost answers
are `Quiet`. Both components prove by counting, which is why they share a module.

**`RailwayProofs`** - lemmas say what each statement does to the two databases
(`AddRowEffect`, `ReplaceEffect`, `StoreKeyEffect`, ...: a call to the backend issues a key
for its tenant and keeps those of the others). `RailwayOwnKey`: `OwnKey` already speaks of
the keys on their way, each minted for the slug its path asked for, and is inductive since
that slug is a source of the tenant the key is stored under (`Sources`), for any `Kv`, `From`
and `For`. `RailwaySyncedHasKey` by `KeyFirst`: who is past
the registration has a key, who is past storing it left it in the row, and rows never lose
keys. `RailwayDeadKeyOnlyByRotation` by `KeysOpen`: keys in D1 and on their way open a row
of the slug they were minted for unless a rotation of that slug was started, which is
stable.

**`ReservationProofs`** - `ReservationOnePerKey` by `UniqueRow` (one row per key) and
`Answered` (who has an answer has a row on file under its key).
`ReservationImplementsHold`: initial states map to initial states and each step is, for
every key, a step of `Hold` or leaves it alone. `ReservationLateConfirm` and
`ReservationContactKept` by an invariant on the clock: `Swept` (what a sweep left is not
lapsed), `TokensInTime` (tokens are minted while their hold lives) and `ContactKept` (a row
is redacted only when its hold could no longer be confirmed). `ReservationSingleCredit` by
`Credits`: a credit is owed only while none was given.

**`ContactProofs`** - `ContactOneAnswerPerKey` by `Told` (who was told something has a row
that says the same; rows are never rewritten). `ContactRepeatHasCause` and
`ContactFiledAsDelivered` by `OneWorker` (without a race one call at most works on a key,
before its row exists), `Settled` and `Delivered` (texts agree with where that call is).
The lemma `Unrelated` shows that no audit row ever carries a handoff's ticket.

**`TeamProofs`** - `TeamOneWinner`: a call under way has a target (`HasTarget`), only
accepting calls take the steps of the accept handler (`OwnSteps`), and the call about to
mint a session is the one that set the password (`WinnerSigns`), which the guard
`invite_consumed_at IS NULL` makes stable. `TeamInvitationsOnlyAdd` is an action property;
it needs only that each call stays in its own handler (`KindSteps`) and the UNIQUE
constraint of (user, business). `TeamOwnershipHandedOn` by `Balance`: owners and promotions
half done, both finite, exceed one by at most `surplus`; a demotion moves an owner to the
promotions, a promotion moves it back, everything else shrinks one of the two sets.

**`TeamProofs`**, on `TeamHistory` - its behaviours are behaviours of `Team`
(`TeamHistoryWatches`), and three theorems share the invariant `HistoryInv`.
`TeamSeatsKept` is inductive with the invitations under way counted in: `CheckCap` books a
seat, `Grant` turns it into a membership, everything else only gives seats up. It assumes a
plan of one seat at least, which every plan of `planCap` has; a plan without limit is not
covered, as there is nothing to keep. `TeamLinkSent` by `Owed` (some invitation still owes a
pending account its link) and `NewOutside` (that user is not a member yet, so its `Grant`
succeeds), which needs `Alone`: what `Recorded` calls undisturbed had one invitation at a
time. `TeamOwnersStay` by `LateKnown`: a removal about to delete an owner is on record. Each
step is first put into one form, `InviteEffect` or `RemovalEffect`.

**`HostnameProofs`** - `AllFormed` says each handler has a list of its kind to write: a
route comes before the record that relies on it. `HostnameActiveIsRouted` by `Good`, one
clause per kind of handler: what is still to be written, and what already was, suffices for
the record about to be saved, up to `crossed` and `skipped`. `HostnameNoTakeover` and
`HostnameStatusKept` rest on what a handler that is `alone` read still being true.

**`MailingProofs`** - `Scheduled` (an open mail that is in nobody's hands has a next attempt
or a reason), `OneSender` (an item on two lists is contended) and `Rescheduled` (what is
about to be recorded fits the row). `MailingSentIsFinal` is an action property of the guard
`sent_at IS NULL`.

**`TrafficProofs`** - `RunsOK` (what a writer that is not stale has read is what the
connection says), `Fresh` and `Shows` (rows stamped or already written by the fresh writer
under way show the selected property), and `ReportedGrows`: what Google had on the day of a
run it still has when the report is fetched.

Every safety invariant and action property that a run checks is a theorem. Only
model-checked is liveness (`PaidIsReconciled`, `EveryMailSettles`, `EveryLeadIsFiled`,
`DueIsSynced`), which needs fairness and ENABLED, out of the prover's reach; and `slug_split`
is a violation, which a run shows and a proof does not.

## Where code and comments disagree

With a run that ends in a violation:

- **`slug_split`** - `/register` always inserts a new row under the next free suffix, so
  a repeated registration stores a key for the wrong slug; `railwayReconciler.ts:160-161`
  says the same key comes back.

Seen while modelling, visible in the models, without a run of their own:

- *Spend.* A bot query settles on the tenant's row a stake it never reserved there and
  wipes a concurrent gated request's reservation; `agent.ts:672-675` calls its tracking
  "visibility-only". A catch block after the record releases a stake twice
  (`profileScore.ts:478-479` and `494-497` call record and release idempotent; a second
  release gives headroom back twice), and so does the one after an early release
  (`agent.ts:517-520`, `593-595`). `overdraft` counts them. `budgetKillSwitch.ts:140-141`
  says the caller must in the end release or record; ai-recommendations does neither when
  its cache write throws (`aiRecommendations.ts:714-733`), and both stakes stay on their rows
  until midnight (`leaked`). The
  `/mcp` tool and the platform pages pay without a ledger (`mcp.ts:88`).
- *Registration.* Candidates that are skipped (no profile) stay candidates and may fill
  every batch; `railwayReconciler.ts:65-67` says later ticks pick up the rest.
  (`PaidIsReconciled` holds when a batch has room for all.) The reconciler registers tenants
  whatever their key, though its header limits it to placeholders. The retry and the
  reconciler register the slug of the KV record found by domain and store the key under the
  slug of the D1 row (`railwayReconciler.ts:118`, `164`; `stripe.ts:1776`, `1811`): when
  the two differ, a tenant is left with a working key of another slug (`Sources`).
- *Reservations.* A lapsed, unswept hold is confirmed (`LateConfirmBounded` bounds it). A
  replay by a second agent leaves the newest audit row and gets the conversion;
  `a2a.ts:52-53` says the agent that called `reserve_slot` originally does.
- *Handoffs.* Neither tool passes the hook that would record the ticket, so `/a2a/continue`
  finds no row to credit (`a2a.ts:83-87`; the lemma `Unrelated`).
- *Callbacks.* `requestCallback.ts:22-25` gives idempotency a 24-hour window; the key never
  expires, and calls that race notify the business once each.
- *Team.* `team.ts:244-246` says the login path refuses an account with `pending_invite`; no
  login (`authApi.ts:283-427`, `portal.ts:680-736`) and no handler of `team.ts` reads that
  column, so in the model a pending member may call like any other (`MayManage`) and `LinkSent`
  is about invitations not accepted, not about who can sign in. "Only invitations add" is within
  `team.ts`: `grantAccess` (`portalDb.ts:640-654`) adds members too. An admin's promotion
  demotes the admin's own, missing row; `team.ts:392-395` says "one owner per tenant" stays true. An address left pending by an invitation that was cut
  short is later added as an established account, without a link (`team.ts:230-232`). So is a new
  address invited twice at once: the invitation that found the account adds the member, and
  the one that made it fails on the UNIQUE membership before it mints the link (`disturbed`).
  A removal may hit a member promoted to owner since its role was read (`promoted`);
  concurrent invitations exceed the seats of the plan (`overbooked`).
- *Domains.* A disable leaves the other variant routed (`onboard.ts:1133`), and a
  verification or a backfill that read the record before it makes it active again.
  Onboarding a host on file with another slug routes it to the slug of the body while the
  record keeps its own. An activation puts the route of a disabled tenant back
  (`domains.ts:467`) that the disable deleted (`onboard.ts:1133`), though the record stays
  disabled (`StatusKept`). The verify-all pass only looks at `pending_verification`.
- *Mail.* `weeklyDigest.ts:8-11` and `169-170` say a digest is never sent twice; it is when
  runs overlap or an answer is lost (`DuplicateHasCause` names the causes). Where the digest marks
  a mail whose data is gone terminal "so the retry cron doesn't keep picking them up"
  (`weeklyDigest.ts:205-207`), the review skips it untouched
  (`monthlyPerformanceReview.ts:497-500`): it stays due for ever, `NoSilentDrop` says nothing
  of it, and as runs take the longest due first, fifty such rows keep every other review out
  (`Clogged`). In the model a withdrawal is not taken back.
- *Feeds.* No row is deleted when another property is selected: days (GA4) and queries (Search
  Console) on which the new one has nothing keep showing the old one's figures. A property
  switch whose backfill failed, with enough days of the old property on file, is never
  backfilled: `ga4Sync.ts:97-103` counts rows of the slug, whatever their property. A stamp of an older cron run marks a failed selection
  `connected`. A Search Console connection whose first backfill failed is never picked up
  (`gscSync.ts:44`).

## What is not modelled

- In the modelled components: the ledgers' fallback to memory when the database cannot
  be opened; what a failing paid call may still have cost; overlapping reconciler ticks (a
  tick is far shorter than its period); login and session lookups and plan changes around
  `Team`; listing members (a read); geography, conversion and overview tables beside the
  traffic days, and the OAuth state; the contents of mails, texts and reports.
- `subscribe_to_updates`: one upsert; re-subscribing mints a token for an id the row on
  file does not have (`subscribeToUpdates.ts:153`), which no interleaving is needed to see.
- The reputation rollup: a synchronous pass that writes the agents seen in its window.
- Backend rate limits: process-local fixed windows, one synchronous step each. The
  per-IP counter of citation readiness (`audit.ts:501`) is read before and written after an
  awaited experiment, so it may overshoot; nothing else depends on it.
- Checkout's slug and e-mail uniqueness, session status, the billing portal, single use and
  resend of activation tokens, sessions and login: single statements around cryptography
  and Stripe.
- Radar, insight, trial-ending and clustering jobs: periodic aggregation in single passes.
  Answers and prompts: text from an external model. Edge proxy, rendering, bot detection,
  sites, dashboards and admin pages: formatting and I/O.

Most of the repository's lines are of the last kind (pages, dashboards, rendering,
single-statement reads and their wording), which is why the models translate a small share
of them: what is modelled is where state is changed by more than one actor.

## Plan

What would come next, in this order: checkout and activation (slug and e-mail uniqueness,
repeated checkouts, single use of a token against resend), composed with `RailwaySync`
through the paid stamp; the reputation rollup as an extension of `Reservation`, closing the
loop to the rate-limit tiers; the OAuth state of the feeds in front of `TrafficSync`.
