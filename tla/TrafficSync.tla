---------------------------- MODULE TrafficSync ----------------------------
(***************************************************************************)
(* One tenant's Google feed: Analytics (traffic_daily) or Search Console    *)
(* (gsc_daily).  The cron trigger of the worker (cron/ga4Sync.ts,           *)
(* cron/gscSync.ts) and the tenant's requests (routes/portal.ts) read the   *)
(* connection once, fetch a report over the network, upsert it row by row   *)
(* and stamp the connection by slug, whatever it has become meanwhile.      *)
(* Analytics has one row per day, Search Console one per day and query; no  *)
(* row is ever deleted, so a day or query on which the selected property    *)
(* has nothing to report keeps what another property left there.  Figures   *)
(* are abstracted to the property they were fetched from; a site of Search  *)
(* Console is a property here.  Geography, conversions and AI overview      *)
(* marks are written beside the rows, with errors of their own that change  *)
(* nothing else.                                                           *)
(***************************************************************************)
EXTENDS Integers, FiniteSets

CONSTANTS
    Props,            \* properties the tenant may select
    Keys,             \* what a row is about beside its day: a query
    Has,              \* per feed and property, the rows Google has of it
    Latency,          \* days, per feed, until Google reports a day
    Requests,         \* select-property and resync requests, each used once
    Cron,             \* the one process of the scheduled sync
    Absent, None,     \* no connection; no property, no figures
    FirstToday, MaxDay, MaxConsents, MaxFaults,
    CronDays,         \* days an incremental sync looks back, per feed
    ResyncDays,       \* days a manual resync looks back
    Healthy           \* rows from which a backfill counts as done

Feeds   == {"ga4", "gsc"}
Days    == 1..MaxDay
Entries == Days \X Keys
Writers == Requests \cup {Cron}
Connections == [prop : Props \cup {None}, last : 0..MaxDay,
                status : {"connected", "error"}]

ASSUME TrafficAssumption ==
    /\ Has \in [Feeds -> [Props -> SUBSET Entries]] /\ None \notin Props
    /\ \E k \in Keys : \A p \in Props : Has["ga4"][p] \subseteq Days \X {k}
    /\ Latency \in [Feeds -> Nat]
    /\ Cron \notin Requests /\ Absent \notin Connections
    /\ FirstToday \in Days /\ CronDays \in [Feeds -> Days]
    /\ {MaxDay, MaxConsents, MaxFaults, ResyncDays, Healthy} \subseteq Nat
    /\ \A f \in Feeds : CronDays[f] <= ResyncDays

VARIABLES
    feed,       \* which of the two integrations this is
    today,
    conn,       \* ga4_connections or gsc_connections
    rows,       \* traffic_daily or gsc_daily
    run,        \* the writers
    consents, faults,
    good,       \* history: days of reports on the selected property that
                \* were written and stamped
    full,       \* history: the day of its backfill, 0 for none
    tainted     \* history: rows upserted by a writer older than the selection

history == <<good, full, tainted>>
bounds  == <<consents, faults>>
vars    == <<feed, today, conn, rows, run, bounds, history>>

Connected == [prop |-> None, last |-> 0, status |-> "connected"]
\* What Google reports of a property on the day `now`.
Reported(p, now) == {e \in Has[feed][p] : e[1] + Latency[feed] < now}

\* A writer: what it has read of the connection, and the rows it is about.
Run(kind, pc, prop, day, left) ==
    [kind |-> kind, pc |-> pc, prop |-> prop, day |-> day, left |-> left,
     stale |-> FALSE]
Idle == Run("cron", "idle", None, 0, {})
Done == Run("cron", "done", None, 0, {})

TypeOK ==
    /\ feed \in Feeds
    /\ today \in Days
    /\ conn \in Connections \cup {Absent}
    /\ conn # Absent => conn.last <= today
    /\ rows \in [Entries -> Props \cup {None}]
    /\ \A e \in Entries : rows[e] # None => e \in Reported(rows[e], today)
    /\ run \in [Writers -> [pc : {"idle", "token", "count", "fetch", "write", "done"},
                            prop : Props \cup {None}, day : 0..MaxDay,
                            left : SUBSET Entries, stale : BOOLEAN,
                            kind : {"cron", "select", "resync"}]]
    /\ consents \in 0..MaxConsents /\ faults \in 0..MaxFaults
    /\ good \subseteq Days /\ full \in 0..MaxDay /\ tainted \subseteq Entries

\* The tenant has consented and selected nothing yet.
Init ==
    /\ feed \in Feeds
    /\ today = FirstToday
    /\ conn = Connected
    /\ rows = [e \in Entries |-> None]
    /\ run = [w \in Writers |-> Idle]
    /\ consents = 0 /\ faults = 0
    /\ good = {} /\ full = 0 /\ tainted = {}
-----------------------------------------------------------------------------
Under(w, step) == run[w].pc = step
Rest(w) == IF w = Cron THEN Idle ELSE Done

\* Whoever is under way read the connection as it was before the change.
Overtaken(r) == [w \in Writers |-> [r[w] EXCEPT !.stale =
                    @ \/ r[w].pc \in {"token", "count", "fetch", "write"}]]
Forgotten == good' = {} /\ full' = 0 /\ tainted' = {}

\* The days of the report that ends the day before `now`.
Window(now, length) == (now - length)..(now - 1)
Over(days) == (Days \cap days) \X Keys
Figures == {e \in Entries : rows[e] # None}

\* The OAuth callback replaces the whole row: the property and the stamp go.
Consent ==
    /\ consents < MaxConsents
    /\ consents' = consents + 1
    /\ conn' = Connected
    /\ run' = Overtaken(run)
    /\ Forgotten
    /\ UNCHANGED <<feed, today, rows, faults>>

\* The connection is deleted; the rows it filled stay.
Disconnect ==
    /\ conn # Absent
    /\ conn' = Absent
    /\ run' = Overtaken(run)
    /\ Forgotten
    /\ UNCHANGED <<feed, today, rows, bounds>>

NewDay ==
    /\ today < MaxDay
    /\ today' = today + 1
    /\ UNCHANGED <<feed, conn, rows, run, bounds, history>>
-----------------------------------------------------------------------------
(* Reading the connection *)

\* select-property: the choice is saved by an UPDATE, which finds no row when
\* there is no connection.
Select(w, p) ==
    /\ w \in Requests /\ Under(w, "idle")
    /\ IF conn = Absent THEN UNCHANGED <<conn, history>>
       ELSE conn' = [conn EXCEPT !.prop = p] /\ Forgotten
    /\ run' = [Overtaken(run) EXCEPT ![w] = Run("select", "token", p, 0, {})]
    /\ UNCHANGED <<feed, today, rows, bounds>>

\* The token is read by a second query: the backfill uses the property of the
\* request with whatever token is there.
ReadToken(w) ==
    /\ Under(w, "token")
    /\ run' = [run EXCEPT ![w] =
                 IF conn = Absent THEN Done
                 ELSE [run[w] EXCEPT !.pc = "fetch", !.left = Over(Window(today, today - 1)),
                                     !.day = today]]
    /\ UNCHANGED <<feed, today, conn, rows, bounds, history>>

\* resync: 404 without a connection, 409 without a property.
Resync(w) ==
    /\ w \in Requests /\ Under(w, "idle")
    /\ conn # Absent /\ conn.prop # None
    /\ run' = [run EXCEPT ![w] =
                 Run("resync", "fetch", conn.prop, today, Over(Window(today, ResyncDays)))]
    /\ UNCHANGED <<feed, today, conn, rows, bounds, history>>

\* Mutant of Candidate: the predicate before the self-heal was added.
CandidateSyncedBefore ==
    conn # Absent /\ conn.prop # None /\ conn.last # 0 /\ conn.last < today

\* The WHERE of the scan.  Only Analytics picks up what was never synced.
Candidate ==
    /\ conn # Absent /\ conn.prop # None
    /\ conn.last < today
    /\ feed = "gsc" => conn.last # 0

\* Both batches start with the scan; Analytics goes on to count the rows there
\* are.  A tick that finds nothing changes nothing.
Scan ==
    /\ Under(Cron, "idle") /\ Candidate
    /\ run' = [run EXCEPT ![Cron] =
                 Run("cron", IF feed = "ga4" THEN "count" ELSE "fetch", conn.prop, today,
                     Over(Window(today, CronDays[feed])))]
    /\ UNCHANGED <<feed, today, conn, rows, bounds, history>>

\* Mutant of Lookback: the day before the tick is left for the next one.
LookbackLate(now) == Window(now - 1, CronDays["ga4"])

\* syncOneTenant: the whole history while there are few rows, of whatever
\* property, else two days.
Lookback(now) ==
    IF Cardinality(Figures) < Healthy THEN Window(now, now - 1)
    ELSE Window(now, CronDays["ga4"])

Count ==
    /\ Under(Cron, "count")
    /\ run' = [run EXCEPT ![Cron].pc = "fetch",
                          ![Cron].left = Over(Lookback(run[Cron].day))]
    /\ UNCHANGED <<feed, today, conn, rows, bounds, history>>
-----------------------------------------------------------------------------
(* Fetching, writing, stamping *)

\* The report arrives: the rows asked for that Google has by now.  A day without
\* sessions has none.
Fetch(w) ==
    /\ Under(w, "fetch")
    /\ run' = [run EXCEPT ![w].pc = "write",
                          ![w].left = @ \cap Reported(run[w].prop, today)]
    /\ UNCHANGED <<feed, today, conn, rows, bounds, history>>

\* Mutant of Upsert: rows that have figures already are left alone.
UpsertNew(w, e) ==
    /\ rows' = IF rows[e] = None THEN [rows EXCEPT ![e] = run[w].prop] ELSE rows
    /\ tainted' = IF run[w].stale THEN tainted \cup {e} ELSE tainted \ {e}

\* INSERT ... ON CONFLICT(slug, date[, query]) DO UPDATE.
Upsert(w, e) ==
    /\ rows' = [rows EXCEPT ![e] = run[w].prop]
    /\ tainted' = IF run[w].stale THEN tainted \cup {e} ELSE tainted \ {e}

\* One statement per row, in whatever order the report has them.
Write(w) ==
    /\ Under(w, "write")
    /\ \E e \in run[w].left :
          /\ Upsert(w, e)
          /\ run' = [run EXCEPT ![w].left = @ \ {e}]
    /\ UNCHANGED <<feed, today, conn, bounds, good, full>>

\* Mutant of Stamped: the stamp recreates the row the writer had read.
StampedUpsert(w, now) == [prop |-> run[w].prop, last |-> now, status |-> "connected"]

\* UPDATE ... WHERE slug = ?: no row, no effect; any row, whoever wrote it.
Stamped(w, now) ==
    IF conn = Absent THEN Absent
    ELSE [conn EXCEPT !.last = now, !.status = "connected"]

\* The cron stamps the start of its tick, a backfill the time its report
\* came, a resync the time of the stamp.
Stamp(w) ==
    /\ Under(w, "write") /\ run[w].left = {}
    /\ conn' = Stamped(w, IF run[w].kind = "resync" THEN today ELSE run[w].day)
    /\ IF run[w].stale \/ conn = Absent THEN UNCHANGED <<good, full>>
       ELSE /\ good' = good \cup {run[w].day}
            /\ full' = IF run[w].kind = "select" THEN run[w].day ELSE full
    /\ run' = [run EXCEPT ![w] = Rest(w)]
    /\ UNCHANGED <<feed, today, rows, bounds, tainted>>

Faulty(w) ==
    /\ faults < MaxFaults
    /\ faults' = faults + 1
    /\ run' = [run EXCEPT ![w] = Rest(w)]

\* The catch block: the token, the report or an upsert failed.
Fail(w) ==
    /\ run[w].pc \in {"count", "fetch", "write"}
    /\ Faulty(w)
    /\ conn' = IF conn = Absent THEN Absent ELSE [conn EXCEPT !.status = "error"]
    /\ UNCHANGED <<feed, today, rows, consents, history>>

\* The isolate is evicted: nothing is recorded.
Crash(w) ==
    /\ run[w].pc \in {"token", "count", "fetch", "write"}
    /\ Faulty(w)
    /\ UNCHANGED <<feed, today, conn, rows, consents, history>>
-----------------------------------------------------------------------------
Proceed(w) == Fetch(w) \/ Write(w) \/ Stamp(w)

Next ==
    \/ Consent \/ Disconnect \/ NewDay
    \/ Scan \/ Count
    \/ \E w \in Requests :
          Resync(w) \/ ReadToken(w) \/ \E p \in Props : Select(w, p)
    \/ \E w \in Writers : Proceed(w) \/ Fail(w) \/ Crash(w)

Spec == Init /\ [][Next]_vars /\ WF_vars(Scan \/ Count \/ Proceed(Cron))
-----------------------------------------------------------------------------
(* Once a sync of the selected property has been stamped, every row Google    *)
(* had of it over the days looked back on shows its figures, save those a    *)
(* writer that started before the selection has put back: no tick leaves a   *)
(* gap, and no later request, tick or failure takes a row away.  Rows the    *)
(* property has no figures for are not promised: what another property left  *)
(* there stays.  (syncOneTenant, apiGA4SelectProperty, apiGA4Resync)         *)
Shown(days, now) ==
    \A e \in Over(days) \cap Reported(conn.prop, now) :
        rows[e] = conn.prop \/ e \in tainted

StampedDaysShown ==
    conn # Absent /\ conn.prop # None =>
        \A now \in good : Shown(Window(now, CronDays[feed]), now)

(* The inline backfill of a selection, once stamped, covers the whole of the *)
(* history Google had of it: a row of another property is left only where    *)
(* the selected one has no figures, or where an older writer was under way.  *)
(* (apiGA4SelectProperty, apiGSCSelectSite)                                  *)
BackfillShown ==
    conn # Absent /\ full # 0 => Shown(1..(full - 1), full)

(* Only a consent connects a tenant: no sync that was under way when the     *)
(* tenant disconnected brings its connection or its old property back.       *)
OnlyConsentConnects ==
    [][ /\ conn = Absent /\ conn' # Absent => consents' = consents + 1
        /\ conn # Absent /\ conn' # Absent /\ conn'.prop # conn.prop =>
              \/ consents' = consents + 1
              \/ \E w \in Requests : Under(w, "idle") /\ run'[w].pc = "token"
      ]_vars

(* A connection that is due is stamped in the end, though requests and syncs *)
(* fail: for Analytics also one that was never synced.  (runGA4SyncBatch,    *)
(* runGSCSyncBatch)                                                          *)
NeedsSync ==
    conn # Absent /\ conn.prop # None /\ conn.last < today
    /\ (feed = "gsc" => conn.last # 0)

DueIsSynced == NeedsSync ~> ~NeedsSync
=============================================================================
