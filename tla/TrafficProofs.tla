---------------------------- MODULE TrafficProofs ----------------------------
(***************************************************************************)
(* TLAPS proofs about TrafficSync, for any properties, requests, days and   *)
(* lookbacks.                                                              *)
(***************************************************************************)
EXTENDS TrafficSync, TLAPS

Steps == {"token", "count", "fetch", "write"}

RunType == [pc : {"idle", "token", "count", "fetch", "write", "done"},
            prop : Props \cup {None}, day : 0..MaxDay,
            left : SUBSET Entries, stale : BOOLEAN,
            kind : {"cron", "select", "resync"}]

\* TypeOK with the type of a run named.
LEMMA Typed ==
    TypeOK <=>
        /\ feed \in Feeds
        /\ today \in Days
        /\ conn \in Connections \cup {Absent}
        /\ conn # Absent => conn.last <= today
        /\ rows \in [Entries -> Props \cup {None}]
        /\ \A e \in Entries : rows[e] # None => e \in Reported(rows[e], today)
        /\ run \in [Writers -> RunType]
        /\ consents \in 0..MaxConsents /\ faults \in 0..MaxFaults
        /\ good \subseteq Days /\ full \in 0..MaxDay /\ tainted \subseteq Entries
BY DEF TypeOK, RunType

\* A run under way has a property and a day it was started on; the rows of a report
\* are rows Google reports of its property.
RunOK(r, now) ==
    /\ r.pc \in Steps => r.prop \in Props
    /\ r.day <= now
    /\ r.pc \in {"count", "fetch", "write"} => r.day \in Days
    /\ r.pc = "write" => r.left \subseteq Reported(r.prop, now)

RunsOK == \A w \in Writers : RunOK(run[w], today)

Constants ==
    /\ MaxDay \in Nat /\ MaxConsents \in Nat /\ MaxFaults \in Nat
    /\ ResyncDays \in Nat
    /\ \A f \in Feeds : /\ Latency[f] \in Nat
                       /\ \A p \in Props : Has[f][p] \subseteq Entries
    /\ \A f \in Feeds : CronDays[f] \in Days /\ CronDays[f] <= ResyncDays

LEMMA ConstantsTyped == Constants
BY TrafficAssumption DEF Constants

\* A run that starts is well formed if its fields are.
LEMMA RunTyped ==
    ASSUME NEW kind \in {"cron", "select", "resync"},
           NEW pc \in {"idle", "token", "count", "fetch", "write", "done"},
           NEW prop \in Props \cup {None}, NEW day \in 0..MaxDay, NEW left \in SUBSET Entries,
           pc \in Steps => prop \in Props,
           pc \in {"count", "fetch", "write"} => day \in Days,
           pc # "write", day <= today
    PROVE  /\ Run(kind, pc, prop, day, left) \in RunType
           /\ RunOK(Run(kind, pc, prop, day, left), today)
BY DEF Run, RunType, RunOK

LEMMA IdleTyped ==
    ASSUME today \in Days
    PROVE  Idle \in RunType /\ Done \in RunType
           /\ RunOK(Idle, today) /\ RunOK(Done, today)
           /\ Idle.pc = "idle" /\ Done.pc = "done"
<1>1. 0 \in 0..MaxDay /\ 0 <= today
      BY ConstantsTyped DEF Constants, Days
<1>. QED BY <1>1, RunTyped DEF Idle, Done, Run, Steps

\* A new value of one run, and the others as they were or marked as overtaken.
LEMMA OvertakenFacts ==
    ASSUME TypeOK, NEW w \in Writers
    PROVE  /\ Overtaken(run)[w] \in RunType
           /\ Overtaken(run)[w].pc = run[w].pc /\ Overtaken(run)[w].prop = run[w].prop
           /\ Overtaken(run)[w].day = run[w].day /\ Overtaken(run)[w].left = run[w].left
           /\ Overtaken(run)[w].kind = run[w].kind
           /\ run[w].pc \in Steps => Overtaken(run)[w].stale
           /\ run[w].stale => Overtaken(run)[w].stale
<1>1. run[w] \in RunType
      BY Typed
<1>. QED BY <1>1 DEF Overtaken, RunType, Steps

LEMMA OvertakenTyped ==
    ASSUME TypeOK, RunsOK
    PROVE  /\ Overtaken(run) \in [Writers -> RunType]
           /\ \A w \in Writers : RunOK(Overtaken(run)[w], today)
<1>1. \A w \in Writers : Overtaken(run)[w] \in RunType
      BY OvertakenFacts
<1>2. Overtaken(run) = [w \in Writers |-> Overtaken(run)[w]]
      BY DEF Overtaken
<1>3. ASSUME NEW w \in Writers PROVE RunOK(Overtaken(run)[w], today)
  <2>1. RunOK(run[w], today)
        BY DEF RunsOK
  <2>. QED BY <2>1, OvertakenFacts DEF RunOK
<1>. QED BY <1>1, <1>2, <1>3

\* As long as the feed and the day stay, so does what is said of a run.
LEMMA StillOK ==
    ASSUME UNCHANGED <<feed, today>>, \A w \in Writers : RunOK(run'[w], today)
    PROVE  RunsOK'
BY DEF RunsOK, RunOK, Reported

\* A run started, moved or ended: the rest stays.
LEMMA OneRun ==
    ASSUME TypeOK, RunsOK, NEW w \in Writers, NEW v \in RunType, RunOK(v, today),
           run' = [run EXCEPT ![w] = v], UNCHANGED <<feed, today>>
    PROVE  run' \in [Writers -> RunType] /\ RunsOK'
<1>1. run' \in [Writers -> RunType] /\ \A u \in Writers : RunOK(run'[u], today)
      BY Typed DEF RunsOK
<1>. QED BY <1>1, StillOK


LEMMA WindowFacts ==
    ASSUME NEW now \in Days
    PROVE  Window(now, now - 1) = 1..(now - 1)
BY ConstantsTyped DEF Window, Days, Constants

\* What has been reported stays reported as the days go by.
LEMMA ReportedGrows ==
    ASSUME TypeOK, NEW p \in Props, NEW now \in Int, NEW later \in Int, now <= later
    PROVE  /\ Reported(p, now) \subseteq Reported(p, later)
           /\ Reported(p, later) \subseteq Entries
<1>1. feed \in Feeds /\ Latency[feed] \in Nat /\ Has[feed][p] \subseteq Entries
      BY Typed, ConstantsTyped DEF Constants
<1>2. \A e \in Entries : e[1] \in Nat
      BY ConstantsTyped DEF Entries, Days, Constants
<1>. QED BY <1>1, <1>2 DEF Reported

LEMMA RestIsEnd ==
    ASSUME TypeOK, NEW w \in Writers
    PROVE  /\ Rest(w) \in RunType /\ RunOK(Rest(w), today)
           /\ Rest(w).pc \in {"idle", "done"}
BY IdleTyped, Typed DEF Rest
-----------------------------------------------------------------------------
(* Type correctness *)

LEMMA ConnectionSteps ==
    ASSUME TypeOK, RunsOK, Consent \/ Disconnect \/ NewDay
    PROVE  TypeOK' /\ RunsOK'
<1>1. CASE Consent
  <2>1. Connected \in Connections /\ Connected.last = 0 /\ 0 <= today
        BY ConstantsTyped, Typed DEF Connected, Connections, Days, Constants
  <2>2. consents' \in 0..MaxConsents
        BY <1>1, ConstantsTyped, Typed DEF Consent, Constants
  <2>3. run' = Overtaken(run) /\ UNCHANGED <<feed, today>>
        BY <1>1 DEF Consent
  <2>4. run' \in [Writers -> RunType] /\ RunsOK'
        BY <2>3, OvertakenTyped, StillOK
  <2>. QED BY <1>1, <2>1, <2>2, <2>3, <2>4, Typed, ConstantsTyped
           DEF Consent, Forgotten, TypeOK, RunType, Reported, Constants
<1>2. CASE Disconnect
  <2>1. run' = Overtaken(run) /\ UNCHANGED <<feed, today>>
        BY <1>2 DEF Disconnect
  <2>2. run' \in [Writers -> RunType] /\ RunsOK'
        BY <2>1, OvertakenTyped, StillOK
  <2>. QED BY <1>2, <2>1, <2>2, Typed, ConstantsTyped
           DEF Disconnect, Forgotten, bounds, TypeOK, RunType, Reported, Constants
<1>3. CASE NewDay
  <2>1. today' \in Days /\ today' = today + 1 /\ today \in Nat
        BY <1>3, ConstantsTyped, Typed DEF NewDay, Days, Constants
  <2>2. UNCHANGED <<feed, conn, rows, run, bounds, history>>
        BY <1>3 DEF NewDay
  <2>3. \A p \in Props : Reported(p, today) \subseteq Reported(p, today')
        BY <2>1, ReportedGrows
  <2>4. conn # Absent => conn.last <= today'
        BY <2>1, Typed DEF Connections
  <2>5. \A e \in Entries : rows[e] # None => e \in Reported(rows[e], today')
        BY <2>3, Typed
  <2>6. RunsOK'
        BY <2>1, <2>2, <2>3, Typed DEF RunsOK, RunOK, RunType, Steps, Reported
  <2>. QED BY <2>1, <2>2, <2>4, <2>5, <2>6, Typed
           DEF TypeOK, RunType, bounds, history, Reported
<1>. QED BY <1>1, <1>2, <1>3

LEMMA SelectTyped ==
    ASSUME TypeOK, RunsOK, NEW w \in Requests, NEW p \in Props, Select(w, p)
    PROVE  TypeOK' /\ RunsOK'
<1>. DEFINE v == Run("select", "token", p, 0, {})
<1>1. w \in Writers /\ today' = today /\ today \in Nat
      BY Typed DEF Writers, Select, Days
<1>2. v \in RunType /\ RunOK(v, today)
      BY <1>1, ConstantsTyped, RunTyped DEF Constants
<1>3. run' = [Overtaken(run) EXCEPT ![w] = v]
      BY DEF Select
<1>4. run' \in [Writers -> RunType] /\ RunsOK'
  <2>. HIDE DEF v
  <2>1. run' \in [Writers -> RunType] /\ \A u \in Writers : RunOK(run'[u], today)
        BY <1>1, <1>2, <1>3, OvertakenTyped
  <2>. QED BY <2>1, StillOK DEF Select
<1>5. /\ conn' \in Connections \cup {Absent} /\ (conn' # Absent => conn'.last <= today)
      /\ good' \subseteq Days /\ full' \in 0..MaxDay /\ tainted' \subseteq Entries
  <2>1. CASE conn = Absent
        BY <2>1, Typed DEF Select, history
  <2>2. CASE conn # Absent
        BY <2>2, Typed, ConstantsTyped DEF Select, Forgotten, Connections, Constants
  <2>. QED BY <2>1, <2>2
<1>6. UNCHANGED <<feed, today, rows, bounds>>
      BY DEF Select
<1>. QED BY <1>4, <1>5, <1>6, Typed DEF TypeOK, RunType, bounds, Reported

\* The steps that only move a run.
LEMMA ReadTyped ==
    ASSUME TypeOK, RunsOK, NEW w \in Writers,
           ReadToken(w) \/ Resync(w) \/ (w = Cron /\ (Scan \/ Count)) \/ Fetch(w)
    PROVE  TypeOK' /\ RunsOK'
<1>1. UNCHANGED <<feed, today, conn, rows, bounds, history>>
      BY DEF ReadToken, Resync, Scan, Count, Fetch
<1>2. /\ today \in Days /\ run \in [Writers -> RunType] /\ feed \in Feeds
      /\ RunOK(run[w], today) /\ Constants
      /\ conn # Absent => conn \in Connections
      BY Typed, ConstantsTyped DEF RunsOK
<1>3. \E v \in RunType : RunOK(v, today) /\ run' = [run EXCEPT ![w] = v]
  <2>1. CASE ReadToken(w)
    <3>. DEFINE v == [run[w] EXCEPT !.pc = "fetch",
                                    !.left = Over(Window(today, today - 1)),
                                    !.day = today]
    <3>1. today \in 0..MaxDay
          BY <1>2 DEF Days, Constants
    <3>2. Over(Window(today, today - 1)) \subseteq Entries
          BY DEF Over, Entries
    <3>3. v \in RunType /\ RunOK(v, today)
      <4>1. run[w] \in RunType /\ run[w].prop \in Props
            BY <1>2, <2>1 DEF RunOK, ReadToken, Under, Steps
      <4>2. /\ v.pc = "fetch" /\ v.day = today
            /\ v.prop = run[w].prop /\ v \in RunType
            BY <3>1, <3>2, <4>1 DEF RunType
      <4>. HIDE DEF v
      <4>. QED BY <1>2, <4>1, <4>2 DEF RunOK, Days
    <3>4. run' = [run EXCEPT ![w] = Done] \/ run' = [run EXCEPT ![w] = v]
          BY <2>1 DEF ReadToken
    <3>. HIDE DEF v
    <3>. QED BY <1>2, <3>3, <3>4, IdleTyped
  <2>2. CASE Resync(w)
    <3>. DEFINE v == Run("resync", "fetch", conn.prop, today,
                         Over(Window(today, ResyncDays)))
    <3>1. conn.prop \in Props /\ today \in 0..MaxDay
          BY <1>2, <2>2 DEF Resync, Connections, Days, Constants
    <3>2. Over(Window(today, ResyncDays)) \subseteq Entries
          BY DEF Over, Entries
    <3>3. v \in RunType /\ RunOK(v, today)
          BY <1>2, <3>1, <3>2, RunTyped DEF Days
    <3>4. run' = [run EXCEPT ![w] = v]
          BY <2>2 DEF Resync
    <3>. HIDE DEF v
    <3>. QED BY <3>3, <3>4
  <2>3. CASE w = Cron /\ Scan
    <3>. DEFINE v == Run("cron", IF feed = "ga4" THEN "count" ELSE "fetch", conn.prop,
                         today, Over(Window(today, CronDays[feed])))
    <3>1. conn.prop \in Props /\ today \in 0..MaxDay
          BY <1>2, <2>3 DEF Scan, Candidate, Connections, Days, Constants
    <3>2. Over(Window(today, CronDays[feed])) \subseteq Entries
          BY DEF Over, Entries
    <3>3. v \in RunType /\ RunOK(v, today)
          BY <1>2, <3>1, <3>2, RunTyped DEF Days
    <3>4. run' = [run EXCEPT ![w] = v]
          BY <2>3 DEF Scan
    <3>. HIDE DEF v
    <3>. QED BY <3>3, <3>4
  <2>4. CASE w = Cron /\ Count
    <3>. DEFINE v == [run[w] EXCEPT !.pc = "fetch", !.left = Over(Lookback(run[w].day))]
    <3>1. run[w].pc = "count" /\ run[w].day \in Days
          BY <1>2, <2>4 DEF Count, Under, RunOK
    <3>2. Over(Lookback(run[w].day)) \subseteq Entries
          BY DEF Over, Entries
    <3>3. v \in RunType /\ RunOK(v, today)
          BY <1>2, <3>1, <3>2 DEF RunType, RunOK, Steps
    <3>4. run' = [run EXCEPT ![w] = v]
          BY <1>2, <2>4 DEF Count
    <3>. HIDE DEF v
    <3>. QED BY <3>3, <3>4
  <2>5. CASE Fetch(w)
    <3>. DEFINE v == [run[w] EXCEPT !.pc = "write",
                                    !.left = @ \cap Reported(run[w].prop, today)]
    <3>1. v \in RunType /\ RunOK(v, today)
          BY <1>2, <2>5 DEF RunType, RunOK, Fetch, Under, Steps
    <3>2. run' = [run EXCEPT ![w] = v]
          BY <1>2, <2>5 DEF Fetch
    <3>. HIDE DEF v
    <3>. QED BY <3>1, <3>2
  <2>. QED BY <2>1, <2>2, <2>3, <2>4, <2>5
<1>4. run' \in [Writers -> RunType] /\ RunsOK'
      BY <1>1, <1>3, OneRun
<1>. QED BY <1>1, <1>4, Typed DEF TypeOK, RunType, bounds, history, Reported

LEMMA WriteTyped ==
    ASSUME TypeOK, RunsOK, NEW w \in Writers, Write(w)
    PROVE  TypeOK' /\ RunsOK'
<1>. PICK e \in run[w].left : Upsert(w, e) /\ run' = [run EXCEPT ![w].left = @ \ {e}]
     BY DEF Write
<1>1. run[w] \in RunType /\ RunOK(run[w], today) /\ run[w].pc = "write"
      BY Typed DEF RunsOK, Write, Under
<1>2. run[w].prop \in Props /\ e \in Entries /\ e \in Reported(run[w].prop, today)
      BY <1>1 DEF RunOK, RunType, Steps
<1>3. UNCHANGED <<feed, today, conn, bounds, good, full>>
      BY DEF Write
<1>4. run' \in [Writers -> RunType] /\ RunsOK'
  <2>. DEFINE v == [run[w] EXCEPT !.left = @ \ {e}]
  <2>1. v \in RunType /\ RunOK(v, today)
        BY <1>1 DEF RunType, RunOK
  <2>2. run' = [run EXCEPT ![w] = v] /\ UNCHANGED <<feed, today>>
        BY <1>3
  <2>. HIDE DEF v
  <2>. QED BY <2>1, <2>2, OneRun
<1>5. /\ rows' \in [Entries -> Props \cup {None}]
      /\ \A x \in Entries : rows'[x] # None => x \in Reported(rows'[x], today)
      BY <1>2, Typed DEF Upsert
<1>6. tainted' \subseteq Entries
      BY <1>2, Typed DEF Upsert
<1>. QED BY <1>3, <1>4, <1>5, <1>6, Typed DEF TypeOK, RunType, bounds, Reported

LEMMA StampTyped ==
    ASSUME TypeOK, RunsOK, NEW w \in Writers, Stamp(w)
    PROVE  TypeOK' /\ RunsOK'
<1>1. /\ run[w] \in RunType /\ RunOK(run[w], today) /\ run[w].pc = "write"
      /\ today \in Days /\ run[w].day \in Days /\ run[w].day <= today
      BY Typed DEF RunsOK, Stamp, Under, RunOK
<1>2. UNCHANGED <<feed, today, rows, bounds, tainted>>
      BY DEF Stamp
<1>3. run' \in [Writers -> RunType] /\ RunsOK'
      BY <1>2, RestIsEnd, OneRun DEF Stamp
<1>4. conn' \in Connections \cup {Absent} /\ (conn' # Absent => conn'.last <= today)
  <2>1. PICK now \in {today, run[w].day} : conn' = Stamped(w, now)
        BY DEF Stamp
  <2>2. now \in 0..MaxDay /\ now <= today
        BY <1>1 DEF Days
  <2>. QED BY <2>1, <2>2, Typed DEF Stamped, Connections
<1>5. good' \subseteq Days /\ full' \in 0..MaxDay
      BY <1>1, Typed DEF Stamp, Days
<1>. QED BY <1>2, <1>3, <1>4, <1>5, Typed DEF TypeOK, RunType, bounds, Reported

LEMMA FailTyped ==
    ASSUME TypeOK, RunsOK, NEW w \in Writers, Fail(w) \/ Crash(w)
    PROVE  TypeOK' /\ RunsOK'
<1>1. /\ UNCHANGED <<feed, today, rows, consents, history>>
      /\ faults' \in 0..MaxFaults
      /\ run' = [run EXCEPT ![w] = Rest(w)]
      BY Typed, ConstantsTyped DEF Fail, Crash, Faulty, Constants
<1>2. run' \in [Writers -> RunType] /\ RunsOK'
      BY <1>1, RestIsEnd, OneRun
<1>3. conn' \in Connections \cup {Absent} /\ (conn' # Absent => conn'.last <= today)
      BY Typed DEF Fail, Crash, Connections
<1>. QED BY <1>1, <1>2, <1>3, Typed DEF TypeOK, RunType, history, Reported

LEMMA NextTyped ==
    ASSUME TypeOK, RunsOK, [Next]_vars
    PROVE  TypeOK' /\ RunsOK'
<1>1. CASE Consent \/ Disconnect \/ NewDay
      BY <1>1, ConnectionSteps
<1>2. CASE Scan \/ Count
      BY <1>2, ReadTyped DEF Writers
<1>3. ASSUME NEW w \in Requests,
             Resync(w) \/ ReadToken(w) \/ \E p \in Props : Select(w, p)
      PROVE  TypeOK' /\ RunsOK'
      BY <1>3, ReadTyped, SelectTyped DEF Writers
<1>4. ASSUME NEW w \in Writers, Proceed(w) \/ Fail(w) \/ Crash(w)
      PROVE  TypeOK' /\ RunsOK'
      BY <1>4, ReadTyped, WriteTyped, StampTyped, FailTyped DEF Proceed
<1>5. ASSUME UNCHANGED vars PROVE TypeOK' /\ RunsOK'
      BY <1>5 DEF vars, bounds, history, TypeOK, RunsOK, RunOK, Reported
<1>. QED BY <1>1, <1>2, <1>3, <1>4, <1>5 DEF Next

LEMMA InitTyped == Init => TypeOK /\ RunsOK
<1>. SUFFICES ASSUME Init PROVE TypeOK /\ RunsOK
     OBVIOUS
<1>1. today \in Days
      BY TrafficAssumption DEF Init
<1>2. conn \in Connections /\ conn.last <= today
      BY <1>1, ConstantsTyped DEF Init, Connected, Connections, Constants, Days
<1>3. run \in [Writers -> RunType] /\ RunsOK
      BY <1>1, IdleTyped DEF Init, RunsOK
<1>. QED BY <1>1, <1>2, <1>3, Typed, ConstantsTyped DEF Init, Constants

(* Connections, rows and runs keep their types: in particular no row has     *)
(* figures Google does not report of its property, or not yet.               *)
THEOREM TrafficTypeCorrect == Spec => []TypeOK
BY InitTyped, NextTyped, PTL DEF Spec
-----------------------------------------------------------------------------
(* Who connects a tenant *)

(* However requests, ticks and disconnections overlap, only a consent brings *)
(* a deleted connection back, and only a selection changes the property: the *)
(* stamp is an UPDATE, never an INSERT.                                      *)
THEOREM TrafficOnlyConsentConnects == Spec => OnlyConsentConnects
<1>. DEFINE Only == /\ conn = Absent /\ conn' # Absent => consents' = consents + 1
                    /\ conn # Absent /\ conn' # Absent /\ conn'.prop # conn.prop =>
                          \/ consents' = consents + 1
                          \/ \E w \in Requests : Under(w, "idle") /\ run'[w].pc = "token"
<1>1. ASSUME TypeOK, Next PROVE Only
  <2>1. ASSUME NEW w \in Requests, NEW p \in Props, Select(w, p) PROVE Only
    <3>1. w \in Writers /\ run'[w] = Run("select", "token", p, 0, {})
          BY <2>1 DEF Select, Writers, Overtaken
    <3>2. Under(w, "idle") /\ run'[w].pc = "token"
          BY <2>1, <3>1 DEF Select, Run
    <3>3. conn = Absent => conn' = Absent
          BY <2>1 DEF Select
    <3>. QED BY <3>2, <3>3
  <2>2. ASSUME NEW w \in Writers, Stamp(w) PROVE Only
    <3>1. PICK now : conn' = Stamped(w, now)
          BY <2>2 DEF Stamp
    <3>. QED BY <3>1, Typed DEF Stamped, Connections
  <2>3. ASSUME NEW w \in Writers, Fail(w) PROVE Only
        BY <2>3, Typed DEF Fail, Connections
  <2>4. ASSUME Consent PROVE Only
        BY <2>4 DEF Consent
  <2>5. ASSUME conn' \in {conn, Absent} PROVE Only
        BY <2>5
  <2>. QED BY <1>1, <2>1, <2>2, <2>3, <2>4, <2>5
           DEF Next, Proceed, Disconnect, NewDay, Scan, Count, Resync, ReadToken,
               Fetch, Write, Crash
<1>2. TypeOK /\ [Next]_vars => [Only]_vars
      BY <1>1
<1>. QED BY <1>2, InitTyped, NextTyped, PTL DEF Spec, OnlyConsentConnects
-----------------------------------------------------------------------------
(* What a stamped report has left in the table *)

\* The days a run answers for: the inline backfill of a selection for all of
\* them, every other run for the lookback of the cron at least.
Cover(r) == IF r.kind = "select" THEN 1..(r.day - 1)
            ELSE Window(r.day, CronDays[feed])

\* A run that started after the selection works on the selected property, has
\* asked for the days it answers for, and has written of what Google had on its day
\* the rows no longer on its list.
FreshRun(r) ==
    r.pc \in Steps /\ ~ r.stale =>
        /\ r.prop = conn.prop
        /\ r.pc = "count" => feed = "ga4" /\ r.kind = "cron"
        /\ r.pc = "fetch" => Over(Cover(r)) \subseteq r.left
        /\ r.pc = "write" => \A e \in Over(Cover(r)) \cap Reported(r.prop, r.day) :
              e \in r.left \/ rows[e] = r.prop \/ e \in tainted

Fresh == conn # Absent => \A w \in Writers : FreshRun(run[w])

Shows ==
    IF conn = Absent THEN good = {} /\ full = 0
    ELSE /\ \A now \in good : Shown(Window(now, CronDays[feed]), now)
         /\ full # 0 => Shown(1..(full - 1), full)

\* A step that moves one run, and nothing the other runs depend on.
LEMMA MoveFresh ==
    ASSUME TypeOK, Fresh, Shows, NEW w \in Writers, NEW v,
           run' = [run EXCEPT ![w] = v],
           UNCHANGED <<feed, rows, tainted, good, full>>,
           conn' = Absent <=> conn = Absent,
           conn # Absent => conn'.prop = conn.prop /\ FreshRun(v)
    PROVE  Fresh' /\ Shows'
<1>1. run \in [Writers -> RunType]
      BY Typed
<1>2. Fresh'
      BY <1>1 DEF Fresh, FreshRun, Cover, Reported
<1>3. Shows'
      BY DEF Shows, Shown, Reported
<1>. QED BY <1>2, <1>3

LEMMA IdleFresh == FreshRun(Idle) /\ FreshRun(Done)
BY DEF FreshRun, Idle, Done, Run, Steps

LEMMA ConnectionFresh ==
    ASSUME TypeOK, RunsOK, Fresh, Shows, Consent \/ Disconnect \/ NewDay
    PROVE  Fresh' /\ Shows'
<1>1. CASE Consent
  <2>1. \A w \in Writers : run'[w].pc \in Steps => run'[w].stale
        BY <1>1, OvertakenFacts DEF Consent
  <2>. QED BY <1>1, <2>1 DEF Consent, Forgotten, Fresh, FreshRun, Shows
<1>2. CASE Disconnect
      BY <1>2 DEF Disconnect, Forgotten, Fresh, Shows
<1>3. CASE NewDay
      BY <1>3 DEF NewDay, history, Fresh, FreshRun, Cover, Shows, Shown, Reported
<1>. QED BY <1>1, <1>2, <1>3

LEMMA SelectFresh ==
    ASSUME TypeOK, RunsOK, Fresh, Shows, NEW w \in Requests, NEW p \in Props, Select(w, p)
    PROVE  Fresh' /\ Shows'
<1>1. CASE conn = Absent
      BY <1>1 DEF Select, history, Fresh, Shows
<1>2. CASE conn # Absent
  <2>1. conn' = [conn EXCEPT !.prop = p] /\ Forgotten
        BY <1>2 DEF Select
  <2>2. conn \in Connections
        BY <1>2, Typed
  <2>3. conn'.prop = p
        BY <2>1, <2>2 DEF Connections
  <2>4. /\ w \in Writers
        /\ run'[w] = Run("select", "token", p, 0, {})
        /\ \A u \in Writers \ {w} : run'[u] = Overtaken(run)[u]
        BY DEF Select, Writers, Overtaken
  <2>5. \A u \in Writers \ {w} : run'[u].pc \in Steps => run'[u].stale
        BY <2>4, OvertakenFacts
  <2>6. FreshRun(run[w])'
        BY <2>3, <2>4 DEF FreshRun, Run
  <2>7. Fresh'
        BY <2>5, <2>6 DEF Fresh, FreshRun
  <2>. QED BY <2>1, <2>7 DEF Forgotten, Shows
<1>. QED BY <1>1, <1>2

\* The days the cron looks back are among those of the other runs.
LEMMA CoverFacts ==
    ASSUME TypeOK, NEW now \in Days
    PROVE  /\ Over(Window(now, CronDays[feed])) \subseteq Over(1..(now - 1))
           /\ Over(Window(now, CronDays[feed])) \subseteq Over(Window(now, ResyncDays))
<1>1. CronDays[feed] \in Nat /\ ResyncDays \in Nat /\ CronDays[feed] <= ResyncDays
      BY Typed, ConstantsTyped DEF Constants, Days
<1>2. now \in Nat /\ \A d \in Days : d \in Nat /\ 1 <= d
      BY ConstantsTyped DEF Constants, Days
<1>3. /\ Days \cap Window(now, CronDays[feed]) \subseteq 1..(now - 1)
      /\ Days \cap Window(now, CronDays[feed]) \subseteq Window(now, ResyncDays)
      BY <1>1, <1>2 DEF Window
<1>. QED BY <1>3 DEF Over

LEMMA ReadFresh ==
    ASSUME TypeOK, RunsOK, Fresh, Shows, NEW w \in Writers,
           ReadToken(w) \/ Resync(w) \/ (w = Cron /\ (Scan \/ Count)) \/ Fetch(w)
    PROVE  Fresh' /\ Shows'
<1>1. UNCHANGED <<feed, today, conn, rows, bounds, history>>
      BY DEF ReadToken, Resync, Scan, Count, Fetch
<1>2. /\ today \in Days /\ run[w] \in RunType /\ RunOK(run[w], today)
      /\ conn # Absent => FreshRun(run[w])
      BY Typed DEF RunsOK, Fresh
<1>3. \E v : run' = [run EXCEPT ![w] = v] /\ (conn # Absent => FreshRun(v))
  <2>1. CASE ReadToken(w)
    <3>. DEFINE v == [run[w] EXCEPT !.pc = "fetch",
                                    !.left = Over(Window(today, today - 1)),
                                    !.day = today]
    <3>1. /\ v.pc = "fetch" /\ v.left = Over(1..(today - 1)) /\ v.day = today
          /\ v.prop = run[w].prop /\ v.kind = run[w].kind /\ v.stale = run[w].stale
          BY <1>2, WindowFacts DEF RunType
    <3>2. conn # Absent => run' = [run EXCEPT ![w] = v]
          BY <2>1 DEF ReadToken
    <3>3. conn = Absent => run' = [run EXCEPT ![w] = Done]
          BY <2>1 DEF ReadToken
    <3>. HIDE DEF v
    <3>4. Over(Cover(v)) \subseteq v.left
          BY <1>2, <3>1, CoverFacts DEF Cover
    <3>5. conn # Absent => FreshRun(v)
          BY <1>2, <2>1, <3>1, <3>4 DEF FreshRun, ReadToken, Under, Steps
    <3>. QED BY <3>2, <3>3, <3>5
  <2>2. CASE Resync(w)
    <3>. DEFINE v == Run("resync", "fetch", conn.prop, today,
                         Over(Window(today, ResyncDays)))
    <3>1. FreshRun(v)
          BY <1>2, CoverFacts DEF FreshRun, Cover, Run
    <3>2. run' = [run EXCEPT ![w] = v]
          BY <2>2 DEF Resync
    <3>. HIDE DEF v
    <3>. QED BY <3>1, <3>2
  <2>3. CASE w = Cron /\ Scan
    <3>. DEFINE v == Run("cron", IF feed = "ga4" THEN "count" ELSE "fetch", conn.prop,
                         today, Over(Window(today, CronDays[feed])))
    <3>1. FreshRun(v)
          BY <1>2 DEF FreshRun, Cover, Run
    <3>2. run' = [run EXCEPT ![w] = v]
          BY <2>3 DEF Scan
    <3>. HIDE DEF v
    <3>. QED BY <3>1, <3>2
  <2>4. CASE w = Cron /\ Count
    <3>. DEFINE v == [run[w] EXCEPT !.pc = "fetch", !.left = Over(Lookback(run[w].day))]
    <3>1. /\ v.pc = "fetch" /\ v.left = Over(Lookback(run[w].day)) /\ v.day = run[w].day
          /\ v.prop = run[w].prop /\ v.kind = run[w].kind /\ v.stale = run[w].stale
          BY <1>2 DEF RunType
    <3>2. run' = [run EXCEPT ![w] = v]
          BY <2>4, Typed DEF Count
    <3>3. run[w].pc = "count" /\ run[w].day \in Days
          BY <1>2, <2>4 DEF Count, Under, RunOK
    <3>. HIDE DEF v
    <3>4. feed = "ga4" => Over(Window(v.day, CronDays[feed])) \subseteq v.left
          BY <3>1, <3>3, WindowFacts, CoverFacts DEF Lookback
    <3>5. conn # Absent => FreshRun(v)
          BY <1>2, <3>1, <3>3, <3>4 DEF FreshRun, Cover, Steps
    <3>. QED BY <3>2, <3>5
  <2>5. CASE Fetch(w)
    <3>. DEFINE v == [run[w] EXCEPT !.pc = "write",
                                    !.left = @ \cap Reported(run[w].prop, today)]
    <3>1. /\ v.pc = "write" /\ v.left = run[w].left \cap Reported(run[w].prop, today)
          /\ v.day = run[w].day
          /\ v.prop = run[w].prop /\ v.kind = run[w].kind /\ v.stale = run[w].stale
          BY <1>2 DEF RunType
    <3>2. run' = [run EXCEPT ![w] = v]
          BY <2>5, Typed DEF Fetch
    <3>3. run[w].pc = "fetch"
          BY <2>5 DEF Fetch, Under
    <3>. HIDE DEF v
    <3>4. Cover(v) = Cover(run[w])
          BY <3>1 DEF Cover
    <3>5. Reported(run[w].prop, run[w].day) \subseteq Reported(run[w].prop, today)
          BY <1>2, <3>3, ConstantsTyped, ReportedGrows
             DEF RunOK, Steps, Days, Constants
    <3>6. conn # Absent => FreshRun(v)
          BY <1>2, <3>1, <3>3, <3>4, <3>5 DEF FreshRun, Steps
    <3>. QED BY <3>2, <3>6
  <2>. QED BY <2>1, <2>2, <2>3, <2>4, <2>5
<1>. QED BY <1>1, <1>3, MoveFresh DEF history

LEMMA WriteFresh ==
    ASSUME TypeOK, RunsOK, Fresh, Shows, NEW w \in Writers, Write(w)
    PROVE  Fresh' /\ Shows'
<1>1. CASE conn = Absent
      BY <1>1 DEF Write, Fresh, Shows
<1>2. CASE conn # Absent
  <2>. PICK e \in run[w].left : Upsert(w, e) /\ run' = [run EXCEPT ![w].left = @ \ {e}]
       BY DEF Write
  <2>1. /\ run \in [Writers -> RunType] /\ run[w].pc = "write"
        /\ rows \in [Entries -> Props \cup {None}] /\ e \in Entries
        BY Typed DEF Write, Under, RunType
  <2>2. UNCHANGED <<feed, today, conn, bounds, good, full>>
        BY DEF Write
  <2>3. \A x \in Entries \ {e} : /\ rows'[x] = rows[x]
                                 /\ x \in tainted' <=> x \in tainted
        BY <2>1 DEF Upsert
  <2>4. rows'[e] = conn.prop \/ e \in tainted'
    <3>1. CASE run[w].stale
          BY <3>1 DEF Upsert
    <3>2. CASE ~ run[w].stale
      <4>1. run[w].prop = conn.prop
            BY <1>2, <2>1, <3>2 DEF Fresh, FreshRun, Steps
      <4>. QED BY <2>1, <4>1 DEF Upsert
    <3>. QED BY <3>1, <3>2
  <2>5. Shows'
    <3>1. ASSUME NEW days, NEW now, Shown(days, now) PROVE Shown(days, now)'
          BY <2>1, <2>2, <2>3, <2>4, <3>1 DEF Shown, Reported, Over, Entries
    <3>. QED BY <1>2, <2>2, <3>1 DEF Shows
  <2>6. Fresh'
    <3>1. ASSUME NEW u \in Writers PROVE FreshRun(run[u])'
      <4>1. /\ run'[u].pc = run[u].pc /\ run'[u].prop = run[u].prop
            /\ run'[u].day = run[u].day /\ run'[u].kind = run[u].kind
            /\ run'[u].stale = run[u].stale
            /\ run'[u].left \in {run[u].left, run[u].left \ {e}}
            BY <2>1 DEF RunType
      <4>2. u # w => run'[u].left = run[u].left
            BY <2>1
      <4>3. Cover(run[u])' = Cover(run[u])
            BY <2>2, <4>1 DEF Cover
      <4>4. FreshRun(run[u])
            BY <1>2 DEF Fresh
      <4>5. run[u].pc = "fetch" => u # w
            BY <2>1
      <4>. QED BY <2>2, <2>3, <2>4, <4>1, <4>2, <4>3, <4>4, <4>5
               DEF FreshRun, Reported, Over, Entries
    <3>. QED BY <3>1 DEF Fresh
  <2>. QED BY <2>5, <2>6
<1>. QED BY <1>1, <1>2

LEMMA StampFresh ==
    ASSUME TypeOK, RunsOK, Fresh, Shows, NEW w \in Writers, Stamp(w)
    PROVE  Fresh' /\ Shows'
<1>1. /\ run \in [Writers -> RunType] /\ run[w].pc = "write" /\ run[w].left = {}
      /\ run[w].day \in Days /\ RunOK(run[w], today)
      BY Typed DEF Stamp, Under, RunsOK, RunOK
<1>2. UNCHANGED <<feed, today, rows, tainted>>
      BY DEF Stamp
<1>3. CASE conn = Absent
      BY <1>3 DEF Stamp, Stamped, Fresh, Shows
<1>4. CASE conn # Absent
  <2>1. conn' # Absent => conn'.prop = conn.prop
        BY <1>4, Typed DEF Stamp, Stamped, Connections
  <2>2. run' = [run EXCEPT ![w] = Rest(w)] /\ FreshRun(Rest(w))'
        BY IdleFresh, RestIsEnd DEF Stamp, FreshRun, Steps
  <2>3. Fresh'
        BY <1>1, <1>2, <1>4, <2>1, <2>2 DEF Fresh, FreshRun, Cover, Reported
  <2>4. ASSUME ~ run[w].stale
        PROVE  /\ Shown(Window(run[w].day, CronDays[feed]), run[w].day)
               /\ run[w].kind = "select" => Shown(1..(run[w].day - 1), run[w].day)
    <3>1. FreshRun(run[w])
          BY <1>4 DEF Fresh
    <3>2. Shown(Cover(run[w]), run[w].day)
          BY <1>1, <2>4, <3>1 DEF FreshRun, Steps, Shown
    <3>3. Over(Window(run[w].day, CronDays[feed])) \subseteq Over(Cover(run[w]))
          BY <1>1, CoverFacts DEF Cover
    <3>. QED BY <3>2, <3>3 DEF Shown, Cover
  <2>5. CASE conn' = Absent
    <3>1. conn' \in Connections
      <4>1. PICK now \in {today, run[w].day} : conn' = Stamped(w, now)
            BY DEF Stamp
      <4>2. now \in 0..MaxDay
            BY <1>1, <4>1, Typed DEF Days
      <4>. QED BY <1>4, <4>1, <4>2, Typed DEF Stamped, Connections
    <3>. QED BY <2>5, <3>1, TrafficAssumption
  <2>6. CASE conn' # Absent
    <3>1. \A days, now : Shown(days, now) => Shown(days, now)'
          BY <1>2, <2>1, <2>6 DEF Shown, Reported
    <3>2. /\ good' \in {good, good \cup {run[w].day}}
          /\ full' \in {full, run[w].day}
          /\ good' # good => ~ run[w].stale
          /\ full' # full => ~ run[w].stale /\ run[w].kind = "select" /\ full' = run[w].day
          BY DEF Stamp
    <3>3. \A now \in good' : Shown(Window(now, CronDays[feed]), now)
          BY <1>4, <2>4, <3>2 DEF Shows
    <3>4. full' # 0 => Shown(1..(full' - 1), full')
          BY <1>4, <2>4, <3>2 DEF Shows
    <3>. QED BY <1>2, <2>3, <2>6, <3>1, <3>3, <3>4 DEF Shows
  <2>. QED BY <2>5, <2>6
<1>. QED BY <1>3, <1>4

LEMMA FailFresh ==
    ASSUME TypeOK, RunsOK, Fresh, Shows, NEW w \in Writers, Fail(w) \/ Crash(w)
    PROVE  Fresh' /\ Shows'
<1>1. UNCHANGED <<feed, rows, tainted, good, full>>
      BY DEF Fail, Crash, history
<1>2. run' = [run EXCEPT ![w] = Rest(w)] /\ FreshRun(Rest(w))
      BY IdleFresh DEF Fail, Crash, Faulty, Rest
<1>3. conn' = conn \/ (conn # Absent /\ conn' = [conn EXCEPT !.status = "error"])
      BY DEF Fail, Crash
<1>4. conn # Absent => conn' # Absent /\ conn'.prop = conn.prop
  <2>1. ASSUME conn # Absent, conn' = [conn EXCEPT !.status = "error"]
        PROVE  conn' \in Connections /\ conn'.prop = conn.prop
        BY <2>1, Typed DEF Connections
  <2>. QED BY <1>3, <2>1, TrafficAssumption
<1>. QED BY <1>1, <1>2, <1>3, <1>4, MoveFresh

LEMMA FreshNext ==
    ASSUME TypeOK, RunsOK, Fresh, Shows, [Next]_vars
    PROVE  Fresh' /\ Shows'
<1>1. CASE Consent \/ Disconnect \/ NewDay
      BY <1>1, ConnectionFresh
<1>2. CASE Scan \/ Count
      BY <1>2, ReadFresh DEF Writers
<1>3. ASSUME NEW w \in Requests,
             Resync(w) \/ ReadToken(w) \/ \E p \in Props : Select(w, p)
      PROVE  Fresh' /\ Shows'
      BY <1>3, ReadFresh, SelectFresh DEF Writers
<1>4. ASSUME NEW w \in Writers, Proceed(w) \/ Fail(w) \/ Crash(w)
      PROVE  Fresh' /\ Shows'
      BY <1>4, ReadFresh, WriteFresh, StampFresh, FailFresh DEF Proceed
<1>5. ASSUME UNCHANGED vars PROVE Fresh' /\ Shows'
      BY <1>5 DEF vars, history, Fresh, FreshRun, Cover, Shows, Shown, Reported
<1>. QED BY <1>1, <1>2, <1>3, <1>4, <1>5 DEF Next

LEMMA FreshInit == Init => Fresh /\ Shows
BY IdleFresh DEF Init, Fresh, Shows

\* The inductive invariant.
LEMMA Stays ==
    Spec => [](TypeOK /\ RunsOK /\ Fresh /\ Shows)
<1>1. Init => TypeOK /\ RunsOK /\ Fresh /\ Shows
      BY InitTyped, FreshInit
<1>2. TypeOK /\ RunsOK /\ Fresh /\ Shows /\ [Next]_vars
          => (TypeOK /\ RunsOK /\ Fresh /\ Shows)'
      BY NextTyped, FreshNext
<1>. QED BY <1>1, <1>2, PTL DEF Spec

(* Whatever requests, ticks, failures and crashes follow a stamped sync, each *)
(* row Google had of the selected property over the days it looked back on    *)
(* shows that property: only a writer that began before the selection can put *)
(* other figures back.                                                       *)
THEOREM TrafficStampedDaysShown == Spec => []StampedDaysShown
<1>1. Shows => StampedDaysShown
      BY DEF Shows, StampedDaysShown
<1>. QED BY <1>1, Stays, PTL

(* The same for the backfill of a selection, over all that Google had of the  *)
(* property: another property keeps a row only where this one has none.       *)
THEOREM TrafficBackfillShown == Spec => []BackfillShown
<1>1. Shows => BackfillShown
      BY DEF Shows, BackfillShown
<1>. QED BY <1>1, Stays, PTL
=============================================================================
