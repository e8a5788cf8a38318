------------------------------- MODULE McpGate -------------------------------
(***************************************************************************)
(* The per-client rate limit in front of /mcp: McpRateLimiter (a sliding     *)
(* window per client in a bounded map), the Durable Object that holds the    *)
(* global one, and the limiter of each worker isolate, used when the         *)
(* Durable Object does not answer.                                         *)
(*                                                                         *)
(* A check is named by its number in log.  A limiter's map gives each client *)
(* the checks it still counts and the check that touched it last, which is   *)
(* its place in the insertion order of a JavaScript Map.                     *)
(***************************************************************************)
EXTENDS Integers, FiniteSets, Sequences

CONSTANTS
    Ips,           \* clients
    Global,        \* the limiter in the Durable Object
    Isolates,      \* the limiters of the isolates
    Limit,         \* requests per window
    Window,        \* windowMs
    MaxIps,        \* clients a limiter keeps
    MaxCalls,      \* bound on the requests
    MaxTime,       \* bound on the clock
    MaxOutages     \* bound on answers lost and limiters restarted

Limiters == {Global} \cup Isolates
Times    == 0 .. MaxTime

ASSUME McpGateAssumption ==
    /\ Global \notin Isolates
    /\ IsFiniteSet(Ips)
    /\ {Limit, Window, MaxIps} \subseteq Nat \ {0}
    /\ {MaxCalls, MaxTime, MaxOutages} \subseteq Nat

VARIABLES
    now,
    hits,       \* each limiter's map
    made,       \* requests so far
    pending,    \* requests the Durable Object did not answer
    life,       \* history: how often each limiter has forgotten each client
    log,        \* every check made: who, when, where and what came of it
    outages     \* outages so far

gateVars == <<now, hits, made, pending, life, log, outages>>

\* touched is 0 while the client is not in the map.
Entry  == [kept : SUBSET Nat, touched : Nat]
Absent == [kept |-> {}, touched |-> 0]
Check  == [ip : Ips, at : Times, by : Limiters, life : Nat, ok : BOOLEAN, wait : Nat]

Present(map) == {c \in Ips : map[c].touched > 0}

GateTypeOK ==
    /\ now \in Times
    /\ hits \in [Limiters -> [Ips -> Entry]]
    /\ \A l \in Limiters : Cardinality(Present(hits[l])) <= MaxIps
    /\ made \in 0 .. MaxCalls
    /\ pending \in SUBSET [no : 1 .. MaxCalls, ip : Ips, iso : Isolates]
    /\ life \in [Limiters -> [Ips -> Nat]]
    /\ log \in Seq(Check)
    /\ outages \in 0 .. MaxOutages

GateInit ==
    /\ now = 0
    /\ hits = [l \in Limiters |-> [c \in Ips |-> Absent]]
    /\ made = 0 /\ pending = {}
    /\ life = [l \in Limiters |-> [c \in Ips |-> 0]]
    /\ log = <<>>
    /\ outages = 0
-----------------------------------------------------------------------------
(* McpRateLimiter.check *)

\* Mutant of Recent: a request exactly one window old still counts.
RecentClosed(l, c) == {i \in hits[l][c].kept : log[i].at >= now - Window}

\* Mutant of Recent: the window is a unit too short.
RecentShort(l, c) == {i \in hits[l][c].kept : log[i].at > now - Window + 1}

Recent(l, c) == {i \in hits[l][c].kept : log[i].at > now - Window}

\* Mutant of Touched: the entry keeps its place in the map.
Untouched(map, c, counted) ==
    [map EXCEPT ![c] = [kept |-> counted,
                        touched |-> IF @.touched > 0 THEN @.touched ELSE Len(log) + 1]]

\* delete, then set, by the check under way: the entry moves to the end.
Touched(map, c, counted) ==
    [map EXCEPT ![c] = [kept |-> counted, touched |-> Len(log) + 1]]

\* Mutant of Evicted: the map may grow one entry past its bound.
EvictedLate(map) ==
    {c \in Present(map) : /\ Cardinality(Present(map)) > MaxIps + 1
                          /\ \A d \in Present(map) : map[c].touched <= map[d].touched}

\* The least recently touched client goes when the map has grown past its bound.
Evicted(map) ==
    {c \in Present(map) : /\ Cardinality(Present(map)) > MaxIps
                          /\ \A d \in Present(map) : map[c].touched <= map[d].touched}

\* Limiter l drops the clients gone from its map, which becomes the new one.
Forget(l, map, gone) ==
    /\ hits' = [hits EXCEPT ![l] = [c \in Ips |-> IF c \in gone THEN Absent ELSE map[c]]]
    /\ life' = [life EXCEPT ![l] = [c \in Ips |-> IF c \in gone THEN @[c] + 1 ELSE @[c]]]

Logged(l, c, ok, wait) ==
    log' = Append(log, [ip |-> c, at |-> now, by |-> l, life |-> life[l][c],
                        ok |-> ok, wait |-> wait])

\* Mutant of Refuse: the refused request is counted as well.
RefuseCounted(l, c) ==
    /\ Cardinality(Recent(l, c)) >= Limit
    /\ Forget(l, Touched(hits[l], c, Recent(l, c) \cup {Len(log) + 1}), {})
    /\ \E oldest \in Recent(l, c) :
          /\ \A i \in Recent(l, c) : oldest <= i
          /\ Logged(l, c, FALSE, log[oldest].at + Window - now)

\* The window is full: the client is told to wait until its oldest request leaves.
Refuse(l, c) ==
    /\ Cardinality(Recent(l, c)) >= Limit
    /\ Forget(l, Touched(hits[l], c, Recent(l, c)), {})
    /\ \E oldest \in Recent(l, c) :
          /\ \A i \in Recent(l, c) : oldest <= i
          /\ Logged(l, c, FALSE, log[oldest].at + Window - now)

\* The request is counted, and the map may push its eldest client out.
Admit(l, c) ==
    /\ Cardinality(Recent(l, c)) < Limit
    /\ LET map == Touched(hits[l], c, Recent(l, c) \cup {Len(log) + 1})
       IN Forget(l, map, Evicted(map))
    /\ Logged(l, c, TRUE, 0)

\* Limiter l is asked about client c.
Decide(l, c) == Refuse(l, c) \/ Admit(l, c)
-----------------------------------------------------------------------------
(* The /mcp branch of the worker. *)

\* checkMcpRateLimit: the Durable Object decides and its answer comes back, or
\* is lost on the way, or the request never gets there.
Ask(c, iso) ==
    /\ made < MaxCalls
    /\ made' = made + 1
    /\ \/ /\ Decide(Global, c)
          /\ UNCHANGED <<pending, outages>>
       \/ /\ outages < MaxOutages
          /\ outages' = outages + 1
          /\ pending' = pending \cup {[no |-> made + 1, ip |-> c, iso |-> iso]}
          /\ Decide(Global, c) \/ UNCHANGED <<hits, life, log>>
    /\ UNCHANGED now

\* isolate_fallback: the isolate's own limiter decides.
Fallback(p) ==
    /\ Decide(p.iso, p.ip)
    /\ pending' = pending \ {p}
    /\ UNCHANGED <<now, made, outages>>
-----------------------------------------------------------------------------
(* Hibernation, a redeploy, an isolate recycled: all counters are gone. *)
Restart(l) ==
    /\ outages < MaxOutages
    /\ Present(hits[l]) # {}
    /\ outages' = outages + 1
    /\ Forget(l, hits[l], Present(hits[l]))
    /\ UNCHANGED <<now, made, pending, log>>

Pass ==
    /\ now < MaxTime
    /\ now' = now + 1
    /\ UNCHANGED <<hits, made, pending, life, log, outages>>

GateNext ==
    \/ \E c \in Ips, iso \in Isolates : Ask(c, iso)
    \/ \E p \in pending : Fallback(p)
    \/ \E l \in Limiters : Restart(l)
    \/ Pass

GateSpec == GateInit /\ [][GateNext]_gateVars
-----------------------------------------------------------------------------
Admitted(l, c, n, from, to) ==
    {i \in 1 .. Len(log) : /\ log[i].by = l /\ log[i].ip = c /\ log[i].ok
                           /\ log[i].life = n
                           /\ from < log[i].at /\ log[i].at <= to}

\* WINDOW BOUND.  As long as a limiter remembers a client it admits at most Limit
\* of its requests in any stretch of time one window long, wherever it begins: a
\* client that gets more has met several limiters or one that forgot it.
WindowBound ==
    \A l \in Limiters, c \in Ips : \A n \in 0 .. life[l][c] : \A t \in Times :
        Cardinality(Admitted(l, c, n, t - Window, t)) <= Limit

\* REFUSALS ARE EARNED.  A request is refused only when the limiter that refuses
\* it has admitted Limit requests of this client within the last window; neither
\* refusals nor requests counted elsewhere are held against it.
RefusalEarned ==
    \A i \in 1 .. Len(log) : ~ log[i].ok =>
        Cardinality({j \in Admitted(log[i].by, log[i].ip, log[i].life,
                                    log[i].at - Window, log[i].at) : j < i}) >= Limit

\* RETRY-AFTER SUFFICES.  A client that stays away for as long as a refusal told
\* it to is admitted by that limiter when it comes back.
RetryAfterSuffices ==
    \A i, j \in 1 .. Len(log) :
        LET same(k) == log[k].ip = log[i].ip /\ log[k].by = log[i].by
        IN /\ i < j /\ ~ log[i].ok /\ same(j)
           /\ log[j].at >= log[i].at + log[i].wait
           /\ \A k \in i + 1 .. j - 1 : same(k) => ~ log[k].ok
           => log[j].ok

\* FORGOTTEN ONLY IN A CROWD.  Other than by a restart, a limiter forgets a client
\* only when MaxIps other clients have come to it since the client's last request.
Since(l, c) ==
    {log[i].ip : i \in {k \in 1 .. Len(log) :
        log[k].by = l /\ \A j \in 1 .. Len(log) :
                            log[j].by = l /\ log[j].ip = c => j < k}}

ForgottenOnlyInCrowd ==
    [][\A l \in Limiters, c \in Ips :
          life'[l][c] # life[l][c] /\ Present(hits[l])' # {}
              => Cardinality(Since(l, c)') >= MaxIps]_gateVars
=============================================================================
