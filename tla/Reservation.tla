----------------------------- MODULE Reservation -----------------------------
(***************************************************************************)
(* The reserve_slot tool, its entry sweeps, POST /a2a/confirm, and the audit *)
(* rows that credit a conversion to an agent.                              *)
(*                                                                         *)
(* Each SQL statement is one step, because several server processes may     *)
(* share the database file.  Time is counted in units much longer than a    *)
(* handler: the synchronous part of a call never straddles two of them.     *)
(* A confirmation token is self-contained and signed, so any token ever     *)
(* minted can be presented, once or many times.                            *)
(***************************************************************************)
EXTENDS Integers, FiniteSets

CONSTANTS
    Calls,           \* reserve_slot calls; a reservation is named by its creator
    Req,             \* the arguments of each call
    NoCall,          \* an answer that names no reservation
    Slugs, Keys, Agents, NoAgent,
    Businesses,      \* slugs with a businesses row
    HoldTime,        \* HOLD_SECONDS
    TokenTTL,        \* EXPIRY_SECONDS of a continuation token
    HeldKeep, ExpiredKeep, ConfirmedKeep,     \* retention of contact details
    MaxTime          \* bound on the clock

Times == 0 .. MaxTime

ASSUME ReservationAssumption ==
    /\ NoAgent \notin Agents
    /\ NoCall \notin Calls
    /\ Businesses \subseteq Slugs
    /\ Req \in [Calls -> [slug : Slugs, key : Keys,
                          agent : Agents \cup {NoAgent}, windowEnd : Int]]
    /\ {HoldTime, TokenTTL, HeldKeep, ExpiredKeep, ConfirmedKeep, MaxTime}
          \subseteq Nat

VARIABLES
    now,
    res,       \* the reservations table
    call,      \* progress of each reserve_slot call, and the row it answered with
    tokens,    \* every confirmation token minted
    audit,     \* agent_requests: the row each call logged
    owed       \* confirmations whose audit row is not stamped yet

vars == <<now, res, call, tokens, audit, owed>>

Status == {"none", "held", "confirmed", "expired"}
Steps  == {"sweep", "redact", "lookup", "insert", "log", "stamp", "closed"}

TypeOK ==
    /\ now \in Times
    /\ res \in [Calls -> [status : Status, expires : Nat, redacted : BOOLEAN,
                          decided : Nat]]
    /\ call \in [Calls -> [pc : Steps, answer : Calls \cup {NoCall}]]
    /\ tokens \subseteq [ticket : Calls, slug : Slugs, ts : Times]
    /\ audit \in [Calls -> [outcome : {"absent", "none", "held", "confirmed"},
                            related : Calls \cup {NoCall}, ts : Times]]
    /\ owed \subseteq Calls

Init ==
    /\ now = 0
    /\ res = [q \in Calls |-> [status |-> "none", expires |-> 0,
                               redacted |-> FALSE, decided |-> 0]]
    /\ call = [q \in Calls |-> [pc |-> "sweep", answer |-> NoCall]]
    /\ tokens = {}
    /\ audit = [q \in Calls |-> [outcome |-> "absent", related |-> NoCall, ts |-> 0]]
    /\ owed = {}
-----------------------------------------------------------------------------
(* reserve_slot. *)

Rows      == {r \in Calls : res[r].status # "none"}
RowOf(k)  == {r \in Rows : Req[r].key = k}

Lapsed(r) == res[r].status = "held" /\ res[r].expires < now

\* Mutant of Sweep: the sweep never runs.
SkipSweep(q) ==
    /\ call[q].pc = "sweep"
    /\ call' = [call EXCEPT ![q].pc = "redact"]
    /\ UNCHANGED <<now, res, tokens, audit, owed>>

\* Mutant of Sweep: every lapsed row expires, whatever its status.
SweepAnyStatus(q) ==
    /\ call[q].pc = "sweep"
    /\ res' = [r \in Calls |-> IF r \in Rows /\ res[r].expires < now
                               THEN [res[r] EXCEPT !.status = "expired"] ELSE res[r]]
    /\ call' = [call EXCEPT ![q].pc = "redact"]
    /\ UNCHANGED <<now, tokens, audit, owed>>

\* sweepExpiredReservations
Sweep(q) ==
    /\ call[q].pc = "sweep"
    /\ res' = [r \in Calls |-> IF Lapsed(r)
                               THEN [res[r] EXCEPT !.status = "expired"] ELSE res[r]]
    /\ call' = [call EXCEPT ![q].pc = "redact"]
    /\ UNCHANGED <<now, tokens, audit, owed>>

Stale(r) ==
    \/ res[r].status = "held"      /\ res[r].expires < now - HeldKeep
    \/ res[r].status = "expired"   /\ res[r].expires < now - ExpiredKeep
    \/ res[r].status = "confirmed" /\ Req[r].windowEnd < now - ConfirmedKeep

\* redactStalePii
Redact(q) ==
    /\ call[q].pc = "redact"
    /\ res' = [r \in Calls |-> IF Stale(r) THEN [res[r] EXCEPT !.redacted = TRUE]
                               ELSE res[r]]
    /\ call' = [call EXCEPT ![q].pc = "lookup"]
    /\ UNCHANGED <<now, tokens, audit, owed>>

\* Answer call q with reservation r and a token minted for it now.
Answer(q, r) ==
    /\ call' = [call EXCEPT ![q] = [pc |-> "log", answer |-> r]]
    /\ tokens' = tokens \cup {[ticket |-> r, slug |-> Req[r].slug, ts |-> now]}

\* An unknown business is an error result; a known key is a replay.
LookUp(q) ==
    /\ call[q].pc = "lookup"
    /\ \/ /\ Req[q].slug \notin Businesses
          /\ call' = [call EXCEPT ![q].pc = "log"]
          /\ UNCHANGED tokens
       \/ /\ Req[q].slug \in Businesses
          /\ RowOf(Req[q].key) = {}
          /\ call' = [call EXCEPT ![q].pc = "insert"]
          /\ UNCHANGED tokens
       \/ /\ Req[q].slug \in Businesses
          /\ \E r \in RowOf(Req[q].key) : Answer(q, r)
    /\ UNCHANGED <<now, res, audit, owed>>

Created == [status |-> "held", expires |-> now + HoldTime,
            redacted |-> FALSE, decided |-> 0]

\* Mutant of Insert: no UNIQUE constraint stops the loser of the race.
InsertAnyway(q) ==
    /\ call[q].pc = "insert"
    /\ res' = [res EXCEPT ![q] = Created]
    /\ Answer(q, q)
    /\ UNCHANGED <<now, audit, owed>>

\* The INSERT, or the replay of the row that won the race for the key.
Insert(q) ==
    /\ call[q].pc = "insert"
    /\ \/ /\ RowOf(Req[q].key) = {}
          /\ res' = [res EXCEPT ![q] = Created]
          /\ Answer(q, q)
       \/ /\ \E r \in RowOf(Req[q].key) : Answer(q, r)
          /\ UNCHANGED res
    /\ UNCHANGED <<now, audit, owed>>

\* withAgentRequestLog: no audit row for an anonymous caller.
Log(q) ==
    /\ call[q].pc = "log"
    /\ \/ /\ Req[q].agent = NoAgent
          /\ call' = [call EXCEPT ![q].pc = "closed"]
          /\ UNCHANGED audit
       \/ /\ Req[q].agent # NoAgent
          /\ audit' = [audit EXCEPT ![q].outcome = "none", ![q].ts = now]
          /\ call' = [call EXCEPT ![q].pc = IF call[q].answer = NoCall
                                            THEN "closed" ELSE "stamp"]
    /\ UNCHANGED <<now, res, tokens, owed>>

\* setOutcomeAndRelated, for new reservations and replays alike.
Stamp(q) ==
    /\ call[q].pc = "stamp"
    /\ audit' = [audit EXCEPT ![q].outcome = "held", ![q].related = call[q].answer]
    /\ call' = [call EXCEPT ![q].pc = "closed"]
    /\ UNCHANGED <<now, res, tokens, owed>>

\* The process dies: the statements that ran stay, the rest never run.
Crash(q) ==
    /\ call[q].pc \notin {"sweep", "closed"}
    /\ call' = [call EXCEPT ![q].pc = "closed"]
    /\ UNCHANGED <<now, res, tokens, audit, owed>>
-----------------------------------------------------------------------------
(* POST /a2a/confirm. *)

\* Mutant of Fresh: the age of a token is not checked.
AnyAge(tok) == tok \in tokens

\* verifyContinuationToken
Fresh(tok) == now - tok.ts <= TokenTTL

\* Mutant of Confirm: the status test is dropped from the UPDATE.
ConfirmAgain(tok) ==
    /\ Fresh(tok)
    /\ tok.slug = Req[tok.ticket].slug
    /\ res' = [res EXCEPT ![tok.ticket].status = "confirmed",
                          ![tok.ticket].decided = now]
    /\ owed' = owed \cup {tok.ticket}
    /\ UNCHANGED <<now, call, tokens, audit>>

\* The conditional UPDATE; every other outcome is an error without effect.
Confirm(tok) ==
    /\ Fresh(tok)
    /\ res[tok.ticket].status = "held"
    /\ tok.slug = Req[tok.ticket].slug
    /\ res' = [res EXCEPT ![tok.ticket].status = "confirmed",
                          ![tok.ticket].decided = now]
    /\ owed' = owed \cup {tok.ticket}
    /\ UNCHANGED <<now, call, tokens, audit>>

\* findByRelatedId: the newest audit rows of a reservation.
Newest(r) ==
    LET about == {q \in Calls : audit[q].related = r}
    IN {q \in about : \A p \in about : audit[p].ts <= audit[q].ts}

\* setOutcome on the row found, nothing if there is none (or on a crash).
Credit(r) ==
    /\ r \in owed
    /\ owed' = owed \ {r}
    /\ \/ \E q \in Newest(r) : audit' = [audit EXCEPT ![q].outcome = "confirmed"]
       \/ UNCHANGED audit
    /\ UNCHANGED <<now, res, call, tokens>>
-----------------------------------------------------------------------------
\* Handlers are synchronous and much shorter than a unit of time.
Running(q) == call[q].pc \in {"redact", "lookup", "insert", "log", "stamp"}

Pass ==
    /\ now < MaxTime
    /\ owed = {}
    /\ \A q \in Calls : ~ Running(q)
    /\ now' = now + 1
    /\ UNCHANGED <<res, call, tokens, audit, owed>>

Reserve(q) ==
    \/ Sweep(q)
    \/ Redact(q)
    \/ LookUp(q)
    \/ Insert(q)
    \/ Log(q)
    \/ Stamp(q)
    \/ Crash(q)

Next ==
    \/ Pass
    \/ \E q \in Calls : Reserve(q) \/ Credit(q)
    \/ \E tok \in tokens : Confirm(tok)

Spec == Init /\ [][Next]_vars
-----------------------------------------------------------------------------
\* IDEMPOTENCY.  All answers given for one key, also to racing and to late
\* retries, name one reservation.
OneReservationPerKey ==
    \A p, q \in Calls :
        /\ Req[p].key = Req[q].key
        /\ call[p].answer # NoCall
        /\ call[q].answer # NoCall
        => call[p].answer = call[q].answer

\* LATE CONFIRMATION.  /a2a/confirm does not look at expires_at; still a lapsed
\* hold is never confirmed later than one token lifetime after it lapsed, because
\* every call that mints a token has swept first.
LateConfirmBounded ==
    \A r \in Rows :
        res[r].status = "confirmed" => res[r].decided <= res[r].expires + TokenTTL

\* CONTACT KEPT.  A confirmed booking keeps its contact details until the
\* retention of its window is over, although lapsed holds are redacted earlier
\* and may be confirmed after they lapsed.
ConfirmedContactKept ==
    \A r \in Rows :
        res[r].status = "confirmed" /\ Req[r].windowEnd >= now - ConfirmedKeep
            => ~ res[r].redacted

\* SINGLE CREDIT.  However often a reservation is replayed and its tokens are
\* presented, at most one audit row is credited with its conversion, and only
\* when it was confirmed.
SingleCredit ==
    \A r \in Calls :
        LET credited == {q \in Calls : audit[q].outcome = "confirmed"
                                       /\ audit[q].related = r}
        IN /\ Cardinality(credited) <= 1
           /\ credited # {} => res[r].status = "confirmed"

\* REFINEMENT.  The table implements one hold per key.
HoldState(k) == IF RowOf(k) = {} THEN "free"
                ELSE res[CHOOSE r \in RowOf(k) : TRUE].status

H == INSTANCE Hold WITH hold <- [k \in Keys |-> HoldState(k)]

HoldImplemented == H!Spec
=============================================================================
