-------------------------------- MODULE Contact --------------------------------
(***************************************************************************)
(* The two MCP tools that pass a user on to a person or to another agent:    *)
(* request_callback and initiate_handoff, with the audit rows of their       *)
(* callers (withAgentRequestLog) and POST /a2a/continue/:token.              *)
(*                                                                         *)
(* The server is one process on a synchronous SQLite: what a call does up to *)
(* its await of Twilio, and what it does after it, are one step each.        *)
(***************************************************************************)
EXTENDS Integers, FiniteSets

CONSTANTS
    Callbacks, Handoffs,   \* call slots of the two tools
    Keys,                  \* idempotency keys
    Identified,            \* calls that name their agent
    NoKey,                 \* the key of a call without one
    NoTicket,              \* related_id is NULL
    MaxReroutes,           \* bound on changes of lead_routing_json
    MaxFaults              \* bound on crashes and lost answers

Calls  == Callbacks \cup Handoffs
Routes == {"form", "none", "sms", "email"}
Status == {"pending", "notified", "failed"}

ASSUME ContactAssumption ==
    /\ Callbacks \cap Handoffs = {}
    /\ IsFiniteSet(Calls)
    /\ Identified \subseteq Calls
    /\ Keys \cap Handoffs = {}
    /\ NoKey \notin Keys /\ NoTicket \notin Handoffs
    /\ {MaxReroutes, MaxFaults} \subseteq Nat

VARIABLES
    route,       \* where the business wants its leads
    reroutes,
    row,         \* callback_requests, by the key its id is derived from
    handoff,     \* handoffs, by the call that made the row
    call,        \* where each call is, its key, what it answered
    audit,       \* agent_requests, by the call that made the row
    faults,
    texts,       \* messages Twilio took, per key and per handoff
    raced,       \* keys two calls have worked on at once
    struck,      \* keys and handoffs whose message met a crash
    lost,        \* keys and handoffs whose Twilio answer was lost
    continued    \* handoffs whose continuation URL was used

vars == <<route, reroutes, row, handoff, call, audit, faults, texts, raced,
          struck, lost, continued>>
hist == <<texts, raced, struck, lost, continued>>

TypeOK ==
    /\ route \in Routes /\ reroutes \in 0 .. MaxReroutes
    /\ row \in [Keys -> Status \cup {"absent"}]
    /\ handoff \in [Handoffs -> {"absent", "human", "agent"}]
    /\ call \in [Calls -> [pc : {"idle", "sending", "accepted", "refused", "answered",
                                 "threw", "done", "dead"},
                           key : Keys \cup {NoKey},
                           said : Status \cup {"nothing"}]]
    /\ \A c \in Callbacks : call[c].pc = "answered" => call[c].said # "nothing"
    /\ audit \in [Calls -> [outcome : {"absent", "none", "error", "handoff_completed"},
                          related : Handoffs \cup {NoTicket}]]
    /\ \A c \in Calls : audit[c].outcome # "absent" => c \in Identified
    /\ faults \in 0 .. MaxFaults
    /\ texts \in [Keys \cup Handoffs -> Nat]
    /\ raced \subseteq Keys
    /\ struck \subseteq Keys \cup Handoffs /\ lost \subseteq Keys \cup Handoffs
    /\ continued \subseteq Handoffs

Init ==
    /\ route \in Routes /\ reroutes = 0
    /\ row = [k \in Keys |-> "absent"]
    /\ handoff = [h \in Handoffs |-> "absent"]
    /\ call = [c \in Calls |-> [pc |-> "idle", key |-> NoKey, said |-> "nothing"]]
    /\ audit = [c \in Calls |-> [outcome |-> "absent", related |-> NoTicket]]
    /\ faults = 0
    /\ texts = [x \in Keys \cup Handoffs |-> 0]
    /\ raced = {} /\ struck = {} /\ lost = {} /\ continued = {}
-----------------------------------------------------------------------------
(* request_callback *)

Sending(c) == call[c].pc \in {"sending", "accepted", "refused"}

Answered(c, k, status) ==
    call' = [call EXCEPT ![c] = [pc |-> "answered", key |-> k, said |-> status]]

\* Mutant of InsertRow: INSERT OR REPLACE.
ReplaceRow(c, k, status) ==
    row' = [row EXCEPT ![k] = status] /\ Answered(c, k, status)

\* insertRow: the id is the primary key, the loser of a race throws.
InsertRow(c, k, status) ==
    IF row[k] = "absent"
    THEN row' = [row EXCEPT ![k] = status] /\ Answered(c, k, status)
    ELSE call' = [call EXCEPT ![c].pc = "threw"] /\ UNCHANGED row

Overlap(k) == {j \in {k} : \E d \in Calls : Sending(d) /\ call[d].key = j}

\* The await of sendSms, or of sendEmail, which is a stub and refuses at once.
Dispatch(c, k) ==
    /\ route \in {"sms", "email"}
    /\ call' = [call EXCEPT ![c] = [pc |-> IF route = "sms" THEN "sending" ELSE "refused",
                                    key |-> k, said |-> "nothing"]]

\* Mutant of LookUp: the row on file is not looked for.
SkipLookUp(c, k) ==
    \/ /\ route \in {"form", "none"}
       /\ InsertRow(c, k, IF route = "form" THEN "pending" ELSE "failed")
       /\ raced' = raced \cup Overlap(k)
    \/ /\ Dispatch(c, k)
       /\ raced' = raced \cup Overlap(k)
       /\ UNCHANGED row

\* handleRequestCallback up to its await: the row on file is replayed; where
\* nothing can be sent the row is written at once.
LookUp(c, k) ==
    \/ /\ row[k] # "absent"
       /\ Answered(c, k, row[k])
       /\ UNCHANGED <<row, raced>>
    \/ /\ row[k] = "absent" /\ route \in {"form", "none"}
       /\ InsertRow(c, k, IF route = "form" THEN "pending" ELSE "failed")
       /\ raced' = raced \cup Overlap(k)
    \/ /\ row[k] = "absent" /\ Dispatch(c, k)
       /\ raced' = raced \cup Overlap(k)
       /\ UNCHANGED row

BeginCallback(c) ==
    /\ call[c].pc = "idle"
    /\ \E k \in Keys : LookUp(c, k)
    /\ UNCHANGED <<route, reroutes, handoff, audit, faults, texts, struck, lost, continued>>

\* Mutant of FinishCallback: what Twilio did not take leaves no row.
FinishDelivered(c) ==
    /\ call[c].pc \in {"accepted", "refused"}
    /\ \/ /\ call[c].pc = "accepted"
          /\ InsertRow(c, call[c].key, "notified")
       \/ /\ call[c].pc = "refused"
          /\ call' = [call EXCEPT ![c].pc = "threw"]
          /\ UNCHANGED row
    /\ UNCHANGED <<route, reroutes, handoff, audit, faults, hist>>

\* Mutant of FinishCallback: the outcome of the dispatch is not looked at.
FinishNotified(c) ==
    /\ call[c].pc \in {"accepted", "refused"}
    /\ InsertRow(c, call[c].key, "notified")
    /\ UNCHANGED <<route, reroutes, handoff, audit, faults, hist>>

FinishCallback(c) ==
    /\ call[c].pc \in {"accepted", "refused"}
    /\ InsertRow(c, call[c].key,
                 IF call[c].pc = "accepted" THEN "notified" ELSE "failed")
    /\ UNCHANGED <<route, reroutes, handoff, audit, faults, hist>>
-----------------------------------------------------------------------------
(* initiate_handoff: no idempotency, the id is random, the call names the row *)

\* Mode human where nothing can be sent.
HandoffAtOnce(h) ==
    /\ call[h].pc = "idle"
    /\ route \in {"form", "none"}
    /\ handoff' = [handoff EXCEPT ![h] = "human"]
    /\ call' = [call EXCEPT ![h].pc = "answered"]
    /\ UNCHANGED <<route, reroutes, row, audit, faults, hist>>

\* Mode agent mints a continuation token and tells nobody.
HandoffToAgent(h) ==
    /\ call[h].pc = "idle"
    /\ handoff' = [handoff EXCEPT ![h] = "agent"]
    /\ call' = [call EXCEPT ![h].pc = "answered"]
    /\ UNCHANGED <<route, reroutes, row, audit, faults, hist>>

HandoffSend(h) ==
    /\ call[h].pc = "idle"
    /\ Dispatch(h, NoKey)
    /\ UNCHANGED <<route, reroutes, row, handoff, audit, faults, hist>>

FinishHandoff(h) ==
    /\ call[h].pc \in {"accepted", "refused"}
    /\ call' = [call EXCEPT ![h].pc = "answered"]
    /\ handoff' = [handoff EXCEPT ![h] = "human"]
    /\ UNCHANGED <<route, reroutes, row, audit, faults, hist>>

\* POST /a2a/continue/:token credits the newest audit row related to the ticket.
Continue(h) ==
    /\ handoff[h] = "agent" /\ call[h].pc = "done"
    /\ continued' = continued \cup {h}
    /\ audit' = [c \in Calls |-> IF audit[c].related = h
                                THEN [audit[c] EXCEPT !.outcome = "handoff_completed"]
                                ELSE audit[c]]
    /\ UNCHANGED <<route, reroutes, row, handoff, call, faults, texts, raced, struck, lost>>
-----------------------------------------------------------------------------
(* What the two tools share. *)

Subject(c) == IF c \in Callbacks THEN call[c].key ELSE c

\* sendSms: Twilio takes the text and says so, takes it and the answer is lost or
\* not understood, or refuses it.
Twilio(c) ==
    /\ call[c].pc = "sending"
    /\ \/ /\ call' = [call EXCEPT ![c].pc = "accepted"]
          /\ texts' = [texts EXCEPT ![Subject(c)] = @ + 1]
          /\ UNCHANGED <<faults, lost>>
       \/ /\ faults < MaxFaults
          /\ faults' = faults + 1
          /\ call' = [call EXCEPT ![c].pc = "refused"]
          /\ texts' = [texts EXCEPT ![Subject(c)] = @ + 1]
          /\ lost' = lost \cup {Subject(c)}
       \/ /\ call' = [call EXCEPT ![c].pc = "refused"]
          /\ UNCHANGED <<faults, texts, lost>>
    /\ UNCHANGED <<route, reroutes, row, handoff, audit, raced, struck, continued>>

\* withAgentRequestLog: anonymous calls leave no row; neither tool passes the
\* onLogged that would record a related_id.
Log(c) ==
    /\ call[c].pc \in {"answered", "threw"}
    /\ call' = [call EXCEPT ![c].pc = "done"]
    /\ audit' = IF c \notin Identified THEN audit
                ELSE [audit EXCEPT ![c].outcome =
                         IF call[c].pc = "threw" THEN "error" ELSE "none"]
    /\ UNCHANGED <<route, reroutes, row, handoff, faults, hist>>

\* The server dies with every call in it; a text on its way may arrive.
Crash ==
    LET live == {c \in Calls : call[c].pc \notin {"idle", "done", "dead"}}
    IN /\ faults < MaxFaults
       /\ live # {}
       /\ faults' = faults + 1
       /\ \E landed \in SUBSET {c \in live : call[c].pc = "sending"} :
             texts' = [x \in Keys \cup Handoffs |->
                 texts[x] + Cardinality({c \in landed : Subject(c) = x})]
       /\ struck' = struck \cup {Subject(c) : c \in {d \in live : Sending(d)}}
       /\ call' = [c \in Calls |-> IF c \in live THEN [call[c] EXCEPT !.pc = "dead"]
                                   ELSE call[c]]
       /\ UNCHANGED <<route, reroutes, row, handoff, audit, raced, lost, continued>>

\* The tenant edits lead_routing_json.
Reroute ==
    /\ reroutes < MaxReroutes
    /\ reroutes' = reroutes + 1
    /\ route' \in Routes \ {route}
    /\ UNCHANGED <<row, handoff, call, audit, faults, hist>>
-----------------------------------------------------------------------------
\* The rest of a call once it has begun.
Proceed(c) ==
    \/ Twilio(c)
    \/ c \in Callbacks /\ FinishCallback(c)
    \/ c \in Handoffs /\ FinishHandoff(c)
    \/ Log(c)

Next ==
    \/ \E c \in Callbacks : BeginCallback(c)
    \/ \E h \in Handoffs :
          HandoffAtOnce(h) \/ HandoffToAgent(h) \/ HandoffSend(h) \/ Continue(h)
    \/ \E c \in Calls : Proceed(c)
    \/ Crash
    \/ Reroute

\* A call that has begun comes to its end: fetch gives up in the end.
Fairness == \A c \in Calls : WF_vars(Proceed(c))

Spec == Init /\ [][Next]_vars /\ Fairness
-----------------------------------------------------------------------------
\* ONE ANSWER PER KEY.  Whatever calls with one key have been told, by first
\* handling or by replay, is what is on file for it: no two of them disagree, and
\* no row is rewritten under an answer already given.
OneAnswerPerKey ==
    \A c \in Callbacks : call[c].said # "nothing" => call[c].said = row[call[c].key]

\* REPEAT HAS A CAUSE.  The business is texted twice about one key only when two
\* calls were under way at once or a crash cut one short: an agent that waits for
\* its answer before it retries does not spam the business.
RepeatHasCause ==
    \A k \in Keys : texts[k] > 1 => k \in raced \cup struck

\* FILED AS DELIVERED.  "notified" is on file only for a lead the business got,
\* and a lead it got is filed otherwise only when its call still runs, Twilio's
\* answer was lost, or another call took part.
FiledAsDelivered ==
    \A k \in Keys :
        /\ row[k] = "notified" => texts[k] > 0
        /\ texts[k] > 0 /\ (\A c \in Callbacks : Sending(c) => call[c].key # k)
              => row[k] = "notified" \/ k \in raced \cup struck \cup lost

\* EVERY LEAD IS FILED.  A lead that the business was to be told of is on file in
\* the end, whatever Twilio said, unless the server died over it; the same for a
\* handoff.
EveryLeadIsFiled ==
    /\ \A k \in Keys :
          (\E c \in Callbacks : Sending(c) /\ call[c].key = k)
              ~> (row[k] # "absent" \/ k \in struck)
    /\ \A h \in Handoffs :
          Sending(h) ~> (handoff[h] # "absent" \/ h \in struck)
=============================================================================
