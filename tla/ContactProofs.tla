---------------------------- MODULE ContactProofs ----------------------------
(***************************************************************************)
(* TLAPS proofs about Contact, for any calls, keys and bounds.              *)
(***************************************************************************)
EXTENDS Contact, FiniteSetTheorems, TLAPS

CallType == [pc : {"idle", "sending", "accepted", "refused", "answered",
                   "threw", "done", "dead"},
             key : Keys \cup {NoKey},
             said : Status \cup {"nothing"}]

AuditType == [outcome : {"absent", "none", "error", "handoff_completed"},
              related : Handoffs \cup {NoTicket}]

Subjects == Keys \cup Handoffs

\* TypeOK with its record types named.
LEMMA Typed ==
    TypeOK <=>
        /\ route \in Routes /\ reroutes \in 0 .. MaxReroutes
        /\ row \in [Keys -> Status \cup {"absent"}]
        /\ handoff \in [Handoffs -> {"absent", "human", "agent"}]
        /\ call \in [Calls -> CallType]
        /\ \A c \in Callbacks : call[c].pc = "answered" => call[c].said # "nothing"
        /\ audit \in [Calls -> AuditType]
        /\ \A c \in Calls : audit[c].outcome # "absent" => c \in Identified
        /\ faults \in 0 .. MaxFaults
        /\ texts \in [Subjects -> Nat]
        /\ raced \subseteq Keys
        /\ struck \subseteq Subjects /\ lost \subseteq Subjects
        /\ continued \subseteq Handoffs
BY DEF TypeOK, CallType, AuditType, Subjects

\* What is on file agrees with what the calls were told, and a call that still
\* works was told nothing and has a key if it is a callback.
Told ==
    /\ \A h \in Handoffs : call[h].key = NoKey /\ call[h].said = "nothing"
    /\ \A c \in Callbacks : Sending(c) => call[c].key \in Keys
    /\ \A c \in Callbacks : Sending(c) \/ call[c].pc = "idle" => call[c].said = "nothing"
    /\ \A c \in Callbacks :
          call[c].said # "nothing" => call[c].key \in Keys /\ call[c].said = row[call[c].key]

\* No audit row is related to a handoff: neither tool passes onLogged.
Unrelated == \A c \in Calls : audit[c].related = NoTicket

\* A new value of one call.
SetCall(c, v) == call' = [call EXCEPT ![c] = v]

LEMMA SetCallTyped ==
    ASSUME TypeOK, Told, NEW c \in Calls, NEW v \in CallType, SetCall(c, v),
           c \in Callbacks /\ v.pc = "answered" => v.said # "nothing",
           c \in Handoffs => v.key = NoKey /\ v.said = "nothing",
           c \in Callbacks /\ v.pc \in {"sending", "accepted", "refused"}
               => v.key \in Keys /\ v.said = "nothing",
           c \in Callbacks /\ v.pc = "idle" => v.said = "nothing",
           c \in Callbacks /\ v.said # "nothing"
               => v.key \in Keys /\ v.said = row'[v.key],
           \A k \in Keys : row[k] # "absent" => row'[k] = row[k]
    PROVE  /\ call' \in [Calls -> CallType]
           /\ \A d \in Callbacks : call'[d].pc = "answered" => call'[d].said # "nothing"
           /\ Told'
<1>1. call \in [Calls -> CallType] /\ call' = [call EXCEPT ![c] = v]
      BY Typed DEF SetCall
<1>2. /\ call' \in [Calls -> CallType]
      /\ call'[c] = v
      /\ \A d \in Calls \ {c} : call'[d] = call[d]
      BY <1>1
<1>3. \A d \in Callbacks : call'[d].pc = "answered" => call'[d].said # "nothing"
      BY <1>2, Typed DEF Calls
<1>4. Told'
  <2>1. \A h \in Handoffs : call'[h].key = NoKey /\ call'[h].said = "nothing"
        BY <1>2 DEF Told, Calls
  <2>2. ASSUME NEW d \in Callbacks
        PROVE  /\ Sending(d)' => call'[d].key \in Keys
               /\ Sending(d)' \/ call'[d].pc = "idle" => call'[d].said = "nothing"
               /\ call'[d].said # "nothing" =>
                      call'[d].key \in Keys /\ call'[d].said = row'[call'[d].key]
    <3>1. CASE d = c
          BY <1>2, <3>1 DEF Sending
    <3>2. CASE d # c
      <4>1. call'[d] = call[d]
            BY <1>2, <3>2 DEF Calls
      <4>2. call[d].said # "nothing" => /\ call[d].key \in Keys
                                        /\ row'[call[d].key] = row[call[d].key]
        <5>1. call[d] \in CallType
              BY <1>1 DEF Calls
        <5>2. "absent" \notin Status
              BY DEF Status
        <5>. QED BY <5>1, <5>2 DEF Told, CallType
      <4>. QED BY <4>1, <4>2 DEF Told, Sending
    <3>. QED BY <3>1, <3>2
  <2>. QED BY <2>1, <2>2 DEF Told
<1>. QED BY <1>2, <1>3, <1>4

\* insertRow never changes a row that is there.
LEMMA InsertRowFacts ==
    ASSUME TypeOK, Told, NEW c \in Callbacks, NEW k \in Keys, NEW status \in Status,
           InsertRow(c, k, status), Sending(c) \/ row[k] = "absent",
           Sending(c) => call[c].key = k
    PROVE  /\ row' \in [Keys -> Status \cup {"absent"}]
           /\ row' = IF row[k] = "absent" THEN [row EXCEPT ![k] = status] ELSE row
           /\ call' \in [Calls -> CallType]
           /\ \A d \in Callbacks : call'[d].pc = "answered" => call'[d].said # "nothing"
           /\ call'[c].pc \in {"answered", "threw"}
           /\ \A d \in Calls \ {c} : call'[d] = call[d]
           /\ Told'
<1>1. /\ row \in [Keys -> Status \cup {"absent"}] /\ call \in [Calls -> CallType]
      /\ c \in Calls /\ "nothing" \notin Status /\ c \notin Handoffs
      BY Typed, ContactAssumption DEF Calls, Status
<1>2. CASE row[k] = "absent"
  <2>. DEFINE v == [pc |-> "answered", key |-> k, said |-> status]
  <2>1. row' = [row EXCEPT ![k] = status] /\ SetCall(c, v)
        BY <1>2 DEF InsertRow, Answered, SetCall
  <2>2. /\ row'[k] = status /\ row' \in [Keys -> Status \cup {"absent"}]
        /\ \A j \in Keys : row[j] # "absent" => row'[j] = row[j]
        BY <1>1, <1>2, <2>1
  <2>3. v \in CallType
        BY DEF CallType
  <2>4. /\ call' \in [Calls -> CallType]
        /\ \A d \in Callbacks : call'[d].pc = "answered" => call'[d].said # "nothing"
        /\ Told'
        BY <1>1, <2>1, <2>2, <2>3, SetCallTyped
  <2>. QED BY <1>1, <1>2, <2>1, <2>2, <2>4 DEF SetCall
<1>3. CASE row[k] # "absent"
  <2>. DEFINE v == [call[c] EXCEPT !.pc = "threw"]
  <2>1. row' = row /\ SetCall(c, v)
        BY <1>3 DEF InsertRow, SetCall
  <2>2. v \in CallType /\ v.pc = "threw" /\ v.said = "nothing"
        BY <1>1, <1>3 DEF CallType, Told
  <2>3. /\ call' \in [Calls -> CallType]
        /\ \A d \in Callbacks : call'[d].pc = "answered" => call'[d].said # "nothing"
        /\ Told'
        BY <1>1, <2>1, <2>2, SetCallTyped
  <2>. QED BY <1>1, <1>3, <2>1, <2>2, <2>3 DEF SetCall
<1>. QED BY <1>2, <1>3
-----------------------------------------------------------------------------
(* Type correctness, and one answer per key *)

LEMMA BeginCallbackTold ==
    ASSUME TypeOK, Told, NEW c \in Callbacks, BeginCallback(c)
    PROVE  TypeOK' /\ Told'
<1>. PICK k \in Keys : LookUp(c, k)
     BY DEF BeginCallback
<1>1. /\ row \in [Keys -> Status \cup {"absent"}] /\ call \in [Calls -> CallType]
      /\ c \in Calls /\ c \notin Handoffs
      /\ call[c].pc = "idle" /\ "nothing" \notin Status /\ "absent" \notin Status
      BY Typed, ContactAssumption DEF Calls, Status, BeginCallback
<1>2. raced' \subseteq Keys
      BY Typed DEF LookUp, Overlap
<1>3. UNCHANGED <<route, reroutes, handoff, audit, faults, texts, struck, lost, continued>>
      BY DEF BeginCallback
<1>4. CASE row[k] # "absent" /\ Answered(c, k, row[k]) /\ UNCHANGED row
  <2>. DEFINE v == [pc |-> "answered", key |-> k, said |-> row[k]]
  <2>1. v \in CallType /\ SetCall(c, v)
        BY <1>1, <1>4 DEF CallType, Answered, SetCall
  <2>2. /\ call' \in [Calls -> CallType]
        /\ \A d \in Callbacks : call'[d].pc = "answered" => call'[d].said # "nothing"
        /\ Told'
        BY <1>1, <1>4, <2>1, SetCallTyped
  <2>. QED BY <1>2, <1>3, <1>4, <2>2, Typed DEF TypeOK, CallType, AuditType, Subjects
<1>5. ASSUME NEW status \in Status, row[k] = "absent", InsertRow(c, k, status)
      PROVE  TypeOK' /\ Told'
  <2>1. /\ row' \in [Keys -> Status \cup {"absent"}] /\ call' \in [Calls -> CallType]
        /\ \A d \in Callbacks : call'[d].pc = "answered" => call'[d].said # "nothing"
        /\ Told'
    <3>1. ~ Sending(c)
          BY <1>1 DEF Sending
    <3>. QED BY <1>5, <3>1, InsertRowFacts
  <2>. QED BY <1>2, <1>3, <2>1, Typed DEF TypeOK, CallType, AuditType, Subjects
<1>6. CASE Dispatch(c, k) /\ UNCHANGED row
  <2>. DEFINE v == [pc |-> IF route = "sms" THEN "sending" ELSE "refused",
                    key |-> k, said |-> "nothing"]
  <2>1. v \in CallType /\ SetCall(c, v)
        BY <1>6 DEF CallType, Dispatch, SetCall
  <2>2. /\ call' \in [Calls -> CallType]
        /\ \A d \in Callbacks : call'[d].pc = "answered" => call'[d].said # "nothing"
        /\ Told'
        BY <1>1, <1>6, <2>1, SetCallTyped
  <2>. QED BY <1>2, <1>3, <1>6, <2>2, Typed DEF TypeOK, CallType, AuditType, Subjects
<1>. QED BY <1>4, <1>5, <1>6 DEF LookUp, Status

LEMMA FinishCallbackTold ==
    ASSUME TypeOK, Told, NEW c \in Callbacks, FinishCallback(c)
    PROVE  TypeOK' /\ Told'
<1>. DEFINE status == IF call[c].pc = "accepted" THEN "notified" ELSE "failed"
<1>1. Sending(c) /\ call[c].key \in Keys /\ status \in Status
      BY DEF FinishCallback, Sending, Told, Status
<1>2. /\ row' \in [Keys -> Status \cup {"absent"}] /\ call' \in [Calls -> CallType]
      /\ \A d \in Callbacks : call'[d].pc = "answered" => call'[d].said # "nothing"
      /\ Told'
      BY <1>1, InsertRowFacts DEF FinishCallback
<1>. QED BY <1>2, Typed DEF FinishCallback, hist, TypeOK, CallType, AuditType, Subjects

\* A step that moves one call and writes no row.
LEMMA MoveTold ==
    ASSUME TypeOK, Told, NEW c \in Calls,
           NEW pc \in {"sending", "accepted", "refused", "answered", "done"},
           call' = [call EXCEPT ![c].pc = pc],
           pc \in {"sending", "accepted", "refused"} => Sending(c),
           c \in Callbacks => pc # "answered",
           row' = row
    PROVE  /\ call' \in [Calls -> CallType]
           /\ \A d \in Callbacks : call'[d].pc = "answered" => call'[d].said # "nothing"
           /\ Told'
<1>. DEFINE v == [call[c] EXCEPT !.pc = pc]
<1>1. call[c] \in CallType
      BY Typed
<1>2. /\ v \in CallType /\ v.pc = pc
      /\ v.key = call[c].key /\ v.said = call[c].said
      BY <1>1 DEF CallType
<1>3. SetCall(c, v)
      BY DEF SetCall
<1>4. c \in Handoffs => v.key = NoKey /\ v.said = "nothing"
      BY <1>2 DEF Told
<1>5. c \in Callbacks /\ v.pc \in {"sending", "accepted", "refused"}
          => v.key \in Keys /\ v.said = "nothing"
      BY <1>2 DEF Told
<1>6. c \in Callbacks /\ v.said # "nothing" => v.key \in Keys /\ v.said = row'[v.key]
      BY <1>2 DEF Told
<1>7. ~ (c \in Callbacks /\ v.pc = "answered") /\ v.pc # "idle"
      BY <1>2
<1>. HIDE DEF v
<1>. QED BY <1>2, <1>3, <1>4, <1>5, <1>6, <1>7, SetCallTyped

LEMMA SubjectTyped ==
    ASSUME TypeOK, Told, NEW c \in Calls, Sending(c)
    PROVE  Subject(c) \in Subjects
BY DEF Told, Subject, Subjects, Calls

LEMMA TwilioTold ==
    ASSUME TypeOK, Told, NEW c \in Calls, Twilio(c)
    PROVE  TypeOK' /\ Told'
<1>1. Sending(c)
      BY DEF Twilio, Sending
<1>2. PICK pc \in {"accepted", "refused"} : call' = [call EXCEPT ![c].pc = pc]
      BY DEF Twilio
<1>3. /\ call' \in [Calls -> CallType]
      /\ \A d \in Callbacks : call'[d].pc = "answered" => call'[d].said # "nothing"
      /\ Told'
      BY <1>1, <1>2, MoveTold DEF Twilio
<1>4. texts' \in [Subjects -> Nat] /\ lost' \subseteq Subjects
      BY <1>1, SubjectTyped, Typed DEF Twilio
<1>5. faults' \in 0 .. MaxFaults
      BY Typed, ContactAssumption DEF Twilio
<1>. QED BY <1>3, <1>4, <1>5, Typed DEF Twilio, TypeOK, CallType, AuditType, Subjects

LEMMA LogTold ==
    ASSUME TypeOK, Told, NEW c \in Calls, Log(c)
    PROVE  TypeOK' /\ Told'
<1>1. /\ call' \in [Calls -> CallType]
      /\ \A d \in Callbacks : call'[d].pc = "answered" => call'[d].said # "nothing"
      /\ Told'
      BY MoveTold DEF Log
<1>2. /\ audit' \in [Calls -> AuditType]
      /\ \A d \in Calls : audit'[d].outcome # "absent" => d \in Identified
  <2>1. audit \in [Calls -> AuditType]
        BY Typed
  <2>2. CASE c \notin Identified
        BY <2>2, Typed DEF Log
  <2>3. CASE c \in Identified
        BY <2>1, <2>3, Typed DEF Log, AuditType
  <2>. QED BY <2>2, <2>3
<1>. QED BY <1>1, <1>2, Typed DEF Log, hist, TypeOK, CallType, AuditType, Subjects

LEMMA HandoffTold ==
    ASSUME TypeOK, Told, Unrelated, NEW h \in Handoffs,
           \/ HandoffAtOnce(h) \/ HandoffToAgent(h) \/ HandoffSend(h)
           \/ FinishHandoff(h) \/ Continue(h)
    PROVE  TypeOK' /\ Told'
<1>1. h \in Calls /\ h \notin Callbacks
      BY ContactAssumption DEF Calls
<1>2. CASE HandoffAtOnce(h) \/ HandoffToAgent(h) \/ FinishHandoff(h)
  <2>1. /\ call' \in [Calls -> CallType]
        /\ \A d \in Callbacks : call'[d].pc = "answered" => call'[d].said # "nothing"
        /\ Told'
        BY <1>1, <1>2, MoveTold DEF HandoffAtOnce, HandoffToAgent, FinishHandoff
  <2>2. handoff' \in [Handoffs -> {"absent", "human", "agent"}]
        BY <1>2, Typed DEF HandoffAtOnce, HandoffToAgent, FinishHandoff
  <2>3. UNCHANGED <<route, reroutes, row, audit, faults, hist>>
        BY <1>2 DEF HandoffAtOnce, HandoffToAgent, FinishHandoff
  <2>. QED BY <2>1, <2>2, <2>3, Typed DEF hist, TypeOK, CallType, AuditType, Subjects
<1>3. CASE HandoffSend(h)
  <2>. DEFINE v == [pc |-> IF route = "sms" THEN "sending" ELSE "refused",
                    key |-> NoKey, said |-> "nothing"]
  <2>1. v \in CallType /\ SetCall(h, v)
        BY <1>3 DEF CallType, HandoffSend, Dispatch, SetCall
  <2>2. /\ call' \in [Calls -> CallType]
        /\ \A d \in Callbacks : call'[d].pc = "answered" => call'[d].said # "nothing"
        /\ Told'
        BY <1>1, <1>3, <2>1, SetCallTyped DEF HandoffSend
  <2>. QED BY <1>3, <2>2, Typed DEF HandoffSend, hist, TypeOK, CallType, AuditType, Subjects
<1>4. CASE Continue(h)
  <2>1. audit \in [Calls -> AuditType] /\ h # NoTicket
        BY Typed, ContactAssumption
  <2>2. audit' \in [Calls -> AuditType]
        BY <1>4, <2>1 DEF Continue, AuditType
  <2>3. ASSUME NEW c \in Calls, audit'[c].outcome # "absent" PROVE c \in Identified
        BY <1>4, <2>1, <2>3, Typed DEF Continue, Unrelated
  <2>. QED BY <1>4, <2>2, <2>3, Typed
           DEF Continue, TypeOK, CallType, AuditType, Subjects, Told, Sending
<1>. QED BY <1>2, <1>3, <1>4

LEMMA CrashTold ==
    ASSUME TypeOK, Told, Crash
    PROVE  TypeOK' /\ Told'
<1>. DEFINE live == {c \in Calls : call[c].pc \notin {"idle", "done", "dead"}}
<1>1. call \in [Calls -> CallType]
      BY Typed
<1>2. call' = [c \in Calls |-> IF c \in live THEN [call[c] EXCEPT !.pc = "dead"]
                               ELSE call[c]]
      BY DEF Crash
<1>3. ASSUME NEW c \in Calls
      PROVE  /\ call'[c] \in CallType
             /\ call'[c].key = call[c].key /\ call'[c].said = call[c].said
             /\ call'[c].pc \in {"dead", call[c].pc}
             /\ ~ Sending(c)'
             /\ call'[c].pc # "answered"
      BY <1>1, <1>2 DEF CallType, Sending
<1>4. call' \in [Calls -> CallType]
  <2>1. call' = [c \in Calls |-> call'[c]]
        BY <1>2
  <2>. QED BY <1>3, <2>1
<1>5. /\ UNCHANGED <<route, reroutes, row, handoff, audit, raced, lost, continued>>
      /\ faults' \in 0 .. MaxFaults
      BY Typed, ContactAssumption DEF Crash
<1>6. Told'
  <2>1. \A c \in Callbacks : call'[c].pc = "idle" => call[c].pc = "idle"
        BY <1>3 DEF Calls
  <2>. QED BY <1>3, <1>5, <2>1 DEF Told, Calls
<1>7. \A d \in Callbacks : call'[d].pc = "answered" => call'[d].said # "nothing"
      BY <1>3 DEF Calls
<1>8. texts' \in [Subjects -> Nat]
  <2>1. PICK landed \in SUBSET {c \in live : call[c].pc = "sending"} :
            texts' = [x \in Keys \cup Handoffs |->
                texts[x] + Cardinality({c \in landed : Subject(c) = x})]
        BY DEF Crash
  <2>2. ASSUME NEW x \in Subjects
        PROVE  Cardinality({c \in landed : Subject(c) = x}) \in Nat
    <3>. DEFINE part == {c \in landed : Subject(c) = x}
    <3>1. part \subseteq Calls
          OBVIOUS
    <3>2. IsFiniteSet(part)
          BY <3>1, FS_Subset, ContactAssumption
    <3>. QED BY <3>2, FS_CardinalityType
  <2>. DEFINE n(x) == Cardinality({c \in landed : Subject(c) = x})
  <2>3. texts' = [x \in Subjects |-> texts[x] + n(x)] /\ \A x \in Subjects : n(x) \in Nat
        BY <2>1, <2>2 DEF Subjects
  <2>. HIDE DEF n
  <2>. QED BY <2>3, Typed
<1>9. struck' \subseteq Subjects
  <2>1. struck' = struck \cup {Subject(c) : c \in {d \in live : Sending(d)}}
        BY DEF Crash
  <2>. QED BY <2>1, SubjectTyped, Typed
<1>. QED BY <1>4, <1>5, <1>6, <1>7, <1>8, <1>9, Typed
         DEF TypeOK, CallType, AuditType, Subjects

LEMMA InitTold == Init => TypeOK /\ Told /\ Unrelated
<1>. SUFFICES ASSUME Init PROVE TypeOK /\ Told /\ Unrelated
     OBVIOUS
<1>1. call \in [Calls -> CallType] /\ audit \in [Calls -> AuditType]
      BY DEF Init, CallType, AuditType
<1>2. TypeOK
      BY <1>1, ContactAssumption DEF Init, TypeOK, CallType, AuditType, Subjects, Calls
<1>3. Told /\ Unrelated
      BY DEF Init, Told, Unrelated, Sending, Calls
<1>. QED BY <1>2, <1>3

LEMMA UnrelatedNext ==
    ASSUME TypeOK, Unrelated, [Next]_vars
    PROVE  Unrelated'
<1>1. audit \in [Calls -> AuditType]
      BY Typed
<1>2. ASSUME NEW c \in Calls, Log(c) PROVE Unrelated'
  <2>1. audit' = audit \/ audit' = [audit EXCEPT ![c].outcome = IF call[c].pc = "threw" THEN "error" ELSE "none"]
        BY <1>2 DEF Log
  <2>. QED BY <1>1, <2>1 DEF Unrelated, AuditType
<1>3. ASSUME NEW h \in Handoffs, Continue(h) PROVE Unrelated'
  <2>1. \A c \in Calls : audit[c].related # h
        BY ContactAssumption DEF Unrelated
  <2>2. \A c \in Calls : audit'[c] = audit[c]
        BY <1>1, <1>3, <2>1 DEF Continue
  <2>. QED BY <2>2 DEF Unrelated
<1>4. CASE audit' = audit
      BY <1>4 DEF Unrelated
<1>5. ASSUME NEW c \in Calls, Proceed(c) PROVE Unrelated'
  <2>1. ASSUME Twilio(c) PROVE audit' = audit
        BY <2>1 DEF Twilio
  <2>2. ASSUME FinishCallback(c) \/ FinishHandoff(c) PROVE audit' = audit
        BY <2>2 DEF FinishCallback, FinishHandoff
  <2>. QED BY <1>2, <1>4, <1>5, <2>1, <2>2 DEF Proceed
<1>6. ASSUME NEW h \in Handoffs,
             HandoffAtOnce(h) \/ HandoffToAgent(h) \/ HandoffSend(h) \/ Continue(h)
      PROVE  Unrelated'
      BY <1>3, <1>4, <1>6 DEF HandoffAtOnce, HandoffToAgent, HandoffSend
<1>7. ASSUME NEW c \in Callbacks, BeginCallback(c) PROVE Unrelated'
      BY <1>4, <1>7 DEF BeginCallback
<1>8. ASSUME Crash \/ Reroute \/ UNCHANGED vars PROVE Unrelated'
  <2>1. audit' = audit
        BY <1>8 DEF Crash, Reroute, vars
  <2>. QED BY <1>4, <2>1
<1>. QED BY <1>5, <1>6, <1>7, <1>8 DEF Next

\* Every step keeps the types and what the calls were told.
LEMMA NextTold ==
    ASSUME TypeOK, Told, Unrelated, [Next]_vars
    PROVE  TypeOK' /\ Told' /\ Unrelated'
<1>1. ASSUME NEW c \in Callbacks, BeginCallback(c) PROVE TypeOK' /\ Told'
      BY <1>1, BeginCallbackTold
<1>2. ASSUME NEW h \in Handoffs,
             HandoffAtOnce(h) \/ HandoffToAgent(h) \/ HandoffSend(h) \/ Continue(h)
      PROVE  TypeOK' /\ Told'
      BY <1>2, HandoffTold
<1>3. ASSUME NEW c \in Calls, Proceed(c) PROVE TypeOK' /\ Told'
      BY <1>3, TwilioTold, FinishCallbackTold, HandoffTold, LogTold DEF Proceed
<1>4. ASSUME Reroute PROVE TypeOK' /\ Told'
  <2>1. route' \in Routes /\ reroutes' \in 0 .. MaxReroutes
        BY <1>4, Typed, ContactAssumption DEF Reroute
  <2>. QED BY <1>4, <2>1 DEF Reroute, hist, TypeOK, Told, Sending
<1>5. ASSUME UNCHANGED vars PROVE TypeOK' /\ Told'
      BY <1>5 DEF vars, TypeOK, Told, Sending
<1>. QED BY <1>1, <1>2, <1>3, <1>4, <1>5, CrashTold, UnrelatedNext DEF Next

(* Rows, calls, audit rows and histories keep their types; only calls that   *)
(* name their agent leave an audit row (withAgentRequestLog).               *)
THEOREM ContactTypeCorrect == Spec => []TypeOK
BY InitTold, NextTold, PTL DEF Spec

(* Whatever the races, crashes and changes of routing, no two calls with one *)
(* key are told different things: the primary key of callback_requests and   *)
(* the replay of the row on file see to it.                                 *)
THEOREM ContactOneAnswerPerKey == Spec => []OneAnswerPerKey
<1>1. Told => OneAnswerPerKey
      BY DEF Told, OneAnswerPerKey
<1>. QED BY <1>1, InitTold, NextTold, PTL DEF Spec
-----------------------------------------------------------------------------
(* One worker per key, and what is on file of its message *)

Works(c, k) == Sending(c) /\ call[c].key = k

Clean(k) == k \notin raced \cup struck

\* A key no two calls raced on and no crash struck: one call works on it at most,
\* none once a row is there; at most one text went out, and it is on file or its
\* call is about to file it, as notified unless Twilio's answer was lost.
Settled(k) ==
    /\ \A c, d \in Calls : Works(c, k) /\ Works(d, k) => c = d
    /\ row[k] # "absent" => \A c \in Calls : ~ Works(c, k)
    /\ texts[k] \in {0, 1}
    /\ texts[k] = 1 => \/ row[k] # "absent"
                       \/ \E c \in Calls : Works(c, k) /\ call[c].pc # "sending"
    /\ texts[k] = 1 /\ k \notin lost =>
           \/ row[k] = "notified"
           \/ \E c \in Calls : Works(c, k) /\ call[c].pc = "accepted"

OneWorker == \A k \in Keys : Clean(k) => Settled(k)

\* What is filed, or about to be filed, as notified was delivered.
Delivered ==
    /\ \A c \in Callbacks : call[c].pc = "accepted" => texts[call[c].key] > 0
    /\ \A k \in Keys : row[k] = "notified" => texts[k] > 0

\* A step that has nothing to do with key k.
Untouched(k) ==
    /\ \A d \in Calls : /\ Works(d, k)' <=> Works(d, k)
                        /\ Works(d, k) => call'[d].pc = call[d].pc
    /\ row'[k] = row[k] /\ texts'[k] = texts[k]

LEMMA WorkerStep ==
    ASSUME OneWorker,
           raced \subseteq raced', struck \subseteq struck', lost \subseteq lost',
           \A k \in Keys : Untouched(k) \/ (Clean(k)' => Settled(k)')
    PROVE  OneWorker'
<1>. SUFFICES ASSUME NEW k \in Keys, Clean(k)', Untouched(k)
              PROVE  Settled(k)'
     BY DEF OneWorker
<1>1. Clean(k) /\ Settled(k)
      BY DEF Clean, OneWorker
<1>2. k \notin lost' => k \notin lost
      OBVIOUS
<1>. QED BY <1>1, <1>2 DEF Settled, Untouched

\* A step of a call that does not work on key k.
LEMMA UntouchedBy ==
    ASSUME NEW c \in Calls, NEW k \in Keys,
           \A d \in Calls \ {c} : call'[d] = call[d],
           ~ Works(c, k), ~ Works(c, k)',
           row'[k] = row[k], texts'[k] = texts[k]
    PROVE  Untouched(k)
BY DEF Untouched, Works, Sending

\* A handoff has no key.
LEMMA NoKeyOfHandoff ==
    ASSUME Told, NEW h \in Handoffs, NEW k \in Keys
    PROVE  ~ Works(h, k)
BY ContactAssumption DEF Told, Works

LEMMA WorkerBegin ==
    ASSUME TypeOK, Told, OneWorker, NEW c \in Callbacks, BeginCallback(c)
    PROVE  OneWorker'
<1>. PICK k \in Keys : LookUp(c, k)
     BY DEF BeginCallback
<1>1. /\ call \in [Calls -> CallType] /\ row \in [Keys -> Status \cup {"absent"}]
      /\ c \in Calls /\ ~ Sending(c) /\ "absent" \notin Status
      BY Typed DEF Calls, BeginCallback, Sending, Status
<1>2. UNCHANGED <<texts, struck, lost>> /\ raced \subseteq raced'
      BY DEF BeginCallback, LookUp
<1>3. CASE row[k] # "absent" /\ Answered(c, k, row[k]) /\ UNCHANGED <<row, raced>>
  <2>1. (\A d \in Calls \ {c} : call'[d] = call[d]) /\ ~ Sending(c)'
        BY <1>1, <1>3 DEF Answered, Sending
  <2>2. \A j \in Keys : Untouched(j)
        BY <1>1, <1>2, <1>3, <2>1, UntouchedBy DEF Works
  <2>. QED BY <1>2, <1>3, <2>2, WorkerStep
<1>4. ASSUME raced' = raced \cup Overlap(k), row[k] = "absent", Clean(k)'
      PROVE  texts[k] = 0 /\ \A d \in Calls : ~ Works(d, k)
  <2>1. \A d \in Calls : ~ Works(d, k)
        BY <1>4 DEF Overlap, Clean, Works
  <2>2. Settled(k)
        BY <1>2, <1>4 DEF Clean, OneWorker
  <2>. QED BY <1>4, <2>1, <2>2 DEF Settled
<1>5. ASSUME NEW status \in Status, row[k] = "absent", InsertRow(c, k, status),
             raced' = raced \cup Overlap(k)
      PROVE  OneWorker'
  <2>1. row' = [row EXCEPT ![k] = status] /\ Answered(c, k, status)
        BY <1>5 DEF InsertRow
  <2>2. (\A d \in Calls \ {c} : call'[d] = call[d]) /\ ~ Sending(c)'
        BY <1>1, <2>1 DEF Answered, Sending
  <2>3. \A d \in Calls : Works(d, k)' => Works(d, k)
        BY <2>2 DEF Works, Sending
  <2>4. Clean(k)' => Settled(k)'
        BY <1>1, <1>2, <1>4, <1>5, <2>1, <2>3 DEF Settled
  <2>5. \A j \in Keys \ {k} : Untouched(j)
        BY <1>1, <1>2, <2>1, <2>2, UntouchedBy DEF Works
  <2>. QED BY <1>2, <2>4, <2>5, WorkerStep
<1>6. ASSUME row[k] = "absent", Dispatch(c, k), UNCHANGED row,
             raced' = raced \cup Overlap(k)
      PROVE  OneWorker'
  <2>1. /\ \A d \in Calls \ {c} : call'[d] = call[d]
        /\ call'[c].key = k
        BY <1>1, <1>6 DEF Dispatch
  <2>2. \A d \in Calls : Works(d, k)' => Works(d, k) \/ d = c
        BY <2>1 DEF Works, Sending
  <2>3. Clean(k)' => Settled(k)'
        BY <1>2, <1>4, <1>6, <2>2 DEF Settled
  <2>4. \A j \in Keys \ {k} : ~ Works(c, j)'
        BY <2>1 DEF Works
  <2>5. \A j \in Keys : ~ Works(c, j)
        BY <1>1 DEF Works
  <2>6. \A j \in Keys \ {k} : Untouched(j)
        BY <1>1, <1>2, <1>6, <2>1, <2>4, <2>5, UntouchedBy
  <2>. QED BY <1>2, <2>3, <2>6, WorkerStep
<1>. QED BY <1>3, <1>5, <1>6 DEF LookUp, Status

LEMMA WorkerFinish ==
    ASSUME TypeOK, Told, OneWorker, NEW c \in Callbacks, FinishCallback(c)
    PROVE  OneWorker'
<1>. DEFINE status == IF call[c].pc = "accepted" THEN "notified" ELSE "failed"
<1>1. /\ call \in [Calls -> CallType] /\ row \in [Keys -> Status \cup {"absent"}]
      /\ c \in Calls /\ Sending(c) /\ call[c].pc # "sending"
      /\ "absent" \notin Status /\ status \in Status
      BY Typed DEF Calls, FinishCallback, Sending, Status
<1>2. PICK k \in Keys : k = call[c].key
      BY <1>1 DEF Told
<1>3. UNCHANGED <<texts, raced, struck, lost>>
      BY DEF FinishCallback, hist
<1>4. /\ row' = IF row[k] = "absent" THEN [row EXCEPT ![k] = status] ELSE row
      /\ \A d \in Calls \ {c} : call'[d] = call[d]
      /\ ~ Sending(c)'
      BY <1>1, <1>2, InsertRowFacts DEF FinishCallback, Sending
<1>5. \A d \in Calls : Works(d, k)' <=> Works(d, k) /\ d # c
      BY <1>4 DEF Works, Sending
<1>6. ASSUME Clean(k)' PROVE Settled(k)'
  <2>1. Settled(k) /\ Works(c, k)
        BY <1>1, <1>2, <1>3, <1>6 DEF Clean, OneWorker, Works
  <2>2. row[k] = "absent" /\ row'[k] = status /\ \A d \in Calls : ~ Works(d, k)'
        BY <1>1, <1>4, <1>5, <2>1 DEF Settled
  <2>3. texts[k] = 1 /\ k \notin lost => status = "notified"
        BY <1>1, <2>1, <2>2 DEF Settled
  <2>. QED BY <1>1, <1>3, <2>1, <2>2, <2>3 DEF Settled
<1>7. \A j \in Keys \ {k} : ~ Works(c, j) /\ ~ Works(c, j)'
      BY <1>2, <1>4 DEF Works
<1>8. \A j \in Keys \ {k} : Untouched(j)
      BY <1>1, <1>3, <1>4, <1>7, UntouchedBy
<1>. QED BY <1>3, <1>6, <1>8, WorkerStep

LEMMA WorkerTwilio ==
    ASSUME TypeOK, Told, OneWorker, NEW c \in Calls, Twilio(c)
    PROVE  OneWorker'
<1>1. /\ call \in [Calls -> CallType] /\ texts \in [Subjects -> Nat]
      /\ Sending(c) /\ call[c].pc = "sending"
      BY Typed DEF Twilio, Sending
<1>2. PICK pc \in {"accepted", "refused"} :
          /\ call' = [call EXCEPT ![c].pc = pc]
          /\ \/ pc = "accepted" /\ texts' = [texts EXCEPT ![Subject(c)] = @ + 1] /\ lost' = lost
             \/ /\ pc = "refused" /\ texts' = [texts EXCEPT ![Subject(c)] = @ + 1]
                /\ lost' = lost \cup {Subject(c)}
             \/ pc = "refused" /\ texts' = texts /\ lost' = lost
      BY DEF Twilio
<1>3. UNCHANGED <<row, raced, struck>>
      BY DEF Twilio
<1>4. /\ \A d \in Calls \ {c} : call'[d] = call[d]
      /\ call'[c].key = call[c].key /\ call'[c].pc = pc
      BY <1>1, <1>2 DEF CallType
<1>5. CASE c \in Handoffs
  <2>1. \A k \in Keys : texts'[k] = texts[k]
        BY <1>1, <1>2, <1>5, ContactAssumption DEF Subject, Subjects
  <2>2. \A k \in Keys : ~ Works(c, k) /\ ~ Works(c, k)'
        BY <1>4, <1>5, NoKeyOfHandoff, ContactAssumption DEF Works, Told
  <2>3. lost \subseteq lost'
        BY <1>2
  <2>4. \A k \in Keys : Untouched(k)
        BY <1>3, <1>4, <2>1, <2>2, UntouchedBy
  <2>. QED BY <1>3, <2>3, <2>4, WorkerStep
<1>6. CASE c \in Callbacks
  <2>1. PICK k \in Keys : k = call[c].key /\ Subject(c) = k
        BY <1>1, <1>6 DEF Told, Subject
  <2>2. \A j \in Keys \ {k} : /\ texts'[j] = texts[j]
                              /\ ~ Works(c, j) /\ ~ Works(c, j)'
        BY <1>1, <1>2, <1>4, <2>1 DEF Works, Subjects
  <2>3. Works(c, k) /\ Works(c, k)'
        BY <1>1, <1>4, <2>1 DEF Works, Sending
  <2>4. \A d \in Calls : Works(d, k)' <=> Works(d, k)
        BY <1>4, <2>3 DEF Works, Sending
  <2>5. ASSUME Clean(k)' PROVE Settled(k)'
    <3>1. Settled(k)
          BY <1>3, <2>5 DEF Clean, OneWorker
    <3>2. texts[k] = 0 /\ row[k] = "absent"
          BY <1>1, <2>3, <3>1 DEF Settled
    <3>3. \/ pc = "accepted" /\ texts'[k] = 1
          \/ pc = "refused" /\ texts'[k] = 1 /\ k \in lost'
          \/ texts'[k] = 0
          BY <1>1, <1>2, <2>1, <3>2 DEF Subjects
    <3>. QED BY <1>3, <1>4, <2>3, <2>4, <3>1, <3>2, <3>3 DEF Settled
  <2>6. lost \subseteq lost'
        BY <1>2
  <2>7. \A j \in Keys \ {k} : Untouched(j)
        BY <1>3, <1>4, <2>2, UntouchedBy
  <2>. QED BY <1>3, <2>5, <2>6, <2>7, WorkerStep
<1>. QED BY <1>5, <1>6 DEF Calls

LEMMA WorkerCrash ==
    ASSUME TypeOK, Told, OneWorker, Crash
    PROVE  OneWorker'
<1>. DEFINE live == {c \in Calls : call[c].pc \notin {"idle", "done", "dead"}}
<1>1. call \in [Calls -> CallType] /\ texts \in [Subjects -> Nat]
      BY Typed
<1>2. /\ call' = [c \in Calls |-> IF c \in live THEN [call[c] EXCEPT !.pc = "dead"]
                                  ELSE call[c]]
      /\ struck' = struck \cup {Subject(c) : c \in {d \in live : Sending(d)}}
      /\ UNCHANGED <<row, raced, lost>>
      BY DEF Crash
<1>3. \A c \in Calls : ~ Sending(c)'
      BY <1>1, <1>2 DEF CallType, Sending
<1>4. ASSUME NEW k \in Keys, Clean(k)' PROVE Settled(k)'
  <2>1. \A c \in Calls : Sending(c) => Subject(c) # k
    <3>1. ASSUME NEW c \in Calls, Sending(c) PROVE Subject(c) \in struck'
          BY <1>2, <3>1 DEF Sending
    <3>. QED BY <1>4, <3>1 DEF Clean
  <2>2. \A c \in Calls : ~ Works(c, k)
    <3>1. \A c \in Calls : Works(c, k) => c \in Callbacks
          BY NoKeyOfHandoff DEF Calls
    <3>. QED BY <2>1, <3>1 DEF Works, Subject
  <2>3. Clean(k) /\ Settled(k)
        BY <1>2, <1>4 DEF Clean, OneWorker
  <2>4. texts'[k] = texts[k]
    <3>1. PICK landed \in SUBSET {c \in live : call[c].pc = "sending"} :
              texts' = [x \in Keys \cup Handoffs |->
                  texts[x] + Cardinality({c \in landed : Subject(c) = x})]
          BY DEF Crash
    <3>2. {c \in landed : Subject(c) = k} = {}
          BY <2>1 DEF Sending
    <3>3. Cardinality({c \in landed : Subject(c) = k}) = 0
          BY <3>2, FS_EmptySet
    <3>. QED BY <1>1, <3>1, <3>3 DEF Subjects
  <2>. QED BY <1>2, <1>3, <2>2, <2>3, <2>4 DEF Settled, Works
<1>. QED BY <1>2, <1>4, WorkerStep

LEMMA WorkerOther ==
    ASSUME TypeOK, Told, OneWorker, NEW c \in Calls,
           \/ Log(c)
           \/ c \in Handoffs /\ (\/ HandoffAtOnce(c) \/ HandoffToAgent(c)
                                \/ HandoffSend(c) \/ FinishHandoff(c))
    PROVE  OneWorker'
<1>1. call \in [Calls -> CallType]
      BY Typed
<1>2. UNCHANGED <<row, texts, raced, struck, lost>>
      BY DEF Log, HandoffAtOnce, HandoffToAgent, HandoffSend, FinishHandoff, hist
<1>3. \A d \in Calls \ {c} : call'[d] = call[d]
      BY <1>1 DEF Log, HandoffAtOnce, HandoffToAgent, HandoffSend, FinishHandoff, Dispatch
<1>4. ASSUME NEW k \in Keys PROVE ~ Works(c, k) /\ ~ Works(c, k)'
  <2>1. CASE Log(c)
        BY <1>1, <2>1 DEF Log, Works, Sending, CallType
  <2>2. CASE c \in Handoffs
    <3>1. call'[c].key = NoKey
          BY <1>1, <2>2 DEF Log, HandoffAtOnce, HandoffToAgent, HandoffSend,
                            FinishHandoff, Dispatch, CallType, Told
    <3>. QED BY <2>2, <3>1, NoKeyOfHandoff, ContactAssumption DEF Works
  <2>. QED BY <2>1, <2>2
<1>5. \A k \in Keys : Untouched(k)
      BY <1>2, <1>3, <1>4, UntouchedBy
<1>. QED BY <1>2, <1>5, WorkerStep

LEMMA OneWorkerNext ==
    ASSUME TypeOK, Told, OneWorker, [Next]_vars
    PROVE  OneWorker'
<1>1. ASSUME NEW c \in Callbacks, BeginCallback(c) PROVE OneWorker'
      BY <1>1, WorkerBegin
<1>2. ASSUME UNCHANGED <<call, row, texts, raced, struck, lost>> PROVE OneWorker'
  <2>1. \A k \in Keys : Untouched(k)
        BY <1>2 DEF Untouched, Works, Sending
  <2>. QED BY <1>2, <2>1, WorkerStep
<1>3. ASSUME NEW h \in Handoffs,
             HandoffAtOnce(h) \/ HandoffToAgent(h) \/ HandoffSend(h) \/ Continue(h)
      PROVE  OneWorker'
      BY <1>2, <1>3, WorkerOther DEF Calls, Continue
<1>4. ASSUME NEW c \in Calls, Proceed(c) PROVE OneWorker'
      BY <1>4, WorkerTwilio, WorkerFinish, WorkerOther DEF Proceed
<1>5. ASSUME Reroute \/ UNCHANGED vars PROVE OneWorker'
      BY <1>2, <1>5 DEF Reroute, vars, hist
<1>. QED BY <1>1, <1>3, <1>4, <1>5, WorkerCrash DEF Next

LEMMA OneWorkerInit == Init => OneWorker /\ Delivered
BY DEF Init, OneWorker, Delivered, Settled, Works, Sending, Calls

(* An agent that waits for its answer before it asks again never has the     *)
(* business texted twice about one key: a second text needs two calls at      *)
(* once, between the SELECT and the INSERT, or a crash.                      *)
THEOREM ContactRepeatHasCause == Spec => []RepeatHasCause
<1>1. TypeOK /\ Told /\ Unrelated /\ OneWorker /\ [Next]_vars
          => (TypeOK /\ Told /\ Unrelated /\ OneWorker)'
      BY NextTold, OneWorkerNext
<1>2. OneWorker => RepeatHasCause
      BY DEF OneWorker, RepeatHasCause, Clean, Settled
<1>. QED BY <1>1, <1>2, InitTold, OneWorkerInit, PTL DEF Spec
-----------------------------------------------------------------------------
(* Filed as delivered *)

\* A step that keeps what was delivered and files nothing.
LEMMA DeliveredKept ==
    ASSUME TypeOK, Told, Delivered, row' = row,
           \A k \in Keys : texts'[k] >= texts[k],
           texts' \in [Subjects -> Nat],
           \A c \in Callbacks : call'[c].pc = "accepted" =>
               \/ call[c].pc = "accepted" /\ call'[c].key = call[c].key
               \/ texts'[call'[c].key] > 0
    PROVE  Delivered'
<1>1. texts \in [Subjects -> Nat]
      BY Typed
<1>2. ASSUME NEW c \in Callbacks, call'[c].pc = "accepted"
      PROVE  texts'[call'[c].key] > 0
  <2>1. CASE call[c].pc = "accepted" /\ call'[c].key = call[c].key
    <3>1. call[c].key \in Keys
          BY <2>1 DEF Told, Sending
    <3>2. /\ texts[call[c].key] > 0 /\ texts'[call[c].key] >= texts[call[c].key]
          /\ texts[call[c].key] \in Nat /\ texts'[call[c].key] \in Nat
          BY <1>1, <2>1, <3>1 DEF Delivered, Subjects
    <3>. QED BY <2>1, <3>2
  <2>. QED BY <1>2, <2>1
<1>3. ASSUME NEW k \in Keys, row'[k] = "notified" PROVE texts'[k] > 0
  <2>1. /\ texts[k] > 0 /\ texts'[k] >= texts[k]
        /\ texts[k] \in Nat /\ texts'[k] \in Nat
        BY <1>1, <1>3 DEF Delivered, Subjects
  <2>. QED BY <2>1
<1>. QED BY <1>2, <1>3 DEF Delivered

LEMMA DeliveredBegin ==
    ASSUME TypeOK, Told, Delivered, NEW c \in Callbacks, BeginCallback(c)
    PROVE  Delivered'
<1>. PICK k \in Keys : LookUp(c, k)
     BY DEF BeginCallback
<1>1. /\ call \in [Calls -> CallType] /\ row \in [Keys -> Status \cup {"absent"}]
      /\ c \in Calls /\ texts' = texts
      BY Typed DEF Calls, BeginCallback
<1>2. /\ \A d \in Calls \ {c} : call'[d] = call[d]
      /\ call'[c].pc # "accepted"
      BY <1>1 DEF LookUp, InsertRow, Answered, Dispatch
<1>3. \A j \in Keys : row'[j] = "notified" => row[j] = "notified"
      BY <1>1 DEF LookUp, InsertRow
<1>. QED BY <1>1, <1>2, <1>3 DEF Delivered, Calls

LEMMA DeliveredFinish ==
    ASSUME TypeOK, Told, Delivered, NEW c \in Callbacks, FinishCallback(c)
    PROVE  Delivered'
<1>. DEFINE status == IF call[c].pc = "accepted" THEN "notified" ELSE "failed"
<1>1. /\ row \in [Keys -> Status \cup {"absent"}] /\ c \in Calls /\ Sending(c)
      /\ status \in Status /\ texts' = texts
      BY Typed DEF Calls, FinishCallback, Sending, Status, hist
<1>2. PICK k \in Keys : k = call[c].key
      BY <1>1 DEF Told
<1>3. /\ row' = IF row[k] = "absent" THEN [row EXCEPT ![k] = status] ELSE row
      /\ \A d \in Calls \ {c} : call'[d] = call[d]
      /\ call'[c].pc # "accepted"
      BY <1>1, <1>2, InsertRowFacts DEF FinishCallback
<1>4. ASSUME NEW j \in Keys, row'[j] = "notified" PROVE texts'[j] > 0
  <2>1. CASE row[j] = "notified"
        BY <1>1, <2>1 DEF Delivered
  <2>2. CASE row[j] # "notified"
    <3>1. j = k /\ call[c].pc = "accepted"
          BY <1>1, <1>3, <1>4, <2>2
    <3>. QED BY <1>1, <1>2, <3>1 DEF Delivered
  <2>. QED BY <2>1, <2>2
<1>. QED BY <1>1, <1>3, <1>4 DEF Delivered, Calls

LEMMA DeliveredTwilio ==
    ASSUME TypeOK, Told, Delivered, NEW c \in Calls, Twilio(c)
    PROVE  Delivered'
<1>1. /\ call \in [Calls -> CallType] /\ texts \in [Subjects -> Nat]
      /\ Sending(c) /\ call[c].pc = "sending" /\ row' = row
      BY Typed DEF Twilio, Sending
<1>2. PICK pc \in {"accepted", "refused"} :
          /\ call' = [call EXCEPT ![c].pc = pc]
          /\ \/ texts' = [texts EXCEPT ![Subject(c)] = @ + 1]
             \/ pc = "refused" /\ texts' = texts
      BY DEF Twilio
<1>3. Subject(c) \in Subjects
      BY <1>1, SubjectTyped
<1>4. texts' \in [Subjects -> Nat] /\ \A k \in Keys : texts'[k] >= texts[k]
      BY <1>1, <1>2, <1>3 DEF Subjects
<1>5. ASSUME NEW d \in Callbacks, call'[d].pc = "accepted"
      PROVE  \/ call[d].pc = "accepted" /\ call'[d].key = call[d].key
             \/ texts'[call'[d].key] > 0
  <2>1. CASE d # c
        BY <1>1, <1>2, <1>5, <2>1 DEF Calls
  <2>2. CASE d = c
    <3>1. /\ call'[c].key = call[c].key /\ call'[c].pc = pc
          /\ Subject(c) = call[c].key
          BY <1>1, <1>2, <2>2 DEF Subject, CallType
    <3>2. texts' = [texts EXCEPT ![Subject(c)] = @ + 1]
          BY <1>2, <1>5, <2>2, <3>1
    <3>. QED BY <1>1, <1>3, <2>2, <3>1, <3>2
  <2>. QED BY <2>1, <2>2
<1>. QED BY <1>1, <1>4, <1>5, DeliveredKept

LEMMA DeliveredNext ==
    ASSUME TypeOK, Told, Unrelated, Delivered, [Next]_vars
    PROVE  Delivered'
<1>1. texts \in [Subjects -> Nat] /\ texts' \in [Subjects -> Nat]
      BY NextTold, Typed DEF TypeOK, Subjects
<1>2. ASSUME NEW c \in Calls, row' = row, texts' = texts,
             \E pc \in {"answered", "done"} : call' = [call EXCEPT ![c].pc = pc]
      PROVE  Delivered'
      BY <1>2, Typed DEF Delivered, CallType, Calls
<1>3. ASSUME UNCHANGED <<call, row, texts>> PROVE Delivered'
      BY <1>3 DEF Delivered
<1>4. ASSUME NEW h \in Handoffs, HandoffSend(h) PROVE Delivered'
  <2>1. \A c \in Callbacks : call'[c] = call[c]
        BY <1>4, Typed, ContactAssumption DEF HandoffSend, Dispatch, Calls
  <2>. QED BY <1>4, <2>1 DEF Delivered, HandoffSend, hist
<1>5. ASSUME NEW h \in Handoffs, HandoffAtOnce(h) \/ HandoffToAgent(h) \/ FinishHandoff(h)
      PROVE  Delivered'
      BY <1>2, <1>5 DEF HandoffAtOnce, HandoffToAgent, FinishHandoff, hist, Calls
<1>6. ASSUME NEW h \in Handoffs, Continue(h) PROVE Delivered'
      BY <1>3, <1>6 DEF Continue
<1>7. ASSUME NEW c \in Calls, Proceed(c) PROVE Delivered'
  <2>1. CASE Log(c)
        BY <1>2, <2>1 DEF Log, hist
  <2>. QED BY <1>5, <1>7, <2>1, DeliveredTwilio, DeliveredFinish DEF Proceed
<1>8. ASSUME Crash PROVE Delivered'
  <2>1. \A c \in Callbacks : call'[c].pc # "accepted"
        BY <1>8, Typed DEF Crash, CallType, Calls
  <2>2. \A k \in Keys : texts'[k] >= texts[k]
    <3>. DEFINE live == {c \in Calls : call[c].pc \notin {"idle", "done", "dead"}}
    <3>1. PICK landed \in SUBSET {c \in live : call[c].pc = "sending"} :
              texts' = [x \in Keys \cup Handoffs |->
                  texts[x] + Cardinality({c \in landed : Subject(c) = x})]
          BY <1>8 DEF Crash
    <3>2. ASSUME NEW k \in Keys PROVE texts'[k] >= texts[k]
      <4>. DEFINE part == {c \in landed : Subject(c) = k}
      <4>1. part \subseteq Calls
            OBVIOUS
      <4>2. Cardinality(part) \in Nat
            BY <4>1, FS_Subset, FS_CardinalityType, ContactAssumption
      <4>3. texts'[k] = texts[k] + Cardinality(part)
            BY <3>1
      <4>4. texts[k] \in Nat
            BY <1>1 DEF Subjects
      <4>. HIDE DEF part
      <4>. QED BY <4>2, <4>3, <4>4
    <3>. QED BY <3>2
  <2>3. row' = row
        BY <1>8 DEF Crash
  <2>. QED BY <1>1, <2>1, <2>2, <2>3, DeliveredKept
<1>9. ASSUME Reroute \/ UNCHANGED vars PROVE Delivered'
      BY <1>3, <1>9 DEF Reroute, vars, hist
<1>. QED BY <1>4, <1>5, <1>6, <1>7, <1>8, <1>9, DeliveredBegin DEF Next

(* "notified" is on file only for leads the business got, and a lead it got  *)
(* is filed otherwise only with a cause, for any number of calls, keys,      *)
(* crashes and lost answers.                                                *)
THEOREM ContactFiledAsDelivered == Spec => []FiledAsDelivered
<1>1. TypeOK /\ Told /\ Unrelated /\ OneWorker /\ Delivered /\ [Next]_vars
          => (TypeOK /\ Told /\ Unrelated /\ OneWorker /\ Delivered)'
      BY NextTold, OneWorkerNext, DeliveredNext
<1>2. TypeOK /\ Told /\ OneWorker /\ Delivered => FiledAsDelivered
  <2>. SUFFICES ASSUME TypeOK, Told, OneWorker, Delivered, NEW k \in Keys,
                       texts[k] > 0, \A c \in Callbacks : Sending(c) => call[c].key # k,
                       k \notin raced \cup struck \cup lost
                PROVE  row[k] = "notified"
       BY DEF FiledAsDelivered, Delivered
  <2>1. Settled(k)
        BY DEF OneWorker, Clean
  <2>2. texts[k] = 1
        BY <2>1 DEF Settled
  <2>3. \A c \in Calls : ~ Works(c, k)
        BY NoKeyOfHandoff DEF Works, Calls
  <2>. QED BY <2>1, <2>2, <2>3 DEF Settled
<1>. QED BY <1>1, <1>2, InitTold, OneWorkerInit, PTL DEF Spec
=============================================================================
