--------------------------- MODULE ReservationProofs ---------------------------
(***************************************************************************)
(* TLAPS proofs about Reservation, for any calls, requests, hold times,      *)
(* token lifetimes and retention times.                                    *)
(***************************************************************************)
EXTENDS Reservation, FiniteSetTheorems, TLAPS

Row == [status : Status, expires : Nat, redacted : BOOLEAN, decided : Nat]

Entry == [outcome : {"absent", "none", "held", "confirmed"},
          related : Calls \cup {NoCall}, ts : Times]

Token == [ticket : Calls, slug : Slugs, ts : Times]

LEMMA Typed ==
    TypeOK <=>
        /\ now \in Times /\ res \in [Calls -> Row]
        /\ call \in [Calls -> [pc : Steps, answer : Calls \cup {NoCall}]]
        /\ tokens \subseteq Token /\ audit \in [Calls -> Entry] /\ owed \subseteq Calls
BY DEF TypeOK, Row, Entry, Token

LEMMA TypedNext ==
    TypeOK' <=>
        /\ now' \in Times /\ res' \in [Calls -> Row]
        /\ call' \in [Calls -> [pc : Steps, answer : Calls \cup {NoCall}]]
        /\ tokens' \subseteq Token /\ audit' \in [Calls -> Entry] /\ owed' \subseteq Calls
BY DEF TypeOK, Row, Entry, Token

LEMMA Bounds ==
    /\ HoldTime \in Nat /\ TokenTTL \in Nat /\ HeldKeep \in Nat /\ ExpiredKeep \in Nat
    /\ ConfirmedKeep \in Nat /\ MaxTime \in Nat
    /\ \A q \in Calls : /\ Req[q].slug \in Slugs /\ Req[q].key \in Keys
                        /\ Req[q].windowEnd \in Int
    /\ NoCall \notin Calls
BY ReservationAssumption
-----------------------------------------------------------------------------
(* Type correctness *)

\* An answer that names a row names one on file, under the key of the call.
Answered ==
    \A q \in Calls : call[q].answer # NoCall =>
        call[q].answer \in Rows /\ Req[call[q].answer].key = Req[q].key

LEMMA AnswerTyped ==
    ASSUME TypeOK, NEW q \in Calls, NEW r \in Calls, Answer(q, r)
    PROVE  /\ call' \in [Calls -> [pc : Steps, answer : Calls \cup {NoCall}]]
           /\ tokens' \subseteq Token
           /\ call'[q].pc = "log" /\ call'[q].answer = r
           /\ \A p \in Calls \ {q} : call'[p] = call[p]
<1>1. [pc |-> "log", answer |-> r] \in [pc : Steps, answer : Calls \cup {NoCall}]
      BY DEF Steps
<1>2. [ticket |-> r, slug |-> Req[r].slug, ts |-> now] \in Token
      BY Bounds DEF Token, TypeOK
<1>. QED BY <1>1, <1>2, Typed DEF Answer

LEMMA StepTyped ==
    ASSUME TypeOK, NEW q \in Calls, NEW s \in Steps, call' = [call EXCEPT ![q].pc = s]
    PROVE  /\ call' \in [Calls -> [pc : Steps, answer : Calls \cup {NoCall}]]
           /\ call'[q].pc = s /\ call'[q].answer = call[q].answer
           /\ \A p \in Calls \ {q} : call'[p] = call[p]
BY Typed

LEMMA TypeInvariant == TypeOK /\ [Next]_vars => TypeOK'
<1>. SUFFICES ASSUME TypeOK, [Next]_vars PROVE TypeOK'
     OBVIOUS
<1>1. CASE UNCHANGED vars
      BY <1>1 DEF vars, TypeOK
<1>2. ASSUME NEW q \in Calls, Sweep(q) PROVE TypeOK'
  <2>1. \A r \in Calls : [res[r] EXCEPT !.status = "expired"] \in Row
        BY Typed DEF Row, Status
  <2>2. res' \in [Calls -> Row]
        BY <1>2, <2>1, Typed, TypedNext DEF Sweep
  <2>. QED BY <1>2, <2>2, StepTyped, Typed, TypedNext DEF Sweep, Steps
<1>3. ASSUME NEW q \in Calls, Redact(q) PROVE TypeOK'
  <2>1. \A r \in Calls : [res[r] EXCEPT !.redacted = TRUE] \in Row
        BY Typed DEF Row
  <2>2. res' \in [Calls -> Row]
        BY <1>3, <2>1, Typed, TypedNext DEF Redact
  <2>. QED BY <1>3, <2>2, StepTyped, Typed, TypedNext DEF Redact, Steps
<1>4. ASSUME NEW q \in Calls, LookUp(q) PROVE TypeOK'
  <2>1. CASE \E r \in RowOf(Req[q].key) : Answer(q, r)
        BY <1>4, <2>1, AnswerTyped, Typed, TypedNext DEF LookUp, RowOf, Rows
  <2>2. CASE \E s \in {"log", "insert"} : call' = [call EXCEPT ![q].pc = s]
                                          /\ UNCHANGED tokens
        BY <1>4, <2>2, StepTyped, Typed, TypedNext DEF LookUp, Steps
  <2>. QED BY <1>4, <2>1, <2>2 DEF LookUp
<1>5. ASSUME NEW q \in Calls, Insert(q) PROVE TypeOK'
  <2>1. CASE res' = [res EXCEPT ![q] = Created] /\ Answer(q, q)
    <3>1. Created \in Row
          BY Bounds, Typed, TypedNext DEF Created, Row, Status, Times
    <3>. QED BY <1>5, <2>1, <3>1, AnswerTyped, Typed, TypedNext DEF Insert
  <2>2. CASE (\E r \in RowOf(Req[q].key) : Answer(q, r)) /\ UNCHANGED res
        BY <1>5, <2>2, AnswerTyped, Typed, TypedNext DEF Insert, RowOf, Rows
  <2>. QED BY <1>5, <2>1, <2>2 DEF Insert
<1>6. ASSUME NEW q \in Calls, Log(q) PROVE TypeOK'
  <2>1. audit' \in [Calls -> Entry]
    <3>1. [audit[q] EXCEPT !.outcome = "none", !.ts = now] \in Entry
          BY Typed DEF Entry
    <3>. QED BY <1>6, <3>1, Typed, TypedNext DEF Log
  <2>2. \E s \in {"closed", "stamp"} : call' = [call EXCEPT ![q].pc = s]
        BY <1>6 DEF Log
  <2>. QED BY <1>6, <2>1, <2>2, StepTyped, Typed, TypedNext DEF Log, Steps
<1>7. ASSUME NEW q \in Calls, Stamp(q) PROVE TypeOK'
  <2>1. audit' \in [Calls -> Entry]
        BY <1>7, Typed, TypedNext DEF Stamp, Entry
  <2>. QED BY <1>7, <2>1, StepTyped, Typed, TypedNext DEF Stamp, Steps
<1>8. ASSUME NEW q \in Calls, Crash(q) PROVE TypeOK'
      BY <1>8, StepTyped, Typed, TypedNext DEF Crash, Steps
<1>9. ASSUME NEW q \in Calls, Credit(q) PROVE TypeOK'
      BY <1>9, Typed, TypedNext DEF Credit, Newest, Entry
<1>10. ASSUME NEW tok \in tokens, Confirm(tok) PROVE TypeOK'
  <2>1. tok.ticket \in Calls
        BY Typed DEF Token
  <2>2. res' \in [Calls -> Row]
        BY <1>10, <2>1, Typed, TypedNext DEF Confirm, Row, Status, Times
  <2>. QED BY <1>10, <2>1, <2>2, Typed, TypedNext DEF Confirm
<1>11. CASE Pass
       BY <1>11, Typed, TypedNext, Bounds DEF Pass, Times, Entry, Token
<1>. QED BY <1>1, <1>2, <1>3, <1>4, <1>5, <1>6, <1>7, <1>8, <1>9, <1>10, <1>11
     DEF Next, Reserve

\* The table, the calls, the tokens and the audit rows keep their types.
THEOREM ReservationTypeCorrect == Spec => []TypeOK
<1>1. Init => TypeOK
  <2>. SUFFICES ASSUME Init PROVE TypeOK
       OBVIOUS
  <2>1. now \in Times
        BY Bounds DEF Init, Times
  <2>2. res \in [Calls -> Row]
        BY DEF Init, Row, Status
  <2>3. audit \in [Calls -> Entry]
        BY Bounds DEF Init, Entry, Times
  <2>4. call \in [Calls -> [pc : Steps, answer : Calls \cup {NoCall}]]
        BY DEF Init, Steps
  <2>. QED BY <2>1, <2>2, <2>3, <2>4, Typed DEF Init
<1>. QED BY <1>1, TypeInvariant, PTL DEF Spec
-----------------------------------------------------------------------------
(* One reservation per key *)

UniqueRow == \A p, q \in Rows : Req[p].key = Req[q].key => p = q

\* The row of call q is created, because its key has none.
Creates(q) ==
    /\ RowOf(Req[q].key) = {} /\ q \notin Rows
    /\ call[q].pc = "insert"
    /\ res' = [res EXCEPT ![q] = Created]
    /\ Answer(q, q)
    /\ UNCHANGED <<now, audit, owed>>

\* Rows are neither removed nor moved to another key, and a call is answered with a
\* row of its key.
LEMMA RowsFacts ==
    ASSUME TypeOK, Next
    PROVE  \/ \E q \in Calls : Creates(q)
           \/ /\ Rows' = Rows
              /\ \A q \in Calls : \/ call'[q].answer = call[q].answer
                                  \/ call'[q].answer \in RowOf(Req[q].key)
<1>. SUFFICES ASSUME \A q \in Calls : ~ Creates(q)
              PROVE  /\ Rows' = Rows
                     /\ \A q \in Calls : \/ call'[q].answer = call[q].answer
                                         \/ call'[q].answer \in RowOf(Req[q].key)
     OBVIOUS
<1>1. ASSUME NEW q \in Calls, NEW s \in Steps, call' = [call EXCEPT ![q].pc = s]
      PROVE  \A p \in Calls : call'[p].answer = call[p].answer
      BY <1>1, StepTyped
<1>2. ASSUME NEW q \in Calls, NEW r \in RowOf(Req[q].key), Answer(q, r)
      PROVE  \A p \in Calls : \/ call'[p].answer = call[p].answer
                              \/ call'[p].answer \in RowOf(Req[p].key)
      BY <1>2, AnswerTyped DEF RowOf, Rows
<1>3. ASSUME \A r \in Calls : res'[r].status = "none" <=> res[r].status = "none"
      PROVE  Rows' = Rows
      BY <1>3 DEF Rows
<1>4. ASSUME NEW q \in Calls, Sweep(q)
      PROVE  /\ \A r \in Calls : res'[r].status = "none" <=> res[r].status = "none"
             /\ \A p \in Calls : call'[p].answer = call[p].answer
  <2>1. \A r \in Calls : [res[r] EXCEPT !.status = "expired"].status = "expired"
        BY Typed DEF Row
  <2>2. \A r \in Calls : res'[r].status = "none" <=> res[r].status = "none"
        BY <1>4, <2>1 DEF Sweep, Lapsed
  <2>. QED BY <1>1, <1>4, <2>2 DEF Sweep, Steps
<1>5. ASSUME NEW q \in Calls, Redact(q)
      PROVE  /\ \A r \in Calls : res'[r].status = "none" <=> res[r].status = "none"
             /\ \A p \in Calls : call'[p].answer = call[p].answer
  <2>1. \A r \in Calls : [res[r] EXCEPT !.redacted = TRUE].status = res[r].status
        BY Typed DEF Row
  <2>2. \A r \in Calls : res'[r].status = "none" <=> res[r].status = "none"
        BY <1>5, <2>1 DEF Redact
  <2>. QED BY <1>1, <1>5, <2>2 DEF Redact, Steps
<1>6. ASSUME NEW q \in Calls, LookUp(q)
      PROVE  /\ res' = res
             /\ \A p \in Calls : \/ call'[p].answer = call[p].answer
                                 \/ call'[p].answer \in RowOf(Req[p].key)
      BY <1>1, <1>2, <1>6 DEF LookUp, Steps
<1>7. ASSUME NEW q \in Calls, Insert(q)
      PROVE  /\ res' = res
             /\ \A p \in Calls : \/ call'[p].answer = call[p].answer
                                 \/ call'[p].answer \in RowOf(Req[p].key)
  <2>1. RowOf(Req[q].key) = {} => q \notin Rows
        BY DEF RowOf
  <2>. QED BY <1>2, <1>7, <2>1 DEF Insert, Creates
<1>8. ASSUME NEW q \in Calls, Log(q) \/ Stamp(q) \/ Crash(q)
      PROVE  res' = res /\ \A p \in Calls : call'[p].answer = call[p].answer
  <2>1. \E s \in {"closed", "stamp"} : call' = [call EXCEPT ![q].pc = s]
        BY <1>8 DEF Log, Stamp, Crash
  <2>. QED BY <1>1, <1>8, <2>1 DEF Log, Stamp, Crash, Steps
<1>9. ASSUME NEW tok \in tokens, Confirm(tok)
      PROVE  /\ \A r \in Calls : res'[r].status = "none" <=> res[r].status = "none"
             /\ call' = call
      BY <1>9, Typed DEF Confirm, Row, Token
<1>10. ASSUME Pass \/ \E q \in Calls : Credit(q)
       PROVE  res' = res /\ call' = call
       BY <1>10 DEF Pass, Credit
<1>. QED BY <1>3, <1>4, <1>5, <1>6, <1>7, <1>8, <1>9, <1>10 DEF Next, Reserve

LEMMA KeysInvariant ==
    TypeOK /\ UniqueRow /\ Answered /\ [Next]_vars => UniqueRow' /\ Answered'
<1>. SUFFICES ASSUME TypeOK, UniqueRow, Answered, [Next]_vars
              PROVE  UniqueRow' /\ Answered'
     OBVIOUS
<1>1. CASE UNCHANGED vars
      BY <1>1 DEF vars, UniqueRow, Answered, Rows
<1>2. ASSUME NEW q \in Calls, Creates(q) PROVE UniqueRow' /\ Answered'
  <2>1. Rows' = Rows \cup {q}
        BY <1>2, Typed DEF Creates, Rows, Created
  <2>2. \A p \in Rows : Req[p].key # Req[q].key
        BY <1>2 DEF Creates, RowOf
  <2>3. call'[q].answer = q /\ \A p \in Calls \ {q} : call'[p] = call[p]
        BY <1>2, AnswerTyped DEF Creates
  <2>4. UniqueRow'
        BY <2>1, <2>2 DEF UniqueRow
  <2>5. Answered'
        BY <2>1, <2>3 DEF Answered
  <2>. QED BY <2>4, <2>5
<1>3. ASSUME Rows' = Rows,
             \A q \in Calls : \/ call'[q].answer = call[q].answer
                              \/ call'[q].answer \in RowOf(Req[q].key)
      PROVE  UniqueRow' /\ Answered'
      BY <1>3 DEF UniqueRow, Answered, RowOf
<1>. QED BY <1>1, <1>2, <1>3, RowsFacts

LEMMA KeysAlways == Spec => [](TypeOK /\ UniqueRow /\ Answered)
<1>1. Init => UniqueRow /\ Answered
  <2>. SUFFICES ASSUME Init PROVE UniqueRow /\ Answered
       OBVIOUS
  <2>1. Rows = {}
        BY DEF Init, Rows
  <2>2. \A q \in Calls : call[q].answer = NoCall
        BY DEF Init
  <2>. QED BY <2>1, <2>2 DEF UniqueRow, Answered
<1>. QED BY <1>1, KeysInvariant, ReservationTypeCorrect, PTL DEF Spec

\* All answers for one key name one reservation.
THEOREM ReservationOnePerKey == Spec => []OneReservationPerKey
<1>1. TypeOK /\ UniqueRow /\ Answered => OneReservationPerKey
      BY DEF UniqueRow, Answered, OneReservationPerKey
<1>. QED BY <1>1, KeysAlways, PTL
-----------------------------------------------------------------------------
(* Refinement of Hold *)

LEMMA HoldStates ==
    ASSUME UniqueRow
    PROVE  /\ \A k \in Keys : RowOf(k) = {} => HoldState(k) = "free"
           /\ \A r \in Rows : HoldState(Req[r].key) = res[r].status
           /\ \A k \in Keys : RowOf(k) # {} => \E r \in Rows : Req[r].key = k
<1>1. ASSUME NEW r \in Rows PROVE RowOf(Req[r].key) = {r}
      BY DEF RowOf, UniqueRow
<1>2. \A r \in Rows : HoldState(Req[r].key) = res[r].status
      BY <1>1 DEF HoldState
<1>. QED BY <1>2 DEF HoldState, RowOf

LEMMA HoldStatesNext ==
    ASSUME UniqueRow'
    PROVE  /\ \A k \in Keys : RowOf(k)' = {} => HoldState(k)' = "free"
           /\ \A r \in Rows' : HoldState(Req[r].key)' = res'[r].status
<1>1. ASSUME NEW r \in Rows' PROVE RowOf(Req[r].key)' = {r}
      BY DEF RowOf, UniqueRow
<1>2. \A r \in Rows' : HoldState(Req[r].key)' = res'[r].status
      BY <1>1 DEF HoldState
<1>. QED BY <1>2 DEF HoldState

\* A step that leaves every status alone, creates no row.
LEMMA SameHolds ==
    ASSUME TypeOK, \A r \in Calls : res'[r].status = res[r].status
    PROVE  [k \in Keys |-> HoldState(k)]' = [k \in Keys |-> HoldState(k)]
<1>1. Rows' = Rows
      BY DEF Rows
<1>2. \A k \in Keys : RowOf(k)' = RowOf(k)
      BY <1>1 DEF RowOf
<1>3. ASSUME NEW k \in Keys PROVE HoldState(k)' = HoldState(k)
  <2>1. CASE RowOf(k) = {}
        BY <1>2, <2>1 DEF HoldState
  <2>2. CASE RowOf(k) # {}
    <3>1. PICK r : r = CHOOSE x \in RowOf(k) : TRUE
          OBVIOUS
    <3>2. r \in Calls
          BY <2>2, <3>1 DEF RowOf, Rows
    <3>. QED BY <1>2, <2>2, <3>1, <3>2 DEF HoldState
  <2>. QED BY <2>1, <2>2
<1>. QED BY <1>3

\* What became of the holds, given what became of the rows.
LEMMA HoldsMapped ==
    ASSUME TypeOK, UniqueRow, UniqueRow', Rows' = Rows
    PROVE  \A k \in Keys :
              \/ RowOf(k) = {} /\ HoldState(k) = "free" /\ HoldState(k)' = "free"
              \/ \E r \in Rows : /\ Req[r].key = k
                                 /\ HoldState(k) = res[r].status
                                 /\ HoldState(k)' = res'[r].status
<1>. SUFFICES ASSUME NEW k \in Keys
              PROVE  \/ RowOf(k) = {} /\ HoldState(k) = "free" /\ HoldState(k)' = "free"
                     \/ \E r \in Rows : /\ Req[r].key = k
                                        /\ HoldState(k) = res[r].status
                                        /\ HoldState(k)' = res'[r].status
     OBVIOUS
<1>1. RowOf(k)' = RowOf(k)
      BY DEF RowOf
<1>2. CASE RowOf(k) = {}
      BY <1>1, <1>2, HoldStates, HoldStatesNext
<1>3. CASE RowOf(k) # {}
  <2>1. PICK r \in Rows : Req[r].key = k
        BY <1>3, HoldStates
  <2>2. HoldState(Req[r].key) = res[r].status /\ HoldState(Req[r].key)' = res'[r].status
        BY HoldStates, HoldStatesNext
  <2>3. HoldState(k)' = HoldState(Req[r].key)'
        BY <2>1
  <2>. QED BY <2>1, <2>2, <2>3
<1>. QED BY <1>2, <1>3

LEMMA SweepMapped ==
    ASSUME TypeOK, UniqueRow, UniqueRow', NEW q \in Calls, Sweep(q)
    PROVE  H!Expire
<1>. DEFINE lapsed == {k \in Keys : \E r \in Rows : Req[r].key = k /\ Lapsed(r)}
<1>1. \A r \in Calls : /\ Lapsed(r) => res'[r].status = "expired" /\ res[r].status = "held"
                       /\ ~ Lapsed(r) => res'[r].status = res[r].status
  <2>1. \A r \in Calls : [res[r] EXCEPT !.status = "expired"].status = "expired"
        BY Typed DEF Row
  <2>. QED BY <2>1 DEF Sweep, Lapsed
<1>2. Rows' = Rows
      BY <1>1 DEF Rows
<1>3. ASSUME NEW k \in Keys
      PROVE  /\ k \in lapsed => HoldState(k) = "held" /\ HoldState(k)' = "expired"
             /\ k \notin lapsed => HoldState(k)' = HoldState(k)
  <2>1. CASE RowOf(k) = {} /\ HoldState(k) = "free" /\ HoldState(k)' = "free"
        BY <2>1 DEF RowOf
  <2>2. ASSUME NEW r \in Rows, Req[r].key = k,
               HoldState(k) = res[r].status, HoldState(k)' = res'[r].status
        PROVE  /\ k \in lapsed => HoldState(k) = "held" /\ HoldState(k)' = "expired"
               /\ k \notin lapsed => HoldState(k)' = HoldState(k)
    <3>1. k \in lapsed <=> Lapsed(r)
          BY <2>2 DEF UniqueRow
    <3>. QED BY <1>1, <2>2, <3>1 DEF Rows
  <2>. QED BY <1>2, <2>1, <2>2, HoldsMapped
<1>. DEFINE hold == [k \in Keys |-> HoldState(k)]
<1>4. lapsed \in SUBSET {k \in Keys : hold[k] = "held"}
      BY <1>3
<1>5. hold' = [k \in Keys |-> IF k \in lapsed THEN "expired" ELSE hold[k]]
  <2>1. \A k \in Keys : HoldState(k)' = IF k \in lapsed THEN "expired" ELSE hold[k]
        BY <1>3
  <2>. HIDE DEF lapsed
  <2>. QED BY <2>1
<1>. HIDE DEF lapsed
<1>. QED BY <1>4, <1>5 DEF H!Expire

LEMMA ConfirmMapped ==
    ASSUME TypeOK, UniqueRow, UniqueRow', NEW tok \in tokens, Confirm(tok)
    PROVE  \E k \in Keys : H!Confirm(k)
<1>. DEFINE hold == [k \in Keys |-> HoldState(k)]
<1>1. PICK t \in Calls : t = tok.ticket
      BY Typed DEF Token
<1>2. /\ res[t].status = "held" /\ res'[t].status = "confirmed"
      /\ \A r \in Calls \ {t} : res'[r] = res[r]
      BY <1>1, Typed DEF Confirm, Row
<1>3. Rows' = Rows /\ t \in Rows
      BY <1>2 DEF Rows
<1>4. PICK key \in Keys : key = Req[t].key
      BY Bounds
<1>5. ASSUME NEW k \in Keys
      PROVE  /\ k = key => HoldState(k) = "held" /\ HoldState(k)' = "confirmed"
             /\ k # key => HoldState(k)' = HoldState(k)
  <2>1. CASE RowOf(k) = {} /\ HoldState(k) = "free" /\ HoldState(k)' = "free"
        BY <1>3, <1>4, <2>1 DEF RowOf
  <2>2. ASSUME NEW r \in Rows, Req[r].key = k,
               HoldState(k) = res[r].status, HoldState(k)' = res'[r].status
        PROVE  /\ k = key => HoldState(k) = "held" /\ HoldState(k)' = "confirmed"
               /\ k # key => HoldState(k)' = HoldState(k)
    <3>1. k = key => r = t
          BY <1>3, <1>4, <2>2 DEF UniqueRow
    <3>2. k # key => r # t
          BY <1>4, <2>2
    <3>3. r \in Calls
          BY DEF Rows
    <3>. QED BY <1>2, <2>2, <3>1, <3>2, <3>3
  <2>. QED BY <1>3, <2>1, <2>2, HoldsMapped
<1>6. hold[key] = "held" /\ hold' = [hold EXCEPT ![key] = "confirmed"]
      BY <1>5
<1>. QED BY <1>6 DEF H!Confirm

LEMMA CreateMapped ==
    ASSUME TypeOK, UniqueRow, UniqueRow', NEW q \in Calls, Creates(q)
    PROVE  \E k \in Keys : H!Take(k)
<1>. DEFINE hold == [k \in Keys |-> HoldState(k)]
<1>1. PICK key \in Keys : key = Req[q].key
      BY Bounds
<1>2. /\ res'[q].status = "held" /\ \A r \in Calls \ {q} : res'[r] = res[r]
      /\ Rows' = Rows \cup {q} /\ q \notin Rows
      BY Typed DEF Creates, Created, Rows
<1>3. RowOf(key) = {}
      BY <1>1 DEF Creates
<1>4. HoldState(key) = "free" /\ HoldState(key)' = "held"
  <2>1. HoldState(Req[q].key)' = res'[q].status
        BY <1>2, HoldStatesNext
  <2>. QED BY <1>1, <1>2, <1>3, <2>1, HoldStates
<1>5. ASSUME NEW k \in Keys, k # key PROVE HoldState(k)' = HoldState(k)
  <2>1. RowOf(k)' = RowOf(k)
        BY <1>1, <1>2, <1>5 DEF RowOf
  <2>2. CASE RowOf(k) = {}
        BY <2>1, <2>2, HoldStates, HoldStatesNext
  <2>3. CASE RowOf(k) # {}
    <3>1. PICK r \in Rows : Req[r].key = k
          BY <2>3, HoldStates
    <3>2. HoldState(Req[r].key) = res[r].status /\ HoldState(Req[r].key)' = res'[r].status
          BY <1>2, HoldStates, HoldStatesNext
    <3>3. res'[r] = res[r]
          BY <1>2 DEF Rows
    <3>4. HoldState(k)' = HoldState(Req[r].key)'
          BY <3>1
    <3>. QED BY <3>1, <3>2, <3>3, <3>4
  <2>. QED BY <2>2, <2>3
<1>6. hold[key] = "free" /\ hold' = [hold EXCEPT ![key] = "held"]
      BY <1>4, <1>5
<1>. QED BY <1>6 DEF H!Take

LEMMA StepMapped ==
    ASSUME TypeOK, UniqueRow, UniqueRow', Next
    PROVE  H!Next \/ UNCHANGED [k \in Keys |-> HoldState(k)]
<1>1. CASE \E q \in Calls : Sweep(q)
      BY <1>1, SweepMapped DEF H!Next
<1>2. CASE \E tok \in tokens : Confirm(tok)
      BY <1>2, ConfirmMapped DEF H!Next
<1>3. CASE \E q \in Calls : Creates(q)
      BY <1>3, CreateMapped DEF H!Next
<1>4. ASSUME NEW q \in Calls, Redact(q)
      PROVE  \A r \in Calls : res'[r].status = res[r].status
  <2>1. \A r \in Calls : [res[r] EXCEPT !.redacted = TRUE].status = res[r].status
        BY Typed DEF Row
  <2>. QED BY <1>4, <2>1 DEF Redact
<1>5. ASSUME NEW q \in Calls, Insert(q), ~ Creates(q) PROVE res' = res
  <2>1. RowOf(Req[q].key) = {} => q \notin Rows
        BY DEF RowOf
  <2>. QED BY <1>5, <2>1 DEF Insert, Creates
<1>6. ASSUME Pass \/ \E q \in Calls : LookUp(q) \/ Log(q) \/ Stamp(q) \/ Crash(q)
                                      \/ Credit(q)
      PROVE  res' = res
      BY <1>6 DEF Pass, LookUp, Log, Stamp, Crash, Credit
<1>. QED BY <1>1, <1>2, <1>3, <1>4, <1>5, <1>6, SameHolds DEF Next, Reserve

\* The table implements one hold per key.
THEOREM ReservationImplementsHold == Spec => HoldImplemented
<1>1. Init => H!Init
  <2>. SUFFICES ASSUME Init PROVE H!Init
       OBVIOUS
  <2>1. Rows = {}
        BY DEF Init, Rows
  <2>2. \A k \in Keys : HoldState(k) = "free"
        BY <2>1 DEF HoldState, RowOf
  <2>. QED BY <2>2 DEF H!Init
<1>2. TypeOK /\ UniqueRow /\ UniqueRow' /\ [Next]_vars
         => [H!Next]_([k \in Keys |-> HoldState(k)])
  <2>. SUFFICES ASSUME TypeOK, UniqueRow, UniqueRow', [Next]_vars
                PROVE  H!Next \/ UNCHANGED [k \in Keys |-> HoldState(k)]
       OBVIOUS
  <2>1. CASE UNCHANGED vars
        BY <2>1, SameHolds DEF vars
  <2>. QED BY <2>1, StepMapped
<1>. QED BY <1>1, <1>2, KeysAlways, PTL DEF Spec, HoldImplemented, H!Spec
-----------------------------------------------------------------------------
(* Time: sweeps, tokens and retention *)

\* While a call runs, which is no time, its sweep has left no lapsed hold.
Swept == (\E q \in Calls : Running(q)) => \A r \in Calls : ~ Lapsed(r)

\* A token for a row that is still held is no younger than its hold.
TokensInTime ==
    \A tok \in tokens :
        /\ tok.ticket \in Rows
        /\ res[tok.ticket].status = "held" => tok.ts <= res[tok.ticket].expires

\* A hold keeps its contact, and a confirmed row until its window is long over.
ContactKept ==
    \A r \in Calls :
        /\ res[r].status = "held" => ~ res[r].redacted
        /\ res[r].status = "confirmed" /\ res[r].redacted
              => Req[r].windowEnd < now - ConfirmedKeep

TimeInv == TypeOK /\ UniqueRow /\ Answered
           /\ Swept /\ TokensInTime /\ ContactKept /\ LateConfirmBounded

\* A step that only moves a call on.
LEMMA CallOnly ==
    ASSUME TimeInv, UNCHANGED <<now, res, tokens>>,
           \A p \in Calls : Running(p)' => Running(p)
    PROVE  Swept' /\ TokensInTime' /\ ContactKept' /\ LateConfirmBounded'
BY DEF TimeInv, Swept, TokensInTime, ContactKept, LateConfirmBounded, Lapsed, Rows

\* A step that mints a token for row r, which is swept or new.
LEMMA MintToken ==
    ASSUME TypeOK', TokensInTime, NEW r \in Calls, now \in Int,
           tokens' = tokens \cup {[ticket |-> r, slug |-> Req[r].slug, ts |-> now]},
           res'[r].status # "none",
           res'[r].status = "held" => now <= res'[r].expires,
           \A p \in Rows : res'[p] = res[p]
    PROVE  TokensInTime'
<1>1. ASSUME NEW tok \in tokens'
      PROVE  /\ tok.ticket \in Rows'
             /\ res'[tok.ticket].status = "held" => tok.ts <= res'[tok.ticket].expires
  <2>1. CASE tok \in tokens
        BY <2>1 DEF TokensInTime, Rows
  <2>2. CASE tok = [ticket |-> r, slug |-> Req[r].slug, ts |-> now]
        BY <2>2 DEF Rows
  <2>. QED BY <2>1, <2>2
<1>. QED BY <1>1 DEF TokensInTime

LEMMA TimeInvariant == TimeInv /\ [Next]_vars => TimeInv'
<1>. SUFFICES ASSUME TimeInv, [Next]_vars
              PROVE  Swept' /\ TokensInTime' /\ ContactKept' /\ LateConfirmBounded'
     BY TypeInvariant, KeysInvariant DEF TimeInv
<1>0. /\ TypeOK /\ TypeOK' /\ now \in Nat
      /\ \A r \in Calls : res[r] \in Row
      BY TypeInvariant, Typed, Bounds DEF TimeInv, Times
<1>1. CASE UNCHANGED vars
      BY <1>1, CallOnly DEF vars, Running
<1>2. ASSUME NEW q \in Calls, Sweep(q)
      PROVE  Swept' /\ TokensInTime' /\ ContactKept' /\ LateConfirmBounded'
  <2>1. \A r \in Calls : LET v == [res[r] EXCEPT !.status = "expired"] IN
           v.status = "expired" /\ v.expires = res[r].expires
        BY <1>0 DEF Row
  <2>2. \A r \in Calls :
           \/ Lapsed(r) /\ res'[r].status = "expired" /\ res'[r].expires = res[r].expires
           \/ ~ Lapsed(r) /\ res'[r] = res[r]
        BY <1>2, <2>1 DEF Sweep
  <2>3. now' = now /\ tokens' = tokens /\ Rows' = Rows
        BY <1>2, <2>2 DEF Sweep, Rows, Lapsed
  <2>4. Swept'
        BY <2>2, <2>3 DEF Swept, Lapsed
  <2>5. TokensInTime'
        BY <1>0, <2>2, <2>3 DEF TimeInv, TokensInTime, Rows
  <2>6. ContactKept' /\ LateConfirmBounded'
        BY <2>2, <2>3 DEF TimeInv, ContactKept, LateConfirmBounded, Rows
  <2>. QED BY <2>4, <2>5, <2>6
<1>3. ASSUME NEW q \in Calls, Redact(q)
      PROVE  Swept' /\ TokensInTime' /\ ContactKept' /\ LateConfirmBounded'
  <2>1. \A r \in Calls : LET v == [res[r] EXCEPT !.redacted = TRUE] IN
           v.status = res[r].status /\ v.expires = res[r].expires
              /\ v.decided = res[r].decided
        BY <1>0 DEF Row
  <2>2. /\ \A r \in Calls : /\ res'[r].status = res[r].status
                            /\ res'[r].expires = res[r].expires
                            /\ res'[r].decided = res[r].decided
                            /\ ~ Stale(r) => res'[r] = res[r]
        /\ now' = now /\ tokens' = tokens
        BY <1>3, <2>1 DEF Redact
  <2>3. Running(q) /\ \A p \in Calls : Running(p)' => Running(p)
    <3>1. \A p \in Calls \ {q} : call'[p] = call[p]
          BY <1>0, <1>3, StepTyped DEF Redact, Steps
    <3>. QED BY <1>3, <3>1 DEF Redact, Running
  <2>4. \A r \in Calls : ~ Lapsed(r) /\ ~ Lapsed(r)'
        BY <2>2, <2>3 DEF TimeInv, Swept, Lapsed
  <2>5. ASSUME NEW r \in Calls, Stale(r)
        PROVE  /\ res[r].status # "held"
               /\ res[r].status = "confirmed" => Req[r].windowEnd < now - ConfirmedKeep
    <3>1. CASE res[r].status = "held"
      <4>1. res[r].expires < now - HeldKeep /\ res[r].expires \in Nat
            BY <1>0, <2>5, <3>1 DEF Stale, Row
      <4>2. res[r].expires < now
            BY <1>0, <4>1, Bounds
      <4>. QED BY <2>4, <3>1, <4>2 DEF Lapsed
    <3>2. CASE res[r].status # "held"
          BY <2>5, <3>2 DEF Stale
    <3>. QED BY <3>1, <3>2
  <2>6. ContactKept'
        BY <2>2, <2>5 DEF TimeInv, ContactKept
  <2>7. Swept' /\ TokensInTime' /\ LateConfirmBounded'
        BY <2>2, <2>4 DEF TimeInv, Swept, TokensInTime, LateConfirmBounded, Rows
  <2>. QED BY <2>6, <2>7
<1>4. ASSUME NEW q \in Calls, call[q].pc \in {"lookup", "insert"},
             NEW r \in Calls, Answer(q, r), now' = now,
             \/ res' = res /\ r \in Rows
             \/ r = q /\ q \notin Rows /\ res' = [res EXCEPT ![q] = Created]
      PROVE  Swept' /\ TokensInTime' /\ ContactKept' /\ LateConfirmBounded'
  <2>1. Running(q) /\ \A p \in Calls : Running(p)' => Running(p) \/ p = q
        BY <1>0, <1>4, AnswerTyped DEF Running
  <2>2. \A p \in Calls : ~ Lapsed(p)
        BY <2>1 DEF TimeInv, Swept
  <2>3. \A p \in Calls : \/ res'[p] = res[p]
                         \/ /\ p = q /\ res'[p] = Created /\ q \notin Rows
        BY <1>0, <1>4, Typed
  <2>4. /\ Created.status = "held" /\ Created.expires = now + HoldTime
        /\ ~ Created.redacted
        BY DEF Created
  <2>5. \A p \in Calls : ~ Lapsed(p)'
        BY <1>0, <1>4, <2>2, <2>3, <2>4, Bounds DEF Lapsed
  <2>6. res'[r].status # "none" /\ (res'[r].status = "held" => now <= res'[r].expires)
    <3>1. CASE res' = res /\ r \in Rows
          BY <1>0, <2>2, <3>1 DEF Rows, Lapsed, Row
    <3>2. CASE r = q /\ res' = [res EXCEPT ![q] = Created]
      <4>1. res'[r] = Created
            BY <1>0, <3>2, Typed
      <4>. QED BY <1>0, <2>4, <4>1, Bounds
    <3>. QED BY <1>4, <3>1, <3>2
  <2>7. TokensInTime'
    <3>1. tokens' = tokens \cup {[ticket |-> r, slug |-> Req[r].slug, ts |-> now]}
          BY <1>4 DEF Answer
    <3>2. \A p \in Rows : res'[p] = res[p]
          BY <2>3 DEF Rows
    <3>3. TokensInTime /\ now \in Int
          BY <1>0 DEF TimeInv
    <3>. QED BY <1>0, <1>4, <2>6, <3>1, <3>2, <3>3, MintToken
  <2>8. ContactKept'
        BY <1>4, <2>3, <2>4 DEF TimeInv, ContactKept
  <2>9. LateConfirmBounded'
        BY <2>3, <2>4 DEF TimeInv, LateConfirmBounded, Rows
  <2>. QED BY <2>5, <2>7, <2>8, <2>9 DEF Swept
<1>5. ASSUME NEW q \in Calls, Running(q), NEW s \in Steps,
             call' = [call EXCEPT ![q].pc = s], UNCHANGED <<now, res, tokens>>
      PROVE  Swept' /\ TokensInTime' /\ ContactKept' /\ LateConfirmBounded'
  <2>1. \A p \in Calls : Running(p)' => Running(p)
        BY <1>0, <1>5, StepTyped DEF Running
  <2>. QED BY <1>5, <2>1, CallOnly
<1>6. ASSUME NEW q \in Calls, LookUp(q)
      PROVE  Swept' /\ TokensInTime' /\ ContactKept' /\ LateConfirmBounded'
  <2>1. Running(q)
        BY <1>6 DEF LookUp, Running
  <2>. QED BY <1>4, <1>5, <1>6, <2>1 DEF LookUp, Steps, RowOf, Rows
<1>7. ASSUME NEW q \in Calls, Insert(q)
      PROVE  Swept' /\ TokensInTime' /\ ContactKept' /\ LateConfirmBounded'
  <2>1. RowOf(Req[q].key) = {} => q \notin Rows
        BY DEF RowOf
  <2>2. \A r \in RowOf(Req[q].key) : r \in Rows /\ r \in Calls
        BY DEF RowOf, Rows
  <2>. QED BY <1>4, <1>7, <2>1, <2>2 DEF Insert
<1>8. ASSUME NEW q \in Calls, Log(q) \/ Stamp(q) \/ Crash(q)
      PROVE  Swept' /\ TokensInTime' /\ ContactKept' /\ LateConfirmBounded'
  <2>1. Running(q)
        BY <1>0, <1>8, Typed DEF Log, Stamp, Crash, Running, Steps
  <2>2. \E s \in {"closed", "stamp"} : call' = [call EXCEPT ![q].pc = s]
        BY <1>8 DEF Log, Stamp, Crash
  <2>. QED BY <1>5, <1>8, <2>1, <2>2 DEF Log, Stamp, Crash, Steps
<1>9. ASSUME NEW q \in Calls, Credit(q)
      PROVE  Swept' /\ TokensInTime' /\ ContactKept' /\ LateConfirmBounded'
      BY <1>9, CallOnly DEF Credit, Running
<1>10. ASSUME NEW tok \in tokens, Confirm(tok)
      PROVE  Swept' /\ TokensInTime' /\ ContactKept' /\ LateConfirmBounded'
  <2>1. PICK t \in Calls : t = tok.ticket
        BY <1>0, Typed DEF Token
  <2>2. /\ res[t].status = "held" /\ res'[t].status = "confirmed"
        /\ res'[t].decided = now /\ res'[t].expires = res[t].expires
        /\ res'[t].redacted = res[t].redacted
        /\ \A r \in Calls \ {t} : res'[r] = res[r]
        /\ UNCHANGED <<now, call, tokens>>
        BY <1>0, <1>10, <2>1, Typed DEF Confirm, Row
  <2>3. now <= res[t].expires + TokenTTL
    <3>1. now - tok.ts <= TokenTTL /\ tok.ts <= res[t].expires /\ tok.ts \in Nat
          BY <1>0, <1>10, <2>1, <2>2, Typed, Bounds
          DEF Confirm, Fresh, TimeInv, TokensInTime, Token, Times
    <3>. QED BY <1>0, <3>1, Bounds DEF Row
  <2>4. Swept'
        BY <2>2 DEF TimeInv, Swept, Lapsed, Running
  <2>5. TokensInTime'
        BY <2>2 DEF TimeInv, TokensInTime, Rows
  <2>6. ContactKept'
        BY <2>2 DEF TimeInv, ContactKept
  <2>7. LateConfirmBounded'
        BY <2>2, <2>3 DEF TimeInv, LateConfirmBounded, Rows
  <2>. QED BY <2>4, <2>5, <2>6, <2>7
<1>11. ASSUME Pass
       PROVE  Swept' /\ TokensInTime' /\ ContactKept' /\ LateConfirmBounded'
  <2>1. /\ now' = now + 1 /\ UNCHANGED <<res, call, tokens>>
        /\ \A q \in Calls : ~ Running(q)
        BY <1>11 DEF Pass
  <2>2. \A q \in Calls : ~ Running(q)'
        BY <2>1 DEF Running
  <2>3. ContactKept'
        BY <1>0, <2>1, Bounds DEF TimeInv, ContactKept
  <2>. QED BY <2>1, <2>2, <2>3 DEF TimeInv, Swept, TokensInTime, LateConfirmBounded, Rows
<1>. QED BY <1>1, <1>2, <1>3, <1>6, <1>7, <1>8, <1>9, <1>10, <1>11 DEF Next, Reserve

LEMMA TimeAlways == Spec => []TimeInv
<1>1. Init => Swept /\ TokensInTime /\ ContactKept /\ LateConfirmBounded
      BY DEF Init, Swept, Running, TokensInTime, ContactKept, LateConfirmBounded, Rows
<1>. QED BY <1>1, TimeInvariant, KeysAlways, PTL DEF Spec, TimeInv

\* A hold is confirmed at most one token lifetime after it lapsed.
THEOREM ReservationLateConfirm == Spec => []LateConfirmBounded
BY TimeAlways, PTL DEF TimeInv

\* A confirmed booking keeps its contact details until its retention is over.
THEOREM ReservationContactKept == Spec => []ConfirmedContactKept
<1>1. TimeInv => ConfirmedContactKept
  <2>. SUFFICES ASSUME TimeInv, NEW r \in Rows, res[r].status = "confirmed",
                       Req[r].windowEnd >= now - ConfirmedKeep
                PROVE  ~ res[r].redacted
       BY DEF ConfirmedContactKept
  <2>1. r \in Calls /\ now \in Int /\ Req[r].windowEnd \in Int /\ ConfirmedKeep \in Int
        BY Typed, Bounds DEF TimeInv, Rows, Times
  <2>. QED BY <2>1 DEF TimeInv, ContactKept
<1>. QED BY <1>1, TimeAlways, PTL
-----------------------------------------------------------------------------
(* Credits *)

\* An audit row names a reservation only once its call has closed; a reservation
\* whose credit is owed has none; and one that has a credit has one, and is confirmed.
Credits ==
    /\ \A q \in Calls : call[q].pc # "closed" => audit[q].related = NoCall
    /\ \A r \in owed : /\ res[r].status = "confirmed"
                       /\ \A q \in Calls : audit[q].related = r
                                              => audit[q].outcome # "confirmed"
    /\ \A r, q \in Calls : audit[q].related = r /\ audit[q].outcome = "confirmed"
          => /\ res[r].status = "confirmed"
             /\ \A p \in Calls : audit[p].related = r /\ audit[p].outcome = "confirmed"
                                    => p = q

\* A step that keeps confirmed rows confirmed and gives no credit.
LEMMA NoCredit ==
    ASSUME TypeOK, Credits, owed' \subseteq owed,
           \A r \in Calls : res[r].status = "confirmed" => res'[r].status = "confirmed",
           \A q \in Calls :
              /\ call'[q].pc # "closed" => call[q].pc # "closed"
              /\ \/ audit'[q] = audit[q]
                 \/ /\ audit'[q].outcome # "confirmed"
                    /\ call'[q].pc = "closed" \/ audit'[q].related = audit[q].related
    PROVE  Credits'
<1>1. owed \subseteq Calls
      BY Typed
<1>. QED BY <1>1 DEF Credits

LEMMA CreditsInvariant == TypeOK /\ Credits /\ [Next]_vars => Credits'
<1>. SUFFICES ASSUME TypeOK, Credits, [Next]_vars PROVE Credits'
     OBVIOUS
<1>1. CASE UNCHANGED vars
      BY <1>1, NoCredit DEF vars
<1>2. ASSUME NEW q \in Calls, NEW s \in Steps, call[q].pc # "closed",
             call' = [call EXCEPT ![q].pc = s]
      PROVE  \A p \in Calls : call'[p].pc # "closed" => call[p].pc # "closed"
      BY <1>2, StepTyped
<1>3. ASSUME NEW q \in Calls, NEW r \in Calls, call[q].pc # "closed", Answer(q, r)
      PROVE  \A p \in Calls : call'[p].pc # "closed" => call[p].pc # "closed"
      BY <1>3, AnswerTyped
<1>4. ASSUME NEW q \in Calls, Sweep(q) PROVE Credits'
  <2>1. \A r \in Calls : res[r].status = "confirmed" => res'[r].status = "confirmed"
        BY <1>4 DEF Sweep, Lapsed
  <2>2. call[q].pc # "closed" /\ call' = [call EXCEPT ![q].pc = "redact"]
        /\ UNCHANGED <<audit, owed>>
        BY <1>4 DEF Sweep
  <2>. QED BY <1>2, <2>1, <2>2, NoCredit DEF Steps
<1>5. ASSUME NEW q \in Calls, Redact(q) PROVE Credits'
  <2>1. \A r \in Calls : [res[r] EXCEPT !.redacted = TRUE].status = res[r].status
        BY Typed DEF Row
  <2>2. \A r \in Calls : res[r].status = "confirmed" => res'[r].status = "confirmed"
        BY <1>5, <2>1 DEF Redact
  <2>3. call[q].pc # "closed" /\ call' = [call EXCEPT ![q].pc = "lookup"]
        /\ UNCHANGED <<audit, owed>>
        BY <1>5 DEF Redact
  <2>. QED BY <1>2, <2>2, <2>3, NoCredit DEF Steps
<1>6. ASSUME NEW q \in Calls, LookUp(q) PROVE Credits'
  <2>1. \A p \in Calls : call'[p].pc # "closed" => call[p].pc # "closed"
        BY <1>2, <1>3, <1>6 DEF LookUp, Steps, RowOf, Rows
  <2>. QED BY <1>6, <2>1, NoCredit DEF LookUp
<1>7. ASSUME NEW q \in Calls, Insert(q) PROVE Credits'
  <2>1. \A p \in Calls : call'[p].pc # "closed" => call[p].pc # "closed"
        BY <1>3, <1>7 DEF Insert, RowOf, Rows
  <2>2. RowOf(Req[q].key) = {} => res[q].status = "none"
        BY DEF RowOf, Rows
  <2>3. \A r \in Calls : res[r].status = "confirmed" => res'[r].status = "confirmed"
        BY <1>7, <2>2, Typed DEF Insert
  <2>. QED BY <1>7, <2>1, <2>3, NoCredit DEF Insert
<1>8. ASSUME NEW q \in Calls, Log(q) PROVE Credits'
  <2>1. PICK s \in {"closed", "stamp"} : call' = [call EXCEPT ![q].pc = s]
        BY <1>8 DEF Log
  <2>2. \A p \in Calls : call'[p].pc # "closed" => call[p].pc # "closed"
        BY <1>2, <1>8, <2>1 DEF Log, Steps
  <2>3. \A p \in Calls : \/ audit'[p] = audit[p]
                         \/ /\ audit'[p].outcome # "confirmed"
                            /\ audit'[p].related = audit[p].related
        BY <1>8, Typed DEF Log, Entry
  <2>. QED BY <1>8, <2>2, <2>3, NoCredit DEF Log
<1>9. ASSUME NEW q \in Calls, Stamp(q) PROVE Credits'
  <2>1. \A p \in Calls : call'[p].pc # "closed" => call[p].pc # "closed"
        BY <1>2, <1>9 DEF Stamp, Steps
  <2>2. call'[q].pc = "closed"
        BY <1>9, StepTyped DEF Stamp, Steps
  <2>3. \A p \in Calls : \/ audit'[p] = audit[p]
                         \/ audit'[p].outcome # "confirmed" /\ call'[p].pc = "closed"
        BY <1>9, <2>2, Typed DEF Stamp, Entry
  <2>. QED BY <1>9, <2>1, <2>3, NoCredit DEF Stamp
<1>10. ASSUME NEW q \in Calls, Crash(q) PROVE Credits'
       BY <1>2, <1>10, NoCredit DEF Crash, Steps
<1>11. CASE Pass
       BY <1>11, NoCredit DEF Pass
<1>12. ASSUME NEW tok \in tokens, Confirm(tok) PROVE Credits'
  <2>1. PICK t \in Calls : t = tok.ticket
        BY Typed DEF Token
  <2>2. /\ res[t].status = "held" /\ res'[t].status = "confirmed"
        /\ \A r \in Calls \ {t} : res'[r] = res[r]
        /\ owed' = owed \cup {t} /\ UNCHANGED <<call, audit>>
        BY <1>12, <2>1, Typed DEF Confirm, Row
  <2>3. \A q \in Calls : audit[q].related = t => audit[q].outcome # "confirmed"
        BY <2>2 DEF Credits
  <2>4. owed \subseteq Calls
        BY Typed
  <2>. QED BY <2>2, <2>3, <2>4 DEF Credits
<1>13. ASSUME NEW r \in Calls, Credit(r) PROVE Credits'
  <2>1. CASE UNCHANGED audit
    <3>1. owed' \subseteq owed /\ UNCHANGED <<res, call>>
          BY <1>13 DEF Credit
    <3>. QED BY <2>1, <3>1, NoCredit
  <2>2. ASSUME NEW q \in Newest(r), audit' = [audit EXCEPT ![q].outcome = "confirmed"]
        PROVE  Credits'
    <3>1. q \in Calls /\ audit[q].related = r
          BY DEF Newest
    <3>2. /\ audit'[q].related = r /\ audit'[q].outcome = "confirmed"
          /\ \A p \in Calls \ {q} : audit'[p] = audit[p]
          BY <2>2, <3>1, Typed DEF Entry
    <3>3. /\ r \in owed /\ owed' = owed \ {r} /\ UNCHANGED <<res, call>>
          BY <1>13 DEF Credit
    <3>4. \A p \in Calls : audit[p].related = r => audit[p].outcome # "confirmed"
          BY <3>3 DEF Credits
    <3>5. res[r].status = "confirmed"
          BY <3>3 DEF Credits
    <3>6. \A p \in Calls : audit'[p].related = audit[p].related
          BY <3>1, <3>2
    <3>. QED BY <3>1, <3>2, <3>3, <3>4, <3>5, <3>6 DEF Credits
  <2>. QED BY <1>13, <2>1, <2>2 DEF Credit
<1>. QED BY <1>1, <1>4, <1>5, <1>6, <1>7, <1>8, <1>9, <1>10, <1>11, <1>12, <1>13
     DEF Next, Reserve

\* At most one audit row is credited with a reservation, and only when it is
\* confirmed.
THEOREM ReservationSingleCredit == Spec => []SingleCredit
<1>1. Init => Credits
  <2>. SUFFICES ASSUME Init PROVE Credits
       OBVIOUS
  <2>1. owed = {} /\ \A q \in Calls : audit[q].related = NoCall
                                      /\ audit[q].outcome = "absent"
        BY DEF Init
  <2>. QED BY <2>1 DEF Credits
<1>2. Credits => SingleCredit
  <2>. SUFFICES ASSUME Credits, NEW r \in Calls
                PROVE  LET credited == {q \in Calls : audit[q].outcome = "confirmed"
                                                      /\ audit[q].related = r}
                       IN /\ Cardinality(credited) <= 1
                          /\ credited # {} => res[r].status = "confirmed"
       BY DEF SingleCredit
  <2>. DEFINE credited == {q \in Calls : audit[q].outcome = "confirmed"
                                         /\ audit[q].related = r}
  <2>1. CASE credited = {}
    <3>1. Cardinality(credited) = 0
          BY <2>1, FS_EmptySet
    <3>. QED BY <2>1, <3>1
  <2>2. CASE credited # {}
    <3>1. PICK q \in Calls : q \in credited
          BY <2>2
    <3>2. credited = {q} /\ res[r].status = "confirmed"
          BY <3>1 DEF Credits
    <3>3. Cardinality(credited) = 1
          BY <3>2, FS_Singleton
    <3>. QED BY <3>2, <3>3
  <2>. QED BY <2>1, <2>2
<1>. QED BY <1>1, <1>2, CreditsInvariant, ReservationTypeCorrect, PTL DEF Spec
================================================================================
