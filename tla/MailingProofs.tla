---------------------------- MODULE MailingProofs ----------------------------
(***************************************************************************)
(* TLAPS proofs about Mailing, for any items, any number of runs and any    *)
(* bounds.                                                                 *)
(***************************************************************************)
EXTENDS Mailing, FiniteSetTheorems, TLAPS

RowType == [state : {"none", "open", "sent"}, attempts : Nat,
            next : {"never", "later", "due"}, error : {"none", "send", "nodata"}]

RunType == [pc : {"idle", "pick", "sending", "accepted", "failed"},
            todo : SUBSET Items, cur : Items \cup {None}, seen : [Items -> Nat]]

\* TypeOK with its record types named.
LEMMA Typed ==
    TypeOK <=>
        /\ row \in [Items -> RowType]
        /\ run \in [Slots -> RunType]
        /\ \A s \in Slots : run[s].cur = None <=> run[s].pc \in {"idle", "pick"}
        /\ \A s \in Retries : Cardinality(run[s].todo) <= PerRun
        /\ gone \subseteq Items
        /\ started \in 0 .. MaxBatches /\ faults \in 0 .. MaxFaults
        /\ copies \in [Items -> Nat]
        /\ contended \subseteq Items /\ struck \subseteq Items
BY DEF TypeOK, RowType, RunType

\* An idle run has nothing to do.
LEMMA IdleTyped ==
    Idle \in RunType /\ Idle.cur = None /\ Idle.pc = "idle" /\ Idle.todo = {}
BY DEF Idle, RunType

LEMMA EmptyIsSmall == Cardinality({}) <= PerRun
BY FS_EmptySet, MailingAssumption

\* What is left of a run is a run with less to do.
LEMMA RestTyped ==
    ASSUME TypeOK, NEW s \in Slots, NEW i \in Items
    PROVE  /\ Rest(s, i) \in RunType
           /\ Rest(s, i).cur = None
           /\ Rest(s, i).pc \in {"idle", "pick"}
           /\ Rest(s, i).todo \subseteq run[s].todo \ {i}
           /\ \A j \in Items : Rest(s, i).seen[j] \in {0, run[s].seen[j]}
<1>1. run[s] \in RunType
      BY Typed
<1>2. CASE run[s].todo \subseteq {i}
      BY <1>1, <1>2, IdleTyped DEF Rest, Idle, RunType
<1>3. CASE ~ (run[s].todo \subseteq {i})
      BY <1>1, <1>3 DEF Rest, RunType
<1>. QED BY <1>2, <1>3

\* Taking items off a list keeps it within the LIMIT.
LEMMA SmallerList ==
    ASSUME TypeOK, NEW s \in Retries, NEW T, T \subseteq run[s].todo
    PROVE  Cardinality(T) <= PerRun
<1>1. run[s] \in RunType /\ s \in Slots
      BY Typed DEF Slots
<1>2. run[s].todo \subseteq Items
      BY <1>1 DEF RunType
<1>3. IsFiniteSet(run[s].todo)
      BY <1>2, FS_Subset, MailingAssumption
<1>4. /\ Cardinality(T) <= Cardinality(run[s].todo)
      /\ Cardinality(T) \in Nat /\ Cardinality(run[s].todo) \in Nat
      BY <1>3, FS_Subset, FS_CardinalityType
<1>5. Cardinality(run[s].todo) <= PerRun
      BY DEF TypeOK
<1>. QED BY <1>4, <1>5, MailingAssumption
-----------------------------------------------------------------------------
(* Type correctness *)

LEMMA BeginTyped ==
    ASSUME TypeOK, NEW s \in Slots, NEW list \in SUBSET Items,
           s \in Retries => Cardinality(list) <= PerRun,
           Begin(s, list), started' \in 0 .. MaxBatches
    PROVE  TypeOK'
<1>1. run' \in [Slots -> RunType]
      BY Typed DEF Begin, RunType, RowType
<1>2. \A t \in Slots : run'[t].cur = None <=> run'[t].pc \in {"idle", "pick"}
      BY Typed DEF Begin
<1>3. \A t \in Retries : Cardinality(run'[t].todo) <= PerRun
      BY Typed DEF Begin, Slots
<1>4. contended' \subseteq Items
      BY Typed DEF Begin
<1>. QED BY <1>1, <1>2, <1>3, <1>4, Typed DEF Begin, TypeOK, RunType, RowType

LEMMA DropTyped ==
    ASSUME TypeOK, NEW s \in Slots, NEW i \in Items, Drop(s, i)
    PROVE  /\ run' \in [Slots -> RunType]
           /\ \A t \in Slots : run'[t].cur = None <=> run'[t].pc \in {"idle", "pick"}
           /\ \A t \in Retries : Cardinality(run'[t].todo) <= PerRun
<1>1. run' = [run EXCEPT ![s] = Rest(s, i)]
      BY DEF Drop
<1>2. run \in [Slots -> RunType]
      BY Typed
<1>3. \A t \in Retries : Cardinality(run'[t].todo) <= PerRun
  <2>1. TAKE t \in Retries
  <2>2. CASE t = s
        BY <1>1, <1>2, <2>2, RestTyped, SmallerList
  <2>3. CASE t # s
        BY <1>1, <1>2, <2>3, Typed DEF Slots
  <2>. QED BY <2>2, <2>3
<1>. QED BY <1>1, <1>2, <1>3, RestTyped, Typed

LEMMA AttemptedTyped ==
    ASSUME TypeOK, NEW i \in Items,
           NEW state \in {"none", "open", "sent"},
           NEW next \in {"never", "later", "due"},
           NEW error \in {"none", "send", "nodata"}
    PROVE  Attempted(i, state, next, error) \in RowType
BY Typed DEF Attempted, RowType

LEMMA PrepareTyped ==
    ASSUME TypeOK, NEW s \in Slots, Prepare(s)
    PROVE  TypeOK'
<1>. PICK i \in run[s].todo : Prepare(s)!2!(i)
     BY DEF Prepare
<1>1. /\ row \in [Items -> RowType] /\ run \in [Slots -> RunType]
      /\ i \in Items
      BY Typed DEF RunType
<1>2. UNCHANGED <<gone, started, faults, copies, contended, struck>>
      BY DEF Prepare
<1>3. CASE /\ Buildable(s, i)
           /\ row' = [row EXCEPT ![i].state = IF @ = "none" THEN "open" ELSE @]
           /\ HandOver(s, i)
  <2>1. row' \in [Items -> RowType]
        BY <1>1, <1>3 DEF RowType
  <2>2. run' \in [Slots -> RunType]
    <3>1. run[s] \in RunType
          BY <1>1
    <3>. QED BY <1>1, <1>3, <3>1 DEF HandOver, RunType
  <2>3. \A t \in Slots : run'[t].cur = None <=> run'[t].pc \in {"idle", "pick"}
        BY <1>1, <1>3, Typed, MailingAssumption DEF HandOver, RunType
  <2>4. \A t \in Retries : Cardinality(run'[t].todo) <= PerRun
    <3>1. TAKE t \in Retries
    <3>2. CASE t = s
          BY <1>1, <1>3, <3>2, SmallerList DEF HandOver, RunType
    <3>3. CASE t # s
          BY <1>1, <1>3, <3>3, Typed DEF HandOver, Slots
    <3>. QED BY <3>2, <3>3
  <2>. QED BY <1>2, <2>1, <2>2, <2>3, <2>4, Typed DEF TypeOK, RowType, RunType
<1>4. CASE Drop(s, i) /\ UNCHANGED row
      BY <1>1, <1>2, <1>4, DropTyped, Typed DEF TypeOK, RowType, RunType
<1>5. CASE /\ row' = [row EXCEPT ![i] = Attempted(i, "open", "never", "nodata")]
           /\ Drop(s, i)
  <2>1. row' \in [Items -> RowType]
        BY <1>1, <1>5, AttemptedTyped
  <2>. QED BY <1>1, <1>2, <1>5, <2>1, DropTyped, Typed DEF TypeOK, RowType, RunType
<1>. QED BY <1>3, <1>4, <1>5

\* A run that awaits Resend or its answer has an item in hand.
LEMMA InHand ==
    ASSUME TypeOK, NEW s \in Slots, run[s].pc \in {"sending", "accepted", "failed"}
    PROVE  run[s].cur \in Items
BY Typed DEF RunType

LEMMA AnswerTyped ==
    ASSUME TypeOK, NEW s \in Slots, Answer(s)
    PROVE  TypeOK'
<1>1. run[s].cur \in Items
      BY InHand DEF Answer
<1>2. \E step \in {"accepted", "failed"} : run' = [run EXCEPT ![s].pc = step]
      BY DEF Answer
<1>3. run' \in [Slots -> RunType]
      BY <1>2, Typed DEF RunType
<1>4. \A t \in Slots : run'[t].cur = None <=> run'[t].pc \in {"idle", "pick"}
      BY <1>1, <1>2, Typed, MailingAssumption DEF RunType
<1>5. \A t \in Retries : Cardinality(run'[t].todo) <= PerRun
      BY <1>2, Typed DEF RunType, Slots
<1>6. faults' \in 0 .. MaxFaults
      BY Typed, MailingAssumption DEF Answer
<1>7. copies' \in [Items -> Nat] /\ struck' \subseteq Items
      BY <1>1, Typed DEF Answer
<1>. QED BY <1>3, <1>4, <1>5, <1>6, <1>7 DEF Answer, TypeOK, RunType, RowType

LEMMA RecordTyped ==
    ASSUME TypeOK, NEW s \in Slots, RecordSuccess(s) \/ RecordError(s)
    PROVE  TypeOK'
<1>. DEFINE i == run[s].cur
<1>1. i \in Items
      BY InHand DEF RecordSuccess, RecordError
<1>2. row[i] \in RowType
      BY <1>1, Typed
<1>3. Drop(s, i) /\ UNCHANGED <<gone, started, faults, copies, contended, struck>>
      BY DEF RecordSuccess, RecordError
<1>4. row' \in [Items -> RowType]
  <2>1. CASE RecordSuccess(s)
        BY <1>1, <2>1, AttemptedTyped, Typed DEF RecordSuccess
  <2>2. CASE RecordError(s)
    <3>1. Backoff(Counted(s)) \in {"never", "later", "due"}
          BY DEF Backoff
    <3>. QED BY <1>1, <2>2, <3>1, AttemptedTyped, Typed DEF RecordError
  <2>. QED BY <2>1, <2>2
<1>. QED BY <1>1, <1>3, <1>4, DropTyped, Typed DEF TypeOK, RowType, RunType

LEMMA CrashTyped ==
    ASSUME TypeOK, Crash
    PROVE  TypeOK'
<1>1. run' = [s \in Slots |-> Idle]
      BY DEF Crash
<1>2. run' \in [Slots -> RunType]
      BY <1>1, IdleTyped
<1>3. \A t \in Retries : Cardinality(run'[t].todo) <= PerRun
      BY <1>1, IdleTyped, EmptyIsSmall DEF Slots
<1>4. copies' \in [Items -> Nat]
  <2>1. PICK landed \in SUBSET {s \in {t \in Slots : run[t].pc # "idle"} :
                                    run[s].pc = "sending"} :
            copies' = [i \in Items |->
                copies[i] + Cardinality({s \in landed : run[s].cur = i})]
        BY DEF Crash
  <2>2. \A i \in Items : Cardinality({s \in landed : run[s].cur = i}) \in Nat
    <3>1. TAKE i \in Items
    <3>2. {s \in landed : run[s].cur = i} \subseteq Slots
          OBVIOUS
    <3>. QED BY <3>2, FS_Subset, FS_CardinalityType, MailingAssumption
  <2>. QED BY <2>1, <2>2, Typed
<1>5. struck' \subseteq Items
      BY Typed DEF Crash, RunType
<1>6. faults' \in 0 .. MaxFaults
      BY Typed, MailingAssumption DEF Crash
<1>7. \A t \in Slots : run'[t].cur = None <=> run'[t].pc \in {"idle", "pick"}
      BY <1>1, IdleTyped
<1>. QED BY <1>2, <1>3, <1>4, <1>5, <1>6, <1>7 DEF Crash, TypeOK, RunType, RowType

\* Every step of every run, and what happens around them, keeps the types.
LEMMA NextTyped ==
    ASSUME TypeOK, [Next]_vars
    PROVE  TypeOK'
<1>1. CASE \E s \in Batches : StartBatch(s)
  <2>1. PICK s \in Batches : StartBatch(s)
        BY <1>1
  <2>2. PICK job \in {Digests, Reviews} :
            Begin(s, {i \in job : row[i].state # "sent" /\ i \notin gone \cap Reviews})
        BY <2>1 DEF StartBatch
  <2>3. started' \in 0 .. MaxBatches
        BY <2>1, Typed, MailingAssumption DEF StartBatch
  <2>4. {i \in job : row[i].state # "sent" /\ i \notin gone \cap Reviews} \in SUBSET Items
        BY DEF Items
  <2>5. s \in Slots /\ s \notin Retries
        BY MailingAssumption DEF Slots
  <2>. QED BY <2>2, <2>3, <2>4, <2>5, BeginTyped
<1>2. CASE \E s \in Retries, job \in {Digests, Reviews} : StartRetry(s, job)
  <2>1. PICK s \in Retries, job \in {Digests, Reviews} : StartRetry(s, job)
        BY <1>2
  <2>2. \E list \in SUBSET Due(job) : Cardinality(list) <= PerRun /\ Begin(s, list)
        BY <2>1 DEF StartRetry
  <2>3. PICK list \in SUBSET Due(job) : Cardinality(list) <= PerRun /\ Begin(s, list)
        BY <2>2
  <2>4. list \in SUBSET Items
        BY DEF Items, Due
  <2>5. started' \in 0 .. MaxBatches
        BY <2>1, Typed DEF StartRetry
  <2>. QED BY <2>3, <2>4, <2>5, BeginTyped DEF Slots
<1>3. CASE \E s \in Slots : Continue(s)
      BY <1>3, PrepareTyped, AnswerTyped, RecordTyped DEF Continue
<1>4. CASE \E i \in Items : Withdraw(i)
      BY <1>4 DEF Withdraw, TypeOK
<1>5. CASE \E i \in Items : FallDue(i)
  <2>1. row' \in [Items -> RowType]
        BY <1>5, Typed DEF FallDue, RowType
  <2>. QED BY <1>5, <2>1, Typed DEF FallDue, TypeOK, RowType, RunType
<1>6. CASE Crash
      BY <1>6, CrashTyped
<1>7. CASE UNCHANGED vars
      BY <1>7 DEF vars, TypeOK
<1>. QED BY <1>1, <1>2, <1>3, <1>4, <1>5, <1>6, <1>7 DEF Next

LEMMA InitTyped == Init => TypeOK
<1>. SUFFICES ASSUME Init PROVE TypeOK
     OBVIOUS
<1>1. run \in [Slots -> RunType] /\ row \in [Items -> RowType]
      BY IdleTyped DEF Init, RowType
<1>. QED BY <1>1, IdleTyped, EmptyIsSmall, MailingAssumption
         DEF Init, TypeOK, RowType, RunType, Slots

(* The dispatch tables, the runs and the histories keep their types, and no *)
(* retry run lists more than its LIMIT (retryPendingDigests).               *)
THEOREM MailingTypeCorrect == Spec => []TypeOK
BY InitTyped, NextTyped, PTL DEF Spec
-----------------------------------------------------------------------------
(* A record that is sent stays as it is. *)

\* Only mails that are still open are scheduled, and a run never counts more
\* attempts than the row has.
Scheduled ==
    /\ \A i \in Items : row[i].next # "never" => row[i].state = "open"
    /\ \A s \in Slots : \A i \in Items : run[s].seen[i] <= row[i].attempts

\* What a step does to the rows: nothing, or one of the four writes.
RowStep(i) ==
    \/ row' = row
    \/ row' = [row EXCEPT ![i].state = IF @ = "none" THEN "open" ELSE @]
    \/ row[i].next = "later" /\ row' = [row EXCEPT ![i].next = "due"]
    \/ row' = [row EXCEPT ![i] = Attempted(i, "sent", "never", "none")]
    \/ row' = [row EXCEPT ![i] = Attempted(i, "open", "never", "nodata")]
    \/ \E n \in Nat :
           row' = [row EXCEPT ![i] = Attempted(i, "open", Backoff(n), "send")]

\* The attempts a run counts are a number.
LEMMA CountedTyped ==
    ASSUME TypeOK, NEW s \in Slots, run[s].cur \in Items
    PROVE  Counted(s) \in Nat
<1>1. run[s] \in RunType
      BY Typed
<1>. QED BY <1>1 DEF Counted, RunType

LEMMA RowSteps ==
    ASSUME TypeOK, [Next]_vars, Items # {}
    PROVE  \E i \in Items : RowStep(i)
<1>1. CASE row' = row
      BY <1>1 DEF RowStep
<1>2. ASSUME NEW s \in Slots, Prepare(s) PROVE \E i \in Items : RowStep(i)
  <2>1. run[s] \in RunType
        BY Typed
  <2>2. PICK i \in run[s].todo :
            \/ row' = row
            \/ row' = [row EXCEPT ![i].state = IF @ = "none" THEN "open" ELSE @]
            \/ row' = [row EXCEPT ![i] = Attempted(i, "open", "never", "nodata")]
        BY <1>2 DEF Prepare
  <2>3. i \in Items
        BY <2>1 DEF RunType
  <2>. QED BY <2>2, <2>3 DEF RowStep
<1>3. ASSUME NEW s \in Slots, RecordSuccess(s) \/ RecordError(s)
      PROVE \E i \in Items : RowStep(i)
      BY <1>3, InHand, CountedTyped DEF RecordSuccess, RecordError, RowStep
<1>4. ASSUME NEW i \in Items, FallDue(i) PROVE \E j \in Items : RowStep(j)
      BY <1>4 DEF FallDue, RowStep
<1>. QED BY <1>1, <1>2, <1>3, <1>4
         DEF Next, Continue, StartBatch, StartRetry, Begin, Answer, Withdraw, Crash, vars

\* Every write of a row counts attempts up and schedules only open mails.
LEMMA RowStepFacts ==
    ASSUME TypeOK, Scheduled, NEW i \in Items, RowStep(i)
    PROVE  /\ \A j \in Items : row[j].attempts <= row'[j].attempts
           /\ \A j \in Items : row'[j].next # "never" => row'[j].state = "open"
           /\ \A j \in Items : row[j].state = "sent" => row'[j] = row[j]
<1>1. row \in [Items -> RowType]
      BY Typed
<1>2. CASE row' = row
      BY <1>1, <1>2 DEF RowType, Scheduled
<1>3. CASE row' = [row EXCEPT ![i].state = IF @ = "none" THEN "open" ELSE @]
      BY <1>1, <1>3 DEF RowType, Scheduled
<1>4. CASE row[i].next = "later" /\ row' = [row EXCEPT ![i].next = "due"]
      BY <1>1, <1>4 DEF RowType, Scheduled
<1>5. ASSUME NEW state \in {"open", "sent"}, NEW next, NEW error,
             state = "sent" => next = "never",
             row' = [row EXCEPT ![i] = Attempted(i, state, next, error)]
      PROVE  /\ \A j \in Items : row[j].attempts <= row'[j].attempts
             /\ \A j \in Items : row'[j].next # "never" => row'[j].state = "open"
             /\ \A j \in Items : row[j].state = "sent" => row'[j] = row[j]
      BY <1>1, <1>5 DEF RowType, Scheduled, Attempted
<1>. QED BY <1>2, <1>3, <1>4, <1>5 DEF RowStep

\* What a run remembers of the attempts only shrinks, but when a list is read.
LEMMA SeenStep ==
    ASSUME TypeOK, [Next]_vars, NEW s \in Slots, NEW i \in Items
    PROVE  run'[s].seen[i] \in {0, run[s].seen[i], row[i].attempts}
<1>1. run \in [Slots -> RunType]
      BY Typed
<1>2. ASSUME NEW t \in Slots, NEW j \in Items, Drop(t, j)
      PROVE  run'[s].seen[i] \in {0, run[s].seen[i]}
      BY <1>1, <1>2, RestTyped DEF Drop
<1>3. ASSUME NEW t \in Slots, NEW list, Begin(t, list)
      PROVE  run'[s].seen[i] \in {0, run[s].seen[i], row[i].attempts}
      BY <1>1, <1>3 DEF Begin, RunType
<1>4. ASSUME NEW t \in Slots, Prepare(t)
      PROVE  run'[s].seen[i] \in {0, run[s].seen[i]}
  <2>1. PICK j \in run[t].todo : HandOver(t, j) \/ Drop(t, j)
        BY <1>4 DEF Prepare
  <2>2. j \in Items
        BY <1>1 DEF RunType
  <2>3. CASE HandOver(t, j)
        BY <1>1, <2>3 DEF HandOver
  <2>. QED BY <1>2, <2>1, <2>2, <2>3
<1>5. ASSUME NEW t \in Slots, Answer(t) PROVE run'[s].seen[i] = run[s].seen[i]
  <2>1. \E pc \in {"accepted", "failed"} : run' = [run EXCEPT ![t].pc = pc]
        BY <1>5 DEF Answer
  <2>. QED BY <1>1, <2>1 DEF RunType
<1>6. ASSUME NEW t \in Slots, RecordSuccess(t) \/ RecordError(t)
      PROVE  run'[s].seen[i] \in {0, run[s].seen[i]}
      BY <1>2, <1>6, InHand DEF RecordSuccess, RecordError
<1>7. ASSUME Crash PROVE run'[s].seen[i] = 0
      BY <1>7 DEF Crash, Idle
<1>. QED BY <1>3, <1>4, <1>5, <1>6, <1>7
         DEF Next, Continue, StartBatch, StartRetry, Withdraw, FallDue, vars, Slots

LEMMA ScheduledInit == Init => Scheduled
BY DEF Init, Scheduled, Idle

LEMMA ScheduledNext ==
    ASSUME TypeOK, Scheduled, [Next]_vars
    PROVE  Scheduled'
<1>1. CASE Items = {}
      BY <1>1 DEF Scheduled
<1>2. CASE Items # {}
  <2>1. PICK i \in Items : RowStep(i)
        BY <1>2, RowSteps
  <2>2. ASSUME NEW s \in Slots, NEW j \in Items
        PROVE  run'[s].seen[j] <= row'[j].attempts
    <3>1. row[j].attempts <= row'[j].attempts
          BY <2>1, RowStepFacts
    <3>2. run[s] \in RunType /\ row[j] \in RowType /\ row'[j] \in RowType
          BY NextTyped, Typed DEF TypeOK, RowType
    <3>3. run[s].seen[j] <= row[j].attempts
          BY DEF Scheduled
    <3>. QED BY <3>1, <3>2, <3>3, SeenStep DEF RowType, RunType
  <2>. QED BY <2>1, <2>2, RowStepFacts DEF Scheduled
<1>. QED BY <1>1, <1>2

(* No step of any run rewrites the record of a mail that was sent, however  *)
(* the batches and the sweeps overlap (the AND sent_at IS NULL of           *)
(* recordError and recordSuccess).                                          *)
THEOREM MailingSentIsFinal == Spec => SentIsFinal
<1>1. Init => TypeOK /\ Scheduled
      BY InitTyped, ScheduledInit
<1>2. TypeOK /\ Scheduled /\ [Next]_vars => (TypeOK /\ Scheduled)'
      BY NextTyped, ScheduledNext
<1>3. TypeOK /\ Scheduled /\ [Next]_vars
          => [\A i \in Items : row[i].state = "sent" => row'[i] = row[i]]_vars
      BY RowSteps, RowStepFacts
<1>. QED BY <1>1, <1>2, <1>3, PTL DEF Spec, SentIsFinal
-----------------------------------------------------------------------------
(* A mail is repeated only where two runs had it, or an answer was lost. *)

Clean(i) == i \in Items /\ i \notin contended \cup struck

\* A mail without such a cause is on one list at most and goes out once: its one
\* copy is on record or is about to be, and no run has a mail that is on record.
OneSender ==
    \A i \in Items : Clean(i) =>
        /\ \A s, t \in Slots : OnList(s, i) /\ OnList(t, i) => s = t
        /\ \A s \in Slots : OnList(s, i) => row[i].state # "sent"
        /\ copies[i] \in {0, 1}
        /\ copies[i] = 1 => \/ row[i].state = "sent"
                            \/ \E s \in Slots : run[s].cur = i /\ run[s].pc = "accepted"

LEMMA OneSenderInit == Init => OneSender
BY MailingAssumption DEF Init, OneSender, OnList, Idle, Items

LEMMA OneSenderBegin ==
    ASSUME TypeOK, OneSender, NEW s \in Slots, NEW list \in SUBSET Items,
           \A i \in list : row[i].state # "sent",
           run[s].pc = "idle", Begin(s, list)
    PROVE  OneSender'
<1>. SUFFICES ASSUME NEW i \in Items, Clean(i)'
              PROVE  /\ \A t, u \in Slots : OnList(t, i)' /\ OnList(u, i)' => t = u
                     /\ \A t \in Slots : OnList(t, i)' => row'[i].state # "sent"
                     /\ copies'[i] \in {0, 1}
                     /\ copies'[i] = 1 =>
                            \/ row'[i].state = "sent"
                            \/ \E t \in Slots : run'[t].cur = i /\ run'[t].pc = "accepted"
     BY DEF OneSender
<1>1. /\ Clean(i)
      /\ UNCHANGED <<row, copies>>
      /\ i \in list => \A t \in Slots \ {s} : ~ OnList(t, i)
      BY DEF Begin, Clean
<1>2. run \in [Slots -> RunType]
      BY Typed
<1>3. \A t \in Slots \ {s} : run'[t] = run[t]
      BY <1>2 DEF Begin
<1>4. run'[s].todo = list /\ run'[s].cur = None
      BY <1>2 DEF Begin
<1>5. /\ \A t \in Slots \ {s} : OnList(t, i)' <=> OnList(t, i)
      /\ OnList(s, i)' <=> i \in list
      BY <1>3, <1>4, MailingAssumption DEF OnList, Items
<1>6. \A t \in Slots : run[t].cur = i /\ run[t].pc = "accepted" => t # s
      OBVIOUS
<1>. QED BY <1>1, <1>3, <1>5, <1>6 DEF OneSender

\* A step of one run that leaves it with no more on its list than before.
LEMMA OneSenderShrink ==
    ASSUME TypeOK, OneSender, NEW s \in Slots, NEW i \in Items, OnList(s, i),
           \A t \in Slots \ {s} : run'[t] = run[t],
           \A j \in Items : OnList(s, j)' => OnList(s, j),
           run[s].cur \in {i, None},
           \A j \in Items \ {i} : copies'[j] = copies[j] /\ row'[j] = row[j],
           contended' = contended, struck \subseteq struck',
           Clean(i)' => /\ OnList(s, i)' => row'[i].state # "sent"
                        /\ copies'[i] \in {0, 1}
                        /\ copies'[i] = 1 => \/ row'[i].state = "sent"
                                             \/ /\ run'[s].cur = i
                                                /\ run'[s].pc = "accepted"
    PROVE  OneSender'
<1>. SUFFICES ASSUME NEW j \in Items, Clean(j)'
              PROVE  /\ \A t, u \in Slots : OnList(t, j)' /\ OnList(u, j)' => t = u
                     /\ \A t \in Slots : OnList(t, j)' => row'[j].state # "sent"
                     /\ copies'[j] \in {0, 1}
                     /\ copies'[j] = 1 =>
                            \/ row'[j].state = "sent"
                            \/ \E t \in Slots : run'[t].cur = j /\ run'[t].pc = "accepted"
     BY DEF OneSender
<1>1. Clean(j)
      BY DEF Clean
<1>2. \A t \in Slots : OnList(t, j)' => OnList(t, j)
      BY DEF OnList
<1>3. \A t, u \in Slots : OnList(t, j)' /\ OnList(u, j)' => t = u
      BY <1>1, <1>2 DEF OneSender
<1>4. CASE j = i
  <2>1. \A t \in Slots : OnList(t, i)' => t = s
        BY <1>1, <1>2, <1>4 DEF OneSender
  <2>. QED BY <1>3, <1>4, <2>1
<1>5. CASE j # i
  <2>1. \A t \in Slots : run[t].cur = j /\ run[t].pc = "accepted" /\ t # s
            => run'[t].cur = j /\ run'[t].pc = "accepted"
        OBVIOUS
  <2>2. run[s].cur # j
        BY <1>5, MailingAssumption
  <2>. QED BY <1>1, <1>2, <1>3, <1>5, <2>1, <2>2 DEF OneSender
<1>. QED BY <1>4, <1>5

LEMMA OneSenderPrepare ==
    ASSUME TypeOK, OneSender, NEW s \in Slots, Prepare(s)
    PROVE  OneSender'
<1>1. /\ row \in [Items -> RowType] /\ run \in [Slots -> RunType]
      /\ run[s].pc = "pick" /\ run[s].cur = None
      BY Typed DEF Prepare
<1>2. PICK i \in run[s].todo :
          \/ /\ row' = [row EXCEPT ![i].state = IF @ = "none" THEN "open" ELSE @]
             /\ HandOver(s, i)
          \/ row' = row /\ Drop(s, i)
          \/ /\ row' = [row EXCEPT ![i] = Attempted(i, "open", "never", "nodata")]
             /\ Drop(s, i)
      BY DEF Prepare
<1>3. i \in Items /\ OnList(s, i)
      BY <1>1 DEF RunType, OnList
<1>4. UNCHANGED <<copies, contended, struck>>
      BY DEF Prepare
<1>5. \A t \in Slots \ {s} : run'[t] = run[t]
      BY <1>1, <1>2 DEF HandOver, Drop
<1>6. \A j \in Items : OnList(s, j)' => OnList(s, j)
  <2>1. CASE HandOver(s, i)
        BY <1>1, <1>3, <2>1 DEF HandOver, OnList
  <2>2. CASE Drop(s, i)
        BY <1>1, <1>3, <2>2, RestTyped, MailingAssumption DEF Drop, OnList
  <2>. QED BY <1>2, <2>1, <2>2
<1>7. \A j \in Items \ {i} : row'[j] = row[j]
      BY <1>1, <1>2
<1>8. ASSUME Clean(i)'
      PROVE  /\ row'[i].state # "sent"
             /\ copies'[i] \in {0, 1}
             /\ copies'[i] # 1
  <2>1. Clean(i) /\ row[i].state # "sent"
        BY <1>3, <1>4, <1>8 DEF Clean, OneSender
  <2>2. row'[i].state # "sent"
        BY <1>1, <1>2, <1>3, <2>1 DEF Attempted, RowType
  <2>3. copies[i] \in {0, 1}
        BY <2>1, <1>3 DEF OneSender
  <2>4. copies[i] # 1
    <3>1. SUFFICES ASSUME copies[i] = 1 PROVE FALSE
          OBVIOUS
    <3>2. PICK t \in Slots : run[t].cur = i /\ run[t].pc = "accepted"
          BY <1>3, <2>1, <3>1 DEF OneSender
    <3>3. OnList(t, i)
          BY <3>2 DEF OnList
    <3>4. t = s
          BY <1>3, <2>1, <3>3 DEF OneSender
    <3>. QED BY <1>1, <3>2, <3>4
  <2>. QED BY <1>4, <2>2, <2>3, <2>4
<1>. QED BY <1>1, <1>3, <1>4, <1>5, <1>6, <1>7, <1>8, OneSenderShrink

LEMMA OneSenderAnswer ==
    ASSUME TypeOK, OneSender, NEW s \in Slots, Answer(s)
    PROVE  OneSender'
<1>. PICK i \in Items : i = run[s].cur
     BY InHand DEF Answer
<1>1. /\ run \in [Slots -> RunType] /\ copies \in [Items -> Nat]
      /\ OnList(s, i) /\ run[s].pc = "sending"
      BY Typed, InHand DEF Answer, OnList
<1>2. UNCHANGED <<row, contended>> /\ struck \subseteq struck'
      BY DEF Answer
<1>3. PICK pc \in {"accepted", "failed"} : run' = [run EXCEPT ![s].pc = pc]
      BY DEF Answer
<1>4. /\ \A t \in Slots \ {s} : run'[t] = run[t]
      /\ run'[s].todo = run[s].todo /\ run'[s].cur = i
      BY <1>1, <1>3 DEF RunType
<1>5. \A j \in Items : OnList(s, j)' => OnList(s, j)
      BY <1>4 DEF OnList
<1>6. \A j \in Items \ {i} : copies'[j] = copies[j]
      BY <1>1 DEF Answer
<1>7. ASSUME Clean(i)'
      PROVE  /\ row'[i].state # "sent"
             /\ copies'[i] \in {0, 1}
             /\ copies'[i] = 1 => run'[s].pc = "accepted"
  <2>1. Clean(i) /\ row[i].state # "sent"
        BY <1>1, <1>2, <1>7 DEF Clean, OneSender
  <2>2. copies[i] = 0
    <3>1. SUFFICES ASSUME copies[i] = 1 PROVE FALSE
          BY <1>1, <2>1 DEF OneSender
    <3>2. PICK t \in Slots : run[t].cur = i /\ run[t].pc = "accepted"
          BY <1>1, <2>1, <3>1 DEF OneSender
    <3>3. t = s
          BY <1>1, <2>1, <3>2 DEF OneSender, OnList
    <3>. QED BY <1>1, <3>2, <3>3
  <2>3. CASE copies' = [copies EXCEPT ![i] = @ + 1] /\ run' = [run EXCEPT ![s].pc = "accepted"]
        BY <1>1, <1>2, <2>1, <2>2, <2>3 DEF RunType
  <2>4. CASE struck' = struck \cup {i}
        BY <1>7, <2>4 DEF Clean
  <2>5. CASE copies' = copies
        BY <1>2, <2>1, <2>2, <2>5
  <2>. QED BY <2>3, <2>4, <2>5 DEF Answer
<1>. QED BY <1>1, <1>2, <1>4, <1>5, <1>6, <1>7, OneSenderShrink

LEMMA OneSenderRecord ==
    ASSUME TypeOK, OneSender, NEW s \in Slots, RecordSuccess(s) \/ RecordError(s)
    PROVE  OneSender'
<1>. PICK i \in Items : i = run[s].cur
     BY InHand DEF RecordSuccess, RecordError
<1>1. /\ row \in [Items -> RowType] /\ run \in [Slots -> RunType]
      /\ OnList(s, i)
      BY Typed, InHand DEF RecordSuccess, RecordError, OnList
<1>2. Drop(s, i) /\ UNCHANGED <<copies, contended, struck>>
      BY DEF RecordSuccess, RecordError
<1>3. /\ \A t \in Slots \ {s} : run'[t] = run[t]
      /\ run'[s] = Rest(s, i)
      BY <1>1, <1>2 DEF Drop
<1>4. \A j \in Items : OnList(s, j)' => OnList(s, j)
      BY <1>1, <1>3, RestTyped, MailingAssumption DEF OnList
<1>5. ~ OnList(s, i)'
      BY <1>1, <1>3, RestTyped, MailingAssumption DEF OnList
<1>6. \A j \in Items \ {i} : row'[j] = row[j]
      BY <1>1 DEF RecordSuccess, RecordError
<1>7. ASSUME Clean(i)'
      PROVE  copies'[i] \in {0, 1} /\ (copies'[i] = 1 => row'[i].state = "sent")
  <2>1. Clean(i) /\ row[i].state # "sent" /\ copies[i] \in {0, 1}
        BY <1>1, <1>2, <1>7 DEF Clean, OneSender
  <2>2. CASE RecordSuccess(s)
        BY <1>1, <1>2, <2>1, <2>2 DEF RecordSuccess, Attempted, RowType
  <2>3. CASE RecordError(s)
    <3>1. SUFFICES ASSUME copies[i] = 1 PROVE FALSE
          BY <1>2, <2>1
    <3>2. PICK t \in Slots : run[t].cur = i /\ run[t].pc = "accepted"
          BY <1>1, <2>1, <3>1 DEF OneSender
    <3>3. t = s
          BY <1>1, <2>1, <3>2 DEF OneSender, OnList
    <3>. QED BY <2>3, <3>2, <3>3 DEF RecordError
  <2>. QED BY <2>2, <2>3
<1>. QED BY <1>1, <1>2, <1>3, <1>4, <1>5, <1>6, <1>7, OneSenderShrink

LEMMA OneSenderCrash ==
    ASSUME TypeOK, OneSender, Crash
    PROVE  OneSender'
<1>. SUFFICES ASSUME NEW i \in Items, Clean(i)'
              PROVE  /\ \A s \in Slots : ~ OnList(s, i)'
                     /\ copies'[i] \in {0, 1}
                     /\ copies'[i] = 1 => row'[i].state = "sent"
     BY DEF OneSender
<1>1. run' = [s \in Slots |-> Idle] /\ UNCHANGED <<row, contended>>
      BY DEF Crash
<1>2. \A s \in Slots : ~ OnList(s, i)'
      BY <1>1, IdleTyped, MailingAssumption DEF OnList
<1>3. \A s \in Slots : run[s].cur # i
  <2>1. \A s \in Slots : run[s].cur = i => run[s].pc # "idle"
        BY Typed, MailingAssumption
  <2>. QED BY <2>1, MailingAssumption DEF Crash, Clean
<1>4. Clean(i)
      BY DEF Crash, Clean
<1>5. copies'[i] = copies[i]
  <2>1. PICK landed \in SUBSET {s \in {t \in Slots : run[t].pc # "idle"} :
                                    run[s].pc = "sending"} :
            copies' = [j \in Items |->
                copies[j] + Cardinality({s \in landed : run[s].cur = j})]
        BY DEF Crash
  <2>2. {s \in landed : run[s].cur = i} = {}
        BY <1>3
  <2>3. Cardinality({s \in landed : run[s].cur = i}) = 0
        BY <2>2, FS_EmptySet
  <2>. QED BY <2>1, <2>3, Typed
<1>. QED BY <1>1, <1>2, <1>3, <1>4, <1>5 DEF OneSender

LEMMA OneSenderNext ==
    ASSUME TypeOK, OneSender, [Next]_vars
    PROVE  OneSender'
<1>1. ASSUME NEW s \in Batches, StartBatch(s) PROVE OneSender'
  <2>1. PICK job \in {Digests, Reviews} :
            Begin(s, {i \in job : row[i].state # "sent" /\ i \notin gone \cap Reviews})
        BY <1>1 DEF StartBatch
  <2>. DEFINE list == {i \in job : row[i].state # "sent" /\ i \notin gone \cap Reviews}
  <2>2. s \in Slots /\ run[s].pc = "idle" /\ list \in SUBSET Items
        BY <1>1 DEF Slots, Items, StartBatch
  <2>. QED BY <2>1, <2>2, OneSenderBegin
<1>2. ASSUME NEW s \in Retries, NEW job \in {Digests, Reviews}, StartRetry(s, job)
      PROVE  OneSender'
  <2>1. PICK list \in SUBSET Due(job) : Begin(s, list)
        BY <1>2 DEF StartRetry
  <2>2. /\ s \in Slots /\ run[s].pc = "idle" /\ list \in SUBSET Items
        /\ \A i \in list : row[i].state # "sent"
        BY <1>2 DEF Slots, Items, StartRetry, Due
  <2>. QED BY <2>1, <2>2, OneSenderBegin
<1>3. ASSUME NEW s \in Slots, Continue(s) PROVE OneSender'
      BY <1>3, OneSenderPrepare, OneSenderAnswer, OneSenderRecord DEF Continue
<1>4. ASSUME UNCHANGED <<run, copies, contended, struck>>,
             \A i \in Items : row'[i].state = row[i].state
      PROVE  OneSender'
      BY <1>4 DEF OneSender, OnList, Clean
<1>5. ASSUME NEW i \in Items, FallDue(i) PROVE OneSender'
      BY <1>4, <1>5, Typed DEF FallDue, RowType
<1>. QED BY <1>1, <1>2, <1>3, <1>4, <1>5, OneSenderCrash DEF Next, Withdraw, vars

(* Runs that follow one another never repeat a mail: a second copy needs two *)
(* runs that had the item at once or an answer that was lost, for any number *)
(* of batches, sweeps, items and faults.                                    *)
THEOREM MailingDuplicateHasCause == Spec => []DuplicateHasCause
<1>1. Init => TypeOK /\ OneSender
      BY InitTyped, OneSenderInit
<1>2. TypeOK /\ OneSender /\ [Next]_vars => (TypeOK /\ OneSender)'
      BY NextTyped, OneSenderNext
<1>3. TypeOK /\ OneSender => DuplicateHasCause
      BY DEF OneSender, DuplicateHasCause, Clean
<1>. QED BY <1>1, <1>2, <1>3, PTL DEF Spec
-----------------------------------------------------------------------------
(* No mail is dropped silently. *)

\* An open mail without a next attempt is given up or in the hands of a run.
Rescheduled ==
    \A i \in Items \ struck :
        row[i].state = "open" /\ row[i].next = "never"
            => GaveUp(i) \/ \E s \in Slots : run[s].cur = i

\* A step that lets go of item i at most, and leaves it sent, scheduled or given up.
LEMMA RescheduledStep ==
    ASSUME Rescheduled, NEW s \in Slots, NEW i \in Items,
           struck \subseteq struck', run[s].cur \in {i, None},
           \A t \in Slots \ {s} : run'[t] = run[t],
           \A j \in Items \ {i} : row'[j] = row[j],
           i \in struck' \/ run'[s].cur = i \/ GaveUp(i)'
               \/ row'[i].state # "open" \/ row'[i].next # "never"
    PROVE  Rescheduled'
<1>. SUFFICES ASSUME NEW j \in Items \ struck',
                     row'[j].state = "open" /\ row'[j].next = "never"
              PROVE  GaveUp(j)' \/ \E t \in Slots : run'[t].cur = j
     BY DEF Rescheduled
<1>1. CASE j = i
      BY <1>1
<1>2. CASE j # i
  <2>1. GaveUp(j) \/ \E t \in Slots : run[t].cur = j
        BY <1>2 DEF Rescheduled
  <2>2. \A t \in Slots : run[t].cur = j => run'[t].cur = j
        BY <1>2, MailingAssumption
  <2>. QED BY <1>2, <2>1, <2>2 DEF GaveUp
<1>. QED BY <1>1, <1>2

LEMMA RescheduledPrepare ==
    ASSUME TypeOK, Rescheduled, NEW s \in Slots, Prepare(s)
    PROVE  Rescheduled'
<1>1. /\ row \in [Items -> RowType] /\ run \in [Slots -> RunType]
      /\ run[s].pc = "pick" /\ run[s].cur = None
      BY Typed DEF Prepare
<1>2. PICK i \in run[s].todo :
          \/ /\ row' = [row EXCEPT ![i].state = IF @ = "none" THEN "open" ELSE @]
             /\ HandOver(s, i)
          \/ row' = row /\ Drop(s, i)
          \/ /\ row' = [row EXCEPT ![i] = Attempted(i, "open", "never", "nodata")]
             /\ Drop(s, i)
      BY DEF Prepare
<1>3. i \in Items /\ UNCHANGED struck
      BY <1>1 DEF RunType, Prepare
<1>4. \A t \in Slots \ {s} : run'[t] = run[t]
      BY <1>1, <1>2 DEF HandOver, Drop
<1>5. CASE HandOver(s, i) /\ row' = [row EXCEPT ![i].state = IF @ = "none" THEN "open" ELSE @]
  <2>1. run'[s].cur = i /\ \A j \in Items \ {i} : row'[j] = row[j]
        BY <1>1, <1>3, <1>5 DEF HandOver
  <2>. QED BY <1>1, <1>3, <1>4, <2>1, RescheduledStep
<1>6. CASE row' = row /\ Drop(s, i)
  <2>1. \A t \in Slots : run[t].cur \in Items => run'[t].cur = run[t].cur
        BY <1>1, <1>4, MailingAssumption
  <2>. QED BY <1>3, <1>6, <2>1 DEF Rescheduled, GaveUp
<1>7. CASE row' = [row EXCEPT ![i] = Attempted(i, "open", "never", "nodata")]
  <2>1. \A j \in Items \ {i} : row'[j] = row[j]
        BY <1>1, <1>7
  <2>2. GaveUp(i)' \/ row'[i].state # "open"
        BY <1>1, <1>3, <1>7 DEF GaveUp, Attempted
  <2>. QED BY <1>1, <1>3, <1>4, <2>1, <2>2, RescheduledStep
<1>. QED BY <1>2, <1>5, <1>6, <1>7

LEMMA RescheduledAnswer ==
    ASSUME TypeOK, Rescheduled, NEW s \in Slots, Answer(s)
    PROVE  Rescheduled'
<1>1. run \in [Slots -> RunType] /\ row' = row /\ struck \subseteq struck'
      BY Typed DEF Answer
<1>2. \A t \in Slots : run'[t].cur = run[t].cur
  <2>1. PICK pc \in {"accepted", "failed"} : run' = [run EXCEPT ![s].pc = pc]
        BY DEF Answer
  <2>. QED BY <1>1, <2>1 DEF RunType
<1>. QED BY <1>1, <1>2 DEF Rescheduled, GaveUp

LEMMA RescheduledRecord ==
    ASSUME TypeOK, Scheduled, Rescheduled, NEW s \in Slots,
           RecordSuccess(s) \/ RecordError(s)
    PROVE  Rescheduled'
<1>. PICK i \in Items : i = run[s].cur
     BY InHand DEF RecordSuccess, RecordError
<1>1. row \in [Items -> RowType] /\ run \in [Slots -> RunType]
      BY Typed
<1>2. Drop(s, i) /\ UNCHANGED struck
      BY DEF RecordSuccess, RecordError
<1>3. \A t \in Slots \ {s} : run'[t] = run[t]
      BY <1>1, <1>2 DEF Drop
<1>4. \A j \in Items \ {i} : row'[j] = row[j]
      BY <1>1 DEF RecordSuccess, RecordError
<1>5. CASE RecordSuccess(s)
  <2>1. row'[i].state # "open"
        BY <1>1, <1>5 DEF RecordSuccess, Attempted
  <2>. QED BY <1>2, <1>3, <1>4, <2>1, RescheduledStep
<1>6. CASE RecordError(s)
  <2>1. CASE row[i].state = "sent"
    <3>1. row'[i].state # "open"
          BY <1>1, <1>6, <2>1 DEF RecordError, Attempted
    <3>. QED BY <1>2, <1>3, <1>4, <3>1, RescheduledStep
  <2>2. CASE row[i].state # "sent" /\ Counted(s) < MaxAttempts
    <3>1. Counted(s) \in Nat
          BY CountedTyped
    <3>2. Backoff(Counted(s)) = "later"
          BY <2>2, <3>1, MailingAssumption DEF Backoff
    <3>3. row'[i].next = "later"
          BY <1>1, <1>6, <2>2, <3>2 DEF RecordError, Attempted
    <3>. QED BY <1>2, <1>3, <1>4, <3>3, RescheduledStep
  <2>3. CASE row[i].state # "sent" /\ ~ (Counted(s) < MaxAttempts)
    <3>1. /\ Counted(s) \in Nat /\ MaxAttempts \in Nat /\ MaxAttempts > 1
          /\ row[i].attempts \in Nat
          BY <1>1, CountedTyped, MailingAssumption DEF RowType
    <3>2. s \notin Batches
          BY <2>3, <3>1 DEF Counted
    <3>3. Counted(s) = run[s].seen[i] + 1
          BY <3>2 DEF Counted
    <3>4. run[s].seen[i] \in Nat /\ run[s].seen[i] <= row[i].attempts
          BY <1>1 DEF Scheduled, RunType
    <3>5. row[i].attempts + 1 >= MaxAttempts
          BY <2>3, <3>1, <3>3, <3>4
    <3>6. Backoff(Counted(s)) = "never"
          BY <2>3, <3>1 DEF Backoff
    <3>7. row'[i] = [state |-> "open", attempts |-> row[i].attempts + 1,
                     next |-> "never", error |-> "send"]
          BY <1>1, <1>6, <2>3, <3>6 DEF RecordError, Attempted
    <3>8. GaveUp(i)'
          BY <3>5, <3>7 DEF GaveUp
    <3>. QED BY <1>2, <1>3, <1>4, <3>8, RescheduledStep
  <2>. QED BY <2>1, <2>2, <2>3
<1>. QED BY <1>5, <1>6

LEMMA RescheduledNext ==
    ASSUME TypeOK, Scheduled, Rescheduled, [Next]_vars
    PROVE  Rescheduled'
<1>1. ASSUME NEW s \in Slots, NEW list, run[s].pc = "idle", Begin(s, list)
      PROVE  Rescheduled'
  <2>1. run \in [Slots -> RunType] /\ run[s].cur = None
        BY <1>1, Typed
  <2>2. \A t \in Slots : run'[t].cur = run[t].cur
        BY <1>1, <2>1 DEF Begin
  <2>. QED BY <1>1, <2>2 DEF Begin, Rescheduled, GaveUp
<1>2. ASSUME NEW s \in Slots, StartBatch(s) \/ \E job \in {Digests, Reviews} : StartRetry(s, job)
      PROVE  Rescheduled'
      BY <1>1, <1>2 DEF StartBatch, StartRetry
<1>3. ASSUME NEW s \in Slots, Continue(s) PROVE Rescheduled'
      BY <1>3, RescheduledPrepare, RescheduledAnswer, RescheduledRecord DEF Continue
<1>4. ASSUME NEW i \in Items, FallDue(i) PROVE Rescheduled'
  <2>1. row \in [Items -> RowType]
        BY Typed
  <2>. QED BY <1>4, <2>1 DEF FallDue, Rescheduled, GaveUp, RowType
<1>5. ASSUME Crash PROVE Rescheduled'
  <2>1. \A i \in Items, s \in Slots : run[s].cur = i => i \in struck'
    <3>1. \A i \in Items, s \in Slots : run[s].cur = i => run[s].pc # "idle"
          BY Typed, MailingAssumption
    <3>. QED BY <1>5, <3>1, MailingAssumption DEF Crash
  <2>2. UNCHANGED row /\ struck \subseteq struck'
        BY <1>5 DEF Crash
  <2>. QED BY <2>1, <2>2 DEF Rescheduled, GaveUp
<1>6. CASE UNCHANGED <<row, run, struck>>
      BY <1>6 DEF Rescheduled, GaveUp
<1>. QED BY <1>2, <1>3, <1>4, <1>5, <1>6 DEF Next, Withdraw, vars, Slots

(* A mail that was tried and not sent is scheduled again, given up for good  *)
(* or struck by a fault, whatever the overlap of batches and sweeps: the     *)
(* attempts a sweep counts from its list never run ahead of the row.         *)
THEOREM MailingNoSilentDrop == Spec => []NoSilentDrop
<1>1. Init => TypeOK /\ Scheduled /\ Rescheduled
      BY InitTyped, ScheduledInit DEF Init, Rescheduled
<1>2. TypeOK /\ Scheduled /\ Rescheduled /\ [Next]_vars
          => (TypeOK /\ Scheduled /\ Rescheduled)'
      BY NextTyped, ScheduledNext, RescheduledNext
<1>3. Rescheduled => NoSilentDrop
      BY DEF Rescheduled, NoSilentDrop
<1>. QED BY <1>1, <1>2, <1>3, PTL DEF Spec
=============================================================================
