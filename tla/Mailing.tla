------------------------------- MODULE Mailing -------------------------------
(***************************************************************************)
(* The mail jobs with a dispatch table and a retry cron: the weekly digest   *)
(* (weeklyDigest.ts, radar_digests) and the monthly performance review       *)
(* (monthlyPerformanceReview.ts, monthly_review_dispatch).  An item is the   *)
(* mail of one tenant for one window, a row of its job's table.             *)
(*                                                                         *)
(* A batch is a cron firing or POST /admin/digest/run-now, a retry run one   *)
(* of the sweeps; nothing keeps runs from overlapping while they await       *)
(* Resend.  What runs between two awaits is split at every statement, since   *)
(* the process may die there.                                              *)
(***************************************************************************)
EXTENDS Integers, FiniteSets

CONSTANTS
    Digests, Reviews,    \* the items of the two jobs
    None,                \* no item in hand
    Batches, Retries,    \* run slots of the two kinds
    MaxAttempts,         \* MAX_ATTEMPTS
    PerRun,              \* LIMIT of a retry run
    MaxBatches,          \* bound on the batches started
    MaxFaults            \* bound on lost answers and crashes

Items == Digests \cup Reviews
Slots == Batches \cup Retries

ASSUME MailingAssumption ==
    /\ Digests \cap Reviews = {}
    /\ Batches \cap Retries = {}
    /\ None \notin Items
    /\ IsFiniteSet(Items) /\ IsFiniteSet(Slots)
    /\ MaxAttempts \in Nat \ {0, 1}
    /\ {PerRun, MaxBatches, MaxFaults} \subseteq Nat

VARIABLES
    row,         \* the dispatch tables
    run,         \* what each run has still to do, what it has in hand
    gone,        \* digests whose tenant unsubscribed or lost the digest, reviews
                 \* whose tenant or e-mail is gone
    started,     \* batches started so far
    faults,      \* faults met so far
    copies,      \* messages Resend accepted for each item
    contended,   \* items two live runs have had on their lists
    struck       \* items whose answer was lost, to a timeout or a crash

vars == <<row, run, gone, started, faults, copies, contended, struck>>

Idle == [pc |-> "idle", todo |-> {}, cur |-> None, seen |-> [i \in Items |-> 0]]

TypeOK ==
    /\ row \in [Items -> [state : {"none", "open", "sent"}, attempts : Nat,
                          next : {"never", "later", "due"},
                          error : {"none", "send", "nodata"}]]
    /\ run \in [Slots -> [pc : {"idle", "pick", "sending", "accepted", "failed"},
                          todo : SUBSET Items, cur : Items \cup {None},
                          seen : [Items -> Nat]]]
    /\ \A s \in Slots : run[s].cur = None <=> run[s].pc \in {"idle", "pick"}
    /\ \A s \in Retries : Cardinality(run[s].todo) <= PerRun
    /\ gone \subseteq Items
    /\ started \in 0 .. MaxBatches /\ faults \in 0 .. MaxFaults
    /\ copies \in [Items -> Nat]
    /\ contended \subseteq Items /\ struck \subseteq Items

Init ==
    /\ row = [i \in Items |-> [state |-> "none", attempts |-> 0,
                               next |-> "never", error |-> "none"]]
    /\ run = [s \in Slots |-> Idle]
    /\ gone = {} /\ contended = {} /\ struck = {}
    /\ started = 0 /\ faults = 0
    /\ copies = [i \in Items |-> 0]
-----------------------------------------------------------------------------
(* Starting a run: the list of items is read once. *)

OnList(s, i) == i \in run[s].todo \/ i = run[s].cur

Begin(s, list) ==
    /\ list # {}
    /\ run' = [run EXCEPT ![s] =
                  [pc |-> "pick", todo |-> list, cur |-> None,
                   seen |-> [i \in Items |-> IF i \in list /\ s \in Retries
                                             THEN row[i].attempts ELSE 0]]]
    /\ contended' = contended \cup {i \in list : \E o \in Slots \ {s} : OnList(o, i)}
    /\ UNCHANGED <<row, gone, faults, copies, struck>>

\* Mutant of StartBatch: the items already sent are not left out.
StartBatchAll(s) ==
    /\ run[s].pc = "idle"
    /\ started < MaxBatches
    /\ started' = started + 1
    /\ \E job \in {Digests, Reviews} : Begin(s, job)

\* sendAllDigests, sendAllPerformanceReviews: the reviews' tenants and e-mails are
\* read with the list.
StartBatch(s) ==
    /\ run[s].pc = "idle"
    /\ started < MaxBatches
    /\ started' = started + 1
    /\ \E job \in {Digests, Reviews} :
           Begin(s, {i \in job : row[i].state # "sent" /\ i \notin gone \cap Reviews})

Due(job) == {i \in job : row[i].state = "open" /\ row[i].next = "due"}

\* retryPendingDigests, retryPendingPerformanceReviews
StartRetry(s, job) ==
    /\ run[s].pc = "idle"
    /\ \E list \in SUBSET Due(job) :
           /\ Cardinality(list) <= PerRun
           /\ list = Due(job) \/ Cardinality(list) = PerRun
           /\ Begin(s, list)
    /\ UNCHANGED started
-----------------------------------------------------------------------------
(* One item after the other. *)

\* Every digest run and the review's retry run look at the tenant again; the review's
\* batch has read it with the list.
Buildable(s, i) == i \notin gone \/ (s \in Batches /\ i \in Reviews)

\* What is left of a run when it is done with item i.
Rest(s, i) == IF run[s].todo \subseteq {i} THEN Idle
              ELSE [run[s] EXCEPT !.pc = "pick", !.cur = None, !.todo = @ \ {i},
                                  !.seen[i] = 0]

\* The row of item i after one more attempt.  Every UPDATE of a dispatch row has
\* "AND sent_at IS NULL".
Attempted(i, state, next, error) ==
    IF row[i].state = "sent" THEN row[i]
    ELSE [state |-> state, attempts |-> row[i].attempts + 1,
          next |-> next, error |-> error]

Drop(s, i) == run' = [run EXCEPT ![s] = Rest(s, i)]

HandOver(s, i) ==
    run' = [run EXCEPT ![s] = [pc |-> "sending", todo |-> run[s].todo \ {i},
                               cur |-> i, seen |-> run[s].seen]]

\* Mutant of Prepare: a retry leaves a digest without data as it is.
PrepareSkip(s) ==
    /\ run[s].pc = "pick"
    /\ \E i \in run[s].todo :
          \/ /\ Buildable(s, i)
             /\ row' = [row EXCEPT ![i].state = IF @ = "none" THEN "open" ELSE @]
             /\ HandOver(s, i)
          \/ /\ ~ Buildable(s, i)
             /\ Drop(s, i)
             /\ UNCHANGED row
    /\ UNCHANGED <<gone, started, faults, copies, contended, struck>>

\* INSERT OR IGNORE and the call of sendEmail, or the skip of an item that cannot be
\* built: the digest's retry run records it, the review's leaves the row due.
Prepare(s) ==
    /\ run[s].pc = "pick"
    /\ \E i \in run[s].todo :
          \/ /\ Buildable(s, i)
             /\ row' = [row EXCEPT ![i].state = IF @ = "none" THEN "open" ELSE @]
             /\ HandOver(s, i)
          \/ /\ ~ Buildable(s, i)
             /\ s \in Batches \/ i \in Reviews
             /\ Drop(s, i)
             /\ UNCHANGED row
          \/ /\ ~ Buildable(s, i)
             /\ s \in Retries /\ i \in Digests
             /\ row' = [row EXCEPT ![i] = Attempted(i, "open", "never", "nodata")]
             /\ Drop(s, i)
    /\ UNCHANGED <<gone, started, faults, copies, contended, struck>>

\* Resend takes the message and says so, takes it and the answer is lost (the
\* ten-second timeout, a body that does not parse), or refuses it.
Answer(s) ==
    /\ run[s].pc = "sending"
    /\ \/ /\ copies' = [copies EXCEPT ![run[s].cur] = @ + 1]
          /\ run' = [run EXCEPT ![s].pc = "accepted"]
          /\ UNCHANGED <<faults, struck>>
       \/ /\ faults < MaxFaults
          /\ faults' = faults + 1
          /\ copies' = [copies EXCEPT ![run[s].cur] = @ + 1]
          /\ run' = [run EXCEPT ![s].pc = "failed"]
          /\ struck' = struck \cup {run[s].cur}
       \/ /\ run' = [run EXCEPT ![s].pc = "failed"]
          /\ UNCHANGED <<faults, copies, struck>>
    /\ UNCHANGED <<row, gone, started, contended>>

\* recordSuccess
RecordSuccess(s) ==
    LET i == run[s].cur IN
    /\ run[s].pc = "accepted"
    /\ row' = [row EXCEPT ![i] = Attempted(i, "sent", "never", "none")]
    /\ Drop(s, i)
    /\ UNCHANGED <<gone, started, faults, copies, contended, struck>>

\* The attempts a run counts: a batch always takes its attempt for the first,
\* a retry run counts on from the row as its list had it.
Counted(s) == IF s \in Batches THEN 1 ELSE run[s].seen[run[s].cur] + 1

\* Mutant of Backoff: the last slot of the table is skipped.
BackoffShort(n) == IF n >= MaxAttempts - 1 THEN "never" ELSE "later"

\* nextAttemptIso
Backoff(n) == IF n >= MaxAttempts THEN "never" ELSE "later"

\* Mutant of RecordError: "AND sent_at IS NULL" is missing.
RecordErrorAnyway(s) ==
    LET i == run[s].cur IN
    /\ run[s].pc = "failed"
    /\ row' = [row EXCEPT ![i] = [@ EXCEPT !.attempts = row[i].attempts + 1,
                                           !.next = Backoff(Counted(s)),
                                           !.error = "send"]]
    /\ Drop(s, i)
    /\ UNCHANGED <<gone, started, faults, copies, contended, struck>>

\* recordError
RecordError(s) ==
    LET i == run[s].cur IN
    /\ run[s].pc = "failed"
    /\ row' = [row EXCEPT ![i] = Attempted(i, "open", Backoff(Counted(s)), "send")]
    /\ Drop(s, i)
    /\ UNCHANGED <<gone, started, faults, copies, contended, struck>>
-----------------------------------------------------------------------------
(* The rest of the world. *)

\* GET /digest/unsubscribe/:token, a downgrade or an empty window for a digest; for a
\* review a tenant removed or left without an e-mail.  None of it is taken back.
Withdraw(i) ==
    /\ i \notin gone
    /\ gone' = gone \cup {i}
    /\ UNCHANGED <<row, run, started, faults, copies, contended, struck>>

\* next_attempt_at comes.
FallDue(i) ==
    /\ row[i].next = "later"
    /\ row' = [row EXCEPT ![i].next = "due"]
    /\ UNCHANGED <<run, gone, started, faults, copies, contended, struck>>

\* The server dies with every run in it; a message on its way may arrive.
Crash ==
    LET live    == {s \in Slots : run[s].pc # "idle"}
        sending == {s \in live : run[s].pc = "sending"}
    IN /\ faults < MaxFaults
       /\ live # {}
       /\ faults' = faults + 1
       /\ \E landed \in SUBSET sending :
             copies' = [i \in Items |->
                 copies[i] + Cardinality({s \in landed : run[s].cur = i})]
       /\ struck' = struck \cup ({run[s].cur : s \in live} \ {None})
       /\ run' = [s \in Slots |-> Idle]
       /\ UNCHANGED <<row, gone, started, contended>>
-----------------------------------------------------------------------------
Continue(s) ==
    \/ Prepare(s)
    \/ Answer(s)
    \/ RecordSuccess(s)
    \/ RecordError(s)

Next ==
    \/ \E s \in Batches : StartBatch(s)
    \/ \E s \in Retries, job \in {Digests, Reviews} : StartRetry(s, job)
    \/ \E s \in Slots : Continue(s)
    \/ \E i \in Items : Withdraw(i)
    \/ \E i \in Items : FallDue(i)
    \/ Crash

\* The two retry crons keep firing, neither waits for the other (that they share the
\* slots is this model's bound), runs come to their end, time passes.
Fairness ==
    /\ \A s \in Retries, job \in {Digests, Reviews} : SF_vars(StartRetry(s, job))
    /\ \A s \in Slots : WF_vars(Continue(s))
    /\ \A i \in Items : WF_vars(FallDue(i))

Spec == Init /\ [][Next]_vars /\ Fairness
-----------------------------------------------------------------------------
GaveUp(i) ==
    /\ row[i].state = "open"
    /\ row[i].next = "never"
    /\ row[i].attempts >= MaxAttempts \/ row[i].error = "nodata"

\* DUPLICATES HAVE A CAUSE.  A second copy of a mail goes out only when two live
\* runs had it on their lists at once, or when the answer to an earlier copy was
\* lost: runs that follow one another never repeat a mail.
DuplicateHasCause ==
    \A i \in Items : copies[i] > 1 => i \in contended \cup struck

\* NO SILENT DROP.  A mail that was tried, was not sent and is in no run's hands
\* is scheduled again, unless all its attempts are used up, its data is gone, or
\* a fault struck while it was under way.
NoSilentDrop ==
    \A i \in Items :
        /\ row[i].state = "open"
        /\ row[i].next = "never"
        /\ \A s \in Slots : run[s].cur # i
        => GaveUp(i) \/ i \in struck

\* SENT IS FINAL.  A run that was overtaken, and fails later, does not touch the
\* record of the mail the other run has sent.
SentIsFinal ==
    [][\A i \in Items : row[i].state = "sent" => row'[i] = row[i]]_vars

\* Reviews that cannot be sent stay due for ever; when they fill the LIMIT of a retry
\* run, which takes those longest due first, they keep the other reviews out of it.
Clogged == Cardinality(gone \cap Reviews) >= PerRun

\* EVERY MAIL SETTLES.  A mail that was tried is sent or given up in the end, as
\* the comment on the backoff table says, unless a fault struck it; a review also
\* needs its tenant, and a place that the reviews without one have left it.
EveryMailSettles ==
    \A i \in Items :
        row[i].state = "open" ~> \/ row[i].state = "sent"
                                 \/ GaveUp(i)
                                 \/ i \in struck
                                 \/ i \in Reviews /\ (i \in gone \/ Clogged)
=============================================================================
