------------------------------- MODULE Outbox -------------------------------
(***************************************************************************)
(* The transactional outbox of crates/platform-events: producers insert    *)
(* events inside their own database transaction, dispatchers claim rows    *)
(* under a lease, publish them from concurrent tasks and record the        *)
(* outcome, and consumers deduplicate redeliveries.                        *)
(*                                                                         *)
(* One row of outbox_events is a record.  Database time only matters       *)
(* through two differences, so the model keeps those and lets Tick shrink  *)
(* them: ttl is lease_expires_at - now(), Expired once it is negative, and *)
(* wait is available_at - now(), 0 once it has come.                       *)
(*                                                                         *)
(* A task is one iteration of the loop in dispatch_once: it waits for a    *)
(* permit of the dispatcher's semaphore, runs the publisher and then marks *)
(* the row.  It works on the copy of the row that its claim returned, so   *)
(* it carries the attempt number of that claim.  A task is joined while    *)
(* dispatch_once still holds its handle.                                   *)
(***************************************************************************)
EXTENDS Integers, FiniteSets

CONSTANTS Event,         \* outbox event identifiers
          Worker,        \* worker_id of each dispatcher
          Consumer,      \* consumer names of record_consumption
          EventId,       \* ids that consumers record: of events of the outbox or not
          Lease,         \* lease length, in ticks (30 s in OutboxDispatcher)
          MaxAttempts,   \* max_attempts of the dispatchers
          BatchSize,     \* batch_size of dispatch_once
          Concurrency,   \* permits of a dispatcher's semaphore
          NoWorker,      \* lease_owner IS NULL
          MaxFaults      \* bound: crashes, panics, lost statements, overrun leases explored

ASSUME OutboxAssumption ==
  /\ Lease \in Nat \ {0}
  /\ MaxAttempts \in Nat \ {0}
  /\ BatchSize \in Nat \ {0}
  /\ Concurrency \in Nat \ {0}
  /\ MaxFaults \in Nat
  /\ NoWorker \notin Worker

VARIABLES row,           \* outbox_events, with the rows of open transactions
          tasks,         \* the dispatchers' tasks
          call,          \* per dispatcher: state of its dispatch_once call
          log,           \* outbox_delivery_attempts
          sent,          \* history: events the publisher accepted, at least once
          consumed,      \* event_consumptions
          firsts,        \* history: how often record_consumption has answered true
          faults         \* history: faults so far, at most MaxFaults

vars == <<row, tasks, call, log, sent, consumed, firsts, faults>>

-----------------------------------------------------------------------------
Expired == -1

Status == {"none", "staged", "pending", "failed", "published", "dead_letter"}
Terminal == {"published", "dead_letter"}
Outcome == {"published", "retry", "dead_letter"}
Phase == {"waiting", "running", "delivered", "rejected"}

\* outbox_lease_pair of migration 0004: no expiry without an owner.
Row == {r \in [status   : Status,
               owner    : Worker \cup {NoWorker},
               ttl      : Expired..Lease,
               wait     : Nat,
               attempts : Nat] : r.owner = NoWorker => r.ttl = Expired}

Task == [worker  : Worker,
         event   : Event,
         attempt : Nat,
         phase   : Phase,
         joined  : BOOLEAN]

Delivery == [event : Event, attempt : Nat, worker : Worker, outcome : Outcome]

\* The column defaults of a row its transaction has just inserted.
FreshRow(status) ==
  [status |-> status, owner |-> NoWorker, ttl |-> Expired, wait |-> 0, attempts |-> 0]

Committed(e) == row[e].status \notin {"none", "staged"}

\* retry_delay_seconds: 2^(attempt - 1) with the exponent kept in 0..6, at most 60.
RetryDelay(attempt) ==
  LET delays == <<1, 2, 4, 8, 16, 32, 60>>
  IN  delays[IF attempt < 1 THEN 1 ELSE IF attempt > 7 THEN 7 ELSE attempt]

-----------------------------------------------------------------------------
(* Producers. *)

\* enqueue: the row is inserted in the caller's open transaction.
Enqueue(e) ==
  /\ row[e].status = "none"
  /\ row' = [row EXCEPT ![e] = FreshRow("staged")]
  /\ UNCHANGED <<tasks, call, log, sent, consumed, firsts, faults>>

\* The caller's transaction ends, with its mutation and its event or with neither.
CommitProducer(e) ==
  /\ row[e].status = "staged"
  /\ row' = [row EXCEPT ![e].status = "pending"]
  /\ UNCHANGED <<tasks, call, log, sent, consumed, firsts, faults>>

RollbackProducer(e) ==
  /\ row[e].status = "staged"
  /\ row' = [row EXCEPT ![e].status = "none"]
  /\ UNCHANGED <<tasks, call, log, sent, consumed, firsts, faults>>

-----------------------------------------------------------------------------
(* Claiming. *)

\* Mutant: a lease counts as expired at its last instant.
LeaseFreeTooEarly(r) == r.owner = NoWorker \/ r.ttl <= 0

LeaseFree(r) == r.owner = NoWorker \/ r.ttl = Expired

Claimable(e) ==
  /\ row[e].status \in {"pending", "failed"}
  /\ row[e].wait = 0
  /\ LeaseFree(row[e])

ClaimedRow(r, w) ==
  [status |-> "pending", owner |-> w, ttl |-> Lease, wait |-> r.wait,
   attempts |-> r.attempts + 1]

\* The statement of claim: at most BatchSize claimable rows.  Which of them is left open:
\* ORDER BY prefers the oldest, SKIP LOCKED passes over the rows another statement is
\* working on.
Leases(w, S) ==
  /\ S # {}
  /\ Cardinality(S) <= BatchSize
  /\ row' = [e \in Event |-> IF e \in S THEN ClaimedRow(row[e], w) ELSE row[e]]

\* The task for an event that claim has answered, with the attempt number it answered.
TaskFor(w, e) ==
  [worker |-> w, event |-> e, attempt |-> ClaimedRow(row[e], w).attempts,
   phase |-> "waiting", joined |-> TRUE]

\* claim at the start of dispatch_once.
Claim(w) ==
  /\ call[w] = "idle"
  /\ \E S \in SUBSET {e \in Event : Claimable(e)} :
       /\ Leases(w, S)
       /\ tasks' = tasks \cup {TaskFor(w, e) : e \in S}
  /\ call' = [call EXCEPT ![w] = "open"]
  /\ UNCHANGED <<log, sent, consumed, firsts, faults>>

\* The statement commits by itself; when its answer is lost dispatch_once ends with an
\* error and the rows are leased to nobody's knowledge.
ClaimLost(w) ==
  /\ call[w] = "idle"
  /\ faults < MaxFaults
  /\ \E S \in SUBSET {e \in Event : Claimable(e)} : Leases(w, S)
  /\ faults' = faults + 1
  /\ UNCHANGED <<tasks, call, log, sent, consumed, firsts>>

-----------------------------------------------------------------------------
(* The tasks of dispatch_once. *)

Holding(w) == {t \in tasks : t.worker = w /\ t.phase # "waiting"}

\* Mutant: an event waiting for a permit already counts against the semaphore.
PermitFreeCountsWaiters(w) == Cardinality({t \in tasks : t.worker = w}) < Concurrency

PermitFree(w) == Cardinality(Holding(w)) < Concurrency

Replace(t, phase) == (tasks \ {t}) \cup {[t EXCEPT !.phase = phase]}

\* The loop obtains a permit for an event and spawns its task.
Spawn(t) ==
  /\ t \in tasks
  /\ t.phase = "waiting"
  /\ PermitFree(t.worker)
  /\ tasks' = Replace(t, "running")
  /\ UNCHANGED <<row, call, log, sent, consumed, firsts, faults>>

\* publish answers Ok: the event has been handed over.
PublishOk(t) ==
  /\ t \in tasks
  /\ t.phase = "running"
  /\ tasks' = Replace(t, "delivered")
  /\ sent' = sent \cup {t.event}
  /\ UNCHANGED <<row, call, log, consumed, firsts, faults>>

\* publish answers Err; the event may have been handed over all the same.
PublishErr(t) ==
  /\ t \in tasks
  /\ t.phase = "running"
  /\ tasks' = Replace(t, "rejected")
  /\ sent' \in {sent, sent \cup {t.event}}
  /\ UNCHANGED <<row, call, log, consumed, firsts, faults>>

\* A task ends; an error it ends with is seen by the call that holds its handle.
End(t, error) ==
  /\ tasks' = tasks \ {t}
  /\ call' = IF error /\ t.joined THEN [call EXCEPT ![t.worker] = "failed"] ELSE call

\* UNIQUE (event_id, attempt) of outbox_delivery_attempts.
AttemptLogged(t) == \E d \in log : d.event = t.event /\ d.attempt = t.attempt

Logged(t, outcome) ==
  log \cup {[event |-> t.event, attempt |-> t.attempt, worker |-> t.worker,
             outcome |-> outcome]}

\* Mutant: the lease survives the outcome.
ReleasedKeepingLease(r, status, wait) == [r EXCEPT !.status = status, !.wait = wait]

\* Mutant: the expiry survives its owner.
ReleasedKeepingExpiry(r, status, wait) ==
  [r EXCEPT !.status = status, !.owner = NoWorker, !.wait = wait]

Released(r, status, wait) ==
  [status |-> status, owner |-> NoWorker, ttl |-> Expired, wait |-> wait,
   attempts |-> r.attempts]

\* Mutant: the row is updated by id alone.
OwnsById(t) == Committed(t.event)

\* The lease check of both marks: WHERE id = $1 AND lease_owner = $2.  It compares the
\* worker, not the attempt, and does not ask whether the lease has expired.
Owns(t) == row[t.event].owner = t.worker

\* Mutant: one attempt too many.
GivesUpLate(t) == t.attempt > MaxAttempts

\* dead_letter in mark_failed: it is the attempt number of the copy that counts.
GivesUp(t) == t.attempt >= MaxAttempts

\* Both marks: LeaseLost if the update touched no row, a database error and a rollback
\* if the attempt is already in the log.  The answer of a mark's commit may be lost.
MarkRefused(t) == ~Owns(t) \/ AttemptLogged(t)

MarkPublished(t) ==
  /\ t \in tasks
  /\ t.phase = "delivered"
  /\ IF MarkRefused(t) \/ row[t.event].status # "pending"
     THEN End(t, TRUE) /\ UNCHANGED <<row, log>>
     ELSE /\ \E lost \in BOOLEAN : End(t, lost)
          /\ row' = [row EXCEPT ![t.event] = Released(@, "published", @.wait)]
          /\ log' = Logged(t, "published")
  /\ UNCHANGED <<sent, consumed, firsts, faults>>

MarkFailed(t) ==
  /\ t \in tasks
  /\ t.phase = "rejected"
  /\ IF MarkRefused(t)
     THEN End(t, TRUE) /\ UNCHANGED <<row, log>>
     ELSE /\ \E lost \in BOOLEAN : End(t, lost)
          /\ row' = [row EXCEPT ![t.event] =
                       IF GivesUp(t) THEN Released(@, "dead_letter", @.wait)
                                     ELSE Released(@, "failed", RetryDelay(t.attempt))]
          /\ log' = Logged(t, IF GivesUp(t) THEN "dead_letter" ELSE "retry")
  /\ UNCHANGED <<sent, consumed, firsts, faults>>

\* dispatch_once returns: every handle has been awaited, or one of them gave an error
\* and the tasks that are left run on without anybody awaiting them.
Return(w) ==
  /\ call[w] # "idle"
  /\ \A t \in tasks : t.worker = w => t.phase # "waiting"
  /\ call[w] = "failed" \/ \A t \in tasks : t.worker = w => ~t.joined
  /\ call' = [call EXCEPT ![w] = "idle"]
  /\ tasks' = {IF t.worker = w THEN [t EXCEPT !.joined = FALSE] ELSE t : t \in tasks}
  /\ UNCHANGED <<row, log, sent, consumed, firsts, faults>>

-----------------------------------------------------------------------------
(* Faults, time and consumers. *)

\* A task ends with its event still leased: the publisher panics (DispatcherTaskFailed),
\* or a statement of a mark fails and its transaction is rolled back (or mark_failed will
\* not take the publisher's error code).
Breaks(t, phases) ==
  /\ t \in tasks
  /\ t.phase \in phases
  /\ faults < MaxFaults
  /\ faults' = faults + 1
  /\ End(t, TRUE)
  /\ UNCHANGED <<row, log, sent, consumed, firsts>>

Panic(t) == Breaks(t, {"running"})

MarkError(t) == Breaks(t, {"delivered", "rejected"})

\* The process of a dispatcher dies and starts again under the same worker_id.
Crash(w) ==
  /\ faults < MaxFaults
  /\ \E t \in tasks : t.worker = w
  /\ faults' = faults + 1
  /\ tasks' = {t \in tasks : t.worker # w}
  /\ call' = [call EXCEPT ![w] = "idle"]
  /\ UNCHANGED <<row, log, sent, consumed, firsts>>

Leased(e) == row[e].owner # NoWorker

\* Leases that the next tick lets expire under a task that is still at work.
Overrun == {e \in Event : /\ Leased(e)
                          /\ row[e].ttl = 0
                          /\ \E t \in tasks : /\ t.event = e
                                              /\ t.worker = row[e].owner
                                              /\ t.attempt = row[e].attempts}

Later(r) == [status   |-> r.status,
             owner    |-> r.owner,
             ttl      |-> IF r.ttl = Expired THEN Expired ELSE r.ttl - 1,
             wait     |-> IF r.wait = 0 THEN 0 ELSE r.wait - 1,
             attempts |-> r.attempts]

\* Database time advances.  A lease that runs out under its task is a fault.
Tick ==
  /\ row' = [e \in Event |-> Later(row[e])]
  /\ row' # row
  /\ faults' = IF Overrun = {} THEN faults ELSE faults + 1
  /\ faults' <= MaxFaults
  /\ UNCHANGED <<tasks, call, log, sent, consumed, firsts>>

\* Mutant: the statement's success is taken for an inserted row.
InsertsAlways(c, i) == TRUE

\* ON CONFLICT DO NOTHING: a row is inserted, and the answer true, unless there is one.
Inserts(c, i) == <<c, i>> \notin consumed

\* record_consumption, of any id: event_consumptions does not refer to outbox_events.  A
\* consumer that was interrupted, or gets an event again, records it again; an answer may
\* be lost.
RecordConsumption(c, i) ==
  /\ consumed' = consumed \cup {<<c, i>>}
  /\ \/ Inserts(c, i) /\ firsts' = [firsts EXCEPT ![<<c, i>>] = @ + 1]
     \/ UNCHANGED firsts
  /\ UNCHANGED <<row, tasks, call, log, sent, faults>>
-----------------------------------------------------------------------------
Init ==
  /\ row = [e \in Event |-> FreshRow("none")]
  /\ tasks = {}
  /\ call = [w \in Worker |-> "idle"]
  /\ log = {}
  /\ sent = {}
  /\ consumed = {}
  /\ firsts = [p \in Consumer \X EventId |-> 0]
  /\ faults = 0

Producer(e) == Enqueue(e) \/ CommitProducer(e) \/ RollbackProducer(e)

TaskStep(t) == Spawn(t) \/ PublishOk(t) \/ PublishErr(t) \/ MarkPublished(t) \/ MarkFailed(t)

Next ==
  \/ \E e \in Event : Producer(e)
  \/ \E w \in Worker : Claim(w) \/ ClaimLost(w) \/ Return(w) \/ Crash(w)
  \/ \E t \in tasks : TaskStep(t) \/ Panic(t) \/ MarkError(t)
  \/ \E c \in Consumer, i \in EventId : RecordConsumption(c, i)
  \/ Tick

Spec == Init /\ [][Next]_vars

\* The host keeps calling dispatch_once, the runtime keeps polling the tasks, the
\* publisher answers, database time goes on.  Nothing forces a producer to commit, a
\* fault to happen or a consumer to come.
Fairness ==
  /\ WF_vars(\E w \in Worker : Claim(w))
  /\ \A w \in Worker : WF_vars(Return(w))
  /\ \A w \in Worker : WF_vars(\E t \in tasks : t.worker = w /\ TaskStep(t))
  /\ WF_vars(Tick)

FairSpec == Spec /\ Fairness

-----------------------------------------------------------------------------
(* Properties. *)

\* Every variable has the shape the tables and the dispatcher give it; in particular the
\* check constraint outbox_lease_pair of migration 0004 never refuses an update.
TypeOK ==
  /\ row \in [Event -> Row]
  /\ tasks \subseteq Task
  /\ call \in [Worker -> {"idle", "open", "failed"}]
  /\ log \subseteq Delivery
  /\ sent \subseteq Event
  /\ consumed \subseteq Consumer \X EventId
  /\ firsts \in [Consumer \X EventId -> Nat]
  /\ faults \in 0..MaxFaults

\* The row and the delivery log tell the same story, whatever stale tasks did: an event
\* is published (or dead) in one place exactly if it is in the other, no event has two
\* final outcomes, and no attempt is logged twice, so the UNIQUE constraint under the
\* marks never fires (mark_published and mark_failed write both in one transaction).
LogAgreesWithRow ==
  /\ \A e \in Event, o \in Terminal :
       row[e].status = o <=> \E d \in log : d.event = e /\ d.outcome = o
  /\ \A d1, d2 \in log :
       d1.event = d2.event /\ (d1.attempt = d2.attempt \/ {d1.outcome, d2.outcome} \subseteq Terminal)
         => d1 = d2

\* A task that may still mark its event never finds its attempt in the log already: the
\* attempt number of a claim is used up by at most one task, even when two dispatchers
\* work on one event or one dispatcher claimed it twice.
AttemptsAreUnique ==
  /\ \A t \in tasks : ~AttemptLogged(t)
  /\ \A t1, t2 \in tasks :
       t1.event = t2.event /\ t1.attempt = t2.attempt
         => t1 = t2

\* max_attempts bounds the claims of an event, but only up to one more per fault, be it a
\* crash, a panic, a lost or failing statement or an overrun lease: claim never looks at
\* the number of attempts (claim, mark_failed).
AttemptsBounded == \A e \in Event : row[e].attempts <= MaxAttempts + faults

\* Attempts count what has happened to an event: one number per claim, and no more of them
\* than failures and faults account for.
AttemptsCount == AttemptsAreUnique /\ AttemptsBounded

\* While nothing crashes and every task ends within its lease, leases exclude: no event
\* has two tasks and the owner of a row is the worker of its task (claim, 30 s lease).
OneTaskWithoutFaults ==
  faults = 0 =>
    /\ \A t \in tasks : row[t.event].owner = t.worker /\ row[t.event].attempts = t.attempt
    /\ \A t1, t2 \in tasks : t1.event = t2.event => t1 = t2

\* A settled event stays as it was settled and is never leased again, although marks by
\* stale tasks and claims by other workers still arrive (claim, mark_published,
\* mark_failed; the last one does not look at the status).
SettledForGood ==
  [][\A e \in Event : row[e].status \in Terminal => row'[e].status = row[e].status
                                                 /\ ~Leased(e)']_vars

\* The outbox implements the delivery promise of EventDelivery: nothing is handed over
\* before its transaction committed, published implies handed over, settled is final
\* (enqueue: "the core outbox consistency invariant"), and of all who record an event for a
\* consumer, one at most is told to be the first (record_consumption: "true only for the
\* first successful consumption").
Ledger == [e \in Event |-> CASE row[e].status \in {"none", "staged"}    -> "absent"
                             [] row[e].status \in {"pending", "failed"} -> "open"
                             [] OTHER                                   -> row[e].status]

Promise == INSTANCE EventDelivery WITH ledger <- Ledger

ImplementsEventDelivery == Promise!Spec

\* With finitely many faults every committed event is published or buried in the end:
\* no crash, lost lease, error return or full semaphore strands it (dispatch_once).
EveryEventSettles == \A e \in Event : Committed(e) ~> row[e].status \in Terminal

\* No call of dispatch_once hangs, however the semaphore is shared with tasks that an
\* earlier call left behind.
EveryCallReturns == \A w \in Worker : call[w] # "idle" ~> call[w] = "idle"

\* Neither an event nor a call is stranded by an error return, a crash or a full semaphore.
NothingIsStranded == EveryEventSettles /\ EveryCallReturns
=============================================================================
