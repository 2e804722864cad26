---------------------------- MODULE OutboxProofs ----------------------------
(***************************************************************************)
(* What holds of the outbox for any number of events, workers, permits,    *)
(* attempts and faults.                                                    *)
(***************************************************************************)
EXTENDS Outbox, FiniteSetTheorems, TLAPS

\* retry_delay_seconds always answers a number of seconds.
LEMMA RetryDelayType == \A a \in Nat : RetryDelay(a) \in Nat
<1>. SUFFICES ASSUME NEW a \in Nat PROVE RetryDelay(a) \in Nat
  OBVIOUS
<1>1. CASE a < 1
  BY <1>1 DEF RetryDelay
<1>2. CASE a > 7
  BY <1>2 DEF RetryDelay
<1>3. CASE a \in 1..7
  <2>1. a = 1 \/ a = 2 \/ a = 3 \/ a = 4 \/ a = 5 \/ a = 6 \/ a = 7
    BY <1>3
  <2>. QED  BY <2>1 DEF RetryDelay
<1>. QED  BY <1>1, <1>2, <1>3

\* Replacing a task by itself in another phase keeps the set of tasks well typed.
LEMMA ReplaceType ==
  ASSUME TypeOK, NEW t \in tasks, NEW p \in Phase
  PROVE  Replace(t, p) \subseteq Task
BY DEF TypeOK, Replace, Task

\* Releasing a row keeps it a row.
LEMMA ReleasedType ==
  ASSUME NEW r \in Row, NEW s \in Status, NEW n \in Nat
  PROVE  Released(r, s, n) \in Row
BY OutboxAssumption DEF OutboxAssumption, Released, Row, Expired

\* A claim keeps rows rows.
LEMMA LeasesType ==
  ASSUME TypeOK, NEW w \in Worker, NEW S, Leases(w, S)
  PROVE  row' \in [Event -> Row]
<1>1. \A e \in Event : ClaimedRow(row[e], w) \in Row
  BY OutboxAssumption DEF OutboxAssumption, TypeOK, Row, ClaimedRow, Status, Expired
<1>. QED  BY <1>1 DEF Leases, TypeOK

\* The type invariant is kept by every step.
LEMMA TypeStep == TypeOK /\ [Next]_vars => TypeOK'
<1>. SUFFICES ASSUME TypeOK, [Next]_vars PROVE TypeOK'
  OBVIOUS
<1>. USE OutboxAssumption DEF OutboxAssumption
<1>1. ASSUME NEW e \in Event, Producer(e) PROVE TypeOK'
  <2>1. CASE Enqueue(e)
    BY <2>1 DEF Enqueue, TypeOK, Row, FreshRow, Status, Expired
  <2>2. CASE CommitProducer(e)
    BY <2>2 DEF CommitProducer, TypeOK, Row, Status
  <2>3. CASE RollbackProducer(e)
    BY <2>3 DEF RollbackProducer, TypeOK, Row, Status
  <2>. QED  BY <1>1, <2>1, <2>2, <2>3 DEF Producer
<1>2. ASSUME NEW w \in Worker, Claim(w) PROVE TypeOK'
  <2>1. PICK S \in SUBSET {e \in Event : Claimable(e)} :
          /\ Leases(w, S)
          /\ tasks' = tasks \cup {TaskFor(w, e) : e \in S}
    BY <1>2 DEF Claim
  <2>2. \A e \in Event : ClaimedRow(row[e], w) \in Row
    BY DEF TypeOK, Row, ClaimedRow, Status, Expired
  <2>3. \A e \in Event : ClaimedRow(row[e], w).attempts \in Nat
    BY <2>2 DEF Row
  <2>4. row' \in [Event -> Row]
    BY <2>1, LeasesType
  <2>5. tasks' \subseteq Task
    <3>1. \A e \in S : TaskFor(w, e) \in Task
      BY <2>3 DEF TaskFor, Task, Phase
    <3>. QED  BY <2>1, <3>1 DEF TypeOK
  <2>. QED  BY <1>2, <2>4, <2>5 DEF Claim, TypeOK
<1>3. ASSUME NEW w \in Worker, Return(w) PROVE TypeOK'
  BY <1>3 DEF Return, TypeOK, Task
<1>4. ASSUME NEW w \in Worker, Crash(w) PROVE TypeOK'
  BY <1>4 DEF Crash, TypeOK
<1>5. ASSUME NEW t \in tasks, TaskStep(t) PROVE TypeOK'
  <2>0. t \in Task /\ t.event \in Event /\ t.worker \in Worker /\ t.attempt \in Nat
    BY DEF TypeOK, Task
  <2>1. CASE Spawn(t)
    BY <2>1, ReplaceType DEF Spawn, TypeOK, Phase
  <2>2. CASE PublishOk(t)
    BY <2>0, <2>2, ReplaceType DEF PublishOk, TypeOK, Phase
  <2>3. CASE PublishErr(t)
    BY <2>0, <2>3, ReplaceType DEF PublishErr, TypeOK, Phase
  <2>4. ASSUME NEW b \in BOOLEAN, End(t, b)
        PROVE  tasks' \subseteq Task /\ call' \in [Worker -> {"idle", "open", "failed"}]
    BY <2>0, <2>4 DEF End, TypeOK
  <2>5. ASSUME NEW o \in Outcome PROVE Logged(t, o) \subseteq Delivery
    BY <2>0 DEF Logged, TypeOK, Delivery
  <2>6. CASE MarkPublished(t)
    <3>1. Released(row[t.event], "published", row[t.event].wait) \in Row
      BY <2>0, ReleasedType DEF TypeOK, Status, Row
    <3>2. row' \in [Event -> Row] /\ log' \subseteq Delivery
      BY <2>0, <2>5, <2>6, <3>1 DEF MarkPublished, TypeOK, Outcome
    <3>3. tasks' \subseteq Task /\ call' \in [Worker -> {"idle", "open", "failed"}]
      BY <2>4, <2>6 DEF MarkPublished
    <3>. QED  BY <2>6, <3>2, <3>3 DEF MarkPublished, TypeOK
  <2>7. CASE MarkFailed(t)
    <3>1. /\ Released(row[t.event], "dead_letter", row[t.event].wait) \in Row
          /\ Released(row[t.event], "failed", RetryDelay(t.attempt)) \in Row
      BY <2>0, ReleasedType, RetryDelayType DEF TypeOK, Status, Row
    <3>2. row' \in [Event -> Row] /\ log' \subseteq Delivery
      BY <2>0, <2>5, <2>7, <3>1 DEF MarkFailed, TypeOK, Outcome
    <3>3. tasks' \subseteq Task /\ call' \in [Worker -> {"idle", "open", "failed"}]
      BY <2>4, <2>7 DEF MarkFailed
    <3>. QED  BY <2>7, <3>2, <3>3 DEF MarkFailed, TypeOK
  <2>. QED  BY <1>5, <2>1, <2>2, <2>3, <2>6, <2>7 DEF TaskStep
<1>6. ASSUME NEW t \in tasks, NEW phases, Breaks(t, phases) PROVE TypeOK'
  BY <1>6 DEF Breaks, End, TypeOK, Task
<1>7. ASSUME NEW c \in Consumer, NEW i \in EventId, RecordConsumption(c, i) PROVE TypeOK'
  BY <1>7 DEF RecordConsumption, TypeOK
<1>8. CASE Tick
  <2>1. \A r \in Row : Later(r) \in Row
    BY DEF Later, Row, Expired
  <2>. QED  BY <1>8, <2>1 DEF Tick, TypeOK
<1>9. CASE UNCHANGED vars
  BY <1>9 DEF vars, TypeOK
<1>10. ASSUME NEW w \in Worker, ClaimLost(w) PROVE TypeOK'
  BY <1>10, LeasesType DEF ClaimLost, TypeOK
<1>. QED
  BY <1>1, <1>2, <1>3, <1>4, <1>5, <1>6, <1>7, <1>8, <1>9, <1>10 DEF Next, Panic, MarkError

LEMMA TypeInit == Init => TypeOK
BY OutboxAssumption DEF OutboxAssumption, Init, TypeOK, Row, FreshRow, Status, Expired

\* The outbox is well typed, and a row without a lease has no expiry, for every choice
\* of the constants (outbox_events, outbox_delivery_attempts, OutboxDispatcher).
THEOREM TypeCorrect == Spec => []TypeOK
BY TypeInit, TypeStep, PTL DEF Spec

-----------------------------------------------------------------------------
(***************************************************************************)
(* The inductive invariant.  LogAgreesWithRow and AttemptsAreUnique are    *)
(* not inductive: a stale task could mark a row it does not own.  What     *)
(* rules that out is that a row has an owner only while it is pending      *)
(* (OwnedIsPending), that no attempt number exceeds the counter of its row *)
(* (AttemptsKnown), so a claim always draws a fresh one, and that a task   *)
(* reaches the phase "delivered" only by handing its event over            *)
(* (DeliveredIsSent).                                                      *)
(***************************************************************************)
OwnedIsPending == \A e \in Event : Leased(e) => row[e].status = "pending"

AttemptsKnown ==
  /\ \A t \in tasks : Committed(t.event) /\ t.attempt <= row[t.event].attempts
  /\ \A d \in log : Committed(d.event) /\ d.attempt <= row[d.event].attempts

DeliveredIsSent ==
  /\ \A t \in tasks : t.phase = "delivered" => t.event \in sent
  /\ \A e \in Event : row[e].status = "published" => e \in sent
  /\ \A e \in sent : Committed(e)

IInv ==
  /\ TypeOK
  /\ OwnedIsPending
  /\ AttemptsKnown
  /\ AttemptsAreUnique
  /\ LogAgreesWithRow
  /\ DeliveredIsSent

LEMMA IInvInit == Init => IInv
<1>. SUFFICES ASSUME Init PROVE IInv
  OBVIOUS
<1>1. TypeOK
  BY TypeInit
<1>. QED
  BY <1>1 DEF Init, IInv, OwnedIsPending, AttemptsKnown, AttemptsAreUnique, LogAgreesWithRow,
              DeliveredIsSent, Leased, FreshRow, Terminal, AttemptLogged

\* The claims of one statement draw attempt numbers nobody has used, and it does no harm if
\* nobody learns of them.
LEMMA LeasesStep ==
  ASSUME IInv, TypeOK', NEW w \in Worker, NEW S \in SUBSET {e \in Event : Claimable(e)},
         Leases(w, S), tasks' \subseteq tasks \cup {TaskFor(w, e) : e \in S},
         log' = log, sent' = sent
  PROVE  IInv'
<1>. DEFINE New(e) == [worker |-> w, event |-> e, attempt |-> ClaimedRow(row[e], w).attempts,
                       phase |-> "waiting", joined |-> TRUE]
<1>1. /\ row' = [e \in Event |-> IF e \in S THEN ClaimedRow(row[e], w) ELSE row[e]]
      /\ tasks' \subseteq tasks \cup {New(e) : e \in S}
  BY DEF Leases, TaskFor
<1>2. log' = log /\ sent' = sent
  OBVIOUS
<1>3. \A e \in S : /\ row'[e].status = "pending"
                   /\ row[e].status \in {"pending", "failed"}
                   /\ row'[e].attempts = row[e].attempts + 1
                   /\ New(e).attempt = row[e].attempts + 1
                   /\ row[e].attempts \in Nat
  BY <1>1 DEF ClaimedRow, Claimable, IInv, TypeOK, Row
<1>4. \A e \in Event \ S : row'[e] = row[e]
  BY <1>1
<1>5. \A t \in tasks' : t \in tasks \/ \E e \in S : t = New(e)
  BY <1>1
<1>6. \A t \in tasks : t.event \in Event /\ t.attempt \in Nat
  BY DEF IInv, TypeOK, Task
<1>7. \A d \in log : d.event \in Event /\ d.attempt \in Nat
  BY DEF IInv, TypeOK, Delivery
<1>8. \A e \in Event : /\ row[e].attempts \in Nat
                       /\ row'[e].attempts \in Nat
                       /\ row[e].attempts <= row'[e].attempts
  BY <1>3, <1>4 DEF IInv, TypeOK, Row
<1>9. OwnedIsPending'
  BY <1>3, <1>4 DEF IInv, OwnedIsPending, Leased
<1>10. \A e \in Event : Committed(e) => Committed(e)'
  BY <1>3, <1>4 DEF Committed
<1>11. AttemptsKnown'
  <2>1. \A t \in tasks : Committed(t.event)' /\ t.attempt <= row'[t.event].attempts
    BY <1>6, <1>8, <1>10 DEF IInv, AttemptsKnown
  <2>2. \A e \in S : Committed(New(e).event)' /\ New(e).attempt <= row'[New(e).event].attempts
    BY <1>3 DEF Committed
  <2>3. \A d \in log : Committed(d.event)' /\ d.attempt <= row'[d.event].attempts
    BY <1>7, <1>8, <1>10 DEF IInv, AttemptsKnown
  <2>. QED  BY <1>2, <1>5, <2>1, <2>2, <2>3 DEF AttemptsKnown
<1>12. \A e \in S : \A d \in log : ~(d.event = e /\ d.attempt = New(e).attempt)
  BY <1>3, <1>7 DEF IInv, AttemptsKnown
<1>13. \A e \in S : \A t \in tasks : ~(t.event = e /\ t.attempt = New(e).attempt)
  BY <1>3, <1>6 DEF IInv, AttemptsKnown
<1>14. AttemptsAreUnique'
  <2>1. \A t \in tasks' : ~AttemptLogged(t)'
    BY <1>2, <1>5, <1>12 DEF IInv, AttemptsAreUnique, AttemptLogged
  <2>2. ASSUME NEW t1 \in tasks', NEW t2 \in tasks',
               t1.event = t2.event, t1.attempt = t2.attempt
        PROVE  t1 = t2
    <3>1. CASE t1 \in tasks /\ t2 \in tasks
      BY <2>2, <3>1 DEF IInv, AttemptsAreUnique
    <3>2. ASSUME NEW e \in S, t1 = New(e) PROVE t1 = t2
      BY <1>5, <1>13, <2>2, <3>2
    <3>3. ASSUME NEW e \in S, t2 = New(e) PROVE t1 = t2
      BY <1>5, <1>13, <2>2, <3>3
    <3>. QED  BY <1>5, <3>1, <3>2, <3>3
  <2>. QED  BY <2>1, <2>2 DEF AttemptsAreUnique
<1>15. LogAgreesWithRow'
  <2>1. \A e \in Event, o \in Terminal : row'[e].status = o <=> row[e].status = o
    BY <1>3, <1>4 DEF Terminal
  <2>. QED  BY <1>2, <2>1 DEF IInv, LogAgreesWithRow
<1>16. DeliveredIsSent'
  BY <1>2, <1>3, <1>4, <1>5, <1>10 DEF IInv, DeliveredIsSent, TypeOK
<1>. QED  BY <1>9, <1>11, <1>14, <1>15, <1>16 DEF IInv

\* Steps that touch neither rows nor log, and at most drop tasks, rename their handles or
\* move one of them to another phase, keep the invariant if they keep DeliveredIsSent.
LEMMA TasksOnlyStep ==
  ASSUME IInv, TypeOK', row' = row, log' = log, DeliveredIsSent',
         AttemptsAreUnique',
         \A t \in tasks' : \E u \in tasks : t.event = u.event /\ t.attempt = u.attempt
  PROVE  IInv'
<1>1. AttemptsKnown'
  BY DEF IInv, AttemptsKnown, Committed
<1>2. OwnedIsPending' /\ LogAgreesWithRow'
  BY DEF IInv, OwnedIsPending, LogAgreesWithRow, Leased
<1>. QED  BY <1>1, <1>2 DEF IInv

\* A task that moves to another phase stays the only one of its attempt.
LEMMA ReplaceStep ==
  ASSUME IInv, TypeOK', row' = row, log' = log, NEW t \in tasks, NEW p \in Phase,
         tasks' = Replace(t, p), DeliveredIsSent'
  PROVE  IInv'
<1>. DEFINE new == [t EXCEPT !.phase = p]
<1>1. new.event = t.event /\ new.attempt = t.attempt
  BY DEF IInv, TypeOK, Task
<1>2. \A u \in tasks' : u = new \/ (u \in tasks /\ u # t)
  BY DEF Replace
<1>. HIDE DEF new
<1>3. AttemptsAreUnique'
  <2>1. \A u \in tasks' : ~AttemptLogged(u)'
    BY <1>1, <1>2 DEF IInv, AttemptsAreUnique, AttemptLogged
  <2>2. ASSUME NEW u \in tasks', NEW v \in tasks',
               u.event = v.event, u.attempt = v.attempt
        PROVE  u = v
    BY <1>1, <1>2, <2>2 DEF IInv, AttemptsAreUnique
  <2>. QED  BY <2>1, <2>2 DEF AttemptsAreUnique
<1>4. \A u \in tasks' : \E v \in tasks : u.event = v.event /\ u.attempt = v.attempt
  BY <1>1, <1>2
<1>. QED  BY <1>3, <1>4, TasksOnlyStep

\* A task that ends without touching the row leaves the invariant alone.
LEMMA DropStep ==
  ASSUME IInv, TypeOK', row' = row, log' = log, sent' = sent, tasks' \subseteq tasks
  PROVE  IInv'
<1>1. AttemptsAreUnique'
  BY DEF IInv, AttemptsAreUnique, AttemptLogged
<1>2. DeliveredIsSent'
  BY DEF IInv, DeliveredIsSent, Committed
<1>. QED  BY <1>1, <1>2, TasksOnlyStep

\* A mark that goes through: the row is settled or failed, the attempt is logged and the
\* task is gone.
LEMMA MarkStep ==
  ASSUME IInv, TypeOK', NEW t \in tasks, NEW o \in Outcome, NEW n \in Nat,
         NEW s \in Status, row[t.event].status = "pending", ~AttemptLogged(t),
         s = (IF o = "retry" THEN "failed" ELSE o),
         o = "published" => t.phase = "delivered",
         row' = [row EXCEPT ![t.event] = Released(@, s, n)],
         log' = Logged(t, o), tasks' = tasks \ {t}, sent' = sent
  PROVE  IInv'
<1>. DEFINE e == t.event
            new == [event |-> t.event, attempt |-> t.attempt, worker |-> t.worker, outcome |-> o]
<1>1. e \in Event /\ t.attempt \in Nat
  BY DEF IInv, TypeOK, Task
<1>2. /\ row'[e].status = s
      /\ row'[e].owner = NoWorker
      /\ row'[e].attempts = row[e].attempts
      /\ \A f \in Event \ {e} : row'[f] = row[f]
  BY <1>1 DEF Released, IInv, TypeOK
<1>3. \A d \in log' : d = new \/ d \in log
  BY DEF Logged
<1>4. new \in log' /\ log \subseteq log'
  BY DEF Logged
<1>5. s \in {"published", "failed", "dead_letter"} /\ (s \in Terminal => s = o) /\ (o \in Terminal => s = o)
  BY DEF Outcome, Terminal
<1>6. OwnedIsPending'
  BY <1>2 DEF IInv, OwnedIsPending, Leased
<1>7. \A f \in Event : (Committed(f) => Committed(f)') /\ row'[f].attempts = row[f].attempts
  BY <1>2, <1>5 DEF Committed
<1>8. AttemptsKnown'
  <2>1. \A u \in tasks' : Committed(u.event)' /\ u.attempt <= row'[u.event].attempts
    BY <1>7 DEF IInv, AttemptsKnown, TypeOK, Task
  <2>2. \A d \in log : Committed(d.event)' /\ d.attempt <= row'[d.event].attempts
    BY <1>7 DEF IInv, AttemptsKnown, TypeOK, Delivery
  <2>3. Committed(new.event)' /\ new.attempt <= row'[new.event].attempts
    BY <1>1, <1>7 DEF IInv, AttemptsKnown
  <2>. QED  BY <1>3, <2>1, <2>2, <2>3 DEF AttemptsKnown
<1>9. AttemptsAreUnique'
  BY <1>3 DEF IInv, AttemptsAreUnique, AttemptLogged
<1>10. \A d \in log : d.event = e => d.outcome \notin Terminal
  BY <1>1 DEF IInv, LogAgreesWithRow, Terminal
<1>11. LogAgreesWithRow'
  <2>1. ASSUME NEW f \in Event, NEW q \in Terminal
        PROVE  row'[f].status = q <=> \E d \in log' : d.event = f /\ d.outcome = q
    <3>1. CASE f = e
      BY <1>1, <1>2, <1>3, <1>4, <1>5, <1>10, <3>1
    <3>2. CASE f # e
      BY <1>2, <1>3, <1>4, <3>2 DEF IInv, LogAgreesWithRow
    <3>. QED  BY <3>1, <3>2
  <2>2. ASSUME NEW d1 \in log', NEW d2 \in log', d1.event = d2.event,
               d1.attempt = d2.attempt \/ {d1.outcome, d2.outcome} \subseteq Terminal
        PROVE  d1 = d2
    BY <1>3, <1>10, <2>2 DEF IInv, LogAgreesWithRow, AttemptLogged
  <2>. QED  BY <2>1, <2>2 DEF LogAgreesWithRow
<1>12. DeliveredIsSent'
  BY <1>1, <1>2, <1>5, <1>7 DEF IInv, DeliveredIsSent, TypeOK, Terminal
<1>. QED  BY <1>6, <1>8, <1>9, <1>11, <1>12 DEF IInv

LEMMA IInvStep == IInv /\ [Next]_vars => IInv'
<1>. SUFFICES ASSUME IInv, [Next]_vars PROVE IInv'
  OBVIOUS
<1>0. TypeOK /\ TypeOK'
  BY TypeStep DEF IInv
<1>1. ASSUME NEW e \in Event, Producer(e) PROVE IInv'
  <2>1. /\ row[e].status \in {"none", "staged"}
        /\ row'[e].status \in {"none", "staged", "pending"}
        /\ row'[e].owner = NoWorker
        /\ \A f \in Event \ {e} : row'[f] = row[f]
    BY <1>0, <1>1 DEF Producer, Enqueue, CommitProducer, RollbackProducer, FreshRow, TypeOK,
                      IInv, OwnedIsPending, Leased, Row
  <2>2. tasks' = tasks /\ log' = log /\ sent' = sent
    BY <1>1 DEF Producer, Enqueue, CommitProducer, RollbackProducer
  <2>3. /\ \A t \in tasks : t.event \in Event \ {e}
        /\ \A d \in log : d.event \in Event \ {e}
        /\ e \notin sent
    BY <1>0, <2>1 DEF IInv, AttemptsKnown, DeliveredIsSent, Committed, TypeOK, Task, Delivery
  <2>4. OwnedIsPending'
    BY <2>1 DEF IInv, OwnedIsPending, Leased
  <2>5. AttemptsKnown'
    BY <2>1, <2>2, <2>3 DEF IInv, AttemptsKnown, Committed
  <2>6. AttemptsAreUnique'
    BY <2>2 DEF IInv, AttemptsAreUnique, AttemptLogged
  <2>7. LogAgreesWithRow'
    BY <2>1, <2>2, <2>3 DEF IInv, LogAgreesWithRow, Terminal
  <2>8. DeliveredIsSent'
    BY <1>0, <2>1, <2>2, <2>3 DEF IInv, DeliveredIsSent, Committed, TypeOK
  <2>. QED  BY <1>0, <2>4, <2>5, <2>6, <2>7, <2>8 DEF IInv
<1>2. ASSUME NEW w \in Worker, Claim(w) PROVE IInv'
  BY <1>0, <1>2, LeasesStep DEF Claim
<1>3. ASSUME NEW w \in Worker, Return(w) PROVE IInv'
  <2>. DEFINE Detached(t) == IF t.worker = w THEN [t EXCEPT !.joined = FALSE] ELSE t
  <2>1. row' = row /\ log' = log /\ sent' = sent /\ tasks' = {Detached(t) : t \in tasks}
    BY <1>3 DEF Return
  <2>2. \A t \in tasks : /\ Detached(t).event = t.event
                         /\ Detached(t).attempt = t.attempt
                         /\ Detached(t).phase = t.phase
    BY <1>0 DEF TypeOK, Task
  <2>. HIDE DEF Detached
  <2>3. AttemptsAreUnique'
    <3>1. \A u \in tasks' : ~AttemptLogged(u)'
      BY <2>1, <2>2 DEF IInv, AttemptsAreUnique, AttemptLogged
    <3>2. ASSUME NEW u \in tasks', NEW v \in tasks', u.event = v.event, u.attempt = v.attempt
          PROVE  u = v
      BY <2>1, <2>2, <3>2 DEF IInv, AttemptsAreUnique
    <3>. QED  BY <3>1, <3>2 DEF AttemptsAreUnique
  <2>4. DeliveredIsSent'
    BY <2>1, <2>2 DEF IInv, DeliveredIsSent, Committed
  <2>. QED  BY <1>0, <2>1, <2>2, <2>3, <2>4, TasksOnlyStep
<1>4. ASSUME NEW w \in Worker, Crash(w) PROVE IInv'
  BY <1>0, <1>4, DropStep DEF Crash
<1>5. ASSUME NEW t \in tasks, TaskStep(t) PROVE IInv'
  <2>0. t.event \in Event /\ Committed(t.event) /\ t.attempt \in Nat
    BY <1>0 DEF TypeOK, Task, IInv, AttemptsKnown
  <2>1. CASE Spawn(t)
    <3>1. \A u \in tasks' : u.phase = "delivered" => u \in tasks
      BY <1>0, <2>1 DEF Spawn, Replace, TypeOK, Task
    <3>2. DeliveredIsSent'
      BY <2>1, <3>1 DEF Spawn, IInv, DeliveredIsSent, Committed
    <3>. QED  BY <1>0, <2>1, <3>2, ReplaceStep DEF Spawn, Phase
  <2>2. CASE PublishOk(t)
    <3>1. \A u \in tasks' : u.event = t.event \/ u \in tasks
      BY <1>0, <2>2 DEF PublishOk, Replace, TypeOK, Task
    <3>2. DeliveredIsSent'
      BY <2>0, <2>2, <3>1 DEF PublishOk, IInv, DeliveredIsSent, Committed
    <3>. QED  BY <1>0, <2>2, <3>2, ReplaceStep DEF PublishOk, Phase
  <2>3. CASE PublishErr(t)
    <3>1. \A u \in tasks' : u.phase = "delivered" => u \in tasks
      BY <1>0, <2>3 DEF PublishErr, Replace, TypeOK, Task
    <3>2. DeliveredIsSent'
      BY <2>0, <2>3, <3>1 DEF PublishErr, IInv, DeliveredIsSent, Committed
    <3>. QED  BY <1>0, <2>3, <3>2, ReplaceStep DEF PublishErr, Phase
  <2>4. CASE MarkPublished(t)
    <3>1. CASE MarkRefused(t) \/ row[t.event].status # "pending"
      BY <1>0, <2>4, <3>1, DropStep DEF MarkPublished, End
    <3>2. CASE ~(MarkRefused(t) \/ row[t.event].status # "pending")
      BY <1>0, <2>0, <2>4, <3>2, MarkStep
         DEF MarkPublished, End, MarkRefused, Outcome, Status, TypeOK, Row
    <3>. QED  BY <3>1, <3>2
  <2>5. CASE MarkFailed(t)
    <3>1. CASE MarkRefused(t)
      BY <1>0, <2>5, <3>1, DropStep DEF MarkFailed, End
    <3>2. CASE ~MarkRefused(t)
      <4>1. row[t.event].status = "pending"
        BY <1>0, <2>0, <3>2, OutboxAssumption
           DEF MarkRefused, Owns, IInv, OwnedIsPending, Leased, TypeOK, Task, OutboxAssumption
      <4>2. CASE GivesUp(t)
        BY <1>0, <2>0, <2>5, <3>2, <4>1, <4>2, MarkStep
           DEF MarkFailed, End, MarkRefused, Outcome, Status, TypeOK, Row
      <4>3. CASE ~GivesUp(t)
        BY <1>0, <2>0, <2>5, <3>2, <4>1, <4>3, MarkStep, RetryDelayType
           DEF MarkFailed, End, MarkRefused, Outcome, Status
      <4>. QED  BY <4>2, <4>3
    <3>. QED  BY <3>1, <3>2
  <2>. QED  BY <1>5, <2>1, <2>2, <2>3, <2>4, <2>5 DEF TaskStep
<1>6. ASSUME NEW t \in tasks, NEW phases, Breaks(t, phases) PROVE IInv'
  BY <1>0, <1>6, DropStep DEF Breaks, End
<1>7. ASSUME NEW c \in Consumer, NEW i \in EventId, RecordConsumption(c, i) PROVE IInv'
  BY <1>0, <1>7, DropStep DEF RecordConsumption
<1>8. CASE Tick
  <2>1. \A e \in Event : /\ row'[e].status = row[e].status
                         /\ row'[e].owner = row[e].owner
                         /\ row'[e].attempts = row[e].attempts
    BY <1>8 DEF Tick, Later
  <2>2. tasks' = tasks /\ log' = log /\ sent' = sent
    BY <1>8 DEF Tick
  <2>3. OwnedIsPending' /\ LogAgreesWithRow' /\ AttemptsAreUnique'
    BY <2>1, <2>2 DEF IInv, OwnedIsPending, Leased, LogAgreesWithRow, AttemptsAreUnique,
                      AttemptLogged
  <2>4. AttemptsKnown' /\ DeliveredIsSent'
    BY <1>0, <2>1, <2>2 DEF IInv, AttemptsKnown, DeliveredIsSent, Committed, TypeOK, Task, Delivery
  <2>. QED  BY <1>0, <2>3, <2>4 DEF IInv
<1>9. CASE UNCHANGED vars
  BY <1>0, <1>9, DropStep DEF vars
<1>10. ASSUME NEW w \in Worker, ClaimLost(w) PROVE IInv'
  BY <1>0, <1>10, LeasesStep DEF ClaimLost
<1>. QED
  BY <1>1, <1>2, <1>3, <1>4, <1>5, <1>6, <1>7, <1>8, <1>9, <1>10 DEF Next, Panic, MarkError

LEMMA IInvHolds == Spec => []IInv
BY IInvInit, IInvStep, PTL DEF Spec

\* No stale task, crash or retry ever makes the delivery log and the row disagree, and
\* UNIQUE (event_id, attempt) never fires.
THEOREM LogAgrees == Spec => [](LogAgreesWithRow /\ AttemptsAreUnique)
<1>1. IInv => LogAgreesWithRow /\ AttemptsAreUnique
  BY DEF IInv
<1>. QED  BY <1>1, IInvHolds, PTL

\* The delivery log is only ever added to.
LEMMA LogGrows == [Next]_vars => log \subseteq log'
BY DEF Next, vars, Producer, Enqueue, CommitProducer, RollbackProducer, Claim, Return, Crash,
       TaskStep, Spawn, PublishOk, PublishErr, MarkPublished, MarkFailed, Logged, ClaimLost,
       Panic, MarkError, Breaks, RecordConsumption, Tick

\* A settled event is never reopened, settled otherwise or leased again: its final
\* outcome is in the log, which only grows and always agrees with the row.
THEOREM Settled == Spec => SettledForGood
<1>1. IInv /\ IInv' /\ [Next]_vars
        => \A e \in Event : row[e].status \in Terminal => row'[e].status = row[e].status
                                                     /\ ~Leased(e)'
  <2>. SUFFICES ASSUME IInv, IInv', [Next]_vars, NEW e \in Event, row[e].status \in Terminal
                PROVE  row'[e].status = row[e].status /\ ~Leased(e)'
    OBVIOUS
  <2>1. PICK d \in log : d.event = e /\ d.outcome = row[e].status
    BY DEF IInv, LogAgreesWithRow
  <2>2. row'[e].status = row[e].status
    BY <2>1, LogGrows DEF IInv, LogAgreesWithRow
  <2>3. ~Leased(e)'
    BY <2>2 DEF IInv, OwnedIsPending, Leased, Terminal
  <2>. QED  BY <2>2, <2>3
<1>. QED  BY <1>1, IInvHolds, PTL DEF Spec, SettledForGood

-----------------------------------------------------------------------------
(* Leases exclude while nothing goes wrong. *)

\* A task at work holds a lease that has not run out: only a fault can break this.
TasksHoldLeases ==
  faults = 0 => \A t \in tasks : /\ row[t.event].owner = t.worker
                                /\ row[t.event].attempts = t.attempt
                                /\ row[t.event].ttl # Expired

LEMMA TasksHoldLeasesStep == IInv /\ TasksHoldLeases /\ [Next]_vars => TasksHoldLeases'
<1>. SUFFICES ASSUME IInv, TasksHoldLeases, [Next]_vars, faults' = 0
              PROVE  \A t \in tasks' : /\ row'[t.event].owner = t.worker
                                       /\ row'[t.event].attempts = t.attempt
                                       /\ row'[t.event].ttl # Expired
  BY DEF TasksHoldLeases
<1>. DEFINE Held(t) == /\ row[t.event].owner = t.worker
                       /\ row[t.event].attempts = t.attempt
                       /\ row[t.event].ttl # Expired
<1>0. faults = 0 /\ \A t \in tasks : Held(t) /\ t.event \in Event /\ t.worker \in Worker
  <2>1. faults \in Nat
    BY OutboxAssumption DEF IInv, TypeOK, OutboxAssumption
  <2>2. faults' = faults \/ faults' = faults + 1
    BY DEF Next, vars, Producer, Enqueue, CommitProducer, RollbackProducer, Claim, Return, Crash,
           TaskStep, Spawn, PublishOk, PublishErr, MarkPublished, MarkFailed, ClaimLost,
           Panic, MarkError, Breaks, RecordConsumption, Tick
  <2>3. faults = 0
    BY <2>1, <2>2
  <2>4. \A t \in tasks : Held(t)
    BY <2>3 DEF TasksHoldLeases
  <2>5. \A t \in tasks : t.event \in Event /\ t.worker \in Worker
    BY DEF IInv, TypeOK, Task
  <2>. QED  BY <2>3, <2>4, <2>5
<1>1. ASSUME NEW t \in tasks, NEW u \in tasks, t.event = u.event PROVE t = u
  BY <1>0, <1>1 DEF IInv, AttemptsAreUnique
<1>2. ASSUME NEW e \in Event, Producer(e) PROVE \A t \in tasks' : Held(t)'
  <2>1. tasks' = tasks /\ \A f \in Event \ {e} : row'[f] = row[f]
    BY <1>2 DEF Producer, Enqueue, CommitProducer, RollbackProducer, IInv, TypeOK
  <2>2. \A t \in tasks : t.event # e
    BY <1>2 DEF Producer, Enqueue, CommitProducer, RollbackProducer, IInv, AttemptsKnown, Committed
  <2>. QED  BY <1>0, <2>1, <2>2
<1>3. ASSUME NEW w \in Worker, Claim(w) PROVE \A t \in tasks' : Held(t)'
  <2>. DEFINE New(e) == [worker |-> w, event |-> e, attempt |-> ClaimedRow(row[e], w).attempts,
                         phase |-> "waiting", joined |-> TRUE]
  <2>1. PICK S \in SUBSET {e \in Event : Claimable(e)} :
          /\ row' = [e \in Event |-> IF e \in S THEN ClaimedRow(row[e], w) ELSE row[e]]
          /\ tasks' = tasks \cup {New(e) : e \in S}
    BY <1>3 DEF Claim, Leases, TaskFor
  <2>2. \A t \in tasks : t.event \notin S
    BY <1>0, OutboxAssumption DEF Claimable, LeaseFree, OutboxAssumption
  <2>3. \A t \in tasks : Held(t)'
    BY <1>0, <2>1, <2>2
  <2>4. ASSUME NEW t \in tasks', t \notin tasks PROVE Held(t)'
    <3>1. t \in {New(e) : e \in S}
      BY <2>1, <2>4
    <3>2. PICK e \in S : t = New(e)
      BY <3>1
    <3>3. t.event = e /\ t.worker = w /\ t.attempt = ClaimedRow(row[e], w).attempts
      BY <3>2
    <3>4. row'[e] = ClaimedRow(row[e], w)
      BY <2>1
    <3>5. row'[e].owner = w /\ row'[e].ttl = Lease
      BY <3>4 DEF ClaimedRow
    <3>6. Lease # Expired
      BY OutboxAssumption DEF Expired, OutboxAssumption
    <3>. QED  BY <3>3, <3>4, <3>5, <3>6
  <2>. QED  BY <2>3, <2>4
<1>4. ASSUME NEW w \in Worker, Return(w) PROVE \A t \in tasks' : Held(t)'
  <2>1. \A t \in tasks' : \E u \in tasks : u.event = t.event /\ u.worker = t.worker /\ u.attempt = t.attempt
    BY <1>4 DEF Return, IInv, TypeOK, Task
  <2>. QED  BY <1>0, <1>4, <2>1 DEF Return
<1>5. ASSUME NEW w \in Worker, Crash(w) PROVE \A t \in tasks' : Held(t)'
  BY <1>0, <1>5 DEF Crash
<1>6. ASSUME NEW t \in tasks, TaskStep(t) PROVE \A u \in tasks' : Held(u)'
  <2>1. CASE Spawn(t) \/ PublishOk(t) \/ PublishErr(t)
    <3>1. row' = row /\ \E p \in Phase : tasks' = Replace(t, p)
      BY <2>1 DEF Spawn, PublishOk, PublishErr, Phase
    <3>2. \A u \in tasks' : \E v \in tasks : u.event = v.event /\ u.worker = v.worker /\ u.attempt = v.attempt
      BY <3>1 DEF Replace, IInv, TypeOK, Task
    <3>. QED  BY <1>0, <3>1, <3>2
  <2>2. CASE MarkPublished(t) \/ MarkFailed(t)
    <3>1. tasks' = tasks \ {t}
      BY <2>2 DEF MarkPublished, MarkFailed, End
    <3>2. row \in [Event -> Row]
      BY DEF IInv, TypeOK
    <3>3. \A f \in Event \ {t.event} : row'[f] = row[f]
      <4>1. CASE MarkPublished(t)
        BY <3>2, <4>1 DEF MarkPublished
      <4>2. CASE MarkFailed(t)
        BY <3>2, <4>2 DEF MarkFailed
      <4>. QED  BY <2>2, <4>1, <4>2
    <3>. QED  BY <1>0, <1>1, <3>1, <3>3
  <2>. QED  BY <1>6, <2>1, <2>2 DEF TaskStep
<1>7. ASSUME faults' = faults + 1 PROVE FALSE
  BY <1>0, <1>7
<1>8. ASSUME NEW c \in Consumer, NEW i \in EventId, RecordConsumption(c, i)
      PROVE  \A t \in tasks' : Held(t)'
  BY <1>0, <1>8 DEF RecordConsumption
<1>9. CASE Tick
  <2>1. Overrun = {}
    BY <1>0, <1>9 DEF Tick
  <2>2. tasks' = tasks /\ row' = [e \in Event |-> Later(row[e])]
    BY <1>9 DEF Tick
  <2>3. ASSUME NEW t \in tasks PROVE row[t.event].ttl > 0
    <3>1. row[t.event].owner # NoWorker
      BY <1>0, OutboxAssumption DEF OutboxAssumption
    <3>2. row[t.event].ttl # 0
      BY <1>0, <2>1, <3>1 DEF Overrun, Leased
    <3>3. row[t.event].ttl \in Expired..Lease
      BY <1>0 DEF IInv, TypeOK, Row
    <3>. QED  BY <1>0, <3>2, <3>3, OutboxAssumption DEF Expired, OutboxAssumption
  <2>4. ASSUME NEW t \in tasks PROVE Held(t)'
    <3>1. row'[t.event] = Later(row[t.event]) /\ row[t.event].ttl \in Expired..Lease
      BY <1>0, <2>2 DEF IInv, TypeOK, Row
    <3>. QED  BY <1>0, <2>3, <3>1, OutboxAssumption DEF Later, Expired, OutboxAssumption
  <2>. QED  BY <2>2, <2>4
<1>10. CASE UNCHANGED vars
  BY <1>0, <1>10 DEF vars
<1>. QED
  BY <1>2, <1>3, <1>4, <1>5, <1>6, <1>7, <1>8, <1>9, <1>10
     DEF Next, ClaimLost, Panic, MarkError, Breaks

\* As long as no worker crashed, no statement was lost, no publisher panicked and no task outlived its lease, an
\* event is in the hands of one task, the one its row names (claim, FOR UPDATE SKIP LOCKED
\* and the lease columns).
THEOREM LeasesExclude == Spec => []OneTaskWithoutFaults
<1>1. Init => TasksHoldLeases
  BY DEF Init, TasksHoldLeases
<1>2. IInv /\ TasksHoldLeases => OneTaskWithoutFaults
  BY DEF IInv, AttemptsAreUnique, TasksHoldLeases, OneTaskWithoutFaults
<1>. QED  BY <1>1, <1>2, TasksHoldLeasesStep, IInvHolds, PTL DEF Spec

-----------------------------------------------------------------------------
(* The refinement of EventDelivery. *)

\* The status of one row decides its entry of the ledger.
LEMMA LedgerSame ==
  ASSUME \A e \in Event : row'[e].status = row[e].status \/
                          {row'[e].status, row[e].status} \subseteq {"pending", "failed"} \/
                          {row'[e].status, row[e].status} \subseteq {"none", "staged"}
  PROVE  Ledger' = Ledger
<1>. DEFINE L(s) == CASE s \in {"none", "staged"}    -> "absent"
                      [] s \in {"pending", "failed"} -> "open"
                      [] OTHER                       -> s
<1>1. \A e \in Event : L(row'[e].status) = L(row[e].status)
  OBVIOUS
<1>2. Ledger = [e \in Event |-> L(row[e].status)] /\ Ledger' = [e \in Event |-> L(row'[e].status)]
  BY DEF Ledger
<1>. HIDE DEF L
<1>. QED  BY <1>1, <1>2

LEMMA LedgerChanges ==
  ASSUME NEW e \in Event, row \in [Event -> Row], NEW s \in Terminal \cup {"open"},
         \A f \in Event \ {e} : row'[f] = row[f],
         IF s = "open" THEN row'[e].status = "pending" ELSE row'[e].status = s
  PROVE  Ledger' = [Ledger EXCEPT ![e] = s]
<1>. DEFINE L(r) == CASE r.status \in {"none", "staged"}    -> "absent"
                      [] r.status \in {"pending", "failed"} -> "open"
                      [] OTHER                              -> r.status
<1>1. L(row'[e]) = s
  BY DEF Terminal
<1>2. Ledger = [f \in Event |-> L(row[f])] /\ Ledger' = [f \in Event |-> L(row'[f])]
  BY DEF Ledger
<1>. HIDE DEF L
<1>. QED  BY <1>1, <1>2

\* The outbox implements the delivery promise: nothing leaves before its transaction has
\* committed, nothing is called published that was not handed over, nothing settled is
\* settled again, and of all the callers of record_consumption for a consumer and an id one
\* at most is told that it is the first.
THEOREM Delivers == Spec => ImplementsEventDelivery
<1>1. Init => Promise!Init
  BY DEF Init, Promise!Init, Ledger, FreshRow
<1>2. IInv /\ IInv' /\ [Next]_vars => [Promise!Next]_(Promise!vars)
  <2>. SUFFICES ASSUME IInv, IInv', [Next]_vars PROVE [Promise!Next]_(Promise!vars)
    OBVIOUS
  <2>0. TypeOK /\ TypeOK'
    BY DEF IInv
  <2>1. ASSUME NEW e \in Event, Enqueue(e) \/ RollbackProducer(e) PROVE UNCHANGED Promise!vars
    <3>1. \A f \in Event :
            row'[f] = row[f] \/ {row'[f].status, row[f].status} \subseteq {"none", "staged"}
      BY <2>0, <2>1 DEF Enqueue, RollbackProducer, FreshRow, TypeOK, Row
    <3>2. Ledger' = Ledger
      BY <3>1, LedgerSame
    <3>. QED  BY <2>1, <3>2 DEF Enqueue, RollbackProducer, Promise!vars
  <2>2. ASSUME NEW e \in Event, CommitProducer(e) PROVE Promise!Commit(e)
    <3>1. Ledger' = [Ledger EXCEPT ![e] = "open"]
      BY <2>0, <2>2, LedgerChanges DEF CommitProducer, TypeOK, Row
    <3>2. Ledger[e] = "absent"
      BY <2>2 DEF CommitProducer, Ledger
    <3>. QED  BY <2>2, <3>1, <3>2 DEF CommitProducer, Promise!Commit
  <2>3. ASSUME NEW w \in Worker, Claim(w) \/ ClaimLost(w) PROVE UNCHANGED Promise!vars
    <3>1. \A e \in Event : row'[e] = row[e] \/ (Claimable(e) /\ row'[e].status = "pending")
      BY <2>3 DEF Claim, ClaimLost, Leases, ClaimedRow
    <3>2. Ledger' = Ledger
      BY <3>1, LedgerSame DEF Claimable
    <3>. QED  BY <2>3, <3>2 DEF Claim, ClaimLost, Promise!vars
  <2>4. ASSUME NEW w \in Worker, Return(w) \/ Crash(w) PROVE UNCHANGED Promise!vars
    BY <2>4 DEF Return, Crash, Promise!vars, Ledger
  <2>5. ASSUME NEW t \in tasks, TaskStep(t) PROVE [Promise!Next]_(Promise!vars)
    <3>0. t.event \in Event /\ Committed(t.event) /\ Ledger[t.event] # "absent"
      BY <2>0 DEF TypeOK, Task, IInv, AttemptsKnown, Committed, Ledger, Row, Status
    <3>1. CASE Spawn(t)
      BY <3>1 DEF Spawn, Promise!vars, Ledger
    <3>2. CASE PublishOk(t) \/ PublishErr(t)
      <4>1. Ledger' = Ledger
        BY <3>2 DEF PublishOk, PublishErr, Ledger
      <4>2. Promise!Send(t.event) \/ UNCHANGED Promise!vars
        BY <3>0, <3>2, <4>1 DEF PublishOk, PublishErr, Promise!Send, Promise!vars
      <4>. QED  BY <3>0, <4>2 DEF Promise!Next
    <3>3. CASE MarkPublished(t)
      <4>1. CASE MarkRefused(t) \/ row[t.event].status # "pending"
        BY <3>3, <4>1 DEF MarkPublished, Promise!vars, Ledger
      <4>2. CASE ~(MarkRefused(t) \/ row[t.event].status # "pending")
        <5>1. Ledger' = [Ledger EXCEPT ![t.event] = "published"]
          BY <2>0, <3>0, <3>3, <4>2, LedgerChanges DEF MarkPublished, Released, TypeOK, Terminal
        <5>2. Ledger[t.event] = "open" /\ t.event \in sent
          BY <3>0, <3>3, <4>2 DEF Ledger, IInv, DeliveredIsSent, MarkPublished
        <5>3. Promise!Publish(t.event)
          BY <3>3, <5>1, <5>2 DEF MarkPublished, Promise!Publish
        <5>. QED  BY <3>0, <5>3 DEF Promise!Next
      <4>. QED  BY <4>1, <4>2
    <3>4. CASE MarkFailed(t)
      <4>1. CASE MarkRefused(t)
        BY <3>4, <4>1 DEF MarkFailed, Promise!vars, Ledger
      <4>2. ASSUME ~MarkRefused(t) PROVE row[t.event].status = "pending"
        BY <2>0, <3>0, <4>2, OutboxAssumption
           DEF MarkRefused, Owns, IInv, OwnedIsPending, Leased, TypeOK, Task, OutboxAssumption
      <4>3. CASE ~MarkRefused(t) /\ GivesUp(t)
        <5>1. Ledger' = [Ledger EXCEPT ![t.event] = "dead_letter"]
          BY <2>0, <3>0, <3>4, <4>3, LedgerChanges DEF MarkFailed, Released, TypeOK, Terminal
        <5>2. Ledger[t.event] = "open"
          BY <3>0, <4>2, <4>3 DEF Ledger
        <5>3. Promise!Bury(t.event)
          BY <3>4, <5>1, <5>2 DEF MarkFailed, Promise!Bury
        <5>. QED  BY <3>0, <5>3 DEF Promise!Next
      <4>4. CASE ~MarkRefused(t) /\ ~GivesUp(t)
        <5>1. \A e \in Event : row'[e] = row[e] \/ (e = t.event /\ row'[e].status = "failed")
          BY <2>0, <3>0, <3>4, <4>4 DEF MarkFailed, Released, TypeOK
        <5>2. Ledger' = Ledger
          BY <4>2, <4>4, <5>1, LedgerSame
        <5>. QED  BY <3>4, <5>2 DEF MarkFailed, Promise!vars
      <4>. QED  BY <4>1, <4>3, <4>4
    <3>. QED  BY <2>5, <3>1, <3>2, <3>3, <3>4 DEF TaskStep
  <2>6. ASSUME NEW t \in tasks, NEW phases, Breaks(t, phases) PROVE UNCHANGED Promise!vars
    BY <2>6 DEF Breaks, Promise!vars, Ledger
  <2>7. ASSUME NEW c \in Consumer, NEW i \in EventId, RecordConsumption(c, i)
        PROVE  Promise!Consume(c, i) \/ UNCHANGED Promise!vars
    <3>1. Ledger' = Ledger /\ sent' = sent
      BY <2>7 DEF RecordConsumption, Ledger
    <3>2. CASE Inserts(c, i)
      BY <2>7, <3>1, <3>2 DEF RecordConsumption, Inserts, Promise!Consume
    <3>3. CASE ~Inserts(c, i)
      <4>1. consumed' = consumed /\ firsts' = firsts
        BY <2>7, <3>3 DEF RecordConsumption, Inserts
      <4>. QED  BY <3>1, <4>1 DEF Promise!vars
    <3>. QED  BY <3>2, <3>3
  <2>8. CASE Tick
    <3>1. Ledger' = Ledger
      BY <2>8, LedgerSame DEF Tick, Later
    <3>. QED  BY <2>8, <3>1 DEF Tick, Promise!vars
  <2>9. CASE UNCHANGED vars
    BY <2>9 DEF vars, Promise!vars, Ledger
  <2>. QED
    BY <2>1, <2>2, <2>3, <2>4, <2>5, <2>6, <2>7, <2>8, <2>9
       DEF Next, Producer, Panic, MarkError, Promise!Next
<1>. QED  BY <1>1, <1>2, IInvHolds, PTL DEF Spec, ImplementsEventDelivery, Promise!Spec

-----------------------------------------------------------------------------
(***************************************************************************)
(* The bound on the attempts.  It is not inductive: claim never looks at   *)
(* the counter, so what keeps it down is who can still bring a row back.   *)
(* The task that holds the lease of a row guards it.  Every other task of  *)
(* the event that has attempts left is a straggler: when its worker owns   *)
(* the row again, its failure releases the row although the counter has    *)
(* moved on.  There are never more stragglers than there were faults, a    *)
(* straggler that releases a guarded row makes the guard a straggler in    *)
(* its place, and an unguarded row is one claim away from the next         *)
(* attempt.                                                                *)
(***************************************************************************)
Guards(t, e) == /\ t.event = e
                /\ t.attempt = row[e].attempts
                /\ t.worker = row[e].owner

Guarded(e) == Leased(e) /\ row[e].ttl # Expired /\ \E t \in tasks : Guards(t, e)

\* Their attempt numbers.
Stragglers(e) == {n \in 0..(MaxAttempts - 1) :
                    /\ \E t \in tasks : t.event = e /\ t.attempt = n
                    /\ ~(Guarded(e) /\ n = row[e].attempts)}

AttemptsNext(e) == IF Guarded(e) THEN row[e].attempts ELSE row[e].attempts + 1

Accounted(e) ==
  /\ ~Committed(e) => row[e].attempts = 0
  /\ row[e].attempts <= MaxAttempts + faults
  /\ row[e].status \in {"pending", "failed"} =>
       /\ Cardinality(Stragglers(e)) <= faults
       /\ AttemptsNext(e) + Cardinality(Stragglers(e)) <= MaxAttempts + faults

AttemptsAccounted == \A e \in Event : Accounted(e)

\* Counting subsets of a finite set of numbers.
LEMMA Counting ==
  ASSUME NEW n \in Nat, NEW S \in SUBSET (0..(n - 1)), NEW T \in SUBSET (0..(n - 1))
  PROVE  /\ Cardinality(S) \in Nat
         /\ S \subseteq T => Cardinality(S) <= Cardinality(T)
         /\ \A x : S \subseteq T \cup {x} => Cardinality(S) <= Cardinality(T) + 1
         /\ \A x \in T : S \subseteq T \ {x} => Cardinality(S) + 1 <= Cardinality(T)
         /\ \A x \in T : \A y : S \subseteq (T \ {x}) \cup {y} => Cardinality(S) <= Cardinality(T)
<1>1. IsFiniteSet(0..(n - 1))
  BY FS_Interval
<1>2. IsFiniteSet(S) /\ IsFiniteSet(T)
  BY <1>1, FS_Subset
<1>3. Cardinality(S) \in Nat /\ Cardinality(T) \in Nat
  BY <1>2, FS_CardinalityType
<1>4. ASSUME S \subseteq T PROVE Cardinality(S) <= Cardinality(T)
  BY <1>2, <1>4, FS_Subset
<1>5. ASSUME NEW U, IsFiniteSet(U), NEW x, S \subseteq U \cup {x}
      PROVE  Cardinality(S) <= Cardinality(U) + 1
  <2>1. /\ IsFiniteSet(U \cup {x})
        /\ Cardinality(U \cup {x}) = (IF x \in U THEN Cardinality(U) ELSE Cardinality(U) + 1)
    BY <1>5, FS_AddElement
  <2>2. Cardinality(S) <= Cardinality(U \cup {x})
    BY <1>5, <2>1, FS_Subset
  <2>3. Cardinality(U) \in Nat
    BY <1>5, FS_CardinalityType
  <2>. QED  BY <1>3, <2>1, <2>2, <2>3
<1>6. ASSUME NEW x \in T
      PROVE  IsFiniteSet(T \ {x}) /\ Cardinality(T \ {x}) = Cardinality(T) - 1
  BY <1>2, FS_RemoveElement
<1>7. ASSUME NEW x \in T, S \subseteq T \ {x} PROVE Cardinality(S) + 1 <= Cardinality(T)
  <2>1. Cardinality(S) <= Cardinality(T \ {x})
    BY <1>6, <1>7, FS_Subset
  <2>. QED  BY <1>3, <1>6, <2>1
<1>8. ASSUME NEW x \in T, NEW y, S \subseteq (T \ {x}) \cup {y} PROVE Cardinality(S) <= Cardinality(T)
  <2>1. Cardinality(S) <= Cardinality(T \ {x}) + 1
    BY <1>5, <1>6, <1>8
  <2>. QED  BY <1>3, <1>6, <2>1
<1>. QED  BY <1>2, <1>3, <1>4, <1>5, <1>7, <1>8

LEMMA StragglersType ==
  /\ MaxAttempts \in Nat \ {0}
  /\ \A e : Stragglers(e) \in SUBSET (0..(MaxAttempts - 1))
  /\ \A e : Stragglers(e)' \in SUBSET (0..(MaxAttempts - 1))
BY OutboxAssumption DEF OutboxAssumption, Stragglers

\* The numbers an account is made of.
LEMMA AccountType ==
  ASSUME TypeOK, TypeOK', NEW e \in Event
  PROVE  /\ row[e].attempts \in Nat /\ row'[e].attempts \in Nat
         /\ faults \in Nat /\ faults' \in Nat
         /\ Cardinality(Stragglers(e)) \in Nat /\ Cardinality(Stragglers(e)') \in Nat
<1>1. faults \in Nat /\ faults' \in Nat
  BY OutboxAssumption DEF OutboxAssumption, TypeOK
<1>2. row[e].attempts \in Nat /\ row'[e].attempts \in Nat
  BY DEF TypeOK, Row
<1>. QED  BY <1>1, <1>2, StragglersType, Counting

\* A step that takes nobody's guard away and brings no straggler keeps the account.
LEMMA AccountKept ==
  ASSUME TypeOK, TypeOK', NEW e \in Event, Accounted(e), faults' = faults,
         row'[e].attempts = row[e].attempts,
         row'[e].status = row[e].status,
         Guarded(e) => Guarded(e)', Stragglers(e)' \subseteq Stragglers(e)
  PROVE  Accounted(e)'
<1>1. Cardinality(Stragglers(e)') <= Cardinality(Stragglers(e))
  BY StragglersType, Counting
<1>2. AttemptsNext(e)' <= AttemptsNext(e) /\ AttemptsNext(e) \in Nat /\ AttemptsNext(e)' \in Nat
  BY AccountType DEF AttemptsNext
<1>. QED  BY <1>1, <1>2, StragglersType, AccountType DEF Accounted, Committed

\* A fault may take the guard away and make it a straggler.
LEMMA AccountFaulted ==
  ASSUME TypeOK, TypeOK', NEW e \in Event, Accounted(e), faults' = faults + 1,
         row'[e].attempts = row[e].attempts, row'[e].status = row[e].status,
         Stragglers(e)' \subseteq Stragglers(e) \cup (IF Guarded(e) THEN {row[e].attempts} ELSE {})
  PROVE  Accounted(e)'
<1>. DEFINE A == row[e].attempts
            S == Cardinality(Stragglers(e))
            T == Cardinality(Stragglers(e)')
<1>0. /\ A \in Nat /\ S \in Nat /\ T \in Nat /\ faults \in Nat /\ MaxAttempts \in Nat \ {0}
      /\ row'[e].attempts = A
  BY AccountType, StragglersType
<1>1. T <= S \/ (Guarded(e) /\ A < MaxAttempts /\ T <= S + 1)
  <2>1. CASE Guarded(e) /\ A < MaxAttempts
    <3>1. Stragglers(e)' \subseteq Stragglers(e) \cup {A}
      BY <2>1
    <3>. QED  BY <2>1, <3>1, StragglersType, Counting
  <2>2. CASE ~(Guarded(e) /\ A < MaxAttempts)
    <3>1. Stragglers(e)' \subseteq Stragglers(e)
      BY <1>0, <2>2, StragglersType
    <3>. QED  BY <3>1, StragglersType, Counting
  <2>. QED  BY <2>1, <2>2
<1>2. /\ AttemptsNext(e) = IF Guarded(e) THEN A ELSE A + 1
      /\ AttemptsNext(e)' = A \/ AttemptsNext(e)' = A + 1
  BY DEF AttemptsNext
<1>. HIDE DEF A, S, T
<1>3. ASSUME S <= faults, AttemptsNext(e) + S <= MaxAttempts + faults
      PROVE  T <= faults + 1 /\ AttemptsNext(e)' + T <= MaxAttempts + (faults + 1)
  BY <1>0, <1>1, <1>2, <1>3
<1>. QED  BY <1>0, <1>3 DEF Accounted, Committed, A, S, T

\* A claim takes the next number, and the row is guarded.
LEMMA AccountClaimed ==
  ASSUME TypeOK, TypeOK', NEW e \in Event, Accounted(e), faults' = faults,
         row[e].status \in {"pending", "failed"}, ~Guarded(e),
         row'[e].status = "pending", row'[e].attempts = row[e].attempts + 1,
         Guarded(e)', Stragglers(e)' \subseteq Stragglers(e)
  PROVE  Accounted(e)'
<1>1. Cardinality(Stragglers(e)') <= Cardinality(Stragglers(e))
  BY StragglersType, Counting
<1>2. AttemptsNext(e)' = row[e].attempts + 1 /\ AttemptsNext(e) = row[e].attempts + 1
  BY DEF AttemptsNext
<1>. QED  BY <1>1, <1>2, StragglersType, AccountType DEF Accounted, Committed

\* The guard of a row failed and leaves it for another attempt.
LEMMA AccountReleased ==
  ASSUME TypeOK, TypeOK', NEW e \in Event, Accounted(e), faults' = faults,
         row[e].status = "pending", Guarded(e), row[e].attempts < MaxAttempts, Committed(e)',
         row'[e].attempts = row[e].attempts,
         Stragglers(e)' \subseteq Stragglers(e)
  PROVE  Accounted(e)'
<1>1. Cardinality(Stragglers(e)') <= Cardinality(Stragglers(e))
  BY StragglersType, Counting
<1>2. AttemptsNext(e)' <= row[e].attempts + 1 /\ AttemptsNext(e)' \in Nat
  BY AccountType DEF AttemptsNext
<1>. QED  BY <1>1, <1>2, StragglersType, AccountType DEF Accounted, Committed

\* A straggler failed and leaves the row for another attempt; the guard, if there is one,
\* takes its place.
LEMMA AccountStray ==
  ASSUME TypeOK, TypeOK', NEW e \in Event, Accounted(e), faults' = faults,
         row[e].status = "pending", NEW n \in Stragglers(e), Committed(e)',
         row'[e].attempts = row[e].attempts,
         Stragglers(e)' \subseteq
           (Stragglers(e) \ {n}) \cup (IF Guarded(e) THEN {row[e].attempts} ELSE {})
  PROVE  Accounted(e)'
<1>. DEFINE A == row[e].attempts
            S == Cardinality(Stragglers(e))
            T == Cardinality(Stragglers(e)')
<1>0. /\ A \in Nat /\ S \in Nat /\ T \in Nat /\ faults \in Nat /\ MaxAttempts \in Nat \ {0}
      /\ row'[e].attempts = A
  BY AccountType, StragglersType
<1>1. T + 1 <= S \/ (Guarded(e) /\ A < MaxAttempts /\ T <= S)
  <2>1. CASE Guarded(e) /\ A < MaxAttempts
    <3>1. Stragglers(e)' \subseteq (Stragglers(e) \ {n}) \cup {A}
      BY <2>1
    <3>. QED  BY <2>1, <3>1, StragglersType, Counting
  <2>2. CASE ~(Guarded(e) /\ A < MaxAttempts)
    <3>1. Stragglers(e)' \subseteq Stragglers(e) \ {n}
      BY <1>0, <2>2, StragglersType
    <3>. QED  BY <3>1, StragglersType, Counting
  <2>. QED  BY <2>1, <2>2
<1>2. /\ AttemptsNext(e) = IF Guarded(e) THEN A ELSE A + 1
      /\ AttemptsNext(e)' = A \/ AttemptsNext(e)' = A + 1
  BY DEF AttemptsNext
<1>3. S <= faults /\ AttemptsNext(e) + S <= MaxAttempts + faults /\ Committed(e)
  BY DEF Accounted, Committed
<1>4. A <= MaxAttempts + faults
  BY DEF Accounted
<1>. HIDE DEF A, S, T
<1>5. T <= faults /\ AttemptsNext(e)' + T <= MaxAttempts + faults
  BY <1>0, <1>1, <1>2, <1>3
<1>. QED  BY <1>0, <1>4, <1>5 DEF Accounted, Committed, A, S, T

\* A settled row is not claimed any more.
LEMMA AccountSettled ==
  ASSUME TypeOK, TypeOK', NEW e \in Event, Accounted(e), faults' = faults,
         row'[e].status \in Terminal, row'[e].attempts = row[e].attempts
  PROVE  Accounted(e)'
BY DEF Accounted, Committed, Terminal

\* Which attempts are under way only shrinks: nobody but the guard can become a straggler.
LEMMA StragglersShrink ==
  ASSUME NEW e \in Event, row'[e].attempts = row[e].attempts,
         \A u \in tasks' : u.event = e => \E v \in tasks : v.event = e /\ v.attempt = u.attempt
  PROVE  /\ Stragglers(e)' \subseteq
              Stragglers(e) \cup (IF Guarded(e) THEN {row[e].attempts} ELSE {})
         /\ (Guarded(e) => Guarded(e)') => Stragglers(e)' \subseteq Stragglers(e)
<1>1. ASSUME NEW n \in Stragglers(e)' PROVE n \in Stragglers(e) \/ (Guarded(e) /\ n = row[e].attempts)
  <2>1. n \in 0..(MaxAttempts - 1) /\ \E u \in tasks' : u.event = e /\ u.attempt = n
    BY DEF Stragglers
  <2>2. \E v \in tasks : v.event = e /\ v.attempt = n
    BY <2>1
  <2>. QED  BY <2>1, <2>2 DEF Stragglers
<1>2. ASSUME Guarded(e)', NEW n \in Stragglers(e)' PROVE n # row[e].attempts
  BY <1>2 DEF Stragglers
<1>3. ASSUME Guarded(e) => Guarded(e)' PROVE Stragglers(e)' \subseteq Stragglers(e)
  BY <1>1, <1>2, <1>3
<1>. QED  BY <1>1, <1>3

\* An event whose row and tasks are left as they are, up to the phases of its tasks.
LEMMA AccountSame ==
  ASSUME TypeOK, TypeOK', NEW e \in Event, Accounted(e), faults' = faults,
         row'[e].status = row[e].status, row'[e].attempts = row[e].attempts,
         row'[e].owner = row[e].owner, row[e].ttl # Expired => row'[e].ttl # Expired,
         \A u \in tasks' : u.event = e => \E v \in tasks : v.event = e /\ v.attempt = u.attempt,
         \A v \in tasks : Guards(v, e) =>
           \E u \in tasks' : u.event = e /\ u.attempt = v.attempt /\ u.worker = v.worker
  PROVE  Accounted(e)'
<1>1. Guarded(e) => Guarded(e)'
  BY DEF Guarded, Guards, Leased
<1>. QED  BY <1>1, StragglersShrink, AccountKept

\* A task ends, by a fault or with its row left to its lease.
LEMMA AccountDropped ==
  ASSUME TypeOK, TypeOK', NEW e \in Event, Accounted(e), faults' = faults + 1,
         row'[e].status = row[e].status, row'[e].attempts = row[e].attempts,
         \A u \in tasks' : u.event = e => \E v \in tasks : v.event = e /\ v.attempt = u.attempt
  PROVE  Accounted(e)'
BY StragglersShrink, AccountFaulted

\* A mark that is refused ends a task that guards nothing.
LEMMA RefusedGuardsNothing ==
  ASSUME IInv, NEW t \in tasks, MarkRefused(t) \/ row[t.event].status # "pending"
  PROVE  ~(Guards(t, t.event) /\ Leased(t.event))
<1>1. t.event \in Event /\ ~AttemptLogged(t)
  BY DEF IInv, TypeOK, Task, AttemptsAreUnique
<1>. QED  BY <1>1 DEF MarkRefused, Owns, Guards, IInv, OwnedIsPending

\* A mark that is refused keeps every account.
LEMMA RefusedAccounts ==
  ASSUME IInv, TypeOK', NEW t \in tasks, MarkRefused(t) \/ row[t.event].status # "pending",
         row' = row, tasks' = tasks \ {t}, faults' = faults, NEW e \in Event, Accounted(e)
  PROVE  Accounted(e)'
<1>1. ~(Guards(t, e) /\ Leased(e))
  BY RefusedGuardsNothing DEF Guards
<1>2. Guarded(e) => Guarded(e)'
  BY <1>1 DEF Guarded, Guards, Leased
<1>3. \A u \in tasks' : u.event = e => \E v \in tasks : v.event = e /\ v.attempt = u.attempt
  OBVIOUS
<1>4. Stragglers(e)' \subseteq Stragglers(e)
  BY <1>2, <1>3, StragglersShrink
<1>. QED  BY <1>2, <1>4, AccountKept DEF IInv

\* The outcome of a task that owns its row: the row is settled, or a failure of the guard
\* or of a straggler leaves it for another attempt.
LEMMA MarkAccounts ==
  ASSUME IInv, TypeOK', NEW t \in tasks, ~MarkRefused(t), row[t.event].status = "pending",
         NEW s \in Status, NEW n \in Nat, s \in Terminal \/ (s = "failed" /\ ~GivesUp(t)),
         row' = [row EXCEPT ![t.event] = Released(@, s, n)],
         tasks' = tasks \ {t}, faults' = faults, NEW e \in Event, Accounted(e)
  PROVE  Accounted(e)'
<1>0. /\ t.event \in Event /\ t.attempt \in Nat
      /\ TypeOK /\ \A f \in Event : row[f].attempts \in Nat
      /\ MaxAttempts \in Nat \ {0}
  BY OutboxAssumption DEF IInv, TypeOK, Task, Row, OutboxAssumption
<1>1. \A u \in tasks' : u \in tasks /\ u # t
  OBVIOUS
<1>2. \A u \in tasks' : u.event = t.event => u.attempt # t.attempt
  BY <1>1 DEF IInv, AttemptsAreUnique
<1>3. CASE e # t.event
  <2>1. row'[e] = row[e]
    BY <1>3
  <2>2. \A v \in tasks : Guards(v, e) => v \in tasks'
    BY <1>3 DEF Guards
  <2>. QED  BY <1>0, <1>1, <2>1, <2>2, AccountSame DEF Guards
<1>4. CASE e = t.event
  <2>1. row'[e].status = s /\ row'[e].attempts = row[e].attempts
    BY <1>0, <1>4 DEF Released, IInv, TypeOK
  <2>2. \A u \in tasks' : u.event = e => \E v \in tasks : v.event = e /\ v.attempt = u.attempt
    BY <1>1
  <2>3. Stragglers(e)' \subseteq Stragglers(e) \cup (IF Guarded(e) THEN {row[e].attempts} ELSE {})
    BY <2>1, <2>2, StragglersShrink
  <2>4. t.attempt \notin Stragglers(e)'
    BY <1>2, <1>4 DEF Stragglers
  <2>5. CASE s \in Terminal
    BY <1>0, <2>1, <2>5, AccountSettled
  <2>6. CASE s = "failed" /\ t.attempt < MaxAttempts
    <3>0. Committed(e)' /\ t.attempt \in 0..(MaxAttempts - 1)
      BY <1>0, <2>1, <2>6 DEF Committed
    <3>1. CASE Guarded(e) /\ t.attempt = row[e].attempts
      <4>1. Stragglers(e)' \subseteq Stragglers(e)
        BY <2>3, <2>4, <3>1
      <4>. QED  BY <1>0, <1>4, <2>1, <2>6, <3>0, <3>1, <4>1, AccountReleased
    <3>2. CASE ~(Guarded(e) /\ t.attempt = row[e].attempts)
      <4>1. t.attempt \in Stragglers(e)
        BY <1>4, <3>0, <3>2 DEF Stragglers
      <4>2. Stragglers(e)' \subseteq
              (Stragglers(e) \ {t.attempt}) \cup (IF Guarded(e) THEN {row[e].attempts} ELSE {})
        BY <2>3, <2>4
      <4>. QED  BY <1>0, <1>4, <2>1, <3>0, <4>1, <4>2, AccountStray
    <3>. QED  BY <3>1, <3>2
  <2>. QED  BY <1>0, <2>5, <2>6 DEF GivesUp
<1>. QED  BY <1>3, <1>4

\* A claim nobody learns of uses up the fault that lost it.
LEMMA AccountLost ==
  ASSUME TypeOK, TypeOK', NEW e \in Event, Accounted(e), faults' = faults + 1,
         row[e].status \in {"pending", "failed"}, ~Guarded(e), ~Guarded(e)',
         row'[e].status = "pending", row'[e].attempts = row[e].attempts + 1,
         Stragglers(e)' \subseteq Stragglers(e)
  PROVE  Accounted(e)'
<1>1. Cardinality(Stragglers(e)') <= Cardinality(Stragglers(e))
  BY StragglersType, Counting
<1>2. AttemptsNext(e)' = row[e].attempts + 2 /\ AttemptsNext(e) = row[e].attempts + 1
  BY AccountType DEF AttemptsNext
<1>. QED  BY <1>1, <1>2, StragglersType, AccountType DEF Accounted, Committed

LEMMA ClaimLostAccounts ==
  ASSUME IInv, TypeOK', NEW w \in Worker, ClaimLost(w), NEW e \in Event, Accounted(e)
  PROVE  Accounted(e)'
<1>1. PICK S \in SUBSET {f \in Event : Claimable(f)} :
        row' = [f \in Event |-> IF f \in S THEN ClaimedRow(row[f], w) ELSE row[f]]
  BY DEF ClaimLost, Leases
<1>2. tasks' = tasks /\ faults' = faults + 1 /\ TypeOK
  BY DEF ClaimLost, IInv
<1>3. CASE e \notin S
  <2>1. row'[e] = row[e]
    BY <1>1, <1>3
  <2>. QED  BY <1>2, <2>1, AccountDropped
<1>4. CASE e \in S
  <2>1. /\ row[e].status \in {"pending", "failed"} /\ ~Guarded(e)
        /\ row[e].attempts \in Nat
    BY <1>1, <1>2, <1>4 DEF Claimable, LeaseFree, Guarded, Leased, TypeOK, Row
  <2>2. row'[e].status = "pending" /\ row'[e].attempts = row[e].attempts + 1
    BY <1>1, <1>4 DEF ClaimedRow
  <2>3. \A t \in tasks : t.event = e => t.attempt <= row[e].attempts /\ t.attempt \in Nat
    BY <1>2 DEF IInv, AttemptsKnown, TypeOK, Task
  <2>4. ~Guarded(e)'
    BY <1>2, <2>1, <2>2, <2>3 DEF Guarded, Guards
  <2>5. Stragglers(e)' \subseteq Stragglers(e)
    BY <1>2, <2>1 DEF Stragglers
  <2>. QED  BY <1>2, <2>1, <2>2, <2>4, <2>5, AccountLost
<1>. QED  BY <1>3, <1>4

LEMMA ClaimAccounts ==
  ASSUME IInv, TypeOK', NEW w \in Worker, Claim(w), NEW e \in Event, Accounted(e)
  PROVE  Accounted(e)'
<1>. DEFINE New(f) == [worker |-> w, event |-> f, attempt |-> ClaimedRow(row[f], w).attempts,
                       phase |-> "waiting", joined |-> TRUE]
<1>1. PICK S \in SUBSET {f \in Event : Claimable(f)} :
        /\ row' = [f \in Event |-> IF f \in S THEN ClaimedRow(row[f], w) ELSE row[f]]
        /\ tasks' = tasks \cup {New(f) : f \in S}
  BY DEF Claim, Leases, TaskFor
<1>2. faults' = faults /\ TypeOK
  BY DEF Claim, IInv
<1>3. \A f \in S : /\ New(f) \in tasks'
                   /\ New(f).event = f
                   /\ New(f).attempt = row[f].attempts + 1
                   /\ New(f).worker = w
  BY <1>1 DEF ClaimedRow
<1>4. \A u \in tasks' : u \in tasks \/ \E f \in S : u = New(f)
  BY <1>1
<1>. HIDE DEF New
<1>5. CASE e \notin S
  <2>1. row'[e] = row[e]
    BY <1>1, <1>5
  <2>2. \A u \in tasks' : u.event = e => u \in tasks
    BY <1>3, <1>4, <1>5
  <2>3. \A v \in tasks : v \in tasks'
    BY <1>1
  <2>. QED  BY <1>2, <2>1, <2>2, <2>3, AccountSame DEF Guards
<1>6. CASE e \in S
  <2>1. /\ row[e].status \in {"pending", "failed"} /\ ~Guarded(e)
        /\ row[e].attempts \in Nat
    BY <1>1, <1>2, <1>6 DEF Claimable, LeaseFree, Guarded, Leased, TypeOK, Row
  <2>2. /\ row'[e].status = "pending" /\ row'[e].attempts = row[e].attempts + 1
        /\ row'[e].owner = w /\ row'[e].ttl = Lease
    BY <1>1, <1>6 DEF ClaimedRow
  <2>3. Guarded(e)'
    <3>1. Lease # Expired /\ w # NoWorker
      BY OutboxAssumption DEF OutboxAssumption, Expired
    <3>2. Leased(e)' /\ row'[e].ttl # Expired
      BY <2>2, <3>1 DEF Leased
    <3>3. PICK t \in tasks' : t.event = e /\ t.attempt = row[e].attempts + 1 /\ t.worker = w
      BY <1>3, <1>6
    <3>. QED  BY <2>2, <3>2, <3>3 DEF Guarded, Guards
  <2>4. Stragglers(e)' \subseteq Stragglers(e)
    <3>1. ASSUME NEW n \in Stragglers(e)' PROVE n \in Stragglers(e)
      <4>1. n \in 0..(MaxAttempts - 1) /\ n # row[e].attempts + 1
        BY <2>2, <2>3 DEF Stragglers
      <4>2. PICK u \in tasks' : u.event = e /\ u.attempt = n
        BY DEF Stragglers
      <4>3. u \in tasks
        BY <1>3, <1>4, <4>1, <4>2
      <4>. QED  BY <2>1, <4>1, <4>2, <4>3 DEF Stragglers
    <3>. QED  BY <3>1
  <2>. QED  BY <1>2, <2>1, <2>2, <2>3, <2>4, AccountClaimed
<1>. QED  BY <1>5, <1>6

LEMMA ProducerAccounts ==
  ASSUME IInv, TypeOK', AttemptsAccounted, NEW f \in Event, Producer(f), NEW e \in Event
  PROVE  Accounted(e)'
<1>1. /\ row[f].status \in {"none", "staged"}
      /\ row'[f].status \in {"none", "staged", "pending"}
      /\ row'[f].attempts = 0
      /\ \A g \in Event \ {f} : row'[g] = row[g]
      /\ tasks' = tasks /\ faults' = faults
  <2>1. row[f].status \in {"none", "staged"} /\ row \in [Event -> Row]
    BY DEF Producer, Enqueue, CommitProducer, RollbackProducer, IInv, TypeOK
  <2>2. row[f].attempts = 0
    BY <2>1 DEF AttemptsAccounted, Accounted, Committed
  <2>3. CASE Enqueue(f)
    BY <2>1, <2>3 DEF Enqueue, FreshRow
  <2>4. CASE CommitProducer(f) \/ RollbackProducer(f)
    BY <2>1, <2>2, <2>4 DEF CommitProducer, RollbackProducer, Row
  <2>. QED  BY <2>3, <2>4 DEF Producer
<1>2. TypeOK /\ Accounted(e) /\ \A t \in tasks : t.event # f
  BY <1>1 DEF IInv, AttemptsKnown, Committed, AttemptsAccounted
<1>3. CASE e # f
  <2>1. row'[e] = row[e]
    BY <1>3, <1>1
  <2>. QED  BY <1>1, <1>2, <2>1, AccountSame DEF Guards
<1>4. CASE e = f
  <2>1. Stragglers(e)' = {}
    BY <1>1, <1>2, <1>4 DEF Stragglers
  <2>2. Cardinality(Stragglers(e)') = 0
    BY <2>1, FS_EmptySet
  <2>3. AttemptsNext(e)' \in {0, 1}
    BY <1>1, <1>4 DEF AttemptsNext
  <2>. QED  BY <1>1, <1>2, <1>4, <2>2, <2>3, AccountType, StragglersType DEF Accounted
<1>. QED  BY <1>3, <1>4

LEMMA TickAccounts ==
  ASSUME IInv, TypeOK', Tick, NEW e \in Event, Accounted(e)
  PROVE  Accounted(e)'
<1>1. row'[e] = Later(row[e]) /\ tasks' = tasks /\ TypeOK /\ row[e] \in Row
  BY DEF Tick, IInv, TypeOK
<1>2. /\ row'[e].status = row[e].status
      /\ row'[e].attempts = row[e].attempts
      /\ row'[e].owner = row[e].owner
  BY <1>1 DEF Later
<1>3. \A u \in tasks' : u.event = e => \E v \in tasks : v.event = e /\ v.attempt = u.attempt
  BY <1>1
<1>4. CASE faults' = faults + 1
  BY <1>1, <1>2, <1>3, <1>4, AccountDropped
<1>5. CASE faults' # faults + 1
  <2>1. Overrun = {} /\ faults' = faults
    BY <1>5 DEF Tick
  <2>2. Guarded(e) => Guarded(e)'
    <3>1. ASSUME Guarded(e) PROVE row'[e].ttl # Expired
      <4>1. row[e].ttl # 0
        BY <2>1, <3>1 DEF Overrun, Guarded, Guards
      <4>2. row[e].ttl \in Expired..Lease /\ row[e].ttl # Expired
        BY <1>1, <3>1 DEF Row, Guarded
      <4>. QED  BY <1>1, <4>1, <4>2, OutboxAssumption DEF Later, Expired, OutboxAssumption
    <3>. QED  BY <1>1, <1>2, <3>1 DEF Guarded, Guards, Leased
  <2>. QED  BY <1>1, <1>2, <1>3, <2>1, <2>2, StragglersShrink, AccountKept
<1>. QED  BY <1>4, <1>5

LEMMA AccountsStep == IInv /\ AttemptsAccounted /\ [Next]_vars => AttemptsAccounted'
<1>. SUFFICES ASSUME IInv, AttemptsAccounted, [Next]_vars, NEW e \in Event PROVE Accounted(e)'
  BY DEF AttemptsAccounted
<1>0. TypeOK /\ TypeOK' /\ Accounted(e)
  BY TypeStep DEF IInv, AttemptsAccounted
<1>1. ASSUME NEW f \in Event, Producer(f) PROVE Accounted(e)'
  BY <1>0, <1>1, ProducerAccounts
<1>2. ASSUME NEW w \in Worker, Claim(w) PROVE Accounted(e)'
  BY <1>0, <1>2, ClaimAccounts
<1>3. ASSUME NEW w \in Worker, Return(w) PROVE Accounted(e)'
  <2>. DEFINE Detached(t) == IF t.worker = w THEN [t EXCEPT !.joined = FALSE] ELSE t
  <2>1. row' = row /\ faults' = faults /\ tasks' = {Detached(t) : t \in tasks}
    BY <1>3 DEF Return
  <2>2. \A t \in tasks : /\ Detached(t).event = t.event
                         /\ Detached(t).attempt = t.attempt
                         /\ Detached(t).worker = t.worker
    BY <1>0 DEF TypeOK, Task
  <2>. HIDE DEF Detached
  <2>3. \A u \in tasks' : u.event = e => \E v \in tasks : v.event = e /\ v.attempt = u.attempt
    BY <2>1, <2>2
  <2>4. \A v \in tasks : Guards(v, e) =>
          \E u \in tasks' : u.event = e /\ u.attempt = v.attempt /\ u.worker = v.worker
    BY <2>1, <2>2 DEF Guards
  <2>. QED  BY <1>0, <2>1, <2>3, <2>4, AccountSame
<1>4. ASSUME NEW w \in Worker, Crash(w) PROVE Accounted(e)'
  <2>1. row' = row /\ faults' = faults + 1 /\ tasks' \subseteq tasks
    BY <1>4 DEF Crash
  <2>2. \A u \in tasks' : u.event = e => \E v \in tasks : v.event = e /\ v.attempt = u.attempt
    BY <2>1
  <2>. QED  BY <1>0, <2>1, <2>2, AccountDropped
<1>5. ASSUME NEW t \in tasks, TaskStep(t) PROVE Accounted(e)'
  <2>0. t.event \in Event /\ t.attempt \in Nat
    BY <1>0 DEF TypeOK, Task
  <2>1. CASE Spawn(t) \/ PublishOk(t) \/ PublishErr(t)
    <3>1. row' = row /\ faults' = faults /\ \E p \in Phase : tasks' = Replace(t, p)
      BY <2>1 DEF Spawn, PublishOk, PublishErr, Phase
    <3>2. PICK p \in Phase : tasks' = Replace(t, p)
      BY <3>1
    <3>. DEFINE new == [t EXCEPT !.phase = p]
    <3>3. new.event = t.event /\ new.attempt = t.attempt /\ new.worker = t.worker
      BY <1>0 DEF TypeOK, Task
    <3>4. new \in tasks' /\ \A u \in tasks : u = t \/ u \in tasks'
      BY <3>2 DEF Replace
    <3>5. \A u \in tasks' : u = new \/ u \in tasks
      BY <3>2 DEF Replace
    <3>. HIDE DEF new
    <3>6. \A u \in tasks' : u.event = e => \E v \in tasks : v.event = e /\ v.attempt = u.attempt
      BY <3>3, <3>5
    <3>7. \A v \in tasks : Guards(v, e) =>
            \E u \in tasks' : u.event = e /\ u.attempt = v.attempt /\ u.worker = v.worker
      BY <3>3, <3>4 DEF Guards
    <3>. QED  BY <1>0, <3>1, <3>6, <3>7, AccountSame
  <2>2. CASE MarkPublished(t)
    <3>1. CASE MarkRefused(t) \/ row[t.event].status # "pending"
      BY <1>0, <2>2, <3>1, RefusedAccounts DEF MarkPublished, End
    <3>2. CASE ~(MarkRefused(t) \/ row[t.event].status # "pending")
      <4>1. /\ row' = [row EXCEPT ![t.event] = Released(@, "published", @.wait)]
            /\ tasks' = tasks \ {t} /\ faults' = faults
        BY <2>2, <3>2 DEF MarkPublished, End
      <4>2. row[t.event].wait \in Nat /\ "published" \in Status \cap Terminal
        BY <1>0, <2>0 DEF TypeOK, Row, Status, Terminal
      <4>. QED  BY <1>0, <3>2, <4>1, <4>2, MarkAccounts
    <3>. QED  BY <3>1, <3>2
  <2>3. CASE MarkFailed(t)
    <3>1. CASE MarkRefused(t)
      BY <1>0, <2>3, <3>1, RefusedAccounts DEF MarkFailed, End
    <3>2. CASE ~MarkRefused(t)
      <4>1. row[t.event].status = "pending"
        BY <1>0, <2>0, <3>2, OutboxAssumption
           DEF MarkRefused, Owns, IInv, OwnedIsPending, Leased, TypeOK, Task, OutboxAssumption
      <4>2. tasks' = tasks \ {t} /\ faults' = faults
        BY <2>3, <3>2 DEF MarkFailed, End
      <4>3. CASE GivesUp(t)
        <5>1. row' = [row EXCEPT ![t.event] = Released(@, "dead_letter", @.wait)]
          BY <2>3, <3>2, <4>3 DEF MarkFailed
        <5>2. row[t.event].wait \in Nat /\ "dead_letter" \in Status \cap Terminal
          BY <1>0, <2>0 DEF TypeOK, Row, Status, Terminal
        <5>. QED  BY <1>0, <3>2, <4>1, <4>2, <5>1, <5>2, MarkAccounts
      <4>4. CASE ~GivesUp(t)
        <5>1. row' = [row EXCEPT ![t.event] = Released(@, "failed", RetryDelay(t.attempt))]
          BY <2>3, <3>2, <4>4 DEF MarkFailed
        <5>2. RetryDelay(t.attempt) \in Nat /\ "failed" \in Status
          BY <2>0, RetryDelayType DEF Status
        <5>. QED  BY <1>0, <3>2, <4>1, <4>2, <4>4, <5>1, <5>2, MarkAccounts
      <4>. QED  BY <4>3, <4>4
    <3>. QED  BY <3>1, <3>2
  <2>. QED  BY <1>5, <2>1, <2>2, <2>3 DEF TaskStep
<1>6. ASSUME NEW t \in tasks, NEW phases, Breaks(t, phases) PROVE Accounted(e)'
  <2>1. row' = row /\ faults' = faults + 1 /\ tasks' \subseteq tasks
    BY <1>6 DEF Breaks, End
  <2>2. \A u \in tasks' : u.event = e => \E v \in tasks : v.event = e /\ v.attempt = u.attempt
    BY <2>1
  <2>. QED  BY <1>0, <2>1, <2>2, AccountDropped
<1>7. ASSUME row' = row, tasks' = tasks, faults' = faults PROVE Accounted(e)'
  BY <1>0, <1>7, AccountSame DEF Guards
<1>8. ASSUME NEW c \in Consumer, NEW i \in EventId, RecordConsumption(c, i) PROVE Accounted(e)'
  BY <1>7, <1>8 DEF RecordConsumption
<1>9. CASE Tick
  BY <1>0, <1>9, TickAccounts
<1>10. CASE UNCHANGED vars
  BY <1>7, <1>10 DEF vars
<1>11. ASSUME NEW w \in Worker, ClaimLost(w) PROVE Accounted(e)'
  BY <1>0, <1>11, ClaimLostAccounts
<1>. QED
  BY <1>1, <1>2, <1>3, <1>4, <1>5, <1>6, <1>8, <1>9, <1>10, <1>11 DEF Next, Panic, MarkError

\* However stale tasks, crashes, lost statements, panics and overrun leases interleave, an event is claimed at
\* most max_attempts times and once more for each fault, although claim never looks at the
\* counter, and no attempt is counted or logged twice (claim, mark_failed).
THEOREM AttemptsStayBounded == Spec => []AttemptsCount
<1>1. Init => AttemptsAccounted
  <2>. SUFFICES ASSUME Init, NEW e \in Event PROVE Accounted(e)
    BY DEF AttemptsAccounted
  <2>. QED  BY OutboxAssumption DEF OutboxAssumption, Init, Accounted, Committed, FreshRow
<1>2. IInv /\ AttemptsAccounted => AttemptsCount
  BY DEF IInv, AttemptsAccounted, Accounted, AttemptsCount, AttemptsBounded
<1>. QED  BY <1>1, <1>2, AccountsStep, IInvHolds, PTL DEF Spec
=============================================================================
