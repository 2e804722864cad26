----------------------------- MODULE AuditChain -----------------------------
(***************************************************************************)
(* The hash chained audit trail of crates/audit-store: every privileged    *)
(* mutation appends a sealed event to the chain of its organization inside *)
(* its own database transaction (append_in_tx), and so does a denial, in a *)
(* transaction that does nothing else (append).                            *)
(*                                                                         *)
(* An append is four statements: the transaction takes the advisory lock   *)
(* of the organization's chain, reads the highest committed position, and  *)
(* inserts the sealed row; the caller commits some time later, or the      *)
(* transaction is rolled back at any of these points.  The lock belongs to *)
(* the transaction and is given up when it ends, not before.               *)
(*                                                                         *)
(* The hash is a perfect one: the list of the payloads hashed into it.     *)
(***************************************************************************)
EXTENDS Integers, Sequences, FiniteSets

CONSTANTS Org,      \* organizations
          Tx        \* transactions, each runs once

ASSUME AuditAssumption == Org # {}

VARIABLES tx,       \* per transaction: where it is and what it holds
          audit,    \* per organization: committed rows, in the order of their commits
          applied   \* history: transactions whose mutation was committed

vars == <<tx, audit, applied>>

-----------------------------------------------------------------------------
(* Events, hashes and rows. *)

\* What a draft may be: invalid for validate_draft, or with or without a secret in its
\* before, after and result values.
Draft == {"plain", "secret", "invalid"}

Body == {"plain", "redacted"}

\* Mutant: the draft is stored as it came.
SanitizeNothing(body) == body

\* sanitize: secret values are replaced before anything is hashed or stored.
Sanitize(body) == IF body = "secret" THEN "redacted" ELSE body

Payload == [tx : Tx, body : Body]

NoHash == <<>>

Hash(payload, previous) == Append(previous, payload)

ChainRow == [seq : Nat \ {0}, payload : Payload, previous : Seq(Payload), hash : Seq(Payload)]

\* seal, and the columns append_in_tx inserts.
Seal(payload, seq, previous) ==
  [seq |-> seq, payload |-> payload, previous |-> previous, hash |-> Hash(payload, previous)]

-----------------------------------------------------------------------------
(* append_in_tx and the transaction around it. *)

Pc == {"idle", "open", "locked", "positioned", "failed", "inserted", "ended"}

Fresh == [pc |-> "idle", org |-> CHOOSE o \in Org : TRUE, draft |-> "plain",
          mutates |-> FALSE, seq |-> 0, previous |-> NoHash]

\* A caller begins a transaction; it mutates something, or only audits a denial.
Begin(t, o, draft, mutates) ==
  /\ tx[t].pc = "idle"
  /\ tx' = [tx EXCEPT ![t] = [pc |-> "open", org |-> o, draft |-> draft, mutates |-> mutates,
                              seq |-> 0, previous |-> NoHash]]
  /\ UNCHANGED <<audit, applied>>

\* Mutant: a session lock, which outlives its transaction.
HoldsForSession(t, o) == tx[t].org = o /\ tx[t].pc \notin {"idle", "open"}

\* Transaction t has the chain lock of o: from pg_advisory_xact_lock to its end.
Holds(t, o) == tx[t].org = o /\ tx[t].pc \notin {"idle", "open", "ended"}

\* Mutant: the lock is not waited for.
LockFreeAlways(o) == TRUE

LockFree(o) == \A t \in Tx : ~Holds(t, o)

\* validate_draft lets the draft pass and lock_organization_chain returns.
Lock(t) ==
  /\ tx[t].pc = "open"
  /\ tx[t].draft # "invalid"
  /\ LockFree(tx[t].org)
  /\ tx' = [tx EXCEPT ![t].pc = "locked"]
  /\ UNCHANGED <<audit, applied>>

\* ORDER BY chain_sequence DESC LIMIT 1, over the committed rows.
Top(o) == CHOOSE i \in DOMAIN audit[o] :
            \A j \in DOMAIN audit[o] : audit[o][j].seq <= audit[o][i].seq

\* Mutant: positions start at zero.
NextSeqFromZero(o) == IF audit[o] = <<>> THEN 0 ELSE audit[o][Top(o)].seq + 1

NextSeq(o) == IF audit[o] = <<>> THEN 1 ELSE audit[o][Top(o)].seq + 1

NextPrevious(o) == IF audit[o] = <<>> THEN NoHash ELSE audit[o][Top(o)].hash

\* next_chain_position, a statement of its own after the lock.
Position(t) ==
  /\ tx[t].pc = "locked"
  /\ tx' = [tx EXCEPT ![t] = [pc |-> "positioned", org |-> @.org, draft |-> @.draft,
                              mutates |-> @.mutates, seq |-> NextSeq(@.org),
                              previous |-> NextPrevious(@.org)]]
  /\ UNCHANGED <<audit, applied>>

RowOf(t) == Seal([tx |-> t, body |-> Sanitize(tx[t].draft)], tx[t].seq, tx[t].previous)

\* uq_audit_chain_sequence and the unique event hash refuse the insert.
Clashes(t) == \E i \in DOMAIN audit[tx[t].org] :
                \/ audit[tx[t].org][i].seq = tx[t].seq
                \/ audit[tx[t].org][i].hash = RowOf(t).hash

\* INSERT INTO audit_events; its error leaves the caller nothing but a rollback.
Insert(t) ==
  /\ tx[t].pc = "positioned"
  /\ tx' = [tx EXCEPT ![t].pc = IF Clashes(t) THEN "failed" ELSE "inserted"]
  /\ UNCHANGED <<audit, applied>>

\* validate_draft or the insert answered with an error.
Refused(t) == tx[t].pc = "failed" \/ (tx[t].pc = "open" /\ tx[t].draft = "invalid")

\* Mutant: the caller commits although its audit event was refused.
MayCommitUnaudited(t) == tx[t].pc = "inserted" \/ Refused(t)

MayCommit(t) == tx[t].pc = "inserted"

\* The caller commits its mutation together with the event.
Commit(t) ==
  /\ MayCommit(t)
  /\ audit' = IF tx[t].pc = "inserted"
              THEN [audit EXCEPT ![tx[t].org] = Append(@, RowOf(t))]
              ELSE audit
  /\ applied' = IF tx[t].mutates THEN applied \cup {t} ELSE applied
  /\ tx' = [tx EXCEPT ![t].pc = "ended"]

\* The append failed and the caller drops its transaction.
GiveUp(t) ==
  /\ Refused(t)
  /\ tx' = [tx EXCEPT ![t].pc = "ended"]
  /\ UNCHANGED <<audit, applied>>

\* A later step of the caller fails, the request is cancelled, the process or the
\* connection dies: the server rolls the transaction back wherever it is.
Rollback(t) ==
  /\ tx[t].pc \notin {"idle", "ended"}
  /\ tx' = [tx EXCEPT ![t].pc = "ended"]
  /\ UNCHANGED <<audit, applied>>

-----------------------------------------------------------------------------
Init ==
  /\ tx = [t \in Tx |-> Fresh]
  /\ audit = [o \in Org |-> <<>>]
  /\ applied = {}

AppendStep(t) == Lock(t) \/ Position(t) \/ Insert(t) \/ Commit(t) \/ GiveUp(t)

Next ==
  \E t \in Tx :
    \/ \E o \in Org, draft \in Draft, mutates \in BOOLEAN : Begin(t, o, draft, mutates)
    \/ AppendStep(t)
    \/ Rollback(t)

Spec == Init /\ [][Next]_vars

\* Callers and the server go on with a transaction; the server hands an advisory lock to
\* its waiters in turn, so a transaction that finds it free over and over does get it.
FairSpec == Spec /\ \A t \in Tx : SF_vars(AppendStep(t))

-----------------------------------------------------------------------------
(* verify_organization_chain, as a function of the sealed rows it reads. *)

\* Rows before r in ORDER BY chain_sequence.
Before(rows, r) == {q \in rows : q.seq < r.seq}

Predecessor(rows, r) == CHOOSE q \in Before(rows, r) : \A p \in Before(rows, r) : p.seq <= q.seq

\* expected_previous when the loop reaches r and every row before it was accepted.
ExpectedPrevious(rows, r) ==
  IF Before(rows, r) = {} THEN NoHash ELSE Predecessor(rows, r).hash

\* Mutant: a verification that only recomputes hashes.
FaultOfHashOnly(rows, r) ==
  CASE r.hash # Hash(r.payload, r.previous) -> "event_hash_mismatch"
    [] OTHER -> "none"

\* The first test of the loop's body that r fails.
FaultOf(rows, r) ==
  CASE r.seq # Cardinality(Before(rows, r)) + 1            -> "chain_sequence_gap"
    [] r.previous # ExpectedPrevious(rows, r)              -> "previous_hash_mismatch"
    [] r.hash # Hash(r.payload, r.previous)                -> "event_hash_mismatch"
    [] Sanitize(r.payload.body) # r.payload.body           -> "canonical_payload_invalid"
    [] OTHER                                               -> "none"

Faulty(rows) == {r \in rows : FaultOf(rows, r) # "none"}

\* AuditVerification: valid, or broken at the first row that fails a test, with the
\* number of rows accepted before it.
Verify(rows) ==
  LET faulty == Faulty(rows)
      first  == CHOOSE r \in faulty : \A q \in faulty : r.seq <= q.seq
  IN  IF faulty = {}
      THEN [result |-> "valid", checked |-> Cardinality(rows), reason |-> "none"]
      ELSE [result |-> "broken", checked |-> Cardinality(Before(rows, first)),
            reason |-> FaultOf(rows, first)]

-----------------------------------------------------------------------------
(* Properties. *)

Rows(o) == {audit[o][i] : i \in DOMAIN audit[o]}

\* Every variable has its shape; in particular nothing unsanitized is ever stored and
\* positions are positive (check audit_sealed_fields_together of migration 0007).
TypeOK ==
  /\ tx \in [Tx -> [pc : Pc, org : Org, draft : Draft, mutates : BOOLEAN, seq : Nat,
                    previous : Seq(Payload)]]
  /\ audit \in [Org -> Seq(ChainRow)]
  /\ applied \subseteq Tx

\* What next_chain_position answered is still the end of the chain when the row is
\* inserted and when its transaction commits: no two transactions get one position and
\* the unique indexes never refuse an append (lock_organization_chain).
PositionIsFresh ==
  \A t \in Tx :
    tx[t].pc \in {"positioned", "failed", "inserted"} =>
      /\ tx[t].seq = Len(audit[tx[t].org]) + 1
      /\ ~Clashes(t)

\* However transactions overlap and roll back, the rows of an organization are numbered
\* 1, 2, ... in the order of their commits and each holds the hash of the one before it:
\* the chain has no gap and no fork (append_in_tx).
ChainIsLinked ==
  \A o \in Org : \A i \in DOMAIN audit[o] :
    /\ audit[o][i].seq = i
    /\ audit[o][i].previous = (IF i = 1 THEN NoHash ELSE audit[o][i - 1].hash)
    /\ audit[o][i].hash = Hash(audit[o][i].payload, audit[o][i].previous)

\* The chains implement the promise of AuditLog: they only grow, no transaction is in
\* twice, nothing secret is in, and "a privileged mutation and its audit entry either
\* commit together or roll back together" (append_in_tx).
Promise == INSTANCE AuditLog WITH
  log <- [o \in Org |-> [i \in DOMAIN audit[o] |-> audit[o][i].payload]]

ImplementsAuditLog == Promise!Spec

\* A row of the chain after one column of it was overwritten.
Altered(r) ==
  {[r EXCEPT !.payload = p] : p \in Payload} \cup {[r EXCEPT !.previous = NoHash]}
    \cup {[r EXCEPT !.hash = Hash(p, r.previous)] : p \in Payload}
    \cup {Seal(p, r.seq, r.previous) : p \in Payload}

EndHash(o) == IF audit[o] = <<>> THEN NoHash ELSE audit[o][Len(audit[o])].hash

\* Rows put in beside a chain, at the positions uq_audit_chain_sequence leaves: sealed, or
\* linked to the end of the chain with a hash of the chain.
PutIn(o) ==
  LET hashes == {NoHash} \cup {r.hash : r \in Rows(o)}
      behind == Len(audit[o]) + 1
  IN  {Seal(p, s, h) : p \in Payload, s \in {behind, behind + 1}, h \in hashes}
        \cup {[Seal(p, behind, EndHash(o)) EXCEPT !.hash = h] : p \in Payload, h \in hashes}

\* Verification accepts a chain the store itself has written, at any moment and with every
\* row counted, and no selection of its rows but a beginning.  A row with one column changed,
\* or sealed anew with another payload, is reported while a later row is still there; when
\* it is the last one, only resealing it goes unnoticed.  A row that was put in goes
\* unnoticed only if it is sealed as the next one (verify_organization_chain).
VerifyIsExact ==
  \A o \in Org :
    LET beginnings == {{audit[o][i] : i \in 1..n} : n \in 0..Len(audit[o])}
        last == audit[o][Len(audit[o])]
    IN  /\ Verify(Rows(o)).checked = Len(audit[o])
        /\ \A kept \in SUBSET Rows(o) : Verify(kept).result = "valid" <=> kept \in beginnings
        /\ \A r \in Rows(o) : \A a \in Altered(r) \ {r} :
             /\ r # last => Verify((Rows(o) \ {r}) \cup {a}).result = "broken"
             /\ Verify((Rows(o) \ {r}) \cup {a}).result = "valid" =>
                  a = Seal(a.payload, r.seq, r.previous)
        /\ \A a \in PutIn(o) :
             Verify(Rows(o) \cup {a}).result = "valid" =>
               a = Seal(a.payload, Len(audit[o]) + 1, EndHash(o))

\* Every transaction that began comes to its end: the chain lock is never left behind by
\* a commit, an error or a lost connection (lock_organization_chain).
EveryAppendEnds == \A t \in Tx : tx[t].pc # "idle" ~> tx[t].pc = "ended"
=============================================================================
