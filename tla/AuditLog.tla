------------------------------ MODULE AuditLog ------------------------------
(***************************************************************************)
(* What the audit trail promises, with no lock, transaction step, sequence *)
(* number or hash in sight: each organization has one list of events that  *)
(* only ever grows at its end, a transaction is in it at most once, and a  *)
(* mutation is applied in the very step that records its event.            *)
(***************************************************************************)
EXTENDS Sequences

CONSTANTS Org,      \* organizations
          Tx        \* transactions that write an audit event

VARIABLES log,      \* per organization: the events, oldest first
          applied   \* transactions whose mutation took effect

vars == <<log, applied>>

\* No body carries a secret.
Body == {"plain", "redacted"}

Recorded == {t \in Tx : \E o \in Org : \E i \in DOMAIN log[o] : log[o][i].tx = t}

Init == /\ log = [o \in Org |-> <<>>]
        /\ applied = {}

Record(t, o, b) ==
  /\ t \notin Recorded
  /\ log' = [log EXCEPT ![o] = Append(@, [tx |-> t, body |-> b])]
  /\ applied' \in {applied, applied \cup {t}}

Next == \E t \in Tx, o \in Org, b \in Body : Record(t, o, b)

Spec == Init /\ [][Next]_vars
=============================================================================
