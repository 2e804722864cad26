---------------------------- MODULE AuthSession ----------------------------
(***************************************************************************)
(* Refresh token rotation of apps/backend/src/auth.rs: one session, its    *)
(* family of refresh tokens, and concurrent refresh and logout requests    *)
(* that present any token of the family that was ever handed out.          *)
(*                                                                         *)
(* Each request is one READ COMMITTED transaction.  It locks rows one at a *)
(* time and waits where another transaction holds a row; an UPDATE touches *)
(* the rows that were committed when its statement began.  What it writes  *)
(* is visible when it commits.  Waiting in a circle makes PostgreSQL roll  *)
(* back one of the transactions in it.                                     *)
(*                                                                         *)
(* A token is its generation; row SessionRow is the row of sessions.       *)
(***************************************************************************)
EXTENDS Integers, FiniteSets

CONSTANTS MaxCalls, \* bound on the requests
          MaxGen,   \* bound on the generations explored
          NoCall    \* nobody holds the row

\* Requests, each served once, numbered as they arrive.
Call == 1..MaxCalls

ASSUME AuthAssumption == MaxCalls \in Nat /\ MaxGen \in Nat /\ NoCall \notin Call

VARIABLES minted,          \* committed rows of session_refresh_tokens
          consumed,        \* those with consumed_at
          revoked,         \* those with revoked_at
          sessionRevoked,  \* sessions.revoked_at IS NOT NULL
          expired,         \* expires_at, the same in all rows, has passed
          known,           \* tokens some client has received
          holder,          \* row locks
          calls            \* the requests

vars == <<minted, consumed, revoked, sessionRevoked, expired, known, holder, calls>>

-----------------------------------------------------------------------------
SessionRow == -1
NoRow == -2

Gen == 0..MaxGen
Rows == Gen \cup {SessionRow}

\* Where a request is: which statement it executes, or that it has been answered.
Pc == {"idle", "token", "session", "rotate", "family", "last", "commit", "done"}

\* No more than the answers of refresh and logout, and the loss of an answer.
Answer == {"none", "issued", "lost", "reuse", "invalid", "out", "unavailable"}

CallState == [op      : {"refresh", "logout"},
              gen     : Gen,
              pc      : Pc,
              want    : Rows \cup {NoRow},
              targets : SUBSET Gen,
              late    : BOOLEAN,
              answer  : Answer]

Idle == [op |-> "logout", gen |-> 0, pc |-> "idle", want |-> NoRow, targets |-> {},
         late |-> FALSE, answer |-> "none"]

InFlight(c) == calls[c].pc \notin {"idle", "done"}

\* The holder that c waits for, if it waits.
WaitsFor(c) == IF calls[c].want = NoRow THEN NoCall ELSE holder[calls[c].want]

HeldBy(c) == {r \in Rows : holder[r] = c}

\* The end of c's transaction gives up its locks.
Unlocked(c) == [r \in Rows |-> IF holder[r] = c THEN NoCall ELSE holder[r]]

Answered(c, answer) ==
  [calls EXCEPT ![c] = [op |-> @.op, gen |-> @.gen, pc |-> "done", want |-> NoRow,
                        targets |-> {}, late |-> @.late, answer |-> answer]]

-----------------------------------------------------------------------------
\* login: the session and its first token; the answer may be lost.
Login ==
  /\ minted = {}
  /\ minted' = {0}
  /\ known' \in {{}, {0}}
  /\ UNCHANGED <<consumed, revoked, sessionRevoked, expired, holder, calls>>

\* refresh and logout begin: now is read before the first lock is asked for, so late
\* says whether the session had expired then.  MaxGen bounds the rotations.
Present(c, op, g) ==
  /\ calls[c].pc = "idle"
  /\ c > 1 => calls[c - 1].pc # "idle"
  /\ g \in known
  /\ op = "refresh" => g < MaxGen
  /\ calls' = [calls EXCEPT ![c] = [op |-> op, gen |-> g, pc |-> "token", want |-> g,
                                    targets |-> {}, late |-> expired, answer |-> "none"]]
  /\ UNCHANGED <<minted, consumed, revoked, sessionRevoked, expired, known, holder>>

\* Mutant: refresh does not mind a consumed token.
RejectsRevoked(c) == calls[c].gen \in revoked \/ sessionRevoked

\* Mutant: refresh looks at its token row alone.
RejectsByToken(c) == calls[c].gen \in consumed \cup revoked

\* The reuse test of refresh, on the rows it has locked.
Rejects(c) == calls[c].gen \in consumed \cup revoked \/ sessionRevoked

\* The token rows that an UPDATE of the family sees when it begins.
Snapshot(c) == minted

\* Mutant: the row is read without its lock.
ObtainsShared(c, pc) ==
  /\ calls[c].pc = pc
  /\ calls[c].want # NoRow
  /\ holder' = [holder EXCEPT ![calls[c].want] = c]

\* c gets the row it has asked for.
Obtains(c, pc) ==
  /\ calls[c].pc = pc
  /\ calls[c].want # NoRow
  /\ WaitsFor(c) = NoCall
  /\ holder' = [holder EXCEPT ![calls[c].want] = c]

\* Where c goes with its next statement, and the rows that one is to update.
Goes(c, pc, want, targets) ==
  calls' = [calls EXCEPT ![c] = [op |-> @.op, gen |-> @.gen, pc |-> pc, want |-> want,
                                 targets |-> targets, late |-> @.late, answer |-> @.answer]]

\* revoke_family begins: its first UPDATE takes the rows of the family in any order.
GoesToRevoke(c, held) ==
  LET rest == Snapshot(c) \ held
  IN  IF rest = {} THEN Goes(c, "last", SessionRow, Snapshot(c))
                   ELSE \E g \in rest : Goes(c, "family", g, Snapshot(c))

\* The SELECT ... FOR UPDATE on the token row.
LockToken(c) ==
  /\ Obtains(c, "token")
  /\ IF calls[c].op = "refresh" THEN Goes(c, "session", SessionRow, {})
                                ELSE GoesToRevoke(c, {calls[c].gen})
  /\ UNCHANGED <<minted, consumed, revoked, sessionRevoked, expired, known>>

\* FOR UPDATE OF rt, s: refresh has both rows and decides.
LockSession(c) ==
  /\ Obtains(c, "session")
  /\ IF Rejects(c) \/ calls[c].late THEN GoesToRevoke(c, {calls[c].gen})
                                    ELSE Goes(c, "rotate", NoRow, {})
  /\ UNCHANGED <<minted, consumed, revoked, sessionRevoked, expired, known>>

\* revoke_family: the next row of the UPDATE of session_refresh_tokens.
LockFamily(c) ==
  /\ Obtains(c, "family")
  /\ LET rest == calls[c].targets \ (HeldBy(c) \cup {calls[c].want})
     IN  IF rest = {} THEN Goes(c, "last", SessionRow, calls[c].targets)
                      ELSE \E g \in rest : Goes(c, "family", g, calls[c].targets)
  /\ UNCHANGED <<minted, consumed, revoked, sessionRevoked, expired, known>>

\* Mutant: the sessions row is updated on a connection of its own.
FreeOnly(c) == WaitsFor(c) = NoCall

OwnOrFree(c) == WaitsFor(c) \in {NoCall, c}

\* revoke_family: the UPDATE of sessions; refresh holds that row already.
LockLast(c) ==
  /\ calls[c].pc = "last"
  /\ OwnOrFree(c)
  /\ holder' = [holder EXCEPT ![SessionRow] = c]
  /\ Goes(c, "commit", NoRow, calls[c].targets)
  /\ UNCHANGED <<minted, consumed, revoked, sessionRevoked, expired, known>>

\* Mutant: the new token is marked as consumed, not the presented one.
SpentNext(c) == calls[c].gen + 1

\* The token a rotation marks as consumed.
Spent(c) == calls[c].gen

\* refresh inserts the next generation, consumes its own, updates the session and
\* commits.  UNIQUE (family_id, generation) would refuse a second successor.  What
\* follows the commit may fail or its answer may be lost; then nobody has the new token.
Rotate(c) ==
  /\ calls[c].pc = "rotate"
  /\ IF calls[c].gen + 1 \in minted
     THEN /\ calls' = Answered(c, "unavailable")
          /\ UNCHANGED <<minted, consumed, known>>
     ELSE /\ minted' = minted \cup {calls[c].gen + 1}
          /\ consumed' = consumed \cup {Spent(c)}
          /\ \/ calls' = Answered(c, "issued") /\ known' = known \cup {calls[c].gen + 1}
             \/ calls' = Answered(c, "lost") /\ UNCHANGED known
  /\ holder' = Unlocked(c)
  /\ UNCHANGED <<revoked, sessionRevoked, expired>>

\* Mutant: only the tokens are revoked.
SessionAfterRevokeTokensOnly == sessionRevoked

SessionAfterRevoke == TRUE

\* The commit of a revocation, and the answer.
CommitRevocation(c) ==
  /\ calls[c].pc = "commit"
  /\ revoked' = revoked \cup calls[c].targets
  /\ sessionRevoked' = SessionAfterRevoke
  /\ holder' = Unlocked(c)
  /\ calls' = Answered(c, CASE calls[c].op = "logout" -> "out"
                            [] calls[c].op = "refresh" /\ Rejects(c) -> "reuse"
                            [] OTHER -> "invalid")
  /\ UNCHANGED <<minted, consumed, expired, known>>

-----------------------------------------------------------------------------
\* The rows are lost to a rollback: the request timed out, its connection or the process
\* died.
Abort(c) ==
  /\ InFlight(c)
  /\ calls' = Answered(c, "unavailable")
  /\ holder' = Unlocked(c)
  /\ UNCHANGED <<minted, consumed, revoked, sessionRevoked, expired, known>>

\* c waits in a circle.
Deadlocked(c) ==
  \E D \in SUBSET Call : /\ c \in D
                         /\ {WaitsFor(d) : d \in D} = D
                         /\ \A d \in D : WaitsFor(d) # d

\* PostgreSQL's deadlock detection makes c its victim.
BreakDeadlock(c) == Deadlocked(c) /\ Abort(c)

\* The 30 days of the session are over.
Expire ==
  /\ minted # {}
  /\ ~expired
  /\ expired' = TRUE
  /\ UNCHANGED <<minted, consumed, revoked, sessionRevoked, known, holder, calls>>

-----------------------------------------------------------------------------
Init ==
  /\ minted = {}
  /\ consumed = {}
  /\ revoked = {}
  /\ sessionRevoked = FALSE
  /\ expired = FALSE
  /\ known = {}
  /\ holder = [r \in Rows |-> NoCall]
  /\ calls = [c \in Call |-> Idle]

Step(c) == \/ LockToken(c) \/ LockSession(c) \/ LockFamily(c) \/ LockLast(c)
           \/ Rotate(c) \/ CommitRevocation(c)

Next ==
  \/ Login
  \/ Expire
  \/ \E c \in Call :
       \/ \E op \in {"refresh", "logout"}, g \in Gen : Present(c, op, g)
       \/ Step(c)
       \/ Abort(c)
       \/ BreakDeadlock(c)

Spec == Init /\ [][Next]_vars

\* The server polls the requests it has accepted, the database grants a free row and its
\* deadlock detection comes round.  A row that others keep taking is granted in turn.
FairSpec ==
  /\ Spec
  /\ \A c \in Call : SF_vars(Step(c))
  /\ WF_vars(\E c \in Call : BreakDeadlock(c))

-----------------------------------------------------------------------------
(* Properties. *)

\* Every variable has its shape, and a transaction that is about to write and commit holds
\* the lock of every row it writes.
TypeOK ==
  /\ minted \subseteq Gen
  /\ consumed \subseteq minted
  /\ revoked \subseteq minted
  /\ sessionRevoked \in BOOLEAN
  /\ expired \in BOOLEAN
  /\ known \subseteq minted
  /\ holder \in [Rows -> Call \cup {NoCall}]
  /\ calls \in [Call -> CallState]
  /\ \A c \in Call : calls[c].pc \in {"rotate", "commit"} =>
                      {calls[c].gen, SessionRow} \cup calls[c].targets \subseteq HeldBy(c)

\* Two requests that present one token never both rotate it: the family is one chain of
\* generations in which all but the last are consumed, and the unique index on the
\* generation never refuses a rotation (refresh, FOR UPDATE OF rt, s).
FamilyIsAChain ==
  /\ minted # {} => \E n \in Gen : minted = 0..n /\ consumed = 0..(n - 1)
  /\ \A c \in Call : calls[c].pc = "rotate" => calls[c].gen + 1 \notin minted

Usable(g) == g \in minted \ (consumed \cup revoked) /\ ~sessionRevoked

\* An answer that says the session is over is true from then on: after a detected reuse,
\* an expiry or a logout no token of the family is worth anything, not even one that a
\* rotation in flight added behind the back of the revocation (revoke_family).  And one
\* that issues a token is for a request that began while the session lasted, however long
\* it then waited for the rows (refresh, now and the test of expires_at).
AnswersAreTrue ==
  \A c \in Call :
    /\ calls[c].answer \in {"reuse", "invalid", "out"} => \A g \in Gen : ~Usable(g)
    /\ calls[c].answer \in {"issued", "lost"} => ~calls[c].late

\* A session ends only for cause: a logout, its expiry, or one token presented twice.  No
\* overlap of requests that each present a token of their own looks like reuse (refresh).
NoFalseAlarm ==
  sessionRevoked =>
    \/ expired
    \/ \E c \in Call : calls[c].op = "logout" /\ calls[c].pc = "done"
    \/ \E c, d \in Call : c # d /\ calls[c].gen = calls[d].gen /\ calls[c].op = "refresh"
                          /\ calls[d].op = "refresh"

\* The family implements RefreshFamily: one successor at a time and only while the
\* session is alive, and a revocation is final.
Promise == INSTANCE RefreshFamily WITH
  current <- Cardinality(minted) - 1,
  alive <- ~sessionRevoked

ImplementsRefreshFamily == Promise!Spec

\* Every request is answered: no set of rotations and revocations blocks for ever, although
\* they take the rows of the family in different orders (refresh, logout, revoke_family).
EveryCallIsAnswered ==
  \A c \in Call : InFlight(c) ~> ~InFlight(c)
=============================================================================
