----------------------------- MODULE AuthProofs -----------------------------
(***************************************************************************)
(* Theorems about AuthSession, for any number of requests and generations: *)
(* one chain of tokens, revocations that are final, no false alarm, and    *)
(* the refinement of RefreshFamily.                                        *)
(***************************************************************************)
EXTENDS AuthSession, FiniteSetTheorems, TLAPS

-----------------------------------------------------------------------------
(* The inductive invariant. *)

Revoking == {"family", "last", "commit"}

\* A request has locked the rows its earlier statements were about.
LocksInv(c) ==
  /\ calls[c].pc # "idle" => calls[c].gen \in minted
  /\ calls[c].pc = "token" => calls[c].want = calls[c].gen
  /\ calls[c].pc \in {"session", "last"} => calls[c].want = SessionRow
  /\ calls[c].pc \in {"session", "rotate"} \cup Revoking => holder[calls[c].gen] = c
  /\ calls[c].pc \in {"rotate", "commit"} => holder[SessionRow] = c
  /\ calls[c].pc \in {"rotate", "last", "commit"} => \A g \in calls[c].targets : holder[g] = c
  /\ calls[c].targets \subseteq minted

\* What the reuse test has found, and the reason of a revocation.
DecisionInv(c) ==
  /\ calls[c].op = "refresh" => calls[c].pc # "idle" /\ calls[c].gen < MaxGen
  /\ calls[c].pc \in {"session", "rotate"} => calls[c].op = "refresh"
  /\ calls[c].pc = "rotate" => calls[c].gen \notin consumed \cup revoked /\ ~sessionRevoked
  /\ calls[c].pc = "rotate" => ~calls[c].late
  /\ calls[c].late => expired
  /\ calls[c].pc \in Revoking /\ calls[c].op = "refresh" =>
       expired \/ sessionRevoked \/ calls[c].gen \in consumed

AnswerInv(c) ==
  /\ calls[c].pc # "done" => calls[c].answer = "none"
  /\ calls[c].answer \in {"reuse", "invalid", "out"} => sessionRevoked
  /\ calls[c].answer \in {"issued", "lost"} => ~calls[c].late

CallInv(c) == LocksInv(c) /\ DecisionInv(c) /\ AnswerInv(c)

\* The shape of the rows and the locks.
RowsType ==
  /\ minted \subseteq Gen
  /\ consumed \subseteq minted
  /\ revoked \subseteq minted
  /\ sessionRevoked \in BOOLEAN
  /\ expired \in BOOLEAN
  /\ known \subseteq minted
  /\ holder \in [Rows -> Call \cup {NoCall}]

Chain == minted # {} => \E n \in Gen : minted = 0..n /\ consumed = 0..(n - 1)

TokensDieWithTheSession == revoked # {} => sessionRevoked

\* Whoever consumed a token was answered.
ConsumedByRequest ==
  \A g \in consumed : \E d \in Call :
    calls[d].op = "refresh" /\ calls[d].gen = g /\ calls[d].pc = "done"

IInv == /\ RowsType
        /\ calls \in [Call -> CallState]
        /\ Chain
        /\ TokensDieWithTheSession
        /\ ConsumedByRequest
        /\ NoFalseAlarm
        /\ \A c \in Call : CallInv(c)

-----------------------------------------------------------------------------
(* Facts about the rows. *)

LEMMA RowFacts ==
  /\ SessionRow \in Rows /\ NoRow \notin Rows /\ NoCall \notin Call
  /\ Gen \subseteq Rows /\ Gen \subseteq Int /\ SessionRow \notin Gen
  /\ MaxGen \in Nat
BY AuthAssumption DEF AuthAssumption, Rows, Gen, SessionRow, NoRow

\* The token that is not consumed is the last one.
LEMMA FreshIsLast ==
  ASSUME RowsType, Chain, NEW g \in minted \ consumed
  PROVE  minted = 0..g /\ consumed = 0..(g - 1) /\ g + 1 \notin minted
<1>1. PICK n \in Gen : minted = 0..n /\ consumed = 0..(n - 1)
  BY DEF Chain
<1>2. n \in Int /\ g \in Int
  BY <1>1, RowFacts
<1>3. g = n
  BY <1>1, <1>2
<1>. QED  BY <1>1, <1>2, <1>3

-----------------------------------------------------------------------------
(* Requests that a step does not touch. *)

\* Rows are added and marked; no mark is taken back.
RowsStay ==
  /\ minted \subseteq minted'
  /\ consumed \subseteq consumed'
  /\ expired => expired'
  /\ sessionRevoked => sessionRevoked'

\* Another transaction takes no row from c, and marks no row that c is about to use.
LeavesAlone(c) ==
  /\ \A r \in Rows : holder[r] = c => holder'[r] = c
  /\ calls[c].pc = "rotate" => calls[c].gen \notin consumed' \cup revoked' /\ ~sessionRevoked'

LEMMA UntouchedKeepsInv ==
  ASSUME IInv, RowsStay, NEW c \in Call, calls'[c] = calls[c], LeavesAlone(c)
  PROVE  CallInv(c)'
<1>1. CallInv(c) /\ calls[c] \in CallState
  BY DEF IInv
<1>2. calls[c].gen \in Rows /\ SessionRow \in Rows /\ calls[c].targets \subseteq Rows
  BY <1>1, RowFacts DEF CallState
<1>3. LocksInv(c)'
  BY <1>1, <1>2 DEF CallInv, LocksInv, LeavesAlone, RowsStay
<1>4. DecisionInv(c)'
  BY <1>1 DEF CallInv, DecisionInv, LeavesAlone, RowsStay
<1>5. AnswerInv(c)'
  BY <1>1 DEF CallInv, AnswerInv, RowsStay
<1>. QED  BY <1>3, <1>4, <1>5 DEF CallInv

\* A request keeps what it asks for.
Continues(c, x) == /\ calls[c].pc # "idle"
                   /\ x.op = calls[c].op /\ x.gen = calls[c].gen
                   /\ calls[c].pc # "done"

\* A step of one request that leaves the session alone.
LEMMA CallKeepsInv ==
  ASSUME IInv, RowsStay, RowsType', Chain', TokensDieWithTheSession',
         NEW c \in Call, NEW x \in CallState, calls' = [calls EXCEPT ![c] = x],
         Continues(c, x) \/ calls[c].pc = "idle",
         CallInv(c)', \A q \in Call \ {c} : LeavesAlone(q),
         \A g \in consumed' \ consumed : x.op = "refresh" /\ x.gen = g /\ x.pc = "done",
         sessionRevoked' => sessionRevoked
                            \/ expired' \/ (x.op = "logout" /\ x.pc = "done")
                            \/ \E d \in Call \ {c} : /\ x.gen = calls[d].gen
                                                     /\ {x.op, calls[d].op} = {"refresh"}
  PROVE  IInv'
<1>1. /\ calls' \in [Call -> CallState] /\ calls'[c] = x
      /\ \A q \in Call \ {c} : calls'[q] = calls[q]
  BY DEF IInv
<1>2. \A q \in Call : CallInv(q)'
  BY <1>1, UntouchedKeepsInv
<1>3. \A d \in Call : calls[d].pc = "done" => calls'[d] = calls[d]
  BY <1>1 DEF Continues
<1>4. \A d \in Call : calls[d].op = "refresh" =>
                        calls'[d].op = "refresh" /\ calls'[d].gen = calls[d].gen
  BY <1>1 DEF Continues, IInv, CallInv, DecisionInv
<1>5. ConsumedByRequest'
  <2>. SUFFICES ASSUME NEW g \in consumed'
                PROVE  \E d \in Call : calls'[d].op = "refresh" /\ calls'[d].gen = g
                                       /\ calls'[d].pc = "done"
    BY DEF ConsumedByRequest
  <2>1. CASE g \in consumed
    BY <1>3, <2>1 DEF IInv, ConsumedByRequest
  <2>2. CASE g \notin consumed
    BY <1>1, <2>2
  <2>. QED  BY <2>1, <2>2
<1>6. NoFalseAlarm'
  <2>. SUFFICES ASSUME sessionRevoked', ~expired'
                PROVE  \/ \E d \in Call : calls'[d].op = "logout" /\ calls'[d].pc = "done"
                       \/ \E d, e \in Call : /\ d # e /\ calls'[d].gen = calls'[e].gen
                                             /\ calls'[d].op = "refresh"
                                             /\ calls'[e].op = "refresh"
    BY DEF NoFalseAlarm
  <2>1. CASE sessionRevoked
    <3>1. \/ \E d \in Call : calls[d].op = "logout" /\ calls[d].pc = "done"
          \/ \E d, e \in Call : /\ d # e /\ calls[d].gen = calls[e].gen
                                /\ calls[d].op = "refresh" /\ calls[e].op = "refresh"
      BY <2>1 DEF IInv, NoFalseAlarm, RowsStay
    <3>. QED  BY <1>3, <1>4, <3>1
  <2>2. CASE x.op = "logout" /\ x.pc = "done"
    BY <1>1, <2>2
  <2>3. CASE \E d \in Call \ {c} : /\ x.gen = calls[d].gen
                                   /\ {x.op, calls[d].op} = {"refresh"}
    BY <1>1, <2>3
  <2>. QED  BY <2>1, <2>2, <2>3
<1>. QED  BY <1>1, <1>2, <1>5, <1>6 DEF IInv

-----------------------------------------------------------------------------
(* The statements of a request. *)

Marks == <<minted, consumed, revoked, sessionRevoked, expired, known>>

LEMMA MarksUnchanged ==
  ASSUME IInv, UNCHANGED Marks, holder' \in [Rows -> Call \cup {NoCall}]
  PROVE  RowsStay /\ RowsType' /\ Chain' /\ TokensDieWithTheSession'
BY DEF IInv, Marks, RowsStay, RowsType, Chain, TokensDieWithTheSession

LEMMA CallFacts ==
  ASSUME IInv, NEW c \in Call
  PROVE  /\ calls \in [Call -> CallState] /\ calls[c] \in CallState
         /\ calls[c].op \in {"refresh", "logout"} /\ calls[c].gen \in Gen
         /\ calls[c].gen \in Rows /\ minted \subseteq Gen
         /\ holder \in [Rows -> Call \cup {NoCall}]
BY RowFacts DEF IInv, RowsType, CallState

\* The row that a statement asks for is free, or its own, and is then its own.
LEMMA ObtainedType ==
  ASSUME IInv, NEW c \in Call, NEW row \in Rows, holder[row] \in {NoCall, c},
         holder' = [holder EXCEPT ![row] = c]
  PROVE  /\ holder' \in [Rows -> Call \cup {NoCall}]
         /\ holder'[row] = c
         /\ \A r \in Rows : holder[r] = c => holder'[r] = c
         /\ \A r \in Rows \ {row} : holder'[r] = holder[r]
         /\ \A q \in Call \ {c} : \A r \in Rows : holder[r] = q => holder'[r] = q
BY RowFacts DEF IInv, RowsType

\* A request goes on to its next statement with the row of the one before it locked.
LEMMA GoesKeepsInv ==
  ASSUME IInv, NEW c \in Call, calls[c].pc \in {"token", "session"} \cup Revoking,
         NEW pc \in {"session", "rotate"} \cup Revoking, NEW want \in Rows \cup {NoRow},
         NEW targets \in SUBSET minted, Goes(c, pc, want, targets), UNCHANGED Marks,
         holder' \in [Rows -> Call \cup {NoCall}],
         \A q \in Call \ {c} : \A r \in Rows : holder[r] = q => holder'[r] = q,
         holder'[calls[c].gen] = c,
         pc \in {"session", "last"} => want = SessionRow,
         pc \in {"rotate", "commit"} => holder'[SessionRow] = c,
         pc \in {"rotate", "last", "commit"} => \A g \in targets : holder'[g] = c,
         pc \in {"session", "rotate"} => calls[c].op = "refresh",
         pc = "rotate" => ~Rejects(c) /\ ~calls[c].late,
         pc \in Revoking /\ calls[c].op = "refresh" =>
           expired \/ sessionRevoked \/ calls[c].gen \in consumed
  PROVE  IInv'
<1>. DEFINE x == [op |-> calls[c].op, gen |-> calls[c].gen, pc |-> pc, want |-> want,
                  targets |-> targets, late |-> calls[c].late, answer |-> calls[c].answer]
<1>1. calls' = [calls EXCEPT ![c] = x]
  BY DEF Goes
<1>2. x \in CallState
  BY CallFacts DEF CallState, Pc, Revoking
<1>3. calls'[c] = x /\ calls[c].pc # "idle" /\ calls[c].pc # "done"
  BY <1>1, CallFacts DEF Revoking
<1>4. RowsStay /\ RowsType' /\ Chain' /\ TokensDieWithTheSession'
  BY MarksUnchanged
<1>5. CallInv(c)
  BY DEF IInv
<1>6. LocksInv(c)'
  <2>1. calls[c].gen \in minted
    BY <1>3, <1>5 DEF CallInv, LocksInv
  <2>2. pc # "idle" /\ pc # "token"
    BY DEF Revoking
  <2>. QED  BY <1>3, <2>1, <2>2 DEF LocksInv, Marks
<1>7. DecisionInv(c)'
  <2>1. calls[c].op = "refresh" => calls[c].gen < MaxGen
    BY <1>5 DEF CallInv, DecisionInv
  <2>2. pc = "rotate" => /\ calls[c].gen \notin consumed \cup revoked /\ ~sessionRevoked
                         /\ ~calls[c].late
    BY DEF Rejects
  <2>3. calls[c].late => expired
    BY <1>5 DEF CallInv, DecisionInv
  <2>4. pc # "idle"
    BY DEF Revoking
  <2>. QED  BY <1>3, <2>1, <2>2, <2>3, <2>4 DEF DecisionInv, Marks
<1>8. AnswerInv(c)'
  BY <1>3, <1>5 DEF CallInv, AnswerInv, Marks
<1>9. \A q \in Call \ {c} : LeavesAlone(q)
  BY DEF LeavesAlone, Marks, IInv, CallInv, DecisionInv
<1>10. Continues(c, x)
  BY <1>3 DEF Continues
<1>11. CallInv(c)'
  BY <1>6, <1>7, <1>8 DEF CallInv
<1>12. consumed' \ consumed = {} /\ (sessionRevoked' => sessionRevoked)
  BY DEF Marks
<1>. HIDE DEF x
<1>. QED  BY <1>1, <1>2, <1>4, <1>9, <1>10, <1>11, <1>12, CallKeepsInv

\* A revocation begins, with the token's row locked.
LEMMA GoesToRevokeKeepsInv ==
  ASSUME IInv, NEW c \in Call, calls[c].pc \in {"token", "session"},
         GoesToRevoke(c, {calls[c].gen}), UNCHANGED Marks,
         holder' \in [Rows -> Call \cup {NoCall}],
         \A q \in Call \ {c} : \A r \in Rows : holder[r] = q => holder'[r] = q,
         holder'[calls[c].gen] = c,
         calls[c].op = "refresh" => expired \/ sessionRevoked \/ calls[c].gen \in consumed
  PROVE  IInv'
<1>1. minted \in SUBSET minted /\ minted \subseteq Rows /\ SessionRow \in Rows
  BY CallFacts, RowFacts
<1>2. CASE minted \ {calls[c].gen} = {}
  <2>1. PICK pc \in {"session", "rotate"} \cup Revoking : pc = "last"
    BY DEF Revoking
  <2>2. Goes(c, pc, SessionRow, minted)
    BY <1>2, <2>1 DEF GoesToRevoke, Snapshot
  <2>3. \A g \in minted : holder'[g] = c
    BY <1>2
  <2>. QED  BY <1>1, <2>1, <2>2, <2>3, GoesKeepsInv
<1>3. CASE minted \ {calls[c].gen} # {}
  <2>1. PICK pc \in {"session", "rotate"} \cup Revoking : pc = "family"
    BY DEF Revoking
  <2>2. PICK g \in minted \ {calls[c].gen} : Goes(c, pc, g, minted)
    BY <1>3, <2>1 DEF GoesToRevoke, Snapshot
  <2>3. g \in Rows \cup {NoRow}
    BY <1>1
  <2>. QED  BY <1>1, <2>1, <2>2, <2>3, GoesKeepsInv
<1>. QED  BY <1>2, <1>3

\* What a statement gets that has asked for a row which nobody holds.
LEMMA ObtainsType ==
  ASSUME IInv, NEW c \in Call, NEW pc, Obtains(c, pc)
  PROVE  /\ calls[c].pc = pc /\ calls[c].want \in Rows
         /\ holder' \in [Rows -> Call \cup {NoCall}]
         /\ holder'[calls[c].want] = c
         /\ \A r \in Rows : holder[r] = c => holder'[r] = c
         /\ \A q \in Call \ {c} : \A r \in Rows : holder[r] = q => holder'[r] = q
<1>1. calls[c].want \in Rows
  BY CallFacts DEF Obtains, CallState
<1>2. holder[calls[c].want] = NoCall
  BY DEF Obtains, WaitsFor
<1>. QED  BY <1>1, <1>2, ObtainedType DEF Obtains

LEMMA LockTokenKeepsInv ==
  ASSUME IInv, NEW c \in Call, LockToken(c)
  PROVE  IInv'
<1>1. /\ Obtains(c, "token") /\ UNCHANGED Marks /\ calls[c].pc = "token"
  BY DEF LockToken, Obtains, Marks
<1>2. /\ holder' \in [Rows -> Call \cup {NoCall}]
      /\ holder'[calls[c].want] = c
      /\ \A q \in Call \ {c} : \A r \in Rows : holder[r] = q => holder'[r] = q
  BY <1>1, ObtainsType
<1>3. holder'[calls[c].gen] = c
  BY <1>1, <1>2 DEF IInv, CallInv, LocksInv
<1>4. CASE calls[c].op = "refresh"
  <2>1. PICK pc \in {"session", "rotate"} \cup Revoking : pc = "session"
    OBVIOUS
  <2>2. Goes(c, pc, SessionRow, {}) /\ pc \notin Revoking
    BY <1>4, <2>1 DEF LockToken, Revoking
  <2>3. SessionRow \in Rows \cup {NoRow} /\ {} \in SUBSET minted
    BY RowFacts
  <2>. QED  BY <1>1, <1>2, <1>3, <1>4, <2>1, <2>2, <2>3, GoesKeepsInv
<1>5. CASE calls[c].op # "refresh"
  BY <1>1, <1>2, <1>3, <1>5, GoesToRevokeKeepsInv DEF LockToken
<1>. QED  BY <1>4, <1>5

LEMMA LockSessionKeepsInv ==
  ASSUME IInv, NEW c \in Call, LockSession(c)
  PROVE  IInv'
<1>1. /\ Obtains(c, "session") /\ UNCHANGED Marks /\ calls[c].pc = "session"
  BY DEF LockSession, Obtains, Marks
<1>2. CallInv(c) /\ calls[c].gen \in Rows /\ TokensDieWithTheSession
  BY CallFacts DEF IInv
<1>3. /\ holder' \in [Rows -> Call \cup {NoCall}]
      /\ holder'[calls[c].want] = c
      /\ \A r \in Rows : holder[r] = c => holder'[r] = c
      /\ \A q \in Call \ {c} : \A r \in Rows : holder[r] = q => holder'[r] = q
  BY <1>1, ObtainsType
<1>4. holder'[calls[c].gen] = c /\ holder'[SessionRow] = c /\ calls[c].op = "refresh"
  BY <1>1, <1>2, <1>3 DEF CallInv, LocksInv, DecisionInv
<1>5. CASE Rejects(c) \/ calls[c].late
  <2>1. GoesToRevoke(c, {calls[c].gen})
    BY <1>5 DEF LockSession
  <2>2. expired \/ sessionRevoked \/ calls[c].gen \in consumed
    BY <1>2, <1>5 DEF Rejects, CallInv, DecisionInv, TokensDieWithTheSession
  <2>. QED  BY <1>1, <1>3, <1>4, <2>1, <2>2, GoesToRevokeKeepsInv
<1>6. CASE ~(Rejects(c) \/ calls[c].late)
  <2>1. PICK pc \in {"session", "rotate"} \cup Revoking : pc = "rotate"
    OBVIOUS
  <2>2. Goes(c, pc, NoRow, {}) /\ pc \notin Revoking
        /\ ~Rejects(c) /\ ~calls[c].late
    BY <1>6, <2>1 DEF LockSession, Revoking
  <2>3. {} \in SUBSET minted
    OBVIOUS
  <2>. QED  BY <1>1, <1>3, <1>4, <2>1, <2>2, <2>3, GoesKeepsInv
<1>. QED  BY <1>5, <1>6

LEMMA LockFamilyKeepsInv ==
  ASSUME IInv, NEW c \in Call, LockFamily(c)
  PROVE  IInv'
<1>. DEFINE rest == calls[c].targets \ (HeldBy(c) \cup {calls[c].want})
<1>1. /\ Obtains(c, "family") /\ UNCHANGED Marks /\ calls[c].pc = "family"
  BY DEF LockFamily, Obtains, Marks
<1>2. CallInv(c) /\ calls[c].gen \in Rows /\ minted \subseteq Rows
  BY CallFacts, RowFacts DEF IInv
<1>3. /\ holder' \in [Rows -> Call \cup {NoCall}]
      /\ holder'[calls[c].want] = c
      /\ \A r \in Rows : holder[r] = c => holder'[r] = c
      /\ \A q \in Call \ {c} : \A r \in Rows : holder[r] = q => holder'[r] = q
  BY <1>1, ObtainsType
<1>4. /\ holder'[calls[c].gen] = c
      /\ calls[c].targets \in SUBSET minted
      /\ calls[c].op = "refresh" => expired \/ sessionRevoked \/ calls[c].gen \in consumed
  BY <1>1, <1>2, <1>3 DEF CallInv, LocksInv, DecisionInv, Revoking
<1>5. CASE rest = {}
  <2>1. PICK pc \in {"session", "rotate"} \cup Revoking : pc = "last"
    BY DEF Revoking
  <2>2. Goes(c, pc, SessionRow, calls[c].targets)
    BY <1>5, <2>1 DEF LockFamily
  <2>3. \A g \in calls[c].targets : holder'[g] = c
    BY <1>2, <1>3, <1>4, <1>5 DEF HeldBy
  <2>4. SessionRow \in Rows \cup {NoRow} /\ calls[c].pc \in Revoking
    BY <1>1, RowFacts DEF Revoking
  <2>. HIDE DEF rest
  <2>. QED  BY <1>1, <1>3, <1>4, <2>1, <2>2, <2>3, <2>4, GoesKeepsInv
<1>6. CASE rest # {}
  <2>1. PICK pc \in {"session", "rotate"} \cup Revoking : pc = "family"
    BY DEF Revoking
  <2>2. PICK g \in rest : Goes(c, pc, g, calls[c].targets)
    BY <1>6, <2>1 DEF LockFamily
  <2>3. g \in Rows \cup {NoRow} /\ calls[c].pc \in Revoking
    BY <1>1, <1>2, <1>4 DEF Revoking
  <2>. HIDE DEF rest
  <2>. QED  BY <1>1, <1>3, <1>4, <2>1, <2>2, <2>3, GoesKeepsInv
<1>. QED  BY <1>5, <1>6

LEMMA LockLastKeepsInv ==
  ASSUME IInv, NEW c \in Call, LockLast(c)
  PROVE  IInv'
<1>1. /\ UNCHANGED Marks /\ calls[c].pc = "last" /\ OwnOrFree(c)
      /\ holder' = [holder EXCEPT ![SessionRow] = c]
  BY DEF LockLast, Marks
<1>2. CallInv(c) /\ calls[c].gen \in Rows /\ minted \subseteq Rows /\ SessionRow \in Rows
  BY CallFacts, RowFacts DEF IInv
<1>3. calls[c].want = SessionRow /\ calls[c].want # NoRow
  BY <1>1, <1>2, RowFacts DEF CallInv, LocksInv
<1>4. holder[SessionRow] \in {NoCall, c}
  BY <1>1, <1>3 DEF OwnOrFree, WaitsFor
<1>5. /\ holder' \in [Rows -> Call \cup {NoCall}]
      /\ holder'[SessionRow] = c
      /\ \A r \in Rows : holder[r] = c => holder'[r] = c
      /\ \A q \in Call \ {c} : \A r \in Rows : holder[r] = q => holder'[r] = q
  BY <1>1, <1>2, <1>4, ObtainedType
<1>6. /\ holder'[calls[c].gen] = c
      /\ calls[c].targets \in SUBSET minted
      /\ \A g \in calls[c].targets : holder'[g] = c
      /\ calls[c].op = "refresh" => expired \/ sessionRevoked \/ calls[c].gen \in consumed
  BY <1>1, <1>2, <1>5 DEF CallInv, LocksInv, DecisionInv, Revoking
<1>7. PICK pc \in {"session", "rotate"} \cup Revoking : pc = "commit"
  BY DEF Revoking
<1>8. Goes(c, pc, NoRow, calls[c].targets) /\ calls[c].pc \in Revoking
  BY <1>1, <1>7 DEF LockLast, Revoking
<1>. QED  BY <1>1, <1>5, <1>6, <1>7, <1>8, GoesKeepsInv

-----------------------------------------------------------------------------
(* The end of a request. *)

\* The locks of the others stay.
LEMMA UnlockedFacts ==
  ASSUME IInv, NEW c \in Call, holder' = Unlocked(c)
  PROVE  /\ holder' \in [Rows -> Call \cup {NoCall}]
         /\ \A q \in Call \ {c} : \A r \in Rows : holder[r] = q => holder'[r] = q
BY DEF IInv, RowsType, Unlocked

LEMMA AnsweredKeepsInv ==
  ASSUME IInv, RowsStay, RowsType', Chain', TokensDieWithTheSession',
         NEW c \in Call, InFlight(c), NEW answer \in Answer, calls' = Answered(c, answer),
         holder' = Unlocked(c),
         answer \in {"reuse", "invalid", "out"} => sessionRevoked',
         answer \in {"issued", "lost"} => ~calls[c].late,
         \A q \in Call \ {c} : calls[q].pc = "rotate" =>
           calls[q].gen \notin consumed' \cup revoked' /\ ~sessionRevoked',
         \A g \in consumed' \ consumed : calls[c].op = "refresh" /\ calls[c].gen = g,
         sessionRevoked' => sessionRevoked \/ expired \/ calls[c].op = "logout"
                            \/ \E d \in Call \ {c} : /\ calls[c].gen = calls[d].gen
                                                     /\ {calls[c].op, calls[d].op} = {"refresh"}
  PROVE  IInv'
<1>. DEFINE x == [op |-> calls[c].op, gen |-> calls[c].gen, pc |-> "done", want |-> NoRow,
                  targets |-> {}, late |-> calls[c].late, answer |-> answer]
<1>1. calls' = [calls EXCEPT ![c] = x]
  BY DEF Answered
<1>2. x \in CallState
  BY CallFacts DEF CallState, Pc
<1>3. /\ calls'[c] = x /\ calls[c].pc # "idle" /\ calls[c].pc # "done"
      /\ CallInv(c)
  BY <1>1, CallFacts DEF InFlight, IInv
<1>4. LocksInv(c)'
  BY <1>3 DEF CallInv, LocksInv, RowsStay, Revoking
<1>5. DecisionInv(c)'
  BY <1>3 DEF CallInv, DecisionInv, RowsStay, Revoking
<1>6. AnswerInv(c)'
  BY <1>3 DEF AnswerInv
<1>7. CallInv(c)'
  BY <1>4, <1>5, <1>6 DEF CallInv
<1>8. \A q \in Call \ {c} : LeavesAlone(q)
  BY UnlockedFacts DEF LeavesAlone
<1>9. Continues(c, x)
  BY <1>3 DEF Continues
<1>10. \A g \in consumed' \ consumed : x.op = "refresh" /\ x.gen = g /\ x.pc = "done"
  OBVIOUS
<1>11. sessionRevoked' => sessionRevoked
                          \/ expired' \/ (x.op = "logout" /\ x.pc = "done")
                          \/ \E d \in Call \ {c} : /\ x.gen = calls[d].gen
                                                   /\ {x.op, calls[d].op} = {"refresh"}
  BY DEF RowsStay
<1>. HIDE DEF x
<1>. QED  BY <1>1, <1>2, <1>7, <1>8, <1>9, <1>10, <1>11, CallKeepsInv

LEMMA AbortKeepsInv ==
  ASSUME IInv, NEW c \in Call, Abort(c)
  PROVE  IInv'
<1>1. UNCHANGED Marks /\ InFlight(c) /\ holder' = Unlocked(c)
  BY DEF Abort, Marks
<1>2. RowsStay /\ RowsType' /\ Chain' /\ TokensDieWithTheSession'
  BY <1>1, UnlockedFacts, MarksUnchanged
<1>3. PICK answer \in Answer : answer = "unavailable"
  BY DEF Answer
<1>4. /\ calls' = Answered(c, answer)
      /\ answer \notin {"reuse", "invalid", "out"} /\ answer \notin {"issued", "lost"}
  BY <1>3 DEF Abort
<1>5. \A q \in Call \ {c} : calls[q].pc = "rotate" =>
        calls[q].gen \notin consumed' \cup revoked' /\ ~sessionRevoked'
  BY <1>1 DEF Marks, IInv, CallInv, DecisionInv
<1>6. consumed' \ consumed = {} /\ (sessionRevoked' => sessionRevoked)
  BY <1>1 DEF Marks
<1>. QED  BY <1>1, <1>2, <1>4, <1>5, <1>6, AnsweredKeepsInv

LEMMA RotateKeepsInv ==
  ASSUME IInv, NEW c \in Call, Rotate(c)
  PROVE  IInv'
<1>1. /\ calls[c].pc = "rotate" /\ InFlight(c) /\ holder' = Unlocked(c) /\ CallInv(c)
      /\ revoked' = revoked /\ sessionRevoked' = sessionRevoked /\ expired' = expired
  BY DEF Rotate, InFlight, IInv
<1>2. /\ calls[c].gen \in minted \ consumed /\ calls[c].op = "refresh"
      /\ calls[c].gen \in 0..(MaxGen - 1) /\ ~sessionRevoked /\ ~calls[c].late
      /\ holder[calls[c].gen] = c
  BY <1>1, CallFacts, RowFacts DEF CallInv, LocksInv, DecisionInv, Gen
<1>3. /\ minted = 0..calls[c].gen /\ consumed = 0..(calls[c].gen - 1)
      /\ calls[c].gen + 1 \notin minted
  BY <1>2, FreshIsLast DEF IInv
<1>4. /\ minted' = minted \cup {calls[c].gen + 1}
      /\ consumed' = consumed \cup {calls[c].gen}
      /\ known' \in {known, known \cup {calls[c].gen + 1}}
  BY <1>3 DEF Rotate, Spent
<1>5. PICK answer \in Answer : /\ calls' = Answered(c, answer)
                               /\ answer \notin {"reuse", "invalid", "out"}
  <2>1. calls' = Answered(c, "issued") \/ calls' = Answered(c, "lost")
    BY <1>3 DEF Rotate
  <2>2. "issued" \in Answer /\ "lost" \in Answer
    BY DEF Answer
  <2>. QED  BY <2>1, <2>2
<1>6. minted' = 0..(calls[c].gen + 1) /\ consumed' = 0..((calls[c].gen + 1) - 1)
  BY <1>2, <1>3, <1>4, RowFacts
<1>7. calls[c].gen + 1 \in Gen
  BY <1>2, RowFacts DEF Gen
<1>8. Chain'
  BY <1>6, <1>7 DEF Chain
<1>9. RowsStay
  BY <1>1, <1>4 DEF RowsStay
<1>10. RowsType'
  BY <1>1, <1>2, <1>4, <1>7, UnlockedFacts DEF IInv, RowsType
<1>11. TokensDieWithTheSession'
  BY <1>1 DEF IInv, TokensDieWithTheSession
<1>12. \A q \in Call \ {c} : calls[q].pc = "rotate" =>
         calls[q].gen \notin consumed' \cup revoked' /\ ~sessionRevoked'
  <2>. SUFFICES ASSUME NEW q \in Call \ {c}, calls[q].pc = "rotate"
                PROVE  calls[q].gen \notin consumed' \cup revoked' /\ ~sessionRevoked'
    OBVIOUS
  <2>1. CallInv(q)
    BY DEF IInv
  <2>2. holder[calls[q].gen] = q /\ calls[q].gen \notin consumed \cup revoked
    BY <2>1 DEF CallInv, LocksInv, DecisionInv
  <2>3. calls[q].gen # calls[c].gen
    BY <1>2, <2>2
  <2>. QED  BY <1>1, <1>2, <1>4, <2>2, <2>3
<1>13. \A g \in consumed' \ consumed : calls[c].op = "refresh" /\ calls[c].gen = g
  BY <1>2, <1>4
<1>14. sessionRevoked' => sessionRevoked
  BY <1>1
<1>15. ~calls[c].late
  BY <1>2
<1>. QED  BY <1>1, <1>5, <1>8, <1>9, <1>10, <1>11, <1>12, <1>13, <1>14, <1>15, AnsweredKeepsInv

LEMMA CommitRevocationKeepsInv ==
  ASSUME IInv, NEW c \in Call, CommitRevocation(c)
  PROVE  IInv'
<1>1. /\ calls[c].pc = "commit" /\ InFlight(c) /\ holder' = Unlocked(c) /\ CallInv(c)
      /\ UNCHANGED <<minted, consumed, expired, known>>
      /\ revoked' = revoked \cup calls[c].targets /\ sessionRevoked'
  BY DEF CommitRevocation, InFlight, IInv, SessionAfterRevoke
<1>2. calls[c].targets \subseteq minted /\ holder[SessionRow] = c
  BY <1>1 DEF CallInv, LocksInv
<1>3. PICK answer \in Answer : /\ calls' = Answered(c, answer)
                               /\ answer \notin {"issued", "lost"}
  <2>1. \/ calls' = Answered(c, "out") \/ calls' = Answered(c, "reuse")
        \/ calls' = Answered(c, "invalid")
    BY DEF CommitRevocation
  <2>2. {"out", "reuse", "invalid"} \subseteq Answer
    BY DEF Answer
  <2>. QED  BY <2>1, <2>2
<1>4. RowsType'
  <2>1. sessionRevoked' \in BOOLEAN
    BY DEF CommitRevocation, SessionAfterRevoke
  <2>. QED  BY <1>1, <1>2, <2>1, UnlockedFacts DEF IInv, RowsType
<1>5. RowsStay /\ Chain' /\ TokensDieWithTheSession'
  BY <1>1 DEF IInv, RowsStay, Chain, TokensDieWithTheSession
<1>6. \A q \in Call \ {c} : calls[q].pc # "rotate"
  BY <1>2 DEF IInv, CallInv, LocksInv
<1>7. \/ sessionRevoked \/ expired \/ calls[c].op = "logout"
      \/ \E d \in Call \ {c} : /\ calls[c].gen = calls[d].gen
                               /\ {calls[c].op, calls[d].op} = {"refresh"}
  <2>1. CASE calls[c].op = "refresh" /\ calls[c].gen \in consumed
    <3>1. PICK d \in Call : /\ calls[d].op = "refresh" /\ calls[d].gen = calls[c].gen
                            /\ calls[d].pc = "done"
      BY <2>1 DEF IInv, ConsumedByRequest
    <3>2. d # c
      BY <1>1, <3>1
    <3>. QED  BY <2>1, <3>1, <3>2
  <2>2. CASE ~(calls[c].op = "refresh" /\ calls[c].gen \in consumed)
    BY <1>1, <2>2, CallFacts DEF CallInv, DecisionInv, Revoking
  <2>. QED  BY <2>1, <2>2
<1>8. consumed' \ consumed = {}
  BY <1>1
<1>. QED  BY <1>1, <1>3, <1>4, <1>5, <1>6, <1>7, <1>8, AnsweredKeepsInv

-----------------------------------------------------------------------------
(* Requests that arrive, and steps of no request. *)

LEMMA PresentKeepsInv ==
  ASSUME IInv, NEW c \in Call, NEW op \in {"refresh", "logout"}, NEW g \in Gen,
         Present(c, op, g)
  PROVE  IInv'
<1>. DEFINE x == [op |-> op, gen |-> g, pc |-> "token", want |-> g, targets |-> {},
                  late |-> expired, answer |-> "none"]
<1>1. /\ calls' = [calls EXCEPT ![c] = x] /\ calls[c].pc = "idle" /\ g \in known
      /\ op = "refresh" => g < MaxGen
      /\ UNCHANGED Marks /\ UNCHANGED holder
  BY DEF Present, Marks
<1>2. g \in minted /\ expired \in BOOLEAN
  BY <1>1 DEF IInv, RowsType
<1>3. x \in CallState
  BY <1>2, RowFacts DEF CallState, Pc, Answer
<1>4. calls'[c] = x
  BY <1>1, CallFacts
<1>5. RowsStay /\ RowsType' /\ Chain' /\ TokensDieWithTheSession'
  BY <1>1, CallFacts, MarksUnchanged
<1>6. CallInv(c)'
  <2>1. LocksInv(c)'
    BY <1>1, <1>2, <1>4 DEF LocksInv, Marks, Revoking
  <2>2. DecisionInv(c)'
    BY <1>1, <1>4 DEF DecisionInv, Marks, Revoking
  <2>3. AnswerInv(c)'
    BY <1>4 DEF AnswerInv
  <2>. QED  BY <2>1, <2>2, <2>3 DEF CallInv
<1>7. \A q \in Call \ {c} : LeavesAlone(q)
  BY <1>1 DEF LeavesAlone, Marks, IInv, CallInv, DecisionInv
<1>8. consumed' \ consumed = {} /\ (sessionRevoked' => sessionRevoked)
  BY <1>1 DEF Marks
<1>. HIDE DEF x
<1>. QED  BY <1>1, <1>3, <1>5, <1>6, <1>7, <1>8, CallKeepsInv

LEMMA LoginKeepsInv ==
  ASSUME IInv, Login
  PROVE  IInv'
<1>1. /\ minted = {} /\ minted' = {0} /\ known' \subseteq minted'
      /\ UNCHANGED <<consumed, revoked, sessionRevoked, expired, holder, calls>>
  BY DEF Login
<1>2. consumed = {} /\ 0 \in Gen
  BY <1>1, RowFacts DEF IInv, RowsType, Gen
<1>3. RowsStay /\ RowsType'
  BY <1>1, <1>2 DEF RowsStay, IInv, RowsType
<1>4. Chain'
  <2>1. minted' = 0..0 /\ consumed' = 0..(0 - 1)
    BY <1>1, <1>2
  <2>. QED  BY <1>2, <2>1 DEF Chain
<1>5. \A c \in Call : calls'[c] = calls[c] /\ LeavesAlone(c)
  BY <1>1 DEF LeavesAlone, IInv, CallInv, DecisionInv
<1>6. \A c \in Call : CallInv(c)'
  BY <1>3, <1>5, UntouchedKeepsInv
<1>. QED  BY <1>1, <1>3, <1>4, <1>6
       DEF IInv, TokensDieWithTheSession, ConsumedByRequest, NoFalseAlarm

LEMMA ExpireKeepsInv ==
  ASSUME IInv, Expire
  PROVE  IInv'
<1>1. /\ expired' = TRUE
      /\ UNCHANGED <<minted, consumed, revoked, sessionRevoked, known, holder, calls>>
  BY DEF Expire
<1>2. RowsStay /\ RowsType' /\ Chain'
  BY <1>1 DEF RowsStay, IInv, RowsType, Chain
<1>3. \A c \in Call : calls'[c] = calls[c] /\ LeavesAlone(c)
  BY <1>1 DEF LeavesAlone, IInv, CallInv, DecisionInv
<1>4. \A c \in Call : CallInv(c)'
  BY <1>2, <1>3, UntouchedKeepsInv
<1>. QED  BY <1>1, <1>2, <1>4
       DEF IInv, TokensDieWithTheSession, ConsumedByRequest, NoFalseAlarm

LEMMA InitIsSafe == Init => IInv
<1>. SUFFICES ASSUME Init PROVE IInv
  OBVIOUS
<1>1. \A c \in Call : calls[c] = Idle /\ calls \in [Call -> {Idle}]
  BY DEF Init
<1>2. Idle \in CallState
  BY RowFacts DEF Idle, CallState, Pc, Gen, Answer
<1>3. \A c \in Call : CallInv(c)
  BY <1>1 DEF Idle, CallInv, LocksInv, DecisionInv, AnswerInv, Revoking
<1>4. RowsType /\ Chain /\ TokensDieWithTheSession /\ ConsumedByRequest /\ NoFalseAlarm
  BY DEF Init, RowsType, Chain, TokensDieWithTheSession, ConsumedByRequest, NoFalseAlarm
<1>5. calls \in [Call -> CallState]
  BY <1>2 DEF Init
<1>. QED  BY <1>3, <1>4, <1>5 DEF IInv

LEMMA NextKeepsInv == IInv /\ [Next]_vars => IInv'
<1>. SUFFICES ASSUME IInv, [Next]_vars PROVE IInv'
  OBVIOUS
<1>1. CASE Login
  BY <1>1, LoginKeepsInv
<1>2. CASE Expire
  BY <1>2, ExpireKeepsInv
<1>3. ASSUME NEW c \in Call, NEW op \in {"refresh", "logout"}, NEW g \in Gen,
             Present(c, op, g)
      PROVE  IInv'
  BY <1>3, PresentKeepsInv
<1>4. ASSUME NEW c \in Call, Step(c)
      PROVE  IInv'
  BY <1>4, LockTokenKeepsInv, LockSessionKeepsInv, LockFamilyKeepsInv, LockLastKeepsInv,
     RotateKeepsInv, CommitRevocationKeepsInv DEF Step
<1>5. ASSUME NEW c \in Call, Abort(c) \/ BreakDeadlock(c)
      PROVE  IInv'
  BY <1>5, AbortKeepsInv DEF BreakDeadlock
<1>6. CASE UNCHANGED vars
  <2>1. UNCHANGED <<Marks, holder, calls>>
    BY <1>6 DEF vars, Marks
  <2>2. RowsStay /\ RowsType' /\ Chain' /\ TokensDieWithTheSession'
    BY <2>1 DEF RowsStay, Marks, IInv, RowsType, Chain, TokensDieWithTheSession
  <2>3. \A c \in Call : calls'[c] = calls[c] /\ LeavesAlone(c)
    BY <2>1 DEF LeavesAlone, Marks, IInv, CallInv, DecisionInv
  <2>4. \A c \in Call : CallInv(c)'
    BY <2>2, <2>3, UntouchedKeepsInv
  <2>. QED  BY <2>1, <2>2, <2>4 DEF Marks, IInv, ConsumedByRequest, NoFalseAlarm
<1>. QED  BY <1>1, <1>2, <1>3, <1>4, <1>5, <1>6 DEF Next

-----------------------------------------------------------------------------
(* Theorems. *)

\* The rows, their locks and the requests stay in step: every statement of refresh, logout
\* and revoke_family finds the rows locked that its transaction has read before.
THEOREM Invariance == Spec => []IInv
BY InitIsSafe, NextKeepsInv, PTL DEF Spec

\* Types, and the locks of a transaction that is about to write (refresh, revoke_family).
THEOREM TypeIsKept == Spec => []TypeOK
<1>1. IInv => TypeOK
  <2>. SUFFICES ASSUME IInv PROVE TypeOK
    OBVIOUS
  <2>1. ASSUME NEW c \in Call, calls[c].pc \in {"rotate", "commit"}
        PROVE  {calls[c].gen, SessionRow} \cup calls[c].targets \subseteq HeldBy(c)
    <3>1. CallInv(c) /\ {calls[c].gen, SessionRow} \cup calls[c].targets \subseteq Rows
      BY CallFacts, RowFacts DEF IInv, CallState
    <3>. QED  BY <2>1, <3>1 DEF CallInv, LocksInv, HeldBy, Revoking
  <2>. QED  BY <2>1 DEF IInv, RowsType, TypeOK
<1>. QED  BY <1>1, Invariance, PTL

\* The generations of a family form one chain, and a rotation is never refused by the
\* unique index (refresh, the lock on the token's row).
THEOREM OneChain == Spec => []FamilyIsAChain
<1>1. IInv => FamilyIsAChain
  <2>. SUFFICES ASSUME IInv PROVE FamilyIsAChain
    OBVIOUS
  <2>1. ASSUME NEW c \in Call, calls[c].pc = "rotate"
        PROVE  calls[c].gen + 1 \notin minted
    <3>1. calls[c].gen \in minted \ consumed
      BY <2>1 DEF IInv, CallInv, LocksInv, DecisionInv
    <3>. QED  BY <3>1, FreshIsLast DEF IInv
  <2>. QED  BY <2>1 DEF IInv, Chain, FamilyIsAChain
<1>. QED  BY <1>1, Invariance, PTL

\* A session that was said to be over is over (revoke_family commits before the answer),
\* and no token is issued to a request that began after the expiry (refresh).
THEOREM AnswersStayTrue == Spec => []AnswersAreTrue
<1>1. IInv => AnswersAreTrue
  BY DEF IInv, CallInv, AnswerInv, AnswersAreTrue, Usable
<1>. QED  BY <1>1, Invariance, PTL

\* Requests with a token of their own never look like reuse (refresh).
THEOREM EndsForCause == Spec => []NoFalseAlarm
<1>1. IInv => NoFalseAlarm
  BY DEF IInv
<1>. QED  BY <1>1, Invariance, PTL

-----------------------------------------------------------------------------
(* The refinement. *)

\* The generation of the latest token is what the chain's length says.
LEMMA LatestOfChain ==
  ASSUME NEW n \in Nat \cup {-1}
  PROVE  Cardinality(0..n) = n + 1
<1>1. CASE n = -1
  <2>1. 0..n = {}
    BY <1>1
  <2>. QED  BY <1>1, <2>1, FS_EmptySet
<1>2. CASE n \in Nat
  <2>1. 0 \in Int /\ n \in Int /\ 0 <= n
    BY <1>2
  <2>2. Cardinality(0..n) = n - 0 + 1
    BY <2>1, FS_Interval
  <2>. QED  BY <1>2, <2>2
<1>. QED  BY <1>1, <1>2

LEMMA InitRefines == Init => Promise!Init
<1>. SUFFICES ASSUME Init PROVE Promise!Init
  OBVIOUS
<1>1. Cardinality(minted) = 0
  BY FS_EmptySet DEF Init
<1>2. Cardinality(minted) - 1 = -1
  BY <1>1
<1>3. (~sessionRevoked) = TRUE
  BY DEF Init
<1>. QED  BY <1>2, <1>3 DEF Promise!Init

\* A step that mints nothing and does not revoke is invisible.
LEMMA QuietStutters ==
  ASSUME minted' = minted, sessionRevoked' = sessionRevoked
  PROVE  UNCHANGED Promise!vars
BY DEF Promise!vars

LEMMA LoginRefines ==
  ASSUME Login
  PROVE  Promise!Login
<1>1. minted = {} /\ minted' = 0..0 /\ sessionRevoked' = sessionRevoked
  BY DEF Login
<1>2. Cardinality(minted) = 0
  BY <1>1, FS_EmptySet
<1>3. Cardinality(minted') = 1
  <2>1. Cardinality(0..0) = 0 + 1
    BY LatestOfChain
  <2>. QED  BY <1>1, <2>1
<1>. QED  BY <1>1, <1>2, <1>3 DEF Promise!Login

LEMMA RotateRefines ==
  ASSUME IInv, NEW c \in Call, Rotate(c)
  PROVE  Promise!Rotate
<1>1. /\ calls[c].gen \in minted \ consumed /\ calls[c].gen \in Nat /\ ~sessionRevoked
      /\ sessionRevoked' = sessionRevoked
  BY CallFacts, RowFacts DEF Rotate, IInv, CallInv, LocksInv, DecisionInv, Gen
<1>2. /\ minted = 0..calls[c].gen /\ calls[c].gen + 1 \notin minted
  BY <1>1, FreshIsLast DEF IInv
<1>3. minted' = 0..(calls[c].gen + 1)
  <2>1. minted' = minted \cup {calls[c].gen + 1}
    BY <1>2 DEF Rotate
  <2>. QED  BY <1>1, <1>2, <2>1
<1>4. Cardinality(minted) = calls[c].gen + 1
  BY <1>1, <1>2, LatestOfChain
<1>5. Cardinality(minted') = (calls[c].gen + 1) + 1
  <2>1. calls[c].gen + 1 \in Nat \cup {-1}
    BY <1>1
  <2>2. Cardinality(0..(calls[c].gen + 1)) = (calls[c].gen + 1) + 1
    BY <2>1, LatestOfChain
  <2>. QED  BY <1>3, <2>2
<1>. QED  BY <1>1, <1>4, <1>5 DEF Promise!Rotate

LEMMA CommitRevocationRefines ==
  ASSUME IInv, NEW c \in Call, CommitRevocation(c)
  PROVE  Promise!Revoke \/ UNCHANGED Promise!vars
<1>1. minted' = minted /\ sessionRevoked' = TRUE /\ sessionRevoked \in BOOLEAN
  BY DEF CommitRevocation, SessionAfterRevoke, IInv, RowsType
<1>2. CASE sessionRevoked
  <2>1. sessionRevoked' = sessionRevoked
    BY <1>1, <1>2
  <2>. QED  BY <1>1, <2>1, QuietStutters
<1>3. CASE ~sessionRevoked
  <2>1. minted # {}
    BY DEF CommitRevocation, IInv, CallInv, LocksInv
  <2>2. PICK n \in Gen : minted = 0..n
    BY <2>1 DEF IInv, Chain
  <2>3. n \in Nat /\ Cardinality(minted) = n + 1
    BY <2>2, LatestOfChain DEF Gen
  <2>4. Cardinality(minted) - 1 >= 0
    BY <2>3
  <2>5. (~sessionRevoked) /\ (~sessionRevoked') = FALSE
    BY <1>1, <1>3
  <2>6. Cardinality(minted') - 1 = Cardinality(minted) - 1
    BY <1>1
  <2>. QED  BY <2>4, <2>5, <2>6 DEF Promise!Revoke
<1>. QED  BY <1>1, <1>2, <1>3

LEMMA NextRefines == IInv /\ [Next]_vars => [Promise!Next]_Promise!vars
<1>. SUFFICES ASSUME IInv, [Next]_vars PROVE [Promise!Next]_Promise!vars
  OBVIOUS
<1>1. CASE Login
  BY <1>1, LoginRefines DEF Promise!Next
<1>2. ASSUME NEW c \in Call, Rotate(c)
      PROVE  [Promise!Next]_Promise!vars
  BY <1>2, RotateRefines DEF Promise!Next
<1>3. ASSUME NEW c \in Call, CommitRevocation(c)
      PROVE  [Promise!Next]_Promise!vars
  BY <1>3, CommitRevocationRefines DEF Promise!Next
<1>4. ASSUME NEW c \in Call, LockToken(c) \/ LockSession(c) \/ LockFamily(c) \/ LockLast(c)
      PROVE  [Promise!Next]_Promise!vars
  <2>1. minted' = minted /\ sessionRevoked' = sessionRevoked
    BY <1>4 DEF LockToken, LockSession, LockFamily, LockLast
  <2>. QED  BY <2>1, QuietStutters
<1>5. ASSUME NEW c \in Call, NEW op \in {"refresh", "logout"}, NEW g \in Gen,
             Present(c, op, g)
      PROVE  [Promise!Next]_Promise!vars
  <2>1. minted' = minted /\ sessionRevoked' = sessionRevoked
    BY <1>5 DEF Present
  <2>. QED  BY <2>1, QuietStutters
<1>6. ASSUME NEW c \in Call, Abort(c) \/ BreakDeadlock(c)
      PROVE  [Promise!Next]_Promise!vars
  <2>1. minted' = minted /\ sessionRevoked' = sessionRevoked
    BY <1>6 DEF Abort, BreakDeadlock
  <2>. QED  BY <2>1, QuietStutters
<1>7. CASE Expire \/ UNCHANGED vars
  <2>1. minted' = minted /\ sessionRevoked' = sessionRevoked
    BY <1>7 DEF Expire, vars
  <2>. QED  BY <2>1, QuietStutters
<1>. QED  BY <1>1, <1>2, <1>3, <1>4, <1>5, <1>6, <1>7 DEF Next, Step

\* However refreshes and logouts overlap, lose answers or are rolled back, the family has
\* one successor at a time, none after a revocation, and a revocation is final.
THEOREM OneLiveToken == Spec => ImplementsRefreshFamily
<1>. QED  BY InitRefines, NextRefines, Invariance, PTL
          DEF Spec, ImplementsRefreshFamily, Promise!Spec
=============================================================================
