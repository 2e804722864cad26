---------------------------- MODULE AuditProofs ----------------------------
(***************************************************************************)
(* Theorems about AuditChain, for any number of organizations and of       *)
(* transactions: the chain is never forked, positions never clash, the     *)
(* chains implement AuditLog, verification accepts exactly the beginnings  *)
(* of what the store has written, and one hash noted down elsewhere makes  *)
(* it vouch for every row before it.                                       *)
(***************************************************************************)
EXTENDS AuditChain, FiniteSetTheorems, SequenceTheorems, WellFoundedInduction, TLAPS

-----------------------------------------------------------------------------
(* The inductive invariant. *)

Holding == {"locked", "positioned", "failed", "inserted"}

\* The advisory lock excludes.
LocksExclude == \A t, u \in Tx : /\ tx[t].org = tx[u].org
                                 /\ tx[t].pc \in Holding
                                 /\ tx[u].pc \in Holding
                                 => t = u

\* validate_draft comes before the lock.
HoldersAreValid == \A t \in Tx : tx[t].pc \in Holding => tx[t].draft # "invalid"

\* The position read under the lock is still the end of the chain.
PositionIsTail ==
  \A t \in Tx : tx[t].pc \in {"positioned", "failed", "inserted"} =>
                  /\ tx[t].seq = Len(audit[tx[t].org]) + 1
                  /\ tx[t].previous = EndHash(tx[t].org)

\* A hash takes in every payload up to its row.
HashesGrow == \A o \in Org : \A i \in DOMAIN audit[o] : Len(audit[o][i].hash) = i

\* Only transactions that have ended are in a chain.
RecordedHaveEnded ==
  \A o \in Org : \A i \in DOMAIN audit[o] : tx[audit[o][i].payload.tx].pc = "ended"

IInv == /\ TypeOK
        /\ LocksExclude
        /\ HoldersAreValid
        /\ PositionIsTail
        /\ ChainIsLinked
        /\ HashesGrow
        /\ RecordedHaveEnded

-----------------------------------------------------------------------------
(* Facts about single operations. *)

\* Every row of a chain is a row of the table.
LEMMA RowType ==
  ASSUME TypeOK, NEW o \in Org, NEW i \in DOMAIN audit[o]
  PROVE  /\ audit[o][i] \in ChainRow
         /\ audit[o][i].payload.tx \in Tx
         /\ audit[o][i].hash \in Seq(Payload)
<1>1. audit[o] \in Seq(ChainRow)
  BY DEF TypeOK
<1>2. audit[o][i] \in ChainRow
  BY <1>1
<1>. QED  BY <1>2 DEF ChainRow, Payload

LEMMA TailType ==
  ASSUME TypeOK, NEW o \in Org
  PROVE  EndHash(o) \in Seq(Payload)
<1>1. audit[o] \in Seq(ChainRow)
  BY DEF TypeOK
<1>2. CASE audit[o] = <<>>
  BY <1>2 DEF EndHash, NoHash
<1>3. CASE audit[o] # <<>>
  <2>1. Len(audit[o]) \in DOMAIN audit[o]
    BY <1>1, <1>3
  <2>. QED  BY <1>3, <2>1, RowType DEF EndHash
<1>. QED  BY <1>2, <1>3

\* What next_chain_position reads is the last row of a linked chain.
LEMMA TopIsLast ==
  ASSUME TypeOK, ChainIsLinked, NEW o \in Org
  PROVE  NextSeq(o) = Len(audit[o]) + 1 /\ NextPrevious(o) = EndHash(o)
<1>1. audit[o] \in Seq(ChainRow)
  BY DEF TypeOK
<1>2. CASE audit[o] = <<>>
  BY <1>2 DEF NextSeq, NextPrevious, EndHash
<1>3. CASE audit[o] # <<>>
  <2>1. Len(audit[o]) \in DOMAIN audit[o] /\ DOMAIN audit[o] = 1..Len(audit[o]) /\ Len(audit[o]) \in Nat
    BY <1>1, <1>3
  <2>2. \A i \in DOMAIN audit[o] : audit[o][i].seq = i
    BY DEF ChainIsLinked
  <2>3. \A j \in DOMAIN audit[o] : audit[o][j].seq <= audit[o][Len(audit[o])].seq
    BY <2>1, <2>2
  <2>4. Top(o) \in DOMAIN audit[o] /\ \A j \in DOMAIN audit[o] : audit[o][j].seq <= audit[o][Top(o)].seq
    BY <2>1, <2>3 DEF Top
  <2>5. Top(o) = Len(audit[o])
    BY <2>1, <2>2, <2>4
  <2>. QED  BY <1>3, <2>1, <2>2, <2>5 DEF NextSeq, NextPrevious, EndHash
<1>. QED  BY <1>2, <1>3

\* The row of a transaction that holds a position is a row of the table.
LEMMA RowOfType ==
  ASSUME TypeOK, HoldersAreValid, PositionIsTail, NEW t \in Tx,
         tx[t].pc \in {"positioned", "inserted"}
  PROVE  /\ RowOf(t) \in ChainRow
         /\ RowOf(t).seq = Len(audit[tx[t].org]) + 1
         /\ RowOf(t).previous = EndHash(tx[t].org)
         /\ RowOf(t).payload = [tx |-> t, body |-> Sanitize(tx[t].draft)]
         /\ RowOf(t).hash = Hash(RowOf(t).payload, RowOf(t).previous)
         /\ Sanitize(tx[t].draft) \in Body
<1>. DEFINE p == [tx |-> t, body |-> Sanitize(tx[t].draft)]
<1>1. tx[t].org \in Org /\ tx[t].draft \in Draft /\ tx[t].previous \in Seq(Payload)
  BY DEF TypeOK
<1>2. audit[tx[t].org] \in Seq(ChainRow)
  BY <1>1 DEF TypeOK
<1>3. tx[t].seq = Len(audit[tx[t].org]) + 1 /\ tx[t].previous = EndHash(tx[t].org)
  BY DEF PositionIsTail
<1>4. tx[t].seq \in Nat \ {0}
  BY <1>2, <1>3
<1>5. Sanitize(tx[t].draft) \in Body
  BY <1>1 DEF HoldersAreValid, Holding, Sanitize, Draft, Body
<1>6. p \in Payload
  BY <1>5 DEF Payload
<1>7. Hash(p, tx[t].previous) \in Seq(Payload)
  BY <1>1, <1>6 DEF Hash
<1>. HIDE DEF p
<1>8. Seal(p, tx[t].seq, tx[t].previous) \in ChainRow
  BY <1>1, <1>4, <1>6, <1>7 DEF Seal, ChainRow
<1>9. RowOf(t) = Seal(p, tx[t].seq, tx[t].previous)
  BY DEF RowOf, p
<1>. QED  BY <1>3, <1>5, <1>8, <1>9 DEF Seal, p

\* The hash of that row is longer than any hash of its chain.
LEMMA NoClash ==
  ASSUME IInv, NEW t \in Tx, tx[t].pc \in {"positioned", "failed", "inserted"}
  PROVE  ~Clashes(t)
<1>. DEFINE o == tx[t].org
<1>1. o \in Org /\ tx[t].previous \in Seq(Payload)
  BY DEF IInv, TypeOK
<1>2. audit[o] \in Seq(ChainRow)
  BY <1>1 DEF IInv, TypeOK
<1>3. tx[t].seq = Len(audit[o]) + 1 /\ tx[t].previous = EndHash(o)
  BY DEF IInv, PositionIsTail
<1>4. \A i \in DOMAIN audit[o] : audit[o][i].seq = i /\ Len(audit[o][i].hash) = i
  BY <1>1 DEF IInv, ChainIsLinked, HashesGrow
<1>5. Len(EndHash(o)) = Len(audit[o])
  BY <1>2, <1>4 DEF EndHash, NoHash
<1>6. RowOf(t).hash = Append(tx[t].previous, [tx |-> t, body |-> Sanitize(tx[t].draft)])
  BY DEF RowOf, Seal, Hash
<1>7. Len(RowOf(t).hash) = Len(audit[o]) + 1
  BY <1>1, <1>3, <1>5, <1>6
<1>8. \A i \in DOMAIN audit[o] : i # Len(audit[o]) + 1
  BY <1>2
<1>. QED  BY <1>3, <1>4, <1>7, <1>8 DEF Clashes

-----------------------------------------------------------------------------
(* Every step preserves the invariant. *)

LEMMA IInvInit == Init => IInv
<1>. SUFFICES ASSUME Init PROVE IInv
  OBVIOUS
<1>1. TypeOK
  <2>1. (CHOOSE o \in Org : TRUE) \in Org
    BY AuditAssumption DEF AuditAssumption
  <2>. QED  BY <2>1 DEF Init, TypeOK, Fresh, Pc, Draft, NoHash
<1>2. \A t \in Tx : tx[t].pc = "idle"
  BY DEF Init, Fresh
<1>3. \A o \in Org : DOMAIN audit[o] = {}
  BY DEF Init
<1>. QED  BY <1>1, <1>2, <1>3 DEF IInv, LocksExclude, HoldersAreValid, PositionIsTail, ChainIsLinked,
                                  HashesGrow, RecordedHaveEnded, Holding

\* A step that leaves the chains alone preserves what is said of the rows themselves.
LEMMA ChainsSame ==
  ASSUME ChainIsLinked, HashesGrow, audit' = audit
  PROVE  ChainIsLinked' /\ HashesGrow' /\ \A o \in Org : EndHash(o)' = EndHash(o)
BY DEF ChainIsLinked, HashesGrow, EndHash

\* A transaction that is not in a chain may move as it likes.
LEMMA RecordedSame ==
  ASSUME TypeOK, RecordedHaveEnded, NEW t \in Tx, audit' = audit, tx[t].pc # "ended",
         \A u \in Tx \ {t} : tx'[u] = tx[u]
  PROVE  RecordedHaveEnded'
<1>1. ASSUME NEW o \in Org, NEW i \in DOMAIN audit[o] PROVE tx'[audit[o][i].payload.tx].pc = "ended"
  <2>1. audit[o][i].payload.tx \in Tx
    BY RowType
  <2>2. tx[audit[o][i].payload.tx].pc = "ended"
    BY DEF RecordedHaveEnded
  <2>. QED  BY <2>1, <2>2
<1>. QED  BY <1>1 DEF RecordedHaveEnded

LEMMA BeginStep ==
  ASSUME IInv, NEW t \in Tx, NEW o \in Org, NEW d \in Draft, NEW m \in BOOLEAN, Begin(t, o, d, m)
  PROVE  IInv'
<1>1. TypeOK'
  BY DEF IInv, TypeOK, Begin, Pc, NoHash
<1>2. audit' = audit /\ \A u \in Tx \ {t} : tx'[u] = tx[u]
  BY DEF IInv, TypeOK, Begin
<1>3. tx[t].pc = "idle" /\ tx'[t].pc = "open"
  BY DEF IInv, TypeOK, Begin
<1>4. LocksExclude' /\ HoldersAreValid'
  BY <1>2, <1>3 DEF IInv, LocksExclude, HoldersAreValid, Holding
<1>5. ChainIsLinked' /\ HashesGrow' /\ \A p \in Org : EndHash(p)' = EndHash(p)
  BY <1>2, ChainsSame DEF IInv
<1>6. PositionIsTail'
  BY <1>2, <1>3, <1>5 DEF IInv, PositionIsTail, TypeOK
<1>7. RecordedHaveEnded'
  BY <1>2, <1>3, RecordedSame DEF IInv
<1>. QED  BY <1>1, <1>4, <1>5, <1>6, <1>7 DEF IInv

\* Steps that move one transaction and touch no chain.
LEMMA TxStep ==
  ASSUME IInv, NEW t \in Tx, Lock(t) \/ Position(t) \/ Insert(t) \/ GiveUp(t) \/ Rollback(t)
  PROVE  IInv'
<1>0. tx[t].org \in Org /\ tx[t].previous \in Seq(Payload) /\ tx[t].draft \in Draft
  BY DEF IInv, TypeOK
<1>1. /\ audit' = audit
      /\ applied' = applied
      /\ \A u \in Tx \ {t} : tx'[u] = tx[u]
      /\ tx'[t].org = tx[t].org /\ tx'[t].draft = tx[t].draft
      /\ tx[t].pc # "ended"
  BY DEF IInv, TypeOK, Lock, Position, Insert, GiveUp, Rollback, Refused
<1>2. NextSeq(tx[t].org) = Len(audit[tx[t].org]) + 1 /\ NextPrevious(tx[t].org) = EndHash(tx[t].org)
  BY <1>0, TopIsLast DEF IInv
<1>3. TypeOK'
  <2>1. audit[tx[t].org] \in Seq(ChainRow)
    BY <1>0 DEF IInv, TypeOK
  <2>2. NextSeq(tx[t].org) \in Nat
    BY <1>2, <2>1
  <2>3. NextPrevious(tx[t].org) \in Seq(Payload)
    BY <1>0, <1>2, TailType DEF IInv
  <2>4. CASE Lock(t)
    BY <2>4 DEF IInv, TypeOK, Lock, Pc
  <2>5. CASE Position(t)
    BY <2>2, <2>3, <2>5 DEF IInv, TypeOK, Position, Pc
  <2>6. CASE Insert(t)
    BY <2>6 DEF IInv, TypeOK, Insert, Pc
  <2>7. CASE GiveUp(t)
    BY <2>7 DEF IInv, TypeOK, GiveUp, Pc
  <2>8. CASE Rollback(t)
    BY <2>8 DEF IInv, TypeOK, Rollback, Pc
  <2>. QED  BY <2>4, <2>5, <2>6, <2>7, <2>8
<1>4. \/ /\ tx[t].pc = "open" /\ tx'[t].pc = "locked"
         /\ LockFree(tx[t].org) /\ tx[t].draft # "invalid"
      \/ tx[t].pc \in Holding /\ tx'[t].pc \in Holding
      \/ tx'[t].pc = "ended"
  BY DEF IInv, TypeOK, Lock, Position, Insert, GiveUp, Rollback, Holding
<1>5. LocksExclude' /\ HoldersAreValid'
  <2>1. \A u \in Tx : tx[u].pc \in Holding => Holds(u, tx[u].org)
    BY DEF Holding, Holds
  <2>. QED  BY <1>1, <1>4, <2>1 DEF IInv, LocksExclude, HoldersAreValid, LockFree, Holding
<1>6. ChainIsLinked' /\ HashesGrow' /\ \A p \in Org : EndHash(p)' = EndHash(p)
  BY <1>1, ChainsSame DEF IInv
<1>7. tx'[t].pc \in {"positioned", "failed", "inserted"} =>
        tx'[t].seq = Len(audit[tx[t].org]) + 1 /\ tx'[t].previous = EndHash(tx[t].org)
  <2>1. CASE Position(t)
    BY <1>2, <2>1 DEF Position, IInv, TypeOK
  <2>2. CASE Insert(t)
    BY <2>2 DEF Insert, IInv, TypeOK, PositionIsTail
  <2>3. CASE Lock(t) \/ GiveUp(t) \/ Rollback(t)
    BY <2>3 DEF Lock, GiveUp, Rollback, IInv, TypeOK
  <2>. QED  BY <2>1, <2>2, <2>3
<1>8. PositionIsTail'
  <2>1. ASSUME NEW u \in Tx, tx'[u].pc \in {"positioned", "failed", "inserted"}
        PROVE  (tx[u].seq = Len(audit[tx[u].org]) + 1 /\ tx[u].previous = EndHash(tx[u].org))'
    <3>1. CASE u = t
      BY <1>1, <1>7, <2>1, <3>1 DEF EndHash
    <3>2. CASE u # t
      <4>1. tx'[u] = tx[u]
        BY <1>1, <3>2
      <4>. QED  BY <1>1, <2>1, <4>1 DEF IInv, PositionIsTail, EndHash
    <3>. QED  BY <3>1, <3>2
  <2>. QED  BY <2>1 DEF PositionIsTail
<1>9. RecordedHaveEnded'
  BY <1>1, RecordedSame DEF IInv
<1>. QED  BY <1>3, <1>5, <1>6, <1>8, <1>9 DEF IInv

LEMMA CommitStep == ASSUME IInv, NEW t \in Tx, Commit(t) PROVE IInv'
<1>. DEFINE o == tx[t].org
            r == RowOf(t)
            n == Len(audit[o])
<1>0. o \in Org /\ tx[t].pc = "inserted"
  BY DEF IInv, TypeOK, Commit, MayCommit
<1>1. /\ r \in ChainRow
      /\ r.seq = n + 1
      /\ r.previous = EndHash(o)
      /\ r.payload.tx = t
      /\ r.hash = Hash(r.payload, r.previous)
  <2>1. tx[t].pc \in {"positioned", "inserted"} /\ TypeOK /\ HoldersAreValid /\ PositionIsTail
    BY <1>0 DEF IInv
  <2>2. r.payload = [tx |-> t, body |-> Sanitize(tx[t].draft)]
    BY <2>1, RowOfType
  <2>3. r.payload.tx = t
    BY <2>2
  <2>. QED  BY <2>1, <2>3, RowOfType
<1>2. audit \in [Org -> Seq(ChainRow)] /\ audit[o] \in Seq(ChainRow) /\ n \in Nat
  BY <1>0 DEF IInv, TypeOK
<1>3. audit' = [audit EXCEPT ![o] = Append(audit[o], r)]
  BY <1>0, <1>2 DEF Commit
<1>. HIDE DEF r
<1>4. /\ audit'[o] = Append(audit[o], r)
      /\ \A p \in Org \ {o} : audit'[p] = audit[p]
      /\ Len(audit'[o]) = n + 1
      /\ DOMAIN audit'[o] = 1..(n + 1)
      /\ audit'[o][n + 1] = r
      /\ \A i \in 1..n : i \in DOMAIN audit[o] /\ audit'[o][i] = audit[o][i]
  BY <1>0, <1>1, <1>2, <1>3
<1>5. tx'[t].pc = "ended" /\ \A u \in Tx \ {t} : tx'[u] = tx[u]
  BY DEF IInv, TypeOK, Commit
<1>6. TypeOK'
  <2>1. audit' \in [Org -> Seq(ChainRow)]
    BY <1>0, <1>1, <1>2, <1>3
  <2>2. tx' \in [Tx -> [pc : Pc, org : Org, draft : Draft, mutates : BOOLEAN, seq : Nat,
                        previous : Seq(Payload)]]
    BY DEF IInv, TypeOK, Commit, Pc
  <2>3. applied' \subseteq Tx
    BY DEF IInv, TypeOK, Commit
  <2>. QED  BY <2>1, <2>2, <2>3 DEF TypeOK
<1>7. LocksExclude' /\ HoldersAreValid'
  BY <1>5 DEF IInv, LocksExclude, HoldersAreValid, Holding
<1>8. \A u \in Tx \ {t} : tx[u].pc \in Holding => tx[u].org # o
  BY <1>0 DEF IInv, LocksExclude, Holding
<1>9. PositionIsTail'
  <2>2. ASSUME NEW u \in Tx, tx'[u].pc \in {"positioned", "failed", "inserted"}
        PROVE  (tx[u].seq = Len(audit[tx[u].org]) + 1 /\ tx[u].previous = EndHash(tx[u].org))'
    <3>1. u # t
      BY <1>5, <2>2
    <3>2. tx'[u] = tx[u] /\ tx[u].org \in Org \ {o}
      BY <1>5, <1>8, <2>2, <3>1 DEF IInv, TypeOK, Holding
    <3>3. audit'[tx[u].org] = audit[tx[u].org]
      BY <1>4, <3>2
    <3>. QED  BY <2>2, <3>2, <3>3 DEF IInv, PositionIsTail, EndHash
  <2>. QED  BY <2>2 DEF PositionIsTail
<1>10. ChainIsLinked'
  <2>. SUFFICES ASSUME NEW p \in Org, NEW i \in DOMAIN audit'[p]
                PROVE  /\ audit'[p][i].seq = i
                       /\ audit'[p][i].previous = (IF i = 1 THEN NoHash ELSE audit'[p][i - 1].hash)
                       /\ audit'[p][i].hash = Hash(audit'[p][i].payload, audit'[p][i].previous)
    BY DEF ChainIsLinked
  <2>1. CASE p # o
    BY <1>4, <2>1 DEF IInv, ChainIsLinked
  <2>2. CASE p = o /\ i = n + 1
    <3>1. r.previous = (IF n = 0 THEN NoHash ELSE audit[o][n].hash)
      BY <1>1, <1>2 DEF EndHash
    <3>2. n # 0 => audit'[o][n] = audit[o][n]
      BY <1>2, <1>4
    <3>3. i = 1 <=> n = 0
      BY <1>2, <2>2
    <3>4. i - 1 = n
      BY <1>2, <2>2
    <3>5. audit'[p][i] = r
      BY <1>4, <2>2
    <3>6. r.seq = i
      BY <1>1, <2>2
    <3>7. r.previous = (IF i = 1 THEN NoHash ELSE audit'[p][i - 1].hash)
      BY <2>2, <3>1, <3>2, <3>3, <3>4
    <3>. QED  BY <1>1, <3>5, <3>6, <3>7
  <2>3. CASE p = o /\ i \in 1..n
    <3>1. /\ audit[o][i].seq = i
          /\ audit[o][i].previous = (IF i = 1 THEN NoHash ELSE audit[o][i - 1].hash)
          /\ audit[o][i].hash = Hash(audit[o][i].payload, audit[o][i].previous)
      BY <1>0, <1>4, <2>3 DEF IInv, ChainIsLinked
    <3>2. i # 1 => audit'[o][i - 1] = audit[o][i - 1]
      BY <1>2, <1>4, <2>3
    <3>. QED  BY <1>4, <2>3, <3>1, <3>2
  <2>. QED  BY <1>2, <1>4, <2>1, <2>2, <2>3
<1>11. HashesGrow'
  <2>1. Len(EndHash(o)) = n
    <3>1. \A i \in DOMAIN audit[o] : Len(audit[o][i].hash) = i
      BY <1>0 DEF IInv, HashesGrow
    <3>. QED  BY <1>2, <3>1 DEF EndHash, NoHash
  <2>4. EndHash(o) \in Seq(Payload)
    BY <1>0, TailType DEF IInv
  <2>2. Len(r.hash) = n + 1
    BY <1>1, <2>1, <2>4 DEF Hash
  <2>3. ASSUME NEW p \in Org, NEW i \in DOMAIN audit'[p] PROVE Len(audit'[p][i].hash) = i
    <3>1. CASE p # o
      BY <1>4, <3>1 DEF IInv, HashesGrow
    <3>2. CASE p = o /\ i = n + 1
      BY <1>4, <2>2, <3>2
    <3>3. CASE p = o /\ i \in 1..n
      BY <1>0, <1>4, <3>3 DEF IInv, HashesGrow
    <3>. QED  BY <1>2, <1>4, <3>1, <3>2, <3>3
  <2>. QED  BY <2>3 DEF HashesGrow
<1>12. RecordedHaveEnded'
  <2>1. ASSUME NEW p \in Org, NEW i \in DOMAIN audit'[p] PROVE tx'[audit'[p][i].payload.tx].pc = "ended"
    <3>1. CASE p = o /\ i = n + 1
      BY <1>1, <1>4, <1>5, <3>1
    <3>2. CASE i \in DOMAIN audit[p] /\ audit'[p][i] = audit[p][i]
      <4>1. audit[p][i].payload.tx \in Tx
        BY <3>2, RowType DEF IInv
      <4>2. tx[audit[p][i].payload.tx].pc = "ended"
        BY <3>2 DEF IInv, RecordedHaveEnded
      <4>. QED  BY <1>5, <3>2, <4>1, <4>2
    <3>3. CASE p = o /\ i # n + 1
      <4>1. i \in 1..n
        BY <1>2, <1>4, <3>3
      <4>. QED  BY <1>4, <3>2, <3>3, <4>1
    <3>4. CASE p # o
      BY <1>4, <3>2, <3>4
    <3>. QED  BY <3>1, <3>3, <3>4
  <2>. QED  BY <2>1 DEF RecordedHaveEnded
<1>. QED  BY <1>6, <1>7, <1>9, <1>10, <1>11, <1>12 DEF IInv

LEMMA IInvStep == IInv /\ [Next]_vars => IInv'
<1>1. CASE UNCHANGED vars
  BY <1>1 DEF vars, IInv, TypeOK, LocksExclude, HoldersAreValid, PositionIsTail, ChainIsLinked,
              HashesGrow, RecordedHaveEnded, EndHash
<1>2. CASE Next
  BY <1>2, BeginStep, TxStep, CommitStep DEF Next, AppendStep
<1>. QED  BY <1>1, <1>2

LEMMA IInvHolds == Spec => []IInv
BY IInvInit, IInvStep, PTL DEF Spec

-----------------------------------------------------------------------------
(* The theorems. *)

\* The table columns and the transactions keep their shape, and nothing unsanitized is
\* ever stored (append_in_tx, sanitize).
THEOREM TypeCorrect == Spec => []TypeOK
<1>1. IInv => TypeOK
  BY DEF IInv
<1>. QED  BY <1>1, IInvHolds, PTL

\* An append never collides with another one, however many overlap: the position it reads
\* under the lock stays the end of the chain until its transaction ends
\* (lock_organization_chain, next_chain_position).
THEOREM PositionsStayFresh == Spec => []PositionIsFresh
<1>1. IInv => PositionIsFresh
  BY NoClash DEF IInv, PositionIsTail, PositionIsFresh
<1>. QED  BY <1>1, IInvHolds, PTL

\* The chain of an organization has no gap and no fork (append_in_tx).
THEOREM ChainStaysLinked == Spec => []ChainIsLinked
<1>1. IInv => ChainIsLinked
  BY DEF IInv
<1>. QED  BY <1>1, IInvHolds, PTL

Log == [o \in Org |-> [i \in DOMAIN audit[o] |-> audit[o][i].payload]]

\* A mutation and its audit event are committed together or not at all, events are never
\* recorded twice and the trail only grows (append_in_tx).
THEOREM KeepsThePromise == Spec => ImplementsAuditLog
<1>1. Init => Promise!Init
  BY DEF Init, Promise!Init
<1>2. IInv /\ [Next]_vars => [Promise!Next]_(Promise!vars)
  <2>. SUFFICES ASSUME IInv, [Next]_vars PROVE [Promise!Next]_(Promise!vars)
    OBVIOUS
  <2>1. CASE audit' = audit /\ applied' = applied
    BY <2>1 DEF Promise!vars
  <2>2. ASSUME NEW t \in Tx, Commit(t) PROVE Promise!Next
    <3>. DEFINE o == tx[t].org
                r == RowOf(t)
                b == Sanitize(tx[t].draft)
    <3>0. o \in Org /\ tx[t].pc = "inserted"
      BY <2>2 DEF IInv, TypeOK, Commit, MayCommit
    <3>1. r \in ChainRow /\ r.payload = [tx |-> t, body |-> b] /\ b \in Body
      BY <3>0, RowOfType DEF IInv
    <3>2. audit \in [Org -> Seq(ChainRow)] /\ audit[o] \in Seq(ChainRow)
      BY <3>0 DEF IInv, TypeOK
    <3>3. audit' = [audit EXCEPT ![o] = Append(audit[o], r)]
      BY <2>2, <3>0, <3>2 DEF Commit
    <3>4. Log' = [Log EXCEPT ![o] = Append(Log[o], [tx |-> t, body |-> b])]
      <4>. HIDE DEF r, b
      <4>. DEFINE L(s) == [i \in DOMAIN s |-> s[i].payload]
      <4>1. L(Append(audit[o], r)) = Append(L(audit[o]), r.payload)
        BY <3>1, <3>2
      <4>2. Log = [p \in Org |-> L(audit[p])] /\ Log' = [p \in Org |-> L(audit'[p])]
        BY DEF Log
      <4>. HIDE DEF L
      <4>. QED  BY <3>0, <3>1, <3>2, <3>3, <4>1, <4>2
    <3>5. t \notin Promise!Recorded
      <4>1. \A p \in Org : \A i \in DOMAIN audit[p] : audit[p][i].payload.tx # t
        BY <3>0 DEF IInv, RecordedHaveEnded
      <4>. QED  BY <4>1 DEF Promise!Recorded
    <3>6. applied' \in {applied, applied \cup {t}}
      BY <2>2 DEF Commit
    <3>7. b \in Promise!Body
      BY <3>1 DEF Body, Promise!Body
    <3>8. PICK p \in Org, c \in Promise!Body : p = o /\ c = b
      BY <3>0, <3>7
    <3>9. Promise!Record(t, p, c)
      BY <3>4, <3>5, <3>6, <3>8 DEF Promise!Record, Log
    <3>. QED  BY <3>9 DEF Promise!Next
  <2>3. CASE UNCHANGED vars
    BY <2>1, <2>3 DEF vars
  <2>4. CASE Next
    <3>1. PICK t \in Tx : \/ \E p \in Org, d \in Draft, m \in BOOLEAN : Begin(t, p, d, m)
                          \/ AppendStep(t)
                          \/ Rollback(t)
      BY <2>4 DEF Next
    <3>2. Commit(t) \/ (audit' = audit /\ applied' = applied)
      BY <3>1 DEF Begin, AppendStep, Lock, Position, Insert, GiveUp, Rollback
    <3>. QED  BY <2>1, <2>2, <3>2
  <2>. QED  BY <2>3, <2>4
<1>. QED  BY <1>1, <1>2, IInvHolds, PTL DEF Spec, ImplementsAuditLog, Promise!Spec

-----------------------------------------------------------------------------
(* Verification.  Sets of rows of one chain are named by the positions they  *)
(* were taken from.                                                          *)

\* The rows at the positions K of a chain.
Taken(o, K) == {audit[o][i] : i \in K}

\* The positions of K before k.
Below(K, k) == {j \in K : j < k}

\* What verification needs to know of a row of a chain.
LEMMA RowFacts ==
  ASSUME IInv, NEW o \in Org
  PROVE  /\ Len(audit[o]) \in Nat
         /\ DOMAIN audit[o] = 1..Len(audit[o])
         /\ \A i \in 1..Len(audit[o]) :
              /\ audit[o][i] \in ChainRow
              /\ audit[o][i].seq = i
              /\ audit[o][i].previous = (IF i = 1 THEN NoHash ELSE audit[o][i - 1].hash)
              /\ audit[o][i].hash = Hash(audit[o][i].payload, audit[o][i].previous)
              /\ Sanitize(audit[o][i].payload.body) = audit[o][i].payload.body
<1>1. audit[o] \in Seq(ChainRow)
  BY DEF IInv, TypeOK
<1>2. Len(audit[o]) \in Nat /\ DOMAIN audit[o] = 1..Len(audit[o])
  BY <1>1
<1>3. ASSUME NEW i \in 1..Len(audit[o])
      PROVE  audit[o][i] \in ChainRow /\ Sanitize(audit[o][i].payload.body) = audit[o][i].payload.body
  <2>1. audit[o][i] \in ChainRow
    BY <1>1, <1>3
  <2>2. audit[o][i].payload.body \in Body
    BY <2>1 DEF ChainRow, Payload
  <2>. QED  BY <2>1, <2>2 DEF Sanitize, Body
<1>. QED  BY <1>2, <1>3 DEF IInv, ChainIsLinked

\* Positions name rows one to one, so they can be counted instead of them.
LEMMA TakenCount ==
  ASSUME IInv, NEW o \in Org, NEW K \in SUBSET (1..Len(audit[o]))
  PROVE  /\ IsFiniteSet(K) /\ IsFiniteSet(Taken(o, K))
         /\ Cardinality(Taken(o, K)) = Cardinality(K)
         /\ Cardinality(K) \in Nat
<1>1. \A i \in 1..Len(audit[o]) : audit[o][i].seq = i
  BY RowFacts
<1>2. IsFiniteSet(K) /\ Cardinality(K) \in Nat
  <2>1. IsFiniteSet(1..Len(audit[o]))
    BY RowFacts, FS_Interval
  <2>. QED  BY <2>1, FS_Subset, FS_CardinalityType
<1>3. ExistsBijection(K, Taken(o, K))
  <2>. DEFINE f == [i \in K |-> audit[o][i]]
  <2>1. f \in [K -> Taken(o, K)]
    BY DEF Taken
  <2>2. \A i, j \in K : f[i] = f[j] => i = j
    BY <1>1
  <2>3. \A r \in Taken(o, K) : \E i \in K : f[i] = r
    BY DEF Taken
  <2>4. f \in Bijection(K, Taken(o, K))
    <3>. HIDE DEF f
    <3>. QED  BY <2>1, <2>2, <2>3 DEF Bijection, Injection, Surjection, IsInjective
  <2>. QED  BY <2>4 DEF ExistsBijection
<1>. QED  BY <1>2, <1>3, FS_Bijection

\* The rows before a row are those at the positions below its own.
LEMMA BeforeIsBelow ==
  ASSUME IInv, NEW o \in Org, NEW K \in SUBSET (1..Len(audit[o])), NEW r
  PROVE  Before(Taken(o, K), r) = Taken(o, Below(K, r.seq))
<1>1. \A i \in K : audit[o][i].seq = i
  BY RowFacts
<1>2. ASSUME NEW q \in Before(Taken(o, K), r) PROVE q \in Taken(o, Below(K, r.seq))
  <2>1. PICK i \in K : q = audit[o][i]
    BY DEF Before, Taken
  <2>2. q.seq = i /\ q.seq < r.seq
    BY <1>1, <2>1 DEF Before
  <2>. QED  BY <2>1, <2>2 DEF Taken, Below
<1>3. ASSUME NEW i \in Below(K, r.seq) PROVE audit[o][i] \in Before(Taken(o, K), r)
  <2>1. i \in K /\ i < r.seq
    BY DEF Below
  <2>. QED  BY <1>1, <2>1 DEF Before, Taken
<1>. QED  BY <1>2, <1>3 DEF Taken

LEMMA PositionsAreFinite ==
  ASSUME NEW L \in Nat, NEW K \in SUBSET (1..L)
  PROVE  IsFiniteSet(K) /\ Cardinality(K) \in Nat /\ Cardinality(K) <= L
<1>1. IsFiniteSet(1..L) /\ Cardinality(1..L) = L
  BY FS_Interval
<1>2. IsFiniteSet(K) /\ Cardinality(K) <= L
  BY <1>1, FS_Subset
<1>. QED  BY <1>2, FS_CardinalityType

\* A set of positions is a beginning of the chain if each has as many below it as it should.
LEMMA Beginnings ==
  ASSUME NEW L \in Nat, NEW K \in SUBSET (1..L)
  PROVE  /\ (\A k \in K : k = Cardinality(Below(K, k)) + 1) => K = 1..Cardinality(K)
         /\ \A n \in Nat : K = 1..n => \A k \in K : k = Cardinality(Below(K, k)) + 1
<1>1. IsFiniteSet(K) /\ Cardinality(K) \in Nat
  BY PositionsAreFinite
<1>2. ASSUME \A k \in K : k = Cardinality(Below(K, k)) + 1 PROVE K = 1..Cardinality(K)
  <2>1. ASSUME NEW k \in K PROVE k \in 1..Cardinality(K)
    <3>1. Below(K, k) \in SUBSET K /\ k \notin Below(K, k)
      BY DEF Below
    <3>2. /\ IsFiniteSet(Below(K, k))
          /\ Cardinality(Below(K, k)) <= Cardinality(K)
          /\ Cardinality(Below(K, k)) # Cardinality(K)
      BY <1>1, <3>1, FS_Subset
    <3>3. Cardinality(Below(K, k)) \in Nat
      BY <3>2, FS_CardinalityType
    <3>. QED  BY <1>1, <1>2, <3>2, <3>3
  <2>2. K \in SUBSET (1..Cardinality(K))
    BY <2>1
  <2>3. IsFiniteSet(1..Cardinality(K)) /\ Cardinality(1..Cardinality(K)) = Cardinality(K)
    BY <1>1, FS_Interval
  <2>. QED  BY <2>2, <2>3, FS_Subset
<1>3. ASSUME NEW n \in Nat, K = 1..n, NEW k \in K PROVE k = Cardinality(Below(K, k)) + 1
  <2>1. Below(K, k) = 1..(k - 1) /\ k \in Int /\ k >= 1
    BY <1>3 DEF Below
  <2>2. Cardinality(1..(k - 1)) = k - 1
    BY <2>1, FS_Interval
  <2>. QED  BY <2>1, <2>2
<1>. QED  BY <1>2, <1>3

\* The row of highest position before a row, when those are all there are below it.
LEMMA ExpectedIsLinked ==
  ASSUME IInv, NEW o \in Org, NEW k \in 1..Len(audit[o]), NEW rows, NEW r,
         Before(rows, r) = Taken(o, 1..(k - 1))
  PROVE  ExpectedPrevious(rows, r) = audit[o][k].previous
<1>1. audit[o][k].previous = (IF k = 1 THEN NoHash ELSE audit[o][k - 1].hash)
  BY RowFacts
<1>2. CASE k = 1
  <2>1. Taken(o, 1..(k - 1)) = {}
    BY <1>2 DEF Taken
  <2>. QED  BY <1>1, <1>2, <2>1 DEF ExpectedPrevious
<1>3. CASE k # 1
  <2>1. k - 1 \in 1..(k - 1) /\ \A i \in 1..(k - 1) : i \in 1..Len(audit[o]) /\ i <= k - 1
    BY <1>3, RowFacts
  <2>2. \A i \in 1..(k - 1) : audit[o][i].seq = i
    BY <2>1, RowFacts
  <2>. DEFINE q == audit[o][k - 1]
  <2>3. q \in Before(rows, r) /\ \A p \in Before(rows, r) : p.seq <= q.seq
    BY <2>1, <2>2 DEF Taken
  <2>4. /\ Predecessor(rows, r) \in Before(rows, r)
        /\ \A p \in Before(rows, r) : p.seq <= Predecessor(rows, r).seq
    BY <2>3 DEF Predecessor
  <2>5. PICK i \in 1..(k - 1) : Predecessor(rows, r) = audit[o][i]
    BY <2>4 DEF Taken
  <2>6. i = k - 1
    BY <2>1, <2>2, <2>3, <2>4, <2>5
  <2>. QED  BY <1>1, <1>3, <2>3, <2>5, <2>6 DEF ExpectedPrevious
<1>. QED  BY <1>2, <1>3

\* A row of the chain passes exactly if as many rows as there should be are before it.
LEMMA RowPasses ==
  ASSUME IInv, NEW o \in Org, NEW K \in SUBSET (1..Len(audit[o])), NEW k \in K
  PROVE  /\ FaultOf(Taken(o, K), audit[o][k]) = "none" => k = Cardinality(Below(K, k)) + 1
         /\ Below(K, k) = 1..(k - 1) => FaultOf(Taken(o, K), audit[o][k]) = "none"
<1>. DEFINE r == audit[o][k]
            rows == Taken(o, K)
<1>1. /\ r.seq = k /\ k \in Int /\ k >= 1
      /\ r.hash = Hash(r.payload, r.previous)
      /\ Sanitize(r.payload.body) = r.payload.body
  BY RowFacts
<1>2. Before(rows, r) = Taken(o, Below(K, k))
  BY <1>1, BeforeIsBelow
<1>3. Below(K, k) \in SUBSET (1..Len(audit[o]))
  BY DEF Below
<1>4. Cardinality(Before(rows, r)) = Cardinality(Below(K, k))
  BY <1>2, <1>3, TakenCount
<1>5. ASSUME FaultOf(rows, r) = "none" PROVE k = Cardinality(Below(K, k)) + 1
  BY <1>1, <1>4, <1>5 DEF FaultOf
<1>6. ASSUME Below(K, k) = 1..(k - 1) PROVE FaultOf(rows, r) = "none"
  <2>1. Cardinality(Below(K, k)) = k - 1
    BY <1>1, <1>6, FS_Interval
  <2>2. r.seq = Cardinality(Before(rows, r)) + 1
    BY <1>1, <1>4, <2>1
  <2>3. r.previous = ExpectedPrevious(rows, r)
    BY <1>2, <1>6, ExpectedIsLinked
  <2>. QED  BY <1>1, <2>2, <2>3 DEF FaultOf
<1>. QED  BY <1>5, <1>6

\* Verification answers valid exactly if no row has a fault.
LEMMA ValidIsFaultless ==
  ASSUME NEW rows
  PROVE  /\ Verify(rows).result \in {"valid", "broken"}
         /\ Verify(rows).result = "valid" <=> \A r \in rows : FaultOf(rows, r) = "none"
         /\ (\A r \in rows : FaultOf(rows, r) = "none") => Verify(rows).checked = Cardinality(rows)
BY DEF Verify, Faulty

\* Of the rows of a chain, verification accepts the beginnings and nothing else.
LEMMA ValidIsBeginning ==
  ASSUME IInv, NEW o \in Org, NEW K \in SUBSET (1..Len(audit[o]))
  PROVE  Verify(Taken(o, K)).result = "valid" <=> \E n \in 0..Len(audit[o]) : K = 1..n
<1>1. Len(audit[o]) \in Nat
  BY RowFacts
<1>2. ASSUME Verify(Taken(o, K)).result = "valid" PROVE \E n \in 0..Len(audit[o]) : K = 1..n
  <2>1. \A r \in Taken(o, K) : FaultOf(Taken(o, K), r) = "none"
    BY <1>2, ValidIsFaultless
  <2>2. \A k \in K : audit[o][k] \in Taken(o, K)
    BY DEF Taken
  <2>3. \A k \in K : k = Cardinality(Below(K, k)) + 1
    BY <2>1, <2>2, RowPasses
  <2>4. K = 1..Cardinality(K)
    BY <1>1, <2>3, Beginnings
  <2>5. Cardinality(K) \in Nat /\ Cardinality(K) <= Len(audit[o])
    BY <1>1, PositionsAreFinite
  <2>. QED  BY <1>1, <2>4, <2>5
<1>3. ASSUME NEW n \in 0..Len(audit[o]), K = 1..n PROVE Verify(Taken(o, K)).result = "valid"
  <2>1. ASSUME NEW r \in Taken(o, K) PROVE FaultOf(Taken(o, K), r) = "none"
    <3>1. PICK k \in K : r = audit[o][k]
      BY DEF Taken
    <3>2. Below(K, k) = 1..(k - 1)
      BY <1>1, <1>3 DEF Below
    <3>. QED  BY <3>1, <3>2, RowPasses
  <2>. QED  BY <2>1, ValidIsFaultless
<1>. QED  BY <1>2, <1>3

\* What one altered row in the place of another leaves before it and after it.
LEMMA AlteredAmong ==
  ASSUME IInv, NEW o \in Org, NEW k \in 1..Len(audit[o]), NEW a, a.seq = k
  PROVE  LET rows == (Rows(o) \ {audit[o][k]}) \cup {a}
         IN  /\ Before(rows, a) = Taken(o, 1..(k - 1))
             /\ k # Len(audit[o]) => /\ audit[o][k + 1] \in rows
                                     /\ ExpectedPrevious(rows, audit[o][k + 1]) = a.hash
<1>. DEFINE r == audit[o][k]
            L == Len(audit[o])
            rows == (Rows(o) \ {r}) \cup {a}
<1>1. L \in Nat /\ Rows(o) = Taken(o, 1..L) /\ \A i \in 1..L : audit[o][i].seq = i
  BY RowFacts DEF Rows, Taken
<1>2. \A i \in 1..L : audit[o][i] = r => i = k
  BY <1>1
<1>3. Before(rows, a) = Taken(o, 1..(k - 1))
  <2>1. ASSUME NEW q \in Before(rows, a) PROVE q \in Taken(o, 1..(k - 1))
    <3>1. q \in rows /\ q.seq < k
      BY DEF Before
    <3>2. q # a
      BY <3>1
    <3>3. PICK i \in 1..L : q = audit[o][i]
      BY <1>1, <3>1, <3>2 DEF Taken
    <3>4. i \in 1..(k - 1)
      BY <1>1, <3>1, <3>3
    <3>. QED  BY <3>3, <3>4 DEF Taken
  <2>2. ASSUME NEW i \in 1..(k - 1) PROVE audit[o][i] \in Before(rows, a)
    <3>1. i \in 1..L /\ i < k
      BY <1>1
    <3>2. audit[o][i] \in Rows(o) \ {r}
      BY <1>1, <1>2, <3>1 DEF Taken
    <3>. QED  BY <1>1, <3>1, <3>2 DEF Before
  <2>. QED  BY <2>1, <2>2 DEF Taken
<1>4. ASSUME k # L
      PROVE  audit[o][k + 1] \in rows /\ ExpectedPrevious(rows, audit[o][k + 1]) = a.hash
  <2>. DEFINE b == audit[o][k + 1]
  <2>1. k + 1 \in 1..L /\ b.seq = k + 1
    BY <1>1, <1>4
  <2>2. b \in rows
    BY <1>1, <1>2, <2>1 DEF Taken
  <2>3. a \in Before(rows, b)
    BY <2>1 DEF Before
  <2>4. ASSUME NEW q \in Before(rows, b) PROVE q = a \/ (q.seq \in Int /\ q.seq < k)
    <3>1. q \in rows /\ q.seq < k + 1
      BY <2>1 DEF Before
    <3>2. CASE q # a
      <4>1. q # r /\ q \in Taken(o, 1..L)
        BY <1>1, <3>1, <3>2
      <4>2. PICK i \in 1..L : q = audit[o][i]
        BY <4>1 DEF Taken
      <4>3. i # k /\ q.seq = i
        BY <1>1, <4>1, <4>2
      <4>. QED  BY <3>1, <4>3
    <3>. QED  BY <3>2
  <2>5. \A p \in Before(rows, b) : p.seq <= a.seq
    BY <2>4
  <2>6. /\ Predecessor(rows, b) \in Before(rows, b)
        /\ \A p \in Before(rows, b) : p.seq <= Predecessor(rows, b).seq
    BY <2>3, <2>5 DEF Predecessor
  <2>7. Predecessor(rows, b) = a
    <3>0. PICK q \in Before(rows, b) : /\ q = Predecessor(rows, b)
                                       /\ \A p \in Before(rows, b) : p.seq <= q.seq
      BY <2>6
    <3>1. q = a \/ (q.seq \in Int /\ q.seq < k)
      BY <2>4
    <3>2. k <= q.seq
      BY <2>3, <3>0
    <3>3. k \in Int
      BY <1>1
    <3>. QED  BY <3>0, <3>1, <3>2, <3>3
  <2>. QED  BY <2>2, <2>3, <2>7 DEF ExpectedPrevious
<1>. QED  BY <1>3, <1>4

\* An alteration keeps the position and stays a row of the table.
LEMMA AlteredType ==
  ASSUME NEW r \in ChainRow, NEW a \in Altered(r)
  PROVE  a \in ChainRow /\ a.seq = r.seq
<1>0. r.previous \in Seq(Payload) /\ r.seq \in Nat \ {0} /\ NoHash \in Seq(Payload)
  BY DEF ChainRow, NoHash
<1>1. \A p \in Payload : Hash(p, r.previous) \in Seq(Payload)
  BY <1>0 DEF Hash
<1>2. ASSUME NEW p \in Payload, a = [r EXCEPT !.payload = p] PROVE a \in ChainRow /\ a.seq = r.seq
  BY <1>2 DEF ChainRow
<1>3. ASSUME a = [r EXCEPT !.previous = NoHash] PROVE a \in ChainRow /\ a.seq = r.seq
  BY <1>0, <1>3 DEF ChainRow
<1>4. ASSUME NEW p \in Payload, a = [r EXCEPT !.hash = Hash(p, r.previous)]
      PROVE  a \in ChainRow /\ a.seq = r.seq
  BY <1>1, <1>4 DEF ChainRow
<1>5. ASSUME NEW p \in Payload, a = Seal(p, r.seq, r.previous) PROVE a \in ChainRow /\ a.seq = r.seq
  BY <1>0, <1>1, <1>5 DEF ChainRow, Seal
<1>. QED  BY <1>2, <1>3, <1>4, <1>5 DEF Altered

\* Of the rows put in another's place, verification accepts none but a last row sealed anew.
LEMMA AlteredIsSeen ==
  ASSUME IInv, NEW o \in Org, NEW k \in 1..Len(audit[o]), NEW a \in Altered(audit[o][k]),
         Verify((Rows(o) \ {audit[o][k]}) \cup {a}).result = "valid"
  PROVE  /\ a = Seal(a.payload, audit[o][k].seq, audit[o][k].previous)
         /\ k # Len(audit[o]) => a = audit[o][k]
<1>. DEFINE r == audit[o][k]
            rows == (Rows(o) \ {r}) \cup {a}
<1>1. /\ r \in ChainRow /\ r.seq = k /\ r.hash = Hash(r.payload, r.previous)
      /\ k + 1 \in 1..Len(audit[o]) => audit[o][k + 1].previous = r.hash
      /\ k # Len(audit[o]) => k + 1 \in 1..Len(audit[o])
  BY RowFacts
<1>2. a \in ChainRow /\ a.seq = k
  BY <1>1, AlteredType
<1>3. /\ Before(rows, a) = Taken(o, 1..(k - 1))
      /\ k # Len(audit[o]) => /\ audit[o][k + 1] \in rows
                              /\ ExpectedPrevious(rows, audit[o][k + 1]) = a.hash
  BY <1>2, AlteredAmong
<1>4. ExpectedPrevious(rows, a) = r.previous
  BY <1>3, ExpectedIsLinked
<1>5. \A q \in rows : FaultOf(rows, q) = "none"
  BY ValidIsFaultless
<1>6. FaultOf(rows, a) = "none"
  BY <1>5
<1>7. a.previous = r.previous /\ a.hash = Hash(a.payload, r.previous)
  BY <1>4, <1>6 DEF FaultOf
<1>8. a = Seal(a.payload, r.seq, r.previous)
  BY <1>1, <1>2, <1>7 DEF ChainRow, Seal
<1>9. ASSUME k # Len(audit[o]) PROVE a = r
  <2>1. FaultOf(rows, audit[o][k + 1]) = "none"
    BY <1>3, <1>5, <1>9
  <2>2. audit[o][k + 1].previous = a.hash
    BY <1>3, <1>9, <2>1 DEF FaultOf
  <2>3. Hash(a.payload, r.previous) = Hash(r.payload, r.previous)
    BY <1>1, <1>7, <1>9, <2>2
  <2>4. a.payload \in Payload /\ r.payload \in Payload /\ r.previous \in Seq(Payload)
    BY <1>1, <1>2 DEF ChainRow
  <2>5. a.payload = r.payload
    <3>. DEFINE p == a.payload  q == r.payload  s == r.previous
    <3>1. Append(s, p) = Append(s, q) /\ s \in Seq(Payload) /\ p \in Payload /\ q \in Payload
      BY <2>3, <2>4 DEF Hash
    <3>. HIDE DEF p, q, s
    <3>2. Append(s, p)[Len(s) + 1] = p /\ Append(s, q)[Len(s) + 1] = q
      BY <3>1
    <3>3. p = q
      BY <3>1, <3>2
    <3>. QED  BY <3>3 DEF p, q
  <2>. QED  BY <1>1, <1>2, <1>7, <2>5 DEF ChainRow
<1>. QED  BY <1>8, <1>9

\* A row put in beside a chain is at a position behind its end.
LEMMA PutInType ==
  ASSUME IInv, NEW o \in Org, NEW a \in PutIn(o)
  PROVE  /\ a = [seq |-> a.seq, payload |-> a.payload, previous |-> a.previous, hash |-> a.hash]
         /\ a.seq \in {Len(audit[o]) + 1, Len(audit[o]) + 2}
<1>. DEFINE hashes == {NoHash} \cup {r.hash : r \in Rows(o)}
            behind == Len(audit[o]) + 1
<1>0. Len(audit[o]) \in Nat
  BY RowFacts
<1>1. \/ \E p \in Payload, s \in {behind, behind + 1}, h \in hashes : a = Seal(p, s, h)
      \/ \E p \in Payload, h \in hashes : a = [Seal(p, behind, EndHash(o)) EXCEPT !.hash = h]
  BY DEF PutIn
<1>2. behind + 1 = Len(audit[o]) + 2
  BY <1>0
<1>. HIDE DEF hashes
<1>3. ASSUME NEW p \in Payload, NEW s \in {behind, behind + 1}, NEW h \in hashes, a = Seal(p, s, h)
      PROVE  /\ a = [seq |-> a.seq, payload |-> a.payload, previous |-> a.previous, hash |-> a.hash]
             /\ a.seq \in {behind, behind + 1}
  BY <1>3 DEF Seal
<1>4. ASSUME NEW p \in Payload, NEW h \in hashes, a = [Seal(p, behind, EndHash(o)) EXCEPT !.hash = h]
      PROVE  /\ a = [seq |-> a.seq, payload |-> a.payload, previous |-> a.previous, hash |-> a.hash]
             /\ a.seq \in {behind, behind + 1}
  BY <1>4 DEF Seal
<1>. QED  BY <1>1, <1>2, <1>3, <1>4

\* Verification takes a row put in only for the next one of the chain.
LEMMA PutInIsSeen ==
  ASSUME IInv, NEW o \in Org, NEW a \in PutIn(o), Verify(Rows(o) \cup {a}).result = "valid"
  PROVE  a = Seal(a.payload, Len(audit[o]) + 1, EndHash(o))
<1>. DEFINE L == Len(audit[o])
            rows == Rows(o) \cup {a}
<1>1. /\ a = [seq |-> a.seq, payload |-> a.payload, previous |-> a.previous, hash |-> a.hash]
      /\ a.seq \in {L + 1, L + 2}
  BY PutInType
<1>2. L \in Nat /\ Rows(o) = Taken(o, 1..L) /\ \A i \in 1..L : audit[o][i].seq = i
  BY RowFacts DEF Rows, Taken
<1>3. Before(rows, a) = Taken(o, 1..L)
  <2>1. a \notin Before(rows, a)
    BY <1>1, <1>2 DEF Before
  <2>2. \A i \in 1..L : audit[o][i] \in Before(rows, a)
    BY <1>1, <1>2 DEF Before, Taken
  <2>. QED  BY <1>2, <2>1, <2>2 DEF Before, Taken
<1>4. Cardinality(Before(rows, a)) = L
  BY <1>2, <1>3, TakenCount, FS_Interval
<1>5. FaultOf(rows, a) = "none"
  BY ValidIsFaultless
<1>6. a.seq = L + 1 /\ a.previous = ExpectedPrevious(rows, a) /\ a.hash = Hash(a.payload, a.previous)
  BY <1>4, <1>5 DEF FaultOf
<1>7. ExpectedPrevious(rows, a) = EndHash(o)
  <2>1. CASE L = 0
    <3>1. audit[o] = <<>>
      BY <2>1, RowFacts DEF IInv, TypeOK
    <3>2. 1..L = {}
      BY <2>1
    <3>3. Before(rows, a) = {}
      BY <1>3, <3>2 DEF Taken
    <3>. QED  BY <3>1, <3>3 DEF ExpectedPrevious, EndHash
  <2>2. CASE L # 0
    <3>0. L \in 1..L /\ audit[o] # <<>>
      BY <1>2, <2>2
    <3>1. audit[o][L] \in Before(rows, a) /\ \A q \in Before(rows, a) : q.seq <= audit[o][L].seq
      BY <1>2, <1>3, <3>0 DEF Taken
    <3>2. /\ Predecessor(rows, a) \in Before(rows, a)
          /\ \A q \in Before(rows, a) : q.seq <= Predecessor(rows, a).seq
      BY <3>1 DEF Predecessor
    <3>3. PICK i \in 1..L : Predecessor(rows, a) = audit[o][i]
      BY <1>3, <3>2 DEF Taken
    <3>4. audit[o][L].seq = L /\ audit[o][i].seq = i
      BY <1>2, <3>0
    <3>5. audit[o][L].seq <= audit[o][i].seq
      BY <3>1, <3>2, <3>3
    <3>6. i = L
      BY <1>2, <3>4, <3>5
    <3>. QED  BY <3>0, <3>1, <3>3, <3>6 DEF ExpectedPrevious, EndHash
  <2>. QED  BY <2>1, <2>2
<1>. QED  BY <1>1, <1>6, <1>7 DEF Seal

\* Verification accepts every chain the store has written, with all its rows counted, every
\* beginning of one, and no other selection of its rows; a row that was changed or sealed
\* anew is reported unless it is the last one, resealed, and a row that was put in unless it is
\* sealed as the next one (verify_organization_chain).
THEOREM VerificationIsExact == Spec => []VerifyIsExact
<1>1. ASSUME IInv PROVE VerifyIsExact
  <2>. SUFFICES ASSUME NEW o \in Org
                PROVE  /\ Verify(Rows(o)).checked = Len(audit[o])
                       /\ \A kept \in SUBSET Rows(o) :
                            Verify(kept).result = "valid" <=>
                              kept \in {{audit[o][i] : i \in 1..n} : n \in 0..Len(audit[o])}
                       /\ \A r \in Rows(o) : \A a \in Altered(r) \ {r} :
                            /\ r # audit[o][Len(audit[o])] =>
                                 Verify((Rows(o) \ {r}) \cup {a}).result = "broken"
                            /\ Verify((Rows(o) \ {r}) \cup {a}).result = "valid" =>
                                 a = Seal(a.payload, r.seq, r.previous)
                       /\ \A a \in PutIn(o) :
                            Verify(Rows(o) \cup {a}).result = "valid" =>
                              a = Seal(a.payload, Len(audit[o]) + 1, EndHash(o))
    BY DEF VerifyIsExact
  <2>. DEFINE L == Len(audit[o])
  <2>0. L \in Nat /\ Rows(o) = Taken(o, 1..L) /\ DOMAIN audit[o] = 1..L
    BY <1>1, RowFacts DEF Rows, Taken
  <2>1. Verify(Rows(o)).checked = L
    <3>1. Verify(Taken(o, 1..L)).result = "valid"
      BY <1>1, <2>0, ValidIsBeginning
    <3>2. Verify(Taken(o, 1..L)).checked = Cardinality(Taken(o, 1..L))
      BY <3>1, ValidIsFaultless
    <3>3. Cardinality(Taken(o, 1..L)) = Cardinality(1..L)
      BY <1>1, TakenCount
    <3>. QED  BY <2>0, <3>2, <3>3, FS_Interval
  <2>2. ASSUME NEW kept \in SUBSET Rows(o)
        PROVE  Verify(kept).result = "valid" <=> kept \in {{audit[o][i] : i \in 1..n} : n \in 0..L}
    <3>. DEFINE K == {i \in 1..L : audit[o][i] \in kept}
    <3>1. kept = Taken(o, K) /\ K \in SUBSET (1..L)
      BY <2>0 DEF Taken
    <3>2. Verify(kept).result = "valid" <=> \E n \in 0..L : K = 1..n
      BY <1>1, <3>1, ValidIsBeginning
    <3>3. ASSUME NEW n \in 0..L, K = 1..n PROVE kept \in {{audit[o][i] : i \in 1..m} : m \in 0..L}
      BY <3>1, <3>3 DEF Taken
    <3>4. ASSUME NEW n \in 0..L, kept = {audit[o][i] : i \in 1..n} PROVE K = 1..n
      <4>1. \A i \in 1..L : audit[o][i].seq = i
        BY <1>1, RowFacts
      <4>2. 1..n \in SUBSET (1..L)
        BY <2>0
      <4>. QED  BY <3>4, <4>1, <4>2
    <3>. QED  BY <3>2, <3>3, <3>4
  <2>3. ASSUME NEW r \in Rows(o), NEW a \in Altered(r) \ {r}
        PROVE  /\ r # audit[o][L] => Verify((Rows(o) \ {r}) \cup {a}).result = "broken"
               /\ Verify((Rows(o) \ {r}) \cup {a}).result = "valid" =>
                    a = Seal(a.payload, r.seq, r.previous)
    <3>1. PICK k \in 1..L : r = audit[o][k]
      BY <2>0 DEF Taken
    <3>2. Verify((Rows(o) \ {r}) \cup {a}).result \in {"valid", "broken"}
      BY ValidIsFaultless
    <3>3. Verify((Rows(o) \ {r}) \cup {a}).result = "valid" =>
            /\ a = Seal(a.payload, r.seq, r.previous)
            /\ k # L => a = r
      BY <1>1, <3>1, AlteredIsSeen
    <3>. QED  BY <3>1, <3>2, <3>3
  <2>4. ASSUME NEW a \in PutIn(o), Verify(Rows(o) \cup {a}).result = "valid"
        PROVE  a = Seal(a.payload, Len(audit[o]) + 1, EndHash(o))
    BY <1>1, <2>4, PutInIsSeen
  <2>. QED  BY <2>1, <2>2, <2>3, <2>4
<1>. QED  BY <1>1, IInvHolds, PTL

-----------------------------------------------------------------------------
(* What a verification vouches for when the rows are not to be trusted at    *)
(* all: anyone may have rewritten, removed or added any number of them.      *)

\* What the table of events can hold for one organization: uq_audit_chain_sequence refuses
\* a second row for a position, whoever inserts it.
Table == {rows \in SUBSET ChainRow : /\ IsFiniteSet(rows)
                                     /\ \A p, q \in rows : p.seq = q.seq => p = q}

\* A row that bears the hash the store once sealed at k is that row, and what is before it
\* is what the store has written before it.
Vouches(o, k, rows, r) ==
  r.hash = audit[o][k].hash => /\ r = audit[o][k]
                               /\ Before(rows, r) = {audit[o][i] : i \in 1..(k - 1)}

\* Whatever was done to the rows of a chain, if verification accepts them and one hash that
\* was noted down elsewhere is among them, then every row up to it is as the store wrote it:
\* its position, its payload and its hashes.  The columns beside them, which repeat the
\* payload for queries, are read by no verification (verify_organization_chain).
OneHashVouches ==
  \A o \in Org : \A k \in DOMAIN audit[o] : \A rows \in Table :
    Verify(rows).result = "valid" => \A r \in rows : Vouches(o, k, rows, r)

\* A set of natural numbers has a least element.
LEMMA Least ==
  ASSUME NEW S, S \subseteq Nat, S # {}
  PROVE  \E n \in S : \A m \in S : n <= m
<1>1. PICK n \in S : \A m \in S : ~(<<m, n>> \in OpToRel(<, Nat))
  BY NatLessThanWellFounded, WFMin
<1>2. ASSUME NEW m \in S PROVE n <= m
  <2>1. m \in Nat /\ n \in Nat
    OBVIOUS
  <2>2. <<m, n>> \notin {ss \in Nat \X Nat : ss[1] < ss[2]}
    BY <1>1 DEF OpToRel
  <2>. QED  BY <2>1, <2>2
<1>. QED  BY <1>2

\* A perfect hash gives away what went into it.
LEMMA HashIsPerfect ==
  ASSUME NEW s \in Seq(Payload), NEW t \in Seq(Payload), NEW a \in Payload, NEW b \in Payload
  PROVE  /\ Hash(a, s) # NoHash
         /\ Hash(a, s) = Hash(b, t) => a = b /\ s = t
BY AppendProperties, AppendInjective DEF Hash, NoHash

\* Where there are rows before a row, one of them is the last of them.
LEMMA PredecessorIsLast ==
  ASSUME NEW rows \in Table, NEW r \in rows, Before(rows, r) # {}
  PROVE  /\ Predecessor(rows, r) \in Before(rows, r)
         /\ \A p \in Before(rows, r) : p.seq <= Predecessor(rows, r).seq
<1>. DEFINE S == {r.seq - q.seq : q \in Before(rows, r)}
<1>1. \A q \in rows : q.seq \in Nat
  BY DEF Table, ChainRow
<1>2. \A q \in Before(rows, r) : q \in rows /\ q.seq < r.seq
  BY DEF Before
<1>3. S \subseteq Nat /\ S # {}
  BY <1>1, <1>2
<1>4. PICK n \in S : \A m \in S : n <= m
  BY <1>3, Least
<1>5. PICK q \in Before(rows, r) : n = r.seq - q.seq
  BY <1>4
<1>6. \A p \in Before(rows, r) : p.seq <= q.seq
  <2>. SUFFICES ASSUME NEW p \in Before(rows, r) PROVE p.seq <= q.seq
    OBVIOUS
  <2>1. r.seq - q.seq <= r.seq - p.seq
    BY <1>4, <1>5
  <2>. QED  BY <1>1, <1>2, <2>1
<1>. QED  BY <1>5, <1>6 DEF Predecessor

\* What a row that passes and bears the hash of k says, given that k - 1 is vouched for.
LEMMA VouchedFrom ==
  ASSUME IInv, NEW o \in Org, NEW k \in 1..Len(audit[o]), NEW rows \in Table, NEW r \in rows,
         \A q \in rows : FaultOf(rows, q) = "none",
         k # 1 => \A q \in rows : Vouches(o, k - 1, rows, q),
         r.hash = audit[o][k].hash
  PROVE  r = audit[o][k] /\ Before(rows, r) = Taken(o, 1..(k - 1))
<1>. DEFINE a == audit[o][k]
<1>1. /\ Len(audit[o]) \in Nat /\ a \in ChainRow /\ a.seq = k
      /\ a.previous = (IF k = 1 THEN NoHash ELSE audit[o][k - 1].hash)
      /\ a.hash = Hash(a.payload, a.previous)
  BY RowFacts
<1>2. \A q \in rows : q \in ChainRow
  BY DEF Table
<1>3. \A q \in rows : /\ q.seq = Cardinality(Before(rows, q)) + 1
                      /\ q.previous = ExpectedPrevious(rows, q)
                      /\ q.hash = Hash(q.payload, q.previous)
  BY DEF FaultOf
<1>. HIDE DEF a
<1>4. /\ a.previous \in Seq(Payload) /\ a.payload \in Payload
      /\ \A q \in rows : q.previous \in Seq(Payload) /\ q.payload \in Payload
  BY <1>1, <1>2 DEF ChainRow
<1>5. r.payload = a.payload /\ r.previous = a.previous
  <2>1. Hash(r.payload, r.previous) = Hash(a.payload, a.previous)
    BY <1>1, <1>3 DEF a
  <2>. QED  BY <1>4, <2>1, HashIsPerfect
<1>6. \A q \in rows : q.hash # NoHash
  BY <1>3, <1>4, HashIsPerfect
<1>7. Before(rows, r) = Taken(o, 1..(k - 1))
  <2>1. CASE k = 1
    <3>1. r.previous = NoHash
      BY <1>1, <1>5, <2>1
    <3>2. ASSUME Before(rows, r) # {} PROVE FALSE
      <4>1. Predecessor(rows, r) \in rows
        BY <3>2, PredecessorIsLast DEF Before
      <4>2. r.previous = Predecessor(rows, r).hash
        BY <1>3, <3>2 DEF ExpectedPrevious
      <4>. QED  BY <1>6, <3>1, <4>1, <4>2
    <3>3. Taken(o, 1..(k - 1)) = {}
      BY <2>1 DEF Taken
    <3>. QED  BY <3>2, <3>3
  <2>2. CASE k # 1
    <3>. DEFINE b == audit[o][k - 1]
                p == Predecessor(rows, r)
    <3>1. /\ k - 1 \in 1..Len(audit[o]) /\ b \in ChainRow /\ b.seq = k - 1
          /\ b.hash = Hash(b.payload, b.previous)
      <4>1. k - 1 \in 1..Len(audit[o])
        BY <1>1, <2>2
      <4>. QED  BY <4>1, RowFacts
    <3>2. r.previous = b.hash
      BY <1>1, <1>5, <2>2
    <3>3. b.hash # NoHash
      BY <3>1, HashIsPerfect DEF ChainRow
    <3>4. Before(rows, r) # {} /\ r.previous = p.hash
      BY <1>3, <3>2, <3>3 DEF ExpectedPrevious
    <3>5. p \in Before(rows, r) /\ \A q \in Before(rows, r) : q.seq <= p.seq
      BY <3>4, PredecessorIsLast
    <3>6. p \in rows /\ p.seq < r.seq
      BY <3>5 DEF Before
    <3>7. p = b /\ Before(rows, p) = Taken(o, 1..(k - 2))
      <4>1. Vouches(o, k - 1, rows, p)
        BY <2>2, <3>6
      <4>2. (k - 1) - 1 = k - 2
        OBVIOUS
      <4>. QED  BY <3>2, <3>4, <4>1, <4>2 DEF Vouches, Taken
    <3>8. Before(rows, r) = Before(rows, p) \cup {p}
      <4>. HIDE DEF p
      <4>0. \A q \in rows : q.seq \in Int
        BY <1>2 DEF ChainRow
      <4>1. ASSUME NEW q \in Before(rows, r), q # p PROVE q \in Before(rows, p)
        <5>1. q \in rows /\ q.seq # p.seq
          BY <3>6, <4>1 DEF Table, Before
        <5>. QED  BY <3>5, <3>6, <4>0, <5>1 DEF Before
      <4>2. ASSUME NEW q \in Before(rows, p) PROVE q \in Before(rows, r)
        BY <3>6, <4>0 DEF Before
      <4>. QED  BY <3>5, <4>1, <4>2
    <3>9. Taken(o, 1..(k - 1)) = Taken(o, 1..(k - 2)) \cup {b}
      <4>1. 1..(k - 1) = (1..(k - 2)) \cup {k - 1}
        BY <1>1, <2>2
      <4>. QED  BY <4>1 DEF Taken
    <3>. QED  BY <3>7, <3>8, <3>9
  <2>. QED  BY <2>1, <2>2
<1>8. r.seq = k
  <2>1. 1..(k - 1) \in SUBSET (1..Len(audit[o])) /\ k \in Int /\ k >= 1
    BY <1>1
  <2>2. Cardinality(Taken(o, 1..(k - 1))) = Cardinality(1..(k - 1))
    BY <2>1, TakenCount
  <2>3. Cardinality(1..(k - 1)) = k - 1
    BY <2>1, FS_Interval
  <2>. QED  BY <1>3, <1>7, <2>1, <2>2, <2>3
<1>9. r = a
  <2>1. r \in ChainRow /\ r.hash = a.hash
    BY <1>2 DEF a
  <2>. QED  BY <1>1, <1>5, <1>8, <2>1 DEF ChainRow
<1>. QED  BY <1>7, <1>9 DEF a

\* One hash that was noted down vouches for everything that was written before it: a valid
\* answer of verify_organization_chain over rows among which it is found means that nothing
\* up to it was changed, removed or put in, in however many rows it was tried.
THEOREM OneHashVouchesForAll == Spec => []OneHashVouches
<1>1. ASSUME IInv, NEW o \in Org, NEW rows \in Table, Verify(rows).result = "valid"
      PROVE  \A k \in 1..Len(audit[o]) : \A r \in rows : Vouches(o, k, rows, r)
  <2>. DEFINE L == Len(audit[o])
              Bad == {k \in 1..L : \E r \in rows : ~Vouches(o, k, rows, r)}
  <2>0. L \in Nat
    BY <1>1, RowFacts
  <2>. SUFFICES ASSUME Bad # {} PROVE FALSE
    OBVIOUS
  <2>1. PICK k \in Bad : \A m \in Bad : k <= m
    <3>1. Bad \subseteq Nat
      BY <2>0
    <3>. QED  BY <3>1, Least
  <2>2. k \in 1..L /\ \E r \in rows : ~Vouches(o, k, rows, r)
    OBVIOUS
  <2>3. PICK r \in rows : ~Vouches(o, k, rows, r)
    BY <2>2
  <2>4. k # 1 => \A q \in rows : Vouches(o, k - 1, rows, q)
    <3>1. k # 1 => k - 1 \in 1..L /\ k - 1 \notin Bad
      BY <2>0, <2>1, <2>2
    <3>. QED  BY <3>1
  <2>5. \A q \in rows : FaultOf(rows, q) = "none"
    BY <1>1, ValidIsFaultless
  <2>6. r.hash = audit[o][k].hash
    BY <2>3 DEF Vouches
  <2>7. r = audit[o][k] /\ Before(rows, r) = Taken(o, 1..(k - 1))
    BY <1>1, <2>2, <2>4, <2>5, <2>6, VouchedFrom
  <2>. QED  BY <2>3, <2>7 DEF Vouches, Taken
<1>2. ASSUME IInv PROVE OneHashVouches
  <2>1. \A o \in Org : DOMAIN audit[o] = 1..Len(audit[o])
    BY <1>2, RowFacts
  <2>. QED  BY <1>1, <1>2, <2>1 DEF OneHashVouches
<1>. QED  BY <1>2, IInvHolds, PTL
=============================================================================
