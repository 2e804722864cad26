--------------------------- MODULE InventoryProofs ---------------------------
(***************************************************************************)
(* Theorems about Inventory, for any number of devices, identifiers and    *)
(* open requests: one device per strong identifier, no lost change, a      *)
(* trail without gaps, and the refinement of DeviceRegister.               *)
(***************************************************************************)
EXTENDS Inventory, FiniteSetTheorems, TLAPS

-----------------------------------------------------------------------------
(* The inductive invariant. *)

Locks == [Device \cup Identifier -> Tx \cup {NoTx}]

\* The committed rows.  Whatever has an identifier or a declared fact exists.
RowsInv ==
  /\ devices \in [Device -> View]
  /\ declared \in [Device -> Value \cup {Null, Undeclared}]
  /\ owners \subseteq Identifier \X Device
  /\ entered \in [Device -> SUBSET DeviceLifecycle]
  /\ trail \in [Device -> [before : View, after : View]]
  /\ \A p \in owners : devices[p[2]] # Absent
  /\ \A p, q \in owners : p[1] = q[1] => p[2] = q[2]
  /\ \A d \in Device : devices[d] = Absent => declared[d] = Undeclared
  /\ \A d \in Device : trail[d].after = devices[d]
  /\ DeclaredWins

Writing == {"upsert", "write"}

\* t is about to insert its device.
Creates(t) ==
  \/ tx[t].op = "create"
  \/ tx[t].op = "observe" /\ tx[t].pc \in Writing /\ tx[t].found = {}

Changes == {"update", "transition"}

\* What a request has collected by the statement it is at.
ShapeInv(t) ==
  /\ tx[t].ids \in IdLists \cup {<<>>}
  /\ tx[t].at \in 1..(Len(tx[t].ids) + 1)
  /\ tx[t].inserted \subseteq Range(tx[t].ids)
  /\ tx[t].pc \in {"lookup", "upsert"} \/ (tx[t].pc = "load" /\ tx[t].op = "observe") =>
       tx[t].at <= Len(tx[t].ids)
  /\ tx[t].pc = "idle" => tx[t].op = "none" /\ tx[t].device = NoDevice /\ tx[t].inserted = {}
  /\ tx[t].pc = "lookup" =>
       tx[t].op = "observe" /\ tx[t].device = NoDevice /\ tx[t].inserted = {}
  /\ tx[t].pc = "load" =>
       /\ tx[t].op \in Changes \/ (tx[t].op = "observe" /\ tx[t].found # {})
       /\ tx[t].inserted = {} /\ tx[t].device \in Device
  /\ tx[t].pc \in Writing => tx[t].device \in Device
  /\ tx[t].op \in Changes => tx[t].inserted = {} /\ tx[t].pc \in {"load", "write"}
  /\ tx[t].op = "create" => tx[t].pc \in Writing
  /\ tx[t].pc \notin Writing \/ Creates(t) => tx[t].seen = Absent

\* What discovery has in hand when it writes.
ObserveInv(t) ==
  tx[t].op = "observe" =>
    /\ tx[t].pc \in Writing \cup {"load"} /\ tx[t].found # {} => tx[t].device \in tx[t].found
    /\ tx[t].pc \in Writing /\ tx[t].found # {} => tx[t].seen.life \notin OutOfService

\* What a change of a client was accepted for.
ChangeInv(t) ==
  tx[t].pc = "write" =>
    /\ tx[t].op \in Changes => tx[t].seen.version = tx[t].expected
    /\ tx[t].op = "update" => AllowsNormalMutation(tx[t].seen.life)

\* A new device does not exist yet, a loaded one is locked and as it was loaded, and what
\* is inserted has no device yet.
HoldsInv(t) ==
  /\ Creates(t) => devices[tx[t].device] = Absent
  /\ tx[t].device \in Device /\ ~Creates(t) => devices[tx[t].device] # Absent
  /\ tx[t].pc \in Writing /\ ~Creates(t) =>
       lock[tx[t].device] = t /\ tx[t].seen = devices[tx[t].device]
  /\ \A d \in tx[t].found : \E i \in Identifier : <<i, d>> \in owners
  /\ \A i \in tx[t].inserted : Owners(i) = {}

TxInv(t) == ShapeInv(t) /\ ObserveInv(t) /\ ChangeInv(t) /\ HoldsInv(t)

\* Open transactions keep out of each other's way.
Apart(t, u) ==
  /\ tx[t].inserted \cap tx[u].inserted = {}
  /\ Creates(t) => tx[u].device # tx[t].device

IInv == /\ RowsInv
        /\ lock \in Locks
        /\ tx \in [Tx -> Transaction]
        /\ \A t \in Tx : TxInv(t)
        /\ \A t, u \in Tx : t # u => Apart(t, u)

-----------------------------------------------------------------------------
(* Steps that commit nothing. *)

Rows == <<devices, declared, owners, entered, trail>>

\* No step of t takes a lock from another transaction.
LocksStay(t) ==
  /\ lock' \in Locks
  /\ \A r \in Device \cup Identifier : lock[r] \notin {t, NoTx} => lock'[r] = lock[r]

LEMMA TxFacts ==
  ASSUME IInv, NEW t \in Tx
  PROVE  /\ tx \in [Tx -> Transaction] /\ tx[t] \in Transaction
         /\ TxInv(t) /\ NoTx \notin Tx /\ NoDevice \notin Device
         /\ tx[t].ids \in Seq(Identifier) /\ Len(tx[t].ids) \in Nat
         /\ tx[t].at \in Nat /\ tx[t].found \subseteq Device
         /\ tx[t].inserted \subseteq Identifier
         /\ Absent \in View
<1>1. tx[t] \in Transaction
  BY DEF IInv
<1>2. tx[t].ids \in Seq(Identifier)
  BY <1>1 DEF Transaction
<1>. QED  BY <1>1, <1>2, InventoryAssumption DEF IInv, Transaction, InventoryAssumption, Absent, View

LEMMA UntouchedKeepsInv ==
  ASSUME IInv, UNCHANGED Rows, NEW t \in Tx, LocksStay(t),
         NEW u \in Tx \ {t}, tx'[u] = tx[u]
  PROVE  TxInv(u)'
<1>1. TxInv(u) /\ u # NoTx /\ lock \in Locks
  BY TxFacts DEF IInv
<1>2. ShapeInv(u)' /\ ObserveInv(u)' /\ ChangeInv(u)'
  BY <1>1 DEF TxInv, ShapeInv, ObserveInv, ChangeInv, Creates
<1>3. tx[u].pc \in Writing /\ ~Creates(u) => lock'[tx[u].device] = u
  BY <1>1 DEF TxInv, ShapeInv, HoldsInv, LocksStay
<1>4. HoldsInv(u)'
  BY <1>1, <1>3 DEF TxInv, HoldsInv, Creates, Rows, Owners
<1>. QED  BY <1>2, <1>4 DEF TxInv

LEMMA QuietKeepsInv ==
  ASSUME IInv, UNCHANGED Rows, NEW t \in Tx, LocksStay(t),
         NEW x \in Transaction, tx' = [tx EXCEPT ![t] = x], TxInv(t)',
         \A u \in Tx \ {t} : /\ x.inserted \cap tx[u].inserted = {}
                             /\ Creates(t)' \/ Creates(u) => tx[u].device # x.device
  PROVE  IInv'
<1>1. /\ tx' \in [Tx -> Transaction] /\ tx'[t] = x
      /\ \A u \in Tx \ {t} : tx'[u] = tx[u]
  BY DEF IInv
<1>2. \A u \in Tx : TxInv(u)'
  BY <1>1, UntouchedKeepsInv
<1>3. \A u \in Tx \ {t} : Creates(u)' <=> Creates(u)
  BY <1>1 DEF Creates
<1>4. ASSUME NEW u \in Tx, NEW v \in Tx, u # v
      PROVE  Apart(u, v)'
  <2>1. CASE u = t
    BY <1>1, <1>4, <2>1 DEF Apart
  <2>2. CASE v = t
    BY <1>1, <1>3, <1>4, <2>2 DEF Apart
  <2>3. CASE u # t /\ v # t
    BY <1>1, <1>3, <1>4, <2>3 DEF Apart, IInv
  <2>. QED  BY <2>1, <2>2, <2>3
<1>5. RowsInv'
  BY DEF IInv, RowsInv, Rows, DeclaredWins
<1>. QED  BY <1>1, <1>2, <1>4, <1>5 DEF IInv, LocksStay

-----------------------------------------------------------------------------
(* Requests that arrive or are rolled back. *)

\* The end of a transaction takes no lock from another one.
LEMMA UnlockedFacts ==
  ASSUME IInv, NEW t \in Tx, lock' = Unlocked(t)
  PROVE  LocksStay(t)
BY DEF IInv, Locks, Unlocked, LocksStay

\* Nothing is left of a transaction that has ended.
LEMMA IdleFacts ==
  ASSUME IInv, NEW t \in Tx, tx'[t] = Idle
  PROVE  TxInv(t)' /\ ~Creates(t)' /\ Idle \in Transaction
<1>1. ShapeInv(t)' /\ ObserveInv(t)' /\ ChangeInv(t)' /\ ~Creates(t)'
  BY DEF Idle, ShapeInv, ObserveInv, ChangeInv, Creates, Writing, Changes
<1>2. HoldsInv(t)'
  BY <1>1, TxFacts DEF Idle, HoldsInv, Writing
<1>3. Idle \in Transaction
  BY TxFacts DEF Idle, Transaction, Op, Pc
<1>. QED  BY <1>1, <1>2, <1>3 DEF TxInv

LEMMA RollbackKeepsInv ==
  ASSUME IInv, NEW t \in Tx, Rollback(t)
  PROVE  IInv'
<1>1. tx' = [tx EXCEPT ![t] = Idle] /\ UNCHANGED Rows /\ LocksStay(t)
  BY UnlockedFacts DEF Rollback, Rows
<1>2. TxInv(t)' /\ ~Creates(t)' /\ Idle \in Transaction
  BY <1>1, TxFacts, IdleFacts
<1>3. \A u \in Tx \ {t} : Creates(u) => tx[u].device \in Device
  BY DEF IInv, TxInv, ShapeInv, Creates
<1>4. \A u \in Tx \ {t} : /\ Idle.inserted \cap tx[u].inserted = {}
                          /\ Creates(t)' \/ Creates(u) => tx[u].device # Idle.device
  BY <1>2, <1>3, TxFacts DEF Idle
<1>. QED  BY <1>1, <1>2, <1>4, QuietKeepsInv

\* A request opens with nothing in hand.
LEMMA OpensKeepsInv ==
  ASSUME IInv, NEW t \in Tx, NEW op \in Op \ {"none"}, NEW pc \in Pc \ {"idle"},
         NEW d \in Device \cup {NoDevice}, NEW ids \in IdLists \cup {<<>>},
         NEW expected \in Nat, Opens(t, op, pc, d, ids, expected),
         \/ /\ op = "create" /\ Fresh(d) /\ d \in Device
            /\ pc = IF ids = <<>> THEN "write" ELSE "upsert"
         \/ op \in Changes /\ pc = "load" /\ d \in Device /\ devices[d] # Absent
         \/ op = "observe" /\ pc = "lookup" /\ d = NoDevice /\ ids # <<>>
         \/ op = "observe" /\ pc = "write" /\ Fresh(d) /\ d \in Device /\ ids = <<>>
  PROVE  IInv'
<1>. DEFINE x == [op |-> op, pc |-> pc, ids |-> ids, at |-> 1, found |-> {}, device |-> d,
                  expected |-> expected, seen |-> Absent, inserted |-> {}]
<1>1. /\ tx' = [tx EXCEPT ![t] = x] /\ UNCHANGED Rows /\ LocksStay(t)
      /\ ids \in Seq(Identifier)
  <2>1. lock' = lock /\ UNCHANGED Rows /\ tx' = [tx EXCEPT ![t] = x]
    BY DEF Opens, Rows
  <2>2. LocksStay(t)
    BY <2>1 DEF LocksStay, IInv
  <2>3. ids \in Seq(Identifier)
    <3>1. <<>> \in Seq(Identifier) /\ IdLists \subseteq Seq(Identifier)
      BY InventoryAssumption DEF InventoryAssumption
    <3>. QED  BY <3>1
  <2>. QED  BY <2>1, <2>2, <2>3
<1>2. x \in Transaction
  <2>1. Absent \in View
    BY TxFacts
  <2>. QED  BY <1>1, <2>1 DEF Transaction
<1>3. tx'[t] = x
  BY <1>1, TxFacts
<1>. DEFINE creating == op = "create" \/ (op = "observe" /\ pc = "write")
<1>4. Creates(t)' <=> creating
  BY <1>3 DEF Creates, Writing
<1>5. ids # <<>> => 1 <= Len(ids)
  BY <1>1
<1>6. ShapeInv(t)'
  <2>1. 1 \in 1..(Len(ids) + 1)
    BY <1>1
  <2>2. pc \in {"lookup", "upsert"} => ids # <<>>
    OBVIOUS
  <2>3. d \in Device \/ (d = NoDevice /\ pc = "lookup" /\ op = "observe")
    OBVIOUS
  <2>4. /\ op = "create" => pc \in {"upsert", "write"}
        /\ op \in Changes => pc = "load"
        /\ pc = "load" => op \in Changes /\ op # "observe"
        /\ pc = "lookup" => op = "observe" /\ d = NoDevice
    BY DEF Changes
  <2>. QED  BY <1>3, <1>4, <1>5, <2>1, <2>2, <2>3, <2>4 DEF ShapeInv, Writing
<1>7. ObserveInv(t)' /\ ChangeInv(t)'
  BY <1>3 DEF ObserveInv, ChangeInv, Writing, Changes
<1>8. HoldsInv(t)'
  BY <1>1, <1>3, <1>4, TxFacts DEF HoldsInv, Writing, Changes, Fresh, Rows
<1>9. TxInv(t)'
  BY <1>6, <1>7, <1>8 DEF TxInv
<1>10. ASSUME NEW u \in Tx \ {t}
       PROVE  /\ x.inserted \cap tx[u].inserted = {}
              /\ Creates(t)' \/ Creates(u) => tx[u].device # x.device
  <2>1. Creates(u) => tx[u].device \in Device /\ devices[tx[u].device] = Absent
    BY DEF IInv, TxInv, ShapeInv, HoldsInv, Creates
  <2>2. creating => tx[u].device # d
    BY DEF Fresh, Changes
  <2>3. ~creating => d = NoDevice \/ devices[d] # Absent
    OBVIOUS
  <2>. QED  BY <1>4, <2>1, <2>2, <2>3, TxFacts
<1>. HIDE DEF x
<1>. QED  BY <1>1, <1>2, <1>9, <1>10, QuietKeepsInv

LEMMA PresentKeepsInv ==
  ASSUME IInv, NEW t \in Tx,
         \/ \E d \in Device, ids \in IdLists : PresentCreate(t, d, ids)
         \/ \E d \in Device, op \in {"update", "transition"} : PresentChange(t, op, d)
         \/ \E ids \in IdLists : PresentObservation(t, ids)
         \/ \E d \in Device : PresentWeakObservation(t, d)
  PROVE  IInv'
<1>1. ASSUME NEW d \in Device, NEW ids \in IdLists, PresentCreate(t, d, ids)
      PROVE  IInv'
  <2>1. PICK op \in Op \ {"none"} : op = "create"
    BY DEF Op
  <2>2. PICK pc \in Pc \ {"idle"} : pc = IF ids = <<>> THEN "write" ELSE "upsert"
    BY DEF Pc
  <2>3. Opens(t, op, pc, d, ids, 0) /\ Fresh(d)
    BY <1>1, <2>1, <2>2 DEF PresentCreate
  <2>. QED  BY <2>1, <2>2, <2>3, OpensKeepsInv
<1>2. ASSUME NEW d \in Device, NEW op \in {"update", "transition"}, PresentChange(t, op, d)
      PROVE  IInv'
  <2>1. op \in Op \ {"none"} /\ op \in Changes
    BY DEF Op, Changes
  <2>2. PICK pc \in Pc \ {"idle"} : pc = "load"
    BY DEF Pc
  <2>3. Opens(t, op, pc, d, <<>>, devices[d].version) /\ devices[d].version \in 1..(MaxVersion - 1)
    BY <1>2, <2>2 DEF PresentChange
  <2>4. devices[d].version \in Nat /\ devices[d] # Absent
    BY <2>3, InventoryAssumption DEF InventoryAssumption, Absent
  <2>. QED  BY <2>1, <2>2, <2>3, <2>4, OpensKeepsInv
<1>3. ASSUME NEW ids \in IdLists, PresentObservation(t, ids)
      PROVE  IInv'
  <2>1. PICK op \in Op \ {"none"} : op = "observe"
    BY DEF Op
  <2>2. PICK pc \in Pc \ {"idle"} : pc = "lookup"
    BY DEF Pc
  <2>3. Opens(t, op, pc, NoDevice, ids, 0) /\ ids # <<>>
    BY <1>3, <2>1, <2>2 DEF PresentObservation
  <2>. QED  BY <2>1, <2>2, <2>3, OpensKeepsInv
<1>4. ASSUME NEW d \in Device, PresentWeakObservation(t, d)
      PROVE  IInv'
  <2>1. PICK op \in Op \ {"none"} : op = "observe"
    BY DEF Op
  <2>2. PICK pc \in Pc \ {"idle"} : pc = "write"
    BY DEF Pc
  <2>3. Opens(t, op, pc, d, <<>>, 0) /\ Fresh(d)
    BY <1>4, <2>1, <2>2 DEF PresentWeakObservation
  <2>. QED  BY <2>1, <2>2, <2>3, OpensKeepsInv
<1>. QED  BY <1>1, <1>2, <1>3, <1>4

-----------------------------------------------------------------------------
(* Statements. *)

\* A row that is free, or t's already, is t's then.
LEMMA TakesFacts ==
  ASSUME IInv, NEW t \in Tx, NEW r \in Device \cup Identifier, LockFree(r, t),
         lock' = [lock EXCEPT ![r] = t]
  PROVE  LocksStay(t) /\ lock'[r] = t
BY DEF IInv, Locks, LockFree, LocksStay

LEMMA CurrentFacts ==
  ASSUME IInv, NEW t \in Tx, tx[t].pc \in {"lookup", "upsert"}
  PROVE  Current(t) \in Identifier /\ Current(t) \in Range(tx[t].ids)
<1>1. tx[t].ids \in Seq(Identifier) /\ tx[t].at \in 1..Len(tx[t].ids)
  BY TxFacts DEF TxInv, ShapeInv
<1>. QED  BY <1>1 DEF Current, Range

\* A transaction that goes on with the device it has, and inserts what no other one has.
LEMMA ContinuesKeepsInv ==
  ASSUME IInv, UNCHANGED Rows, NEW t \in Tx, LocksStay(t),
         NEW x \in Transaction, tx' = [tx EXCEPT ![t] = x], TxInv(t)',
         x.device = tx[t].device, Creates(t)' => Creates(t),
         \A i \in x.inserted \ tx[t].inserted : \A u \in Tx \ {t} : i \notin tx[u].inserted
  PROVE  IInv'
<1>1. \A u \in Tx \ {t} : /\ x.inserted \cap tx[u].inserted = {}
                          /\ Creates(t)' \/ Creates(u) => tx[u].device # x.device
  BY DEF IInv, Apart
<1>. QED  BY <1>1, QuietKeepsInv

LEMMA LookupKeepsInv ==
  ASSUME IInv, NEW t \in Tx, Lookup(t)
  PROVE  IInv'
<1>. DEFINE found == tx[t].found \cup Owners(Current(t))
            moved == [tx[t] EXCEPT !.at = @ + 1, !.found = found]
            ready == [tx[t] EXCEPT !.at = 1, !.found = found]
<1>1. /\ tx[t].pc = "lookup" /\ UNCHANGED Rows /\ WaitsFor(t) = {}
      /\ lock' = IF Owners(Current(t)) = {} THEN lock ELSE [lock EXCEPT ![Current(t)] = t]
  BY DEF Lookup, Ready, Rows
<1>2. /\ tx[t] \in Transaction /\ TxInv(t) /\ tx[t].ids \in Seq(Identifier)
      /\ tx[t].op = "observe" /\ tx[t].device = NoDevice /\ tx[t].inserted = {}
      /\ tx[t].seen = Absent /\ tx[t].at \in 1..Len(tx[t].ids) /\ ~Creates(t)
  BY <1>1, TxFacts DEF TxInv, ShapeInv, Writing, Creates
<1>3. LocksStay(t)
  <2>1. CASE Owners(Current(t)) = {}
    BY <1>1, <2>1 DEF LocksStay, IInv
  <2>2. CASE Owners(Current(t)) # {}
    <3>1. LockFree(Current(t), t)
      BY <1>1, <2>2 DEF WaitsFor
    <3>. QED  BY <1>1, <2>2, <3>1, CurrentFacts, TakesFacts
  <2>. QED  BY <2>1, <2>2
<1>4. /\ found \subseteq Device
      /\ \A d \in found : \E i \in Identifier : <<i, d>> \in owners
  BY <1>1, <1>2, TxFacts, CurrentFacts DEF TxInv, HoldsInv, Owners
<1>. HIDE DEF found
<1>5. /\ moved \in Transaction /\ moved.pc = "lookup" /\ moved.op = "observe"
      /\ moved.device = NoDevice /\ moved.inserted = {} /\ moved.seen = Absent
      /\ moved.at = tx[t].at + 1 /\ moved.ids = tx[t].ids /\ moved.found = found
  <2>1. tx[t].at + 1 \in Nat
    BY <1>2
  <2>. QED  BY <1>1, <1>2, <1>4, <2>1 DEF Transaction
<1>6. /\ ready \in Transaction /\ ready.op = "observe"
      /\ ready.inserted = {} /\ ready.seen = Absent
      /\ ready.at = 1 /\ ready.ids = tx[t].ids /\ ready.found = found
  BY <1>1, <1>2, <1>4 DEF Transaction
<1>7. \/ ~Last(t) /\ tx' = [tx EXCEPT ![t] = moved]
      \/ \E d \in found : tx' = [tx EXCEPT ![t] = [ready EXCEPT !.pc = "load", !.device = d]]
      \/ /\ found = {}
         /\ \E d \in Device :
              /\ Fresh(d)
              /\ tx' = [tx EXCEPT ![t] = [ready EXCEPT !.pc = "upsert", !.device = d]]
  BY DEF Lookup, found
<1>. HIDE DEF moved, ready
<1>8. CASE ~Last(t) /\ tx' = [tx EXCEPT ![t] = moved]
  <2>1. tx'[t] = moved
    BY <1>8, TxFacts
  <2>2. tx[t].at + 1 \in 1..Len(tx[t].ids) /\ tx[t].ids \in IdLists \cup {<<>>}
    BY <1>2, <1>8 DEF Last, TxInv, ShapeInv
  <2>3. ShapeInv(t)'
    BY <1>2, <1>5, <2>1, <2>2 DEF ShapeInv, Writing, Changes, Creates
  <2>4. ObserveInv(t)' /\ ChangeInv(t)' /\ ~Creates(t)'
    BY <1>5, <2>1 DEF ObserveInv, ChangeInv, Writing, Changes, Creates
  <2>5. HoldsInv(t)'
    BY <1>1, <1>4, <1>5, <2>1, <2>4, TxFacts DEF HoldsInv, Writing, Rows
  <2>6. TxInv(t)'
    BY <2>3, <2>4, <2>5 DEF TxInv
  <2>. QED  BY <1>1, <1>2, <1>3, <1>5, <1>8, <2>4, <2>6, ContinuesKeepsInv
<1>9. ASSUME NEW d \in Device, NEW pc \in {"load", "upsert"},
             tx' = [tx EXCEPT ![t] = [ready EXCEPT !.pc = pc, !.device = d]],
             \/ pc = "load" /\ d \in found
             \/ pc = "upsert" /\ found = {} /\ Fresh(d)
      PROVE  IInv'
  <2>. DEFINE x == [ready EXCEPT !.pc = pc, !.device = d]
  <2>1. /\ x \in Transaction /\ x.pc = pc /\ x.op = "observe" /\ x.device = d
        /\ x.inserted = {} /\ x.seen = Absent /\ x.at = 1 /\ x.ids = tx[t].ids
        /\ x.found = found
    BY <1>6 DEF Transaction, Pc
  <2>2. tx'[t] = x
    BY <1>9, TxFacts
  <2>3. tx' = [tx EXCEPT ![t] = x]
    BY <1>9
  <2>. HIDE DEF x
  <2>4. (pc = "upsert" <=> Creates(t)') /\ (pc = "upsert" <=> found = {})
    BY <1>9, <2>1, <2>2 DEF Creates, Writing
  <2>5. ShapeInv(t)'
    <3>1. 1 \in 1..(Len(tx[t].ids) + 1) /\ 1 <= Len(tx[t].ids) /\ tx[t].ids \in IdLists \cup {<<>>}
      BY <1>2 DEF TxInv, ShapeInv
    <3>2. /\ tx'[t].pc = pc /\ tx'[t].op = "observe" /\ tx'[t].device = d
          /\ tx'[t].inserted = {} /\ tx'[t].seen = Absent /\ tx'[t].at = 1
          /\ tx'[t].ids = tx[t].ids /\ tx'[t].found = found
      BY <2>1, <2>2
    <3>3. CASE pc = "load" /\ found # {}
      BY <3>1, <3>2, <3>3 DEF ShapeInv, Writing, Changes, Creates
    <3>4. CASE pc = "upsert"
      BY <3>1, <3>2, <3>4 DEF ShapeInv, Writing, Changes, Creates
    <3>. QED  BY <2>4, <3>3, <3>4
  <2>6. ObserveInv(t)' /\ ChangeInv(t)'
    <3>1. /\ tx'[t].pc = pc /\ tx'[t].op = "observe" /\ tx'[t].device = d
          /\ tx'[t].at = 1 /\ tx'[t].found = found
      BY <2>1, <2>2
    <3>2. CASE pc = "load" /\ d \in found
      BY <3>1, <3>2 DEF ObserveInv, ChangeInv, Writing, Changes
    <3>3. CASE pc = "upsert" /\ found = {}
      BY <3>1, <3>3 DEF ObserveInv, ChangeInv, Writing, Changes
    <3>. QED  BY <1>9, <3>2, <3>3
  <2>7. pc = "load" => devices[d] # Absent
    BY <1>4, <1>9 DEF IInv, RowsInv
  <2>8. HoldsInv(t)'
    BY <1>1, <1>4, <1>9, <2>1, <2>2, <2>4, <2>7 DEF HoldsInv, Writing, Rows, Fresh
  <2>9. TxInv(t)'
    BY <2>5, <2>6, <2>8 DEF TxInv
  <2>10. \A u \in Tx \ {t} : /\ x.inserted \cap tx[u].inserted = {}
                             /\ Creates(t)' \/ Creates(u) => tx[u].device # x.device
    BY <1>9, <2>1, <2>4, <2>7 DEF Fresh, IInv, TxInv, HoldsInv
  <2>. QED  BY <1>1, <1>3, <2>1, <2>3, <2>9, <2>10, QuietKeepsInv
<1>. QED  BY <1>4, <1>7, <1>8, <1>9

LEMMA LoadKeepsInv ==
  ASSUME IInv, NEW t \in Tx, Load(t)
  PROVE  IInv'
<1>. DEFINE pc == IF tx[t].op = "observe" THEN "upsert" ELSE "write"
            x == [tx[t] EXCEPT !.seen = devices[tx[t].device], !.pc = pc]
<1>1. /\ tx[t].pc = "load" /\ UNCHANGED Rows /\ WaitsFor(t) = {} /\ Accepts(t)
      /\ lock' = [lock EXCEPT ![tx[t].device] = t]
  BY DEF Load, Ready, Rows
<1>2. /\ tx[t] \in Transaction /\ TxInv(t) /\ tx[t].ids \in Seq(Identifier)
      /\ tx[t].op \in Changes \/ (tx[t].op = "observe" /\ tx[t].found # {})
      /\ tx[t].device \in Device /\ tx[t].inserted = {} /\ ~Creates(t)
  BY <1>1, TxFacts DEF TxInv, ShapeInv, Writing, Creates
<1>3. LocksStay(t) /\ lock'[tx[t].device] = t
  <2>1. LockFree(tx[t].device, t)
    BY <1>1 DEF WaitsFor
  <2>. QED  BY <1>1, <1>2, <2>1, TakesFacts
<1>4. tx' = [tx EXCEPT ![t] = x]
  BY TxFacts DEF Load
<1>5. /\ x \in Transaction /\ x.op = tx[t].op /\ x.pc = pc /\ x.ids = tx[t].ids
      /\ x.at = tx[t].at /\ x.found = tx[t].found /\ x.device = tx[t].device
      /\ x.expected = tx[t].expected /\ x.seen = devices[tx[t].device] /\ x.inserted = {}
  BY <1>2 DEF Transaction, Pc, IInv, RowsInv
<1>6. tx'[t] = x
  BY <1>4, TxFacts
<1>. HIDE DEF x
<1>7. ~Creates(t)'
  BY <1>2, <1>5, <1>6 DEF Creates, Changes
<1>8. TxInv(t)'
  <2>1. HoldsInv(t)'
    BY <1>1, <1>2, <1>3, <1>5, <1>6, <1>7 DEF TxInv, HoldsInv, Rows
  <2>2. CASE tx[t].op = "observe" /\ tx[t].found # {}
    <3>1. devices[tx[t].device].life \notin OutOfService
      BY <1>1, <2>2 DEF Accepts
    <3>2. ShapeInv(t)'
      BY <1>1, <1>2, <1>5, <1>6, <1>7, <2>2 DEF TxInv, ShapeInv, Writing, Changes
    <3>3. ObserveInv(t)' /\ ChangeInv(t)'
      BY <1>1, <1>2, <1>5, <1>6, <2>2, <3>1 DEF TxInv, ObserveInv, ChangeInv, Writing
    <3>. QED  BY <2>1, <3>2, <3>3 DEF TxInv
  <2>3. CASE tx[t].op \in Changes
    <3>1. /\ devices[tx[t].device].version = tx[t].expected
          /\ tx[t].op = "update" => AllowsNormalMutation(devices[tx[t].device].life)
      BY <1>1, <2>3 DEF Accepts, Changes
    <3>2. pc = "write" /\ tx[t].op # "observe" /\ tx[t].op # "create"
      BY <2>3 DEF Changes
    <3>3. ShapeInv(t)'
      BY <1>2, <1>5, <1>6, <1>7, <3>2 DEF TxInv, ShapeInv, Writing
    <3>4. ObserveInv(t)' /\ ChangeInv(t)'
      BY <1>5, <1>6, <3>1, <3>2 DEF ObserveInv, ChangeInv
    <3>. QED  BY <2>1, <3>3, <3>4 DEF TxInv
  <2>. QED  BY <1>2, <2>2, <2>3
<1>. HIDE DEF pc
<1>. QED  BY <1>1, <1>3, <1>4, <1>5, <1>7, <1>8, ContinuesKeepsInv

LEMMA UpsertKeepsInv ==
  ASSUME IInv, NEW t \in Tx, Upsert(t)
  PROVE  IInv'
<1>. DEFINE i == Current(t)
            pc == IF Last(t) THEN "write" ELSE "upsert"
            inserted == IF Owners(i) = {} THEN tx[t].inserted \cup {i} ELSE tx[t].inserted
            x == [tx[t] EXCEPT !.inserted = inserted, !.at = @ + 1, !.pc = pc]
<1>1. /\ tx[t].pc = "upsert" /\ UNCHANGED Rows /\ WaitsFor(t) = {}
      /\ Owners(i) \subseteq {tx[t].device}
      /\ lock' = IF Owners(i) = {} THEN lock ELSE [lock EXCEPT ![i] = t]
  BY DEF Upsert, Ready, Rows
<1>2. /\ tx[t] \in Transaction /\ TxInv(t) /\ tx[t].ids \in Seq(Identifier)
      /\ tx[t].at \in 1..Len(tx[t].ids) /\ tx[t].op \notin Changes
      /\ tx[t].device \in Device /\ tx[t].inserted \subseteq Identifier
      /\ i \in Identifier /\ i \in Range(tx[t].ids)
  BY <1>1, TxFacts, CurrentFacts DEF TxInv, ShapeInv, Writing
<1>3. LocksStay(t) /\ (lock[tx[t].device] = t => lock'[tx[t].device] = t)
  <2>1. CASE Owners(i) = {}
    BY <1>1, <2>1 DEF LocksStay, IInv
  <2>2. CASE Owners(i) # {}
    <3>1. Owners(i) = {tx[t].device}
      BY <1>1, <2>2
    <3>2. LockFree(i, t)
      BY <1>1, <3>1 DEF WaitsFor
    <3>3. LocksStay(t)
      BY <1>1, <1>2, <2>2, <3>2, TakesFacts
    <3>4. lock \in Locks /\ lock' = [lock EXCEPT ![i] = t]
      BY <1>1, <2>2 DEF IInv
    <3>5. lock[tx[t].device] = t => lock'[tx[t].device] = t
      BY <1>2, <3>4 DEF Locks
    <3>. QED  BY <3>3, <3>5
  <2>. QED  BY <2>1, <2>2
<1>4. \A u \in Tx \ {t} : Owners(i) = {} => i \notin tx[u].inserted
  <2>. SUFFICES ASSUME Owners(i) = {} PROVE OtherInserters(i, t) = {}
    BY DEF OtherInserters
  <2>1. Owners(i) # {tx[t].device}
    OBVIOUS
  <2>. QED  BY <1>1, <2>1 DEF WaitsFor
<1>5. tx' = [tx EXCEPT ![t] = x]
  BY <1>1, <1>2, TxFacts DEF Upsert, Transaction
<1>. HIDE DEF i
<1>6. /\ x \in Transaction /\ x.op = tx[t].op /\ x.pc = pc /\ x.ids = tx[t].ids
      /\ x.at = tx[t].at + 1 /\ x.found = tx[t].found /\ x.device = tx[t].device
      /\ x.expected = tx[t].expected /\ x.seen = tx[t].seen /\ x.inserted = inserted
  <2>1. tx[t].at + 1 \in Nat /\ pc \in Pc /\ inserted \in SUBSET Identifier
    BY <1>2 DEF Pc
  <2>. HIDE DEF pc, inserted
  <2>. QED  BY <1>2, <2>1 DEF Transaction
<1>7. tx'[t] = x
  BY <1>5, TxFacts
<1>. HIDE DEF x
<1>8. Creates(t)' <=> Creates(t)
  BY <1>1, <1>6, <1>7 DEF Creates, Writing
<1>9. ShapeInv(t)'
  <2>1. tx[t].at + 1 \in 1..(Len(tx[t].ids) + 1)
    BY <1>2
  <2>2. pc = "upsert" => tx[t].at + 1 <= Len(tx[t].ids)
    BY <1>2 DEF Last
  <2>3. inserted \subseteq Range(tx[t].ids) /\ pc \in Writing
    BY <1>2 DEF TxInv, ShapeInv, Writing
  <2>4. pc \notin {"idle", "lookup", "load"}
    OBVIOUS
  <2>. HIDE DEF pc, inserted
  <2>. QED  BY <1>1, <1>2, <1>6, <1>7, <1>8, <2>1, <2>2, <2>3, <2>4 DEF TxInv, ShapeInv, Writing
<1>10. ObserveInv(t)'
  <2>1. tx[t].pc \in Writing
    BY <1>1 DEF Writing
  <2>. HIDE DEF pc, inserted
  <2>. QED  BY <1>2, <1>6, <1>7, <2>1 DEF TxInv, ObserveInv, Writing
<1>11. ChangeInv(t)'
  BY <1>2, <1>6, <1>7 DEF ChangeInv, Changes
<1>12. HoldsInv(t)'
  <2>1. \A j \in inserted : Owners(j) = {}
    BY <1>2 DEF TxInv, HoldsInv
  <2>2. tx[t].pc \in Writing
    BY <1>1 DEF Writing
  <2>. HIDE DEF pc, inserted
  <2>. QED  BY <1>1, <1>2, <1>3, <1>6, <1>7, <1>8, <2>1, <2>2 DEF TxInv, HoldsInv, Rows, Owners
<1>13. TxInv(t)'
  BY <1>9, <1>10, <1>11, <1>12 DEF TxInv
<1>14. \A j \in x.inserted \ tx[t].inserted : \A u \in Tx \ {t} : j \notin tx[u].inserted
  BY <1>4, <1>6
<1>. HIDE DEF pc, inserted
<1>. QED  BY <1>1, <1>3, <1>5, <1>6, <1>8, <1>13, <1>14, ContinuesKeepsInv

-----------------------------------------------------------------------------
(* The end of a transaction. *)

Fact == Value \cup {Null, Undeclared}

\* What t is about to commit is a change of its device as it is.
LEMMA WriterFacts ==
  ASSUME IInv, NEW t \in Tx, tx[t].pc = "write"
  PROVE  /\ tx[t].device \in Device /\ tx[t].seen = devices[tx[t].device]
         /\ devices[tx[t].device] \in View /\ declared[tx[t].device] \in Fact
         /\ tx[t].inserted \subseteq Identifier /\ \A i \in tx[t].inserted : Owners(i) = {}
<1>1. tx[t].device \in Device /\ TxInv(t)
  BY TxFacts DEF TxInv, ShapeInv, Writing
<1>2. tx[t].seen = devices[tx[t].device]
  BY <1>1 DEF TxInv, ShapeInv, HoldsInv, Writing
<1>. QED  BY <1>1, <1>2, TxFacts DEF IInv, RowsInv, Fact, TxInv, HoldsInv

\* The rows after a commit.
LEMMA CommitKeepsRows ==
  ASSUME IInv, NEW t \in Tx, tx[t].pc = "write", NEW after \in View, NEW fact \in Fact,
         after.version # 0, fact # Undeclared => after.value = fact,
         Commits(t, after, fact), entered' \in [Device -> SUBSET DeviceLifecycle]
  PROVE  RowsInv'
<1>. DEFINE d == tx[t].device
<1>1. /\ d \in Device /\ tx[t].seen \in View /\ tx[t].inserted \subseteq Identifier
      /\ \A i \in tx[t].inserted : Owners(i) = {}
  BY WriterFacts
<1>2. /\ devices' = [devices EXCEPT ![d] = after]
      /\ declared' = [declared EXCEPT ![d] = fact]
      /\ owners' = owners \cup (tx[t].inserted \X {d})
      /\ trail' = [trail EXCEPT ![d] = [before |-> tx[t].seen, after |-> after]]
  BY DEF Commits, Records
<1>3. after # Absent
  BY DEF Absent
<1>. HIDE DEF d
<1>4. /\ devices' \in [Device -> View] /\ devices'[d] = after
      /\ \A e \in Device \ {d} : devices'[e] = devices[e]
  BY <1>1, <1>2 DEF IInv, RowsInv
<1>5. /\ declared' \in [Device -> Value \cup {Null, Undeclared}] /\ declared'[d] = fact
      /\ \A e \in Device \ {d} : declared'[e] = declared[e]
  BY <1>1, <1>2 DEF IInv, RowsInv, Fact
<1>6. /\ trail' \in [Device -> [before : View, after : View]] /\ trail'[d].after = after
      /\ \A e \in Device \ {d} : trail'[e] = trail[e]
  BY <1>1, <1>2 DEF IInv, RowsInv
<1>7. owners' \subseteq Identifier \X Device
  BY <1>1, <1>2 DEF IInv, RowsInv
<1>8. \A p \in owners' : devices'[p[2]] # Absent
  <2>. SUFFICES ASSUME NEW p \in owners' PROVE devices'[p[2]] # Absent
    OBVIOUS
  <2>1. CASE p \in owners
    BY <1>3, <1>4, <2>1 DEF IInv, RowsInv
  <2>2. CASE p \in tx[t].inserted \X {d}
    BY <1>3, <1>4, <2>2
  <2>. QED  BY <1>2, <2>1, <2>2
<1>9. \A p, q \in owners' : p[1] = q[1] => p[2] = q[2]
  <2>1. \A p \in owners : p[1] \notin tx[t].inserted
    BY <1>1 DEF IInv, RowsInv, Owners
  <2>2. \A p \in owners' : p \in owners \/ (p[1] \in tx[t].inserted /\ p[2] = d)
    BY <1>2
  <2>. QED  BY <2>1, <2>2 DEF IInv, RowsInv
<1>10. \A e \in Device : devices'[e] = Absent => declared'[e] = Undeclared
  BY <1>3, <1>4, <1>5 DEF IInv, RowsInv
<1>11. \A e \in Device : trail'[e].after = devices'[e]
  BY <1>4, <1>6 DEF IInv, RowsInv
<1>12. DeclaredWins'
  BY <1>4, <1>5 DEF IInv, RowsInv, DeclaredWins
<1>. QED  BY <1>4, <1>5, <1>6, <1>7, <1>8, <1>9, <1>10, <1>11, <1>12 DEF RowsInv

LEMMA CommitKeepsInv ==
  ASSUME IInv, NEW t \in Tx, tx[t].pc = "write", NEW after \in View, NEW fact \in Fact,
         after.version # 0, fact # Undeclared => after.value = fact,
         Commits(t, after, fact), entered' \in [Device -> SUBSET DeviceLifecycle]
  PROVE  IInv'
<1>1. /\ tx' = [tx EXCEPT ![t] = Idle] /\ LocksStay(t)
      /\ devices' = [devices EXCEPT ![tx[t].device] = after]
      /\ owners' = owners \cup (tx[t].inserted \X {tx[t].device})
  BY UnlockedFacts DEF Commits
<1>2. /\ tx'[t] = Idle /\ \A u \in Tx \ {t} : tx'[u] = tx[u]
  BY <1>1, TxFacts
<1>3. TxInv(t)' /\ ~Creates(t)' /\ tx' \in [Tx -> Transaction]
  BY <1>1, <1>2, TxFacts, IdleFacts
<1>4. after # Absent
  BY DEF Absent
<1>5. ASSUME NEW u \in Tx \ {t}
      PROVE  TxInv(u)' /\ (Creates(u)' <=> Creates(u))
  <2>1. /\ TxInv(u) /\ u # NoTx /\ lock \in Locks /\ Apart(t, u) /\ Apart(u, t)
        /\ TxInv(t) /\ tx[t].device \in Device
    BY TxFacts, WriterFacts DEF IInv
  <2>2. ShapeInv(u)' /\ ObserveInv(u)' /\ ChangeInv(u)' /\ (Creates(u)' <=> Creates(u))
    BY <1>2, <2>1 DEF TxInv, ShapeInv, ObserveInv, ChangeInv, Creates
  <2>3. tx[u].pc \in Writing => tx[u].device \in Device /\ tx[u].device # tx[t].device
    <3>1. CASE Creates(t) \/ Creates(u)
      BY <2>1, <3>1 DEF Apart, TxInv, ShapeInv
    <3>2. CASE ~Creates(t) /\ ~Creates(u)
      BY <2>1, <3>2 DEF TxInv, ShapeInv, HoldsInv, Writing
    <3>. QED  BY <3>1, <3>2
  <2>4. Creates(u) => tx[u].pc \in Writing
    BY <2>1 DEF Creates, TxInv, ShapeInv
  <2>5. \A e \in Device \ {tx[t].device} : devices'[e] = devices[e]
    BY <1>1 DEF IInv, RowsInv
  <2>6. devices'[tx[t].device] # Absent
    BY <1>1, <1>4, <2>1 DEF IInv, RowsInv
  <2>7. tx[u].pc \in Writing /\ ~Creates(u) => lock'[tx[u].device] = u
    BY <1>1, <2>1, <2>3 DEF TxInv, HoldsInv, LocksStay
  <2>8. \A i \in tx[u].inserted : Owners(i)' = {}
    BY <1>1, <2>1 DEF Apart, TxInv, HoldsInv, Owners
  <2>9. HoldsInv(u)'
    BY <1>1, <1>2, <2>1, <2>2, <2>3, <2>4, <2>5, <2>6, <2>7, <2>8 DEF TxInv, HoldsInv
  <2>. QED  BY <2>2, <2>9 DEF TxInv
<1>6. ASSUME NEW u \in Tx, NEW v \in Tx, u # v
      PROVE  Apart(u, v)'
  <2>1. CASE u = t
    BY <1>2, <1>3, <2>1 DEF Apart, Idle
  <2>2. CASE v = t
    <3>1. TxInv(u) /\ u # t
      BY <1>6, <2>2 DEF IInv
    <3>2. Creates(u) => tx[u].device \in Device
      BY <3>1 DEF TxInv, ShapeInv, Creates
    <3>. QED  BY <1>2, <1>5, <2>2, <3>1, <3>2, TxFacts DEF Apart, Idle
  <2>3. CASE u # t /\ v # t
    BY <1>2, <1>5, <1>6, <2>3 DEF Apart, IInv
  <2>. QED  BY <2>1, <2>2, <2>3
<1>7. RowsInv'
  BY CommitKeepsRows
<1>. QED  BY <1>1, <1>3, <1>5, <1>6, <1>7 DEF IInv, LocksStay

\* A view is its three fields.
LEMMA SameView ==
  ASSUME NEW x \in View, NEW y \in View,
         x.life = y.life, x.value = y.value, x.version = y.version
  PROVE  x = y
BY DEF View

\* The device after an edit, and after a move.
Edited(row, value) == [row EXCEPT !.value = value, !.version = @ + 1]
Moved(row, life) == [row EXCEPT !.life = life, !.version = @ + 1]

LEMMA EditFacts ==
  ASSUME NEW row \in View, NEW value \in Value \cup {Null}
  PROVE  /\ Edited(row, value) \in View /\ Edited(row, value).version # 0
         /\ Edited(row, value).life = row.life /\ Edited(row, value).value = value
         /\ Edited(row, value).version = row.version + 1
<1>1. row.version \in Nat /\ row.version + 1 \in Nat /\ row.version + 1 # 0
  BY DEF View
<1>. QED  BY <1>1 DEF View, Edited

LEMMA MoveFacts ==
  ASSUME NEW row \in View, NEW life \in DeviceLifecycle
  PROVE  /\ Moved(row, life) \in View /\ Moved(row, life).version # 0
         /\ Moved(row, life).life = life /\ Moved(row, life).value = row.value
         /\ Moved(row, life).version = row.version + 1
<1>1. row.version \in Nat /\ row.version + 1 \in Nat /\ row.version + 1 # 0
  BY DEF View
<1>. QED  BY <1>1 DEF View, Moved

LEMMA SuccessorsAreStates == \A life : Successors(life) \subseteq DeviceLifecycle
BY DEF Successors, DeviceLifecycle

\* t commits its device as after, with the fact.
CommitsWell(t, after, fact) ==
  /\ Commits(t, after, fact)
  /\ after \in View /\ fact \in Fact /\ after.version # 0
  /\ fact # Undeclared => after.value = fact
  /\ entered' \in [Device -> SUBSET DeviceLifecycle]

LEMMA EntersFacts ==
  ASSUME IInv, NEW t \in Tx, NEW life \in DeviceLifecycle, Enters(t, life)
  PROVE  entered' \in [Device -> SUBSET DeviceLifecycle]
BY DEF IInv, RowsInv, Enters

LEMMA WriteCreateCommits ==
  ASSUME IInv, NEW t \in Tx, WriteCreate(t)
  PROVE  \E after, fact : CommitsWell(t, after, fact)
<1>1. PICK life \in {"pending_review", "managed"}, value \in Value \cup {Null} :
        /\ Commits(t, New(life, value), IF value = Null THEN Undeclared ELSE value)
        /\ Enters(t, life)
  BY DEF WriteCreate
<1>2. life \in DeviceLifecycle
  BY DEF DeviceLifecycle
<1>3. New(life, value) \in View /\ New(life, value).version = 1 /\ New(life, value).value = value
  BY <1>2 DEF View, New
<1>. DEFINE fact == IF value = Null THEN Undeclared ELSE value
<1>4. fact \in Fact /\ (fact # Undeclared => fact = value)
  BY DEF Fact
<1>5. Commits(t, New(life, value), fact) /\ entered' \in [Device -> SUBSET DeviceLifecycle]
  BY <1>1, <1>2, EntersFacts
<1>. HIDE DEF fact
<1>. QED  BY <1>3, <1>4, <1>5 DEF CommitsWell

LEMMA WriteDiscoveredCommits ==
  ASSUME IInv, NEW t \in Tx, WriteDiscovered(t)
  PROVE  \E after, fact : CommitsWell(t, after, fact)
<1>1. PICK value \in Value \cup {Null} : Commits(t, New("discovered", value), Undeclared)
  BY DEF WriteDiscovered
<1>2. "discovered" \in DeviceLifecycle /\ Undeclared \in Fact
  BY DEF DeviceLifecycle, Fact
<1>3. New("discovered", value) \in View /\ New("discovered", value).version = 1
  BY <1>2 DEF View, New
<1>4. entered' \in [Device -> SUBSET DeviceLifecycle]
  BY <1>2, EntersFacts DEF WriteDiscovered
<1>. QED  BY <1>1, <1>2, <1>3, <1>4 DEF CommitsWell

LEMMA WriteUpdateCommits ==
  ASSUME IInv, NEW t \in Tx, WriteUpdate(t)
  PROVE  \E after, fact : CommitsWell(t, after, fact)
<1>. DEFINE row == devices[tx[t].device]
<1>1. /\ row \in View /\ tx[t].seen = row /\ declared[tx[t].device] \in Fact
      /\ declared[tx[t].device] # Undeclared => row.value = declared[tx[t].device]
  BY WriterFacts DEF WriteUpdate, IInv, RowsInv, DeclaredWins
<1>2. entered' \in [Device -> SUBSET DeviceLifecycle]
  BY DEF WriteUpdate, IInv, RowsInv
<1>3. row.value \in Value \cup {Null}
  BY <1>1 DEF View
<1>4. \/ \E value \in Value \cup {Null} : Commits(t, Edited(row, value), value)
      \/ Commits(t, Edited(row, row.value), declared[tx[t].device])
  BY <1>1 DEF WriteUpdate, Edited
<1>. HIDE DEF row
<1>5. CASE \E value \in Value \cup {Null} : Commits(t, Edited(row, value), value)
  BY <1>1, <1>2, <1>5, EditFacts DEF CommitsWell, Fact
<1>6. CASE Commits(t, Edited(row, row.value), declared[tx[t].device])
  BY <1>1, <1>2, <1>3, <1>6, EditFacts DEF CommitsWell
<1>. QED  BY <1>4, <1>5, <1>6

LEMMA WriteTransitionCommits ==
  ASSUME IInv, NEW t \in Tx, WriteTransition(t)
  PROVE  \E after, fact : CommitsWell(t, after, fact)
<1>. DEFINE row == devices[tx[t].device]
<1>1. PICK life \in Successors(tx[t].seen.life) :
        Commits(t, Moved(row, life), declared[tx[t].device]) /\ Enters(t, life)
  BY DEF WriteTransition, Moved
<1>2. life \in DeviceLifecycle
  BY SuccessorsAreStates
<1>3. /\ row \in View /\ declared[tx[t].device] \in Fact
      /\ declared[tx[t].device] # Undeclared => row.value = declared[tx[t].device]
  BY WriterFacts DEF WriteTransition, IInv, RowsInv, DeclaredWins
<1>4. entered' \in [Device -> SUBSET DeviceLifecycle]
  BY <1>1, <1>2, EntersFacts
<1>. HIDE DEF row
<1>. QED  BY <1>1, <1>2, <1>3, <1>4, MoveFacts DEF CommitsWell

LEMMA WriteObservedCommits ==
  ASSUME IInv, NEW t \in Tx, WriteObserved(t)
  PROVE  \E after, fact : CommitsWell(t, after, fact)
<1>. DEFINE row == devices[tx[t].device]
<1>1. PICK value \in Value \cup {row.value} :
        Commits(t, Edited(row, Observed(t, value)), declared[tx[t].device])
  BY DEF WriteObserved, Edited
<1>2. /\ row \in View /\ declared[tx[t].device] \in Fact
      /\ declared[tx[t].device] # Undeclared => row.value = declared[tx[t].device]
  BY WriterFacts DEF WriteObserved, IInv, RowsInv, DeclaredWins
<1>3. row.value \in Value \cup {Null}
  BY <1>2 DEF View
<1>4. /\ Observed(t, value) \in Value \cup {Null}
      /\ declared[tx[t].device] # Undeclared => Observed(t, value) = declared[tx[t].device]
  BY <1>2, <1>3 DEF Observed
<1>5. entered' \in [Device -> SUBSET DeviceLifecycle]
  BY DEF WriteObserved, IInv, RowsInv
<1>. HIDE DEF row
<1>. QED  BY <1>1, <1>2, <1>4, <1>5, EditFacts DEF CommitsWell

LEMMA WriteCommits ==
  ASSUME IInv, NEW t \in Tx, Write(t)
  PROVE  tx[t].pc = "write" /\ \E after, fact : CommitsWell(t, after, fact)
<1>1. tx[t].pc = "write"
  BY DEF Write, WriteCreate, WriteDiscovered, WriteUpdate, WriteTransition, WriteObserved
<1>. QED  BY <1>1, WriteCreateCommits, WriteDiscoveredCommits, WriteUpdateCommits,
             WriteTransitionCommits, WriteObservedCommits DEF Write

LEMMA WriteKeepsInv ==
  ASSUME IInv, NEW t \in Tx, Write(t)
  PROVE  IInv'
<1>1. PICK after, fact : CommitsWell(t, after, fact)
  BY WriteCommits
<1>2. after \in View /\ fact \in Fact /\ tx[t].pc = "write"
  BY <1>1, WriteCommits DEF CommitsWell
<1>. QED  BY <1>1, <1>2, CommitKeepsInv DEF CommitsWell

-----------------------------------------------------------------------------
(* The invariant. *)

LEMMA InitIsSafe == Init => IInv
<1>. SUFFICES ASSUME Init PROVE IInv
  OBVIOUS
<1>1. Absent \in View /\ NoDevice \notin Device /\ Idle \in Transaction
  <2>1. Absent \in View
    BY DEF Absent, View
  <2>. QED  BY <2>1, InventoryAssumption DEF Idle, Transaction, Op, Pc, InventoryAssumption
<1>2. RowsInv
  BY <1>1 DEF Init, RowsInv, DeclaredWins
<1>3. lock \in Locks /\ tx \in [Tx -> Transaction]
  BY <1>1 DEF Init, Locks
<1>4. ASSUME NEW t \in Tx
      PROVE  TxInv(t)
  <2>1. tx[t] = Idle
    BY DEF Init
  <2>2. ShapeInv(t) /\ ObserveInv(t) /\ ChangeInv(t) /\ ~Creates(t)
    BY <2>1 DEF Idle, ShapeInv, ObserveInv, ChangeInv, Creates, Writing, Changes
  <2>3. HoldsInv(t)
    BY <1>1, <2>1, <2>2 DEF Idle, HoldsInv, Writing
  <2>. QED  BY <2>2, <2>3 DEF TxInv
<1>5. \A t, u \in Tx : Apart(t, u)
  BY DEF Init, Idle, Apart, Creates
<1>. QED  BY <1>2, <1>3, <1>4, <1>5 DEF IInv

LEMMA NextKeepsInv == IInv /\ [Next]_vars => IInv'
<1>. SUFFICES ASSUME IInv, [Next]_vars PROVE IInv'
  OBVIOUS
<1>1. CASE UNCHANGED vars
  <2>1. UNCHANGED Rows /\ lock' = lock /\ tx' = tx
    BY <1>1 DEF vars, Rows
  <2>2. RowsInv' /\ (lock \in Locks)' /\ (tx \in [Tx -> Transaction])'
    BY <2>1 DEF IInv, RowsInv, Rows, DeclaredWins
  <2>3. ASSUME NEW t \in Tx
        PROVE  TxInv(t)'
    <3>1. ShapeInv(t)' /\ ObserveInv(t)' /\ ChangeInv(t)' /\ (Creates(t)' <=> Creates(t))
      BY <2>1 DEF IInv, TxInv, ShapeInv, ObserveInv, ChangeInv, Creates
    <3>2. HoldsInv(t)'
      BY <2>1, <3>1 DEF IInv, TxInv, HoldsInv, Owners, Rows
    <3>. QED  BY <3>1, <3>2 DEF TxInv
  <2>4. \A t, u \in Tx : t # u => Apart(t, u)'
    BY <2>1 DEF IInv, Apart, Creates
  <2>. QED  BY <2>2, <2>3, <2>4 DEF IInv
<1>2. ASSUME NEW t \in Tx, Step(t) \/ Rollback(t) \/ BreakDeadlock(t)
      PROVE  IInv'
  BY <1>2, LookupKeepsInv, LoadKeepsInv, UpsertKeepsInv, WriteKeepsInv, RollbackKeepsInv
     DEF Step, Refuse, BreakDeadlock
<1>. QED  BY <1>1, <1>2, PresentKeepsInv DEF Next

\* In every state the rows agree with each other, and each open transaction holds what it
\* is about to write: a new device does not exist and is nobody else's, a loaded one is
\* locked and as it was loaded, an inserted identifier has no device and no other inserter.
THEOREM Invariance == Spec => []IInv
<1>. QED  BY InitIsSafe, NextKeepsInv, PTL DEF Spec

-----------------------------------------------------------------------------
(* What follows from it. *)

\* Type correctness; what an open transaction has inserted is on the list of its request
\* and the device it has loaded is locked by it (all four operations).
THEOREM TypeIsKept == Spec => []TypeOK
<1>1. IInv => TypeOK
  <2>. SUFFICES ASSUME IInv PROVE TypeOK
    OBVIOUS
  <2>1. ASSUME NEW t \in Tx
        PROVE  /\ tx[t].op \in Op /\ tx[t].pc \in Pc
               /\ tx[t].device \in Device \cup {NoDevice} /\ tx[t].seen \in View
               /\ tx[t].found \subseteq Device
    BY TxFacts DEF Transaction
  <2>2. ASSUME NEW t \in Tx
        PROVE  /\ tx[t].ids \in IdLists \cup {<<>>} /\ tx[t].at \in 1..(Len(tx[t].ids) + 1)
               /\ tx[t].inserted \subseteq Range(tx[t].ids)
    BY TxFacts DEF TxInv, ShapeInv
  <2>3. ASSUME NEW t \in Tx, tx[t].seen # Absent
        PROVE  lock[tx[t].device] = t
    BY <2>3, TxFacts DEF TxInv, ShapeInv, HoldsInv
  <2>. QED  BY <2>1, <2>2, <2>3 DEF IInv, RowsInv, Locks, TypeOK
<1>. QED  BY <1>1, Invariance, PTL

\* Whatever has at most one element is empty or a singleton.
LEMMA AtMostOne ==
  ASSUME NEW S, \A x, y \in S : x = y
  PROVE  Cardinality(S) <= 1
<1>1. CASE S = {}
  BY <1>1, FS_EmptySet
<1>2. CASE S # {}
  <2>1. PICK x \in S : S = {x}
    BY <1>2
  <2>. QED  BY <2>1, FS_Singleton
<1>. QED  BY <1>1, <1>2

\* A strong identifier leads to one device, also among the rows that open transactions are
\* about to commit (reconcile_observation, upsert_identifier, the unique index).
THEOREM OneOwnerOnly == Spec => []OneOwner
<1>1. IInv => OneOwner
  <2>. SUFFICES ASSUME IInv, NEW i \in Identifier
                PROVE  /\ Cardinality(Owners(i)) <= 1
                       /\ Cardinality({t \in Tx : i \in tx[t].inserted}) <= 1
                       /\ \A t \in Tx : i \in tx[t].inserted => Owners(i) = {}
    BY DEF OneOwner
  <2>1. Cardinality(Owners(i)) <= 1
    <3>1. \A d, e \in Owners(i) : d = e
      BY DEF Owners, IInv, RowsInv
    <3>. QED  BY <3>1, AtMostOne
  <2>2. Cardinality({t \in Tx : i \in tx[t].inserted}) <= 1
    <3>. DEFINE S == {t \in Tx : i \in tx[t].inserted}
    <3>1. \A t, u \in S : t = u
      BY DEF IInv, Apart
    <3>. HIDE DEF S
    <3>2. Cardinality(S) <= 1
      BY <3>1, AtMostOne
    <3>. QED  BY <3>2 DEF S
  <2>3. \A t \in Tx : i \in tx[t].inserted => Owners(i) = {}
    BY DEF IInv, TxInv, HoldsInv
  <2>. QED  BY <2>1, <2>2, <2>3
<1>. QED  BY <1>1, Invariance, PTL

\* Neither the change of a client that has seen the last version nor a declaration is lost
\* (update_metadata, transition_lifecycle, apply_observed_canonical_fields).
THEOREM NothingIsLost == Spec => []NoChangeIsLost
<1>1. IInv => NoChangeIsLost
  <2>. SUFFICES ASSUME IInv, NEW t \in Tx
                PROVE  /\ tx[t].pc \in {"upsert", "write"} => tx[t].seen = devices[tx[t].device]
                       /\ tx[t].pc = "write" /\ tx[t].op \in {"update", "transition"} =>
                            devices[tx[t].device].version = tx[t].expected
    BY DEF NoChangeIsLost, LoadedIsCurrent, IInv, RowsInv
  <2>1. tx[t].pc \in {"upsert", "write"} => tx[t].seen = devices[tx[t].device]
    BY DEF IInv, TxInv, ShapeInv, HoldsInv, Writing
  <2>. QED  BY <2>1 DEF IInv, TxInv, ChangeInv, Changes
<1>. QED  BY <1>1, Invariance, PTL

-----------------------------------------------------------------------------
(* Steps. *)

\* Whatever is not the end of a transaction commits nothing.
LEMMA OnlyWritesCommit ==
  ASSUME [Next]_vars, \A t \in Tx : ~Write(t)
  PROVE  UNCHANGED Rows
<1>1. CASE UNCHANGED vars
  BY <1>1 DEF vars, Rows
<1>2. ASSUME NEW t \in Tx, Step(t) \/ Rollback(t) \/ BreakDeadlock(t)
      PROVE  UNCHANGED Rows
  BY <1>2 DEF Step, Lookup, Load, Upsert, Refuse, BreakDeadlock, Rollback, Rows
<1>3. ASSUME NEW t \in Tx,
             \/ \E d \in Device, ids \in IdLists : PresentCreate(t, d, ids)
             \/ \E d \in Device, op \in {"update", "transition"} : PresentChange(t, op, d)
             \/ \E ids \in IdLists : PresentObservation(t, ids)
             \/ \E d \in Device : PresentWeakObservation(t, d)
      PROVE  UNCHANGED Rows
  BY <1>3 DEF PresentCreate, PresentChange, PresentObservation, PresentWeakObservation, Opens,
              Rows
<1>. QED  BY <1>1, <1>2, <1>3 DEF Next

\* The audit trail and the events of a device tell its whole story: each change starts from
\* where the one before it ended (write_mutation_records in every operation).
THEOREM TrailHasNoGap == Spec => TrailIsGapless
<1>1. IInv /\ IInv' /\ [Next]_vars =>
        [\A d \in Device : /\ trail'[d].after = devices'[d]
                           /\ trail'[d] # trail[d] => trail'[d].before = devices[d]]_vars
  <2>. SUFFICES ASSUME IInv, IInv', [Next]_vars, NEW d \in Device
                PROVE  /\ trail'[d].after = devices'[d]
                       /\ trail'[d] # trail[d] => trail'[d].before = devices[d]
    OBVIOUS
  <2>1. trail'[d].after = devices'[d]
    BY DEF IInv, RowsInv
  <2>2. CASE \A t \in Tx : ~Write(t)
    BY <2>1, <2>2, OnlyWritesCommit DEF Rows
  <2>3. ASSUME NEW t \in Tx, Write(t)
        PROVE  trail'[d] # trail[d] => trail'[d].before = devices[d]
    <3>1. PICK after, fact : CommitsWell(t, after, fact)
      BY <2>3, WriteCommits
    <3>2. trail' = [trail EXCEPT ![tx[t].device] =
                      [before |-> devices[tx[t].device], after |-> after]]
      BY <2>3, <3>1, WriteCommits, WriterFacts DEF CommitsWell, Commits, Records
    <3>3. DOMAIN trail = Device
      BY DEF IInv, RowsInv
    <3>4. CASE d = tx[t].device
      BY <3>2, <3>3, <3>4
    <3>5. CASE d # tx[t].device
      BY <3>2, <3>3, <3>5
    <3>. QED  BY <3>4, <3>5
  <2>. QED  BY <2>1, <2>2, <2>3
<1>. QED  BY <1>1, Invariance, PTL DEF Spec, TrailIsGapless

-----------------------------------------------------------------------------
(* The refinement. *)

\* A write of after is a change of the register.
LEMMA Becoming ==
  ASSUME IInv, NEW d \in Device, NEW after \in View,
         after.version = devices[d].version + 1,
         devices' = [devices EXCEPT ![d] = after]
  PROVE  Promise!Becomes(d, after.life, after.value)
<1>. DEFINE x == [life |-> after.life, value |-> after.value, version |-> devices[d].version + 1]
<1>1. after.version \in Nat /\ after.life \in DeviceLifecycle \cup {"none"}
      /\ after.value \in Value \cup {Null}
  BY DEF View
<1>2. x \in View /\ x.life = after.life /\ x.value = after.value /\ x.version = after.version
  <2>1. devices[d].version + 1 \in Nat
    BY <1>1
  <2>. QED  BY <1>1, <2>1 DEF View
<1>. HIDE DEF x
<1>3. x = after
  BY <1>2, SameView
<1>. QED  BY <1>3 DEF x, Promise!Becomes

\* What a transaction has inserted is claimed for its device.
LEMMA Claiming ==
  ASSUME IInv, NEW t \in Tx, tx[t].pc = "write",
         owners' = owners \cup (tx[t].inserted \X {tx[t].device})
  PROVE  \E ids \in SUBSET Identifier : ids = tx[t].inserted /\ Promise!Claims(tx[t].device, ids)
BY WriterFacts DEF Promise!Claims, Owners

\* A change of a client claims nothing.
LEMMA ChangeClaimsNothing ==
  ASSUME IInv, NEW t \in Tx, tx[t].op \in Changes,
         owners' = owners \cup (tx[t].inserted \X {tx[t].device})
  PROVE  owners' = owners
BY DEF IInv, TxInv, ShapeInv

LEMMA SameDefinitions ==
  /\ Promise!Absent = Absent
  /\ \A life : Promise!Successors(life) = Successors(life)
  /\ \A life : Promise!AllowsNormalMutation(life) <=> AllowsNormalMutation(life)
  /\ Promise!OutOfService = OutOfService
BY DEF Promise!Absent, Absent, Promise!Successors, Successors, Promise!AllowsNormalMutation,
       AllowsNormalMutation, Promise!OutOfService, OutOfService

LEMMA NewFacts ==
  ASSUME NEW life \in DeviceLifecycle, NEW value \in Value \cup {Null}
  PROVE  /\ New(life, value) \in View /\ New(life, value).version = Absent.version + 1
         /\ New(life, value).life = life /\ New(life, value).value = value
BY DEF New, View, Absent

LEMMA WriteCreateEnters ==
  ASSUME IInv, NEW t \in Tx, WriteCreate(t)
  PROVE  Promise!Enter(tx[t].device)
<1>. DEFINE d == tx[t].device
<1>1. PICK life \in {"pending_review", "managed"}, value \in Value \cup {Null} :
        Commits(t, New(life, value), IF value = Null THEN Undeclared ELSE value)
  BY DEF WriteCreate
<1>2. d \in Device /\ tx[t].pc = "write" /\ devices[d] = Absent
  BY WriterFacts DEF WriteCreate, IInv, TxInv, HoldsInv, Creates
<1>3. /\ devices' = [devices EXCEPT ![d] = New(life, value)]
      /\ declared' = [declared EXCEPT ![d] = IF value = Null THEN Undeclared ELSE value]
      /\ owners' = owners \cup (tx[t].inserted \X {d})
  <2>1. PICK after, fact : /\ after = New(life, value)
                           /\ fact = IF value = Null THEN Undeclared ELSE value
    OBVIOUS
  <2>2. Commits(t, after, fact)
    BY <1>1, <2>1
  <2>3. /\ devices' = [devices EXCEPT ![d] = after]
        /\ declared' = [declared EXCEPT ![d] = fact]
        /\ owners' = owners \cup (tx[t].inserted \X {d})
    BY <2>2 DEF Commits
  <2>. QED  BY <2>1, <2>3
<1>. HIDE DEF d
<1>4. life \in DeviceLifecycle
  BY DEF DeviceLifecycle
<1>5. Promise!Becomes(d, life, value)
  <2>1. PICK after \in View : after = New(life, value)
    BY <1>4, NewFacts
  <2>2. /\ after.version = devices[d].version + 1 /\ after.life = life /\ after.value = value
        /\ devices' = [devices EXCEPT ![d] = after]
    BY <1>2, <1>3, <1>4, <2>1, NewFacts
  <2>. QED  BY <1>2, <2>2, Becoming
<1>6. Promise!Declares(d, IF value = Null THEN Undeclared ELSE value)
  BY <1>3 DEF Promise!Declares
<1>7. \E ids \in SUBSET Identifier : Promise!Claims(d, ids)
  BY <1>2, <1>3, Claiming DEF d
<1>. QED  BY <1>2, <1>5, <1>6, <1>7, SameDefinitions DEF Promise!Enter, d

LEMMA WriteDiscoveredDiscovers ==
  ASSUME IInv, NEW t \in Tx, WriteDiscovered(t)
  PROVE  Promise!Discover(tx[t].device)
<1>. DEFINE d == tx[t].device
<1>1. PICK value \in Value \cup {Null} : Commits(t, New("discovered", value), Undeclared)
  BY DEF WriteDiscovered
<1>2. d \in Device /\ tx[t].pc = "write" /\ devices[d] = Absent
  BY WriterFacts DEF WriteDiscovered, IInv, TxInv, HoldsInv, ObserveInv, Creates, Writing
<1>3. /\ devices' = [devices EXCEPT ![d] = New("discovered", value)]
      /\ declared' = [declared EXCEPT ![d] = Undeclared]
      /\ owners' = owners \cup (tx[t].inserted \X {d})
  <2>1. PICK after, fact : after = New("discovered", value) /\ fact = Undeclared
    OBVIOUS
  <2>2. Commits(t, after, fact)
    BY <1>1, <2>1
  <2>3. /\ devices' = [devices EXCEPT ![d] = after]
        /\ declared' = [declared EXCEPT ![d] = fact]
        /\ owners' = owners \cup (tx[t].inserted \X {d})
    BY <2>2 DEF Commits
  <2>. QED  BY <2>1, <2>3
<1>. HIDE DEF d
<1>4. PICK life \in DeviceLifecycle : life = "discovered"
  BY DEF DeviceLifecycle
<1>5. Promise!Becomes(d, life, value)
  <2>1. PICK after \in View : after = New(life, value)
    BY NewFacts
  <2>2. /\ after.version = devices[d].version + 1 /\ after.life = life /\ after.value = value
        /\ devices' = [devices EXCEPT ![d] = after]
    BY <1>2, <1>3, <1>4, <2>1, NewFacts
  <2>. QED  BY <1>2, <2>2, Becoming
<1>6. declared' = declared
  <2>1. declared \in [Device -> Fact] /\ declared[d] = Undeclared
    BY <1>2 DEF IInv, RowsInv, Fact
  <2>. QED  BY <1>3, <2>1
<1>7. \E ids \in SUBSET Identifier : Promise!Claims(d, ids)
  BY <1>2, <1>3, Claiming DEF d
<1>. QED  BY <1>2, <1>4, <1>5, <1>6, <1>7, SameDefinitions DEF Promise!Discover, d

LEMMA WriteUpdateEdits ==
  ASSUME IInv, NEW t \in Tx, WriteUpdate(t)
  PROVE  Promise!Edit(tx[t].device)
<1>. DEFINE d == tx[t].device
            row == devices[d]
<1>1. /\ d \in Device /\ row \in View /\ tx[t].seen = row /\ tx[t].pc = "write"
      /\ tx[t].op = "update"
  BY WriterFacts DEF WriteUpdate
<1>2. AllowsNormalMutation(row.life)
  BY <1>1 DEF IInv, TxInv, ChangeInv
<1>3. \/ \E value \in Value \cup {Null} : Commits(t, Edited(row, value), value)
      \/ Commits(t, Edited(row, row.value), declared[d])
  BY <1>1 DEF WriteUpdate, Edited
<1>4. ASSUME NEW value \in Value \cup {Null}, NEW fact, Commits(t, Edited(row, value), fact)
      PROVE  /\ Promise!Becomes(d, row.life, value) /\ owners' = owners
             /\ declared' = [declared EXCEPT ![d] = fact]
  <2>1. PICK after \in View : after = Edited(row, value)
    BY <1>1, EditFacts
  <2>2. after.version = row.version + 1 /\ after.life = row.life /\ after.value = value
    BY <1>1, <2>1, EditFacts
  <2>3. Commits(t, after, fact)
    BY <1>4, <2>1
  <2>4. /\ devices' = [devices EXCEPT ![d] = after]
        /\ declared' = [declared EXCEPT ![d] = fact]
        /\ owners' = owners \cup (tx[t].inserted \X {d})
    BY <2>3 DEF Commits
  <2>5. owners' = owners
    BY <1>1, <2>4, ChangeClaimsNothing DEF Changes
  <2>6. Promise!Becomes(d, after.life, after.value)
    BY <1>1, <2>2, <2>4, Becoming
  <2>. QED  BY <2>2, <2>4, <2>5, <2>6
<1>5. CASE \E value \in Value \cup {Null} : Commits(t, Edited(row, value), value)
  BY <1>2, <1>4, <1>5, SameDefinitions DEF Promise!Edit, Promise!Declares
<1>6. CASE Commits(t, Edited(row, row.value), declared[d])
  <2>1. row.value \in Value \cup {Null} /\ declared[d] \in Fact
    BY <1>1, WriterFacts DEF View
  <2>2. declared' = [declared EXCEPT ![d] = declared[d]]
    BY <1>4, <1>6, <2>1
  <2>3. declared' = declared
    BY <2>2 DEF IInv, RowsInv
  <2>. QED  BY <1>2, <1>4, <1>6, <2>1, <2>3, SameDefinitions DEF Promise!Edit
<1>. QED  BY <1>3, <1>5, <1>6

LEMMA WriteTransitionMoves ==
  ASSUME IInv, NEW t \in Tx, WriteTransition(t)
  PROVE  Promise!Move(tx[t].device)
<1>. DEFINE d == tx[t].device
            row == devices[d]
<1>1. /\ d \in Device /\ row \in View /\ tx[t].seen = row /\ tx[t].pc = "write"
      /\ tx[t].op = "transition" /\ declared[d] \in Fact
  BY WriterFacts DEF WriteTransition
<1>2. PICK life \in Successors(row.life) : Commits(t, Moved(row, life), declared[d])
  BY <1>1 DEF WriteTransition, Moved
<1>3. life \in DeviceLifecycle
  BY SuccessorsAreStates
<1>4. PICK after \in View : after = Moved(row, life)
  BY <1>1, <1>3, MoveFacts
<1>5. after.version = row.version + 1 /\ after.life = life /\ after.value = row.value
  BY <1>1, <1>3, <1>4, MoveFacts
<1>6. /\ devices' = [devices EXCEPT ![d] = after]
      /\ declared' = [declared EXCEPT ![d] = declared[d]]
      /\ owners' = owners \cup (tx[t].inserted \X {d})
  <2>1. PICK fact : fact = declared[d]
    OBVIOUS
  <2>2. Commits(t, after, fact)
    BY <1>2, <1>4, <2>1
  <2>3. /\ devices' = [devices EXCEPT ![d] = after]
        /\ declared' = [declared EXCEPT ![d] = fact]
        /\ owners' = owners \cup (tx[t].inserted \X {d})
    BY <2>2 DEF Commits
  <2>. QED  BY <2>1, <2>3
<1>7. owners' = owners /\ declared' = declared
  BY <1>1, <1>6, ChangeClaimsNothing DEF Changes, IInv, RowsInv
<1>8. Promise!Becomes(d, life, row.value)
  BY <1>1, <1>5, <1>6, Becoming
<1>. QED  BY <1>7, <1>8, SameDefinitions DEF Promise!Move

LEMMA WriteObservedObserves ==
  ASSUME IInv, NEW t \in Tx, WriteObserved(t)
  PROVE  Promise!Observe(tx[t].device)
<1>. DEFINE d == tx[t].device
            row == devices[d]
<1>1. /\ d \in Device /\ row \in View /\ tx[t].seen = row /\ tx[t].pc = "write"
      /\ tx[t].op = "observe" /\ tx[t].found # {} /\ declared[d] \in Fact
  BY WriterFacts DEF WriteObserved
<1>2. /\ row # Absent /\ row.life \notin OutOfService
      /\ \E i \in Identifier : <<i, d>> \in owners
  BY <1>1 DEF IInv, TxInv, ObserveInv, HoldsInv, Creates, Writing
<1>3. PICK value \in Value \cup {row.value} :
        Commits(t, Edited(row, Observed(t, value)), declared[d])
  BY DEF WriteObserved, Edited
<1>4. PICK shown : shown = IF declared[d] = Undeclared THEN value ELSE row.value
  OBVIOUS
<1>5. Observed(t, value) = shown /\ shown \in Value \cup {Null}
  BY <1>1, <1>4 DEF Observed, View
<1>6. PICK after \in View : after = Edited(row, shown)
  BY <1>1, <1>5, EditFacts
<1>7. after.version = row.version + 1 /\ after.life = row.life /\ after.value = shown
  BY <1>1, <1>5, <1>6, EditFacts
<1>8. /\ devices' = [devices EXCEPT ![d] = after]
      /\ declared' = [declared EXCEPT ![d] = declared[d]]
      /\ owners' = owners \cup (tx[t].inserted \X {d})
  BY <1>3, <1>5, <1>6 DEF Commits
<1>9. declared' = declared /\ \E ids \in SUBSET Identifier : Promise!Claims(d, ids)
  BY <1>1, <1>8, Claiming DEF IInv, RowsInv
<1>10. Promise!Becomes(d, row.life, shown)
  BY <1>1, <1>7, <1>8, Becoming
<1>. QED  BY <1>2, <1>4, <1>9, <1>10, SameDefinitions DEF Promise!Observe

\* The transactions implement DeviceRegister: each takes effect as one whole operation on
\* the register as it is when it commits (all four operations of InventoryStore).
THEOREM KeepsTheRegister == Spec => ImplementsDeviceRegister
<1>1. Init => Promise!Init
  BY SameDefinitions DEF Init, Promise!Init
<1>2. IInv /\ [Next]_vars => [Promise!Next]_Promise!vars
  <2>. SUFFICES ASSUME IInv, [Next]_vars PROVE [Promise!Next]_Promise!vars
    OBVIOUS
  <2>1. CASE \A t \in Tx : ~Write(t)
    BY <2>1, OnlyWritesCommit DEF Rows, Promise!vars
  <2>2. ASSUME NEW t \in Tx, Write(t)
        PROVE  Promise!Next
    <3>1. tx[t].device \in Device
      BY <2>2, WriteCommits, WriterFacts
    <3>. QED  BY <2>2, <3>1, WriteCreateEnters, WriteDiscoveredDiscovers, WriteUpdateEdits,
                 WriteTransitionMoves, WriteObservedObserves DEF Write, Promise!Next
  <2>. QED  BY <2>1, <2>2
<1>. QED  BY <1>1, <1>2, Invariance, PTL DEF Spec, ImplementsDeviceRegister, Promise!Spec
=============================================================================
