----------------------------- MODULE Inventory -----------------------------
(***************************************************************************)
(* crates/inventory-store: the transactions that create, edit, move and    *)
(* reconcile the devices of one site, run side by side.                    *)
(*                                                                         *)
(* A transaction is READ COMMITTED: a statement sees the rows committed    *)
(* when it begins, locks the rows it updates or reads FOR UPDATE until the *)
(* transaction ends, and waits for locks of others.  The unique index on   *)
(* strong identifiers also waits, for transactions that have inserted the  *)
(* same identifier.  Statements between two waits are one action; what a   *)
(* transaction writes stays in its record tx[t] until Write commits it.    *)
(*                                                                         *)
(* One field of the device stands for all of them.  Weak identifiers are   *)
(* never matched and never conflict, so Identifier has only strong ones    *)
(* and a request that names weak ones alone has the empty list.  The       *)
(* values of a request are picked where they are first used.               *)
(***************************************************************************)
EXTENDS Integers, Sequences, FiniteSets, Functions, Lifecycle

CONSTANTS Device,      \* device ids
          Identifier,  \* strong identifiers of the site
          Value,       \* values of the field
          Tx,          \* requests that may be open at a time
          IdLists,     \* the identifier lists of requests, each without repetition
          MaxVersion,  \* bound on the version of a device
          Null,        \* the field has no value
          Undeclared,  \* no declared fact for the field
          NoDevice,    \* no device yet
          NoTx         \* nobody holds the row

ASSUME InventoryAssumption ==
  /\ MaxVersion \in Nat \ {0}
  /\ IdLists \subseteq Seq(Identifier)
  /\ Null \notin Value
  /\ Undeclared \notin Value \cup {Null}
  /\ NoDevice \notin Device
  /\ NoTx \notin Tx
  /\ Device \cap Identifier = {}

VARIABLES devices,    \* committed rows of devices
          declared,   \* committed declared facts
          owners,     \* committed rows of device_identifiers
          entered,    \* states each device entered, from device_lifecycle_events
          trail,      \* the last audit record and outbox event of each device
          lock,       \* row locks on devices and device_identifiers
          tx          \* open transactions

vars == <<devices, declared, owners, entered, trail, lock, tx>>

-----------------------------------------------------------------------------
View == [life    : DeviceLifecycle \cup {"none"},
         value   : Value \cup {Null},
         version : Nat]

Absent == [life |-> "none", value |-> Null, version |-> 0]

Op == {"none", "create", "update", "transition", "observe"}

\* lookup, load, upsert: waiting for, or about to run, the statement on identifier
\* ids[at] or on the device; write: everything that is left needs no row of others.
Pc == {"idle", "lookup", "load", "upsert", "write"}

Transaction == [op       : Op,
                pc       : Pc,
                ids      : Seq(Identifier),
                at       : Nat,
                found    : SUBSET Device,
                device   : Device \cup {NoDevice},
                expected : Nat,
                seen     : View,
                inserted : SUBSET Identifier]

Idle == [op |-> "none", pc |-> "idle", ids |-> <<>>, at |-> 1, found |-> {},
         device |-> NoDevice, expected |-> 0, seen |-> Absent, inserted |-> {}]

InFlight(t) == tx[t].pc # "idle"

Owners(i) == {d \in Device : <<i, d>> \in owners}

\* Uuid::now_v7: an id no device has and no open transaction uses.
Fresh(d) == devices[d] = Absent /\ \A t \in Tx : tx[t].device # d

\* The end of t's transaction gives up its locks.
Unlocked(t) == [r \in Device \cup Identifier |-> IF lock[r] = t THEN NoTx ELSE lock[r]]

-----------------------------------------------------------------------------
(* Waiting. *)

\* Mutant: reads take no lock, and writes do not mind.
LockFreeAlways(r, t) == TRUE

\* FOR UPDATE: the row is nobody's, or t's already.
LockFree(r, t) == lock[r] \in {NoTx, t}

\* Mutant: only the transactions that insert a device are waited for.
OtherInsertersCreateOnly(i, t) ==
  {u \in Tx \ {t} : i \in tx[u].inserted /\ tx[u].op = "create"}

\* The unique index makes t wait for those that have inserted i and are still open.
OtherInserters(i, t) == {u \in Tx \ {t} : i \in tx[u].inserted}

\* The identifiers whose rows t has updated: an insert of the same one waits for t.
Updated(t) ==
  IF tx[t].pc \in {"upsert", "write"}
  THEN {tx[t].ids[k] : k \in 1..(tx[t].at - 1)} \ tx[t].inserted
  ELSE {}

Current(t) == tx[t].ids[tx[t].at]

\* The open transactions that t waits for.
WaitsFor(t) ==
  LET holders(r) == IF LockFree(r, t) THEN {} ELSE {lock[r]}
  IN  CASE tx[t].pc = "lookup" /\ Owners(Current(t)) # {} -> holders(Current(t))
        [] tx[t].pc = "load" -> holders(tx[t].device)
        [] tx[t].pc = "upsert" ->
             IF Owners(Current(t)) = {tx[t].device}
             THEN holders(Current(t))
             ELSE OtherInserters(Current(t), t)
                    \cup {u \in Tx \ {t} : Current(t) \in Updated(u)}
        [] OTHER -> {}

Ready(t, pc) == tx[t].pc = pc /\ WaitsFor(t) = {}

-----------------------------------------------------------------------------
(* Requests. *)

Opens(t, op, pc, d, ids, expected) ==
  /\ ~InFlight(t)
  /\ tx' = [tx EXCEPT ![t] = [op |-> op, pc |-> pc, ids |-> ids, at |-> 1, found |-> {},
                              device |-> d, expected |-> expected, seen |-> Absent,
                              inserted |-> {}]]
  /\ UNCHANGED <<devices, declared, owners, entered, trail, lock>>

\* Whether t may still find that it has to create a device.
MayDiscover(t) ==
  /\ tx[t].pc = "lookup" /\ tx[t].found = {}
  /\ \A k \in tx[t].at..Len(tx[t].ids) : Owners(tx[t].ids[k]) = {}

\* Bound: Device has an id for every discovery under way, and another one.
IdsLeft == Cardinality({d \in Device : Fresh(d)}) > Cardinality({t \in Tx : MayDiscover(t)})

\* create_manual inserts its new device first.
PresentCreate(t, d, ids) ==
  /\ Fresh(d) /\ IdsLeft
  /\ Opens(t, "create", IF ids = <<>> THEN "write" ELSE "upsert", d, ids, 0)

\* update_metadata and transition_lifecycle, with the version the client has seen.  A
\* client that has seen an older one is refused whatever it asks for.
PresentChange(t, op, d) ==
  /\ devices[d].version \in 1..(MaxVersion - 1)
  /\ Opens(t, op, "load", d, <<>>, devices[d].version)

\* reconcile_observation with a strong identifier, which is looked for first.
PresentObservation(t, ids) ==
  /\ ids # <<>>
  /\ \A p \in owners : p[1] \in Range(ids) => devices[p[2]].version < MaxVersion
  /\ IdsLeft \/ \E i \in Range(ids) : Owners(i) # {}
  /\ Opens(t, "observe", "lookup", NoDevice, ids, 0)

\* reconcile_observation with weak identifiers alone, which validate accepts: nothing is
\* looked for, and a device is created each time.
PresentWeakObservation(t, d) ==
  Fresh(d) /\ IdsLeft /\ Opens(t, "observe", "write", d, <<>>, 0)

\* Every error ends the transaction without a trace, and so does the loss of the client
\* or of the connection.
Rollback(t) ==
  /\ InFlight(t)
  /\ tx' = [tx EXCEPT ![t] = Idle]
  /\ lock' = Unlocked(t)
  /\ UNCHANGED <<devices, declared, owners, entered, trail>>

-----------------------------------------------------------------------------
(* Statements. *)

Last(t) == tx[t].at = Len(tx[t].ids)

\* SELECT ... FOR UPDATE of reconcile_observation on the next identifier.  After the last
\* one: two matches are a conflict, one is the device to update, none a new device.
Lookup(t) ==
  /\ Ready(t, "lookup")
  /\ LET i     == Current(t)
         found == tx[t].found \cup Owners(i)
         moved == [tx[t] EXCEPT !.at = @ + 1, !.found = found]
         ready == [tx[t] EXCEPT !.at = 1, !.found = found]
     IN  /\ ~(Last(t) /\ Cardinality(found) > 1)
         /\ lock' = IF Owners(i) = {} THEN lock ELSE [lock EXCEPT ![i] = t]
         /\ \/ /\ ~Last(t)
               /\ tx' = [tx EXCEPT ![t] = moved]
            \/ /\ Last(t)
               /\ \E d \in found : tx' = [tx EXCEPT ![t] = [ready EXCEPT !.pc = "load", !.device = d]]
            \/ /\ Last(t)
               /\ found = {}
               /\ \E d \in Device :
                    /\ Fresh(d)
                    /\ tx' = [tx EXCEPT ![t] = [ready EXCEPT !.pc = "upsert", !.device = d]]
  /\ UNCHANGED <<devices, declared, owners, entered, trail>>

\* Mutant: the version is not compared.
AcceptsAnyVersion(t) ==
  LET current == devices[tx[t].device]
  IN  CASE tx[t].op = "update"     -> AllowsNormalMutation(current.life)
        [] tx[t].op = "transition" -> TRUE
        [] tx[t].op = "observe"    -> current.life \notin OutOfService

\* Mutant: only archived devices are out of reach of discovery.
AcceptsRetired(t) ==
  LET current == devices[tx[t].device]
  IN  CASE tx[t].op = "update"     -> /\ current.version = tx[t].expected
                                      /\ AllowsNormalMutation(current.life)
        [] tx[t].op = "transition" -> current.version = tx[t].expected
        [] tx[t].op = "observe"    -> current.life # "archived"

\* What the three operations ask of the device they have loaded.
Accepts(t) ==
  LET current == devices[tx[t].device]
  IN  CASE tx[t].op = "update"     -> /\ current.version = tx[t].expected
                                      /\ AllowsNormalMutation(current.life)
        [] tx[t].op = "transition" -> current.version = tx[t].expected
        [] tx[t].op = "observe"    -> current.life \notin OutOfService

\* load_device_in_tx with FOR UPDATE.
Load(t) ==
  /\ Ready(t, "load")
  /\ Accepts(t)
  /\ lock' = [lock EXCEPT ![tx[t].device] = t]
  /\ tx' = [tx EXCEPT ![t].seen = devices[tx[t].device],
                      ![t].pc = IF tx[t].op = "observe" THEN "upsert" ELSE "write"]
  /\ UNCHANGED <<devices, declared, owners, entered, trail>>

\* upsert_identifier: updates the row of its own device, or inserts one.  The identifier
\* of another device is an error.
Upsert(t) ==
  /\ Ready(t, "upsert")
  /\ Owners(Current(t)) \subseteq {tx[t].device}
  /\ LET i == Current(t)
     IN  IF Owners(i) = {}
         THEN /\ tx' = [tx EXCEPT ![t].inserted = @ \cup {i}, ![t].at = @ + 1,
                                  ![t].pc = IF Last(t) THEN "write" ELSE @]
              /\ UNCHANGED lock
         ELSE /\ tx' = [tx EXCEPT ![t].at = @ + 1, ![t].pc = IF Last(t) THEN "write" ELSE @]
              /\ lock' = [lock EXCEPT ![i] = t]
  /\ UNCHANGED <<devices, declared, owners, entered, trail>>

-----------------------------------------------------------------------------
(* The end of a transaction. *)

\* Mutant: the audit record and the event are written for changes of the state only.
RecordsOfTransitions(t, before, after) ==
  IF tx[t].op = "update" THEN trail[tx[t].device] ELSE [before |-> before, after |-> after]

\* write_mutation_records.
Records(t, before, after) == [before |-> before, after |-> after]

\* The commit, with the device as it then is and the fact that is declared with it.
Commits(t, after, fact) ==
  LET d == tx[t].device
  IN  /\ devices' = [devices EXCEPT ![d] = after]
      /\ declared' = [declared EXCEPT ![d] = fact]
      /\ owners' = owners \cup (tx[t].inserted \X {d})
      /\ trail' = [trail EXCEPT ![d] = Records(t, tx[t].seen, after)]
      /\ lock' = Unlocked(t)
      /\ tx' = [tx EXCEPT ![t] = Idle]

\* append_lifecycle_event.
Enters(t, life) == entered' = [entered EXCEPT ![tx[t].device] = @ \cup {life}]

New(life, value) == [life |-> life, value |-> value, version |-> 1]

WriteCreate(t) ==
  /\ tx[t].pc = "write" /\ tx[t].op = "create"
  /\ \E life \in {"pending_review", "managed"}, value \in Value \cup {Null} :
       /\ Commits(t, New(life, value), IF value = Null THEN Undeclared ELSE value)
       /\ Enters(t, life)

\* reconcile_observation without a match.
WriteDiscovered(t) ==
  /\ tx[t].pc = "write" /\ tx[t].op = "observe" /\ tx[t].found = {}
  /\ \E value \in Value \cup {Null} : Commits(t, New("discovered", value), Undeclared)
  /\ Enters(t, "discovered")

\* The patch is applied to what was loaded; the version counts on from the row.
WriteUpdate(t) ==
  /\ tx[t].pc = "write" /\ tx[t].op = "update"
  /\ LET row == devices[tx[t].device]
         after(value) == [row EXCEPT !.value = value, !.version = @ + 1]
     IN  \/ \E value \in Value \cup {Null} : Commits(t, after(value), value)
         \/ Commits(t, after(tx[t].seen.value), declared[tx[t].device])
  /\ UNCHANGED entered

WriteTransition(t) ==
  /\ tx[t].pc = "write" /\ tx[t].op = "transition"
  /\ \E life \in Successors(tx[t].seen.life) :
       /\ Commits(t, [devices[tx[t].device] EXCEPT !.life = life, !.version = @ + 1],
                     declared[tx[t].device])
       /\ Enters(t, life)

\* The field after apply_observed_canonical_fields.
Observed(t, value) ==
  IF declared[tx[t].device] = Undeclared THEN value ELSE devices[tx[t].device].value

\* reconcile_observation with one match.
WriteObserved(t) ==
  /\ tx[t].pc = "write" /\ tx[t].op = "observe" /\ tx[t].found # {}
  /\ LET row == devices[tx[t].device]
     IN  \E value \in Value \cup {row.value} :
           Commits(t, [row EXCEPT !.value = Observed(t, value), !.version = @ + 1],
                      declared[tx[t].device])
  /\ UNCHANGED entered

\* Mutant: the identifier of another device is tried again and again.
RefusedUnlessDuplicate(t) ==
  \/ Ready(t, "lookup") /\ Last(t) /\ Cardinality(tx[t].found \cup Owners(Current(t))) > 1
  \/ Ready(t, "load") /\ ~Accepts(t)
  \/ tx[t].pc = "write" /\ tx[t].op = "transition"

\* What the code refuses: two matches, a device it does not accept, the identifier of
\* another device, and a transition that is not one of the lifecycle, leads to where the
\* device is, or lacks the reason it needs.
Refused(t) ==
  \/ Ready(t, "lookup") /\ Last(t) /\ Cardinality(tx[t].found \cup Owners(Current(t))) > 1
  \/ Ready(t, "load") /\ ~Accepts(t)
  \/ Ready(t, "upsert") /\ ~(Owners(Current(t)) \subseteq {tx[t].device})
  \/ tx[t].pc = "write" /\ tx[t].op = "transition"

Refuse(t) == Refused(t) /\ Rollback(t)

-----------------------------------------------------------------------------
\* PostgreSQL finds a circle of waiting transactions and rolls back one of them.
Deadlocked(t) ==
  \E D \in SUBSET Tx : t \in D /\ \A u \in D : WaitsFor(u) # {} /\ WaitsFor(u) \subseteq D

BreakDeadlock(t) == Deadlocked(t) /\ Rollback(t)

Init ==
  /\ devices = [d \in Device |-> Absent]
  /\ declared = [d \in Device |-> Undeclared]
  /\ owners = {}
  /\ entered = [d \in Device |-> {}]
  /\ trail = [d \in Device |-> [before |-> Absent, after |-> Absent]]
  /\ lock = [r \in Device \cup Identifier |-> NoTx]
  /\ tx = [t \in Tx |-> Idle]

Write(t) == \/ WriteCreate(t) \/ WriteDiscovered(t) \/ WriteUpdate(t)
            \/ WriteTransition(t) \/ WriteObserved(t)

Step(t) == Lookup(t) \/ Load(t) \/ Upsert(t) \/ Write(t) \/ Refuse(t)

Next ==
  \E t \in Tx :
    \/ \E d \in Device, ids \in IdLists : PresentCreate(t, d, ids)
    \/ \E d \in Device, op \in {"update", "transition"} : PresentChange(t, op, d)
    \/ \E ids \in IdLists : PresentObservation(t, ids)
    \/ \E d \in Device : PresentWeakObservation(t, d)
    \/ Step(t)
    \/ Rollback(t)
    \/ BreakDeadlock(t)

Spec == Init /\ [][Next]_vars

\* The server polls its open requests, a free row is granted in turn, and deadlock
\* detection comes round.  Nobody has to send a request.
FairSpec ==
  /\ Spec
  /\ \A t \in Tx : SF_vars(Step(t))
  /\ WF_vars(\E t \in Tx : BreakDeadlock(t))

-----------------------------------------------------------------------------
(* Properties. *)

\* Every variable has its shape, what an open transaction inserted is on its list, and the
\* device it has loaded is locked by it.
TypeOK ==
  /\ devices \in [Device -> View]
  /\ declared \in [Device -> Value \cup {Null, Undeclared}]
  /\ owners \subseteq Identifier \X Device
  /\ entered \in [Device -> SUBSET DeviceLifecycle]
  /\ trail \in [Device -> [before : View, after : View]]
  /\ lock \in [Device \cup Identifier -> Tx \cup {NoTx}]
  /\ \A t \in Tx : /\ tx[t].op \in Op /\ tx[t].pc \in Pc
                   /\ tx[t].ids \in IdLists \cup {<<>>}
                   /\ tx[t].at \in 1..(Len(tx[t].ids) + 1)
                   /\ tx[t].found \subseteq Device
                   /\ tx[t].device \in Device \cup {NoDevice}
                   /\ tx[t].seen \in View
                   /\ tx[t].inserted \subseteq Range(tx[t].ids)
                   /\ tx[t].seen # Absent => lock[tx[t].device] = t

\* A strong identifier leads to one device, also among the rows that open transactions
\* are about to commit, however discoveries and manual entries of one thing overlap
\* (reconcile_observation, upsert_identifier, uq_device_strong_identifier_scope).
OneOwner ==
  \A i \in Identifier :
    /\ Cardinality(Owners(i)) <= 1
    /\ Cardinality({t \in Tx : i \in tx[t].inserted}) <= 1
    /\ \A t \in Tx : i \in tx[t].inserted => Owners(i) = {}

\* What a person has declared about a field is what the device shows, whatever discovery
\* reports later or at the same time (test declared_fields_win_over_later_observation).
DeclaredWins ==
  \A d \in Device : declared[d] # Undeclared => devices[d].value = declared[d]

\* A transaction that is about to write has the device in front of it as it still is, and
\* at the version its client has seen: no update is lost (update_metadata,
\* transition_lifecycle, reconcile_observation).
LoadedIsCurrent ==
  \A t \in Tx :
    /\ tx[t].pc \in {"upsert", "write"} => tx[t].seen = devices[tx[t].device]
    /\ tx[t].pc = "write" /\ tx[t].op \in {"update", "transition"} =>
         devices[tx[t].device].version = tx[t].expected

\* Neither the change of a client that has seen the last version nor a declaration is lost.
NoChangeIsLost == LoadedIsCurrent /\ DeclaredWins

\* The audit trail and the events of a device tell its whole story: each change starts
\* from where the one before it ended, and the last one ends where the device is
\* (write_mutation_records in every operation).
TrailIsGapless ==
  [][\A d \in Device :
       /\ trail'[d].after = devices'[d]
       /\ trail'[d] # trail[d] => trail'[d].before = devices[d]]_vars

\* The transactions implement DeviceRegister: each takes effect as one whole operation on
\* the register as it is when it commits, and the register forbids discovery to touch a
\* device that is out of service.
Promise == INSTANCE DeviceRegister

ImplementsDeviceRegister == Promise!Spec

\* Every request comes to an end, in whatever order requests take the identifiers they
\* share (reconcile_observation and upsert_identifier follow the order of the request).
EveryRequestEnds == \A t \in Tx : InFlight(t) ~> ~InFlight(t)

\* What the test discovery_cannot_skip_review_and_become_managed says: a device that was
\* discovered is not managed before it has been in review.
DiscoveredDevicesAreReviewed ==
  \A d \in Device : devices[d].life = "managed" /\ "discovered" \in entered[d] =>
                     "pending_review" \in entered[d]
=============================================================================
