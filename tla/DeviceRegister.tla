--------------------------- MODULE DeviceRegister ---------------------------
(***************************************************************************)
(* What the inventory promises: a register of devices that changes by one  *)
(* whole operation on one device at a time, each based on the device as it *)
(* is.  There are no transactions, locks or stale reads here.              *)
(***************************************************************************)
EXTENDS Integers, Lifecycle

CONSTANTS Device, Identifier, Value,
          Null,        \* a field without a value
          Undeclared   \* nobody has declared the field

VARIABLES devices,     \* per device its lifecycle, field and version
          declared,    \* per device the declared value of the field
          owners       \* pairs of a strong identifier and its device

vars == <<devices, declared, owners>>

Absent == [life |-> "none", value |-> Null, version |-> 0]

Claims(d, ids) ==
  /\ \A i \in ids, e \in Device \ {d} : <<i, e>> \notin owners
  /\ owners' = owners \cup (ids \X {d})

Becomes(d, life, value) ==
  devices' = [devices EXCEPT ![d] = [life |-> life, value |-> value, version |-> @.version + 1]]

Declares(d, value) == declared' = [declared EXCEPT ![d] = value]

\* A person enters a device: what is entered is declared.
Enter(d) ==
  /\ devices[d] = Absent
  /\ \E life \in {"pending_review", "managed"}, value \in Value \cup {Null} :
       /\ Becomes(d, life, value)
       /\ Declares(d, IF value = Null THEN Undeclared ELSE value)
  /\ \E ids \in SUBSET Identifier : Claims(d, ids)

\* Discovery meets a device for the first time, or takes it for a new one because it has
\* nothing to know it by.
Discover(d) ==
  /\ devices[d] = Absent
  /\ \E value \in Value \cup {Null} : Becomes(d, "discovered", value)
  /\ \E ids \in SUBSET Identifier : Claims(d, ids)
  /\ UNCHANGED declared

\* Discovery meets it again by an identifier it has, and respects what is declared.
Observe(d) ==
  /\ devices[d] # Absent
  /\ devices[d].life \notin OutOfService
  /\ \E i \in Identifier : <<i, d>> \in owners
  /\ \E value \in Value \cup {devices[d].value} :
       Becomes(d, devices[d].life,
               IF declared[d] = Undeclared THEN value ELSE devices[d].value)
  /\ \E ids \in SUBSET Identifier : Claims(d, ids)
  /\ UNCHANGED declared

\* A person edits a device in service; the field may be cleared, or left alone.
Edit(d) ==
  /\ AllowsNormalMutation(devices[d].life)
  /\ \/ \E value \in Value \cup {Null} :
          Becomes(d, devices[d].life, value) /\ Declares(d, value)
     \/ Becomes(d, devices[d].life, devices[d].value) /\ UNCHANGED declared
  /\ UNCHANGED owners

Move(d) ==
  /\ \E life \in Successors(devices[d].life) : Becomes(d, life, devices[d].value)
  /\ UNCHANGED <<declared, owners>>

Init ==
  /\ devices = [d \in Device |-> Absent]
  /\ declared = [d \in Device |-> Undeclared]
  /\ owners = {}

Next == \E d \in Device : Enter(d) \/ Discover(d) \/ Observe(d) \/ Edit(d) \/ Move(d)

Spec == Init /\ [][Next]_vars
=============================================================================
