----------------------------- MODULE Bootstrap -----------------------------
(***************************************************************************)
(* The start of a backend replica, apps/backend/src/main.rs: bootstrap the *)
(* scope (db.rs), bootstrap the administrator (auth.rs), then serve.       *)
(* Replicas with one configuration start side by side, die and start again.*)
(*                                                                         *)
(* Each bootstrap is one READ COMMITTED transaction of upserts.  An upsert *)
(* (INSERT ... ON CONFLICT DO UPDATE) locks its row, or the key of a row   *)
(* that does not exist yet, until the transaction ends, and waits while    *)
(* another transaction has it.  A transaction's rows appear when it        *)
(* commits.  The binding has no unique key: it is inserted where a query   *)
(* finds none.                                                             *)
(***************************************************************************)
EXTENDS Integers

CONSTANTS Replica,     \* backend processes
          Configured,  \* those that are told to bootstrap
          MaxStarts,   \* bound on the starts of all replicas together
          Nobody       \* no replica

\* What is assumed of the constants.
BootstrapAssumption ==
  /\ Configured \subseteq Replica
  /\ MaxStarts \in Nat
  /\ Nobody \notin Replica

VARIABLES rows,      \* committed rows of the scope and the administrator's role
          admin,     \* users.status of the administrator, or none
          password,  \* the replica whose password the administrator has
          granted,   \* the role has all permissions
          bindings,  \* org-wide bindings of the administrator to the role
          locks,     \* row and key locks
          replicas,  \* what each replica is doing, and whether it found a binding
          starts     \* starts so far

vars == <<rows, admin, password, granted, bindings, locks, replicas, starts>>

-----------------------------------------------------------------------------
Row == {"organization", "site", "domain", "user", "role"}

\* organization, site, domain, user, role: about to upsert that row.
Pc == {"down"} \cup Row \cup {"bind", "commit", "serving"}

Down == [pc |-> "down", found |-> FALSE]

\* Mutant: a conflicting row is left alone, so nobody waits for it.
RowFreeAlways(r, row) == TRUE

RowFree(r, row) == locks[row] \in {Nobody, r}

\* Mutant: the lock of the user's row outlives its transaction.
UnlockedScopeOnly(r) ==
  [row \in Row |-> IF locks[row] = r /\ row # "user" THEN Nobody ELSE locks[row]]

Unlocked(r) == [row \in Row |-> IF locks[row] = r THEN Nobody ELSE locks[row]]

Goes(r, pc) == replicas' = [replicas EXCEPT ![r] = [pc |-> pc, found |-> FALSE]]

\* The statement of an upsert.
Upserts(r, row, next) ==
  /\ replicas[r].pc = row
  /\ RowFree(r, row)
  /\ locks' = [locks EXCEPT ![row] = r]
  /\ Goes(r, next)

\* main: a replica that is not told to bootstrap serves at once.
Start(r) ==
  /\ replicas[r].pc = "down"
  /\ starts < MaxStarts
  /\ starts' = starts + 1
  /\ Goes(r, IF r \in Configured THEN "organization" ELSE "serving")
  /\ UNCHANGED <<rows, admin, password, granted, bindings, locks>>

-----------------------------------------------------------------------------
(* bootstrap_scope. *)

UpsertOrganization(r) ==
  /\ Upserts(r, "organization", "site")
  /\ UNCHANGED <<rows, admin, password, granted, bindings, starts>>

UpsertSite(r) ==
  /\ Upserts(r, "site", "domain")
  /\ UNCHANGED <<rows, admin, password, granted, bindings, starts>>

\* The last upsert, and the commit of the three.
UpsertDomain(r) ==
  /\ replicas[r].pc = "domain"
  /\ RowFree(r, "domain")
  /\ rows' = rows \cup {"organization", "site", "domain"}
  /\ locks' = Unlocked(r)
  /\ Goes(r, "user")
  /\ UNCHANGED <<admin, password, granted, bindings, starts>>

-----------------------------------------------------------------------------
(* bootstrap_admin. *)

UpsertUser(r) ==
  /\ "organization" \in rows
  /\ Upserts(r, "user", "role")
  /\ UNCHANGED <<rows, admin, password, granted, bindings, starts>>

UpsertRole(r) ==
  /\ Upserts(r, "role", "bind")
  /\ UNCHANGED <<rows, admin, password, granted, bindings, starts>>

\* The query for a binding, on the rows that are committed by now.
FindBinding(r) ==
  /\ replicas[r].pc = "bind"
  /\ replicas' = [replicas EXCEPT ![r] = [pc |-> "commit", found |-> bindings > 0]]
  /\ UNCHANGED <<rows, admin, password, granted, bindings, locks, starts>>

\* COALESCE(users.password_hash, EXCLUDED.password_hash).
PasswordAfter(r) == IF password = Nobody THEN r ELSE password

\* The upsert leaves the status of a user who exists alone.
StatusAfter == IF admin = "none" THEN "active" ELSE admin

CommitAdmin(r) ==
  /\ replicas[r].pc = "commit"
  /\ rows' = rows \cup {"user", "role"}
  /\ admin' = StatusAfter
  /\ password' = PasswordAfter(r)
  /\ granted' = TRUE
  /\ bindings' = IF replicas[r].found THEN bindings ELSE bindings + 1
  /\ locks' = Unlocked(r)
  /\ Goes(r, "serving")
  /\ UNCHANGED starts

-----------------------------------------------------------------------------
\* A statement fails and main returns the error, or the process dies.
Exit(r) ==
  /\ replicas[r].pc # "down"
  /\ replicas' = [replicas EXCEPT ![r] = Down]
  /\ locks' = Unlocked(r)
  /\ UNCHANGED <<rows, admin, password, granted, bindings, starts>>

\* An administrator of the database; nothing in the repository does it.
Disable ==
  /\ admin = "active"
  /\ admin' = "disabled"
  /\ UNCHANGED <<rows, password, granted, bindings, locks, replicas, starts>>

Unbind ==
  /\ bindings > 0
  /\ bindings' = 0
  /\ UNCHANGED <<rows, admin, password, granted, locks, replicas, starts>>

Init ==
  /\ rows = {}
  /\ admin = "none"
  /\ password = Nobody
  /\ granted = FALSE
  /\ bindings = 0
  /\ locks = [row \in Row |-> Nobody]
  /\ replicas = [r \in Replica |-> Down]
  /\ starts = 0

Step(r) ==
  \/ UpsertOrganization(r) \/ UpsertSite(r) \/ UpsertDomain(r)
  \/ UpsertUser(r) \/ UpsertRole(r) \/ FindBinding(r) \/ CommitAdmin(r)

Next ==
  \/ \E r \in Replica : Start(r) \/ Step(r) \/ Exit(r)
  \/ Disable
  \/ Unbind

Spec == Init /\ [][Next]_vars

-----------------------------------------------------------------------------
(* Properties. *)

\* Every variable has its shape, and a lock belongs to a transaction that has not ended.
TypeOK ==
  /\ rows \subseteq Row
  /\ admin \in {"none", "active", "disabled"}
  /\ password \in Replica \cup {Nobody}
  /\ granted \in BOOLEAN
  /\ bindings \in Nat
  /\ locks \in [Row -> Replica \cup {Nobody}]
  /\ replicas \in [Replica -> [pc : Pc, found : BOOLEAN]]
  /\ starts \in 0..MaxStarts
  /\ \A row \in Row : locks[row] # Nobody => replicas[locks[row]].pc \notin {"down", "serving"}

\* However many replicas start at the same time, the administrator gets one binding,
\* though no unique index says so (bootstrap_admin: the user's row is locked when the
\* query looks for a binding).
OneBinding == bindings <= 1

\* A replica that was told to bootstrap and serves does so on a complete scope, with an
\* administrator who has a password and a role with all permissions (main).
ServesCompleteScope ==
  \A r \in Configured :
    replicas[r].pc = "serving" => rows = Row /\ granted /\ password # Nobody

\* How far the start of a replica has come.
Progress == [down |-> 0, organization |-> 1, site |-> 2, domain |-> 3, user |-> 4, role |-> 5,
             bind |-> 6, commit |-> 7, serving |-> 8]

\* Replicas do not wait for each other in a circle: who waits for a row waits for a replica
\* that has come further, and the one that has come furthest goes on (the order of the
\* upserts in bootstrap_scope and bootstrap_admin).
WaitsGoForward ==
  \A r \in Replica, row \in Row :
    replicas[r].pc = row /\ ~RowFree(r, row) =>
      Progress[replicas[locks[row]].pc] > Progress[row]

\* A restart changes neither the password of an administrator nor a status that somebody
\* has set (bootstrap_admin, on every start).
RestartsKeepTheUser ==
  [][admin # "none" => password' = password /\ (admin' = admin \/ Disable)]_vars
=============================================================================
