----------------------------- MODULE DeviceApi -----------------------------
(***************************************************************************)
(* The devices of the HTTP API, apps/backend/src/inventory_api.rs, as one  *)
(* user calls it: authenticate and require_site_permission of              *)
(* authorization.rs, each a SELECT of its own, then the operation of the   *)
(* inventory, in a transaction of its own; or the audit record of a        *)
(* denial.  Meanwhile sessions end, users are disabled, roles are bound    *)
(* and unbound, replicas die and start again.                              *)
(*                                                                         *)
(* It composes Bootstrap, whose administrator is the user, and the device  *)
(* register that Inventory implements.  The user presents an access token  *)
(* of the session that is valid, or one that has expired or is no such     *)
(* token: which it is shows when authenticate reads the clock.             *)
(***************************************************************************)
EXTENDS Integers, Lifecycle

CONSTANTS Replica, Configured, MaxStarts, Nobody,         \* of Bootstrap
          Device, Identifier, Value, Null, Undeclared,    \* of DeviceRegister
          Site, SiteOf,    \* the sites, and the site of each device
          Role, Grants,    \* roles that are bound for a site, and their permissions
          Bindable,        \* the bindings for a site that are made
          Request,         \* what requests ask for, the version left out
          MaxVersion,      \* bound on the version of a device
          Call,            \* requests, each served once
          NoSite, NoDevice

ASSUME DeviceApiAssumption ==
  /\ SiteOf \in [Device -> Site]
  /\ Grants \in [Role -> SUBSET STRING]
  /\ Bindable \subseteq Site \X Role
  /\ Request \subseteq [op : {"view", "create", "update", "move"}, site : Site,
                       device : Device \cup {NoDevice}, target : DeviceLifecycle]
  /\ \A request \in Request : request.op # "create" => request.device \in Device
  /\ NoSite \notin Site /\ NoDevice \notin Device
  /\ MaxVersion \in Nat \ {0}

VARIABLES rows, admin, password, granted, bindings, locks, replicas, starts,
          devices, declared, owners,
          session,         \* none, open or revoked
          sessionExpired,  \* sessions.expires_at has passed
          siteRoles,       \* the user's role bindings for one site
          calls,           \* the requests
          records,         \* audit events written for each request
          moments          \* history: what has been true at some moment of each request

bootVars == <<rows, admin, password, granted, bindings, locks, replicas, starts>>
deviceVars == <<devices, declared, owners>>
userVars == <<session, sessionExpired, siteRoles>>
vars == <<bootVars, deviceVars, userVars, calls, records, moments>>

Boot == INSTANCE Bootstrap
ASSUME BootAssumption == Boot!BootstrapAssumption

Register == INSTANCE DeviceRegister

-----------------------------------------------------------------------------
\* view: list_devices and get_device.  move: transition_lifecycle.
Op == {"view", "create", "update", "move"}

Pc == {"idle", "session", "permission", "denial", "operation", "done"}

\* The status of the response; unknown is a 408, a 503 or no response at all.
Answer == {"none", "ok", "unauthenticated", "forbidden", "missing", "conflict", "unknown"}

\* valid: the access token decodes, and had not expired when authenticate read the clock.
\* expired: expires_at had passed then.  changed: the request has committed a change.
CallState == [op       : Op \cup {"none"},
              site     : Site \cup {NoSite},
              device   : Device \cup {NoDevice},
              expected : 0..MaxVersion,
              target   : DeviceLifecycle,
              by       : Replica \cup {Nobody},
              valid    : BOOLEAN,
              expired  : BOOLEAN,
              pc       : Pc,
              changed  : BOOLEAN,
              answer   : Answer]

Idle == [op |-> "none", site |-> NoSite, device |-> NoDevice, expected |-> 0,
         target |-> "discovered", by |-> Nobody, valid |-> FALSE, expired |-> FALSE,
         pc |-> "idle", changed |-> FALSE, answer |-> "none"]

InFlight(c) == calls[c].pc \notin {"idle", "done"}

Goes(c, pc) == calls' = [calls EXCEPT ![c].pc = pc]

\* Only what the properties ask for is kept of a request that is answered.
Answered(c, answer, d, changed) ==
  LET kept == IF changed \/ answer = "ok"
              THEN [calls[c] EXCEPT !.device = d, !.by = Nobody, !.expired = FALSE]
              ELSE [Idle EXCEPT !.valid = calls[c].valid /\ answer = "unauthenticated"]
  IN  [kept EXCEPT !.pc = "done", !.changed = changed, !.answer = answer]

Answers(c, answer) ==
  calls' = [calls EXCEPT ![c] = Answered(c, answer, calls[c].device, FALSE)]

\* The change of d is committed, and its answer arrives or not.
AnswersChanged(c, d) ==
  \E answer \in {"ok", "unknown"} :
    calls' = [calls EXCEPT ![c] = Answered(c, answer, d, TRUE)]

\* The permission that each handler asks for.
PermissionFor(op, target) ==
  CASE op = "view"   -> "devices.view"
    [] op = "create" -> "devices.create"
    [] op = "move" /\ target = "managed" -> "devices.approve"
    [] op = "move" /\ target \in OutOfService -> "devices.delete"
    [] OTHER -> "devices.update"

Needed(c) == PermissionFor(calls[c].op, calls[c].target)

\* The query of require_site_permission: a role bound for the organization or the site.
Allowed(site, permission) ==
  \/ bindings > 0 /\ granted
  \/ \E b \in siteRoles : b[1] = site /\ permission \in Grants[b[2]]

\* What authenticate asks of the rows of the session and the user.
Accepts(expired) == session = "open" /\ ~expired /\ admin = "active"

-----------------------------------------------------------------------------
(* A request. *)

\* authenticate reads the clock and decodes the token.
Present(c, r, request, expected) ==
  /\ calls[c].pc = "idle"
  /\ replicas[r].pc = "serving"
  /\ session # "none"
  /\ calls' = [calls EXCEPT ![c] =
       [op |-> request.op, site |-> request.site, device |-> request.device,
        expected |-> expected, target |-> request.target, by |-> r, valid |-> TRUE,
        expired |-> sessionExpired, pc |-> "session", changed |-> FALSE, answer |-> "none"]]
  /\ UNCHANGED <<bootVars, deviceVars, userVars, records>>

\* decode_access_token fails; there may be no session at all.
PresentInvalid(c) ==
  /\ calls[c].pc = "idle"
  /\ \E r \in Replica : replicas[r].pc = "serving"
  /\ Answers(c, "unauthenticated")
  /\ UNCHANGED <<bootVars, deviceVars, userVars, records>>

\* The SELECT of authenticate.
Authenticate(c) ==
  /\ calls[c].pc = "session"
  /\ IF Accepts(calls[c].expired) THEN Goes(c, "permission") ELSE Answers(c, "unauthenticated")
  /\ UNCHANGED <<bootVars, deviceVars, userVars, records>>

RequirePermission(c) ==
  /\ calls[c].pc = "permission"
  /\ Goes(c, IF Allowed(calls[c].site, Needed(c)) THEN "operation" ELSE "denial")
  /\ UNCHANGED <<bootVars, deviceVars, userVars, records>>

\* audit_denial: when the record cannot be written the answer is the same.
AuditDenial(c) ==
  /\ calls[c].pc = "denial"
  /\ Answers(c, "forbidden") \/ Answers(c, "unknown")
  /\ \/ records' = [records EXCEPT ![c] = @ \cup {"denied"}]
     \/ UNCHANGED records
  /\ UNCHANGED <<bootVars, deviceVars, userVars>>

\* Mutant: the device is looked up by its id alone.
InScopeAnywhere(c) == devices[calls[c].device] # Register!Absent

\* load_device_in_tx: the device is one of the requested site.
InScope(c) ==
  /\ devices[calls[c].device] # Register!Absent
  /\ SiteOf[calls[c].device] = calls[c].site

\* Mutant: the version of the request is not compared.
AcceptableAnyVersion(c) ==
  calls[c].op = "update" => AllowsNormalMutation(devices[calls[c].device].life)

\* The version is the one the client has seen and the lifecycle admits the operation.
Acceptable(c) ==
  LET device == devices[calls[c].device]
  IN  /\ device.version = calls[c].expected
      /\ CASE calls[c].op = "update" -> AllowsNormalMutation(device.life)
           [] calls[c].op = "move"   -> calls[c].target \in Successors(device.life) \cup {device.life}

ChangesNothing(c) ==
  calls[c].op = "move" /\ calls[c].target = devices[calls[c].device].life

\* Mutant: the records are written after the commit.
RecordedLate(c) == records' \in {records, [records EXCEPT ![c] = @ \cup {"succeeded"}]}

\* write_mutation_records, in the transaction of the change.
Recorded(c) == records' = [records EXCEPT ![c] = @ \cup {"succeeded"}]

\* create_manual gives the device a new id.
Create(c) ==
  /\ calls[c].pc = "operation" /\ calls[c].op = "create"
  /\ \E d \in Device : /\ SiteOf[d] = calls[c].site
                       /\ Register!Enter(d)
                       /\ AnswersChanged(c, d)
  /\ Recorded(c)
  /\ UNCHANGED <<bootVars, userVars>>

\* update_metadata and transition_lifecycle.
Change(c) ==
  /\ calls[c].pc = "operation"
  /\ calls[c].op \in {"update", "move"}
  /\ InScope(c) /\ Acceptable(c) /\ ~ChangesNothing(c)
  /\ LET d == calls[c].device
     IN  /\ devices[d].version < MaxVersion
         /\ CASE calls[c].op = "update" -> Register!Edit(d)
              [] calls[c].op = "move"   -> Register!Move(d) /\ devices'[d].life = calls[c].target
         /\ AnswersChanged(c, d)
  /\ Recorded(c)
  /\ UNCHANGED <<bootVars, userVars>>

\* get_device; list_devices answers with the devices that are in scope.
View(c) ==
  /\ calls[c].pc = "operation" /\ calls[c].op = "view"
  /\ Answers(c, IF InScope(c) THEN "ok" ELSE "missing")
  /\ UNCHANGED <<bootVars, deviceVars, userVars, records>>

\* A transition to where the device is answers with the device.
AnswerUnchanged(c) ==
  /\ calls[c].pc = "operation" /\ calls[c].op = "move"
  /\ InScope(c) /\ Acceptable(c) /\ ChangesNothing(c)
  /\ Answers(c, "ok")
  /\ UNCHANGED <<bootVars, deviceVars, userVars, records>>

\* The other answers of inventory_error_response.  conflict is also the refusal, 409 or
\* 422, of identifiers, reasons and texts, which requests leave out here.
Refuse(c) ==
  /\ calls[c].pc = "operation" /\ calls[c].op # "view"
  /\ \/ calls[c].op # "create" /\ ~InScope(c) /\ Answers(c, "missing")
     \/ Answers(c, "conflict")
  /\ UNCHANGED <<bootVars, deviceVars, userVars, records>>

\* 15 seconds are over, a statement fails or the connection is lost; a transaction that
\* is dropped before its commit leaves nothing.
Abandon(c) ==
  /\ InFlight(c)
  /\ Answers(c, "unknown")
  /\ UNCHANGED <<bootVars, deviceVars, userVars, records>>

-----------------------------------------------------------------------------
(* Around the requests. *)

Login ==
  /\ session = "none"
  /\ admin = "active"
  /\ session' = "open"
  /\ UNCHANGED <<bootVars, deviceVars, sessionExpired, siteRoles, calls, records>>

\* logout, or revoke_family after reuse.
EndSession ==
  /\ session = "open"
  /\ session' = "revoked"
  /\ UNCHANGED <<bootVars, deviceVars, sessionExpired, siteRoles, calls, records>>

\* The 30 days of the session are over.
Expire ==
  /\ session # "none"
  /\ ~sessionExpired
  /\ sessionExpired' = TRUE
  /\ UNCHANGED <<bootVars, deviceVars, session, siteRoles, calls, records>>

\* Nothing in the repository binds users to roles of a site; the database's
\* administrator does.
BindSite ==
  /\ admin # "none"
  /\ \E b \in Bindable : siteRoles' \in {siteRoles \cup {b}, siteRoles \ {b}} \ {siteRoles}
  /\ UNCHANGED <<bootVars, deviceVars, session, sessionExpired, calls, records>>

\* Another user enters a device.
OthersEnter ==
  /\ \E d \in Device : Register!Enter(d)
  /\ UNCHANGED <<bootVars, userVars, calls, records>>

\* A replica or the database's administrator; with the replica its requests die.
BootStep ==
  /\ Boot!Next
  /\ calls' = [c \in Call |->
                 IF InFlight(c) /\ replicas'[calls[c].by].pc = "down"
                 THEN Answered(c, "unknown", calls[c].device, FALSE)
                 ELSE calls[c]]
  /\ UNCHANGED <<deviceVars, userVars, records>>

-----------------------------------------------------------------------------
\* What is true of request c now, whatever the code has looked at: whether its session and
\* user are good, and whether the user has the permission at the requested site.
Truth(c) ==
  {IF calls[c].valid /\ session = "open" /\ ~sessionExpired /\ admin = "active"
   THEN "authentic" ELSE "unauthentic",
   IF \/ bindings > 0 /\ granted
      \/ \E role \in Role : <<calls[c].site, role>> \in siteRoles /\ Needed(c) \in Grants[role]
   THEN "entitled" ELSE "unentitled"}

Init ==
  /\ Boot!Init
  /\ Register!Init
  /\ session = "none"
  /\ sessionExpired = FALSE
  /\ siteRoles = {}
  /\ calls = [c \in Call |-> Idle]
  /\ records = [c \in Call |-> {}]
  /\ moments = [c \in Call |-> {}]

\* A client asks for the change of a version it has seen.
Presents(c) ==
  \/ PresentInvalid(c)
  \/ \E r \in Replica, request \in Request :
       \/ request.op \in {"view", "create"} /\ Present(c, r, request, 0)
       \/ request.op \in {"update", "move"} /\ \E expected \in 1..devices[request.device].version :
                                               Present(c, r, request, expected)

Serves(c) ==
  \/ Authenticate(c) \/ RequirePermission(c) \/ AuditDenial(c)
  \/ View(c) \/ Create(c) \/ Change(c) \/ AnswerUnchanged(c) \/ Refuse(c)

Moves ==
  \/ \E c \in Call : Presents(c) \/ Serves(c) \/ Abandon(c)
  \/ Login \/ EndSession \/ Expire
  \/ BindSite
  \/ OthersEnter
  \/ BootStep

\* Of an answered request the moments count where the properties ask for them.
Next ==
  /\ Moves
  /\ moments' = [c \in Call |->
       IF calls'[c].pc \notin {"idle", "done"} THEN moments[c] \cup Truth(c)'
       ELSE IF \/ calls'[c].changed \/ "denied" \in records'[c]
               \/ calls'[c].answer \in {"ok", "unauthenticated", "forbidden"}
            THEN moments[c] ELSE {}]

Spec == Init /\ [][Next]_vars

-----------------------------------------------------------------------------
(* Properties. *)

\* Every variable has its shape, that of the parts included.
TypeOK ==
  /\ Boot!TypeOK
  /\ session \in {"none", "open", "revoked"}
  /\ sessionExpired \in BOOLEAN
  /\ siteRoles \subseteq Site \X Role
  /\ calls \in [Call -> CallState]
  /\ records \in [Call -> SUBSET {"denied", "succeeded"}]
  /\ \A c \in Call : calls[c].changed => calls[c].pc = "done"

\* The checks and the operation are three transactions, yet what is done or shown was
\* permitted: at some moment of the request its session and user were good, at some moment
\* the user had the permission, for the site the device is in.  A request that begins after
\* the end of the session, the disabling of the user or the loss of the role does nothing,
\* unless the role comes back (authorize and the handlers).
WhatIsDoneWasPermitted ==
  \A c \in Call :
    calls[c].changed \/ calls[c].answer = "ok" =>
      /\ {"authentic", "entitled"} \subseteq moments[c]
      /\ SiteOf[calls[c].device] = calls[c].site

\* The caller can believe the answer, and so can who reads the audit events: 2xx of a
\* creation or update means it was made, 401, 403, 404 and 409 that nothing was; a genuine
\* token is turned away, and a permission denied, only where that was right at some
\* moment; a change is recorded, and nothing is recorded as denied that was done
\* (authorization_error_response, inventory_error_response, audit_denial).
AnswersAreTrue ==
  \A c \in Call :
    LET call == calls[c]
    IN  /\ call.answer = "ok" => call.changed \/ call.op \in {"view", "move"}
        /\ call.answer \notin {"ok", "unknown"} => ~call.changed
        /\ call.answer = "unauthenticated" /\ call.valid => "unauthentic" \in moments[c]
        /\ call.answer = "forbidden" \/ "denied" \in records[c] => "unentitled" \in moments[c]
        /\ "succeeded" \in records[c] <=> call.changed
        /\ "denied" \in records[c] => call.answer \in {"forbidden", "unknown"}

\* A client that got no answer, or a 408 or 503 after which the change may have been made,
\* can send an update or a transition again: of the requests with one expected version
\* one changes the device at most (TimeoutLayer in main, expected_version).
RetryIsSafe ==
  \A c, d \in Call :
    calls[c].changed /\ calls[d].changed /\ c # d /\ "create" \notin {calls[c].op, calls[d].op}
      => \/ calls[c].device # calls[d].device
         \/ calls[c].expected # calls[d].expected

\* However replicas start, die and start again beside all this, the administrator gets one
\* binding, who serves does so on a complete scope, and no starts wait in a circle (Bootstrap).
BootKeepsItsPromise == Boot!OneBinding /\ Boot!ServesCompleteScope /\ Boot!WaitsGoForward
=============================================================================
