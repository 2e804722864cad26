--------------------------- MODULE DeviceApiProofs ---------------------------
(***************************************************************************)
(* Theorems about Bootstrap and about DeviceApi, for any number of         *)
(* replicas, starts, requests, sites and roles.  First the bootstraps by   *)
(* themselves: one binding, a complete scope behind every replica that     *)
(* serves, and a user whom restarts leave alone.  Then the requests beside *)
(* them: what is done was permitted, the answers and the audit events are  *)
(* true, a retry is safe, and the bootstraps keep their promises.          *)
(***************************************************************************)
EXTENDS DeviceApi, TLAPS

-----------------------------------------------------------------------------
(* Bootstrap: the inductive invariant. *)

\* From the upsert of the user to the commit the user's row is locked.
UserIsLocked ==
  \A r \in Replica : replicas[r].pc \in {"role", "bind", "commit"} => locks["user"] = r

\* So what the query for a binding has not found is still not there.
NotFoundIsAbsent ==
  \A r \in Replica : replicas[r].pc = "commit" /\ ~replicas[r].found => bindings = 0

\* bootstrap_scope is over before bootstrap_admin begins.
ScopeComesFirst ==
  \A r \in Replica :
    replicas[r].pc \in {"user", "role", "bind", "commit"} =>
      {"organization", "site", "domain"} \subseteq rows

\* An administrator has a password.
AdminHasPassword == admin # "none" => password # Nobody

BootInv == /\ Boot!TypeOK
           /\ UserIsLocked
           /\ NotFoundIsAbsent
           /\ ScopeComesFirst
           /\ AdminHasPassword
           /\ Boot!OneBinding
           /\ Boot!ServesCompleteScope

-----------------------------------------------------------------------------
(* Bootstrap: facts about single operations. *)

\* Who upserts gets the row's lock and goes on.
LEMMA UpsertsType ==
  ASSUME Boot!TypeOK, NEW r \in Replica, NEW row \in Boot!Row, NEW next \in Boot!Pc,
         next \notin {"down", "serving"}, Nobody \notin Replica, Boot!Upserts(r, row, next)
  PROVE  /\ locks' \in [Boot!Row -> Replica \cup {Nobody}]
         /\ replicas' \in [Replica -> [pc : Boot!Pc, found : BOOLEAN]]
         /\ \A k \in Boot!Row : locks'[k] # Nobody =>
              replicas'[locks'[k]].pc \notin {"down", "serving"}
         /\ locks'[row] = r
         /\ locks[row] \in {Nobody, r}
         /\ \A k \in Boot!Row \ {row} : locks'[k] = locks[k]
         /\ replicas[r].pc = row
         /\ replicas'[r].pc = next
         /\ \A q \in Replica \ {r} : replicas'[q] = replicas[q]
<1>1. /\ replicas[r].pc = row
      /\ locks[row] \in {Nobody, r}
      /\ locks' = [locks EXCEPT ![row] = r]
      /\ replicas' = [replicas EXCEPT ![r] = [pc |-> next, found |-> FALSE]]
  BY DEF Boot!Upserts, Boot!RowFree, Boot!Goes
<1>2. /\ locks \in [Boot!Row -> Replica \cup {Nobody}]
      /\ replicas \in [Replica -> [pc : Boot!Pc, found : BOOLEAN]]
      /\ \A k \in Boot!Row : locks[k] # Nobody => replicas[locks[k]].pc \notin {"down", "serving"}
  BY DEF Boot!TypeOK
<1>3. /\ locks' \in [Boot!Row -> Replica \cup {Nobody}]
      /\ replicas' \in [Replica -> [pc : Boot!Pc, found : BOOLEAN]]
      /\ locks'[row] = r /\ \A k \in Boot!Row \ {row} : locks'[k] = locks[k]
      /\ replicas'[r].pc = next
      /\ \A q \in Replica \ {r} : replicas'[q] = replicas[q]
  BY <1>1, <1>2
<1>4. ASSUME NEW k \in Boot!Row, locks'[k] # Nobody
      PROVE  replicas'[locks'[k]].pc \notin {"down", "serving"}
  BY <1>2, <1>3, <1>4
<1>. QED  BY <1>1, <1>3, <1>4

\* Who gives up its locks leaves those of the others alone.
LEMMA UnlockedType ==
  ASSUME Boot!TypeOK, NEW r \in Replica, NEW pc \in Boot!Pc, Nobody \notin Replica,
         locks' = Boot!Unlocked(r), Boot!Goes(r, pc)
  PROVE  /\ locks' \in [Boot!Row -> Replica \cup {Nobody}]
         /\ replicas' \in [Replica -> [pc : Boot!Pc, found : BOOLEAN]]
         /\ \A k \in Boot!Row : locks'[k] # Nobody =>
              replicas'[locks'[k]].pc \notin {"down", "serving"}
         /\ \A k \in Boot!Row : locks[k] # r => locks'[k] = locks[k]
         /\ replicas'[r].pc = pc
         /\ \A q \in Replica \ {r} : replicas'[q] = replicas[q]
<1>1. /\ locks' = [k \in Boot!Row |-> IF locks[k] = r THEN Nobody ELSE locks[k]]
      /\ replicas' = [replicas EXCEPT ![r] = [pc |-> pc, found |-> FALSE]]
  BY DEF Boot!Unlocked, Boot!Goes
<1>2. /\ locks \in [Boot!Row -> Replica \cup {Nobody}]
      /\ replicas \in [Replica -> [pc : Boot!Pc, found : BOOLEAN]]
      /\ \A k \in Boot!Row : locks[k] # Nobody => replicas[locks[k]].pc \notin {"down", "serving"}
  BY DEF Boot!TypeOK
<1>3. /\ locks' \in [Boot!Row -> Replica \cup {Nobody}]
      /\ replicas' \in [Replica -> [pc : Boot!Pc, found : BOOLEAN]]
      /\ \A k \in Boot!Row : locks[k] # r => locks'[k] = locks[k]
      /\ replicas'[r].pc = pc
      /\ \A q \in Replica \ {r} : replicas'[q] = replicas[q]
  BY <1>1, <1>2
<1>4. ASSUME NEW k \in Boot!Row, locks'[k] # Nobody
      PROVE  replicas'[locks'[k]].pc \notin {"down", "serving"}
  <2>1. locks'[k] = locks[k] /\ locks[k] # r
    BY <1>1, <1>4
  <2>. QED  BY <1>2, <1>3, <1>4, <2>1
<1>. QED  BY <1>3, <1>4

-----------------------------------------------------------------------------
(* Bootstrap: every step keeps the invariant. *)

\* An upsert takes the lock of one row; until the commit nothing else changes.
LEMMA UpsertKeepsInv ==
  ASSUME BootInv, NEW r \in Replica, NEW row \in Boot!Row, NEW next \in Boot!Pc,
         \/ row = "organization" /\ next = "site"
         \/ row = "site" /\ next = "domain"
         \/ row = "user" /\ next = "role"
         \/ row = "role" /\ next = "bind",
         Boot!Upserts(r, row, next),
         UNCHANGED <<rows, admin, password, granted, bindings, starts>>
  PROVE  BootInv'
<1>1. Boot!TypeOK /\ Nobody \notin Replica /\ next \notin {"down", "serving", "commit"}
  BY BootAssumption DEF BootInv, BootAssumption, Boot!BootstrapAssumption
<1>2. /\ locks' \in [Boot!Row -> Replica \cup {Nobody}]
      /\ replicas' \in [Replica -> [pc : Boot!Pc, found : BOOLEAN]]
      /\ \A k \in Boot!Row : locks'[k] # Nobody => replicas'[locks'[k]].pc \notin {"down", "serving"}
      /\ locks'[row] = r
      /\ locks[row] \in {Nobody, r}
      /\ \A k \in Boot!Row \ {row} : locks'[k] = locks[k]
      /\ replicas[r].pc = row
      /\ replicas'[r].pc = next
      /\ \A q \in Replica \ {r} : replicas'[q] = replicas[q]
  BY <1>1, UpsertsType
<1>3. Boot!TypeOK'
  BY <1>1, <1>2 DEF Boot!TypeOK
<1>4. UserIsLocked'
  <2>1. ASSUME NEW q \in Replica \ {r}, replicas'[q].pc \in {"role", "bind", "commit"}
        PROVE  locks'["user"] = q
    <3>1. locks["user"] = q
      BY <1>2, <2>1 DEF BootInv, UserIsLocked
    <3>2. row # "user"
      BY <1>1, <1>2, <3>1
    <3>. QED  BY <1>2, <3>1, <3>2 DEF Boot!Row
  <2>2. replicas'[r].pc \in {"role", "bind", "commit"} => locks'["user"] = r
    BY <1>2 DEF BootInv, UserIsLocked, Boot!Row
  <2>. QED  BY <2>1, <2>2 DEF UserIsLocked
<1>5. NotFoundIsAbsent'
  BY <1>1, <1>2 DEF BootInv, NotFoundIsAbsent
<1>6. ScopeComesFirst'
  BY <1>1, <1>2 DEF BootInv, ScopeComesFirst
<1>7. Boot!ServesCompleteScope'
  BY BootAssumption, <1>1, <1>2
     DEF BootInv, Boot!ServesCompleteScope, BootAssumption, Boot!BootstrapAssumption
<1>. QED  BY <1>3, <1>4, <1>5, <1>6, <1>7 DEF BootInv, AdminHasPassword, Boot!OneBinding

LEMMA UpsertsKeepInv ==
  ASSUME BootInv, NEW r \in Replica,
         Boot!UpsertOrganization(r) \/ Boot!UpsertSite(r) \/ Boot!UpsertUser(r) \/ Boot!UpsertRole(r)
  PROVE  BootInv'
<1>1. {"organization", "site", "user", "role"} \subseteq Boot!Row
      /\ {"site", "domain", "role", "bind"} \subseteq Boot!Pc
  BY DEF Boot!Row, Boot!Pc
<1>2. CASE Boot!UpsertOrganization(r)
  BY <1>1, <1>2, UpsertKeepsInv DEF Boot!UpsertOrganization
<1>3. CASE Boot!UpsertSite(r)
  BY <1>1, <1>3, UpsertKeepsInv DEF Boot!UpsertSite
<1>4. CASE Boot!UpsertUser(r)
  BY <1>1, <1>4, UpsertKeepsInv DEF Boot!UpsertUser
<1>5. CASE Boot!UpsertRole(r)
  BY <1>1, <1>5, UpsertKeepsInv DEF Boot!UpsertRole
<1>. QED  BY <1>2, <1>3, <1>4, <1>5

\* The commit of bootstrap_scope.
LEMMA UpsertDomainKeepsInv ==
  ASSUME BootInv, NEW r \in Replica, Boot!UpsertDomain(r)
  PROVE  BootInv'
<1>1. /\ replicas[r].pc = "domain"
      /\ rows' = rows \cup {"organization", "site", "domain"}
      /\ locks' = Boot!Unlocked(r) /\ Boot!Goes(r, "user")
      /\ UNCHANGED <<admin, password, granted, bindings, starts>>
  BY DEF Boot!UpsertDomain
<1>2. Boot!TypeOK /\ Nobody \notin Replica /\ "user" \in Boot!Pc /\ "user" \in Boot!Row
  BY BootAssumption DEF BootInv, BootAssumption, Boot!BootstrapAssumption, Boot!Pc, Boot!Row
<1>3. /\ locks' \in [Boot!Row -> Replica \cup {Nobody}]
      /\ replicas' \in [Replica -> [pc : Boot!Pc, found : BOOLEAN]]
      /\ \A k \in Boot!Row : locks'[k] # Nobody => replicas'[locks'[k]].pc \notin {"down", "serving"}
      /\ \A k \in Boot!Row : locks[k] # r => locks'[k] = locks[k]
      /\ replicas'[r].pc = "user"
      /\ \A q \in Replica \ {r} : replicas'[q] = replicas[q]
  BY <1>1, <1>2, UnlockedType
<1>4. Boot!TypeOK'
  BY <1>1, <1>2, <1>3 DEF Boot!TypeOK, Boot!Row
<1>5. UserIsLocked'
  BY <1>2, <1>3 DEF BootInv, UserIsLocked
<1>6. NotFoundIsAbsent'
  BY <1>1, <1>3 DEF BootInv, NotFoundIsAbsent
<1>7. ScopeComesFirst'
  BY <1>1, <1>3 DEF BootInv, ScopeComesFirst
<1>8. Boot!ServesCompleteScope'
  <2>1. rows = Boot!Row => rows' = Boot!Row
    BY <1>1 DEF Boot!Row
  <2>. QED  BY BootAssumption, <1>1, <1>3, <2>1
               DEF BootInv, Boot!ServesCompleteScope, BootAssumption, Boot!BootstrapAssumption
<1>. QED  BY <1>1, <1>4, <1>5, <1>6, <1>7, <1>8 DEF BootInv, AdminHasPassword, Boot!OneBinding

\* The commit of bootstrap_admin: what its query has not found is still not there.
LEMMA CommitAdminKeepsInv ==
  ASSUME BootInv, NEW r \in Replica, Boot!CommitAdmin(r)
  PROVE  BootInv'
<1>1. /\ replicas[r].pc = "commit"
      /\ rows' = rows \cup {"user", "role"}
      /\ admin' = Boot!StatusAfter /\ password' = Boot!PasswordAfter(r) /\ granted' = TRUE
      /\ bindings' = IF replicas[r].found THEN bindings ELSE bindings + 1
      /\ locks' = Boot!Unlocked(r) /\ Boot!Goes(r, "serving") /\ starts' = starts
  BY DEF Boot!CommitAdmin
<1>2. Boot!TypeOK /\ Nobody \notin Replica /\ "serving" \in Boot!Pc /\ "user" \in Boot!Row
  BY BootAssumption DEF BootInv, BootAssumption, Boot!BootstrapAssumption, Boot!Pc, Boot!Row
<1>3. /\ locks' \in [Boot!Row -> Replica \cup {Nobody}]
      /\ replicas' \in [Replica -> [pc : Boot!Pc, found : BOOLEAN]]
      /\ \A k \in Boot!Row : locks'[k] # Nobody => replicas'[locks'[k]].pc \notin {"down", "serving"}
      /\ replicas'[r].pc = "serving"
      /\ \A q \in Replica \ {r} : replicas'[q] = replicas[q]
  BY <1>1, <1>2, UnlockedType
<1>4. admin' \in {"none", "active", "disabled"} /\ password' \in Replica /\ password' # Nobody
  BY <1>1, <1>2 DEF Boot!StatusAfter, Boot!PasswordAfter, Boot!TypeOK
<1>5. rows' = Boot!Row
  <2>1. {"organization", "site", "domain"} \subseteq rows
    BY <1>1 DEF BootInv, ScopeComesFirst
  <2>. QED  BY <1>1, <1>2, <2>1 DEF Boot!TypeOK, Boot!Row
<1>6. bindings' \in Nat /\ bindings' <= 1
  <2>1. ~replicas[r].found => bindings = 0
    BY <1>1 DEF BootInv, NotFoundIsAbsent
  <2>2. bindings \in Nat /\ bindings <= 1
    BY DEF BootInv, Boot!TypeOK, Boot!OneBinding
  <2>3. CASE replicas[r].found
    BY <1>1, <2>2, <2>3
  <2>4. CASE ~replicas[r].found
    BY <1>1, <2>1, <2>4
  <2>. QED  BY <2>3, <2>4
<1>7. \A q \in Replica : replicas'[q].pc \notin {"role", "bind", "commit"}
  <2>1. locks["user"] = r
    BY <1>1 DEF BootInv, UserIsLocked
  <2>. QED  BY <1>3, <2>1 DEF BootInv, UserIsLocked
<1>8. Boot!TypeOK'
  BY <1>1, <1>2, <1>3, <1>4, <1>5, <1>6 DEF Boot!TypeOK
<1>9. UserIsLocked' /\ NotFoundIsAbsent'
  BY <1>7 DEF UserIsLocked, NotFoundIsAbsent
<1>10. ScopeComesFirst' /\ AdminHasPassword' /\ Boot!ServesCompleteScope'
  BY <1>1, <1>4, <1>5 DEF ScopeComesFirst, AdminHasPassword, Boot!ServesCompleteScope, Boot!Row
<1>. QED  BY <1>6, <1>8, <1>9, <1>10 DEF BootInv, Boot!OneBinding

\* The death of a replica: what it had not committed is gone.
LEMMA ExitKeepsInv ==
  ASSUME BootInv, NEW r \in Replica, Boot!Exit(r)
  PROVE  BootInv'
<1>1. /\ locks' = Boot!Unlocked(r) /\ Boot!Goes(r, "down")
      /\ UNCHANGED <<rows, admin, password, granted, bindings, starts>>
  BY DEF Boot!Exit, Boot!Down, Boot!Goes
<1>2. Boot!TypeOK /\ Nobody \notin Replica /\ "down" \in Boot!Pc /\ "user" \in Boot!Row
  BY BootAssumption DEF BootInv, BootAssumption, Boot!BootstrapAssumption, Boot!Pc, Boot!Row
<1>3. /\ locks' \in [Boot!Row -> Replica \cup {Nobody}]
      /\ replicas' \in [Replica -> [pc : Boot!Pc, found : BOOLEAN]]
      /\ \A k \in Boot!Row : locks'[k] # Nobody => replicas'[locks'[k]].pc \notin {"down", "serving"}
      /\ \A k \in Boot!Row : locks[k] # r => locks'[k] = locks[k]
      /\ replicas'[r].pc = "down"
      /\ \A q \in Replica \ {r} : replicas'[q] = replicas[q]
  BY <1>1, <1>2, UnlockedType
<1>4. Boot!TypeOK'
  BY <1>1, <1>2, <1>3 DEF Boot!TypeOK
<1>5. UserIsLocked' /\ NotFoundIsAbsent' /\ ScopeComesFirst'
  BY <1>1, <1>2, <1>3 DEF BootInv, UserIsLocked, NotFoundIsAbsent, ScopeComesFirst
<1>6. Boot!ServesCompleteScope'
  BY BootAssumption, <1>1, <1>3
     DEF BootInv, Boot!ServesCompleteScope, BootAssumption, Boot!BootstrapAssumption
<1>. QED  BY <1>1, <1>4, <1>5, <1>6 DEF BootInv, AdminHasPassword, Boot!OneBinding

\* A start holds nothing and comes before everything.
LEMMA StartKeepsInv ==
  ASSUME BootInv, NEW r \in Replica, Boot!Start(r)
  PROVE  BootInv'
<1>. DEFINE pc == IF r \in Configured THEN "organization" ELSE "serving"
<1>1. /\ replicas[r].pc = "down" /\ starts < MaxStarts /\ starts' = starts + 1
      /\ replicas' = [replicas EXCEPT ![r] = [pc |-> pc, found |-> FALSE]]
      /\ UNCHANGED <<rows, admin, password, granted, bindings, locks>>
  BY DEF Boot!Start, Boot!Goes
<1>2. /\ pc \in Boot!Pc /\ pc \notin {"role", "bind", "commit", "user", "down"}
      /\ pc = "serving" => r \notin Configured
  BY DEF Boot!Pc, Boot!Row
<1>. HIDE DEF pc
<1>3. /\ replicas' \in [Replica -> [pc : Boot!Pc, found : BOOLEAN]]
      /\ replicas'[r].pc = pc
      /\ \A q \in Replica \ {r} : replicas'[q] = replicas[q]
  BY <1>1, <1>2 DEF BootInv, Boot!TypeOK
<1>4. Boot!TypeOK'
  <2>1. \A row \in Boot!Row : locks[row] \in Replica \cup {Nobody} /\
          (locks[row] # Nobody => locks[row] # r /\ replicas[locks[row]].pc \notin {"down", "serving"})
    BY <1>1 DEF BootInv, Boot!TypeOK
  <2>2. ASSUME NEW row \in Boot!Row, locks'[row] # Nobody
        PROVE  replicas'[locks'[row]].pc \notin {"down", "serving"}
    BY <1>1, <1>3, <2>1, <2>2
  <2>3. starts' \in 0..MaxStarts
    BY BootAssumption, <1>1 DEF BootInv, Boot!TypeOK, BootAssumption, Boot!BootstrapAssumption
  <2>. QED  BY <1>1, <1>3, <2>2, <2>3 DEF BootInv, Boot!TypeOK
<1>5. UserIsLocked' /\ NotFoundIsAbsent' /\ ScopeComesFirst'
  BY <1>1, <1>2, <1>3 DEF BootInv, UserIsLocked, NotFoundIsAbsent, ScopeComesFirst
<1>6. Boot!ServesCompleteScope'
  BY BootAssumption, <1>1, <1>2, <1>3
     DEF BootInv, Boot!ServesCompleteScope, BootAssumption, Boot!BootstrapAssumption
<1>. QED  BY <1>1, <1>4, <1>5, <1>6 DEF BootInv, AdminHasPassword, Boot!OneBinding

\* The query is made under the lock of the user's row.
LEMMA FindBindingKeepsInv ==
  ASSUME BootInv, NEW r \in Replica, Boot!FindBinding(r)
  PROVE  BootInv'
<1>1. /\ replicas[r].pc = "bind"
      /\ replicas' = [replicas EXCEPT ![r] = [pc |-> "commit", found |-> bindings > 0]]
      /\ UNCHANGED <<rows, admin, password, granted, bindings, locks, starts>>
  BY DEF Boot!FindBinding
<1>2. (bindings > 0) \in BOOLEAN /\ (~(bindings > 0) => bindings = 0) /\ "commit" \in Boot!Pc
  BY DEF BootInv, Boot!TypeOK, Boot!Pc
<1>3. /\ replicas' \in [Replica -> [pc : Boot!Pc, found : BOOLEAN]]
      /\ replicas'[r] = [pc |-> "commit", found |-> bindings > 0]
      /\ \A q \in Replica \ {r} : replicas'[q] = replicas[q]
  BY <1>1, <1>2 DEF BootInv, Boot!TypeOK
<1>4. Boot!TypeOK'
  BY <1>1, <1>3 DEF BootInv, Boot!TypeOK
<1>5. UserIsLocked' /\ ScopeComesFirst'
  BY <1>1, <1>3 DEF BootInv, UserIsLocked, ScopeComesFirst
<1>6. NotFoundIsAbsent'
  BY <1>1, <1>2, <1>3 DEF BootInv, NotFoundIsAbsent
<1>7. Boot!ServesCompleteScope'
  BY BootAssumption, <1>1, <1>3
     DEF BootInv, Boot!ServesCompleteScope, BootAssumption, Boot!BootstrapAssumption
<1>. QED  BY <1>1, <1>4, <1>5, <1>6, <1>7 DEF BootInv, AdminHasPassword, Boot!OneBinding

\* What the database's administrator does.
LEMMA DatabaseKeepsInv ==
  ASSUME BootInv, Boot!Disable \/ Boot!Unbind
  PROVE  BootInv'
<1>1. CASE Boot!Disable
  BY <1>1 DEF Boot!Disable, BootInv, Boot!TypeOK, UserIsLocked, NotFoundIsAbsent, ScopeComesFirst,
              AdminHasPassword, Boot!OneBinding, Boot!ServesCompleteScope
<1>2. CASE Boot!Unbind
  BY <1>2 DEF Boot!Unbind, BootInv, Boot!TypeOK, UserIsLocked, NotFoundIsAbsent, ScopeComesFirst,
              AdminHasPassword, Boot!OneBinding, Boot!ServesCompleteScope
<1>. QED  BY <1>1, <1>2

LEMMA BootInit ==
  ASSUME Boot!Init
  PROVE  BootInv
<1>1. \A r \in Replica : replicas[r] = [pc |-> "down", found |-> FALSE]
  BY DEF Boot!Init, Boot!Down
<1>2. replicas \in [Replica -> [pc : Boot!Pc, found : BOOLEAN]]
  <2>1. [pc |-> "down", found |-> FALSE] \in [pc : Boot!Pc, found : BOOLEAN]
    BY DEF Boot!Pc
  <2>. QED  BY <2>1 DEF Boot!Init, Boot!Down
<1>3. Boot!TypeOK
  <2>1. locks \in [Boot!Row -> Replica \cup {Nobody}] /\ \A row \in Boot!Row : locks[row] = Nobody
    BY DEF Boot!Init
  <2>2. /\ rows \subseteq Boot!Row /\ admin \in {"none", "active", "disabled"}
        /\ password \in Replica \cup {Nobody} /\ bindings \in Nat /\ starts \in 0..MaxStarts
    BY BootAssumption DEF Boot!Init, BootAssumption, Boot!BootstrapAssumption
  <2>3. granted \in BOOLEAN
    BY DEF Boot!Init
  <2>. QED  BY <1>2, <2>1, <2>2, <2>3 DEF Boot!TypeOK
<1>4. UserIsLocked /\ NotFoundIsAbsent /\ ScopeComesFirst /\ Boot!ServesCompleteScope
  BY BootAssumption, <1>1 DEF UserIsLocked, NotFoundIsAbsent, ScopeComesFirst, Boot!ServesCompleteScope,
              BootAssumption, Boot!BootstrapAssumption
<1>. QED  BY <1>3, <1>4 DEF Boot!Init, BootInv, AdminHasPassword, Boot!OneBinding

LEMMA BootKeepsInv ==
  ASSUME BootInv, [Boot!Next]_(Boot!vars)
  PROVE  BootInv'
<1>1. CASE Boot!Next
  <2>1. ASSUME NEW r \in Replica, Boot!Step(r)
        PROVE  BootInv'
    BY <2>1, UpsertsKeepInv, UpsertDomainKeepsInv, FindBindingKeepsInv, CommitAdminKeepsInv
       DEF Boot!Step
  <2>. QED  BY <1>1, <2>1, StartKeepsInv, ExitKeepsInv, DatabaseKeepsInv DEF Boot!Next
<1>2. CASE UNCHANGED Boot!vars
  BY <1>2 DEF Boot!vars, BootInv, Boot!TypeOK, UserIsLocked, NotFoundIsAbsent, ScopeComesFirst,
              AdminHasPassword, Boot!OneBinding, Boot!ServesCompleteScope
<1>. QED  BY <1>1, <1>2

\* What holds in every state.
THEOREM BootInvariance == Boot!Spec => []BootInv
<1>1. Boot!Init => BootInv
  BY BootInit
<1>2. BootInv /\ [Boot!Next]_(Boot!vars) => BootInv'
  BY BootKeepsInv
<1>. QED  BY <1>1, <1>2, PTL DEF Boot!Spec

-----------------------------------------------------------------------------
(* Bootstrap: what is promised. *)

\* However many replicas start at the same time, the administrator has one binding at
\* most, and a replica that was told to bootstrap serves on a complete scope.
THEOREM BootstrapIsSafe == Boot!Spec => [](Boot!TypeOK /\ Boot!OneBinding /\ Boot!ServesCompleteScope)
<1>1. BootInv => Boot!TypeOK /\ Boot!OneBinding /\ Boot!ServesCompleteScope
  BY DEF BootInv
<1>. QED  BY <1>1, BootInvariance, PTL

\* A restart changes neither the administrator's password nor a status that somebody has
\* set (COALESCE in bootstrap_admin, which runs at every start).
THEOREM RestartsLeaveTheUserAlone == Boot!Spec => Boot!RestartsKeepTheUser
<1>. DEFINE Kept == admin # "none" => password' = password /\ (admin' = admin \/ Boot!Disable)
<1>1. BootInv /\ [Boot!Next]_(Boot!vars) => [Kept]_(Boot!vars)
  <2>. SUFFICES ASSUME BootInv, Boot!Next, admin # "none"
                PROVE  password' = password /\ (admin' = admin \/ Boot!Disable)
    OBVIOUS
  <2>1. password # Nobody
    BY DEF BootInv, AdminHasPassword
  <2>2. ASSUME NEW r \in Replica, Boot!CommitAdmin(r)
        PROVE  password' = password /\ admin' = admin
    BY <2>1, <2>2 DEF Boot!CommitAdmin, Boot!PasswordAfter, Boot!StatusAfter
  <2>3. ASSUME NEW r \in Replica, Boot!Start(r) \/ (Boot!Step(r) /\ ~Boot!CommitAdmin(r)) \/ Boot!Exit(r)
        PROVE  password' = password /\ admin' = admin
    BY <2>3 DEF Boot!Start, Boot!Step, Boot!Exit, Boot!UpsertOrganization,
                Boot!UpsertSite, Boot!UpsertDomain,
                Boot!UpsertUser, Boot!UpsertRole, Boot!FindBinding
  <2>4. ASSUME Boot!Disable \/ Boot!Unbind
        PROVE  password' = password /\ (admin' = admin \/ Boot!Disable)
    BY <2>4 DEF Boot!Disable, Boot!Unbind
  <2>. QED  BY <2>2, <2>3, <2>4 DEF Boot!Next
<1>. QED  BY <1>1, BootInvariance, PTL DEF Boot!Spec, Boot!RestartsKeepTheUser

-----------------------------------------------------------------------------
(* Bootstrap: who waits for whom. *)

\* Who has a row has come further than to its upsert.
HoldersAreAhead ==
  \A row \in Boot!Row :
    locks[row] # Nobody => Boot!Progress[replicas[locks[row]].pc] > Boot!Progress[row]

\* Who upserts a row holds it and goes on, and so is ahead of it and of what it held before.
LEMMA UpsertStaysAhead ==
  ASSUME BootInv, HoldersAreAhead, NEW r \in Replica, NEW row \in Boot!Row, NEW next \in Boot!Pc,
         \/ row = "organization" /\ next = "site"
         \/ row = "site" /\ next = "domain"
         \/ row = "user" /\ next = "role"
         \/ row = "role" /\ next = "bind",
         Boot!Upserts(r, row, next)
  PROVE  HoldersAreAhead'
<1>1. Boot!TypeOK /\ Nobody \notin Replica /\ next \notin {"down", "serving"}
  BY BootAssumption DEF BootInv, BootAssumption, Boot!BootstrapAssumption
<1>2. /\ locks' \in [Boot!Row -> Replica \cup {Nobody}]
      /\ locks'[row] = r
      /\ \A k \in Boot!Row \ {row} : locks'[k] = locks[k]
      /\ replicas[r].pc = row /\ replicas'[r].pc = next
      /\ \A q \in Replica \ {r} : replicas'[q] = replicas[q]
  BY <1>1, UpsertsType
<1>3. Boot!Progress[next] > Boot!Progress[row]
  BY DEF Boot!Progress
<1>4. ASSUME NEW k \in Boot!Row, locks'[k] # Nobody
      PROVE  Boot!Progress[replicas'[locks'[k]].pc] > Boot!Progress[k]
  <2>1. CASE locks'[k] = r
    <3>1. k = row \/ locks[k] = r
      BY <1>2, <2>1
    <3>2. CASE k = row
      BY <1>2, <1>3, <3>2
    <3>3. CASE locks[k] = r
      <4>1. Boot!Progress[row] > Boot!Progress[k]
        BY <1>1, <1>2, <3>3 DEF HoldersAreAhead
      <4>2. Boot!Progress[row] \in Int /\ Boot!Progress[k] \in Int /\ Boot!Progress[next] \in Int
        BY DEF Boot!Progress, Boot!Row, Boot!Pc
      <4> QED BY <1>2, <1>3, <2>1, <4>1, <4>2
    <3> QED BY <3>1, <3>2, <3>3
  <2>2. CASE locks'[k] # r
    <3>1. locks'[k] = locks[k] /\ locks[k] \in Replica \ {r}
      BY <1>2, <1>4, <2>2
    <3> QED BY <1>2, <1>4, <3>1 DEF HoldersAreAhead
  <2> QED BY <2>1, <2>2
<1> QED BY <1>4 DEF HoldersAreAhead

\* Who ends a transaction holds nothing afterwards, and the others stay where they are.
LEMMA UnlockStaysAhead ==
  ASSUME BootInv, HoldersAreAhead, NEW r \in Replica, NEW state,
         locks' = Boot!Unlocked(r), replicas' = [replicas EXCEPT ![r] = state]
  PROVE  HoldersAreAhead'
<1>1. /\ Boot!TypeOK /\ Nobody \notin Replica
  BY BootAssumption DEF BootInv, BootAssumption, Boot!BootstrapAssumption
<1>2. /\ locks \in [Boot!Row -> Replica \cup {Nobody}]
      /\ replicas \in [Replica -> [pc : Boot!Pc, found : BOOLEAN]]
  BY <1>1 DEF Boot!TypeOK
<1>3. ASSUME NEW k \in Boot!Row, locks'[k] # Nobody
      PROVE  Boot!Progress[replicas'[locks'[k]].pc] > Boot!Progress[k]
  <2>1. locks'[k] = locks[k] /\ locks[k] \in Replica \ {r}
    BY <1>2, <1>3 DEF Boot!Unlocked
  <2>2. replicas'[locks[k]] = replicas[locks[k]]
    BY <1>2, <2>1
  <2> QED BY <1>3, <2>1, <2>2 DEF HoldersAreAhead
<1> QED BY <1>3 DEF HoldersAreAhead

LEMMA NextStaysAhead ==
  ASSUME BootInv, HoldersAreAhead, [Boot!Next]_(Boot!vars)
  PROVE  HoldersAreAhead'
<1>1. /\ Boot!TypeOK /\ Nobody \notin Replica
      /\ locks \in [Boot!Row -> Replica \cup {Nobody}]
      /\ replicas \in [Replica -> [pc : Boot!Pc, found : BOOLEAN]]
      /\ \A row \in Boot!Row : locks[row] # Nobody =>
           replicas[locks[row]].pc \notin {"down", "serving"}
  BY BootAssumption DEF BootInv, BootAssumption, Boot!BootstrapAssumption, Boot!TypeOK
<1>2. {"organization", "site", "user", "role"} \subseteq Boot!Row
      /\ {"site", "domain", "role", "bind", "commit"} \subseteq Boot!Pc
  BY DEF Boot!Row, Boot!Pc
<1>3. ASSUME NEW r \in Replica, Boot!Start(r)
      PROVE  HoldersAreAhead'
  <2>1. \A k \in Boot!Row : locks[k] # r \/ locks[k] = Nobody
    BY <1>1, <1>3 DEF Boot!Start
  <2>2. locks' = locks /\ \A q \in Replica \ {r} : replicas'[q] = replicas[q]
    BY <1>1, <1>3 DEF Boot!Start, Boot!Goes
  <2> QED BY <1>1, <2>1, <2>2 DEF HoldersAreAhead
<1>4. ASSUME NEW r \in Replica,
             \/ Boot!UpsertOrganization(r) \/ Boot!UpsertSite(r)
             \/ Boot!UpsertUser(r) \/ Boot!UpsertRole(r)
      PROVE  HoldersAreAhead'
  BY <1>2, <1>4, UpsertStaysAhead
     DEF Boot!UpsertOrganization, Boot!UpsertSite, Boot!UpsertUser, Boot!UpsertRole
<1>5. ASSUME NEW r \in Replica, Boot!UpsertDomain(r) \/ Boot!CommitAdmin(r) \/ Boot!Exit(r)
      PROVE  HoldersAreAhead'
  BY <1>5, UnlockStaysAhead DEF Boot!UpsertDomain, Boot!CommitAdmin, Boot!Exit, Boot!Goes
<1>6. ASSUME NEW r \in Replica, Boot!FindBinding(r)
      PROVE  HoldersAreAhead'
  <2>1. /\ locks' = locks /\ replicas[r].pc = "bind" /\ replicas'[r].pc = "commit"
        /\ \A q \in Replica \ {r} : replicas'[q] = replicas[q]
    BY <1>1, <1>6 DEF Boot!FindBinding
  <2>2. \A k \in Boot!Row : Boot!Progress[k] < Boot!Progress["commit"]
    BY DEF Boot!Progress, Boot!Row
  <2>3. ASSUME NEW k \in Boot!Row, locks[k] # Nobody
        PROVE  Boot!Progress[replicas'[locks[k]].pc] > Boot!Progress[k]
    <3>1. CASE locks[k] = r
      BY <2>1, <2>2, <3>1 DEF Boot!Progress, Boot!Row
    <3>2. CASE locks[k] # r
      BY <1>1, <2>1, <2>3, <3>2 DEF HoldersAreAhead
    <3> QED BY <3>1, <3>2
  <2> QED BY <2>1, <2>3 DEF HoldersAreAhead
<1>7. ASSUME Boot!Disable \/ Boot!Unbind \/ UNCHANGED Boot!vars
      PROVE  HoldersAreAhead'
  BY <1>7 DEF HoldersAreAhead, Boot!Disable, Boot!Unbind, Boot!vars
<1> QED BY <1>3, <1>4, <1>5, <1>6, <1>7 DEF Boot!Next, Boot!Step

\* However many replicas start, none of them waits for another in a circle (the order of
\* the upserts in bootstrap_scope and bootstrap_admin).
THEOREM StartsDoNotDeadlock == Boot!Spec => []Boot!WaitsGoForward
<1>1. Boot!Init => HoldersAreAhead
  BY DEF Boot!Init, HoldersAreAhead
<1>2. BootInv /\ HoldersAreAhead /\ [Boot!Next]_(Boot!vars) => HoldersAreAhead'
  BY NextStaysAhead
<1>3. BootInv /\ HoldersAreAhead => Boot!WaitsGoForward
  BY DEF HoldersAreAhead, Boot!WaitsGoForward, Boot!RowFree
<1> QED BY <1>1, <1>2, <1>3, BootInvariance, PTL DEF Boot!Spec

-----------------------------------------------------------------------------
(* The requests: the inductive invariant. *)

DeviceRow == [life    : DeviceLifecycle \cup {"none"},
              value   : Value \cup {Null},
              version : 0..MaxVersion]

\* What is around the requests.
WorldInv ==
  /\ BootInv
  /\ devices \in [Device -> DeviceRow]
  /\ session # "none" => admin # "none"

\* Since it was presented, a request remembers every state there was; it has done nothing.
InFlightInv(c) ==
  InFlight(c) => /\ Truth(c) \subseteq moments[c]
                 /\ session # "none"
                 /\ ~calls[c].changed
                 /\ records[c] = {}
                 /\ calls[c].op # "create" => calls[c].device \in Device

IdleInv(c) == calls[c].pc = "idle" => ~calls[c].changed /\ ~calls[c].valid
                                      /\ calls[c].answer = "none" /\ records[c] = {}

\* If the session and the user are still good, they were when the token was; if the token
\* was not, neither was the session.
SessionInv(c) ==
  calls[c].pc = "session" =>
    /\ calls[c].expired => "unauthentic" \in moments[c]
    /\ ~calls[c].expired /\ session = "open" /\ admin = "active" => "authentic" \in moments[c]

\* What the checks that are over have found.
CheckedInv(c) ==
  /\ calls[c].pc \in {"permission", "operation"} => "authentic" \in moments[c]
  /\ calls[c].pc = "operation" => "entitled" \in moments[c]
  /\ calls[c].pc = "denial" => "unentitled" \in moments[c]

\* WhatIsDoneWasPermitted and AnswersAreTrue, of one request.
Permitted(c) ==
  calls[c].changed \/ calls[c].answer = "ok" =>
    /\ {"authentic", "entitled"} \subseteq moments[c]
    /\ SiteOf[calls[c].device] = calls[c].site

AnswerIsTrue(c) ==
  /\ calls[c].answer = "ok" => calls[c].changed \/ calls[c].op \in {"view", "move"}
  /\ calls[c].answer \notin {"ok", "unknown"} => ~calls[c].changed
  /\ calls[c].answer = "unauthenticated" /\ calls[c].valid => "unauthentic" \in moments[c]
  /\ calls[c].answer = "forbidden" \/ "denied" \in records[c] => "unentitled" \in moments[c]
  /\ "succeeded" \in records[c] <=> calls[c].changed
  /\ "denied" \in records[c] => calls[c].answer \in {"forbidden", "unknown"}

\* A version that a change was made of has passed.
VersionHasPassed(c) ==
  calls[c].changed /\ calls[c].op # "create" =>
    /\ calls[c].device \in Device
    /\ devices[calls[c].device].version > calls[c].expected

Answerless(c) == calls[c].pc # "done" => calls[c].answer = "none"

CallInv(c) == /\ InFlightInv(c)
              /\ IdleInv(c)
              /\ SessionInv(c)
              /\ CheckedInv(c)
              /\ Permitted(c)
              /\ AnswerIsTrue(c)
              /\ VersionHasPassed(c)
              /\ Answerless(c)

IInv == /\ TypeOK
        /\ WorldInv
        /\ \A c \in Call : CallInv(c)
        /\ RetryIsSafe

-----------------------------------------------------------------------------
(* What a step does to the world. *)

\* Sessions do not reopen, users stay and are not enabled again, versions grow.
Advances ==
  /\ session # "none" => session' # "none" /\ (session' = "open" => session = "open")
  /\ admin # "none" => admin' # "none" /\ (admin' = "active" => admin = "active")
  /\ \A d \in Device : devices'[d].version >= devices[d].version

\* The last conjunct of Next.
Remembers ==
  \A c \in Call :
    moments'[c] =
      IF calls'[c].pc \notin {"idle", "done"} THEN moments[c] \cup Truth(c)'
      ELSE IF \/ calls'[c].changed \/ "denied" \in records'[c]
              \/ calls'[c].answer \in {"ok", "unauthenticated", "forbidden"}
           THEN moments[c] ELSE {}

\* A request that a step does not touch keeps what is known of it.
LEMMA UntouchedKeepsInv ==
  ASSUME TypeOK, WorldInv, Advances, Remembers, devices' \in [Device -> DeviceRow],
         NEW c \in Call, CallInv(c), calls'[c] = calls[c], records'[c] = records[c]
  PROVE  CallInv(c)'
<1>. USE DEF CallInv
<1>1. InFlight(c)' => InFlight(c) /\ moments[c] \subseteq moments'[c]
                      /\ Truth(c)' \subseteq moments'[c]
  BY DEF InFlight, Remembers
<1>2. InFlightInv(c)'
  BY <1>1 DEF InFlightInv, Advances
<1>3. IdleInv(c)'
  BY DEF IdleInv
<1>4. SessionInv(c)'
  <2>. SUFFICES ASSUME calls[c].pc = "session"
                PROVE  SessionInv(c)'
    BY DEF SessionInv
  <2>1. InFlight(c) /\ InFlight(c)'
    BY DEF InFlight
  <2>2. session # "none" /\ admin # "none"
    BY <2>1 DEF InFlightInv, WorldInv
  <2>. QED  BY <1>1, <2>1, <2>2 DEF SessionInv, Advances
<1>5. CheckedInv(c)'
  BY <1>1 DEF CheckedInv, InFlight
<1>6. ASSUME \/ calls[c].changed \/ "denied" \in records[c]
             \/ calls[c].answer \in {"ok", "unauthenticated", "forbidden"}
      PROVE  moments[c] \subseteq moments'[c]
  BY <1>6 DEF Remembers
<1>7. Permitted(c)'
  BY <1>6 DEF Permitted
<1>8. AnswerIsTrue(c)'
  BY <1>6 DEF AnswerIsTrue
<1>9. VersionHasPassed(c)'
  <2>. SUFFICES ASSUME calls[c].changed, calls[c].op # "create"
                PROVE  /\ calls[c].device \in Device
                       /\ devices'[calls[c].device].version > calls[c].expected
    BY DEF VersionHasPassed
  <2>. DEFINE d == calls[c].device
  <2>1. d \in Device /\ devices[d].version > calls[c].expected
    BY DEF VersionHasPassed
  <2>2. devices'[d].version >= devices[d].version
    BY <2>1 DEF Advances
  <2>3. devices[d] \in DeviceRow /\ devices'[d] \in DeviceRow /\ calls[c] \in CallState
    BY <2>1 DEF WorldInv, TypeOK
  <2>4. devices[d].version \in Int /\ devices'[d].version \in Int /\ calls[c].expected \in Int
    BY <2>3, DeviceApiAssumption DEF DeviceApiAssumption, DeviceRow, CallState
  <2>. QED  BY <2>1, <2>2, <2>4
<1>10. Answerless(c)'
  BY DEF Answerless
<1>. QED  BY <1>2, <1>3, <1>4, <1>5, <1>7, <1>8, <1>9, <1>10

\* An answered request is one of the answers there are, and one that is true.
LEMMA AnsweredType ==
  ASSUME NEW c \in Call, calls[c] \in CallState, NEW a \in Answer,
         NEW d \in Device \cup {NoDevice}, NEW changed \in BOOLEAN
  PROVE  /\ Answered(c, a, d, changed) \in CallState
         /\ Answered(c, a, d, changed).pc = "done"
         /\ Answered(c, a, d, changed).changed = changed
         /\ Answered(c, a, d, changed).answer = a
         /\ Answered(c, a, d, changed).valid =>
              calls[c].valid /\ (changed \/ a \in {"ok", "unauthenticated"})
         /\ changed \/ a = "ok" =>
              /\ Answered(c, a, d, changed).device = d
              /\ Answered(c, a, d, changed).op = calls[c].op
              /\ Answered(c, a, d, changed).site = calls[c].site
              /\ Answered(c, a, d, changed).expected = calls[c].expected
<1>. DEFINE valid == calls[c].valid /\ a = "unauthenticated"
<1>1. Idle \in CallState
  BY DeviceApiAssumption DEF DeviceApiAssumption, Idle, CallState, Op, Pc, Answer,
                             DeviceLifecycle
<1>2. valid \in BOOLEAN
  OBVIOUS
<1>3. CASE changed \/ a = "ok"
  <2>1. Answered(c, a, d, changed) =
          [[calls[c] EXCEPT !.device = d, !.by = Nobody, !.expired = FALSE]
             EXCEPT !.pc = "done", !.changed = changed, !.answer = a]
    BY <1>3 DEF Answered
  <2>. QED  BY <1>3, <2>1 DEF CallState, Pc, Answer
<1>4. CASE ~(changed \/ a = "ok")
  <2>. DEFINE i == [Idle EXCEPT !.valid = valid]
  <2>1. Answered(c, a, d, changed) = [i EXCEPT !.pc = "done", !.changed = changed, !.answer = a]
    BY <1>4 DEF Answered
  <2>2. i \in CallState
    <3>. HIDE DEF valid
    <3>. QED  BY <1>1, <1>2 DEF CallState
  <2>3. i.valid => valid
    <3>. HIDE DEF valid
    <3>1. i.valid = valid
      BY <1>2 DEF Idle
    <3>. QED  BY <3>1
  <2>. HIDE DEF i
  <2>. QED  BY <1>4, <2>1, <2>2, <2>3 DEF CallState, Pc, Answer
<1>. QED  BY <1>3, <1>4

\* An answer that is true, of a request to which nothing else happens.
LEMMA AnsweredKeepsInv ==
  ASSUME Remembers, NEW c \in Call, calls[c] \in CallState, NEW a \in Answer \ {"none"},
         NEW d \in Device \cup {NoDevice}, NEW changed \in BOOLEAN,
         calls'[c] = Answered(c, a, d, changed),
         changed \/ a = "ok" => /\ {"authentic", "entitled"} \subseteq moments[c]
                                /\ SiteOf[d] = calls[c].site,
         a = "ok" => changed \/ calls[c].op \in {"view", "move"},
         changed => a \in {"ok", "unknown"},
         a = "unauthenticated" /\ calls[c].valid => "unauthentic" \in moments[c],
         a = "forbidden" \/ "denied" \in records'[c] => "unentitled" \in moments[c],
         "succeeded" \in records'[c] <=> changed,
         "denied" \in records'[c] => a \in {"forbidden", "unknown"},
         changed /\ calls[c].op # "create" =>
           d \in Device /\ devices'[d].version > calls[c].expected
  PROVE  CallInv(c)'
<1>. DEFINE x == Answered(c, a, d, changed)
<1>1. /\ x.pc = "done" /\ x.changed = changed /\ x.answer = a
      /\ x.valid => calls[c].valid
      /\ changed \/ a = "ok" => /\ x.device = d
                                /\ x.op = calls[c].op
                                /\ x.site = calls[c].site
                                /\ x.expected = calls[c].expected
  BY AnsweredType
<1>. HIDE DEF x
<1>2. calls'[c] = x
  BY DEF x
<1>3. \/ changed \/ "denied" \in records'[c]
      \/ a \in {"ok", "unauthenticated", "forbidden"}
      => moments'[c] = moments[c]
  BY <1>1, <1>2 DEF Remembers
<1>4. InFlightInv(c)' /\ IdleInv(c)' /\ SessionInv(c)' /\ CheckedInv(c)' /\ Answerless(c)'
  BY <1>1, <1>2 DEF InFlightInv, InFlight, IdleInv, SessionInv, CheckedInv, Answerless
<1>5. Permitted(c)'
  BY <1>1, <1>2, <1>3 DEF Permitted
<1>6. AnswerIsTrue(c)'
  BY <1>1, <1>2, <1>3 DEF AnswerIsTrue
<1>7. VersionHasPassed(c)'
  BY <1>1, <1>2 DEF VersionHasPassed
<1>. QED  BY <1>4, <1>5, <1>6, <1>7 DEF CallInv

-----------------------------------------------------------------------------
(* The register and the start of replicas, as DeviceApi uses them. *)

LEMMA EnterType ==
  ASSUME devices \in [Device -> DeviceRow], NEW d \in Device, Register!Enter(d)
  PROVE  /\ devices' \in [Device -> DeviceRow]
         /\ \A e \in Device : devices'[e].version >= devices[e].version
<1>1. PICK life \in {"pending_review", "managed"}, value \in Value \cup {Null} :
        devices' = [devices EXCEPT ![d] = [life    |-> life,
                                           value   |-> value,
                                           version |-> devices[d].version + 1]]
  BY DEF Register!Enter, Register!Becomes
<1>2. devices[d].version = 0
  BY DEF Register!Enter, Register!Absent
<1>3. [life |-> life, value |-> value, version |-> devices[d].version + 1] \in DeviceRow
  BY <1>2, DeviceApiAssumption DEF DeviceRow, DeviceLifecycle, DeviceApiAssumption
<1>4. \A e \in Device : devices[e].version \in Int
  BY DeviceApiAssumption DEF DeviceRow, DeviceApiAssumption
<1>. QED  BY <1>1, <1>2, <1>3, <1>4

LEMMA ChangeType ==
  ASSUME devices \in [Device -> DeviceRow], NEW d \in Device,
         devices[d].version < MaxVersion, Register!Edit(d) \/ Register!Move(d)
  PROVE  /\ devices' \in [Device -> DeviceRow]
         /\ devices'[d].version = devices[d].version + 1
         /\ \A e \in Device : devices'[e].version >= devices[e].version
<1>1. devices[d] \in DeviceRow
  OBVIOUS
<1>2. PICK life \in DeviceLifecycle, value \in Value \cup {Null} :
        devices' = [devices EXCEPT ![d] = [life    |-> life,
                                           value   |-> value,
                                           version |-> devices[d].version + 1]]
  <2>1. CASE Register!Edit(d)
    <3>1. devices[d].life \in DeviceLifecycle
      BY <2>1 DEF Register!Edit, Register!AllowsNormalMutation, DeviceLifecycle
    <3>. QED  BY <1>1, <2>1, <3>1 DEF Register!Edit, Register!Becomes, DeviceRow
  <2>2. CASE Register!Move(d)
    <3>1. \A life \in Register!Successors(devices[d].life) : life \in DeviceLifecycle
      BY <1>1 DEF Register!Successors, DeviceLifecycle, DeviceRow
    <3>. QED  BY <1>1, <2>2, <3>1 DEF Register!Move, Register!Becomes, DeviceRow
  <2>. QED  BY <2>1, <2>2
<1>3. \A e \in Device : devices[e].version \in 0..MaxVersion
  BY DEF DeviceRow
<1>4. devices[d].version + 1 \in 0..MaxVersion
  BY <1>3, DeviceApiAssumption DEF DeviceApiAssumption
<1>5. [life |-> life, value |-> value, version |-> devices[d].version + 1] \in DeviceRow
  BY <1>4 DEF DeviceRow
<1>. QED  BY <1>2, <1>3, <1>5, DeviceApiAssumption DEF DeviceApiAssumption

\* The administrator stays, and is not enabled again by a start.
LEMMA BootAdvances ==
  ASSUME Boot!Next, admin # "none"
  PROVE  admin' # "none" /\ (admin' = "active" => admin = "active")
<1>1. ASSUME NEW r \in Replica, Boot!Start(r) \/ Boot!Step(r) \/ Boot!Exit(r)
      PROVE  admin' = admin
  BY <1>1 DEF Boot!Start, Boot!Step, Boot!Exit, Boot!UpsertOrganization, Boot!UpsertSite,
              Boot!UpsertDomain, Boot!UpsertUser, Boot!UpsertRole, Boot!FindBinding,
              Boot!CommitAdmin, Boot!StatusAfter
<1>. QED  BY <1>1 DEF Boot!Next, Boot!Disable, Boot!Unbind

-----------------------------------------------------------------------------
(* Steps, by the requests they touch. *)

WorldType == /\ session \in {"none", "open", "revoked"}
             /\ sessionExpired \in BOOLEAN
             /\ siteRoles \subseteq Site \X Role

\* TypeOK is about the world, the start of replicas and the requests.
LEMMA TypeIsWhole ==
  /\ TypeOK <=> /\ Boot!TypeOK /\ WorldType
                /\ calls \in [Call -> CallState]
                /\ records \in [Call -> SUBSET {"denied", "succeeded"}]
                /\ \A c \in Call : calls[c].changed => calls[c].pc = "done"
  /\ BootInv => Boot!TypeOK
<1>1. BootInv => Boot!TypeOK
  BY DEF BootInv
<1>. QED  BY <1>1 DEF TypeOK, WorldType

\* A step that touches no request.
LEMMA QuietKeepsInv ==
  ASSUME IInv, Advances, Remembers, WorldInv', WorldType', UNCHANGED <<calls, records>>
  PROVE  IInv'
<1>1. TypeOK'
  <2>1. Boot!TypeOK'
    BY TypeIsWhole, PTL DEF WorldInv
  <2>. QED  BY <2>1, TypeIsWhole DEF IInv, TypeOK, WorldType
<1>2. \A c \in Call : CallInv(c)'
  BY UntouchedKeepsInv DEF IInv, WorldInv
<1>3. RetryIsSafe'
  BY DEF IInv, RetryIsSafe
<1>. QED  BY <1>1, <1>2, <1>3 DEF IInv

\* A step of one request.
LEMMA CallKeepsInv ==
  ASSUME IInv, Advances, Remembers, WorldInv', WorldType',
         NEW c \in Call, NEW x \in CallState, calls' = [calls EXCEPT ![c] = x],
         NEW R \in SUBSET {"denied", "succeeded"}, records' = [records EXCEPT ![c] = R],
         x.changed => x.pc = "done",
         CallInv(c)',
         \A q \in Call \ {c} :
           x.changed /\ calls[q].changed /\ x.op # "create" /\ calls[q].op # "create" =>
             x.device # calls[q].device \/ x.expected # calls[q].expected
  PROVE  IInv'
<1>1. /\ calls' \in [Call -> CallState] /\ records' \in [Call -> SUBSET {"denied", "succeeded"}]
      /\ calls'[c] = x
      /\ \A q \in Call \ {c} : calls'[q] = calls[q] /\ records'[q] = records[q]
  BY DEF IInv, TypeOK
<1>2. TypeOK'
  <2>1. Boot!TypeOK'
    BY TypeIsWhole, PTL DEF WorldInv
  <2>. QED  BY <1>1, <2>1 DEF IInv, TypeOK, WorldType
<1>3. \A q \in Call \ {c} : CallInv(q)'
  BY <1>1, UntouchedKeepsInv DEF IInv, WorldInv
<1>4. RetryIsSafe'
  <2>. SUFFICES ASSUME NEW a \in Call, NEW b \in Call, a # b,
                       calls'[a].changed, calls'[b].changed,
                       calls'[a].op # "create", calls'[b].op # "create"
                PROVE  \/ calls'[a].device # calls'[b].device
                       \/ calls'[a].expected # calls'[b].expected
    BY DEF RetryIsSafe
  <2>1. CASE a = c
    BY <1>1, <2>1
  <2>2. CASE b = c
    BY <1>1, <2>2
  <2>3. CASE a # c /\ b # c
    BY <1>1, <2>3 DEF IInv, RetryIsSafe
  <2>. QED  BY <2>1, <2>2, <2>3
<1>. QED  BY <1>2, <1>3, <1>4 DEF IInv

LEMMA BootUnchanged ==
  ASSUME BootInv, UNCHANGED bootVars
  PROVE  BootInv'
BY DEF bootVars, BootInv, Boot!TypeOK, UserIsLocked, NotFoundIsAbsent,
       ScopeComesFirst, AdminHasPassword, Boot!OneBinding, Boot!ServesCompleteScope

\* A step of one request that leaves the world alone.
LEMMA WorldUnchanged ==
  ASSUME IInv, UNCHANGED <<bootVars, deviceVars, userVars>>
  PROVE  Advances /\ WorldInv' /\ WorldType'
<1>1. BootInv'
  BY BootUnchanged DEF IInv, WorldInv
<1>2. \A d \in Device : devices[d].version \in Int
  BY DeviceApiAssumption DEF IInv, WorldInv, DeviceRow, DeviceApiAssumption
<1>. QED  BY <1>1, <1>2 DEF IInv, WorldInv, WorldType, TypeOK, Advances, bootVars, deviceVars,
                            userVars

-----------------------------------------------------------------------------
(* The steps of a request. *)

\* An answer to a request that has changed nothing.
LEMMA AnswersKeepsInv ==
  ASSUME IInv, Remembers, NEW c \in Call, NEW a \in Answer \ {"none"},
         calls[c].pc # "done", Answers(c, a),
         UNCHANGED <<bootVars, deviceVars, userVars>>,
         NEW R \in SUBSET {"denied"}, records' = [records EXCEPT ![c] = R],
         a = "ok" => /\ {"authentic", "entitled"} \subseteq moments[c]
                     /\ SiteOf[calls[c].device] = calls[c].site
                     /\ calls[c].op \in {"view", "move"},
         a = "unauthenticated" /\ calls[c].valid => "unauthentic" \in moments[c],
         a = "forbidden" \/ "denied" \in R => "unentitled" \in moments[c],
         "denied" \in R => a \in {"forbidden", "unknown"}
  PROVE  IInv'
<1>. DEFINE d == calls[c].device
            x == Answered(c, a, d, FALSE)
<1>1. calls[c] \in CallState /\ d \in Device \cup {NoDevice}
      /\ calls \in [Call -> CallState]
      /\ records \in [Call -> SUBSET {"denied", "succeeded"}]
  BY DEF IInv, TypeOK, CallState
<1>2. Advances /\ WorldInv' /\ WorldType'
  BY WorldUnchanged
<1>3. x \in CallState /\ ~x.changed
  <2>. DEFINE no == FALSE
  <2>1. a \in Answer /\ no \in BOOLEAN /\ ~no
    OBVIOUS
  <2>. HIDE DEF d, no
  <2>2. Answered(c, a, d, no) \in CallState /\ Answered(c, a, d, no).changed = no
    BY <1>1, <2>1, AnsweredType
  <2>3. ~Answered(c, a, d, no).changed
    BY <2>1, <2>2
  <2>. QED  BY <2>2, <2>3 DEF no
<1>4. calls' = [calls EXCEPT ![c] = x]
  BY DEF Answers
<1>5. calls'[c] = Answered(c, a, d, FALSE) /\ records'[c] = R
  BY <1>1, <1>3, <1>4
<1>. HIDE DEF d, x
<1>6. CallInv(c)'
  BY <1>1, <1>5, AnsweredKeepsInv DEF d
<1>7. R \in SUBSET {"denied", "succeeded"}
  OBVIOUS
<1>. QED  BY <1>2, <1>3, <1>4, <1>6, <1>7, CallKeepsInv

LEMMA PresentKeepsInv ==
  ASSUME IInv, Remembers, NEW c \in Call, NEW r \in Replica, NEW request \in Request,
         NEW expected \in 0..MaxVersion, Present(c, r, request, expected)
  PROVE  IInv'
<1>. DEFINE x == [op |-> request.op, site |-> request.site, device |-> request.device,
                  expected |-> expected, target |-> request.target, by |-> r,
                  valid |-> TRUE, expired |-> sessionExpired, pc |-> "session",
                  changed |-> FALSE, answer |-> "none"]
<1>1. /\ calls[c].pc = "idle" /\ session # "none"
      /\ UNCHANGED <<bootVars, deviceVars, userVars, records>>
  BY DEF Present
<1>2. calls' = [calls EXCEPT ![c] = x]
  BY DEF Present
<1>3. x \in CallState
  BY DeviceApiAssumption DEF DeviceApiAssumption, CallState, Op, Pc, Answer, IInv, TypeOK
<1>4. request.op # "create" => request.device \in Device
  BY DeviceApiAssumption DEF DeviceApiAssumption
<1>5. Advances /\ WorldInv' /\ WorldType'
  BY <1>1, WorldUnchanged
<1>6. records' = [records EXCEPT ![c] = {}] /\ records'[c] = {}
  <2>1. records[c] = {}
    BY <1>1 DEF IInv, CallInv, IdleInv
  <2>. QED  BY <1>1, <2>1 DEF IInv, TypeOK
<1>7. calls'[c] = x
  BY <1>2 DEF IInv, TypeOK
<1>8. Truth(c)' \subseteq moments'[c]
  <2>1. calls'[c].pc = "session"
    BY <1>7
  <2>. HIDE DEF x
  <2>. QED  BY <2>1 DEF Remembers
<1>9. CallInv(c)'
  <2>1. InFlightInv(c)'
    BY <1>1, <1>4, <1>6, <1>7, <1>8 DEF InFlightInv, userVars
  <2>2. SessionInv(c)'
    <3>1. CASE sessionExpired
      <4>1. "unauthentic" \in Truth(c)'
        BY <1>1, <3>1 DEF Truth, userVars
      <4>. QED  BY <1>7, <1>8, <3>1, <4>1 DEF SessionInv
    <3>2. CASE ~sessionExpired /\ session = "open" /\ admin = "active"
      <4>1. "authentic" \in Truth(c)'
        BY <1>1, <1>7, <3>2 DEF Truth, userVars, bootVars
      <4>. QED  BY <1>7, <1>8, <3>2, <4>1 DEF SessionInv
    <3>3. CASE ~sessionExpired /\ ~(session = "open" /\ admin = "active")
      BY <1>1, <1>7, <3>3 DEF SessionInv, userVars, bootVars
    <3>. QED  BY <3>1, <3>2, <3>3
  <2>3. IdleInv(c)' /\ CheckedInv(c)' /\ Permitted(c)' /\ AnswerIsTrue(c)'
        /\ VersionHasPassed(c)' /\ Answerless(c)'
    BY <1>6, <1>7 DEF IdleInv, CheckedInv, Permitted, AnswerIsTrue, VersionHasPassed, Answerless
  <2>. QED  BY <2>1, <2>2, <2>3 DEF CallInv
<1>10. ~x.changed
  OBVIOUS
<1>. HIDE DEF x
<1>. QED  BY <1>2, <1>3, <1>5, <1>6, <1>9, <1>10, CallKeepsInv

\* A request that goes on to its next statement.
LEMMA GoesKeepsInv ==
  ASSUME IInv, Remembers, NEW c \in Call, NEW pc \in {"permission", "denial", "operation"},
         InFlight(c), Goes(c, pc), UNCHANGED <<bootVars, deviceVars, userVars, records>>,
         pc \in {"permission", "operation"} => "authentic" \in moments[c],
         pc = "operation" => "entitled" \in moments[c],
         pc = "denial" => "unentitled" \in moments[c]
  PROVE  IInv'
<1>. DEFINE x == [calls[c] EXCEPT !.pc = pc]
<1>1. calls[c] \in CallState /\ calls \in [Call -> CallState]
      /\ records \in [Call -> SUBSET {"denied", "succeeded"}]
  BY DEF IInv, TypeOK
<1>2. /\ x \in CallState /\ x.pc = pc /\ x.changed = calls[c].changed /\ x.op = calls[c].op
      /\ x.device = calls[c].device /\ x.answer = calls[c].answer
  BY <1>1 DEF CallState, Pc
<1>. HIDE DEF x
<1>3. calls' = [calls EXCEPT ![c] = x] /\ calls'[c] = x
  BY <1>1 DEF Goes, x
<1>4. Advances /\ WorldInv' /\ WorldType'
  BY WorldUnchanged
<1>5. records' = [records EXCEPT ![c] = {}] /\ records'[c] = {}
  <2>1. records[c] = {}
    BY DEF IInv, CallInv, InFlightInv
  <2>. QED  BY <1>1, <2>1
<1>6. moments[c] \subseteq moments'[c] /\ Truth(c)' \subseteq moments'[c]
  BY <1>2, <1>3 DEF Remembers
<1>7. calls[c].answer = "none" /\ ~calls[c].changed
  BY DEF IInv, CallInv, InFlightInv, Answerless, InFlight
<1>8. CallInv(c)'
  <2>1. InFlightInv(c)'
    BY <1>2, <1>3, <1>5, <1>6, <1>7 DEF IInv, CallInv, InFlightInv, userVars
  <2>2. CheckedInv(c)'
    BY <1>2, <1>3, <1>6 DEF CheckedInv
  <2>3. IdleInv(c)' /\ SessionInv(c)' /\ Permitted(c)' /\ AnswerIsTrue(c)'
        /\ VersionHasPassed(c)' /\ Answerless(c)'
    BY <1>2, <1>3, <1>5, <1>7
       DEF IdleInv, SessionInv, Permitted, AnswerIsTrue, VersionHasPassed, Answerless
  <2>. QED  BY <2>1, <2>2, <2>3 DEF CallInv
<1>. QED  BY <1>2, <1>3, <1>4, <1>5, <1>7, <1>8, CallKeepsInv

\* The facts that the steps below begin with.
LEMMA CallFacts ==
  ASSUME IInv, NEW c \in Call
  PROVE  /\ calls[c] \in CallState /\ records[c] \in SUBSET {"denied", "succeeded"}
         /\ records = [records EXCEPT ![c] = records[c]]
         /\ calls[c].pc = "idle" => ~calls[c].valid /\ records[c] = {}
         /\ InFlight(c) => Truth(c) \subseteq moments[c] /\ records[c] = {} /\ ~calls[c].changed
<1>1. /\ calls \in [Call -> CallState]
      /\ records \in [Call -> SUBSET {"denied", "succeeded"}]
  BY DEF IInv, TypeOK
<1>2. records = [records EXCEPT ![c] = records[c]]
  BY <1>1
<1>. QED  BY <1>1, <1>2 DEF IInv, CallInv, IdleInv, InFlightInv

\* A step that only answers, and with nothing that needs a reason.
LEMMA PlainAnswerKeepsInv ==
  ASSUME IInv, Remembers, NEW c \in Call, NEW a \in {"missing", "conflict", "unknown"},
         calls[c].pc # "done", Answers(c, a),
         UNCHANGED <<bootVars, deviceVars, userVars, records>>
  PROVE  IInv'
<1>1. records' = [records EXCEPT ![c] = {}]
  BY CallFacts DEF InFlight
<1>2. a \in Answer \ {"none"} /\ {} \in SUBSET {"denied"}
  BY DEF Answer
<1>. QED  BY <1>1, <1>2, AnswersKeepsInv

LEMMA PresentInvalidKeepsInv ==
  ASSUME IInv, Remembers, NEW c \in Call, PresentInvalid(c)
  PROVE  IInv'
<1>1. calls[c].pc = "idle" /\ Answers(c, "unauthenticated")
      /\ UNCHANGED <<bootVars, deviceVars, userVars, records>>
  BY DEF PresentInvalid
<1>2. ~calls[c].valid /\ records' = [records EXCEPT ![c] = {}]
  BY <1>1, CallFacts
<1>3. PICK a \in Answer \ {"none"}, R \in SUBSET {"denied"} : a = "unauthenticated" /\ R = {}
  BY DEF Answer
<1>. QED  BY <1>1, <1>2, <1>3, AnswersKeepsInv

LEMMA AuthenticateKeepsInv ==
  ASSUME IInv, Remembers, NEW c \in Call, Authenticate(c)
  PROVE  IInv'
<1>1. calls[c].pc = "session" /\ InFlight(c)
      /\ UNCHANGED <<bootVars, deviceVars, userVars, records>>
  BY DEF Authenticate, InFlight
<1>2. CASE Accepts(calls[c].expired)
  <2>1. Goes(c, "permission")
    BY <1>2 DEF Authenticate
  <2>2. "authentic" \in moments[c]
    BY <1>1, <1>2 DEF Accepts, IInv, CallInv, SessionInv
  <2>. QED  BY <1>1, <2>1, <2>2, GoesKeepsInv
<1>3. CASE ~Accepts(calls[c].expired)
  <2>1. Answers(c, "unauthenticated")
    BY <1>3 DEF Authenticate
  <2>2. "unauthentic" \in moments[c]
    <3>1. CASE calls[c].expired
      BY <1>1, <3>1 DEF IInv, CallInv, SessionInv
    <3>2. CASE ~calls[c].expired
      <4>1. ~(session = "open" /\ admin = "active")
        BY <1>3, <3>2 DEF Accepts
      <4>2. "unauthentic" \in Truth(c)
        BY <4>1 DEF Truth
      <4>. QED  BY <1>1, <4>2, CallFacts
    <3>. QED  BY <3>1, <3>2
  <2>3. records' = [records EXCEPT ![c] = {}] /\ calls[c].pc # "done"
    BY <1>1, CallFacts
  <2>4. PICK a \in Answer \ {"none"}, R \in SUBSET {"denied"} : a = "unauthenticated" /\ R = {}
    BY DEF Answer
  <2>. QED  BY <1>1, <2>1, <2>2, <2>3, <2>4, AnswersKeepsInv
<1>. QED  BY <1>2, <1>3

LEMMA RequirePermissionKeepsInv ==
  ASSUME IInv, Remembers, NEW c \in Call, RequirePermission(c)
  PROVE  IInv'
<1>1. calls[c].pc = "permission" /\ InFlight(c) /\ "authentic" \in moments[c]
      /\ UNCHANGED <<bootVars, deviceVars, userVars, records>>
  BY DEF RequirePermission, InFlight, IInv, CallInv, CheckedInv
<1>2. Truth(c) \subseteq moments[c]
  BY <1>1, CallFacts
<1>3. Allowed(calls[c].site, Needed(c)) <=>
        \/ bindings > 0 /\ granted
        \/ \E role \in Role : <<calls[c].site, role>> \in siteRoles /\ Needed(c) \in Grants[role]
  <2>1. siteRoles \subseteq Site \X Role
    BY DEF IInv, TypeOK
  <2>2. ASSUME NEW b \in siteRoles, b[1] = calls[c].site, Needed(c) \in Grants[b[2]]
        PROVE  \E role \in Role : <<calls[c].site, role>> \in siteRoles /\ Needed(c) \in Grants[role]
    <3>1. b[2] \in Role /\ b = <<calls[c].site, b[2]>>
      BY <2>1, <2>2
    <3>. QED  BY <2>2, <3>1
  <2>3. ASSUME NEW role \in Role, <<calls[c].site, role>> \in siteRoles, Needed(c) \in Grants[role]
        PROVE  \E b \in siteRoles : b[1] = calls[c].site /\ Needed(c) \in Grants[b[2]]
    BY <2>3
  <2>. QED  BY <2>2, <2>3 DEF Allowed
<1>4. CASE Allowed(calls[c].site, Needed(c))
  <2>1. Goes(c, "operation")
    BY <1>4 DEF RequirePermission
  <2>2. "entitled" \in moments[c]
    BY <1>2, <1>3, <1>4 DEF Truth
  <2>. QED  BY <1>1, <2>1, <2>2, GoesKeepsInv
<1>5. CASE ~Allowed(calls[c].site, Needed(c))
  <2>1. Goes(c, "denial")
    BY <1>5 DEF RequirePermission
  <2>2. "unentitled" \in moments[c]
    BY <1>2, <1>3, <1>5 DEF Truth
  <2>. QED  BY <1>1, <2>1, <2>2, GoesKeepsInv
<1>. QED  BY <1>4, <1>5

LEMMA AuditDenialKeepsInv ==
  ASSUME IInv, Remembers, NEW c \in Call, AuditDenial(c)
  PROVE  IInv'
<1>1. calls[c].pc = "denial" /\ InFlight(c) /\ "unentitled" \in moments[c]
      /\ UNCHANGED <<bootVars, deviceVars, userVars>>
  BY DEF AuditDenial, InFlight, IInv, CallInv, CheckedInv
<1>2. records[c] = {} /\ calls[c].pc # "done" /\ records = [records EXCEPT ![c] = records[c]]
  BY <1>1, CallFacts
<1>3. PICK R \in SUBSET {"denied"} : records' = [records EXCEPT ![c] = R]
  <2>1. CASE records' = [records EXCEPT ![c] = @ \cup {"denied"}]
    <3>1. records' = [records EXCEPT ![c] = {"denied"}]
      BY <1>2, <2>1
    <3>. QED  BY <3>1
  <2>2. CASE UNCHANGED records
    <3>1. records' = [records EXCEPT ![c] = {}]
      BY <1>2, <2>2
    <3>. QED  BY <3>1
  <2>. QED  BY <2>1, <2>2 DEF AuditDenial
<1>4. PICK a \in {"forbidden", "unknown"} : Answers(c, a)
  BY DEF AuditDenial
<1>5. a \in Answer \ {"none"}
  BY DEF Answer
<1>. QED  BY <1>1, <1>2, <1>3, <1>4, <1>5, AnswersKeepsInv

\* What a view and a transition to where the device is are answered with.
LEMMA ReadsKeepInv ==
  ASSUME IInv, Remembers, NEW c \in Call, View(c) \/ AnswerUnchanged(c)
  PROVE  IInv'
<1>1. calls[c].pc = "operation" /\ InFlight(c) /\ {"authentic", "entitled"} \subseteq moments[c]
      /\ calls[c].op \in {"view", "move"} /\ calls[c].pc # "done"
      /\ UNCHANGED <<bootVars, deviceVars, userVars, records>>
  BY DEF View, AnswerUnchanged, InFlight, IInv, CallInv, CheckedInv
<1>2. CASE InScope(c) /\ Answers(c, "ok")
  <2>1. SiteOf[calls[c].device] = calls[c].site
    BY <1>2 DEF InScope
  <2>2. records' = [records EXCEPT ![c] = {}]
    BY <1>1, CallFacts
  <2>3. PICK a \in Answer \ {"none"}, R \in SUBSET {"denied"} : a = "ok" /\ R = {}
    BY DEF Answer
  <2>4. Answers(c, a) /\ records' = [records EXCEPT ![c] = R]
    BY <1>2, <2>2, <2>3
  <2>5. /\ a # "unauthenticated" /\ a # "forbidden"
        /\ "denied" \notin R
    BY <2>3
  <2>6. UNCHANGED <<bootVars, deviceVars, userVars>>
    BY <1>1
  <2>. QED  BY <1>1, <2>1, <2>4, <2>5, <2>6, AnswersKeepsInv
<1>3. CASE ~(InScope(c) /\ Answers(c, "ok"))
  <2>1. Answers(c, "missing")
    BY <1>3 DEF View, AnswerUnchanged
  <2>. QED  BY <1>1, <2>1, PlainAnswerKeepsInv
<1>. QED  BY <1>2, <1>3

LEMMA RefusalsKeepInv ==
  ASSUME IInv, Remembers, NEW c \in Call, Refuse(c) \/ Abandon(c)
  PROVE  IInv'
<1>1. calls[c].pc # "done" /\ UNCHANGED <<bootVars, deviceVars, userVars, records>>
  BY DEF Refuse, Abandon, InFlight
<1>2. PICK a \in {"missing", "conflict", "unknown"} : Answers(c, a)
  BY DEF Refuse, Abandon
<1>. QED  BY <1>1, <1>2, PlainAnswerKeepsInv

\* A step that changes devices, as creations do, and leaves the rest of the world alone.
LEMMA DevicesChange ==
  ASSUME IInv, UNCHANGED <<bootVars, userVars>>, devices' \in [Device -> DeviceRow],
         \A e \in Device : devices'[e].version >= devices[e].version
  PROVE  Advances /\ WorldInv' /\ WorldType'
<1>1. BootInv'
  BY BootUnchanged DEF IInv, WorldInv
<1>. QED  BY <1>1 DEF IInv, WorldInv, WorldType, TypeOK, Advances, bootVars, userVars

\* A request that commits its change of d; when d was there, the version was the expected
\* one and is not any more.
LEMMA ChangedKeepsInv ==
  ASSUME IInv, Remembers, NEW c \in Call, NEW d \in Device, calls[c].pc = "operation",
         SiteOf[d] = calls[c].site, AnswersChanged(c, d), Recorded(c),
         UNCHANGED <<bootVars, userVars>>, devices' \in [Device -> DeviceRow],
         \A e \in Device : devices'[e].version >= devices[e].version,
         calls[c].op # "create" => /\ devices[d].version = calls[c].expected
                                   /\ devices'[d].version = devices[d].version + 1
  PROVE  IInv'
<1>1. PICK a \in {"ok", "unknown"}, yes \in BOOLEAN :
        yes /\ calls' = [calls EXCEPT ![c] = Answered(c, a, d, yes)]
  BY DEF AnswersChanged
<1>. DEFINE x == Answered(c, a, d, yes)
<1>2. calls[c] \in CallState /\ calls \in [Call -> CallState]
      /\ records \in [Call -> SUBSET {"denied", "succeeded"}]
  BY DEF IInv, TypeOK
<1>3. a \in Answer \ {"none"} /\ a \in Answer /\ d \in Device \cup {NoDevice}
  BY DEF Answer
<1>4. /\ x \in CallState /\ x.pc = "done" /\ x.changed
      /\ x.device = d /\ x.op = calls[c].op /\ x.expected = calls[c].expected
  <2>1. /\ x \in CallState /\ x.pc = "done" /\ x.changed = yes
        /\ yes => x.device = d /\ x.op = calls[c].op /\ x.expected = calls[c].expected
    BY <1>2, <1>3, AnsweredType
  <2>. HIDE DEF x
  <2>. QED  BY <1>1, <2>1
<1>5. Advances /\ WorldInv' /\ WorldType'
  BY DevicesChange
<1>6. InFlight(c) /\ {"authentic", "entitled"} \subseteq moments[c]
  BY DEF InFlight, IInv, CallInv, CheckedInv
<1>7. PICK R \in SUBSET {"denied", "succeeded"} :
        R = {"succeeded"} /\ records' = [records EXCEPT ![c] = R]
  <2>1. records[c] = {}
    BY <1>6, CallFacts
  <2>2. records' = [records EXCEPT ![c] = {"succeeded"}]
    BY <1>2, <2>1 DEF Recorded
  <2>. QED  BY <2>2
<1>8. calls'[c] = x /\ records'[c] = R
  BY <1>1, <1>2, <1>4, <1>7
<1>9. \A e \in Device : devices[e].version \in Int
  BY DeviceApiAssumption DEF IInv, WorldInv, DeviceRow, DeviceApiAssumption
<1>10. calls[c].op # "create" => devices'[d].version > calls[c].expected
  BY <1>9
<1>11. CallInv(c)'
  <2>1. "denied" \notin records'[c] /\ "succeeded" \in records'[c]
    BY <1>7, <1>8
  <2>2. a # "unauthenticated" /\ a # "forbidden"
    OBVIOUS
  <2>. HIDE DEF x
  <2>3. calls'[c] = Answered(c, a, d, yes)
    BY <1>8 DEF x
  <2>. QED  BY <1>1, <1>2, <1>3, <1>6, <1>10, <2>1, <2>2, <2>3, AnsweredKeepsInv
<1>12. ASSUME NEW q \in Call \ {c}, calls[q].changed, x.op # "create", calls[q].op # "create"
       PROVE  x.device # calls[q].device \/ x.expected # calls[q].expected
  <2>1. calls[q].device \in Device => devices[calls[q].device].version > calls[q].expected
    BY <1>12 DEF IInv, CallInv, VersionHasPassed
  <2>2. devices[d].version = x.expected
    BY <1>4, <1>12
  <2>3. devices[d].version \in Int
    BY <1>9
  <2>. HIDE DEF x
  <2>. QED  BY <1>4, <2>1, <2>2, <2>3
<1>. HIDE DEF x
<1>13. calls' = [calls EXCEPT ![c] = x]
  BY <1>1 DEF x
<1>. QED  BY <1>4, <1>5, <1>7, <1>11, <1>12, <1>13, CallKeepsInv

LEMMA CreateKeepsInv ==
  ASSUME IInv, Remembers, NEW c \in Call, Create(c)
  PROVE  IInv'
<1>1. PICK d \in Device : SiteOf[d] = calls[c].site /\ Register!Enter(d) /\ AnswersChanged(c, d)
  BY DEF Create
<1>2. /\ calls[c].pc = "operation" /\ calls[c].op = "create"
      /\ Recorded(c) /\ UNCHANGED <<bootVars, userVars>>
  BY DEF Create
<1>3. /\ devices' \in [Device -> DeviceRow]
      /\ \A e \in Device : devices'[e].version >= devices[e].version
  BY <1>1, EnterType DEF IInv, WorldInv
<1>. QED  BY <1>1, <1>2, <1>3, ChangedKeepsInv

LEMMA ChangeKeepsInv ==
  ASSUME IInv, Remembers, NEW c \in Call, Change(c)
  PROVE  IInv'
<1>. DEFINE d == calls[c].device
<1>1. /\ calls[c].pc = "operation" /\ calls[c].op \in {"update", "move"}
      /\ SiteOf[d] = calls[c].site /\ devices[d].version = calls[c].expected
      /\ devices[d].version < MaxVersion
      /\ Register!Edit(d) \/ Register!Move(d)
      /\ AnswersChanged(c, d) /\ Recorded(c) /\ UNCHANGED <<bootVars, userVars>>
  BY DEF Change, InScope, Acceptable
<1>2. d \in Device
  BY <1>1 DEF IInv, CallInv, InFlightInv, InFlight
<1>3. /\ devices' \in [Device -> DeviceRow]
      /\ devices'[d].version = devices[d].version + 1
      /\ \A e \in Device : devices'[e].version >= devices[e].version
  BY <1>1, <1>2, ChangeType DEF IInv, WorldInv
<1>. HIDE DEF d
<1>. QED  BY <1>1, <1>2, <1>3, ChangedKeepsInv

-----------------------------------------------------------------------------
(* The steps around the requests. *)

LEMMA VersionsAreNumbers ==
  ASSUME IInv
  PROVE  /\ \A d \in Device : devices[d].version \in Int
         /\ \A d \in Device : devices[d].version >= devices[d].version
<1>1. \A d \in Device : devices[d].version \in Int
  BY DeviceApiAssumption DEF IInv, WorldInv, DeviceRow, DeviceApiAssumption
<1>. QED  BY <1>1

LEMMA SessionStepsKeepInv ==
  ASSUME IInv, Remembers, Login \/ EndSession \/ Expire
  PROVE  IInv'
<1>1. UNCHANGED <<bootVars, deviceVars, siteRoles, calls, records>>
  BY DEF Login, EndSession, Expire
<1>2. BootInv'
  BY <1>1, BootUnchanged DEF IInv, WorldInv
<1>3. Advances
  BY <1>1, VersionsAreNumbers DEF Advances, Login, EndSession, Expire, bootVars, deviceVars
<1>4. WorldInv'
  BY <1>1, <1>2 DEF IInv, WorldInv, Login, EndSession, Expire, bootVars, deviceVars
<1>5. WorldType'
  BY <1>1 DEF IInv, TypeOK, WorldType, Login, EndSession, Expire
<1>. QED  BY <1>1, <1>3, <1>4, <1>5, QuietKeepsInv

LEMMA BindSiteKeepsInv ==
  ASSUME IInv, Remembers, BindSite
  PROVE  IInv'
<1>1. UNCHANGED <<bootVars, deviceVars, session, sessionExpired, calls, records>>
  BY DEF BindSite
<1>2. BootInv'
  BY <1>1, BootUnchanged DEF IInv, WorldInv
<1>3. Advances
  BY <1>1, VersionsAreNumbers DEF Advances, bootVars, deviceVars
<1>4. WorldInv'
  BY <1>1, <1>2 DEF IInv, WorldInv, bootVars, deviceVars
<1>5. siteRoles' \subseteq Site \X Role
  <2>1. siteRoles \subseteq Site \X Role
    BY DEF IInv, TypeOK
  <2>2. Bindable \subseteq Site \X Role
    BY DeviceApiAssumption DEF DeviceApiAssumption
  <2>. QED  BY <2>1, <2>2 DEF BindSite
<1>6. WorldType'
  BY <1>1, <1>5 DEF IInv, TypeOK, WorldType
<1>. QED  BY <1>1, <1>3, <1>4, <1>6, QuietKeepsInv

LEMMA OthersEnterKeepsInv ==
  ASSUME IInv, Remembers, OthersEnter
  PROVE  IInv'
<1>1. UNCHANGED <<bootVars, userVars, calls, records>>
  BY DEF OthersEnter
<1>2. PICK d \in Device : Register!Enter(d)
  BY DEF OthersEnter
<1>3. /\ devices' \in [Device -> DeviceRow]
      /\ \A e \in Device : devices'[e].version >= devices[e].version
  BY <1>2, EnterType DEF IInv, WorldInv
<1>4. Advances /\ WorldInv' /\ WorldType'
  BY <1>1, <1>3, DevicesChange
<1>. QED  BY <1>1, <1>4, QuietKeepsInv

LEMMA BootStepKeepsInv ==
  ASSUME IInv, Remembers, BootStep
  PROVE  IInv'
<1>. DEFINE Dies(c) == InFlight(c) /\ replicas'[calls[c].by].pc = "down"
<1>1. Boot!Next /\ UNCHANGED <<deviceVars, userVars, records>>
  BY DEF BootStep
<1>2. /\ calls \in [Call -> CallState] /\ records \in [Call -> SUBSET {"denied", "succeeded"}]
      /\ \A c \in Call : calls[c].changed => calls[c].pc = "done"
  BY DEF IInv, TypeOK
<1>3. PICK no \in BOOLEAN : ~no /\ no = FALSE
  OBVIOUS
<1>4. \A c \in Call : calls'[c] = IF Dies(c) THEN Answered(c, "unknown", calls[c].device, no)
                                             ELSE calls[c]
  BY <1>3 DEF BootStep
<1>5. calls' = [c \in Call |-> calls'[c]]
  BY DEF BootStep
<1>. HIDE DEF Dies
<1>6. ASSUME NEW c \in Call, Dies(c)
      PROVE  /\ calls'[c] = Answered(c, "unknown", calls[c].device, no)
             /\ calls'[c] \in CallState /\ ~calls'[c].changed
  <2>1. "unknown" \in Answer /\ calls[c] \in CallState /\ calls[c].device \in Device \cup {NoDevice}
    BY <1>2 DEF Answer, CallState
  <2>2. calls'[c] = Answered(c, "unknown", calls[c].device, no)
    BY <1>4, <1>6
  <2>3. calls'[c] \in CallState /\ calls'[c].changed = no
    BY <2>1, <2>2, AnsweredType
  <2>4. ~calls'[c].changed
    BY <1>3, <2>3
  <2>. QED  BY <2>2, <2>3, <2>4
<1>7. BootInv'
  BY <1>1, BootKeepsInv DEF IInv, WorldInv
<1>8. Advances
  <2>1. admin # "none" => admin' # "none" /\ (admin' = "active" => admin = "active")
    BY <1>1, BootAdvances
  <2>. QED  BY <1>1, <2>1, VersionsAreNumbers DEF Advances, deviceVars, userVars
<1>9. WorldInv' /\ WorldType'
  BY <1>1, <1>7, <1>8
     DEF IInv, WorldInv, WorldType, TypeOK, Advances, deviceVars, userVars
<1>10. TypeOK'
  <2>1. Boot!TypeOK'
    BY <1>7, TypeIsWhole, PTL
  <2>2. \A c \in Call : calls'[c] \in CallState
    BY <1>2, <1>4, <1>6
  <2>3. calls' \in [Call -> CallState]
    BY <1>5, <2>2
  <2>4. \A c \in Call : calls'[c].changed => calls'[c].pc = "done"
    BY <1>2, <1>4, <1>6
  <2>. QED  BY <1>1, <1>2, <1>9, <2>1, <2>3, <2>4 DEF TypeOK, WorldType
<1>11. ASSUME NEW c \in Call
       PROVE  CallInv(c)'
  <2>1. CASE Dies(c)
    <3>1. InFlight(c) /\ records'[c] = {}
      BY <1>1, <2>1, CallFacts DEF Dies
    <3>2. PICK a \in Answer \ {"none"} : a = "unknown"
      BY DEF Answer
    <3>3. calls'[c] = Answered(c, a, calls[c].device, no)
      BY <1>6, <2>1, <3>2
    <3>4. calls[c] \in CallState /\ calls[c].device \in Device \cup {NoDevice}
      BY <1>2 DEF CallState
    <3>5. a # "ok" /\ a # "unauthenticated" /\ a # "forbidden"
      BY <3>2
    <3>. QED  BY <1>3, <3>1, <3>3, <3>4, <3>5, AnsweredKeepsInv
  <2>2. CASE ~Dies(c)
    <3>1. calls'[c] = calls[c] /\ records'[c] = records[c]
      BY <1>1, <1>4, <2>2
    <3>2. devices' \in [Device -> DeviceRow]
      BY <1>9 DEF WorldInv
    <3>. QED  BY <1>8, <3>1, <3>2, UntouchedKeepsInv DEF IInv, WorldInv
  <2>. QED  BY <2>1, <2>2
<1>12. RetryIsSafe'
  <2>1. \A c \in Call : calls'[c].changed => calls'[c] = calls[c]
    BY <1>4, <1>6
  <2>. QED  BY <2>1 DEF IInv, RetryIsSafe
<1>. QED  BY <1>9, <1>10, <1>11, <1>12 DEF IInv

-----------------------------------------------------------------------------
(* The theorems. *)

LEMMA InitEstablishesInv ==
  ASSUME Init
  PROVE  IInv
<1>. USE DEF Init
<1>1. BootInv
  BY BootInit
<1>2. devices \in [Device -> DeviceRow]
  <2>1. Register!Absent \in DeviceRow
    BY DeviceApiAssumption DEF Register!Absent, DeviceRow, DeviceApiAssumption
  <2>. QED  BY <2>1 DEF Register!Init
<1>3. Idle \in CallState
  BY DeviceApiAssumption DEF DeviceApiAssumption, Idle, CallState, Op, Pc, Answer,
                             DeviceLifecycle
<1>4. \A c \in Call : calls[c] = Idle /\ records[c] = {}
  OBVIOUS
<1>5. Idle.pc = "idle" /\ ~Idle.changed /\ ~Idle.valid /\ Idle.answer = "none"
  BY DEF Idle
<1>6. TypeOK
  <2>1. Boot!TypeOK
    BY <1>1, TypeIsWhole
  <2>. QED  BY <1>3, <1>4, <1>5, <2>1 DEF TypeOK
<1>7. ASSUME NEW c \in Call
      PROVE  CallInv(c)
  BY <1>4, <1>5 DEF CallInv, InFlightInv, InFlight, IdleInv, SessionInv, CheckedInv,
                    Permitted, AnswerIsTrue, VersionHasPassed, Answerless
<1>8. RetryIsSafe
  BY <1>4, <1>5 DEF RetryIsSafe
<1>. QED  BY <1>1, <1>2, <1>6, <1>7, <1>8 DEF IInv, WorldInv

LEMMA PresentsKeepsInv ==
  ASSUME IInv, Remembers, NEW c \in Call, Presents(c)
  PROVE  IInv'
<1>1. CASE PresentInvalid(c)
  BY <1>1, PresentInvalidKeepsInv
<1>2. ASSUME NEW r \in Replica, NEW request \in Request, Present(c, r, request, 0)
      PROVE  IInv'
  <2>1. PICK expected \in 0..MaxVersion : expected = 0
    BY DeviceApiAssumption DEF DeviceApiAssumption
  <2>2. Present(c, r, request, expected)
    BY <1>2, <2>1
  <2>. QED  BY <2>2, PresentKeepsInv
<1>3. ASSUME NEW r \in Replica, NEW request \in Request, request.op \in {"update", "move"},
             NEW expected \in 1..devices[request.device].version,
             Present(c, r, request, expected)
      PROVE  IInv'
  <2>1. request.device \in Device
    BY <1>3, DeviceApiAssumption DEF DeviceApiAssumption
  <2>2. devices[request.device].version \in 0..MaxVersion
    BY <2>1 DEF IInv, WorldInv, DeviceRow
  <2>3. expected \in 0..MaxVersion
    BY <2>2, DeviceApiAssumption DEF DeviceApiAssumption
  <2>. QED  BY <1>3, <2>3, PresentKeepsInv
<1>. QED  BY <1>1, <1>2, <1>3 DEF Presents

LEMMA NextKeepsInv ==
  ASSUME IInv, Next
  PROVE  IInv'
<1>1. Remembers
  BY DEF Next, Remembers
<1>2. ASSUME NEW c \in Call, Serves(c)
      PROVE  IInv'
  BY <1>1, <1>2, AuthenticateKeepsInv, RequirePermissionKeepsInv, AuditDenialKeepsInv,
     ReadsKeepInv, CreateKeepsInv, ChangeKeepsInv, RefusalsKeepInv DEF Serves
<1>3. ASSUME NEW c \in Call, Presents(c) \/ Serves(c) \/ Abandon(c)
      PROVE  IInv'
  BY <1>1, <1>2, <1>3, PresentsKeepsInv, RefusalsKeepInv
<1>. QED  BY <1>1, <1>3, SessionStepsKeepInv, BindSiteKeepsInv, OthersEnterKeepsInv,
             BootStepKeepsInv DEF Next, Moves

LEMMA StutteringKeepsInv ==
  ASSUME IInv, UNCHANGED vars
  PROVE  IInv'
<1>1. /\ UNCHANGED <<bootVars, deviceVars, userVars>>
      /\ calls' = calls /\ records' = records /\ moments' = moments
  BY DEF vars
<1>2. WorldInv' /\ WorldType'
  BY <1>1, WorldUnchanged
<1>3. TypeOK'
  <2>1. Boot!TypeOK'
    BY <1>2, TypeIsWhole, PTL DEF WorldInv
  <2>. QED  BY <1>1, <1>2, <2>1 DEF IInv, TypeOK, WorldType
<1>4. \A c \in Call : Truth(c)' = Truth(c)
  BY <1>1 DEF Truth, Needed, bootVars, userVars
<1>5. \A c \in Call : CallInv(c)'
  BY <1>1, <1>4 DEF IInv, CallInv, InFlightInv, InFlight, IdleInv, SessionInv, CheckedInv,
                    Permitted, AnswerIsTrue, VersionHasPassed, Answerless, bootVars,
                    deviceVars, userVars
<1>6. RetryIsSafe'
  BY <1>1 DEF IInv, RetryIsSafe
<1>. QED  BY <1>2, <1>3, <1>5, <1>6 DEF IInv

\* Whatever the requests, the replicas and the user's sessions and roles do, what the
\* invariant says of each request stays true (authorization.rs and inventory_api.rs).
THEOREM Invariance == Spec => []IInv
<1>1. Init => IInv
  BY InitEstablishesInv
<1>2. IInv /\ [Next]_vars => IInv'
  BY NextKeepsInv, StutteringKeepsInv
<1>. QED  BY <1>1, <1>2, PTL DEF Spec

\* Every variable keeps its shape, and only an answered request has changed something.
THEOREM TypeIsKept == Spec => []TypeOK
<1>1. IInv => TypeOK
  BY DEF IInv
<1>. QED  BY <1>1, Invariance, PTL

\* What is done or shown was permitted: authenticate, require_site_permission and the
\* operation are three transactions, but each begins after the one before has ended.
THEOREM OnlyPermittedIsDone == Spec => []WhatIsDoneWasPermitted
<1>1. IInv => WhatIsDoneWasPermitted
  BY DEF IInv, CallInv, Permitted, WhatIsDoneWasPermitted
<1>. QED  BY <1>1, Invariance, PTL

\* The answers and the audit events tell the truth, when statements fail, replicas die and
\* answers are lost too (inventory_error_response, audit_denial, write_mutation_records).
THEOREM AnswersTellTheTruth == Spec => []AnswersAreTrue
<1>1. IInv => AnswersAreTrue
  <2>1. ASSUME IInv, NEW c \in Call
        PROVE  AnswerIsTrue(c)
    BY <2>1 DEF IInv, CallInv
  <2>. QED  BY <2>1 DEF AnswerIsTrue, AnswersAreTrue
<1>. QED  BY <1>1, Invariance, PTL

\* A request for a change that was not answered may be sent again, any number of times
\* (expected_version of update_metadata and transition_lifecycle).
THEOREM RetriesAreSafe == Spec => []RetryIsSafe
<1>1. IInv => RetryIsSafe
  BY DEF IInv
<1>. QED  BY <1>1, Invariance, PTL

-----------------------------------------------------------------------------
(* The composition does to each of its parts only what the part's own specification         *)
(* allows, so whatever holds of the part alone holds beside the requests.                   *)

\* What is not a step of the bootstraps leaves them alone, and what is not a step of the
\* inventory leaves the devices alone.
LEMMA PartsStep ==
  ASSUME IInv, Moves
  PROVE  [Boot!Next]_(Boot!vars) /\ [Register!Next]_(Register!vars)
<1>1. ASSUME UNCHANGED bootVars
      PROVE  [Boot!Next]_(Boot!vars)
  BY <1>1 DEF bootVars, Boot!vars
<1>2. ASSUME UNCHANGED deviceVars
      PROVE  [Register!Next]_(Register!vars)
  BY <1>2 DEF deviceVars, Register!vars
<1>3. ASSUME NEW d \in Device, Register!Enter(d) \/ Register!Edit(d) \/ Register!Move(d)
      PROVE  [Register!Next]_(Register!vars)
  BY <1>3 DEF Register!Next
<1>4. ASSUME NEW c \in Call, Presents(c)
      PROVE  UNCHANGED <<bootVars, deviceVars>>
  BY <1>4 DEF Presents, Present, PresentInvalid
<1>5. ASSUME NEW c \in Call, Create(c) \/ Change(c)
      PROVE  UNCHANGED bootVars /\ [Register!Next]_(Register!vars)
  <2>1. CASE Create(c)
    BY <1>3, <2>1 DEF Create
  <2>2. CASE Change(c)
    <3>1. calls[c].device \in Device
      BY <2>2 DEF Change, IInv, CallInv, InFlightInv, InFlight
    <3>2. Register!Edit(calls[c].device) \/ Register!Move(calls[c].device)
      BY <2>2 DEF Change
    <3> QED BY <1>3, <2>2, <3>1, <3>2 DEF Change
  <2> QED BY <1>5, <2>1, <2>2
<1>6. ASSUME NEW c \in Call,
             \/ Authenticate(c) \/ RequirePermission(c) \/ AuditDenial(c) \/ View(c)
             \/ AnswerUnchanged(c) \/ Refuse(c) \/ Abandon(c)
      PROVE  UNCHANGED <<bootVars, deviceVars>>
  BY <1>6 DEF Authenticate, RequirePermission, AuditDenial, View, AnswerUnchanged, Refuse, Abandon
<1>7. ASSUME Login \/ EndSession \/ Expire \/ BindSite
      PROVE  UNCHANGED <<bootVars, deviceVars>>
  BY <1>7 DEF Login, EndSession, Expire, BindSite
<1>8. ASSUME OthersEnter
      PROVE  UNCHANGED bootVars /\ [Register!Next]_(Register!vars)
  BY <1>3, <1>8 DEF OthersEnter
<1>9. ASSUME BootStep
      PROVE  Boot!Next /\ UNCHANGED deviceVars
  BY <1>9 DEF BootStep
<1>10. ASSUME NEW c \in Call, Serves(c)
       PROVE  [Boot!Next]_(Boot!vars) /\ [Register!Next]_(Register!vars)
  BY <1>1, <1>2, <1>5, <1>6, <1>10 DEF Serves
<1>11. ASSUME NEW c \in Call, Presents(c) \/ Serves(c) \/ Abandon(c)
       PROVE  [Boot!Next]_(Boot!vars) /\ [Register!Next]_(Register!vars)
  BY <1>1, <1>2, <1>4, <1>6, <1>10, <1>11
<1> QED BY <1>1, <1>2, <1>7, <1>8, <1>9, <1>11 DEF Moves

\* Beside the requests the replicas start as they do alone (main), and the devices change
\* as the inventory promises, whichever handler, replica or other user changes them.
THEOREM PartsAreImplemented == Spec => Boot!Spec /\ Register!Spec
<1>1. Init => Boot!Init /\ Register!Init
  BY DEF Init
<1>2. IInv /\ [Next]_vars => [Boot!Next]_(Boot!vars) /\ [Register!Next]_(Register!vars)
  <2> SUFFICES ASSUME IInv, [Next]_vars
               PROVE  [Boot!Next]_(Boot!vars) /\ [Register!Next]_(Register!vars)
    OBVIOUS
  <2>1. CASE Next
    BY <2>1, PartsStep DEF Next
  <2>2. CASE UNCHANGED vars
    BY <2>2 DEF vars, bootVars, deviceVars, Boot!vars, Register!vars
  <2> QED BY <2>1, <2>2
<1> QED BY <1>1, <1>2, Invariance, PTL DEF Spec, Boot!Spec, Register!Spec

\* So a replica that starts beside the requests leaves the password of the administrator,
\* and a status that somebody has set, alone too (bootstrap_admin).
THEOREM UserIsKeptBeside == Spec => Boot!RestartsKeepTheUser
BY PartsAreImplemented, RestartsLeaveTheUserAlone, PTL

\* Beside the requests, however many replicas start: one binding of the administrator,
\* nobody serves on part of the scope, and the starts do not deadlock (bootstrap_scope,
\* bootstrap_admin, main).
THEOREM BootIsSafeBeside == Spec => []BootKeepsItsPromise
<1>1. /\ Boot!OneBinding /\ Boot!ServesCompleteScope /\ Boot!WaitsGoForward
      => BootKeepsItsPromise
  BY DEF BootKeepsItsPromise
<1> QED BY <1>1, PartsAreImplemented, BootstrapIsSafe, StartsDoNotDeadlock, PTL
=============================================================================
