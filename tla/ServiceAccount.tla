--------------------------- MODULE ServiceAccount ---------------------------
(***************************************************************************)
(* crates/identity-store: service accounts, the credentials issued for     *)
(* them, the roles bound to them, and what a presented token is worth.     *)
(*                                                                         *)
(* disable_account is a transaction of two UPDATEs; every other operation  *)
(* is one or two statements that commit by themselves.  An INSERT ...      *)
(* SELECT acts on the rows that were committed when it began, and the      *)
(* foreign key it sets does not conflict with the lock of an UPDATE of     *)
(* status: issue_credential never waits for disable_account.  The rows     *)
(* that disable_account has updated are locked until it commits.           *)
(*                                                                         *)
(* An account stands for its organization and name, a credential for the   *)
(* token whose hash it stores.  A CIDR list is the set of addresses it     *)
(* matches, or AnyAddress.  All tokens are taken to have one visible       *)
(* prefix, so that authenticate has to tell them apart by their hashes.    *)
(***************************************************************************)
EXTENDS FiniteSets

CONSTANTS Org, Account, Credential, Role, Permission, Address,
          Call,        \* requests, each served once
          OrgOf,       \* the organization of each account
          RoleOrg,     \* the organization of each role, or NoOrg for a global one
          Grants,      \* the permissions of each role
          ScopeLists,  \* scopes that credentials are asked for with
          CidrLists,   \* address sets that credentials are asked for with
          AnyAddress,  \* the empty CIDR list
          NoOrg,
          Forged,      \* a token with a known prefix that nobody has issued
          Nobody       \* no account, no credential

ASSUME ServiceAccountAssumption ==
  /\ OrgOf \in [Account -> Org]
  /\ RoleOrg \in [Role -> Org \cup {NoOrg}] /\ NoOrg \notin Org
  /\ Grants \in [Role -> SUBSET Permission]
  /\ ScopeLists \subseteq SUBSET Permission
  /\ CidrLists \subseteq SUBSET Address \cup {AnyAddress}
  /\ Forged \notin Credential
  /\ Nobody \notin Account \cup Credential \cup {Forged}

VARIABLES accounts,   \* committed service_accounts.status
          issued,     \* committed service_account_credentials
          revoked,    \* those with revoked_at
          expired,    \* those whose expires_at has passed
          bindings,   \* role_bindings of service accounts, as <<account, role>>
          known,      \* credentials whose token somebody has received
          calls       \* the requests

vars == <<accounts, issued, revoked, expired, bindings, known, calls>>

-----------------------------------------------------------------------------
Unissued == [account |-> Nobody, scopes |-> {}, cidrs |-> AnyAddress]

CredentialRow == [account : Account,
                  scopes  : SUBSET Permission,
                  cidrs   : SUBSET Address \cup {AnyAddress}]

Op == {"none", "disable", "issue", "revoke", "authenticate"}

\* status, credentials, commit: disable_account; insert: issue_credential has its
\* snapshot; update: revoke_credential; select, touch: authenticate.
Pc == {"idle", "status", "credentials", "commit", "read", "insert", "update", "select",
       "touch", "done"}

Answer == {"none", "ok", "false", "missing", "in", "invalid", "unavailable"}

\* targets: rows that disable_account has updated.  got: the permissions that
\* authenticate has computed.  barred: history, an earlier answer rules this call out.
CallState == [op      : Op,
              org     : Org \cup {NoOrg},
              account : Account \cup {Nobody},
              token   : Credential \cup {Forged, Nobody},
              address : Address \cup {AnyAddress},
              pc      : Pc,
              targets : SUBSET Credential,
              matched : Credential \cup {Nobody},
              got     : SUBSET Permission,
              barred  : BOOLEAN,
              answer  : Answer]

Idle == [op |-> "none", org |-> NoOrg, account |-> Nobody, token |-> Nobody,
         address |-> AnyAddress, pc |-> "idle", targets |-> {}, matched |-> Nobody,
         got |-> {}, barred |-> FALSE, answer |-> "none"]

InFlight(c) == calls[c].pc \notin {"idle", "done"}

Goes(c, pc) == calls' = [calls EXCEPT ![c].pc = pc]

Answers(c, answer) == calls' = [calls EXCEPT ![c].pc = "done", ![c].answer = answer]

\* What a statement has committed stays when the answer does not arrive.
AnswersOrIsLost(c, answer) == Answers(c, answer) \/ Answers(c, "unavailable")

CredentialsOf(a) == {k \in Credential : issued[k].account = a}

\* c found the row it names: the id and the organization both match.
Finds(c) == OrgOf[calls[c].account] = calls[c].org

\* Mutant: the account's row is free again once its credentials are updated.
AccountLockedBriefly(c, a) ==
  \E d \in Call \ {c} : calls[d].pc = "credentials" /\ calls[d].account = a

\* The rows that a transaction other than c has updated and not committed.
AccountLocked(c, a) ==
  \E d \in Call \ {c} : calls[d].pc \in {"credentials", "commit"} /\ calls[d].account = a

CredentialLocked(c, k) ==
  \E d \in Call \ {c} : calls[d].pc = "commit" /\ k \in calls[d].targets

-----------------------------------------------------------------------------
(* Requests. *)

\* Somebody has been told that the credential is revoked or its account disabled.
RuledOut(a, k) ==
  \E d \in Call :
    /\ calls[d].answer \in {"ok", "false"} /\ Finds(d)
    /\ \/ calls[d].op = "disable" /\ calls[d].account = a
       \/ calls[d].op = "revoke" /\ calls[d].token = k /\ calls[d].account = issued[k].account

Opens(c, op, org, a, k, address, pc, barred) ==
  /\ calls[c].pc = "idle"
  /\ calls' = [calls EXCEPT ![c] =
       [op |-> op, org |-> org, account |-> a, token |-> k, address |-> address, pc |-> pc,
        targets |-> {}, matched |-> Nobody, got |-> {}, barred |-> barred, answer |-> "none"]]
  /\ UNCHANGED <<accounts, issued, revoked, expired, bindings, known>>

\* The id of an account is known once the account exists.
PresentDisable(c, org, a) ==
  /\ accounts[a] # "none"
  /\ Opens(c, "disable", org, a, Nobody, AnyAddress, "status", FALSE)

PresentIssue(c, org, a) ==
  /\ accounts[a] # "none"
  /\ Opens(c, "issue", org, a, Nobody, AnyAddress, "read", RuledOut(a, Nobody))

PresentRevoke(c, org, a, k) ==
  /\ k \in known
  /\ accounts[a] # "none"
  /\ Opens(c, "revoke", org, a, k, AnyAddress, "update", FALSE)

PresentToken(c, token, address) ==
  /\ token \in known \cup {Forged}
  /\ Opens(c, "authenticate", NoOrg, Nobody, token, address, "select",
           \/ token = Forged
           \/ token \in expired
           \/ token \in known /\ RuledOut(issued[token].account, token))

-----------------------------------------------------------------------------
(* Accounts and roles. *)

\* create_account; the name is unique in the organization.
CreateAccount(a) ==
  /\ accounts[a] = "none"
  /\ accounts' = [accounts EXCEPT ![a] = "active"]
  /\ UNCHANGED <<issued, revoked, expired, bindings, known, calls>>

\* validate_role_binding_scope: a global role or one of the binding's organization, and
\* an account of that organization.
ScopeIsValid(org, a, r) == RoleOrg[r] \in {NoOrg, org} /\ OrgOf[a] = org

\* bind_role, also of a disabled account; the site is not looked at again.
BindRole(org, a, r) ==
  /\ accounts[a] # "none"
  /\ ScopeIsValid(org, a, r)
  /\ bindings' = bindings \cup {<<a, r>>}
  /\ UNCHANGED <<accounts, issued, revoked, expired, known, calls>>

\* Nothing in the repository takes a role away; an administrator deletes the row.
Unbind(a, r) ==
  /\ <<a, r>> \in bindings
  /\ bindings' = bindings \ {<<a, r>>}
  /\ UNCHANGED <<accounts, issued, revoked, expired, known, calls>>

\* disable_account: the UPDATE of the account, unless it finds none to update.
DisableStatus(c) ==
  /\ calls[c].pc = "status"
  /\ LET a == calls[c].account
     IN  /\ ~(Finds(c) /\ AccountLocked(c, a))
         /\ IF Finds(c) /\ accounts[a] = "active" THEN Goes(c, "credentials")
                                                  ELSE Answers(c, "false")
  /\ UNCHANGED <<accounts, issued, revoked, expired, bindings, known>>

\* The UPDATE of the credentials that are committed by now.
DisableCredentials(c) ==
  /\ calls[c].pc = "credentials"
  /\ calls' = [calls EXCEPT ![c].pc = "commit",
                            ![c].targets = CredentialsOf(calls[c].account)]
  /\ UNCHANGED <<accounts, issued, revoked, expired, bindings, known>>

DisableCommit(c) ==
  /\ calls[c].pc = "commit"
  /\ accounts' = [accounts EXCEPT ![calls[c].account] = "disabled"]
  /\ revoked' = revoked \cup calls[c].targets
  /\ AnswersOrIsLost(c, "ok")
  /\ UNCHANGED <<issued, expired, bindings, known>>

-----------------------------------------------------------------------------
(* Credentials. *)

MayIssue(c) == Finds(c) /\ accounts[calls[c].account] = "active"

\* issue_credential: the SELECT of its INSERT.
IssueRead(c) ==
  /\ calls[c].pc = "read"
  /\ IF MayIssue(c) THEN Goes(c, "insert") ELSE Answers(c, "missing")
  /\ UNCHANGED <<accounts, issued, revoked, expired, bindings, known>>

\* validate_scopes, before the statement: a request with others changes nothing.
ValidScopes == {scopes \in ScopeLists : scopes # {}}

\* The new row is committed.  Nobody has the token when the answer is lost.
IssueInsert(c) ==
  /\ calls[c].pc = "insert"
  /\ \E k \in Credential, scopes \in ValidScopes, cidrs \in CidrLists :
       /\ issued[k] = Unissued
       /\ issued' = [issued EXCEPT ![k] = [account |-> calls[c].account, scopes |-> scopes,
                                           cidrs |-> cidrs]]
       /\ \/ Answers(c, "ok") /\ known' = known \cup {k}
          \/ Answers(c, "unavailable") /\ UNCHANGED known
  /\ UNCHANGED <<accounts, revoked, expired, bindings>>

\* revoke_credential: one UPDATE, which waits for a disable_account that has the row.
Revoke(c) ==
  /\ calls[c].pc = "update"
  /\ LET k == calls[c].token
         finds == Finds(c) /\ issued[k].account = calls[c].account
     IN  /\ ~(finds /\ k \notin revoked /\ CredentialLocked(c, k))
         /\ IF finds /\ k \notin revoked
            THEN revoked' = revoked \cup {k} /\ AnswersOrIsLost(c, "ok")
            ELSE Answers(c, "false") /\ UNCHANGED revoked
  /\ UNCHANGED <<accounts, issued, expired, bindings, known>>

\* Mutant: only the credential is looked at, as disabling revokes all of them.
LivesByItself(k) == k \notin revoked \cup expired

\* The WHERE of authenticate, its address test left out.
Lives(k) ==
  /\ issued[k] # Unissued /\ accounts[issued[k].account] = "active"
  /\ k \notin revoked \cup expired

Admits(k, address) == issued[k].cidrs = AnyAddress \/ address \in issued[k].cidrs

\* Mutant: a prefix that several live credentials share is refused.
MatchesUnambiguous(c) ==
  LET rows == {k \in Credential : Lives(k) /\ Admits(k, calls[c].address)}
  IN  IF Cardinality(rows) = 1 THEN rows \cap {calls[c].token} ELSE {}

\* The rows that authenticate reads and whose hash is the token's.
Matches(c) ==
  {k \in Credential : Lives(k) /\ Admits(k, calls[c].address) /\ k = calls[c].token}

RolePermissions(a) == UNION {Grants[r] : r \in {r \in Role : <<a, r>> \in bindings}}

\* intersect_permissions.
Effective(k) == issued[k].scopes \cap RolePermissions(issued[k].account)

\* authenticate: one SELECT reads the credential, the account and the permissions.
AuthenticateSelect(c) ==
  /\ calls[c].pc = "select"
  /\ IF Matches(c) = {}
     THEN Answers(c, "invalid")
     ELSE \E k \in Matches(c) :
            calls' = [calls EXCEPT ![c].pc = "touch", ![c].matched = k,
                                   ![c].got = Effective(k)]
  /\ UNCHANGED <<accounts, issued, revoked, expired, bindings, known>>

\* The UPDATE of last_used_at, whatever has become of the row, and the answer.
AuthenticateTouch(c) ==
  /\ calls[c].pc = "touch"
  /\ ~CredentialLocked(c, calls[c].matched)
  /\ Answers(c, "in")
  /\ UNCHANGED <<accounts, issued, revoked, expired, bindings, known>>

-----------------------------------------------------------------------------
\* A statement fails or its connection is lost; what has not been committed is undone.
Abort(c) ==
  /\ InFlight(c)
  /\ Answers(c, "unavailable")
  /\ UNCHANGED <<accounts, issued, revoked, expired, bindings, known>>

\* The clock passes expires_at.
Expire(k) ==
  /\ issued[k] # Unissued
  /\ k \notin expired
  /\ expired' = expired \cup {k}
  /\ UNCHANGED <<accounts, issued, revoked, bindings, known, calls>>

Init ==
  /\ accounts = [a \in Account |-> "none"]
  /\ issued = [k \in Credential |-> Unissued]
  /\ revoked = {}
  /\ expired = {}
  /\ bindings = {}
  /\ known = {}
  /\ calls = [c \in Call |-> Idle]

Present(c) ==
  \/ \E org \in Org, a \in Account : PresentDisable(c, org, a) \/ PresentIssue(c, org, a)
  \/ \E org \in Org, a \in Account, k \in Credential : PresentRevoke(c, org, a, k)
  \/ \E k \in Credential \cup {Forged}, address \in Address : PresentToken(c, k, address)

Step(c) ==
  \/ DisableStatus(c) \/ DisableCredentials(c) \/ DisableCommit(c)
  \/ IssueRead(c) \/ IssueInsert(c) \/ Revoke(c)
  \/ AuthenticateSelect(c) \/ AuthenticateTouch(c)

Next ==
  \/ \E a \in Account : CreateAccount(a)
  \/ \E org \in Org, a \in Account, r \in Role : BindRole(org, a, r)
  \/ \E a \in Account, r \in Role : Unbind(a, r)
  \/ \E k \in Credential : Expire(k)
  \/ \E c \in Call : Present(c) \/ Step(c) \/ Abort(c)

Spec == Init /\ [][Next]_vars

-----------------------------------------------------------------------------
(* Properties. *)

\* Every variable has its shape; nothing is revoked, expired or known that has not been
\* issued, and what disable_account is about to commit is the end of an active account.
TypeOK ==
  /\ accounts \in [Account -> {"none", "active", "disabled"}]
  /\ issued \in [Credential -> CredentialRow \cup {Unissued}]
  /\ revoked \cup expired \cup known \subseteq {k \in Credential : issued[k] # Unissued}
  /\ bindings \subseteq Account \X Role
  /\ calls \in [Call -> CallState]
  /\ \A c \in Call :
       calls[c].pc \in {"credentials", "commit"} => accounts[calls[c].account] = "active"

\* A no is final: a request that begins after somebody was told that the credential is
\* revoked or the account disabled, or after its expiry, neither gets in nor gets a new
\* credential.  It holds although issue_credential can commit a credential that the
\* disabling has not seen: authenticate asks for the account's status too.
NoIsFinal == \A c \in Call : calls[c].barred => calls[c].answer \notin {"in", "ok"}

\* What authenticate answers is right both ways.  A token that is turned away is worth
\* nothing: rotation with overlapping credentials never locks out the holder of one that is
\* neither revoked nor expired.  Who gets in is the account of the presented token, from an
\* address of its list, with no more than the token's scopes and what roles of its own
\* organization or global ones grant (intersect_permissions, validate_role_binding_scope).
AuthenticateIsExact ==
  \A c \in Call :
    LET k == calls[c].matched
        own == {r \in Role : RoleOrg[r] \in {NoOrg, OrgOf[issued[k].account]}}
    IN  /\ calls[c].answer = "invalid" =>
             \/ calls[c].token = Forged
             \/ ~Lives(calls[c].token)
             \/ ~Admits(calls[c].token, calls[c].address)
        /\ calls[c].answer = "in" =>
             /\ k = calls[c].token /\ Admits(k, calls[c].address)
             /\ calls[c].got \subseteq issued[k].scopes \cap UNION {Grants[r] : r \in own}
=============================================================================
