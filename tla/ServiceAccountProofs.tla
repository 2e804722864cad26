------------------------ MODULE ServiceAccountProofs ------------------------
(***************************************************************************)
(* Theorems about ServiceAccount, for any number of accounts, credentials  *)
(* and requests: a no is final, and what authenticate answers is right.    *)
(***************************************************************************)
EXTENDS ServiceAccount, TLAPS

-----------------------------------------------------------------------------
(* The inductive invariant. *)

\* The statements of each operation.
StatementsOf(op) ==
  CASE op = "none"         -> {"idle"}
    [] op = "disable"      -> {"status", "credentials", "commit", "done"}
    [] op = "issue"        -> {"read", "insert", "done"}
    [] op = "revoke"       -> {"update", "done"}
    [] op = "authenticate" -> {"select", "touch", "done"}

\* A request names what exists, and is answered at its end.
NamesWhatExists(c) ==
  /\ calls[c].pc \in StatementsOf(calls[c].op)
  /\ calls[c].op \in {"disable", "issue", "revoke"} =>
       calls[c].account \in Account /\ accounts[calls[c].account] # "none"
  /\ calls[c].op = "revoke" => calls[c].token \in known
  /\ calls[c].op = "authenticate" => calls[c].token \in known \cup {Forged}
  /\ calls[c].pc # "done" => calls[c].answer = "none"

Disabling(c) == calls[c].pc \in {"credentials", "commit"}

\* A disabling that has updated the account has it locked.
DisablingInv(c) ==
  /\ Disabling(c) => Finds(c) /\ accounts[calls[c].account] = "active"
  /\ \A k \in calls[c].targets : issued[k] # Unissued

\* What somebody has been told stays so.
ToldInv(c) ==
  calls[c].answer \in {"ok", "false"} /\ Finds(c) =>
    /\ calls[c].op = "disable" => accounts[calls[c].account] = "disabled"
    /\ calls[c].op = "revoke" /\ calls[c].account = issued[calls[c].token].account =>
         calls[c].token \in revoked

\* A request that is ruled out stays before the statement that would let it in.
BarredInv(c) ==
  calls[c].barred =>
    \/ /\ calls[c].op = "issue" /\ calls[c].pc # "insert" /\ calls[c].answer # "ok"
       /\ accounts[calls[c].account] = "disabled"
    \/ /\ calls[c].op = "authenticate"
       /\ calls[c].pc # "touch" /\ calls[c].answer \notin {"in", "ok"}
       /\ calls[c].token = Forged \/ ~Lives(calls[c].token)

\* What the SELECT of authenticate has found.
FoundInv(c) ==
  LET k == calls[c].matched
      own == {r \in Role : RoleOrg[r] \in {NoOrg, OrgOf[issued[k].account]}}
  IN  calls[c].pc = "touch" \/ calls[c].answer = "in" =>
        /\ calls[c].op = "authenticate"
        /\ k \in Credential /\ issued[k] # Unissued
        /\ k = calls[c].token /\ Admits(k, calls[c].address)
        /\ calls[c].got \subseteq issued[k].scopes \cap UNION {Grants[r] : r \in own}

TurnedAwayInv(c) ==
  calls[c].answer = "invalid" =>
    /\ calls[c].op = "authenticate"
    /\ \/ calls[c].token = Forged
       \/ ~Lives(calls[c].token)
       \/ ~Admits(calls[c].token, calls[c].address)

CallInv(c) == /\ NamesWhatExists(c)
              /\ DisablingInv(c)
              /\ ToldInv(c)
              /\ BarredInv(c)
              /\ FoundInv(c)
              /\ TurnedAwayInv(c)

\* The lock of an account's row excludes.
OneDisabling ==
  \A c, d \in Call : Disabling(c) /\ Disabling(d) /\ calls[c].account = calls[d].account => c = d

RolesAreOwn ==
  \A a \in Account, r \in Role : <<a, r>> \in bindings => RoleOrg[r] \in {NoOrg, OrgOf[a]}

\* A credential belongs to an account that exists.
HasAccount ==
  \A k \in Credential : issued[k] # Unissued => accounts[issued[k].account] # "none"

IInv == /\ TypeOK
        /\ OneDisabling
        /\ HasAccount
        /\ RolesAreOwn
        /\ \A c \in Call : CallInv(c)

-----------------------------------------------------------------------------
(* Requests that a step does not touch. *)

\* Accounts are not enabled again, credentials do not change, and nothing is taken back.
RowsStay ==
  /\ \A a \in Account : accounts[a] # "none" =>
       accounts'[a] # "none" /\ (accounts'[a] = "active" => accounts[a] = "active")
  /\ \A k \in Credential : issued[k] # Unissued => issued'[k] = issued[k]
  /\ revoked \subseteq revoked'
  /\ expired \subseteq expired'
  /\ known \subseteq known'

\* The rows keep their shape.
RowsType ==
  /\ accounts \in [Account -> {"none", "active", "disabled"}]
  /\ issued \in [Credential -> CredentialRow \cup {Unissued}]
  /\ revoked \cup expired \cup known \subseteq {k \in Credential : issued[k] # Unissued}
  /\ bindings \subseteq Account \X Role

\* What has lost its worth does not regain it.
LEMMA LivesNoMore ==
  ASSUME RowsType, HasAccount, RowsStay, NEW k \in Credential, issued[k] # Unissued, ~Lives(k)
  PROVE  ~Lives(k)'
<1>1. issued'[k] = issued[k] /\ issued[k] \in CredentialRow
  BY DEF RowsType, RowsStay
<1>2. issued[k].account \in Account
  BY <1>1 DEF CredentialRow
<1>. QED  BY <1>1, <1>2 DEF Lives, HasAccount, RowsStay, RowsType

LEMMA UntouchedKeepsInv ==
  ASSUME IInv, RowsStay, RowsType', NEW c \in Call, calls'[c] = calls[c],
         Disabling(c) => accounts'[calls[c].account] = accounts[calls[c].account]
  PROVE  CallInv(c)'
<1>1. CallInv(c) /\ calls[c] \in CallState /\ RowsType
  BY DEF IInv, TypeOK, RowsType
<1>. HasAccount
  BY DEF IInv
<1>2. known \subseteq {k \in Credential : issued[k] # Unissued}
  BY <1>1 DEF RowsType
<1>3. NamesWhatExists(c)'
  BY <1>1 DEF CallInv, NamesWhatExists, RowsStay
<1>4. DisablingInv(c)'
  <2>1. calls[c].targets \subseteq Credential
    BY <1>1 DEF CallState
  <2>. QED  BY <1>1, <2>1 DEF CallInv, DisablingInv, Disabling, Finds, RowsStay
<1>5. ToldInv(c)'
  <2>. SUFFICES ASSUME calls[c].answer \in {"ok", "false"}, Finds(c)
                PROVE  /\ calls[c].op = "disable" => accounts'[calls[c].account] = "disabled"
                       /\ /\ calls[c].op = "revoke"
                          /\ calls[c].account = issued'[calls[c].token].account
                          => calls[c].token \in revoked'
    BY DEF ToldInv, Finds
  <2>1. calls[c].op = "disable" => accounts'[calls[c].account] = "disabled"
    BY <1>1 DEF CallInv, ToldInv, NamesWhatExists, RowsStay, RowsType
  <2>2. calls[c].op = "revoke" => issued'[calls[c].token] = issued[calls[c].token]
    BY <1>1, <1>2 DEF CallInv, NamesWhatExists, RowsStay
  <2>3. /\ calls[c].op = "revoke"
        /\ calls[c].account = issued'[calls[c].token].account
        => calls[c].token \in revoked'
    BY <1>1, <2>2 DEF CallInv, ToldInv, RowsStay
  <2>. QED  BY <2>1, <2>3
<1>6. calls[c].op = "authenticate" /\ calls[c].token # Forged =>
        calls[c].token \in Credential /\ issued[calls[c].token] # Unissued
  BY <1>1, <1>2 DEF CallInv, NamesWhatExists
<1>7. BarredInv(c)'
  <2>1. CASE calls[c].op = "issue"
    BY <1>1, <2>1 DEF CallInv, BarredInv, NamesWhatExists, RowsStay, RowsType
  <2>2. CASE calls[c].op = "authenticate"
    BY <1>1, <1>6, <2>2, LivesNoMore DEF CallInv, BarredInv
  <2>3. CASE calls[c].op \notin {"issue", "authenticate"}
    BY <1>1, <2>3 DEF CallInv, BarredInv
  <2>. QED  BY <2>1, <2>2, <2>3
<1>8. FoundInv(c)'
  BY <1>1 DEF CallInv, FoundInv, RowsStay, Admits
<1>9. TurnedAwayInv(c)'
  <2>. SUFFICES ASSUME calls[c].answer = "invalid", calls[c].token # Forged
                PROVE  /\ calls[c].op = "authenticate"
                       /\ ~Lives(calls[c].token)' \/ ~Admits(calls[c].token, calls[c].address)'
    BY <1>1 DEF CallInv, TurnedAwayInv
  <2>1. calls[c].op = "authenticate"
    BY <1>1 DEF CallInv, TurnedAwayInv
  <2>2. calls[c].token \in Credential /\ issued[calls[c].token] # Unissued
    BY <1>6, <2>1
  <2>3. issued'[calls[c].token] = issued[calls[c].token]
    BY <2>2 DEF RowsStay
  <2>4. CASE ~Lives(calls[c].token)
    BY <1>1, <2>1, <2>2, <2>4, LivesNoMore
  <2>5. CASE ~Admits(calls[c].token, calls[c].address)
    BY <2>1, <2>3, <2>5 DEF Admits
  <2>. QED  BY <1>1, <2>4, <2>5 DEF CallInv, TurnedAwayInv
<1>. QED  BY <1>3, <1>4, <1>5, <1>7, <1>8, <1>9 DEF CallInv

-----------------------------------------------------------------------------
(* Steps, by what they touch. *)

Rows == <<accounts, issued, revoked, expired, bindings, known>>

LEMMA RowsUnchanged ==
  ASSUME IInv, UNCHANGED Rows
  PROVE  RowsStay /\ RowsType' /\ HasAccount' /\ RolesAreOwn'
BY DEF IInv, TypeOK, Rows, RowsStay, RowsType, HasAccount, RolesAreOwn

\* A step that touches no request.
LEMMA QuietKeepsInv ==
  ASSUME IInv, RowsStay, RowsType', HasAccount', RolesAreOwn', UNCHANGED calls,
         \A c \in Call : Disabling(c) => accounts'[calls[c].account] = accounts[calls[c].account]
  PROVE  IInv'
<1>1. \A c \in Call : CallInv(c)'
  BY UntouchedKeepsInv
<1>2. TypeOK'
  BY <1>1 DEF IInv, TypeOK, RowsType, CallInv, DisablingInv, Disabling
<1>3. OneDisabling'
  BY DEF IInv, OneDisabling, Disabling
<1>. QED  BY <1>1, <1>2, <1>3 DEF IInv

\* A step that touches one request.
LEMMA CallKeepsInv ==
  ASSUME IInv, RowsStay, RowsType', HasAccount', RolesAreOwn',
         NEW c \in Call, NEW x \in CallState, calls' = [calls EXCEPT ![c] = x], CallInv(c)',
         \A q \in Call \ {c} :
           Disabling(q) => /\ accounts'[calls[q].account] = accounts[calls[q].account]
                           /\ x.pc \in {"credentials", "commit"} => calls[q].account # x.account
  PROVE  IInv'
<1>1. calls' \in [Call -> CallState] /\ calls'[c] = x
      /\ \A q \in Call \ {c} : calls'[q] = calls[q]
  BY DEF IInv, TypeOK
<1>2. \A q \in Call : CallInv(q)'
  BY <1>1, UntouchedKeepsInv
<1>3. TypeOK'
  BY <1>1, <1>2 DEF TypeOK, RowsType, CallInv, DisablingInv, Disabling
<1>4. OneDisabling'
  BY <1>1 DEF IInv, OneDisabling, Disabling
<1>. QED  BY <1>2, <1>3, <1>4 DEF IInv

\* The next statement of a request that is in flight, or its answer.
LEMMA StepKeepsInv ==
  ASSUME IInv, RowsStay, RowsType', HasAccount', RolesAreOwn',
         NEW c \in Call, NEW x \in CallState, calls' = [calls EXCEPT ![c] = x],
         x.op = calls[c].op, x.org = calls[c].org, x.account = calls[c].account,
         x.token = calls[c].token, x.address = calls[c].address, x.barred = calls[c].barred,
         x.pc \in StatementsOf(x.op), x.pc # "done" => x.answer = "none",
         \A q \in Call \ {c} :
           Disabling(q) => /\ accounts'[calls[q].account] = accounts[calls[q].account]
                           /\ x.pc \in {"credentials", "commit"} => calls[q].account # x.account,
         x.pc \in {"credentials", "commit"} => Finds(c) /\ accounts'[x.account] = "active",
         \A k \in x.targets : issued'[k] # Unissued,
         x.barred => x.pc \notin {"insert", "touch"} /\ x.answer \notin {"ok", "in"},
         ToldInv(c)', FoundInv(c)', TurnedAwayInv(c)'
  PROVE  IInv'
<1>1. calls'[c] = x /\ calls[c] \in CallState /\ RowsType /\ HasAccount
  BY DEF IInv, TypeOK, RowsType
<1>2. /\ calls[c].op \in {"disable", "issue", "revoke"} =>
           calls[c].account \in Account /\ accounts[calls[c].account] # "none"
      /\ calls[c].op = "revoke" => calls[c].token \in known
      /\ calls[c].op = "authenticate" => calls[c].token \in known \cup {Forged}
      /\ known \subseteq {k \in Credential : issued[k] # Unissued}
  BY <1>1 DEF IInv, CallInv, NamesWhatExists, RowsType
<1>3. NamesWhatExists(c)'
  BY <1>1, <1>2 DEF NamesWhatExists, RowsStay
<1>4. DisablingInv(c)'
  BY <1>1 DEF DisablingInv, Disabling, Finds
<1>5. BarredInv(c)'
  <2>. SUFFICES ASSUME calls[c].barred
                PROVE  BarredInv(c)'
    BY <1>1 DEF BarredInv
  <2>1. CASE calls[c].op = "issue"
    <3>1. accounts[calls[c].account] = "disabled"
      BY <2>1 DEF IInv, CallInv, BarredInv
    <3>2. accounts'[calls[c].account] = "disabled"
      BY <1>2, <2>1, <3>1 DEF RowsStay, RowsType
    <3>. QED  BY <1>1, <2>1, <3>2 DEF BarredInv
  <2>2. CASE calls[c].op = "authenticate"
    <3>1. calls[c].token = Forged \/ ~Lives(calls[c].token)
      BY <2>2 DEF IInv, CallInv, BarredInv
    <3>2. calls[c].token = Forged \/ ~Lives(calls[c].token)'
      BY <1>1, <1>2, <2>2, <3>1, LivesNoMore
    <3>3. ~Lives(calls[c].token)' => ~Lives(x.token)'
      OBVIOUS
    <3>. QED  BY <1>1, <2>2, <3>2, <3>3 DEF BarredInv
  <2>3. CASE calls[c].op \notin {"issue", "authenticate"}
    BY <2>3 DEF IInv, CallInv, BarredInv
  <2>. QED  BY <2>1, <2>2, <2>3
<1>6. CallInv(c)'
  BY <1>3, <1>4, <1>5 DEF CallInv
<1>. QED  BY <1>6, CallKeepsInv

-----------------------------------------------------------------------------
(* The steps of a request. *)

\* What is known of a request by the statement it is at.
LEMMA CallFacts ==
  ASSUME IInv, NEW c \in Call
  PROVE  /\ calls \in [Call -> CallState] /\ calls[c] \in CallState
         /\ calls[c].pc \in {"status", "credentials", "commit"} =>
              calls[c].op = "disable" /\ calls[c].account \in Account
         /\ calls[c].pc \in {"read", "insert"} =>
              calls[c].op = "issue" /\ calls[c].account \in Account
         /\ calls[c].pc = "update" =>
              /\ calls[c].op = "revoke" /\ calls[c].account \in Account
              /\ calls[c].token \in Credential /\ issued[calls[c].token] # Unissued
         /\ calls[c].pc \in {"select", "touch"} => calls[c].op = "authenticate"
         /\ InFlight(c) => calls[c].answer = "none" /\ "done" \in StatementsOf(calls[c].op)
         /\ known \subseteq {k \in Credential : issued[k] # Unissued}
<1>1. /\ calls \in [Call -> CallState] /\ calls[c] \in CallState
      /\ known \subseteq {k \in Credential : issued[k] # Unissued}
  BY DEF IInv, TypeOK
<1>2. NamesWhatExists(c)
  BY DEF IInv, CallInv
<1>3. calls[c].op \in {"none", "disable", "issue", "revoke", "authenticate"}
  BY <1>1 DEF CallState, Op
<1>. QED  BY <1>1, <1>2, <1>3 DEF NamesWhatExists, StatementsOf, InFlight

LEMMA GoesType ==
  ASSUME IInv, NEW c \in Call, NEW pc \in Pc, Goes(c, pc)
  PROVE  \E x \in CallState :
           /\ calls' = [calls EXCEPT ![c] = x] /\ calls'[c] = x
           /\ x.op = calls[c].op /\ x.org = calls[c].org /\ x.account = calls[c].account
           /\ x.token = calls[c].token /\ x.address = calls[c].address
           /\ x.barred = calls[c].barred /\ x.targets = calls[c].targets
           /\ x.matched = calls[c].matched /\ x.got = calls[c].got
           /\ x.pc = pc /\ x.answer = calls[c].answer
<1>. DEFINE x == [calls[c] EXCEPT !.pc = pc]
<1>1. calls[c] \in CallState /\ calls \in [Call -> CallState]
  BY DEF IInv, TypeOK
<1>2. /\ x \in CallState
      /\ x.op = calls[c].op /\ x.org = calls[c].org /\ x.account = calls[c].account
      /\ x.token = calls[c].token /\ x.address = calls[c].address
      /\ x.barred = calls[c].barred /\ x.targets = calls[c].targets
      /\ x.matched = calls[c].matched /\ x.got = calls[c].got
      /\ x.pc = pc /\ x.answer = calls[c].answer
  BY <1>1 DEF CallState
<1>3. calls' = [calls EXCEPT ![c] = x] /\ calls'[c] = x
  BY <1>1 DEF Goes
<1>. HIDE DEF x
<1>. QED  BY <1>2, <1>3

LEMMA AnswersType ==
  ASSUME IInv, NEW c \in Call, NEW a \in Answer, Answers(c, a)
  PROVE  \E x \in CallState :
           /\ calls' = [calls EXCEPT ![c] = x] /\ calls'[c] = x
           /\ x.op = calls[c].op /\ x.org = calls[c].org /\ x.account = calls[c].account
           /\ x.token = calls[c].token /\ x.address = calls[c].address
           /\ x.barred = calls[c].barred /\ x.targets = calls[c].targets
           /\ x.matched = calls[c].matched /\ x.got = calls[c].got
           /\ x.pc = "done" /\ x.answer = a
<1>. DEFINE x == [calls[c] EXCEPT !.pc = "done", !.answer = a]
<1>1. calls[c] \in CallState /\ calls \in [Call -> CallState]
  BY DEF IInv, TypeOK
<1>2. /\ x \in CallState
      /\ x.op = calls[c].op /\ x.org = calls[c].org /\ x.account = calls[c].account
      /\ x.token = calls[c].token /\ x.address = calls[c].address
      /\ x.barred = calls[c].barred /\ x.targets = calls[c].targets
      /\ x.matched = calls[c].matched /\ x.got = calls[c].got
      /\ x.pc = "done" /\ x.answer = a
  BY <1>1 DEF CallState, Pc
<1>3. calls' = [calls EXCEPT ![c] = x] /\ calls'[c] = x
  BY <1>1 DEF Answers
<1>. HIDE DEF x
<1>. QED  BY <1>2, <1>3

\* An answer that is true.
LEMMA AnswersKeepsInv ==
  ASSUME IInv, RowsStay, RowsType', HasAccount', RolesAreOwn',
         NEW c \in Call, InFlight(c), NEW a \in Answer, Answers(c, a),
         \A q \in Call \ {c} :
           Disabling(q) => accounts'[calls[q].account] = accounts[calls[q].account],
         a \in {"ok", "false"} /\ Finds(c) =>
           /\ calls[c].op = "disable" => accounts'[calls[c].account] = "disabled"
           /\ calls[c].op = "revoke" /\ calls[c].account = issued'[calls[c].token].account =>
                calls[c].token \in revoked',
         calls[c].barred => a \notin {"ok", "in"},
         a = "in" => calls[c].pc = "touch",
         a = "invalid" => /\ calls[c].op = "authenticate" /\ UNCHANGED Rows
                          /\ \/ calls[c].token = Forged
                             \/ ~Lives(calls[c].token)
                             \/ ~Admits(calls[c].token, calls[c].address)
  PROVE  IInv'
<1>1. PICK x \in CallState :
        /\ calls' = [calls EXCEPT ![c] = x] /\ calls'[c] = x
        /\ x.op = calls[c].op /\ x.org = calls[c].org /\ x.account = calls[c].account
        /\ x.token = calls[c].token /\ x.address = calls[c].address
        /\ x.barred = calls[c].barred /\ x.targets = calls[c].targets
        /\ x.matched = calls[c].matched /\ x.got = calls[c].got
        /\ x.pc = "done" /\ x.answer = a
  BY AnswersType
<1>2. x.pc \in StatementsOf(x.op)
  BY <1>1, CallFacts
<1>3. \A k \in x.targets : issued'[k] # Unissued
  <2>1. x.targets \subseteq Credential
    BY DEF CallState
  <2>2. \A k \in calls[c].targets : issued[k] # Unissued
    BY DEF IInv, CallInv, DisablingInv
  <2>. QED  BY <1>1, <2>1, <2>2 DEF RowsStay
<1>4. ToldInv(c)'
  BY <1>1 DEF ToldInv, Finds
<1>5. FoundInv(c)'
  <2>. SUFFICES ASSUME a = "in"
                PROVE  FoundInv(c)'
    BY <1>1 DEF FoundInv
  <2>1. FoundInv(c)
    BY DEF IInv, CallInv
  <2>. QED  BY <1>1, <2>1 DEF FoundInv, Admits, RowsStay
<1>6. TurnedAwayInv(c)'
  <2>. SUFFICES ASSUME a = "invalid"
                PROVE  TurnedAwayInv(c)'
    BY <1>1 DEF TurnedAwayInv
  <2>. QED  BY <1>1 DEF TurnedAwayInv, Rows, Lives, Admits
<1>. QED  BY <1>1, <1>2, <1>3, <1>4, <1>5, <1>6, StepKeepsInv

\* An answer that says nothing, also after what the statement has done is committed.
LEMMA PlainAnswerKeepsInv ==
  ASSUME IInv, RowsStay, RowsType', HasAccount', RolesAreOwn',
         NEW c \in Call, InFlight(c), NEW a \in {"missing", "unavailable"}, Answers(c, a),
         \A q \in Call \ {c} :
           Disabling(q) => accounts'[calls[q].account] = accounts[calls[q].account]
  PROVE  IInv'
<1>1. a \in Answer
  BY DEF Answer
<1>. QED  BY <1>1, AnswersKeepsInv

LEMMA AbortKeepsInv ==
  ASSUME IInv, NEW c \in Call, Abort(c)
  PROVE  IInv'
<1>1. UNCHANGED Rows /\ InFlight(c) /\ Answers(c, "unavailable")
  BY DEF Abort, Rows
<1>2. accounts' = accounts
  BY <1>1 DEF Rows
<1>3. PICK a \in {"missing", "unavailable"} : a = "unavailable"
  OBVIOUS
<1>. QED  BY <1>1, <1>2, <1>3, RowsUnchanged, PlainAnswerKeepsInv

-----------------------------------------------------------------------------
(* A request is presented. *)

\* What an earlier answer has ruled out.
LEMMA RuledOutMeans ==
  ASSUME IInv, NEW a, NEW k, RuledOut(a, k)
  PROVE  accounts[a] = "disabled" \/ k \in revoked
<1>1. PICK d \in Call :
        /\ calls[d].answer \in {"ok", "false"} /\ Finds(d)
        /\ \/ calls[d].op = "disable" /\ calls[d].account = a
           \/ calls[d].op = "revoke" /\ calls[d].token = k /\ calls[d].account = issued[k].account
  BY DEF RuledOut
<1>. QED  BY <1>1 DEF IInv, CallInv, ToldInv

LEMMA OpensKeepsInv ==
  ASSUME IInv, NEW c \in Call,
         NEW op \in {"disable", "issue", "revoke", "authenticate"},
         NEW org \in Org \cup {NoOrg}, NEW a \in Account \cup {Nobody},
         NEW k \in Credential \cup {Forged, Nobody}, NEW address \in Address \cup {AnyAddress},
         NEW pc \in {"status", "read", "update", "select"}, NEW barred \in BOOLEAN,
         Opens(c, op, org, a, k, address, pc, barred), pc \in StatementsOf(op),
         op # "authenticate" => a \in Account /\ accounts[a] # "none",
         op = "revoke" => k \in known,
         op = "authenticate" => k \in known \cup {Forged},
         barred => \/ op = "issue" /\ accounts[a] = "disabled"
                   \/ op = "authenticate" /\ (k = Forged \/ ~Lives(k))
  PROVE  IInv'
<1>. DEFINE x == [op |-> op, org |-> org, account |-> a, token |-> k, address |-> address,
                  pc |-> pc, targets |-> {}, matched |-> Nobody, got |-> {},
                  barred |-> barred, answer |-> "none"]
<1>1. UNCHANGED Rows
  BY DEF Opens, Rows
<1>2. calls' = [calls EXCEPT ![c] = x]
  BY DEF Opens
<1>3. x \in CallState
  BY DEF CallState, Op, Pc, Answer
<1>4. calls'[c] = x
  BY <1>2, CallFacts
<1>5. NamesWhatExists(c)'
  <2>1. calls'[c].op = op /\ calls'[c].pc = pc /\ calls'[c].account = a
        /\ calls'[c].token = k /\ calls'[c].answer = "none"
    BY <1>4
  <2>. HIDE DEF x
  <2>. QED  BY <1>1, <2>1 DEF NamesWhatExists, Rows
<1>6. DisablingInv(c)' /\ ToldInv(c)' /\ FoundInv(c)' /\ TurnedAwayInv(c)'
  BY <1>4 DEF DisablingInv, Disabling, ToldInv, FoundInv, TurnedAwayInv
<1>7. BarredInv(c)'
  <2>. SUFFICES ASSUME barred
                PROVE  BarredInv(c)'
    BY <1>4 DEF BarredInv
  <2>1. CASE op = "issue" /\ accounts[a] = "disabled"
    BY <1>1, <1>4, <2>1 DEF BarredInv, Rows
  <2>2. CASE op = "authenticate" /\ (k = Forged \/ ~Lives(k))
    BY <1>1, <1>4, <2>2 DEF BarredInv, Lives, Rows
  <2>. QED  BY <2>1, <2>2
<1>8. CallInv(c)'
  BY <1>5, <1>6, <1>7 DEF CallInv
<1>9. x.pc \notin {"credentials", "commit"} /\ accounts' = accounts
  BY <1>1 DEF Rows
<1>. HIDE DEF x
<1>. QED  BY <1>1, <1>2, <1>3, <1>8, <1>9, RowsUnchanged, CallKeepsInv

LEMMA PresentKeepsInv ==
  ASSUME IInv, NEW c \in Call, Present(c)
  PROVE  IInv'
<1>1. ASSUME NEW org \in Org, NEW a \in Account, PresentDisable(c, org, a)
      PROVE  IInv'
  <2>1. PICK op \in {"disable", "issue", "revoke", "authenticate"},
             pc \in {"status", "read", "update", "select"}, barred \in BOOLEAN :
          op = "disable" /\ pc = "status" /\ barred = FALSE
    OBVIOUS
  <2>2. Opens(c, op, org, a, Nobody, AnyAddress, pc, barred) /\ accounts[a] # "none"
    BY <1>1, <2>1 DEF PresentDisable
  <2>3. pc \in StatementsOf(op) /\ ~barred /\ op \notin {"revoke", "authenticate"}
    BY <2>1 DEF StatementsOf
  <2>. QED  BY <2>2, <2>3, OpensKeepsInv
<1>2. ASSUME NEW org \in Org, NEW a \in Account, PresentIssue(c, org, a)
      PROVE  IInv'
  <2>1. PICK op \in {"disable", "issue", "revoke", "authenticate"},
             pc \in {"status", "read", "update", "select"} :
          op = "issue" /\ pc = "read"
    OBVIOUS
  <2>. DEFINE barred == RuledOut(a, Nobody)
  <2>2. Opens(c, op, org, a, Nobody, AnyAddress, pc, barred) /\ accounts[a] # "none"
    BY <1>2, <2>1 DEF PresentIssue
  <2>3. pc \in StatementsOf(op)
    BY <2>1 DEF StatementsOf
  <2>4. barred => accounts[a] = "disabled"
    <3>1. Nobody \notin revoked
      BY ServiceAccountAssumption DEF ServiceAccountAssumption, IInv, TypeOK
    <3>. QED  BY <3>1, RuledOutMeans
  <2>5. barred \in BOOLEAN
    BY DEF RuledOut
  <2>. HIDE DEF barred
  <2>. QED  BY <2>1, <2>2, <2>3, <2>4, <2>5, OpensKeepsInv
<1>3. ASSUME NEW org \in Org, NEW a \in Account, NEW k \in Credential, PresentRevoke(c, org, a, k)
      PROVE  IInv'
  <2>1. PICK op \in {"disable", "issue", "revoke", "authenticate"},
             pc \in {"status", "read", "update", "select"}, barred \in BOOLEAN :
          op = "revoke" /\ pc = "update" /\ barred = FALSE
    OBVIOUS
  <2>2. Opens(c, op, org, a, k, AnyAddress, pc, barred) /\ accounts[a] # "none" /\ k \in known
    BY <1>3, <2>1 DEF PresentRevoke
  <2>3. pc \in StatementsOf(op) /\ ~barred /\ op # "authenticate"
    BY <2>1 DEF StatementsOf
  <2>. QED  BY <2>2, <2>3, OpensKeepsInv
<1>4. ASSUME NEW k \in Credential \cup {Forged}, NEW address \in Address,
             PresentToken(c, k, address)
      PROVE  IInv'
  <2>1. PICK op \in {"disable", "issue", "revoke", "authenticate"},
             pc \in {"status", "read", "update", "select"} :
          op = "authenticate" /\ pc = "select"
    OBVIOUS
  <2>. DEFINE barred == \/ k = Forged
                        \/ k \in expired
                        \/ k \in known /\ RuledOut(issued[k].account, k)
  <2>2. Opens(c, op, NoOrg, Nobody, k, address, pc, barred) /\ k \in known \cup {Forged}
    BY <1>4, <2>1 DEF PresentToken
  <2>3. pc \in StatementsOf(op)
    BY <2>1 DEF StatementsOf
  <2>4. barred => k = Forged \/ ~Lives(k)
    <3>1. k \in known /\ RuledOut(issued[k].account, k) =>
            accounts[issued[k].account] = "disabled" \/ k \in revoked
      BY RuledOutMeans
    <3>. QED  BY <3>1 DEF Lives
  <2>5. barred \in BOOLEAN
    OBVIOUS
  <2>. HIDE DEF barred
  <2>. QED  BY <2>1, <2>2, <2>3, <2>4, <2>5, OpensKeepsInv
<1>. QED  BY <1>1, <1>2, <1>3, <1>4 DEF Present

-----------------------------------------------------------------------------
(* The statements of disable_account. *)

LEMMA DisableStatusKeepsInv ==
  ASSUME IInv, NEW c \in Call, DisableStatus(c)
  PROVE  IInv'
<1>. DEFINE a == calls[c].account
<1>1. /\ calls[c].pc = "status" /\ InFlight(c) /\ UNCHANGED Rows
      /\ calls[c].op = "disable" /\ a \in Account /\ accounts[a] # "none"
      /\ accounts[a] \in {"none", "active", "disabled"}
  BY CallFacts DEF DisableStatus, Rows, InFlight, IInv, TypeOK, CallInv, NamesWhatExists
<1>2. RowsStay /\ RowsType' /\ HasAccount' /\ RolesAreOwn' /\ accounts' = accounts
  BY <1>1, RowsUnchanged DEF Rows
<1>3. CASE Finds(c) /\ accounts[a] = "active"
  <2>1. Goes(c, "credentials") /\ ~AccountLocked(c, a)
    BY <1>3 DEF DisableStatus
  <2>2. "credentials" \in Pc
    BY DEF Pc
  <2>3. PICK x \in CallState :
          /\ calls' = [calls EXCEPT ![c] = x] /\ calls'[c] = x
          /\ x.op = calls[c].op /\ x.org = calls[c].org /\ x.account = calls[c].account
          /\ x.token = calls[c].token /\ x.address = calls[c].address
          /\ x.barred = calls[c].barred /\ x.targets = calls[c].targets
          /\ x.matched = calls[c].matched /\ x.got = calls[c].got
          /\ x.pc = "credentials" /\ x.answer = calls[c].answer
    BY <2>1, <2>2, GoesType
  <2>4. x.answer = "none" /\ x.pc \in StatementsOf(x.op)
    BY <1>1, <2>3, CallFacts DEF StatementsOf
  <2>5. \A q \in Call \ {c} : Disabling(q) => calls[q].account # x.account
    BY <2>1, <2>3 DEF AccountLocked, Disabling
  <2>6. \A k \in x.targets : issued'[k] # Unissued
    BY <1>1, <2>3 DEF IInv, CallInv, DisablingInv, Rows
  <2>7. ToldInv(c)' /\ FoundInv(c)' /\ TurnedAwayInv(c)'
    BY <2>3, <2>4 DEF ToldInv, FoundInv, TurnedAwayInv
  <2>. QED  BY <1>2, <1>3, <2>3, <2>4, <2>5, <2>6, <2>7, StepKeepsInv
<1>4. CASE ~(Finds(c) /\ accounts[a] = "active")
  <2>1. Answers(c, "false")
    BY <1>4 DEF DisableStatus
  <2>2. Finds(c) => accounts'[a] = "disabled"
    BY <1>1, <1>2, <1>4
  <2>3. PICK answer \in Answer : answer = "false"
    BY DEF Answer
  <2>. QED  BY <1>1, <1>2, <2>1, <2>2, <2>3, AnswersKeepsInv
<1>. QED  BY <1>3, <1>4

LEMMA DisableCredentialsKeepsInv ==
  ASSUME IInv, NEW c \in Call, DisableCredentials(c)
  PROVE  IInv'
<1>. DEFINE targets == CredentialsOf(calls[c].account)
            x == [calls[c] EXCEPT !.pc = "commit", !.targets = targets]
<1>1. /\ calls[c].pc = "credentials" /\ UNCHANGED Rows /\ calls[c].op = "disable"
      /\ calls[c].account \in Account /\ calls[c].answer = "none"
      /\ calls \in [Call -> CallState] /\ calls[c] \in CallState
  BY CallFacts DEF DisableCredentials, Rows, InFlight
<1>2. RowsStay /\ RowsType' /\ HasAccount' /\ RolesAreOwn' /\ accounts' = accounts
  BY <1>1, RowsUnchanged DEF Rows
<1>3. calls' = [calls EXCEPT ![c] = x]
  BY <1>1 DEF DisableCredentials
<1>4. targets \in SUBSET Credential
  BY DEF CredentialsOf
<1>5. \A k \in targets : issued'[k] # Unissued
  BY <1>1, ServiceAccountAssumption
     DEF CredentialsOf, Rows, Unissued, ServiceAccountAssumption
<1>. HIDE DEF targets
<1>6. /\ x \in CallState /\ x.op = calls[c].op /\ x.org = calls[c].org
      /\ x.account = calls[c].account
      /\ x.token = calls[c].token /\ x.address = calls[c].address
      /\ x.barred = calls[c].barred /\ x.targets = targets
      /\ x.pc = "commit" /\ x.answer = calls[c].answer
  BY <1>1, <1>4 DEF CallState, Pc
<1>. HIDE DEF x
<1>7. calls'[c] = x
  BY <1>1, <1>3
<1>8. Disabling(c) /\ Finds(c) /\ accounts[x.account] = "active"
  BY <1>1, <1>6 DEF Disabling, IInv, CallInv, DisablingInv
<1>9. \A q \in Call \ {c} : Disabling(q) => calls[q].account # x.account
  BY <1>6, <1>8 DEF IInv, OneDisabling
<1>10. ToldInv(c)' /\ FoundInv(c)' /\ TurnedAwayInv(c)'
  BY <1>1, <1>6, <1>7 DEF ToldInv, FoundInv, TurnedAwayInv
<1>11. x.pc \in StatementsOf(x.op)
  BY <1>1, <1>6 DEF StatementsOf
<1>. QED  BY <1>1, <1>2, <1>3, <1>5, <1>6, <1>8, <1>9, <1>10, <1>11, StepKeepsInv

LEMMA DisableCommitKeepsInv ==
  ASSUME IInv, NEW c \in Call, DisableCommit(c)
  PROVE  IInv'
<1>. DEFINE a == calls[c].account
<1>1. /\ calls[c].pc = "commit" /\ InFlight(c) /\ calls[c].op = "disable" /\ a \in Account
      /\ accounts' = [accounts EXCEPT ![a] = "disabled"]
      /\ revoked' = revoked \cup calls[c].targets
      /\ UNCHANGED <<issued, expired, bindings, known>>
  BY CallFacts DEF DisableCommit, InFlight
<1>2. /\ accounts \in [Account -> {"none", "active", "disabled"}]
      /\ calls[c].targets \subseteq {k \in Credential : issued[k] # Unissued}
  BY CallFacts DEF IInv, TypeOK, CallInv, DisablingInv, CallState
<1>3. RowsType'
  BY <1>1, <1>2 DEF IInv, TypeOK, RowsType
<1>4. RowsStay /\ HasAccount' /\ RolesAreOwn'
  BY <1>1, <1>2 DEF IInv, RowsStay, HasAccount, RolesAreOwn
<1>5. ASSUME NEW q \in Call \ {c}, Disabling(q)
      PROVE  accounts'[calls[q].account] = accounts[calls[q].account]
  <2>1. calls[q].account # a
    BY <1>1, <1>5 DEF IInv, OneDisabling, Disabling
  <2>2. calls[q].account \in Account
    BY <1>5, CallFacts DEF Disabling
  <2>. QED  BY <1>1, <1>2, <2>1, <2>2
<1>6. accounts'[a] = "disabled"
  BY <1>1, <1>2
<1>7. ~calls[c].barred
  BY <1>1 DEF IInv, CallInv, BarredInv
<1>8. CASE Answers(c, "ok")
  <2>1. PICK answer \in Answer : answer = "ok"
    BY DEF Answer
  <2>. QED  BY <1>1, <1>3, <1>4, <1>5, <1>6, <1>7, <1>8, <2>1, AnswersKeepsInv
<1>9. CASE Answers(c, "unavailable")
  <2>1. PICK answer \in {"missing", "unavailable"} : answer = "unavailable"
    OBVIOUS
  <2>. QED  BY <1>1, <1>3, <1>4, <1>5, <1>9, <2>1, PlainAnswerKeepsInv
<1>. QED  BY <1>8, <1>9 DEF DisableCommit, AnswersOrIsLost

-----------------------------------------------------------------------------
(* The statements of issue_credential and revoke_credential. *)

LEMMA IssueReadKeepsInv ==
  ASSUME IInv, NEW c \in Call, IssueRead(c)
  PROVE  IInv'
<1>1. /\ calls[c].pc = "read" /\ InFlight(c) /\ UNCHANGED Rows /\ calls[c].op = "issue"
      /\ calls[c].answer = "none"
  BY CallFacts DEF IssueRead, Rows, InFlight
<1>2. RowsStay /\ RowsType' /\ HasAccount' /\ RolesAreOwn' /\ accounts' = accounts
  BY <1>1, RowsUnchanged DEF Rows
<1>3. CASE MayIssue(c)
  <2>1. Goes(c, "insert") /\ "insert" \in Pc
    BY <1>3 DEF IssueRead, Pc
  <2>2. PICK x \in CallState :
          /\ calls' = [calls EXCEPT ![c] = x] /\ calls'[c] = x
          /\ x.op = calls[c].op /\ x.org = calls[c].org /\ x.account = calls[c].account
          /\ x.token = calls[c].token /\ x.address = calls[c].address
          /\ x.barred = calls[c].barred /\ x.targets = calls[c].targets
          /\ x.matched = calls[c].matched /\ x.got = calls[c].got
          /\ x.pc = "insert" /\ x.answer = calls[c].answer
    BY <2>1, GoesType
  <2>3. ~x.barred
    BY <1>1, <1>3, <2>2 DEF MayIssue, IInv, CallInv, BarredInv
  <2>4. x.pc \in StatementsOf(x.op)
    BY <1>1, <2>2 DEF StatementsOf
  <2>5. \A k \in x.targets : issued'[k] # Unissued
    BY <1>1, <2>2 DEF IInv, CallInv, DisablingInv, Rows
  <2>6. ToldInv(c)' /\ FoundInv(c)' /\ TurnedAwayInv(c)'
    BY <1>1, <2>2 DEF ToldInv, FoundInv, TurnedAwayInv
  <2>. QED  BY <1>1, <1>2, <2>2, <2>3, <2>4, <2>5, <2>6, StepKeepsInv
<1>4. CASE ~MayIssue(c)
  <2>1. PICK a \in {"missing", "unavailable"} : a = "missing"
    OBVIOUS
  <2>2. Answers(c, a)
    BY <1>4, <2>1 DEF IssueRead
  <2>. QED  BY <1>1, <1>2, <2>2, PlainAnswerKeepsInv
<1>. QED  BY <1>3, <1>4

LEMMA IssueInsertKeepsInv ==
  ASSUME IInv, NEW c \in Call, IssueInsert(c)
  PROVE  IInv'
<1>1. /\ calls[c].pc = "insert" /\ InFlight(c) /\ calls[c].op = "issue"
      /\ calls[c].account \in Account /\ accounts[calls[c].account] # "none"
      /\ UNCHANGED <<accounts, revoked, expired, bindings>>
  BY CallFacts DEF IssueInsert, InFlight, IInv, CallInv, NamesWhatExists
<1>2. PICK k \in Credential, scopes \in ValidScopes, cidrs \in CidrLists :
        /\ issued[k] = Unissued
        /\ issued' = [issued EXCEPT ![k] = [account |-> calls[c].account, scopes |-> scopes,
                                            cidrs |-> cidrs]]
        /\ \/ Answers(c, "ok") /\ known' = known \cup {k}
           \/ Answers(c, "unavailable") /\ UNCHANGED known
  BY DEF IssueInsert
<1>. DEFINE new == [account |-> calls[c].account, scopes |-> scopes, cidrs |-> cidrs]
<1>3. new \in CredentialRow /\ new # Unissued /\ new.account = calls[c].account
  BY <1>1, ServiceAccountAssumption
     DEF CredentialRow, ValidScopes, Unissued, ServiceAccountAssumption
<1>. HIDE DEF new
<1>4. RowsType
  BY DEF IInv, TypeOK, RowsType
<1>5. issued' = [issued EXCEPT ![k] = new]
  BY <1>2 DEF new
<1>6. RowsType'
  BY <1>1, <1>2, <1>3, <1>4, <1>5 DEF RowsType
<1>7. RowsStay
  BY <1>1, <1>2, <1>4, <1>5 DEF RowsStay, RowsType
<1>8. HasAccount' /\ RolesAreOwn'
  BY <1>1, <1>3, <1>4, <1>5 DEF RowsType, IInv, HasAccount, RolesAreOwn
<1>9. ~calls[c].barred
  BY <1>1 DEF IInv, CallInv, BarredInv
<1>10. CASE Answers(c, "ok")
  <2>1. PICK a \in Answer : a = "ok"
    BY DEF Answer
  <2>. QED  BY <1>1, <1>6, <1>7, <1>8, <1>9, <1>10, <2>1, AnswersKeepsInv
<1>11. CASE Answers(c, "unavailable")
  <2>1. PICK a \in {"missing", "unavailable"} : a = "unavailable"
    OBVIOUS
  <2>. QED  BY <1>1, <1>6, <1>7, <1>8, <1>11, <2>1, PlainAnswerKeepsInv
<1>. QED  BY <1>2, <1>10, <1>11

LEMMA RevokeKeepsInv ==
  ASSUME IInv, NEW c \in Call, Revoke(c)
  PROVE  IInv'
<1>. DEFINE k == calls[c].token
            finds == Finds(c) /\ issued[k].account = calls[c].account
<1>1. /\ calls[c].pc = "update" /\ InFlight(c) /\ calls[c].op = "revoke"
      /\ k \in Credential /\ issued[k] # Unissued
      /\ UNCHANGED <<accounts, issued, expired, bindings, known>>
  BY CallFacts DEF Revoke, InFlight
<1>2. revoked' = revoked \/ revoked' = revoked \cup {k}
  BY DEF Revoke
<1>3. RowsType'
  BY <1>1, <1>2 DEF IInv, TypeOK, RowsType
<1>4. RowsStay /\ HasAccount' /\ RolesAreOwn'
  BY <1>1, <1>2 DEF IInv, RowsStay, HasAccount, RolesAreOwn
<1>5. ~calls[c].barred
  BY <1>1 DEF IInv, CallInv, BarredInv
<1>6. ASSUME Finds(c), calls[c].account = issued'[k].account
      PROVE  k \in revoked'
  BY <1>1, <1>6 DEF Revoke
<1>7. CASE Answers(c, "unavailable")
  <2>1. PICK a \in {"missing", "unavailable"} : a = "unavailable"
    OBVIOUS
  <2>. QED  BY <1>1, <1>3, <1>4, <1>7, <2>1, PlainAnswerKeepsInv
<1>8. CASE \E a \in {"ok", "false"} : Answers(c, a)
  <2>1. PICK a \in {"ok", "false"} : Answers(c, a)
    BY <1>8
  <2>2. a \in Answer
    BY DEF Answer
  <2>. QED  BY <1>1, <1>3, <1>4, <1>5, <1>6, <2>1, <2>2, AnswersKeepsInv
<1>. QED  BY <1>7, <1>8 DEF Revoke, AnswersOrIsLost

-----------------------------------------------------------------------------
(* The statements of authenticate. *)

LEMMA AuthenticateSelectKeepsInv ==
  ASSUME IInv, NEW c \in Call, AuthenticateSelect(c)
  PROVE  IInv'
<1>1. /\ calls[c].pc = "select" /\ InFlight(c) /\ UNCHANGED Rows
      /\ calls[c].op = "authenticate" /\ calls[c].answer = "none"
      /\ calls \in [Call -> CallState] /\ calls[c] \in CallState
      /\ calls[c].token \in known \cup {Forged}
      /\ known \subseteq {k \in Credential : issued[k] # Unissued}
  BY CallFacts DEF AuthenticateSelect, Rows, InFlight, IInv, CallInv, NamesWhatExists
<1>2. RowsStay /\ RowsType' /\ HasAccount' /\ RolesAreOwn' /\ accounts' = accounts
  BY <1>1, RowsUnchanged DEF Rows
<1>3. CASE Matches(c) = {}
  <2>1. PICK a \in Answer : a = "invalid"
    BY DEF Answer
  <2>2. Answers(c, a)
    BY <1>3, <2>1 DEF AuthenticateSelect
  <2>3. \/ calls[c].token = Forged
        \/ ~Lives(calls[c].token)
        \/ ~Admits(calls[c].token, calls[c].address)
    BY <1>1, <1>3 DEF Matches
  <2>. QED  BY <1>1, <1>2, <2>1, <2>2, <2>3, AnswersKeepsInv
<1>4. CASE Matches(c) # {}
  <2>1. PICK k \in Matches(c) :
          calls' = [calls EXCEPT ![c].pc = "touch", ![c].matched = k, ![c].got = Effective(k)]
    BY <1>4 DEF AuthenticateSelect
  <2>2. k \in Credential /\ k = calls[c].token /\ Lives(k) /\ Admits(k, calls[c].address)
    BY DEF Matches
  <2>3. issued[k] \in CredentialRow /\ issued[k] # Unissued
    BY <2>2 DEF Lives, IInv, TypeOK
  <2>. DEFINE got == Effective(k)
              x == [calls[c] EXCEPT !.pc = "touch", !.matched = k, !.got = got]
              own == {r \in Role : RoleOrg[r] \in {NoOrg, OrgOf[issued[k].account]}}
  <2>4. got \in SUBSET Permission
    BY <2>3 DEF Effective, CredentialRow
  <2>5. got \subseteq issued[k].scopes \cap UNION {Grants[r] : r \in own}
    <3>1. \A r \in Role : <<issued[k].account, r>> \in bindings => r \in own
      BY <2>3 DEF IInv, RolesAreOwn, CredentialRow
    <3>. QED  BY <3>1 DEF Effective, RolePermissions
  <2>6. calls' = [calls EXCEPT ![c] = x]
    BY <1>1, <2>1
  <2>. HIDE DEF got
  <2>7. /\ x \in CallState /\ x.op = calls[c].op /\ x.org = calls[c].org
        /\ x.account = calls[c].account /\ x.token = calls[c].token
        /\ x.address = calls[c].address /\ x.barred = calls[c].barred
        /\ x.targets = calls[c].targets /\ x.matched = k /\ x.got = got
        /\ x.pc = "touch" /\ x.answer = calls[c].answer
    BY <1>1, <2>2, <2>4 DEF CallState, Pc
  <2>. HIDE DEF x
  <2>8. calls'[c] = x
    BY <1>1, <2>6
  <2>9. ~x.barred
    <3>1. k # Forged
      BY <2>2, ServiceAccountAssumption DEF ServiceAccountAssumption
    <3>. QED  BY <1>1, <2>2, <2>7, <3>1 DEF IInv, CallInv, BarredInv
  <2>10. FoundInv(c)'
    BY <1>1, <2>2, <2>3, <2>5, <2>7, <2>8 DEF FoundInv, Rows, Admits
  <2>11. ToldInv(c)' /\ TurnedAwayInv(c)'
    BY <1>1, <2>7, <2>8 DEF ToldInv, TurnedAwayInv
  <2>12. x.pc \in StatementsOf(x.op)
    BY <1>1, <2>7 DEF StatementsOf
  <2>13. \A t \in x.targets : issued'[t] # Unissued
    BY <1>1, <2>7 DEF IInv, CallInv, DisablingInv, Rows
  <2>. QED  BY <1>1, <1>2, <2>6, <2>7, <2>9, <2>10, <2>11, <2>12, <2>13, StepKeepsInv
<1>. QED  BY <1>3, <1>4

LEMMA AuthenticateTouchKeepsInv ==
  ASSUME IInv, NEW c \in Call, AuthenticateTouch(c)
  PROVE  IInv'
<1>1. /\ calls[c].pc = "touch" /\ InFlight(c) /\ UNCHANGED Rows
      /\ calls[c].op = "authenticate"
  BY CallFacts DEF AuthenticateTouch, Rows, InFlight
<1>2. RowsStay /\ RowsType' /\ HasAccount' /\ RolesAreOwn' /\ accounts' = accounts
  BY <1>1, RowsUnchanged DEF Rows
<1>3. ~calls[c].barred
  BY <1>1 DEF IInv, CallInv, BarredInv
<1>4. PICK a \in Answer : a = "in"
  BY DEF Answer
<1>5. Answers(c, a)
  BY <1>4 DEF AuthenticateTouch
<1>. QED  BY <1>1, <1>2, <1>3, <1>4, <1>5, AnswersKeepsInv

-----------------------------------------------------------------------------
(* Accounts, roles and the clock. *)

LEMMA WorldKeepsInv ==
  ASSUME IInv,
         \/ \E a \in Account : CreateAccount(a)
         \/ \E org \in Org, a \in Account, r \in Role : BindRole(org, a, r)
         \/ \E a \in Account, r \in Role : Unbind(a, r)
         \/ \E k \in Credential : Expire(k)
  PROVE  IInv'
<1>. RowsType /\ HasAccount /\ RolesAreOwn
  BY DEF IInv, TypeOK, RowsType
<1>1. ASSUME NEW a \in Account, CreateAccount(a)
      PROVE  IInv'
  <2>1. /\ accounts[a] = "none" /\ accounts' = [accounts EXCEPT ![a] = "active"]
        /\ UNCHANGED <<issued, revoked, expired, bindings, known, calls>>
    BY <1>1 DEF CreateAccount
  <2>2. RowsStay /\ RowsType' /\ HasAccount' /\ RolesAreOwn'
    BY <2>1 DEF RowsStay, RowsType, HasAccount, RolesAreOwn
  <2>3. ASSUME NEW c \in Call, Disabling(c)
        PROVE  accounts'[calls[c].account] = accounts[calls[c].account]
    <3>1. accounts[calls[c].account] = "active" /\ calls[c].account \in Account
      BY <2>3, CallFacts DEF IInv, CallInv, DisablingInv, Disabling
    <3>. QED  BY <2>1, <3>1 DEF RowsType
  <2>. QED  BY <2>1, <2>2, <2>3, QuietKeepsInv
<1>2. ASSUME NEW org \in Org, NEW a \in Account, NEW r \in Role, BindRole(org, a, r)
      PROVE  IInv'
  <2>1. /\ RoleOrg[r] \in {NoOrg, OrgOf[a]} /\ bindings' = bindings \cup {<<a, r>>}
        /\ UNCHANGED <<accounts, issued, revoked, expired, known, calls>>
    BY <1>2 DEF BindRole, ScopeIsValid
  <2>2. RowsStay /\ RowsType' /\ HasAccount' /\ RolesAreOwn'
    BY <2>1 DEF RowsStay, RowsType, HasAccount, RolesAreOwn
  <2>. QED  BY <2>1, <2>2, QuietKeepsInv
<1>3. ASSUME NEW a \in Account, NEW r \in Role, Unbind(a, r)
      PROVE  IInv'
  <2>1. /\ bindings' = bindings \ {<<a, r>>}
        /\ UNCHANGED <<accounts, issued, revoked, expired, known, calls>>
    BY <1>3 DEF Unbind
  <2>2. RowsStay /\ RowsType' /\ HasAccount' /\ RolesAreOwn'
    BY <2>1 DEF RowsStay, RowsType, HasAccount, RolesAreOwn
  <2>. QED  BY <2>1, <2>2, QuietKeepsInv
<1>4. ASSUME NEW k \in Credential, Expire(k)
      PROVE  IInv'
  <2>1. /\ issued[k] # Unissued /\ expired' = expired \cup {k}
        /\ UNCHANGED <<accounts, issued, revoked, bindings, known, calls>>
    BY <1>4 DEF Expire
  <2>2. RowsStay /\ RowsType' /\ HasAccount' /\ RolesAreOwn'
    BY <2>1 DEF RowsStay, RowsType, HasAccount, RolesAreOwn
  <2>. QED  BY <2>1, <2>2, QuietKeepsInv
<1>. QED  BY <1>1, <1>2, <1>3, <1>4

-----------------------------------------------------------------------------
(* The theorems. *)

LEMMA InitEstablishesInv ==
  ASSUME Init
  PROVE  IInv
<1>. USE DEF Init
<1>1. Idle \in CallState
  BY DEF Idle, CallState, Op, Pc, Answer
<1>2. \A c \in Call : calls[c] = Idle
  OBVIOUS
<1>3. /\ Idle.op = "none" /\ Idle.pc = "idle" /\ Idle.answer = "none" /\ ~Idle.barred
      /\ Idle.targets = {}
  BY DEF Idle
<1>4. TypeOK
  BY <1>1, <1>2, <1>3 DEF TypeOK
<1>5. \A c \in Call : CallInv(c)
  BY <1>2, <1>3 DEF CallInv, NamesWhatExists, StatementsOf, DisablingInv, Disabling, ToldInv,
                    BarredInv, FoundInv, TurnedAwayInv
<1>6. OneDisabling /\ HasAccount /\ RolesAreOwn
  BY <1>2, <1>3 DEF OneDisabling, Disabling, HasAccount, RolesAreOwn
<1>. QED  BY <1>4, <1>5, <1>6 DEF IInv

LEMMA NextKeepsInv ==
  ASSUME IInv, Next
  PROVE  IInv'
<1>1. ASSUME NEW c \in Call, Step(c)
      PROVE  IInv'
  BY <1>1, DisableStatusKeepsInv, DisableCredentialsKeepsInv, DisableCommitKeepsInv,
     IssueReadKeepsInv, IssueInsertKeepsInv, RevokeKeepsInv, AuthenticateSelectKeepsInv,
     AuthenticateTouchKeepsInv DEF Step
<1>2. ASSUME NEW c \in Call, Present(c) \/ Step(c) \/ Abort(c)
      PROVE  IInv'
  BY <1>1, <1>2, PresentKeepsInv, AbortKeepsInv
<1>. QED  BY <1>2, WorldKeepsInv DEF Next

LEMMA StutteringKeepsInv ==
  ASSUME IInv, UNCHANGED vars
  PROVE  IInv'
<1>1. UNCHANGED Rows /\ UNCHANGED calls
  BY DEF vars, Rows
<1>. QED  BY <1>1, RowsUnchanged, QuietKeepsInv DEF Rows

\* What the invariant says of every request stays true, whatever others do meanwhile
\* (crates/identity-store).
THEOREM Invariance == Spec => []IInv
<1>1. Init => IInv
  BY InitEstablishesInv
<1>2. IInv /\ [Next]_vars => IInv'
  BY NextKeepsInv, StutteringKeepsInv
<1>. QED  BY <1>1, <1>2, PTL DEF Spec

\* The tables keep their shape, and a disabling that has locked the account's row commits
\* the end of an active account (disable_account).
THEOREM TypeIsKept == Spec => []TypeOK
<1>1. IInv => TypeOK
  BY DEF IInv
<1>. QED  BY <1>1, Invariance, PTL

\* Who begins after somebody was told that the credential is revoked or its account is
\* disabled does not get in and is not issued a credential (disable_account,
\* revoke_credential, issue_credential, authenticate).
THEOREM ANoIsFinal == Spec => []NoIsFinal
<1>1. IInv => NoIsFinal
  <2>. SUFFICES ASSUME IInv, NEW c \in Call, calls[c].barred
                PROVE  calls[c].answer \notin {"in", "ok"}
    BY DEF NoIsFinal
  <2>1. CASE calls[c].op = "issue"
    <3>1. calls[c].answer # "in"
      BY <2>1 DEF IInv, CallInv, FoundInv
    <3>. QED  BY <2>1, <3>1 DEF IInv, CallInv, BarredInv
  <2>2. CASE calls[c].op = "authenticate"
    BY <2>2 DEF IInv, CallInv, BarredInv
  <2>3. CASE calls[c].op \notin {"issue", "authenticate"}
    BY <2>3 DEF IInv, CallInv, BarredInv
  <2>. QED  BY <2>1, <2>2, <2>3
<1>. QED  BY <1>1, Invariance, PTL

\* Nobody is turned away with a token that is worth something, and nobody gets in with more
\* than the token's scopes and the account's own roles allow (authenticate,
\* intersect_permissions, validate_role_binding_scope).
THEOREM AuthenticateDecidesRight == Spec => []AuthenticateIsExact
<1>1. IInv => AuthenticateIsExact
  BY DEF IInv, CallInv, FoundInv, TurnedAwayInv, AuthenticateIsExact
<1>. QED  BY <1>1, Invariance, PTL
=============================================================================
