----------------------------- MODULE Decisions -----------------------------
(***************************************************************************)
(* DomainRules beside what changes between two calls of a rule: the clock  *)
(* ticks, plans are edited, targets answer one by one, a trial is used and *)
(* converted; and the site runtime's handler tcp_connect, which waits for  *)
(* its request, for the network and for two timeouts.                      *)
(*                                                                         *)
(* subject is one thing about which a rule is asked.  Nothing in the       *)
(* repository calls the rules of changes, trials and prefixes yet; the     *)
(* properties say what a caller can rely on.                               *)
(***************************************************************************)
EXTENDS DomainRules, FiniteSets

CONSTANTS Subject,     \* what the rules are asked about, at first
          Id,          \* what is only compared: ids, names of permissions, identifiers
          Limit,       \* the timeout of the whole request to the runtime
          Window,      \* expiring_window_ms
          NoSite,      \* of a scope: the whole organization
          Fingerprint, \* of targets, inputs and provider versions
          MaxTargets,  \* bound on the targets of a change
          MaxUsage,    \* bound on what a trial uses of one kind
          Horizon      \* bound on the clock

ASSUME DecisionsAssumption ==
  /\ {Limit, Window, MaxTargets, MaxUsage, Horizon} \subseteq Nat
  /\ MaxTimeout < Limit
  /\ Limit <= Horizon

-----------------------------------------------------------------------------
(* What a subject looks like. *)

Plan == [id : Id, target : Fingerprint, input : Fingerprint, provider : Fingerprint,
         work : Fingerprint]

TargetResult == [outcome : Outcome, confirmed : BOOLEAN]

Change == [kind : {"change"}, plan : Plan, approval : [plan : Plan, expires : Int],
           results : Seq(TargetResult)]

Counts == [device : Nat, site : Nat, admin : Nat]

License == [converted : BOOLEAN, expires : Int, limit : Counts,
            allowed : SUBSET {"read", "low_risk", "critical"}]

Trial == [kind : {"trial"}, last : Mutation \cup {"read"}, usage : Counts, license : License]

Token == [kind : {"token"}, claims : [iat : Int, nbf : Int, exp : Int]]

Scope == [org : Id, site : Id \cup {NoSite}]

\* A request with the sites of its organization and the grants of the one who asks.
AccessRequest == [kind : {"scopes"}, sites : SUBSET Id, permission : Id, requested : Scope,
                  grants : SUBSET [permission : Id, scope : Scope]]

Prefix == [scope : Id, family : {4, 6}, address : 0..(2^Width - 1), length : 0..Width]

PrefixPair == [kind : {"prefixes"}, left : Prefix, right : Prefix]

Device == [scope : Id, life : DeviceLifecycle, ids : SUBSET ((Strong \cup Weak) \X Id)]

DevicePair == [kind : {"devices"}, left : Device, right : Device]

TcpConnectRequest == [kind : AddressKind, interface : BOOLEAN, port : Nat,
                      sameScope : BOOLEAN, timeout : Nat]

Probe == [kind : {"probe"}, request : TcpConnectRequest, bearer : BOOLEAN,
          allowPublic : BOOLEAN, pc : {"body", "connecting", "done"},
          began : Int, due : Int,
          answer : {"none", "malformed", "unauthorized", "invalid", "denied", "succeeded",
                    "failed", "timeout", "408"}]

Shape == Change \cup Trial \cup Token \cup AccessRequest \cup PrefixPair \cup DevicePair
           \cup Probe

\* At first no target has answered, a trial is within its limits, what is requested is in the
\* organization, and a probe is waiting for its body.
ASSUME SubjectAssumption ==
  \A s \in Subject :
    /\ s \in Shape
    /\ s.kind = "change" => s.results = <<>>
    /\ s.kind = "trial" => \A a \in DOMAIN s.usage : s.usage[a] <= s.license.limit[a]
    /\ s.kind = "scopes" => s.requested.site \in s.sites \cup {NoSite}
    /\ s.kind = "probe" => s.pc = "body" /\ s.began < 0 /\ s.answer = "none"

VARIABLES subject, now

vars == <<subject, now>>

-----------------------------------------------------------------------------
Is(kind) == subject.kind = kind

\* A timer of the runtime that has run out fires before the clock goes on.
TimerDue ==
  /\ Is("probe") /\ subject.pc # "done"
  /\ now >= Limit \/ (subject.pc = "connecting" /\ now >= subject.due)

Tick ==
  /\ subject.kind \in {"change", "trial", "token", "probe"}
  /\ now < Horizon
  /\ ~TimerDue
  /\ now' = now + 1
  /\ UNCHANGED subject

-----------------------------------------------------------------------------
(* A change and its approval, which has a copy of the plan. *)

EditPlan ==
  /\ Is("change")
  /\ \E field \in {"target", "input", "provider", "work"}, f \in Fingerprint :
       /\ subject.plan[field] # f
       /\ subject' = [subject EXCEPT !.plan[field] = f]
  /\ UNCHANGED now

TargetAnswers ==
  /\ Is("change")
  /\ Len(subject.results) < MaxTargets
  /\ \E outcome \in Outcome, confirmed \in BOOLEAN :
       subject' = [subject EXCEPT !.results =
                     Append(@, [outcome |-> outcome, confirmed |-> confirmed])]
  /\ UNCHANGED now

-----------------------------------------------------------------------------
(* A trial: a caller that asks first and then does what was allowed.  After a conversion *)
(* nothing but MaxUsage limits it. *)

Use(action) ==
  /\ Is("trial")
  /\ Decide(subject.license, action, subject.usage, now) = "allow"
  /\ IF action \in DOMAIN subject.usage
     THEN /\ subject.usage[action] < MaxUsage
          /\ subject' = [subject EXCEPT !.usage[action] = @ + 1, !.last = action]
     ELSE subject' = [subject EXCEPT !.last = action]
  /\ UNCHANGED now

Convert ==
  /\ Is("trial")
  /\ subject' = [subject EXCEPT !.license.converted = TRUE]
  /\ UNCHANGED now

-----------------------------------------------------------------------------
(* The handler tcp_connect of the site runtime. *)

Answers(answer) ==
  /\ subject' = [subject EXCEPT !.pc = "done", !.answer = answer]
  /\ UNCHANGED now

\* The body is in.  The extractor comes first, then the token, the request, the policy.
BodyArrives ==
  /\ Is("probe") /\ subject.pc = "body"
  /\ \/ Answers("malformed")
     \/ ~subject.bearer /\ Answers("unauthorized")
     \/ subject.bearer /\ ~RequestIsValid(subject.request) /\ Answers("invalid")
     \/ /\ subject.bearer /\ RequestIsValid(subject.request)
        /\ ~Allows(subject.allowPublic, subject.request.kind)
        /\ Answers("denied")
     \/ /\ subject.bearer /\ RequestIsValid(subject.request)
        /\ Allows(subject.allowPublic, subject.request.kind)
        /\ subject' = [subject EXCEPT !.pc = "connecting", !.began = now,
                                      !.due = now + Timeout(subject.request)]
        /\ UNCHANGED now

\* The connection is made or refused.
ConnectEnds ==
  /\ Is("probe") /\ subject.pc = "connecting"
  /\ Answers("succeeded") \/ Answers("failed")

ConnectTimesOut ==
  /\ Is("probe") /\ subject.pc = "connecting"
  /\ now >= subject.due
  /\ Answers("timeout")

\* The TimeoutLayer drops the handler.
RequestTimesOut ==
  /\ Is("probe") /\ subject.pc # "done"
  /\ now >= Limit
  /\ Answers("408")

-----------------------------------------------------------------------------
Init ==
  /\ subject \in Subject
  /\ now = 0

Next ==
  \/ Tick
  \/ EditPlan \/ TargetAnswers
  \/ \E action \in Mutation \cup {"read"} : Use(action)
  \/ Convert
  \/ BodyArrives \/ ConnectEnds \/ ConnectTimesOut \/ RequestTimesOut

Spec == Init /\ [][Next]_vars

-----------------------------------------------------------------------------
(* Properties. *)

\* A change is not called a success as long as one target is not confirmed to be one, nor
\* a failure after a success somewhere (summarize_targets, test
\* unconfirmed_remote_state_never_becomes_success).
SummaryIsHonest ==
  LET results == subject.results
      Confirmed(outcome) == {i \in DOMAIN results : results[i] = [outcome |-> outcome,
                                                                  confirmed |-> TRUE]}
  IN  /\ Summary(results) = "succeeded" => /\ Confirmed("succeeded") = DOMAIN results
                                           /\ results # <<>>
      /\ Summary(results) = "failed" => Confirmed("failed") = DOMAIN results

\* A trial that only does what it is allowed never has more of anything than its policy
\* says, and after its end it only reads (decide).
TrialKeepsItsLimits ==
  subject.license.converted
    \/ \A a \in DOMAIN subject.usage : subject.usage[a] <= subject.license.limit[a]

\* A token is good from its issue, on a clock that is late by no more than the skew, until
\* its end; never when it is older than the lifetime that tokens may have, and never when
\* it was issued further in the future than the skew (encode_access_token,
\* decode_access_token).
TokensHaveTheirTime ==
  LET claims == subject.claims
  IN  /\ Decodes(claims, now) => /\ now < claims.exp
                                 /\ now - claims.iat < MaxLifetime
                                 /\ claims.iat - now <= Skew
      /\ LifetimeIsValid(claims) /\ claims.nbf = claims.iat
           => (Decodes(claims, now) <=> now \in (claims.iat - Skew)..(claims.exp - 1))

\* A scope stands for what lies in it: its sites and, if it is all of it, the organization.
Extent(scope, sites) ==
  {scope.org} \X IF scope.site = NoSite THEN sites \cup {NoSite} ELSE {scope.site}

\* A grant reaches a request where everything requested lies in the granted scope
\* (ResourceScope::contains, authorize).
GrantsReachWhatTheyContain ==
  Authorized(subject.grants, subject.permission, subject.requested, NoSite) <=>
    \E grant \in subject.grants :
      /\ grant.permission = subject.permission
      /\ Extent(subject.requested, subject.sites) \subseteq Extent(grant.scope, subject.sites)

\* The addresses of a prefix.
AddressesOf(prefix) ==
  {<<prefix.family, a>> : a \in {a \in 0..(2^Width - 1) :
     a \div 2^(Width - prefix.length) = prefix.address \div 2^(Width - prefix.length)}}

\* Prefixes conflict where they have an address in common in one routing domain, whichever
\* is asked first and whatever host bits they were written with (prefixes_conflict).
ConflictMeansCommonAddress ==
  LET l == subject.left
      r == subject.right
  IN  PrefixesConflict(l, r) <=> /\ l.scope = r.scope
                                 /\ AddressesOf(l) \cap AddressesOf(r) # {}

\* Two devices are merged without a person only while both are in service and a strong
\* identifier names both, and it does not matter which one is asked (decide_merge).
MergeIsSafe ==
  LET l == subject.left
      r == subject.right
  IN  /\ DecideMerge(l, r) = DecideMerge(r, l)
      /\ DecideMerge(l, r) = "same" =>
           /\ l.scope = r.scope
           /\ \E i \in l.ids \cap r.ids : i[1] \notin Weak
           /\ {l.life, r.life} \cap OutOfService = {}

\* The runtime dials only for a caller with its token, in the caller's scope and where the
\* policy lets it; every request has an answer when its time is over, and one that came in
\* soon enough has the verdict of the probe, not a 408 that leaves open whether there was
\* one (tcp_connect, TcpConnectRequest::timeout against the TimeoutLayer).
ProbesAreBounded ==
  /\ subject.pc = "connecting" =>
       /\ subject.bearer /\ subject.request.sameScope /\ subject.request.port # 0
       /\ subject.request.kind \notin {"unspecified", "multicast"}
       /\ subject.request.kind = "public" => subject.allowPublic
       /\ subject.due - now <= MaxTimeout
  /\ now > Limit => subject.pc = "done"
  /\ subject.answer = "408" /\ subject.began >= 0 => subject.began >= Limit - MaxTimeout

\* Every rule decides as its users must expect.
RulesAreExact ==
  CASE Is("change")   -> SummaryIsHonest
    [] Is("trial")    -> TrialKeepsItsLimits
    [] Is("token")    -> TokensHaveTheirTime
    [] Is("scopes")   -> GrantsReachWhatTheyContain
    [] Is("prefixes") -> ConflictMeansCommonAddress
    [] Is("devices")  -> MergeIsSafe
    [] Is("probe")    -> ProbesAreBounded

Approved == IsValidFor(subject.approval, subject.plan, now)

\* How far a trial has come.
Age == CASE EffectiveState(subject.license, now, Window) = "active"    -> 0
         [] EffectiveState(subject.license, now, Window) = "expiring"  -> 1
         [] EffectiveState(subject.license, now, Window) = "expired"   -> 2
         [] EffectiveState(subject.license, now, Window) = "converted" -> 3

\* An approval that has lapsed stays so until the plan is edited again, and what runs under
\* it has the target, input and provider that were approved (is_valid_for).
ApprovalsLapse ==
  /\ ~Approved /\ Approved' => subject'.plan # subject.plan
  /\ Approved' => subject'.plan = [subject.approval.plan EXCEPT !.work = subject'.plan.work]

\* Another target's answer never settles what is unknown and never makes a partial success
\* whole (summarize_targets).
SummariesGetNoBetter ==
  /\ Summary(subject.results) = "unknown" => Summary(subject'.results) = "unknown"
  /\ Summary(subject'.results) = "succeeded" =>
       subject.results = <<>> \/ Summary(subject.results) = "succeeded"

\* A trial does not get younger, and once it has expired it only reads (decide).
TrialsAge ==
  /\ Age <= Age'
  /\ Age = 2 => subject'.usage = subject.usage /\ subject'.last \in {subject.last, "read"}

\* What has been decided against does not come back by itself, whatever the caller does in
\* between; and a token that decodes goes on to do so until its end.
NoDecisionComesBack ==
  [][/\ Is("change") => ApprovalsLapse /\ SummariesGetNoBetter
     /\ Is("trial") => TrialsAge
     /\ Is("token") /\ Decodes(subject.claims, now) =>
          Decodes(subject.claims, now') \/ now' = subject.claims.exp]_vars
=============================================================================
