---------------------------- MODULE DomainRules ----------------------------
(***************************************************************************)
(* The rules of crates/domain, of crates/security/src/{rbac,token}.rs and  *)
(* of the network executor: functions of what they are given, the clock    *)
(* included.  They keep no state; Decisions puts them beside things that   *)
(* change between two calls.                                               *)
(*                                                                         *)
(* Identifiers and fingerprints are values that are equal or not.  Times   *)
(* are integers; saturating arithmetic never saturates for the times and   *)
(* the window that are used here.                                          *)
(***************************************************************************)
EXTENDS Integers, Sequences, Lifecycle

CONSTANTS Skew,         \* ACCESS_TOKEN_CLOCK_SKEW_SECONDS
          MaxLifetime,  \* ACCESS_TOKEN_MAX_LIFETIME_SECONDS
          Width,        \* bits of an address
          MinTimeout, MaxTimeout  \* what TcpConnectRequest::timeout clamps to

ASSUME RulesAssumption ==
  /\ {Skew, MaxLifetime, Width, MinTimeout, MaxTimeout} \subseteq Nat
  /\ MinTimeout <= MaxTimeout

\* What a power of two is, for the sizes of prefixes.  It holds whatever Width is and is an
\* assumption only because the provers know nothing of ^.
ASSUME PowersAssumption == 2^0 = 1 /\ \A n \in 0..Width : 2^(n + 1) = 2 * 2^n

-----------------------------------------------------------------------------
(* Changes: change_control.rs. *)

Outcome == {"succeeded", "failed", "rolled_back", "unknown", "not_attempted"}

\* Mutant: a change may run as long as its approval is for the same plan.
IsValidForId(approval, plan, now) == approval.plan.id = plan.id /\ now < approval.expires

\* The approval has a copy of the plan as it was.  Of a plan, work stands for its action,
\* risk and dry_run, which are not compared.
IsValidFor(approval, plan, now) ==
  /\ approval.plan.id = plan.id
  /\ approval.plan.target = plan.target
  /\ approval.plan.input = plan.input
  /\ approval.plan.provider = plan.provider
  /\ now < approval.expires

\* Mutant: what has not been confirmed counts as what it says.
UnsettledIfUnknown(result) == result.outcome = "unknown"

Unsettled(result) == result.outcome = "unknown" \/ ~result.confirmed

\* results in the order in which the targets answered.
Summary(results) ==
  LET All(outcome) == \A i \in DOMAIN results : results[i].outcome = outcome
  IN  IF results = <<>> THEN "failed"
      ELSE IF \E i \in DOMAIN results : Unsettled(results[i]) THEN "unknown"
      ELSE IF All("succeeded") THEN "succeeded"
      ELSE IF All("failed") THEN "failed"
      ELSE "partially_succeeded"

-----------------------------------------------------------------------------
(* Trials: trial.rs. *)

Mutation == {"low_risk", "critical", "device", "site", "admin"}

EffectiveState(license, now, window) ==
  IF license.converted THEN "converted"
  ELSE IF now >= license.expires THEN "expired"
  ELSE IF now >= license.expires - window THEN "expiring"
  ELSE "active"

BelowLimit(license, usage, action) == usage[action] < license.limit[action]

Decide(license, action, usage, now) ==
  IF EffectiveState(license, now, 0) = "converted" THEN "allow"
  ELSE IF now >= license.expires
       THEN IF action = "read" THEN "allow" ELSE "deny_expired"
  ELSE IF action \in {"read", "low_risk", "critical"}
       THEN IF action \in license.allowed THEN "allow" ELSE "deny_policy"
  ELSE IF BelowLimit(license, usage, action) THEN "allow" ELSE "deny_limit"

-----------------------------------------------------------------------------
(* Access tokens: token.rs, the signature and the encoding left out. *)

\* validate_claim_lifetime.
LifetimeIsValid(claims) ==
  /\ claims.iat >= 0
  /\ claims.nbf >= claims.iat - Skew
  /\ claims.exp > claims.nbf
  /\ claims.exp > claims.iat
  /\ claims.exp - claims.iat <= MaxLifetime

Timely(claims, now) ==
  /\ claims.exp > now
  /\ claims.nbf <= now + Skew
  /\ claims.iat <= now + Skew

\* decode_access_token, of a genuine token.
Decodes(claims, now) == LifetimeIsValid(claims) /\ Timely(claims, now)

-----------------------------------------------------------------------------
(* Permissions: rbac.rs. *)

\* ResourceScope::contains; a scope without a site is the whole organization.
Contains(scope, requested, NoSite) ==
  scope.org = requested.org /\ scope.site \in {NoSite, requested.site}

Authorized(grants, permission, requested, NoSite) ==
  \E grant \in grants :
    grant.permission = permission /\ Contains(grant.scope, requested, NoSite)

-----------------------------------------------------------------------------
(* Addresses and prefixes: ipam.rs. *)

Size(prefix) == 2^(Width - prefix.length)

\* IpNet::network; a prefix keeps the host bits it was written with.
Network(prefix) == prefix.address - (prefix.address % Size(prefix))

\* IpNet::contains, of an address.
Covers(prefix, family, address) ==
  /\ prefix.family = family
  /\ Network(prefix) <= address
  /\ address < Network(prefix) + Size(prefix)

Overlap(left, right) ==
  \/ Covers(left, right.family, Network(right))
  \/ Covers(right, left.family, Network(left))

\* prefixes_conflict.
PrefixesConflict(left, right) == left.scope = right.scope /\ Overlap(left, right)

-----------------------------------------------------------------------------
(* Devices found twice: inventory.rs. *)

Strong == {"serial", "mac", "snmp_engine_id", "provider_native_id"}
Weak == {"hostname", "asset_tag"}

\* An identifier is a pair of kind and value.
Share(left, right, kinds) == \E i \in left.ids \cap right.ids : i[1] \in kinds

InService(left, right) == {left.life, right.life} \cap OutOfService = {}

\* can_auto_merge_with.
CanAutoMerge(left, right) ==
  left.scope = right.scope /\ Share(left, right, Strong) /\ InService(left, right)

DecideMerge(left, right) ==
  IF CanAutoMerge(left, right) THEN "same"
  ELSE IF left.scope = right.scope /\ Share(left, right, Weak) THEN "review"
  ELSE "different"

-----------------------------------------------------------------------------
(* Probes: domain/src/lib.rs and executor-core. *)

\* Kinds of IP addresses that the rules tell apart.
AddressKind == {"unspecified", "multicast", "private", "loopback", "link_local4",
                "link_local6", "public"}

\* ScopedIpTarget::validate.
TargetIsValid(request) ==
  /\ request.kind \notin {"unspecified", "multicast"}
  /\ request.kind = "link_local6" => request.interface

\* TcpConnectRequest::validate.
RequestIsValid(request) ==
  /\ TargetIsValid(request)
  /\ request.port > 0
  /\ request.sameScope

\* NetworkPolicy::allows.
Allows(allowPublic, kind) ==
  IF allowPublic THEN kind \notin {"unspecified", "multicast"}
                 ELSE kind \in {"private", "loopback", "link_local4", "link_local6"}

\* TcpConnectRequest::timeout.
Timeout(request) ==
  IF request.timeout < MinTimeout THEN MinTimeout
  ELSE IF request.timeout > MaxTimeout THEN MaxTimeout
  ELSE request.timeout
=============================================================================
