---------------------------- MODULE MCDecisions ----------------------------
(* What the rules are asked about in small instances: Decisions for TLC. *)
EXTENDS Decisions

CONSTANTS s1, s2, p, q

MCId == {"plan1", "plan2", "org1", "org2", s1, s2, "devices.read", "devices.update",
         "devices.delete", "vrf1", "vrf2", "site1", "site2", "n1", "n2"}

PlanOf(id) == [id |-> id, target |-> p, input |-> p, provider |-> p, work |-> p]

Changes ==
  {[kind |-> "change", plan |-> PlanOf(id), results |-> <<>>,
    approval |-> [plan |-> PlanOf("plan1"), expires |-> expires]] :
     id \in {"plan1", "plan2"}, expires \in {0, 2}}

Trials ==
  {[kind |-> "trial", last |-> "read", usage |-> [device |-> 0, site |-> 1, admin |-> 0],
    license |-> [converted |-> FALSE, expires |-> 3, allowed |-> allowed,
                 limit |-> [device |-> 2, site |-> 1, admin |-> 0]]] :
     allowed \in {{"read"}, {"low_risk", "critical"}}}

Tokens ==
  {[kind |-> "token", claims |-> [iat |-> iat, nbf |-> nbf, exp |-> exp]] :
     iat \in -1..4, nbf \in 0..4, exp \in 1..7}

Scopes == [org : {"org1", "org2"}, site : {s1, s2, NoSite}]

Requested ==
  {[kind |-> "scopes", sites |-> {s1, s2}, permission |-> "devices.read", requested |-> r,
    grants |-> {[permission |-> permission, scope |-> scope],
                [permission |-> "devices.update", scope |-> [org |-> "org1", site |-> NoSite]]}] :
     r \in Scopes, scope \in Scopes, permission \in {"devices.read", "devices.delete"}}

Prefixes == [scope : {"vrf1", "vrf2"}, family : {4, 6}, address : 0..(2^Width - 1),
             length : 0..Width]

PrefixPairs ==
  {[kind |-> "prefixes", left |-> l, right |-> r] :
     l \in {l \in Prefixes : l.scope = "vrf1"}, r \in Prefixes}

Devices == [scope : {"site1", "site2"}, life : DeviceLifecycle,
            ids : SUBSET {<<"serial", "n1">>, <<"mac", "n2">>, <<"hostname", "n1">>}]

DevicePairs ==
  {[kind |-> "devices", left |-> l, right |-> r] :
     l \in {l \in Devices : l.scope = "site1" /\ Cardinality(l.ids) = 2}, r \in Devices}

Probes ==
  {[kind |-> "probe", request |-> [kind |-> kind, interface |-> interface, port |-> port,
                                   sameScope |-> sameScope, timeout |-> timeout],
    bearer |-> bearer, allowPublic |-> allowPublic, pc |-> "body", began |-> -1, due |-> 0,
    answer |-> "none"] :
     kind \in AddressKind, interface \in BOOLEAN, port \in {0, 443}, sameScope \in BOOLEAN,
     timeout \in {0, 2, 9}, bearer \in BOOLEAN, allowPublic \in BOOLEAN}

MCSubject == Changes \cup Trials \cup Tokens \cup Requested \cup PrefixPairs \cup DevicePairs
               \cup Probes
=============================================================================
