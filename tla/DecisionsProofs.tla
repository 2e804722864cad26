-------------------------- MODULE DecisionsProofs --------------------------
(***************************************************************************)
(* Theorems about Decisions: every rule agrees with its reference          *)
(* definition for all subjects, and no decision comes back.                *)
(*                                                                         *)
(* Rules of one moment follow from the shape of their subject.  What       *)
(* happens in between matters to a trial in use and to a probe; for these  *)
(* IInv says what their steps rely on.                                     *)
(***************************************************************************)
EXTENDS Decisions, WellFoundedInduction, TLAPS

\* The two timers of a probe: until it has its answer neither of them is overdue, and a
\* connection is only tried for who may have it.
ProbeInv ==
  /\ subject.pc # "done" => subject.answer = "none" /\ now <= Limit
  /\ subject.pc = "body" => subject.began < 0
  /\ subject.pc = "connecting" =>
       /\ subject.bearer /\ RequestIsValid(subject.request)
       /\ Allows(subject.allowPublic, subject.request.kind)
       /\ subject.due <= subject.began + MaxTimeout
       /\ subject.began <= now /\ now <= subject.due
  /\ subject.answer = "408" /\ subject.began >= 0 => subject.began >= Limit - MaxTimeout

IInv ==
  /\ now \in Nat
  /\ subject \in Shape
  /\ Is("trial") => TrialKeepsItsLimits
  /\ Is("scopes") => subject.requested.site \in subject.sites \cup {NoSite}
  /\ Is("probe") => ProbeInv

-----------------------------------------------------------------------------
(* Which shape a subject has. *)

\* The kind of a subject tells its shape.
LEMMA KindTellsShape ==
  ASSUME NEW s \in Shape
  PROVE  /\ s.kind = "change" => s \in Change
         /\ s.kind = "trial" => s \in Trial
         /\ s.kind = "token" => s \in Token
         /\ s.kind = "scopes" => s \in AccessRequest
         /\ s.kind = "prefixes" => s \in PrefixPair
         /\ s.kind = "devices" => s \in DevicePair
         /\ s.kind = "probe" => s \in Probe
<1>1. s \in Change => s.kind = "change"
  BY DEF Change
<1>2. s \in Trial => s.kind = "trial"
  BY DEF Trial
<1>3. s \in Token => s.kind = "token"
  BY DEF Token
<1>4. s \in AccessRequest => s.kind = "scopes"
  BY DEF AccessRequest
<1>5. s \in PrefixPair => s.kind = "prefixes"
  BY DEF PrefixPair
<1>6. s \in DevicePair => s.kind = "devices"
  BY DEF DevicePair
<1>7. s \in Probe => s.kind = "probe"
  BY DEF Probe
<1> QED BY <1>1, <1>2, <1>3, <1>4, <1>5, <1>6, <1>7 DEF Shape

\* The constants of the rules are natural numbers.
LEMMA Numbers ==
  /\ Skew \in Nat /\ MaxLifetime \in Nat /\ Width \in Nat
  /\ MinTimeout \in Nat /\ MaxTimeout \in Nat /\ MinTimeout <= MaxTimeout
  /\ Limit \in Nat /\ Window \in Nat /\ Horizon \in Nat /\ MaxTimeout < Limit
BY RulesAssumption, DecisionsAssumption DEF RulesAssumption, DecisionsAssumption

-----------------------------------------------------------------------------
(* Rules of one moment. *)

\* What SummaryIsHonest says holds of any results (summarize_targets).
LEMMA SummaryHolds ==
  ASSUME subject \in Change
  PROVE  SummaryIsHonest
<1> DEFINE results == subject.results
           Confirmed(outcome) == {i \in DOMAIN results : results[i] = [outcome |-> outcome,
                                                                       confirmed |-> TRUE]}
<1>1. results \in Seq(TargetResult)
  BY DEF Change
<1>2. ASSUME NEW outcome \in Outcome, results # <<>>,
             \A i \in DOMAIN results : ~Unsettled(results[i]),
             \A i \in DOMAIN results : results[i].outcome = outcome
      PROVE  Confirmed(outcome) = DOMAIN results
  <2>1. ASSUME NEW i \in DOMAIN results
        PROVE  results[i] = [outcome |-> outcome, confirmed |-> TRUE]
    <3>1. results[i] \in TargetResult
      BY <1>1
    <3>2. results[i].outcome = outcome /\ ~Unsettled(results[i])
      BY <1>2
    <3>3. results[i].confirmed = TRUE
      BY <3>1, <3>2 DEF Unsettled, TargetResult
    <3> QED BY <3>1, <3>2, <3>3 DEF TargetResult
  <2> QED BY <2>1
<1>3. Summary(results) = "succeeded" =>
        /\ results # <<>> /\ \A i \in DOMAIN results : ~Unsettled(results[i])
        /\ \A i \in DOMAIN results : results[i].outcome = "succeeded"
  BY DEF Summary
<1>4. Summary(results) = "failed" =>
        \/ results = <<>>
        \/ /\ results # <<>> /\ \A i \in DOMAIN results : ~Unsettled(results[i])
           /\ \A i \in DOMAIN results : results[i].outcome = "failed"
  BY DEF Summary
<1>5. "succeeded" \in Outcome /\ "failed" \in Outcome
  BY DEF Outcome
<1>6. results = <<>> => Confirmed("failed") = DOMAIN results
  OBVIOUS
<1>7. Summary(results) = "succeeded" => Confirmed("succeeded") = DOMAIN results /\ results # <<>>
  BY <1>2, <1>3, <1>5
<1>8. Summary(results) = "failed" => Confirmed("failed") = DOMAIN results
  BY <1>2, <1>4, <1>5, <1>6
<1> QED BY <1>7, <1>8 DEF SummaryIsHonest

\* What TokensHaveTheirTime says holds of any claims and at any time (decode_access_token).
LEMMA TokensHold ==
  ASSUME subject \in Token, now \in Nat
  PROVE  TokensHaveTheirTime
<1> DEFINE claims == subject.claims
<1>1. claims.iat \in Int /\ claims.nbf \in Int /\ claims.exp \in Int
  BY DEF Token
<1> QED BY <1>1, Numbers DEF TokensHaveTheirTime, Decodes, LifetimeIsValid, Timely

\* What GrantsReachWhatTheyContain says holds of any request (ResourceScope::contains).
LEMMA GrantsHold ==
  ASSUME subject \in AccessRequest, subject.requested.site \in subject.sites \cup {NoSite}
  PROVE  GrantsReachWhatTheyContain
<1> DEFINE requested == subject.requested
           sites == subject.sites
           Mine == IF requested.site = NoSite THEN sites \cup {NoSite} ELSE {requested.site}
<1>1. Extent(requested, sites) = {requested.org} \X Mine
  BY DEF Extent
<1>2. requested.site \in Mine
  OBVIOUS
<1>3. ASSUME NEW grant \in subject.grants
      PROVE  Contains(grant.scope, requested, NoSite) <=>
               Extent(requested, sites) \subseteq Extent(grant.scope, sites)
  <2> DEFINE scope == grant.scope
             Its == IF scope.site = NoSite THEN sites \cup {NoSite} ELSE {scope.site}
  <2>1. Extent(scope, sites) = {scope.org} \X Its
    BY DEF Extent
  <2>2. {requested.org} \X Mine \subseteq {scope.org} \X Its <=>
          scope.org = requested.org /\ Mine \subseteq Its
    <3> HIDE DEF Mine, Its, requested, scope
    <3>1. ASSUME {requested.org} \X Mine \subseteq {scope.org} \X Its
          PROVE  scope.org = requested.org /\ Mine \subseteq Its
      <4>1. \A m \in Mine : <<requested.org, m>> \in {scope.org} \X Its
        BY <3>1
      <4> QED BY <1>2, <4>1
    <3> QED BY <3>1
  <2>3. Mine \subseteq Its <=> scope.site \in {NoSite, requested.site}
    <3>1. CASE scope.site = NoSite
      BY <3>1
    <3>2. CASE scope.site # NoSite
      <4>1. requested.site = NoSite => NoSite \in Mine
        OBVIOUS
      <4>2. CASE requested.site = NoSite
        BY <3>2, <4>1, <4>2
      <4>3. CASE requested.site # NoSite
        BY <3>2, <4>3
      <4> QED BY <4>2, <4>3
    <3> QED BY <3>1, <3>2
  <2> QED BY <1>1, <2>1, <2>2, <2>3 DEF Contains
<1> QED BY <1>3 DEF GrantsReachWhatTheyContain, Authorized

\* What MergeIsSafe says holds of any two devices (decide_merge).
LEMMA MergeHolds ==
  ASSUME subject \in DevicePair
  PROVE  MergeIsSafe
<1> DEFINE l == subject.left
           r == subject.right
<1>1. \A kinds : Share(l, r, kinds) <=> Share(r, l, kinds)
  BY DEF Share
<1>2. InService(l, r) <=> InService(r, l)
  BY DEF InService
<1>3. CanAutoMerge(l, r) <=> CanAutoMerge(r, l)
  BY <1>1, <1>2 DEF CanAutoMerge
<1>4. DecideMerge(l, r) = DecideMerge(r, l)
  BY <1>1, <1>3 DEF DecideMerge
<1>5. DecideMerge(l, r) = "same" => CanAutoMerge(l, r)
  BY DEF DecideMerge
<1>6. \A k \in Strong : k \notin Weak
  BY DEF Strong, Weak
<1>7. CanAutoMerge(l, r) => /\ l.scope = r.scope
                            /\ \E i \in l.ids \cap r.ids : i[1] \notin Weak
                            /\ {l.life, r.life} \cap OutOfService = {}
  BY <1>6 DEF CanAutoMerge, Share, InService
<1> QED BY <1>4, <1>5, <1>7 DEF MergeIsSafe

-----------------------------------------------------------------------------
(* Prefixes.  Sizes are powers of two, so the smaller of two sizes divides the larger, and  *)
(* two blocks of addresses are nested or apart.                                             *)

\* A set of natural numbers has a least element: what takes the place of an induction over
\* the length of a prefix.
LEMMA Least ==
  ASSUME NEW S, S \subseteq Nat, S # {}
  PROVE  \E n \in S : \A m \in S : n <= m
<1>1. PICK n \in S : \A m \in S : ~(<<m, n>> \in OpToRel(<, Nat))
  BY NatLessThanWellFounded, WFMin
<1>2. ASSUME NEW m \in S PROVE n <= m
  <2>1. m \in Nat /\ n \in Nat
    OBVIOUS
  <2>2. <<m, n>> \notin {ss \in Nat \X Nat : ss[1] < ss[2]}
    BY <1>1 DEF OpToRel
  <2> QED BY <2>1, <2>2
<1> QED BY <1>2

\* A power of two is positive.
LEMMA PowersArePositive == \A n \in 0..Width : 2^n \in Nat /\ 2^n >= 1
<1> DEFINE Bad == {n \in 0..Width : ~(2^n \in Nat /\ 2^n >= 1)}
<1>1. SUFFICES ASSUME Bad # {} PROVE FALSE
  OBVIOUS
<1>2. Bad \subseteq Nat
  BY Numbers
<1>3. PICK n \in Bad : \A m \in Bad : n <= m
  BY <1>1, <1>2, Least
<1>4. 0 \notin Bad
  BY PowersAssumption DEF PowersAssumption
<1>5. n \in 0..Width /\ n # 0
  BY <1>3, <1>4
<1>6. n - 1 \in 0..Width /\ n - 1 \notin Bad
  BY <1>3, <1>5, Numbers
<1>7. 2^(n - 1) \in Nat /\ 2^(n - 1) >= 1
  BY <1>6
<1>8. (n - 1) + 1 = n
  BY <1>5, Numbers
<1>9. 2^n = 2 * 2^(n - 1)
  BY <1>6, <1>8, PowersAssumption DEF PowersAssumption
<1> DEFINE a == 2^(n - 1)
           b == 2^n
<1>10. b = 2 * a /\ a \in Nat /\ a >= 1
  BY <1>7, <1>9
<1>11. b \in Nat /\ b >= 1
  <2> HIDE DEF a, b
  <2> QED BY <1>10
<1> QED BY <1>3, <1>11

\* A smaller power of two divides a larger one.
LEMMA PowersDivide ==
  ASSUME NEW i \in 0..Width, NEW j \in 0..Width, i <= j
  PROVE  \E k \in Nat : 2^j = 2^i * k
<1> DEFINE Divided(n) == \E k \in Nat : 2^n = 2^i * k
           Bad == {n \in i..Width : ~Divided(n)}
<1>1. SUFFICES ASSUME Bad # {} PROVE FALSE
  <2>1. j \in i..Width
    BY Numbers
  <2> HIDE DEF Divided
  <2>2. Bad = {} => Divided(j)
    BY <2>1
  <2> QED BY <2>2 DEF Divided
<1>2. Bad \subseteq Nat
  BY Numbers
<1>3. PICK n \in Bad : \A m \in Bad : n <= m
  BY <1>1, <1>2, Least
<1> DEFINE c == 2^i
<1>4. c \in Nat
  BY PowersArePositive
<1>5. i \notin Bad
  <2>1. c = c * 1
    <3> HIDE DEF c
    <3> QED BY <1>4
  <2> QED BY <2>1
<1>6. n \in i..Width /\ n # i
  BY <1>3, <1>5
<1>7. n - 1 \in i..Width /\ n - 1 \in 0..Width /\ n - 1 \notin Bad
  BY <1>3, <1>6, Numbers
<1>8. PICK k \in Nat : 2^(n - 1) = 2^i * k
  BY <1>7
<1>9. (n - 1) + 1 = n
  BY <1>6, Numbers
<1>10. 2^n = 2 * 2^(n - 1)
  BY <1>7, <1>9, PowersAssumption DEF PowersAssumption
<1>11. 2 * (c * k) = c * (2 * k)
  <2> HIDE DEF c
  <2> QED BY <1>4
<1>12. 2^n = 2^i * (2 * k)
  BY <1>8, <1>10, <1>11
<1>13. 2 * k \in Nat
  OBVIOUS
<1> QED BY <1>3, <1>12, <1>13

\* What division by the size of a block says: which block a number is in.
LEMMA InBlock ==
  ASSUME NEW a \in Nat, NEW q \in Nat, NEW s \in Nat, s >= 1
  PROVE  a \div s = q <=> s * q <= a /\ a < s * q + s
OBVIOUS

\* The first number of the block that a number is in.
LEMMA FirstOfBlock ==
  ASSUME NEW a \in Nat, NEW s \in Nat, s >= 1
  PROVE  /\ a \div s \in Nat
         /\ a - (a % s) = s * (a \div s)
         /\ s * (a \div s) \in Nat
         /\ s * (a \div s) <= a
         /\ (s * (a \div s)) \div s = a \div s
<1>1. a \div s \in Nat /\ a % s \in 0..(s - 1) /\ a = s * (a \div s) + (a % s)
  OBVIOUS
<1>2. s * (a \div s) \in Nat
  BY <1>1
<1>3. a - (a % s) = s * (a \div s) /\ s * (a \div s) <= a
  BY <1>1, <1>2
<1>4. (s * (a \div s)) \div s = a \div s
  BY <1>1, <1>2, InBlock
<1> QED BY <1>1, <1>2, <1>3, <1>4

\* Where one size divides the other, the block of the smaller size lies within the block of
\* the larger one as soon as they have a number in common.
LEMMA BlocksAreNested ==
  ASSUME NEW a \in Nat, NEW s \in Nat, NEW k \in Nat, s >= 1, s * k >= 1
  PROVE  (s * (a \div s)) \div (s * k) = a \div (s * k)
<1> DEFINE t == s * k
           q == a \div s
           p == a \div t
<1>1. t \in Nat /\ t >= 1 /\ k >= 1
  <2>1. t \in Nat /\ t >= 1
    OBVIOUS
  <2>2. k # 0
    OBVIOUS
  <2> QED BY <2>1, <2>2
<1>2. q \in Nat /\ s * q \in Nat /\ s * q <= a
  BY FirstOfBlock
<1>3. p \in Nat /\ t * p \in Nat /\ t * p <= a
  <2> HIDE DEF t
  <2> QED BY <1>1, FirstOfBlock
<1>4. a < t * p + t
  <2> HIDE DEF t
  <2> QED BY <1>1, <1>3, InBlock
<1>5. a < s * q + s
  BY <1>2, InBlock
<1> HIDE DEF q, p
<1>6. k * p \in Nat /\ t * p = s * (k * p)
  BY <1>3
<1>7. k * p <= q
  <2> DEFINE m == k * p
  <2>1. m \in Nat /\ s * m <= a /\ a < s * q + s
    BY <1>3, <1>5, <1>6
  <2> HIDE DEF m
  <2>2. s * q + s = s * (q + 1)
    BY <1>2
  <2>3. ASSUME q + 1 <= m PROVE FALSE
    <3>1. PICK d \in Nat : m = q + 1 + d
      <4>1. m - (q + 1) \in Nat /\ m = q + 1 + (m - (q + 1))
        BY <1>2, <2>1, <2>3
      <4> QED BY <4>1
    <3>2. s * m = s * (q + 1) + s * d /\ s * d \in Nat
      BY <1>2, <3>1
    <3>3. s * m >= s * (q + 1)
      BY <1>2, <2>1, <3>2
    <3> QED BY <1>2, <2>1, <2>2, <3>3
  <2>4. m <= q
    BY <1>2, <2>1, <2>3
  <2> QED BY <2>4 DEF m
<1>8. t * p <= s * q
  <2> DEFINE m == k * p
  <2>1. m \in Nat /\ m <= q
    BY <1>6, <1>7
  <2> HIDE DEF m
  <2>2. PICK d \in Nat : q = m + d
    <3>1. q - m \in Nat /\ q = m + (q - m)
      BY <1>2, <2>1
    <3> QED BY <3>1
  <2>3. s * q = s * m + s * d /\ s * d \in Nat /\ s * m \in Nat
    BY <2>1, <2>2
  <2>4. s * m <= s * q
    BY <1>2, <2>3
  <2> QED BY <1>6, <2>4 DEF m
<1>9. s * q < t * p + t
  <2> HIDE DEF t
  <2> QED BY <1>1, <1>2, <1>3, <1>4
<1>10. (s * q) \div t = p
  <2> HIDE DEF t
  <2> QED BY <1>1, <1>2, <1>3, <1>8, <1>9, InBlock
<1> QED BY <1>10 DEF q, p

\* The numbers of a prefix.
LEMMA PrefixNumbers ==
  ASSUME NEW p \in Prefix
  PROVE  /\ Size(p) \in Nat /\ Size(p) >= 1
         /\ p.address \in Nat
         /\ Network(p) = Size(p) * (p.address \div Size(p))
         /\ Network(p) \in 0..(2^Width - 1)
         /\ Network(p) \div Size(p) = p.address \div Size(p)
<1>1. p.length \in 0..Width /\ p.address \in 0..(2^Width - 1)
  BY DEF Prefix
<1>2. Width - p.length \in 0..Width
  BY <1>1, Numbers
<1>3. Size(p) \in Nat /\ Size(p) >= 1
  BY <1>2, PowersArePositive DEF Size
<1>4. 2^Width \in Nat
  BY Numbers, PowersArePositive
<1> DEFINE w == 2^Width
           a == p.address
           s == Size(p)
<1>5. a \in Nat /\ a <= w - 1
  <2>1. a \in 0..(w - 1) /\ w \in Nat
    BY <1>1, <1>4
  <2> HIDE DEF a, w
  <2> QED BY <2>1
<1>6. /\ a - (a % s) = s * (a \div s) /\ s * (a \div s) \in Nat /\ s * (a \div s) <= a
      /\ (s * (a \div s)) \div s = a \div s
  <2> HIDE DEF a, s
  <2> QED BY <1>3, <1>5, FirstOfBlock DEF s
<1>7. Network(p) = s * (a \div s)
  BY <1>6 DEF Network
<1>8. s * (a \div s) \in 0..(w - 1)
  <2>1. w \in Nat
    BY <1>4
  <2> DEFINE n == s * (a \div s)
  <2>2. n \in Nat /\ n <= a
    BY <1>6
  <2> HIDE DEF n, a, w
  <2>3. n \in 0..(w - 1)
    BY <1>5, <2>1, <2>2
  <2> QED BY <2>3 DEF n
<1> QED BY <1>3, <1>5, <1>6, <1>7, <1>8

\* The addresses of a prefix are those of the block that its own address is in.
LEMMA AddressesAreItsBlock ==
  ASSUME NEW p \in Prefix, NEW x
  PROVE  x \in AddressesOf(p) <=>
           \E a \in 0..(2^Width - 1) : /\ x = <<p.family, a>>
                                       /\ a \div Size(p) = p.address \div Size(p)
BY DEF AddressesOf, Size

\* A prefix covers the numbers in its block (IpNet::contains).
LEMMA CoversItsBlock ==
  ASSUME NEW p \in Prefix, NEW family, NEW a \in Nat
  PROVE  Covers(p, family, a) <=>
           p.family = family /\ a \div Size(p) = p.address \div Size(p)
<1> DEFINE s == Size(p)
           q == p.address \div s
<1>1. s \in Nat /\ s >= 1 /\ p.address \in Nat /\ Network(p) = s * q
  BY PrefixNumbers
<1>2. q \in Nat
  <2> HIDE DEF s
  <2> QED BY <1>1, FirstOfBlock
<1>3. a \div s = q <=> s * q <= a /\ a < s * q + s
  <2> HIDE DEF s, q
  <2> QED BY <1>1, <1>2, InBlock
<1> QED BY <1>1, <1>3 DEF Covers

\* A common address of two prefixes, seen from the longer one: the shorter prefix covers its
\* network (prefixes_conflict).
LEMMA ShorterCovers ==
  ASSUME NEW l \in Prefix, NEW r \in Prefix, r.length <= l.length, l.family = r.family,
         NEW a \in Nat, a \div Size(l) = l.address \div Size(l),
         a \div Size(r) = r.address \div Size(r)
  PROVE  Covers(r, l.family, Network(l))
<1>1. Width - l.length \in 0..Width /\ Width - r.length \in 0..Width
      /\ Width - l.length <= Width - r.length
  BY Numbers DEF Prefix
<1>2. PICK k \in Nat : Size(r) = Size(l) * k
  BY <1>1, PowersDivide DEF Size
<1> DEFINE s == Size(l)
           t == Size(r)
<1>3. s \in Nat /\ s >= 1 /\ t \in Nat /\ t >= 1
  BY PrefixNumbers
<1>4. (s * (a \div s)) \div t = a \div t
  <2>1. t = s * k
    BY <1>2
  <2> HIDE DEF s, t
  <2> QED BY <1>3, <2>1, BlocksAreNested
<1>5. Network(l) = s * (a \div s) /\ Network(l) \in Nat
  BY PrefixNumbers
<1>6. Network(l) \div t = r.address \div t
  BY <1>4, <1>5
<1> QED BY <1>5, <1>6, CoversItsBlock

\* What ConflictMeansCommonAddress says holds of any two prefixes, for every width of
\* addresses (prefixes_conflict).
LEMMA ConflictHolds ==
  ASSUME subject \in PrefixPair
  PROVE  ConflictMeansCommonAddress
<1> DEFINE l == subject.left
           r == subject.right
<1>1. l \in Prefix /\ r \in Prefix
  BY DEF PrefixPair
<1> HIDE DEF l, r
<1>2. Network(l) \in 0..(2^Width - 1) /\ Network(r) \in 0..(2^Width - 1)
      /\ Network(l) \in Nat /\ Network(r) \in Nat
  BY <1>1, PrefixNumbers
<1>3. ASSUME NEW p \in Prefix, NEW other \in Prefix, Covers(p, other.family, Network(other))
      PROVE  AddressesOf(p) \cap AddressesOf(other) # {}
  <2>1. Network(other) \in 0..(2^Width - 1) /\ Network(other) \in Nat
        /\ Network(other) \div Size(other) = other.address \div Size(other)
    BY PrefixNumbers
  <2>2. p.family = other.family /\ Network(other) \div Size(p) = p.address \div Size(p)
    BY <1>3, <2>1, CoversItsBlock
  <2>3. <<other.family, Network(other)>> \in AddressesOf(other)
    BY <2>1, AddressesAreItsBlock
  <2>4. <<other.family, Network(other)>> \in AddressesOf(p)
    BY <2>1, <2>2, AddressesAreItsBlock
  <2> QED BY <2>3, <2>4
<1>4. ASSUME AddressesOf(l) \cap AddressesOf(r) # {}
      PROVE  Overlap(l, r)
  <2>1. PICK x : x \in AddressesOf(l) /\ x \in AddressesOf(r)
    BY <1>4
  <2>2. PICK a \in 0..(2^Width - 1) : /\ x = <<l.family, a>>
                                      /\ a \div Size(l) = l.address \div Size(l)
    BY <1>1, <2>1, AddressesAreItsBlock
  <2>3. PICK b \in 0..(2^Width - 1) : /\ x = <<r.family, b>>
                                      /\ b \div Size(r) = r.address \div Size(r)
    BY <1>1, <2>1, AddressesAreItsBlock
  <2>4. a = b /\ l.family = r.family
    BY <2>2, <2>3
  <2>5. a \in Nat
    <3>1. 2^Width \in Nat
      BY Numbers, PowersArePositive
    <3> DEFINE w == 2^Width
    <3>2. w \in Nat /\ a \in 0..(w - 1)
      BY <3>1
    <3> HIDE DEF w
    <3> QED BY <3>2
  <2>6. CASE r.length <= l.length
    BY <1>1, <2>2, <2>3, <2>4, <2>5, <2>6, ShorterCovers DEF Overlap
  <2>7. CASE l.length <= r.length
    BY <1>1, <2>2, <2>3, <2>4, <2>5, <2>7, ShorterCovers DEF Overlap
  <2>8. l.length \in Int /\ r.length \in Int
    BY <1>1 DEF Prefix
  <2> QED BY <2>6, <2>7, <2>8
<1>5. Overlap(l, r) => AddressesOf(l) \cap AddressesOf(r) # {}
  BY <1>1, <1>3 DEF Overlap
<1>6. PrefixesConflict(l, r) <=> l.scope = r.scope /\ AddressesOf(l) \cap AddressesOf(r) # {}
  BY <1>4, <1>5 DEF PrefixesConflict
<1> QED BY <1>6 DEF ConflictMeansCommonAddress, l, r

-----------------------------------------------------------------------------
(* The invariant: a trial in use and a probe with its two timers. *)

\* At first a trial is within its limits and a probe waits for its body.
LEMMA InitIInv == Init => IInv
<1> SUFFICES ASSUME Init PROVE IInv
  OBVIOUS
<1>1. subject \in Subject /\ now = 0
  BY DEF Init
<1>2. /\ subject \in Shape
      /\ subject.kind = "trial" =>
           \A a \in DOMAIN subject.usage : subject.usage[a] <= subject.license.limit[a]
      /\ subject.kind = "scopes" => subject.requested.site \in subject.sites \cup {NoSite}
      /\ subject.kind = "probe" =>
           subject.pc = "body" /\ subject.began < 0 /\ subject.answer = "none"
  BY <1>1, SubjectAssumption DEF SubjectAssumption
<1>3. Is("trial") => TrialKeepsItsLimits
  BY <1>2 DEF Is, TrialKeepsItsLimits
<1>4. Is("probe") => ProbeInv
  BY <1>1, <1>2, Numbers DEF Is, ProbeInv
<1> QED BY <1>1, <1>2, <1>3, <1>4 DEF IInv, Is

\* What the invariant says of a subject that only grows older: only a probe minds.
LEMMA TickKeeps ==
  ASSUME IInv, Tick
  PROVE  IInv'
<1>1. now \in Nat /\ now' = now + 1 /\ now' \in Nat /\ subject' = subject
  BY DEF IInv, Tick
<1>2. ASSUME Is("probe")
      PROVE  ProbeInv'
  <2>1. ProbeInv /\ subject \in Probe
    BY <1>2, KindTellsShape DEF IInv, Is
  <2>2. subject.pc # "done" =>
          now < Limit /\ (subject.pc = "connecting" => now < subject.due)
    <3>1. ~TimerDue
      BY DEF Tick
    <3>2. subject.due \in Int
      BY <2>1 DEF Probe
    <3> QED BY <1>1, <1>2, <3>1, <3>2, Numbers DEF TimerDue
  <2>3. subject.due \in Int /\ subject.began \in Int
    BY <2>1 DEF Probe
  <2> QED BY <1>1, <2>1, <2>2, <2>3, Numbers DEF ProbeInv
<1>3. Is("trial") => TrialKeepsItsLimits'
  BY <1>1 DEF IInv, TrialKeepsItsLimits
<1> QED BY <1>1, <1>2, <1>3 DEF IInv, Is

\* A plan that is edited, and an answer that is added, leave a change a change.
LEMMA ChangeKeeps ==
  ASSUME IInv, EditPlan \/ TargetAnswers
  PROVE  subject' \in Change /\ subject'.kind = "change" /\ now' = now
<1>1. subject \in Change /\ Is("change")
  BY KindTellsShape DEF IInv, Is, EditPlan, TargetAnswers
<1>2. CASE EditPlan
  <2>1. PICK field \in {"target", "input", "provider", "work"}, f \in Fingerprint :
          subject' = [subject EXCEPT !.plan[field] = f]
    BY <1>2 DEF EditPlan
  <2>2. subject.plan \in Plan
    BY <1>1 DEF Change
  <2>3. [subject.plan EXCEPT ![field] = f] \in Plan
    BY <2>2 DEF Plan
  <2>4. subject' = [subject EXCEPT !.plan = [subject.plan EXCEPT ![field] = f]]
    BY <1>1, <2>1 DEF Change
  <2>5. subject' \in Change
    BY <1>1, <2>3, <2>4 DEF Change
  <2> QED BY <1>2, <2>5 DEF Change, EditPlan
<1>3. CASE TargetAnswers
  <2>1. PICK outcome \in Outcome, confirmed \in BOOLEAN :
          subject' = [subject EXCEPT !.results =
                        Append(@, [outcome |-> outcome, confirmed |-> confirmed])]
    BY <1>3 DEF TargetAnswers
  <2>2. [outcome |-> outcome, confirmed |-> confirmed] \in TargetResult
    BY DEF TargetResult
  <2>3. Append(subject.results, [outcome |-> outcome, confirmed |-> confirmed])
          \in Seq(TargetResult)
    BY <1>1, <2>2 DEF Change
  <2>4. subject' \in Change
    BY <1>1, <2>1, <2>3 DEF Change
  <2> QED BY <1>3, <2>4 DEF Change, TargetAnswers
<1> QED BY <1>2, <1>3

\* What a trial allows keeps it within its limits (decide).
LEMMA UseKeeps ==
  ASSUME IInv, NEW action \in Mutation \cup {"read"}, Use(action)
  PROVE  IInv'
<1>1. subject \in Trial /\ Is("trial") /\ TrialKeepsItsLimits /\ now' = now
  BY KindTellsShape DEF IInv, Is, Use
<1>2. subject.usage \in Counts /\ subject.license \in License /\ subject.license.limit \in Counts
  BY <1>1 DEF Trial, License
<1>3. CASE action \in DOMAIN subject.usage
  <2>1. action \in {"device", "site", "admin"}
    BY <1>2, <1>3 DEF Counts
  <2>2. subject' = [subject EXCEPT !.usage[action] = @ + 1, !.last = action]
    BY <1>3 DEF Use
  <2> DEFINE more == [subject.usage EXCEPT ![action] = @ + 1]
  <2>3. more \in Counts
    BY <1>2, <2>1 DEF Counts
  <2>4. subject' = [subject EXCEPT !.usage = more, !.last = action]
    BY <1>1, <2>2 DEF Trial
  <2>5. subject' \in Trial /\ subject'.usage = more /\ subject'.license = subject.license
    <3> HIDE DEF more
    <3> QED BY <1>1, <2>3, <2>4 DEF Trial
  <2>6. ~subject.license.converted => subject.usage[action] < subject.license.limit[action]
    <3>1. Decide(subject.license, action, subject.usage, now) = "allow"
      BY DEF Use
    <3>2. subject.license.expires \in Int /\ now \in Nat
      BY <1>2 DEF License, IInv
    <3> QED BY <2>1, <3>1, <3>2 DEF Decide, EffectiveState, BelowLimit
  <2>7. ~subject.license.converted =>
          \A a \in {"device", "site", "admin"} : more[a] <= subject.license.limit[a]
    <3>1. \A a \in {"device", "site", "admin"} :
            /\ subject.usage[a] \in Nat /\ subject.license.limit[a] \in Nat
            /\ more[a] = IF a = action THEN subject.usage[a] + 1 ELSE subject.usage[a]
      BY <1>2 DEF Counts
    <3>2. ~subject.license.converted =>
            \A a \in {"device", "site", "admin"} : subject.usage[a] <= subject.license.limit[a]
      BY <1>1, <1>2 DEF TrialKeepsItsLimits, Counts
    <3> HIDE DEF more
    <3> QED BY <2>6, <3>1, <3>2
  <2>8. TrialKeepsItsLimits'
    <3> HIDE DEF more
    <3> QED BY <2>3, <2>5, <2>7 DEF TrialKeepsItsLimits, Counts
  <2> QED BY <1>1, <2>5, <2>8 DEF IInv, Is, Shape, Trial
<1>4. CASE action \notin DOMAIN subject.usage
  <2>1. subject' = [subject EXCEPT !.last = action]
    BY <1>4 DEF Use
  <2>2. /\ subject' \in Trial /\ subject'.usage = subject.usage
        /\ subject'.license = subject.license
    BY <1>1, <2>1 DEF Trial
  <2>3. TrialKeepsItsLimits'
    BY <1>1, <2>2 DEF TrialKeepsItsLimits
  <2> QED BY <1>1, <2>2, <2>3 DEF IInv, Is, Shape, Trial
<1> QED BY <1>3, <1>4

\* A converted trial has no limits.
LEMMA ConvertKeeps ==
  ASSUME IInv, Convert
  PROVE  /\ IInv' /\ subject' \in Trial /\ now' = now
         /\ subject'.usage = subject.usage /\ subject'.license.converted = TRUE
<1>1. subject \in Trial /\ Is("trial") /\ now' = now
  BY KindTellsShape DEF IInv, Is, Convert
<1>2. subject.license \in License
  BY <1>1 DEF Trial
<1> DEFINE converted == [subject.license EXCEPT !.converted = TRUE]
<1>3. converted \in License /\ converted.converted = TRUE
  BY <1>2 DEF License
<1>4. subject' = [subject EXCEPT !.license = converted]
  BY <1>1 DEF Convert, Trial
<1>5. subject' \in Trial /\ subject'.usage = subject.usage /\ subject'.license = converted
  <2> HIDE DEF converted
  <2> QED BY <1>1, <1>3, <1>4 DEF Trial
<1>6. TrialKeepsItsLimits'
  BY <1>3, <1>5 DEF TrialKeepsItsLimits
<1> QED BY <1>1, <1>3, <1>5, <1>6 DEF IInv, Is, Shape, Trial

\* The steps of a probe: an answer ends it, and a connection gets no more time than
\* MaxTimeout (tcp_connect, TcpConnectRequest::timeout).
LEMMA AnswerKeeps ==
  ASSUME IInv, Is("probe"),
         NEW answer \in {"malformed", "unauthorized", "invalid", "denied", "succeeded",
                         "failed", "timeout", "408"},
         Answers(answer),
         answer = "408" /\ subject.began >= 0 => subject.began >= Limit - MaxTimeout
  PROVE  IInv'
<1>1. subject \in Probe /\ ProbeInv /\ now' = now
  BY KindTellsShape DEF IInv, Is, Answers
<1>2. subject' = [subject EXCEPT !.pc = "done", !.answer = answer]
  BY DEF Answers
<1>3. /\ subject' \in Probe /\ subject'.pc = "done" /\ subject'.answer = answer
      /\ subject'.began = subject.began
  BY <1>1, <1>2 DEF Probe
<1>4. ProbeInv'
  BY <1>1, <1>3 DEF ProbeInv
<1> QED BY <1>1, <1>3, <1>4 DEF IInv, Is, Shape, Probe

LEMMA ProbeKeeps ==
  ASSUME IInv, BodyArrives \/ ConnectEnds \/ ConnectTimesOut \/ RequestTimesOut
  PROVE  IInv'
<1>1. Is("probe")
  BY DEF BodyArrives, ConnectEnds, ConnectTimesOut, RequestTimesOut
<1>2. subject \in Probe /\ ProbeInv /\ now \in Nat
  BY <1>1, KindTellsShape DEF IInv, Is
<1>3. ASSUME NEW answer \in {"malformed", "unauthorized", "invalid", "denied", "succeeded",
                             "failed", "timeout"},
             Answers(answer)
      PROVE  IInv'
  BY <1>1, <1>3, AnswerKeeps
<1>4. CASE /\ subject.pc = "body" /\ subject.bearer /\ RequestIsValid(subject.request)
           /\ Allows(subject.allowPublic, subject.request.kind)
           /\ subject' = [subject EXCEPT !.pc = "connecting", !.began = now,
                                         !.due = now + Timeout(subject.request)]
           /\ now' = now
  <2>1. subject.request.timeout \in Nat
    BY <1>2 DEF Probe, TcpConnectRequest
  <2>2. Timeout(subject.request) \in 0..MaxTimeout
    BY <2>1, Numbers DEF Timeout
  <2> DEFINE due == now + Timeout(subject.request)
  <2>3. due \in Int /\ due <= now + MaxTimeout /\ now <= due
    BY <1>2, <2>2, Numbers
  <2>4. subject' = [subject EXCEPT !.pc = "connecting", !.began = now, !.due = due]
    BY <1>4
  <2> HIDE DEF due
  <2>5. subject' \in Probe
    <3>1. now \in Int /\ due \in Int /\ "connecting" \in {"body", "connecting", "done"}
      BY <1>2, <2>3
    <3> QED BY <1>2, <2>4, <3>1 DEF Probe
  <2>6. /\ subject'.pc = "connecting" /\ subject'.began = now /\ subject'.due = due
        /\ subject'.bearer = subject.bearer /\ subject'.request = subject.request
        /\ subject'.allowPublic = subject.allowPublic /\ subject'.answer = subject.answer
    BY <1>2, <2>4 DEF Probe
  <2>7. ProbeInv'
    <3>1. subject.answer = "none" /\ now <= Limit
      BY <1>2, <1>4 DEF ProbeInv
    <3> QED BY <1>2, <1>4, <2>3, <2>6, <3>1 DEF ProbeInv
  <2> QED BY <1>2, <1>4, <2>5, <2>6, <2>7 DEF IInv, Is, Shape, Probe
<1>5. CASE BodyArrives
  BY <1>3, <1>4, <1>5 DEF BodyArrives
<1>6. CASE ConnectEnds \/ ConnectTimesOut
  BY <1>3, <1>6 DEF ConnectEnds, ConnectTimesOut
<1>7. CASE RequestTimesOut
  <2>1. subject.pc # "done" /\ now >= Limit /\ Answers("408")
    BY <1>7 DEF RequestTimesOut
  <2>2. subject.began >= 0 => subject.began >= Limit - MaxTimeout
    <3>1. subject.began \in Int /\ subject.due \in Int
          /\ subject.pc \in {"body", "connecting", "done"}
      BY <1>2 DEF Probe
    <3>2. subject.pc = "body" => subject.began < 0
      BY <1>2 DEF ProbeInv
    <3>3. subject.pc = "connecting" =>
            subject.due <= subject.began + MaxTimeout /\ now <= subject.due
      BY <1>2 DEF ProbeInv
    <3> QED BY <1>2, <2>1, <3>1, <3>2, <3>3, Numbers
  <2> QED BY <1>1, <2>1, <2>2, AnswerKeeps
<1> QED BY <1>5, <1>6, <1>7

\* Every step keeps the invariant.
LEMMA NextKeeps == IInv /\ [Next]_vars => IInv'
<1> SUFFICES ASSUME IInv, [Next]_vars PROVE IInv'
  OBVIOUS
<1>1. CASE Tick
  BY <1>1, TickKeeps
<1>2. CASE EditPlan \/ TargetAnswers
  BY <1>2, ChangeKeeps DEF IInv, Is, Shape
<1>3. CASE \E action \in Mutation \cup {"read"} : Use(action)
  BY <1>3, UseKeeps
<1>4. CASE Convert
  BY <1>4, ConvertKeeps
<1>5. CASE BodyArrives \/ ConnectEnds \/ ConnectTimesOut \/ RequestTimesOut
  BY <1>5, ProbeKeeps
<1>6. CASE UNCHANGED vars
  BY <1>6 DEF vars, IInv, Is, TrialKeepsItsLimits, ProbeInv
<1> QED BY <1>1, <1>2, <1>3, <1>4, <1>5, <1>6 DEF Next

\* The invariant holds at all times.
THEOREM Invariance == Spec => []IInv
<1>1. IInv /\ [Next]_vars => IInv'
  BY NextKeeps
<1> QED BY InitIInv, <1>1, PTL DEF Spec

\* What ProbesAreBounded says follows from the invariant (tcp_connect).
LEMMA ProbesHold ==
  ASSUME IInv, Is("probe")
  PROVE  ProbesAreBounded
<1>1. subject \in Probe /\ ProbeInv /\ now \in Nat
  BY KindTellsShape DEF IInv, Is
<1>2. subject.request \in TcpConnectRequest /\ subject.due \in Int /\ subject.began \in Int
  BY <1>1 DEF Probe
<1>3. subject.pc = "connecting" =>
        /\ subject.bearer /\ subject.request.sameScope /\ subject.request.port # 0
        /\ subject.request.kind \notin {"unspecified", "multicast"}
        /\ subject.request.kind = "public" => subject.allowPublic
        /\ subject.due - now <= MaxTimeout
  <2> SUFFICES ASSUME subject.pc = "connecting"
               PROVE  /\ subject.bearer /\ subject.request.sameScope
                      /\ subject.request.port # 0
                      /\ subject.request.kind \notin {"unspecified", "multicast"}
                      /\ subject.request.kind = "public" => subject.allowPublic
                      /\ subject.due - now <= MaxTimeout
    OBVIOUS
  <2>1. /\ subject.bearer /\ RequestIsValid(subject.request)
        /\ Allows(subject.allowPublic, subject.request.kind)
        /\ subject.due <= subject.began + MaxTimeout /\ subject.began <= now
    BY <1>1 DEF ProbeInv
  <2>2. subject.request.sameScope /\ subject.request.port # 0
        /\ subject.request.kind \notin {"unspecified", "multicast"}
    BY <1>2, <2>1 DEF RequestIsValid, TargetIsValid, TcpConnectRequest
  <2>3. subject.request.kind = "public" => subject.allowPublic
    BY <2>1 DEF Allows
  <2>4. subject.due - now <= MaxTimeout
    BY <1>1, <1>2, <2>1, Numbers
  <2> QED BY <2>1, <2>2, <2>3, <2>4
<1>4. now > Limit => subject.pc = "done"
  BY <1>1, Numbers DEF ProbeInv
<1>5. subject.answer = "408" /\ subject.began >= 0 => subject.began >= Limit - MaxTimeout
  BY <1>1 DEF ProbeInv
<1> QED BY <1>3, <1>4, <1>5 DEF ProbesAreBounded

\* Every rule decides as its users must expect, for all subjects and at all times: a summary
\* of results, a trial in use, a token, a grant, a conflict of prefixes, a merge and a probe
\* (summarize_targets, decide, decode_access_token, authorize, prefixes_conflict,
\* decide_merge, tcp_connect).
THEOREM RulesDecideRight == Spec => []RulesAreExact
<1>1. IInv => RulesAreExact
  <2> SUFFICES ASSUME IInv PROVE RulesAreExact
    OBVIOUS
  <2>1. subject \in Shape /\ now \in Nat
    BY DEF IInv
  <2>2. Is("change") => SummaryIsHonest
    BY <2>1, KindTellsShape, SummaryHolds DEF Is
  <2>3. Is("trial") => TrialKeepsItsLimits
    BY DEF IInv
  <2>4. Is("token") => TokensHaveTheirTime
    BY <2>1, KindTellsShape, TokensHold DEF Is
  <2>5. Is("scopes") => GrantsReachWhatTheyContain
    BY <2>1, KindTellsShape, GrantsHold DEF Is, IInv
  <2>6. Is("prefixes") => ConflictMeansCommonAddress
    BY <2>1, KindTellsShape, ConflictHolds DEF Is
  <2>7. Is("devices") => MergeIsSafe
    BY <2>1, KindTellsShape, MergeHolds DEF Is
  <2>8. Is("probe") => ProbesAreBounded
    BY ProbesHold
  <2>9. subject.kind \in {"change", "trial", "token", "scopes", "prefixes", "devices", "probe"}
    BY <2>1 DEF Shape, Change, Trial, Token, AccessRequest, PrefixPair, DevicePair, Probe
  <2>10. CASE Is("change")
    BY <2>2, <2>10 DEF RulesAreExact, Is
  <2>11. CASE Is("trial")
    BY <2>3, <2>11 DEF RulesAreExact, Is
  <2>12. CASE Is("token")
    BY <2>4, <2>12 DEF RulesAreExact, Is
  <2>13. CASE Is("scopes")
    BY <2>5, <2>13 DEF RulesAreExact, Is
  <2>14. CASE Is("prefixes")
    BY <2>6, <2>14 DEF RulesAreExact, Is
  <2>15. CASE Is("devices")
    BY <2>7, <2>15 DEF RulesAreExact, Is
  <2>16. CASE Is("probe")
    BY <2>8, <2>16 DEF RulesAreExact, Is
  <2> QED BY <2>9, <2>10, <2>11, <2>12, <2>13, <2>14, <2>15, <2>16 DEF Is
<1> QED BY Invariance, <1>1, PTL

-----------------------------------------------------------------------------
(* Decisions that do not come back. *)

\* Whatever happens, a subject keeps its kind, an approval and the claims of a token stay
\* what they are, and the clock does not go back.
LEMMA WhatNeverChanges ==
  ASSUME IInv, Next
  PROVE  /\ subject'.kind = subject.kind
         /\ now' \in {now, now + 1}
         /\ Is("change") => subject'.approval = subject.approval
         /\ Is("token") => subject' = subject
         /\ now' = now \/ subject' = subject
<1>1. CASE Tick
  BY <1>1 DEF Tick, IInv
<1>2. CASE EditPlan \/ TargetAnswers
  <2>1. subject \in Change /\ Is("change")
    BY <1>2, KindTellsShape DEF IInv, Is, EditPlan, TargetAnswers
  <2> QED BY <1>2, <2>1 DEF EditPlan, TargetAnswers, Change, Is
<1>3. CASE (\E action \in Mutation \cup {"read"} : Use(action)) \/ Convert
  <2>1. subject \in Trial /\ Is("trial")
    BY <1>3, KindTellsShape DEF IInv, Is, Use, Convert
  <2> QED BY <1>3, <2>1 DEF Use, Convert, Trial, Is
<1>4. CASE BodyArrives \/ ConnectEnds \/ ConnectTimesOut \/ RequestTimesOut
  <2>1. subject \in Probe /\ Is("probe")
    BY <1>4, KindTellsShape
       DEF IInv, Is, BodyArrives, ConnectEnds, ConnectTimesOut, RequestTimesOut
  <2> QED BY <1>4, <2>1
          DEF BodyArrives, ConnectEnds, ConnectTimesOut, RequestTimesOut, Answers, Probe, Is
<1> QED BY <1>1, <1>2, <1>3, <1>4 DEF Next

\* An approval that has lapsed comes back by an edit of the plan only (is_valid_for).
LEMMA LapsedStaysLapsed ==
  ASSUME IInv, IInv', Next, Is("change")
  PROVE  ApprovalsLapse
<1>1. subject \in Change /\ subject' \in Change
  BY WhatNeverChanges, KindTellsShape DEF IInv, Is
<1>2. /\ subject'.approval = subject.approval /\ now' \in {now, now + 1} /\ now \in Nat
      /\ subject.approval.expires \in Int
  BY <1>1, WhatNeverChanges DEF IInv, Change
<1>3. ASSUME Approved', subject'.plan = subject.plan
      PROVE  Approved
  BY <1>2, <1>3 DEF Approved, IsValidFor
<1>4. ASSUME Approved'
      PROVE  subject'.plan = [subject.approval.plan EXCEPT !.work = subject'.plan.work]
  <2> DEFINE p == subject'.plan
             a == subject.approval.plan
  <2>1. p \in Plan /\ a \in Plan
    BY <1>1 DEF Change
  <2>2. p.id = a.id /\ p.target = a.target /\ p.input = a.input /\ p.provider = a.provider
    BY <1>2, <1>4 DEF Approved, IsValidFor
  <2> HIDE DEF p, a
  <2>3. p = [a EXCEPT !.work = p.work]
    BY <2>1, <2>2 DEF Plan
  <2> QED BY <2>3 DEF p, a
<1> QED BY <1>3, <1>4 DEF ApprovalsLapse

\* One more result does not make a summary better (summarize_targets).
LEMMA OneMoreResult ==
  ASSUME NEW results \in Seq(TargetResult), NEW result \in TargetResult
  PROVE  /\ Summary(results) = "unknown" => Summary(Append(results, result)) = "unknown"
         /\ Summary(Append(results, result)) = "succeeded" =>
              results = <<>> \/ Summary(results) = "succeeded"
<1> DEFINE more == Append(results, result)
<1>1. /\ more # <<>> /\ DOMAIN results \subseteq DOMAIN more
      /\ \A i \in DOMAIN results : more[i] = results[i]
  OBVIOUS
<1> HIDE DEF more
<1>2. Summary(results) = "unknown" => \E i \in DOMAIN results : Unsettled(results[i])
  BY DEF Summary
<1>3. (\E i \in DOMAIN more : Unsettled(more[i])) => Summary(more) = "unknown"
  BY <1>1 DEF Summary
<1>4. Summary(more) = "succeeded" =>
        /\ \A i \in DOMAIN more : ~Unsettled(more[i])
        /\ \A i \in DOMAIN more : more[i].outcome = "succeeded"
  BY <1>1 DEF Summary
<1>5. /\ results # <<>>
      /\ \A i \in DOMAIN results : ~Unsettled(results[i])
      /\ \A i \in DOMAIN results : results[i].outcome = "succeeded"
      => Summary(results) = "succeeded"
  BY DEF Summary
<1>6. Summary(results) = "unknown" => Summary(more) = "unknown"
  BY <1>1, <1>2, <1>3
<1>7. Summary(more) = "succeeded" => results = <<>> \/ Summary(results) = "succeeded"
  BY <1>1, <1>4, <1>5
<1> QED BY <1>6, <1>7 DEF more

LEMMA AnswersDoNotImprove ==
  ASSUME IInv, Next, Is("change")
  PROVE  SummariesGetNoBetter
<1>1. subject \in Change
  BY KindTellsShape DEF IInv, Is
<1>2. CASE subject'.results = subject.results
  BY <1>2 DEF SummariesGetNoBetter
<1>3. CASE TargetAnswers
  <2>1. PICK outcome \in Outcome, confirmed \in BOOLEAN :
          subject' = [subject EXCEPT !.results =
                        Append(@, [outcome |-> outcome, confirmed |-> confirmed])]
    BY <1>3 DEF TargetAnswers
  <2> DEFINE result == [outcome |-> outcome, confirmed |-> confirmed]
  <2>2. result \in TargetResult
    BY DEF TargetResult
  <2>3. subject'.results = Append(subject.results, result) /\ subject.results \in Seq(TargetResult)
    BY <1>1, <2>1 DEF Change
  <2> HIDE DEF result
  <2> QED BY <2>2, <2>3, OneMoreResult DEF SummariesGetNoBetter
<1>4. CASE EditPlan
  <2>1. subject'.results = subject.results
    BY <1>1, <1>4 DEF EditPlan, Change
  <2> QED BY <1>2, <2>1
<1>5. CASE Tick
  BY <1>2, <1>5 DEF Tick
<1> QED BY <1>3, <1>4, <1>5
        DEF Next, Is, Use, Convert, BodyArrives, ConnectEnds, ConnectTimesOut, RequestTimesOut

\* How old a trial is, in numbers.
LEMMA AgeInNumbers ==
  ASSUME subject \in Trial
  PROVE  Age = IF subject.license.converted THEN 3
               ELSE IF now >= subject.license.expires THEN 2
               ELSE IF now >= subject.license.expires - Window THEN 1 ELSE 0
BY DEF Age, EffectiveState

\* A trial gets older by the clock and by its conversion, and by nothing else; an expired one
\* allows to read (effective_state, decide).
LEMMA TrialsOnlyAge ==
  ASSUME IInv, IInv', Next, Is("trial")
  PROVE  TrialsAge
<1>1. subject \in Trial /\ subject' \in Trial
  BY WhatNeverChanges, KindTellsShape DEF IInv, Is
<1>2. /\ subject.license.expires \in Int /\ subject.license.converted \in BOOLEAN
      /\ now \in Nat /\ now' \in {now, now + 1}
  BY <1>1, WhatNeverChanges DEF IInv, Trial, License
<1>3. Age = IF subject.license.converted THEN 3
            ELSE IF now >= subject.license.expires THEN 2
            ELSE IF now >= subject.license.expires - Window THEN 1 ELSE 0
  BY <1>1, AgeInNumbers
<1>4. Age' = IF subject'.license.converted THEN 3
             ELSE IF now' >= subject'.license.expires THEN 2
             ELSE IF now' >= subject'.license.expires - Window THEN 1 ELSE 0
  BY <1>1 DEF Age, EffectiveState
<1>5. CASE Tick
  <2>1. subject' = subject
    BY <1>5 DEF Tick
  <2>2. Age <= Age'
    BY <1>2, <1>3, <1>4, <2>1, Numbers
  <2> QED BY <2>1, <2>2 DEF TrialsAge
<1>6. ASSUME NEW action \in Mutation \cup {"read"}, Use(action)
      PROVE  TrialsAge
  <2>1. subject'.license = subject.license /\ now' = now
    BY <1>1, <1>6 DEF Use, Trial
  <2>2. Age <= Age'
    BY <1>2, <1>3, <1>4, <2>1, Numbers
  <2>3. ASSUME Age = 2
        PROVE  subject'.usage = subject.usage /\ subject'.last = "read"
    <3>1. ~subject.license.converted /\ now >= subject.license.expires
      BY <1>2, <1>3, <2>3
    <3>2. action = "read"
      BY <1>6, <3>1 DEF Use, Decide, EffectiveState
    <3>3. action \notin DOMAIN subject.usage
      BY <1>1, <3>2 DEF Trial, Counts
    <3>4. subject' = [subject EXCEPT !.last = action]
      BY <1>6, <3>3 DEF Use
    <3> QED BY <1>1, <3>2, <3>4 DEF Trial
  <2> QED BY <2>2, <2>3 DEF TrialsAge
<1>7. CASE Convert
  <2>1. subject'.usage = subject.usage /\ subject'.license.converted = TRUE
    BY <1>7, ConvertKeeps
  <2>2. subject'.last = subject.last
    BY <1>1, <1>7 DEF Convert, Trial
  <2>3. Age <= Age'
    BY <1>2, <1>3, <1>4, <2>1
  <2> QED BY <2>1, <2>2, <2>3 DEF TrialsAge
<1> QED BY <1>5, <1>6, <1>7
        DEF Next, Is, EditPlan, TargetAnswers, BodyArrives, ConnectEnds, ConnectTimesOut,
            RequestTimesOut

\* A token that decodes does so until its end (decode_access_token).
LEMMA TokensLastUntilTheirEnd ==
  ASSUME IInv, Next, Is("token"), Decodes(subject.claims, now)
  PROVE  Decodes(subject.claims, now') \/ now' = subject.claims.exp
<1>1. subject \in Token /\ now \in Nat /\ now' \in {now, now + 1}
  BY WhatNeverChanges, KindTellsShape DEF IInv, Is
<1> DEFINE claims == subject.claims
<1>2. claims.iat \in Int /\ claims.nbf \in Int /\ claims.exp \in Int
  BY <1>1 DEF Token
<1> HIDE DEF claims
<1>3. Decodes(claims, now) => Decodes(claims, now') \/ now' = claims.exp
  BY <1>1, <1>2, Numbers DEF Decodes, Timely
<1> QED BY <1>3 DEF claims

\* What has been decided against does not come back by itself: an approval that has lapsed,
\* a summary that is unknown, a trial that has expired; and a token is good until its end,
\* for all subjects (is_valid_for, summarize_targets, decide, decode_access_token).
THEOREM DecisionsStay == Spec => NoDecisionComesBack
<1> DEFINE Step == /\ Is("change") => ApprovalsLapse /\ SummariesGetNoBetter
                   /\ Is("trial") => TrialsAge
                   /\ Is("token") /\ Decodes(subject.claims, now) =>
                        Decodes(subject.claims, now') \/ now' = subject.claims.exp
<1>1. IInv /\ IInv' /\ [Next]_vars => [Step]_vars
  <2> SUFFICES ASSUME IInv, IInv', Next PROVE Step
    OBVIOUS
  <2> QED BY LapsedStaysLapsed, AnswersDoNotImprove, TrialsOnlyAge, TokensLastUntilTheirEnd
<1>2. [][Step]_vars => NoDecisionComesBack
  BY DEF NoDecisionComesBack
<1> HIDE DEF Step
<1> QED BY Invariance, <1>1, <1>2, PTL DEF Spec
=============================================================================
