------------------------ MODULE NetworkKnowledgeProofs ------------------------
(***************************************************************************)
(* For every set of addresses, RTTs and samples, and for every distance,   *)
(* TTL limit and number of probes.  AddressRanking: an address pays for    *)
(* its own present failures only, and four of them put it behind one that  *)
(* works.  QualityProber: recovering takes a run of successes.             *)
(* TraceRoute: a trace claims no more than it has seen.                    *)
(***************************************************************************)
EXTENDS NetworkKnowledge, Sequences, FiniteSetTheorems, TLAPS

(* No count exceeds the number of reports so far, and the failures counted *)
(* against an address on this network happened in a row.                   *)
CountInv ==
    /\ \A k \in Ranking!Known : health[k].failures <= reports /\ health[k].successes <= reports
    /\ \A a \in Addresses : failing[a] <= reports

RankingInv == Ranking!NoInheritedFailures /\ CountInv

(* The instances count the elements of a set as this module does.          *)
LEMMA SameCardinality ==
    /\ \A S : Ranking!IsFiniteSet(S) <=> IsFiniteSet(S)
    /\ \A S : Ranking!Cardinality(S) = Cardinality(S)
    /\ \A S : Trace!Cardinality(S) = Cardinality(S)
  BY DEF Ranking!IsFiniteSet, IsFiniteSet, Ranking!Cardinality, Trace!Cardinality, Cardinality

LEMMA RankingTypes ==
    ASSUME Ranking!RankingAssumption
    PROVE  /\ MaxReports \in Nat /\ MaxEpoch \in Nat /\ MaxHealth \in Nat \ {0}
           /\ IsFiniteSet(Ranking!Keys)
  <1>1. MaxReports \in Nat /\ MaxEpoch \in Nat /\ MaxHealth \in Nat \ {0}
    BY DEF Ranking!RankingAssumption
  <1>2. IsFiniteSet(0 .. MaxEpoch)
    BY <1>1, FS_Interval
  <1>3. IsFiniteSet(Addresses)
    BY SameCardinality DEF Ranking!RankingAssumption
  <1>4. QED
    BY <1>1, <1>2, <1>3, FS_Product DEF Ranking!Keys, Ranking!Epochs

LEMMA RankingInit == Ranking!RankingAssumption /\ Ranking!Init => RankingInv
  <1> SUFFICES ASSUME Ranking!RankingAssumption, Ranking!Init PROVE RankingInv
    OBVIOUS
  <1>1. Ranking!TypeOK
    BY RankingTypes DEF Ranking!Init, Ranking!TypeOK, Ranking!Epochs
  <1>2. Ranking!Known = {}
    BY DEF Ranking!Init, Ranking!Known
  <1>3. Ranking!HealthBounded
    BY <1>2, FS_EmptySet, RankingTypes, SameCardinality DEF Ranking!HealthBounded
  <1>4. \A a \in Addresses : Ranking!HealthOf(a, network_epoch).failures <= failing[a]
    BY <1>2 DEF Ranking!HealthOf, Ranking!Untried, Ranking!Init
  <1>5. CountInv
    BY <1>2 DEF CountInv, Ranking!Init
  <1>6. QED
    BY <1>1, <1>3, <1>4, <1>5 DEF RankingInv, Ranking!NoInheritedFailures

(* What a report makes of the entry of an address.                         *)
LEMMA UpdatedHealth ==
    ASSUME Ranking!RankingAssumption, reports \in 0 .. MaxReports, NEW h \in Ranking!Health,
           h.failures < MaxReports, h.successes < MaxReports, NEW success \in BOOLEAN,
           NEW ms \in Nat \cup {-1}
    PROVE  /\ Ranking!Updated(h, success, ms) \in Ranking!Health
           /\ Ranking!Updated(h, success, ms).failures = IF success THEN 0 ELSE h.failures + 1
           /\ Ranking!Updated(h, success, ms).successes <= h.successes + 1
  <1>1. Ranking!Smoothed(h.rtt, ms) \in Nat \cup {-1}
    <2>1. h.rtt \in Nat \cup {-1}
      BY DEF Ranking!Health
    <2>2. ASSUME NEW x \in Nat, NEW y \in Nat PROVE (x * 7 + y * 3) \div 10 \in Nat
      OBVIOUS
    <2>3. QED
      BY <2>1, <2>2 DEF Ranking!Smoothed
  <1>2. MaxReports \in Nat
    BY RankingTypes
  <1> DEFINE s == Ranking!Smoothed(h.rtt, ms)
  <1> HIDE DEF s
  <1>3. /\ h.failures + 1 \in 0 .. MaxReports /\ h.successes + 1 \in 0 .. MaxReports
        /\ h.successes \in Nat /\ 0 \in 0 .. MaxReports
    BY <1>2 DEF Ranking!Health
  <1>4. CASE success
    <2> DEFINE x == [h EXCEPT !.successes = h.successes + 1, !.failures = 0, !.rtt = s,
                              !.updated = reports]
    <2>1. x = Ranking!Updated(h, success, ms)
      BY <1>4 DEF Ranking!Updated, Ranking!Health, s
    <2>2. x \in Ranking!Health /\ x.failures = 0 /\ x.successes = h.successes + 1
      BY <1>1, <1>3 DEF Ranking!Health, s
    <2> HIDE DEF x
    <2>3. (IF success THEN 0 ELSE h.failures + 1) = 0
      BY <1>4, Zenon
    <2>4. x.successes <= h.successes + 1
      BY <1>3, <2>2
    <2>5. QED
      BY <2>1, <2>2, <2>3, <2>4, Zenon
  <1>5. CASE ~success
    <2> DEFINE x == [h EXCEPT !.failures = h.failures + 1, !.updated = reports]
    <2>1. x = Ranking!Updated(h, success, ms)
      BY <1>5 DEF Ranking!Updated, Ranking!Health
    <2>2. x \in Ranking!Health /\ x.failures = h.failures + 1 /\ x.successes = h.successes
      BY <1>3 DEF Ranking!Health
    <2> HIDE DEF x
    <2>3. QED
      BY <1>3, <1>5, <2>1, <2>2
  <1>6. QED
    BY <1>4, <1>5

(* report_connection_result, of this network or late of an older one.      *)
LEMMA RankingReport ==
    ASSUME Ranking!RankingAssumption, RankingInv, NEW a \in Addresses,
           NEW e \in 0 .. network_epoch, NEW success \in BOOLEAN, NEW ms \in Nat \cup {-1},
           Ranking!Report(a, e, success, ms)
    PROVE  RankingInv'
  <1> DEFINE k == <<a, e>>
             u == Ranking!Updated(Ranking!HealthOf(a, e), success, ms)
  <1>1. /\ network_epoch \in Ranking!Epochs
        /\ health \in [Ranking!Keys -> Ranking!Health \cup {NoHealth}] /\ reports \in Nat
        /\ failing \in [Addresses -> 0 .. MaxReports]
        /\ cached \in [Addresses -> Nat \cup {-1}]
        /\ MaxReports \in Nat /\ MaxEpoch \in Nat /\ reports < MaxReports
        /\ reports' = reports + 1 /\ UNCHANGED <<network_epoch, cached>>
    BY RankingTypes DEF RankingInv, Ranking!NoInheritedFailures, Ranking!TypeOK, Ranking!Report
  <1>2. k \in Ranking!Keys
    BY <1>1 DEF Ranking!Keys, Ranking!Epochs
  <1>3. /\ Ranking!HealthOf(a, e) \in Ranking!Health
        /\ Ranking!HealthOf(a, e).failures <= reports
        /\ Ranking!HealthOf(a, e).successes <= reports
    <2>1. CASE k \in Ranking!Known
      <3>1. Ranking!HealthOf(a, e) = health[k] /\ health[k] # NoHealth
        BY <2>1 DEF Ranking!HealthOf, Ranking!HealthKey, Ranking!Known
      <3>2. QED
        BY <1>1, <1>2, <2>1, <3>1 DEF RankingInv, CountInv
    <2>2. CASE k \notin Ranking!Known
      <3>1. Ranking!HealthOf(a, e) = Ranking!Untried
        BY <2>2 DEF Ranking!HealthOf, Ranking!HealthKey
      <3>2. QED
        BY <1>1, <3>1 DEF Ranking!Untried, Ranking!Health
    <2>3. QED
      BY <2>1, <2>2
  <1>4. /\ u \in Ranking!Health
        /\ u.failures = IF success THEN 0 ELSE Ranking!HealthOf(a, e).failures + 1
        /\ u.successes <= Ranking!HealthOf(a, e).successes + 1
    <2>1. /\ Ranking!HealthOf(a, e).failures < MaxReports
          /\ Ranking!HealthOf(a, e).successes < MaxReports
      BY <1>1, <1>3 DEF Ranking!Health
    <2> HIDE DEF k
    <2>2. QED
      BY <1>1, <1>3, <2>1, UpdatedHealth
  <1>5. PICK gone \in Ranking!Evicted(k) :
            health' = [l \in Ranking!Keys |->
                          IF l = k THEN u ELSE IF l \in gone THEN NoHealth ELSE health[l]]
    BY DEF Ranking!Report, Ranking!HealthKey
  <1> HIDE DEF u
  <1>6. /\ health' \in [Ranking!Keys -> Ranking!Health \cup {NoHealth}] /\ health'[k] = u
        /\ \A l \in Ranking!Keys :
              l # k => health'[l] = IF l \in gone THEN NoHealth ELSE health[l]
    BY <1>1, <1>2, <1>4, <1>5
  <1>7. /\ failing' \in [Addresses -> 0 .. MaxReports]
        /\ \A b \in Addresses : failing'[b] <= reports'
        /\ \A b \in Addresses : b # a => failing'[b] = failing[b]
        /\ e = network_epoch => failing'[a] = IF success THEN 0 ELSE failing[a] + 1
        /\ e # network_epoch => failing' = failing
    BY <1>1 DEF Ranking!Report, RankingInv, CountInv
  <1>8. Ranking!TypeOK'
    BY <1>1, <1>6, <1>7 DEF Ranking!TypeOK
  <1>9. Ranking!Known' \subseteq (Ranking!Known \ gone) \cup {k}
    BY <1>6 DEF Ranking!Known
  <1>10. Ranking!HealthBounded'
    <2>1. /\ IsFiniteSet(Ranking!Known) /\ Cardinality(Ranking!Known) \in Nat
          /\ Cardinality(Ranking!Known) <= MaxHealth
          /\ MaxHealth \in Nat \ {0}
      <3>1. Ranking!Known \subseteq Ranking!Keys
        BY DEF Ranking!Known
      <3>2. QED
        BY <3>1, RankingTypes, FS_Subset, FS_CardinalityType, SameCardinality
        DEF RankingInv, Ranking!NoInheritedFailures, Ranking!HealthBounded
    <2>2. ASSUME NEW T, IsFiniteSet(T), Ranking!Known' \subseteq T, Cardinality(T) <= MaxHealth
          PROVE  Ranking!HealthBounded'
      <3>1. /\ Cardinality(Ranking!Known') <= Cardinality(T)
            /\ Cardinality(Ranking!Known') \in Nat
        BY <2>2, FS_Subset, FS_CardinalityType
      <3>2. Cardinality(T) \in Nat
        BY <2>2, FS_CardinalityType
      <3>3. QED
        BY <2>1, <2>2, <3>1, <3>2, SameCardinality DEF Ranking!HealthBounded
    <2>3. CASE k \in Ranking!Known
      <3>1. Ranking!Known' \subseteq Ranking!Known
        BY <1>9, <2>3
      <3>2. QED
        BY <2>1, <2>2, <3>1
    <2>4. CASE k \notin Ranking!Known /\ Cardinality(Ranking!Known) < MaxHealth
      <3>1. /\ IsFiniteSet(Ranking!Known \cup {k})
            /\ Cardinality(Ranking!Known \cup {k}) = Cardinality(Ranking!Known) + 1
        BY <2>1, <2>4, FS_AddElement
      <3>2. /\ Cardinality(Ranking!Known \cup {k}) <= MaxHealth
            /\ Ranking!Known' \subseteq Ranking!Known \cup {k}
        BY <1>9, <2>1, <2>4, <3>1
      <3>3. QED
        BY <2>2, <3>1, <3>2
    <2>5. CASE k \notin Ranking!Known /\ ~(Cardinality(Ranking!Known) < MaxHealth)
      <3>1. PICK o \in Ranking!Known : gone = {o}
        BY <2>5, SameCardinality DEF Ranking!Evicted, Ranking!Oldest
      <3> DEFINE left == Ranking!Known \ {o}
      <3>2. /\ IsFiniteSet(left) /\ Cardinality(left) = Cardinality(Ranking!Known) - 1
            /\ k \notin left
        BY <2>1, <2>5, FS_RemoveElement
      <3>3. IsFiniteSet(left \cup {k}) /\ Cardinality(left \cup {k}) = Cardinality(left) + 1
        <4> HIDE DEF left
        <4>1. QED
          BY <3>2, FS_AddElement
      <3>4. Cardinality(left \cup {k}) <= MaxHealth /\ Ranking!Known' \subseteq left \cup {k}
        BY <1>9, <2>1, <3>1, <3>2, <3>3
      <3> HIDE DEF left
      <3>5. QED
        BY <2>2, <3>3, <3>4
    <2>6. QED
      BY <2>3, <2>4, <2>5
  <1>11. \A b \in Addresses : Ranking!HealthOf(b, network_epoch)'.failures <= failing'[b]
    <2> SUFFICES ASSUME NEW b \in Addresses
                 PROVE  Ranking!HealthOf(b, network_epoch)'.failures <= failing'[b]
      OBVIOUS
    <2> DEFINE l == <<b, network_epoch>>
    <2>1. l \in Ranking!Keys
      BY <1>1 DEF Ranking!Keys
    <2>2. /\ Ranking!HealthOf(b, network_epoch).failures <= failing[b]
          /\ failing[b] \in Nat /\ failing'[b] \in Nat
      BY <1>1, <1>7 DEF RankingInv, Ranking!NoInheritedFailures
    <2>3. Ranking!HealthOf(b, network_epoch)'
              = IF health'[l] # NoHealth THEN health'[l] ELSE Ranking!Untried
      BY <1>1, <2>1 DEF Ranking!HealthOf, Ranking!HealthKey, Ranking!Known
    <2>4. Ranking!HealthOf(b, network_epoch)
              = IF health[l] # NoHealth THEN health[l] ELSE Ranking!Untried
      BY <2>1 DEF Ranking!HealthOf, Ranking!HealthKey, Ranking!Known
    <2>5. Ranking!Untried.failures = 0
      BY DEF Ranking!Untried
    <2>6. CASE b = a /\ e = network_epoch
      <3>1. l = k /\ health'[l] = u
        BY <1>6, <2>6
      <3>2. u.failures <= failing'[b]
        BY <1>3, <1>4, <1>7, <2>2, <2>6 DEF Ranking!Health
      <3>3. QED
        BY <2>2, <2>3, <2>5, <3>1, <3>2
    <2>7. CASE ~(b = a /\ e = network_epoch)
      <3>1. l # k /\ failing'[b] = failing[b]
        BY <1>7, <2>7
      <3>2. health'[l] = NoHealth \/ health'[l] = health[l]
        BY <1>6, <2>1, <3>1
      <3>3. QED
        BY <2>2, <2>3, <2>4, <2>5, <3>1, <3>2
    <2>8. QED
      BY <2>6, <2>7
  <1>12. CountInv'
    <2>1. ASSUME NEW l \in Ranking!Known'
          PROVE  health'[l].failures <= reports' /\ health'[l].successes <= reports'
      <3>1. CASE l = k
        BY <1>1, <1>3, <1>4, <1>6, <3>1 DEF Ranking!Health
      <3>2. CASE l # k
        <4>1. l \in Ranking!Keys /\ health'[l] # NoHealth
          BY <2>1 DEF Ranking!Known
        <4>2. l \in Ranking!Known /\ health'[l] = health[l]
          BY <1>6, <3>2, <4>1 DEF Ranking!Known
        <4>3. health[l].failures <= reports /\ health[l].successes <= reports
          BY <4>2 DEF RankingInv, CountInv
        <4>4. health[l] \in Ranking!Health
          BY <1>1, <4>1, <4>2
        <4>5. QED
          BY <1>1, <4>2, <4>3, <4>4 DEF Ranking!Health
      <3>3. QED
        BY <3>1, <3>2
    <2>2. QED
      BY <1>7, <2>1 DEF CountInv
  <1>13. QED
    BY <1>8, <1>10, <1>11, <1>12 DEF RankingInv, Ranking!NoInheritedFailures

(* Ranking writes the RTT of the list only; a new network starts anew.     *)
LEMMA RankingOther ==
    ASSUME Ranking!RankingAssumption, RankingInv,
           (\E fresh \in BOOLEAN : Ranking!Rank(fresh)) \/ Ranking!OnNetworkChange
    PROVE  RankingInv'
  <1>1. CASE \E fresh \in BOOLEAN : Ranking!Rank(fresh)
    <2>1. UNCHANGED <<network_epoch, health, failing, reports>>
      BY <1>1 DEF Ranking!Rank
    <2>2. \A a \in Addresses : Ranking!HealthOf(a, network_epoch).rtt \in Nat \cup {-1}
      BY DEF RankingInv, Ranking!NoInheritedFailures, Ranking!TypeOK, Ranking!HealthOf,
         Ranking!HealthKey, Ranking!Known, Ranking!Untried, Ranking!Keys, Ranking!Health
    <2>3. \A a \in Addresses : Ranking!RankRtt(a) \in Nat \cup {-1}
      BY <2>2 DEF Ranking!RankRtt, RankingInv, Ranking!NoInheritedFailures, Ranking!TypeOK
    <2>4. cached' \in [Addresses -> Nat \cup {-1}]
      BY <1>1, <2>3 DEF Ranking!Rank
    <2>5. Ranking!TypeOK'
      BY <2>1, <2>4 DEF RankingInv, Ranking!NoInheritedFailures, Ranking!TypeOK
    <2>6. QED
      BY <2>1, <2>5 DEF RankingInv, Ranking!NoInheritedFailures, CountInv,
         Ranking!HealthBounded, Ranking!HealthOf, Ranking!Known
  <1>2. CASE Ranking!OnNetworkChange
    <2>1. Ranking!TypeOK'
      BY <1>2, RankingTypes DEF RankingInv, Ranking!NoInheritedFailures, Ranking!TypeOK,
         Ranking!OnNetworkChange, Ranking!Epochs
    <2>2. Ranking!Known' = {}
      BY <1>2 DEF Ranking!OnNetworkChange, Ranking!Known
    <2>3. Ranking!HealthBounded'
      BY <2>2, FS_EmptySet, RankingTypes, SameCardinality DEF Ranking!HealthBounded
    <2>4. \A a \in Addresses : Ranking!HealthOf(a, network_epoch)'.failures <= failing'[a]
      BY <1>2, <2>2 DEF Ranking!HealthOf, Ranking!Untried, Ranking!OnNetworkChange
    <2>5. CountInv'
      BY <1>2, <2>2 DEF CountInv, Ranking!OnNetworkChange, RankingInv,
         Ranking!NoInheritedFailures, Ranking!TypeOK
    <2>6. QED
      BY <2>1, <2>3, <2>4, <2>5 DEF RankingInv, Ranking!NoInheritedFailures
  <1>3. QED
    BY <1>1, <1>2

LEMMA RankingInvariant == Ranking!Spec => []RankingInv
  <1>1. Ranking!Init => RankingInv
    BY RankingInit, KnowledgeAssumption
  <1>2. RankingInv /\ [Ranking!Next]_(Ranking!vars) => RankingInv'
    <2> SUFFICES ASSUME RankingInv, [Ranking!Next]_(Ranking!vars) PROVE RankingInv'
      OBVIOUS
    <2>1. \A ms \in Rtts : ms \in Nat \cup {-1}
      BY KnowledgeAssumption DEF Ranking!RankingAssumption
    <2>2. CASE Ranking!OutOfModel \/ UNCHANGED Ranking!vars
      BY <2>2 DEF Ranking!OutOfModel, Ranking!vars, RankingInv, Ranking!NoInheritedFailures,
         Ranking!TypeOK, CountInv, Ranking!HealthBounded, Ranking!HealthOf, Ranking!Known
    <2>3. QED
      BY <2>1, <2>2, RankingReport, RankingOther, KnowledgeAssumption DEF Ranking!Next
  <1>3. QED
    BY <1>1, <1>2, PTL DEF Ranking!Spec

(* An address pays for its own failures in a row on this network only, and *)
(* the health table keeps to max_health_entries.                           *)
THEOREM FailuresAreNotInherited == Ranking!Spec => []NoInheritedFailures
  <1>1. RankingInv => NoInheritedFailures
    BY DEF RankingInv, NoInheritedFailures
  <1>2. QED
    BY <1>1, RankingInvariant, PTL

AnyHealth == [rtt : Nat \cup {-1}, failures : Nat, successes : Nat, updated : Nat]

(* The health an address is ranked by, and its RTT.                        *)
LEMMA RankedBy ==
    ASSUME Ranking!TypeOK, Ranking!RankingAssumption, NEW a \in Addresses
    PROVE  /\ Ranking!HealthOf(a, network_epoch) \in AnyHealth
           /\ Ranking!RankRtt(a) \in Nat \cup {-1}
  <1> DEFINE h == Ranking!HealthOf(a, network_epoch)
  <1>1. Ranking!Health \subseteq AnyHealth
    BY RankingTypes DEF Ranking!Health, AnyHealth
  <1>2. h = Ranking!Untried \/ h \in Ranking!Health
    BY DEF Ranking!HealthOf, Ranking!HealthKey, Ranking!Known, Ranking!TypeOK
  <1>3. h \in AnyHealth
    BY <1>1, <1>2 DEF Ranking!Untried, AnyHealth
  <1>4. QED
    BY <1>3 DEF Ranking!RankRtt, Ranking!TypeOK, AnyHealth

(* Four failures in a row outweigh any quality, RTT and earlier success.   *)
THEOREM BadAddressesComeLast == Ranking!Spec => []BadAddressesYield
  <1>1. RankingInv => BadAddressesYield
    <2> SUFFICES ASSUME RankingInv, NEW a \in Addresses, NEW b \in Addresses,
                        Ranking!HealthOf(a, network_epoch).failures >= 4,
                        Ranking!HealthOf(b, network_epoch).failures = 0,
                        Ranking!RankRtt(b) <= 500, NEW q \in Ranking!Qualities
                 PROVE  Ranking!Score(q, Ranking!HealthOf(a, network_epoch), Ranking!RankRtt(a))
                            < Ranking!Score(q, Ranking!HealthOf(b, network_epoch), Ranking!RankRtt(b))
      BY DEF BadAddressesYield, Ranking!BadAddressesYield
    <2> DEFINE ha == Ranking!HealthOf(a, network_epoch)
               hb == Ranking!HealthOf(b, network_epoch)
               ra == Ranking!RankRtt(a)
               rb == Ranking!RankRtt(b)
    <2>1. /\ ha.failures \in Nat /\ ha.successes \in Nat /\ hb.failures \in Nat
          /\ hb.successes \in Nat /\ ra \in Nat \cup {-1} /\ rb \in Nat \cup {-1}
      BY RankedBy, KnowledgeAssumption DEF AnyHealth, RankingInv, Ranking!NoInheritedFailures
    <2> HIDE DEF ha, hb, ra, rb
    <2>2. /\ Ranking!FailurePenalty(ha.failures) \in Int
          /\ Ranking!FailurePenalty(ha.failures) >= 2000
      BY <2>1 DEF Ranking!FailurePenalty, Ranking!Least, ha
    <2>3. Ranking!FailurePenalty(hb.failures) = 0
      BY <2>1 DEF Ranking!FailurePenalty, Ranking!Least, hb
    <2>4. /\ Ranking!SuccessBonus(q, ha.successes) \in 0 .. 500
          /\ Ranking!SuccessBonus(q, hb.successes) \in 0 .. 500
          /\ q = "good" => Ranking!SuccessBonus(q, ha.successes) = 0
      BY <2>1 DEF Ranking!SuccessBonus, Ranking!Least
    <2>5. /\ Ranking!RttPenalty(ra) \in Nat /\ Ranking!RttPenalty(rb) \in Nat
          /\ rb >= 0 => Ranking!RttPenalty(rb) <= 1000
          /\ rb < 0 => Ranking!RttPenalty(rb) = 500
      BY <2>1 DEF Ranking!RttPenalty, Ranking!Least, rb
    <2>6. /\ Ranking!QualityPenalty(q, ra) \in Nat /\ Ranking!QualityPenalty(q, rb) \in Nat
          /\ Ranking!QualityPenalty(q, rb) <= Ranking!QualityPenalty(q, ra) + 500
          /\ rb >= 0 => Ranking!QualityPenalty(q, rb) <= Ranking!QualityPenalty(q, ra)
      BY <2>1 DEF Ranking!QualityPenalty, Ranking!Qualities
    <2>7. Ranking!Score(q, ha, ra) < Ranking!Score(q, hb, rb)
      <3> DEFINE R == Ranking!RttPenalty(ra)
                 r == Ranking!RttPenalty(rb)
                 F == Ranking!FailurePenalty(ha.failures)
                 f == Ranking!FailurePenalty(hb.failures)
                 Q == Ranking!QualityPenalty(q, ra)
                 p == Ranking!QualityPenalty(q, rb)
                 S == Ranking!SuccessBonus(q, ha.successes)
                 t == Ranking!SuccessBonus(q, hb.successes)
      <3>1. /\ Ranking!Score(q, ha, ra) = 10000 - R - F - Q + S
            /\ Ranking!Score(q, hb, rb) = 10000 - r - f - p + t
        BY DEF Ranking!Score
      <3>2. /\ R \in Nat /\ r \in Nat /\ F \in Int /\ F >= 2000 /\ f = 0 /\ Q \in Nat
            /\ p \in Nat /\ S \in 0 .. 500 /\ t \in 0 .. 500
        BY <2>2, <2>3, <2>4, <2>5, <2>6
      <3>3. r + p <= 1000 + Q
        BY <2>1, <2>5, <2>6
      <3> HIDE DEF R, r, F, f, Q, p, S, t
      <3>4. 10000 - R - F - Q + S < 10000 - r - f - p + t
        BY <3>2, <3>3
      <3>5. QED
        BY <3>1, <3>4
    <2>8. QED
      BY <2>7 DEF ha, hb, ra, rb
  <1>2. QED
    BY <1>1, RankingInvariant, PTL
-----------------------------------------------------------------------------
(* The run of good samples is one of successes.  The measurements are      *)
(* numbers, -1 for unknown, so that a score is one too.                    *)
RunInv ==
    /\ samples \in Nat /\ failures \in Nat /\ good \in Nat /\ run \in Nat
    /\ score \in Int /\ rtt \in Int /\ loss \in Int /\ bandwidth \in Int
    /\ good <= run

LEMMA SampleTypes ==
    ASSUME Prober!ProberAssumption, NEW s \in Samples
    PROVE  s.rtt \in Int /\ s.loss \in Int /\ s.bandwidth \in Int
  BY DEF Prober!ProberAssumption

LEMMA ScoreType ==
    ASSUME NEW ms \in Int, NEW permil \in Int, NEW kbps \in Int
    PROVE  Prober!Score(ms, permil, kbps) \in Int
  <1>1. Prober!RttPenalty(ms) \in Int
    BY DEF Prober!RttPenalty
  <1>2. Prober!LossPenalty(permil) \in Int
    BY DEF Prober!LossPenalty, Prober!Least
  <1>3. Prober!BandwidthPenalty(kbps) \in Int
    BY DEF Prober!BandwidthPenalty
  <1>4. QED
    BY <1>1, <1>2, <1>3 DEF Prober!Score, Prober!Most

(* update_loss leaves numbers behind.                                      *)
LEMMA CountTypes ==
    ASSUME RunInv, NEW n \in 0 .. 1, Prober!Count(n)
    PROVE  samples' \in Nat /\ failures' \in Nat /\ loss' \in Int
  <1>1. samples' \in Nat \ {0} /\ failures' \in Nat
    BY DEF RunInv, Prober!Count
  <1>2. (failures' * 1000) \div samples' \in Int
    BY <1>1
  <1>3. QED
    BY <1>1, <1>2 DEF Prober!Count, Prober!Least

(* A failure ends the run.                                                 *)
LEMMA RunAfterFailure ==
    ASSUME RunInv, NEW s, Prober!Fail(s)
    PROVE  RunInv' /\ (quality' = "good" => quality = "good")
  <1>1. samples' \in Nat /\ failures' \in Nat /\ loss' \in Int
    BY CountTypes DEF Prober!Fail
  <1>2. RunInv'
    BY <1>1 DEF RunInv, Prober!Fail, Prober!Record
  <1>3. QED
    BY <1>2 DEF Prober!Fail, Prober!QualityAfterFailure

(* A success adds to it, and a good sample to both counts.                 *)
LEMMA RunAfterSuccess ==
    ASSUME Prober!ProberAssumption, RunInv, NEW s \in Samples, Prober!Succeed(s)
    PROVE  /\ RunInv'
           /\ quality' = "good" /\ quality \notin {"good", "unknown"}
                  => run' >= Prober!GoodToRecover
  <1> DEFINE measure == Prober!Score(rtt', IF loss >= 0 THEN loss ELSE s.loss, bandwidth')
             n == IF measure >= 0 THEN measure ELSE score
  <1>1. /\ samples' \in Nat /\ failures' \in Nat /\ loss' \in Int
        /\ run' = run + 1 /\ Prober!AfterSuccess(network', n)
    BY CountTypes DEF Prober!Succeed, Prober!Record
  <1>2. rtt' \in Int
    <2>1. ASSUME NEW x \in Int, NEW y \in Int PROVE (x * 7 + y * 3) \div 10 \in Int
      OBVIOUS
    <2>2. QED
      BY <2>1, SampleTypes DEF Prober!Succeed, Prober!Smoothed, RunInv
  <1>3. bandwidth' \in Int
    BY SampleTypes DEF Prober!Succeed, RunInv
  <1>4. n \in Int
    BY <1>2, <1>3, ScoreType, SampleTypes DEF RunInv
  <1> HIDE DEF n
  <1>5. /\ score' \in Int /\ good' \in Nat /\ good' <= good + 1
        /\ quality' = "good" => quality \in {"good", "unknown"} \/ good' >= Prober!GoodToRecover
    <2>1. CASE network' = "none"
      BY <1>1, <2>1 DEF Prober!AfterSuccess, RunInv
    <2>2. CASE network' # "none"
      <3>1. score' = n
        BY <1>1, <2>2 DEF Prober!AfterSuccess
      <3>2. CASE n < 0
        <4>0. ~(n >= 0) /\ ~(n >= Prober!WeakScore) /\ ~(n >= Prober!DegradedScore)
          BY <1>4, <3>2 DEF Prober!WeakScore, Prober!DegradedScore
        <4>1. UNCHANGED <<quality, good>>
          BY <1>1, <2>2, <3>2, <4>0, Zenon DEF Prober!AfterSuccess
        <4>2. QED
          BY <1>4, <3>1, <4>1 DEF RunInv
      <3>3. CASE n >= 0 /\ n < Prober!DegradedScore
        <4>0. /\ ~(n < 0) /\ ~(n >= Prober!DegradedScore)
              /\ (n < Prober!WeakScore \/ n >= Prober!WeakScore)
          BY <1>4, <3>3 DEF Prober!WeakScore, Prober!DegradedScore
        <4>1. quality' \in {"bad", "degraded"} /\ good' = 0
          BY <1>1, <2>2, <3>3, <4>0, Zenon DEF Prober!AfterSuccess
        <4>2. QED
          BY <1>4, <3>1, <4>1 DEF RunInv
      <3>4. CASE n >= Prober!DegradedScore
        BY <1>1, <1>4, <2>2, <3>1, <3>4 DEF Prober!AfterSuccess, RunInv, Prober!WeakScore,
           Prober!DegradedScore
      <3>5. QED
        BY <1>4, <3>2, <3>3, <3>4 DEF Prober!DegradedScore
    <2>3. QED
      BY <2>1, <2>2
  <1>6. RunInv'
    BY <1>1, <1>2, <1>3, <1>5 DEF RunInv
  <1>7. QED
    BY <1>1, <1>5, <1>6 DEF RunInv, Prober!GoodToRecover

(* Once the network was worse than good, it is good again only after       *)
(* good_samples_to_recover successes in a row.                             *)
THEOREM RecoveryNeedsARun == Prober!Spec => GoodNeedsARun
  <1>1. Prober!Init => RunInv
    BY DEF Prober!Init, RunInv
  <1>2. ASSUME RunInv, [Prober!Next]_(Prober!vars)
        PROVE  /\ RunInv'
               /\ [quality' = "good" /\ quality \notin {"good", "unknown"}
                      => run' >= Prober!GoodToRecover]_(Prober!vars)
    <2>1. CASE Prober!Observe
      BY <1>2, <2>1, RunAfterFailure, RunAfterSuccess, KnowledgeAssumption DEF Prober!Observe
    <2>2. ASSUME NEW net \in Prober!Networks, Prober!OnNetworkChange(net)
          PROVE  RunInv' /\ quality' # "good"
      BY <2>2 DEF Prober!OnNetworkChange, RunInv
    <2>3. CASE UNCHANGED Prober!vars
      BY <1>2, <2>3 DEF Prober!vars, Prober!measured, Prober!observed, RunInv
    <2>4. QED
      BY <1>2, <2>1, <2>2, <2>3 DEF Prober!Next
  <1>3. QED
    BY <1>1, <1>2, PTL DEF Prober!Spec, GoodNeedsARun, Prober!GoodNeedsARun
-----------------------------------------------------------------------------
(* However slow the samples were, k fast ones bring the smoothed RTT below *)
(* FastRtt: E[n] is a bound for it after n of them.                        *)
Damps(E, k) ==
    /\ k \in Nat \ {0} /\ E \in [0 .. k -> Nat]
    /\ \A s \in Samples : s.rtt <= E[0]
    /\ \A n \in 0 .. k - 1, s \in Samples :
          s.rtt \in 0 .. Prober!FastRtt - 1 =>
              s.rtt <= E[n + 1] /\ (E[n] * 7 + s.rtt * 3) \div 10 <= E[n + 1]
    /\ E[k] < Prober!FastRtt

(* From the k-th fast sample on every one is a good one, and three good    *)
(* ones make the quality good.                                             *)
RecoveryInv(E, k) ==
    /\ Prober!TypeOK /\ Prober!NoNetworkIsOffline
    /\ rtt <= E[0]
    /\ \A n \in 1 .. k : fast = n => rtt \in 0 .. E[n]
    /\ fast >= k => rtt \in 0 .. Prober!FastRtt - 1 /\ good >= fast - k + 1
    /\ good >= Prober!GoodToRecover => quality = "good"

(* A smoothed RTT lies between the old one and the sample.                 *)
LEMMA Smoothing ==
    ASSUME NEW x \in Nat, NEW y \in Nat, NEW b \in Nat
    PROVE  /\ (x * 7 + y * 3) \div 10 \in Nat
           /\ x <= b /\ y <= b => (x * 7 + y * 3) \div 10 <= b
           /\ x <= b => (x * 7 + y * 3) \div 10 <= (b * 7 + y * 3) \div 10
  OBVIOUS

(* The penalties leave a score between 0 and 100, or none.                 *)
LEMMA ScoreRange ==
    ASSUME NEW ms \in Int, NEW permil \in Int, NEW kbps \in Int
    PROVE  /\ Prober!Score(ms, permil, kbps) \in -1 .. 100
           /\ ms \in 0 .. Prober!FastRtt - 1 /\ Prober!BandwidthPenalty(kbps) = 0
                => Prober!Score(ms, permil, kbps) >= Prober!DegradedScore
  <1>1. /\ Prober!RttPenalty(ms) \in 0 .. 70
        /\ ms \in 0 .. Prober!FastRtt - 1 => Prober!RttPenalty(ms) = 0
    BY DEF Prober!RttPenalty, Prober!FastRtt
  <1>2. Prober!LossPenalty(permil) \in 0 .. 30
    <2>1. permil >= 0 => permil \div 2 \in Nat
      OBVIOUS
    <2>2. QED
      BY <2>1 DEF Prober!LossPenalty, Prober!Least
  <1>3. Prober!BandwidthPenalty(kbps) \in 0 .. 20
    BY DEF Prober!BandwidthPenalty
  <1>4. QED
    BY <1>1, <1>2, <1>3 DEF Prober!Score, Prober!Most, Prober!DegradedScore, Prober!FastRtt

(* update_loss.                                                            *)
LEMMA CountRange ==
    ASSUME MaxSamples \in Nat, Prober!TypeOK, samples < MaxSamples, NEW n \in 0 .. 1,
           Prober!Count(n)
    PROVE  /\ samples' \in 0 .. MaxSamples /\ samples' = samples + 1
           /\ failures' \in 0 .. samples' /\ failures' = failures + n
           /\ loss' \in -1 .. 1000
  <1>1. /\ samples' \in 1 .. MaxSamples /\ samples' = samples + 1
        /\ failures' \in 0 .. samples' /\ failures' = failures + n
    BY DEF Prober!TypeOK, Prober!Count
  <1>2. (failures' * 1000) \div samples' \in Nat
    <2>1. \A a \in Nat, b \in Nat \ {0} : a \div b \in Nat
      OBVIOUS
    <2>2. failures' * 1000 \in Nat /\ samples' \in Nat \ {0}
      BY <1>1
    <2>3. QED
      BY <2>1, <2>2
  <1>3. loss' = Prober!Least(1000, (failures' * 1000) \div samples')
    BY DEF Prober!Count
  <1>4. loss' \in -1 .. 1000
    BY <1>2, <1>3 DEF Prober!Least
  <1>5. QED
    BY <1>1, <1>4

(* A failure ends the run of fast samples and that of good ones.           *)
LEMMA RecoveryAfterFailure ==
    ASSUME Prober!ProberAssumption, NEW E, NEW k, Damps(E, k), RecoveryInv(E, k),
           NEW s \in Samples, Prober!Fail(s), samples < MaxSamples, trouble' <= MaxTrouble
    PROVE  RecoveryInv(E, k)'
  <1>1. /\ samples' \in 0 .. MaxSamples /\ samples' = samples + 1
        /\ failures' \in 0 .. samples' /\ failures' = failures + 1
        /\ loss' \in -1 .. 1000
    BY CountRange DEF RecoveryInv, Prober!ProberAssumption, Prober!Fail
  <1>2. network' \in Prober!Networks
    BY DEF RecoveryInv, Prober!TypeOK, Prober!Fail, Prober!NetworkAfter, Prober!Networks,
       Prober!ProberAssumption
  <1>3. /\ quality' \in Prober!Qualities
        /\ network' = "none" => quality' = "offline"
    BY <1>2 DEF RecoveryInv, Prober!TypeOK, Prober!Fail, Prober!QualityAfterFailure,
       Prober!Qualities
  <1>4. run' = 0 /\ fast' = 0 /\ trouble' \in 0 .. MaxTrouble /\ good' = 0 /\ score' = 0
    BY DEF RecoveryInv, Prober!TypeOK, Prober!Fail, Prober!Record, Prober!ProberAssumption
  <1>5. Prober!TypeOK'
    <2>1. failed' \in 0 .. failures'
      BY <1>1 DEF RecoveryInv, Prober!TypeOK, Prober!Fail
    <2>2. UNCHANGED <<rtt, bandwidth>>
      BY DEF Prober!Fail
    <2>3. QED
      BY <1>1, <1>2, <1>3, <1>4, <2>1, <2>2 DEF RecoveryInv, Prober!TypeOK
  <1>6. QED
    BY <1>3, <1>4, <1>5 DEF RecoveryInv, Prober!NoNetworkIsOffline, Prober!Fail, Damps,
       Prober!GoodToRecover

(* What a score does to quality and the run of good samples.               *)
LEMMA AfterScore ==
    ASSUME Prober!TypeOK, NEW net \in Prober!Networks, NEW n \in -1 .. 100,
           good >= Prober!GoodToRecover => quality = "good",
           Prober!AfterSuccess(net, n)
    PROVE  /\ quality' \in Prober!Qualities /\ score' \in -1 .. 100 /\ good' \in 0 .. good + 1
           /\ net = "none" => quality' = "offline" /\ score' = 0
           /\ net # "none" /\ n >= Prober!DegradedScore => good' = good + 1
           /\ good' >= Prober!GoodToRecover => quality' = "good"
  <1> USE DEF Prober!TypeOK, Prober!Qualities, Prober!GoodToRecover
  <1>1. CASE net = "none"
    BY <1>1 DEF Prober!AfterSuccess
  <1>2. CASE net # "none"
    <2>1. score' = n
      BY <1>2 DEF Prober!AfterSuccess
    <2>2. CASE n < 0
      <3>1. ~(n >= 0) /\ ~(n >= Prober!WeakScore) /\ ~(n >= Prober!DegradedScore)
        BY <2>2 DEF Prober!WeakScore, Prober!DegradedScore
      <3>2. UNCHANGED <<quality, good>>
        BY <1>2, <2>2, <3>1, Zenon DEF Prober!AfterSuccess
      <3>3. QED
        BY <1>2, <2>1, <3>1, <3>2
    <2>3. CASE n >= 0 /\ n < Prober!DegradedScore
      <3>1. /\ ~(n < 0) /\ ~(n >= Prober!DegradedScore)
            /\ (n < Prober!WeakScore \/ n >= Prober!WeakScore)
        BY <2>3 DEF Prober!WeakScore, Prober!DegradedScore
      <3>2. quality' \in {"bad", "degraded"} /\ good' = 0
        BY <1>2, <2>3, <3>1, Zenon DEF Prober!AfterSuccess
      <3>3. QED
        BY <1>2, <2>1, <3>1, <3>2
    <2>4. CASE n >= Prober!DegradedScore
      <3>1. /\ good' = good + 1
            /\ quality' = IF quality \in {"unknown", "good"} \/ good' >= 3
                          THEN "good" ELSE quality
        BY <1>2, <2>4 DEF Prober!AfterSuccess, Prober!WeakScore, Prober!DegradedScore
      <3>2. QED
        BY <1>2, <2>1, <3>1
    <2>5. QED
      BY <2>2, <2>3, <2>4 DEF Prober!DegradedScore
  <1>3. QED
    BY <1>1, <1>2

(* A fast sample over a wide link takes the RTT one bound further.         *)
LEMMA RttAfterSuccess ==
    ASSUME Prober!ProberAssumption, NEW E, NEW k, Damps(E, k), RecoveryInv(E, k),
           NEW s \in Samples, rtt' = Prober!Smoothed(s.rtt),
           fast' \in {0, fast + 1}, fast' # 0 => s.rtt \in 0 .. Prober!FastRtt - 1
    PROVE  /\ rtt' \in Nat \cup {-1} /\ rtt' <= E[0]
           /\ \A n \in 1 .. k : fast' = n => rtt' \in 0 .. E[n]
           /\ fast' >= k => rtt' \in 0 .. Prober!FastRtt - 1
  <1>1. /\ k \in Nat \ {0} /\ \A n \in 0 .. k : E[n] \in Nat
        /\ fast \in Nat /\ rtt \in Nat \cup {-1} /\ rtt <= E[0]
        /\ s.rtt \in Nat \cup {-1} /\ s.rtt <= E[0]
    BY DEF Damps, RecoveryInv, Prober!TypeOK, Prober!ProberAssumption
  <1>2. rtt' \in Nat \cup {-1} /\ rtt' <= E[0]
    BY <1>1, Smoothing DEF Prober!Smoothed
  <1>3. ASSUME NEW n \in 0 .. k - 1, fast = n, fast' = n + 1
        PROVE  rtt' \in 0 .. E[n + 1]
    <2>1. /\ s.rtt \in Nat /\ s.rtt <= E[n + 1]
          /\ (E[n] * 7 + s.rtt * 3) \div 10 <= E[n + 1]
      <3>1. fast' # 0
        BY <1>1, <1>3
      <3>2. s.rtt \in 0 .. Prober!FastRtt - 1
        BY <3>1
      <3>3. s.rtt <= E[n + 1] /\ (E[n] * 7 + s.rtt * 3) \div 10 <= E[n + 1]
        BY <3>2 DEF Damps
      <3>4. QED
        BY <1>1, <3>2, <3>3 DEF Prober!FastRtt
    <2>2. CASE rtt < 0
      BY <1>1, <2>1, <2>2 DEF Prober!Smoothed
    <2>3. CASE rtt \in Nat
      <3>1. rtt <= E[n]
        BY <1>1, <1>3 DEF RecoveryInv
      <3>2. rtt' = (rtt * 7 + s.rtt * 3) \div 10
        BY <2>1, <2>3 DEF Prober!Smoothed
      <3>3. (rtt * 7 + s.rtt * 3) \div 10 <= (E[n] * 7 + s.rtt * 3) \div 10
        BY <1>1, <2>1, <2>3, <3>1, Smoothing
      <3>4. (rtt * 7 + s.rtt * 3) \div 10 \in Nat /\ (E[n] * 7 + s.rtt * 3) \div 10 \in Nat
        BY <1>1, <2>1, <2>3, Smoothing
      <3>5. n + 1 \in 0 .. k
        BY <1>1
      <3>6. QED
        BY <1>1, <2>1, <3>2, <3>3, <3>4, <3>5
    <2>4. QED
      BY <1>1, <2>2, <2>3
  <1>4. \A n \in 1 .. k : fast' = n => rtt' \in 0 .. E[n]
    <2>1. SUFFICES ASSUME NEW n \in 1 .. k, fast' = n PROVE rtt' \in 0 .. E[n]
      OBVIOUS
    <2>2. n - 1 \in 0 .. k - 1 /\ fast = n - 1 /\ (n - 1) + 1 = n
      BY <1>1, <2>1
    <2>3. QED
      BY <1>3, <2>1, <2>2
  <1>5. ASSUME fast' >= k PROVE rtt' \in 0 .. Prober!FastRtt - 1
    <2>1. CASE fast' = k
      <3>1. k \in 1 .. k /\ E[k] \in Nat /\ E[k] < Prober!FastRtt
        BY <1>1 DEF Damps
      <3>2. rtt' \in 0 .. E[k]
        BY <1>4, <2>1, <3>1
      <3>3. QED
        BY <3>1, <3>2 DEF Prober!FastRtt
    <2>2. CASE fast' > k
      <3>1. /\ fast >= k /\ rtt \in 0 .. Prober!FastRtt - 1
            /\ s.rtt \in 0 .. Prober!FastRtt - 1
        BY <1>1, <2>2 DEF RecoveryInv
      <3>2. (rtt * 7 + s.rtt * 3) \div 10 \in 0 .. Prober!FastRtt - 1
        <4>1. rtt \in Nat /\ s.rtt \in Nat /\ rtt <= 99 /\ s.rtt <= 99
          BY <3>1 DEF Prober!FastRtt
        <4>2. /\ (rtt * 7 + s.rtt * 3) \div 10 \in Nat
              /\ (rtt * 7 + s.rtt * 3) \div 10 <= 99
          BY <4>1, Smoothing
        <4>3. QED
          BY <4>2 DEF Prober!FastRtt
      <3>3. QED
        BY <3>1, <3>2 DEF Prober!Smoothed, Prober!FastRtt
    <2>3. QED
      BY <1>1, <1>5, <2>1, <2>2
  <1>6. QED
    BY <1>2, <1>4, <1>5

(* A success.                                                              *)
LEMMA RecoveryAfterSuccess ==
    ASSUME Prober!ProberAssumption, NEW E, NEW k, Damps(E, k), RecoveryInv(E, k),
           NEW s \in Samples, Prober!Succeed(s), samples < MaxSamples, trouble' <= MaxTrouble
    PROVE  RecoveryInv(E, k)'
  <1> DEFINE measure == Prober!Score(rtt', IF loss >= 0 THEN loss ELSE s.loss, bandwidth')
             n == IF measure >= 0 THEN measure ELSE score
  <1>0. Prober!TypeOK /\ k \in Nat \ {0} /\ E[0] \in Nat
    BY DEF RecoveryInv, Damps
  <1>1. /\ samples' \in 0 .. MaxSamples /\ samples' = samples + 1
        /\ failures' \in 0 .. samples' /\ failures' = failures
        /\ loss' \in -1 .. 1000
    BY <1>0, CountRange DEF Prober!TypeOK, Prober!ProberAssumption, Prober!Succeed
  <1>2. network' \in Prober!Networks
    BY <1>0 DEF Prober!TypeOK, Prober!Succeed, Prober!NetworkAfter, Prober!Networks,
       Prober!ProberAssumption
  <1>3. bandwidth' \in Nat \cup {-1}
    BY <1>0 DEF Prober!TypeOK, Prober!Succeed, Prober!ProberAssumption
  <1>4. /\ run' = run + 1 /\ fast' \in {0, fast + 1}
        /\ fast' # 0 => /\ s.rtt \in 0 .. Prober!FastRtt - 1 /\ network' # "none"
                        /\ Prober!BandwidthPenalty(bandwidth') = 0
        /\ trouble' \in 0 .. MaxTrouble
    BY <1>0 DEF Prober!TypeOK, Prober!Succeed, Prober!Record, Prober!ProberAssumption
  <1>5. /\ rtt' \in Nat \cup {-1} /\ rtt' <= E[0]
        /\ \A m \in 1 .. k : fast' = m => rtt' \in 0 .. E[m]
        /\ fast' >= k => rtt' \in 0 .. Prober!FastRtt - 1
    BY <1>4, RttAfterSuccess DEF Prober!Succeed
  <1>6. loss \in Int /\ s.loss \in Int /\ score \in -1 .. 100
    BY <1>0 DEF Prober!TypeOK, Prober!ProberAssumption
  <1>7. /\ n \in -1 .. 100
        /\ fast' >= k => n >= Prober!DegradedScore
    <2>0. /\ rtt' \in Int /\ bandwidth' \in Int
          /\ (IF loss >= 0 THEN loss ELSE s.loss) \in Int
      BY <1>3, <1>5, <1>6
    <2>1. measure \in -1 .. 100
      BY <2>0, ScoreRange
    <2>2. ASSUME fast' >= k PROVE measure >= Prober!DegradedScore
      <3>1. fast' # 0
        BY <1>0, <2>2
      <3>2. Prober!BandwidthPenalty(bandwidth') = 0 /\ rtt' \in 0 .. Prober!FastRtt - 1
        BY <1>4, <1>5, <2>2, <3>1
      <3>3. QED
        BY <2>0, <3>2, ScoreRange
    <2>3. QED
      BY <1>6, <2>1, <2>2 DEF Prober!DegradedScore
  <1>8. /\ quality' \in Prober!Qualities /\ score' \in -1 .. 100 /\ good' \in 0 .. good + 1
        /\ network' = "none" => quality' = "offline" /\ score' = 0
        /\ network' # "none" /\ n >= Prober!DegradedScore => good' = good + 1
        /\ good' >= Prober!GoodToRecover => quality' = "good"
    <2>1. Prober!AfterSuccess(network', n)
      BY DEF Prober!Succeed
    <2> HIDE DEF n
    <2>2. QED
      BY <1>0, <1>2, <1>7, <2>1, AfterScore DEF RecoveryInv
  <1> HIDE DEF n
  <1>9. Prober!TypeOK'
    <2>1. failed' = 0 /\ run' \in 0 .. samples' /\ fast' \in 0 .. run' /\ good' \in 0 .. samples'
      BY <1>0, <1>1, <1>4, <1>8 DEF Prober!TypeOK, Prober!Succeed
    <2>2. QED
      BY <1>1, <1>2, <1>3, <1>4, <1>5, <1>8, <2>1 DEF Prober!TypeOK
  <1>10. fast' >= k => good' >= fast' - k + 1
    <2>1. SUFFICES ASSUME fast' >= k PROVE good' >= fast' - k + 1
      OBVIOUS
    <2>2. fast' = fast + 1 /\ good' = good + 1
      BY <1>0, <1>4, <1>7, <1>8, <2>1
    <2>3. CASE fast >= k
      BY <1>0, <2>2, <2>3 DEF RecoveryInv, Prober!TypeOK
    <2>4. CASE fast < k
      BY <1>0, <2>1, <2>2, <2>4 DEF Prober!TypeOK
    <2>5. QED
      BY <1>0, <2>3, <2>4 DEF Prober!TypeOK
  <1>11. QED
    BY <1>5, <1>8, <1>9, <1>10 DEF RecoveryInv, Prober!NoNetworkIsOffline

(* Whatever the samples: if k fast ones dampen the slowest there are, then *)
(* two more make the network good again.                                   *)
THEOREM NetworksRecover ==
    ASSUME NEW E, NEW k, Damps(E, k), RecoverySamples >= k + 2
    PROVE  Prober!Spec => []RecoversInTime
  <1>0. Prober!ProberAssumption /\ k \in Nat \ {0} /\ E[0] \in Nat
    BY KnowledgeAssumption DEF Damps
  <1>1. Prober!Init => RecoveryInv(E, k)
    BY <1>0 DEF Prober!Init, RecoveryInv, Prober!TypeOK, Prober!NoNetworkIsOffline,
       Prober!Qualities, Prober!Networks, Prober!GoodToRecover, Prober!ProberAssumption
  <1>2. ASSUME RecoveryInv(E, k), [Prober!Next]_(Prober!vars)
        PROVE  RecoveryInv(E, k)'
    <2>1. CASE Prober!Observe
      BY <1>0, <1>2, <2>1, RecoveryAfterFailure, RecoveryAfterSuccess DEF Prober!Observe
    <2>2. ASSUME NEW net \in Prober!Networks, Prober!OnNetworkChange(net)
          PROVE  RecoveryInv(E, k)'
      BY <1>0, <2>2 DEF Prober!OnNetworkChange, RecoveryInv, Prober!TypeOK,
         Prober!NoNetworkIsOffline, Prober!Qualities, Prober!GoodToRecover,
         Prober!ProberAssumption
    <2>3. CASE UNCHANGED Prober!vars
      BY <1>2, <2>3 DEF Prober!vars, Prober!measured, Prober!observed, RecoveryInv,
         Prober!TypeOK, Prober!NoNetworkIsOffline
    <2>4. QED
      BY <1>2, <2>1, <2>2, <2>3 DEF Prober!Next
  <1>3. RecoveryInv(E, k) => RecoversInTime
    <2>1. SUFFICES ASSUME RecoveryInv(E, k), fast >= RecoverySamples PROVE quality = "good"
      BY DEF RecoveryInv, RecoversInTime, Prober!RecoversInTime
    <2>2. RecoverySamples \in Nat /\ fast \in Nat /\ good \in Nat
      BY <1>0, <2>1 DEF RecoveryInv, Prober!TypeOK, Prober!ProberAssumption
    <2>3. good >= Prober!GoodToRecover
      BY <1>0, <2>1, <2>2 DEF RecoveryInv, Prober!GoodToRecover
    <2>4. QED
      BY <2>1, <2>3 DEF RecoveryInv
  <1>4. QED
    BY <1>1, <1>2, <1>3, PTL DEF Prober!Spec

(* If no sample is slower than three seconds and the fast ones take 20 ms  *)
(* at most, thirteen will do.                                              *)
THEOREM ThirteenSamplesSuffice ==
    ASSUME RecoverySamples >= 13,
           \A s \in Samples : s.rtt <= 3000 /\ (s.rtt < Prober!FastRtt => s.rtt <= 20)
    PROVE  Prober!Spec => []RecoversInTime
  <1> DEFINE Bounds == <<3000, 2106, 1480, 1042, 735, 520, 370, 265, 191, 139, 103, 78>>
             E == [n \in 0 .. 11 |-> Bounds[n + 1]]
  <1>1. /\ E \in [0 .. 11 -> Nat]
        /\ E[0] = 3000 /\ E[1] = 2106 /\ E[2] = 1480 /\ E[3] = 1042 /\ E[4] = 735
        /\ E[5] = 520 /\ E[6] = 370 /\ E[7] = 265 /\ E[8] = 191 /\ E[9] = 139
        /\ E[10] = 103 /\ E[11] = 78
    OBVIOUS
  <1> HIDE DEF E
  <1>2. ASSUME NEW n \in 0 .. 10, NEW y \in 0 .. 20
        PROVE  y <= E[n + 1] /\ (E[n] * 7 + y * 3) \div 10 <= E[n + 1]
    BY <1>1
  <1>3. Damps(E, 11)
    <2>1. \A s \in Samples : s.rtt \in 0 .. Prober!FastRtt - 1 => s.rtt \in 0 .. 20
      BY DEF Prober!FastRtt
    <2>2. QED
      BY <1>1, <1>2, <2>1 DEF Damps, Prober!FastRtt
  <1>4. QED
    BY <1>3, NetworksRecover, KnowledgeAssumption DEF Prober!ProberAssumption
-----------------------------------------------------------------------------
LostOf(answers) == {j \in 1 .. Len(answers) : ~answers[j]}

(* A hop of the result, or one being filled, with time to live t.          *)
SoundHop(h, t) ==
    /\ h \in Trace!Hops /\ h.ttl = t /\ h.addr <= Trace!TtlOf(h)
    /\ h.reached => t >= Distance
    /\ Len(h.answers) <= ProbesPerHop
    /\ h.loss = Cardinality(LostOf(h.answers))

(* No error is from beyond the TTLs used so far, and the target has spoken *)
(* only if it was in their range.                                          *)
ErrorsInv ==
    /\ \A e \in flight : e.from <= ttl /\ (e.kind = "port" => ttl >= Distance)
    /\ \A i \in 1 .. Len(queue) :
          queue[i].from <= ttl /\ (queue[i].kind = "port" => ttl >= Distance)

(* The hop being filled.                                                   *)
HopInv ==
    at \in {"probe", "wait"} =>
        /\ ttl <= MaxHops /\ SoundHop(hop, ttl) /\ (hop.reached <=> reached)
        /\ at = "wait" => ~reached /\ ~done /\ Len(hop.answers) < ProbesPerHop

(* The hops so far: one per TTL, all probes done but for the last one's.   *)
HopsInv ==
    /\ at # "end" => Len(hops) = ttl - 1 /\ status = "none"
    /\ at = "start" => ttl = 1 /\ ~reached /\ ~done
    /\ \A i \in 1 .. Len(hops) :
        /\ SoundHop(hops[i], i)
        /\ hops[i].reached => i = Len(hops) /\ reached
        /\ i = Len(hops) \/ Len(hops[i].answers) = ProbesPerHop
        /\ at \in {"probe", "wait"} \/ (at = "hop" /\ ~reached /\ ~done) =>
              ~hops[i].reached /\ Len(hops[i].answers) = ProbesPerHop
        /\ status \in {"completed", "error"} => ~hops[i].reached
    /\ (at = "hop" /\ reached) \/ status = "reached" => hops # <<>> /\ hops[Len(hops)].reached

(* At most ProbesPerHop probes are sent for a TTL.                         *)
SentInv ==
    /\ at \in {"start", "hop"} => sent <= (ttl - 1) * ProbesPerHop
    /\ at = "probe" => sent <= (ttl - 1) * ProbesPerHop + Len(hop.answers)
    /\ at = "wait" => sent <= (ttl - 1) * ProbesPerHop + Len(hop.answers) + 1

TraceInv == Trace!TypeOK /\ ErrorsInv /\ HopInv /\ HopsInv /\ SentInv

LEMMA TraceTypes ==
    ASSUME Trace!TraceAssumption
    PROVE  /\ Distance \in Nat \ {0} /\ MaxHops \in Nat /\ ProbesPerHop \in Nat
           /\ MaxHops * ProbesPerHop \in Nat
  BY DEF Trace!TraceAssumption

(* The probes of t hops.                                                   *)
LEMMA ProbesOfHops ==
    ASSUME Trace!TraceAssumption, NEW t \in 1 .. MaxHops
    PROVE  /\ (t - 1) * ProbesPerHop \in Nat
           /\ (t - 1) * ProbesPerHop + ProbesPerHop = t * ProbesPerHop
           /\ t * ProbesPerHop <= MaxHops * ProbesPerHop
  <1>1. t \in Nat /\ t - 1 \in Nat /\ MaxHops - t \in Nat
    BY TraceTypes
  <1>2. ASSUME NEW x \in Nat, NEW y \in Nat PROVE x * y \in Nat
    OBVIOUS
  <1>3. (MaxHops - t) * ProbesPerHop \in Nat /\ (t - 1) * ProbesPerHop \in Nat
    BY <1>1, <1>2, TraceTypes
  <1>4. ASSUME NEW x \in Int, NEW y \in Int, NEW z \in Int PROVE (x - y) * z = x * z - y * z
    OBVIOUS
  <1>5. (MaxHops - t) * ProbesPerHop = MaxHops * ProbesPerHop - t * ProbesPerHop
    BY <1>1, <1>4, TraceTypes
  <1>6. (t - 1) * ProbesPerHop = t * ProbesPerHop - 1 * ProbesPerHop
    BY <1>1, <1>4, TraceTypes
  <1>7. t * ProbesPerHop \in Nat
    BY <1>1, <1>2, TraceTypes
  <1>8. QED
    BY <1>3, <1>5, <1>6, <1>7, TraceTypes

(* An answer more: the lost ones are the same or one more.                 *)
LEMMA LostAfter ==
    ASSUME NEW answers \in Seq(BOOLEAN)
    PROVE  /\ IsFiniteSet(LostOf(answers))
           /\ Cardinality(LostOf(answers)) \in 0 .. Len(answers)
           /\ LostOf(Append(answers, TRUE)) = LostOf(answers)
           /\ Cardinality(LostOf(Append(answers, FALSE))) = Cardinality(LostOf(answers)) + 1
  <1>1. Len(answers) \in Nat
    OBVIOUS
  <1>2. IsFiniteSet(1 .. Len(answers)) /\ Cardinality(1 .. Len(answers)) = Len(answers)
    BY <1>1, FS_Interval
  <1>3. LostOf(answers) \subseteq 1 .. Len(answers)
    BY DEF LostOf
  <1>4. IsFiniteSet(LostOf(answers)) /\ Cardinality(LostOf(answers)) \in 0 .. Len(answers)
    BY <1>1, <1>2, <1>3, FS_Subset, FS_CardinalityType
  <1>5. ASSUME NEW b \in BOOLEAN
        PROVE  /\ Len(Append(answers, b)) = Len(answers) + 1
               /\ Append(answers, b)[Len(answers) + 1] = b
               /\ \A j \in 1 .. Len(answers) : Append(answers, b)[j] = answers[j]
    OBVIOUS
  <1>6. LostOf(Append(answers, TRUE)) = LostOf(answers)
    BY <1>1, <1>5 DEF LostOf
  <1>7. LostOf(Append(answers, FALSE)) = LostOf(answers) \cup {Len(answers) + 1}
    BY <1>1, <1>5 DEF LostOf
  <1>8. Len(answers) + 1 \notin LostOf(answers)
    BY <1>1 DEF LostOf
  <1>9. Cardinality(LostOf(answers) \cup {Len(answers) + 1}) = Cardinality(LostOf(answers)) + 1
    BY <1>4, <1>8, FS_AddElement
  <1>10. QED
    BY <1>4, <1>6, <1>7, <1>9

(* A probe that nothing answers.                                           *)
LEMMA LostHop ==
    ASSUME Trace!TraceAssumption, NEW t, NEW h, SoundHop(h, t), Len(h.answers) < ProbesPerHop
    PROVE  /\ SoundHop(Trace!Lost(h), t) /\ Trace!Lost(h).reached = h.reached
           /\ Len(Trace!Lost(h).answers) = Len(h.answers) + 1
  <1>1. h \in Trace!Hops /\ h.answers \in Seq(BOOLEAN) /\ Len(h.answers) \in Nat
    BY DEF SoundHop, Trace!Hops
  <1> DEFINE as == Append(h.answers, FALSE)
             x == [h EXCEPT !.answers = as, !.loss = h.loss + 1]
  <1>2. /\ as \in Seq(BOOLEAN) /\ Len(as) = Len(h.answers) + 1
        /\ Cardinality(LostOf(as)) = Cardinality(LostOf(h.answers)) + 1
        /\ Cardinality(LostOf(h.answers)) \in 0 .. Len(h.answers)
    <2>1. as \in Seq(BOOLEAN) /\ Len(as) = Len(h.answers) + 1
      BY <1>1
    <2>2. /\ Cardinality(LostOf(as)) = Cardinality(LostOf(h.answers)) + 1
          /\ Cardinality(LostOf(h.answers)) \in 0 .. Len(h.answers)
      BY <1>1, LostAfter
    <2>3. QED
      BY <2>1, <2>2
  <1>3. h.loss = Cardinality(LostOf(h.answers)) /\ h.loss + 1 \in 0 .. ProbesPerHop
    BY <1>1, <1>2, TraceTypes DEF SoundHop
  <1>4. Trace!Lost(h) = x
    BY <1>1 DEF Trace!Lost, Trace!Hops
  <1> HIDE DEF as
  <1>5. /\ x \in Trace!Hops /\ x.answers = as /\ x.loss = h.loss + 1
        /\ x.ttl = h.ttl /\ x.addr = h.addr /\ x.reached = h.reached
    BY <1>1, <1>2, <1>3 DEF Trace!Hops
  <1> HIDE DEF x
  <1>6. SoundHop(x, t)
    <2>1. Trace!TtlOf(x) = Trace!TtlOf(h)
      BY <1>5 DEF Trace!TtlOf
    <2>2. Len(as) <= ProbesPerHop
      BY <1>1, <1>2, TraceTypes
    <2>3. QED
      BY <1>2, <1>3, <1>5, <2>1, <2>2 DEF SoundHop
  <1>7. QED
    BY <1>2, <1>4, <1>5, <1>6

Answered(h, e) ==
    [h EXCEPT !.answers = Append(@, TRUE), !.addr = IF @ = 0 THEN e.from ELSE @,
              !.reached = @ \/ Trace!IsReached(e)]

(* An error that was received for the hop, of whatever probe it is.        *)
LEMMA AnsweredHop ==
    ASSUME Trace!TraceAssumption, NEW t \in 1 .. MaxHops, NEW h, SoundHop(h, t),
           Len(h.answers) < ProbesPerHop,
           NEW e \in Trace!Errors, e.from <= t, e.kind = "port" => t >= Distance
    PROVE  /\ SoundHop(Answered(h, e), t)
           /\ Answered(h, e).reached <=> h.reached \/ Trace!IsReached(e)
           /\ Len(Answered(h, e).answers) = Len(h.answers) + 1
  <1>1. /\ h \in Trace!Hops /\ h.answers \in Seq(BOOLEAN) /\ Len(h.answers) \in Nat
        /\ h.reached \in BOOLEAN
    BY DEF SoundHop, Trace!Hops
  <1> DEFINE as == Append(h.answers, TRUE)
             from == IF h.addr = 0 THEN e.from ELSE h.addr
             r == h.reached \/ Trace!IsReached(e)
             x == Answered(h, e)
  <1>2. /\ as \in Seq(BOOLEAN) /\ Len(as) = Len(h.answers) + 1
        /\ Cardinality(LostOf(as)) = Cardinality(LostOf(h.answers))
        /\ Cardinality(LostOf(h.answers)) \in 0 .. Len(h.answers)
    <2>1. as \in Seq(BOOLEAN) /\ Len(as) = Len(h.answers) + 1
      BY <1>1
    <2>2. /\ Cardinality(LostOf(as)) = Cardinality(LostOf(h.answers))
          /\ Cardinality(LostOf(h.answers)) \in 0 .. Len(h.answers)
      BY <1>1, LostAfter
    <2>3. QED
      BY <2>1, <2>2
  <1>3. from \in 0 .. Distance /\ from <= Trace!TtlOf(h)
    <2>1. e.from \in 1 .. Distance /\ h.addr \in 0 .. Distance /\ h.ttl = t
      BY <1>1 DEF Trace!Errors, Trace!Hops, SoundHop
    <2>2. QED
      BY <2>1, TraceTypes DEF SoundHop, Trace!TtlOf
  <1>4. r \in BOOLEAN /\ (r => t >= Distance)
    BY <1>1 DEF SoundHop, Trace!IsReached
  <1>5. x = [h EXCEPT !.answers = as, !.addr = from, !.reached = r]
    BY <1>1 DEF Trace!Hops, Answered
  <1> HIDE DEF as, from, r, x
  <1>6. /\ x \in Trace!Hops /\ x.answers = as /\ x.addr = from /\ x.reached = r
        /\ x.loss = h.loss /\ x.ttl = h.ttl
    BY <1>1, <1>2, <1>3, <1>4, <1>5 DEF Trace!Hops
  <1>7. SoundHop(x, t)
    <2>1. Trace!TtlOf(x) = Trace!TtlOf(h)
      BY <1>6 DEF Trace!TtlOf
    <2>2. Len(as) <= ProbesPerHop
      BY <1>1, <1>2, TraceTypes
    <2>3. QED
      BY <1>2, <1>3, <1>4, <1>6, <2>1, <2>2 DEF SoundHop
  <1>8. QED
    BY <1>2, <1>6, <1>7 DEF r, x

LEMMA TraceInit == Trace!TraceAssumption /\ Trace!Init => TraceInv
  <1> SUFFICES ASSUME Trace!TraceAssumption, Trace!Init PROVE TraceInv
    OBVIOUS
  <1>1. MaxHops \in Nat /\ ProbesPerHop \in Nat
    BY TraceTypes
  <1>2. ErrorsInv /\ HopInv /\ HopsInv /\ SentInv
    BY <1>1 DEF Trace!Init, ErrorsInv, HopInv, HopsInv, SentInv
  <1>3. Trace!TypeOK
    <2>1. 1 \in 1 .. MaxHops + 1 /\ 0 \in 0 .. MaxHops * ProbesPerHop
      BY <1>1, TraceTypes
    <2>2. hops \in Seq(Trace!Hops) /\ queue \in Seq(Trace!Errors)
      BY DEF Trace!Init
    <2>3. QED
      BY <2>1, <2>2 DEF Trace!Init, Trace!TypeOK
  <1>4. QED
    BY <1>2, <1>3 DEF TraceInv

(* The trace starts, or ends with an error before it has a hop.            *)
LEMMA TraceStart ==
    ASSUME Trace!TraceAssumption, TraceInv, Trace!Start
    PROVE  TraceInv'
  <1>1. Trace!TypeOK'
    BY DEF TraceInv, Trace!TypeOK, Trace!Start, Trace!network
  <1>2. ErrorsInv' /\ HopInv' /\ SentInv'
    BY DEF TraceInv, ErrorsInv, HopInv, SentInv, Trace!Start, Trace!network
  <1>3. HopsInv'
    <2>1. Len(hops') = 0 /\ ttl' = 1
      <3>1. Len(hops) = ttl - 1 /\ ttl = 1
        BY DEF TraceInv, HopsInv, Trace!Start
      <3>2. QED
        BY <3>1 DEF TraceInv, Trace!TypeOK, Trace!Start
    <2>2. /\ at' \in {"hop", "end"} /\ ~reached /\ ~done
          /\ at' = "hop" => status' = "none"
          /\ status' # "reached" /\ UNCHANGED <<reached, done>>
      BY DEF TraceInv, HopsInv, Trace!Start
    <2>3. \A i \in 1 .. Len(hops') : FALSE
      BY <2>1
    <2>4. QED
      BY <2>1, <2>2, <2>3 DEF HopsInv
  <1>4. QED
    BY <1>1, <1>2, <1>3 DEF TraceInv

LEMMA TraceStartHop ==
    ASSUME Trace!TraceAssumption, TraceInv, Trace!StartHop
    PROVE  TraceInv'
  <1>1. /\ ttl \in 1 .. MaxHops /\ ttl' = ttl /\ hop' = Trace!NewHop(ttl) /\ at' = "probe"
        /\ ~reached
    BY TraceTypes DEF TraceInv, Trace!TypeOK, Trace!StartHop
  <1>2. SoundHop(hop', ttl) /\ ~hop'.reached /\ Len(hop'.answers) = 0
    <2>1. LostOf(<<>>) = {}
      BY DEF LostOf
    <2>2. Cardinality(LostOf(<<>>)) = 0
      BY <2>1, FS_EmptySet
    <2>3. Trace!NewHop(ttl) \in Trace!Hops
      <3>1. 0 \in 0 .. Distance /\ 0 \in 0 .. ProbesPerHop /\ <<>> \in Seq(BOOLEAN)
        BY TraceTypes
      <3>2. QED
        BY <1>1, <3>1 DEF Trace!NewHop, Trace!Hops
    <2>4. QED
      BY <1>1, <2>2, <2>3, TraceTypes DEF Trace!NewHop, SoundHop, Trace!TtlOf
  <1>3. Trace!TypeOK'
    BY <1>1, <1>2 DEF TraceInv, Trace!TypeOK, Trace!StartHop, Trace!network, SoundHop
  <1>4. ErrorsInv'
    BY DEF TraceInv, ErrorsInv, Trace!StartHop, Trace!network
  <1>5. HopInv'
    BY <1>1, <1>2 DEF HopInv, Trace!StartHop
  <1>6. SentInv'
    BY <1>1, <1>2, ProbesOfHops DEF TraceInv, SentInv, Trace!StartHop, Trace!network,
       Trace!TypeOK
  <1>7. HopsInv'
    BY DEF TraceInv, HopsInv, Trace!TypeOK, Trace!StartHop, Trace!network
  <1>8. QED
    BY <1>3, <1>4, <1>5, <1>6, <1>7 DEF TraceInv

LEMMA TraceFinish ==
    ASSUME Trace!TraceAssumption, TraceInv, Trace!Finish
    PROVE  TraceInv'
  <1>1. Trace!TypeOK'
    BY DEF TraceInv, Trace!TypeOK, Trace!Finish, Trace!network
  <1>2. ErrorsInv' /\ HopInv' /\ SentInv'
    BY DEF TraceInv, ErrorsInv, HopInv, SentInv, Trace!Finish, Trace!network
  <1>3. HopsInv'
    BY DEF TraceInv, HopsInv, Trace!TypeOK, Trace!Finish, Trace!network
  <1>4. QED
    BY <1>1, <1>2, <1>3 DEF TraceInv

(* The hop is complete, or the trace is over with it.                      *)
LEMMA TraceEndHop ==
    ASSUME Trace!TraceAssumption, TraceInv, Trace!EndHop
    PROVE  TraceInv'
  <1>1. /\ at = "probe" /\ at' = "hop" /\ hops' = Append(hops, hop) /\ ttl' = ttl + 1
        /\ UNCHANGED <<hop, reached, done, status, sent, flight, queue>>
    BY DEF Trace!EndHop, Trace!network
  <1>2. /\ ttl \in 1 .. MaxHops /\ SoundHop(hop, ttl) /\ (hop.reached <=> reached)
        /\ hop \in Trace!Hops /\ Len(hop.answers) \in Nat /\ Len(hop.answers) <= ProbesPerHop
    BY <1>1, TraceTypes DEF TraceInv, HopInv, Trace!TypeOK, SoundHop, Trace!Hops
  <1>3. /\ hops \in Seq(Trace!Hops) /\ Len(hops) \in Nat /\ Len(hops) = ttl - 1
        /\ status = "none"
        /\ hops' \in Seq(Trace!Hops) /\ Len(hops') = ttl /\ hops'[ttl] = hop
        /\ \A i \in 1 .. Len(hops) : hops'[i] = hops[i]
    <2>1. hops \in Seq(Trace!Hops) /\ Len(hops) = ttl - 1 /\ status = "none"
      BY <1>1 DEF TraceInv, Trace!TypeOK, HopsInv
    <2>2. QED
      BY <1>1, <1>2, <2>1
  <1>4. ttl' \in 1 .. MaxHops + 1
    BY <1>1, <1>2, TraceTypes
  <1>5. Trace!TypeOK'
    BY <1>1, <1>3, <1>4 DEF TraceInv, Trace!TypeOK
  <1>6. ErrorsInv'
    <2>1. flight \subseteq Trace!Errors /\ queue \in Seq(Trace!Errors)
      BY DEF TraceInv, Trace!TypeOK
    <2>2. \A e \in Trace!Errors : e.from \in Nat
      BY TraceTypes DEF Trace!Errors
    <2>3. \A e \in Trace!Errors : e.from <= ttl => e.from <= ttl + 1
      BY <1>2, <2>2
    <2>4. ttl >= Distance => ttl + 1 >= Distance
      BY <1>2, TraceTypes
    <2>5. \A i \in 1 .. Len(queue) : queue[i] \in Trace!Errors
      BY <2>1
    <2>6. QED
      BY <1>1, <2>1, <2>3, <2>4, <2>5 DEF TraceInv, ErrorsInv
  <1>7. HopInv'
    BY <1>1 DEF HopInv
  <1>8. SentInv'
    <2>1. sent <= (ttl - 1) * ProbesPerHop + Len(hop.answers) /\ sent \in Nat
      BY <1>1 DEF TraceInv, SentInv, Trace!TypeOK
    <2>2. ttl' - 1 = ttl
      BY <1>1, <1>2
    <2>3. sent <= ttl * ProbesPerHop
      BY <1>2, <2>1, ProbesOfHops, TraceTypes
    <2>4. QED
      BY <1>1, <2>2, <2>3 DEF SentInv
  <1>9. HopsInv'
    <2>1. ~reached /\ ~done => Len(hop.answers) = ProbesPerHop
      BY <1>2, TraceTypes DEF Trace!EndHop, Trace!MoreProbes
    <2>2. ASSUME NEW i \in 1 .. Len(hops')
          PROVE  /\ SoundHop(hops'[i], i)
                 /\ hops'[i].reached => i = Len(hops') /\ reached
                 /\ i = Len(hops') \/ Len(hops'[i].answers) = ProbesPerHop
                 /\ ~reached /\ ~done =>
                        ~hops'[i].reached /\ Len(hops'[i].answers) = ProbesPerHop
      <3>1. CASE i = ttl
        BY <1>2, <1>3, <2>1, <3>1
      <3>2. CASE i # ttl
        <4>1. i \in 1 .. Len(hops) /\ hops'[i] = hops[i]
          BY <1>2, <1>3, <3>2
        <4>2. /\ SoundHop(hops[i], i) /\ ~hops[i].reached
              /\ Len(hops[i].answers) = ProbesPerHop
          BY <1>1, <4>1 DEF TraceInv, HopsInv
        <4>3. QED
          BY <4>1, <4>2
      <3>3. QED
        BY <3>1, <3>2
    <2>3. /\ at' = "hop" /\ status' = "none" /\ UNCHANGED <<reached, done>>
          /\ Len(hops') = ttl' - 1
      BY <1>1, <1>2, <1>3
    <2>4. reached => hops' # <<>> /\ hops'[Len(hops')].reached
      BY <1>2, <1>3
    <2>5. QED
      BY <2>2, <2>3, <2>4 DEF HopsInv
  <1>10. QED
    BY <1>5, <1>6, <1>7, <1>8, <1>9 DEF TraceInv

(* A probe is out, and its error at most as far as its TTL allows.         *)
LEMMA TraceSend ==
    ASSUME Trace!TraceAssumption, TraceInv, NEW error \in Trace!Kinds \cup {"none"},
           Trace!Send(error)
    PROVE  TraceInv'
  <1>1. /\ at = "probe" /\ at' = "wait" /\ Trace!MoreProbes /\ sent' = sent + 1
        /\ UNCHANGED <<ttl, hop, hops, reached, done, status, queue>>
    BY DEF Trace!Send
  <1>2. ttl \in 1 .. MaxHops /\ sent \in Nat /\ Len(hop.answers) \in Nat /\ hop \in Trace!Hops
    BY <1>1, TraceTypes DEF TraceInv, HopInv, Trace!TypeOK, SoundHop, Trace!Hops
  <1>3. /\ sent <= (ttl - 1) * ProbesPerHop + Len(hop.answers)
        /\ Len(hop.answers) < ProbesPerHop /\ ~reached /\ ~done
    BY <1>1 DEF TraceInv, SentInv, Trace!MoreProbes
  <1>4. sent + 1 \in 1 .. MaxHops * ProbesPerHop
    <2>1. /\ (ttl - 1) * ProbesPerHop \in Nat
          /\ (ttl - 1) * ProbesPerHop + ProbesPerHop <= MaxHops * ProbesPerHop
      BY <1>2, ProbesOfHops
    <2>2. QED
      BY <1>2, <1>3, <2>1, TraceTypes
  <1>5. ASSUME NEW e \in flight' \ flight
        PROVE  e \in Trace!Errors /\ e.from <= ttl /\ (e.kind = "port" => ttl >= Distance)
    <2> DEFINE from == IF ttl < Distance THEN ttl ELSE Distance
    <2>1. from \in 1 .. Distance /\ from <= ttl
      BY <1>2, TraceTypes
    <2> HIDE DEF from
    <2>2. /\ error \in Trace!Kinds /\ e = [from |-> from, kind |-> error, probe |-> sent + 1]
          /\ error = "port" => ttl >= Distance
      BY <1>5 DEF Trace!Send, Trace!Errs, from
    <2>3. QED
      BY <1>4, <2>1, <2>2 DEF Trace!Errors
  <1>6. flight' \subseteq Trace!Errors
    BY <1>5 DEF TraceInv, Trace!TypeOK
  <1>7. Trace!TypeOK'
    BY <1>1, <1>4, <1>6, TraceTypes DEF TraceInv, Trace!TypeOK
  <1>8. ErrorsInv'
    BY <1>1, <1>5 DEF TraceInv, ErrorsInv
  <1>9. HopInv'
    BY <1>1, <1>3 DEF TraceInv, HopInv
  <1>10. HopsInv'
    BY <1>1 DEF TraceInv, HopsInv
  <1>11. SentInv'
    <2>1. sent + 1 <= (ttl - 1) * ProbesPerHop + Len(hop.answers) + 1
      BY <1>2, <1>3, ProbesOfHops
    <2>2. QED
      BY <1>1, <2>1 DEF SentInv
  <1>12. QED
    BY <1>7, <1>8, <1>9, <1>10, <1>11 DEF TraceInv

(* A probe that could not be sent, or that nothing answered in time.       *)
LEMMA TraceLost ==
    ASSUME Trace!TraceAssumption, TraceInv, Trace!SendFails \/ Trace!GiveUp
    PROVE  TraceInv'
  <1>1. /\ at \in {"probe", "wait"} /\ at' = "probe" /\ hop' = Trace!Lost(hop)
        /\ UNCHANGED <<ttl, hops, reached, done, status, sent, flight, queue>>
    BY DEF Trace!SendFails, Trace!GiveUp, Trace!network
  <1>2. /\ Len(hop.answers) < ProbesPerHop /\ SoundHop(hop, ttl) /\ (hop.reached <=> reached)
        /\ ttl \in 1 .. MaxHops
    BY <1>1, TraceTypes DEF TraceInv, HopInv, Trace!TypeOK, Trace!SendFails, Trace!GiveUp,
       Trace!MoreProbes
  <1>3. /\ SoundHop(hop', ttl) /\ hop'.reached = hop.reached
        /\ Len(hop'.answers) = Len(hop.answers) + 1
    BY <1>1, <1>2, LostHop
  <1>4. Trace!TypeOK'
    BY <1>1, <1>3 DEF TraceInv, Trace!TypeOK, SoundHop
  <1>5. ErrorsInv'
    BY <1>1 DEF TraceInv, ErrorsInv
  <1>6. HopInv'
    BY <1>1, <1>2, <1>3, TraceTypes DEF HopInv
  <1>7. HopsInv'
    BY <1>1 DEF TraceInv, HopsInv
  <1>8. SentInv'
    <2>1. Len(hop.answers) \in Nat /\ sent \in Nat
      BY <1>2 DEF SoundHop, Trace!Hops, TraceInv, Trace!TypeOK
    <2>2. sent <= (ttl - 1) * ProbesPerHop + Len(hop.answers) + 1
      BY <1>1, <1>2, <2>1, ProbesOfHops DEF TraceInv, SentInv
    <2>3. sent <= (ttl - 1) * ProbesPerHop + Len(hop'.answers)
      BY <1>2, <1>3, <2>1, <2>2, ProbesOfHops
    <2>4. QED
      BY <1>1, <2>3 DEF SentInv
  <1>9. QED
    BY <1>4, <1>5, <1>6, <1>7, <1>8 DEF TraceInv

(* There is no route: the trace ends with the hop it is at.                *)
LEMMA TraceNoRoute ==
    ASSUME Trace!TraceAssumption, TraceInv, Trace!NoRoute
    PROVE  TraceInv'
  <1>1. /\ at = "probe" /\ at' = "end" /\ hop' = Trace!Lost(hop) /\ hops' = Append(hops, hop')
        /\ status' = "error" /\ ~reached /\ Len(hop.answers) < ProbesPerHop
        /\ UNCHANGED <<ttl, reached, done, sent, flight, queue>>
    BY DEF Trace!NoRoute, Trace!network, Trace!MoreProbes
  <1>2. SoundHop(hop, ttl) /\ ~hop.reached /\ ttl \in 1 .. MaxHops
    BY <1>1, TraceTypes DEF TraceInv, HopInv, Trace!TypeOK
  <1>3. SoundHop(hop', ttl) /\ ~hop'.reached /\ hop' \in Trace!Hops
    BY <1>1, <1>2, LostHop DEF SoundHop
  <1>4. /\ hops \in Seq(Trace!Hops) /\ Len(hops) \in Nat /\ Len(hops) = ttl - 1
        /\ hops' \in Seq(Trace!Hops) /\ Len(hops') = ttl /\ hops'[ttl] = hop'
        /\ \A i \in 1 .. Len(hops) : hops'[i] = hops[i]
    <2>1. hops \in Seq(Trace!Hops) /\ Len(hops) = ttl - 1
      BY <1>1 DEF TraceInv, Trace!TypeOK, HopsInv
    <2>2. QED
      BY <1>1, <1>2, <1>3, <2>1
  <1>5. Trace!TypeOK'
    BY <1>1, <1>3, <1>4 DEF TraceInv, Trace!TypeOK
  <1>6. ErrorsInv' /\ HopInv' /\ SentInv'
    BY <1>1 DEF TraceInv, ErrorsInv, HopInv, SentInv
  <1>7. HopsInv'
    <2>1. ASSUME NEW i \in 1 .. Len(hops')
          PROVE  /\ SoundHop(hops'[i], i) /\ ~hops'[i].reached
                 /\ i = Len(hops') \/ Len(hops'[i].answers) = ProbesPerHop
      <3>1. CASE i = ttl
        BY <1>3, <1>4, <3>1
      <3>2. CASE i # ttl
        <4>1. i \in 1 .. Len(hops) /\ hops'[i] = hops[i]
          BY <1>2, <1>4, <3>2
        <4>2. QED
          BY <1>1, <4>1 DEF TraceInv, HopsInv
      <3>3. QED
        BY <3>1, <3>2
    <2>2. QED
      BY <1>1, <2>1 DEF HopsInv
  <1>8. QED
    BY <1>5, <1>6, <1>7 DEF TraceInv

(* The oldest error of the queue, whatever probe it is about.              *)
LEMMA TraceReceive ==
    ASSUME Trace!TraceAssumption, TraceInv, Trace!Receive
    PROVE  TraceInv'
  <1> DEFINE e == Head(queue)
  <1>1. /\ at = "wait" /\ queue # <<>> /\ queue' = Tail(queue)
        /\ UNCHANGED <<ttl, hops, status, sent, flight>>
    BY DEF Trace!Receive
  <1>2. /\ queue \in Seq(Trace!Errors) /\ e \in Trace!Errors /\ e = queue[1]
        /\ queue' \in Seq(Trace!Errors) /\ Len(queue') \in Nat /\ 1 \in 1 .. Len(queue)
        /\ \A i \in 1 .. Len(queue') : i + 1 \in 1 .. Len(queue) /\ queue'[i] = queue[i + 1]
    <2>1. queue \in Seq(Trace!Errors)
      BY DEF TraceInv, Trace!TypeOK
    <2>2. QED
      BY <1>1, <2>1
  <1>3. /\ ttl \in 1 .. MaxHops /\ SoundHop(hop, ttl) /\ ~hop.reached /\ ~reached /\ ~done
        /\ Len(hop.answers) < ProbesPerHop
    BY <1>1, TraceTypes DEF TraceInv, HopInv, Trace!TypeOK
  <1>4. e.from <= ttl /\ (e.kind = "port" => ttl >= Distance)
    BY <1>2 DEF TraceInv, ErrorsInv
  <1>5. ErrorsInv'
    BY <1>1, <1>2 DEF TraceInv, ErrorsInv
  <1>6. CASE e.kind = "other"
    <2>1. UNCHANGED <<at, hop, reached, done>>
      BY <1>6 DEF Trace!Receive
    <2>2. Trace!TypeOK'
      BY <1>1, <1>2, <2>1 DEF TraceInv, Trace!TypeOK
    <2>3. HopInv' /\ HopsInv' /\ SentInv'
      BY <1>1, <2>1 DEF TraceInv, HopInv, HopsInv, SentInv
    <2>4. QED
      BY <1>5, <2>2, <2>3 DEF TraceInv
  <1>7. CASE e.kind # "other"
    <2>1. /\ hop' = Answered(hop, e)
          /\ reached' = (reached \/ Trace!IsReached(e)) /\ done' = (done \/ e.kind # "exceeded")
          /\ at' = "probe"
      BY <1>7 DEF Trace!Receive, Answered
    <2>2. /\ SoundHop(hop', ttl) /\ (hop'.reached <=> hop.reached \/ Trace!IsReached(e))
          /\ Len(hop'.answers) = Len(hop.answers) + 1
      <3> HIDE DEF e
      <3>1. e \in Trace!Errors
        BY <1>2
      <3>2. QED
        BY <1>3, <1>4, <2>1, <3>1, AnsweredHop
    <2>3. reached' \in BOOLEAN /\ done' \in BOOLEAN /\ (hop'.reached <=> reached')
      BY <1>3, <2>1, <2>2, Zenon DEF Trace!IsReached
    <2>4. Trace!TypeOK'
      BY <1>1, <1>2, <2>1, <2>2, <2>3 DEF TraceInv, Trace!TypeOK, SoundHop
    <2>5. HopInv'
      BY <1>1, <1>3, <2>1, <2>2, <2>3, TraceTypes DEF HopInv
    <2>6. HopsInv'
      <3>1. /\ Len(hops) = ttl - 1 /\ status = "none"
            /\ \A i \in 1 .. Len(hops) : /\ SoundHop(hops[i], i) /\ ~hops[i].reached
                                         /\ Len(hops[i].answers) = ProbesPerHop
        BY <1>1 DEF TraceInv, HopsInv
      <3>2. QED
        BY <1>1, <2>1, <3>1 DEF HopsInv
    <2>7. SentInv'
      <3>1. Len(hop.answers) \in Nat /\ sent \in Nat
        BY <1>3 DEF SoundHop, Trace!Hops, TraceInv, Trace!TypeOK
      <3>2. sent <= (ttl - 1) * ProbesPerHop + Len(hop.answers) + 1
        BY <1>1 DEF TraceInv, SentInv
      <3>3. sent <= (ttl - 1) * ProbesPerHop + Len(hop'.answers)
        BY <1>3, <2>2, <3>1, <3>2, ProbesOfHops
      <3>4. QED
        BY <1>1, <2>1, <3>3 DEF SentInv
    <2>8. QED
      BY <1>5, <2>4, <2>5, <2>6, <2>7 DEF TraceInv
  <1>8. QED
    BY <1>6, <1>7

(* An error comes in, late or not.                                         *)
LEMMA TraceArrive ==
    ASSUME TraceInv, NEW e \in flight, Trace!Arrive(e)
    PROVE  TraceInv'
  <1>1. /\ flight' = flight \ {e} /\ queue' = Append(queue, e)
        /\ UNCHANGED <<at, ttl, hop, hops, reached, done, status, sent>>
    BY DEF Trace!Arrive
  <1>2. /\ queue \in Seq(Trace!Errors) /\ e \in Trace!Errors /\ flight' \subseteq Trace!Errors
        /\ queue' \in Seq(Trace!Errors) /\ Len(queue') = Len(queue) + 1 /\ Len(queue) \in Nat
        /\ \A i \in 1 .. Len(queue) : queue'[i] = queue[i]
        /\ queue'[Len(queue) + 1] = e
    <2>1. queue \in Seq(Trace!Errors) /\ e \in Trace!Errors /\ flight' \subseteq Trace!Errors
      BY <1>1 DEF TraceInv, Trace!TypeOK
    <2>2. QED
      BY <1>1, <2>1
  <1>3. Trace!TypeOK'
    BY <1>1, <1>2 DEF TraceInv, Trace!TypeOK
  <1>4. ErrorsInv'
    <2>1. ASSUME NEW i \in 1 .. Len(queue')
          PROVE  queue'[i] = e \/ (i \in 1 .. Len(queue) /\ queue'[i] = queue[i])
      BY <1>2
    <2>2. QED
      BY <1>1, <2>1 DEF TraceInv, ErrorsInv
  <1>5. HopInv' /\ HopsInv' /\ SentInv'
    BY <1>1 DEF TraceInv, HopInv, HopsInv, SentInv
  <1>6. QED
    BY <1>3, <1>4, <1>5 DEF TraceInv

LEMMA TraceInvariant == Trace!Spec => []TraceInv
  <1>1. Trace!Init => TraceInv
    BY TraceInit, KnowledgeAssumption
  <1>2. TraceInv /\ UNCHANGED Trace!vars => TraceInv'
    BY DEF Trace!vars, TraceInv, Trace!TypeOK, ErrorsInv, HopInv, HopsInv, SentInv
  <1>3. TraceInv /\ [Trace!Next]_(Trace!vars) => TraceInv'
    BY <1>2, TraceStart, TraceStartHop, TraceFinish, TraceEndHop, TraceSend, TraceLost,
       TraceNoRoute, TraceReceive, TraceArrive, KnowledgeAssumption DEF Trace!Next
  <1>4. QED
    BY <1>1, <1>3, PTL DEF Trace!Spec

(* For every distance, TTL limit and number of probes, and whatever errors *)
(* come late, out of order or never: the trace claims no more than it saw. *)
THEOREM TracesAreSound == Trace!Spec => []TraceIsSound
  <1>1. TraceInv => TraceIsSound
    <2> SUFFICES ASSUME TraceInv PROVE TraceIsSound
      OBVIOUS
    <2>1. status = "reached" => hops[Len(hops)].reached
      BY DEF TraceInv, HopsInv
    <2>2. ASSUME NEW i \in 1 .. Len(hops)
          PROVE  /\ hops[i].ttl = i /\ hops[i].addr <= Trace!TtlOf(hops[i])
                 /\ hops[i].reached =>
                       Trace!Lasts(i) /\ i >= Distance /\ status \in {"none", "reached"}
                 /\ Trace!Lasts(i) \/ Len(hops[i].answers) = ProbesPerHop
                 /\ hops[i].loss
                        = Cardinality({j \in 1 .. Len(hops[i].answers) : ~hops[i].answers[j]})
      <3>1. /\ SoundHop(hops[i], i) /\ (hops[i].reached => i = Len(hops))
            /\ i = Len(hops) \/ Len(hops[i].answers) = ProbesPerHop
            /\ status \in {"completed", "error"} => ~hops[i].reached
        BY DEF TraceInv, HopsInv
      <3>2. status \in {"none", "reached", "completed", "error"}
        BY DEF TraceInv, Trace!TypeOK
      <3>3. QED
        BY <3>1, <3>2 DEF SoundHop, LostOf, Trace!Lasts
    <2>3. QED
      BY <2>1, <2>2, SameCardinality DEF TraceIsSound, Trace!TraceIsSound, TraceInv
  <1>2. QED
    BY <1>1, TraceInvariant, PTL
=============================================================================
