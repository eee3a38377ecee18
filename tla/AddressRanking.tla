---------------------------- MODULE AddressRanking ----------------------------
(***************************************************************************)
(* How SmartDnsResolverImpl (sdk/cxx/dns/dns_resolver.cpp) ranks the       *)
(* addresses of a host: requests report what came of each address, the     *)
(* health table remembers it per network, and a resolve orders the         *)
(* addresses by a score of the table's entry, of the RTT and the loss the  *)
(* lookup came with and of the network's quality.  Each operation is one   *)
(* critical section of State::mutex.                                       *)
(*                                                                         *)
(* One host; the lookup itself measured nothing (rtt and loss are -1), as  *)
(* with LocalDNS, but the cached list keeps the RTT it was last ranked     *)
(* with.  The quality may be any at any time and is no variable.           *)
(***************************************************************************)
EXTENDS Integers, FiniteSets

CONSTANTS Addresses,
          NoHealth,
          Rtts,         \* what a successful request may measure, -1 for nothing
          MaxHealth,    \* Config::max_health_entries
          MaxEpoch, MaxReports    \* bounds of the model

RankingAssumption ==
    /\ IsFiniteSet(Addresses)
    /\ Rtts \subseteq Nat \cup {-1}
    /\ MaxHealth \in Nat \ {0} /\ {MaxEpoch, MaxReports} \subseteq Nat

Qualities == {"unknown", "good", "degraded", "bad", "offline"}
Epochs == 0..MaxEpoch
HealthKey(a, e) == <<a, e>>
Keys == Addresses \X Epochs

Least(a, b) == IF a < b THEN a ELSE b

VARIABLES epoch,      \* the network requests are made on
          health,     \* State::health
          cached,     \* IpResult::rtt_ms of the addresses in the cached list
          failing,    \* failing[a]: reports of failure in a row on this network
          reports     \* how many reports there were, the clock of updated_at_ms

vars == <<epoch, health, cached, failing, reports>>

Health == [rtt : Nat \cup {-1}, failures : 0..MaxReports, successes : 0..MaxReports,
           updated : 0..MaxReports]

TypeOK ==
    /\ epoch \in Epochs
    /\ health \in [Keys -> Health \cup {NoHealth}]
    /\ cached \in [Addresses -> Nat \cup {-1}]
    /\ failing \in [Addresses -> 0..MaxReports]
    /\ reports \in 0..MaxReports

Init ==
    /\ epoch = 0
    /\ health = [k \in Keys |-> NoHealth]
    /\ cached = [a \in Addresses |-> -1]
    /\ failing = [a \in Addresses |-> 0]
    /\ reports = 0

Known == {k \in Keys : health[k] # NoHealth}
Untried == [rtt |-> -1, failures |-> 0, successes |-> 0, updated |-> 0]
HealthOf(a, e) == LET k == HealthKey(a, e) IN IF k \in Known THEN health[k] ELSE Untried

-----------------------------------------------------------------------------
\* Seeded bug: failures count like single milliseconds.
FailurePenaltyWeak(failures) == Least(4000, failures * 50)

FailurePenalty(failures) == Least(4000, failures * 500)
RttPenalty(rtt) == IF rtt < 0 THEN 500 ELSE Least(8000, rtt * 2)
QualityPenalty(q, rtt) ==
    CASE q = "good" -> 0
      [] q = "degraded" -> IF rtt < 0 THEN 300 ELSE 100
      [] q = "bad" -> IF rtt < 0 THEN 700 ELSE 250
      [] q = "offline" -> IF rtt < 0 THEN 1000 ELSE 500
      [] q = "unknown" -> 50
SuccessBonus(q, successes) == IF q = "good" THEN 0 ELSE Least(500, successes * 100)

\* The score of an address with health h and RTT rtt.
Score(q, h, rtt) ==
    10000 - RttPenalty(rtt) - FailurePenalty(h.failures)
          - QualityPenalty(q, rtt) + SuccessBonus(q, h.successes)

\* The RTT it is ranked with: the table's if it has one, else the list's.
RankRtt(a) == LET h == HealthOf(a, epoch) IN IF h.rtt >= 0 THEN h.rtt ELSE cached[a]

-----------------------------------------------------------------------------
Smoothed(old, ms) ==
    IF ms < 0 THEN old ELSE IF old < 0 THEN ms ELSE (old * 7 + ms * 3) \div 10

\* Seeded bug: a failure is forgotten only when the address is.
UpdatedKeeping(h, success, ms) ==
    IF success
    THEN [h EXCEPT !.successes = @ + 1, !.rtt = Smoothed(@, ms), !.updated = reports]
    ELSE [h EXCEPT !.failures = @ + 1, !.updated = reports]

Updated(h, success, ms) ==
    IF success
    THEN [h EXCEPT !.successes = @ + 1, !.failures = 0, !.rtt = Smoothed(@, ms), !.updated = reports]
    ELSE [h EXCEPT !.failures = @ + 1, !.updated = reports]

Oldest == {k \in Known : \A l \in Known : health[k].updated <= health[l].updated}

\* What an update of k evicts: nothing, or one of the oldest entries.
Evicted(k) ==
    IF k \in Known \/ Cardinality(Known) < MaxHealth THEN {{}} ELSE {{o} : o \in Oldest}

\* report_connection_result of a request made on network e; a late one may
\* come from a network that is gone.
Report(a, e, success, ms) ==
    LET k == HealthKey(a, e) IN
    /\ reports < MaxReports
    /\ reports' = reports + 1
    /\ \E gone \in Evicted(k) :
          health' = [l \in Keys |-> IF l = k THEN Updated(HealthOf(a, e), success, ms)
                                    ELSE IF l \in gone THEN NoHealth ELSE health[l]]
    /\ failing' = IF e = epoch
                  THEN [failing EXCEPT ![a] = IF success THEN 0 ELSE @ + 1]
                  ELSE failing
    /\ UNCHANGED <<epoch, cached>>

\* resolve_with_metadata ranks the cached list, or one just looked up.
Rank(fresh) ==
    /\ cached' = [a \in Addresses |->
                    IF fresh /\ HealthOf(a, epoch).rtt < 0 THEN -1 ELSE RankRtt(a)]
    /\ UNCHANGED <<epoch, health, failing, reports>>

\* The new network has a list of its own; the old one's entries are dropped.
OnNetworkChange ==
    /\ epoch < MaxEpoch
    /\ epoch' = epoch + 1
    /\ cached' = [a \in Addresses |-> -1]
    /\ health' = [k \in Keys |-> NoHealth]
    /\ failing' = [a \in Addresses |-> 0]
    /\ UNCHANGED reports

\* The bound on reports is reached.
OutOfModel == reports = MaxReports /\ UNCHANGED vars

Next ==
    \/ \E a \in Addresses, e \in 0..epoch :
          Report(a, e, FALSE, -1) \/ \E ms \in Rtts : Report(a, e, TRUE, ms)
    \/ \E fresh \in BOOLEAN : Rank(fresh)
    \/ OnNetworkChange
    \/ OutOfModel

Spec == Init /\ [][Next]_vars

-----------------------------------------------------------------------------
HealthBounded == Cardinality(Known) <= MaxHealth

(* An address never pays for failures that are not its own present ones:  *)
(* those counted against it on this network happened in a row since it     *)
(* last worked here, also when late reports of an older network come in    *)
(* and when its entry was evicted from the bounded table and made anew.    *)
NoInheritedFailures ==
    TypeOK /\ HealthBounded /\ \A a \in Addresses : HealthOf(a, epoch).failures <= failing[a]

(* "A failure lowers the order more than a single RTT does, so that bad    *)
(* addresses are not hit again and again": once an address has failed four *)
(* times in a row and the table knows it, an address never tried, or one   *)
(* that works and answers within half a second, is ranked before it,       *)
(* however fast and often the bad one answered before and whatever the     *)
(* quality of the network.                                                 *)
BadAddressesYield ==
    \A a, b \in Addresses :
        LET ha == HealthOf(a, epoch)
            hb == HealthOf(b, epoch)
        IN ha.failures >= 4 /\ hb.failures = 0 /\ RankRtt(b) <= 500 =>
              \A q \in Qualities : Score(q, ha, RankRtt(a)) < Score(q, hb, RankRtt(b))

=============================================================================
