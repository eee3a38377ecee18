--------------------------- MODULE NetworkKnowledge ---------------------------
(***************************************************************************)
(* What the SDK knows of the network: resolution (DnsResolver), the        *)
(* ranking of addresses (AddressRanking), the quality of the network       *)
(* (QualityProber) and the trace of a route (TraceRoute).  Resolution and  *)
(* ranking take any quality at any time and the trace needs neither, so no *)
(* model reads another's state.                                            *)
(***************************************************************************)
EXTENDS DnsResolver

CONSTANTS Addresses, NoHealth, Rtts, MaxHealth, MaxReports,    \* of AddressRanking
          Samples, RecoverySamples, MaxSamples, MaxTrouble,    \* of QualityProber
          Distance, MaxHops, ProbesPerHop                      \* of TraceRoute

VARIABLES network_epoch, health, cached, failing, reports,
          quality, score, network, samples, failures, failed, good,
          rtt, loss, bandwidth, run, fast, trouble,
          at, ttl, hop, hops, reached, done, status, sent, flight, queue

rankingVars == <<network_epoch, health, cached, failing, reports>>
proberVars == <<quality, score, network, samples, failures, failed, good,
                rtt, loss, bandwidth, run, fast, trouble>>
traceVars == <<at, ttl, hop, hops, reached, done, status, sent, flight, queue>>

Ranking == INSTANCE AddressRanking WITH epoch <- network_epoch
Prober == INSTANCE QualityProber
Trace == INSTANCE TraceRoute

ASSUME KnowledgeAssumption ==
    Ranking!RankingAssumption /\ Prober!ProberAssumption /\ Trace!TraceAssumption

-----------------------------------------------------------------------------
(* An address pays for its own present failures only (AddressRanking).     *)
NoInheritedFailures == Ranking!NoInheritedFailures

(* An address that keeps failing is ranked behind others (AddressRanking). *)
BadAddressesYield == Ranking!BadAddressesYield

(* Fast samples make the network good again (QualityProber).               *)
RecoversInTime == Prober!RecoversInTime

(* Recovering takes good_samples_to_recover successes (QualityProber).     *)
GoodNeedsARun == Prober!GoodNeedsARun

(* A trace claims no more than it has seen (TraceRoute).                   *)
TraceIsSound == Trace!TraceIsSound
=============================================================================
