---------------------------- MODULE QualityProber ----------------------------
(***************************************************************************)
(* sdt::QualityProberImpl (sdk/cxx/sdt/quality_prober.cpp): the quality of *)
(* the network as the requests observe it, from a smoothed RTT, the share  *)
(* of failures since the network changed and the runs of failures and of   *)
(* good samples.  Every operation is one critical section; the thresholds  *)
(* are the defaults of Config and -1 stands for unknown, as in the code.   *)
(***************************************************************************)
EXTENDS Integers

CONSTANTS Samples,       \* QualitySamples the probes and requests report
          RecoverySamples,          \* fast samples after which all is well
          MaxSamples, MaxTrouble    \* bounds of the model

WeakScore == 40
DegradedScore == 65
FailuresBeforeBad == 2
GoodToRecover == 3

\* What the constants have to be, assumed where they are chosen.
ProberAssumption ==
    /\ \A s \in Samples :
          /\ {s.rtt, s.loss, s.bandwidth} \subseteq Nat \cup {-1}
          /\ s.net \in {"unknown", "none", "some"}
    /\ {RecoverySamples, MaxSamples, MaxTrouble} \subseteq Nat

Qualities == {"unknown", "good", "degraded", "bad", "offline"}
Networks == {"unknown", "none", "some"}

Least(a, b) == IF a < b THEN a ELSE b
Most(a, b) == IF a > b THEN a ELSE b

RttPenalty(rtt) ==
    CASE rtt >= 2000 -> 70
      [] rtt >= 1000 /\ rtt < 2000 -> 50
      [] rtt >= 500 /\ rtt < 1000 -> 35
      [] rtt >= 300 /\ rtt < 500 -> 20
      [] rtt >= 100 /\ rtt < 300 -> 10
      [] OTHER -> 0

LossPenalty(loss) == IF loss >= 0 THEN Least(30, loss \div 2) ELSE 0

BandwidthPenalty(kbps) ==
    CASE kbps >= 0 /\ kbps < 100 -> 20
      [] kbps >= 100 /\ kbps < 500 -> 10
      [] OTHER -> 0

Score(rtt, loss, kbps) ==
    IF rtt < 0 /\ loss < 0 /\ kbps < 0 THEN -1
    ELSE Most(0, 100 - RttPenalty(rtt) - LossPenalty(loss) - BandwidthPenalty(kbps))

VARIABLES quality, score, network,
          samples, failures,     \* samples, total_failures
          failed,                \* consecutive_failures
          good,                  \* consecutive_good_samples
          rtt, loss, bandwidth,  \* smoothed_rtt_ms, loss_permil, bandwidth_kbps
          run, fast, trouble     \* successes in a row, fast ones in a row over a link not
                                 \* known to be narrow, and samples that were not fast
                                 \* since the network changed: for the properties

measured == <<rtt, loss, bandwidth>>
observed == <<run, fast, trouble>>
vars == <<quality, score, network, samples, failures, failed, good, measured, observed>>

TypeOK ==
    /\ quality \in Qualities /\ network \in Networks
    /\ score \in -1..100 /\ loss \in -1..1000
    /\ samples \in 0..MaxSamples /\ failures \in 0..samples /\ failed \in 0..failures
    /\ good \in 0..samples
    /\ rtt \in Nat \cup {-1} /\ bandwidth \in Nat \cup {-1}
    /\ run \in 0..samples /\ fast \in 0..run /\ trouble \in 0..MaxTrouble

Init ==
    /\ quality = "unknown" /\ score = -1 /\ network = "unknown"
    /\ samples = 0 /\ failures = 0 /\ failed = 0 /\ good = 0
    /\ rtt = -1 /\ loss = -1 /\ bandwidth = -1
    /\ run = 0 /\ fast = 0 /\ trouble = 0

-----------------------------------------------------------------------------
NetworkAfter(s) == IF s.net = "unknown" THEN network ELSE s.net

\* update_loss, at the end of every observation.
Count(fails) ==
    /\ samples' = samples + 1
    /\ failures' = failures + fails
    /\ loss' = Least(1000, (failures' * 1000) \div samples')

QualityAfterFailure(net) ==
    CASE net = "none" -> "offline"
      [] net # "none" /\ failed + 1 >= FailuresBeforeBad -> "bad"
      [] net # "none" /\ failed + 1 < FailuresBeforeBad /\ quality = "good" -> "degraded"
      [] OTHER -> quality

\* Below this RTT a sample costs the score nothing.
FastRtt == 100

Record(succeeds, ms) ==
    LET isFast == succeeds /\ ms \in 0..FastRtt - 1
        isWide == network' # "none" /\ BandwidthPenalty(bandwidth') = 0 IN
    /\ run' = IF succeeds THEN run + 1 ELSE 0
    /\ fast' = IF isFast /\ isWide THEN fast + 1 ELSE 0
    /\ trouble' = IF isFast THEN trouble ELSE trouble + 1

\* Seeded bug: the run of good samples survives a failure.
FailKeepingRun(s) ==
    /\ Count(1)
    /\ network' = NetworkAfter(s)
    /\ failed' = failed + 1 /\ good' = good
    /\ quality' = QualityAfterFailure(network') /\ score' = 0
    /\ Record(FALSE, -1)
    /\ UNCHANGED <<rtt, bandwidth>>

\* observe_sample of a failure, whose measurements count for nothing.
Fail(s) ==
    /\ Count(1)
    /\ network' = NetworkAfter(s)
    /\ failed' = failed + 1 /\ good' = 0
    /\ quality' = QualityAfterFailure(network') /\ score' = 0
    /\ Record(FALSE, -1)
    /\ UNCHANGED <<rtt, bandwidth>>

\* Seeded bug: the weights are swapped.
SmoothedTooMuch(ms) ==
    IF ms < 0 THEN rtt ELSE IF rtt < 0 THEN ms ELSE (rtt * 9 + ms) \div 10

Smoothed(ms) ==
    IF ms < 0 THEN rtt ELSE IF rtt < 0 THEN ms ELSE (rtt * 7 + ms * 3) \div 10

\* The quality and the run of good samples a success with score n leads to.
AfterSuccess(net, n) ==
    IF net = "none" THEN /\ quality' = "offline" /\ good' = 0 /\ score' = 0
    ELSE /\ score' = n
         /\ CASE n < 0 -> UNCHANGED <<quality, good>>
              [] n >= 0 /\ n < WeakScore -> quality' = "bad" /\ good' = 0
              [] n >= WeakScore /\ n < DegradedScore -> quality' = "degraded" /\ good' = 0
              [] n >= DegradedScore ->
                    /\ good' = good + 1
                    /\ quality' = IF quality \in {"unknown", "good"} \/ good' >= GoodToRecover
                                  THEN "good" ELSE quality

\* observe_sample of a success; the loss it is scored with is the one before.
Succeed(s) ==
    /\ Count(0)
    /\ network' = NetworkAfter(s)
    /\ failed' = 0
    /\ rtt' = Smoothed(s.rtt)
    /\ bandwidth' = IF s.bandwidth >= 0 THEN s.bandwidth ELSE bandwidth
    /\ LET measure == Score(rtt', IF loss >= 0 THEN loss ELSE s.loss, bandwidth')
           n == IF measure >= 0 THEN measure ELSE score
       IN AfterSuccess(network', n)
    /\ Record(TRUE, s.rtt)

\* on_network_change forgets everything.
OnNetworkChange(net) ==
    /\ network' = net
    /\ quality' = IF net = "none" THEN "offline" ELSE "unknown"
    /\ score' = IF net = "none" THEN 0 ELSE -1
    /\ samples' = 0 /\ failures' = 0 /\ failed' = 0 /\ good' = 0
    /\ rtt' = -1 /\ loss' = -1 /\ bandwidth' = -1
    /\ run' = 0 /\ fast' = 0 /\ trouble' = 0

Observe ==
    /\ samples < MaxSamples
    /\ \E s \in Samples : Succeed(s) \/ Fail(s)
    /\ trouble' <= MaxTrouble

Next == Observe \/ \E net \in Networks : OnNetworkChange(net)

Spec == Init /\ [][Next]_vars
-----------------------------------------------------------------------------
(* Once the network was seen to be worse than good, it is good again only  *)
(* after good_samples_to_recover successes in a row: failures in between   *)
(* start the count anew.                                                   *)
GoodNeedsARun ==
    [][quality' = "good" /\ quality \notin {"good", "unknown"} => run' >= GoodToRecover]_vars

NoNetworkIsOffline == network = "none" => quality = "offline" /\ score = 0

(* However bad the samples were, RecoverySamples fast ones in a row, all   *)
(* over a link not known to be narrow, make the network good again:        *)
(* smoothing and the loss of the past delay that but cannot prevent it.    *)
(* Without a network no sample does: the quality stays offline.            *)
RecoversInTime ==
    /\ TypeOK /\ NoNetworkIsOffline
    /\ fast >= RecoverySamples => quality = "good"
=============================================================================
