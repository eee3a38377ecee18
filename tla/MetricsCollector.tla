--------------------------- MODULE MetricsCollector ---------------------------
(***************************************************************************)
(* monitor::MetricsCollectorImpl (sdk/cxx/monitor/metrics.cpp): what it    *)
(* counts of the requests that are reported to it.  report_request and the *)
(* readers are each one critical section of State::mutex.                  *)
(*                                                                         *)
(* A duration is whether it was measured.  Left out are sums, minima and   *)
(* maxima of durations, counters that count a single flag (degraded,       *)
(* cache_hit, ...), and the JSON text.  failure_stage is "" or a label:    *)
(* the ones the collector asks for, or one of OtherLabels.                 *)
(***************************************************************************)
EXTENDS Integers, FiniteSets, Sequences

CONSTANTS OtherLabels,    \* "header", "body", "protocol", "deadline", ...
          MaxLabels,      \* kMaxFailureStages
          MaxEvents,      \* State::max_events
          MaxReports      \* bound of the model

CollectorAssumption ==
    /\ {MaxLabels, MaxReports} \subseteq Nat /\ MaxEvents \in Nat \ {0}
    /\ OtherLabels \cap {"", "other"} = {}

Labels == {"dns", "connect", "tls", "timeout", "ttfb"} \cup OtherLabels
Stages == {"dns", "connect", "tls", "ttfb", "transfer", "total"}
Outcomes == {"succeeded", "failed"}

\* What Client::report_metrics may report.  The engines measure in this order,
\* say nothing of a stage that they did not come to, and label every failure;
\* a deadline that ends the retries keeps the measurements of the last attempt.
Metrics ==
    {m \in [result : {"OK", "DNS", "CONNECT", "TLS", "TIMEOUT", "PROTOCOL"},
            label : Labels \cup {""}, http3 : BOOLEAN, reused : BOOLEAN,
            connect : BOOLEAN, tls : BOOLEAN, ttfb : BOOLEAN] :
        /\ m.result = "OK" <=> m.label = ""
        /\ m.result = "DNS" <=> m.label = "dns"
        /\ m.result = "CONNECT" <=> m.label = "connect"
        /\ m.result = "TLS" => m.label = "tls"
        /\ m.label \in {"dns", "connect"} => ~m.tls
        /\ m.label = "dns" => ~m.connect
        /\ m.label \in {"dns", "connect", "tls"} => ~m.ttfb /\ ~m.reused
        /\ m.tls => m.connect \/ m.reused
        /\ m.ttfb => m.tls \/ m.reused
        /\ m.reused => ~m.http3}

VARIABLES requests, failure,
          count,     \* count[s][o]: StageStats of stage s; started is their sum
          tally,     \* failure_stages: a count per label, 0 if it is not there
          events,    \* the size of State::events
          blamed     \* the labels of the failures, in order: for the properties

vars == <<requests, failure, count, tally, events, blamed>>

TypeOK ==
    /\ requests \in 0..MaxReports /\ failure \in 0..requests
    /\ count \in [Stages -> [Outcomes -> Nat]]
    /\ tally \in [Labels \cup {"other"} -> Nat]
    /\ events \in 0..MaxEvents
    /\ blamed \in Seq(Labels)

Init ==
    /\ requests = 0 /\ failure = 0 /\ events = 0 /\ blamed = <<>>
    /\ count = [s \in Stages |-> [o \in Outcomes |-> 0]]
    /\ tally = [l \in Labels \cup {"other"} |-> 0]

-----------------------------------------------------------------------------
DnsFailed(m) == m.result = "DNS" \/ m.label = "dns"
ConnectFailed(m) == m.result = "CONNECT" \/ m.label = "connect"
HandshakeTimeout(m) == m.http3 /\ m.label = "timeout" /\ ~m.tls /\ ~m.ttfb
TlsFailed(m) == m.result = "TLS" \/ m.label = "tls" \/ HandshakeTimeout(m)

ConnectStarted(m) == ~DnsFailed(m) /\ ~m.reused /\ (m.connect \/ ConnectFailed(m))
TlsStarted(m) == ConnectStarted(m) /\ ~ConnectFailed(m) /\ (m.tls \/ TlsFailed(m))
TtfbStarted(m) == TlsStarted(m) /\ ~TlsFailed(m) /\ (m.ttfb \/ m.label \in {"ttfb", "timeout"})

\* Seeded bug: the transfer of a response that never began is a failed one.
TransferStartedAlways(m) == TRUE

TransferStarted(m) == m.ttfb

Started(m) ==
    {"dns", "total"} \cup (IF ConnectStarted(m) THEN {"connect"} ELSE {})
        \cup (IF TlsStarted(m) THEN {"tls"} ELSE {}) \cup (IF TtfbStarted(m) THEN {"ttfb"} ELSE {})
        \cup (IF TransferStarted(m) THEN {"transfer"} ELSE {})

Failed(m, s) ==
    CASE s = "dns" -> DnsFailed(m)
      [] s = "connect" -> ConnectFailed(m)
      [] s = "tls" -> TlsFailed(m)
      [] s = "ttfb" -> ~m.ttfb
      [] s \in {"transfer", "total"} -> m.result # "OK"

Known == {l \in DOMAIN tally : tally[l] > 0}

\* tally_failure_stage: a full table counts new labels as "other".
TallyOf(label) ==
    LET l == IF label \notin Known /\ Cardinality(Known) >= MaxLabels THEN "other" ELSE label IN
    IF label = "" THEN tally ELSE [tally EXCEPT ![l] = @ + 1]

ReportRequest(m) ==
    /\ requests < MaxReports
    /\ requests' = requests + 1
    /\ failure' = failure + IF m.result = "OK" THEN 0 ELSE 1
    /\ count' = [s \in Stages |->
                    IF s \notin Started(m) THEN count[s]
                    ELSE [count[s] EXCEPT ![IF Failed(m, s) THEN "failed" ELSE "succeeded"] = @ + 1]]
    /\ tally' = TallyOf(m.label)
    /\ events' = IF events = MaxEvents THEN events ELSE events + 1
    /\ blamed' = IF m.label = "" THEN blamed ELSE Append(blamed, m.label)

Next == \E m \in Metrics : ReportRequest(m)

Spec == Init /\ [][Next]_vars

-----------------------------------------------------------------------------
StartedOf(s) == count[s]["succeeded"] + count[s]["failed"]

FailedAt(s) == count[s]["failed"]

Blamed(l) == {i \in 1..Len(blamed) : blamed[i] = l}

\* A label has all its failures counted under its own name, or all as "other".
EveryLabelIsCounted ==
    /\ Len(blamed) = failure
    /\ \A l \in Labels : tally[l] \in {0, Cardinality(Blamed(l))}
    /\ tally["other"] = Cardinality({i \in 1..Len(blamed) : tally[blamed[i]] = 0})

(* The counts add up: no failure is blamed on two stages and no success on *)
(* any, every failure has its label counted though the table be full, and  *)
(* up to the first byte no more requests start a stage than have passed    *)
(* the one before it.                                                      *)
FailuresAddUp ==
    /\ TypeOK /\ EveryLabelIsCounted
    /\ FailedAt("total") = failure /\ StartedOf("total") = requests
    /\ FailedAt("dns") + FailedAt("connect") + FailedAt("tls") + FailedAt("ttfb")
          + FailedAt("transfer") <= failure
    /\ Cardinality(Known \ {"other"}) <= MaxLabels
    /\ StartedOf("connect") <= count["dns"]["succeeded"]
    /\ StartedOf("tls") <= count["connect"]["succeeded"]
    /\ StartedOf("ttfb") <= count["tls"]["succeeded"]
=============================================================================
