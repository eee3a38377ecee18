---------------------------- MODULE RequestDeadline ----------------------------
(***************************************************************************)
(* The time one request takes: WeakNetInterceptor and RetryInterceptor     *)
(* (sdk/cxx/orchestrator/interceptor.cpp) around Client::execute_transport *)
(* (sdk/cxx/client.cpp), which resolves the host and then tries up to two  *)
(* addresses, each through the ProtocolSelector.                           *)
(*                                                                         *)
(* All of it runs on the caller's thread.  Time is counted in ticks from   *)
(* the moment the request entered the Client.  The resolver and the        *)
(* selector answer within the timeout they are given; how they fail is     *)
(* "DNS", "CONNECT" (the only result that makes execute_transport try a    *)
(* second address), "PROTOCOL" for the other retryable errors and "TLS"    *)
(* for those that are not.                                                 *)
(***************************************************************************)
EXTENDS Integers

CONSTANTS Timeout,      \* context.request.timeout_ms, hence deadline_ms
          MaxRetries,   \* context.max_retries as the caller set it
          Delay,        \* Delay[n]: back-off after attempt n, with its jitter
          MaxOversleep  \* bound on how late sleep_for wakes up

ASSUME DeadlineAssumption ==
    /\ Timeout \in Nat \ {0}
    /\ MaxRetries \in Nat
    /\ Delay \in [0 .. MaxRetries + 1 -> Nat]
    /\ MaxOversleep \in Nat

VARIABLES pc,
          now,          \* the clock
          retry_safe,   \* context.request.retry_safe after normalize_retry_safety
          link,         \* what the quality prober says of the network
          max_retries,  \* context.max_retries
          attempt,      \* attempt of RetryInterceptor's loop, from 0
          timeout_ms,   \* context.request.timeout_ms
          addresses,    \* addresses execute_transport has still to try
          result,
          calls,        \* history: calls of the selector so far
          call_start    \* history: when the call under way or last done began

vars == <<pc, now, retry_safe, link, max_retries, attempt, timeout_ms, addresses,
          result, calls, call_start>>

Results == {"OK", "DNS", "CONNECT", "PROTOCOL", "TLS", "TIMEOUT", "INTERNAL"}
Links == {"fine", "weak", "offline"}
IsRetryable(r) == r \in {"DNS", "CONNECT", "PROTOCOL", "TIMEOUT"}

AtLeast(n, m) == IF n < m THEN m ELSE n
AtMost(n, m) == IF n > m THEN m ELSE n

\* normalize_retry_safety
Normalized(safe) == IF safe THEN AtLeast(MaxRetries, 1) ELSE 0
\* WeakNetInterceptor
Restricted(retries, quality) ==
    CASE quality = "fine" -> retries
      [] quality = "weak" -> AtMost(retries, 1)
      [] quality = "offline" -> 0

RetryLimit == IF retry_safe THEN max_retries ELSE 0

TypeOK ==
    /\ pc \in {"start", "loop", "resolve", "address", "call", "judge", "done"}
    /\ now \in Nat
    /\ retry_safe \in BOOLEAN
    /\ link \in Links
    /\ max_retries \in 0 .. MaxRetries + 1
    /\ attempt \in 0 .. MaxRetries + 1
    /\ timeout_ms \in 1 .. Timeout
    /\ addresses \in 0 .. 2
    /\ result \in Results
    /\ calls \in Nat
    /\ call_start \in Nat

Init ==
    /\ pc = "start"
    /\ now = 0
    /\ retry_safe \in BOOLEAN
    /\ link \in Links
    /\ max_retries = MaxRetries
    /\ attempt = 0
    /\ timeout_ms = Timeout
    /\ addresses = 0
    /\ result = "INTERNAL"
    /\ calls = 0
    /\ call_start = 0

-----------------------------------------------------------------------------
\* normalize_retry_safety and WeakNetInterceptor; d ticks may have gone by.
Enter(d) ==
    /\ pc = "start"
    /\ now' = now + d
    /\ max_retries' = Restricted(Normalized(retry_safe), link)
    /\ pc' = "loop"
    /\ UNCHANGED <<retry_safe, link, attempt, timeout_ms, addresses, result, calls,
                   call_start>>

\* Top of RetryInterceptor's loop.
StartAttempt ==
    /\ pc = "loop"
    /\ now < Timeout
    /\ timeout_ms' = Timeout - now
    /\ pc' = "resolve"
    /\ UNCHANGED <<now, retry_safe, link, max_retries, attempt, addresses, result, calls,
                   call_start>>

DeadlineReached ==
    /\ pc = "loop"
    /\ now >= Timeout
    /\ result' = "TIMEOUT"
    /\ pc' = "done"
    /\ UNCHANGED <<now, retry_safe, link, max_retries, attempt, timeout_ms, addresses,
                   calls, call_start>>

\* Seeded bug: the second address is for every request.
ResolveForAll(d, n) ==
    /\ pc = "resolve"
    /\ d <= timeout_ms
    /\ now' = now + d
    /\ IF n = 0
       THEN result' = "DNS" /\ pc' = "judge" /\ addresses' = 0
       ELSE addresses' = AtMost(n, 2) /\ pc' = "address" /\ UNCHANGED result
    /\ UNCHANGED <<retry_safe, link, max_retries, attempt, timeout_ms, calls, call_start>>

\* resolve_with_metadata takes d ticks and finds n addresses.
Resolve(d, n) ==
    /\ pc = "resolve"
    /\ d <= timeout_ms
    /\ now' = now + d
    /\ IF n = 0
       THEN result' = "DNS" /\ pc' = "judge" /\ addresses' = 0
       ELSE /\ addresses' = IF retry_safe THEN AtMost(n, 2) ELSE 1
            /\ pc' = "address"
            /\ UNCHANGED result
    /\ UNCHANGED <<retry_safe, link, max_retries, attempt, timeout_ms, calls, call_start>>

\* The next address: the selector gets context.request.timeout_ms.
CallSelector ==
    /\ pc = "address"
    /\ calls' = calls + 1
    /\ call_start' = now
    /\ pc' = "call"
    /\ UNCHANGED <<now, retry_safe, link, max_retries, attempt, timeout_ms, addresses,
                   result>>

SelectorReturns(d, r) ==
    /\ pc = "call"
    /\ d <= timeout_ms
    /\ now' = now + d
    /\ result' = r
    /\ addresses' = addresses - 1
    /\ pc' = IF r = "CONNECT" /\ addresses' > 0 THEN "address" ELSE "judge"
    /\ UNCHANGED <<retry_safe, link, max_retries, attempt, timeout_ms, calls, call_start>>

\* After the attempt: return, or sleep and go round again.
Finish ==
    /\ pc = "judge"
    /\ \/ result = "OK" \/ ~IsRetryable(result) \/ attempt = RetryLimit
       \/ now + Delay[attempt] >= Timeout
    /\ timeout_ms' = Timeout
    /\ pc' = "done"
    /\ UNCHANGED <<now, retry_safe, link, max_retries, attempt, addresses, result, calls,
                   call_start>>

Backoff(oversleep) ==
    /\ pc = "judge"
    /\ result # "OK" /\ IsRetryable(result) /\ attempt < RetryLimit
    /\ now + Delay[attempt] < Timeout
    /\ now' = now + Delay[attempt] + oversleep
    /\ attempt' = attempt + 1
    /\ pc' = "loop"
    /\ UNCHANGED <<retry_safe, link, max_retries, timeout_ms, addresses, result, calls,
                   call_start>>

Next ==
    \/ \E d \in 0 .. 1 : Enter(d)
    \/ StartAttempt \/ DeadlineReached
    \/ \E d \in 0 .. Timeout, n \in 0 .. 3 : Resolve(d, n)
    \/ CallSelector
    \/ \E d \in 0 .. Timeout, r \in {"OK", "CONNECT", "PROTOCOL", "TLS"} : SelectorReturns(d, r)
    \/ Finish
    \/ \E oversleep \in 0 .. MaxOversleep : Backoff(oversleep)

Spec == Init /\ [][Next]_vars

-----------------------------------------------------------------------------
CallsBounded ==
    /\ ~retry_safe => calls <= 1
    /\ calls <= 2 * (attempt + 1)
    /\ link = "offline" => attempt = 0
    /\ link = "weak" => attempt <= 1

(* A request that is not safe to repeat is handed to the selector at most  *)
(* once, over retries and addresses together, a safe one at most twice per *)
(* attempt, and an offline network gets no second attempt at all.          *)
(* Whatever fails, the caller has its answer within three times the        *)
(* timeout it asked for (and the lateness of one sleep), if the engines    *)
(* keep to the timeout they are given (Http1Engine does not).              *)
BoundedEffort ==
    /\ TypeOK /\ CallsBounded
    /\ now <= 3 * Timeout + MaxOversleep

(* README.md:58: "Retry - exponential backoff + jitter, shared deadline".  *)
(* What a request is given for one more try never reaches past its         *)
(* deadline.                                                               *)
SharedDeadline ==
    pc = "call" => call_start + timeout_ms <= Timeout
=============================================================================
