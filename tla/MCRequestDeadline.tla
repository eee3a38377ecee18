--------------------------- MODULE MCRequestDeadline ---------------------------
(* RequestDeadline with a timeout of 12 ticks, three retries at most, and  *)
(* back-offs that double.                                                  *)
EXTENDS RequestDeadline

MCDelay == <<1, 2, 4, 4>>
MCDelayFromZero == [n \in 0 .. MaxRetries + 1 |-> MCDelay[IF n > 3 THEN 4 ELSE n + 1]]
=============================================================================
