--------------------------- MODULE ConnectionReuse ---------------------------
(***************************************************************************)
(* What HTTP/1.1 and HTTP/2 engine promise of the connection they keep     *)
(* between requests (connection_ of http1_engine.cpp and http2_engine.cpp):*)
(* a request only ever runs on a connection that was opened for its own    *)
(* origin, certificates and network, and a connection outlives a request   *)
(* only if the whole answer was taken from it.                             *)
(***************************************************************************)
CONSTANTS Keys,      \* host, endpoint, port, CA bundle and network epoch
          None

VARIABLES conn,      \* None, or the key it was opened for and what it is used for
          asked      \* None, or the key of the request that runs

vars == <<conn, asked>>

Conn(k, use) == [key |-> k, use |-> use]
Unused == conn = None \/ conn.use = "unused"

Init == conn = None /\ asked = None

Ask(k) == asked = None /\ asked' = k /\ UNCHANGED conn

Open ==
    /\ asked # None /\ Unused
    /\ conn' = Conn(asked, "busy")
    /\ UNCHANGED asked

Reuse ==
    /\ asked # None
    /\ conn = Conn(asked, "unused")
    /\ conn' = Conn(asked, "busy")
    /\ UNCHANGED asked

\* The last byte of the answer has been taken, and the server agrees to more.
Answer ==
    /\ conn # None /\ conn.use = "busy"
    /\ conn' = [conn EXCEPT !.use = "answered"]
    /\ UNCHANGED asked

\* The server asks to be left alone.
Condemn ==
    /\ conn # None /\ conn.use = "answered"
    /\ conn' = [conn EXCEPT !.use = "busy"]
    /\ UNCHANGED asked

Return ==
    /\ asked # None /\ asked' = None
    /\ \/ conn' = None
       \/ conn # None /\ conn.use \in {"unused", "answered"} /\ conn' = Conn(conn.key, "unused")

Drop == asked = None /\ conn' = None /\ UNCHANGED asked

Next == (\E k \in Keys : Ask(k)) \/ Open \/ Reuse \/ Answer \/ Condemn \/ Return \/ Drop

Spec == Init /\ [][Next]_vars
=============================================================================
