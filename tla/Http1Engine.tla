----------------------------- MODULE Http1Engine -----------------------------
(***************************************************************************)
(* Http1Engine (sdk/cxx/engine/http1_engine.cpp): one request at a time    *)
(* under mutex_, on a TLS connection that is kept for the next request     *)
(* when the response said where it ends and came to that end.              *)
(*                                                                         *)
(* A response is a sequence of units: an interim (1xx) head perhaps, the   *)
(* head, the parts of the body, the last chunk.  TCP delivers units in any *)
(* portions and any time later, so a read that fails may just have been    *)
(* too early.  The server is external: it stops anywhere, closes when it   *)
(* likes, and is sloppy where that can be survived: it sends a body where  *)
(* there must be none, too much of one before it closes, or a malformed    *)
(* chunk.  What else it sends agrees with its head: nothing follows a      *)
(* response after which both sides keep the connection.                    *)
(*                                                                         *)
(* Left out: the text of heads and the other response fields.  A head that *)
(* exceeds kMaxResponseHeaders is one of the failures of ReadHead.         *)
(***************************************************************************)
EXTENDS Integers, Sequences, FiniteSets

CONSTANTS Keys,          \* host, endpoint, port, CA bundle and network epoch
          Timeouts,      \* timeout_ms of requests
          MaxBody,       \* max_response_body_bytes, in parts
          Slack,         \* kMaxResponseHeaders, in parts
          MaxParts,      \* bound on the parts of a body
          MaxRequests,   \* bound on the requests
          MaxSpent,      \* bound on the time a request is followed for
          None

\* Where a body ends: there is none (HEAD, 204, 304), after Content-Length, at
\* the last chunk, with the connection; or the head contradicts itself.
Framings == {"none", "length", "chunked", "eof", "invalid"}
Plans == {p \in [framing : Framings, parts : 0..MaxParts,
                 close : BOOLEAN, interim : BOOLEAN, sloppy : BOOLEAN] :
            /\ p.framing \in {"none", "invalid"} => p.parts = 0
            /\ p.sloppy => p.framing \in {"none", "chunked"} \/ (p.framing = "length" /\ p.close)}
Kinds == {"interim", "head", "part", "garbage", "end"}
Units == [of : 1..MaxRequests, kind : Kinds, plan : Plans]

\* A connection: its key, the time-out of its socket, the units on their way
\* and whether the server has closed.
Connections == [key : Keys, timeout : Timeouts, wire : Seq(Units), eof : BOOLEAN]

Results == {"OK", "CONNECT", "TLS", "OUT_OF_MEMORY", "PROTOCOL", "BUFFER_TOO_SMALL"}

\* None stands for a null pointer, or for no result.
Http1Assumption ==
    /\ Timeouts \subseteq Nat \ {0}
    /\ {MaxBody, Slack, MaxParts, MaxRequests, MaxSpent} \subseteq Nat
    /\ None \notin Keys \cup Results /\ None \notin Connections
    /\ None \notin [key : Keys, use : {"unused", "busy", "answered"}]

VARIABLES conn,     \* connection_, or None
          pc,       \* where request() is; "idle" while mutex_ is free
          req,      \* the request, with the number it has
          raw,      \* the units it has read
          spent,    \* how long it has taken since it got mutex_, up to MaxSpent
          result    \* what it returned, or None

vars == <<conn, pc, req, raw, spent, result>>

TypeOK ==
    /\ conn \in Connections \cup {None}
    /\ pc \in {"idle", "ensure", "write", "head", "body"}
    /\ req \in [number : 0..MaxRequests, key : Keys, timeout : Timeouts]
    /\ raw \in Seq(Units)
    /\ spent \in 0..MaxSpent
    /\ result \in Results \cup {None}

Init ==
    /\ conn = None /\ pc = "idle" /\ raw = <<>> /\ spent = 0 /\ result = None
    /\ req \in [number : {0}, key : Keys, timeout : Timeouts]

AtMost(a, b) == IF a < b THEN a ELSE b

\* A blocking call on a socket whose time-out is t.
Blocks(t) == \E d \in 0..t : spent' = AtMost(spent + d, MaxSpent)

\* What the server means to send for request n.
Response(n, p) ==
    LET U(kind) == [of |-> n, kind |-> kind, plan |-> p]
        garbage == IF p.sloppy THEN <<U("garbage")>> ELSE <<>> IN
    (IF p.interim THEN <<U("interim")>> ELSE <<>>)
        \o <<U("head")>> \o [i \in 1..p.parts |-> U("part")] \o garbage
        \o (IF p.framing = "chunked" THEN <<U("end")>> ELSE <<>>)

Return(r) == pc' = "idle" /\ result' = r

\* Seeded bug: the connection survives a failed response.
FailKeeping(r) == Return(r) /\ conn' = conn

\* A failure after ensure_connection: close_connection, and return.
Fail(r) == Return(r) /\ conn' = None

-----------------------------------------------------------------------------
\* request gets mutex_.
Begin(k, t) ==
    /\ pc = "idle" /\ req.number < MaxRequests
    /\ req' = [number |-> req.number + 1, key |-> k, timeout |-> t]
    /\ pc' = "ensure" /\ raw' = <<>> /\ spent' = 0 /\ result' = None
    /\ UNCHANGED conn

Same == conn # None /\ conn.key = req.key

\* ensure_connection.
Reuse ==
    /\ pc = "ensure" /\ Same
    /\ pc' = "write"
    /\ UNCHANGED <<conn, req, raw, spent, result>>

\* TCP and TLS, both with the request's time-out on each step.
Connect ==
    /\ pc = "ensure" /\ ~Same
    /\ Blocks(2 * req.timeout)
    /\ \/ /\ conn' = [key |-> req.key, timeout |-> req.timeout, wire |-> <<>>, eof |-> FALSE]
          /\ pc' = "write" /\ UNCHANGED result
       \/ \E e \in {"CONNECT", "TLS", "OUT_OF_MEMORY"} : Fail(e)
    /\ UNCHANGED <<req, raw>>

\* A line break where none may be, or a header with a bad name.
Refuse ==
    /\ pc = "write"
    /\ Fail("PROTOCOL")
    /\ UNCHANGED <<req, raw, spent>>

WriteFails ==
    /\ pc = "write"
    /\ Blocks(conn.timeout)
    /\ Fail("PROTOCOL")
    /\ UNCHANGED <<req, raw>>

\* The request is out.  A server that has not closed sends the first n units of
\* a response, and closes or falls silent.
Write(p, n, closes) ==
    /\ pc = "write"
    /\ n <= Len(Response(req.number, p))
    /\ conn' = [conn EXCEPT !.wire = IF conn.eof THEN @
                                     ELSE @ \o SubSeq(Response(req.number, p), 1, n),
                            !.eof = @ \/ closes]
    /\ pc' = "head"
    /\ Blocks(conn.timeout)
    /\ UNCHANGED <<req, raw, result>>

\* SSL_read delivers the next n units.
Read(n) ==
    /\ n \in 1..Len(conn.wire)
    /\ raw' = raw \o SubSeq(conn.wire, 1, n)
    /\ conn' = [conn EXCEPT !.wire = SubSeq(@, n + 1, Len(@))]
    /\ Blocks(conn.timeout)

-----------------------------------------------------------------------------
Heads(units) == {i \in 1..Len(units) : units[i].kind = "head"}
HeadAt == CHOOSE i \in Heads(raw) : \A j \in Heads(raw) : i <= j
Head1 == raw[HeadAt].plan
Body == SubSeq(raw, HeadAt + 1, Len(raw))

\* The head is read, and interim ones before it are skipped.
ReadHead(n) ==
    /\ pc = "head"
    /\ Read(n)
    /\ pc' = IF Heads(raw') # {} THEN "body" ELSE "head"
    /\ UNCHANGED <<req, result>>

ReadHeadFails ==
    /\ pc = "head"
    /\ Blocks(conn.timeout)
    /\ Fail("PROTOCOL")
    /\ UNCHANGED <<req, raw>>

\* decode_chunked: what follows the last chunk is not looked at, and neither is
\* a body that the last read has made too long.
Stops == {i \in 1..Len(Body) : Body[i].kind # "part"}
FirstStop == CHOOSE i \in Stops : \A j \in Stops : i <= j
Chunks ==
    IF Stops = {} \/ Len(Body) > MaxBody + Slack THEN "incomplete"
    ELSE IF Body[FirstStop].kind = "end" THEN "complete" ELSE "invalid"

\* How many units the next read may take at most; 0 if there is none.
Wanted ==
    CASE Head1.framing = "chunked" ->
            IF Chunks = "incomplete" /\ Len(Body) <= MaxBody + Slack THEN Len(conn.wire) + 1 ELSE 0
      [] Head1.framing = "length" ->
            IF Head1.parts <= MaxBody /\ Len(Body) < Head1.parts THEN Head1.parts - Len(Body) ELSE 0
      [] Head1.framing = "eof" ->
            IF Len(Body) <= MaxBody THEN MaxBody - Len(Body) + 1 ELSE 0
      [] OTHER -> 0

ReadBody(n) ==
    /\ pc = "body" /\ n <= Wanted
    /\ Read(n)
    /\ UNCHANGED <<pc, req, result>>

\* Seeded bug: a body that is too short for its Content-Length is returned.
LengthVerdictShort ==
    IF Head1.parts > MaxBody THEN "BUFFER_TOO_SMALL"
    ELSE IF Len(Body) > Head1.parts THEN "PROTOCOL" ELSE "OK"

LengthVerdict ==
    IF Head1.parts > MaxBody THEN "BUFFER_TOO_SMALL"
    ELSE IF Len(Body) # Head1.parts THEN "PROTOCOL" ELSE "OK"

\* How the response is judged once it is not read any further.
Verdict ==
    CASE Head1.framing = "invalid" -> "PROTOCOL"
      [] Head1.framing = "none" -> IF Body = <<>> THEN "OK" ELSE "PROTOCOL"
      [] Head1.framing = "chunked" ->
            IF Chunks # "complete"
            THEN IF Len(Body) > MaxBody + Slack THEN "BUFFER_TOO_SMALL" ELSE "PROTOCOL"
            ELSE IF FirstStop - 1 > MaxBody THEN "BUFFER_TOO_SMALL" ELSE "OK"
      [] Head1.framing = "length" -> LengthVerdict
      [] Head1.framing = "eof" -> IF Len(Body) > MaxBody THEN "BUFFER_TOO_SMALL" ELSE "OK"

Keeps == ~Head1.close /\ Head1.framing \in {"length", "chunked"}

\* The body has all it wants, or the read failed: end of the stream, an error
\* and a time-out are all the same.
Conclude ==
    /\ pc = "body"
    /\ IF Wanted = 0 THEN UNCHANGED spent ELSE Blocks(conn.timeout)
    /\ IF Verdict # "OK" THEN Fail(Verdict)
       ELSE Return("OK") /\ conn' = IF Keeps THEN conn ELSE None
    /\ UNCHANGED <<req, raw>>

-----------------------------------------------------------------------------
\* migrate_connection, on a network change, and the destructor.
MigrateConnection ==
    /\ pc = "idle" /\ conn # None
    /\ conn' = None
    /\ UNCHANGED <<pc, req, raw, spent, result>>

\* An idle connection is closed by the server; nobody looks.
ServerCloses ==
    /\ pc = "idle" /\ conn # None /\ ~conn.eof
    /\ conn' = [conn EXCEPT !.eof = TRUE]
    /\ UNCHANGED <<pc, req, raw, spent, result>>

MaxUnits == MaxParts + 4

Next ==
    \/ \E k \in Keys, t \in Timeouts : Begin(k, t)
    \/ Reuse \/ Connect \/ Refuse \/ WriteFails
    \/ \E p \in Plans, n \in 0..MaxUnits, closes \in BOOLEAN : Write(p, n, closes)
    \/ \E n \in 1..MaxUnits : ReadHead(n) \/ ReadBody(n)
    \/ ReadHeadFails \/ Conclude
    \/ MigrateConnection \/ ServerCloses

Spec == Init /\ [][Next]_vars

-----------------------------------------------------------------------------
\* The answer is there when the response's own end has been read.
Answered ==
    /\ pc = "body" /\ conn.wire = <<>>
    /\ \E p \in {raw[i].plan : i \in 1..Len(raw)} : raw = Response(req.number, p)

\* The connection and the request as ConnectionReuse sees them.
Use == IF pc \in {"idle", "ensure"} THEN "unused" ELSE IF Answered THEN "answered" ELSE "busy"
ReusedConn == IF conn = None THEN None ELSE [key |-> conn.key, use |-> Use]
AskedKey == IF pc = "idle" THEN None ELSE req.key

Connection == INSTANCE ConnectionReuse WITH conn <- ReusedConn, asked <- AskedKey

(* The engine keeps ConnectionReuse's promise: connections are reused for  *)
(* their own key only, and whatever went wrong before, none is kept on     *)
(* which a late answer may still arrive.                                   *)
ImplementsReuse1 == Connection!Spec

(* A request that succeeds was given what the server sent in answer to it  *)
(* and to nobody else, and all of it, unless the response ends with the    *)
(* connection: then whatever had come when a read failed is all of it.     *)
OwnWholeResponse ==
    /\ TypeOK
    /\ result = "OK" =>
        /\ \A i \in 1..Len(raw) : raw[i].of = req.number
        /\ Head1.framing # "eof" =>
             Cardinality({i \in 1..Len(raw) : raw[i].kind = "part"}) = Head1.parts

(* engine.h:99 says of request that it blocks until it is complete or its  *)
(* time-out is over.  From the moment it has the engine's mutex.           *)
BlocksUntilTimeout == spent <= req.timeout
=============================================================================
