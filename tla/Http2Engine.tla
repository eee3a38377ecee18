----------------------------- MODULE Http2Engine -----------------------------
(***************************************************************************)
(* Http2Engine (sdk/cxx/engine/http2_engine.cpp): one request at a time    *)
(* under mutex_, on a TLS connection with an nghttp2 session that is kept  *)
(* for the next request.  nghttp2 calls back with the session's user_data, *)
(* which is the H2Ctx on the stack of the request that runs.               *)
(*                                                                         *)
(* A request's stream has the request's number, which grows as stream ids  *)
(* do.  nghttp2, TLS and the server are external.  nghttp2 asks the data   *)
(* callback for a stream's body whenever flow control lets it, and goes on *)
(* doing so after the response has ended, until the body's end or a reset  *)
(* of the stream.  A head after an interim (1xx) one has the category      *)
(* HCAT_HEADERS.  SSL_read hands over any number of the frames that have   *)
(* been sent.  Header text, trailers, empty DATA frames and what a request *)
(* reports are left out.                                                   *)
(***************************************************************************)
EXTENDS Integers, Sequences, FiniteSets

CONSTANTS Keys,          \* host, endpoint, port, CA bundle and network epoch
          MaxBody,       \* max_response_body_bytes, in DATA frames
          MaxUpload,     \* bound on the body of a request, in calls of the data callback
          MaxData,       \* bound on the DATA frames of a response
          MaxFrames,     \* bound on the frames that are under way
          MaxRequests,   \* bound on the requests
          None

Numbers == 1..MaxRequests
FrameTypes == {"INTERIM", "HEADERS", "DATA", "RST_STREAM", "GOAWAY"}
\* end: END_STREAM; error: a reset with an error, a GOAWAY that refuses the
\* stream; bodiless: a status that allows no body.
Frames == [type : FrameTypes, stream : Numbers, end : BOOLEAN, error : BOOLEAN, bodiless : BOOLEAN]

Contexts == [status : BOOLEAN, headed : BOOLEAN, body_allowed : BOOLEAN, body : 0..MaxBody,
             sent : 0..MaxUpload, closed : BOOLEAN, end_stream : BOOLEAN, error : BOOLEAN,
             forbidden : BOOLEAN, over_limit : BOOLEAN, goaway : BOOLEAN]
NewContext == [status |-> FALSE, headed |-> FALSE, body_allowed |-> TRUE, body |-> 0, sent |-> 0,
               closed |-> FALSE, end_stream |-> FALSE, error |-> FALSE,
               forbidden |-> FALSE, over_limit |-> FALSE, goaway |-> FALSE]

\* A connection: its key, the session's user_data (0 or the request whose H2Ctx
\* it is), the frames on their way, the streams whose body nghttp2 has not
\* finished, and whether the server has closed.
Connections == [key : Keys, user_data : {0} \cup Numbers, in : Seq(Frames),
                unfinished : SUBSET Numbers, eof : BOOLEAN]

\* None stands for a null pointer, or for no result.
Http2Assumption ==
    /\ {MaxBody, MaxUpload, MaxData, MaxFrames, MaxRequests} \subseteq Nat
    /\ None \notin Keys \cup {"OK"} /\ None \notin Connections
    /\ None \notin [key : Keys, use : {"unused", "busy", "answered"}]

VARIABLES conn,     \* connection_, or None
          pc,       \* where request() is; "idle" while mutex_ is free
          req,      \* its number, key and the size of its body
          ctx,      \* its H2Ctx
          batch,    \* frames read but not yet given to nghttp2
          late,     \* deadline_ms is over
          result,   \* what the request returned, or None
          reply,    \* the server's side of the stream, with the DATA frames sent
          upload    \* the request's last DATA frame: its stream, and whose body it
                    \* holds; or None

vars == <<conn, pc, req, ctx, batch, late, result, reply, upload>>
loop == <<conn, ctx, batch, reply, upload>>

TypeOK ==
    /\ conn \in Connections \cup {None}
    /\ pc \in {"idle", "ensure", "submit", "send", "pending", "read", "received"}
    /\ req \in [number : {0} \cup Numbers, key : Keys, size : 0..MaxUpload]
    /\ ctx \in Contexts /\ batch \in Nat /\ late \in BOOLEAN
    /\ result \in {"OK", "CONNECT", "TLS", "OUT_OF_MEMORY", "TIMEOUT", "PROTOCOL",
                   "BUFFER_TOO_SMALL", None}
    /\ reply \in [state : {"silent", "asked", "interim", "headed", "ended"}, data : 0..MaxData]
    /\ upload \in (Numbers \X Numbers) \cup {None}

Init ==
    /\ conn = None /\ pc = "idle" /\ ctx = NewContext /\ batch = 0 /\ late = FALSE
    /\ req \in [number : {0}, key : Keys, size : {0}]
    /\ result = None /\ reply = [state |-> "silent", data |-> 0] /\ upload = None

\* Nothing of the request is left but what it returned.
Return(r) == pc' = "idle" /\ result' = r /\ batch' = 0 /\ late' = FALSE

-----------------------------------------------------------------------------
\* request gets mutex_.
Begin(k, size) ==
    /\ pc = "idle" /\ req.number < MaxRequests
    /\ req' = [number |-> req.number + 1, key |-> k, size |-> size]
    /\ pc' = "ensure" /\ ctx' = NewContext /\ result' = None
    /\ reply' = [state |-> "silent", data |-> 0] /\ upload' = None
    /\ UNCHANGED <<conn, batch, late>>

\* A line break where none may be.
RefuseText ==
    /\ pc = "ensure"
    /\ Return("PROTOCOL")
    /\ UNCHANGED <<conn, req, ctx, reply, upload>>

Same == conn # None /\ conn.key = req.key

\* ensure_connection, and user_data is bound to this request.
Reuse ==
    /\ pc = "ensure" /\ Same
    /\ conn' = [conn EXCEPT !.user_data = req.number]
    /\ pc' = "submit"
    /\ UNCHANGED <<req, ctx, batch, late, result, reply, upload>>

\* connect_tcp has tried every address, or its time was over.
NoTcp == Return("CONNECT")

Connect ==
    /\ pc = "ensure" /\ ~Same
    /\ \/ /\ conn' = [key |-> req.key, user_data |-> req.number, in |-> <<>>,
                      unfinished |-> {}, eof |-> FALSE]
          /\ pc' = "submit" /\ UNCHANGED <<batch, late, result>>
       \/ /\ conn' = None
          /\ NoTcp \/ \E e \in {"TLS", "OUT_OF_MEMORY", "TIMEOUT"} : Return(e)
    /\ UNCHANGED <<req, ctx, reply, upload>>

\* Seeded bug: the connection is kept, since nothing has been sent on it.
SubmitFailsKeeping(e) ==
    /\ pc = "submit"
    /\ conn' = conn
    /\ Return(e)
    /\ UNCHANGED <<req, ctx, reply, upload>>

\* Settings, ALPN, a header with a bad name, or a session without stream ids.
SubmitFails(e) ==
    /\ pc = "submit"
    /\ conn' = None
    /\ Return(e)
    /\ UNCHANGED <<req, ctx, reply, upload>>

Submit ==
    /\ pc = "submit"
    /\ conn' = [conn EXCEPT !.unfinished = IF req.size > 0 THEN @ \cup {req.number} ELSE @]
    /\ reply' = [reply EXCEPT !.state = IF conn.eof THEN @ ELSE "asked"]
    /\ pc' = "send"
    /\ UNCHANGED <<req, ctx, batch, late, result, upload>>

-----------------------------------------------------------------------------
\* nghttp2_session_send, one call of data_read_callback for stream s: the next
\* part of the body of the request that user_data points to.
DataRead(s) ==
    /\ pc = "send" /\ s \in conn.unfinished
    /\ LET n == IF ctx.sent < req.size THEN 1 ELSE 0 IN
        /\ ctx' = [ctx EXCEPT !.sent = @ + n]
        /\ upload' = IF n = 1 THEN <<s, req.number>> ELSE upload
        /\ conn' = [conn EXCEPT !.unfinished = IF ctx'.sent >= req.size THEN @ \ {s} ELSE @]
    /\ UNCHANGED <<pc, req, batch, late, result, reply>>

\* send_callback must read before it can write: the frames go to pending_data.
Drain ==
    /\ pc = "send" /\ batch < Len(conn.in)
    /\ batch' = batch + 1
    /\ UNCHANGED <<conn, pc, req, ctx, late, result, reply, upload>>

\* nghttp2_session_send returns; pending_data is fed to nghttp2 next.
Sent ==
    /\ pc = "send"
    /\ pc' = "pending"
    /\ UNCHANGED <<req, late, result, loop>>

\* What the callbacks make of a frame: on_header, on_data_chunk_recv,
\* on_frame_recv and on_stream_close.
AfterEnd(c, f) == IF f.end THEN [c EXCEPT !.end_stream = TRUE, !.error = FALSE, !.closed = TRUE] ELSE c
Status(c, f) ==
    IF c.headed THEN c
    ELSE IF f.type = "INTERIM" THEN [c EXCEPT !.headed = TRUE, !.body_allowed = FALSE]
    ELSE [c EXCEPT !.headed = TRUE, !.status = TRUE, !.body_allowed = ~f.bodiless]
Chunk(c) ==
    IF ~c.body_allowed THEN [c EXCEPT !.forbidden = TRUE]
    ELSE IF c.body = MaxBody THEN [c EXCEPT !.over_limit = TRUE]
    ELSE [c EXCEPT !.body = @ + 1]
Closed(c, error) == [c EXCEPT !.error = error, !.closed = TRUE]

After(c, f) ==
    IF f.type = "GOAWAY"
    THEN LET g == [c EXCEPT !.goaway = TRUE] IN IF f.error THEN Closed(g, TRUE) ELSE g
    ELSE IF f.stream # req.number THEN c
    ELSE CASE f.type \in {"INTERIM", "HEADERS"} -> AfterEnd(Status(c, f), f)
           [] f.type = "DATA" -> AfterEnd(Chunk(c), f)
           [] f.type = "RST_STREAM" -> Closed(c, f.error)

\* nghttp2_session_mem_recv, one frame.
Feed ==
    /\ pc \in {"pending", "received"} /\ batch > 0
    /\ LET f == Head(conn.in) IN
        /\ ctx' = After(ctx, f)
        /\ conn' = [conn EXCEPT !.in = Tail(@),
                                !.unfinished = IF f.type = "RST_STREAM" THEN @ \ {f.stream} ELSE @]
    /\ batch' = batch - 1
    /\ UNCHANGED <<pc, req, late, result, reply, upload>>

\* All frames are fed and the stream is not closed.
GoOn ==
    /\ pc \in {"pending", "received"} /\ batch = 0 /\ ~ctx.closed
    /\ pc' = IF pc = "pending" THEN "read" ELSE "send"
    /\ UNCHANGED <<req, late, result, loop>>

\* select and SSL_read.
Read(n) ==
    /\ pc = "read" /\ ~late
    /\ n \in 1..Len(conn.in)
    /\ batch' = n /\ pc' = "received"
    /\ UNCHANGED <<conn, req, ctx, late, result, reply, upload>>

\* Seeded bug: the loop only looks at the clock when select returns with data.
ReadNothingAnyTime ==
    /\ pc = "read"
    /\ pc' = "send"
    /\ UNCHANGED <<req, late, result, loop>>

\* select is interrupted, or there is no whole record yet.
ReadNothing ==
    /\ pc = "read" /\ ~late
    /\ pc' = "send"
    /\ UNCHANGED <<req, late, result, loop>>

-----------------------------------------------------------------------------
\* Seeded bug: a closed stream counts as an ended one.
JudgedClosed(ret) ==
    IF ctx.over_limit THEN "BUFFER_TOO_SMALL"
    ELSE IF ctx.forbidden THEN "PROTOCOL"
    ELSE IF ret = "OK" /\ (~ctx.status \/ ~ctx.closed \/ ctx.error) THEN "PROTOCOL"
    ELSE ret

\* What becomes of ret after the loop.
Judged(ret) ==
    IF ctx.over_limit THEN "BUFFER_TOO_SMALL"
    ELSE IF ctx.forbidden THEN "PROTOCOL"
    ELSE IF ret = "OK" /\ (~ctx.status \/ ~ctx.end_stream \/ ctx.error) THEN "PROTOCOL"
    ELSE ret

\* Seeded bug: GOAWAY is noticed and forgotten.
KeepsAfterGoaway(r) == r = "OK"

Keeps(r) == r = "OK" /\ ~ctx.goaway

\* The end of request: the context leaves the session, which is kept or deleted.
Finish(ret) ==
    /\ Return(Judged(ret))
    /\ conn' = IF Keeps(Judged(ret)) THEN [conn EXCEPT !.user_data = 0] ELSE None
    /\ UNCHANGED <<req, ctx, reply, upload>>

StreamClosed == pc \in {"pending", "received"} /\ batch = 0 /\ ctx.closed /\ Finish("OK")
SendFails == pc = "send" /\ Finish("PROTOCOL")
FrameIsBad == pc \in {"pending", "received"} /\ batch > 0 /\ Finish("PROTOCOL")
TimedOut == pc = "read" /\ late /\ Finish("TIMEOUT")
ReadFails == pc = "read" /\ ~late /\ Finish("PROTOCOL")

\* migrate_connection, on a network change, and the destructor.
MigrateConnection ==
    /\ pc = "idle" /\ conn # None
    /\ conn' = None
    /\ UNCHANGED <<pc, req, ctx, batch, late, result, reply, upload>>

DeadlinePasses ==
    /\ pc # "idle" /\ ~late
    /\ late' = TRUE
    /\ UNCHANGED <<pc, req, result, loop>>

-----------------------------------------------------------------------------
\* The server (external).  It sends f, and its side of the stream is then r.
Sends(f, r) ==
    /\ conn # None /\ ~conn.eof /\ Len(conn.in) < MaxFrames
    /\ conn' = [conn EXCEPT !.in = Append(@, f)]
    /\ reply' = r
    /\ UNCHANGED <<pc, req, ctx, batch, late, result, upload>>

Frame(type, s, end, error, bodiless) ==
    [type |-> type, stream |-> s, end |-> end, error |-> error, bodiless |-> bodiless]

Asked == reply.state \in {"asked", "interim", "headed"}
SendsInterim ==
    /\ reply.state = "asked"
    /\ Sends(Frame("INTERIM", req.number, FALSE, FALSE, FALSE), [reply EXCEPT !.state = "interim"])
SendsHeaders(end, bodiless) ==
    /\ reply.state \in {"asked", "interim"}
    /\ Sends(Frame("HEADERS", req.number, end, FALSE, bodiless),
             [reply EXCEPT !.state = IF end THEN "ended" ELSE "headed"])
SendsData(end) ==
    /\ reply.state = "headed" /\ reply.data < MaxData
    /\ Sends(Frame("DATA", req.number, end, FALSE, FALSE),
             [state |-> IF end THEN "ended" ELSE "headed", data |-> reply.data + 1])
\* The stream under way is given up, or one that needs no more of its upload.
SendsReset(s, error) ==
    /\ (s = req.number /\ Asked) \/ s \in conn.unfinished
    /\ \A i \in DOMAIN conn.in : ~(conn.in[i].type = "RST_STREAM" /\ conn.in[i].stream = s)
    /\ Sends(Frame("RST_STREAM", s, FALSE, error, FALSE),
             IF s = req.number /\ Asked THEN [reply EXCEPT !.state = "silent"] ELSE reply)
SendsGoaway(refuses) ==
    /\ req.number > 0
    /\ refuses => Asked
    /\ Sends(Frame("GOAWAY", req.number, FALSE, refuses, FALSE),
             IF refuses THEN [reply EXCEPT !.state = "silent"] ELSE reply)
\* During a request a closing server is one that says no more: ReadFails.
ServerCloses ==
    /\ pc = "idle" /\ conn # None /\ ~conn.eof
    /\ conn' = [conn EXCEPT !.eof = TRUE]
    /\ UNCHANGED <<pc, req, ctx, batch, late, result, reply, upload>>

Server ==
    \/ SendsInterim
    \/ \E end, bodiless \in BOOLEAN : SendsHeaders(end, bodiless)
    \/ \E end \in BOOLEAN : SendsData(end)
    \/ \E s \in Numbers, error \in BOOLEAN : conn # None /\ SendsReset(s, error)
    \/ \E refuses \in BOOLEAN : SendsGoaway(refuses)
    \/ ServerCloses

Request ==
    \/ RefuseText \/ Reuse \/ Connect
    \/ \E e \in {"PROTOCOL", "OUT_OF_MEMORY"} : SubmitFails(e)
    \/ Submit \/ Sent \/ Drain
    \/ \E s \in Numbers : DataRead(s)
    \/ Feed \/ GoOn \/ ReadNothing
    \/ \E n \in 1..MaxFrames : Read(n)
    \/ StreamClosed \/ SendFails \/ FrameIsBad \/ TimedOut \/ ReadFails

Next ==
    \/ \E k \in Keys, size \in 0..MaxUpload : Begin(k, size)
    \/ Request
    \/ MigrateConnection \/ DeadlinePasses \/ Server

\* The thread of the request runs and time passes; the server need not do anything.
Fairness == WF_vars(Request) /\ WF_vars(DeadlinePasses)

Spec == Init /\ [][Next]_vars
FairSpec == Spec /\ Fairness

-----------------------------------------------------------------------------
\* END_STREAM has been taken, and no GOAWAY.
Answered == ctx.end_stream /\ ~ctx.goaway

\* The connection and the request as ConnectionReuse sees them.
Use == IF pc \in {"idle", "ensure"} THEN "unused" ELSE IF Answered THEN "answered" ELSE "busy"
ReusedConn == IF conn = None THEN None ELSE [key |-> conn.key, use |-> Use]
AskedKey == IF pc = "idle" THEN None ELSE req.key

Connection == INSTANCE ConnectionReuse WITH conn <- ReusedConn, asked <- AskedKey

(* The engine keeps ConnectionReuse's promise: sessions are reused for     *)
(* their own key only, and only after a response that came to its end      *)
(* without the server having asked for no more requests.                   *)
ImplementsReuse2 == Connection!Spec

(* A request that succeeds was given a final status and every DATA frame   *)
(* of a response that the server ended, in whatever portions, resets,      *)
(* refusals and late frames of other streams it came.                      *)
WholeResponse ==
    /\ TypeOK
    /\ result = "OK" => ctx.status /\ reply.state = "ended" /\ ctx.body = reply.data

(* nghttp2 never gets hold of the context of a request that has returned:  *)
(* every way out of request() resets user_data or deletes the session, and *)
(* callbacks run with the context of the request that drives the session.  *)
ContextIsAlive ==
    conn # None =>
        conn.user_data = IF pc \in {"idle", "ensure"} THEN 0 ELSE req.number

(* A request returns although the server falls silent or keeps the         *)
(* connection busy: the loop gets to see its deadline.                     *)
Http2Returns == pc # "idle" ~> pc = "idle"

(* The comment at http2_engine.cpp:54 calls H2Ctx the context of a single  *)
(* request: what is sent on a stream is the body of the stream's request.  *)
BodyOnItsOwnStream == upload # None => upload[1] = upload[2]
=============================================================================
