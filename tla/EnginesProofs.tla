----------------------------- MODULE EnginesProofs -----------------------------
(***************************************************************************)
(* For every number of requests, keys, units and frames.  Http2Engine:     *)
(* nghttp2 never holds the context of a request that has returned, and a   *)
(* response that counts as a success is whole.  Http1Engine: such a        *)
(* response is the request's own, too.  Both implement ConnectionReuse.    *)
(***************************************************************************)
EXTENDS Engines, Sequences, FiniteSetTheorems, FunctionTheorems, TLAPS

(* request drives a session of its own from ensure_connection on, whose    *)
(* frames include the ones it has read; the context of a request that is   *)
(* not yet submitted is new.                                               *)
SessionInv ==
    /\ conn2 # None \/ pc2 # "idle" => req2.number \in Http2!Numbers
    /\ pc2 \notin {"idle", "ensure"} => conn2 \in Http2!Connections /\ batch <= Len(conn2.in)
    /\ pc2 \in {"idle", "ensure", "submit", "read"} => batch = 0
    /\ pc2 \in {"ensure", "submit"} => ~ctx2.end_stream

Http2Inv == Http2!TypeOK /\ SessionInv /\ Http2!ContextIsAlive

Replies == [state : {"silent", "asked", "interim", "headed", "ended"}, data : 0 .. MaxData]
Verdicts == {"OK", "CONNECT", "TLS", "OUT_OF_MEMORY", "TIMEOUT", "PROTOCOL", "BUFFER_TOO_SMALL"}

(* What the callbacks make of a frame is a context again.                  *)
LEMMA Http2AfterType ==
    ASSUME Http2!Http2Assumption, NEW c \in Http2!Contexts, NEW f \in Http2!Frames
    PROVE  Http2!After(c, f) \in Http2!Contexts
  <1>1. \A d \in Http2!Contexts : Http2!AfterEnd(d, f) \in Http2!Contexts
    BY DEF Http2!AfterEnd, Http2!Contexts, Http2!Frames
  <1>2. Http2!Status(c, f) \in Http2!Contexts
    BY DEF Http2!Status, Http2!Contexts, Http2!Frames
  <1>3. Http2!Chunk(c) \in Http2!Contexts
    <2>1. c.body # MaxBody => c.body + 1 \in 0 .. MaxBody
      BY DEF Http2!Contexts, Http2!Http2Assumption
    <2>2. QED
      BY <2>1 DEF Http2!Chunk, Http2!Contexts
  <1>4. \A d \in Http2!Contexts, error \in BOOLEAN : Http2!Closed(d, error) \in Http2!Contexts
    BY DEF Http2!Closed, Http2!Contexts
  <1>5. [c EXCEPT !.goaway = TRUE] \in Http2!Contexts
    BY DEF Http2!Contexts
  <1>6. f.error \in BOOLEAN /\ f.type \in Http2!FrameTypes
    BY DEF Http2!Frames
  <1>7. QED
    BY <1>1, <1>2, <1>3, <1>4, <1>5, <1>6 DEF Http2!After, Http2!FrameTypes

(* A new engine.                                                           *)
LEMMA Http2InitInv ==
    ASSUME Http2!Http2Assumption, Http2!Init
    PROVE  Http2Inv
  <1>1. Http2!NewContext \in Http2!Contexts
    BY DEF Http2!NewContext, Http2!Contexts, Http2!Http2Assumption
  <1>2. Http2!TypeOK
    <2>1. req2 \in [number : {0} \cup Http2!Numbers, key : Keys, size : 0 .. MaxUpload]
      BY DEF Http2!Init, Http2!Http2Assumption
    <2>2. reply \in Replies
      BY DEF Http2!Init, Replies, Http2!Http2Assumption
    <2>3. QED
      BY <1>1, <2>1, <2>2 DEF Http2!Init, Http2!TypeOK, Replies
  <1>3. SessionInv /\ Http2!ContextIsAlive
    BY DEF Http2!Init, SessionInv, Http2!ContextIsAlive
  <1>4. QED
    BY <1>2, <1>3 DEF Http2Inv

(* request gets mutex_.                                                    *)
LEMMA Http2BeginInv ==
    ASSUME Http2!Http2Assumption, Http2Inv, NEW k \in Keys, NEW size \in 0 .. MaxUpload,
           Http2!Begin(k, size)
    PROVE  Http2Inv'
  <1>1. Http2!TypeOK'
    BY DEF Http2Inv, Http2!Begin, Http2!TypeOK, Http2!Http2Assumption, SessionInv,
       Http2!Connections, Http2!Contexts, Http2!Numbers, Http2!NewContext, Verdicts,
       Replies, Http2!Frames
  <1>2. SessionInv'
    BY DEF Http2Inv, Http2!Begin, Http2!TypeOK, SessionInv, Http2!Http2Assumption,
       Http2!Connections, Http2!Contexts, Http2!Numbers, Http2!NewContext, Verdicts,
       Replies, Http2!Frames
  <1>3. Http2!ContextIsAlive'
    BY DEF Http2Inv, Http2!Begin, Http2!TypeOK, Http2!ContextIsAlive
  <1>4. QED
    BY <1>1, <1>2, <1>3 DEF Http2Inv

(* A request that is refused touches no session.                           *)
LEMMA Http2RefuseTextInv ==
    ASSUME Http2!Http2Assumption, Http2Inv, Http2!RefuseText
    PROVE  Http2Inv'
  <1>1. Http2!TypeOK'
    BY DEF Http2Inv, Http2!RefuseText, Http2!Return, Http2!TypeOK
  <1>2. SessionInv'
    BY DEF Http2Inv, Http2!RefuseText, Http2!Return, Http2!TypeOK, SessionInv
  <1>3. Http2!ContextIsAlive'
    BY DEF Http2Inv, Http2!RefuseText, Http2!Return, Http2!TypeOK, Http2!ContextIsAlive
  <1>4. QED
    BY <1>1, <1>2, <1>3 DEF Http2Inv

(* The kept session gets the context of this request.                      *)
LEMMA Http2ReuseInv ==
    ASSUME Http2!Http2Assumption, Http2Inv, Http2!Reuse
    PROVE  Http2Inv'
  <1>1. Http2!TypeOK'
    BY DEF Http2Inv, Http2!Reuse, Http2!Same, Http2!TypeOK, Http2!Connections
  <1>2. SessionInv'
    BY DEF Http2Inv, Http2!Reuse, Http2!Same, Http2!TypeOK, SessionInv, Http2!Connections
  <1>3. Http2!ContextIsAlive'
    BY DEF Http2Inv, Http2!Reuse, Http2!Same, Http2!TypeOK, Http2!ContextIsAlive
  <1>4. QED
    BY <1>1, <1>2, <1>3 DEF Http2Inv

(* A new session gets the context of this request, or there is none.       *)
LEMMA Http2ConnectInv ==
    ASSUME Http2!Http2Assumption, Http2Inv, Http2!Connect
    PROVE  Http2Inv'
  <1> DEFINE new == [key |-> req2.key, user_data |-> req2.number, in |-> <<>>,
                     unfinished |-> {}, eof |-> FALSE]
  <1>a. req2.key \in Keys /\ req2.number \in Http2!Numbers
    BY DEF Http2Inv, Http2!TypeOK, SessionInv, Http2!Connect
  <1>b. new \in Http2!Connections /\ new.in = <<>> /\ new.user_data = req2.number
    BY <1>a DEF Http2!Connections
  <1> HIDE DEF new
  <1>c. \/ conn2' = new /\ pc2' = "submit" /\ UNCHANGED <<batch, late, result2>>
        \/ /\ conn2' = None /\ pc2' = "idle" /\ batch' = 0 /\ late' = FALSE
           /\ result2' \in Verdicts
    BY DEF Http2!Connect, Http2!NoTcp, Http2!Return, Verdicts, new
  <1>d. pc2 = "ensure" /\ UNCHANGED <<req2, ctx2, reply, upload>>
    BY DEF Http2!Connect
  <1>1. Http2!TypeOK'
    <2>1. conn2' \in Http2!Connections \cup {None} /\ pc2' \in {"submit", "idle"}
      BY <1>b, <1>c
    <2>2. batch' \in Nat
      BY <1>c DEF Http2Inv, Http2!TypeOK
    <2>3. late' \in BOOLEAN
      BY <1>c, Zenon DEF Http2Inv, Http2!TypeOK
    <2>4. result2' \in Verdicts \cup {None}
      BY <1>c DEF Http2Inv, Http2!TypeOK, Verdicts
    <2>5. QED
      BY <2>1, <2>2, <2>3, <2>4, <1>d DEF Http2Inv, Http2!TypeOK, Verdicts
  <1>2. SessionInv'
    BY <1>a, <1>b, <1>c, <1>d DEF Http2Inv, SessionInv
  <1>3. Http2!ContextIsAlive'
    BY <1>b, <1>c, <1>d DEF Http2!ContextIsAlive
  <1>4. QED
    BY <1>1, <1>2, <1>3 DEF Http2Inv

(* A request that cannot be submitted deletes the session.                 *)
LEMMA Http2SubmitFailsInv ==
    ASSUME Http2!Http2Assumption, Http2Inv, NEW e \in Verdicts, Http2!SubmitFails(e)
    PROVE  Http2Inv'
  <1>1. Http2!TypeOK'
    BY DEF Http2Inv, Http2!SubmitFails, Http2!Return, Http2!TypeOK, Verdicts
  <1>2. SessionInv'
    BY DEF Http2Inv, Http2!SubmitFails, Http2!Return, Http2!TypeOK, SessionInv
  <1>3. Http2!ContextIsAlive'
    BY DEF Http2Inv, Http2!SubmitFails, Http2!Return, Http2!TypeOK, Http2!ContextIsAlive
  <1>4. QED
    BY <1>1, <1>2, <1>3 DEF Http2Inv

(* The request is submitted.                                               *)
LEMMA Http2SubmitInv ==
    ASSUME Http2!Http2Assumption, Http2Inv, Http2!Submit
    PROVE  Http2Inv'
  <1>a. conn2 \in Http2!Connections /\ req2.number \in Http2!Numbers
    BY DEF Http2Inv, SessionInv, Http2!Submit
  <1>b. conn2' \in Http2!Connections /\ conn2'.in = conn2.in
    BY <1>a DEF Http2!Submit, Http2!Connections
  <1>1. Http2!TypeOK'
    <2>1. reply' \in Replies
      BY DEF Http2Inv, Http2!TypeOK, Http2!Submit, Replies
    <2>2. QED
      BY <1>b, <2>1 DEF Http2Inv, Http2!TypeOK, Http2!Submit, Replies
  <1>2. SessionInv'
    BY DEF Http2Inv, Http2!Submit, Http2!TypeOK, SessionInv, Http2!Connections
  <1>3. Http2!ContextIsAlive'
    BY DEF Http2Inv, Http2!Submit, Http2!TypeOK, Http2!ContextIsAlive, Http2!Http2Assumption,
       SessionInv, Http2!Connections, Http2!Contexts, Http2!Numbers, Http2!NewContext,
       Verdicts, Replies, Http2!Frames
  <1>4. QED
    BY <1>1, <1>2, <1>3 DEF Http2Inv

(* Part of a body is sent.                                                 *)
LEMMA Http2DataReadInv ==
    ASSUME Http2!Http2Assumption, Http2Inv, NEW s \in Http2!Numbers, Http2!DataRead(s)
    PROVE  Http2Inv'
  <1>a. conn2 \in Http2!Connections /\ req2.number \in Http2!Numbers
    BY DEF Http2Inv, SessionInv, Http2!DataRead
  <1>b. /\ conn2' \in Http2!Connections /\ conn2'.in = conn2.in
        /\ conn2'.user_data = conn2.user_data
    BY <1>a DEF Http2!DataRead, Http2!Connections
  <1>1. Http2!TypeOK'
    <2>1. ctx2.sent \in 0 .. MaxUpload /\ req2.size \in 0 .. MaxUpload
      BY DEF Http2Inv, Http2!TypeOK, Http2!Contexts
    <2>2. ctx2' \in Http2!Contexts
      <3>1. \A n \in 0 .. MaxUpload : [ctx2 EXCEPT !.sent = n] \in Http2!Contexts
        BY DEF Http2Inv, Http2!TypeOK, Http2!Contexts
      <3>2. \E n \in 0 .. MaxUpload : ctx2' = [ctx2 EXCEPT !.sent = n]
        BY <2>1 DEF Http2!DataRead, Http2!Http2Assumption
      <3>3. QED
        BY <3>1, <3>2
    <2>3. upload' \in (Http2!Numbers \X Http2!Numbers) \cup {None}
      BY <1>a DEF Http2Inv, Http2!TypeOK, Http2!DataRead
    <2>4. QED
      BY <1>b, <2>2, <2>3 DEF Http2Inv, Http2!TypeOK, Http2!DataRead
  <1>2. SessionInv'
    BY DEF Http2Inv, Http2!DataRead, Http2!TypeOK, SessionInv, Http2!Connections
  <1>3. Http2!ContextIsAlive'
    BY DEF Http2Inv, Http2!DataRead, Http2!TypeOK, Http2!ContextIsAlive, Http2!Http2Assumption,
       SessionInv, Http2!Connections, Http2!Contexts, Http2!Numbers, Http2!NewContext,
       Verdicts, Replies, Http2!Frames
  <1>4. QED
    BY <1>1, <1>2, <1>3 DEF Http2Inv

(* Frames go to pending_data.                                              *)
LEMMA Http2DrainInv ==
    ASSUME Http2!Http2Assumption, Http2Inv, Http2!Drain
    PROVE  Http2Inv'
  <1>1. Http2!TypeOK'
    BY DEF Http2Inv, Http2!Drain, Http2!TypeOK
  <1>2. SessionInv'
    BY DEF Http2Inv, Http2!Drain, Http2!TypeOK, SessionInv
  <1>3. Http2!ContextIsAlive'
    BY DEF Http2Inv, Http2!Drain, Http2!TypeOK, Http2!ContextIsAlive
  <1>4. QED
    BY <1>1, <1>2, <1>3 DEF Http2Inv

(* nghttp2_session_send returns.                                           *)
LEMMA Http2SentInv ==
    ASSUME Http2!Http2Assumption, Http2Inv, Http2!Sent
    PROVE  Http2Inv'
  <1>1. Http2!TypeOK'
    BY DEF Http2Inv, Http2!Sent, Http2!loop, Http2!TypeOK
  <1>2. SessionInv'
    BY DEF Http2Inv, Http2!Sent, Http2!loop, Http2!TypeOK, SessionInv
  <1>3. Http2!ContextIsAlive'
    BY DEF Http2Inv, Http2!Sent, Http2!loop, Http2!TypeOK, Http2!ContextIsAlive
  <1>4. QED
    BY <1>1, <1>2, <1>3 DEF Http2Inv

(* nghttp2 takes a frame.                                                  *)
LEMMA Http2FeedInv ==
    ASSUME Http2!Http2Assumption, Http2Inv, Http2!Feed
    PROVE  Http2Inv'
  <1>a. conn2 \in Http2!Connections /\ batch \in Nat /\ batch > 0 /\ batch <= Len(conn2.in)
    BY DEF Http2Inv, Http2!TypeOK, SessionInv, Http2!Feed
  <1>b. conn2.in \in Seq(Http2!Frames) /\ conn2.in # <<>>
    BY <1>a DEF Http2!Connections
  <1>c. /\ Head(conn2.in) \in Http2!Frames /\ Tail(conn2.in) \in Seq(Http2!Frames)
        /\ Len(Tail(conn2.in)) = Len(conn2.in) - 1
    BY <1>b
  <1>d. /\ conn2' \in Http2!Connections /\ conn2'.in = Tail(conn2.in)
        /\ conn2'.user_data = conn2.user_data
    BY <1>a, <1>c DEF Http2!Feed, Http2!Connections
  <1>1. Http2!TypeOK'
    <2>1. ctx2' \in Http2!Contexts
      BY <1>c, Http2AfterType DEF Http2Inv, Http2!TypeOK, Http2!Feed
    <2>2. QED
      BY <1>a, <1>d, <2>1 DEF Http2Inv, Http2!TypeOK, Http2!Feed
  <1>2. SessionInv'
    BY <1>a, <1>b, <1>c, <1>d DEF Http2Inv, SessionInv, Http2!Feed
  <1>3. Http2!ContextIsAlive'
    BY DEF Http2Inv, Http2!Feed, Http2!TypeOK, Http2!ContextIsAlive, Http2!Http2Assumption,
       SessionInv, Http2!Connections, Http2!Contexts, Http2!Numbers, Http2!NewContext,
       Verdicts, Replies, Http2!Frames
  <1>4. QED
    BY <1>1, <1>2, <1>3 DEF Http2Inv

(* The loop goes on.                                                       *)
LEMMA Http2GoOnInv ==
    ASSUME Http2!Http2Assumption, Http2Inv, Http2!GoOn
    PROVE  Http2Inv'
  <1>1. Http2!TypeOK'
    BY DEF Http2Inv, Http2!GoOn, Http2!loop, Http2!TypeOK
  <1>2. SessionInv'
    BY DEF Http2Inv, Http2!GoOn, Http2!loop, Http2!TypeOK, SessionInv
  <1>3. Http2!ContextIsAlive'
    BY DEF Http2Inv, Http2!GoOn, Http2!loop, Http2!TypeOK, Http2!ContextIsAlive
  <1>4. QED
    BY <1>1, <1>2, <1>3 DEF Http2Inv

(* Frames are read.                                                        *)
LEMMA Http2ReadInv ==
    ASSUME Http2!Http2Assumption, Http2Inv, NEW n \in 1 .. MaxFrames, Http2!Read(n)
    PROVE  Http2Inv'
  <1>1. Http2!TypeOK'
    BY DEF Http2Inv, Http2!Read, Http2!TypeOK
  <1>2. SessionInv'
    BY DEF Http2Inv, Http2!Read, Http2!TypeOK, SessionInv
  <1>3. Http2!ContextIsAlive'
    BY DEF Http2Inv, Http2!Read, Http2!TypeOK, Http2!ContextIsAlive
  <1>4. QED
    BY <1>1, <1>2, <1>3 DEF Http2Inv

(* Nothing is read.                                                        *)
LEMMA Http2ReadNothingInv ==
    ASSUME Http2!Http2Assumption, Http2Inv, Http2!ReadNothing
    PROVE  Http2Inv'
  <1>1. Http2!TypeOK'
    BY DEF Http2Inv, Http2!ReadNothing, Http2!loop, Http2!TypeOK
  <1>2. SessionInv'
    BY DEF Http2Inv, Http2!ReadNothing, Http2!loop, Http2!TypeOK, SessionInv
  <1>3. Http2!ContextIsAlive'
    BY DEF Http2Inv, Http2!ReadNothing, Http2!loop, Http2!TypeOK, Http2!ContextIsAlive
  <1>4. QED
    BY <1>1, <1>2, <1>3 DEF Http2Inv

(* Every way out of the loop takes the context from the session.           *)
LEMMA Http2FinishInv ==
    ASSUME Http2!Http2Assumption, Http2Inv, NEW ret \in {"OK", "PROTOCOL", "TIMEOUT"},
           pc2 \notin {"idle", "ensure"}, Http2!Finish(ret)
    PROVE  Http2Inv'
  <1>a. conn2 \in Http2!Connections
    BY DEF Http2Inv, SessionInv
  <1>b. conn2' = None \/ (conn2' \in Http2!Connections /\ conn2'.user_data = 0)
    BY <1>a DEF Http2!Finish, Http2!Connections
  <1>c. Http2!Judged(ret) \in Verdicts
    BY DEF Http2!Judged, Verdicts
  <1>1. Http2!TypeOK'
    BY <1>b, <1>c DEF Http2Inv, Http2!TypeOK, Http2!Finish, Http2!Return, Verdicts
  <1>2. SessionInv'
    BY DEF Http2Inv, SessionInv, Http2!Finish, Http2!Return
  <1>3. Http2!ContextIsAlive'
    BY <1>b DEF Http2!ContextIsAlive, Http2!Finish, Http2!Return
  <1>4. QED
    BY <1>1, <1>2, <1>3 DEF Http2Inv

(* The session is given up.                                                *)
LEMMA Http2MigrateConnectionInv ==
    ASSUME Http2!Http2Assumption, Http2Inv, Http2!MigrateConnection
    PROVE  Http2Inv'
  <1>1. Http2!TypeOK'
    BY DEF Http2Inv, Http2!MigrateConnection, Http2!TypeOK
  <1>2. SessionInv'
    BY DEF Http2Inv, Http2!MigrateConnection, Http2!TypeOK, SessionInv
  <1>3. Http2!ContextIsAlive'
    BY DEF Http2Inv, Http2!MigrateConnection, Http2!TypeOK, Http2!ContextIsAlive
  <1>4. QED
    BY <1>1, <1>2, <1>3 DEF Http2Inv

(* Time passes.                                                            *)
LEMMA Http2DeadlinePassesInv ==
    ASSUME Http2!Http2Assumption, Http2Inv, Http2!DeadlinePasses
    PROVE  Http2Inv'
  <1>1. Http2!TypeOK'
    BY DEF Http2Inv, Http2!DeadlinePasses, Http2!loop, Http2!TypeOK
  <1>2. SessionInv'
    BY DEF Http2Inv, Http2!DeadlinePasses, Http2!loop, Http2!TypeOK, SessionInv
  <1>3. Http2!ContextIsAlive'
    BY DEF Http2Inv, Http2!DeadlinePasses, Http2!loop, Http2!TypeOK, Http2!ContextIsAlive
  <1>4. QED
    BY <1>1, <1>2, <1>3 DEF Http2Inv

(* A frame of the server is on its way.                                    *)
LEMMA Http2SendsInv ==
    ASSUME Http2!Http2Assumption, Http2Inv, NEW f \in Http2!Frames, NEW r \in Replies,
           Http2!Sends(f, r)
    PROVE  Http2Inv'
  <1>a. conn2 \in Http2!Connections
    BY DEF Http2Inv, Http2!TypeOK, Http2!Sends
  <1>b. /\ Append(conn2.in, f) \in Seq(Http2!Frames)
        /\ Len(Append(conn2.in, f)) = Len(conn2.in) + 1
    BY <1>a DEF Http2!Connections
  <1>c. /\ conn2' \in Http2!Connections /\ conn2'.in = Append(conn2.in, f)
        /\ conn2'.user_data = conn2.user_data
    BY <1>a, <1>b DEF Http2!Sends, Http2!Connections
  <1>1. Http2!TypeOK'
    BY <1>c DEF Http2Inv, Http2!TypeOK, Http2!Sends, Replies
  <1>2. SessionInv'
    BY <1>a, <1>b, <1>c DEF Http2Inv, Http2!TypeOK, SessionInv, Http2!Sends
  <1>3. Http2!ContextIsAlive'
    BY DEF Http2Inv, Http2!Sends, Http2!TypeOK, Http2!ContextIsAlive
  <1>4. QED
    BY <1>1, <1>2, <1>3 DEF Http2Inv

(* The server closes an idle connection.                                   *)
LEMMA Http2ServerClosesInv ==
    ASSUME Http2!Http2Assumption, Http2Inv, Http2!ServerCloses
    PROVE  Http2Inv'
  <1>1. Http2!TypeOK'
    BY DEF Http2Inv, Http2!ServerCloses, Http2!TypeOK, Http2!Connections
  <1>2. SessionInv'
    BY DEF Http2Inv, Http2!ServerCloses, Http2!TypeOK, SessionInv
  <1>3. Http2!ContextIsAlive'
    BY DEF Http2Inv, Http2!ServerCloses, Http2!TypeOK, Http2!ContextIsAlive
  <1>4. QED
    BY <1>1, <1>2, <1>3 DEF Http2Inv

(* The server closes an idle connection or sends a frame.                  *)
LEMMA Http2ServerSteps ==
    ASSUME Http2!Http2Assumption, Http2Inv, Http2!Server
    PROVE  Http2!ServerCloses \/ \E f \in Http2!Frames, r \in Replies : Http2!Sends(f, r)
  <1> DEFINE Step == \E f \in Http2!Frames, r \in Replies : Http2!Sends(f, r)
  <1>a. conn2 # None => req2.number \in Http2!Numbers
    BY DEF Http2Inv, SessionInv
  <1>b. reply \in Replies
    BY DEF Http2Inv, Http2!TypeOK, Replies
  <1>c. \A type \in Http2!FrameTypes, s \in Http2!Numbers, end, error, bodiless \in BOOLEAN :
            Http2!Frame(type, s, end, error, bodiless) \in Http2!Frames
    BY DEF Http2!Frame, Http2!Frames
  <1>d. \A st \in {"silent", "asked", "interim", "headed", "ended"} :
            [reply EXCEPT !.state = st] \in Replies
    BY <1>b DEF Replies
  <1>1. CASE Http2!SendsInterim
    BY <1>1, <1>a, <1>c, <1>d DEF Http2!SendsInterim, Http2!Sends, Http2!FrameTypes
  <1>2. ASSUME NEW end \in BOOLEAN, NEW bodiless \in BOOLEAN, Http2!SendsHeaders(end, bodiless)
        PROVE  Step
    BY <1>2, <1>a, <1>c, <1>d DEF Http2!SendsHeaders, Http2!Sends, Http2!FrameTypes
  <1>3. ASSUME NEW end \in BOOLEAN, Http2!SendsData(end)
        PROVE  Step
    <2>1. reply.data + 1 \in 0 .. MaxData
      BY <1>3, <1>b DEF Http2!SendsData, Replies, Http2!Http2Assumption
    <2>2. [state |-> IF end THEN "ended" ELSE "headed", data |-> reply.data + 1] \in Replies
      BY <2>1 DEF Replies
    <2>3. Http2!Frame("DATA", req2.number, end, FALSE, FALSE) \in Http2!Frames
      BY <1>3, <1>a, <1>c DEF Http2!SendsData, Http2!Sends, Http2!FrameTypes
    <2>4. QED
      BY <1>3, <2>2, <2>3 DEF Http2!SendsData
  <1>4. ASSUME NEW s \in Http2!Numbers, NEW error \in BOOLEAN, Http2!SendsReset(s, error)
        PROVE  Step
    <2>1. Http2!Frame("RST_STREAM", s, FALSE, error, FALSE) \in Http2!Frames
      BY <1>c DEF Http2!FrameTypes
    <2>2. QED
      BY <1>4, <1>b, <1>d, <2>1 DEF Http2!SendsReset
  <1>5. ASSUME NEW refuses \in BOOLEAN, Http2!SendsGoaway(refuses)
        PROVE  Step
    <2>1. Http2!Frame("GOAWAY", req2.number, FALSE, refuses, FALSE) \in Http2!Frames
      BY <1>5, <1>a, <1>c DEF Http2!SendsGoaway, Http2!Sends, Http2!FrameTypes
    <2>2. QED
      BY <1>5, <1>b, <1>d, <2>1 DEF Http2!SendsGoaway
  <1>6. QED
    BY <1>1, <1>2, <1>3, <1>4, <1>5 DEF Http2!Server

(* Every step preserves the strengthening.                                *)
LEMMA Http2NextInv ==
    ASSUME Http2!Http2Assumption, Http2Inv, [Http2!Next]_(Http2!vars)
    PROVE  Http2Inv'
  <1>1. ASSUME NEW k \in Keys, NEW size \in 0 .. MaxUpload, Http2!Begin(k, size) PROVE Http2Inv'
    BY <1>1, Http2BeginInv
  <1>2. CASE Http2!Request
    <2>1. ASSUME NEW e \in {"PROTOCOL", "OUT_OF_MEMORY"}, Http2!SubmitFails(e) PROVE Http2Inv'
      BY <2>1, Http2SubmitFailsInv DEF Verdicts
    <2>2. CASE \/ Http2!StreamClosed \/ Http2!SendFails \/ Http2!FrameIsBad
               \/ Http2!TimedOut \/ Http2!ReadFails
      BY <2>2, Http2FinishInv DEF Http2!StreamClosed, Http2!SendFails, Http2!FrameIsBad,
         Http2!TimedOut, Http2!ReadFails
    <2>3. QED
      BY <1>2, <2>1, <2>2, Http2RefuseTextInv, Http2ReuseInv, Http2ConnectInv, Http2SubmitInv,
         Http2SentInv, Http2DrainInv, Http2DataReadInv, Http2FeedInv, Http2GoOnInv,
         Http2ReadNothingInv, Http2ReadInv DEF Http2!Request
  <1>3. CASE UNCHANGED Http2!vars
    BY <1>3 DEF Http2!vars, Http2Inv, Http2!TypeOK, SessionInv, Http2!ContextIsAlive
  <1>4. CASE Http2!Server
    BY <1>4, Http2ServerSteps, Http2ServerClosesInv, Http2SendsInv
  <1>5. QED
    BY <1>1, <1>2, <1>3, <1>4, Http2MigrateConnectionInv, Http2DeadlinePassesInv DEF Http2!Next

(* The strengthening holds in every reachable state.                       *)
THEOREM Http2Invariant == Http2!Spec => []Http2Inv
  <1>1. Http2!Init => Http2Inv
    BY Http2InitInv, EnginesAssumption
  <1>2. Http2Inv /\ [Http2!Next]_(Http2!vars) => Http2Inv'
    BY Http2NextInv, EnginesAssumption
  <1>3. QED
    BY <1>1, <1>2, PTL DEF Http2!Spec

(* The session's user_data is the context of the request that drives it,   *)
(* and null between requests: no way out of request() leaves a pointer to  *)
(* its stack in nghttp2.                                                   *)
THEOREM ContextStaysAlive == Http2!Spec => []ContextIsAlive
  <1>1. Http2Inv => ContextIsAlive
    BY DEF Http2Inv, ContextIsAlive
  <1>2. QED
    BY <1>1, Http2Invariant, PTL

-----------------------------------------------------------------------------
(* In a typed state ReusedConn is a connection exactly if conn is one.     *)
LEMMA Http2ReusedConnType ==
    ASSUME Http2!Http2Assumption, Http2!TypeOK
    PROVE  /\ conn2 = None <=> Http2!ReusedConn = None
           /\ conn2 # None => /\ Http2!ReusedConn = [key |-> conn2.key, use |-> Http2!Use]
                             /\ Http2!ReusedConn.key = conn2.key
                             /\ Http2!ReusedConn.use = Http2!Use
           /\ req2.key \in Keys /\ req2.key # None
  <1>1. Http2!Use \in {"unused", "busy", "answered"}
    BY DEF Http2!Use
  <1>2. conn2 # None => conn2.key \in Keys
    BY DEF Http2!TypeOK, Http2!Connections
  <1>3. conn2 # None => [key |-> conn2.key, use |-> Http2!Use] # None
    BY <1>1, <1>2 DEF Http2!Http2Assumption
  <1>4. req2.key \in Keys /\ req2.key # None
    BY DEF Http2!TypeOK, Http2!Http2Assumption
  <1>5. QED
    BY <1>2, <1>3, <1>4 DEF Http2!ReusedConn

(* The steps of ConnectionReuse, by what they do to the two.               *)
LEMMA Http2AskStep ==
    ASSUME Http2!AskedKey = None, Http2!AskedKey' \in Keys, Http2!ReusedConn' = Http2!ReusedConn
    PROVE  Http2!Connection!Next
  BY DEF Http2!Connection!Next, Http2!Connection!Ask

LEMMA Http2OpenStep ==
    ASSUME Http2!AskedKey # None, Http2!AskedKey' = Http2!AskedKey,
           Http2!ReusedConn = None \/ Http2!ReusedConn.use = "unused",
           Http2!ReusedConn' = [key |-> Http2!AskedKey, use |-> "busy"]
    PROVE  Http2!Connection!Next
  BY DEF Http2!Connection!Next, Http2!Connection!Open, Http2!Connection!Unused,
     Http2!Connection!Conn

LEMMA Http2AnswerStep ==
    ASSUME Http2!ReusedConn # None, Http2!AskedKey' = Http2!AskedKey,
           \/ /\ Http2!ReusedConn.use = "busy"
              /\ Http2!ReusedConn' = [Http2!ReusedConn EXCEPT !.use = "answered"]
           \/ /\ Http2!ReusedConn.use = "answered"
              /\ Http2!ReusedConn' = [Http2!ReusedConn EXCEPT !.use = "busy"]
    PROVE  Http2!Connection!Next
  BY DEF Http2!Connection!Next, Http2!Connection!Answer, Http2!Connection!Condemn

LEMMA Http2ReturnStep ==
    ASSUME Http2!AskedKey # None, Http2!AskedKey' = None,
           \/ Http2!ReusedConn' = None
           \/ /\ Http2!ReusedConn # None /\ Http2!ReusedConn.use \in {"unused", "answered"}
              /\ Http2!ReusedConn' = [key |-> Http2!ReusedConn.key, use |-> "unused"]
    PROVE  Http2!Connection!Next
  BY DEF Http2!Connection!Next, Http2!Connection!Return, Http2!Connection!Conn

LEMMA Http2DropStep ==
    ASSUME Http2!AskedKey = None, Http2!AskedKey' = Http2!AskedKey, Http2!ReusedConn' = None
    PROVE  Http2!Connection!Next
  BY DEF Http2!Connection!Next, Http2!Connection!Drop

(* A step that leaves key, context and place alone is none of the          *)
(* connection's.                                                           *)
LEMMA Http2Stutters ==
    ASSUME conn2' = None <=> conn2 = None, conn2 # None => conn2'.key = conn2.key,
           req2' = req2, pc2' = "idle" <=> pc2 = "idle",
           pc2' \in {"idle", "ensure"} <=> pc2 \in {"idle", "ensure"},
           ctx2'.end_stream = ctx2.end_stream, ctx2'.goaway = ctx2.goaway
    PROVE  UNCHANGED Http2!Connection!vars
  <1>1. Http2!Use' = Http2!Use
    BY DEF Http2!Use, Http2!Answered
  <1>2. Http2!ReusedConn' = Http2!ReusedConn
    BY <1>1 DEF Http2!ReusedConn
  <1>3. Http2!AskedKey' = Http2!AskedKey
    BY DEF Http2!AskedKey
  <1>4. QED
    BY <1>2, <1>3 DEF Http2!Connection!vars

(* A request begins, is refused, finds its connection or opens one.        *)
LEMMA Http2BeforeSubmitRefines ==
    ASSUME Http2!Http2Assumption, Http2Inv, Http2!TypeOK',
           \/ \E k \in Keys, size \in 0..MaxUpload : Http2!Begin(k, size)
           \/ Http2!RefuseText \/ Http2!Reuse \/ Http2!Connect
    PROVE  Http2!Connection!Next
  <1> USE Http2ReusedConnType
  <1>1. ASSUME NEW k \in Keys, NEW size \in 0..MaxUpload, Http2!Begin(k, size)
        PROVE  Http2!Connection!Next
    <2>1. Http2!AskedKey = None /\ Http2!AskedKey' = k
      BY <1>1 DEF Http2!AskedKey, Http2!Begin
    <2>2. Http2!ReusedConn' = Http2!ReusedConn
      BY <1>1 DEF Http2!ReusedConn, Http2!Use, Http2!Begin
    <2>3. QED
      BY <2>1, <2>2, Http2AskStep
  <1>2. CASE Http2!RefuseText
    <2>1. Http2!AskedKey # None /\ Http2!AskedKey' = None
      BY <1>2 DEF Http2!AskedKey, Http2!RefuseText, Http2!Return, Http2Inv
    <2>2. Http2!Use = "unused" /\ Http2!Use' = "unused" /\ conn2' = conn2
      BY <1>2 DEF Http2!Use, Http2!RefuseText, Http2!Return
    <2>3. \/ Http2!ReusedConn' = None
          \/ /\ Http2!ReusedConn # None /\ Http2!ReusedConn.use = "unused"
             /\ Http2!ReusedConn' = [key |-> Http2!ReusedConn.key, use |-> "unused"]
      BY <2>2 DEF Http2!ReusedConn, Http2Inv
    <2>4. QED
      BY <2>1, <2>3, Http2ReturnStep
  <1>3. CASE /\ pc2 = "ensure" /\ pc2' = "submit"
             /\ conn2' \in Http2!Connections /\ conn2'.key = req2.key
             /\ req2' = req2 /\ ctx2' = ctx2
    <2>1. Http2!AskedKey = req2.key /\ Http2!AskedKey # None /\ Http2!AskedKey' = Http2!AskedKey
      BY <1>3 DEF Http2!AskedKey, Http2Inv
    <2>2. Http2!Use = "unused" /\ Http2!Use' = "busy"
      BY <1>3 DEF Http2!Use, Http2!Answered, Http2Inv, SessionInv
    <2>3. Http2!ReusedConn = None \/ Http2!ReusedConn.use = "unused"
      BY <2>2 DEF Http2Inv
    <2>4. conn2' # None
      BY <1>3 DEF Http2!Http2Assumption
    <2>5. Http2!ReusedConn' = [key |-> Http2!AskedKey, use |-> "busy"]
      BY <1>3, <2>1, <2>2, <2>4 DEF Http2!ReusedConn
    <2>6. QED
      BY <2>1, <2>3, <2>5, Http2OpenStep
  <1>4. CASE Http2!Reuse
    <2>1. conn2' \in Http2!Connections /\ conn2'.key = req2.key
      <3>1. conn2 \in Http2!Connections /\ req2.number \in Http2!Numbers
        BY <1>4 DEF Http2!Reuse, Http2!Same, Http2Inv, Http2!TypeOK, SessionInv
      <3>2. QED
        BY <1>4, <3>1 DEF Http2!Reuse, Http2!Same, Http2!Connections
    <2>2. QED
      BY <1>3, <1>4, <2>1 DEF Http2!Reuse
  <1>5. CASE Http2!Connect
    <2>1. CASE conn2' = None
      <3>a. [key |-> req2.key, user_data |-> req2.number, in |-> <<>>,
             unfinished |-> {}, eof |-> FALSE] \in Http2!Connections
        BY <1>5 DEF Http2Inv, Http2!TypeOK, SessionInv, Http2!Connect, Http2!Connections
      <3>b. pc2 = "ensure" /\ pc2' = "idle"
        BY <1>5, <2>1, <3>a DEF Http2!Connect, Http2!NoTcp, Http2!Return, Http2!Http2Assumption
      <3>1. Http2!AskedKey # None /\ Http2!AskedKey' = None
        BY <3>b DEF Http2!AskedKey, Http2Inv
      <3>2. Http2!ReusedConn' = None
        BY <2>1 DEF Http2!ReusedConn
      <3>3. QED
        BY <3>1, <3>2, Http2ReturnStep
    <2>2. CASE conn2' # None
      <3>1. conn2' \in Http2!Connections /\ conn2'.key = req2.key /\ pc2' = "submit"
        BY <1>5, <2>2 DEF Http2!Connect, Http2!TypeOK
      <3>2. QED
        BY <1>3, <1>5, <3>1 DEF Http2!Connect
    <2>3. QED
      BY <2>1, <2>2
  <1>6. QED
    BY <1>1, <1>2, <1>4, <1>5

(* A frame completes the answer, spoils it, or is none of the connection's.*)
LEMMA Http2FeedRefines ==
    ASSUME Http2!Http2Assumption, Http2Inv, Http2!TypeOK', Http2!Feed
    PROVE  Http2!Connection!Next \/ UNCHANGED Http2!Connection!vars
  <1> USE Http2ReusedConnType
  <1>1. conn2 \in Http2!Connections /\ conn2 # None /\ pc2 \notin {"idle", "ensure"}
    BY DEF Http2!Feed, Http2Inv, SessionInv, Http2!Http2Assumption
  <1>2. conn2' # None /\ conn2'.key = conn2.key
    <2>1. \A in, unf : [conn2 EXCEPT !.in = in, !.unfinished = unf].key = conn2.key
      BY <1>1 DEF Http2!Connections
    <2>2. conn2' \in Http2!Connections
      BY <1>1, Http2FeedInv DEF Http2!Feed, Http2Inv, SessionInv
    <2>3. QED
      BY <2>1, <2>2 DEF Http2!Feed, Http2!Http2Assumption
  <1>3. Http2!AskedKey' = Http2!AskedKey
    BY <1>1 DEF Http2!AskedKey, Http2!Feed
  <1>4. Http2!Use \in {"busy", "answered"} /\ Http2!Use' \in {"busy", "answered"}
    BY <1>1 DEF Http2!Use, Http2!Feed
  <1>5. /\ Http2!ReusedConn # None /\ Http2!ReusedConn.use = Http2!Use
        /\ Http2!ReusedConn' = [Http2!ReusedConn EXCEPT !.use = Http2!Use']
    BY <1>1, <1>2 DEF Http2Inv, Http2!ReusedConn
  <1>6. Http2!Use' # Http2!Use => Http2!Connection!Next
    BY <1>3, <1>4, <1>5, Http2AnswerStep
  <1>7. Http2!Use' = Http2!Use => UNCHANGED Http2!Connection!vars
    BY <1>1, <1>2, <1>3 DEF Http2!ReusedConn, Http2!Connection!vars
  <1>8. QED
    BY <1>6, <1>7

(* A request returns: a session is kept only after a whole answer.         *)
LEMMA Http2FinishRefines ==
    ASSUME Http2!Http2Assumption, Http2Inv, Http2!TypeOK',
           pc2 \notin {"idle", "ensure", "submit"},
           NEW ret \in Verdicts, Http2!Finish(ret)
    PROVE  Http2!Connection!Next
  <1> USE Http2ReusedConnType
  <1>1. conn2 \in Http2!Connections /\ conn2 # None
    BY DEF Http2Inv, SessionInv, Http2!Http2Assumption
  <1>2. Http2!AskedKey # None /\ Http2!AskedKey' = None
    BY DEF Http2!AskedKey, Http2!Finish, Http2!Return, Http2Inv
  <1>3. CASE conn2' = None
    <2>1. Http2!ReusedConn' = None
      BY <1>3 DEF Http2!ReusedConn
    <2>2. QED
      BY <1>2, <2>1, Http2ReturnStep
  <1>4. CASE conn2' # None
    <2>1. Http2!Keeps(Http2!Judged(ret)) /\ conn2'.key = conn2.key
      BY <1>1, <1>4 DEF Http2!Finish, Http2!Connections
    <2>2. ctx2.end_stream /\ ~ctx2.goaway
      BY <2>1 DEF Http2!Keeps, Http2!Judged
    <2>3. Http2!Use = "answered" /\ Http2!Use' = "unused"
      BY <2>2 DEF Http2!Use, Http2!Answered, Http2!Finish, Http2!Return
    <2>4. /\ Http2!ReusedConn # None /\ Http2!ReusedConn.use = "answered"
          /\ Http2!ReusedConn.key = conn2.key
      BY <1>1, <2>3 DEF Http2Inv
    <2>5. Http2!ReusedConn' = [key |-> Http2!ReusedConn.key, use |-> "unused"]
      BY <1>4, <2>1, <2>3, <2>4 DEF Http2!ReusedConn
    <2>6. QED
      BY <1>2, <2>4, <2>5, Http2ReturnStep
  <1>5. QED
    BY <1>3, <1>4

(* Submitting, sending and receiving, the deadline and the server leave    *)
(* the connection as it is.                                                *)
LEMMA Http2OthersStutter ==
    ASSUME Http2!Http2Assumption, Http2Inv, Http2Inv',
           \/ Http2!Submit \/ Http2!Sent \/ Http2!Drain \/ Http2!GoOn \/ Http2!ReadNothing
           \/ Http2!DeadlinePasses \/ Http2!Server
           \/ \E s \in Http2!Numbers : Http2!DataRead(s)
           \/ \E n \in 1..MaxFrames : Http2!Read(n)
    PROVE  UNCHANGED Http2!Connection!vars
  <1>a. \A c \in Http2!Connections : c # None
    BY DEF Http2!Http2Assumption
  <1>b. \A c \in Http2!Connections : \A v :
            /\ [c EXCEPT !.in = v].key = c.key
            /\ [c EXCEPT !.unfinished = v].key = c.key
            /\ [c EXCEPT !.eof = v].key = c.key
    BY DEF Http2!Connections
  <1>c. pc2 \notin {"idle", "ensure"} => conn2 \in Http2!Connections
    BY DEF Http2Inv, SessionInv
  <1>d. pc2' \notin {"idle", "ensure"} => conn2' \in Http2!Connections
    BY DEF Http2Inv, SessionInv
  <1>1. CASE \/ Http2!Sent \/ Http2!Drain \/ Http2!GoOn
             \/ Http2!ReadNothing \/ Http2!DeadlinePasses
             \/ \E n \in 1..MaxFrames : Http2!Read(n)
    BY <1>1, Http2Stutters DEF Http2!Sent, Http2!Drain, Http2!GoOn, Http2!ReadNothing,
       Http2!DeadlinePasses, Http2!Read, Http2!loop
  <1>2. CASE Http2!Submit
    <2>1. conn2 # None /\ conn2' # None /\ conn2'.key = conn2.key
      BY <1>2, <1>a, <1>b, <1>c, <1>d DEF Http2!Submit
    <2>2. QED
      BY <1>2, <2>1, Http2Stutters DEF Http2!Submit
  <1>3. ASSUME NEW s \in Http2!Numbers, Http2!DataRead(s)
        PROVE  UNCHANGED Http2!Connection!vars
    <2>1. conn2 # None /\ conn2' # None /\ conn2'.key = conn2.key
      BY <1>3, <1>a, <1>b, <1>c, <1>d DEF Http2!DataRead
    <2>2. ctx2'.end_stream = ctx2.end_stream /\ ctx2'.goaway = ctx2.goaway
      BY <1>3 DEF Http2!DataRead, Http2Inv, Http2!TypeOK, Http2!Contexts
    <2>3. QED
      BY <1>3, <2>1, <2>2, Http2Stutters DEF Http2!DataRead
  <1>4. ASSUME NEW f \in Http2!Frames, NEW r \in Replies, Http2!Sends(f, r)
        PROVE  UNCHANGED Http2!Connection!vars
    <2>1. conn2 \in Http2!Connections /\ Append(conn2.in, f) \in Seq(Http2!Frames)
      BY <1>4 DEF Http2!Sends, Http2Inv, Http2!TypeOK, Http2!Connections
    <2>2. conn2' \in Http2!Connections /\ conn2'.key = conn2.key
      BY <1>4, <2>1 DEF Http2!Sends, Http2!Connections
    <2>3. QED
      BY <1>4, <1>a, <2>2, Http2Stutters DEF Http2!Sends
  <1>5. CASE Http2!ServerCloses
    <2>1. conn2 \in Http2!Connections
      BY <1>5 DEF Http2!ServerCloses, Http2Inv, Http2!TypeOK
    <2>2. conn2' \in Http2!Connections /\ conn2'.key = conn2.key
      BY <1>5, <2>1 DEF Http2!ServerCloses, Http2!Connections
    <2>3. QED
      BY <1>5, <1>a, <2>2, Http2Stutters DEF Http2!ServerCloses
  <1>6. QED
    BY <1>1, <1>2, <1>3, <1>4, <1>5, Http2ServerSteps

(* Every step of the engine is a step of ConnectionReuse or none.          *)
LEMMA Http2StepRefines ==
    ASSUME Http2!Http2Assumption, Http2Inv, Http2Inv', [Http2!Next]_(Http2!vars)
    PROVE  [Http2!Connection!Next]_(Http2!Connection!vars)
  <1>1. CASE \/ \E k \in Keys, size \in 0..MaxUpload : Http2!Begin(k, size)
             \/ Http2!RefuseText \/ Http2!Reuse \/ Http2!Connect
    BY <1>1, Http2BeforeSubmitRefines DEF Http2Inv
  <1>2. ASSUME NEW e, Http2!SubmitFails(e) PROVE Http2!Connection!Next
    <2>1. Http2!AskedKey # None /\ Http2!AskedKey' = None
      BY <1>2, Http2ReusedConnType DEF Http2!AskedKey, Http2!SubmitFails, Http2!Return, Http2Inv
    <2>2. Http2!ReusedConn' = None
      BY <1>2 DEF Http2!ReusedConn, Http2!SubmitFails
    <2>3. QED
      BY <2>1, <2>2, Http2ReturnStep
  <1>3. CASE \/ Http2!StreamClosed \/ Http2!SendFails \/ Http2!FrameIsBad
             \/ Http2!TimedOut \/ Http2!ReadFails
    BY <1>3, Http2FinishRefines DEF Http2!StreamClosed, Http2!SendFails, Http2!FrameIsBad,
       Http2!TimedOut, Http2!ReadFails, Verdicts, Http2Inv
  <1>4. CASE Http2!MigrateConnection
    <2>1. Http2!AskedKey = None /\ Http2!AskedKey' = Http2!AskedKey /\ Http2!ReusedConn' = None
      BY <1>4 DEF Http2!AskedKey, Http2!ReusedConn, Http2!MigrateConnection
    <2>2. QED
      BY <2>1, Http2DropStep
  <1>5. CASE Http2!Feed
    BY <1>5, Http2FeedRefines DEF Http2Inv
  <1>6. CASE UNCHANGED Http2!vars
    BY <1>6, Http2Stutters DEF Http2!vars
  <1>7. QED
    BY <1>1, <1>2, <1>3, <1>4, <1>5, <1>6, Http2OthersStutter DEF Http2!Next, Http2!Request

(* The HTTP/2 engine keeps ConnectionReuse's promise, for any keys,        *)
(* requests and frames: a session is reused for its own host, CA bundle    *)
(* and network epoch only, and outlives a request only if END_STREAM was   *)
(* taken and the server has sent no GOAWAY.                                *)
THEOREM Http2KeepsReusePromise == Http2!Spec => ImplementsReuse2
  <1>1. Http2!Init => Http2!Connection!Init
    BY DEF Http2!Init, Http2!Connection!Init, Http2!ReusedConn, Http2!AskedKey
  <1>2. Http2Inv /\ Http2Inv' /\ [Http2!Next]_(Http2!vars)
          => [Http2!Connection!Next]_(Http2!Connection!vars)
    BY Http2StepRefines, EnginesAssumption
  <1>3. QED
    BY <1>1, <1>2, Http2Invariant, PTL
    DEF Http2!Spec, ImplementsReuse2, Http2!ImplementsReuse2,
       Http2!Connection!Spec

-----------------------------------------------------------------------------
(* The DATA frames and the ends of the response with number n among the    *)
(* frames q.                                                               *)
DataOf(q, n) == {i \in 1 .. Len(q) : q[i].type = "DATA" /\ q[i].stream = n}
EndsOf(q, n) == {i \in 1 .. Len(q) : q[i].end /\ q[i].stream = n}

IsDataOf(f, n) == f.type = "DATA" /\ f.stream = n
IsEndOf(f, n) == f.end /\ f.stream = n

(* No frame is of a request that is still to come.                         *)
StreamsInv ==
    conn2 # None =>
        /\ \A i \in 1 .. Len(conn2.in) : conn2.in[i].stream <= req2.number
        /\ \A s \in conn2.unfinished : s <= req2.number

(* A request that is not submitted has no response.                        *)
UnansweredInv ==
    pc2 \in {"ensure", "submit"} =>
        /\ reply.state = "silent" /\ reply.data = 0 /\ ctx2.body = 0
        /\ conn2 # None => /\ DataOf(conn2.in, req2.number) = {}
                          /\ EndsOf(conn2.in, req2.number) = {}

(* Every DATA frame of the response is in the body or on its way, or there *)
(* was one too many; and the end comes last.                               *)
AnswerInv ==
    pc2 \notin {"idle", "ensure", "submit"} =>
        /\ \/ ctx2.over_limit \/ ctx2.forbidden
           \/ ctx2.body + Cardinality(DataOf(conn2.in, req2.number)) = reply.data
        /\ \A i \in EndsOf(conn2.in, req2.number), j \in DataOf(conn2.in, req2.number) : j <= i
        /\ EndsOf(conn2.in, req2.number) # {} => reply.state = "ended"
        /\ ctx2.end_stream => reply.state = "ended" /\ DataOf(conn2.in, req2.number) = {}

(* What a success has been given.                                          *)
SuccessInv ==
    result2 = "OK" =>
        pc2 = "idle" /\ ctx2.status /\ reply.state = "ended" /\ ctx2.body = reply.data

WholeInv == StreamsInv /\ UnansweredInv /\ AnswerInv /\ SuccessInv

(* The frames of a response are finitely many.                             *)
LEMMA FrameSets ==
    ASSUME NEW q \in Seq(Http2!Frames), NEW n
    PROVE  /\ IsFiniteSet(DataOf(q, n)) /\ Cardinality(DataOf(q, n)) \in Nat
           /\ DataOf(q, n) \subseteq 1 .. Len(q) /\ EndsOf(q, n) \subseteq 1 .. Len(q)
  <1>1. IsFiniteSet(1 .. Len(q))
    BY FS_Interval
  <1>2. DataOf(q, n) \in SUBSET (1 .. Len(q)) /\ EndsOf(q, n) \in SUBSET (1 .. Len(q))
    BY DEF DataOf, EndsOf
  <1>3. QED
    BY <1>1, <1>2, FS_Subset, FS_CardinalityType

(* A frame more.                                                           *)
LEMMA FramesAppended ==
    ASSUME NEW q \in Seq(Http2!Frames), NEW n, NEW f \in Http2!Frames
    PROVE  /\ DataOf(Append(q, f), n)
                = DataOf(q, n) \cup (IF IsDataOf(f, n) THEN {Len(q) + 1} ELSE {})
           /\ EndsOf(Append(q, f), n)
                = EndsOf(q, n) \cup (IF IsEndOf(f, n) THEN {Len(q) + 1} ELSE {})
           /\ Cardinality(DataOf(Append(q, f), n))
                = Cardinality(DataOf(q, n)) + (IF IsDataOf(f, n) THEN 1 ELSE 0)
  <1>1. /\ Append(q, f) \in Seq(Http2!Frames) /\ Len(Append(q, f)) = Len(q) + 1 /\ Len(q) \in Nat
        /\ \A i \in 1 .. Len(q) : Append(q, f)[i] = q[i]
        /\ Append(q, f)[Len(q) + 1] = f
    OBVIOUS
  <1> DEFINE a == Append(q, f)
  <1> HIDE DEF a
  <1>2. 1 .. Len(a) = (1 .. Len(q)) \cup {Len(q) + 1} /\ Len(q) + 1 \notin 1 .. Len(q)
    BY <1>1 DEF a
  <1>3. DataOf(a, n) = DataOf(q, n) \cup (IF IsDataOf(f, n) THEN {Len(q) + 1} ELSE {})
    BY <1>1, <1>2 DEF DataOf, IsDataOf, a
  <1>4. EndsOf(a, n) = EndsOf(q, n) \cup (IF IsEndOf(f, n) THEN {Len(q) + 1} ELSE {})
    BY <1>1, <1>2 DEF EndsOf, IsEndOf, a
  <1>5. Cardinality(DataOf(a, n)) = Cardinality(DataOf(q, n)) + (IF IsDataOf(f, n) THEN 1 ELSE 0)
    <2>1. CASE IsDataOf(f, n)
      <3>1. DataOf(a, n) = DataOf(q, n) \cup {Len(q) + 1} /\ Len(q) + 1 \notin DataOf(q, n)
        BY <1>2, <1>3, <2>1, FrameSets
      <3>2. QED
        BY <2>1, <3>1, FrameSets, FS_AddElement
    <2>2. CASE ~IsDataOf(f, n)
      BY <1>3, <2>2, FrameSets
    <2>3. QED
      BY <2>1, <2>2
  <1>6. QED
    BY <1>3, <1>4, <1>5 DEF a

(* A frame less: the others move up by one.                                *)
LEMMA FramesTaken ==
    ASSUME NEW q \in Seq(Http2!Frames), q # <<>>, NEW n
    PROVE  /\ \A i : i \in DataOf(Tail(q), n) => i + 1 \in DataOf(q, n) /\ i \in Nat \ {0}
           /\ \A i : i \in EndsOf(Tail(q), n) => i + 1 \in EndsOf(q, n) /\ i \in Nat \ {0}
           /\ IsEndOf(Head(q), n) => 1 \in EndsOf(q, n)
           /\ Cardinality(DataOf(q, n))
                = Cardinality(DataOf(Tail(q), n)) + (IF IsDataOf(Head(q), n) THEN 1 ELSE 0)
  <1>1. /\ Tail(q) \in Seq(Http2!Frames) /\ Len(Tail(q)) = Len(q) - 1 /\ Len(q) \in Nat \ {0}
        /\ \A i \in 1 .. Len(Tail(q)) : Tail(q)[i] = q[i + 1]
        /\ Head(q) = q[1]
    OBVIOUS
  <1> DEFINE t == Tail(q)
             S == DataOf(q, n) \ {1}
             T == DataOf(t, n)
  <1> HIDE DEF t
  <1>2. \A i : i \in T <=> i \in Nat \ {0} /\ i + 1 \in DataOf(q, n)
    <2>1. \A i : i \in 1 .. Len(t) <=> i \in Nat \ {0} /\ i + 1 \in 1 .. Len(q)
      BY <1>1 DEF t
    <2>2. QED
      BY <1>1, <2>1 DEF DataOf, t
  <1>3. \A i : i \in EndsOf(t, n) => i \in Nat \ {0} /\ i + 1 \in EndsOf(q, n)
    <2>1. \A i : i \in 1 .. Len(t) <=> i \in Nat \ {0} /\ i + 1 \in 1 .. Len(q)
      BY <1>1 DEF t
    <2>2. QED
      BY <1>1, <2>1 DEF EndsOf, t
  <1>4. IsEndOf(Head(q), n) => 1 \in EndsOf(q, n)
    BY <1>1 DEF IsEndOf, EndsOf
  <1>5. 1 \in DataOf(q, n) <=> IsDataOf(Head(q), n)
    BY <1>1 DEF IsDataOf, DataOf
  <1>6. /\ IsFiniteSet(DataOf(q, n)) /\ Cardinality(DataOf(q, n)) \in Nat
        /\ DataOf(q, n) \subseteq 1 .. Len(q) /\ IsFiniteSet(T) /\ Cardinality(T) \in Nat
    BY <1>1, FrameSets DEF t
  <1>7. IsFiniteSet(S)
    BY <1>6, FS_RemoveElement
  <1>8. Cardinality(T) = Cardinality(S)
    <2> DEFINE move == [i \in S |-> i - 1]
    <2>1. \A i \in S : i \in Nat /\ i - 1 \in T
      <3> SUFFICES ASSUME NEW i \in S PROVE i \in Nat /\ i - 1 \in T
        OBVIOUS
      <3>1. i \in 1 .. Len(q) /\ i # 1 /\ i \in DataOf(q, n)
        BY <1>6
      <3>2. i - 1 \in Nat \ {0} /\ (i - 1) + 1 = i
        BY <1>1, <3>1
      <3>3. QED
        BY <1>2, <3>1, <3>2
    <2>2. \A i \in T : i + 1 \in S /\ (i + 1) - 1 = i
      BY <1>2
    <2>3. move \in Bijection(S, T)
      <3>1. move \in [S -> T]
        BY <2>1
      <3>2. \A a, b \in S : move[a] = move[b] => a = b
        BY <2>1
      <3>3. \A i \in T : \E a \in S : move[a] = i
        BY <2>2
      <3>4. QED
        BY <3>1, <3>2, <3>3, Fun_IsBij
    <2>4. ExistsBijection(S, T)
      BY <2>3 DEF ExistsBijection
    <2>5. QED
      BY <1>7, <2>4, FS_Bijection
  <1>9. Cardinality(S) = IF 1 \in DataOf(q, n) THEN Cardinality(DataOf(q, n)) - 1
                         ELSE Cardinality(DataOf(q, n))
    BY <1>6, FS_RemoveElement
  <1>10. QED
    BY <1>2, <1>3, <1>4, <1>5, <1>6, <1>8, <1>9 DEF t

(* What the callbacks make of a frame, as far as it matters here.          *)
LEMMA AfterFrame ==
    ASSUME Http2!Http2Assumption, NEW c \in Http2!Contexts, NEW f \in Http2!Frames,
           NEW d, d = Http2!After(c, f)
    PROVE  /\ c.over_limit => d.over_limit
           /\ c.forbidden => d.forbidden
           /\ ~IsDataOf(f, req2.number) => d.body = c.body
           /\ IsDataOf(f, req2.number) => d.over_limit \/ d.forbidden \/ d.body = c.body + 1
           /\ d.end_stream => c.end_stream \/ IsEndOf(f, req2.number)
  <1>1. /\ f.end \in BOOLEAN /\ f.type \in Http2!FrameTypes
        /\ c.over_limit \in BOOLEAN /\ c.forbidden \in BOOLEAN
    BY DEF Http2!Frames, Http2!Contexts
  <1>2. CASE f.type = "GOAWAY" \/ f.stream # req2.number
    BY <1>1, <1>2 DEF Http2!After, Http2!Closed, Http2!Contexts, IsDataOf
  <1>3. CASE f.type = "RST_STREAM" /\ f.stream = req2.number
    BY <1>1, <1>3 DEF Http2!After, Http2!Closed, Http2!Contexts, IsDataOf
  <1>4. ASSUME NEW x \in Http2!Contexts, f.stream = req2.number
        PROVE  /\ Http2!AfterEnd(x, f).over_limit = x.over_limit
               /\ Http2!AfterEnd(x, f).forbidden = x.forbidden
               /\ Http2!AfterEnd(x, f).body = x.body
               /\ Http2!AfterEnd(x, f).end_stream => x.end_stream \/ IsEndOf(f, req2.number)
    BY <1>1, <1>4 DEF Http2!AfterEnd, Http2!Contexts, IsEndOf
  <1>5. CASE f.type \in {"INTERIM", "HEADERS"} /\ f.stream = req2.number
    <2>1. /\ Http2!Status(c, f) \in Http2!Contexts
          /\ Http2!Status(c, f).over_limit = c.over_limit
          /\ Http2!Status(c, f).forbidden = c.forbidden
          /\ Http2!Status(c, f).body = c.body
          /\ Http2!Status(c, f).end_stream = c.end_stream
      BY DEF Http2!Status, Http2!Contexts, Http2!Frames
    <2>2. d = Http2!AfterEnd(Http2!Status(c, f), f)
      BY <1>5 DEF Http2!After
    <2>3. QED
      BY <1>4, <1>5, <2>1, <2>2 DEF IsDataOf
  <1>6. CASE f.type = "DATA" /\ f.stream = req2.number
    <2>1. /\ Http2!Chunk(c) \in Http2!Contexts
          /\ c.over_limit => Http2!Chunk(c).over_limit
          /\ c.forbidden => Http2!Chunk(c).forbidden
          /\ \/ Http2!Chunk(c).over_limit \/ Http2!Chunk(c).forbidden
             \/ Http2!Chunk(c).body = c.body + 1
          /\ Http2!Chunk(c).end_stream = c.end_stream
      <3>1. c.body # MaxBody => c.body + 1 \in 0 .. MaxBody
        BY DEF Http2!Contexts, Http2!Http2Assumption
      <3>2. QED
        BY <3>1 DEF Http2!Chunk, Http2!Contexts
    <2>2. d = Http2!AfterEnd(Http2!Chunk(c), f)
      BY <1>6 DEF Http2!After
    <2>3. QED
      BY <1>4, <1>6, <2>1, <2>2 DEF IsDataOf
  <1>7. QED
    BY <1>1, <1>2, <1>3, <1>5, <1>6 DEF Http2!FrameTypes

(* A step that leaves alone what WholeInv looks at.                        *)
LEMMA WholeQuiet ==
    ASSUME WholeInv, conn2' = None <=> conn2 = None,
           conn2 # None => conn2'.in = conn2.in /\ conn2'.unfinished \subseteq conn2.unfinished,
           UNCHANGED <<req2, reply, result2>>,
           \A field \in {"status", "body", "end_stream", "over_limit", "forbidden"} :
               ctx2'[field] = ctx2[field],
           pc2' = "idle" <=> pc2 = "idle",
           pc2' \in {"ensure", "submit"} <=> pc2 \in {"ensure", "submit"}
    PROVE  WholeInv'
  <1>1. StreamsInv'
    BY DEF WholeInv, StreamsInv
  <1>2. UnansweredInv'
    BY DEF WholeInv, UnansweredInv
  <1>3. AnswerInv'
    BY DEF WholeInv, AnswerInv
  <1>4. SuccessInv'
    BY DEF WholeInv, SuccessInv
  <1>5. QED
    BY <1>1, <1>2, <1>3, <1>4 DEF WholeInv

(* A request returns, or none runs: the response is what it is.            *)
LEMMA WholeAtRest ==
    ASSUME WholeInv, pc2' = "idle", UNCHANGED <<req2, ctx2, reply>>,
           \/ conn2' = None
           \/ /\ conn2 # None /\ conn2'.in = conn2.in
              /\ conn2'.unfinished = conn2.unfinished,
           result2' = "OK" => ctx2.status /\ reply.state = "ended" /\ ctx2.body = reply.data
    PROVE  WholeInv'
  <1>1. StreamsInv'
    BY DEF WholeInv, StreamsInv
  <1>2. UnansweredInv' /\ AnswerInv'
    BY DEF UnansweredInv, AnswerInv
  <1>3. SuccessInv'
    BY DEF SuccessInv
  <1>4. QED
    BY <1>1, <1>2, <1>3 DEF WholeInv

(* No frame on its way is of the request that begins.                      *)
LEMMA WholeBegin ==
    ASSUME Http2!Http2Assumption, Http2Inv, WholeInv, NEW k \in Keys,
           NEW size \in 0 .. MaxUpload, Http2!Begin(k, size)
    PROVE  WholeInv'
  <1>1. /\ req2.number \in Nat /\ req2'.number = req2.number + 1 /\ conn2' = conn2
        /\ pc2' = "ensure" /\ result2' # "OK" /\ ctx2'.body = 0
        /\ reply'.state = "silent" /\ reply'.data = 0
    <2>1. req2.number \in Nat
      BY DEF Http2Inv, Http2!TypeOK, Http2!Numbers, Http2!Http2Assumption
    <2>2. QED
      BY <2>1 DEF Http2!Begin, Http2!NewContext, Http2!Http2Assumption
  <1>2. conn2 # None =>
            /\ \A i \in 1 .. Len(conn2.in) : conn2.in[i].stream \in Nat
            /\ \A s \in conn2.unfinished : s \in Nat
    <2>1. \A s \in Http2!Numbers : s \in Nat
      BY DEF Http2!Numbers, Http2!Http2Assumption
    <2>2. conn2 # None => /\ conn2.in \in Seq(Http2!Frames)
                          /\ conn2.unfinished \subseteq Http2!Numbers
      BY DEF Http2Inv, Http2!TypeOK, Http2!Connections
    <2>3. \A q \in Seq(Http2!Frames) : \A i \in 1 .. Len(q) : q[i] \in Http2!Frames
      OBVIOUS
    <2>4. \A f \in Http2!Frames : f.stream \in Http2!Numbers
      BY DEF Http2!Frames
    <2>5. QED
      BY <2>1, <2>2, <2>3, <2>4
  <1>3. StreamsInv'
    BY <1>1, <1>2 DEF WholeInv, StreamsInv
  <1>4. conn2 # None => /\ DataOf(conn2.in, req2'.number) = {}
                        /\ EndsOf(conn2.in, req2'.number) = {}
    BY <1>1, <1>2 DEF WholeInv, StreamsInv, DataOf, EndsOf
  <1>5. UnansweredInv'
    BY <1>1, <1>4 DEF UnansweredInv
  <1>6. AnswerInv' /\ SuccessInv'
    BY <1>1 DEF AnswerInv, SuccessInv
  <1>7. QED
    BY <1>3, <1>5, <1>6 DEF WholeInv

(* A new connection has no frames on their way.                            *)
LEMMA WholeConnect ==
    ASSUME Http2!Http2Assumption, Http2Inv, WholeInv, Http2!Connect
    PROVE  WholeInv'
  <1>1. CASE conn2' = None /\ pc2' = "idle"
    <2>1. result2' # "OK"
      BY <1>1 DEF Http2!Connect, Http2!NoTcp, Http2!Return
    <2>2. QED
      BY <1>1, <2>1, WholeAtRest DEF Http2!Connect
  <1>2. CASE /\ conn2' = [key |-> req2.key, user_data |-> req2.number, in |-> <<>>,
                          unfinished |-> {}, eof |-> FALSE]
             /\ pc2' = "submit" /\ UNCHANGED result2
    <2>1. conn2'.in = <<>> /\ conn2'.unfinished = {} /\ UNCHANGED <<req2, ctx2, reply>>
      BY <1>2 DEF Http2!Connect
    <2>2. StreamsInv'
      BY <2>1 DEF StreamsInv
    <2>3. UnansweredInv'
      BY <1>2, <2>1 DEF WholeInv, UnansweredInv, Http2!Connect, DataOf, EndsOf
    <2>4. AnswerInv' /\ SuccessInv'
      BY <1>2, <2>1 DEF WholeInv, AnswerInv, SuccessInv, Http2!Connect
    <2>5. QED
      BY <2>2, <2>3, <2>4 DEF WholeInv
  <1>3. QED
    BY <1>1, <1>2 DEF Http2!Connect, Http2!NoTcp, Http2!Return

(* The server may answer from here on.                                     *)
LEMMA WholeSubmit ==
    ASSUME Http2!Http2Assumption, Http2Inv, WholeInv, Http2!Submit
    PROVE  WholeInv'
  <1>1. conn2 \in Http2!Connections /\ conn2 # None /\ pc2 = "submit" /\ ~ctx2.end_stream
    BY DEF Http2Inv, SessionInv, Http2!Submit, Http2!Http2Assumption
  <1>2. /\ conn2'.in = conn2.in /\ conn2'.unfinished \subseteq conn2.unfinished \cup {req2.number}
        /\ pc2' = "send" /\ UNCHANGED <<req2, ctx2, result2>> /\ reply'.data = reply.data
    BY <1>1 DEF Http2!Submit, Http2!Connections, Http2Inv, Http2!TypeOK
  <1>3. req2.number <= req2.number
    BY DEF Http2Inv, Http2!TypeOK, Http2!Numbers, Http2!Http2Assumption
  <1>4. StreamsInv'
    BY <1>1, <1>2, <1>3 DEF WholeInv, StreamsInv
  <1>5. /\ DataOf(conn2.in, req2.number) = {} /\ EndsOf(conn2.in, req2.number) = {}
        /\ ctx2.body = 0 /\ reply.data = 0
    BY <1>1 DEF WholeInv, UnansweredInv
  <1>6. AnswerInv'
    BY <1>1, <1>2, <1>5, FS_EmptySet DEF AnswerInv
  <1>7. UnansweredInv' /\ SuccessInv'
    BY <1>1, <1>2 DEF WholeInv, UnansweredInv, SuccessInv
  <1>8. QED
    BY <1>4, <1>6, <1>7 DEF WholeInv

(* A success has taken END_STREAM, and with it everything before it.       *)
LEMMA WholeFinish ==
    ASSUME Http2!Http2Assumption, Http2Inv, WholeInv, NEW ret \in {"OK", "PROTOCOL", "TIMEOUT"},
           pc2 \in {"send", "pending", "read", "received"}, Http2!Finish(ret)
    PROVE  WholeInv'
  <1>1. conn2 \in Http2!Connections /\ conn2 # None
    BY DEF Http2Inv, SessionInv, Http2!Http2Assumption
  <1>2. \/ conn2' = None
        \/ conn2'.in = conn2.in /\ conn2'.unfinished = conn2.unfinished
    BY <1>1 DEF Http2!Finish, Http2!Connections
  <1>3. ASSUME result2' = "OK"
        PROVE  ctx2.status /\ reply.state = "ended" /\ ctx2.body = reply.data
    <2>1. ctx2.status /\ ctx2.end_stream /\ ~ctx2.over_limit /\ ~ctx2.forbidden
      BY <1>3 DEF Http2!Finish, Http2!Return, Http2!Judged
    <2>2. reply.state = "ended" /\ DataOf(conn2.in, req2.number) = {}
      BY <2>1 DEF WholeInv, AnswerInv
    <2>3. ctx2.body + Cardinality(DataOf(conn2.in, req2.number)) = reply.data
      BY <2>1 DEF WholeInv, AnswerInv
    <2>4. ctx2.body \in Nat
      BY DEF Http2Inv, Http2!TypeOK, Http2!Contexts, Http2!Http2Assumption
    <2>5. QED
      BY <2>1, <2>2, <2>3, <2>4, FS_EmptySet
  <1>4. QED
    BY <1>1, <1>2, <1>3, WholeAtRest DEF Http2!Finish, Http2!Return

(* nghttp2 takes a frame: from those on their way to the body.             *)
LEMMA WholeFeed ==
    ASSUME Http2!Http2Assumption, Http2Inv, WholeInv, Http2!Feed
    PROVE  WholeInv'
  <1> DEFINE q == conn2.in
             n == req2.number
             f == Head(q)
  <1>1. conn2 \in Http2!Connections /\ conn2 # None /\ batch > 0 /\ batch <= Len(conn2.in)
    BY DEF Http2Inv, Http2!TypeOK, SessionInv, Http2!Feed, Http2!Http2Assumption
  <1>2. /\ q \in Seq(Http2!Frames) /\ q # <<>> /\ f \in Http2!Frames
        /\ Tail(q) \in Seq(Http2!Frames) /\ Len(Tail(q)) = Len(q) - 1
        /\ \A i \in 1 .. Len(Tail(q)) : i + 1 \in 1 .. Len(q) /\ Tail(q)[i] = q[i + 1]
    <2>1. q \in Seq(Http2!Frames) /\ q # <<>>
      BY <1>1 DEF Http2!Connections, Http2Inv, Http2!TypeOK
    <2>2. QED
      BY <2>1
  <1>3. /\ conn2'.in = Tail(q) /\ conn2'.unfinished \subseteq conn2.unfinished /\ conn2' # None
        /\ ctx2' = Http2!After(ctx2, f)
        /\ pc2 \in {"pending", "received"} /\ UNCHANGED <<req2, reply, pc2, result2>>
    <2>1. conn2' \in Http2!Connections
      BY <1>1, <1>2 DEF Http2!Feed, Http2!Connections
    <2>2. QED
      BY <1>1, <2>1 DEF Http2!Feed, Http2!Connections, Http2!Http2Assumption
  <1>4. /\ ctx2 \in Http2!Contexts /\ ctx2.body \in Nat /\ reply.data \in Nat
        /\ ctx2.over_limit \in BOOLEAN /\ ctx2.forbidden \in BOOLEAN
    BY DEF Http2Inv, Http2!TypeOK, Http2!Contexts, Http2!Http2Assumption
  <1>5. /\ ctx2.over_limit => ctx2'.over_limit
        /\ ctx2.forbidden => ctx2'.forbidden
        /\ ~IsDataOf(f, n) => ctx2'.body = ctx2.body
        /\ IsDataOf(f, n) => ctx2'.over_limit \/ ctx2'.forbidden \/ ctx2'.body = ctx2.body + 1
        /\ ctx2'.end_stream => ctx2.end_stream \/ IsEndOf(f, n)
    BY <1>2, <1>3, <1>4, AfterFrame
  <1>6. /\ \A i : i \in DataOf(Tail(q), n) => i + 1 \in DataOf(q, n) /\ i \in Nat \ {0}
        /\ \A i : i \in EndsOf(Tail(q), n) => i + 1 \in EndsOf(q, n) /\ i \in Nat \ {0}
        /\ IsEndOf(f, n) => 1 \in EndsOf(q, n)
        /\ Cardinality(DataOf(q, n))
             = Cardinality(DataOf(Tail(q), n)) + (IF IsDataOf(f, n) THEN 1 ELSE 0)
    BY <1>2, FramesTaken
  <1>7. Cardinality(DataOf(q, n)) \in Nat /\ Cardinality(DataOf(Tail(q), n)) \in Nat
    BY <1>2, FrameSets
  <1>8. StreamsInv'
    BY <1>1, <1>2, <1>3 DEF WholeInv, StreamsInv
  <1>9. UnansweredInv' /\ SuccessInv'
    BY <1>3 DEF WholeInv, UnansweredInv, SuccessInv
  <1>10. /\ \/ ctx2.over_limit \/ ctx2.forbidden
            \/ ctx2.body + Cardinality(DataOf(q, n)) = reply.data
         /\ \A i \in EndsOf(q, n), j \in DataOf(q, n) : j <= i
         /\ EndsOf(q, n) # {} => reply.state = "ended"
         /\ ctx2.end_stream => reply.state = "ended" /\ DataOf(q, n) = {}
    BY <1>3 DEF WholeInv, AnswerInv
  <1>a. \/ ctx2'.over_limit \/ ctx2'.forbidden
        \/ ctx2'.body + Cardinality(DataOf(Tail(q), n)) = reply.data
    <2>1. CASE ctx2.over_limit \/ ctx2.forbidden
      BY <1>5, <2>1
    <2>2. CASE ctx2.body + Cardinality(DataOf(q, n)) = reply.data
      <3> HIDE DEF q, n, f
      <3>1. CASE IsDataOf(f, n)
        <4>1. Cardinality(DataOf(q, n)) = Cardinality(DataOf(Tail(q), n)) + 1
          BY <1>6, <3>1
        <4>2. ctx2'.over_limit \/ ctx2'.forbidden \/ ctx2'.body = ctx2.body + 1
          BY <1>5, <3>1
        <4>3. QED
          BY <1>4, <1>7, <2>2, <4>1, <4>2
      <3>2. CASE ~IsDataOf(f, n)
        <4>1. Cardinality(DataOf(q, n)) = Cardinality(DataOf(Tail(q), n)) + 0
          BY <1>6, <3>2
        <4>2. ctx2'.body = ctx2.body
          BY <1>5, <3>2
        <4>3. QED
          BY <1>4, <1>7, <2>2, <4>1, <4>2
      <3>3. QED
        BY <3>1, <3>2
    <2>3. QED
      BY <1>10, <2>1, <2>2
  <1>b. \A i \in EndsOf(Tail(q), n), j \in DataOf(Tail(q), n) : j <= i
    <2> SUFFICES ASSUME NEW i \in EndsOf(Tail(q), n), NEW j \in DataOf(Tail(q), n)
                 PROVE  j <= i
      OBVIOUS
    <2>1. j + 1 <= i + 1 /\ i \in Nat /\ j \in Nat
      BY <1>6, <1>10
    <2>2. QED
      BY <2>1
  <1>c. EndsOf(Tail(q), n) # {} => reply.state = "ended"
    BY <1>6, <1>10
  <1>d. ctx2'.end_stream => reply.state = "ended" /\ DataOf(Tail(q), n) = {}
    <2>1. CASE ctx2.end_stream
      BY <1>6, <1>10, <2>1
    <2>2. CASE IsEndOf(f, n)
      <3>1. 1 \in EndsOf(q, n) /\ reply.state = "ended"
        BY <1>6, <1>10, <2>2
      <3>2. ASSUME NEW i \in DataOf(Tail(q), n) PROVE FALSE
        <4>1. i \in Nat \ {0} /\ i + 1 <= 1
          BY <1>6, <1>10, <3>1
        <4>2. QED
          BY <4>1
      <3>3. QED
        BY <3>1, <3>2
    <2>3. QED
      BY <1>5, <2>1, <2>2
  <1>11. AnswerInv'
    BY <1>3, <1>a, <1>b, <1>c, <1>d DEF AnswerInv
  <1>12. QED
    BY <1>8, <1>9, <1>11 DEF WholeInv

(* What the server sends is of this request or of an earlier one, and the  *)
(* response goes on in order.                                              *)
WellSent(f, r) ==
    LET n == req2.number IN
    /\ f \in Http2!Frames /\ f.stream <= n
    /\ IsDataOf(f, n) => reply.state = "headed" /\ r.data = reply.data + 1
    /\ ~IsDataOf(f, n) => r.data = reply.data
    /\ IsEndOf(f, n) => reply.state # "silent" /\ r.state = "ended"
    /\ reply.state \in {"silent", "ended"} => r = reply /\ ~IsDataOf(f, n) /\ ~IsEndOf(f, n)

LEMMA ServerIsWellBehaved ==
    ASSUME Http2!Http2Assumption, Http2Inv, WholeInv, Http2!Server
    PROVE  Http2!ServerCloses \/ \E f, r : Http2!Sends(f, r) /\ WellSent(f, r)
  <1> DEFINE Step == \E f, r : Http2!Sends(f, r) /\ WellSent(f, r)
             n == req2.number
  <1>a. conn2 # None => n \in Http2!Numbers
    BY DEF Http2Inv, SessionInv
  <1>b. reply \in Replies /\ n <= n
    BY DEF Http2Inv, Http2!TypeOK, Replies, Http2!Numbers, Http2!Http2Assumption
  <1>c. \A type \in Http2!FrameTypes, s \in Http2!Numbers, end, error, bodiless \in BOOLEAN :
            Http2!Frame(type, s, end, error, bodiless) \in Http2!Frames
    BY DEF Http2!Frame, Http2!Frames
  <1>d. \A st : /\ [reply EXCEPT !.state = st].state = st
               /\ [reply EXCEPT !.state = st].data = reply.data
    BY <1>b DEF Replies
  <1>1. ASSUME Http2!SendsInterim
        PROVE  Step
    <2> DEFINE f == Http2!Frame("INTERIM", n, FALSE, FALSE, FALSE)
               r == [reply EXCEPT !.state = "interim"]
    <2>1. Http2!Sends(f, r) /\ reply.state = "asked" /\ n \in Http2!Numbers
      BY <1>1, <1>a DEF Http2!SendsInterim, Http2!Sends
    <2>2. /\ f \in Http2!Frames /\ f.type = "INTERIM" /\ f.stream = n /\ f.end = FALSE
          /\ r.data = reply.data
      <3>1. f \in Http2!Frames
        BY <1>c, <2>1 DEF Http2!FrameTypes
      <3>2. f.type = "INTERIM" /\ f.stream = n /\ f.end = FALSE
        BY DEF Http2!Frame
      <3>3. r.data = reply.data
        BY <1>d
      <3>4. QED
        BY <3>1, <3>2, <3>3
    <2> HIDE DEF f, r
    <2>3. WellSent(f, r)
      BY <1>b, <2>1, <2>2 DEF WellSent, IsDataOf, IsEndOf
    <2>4. QED
      BY <2>1, <2>3
  <1>2. ASSUME NEW end \in BOOLEAN, NEW bodiless \in BOOLEAN, Http2!SendsHeaders(end, bodiless)
        PROVE  Step
    <2> DEFINE f == Http2!Frame("HEADERS", n, end, FALSE, bodiless)
               r == [reply EXCEPT !.state = IF end THEN "ended" ELSE "headed"]
    <2>1. Http2!Sends(f, r) /\ reply.state \in {"asked", "interim"} /\ n \in Http2!Numbers
      BY <1>2, <1>a DEF Http2!SendsHeaders, Http2!Sends
    <2>2. /\ f \in Http2!Frames /\ f.type = "HEADERS" /\ f.stream = n /\ f.end = end
          /\ r.data = reply.data /\ r.state = IF end THEN "ended" ELSE "headed"
      <3>1. f \in Http2!Frames
        BY <1>c, <2>1 DEF Http2!FrameTypes
      <3>2. f.type = "HEADERS" /\ f.stream = n /\ f.end = end
        BY DEF Http2!Frame
      <3>3. r.data = reply.data /\ r.state = IF end THEN "ended" ELSE "headed"
        BY <1>d
      <3>4. QED
        BY <3>1, <3>2, <3>3
    <2> HIDE DEF f, r
    <2>3. WellSent(f, r)
      BY <1>b, <2>1, <2>2 DEF WellSent, IsDataOf, IsEndOf
    <2>4. QED
      BY <2>1, <2>3
  <1>3. ASSUME NEW end \in BOOLEAN, Http2!SendsData(end)
        PROVE  Step
    <2> DEFINE f == Http2!Frame("DATA", n, end, FALSE, FALSE)
               r == [state |-> IF end THEN "ended" ELSE "headed", data |-> reply.data + 1]
    <2>1. Http2!Sends(f, r) /\ reply.state = "headed" /\ n \in Http2!Numbers
      BY <1>3, <1>a DEF Http2!SendsData, Http2!Sends
    <2>2. /\ f \in Http2!Frames /\ f.type = "DATA" /\ f.stream = n /\ f.end = end
          /\ r.data = reply.data + 1 /\ r.state = IF end THEN "ended" ELSE "headed"
      <3>1. f \in Http2!Frames
        BY <1>c, <2>1 DEF Http2!FrameTypes
      <3>2. f.type = "DATA" /\ f.stream = n /\ f.end = end
        BY DEF Http2!Frame
      <3>3. r.data = reply.data + 1 /\ r.state = IF end THEN "ended" ELSE "headed"
        BY <1>d
      <3>4. QED
        BY <3>1, <3>2, <3>3
    <2> HIDE DEF f, r
    <2>3. WellSent(f, r)
      BY <1>b, <2>1, <2>2 DEF WellSent, IsDataOf, IsEndOf
    <2>4. QED
      BY <2>1, <2>3
  <1>4. ASSUME NEW s \in Http2!Numbers, NEW error \in BOOLEAN, Http2!SendsReset(s, error)
        PROVE  Step
    <2> DEFINE f == Http2!Frame("RST_STREAM", s, FALSE, error, FALSE)
               given == s = n /\ Http2!Asked
               r == IF given THEN [reply EXCEPT !.state = "silent"] ELSE reply
    <2>1. Http2!Sends(f, r) /\ s <= n
      BY <1>4, <1>b DEF Http2!SendsReset, Http2!Sends, WholeInv, StreamsInv
    <2>2. f \in Http2!Frames /\ f.type = "RST_STREAM" /\ f.stream = s /\ f.end = FALSE
      <3>1. f \in Http2!Frames
        BY <1>c DEF Http2!FrameTypes
      <3>2. f.type = "RST_STREAM" /\ f.stream = s /\ f.end = FALSE
        BY DEF Http2!Frame
      <3>3. QED
        BY <3>1, <3>2
    <2>3. r.data = reply.data /\ (reply.state \in {"silent", "ended"} => r = reply)
      BY <1>d DEF Http2!Asked
    <2> HIDE DEF f, r
    <2>4. WellSent(f, r)
      BY <2>1, <2>2, <2>3 DEF WellSent, IsDataOf, IsEndOf
    <2>5. QED
      BY <2>1, <2>4
  <1>5. ASSUME NEW refuses \in BOOLEAN, Http2!SendsGoaway(refuses)
        PROVE  Step
    <2> DEFINE f == Http2!Frame("GOAWAY", n, FALSE, refuses, FALSE)
               r == IF refuses THEN [reply EXCEPT !.state = "silent"] ELSE reply
    <2>1. Http2!Sends(f, r) /\ n \in Http2!Numbers /\ (refuses => Http2!Asked)
      BY <1>5, <1>a DEF Http2!SendsGoaway, Http2!Sends
    <2>2. f \in Http2!Frames /\ f.type = "GOAWAY" /\ f.stream = n /\ f.end = FALSE
      <3>1. f \in Http2!Frames
        BY <1>c, <2>1 DEF Http2!FrameTypes
      <3>2. f.type = "GOAWAY" /\ f.stream = n /\ f.end = FALSE
        BY DEF Http2!Frame
      <3>3. QED
        BY <3>1, <3>2
    <2>3. r.data = reply.data /\ (reply.state \in {"silent", "ended"} => r = reply)
      BY <1>d, <2>1 DEF Http2!Asked
    <2> HIDE DEF f, r
    <2>4. WellSent(f, r)
      BY <1>b, <2>1, <2>2, <2>3 DEF WellSent, IsDataOf, IsEndOf
    <2>5. QED
      BY <2>1, <2>4
  <1>6. QED
    BY <1>1, <1>2, <1>3, <1>4, <1>5 DEF Http2!Server

(* The server sends a frame.                                               *)
LEMMA WholeSends ==
    ASSUME Http2!Http2Assumption, Http2Inv, WholeInv, NEW f, NEW r, Http2!Sends(f, r),
           WellSent(f, r)
    PROVE  WholeInv'
  <1> DEFINE q == conn2.in
             n == req2.number
             p == Append(q, f)
  <1>1. conn2 \in Http2!Connections /\ conn2 # None /\ f \in Http2!Frames
    BY DEF Http2Inv, Http2!TypeOK, Http2!Sends, WellSent
  <1>2. /\ q \in Seq(Http2!Frames) /\ p \in Seq(Http2!Frames) /\ Len(p) = Len(q) + 1
        /\ Len(q) \in Nat
        /\ \A i \in 1 .. Len(p) : IF i = Len(q) + 1 THEN p[i] = f
                                  ELSE i \in 1 .. Len(q) /\ p[i] = q[i]
    <2>1. q \in Seq(Http2!Frames)
      BY <1>1 DEF Http2!Connections
    <2>2. QED
      BY <1>1, <2>1
  <1>3. /\ conn2' # None /\ conn2'.in = p /\ conn2'.unfinished = conn2.unfinished
        /\ reply' = r /\ UNCHANGED <<pc2, req2, ctx2, result2>>
    <2>1. conn2' \in Http2!Connections
      BY <1>1, <1>2 DEF Http2!Sends, Http2!Connections
    <2>2. QED
      BY <1>1, <2>1 DEF Http2!Sends, Http2!Connections, Http2!Http2Assumption
  <1>4. /\ DataOf(p, n) = DataOf(q, n) \cup (IF IsDataOf(f, n) THEN {Len(q) + 1} ELSE {})
        /\ EndsOf(p, n) = EndsOf(q, n) \cup (IF IsEndOf(f, n) THEN {Len(q) + 1} ELSE {})
        /\ Cardinality(DataOf(p, n))
             = Cardinality(DataOf(q, n)) + (IF IsDataOf(f, n) THEN 1 ELSE 0)
    BY <1>1, <1>2, FramesAppended
  <1>5. /\ Cardinality(DataOf(q, n)) \in Nat
        /\ \A i \in DataOf(q, n) \cup EndsOf(q, n) : i \in Nat /\ i <= Len(q)
    BY <1>2, FrameSets
  <1>6. ctx2.body \in Nat /\ reply.data \in Nat
    BY DEF Http2Inv, Http2!TypeOK, Http2!Contexts, Http2!Http2Assumption
  <1>7. /\ f.stream <= n
        /\ IsDataOf(f, n) => reply.state = "headed" /\ r.data = reply.data + 1
        /\ ~IsDataOf(f, n) => r.data = reply.data
        /\ IsEndOf(f, n) => reply.state # "silent" /\ r.state = "ended"
        /\ reply.state \in {"silent", "ended"} => r = reply /\ ~IsDataOf(f, n) /\ ~IsEndOf(f, n)
    BY DEF WellSent
  <1> HIDE DEF p
  <1>8. StreamsInv'
    BY <1>1, <1>2, <1>3, <1>7 DEF WholeInv, StreamsInv
  <1>9. UnansweredInv'
    <2> SUFFICES ASSUME pc2 \in {"ensure", "submit"}
                 PROVE  /\ reply'.state = "silent" /\ reply'.data = 0 /\ ctx2'.body = 0
                        /\ DataOf(p, n) = {} /\ EndsOf(p, n) = {}
      BY <1>3 DEF UnansweredInv
    <2>1. /\ reply.state = "silent" /\ reply.data = 0 /\ ctx2.body = 0
          /\ DataOf(q, n) = {} /\ EndsOf(q, n) = {}
      BY <1>1 DEF WholeInv, UnansweredInv
    <2>2. r = reply /\ ~IsDataOf(f, n) /\ ~IsEndOf(f, n)
      BY <1>7, <2>1
    <2>3. QED
      BY <1>3, <1>4, <2>1, <2>2
  <1>10. AnswerInv'
    <2> SUFFICES ASSUME pc2 \notin {"idle", "ensure", "submit"}
                 PROVE  /\ \/ ctx2.over_limit \/ ctx2.forbidden
                           \/ ctx2.body + Cardinality(DataOf(p, n)) = r.data
                        /\ \A i \in EndsOf(p, n), j \in DataOf(p, n) : j <= i
                        /\ EndsOf(p, n) # {} => r.state = "ended"
                        /\ ctx2.end_stream => r.state = "ended" /\ DataOf(p, n) = {}
      BY <1>3 DEF AnswerInv
    <2>1. /\ \/ ctx2.over_limit \/ ctx2.forbidden
             \/ ctx2.body + Cardinality(DataOf(q, n)) = reply.data
          /\ \A i \in EndsOf(q, n), j \in DataOf(q, n) : j <= i
          /\ EndsOf(q, n) # {} => reply.state = "ended"
          /\ ctx2.end_stream => reply.state = "ended" /\ DataOf(q, n) = {}
      BY DEF WholeInv, AnswerInv
    <2>2. CASE reply.state = "ended"
      <3>1. r = reply /\ DataOf(p, n) = DataOf(q, n) /\ EndsOf(p, n) = EndsOf(q, n)
        BY <1>4, <1>7, <2>2
      <3>2. QED
        BY <2>1, <3>1
    <2>3. CASE reply.state # "ended"
      <3>1. EndsOf(q, n) = {} /\ ~ctx2.end_stream
        BY <2>1, <2>3
      <3>2. EndsOf(p, n) = IF IsEndOf(f, n) THEN {Len(q) + 1} ELSE {}
        BY <1>4, <3>1
      <3>3. \A j \in DataOf(p, n) : j <= Len(q) + 1
        BY <1>2, <1>4, <1>5
      <3>4. /\ \A i \in EndsOf(p, n), j \in DataOf(p, n) : j <= i
            /\ EndsOf(p, n) # {} => r.state = "ended"
        BY <1>7, <3>2, <3>3
      <3>5. ASSUME ctx2.body + Cardinality(DataOf(q, n)) = reply.data
            PROVE  ctx2.body + Cardinality(DataOf(p, n)) = r.data
        <4>1. CASE IsDataOf(f, n)
          <5>1. /\ Cardinality(DataOf(p, n)) = Cardinality(DataOf(q, n)) + 1
                /\ r.data = reply.data + 1
            BY <1>4, <1>7, <4>1
          <5>2. QED
            BY <1>5, <1>6, <3>5, <5>1
        <4>2. CASE ~IsDataOf(f, n)
          BY <1>4, <1>5, <1>7, <3>5, <4>2
        <4>3. QED
          BY <4>1, <4>2
      <3>6. QED
        BY <2>1, <3>1, <3>4, <3>5
    <2>4. QED
      BY <2>2, <2>3
  <1>11. SuccessInv'
    BY <1>3, <1>7 DEF WholeInv, SuccessInv
  <1>12. QED
    BY <1>8, <1>9, <1>10, <1>11 DEF WholeInv

(* Every step preserves it.                                                *)
LEMMA WholeNext ==
    ASSUME Http2!Http2Assumption, Http2Inv, WholeInv, [Http2!Next]_(Http2!vars)
    PROVE  WholeInv'
  <1>1. CASE \E k \in Keys, size \in 0 .. MaxUpload : Http2!Begin(k, size)
    BY <1>1, WholeBegin
  <1>2. CASE Http2!RefuseText
    BY <1>2, WholeAtRest DEF Http2!RefuseText, Http2!Return, StreamsInv
  <1>3. CASE Http2!Reuse
    <2>1. conn2 \in Http2!Connections /\ conn2' \in Http2!Connections
      BY <1>3 DEF Http2!Reuse, Http2!Same, Http2Inv, Http2!TypeOK, Http2!Connections, SessionInv
    <2>2. /\ conn2' # None /\ conn2 # None /\ conn2'.in = conn2.in
          /\ conn2'.unfinished = conn2.unfinished
      BY <1>3, <2>1 DEF Http2!Reuse, Http2!Connections, Http2!Http2Assumption
    <2>3. QED
      BY <1>3, <2>2, WholeQuiet DEF Http2!Reuse
  <1>4. CASE \E e \in {"PROTOCOL", "OUT_OF_MEMORY"} : Http2!SubmitFails(e)
    BY <1>4, WholeAtRest DEF Http2!SubmitFails, Http2!Return
  <1>5. CASE \E s \in Http2!Numbers : Http2!DataRead(s)
    <2>1. conn2 \in Http2!Connections /\ ctx2 \in Http2!Contexts
      BY <1>5 DEF Http2!DataRead, Http2Inv, Http2!TypeOK, SessionInv
    <2>2. /\ conn2' # None /\ conn2 # None /\ conn2'.in = conn2.in
          /\ conn2'.unfinished \subseteq conn2.unfinished
      <3>1. conn2' \in Http2!Connections
        BY <1>5, <2>1 DEF Http2!DataRead, Http2!Connections
      <3>2. QED
        BY <1>5, <2>1, <3>1 DEF Http2!DataRead, Http2!Connections, Http2!Http2Assumption
    <2>3. \A field \in {"status", "body", "end_stream", "over_limit", "forbidden"} :
              ctx2'[field] = ctx2[field]
      BY <1>5, <2>1 DEF Http2!DataRead, Http2!Contexts
    <2>4. QED
      BY <1>5, <2>2, <2>3, WholeQuiet DEF Http2!DataRead
  <1>6. CASE \/ Http2!Drain \/ Http2!Sent \/ Http2!GoOn \/ Http2!ReadNothing
             \/ \E n \in 1 .. MaxFrames : Http2!Read(n)
             \/ Http2!DeadlinePasses \/ UNCHANGED Http2!vars
    <2>1. /\ UNCHANGED <<conn2, ctx2, req2, reply, result2>>
          /\ pc2' = "idle" <=> pc2 = "idle"
          /\ pc2' \in {"ensure", "submit"} <=> pc2 \in {"ensure", "submit"}
      BY <1>6 DEF Http2!Drain, Http2!Sent, Http2!GoOn, Http2!ReadNothing, Http2!Read,
         Http2!DeadlinePasses, Http2!loop, Http2!vars
    <2>2. QED
      BY <2>1, WholeQuiet
  <1>7. CASE \/ Http2!StreamClosed \/ Http2!SendFails \/ Http2!FrameIsBad
             \/ Http2!TimedOut \/ Http2!ReadFails
    BY <1>7, WholeFinish DEF Http2!StreamClosed, Http2!SendFails, Http2!FrameIsBad,
       Http2!TimedOut, Http2!ReadFails
  <1>8. CASE Http2!MigrateConnection
    BY <1>8, WholeAtRest DEF Http2!MigrateConnection, WholeInv, SuccessInv
  <1>9. CASE Http2!ServerCloses
    <2>1. conn2 \in Http2!Connections /\ conn2 # None
      BY <1>9 DEF Http2!ServerCloses, Http2Inv, Http2!TypeOK
    <2>2. conn2'.in = conn2.in /\ conn2'.unfinished = conn2.unfinished
      BY <1>9, <2>1 DEF Http2!ServerCloses, Http2!Connections
    <2>3. QED
      BY <1>9, <2>1, <2>2, WholeAtRest DEF Http2!ServerCloses, WholeInv, SuccessInv
  <1>10. CASE Http2!Server
    BY <1>9, <1>10, ServerIsWellBehaved, WholeSends
  <1>11. QED
    BY <1>1, <1>2, <1>3, <1>4, <1>5, <1>6, <1>7, <1>8, <1>9, <1>10, WholeConnect, WholeSubmit,
       WholeFeed DEF Http2!Next, Http2!Request

(* A success has a final status and every DATA frame of a response that    *)
(* the server has ended, however the frames came.                          *)
THEOREM Http2ResponsesAreWhole == Http2!Spec => []WholeResponse
  <1>1. Http2!Init => WholeInv
    BY EnginesAssumption DEF Http2!Http2Assumption, Http2!Init, WholeInv, StreamsInv,
       UnansweredInv, AnswerInv, SuccessInv
  <1>2. Http2Inv /\ WholeInv /\ [Http2!Next]_(Http2!vars) => WholeInv'
    BY WholeNext, EnginesAssumption
  <1>3. Http2Inv /\ WholeInv => WholeResponse
    BY DEF Http2Inv, WholeInv, SuccessInv, WholeResponse, Http2!WholeResponse
  <1>4. QED
    BY <1>1, <1>2, <1>3, Http2Invariant, PTL DEF Http2!Spec

-----------------------------------------------------------------------------
(* Where the head of a response is, and what its other units are.          *)
Place(p) == IF p.interim THEN 2 ELSE 1
KindAt(p, i) ==
    IF i < Place(p) THEN "interim"
    ELSE IF i = Place(p) THEN "head"
    ELSE IF i <= Place(p) + p.parts THEN "part"
    ELSE IF p.sloppy /\ i = Place(p) + p.parts + 1 THEN "garbage"
    ELSE "end"

(* What was read and what is on its way are the beginning of response R.   *)
Delivers(R) ==
    /\ Len(raw) + Len(conn1.wire) <= Len(R)
    /\ \A i \in 1 .. Len(raw) : raw[i] = R[i]
    /\ \A i \in 1 .. Len(conn1.wire) : conn1.wire[i] = R[Len(raw) + i]

(* While a request waits for its answer, the connection delivers nothing   *)
(* but the beginning of one response to it; before, nothing at all.        *)
DeliveryInv ==
    /\ pc1 \in {"ensure", "write"} => raw = <<>>
    /\ conn1 # None /\ pc1 \in {"idle", "ensure", "write"} => conn1.wire = <<>>
    /\ pc1 \in {"head", "body"} =>
         \E p \in Http1!Plans : Delivers(Http1!Response(req1.number, p))
    /\ pc1 = "head" => Http1!Heads(raw) = {}
    /\ pc1 = "body" => Http1!Heads(raw) # {}

Http1Inv ==
    /\ Http1!OwnWholeResponse /\ DeliveryInv
    /\ pc1 \in {"write", "head", "body"} => conn1 # None
    /\ pc1 # "idle" => req1.number \in 1 .. MaxHttp1Requests /\ result1 = None

(* A response is its interim head, the head, the parts, what does not      *)
(* belong there and the last chunk.                                        *)
LEMMA ResponseShape ==
    ASSUME Http1!Http1Assumption, NEW n \in 1 .. MaxHttp1Requests, NEW p \in Http1!Plans
    PROVE  /\ Http1!Response(n, p) \in Seq(Http1!Units)
           /\ Len(Http1!Response(n, p)) = Place(p) + p.parts + (IF p.sloppy THEN 1 ELSE 0)
                                            + (IF p.framing = "chunked" THEN 1 ELSE 0)
           /\ \A i \in 1 .. Len(Http1!Response(n, p)) :
                 /\ Http1!Response(n, p)[i].of = n /\ Http1!Response(n, p)[i].plan = p
                 /\ Http1!Response(n, p)[i].kind = KindAt(p, i)
  <1> DEFINE u(kind) == [of |-> n, kind |-> kind, plan |-> p]
             interim == IF p.interim THEN <<u("interim")>> ELSE <<>>
             parts == [i \in 1 .. p.parts |-> u("part")]
             garbage == IF p.sloppy THEN <<u("garbage")>> ELSE <<>>
             last == IF p.framing = "chunked" THEN <<u("end")>> ELSE <<>>
             g == IF p.sloppy THEN 1 ELSE 0
             e == IF p.framing = "chunked" THEN 1 ELSE 0
             A == interim \o <<u("head")>>
             B == A \o parts
             C == B \o garbage
  <1>1. /\ p.parts \in Nat /\ p.interim \in BOOLEAN /\ p.sloppy \in BOOLEAN
        /\ Place(p) \in {1, 2} /\ g \in {0, 1} /\ e \in {0, 1}
    BY DEF Http1!Plans, Http1!Http1Assumption, Place
  <1>2. \A kind \in Http1!Kinds : /\ u(kind) \in Http1!Units
                                 /\ u(kind).of = n /\ u(kind).kind = kind /\ u(kind).plan = p
    BY DEF Http1!Units
  <1>3. {u("interim"), u("head"), u("part"), u("garbage"), u("end")} \subseteq Http1!Units
    BY <1>2 DEF Http1!Kinds
  <1> HIDE DEF u
  <1>4. /\ A \in Seq(Http1!Units) /\ Len(A) = Place(p)
        /\ \A i \in 1 .. Len(A) : A[i] = IF i < Place(p) THEN u("interim") ELSE u("head")
    BY <1>1, <1>3 DEF Place
  <1>5. parts \in Seq(Http1!Units) /\ Len(parts) = p.parts
    BY <1>1, <1>3
  <1> HIDE DEF A
  <1>6. /\ B \in Seq(Http1!Units) /\ Len(B) = Place(p) + p.parts
        /\ \A i \in 1 .. Len(B) : B[i] = IF i <= Place(p) THEN A[i] ELSE u("part")
    BY <1>1, <1>4, <1>5
  <1> HIDE DEF B
  <1>7. /\ C \in Seq(Http1!Units) /\ Len(C) = Place(p) + p.parts + g
        /\ \A i \in 1 .. Len(C) : C[i] = IF i <= Place(p) + p.parts THEN B[i] ELSE u("garbage")
    BY <1>1, <1>3, <1>6
  <1> HIDE DEF C
  <1>8. /\ C \o last \in Seq(Http1!Units) /\ Len(C \o last) = Place(p) + p.parts + g + e
        /\ \A i \in 1 .. Len(C \o last) :
              (C \o last)[i] = IF i <= Place(p) + p.parts + g THEN C[i] ELSE u("end")
    BY <1>1, <1>3, <1>7
  <1>9. Http1!Response(n, p) = C \o last
    BY DEF Http1!Response, A, B, C, u
  <1>10. ASSUME NEW i \in 1 .. Len(C \o last) PROVE (C \o last)[i] = u(KindAt(p, i))
    <2> HIDE DEF last, g, e
    <2>0. i \in Nat /\ i >= 1
      BY <1>8
    <2>1. CASE i <= Place(p)
      <3>1. i \in 1 .. Len(A) /\ i \in 1 .. Len(B) /\ i \in 1 .. Len(C)
        BY <1>1, <1>4, <1>6, <1>7, <2>0, <2>1
      <3>2. (C \o last)[i] = C[i] /\ C[i] = B[i] /\ B[i] = A[i]
        BY <1>1, <1>6, <1>7, <1>8, <2>0, <2>1, <3>1
      <3>3. QED
        BY <1>1, <1>4, <2>0, <2>1, <3>1, <3>2 DEF KindAt
    <2>2. CASE i > Place(p) /\ i <= Place(p) + p.parts
      <3>1. i \in 1 .. Len(B) /\ i \in 1 .. Len(C)
        BY <1>1, <1>6, <1>7, <2>0, <2>2
      <3>2. (C \o last)[i] = C[i] /\ C[i] = B[i] /\ B[i] = u("part")
        <4>1. (C \o last)[i] = C[i]
          BY <1>1, <1>7, <1>8, <2>0, <2>2
        <4>2. C[i] = B[i]
          BY <1>7, <2>2, <3>1
        <4>3. B[i] = u("part")
          BY <1>1, <1>6, <2>0, <2>2, <3>1
        <4>4. QED
          BY <4>1, <4>2, <4>3
      <3>3. QED
        BY <1>1, <2>0, <2>2, <3>2 DEF KindAt
    <2>3. CASE i > Place(p) + p.parts /\ i <= Place(p) + p.parts + g
      BY <1>1, <1>7, <1>8, <2>3 DEF KindAt, g
    <2>4. CASE i > Place(p) + p.parts + g
      BY <1>1, <1>8, <2>4 DEF KindAt, g
    <2>5. QED
      BY <1>1, <2>0, <2>1, <2>2, <2>3, <2>4
  <1>11. \A i : KindAt(p, i) \in Http1!Kinds
    BY DEF KindAt, Http1!Kinds
  <1>12. QED
    BY <1>2, <1>8, <1>9, <1>10, <1>11

(* Once the head of a response is read, all the rest is judged by it.      *)
LEMMA HeadRead ==
    ASSUME Http1!Http1Assumption, Http1!TypeOK, req1.number \in 1 .. MaxHttp1Requests,
           NEW p \in Http1!Plans, Delivers(Http1!Response(req1.number, p)), conn1 # None,
           Http1!Heads(raw) # {}
    PROVE  /\ Place(p) \in {1, 2} /\ Place(p) <= Len(raw)
           /\ Http1!HeadAt = Place(p) /\ Http1!Head1 = p
           /\ Http1!Body \in Seq(Http1!Units) /\ Len(Http1!Body) = Len(raw) - Place(p)
           /\ \A i \in 1 .. Len(Http1!Body) : Http1!Body[i].kind = KindAt(p, Place(p) + i)
  <1> DEFINE R == Http1!Response(req1.number, p)
  <1>1. /\ raw \in Seq(Http1!Units) /\ Len(raw) \in Nat /\ Len(conn1.wire) \in Nat
        /\ Place(p) \in {1, 2}
    BY DEF Http1!TypeOK, Http1!Connections, Place
  <1>2. \A i \in 1 .. Len(raw) : raw[i].kind = KindAt(p, i) /\ raw[i].plan = p
    <2>1. R \in Seq(Http1!Units) /\ Len(R) \in Nat
      BY ResponseShape
    <2>2. \A i \in 1 .. Len(raw) : i \in 1 .. Len(R) /\ raw[i] = R[i]
      BY <1>1, <2>1 DEF Delivers
    <2>3. QED
      BY <2>2, ResponseShape
  <1>3. Http1!Heads(raw) = {Place(p)} /\ Place(p) <= Len(raw)
    <2>1. \A i \in 1 .. Len(raw) : raw[i].kind = "head" <=> i = Place(p)
      BY <1>1, <1>2 DEF KindAt
    <2>2. QED
      BY <1>1, <2>1 DEF Http1!Heads
  <1>4. Http1!HeadAt = Place(p)
    BY <1>1, <1>3 DEF Http1!HeadAt
  <1>5. Http1!Head1 = p
    BY <1>1, <1>2, <1>3, <1>4 DEF Http1!Head1
  <1>6. /\ Http1!Body \in Seq(Http1!Units) /\ Len(Http1!Body) = Len(raw) - Place(p)
        /\ \A i \in 1 .. Len(Http1!Body) : Http1!Body[i] = raw[Place(p) + i]
    BY <1>1, <1>3, <1>4 DEF Http1!Body
  <1>7. \A i \in 1 .. Len(Http1!Body) : Http1!Body[i].kind = KindAt(p, Place(p) + i)
    <2>1. \A i \in 1 .. Len(Http1!Body) : Place(p) + i \in 1 .. Len(raw)
      BY <1>1, <1>3, <1>6
    <2>2. QED
      BY <1>2, <1>6, <2>1
  <1>8. QED
    BY <1>1, <1>3, <1>4, <1>5, <1>6, <1>7

LEMMA SameCardinality1 == \A S : Http1!Cardinality(S) = Cardinality(S)
  BY DEF Http1!Cardinality, Cardinality

(* A response that is judged to be good is whole, unless it ends with the  *)
(* connection; and if the connection is kept, nothing of it is to come.    *)
LEMMA JudgedWhole ==
    ASSUME Http1!Http1Assumption, Http1!TypeOK, req1.number \in 1 .. MaxHttp1Requests,
           NEW p \in Http1!Plans, Delivers(Http1!Response(req1.number, p)), conn1 # None,
           Http1!Heads(raw) # {}, Http1!Verdict = "OK"
    PROVE  /\ \A i \in 1 .. Len(raw) : raw[i].of = req1.number
           /\ Http1!Head1.framing # "eof" =>
                Http1!Cardinality({i \in 1 .. Len(raw) : raw[i].kind = "part"}) = Http1!Head1.parts
           /\ Http1!Keeps => conn1.wire = <<>> /\ raw = Http1!Response(req1.number, p)
  <1> DEFINE R == Http1!Response(req1.number, p)
             h == Place(p)
             L == Len(Http1!Body)
             g == IF p.sloppy THEN 1 ELSE 0
             e == IF p.framing = "chunked" THEN 1 ELSE 0
  <1>1. /\ h \in {1, 2} /\ h <= Len(raw) /\ Http1!Head1 = p
        /\ L \in Nat /\ L = Len(raw) - h
        /\ \A i \in 1 .. L : Http1!Body[i].kind = KindAt(p, h + i)
        /\ Http1!Body \in Seq(Http1!Units)
    BY HeadRead
  <1>2. /\ R \in Seq(Http1!Units) /\ Len(R) = h + p.parts + g + e
        /\ \A i \in 1 .. Len(R) : R[i].of = req1.number /\ R[i].kind = KindAt(p, i)
    BY ResponseShape
  <1>3. /\ p.parts \in Nat /\ p.sloppy \in BOOLEAN /\ g \in {0, 1} /\ e \in {0, 1}
        /\ p.framing \in Http1!Framings
        /\ p.framing \in {"none", "invalid"} => p.parts = 0
        /\ p.sloppy => p.framing \in {"none", "chunked"} \/ (p.framing = "length" /\ p.close)
    BY DEF Http1!Plans, Http1!Http1Assumption
  <1>4. /\ raw \in Seq(Http1!Units) /\ Len(raw) \in Nat
        /\ conn1.wire \in Seq(Http1!Units) /\ Len(conn1.wire) \in Nat
        /\ Len(raw) + Len(conn1.wire) <= Len(R)
        /\ \A i \in 1 .. Len(raw) : raw[i] = R[i]
    BY DEF Http1!TypeOK, Http1!Connections, Delivers
  <1> HIDE DEF R, h, L, g, e
  <1>5. \A i \in 1 .. Len(raw) : raw[i].of = req1.number /\ raw[i].kind = KindAt(p, i)
    <2>1. \A i \in 1 .. Len(raw) : i \in 1 .. Len(R)
      BY <1>1, <1>2, <1>3, <1>4
    <2>2. QED
      BY <1>2, <1>4, <2>1
  <1>6. Http1!Head1.framing # "invalid"
    BY DEF Http1!Verdict
  <1>7. CASE p.framing = "eof"
    BY <1>1, <1>5, <1>7 DEF Http1!Keeps
  <1>8. p.framing # "eof" => Len(raw) >= h + p.parts
    <2>1. CASE p.framing = "none"
      BY <1>1, <1>3, <2>1
    <2>2. CASE p.framing = "length"
      <3>1. Http1!LengthVerdict = "OK"
        BY <1>1, <2>2 DEF Http1!Verdict
      <3>2. L = p.parts
        BY <1>1, <3>1 DEF Http1!LengthVerdict, L
      <3>3. QED
        BY <1>1, <1>3, <1>4, <3>2
    <2>3. CASE p.framing = "chunked"
      <3>1. Http1!Chunks = "complete"
        BY <1>1, <2>3 DEF Http1!Verdict
      <3>2. Http1!Stops # {}
        BY <3>1 DEF Http1!Chunks
      <3>3. PICK i \in 1 .. L : Http1!Body[i].kind # "part"
        BY <3>2 DEF Http1!Stops, L
      <3>4. h + i > h + p.parts
        BY <1>1, <1>3, <3>3 DEF KindAt, h
      <3>5. QED
        BY <1>1, <1>3, <1>4, <3>4
    <2>4. QED
      BY <1>1, <1>3, <1>6, <2>1, <2>2, <2>3 DEF Http1!Framings
  <1>9. p.framing # "eof" =>
          Http1!Cardinality({i \in 1 .. Len(raw) : raw[i].kind = "part"}) = Http1!Head1.parts
    <2> SUFFICES ASSUME p.framing # "eof"
                 PROVE  Cardinality({i \in 1 .. Len(raw) : raw[i].kind = "part"}) = p.parts
      BY <1>1, SameCardinality1
    <2>1. \A i \in 1 .. Len(raw) : raw[i].kind = "part" <=> i \in h + 1 .. h + p.parts
      <3> SUFFICES ASSUME NEW i \in 1 .. Len(raw)
                   PROVE  raw[i].kind = "part" <=> i \in h + 1 .. h + p.parts
        OBVIOUS
      <3>1. raw[i].kind = KindAt(p, i) /\ i \in Nat
        BY <1>5
      <3>2. QED
        BY <1>1, <1>3, <3>1 DEF KindAt, h
    <2>2. h + 1 .. h + p.parts \subseteq 1 .. Len(raw)
      BY <1>1, <1>3, <1>4, <1>8
    <2>3. {i \in 1 .. Len(raw) : raw[i].kind = "part"} = h + 1 .. h + p.parts
      BY <2>1, <2>2
    <2>4. Cardinality(h + 1 .. h + p.parts)
            = IF h + 1 > h + p.parts THEN 0 ELSE (h + p.parts) - (h + 1) + 1
      <3>1. h + 1 \in Int /\ h + p.parts \in Int
        BY <1>1, <1>3
      <3>2. QED
        BY <3>1, FS_Interval
    <2>5. QED
      <3>1. (IF h + 1 > h + p.parts THEN 0 ELSE (h + p.parts) - (h + 1) + 1) = p.parts
        BY <1>1, <1>3
      <3>2. QED
        BY <2>3, <2>4, <3>1
  <1>10. Http1!Keeps => Len(raw) = Len(R)
    <2> SUFFICES ASSUME Http1!Keeps PROVE Len(raw) = Len(R)
      OBVIOUS
    <2>1. ~p.close /\ p.framing \in {"length", "chunked"}
      BY <1>1 DEF Http1!Keeps
    <2>2. CASE p.framing = "length"
      BY <1>1, <1>2, <1>3, <1>4, <1>8, <2>1, <2>2 DEF g, e
    <2>3. CASE p.framing = "chunked"
      <3>1. /\ Http1!Chunks = "complete" /\ e = 1
        BY <1>1, <2>3 DEF Http1!Verdict, e
      <3>2. Http1!Stops # {} /\ Http1!Body[Http1!FirstStop].kind = "end"
        BY <3>1 DEF Http1!Chunks
      <3>3. \A i \in 1 .. L : Http1!Body[i].kind # "part" <=> i > p.parts
        <4> SUFFICES ASSUME NEW i \in 1 .. L PROVE Http1!Body[i].kind # "part" <=> i > p.parts
          OBVIOUS
        <4>1. Http1!Body[i].kind = KindAt(p, h + i) /\ i \in Nat /\ i >= 1
          BY <1>1
        <4>2. QED
          BY <1>1, <1>3, <4>1 DEF KindAt, h
      <3>4. Http1!Stops = p.parts + 1 .. L
        BY <1>1, <1>3, <3>3 DEF Http1!Stops, L
      <3>5. Http1!FirstStop = p.parts + 1 /\ p.parts + 1 \in 1 .. L
        BY <1>1, <1>3, <3>2, <3>4 DEF Http1!FirstStop
      <3>6. KindAt(p, h + p.parts + 1) = "end"
        <4>1. Http1!Body[p.parts + 1].kind = KindAt(p, h + (p.parts + 1))
          BY <1>1, <3>5
        <4>2. h + (p.parts + 1) = h + p.parts + 1
          BY <1>1, <1>3
        <4>3. QED
          BY <3>2, <3>5, <4>1, <4>2
      <3>7. ~p.sloppy
        BY <1>1, <1>3, <3>6 DEF KindAt, h
      <3>8. QED
        BY <1>1, <1>2, <1>3, <1>4, <3>1, <3>5, <3>7 DEF g
    <2>4. QED
      BY <2>1, <2>2, <2>3
  <1>11. Http1!Keeps => conn1.wire = <<>> /\ raw = R
    BY <1>2, <1>4, <1>10
  <1>12. QED
    BY <1>1, <1>5, <1>7, <1>9, <1>11 DEF R

(* A blocking call, for as long as its request is followed.                *)
LEMMA BlocksType ==
    ASSUME Http1!Http1Assumption, spent \in 0 .. MaxSpent, NEW t \in Nat, Http1!Blocks(t)
    PROVE  spent' \in 0 .. MaxSpent
  BY DEF Http1!Http1Assumption, Http1!Blocks, Http1!AtMost

(* A new engine.                                                           *)
LEMMA Http1Init == Http1!Http1Assumption /\ Http1!Init => Http1Inv
  <1> SUFFICES ASSUME Http1!Http1Assumption, Http1!Init PROVE Http1Inv
    OBVIOUS
  <1>1. Http1!TypeOK
    <2>1. 0 \in 0 .. MaxHttp1Requests /\ 0 \in 0 .. MaxSpent
      BY DEF Http1!Http1Assumption
    <2>2. raw \in Seq(Http1!Units)
      BY DEF Http1!Init
    <2>3. QED
      BY <2>1, <2>2 DEF Http1!Init, Http1!TypeOK
  <1>2. result1 # "OK"
    BY DEF Http1!Init, Http1!Http1Assumption, Http1!Results
  <1>3. DeliveryInv
    BY DEF Http1!Init, DeliveryInv
  <1>4. QED
    BY <1>1, <1>2, <1>3 DEF Http1!Init, Http1Inv, Http1!OwnWholeResponse

(* A failure closes the connection.                                        *)
LEMMA Http1Fails ==
    ASSUME Http1!Http1Assumption, Http1Inv, pc1 # "idle", spent' \in 0 .. MaxSpent,
           NEW e \in Http1!Results \ {"OK"}, Http1!Fail(e), UNCHANGED <<req1, raw>>
    PROVE  Http1Inv'
  <1>1. pc1' = "idle" /\ result1' = e /\ conn1' = None
    BY DEF Http1!Fail, Http1!Return
  <1>2. Http1!TypeOK'
    BY <1>1 DEF Http1Inv, Http1!OwnWholeResponse, Http1!TypeOK
  <1>3. QED
    BY <1>1, <1>2 DEF Http1Inv, Http1!OwnWholeResponse, DeliveryInv

(* request gets mutex_, and finds or opens a connection on which nothing   *)
(* is on its way.                                                          *)
LEMMA Http1Connects ==
    ASSUME Http1!Http1Assumption, Http1Inv,
           \/ \E k \in Keys, t \in Timeouts : Http1!Begin(k, t)
           \/ Http1!Reuse \/ Http1!Connect
    PROVE  Http1Inv'
  <1>1. ASSUME NEW k \in Keys, NEW t \in Timeouts, Http1!Begin(k, t)
        PROVE  Http1Inv'
    <2>1. /\ req1' = [number |-> req1.number + 1, key |-> k, timeout |-> t]
          /\ pc1 = "idle" /\ pc1' = "ensure" /\ raw' = <<>> /\ spent' = 0 /\ result1' = None
          /\ conn1' = conn1 /\ req1.number < MaxHttp1Requests
      BY <1>1 DEF Http1!Begin
    <2>2. /\ req1.number + 1 \in 1 .. MaxHttp1Requests
          /\ req1.number + 1 \in 0 .. MaxHttp1Requests /\ 0 \in 0 .. MaxSpent
      BY <2>1 DEF Http1Inv, Http1!OwnWholeResponse, Http1!TypeOK, Http1!Http1Assumption
    <2>3. Http1!TypeOK'
      BY <2>1, <2>2 DEF Http1Inv, Http1!OwnWholeResponse, Http1!TypeOK
    <2>4. result1' # "OK"
      BY <2>1 DEF Http1!Http1Assumption, Http1!Results
    <2>5. DeliveryInv'
      BY <2>1 DEF Http1Inv, DeliveryInv
    <2>6. QED
      BY <2>1, <2>2, <2>3, <2>4, <2>5 DEF Http1Inv, Http1!OwnWholeResponse
  <1>2. CASE Http1!Reuse
    <2>1. /\ pc1 = "ensure" /\ pc1' = "write" /\ conn1 # None
          /\ UNCHANGED <<conn1, req1, raw, spent, result1>>
      BY <1>2 DEF Http1!Reuse, Http1!Same
    <2>2. Http1!TypeOK' /\ result1' # "OK"
      BY <2>1 DEF Http1Inv, Http1!OwnWholeResponse, Http1!TypeOK, Http1!Http1Assumption,
         Http1!Results
    <2>3. DeliveryInv'
      BY <2>1 DEF Http1Inv, DeliveryInv
    <2>4. QED
      BY <2>1, <2>2, <2>3 DEF Http1Inv, Http1!OwnWholeResponse
  <1>3. CASE Http1!Connect
    <2> DEFINE new == [key |-> req1.key, timeout |-> req1.timeout, wire |-> <<>>, eof |-> FALSE]
    <2>1. /\ pc1 = "ensure" /\ UNCHANGED <<req1, raw>> /\ spent' \in 0 .. MaxSpent
      <3>1. 2 * req1.timeout \in Nat /\ spent \in 0 .. MaxSpent
        <4>1. req1.timeout \in Nat /\ spent \in 0 .. MaxSpent
          BY DEF Http1Inv, Http1!OwnWholeResponse, Http1!TypeOK, Http1!Http1Assumption
        <4>2. QED
          BY <4>1
      <3>2. QED
        BY <1>3, <3>1, BlocksType DEF Http1!Connect
    <2>2. CASE conn1' = new /\ pc1' = "write" /\ UNCHANGED result1
      <3>1. new \in Http1!Connections
        BY DEF Http1Inv, Http1!OwnWholeResponse, Http1!TypeOK, Http1!Connections
      <3>2. conn1' # None /\ conn1'.wire = <<>>
        BY <2>2, <3>1 DEF Http1!Http1Assumption
      <3>3. Http1!TypeOK' /\ result1' # "OK"
        BY <2>1, <2>2, <3>1 DEF Http1Inv, Http1!OwnWholeResponse, Http1!TypeOK,
           Http1!Http1Assumption, Http1!Results
      <3>4. DeliveryInv'
        BY <2>1, <2>2, <3>2 DEF Http1Inv, DeliveryInv
      <3>5. QED
        BY <2>1, <2>2, <3>2, <3>3, <3>4 DEF Http1Inv, Http1!OwnWholeResponse
    <2>3. CASE \E e \in {"CONNECT", "TLS", "OUT_OF_MEMORY"} : Http1!Fail(e)
      BY <2>1, <2>3, Http1Fails DEF Http1!Results
    <2>4. QED
      BY <1>3, <2>2, <2>3 DEF Http1!Connect
  <1>4. QED
    BY <1>1, <1>2, <1>3

(* A response begins: its first n units are on their way, and nothing was  *)
(* before them.                                                            *)
LEMMA Http1Writes ==
    ASSUME Http1!Http1Assumption, Http1Inv, NEW p \in Http1!Plans, NEW n \in Nat,
           NEW closes \in BOOLEAN, Http1!Write(p, n, closes)
    PROVE  Http1Inv'
  <1> DEFINE R == Http1!Response(req1.number, p)
             wire == IF conn1.eof THEN conn1.wire ELSE conn1.wire \o SubSeq(R, 1, n)
  <1>1. /\ conn1 \in Http1!Connections /\ conn1 # None /\ conn1.wire = <<>> /\ raw = <<>>
        /\ pc1 = "write" /\ pc1' = "head" /\ UNCHANGED <<req1, raw, result1>>
        /\ n <= Len(R) /\ req1.number \in 1 .. MaxHttp1Requests /\ result1 = None
    BY DEF Http1Inv, Http1!OwnWholeResponse, DeliveryInv, Http1!TypeOK, Http1!Write
  <1>2. R \in Seq(Http1!Units) /\ Len(R) \in Nat
    BY <1>1, ResponseShape
  <1> HIDE DEF R
  <1>3. /\ wire \in Seq(Http1!Units) /\ Len(wire) <= Len(R)
        /\ \A i \in 1 .. Len(wire) : wire[i] = R[i]
    <2>1. CASE conn1.eof
      BY <1>1, <1>2, <2>1
    <2>2. CASE ~conn1.eof
      <3>1. /\ SubSeq(R, 1, n) \in Seq(Http1!Units) /\ Len(SubSeq(R, 1, n)) = n
            /\ \A i \in 1 .. n : SubSeq(R, 1, n)[i] = R[i]
        BY <1>1, <1>2
      <3>2. wire = SubSeq(R, 1, n)
        BY <1>1, <2>2, <3>1
      <3>3. QED
        BY <1>1, <3>1, <3>2
    <2>3. QED
      BY <2>1, <2>2
  <1>4. conn1' = [conn1 EXCEPT !.wire = wire, !.eof = @ \/ closes]
    BY DEF Http1!Write, R
  <1> HIDE DEF wire
  <1>5. conn1' \in Http1!Connections /\ conn1'.wire = wire /\ conn1' # None
    BY <1>1, <1>3, <1>4 DEF Http1!Connections, Http1!Http1Assumption
  <1>6. spent' \in 0 .. MaxSpent
    <2>1. conn1.timeout \in Nat /\ spent \in 0 .. MaxSpent
      BY <1>1 DEF Http1Inv, Http1!OwnWholeResponse, Http1!TypeOK, Http1!Connections,
         Http1!Http1Assumption
    <2>2. QED
      BY <2>1, BlocksType DEF Http1!Write
  <1>7. Http1!TypeOK' /\ result1' # "OK"
    BY <1>1, <1>5, <1>6 DEF Http1Inv, Http1!OwnWholeResponse, Http1!TypeOK,
       Http1!Http1Assumption, Http1!Results
  <1>8. Delivers(R)'
    <2>1. Len(raw) = 0
      BY <1>1
    <2>2. QED
      BY <1>1, <1>2, <1>3, <1>5, <2>1 DEF Delivers, R
  <1>9. DeliveryInv'
    <2>1. Http1!Heads(raw) = {}
      BY <1>1 DEF Http1!Heads
    <2>2. QED
      BY <1>1, <1>5, <1>8, <2>1 DEF DeliveryInv, Http1!Heads, R
  <1>10. QED
    BY <1>1, <1>5, <1>7, <1>9 DEF Http1Inv, Http1!OwnWholeResponse

(* What is left of a sequence when its first n elements are taken.         *)
LEMMA RestOfSequence ==
    ASSUME NEW S, NEW s \in Seq(S), NEW n \in Nat, n <= Len(s)
    PROVE  /\ SubSeq(s, n + 1, Len(s)) \in Seq(S)
           /\ Len(SubSeq(s, n + 1, Len(s))) = Len(s) - n
           /\ \A i \in 1 .. Len(s) - n : SubSeq(s, n + 1, Len(s))[i] = s[n + i]
  <1>1. Len(s) \in Nat /\ n + 1 \in 1 .. Len(s) + 1
    OBVIOUS
  <1>2. Len(SubSeq(s, n + 1, Len(s))) = Len(s) - n
    BY <1>1
  <1>3. \A i \in 1 .. Len(s) - n : SubSeq(s, n + 1, Len(s))[i] = s[n + i]
    BY <1>1
  <1>4. SubSeq(s, n + 1, Len(s)) \in Seq(S)
    BY <1>1
  <1>5. QED
    BY <1>2, <1>3, <1>4

(* What is read was on its way.                                            *)
LEMMA Http1Reads ==
    ASSUME Http1!Http1Assumption, Http1Inv, NEW n \in Nat,
           Http1!ReadHead(n) \/ Http1!ReadBody(n)
    PROVE  Http1Inv'
  <1>1. /\ conn1 \in Http1!Connections /\ conn1 # None /\ raw \in Seq(Http1!Units)
        /\ pc1 \in {"head", "body"} /\ req1.number \in 1 .. MaxHttp1Requests
        /\ result1 = None /\ UNCHANGED <<req1, result1>> /\ Http1!Read(n)
    BY DEF Http1Inv, Http1!OwnWholeResponse, Http1!TypeOK, Http1!ReadHead, Http1!ReadBody
  <1> DEFINE w == conn1.wire
             first == SubSeq(w, 1, n)
             rest == SubSeq(w, n + 1, Len(w))
  <1>2. /\ w \in Seq(Http1!Units) /\ n \in 1 .. Len(w) /\ Len(w) \in Nat
        /\ raw' = raw \o first /\ conn1' = [conn1 EXCEPT !.wire = rest]
    BY <1>1 DEF Http1!Read, Http1!Connections
  <1> HIDE DEF w
  <1>3. /\ first \in Seq(Http1!Units) /\ Len(first) = n
        /\ \A i \in 1 .. n : first[i] = w[i]
    BY <1>2
  <1>4. /\ rest \in Seq(Http1!Units) /\ Len(rest) = Len(w) - n
        /\ \A i \in 1 .. Len(rest) : rest[i] = w[n + i]
    <2>1. n \in Nat /\ n <= Len(w) /\ w \in Seq(Http1!Units)
      BY <1>2
    <2>2. QED
      BY <2>1, RestOfSequence
  <1> HIDE DEF first, rest
  <1>5. /\ raw' \in Seq(Http1!Units) /\ Len(raw') = Len(raw) + n /\ Len(raw) \in Nat
        /\ \A i \in 1 .. Len(raw) : raw'[i] = raw[i]
        /\ \A i \in 1 .. n : raw'[Len(raw) + i] = w[i]
    <2>1. /\ raw' \in Seq(Http1!Units) /\ Len(raw') = Len(raw) + n /\ Len(raw) \in Nat
          /\ \A i \in 1 .. Len(raw) : raw'[i] = raw[i]
      <3>1. raw \in Seq(Http1!Units) /\ first \in Seq(Http1!Units) /\ Len(first) = n /\ n \in Nat
        BY <1>1, <1>3
      <3>2. /\ raw \o first \in Seq(Http1!Units) /\ Len(raw \o first) = Len(raw) + Len(first)
            /\ Len(raw) \in Nat
            /\ \A i \in 1 .. Len(raw) : (raw \o first)[i] = raw[i]
        BY <3>1
      <3>3. QED
        BY <1>2, <3>1, <3>2
    <2>2. ASSUME NEW i \in 1 .. n PROVE raw'[Len(raw) + i] = w[i]
      <3>1. raw'[Len(raw) + i] = first[i]
        BY <1>1, <1>2, <1>3
      <3>2. QED
        BY <1>3, <3>1
    <2>3. QED
      BY <2>1, <2>2
  <1>6. conn1' \in Http1!Connections /\ conn1'.wire = rest /\ conn1' # None
    BY <1>1, <1>2, <1>4 DEF Http1!Connections, Http1!Http1Assumption
  <1>7. spent' \in 0 .. MaxSpent
    <2>1. conn1.timeout \in Nat /\ spent \in 0 .. MaxSpent
      BY <1>1 DEF Http1Inv, Http1!OwnWholeResponse, Http1!TypeOK, Http1!Connections,
         Http1!Http1Assumption
    <2>2. QED
      BY <1>1, <2>1, BlocksType DEF Http1!Read
  <1>8. pc1' \in {"head", "body"} /\ (pc1' = "head" <=> Http1!Heads(raw') = {})
    <2>1. CASE Http1!ReadHead(n)
      BY <2>1 DEF Http1!ReadHead
    <2>2. CASE Http1!ReadBody(n)
      <3>1. pc1 = "body" /\ pc1' = "body" /\ Http1!Heads(raw) # {}
        BY <2>2 DEF Http1!ReadBody, Http1Inv, DeliveryInv
      <3>2. PICK i \in 1 .. Len(raw) : raw[i].kind = "head"
        BY <3>1 DEF Http1!Heads
      <3>3. i \in 1 .. Len(raw') /\ raw'[i].kind = "head"
        BY <1>2, <1>5, <3>2
      <3>4. QED
        BY <3>1, <3>3 DEF Http1!Heads
    <2>3. QED
      BY <2>1, <2>2
  <1>9. Http1!TypeOK' /\ result1' # "OK"
    BY <1>1, <1>5, <1>6, <1>7, <1>8 DEF Http1Inv, Http1!OwnWholeResponse, Http1!TypeOK,
       Http1!Http1Assumption, Http1!Results
  <1>10. \E p \in Http1!Plans : Delivers(Http1!Response(req1.number, p))'
    <2>1. PICK p \in Http1!Plans : Delivers(Http1!Response(req1.number, p))
      BY <1>1 DEF Http1Inv, DeliveryInv
    <2> DEFINE R == Http1!Response(req1.number, p)
    <2>2. /\ Len(raw) + Len(w) <= Len(R)
          /\ \A i \in 1 .. Len(raw) : raw[i] = R[i]
          /\ \A i \in 1 .. Len(w) : w[i] = R[Len(raw) + i]
      BY <2>1 DEF Delivers, w
    <2>3. R' = R
      BY <1>1 DEF Http1!Response
    <2> HIDE DEF R
    <2>4. \A i \in 1 .. Len(raw') : raw'[i] = R[i]
      <3> SUFFICES ASSUME NEW i \in 1 .. Len(raw') PROVE raw'[i] = R[i]
        OBVIOUS
      <3>1. CASE i \in 1 .. Len(raw)
        BY <1>5, <2>2, <3>1
      <3>2. CASE i > Len(raw)
        <4>1. /\ i - Len(raw) \in 1 .. n /\ i - Len(raw) \in 1 .. Len(w)
              /\ Len(raw) + (i - Len(raw)) = i
          BY <1>2, <1>5, <3>2
        <4>2. QED
          BY <1>5, <2>2, <4>1
      <3>3. QED
        BY <1>5, <3>1, <3>2
    <2>5. \A i \in 1 .. Len(rest) : rest[i] = R[Len(raw') + i]
      <3> SUFFICES ASSUME NEW i \in 1 .. Len(rest) PROVE rest[i] = R[Len(raw') + i]
        OBVIOUS
      <3>1. n + i \in 1 .. Len(w) /\ Len(raw) + (n + i) = Len(raw') + i
        BY <1>2, <1>4, <1>5
      <3>2. QED
        BY <1>4, <2>2, <3>1
    <2>6. Len(raw') + Len(rest) <= Len(R)
      BY <1>2, <1>4, <1>5, <2>2
    <2>7. Delivers(R)'
      BY <1>6, <2>3, <2>4, <2>5, <2>6 DEF Delivers
    <2>8. QED
      BY <2>7 DEF R
  <1>11. DeliveryInv'
    BY <1>8, <1>10 DEF DeliveryInv
  <1>12. QED
    BY <1>1, <1>6, <1>8, <1>9, <1>11 DEF Http1Inv, Http1!OwnWholeResponse

(* The judgement of a response: what is kept has nothing more to deliver.  *)
LEMMA Http1Concludes ==
    ASSUME Http1!Http1Assumption, Http1Inv, Http1!Conclude
    PROVE  Http1Inv'
  <1>1. /\ conn1 \in Http1!Connections /\ conn1 # None /\ pc1 = "body"
        /\ req1.number \in 1 .. MaxHttp1Requests /\ Http1!TypeOK /\ UNCHANGED <<req1, raw>>
        /\ Http1!Heads(raw) # {}
    BY DEF Http1Inv, Http1!OwnWholeResponse, Http1!TypeOK, DeliveryInv, Http1!Conclude
  <1>2. spent' \in 0 .. MaxSpent
    <2>1. conn1.timeout \in Nat /\ spent \in 0 .. MaxSpent
      BY <1>1 DEF Http1!TypeOK, Http1!Connections, Http1!Http1Assumption
    <2>2. QED
      BY <2>1, BlocksType DEF Http1!Conclude
  <1>3. PICK p \in Http1!Plans : Delivers(Http1!Response(req1.number, p))
    BY <1>1 DEF Http1Inv, DeliveryInv
  <1>4. CASE Http1!Verdict = "OK"
    <2>1. /\ \A i \in 1 .. Len(raw) : raw[i].of = req1.number
          /\ Http1!Head1.framing # "eof" =>
               Http1!Cardinality({i \in 1 .. Len(raw) : raw[i].kind = "part"}) = Http1!Head1.parts
          /\ Http1!Keeps => conn1.wire = <<>>
      BY <1>1, <1>3, <1>4, JudgedWhole
    <2>2. /\ pc1' = "idle" /\ result1' = "OK" /\ conn1' = IF Http1!Keeps THEN conn1 ELSE None
      BY <1>4 DEF Http1!Conclude, Http1!Return
    <2>3. Http1!TypeOK'
      BY <1>1, <1>2, <2>2 DEF Http1!TypeOK, Http1!Results
    <2>4. DeliveryInv'
      BY <2>1, <2>2 DEF DeliveryInv
    <2>5. Http1!Head1' = Http1!Head1
      BY <1>1 DEF Http1!Head1, Http1!HeadAt, Http1!Heads
    <2>6. QED
      BY <1>1, <2>1, <2>2, <2>3, <2>4, <2>5, SameCardinality1 DEF Http1Inv, Http1!OwnWholeResponse
  <1>5. CASE Http1!Verdict # "OK"
    <2>1. Http1!Verdict \in Http1!Results
      <3>1. Http1!Head1 = p
        BY <1>1, <1>3, HeadRead
      <3>2. Http1!Head1.framing \in Http1!Framings
        BY <3>1 DEF Http1!Plans
      <3>3. QED
        BY <3>2 DEF Http1!Verdict, Http1!LengthVerdict, Http1!Results, Http1!Framings
    <2>2. Http1!Fail(Http1!Verdict)
      BY <1>5 DEF Http1!Conclude
    <2>3. QED
      BY <1>1, <1>2, <1>5, <2>1, <2>2, Http1Fails
  <1>6. QED
    BY <1>4, <1>5

LEMMA Http1Next ==
    Http1!Http1Assumption /\ Http1Inv /\ [Http1!Next]_(Http1!vars) => Http1Inv'
  <1> SUFFICES ASSUME Http1!Http1Assumption, Http1Inv, [Http1!Next]_(Http1!vars)
               PROVE  Http1Inv'
    OBVIOUS
  <1>1. CASE Http1!Refuse \/ Http1!WriteFails \/ Http1!ReadHeadFails
    <2>1. /\ pc1 # "idle" /\ Http1!Fail("PROTOCOL") /\ UNCHANGED <<req1, raw>>
          /\ "PROTOCOL" \in Http1!Results \ {"OK"}
      BY <1>1 DEF Http1!Refuse, Http1!WriteFails, Http1!ReadHeadFails, Http1!Results
    <2>2. spent' \in 0 .. MaxSpent
      <3>1. spent \in 0 .. MaxSpent
        BY DEF Http1Inv, Http1!OwnWholeResponse, Http1!TypeOK
      <3>2. CASE Http1!Refuse
        BY <3>1, <3>2 DEF Http1!Refuse
      <3>3. CASE Http1!WriteFails \/ Http1!ReadHeadFails
        <4>1. conn1.timeout \in Nat
          BY <3>3 DEF Http1!WriteFails, Http1!ReadHeadFails, Http1Inv,
             Http1!OwnWholeResponse, Http1!TypeOK, Http1!Connections, Http1!Http1Assumption
        <4>2. QED
          BY <3>1, <3>3, <4>1, BlocksType DEF Http1!WriteFails, Http1!ReadHeadFails
      <3>4. QED
        BY <1>1, <3>2, <3>3
    <2>3. QED
      BY <2>1, <2>2, Http1Fails
  <1>2. CASE Http1!MigrateConnection
    <2>1. /\ pc1 = "idle" /\ conn1' = None /\ UNCHANGED <<pc1, req1, raw, spent, result1>>
      BY <1>2 DEF Http1!MigrateConnection
    <2>2. QED
      BY <2>1 DEF Http1Inv, Http1!OwnWholeResponse, Http1!TypeOK, DeliveryInv, Http1!Head1,
         Http1!HeadAt, Http1!Heads
  <1>3. CASE Http1!ServerCloses
    <2>1. /\ pc1 = "idle" /\ conn1 # None /\ conn1' = [conn1 EXCEPT !.eof = TRUE]
          /\ UNCHANGED <<pc1, req1, raw, spent, result1>>
      BY <1>3 DEF Http1!ServerCloses
    <2>2. conn1' \in Http1!Connections /\ conn1'.wire = conn1.wire /\ conn1' # None
      BY <2>1 DEF Http1Inv, Http1!OwnWholeResponse, Http1!TypeOK, Http1!Connections,
         Http1!Http1Assumption
    <2>3. QED
      BY <2>1, <2>2 DEF Http1Inv, Http1!OwnWholeResponse, Http1!TypeOK, DeliveryInv,
         Http1!Head1, Http1!HeadAt, Http1!Heads
  <1>4. CASE UNCHANGED Http1!vars
    BY <1>4 DEF Http1!vars, Http1Inv, Http1!OwnWholeResponse, Http1!TypeOK, DeliveryInv,
       Http1!Head1, Http1!HeadAt, Http1!Heads, Delivers
  <1>5. MaxParts + 4 \in Nat
    BY DEF Http1!Http1Assumption
  <1>6. QED
    BY <1>1, <1>2, <1>3, <1>4, <1>5, Http1Connects, Http1Writes, Http1Reads, Http1Concludes
       DEF Http1!Next, Http1!MaxUnits

THEOREM Http1Invariant == Http1!Spec => []Http1Inv
  <1>1. Http1!Init => Http1Inv
    BY Http1Init, EnginesAssumption
  <1>2. Http1Inv /\ [Http1!Next]_(Http1!vars) => Http1Inv'
    BY Http1Next, EnginesAssumption
  <1>3. QED
    BY <1>1, <1>2, PTL DEF Http1!Spec

(* A response that counts as a success is the request's own, and whole.    *)
THEOREM OwnResponsesAreWhole == Http1!Spec => []OwnWholeResponse
  <1>1. Http1Inv => OwnWholeResponse
    BY DEF Http1Inv, OwnWholeResponse
  <1>2. QED
    BY <1>1, Http1Invariant, PTL

-----------------------------------------------------------------------------
(* In a typed state ReusedConn is a connection exactly if conn is one.     *)
LEMMA ReusedConnType1 ==
    ASSUME Http1!Http1Assumption, Http1!TypeOK
    PROVE  /\ conn1 = None <=> Http1!ReusedConn = None
           /\ conn1 # None => /\ conn1 \in Http1!Connections
                             /\ Http1!ReusedConn = [key |-> conn1.key, use |-> Http1!Use]
                             /\ Http1!ReusedConn.key = conn1.key
                             /\ Http1!ReusedConn.use = Http1!Use
           /\ req1.key \in Keys /\ req1.key # None
  <1>1. Http1!Use \in {"unused", "busy", "answered"}
    BY DEF Http1!Use
  <1>2. conn1 # None => conn1.key \in Keys
    BY DEF Http1!TypeOK, Http1!Connections
  <1>3. conn1 # None => [key |-> conn1.key, use |-> Http1!Use] # None
    BY <1>1, <1>2 DEF Http1!Http1Assumption
  <1>4. req1.key \in Keys /\ req1.key # None
    BY DEF Http1!TypeOK, Http1!Http1Assumption
  <1>5. QED
    BY <1>2, <1>3, <1>4 DEF Http1!ReusedConn, Http1!TypeOK

(* The steps of ConnectionReuse, by what they do to the two.               *)
LEMMA Http1ReturnStep ==
    ASSUME Http1!AskedKey # None, Http1!AskedKey' = None,
           \/ Http1!ReusedConn' = None
           \/ /\ Http1!ReusedConn # None /\ Http1!ReusedConn.use \in {"unused", "answered"}
              /\ Http1!ReusedConn' = [key |-> Http1!ReusedConn.key, use |-> "unused"]
    PROVE  Http1!Connection!Next
  BY DEF Http1!Connection!Next, Http1!Connection!Return, Http1!Connection!Conn

LEMMA Http1OpenStep ==
    ASSUME Http1!AskedKey # None, Http1!AskedKey' = Http1!AskedKey,
           Http1!ReusedConn = None \/ Http1!ReusedConn.use = "unused",
           Http1!ReusedConn' = [key |-> Http1!AskedKey, use |-> "busy"]
    PROVE  Http1!Connection!Next
  BY DEF Http1!Connection!Next, Http1!Connection!Open, Http1!Connection!Unused,
     Http1!Connection!Conn

(* A request begins, and finds its connection or opens one.                *)
LEMMA Http1BeginRefines ==
    ASSUME Http1!Http1Assumption, Http1Inv, Http1Inv',
           \/ \E k \in Keys, t \in Timeouts : Http1!Begin(k, t)
           \/ Http1!Reuse \/ Http1!Connect
    PROVE  Http1!Connection!Next
  <1>0. Http1!TypeOK /\ Http1!TypeOK'
    BY DEF Http1Inv, Http1!OwnWholeResponse
  <1> USE ReusedConnType1
  <1>1. ASSUME NEW k \in Keys, NEW t \in Timeouts, Http1!Begin(k, t)
        PROVE  Http1!Connection!Next
    <2>1. Http1!AskedKey = None /\ Http1!AskedKey' = k
      BY <1>1 DEF Http1!AskedKey, Http1!Begin
    <2>2. Http1!ReusedConn' = Http1!ReusedConn
      BY <1>1 DEF Http1!ReusedConn, Http1!Use, Http1!Begin
    <2>3. QED
      BY <2>1, <2>2 DEF Http1!Connection!Next, Http1!Connection!Ask
  <1>2. CASE /\ pc1 = "ensure" /\ pc1' = "write"
             /\ conn1' # None /\ conn1'.key = req1.key /\ req1' = req1
    <2>1. Http1!AskedKey = req1.key /\ Http1!AskedKey # None /\ Http1!AskedKey' = Http1!AskedKey
      BY <1>0, <1>2 DEF Http1!AskedKey
    <2>2. Http1!Use = "unused" /\ Http1!Use' = "busy"
      BY <1>2 DEF Http1!Use, Http1!Answered
    <2>3. Http1!ReusedConn = None \/ Http1!ReusedConn.use = "unused"
      BY <1>0, <2>2
    <2>4. Http1!ReusedConn' = [key |-> Http1!AskedKey, use |-> "busy"]
      BY <1>2, <2>1, <2>2 DEF Http1!ReusedConn
    <2>5. QED
      BY <2>1, <2>3, <2>4, Http1OpenStep
  <1>3. CASE Http1!Reuse
    BY <1>2, <1>3 DEF Http1!Reuse, Http1!Same
  <1>4. CASE Http1!Connect
    <2>1. CASE \E e \in {"CONNECT", "TLS", "OUT_OF_MEMORY"} : Http1!Fail(e)
      <3>1. pc1 = "ensure" /\ pc1' = "idle" /\ conn1' = None
        BY <1>4, <2>1 DEF Http1!Connect, Http1!Fail, Http1!Return
      <3>2. Http1!AskedKey # None /\ Http1!AskedKey' = None /\ Http1!ReusedConn' = None
        BY <1>0, <3>1 DEF Http1!AskedKey, Http1!ReusedConn
      <3>3. QED
        BY <3>2, Http1ReturnStep
    <2>2. CASE /\ conn1' = [key |-> req1.key, timeout |-> req1.timeout, wire |-> <<>>,
                             eof |-> FALSE]
               /\ pc1' = "write"
      <3>1. conn1' # None
        BY <2>2 DEF Http1Inv
      <3>2. conn1'.key = req1.key
        BY <2>2
      <3>3. QED
        BY <1>2, <1>4, <2>2, <3>1, <3>2 DEF Http1!Connect
    <2>3. QED
      BY <1>4, <2>1, <2>2 DEF Http1!Connect
  <1>5. QED
    BY <1>1, <1>3, <1>4

(* A request returns: a connection is kept only when all of its answer     *)
(* has been taken.                                                         *)
LEMMA Http1ReturnRefines ==
    ASSUME Http1!Http1Assumption, Http1Inv, Http1Inv',
           \/ Http1!Refuse \/ Http1!WriteFails \/ Http1!ReadHeadFails \/ Http1!Conclude
    PROVE  Http1!Connection!Next
  <1>0. Http1!TypeOK /\ Http1!TypeOK' /\ pc1 # "idle"
    BY DEF Http1Inv, Http1!OwnWholeResponse, Http1!Refuse, Http1!WriteFails,
       Http1!ReadHeadFails, Http1!Conclude
  <1> USE ReusedConnType1
  <1>1. CASE pc1' = "idle" /\ conn1' = None
    <2>1. Http1!AskedKey # None /\ Http1!AskedKey' = None /\ Http1!ReusedConn' = None
      BY <1>0, <1>1 DEF Http1!AskedKey, Http1!ReusedConn
    <2>2. QED
      BY <2>1, Http1ReturnStep
  <1>2. CASE Http1!Conclude /\ Http1!Verdict = "OK" /\ Http1!Keeps
    <2>1. /\ pc1 = "body" /\ pc1' = "idle" /\ conn1' = conn1 /\ UNCHANGED <<req1, raw>>
      BY <1>2 DEF Http1!Conclude, Http1!Return
    <2>2. /\ conn1 # None /\ conn1 \in Http1!Connections
          /\ req1.number \in 1 .. MaxHttp1Requests /\ Http1!Heads(raw) # {}
      BY <2>1 DEF Http1Inv, DeliveryInv, Http1!OwnWholeResponse, Http1!TypeOK
    <2>3. PICK p \in Http1!Plans : Delivers(Http1!Response(req1.number, p))
      BY <2>1 DEF Http1Inv, DeliveryInv
    <2>4. conn1.wire = <<>> /\ raw = Http1!Response(req1.number, p)
      BY <1>0, <1>2, <2>2, <2>3, JudgedWhole
    <2>5. Http1!Answered
      <3>1. Place(p) \in 1 .. Len(raw) /\ raw[Place(p)].plan = p
        <4>1. /\ Http1!Head1 = p /\ Http1!HeadAt = Place(p)
              /\ Place(p) \in {1, 2} /\ Place(p) <= Len(raw)
          BY <1>0, <2>2, <2>3, HeadRead
        <4>2. raw \in Seq(Http1!Units)
          BY <1>0 DEF Http1!TypeOK
        <4>3. QED
          BY <4>1, <4>2 DEF Http1!Head1
      <3>2. QED
        BY <2>1, <2>4, <3>1 DEF Http1!Answered
    <2>6. Http1!Use = "answered" /\ Http1!Use' = "unused"
      BY <2>1, <2>5 DEF Http1!Use
    <2>7. /\ Http1!ReusedConn # None /\ Http1!ReusedConn.use = "answered"
          /\ Http1!ReusedConn.key = conn1.key
      BY <1>0, <2>2, <2>6
    <2>8. Http1!ReusedConn' = [key |-> Http1!ReusedConn.key, use |-> "unused"]
      BY <2>1, <2>2, <2>6, <2>7 DEF Http1!ReusedConn
    <2>9. Http1!AskedKey # None /\ Http1!AskedKey' = None
      BY <1>0, <2>1 DEF Http1!AskedKey
    <2>10. QED
      BY <2>7, <2>8, <2>9, Http1ReturnStep
  <1>3. QED
    BY <1>1, <1>2 DEF Http1!Refuse, Http1!WriteFails, Http1!ReadHeadFails, Http1!Conclude,
       Http1!Fail, Http1!Return

(* A read completes the answer, or is none of the connection's; once the   *)
(* answer is complete there is nothing to read.                            *)
LEMMA Http1ReadRefines ==
    ASSUME Http1!Http1Assumption, Http1Inv, Http1Inv', NEW n \in Nat,
           Http1!ReadHead(n) \/ Http1!ReadBody(n)
    PROVE  [Http1!Connection!Next]_(Http1!Connection!vars)
  <1>0. /\ Http1!TypeOK /\ Http1!TypeOK' /\ pc1 \in {"head", "body"} /\ pc1' \in {"head", "body"}
        /\ req1' = req1 /\ n \in 1 .. Len(conn1.wire)
        /\ conn1' = [conn1 EXCEPT !.wire = SubSeq(conn1.wire, n + 1, Len(conn1.wire))]
    BY DEF Http1Inv, Http1!OwnWholeResponse, Http1!ReadHead, Http1!ReadBody, Http1!Read
  <1> USE ReusedConnType1
  <1>1. conn1 # None /\ conn1 \in Http1!Connections /\ conn1' # None
    BY <1>0 DEF Http1Inv
  <1>2. conn1'.key = conn1.key
    BY <1>0, <1>1 DEF Http1!Connections
  <1>3. Http1!Use = "busy"
    <2>1. conn1.wire # <<>>
      BY <1>0
    <2>2. QED
      BY <1>0, <2>1 DEF Http1!Use, Http1!Answered
  <1>4. Http1!Use' \in {"busy", "answered"}
    BY <1>0 DEF Http1!Use
  <1>5. Http1!AskedKey' = Http1!AskedKey
    BY <1>0 DEF Http1!AskedKey
  <1>6. /\ Http1!ReusedConn = [key |-> conn1.key, use |-> "busy"] /\ Http1!ReusedConn # None
        /\ Http1!ReusedConn' = [key |-> conn1.key, use |-> Http1!Use']
    BY <1>0, <1>1, <1>2, <1>3 DEF Http1!ReusedConn
  <1>7. CASE Http1!Use' = "busy"
    BY <1>5, <1>6, <1>7 DEF Http1!Connection!vars
  <1>8. CASE Http1!Use' = "answered"
    <2>1. /\ Http1!ReusedConn.use = "busy"
          /\ Http1!ReusedConn' = [Http1!ReusedConn EXCEPT !.use = "answered"]
      BY <1>6, <1>8
    <2>2. QED
      BY <1>5, <1>6, <2>1 DEF Http1!Connection!Next, Http1!Connection!Answer
  <1>9. QED
    BY <1>4, <1>7, <1>8

(* Every step of the engine is a step of ConnectionReuse or none.          *)
LEMMA Http1StepRefines ==
    ASSUME Http1!Http1Assumption, Http1Inv, Http1Inv', [Http1!Next]_(Http1!vars)
    PROVE  [Http1!Connection!Next]_(Http1!Connection!vars)
  <1>0. Http1!TypeOK /\ Http1!TypeOK'
    BY DEF Http1Inv, Http1!OwnWholeResponse
  <1>1. ASSUME NEW p, NEW n, NEW closes, Http1!Write(p, n, closes)
        PROVE  UNCHANGED Http1!Connection!vars
    <2>1. /\ pc1 = "write" /\ pc1' = "head" /\ req1' = req1 /\ conn1 # None /\ conn1' # None
          /\ conn1' = [conn1 EXCEPT !.wire = conn1'.wire, !.eof = conn1'.eof]
      <3>1. pc1 = "write" /\ pc1' = "head" /\ req1' = req1 /\ conn1 # None /\ conn1' # None
        BY <1>1 DEF Http1!Write, Http1Inv
      <3>2. conn1 \in Http1!Connections /\ conn1' \in Http1!Connections
        BY <1>0, <3>1 DEF Http1!TypeOK
      <3>3. QED
        BY <1>1, <3>1, <3>2 DEF Http1!Write, Http1!Connections
    <2>2. conn1'.key = conn1.key
      BY <1>0, <2>1 DEF Http1!TypeOK, Http1!Connections
    <2>3. Http1!Use = "busy" /\ Http1!Use' = "busy"
      BY <2>1 DEF Http1!Use, Http1!Answered
    <2>4. QED
      BY <2>1, <2>2, <2>3 DEF Http1!Connection!vars, Http1!ReusedConn, Http1!AskedKey
  <1>2. CASE Http1!MigrateConnection
    <2>1. Http1!AskedKey = None /\ Http1!AskedKey' = Http1!AskedKey /\ Http1!ReusedConn' = None
      BY <1>2 DEF Http1!MigrateConnection, Http1!AskedKey, Http1!ReusedConn
    <2>2. QED
      BY <2>1 DEF Http1!Connection!Next, Http1!Connection!Drop
  <1>3. CASE Http1!ServerCloses
    <2>1. /\ pc1 = "idle" /\ pc1' = "idle" /\ req1' = req1 /\ conn1 # None
          /\ conn1 \in Http1!Connections /\ conn1' = [conn1 EXCEPT !.eof = TRUE]
      BY <1>0, <1>3 DEF Http1!ServerCloses, Http1!TypeOK
    <2>2. conn1' \in Http1!Connections /\ conn1'.key = conn1.key /\ conn1' # None
      BY <2>1 DEF Http1!Connections, Http1!Http1Assumption
    <2>3. QED
      BY <2>1, <2>2 DEF Http1!Connection!vars, Http1!ReusedConn, Http1!AskedKey, Http1!Use
  <1>4. CASE UNCHANGED Http1!vars
    BY <1>4 DEF Http1!vars, Http1!Connection!vars, Http1!ReusedConn, Http1!AskedKey,
       Http1!Use, Http1!Answered, Http1!Response
  <1>5. MaxParts + 4 \in Nat
    BY DEF Http1!Http1Assumption
  <1>6. QED
    BY <1>1, <1>2, <1>3, <1>4, <1>5, Http1BeginRefines, Http1ReturnRefines, Http1ReadRefines
       DEF Http1!Next, Http1!MaxUnits

(* The HTTP/1.1 engine keeps ConnectionReuse's promise.                    *)
THEOREM Http1KeepsReusePromise == Http1!Spec => ImplementsReuse1
  <1>1. Http1!Init => Http1!Connection!Init
    BY DEF Http1!Init, Http1!Connection!Init, Http1!ReusedConn, Http1!AskedKey
  <1>2. Http1Inv /\ Http1Inv' /\ [Http1!Next]_(Http1!vars)
          => [Http1!Connection!Next]_(Http1!Connection!vars)
    BY Http1StepRefines, EnginesAssumption
  <1>3. QED
    BY <1>1, <1>2, Http1Invariant, PTL
       DEF Http1!Spec, ImplementsReuse1, Http1!ImplementsReuse1, Http1!Connection!Spec
=============================================================================
