----------------------------- MODULE Http2Server -----------------------------
(***************************************************************************)
(* quicpro_http2_server_listen: the epoll loop of the HTTP/2 server and    *)
(* the nghttp2 callbacks it installs.  Descriptors, TLS and nghttp2's own  *)
(* stream states (ng) are external; stream_data is the http2_stream_t the  *)
(* callbacks hang on a stream.  Its response_body points into the value    *)
(* the handler returned, and the callback that called the handler gives    *)
(* that value up: body says whether anything else still holds the string.  *)
(*                                                                         *)
(* One event reads at most one frame and sends at most one item: nghttp2   *)
(* may stop after any item because the socket would block, so a call that  *)
(* sends several is a run of such events.                                  *)
(***************************************************************************)
EXTENDS Integers, FiniteSets

CONSTANTS
    H2Conn,    \* connections a run may see
    H2Stream,  \* stream ids
    H2Bodies,  \* lengths of a response body
    H2Frame    \* most bytes nghttp2 asks the read callback for

ASSUME H2Assumption == H2Bodies \subseteq Nat /\ H2Frame \in Nat

VARIABLES
    h2_listen,   \* what quicpro_http2_server_listen is doing
    h2_session,  \* [H2Conn -> http2_session_t]
    h2_stream    \* [H2Conn -> [H2Stream -> stream]]

h2vars == <<h2_listen, h2_session, h2_stream>>

H2Idle == [ng |-> "idle", data |-> "none", calls |-> 0,
           response |-> "none", body |-> "none", len |-> 0, offset |-> 0, eof |-> FALSE]

H2Init ==
    /\ h2_listen = "called"
    /\ h2_session = [c \in H2Conn |-> "none"]
    /\ h2_stream = [c \in H2Conn |-> [s \in H2Stream |-> H2Idle]]

------------------------------------------------------------------------------
(* Without both files, a loadable certificate and a bound socket the call  *)
(* throws; what it had opened is closed again.                             *)
quicpro_http2_server_listen ==
    /\ h2_listen = "called"
    /\ h2_listen' \in {"refused", "listening"}
    /\ UNCHANGED <<h2_session, h2_stream>>

h2_accept(c) ==
    /\ h2_listen = "listening" /\ h2_session[c] = "none"
    /\ h2_session' = [h2_session EXCEPT ![c] = "handshaking"]
    /\ UNCHANGED <<h2_listen, h2_stream>>

------------------------------------------------------------------------------
(* The callbacks: each maps a stream to the streams it may become.         *)

on_begin_headers_callback(stream) == [stream EXCEPT !.data = "alive"]

on_stream_close_callback(stream) ==
    [stream EXCEPT !.ng = "closed",
                   !.data = IF @ = "alive" THEN "freed" ELSE @,
                   !.response = IF @ = "pending" THEN "dropped" ELSE @]

H2Answer(stream, body, len) == [stream EXCEPT !.response = "pending", !.body = body, !.len = len]

(* The request handler ran: no array, an array without a string body, an   *)
(* array with one.  zval_ptr_dtor(&retval) then releases the string at     *)
(* once, unless the script or the engine (a literal) holds it too.         *)
(* Mutant: the request is released as soon as the handler has seen it. *)
H2Dispatch_Mutant(stream) ==
    LET called == [stream EXCEPT !.calls = @ + 1, !.data = "freed"]
    IN  {called, H2Answer(called, "none", 0)}
        \cup {H2Answer(called, body, len) : body \in {"held", "released"}, len \in H2Bodies}

H2Dispatch(stream) ==
    LET called == [stream EXCEPT !.calls = @ + 1]
    IN  {called, H2Answer(called, "none", 0)}
        \cup {H2Answer(called, body, len) : body \in {"held", "released"}, len \in H2Bodies}

(* Mutant: the END_STREAM flag is not looked at. *)
on_frame_recv_callback_Mutant(stream, headers, end) ==
    IF headers /\ stream.data = "alive" THEN H2Dispatch(stream) ELSE {stream}

on_frame_recv_callback(stream, headers, end) ==
    IF headers /\ end /\ stream.data = "alive" THEN H2Dispatch(stream) ELSE {stream}

(* A frame nghttp2 accepts: request HEADERS, DATA or trailing HEADERS of   *)
(* an open request, RST_STREAM.                                            *)
nghttp2_session_mem_recv(stream) ==
    UNION {
        IF stream.ng # "idle" THEN {}
        ELSE UNION {on_frame_recv_callback(
                       on_begin_headers_callback([stream EXCEPT !.ng = IF end THEN "half" ELSE "open"]),
                       TRUE, end) : end \in BOOLEAN},
        IF stream.ng # "open" THEN {}
        ELSE on_frame_recv_callback(stream, FALSE, FALSE)
             \cup on_frame_recv_callback([stream EXCEPT !.ng = "half"], FALSE, TRUE)
             \cup on_frame_recv_callback([stream EXCEPT !.ng = "half"], TRUE, TRUE),
        IF stream.ng \notin {"open", "half"} THEN {} ELSE {on_stream_close_callback(stream)}}

response_read_callback(stream, length) ==
    LET remaining == stream.len - stream.offset
        to_copy == IF length < remaining THEN length ELSE remaining
    IN  [stream EXCEPT !.offset = @ + to_copy, !.eof = stream.offset + to_copy = stream.len]

(* One item of nghttp2_session_send: the read callback fills a DATA frame; *)
(* once the last one is written the stream is complete on both sides.      *)
nghttp2_session_send(stream) ==
    {LET sent == response_read_callback(stream, length)
     IN  IF sent.eof THEN on_stream_close_callback([sent EXCEPT !.response = "sent"]) ELSE sent
     : length \in 1..H2Frame}

------------------------------------------------------------------------------
H2Becomes(c, state, streams) ==
    /\ h2_session' = [h2_session EXCEPT ![c] = state]
    /\ h2_stream' = [h2_stream EXCEPT ![c] = streams]
    /\ UNCHANGED h2_listen

(* nghttp2_session_del closes no stream: the callback is not called. *)
close_http2_session(c, streams) ==
    H2Becomes(c, "freed", [s \in H2Stream |-> IF streams[s].response = "pending"
                                              THEN [streams[s] EXCEPT !.response = "dropped"]
                                              ELSE streams[s]])

(* The process ends; nothing in it runs any more. *)
H2Crash ==
    /\ h2_listen' = "crashed"
    /\ UNCHANGED <<h2_session, h2_stream>>

H2Sendable(streams) == {s \in H2Stream : streams[s].response = "pending"}

(* The part of handle_client_event after the handshake.  Received: a       *)
(* frame, nothing yet (WANT_READ) or an end.  Then, if the socket can be   *)
(* written to, an item is sent, nothing, or the send fails; an item read   *)
(* from a released body may hold any bytes or end the process.             *)
H2Serve(c, mask) ==
    LET streams == h2_stream[c]
        received == {streams} \cup
            IF "in" \in mask
            THEN UNION {{[streams EXCEPT ![s] = t] : t \in nghttp2_session_mem_recv(streams[s])}
                        : s \in H2Stream}
            ELSE {}
        Sent(r) == {r} \cup
            IF "out" \in mask
            THEN UNION {{[r EXCEPT ![s] = t] : t \in nghttp2_session_send(r[s])} : s \in H2Sendable(r)}
            ELSE {}
    IN  \E r \in received :
           \/ close_http2_session(c, r)
           \/ \E r2 \in Sent(r) : H2Becomes(c, "open", r2)
           \/ /\ "out" \in mask
              /\ \E s \in H2Sendable(r) : r[s].body = "released" /\ r[s].offset < r[s].len
              /\ H2Crash

(* The first event of a connection, which a new socket gets at once as it  *)
(* can be written to.  If SSL_accept wants more the handler still goes on, *)
(* and nghttp2_session_send meets a session pointer that is NULL; only an  *)
(* SSL_accept that finds the peer's last flight there already, in this     *)
(* very call, gives a session that is served.                              *)
h2_handshake_event(c) ==
    /\ h2_listen = "listening" /\ h2_session[c] = "handshaking"
    /\ \/ close_http2_session(c, h2_stream[c])
       \/ H2Crash
       \/ \E mask \in {{"out"}, {"in", "out"}} : H2Serve(c, mask)

h2_handle_client_event(c, mask) ==
    /\ h2_listen = "listening" /\ h2_session[c] = "open"
    /\ H2Serve(c, mask)

H2Next ==
    \/ quicpro_http2_server_listen
    \/ \E c \in H2Conn :
          \/ h2_accept(c)
          \/ h2_handshake_event(c)
          \/ \E mask \in (SUBSET {"in", "out"}) \ {{}} : h2_handle_client_event(c, mask)

H2Spec == H2Init /\ [][H2Next]_h2vars

------------------------------------------------------------------------------
H2TypeOK ==
    /\ h2_listen \in {"called", "refused", "listening", "crashed"}
    /\ h2_session \in [H2Conn -> {"none", "handshaking", "open", "freed"}]
    /\ h2_stream \in [H2Conn -> [H2Stream ->
          [ng : {"idle", "open", "half", "closed"}, data : {"none", "alive", "freed"}, calls : Nat,
           response : {"none", "pending", "sent", "dropped"}, body : {"none", "held", "released"},
           len : H2Bodies \cup {0}, offset : Nat, eof : BOOLEAN]]]

(* A response waiting to be sent has nghttp2 hold a bare pointer to the    *)
(* stream's data (source.ptr): that data is not freed before the response  *)
(* is gone.  The pointer inside that data to the body's bytes is another   *)
(* matter: it dangles as soon as body is "released", which is not excluded *)
(* here.                                                                   *)
ResponseHasItsStream ==
    \A c \in H2Conn, s \in H2Stream :
       h2_stream[c][s].response = "pending" => /\ h2_stream[c][s].data = "alive"
                                               /\ h2_session[c] = "open"

(* The request handler sees a stream at most once, and only when the       *)
(* request has ended, whatever mix of body and trailers the peer sends; a  *)
(* request that a DATA frame ends it never sees, so that nothing is said   *)
(* of every request.  An answer is over only when the read callback has    *)
(* counted off its length, never more: a number of bytes, which are the    *)
(* handler's own only while something else holds the body.                 *)
AnsweredOnce ==
    \A c \in H2Conn, s \in H2Stream :
       LET stream == h2_stream[c][s] IN
       /\ stream.calls <= 1
       /\ stream.calls = 1 => stream.ng \in {"half", "closed"}
       /\ stream.offset <= stream.len
       /\ stream.response = "sent" => stream.calls = 1 /\ stream.offset = stream.len

==============================================================================
