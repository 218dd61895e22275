----------------------------- MODULE ServerProofs -----------------------------
(***************************************************************************)
(* Proofs about the server side, for any number of connections, sessions,  *)
(* streams, callables and objects.                                         *)
(***************************************************************************)
EXTENDS Server, MessageProofs, FiniteSetTheorems, TLAPS

(* A process takes steps of the server it runs and of no other. *)
LEMMA PartSteps ==
    [Next]_vars => /\ [H1Next]_h1vars
                   /\ [H2Next]_h2vars
                   /\ [QuicNext]_quicvars
                   /\ [AdminNext]_adminvars
                   /\ [ShNext]_shvars
                   /\ [WsNext]_wsvars
                   /\ [CorsNext]_corsvars
                   /\ [SsNext]_ssvars
  BY DEF Next, vars, h1rest, h2rest, quicrest, adminrest, shrest, wsrest, corsrest, ssrest

(* The parts of a process start in their own initial states. *)
LEMMA InitParts == Init => WsInit /\ CorsInit
  BY DEF Init

------------------------------------------------------------------------------
(* HTTP/1 *)

Connection ==
    [state : H1States, tls : 0..4, peer : {"open", "closed"}, room : BOOLEAN,
     header : H1Headers \cup {0}, sent : 0..H1Request, used : 0..H1Buf,
     left : H1Reply \cup {0}, replies : Nat, end : {"no", "answered", "dropped"}]

(* How far a connection is, and what it has answered. *)
Progress(conn) ==
    /\ conn \in Connection
    /\ conn.state \in {"none", "backlog", "handshaking", "reading"} => conn.replies = 0
    /\ conn.state = "writing" => conn.replies = 1 /\ conn.used >= conn.header
    /\ conn.state # "freed" => conn.end = "no"
    /\ conn.replies <= 1
    /\ conn.replies = 1 => conn.used >= conn.header
    /\ conn.end = "answered" => conn.replies = 1 /\ conn.left = 0

(* The handler turns a live connection into a live or a freed one. *)
Handled(conn) == Progress(conn) /\ conn.state \in H1Live \cup {"freed"}

(* Closing is the last thing that happens to a connection. *)
LEMMA ClosingProgress ==
    ASSUME NEW conn, Handled(conn)
    PROVE  Handled(close_client_connection(conn, "dropped"))
  BY DEF Handled, Progress, Connection, close_client_connection, H1States, H1Live

(* The TLS handshake. *)
LEMMA HandshakeProgress ==
    ASSUME NEW conn, Handled(conn), NEW r \in H1Handshake(conn)
    PROVE  Handled(r)
<1>1. Handled([conn EXCEPT !.tls = 2])
  BY DEF Handled, Progress, Connection, H1States, H1Live
<1>2. conn.state = "handshaking" => Handled([conn EXCEPT !.tls = 4, !.state = "reading"])
  <2> DEFINE c == [conn EXCEPT !.tls = 4, !.state = "reading"]
  <2>0. conn \in Connection
    BY DEF Handled, Progress
  <2>1. c \in Connection
    <3> DEFINE e == [conn EXCEPT !.tls = 4]
    <3>1. e \in Connection
      BY <2>0 DEF Connection
    <3>2. c = [e EXCEPT !.state = "reading"]
      OBVIOUS
    <3> HIDE DEF e, c
    <3> QED
      BY <3>1, <3>2 DEF Connection, H1States
  <2>2. /\ c.state = "reading" /\ c.replies = conn.replies /\ c.used = conn.used
        /\ c.header = conn.header /\ c.end = conn.end /\ c.left = conn.left
    BY DEF Handled, Progress, Connection
  <2> HIDE DEF c
  <2>3. conn.state = "handshaking" => Handled(c)
    BY <2>1, <2>2 DEF Handled, Progress, H1Live
  <2> QED
    BY <2>3 DEF c
<1> QED
  BY <1>1, <1>2, ClosingProgress DEF H1Handshake

(* Reading stays within the buffer; then the response of the PHP handler. *)
LEMMA ReadProgress ==
    ASSUME NEW conn, Handled(conn), NEW mask, NEW r \in H1Read(conn, mask)
    PROVE  Handled(r)
<1>1. ASSUME conn.state = "reading", NEW n \in Int, conn.used + n \in 0..H1Buf
      PROVE  Handled([conn EXCEPT !.used = @ + n])
  BY <1>1 DEF Handled, Progress, Connection, H1States, H1Live
<1>2. ASSUME NEW c, Handled(c), c.state = "reading", c.used >= c.header, NEW d \in H1Dispatch(c)
      PROVE  Handled(d)
  <2>1. CASE d = c
    BY <1>2, <2>1
  <2>2. ASSUME NEW n \in H1Reply, d = [c EXCEPT !.state = "writing", !.left = n, !.replies = @ + 1]
        PROVE  Handled(d)
    <3>1. c \in Connection /\ c.replies = 0 /\ c.end = "no"
      BY <1>2 DEF Handled, Progress
    <3>2. d \in Connection
      <4> DEFINE e == [c EXCEPT !.state = "writing", !.left = n]
      <4>1. e \in Connection
        BY <2>2, <3>1 DEF Connection, H1States
      <4>2. e.replies = c.replies
        BY <3>1 DEF Connection
      <4>3. d = [e EXCEPT !.replies = @ + 1]
        BY <2>2
      <4> HIDE DEF e
      <4>4. d = [e EXCEPT !.replies = 1]
        BY <3>1, <4>2, <4>3
      <4> QED
        BY <4>1, <4>4 DEF Connection
    <3>3. d.state = "writing" /\ d.replies = 1 /\ d.used = c.used /\ d.header = c.header /\ d.end = "no"
      BY <2>2, <3>1 DEF Connection
    <3> QED
      BY <1>2, <3>2, <3>3 DEF Handled, Progress, H1Live
  <2> QED
    BY <1>2, <2>1, <2>2 DEF H1Dispatch
<1>3. CASE "in" \in mask /\ conn.state = "reading"
  <2>1. CASE r = close_client_connection(conn, "dropped")
    BY <2>1, ClosingProgress
  <2>2. CASE r # close_client_connection(conn, "dropped")
    <3>1. PICK n \in {k \in 1..(conn.sent - conn.used) : k <= H1Space(conn)} :
             LET read == [conn EXCEPT !.used = @ + n]
             IN  r \in (IF read.used >= conn.header THEN H1Dispatch(read) ELSE {read})
      BY <1>3, <2>2 DEF H1Read
    <3> DEFINE read == [conn EXCEPT !.used = @ + n]
    <3>2. n \in Int /\ conn.used + n \in 0..H1Buf
      BY <3>1, Http1Assumption DEF Handled, Progress, Connection, H1Space
    <3>3. Handled(read) /\ read.state = "reading" /\ read.header = conn.header
      BY <1>1, <1>3, <3>2 DEF Handled, Progress, Connection
    <3> QED
      BY <1>2, <3>1, <3>3
  <2> QED
    BY <2>1, <2>2
<1>4. CASE ~("in" \in mask /\ conn.state = "reading")
  BY <1>4 DEF H1Read
<1> QED
  BY <1>3, <1>4

(* Writing: the connection ends as answered with nothing left. *)
LEMMA WriteProgress ==
    ASSUME NEW conn, Handled(conn), NEW mask, NEW r \in H1Write(conn, mask)
    PROVE  Handled(r)
<1>1. CASE conn.state = "writing"
  <2>1. Handled(close_client_connection([conn EXCEPT !.left = 0], "answered"))
    <3> DEFINE c == [conn EXCEPT !.left = 0]
               d == [c EXCEPT !.state = "freed", !.end = "answered"]
    <3>1. c \in Connection /\ c.left = 0 /\ c.replies = 1 /\ c.used = conn.used /\ c.header = conn.header
      BY <1>1 DEF Handled, Progress, Connection
    <3> HIDE DEF c
    <3>2. d \in Connection
      BY <3>1 DEF Connection, H1States
    <3>3. /\ d.state = "freed" /\ d.end = "answered" /\ d.left = 0 /\ d.replies = 1
          /\ d.used = conn.used /\ d.header = conn.header
      BY <3>1 DEF Connection
    <3> HIDE DEF d
    <3>4. Handled(d)
      BY <1>1, <3>2, <3>3 DEF Handled, Progress
    <3> QED
      BY <3>4 DEF c, d, close_client_connection
  <2>2. Handled([conn EXCEPT !.room = FALSE])
    BY <1>1 DEF Handled, Progress, Connection, H1States, H1Live
  <2> QED
    BY <2>1, <2>2, ClosingProgress DEF H1Write
<1> QED
  BY <1>1 DEF H1Write

(* Every connection keeps to its progress, and only live ones have events. *)
Http1Inv ==
    /\ h1_conn \in [H1Conn -> Connection]
    /\ \A c \in H1Conn : Progress(h1_conn[c])
    /\ h1_edge \subseteq H1Conn \cup {H1Listener}
    /\ DOMAIN h1_batch \subseteq H1Conn \cup {H1Listener}
    /\ NoEventAfterFree

(* A change of one connection that keeps its progress, and its state when  *)
(* events name it.                                                         *)
LEMMA OneConnection ==
    ASSUME Http1Inv, NEW c \in H1Conn, NEW conn, Progress(conn),
           h1_conn' = [h1_conn EXCEPT ![c] = conn],
           h1_edge' \subseteq h1_edge \cup {c, H1Listener},
           DOMAIN h1_batch' \subseteq DOMAIN h1_batch,
           c \in DOMAIN h1_batch' \cup h1_edge' => conn.state \in H1Live
    PROVE  Http1Inv'
<1>1. h1_conn' \in [H1Conn -> Connection] /\ \A x \in H1Conn : h1_conn'[x] = IF x = c THEN conn ELSE h1_conn[x]
  <2>1. conn \in Connection
    BY DEF Progress
  <2> QED
    BY <2>1 DEF Http1Inv
<1>2. \A x \in H1Conn : Progress(h1_conn'[x])
  BY <1>1 DEF Http1Inv
<1>3. h1_edge' \subseteq H1Conn \cup {H1Listener} /\ DOMAIN h1_batch' \subseteq H1Conn \cup {H1Listener}
  BY DEF Http1Inv
<1>4. \A x \in (DOMAIN h1_batch' \cup h1_edge') \ {H1Listener} : h1_conn'[x].state \in H1Live
  BY <1>1, <1>3 DEF Http1Inv, NoEventAfterFree
<1> QED
  BY <1>1, <1>2, <1>3, <1>4 DEF Http1Inv, NoEventAfterFree, Progress

(* What a peer does changes neither the progress nor the state of its      *)
(* connection, except that it connects.                                    *)
LEMMA PeerKeeps ==
    ASSUME Http1Inv, NEW c \in H1Conn,
           H1Connect(c) \/ H1Flight(c) \/ H1Send(c) \/ H1Hangup(c) \/ H1Window(c)
    PROVE  Http1Inv'
<1> DEFINE r == h1_conn[c]
<1>1. r \in Connection /\ Progress(r) /\ (c \in DOMAIN h1_batch \cup h1_edge => r.state \in H1Live)
  BY Http1Assumption DEF Http1Inv, NoEventAfterFree, Progress
<1>2. ASSUME NEW conn, Progress(conn), conn.state = r.state, H1Peer(c, conn), H1Changed(c)
      PROVE  Http1Inv'
  BY <1>1, <1>2, OneConnection DEF H1Peer, H1Changed
<1>3. CASE H1Connect(c)
  <2>1. PICK header \in H1Headers : H1Peer(c, [r EXCEPT !.state = "backlog", !.header = header])
    BY <1>3 DEF H1Connect
  <2> DEFINE n == [r EXCEPT !.state = "backlog", !.header = header]
  <2>2. header \in H1Headers /\ r.state = "none"
    BY <1>3, <2>1 DEF H1Connect
  <2>3. n \in Connection
    <3> DEFINE e == [r EXCEPT !.state = "backlog"]
    <3>1. e \in Connection
      BY <1>1 DEF Connection, H1States
    <3>2. n = [e EXCEPT !.header = header]
      OBVIOUS
    <3> HIDE DEF e, n
    <3> QED
      BY <2>2, <3>1, <3>2 DEF Connection
  <2>4. n.state = "backlog" /\ n.replies = r.replies /\ n.end = r.end
    BY <1>1 DEF Connection
  <2>5. h1_conn' = [h1_conn EXCEPT ![c] = n] /\ h1_batch' = h1_batch /\ h1_edge' = h1_edge \cup {H1Listener}
    BY <1>3, <2>1 DEF H1Peer, H1Connect
  <2>6. c \notin DOMAIN h1_batch' \cup h1_edge'
    BY <1>1, <2>2, <2>5, Http1Assumption DEF H1Live
  <2> HIDE DEF n
  <2>7. Progress(n)
    BY <1>1, <2>2, <2>3, <2>4 DEF Progress
  <2> QED
    BY <2>5, <2>6, <2>7, OneConnection
<1>4. CASE H1Flight(c)
  <2>1. r.tls \in {0, 2}
    BY <1>4 DEF H1Flight
  <2>2. Progress([r EXCEPT !.tls = @ + 1]) /\ [r EXCEPT !.tls = @ + 1].state = r.state
    BY <1>1, <2>1 DEF Progress, Connection
  <2> QED
    BY <1>2, <1>4, <2>2 DEF H1Flight
<1>5. CASE H1Send(c)
  <2>1. r.sent < H1Request
    BY <1>5 DEF H1Send
  <2>2. Progress([r EXCEPT !.sent = @ + 1]) /\ [r EXCEPT !.sent = @ + 1].state = r.state
    BY <1>1, <2>1, Http1Assumption DEF Progress, Connection
  <2> QED
    BY <1>2, <1>5, <2>2 DEF H1Send
<1>6. CASE H1Hangup(c)
  <2>1. Progress([r EXCEPT !.peer = "closed"]) /\ [r EXCEPT !.peer = "closed"].state = r.state
    BY <1>1 DEF Progress, Connection
  <2> QED
    BY <1>2, <1>6, <2>1 DEF H1Hangup
<1>7. CASE H1Window(c)
  <2>1. Progress([r EXCEPT !.room = TRUE]) /\ [r EXCEPT !.room = TRUE].state = r.state
    BY <1>1 DEF Progress, Connection
  <2> QED
    BY <1>2, <1>7, <2>1 DEF H1Window
<1> QED
  BY <1>3, <1>4, <1>5, <1>6, <1>7

(* One event of a connection. *)
LEMMA EventKeeps ==
    ASSUME Http1Inv, NEW c \in H1Conn, h1_handle_client_event(c)
    PROVE  Http1Inv'
<1>1. Handled(h1_conn[c]) /\ c # H1Listener
  BY Http1Assumption DEF h1_handle_client_event, Http1Inv, NoEventAfterFree, Handled
<1>2. PICK shaken \in H1Handshake(h1_conn[c]) :
      \E read \in H1Read(shaken, h1_batch[c]) :
      \E conn \in H1Write(read, h1_batch[c]) :
         /\ h1_conn' = [h1_conn EXCEPT ![c] = conn]
         /\ IF conn.state = "freed" THEN EPOLL_CTL_DEL(c) ELSE UNCHANGED h1_edge
  BY DEF h1_handle_client_event
<1>3. PICK read \in H1Read(shaken, h1_batch[c]) :
      \E conn \in H1Write(read, h1_batch[c]) :
         /\ h1_conn' = [h1_conn EXCEPT ![c] = conn]
         /\ IF conn.state = "freed" THEN EPOLL_CTL_DEL(c) ELSE UNCHANGED h1_edge
  BY <1>2
<1>4. PICK conn \in H1Write(read, h1_batch[c]) :
         /\ h1_conn' = [h1_conn EXCEPT ![c] = conn]
         /\ IF conn.state = "freed" THEN EPOLL_CTL_DEL(c) ELSE UNCHANGED h1_edge
  BY <1>3
<1>5. Handled(conn)
  <2>1. Handled(shaken)
    BY <1>1, HandshakeProgress
  <2>2. Handled(read)
    BY <2>1, ReadProgress
  <2> QED
    BY <2>2, WriteProgress
<1>6. DOMAIN h1_batch' = DOMAIN h1_batch \ {c}
  BY DEF h1_handle_client_event, H1Rest
<1>7. c \in DOMAIN h1_batch' \cup h1_edge' => conn.state \in H1Live
  BY <1>4, <1>5, <1>6 DEF Handled, EPOLL_CTL_DEL
<1> QED
  BY <1>4, <1>5, <1>6, <1>7, OneConnection DEF Handled, EPOLL_CTL_DEL

(* Every step of the HTTP/1 server keeps the invariant. *)
LEMMA Http1Step == Http1Inv /\ [H1Next]_h1vars => Http1Inv'
<1> SUFFICES ASSUME Http1Inv, [H1Next]_h1vars PROVE Http1Inv'
  OBVIOUS
<1>1. CASE UNCHANGED h1vars
  BY <1>1 DEF Http1Inv, NoEventAfterFree, h1vars
<1>2. CASE h1_epoll_wait
  <2>1. h1_conn' = h1_conn /\ h1_edge' \subseteq h1_edge /\ DOMAIN h1_batch' \subseteq h1_edge
    BY <1>2 DEF h1_epoll_wait
  <2> QED
    BY <2>1 DEF Http1Inv, NoEventAfterFree
<1>3. CASE h1_accept
  <2> DEFINE queued == {c \in H1Conn : h1_conn[c].state = "backlog"}
  <2>1. /\ h1_conn' = [c \in H1Conn |-> IF c \in queued THEN [h1_conn[c] EXCEPT !.state = "handshaking"]
                                         ELSE h1_conn[c]]
        /\ h1_edge' = h1_edge \cup queued /\ DOMAIN h1_batch' \subseteq DOMAIN h1_batch
    BY <1>3 DEF h1_accept, H1Rest
  <2>2. ASSUME NEW c \in queued
        PROVE  Progress(h1_conn'[c]) /\ h1_conn'[c].state = "handshaking"
    <3>1. Progress(h1_conn[c]) /\ h1_conn[c].state = "backlog"
      BY <2>2 DEF Http1Inv
    <3>2. h1_conn'[c] = [h1_conn[c] EXCEPT !.state = "handshaking"]
      BY <2>1, <2>2
    <3> QED
      BY <3>1, <3>2 DEF Progress, Connection, H1States
  <2>3. \A c \in H1Conn \ queued : h1_conn'[c] = h1_conn[c]
    BY <2>1
  <2>4. h1_conn' \in [H1Conn -> Connection] /\ \A c \in H1Conn : Progress(h1_conn'[c])
    <3>1. \A c \in H1Conn : Progress(h1_conn'[c])
      BY <2>2, <2>3 DEF Http1Inv
    <3>2. \A c \in H1Conn : h1_conn'[c] \in Connection
      BY <3>1 DEF Progress
    <3> QED
      BY <2>1, <3>1, <3>2
  <2>5. h1_edge' \subseteq H1Conn \cup {H1Listener} /\ DOMAIN h1_batch' \subseteq H1Conn \cup {H1Listener}
    BY <2>1 DEF Http1Inv
  <2>6. \A c \in (DOMAIN h1_batch' \cup h1_edge') \ {H1Listener} : h1_conn'[c].state \in H1Live
    BY <2>1, <2>2, <2>3, <2>5 DEF Http1Inv, NoEventAfterFree, H1Live
  <2> HIDE DEF queued
  <2>7. (\A c \in H1Conn : Progress(h1_conn[c]))'
    BY <2>4 DEF Progress, Connection
  <2> QED
    BY <2>4, <2>5, <2>6, <2>7 DEF Http1Inv, NoEventAfterFree
<1>4. ASSUME NEW c \in H1Conn, h1_handle_client_event(c) PROVE Http1Inv'
  BY <1>4, EventKeeps
<1>5. ASSUME NEW c \in H1Conn, H1Connect(c) \/ H1Flight(c) \/ H1Send(c) \/ H1Hangup(c) \/ H1Window(c)
      PROVE  Http1Inv'
  BY <1>5, PeerKeeps
<1> QED
  BY <1>1, <1>2, <1>3, <1>4, <1>5 DEF H1Next

(* At the start there is no connection and no event. *)
LEMMA Http1Start == Init => Http1Inv
<1>1. Progress(H1Fresh)
  BY Http1Assumption DEF Progress, Connection, H1Fresh, H1States
<1>2. H1Fresh \in Connection
  BY <1>1 DEF Progress
<1> QED
  BY <1>1, <1>2 DEF Init, H1Init, Http1Inv, NoEventAfterFree

(* However peers connect, send and hang up while a batch of events is      *)
(* handled, no event names a freed connection (close_client_connection     *)
(* takes it out of the epoll set first).                                   *)
THEOREM NoEventAfterFreeCorrect == Spec => []NoEventAfterFree
<1>1. Http1Inv => NoEventAfterFree
  BY DEF Http1Inv
<1> QED
  BY <1>1, Http1Start, Http1Step, PartSteps, PTL DEF Spec

(* A connection gives at most one response, after the whole header, and is *)
(* answered only with all of it written (handle_client_event).             *)
THEOREM OneWholeReplyCorrect == Spec => []OneWholeReply
<1>1. Http1Inv => OneWholeReply
  BY DEF Http1Inv, OneWholeReply, Progress
<1> QED
  BY <1>1, Http1Start, Http1Step, PartSteps, PTL DEF Spec

------------------------------------------------------------------------------
(* HTTP/2 *)

H2Record ==
    [ng : {"idle", "open", "half", "closed"}, data : {"none", "alive", "freed"}, calls : Nat,
     response : {"none", "pending", "sent", "dropped"}, body : {"none", "held", "released"},
     len : H2Bodies \cup {0}, offset : Nat, eof : BOOLEAN]

(* How far a stream is, and what became of its answer. *)
Course(stream) ==
    /\ stream \in H2Record
    /\ stream.ng = "idle" => stream.calls = 0 /\ stream.response = "none"
    /\ stream.ng = "open" => stream.calls = 0 /\ stream.response = "none" /\ stream.data = "alive"
    /\ stream.ng = "half" => stream.data = "alive"
    /\ stream.calls <= 1
    /\ stream.calls = 0 => stream.response = "none"
    /\ stream.response = "none" => stream.offset = 0
    /\ stream.response = "pending" => stream.ng = "half"
    /\ stream.offset <= stream.len
    /\ stream.response = "sent" => stream.offset = stream.len

(* The two theorems need no more than the course of each stream, and that  *)
(* a session which is not open waits for nothing.                          *)
H2Inv ==
    /\ h2_listen \in {"called", "refused", "listening", "crashed"}
    /\ h2_session \in [H2Conn -> {"none", "handshaking", "open", "freed"}]
    /\ h2_stream \in [H2Conn -> [H2Stream -> H2Record]]
    /\ \A c \in H2Conn, s \in H2Stream :
          /\ Course(h2_stream[c][s])
          /\ h2_stream[c][s].response = "pending" => h2_session[c] = "open"

(* A stream that closes takes its data and the answer it waits for along. *)
LEMMA CloseKeepsCourse ==
    ASSUME NEW stream, Course(stream)
    PROVE  /\ Course(on_stream_close_callback(stream))
           /\ on_stream_close_callback(stream).response # "pending"
<1> DEFINE d == IF stream.data = "alive" THEN "freed" ELSE stream.data
           r == IF stream.response = "pending" THEN "dropped" ELSE stream.response
           t == [stream EXCEPT !.ng = "closed", !.data = d, !.response = r]
<1>1. d \in {"none", "alive", "freed"} /\ r \in {"none", "sent", "dropped"}
  BY DEF Course, H2Record
<1>2. (r = "none" <=> stream.response = "none") /\ (r = "sent" <=> stream.response = "sent")
  OBVIOUS
<1>3. on_stream_close_callback(stream) = t
  BY DEF on_stream_close_callback
<1> HIDE DEF d, r
<1>4. /\ t \in H2Record /\ t.ng = "closed" /\ t.data = d /\ t.response = r
      /\ t.calls = stream.calls /\ t.len = stream.len /\ t.offset = stream.offset
  BY <1>1 DEF Course, H2Record
<1> HIDE DEF t
<1> QED
  BY <1>1, <1>2, <1>3, <1>4 DEF Course

(* The handler is called for a request that ended and was not answered. *)
LEMMA DispatchKeepsCourse ==
    ASSUME NEW stream, Course(stream), stream.ng = "half", stream.calls = 0, NEW t \in H2Dispatch(stream)
    PROVE  Course(t)
<1> DEFINE called == [stream EXCEPT !.calls = @ + 1]
<1>1. /\ called \in H2Record /\ called.ng = "half" /\ called.data = "alive" /\ called.calls = 1
      /\ called.response = "none" /\ called.offset = 0 /\ called.len = stream.len
  BY DEF Course, H2Record
<1>2. \/ t = called
      \/ \E body \in {"none", "held", "released"}, len \in H2Bodies \cup {0} : t = H2Answer(called, body, len)
  BY DEF H2Dispatch
<1> HIDE DEF called
<1>3. CASE t = called
  BY <1>1, <1>3, H2Assumption DEF Course, H2Record
<1>4. ASSUME NEW body \in {"none", "held", "released"}, NEW len \in H2Bodies \cup {0}, t = H2Answer(called, body, len)
      PROVE  Course(t)
  <2> DEFINE e == [called EXCEPT !.response = "pending", !.body = body]
  <2>1. /\ e \in H2Record /\ e.ng = "half" /\ e.data = "alive" /\ e.calls = 1
        /\ e.response = "pending" /\ e.offset = 0
    BY <1>1 DEF H2Record
  <2>2. t = [e EXCEPT !.len = len]
    BY <1>4 DEF H2Answer
  <2> HIDE DEF e
  <2>3. /\ t \in H2Record /\ t.ng = "half" /\ t.data = "alive" /\ t.calls = 1
        /\ t.response = "pending" /\ t.offset = 0 /\ t.len = len
    BY <2>1, <2>2 DEF H2Record
  <2>4. len \in Nat
    BY H2Assumption
  <2> QED
    BY <2>3, <2>4 DEF Course
<1> QED
  BY <1>2, <1>3, <1>4

(* A frame that arrives. *)
LEMMA ReceiveKeepsCourse ==
    ASSUME NEW stream, Course(stream), NEW t \in nghttp2_session_mem_recv(stream)
    PROVE  Course(t)
<1> DEFINE Begun(end) == on_begin_headers_callback([stream EXCEPT !.ng = IF end THEN "half" ELSE "open"])
           half == [stream EXCEPT !.ng = "half"]
<1>1. \/ stream.ng = "idle" /\ \E end \in BOOLEAN : t \in on_frame_recv_callback(Begun(end), TRUE, end)
      \/ /\ stream.ng = "open"
         /\ \/ t \in on_frame_recv_callback(stream, FALSE, FALSE)
            \/ t \in on_frame_recv_callback(half, FALSE, TRUE)
            \/ t \in on_frame_recv_callback(half, TRUE, TRUE)
      \/ t = on_stream_close_callback(stream)
  <2> DEFINE A == IF stream.ng # "idle" THEN {}
                  ELSE UNION {on_frame_recv_callback(Begun(end), TRUE, end) : end \in BOOLEAN}
             B == IF stream.ng # "open" THEN {}
                  ELSE on_frame_recv_callback(stream, FALSE, FALSE)
                       \cup on_frame_recv_callback(half, FALSE, TRUE)
                       \cup on_frame_recv_callback(half, TRUE, TRUE)
             C == IF stream.ng \notin {"open", "half"} THEN {} ELSE {on_stream_close_callback(stream)}
  <2>1. nghttp2_session_mem_recv(stream) = UNION {A, B, C}
    BY Zenon DEF nghttp2_session_mem_recv
  <2> HIDE DEF Begun, half
  <2>2. t \in A => stream.ng = "idle" /\ \E end \in BOOLEAN : t \in on_frame_recv_callback(Begun(end), TRUE, end)
    OBVIOUS
  <2>3. t \in B => /\ stream.ng = "open"
                   /\ \/ t \in on_frame_recv_callback(stream, FALSE, FALSE)
                      \/ t \in on_frame_recv_callback(half, FALSE, TRUE)
                      \/ t \in on_frame_recv_callback(half, TRUE, TRUE)
    OBVIOUS
  <2>4. t \in C => t = on_stream_close_callback(stream)
    OBVIOUS
  <2> HIDE DEF A, B, C
  <2>5. t \in A \/ t \in B \/ t \in C
    BY <2>1
  <2> QED
    BY <2>2, <2>3, <2>4, <2>5
<1>2. ASSUME stream.ng = "open" PROVE Course(half) /\ half.ng = "half" /\ half.calls = 0
  <2>1. /\ half \in H2Record /\ half.ng = "half" /\ half.data = "alive" /\ half.calls = 0
        /\ half.response = "none" /\ half.offset = stream.offset /\ half.len = stream.len
    BY <1>2 DEF Course, H2Record
  <2> HIDE DEF half
  <2> QED
    BY <1>2, <2>1 DEF Course
<1>3. ASSUME stream.ng = "idle", NEW end \in BOOLEAN
      PROVE  Course(Begun(end)) /\ Begun(end).ng = (IF end THEN "half" ELSE "open") /\ Begun(end).calls = 0
  <2> DEFINE g == IF end THEN "half" ELSE "open"
             b == [stream EXCEPT !.ng = g, !.data = "alive"]
  <2>1. g \in {"half", "open"}
    OBVIOUS
  <2>2. Begun(end) = b
    BY DEF on_begin_headers_callback, Course, H2Record
  <2> HIDE DEF g
  <2>3. /\ b \in H2Record /\ b.ng = g /\ b.data = "alive" /\ b.calls = 0 /\ b.response = "none"
        /\ b.offset = stream.offset /\ b.len = stream.len
    BY <1>3, <2>1 DEF Course, H2Record
  <2> HIDE DEF b
  <2>4. Course(b)
    BY <1>3, <2>1, <2>3 DEF Course
  <2> QED
    BY <2>2, <2>3, <2>4 DEF g
<1> HIDE DEF Begun, half
<1>4. ASSUME stream.ng = "idle", NEW end \in BOOLEAN, t \in on_frame_recv_callback(Begun(end), TRUE, end)
      PROVE  Course(t)
  <2>1. t = Begun(end) \/ (end /\ t \in H2Dispatch(Begun(end)))
    BY <1>4 DEF on_frame_recv_callback
  <2> QED
    BY <1>3, <1>4, <2>1, DispatchKeepsCourse
<1>5. CASE stream.ng = "open" /\ t \in on_frame_recv_callback(stream, FALSE, FALSE)
  BY <1>5 DEF on_frame_recv_callback
<1>6. CASE stream.ng = "open" /\ t \in on_frame_recv_callback(half, FALSE, TRUE)
  BY <1>2, <1>6 DEF on_frame_recv_callback
<1>7. CASE stream.ng = "open" /\ t \in on_frame_recv_callback(half, TRUE, TRUE)
  <2>1. t = half \/ t \in H2Dispatch(half)
    BY <1>7 DEF on_frame_recv_callback
  <2> QED
    BY <1>2, <1>7, <2>1, DispatchKeepsCourse
<1> QED
  BY <1>1, <1>4, <1>5, <1>6, <1>7, CloseKeepsCourse

(* What is handed out, and what there is to hand out. *)
LEMMA CourseBounds ==
    ASSUME NEW stream, Course(stream)
    PROVE  stream \in H2Record /\ stream.len \in Nat /\ stream.offset \in Nat /\ stream.offset <= stream.len
<1>1. stream \in H2Record /\ stream.offset <= stream.len
  BY DEF Course
<1>2. stream.len \in H2Bodies \cup {0} /\ stream.offset \in Nat
  BY <1>1 DEF H2Record
<1>3. stream.len \in Nat
  <2>1. \A b \in H2Bodies : b \in Nat
    BY H2Assumption, Zenon
  <2>2. \A b \in H2Bodies \cup {0} : b \in Nat
    BY <2>1
  <2> QED
    BY <1>2, <2>2, Zenon
<1> QED
  BY <1>1, <1>2, <1>3

(* A DATA frame that leaves: the answer is over with its last byte. *)
LEMMA SendKeepsCourse ==
    ASSUME NEW stream, Course(stream), stream.response = "pending", NEW t \in nghttp2_session_send(stream)
    PROVE  Course(t)
<1>1. PICK length \in 1 .. H2Frame :
         t = LET sent == response_read_callback(stream, length)
             IN  IF sent.eof THEN on_stream_close_callback([sent EXCEPT !.response = "sent"]) ELSE sent
  BY DEF nghttp2_session_send
<1> DEFINE remaining == stream.len - stream.offset
           to_copy == IF length < remaining THEN length ELSE remaining
           o == stream.offset + to_copy
           sent == response_read_callback(stream, length)
<1>2. stream \in H2Record /\ stream.len \in Nat /\ stream.offset \in Nat /\ stream.offset <= stream.len
  BY CourseBounds
<1>3. o \in Nat /\ o <= stream.len
  BY <1>2, H2Assumption
<1>4. sent = [stream EXCEPT !.offset = o, !.eof = (o = stream.len)]
  BY <1>2 DEF response_read_callback, H2Record
<1>5. t = IF sent.eof THEN on_stream_close_callback([sent EXCEPT !.response = "sent"]) ELSE sent
  BY <1>1
<1> HIDE DEF o, sent
<1>6. /\ sent \in H2Record /\ sent.offset = o /\ sent.eof = (o = stream.len) /\ sent.len = stream.len
      /\ sent.ng = stream.ng /\ sent.data = stream.data /\ sent.calls = stream.calls
      /\ sent.response = "pending"
  BY <1>2, <1>3, <1>4 DEF H2Record
<1>7. Course(sent)
  BY <1>3, <1>6 DEF Course
<1>8. sent.eof => Course([sent EXCEPT !.response = "sent"])
  <2> DEFINE u == [sent EXCEPT !.response = "sent"]
  <2>1. /\ u \in H2Record /\ u.offset = o /\ u.len = stream.len /\ u.ng = sent.ng /\ u.data = sent.data
        /\ u.calls = sent.calls /\ u.response = "sent"
    BY <1>6 DEF H2Record
  <2> HIDE DEF u
  <2>2. sent.eof => Course(u)
    BY <1>6, <1>7, <2>1 DEF Course
  <2> QED
    BY <2>2 DEF u
<1> QED
  BY <1>5, <1>7, <1>8, CloseKeepsCourse

(* A connection whose streams keep their course keeps the invariant. *)
LEMMA BecomesKeeps ==
    ASSUME H2Inv, NEW c \in H2Conn, NEW state \in {"handshaking", "open", "freed"},
           NEW streams \in [H2Stream -> H2Record],
           \A s \in H2Stream : Course(streams[s]) /\ (streams[s].response = "pending" => state = "open"),
           H2Becomes(c, state, streams)
    PROVE  H2Inv'
<1>1. /\ h2_listen' = h2_listen
      /\ h2_session' \in [H2Conn -> {"none", "handshaking", "open", "freed"}]
      /\ h2_stream' \in [H2Conn -> [H2Stream -> H2Record]]
      /\ h2_session'[c] = state /\ h2_stream'[c] = streams
      /\ \A x \in H2Conn \ {c} : h2_session'[x] = h2_session[x] /\ h2_stream'[x] = h2_stream[x]
  BY DEF H2Becomes, H2Inv
<1>2. ASSUME NEW x \in H2Conn, NEW s \in H2Stream
      PROVE  Course(h2_stream'[x][s]) /\ (h2_stream'[x][s].response = "pending" => h2_session'[x] = "open")
  <2>1. CASE x = c
    BY <1>1, <2>1
  <2>2. CASE x # c
    BY <1>1, <2>2 DEF H2Inv
  <2> QED
    BY <2>1, <2>2
<1> QED
  BY <1>1, <1>2 DEF H2Inv

(* Closing a session drops the answers it waits for. *)
LEMMA SessionCloseKeeps ==
    ASSUME H2Inv, NEW c \in H2Conn, NEW streams \in [H2Stream -> H2Record],
           \A s \in H2Stream : Course(streams[s]), close_http2_session(c, streams)
    PROVE  H2Inv'
<1> DEFINE left == [s \in H2Stream |-> IF streams[s].response = "pending"
                                       THEN [streams[s] EXCEPT !.response = "dropped"]
                                       ELSE streams[s]]
<1>1. ASSUME NEW s \in H2Stream PROVE left[s] \in H2Record /\ Course(left[s]) /\ left[s].response # "pending"
  <2>1. Course(streams[s]) /\ streams[s] \in H2Record
    OBVIOUS
  <2> DEFINE t == [streams[s] EXCEPT !.response = "dropped"]
  <2>2. streams[s].response = "pending" => t \in H2Record /\ Course(t) /\ t.response # "pending"
    BY <2>1 DEF Course, H2Record
  <2> QED
    BY <2>1, <2>2
<1>2. left \in [H2Stream -> H2Record]
  BY <1>1
<1>3. H2Becomes(c, "freed", left)
  BY DEF close_http2_session
<1> HIDE DEF left
<1> QED
  BY <1>1, <1>2, <1>3, BecomesKeeps

(* What an event receives and sends. *)
LEMMA ServeKeeps ==
    ASSUME H2Inv, NEW c \in H2Conn, NEW mask, H2Serve(c, mask)
    PROVE  H2Inv'
<1> DEFINE streams == h2_stream[c]
           Kept(r) == r \in [H2Stream -> H2Record] /\ \A s \in H2Stream : Course(r[s])
           received == {streams} \cup
               IF "in" \in mask
               THEN UNION {{[streams EXCEPT ![s] = t] : t \in nghttp2_session_mem_recv(streams[s])}
                           : s \in H2Stream}
               ELSE {}
           Sent(r) == {r} \cup
               IF "out" \in mask
               THEN UNION {{[r EXCEPT ![s] = t] : t \in nghttp2_session_send(r[s])} : s \in H2Sendable(r)}
               ELSE {}
<1>0. H2Crash => H2Inv'
  BY DEF H2Crash, H2Inv
<1>1. \E r \in received : close_http2_session(c, r) \/ (\E r2 \in Sent(r) : H2Becomes(c, "open", r2)) \/ H2Crash
  BY Zenon DEF H2Serve
<1>2. Kept(streams)
  BY DEF H2Inv
<1>3. ASSUME NEW r, Kept(r), NEW s \in H2Stream, NEW t, Course(t)
      PROVE  Kept([r EXCEPT ![s] = t])
  BY <1>3 DEF Course
<1>4. ASSUME NEW r \in received PROVE Kept(r)
  <2>1. r = streams \/ \E s \in H2Stream : \E t \in nghttp2_session_mem_recv(streams[s]) : r = [streams EXCEPT ![s] = t]
    BY <1>4
  <2>2. ASSUME NEW s \in H2Stream, NEW t \in nghttp2_session_mem_recv(streams[s]) PROVE Course(t)
    BY <1>2, ReceiveKeepsCourse
  <2> HIDE DEF Kept, streams
  <2> QED
    BY <1>2, <1>3, <2>1, <2>2
<1>5. ASSUME NEW r, Kept(r), NEW r2 \in Sent(r) PROVE Kept(r2)
  <2>1. \/ r2 = r
        \/ \E s \in H2Stream : /\ r[s].response = "pending"
                               /\ \E t \in nghttp2_session_send(r[s]) : r2 = [r EXCEPT ![s] = t]
    BY <1>5 DEF H2Sendable
  <2>2. ASSUME NEW s \in H2Stream, r[s].response = "pending", NEW t \in nghttp2_session_send(r[s]) PROVE Course(t)
    BY <1>5, <2>2, SendKeepsCourse
  <2> HIDE DEF Kept
  <2> QED
    BY <1>3, <1>5, <2>1, <2>2
<1> HIDE DEF received, Sent
<1>6. PICK r \in received : close_http2_session(c, r) \/ (\E r2 \in Sent(r) : H2Becomes(c, "open", r2)) \/ H2Crash
  BY <1>1
<1>7. Kept(r)
  BY <1>4
<1>8. ASSUME NEW r2 \in Sent(r), H2Becomes(c, "open", r2) PROVE H2Inv'
  BY <1>5, <1>7, <1>8, BecomesKeeps
<1> QED
  BY <1>0, <1>6, <1>7, <1>8, SessionCloseKeeps

(* Every step of the HTTP/2 server keeps the invariant. *)
LEMMA H2Step == H2Inv /\ [H2Next]_h2vars => H2Inv'
<1> SUFFICES ASSUME H2Inv, [H2Next]_h2vars PROVE H2Inv'
  OBVIOUS
<1>1. CASE UNCHANGED h2vars
  BY <1>1 DEF h2vars, H2Inv
<1>2. CASE quicpro_http2_server_listen
  BY <1>2 DEF quicpro_http2_server_listen, H2Inv
<1>3. ASSUME NEW c \in H2Conn, h2_accept(c) PROVE H2Inv'
  <2>1. H2Becomes(c, "handshaking", h2_stream[c]) /\ h2_session[c] = "none"
    BY <1>3 DEF h2_accept, H2Becomes, H2Inv
  <2>2. \A s \in H2Stream : Course(h2_stream[c][s]) /\ h2_stream[c][s].response # "pending"
    BY <2>1 DEF H2Inv
  <2>3. h2_stream[c] \in [H2Stream -> H2Record]
    BY DEF H2Inv
  <2> QED
    BY <2>1, <2>2, <2>3, BecomesKeeps
<1>4. ASSUME NEW c \in H2Conn, h2_handshake_event(c) PROVE H2Inv'
  <2>1. \A s \in H2Stream : Course(h2_stream[c][s])
    BY DEF H2Inv
  <2>2. h2_stream[c] \in [H2Stream -> H2Record]
    BY DEF H2Inv
  <2>3. CASE close_http2_session(c, h2_stream[c])
    BY <1>4, <2>1, <2>2, <2>3, SessionCloseKeeps
  <2>4. CASE H2Crash
    BY <2>4 DEF H2Crash, H2Inv
  <2>5. ASSUME NEW mask, H2Serve(c, mask) PROVE H2Inv'
    BY <1>4, <2>5, ServeKeeps
  <2> QED
    BY <1>4, <2>3, <2>4, <2>5 DEF h2_handshake_event
<1>5. ASSUME NEW c \in H2Conn, NEW mask, h2_handle_client_event(c, mask) PROVE H2Inv'
  BY <1>5, ServeKeeps DEF h2_handle_client_event
<1> QED
  BY <1>1, <1>2, <1>3, <1>4, <1>5 DEF H2Next

(* No connection has a stream when the server is called. *)
LEMMA H2Start == Init => H2Inv
<1>1. H2Idle \in H2Record /\ Course(H2Idle) /\ H2Idle.response = "none"
  <2>1. H2Idle \in H2Record
    BY SMTT(30) DEF H2Idle, H2Record
  <2>2. /\ H2Idle.ng = "idle" /\ H2Idle.calls = 0 /\ H2Idle.response = "none"
        /\ H2Idle.offset = 0 /\ H2Idle.len = 0
    BY DEF H2Idle
  <2> QED
    BY <2>1, <2>2 DEF Course
<1> QED
  BY <1>1 DEF Init, H2Init, H2Inv

(* For any number of connections and streams and bodies of any length:     *)
(* whatever frames the peer sends and however sending is cut short, the    *)
(* stream data nghttp2 points to for a waiting answer is alive and its     *)
(* session open (on_frame_recv_callback, on_stream_close_callback).  The   *)
(* body's own bytes are not covered: they may be released.                 *)
THEOREM ResponseHasItsStreamCorrect == Spec => []ResponseHasItsStream
<1>1. H2Inv => ResponseHasItsStream
  BY DEF H2Inv, Course, ResponseHasItsStream
<1> QED
  BY <1>1, H2Start, H2Step, PartSteps, PTL DEF Spec

(* A request is handled at most once and only when it has ended, and its   *)
(* answer is over when as many bytes as it has were handed out             *)
(* (on_frame_recv_callback, response_read_callback).                       *)
THEOREM AnsweredOnceCorrect == Spec => []AnsweredOnce
<1>1. ASSUME NEW stream, Course(stream)
      PROVE  /\ stream.calls <= 1
             /\ stream.calls = 1 => stream.ng \in {"half", "closed"}
             /\ stream.offset <= stream.len
             /\ stream.response = "sent" => stream.calls = 1 /\ stream.offset = stream.len
  BY <1>1 DEF Course, H2Record
<1>2. H2Inv => AnsweredOnce
  BY <1>1 DEF H2Inv, AnsweredOnce
<1> QED
  BY <1>2, H2Start, H2Step, PartSteps, PTL DEF Spec

------------------------------------------------------------------------------
(* The datagram server *)

(* Between passes nothing is left to visit; a visit has taken its session  *)
(* off the list; an open server has what listen uses.                      *)
PassInv ==
    /\ q_session \in [QCid -> [state : {"none", "in_table", "gone"}, est : BOOLEAN, closed : BOOLEAN,
                               readable : SUBSET QStream]]
    /\ q_server \in [kind : QKinds, resource : {"none", "open", "closed"}, fd : BOOLEAN, epoll : BOOLEAN,
                     config : BOOLEAN, listening : BOOLEAN, table : BOOLEAN]
    /\ PassTouchesLiveSessions
    /\ q_pc \in {"script", "wait", "crashed"} => q_todo = {}
    /\ q_pc = "visit" => q_at.cid \notin q_todo
    /\ q_pc \in {"script", "wait", "pass", "visit", "crashed"}
    /\ q_at.streams \subseteq QStream
    /\ q_server.resource = "open" => q_server.fd /\ q_server.config /\ q_server.table

(* Nothing is said of datagrams and exceptions. *)
LEMMA PassUntouched ==
    ASSUME PassInv, UNCHANGED <<q_server, q_session, q_pc, q_todo, q_at>>
    PROVE  PassInv'
  BY DEF PassInv, PassTouchesLiveSessions, Table

(* The wait: a datagram may add a session or change one. *)
LEMMA WaitKeeps == ASSUME PassInv, q_epoll_wait PROVE PassInv'
<1> DEFINE SessionSet == [state : {"none", "in_table", "gone"}, est : BOOLEAN, closed : BOOLEAN,
                          readable : SUBSET QStream]
<1>1. q_session' \in [QCid -> SessionSet]
  <2>1. ASSUME NEW d \in q_net, q_session' \in q_receive(d) PROVE q_session' \in [QCid -> SessionSet]
    <3>1. CASE q_session' = q_session
      BY <3>1 DEF PassInv
    <3>2. CASE d.dcid \in Table /\ q_session' = [q_session EXCEPT ![d.dcid] = quiche_conn_recv(@, d.holds)]
      <4>1. ASSUME NEW x \in SessionSet, NEW h PROVE quiche_conn_recv(x, h) \in SessionSet
        BY DEF quiche_conn_recv
      <4>2. d.dcid \in QCid /\ q_session[d.dcid] \in SessionSet
        BY <3>2 DEF Table, PassInv
      <4> HIDE DEF SessionSet
      <4>3. q_session \in [QCid -> SessionSet]
        BY DEF PassInv, SessionSet
      <4> QED
        BY <3>2, <4>1, <4>2, <4>3
    <3>3. ASSUME NEW s \in QCid, q_session' = [q_session EXCEPT ![s] = [QNoSession EXCEPT !.state = "in_table"]]
          PROVE  q_session' \in [QCid -> SessionSet]
      BY <3>3 DEF PassInv, QNoSession
    <3> QED
      BY <2>1, <3>1, <3>2, <3>3 DEF q_receive
  <2> QED
    BY <2>1 DEF q_epoll_wait, PassInv
<1> HIDE DEF SessionSet
<1>2. /\ q_pc = "wait" /\ q_pc' = "pass" /\ q_server' = q_server /\ q_at' = q_at
      /\ q_todo' = {s \in QCid : q_session'[s].state = "in_table"}
  BY DEF q_epoll_wait
<1>3. PassTouchesLiveSessions'
  BY <1>2 DEF PassTouchesLiveSessions, PassInv, Table
<1> QED
  BY <1>1, <1>2, <1>3 DEF PassInv, SessionSet

(* A visit, its handler calls and its end. *)
LEMMA VisitKeeps ==
    ASSUME PassInv, NEW s \in QCid, q_visit(s)
    PROVE  PassInv'
<1>1. PICK closed \in {q_session[s].closed, TRUE} : q_session' = [q_session EXCEPT ![s].closed = closed]
  BY DEF q_visit
<1>2. closed \in BOOLEAN
  BY DEF PassInv
<1>3. q_session' \in [QCid -> [state : {"none", "in_table", "gone"}, est : BOOLEAN, closed : BOOLEAN,
                               readable : SUBSET QStream]]
  BY <1>1, <1>2 DEF PassInv
<1>4. Table' = Table
  BY <1>1 DEF Table, PassInv
<1>5. /\ s \in q_todo /\ q_todo' = q_todo \ {s} /\ q_pc = "pass" /\ q_pc' = "visit" /\ q_server' = q_server
      /\ q_at'.cid = s /\ q_at'.streams \subseteq QStream
  BY DEF q_visit, PassInv
<1> QED
  BY <1>3, <1>4, <1>5 DEF PassInv, PassTouchesLiveSessions

(* A handler may close sessions and read a stream: the table stays. *)
LEMMA HandlerKeeps ==
    ASSUME PassInv, NEW t \in QStream, q_handler(t)
    PROVE  PassInv'
<1>1. /\ q_session' \in [QCid -> [state : {"none", "in_table", "gone"}, est : BOOLEAN, closed : BOOLEAN,
                                  readable : SUBSET QStream]]
      /\ \A x \in QCid : q_session'[x].state = q_session[x].state
  <2>1. CASE q_thrown
    BY <2>1 DEF q_handler, PassInv
  <2>2. CASE ~q_thrown
    <3>1. PICK closes \in SUBSET Table, reads \in SUBSET {t} :
             q_session' = [x \in QCid |->
                [q_session[x] EXCEPT !.closed = @ \/ x \in closes,
                                     !.readable = IF x = q_at.cid THEN @ \ reads ELSE @]]
      BY <2>2 DEF q_handler
    <3>2. ASSUME NEW x \in QCid
          PROVE  /\ q_session'[x] \in [state : {"none", "in_table", "gone"}, est : BOOLEAN, closed : BOOLEAN,
                                       readable : SUBSET QStream]
                 /\ q_session'[x].state = q_session[x].state
      <4> DEFINE y == q_session[x]
                 c == y.closed \/ x \in closes
                 r == IF x = q_at.cid THEN y.readable \ reads ELSE y.readable
      <4>1. y \in [state : {"none", "in_table", "gone"}, est : BOOLEAN, closed : BOOLEAN, readable : SUBSET QStream]
        BY DEF PassInv
      <4>2. c \in BOOLEAN /\ r \in SUBSET QStream
        BY <4>1
      <4>3. q_session'[x] = [y EXCEPT !.closed = c, !.readable = r]
        BY <3>1, <4>1
      <4> HIDE DEF y, c, r
      <4>4. /\ q_session'[x] \in [state : {"none", "in_table", "gone"}, est : BOOLEAN, closed : BOOLEAN,
                                   readable : SUBSET QStream]
            /\ q_session'[x].state = y.state
        BY <4>1, <4>2, <4>3
      <4> QED
        BY <4>4 DEF y
    <3> QED
      BY <3>1, <3>2
  <2> QED
    BY <2>1, <2>2
<1>2. Table' = Table
  BY <1>1 DEF Table
<1>3. /\ q_pc = "visit" /\ q_pc' = q_pc /\ q_todo' = q_todo /\ q_server' = q_server
      /\ q_at' = [q_at EXCEPT !.streams = @ \ {t}]
  BY DEF q_handler
<1> QED
  BY <1>1, <1>2, <1>3 DEF PassInv, PassTouchesLiveSessions

(* A closed session is off the list when it is removed. *)
LEMMA VisitedKeeps == ASSUME PassInv, q_visited PROVE PassInv'
<1>1. q_at.cid \in Table /\ q_at.cid \notin q_todo /\ q_at.cid \in QCid
  BY DEF q_visited, PassInv, PassTouchesLiveSessions, Table
<1>2. /\ q_session' \in [QCid -> [state : {"none", "in_table", "gone"}, est : BOOLEAN, closed : BOOLEAN,
                                  readable : SUBSET QStream]]
      /\ \A x \in QCid \ {q_at.cid} : q_session'[x] = q_session[x]
  BY <1>1 DEF q_visited, PassInv, QNoSession
<1>3. q_todo \subseteq Table'
  BY <1>1, <1>2 DEF PassInv, PassTouchesLiveSessions, Table
<1>4. /\ q_pc' = "pass" /\ q_at' = QNowhere /\ q_todo' = q_todo /\ q_server' = q_server /\ q_pc = "visit"
  BY DEF q_visited
<1> QED
  BY <1>2, <1>3, <1>4 DEF PassInv, PassTouchesLiveSessions, QNowhere

(* Closing a server, or failing to wait, empties the table it frees. *)
LEMMA EndKeeps == ASSUME PassInv, q_epoll_fails \/ quicpro_server_close PROVE PassInv'
<1> DEFINE Emptied == [s \in QCid |-> IF s \in Table THEN [QNoSession EXCEPT !.state = "gone"] ELSE q_session[s]]
<1>1. /\ Emptied \in [QCid -> [state : {"none", "in_table", "gone"}, est : BOOLEAN, closed : BOOLEAN,
                                readable : SUBSET QStream]]
      /\ \A s \in QCid : Emptied[s].state # "in_table"
  BY DEF PassInv, QNoSession, Table
<1> HIDE DEF Emptied
<1>2. CASE q_epoll_fails /\ q_server.kind = "server"
  <2>1. /\ q_session' = q_session /\ q_pc' = "script" /\ q_todo' = {} /\ q_at' = q_at
        /\ q_server' = [q_server EXCEPT !.epoll = FALSE]
    BY <1>2 DEF q_epoll_fails, PassInv
  <2> QED
    BY <2>1 DEF PassInv, PassTouchesLiveSessions, Table
<1>3. CASE q_epoll_fails /\ q_server.kind # "server"
  <2>1. /\ q_session' = Emptied /\ q_pc' = "script" /\ q_todo' = {} /\ q_at' = q_at
        /\ q_server' = QClosed("http3", "none")
    BY <1>3 DEF q_epoll_fails, PassInv, Emptied
  <2> QED
    BY <1>1, <2>1 DEF PassInv, PassTouchesLiveSessions, Table, QClosed, QKinds
<1>4. CASE quicpro_server_close
  <2>1. /\ q_session' = Emptied /\ q_pc' \in {"script", "crashed"} /\ q_todo' = {} /\ q_at' = QNowhere
        /\ q_server' = QClosed("server", "closed")
    BY <1>4 DEF quicpro_server_close, Emptied
  <2> QED
    BY <1>1, <2>1 DEF PassInv, PassTouchesLiveSessions, Table, QClosed, QKinds, QNowhere
<1> QED
  BY <1>2, <1>3, <1>4

(* Every step of the datagram server keeps the invariant. *)
LEMMA PassStep == PassInv /\ [QuicNext]_quicvars => PassInv'
<1> SUFFICES ASSUME PassInv, [QuicNext]_quicvars PROVE PassInv'
  OBVIOUS
<1>1. CASE UNCHANGED quicvars
  BY <1>1, PassUntouched DEF quicvars
<1>2. CASE q_pass_ends
  BY <1>2 DEF q_pass_ends, PassInv, PassTouchesLiveSessions, Table
<1>3. CASE quicpro_server_create
  <2>1. CASE q_server' = q_server
    BY <1>3, <2>1, PassUntouched DEF quicpro_server_create
  <2>2. CASE q_server' = [q_server EXCEPT !.resource = "open", !.fd = TRUE, !.config = TRUE, !.table = TRUE]
    <3>1. /\ q_server' \in [kind : QKinds, resource : {"none", "open", "closed"}, fd : BOOLEAN, epoll : BOOLEAN,
                            config : BOOLEAN, listening : BOOLEAN, table : BOOLEAN]
          /\ q_server'.fd /\ q_server'.config /\ q_server'.table
      BY <2>2 DEF PassInv
    <3> QED
      BY <1>3, <3>1 DEF quicpro_server_create, PassInv, PassTouchesLiveSessions, Table
  <2> QED
    BY <1>3, <2>1, <2>2 DEF quicpro_server_create
<1>4. CASE quicpro_server_listen
  <2>1. CASE UNCHANGED <<q_server, q_pc>>
    BY <1>4, <2>1, PassUntouched DEF quicpro_server_listen
  <2>2. CASE q_server' = [q_server EXCEPT !.epoll = TRUE, !.listening = TRUE] /\ q_pc' = "wait"
    <3>1. /\ q_server' \in [kind : QKinds, resource : {"none", "open", "closed"}, fd : BOOLEAN, epoll : BOOLEAN,
                            config : BOOLEAN, listening : BOOLEAN, table : BOOLEAN]
          /\ q_server'.fd /\ q_server'.config /\ q_server'.table /\ q_server'.epoll
      BY <1>4, <2>2 DEF PassInv, quicpro_server_listen
    <3> QED
      BY <1>4, <2>2, <3>1 DEF quicpro_server_listen, PassInv, PassTouchesLiveSessions, Table
  <2> QED
    BY <1>4, <2>1, <2>2 DEF quicpro_server_listen
<1>5. CASE quicpro_http3_server_listen
  <2>1. CASE UNCHANGED <<q_server, q_pc>>
    BY <1>5, <2>1, PassUntouched DEF quicpro_http3_server_listen
  <2>2. CASE ~UNCHANGED <<q_server, q_pc>>
    <3>1. /\ q_server' = [kind |-> "http3", resource |-> "none", fd |-> TRUE, epoll |-> TRUE,
                          config |-> TRUE, listening |-> TRUE, table |-> TRUE]
          /\ q_pc' = "wait" /\ q_pc = "script" /\ UNCHANGED <<q_session, q_todo, q_at>>
      BY <1>5, <2>2 DEF quicpro_http3_server_listen
    <3>2. /\ q_server' \in [kind : QKinds, resource : {"none", "open", "closed"}, fd : BOOLEAN, epoll : BOOLEAN,
                            config : BOOLEAN, listening : BOOLEAN, table : BOOLEAN]
          /\ q_server'.fd /\ q_server'.config /\ q_server'.table /\ q_server'.epoll
      BY <3>1 DEF QKinds
    <3> QED
      BY <3>1, <3>2 DEF PassInv, PassTouchesLiveSessions, Table
  <2> QED
    BY <2>1, <2>2
<1>6. ASSUME NEW d \in Datagram, q_client_sends(d) \/ q_client_lost(d) PROVE PassInv'
  BY <1>6, PassUntouched DEF q_client_sends, q_client_lost
<1>7. ASSUME NEW t \in QStream, q_handler_stale(t) PROVE PassInv'
  BY <1>7 DEF q_handler_stale, PassInv, PassTouchesLiveSessions, Table, QNowhere
<1> QED
  BY <1>1, <1>2, <1>3, <1>4, <1>5, <1>6, <1>7, WaitKeeps, VisitKeeps, HandlerKeeps, VisitedKeeps, EndKeeps
     DEF QuicNext, QuicLoop

(* No server is open and no session in a table when the script starts. *)
LEMMA PassStart == Init => PassInv
<1> SUFFICES ASSUME QuicInit PROVE PassInv
  BY DEF Init
<1>1. PICK kind \in QKinds : q_server = QClosed(kind, "none")
  BY DEF QuicInit
<1>2. q_server \in [kind : QKinds, resource : {"none", "open", "closed"}, fd : BOOLEAN, epoll : BOOLEAN,
                    config : BOOLEAN, listening : BOOLEAN, table : BOOLEAN]
  BY <1>1 DEF QClosed
<1>3. QNoSession \in [state : {"none", "in_table", "gone"}, est : BOOLEAN, closed : BOOLEAN,
                      readable : SUBSET QStream]
  BY DEF QNoSession
<1>4. q_session \in [QCid -> [state : {"none", "in_table", "gone"}, est : BOOLEAN, closed : BOOLEAN,
                              readable : SUBSET QStream]]
  BY <1>3 DEF QuicInit
<1>5. q_pc = "script" /\ q_todo = {} /\ q_at.streams = {}
  BY DEF QuicInit, QNowhere
<1>6. Table = {}
  BY DEF Table, QuicInit, QNoSession
<1>7. PassTouchesLiveSessions
  BY <1>5, <1>6 DEF PassTouchesLiveSessions
<1> QED
  BY <1>1, <1>2, <1>4, <1>5, <1>7 DEF PassInv, QClosed

(* Whatever datagrams come and whichever sessions the handler closes, a    *)
(* pass only touches sessions, a table and a socket that exist             *)
(* (quicpro_server_listen, quicpro_http3_server_listen).  A pass whose     *)
(* handler closes the server is followed only up to that call.             *)
THEOREM PassTouchesLiveSessionsCorrect == Spec => []PassTouchesLiveSessions
<1>1. PassInv => PassTouchesLiveSessions
  BY DEF PassInv
<1> QED
  BY <1>1, PassStart, PassStep, PartSteps, PTL DEF Spec

AdminCalls ==
    [pc : {"none", "failed", "starting", "test", "accept", "client", "exited"},
     ctx : {"none", "alive", "freed"}, fd : BOOLEAN,
     told : {"nothing", "true", "exception"}]

(* What an admin call has and what its caller was told. *)
LEMMA AdminStep == AdminTypeOK /\ [AdminNext]_adminvars => AdminTypeOK'
<1> SUFFICES ASSUME AdminTypeOK, [AdminNext]_adminvars PROVE AdminTypeOK'
  OBVIOUS
<1>0. adm \in [AdmCall -> AdminCalls]
  BY DEF AdminTypeOK, AdminCalls
<1>a. ASSUME NEW a \in AdmCall, NEW c \in AdminCalls, adm' = [adm EXCEPT ![a] = c] PROVE AdminTypeOK'
  <2>1. adm' \in [AdmCall -> AdminCalls]
    BY <1>0, <1>a
  <2> QED
    BY <2>1 DEF AdminTypeOK, AdminCalls
<1>1. CASE UNCHANGED adminvars
  BY <1>1 DEF adminvars, AdminTypeOK
<1>2. ASSUME NEW a \in AdmCall, quicpro_admin_api_listen(a) PROVE AdminTypeOK'
  <2>1. CASE \E ctx \in {"none", "freed"} :
                adm' = [adm EXCEPT ![a] = [pc |-> "failed", ctx |-> ctx, fd |-> FALSE, told |-> "exception"]]
    <3>1. PICK ctx \in {"none", "freed"} :
                adm' = [adm EXCEPT ![a] = [pc |-> "failed", ctx |-> ctx, fd |-> FALSE, told |-> "exception"]]
      BY <2>1
    <3>2. [pc |-> "failed", ctx |-> ctx, fd |-> FALSE, told |-> "exception"] \in AdminCalls
      BY DEF AdminCalls
    <3> QED
      BY <1>a, <3>1, <3>2
  <2>2. CASE adm' = [adm EXCEPT ![a] = [pc |-> "starting", ctx |-> "alive", fd |-> FALSE, told |-> "true"]]
    <3>1. [pc |-> "starting", ctx |-> "alive", fd |-> FALSE, told |-> "true"] \in AdminCalls
      BY DEF AdminCalls
    <3> QED
      BY <1>a, <2>2, <3>1
  <2> QED
    BY <1>2, <2>1, <2>2 DEF quicpro_admin_api_listen
<1>3. ASSUME NEW a \in AdmCall, AdminCleanup(a) PROVE AdminTypeOK'
  <2>1. [adm[a] EXCEPT !.pc = "exited", !.fd = FALSE, !.ctx = "freed"] \in AdminCalls
    BY <1>0 DEF AdminCalls
  <2>2. adm' = [adm EXCEPT ![a] = [adm[a] EXCEPT !.pc = "exited", !.fd = FALSE, !.ctx = "freed"]]
    BY <1>0, <1>3 DEF AdminCleanup
  <2> QED
    BY <1>a, <2>1, <2>2
<1>4. ASSUME NEW a \in AdmCall, admin_socket(a) PROVE AdminTypeOK'
  BY <1>3, <1>4 DEF admin_socket, AdminTypeOK
<1>5. ASSUME NEW a \in AdmCall, admin_test(a) \/ admin_accept(a) \/ admin_client(a) PROVE AdminTypeOK'
  BY <1>3, <1>5 DEF admin_test, admin_accept, admin_client, AdminTypeOK
<1> QED
  BY <1>1, <1>2, <1>4, <1>5 DEF AdminNext

------------------------------------------------------------------------------
(* Cancel handlers *)

Holders(f) == {s \in ShStream : sh_stream[s].has /\ sh_stream[s].fn = f}

(* Only finitely many streams hold a handler, however many there may be. *)
RefsInv ==
    /\ sh_stream \in [ShStream -> [known : BOOLEAN, has : BOOLEAN, fn : ShCallable \cup {ShNone}, final : BOOLEAN]]
    /\ sh_refs \in [ShCallable -> Int]
    /\ sh_running \subseteq ShStream
    /\ \A f \in ShCallable : IsFiniteSet(Holders(f)) /\ sh_refs[f] = Cardinality(Holders(f))
    /\ \A s \in ShStream : sh_stream[s].has <=> sh_stream[s].fn # ShNone
    /\ \A s \in sh_running : sh_stream[s].has

(* A stream gives up its handler, takes another one, or both: the count of *)
(* each callable moves by what its holders gain or lose.                   *)
LEMMA HolderMoves ==
    ASSUME RefsInv, NEW s \in ShStream, NEW g \in ShCallable \cup {ShNone},
           sh_stream' = [sh_stream EXCEPT ![s].fn = g, ![s].has = (g # ShNone)],
           sh_refs' \in [ShCallable -> Int],
           \A f \in ShCallable :
              sh_refs'[f] = sh_refs[f] - (IF f = sh_stream[s].fn THEN 1 ELSE 0) + (IF f = g THEN 1 ELSE 0)
    PROVE  \A f \in ShCallable : IsFiniteSet(Holders(f)') /\ sh_refs'[f] = Cardinality(Holders(f)')
<1> SUFFICES ASSUME NEW f \in ShCallable
             PROVE  IsFiniteSet(Holders(f)') /\ sh_refs'[f] = Cardinality(Holders(f)')
  OBVIOUS
<1>1. IsFiniteSet(Holders(f)) /\ sh_refs[f] = Cardinality(Holders(f)) /\ sh_refs[f] \in Int /\ f # ShNone
  BY StreamAssumption DEF RefsInv
<1>2. s \in Holders(f) <=> f = sh_stream[s].fn
  BY <1>1 DEF RefsInv, Holders
<1>3. /\ \A x \in ShStream \ {s} : sh_stream'[x] = sh_stream[x]
      /\ sh_stream'[s].fn = g /\ (sh_stream'[s].has <=> g # ShNone)
  BY DEF RefsInv
<1>4. Holders(f)' = IF f = g THEN Holders(f) \cup {s} ELSE Holders(f) \ {s}
  <2>1. \A x \in ShStream \ {s} : x \in Holders(f)' <=> x \in Holders(f)
    BY <1>3 DEF Holders
  <2>2. s \in Holders(f)' <=> f = g
    BY <1>1, <1>3 DEF Holders
  <2>3. Holders(f) \subseteq ShStream /\ Holders(f)' \subseteq ShStream
    BY DEF Holders
  <2> QED
    BY <2>1, <2>2, <2>3
<1>5. CASE f = g
  <2>1. /\ IsFiniteSet(Holders(f) \cup {s})
        /\ Cardinality(Holders(f) \cup {s}) = IF s \in Holders(f) THEN Cardinality(Holders(f)) ELSE Cardinality(Holders(f)) + 1
    BY <1>1, FS_AddElement
  <2> QED
    BY <1>1, <1>2, <1>4, <1>5, <2>1
<1>6. CASE f # g
  <2>1. /\ IsFiniteSet(Holders(f) \ {s})
        /\ Cardinality(Holders(f) \ {s}) = IF s \in Holders(f) THEN Cardinality(Holders(f)) - 1 ELSE Cardinality(Holders(f))
    BY <1>1, FS_RemoveElement
  <2> QED
    BY <1>1, <1>2, <1>4, <1>6, <2>1
<1> QED
  BY <1>5, <1>6

(* Every step of a stream's handlers keeps the invariant. *)
LEMMA RefsStep == RefsInv /\ [ShNext]_shvars => RefsInv'
<1> SUFFICES ASSUME RefsInv, [ShNext]_shvars PROVE RefsInv'
  OBVIOUS
<1> DEFINE StreamSet == [known : BOOLEAN, has : BOOLEAN, fn : ShCallable \cup {ShNone}, final : BOOLEAN]
<1>1. ASSUME UNCHANGED <<sh_refs>>, sh_running' \subseteq ShStream, sh_stream' \in [ShStream -> StreamSet],
             \A s \in ShStream : sh_stream'[s].has = sh_stream[s].has /\ sh_stream'[s].fn = sh_stream[s].fn,
             \A s \in sh_running' : sh_stream[s].has
      PROVE  RefsInv'
  <2>1. \A f \in ShCallable : Holders(f)' = Holders(f)
    BY <1>1 DEF Holders
  <2> QED
    BY <1>1, <2>1 DEF RefsInv
<1>2. CASE sh_closes \/ UNCHANGED shvars
  BY <1>1, <1>2 DEF sh_closes, shvars, RefsInv
<1>3. ASSUME NEW s \in ShStream, sh_opens(s) \/ sh_final(s) PROVE RefsInv'
  <2>1. /\ sh_stream' \in [ShStream -> StreamSet]
        /\ \A x \in ShStream : sh_stream'[x].has = sh_stream[x].has /\ sh_stream'[x].fn = sh_stream[x].fn
    <3>1. CASE sh_stream' = [sh_stream EXCEPT ![s].known = TRUE]
      <4> DEFINE r == [sh_stream[s] EXCEPT !.known = TRUE]
      <4>1. sh_stream \in [ShStream -> StreamSet]
        BY DEF RefsInv
      <4>2. r \in StreamSet /\ r.has = sh_stream[s].has /\ r.fn = sh_stream[s].fn
        BY <1>3, <4>1
      <4>3. sh_stream' = [sh_stream EXCEPT ![s] = r]
        BY <3>1
      <4> HIDE DEF r, StreamSet
      <4> QED
        BY <1>3, <4>1, <4>2, <4>3
    <3>2. CASE sh_stream' = [sh_stream EXCEPT ![s].final = TRUE]
      <4> DEFINE r == [sh_stream[s] EXCEPT !.final = TRUE]
      <4>1. sh_stream \in [ShStream -> StreamSet]
        BY DEF RefsInv
      <4>2. r \in StreamSet /\ r.has = sh_stream[s].has /\ r.fn = sh_stream[s].fn
        BY <1>3, <4>1
      <4>3. sh_stream' = [sh_stream EXCEPT ![s] = r]
        BY <3>2
      <4> HIDE DEF r, StreamSet
      <4> QED
        BY <1>3, <4>1, <4>2, <4>3
    <3> QED
      BY <1>3, <3>1, <3>2 DEF sh_opens, sh_final
  <2> QED
    BY <1>1, <1>3, <2>1 DEF sh_opens, sh_final, RefsInv
<1>4. ASSUME NEW s \in ShStream, invoke_cancel_handler_calls(s) \/ quicpro_server_send_early_hints(s) PROVE RefsInv'
  BY <1>1, <1>4 DEF invoke_cancel_handler_calls, quicpro_server_send_early_hints, RefsInv
<1>5. ASSUME NEW s \in ShStream, NEW f \in ShCallable, quicpro_server_on_cancel(s, f) PROVE RefsInv'
  <2>1. sh_stream' = [sh_stream EXCEPT ![s].fn = f, ![s].has = (f # ShNone)]
    BY <1>5, StreamAssumption DEF quicpro_server_on_cancel
  <2>2. sh_refs' \in [ShCallable -> Int] /\ \A g \in ShCallable :
           sh_refs'[g] = sh_refs[g] - (IF g = sh_stream[s].fn THEN 1 ELSE 0) + (IF g = f THEN 1 ELSE 0)
    <3> DEFINE kept == IF sh_stream[s].has THEN Released(sh_refs, sh_stream[s].fn) ELSE sh_refs
    <3>1. kept \in [ShCallable -> Int] /\ \A g \in ShCallable :
             kept[g] = sh_refs[g] - (IF g = sh_stream[s].fn THEN 1 ELSE 0)
      BY <1>5, StreamAssumption, SMTT(30) DEF Released, RefsInv
    <3>2. sh_refs' = [kept EXCEPT ![f] = @ + 1]
      BY <1>5 DEF quicpro_server_on_cancel
    <3> HIDE DEF kept
    <3> QED
      BY <1>5, <3>1, <3>2
  <2>3. \A g \in ShCallable : IsFiniteSet(Holders(g)') /\ sh_refs'[g] = Cardinality(Holders(g)')
    <3>1. s \in ShStream /\ f \in ShCallable \cup {ShNone}
      BY <1>5
    <3> QED
      BY <2>1, <2>2, <3>1, HolderMoves
  <2>4. /\ sh_stream' \in [ShStream -> StreamSet]
        /\ \A x \in ShStream \ {s} : sh_stream'[x] = sh_stream[x]
        /\ sh_stream'[s].fn = f /\ sh_stream'[s].has
    <3> DEFINE r == [sh_stream[s] EXCEPT !.fn = f, !.has = TRUE]
    <3>1. sh_stream \in [ShStream -> StreamSet]
      BY DEF RefsInv
    <3>2. r \in StreamSet /\ r.fn = f /\ r.has = TRUE
      BY <1>5, <3>1
    <3>3. sh_stream' = [sh_stream EXCEPT ![s] = r]
      BY <1>5 DEF quicpro_server_on_cancel
    <3> HIDE DEF r, StreamSet
    <3> QED
      BY <1>5, <3>1, <3>2, <3>3
  <2>5. sh_running' = sh_running
    BY <1>5 DEF quicpro_server_on_cancel
  <2> QED
    BY <2>2, <2>3, <2>4, <2>5, StreamAssumption, SMTT(30) DEF RefsInv
<1>6. ASSUME NEW s \in ShStream, invoke_cancel_handler_returns(s) PROVE RefsInv'
  <2>1. sh_stream' = [sh_stream EXCEPT ![s].fn = ShNone, ![s].has = (ShNone # ShNone)]
    BY <1>6 DEF invoke_cancel_handler_returns
  <2>2. sh_refs' \in [ShCallable -> Int] /\ \A g \in ShCallable :
           sh_refs'[g] = sh_refs[g] - (IF g = sh_stream[s].fn THEN 1 ELSE 0) + (IF g = ShNone THEN 1 ELSE 0)
    BY <1>6, StreamAssumption DEF invoke_cancel_handler_returns, Released, RefsInv
  <2>3. \A g \in ShCallable : IsFiniteSet(Holders(g)') /\ sh_refs'[g] = Cardinality(Holders(g)')
    <3>1. s \in ShStream /\ ShNone \in ShCallable \cup {ShNone}
      BY <1>6
    <3> QED
      BY <2>1, <2>2, <3>1, HolderMoves
  <2>4. /\ sh_stream' \in [ShStream -> StreamSet]
        /\ \A x \in ShStream \ {s} : sh_stream'[x] = sh_stream[x]
        /\ sh_stream'[s].fn = ShNone /\ ~sh_stream'[s].has
    <3> DEFINE r == [sh_stream[s] EXCEPT !.fn = ShNone, !.has = FALSE]
    <3>1. sh_stream \in [ShStream -> StreamSet]
      BY DEF RefsInv
    <3>2. r \in StreamSet /\ r.fn = ShNone /\ r.has = FALSE
      BY <1>6, <3>1
    <3>3. sh_stream' = [sh_stream EXCEPT ![s] = r]
      BY <1>6 DEF invoke_cancel_handler_returns
    <3> HIDE DEF r, StreamSet
    <3> QED
      BY <1>6, <3>1, <3>2, <3>3
  <2>5. sh_running' = {}
    BY <1>6 DEF invoke_cancel_handler_returns
  <2> QED
    BY <2>2, <2>3, <2>4, <2>5, SMTT(30) DEF RefsInv
<1> QED
  BY <1>2, <1>3, <1>4, <1>5, <1>6 DEF ShNext

(* No callable is registered at first. *)
LEMMA RefsStart == Init => RefsInv
<1> SUFFICES ASSUME Init PROVE RefsInv
  OBVIOUS
<1>1. \A f : Holders(f) = {}
  BY DEF Init, ShInit, Holders
<1>2. IsFiniteSet({}) /\ Cardinality({}) = 0
  BY FS_EmptySet
<1>3. \A f \in ShCallable : IsFiniteSet(Holders(f)) /\ sh_refs[f] = Cardinality(Holders(f))
  BY <1>1, <1>2 DEF Init, ShInit
<1> QED
  BY <1>3 DEF Init, ShInit, RefsInv

(* Whatever a running cancel handler registers, each callable is held      *)
(* exactly as often as it is registered (quicpro_server_on_cancel,         *)
(* quicpro_internal_invoke_cancel_handler), for any number of streams.     *)
THEOREM HandlerRefsCorrect == Spec => []HandlerRefsBalanced
<1>1. RefsInv => HandlerRefsBalanced
  BY DEF RefsInv, HandlerRefsBalanced, Holders
<1> QED
  BY <1>1, RefsStart, RefsStep, PartSteps, PTL DEF Spec

------------------------------------------------------------------------------
(* Session objects *)

(* Wherever the constructor fails, what it made is native, and at most the *)
(* HTTP/3 configuration is left behind.                                    *)
LEMMA FailuresRelease ==
  ASSUME NEW f \in ConstructFailures
  PROVE  f.owned \subseteq Natives /\ f.owned \ f.released \subseteq {"h3_cfg"}
<1>1. CASE f = [owned |-> {}, released |-> {}]
  <2>1. f.owned = {}
    BY <1>1
  <2> QED
    BY <2>1
<1>2. CASE f = [owned |-> {"sock"}, released |-> {"sock"}]
  <2>1. f.owned = {"sock"} /\ f.released = {"sock"}
    BY <1>2
  <2> QED
    BY <2>1 DEF Natives
<1>3. CASE f = [owned |-> {"sock", "conn", "h3_cfg"}, released |-> {"sock", "conn"}]
  <2>1. f.owned = {"sock", "conn", "h3_cfg"} /\ f.released = {"sock", "conn"}
    BY <1>3
  <2> QED
    BY <2>1 DEF Natives
<1> QED
  BY <1>1, <1>2, <1>3 DEF ConstructFailures

ObjectInv ==
    /\ ss_state \in [SsObject -> {"none", "created", "open", "failed", "freed"}]
    /\ ss_native \in [SsObject -> SUBSET Natives]
    /\ \A o \in SsObject : ss_state[o] = "open" => ss_native[o] = Natives
    /\ NoSocketLeaks

(* A constructor that fails after it opened the socket closes it, and the  *)
(* destructor frees what the object holds (QuicSession::__construct,       *)
(* quicpro_session_free_obj): a socket or a connection is lost exactly     *)
(* when a constructor succeeds on an object that has a session.            *)
THEOREM NoSocketLeaksCorrect == Spec => []NoSocketLeaks
<1>1. Init => ObjectInv
  BY DEF Init, SsInit, ObjectInv, NoSocketLeaks
<1>2. ObjectInv /\ [SsNext]_ssvars => ObjectInv'
  <2> SUFFICES ASSUME ObjectInv, [SsNext]_ssvars PROVE ObjectInv'
    OBVIOUS
  <2>1. CASE UNCHANGED <<ss_state, ss_native, ss_lost, ss_again>>
    BY <2>1 DEF ObjectInv, NoSocketLeaks
  <2>2. ASSUME NEW o \in SsObject, quicpro_session_create(o) \/ quicpro_session_free_obj(o) PROVE ObjectInv'
    BY <2>2 DEF quicpro_session_create, quicpro_session_free_obj, ObjectInv, NoSocketLeaks
  <2>3. ASSUME NEW o \in SsObject, QuicSession__construct(o) PROVE ObjectInv'
    <3>1. ASSUME NEW f \in ConstructFailures,
                 ss_lost' = ss_lost \cup {<<o, n>> : n \in f.owned \ f.released},
                 ss_state' = [ss_state EXCEPT ![o] = IF @ = "open" THEN "open" ELSE "failed"],
                 UNCHANGED <<ss_native, ss_again>>
          PROVE  ObjectInv'
      <4>1. f.owned \ f.released \subseteq {"h3_cfg"}
        BY <3>1, FailuresRelease
      <4>2. \A x \in SsObject, n \in {"sock", "conn"} : <<x, n>> \in ss_lost' <=> <<x, n>> \in ss_lost
        BY <3>1, <4>1
      <4>3. ss_state[o] \in {"created", "open", "failed"}
        BY <2>3 DEF QuicSession__construct
      <4> QED
        BY <2>3, <3>1, <4>2, <4>3 DEF ObjectInv, NoSocketLeaks
    <3>2. ASSUME ss_native' = [ss_native EXCEPT ![o] = Natives], ss_state' = [ss_state EXCEPT ![o] = "open"],
                 ss_lost' = ss_lost \cup {<<o, n>> : n \in ss_native[o]},
                 ss_again' = IF ss_state[o] = "open" THEN ss_again \cup {o} ELSE ss_again
          PROVE  ObjectInv'
      <4>1. Natives # {} /\ {"sock", "conn"} \subseteq Natives
        BY DEF Natives
      <4>2. ss_native[o] = IF ss_state[o] = "open" THEN Natives ELSE {}
        BY <2>3 DEF ObjectInv, NoSocketLeaks
      <4>3. \A x \in SsObject, n \in {"sock", "conn"} :
               <<x, n>> \in ss_lost' <=> <<x, n>> \in ss_lost \/ (x = o /\ ss_state[o] = "open")
        BY <3>2, <4>1, <4>2
      <4>4. \A x \in SsObject, n \in {"sock", "conn"} : <<x, n>> \in ss_lost' <=> x \in ss_again'
        BY <3>2, <4>3 DEF ObjectInv, NoSocketLeaks
      <4> QED
        BY <2>3, <3>2, <4>1, <4>4 DEF ObjectInv, NoSocketLeaks
    <3> QED
      BY <2>3, <3>1, <3>2 DEF QuicSession__construct
  <2> QED
    BY <2>1, <2>2, <2>3 DEF SsNext, ssvars, QuicSession_close, quicpro_close, ss_receives,
       quicpro_export_session_ticket, quicpro_import_session_ticket
<1>3. ObjectInv => NoSocketLeaks
  BY DEF ObjectInv
<1> QED
  BY <1>1, <1>2, <1>3, PartSteps, PTL DEF Spec

(* Only tickets that fit get into a session or the ring                    *)
(* (quicpro_import_session_ticket tests the length first).                 *)
THEOREM TicketsFitCorrect == Spec => []TicketsFit
<1> DEFINE Inv == ss_ticket \in [SsObject -> SUBSET SsTicket] /\ ss_ring \subseteq SsTicket
<1>1. Init => Inv
  BY DEF Init, SsInit
<1>2. Inv /\ [SsNext]_ssvars => Inv'
  BY DEF SsNext, ssvars, quicpro_session_create, QuicSession__construct, QuicSession_close, quicpro_close,
     quicpro_session_free_obj, ss_receives, quicpro_export_session_ticket, quicpro_import_session_ticket
<1>3. Inv => TicketsFit
  BY DEF TicketsFit
<1> HIDE DEF Inv
<1> QED
  BY <1>1, <1>2, <1>3, PartSteps, PTL DEF Spec

------------------------------------------------------------------------------
(* Cross-origin requests and WebSocket frames *)

(* The CORS decision accepts exactly the origins that are entries of the   *)
(* configured list, the empty origin included, and none when there is no   *)
(* list: for lists and origins of any length over any alphabet without     *)
(* comma, blank and star (is_origin_allowed, quicpro_internal_handle_cors). *)
THEOREM OriginIsAnEntryCorrect == Spec => []OriginIsAnEntry
<1>1. CorsInit => CorsInv
  BY CorsStart
<1>2. CorsInv /\ [CorsNext]_corsvars => CorsInv'
  BY CorsStep
<1>3. CorsInv => OriginIsAnEntry
  BY DEF CorsInv
<1> QED
  BY <1>1, <1>2, <1>3, InitParts, PartSteps, PTL DEF Spec

(* A header that was sent is read back as it was meant, and not before its *)
(* last byte has arrived, for every length a size_t has                    *)
(* (create_ws_frame_header, parse_ws_frame_header).                        *)
THEOREM HeaderRoundTripCorrect == Spec => []HeaderRoundTrip
<1>1. WsInit => WsInv
  BY WsStart
<1>2. WsInv /\ [WsNext]_wsvars => WsInv'
  BY WsStep
<1>3. WsInv => HeaderRoundTrip
  BY WsRead
<1> QED
  BY <1>1, <1>2, <1>3, InitParts, PartSteps, PTL DEF Spec

------------------------------------------------------------------------------
(* Types *)

Masks == \A c \in DOMAIN h1_batch : h1_batch[c] \subseteq {"in", "out"}

(* A ready mask is made by epoll_wait and stays as it is. *)
LEMMA MaskStep == Masks /\ [H1Next]_h1vars => Masks'
<1> SUFFICES ASSUME Masks, [H1Next]_h1vars PROVE Masks'
  OBVIOUS
<1>1. CASE h1_epoll_wait
  <2>1. PICK ready \in SUBSET h1_edge :
           h1_batch' = [fd \in ready |-> IF fd = H1Listener THEN {"in"} ELSE H1Mask(fd)]
    BY <1>1 DEF h1_epoll_wait
  <2>2. \A c : H1Mask(c) \subseteq {"in", "out"}
    BY DEF H1Mask
  <2> QED
    BY <2>1, <2>2 DEF Masks
<1>2. ASSUME NEW fd, H1Rest(fd) PROVE Masks'
  BY <1>2 DEF H1Rest, Masks
<1>3. CASE h1_batch' = h1_batch
  BY <1>3 DEF Masks
<1> QED
  BY <1>1, <1>2, <1>3 DEF H1Next, h1vars, h1_accept, h1_handle_client_event, H1Connect, H1Flight, H1Send,
     H1Hangup, H1Window, H1Peer

NetInv ==
    /\ q_net \subseteq Datagram
    /\ q_at \in [cid : QCid \cup {QNoCid}, streams : SUBSET QStream]
    /\ q_thrown \in BOOLEAN

(* What the loop holds besides its sessions. *)
LEMMA NetStep == PassInv /\ NetInv /\ [QuicNext]_quicvars => NetInv'
<1> SUFFICES ASSUME PassInv, NetInv, [QuicNext]_quicvars PROVE NetInv'
  OBVIOUS
<1>1. CASE UNCHANGED <<q_net, q_at, q_thrown>>
  BY <1>1 DEF NetInv
<1>2. CASE q_epoll_wait \/ q_epoll_fails
  BY <1>2 DEF q_epoll_wait, q_epoll_fails, NetInv
<1>3. ASSUME NEW s \in QCid, q_visit(s) PROVE NetInv'
  <2>1. q_session[s].readable \subseteq QStream
    BY <1>3 DEF PassInv
  <2> QED
    BY <1>3, <2>1 DEF q_visit, NetInv
<1>4. ASSUME NEW t \in QStream, q_handler(t) PROVE NetInv'
  BY <1>4 DEF q_handler, NetInv
<1>5. CASE q_visited \/ quicpro_server_close
  BY <1>5 DEF q_visited, quicpro_server_close, NetInv, QNowhere
<1>6. ASSUME NEW d \in Datagram, q_client_sends(d) \/ q_client_lost(d) PROVE NetInv'
  BY <1>6 DEF q_client_sends, q_client_lost, NetInv
<1>7. ASSUME NEW t \in QStream, q_handler_stale(t) PROVE NetInv'
  BY <1>7 DEF q_handler_stale, NetInv, QNowhere
<1> QED
  BY <1>1, <1>2, <1>3, <1>4, <1>5, <1>6, <1>7
     DEF QuicNext, QuicLoop, quicvars, q_pass_ends, quicpro_server_create, quicpro_server_listen,
         quicpro_http3_server_listen

WireInv ==
    /\ sh_running = {} \/ \E s \in ShStream : sh_running = {s}
    /\ sh_closed \in BOOLEAN
    /\ sh_wire \in [ShStream -> {"none", "hints", "final"}]

(* One cancel handler runs at a time. *)
LEMMA WireStep == WireInv /\ [ShNext]_shvars => WireInv'
BY DEF WireInv, ShNext, shvars, sh_closes, sh_opens, sh_final, quicpro_server_on_cancel,
   invoke_cancel_handler_calls, invoke_cancel_handler_returns, quicpro_server_send_early_hints

(* The answer to a request is one of those handle_cors gives. *)
LEMMA CorsTypes == CorsTypeOK /\ [CorsNext]_corsvars => CorsTypeOK'
BY DEF CorsTypeOK, corsvars, CorsNext, quicpro_internal_handle_cors

(* What a session object owns, loses and holds. *)
LEMMA ObjectTypes == SsTypeOK /\ [SsNext]_ssvars => SsTypeOK'
<1> SUFFICES ASSUME SsTypeOK, [SsNext]_ssvars PROVE SsTypeOK'
  OBVIOUS
<1>1. CASE UNCHANGED ssvars
  BY <1>1 DEF ssvars, SsTypeOK
<1>2. ASSUME NEW o \in SsObject, QuicSession__construct(o) PROVE SsTypeOK'
  <2>1. \A f \in ConstructFailures : f.owned \subseteq Natives
    BY FailuresRelease
  <2>2. ss_lost' \subseteq SsObject \X Natives /\ ss_again' \subseteq SsObject
    BY <1>2, <2>1 DEF QuicSession__construct, SsTypeOK
  <2>3. /\ ss_state' \in [SsObject -> {"none", "created", "open", "failed", "freed"}]
        /\ ss_native' \in [SsObject -> SUBSET Natives]
    BY <1>2 DEF QuicSession__construct, SsTypeOK
  <2>4. /\ ss_closing' \subseteq SsObject /\ ss_cfg' = ss_cfg
        /\ ss_ticket' \in [SsObject -> SUBSET (SsTicket \cup SsBad)]
    BY <1>2 DEF QuicSession__construct, SsTypeOK
  <2> QED
    BY <2>2, <2>3, <2>4 DEF SsTypeOK
<1>3. ASSUME NEW o \in SsObject,
             \/ quicpro_session_create(o) \/ QuicSession_close(o) \/ quicpro_close(o)
             \/ quicpro_session_free_obj(o) \/ quicpro_export_session_ticket(o)
      PROVE  SsTypeOK'
  BY <1>3 DEF SsTypeOK, quicpro_session_create, QuicSession_close, quicpro_close, quicpro_session_free_obj,
     quicpro_export_session_ticket
<1>4. ASSUME NEW o \in SsObject, NEW t \in SsTicket \cup SsBad,
             ss_receives(o, t) \/ quicpro_import_session_ticket(o, t)
      PROVE  SsTypeOK'
  BY <1>4 DEF SsTypeOK, ss_receives, quicpro_import_session_ticket
<1> QED
  BY <1>1, <1>2, <1>3, <1>4 DEF SsNext

(* All of it together. *)
TypeInv ==
    /\ server \in Servers
    /\ Http1Inv /\ Masks /\ H2Inv /\ PassInv /\ NetInv /\ AdminTypeOK
    /\ RefsInv /\ WireInv /\ WsInv /\ CorsTypeOK /\ SsTypeOK

(* The parts' types are what their invariants say. *)
LEMMA TypesHold == TypeInv => ServerTypeOK
<1> SUFFICES ASSUME TypeInv PROVE ServerTypeOK
  OBVIOUS
<1>1. H1TypeOK
  <2>1. h1_conn \in [H1Conn -> Connection]
    BY DEF TypeInv, Http1Inv
  <2> QED
    BY <2>1 DEF TypeInv, Http1Inv, Masks, H1TypeOK, Connection
<1>2. H2TypeOK
  BY DEF TypeInv, H2Inv, H2TypeOK, H2Record
<1>3. QuicTypeOK
  BY DEF TypeInv, PassInv, NetInv, PassTouchesLiveSessions, Table, QuicTypeOK
<1>4. ShTypeOK
  <2>1. Cardinality({}) = 0 /\ \A s \in ShStream : Cardinality({s}) = 1
    BY FS_EmptySet, FS_Singleton
  <2>2. Cardinality(sh_running) <= 1
    BY <2>1 DEF TypeInv, WireInv
  <2> QED
    BY <2>2 DEF TypeInv, RefsInv, WireInv, ShTypeOK
<1>5. WsTypeOK
  <2>1. CASE ws_sent = NoFrame /\ ws_got = 0
    BY <2>1 DEF TypeInv, WsInv, WsTypeOK, NoFrame
  <2>2. CASE FrameSent(ws_sent) /\ ws_got \in 0..Len(ws_sent.header)
    <3>1. PICK len \in WsLengths, h \in Seq(Byte) : ws_sent.header = h /\ ws_sent.payload = len
      BY <2>2 DEF FrameSent
    <3>2. \A i \in DOMAIN h : h[i] \in Byte
      OBVIOUS
    <3> QED
      BY <2>2, <3>1, <3>2 DEF TypeInv, WsInv, WsTypeOK, Byte
  <2> QED
    BY <2>1, <2>2 DEF TypeInv, WsInv
<1> QED
  BY <1>1, <1>2, <1>3, <1>4, <1>5 DEF TypeInv, ServerTypeOK

(* They hold at first. *)
LEMMA TypesStart == Init => TypeInv
<1> SUFFICES ASSUME Init PROVE TypeInv
  OBVIOUS
<1>1. Masks
  BY DEF Init, H1Init, Masks
<1>2. NetInv
  BY DEF Init, QuicInit, NetInv, QNowhere
<1>3. WireInv
  BY DEF Init, ShInit, WireInv
<1>4. CorsTypeOK
  BY Zenon DEF Init, CorsInit, CorsTypeOK
<1>5. SsTypeOK
  BY DEF Init, SsInit, SsTypeOK
<1>6. server \in Servers
  BY DEF Init
<1>7. AdminTypeOK
  BY DEF Init, AdminInit, AdminTypeOK
<1> QED
  BY <1>1, <1>2, <1>3, <1>4, <1>5, <1>6, <1>7, Http1Start, H2Start, PassStart, RefsStart, WsStart, InitParts
     DEF TypeInv

(* Every part keeps to its types for any number of connections, streams,   *)
(* sessions and objects: among them the HTTP/1 reader, which never fills   *)
(* more than its buffer (handle_client_event offers SSL_read what is left  *)
(* of it), and the header bytes of a WebSocket frame.                      *)
THEOREM ServerTypesCorrect == Spec => []ServerTypeOK
<1>1. TypeInv /\ [Next]_vars => TypeInv'
  <2> SUFFICES ASSUME TypeInv, [Next]_vars PROVE TypeInv'
    OBVIOUS
  <2>1. server' = server
    BY DEF Next, vars, h1rest, h2rest, quicrest, adminrest, shrest, wsrest, corsrest, ssrest
  <2>2. Http1Inv' /\ Masks' /\ H2Inv' /\ PassInv' /\ NetInv' /\ AdminTypeOK'
    BY PartSteps, Http1Step, MaskStep, H2Step, PassStep, NetStep, AdminStep DEF TypeInv
  <2>3. RefsInv' /\ WireInv' /\ WsInv' /\ CorsTypeOK' /\ SsTypeOK'
    BY PartSteps, RefsStep, WireStep, WsStep, CorsTypes, ObjectTypes DEF TypeInv
  <2> QED
    BY <2>1, <2>2, <2>3 DEF TypeInv
<1> QED
  BY <1>1, TypesHold, TypesStart, PTL DEF Spec

==============================================================================
