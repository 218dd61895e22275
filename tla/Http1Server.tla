----------------------------- MODULE Http1Server -----------------------------
(***************************************************************************)
(* quicpro_http1_server_listen: one process, one edge-triggered epoll set, *)
(* TLS connections that are read, answered and closed.                     *)
(*                                                                         *)
(* epoll reports a descriptor when something changed since it was last     *)
(* reported (h1_edge), with everything it is ready for at that moment; the *)
(* events of one epoll_wait (h1_batch) are handled one after another while *)
(* peers go on sending and closing.  Bytes are counted; the request's      *)
(* header ends at byte h1_conn[c].header.                                  *)
(***************************************************************************)
EXTENDS Integers, FiniteSets

CONSTANTS
    H1Conn,      \* connections a run may see
    H1Listener,  \* the listening socket's epoll entry
    H1Buf,       \* READ_BUFFER_SIZE
    H1Headers,   \* byte counts at which a request's header may end
    H1Request,   \* bytes a peer may send in all
    H1Reply,     \* lengths of a response
    H1MaxEvents  \* MAX_EVENTS

ASSUME Http1Assumption ==
    /\ H1Listener \notin H1Conn
    /\ H1Buf \in Nat \ {0} /\ H1Request \in Nat /\ H1MaxEvents \in Nat \ {0}
    /\ H1Headers \subseteq Nat \ {0}
    /\ H1Reply \subseteq Nat \ {0}

VARIABLES
    h1_conn,   \* [H1Conn -> record]: the connection and what its peer did
    h1_edge,   \* descriptors with a change not reported yet
    h1_batch   \* [descriptor -> ready mask]: events still to be handled

h1vars == <<h1_conn, h1_edge, h1_batch>>

H1States == {"none", "backlog", "handshaking", "reading", "writing", "freed"}
H1Live == {"handshaking", "reading", "writing"}

H1Fresh == [state |-> "none", tls |-> 0, peer |-> "open", room |-> TRUE, header |-> 0,
            sent |-> 0, used |-> 0, left |-> 0, replies |-> 0, end |-> "no"]

(* listen: everything up to the first epoll_wait.  Where the socket would  *)
(* be bound, made non-blocking and listened on the code has a comment that *)
(* names these calls; the model takes them as made.                        *)
H1Init ==
    /\ h1_conn = [c \in H1Conn |-> H1Fresh]
    /\ h1_edge = {}
    /\ h1_batch = <<>>

------------------------------------------------------------------------------
(* The peer.  tls counts TLS flights: 1 the hello is on its way, 2 read by *)
(* the server, 3 the peer's last flight is on its way, 4 complete.         *)

H1Changed(c) == h1_edge' = IF h1_conn[c].state \in H1Live THEN h1_edge \cup {c} ELSE h1_edge

H1Peer(c, conn) ==
    /\ h1_conn[c].peer = "open"
    /\ h1_conn' = [h1_conn EXCEPT ![c] = conn]
    /\ UNCHANGED h1_batch

H1Connect(c) ==
    /\ h1_conn[c].state = "none"
    /\ \E header \in H1Headers : H1Peer(c, [h1_conn[c] EXCEPT !.state = "backlog", !.header = header])
    /\ h1_edge' = h1_edge \cup {H1Listener}

H1Flight(c) ==
    /\ h1_conn[c].state \in {"backlog"} \cup H1Live /\ h1_conn[c].tls \in {0, 2}
    /\ H1Peer(c, [h1_conn[c] EXCEPT !.tls = @ + 1])
    /\ H1Changed(c)

H1Send(c) ==
    /\ h1_conn[c].state \in H1Live /\ h1_conn[c].tls >= 3 /\ h1_conn[c].sent < H1Request
    /\ H1Peer(c, [h1_conn[c] EXCEPT !.sent = @ + 1])
    /\ H1Changed(c)

H1Hangup(c) ==
    /\ h1_conn[c].state \in {"backlog"} \cup H1Live
    /\ H1Peer(c, [h1_conn[c] EXCEPT !.peer = "closed"])
    /\ H1Changed(c)

(* The peer reads: what blocked SSL_write is gone. *)
H1Window(c) ==
    /\ h1_conn[c].state \in H1Live /\ ~h1_conn[c].room
    /\ H1Peer(c, [h1_conn[c] EXCEPT !.room = TRUE])
    /\ H1Changed(c)

------------------------------------------------------------------------------
H1Mask(c) ==
    (IF h1_conn[c].tls \in {1, 3} \/ h1_conn[c].sent > h1_conn[c].used \/ h1_conn[c].peer = "closed"
        THEN {"in"} ELSE {})
    \cup (IF h1_conn[c].room THEN {"out"} ELSE {})

h1_epoll_wait ==
    /\ h1_batch = <<>>
    /\ \E ready \in SUBSET h1_edge :
          /\ ready # {} /\ Cardinality(ready) <= H1MaxEvents
          /\ h1_batch' = [fd \in ready |-> IF fd = H1Listener THEN {"in"} ELSE H1Mask(fd)]
          /\ h1_edge' = h1_edge \ ready
    /\ UNCHANGED h1_conn

H1Rest(fd) == h1_batch' = [x \in DOMAIN h1_batch \ {fd} |-> h1_batch[x]]

(* Every queued connection is accepted and registered; a new socket can be *)
(* written to, which is a change epoll reports at once.                    *)
h1_accept ==
    LET queued == {c \in H1Conn : h1_conn[c].state = "backlog"}
    IN  /\ H1Listener \in DOMAIN h1_batch
        /\ h1_conn' = [c \in H1Conn |-> IF c \in queued THEN [h1_conn[c] EXCEPT !.state = "handshaking"]
                                        ELSE h1_conn[c]]
        /\ h1_edge' = h1_edge \cup queued
        /\ H1Rest(H1Listener)

close_client_connection(conn, end) == [conn EXCEPT !.state = "freed", !.end = end]

(* The three parts of handle_client_event: what each may turn a connection *)
(* into; a freed connection is a return.                                   *)

H1Handshake(conn) ==
    IF conn.state # "handshaking" THEN {conn}
    ELSE IF conn.tls = 3
    THEN {[conn EXCEPT !.tls = 4, !.state = "reading"], close_client_connection(conn, "dropped")}
    ELSE IF conn.peer = "closed" THEN {close_client_connection(conn, "dropped")}
    ELSE IF conn.tls = 1 THEN {[conn EXCEPT !.tls = 2], close_client_connection(conn, "dropped")}
    ELSE {conn}

(* Mutant: the whole buffer is offered to SSL_read again. *)
H1Space_Mutant(conn) == H1Buf

H1Space(conn) == H1Buf - conn.used

(* The request handler's answer: an array, with a response of some length, *)
(* or anything else, which leaves the connection reading.                  *)
(* Mutant: the state is left as it was. *)
H1Dispatch_Mutant(conn) ==
    {conn} \cup {[conn EXCEPT !.left = n, !.replies = @ + 1] : n \in H1Reply}

H1Dispatch(conn) ==
    {conn} \cup {[conn EXCEPT !.state = "writing", !.left = n, !.replies = @ + 1] : n \in H1Reply}

(* SSL_read gives at least one byte, or ends the connection: no data yet   *)
(* (WANT_READ), end of stream and a full buffer are the same to it.        *)
H1Read(conn, mask) ==
    LET avail == conn.sent - conn.used
    IN  IF "in" \notin mask \/ conn.state # "reading" THEN {conn}
        ELSE IF avail = 0 \/ H1Space(conn) = 0 THEN {close_client_connection(conn, "dropped")}
        ELSE UNION {LET read == [conn EXCEPT !.used = @ + n]
                    IN  IF read.used >= conn.header THEN H1Dispatch(read) ELSE {read}
                    : n \in {k \in 1..avail : k <= H1Space(conn)}}

(* SSL_write takes all that is left, or would block until the peer has     *)
(* read, or fails.                                                         *)
H1Write(conn, mask) ==
    IF "out" \notin mask \/ conn.state # "writing" THEN {conn}
    ELSE {close_client_connection([conn EXCEPT !.left = 0], "answered"), [conn EXCEPT !.room = FALSE]}
         \cup (IF conn.peer = "closed" THEN {close_client_connection(conn, "dropped")} ELSE {})

(* Mutant: the descriptor stays in the epoll set. *)
EPOLL_CTL_DEL_Mutant(c) == h1_edge' = h1_edge

EPOLL_CTL_DEL(c) == h1_edge' = h1_edge \ {c}

h1_handle_client_event(c) ==
    /\ c \in DOMAIN h1_batch
    /\ \E shaken \in H1Handshake(h1_conn[c]) :
       \E read \in H1Read(shaken, h1_batch[c]) :
       \E conn \in H1Write(read, h1_batch[c]) :
          /\ h1_conn' = [h1_conn EXCEPT ![c] = conn]
          /\ IF conn.state = "freed" THEN EPOLL_CTL_DEL(c) ELSE UNCHANGED h1_edge
    /\ H1Rest(c)

H1Next ==
    \/ h1_epoll_wait
    \/ h1_accept
    \/ \E c \in H1Conn :
          \/ h1_handle_client_event(c)
          \/ H1Connect(c) \/ H1Flight(c) \/ H1Send(c) \/ H1Hangup(c) \/ H1Window(c)

H1Spec == H1Init /\ [][H1Next]_h1vars

------------------------------------------------------------------------------
H1TypeOK ==
    /\ h1_conn \in [H1Conn -> [state : H1States, tls : 0..4, peer : {"open", "closed"}, room : BOOLEAN,
                               header : H1Headers \cup {0}, sent : 0..H1Request, used : 0..H1Buf,
                               left : H1Reply \cup {0}, replies : Nat, end : {"no", "answered", "dropped"}]]
    /\ h1_edge \subseteq H1Conn \cup {H1Listener}
    /\ DOMAIN h1_batch \subseteq H1Conn \cup {H1Listener}
    /\ \A c \in DOMAIN h1_batch : h1_batch[c] \subseteq {"in", "out"}

(* No event, reported or about to be reported, names a connection that     *)
(* close_client_connection freed: epoll's entry holds the bare pointer.    *)
NoEventAfterFree ==
    \A c \in (DOMAIN h1_batch \cup h1_edge) \ {H1Listener} : h1_conn[c].state \in H1Live

(* A connection gives at most one response, a response only once the       *)
(* header has been read, and it ends as answered only when every byte of   *)
(* that response was written.                                              *)
OneWholeReply ==
    \A c \in H1Conn :
       /\ h1_conn[c].replies <= 1
       /\ h1_conn[c].replies = 1 => h1_conn[c].used >= h1_conn[c].header
       /\ h1_conn[c].end = "answered" => h1_conn[c].replies = 1 /\ h1_conn[c].left = 0

==============================================================================
