------------------------------ MODULE QuicServer ------------------------------
(***************************************************************************)
(* The datagram servers: quicpro_server_create, _listen and _close, and    *)
(* quicpro_http3_server_listen, which is the same loop around a server of  *)
(* its own.  One thread waits for at most a tenth of a second, reads one   *)
(* datagram, then passes over every session: timers, sends, a call of the  *)
(* PHP handler for each readable stream, and the removal of closed ones.   *)
(*                                                                         *)
(* The script acts between calls and inside the handler, where it may      *)
(* close any session it holds, throw, or close the server it runs in.      *)
(* quiche is external: est and closed are what its predicates answer.      *)
(***************************************************************************)
EXTENDS Integers, FiniteSets

CONSTANTS
    QCid,     \* connection ids the server may generate
    QStream,  \* stream ids
    QNoCid,   \* an id no session has: what a client chose itself
    QMaxNet   \* bound: datagrams on their way

ASSUME QuicAssumption == QNoCid \notin QCid /\ QMaxNet \in Nat

VARIABLES
    q_server,   \* [kind, resource, fd, epoll, config, listening, table]
    q_session,  \* [QCid -> [state, est, closed, readable]]
    q_net,      \* datagrams on their way
    q_pc,       \* where the script or the loop is
    q_todo,     \* sessions the pass has not visited yet
    q_at,       \* [cid, streams] of the visit: streams still to be handed over
    q_thrown,   \* an exception is pending
    q_last      \* <<session, stream>> of the handler's last call

quicvars == <<q_server, q_session, q_net, q_pc, q_todo, q_at, q_thrown, q_last>>

QKinds == {"server", "http3"}
QNoSession == [state |-> "none", est |-> FALSE, closed |-> FALSE, readable |-> {}]
QNowhere == [cid |-> QNoCid, streams |-> {}]
Table == {s \in QCid : q_session[s].state = "in_table"}

QClosed(kind, resource) == [kind |-> kind, resource |-> resource, fd |-> FALSE, epoll |-> FALSE,
                            config |-> FALSE, listening |-> FALSE, table |-> FALSE]

QuicInit ==
    /\ \E kind \in QKinds : q_server = QClosed(kind, "none")
    /\ q_session = [s \in QCid |-> QNoSession]
    /\ q_net = {} /\ q_todo = {} /\ q_at = QNowhere
    /\ q_pc = "script" /\ q_thrown = FALSE
    /\ q_last = <<QNoCid, 0>>

------------------------------------------------------------------------------
(* Each failure on the way closes the socket and frees the server. *)
quicpro_server_create ==
    /\ q_pc = "script" /\ q_server.kind = "server" /\ q_server.resource = "none"
    /\ q_server' \in {q_server, [q_server EXCEPT !.resource = "open", !.fd = TRUE, !.config = TRUE, !.table = TRUE]}
    /\ UNCHANGED <<q_session, q_net, q_pc, q_todo, q_at, q_thrown, q_last>>

(* Without an epoll set listen fails and may be called again. *)
quicpro_server_listen ==
    /\ q_pc = "script" /\ q_server.kind = "server" /\ q_server.resource = "open" /\ ~q_thrown
    /\ \/ UNCHANGED <<q_server, q_pc>>
       \/ /\ q_server' = [q_server EXCEPT !.epoll = TRUE, !.listening = TRUE]
          /\ q_pc' = "wait"
    /\ UNCHANGED <<q_session, q_net, q_todo, q_at, q_thrown, q_last>>

quicpro_http3_server_listen ==
    /\ q_pc = "script" /\ q_server.kind = "http3" /\ q_server.resource = "none" /\ ~q_thrown
    /\ \/ UNCHANGED <<q_server, q_pc>>
       \/ /\ q_server' = [kind |-> "http3", resource |-> "none", fd |-> TRUE, epoll |-> TRUE,
                          config |-> TRUE, listening |-> TRUE, table |-> TRUE]
          /\ q_pc' = "wait"
    /\ UNCHANGED <<q_session, q_net, q_todo, q_at, q_thrown, q_last>>

------------------------------------------------------------------------------
(* Clients: the first datagram of a connection, again if it is lost or     *)
(* late; anything at all for an id the server once gave out.               *)
Datagram == [dcid : {QNoCid}, holds : {"initial", "junk"}]
            \cup [dcid : QCid, holds : {"handshake", "close"}]
            \cup [dcid : QCid, holds : QStream]

q_client_sends(d) ==
    /\ d \notin q_net /\ Cardinality(q_net) < QMaxNet
    /\ d.dcid # QNoCid => q_session[d.dcid].state # "none"
    /\ q_net' = q_net \cup {d}
    /\ UNCHANGED <<q_server, q_session, q_pc, q_todo, q_at, q_thrown, q_last>>

(* A datagram is lost on the way. *)
q_client_lost(d) ==
    /\ d \in q_net
    /\ q_net' = q_net \ {d}
    /\ UNCHANGED <<q_server, q_session, q_pc, q_todo, q_at, q_thrown, q_last>>

------------------------------------------------------------------------------
quiche_conn_recv(session, holds) ==
    CASE holds = "handshake" -> [session EXCEPT !.est = TRUE]
      [] holds = "close" -> [session EXCEPT !.closed = TRUE]
      [] holds \in QStream /\ session.est /\ ~session.closed -> [session EXCEPT !.readable = @ \cup {holds}]
      [] OTHER -> session

(* A datagram for a session in the table goes to that session; any other   *)
(* well-formed one is a new connection, also one for an id that is gone.   *)
q_receive(d) ==
    IF d.holds = "junk" THEN {q_session}
    ELSE IF d.dcid \in Table
    THEN {[q_session EXCEPT ![d.dcid] = quiche_conn_recv(@, d.holds)]}
    ELSE {q_session} \cup
         {[q_session EXCEPT ![s] = [QNoSession EXCEPT !.state = "in_table"]]
          : s \in {x \in QCid : q_session[x].state = "none"}}

(* epoll_wait returns: with the oldest waiting datagram, which is read, or *)
(* without any after its timeout.  Then the pass begins.                   *)
q_epoll_wait ==
    /\ q_pc = "wait"
    /\ \/ /\ q_net = {}
          /\ UNCHANGED <<q_net, q_session>>
       \/ \E d \in q_net :
             /\ q_net' = q_net \ {d}
             /\ q_session' \in q_receive(d)
    /\ q_pc' = "pass"
    /\ q_todo' = {s \in QCid : q_session'[s].state = "in_table"}
    /\ UNCHANGED <<q_server, q_at, q_thrown, q_last>>

(* epoll_wait fails for good: the generic server throws and keeps its      *)
(* sessions, the HTTP/3 server gives everything back.  The script catches  *)
(* what is pending when the call returns, and may listen again.            *)
q_epoll_fails ==
    /\ q_pc = "wait"
    /\ q_pc' = "script"
    /\ IF q_server.kind = "server"
       THEN /\ q_server' = [q_server EXCEPT !.epoll = FALSE]
            /\ UNCHANGED q_session
       ELSE /\ q_server' = QClosed("http3", "none")
            /\ q_session' = [s \in QCid |-> IF s \in Table THEN [QNoSession EXCEPT !.state = "gone"]
                                            ELSE q_session[s]]
    /\ q_thrown' = FALSE
    /\ UNCHANGED <<q_net, q_todo, q_at, q_last>>

(* The visit of a session up to the handler: its timer, which may close    *)
(* it, what quiche has to send, and which streams can be read.             *)
(* Mutant: only a session that is not established is handed over. *)
q_visit_Mutant(s) ==
    /\ q_pc = "pass" /\ s \in q_todo
    /\ q_todo' = q_todo \ {s}
    /\ \E closed \in {q_session[s].closed, TRUE} :
          q_session' = [q_session EXCEPT ![s].closed = closed]
    /\ q_pc' = "visit"
    /\ q_at' = [cid |-> s, streams |-> IF ~q_session[s].est THEN q_session[s].readable ELSE {}]
    /\ UNCHANGED <<q_server, q_net, q_thrown, q_last>>

(* Mutant: a session its timer closed is removed before its streams are handed over. *)
q_visit_Early_Mutant(s) ==
    /\ q_pc = "pass" /\ s \in q_todo
    /\ q_todo' = q_todo \ {s}
    /\ q_session' \in {q_session, [q_session EXCEPT ![s] = [QNoSession EXCEPT !.state = "gone"]]}
    /\ q_pc' = "visit"
    /\ q_at' = [cid |-> s, streams |-> IF q_session[s].est THEN q_session[s].readable ELSE {}]
    /\ UNCHANGED <<q_server, q_net, q_thrown, q_last>>

q_visit(s) ==
    /\ q_pc = "pass" /\ s \in q_todo
    /\ q_todo' = q_todo \ {s}
    /\ \E closed \in {q_session[s].closed, TRUE} :
          q_session' = [q_session EXCEPT ![s].closed = closed]
    /\ q_pc' = "visit"
    /\ q_at' = [cid |-> s, streams |-> IF q_session[s].est THEN q_session[s].readable ELSE {}]
    /\ UNCHANGED <<q_server, q_net, q_thrown, q_last>>

(* zend_call_function does nothing while an exception is pending.  A call  *)
(* may read the stream or not, close any session the script has seen and   *)
(* that still exists, and throw.                                           *)
q_handler(t) ==
    LET s == q_at.cid
    IN  /\ q_pc = "visit" /\ t \in q_at.streams
        /\ q_at' = [q_at EXCEPT !.streams = @ \ {t}]
        /\ IF q_thrown
           THEN UNCHANGED <<q_session, q_thrown, q_last>>
           ELSE /\ q_last' = <<s, t>>
                /\ \E closes \in SUBSET Table, reads \in SUBSET {t} :
                      /\ Cardinality(closes) <= 1
                      /\ q_session' = [x \in QCid |->
                            [q_session[x] EXCEPT !.closed = @ \/ x \in closes,
                                                 !.readable = IF x = s THEN @ \ reads ELSE @]]
                /\ q_thrown' \in BOOLEAN
        /\ UNCHANGED <<q_server, q_net, q_pc, q_todo>>

(* Every call registers a resource for its session, and removing the       *)
(* session takes none of them away: a handler that uses one it kept works  *)
(* on freed memory.  That may do nothing, or end the process.              *)
q_handler_stale(t) ==
    /\ q_pc = "visit" /\ t \in q_at.streams /\ ~q_thrown
    /\ \E x \in QCid : q_session[x].state = "gone"
    /\ q_pc' = "crashed"
    /\ q_todo' = {} /\ q_at' = QNowhere
    /\ UNCHANGED <<q_server, q_session, q_net, q_thrown, q_last>>

(* Mutant: a closed session stays where it is. *)
q_visited_Mutant ==
    /\ q_pc = "visit" /\ q_at.streams = {}
    /\ q_session' = q_session
    /\ q_pc' = "pass" /\ q_at' = QNowhere
    /\ UNCHANGED <<q_server, q_net, q_todo, q_thrown, q_last>>

q_visited ==
    /\ q_pc = "visit" /\ q_at.streams = {}
    /\ q_session' = IF q_session[q_at.cid].closed
                    THEN [q_session EXCEPT ![q_at.cid] = [QNoSession EXCEPT !.state = "gone"]]
                    ELSE q_session
    /\ q_pc' = "pass" /\ q_at' = QNowhere
    /\ UNCHANGED <<q_server, q_net, q_todo, q_thrown, q_last>>

q_pass_ends ==
    /\ q_pc = "pass" /\ q_todo = {}
    /\ q_pc' = "wait"
    /\ UNCHANGED <<q_server, q_session, q_net, q_todo, q_at, q_thrown, q_last>>

(* Everything the server owned is given back.  Called from the handler,    *)
(* the loop goes on over the destroyed table: it may fall over, or may     *)
(* still find its way out.                                                 *)
quicpro_server_close ==
    /\ q_server.kind = "server" /\ q_server.resource = "open" /\ ~q_thrown
    /\ q_pc = "script" \/ (q_pc = "visit" /\ q_at.streams # {})
    /\ q_server' = QClosed("server", "closed")
    /\ q_session' = [s \in QCid |-> IF s \in Table THEN [QNoSession EXCEPT !.state = "gone"] ELSE q_session[s]]
    /\ q_pc' \in IF q_pc = "script" THEN {"script"} ELSE {"script", "crashed"}
    /\ q_todo' = {} /\ q_at' = QNowhere
    /\ UNCHANGED <<q_net, q_thrown, q_last>>

------------------------------------------------------------------------------
QuicLoop ==
    \/ q_epoll_wait
    \/ \E s \in QCid : q_visit(s)
    \/ \E t \in QStream : q_handler(t)
    \/ q_visited
    \/ q_pass_ends

QuicNext ==
    \/ QuicLoop
    \/ q_epoll_fails
    \/ \E t \in QStream : q_handler_stale(t)
    \/ quicpro_server_create \/ quicpro_server_listen \/ quicpro_http3_server_listen
    \/ quicpro_server_close
    \/ \E d \in Datagram : q_client_sends(d) \/ q_client_lost(d)

QuicSpec == QuicInit /\ [][QuicNext]_quicvars /\ WF_quicvars(QuicLoop)

------------------------------------------------------------------------------
QuicTypeOK ==
    /\ q_server \in [kind : QKinds, resource : {"none", "open", "closed"}, fd : BOOLEAN, epoll : BOOLEAN,
                     config : BOOLEAN, listening : BOOLEAN, table : BOOLEAN]
    /\ q_session \in [QCid -> [state : {"none", "in_table", "gone"}, est : BOOLEAN, closed : BOOLEAN,
                               readable : SUBSET QStream]]
    /\ q_net \subseteq Datagram
    /\ q_pc \in {"script", "wait", "pass", "visit", "crashed"}
    /\ q_todo \subseteq QCid
    /\ q_at \in [cid : QCid \cup {QNoCid}, streams : SUBSET QStream]
    /\ q_thrown \in BOOLEAN

(* What a pass still has to touch has not been freed: the sessions to      *)
(* come, and the one whose handler runs, are in the table, and the table,  *)
(* the socket and the configuration the loop uses exist.  Excepted is a    *)
(* handler that closes the server itself: quicpro_server_close destroys    *)
(* the table under the iteration, the model ends the pass at that call,    *)
(* and nothing is said of what the code touches after it.                  *)
PassTouchesLiveSessions ==
    /\ q_todo \subseteq Table
    /\ q_pc = "visit" => q_at.cid \in Table
    /\ q_pc \in {"wait", "pass", "visit"} => q_server.fd /\ q_server.epoll /\ q_server.config /\ q_server.table
    /\ ~q_server.table => Table = {}

(* A stream with data on an established session is handed to the handler,  *)
(* unless the session goes, an exception blocks all calls, or the loop     *)
(* ends first.                                                             *)
ReadableIsHandedOver ==
    \A s \in QCid, t \in QStream :
       (q_pc = "wait" /\ s \in Table /\ q_session[s].est /\ t \in q_session[s].readable)
       ~> (q_last = <<s, t>> \/ s \notin Table \/ q_thrown \/ q_pc \in {"script", "crashed"})

(* A connection that closed, wherever in the pass that happened, leaves    *)
(* the table; only a loop that ended keeps it.                             *)
ClosedIsRemoved ==
    \A s \in QCid :
       (s \in Table /\ q_session[s].closed)
       ~> (s \notin Table \/ q_pc \in {"script", "crashed"})

==============================================================================
