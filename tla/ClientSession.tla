---------------------------- MODULE ClientSession ----------------------------
(***************************************************************************)
(* An open client session: tick, close, the datagram interface and the     *)
(* session ticket of client/session.c and client/tls.c, and quicpro_poll   *)
(* of poll/poll.c, over a network that loses, duplicates and reorders.     *)
(*                                                                         *)
(* quiche, the kernel's socket and the peer are external.  A QUIC          *)
(* connection is abstracted to its handshake (Initial - Hello - Finished - *)
(* Done), the datagrams it wants sent, its timer and its closing; a        *)
(* datagram to what it carries.                                            *)
(***************************************************************************)
EXTENDS Naturals, Sequences, Functions

CONSTANTS
    Calls,     \* the parts of the interface the PHP program uses
    Budget,    \* quicpro_busy_budget_us()
    InFiber    \* FIBER_IS_ACTIVE(), on a PHP that can suspend from C

ASSUME SessionAssumption ==
    /\ Calls \subseteq {"tick", "poll", "close", "datagrams", "tickets"}
    /\ Budget \in Nat
    /\ InFiber \in BOOLEAN

VARIABLES
    q,          \* s->conn
    is_closed,  \* s->is_closed
    ticket,     \* s->ticket, empty when s->ticket_len is 0
    pc,         \* "php" between calls, "poll" in quicpro_poll's loop,
                \* "suspended" when quicpro_poll has suspended its Fiber
    elapsed,    \* elapsed_us of the running poll
    fetched,    \* datagrams fetch_datagram gave to PHP
    rx,         \* the socket's receive buffer
    up,         \* datagrams on their way to the peer
    down,       \* datagrams on their way to the client
    peer        \* the server's end of the connection

php == <<is_closed, ticket, pc, elapsed, fetched>>
network == <<up, down, peer>>
vars == <<q, php, rx, network>>

ClientDatagrams == {"Initial", "Finished", "Close"}
ServerDatagrams == {"Hello", "Done", "Close"}
Conns == [state     : {"handshake", "established", "closing", "draining", "drained", "closed"},
          out       : SUBSET ClientDatagrams,
          due       : {"no", "loss", "idle"},
          confirmed : BOOLEAN]

TypeOK ==
    /\ q \in Conns
    /\ is_closed \in BOOLEAN
    /\ ticket \in {"empty", "imported", "issued"}
    /\ pc \in {"php", "poll", "suspended"}
    /\ elapsed \in 0 .. Budget + 1
    /\ fetched \subseteq ClientDatagrams
    /\ rx \in Seq(ServerDatagrams \cup {"zero_length"})
    /\ up \subseteq ClientDatagrams
    /\ down \subseteq ServerDatagrams
    /\ peer \in {"idle", "accepted", "established", "closed"}

Init ==
    /\ q = [state |-> "handshake", out |-> {"Initial"}, due |-> "no", confirmed |-> FALSE]
    /\ is_closed = FALSE /\ ticket = "empty"
    /\ pc = "php" /\ elapsed = 0 /\ fetched = {}
    /\ rx = <<>> /\ up = {} /\ down = {} /\ peer = "idle"

-----------------------------------------------------------------------------
(* quiche, as the extension uses it. *)

\* quiche_conn_recv()
ConnRecv(c, d) ==
    CASE c.state \in {"draining", "drained", "closed"} -> c
      [] d = "Close" -> [c EXCEPT !.state = "draining", !.out = {}]
      [] d = "Hello" /\ c.state = "handshake" ->
            [c EXCEPT !.state = "established", !.out = {"Finished"}]
      [] d = "Hello" /\ c.state = "established" /\ ~c.confirmed ->
            [c EXCEPT !.out = @ \cup {"Finished"}]
      [] d = "Done" /\ c.state = "established" ->
            [c EXCEPT !.confirmed = TRUE, !.out = @ \ {"Finished"}]
      [] OTHER -> c

\* What was sent and not acknowledged.
Unacked(c) ==
    CASE c.state = "handshake" -> {"Initial"}
      [] c.state = "established" /\ ~c.confirmed -> {"Finished"}
      [] OTHER -> {}

\* quiche_conn_on_timeout(): nothing unless a timer is due.
ConnOnTimeout(c) ==
    CASE c.due = "loss" -> [c EXCEPT !.due = "no", !.out = @ \cup Unacked(c)]
      [] c.due = "idle" -> 
            [c EXCEPT !.due = "no", !.out = {},
                      !.state = IF @ \in {"draining", "drained"} THEN "drained" ELSE "closed"]
      [] OTHER -> c

\* quiche_conn_send() called once for each datagram of ds.  Having produced its
\* CONNECTION_CLOSE the connection drains.
ConnSend(c, ds) ==
    [c EXCEPT !.out = @ \ ds, !.state = IF "Close" \in ds THEN "draining" ELSE @]

\* quiche_conn_close(): immediate before the first answer, otherwise a
\* CONNECTION_CLOSE is waiting to be sent.
ConnClose(c) ==
    CASE c.state = "handshake" -> [c EXCEPT !.state = "closed", !.out = {}]
      [] c.state = "established" -> [c EXCEPT !.state = "closing", !.out = {"Close"}]
      [] OTHER -> c

\* quiche_conn_is_closed(), quiche_conn_is_draining()
Closed(c) == c.state \in {"closed", "drained"}
Draining(c) == c.state \in {"draining", "drained"}

-----------------------------------------------------------------------------
(* client/session.c *)

\* Another call can run: PHP has control.
PhpRuns == pc \in {"php", "suspended"}

\* if (!s || s->conn == NULL || s->is_closed) RETURN_FALSE;
Usable == PhpRuns /\ ~is_closed

\* Tick reads until the buffer is empty; a datagram of length zero stops it.
Readable(buf) ==
    IF \E i \in DOMAIN buf : buf[i] = "zero_length"
    THEN CHOOSE i \in DOMAIN buf :
            buf[i] = "zero_length" /\ \A j \in 1 .. i - 1 : buf[j] # "zero_length"
    ELSE Len(buf)

\* The connection after the first n datagrams.
Received(c, buf, n) ==
    LET conn[i \in 0 .. n] == IF i = 0 THEN c ELSE ConnRecv(conn[i - 1], buf[i])
    IN  conn[n]

Rest(buf, n) == SubSeq(buf, n + 1, Len(buf))

Timers_Mutant(c) == c

\* quiche_conn_on_timeout() in every tick; advance_us is not used.
Timers(c) == ConnOnTimeout(c)

\* The ways the send loop of tick and of poll can end: every datagram goes out,
\* or sendto() refuses one that quiche has already handed over, which is then
\* gone, and the rest stays in quiche.
Sends(c, refused) ==
    IF refused
    THEN UNION {{[sent |-> ds, conn |-> ConnSend(c, ds \cup {d})] : d \in c.out \ ds} :
                    ds \in SUBSET c.out}
    ELSE {[sent |-> c.out, conn |-> ConnSend(c, c.out)]}

\* quiche_conn_send() fails after some datagrams; nothing is lost.
StopsEarly(c) == {[sent |-> ds, conn |-> ConnSend(c, ds)] : ds \in SUBSET c.out}

Ended_Mutant(c) == Closed(c)

Ended_NotEstablished(c) == c.state # "established"

\* The check at the end of tick.
Ended(c) == Closed(c) \/ Draining(c)

\* quicpro_client_session_tick, when sendto() does no worse than EAGAIN.
Tick(refused) ==
    /\ "tick" \in Calls /\ Usable
    /\ LET n == Readable(rx)
           c == Timers(Received(q, rx, n))
       IN  \E o \in Sends(c, refused) :
            /\ q' = o.conn
            /\ up' = up \cup o.sent
            /\ rx' = Rest(rx, n)
            /\ is_closed' = Ended(o.conn)
    /\ UNCHANGED <<ticket, pc, elapsed, fetched, down, peer>>

\* recvmsg() fails after some datagrams: an exception, no timers, nothing sent.
TickRecvFails ==
    /\ "tick" \in Calls /\ Usable
    /\ \E n \in 0 .. Readable(rx) :
        /\ q' = Received(q, rx, n)
        /\ rx' = Rest(rx, n)
    /\ UNCHANGED <<php, network>>

\* sendto() fails for good, or quiche_conn_send() does: an exception, and the
\* closed check is skipped.
TickSendFails ==
    /\ "tick" \in Calls /\ Usable
    /\ LET n == Readable(rx)
           c == Timers(Received(q, rx, n))
       IN  \E o \in Sends(c, TRUE) \cup StopsEarly(c) :
            /\ q' = o.conn
            /\ up' = up \cup o.sent
            /\ rx' = Rest(rx, n)
    /\ UNCHANGED <<php, down, peer>>

\* quicpro_client_session_close.  It sets is_closed before it calls tick, which
\* returns at its first test.
Close ==
    /\ "close" \in Calls /\ Usable
    /\ q' = ConnClose(q)
    /\ is_closed' = TRUE
    /\ UNCHANGED <<ticket, pc, elapsed, fetched, rx, network>>

\* quicpro_client_session_fetch_datagram hands one datagram to PHP ...
FetchDatagram ==
    /\ "datagrams" \in Calls /\ Usable
    /\ \E d \in q.out :
        /\ q' = ConnSend(q, {d})
        /\ fetched' = fetched \cup {d}
    /\ UNCHANGED <<is_closed, ticket, pc, elapsed, rx, network>>

\* ... which sends it or not.
PhpSends ==
    /\ PhpRuns
    /\ \E d \in fetched :
        /\ fetched' = fetched \ {d}
        /\ up' \in {up, up \cup {d}}
    /\ UNCHANGED <<q, is_closed, ticket, pc, elapsed, rx, down, peer>>

\* quicpro_client_session_ingest_datagram, of a datagram PHP has received.
IngestDatagram ==
    /\ "datagrams" \in Calls /\ Usable
    /\ \E d \in down :
        /\ q' = ConnRecv(q, d)
        /\ down' \in {down, down \ {d}}
    /\ UNCHANGED <<php, rx, up, peer>>

\* quicpro_client_tls_import_session_ticket, when quiche accepts the ticket.
ImportSessionTicket ==
    /\ "tickets" \in Calls /\ PhpRuns
    /\ q.state = "handshake"
    /\ ticket' = "imported"
    /\ UNCHANGED <<q, is_closed, pc, elapsed, fetched, rx, network>>

-----------------------------------------------------------------------------
(* poll/poll.c *)

\* quicpro_poll does not look at is_closed.
PollStart ==
    /\ "poll" \in Calls /\ pc = "php"
    /\ pc' = "poll" /\ elapsed' = 0
    /\ UNCHANGED <<q, is_closed, ticket, fetched, rx, network>>

\* The last step of quicpro_poll.  quiche_conn_get_tls_ticket is not a macro of
\* quiche, so the fallback macro of poll.c replaces it: the length becomes 0.
RefreshTicket == ticket' = "empty"

\* quicpro_yield_if_needed(elapsed_us - budget_us)
Yields(e) == e - Budget <= 0 /\ InFiber

PollTimers_Mutant(c) == c

\* quiche_conn_on_timeout() when the timeout is zero.
PollTimers(c) == IF c.due # "no" THEN ConnOnTimeout(c) ELSE c

\* One turn of the loop, ending at time e: at most one datagram is read, the
\* send loop runs, a draining connection ends the loop, a due timer is served,
\* and the budget is looked at.  In a turn that is refused something, an error
\* of recvmsg(), sendto() or quiche_conn_send() is passed over.
PollTurn(refused, e) ==
    /\ pc = "poll"
    /\ e \in elapsed .. Budget + 1
    /\ \E n \in {0, 1} :
       LET c == IF n = 1 /\ Head(rx) = "zero_length" THEN q ELSE Received(q, rx, n)
       IN  /\ n = 0 => rx = <<>> \/ refused
           /\ n <= Len(rx)
           /\ rx' = Rest(rx, n)
           /\ \E o \in Sends(c, refused) \cup (IF refused THEN StopsEarly(c) ELSE {}) :
                /\ up' = up \cup o.sent
                /\ \/ /\ Draining(o.conn)
                      /\ q' = o.conn
                      /\ pc' = "php" /\ elapsed' = elapsed /\ RefreshTicket
                   \/ /\ ~Draining(o.conn)
                      /\ q' = PollTimers(o.conn)
                      /\ elapsed' = e
                      /\ \/ e < Budget /\ UNCHANGED <<pc, ticket>>
                         \/ e >= Budget /\ Yields(e) /\ pc' = "suspended" /\ UNCHANGED ticket
                         \/ e >= Budget /\ ~Yields(e) /\ pc' = "php" /\ RefreshTicket
    /\ UNCHANGED <<is_closed, fetched, down, peer>>

\* The scheduler resumes the Fiber; the loop has been left.
PollResumes ==
    /\ pc = "suspended"
    /\ pc' = "php" /\ RefreshTicket
    /\ UNCHANGED <<q, is_closed, elapsed, fetched, rx, network>>

-----------------------------------------------------------------------------
(* The clock, the network and the peer. *)

TimerDue(kind) ==
    /\ q.due = "no" /\ ~Closed(q)
    /\ kind = "loss" => Unacked(q) # {} /\ q.out = {}
    /\ q' = [q EXCEPT !.due = kind]
    /\ UNCHANGED <<php, rx, network>>

\* A datagram reaches the client's socket and may still be duplicated (bound:
\* one copy of a datagram waits in the socket).
Deliver(d) ==
    /\ d \in down /\ d \notin Range(rx)
    /\ rx' = Append(rx, d)
    /\ down' \in {down, down \ {d}}
    /\ UNCHANGED <<q, php, up, peer>>

\* A datagram without content (bound: only into an empty buffer).
ZeroLength ==
    /\ rx = <<>>
    /\ rx' = <<"zero_length">>
    /\ UNCHANGED <<q, php, network>>

Lose ==
    /\ \/ \E d \in up : up' = up \ {d} /\ UNCHANGED down
       \/ \E d \in down : down' = down \ {d} /\ UNCHANGED up
    /\ UNCHANGED <<q, php, rx, peer>>

PeerReceives(d) ==
    /\ d \in up
    /\ up' \in {up, up \ {d}}
    /\ \/ d = "Initial" /\ peer \in {"idle", "accepted"}
          /\ peer' = "accepted" /\ down' = down \cup {"Hello"}
       \/ d = "Finished" /\ peer \in {"accepted", "established"}
          /\ peer' = "established" /\ down' = down \cup {"Done"}
       \/ d = "Close" /\ peer \in {"accepted", "established"}
          /\ peer' = "closed" /\ UNCHANGED down
       \/ d # "Close" /\ peer = "closed"
          /\ peer' = "closed" /\ down' = down \cup {"Close"}
    /\ UNCHANGED <<q, php, rx>>

PeerRetransmits ==
    /\ peer = "accepted"
    /\ down' = down \cup {"Hello"}
    /\ UNCHANGED <<q, php, rx, up, peer>>

PeerCloses ==
    /\ peer = "established"
    /\ peer' = "closed" /\ down' = down \cup {"Close"}
    /\ UNCHANGED <<q, php, rx, up>>

Next ==
    \/ \E refused \in BOOLEAN : Tick(refused)
    \/ TickRecvFails \/ TickSendFails \/ Close
    \/ FetchDatagram \/ PhpSends \/ IngestDatagram \/ ImportSessionTicket
    \/ PollStart \/ PollResumes
    \/ \E refused \in BOOLEAN, e \in 0 .. Budget + 1 : PollTurn(refused, e)
    \/ \E kind \in {"loss", "idle"} : TimerDue(kind)
    \/ \E d \in ServerDatagrams : Deliver(d)
    \/ \E d \in ClientDatagrams : PeerReceives(d)
    \/ ZeroLength \/ Lose \/ PeerRetransmits \/ PeerCloses

Spec == Init /\ [][Next]_vars

(***************************************************************************)
(* The network and the clock: timers that are set expire, the peer         *)
(* retransmits, and a datagram sent often enough arrives.                  *)
(***************************************************************************)
NetworkFairness ==
    /\ WF_vars(TimerDue("loss"))
    /\ \A d \in ServerDatagrams : SF_vars(Deliver(d))
    /\ \A d \in ClientDatagrams : SF_vars(PeerReceives(d))
    /\ WF_vars(PeerRetransmits)

\* PHP ticks the session again and again ("designed to be called repeatedly
\* within an event loop"), and the kernel does not refuse what a tick has to
\* send every time.
TickFairness ==
    /\ SF_vars(Tick(FALSE))
    /\ SF_vars(Tick(FALSE) /\ up' # up)

\* PHP polls the session again and again; a poll's clock advances, the kernel
\* does not refuse to read or to send every time, and a suspended Fiber is
\* resumed.
PollFairness ==
    /\ WF_vars(PollStart)
    /\ WF_vars(\E refused \in BOOLEAN, e \in 0 .. Budget + 1 : e > elapsed /\ PollTurn(refused, e))
    /\ SF_vars(\E e \in 0 .. Budget + 1 : PollTurn(FALSE, e) /\ up' # up)
    /\ SF_vars(\E e \in 0 .. Budget + 1 : PollTurn(FALSE, e) /\ rx' # rx)
    /\ WF_vars(PollResumes)

TickSpec == Spec /\ NetworkFairness /\ TickFairness
PollSpec == Spec /\ NetworkFairness /\ PollFairness

-----------------------------------------------------------------------------
(* Properties. *)

\* is_closed is never set on a connection that still works: it means that PHP
\* closed it or that quiche reported it closed or draining, whatever sendto(),
\* recvmsg() and the peer did.
ClosedFlagSound ==
    is_closed => q.state \in {"closing", "draining", "drained", "closed"}

\* A connection the peer closed, or that timed out, is noticed: is_closed is
\* set and later calls are refused.
DeadConnectionNoticed == (Closed(q) \/ Draining(q)) ~> is_closed

\* Losses, full socket buffers, zero-length datagrams and read errors delay the
\* handshake but never stop it: both ends are established unless the connection
\* ends first.
HandshakeCompletes ==
    <>(\/ q.state = "established" /\ q.confirmed /\ peer \in {"established", "closed"}
       \/ is_closed \/ Closed(q) \/ Draining(q) \/ q.state = "closing")

=============================================================================
