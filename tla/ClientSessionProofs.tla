------------------------ MODULE ClientSessionProofs ------------------------
(***************************************************************************)
(* Proofs about an open client session, for any number of datagrams in the *)
(* socket's buffer, any poll budget and any choice of calls.               *)
(***************************************************************************)
EXTENDS ClientSession, Integers, SequenceTheorems, DataInduction, TLAPS

(* The connection after each of the first n datagrams, as Received has it. *)
Step(c, buf, f, i) == IF i = 0 THEN c ELSE ConnRecv(f[i - 1], buf[i])

Runs(c, buf, n, f) == f = [i \in 0 .. n |-> Step(c, buf, f, i)]

(* What the equation says of one index. *)
LEMMA RunsPointwise ==
    ASSUME NEW c, NEW buf, NEW n, NEW f, Runs(c, buf, n, f), NEW i \in 0 .. n
    PROVE  f[i] = Step(c, buf, f, i)
<1> DEFINE g == [j \in 0 .. n |-> Step(c, buf, f, j)]
<1>1. f = g
  BY DEF Runs
<1>2. g[i] = Step(c, buf, f, i)
  OBVIOUS
<1> HIDE DEF g
<1>3. QED
  BY <1>1, <1>2, Zenon

(* The recursive function of Received exists for every length. *)
LEMMA RunExists ==
    ASSUME NEW c, NEW buf, NEW n \in Nat
    PROVE  \E f : Runs(c, buf, n, f)
<1> DEFINE T == {m \in Nat : ~ \E f : Runs(c, buf, m, f)}
<1>1. SUFFICES ASSUME T # {} PROVE FALSE
  OBVIOUS
<1>2. PICK m \in T : \A k \in T : m <= k
  BY <1>1, LeastElement
<1>3. m # 0
  <2> DEFINE f == [i \in 0 .. 0 |-> c]
  <2>1. Runs(c, buf, 0, f)
    BY DEF Runs, Step
  <2>2. QED
    BY <1>2, <2>1
<1>4. m - 1 \in Nat /\ m - 1 \notin T
  BY <1>2, <1>3
<1>5. PICK f : Runs(c, buf, m - 1, f)
  BY <1>4
<1> DEFINE g == [i \in 0 .. m |-> IF i < m THEN f[i] ELSE ConnRecv(f[m - 1], buf[m])]
<1>6. Runs(c, buf, m, g)
  <2>1. ASSUME NEW i \in 0 .. m PROVE g[i] = Step(c, buf, g, i)
    <3>1. CASE i < m
      <4>1. i \in 0 .. m - 1
        BY <1>2, <3>1
      <4>2. f[i] = Step(c, buf, f, i)
        BY <1>5, <4>1, RunsPointwise
      <4>3. g[i] = f[i] /\ (i # 0 => g[i - 1] = f[i - 1])
        BY <1>2, <3>1
      <4>4. QED
        BY <4>2, <4>3 DEF Step
    <3>2. CASE i = m
      <4>1. g[i] = ConnRecv(f[m - 1], buf[m])
        BY <1>2, <3>2
      <4>2. g[m - 1] = f[m - 1]
        BY <1>2, <1>4
      <4>3. QED
        BY <1>3, <3>2, <4>1, <4>2 DEF Step
    <3>3. QED
      BY <1>2, <3>1, <3>2
  <2>2. QED
    BY <2>1 DEF Runs
<1>7. QED
  BY <1>2, <1>6

(* Received is the last value of such a function. *)
LEMMA ReceivedIsRun ==
    ASSUME NEW c, NEW buf, NEW n \in Nat
    PROVE  \E f : Runs(c, buf, n, f) /\ Received(c, buf, n) = f[n]
<1> DEFINE h == CHOOSE f : Runs(c, buf, n, f)
<1>1. Runs(c, buf, n, h)
  BY RunExists, Zenon
<1>2. Received(c, buf, n) = h[n]
  BY Zenon DEF Received, Runs, Step
<1>3. QED
  BY <1>1, <1>2, Zenon

(* A set of connections that quiche_conn_recv does not leave is not left   *)
(* by any number of datagrams.                                             *)
LEMMA ReceivedStays ==
    ASSUME NEW C, NEW c \in C, NEW buf, NEW n \in Nat,
           \A x \in C : \A d : ConnRecv(x, d) \in C
    PROVE  Received(c, buf, n) \in C
<1>1. PICK f : Runs(c, buf, n, f) /\ Received(c, buf, n) = f[n]
  BY ReceivedIsRun, Zenon
<1> DEFINE T == {m \in 0 .. n : f[m] \notin C}
<1>2. SUFFICES ASSUME T # {} PROVE FALSE
  BY <1>1
<1>3. PICK m \in T : \A k \in T : m <= k
  <2>1. T \in SUBSET Nat
    OBVIOUS
  <2> HIDE DEF T
  <2>2. QED
    BY <1>2, <2>1, LeastElement
<1>4. f[m] = Step(c, buf, f, m)
  BY <1>1, <1>3, RunsPointwise
<1>5. m # 0
  BY <1>3, <1>4 DEF Step
<1>6. m - 1 \in 0 .. n /\ m - 1 \notin T
  BY <1>3, <1>5
<1>7. f[m] = ConnRecv(f[m - 1], buf[m])
  BY <1>4, <1>5 DEF Step
<1>8. QED
  BY <1>3, <1>6, <1>7

-----------------------------------------------------------------------------
(* The connections a session may be marked as closed on. *)
GoneConns == {c \in Conns : c.state \in {"closing", "draining", "drained", "closed"}}

(* quiche's operations keep a connection well formed. *)
LEMMA ConnTyped ==
    ASSUME NEW c \in Conns
    PROVE  /\ \A d : ConnRecv(c, d) \in Conns
           /\ ConnOnTimeout(c) \in Conns
           /\ \A ds : ConnSend(c, ds) \in Conns
           /\ ConnClose(c) \in Conns
<1>1. ASSUME NEW d PROVE ConnRecv(c, d) \in Conns
  BY DEF Conns, ConnRecv, ClientDatagrams
<1>2. ConnOnTimeout(c) \in Conns
  BY DEF Conns, ConnOnTimeout, Unacked, ClientDatagrams
<1>3. ASSUME NEW ds PROVE ConnSend(c, ds) \in Conns
  BY DEF Conns, ConnSend, ClientDatagrams
<1>4. ConnClose(c) \in Conns
  BY DEF Conns, ConnClose, ClientDatagrams
<1>5. QED
  BY <1>1, <1>2, <1>3, <1>4

(* None of them brings a connection back that is closing or gone. *)
LEMMA GoneStays ==
    ASSUME NEW c \in GoneConns
    PROVE  /\ \A d : ConnRecv(c, d) \in GoneConns
           /\ ConnOnTimeout(c) \in GoneConns
           /\ \A ds : ConnSend(c, ds) \in GoneConns
<1> c \in Conns /\ c.state \in {"closing", "draining", "drained", "closed"}
  BY DEF GoneConns
<1>1. ASSUME NEW d PROVE ConnRecv(c, d).state \in {"closing", "draining", "drained", "closed"}
  BY DEF Conns, ConnRecv
<1>2. ConnOnTimeout(c).state \in {"closing", "draining", "drained", "closed"}
  BY DEF Conns, ConnOnTimeout
<1>3. ASSUME NEW ds PROVE ConnSend(c, ds).state \in {"closing", "draining", "drained", "closed"}
  BY DEF Conns, ConnSend
<1>4. QED
  BY <1>1, <1>2, <1>3, ConnTyped DEF GoneConns

(* However the send loop ends, what went out was queued, and the           *)
(* connection is what quiche_conn_send leaves.                             *)
LEMMA SendsTyped ==
    ASSUME NEW c, NEW refused, NEW o \in Sends(c, refused) \cup StopsEarly(c)
    PROVE  /\ o.sent \subseteq c.out
           /\ \E ds : o.conn = ConnSend(c, ds)
<1>1. CASE o \in StopsEarly(c)
  BY <1>1 DEF StopsEarly
<1>2. CASE o \in Sends(c, refused)
  <2>1. CASE ~refused
    BY <1>2, <2>1 DEF Sends
  <2>2. CASE refused
    <3>1. PICK ds \in SUBSET c.out :
            o \in {[sent |-> ds, conn |-> ConnSend(c, ds \cup {d})] : d \in c.out \ ds}
      BY <1>2, <2>2 DEF Sends
    <3>2. PICK d \in c.out \ ds : o = [sent |-> ds, conn |-> ConnSend(c, ds \cup {d})]
      BY <3>1
    <3>3. o.sent = ds /\ o.conn = ConnSend(c, ds \cup {d})
      BY <3>2
    <3>4. QED
      BY <3>1, <3>3
  <2>3. QED
    BY <2>1, <2>2
<1>3. QED
  BY <1>1, <1>2

(* The number of datagrams a tick reads. *)
LEMMA ReadableTyped ==
    ASSUME NEW D, NEW buf \in Seq(D)
    PROVE  Readable(buf) \in 0 .. Len(buf)
<1>1. DOMAIN buf = 1 .. Len(buf) /\ Len(buf) \in Nat
  OBVIOUS
<1>2. CASE ~ \E i \in DOMAIN buf : buf[i] = "zero_length"
  BY <1>1, <1>2 DEF Readable
<1>3. CASE \E i \in DOMAIN buf : buf[i] = "zero_length"
  <2> DEFINE T == {i \in DOMAIN buf : buf[i] = "zero_length"}
  <2>1. PICK m \in T : \A k \in T : m <= k
    <3>1. T \in SUBSET Nat /\ T # {}
      BY <1>1, <1>3
    <3> HIDE DEF T
    <3>2. QED
      BY <3>1, LeastElement
  <2>2. buf[m] = "zero_length" /\ \A j \in 1 .. m - 1 : buf[j] # "zero_length"
    BY <1>1, <2>1
  <2>3. Readable(buf) \in DOMAIN buf
    BY <1>3, <2>1, <2>2 DEF Readable
  <2>4. QED
    BY <1>1, <2>3
<1>4. QED
  BY <1>2, <1>3

(* What is left in the buffer after n datagrams. *)
LEMMA RestTyped ==
    ASSUME NEW D, NEW buf \in Seq(D), NEW n \in 0 .. Len(buf)
    PROVE  Rest(buf, n) \in Seq(D)
<1>1. n + 1 \in 1 .. Len(buf) + 1 /\ Len(buf) \in (n + 1) - 1 .. Len(buf)
  OBVIOUS
<1>2. QED
  BY <1>1, SubSeqProperties DEF Rest

-----------------------------------------------------------------------------
(* What a call reads is well formed, and stays gone once it is. *)
LEMMA ReceivedTyped ==
    ASSUME NEW c \in Conns, NEW buf, NEW n \in Nat
    PROVE  /\ Received(c, buf, n) \in Conns
           /\ c \in GoneConns => Received(c, buf, n) \in GoneConns
<1>1. Received(c, buf, n) \in Conns
  BY ConnTyped, ReceivedStays
<1>2. ASSUME c \in GoneConns PROVE Received(c, buf, n) \in GoneConns
  BY <1>2, GoneStays, ReceivedStays
<1>3. QED
  BY <1>1, <1>2

(* The types of the parts one group of actions changes. *)
Buffers ==
    /\ rx \in Seq(ServerDatagrams \cup {"zero_length"})
    /\ up \subseteq ClientDatagrams
    /\ down \subseteq ServerDatagrams
    /\ fetched \subseteq ClientDatagrams

Session ==
    /\ q \in Conns
    /\ is_closed \in BOOLEAN
    /\ ticket \in {"empty", "imported", "issued"}
    /\ pc \in {"php", "poll", "suspended"}
    /\ elapsed \in 0 .. Budget + 1
    /\ peer \in {"idle", "accepted", "established", "closed"}

(* What ClosedFlagSound needs: the types, and that no call leaves the      *)
(* connections it allows.                                                  *)
SessionInv == Session /\ Buffers /\ (is_closed => q \in GoneConns)

(* Every state is well typed and is_closed is sound. *)
LEMMA SessionInvInit == Init => SessionInv
<1> SUFFICES ASSUME Init PROVE SessionInv
  OBVIOUS
<1>1. q \in Conns
  BY DEF Init, Conns, ClientDatagrams
<1>2. Buffers
  BY DEF Init, Buffers
<1>3. Session
  <2>1. elapsed \in 0 .. Budget + 1
    BY SessionAssumption DEF Init
  <2>2. is_closed \in BOOLEAN
    BY Zenon DEF Init
  <2>3. QED
    BY <1>1, <2>1, <2>2, Zenon DEF Init, Session
<1>4. ~is_closed
  BY Zenon DEF Init
<1>5. QED
  BY <1>2, <1>3, <1>4, Zenon DEF SessionInv

(* tick, whatever sendto() and recvmsg() do. *)
LEMMA TickStep ==
    ASSUME SessionInv, (\E refused \in BOOLEAN : Tick(refused)) \/ TickRecvFails \/ TickSendFails
    PROVE  SessionInv'
<1> USE SessionAssumption
<1> DEFINE D == ServerDatagrams \cup {"zero_length"}
<1>1. Readable(rx) \in 0 .. Len(rx) /\ Len(rx) \in Nat
  BY ReadableTyped DEF SessionInv, Buffers
<1> DEFINE n == Readable(rx)
           c == Timers(Received(q, rx, n))
<1>2. c \in Conns /\ Rest(rx, n) \in Seq(D)
  <2>1. Received(q, rx, n) \in Conns
    BY <1>1, ReceivedTyped DEF SessionInv, Session
  <2>2. ConnOnTimeout(Received(q, rx, n)) \in Conns
    BY <2>1, ConnTyped
  <2>3. Rest(rx, n) \in Seq(D)
    BY <1>1, RestTyped DEF SessionInv, Buffers
  <2>4. QED
    BY <2>2, <2>3 DEF Timers
<1>3. ASSUME NEW o, NEW refused, o \in Sends(c, refused) \cup StopsEarly(c)
      PROVE  o.conn \in Conns /\ o.sent \subseteq ClientDatagrams
  <2>1. o.sent \subseteq c.out /\ \E ds : o.conn = ConnSend(c, ds)
    BY <1>3, SendsTyped
  <2>2. c.out \subseteq ClientDatagrams
    BY <1>2 DEF Conns
  <2>3. QED
    BY <1>2, <2>1, <2>2, ConnTyped
<1> HIDE DEF n, c
<1>4. ASSUME NEW refused \in BOOLEAN, Tick(refused) PROVE SessionInv'
  <2>1. PICK o \in Sends(c, refused) :
            /\ q' = o.conn /\ up' = up \cup o.sent /\ rx' = Rest(rx, n)
            /\ is_closed' = Ended(o.conn)
    BY <1>4 DEF Tick, n, c
  <2>2. q' \in Conns /\ o.sent \subseteq ClientDatagrams
    BY <1>3, <2>1
  <2>3. is_closed' => q' \in GoneConns
    BY <2>1, <2>2 DEF Ended, Closed, Draining, GoneConns
  <2>4. is_closed' \in BOOLEAN
    BY <2>1 DEF Ended, Closed, Draining
  <2>5. UNCHANGED <<ticket, pc, elapsed, fetched, down, peer>>
    BY <1>4 DEF Tick
  <2>6. Buffers'
    BY <1>2, <2>1, <2>2, <2>5 DEF SessionInv, Buffers
  <2>7. Session'
    BY <2>2, <2>4, <2>5 DEF SessionInv, Session
  <2>8. QED
    BY <2>3, <2>6, <2>7 DEF SessionInv
<1>5. ASSUME TickRecvFails PROVE SessionInv'
  <2>1. PICK k \in 0 .. Readable(rx) : q' = Received(q, rx, k) /\ rx' = Rest(rx, k)
    BY <1>5 DEF TickRecvFails
  <2>2. k \in Nat /\ k \in 0 .. Len(rx)
    BY <1>1
  <2>3. q' \in Conns /\ (q \in GoneConns => q' \in GoneConns)
    BY <2>1, <2>2, ReceivedTyped DEF SessionInv, Session
  <2>4. rx' \in Seq(D)
    BY <2>1, <2>2, RestTyped DEF SessionInv, Buffers
  <2>5. UNCHANGED <<is_closed, ticket, pc, elapsed, fetched, up, down, peer>>
    BY <1>5 DEF TickRecvFails, php, network
  <2>6. QED
    BY <2>3, <2>4, <2>5 DEF SessionInv, Session, Buffers
<1>6. ASSUME TickSendFails PROVE SessionInv'
  <2>1. PICK o \in Sends(c, TRUE) \cup StopsEarly(c) :
            q' = o.conn /\ up' = up \cup o.sent /\ rx' = Rest(rx, n)
    BY <1>6 DEF TickSendFails, n, c
  <2>2. q' \in Conns /\ o.sent \subseteq ClientDatagrams
    BY <1>3, <2>1
  <2>3. ~is_closed /\ UNCHANGED <<is_closed, ticket, pc, elapsed, fetched, down, peer>>
    BY <1>6 DEF TickSendFails, Usable, php
  <2>4. Buffers'
    BY <1>2, <2>1, <2>2, <2>3 DEF SessionInv, Buffers
  <2>5. Session'
    BY <2>2, <2>3 DEF SessionInv, Session
  <2>6. QED
    BY <2>3, <2>4, <2>5 DEF SessionInv
<1>7. QED
  BY <1>4, <1>5, <1>6

(* One turn of quicpro_poll, which does not look at is_closed. *)
LEMMA PollStep ==
    ASSUME SessionInv, NEW refused \in BOOLEAN, NEW e, PollTurn(refused, e)
    PROVE  SessionInv'
<1> USE SessionAssumption
<1>1. PICK n \in {0, 1} :
       LET c == IF n = 1 /\ Head(rx) = "zero_length" THEN q ELSE Received(q, rx, n)
       IN  /\ n <= Len(rx)
           /\ rx' = Rest(rx, n)
           /\ \E o \in Sends(c, refused) \cup (IF refused THEN StopsEarly(c) ELSE {}) :
                /\ up' = up \cup o.sent
                /\ q' \in {o.conn, PollTimers(o.conn)}
  <2> DEFINE conn(n) == IF n = 1 /\ Head(rx) = "zero_length" THEN q ELSE Received(q, rx, n)
  <2> HIDE DEF conn
  <2>1. PICK n \in {0, 1} :
           /\ n <= Len(rx)
           /\ rx' = Rest(rx, n)
           /\ \E o \in Sends(conn(n), refused) \cup (IF refused THEN StopsEarly(conn(n)) ELSE {}) :
                /\ up' = up \cup o.sent
                /\ q' = o.conn \/ q' = PollTimers(o.conn)
    BY DEF PollTurn, conn
  <2>2. QED
    BY <2>1 DEF conn
<1> DEFINE c == IF n = 1 /\ Head(rx) = "zero_length" THEN q ELSE Received(q, rx, n)
<1>2. n \in Nat /\ n \in 0 .. Len(rx)
  BY <1>1 DEF SessionInv, Buffers
<1>3. c \in Conns /\ (q \in GoneConns => c \in GoneConns)
  BY <1>2, ReceivedTyped DEF SessionInv, Session
<1> HIDE DEF c
<1>4. PICK o \in Sends(c, refused) \cup StopsEarly(c) :
        up' = up \cup o.sent /\ q' \in {o.conn, PollTimers(o.conn)}
  BY <1>1 DEF c
<1>5. o.sent \subseteq c.out /\ \E ds : o.conn = ConnSend(c, ds)
  BY <1>4, SendsTyped
<1>6. o.conn \in Conns /\ (q \in GoneConns => o.conn \in GoneConns)
  BY <1>3, <1>5, ConnTyped, GoneStays
<1>7. q' \in Conns /\ (q \in GoneConns => q' \in GoneConns)
  BY <1>4, <1>6, ConnTyped, GoneStays DEF PollTimers
<1>8. rx' \in Seq(ServerDatagrams \cup {"zero_length"})
  BY <1>1, <1>2, RestTyped DEF SessionInv, Buffers
<1>9. up' \subseteq ClientDatagrams
  BY <1>3, <1>4, <1>5 DEF SessionInv, Buffers, Conns
<1>10. UNCHANGED <<is_closed, fetched, down, peer>>
  BY DEF PollTurn
<1>11. /\ ticket' \in {ticket, "empty"}
       /\ pc' \in {"php", "poll", "suspended"}
       /\ elapsed' \in {elapsed, e} /\ e \in elapsed .. Budget + 1
  BY DEF PollTurn, RefreshTicket
<1>12. Buffers'
  BY <1>8, <1>9, <1>10 DEF SessionInv, Buffers
<1>13. Session'
  BY <1>7, <1>10, <1>11 DEF SessionInv, Session
<1>14. QED
  BY <1>7, <1>10, <1>12, <1>13 DEF SessionInv

(* The other calls PHP makes. *)
LEMMA CallStep ==
    ASSUME SessionInv, Close \/ FetchDatagram \/ PhpSends \/ IngestDatagram
                       \/ ImportSessionTicket \/ PollStart \/ PollResumes
    PROVE  SessionInv'
<1> USE SessionAssumption
<1>1. CASE Close
  <2>1. q' \in Conns /\ is_closed' = TRUE
    BY <1>1, ConnTyped DEF Close, SessionInv, Session
  <2>2. q' \in GoneConns
    BY <1>1, <2>1 DEF Close, ConnClose, SessionInv, Session, GoneConns, Conns
  <2>3. QED
    BY <1>1, <2>1, <2>2 DEF Close, SessionInv, Session, Buffers, network
<1>2. CASE FetchDatagram
  <2>1. PICK d \in q.out : q' = ConnSend(q, {d}) /\ fetched' = fetched \cup {d}
    BY <1>2 DEF FetchDatagram
  <2>2. d \in ClientDatagrams
    BY <2>1 DEF SessionInv, Session, Conns
  <2>3. q' \in Conns
    BY <2>1, ConnTyped DEF SessionInv, Session
  <2>4. QED
    BY <1>2, <2>1, <2>2, <2>3 DEF FetchDatagram, Usable, SessionInv, Session, Buffers, network
<1>3. CASE PhpSends
  BY <1>3 DEF PhpSends, SessionInv, Session, Buffers
<1>4. CASE IngestDatagram
  <2>1. q' \in Conns /\ down' \subseteq ServerDatagrams
    BY <1>4, ConnTyped DEF IngestDatagram, SessionInv, Session, Buffers
  <2>2. QED
    BY <1>4, <2>1 DEF IngestDatagram, Usable, SessionInv, Session, Buffers, php
<1>5. CASE ImportSessionTicket \/ PollStart \/ PollResumes
  BY <1>5 DEF ImportSessionTicket, PollStart, PollResumes, RefreshTicket,
              SessionInv, Session, Buffers, network
<1>6. QED
  BY <1>1, <1>2, <1>3, <1>4, <1>5

(* The clock, the network and the peer. *)
LEMMA OutsideStep ==
    ASSUME SessionInv,
           \/ \E kind \in {"loss", "idle"} : TimerDue(kind)
           \/ \E d \in ServerDatagrams : Deliver(d)
           \/ \E d \in ClientDatagrams : PeerReceives(d)
           \/ ZeroLength \/ Lose \/ PeerRetransmits \/ PeerCloses
    PROVE  SessionInv'
<1> USE SessionAssumption DEF SessionInv
<1>1. ASSUME NEW kind \in {"loss", "idle"}, TimerDue(kind) PROVE SessionInv'
  <2>1. q' \in Conns /\ q'.state = q.state
    BY <1>1 DEF TimerDue, Session, Conns
  <2>2. QED
    BY <1>1, <2>1 DEF TimerDue, Session, Buffers, GoneConns, php, network
<1>2. ASSUME NEW d \in ServerDatagrams, Deliver(d) PROVE SessionInv'
  <2>1. rx' \in Seq(ServerDatagrams \cup {"zero_length"}) /\ down' \subseteq ServerDatagrams
    BY <1>2 DEF Deliver, Buffers
  <2>2. QED
    BY <1>2, <2>1 DEF Deliver, Session, Buffers, php
<1>3. ASSUME NEW d \in ClientDatagrams, PeerReceives(d) PROVE SessionInv'
  <2>1. Buffers'
    BY <1>3 DEF PeerReceives, Buffers, ServerDatagrams, php
  <2>2. Session' /\ q' = q /\ is_closed' = is_closed
    BY <1>3 DEF PeerReceives, Session, php
  <2>3. QED
    BY <2>1, <2>2
<1>4. CASE ZeroLength
  <2>1. rx' \in Seq(ServerDatagrams \cup {"zero_length"})
    BY <1>4 DEF ZeroLength
  <2>2. QED
    BY <1>4, <2>1 DEF ZeroLength, Session, Buffers, php, network
<1>5. CASE Lose
  BY <1>5 DEF Lose, Session, Buffers, php
<1>6. CASE PeerRetransmits \/ PeerCloses
  <2>1. Buffers'
    BY <1>6 DEF PeerRetransmits, PeerCloses, Buffers, ServerDatagrams, php
  <2>2. Session' /\ q' = q /\ is_closed' = is_closed
    BY <1>6 DEF PeerRetransmits, PeerCloses, Session, php
  <2>3. QED
    BY <2>1, <2>2
<1>7. QED
  BY <1>1, <1>2, <1>3, <1>4, <1>5, <1>6

(* The invariant is inductive. *)
LEMMA SessionInvNext == SessionInv /\ [Next]_vars => SessionInv'
<1> SUFFICES ASSUME SessionInv, [Next]_vars PROVE SessionInv'
  OBVIOUS
<1>1. CASE UNCHANGED vars
  BY <1>1 DEF vars, php, network, SessionInv, Session, Buffers
<1>2. CASE Next
  BY <1>2, TickStep, PollStep, CallStep, OutsideStep DEF Next
<1>3. QED
  BY <1>1, <1>2

(* Every state is well typed, however many datagrams wait in the socket. *)
THEOREM SessionTypeCorrect == Spec => []TypeOK
<1>1. SessionInv => TypeOK
  BY DEF SessionInv, Session, Buffers, TypeOK
<1>2. QED
  BY <1>1, SessionInvInit, SessionInvNext, PTL DEF Spec

(* is_closed is never set on a working connection, whatever the network,   *)
(* the peer and the kernel do and whichever calls PHP mixes.                *)
THEOREM ClosedFlagCorrect == Spec => []ClosedFlagSound
<1>1. SessionInv => ClosedFlagSound
  BY DEF SessionInv, GoneConns, ClosedFlagSound
<1>2. QED
  BY <1>1, SessionInvInit, SessionInvNext, PTL DEF Spec

=============================================================================
