------------------------------ MODULE McpClient ------------------------------
(***************************************************************************)
(* The MCP client (mcp/mcp.c): connect, a synchronous request on a stream  *)
(* of its own, and close.  The code reads a clock of whole seconds;        *)
(* McSecond ticks make one.                                                *)
(*                                                                         *)
(* quicpro_mcp_connect is a skeleton: where its comments name the QUIC     *)
(* connect it stores two placeholder pointers.  The model has the          *)
(* connection the comments describe.  quiche is external.                  *)
(*                                                                         *)
(* The polling loop neither sends nor reads datagrams, so the request just *)
(* made stays in quiche's buffers and no event of its stream can exist:    *)
(* what the loop finds, mc_events, was left by earlier requests.  The      *)
(* branches for the own stream are never taken.  The connection may turn   *)
(* out closed at any look.                                                 *)
(***************************************************************************)
EXTENDS Integers, Sequences, FilterSeq

CONSTANTS
    McConfig,      \* configuration resources
    McSecond,      \* ticks of a second
    McTimeouts,    \* values of timeout_ms, in ticks; 0 and less wait for ever
    McMaxEvents,   \* bound on the events quiche holds
    McMaxClock     \* bound on the clock

ASSUME McpAssumption ==
    /\ McSecond \in Nat \ {0}
    /\ McTimeouts \subseteq Int
    /\ McMaxEvents \in Nat
    /\ McMaxClock \in Nat

VARIABLES
    mc_frozen,   \* [McConfig -> frozen]
    mc_session,  \* none, open, closed
    mc_asked,    \* a request has opened a stream on the session before
    mc_pc,       \* idle, polling, or how the last request ended: refused, timeout, died
    mc_events,   \* events quiche holds, by stream
    mc_timeout,  \* timeout_ms of the request
    mc_start,    \* the clock when polling began
    mc_now       \* the clock

mcvars == <<mc_frozen, mc_session, mc_asked, mc_pc, mc_events, mc_timeout, mc_start, mc_now>>
mcrequest == <<mc_asked, mc_pc, mc_events, mc_timeout, mc_start>>

(* An event is of the first request, on stream 0, or of a later one. *)
EventStream == {"zero", "later"}

McInit ==
    /\ mc_frozen = [c \in McConfig |-> FALSE]
    /\ mc_session = "none"
    /\ mc_asked = FALSE
    /\ mc_pc = "idle"
    /\ mc_events = <<>>
    /\ mc_timeout = 0 /\ mc_start = 0 /\ mc_now = 0

------------------------------------------------------------------------------
(* A configuration used before is accepted as well. *)
quicpro_mcp_connect(c) ==
    /\ mc_pc # "polling" /\ mc_session = "none"
    /\ mc_frozen' = [mc_frozen EXCEPT ![c] = TRUE]
    /\ mc_session' = "open"
    /\ UNCHANGED <<mcrequest, mc_now>>

quicpro_mcp_close ==
    /\ mc_pc # "polling" /\ mc_session = "open"
    /\ mc_session' = "closed"
    /\ UNCHANGED <<mc_frozen, mcrequest, mc_now>>

(* A closed resource, or quiche refusing the headers or, the stream being  *)
(* open by then, the body: an exception.                                   *)
mcp_request_refused ==
    /\ mc_pc # "polling" /\ mc_session # "none"
    /\ mc_pc' = "refused"
    /\ mc_events' = <<>>
    /\ mc_asked' \in {mc_asked, mc_asked \/ mc_session = "open"}
    /\ UNCHANGED <<mc_frozen, mc_session, mc_timeout, mc_start, mc_now>>

quicpro_mcp_request(t, es) ==
    /\ mc_pc # "polling" /\ mc_session = "open"
    /\ es # <<>> => mc_asked
    /\ mc_asked' = TRUE
    /\ mc_pc' = "polling"
    /\ mc_events' = es
    /\ mc_timeout' = t
    /\ mc_start' = mc_now
    /\ UNCHANGED <<mc_frozen, mc_session, mc_now>>

Elapsed == McSecond * (mc_now \div McSecond - mc_start \div McSecond)

(* Mutant: off by one, the timeout is over when it is reached. *)
TimedOut_Mutant == mc_timeout > 0 /\ Elapsed >= mc_timeout

(* Mutant: the difference is taken the wrong way round. *)
TimedOut_Never_Mutant == mc_timeout > 0 /\ -Elapsed > mc_timeout

TimedOut == mc_timeout > 0 /\ Elapsed > mc_timeout

ends(how, events) ==
    /\ mc_pc' = how
    /\ mc_events' = events
    /\ UNCHANGED <<mc_frozen, mc_session, mc_asked, mc_timeout, mc_start, mc_now>>

(* The inner loop takes events while quiche_h3_conn_poll, which returns    *)
(* the stream of the event it took, is positive: an event of stream 0 is   *)
(* lost and ends the loop like no event at all.                            *)
Drained ==
    LET stops == {i \in DOMAIN mc_events : mc_events[i] = "zero"}
    IN  IF stops = {} THEN Len(mc_events) ELSE CHOOSE i \in stops : \A j \in stops : i <= j

(* One turn of the outer loop. *)
mcp_poll_times_out ==
    /\ mc_pc = "polling" /\ TimedOut
    /\ ends("timeout", mc_events)

mcp_poll_turn ==
    /\ mc_pc = "polling" /\ ~TimedOut
    /\ \E how \in {"died", "polling"} : ends(how, SubSeq(mc_events, Drained + 1, Len(mc_events)))

mc_tick ==
    /\ mc_now < McMaxClock
    /\ mc_now' = mc_now + 1
    /\ UNCHANGED <<mc_frozen, mc_session, mcrequest>>

(* New requests start while the clock has room for their timeout. *)
McRoom(t) == mc_now + t + 2 * McSecond <= McMaxClock

McNext ==
    \/ \E c \in McConfig : quicpro_mcp_connect(c)
    \/ quicpro_mcp_close
    \/ mcp_request_refused
    \/ \E t \in McTimeouts : McRoom(t) /\ \E es \in SeqUpTo(EventStream, McMaxEvents) : quicpro_mcp_request(t, es)
    \/ mcp_poll_times_out
    \/ mcp_poll_turn
    \/ mc_tick

------------------------------------------------------------------------------
(* A request is given up less than a second before its timeout is over:    *)
(* the start and the present are both cut to whole seconds.                *)
TimeoutNotEarly ==
    [][mc_pc = "polling" /\ mc_pc' = "timeout" => mc_now - mc_start > mc_timeout - (McSecond - 1)]_mcvars

(* A request with a positive timeout returns, whatever events and however  *)
(* many keep the inner loop of mcp_poll_for_response busy.                 *)
RequestReturns == mc_pc = "polling" /\ mc_timeout > 0 ~> mc_pc # "polling"

==============================================================================
