---------------------------- MODULE ServerSession ----------------------------
(***************************************************************************)
(* The class Quicpro\Session of server/session.c, from object creation to  *)
(* free_obj, and the ticket functions of server/tls.c that work on the     *)
(* session it holds.  What a session owns natively is the set ss_native;   *)
(* ss_lost is what is still open with no pointer left to it.               *)
(***************************************************************************)
EXTENDS Integers, FiniteSets

CONSTANTS
    SsObject,   \* PHP objects
    SsTicket,   \* tickets that fit the buffer of a session
    SsBad       \* blobs that are empty or too long

ASSUME SessionClassAssumption == SsTicket \cap SsBad = {}

VARIABLES
    ss_state,    \* [SsObject -> none, created, open, failed, freed]
    ss_native,   \* [SsObject -> what intern->sess owns]
    ss_lost,     \* natives nothing points to any more
    ss_again,    \* objects whose session another call of the constructor replaced
    ss_closing,  \* sessions quiche was told to close
    ss_cfg,      \* the configuration resource's quiche_config: "alive", "freed", "twice" freed
    ss_ticket,   \* [SsObject -> tickets in s->ticket: none or one]
    ss_ring      \* tickets put into the ring

ssvars == <<ss_state, ss_native, ss_lost, ss_again, ss_closing, ss_cfg, ss_ticket, ss_ring>>

Natives == {"sock", "conn", "h3_cfg", "h3"}

SsInit ==
    /\ ss_state = [o \in SsObject |-> "none"]
    /\ ss_native = [o \in SsObject |-> {}]
    /\ ss_lost = {} /\ ss_again = {} /\ ss_closing = {}
    /\ ss_cfg = "alive"
    /\ ss_ticket = [o \in SsObject |-> {}]
    /\ ss_ring = {}

------------------------------------------------------------------------------
quicpro_session_create(o) ==
    /\ ss_state[o] = "none"
    /\ ss_state' = [ss_state EXCEPT ![o] = "created"]
    /\ UNCHANGED <<ss_native, ss_lost, ss_again, ss_closing, ss_cfg, ss_ticket, ss_ring>>

(* How far __construct gets, what it owns there, and what it gives back    *)
(* before it throws.                                                       *)
(* Mutant: a refused connection leaves the socket open. *)
ConstructFailures_Mutant ==
    {[owned |-> {}, released |-> {}],
     [owned |-> {"sock"}, released |-> {}],
     [owned |-> {"sock", "conn", "h3_cfg"}, released |-> {"sock", "conn"}]}

ConstructFailures ==
    {[owned |-> {}, released |-> {}],
     [owned |-> {"sock"}, released |-> {"sock"}],
     [owned |-> {"sock", "conn", "h3_cfg"}, released |-> {"sock", "conn"}]}

(* The configuration, the name and a socket may be missing; quiche may     *)
(* refuse the connection or the HTTP/3 layer.  Only at the end does the    *)
(* object point to what was made, instead of what it pointed to.  The      *)
(* script may call the constructor again on any object it has, and with a  *)
(* configuration whose quiche_config is freed: quiche may then do either.  *)
QuicSession__construct(o) ==
    /\ ss_state[o] \in {"created", "open", "failed"}
    /\ \/ \E f \in ConstructFailures :
             /\ ss_lost' = ss_lost \cup {<<o, n>> : n \in f.owned \ f.released}
             /\ ss_state' = [ss_state EXCEPT ![o] = IF @ = "open" THEN "open" ELSE "failed"]
             /\ UNCHANGED <<ss_native, ss_again, ss_closing, ss_ticket>>
       \/ /\ ss_native' = [ss_native EXCEPT ![o] = Natives]
          /\ ss_state' = [ss_state EXCEPT ![o] = "open"]
          /\ ss_lost' = ss_lost \cup {<<o, n>> : n \in ss_native[o]}
          /\ ss_again' = IF ss_state[o] = "open" THEN ss_again \cup {o} ELSE ss_again
          /\ ss_closing' = ss_closing \ {o}
          /\ ss_ticket' = [ss_ticket EXCEPT ![o] = {}]
    /\ UNCHANGED <<ss_cfg, ss_ring>>

(* Quicpro\Session::close and quicpro_close: quiche is told, everything    *)
(* stays allocated so that the last frames can go out.                     *)
QuicSession_close(o) ==
    /\ ss_state[o] = "open"
    /\ ss_closing' = ss_closing \cup {o}
    /\ UNCHANGED <<ss_state, ss_native, ss_lost, ss_again, ss_cfg, ss_ticket, ss_ring>>

quicpro_close(o) == QuicSession_close(o)

(* Frees what the session owns, and the quiche_config it was given, which  *)
(* every session made from the same resource was given too.                *)
quicpro_session_free_obj(o) ==
    /\ ss_state[o] \in {"created", "open", "failed"}
    /\ ss_state' = [ss_state EXCEPT ![o] = "freed"]
    /\ ss_native' = [ss_native EXCEPT ![o] = {}]
    /\ ss_cfg' = IF ss_state[o] # "open" THEN ss_cfg
                 ELSE IF ss_cfg = "alive" THEN "freed" ELSE "twice"
    /\ ss_closing' = ss_closing \ {o}
    /\ ss_ticket' = [ss_ticket EXCEPT ![o] = {}]
    /\ UNCHANGED <<ss_lost, ss_again, ss_ring>>

------------------------------------------------------------------------------
(* External: the peer's TLS stack sends a ticket. *)
ss_receives(o, t) ==
    /\ ss_state[o] = "open"
    /\ ss_ticket' = [ss_ticket EXCEPT ![o] = {t}]
    /\ UNCHANGED <<ss_state, ss_native, ss_lost, ss_again, ss_closing, ss_cfg, ss_ring>>

(* Without a ticket the empty string, and nothing for the ring. *)
quicpro_export_session_ticket(o) ==
    /\ ss_state[o] = "open" /\ ss_ticket[o] # {}
    /\ ss_ring' = ss_ring \cup ss_ticket[o]
    /\ UNCHANGED <<ss_state, ss_native, ss_lost, ss_again, ss_closing, ss_cfg, ss_ticket>>

(* A blob of the wrong length is refused here, quiche refuses others.      *)
quicpro_import_session_ticket(o, blob) ==
    /\ ss_state[o] = "open"
    /\ IF blob \in SsBad THEN UNCHANGED <<ss_ticket, ss_ring>>
       ELSE \/ UNCHANGED <<ss_ticket, ss_ring>>
            \/ /\ ss_ticket' = [ss_ticket EXCEPT ![o] = {blob}]
               /\ ss_ring' = ss_ring \cup {blob}
    /\ UNCHANGED <<ss_state, ss_native, ss_lost, ss_again, ss_closing, ss_cfg>>

SsNext ==
    \E o \in SsObject :
       \/ quicpro_session_create(o) \/ QuicSession__construct(o)
       \/ QuicSession_close(o) \/ quicpro_close(o) \/ quicpro_session_free_obj(o)
       \/ \E t \in SsTicket : ss_receives(o, t)
       \/ quicpro_export_session_ticket(o)
       \/ \E b \in SsTicket \cup SsBad : quicpro_import_session_ticket(o, b)

SsSpec == SsInit /\ [][SsNext]_ssvars

------------------------------------------------------------------------------
SsTypeOK ==
    /\ ss_state \in [SsObject -> {"none", "created", "open", "failed", "freed"}]
    /\ ss_native \in [SsObject -> SUBSET Natives]
    /\ ss_lost \subseteq SsObject \X Natives
    /\ ss_again \subseteq SsObject /\ ss_closing \subseteq SsObject
    /\ ss_cfg \in {"alive", "freed", "twice"}
    /\ ss_ticket \in [SsObject -> SUBSET (SsTicket \cup SsBad)]

(* No constructor, however it fails, and no destruction leaves a socket or *)
(* a QUIC connection that no object holds, and an object holds a session   *)
(* exactly when a constructor of it succeeded.  The one way to lose both   *)
(* is a constructor that succeeds on an object that has a session: it      *)
(* overwrites the only pointer to it.                                      *)
NoSocketLeaks ==
    /\ \A o \in SsObject, n \in {"sock", "conn"} : <<o, n>> \in ss_lost <=> o \in ss_again
    /\ \A o \in SsObject : ss_native[o] # {} <=> ss_state[o] = "open"

(* Only blobs that fit a session's buffer get into a session or into the   *)
(* ring that later sessions resume from.                                   *)
TicketsFit ==
    ss_ring \subseteq SsTicket /\ \A o \in SsObject : ss_ticket[o] \subseteq SsTicket

==============================================================================
