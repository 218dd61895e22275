------------------------------- MODULE WsFrame -------------------------------
(***************************************************************************)
(* WebSocket frames: create_ws_frame_header and quicpro_ws_send write      *)
(* them, parse_ws_frame_header reads a header from a buffer that may still *)
(* lack bytes.  Connecting, receiving and closing are stubs in the code,   *)
(* so the state of a connection is given (external).  Payload bytes are    *)
(* counted.                                                                *)
(***************************************************************************)
EXTENDS Integers, Sequences

CONSTANT WsLengths    \* payload lengths to send, the boundaries among them

(* A size_t has 64 bits: nothing is left behind them. *)
SizeT(len) == len \in Nat /\ (((len \div 65536) \div 65536) \div 65536) \div 65536 = 0

ASSUME WsAssumption == \A len \in WsLengths : SizeT(len)

VARIABLES
    ws_state,    \* WS_STATE_*
    ws_stream,   \* what quiche lets be sent: "open", "finished"
    ws_sent,     \* the frame sent last: [header, payload, length, opcode]
    ws_got       \* how many bytes of it the peer has

wsvars == <<ws_state, ws_stream, ws_sent, ws_got>>

WsStates == {"CONNECTING", "OPEN", "CLOSING", "CLOSED"}
NoFrame == [header |-> <<>>, payload |-> 0, length |-> 0, opcode |-> 0]

WsInit ==
    /\ ws_state \in WsStates
    /\ ws_stream = "open"
    /\ ws_sent = NoFrame
    /\ ws_got = 0

------------------------------------------------------------------------------
(* The n low bytes of a number, the highest first. *)
BigEndian(len, n) ==
    LET shifted[k \in 0..n] == IF k = 0 THEN len ELSE shifted[k - 1] \div 256
    IN  [i \in 1..n |-> shifted[n - i] % 256]

FromBigEndian(bytes) ==
    LET value[i \in 0..Len(bytes)] == IF i = 0 THEN 0 ELSE value[i - 1] * 256 + bytes[i]
    IN  value[Len(bytes)]

(* Mutant: a length of 126 is still taken for a short one. *)
create_ws_frame_header_Mutant(opcode, len, masked) ==
    LET mask == IF masked THEN 128 ELSE 0
    IN  <<128 + opcode>> \o
        (IF len <= 126 THEN <<mask + len>>
         ELSE IF len <= 65535 THEN <<mask + 126>> \o BigEndian(len, 2)
         ELSE <<mask + 127>> \o BigEndian(len, 8))

create_ws_frame_header(opcode, len, masked) ==
    LET mask == IF masked THEN 128 ELSE 0
    IN  <<128 + opcode>> \o
        (IF len <= 125 THEN <<mask + len>>
         ELSE IF len <= 65535 THEN <<mask + 126>> \o BigEndian(len, 2)
         ELSE <<mask + 127>> \o BigEndian(len, 8))

(* The answer for a buffer: nothing while bytes are missing, else the      *)
(* opcode, the payload's length and the header's.                          *)
parse_ws_frame_header(buffer) ==
    IF Len(buffer) < 2 THEN {}
    ELSE LET len == buffer[2] % 128
             masked == buffer[2] >= 128
             pos == IF len = 126 THEN 4 ELSE IF len = 127 THEN 10 ELSE 2
             all == pos + (IF masked THEN 4 ELSE 0)
         IN  IF Len(buffer) < pos \/ Len(buffer) < all THEN {}
             ELSE {[opcode |-> buffer[1] % 16,
                    length |-> IF len < 126 THEN len ELSE FromBigEndian(SubSeq(buffer, 3, pos)),
                    header |-> all]}

(* A frame goes out only on an open connection; the key may fail, and so   *)
(* may quiche.  The call passes fin, which finishes the stream.            *)
quicpro_ws_send(len, binary) ==
    /\ ws_state = "OPEN" /\ ws_stream = "open"
    /\ LET opcode == IF binary THEN 2 ELSE 1
       IN  ws_sent' = [header |-> create_ws_frame_header(opcode, len, TRUE) \o <<1, 2, 3, 4>>,
                       payload |-> len, length |-> len, opcode |-> opcode]
    /\ ws_stream' = "finished"
    /\ ws_got' = 0
    /\ UNCHANGED ws_state

(* The peer's buffer fills up. *)
ws_arrives ==
    /\ ws_got < Len(ws_sent.header)
    /\ ws_got' = ws_got + 1
    /\ UNCHANGED <<ws_state, ws_stream, ws_sent>>

WsNext ==
    \/ \E len \in WsLengths, binary \in BOOLEAN : quicpro_ws_send(len, binary)
    \/ ws_arrives

WsSpec == WsInit /\ [][WsNext]_wsvars

------------------------------------------------------------------------------
WsTypeOK ==
    /\ ws_state \in WsStates /\ ws_stream \in {"open", "finished"}
    /\ ws_sent.payload \in WsLengths \cup {0} /\ ws_got \in 0..Len(ws_sent.header)
    /\ \A i \in DOMAIN ws_sent.header : ws_sent.header[i] \in 0..255

(* Reading a header that quicpro_ws_send wrote: no answer before its last  *)
(* byte has arrived, and then the opcode and the length that were sent and *)
(* the place where the payload begins, at every boundary of the lengths.   *)
HeaderRoundTrip ==
    ws_sent # NoFrame =>
       parse_ws_frame_header(SubSeq(ws_sent.header, 1, ws_got)) =
          IF ws_got < Len(ws_sent.header) THEN {}
          ELSE {[opcode |-> ws_sent.opcode, length |-> ws_sent.length, header |-> Len(ws_sent.header)]}

==============================================================================
