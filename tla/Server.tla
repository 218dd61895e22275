-------------------------------- MODULE Server --------------------------------
(***************************************************************************)
(* The server side of the extension.  A listen call takes its process      *)
(* over, so a process runs exactly one of the servers: server names what   *)
(* the script of this process works with.  The generic server runs with    *)
(* its admin thread beside it.                                             *)
(***************************************************************************)
EXTENDS Http1Server, Http2Server, AdminApi, StreamHandlers, WsFrame, Cors, ServerSession

VARIABLE server

Servers == {"http1", "http2", "quic", "stream", "websocket", "cors", "session"}

vars == <<server, h1vars, h2vars, quicvars, adminvars, shvars, wsvars, corsvars, ssvars>>

(* The parts a process does not use rest in one state. *)
Unused ==
    /\ server # "websocket" => ws_state = "CONNECTING"
    /\ server # "cors" => cors_request = [origin |-> NoOrigin, allowed |-> <<>>, method |-> "GET"]
    /\ server # "quic" => q_server.kind = "http3"

Init ==
    /\ server \in Servers
    /\ H1Init /\ H2Init /\ QuicInit /\ AdminInit /\ ShInit /\ WsInit /\ CorsInit /\ SsInit
    /\ Unused

h1rest == <<server, h2vars, quicvars, adminvars, shvars, wsvars, corsvars, ssvars>>
h2rest == <<server, h1vars, quicvars, adminvars, shvars, wsvars, corsvars, ssvars>>
quicrest == <<server, h1vars, h2vars, adminvars, shvars, wsvars, corsvars, ssvars>>
adminrest == <<server, h1vars, h2vars, quicvars, shvars, wsvars, corsvars, ssvars>>
shrest == <<server, h1vars, h2vars, quicvars, adminvars, wsvars, corsvars, ssvars>>
wsrest == <<server, h1vars, h2vars, quicvars, adminvars, shvars, corsvars, ssvars>>
corsrest == <<server, h1vars, h2vars, quicvars, adminvars, shvars, wsvars, ssvars>>
ssrest == <<server, h1vars, h2vars, quicvars, adminvars, shvars, wsvars, corsvars>>

Loop == server = "quic" /\ QuicLoop /\ UNCHANGED quicrest

Next ==
    \/ server = "http1" /\ H1Next /\ UNCHANGED h1rest
    \/ server = "http2" /\ H2Next /\ UNCHANGED h2rest
    \/ server = "quic" /\ QuicNext /\ UNCHANGED quicrest
    \/ server = "quic" /\ AdminNext /\ UNCHANGED adminrest
    \/ server = "stream" /\ ShNext /\ UNCHANGED shrest
    \/ server = "websocket" /\ WsNext /\ UNCHANGED wsrest
    \/ server = "cors" /\ CorsNext /\ UNCHANGED corsrest
    \/ server = "session" /\ SsNext /\ UNCHANGED ssrest

(* epoll_wait has a timeout and nothing in a pass waits, so the loop of a  *)
(* datagram server goes on for as long as it runs.                         *)
Spec == Init /\ [][Next]_vars /\ WF_vars(Loop)

------------------------------------------------------------------------------
(* Every part keeps to its types; among them the bound of the HTTP/1 read  *)
(* buffer.                                                                 *)
ServerTypeOK ==
    /\ server \in Servers
    /\ H1TypeOK /\ H2TypeOK /\ QuicTypeOK /\ AdminTypeOK /\ ShTypeOK /\ WsTypeOK /\ CorsTypeOK /\ SsTypeOK

==============================================================================
