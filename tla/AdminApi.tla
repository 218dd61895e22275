------------------------------- MODULE AdminApi -------------------------------
(***************************************************************************)
(* quicpro_admin_api_listen: every call starts a thread that accepts       *)
(* administrative connections while its target server listens.  A thread   *)
(* reads is_listening between two blocking accepts; nothing else tells it  *)
(* that the server it serves was closed, and nothing tells the script,     *)
(* which had TRUE when the thread was made, that the thread has ended.     *)
(***************************************************************************)
EXTENDS QuicServer

CONSTANT AdmCall  \* calls of quicpro_admin_api_listen a run may see

VARIABLE adm  \* [AdmCall -> [pc, ctx, fd, told]]: a call's thread, its TLS context, its socket, its answer

adminvars == <<adm>>

AdminInit == adm = [a \in AdmCall |-> [pc |-> "none", ctx |-> "none", fd |-> FALSE, told |-> "nothing"]]

(* The script is between calls, or in the handler. *)
ScriptRuns == q_pc = "script" \/ (q_pc = "visit" /\ q_at.streams # {})

(* Without the three files there is no context at all; a file that does    *)
(* not load, or a thread that cannot be made, frees it again.              *)
quicpro_admin_api_listen(a) ==
    /\ ScriptRuns /\ ~q_thrown
    /\ q_server.kind = "server" /\ q_server.resource = "open" /\ adm[a].pc = "none"
    /\ \/ \E ctx \in {"none", "freed"} :
             adm' = [adm EXCEPT ![a] = [pc |-> "failed", ctx |-> ctx, fd |-> FALSE, told |-> "exception"]]
       \/ adm' = [adm EXCEPT ![a] = [pc |-> "starting", ctx |-> "alive", fd |-> FALSE, told |-> "true"]]

(* The thread's label cleanup. *)
AdminCleanup(a) == adm' = [adm EXCEPT ![a].pc = "exited", ![a].fd = FALSE, ![a].ctx = "freed"]

(* The socket, and whether the port is free: a thread of an earlier call   *)
(* may have it.                                                            *)
admin_socket(a) ==
    /\ adm[a].pc = "starting"
    /\ \/ AdminCleanup(a)
       \/ adm' = [adm EXCEPT ![a].pc = "test", ![a].fd = TRUE]

(* Once the server is closed its memory may be gone: is_listening reads as *)
(* anything.                                                               *)
admin_test(a) ==
    /\ adm[a].pc = "test"
    /\ \/ /\ q_server.listening \/ q_server.resource = "closed"
          /\ adm' = [adm EXCEPT ![a].pc = "accept"]
       \/ ~q_server.listening /\ AdminCleanup(a)

(* A failed accept goes back to the test, as a client does that fails its  *)
(* handshake or has been answered.                                         *)
admin_accept(a) ==
    /\ adm[a].pc = "accept"
    /\ \E pc \in {"test", "client"} : adm' = [adm EXCEPT ![a].pc = pc]

admin_client(a) ==
    /\ adm[a].pc = "client"
    /\ adm' = [adm EXCEPT ![a].pc = "test"]

AdminNext ==
    \E a \in AdmCall :
       \/ quicpro_admin_api_listen(a)
       \/ admin_socket(a) \/ admin_test(a) \/ admin_accept(a) \/ admin_client(a)

------------------------------------------------------------------------------
AdminTypeOK ==
    adm \in [AdmCall -> [pc : {"none", "failed", "starting", "test", "accept", "client", "exited"},
                         ctx : {"none", "alive", "freed"}, fd : BOOLEAN,
                         told : {"nothing", "true", "exception"}]]

==============================================================================
