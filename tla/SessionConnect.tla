--------------------------- MODULE SessionConnect ---------------------------
(***************************************************************************)
(* How a client session comes to be: quicpro_client_session_connect of     *)
(* client/session.c, quicpro_connect of connect/connect.c, and the         *)
(* destructor quicpro_session_dtor of php_quicpro.c.  PHP runs one call at *)
(* a time; a step is one call into the operating system or into quiche,    *)
(* which can succeed or fail, together with what the code does about it.   *)
(* The address list of getaddrinfo() is abstracted to the number of        *)
(* addresses of each family: either loop skips the other family's.         *)
(***************************************************************************)
EXTENDS Naturals

CONSTANTS
    Sessions,     \* the quicpro_session_t objects that calls try to build
    MaxAddrs      \* bound: addresses of one family in an answer

ASSUME ConnectAssumption == MaxAddrs \in Nat

VARIABLES
    pc,           \* the step the running call is at; "php" between calls
    api,          \* the function that runs
    s,            \* the session the running call builds
    mode,         \* option preferred_ip_family (mode in quicpro_connect)
    addrs,        \* addresses of each family getaddrinfo() returned
    todo,         \* addresses of the current family still to try
    v6_failed,    \* history: IPv6 addresses the running call failed at
    family,       \* the family of the connected socket
    exception,    \* a PHP exception is pending
    result,       \* what the last call returned
    state,        \* of each session: unused, building, open, failed, freed
    held,         \* what each session owns and has to give back
    opened_by,    \* the function that opened each session
    frozen,       \* cfg_wrapper->frozen of the shared configuration
    config_frees  \* quiche_config_free() calls on the shared quiche_config

call == <<api, s, mode>>
vars == <<pc, call, addrs, todo, v6_failed, family, exception, result, state, held,
          opened_by, frozen, config_frees>>

Apis == {"quicpro_connect", "quicpro_client_session_connect"}
Modes == {"auto", "ipv4", "ipv6", "other"}
Families == {"v6", "v4"}
Owned == {"session", "addrinfo", "socket", "conn", "h3_cfg", "h3"}
Steps == {"php", "host", "resolve", "v6", "v4", "selected", "quiche", "h3_cfg", "h3"}

CallTypeOK ==
    /\ pc \in Steps
    /\ api \in Apis /\ s \in Sessions /\ mode \in Modes
    /\ addrs \in [Families -> Nat]
    /\ todo \in Nat /\ v6_failed \in Nat
    /\ family \in Families \cup {"none"}
    /\ exception \in BOOLEAN
    /\ result \in {"none", "false", "resource"}

ObjectTypeOK ==
    /\ state \in [Sessions -> {"unused", "building", "open", "failed", "freed"}]
    /\ held \in [Sessions -> SUBSET Owned]
    /\ opened_by \in [Sessions -> Apis]
    /\ frozen \in BOOLEAN
    /\ config_frees \in Nat

TypeOK == CallTypeOK /\ ObjectTypeOK

Init ==
    /\ pc = "php"
    /\ api \in Apis /\ s \in Sessions /\ mode = "auto"
    /\ addrs = [f \in Families |-> 0] /\ todo = 0 /\ v6_failed = 0 /\ family = "none"
    /\ exception = FALSE /\ result = "none"
    /\ state = [t \in Sessions |-> "unused"]
    /\ held = [t \in Sessions |-> {}]
    /\ opened_by = [t \in Sessions |-> "quicpro_connect"]
    /\ frozen = FALSE /\ config_frees = 0

Own(things) == held' = [held EXCEPT ![s] = @ \cup things]
Release(things) == held' = [held EXCEPT ![s] = @ \ things]

\* throw_*_exception in session.c; quicpro_connect sets an error string instead.
Throw ==
    IF api = "quicpro_client_session_connect" THEN exception' = TRUE ELSE UNCHANGED exception

ReturnFalse_Mutant(things) ==
    /\ Release(things \ {"addrinfo"})
    /\ pc' = "php"
    /\ result' = "false"
    /\ state' = [state EXCEPT ![s] = "failed"]

\* RETURN_FALSE after giving things back.
ReturnFalse(things) ==
    /\ Release(things)
    /\ pc' = "php"
    /\ result' = "false"
    /\ state' = [state EXCEPT ![s] = "failed"]

\* PHP calls one of the two functions.
Begin(t, a) ==
    /\ pc = "php"
    /\ state[t] = "unused"
    /\ s' = t /\ api' = a /\ mode' \in Modes
    /\ opened_by' = [opened_by EXCEPT ![t] = a]
    /\ family' = "none" /\ todo' = 0 /\ v6_failed' = 0
    /\ UNCHANGED <<addrs, config_frees>>

\* The resource given is not a valid configuration.
InvalidConfig(t, a) ==
    /\ Begin(t, a)
    /\ pc' = "php" /\ result' = "false"
    /\ state' = [state EXCEPT ![t] = "failed"]
    /\ \/ a = "quicpro_client_session_connect" /\ exception' = TRUE
       \/ a = "quicpro_connect" /\ exception' = FALSE
    /\ UNCHANGED <<held, frozen>>

\* The configuration is frozen and the session allocated before anything else
\* can fail.
ClientSessionConnect(t) ==
    /\ Begin(t, "quicpro_client_session_connect")
    /\ pc' = "host" /\ result' = "none" /\ exception' = FALSE
    /\ state' = [state EXCEPT ![t] = "building"]
    /\ held' = [held EXCEPT ![t] = {"session"}]
    /\ frozen' = TRUE

QuicproConnect(t) ==
    /\ Begin(t, "quicpro_connect")
    /\ pc' = "resolve" /\ result' = "none" /\ exception' = FALSE
    /\ state' = [state EXCEPT ![t] = "building"]
    /\ UNCHANGED <<held, frozen>>

\* The host name has to fit s->host (quicpro_connect truncates it instead).
CopyHost ==
    /\ pc = "host"
    /\ \/ /\ pc' = "resolve" /\ UNCHANGED <<held, exception, result, state>>
       \/ ReturnFalse({"session"}) /\ Throw
    /\ UNCHANGED <<call, addrs, todo, v6_failed, family, opened_by, frozen, config_frees>>

\* try_ipv6 and try_ipv4 (try_v6 and try_v4 in quicpro_connect).
TryFamily(f) ==
    \/ mode = "auto"
    \/ mode = (IF f = "v6" THEN "ipv6" ELSE "ipv4")
    \/ mode = "other" /\ api = "quicpro_connect"

\* getaddrinfo() answers or fails; the IPv6 loop comes first.
ResolveHost ==
    /\ pc = "resolve"
    /\ \/ \E n \in [Families -> 0 .. MaxAddrs] :
           /\ addrs' = n
           /\ todo' = IF TryFamily("v6") THEN n["v6"] ELSE 0
           /\ pc' = "v6"
           /\ Own({"addrinfo"})
           /\ UNCHANGED <<exception, result, state>>
       \/ ReturnFalse({"session"}) /\ Throw /\ UNCHANGED <<addrs, todo>>
    /\ UNCHANGED <<call, v6_failed, family, opened_by, frozen, config_frees>>

\* An attempt at one address: no socket, or one that cannot be bound to the
\* interface (the helpers throw); no connection; or a connected socket.  A
\* socket that is not connected is closed again.
TryAddress ==
    /\ pc \in Families
    /\ todo > 0
    /\ \/ /\ Throw \/ UNCHANGED exception
          /\ todo' = todo - 1
          /\ v6_failed' = v6_failed + (IF pc = "v6" THEN 1 ELSE 0)
          /\ UNCHANGED <<pc, family, held>>
       \/ /\ family' = pc /\ pc' = "selected" /\ Own({"socket"})
          /\ UNCHANGED <<todo, v6_failed, exception>>
    /\ UNCHANGED <<call, addrs, result, state, opened_by, frozen, config_frees>>

\* The IPv6 loop found nothing.
FallBack ==
    /\ pc = "v6" /\ todo = 0
    /\ pc' = "v4"
    /\ todo' = IF TryFamily("v4") THEN addrs["v4"] ELSE 0
    /\ UNCHANGED <<call, addrs, v6_failed, family, exception, result, state, held,
                   opened_by, frozen, config_frees>>

NoConnectedSocket ==
    /\ pc = "v4" /\ todo = 0
    /\ ReturnFalse({"addrinfo", "session"})
    /\ Throw
    /\ UNCHANGED <<call, addrs, todo, v6_failed, family, opened_by, frozen, config_frees>>

AdoptSocket_Mutant ==
    /\ pc = "selected"
    /\ pc' = "quiche"
    /\ IF api = "quicpro_connect" THEN Own({"session"}) ELSE UNCHANGED held
    /\ UNCHANGED <<call, addrs, todo, v6_failed, family, exception, result, state,
                   opened_by, frozen, config_frees>>

\* The socket becomes the session's.  quicpro_client_session_connect copied the
\* peer address and frees the list; quicpro_connect allocates the session.
AdoptSocket ==
    /\ pc = "selected"
    /\ pc' = "quiche"
    /\ IF api = "quicpro_connect" THEN Own({"session"}) ELSE Release({"addrinfo"})
    /\ UNCHANGED <<call, addrs, todo, v6_failed, family, exception, result, state,
                   opened_by, frozen, config_frees>>

QuicheConnect ==
    /\ pc = "quiche"
    /\ \/ /\ pc' = "h3_cfg" /\ Own({"conn"})
          /\ UNCHANGED <<exception, result, state>>
       \/ /\ ReturnFalse(IF api = "quicpro_connect" THEN {"addrinfo", "session", "socket"}
                                                    ELSE {"socket", "session"})
          /\ Throw
    /\ UNCHANGED <<call, addrs, todo, v6_failed, family, opened_by, frozen, config_frees>>

\* quiche_h3_config_new(); quicpro_connect does not look at the result.
NewH3Config ==
    /\ pc = "h3_cfg"
    /\ \/ /\ pc' = "h3" /\ Own({"h3_cfg"})
          /\ UNCHANGED <<exception, result, state>>
       \/ /\ api = "quicpro_connect"
          /\ pc' = "h3" /\ UNCHANGED <<held, exception, result, state>>
       \/ /\ api = "quicpro_client_session_connect"
          /\ ReturnFalse({"conn", "socket", "session"}) /\ Throw
    /\ UNCHANGED <<call, addrs, todo, v6_failed, family, opened_by, frozen, config_frees>>

\* RETURN_RES(zend_register_resource(...)).
ReturnResource ==
    /\ pc' = "php"
    /\ result' = "resource"
    /\ state' = [state EXCEPT ![s] = "open"]
    /\ UNCHANGED exception

NewH3Conn ==
    /\ pc = "h3"
    /\ \/ /\ api = "quicpro_client_session_connect"
          /\ ReturnResource
          /\ Own({"h3"})
       \/ /\ api = "quicpro_connect"              \* whether it is NULL or not
          /\ ReturnResource
          /\ \E new \in {{}, {"h3"}} : held' = [held EXCEPT ![s] = (@ \cup new) \ {"addrinfo"}]
       \/ /\ api = "quicpro_client_session_connect"
          /\ ReturnFalse({"h3_cfg", "conn", "socket", "session"}) /\ Throw
    /\ UNCHANGED <<call, addrs, todo, v6_failed, family, opened_by, frozen, config_frees>>

\* The last reference to a resource of type le_quicpro goes away.
SessionDtor(t) ==
    /\ pc = "php"
    /\ state[t] = "open" /\ opened_by[t] = "quicpro_connect"
    /\ held' = [held EXCEPT ![t] = @ \ {"h3", "conn", "h3_cfg", "socket", "session"}]
    /\ state' = [state EXCEPT ![t] = "freed"]
    /\ config_frees' = config_frees + 1
    /\ UNCHANGED <<pc, call, addrs, todo, v6_failed, family, exception, result, opened_by, frozen>>

Next ==
    \/ \E t \in Sessions :
        \/ \E a \in Apis : InvalidConfig(t, a)
        \/ ClientSessionConnect(t) \/ QuicproConnect(t) \/ SessionDtor(t)
    \/ CopyHost \/ ResolveHost \/ TryAddress \/ FallBack
    \/ NoConnectedSocket \/ AdoptSocket \/ QuicheConnect \/ NewH3Config
    \/ NewH3Conn

Spec == Init /\ [][Next]_vars

-----------------------------------------------------------------------------
(* Properties. *)

\* A session that could not be opened, or was destroyed, has given back its
\* socket, its quiche objects, its address list and its memory, at whichever
\* step connect failed.
NothingLeaks == \A t \in Sessions : state[t] \in {"failed", "freed"} => held[t] = {}

\* A session PHP receives has a connected socket and a QUIC connection, has
\* no address list left, and from quicpro_client_session_connect an HTTP/3 layer.
OpenIsComplete ==
    \A t \in Sessions : state[t] = "open" =>
        /\ {"session", "socket", "conn"} \subseteq held[t]
        /\ "addrinfo" \notin held[t]
        /\ opened_by[t] = "quicpro_client_session_connect" => {"h3_cfg", "h3"} \subseteq held[t]

\* An IPv4 socket is taken only when the option admits IPv4, and, when it
\* admits both, only after every IPv6 address has failed; an IPv6 socket never
\* when the option asks for IPv4.
FamilyPreference ==
    /\ family = "v4" => mode # "ipv6" /\ (mode = "auto" => v6_failed = addrs["v6"])
    /\ family = "v6" => mode # "ipv4"

\* quicpro_client_session_connect never fails silently: when it returns FALSE
\* an exception is pending.
FailureThrows ==
    result = "false" /\ api = "quicpro_client_session_connect" => exception

=============================================================================
