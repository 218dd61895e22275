---------------------------- MODULE StreamHandlers ----------------------------
(***************************************************************************)
(* What the PHP request handler does to one stream of its session:         *)
(* quicpro_server_on_cancel, quicpro_server_send_early_hints, and the      *)
(* invocation of a cancel handler when the peer resets the stream.  The    *)
(* invoked handler is PHP code and may register handlers itself.           *)
(*                                                                         *)
(* The table of streams, the final response and the moment of the reset    *)
(* belong to code outside this file (external).  sh_refs counts the        *)
(* references to each callable that the C side holds.                      *)
(***************************************************************************)
EXTENDS Integers, FiniteSets

CONSTANTS
    ShStream,    \* streams of the session
    ShCallable,  \* PHP callables
    ShNone       \* no callable

ASSUME StreamAssumption == ShNone \notin ShCallable

VARIABLES
    sh_stream,   \* [ShStream -> [known, has, fn, final]]
    sh_refs,     \* [ShCallable -> references held]
    sh_running,  \* the stream whose cancel handler runs, in a set
    sh_closed,   \* quiche_conn_is_closed
    sh_wire      \* [ShStream -> what went out: none, hints, final]

shvars == <<sh_stream, sh_refs, sh_running, sh_closed, sh_wire>>

ShInit ==
    /\ sh_stream = [s \in ShStream |-> [known |-> FALSE, has |-> FALSE, fn |-> ShNone, final |-> FALSE]]
    /\ sh_refs = [f \in ShCallable |-> 0]
    /\ sh_running = {}
    /\ sh_closed = FALSE
    /\ sh_wire = [s \in ShStream |-> "none"]

------------------------------------------------------------------------------
(* External: a stream appears, its final response goes out, the connection *)
(* closes.                                                                 *)
sh_opens(s) ==
    /\ ~sh_stream[s].known
    /\ sh_stream' = [sh_stream EXCEPT ![s].known = TRUE]
    /\ UNCHANGED <<sh_refs, sh_running, sh_closed, sh_wire>>

sh_final(s) ==
    /\ sh_stream[s].known /\ ~sh_stream[s].final /\ ~sh_closed
    /\ sh_stream' = [sh_stream EXCEPT ![s].final = TRUE]
    /\ sh_wire' = [sh_wire EXCEPT ![s] = "final"]
    /\ UNCHANGED <<sh_refs, sh_running, sh_closed>>

sh_closes ==
    /\ ~sh_closed
    /\ sh_closed' = TRUE
    /\ UNCHANGED <<sh_stream, sh_refs, sh_running, sh_wire>>

------------------------------------------------------------------------------
Released(refs, f) == IF f = ShNone THEN refs ELSE [refs EXCEPT ![f] = @ - 1]

(* Mutant: the handler registered before is simply overwritten. *)
quicpro_server_on_cancel_Mutant(s, f) ==
    /\ sh_stream[s].known
    /\ sh_refs' = [sh_refs EXCEPT ![f] = @ + 1]
    /\ sh_stream' = [sh_stream EXCEPT ![s].fn = f, ![s].has = TRUE]
    /\ UNCHANGED <<sh_running, sh_closed, sh_wire>>

(* An unknown stream is an exception.  A handler set before is released,   *)
(* also the one that is running.                                           *)
quicpro_server_on_cancel(s, f) ==
    /\ sh_stream[s].known
    /\ LET kept == IF sh_stream[s].has THEN Released(sh_refs, sh_stream[s].fn) ELSE sh_refs
       IN  sh_refs' = [kept EXCEPT ![f] = @ + 1]
    /\ sh_stream' = [sh_stream EXCEPT ![s].fn = f, ![s].has = TRUE]
    /\ UNCHANGED <<sh_running, sh_closed, sh_wire>>

(* quicpro_internal_invoke_cancel_handler up to and after the PHP call. *)
invoke_cancel_handler_calls(s) ==
    /\ sh_stream[s].has /\ sh_running = {}
    /\ sh_running' = {s}
    /\ UNCHANGED <<sh_stream, sh_refs, sh_closed, sh_wire>>

invoke_cancel_handler_returns(s) ==
    /\ s \in sh_running
    /\ sh_refs' = Released(sh_refs, sh_stream[s].fn)
    /\ sh_stream' = [sh_stream EXCEPT ![s].fn = ShNone, ![s].has = FALSE]
    /\ sh_running' = {}
    /\ UNCHANGED <<sh_closed, sh_wire>>

(* A closed connection, an unknown stream, a final response that is out    *)
(* and an empty list send nothing; quiche may refuse the rest.             *)
quicpro_server_send_early_hints(s) ==
    /\ ~sh_closed /\ sh_stream[s].known /\ ~sh_stream[s].final
    /\ sh_wire' = [sh_wire EXCEPT ![s] = "hints"]
    /\ UNCHANGED <<sh_stream, sh_refs, sh_running, sh_closed>>

ShNext ==
    \/ sh_closes
    \/ \E s \in ShStream :
          \/ sh_opens(s) \/ sh_final(s)
          \/ \E f \in ShCallable : quicpro_server_on_cancel(s, f)
          \/ invoke_cancel_handler_calls(s)
          \/ invoke_cancel_handler_returns(s)
          \/ quicpro_server_send_early_hints(s)

ShSpec == ShInit /\ [][ShNext]_shvars

------------------------------------------------------------------------------
ShTypeOK ==
    /\ sh_stream \in [ShStream -> [known : BOOLEAN, has : BOOLEAN, fn : ShCallable \cup {ShNone}, final : BOOLEAN]]
    /\ sh_refs \in [ShCallable -> Int]
    /\ sh_running \in SUBSET ShStream /\ Cardinality(sh_running) <= 1
    /\ sh_closed \in BOOLEAN
    /\ sh_wire \in [ShStream -> {"none", "hints", "final"}]

(* The references held on a callable are exactly the streams it is         *)
(* registered on, so that no handler is freed while registered and none    *)
(* leaks, also when a running handler registers another for its stream.    *)
HandlerRefsBalanced ==
    /\ \A f \in ShCallable :
          sh_refs[f] = Cardinality({s \in ShStream : sh_stream[s].has /\ sh_stream[s].fn = f})
    /\ \A s \in ShStream : sh_stream[s].has <=> sh_stream[s].fn # ShNone
    /\ \A s \in sh_running : sh_stream[s].has

==============================================================================
