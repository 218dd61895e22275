-------------------------------- MODULE Agent --------------------------------
(***************************************************************************)
(* What a PHP script calls on the client side besides QUIC sessions:       *)
(* pipelines and their tools, the MCP client, the HTTP client.  Each call  *)
(* blocks the script until it returns and they share no state, so a script *)
(* that works with one of them stands for all.                             *)
(***************************************************************************)
EXTENDS Orchestrator, McpClient, HttpClient

VARIABLE script

Scripts == {"pipeline", "mcp", "http"}

vars == <<script, trvars, orvars, mcvars, hcvars>>

Init ==
    /\ script \in Scripts
    /\ TrInit /\ OrInit /\ McInit /\ HcInit

Next ==
    \/ script = "pipeline" /\ OrNext /\ UNCHANGED <<script, mcvars, hcvars>>
    \/ script = "mcp" /\ McNext /\ UNCHANGED <<script, trvars, orvars, hcvars>>
    \/ script = "http" /\ HcNext /\ UNCHANGED <<script, trvars, orvars, mcvars>>

Polls(A) == script = "mcp" /\ A /\ UNCHANGED <<script, trvars, orvars, hcvars>>

(* The polling loop sleeps a millisecond and goes on, and so does the      *)
(* clock.  Nothing says that the connection dies: only a turn that finds   *)
(* events, or the timeout, is sure to happen.                              *)
Fairness ==
    /\ WF_vars(Polls(mcp_poll_turn /\ mc_events # <<>>))
    /\ WF_vars(Polls(mcp_poll_times_out))
    /\ WF_vars(Polls(mc_tick))

Spec == Init /\ [][Next]_vars /\ Fairness

==============================================================================
