------------------------------- MODULE MCAgent -------------------------------
(* Scripts on small instances: two tools, one of them ConditionalLogic. *)
EXTENDS Agent

==============================================================================
