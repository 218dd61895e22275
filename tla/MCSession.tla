------------------------------ MODULE MCSession ------------------------------
(* A poll budget of one microsecond, so that a poll can take one turn or two,  *)
(* and of zero where the number of turns does not matter.                      *)
EXTENDS ClientSession

=============================================================================
