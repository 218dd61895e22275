------------------------------ MODULE MCConnect ------------------------------
(* Two sessions opened with one configuration, up to two addresses of each   *)
(* family: one to fail at and one to succeed at.                             *)
EXTENDS SessionConnect

=============================================================================
