------------------------------- MODULE MCServer -------------------------------
(* The server side on small instances. *)
EXTENDS Server

MCLengths == {0, 1, 125, 126, 127, 255, 256, 65535, 65536, 16777216, 2147483647}
MCLetters == {"a"}

==============================================================================
