--------------------------- MODULE MCServerSetup ---------------------------
(* Instances of ServerSetup for TLC. *)
EXTENDS ServerSetup
=============================================================================
