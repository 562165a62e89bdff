------------------------------ MODULE MCStartup ------------------------------
(* Startup with one check more than the code has. *)
EXTENDS Startup
=============================================================================
