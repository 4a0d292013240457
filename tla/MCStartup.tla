----------------------------- MODULE MCStartup -----------------------------
(***************************************************************************)
(* An instance of Startup for TLC: two processes.                          *)
(***************************************************************************)
EXTENDS Startup
=============================================================================
