----------------------------- MODULE MCShutdown -----------------------------
(***************************************************************************)
(* Shutdown with two connections, so that one can be in the making while   *)
(* the other is logged in, and a wait of two seconds.                      *)
(***************************************************************************)
EXTENDS Shutdown
=============================================================================
