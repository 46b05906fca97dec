----------------------------- MODULE MCSession ------------------------------
(***************************************************************************)
(* Session with bounds on what the user and the other handlers do.  It has *)
(* no sets of interchangeable values, and so no symmetry: liveness is      *)
(* checked on the whole state graph.                                       *)
(***************************************************************************)
EXTENDS Session
=============================================================================
