--------------------------- MODULE MCResultMonitor --------------------------
(***************************************************************************)
(* Constants of ResultMonitor for TLC are given in its .cfg.               *)
(***************************************************************************)
EXTENDS ResultMonitor
=============================================================================
