--------------------------- MODULE MCOrderlySender --------------------------
(***************************************************************************)
(* Constants of OrderlySender for TLC.                                     *)
(***************************************************************************)
EXTENDS OrderlySender

CONSTANT a

OneWindow == {a}
=============================================================================
