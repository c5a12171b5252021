---------------------------- MODULE MCRendezvous ----------------------------
(***************************************************************************)
(* Constants of Rendezvous for TLC.                                        *)
(***************************************************************************)
EXTENDS Rendezvous

CONSTANTS A1, A2, A3, Romeo

ThreeAccounts == {A1, A2, A3}
OneContact == {Romeo}
=============================================================================
