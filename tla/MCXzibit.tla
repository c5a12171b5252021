------------------------------ MODULE MCXzibit ------------------------------
(***************************************************************************)
(* Constants of Xzibit for TLC.                                            *)
(***************************************************************************)
EXTENDS XzibitClaims, TLC

CONSTANTS a, b

BothWindows == {a, b}
OneWindow == {a}
Swap == Permutations({a, b})
NoParents == [w \in Windows |-> NoWindow]
=============================================================================
