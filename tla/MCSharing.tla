------------------------------ MODULE MCSharing -----------------------------
(***************************************************************************)
(* Constants of Sharing for TLC.                                           *)
(***************************************************************************)
EXTENDS Sharing, TLC

CONSTANTS a, b

BothWindows == {a, b}
OneWindow == {a}
Swap == Permutations({a, b})

\* No window is transient for another; or one is for the other.
NoParents == [w \in Windows |-> NoWindow]
DialogOf(d) ==
  [w \in {a, b} |-> IF w = d THEN CHOOSE x \in {a, b} : x # d ELSE NoWindow]
=============================================================================
