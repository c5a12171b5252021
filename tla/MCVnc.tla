-------------------------------- MODULE MCVnc -------------------------------
(***************************************************************************)
(* Constants of Vnc for TLC: two of the three pictures have one checksum.  *)
(***************************************************************************)
EXTENDS Vnc, TLC

CONSTANTS W1, W2

TwoWindows == {W1, W2}
SomeContents == {"blank", "text", "txet"}
SomeSum == "blank" :> 0 @@ "text" :> 1 @@ "txet" :> 1

\* The windows look alike at first.
MCInit == Init /\ \A w \in Windows : content[w] = "text"
MCSpec == MCInit /\ [][Next]_vars /\ Fairness
=============================================================================
