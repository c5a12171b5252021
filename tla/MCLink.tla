------------------------------- MODULE MCLink -------------------------------
(***************************************************************************)
(* Constants of Link for TLC.  A byte has two values, so that two bytes    *)
(* are needed for channel 2 and for a payload of two bytes.                *)
(***************************************************************************)
EXTENDS Link

\* A message about a window, and RFB bytes; and an empty block.
SomeDown == {Block(0, <<1>>), Block(2, <<0, 1>>), Block(2, <<>>)}
SomeUp == {Block(2, <<1, 0>>)}
SomeAvatar == Block(0, <<1>>)
=============================================================================
