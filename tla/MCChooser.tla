------------------------------ MODULE MCChooser -----------------------------
(***************************************************************************)
(* Constants of Chooser for TLC: a window in its frame, one without a      *)
(* frame, and the connector's own in its frame; names of two lengths.       *)
(***************************************************************************)
EXTENDS Chooser, TLC

CONSTANTS Frame, Term, Popup, OwnFrame

SomeKids == Frame :> {Term} @@ Popup :> {} @@ OwnFrame :> {Own}

SomeLength == "a" :> 5 @@ "b" :> 6 @@ "romeo" :> 5 @@ "juliet" :> 6
=============================================================================
