---------------------------- MODULE TubeRequest ----------------------------
(***************************************************************************)
(* What a request for a tube promises to the one who makes it: an answer,  *)
(* at most one, and the answer that it is ready only once the other end    *)
(* has taken the tube.                                                     *)
(***************************************************************************)
VARIABLES
  answers,  \* what has been answered, each "ready" or "failed"
  taken     \* the other end has taken the tube

vars == <<answers, taken>>

Init == answers = <<>> /\ taken = FALSE

Take == ~taken /\ taken' = TRUE /\ UNCHANGED answers

Ready == answers = <<>> /\ taken /\ answers' = <<"ready">> /\ UNCHANGED taken

Fail == answers = <<>> /\ answers' = <<"failed">> /\ UNCHANGED taken

Next == Take \/ Ready \/ Fail

Spec == Init /\ [][Next]_vars
=============================================================================
