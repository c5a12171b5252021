------------------------------ MODULE MCTubes -------------------------------
(***************************************************************************)
(* Sharing in two environments.  In one the user is impatient, as the .cfg *)
(* says: tubes come up one after the other, and records are freed while    *)
(* they are in use.  In the other the user is not, but all else goes       *)
(* wrong: the socket is full, libvncserver hangs up, a window has no name  *)
(* and is transient for the other, and requests are repeated.              *)
(***************************************************************************)
EXTENDS MCSharing

\* The dialogue of the second environment; none in the first.
VARIABLE dialogue

Everything == {"repeats", "full", "hangup"}

\* Either window is the dialogue, as they are interchangeable.
BIsDialogue ==
  INSTANCE Sharing WITH
    Env <- Everything, Named <- {a}, Parent <- DialogOf(b),
    ShareValues <- {1, 2}, PeerOps <- {"ACCEPT"}, StaleIds <- {2},
    MaxEvents <- 1

AIsDialogue ==
  INSTANCE Sharing WITH
    Env <- Everything, Named <- {b}, Parent <- DialogOf(a),
    ShareValues <- {1, 2}, PeerOps <- {"ACCEPT"}, StaleIds <- {2},
    MaxEvents <- 1

TubesInit ==
  \/ dialogue = NoWindow /\ Init
  \/ dialogue = b /\ BIsDialogue!Init
  \/ dialogue = a /\ AIsDialogue!Init

TubesNext ==
  /\ UNCHANGED dialogue
  /\ \/ dialogue = NoWindow /\ Next
     \/ dialogue = b /\ BIsDialogue!Next
     \/ dialogue = a /\ AIsDialogue!Next

TubesSpec == TubesInit /\ [][TubesNext]_<<vars, dialogue>>
=============================================================================
