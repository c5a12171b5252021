---------------------------- MODULE XzibitClaims ----------------------------
(***************************************************************************)
(* What a message of the display program says, and it does not do.         *)
(***************************************************************************)
EXTENDS Xzibit

\* handle_xzibit_message: "A message was received for channel %d, which is not
\* open", and the message is ignored.  What arrives for a channel after its
\* CLOSE, as the sending half lets it, does not end the display program (the
\* windows its user closed are left out of this).
ClosedChannelsIgnored == life = "pipe" => dismissed # {}
=============================================================================
