----------------------------- MODULE BlockQueue -----------------------------
(***************************************************************************)
(* What a connection promises to the two programs that speak Xzibit over   *)
(* it: blocks come out whole and in the order in which they went in.  A    *)
(* sender may break the stream (a block of no bytes, or one of which only  *)
(* a part fits into a full socket); what went in before that still comes   *)
(* out, and after it nothing is promised.                                  *)
(***************************************************************************)
EXTENDS Naturals, Sequences

CONSTANT AnyBlock   \* the blocks there can be

VARIABLES
  sent,       \* blocks that went in before the stream broke
  delivered,  \* blocks that came out
  broken      \* the stream has been broken by its sender

vars == <<sent, delivered, broken>>

\* One more block, and the others as before.
Extends(longer, blocks) ==
  /\ longer \in Seq(AnyBlock)
  /\ Len(longer) = Len(blocks) + 1
  /\ SubSeq(longer, 1, Len(blocks)) = blocks

Init ==
  /\ sent = <<>>
  /\ delivered = <<>>
  /\ broken = FALSE

Send ==
  /\ ~broken
  /\ Extends(sent', sent)
  /\ UNCHANGED <<delivered, broken>>

Break ==
  /\ broken' = TRUE
  /\ UNCHANGED <<sent, delivered>>

Deliver ==
  /\ Len(delivered) < Len(sent)
  /\ delivered' = Append(delivered, sent[Len(delivered) + 1])
  /\ UNCHANGED <<sent, broken>>

\* What comes out of a broken stream is some block, or another, or none.
Garble ==
  /\ broken
  /\ Len(delivered) >= Len(sent)
  /\ Extends(delivered', delivered)
  /\ UNCHANGED <<sent, broken>>

Next == Send \/ Break \/ Deliver \/ Garble

Spec == Init /\ [][Next]_vars
=============================================================================
