------------------------------- MODULE Xzibit -------------------------------
(***************************************************************************)
(* Both ends of one tube: the sending half of the plugin (Sharing), with   *)
(* the display program of the receiving desktop (RfbClient) in the place   *)
(* of its unspecified remote end.  The relay in between, which hands every *)
(* byte on, and the tube are one queue in each direction.                  *)
(***************************************************************************)
EXTENDS Sharing

CONSTANTS Fds, MaxRecords   \* see RfbClient

ASSUME XzibitAssumption ==
  /\ MaxTubes = 1
  /\ MaxShares < ByteSize * ByteSize
  /\ StaleIds \subseteq Ids
  /\ "full" \notin Env
  /\ PeerOps = {"DATA"}

VARIABLES received, channel, fd, audio, destroyed, dismissed, unread, watched,
          title, postponed, life

displayVars == <<received, channel, fd, audio, destroyed, dismissed, unread,
                 watched, title, postponed, life>>
xzibitVars  == <<vars, displayVars>>

Display == INSTANCE RfbClient
             WITH input <- down[1], output <- up[1], OutputSize <- PeerSize

XzibitInit == Init /\ Display!ClientInit

\* What the remote end has been told, when the display program reads a block.
Told(block) ==
  /\ peerOpen' = [peerOpen EXCEPT ![1] =
       CASE block.op = "OPEN"  -> @ \cup {block.id}
         [] block.op = "CLOSE" -> @ \ {block.id}
         [] OTHER              -> @]
  /\ peerOffered' = [peerOffered EXCEPT ![1] =
       IF block.op = "OPEN" THEN @ \cup {block.id} ELSE @]

SendingHalfSame ==
  UNCHANGED <<xvars, fate, recordVars, vncVars, pending, bottom, sync, tubes>>

\* The program writes nothing, or one block.
Upstream ==
  \/ UNCHANGED up
  \/ \E op \in {"ACCEPT", "CLOSE", "DATA"}, c \in Ids :
       up' = [up EXCEPT ![1] = Append(@, [op |-> op, id |-> c])]

DisplayTakesBlock ==
  /\ life = "running"
  /\ down[1] # <<>>
  /\ down' = [down EXCEPT ![1] = Tail(@)]
  /\ Upstream
  /\ Display!CheckForFdInput
  /\ Told(Head(down[1]))
  /\ SendingHalfSame

DisplayDoesElse ==
  /\ UNCHANGED <<down, peerVars>>
  /\ Upstream
  /\ Display!ClientStep
  /\ SendingHalfSame

XzibitNext ==
  /\ fate = "running"
  /\ \/ (Plugin \/ Desktop) /\ UNCHANGED displayVars
     \/ DisplayTakesBlock
     \/ DisplayDoesElse

XzibitSpec == XzibitInit /\ [][XzibitNext]_xzibitVars

\* As for Sharing.  A handler of the display program that finds no room to
\* write waits in the write, it does not give up its turn: hence the strong
\* fairness.
XzibitFairness ==
  /\ WF_xzibitVars(Running(XEventFilter /\ UNCHANGED displayVars))
  /\ WF_xzibitVars(Running(CopyBottomToClient(1) /\ UNCHANGED displayVars))
  /\ SF_xzibitVars(Running(DisplayTakesBlock))

FairXzibitSpec == XzibitSpec /\ XzibitFairness

-----------------------------------------------------------------------------
(* Properties.                                                             *)

\* The display program is a remote end such as Sharing assumes: whatever it is
\* made to do, it accepts only channels it has been offered, and answers an
\* OPEN or a CLOSE once.  So what holds of Sharing holds here.
ImplementsSharing == Spec

Shown(c) == \E r \in Display!OnScreen \cup dismissed : channel[r] = c

InFlight(op, c) == \E i \in DOMAIN down[1] : down[1][i] = About(op, c)

NoClash == \A r \in Display!Records : fd[r] \notin Ids

\* The two desktops agree while the user waits for each request to be dealt
\* with: a window that is shared is on the remote screen, unless its tube is
\* being set up or has failed, the OPEN is on its way or the remote user closed
\* it; a window on the remote screen is shared, or its CLOSE is on its way.
ScreensAgree ==
  life = "running" /\ NoClash =>
    /\ \A c \in forwarded :
         \/ c \in pending \/ result[window[c]] = 301
         \/ InFlight("OPEN", c) \/ Shown(c)
    /\ \A r \in Display!OnScreen :
         channel[r] \in forwarded \/ InFlight("CLOSE", channel[r])

\* A window that is no longer shared goes from the remote screen, however much
\* either end has to say on other channels.
UnsharedDisappears ==
  \A r \in Display!Records :
    (r \in Display!OnScreen /\ channel[r] \notin forwarded)
      ~> \/ r \notin Display!OnScreen
         \/ fate # "running" \/ life # "running"
         \/ ~ NoClash
=============================================================================
