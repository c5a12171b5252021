---------------------------- MODULE OrderlySender ---------------------------
(***************************************************************************)
(* The display program with a sending end that keeps to the protocol:      *)
(* every channel is opened once, and after its CLOSE nothing is said on or *)
(* of it (src/doc/protocol.txt).  It may use all of the protocol the       *)
(* display program knows, LISTEN and metadata ahead of the OPEN included,  *)
(* which the plugin of this repository does not.                           *)
(***************************************************************************)
EXTENDS RfbClient

CONSTANTS
  Titles,       \* titles of windows
  Described,    \* bound: channels that metadata is sent for
  InputSize,    \* bound: blocks on their way
  MaxPostponed  \* bound: no metadata is sent when this much is postponed

ASSUME OrderlySenderAssumption ==
  /\ Described \subseteq Ids
  /\ InputSize \in Nat \ {0}
  /\ MaxPostponed \in Nat

VARIABLES
  sent,      \* channels whose OPEN has been written
  listened,  \* channels opened by a LISTEN
  ended,     \* channels whose CLOSE has been written
  early,     \* the first title written for each channel ahead of its OPEN
  latest     \* the last title written for each channel

channelHistory == <<sent, listened, ended>>
titleHistory   == <<early, latest>>
history == <<channelHistory, titleHistory>>
allVars == <<clientVars, history>>

Told == sent \ ended

Write(block) ==
  /\ Len(input) < InputSize
  /\ input' = Append(input, block)
  /\ UNCHANGED <<output, tables, widgets, title, postponed, life>>

Offer(c) ==
  /\ c \notin sent \cup listened
  /\ Write(About("OPEN", c))
  /\ sent' = sent \cup {c}
  /\ UNCHANGED <<listened, ended, titleHistory>>

OfferSound(c) ==
  /\ c \notin sent \cup listened
  /\ Told # {}
  /\ Write(About("LISTEN", c))
  /\ listened' = listened \cup {c}
  /\ UNCHANGED <<sent, ended, titleHistory>>

Withdraw(c) ==
  /\ c \in (sent \cup listened) \ ended
  /\ Write(About("CLOSE", c))
  /\ ended' = ended \cup {c}
  /\ UNCHANGED <<sent, listened, titleHistory>>

\* Metadata, of a channel that may be opened later.
Describe(c, block) ==
  /\ c \notin listened \cup ended
  /\ Len(postponed[c]) < MaxPostponed
  /\ Write(block)
  /\ UNCHANGED channelHistory

DescribeTitle(c, block) ==
  /\ Describe(c, block)
  /\ latest' = [latest EXCEPT ![c] = block]
  /\ early' = IF c \notin sent /\ early[c] = NoTitle
              THEN [early EXCEPT ![c] = block]
              ELSE early

\* A type has the effect of a title, except that nothing is set: it is sent
\* ahead of the OPEN only.
DescribeType(c) ==
  /\ c \notin sent
  /\ Describe(c, About("TYPE", c))
  /\ UNCHANGED titleHistory

Point(c) ==
  /\ c \in Told
  /\ Write(About("MOUSE", c))
  /\ UNCHANGED history

PointAway ==
  /\ Write(Hide)
  /\ UNCHANGED history

Stream(c) ==
  /\ c \in (sent \cup listened) \ ended
  /\ \E w \in Windows : Write(Rfb(c, w))
  /\ UNCHANGED history

ReadsAnswer ==
  /\ output # <<>>
  /\ output' = Tail(output)
  /\ UNCHANGED <<input, tables, widgets, title, postponed, life, history>>

Sender ==
  \/ \E c \in Ids :
       \/ Offer(c)
       \/ OfferSound(c)
       \/ Withdraw(c)
       \/ Point(c)
       \/ Stream(c)
  \/ \E c \in Described :
       \/ \E t \in Titles :
            DescribeTitle(c, [op |-> "NAME", id |-> c, title |-> t])
       \/ DescribeType(c)
  \/ PointAway
  \/ ReadsAnswer

OrderlyInit ==
  /\ ClientInit
  /\ sent = {}
  /\ listened = {}
  /\ ended = {}
  /\ early = [c \in Ids |-> NoTitle]
  /\ latest = [c \in Ids |-> NoTitle]

OrderlyNext ==
  \/ ClientStep /\ UNCHANGED history
  \/ life = "running" /\ Sender

OrderlySpec == OrderlyInit /\ [][OrderlyNext]_allVars

-----------------------------------------------------------------------------
\* No socket has the number of a channel for its descriptor: otherwise closing
\* the one removes the record of the other (see RemovedRecord).
NoClash == \A r \in Records : fd[r] \notin Ids

\* Once everything has been read, the screen shows exactly one window for every
\* channel that is open, but for those the user closed, and none for a channel
\* that is not: no OPEN or CLOSE, in whatever order with the callbacks of GTK
\* and gtk-vnc, is lost or is taken for another channel's.
ScreenFollows ==
  NoClash /\ life = "running" /\ input = <<>> =>
    /\ \A r \in OnScreen : channel[r] \in Told
    /\ \A c \in Told : \E r \in OnScreen \cup dismissed : channel[r] = c
    /\ \A r, q \in OnScreen : channel[r] = channel[q] => r = q

\* With a sending end that keeps to the protocol the program dies only of the
\* end of a window.  It uses a window, a record or a socket that is gone only
\* after the user closed a window.  The socket of a window is reset, which ends
\* the program, only when the window was closed, by the user or by the CLOSE of
\* its channel, before its display had read all that was streamed to it.  MOUSE
\* and SET never find no record.
OnlyClosingHarms ==
  NoClash =>
    /\ life # "null"
    /\ life \in {"pipe", "freed"} => dismissed # {}
    /\ life = "reset" =>
         \E r \in destroyed \cap unread : r \in dismissed \/ channel[r] \in ended

\* Once everything has been read and what was postponed has been applied, a
\* window on the screen has the last title it was sent, whether that came before
\* the OPEN, before the window was first exposed or after.  The exception is
\* that of titles sent ahead of the OPEN the first is applied last, and over one
\* that came after the OPEN: postponed metadata is kept newest first.
TitlesKept ==
  NoClash /\ life = "running" /\ input = <<>> =>
    \A r \in OnScreen :
      LET c == channel[r] IN
      postponed[c] = <<>> =>
        \/ title[r] = latest[c]
        \/ early[c] # NoTitle /\ title[r] = early[c]
=============================================================================
