------------------------------ MODULE Protocol ------------------------------
(***************************************************************************)
(* The vocabulary of the Xzibit protocol as the two ends of this           *)
(* repository write and read it: window identifiers, their two-byte        *)
(* encoding, and the blocks that travel over a tube.  A block is a record  *)
(* with an opcode "op"; coordinates, titles, images and RFB bytes are not  *)
(* part of it.  "Down" is from the sharing end to the receiving end.       *)
(***************************************************************************)
EXTENDS Integers, Sequences

CONSTANTS
  Windows,    \* X11 windows of the sharing desktop
  NoWindow,   \* stands for "no such window"
  MaxShares,  \* bound: how many calls of share_window a behaviour may have
  ByteSize    \* values of one byte of an identifier (256 in the program)

ASSUME ProtocolAssumption ==
  /\ NoWindow \notin Windows
  /\ MaxShares \in Nat \ {0}
  /\ ByteSize \in Nat \ {0, 1}

\* Identifiers share_window can allocate; 0 is the control channel.
Ids == 1 .. MaxShares

\* What identifier c becomes when it is written as (c % 256, c / 256), both
\* truncated to a byte, and read back as unsigned bytes.
Wire(c) == c % (ByteSize * ByteSize)

\* Mutant of Decoded: the next identifier is taken.
DecodedNext(id) == id + 1

\* No window ever has this identifier.
NotAnId == 0

\* The identifier the sharing end looks up for an ACCEPT: it reads the two
\* bytes through a (signed) char pointer, so a byte in the upper half turns
\* into a negative number and the identifier into one no table holds.
Decoded(id) ==
  IF /\ id % ByteSize < ByteSize \div 2
     /\ id \div ByteSize < ByteSize \div 2
  THEN id
  ELSE NotAnId

\* A block of the control channel about window identifier c.
About(op, c) == [op |-> op, id |-> Wire(c)]

\* A block with bytes of the RFB stream of window w, sent on channel c.  It is
\* empty when libvncserver has hung up and the read returned nothing.
Rfb(c, w)   == [op |-> "RFB", id |-> Wire(c), win |-> w]
Empty(c, w) == [op |-> "EMPTY", id |-> Wire(c), win |-> w]

Hide   == [op |-> "HIDE"]     \* MOUSE without a position
Avatar == [op |-> "AVATAR"]
Header == [op |-> "HEADER"]   \* the twelve bytes a connection begins with

\* A block of which only the beginning reached the socket.
Torn == [op |-> "TORN"]

DownBlocks ==
  [op : {"OPEN", "CLOSE", "NAME", "TYPE", "MOUSE"}, id : Nat]
    \cup [op : {"RFB", "EMPTY"}, id : Nat, win : Windows]
    \cup {Hide, Avatar, Torn}

UpBlocks ==
  [op : {"ACCEPT", "CLOSE", "DATA"}, id : Nat] \cup {Header, Avatar}
=============================================================================
