------------------------------ MODULE RfbClient -----------------------------
(***************************************************************************)
(* The display program of the receiving desktop                            *)
(* (src/src/xzibit-rfb-client.c).  It reads the blocks of one tube, which  *)
(* the relay hands to it, keeps a record and a GTK window with a VNC       *)
(* display for every channel, and writes blocks back.                      *)
(*                                                                         *)
(* It is single-threaded: each action is one call of the GTK main loop, or *)
(* one of GTK, gtk-vnc and the user, which are external.                   *)
(***************************************************************************)
EXTENDS Protocol, FiniteSets

CONSTANTS
  Fds,         \* numbers socketpair may return as its first descriptor
  MaxRecords,  \* bound: records allocated for channels
  OutputSize   \* bound: blocks written and not yet read by the sending end

ASSUME RfbClientAssumption ==
  /\ Fds \subseteq Nat \ {0}
  /\ MaxRecords \in Nat \ {0}
  /\ OutputSize \in Nat \ {0}

Records == 1 .. MaxRecords

VARIABLES
  input,      \* blocks on their way to the program
  output,     \* blocks it has written
  received,   \* received_windows: the record of each channel, 0 when none
  channel,    \* XzibitReceivedWindow.id of each record, 0 when not allocated
  fd,         \* XzibitReceivedWindow.fd of each record, 0 when it is -1
  audio,      \* records made by LISTEN, without a window
  destroyed,  \* records whose GTK window has been destroyed
  dismissed,  \* those of them whose window the user closed
  unread,     \* records whose VNC display has bytes left to read
  watched,    \* records given to a watch on their socket
  title,      \* the title of each record's window
  postponed,  \* postponed_metadata of each channel, newest first
  life        \* "running", or what ended the program

tables  == <<received, channel, fd, audio>>
widgets == <<destroyed, dismissed, unread, watched>>
clientVars == <<input, output, tables, widgets, title, postponed, life>>

NoTitle == [op |-> "NONE"]

\* pipe:  SIGPIPE, writing to a socket whose other end is closed.
\* reset: g_error, when reading from a socket that has been reset.
\* null:  a null pointer was dereferenced.
\* freed: a freed widget or record was used.
Lives == {"running", "pipe", "reset", "null", "freed"}

Allocated == {r \in Records : channel[r] # 0}
Freed     == {r \in Allocated : received[channel[r]] # r}
OnScreen  == Allocated \ (audio \cup destroyed)

\* prepare_message_handlers: only the control channel is open.
ClientInit ==
  /\ input = <<>>
  /\ output = <<>>
  /\ received = [c \in Ids |-> 0]
  /\ channel = [r \in Records |-> 0]
  /\ fd = [r \in Records |-> 0]
  /\ audio = {}
  /\ destroyed = {}
  /\ dismissed = {}
  /\ unread = {}
  /\ watched = {}
  /\ title = [r \in Records |-> NoTitle]
  /\ postponed = [c \in Ids |-> <<>>]
  /\ life = "running"

-----------------------------------------------------------------------------
(* Writing upstream blocks until there is room.                            *)
WriteBlock(op, c) ==
  /\ Len(output) < OutputSize
  /\ output' = Append(output, [op |-> op, id |-> c])

Dies(why) ==
  /\ life' = why
  /\ UNCHANGED <<output, tables, widgets, title, postponed>>

Ignored == UNCHANGED <<output, tables, widgets, title, postponed, life>>

\* What follows the use of a window that has been destroyed and freed.
UsesFreed == Dies("freed") \/ Ignored

-----------------------------------------------------------------------------
(* The handlers, one per kind of block.                                    *)

\* Mutant of NewRecord: the table gets the record after the new one.
NewRecordNext(c) ==
  LET r == Cardinality(Allocated) + 1 IN
  /\ r \in Records
  /\ received' = [received EXCEPT ![c] = r + 1]
  /\ channel' = [channel EXCEPT ![r] = c]

NewRecord(c) ==
  LET r == Cardinality(Allocated) + 1 IN
  /\ r \in Records
  /\ received' = [received EXCEPT ![c] = r]
  /\ channel' = [channel EXCEPT ![r] = c]

\* open_new_channel: permission is given at once, and a window with a VNC
\* display on a new socket pair is shown.  The first descriptor of a pair is
\* never closed, so its number does not return.
OpenNewChannel(c) ==
  LET r == Cardinality(Allocated) + 1 IN
  IF received[c] # 0
  THEN Ignored
  ELSE /\ NewRecord(c)
       /\ WriteBlock("ACCEPT", c)
       /\ \E f \in Fds \ {fd[s] : s \in Records} : fd' = [fd EXCEPT ![r] = f]
       /\ watched' = watched \cup {r}
       /\ UNCHANGED <<audio, destroyed, dismissed, unread, title, postponed,
                      life>>

\* The record is removed from the table under the key its address points at:
\* its first field, the descriptor.  So it is the channel with the number of
\* the descriptor that is removed, if there is one.
RemovedRecord(r) ==
  [c \in Ids |-> IF c = fd[r] THEN 0 ELSE received[c]]

\* Mutant of CloseChannel: the window stays on the screen.
CloseChannelOnly(c) ==
  LET r == received[c] IN
  IF r = 0
  THEN Ignored
  ELSE /\ received' = RemovedRecord(r)
       /\ WriteBlock("CLOSE", c)
       /\ UNCHANGED <<channel, fd, audio, widgets, title, postponed, life>>

\* Mutant of CloseChannel: the opcode is give_permission_for_channel's.
CloseChannelCopied(c) ==
  LET r == received[c] IN
  IF r = 0
  THEN Ignored
  ELSE /\ destroyed' = IF r \in audio THEN destroyed ELSE destroyed \cup {r}
       /\ received' = RemovedRecord(r)
       /\ WriteBlock("ACCEPT", c)
       /\ UNCHANGED <<channel, fd, audio, dismissed, unread, watched, title,
                      postponed, life>>

\* close_channel: destroy the window, remove the record, tell upstream.
CloseChannel(c) ==
  LET r == received[c] IN
  IF r = 0
  THEN Ignored
  ELSE \/ /\ r \in destroyed
          /\ Dies("freed")
       \/ /\ destroyed' = IF r \in audio THEN destroyed
                          ELSE destroyed \cup {r}
          /\ received' = RemovedRecord(r)
          /\ WriteBlock("CLOSE", c)
          /\ UNCHANGED <<channel, fd, audio, dismissed, unread, watched,
                         title, postponed, life>>

\* "blocks" are applied to record r in this order: the last title stays.  All
\* other metadata is only warned about.
Retitle(r, blocks) ==
  LET names == {i \in DOMAIN blocks : blocks[i].op = "NAME"} IN
  \/ names = {} /\ UNCHANGED title
  \/ \E last \in names :
       /\ \A i \in names : i <= last
       /\ title' = [title EXCEPT ![r] = blocks[last]]

\* apply_metadata_now; r is 0 when there is no record.
ApplyMetadataNow(r, block) ==
  IF r = 0
  THEN Dies("null")
  ELSE \/ /\ r \in OnScreen
          /\ Retitle(r, <<block>>)
          /\ UNCHANGED <<output, tables, widgets, postponed, life>>
       \/ r \in audio /\ Ignored
       \/ r \in destroyed /\ UsesFreed

\* Mutant of ApplyMetadata: a window that is not open yet is not expected.
ApplyMetadataAtOnce(c, block) == ApplyMetadataNow(received[c], block)

\* apply_metadata: metadata of a channel that is not open is put in front of
\* what has been postponed for it.
ApplyMetadata(c, block) ==
  IF received[c] # 0
  THEN ApplyMetadataNow(received[c], block)
  ELSE /\ postponed' = [postponed EXCEPT ![c] = <<block>> \o @]
       /\ UNCHANGED <<output, tables, widgets, title, life>>

\* MOUSE looks its window up without checking that there is one.
MovePointerTo(c) ==
  LET r == received[c] IN
  \/ r \in audio \cup {0} /\ Dies("null")
  \/ r \in OnScreen       /\ Ignored
  \/ r \in destroyed      /\ UsesFreed

\* LISTEN: a record without a window replaces the one the channel may have.
Listen(c) ==
  /\ NewRecord(c)
  /\ audio' = audio \cup {Cardinality(Allocated) + 1}
  /\ UNCHANGED <<output, fd, widgets, title, postponed, life>>

\* handle_video_message, handle_audio_message.
HandleStream(c) ==
  LET r == received[c] IN
  \/ /\ r \in audio \cup {0}
     /\ Ignored
  \/ /\ r \in OnScreen
     /\ unread' = unread \cup {r}
     /\ UNCHANGED <<output, tables, destroyed, dismissed, watched, title,
                    postponed, life>>
  \/ /\ r \in destroyed
     /\ Dies("pipe")

HandleXzibitMessage(block) ==
  \/ block.op = "OPEN"   /\ OpenNewChannel(block.id)
  \/ block.op = "CLOSE"  /\ CloseChannel(block.id)
  \/ block.op \in {"NAME", "TYPE"} /\ ApplyMetadata(block.id, block)
  \/ block.op = "MOUSE"  /\ MovePointerTo(block.id)
  \/ block.op = "LISTEN" /\ Listen(block.id)
  \/ block.op = "RFB"    /\ HandleStream(block.id)
  \/ block.op \in {"HIDE", "AVATAR"} /\ Ignored

\* check_for_fd_input.  A block of no bytes is never complete: the next byte
\* is stored in its buffer, which is a null pointer.
CheckForFdInput ==
  /\ input # <<>>
  /\ input' = Tail(input)
  /\ \/ HandleXzibitMessage(Head(input))
     \/ /\ Head(input).op = "EMPTY"
        /\ Len(input) > 1
        /\ Dies("null")

-----------------------------------------------------------------------------
(* The callbacks of GTK and gtk-vnc.                                       *)

\* Mutant of ExposedWindow: the list is removed and nothing is applied.
ExposedWindowForgets(r) ==
  LET c == channel[r] IN
  /\ r \in OnScreen
  /\ postponed[c] # <<>>
  /\ postponed' = [postponed EXCEPT ![c] = <<>>]
  /\ UNCHANGED <<input, output, tables, widgets, title, life>>

\* exposed_window applies what was postponed for the channel to the record the
\* channel has now.  The newest comes first, so that the oldest title stays.
ExposedWindow(r) ==
  LET c == channel[r]
      now == received[c]
  IN
  /\ r \in OnScreen
  /\ postponed[c] # <<>>
  /\ postponed' = [postponed EXCEPT ![c] = <<>>]
  /\ \/ /\ now \in OnScreen
        /\ Retitle(now, postponed[c])
        /\ UNCHANGED life
     \/ /\ now \in audio \cup destroyed
        /\ UNCHANGED <<title, life>>
     \/ /\ now \in destroyed \cup {0}
        /\ life' = IF now = 0 THEN "null" ELSE "freed"
        /\ UNCHANGED title
  /\ UNCHANGED <<input, output, tables, widgets>>

\* check_for_rfb_replies: bytes of the VNC display, be they what it wrote before
\* it was destroyed, go upstream on the channel of the record.  The record may
\* have been freed: then it is any channel (the sending half ignores what
\* comes on one it does not know).
CheckForRfbReplies(r) ==
  /\ r \in watched
  /\ \/ /\ r \notin Freed
        /\ WriteBlock("DATA", channel[r])
        /\ UNCHANGED life
     \/ /\ r \in Freed
        /\ \E c \in Ids : WriteBlock("DATA", c)
        /\ UNCHANGED life
     \/ /\ r \in Freed
        /\ life' = "freed"
        /\ UNCHANGED output
  /\ UNCHANGED <<input, tables, widgets, title, postponed>>

\* When the display is gone the socket is at its end: the watch returns no
\* value, which may or may not remove it.  If the display had not read
\* everything, the socket has been reset, which is fatal.
CheckForRfbEnd(r) ==
  /\ r \in watched \cap destroyed
  /\ IF r \in unread
     THEN life' = "reset" /\ UNCHANGED watched
     ELSE watched' = watched \ {r} /\ UNCHANGED life
  /\ UNCHANGED <<input, output, tables, destroyed, dismissed, unread, title,
                 postponed>>

\* The VNC display draws what has been written to its socket.
DisplayReads(r) ==
  /\ r \in OnScreen \cap unread
  /\ unread' = unread \ {r}
  /\ UNCHANGED <<input, output, tables, destroyed, dismissed, watched, title,
                 postponed, life>>

\* The "delete_event" of a window calls close_channel with the widget for a
\* channel: it finds no record, and returns without a value.  GTK destroys
\* the window if that is taken for FALSE.
UserClosesWindow(r) ==
  /\ r \in OnScreen
  /\ destroyed' = destroyed \cup {r}
  /\ dismissed' = dismissed \cup {r}
  /\ UNCHANGED <<input, output, tables, unread, watched, title, postponed,
                 life>>

-----------------------------------------------------------------------------
ClientStep ==
  /\ life = "running"
  /\ \/ CheckForFdInput
     \/ \E r \in Records :
          \/ ExposedWindow(r)
          \/ CheckForRfbReplies(r)
          \/ CheckForRfbEnd(r)
          \/ DisplayReads(r)
          \/ UserClosesWindow(r)

ClientTypeOK ==
  /\ received \in [Ids -> {0} \cup Records]
  /\ channel \in [Records -> {0} \cup Ids]
  /\ fd \in [Records -> {0} \cup Fds]
  /\ audio \subseteq Records
  /\ destroyed \subseteq Records
  /\ dismissed \subseteq destroyed
  /\ unread \subseteq Records
  /\ watched \subseteq Records
  /\ \A r \in Records : title[r] # NoTitle => title[r].op = "NAME"
  /\ life \in Lives
=============================================================================
