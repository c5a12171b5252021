-------------------------------- MODULE Link --------------------------------
(***************************************************************************)
(* The way of the bytes between the two desktops: the sharing plugin, its  *)
(* tube, the relay in the plugin of the receiving desktop, and the display *)
(* program the relay starts (src/src/xzibit-plugin.c and                   *)
(* src/src/xzibit-rfb-client.c).  What the blocks say is left to Sharing   *)
(* and RfbClient; here they are bytes in sockets of a limited size.        *)
(*                                                                         *)
(*   sharer --tube--> relay --pipe--> display                              *)
(*   sharer <--up---- relay <--back-- display                              *)
(*                                                                         *)
(* Each of the three has one thread.  The sharer's socket is non-blocking: *)
(* what does not fit is lost.  Relay and display use blocking sockets: a   *)
(* write that does not fit waits, and the program does nothing else.       *)
(***************************************************************************)
EXTENDS Framing

CONSTANTS
  DownBlocks,   \* blocks the sharer may send
  UpBlocks,     \* blocks the display program may send
  Avatar,       \* the block with the avatar, the same at both ends
  TubeSize,     \* bytes the tube takes on its way down
  UpSize,       \* ... and up
  PipeSize,     \* bytes the socket pair takes in either direction
  ReadSize,     \* bytes a handler reads at once (1024, 4096)
  Strangers,    \* connections from elsewhere that come before the tube's
  Env,          \* what may happen: "no_avatar", "spawn_fails", "hangup"
  MaxDown,      \* bound: blocks the sharer sends
  MaxUp         \* bound: blocks the display program sends

ASSUME LinkAssumption ==
  /\ DownBlocks \cup UpBlocks \cup {Avatar}
       \subseteq [channel : Nat, payload : Seq(Bytes)]
  /\ \A b \in UpBlocks \cup {Avatar} : b.payload # <<>>
  /\ {TubeSize, UpSize, PipeSize, ReadSize} \subseteq Nat \ {0}
  /\ Strangers \in Nat /\ MaxDown \in Nat /\ MaxUp \in Nat
  /\ Env \subseteq {"no_avatar", "spawn_fails", "hangup"}

VARIABLES
  \* The sharer.
  sharer,     \* "running", or what ended it
  bottom,     \* the parser of bottom_fd
  bottomIn,   \* bytes copy_bottom_to_client has read and not looked at
  bottomOut,  \* writes the sharer's handler still has to make
  sending,    \* the block these writes are about
  tube, up,   \* bytes in the tube
  tubeOpen,   \* the sharer is still at the other end
  \* The relay.
  relay,      \* "running", or what ended it
  backlog,    \* connections to listening_fd nobody has accepted
  listening,  \* the watch on listening_fd is there
  topWatch,   \* the watch on top_fd is there
  spawned,    \* server_fd is not -1
  relayOut,   \* what the relay's handler is writing, and where
  \* The display program.
  display,    \* "none", "running", or what ended it
  fd,         \* the parser of the socket from the relay
  fdIn,       \* bytes check_for_fd_input has read and not looked at
  displayOut, \* what its handler is writing
  pipe, back, \* bytes in the socket pair
  \* History.
  sentDown, gotDown, brokenDown, sentUp, gotUp

sharerVars  == <<sharer, bottom, bottomIn, bottomOut, sending>>
tubeVars    == <<tube, up, tubeOpen>>
relayVars   == <<relay, backlog, listening, topWatch, spawned, relayOut>>
displayVars == <<display, fd, fdIn, displayOut>>
downHistory == <<sentDown, gotDown, brokenDown>>
upHistory   == <<sentUp, gotUp>>
vars == <<sharerVars, tubeVars, relayVars, displayVars, pipe, back,
          downHistory, upHistory>>

Least(m, n) == IF m <= n THEN m ELSE n

First(bytes, n) == SubSeq(bytes, 1, n)
Rest(bytes, n)  == SubSeq(bytes, n + 1, Len(bytes))

Idle == [to |-> "nowhere", bytes |-> <<>>]

Init ==
  /\ sharer = "running"
  /\ bottom = BottomStart
  /\ bottomIn = <<>> /\ bottomOut = <<>> /\ sending = Avatar
  /\ tube = <<>> /\ up = <<>>
  /\ tubeOpen = TRUE
  /\ relay = "running"
  /\ backlog = [i \in 1 .. Strangers |-> "stranger"] \o <<"tube">>
  /\ listening = TRUE
  /\ topWatch = FALSE
  /\ spawned = FALSE
  /\ relayOut = Idle
  /\ display = "none"
  /\ fd = FdStart
  /\ fdIn = <<>> /\ displayOut = <<>>
  /\ pipe = <<>> /\ back = <<>>
  /\ sentDown = <<>> /\ gotDown = <<>> /\ brokenDown = FALSE
  /\ sentUp = <<>> /\ gotUp = <<>>

-----------------------------------------------------------------------------
(* The sharer.                                                             *)

\* The main loop of the sharer calls nothing while a handler is at work.
SharerIdle == sharer = "running" /\ bottomIn = <<>> /\ bottomOut = <<>>

\* send_buffer_from_bottom and send_metadata_from_bottom write the preamble
\* and the payload one after the other.  send_from_bottom, which is only used
\* for control messages, writes both at once.
Writes(b) ==
  {<<Preamble(b), b.payload>>}
    \cup (IF b.channel = 0 THEN {<<Preamble(b) \o b.payload>>} ELSE {})

\* Some window, or the user, has something to say.
SharerSends(b) ==
  /\ SharerIdle
  /\ Len(sentDown) < MaxDown /\ ~brokenDown
  /\ sending' = b
  /\ bottomOut' \in Writes(b)
  /\ UNCHANGED <<sharer, bottom, bottomIn, tubeVars, relayVars, displayVars,
                 pipe, back, downHistory, upHistory>>

\* Mutant of SharerWrites: the payload is written although the preamble did
\* not fit, and nobody takes note of it.
SharerWritesOn ==
  LET bytes == Head(bottomOut)
      n     == Least(Len(bytes), TubeSize - Len(tube))
  IN
  /\ sharer = "running"
  /\ bottomOut # <<>>
  /\ tube' = IF tubeOpen THEN tube \o First(bytes, n) ELSE tube
  /\ bottomOut' = Tail(bottomOut)
  /\ sentDown' = IF Len(bottomOut) = 1 THEN Append(sentDown, sending)
                                       ELSE sentDown
  /\ brokenDown' = (brokenDown \/ sending.payload = <<>>)
  /\ UNCHANGED <<sharer, bottom, bottomIn, sending, up, tubeOpen, relayVars,
                 displayVars, pipe, back, gotDown, upHistory>>

\* One write to the non-blocking socket.  If it is cut short the rest of the
\* block is given up.  A block of which nothing has been written is just lost;
\* one that is incomplete, or empty, breaks the stream.
SharerWrites ==
  LET bytes    == Head(bottomOut)
      n        == Least(Len(bytes), TubeSize - Len(tube))
      whole    == n = Len(bytes)
      untouched == n = 0 /\ (Len(bottomOut) = 2 \/ Len(bytes) > Len(sending.payload))
  IN
  /\ sharer = "running"
  /\ bottomOut # <<>>
  /\ tube' = IF tubeOpen THEN tube \o First(bytes, n) ELSE tube
  /\ bottomOut' = IF whole THEN Tail(bottomOut) ELSE <<>>
  /\ brokenDown' = (\/ brokenDown
                    \/ whole /\ Len(bottomOut) = 1 /\ sending.payload = <<>>
                    \/ ~whole /\ ~untouched)
  /\ sentDown' = IF whole /\ Len(bottomOut) = 1 /\ ~brokenDown'
                 THEN Append(sentDown, sending)
                 ELSE sentDown
  /\ UNCHANGED <<sharer, bottom, bottomIn, sending, up, tubeOpen, relayVars,
                 displayVars, pipe, back, gotDown, upHistory>>

SharerReads ==
  LET n == Least(Len(up), ReadSize) IN
  /\ SharerIdle
  /\ up # <<>>
  /\ bottomIn' = First(up, n)
  /\ up' = Rest(up, n)
  /\ UNCHANGED <<sharer, bottom, bottomOut, sending, tube, tubeOpen, relayVars,
                 displayVars, pipe, back, downHistory, upHistory>>

\* One round of the loop in copy_bottom_to_client: one byte, which may make it
\* call introduce_yourself (the end of the header) or handle_message_to_client
\* (the end of a block), or end the program.
CopyBottomToClient ==
  LET step == BottomStep(bottom, Head(bottomIn)) IN
  /\ sharer = "running"
  /\ bottomIn # <<>> /\ bottomOut = <<>>
  /\ bottom' = step.next
  /\ bottomIn' = Tail(bottomIn)
  /\ sharer' = IF step.call.does = "fail" THEN step.call.why ELSE sharer
  /\ gotUp' = IF step.call.does = "handle" THEN Append(gotUp, step.call.block)
                                           ELSE gotUp
  /\ IF step.call.does = "introduce"
     THEN /\ bottomOut' = <<Preamble(Avatar), Avatar.payload>>
          /\ sending' = Avatar
     ELSE UNCHANGED <<bottomOut, sending>>
  /\ UNCHANGED <<tubeVars, relayVars, displayVars, pipe, back, downHistory,
                 sentUp>>

-----------------------------------------------------------------------------
(* The relay.                                                              *)

RelayIdle == relay = "running" /\ relayOut = Idle

\* What accept_connections writes to a connection before anything else.
Greeting(len) ==
  Header \o (IF len = 0 THEN <<>> ELSE Preamble(Avatar) \o Avatar.payload)

\* accept_connections for a connection from elsewhere: it is closed.  What the
\* handler then returns is not defined; the watch may be removed by it.
RefuseConnection ==
  /\ RelayIdle /\ listening
  /\ backlog # <<>> /\ Head(backlog) = "stranger"
  /\ backlog' = Tail(backlog)
  /\ listening' \in BOOLEAN
  /\ UNCHANGED <<relay, topWatch, spawned, relayOut, sharerVars, tubeVars,
                 displayVars, pipe, back, downHistory, upHistory>>

\* accept_connections for the tube.  The avatar is a null pointer as long as
\* this plugin has shared nothing itself, and empty when there is no picture.
AcceptConnection ==
  /\ RelayIdle /\ listening
  /\ backlog # <<>> /\ Head(backlog) = "tube"
  /\ backlog' = Tail(backlog)
  /\ \/ /\ "no_avatar" \in Env
        /\ relay' = "null_avatar"
        /\ UNCHANGED <<topWatch, relayOut, sentUp>>
     \/ \E len \in {0, Len(Avatar.payload)} :
          /\ relayOut' = [to |-> "up", bytes |-> Greeting(len)]
          /\ sentUp' = IF len = 0 THEN sentUp ELSE Append(sentUp, Avatar)
          /\ topWatch' = TRUE
          /\ UNCHANGED relay
  /\ UNCHANGED <<listening, spawned, sharerVars, tubeVars, displayVars, pipe,
                 back, downHistory, gotUp>>

\* The display program is started by the first call, before anything is read.
\* Nothing tells the relay when that fails.
StartDisplay ==
  IF spawned
  THEN UNCHANGED <<spawned, display>>
  ELSE /\ spawned' = TRUE
       /\ \/ display' = "running"
          \/ "spawn_fails" \in Env /\ display' = "absent"

\* copy_top_to_server.  At the end of the stream it returns no value; a tube that
\* fails ends the program.
CopyTopToServer ==
  LET n == Least(Len(tube), ReadSize) IN
  /\ RelayIdle /\ topWatch
  /\ tube # <<>> \/ ~tubeOpen
  /\ StartDisplay
  /\ \/ /\ tube # <<>>
        /\ relayOut' = [to |-> "pipe", bytes |-> First(tube, n)]
        /\ tube' = Rest(tube, n)
        /\ UNCHANGED <<relay, topWatch>>
     \/ /\ tube = <<>>
        /\ topWatch' \in BOOLEAN
        /\ UNCHANGED <<relay, relayOut, tube>>
     \/ /\ ~tubeOpen
        /\ relay' = "bus_died"
        /\ UNCHANGED <<topWatch, relayOut, tube>>
  /\ UNCHANGED <<backlog, listening, sharerVars, up, tubeOpen, fd, fdIn,
                 displayOut, pipe, back, downHistory, upHistory>>

\* copy_server_to_top.  The relay has kept the other end of the socket pair
\* for itself too, so it never sees an end of this stream.
CopyServerToTop ==
  LET n == Least(Len(back), ReadSize) IN
  /\ RelayIdle /\ spawned
  /\ back # <<>>
  /\ relayOut' = [to |-> "up", bytes |-> First(back, n)]
  /\ back' = Rest(back, n)
  /\ UNCHANGED <<relay, backlog, listening, topWatch, spawned, sharerVars,
                 tubeVars, displayVars, pipe, downHistory, upHistory>>

\* The blocking write of the handler at work: as much as there is room for,
\* and the rest later.  Nothing is ever taken by a tube that is closed.
RelayWrites ==
  LET bytes == relayOut.bytes
      room  == IF relayOut.to = "up" THEN UpSize - Len(up)
                                     ELSE PipeSize - Len(pipe)
      n     == Least(Len(bytes), room)
      left  == IF n = Len(bytes) THEN Idle ELSE [relayOut EXCEPT !.bytes = Rest(bytes, n)]
  IN
  /\ relay = "running" /\ relayOut # Idle
  /\ \/ /\ relayOut.to = "up" /\ tubeOpen /\ room > 0
        /\ up' = up \o First(bytes, n)
        /\ relayOut' = left
        /\ UNCHANGED pipe
     \/ /\ relayOut.to = "up" /\ ~tubeOpen
        /\ relayOut' = Idle
        /\ UNCHANGED <<up, pipe>>
     \/ /\ relayOut.to = "pipe" /\ room > 0
        /\ pipe' = pipe \o First(bytes, n)
        /\ relayOut' = left
        /\ UNCHANGED up
  /\ UNCHANGED <<relay, backlog, listening, topWatch, spawned, sharerVars, tube,
                 tubeOpen, displayVars, back, downHistory, upHistory>>

-----------------------------------------------------------------------------
(* The display program.                                                    *)

DisplayIdle == display = "running" /\ fdIn = <<>> /\ displayOut = <<>>

DisplayReads ==
  LET n == Least(Len(pipe), ReadSize) IN
  /\ DisplayIdle
  /\ pipe # <<>>
  /\ fdIn' = First(pipe, n)
  /\ pipe' = Rest(pipe, n)
  /\ UNCHANGED <<sharerVars, tubeVars, relayVars, display, fd, displayOut, back,
                 downHistory, upHistory>>

\* Something is written upstream: the answer of a handler, or RFB bytes.
DisplaySays(b) ==
  /\ displayOut' = Preamble(b) \o b.payload
  /\ sentUp' = Append(sentUp, b)

MaySay == Len(sentUp) < MaxUp

\* One round of the loop in check_for_fd_input: one byte, which may end a block,
\* whose handler may answer, or the program.
CheckForFdInput ==
  LET step == FdStep(fd, Head(fdIn)) IN
  /\ display = "running"
  /\ fdIn # <<>> /\ displayOut = <<>>
  /\ fd' = step.next
  /\ fdIn' = Tail(fdIn)
  /\ display' = IF step.call.does = "fail" THEN step.call.why ELSE display
  /\ gotDown' = IF step.call.does = "handle" THEN Append(gotDown, step.call.block)
                                             ELSE gotDown
  /\ \/ UNCHANGED <<displayOut, sentUp>>
     \/ /\ step.call.does = "handle" /\ MaySay
        /\ \E b \in UpBlocks : DisplaySays(b)
  /\ UNCHANGED <<sharerVars, tubeVars, relayVars, pipe, back, sentDown,
                 brokenDown, gotUp>>

\* check_for_rfb_replies, for the bytes of gtk-vnc.
CheckForRfbReplies(b) ==
  /\ DisplayIdle /\ MaySay
  /\ DisplaySays(b)
  /\ UNCHANGED <<sharerVars, tubeVars, relayVars, display, fd, fdIn, pipe, back,
                 downHistory, gotUp>>

\* write_to_following_fd: a blocking write.
DisplayWrites ==
  LET room == PipeSize - Len(back)
      n    == Least(Len(displayOut), room)
  IN
  /\ display = "running"
  /\ displayOut # <<>> /\ room > 0
  /\ back' = back \o First(displayOut, n)
  /\ displayOut' = Rest(displayOut, n)
  /\ UNCHANGED <<sharerVars, tubeVars, relayVars, display, fd, fdIn, pipe,
                 downHistory, upHistory>>

-----------------------------------------------------------------------------
\* What the end of the tube makes of the sharer: its desktop has gone away or it
\* has nobody to talk to, or its read has failed, which ends it (g_error).
HungUp == {"gone", "downstream_died"}

\* The tube is closed or fails, or the sharing desktop goes away.
HangUp ==
  /\ "hangup" \in Env
  /\ tubeOpen
  /\ tubeOpen' = FALSE
  /\ sharer' \in HungUp
  /\ up' = <<>>
  /\ UNCHANGED <<bottom, bottomIn, bottomOut, sending, tube, relayVars,
                 displayVars, pipe, back, downHistory, upHistory>>

SharerNext ==
  \/ \E b \in DownBlocks : SharerSends(b)
  \/ SharerWrites
  \/ SharerReads
  \/ CopyBottomToClient

RelayNext ==
  \/ RefuseConnection
  \/ AcceptConnection
  \/ CopyTopToServer
  \/ CopyServerToTop
  \/ RelayWrites

DisplayNext ==
  \/ DisplayReads
  \/ CheckForFdInput
  \/ \E b \in UpBlocks : CheckForRfbReplies(b)
  \/ DisplayWrites

Next == SharerNext \/ RelayNext \/ DisplayNext \/ HangUp

Spec == Init /\ [][Next]_vars

\* Each program goes on as long as it can, in whatever order its main loop
\* takes its sockets.  Nothing makes one of them say anything.
Fairness ==
  /\ WF_vars(SharerWrites \/ SharerReads \/ CopyBottomToClient)
  /\ WF_vars(RelayNext)
  /\ WF_vars(DisplayReads \/ CheckForFdInput \/ DisplayWrites)

FairSpec == Spec /\ Fairness

-----------------------------------------------------------------------------
(* Properties.                                                             *)

\* No socket holds more than it can, and what is in them are bytes.
LinkTypeOK ==
  /\ sharer \in {"running", "null_buffer", "not_xzibit"} \union HungUp
  /\ relay \in {"running", "null_avatar", "bus_died"}
  /\ display \in {"none", "running", "absent", "null_buffer"}
  /\ \A q \in {bottomIn, tube, up, fdIn, displayOut, pipe, back} :
       q \in Seq(Bytes)
  /\ Len(tube) <= TubeSize /\ Len(up) <= UpSize
  /\ Len(pipe) <= PipeSize /\ Len(back) <= PipeSize
  /\ bottom.stage \in -4 - HeaderSize .. ByteSize * ByteSize
  /\ fd.state \in {"start", "seen_channel", "seen_length"}
  /\ relayOut.to \in {"nowhere", "up", "pipe"}
  /\ {listening, topWatch, spawned, tubeOpen, brokenDown} \subseteq BOOLEAN

Blocks == [channel : 0 .. ByteSize * ByteSize - 1, payload : Seq(Bytes)]

Down == INSTANCE BlockQueue WITH
          AnyBlock <- Blocks, sent <- sentDown, delivered <- gotDown,
          broken <- brokenDown

Upwards == INSTANCE BlockQueue WITH
             AnyBlock <- Blocks, sent <- sentUp, delivered <- gotUp,
             broken <- FALSE

\* Blocks arrive whole and in order however the bytes are cut into reads and
\* writes: down the tube until the sharer itself breaks the stream; up the tube
\* always, as nothing on this way is non-blocking, and the greeting, the header
\* above all, does not get in the way.
BlocksInOrder == Down!Spec /\ Upwards!Spec

\* The parsers never meet bytes they cannot take, unless the sharer has sent a
\* block of no bytes or lost a part of one; and a read fails only when the tube
\* has ended.
OnlyBrokenStreamsKill ==
  /\ sharer \in {"running"} \union HungUp
  /\ relay = "bus_died" \/ sharer \in HungUp => ~tubeOpen
  /\ display = "null_buffer" => brokenDown

\* Relay and display program wait for each other, each in a blocking write to
\* the other, and neither reads.
Embrace ==
  /\ relayOut.to = "pipe" /\ Len(pipe) = PipeSize
  /\ displayOut # <<>> /\ Len(back) = PipeSize

\* Why bytes may stop on their way: the relay or the display program is not
\* there, or not listening, or the two have embraced.
Obstructed ==
  \/ relay # "running"
  \/ display \in {"absent", "null_buffer"}
  \/ ~listening
  \/ ~tubeOpen
  \/ Embrace

\* Every block that has been sent whole before the stream broke is delivered
\* in the end, in both directions, unless one of these obstructions is met:
\* no other wait of one program for another, no lost watch and no block left
\* in a parser ever keeps it.
EverythingArrives ==
  []<>(\/ Len(gotDown) >= Len(sentDown) /\ Len(gotUp) >= Len(sentUp)
       \/ Obstructed)
=============================================================================
