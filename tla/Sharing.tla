------------------------------- MODULE Sharing ------------------------------
(***************************************************************************)
(* The sending half of the mutter plugin (src/src/xzibit-plugin.c) with    *)
(* the VNC servers it starts (src/src/vnc.c): from the X property that     *)
(* asks for a window to be shared, through the Telepathy tube, to the      *)
(* blocks the remote xzibit reads, and back to the ACCEPT that starts the  *)
(* streaming of the window.                                                *)
(*                                                                         *)
(* The plugin is single-threaded: each of its actions below is one call    *)
(* mutter's main loop makes (an X event filter, a tube callback, an I/O    *)
(* watch).  Everything else is its environment: the X server with the      *)
(* tools that set the properties, Telepathy, libvncserver, the remote end. *)
(***************************************************************************)
EXTENDS Protocol, FiniteSets

CONSTANTS
  Parent,      \* WM_TRANSIENT_FOR of each window before anything happens
  Named,       \* windows with _NET_WM_NAME or WM_NAME
  ShareValues, \* values the tools store in _XZIBIT_SHARE
  Env,         \* what the environment does beyond the ordinary, see below
  PeerOps,     \* kinds of blocks the remote end sends unasked
  Pointer,     \* pointer events reported for a window, of "motion", "leave"
  StaleIds,    \* what the channel of a freed ForwardedWindow may be read as
  MaxTubes,    \* bound: tubes that come up
  MaxEvents,   \* bound: X events waiting for the plugin
  SocketSize,  \* blocks the socket of a tube takes before it is full
  PeerSize     \* bound: blocks of the remote end waiting for the plugin

\* impatient: the user acts while earlier requests are still being handled.
\* repeats:   a tool stores 1 in _XZIBIT_SHARE of a window that has 1 already.
\* full:      the socket of a tube may be full when the plugin writes to it.
\* hangup:    libvncserver may close its end of a window's connection.
EnvKinds == {"impatient", "repeats", "full", "hangup"}

ASSUME SharingAssumption ==
  /\ Parent \in [Windows -> Windows \cup {NoWindow}]
  /\ Named \subseteq Windows
  /\ ShareValues \subseteq 0 .. 3
  /\ Env \subseteq EnvKinds
  /\ PeerOps \subseteq {"ACCEPT", "CLOSE", "DATA"}
  /\ StaleIds \subseteq Nat
  /\ Pointer \subseteq {"motion", "leave"}
  /\ MaxTubes \in Nat \ {0}
  /\ MaxEvents \in Nat \ {0}
  /\ SocketSize \in Nat \ {0}
  /\ PeerSize \in Nat \ {0, 1}

Tubes == 1 .. MaxTubes

VARIABLES
  \* The X server.
  shareProp,    \* _XZIBIT_SHARE of each window, -1 when absent
  result,       \* _XZIBIT_RESULT of each window, -1 when absent
  transientFor, \* WM_TRANSIENT_FOR of each window
  motionMask,   \* windows whose pointer motion mutter has asked for
  xevents,      \* X events on their way to the plugin
  \* The plugin.
  fate,         \* "running", or what ended the mutter process
  highest,      \* highest_channel
  window,       \* ForwardedWindow.window of every record ever allocated
  client,       \* records whose client_fd is not -1
  forwarded,    \* keys of forwarded_windows_by_xzibit_id
  byX11,        \* forwarded_windows_by_x11_id: the channel, 0 when no entry
  watches,      \* records given to a watch on their window's VNC socket
  pending,      \* records whose tube is being set up
  bottom,       \* the tube bottom_fd belongs to, 0 when bottom_fd is -1
  sync,         \* the parser: before the header, in step, or out of step
  \* The VNC servers (vnc.c).
  servers,      \* keys of the table "servers"; all of them are started
  hungUp,       \* windows whose server has closed its end
  \* The tubes and the remote end.
  tubes,        \* tubes that came up so far
  down,         \* blocks the plugin wrote to each tube, not yet read
  up,           \* blocks the remote end wrote to each tube, not yet read
  peerOpen,     \* channels the remote end has been told are open
  peerOffered,  \* channels it has ever been told are open
  accepted      \* records whose ACCEPT the plugin has acted upon (history)

xvars      == <<shareProp, result, transientFor, motionMask, xevents>>
recordVars == <<highest, window, client, forwarded, byX11>>
vncVars    == <<servers, hungUp, watches, accepted>>
tubeVars   == <<pending, bottom, sync, tubes, up>>
peerVars   == <<peerOpen, peerOffered>>
vars == <<xvars, fate, recordVars, vncVars, tubeVars, down, peerVars>>

Absent == -1
Overwritten == "CARDINAL"   \* WM_TRANSIENT_FOR with the wrong type

\* property: the value of the changed property is NULL; name: the window has no
\* name (g_error); stale: a watch uses a freed record; bus: recv from a VNC
\* server fails; empty: the socket that is read has nothing to read; memory: a
\* block of length 0 is stored where nothing was allocated.
Fates == {"running", "property", "name", "stale", "bus", "empty", "memory"}

XEvents ==
  [type : {"changed", "deleted", "map", "motion", "leave"}, win : Windows]

-----------------------------------------------------------------------------
(* Initial state: the plugin has been loaded (start), nothing is shared.   *)

Init ==
  /\ shareProp = [w \in Windows |-> Absent]
  /\ result = [w \in Windows |-> Absent]
  /\ transientFor = Parent
  /\ motionMask = {}
  /\ xevents = <<>>
  /\ fate = "running"
  /\ highest = 0
  /\ window = [c \in Ids |-> NoWindow]
  /\ client = {}
  /\ forwarded = {}
  /\ byX11 = [w \in Windows |-> 0]
  /\ watches = {}
  /\ accepted = {}
  /\ pending = {}
  /\ bottom = 0
  /\ sync = "header"
  /\ servers = {}
  /\ hungUp = {}
  /\ tubes = 0
  /\ down = [t \in Tubes |-> <<>>]
  /\ up = [t \in Tubes |-> <<>>]
  /\ peerOpen = [t \in Tubes |-> {}]
  /\ peerOffered = [t \in Tubes |-> {}]

-----------------------------------------------------------------------------
(* Writing to the tube.  The socket is non-blocking: when it is full, the  *)
(* block is lost, or cut off after its beginning.  Without "full" the      *)
(* socket takes everything, and the two sources that could write without   *)
(* end are held back while it has SocketSize blocks (a bound, not code).   *)

AfterWrite(q, block) ==
  IF "full" \notin Env \/ Len(q) < SocketSize
  THEN {Append(q, block)}
  ELSE {q} \cup (IF Len(q) = SocketSize THEN {Append(q, Torn)} ELSE {})

SocketBound ==
  "full" \notin Env =>
    \A t \in Tubes : t = bottom => Len(down[t]) < SocketSize

\* send_from_bottom, send_buffer_from_bottom, send_metadata_from_bottom:
\* with bottom_fd = -1 the write fails, and the failure is only logged.
Send(block) ==
  IF bottom = 0
  THEN UNCHANGED down
  ELSE \E q \in AfterWrite(down[bottom], block) :
         down' = [down EXCEPT ![bottom] = q]

SendBoth(first, second) ==
  IF bottom = 0
  THEN UNCHANGED down
  ELSE \E q \in AfterWrite(down[bottom], first) :
         \E r \in AfterWrite(q, second) :
           down' = [down EXCEPT ![bottom] = r]

SetResult(w, value) == result' = [result EXCEPT ![w] = value]

\* The plugin dereferences a bad pointer or calls g_error: mutter is gone.
Abort(why) ==
  /\ fate' = why
  /\ UNCHANGED <<recordVars, vncVars, tubeVars, down>>

-----------------------------------------------------------------------------
(* Sharing and unsharing a window.                                         *)

\* Mutant of Register: the older entry of w in the table by X11 window stays.
RegisterFirst(w, c) ==
  /\ highest' = c
  /\ window' = [window EXCEPT ![c] = w]
  /\ client' = IF w \in servers THEN client \cup {c} ELSE client
  /\ forwarded' = forwarded \cup {c}
  /\ byX11' = IF byX11[w] = 0 THEN [byX11 EXCEPT ![w] = c] ELSE byX11

\* A new ForwardedWindow for w, put into both tables.  An older entry of w in
\* the table by X11 window is replaced; the older record stays in the other.
Register(w, c) ==
  /\ highest' = c
  /\ window' = [window EXCEPT ![c] = w]
  /\ client' = IF w \in servers THEN client \cup {c} ELSE client
  /\ forwarded' = forwarded \cup {c}
  /\ byX11' = [byX11 EXCEPT ![w] = c]

\* Mutant of ShareWindow: a tube is set up even if there is one.
ShareWindowNewTube(w) ==
  LET c == highest + 1 IN
  /\ highest < MaxShares
  /\ Register(w, c)
  /\ pending' = pending \cup {c}
  /\ UNCHANGED <<result, down, vncVars, bottom, sync, tubes, up>>

\* share_window: offer the window at once when there is a tube; otherwise ask
\* Telepathy for one, which fails immediately without a usable source account.
ShareWindow(w) ==
  LET c == highest + 1 IN
  /\ highest < MaxShares
  /\ Register(w, c)
  /\ \/ /\ bottom # 0
        /\ Send(About("OPEN", c))
        /\ UNCHANGED <<pending, result>>
     \/ /\ bottom = 0
        /\ pending' = pending \cup {c}
        /\ UNCHANGED <<result, down>>
     \/ /\ bottom = 0
        /\ SetResult(w, 301)
        /\ UNCHANGED <<pending, down>>
  /\ UNCHANGED <<vncVars, bottom, sync, tubes, up>>

\* Mutants of UnshareWindow: the table by X11 window is left alone; the remote
\* end is not told.
UnshareKeepingEntry(w) ==
  LET c == byX11[w] IN
  /\ IF c = 0
     THEN UNCHANGED <<forwarded, down>>
     ELSE /\ Send(About("CLOSE", c))
          /\ forwarded' = forwarded \ {c}
  /\ UNCHANGED <<highest, window, client, byX11, vncVars, tubeVars>>

UnshareSilently(w) ==
  LET c == byX11[w] IN
  /\ byX11' = [byX11 EXCEPT ![w] = 0]
  /\ forwarded' = forwarded \ {c}
  /\ UNCHANGED <<highest, window, client, vncVars, tubeVars, down>>

\* unshare_window: tell the remote end and forget the record.  The record's
\* watch and the window's VNC server are left as they are.
UnshareWindow(w) ==
  LET c == byX11[w] IN
  /\ IF c = 0
     THEN UNCHANGED <<byX11, forwarded, down>>
     ELSE /\ Send(About("CLOSE", c))
          /\ byX11' = [byX11 EXCEPT ![w] = 0]
          /\ forwarded' = forwarded \ {c}
  /\ UNCHANGED <<highest, window, client, vncVars, tubeVars>>

\* Mutant of SetSharingState: states 1 and 0 are answered like 2 and 3.
SharingStateAnswered(w, state) ==
  /\ SetResult(w, 100 + state)
  /\ UNCHANGED <<recordVars, vncVars, tubeVars, down>>

SetSharingState(w, state) ==
  \/ /\ state \in {2, 3}
     /\ SetResult(w, 100 + state)
     /\ UNCHANGED <<recordVars, vncVars, tubeVars, down>>
  \/ /\ state = 1
     /\ ShareWindow(w)
  \/ /\ state = 0
     /\ UnshareWindow(w)
     /\ SetResult(w, 100)

-----------------------------------------------------------------------------
(* xevent_filter, one action per kind of X event.                          *)

NextEvent(type) ==
  /\ xevents # <<>>
  /\ Head(xevents).type = type
  /\ xevents' = Tail(xevents)

\* The value of the property is the one it has when the event is handled, not
\* the one that caused the event; if it is gone by then, "value" is NULL.
PropertyChanged ==
  LET w == Head(xevents).win IN
  /\ NextEvent("changed")
  /\ IF shareProp[w] = Absent
     THEN /\ Abort("property")
          /\ UNCHANGED result
     ELSE /\ SetSharingState(w, shareProp[w])
          /\ UNCHANGED fate
  /\ UNCHANGED <<shareProp, transientFor, motionMask, peerVars>>

PropertyDeleted ==
  /\ NextEvent("deleted")
  /\ SetSharingState(Head(xevents).win, 0)
  /\ UNCHANGED <<shareProp, transientFor, motionMask, fate, peerVars>>

\* related_to_shared_window for WM_TRANSIENT_FOR.  Once the property has been
\* overwritten with the wrong type, what is read is an uninitialized word.
ParentsRead(w) ==
  IF transientFor[w] = Overwritten
  THEN Windows \cup {NoWindow}
  ELSE {transientFor[w]}

\* share_transiency_on_map: a transient window of a shared window is shared,
\* and its WM_TRANSIENT_FOR (not its _XZIBIT_SHARE) is set to 1.
WindowMapped ==
  LET w == Head(xevents).win IN
  /\ NextEvent("map")
  /\ \E p \in ParentsRead(w) :
       IF p # NoWindow /\ shareProp[p] = 1
       THEN /\ transientFor' = [transientFor EXCEPT ![w] = Overwritten]
            /\ ShareWindow(w)
       ELSE UNCHANGED <<transientFor, result, recordVars, vncVars, tubeVars,
                        down>>
  /\ UNCHANGED <<shareProp, motionMask, fate, peerVars>>

\* MOUSE with the position, or without one when the pointer has left.
ReportPointer(type, block) ==
  /\ NextEvent(type)
  /\ IF byX11[Head(xevents).win] = 0 THEN UNCHANGED down ELSE Send(block)
  /\ UNCHANGED <<shareProp, result, transientFor, motionMask, fate,
                 recordVars, vncVars, tubeVars, peerVars>>

PointerMoved ==
  ReportPointer("motion", About("MOUSE", byX11[Head(xevents).win]))
PointerLeft  == ReportPointer("leave", Hide)

XEventFilter ==
  \/ PropertyChanged
  \/ PropertyDeleted
  \/ WindowMapped
  \/ PointerMoved
  \/ PointerLeft

-----------------------------------------------------------------------------
(* The tube callbacks.                                                     *)

\* create_tube_cb on success: the new socket becomes bottom_fd, whatever it
\* was before, and the window is offered on it (share_window_finish).  The
\* record may have been freed by then.
TubeReady(c) ==
  LET t == tubes + 1
      ids == IF c \in forwarded THEN {c} ELSE StaleIds
  IN
  /\ c \in pending
  /\ t <= MaxTubes
  /\ pending' = pending \ {c}
  /\ tubes' = t
  /\ bottom' = t
  /\ SetResult(window[c], 102)
  /\ \E id \in ids : down' = [down EXCEPT ![t] = <<About("OPEN", id)>>]
  /\ up' = [up EXCEPT ![t] = <<Header, Avatar>>]
  /\ UNCHANGED <<shareProp, transientFor, motionMask, xevents, fate, sync,
                 recordVars, vncVars, peerVars>>

\* Mutant of TubeFailed: the window is not told.
TubeFailedSilently(c) ==
  /\ c \in pending
  /\ pending' = pending \ {c}
  /\ UNCHANGED <<xvars, fate, bottom, sync, tubes, up, recordVars, vncVars,
                 down, peerVars>>

\* Any of account_prepare_cb, connection_prepare_cb, create_tube_cb failing.
TubeFailed(c) ==
  /\ c \in pending
  /\ pending' = pending \ {c}
  /\ SetResult(window[c], 301)
  /\ UNCHANGED <<shareProp, transientFor, motionMask, xevents, fate, bottom,
                 sync, tubes, up, recordVars, vncVars, down, peerVars>>

-----------------------------------------------------------------------------
(* copy_bottom_to_client and handle_message_to_client.  The watch of tube  *)
(* t fires, but it is always bottom_fd that is read.                       *)

\* Mutants of HandleAccept: a record that has a socket gets a watch too; only
\* a record that has a socket is started.
HandleAcceptAgain(c) ==
  LET w == window[c] IN
  IF c \notin forwarded
  THEN UNCHANGED <<motionMask, fate, client, vncVars, down>>
  ELSE /\ servers' = servers \cup {w}
       /\ client' = client \cup {c}
       /\ watches' = watches \cup {c}
       /\ accepted' = accepted \cup {c}
       /\ SendBoth(About("NAME", c), About("TYPE", c))
       /\ motionMask' = motionMask \cup {w}
       /\ UNCHANGED <<fate, hungUp>>

HandleAcceptOnlyAgain(c) ==
  IF c \notin client
  THEN UNCHANGED <<motionMask, fate, client, vncVars, down>>
  ELSE HandleAcceptAgain(c)

\* ACCEPT: start the VNC server of the window unless the record already has
\* a socket to it; send the metadata; ask for the pointer's motion.
HandleAccept(c) ==
  LET w == window[c] IN
  IF c \notin forwarded \/ c \in client
  THEN UNCHANGED <<motionMask, fate, client, vncVars, down>>
  ELSE /\ servers' = servers \cup {w}
       /\ client' = client \cup {c}
       /\ watches' = watches \cup {c}
       /\ accepted' = accepted \cup {c}
       /\ IF w \in Named
          THEN /\ SendBoth(About("NAME", c), About("TYPE", c))
               /\ motionMask' = motionMask \cup {w}
               /\ UNCHANGED fate
          ELSE /\ fate' = "name"
               /\ UNCHANGED <<motionMask, down>>
       /\ UNCHANGED hungUp

\* A parser out of step.  It has taken a header for the head of a block of
\* 12320 bytes; where that ends, bottom_stage is reset and the next byte is
\* taken for the head of a block, and so on.  What it reads there is spelled by
\* whatever bytes the stream has: nothing that matters here, an ACCEPT nobody
\* sent, or a length of 0, for which g_malloc returns NULL.  It may fall into
\* step again by chance, which these outcomes include.
HandleNonsense ==
  \/ UNCHANGED <<motionMask, fate, client, vncVars, down>>
  \/ \E c \in Ids : HandleAccept(c)
  \/ /\ fate' = "memory"
     /\ UNCHANGED <<motionMask, client, vncVars, down>>

\* One block.  CLOSE and AVATAR are not acted upon, data goes to the VNC
\* server or is discarded, which leaves nothing changed here either.  After
\* the header this end introduces itself.  A second header puts the parser
\* out of step.
HandleBlock(block) ==
  \/ /\ sync = "header"
     /\ block = Header
     /\ sync' = "blocks"
     /\ Send(Avatar)
     /\ UNCHANGED <<motionMask, fate, client, vncVars>>
  \/ /\ sync = "blocks"
     /\ block = Header
     /\ sync' = "lost"
     /\ UNCHANGED <<motionMask, fate, client, vncVars, down>>
  \/ /\ sync = "blocks"
     /\ block.op = "ACCEPT"
     /\ HandleAccept(Decoded(block.id))
     /\ UNCHANGED sync
  \/ /\ sync = "lost"
     /\ HandleNonsense
     /\ UNCHANGED sync
  \/ /\ block.op \in {"AVATAR", "CLOSE", "DATA"}
     /\ UNCHANGED <<motionMask, fate, client, vncVars, down, sync>>

CopyBottomToClient(t) ==
  /\ up[t] # <<>>
  /\ IF up[bottom] = <<>>
     THEN /\ Abort("empty")
          /\ UNCHANGED motionMask
     ELSE /\ HandleBlock(Head(up[bottom]))
          /\ up' = [up EXCEPT ![bottom] = Tail(@)]
          /\ UNCHANGED <<highest, window, forwarded, byX11, pending, bottom,
                         tubes>>
  /\ UNCHANGED <<shareProp, result, transientFor, xevents, peerVars>>

-----------------------------------------------------------------------------
(* copy_client_to_bottom: the watch of record c finds RFB bytes, or the    *)
(* end of the stream, on the socket of the record's window.                *)

\* Mutant of FromServer: the socket is found through the record, which may be
\* a freed one that another share has taken over.
FromServerOf(c, id) ==
  IF id \in Ids /\ window[id] # NoWindow
  THEN Rfb(id, window[id])
  ELSE Rfb(id, window[c])

\* What recv returns when it succeeds: nothing once the server has hung up.
FromServer(c, id) ==
  IF window[c] \in hungUp THEN Empty(id, window[c]) ELSE Rfb(id, window[c])

\* The block is sent on the channel the record has, which may be freed memory
\* by now, or mutter crashes on it; recv fails if the server closed the
\* connection with bytes of ours unread (g_error).
CopyClientToBottom(c) ==
  /\ SocketBound
  /\ c \in watches
  /\ \/ /\ c \in forwarded
        /\ Send(FromServer(c, c))
        /\ UNCHANGED <<fate, tubeVars, vncVars>>
     \/ /\ c \notin forwarded
        /\ \E id \in StaleIds : Send(FromServer(c, id))
        /\ UNCHANGED <<fate, tubeVars, vncVars>>
     \/ /\ c \notin forwarded
        /\ fate' = "stale"
        /\ UNCHANGED <<tubeVars, vncVars, down>>
     \/ /\ window[c] \in hungUp
        /\ fate' = "bus"
        /\ UNCHANGED <<tubeVars, vncVars, down>>
  /\ UNCHANGED <<xvars, recordVars, peerVars>>

\* Two watches on one socket wake up together and the second finds nothing to
\* read: it returns no value, which may or may not remove it.
WatchDropped(c) ==
  /\ c \in watches
  /\ \E d \in watches \ {c} : window[d] = window[c]
  /\ watches' = watches \ {c}
  /\ UNCHANGED <<xvars, fate, recordVars, servers, hungUp, accepted, tubeVars,
                 down, peerVars>>

-----------------------------------------------------------------------------
(* The environment: the desktop, libvncserver and the remote end.          *)

UserReady == "impatient" \in Env \/ (xevents = <<>> /\ pending = {})

Deliver(type, w) ==
  /\ Len(xevents) < MaxEvents
  /\ xevents' = Append(xevents, [type |-> type, win |-> w])
  /\ UNCHANGED <<result, transientFor, motionMask, fate, recordVars, vncVars,
                 tubeVars, down, peerVars>>

SetShare(w, value) ==
  /\ UserReady
  /\ value = 1 /\ shareProp[w] = 1 => "repeats" \in Env
  /\ shareProp' = [shareProp EXCEPT ![w] = value]
  /\ Deliver("changed", w)

DeleteShare(w) ==
  /\ UserReady
  /\ shareProp[w] # Absent
  /\ shareProp' = [shareProp EXCEPT ![w] = Absent]
  /\ Deliver("deleted", w)

\* The mapping of a window that is transient for nothing has no effect.
MapWindow(w) ==
  /\ UserReady
  /\ transientFor[w] # NoWindow
  /\ Deliver("map", w)
  /\ UNCHANGED shareProp

MovePointer(w) ==
  /\ SocketBound
  /\ w \in motionMask
  /\ \E type \in Pointer : Deliver(type, w)
  /\ UNCHANGED shareProp

ServerHangsUp(w) ==
  /\ "hangup" \in Env
  /\ w \in servers
  /\ hungUp' = hungUp \cup {w}
  /\ UNCHANGED <<xvars, fate, recordVars, servers, watches, accepted,
                 tubeVars, down, peerVars>>

PeerWrites(t, op, id) ==
  /\ Len(up[t]) < PeerSize
  /\ up' = [up EXCEPT ![t] = Append(@, [op |-> op, id |-> id])]

\* The remote end accepts a channel when it reads the OPEN, or does not answer
\* it; it may answer a CLOSE with another.  After a torn block it can make no
\* sense of the stream.
PeerReads(t) ==
  LET block == Head(down[t]) IN
  /\ down[t] # <<>>
  /\ block # Torn
  /\ down' = [down EXCEPT ![t] = Tail(@)]
  /\ \/ /\ block.op = "OPEN"
        /\ peerOpen' = [peerOpen EXCEPT ![t] = @ \cup {block.id}]
        /\ peerOffered' = [peerOffered EXCEPT ![t] = @ \cup {block.id}]
        /\ \/ PeerWrites(t, "ACCEPT", block.id)
           \/ UNCHANGED up
     \/ /\ block.op = "CLOSE"
        /\ peerOpen' = [peerOpen EXCEPT ![t] = @ \ {block.id}]
        /\ UNCHANGED peerOffered
        /\ \/ PeerWrites(t, "CLOSE", block.id)
           \/ UNCHANGED up
     \/ /\ block.op \notin {"OPEN", "CLOSE"}
        /\ UNCHANGED <<peerVars, up>>
  /\ UNCHANGED <<xvars, fate, recordVars, vncVars, pending, bottom, sync,
                 tubes>>

\* Later it accepts a channel (twice over does nothing, says the protocol),
\* refuses it, or sends RFB bytes on it; the channel may be closed by then.
PeerSends(t, op, id) ==
  /\ id \in peerOffered[t]
  /\ PeerWrites(t, op, id)
  /\ UNCHANGED <<xvars, fate, recordVars, vncVars, pending, bottom, sync,
                 tubes, down, peerVars>>

-----------------------------------------------------------------------------
Plugin ==
  \/ XEventFilter
  \/ \E c \in Ids : TubeReady(c) \/ TubeFailed(c)
  \/ \E t \in Tubes : CopyBottomToClient(t)
  \/ \E c \in Ids : CopyClientToBottom(c) \/ WatchDropped(c)

Desktop ==
  \E w \in Windows :
    \/ \E value \in ShareValues : SetShare(w, value)
    \/ DeleteShare(w)
    \/ MapWindow(w)
    \/ MovePointer(w)
    \/ ServerHangsUp(w)

Peer ==
  \E t \in Tubes :
    \/ PeerReads(t)
    \/ \E op \in PeerOps, id \in peerOffered[t] :
         PeerSends(t, op, id)

Next == fate = "running" /\ (Plugin \/ Desktop \/ Peer)

Spec == Init /\ [][Next]_vars

\* The main loop of mutter serves every source that stays ready, and the remote
\* end keeps reading.  Nothing is assumed of Telepathy: a request whose channel
\* is invalidated is never answered (channel_invalidated_cb).
Running(A) == fate = "running" /\ A

Fairness ==
  /\ WF_vars(Running(XEventFilter))
  /\ \A t \in Tubes : WF_vars(Running(CopyBottomToClient(t)))
  /\ \A t \in Tubes : WF_vars(Running(PeerReads(t)))

FairSpec == Spec /\ Fairness

-----------------------------------------------------------------------------
(* Properties.                                                             *)

TypeOK ==
  /\ shareProp \in [Windows -> {Absent} \cup 0 .. 3]
  /\ result \in [Windows -> {Absent, 100, 102, 103, 301}]
  /\ transientFor \in [Windows -> Windows \cup {NoWindow, Overwritten}]
  /\ motionMask \subseteq Windows
  /\ xevents \in Seq(XEvents)
  /\ fate \in Fates
  /\ highest \in 0 .. MaxShares
  /\ window \in [Ids -> Windows \cup {NoWindow}]
  /\ client \subseteq Ids
  /\ forwarded \subseteq Ids
  /\ byX11 \in [Windows -> 0 .. MaxShares]
  /\ watches \subseteq Ids
  /\ accepted \subseteq Ids
  /\ pending \subseteq Ids
  /\ bottom \in 0 .. MaxTubes
  /\ sync \in {"header", "blocks", "lost"}
  /\ servers \subseteq Windows
  /\ hungUp \subseteq servers
  /\ tubes \in 0 .. MaxTubes
  /\ down \in [Tubes -> Seq(DownBlocks)]
  /\ up \in [Tubes -> Seq(UpBlocks)]
  /\ peerOpen \in [Tubes -> SUBSET Nat]
  /\ peerOffered \in [Tubes -> SUBSET Nat]

\* The two tables of forwarded windows agree, whatever the order in which
\* windows are shared, shared again and unshared: what the table by X11 window
\* yields is a live record of that window, and the newest one it ever had.
TablesAgree ==
  \A w \in Windows :
    byX11[w] # 0 =>
      /\ byX11[w] \in forwarded
      /\ window[byX11[w]] = w
      /\ \A c \in Ids : window[c] = w => c <= byX11[w]

\* Nothing of a window leaves this desktop before an ACCEPT for it has been acted
\* upon: a block with RFB bytes carries a window one of whose channels has been
\* accepted.  It holds even when the channel written in the block was read
\* from a freed record, since the socket read is still the window's own.
PixelsNeedConsent ==
  \A t \in Tubes : \A i \in 1 .. Len(down[t]) :
    down[t][i].op \in {"RFB", "EMPTY"} =>
      \E c \in accepted : window[c] = down[t][i].win

\* As long as no second tube has put the parser out of step, an ACCEPT is only
\* acted upon after the remote end has read the OPEN of that very channel,
\* whatever became of the identifiers on the way: no record is freed and its
\* identifier read from freed memory such that another window is streamed.
\* Once it is out of step nothing is promised, see HandleNonsense.
AcceptedWereOffered ==
  sync # "lost" =>
    \A c \in accepted : \E t \in Tubes : c \in peerOffered[t]

\* The blocks of the control channel reach the remote end in an order the
\* protocol allows: OPEN with a new identifier, CLOSE not for a channel that
\* has been closed already, metadata and MOUSE for an open one.  Pixels may be
\* among them, which the remote end takes for control blocks: a watch whose
\* record has been freed reads any channel from it, 0 as well.  That is the
\* only way they get there, so such a watch, on that window, is asked for.
LegalControl(block, t) ==
  CASE block.op = "OPEN" -> block.id \notin peerOffered[t]
    [] block.op = "CLOSE" ->
         block.id \in peerOffered[t] => block.id \in peerOpen[t]
    [] block.op \in {"NAME", "TYPE", "MOUSE"} -> block.id \in peerOpen[t]
    [] block.op \in {"RFB", "EMPTY"} ->
         block.id = 0 => \E c \in accepted \ forwarded : window[c] = block.win
    [] OTHER -> TRUE

ControlInOrder ==
  \A t \in Tubes : down[t] # <<>> => LegalControl(Head(down[t]), t)

\* While the user waits for each request to be finished, no sequence of
\* requests, failures of tubes and answers of the remote end makes mutter
\* abort, except a watch that outlives its record, or one whose VNC server has
\* closed the connection.
OnlyStaleRecordsKill ==
  \/ fate \in {"running", "stale"}
  \/ fate = "bus" /\ \E c \in watches : window[c] \in hungUp

\* While the user waits for each request to be finished there is one tube,
\* and the parser of what it brings stays in step with it.
OneTubeInStep == tubes <= 1 /\ sync # "lost"

\* No two watches read from one VNC socket, so the RFB stream of a window is
\* not split over two channels.
OneReader ==
  \A c, d \in watches : window[c] = window[d] => c = d

\* Once Telepathy has answered, or was not needed, a call of share_window is
\* answered too: the remote end gets to read the OPEN and the window is told
\* 102, or the window is told 301, or it is unshared first.  One case is left
\* out in the open: the window is told nothing when the tube that carries the
\* OPEN came up for an earlier share.
ToldOrLater(c, t) ==
  result[window[c]] = 102 \/ \E d \in peerOffered[t] : d < c

SharesAnswered ==
  \A c \in Ids :
    (c <= highest /\ c \notin pending) ~>
      \/ \E t \in Tubes : Wire(c) \in peerOffered[t] /\ ToldOrLater(c, t)
      \/ c <= highest /\ result[window[c]] = 301
      \/ c \notin forwarded
      \/ fate # "running"

\* A channel that is open at the remote end and no longer shared here is closed
\* there in the end.
ClosesArrive ==
  \A c \in Ids, t \in Tubes :
    c \in peerOpen[t] /\ c \notin forwarded
      ~> (c \notin peerOpen[t] \/ fate # "running")

\* An ACCEPT for a window that has no VNC server yet leads to the window
\* being mirrored, unless it is unshared first.
AcceptsAnswered ==
  \A c \in Ids :
    (/\ c \in forwarded
     /\ bottom # 0
     /\ \E i \in DOMAIN up[bottom] : up[bottom][i] = [op |-> "ACCEPT", id |-> c])
    ~> (window[c] \in servers \/ c \notin forwarded \/ fate # "running")
=============================================================================
