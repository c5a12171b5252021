-------------------------------- MODULE Vnc ---------------------------------
(***************************************************************************)
(* The VNC server of each shared window (src/src/vnc.c).  A timer takes a  *)
(* picture of the window, looks whether its checksum has changed, and lets *)
(* libvncserver handle a message and send what is new.  While there is no  *)
(* picture nothing is handled.  The keyboard is one for all the windows.   *)
(* The plugin has a record of each time a window is shared, which passes   *)
(* the messages of one channel on to the server's socket; the watch that   *)
(* reads the socket is installed when the channel is accepted.  The server *)
(* goes on when the window is unshared, for vnc_stop does nothing, and a   *)
(* record that comes later has its socket from the start.  libvncserver    *)
(* and the viewers at the remote end are external.  A viewer's message     *)
(* counts as sent when the plugin passes it on: what is still on its way   *)
(* to the plugin when the window is unshared is never passed on.           *)
(***************************************************************************)
EXTENDS Naturals, Sequences, FiniteSets

CONSTANTS
  Windows,
  Contents,   \* what a window can look like
  Sum,        \* the checksum of each
  MaxChanges, \* bounds the changes of what a window looks like, or whether it
              \* can be seen
  MaxShares,  \* bounds how often windows are shared
  MaxInbox    \* messages in the socket of a server

None == "None"  \* no picture, no window

ASSUME VncAssumption ==
  /\ None \notin Contents /\ None \notin Windows /\ Sum \in [Contents -> Nat]
  /\ MaxChanges \in Nat /\ MaxShares \in Nat /\ MaxInbox \in Nat

Channels == 1 .. MaxShares

VARIABLES
  \* The desktop: a window's looks, and whether they can be had.
  content, viewable, changes,
  \* The key: 0 when it is up, or the channel that has pressed it last.
  pressedBy,
  \* The servers, with libvncserver's client, and the messages in their sockets.
  servers, inbox,
  \* The plugin's records: how many there have been, the window of each, the
  \* tables by channel and by window, the records that have a client_fd, and
  \* those a watch was installed for.
  highest, window, known, byX11, client, watches,
  \* The viewer of each channel: those with an update request that has not been
  \* answered, those holding the key, those unshared while they held it
  \* (history), and what is shown.
  asking, held, orphans, shown

desktop == <<content, viewable, changes>>
records == <<highest, window, known, byX11, client, watches>>
viewers == <<asking, held, orphans, shown>>
vars == <<desktop, pressedBy, servers, inbox, records, viewers>>

\* No server.
NoServer ==
  [created |-> FALSE, width |-> 0, timers |-> 0, screenshot |-> None,
   modified |-> FALSE, requested |-> FALSE]

Init ==
  /\ content \in {[w \in Windows |-> c] : c \in Contents}
  /\ viewable \in [Windows -> BOOLEAN] /\ changes = 0
  /\ pressedBy = 0
  /\ servers = [w \in Windows |-> NoServer]
  /\ inbox = [w \in Windows |-> <<>>]
  /\ highest = 0 /\ window = [c \in Channels |-> None]
  /\ known = {} /\ byX11 = [w \in Windows |-> 0]
  /\ client = {} /\ watches = {}
  /\ asking = {} /\ held = {} /\ orphans = {}
  /\ shown = [c \in Channels |-> None]

(***************************************************************************)
(* Sharing a window.                                                       *)
(***************************************************************************)

\* vnc_create: a server that exists is left alone.
VncCreate(s) == IF s.created THEN s ELSE [s EXCEPT !.created = TRUE]

\* Mutant of VncStart: it is not looked at whether the server runs.
VncStartAgain(s) ==
  IF ~s.created THEN s
  ELSE [s EXCEPT !.width = 1, !.timers = @ + 1, !.screenshot = None]

\* vnc_start: a width that is set shows that the server has been started.
VncStart(s) ==
  IF ~s.created \/ s.width # 0 THEN s
  ELSE [s EXCEPT !.width = 1, !.timers = @ + 1, !.screenshot = None]

\* share_window: a new record, with the socket of the server if there is one.
\* A record the window has already stays in the table by channel.
Share(w) ==
  LET c == highest + 1 IN
  /\ c \in Channels
  /\ highest' = c
  /\ window' = [window EXCEPT ![c] = w]
  /\ known' = known \cup {c}
  /\ byX11' = [byX11 EXCEPT ![w] = c]
  /\ client' = IF servers[w].created THEN client \cup {c} ELSE client
  /\ UNCHANGED <<desktop, pressedBy, servers, inbox, watches, viewers>>

\* handle_message_to_client, ACCEPT: the server of the window is created and
\* started if it has not been; nothing is done for a record that has a socket.
\* Two records of a window can be waiting to be accepted: the second one puts a
\* second watch on the one socket.
Accept(c) ==
  /\ c \in known \ client
  /\ servers' = [servers EXCEPT ![window[c]] = VncStart(VncCreate(@))]
  /\ client' = client \cup {c}
  /\ watches' = watches \cup {c}
  /\ UNCHANGED <<desktop, pressedBy, inbox, highest, window, known, byX11, viewers>>

\* unshare_window: the newest record is freed, and its viewer's messages are no
\* longer passed on.  The server and what is in its socket stay, and so do an
\* older record of the window and all watches.
Unshare(w) ==
  LET c == byX11[w] IN
  /\ c # 0
  /\ known' = known \ {c}
  /\ byX11' = [byX11 EXCEPT ![w] = 0]
  /\ asking' = asking \ {c}
  /\ held' = held \ {c}
  /\ orphans' = IF c \in held THEN orphans \cup {c} ELSE orphans
  /\ UNCHANGED <<desktop, pressedBy, servers, inbox, highest, window, client,
                 watches, shown>>

(***************************************************************************)
(* The timer.                                                              *)
(***************************************************************************)


\* The new picture replaces the old one if its checksum differs.
Look(s, picture) ==
  IF s.screenshot # None /\ Sum[picture] = Sum[s.screenshot] THEN s
  ELSE [s EXCEPT !.screenshot = picture, !.modified = TRUE]

\* libvncserver takes a message: a request for an update, of all or of what has
\* changed, or a key (handle_keyboard_event).
Take(s, op) ==
  CASE op = "all"  -> [s EXCEPT !.requested = TRUE, !.modified = TRUE]
    [] op = "more" -> [s EXCEPT !.requested = TRUE]
    [] OTHER       -> s

\* Mutant of KeyEvent: only the press is passed on.
KeyEventPress(m) == pressedBy' = IF m.op = "press" THEN m.from ELSE pressedBy

\* handle_keyboard_event: the key of the X server goes down or up, whoever has
\* pressed it.
KeyEvent(m) ==
  pressedBy' = CASE m.op = "press"   -> m.from
                 [] m.op = "release" -> 0
                 [] OTHER            -> pressedBy

\* The records whose watches read the socket of the window's server.
Watching(w) == {c \in watches : window[c] = w}

\* copy_client_to_bottom: one of the watches reads the update and sends it to the
\* channel of its record; a freed record's bytes are of no use to anyone.  If
\* there are several each may get a part, which nobody can show, and one that
\* finds nothing returns without a value, so that it may be removed.
Deliver(w, picture) ==
  \/ \E c \in Watching(w) :
       IF c \in known
       THEN /\ shown' = [shown EXCEPT ![c] = picture]
            /\ asking' = asking \ {c}
       ELSE UNCHANGED <<shown, asking>>
  \/ /\ ~\E c \in watches : Watching(w) = {c}
     /\ UNCHANGED <<shown, asking>>

\* libvncserver sends what is modified, if it has been asked to.
Send(w, s) ==
  IF s.requested /\ s.modified
  THEN /\ servers' = [servers EXCEPT ![w] = [s EXCEPT !.requested = FALSE,
                                                      !.modified = FALSE]]
       /\ Deliver(w, s.screenshot)
  ELSE /\ servers' = [servers EXCEPT ![w] = s]
       /\ UNCHANGED <<shown, asking>>

\* rfbProcessEvents handles at most one message of its client.
ProcessEvents(w, s) ==
  IF inbox[w] = <<>>
  THEN /\ Send(w, s)
       /\ UNCHANGED <<pressedBy, inbox>>
  ELSE /\ Send(w, Take(s, Head(inbox[w]).op))
       /\ KeyEvent(Head(inbox[w]))
       /\ inbox' = [inbox EXCEPT ![w] = Tail(@)]

\* run_rfb_event_loop, while the window's picture can be had.
RunLoop(w) ==
  /\ viewable[w]
  /\ ProcessEvents(w, Look(servers[w], content[w]))

Timer(w) ==
  /\ servers[w].timers > 0
  /\ RunLoop(w)
  /\ UNCHANGED <<desktop, records, held, orphans>>

(***************************************************************************)
(* The desktop and the remote end.                                         *)
(***************************************************************************)

\* The window looks different, or its picture can no longer, or again, be had.
Change(w) ==
  /\ changes < MaxChanges
  /\ changes' = changes + 1
  /\ \/ /\ \E c \in Contents \ {content[w]} : content' = [content EXCEPT ![w] = c]
        /\ UNCHANGED viewable
     \/ /\ viewable' = [viewable EXCEPT ![w] = ~@]
        /\ UNCHANGED content
  /\ UNCHANGED <<pressedBy, servers, inbox, records, viewers>>

\* A viewer's message, which the plugin finds a record for and writes to its
\* client_fd.  A record that has none yet has no viewer that would send anything.
Message(c, op) ==
  LET w == window[c] IN
  /\ c \in known \cap client /\ Len(inbox[w]) < MaxInbox
  /\ inbox' = [inbox EXCEPT ![w] = Append(@, [op |-> op, from |-> c])]
  /\ UNCHANGED <<desktop, pressedBy, servers, records, orphans, shown>>

\* The viewer asks for the picture, and then for what has changed.
Ask(c) ==
  /\ c \notin asking
  /\ Message(c, IF shown[c] = None THEN "all" ELSE "more")
  /\ asking' = asking \cup {c}
  /\ UNCHANGED held

\* The viewer's user presses the key, or lets go of it.
Press(c) ==
  /\ c \notin held
  /\ Message(c, "press")
  /\ held' = held \cup {c}
  /\ UNCHANGED asking

Release(c) ==
  /\ c \in held
  /\ Message(c, "release")
  /\ held' = held \ {c}
  /\ UNCHANGED asking

Next ==
  \/ \E w \in Windows : Share(w) \/ Unshare(w) \/ Timer(w) \/ Change(w)
  \/ \E c \in Channels : Accept(c) \/ Ask(c) \/ Press(c) \/ Release(c)

Spec == Init /\ [][Next]_vars

\* The timers run, and a viewer asks for more when it has been answered.
Fairness ==
  /\ \A w \in Windows : WF_vars(Timer(w))
  /\ \A c \in Channels : SF_vars(Ask(c))

FairSpec == Spec /\ Fairness
-----------------------------------------------------------------------------
Server ==
  [created : BOOLEAN, width : {0, 1}, timers : {0, 1},
   screenshot : Contents \union {None}, modified : BOOLEAN, requested : BOOLEAN]

Messages ==
  [op : {"all", "more", "press", "release"}, from : Channels]

\* Every variable has its type; however often a window is accepted it has one
\* timer.
VncTypeOK ==
  /\ content \in [Windows -> Contents]
  /\ viewable \in [Windows -> BOOLEAN]
  /\ changes \in 0 .. MaxChanges
  /\ pressedBy \in Channels \union {0}
  /\ servers \in [Windows -> Server]
  /\ inbox \in [Windows -> Seq(Messages)]
  /\ highest \in 0 .. MaxShares
  /\ window \in [Channels -> Windows \union {None}]
  /\ known \subseteq 1 .. highest
  /\ byX11 \in [Windows -> 0 .. highest]
  /\ client \subseteq 1 .. highest /\ watches \subseteq client
  /\ asking \subseteq known \cap client /\ held \subseteq known \cap client
  /\ orphans \subseteq Channels
  /\ shown \in [Channels -> Contents \union {None}]

\* The channel's viewer holds the key, or the release has been passed on and is
\* still to be handled.
Accounted(c) ==
  \/ c \in held
  \/ \E w \in Windows : \E i \in DOMAIN inbox[w] :
       inbox[w][i] = [op |-> "release", from |-> c]

\* While the key of the shared desktop is down, the one who has pressed it last
\* holds it or has its release on the way (handle_keyboard_event); except for one
\* whose window was unshared while it held the key.
KeysComeUp ==
  pressedBy # 0 => Accounted(pressedBy) \/ pressedBy \in orphans

\* A channel that is streamed: its record was given the only watch on the socket.
\* That is not so for a window that is shared again when it has a server, whose
\* ACCEPT is a no-op, nor when two records were waiting to be accepted.
Streamed(c) == c \in known /\ Watching(window[c]) = {c}

=============================================================================
