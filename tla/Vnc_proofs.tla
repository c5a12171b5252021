------------------------------ MODULE Vnc_proofs -----------------------------
(***************************************************************************)
(* Theorems about Vnc, for any windows, pictures, checksums and bounds.    *)
(***************************************************************************)
EXTENDS Vnc, TLAPS

\* The width shows whether a server has been started: there is a timer then.
OneTimer == \A w \in Windows : servers[w].timers = servers[w].width

\* Every record has its window, and what is in a server's socket came by way of
\* a record of that window.
RecordsHaveWindows ==
  /\ \A c \in 1 .. highest : window[c] \in Windows
  /\ \A w \in Windows : \A i \in DOMAIN inbox[w] :
       inbox[w][i].from \in 1 .. highest /\ window[inbox[w][i].from] = w

ReleaseOf(c) == [op |-> "release", from |-> c]

\* A press that is still to be handled is one of a key that is held, or was when
\* the window was unshared, or its release comes after it.
PressesAccounted ==
  \A w \in Windows : \A i \in DOMAIN inbox[w] :
    inbox[w][i].op = "press" =>
      \/ inbox[w][i].from \in held \cup orphans
      \/ \E j \in DOMAIN inbox[w] :
           j > i /\ inbox[w][j] = ReleaseOf(inbox[w][i].from)

VncInv ==
  VncTypeOK /\ OneTimer /\ RecordsHaveWindows /\ PressesAccounted /\ KeysComeUp

-----------------------------------------------------------------------------
(* Sequences the prover sees best with their elements left abstract.       *)

LEMMA QueueEnds ==
  ASSUME NEW S, NEW s \in Seq(S)
  PROVE  /\ DOMAIN s = 1 .. Len(s) /\ Len(s) \in Nat
         /\ \A e \in S :
              /\ Append(s, e) \in Seq(S)
              /\ Len(Append(s, e)) = Len(s) + 1
              /\ DOMAIN Append(s, e) = 1 .. Len(s) + 1
              /\ \A i \in 1 .. Len(s) : Append(s, e)[i] = s[i]
              /\ Append(s, e)[Len(s) + 1] = e
         /\ <<>> \in Seq(S) /\ DOMAIN <<>> = {}
         /\ \A i \in 1 .. Len(s) : s[i] \in S
         /\ s # <<>> =>
              /\ Head(s) \in S /\ Head(s) = s[1] /\ 1 \in 1 .. Len(s)
              /\ Tail(s) \in Seq(S)
              /\ DOMAIN Tail(s) = 1 .. Len(s) - 1
              /\ \A i \in 1 .. Len(s) - 1 : Tail(s)[i] = s[i + 1]
OBVIOUS

LEMMA VncInit == Init => VncInv
<1> SUFFICES ASSUME Init PROVE VncInv
  OBVIOUS
<1>1. VncTypeOK
  <2>1. inbox = [w \in Windows |-> <<>>] /\ <<>> \in Seq(Messages)
    BY DEF Init
  <2>2. inbox \in [Windows -> Seq(Messages)]
    BY <2>1
  <2>3. servers \in [Windows -> Server]
    BY DEF Init, Server, NoServer
  <2>4. content \in [Windows -> Contents] /\ viewable \in [Windows -> BOOLEAN]
    BY DEF Init
  <2>5. changes \in 0 .. MaxChanges /\ highest \in 0 .. MaxShares
        /\ byX11 \in [Windows -> 0 .. highest]
    BY VncAssumption DEF Init
  <2>6. /\ known = {} /\ client = {} /\ watches = {} /\ asking = {} /\ held = {}
        /\ orphans = {} /\ pressedBy = 0
    BY DEF Init
  <2>7. window \in [Channels -> Windows \union {None}]
        /\ shown \in [Channels -> Contents \union {None}]
    BY DEF Init
  <2> QED BY <2>2, <2>3, <2>4, <2>5, <2>6, <2>7 DEF VncTypeOK
<1>2. OneTimer /\ KeysComeUp
  BY DEF Init, OneTimer, KeysComeUp, NoServer
<1>3. PressesAccounted /\ RecordsHaveWindows
  BY DEF Init, PressesAccounted, RecordsHaveWindows
<1> QED BY <1>1, <1>2, <1>3 DEF VncInv

-----------------------------------------------------------------------------
(* Records and servers.                                                    *)

\* The keys are no matter of a step that leaves them alone, or that only moves a
\* channel from those that hold the key to those that have left it.
LEMMA KeysLeft ==
  ASSUME VncInv, UNCHANGED <<pressedBy, inbox>>,
         held \cup orphans \subseteq held' \cup orphans'
  PROVE  PressesAccounted' /\ KeysComeUp'
BY DEF VncInv, PressesAccounted, KeysComeUp, Accounted

LEMMA ShareKeeps ==
  ASSUME VncInv, NEW w \in Windows, Share(w)
  PROVE  VncInv'
<1> DEFINE c == highest + 1
<1>1. /\ c \in Channels /\ highest' = c
      /\ window' = [window EXCEPT ![c] = w]
      /\ known' = known \cup {c} /\ byX11' = [byX11 EXCEPT ![w] = c]
      /\ client \subseteq client' /\ client' \subseteq client \cup {c}
      /\ UNCHANGED <<content, viewable, changes, pressedBy, servers, inbox, watches,
                     asking, held, orphans, shown>>
  BY DEF Share, desktop, viewers
<1>2. /\ highest \in 0 .. MaxShares /\ window \in [Channels -> Windows \union {None}]
      /\ known \subseteq 1 .. highest /\ byX11 \in [Windows -> 0 .. highest]
      /\ client \subseteq 1 .. highest
  BY DEF VncInv, VncTypeOK
<1>3. /\ highest' \in 0 .. MaxShares /\ 1 .. highest' = 1 .. highest \cup {c}
      /\ 0 .. highest \subseteq 0 .. highest' /\ c \notin 1 .. highest
      /\ c \in 0 .. highest'
  BY <1>1, <1>2, VncAssumption DEF Channels
<1> HIDE DEF c
<1>4. VncTypeOK'
  <2>1. window' \in [Channels -> Windows \union {None}]
        /\ known' \subseteq 1 .. highest' /\ client' \subseteq 1 .. highest'
    BY <1>1, <1>2, <1>3
  <2>2. byX11' \in [Windows -> 0 .. highest']
    BY <1>1, <1>2, <1>3
  <2> QED BY <1>1, <1>3, <2>1, <2>2 DEF VncInv, VncTypeOK
<1>5. OneTimer'
  BY <1>1 DEF VncInv, OneTimer
<1>6. RecordsHaveWindows'
  <2>1. \A d \in 1 .. highest : d \in Channels /\ window'[d] = window[d]
    BY <1>1, <1>2, <1>3, VncAssumption DEF Channels
  <2>2. window'[c] = w
    BY <1>1, <1>2
  <2> QED BY <1>1, <1>3, <2>1, <2>2 DEF VncInv, RecordsHaveWindows
<1>7. PressesAccounted' /\ KeysComeUp'
  BY <1>1, KeysLeft
<1> QED BY <1>4, <1>5, <1>6, <1>7 DEF VncInv

LEMMA StartedServer ==
  ASSUME NEW s \in Server, s.timers = s.width
  PROVE  LET r == VncStart(VncCreate(s)) IN
         /\ r \in Server /\ r.timers = r.width /\ r.created
<1> DEFINE c == VncCreate(s)
<1>1. c \in Server /\ c.timers = c.width /\ c.created
  BY DEF Server, VncCreate
<1> HIDE DEF c
<1>2. CASE c.width = 0
  <2>1. c.timers + 1 = 1
    BY <1>1, <1>2
  <2>2. VncStart(c) = [c EXCEPT !.width = 1, !.timers = 1, !.screenshot = None]
    BY <1>1, <1>2, <2>1 DEF VncStart
  <2> QED BY <1>1, <2>2 DEF Server, c
<1>3. CASE c.width # 0
  BY <1>1, <1>3 DEF VncStart, c
<1> QED BY <1>2, <1>3

LEMMA AcceptKeeps ==
  ASSUME VncInv, NEW c \in Channels, Accept(c)
  PROVE  VncInv'
<1> DEFINE w == window[c]
<1>1. /\ c \in known \ client
      /\ client' = client \cup {c} /\ watches' = watches \cup {c}
      /\ UNCHANGED <<content, viewable, changes, pressedBy, inbox, highest, window,
                     known, byX11, asking, held, orphans, shown>>
  BY DEF Accept, desktop, viewers
<1>2. w \in Windows /\ c \in 1 .. highest
  BY <1>1 DEF VncInv, VncTypeOK, RecordsHaveWindows
<1>3. /\ servers' \in [Windows -> Server]
      /\ \A v \in Windows : servers'[v].timers = servers'[v].width
  <2>1. servers[w] \in Server /\ servers[w].timers = servers[w].width
    BY <1>2 DEF VncInv, VncTypeOK, OneTimer
  <2> DEFINE r == VncStart(VncCreate(servers[w]))
  <2>2. r \in Server /\ r.timers = r.width
    BY <2>1, StartedServer
  <2>3. servers' = [servers EXCEPT ![w] = r]
    BY DEF Accept
  <2> HIDE DEF r
  <2> QED BY <1>2, <2>2, <2>3 DEF VncInv, VncTypeOK, OneTimer
<1>4. VncTypeOK'
  <2>1. client' \subseteq 1 .. highest /\ watches' \subseteq client'
        /\ asking \subseteq known \cap client' /\ held \subseteq known \cap client'
    BY <1>1, <1>2 DEF VncInv, VncTypeOK
  <2> QED BY <1>1, <1>3, <2>1 DEF VncInv, VncTypeOK
<1>5. OneTimer' /\ RecordsHaveWindows'
  BY <1>1, <1>3 DEF VncInv, OneTimer, RecordsHaveWindows
<1>6. PressesAccounted' /\ KeysComeUp'
  BY <1>1, KeysLeft
<1> QED BY <1>4, <1>5, <1>6 DEF VncInv

LEMMA UnshareKeeps ==
  ASSUME VncInv, NEW w \in Windows, Unshare(w)
  PROVE  VncInv'
<1> DEFINE c == byX11[w]
<1>1. /\ known' = known \ {c} /\ byX11' = [byX11 EXCEPT ![w] = 0]
      /\ asking' = asking \ {c} /\ held' = held \ {c}
      /\ orphans' = IF c \in held THEN orphans \cup {c} ELSE orphans
      /\ UNCHANGED <<content, viewable, changes, pressedBy, servers, inbox, highest,
                     window, client, watches, shown>>
  BY DEF Unshare, desktop
<1>2. byX11 \in [Windows -> 0 .. highest] /\ 0 \in 0 .. highest
  BY DEF VncInv, VncTypeOK
<1>3. held \subseteq Channels
  BY VncAssumption DEF VncInv, VncTypeOK, Channels
<1>4. VncTypeOK'
  <2>1. byX11' \in [Windows -> 0 .. highest]
    BY <1>1, <1>2
  <2> HIDE DEF c
  <2>2. /\ known' \subseteq 1 .. highest /\ orphans' \subseteq Channels
        /\ asking' \subseteq known' \cap client /\ held' \subseteq known' \cap client
    BY <1>1, <1>3 DEF VncInv, VncTypeOK
  <2> QED BY <1>1, <2>1, <2>2 DEF VncInv, VncTypeOK
<1>5. OneTimer' /\ RecordsHaveWindows'
  BY <1>1 DEF VncInv, OneTimer, RecordsHaveWindows
<1>6. held \cup orphans \subseteq held' \cup orphans'
  BY <1>1
<1>7. PressesAccounted' /\ KeysComeUp'
  BY <1>1, <1>6, KeysLeft
<1> QED BY <1>4, <1>5, <1>7 DEF VncInv

LEMMA ChangeKeeps ==
  ASSUME VncInv, NEW w \in Windows, Change(w)
  PROVE  VncInv'
<1>1. UNCHANGED <<pressedBy, servers, inbox, highest, window, known, byX11, client,
                  watches, asking, held, orphans, shown>>
  BY DEF Change, records, viewers
<1>2. VncTypeOK'
  <2>1. changes' \in 0 .. MaxChanges
    BY VncAssumption DEF VncInv, VncTypeOK, Change
  <2>2. content' \in [Windows -> Contents] /\ viewable' \in [Windows -> BOOLEAN]
    BY DEF VncInv, VncTypeOK, Change
  <2> QED BY <1>1, <2>1, <2>2 DEF VncInv, VncTypeOK
<1>3. OneTimer' /\ RecordsHaveWindows'
  BY <1>1 DEF VncInv, OneTimer, RecordsHaveWindows
<1>4. PressesAccounted' /\ KeysComeUp'
  BY <1>1, KeysLeft
<1> QED BY <1>2, <1>3, <1>4 DEF VncInv

-----------------------------------------------------------------------------
(* The timer.                                                              *)

LEMMA LookedAt ==
  ASSUME NEW s \in Server, NEW picture \in Contents
  PROVE  LET r == Look(s, picture) IN
         /\ r \in Server /\ r.timers = s.timers /\ r.width = s.width
         /\ r.created = s.created
BY DEF Look, Server

LEMMA TakenIn ==
  ASSUME NEW s \in Server, NEW op
  PROVE  LET r == Take(s, op) IN
         /\ r \in Server /\ r.timers = s.timers /\ r.width = s.width
         /\ r.created = s.created
<1>1. CASE op = "all"
  BY <1>1 DEF Take, Server
<1>2. CASE op = "more"
  BY <1>2 DEF Take, Server
<1>3. CASE op # "all" /\ op # "more"
  BY <1>3 DEF Take, Server
<1> QED BY <1>1, <1>2, <1>3

\* libvncserver sends: the servers keep what the plugin has made of them.
LEMMA SendKeeps ==
  ASSUME VncInv, NEW w \in Windows, NEW s \in Server, Send(w, s),
         s.timers = servers[w].timers, s.width = servers[w].width,
         s.created = servers[w].created
  PROVE  /\ servers' \in [Windows -> Server]
         /\ \A v \in Windows :
              /\ servers'[v].timers = servers[v].timers
              /\ servers'[v].width = servers[v].width
              /\ servers'[v].created = servers[v].created
         /\ asking' \subseteq asking
         /\ shown' \in [Channels -> Contents \union {None}]
<1>1. servers \in [Windows -> Server]
      /\ shown \in [Channels -> Contents \union {None}]
  BY DEF VncInv, VncTypeOK
<1>2. CASE s.requested /\ s.modified
  <2> DEFINE r == [s EXCEPT !.requested = FALSE, !.modified = FALSE]
  <2>1. r \in Server /\ r.timers = s.timers /\ r.width = s.width
        /\ r.created = s.created
    BY DEF Server
  <2>2. servers' = [servers EXCEPT ![w] = r] /\ Deliver(w, s.screenshot)
    BY <1>2 DEF Send
  <2> HIDE DEF r
  <2>3. servers' \in [Windows -> Server]
        /\ \A v \in Windows :
              /\ servers'[v].timers = servers[v].timers
              /\ servers'[v].width = servers[v].width
              /\ servers'[v].created = servers[v].created
    BY <1>1, <2>1, <2>2
  <2>4. asking' \subseteq asking
    BY <2>2 DEF Deliver
  <2>5. shown' \in [Channels -> Contents \union {None}]
    <3>1. s.screenshot \in Contents \union {None}
      BY DEF Server
    <3> QED BY <1>1, <2>2, <3>1 DEF Deliver
  <2> QED BY <2>3, <2>4, <2>5
<1>3. CASE ~(s.requested /\ s.modified)
  BY <1>1, <1>3 DEF Send
<1> QED BY <1>2, <1>3

LEMMA TimerKeeps ==
  ASSUME VncInv, NEW w \in Windows, Timer(w)
  PROVE  VncInv'
<1> DEFINE s == inbox[w]
<1>1. servers[w] \in Server /\ content[w] \in Contents /\ s \in Seq(Messages)
      /\ inbox \in [Windows -> Seq(Messages)] /\ pressedBy \in Channels \cup {0}
  BY DEF VncInv, VncTypeOK
<1>2. UNCHANGED <<content, viewable, changes, highest, window, known, byX11, client,
                  watches, held, orphans>>
  BY DEF Timer, desktop, records
<1>3. PICK l \in Server :
        /\ l.timers = servers[w].timers /\ l.width = servers[w].width
        /\ l.created = servers[w].created
        /\ ProcessEvents(w, l)
  BY <1>1, LookedAt DEF Timer, RunLoop
<1>4. PICK r \in Server :
        /\ r.timers = servers[w].timers /\ r.width = servers[w].width
        /\ r.created = servers[w].created
        /\ Send(w, r)
  <2>1. CASE s = <<>>
    BY <1>3, <2>1 DEF ProcessEvents
  <2>2. CASE s # <<>>
    BY <1>3, <2>2, TakenIn DEF ProcessEvents
  <2> QED BY <2>1, <2>2
<1>5. /\ servers' \in [Windows -> Server]
      /\ \A v \in Windows :
           /\ servers'[v].timers = servers[v].timers
           /\ servers'[v].width = servers[v].width
      /\ asking' \subseteq asking
      /\ shown' \in [Channels -> Contents \union {None}]
  BY <1>4, SendKeeps
<1>6. inbox' \in [Windows -> Seq(Messages)] /\ pressedBy' \in Channels \cup {0}
      /\ PressesAccounted' /\ KeysComeUp' /\ RecordsHaveWindows'
  <2>1. CASE s = <<>>
    <3>1. UNCHANGED <<pressedBy, inbox>>
      BY <1>3, <2>1 DEF ProcessEvents
    <3>2. RecordsHaveWindows'
      BY <1>2, <3>1 DEF VncInv, RecordsHaveWindows
    <3> QED BY <1>1, <1>2, <3>1, <3>2, KeysLeft
  <2>2. CASE s # <<>>
    <3> DEFINE m == Head(s)
    <3>1. KeyEvent(m) /\ inbox' = [inbox EXCEPT ![w] = Tail(s)]
      BY <1>3, <2>2 DEF ProcessEvents
    <3>2. /\ m = s[1] /\ 1 \in 1 .. Len(s) /\ Len(s) \in Nat
          /\ DOMAIN s = 1 .. Len(s) /\ m \in Messages
          /\ Tail(s) \in Seq(Messages) /\ DOMAIN Tail(s) = 1 .. Len(s) - 1
          /\ \A i \in 1 .. Len(s) - 1 : Tail(s)[i] = s[i + 1]
      BY <1>1, <2>2, QueueEnds
    <3>3. inbox' \in [Windows -> Seq(Messages)] /\ inbox'[w] = Tail(s)
          /\ \A v \in Windows \ {w} : inbox'[v] = inbox[v]
      BY <1>1, <3>1, <3>2
    <3> HIDE DEF m
    <3>4. pressedBy' \in Channels \cup {0}
      <4>1. pressedBy' \in {m.from, 0, pressedBy} /\ m.from \in Channels
        BY <3>1, <3>2 DEF KeyEvent, Messages
      <4> QED BY <1>1, <4>1
    \* What is after the first message is one place nearer.
    <3>5. \A j \in DOMAIN s : j > 1 => /\ j - 1 \in DOMAIN inbox'[w]
                                       /\ inbox'[w][j - 1] = s[j]
      BY <3>2, <3>3
    <3>6. \A i \in DOMAIN inbox'[w] : i + 1 \in DOMAIN s /\ inbox'[w][i] = s[i + 1]
                                      /\ i \in Nat
      BY <3>2, <3>3
    <3>7. RecordsHaveWindows'
      <4>1. \A c \in 1 .. highest' : window'[c] \in Windows
        BY <1>2 DEF VncInv, RecordsHaveWindows
      <4>2. ASSUME NEW v \in Windows, NEW i \in DOMAIN inbox'[v]
            PROVE  \E j \in DOMAIN inbox[v] : inbox'[v][i] = inbox[v][j]
        BY <3>3, <3>6
      <4> QED BY <1>2, <4>1, <4>2 DEF VncInv, RecordsHaveWindows
    <3>8. \A i \in DOMAIN s : s[i].op = "press" =>
            \/ s[i].from \in held \cup orphans
            \/ \E j \in DOMAIN s : j > i /\ s[j] = ReleaseOf(s[i].from)
      BY DEF VncInv, PressesAccounted
    <3> HIDE DEF s
    <3>9. PressesAccounted'
      <4> SUFFICES ASSUME NEW v \in Windows, NEW i \in DOMAIN inbox'[v],
                          inbox'[v][i].op = "press",
                          inbox'[v][i].from \notin held \cup orphans
                   PROVE  \E j \in DOMAIN inbox'[v] :
                            j > i /\ inbox'[v][j] = ReleaseOf(inbox'[v][i].from)
        BY <1>2 DEF PressesAccounted, ReleaseOf
      <4>1. CASE v # w
        BY <3>3, <4>1 DEF VncInv, PressesAccounted
      <4>2. CASE v = w
        <5>1. i + 1 \in DOMAIN s /\ s[i + 1] = inbox'[w][i] /\ i \in Nat
          BY <3>6, <4>2
        <5>2. PICK j \in DOMAIN s : j > i + 1 /\ s[j] = ReleaseOf(s[i + 1].from)
          BY <3>8, <4>2, <5>1
        <5>3. j - 1 > i /\ j > 1
          BY <3>2, <5>1, <5>2
        <5> QED BY <3>5, <4>2, <5>1, <5>2, <5>3
      <4> QED BY <4>1, <4>2
    <3>10. KeysComeUp'
      <4> SUFFICES ASSUME pressedBy' # 0, pressedBy' \notin held \cup orphans
                   PROVE  \E v \in Windows : \E i \in DOMAIN inbox'[v] :
                            inbox'[v][i] = ReleaseOf(pressedBy')
        BY <1>2 DEF KeysComeUp, Accounted, ReleaseOf
      <4>1. m.op # "release"
        BY <3>1 DEF KeyEvent
      <4>2. CASE m.op = "press"
        <5>1. pressedBy' = m.from
          BY <3>1, <4>2 DEF KeyEvent
        <5>2. PICK j \in DOMAIN s : j > 1 /\ s[j] = ReleaseOf(m.from)
          BY <3>2, <3>8, <4>2, <5>1
        <5> QED BY <3>5, <5>1, <5>2
      <4>3. CASE m.op # "press"
        <5>1. pressedBy' = pressedBy
          BY <3>1, <4>1, <4>3 DEF KeyEvent
        <5>2. PICK v \in Windows :
                \E i \in DOMAIN inbox[v] : inbox[v][i] = ReleaseOf(pressedBy)
          BY <5>1 DEF VncInv, KeysComeUp, Accounted, ReleaseOf
        <5>3. PICK i \in DOMAIN inbox[v] : inbox[v][i] = ReleaseOf(pressedBy)
          BY <5>2
        <5>4. CASE v # w
          BY <3>3, <5>1, <5>3, <5>4
        <5>5. CASE v = w
          <6>1. i \in DOMAIN s /\ s[i] = ReleaseOf(pressedBy)
            BY <5>3, <5>5 DEF s
          <6>2. i # 1
            BY <3>2, <4>1, <6>1 DEF ReleaseOf
          <6>3. i > 1
            BY <3>2, <6>1, <6>2
          <6> QED BY <3>5, <5>1, <6>1, <6>3
        <5> QED BY <5>4, <5>5
      <4> QED BY <4>2, <4>3
    <3> QED BY <3>3, <3>4, <3>7, <3>9, <3>10
  <2> QED BY <2>1, <2>2
<1>7. VncTypeOK'
  BY <1>2, <1>5, <1>6 DEF VncInv, VncTypeOK
<1>8. OneTimer'
  BY <1>5 DEF VncInv, OneTimer
<1> QED BY <1>6, <1>7, <1>8 DEF VncInv

-----------------------------------------------------------------------------
(* The remote end.                                                         *)

\* A message goes to the end of the queue of its window.
LEMMA MessageQueued ==
  ASSUME VncInv, NEW c \in Channels, NEW op, Message(c, op),
         op \in {"all", "more", "press", "release"}
  PROVE  LET w == window[c]
             n == Len(inbox[w])
         IN
         /\ w \in Windows /\ c \in 1 .. highest /\ c \in known \cap client
         /\ inbox' \in [Windows -> Seq(Messages)]
         /\ n \in Nat /\ DOMAIN inbox[w] = 1 .. n
         /\ DOMAIN inbox'[w] = 1 .. n + 1
         /\ \A i \in 1 .. n : inbox'[w][i] = inbox[w][i]
         /\ inbox'[w][n + 1] = [op |-> op, from |-> c]
         /\ \A v \in Windows \ {w} : inbox'[v] = inbox[v]
<1> DEFINE w == window[c]
           s == inbox[w]
           m == [op |-> op, from |-> c]
<1>1. w \in Windows /\ c \in 1 .. highest /\ c \in known \cap client
  BY DEF Message, VncInv, VncTypeOK, RecordsHaveWindows
<1>2. s \in Seq(Messages) /\ inbox \in [Windows -> Seq(Messages)] /\ m \in Messages
  BY <1>1 DEF VncInv, VncTypeOK, Messages
<1>3. inbox' = [inbox EXCEPT ![w] = Append(s, m)]
  BY DEF Message
<1> HIDE DEF m
<1>4. /\ Append(s, m) \in Seq(Messages)
      /\ Len(s) \in Nat /\ DOMAIN s = 1 .. Len(s)
      /\ DOMAIN Append(s, m) = 1 .. Len(s) + 1
      /\ \A i \in 1 .. Len(s) : Append(s, m)[i] = s[i]
      /\ Append(s, m)[Len(s) + 1] = m
  BY <1>2, QueueEnds
<1>5. inbox'[w] = Append(s, m) /\ \A v \in Windows \ {w} : inbox'[v] = inbox[v]
  BY <1>1, <1>2, <1>3
<1>6. inbox' \in [Windows -> Seq(Messages)]
  BY <1>1, <1>2, <1>3, <1>4
<1> QED BY <1>1, <1>4, <1>5, <1>6 DEF m

\* What a message leaves as it is, whatever it says.
LEMMA MessageKeeps ==
  ASSUME VncInv, NEW c \in Channels, NEW op, Message(c, op),
         op \in {"all", "more", "press", "release"},
         asking' \subseteq asking \cup {c}, held' \subseteq held \cup {c}
  PROVE  VncTypeOK' /\ OneTimer' /\ RecordsHaveWindows'
<1> DEFINE w == window[c]
           n == Len(inbox[w])
<1>1. UNCHANGED <<content, viewable, changes, pressedBy, servers, highest, window,
                  known, byX11, client, watches, orphans, shown>>
  BY DEF Message, desktop, records
<1>2. /\ w \in Windows /\ c \in 1 .. highest /\ c \in known \cap client
      /\ inbox' \in [Windows -> Seq(Messages)]
      /\ n \in Nat /\ DOMAIN inbox[w] = 1 .. n
      /\ DOMAIN inbox'[w] = 1 .. n + 1
      /\ \A i \in 1 .. n : inbox'[w][i] = inbox[w][i]
      /\ inbox'[w][n + 1] = [op |-> op, from |-> c]
      /\ \A v \in Windows \ {w} : inbox'[v] = inbox[v]
  BY MessageQueued
<1>3. VncTypeOK'
  <2>1. asking' \subseteq known \cap client /\ held' \subseteq known \cap client
    BY <1>2 DEF VncInv, VncTypeOK
  <2> QED BY <1>1, <1>2, <2>1 DEF VncInv, VncTypeOK
<1>4. OneTimer'
  BY <1>1 DEF VncInv, OneTimer
<1>5. RecordsHaveWindows'
  <2>1. \A d \in 1 .. highest' : window'[d] \in Windows
    BY <1>1 DEF VncInv, RecordsHaveWindows
  <2>2. ASSUME NEW v \in Windows, NEW i \in DOMAIN inbox'[v]
        PROVE  inbox'[v][i].from \in 1 .. highest /\ window[inbox'[v][i].from] = v
    <3>1. CASE v # w
      BY <1>2, <3>1 DEF VncInv, RecordsHaveWindows
    <3>2. CASE v = w /\ i \in 1 .. n
      BY <1>2, <3>2 DEF VncInv, RecordsHaveWindows
    <3>3. CASE v = w /\ i = n + 1
      BY <1>2, <3>3
    <3>4. v = w => i \in 1 .. n \/ i = n + 1
      BY <1>2
    <3> QED BY <3>1, <3>2, <3>3, <3>4
  <2> QED BY <1>1, <2>1, <2>2 DEF RecordsHaveWindows
<1> QED BY <1>3, <1>4, <1>5

\* The presses that were accounted for are after another message.
LEMMA PressesStay ==
  ASSUME VncInv, NEW c \in Channels, NEW op, Message(c, op),
         op \in {"all", "more", "press", "release"},
         \/ UNCHANGED held /\ op \notin {"press", "release"}
         \/ held' = held \cup {c} /\ op = "press"
         \/ held' = held \ {c} /\ op = "release"
  PROVE  PressesAccounted' /\ KeysComeUp'
<1> DEFINE w == window[c]
           n == Len(inbox[w])
<1>1. UNCHANGED <<pressedBy, highest, window, orphans>>
  BY DEF Message, records
<1>2. /\ w \in Windows
      /\ inbox \in [Windows -> Seq(Messages)]
      /\ n \in Nat /\ DOMAIN inbox[w] = 1 .. n
      /\ DOMAIN inbox'[w] = 1 .. n + 1
      /\ \A i \in 1 .. n : inbox'[w][i] = inbox[w][i]
      /\ inbox'[w][n + 1] = [op |-> op, from |-> c]
      /\ \A v \in Windows \ {w} : inbox'[v] = inbox[v]
  BY MessageQueued DEF VncInv, VncTypeOK
<1> HIDE DEF n
\* A channel that no longer holds the key has sent the release.
<1>3. \A d \in held \cup orphans :
        d \in held' \cup orphans' \/ (d = c /\ inbox'[w][n + 1] = ReleaseOf(c))
  BY <1>1, <1>2 DEF ReleaseOf
<1>4. \A v \in Windows : \A i \in DOMAIN inbox[v] :
        i \in DOMAIN inbox'[v] /\ inbox'[v][i] = inbox[v][i]
  BY <1>2
<1>5. PressesAccounted'
  <2> SUFFICES ASSUME NEW v \in Windows, NEW i \in DOMAIN inbox'[v],
                      inbox'[v][i].op = "press",
                      inbox'[v][i].from \notin held' \cup orphans'
               PROVE  \E j \in DOMAIN inbox'[v] :
                        j > i /\ inbox'[v][j] = ReleaseOf(inbox'[v][i].from)
    BY DEF PressesAccounted, ReleaseOf
  <2>1. i \in DOMAIN inbox[v] /\ inbox'[v][i] = inbox[v][i]
    <3>1. CASE v # w
      BY <1>2, <3>1
    <3>2. CASE v = w
      <4>1. i # n + 1
        BY <1>2, <3>2
      <4> QED BY <1>2, <3>2, <4>1
    <3> QED BY <3>1, <3>2
  <2> DEFINE d == inbox[v][i].from
  <2>2. \/ d \in held \cup orphans
        \/ \E j \in DOMAIN inbox[v] : j > i /\ inbox[v][j] = ReleaseOf(d)
    BY <2>1 DEF VncInv, PressesAccounted
  <2>3. CASE d \in held \cup orphans
    <3>1. d = c /\ inbox'[w][n + 1] = ReleaseOf(c)
      BY <1>3, <2>1, <2>3
    <3>2. v = w
      BY <2>1, <3>1 DEF VncInv, RecordsHaveWindows
    <3>3. i < n + 1 /\ n + 1 \in DOMAIN inbox'[w]
      BY <1>2, <2>1, <3>2
    <3> QED BY <2>1, <3>1, <3>2, <3>3
  <2>4. CASE \E j \in DOMAIN inbox[v] : j > i /\ inbox[v][j] = ReleaseOf(d)
    BY <1>4, <2>1, <2>4
  <2> QED BY <2>2, <2>3, <2>4
<1>6. KeysComeUp'
  <2> SUFFICES ASSUME pressedBy # 0, pressedBy \notin held' \cup orphans'
               PROVE  \E v \in Windows : \E i \in DOMAIN inbox'[v] :
                        inbox'[v][i] = ReleaseOf(pressedBy)
    BY <1>1 DEF KeysComeUp, Accounted, ReleaseOf
  <2>1. \/ pressedBy \in held \cup orphans
        \/ \E v \in Windows : \E i \in DOMAIN inbox[v] :
             inbox[v][i] = ReleaseOf(pressedBy)
    BY DEF VncInv, KeysComeUp, Accounted, ReleaseOf
  <2>2. CASE pressedBy \in held \cup orphans
    BY <1>2, <1>3, <2>2
  <2>3. CASE \E v \in Windows : \E i \in DOMAIN inbox[v] :
               inbox[v][i] = ReleaseOf(pressedBy)
    BY <1>4, <2>3
  <2> QED BY <2>1, <2>2, <2>3
<1> QED BY <1>5, <1>6

\* The viewer's steps.
LEMMA ViewerKeeps ==
  ASSUME VncInv, NEW c \in Channels, Ask(c) \/ Press(c) \/ Release(c)
  PROVE  VncInv'
<1>1. CASE Ask(c)
  <2>1. PICK op \in {"all", "more"} : Message(c, op)
    BY <1>1 DEF Ask
  <2>2. asking' \subseteq asking \cup {c} /\ UNCHANGED held
    BY <1>1 DEF Ask
  <2>3. PressesAccounted' /\ KeysComeUp'
    BY <2>1, <2>2, PressesStay
  <2> QED BY <2>1, <2>2, <2>3, MessageKeeps DEF VncInv
<1>2. CASE Press(c)
  <2>1. Message(c, "press") /\ UNCHANGED asking /\ held' = held \cup {c}
    BY <1>2 DEF Press
  <2>2. PressesAccounted' /\ KeysComeUp'
    BY <2>1, PressesStay
  <2> QED BY <2>1, <2>2, MessageKeeps DEF VncInv
<1>3. CASE Release(c)
  <2>1. Message(c, "release") /\ UNCHANGED asking /\ held' = held \ {c}
    BY <1>3 DEF Release
  <2>2. PressesAccounted' /\ KeysComeUp'
    BY <2>1, PressesStay
  <2> QED BY <2>1, <2>2, MessageKeeps DEF VncInv
<1> QED BY <1>1, <1>2, <1>3

-----------------------------------------------------------------------------
(* Every step, and the theorems.                                           *)

LEMMA VncStep == VncInv /\ [Next]_vars => VncInv'
<1> SUFFICES ASSUME VncInv, [Next]_vars PROVE VncInv'
  OBVIOUS
<1>1. ASSUME NEW w \in Windows, Share(w) PROVE VncInv'
  BY <1>1, ShareKeeps
<1>2. ASSUME NEW w \in Windows, Unshare(w) PROVE VncInv'
  BY <1>2, UnshareKeeps
<1>3. ASSUME NEW w \in Windows, Timer(w) PROVE VncInv'
  BY <1>3, TimerKeeps
<1>4. ASSUME NEW w \in Windows, Change(w) PROVE VncInv'
  BY <1>4, ChangeKeeps
<1>5. ASSUME NEW c \in Channels, Accept(c) PROVE VncInv'
  BY <1>5, AcceptKeeps
<1>6. ASSUME NEW c \in Channels, Ask(c) \/ Press(c) \/ Release(c) PROVE VncInv'
  BY <1>6, ViewerKeeps
<1>7. CASE UNCHANGED vars
  BY <1>7 DEF vars, desktop, records, viewers, VncInv, VncTypeOK, OneTimer,
              RecordsHaveWindows, PressesAccounted, KeysComeUp, Accounted
<1> QED BY <1>1, <1>2, <1>3, <1>4, <1>5, <1>6, <1>7 DEF Next

\* The invariant that carries the others: a timer for each server that runs, a
\* window for each record and message, and for each press that waits a viewer
\* that holds the key, or its release, or an unshared window.
THEOREM VncSafe == Spec => []VncInv
BY VncInit, VncStep, PTL DEF Spec

\* Every variable keeps its type, and a window that is accepted any number of
\* times has one timer (vnc_create, vnc_start).
THEOREM VncTypes == Spec => []VncTypeOK
<1>1. VncInv => VncTypeOK
  BY DEF VncInv
<1> QED BY <1>1, VncSafe, PTL

\* The key of the shared desktop is down only while the one who has pressed it
\* last holds it or has its release on the way, or if its own window was unshared
\* while it held the key (handle_keyboard_event); what other windows were unshared
\* is no matter.
THEOREM KeysDoComeUp == Spec => []KeysComeUp
<1>1. VncInv => KeysComeUp
  BY DEF VncInv
<1> QED BY <1>1, VncSafe, PTL

-----------------------------------------------------------------------------
(* What the liveness of the pictures rests on.                             *)

Requests == {"all", "more"}

\* A window has a server from the time the first of its records is accepted, and
\* then a watch; what is not accepted has not been shown anything.
ServersWatched ==
  /\ \A w \in Windows :
       IF servers[w].created
       THEN servers[w].width = 1 /\ \E c \in watches : window[c] = w
       ELSE servers[w] = NoServer /\ \A c \in client : window[c] # w
  /\ \A c \in Channels \ watches : shown[c] = None

\* For one channel that is streamed, with its server s, its queue q, and what its
\* viewer waits for and shows: the request is on its way or known to
\* libvncserver, and what is not to be sent again has been sent.
FollowsServer(s, q, waits, p) ==
  /\ waits => s.requested \/ \E i \in DOMAIN q : q[i].op \in Requests
  /\ ~s.modified => p = s.screenshot

Follows(c) ==
  Streamed(c) =>
    FollowsServer(servers[window[c]], inbox[window[c]], c \in asking, shown[c])

PicturesFollow == ServersWatched /\ \A c \in Channels : Follows(c)

LEMMA AcceptFollows ==
  ASSUME VncInv, PicturesFollow, NEW c \in Channels, Accept(c)
  PROVE  PicturesFollow'
<1> DEFINE w == window[c]
           s == servers[w]
           r == VncStart(VncCreate(s))
<1>1. /\ c \in known \ client
      /\ client' = client \cup {c} /\ watches' = watches \cup {c}
      /\ UNCHANGED <<inbox, window, known, asking, shown>>
      /\ servers' = [servers EXCEPT ![w] = r]
  BY DEF Accept, viewers
<1>2. /\ w \in Windows /\ servers \in [Windows -> Server]
      /\ watches \subseteq client /\ client \subseteq Channels /\ asking \subseteq client
      /\ shown \in [Channels -> Contents \union {None}]
      /\ \A d \in client : window[d] \in Windows
  <2>1. client \subseteq 1 .. highest /\ highest \in 0 .. MaxShares
        /\ asking \subseteq client /\ watches \subseteq client
        /\ servers \in [Windows -> Server]
        /\ shown \in [Channels -> Contents \union {None}]
    BY DEF VncInv, VncTypeOK
  <2>2. 1 .. highest \subseteq Channels
    BY <2>1, VncAssumption DEF Channels
  <2>3. known \subseteq 1 .. highest
    BY DEF VncInv, VncTypeOK
  <2> QED BY <1>1, <2>1, <2>2, <2>3 DEF VncInv, RecordsHaveWindows
<1>3. /\ Watching(w)' = Watching(w) \cup {c}
      /\ \A v \in Windows \ {w} : Watching(v)' = Watching(v)
  BY <1>1 DEF Watching
<1>4. CASE s.created
  <2>1. s.width = 1 /\ Watching(w) # {}
    BY <1>2, <1>4 DEF PicturesFollow, ServersWatched, Watching
  <2>2. r = s
    BY <1>4, <2>1 DEF VncCreate, VncStart
  <2> HIDE DEF r, s
  <2>3. servers' = servers
    BY <1>1, <1>2, <2>2 DEF s
  <2>4. ServersWatched'
    <3>1. \A d \in Channels \ watches' : shown'[d] = None
      BY <1>1 DEF PicturesFollow, ServersWatched
    <3>2. \A v \in Windows : ~servers[v].created => v # w
      BY <1>4 DEF s
    <3> QED BY <1>1, <2>3, <3>1, <3>2 DEF PicturesFollow, ServersWatched
  <2>5. ASSUME NEW d \in Channels, Streamed(d)'
        PROVE  Streamed(d)
    <3>1. window[d] # w
      <4>1. c \notin Watching(w)
        BY <1>1, <1>2 DEF Watching
      <4>2. ASSUME window[d] = w PROVE FALSE
        <5>1. Watching(w) \cup {c} = {d}
          BY <1>1, <1>3, <2>5, <4>2 DEF Streamed
        <5> QED BY <2>1, <4>1, <5>1
      <4> QED BY <4>2
    <3>2. d \in watches' /\ d # c
      BY <1>1, <2>5, <3>1 DEF Streamed, Watching
    <3>3. window[d] \in Windows \ {w}
      BY <1>1, <1>2, <3>1, <3>2
    <3> QED BY <1>1, <1>3, <2>5, <3>3 DEF Streamed
  <2> QED BY <1>1, <2>3, <2>4, <2>5 DEF PicturesFollow, Follows
<1>5. CASE ~s.created
  <2>1. s = NoServer /\ \A d \in client : window[d] # w
    BY <1>2, <1>5 DEF PicturesFollow, ServersWatched
  <2>2. /\ r.created /\ r.width = 1 /\ r.screenshot = None
    BY <2>1 DEF NoServer, VncCreate, VncStart
  <2>3. c \notin asking /\ shown[c] = None
    BY <1>1, <1>2 DEF PicturesFollow, ServersWatched
  <2> HIDE DEF r, s
  <2>4. servers'[w] = r /\ \A v \in Windows \ {w} : servers'[v] = servers[v]
    BY <1>1, <1>2
  <2>5. ServersWatched'
    <3>1. \A d \in Channels \ watches' : shown'[d] = None
      BY <1>1 DEF PicturesFollow, ServersWatched
    <3>2. ASSUME NEW v \in Windows
          PROVE  IF servers'[v].created
                 THEN servers'[v].width = 1 /\ \E d \in watches' : window'[d] = v
                 ELSE servers'[v] = NoServer /\ \A d \in client' : window'[d] # v
      <4>1. CASE v = w
        BY <1>1, <2>2, <2>4, <4>1
      <4>2. CASE v # w
        BY <1>1, <2>4, <4>2 DEF PicturesFollow, ServersWatched
      <4> QED BY <4>1, <4>2
    <3> QED BY <3>1, <3>2 DEF ServersWatched
  <2>6. ASSUME NEW d \in Channels
        PROVE  Follows(d)'
    <3>1. CASE d = c
      BY <1>1, <2>2, <2>3, <2>4, <3>1 DEF Follows, FollowsServer
    <3>2. CASE d # c
      <4> SUFFICES ASSUME Streamed(d)'
                   PROVE  FollowsServer(servers'[window[d]], inbox[window[d]],
                                        d \in asking, shown[d])
        BY <1>1 DEF Follows
      <4>1. d \in watches
        BY <1>1, <3>2 DEF Streamed, Watching
      <4>2. window[d] \in Windows \ {w}
        BY <1>2, <2>1, <4>1
      <4>3. Streamed(d)
        BY <1>1, <1>3, <4>2 DEF Streamed
      <4> QED BY <2>4, <4>2, <4>3 DEF PicturesFollow, Follows
    <3> QED BY <3>1, <3>2
  <2> QED BY <2>5, <2>6 DEF PicturesFollow
<1> QED BY <1>4, <1>5

LEMMA ShareFollows ==
  ASSUME VncInv, PicturesFollow, NEW w \in Windows, Share(w)
  PROVE  PicturesFollow'
<1> DEFINE c == highest + 1
<1>1. /\ window' = [window EXCEPT ![c] = w] /\ known' = known \cup {c}
      /\ client' = IF servers[w].created THEN client \cup {c} ELSE client
      /\ UNCHANGED <<servers, inbox, watches, asking, shown>>
  BY DEF Share, viewers
<1>2. /\ client \subseteq 1 .. highest /\ watches \subseteq client
      /\ window \in [Channels -> Windows \union {None}]
      /\ 1 .. highest \subseteq Channels /\ c \notin 1 .. highest /\ c \in Channels
  <2>1. highest \in 0 .. MaxShares
    BY DEF VncInv, VncTypeOK
  <2>2. 1 .. highest \subseteq Channels /\ c \notin 1 .. highest
    BY <2>1, VncAssumption DEF Channels
  <2> QED BY <2>2 DEF VncInv, VncTypeOK, Share
<1> HIDE DEF c
<1>3. window'[c] = w /\ \A d \in Channels \ {c} : window'[d] = window[d]
  BY <1>1, <1>2
<1>4. \A v \in Windows : Watching(v)' = Watching(v)
  BY <1>1, <1>2, <1>3 DEF Watching
<1>5. ServersWatched'
  <2>1. \A d \in Channels \ watches' : shown'[d] = None
    BY <1>1 DEF PicturesFollow, ServersWatched
  <2>2. ASSUME NEW v \in Windows, servers[v].created
        PROVE  servers'[v].width = 1 /\ \E d \in watches' : window'[d] = v
    BY <1>1, <1>2, <1>3, <2>2 DEF PicturesFollow, ServersWatched
  <2>3. ASSUME NEW v \in Windows, ~servers[v].created
        PROVE  servers'[v] = NoServer /\ \A d \in client' : window'[d] # v
    <3>1. servers[v] = NoServer /\ \A d \in client : window[d] # v
      BY <2>3 DEF PicturesFollow, ServersWatched
    <3>2. ASSUME NEW d \in client' PROVE window'[d] # v
      <4>1. CASE d \in client
        BY <1>2, <1>3, <3>1, <4>1
      <4>2. CASE d \notin client
        <5>1. d = c /\ servers[w].created
          BY <1>1, <3>2, <4>2
        <5> QED BY <1>3, <2>3, <5>1
      <4> QED BY <4>1, <4>2
    <3> QED BY <1>1, <3>1, <3>2
  <2> QED BY <1>1, <2>1, <2>2, <2>3 DEF ServersWatched
<1>6. ASSUME NEW d \in Channels
      PROVE  Follows(d)'
  <2> SUFFICES ASSUME Streamed(d)'
               PROVE  FollowsServer(servers[window'[d]], inbox[window'[d]],
                                    d \in asking, shown[d])
    BY <1>1 DEF Follows
  <2>1. d \in watches
    BY <1>1 DEF Streamed, Watching
  <2>2. d # c /\ window'[d] = window[d]
    BY <1>2, <1>3, <2>1
  <2>3. Streamed(d)
    <3>1. window[d] \in Windows
      BY <1>2, <2>1 DEF VncInv, RecordsHaveWindows
    <3> QED BY <1>1, <1>4, <2>2, <3>1 DEF Streamed
  <2> QED BY <2>2, <2>3 DEF PicturesFollow, Follows
<1> QED BY <1>5, <1>6 DEF PicturesFollow

LEMMA UnshareFollows ==
  ASSUME VncInv, PicturesFollow, NEW w \in Windows, Unshare(w)
  PROVE  PicturesFollow'
<1>1. /\ known' \subseteq known /\ asking' \subseteq asking
      /\ UNCHANGED <<servers, inbox, window, client, watches, shown>>
  BY DEF Unshare
<1>2. ServersWatched'
  BY <1>1 DEF PicturesFollow, ServersWatched
<1>3. ASSUME NEW d \in Channels
      PROVE  Follows(d)'
  <2>1. Streamed(d)' => Streamed(d)
    BY <1>1 DEF Streamed, Watching
  <2>2. d \in asking' => d \in asking
    BY <1>1
  <2> QED BY <1>1, <2>1, <2>2 DEF PicturesFollow, Follows, FollowsServer
<1> QED BY <1>2, <1>3 DEF PicturesFollow

\* The timer's run: the picture is looked at, a message is taken, and what is new
\* is sent.
LEMMA LookFollows ==
  ASSUME NEW s \in Server, NEW picture \in Contents, NEW q, NEW waits \in BOOLEAN,
         NEW p, FollowsServer(s, q, waits, p)
  PROVE  FollowsServer(Look(s, picture), q, waits, p)
<1> DEFINE l == Look(s, picture)
<1>1. l = s \/ l.modified = TRUE
  BY DEF Look, Server
<1>2. l.requested = s.requested
  BY DEF Look, Server
<1> QED BY <1>1, <1>2 DEF FollowsServer

LEMMA TakeFollows ==
  ASSUME NEW s \in Server, NEW q \in Seq(Messages), q # <<>>,
         NEW waits \in BOOLEAN, NEW p, FollowsServer(s, q, waits, p)
  PROVE  FollowsServer(Take(s, Head(q).op), Tail(q), waits, p)
<1> DEFINE op == Head(q).op
           t == Take(s, op)
<1>1. /\ DOMAIN q = 1 .. Len(q) /\ Len(q) \in Nat
      /\ Head(q) = q[1] /\ DOMAIN Tail(q) = 1 .. Len(q) - 1
      /\ \A i \in 1 .. Len(q) - 1 : Tail(q)[i] = q[i + 1]
  BY QueueEnds
<1> HIDE DEF op
<1>2. /\ t.screenshot = s.screenshot
      /\ s.requested => t.requested
      /\ s.modified => t.modified
      /\ op \in Requests => t.requested
  <2>1. CASE op = "all"
    BY <2>1 DEF Take, Server, Requests
  <2>2. CASE op = "more"
    BY <2>2 DEF Take, Server, Requests
  <2>3. CASE op # "all" /\ op # "more"
    BY <2>3 DEF Take, Server, Requests
  <2> QED BY <2>1, <2>2, <2>3
<1> HIDE DEF t
<1>3. ASSUME waits
      PROVE  t.requested \/ \E i \in DOMAIN Tail(q) : Tail(q)[i].op \in Requests
  <2>1. CASE s.requested
    BY <1>2, <2>1
  <2>2. CASE ~s.requested
    <3>1. PICK i \in DOMAIN q : q[i].op \in Requests
      BY <1>3, <2>2 DEF FollowsServer
    <3>2. CASE i = 1
      BY <1>1, <1>2, <3>1, <3>2 DEF op
    <3>3. CASE i # 1
      <4>1. i - 1 \in DOMAIN Tail(q) /\ Tail(q)[i - 1] = q[i]
        BY <1>1, <3>1, <3>3
      <4> QED BY <3>1, <4>1
    <3> QED BY <3>2, <3>3
  <2> QED BY <2>1, <2>2
<1>4. FollowsServer(t, Tail(q), waits, p)
  BY <1>2, <1>3 DEF FollowsServer
<1> QED BY <1>4 DEF t, op

LEMMA SendFollows ==
  ASSUME VncInv, NEW c \in Channels, c \in watches, Streamed(c),
         NEW w \in Windows, w = window[c], NEW s \in Server, Send(w, s),
         FollowsServer(s, inbox'[w], c \in asking, shown[c])
  PROVE  FollowsServer(servers'[w], inbox'[w], c \in asking', shown'[c])
<1>1. servers \in [Windows -> Server]
      /\ shown \in [Channels -> Contents \union {None}]
  BY DEF VncInv, VncTypeOK
<1>2. CASE s.requested /\ s.modified
  <2> DEFINE r == [s EXCEPT !.requested = FALSE, !.modified = FALSE]
  <2>1. r.screenshot = s.screenshot
    BY DEF Server
  <2>2. servers'[w] = r /\ Deliver(w, s.screenshot)
    BY <1>1, <1>2 DEF Send
  <2> HIDE DEF r
  <2>3. c \notin asking' /\ shown'[c] = s.screenshot
    BY <1>1, <2>2 DEF Deliver, Streamed
  <2> QED BY <2>1, <2>2, <2>3 DEF FollowsServer
<1>3. CASE ~(s.requested /\ s.modified)
  <2>1. servers'[w] = s /\ UNCHANGED <<asking, shown>>
    BY <1>1, <1>3 DEF Send
  <2> QED BY <2>1
<1> QED BY <1>2, <1>3

\* Only the channels of the window are sent anything, and only by its watches.
LEMMA SendOthers ==
  ASSUME VncInv, NEW w \in Windows, NEW s \in Server, Send(w, s),
         NEW d \in Channels
  PROVE  /\ d \notin watches => shown'[d] = shown[d]
         /\ window[d] # w => shown'[d] = shown[d] /\ (d \in asking') = (d \in asking)
<1>1. shown \in [Channels -> Contents \union {None}]
  BY DEF VncInv, VncTypeOK
<1>2. CASE s.requested /\ s.modified
  <2>1. Deliver(w, s.screenshot)
    BY <1>2 DEF Send
  <2>2. CASE UNCHANGED <<shown, asking>>
    BY <2>2
  <2>3. CASE \E c \in Watching(w) : /\ shown' = [shown EXCEPT ![c] = s.screenshot]
                                    /\ asking' = asking \ {c}
    BY <1>1, <2>3 DEF Watching
  <2> QED BY <2>1, <2>2, <2>3 DEF Deliver
<1>3. CASE ~(s.requested /\ s.modified)
  BY <1>3 DEF Send
<1> QED BY <1>2, <1>3

LEMMA TimerFollows ==
  ASSUME VncInv, PicturesFollow, NEW w \in Windows, Timer(w)
  PROVE  PicturesFollow'
<1> DEFINE s == servers[w]
           q == inbox[w]
           l == Look(s, content[w])
<1>1. s \in Server /\ content[w] \in Contents /\ q \in Seq(Messages)
      /\ inbox \in [Windows -> Seq(Messages)]
      /\ servers \in [Windows -> Server] /\ s.timers = s.width
      /\ watches \subseteq client /\ client \subseteq 1 .. highest
  BY DEF VncInv, VncTypeOK, OneTimer
<1>2. s.created
  <2>1. s.timers > 0
    BY DEF Timer
  <2> QED BY <1>1, <2>1 DEF PicturesFollow, ServersWatched, NoServer
<1>3. UNCHANGED <<window, known, client, watches>>
  BY DEF Timer, records
<1>4. l \in Server /\ l.width = s.width /\ l.timers = s.timers
      /\ l.created = s.created
  BY <1>1, LookedAt
<1>5. ProcessEvents(w, l)
  BY DEF Timer, RunLoop
<1>6. PICK r \in Server :
        /\ Send(w, r) /\ r.width = s.width /\ r.created = s.created
        /\ r.timers = s.timers
        /\ \A v \in Windows \ {w} : inbox'[v] = inbox[v]
        /\ \A c \in Channels :
             FollowsServer(l, q, c \in asking, shown[c])
               => FollowsServer(r, inbox'[w], c \in asking, shown[c])
  <2> HIDE DEF l
  <2>1. CASE q = <<>>
    <3>1. Send(w, l) /\ inbox' = inbox
      BY <1>5, <2>1 DEF ProcessEvents
    <3> QED BY <1>4, <3>1
  <2>2. CASE q # <<>>
    <3> DEFINE t == Take(l, Head(q).op)
    <3>1. Send(w, t) /\ inbox' = [inbox EXCEPT ![w] = Tail(q)]
      BY <1>5, <2>2 DEF ProcessEvents
    <3>2. inbox'[w] = Tail(q) /\ \A v \in Windows \ {w} : inbox'[v] = inbox[v]
      BY <1>1, <3>1
    <3>3. t \in Server /\ t.width = l.width /\ t.created = l.created
          /\ t.timers = l.timers
      BY <1>4, TakenIn
    <3>4. ASSUME NEW c \in Channels, FollowsServer(l, q, c \in asking, shown[c])
          PROVE  FollowsServer(t, Tail(q), c \in asking, shown[c])
      <4>1. (c \in asking) \in BOOLEAN
        OBVIOUS
      <4> QED BY <1>1, <1>4, <2>2, <3>4, <4>1, TakeFollows
    <3> HIDE DEF t
    <3> QED BY <1>4, <3>1, <3>2, <3>3, <3>4
  <2> QED BY <2>1, <2>2
<1>7. /\ \A v \in Windows : /\ servers'[v].width = servers[v].width
                            /\ servers'[v].created = servers[v].created
      /\ \A v \in Windows \ {w} : servers'[v] = servers[v]
  <2>1. \A v \in Windows : /\ servers'[v].width = servers[v].width
                           /\ servers'[v].created = servers[v].created
    BY <1>6, SendKeeps
  <2>2. \A v \in Windows \ {w} : servers'[v] = servers[v]
    BY <1>1, <1>6 DEF Send
  <2> QED BY <2>1, <2>2
<1>8. ServersWatched'
  <2>1. \A d \in Channels \ watches' : shown'[d] = None
    BY <1>3, <1>6, SendOthers DEF PicturesFollow, ServersWatched
  <2>2. ASSUME NEW v \in Windows
        PROVE  IF servers'[v].created
               THEN servers'[v].width = 1 /\ \E d \in watches' : window'[d] = v
               ELSE servers'[v] = NoServer /\ \A d \in client' : window'[d] # v
    <3>1. CASE v = w
      BY <1>2, <1>3, <1>7, <3>1 DEF PicturesFollow, ServersWatched
    <3>2. CASE v # w
      BY <1>3, <1>7, <3>2 DEF PicturesFollow, ServersWatched
    <3> QED BY <3>1, <3>2
  <2> QED BY <2>1, <2>2 DEF ServersWatched
<1>9. ASSUME NEW d \in Channels
      PROVE  Follows(d)'
  <2> SUFFICES ASSUME Streamed(d)'
               PROVE  FollowsServer(servers'[window[d]], inbox'[window[d]],
                                    d \in asking', shown'[d])
    BY <1>3 DEF Follows
  <2>1. Streamed(d) /\ d \in watches
    BY <1>3 DEF Streamed, Watching
  <2>2. window[d] \in Windows
    BY <1>1, <2>1 DEF VncInv, RecordsHaveWindows
  <2>3. FollowsServer(servers[window[d]], inbox[window[d]], d \in asking, shown[d])
    BY <2>1 DEF PicturesFollow, Follows
  <2>4. CASE window[d] = w
    <3>1. FollowsServer(l, q, d \in asking, shown[d])
      <4>1. (d \in asking) \in BOOLEAN
        OBVIOUS
      <4> QED BY <1>1, <2>3, <2>4, <4>1, LookFollows
    <3>2. FollowsServer(r, inbox'[w], d \in asking, shown[d])
      BY <1>6, <3>1
    <3> QED BY <1>6, <2>1, <2>4, <3>2, SendFollows
  <2>5. CASE window[d] # w
    <3>1. shown'[d] = shown[d] /\ (d \in asking') = (d \in asking)
      BY <1>6, <2>5, SendOthers
    <3>2. servers'[window[d]] = servers[window[d]] /\ inbox'[window[d]] = inbox[window[d]]
      BY <1>6, <1>7, <2>2, <2>5
    <3> QED BY <2>3, <3>1, <3>2
  <2> QED BY <2>4, <2>5
<1> QED BY <1>8, <1>9 DEF PicturesFollow

\* A request is queued when the viewer begins to wait; other messages are no matter.
LEMMA ViewerFollows ==
  ASSUME VncInv, PicturesFollow, NEW c \in Channels,
         Ask(c) \/ Press(c) \/ Release(c)
  PROVE  PicturesFollow'
<1> DEFINE w == window[c]
           n == Len(inbox[w])
<1>1. PICK op \in {"all", "more", "press", "release"} :
        /\ Message(c, op)
        /\ Ask(c) => op \in Requests
  BY DEF Ask, Press, Release, Requests
<1>2. UNCHANGED <<servers, window, known, client, watches, shown>>
  BY <1>1 DEF Message, records
<1>3. /\ n \in Nat /\ DOMAIN inbox[w] = 1 .. n
      /\ DOMAIN inbox'[w] = 1 .. n + 1
      /\ \A i \in 1 .. n : inbox'[w][i] = inbox[w][i]
      /\ inbox'[w][n + 1] = [op |-> op, from |-> c]
      /\ \A v \in Windows \ {w} : inbox'[v] = inbox[v]
  BY <1>1, MessageQueued
<1> HIDE DEF n
<1>4. asking' = asking \/ (Ask(c) /\ asking' = asking \cup {c})
  BY DEF Ask, Press, Release
<1>5. ServersWatched'
  BY <1>2 DEF PicturesFollow, ServersWatched
<1>6. ASSUME NEW d \in Channels
      PROVE  Follows(d)'
  <2> SUFFICES ASSUME Streamed(d)'
               PROVE  FollowsServer(servers[window[d]], inbox'[window[d]],
                                    d \in asking', shown[d])
    BY <1>2 DEF Follows
  <2>1. Streamed(d) /\ d \in watches
    BY <1>2 DEF Streamed, Watching
  <2>2. window[d] \in Windows
    BY <2>1 DEF VncInv, VncTypeOK, RecordsHaveWindows
  <2>3. FollowsServer(servers[window[d]], inbox[window[d]], d \in asking, shown[d])
    BY <2>1 DEF PicturesFollow, Follows
  <2>4. \A i \in DOMAIN inbox[window[d]] :
          /\ i \in DOMAIN inbox'[window[d]]
          /\ inbox'[window[d]][i] = inbox[window[d]][i]
    <3>1. CASE window[d] = w
      BY <1>3, <3>1
    <3>2. CASE window[d] # w
      <4>1. inbox'[window[d]] = inbox[window[d]]
        BY <1>3, <2>2, <3>2
      <4> QED BY <4>1
    <3> QED BY <3>1, <3>2
  <2>5. CASE d \in asking \/ d \notin asking'
    BY <2>3, <2>4, <2>5 DEF FollowsServer
  <2>6. CASE d \notin asking /\ d \in asking'
    <3>1. d = c /\ op \in Requests
      BY <1>1, <1>4, <2>6
    <3>2. n + 1 \in DOMAIN inbox'[w] /\ inbox'[w][n + 1].op \in Requests
      BY <1>3, <3>1
    <3> QED BY <2>3, <3>1, <3>2 DEF FollowsServer
  <2> QED BY <2>5, <2>6
<1> QED BY <1>5, <1>6 DEF PicturesFollow

LEMMA PicturesFollowStep ==
  ASSUME VncInv, PicturesFollow, [Next]_vars
  PROVE  PicturesFollow'
<1>1. ASSUME NEW w \in Windows, Change(w)
      PROVE  PicturesFollow'
  <2>1. UNCHANGED <<servers, inbox, window, known, client, watches, asking, shown>>
    BY <1>1 DEF Change, records, viewers
  <2> QED BY <2>1 DEF PicturesFollow, ServersWatched, Follows, Streamed, Watching
<1>2. CASE UNCHANGED vars
  BY <1>2 DEF vars, records, viewers, PicturesFollow, ServersWatched, Follows, Streamed,
              Watching
<1>3. ASSUME NEW w \in Windows, Share(w) \/ Unshare(w) \/ Timer(w)
      PROVE  PicturesFollow'
  BY <1>3, ShareFollows, UnshareFollows, TimerFollows
<1>4. ASSUME NEW c \in Channels, Accept(c) \/ Ask(c) \/ Press(c) \/ Release(c)
      PROVE  PicturesFollow'
  BY <1>4, AcceptFollows, ViewerFollows
<1> QED BY <1>1, <1>2, <1>3, <1>4 DEF Next

\* The viewer waits, nothing is on its way to the server, and the timer's next run
\* would find nothing new and send nothing.
NothingToDo(c) ==
  LET w == window[c] IN
  /\ c \in asking /\ inbox[w] = <<>>
  /\ Look(servers[w], content[w]) = servers[w]
  /\ ~(servers[w].requested /\ servers[w].modified)

\* No change of a picture is forgotten (run_rfb_event_loop): the window of a channel
\* that is streamed has its timer, and when neither the timer nor the viewer has
\* anything left to do, what is shown is what the window looks like, up to pictures
\* with one checksum.  It says nothing of a window that is shared again when it has a
\* server, nor of one with two records that are both accepted (handle_message_to_client).
THEOREM NoPictureIsForgotten ==
  Spec => [](\A c \in Channels :
               Streamed(c) =>
                 /\ servers[window[c]].timers = 1
                 /\ NothingToDo(c) =>
                      /\ shown[c] # None
                      /\ Sum[shown[c]] = Sum[content[window[c]]])
<1> DEFINE UpToDate ==
      \A c \in Channels :
        Streamed(c) =>
          /\ servers[window[c]].timers = 1
          /\ NothingToDo(c) => /\ shown[c] # None
                               /\ Sum[shown[c]] = Sum[content[window[c]]]
<1>1. Init => PicturesFollow
  <2> SUFFICES ASSUME Init
               PROVE  PicturesFollow
    OBVIOUS
  <2>1. \A w \in Windows : servers[w] = NoServer /\ ~servers[w].created
    BY DEF Init, NoServer
  <2>2. client = {} /\ watches = {} /\ known = {} /\ \A c \in Channels : shown[c] = None
    BY DEF Init
  <2> QED BY <2>1, <2>2 DEF PicturesFollow, ServersWatched, Follows, Streamed
<1>2. VncInv /\ PicturesFollow => UpToDate
  <2> SUFFICES ASSUME VncInv, PicturesFollow, NEW c \in Channels, Streamed(c)
               PROVE  /\ servers[window[c]].timers = 1
                      /\ NothingToDo(c) => /\ shown[c] # None
                                           /\ Sum[shown[c]] = Sum[content[window[c]]]
    OBVIOUS
  <2> DEFINE w == window[c]
             s == servers[w]
  <2>1. c \in client /\ w \in Windows
    <3>1. c \in watches
      BY DEF Streamed, Watching
    <3> QED BY <3>1 DEF VncInv, VncTypeOK, RecordsHaveWindows
  <2>2. s \in Server /\ content[w] \in Contents /\ s.timers = s.width
    BY <2>1 DEF VncInv, VncTypeOK, OneTimer
  <2>3. s.width = 1
    BY <2>1 DEF PicturesFollow, ServersWatched
  <2>4. FollowsServer(s, inbox[w], c \in asking, shown[c])
    BY DEF PicturesFollow, Follows
  <2>5. ASSUME NothingToDo(c)
        PROVE  shown[c] # None /\ Sum[shown[c]] = Sum[content[w]]
    <3>1. s.requested
      <4>1. DOMAIN inbox[w] = {} /\ c \in asking
        BY <2>5, QueueEnds DEF NothingToDo
      <4> QED BY <2>4, <4>1 DEF FollowsServer
    <3>2. ~s.modified /\ Look(s, content[w]) = s
      BY <2>5, <3>1 DEF NothingToDo
    <3>3. s.screenshot # None /\ Sum[content[w]] = Sum[s.screenshot]
      <4>1. ASSUME ~(s.screenshot # None /\ Sum[content[w]] = Sum[s.screenshot])
            PROVE  FALSE
        <5>1. Look(s, content[w]).modified = TRUE
          BY <2>2, <4>1 DEF Look, Server
        <5> QED BY <3>2, <5>1
      <4> QED BY <4>1
    <3>4. shown[c] = s.screenshot
      BY <2>4, <3>2 DEF FollowsServer
    <3> QED BY <3>3, <3>4
  <2> QED BY <2>2, <2>3, <2>5
<1>3. VncInv /\ PicturesFollow /\ [Next]_vars => PicturesFollow'
  BY PicturesFollowStep
<1> QED BY <1>1, <1>2, <1>3, VncSafe, PTL DEF Spec

=============================================================================
