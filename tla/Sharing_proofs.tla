--------------------------- MODULE Sharing_proofs ---------------------------
(***************************************************************************)
(* Theorems about Sharing, for every set of windows and every bound.       *)
(***************************************************************************)
EXTENDS Sharing, TLAPS

\* Sequences the prover sees best with their elements left abstract.
LEMMA AppendTail ==
  ASSUME NEW S, NEW s \in Seq(S)
  PROVE  /\ \A e \in S : Append(s, e) \in Seq(S)
         /\ s # <<>> =>
              /\ Head(s) \in S
              /\ Tail(s) \in Seq(S)
              /\ \A i \in 1 .. Len(Tail(s)) :
                   i + 1 \in 1 .. Len(s) /\ Tail(s)[i] = s[i + 1]
OBVIOUS

\* An identifier as it travels is a natural number.
LEMMA WireNat ==
  ASSUME NEW c \in Nat
  PROVE  Wire(c) \in Nat
<1> DEFINE K == ByteSize * ByteSize
<1>1. K \in Nat \ {0}
  BY ProtocolAssumption, SMT
<1> HIDE DEF K
<1>2. c % K \in Nat
  BY <1>1, SMT
<1> QED BY <1>2 DEF Wire, K

\* The blocks the plugin writes are blocks of the protocol.
LEMMA BlocksDown ==
  /\ \A op \in {"OPEN", "CLOSE", "NAME", "TYPE", "MOUSE"}, c \in Nat :
       About(op, c) \in DownBlocks
  /\ \A c \in Nat, w \in Windows :
       Rfb(c, w) \in DownBlocks /\ Empty(c, w) \in DownBlocks
  /\ Hide \in DownBlocks /\ Avatar \in DownBlocks /\ Torn \in DownBlocks
<1>1. \A op \in {"OPEN", "CLOSE", "NAME", "TYPE", "MOUSE"}, c \in Nat :
        About(op, c) \in DownBlocks
  BY WireNat DEF About, DownBlocks
<1>2. \A c \in Nat, w \in Windows :
        Rfb(c, w) \in DownBlocks /\ Empty(c, w) \in DownBlocks
  BY WireNat DEF Rfb, Empty, DownBlocks
<1>3. Hide \in DownBlocks /\ Avatar \in DownBlocks /\ Torn \in DownBlocks
  BY DEF Hide, Avatar, Torn, DownBlocks
<1> QED BY <1>1, <1>2, <1>3

\* What a write leaves in the socket: what was there, and perhaps the block or
\* a torn one behind it.
LEMMA WriteEffect ==
  ASSUME NEW q \in Seq(DownBlocks), NEW block \in DownBlocks,
         NEW r \in AfterWrite(q, block)
  PROVE  /\ r \in Seq(DownBlocks)
         /\ \A i \in 1 .. Len(r) :
              \/ r[i] \in {block, Torn}
              \/ i \in 1 .. Len(q) /\ r[i] = q[i]
<1>1. r \in {q, Append(q, block), Append(q, Torn)}
  BY DEF AfterWrite
<1>2. Torn \in DownBlocks
  BY BlocksDown
<1> QED BY <1>1, <1>2

\* Every block found in a tube after a step was there before, at the same
\* place, or is one of the given ones, or a torn one, on the current tube.
NewBlocks(blocks) ==
  /\ down' \in [Tubes -> Seq(DownBlocks)]
  /\ \A t \in Tubes \ {bottom} : down'[t] = down[t]
  /\ \A t \in Tubes : \A i \in 1 .. Len(down'[t]) :
       \/ down'[t][i] \in blocks \cup {Torn}
       \/ i \in 1 .. Len(down[t]) /\ down'[t][i] = down[t][i]

LEMMA SendEffect ==
  ASSUME TypeOK, NEW block \in DownBlocks, Send(block)
  PROVE  NewBlocks({block})
<1>1. CASE bottom = 0
  BY <1>1 DEF Send, NewBlocks, TypeOK
<1>2. CASE bottom # 0
  <2>1. bottom \in Tubes /\ down[bottom] \in Seq(DownBlocks)
    BY <1>2, SharingAssumption DEF TypeOK, Tubes
  <2>2. PICK q \in AfterWrite(down[bottom], block) :
          down' = [down EXCEPT ![bottom] = q]
    BY <1>2 DEF Send
  <2>3. q \in Seq(DownBlocks)
    BY <2>1, WriteEffect
  <2>4. \A i \in 1 .. Len(q) :
          \/ q[i] \in {block, Torn}
          \/ i \in 1 .. Len(down[bottom]) /\ q[i] = down[bottom][i]
    BY <2>1, WriteEffect
  <2>5. down \in [Tubes -> Seq(DownBlocks)]
    BY DEF TypeOK
  <2>6. down' \in [Tubes -> Seq(DownBlocks)]
    BY <2>2, <2>3, <2>5
  <2>7. \A t \in Tubes : down'[t] = IF t = bottom THEN q ELSE down[t]
    BY <2>2, <2>5
  <2> QED BY <2>4, <2>6, <2>7 DEF NewBlocks
<1> QED BY <1>1, <1>2

LEMMA SendBothEffect ==
  ASSUME TypeOK, NEW first \in DownBlocks, NEW second \in DownBlocks,
         SendBoth(first, second)
  PROVE  NewBlocks({first, second})
<1>1. CASE bottom = 0
  BY <1>1 DEF SendBoth, NewBlocks, TypeOK
<1>2. CASE bottom # 0
  <2>1. bottom \in Tubes /\ down[bottom] \in Seq(DownBlocks)
    BY <1>2, SharingAssumption DEF TypeOK, Tubes
  <2>2. PICK q \in AfterWrite(down[bottom], first) :
          \E r \in AfterWrite(q, second) : down' = [down EXCEPT ![bottom] = r]
    BY <1>2 DEF SendBoth
  <2>3. q \in Seq(DownBlocks)
    BY <2>1, WriteEffect
  <2>4. PICK r \in AfterWrite(q, second) : down' = [down EXCEPT ![bottom] = r]
    BY <2>2
  <2>5. r \in Seq(DownBlocks)
    BY <2>3, WriteEffect
  <2>6. \A i \in 1 .. Len(q) :
          \/ q[i] \in {first, Torn}
          \/ i \in 1 .. Len(down[bottom]) /\ q[i] = down[bottom][i]
    BY <2>1, WriteEffect
  <2>7. \A i \in 1 .. Len(r) :
          \/ r[i] \in {second, Torn}
          \/ i \in 1 .. Len(q) /\ r[i] = q[i]
    BY <2>3, WriteEffect
  <2>8. down \in [Tubes -> Seq(DownBlocks)]
    BY DEF TypeOK
  <2>9. \A i \in 1 .. Len(r) :
          \/ r[i] \in {first, second, Torn}
          \/ i \in 1 .. Len(down[bottom]) /\ r[i] = down[bottom][i]
    BY <2>6, <2>7
  <2>10. down' \in [Tubes -> Seq(DownBlocks)]
    BY <2>4, <2>5, <2>8
  <2>11. \A t \in Tubes : down'[t] = IF t = bottom THEN r ELSE down[t]
    BY <2>4, <2>8
  <2> QED BY <2>9, <2>10, <2>11 DEF NewBlocks
<1> QED BY <1>1, <1>2

\* A step that leaves the tubes alone brings no new blocks.
LEMMA NothingSent ==
  ASSUME TypeOK, UNCHANGED down, NEW blocks
  PROVE  NewBlocks(blocks)
BY DEF NewBlocks, TypeOK

-----------------------------------------------------------------------------
(* Type correctness, one lemma per group of actions.                       *)

LEMMA InitType == Init => TypeOK
BY ProtocolAssumption, SharingAssumption
   DEF Init, TypeOK, Tubes, Ids, Fates, XEvents, Absent

\* The types of what share_window, unshare_window and set_sharing_state touch.
LEMMA ShareWindowType ==
  ASSUME TypeOK, NEW w \in Windows, ShareWindow(w)
  PROVE  /\ result' \in [Windows -> {Absent, 100, 102, 103, 301}]
         /\ highest' \in 0 .. MaxShares
         /\ window' \in [Ids -> Windows \cup {NoWindow}]
         /\ client' \subseteq Ids
         /\ forwarded' \subseteq Ids
         /\ byX11' \in [Windows -> 0 .. MaxShares]
         /\ pending' \subseteq Ids
         /\ NewBlocks({About("OPEN", highest + 1)})
<1>1. highest + 1 \in Ids
  BY ProtocolAssumption DEF ShareWindow, TypeOK, Ids
<1>2. About("OPEN", highest + 1) \in DownBlocks
  BY <1>1, BlocksDown DEF Ids
<1>3. NewBlocks({About("OPEN", highest + 1)})
  BY <1>2, SendEffect, NothingSent DEF ShareWindow
<1>4. Register(w, highest + 1)
  BY DEF ShareWindow
<1>5. /\ highest' \in 0 .. MaxShares
      /\ window' \in [Ids -> Windows \cup {NoWindow}]
      /\ client' \subseteq Ids
      /\ forwarded' \subseteq Ids
      /\ byX11' \in [Windows -> 0 .. MaxShares]
  BY <1>1, <1>4, ProtocolAssumption DEF Register, TypeOK, Ids
<1>6. /\ result' \in [Windows -> {Absent, 100, 102, 103, 301}]
      /\ pending' \subseteq Ids
  BY <1>1 DEF ShareWindow, SetResult, TypeOK
<1> QED BY <1>3, <1>5, <1>6

LEMMA UnshareWindowType ==
  ASSUME TypeOK, NEW w \in Windows, UnshareWindow(w)
  PROVE  /\ forwarded' \subseteq Ids
         /\ byX11' \in [Windows -> 0 .. MaxShares]
         /\ NewBlocks({About("CLOSE", byX11[w])})
<1>1. byX11[w] \in Nat
  BY ProtocolAssumption DEF TypeOK
<1>2. About("CLOSE", byX11[w]) \in DownBlocks
  BY <1>1, BlocksDown
<1>3. NewBlocks({About("CLOSE", byX11[w])})
  BY <1>2, SendEffect, NothingSent DEF UnshareWindow
<1>4. /\ forwarded' = forwarded \/ forwarded' = forwarded \ {byX11[w]}
      /\ byX11' = byX11 \/ byX11' = [byX11 EXCEPT ![w] = 0]
  BY DEF UnshareWindow
<1>5. 0 \in 0 .. MaxShares
  BY ProtocolAssumption
<1>6. forwarded \subseteq Ids /\ byX11 \in [Windows -> 0 .. MaxShares]
  BY DEF TypeOK
<1>7. byX11' \in [Windows -> 0 .. MaxShares]
  BY <1>4, <1>5, <1>6
<1> QED BY <1>3, <1>4, <1>6, <1>7

LEMMA SetSharingStateType ==
  ASSUME TypeOK, NEW w \in Windows, NEW state \in 0 .. 3,
         SetSharingState(w, state),
         UNCHANGED <<shareProp, transientFor, motionMask, fate, peerVars>>,
         xevents' \in Seq(XEvents)
  PROVE  TypeOK'
<1>1. CASE state \in {2, 3}
  <2>1. /\ result' = [result EXCEPT ![w] = 100 + state]
        /\ UNCHANGED <<recordVars, vncVars, tubeVars, down>>
    BY <1>1 DEF SetSharingState, SetResult
  <2>2. 100 + state \in {Absent, 100, 102, 103, 301}
    BY <1>1
  <2>3. result' \in [Windows -> {Absent, 100, 102, 103, 301}]
    BY <2>1, <2>2 DEF TypeOK
  <2> QED BY <2>1, <2>3 DEF TypeOK, recordVars, vncVars, tubeVars, peerVars
<1>2. CASE state = 1
  <2>1. ShareWindow(w)
    BY <1>2 DEF SetSharingState
  <2>2. UNCHANGED <<servers, hungUp, watches, accepted, bottom, sync, tubes, up>>
    BY <2>1 DEF ShareWindow, vncVars
  <2>3. UNCHANGED <<shareProp, transientFor, motionMask, fate, peerOpen, peerOffered>>
    BY DEF peerVars
  <2>4. /\ result' \in [Windows -> {Absent, 100, 102, 103, 301}]
        /\ highest' \in 0 .. MaxShares /\ window' \in [Ids -> Windows \cup {NoWindow}]
        /\ client' \subseteq Ids /\ forwarded' \subseteq Ids
        /\ byX11' \in [Windows -> 0 .. MaxShares] /\ pending' \subseteq Ids
        /\ down' \in [Tubes -> Seq(DownBlocks)]
    BY <2>1, ShareWindowType DEF NewBlocks
  <2> QED BY <2>2, <2>3, <2>4 DEF TypeOK
<1>3. CASE state = 0
  <2>1. UnshareWindow(w) /\ SetResult(w, 100)
    BY <1>3 DEF SetSharingState
  <2>2. UNCHANGED <<highest, window, client, vncVars, tubeVars>>
    BY <2>1 DEF UnshareWindow
  <2>3. result' \in [Windows -> {Absent, 100, 102, 103, 301}]
    BY <2>1 DEF SetResult, TypeOK
  <2> QED BY <2>1, <2>2, <2>3, UnshareWindowType
       DEF TypeOK, NewBlocks, vncVars, tubeVars, peerVars
<1> QED BY <1>1, <1>2, <1>3

LEMMA EventsType ==
  ASSUME TypeOK, NEW type, NextEvent(type)
  PROVE  /\ xevents' \in Seq(XEvents)
         /\ Head(xevents).win \in Windows
<1>1. xevents \in Seq(XEvents) /\ xevents # <<>>
  BY DEF NextEvent, TypeOK
<1>2. Head(xevents) \in XEvents /\ Tail(xevents) \in Seq(XEvents)
  BY <1>1
<1>3. xevents' = Tail(xevents)
  BY DEF NextEvent
<1>4. \A e \in XEvents : e.win \in Windows
  BY DEF XEvents
<1> QED BY <1>2, <1>3, <1>4

LEMMA XEventFilterType ==
  ASSUME TypeOK, XEventFilter
  PROVE  TypeOK'
<1> DEFINE w == Head(xevents).win
<1>1. CASE PropertyChanged
  <2>1. w \in Windows /\ xevents' \in Seq(XEvents)
    BY <1>1, EventsType DEF PropertyChanged
  <2>2. CASE shareProp[w] = Absent
    <3>1. fate' = "property"
      BY <1>1, <2>2 DEF PropertyChanged, Abort
    <3>2. UNCHANGED <<shareProp, result, transientFor, motionMask, recordVars,
                      vncVars, tubeVars, down, peerVars>>
      BY <1>1, <2>2 DEF PropertyChanged, Abort
    <3> QED BY <2>1, <3>1, <3>2 DEF TypeOK, Fates, recordVars, vncVars,
         tubeVars, peerVars
  <2>3. CASE shareProp[w] # Absent
    <3>1. shareProp[w] \in 0 .. 3
      BY <2>1, <2>3 DEF TypeOK
    <3> QED BY <1>1, <2>1, <2>3, <3>1, SetSharingStateType
         DEF PropertyChanged, peerVars
  <2> QED BY <2>2, <2>3
<1>2. CASE PropertyDeleted
  <2>1. w \in Windows /\ xevents' \in Seq(XEvents)
    BY <1>2, EventsType DEF PropertyDeleted
  <2> QED BY <1>2, <2>1, SetSharingStateType DEF PropertyDeleted, peerVars
<1>3. CASE WindowMapped
  <2>1. w \in Windows /\ xevents' \in Seq(XEvents)
    BY <1>3, EventsType DEF WindowMapped
  <2>2. UNCHANGED <<shareProp, motionMask, fate, peerOpen, peerOffered>>
    BY <1>3 DEF WindowMapped, peerVars
  <2>3. \/ /\ transientFor' = [transientFor EXCEPT ![w] = Overwritten]
           /\ ShareWindow(w)
        \/ UNCHANGED <<transientFor, result, recordVars, vncVars, tubeVars,
                       down>>
    BY <1>3 DEF WindowMapped
  <2>4. CASE /\ transientFor' = [transientFor EXCEPT ![w] = Overwritten]
             /\ ShareWindow(w)
    <3>1. UNCHANGED <<servers, hungUp, watches, accepted, bottom, sync, tubes, up>>
      BY <2>4 DEF ShareWindow, vncVars
    <3>2. transientFor' \in [Windows -> Windows \cup {NoWindow, Overwritten}]
      BY <2>4 DEF TypeOK
    <3>3. /\ result' \in [Windows -> {Absent, 100, 102, 103, 301}]
          /\ highest' \in 0 .. MaxShares /\ window' \in [Ids -> Windows \cup {NoWindow}]
          /\ client' \subseteq Ids /\ forwarded' \subseteq Ids
          /\ byX11' \in [Windows -> 0 .. MaxShares] /\ pending' \subseteq Ids
          /\ down' \in [Tubes -> Seq(DownBlocks)]
      BY <2>1, <2>4, ShareWindowType DEF NewBlocks
    <3> QED BY <2>1, <2>2, <3>1, <3>2, <3>3 DEF TypeOK
  <2>5. CASE UNCHANGED <<transientFor, result, recordVars, vncVars, tubeVars,
                         down>>
    BY <2>1, <2>2, <2>5 DEF TypeOK, recordVars, vncVars, tubeVars
  <2> QED BY <2>3, <2>4, <2>5
<1>4. ASSUME NEW type, NEW block \in DownBlocks, ReportPointer(type, block)
      PROVE  TypeOK'
  <2>1. xevents' \in Seq(XEvents)
    BY <1>4, EventsType DEF ReportPointer
  <2>2. NewBlocks({block})
    BY <1>4, SendEffect, NothingSent DEF ReportPointer
  <2> QED BY <1>4, <2>1, <2>2 DEF ReportPointer, NewBlocks, TypeOK, recordVars,
       vncVars, tubeVars, peerVars
<1>5. CASE PointerMoved
  <2>1. w \in Windows
    BY <1>5, EventsType DEF PointerMoved, ReportPointer
  <2>2. About("MOUSE", byX11[w]) \in DownBlocks
    BY <2>1, ProtocolAssumption, BlocksDown DEF TypeOK
  <2> QED BY <1>4, <1>5, <2>2 DEF PointerMoved
<1>6. CASE PointerLeft
  BY <1>4, <1>6, BlocksDown DEF PointerLeft
<1> QED BY <1>1, <1>2, <1>3, <1>5, <1>6 DEF XEventFilter

LEMMA TubeReadyType ==
  ASSUME TypeOK, NEW c \in Ids, TubeReady(c)
  PROVE  TypeOK'
<1> DEFINE t == tubes + 1
<1>1. t \in Tubes /\ t \in 0 .. MaxTubes
  BY SharingAssumption DEF TubeReady, TypeOK, Tubes
<1>2. PICK id \in IF c \in forwarded THEN {c} ELSE StaleIds :
        down' = [down EXCEPT ![t] = <<About("OPEN", id)>>]
  BY DEF TubeReady
<1>3. id \in Nat
  BY SharingAssumption DEF Ids
<1>4. <<About("OPEN", id)>> \in Seq(DownBlocks)
  BY <1>3, BlocksDown
<1>5. down' \in [Tubes -> Seq(DownBlocks)]
  BY <1>1, <1>2, <1>4 DEF TypeOK
<1>6. <<Header, Avatar>> \in Seq(UpBlocks)
  BY DEF UpBlocks
<1>7. up' \in [Tubes -> Seq(UpBlocks)]
  BY <1>1, <1>6 DEF TubeReady, TypeOK
<1>8. result' \in [Windows -> {Absent, 100, 102, 103, 301}]
  BY DEF TubeReady, SetResult, TypeOK
<1>9. /\ pending' \subseteq Ids
      /\ bottom' \in 0 .. MaxTubes
      /\ tubes' \in 0 .. MaxTubes
  BY <1>1 DEF TubeReady, TypeOK
<1>10. UNCHANGED <<shareProp, transientFor, motionMask, xevents, fate, sync,
                   recordVars, vncVars, peerVars>>
  BY DEF TubeReady
<1> QED BY <1>5, <1>7, <1>8, <1>9, <1>10
     DEF TypeOK, recordVars, vncVars, peerVars

LEMMA TubeFailedType ==
  ASSUME TypeOK, NEW c \in Ids, TubeFailed(c)
  PROVE  TypeOK'
<1>1. result' \in [Windows -> {Absent, 100, 102, 103, 301}]
  BY DEF TubeFailed, SetResult, TypeOK
<1>2. pending' \subseteq Ids
  BY DEF TubeFailed, TypeOK
<1>3. UNCHANGED <<shareProp, transientFor, motionMask, xevents, fate, bottom,
                  sync, tubes, up, recordVars, vncVars, down, peerVars>>
  BY DEF TubeFailed
<1> QED BY <1>1, <1>2, <1>3 DEF TypeOK, recordVars, vncVars, peerVars

-----------------------------------------------------------------------------
(* What an ACCEPT and a watch touch is only of the right type because the  *)
(* records they are about have been allocated to a window.                 *)

\* Records are allocated in the order of their identifiers, and everything
\* that refers to a record refers to one that has been allocated.
Records ==
  /\ \A c \in Ids : c <= highest <=> window[c] # NoWindow
  /\ forwarded \cup pending \cup accepted \subseteq 1 .. highest
  /\ watches \subseteq accepted

\* The records referred to are records of windows.
LEMMA RecordsOfWindows ==
  ASSUME TypeOK, Records
  PROVE  \A c \in forwarded \cup pending \cup accepted \cup watches :
           c \in Ids /\ window[c] \in Windows
<1>1. \A c \in 1 .. highest : c \in Ids /\ c <= highest
  BY ProtocolAssumption DEF TypeOK, Ids
<1>2. \A c \in Ids : window[c] \in Windows \cup {NoWindow}
  BY DEF TypeOK
<1>3. \A c \in 1 .. highest : c \in Ids /\ window[c] \in Windows
  BY <1>1, <1>2 DEF Records
<1> QED BY <1>3 DEF Records

LEMMA HandleAcceptEffect ==
  ASSUME TypeOK, Records, NEW c, HandleAccept(c)
  PROVE  /\ motionMask' \subseteq Windows
         /\ fate' \in Fates
         /\ client' \subseteq Ids
         /\ servers' \subseteq Windows
         /\ hungUp' \subseteq servers'
         /\ \/ UNCHANGED <<watches, accepted>>
            \/ /\ c \in forwarded
               /\ watches' = watches \cup {c}
               /\ accepted' = accepted \cup {c}
         /\ NewBlocks({About("NAME", c), About("TYPE", c)})
<1>1. CASE c \notin forwarded \/ c \in client
  <2>1. UNCHANGED <<motionMask, fate, client, vncVars, down>>
    BY <1>1 DEF HandleAccept
  <2> QED BY <2>1, NothingSent DEF TypeOK, vncVars
<1>2. CASE c \in forwarded /\ c \notin client
  <2> DEFINE w == window[c]
  <2>1. c \in Ids /\ w \in Windows
    BY <1>2, RecordsOfWindows
  <2>2. /\ servers' = servers \cup {w}
        /\ client' = client \cup {c}
        /\ watches' = watches \cup {c}
        /\ accepted' = accepted \cup {c}
        /\ hungUp' = hungUp
    BY <1>2 DEF HandleAccept
  <2>3. \/ /\ SendBoth(About("NAME", c), About("TYPE", c))
           /\ motionMask' = motionMask \cup {w}
           /\ UNCHANGED fate
        \/ /\ fate' = "name"
           /\ UNCHANGED <<motionMask, down>>
    BY <1>2 DEF HandleAccept
  <2>4. About("NAME", c) \in DownBlocks /\ About("TYPE", c) \in DownBlocks
    BY <2>1, BlocksDown DEF Ids
  <2>5. NewBlocks({About("NAME", c), About("TYPE", c)})
    BY <2>3, <2>4, SendBothEffect, NothingSent
  <2>6. motionMask \subseteq Windows /\ fate \in Fates
    BY DEF TypeOK
  <2>7. "name" \in Fates
    BY DEF Fates
  <2>8. /\ client' \subseteq Ids
        /\ servers' \subseteq Windows
        /\ hungUp' \subseteq servers'
    BY <2>1, <2>2 DEF TypeOK
  <2>9. motionMask' \subseteq Windows
    BY <2>1, <2>3, <2>6
  <2>10. fate' \in Fates
    BY <2>3, <2>6, <2>7
  <2> QED BY <1>2, <2>2, <2>5, <2>8, <2>9, <2>10
<1> QED BY <1>1, <1>2

\* A record is accepted by the ACCEPT of its channel, or by a parser out of step.
LEMMA HandleBlockEffect ==
  ASSUME TypeOK, Records, NEW block, HandleBlock(block)
  PROVE  /\ motionMask' \subseteq Windows
         /\ fate' \in Fates
         /\ client' \subseteq Ids
         /\ servers' \subseteq Windows
         /\ hungUp' \subseteq servers'
         /\ sync' \in {"header", "blocks", "lost"}
         /\ \/ UNCHANGED <<watches, accepted>>
            \/ \E c \in forwarded :
                 /\ \/ sync = "lost" /\ sync' = "lost"
                    \/ block.op = "ACCEPT" /\ c = Decoded(block.id)
                 /\ watches' = watches \cup {c}
                 /\ accepted' = accepted \cup {c}
         /\ sync = "lost" => sync' = "lost"
         /\ down' \in [Tubes -> Seq(DownBlocks)]
         /\ \A t \in Tubes \ {bottom} : down'[t] = down[t]
         /\ \A t \in Tubes : \A i \in 1 .. Len(down'[t]) :
              \/ down'[t][i].op \notin {"RFB", "EMPTY"}
              \/ i \in 1 .. Len(down[t]) /\ down'[t][i] = down[t][i]
<1>1. ASSUME NEW c,
             HandleAccept(c),
             UNCHANGED sync,
             sync = "lost" \/ (block.op = "ACCEPT" /\ c = Decoded(block.id))
      PROVE  /\ motionMask' \subseteq Windows
             /\ fate' \in Fates
             /\ client' \subseteq Ids
             /\ servers' \subseteq Windows
             /\ hungUp' \subseteq servers'
             /\ sync' \in {"header", "blocks", "lost"}
             /\ \/ UNCHANGED <<watches, accepted>>
                \/ \E d \in forwarded :
                     /\ \/ sync = "lost" /\ sync' = "lost"
                        \/ block.op = "ACCEPT" /\ d = Decoded(block.id)
                     /\ watches' = watches \cup {d}
                     /\ accepted' = accepted \cup {d}
             /\ sync = "lost" => sync' = "lost"
             /\ NewBlocks({About("NAME", c), About("TYPE", c)})
  <2>1. sync \in {"header", "blocks", "lost"}
    BY DEF TypeOK
  <2>2. \/ UNCHANGED <<watches, accepted>>
        \/ /\ c \in forwarded
           /\ watches' = watches \cup {c}
           /\ accepted' = accepted \cup {c}
    BY <1>1, HandleAcceptEffect
  <2>3. \/ UNCHANGED <<watches, accepted>>
        \/ \E d \in forwarded :
             /\ \/ sync = "lost" /\ sync' = "lost"
                \/ block.op = "ACCEPT" /\ d = Decoded(block.id)
             /\ watches' = watches \cup {d}
             /\ accepted' = accepted \cup {d}
    BY <1>1, <2>2
  <2> QED BY <1>1, <2>1, <2>3, HandleAcceptEffect
<1>2. ASSUME NEW c, NewBlocks({About("NAME", c), About("TYPE", c)})
      PROVE  /\ down' \in [Tubes -> Seq(DownBlocks)]
             /\ \A t \in Tubes \ {bottom} : down'[t] = down[t]
             /\ \A t \in Tubes : \A i \in 1 .. Len(down'[t]) :
                  \/ down'[t][i].op \notin {"RFB", "EMPTY"}
                  \/ i \in 1 .. Len(down[t]) /\ down'[t][i] = down[t][i]
  <2>1. \A b \in {About("NAME", c), About("TYPE", c), Torn} :
          b.op \notin {"RFB", "EMPTY"}
    BY DEF About, Torn
  <2> QED BY <1>2, <2>1 DEF NewBlocks
<1>3. CASE block.op = "ACCEPT" /\ HandleAccept(Decoded(block.id)) /\ UNCHANGED sync
  BY <1>1, <1>2, <1>3
<1>4. CASE /\ Send(Avatar)
           /\ sync = "header"
           /\ sync' = "blocks"
           /\ UNCHANGED <<motionMask, fate, client, vncVars>>
  <2>1. NewBlocks({Avatar})
    BY <1>4, SendEffect, BlocksDown
  <2>2. \A b \in {Avatar, Torn} : b.op \notin {"RFB", "EMPTY"}
    BY DEF Avatar, Torn
  <2>3. UNCHANGED <<motionMask, fate, client, servers, hungUp, watches, accepted>>
    BY <1>4 DEF vncVars
  <2>4. /\ motionMask' \subseteq Windows /\ fate' \in Fates /\ client' \subseteq Ids
        /\ servers' \subseteq Windows /\ hungUp' \subseteq servers'
    BY <2>3 DEF TypeOK
  <2>5. sync' \in {"header", "blocks", "lost"} /\ sync # "lost"
    BY <1>4
  <2> QED BY <2>1, <2>2, <2>3, <2>4, <2>5 DEF NewBlocks
<1>5. CASE /\ UNCHANGED <<motionMask, client, vncVars, down>>
           /\ fate' \in {fate, "memory"}
           /\ sync' = "lost" \/ sync' = sync
  <2>1. fate' \in Fates
    BY <1>5 DEF TypeOK, Fates
  <2> QED BY <1>5, <2>1 DEF TypeOK, vncVars
<1>6. CASE sync = "lost" /\ HandleNonsense /\ UNCHANGED sync
  <2>1. CASE UNCHANGED <<motionMask, fate, client, vncVars, down>>
    BY <1>5, <1>6, <2>1
  <2>2. CASE \E c \in Ids : HandleAccept(c)
    BY <1>1, <1>2, <1>6, <2>2
  <2>3. CASE fate' = "memory" /\ UNCHANGED <<motionMask, client, vncVars, down>>
    BY <1>5, <1>6, <2>3
  <2> QED BY <1>6, <2>1, <2>2, <2>3 DEF HandleNonsense
<1>7. CASE /\ sync = "blocks"
           /\ sync' = "lost"
           /\ UNCHANGED <<motionMask, fate, client, vncVars, down>>
  BY <1>5, <1>7
<1>8. CASE UNCHANGED <<motionMask, fate, client, vncVars, down, sync>>
  BY <1>5, <1>8
<1> QED BY <1>3, <1>4, <1>6, <1>7, <1>8 DEF HandleBlock

LEMMA CopyBottomToClientType ==
  ASSUME TypeOK, Records, NEW t \in Tubes, CopyBottomToClient(t)
  PROVE  TypeOK'
<1>1. UNCHANGED <<shareProp, result, transientFor, xevents, peerOpen,
                  peerOffered>>
  BY DEF CopyBottomToClient, peerVars
<1>2. CASE Abort("empty") /\ UNCHANGED motionMask
  <2>1. fate' = "empty"
    BY <1>2 DEF Abort
  <2>2. UNCHANGED <<recordVars, vncVars, tubeVars, down>>
    BY <1>2 DEF Abort
  <2> QED BY <1>1, <1>2, <2>1, <2>2 DEF TypeOK, Fates, recordVars, vncVars,
       tubeVars
<1>3. CASE /\ up[bottom] # <<>>
           /\ HandleBlock(Head(up[bottom]))
           /\ up' = [up EXCEPT ![bottom] = Tail(@)]
           /\ UNCHANGED <<highest, window, forwarded, byX11, pending, bottom,
                          tubes>>
  <2> DEFINE block == Head(up[bottom])
  <2>1. /\ motionMask' \subseteq Windows
        /\ fate' \in Fates
        /\ client' \subseteq Ids
        /\ servers' \subseteq Windows
        /\ hungUp' \subseteq servers'
        /\ sync' \in {"header", "blocks", "lost"}
        /\ down' \in [Tubes -> Seq(DownBlocks)]
    BY <1>3, HandleBlockEffect
  <2>2. \/ UNCHANGED <<watches, accepted>>
        \/ \E c \in forwarded :
             /\ watches' = watches \cup {c}
             /\ accepted' = accepted \cup {c}
    BY <1>3, HandleBlockEffect
  <2>3. watches' \subseteq Ids /\ accepted' \subseteq Ids
    BY <2>2 DEF TypeOK
  <2>4. up' \in [Tubes -> Seq(UpBlocks)]
    <3>1. up \in [Tubes -> Seq(UpBlocks)]
      BY DEF TypeOK
    <3>2. CASE bottom \in Tubes
      <4>1. up[bottom] \in Seq(UpBlocks)
        BY <3>1, <3>2
      <4>2. Tail(up[bottom]) \in Seq(UpBlocks)
        BY <1>3, <4>1
      <4> QED BY <1>3, <3>1, <4>2
    <3>3. CASE bottom \notin Tubes
      BY <1>3, <3>1, <3>3
    <3> QED BY <3>2, <3>3
  <2> QED BY <1>1, <1>3, <2>1, <2>3, <2>4 DEF TypeOK
<1> QED BY <1>2, <1>3 DEF CopyBottomToClient

\* Two bytes hold every identifier.
FewIds == MaxShares < ByteSize * ByteSize

LEMMA ChannelIsWire ==
  ASSUME FewIds, NEW c \in Ids
  PROVE  Wire(c) = c
<1> DEFINE m == ByteSize * ByteSize
<1>1. m \in Nat /\ c \in Nat /\ c < m
  BY ProtocolAssumption DEF FewIds, Ids
<1> HIDE DEF m
<1>2. c % m = c
  BY <1>1
<1> QED BY <1>2 DEF Wire, m

\* A watch writes nothing but a block with bytes of its own record's window, and
\* on channel 0 only if the record has been freed.
LEMMA CopyClientToBottomEffect ==
  ASSUME TypeOK, Records, NEW c \in Ids, CopyClientToBottom(c)
  PROVE  /\ c \in watches
         /\ window[c] \in Windows
         /\ fate' \in Fates
         /\ UNCHANGED <<xvars, recordVars, vncVars, tubeVars, peerVars>>
         /\ down' \in [Tubes -> Seq(DownBlocks)]
         /\ \A t \in Tubes \ {bottom} : down'[t] = down[t]
         /\ \A t \in Tubes : \A i \in 1 .. Len(down'[t]) :
              \/ down'[t][i] = Torn
              \/ /\ down'[t][i].op \in {"RFB", "EMPTY"}
                 /\ down'[t][i].win = window[c]
                 /\ FewIds /\ down'[t][i].id = 0 => c \notin forwarded
              \/ i \in 1 .. Len(down[t]) /\ down'[t][i] = down[t][i]
<1>1. c \in watches
  BY DEF CopyClientToBottom
<1>2. window[c] \in Windows
  BY <1>1, RecordsOfWindows
<1>3. UNCHANGED <<xvars, recordVars, vncVars, tubeVars, peerVars>>
  BY DEF CopyClientToBottom
<1>4. ASSUME NEW id \in Nat, Send(FromServer(c, id))
      PROVE  NewBlocks({Rfb(id, window[c]), Empty(id, window[c])})
  <2>1. FromServer(c, id) \in {Rfb(id, window[c]), Empty(id, window[c])}
    BY DEF FromServer
  <2>2. FromServer(c, id) \in DownBlocks
    BY <1>2, <2>1, BlocksDown
  <2>3. NewBlocks({FromServer(c, id)})
    BY <1>4, <2>2, SendEffect
  <2> QED BY <2>1, <2>3 DEF NewBlocks
<1>5. \E id \in Nat : /\ NewBlocks({Rfb(id, window[c]), Empty(id, window[c])})
                      /\ c \in forwarded => id = c
  <2>1. CASE Send(FromServer(c, c))
    BY <1>4, <2>1 DEF Ids
  <2>2. CASE c \notin forwarded /\ \E id \in StaleIds : Send(FromServer(c, id))
    BY <1>4, <2>2, SharingAssumption
  <2>3. CASE UNCHANGED down
    <3>1. c \in Nat /\ NewBlocks({Rfb(c, window[c]), Empty(c, window[c])})
      BY <2>3, NothingSent DEF Ids
    <3> QED BY <3>1
  <2> QED BY <2>1, <2>2, <2>3 DEF CopyClientToBottom
<1>6. PICK id \in Nat : /\ NewBlocks({Rfb(id, window[c]), Empty(id, window[c])})
                        /\ c \in forwarded => id = c
  BY <1>5
<1>9. \A b \in {Rfb(id, window[c]), Empty(id, window[c])} :
        /\ b.op \in {"RFB", "EMPTY"}
        /\ b.win = window[c]
        /\ FewIds /\ b.id = 0 => c \notin forwarded
  <2>1. FewIds => Wire(c) # 0
    BY ChannelIsWire DEF Ids
  <2>2. \A b \in {Rfb(id, window[c]), Empty(id, window[c])} :
          b.op \in {"RFB", "EMPTY"} /\ b.win = window[c] /\ b.id = Wire(id)
    BY DEF Rfb, Empty
  <2> QED BY <1>6, <2>1, <2>2
<1>7. fate' \in {fate, "stale", "bus"}
  BY DEF CopyClientToBottom
<1>8. fate' \in Fates
  BY <1>7 DEF TypeOK, Fates
<1> QED BY <1>1, <1>2, <1>3, <1>6, <1>9, <1>8 DEF NewBlocks

LEMMA CopyClientToBottomType ==
  ASSUME TypeOK, Records, NEW c \in Ids, CopyClientToBottom(c)
  PROVE  TypeOK'
<1>1. /\ fate' \in Fates
      /\ UNCHANGED <<xvars, recordVars, vncVars, tubeVars, peerVars>>
      /\ down' \in [Tubes -> Seq(DownBlocks)]
  BY CopyClientToBottomEffect
<1> QED BY <1>1 DEF TypeOK, xvars, recordVars, vncVars, tubeVars, peerVars

LEMMA WatchDroppedType ==
  ASSUME TypeOK, NEW c \in Ids, WatchDropped(c)
  PROVE  TypeOK'
<1>1. watches' \subseteq Ids
  BY DEF WatchDropped, TypeOK
<1> QED BY <1>1 DEF WatchDropped, TypeOK, xvars, recordVars, tubeVars, peerVars

LEMMA DesktopType ==
  ASSUME TypeOK, Desktop
  PROVE  TypeOK'
<1>1. ASSUME NEW type \in {"changed", "deleted", "map", "motion", "leave"},
             NEW w \in Windows, Deliver(type, w),
             shareProp' \in [Windows -> {Absent} \cup 0 .. 3]
      PROVE  TypeOK'
  <2> DEFINE e == [type |-> type, win |-> w]
  <2>1. e \in XEvents
    BY DEF XEvents
  <2>2. xevents \in Seq(XEvents) /\ xevents' = Append(xevents, e)
    BY <1>1 DEF Deliver, TypeOK
  <2>3. Append(xevents, e) \in Seq(XEvents)
    BY <2>1, <2>2, AppendTail
  <2> QED BY <1>1, <2>2, <2>3 DEF Deliver, TypeOK, recordVars, vncVars, tubeVars,
       peerVars
<1>2. shareProp \in [Windows -> {Absent} \cup 0 .. 3]
  BY DEF TypeOK
<1>3. ASSUME NEW w \in Windows, NEW value \in ShareValues, SetShare(w, value)
      PROVE  TypeOK'
  <2>1. value \in 0 .. 3
    BY SharingAssumption
  <2>2. shareProp' \in [Windows -> {Absent} \cup 0 .. 3]
    BY <1>2, <1>3, <2>1 DEF SetShare
  <2> QED BY <1>1, <1>3, <2>2 DEF SetShare
<1>4. ASSUME NEW w \in Windows, DeleteShare(w)
      PROVE  TypeOK'
  <2>1. shareProp' \in [Windows -> {Absent} \cup 0 .. 3]
    BY <1>2, <1>4 DEF DeleteShare, Absent
  <2> QED BY <1>1, <1>4, <2>1 DEF DeleteShare
<1>5. ASSUME NEW w \in Windows, MapWindow(w)
      PROVE  TypeOK'
  BY <1>1, <1>2, <1>5 DEF MapWindow
<1>6. ASSUME NEW w \in Windows, MovePointer(w)
      PROVE  TypeOK'
  <2>1. PICK type \in Pointer : Deliver(type, w)
    BY <1>6 DEF MovePointer
  <2>2. type \in {"changed", "deleted", "map", "motion", "leave"}
    BY SharingAssumption
  <2> QED BY <1>1, <1>2, <1>6, <2>1, <2>2 DEF MovePointer
<1>7. ASSUME NEW w \in Windows, ServerHangsUp(w)
      PROVE  TypeOK'
  <2>1. hungUp' \subseteq servers'
    BY <1>7 DEF ServerHangsUp, TypeOK
  <2> QED BY <1>7, <2>1 DEF ServerHangsUp, TypeOK, xvars, recordVars, tubeVars,
       peerVars
<1> QED BY <1>3, <1>4, <1>5, <1>6, <1>7 DEF Desktop

LEMMA PeerWritesType ==
  ASSUME TypeOK, NEW t \in Tubes, NEW op \in {"ACCEPT", "CLOSE", "DATA"},
         NEW id \in Nat, PeerWrites(t, op, id)
  PROVE  up' \in [Tubes -> Seq(UpBlocks)]
<1>1. up \in [Tubes -> Seq(UpBlocks)]
  BY DEF TypeOK
<1>2. [op |-> op, id |-> id] \in UpBlocks
  BY DEF UpBlocks
<1>3. Append(up[t], [op |-> op, id |-> id]) \in Seq(UpBlocks)
  BY <1>1, <1>2
<1> QED BY <1>1, <1>3 DEF PeerWrites

\* What the remote end knows of the channels of a tube comes from the blocks
\* of that tube, and it accepts nothing else.
LEMMA PeerReadsEffect ==
  ASSUME TypeOK, NEW t \in Tubes, PeerReads(t)
  PROVE  /\ down' \in [Tubes -> Seq(DownBlocks)]
         /\ \A s \in Tubes : \A i \in 1 .. Len(down'[s]) :
              \E j \in 1 .. Len(down[s]) : down'[s][i] = down[s][j]
         /\ up' \in [Tubes -> Seq(UpBlocks)]
         /\ peerOpen' \in [Tubes -> SUBSET Nat]
         /\ peerOffered' \in [Tubes -> SUBSET Nat]
         /\ \A s \in Tubes : peerOffered[s] \subseteq peerOffered'[s]
         /\ \/ UNCHANGED up
            \/ \E op \in {"ACCEPT", "CLOSE"}, id \in Nat :
                 /\ up' = [up EXCEPT ![t] = Append(@, [op |-> op, id |-> id])]
                 /\ op = "ACCEPT" => id \in peerOffered'[t]
<1> DEFINE block == Head(down[t])
<1>1. down[t] \in Seq(DownBlocks) /\ down[t] # <<>>
  BY DEF TypeOK, PeerReads
<1>2. block \in DownBlocks /\ Tail(down[t]) \in Seq(DownBlocks)
  BY <1>1
<1>3. \A i \in 1 .. Len(Tail(down[t])) :
        i + 1 \in 1 .. Len(down[t]) /\ Tail(down[t])[i] = down[t][i + 1]
  BY <1>1, AppendTail
<1>4. down' = [down EXCEPT ![t] = Tail(down[t])]
  BY DEF PeerReads
<1>5. down \in [Tubes -> Seq(DownBlocks)]
  BY DEF TypeOK
<1>6. /\ down' \in [Tubes -> Seq(DownBlocks)]
      /\ \A s \in Tubes : down'[s] = IF s = t THEN Tail(down[t]) ELSE down[s]
  BY <1>2, <1>4, <1>5
<1>7. \A s \in Tubes : \A i \in 1 .. Len(down'[s]) :
        \E j \in 1 .. Len(down[s]) : down'[s][i] = down[s][j]
  <2> SUFFICES ASSUME NEW s \in Tubes, NEW i \in 1 .. Len(down'[s])
               PROVE  \E j \in 1 .. Len(down[s]) : down'[s][i] = down[s][j]
    OBVIOUS
  <2>1. CASE s = t
    <3>1. i + 1 \in 1 .. Len(down[t]) /\ down'[t][i] = down[t][i + 1]
      BY <1>3, <1>6, <2>1
    <3> QED BY <2>1, <3>1
  <2>2. CASE s # t
    <3>1. down'[s] = down[s]
      BY <1>6, <2>2
    <3>2. i \in 1 .. Len(down[s]) /\ down'[s][i] = down[s][i]
      BY <3>1
    <3> QED BY <3>2
  <2> QED BY <2>1, <2>2
<1>8. /\ peerOpen \in [Tubes -> SUBSET Nat]
      /\ peerOffered \in [Tubes -> SUBSET Nat]
      /\ up \in [Tubes -> Seq(UpBlocks)]
  BY DEF TypeOK
<1>9. CASE block.op = "OPEN"
  <2>1. block.id \in Nat
    <3>1. \A b \in {Hide, Avatar, Torn} : b.op # "OPEN"
      BY DEF Hide, Avatar, Torn
    <3>2. block \in [op : {"OPEN", "CLOSE", "NAME", "TYPE", "MOUSE"}, id : Nat]
                      \cup [op : {"RFB", "EMPTY"}, id : Nat, win : Windows]
      BY <1>2, <1>9, <3>1 DEF DownBlocks
    <3> HIDE DEF block
    <3> QED BY <3>2
  <2>2. /\ peerOpen' = [peerOpen EXCEPT ![t] = @ \cup {block.id}]
        /\ peerOffered' = [peerOffered EXCEPT ![t] = @ \cup {block.id}]
        /\ PeerWrites(t, "ACCEPT", block.id) \/ UNCHANGED up
    BY <1>9 DEF PeerReads
  <2>3. /\ peerOpen' \in [Tubes -> SUBSET Nat]
        /\ peerOffered' \in [Tubes -> SUBSET Nat]
        /\ \A s \in Tubes : peerOffered[s] \subseteq peerOffered'[s]
        /\ block.id \in peerOffered'[t]
    BY <1>8, <2>1, <2>2
  <2>4. up' \in [Tubes -> Seq(UpBlocks)]
    BY <1>8, <2>1, <2>2, PeerWritesType
  <2>5. \/ UNCHANGED up
        \/ up' = [up EXCEPT
                   ![t] = Append(@, [op |-> "ACCEPT", id |-> block.id])]
    BY <2>2 DEF PeerWrites
  <2>6. \/ UNCHANGED up
        \/ \E op \in {"ACCEPT", "CLOSE"}, id \in Nat :
             /\ up' = [up EXCEPT ![t] = Append(@, [op |-> op, id |-> id])]
             /\ op = "ACCEPT" => id \in peerOffered'[t]
    <3> HIDE DEF block
    <3> QED BY <2>1, <2>3, <2>5
  <2> QED BY <1>6, <1>7, <2>3, <2>4, <2>6
<1>10. CASE block.op = "CLOSE"
  <2>1. block.id \in Nat
    <3>1. \A b \in {Hide, Avatar, Torn} : b.op # "CLOSE"
      BY DEF Hide, Avatar, Torn
    <3>2. block \in [op : {"OPEN", "CLOSE", "NAME", "TYPE", "MOUSE"}, id : Nat]
                      \cup [op : {"RFB", "EMPTY"}, id : Nat, win : Windows]
      BY <1>2, <1>10, <3>1 DEF DownBlocks
    <3> HIDE DEF block
    <3> QED BY <3>2
  <2>2. /\ peerOpen' = [peerOpen EXCEPT ![t] = @ \ {block.id}]
        /\ peerOffered' = peerOffered
        /\ PeerWrites(t, "CLOSE", block.id) \/ UNCHANGED up
    BY <1>10 DEF PeerReads
  <2>3. /\ peerOpen' \in [Tubes -> SUBSET Nat]
        /\ peerOffered' \in [Tubes -> SUBSET Nat]
        /\ \A s \in Tubes : peerOffered[s] \subseteq peerOffered'[s]
    BY <1>8, <2>2
  <2>4. up' \in [Tubes -> Seq(UpBlocks)]
    BY <1>8, <2>1, <2>2, PeerWritesType
  <2>5. \/ UNCHANGED up
        \/ up' = [up EXCEPT
                   ![t] = Append(@, [op |-> "CLOSE", id |-> block.id])]
    BY <2>2 DEF PeerWrites
  <2> HIDE DEF block
  <2>6. \/ UNCHANGED up
        \/ \E op \in {"ACCEPT", "CLOSE"}, id \in Nat :
             /\ up' = [up EXCEPT ![t] = Append(@, [op |-> op, id |-> id])]
             /\ op = "ACCEPT" => id \in peerOffered'[t]
    BY <2>1, <2>5
  <2> QED BY <1>6, <1>7, <2>3, <2>4, <2>6
<1>11. CASE block.op \notin {"OPEN", "CLOSE"}
  <2>1. peerOffered' = peerOffered /\ peerOpen' = peerOpen /\ up' = up
    BY <1>11 DEF PeerReads, peerVars
  <2> QED BY <1>6, <1>7, <1>8, <2>1
<1> QED BY <1>9, <1>10, <1>11

LEMMA PeerType ==
  ASSUME TypeOK, Peer
  PROVE  TypeOK'
<1>1. ASSUME NEW t \in Tubes, PeerReads(t)
      PROVE  TypeOK'
  <2>1. /\ down' \in [Tubes -> Seq(DownBlocks)]
        /\ up' \in [Tubes -> Seq(UpBlocks)]
        /\ peerOpen' \in [Tubes -> SUBSET Nat]
        /\ peerOffered' \in [Tubes -> SUBSET Nat]
    BY <1>1, PeerReadsEffect
  <2>2. UNCHANGED <<xvars, fate, recordVars, vncVars, pending, bottom, sync,
                    tubes>>
    BY <1>1 DEF PeerReads
  <2> QED BY <2>1, <2>2 DEF TypeOK, xvars, recordVars, vncVars
<1>2. ASSUME NEW t \in Tubes, NEW op \in PeerOps, NEW id \in peerOffered[t],
             PeerSends(t, op, id)
      PROVE  TypeOK'
  <2>1. id \in Nat /\ op \in {"ACCEPT", "CLOSE", "DATA"}
    BY SharingAssumption DEF TypeOK
  <2>2. up' \in [Tubes -> Seq(UpBlocks)]
    BY <1>2, <2>1, PeerWritesType DEF PeerSends
  <2>3. UNCHANGED <<xvars, fate, recordVars, vncVars, pending, bottom, sync,
                    tubes, down, peerVars>>
    BY <1>2 DEF PeerSends
  <2> QED BY <2>2, <2>3 DEF TypeOK, xvars, recordVars, vncVars, peerVars
<1> QED BY <1>1, <1>2 DEF Peer

-----------------------------------------------------------------------------
(* The inductive invariant.                                                *)

\* The current tube is the last one that came up; nothing has happened yet on
\* those after it.
TubesInOrder ==
  /\ bottom = tubes
  /\ \A t \in Tubes :
       t > tubes => down[t] = <<>> /\ up[t] = <<>> /\ peerOffered[t] = {}

\* The remote end accepts only channels it has been offered.
AnswersFollowOffers ==
  \A t \in Tubes :
    \A i \in 1 .. Len(up[t]) :
      up[t][i].op = "ACCEPT" => up[t][i].id \in peerOffered[t]

IInv ==
  /\ TypeOK
  /\ Records
  /\ TablesAgree
  /\ PixelsNeedConsent
  /\ TubesInOrder
  /\ AnswersFollowOffers
  /\ AcceptedWereOffered

\* What is known of a step of the plugin that only adds blocks to the current
\* tube, none of them with RFB bytes.
LEMMA ControlBlocks ==
  ASSUME TypeOK, NEW c \in Nat, NEW op \in {"OPEN", "CLOSE", "MOUSE"},
         NewBlocks({About(op, c)}) \/ NewBlocks({Hide})
  PROVE  /\ \A t \in Tubes \ {bottom} : down'[t] = down[t]
         /\ \A t \in Tubes : \A i \in 1 .. Len(down'[t]) :
              \/ down'[t][i].op \notin {"RFB", "EMPTY"}
              \/ i \in 1 .. Len(down[t]) /\ down'[t][i] = down[t][i]
<1>1. \A b \in {About(op, c), Hide, Torn} : b.op \notin {"RFB", "EMPTY"}
  BY DEF About, Hide, Torn
<1> QED BY <1>1 DEF NewBlocks

\* The steps of Sharing, by what they do to the records.
LEMMA RecordSteps ==
  ASSUME TypeOK, Records, [Next]_vars
  PROVE  \/ \E w \in Windows :
              /\ highest < MaxShares
              /\ Register(w, highest + 1)
              /\ pending' \subseteq pending \cup {highest + 1}
              /\ UNCHANGED <<watches, accepted>>
         \/ \E w \in Windows : UnshareWindow(w)
         \/ /\ UNCHANGED <<highest, window, forwarded, byX11>>
            /\ pending' \subseteq pending
            /\ \/ watches' \subseteq watches /\ accepted' = accepted
               \/ \E c \in forwarded :
                    /\ watches' = watches \cup {c}
                    /\ accepted' = accepted \cup {c}
<1> DEFINE Quiet ==
      /\ UNCHANGED <<highest, window, forwarded, byX11>>
      /\ pending' \subseteq pending
      /\ watches' \subseteq watches
      /\ accepted' = accepted
<1>1. ASSUME NEW w \in Windows, ShareWindow(w)
      PROVE  /\ highest < MaxShares
             /\ Register(w, highest + 1)
             /\ pending' \subseteq pending \cup {highest + 1}
             /\ UNCHANGED <<watches, accepted>>
  BY <1>1 DEF ShareWindow, vncVars
<1>2. ASSUME NEW w \in Windows, NEW state, SetSharingState(w, state)
      PROVE  ShareWindow(w) \/ UnshareWindow(w) \/ Quiet
  BY <1>2 DEF SetSharingState, recordVars, vncVars, tubeVars
<1>3. CASE XEventFilter
  <2> DEFINE w == Head(xevents).win
  <2>1. w \in Windows
    BY <1>3, EventsType DEF XEventFilter, PropertyChanged, PropertyDeleted,
         WindowMapped, PointerMoved, PointerLeft, ReportPointer
  <2>2. ShareWindow(w) \/ UnshareWindow(w) \/ Quiet
    <3>1. CASE PropertyChanged
      BY <1>2, <2>1, <3>1 DEF PropertyChanged, Abort, recordVars, vncVars,
           tubeVars
    <3>2. CASE PropertyDeleted
      BY <1>2, <2>1, <3>2 DEF PropertyDeleted
    <3>3. CASE WindowMapped
      BY <3>3 DEF WindowMapped, recordVars, vncVars, tubeVars
    <3>4. CASE PointerMoved \/ PointerLeft
      BY <3>4 DEF PointerMoved, PointerLeft, ReportPointer, recordVars, vncVars,
           tubeVars
    <3> QED BY <1>3, <3>1, <3>2, <3>3, <3>4 DEF XEventFilter
  <2> QED BY <1>1, <2>1, <2>2
<1>4. ASSUME NEW c \in Ids, TubeReady(c) \/ TubeFailed(c)
      PROVE  Quiet
  BY <1>4 DEF TubeReady, TubeFailed, recordVars, vncVars
<1>5. ASSUME NEW t \in Tubes, CopyBottomToClient(t)
      PROVE  /\ UNCHANGED <<highest, window, forwarded, byX11, pending>>
             /\ \/ UNCHANGED <<watches, accepted>>
                \/ \E c \in forwarded :
                     /\ watches' = watches \cup {c}
                     /\ accepted' = accepted \cup {c}
  <2>1. CASE Abort("empty")
    BY <2>1 DEF Abort, recordVars, vncVars, tubeVars
  <2>2. CASE /\ HandleBlock(Head(up[bottom]))
             /\ UNCHANGED <<highest, window, forwarded, byX11, pending, bottom,
                            tubes>>
    BY <2>2, HandleBlockEffect
  <2> QED BY <1>5, <2>1, <2>2 DEF CopyBottomToClient
<1>6. ASSUME NEW c \in Ids, CopyClientToBottom(c) \/ WatchDropped(c)
      PROVE  Quiet
  BY <1>6, CopyClientToBottomEffect DEF WatchDropped, recordVars, vncVars,
       tubeVars
<1>7. CASE Desktop
  <2>1. \A type, w : Deliver(type, w) => Quiet
    BY DEF Deliver, recordVars, vncVars, tubeVars
  <2>2. \A w : ServerHangsUp(w) => Quiet
    BY DEF ServerHangsUp, recordVars, tubeVars
  <2> QED BY <1>7, <2>1, <2>2 DEF Desktop, SetShare, DeleteShare, MapWindow,
       MovePointer
<1>8. CASE Peer
  BY <1>8 DEF Peer, PeerReads, PeerSends, recordVars, vncVars
<1>9. CASE UNCHANGED vars
  BY <1>9 DEF vars, recordVars, vncVars, tubeVars
<1> QED BY <1>3, <1>4, <1>5, <1>6, <1>7, <1>8, <1>9 DEF Next, Plugin

\* What registering a new record for w means record by record.
LEMMA RegisterEffect ==
  ASSUME TypeOK, NEW w \in Windows, highest < MaxShares,
         Register(w, highest + 1)
  PROVE  /\ highest \in Nat /\ highest + 1 \in Ids
         /\ highest' = highest + 1
         /\ \A c \in Ids : window'[c] = IF c = highest + 1 THEN w ELSE window[c]
         /\ forwarded' = forwarded \cup {highest + 1}
         /\ \A v \in Windows : byX11'[v] = IF v = w THEN highest + 1 ELSE byX11[v]
<1>1. highest \in Nat /\ highest + 1 \in Ids
  BY ProtocolAssumption DEF TypeOK, Ids
<1>2. /\ window \in [Ids -> Windows \cup {NoWindow}]
      /\ byX11 \in [Windows -> 0 .. MaxShares]
  BY DEF TypeOK
<1> QED BY <1>1, <1>2 DEF Register

LEMMA RecordsNext ==
  ASSUME TypeOK, Records, [Next]_vars
  PROVE  Records'
<1>1. CASE \E w \in Windows :
             /\ highest < MaxShares
             /\ Register(w, highest + 1)
             /\ pending' \subseteq pending \cup {highest + 1}
             /\ UNCHANGED <<watches, accepted>>
  <2> PICK w \in Windows :
        /\ highest < MaxShares
        /\ Register(w, highest + 1)
        /\ pending' \subseteq pending \cup {highest + 1}
        /\ UNCHANGED <<watches, accepted>>
    BY <1>1
  <2>1. /\ highest \in Nat /\ highest' = highest + 1
        /\ \A c \in Ids : window'[c] = IF c = highest + 1 THEN w ELSE window[c]
        /\ forwarded' = forwarded \cup {highest + 1}
    BY RegisterEffect
  <2>2. 1 .. highest \cup {highest + 1} \subseteq 1 .. highest'
    BY <2>1
  <2>3. (forwarded \cup pending \cup accepted)' \subseteq 1 .. highest'
    BY <2>1, <2>2 DEF Records
  <2>4. \A c \in Ids : c <= highest' <=> window'[c] # NoWindow
    BY <2>1, ProtocolAssumption DEF Records, Ids
  <2> QED BY <2>3, <2>4 DEF Records
<1>2. CASE \E w \in Windows : UnshareWindow(w)
  BY <1>2 DEF UnshareWindow, Records, vncVars, tubeVars
<1>3. CASE /\ UNCHANGED <<highest, window, forwarded, byX11>>
           /\ pending' \subseteq pending
           /\ \/ watches' \subseteq watches /\ accepted' = accepted
              \/ \E c \in forwarded :
                   /\ watches' = watches \cup {c}
                   /\ accepted' = accepted \cup {c}
  BY <1>3 DEF Records
<1> QED BY <1>1, <1>2, <1>3, RecordSteps

LEMMA TablesAgreeNext ==
  ASSUME TypeOK, Records, TablesAgree, [Next]_vars
  PROVE  TablesAgree'
<1>1. ASSUME NEW w \in Windows, highest < MaxShares, Register(w, highest + 1)
      PROVE  TablesAgree'
  <2> DEFINE new == highest + 1
  <2>1. /\ highest \in Nat /\ new \in Ids
        /\ \A c \in Ids : window'[c] = IF c = new THEN w ELSE window[c]
        /\ forwarded' = forwarded \cup {new}
        /\ \A v \in Windows : byX11'[v] = IF v = w THEN new ELSE byX11[v]
    BY <1>1, RegisterEffect
  <2>2. \A c \in forwarded : c \in Ids /\ c # new
    BY <2>1 DEF Records, TypeOK
  <2>3. \A c \in Ids : window'[c] = w => c <= new
    BY <2>1, ProtocolAssumption DEF Records, Ids
  <2>4. ASSUME NEW v \in Windows, v # w, byX11[v] # 0
        PROVE  /\ byX11[v] \in forwarded'
               /\ window'[byX11[v]] = v
               /\ \A c \in Ids : window'[c] = v => c <= byX11[v]
    BY <2>1, <2>2, <2>4 DEF TablesAgree
  <2>5. new # 0
    BY <2>1
  <2> QED BY <2>1, <2>3, <2>4, <2>5 DEF TablesAgree
<1>2. ASSUME NEW w \in Windows, UnshareWindow(w)
      PROVE  TablesAgree'
  <2>1. CASE byX11[w] = 0
    BY <1>2, <2>1 DEF UnshareWindow, TablesAgree
  <2>2. CASE byX11[w] # 0
    <3>1. /\ forwarded' = forwarded \ {byX11[w]}
          /\ byX11' = [byX11 EXCEPT ![w] = 0]
          /\ window' = window
      BY <1>2, <2>2 DEF UnshareWindow
    <3>2. \A v \in Windows : byX11'[v] = IF v = w THEN 0 ELSE byX11[v]
      BY <3>1 DEF TypeOK
    <3>3. \A v \in Windows \ {w} : byX11[v] # 0 => byX11[v] # byX11[w]
      BY <2>2 DEF TablesAgree
    <3> QED BY <3>1, <3>2, <3>3 DEF TablesAgree
  <2> QED BY <2>1, <2>2
<1>3. CASE UNCHANGED <<highest, window, forwarded, byX11>>
  BY <1>3 DEF TablesAgree
<1> QED BY <1>1, <1>2, <1>3, RecordSteps

\* Once accepted, a record stays accepted and stays a record of its window.
LEMMA AcceptedStay ==
  ASSUME TypeOK, Records, [Next]_vars
  PROVE  /\ accepted \subseteq accepted'
         /\ \A c \in accepted : window'[c] = window[c]
<1>1. ASSUME NEW w \in Windows, highest < MaxShares, Register(w, highest + 1)
      PROVE  \A c \in accepted : window'[c] = window[c]
  <2>1. /\ highest \in Nat
        /\ \A c \in Ids : window'[c] = IF c = highest + 1 THEN w ELSE window[c]
    BY <1>1, RegisterEffect
  <2>2. \A c \in accepted : c \in Ids /\ c # highest + 1
    BY <2>1 DEF Records, TypeOK
  <2> QED BY <2>1, <2>2
<1>2. ASSUME NEW w \in Windows, UnshareWindow(w)
      PROVE  UNCHANGED <<window, accepted>>
  BY <1>2 DEF UnshareWindow, vncVars
<1> QED BY <1>1, <1>2, RecordSteps

\* The steps of Sharing, by what they do to the blocks on their way to the
\* remote end: a block with RFB bytes is of the window of an accepted record, a
\* freed one if it is on channel 0, and an idle tube stays idle unless it is the one that comes up.
DownStep ==
  /\ \A t \in Tubes : \A i \in 1 .. Len(down'[t]) :
       \/ down'[t][i].op \notin {"RFB", "EMPTY"}
       \/ \E c \in watches :
            /\ window[c] = down'[t][i].win
            /\ FewIds /\ down'[t][i].id = 0 => c \notin forwarded
       \/ \E j \in 1 .. Len(down[t]) : down'[t][i] = down[t][j]
  /\ \A t \in Tubes \ {bottom} :
       \/ down'[t] = down[t]
       \/ down[t] # <<>>
       \/ bottom' = t /\ tubes' = t

LEMMA DownSteps ==
  ASSUME TypeOK, Records, [Next]_vars
  PROVE  DownStep
<1>1. ASSUME UNCHANGED down
      PROVE  DownStep
  BY <1>1 DEF DownStep
<1>2. ASSUME NEW c \in Nat, NEW op \in {"OPEN", "CLOSE", "MOUSE"},
             NewBlocks({About(op, c)}) \/ NewBlocks({Hide})
      PROVE  DownStep
  BY <1>2, ControlBlocks DEF DownStep
<1>3. ASSUME NEW w \in Windows, ShareWindow(w)
      PROVE  DownStep
  <2>1. highest + 1 \in Nat
    BY ProtocolAssumption DEF TypeOK
  <2> QED BY <1>2, <1>3, <2>1, ShareWindowType
<1>4. ASSUME NEW w \in Windows, UnshareWindow(w)
      PROVE  DownStep
  <2>1. byX11[w] \in Nat
    BY ProtocolAssumption DEF TypeOK
  <2> QED BY <1>2, <1>4, <2>1, UnshareWindowType
<1>5. ASSUME NEW w \in Windows, NEW state, SetSharingState(w, state)
      PROVE  DownStep
  BY <1>1, <1>3, <1>4, <1>5 DEF SetSharingState
<1>6. CASE XEventFilter
  <2> DEFINE w == Head(xevents).win
  <2>1. w \in Windows
    BY <1>6, EventsType DEF XEventFilter, PropertyChanged, PropertyDeleted,
         WindowMapped, PointerMoved, PointerLeft, ReportPointer
  <2>2. CASE PropertyChanged
    BY <1>1, <1>5, <2>1, <2>2 DEF PropertyChanged, Abort
  <2>3. CASE PropertyDeleted
    BY <1>5, <2>1, <2>3 DEF PropertyDeleted
  <2>4. CASE WindowMapped
    BY <1>1, <1>3, <2>1, <2>4 DEF WindowMapped
  <2>5. byX11[w] \in Nat
    BY <2>1, ProtocolAssumption DEF TypeOK
  <2>6. CASE PointerMoved
    <3>1. Send(About("MOUSE", byX11[w])) \/ UNCHANGED down
      BY <2>6 DEF PointerMoved, ReportPointer
    <3>2. NewBlocks({About("MOUSE", byX11[w])})
      BY <2>5, <3>1, SendEffect, NothingSent, BlocksDown
    <3> QED BY <1>2, <2>5, <3>2
  <2>7. CASE PointerLeft
    <3>1. Send(Hide) \/ UNCHANGED down
      BY <2>7 DEF PointerLeft, ReportPointer
    <3>2. NewBlocks({Hide})
      BY <3>1, SendEffect, NothingSent, BlocksDown
    <3> QED BY <1>2, <3>2
  <2> QED BY <1>6, <2>2, <2>3, <2>4, <2>6, <2>7 DEF XEventFilter
<1>7. ASSUME NEW c \in Ids, TubeReady(c)
      PROVE  DownStep
  <2> DEFINE t == tubes + 1
  <2>1. t \in Tubes
    BY <1>7, SharingAssumption DEF TubeReady, TypeOK, Tubes
  <2>2. PICK id : down' = [down EXCEPT ![t] = <<About("OPEN", id)>>]
    BY <1>7 DEF TubeReady
  <2>3. \A s \in Tubes :
          down'[s] = IF s = t THEN <<About("OPEN", id)>> ELSE down[s]
    BY <2>1, <2>2 DEF TypeOK
  <2>4. \A i \in 1 .. Len(down'[t]) : down'[t][i].op = "OPEN"
    BY <2>1, <2>3 DEF About
  <2>5. bottom' = t /\ tubes' = t
    BY <1>7 DEF TubeReady
  <2> HIDE DEF t
  <2> QED BY <2>3, <2>4, <2>5 DEF DownStep
<1>8. ASSUME NEW t \in Tubes, CopyBottomToClient(t)
      PROVE  DownStep
  <2>1. CASE Abort("empty")
    BY <1>1, <2>1 DEF Abort
  <2>2. CASE HandleBlock(Head(up[bottom]))
    BY <2>2, HandleBlockEffect DEF DownStep
  <2> QED BY <1>8, <2>1, <2>2 DEF CopyBottomToClient
<1>9. ASSUME NEW c \in Ids, CopyClientToBottom(c)
      PROVE  DownStep
  <2>1. Torn.op \notin {"RFB", "EMPTY"}
    BY DEF Torn
  <2> QED BY <1>9, <2>1, CopyClientToBottomEffect DEF DownStep
<1>10. CASE Desktop
  BY <1>1, <1>10 DEF Desktop, SetShare, DeleteShare, MapWindow, MovePointer,
       ServerHangsUp, Deliver
<1>11. ASSUME NEW t \in Tubes, PeerReads(t)
       PROVE  DownStep
  <2>1. \A s \in Tubes : \A i \in 1 .. Len(down'[s]) :
          \E j \in 1 .. Len(down[s]) : down'[s][i] = down[s][j]
    BY <1>11, PeerReadsEffect
  <2>2. \A s \in Tubes : down'[s] = down[s] \/ down[s] # <<>>
    BY <1>11 DEF PeerReads, TypeOK
  <2> QED BY <2>1, <2>2 DEF DownStep
<1>12. CASE Peer
  BY <1>1, <1>11, <1>12 DEF Peer, PeerSends
<1>13. ASSUME NEW c \in Ids, TubeFailed(c) \/ WatchDropped(c)
       PROVE  DownStep
  BY <1>1, <1>13 DEF TubeFailed, WatchDropped
<1>14. CASE UNCHANGED vars
  BY <1>1, <1>14 DEF vars
<1> QED BY <1>6, <1>7, <1>8, <1>9, <1>10, <1>12, <1>13, <1>14 DEF Next, Plugin

LEMMA PixelsNeedConsentNext ==
  ASSUME TypeOK, Records, PixelsNeedConsent, [Next]_vars
  PROVE  PixelsNeedConsent'
<1> SUFFICES ASSUME NEW t \in Tubes, NEW i \in 1 .. Len(down'[t]),
                    down'[t][i].op \in {"RFB", "EMPTY"}
             PROVE  \E c \in accepted' : window'[c] = down'[t][i].win
  BY DEF PixelsNeedConsent
<1>1. /\ accepted \subseteq accepted'
      /\ \A c \in accepted : window'[c] = window[c]
  BY AcceptedStay
<1>2. CASE \E c \in watches : window[c] = down'[t][i].win
  BY <1>1, <1>2 DEF Records
<1>3. CASE \E j \in 1 .. Len(down[t]) : down'[t][i] = down[t][j]
  BY <1>1, <1>3 DEF PixelsNeedConsent
<1> QED BY <1>2, <1>3, DownSteps DEF DownStep

\* What is freed stays freed.
LEMMA FreedStay ==
  ASSUME TypeOK, Records, [Next]_vars
  PROVE  \A c \in accepted \ forwarded : c \notin forwarded'
<1>1. ASSUME NEW w \in Windows, highest < MaxShares, Register(w, highest + 1)
      PROVE  \A c \in accepted \ forwarded : c \notin forwarded'
  <2>1. \A c \in accepted : c # highest + 1
    BY DEF Records, TypeOK
  <2> QED BY <1>1, <2>1 DEF Register
<1>2. ASSUME NEW w \in Windows, UnshareWindow(w)
      PROVE  forwarded' \subseteq forwarded
  BY <1>2 DEF UnshareWindow
<1> QED BY <1>1, <1>2, RecordSteps

\* Pixels on channel 0 come from the watch of a freed record.
StalePixels ==
  \A t \in Tubes : \A i \in 1 .. Len(down[t]) :
    down[t][i].op \in {"RFB", "EMPTY"} /\ down[t][i].id = 0 =>
      \E c \in accepted \ forwarded : window[c] = down[t][i].win

LEMMA StalePixelsNext ==
  ASSUME FewIds, TypeOK, Records, StalePixels, [Next]_vars
  PROVE  StalePixels'
<1> SUFFICES ASSUME NEW t \in Tubes, NEW i \in 1 .. Len(down'[t]),
                    down'[t][i].op \in {"RFB", "EMPTY"}, down'[t][i].id = 0
             PROVE  \E c \in accepted' \ forwarded' : window'[c] = down'[t][i].win
  BY DEF StalePixels
<1>1. /\ accepted \subseteq accepted'
      /\ \A c \in accepted : window'[c] = window[c]
      /\ \A c \in accepted \ forwarded : c \notin forwarded'
  BY AcceptedStay, FreedStay
<1>2. CASE \E c \in watches : window[c] = down'[t][i].win /\ c \notin forwarded
  BY <1>1, <1>2 DEF Records
<1>3. CASE \E j \in 1 .. Len(down[t]) : down'[t][i] = down[t][j]
  BY <1>1, <1>3 DEF StalePixels
<1> QED BY <1>2, <1>3, DownSteps DEF DownStep

\* All other steps leave the answers of the remote end alone.
LEMMA QuietSteps ==
  ASSUME [Next]_vars,
         \A c \in Ids : ~ TubeReady(c),
         \A t \in Tubes : ~ CopyBottomToClient(t),
         ~ Peer
  PROVE  UNCHANGED <<bottom, tubes, up, peerOpen, peerOffered, accepted>>
<1>1. ASSUME NEW w, ShareWindow(w) \/ UnshareWindow(w)
      PROVE  UNCHANGED <<bottom, tubes, up, accepted>>
  BY <1>1 DEF ShareWindow, UnshareWindow, vncVars, tubeVars
<1>2. ASSUME NEW w, NEW state, SetSharingState(w, state)
      PROVE  UNCHANGED <<bottom, tubes, up, accepted>>
  BY <1>1, <1>2 DEF SetSharingState, vncVars, tubeVars
<1>3. CASE XEventFilter
  <2>1. CASE PropertyChanged \/ PropertyDeleted
    BY <1>2, <2>1 DEF PropertyChanged, PropertyDeleted, Abort, vncVars,
         tubeVars, peerVars
  <2>2. CASE WindowMapped
    BY <1>1, <2>2 DEF WindowMapped, vncVars, tubeVars, peerVars
  <2>3. CASE PointerMoved \/ PointerLeft
    BY <2>3 DEF PointerMoved, PointerLeft, ReportPointer, vncVars, tubeVars,
         peerVars
  <2> QED BY <1>3, <2>1, <2>2, <2>3 DEF XEventFilter
<1>4. ASSUME NEW c \in Ids,
             TubeFailed(c) \/ CopyClientToBottom(c) \/ WatchDropped(c)
      PROVE  UNCHANGED <<bottom, tubes, up, peerOpen, peerOffered, accepted>>
  BY <1>4 DEF TubeFailed, CopyClientToBottom, WatchDropped, vncVars, tubeVars,
       peerVars
<1>5. CASE Desktop
  BY <1>5 DEF Desktop, SetShare, DeleteShare, MapWindow, MovePointer,
       ServerHangsUp, Deliver, vncVars, tubeVars, peerVars
<1>6. CASE UNCHANGED vars
  BY <1>6 DEF vars, vncVars, tubeVars, peerVars
<1> QED BY <1>3, <1>4, <1>5, <1>6 DEF Next, Plugin

\* A step that neither brings up a tube nor reads one nor is the remote end's.
LEMMA QuietSync ==
  ASSUME [Next]_vars,
         \A c \in Ids : ~ TubeReady(c),
         \A t \in Tubes : ~ CopyBottomToClient(t),
         ~ Peer
  PROVE  UNCHANGED sync
<1>1. ASSUME NEW w, ShareWindow(w) \/ UnshareWindow(w) PROVE UNCHANGED sync
  BY <1>1 DEF ShareWindow, UnshareWindow, tubeVars
<1>2. CASE XEventFilter
  BY <1>1, <1>2 DEF XEventFilter, PropertyChanged, PropertyDeleted, WindowMapped,
     PointerMoved, PointerLeft, ReportPointer, SetSharingState, Abort, tubeVars
<1>3. ASSUME NEW c \in Ids, TubeFailed(c) \/ CopyClientToBottom(c) \/ WatchDropped(c)
      PROVE  UNCHANGED sync
  BY <1>3 DEF TubeFailed, CopyClientToBottom, WatchDropped, tubeVars
<1>4. CASE Desktop
  BY <1>4 DEF Desktop, SetShare, DeleteShare, MapWindow, MovePointer,
       ServerHangsUp, Deliver, tubeVars
<1>5. CASE UNCHANGED vars
  BY <1>5 DEF vars, tubeVars
<1> QED BY <1>2, <1>3, <1>4, <1>5 DEF Next, Plugin

LEMMA TubesInOrderNext ==
  ASSUME TypeOK, Records, TubesInOrder, AnswersFollowOffers, [Next]_vars
  PROVE  TubesInOrder'
<1>1. DownStep
  BY DownSteps
<1>2. tubes \in 0 .. MaxTubes /\ MaxTubes \in Nat
  BY SharingAssumption DEF TypeOK
<1>3. CASE UNCHANGED <<bottom, tubes>>
  <2> SUFFICES ASSUME NEW t \in Tubes, t > tubes
               PROVE  down'[t] = <<>> /\ up'[t] = <<>> /\ peerOffered'[t] = {}
    BY <1>3 DEF TubesInOrder
  <2>1. down[t] = <<>> /\ up[t] = <<>> /\ peerOffered[t] = {} /\ t # bottom
    BY <1>2 DEF TubesInOrder, Tubes
  <2>2. down'[t] = <<>>
    BY <1>1, <1>3, <2>1 DEF DownStep
  <2>4. up'[t] = <<>> /\ peerOffered'[t] = {}
    <3>1. ASSUME NEW s \in Tubes, CopyBottomToClient(s)
          PROVE  up'[t] = up[t] /\ peerOffered' = peerOffered
      <4>1. UNCHANGED up \/ up' = [up EXCEPT ![bottom] = Tail(@)]
        BY <3>1 DEF CopyBottomToClient, Abort, tubeVars
      <4>2. peerOffered' = peerOffered
        BY <3>1 DEF CopyBottomToClient, peerVars
      <4>3. up \in [Tubes -> Seq(UpBlocks)]
        BY DEF TypeOK
      <4> QED BY <2>1, <4>1, <4>2, <4>3
    <3>2. ASSUME NEW s \in Tubes, PeerReads(s)
          PROVE  up'[t] = up[t] /\ peerOffered'[t] = peerOffered[t]
      <4>1. s # t
        BY <2>1, <3>2 DEF PeerReads
      <4>2. \/ UNCHANGED up
            \/ \E op, id : up' = [up EXCEPT
                               ![s] = Append(@, [op |-> op, id |-> id])]
        BY <3>2, PeerReadsEffect
      <4>3. up'[t] = up[t]
        <5>1. \A q : t \in DOMAIN up => [up EXCEPT ![s] = q][t] = up[t]
          BY <4>1
        <5>2. t \in DOMAIN up
          BY DEF TypeOK
        <5> QED BY <4>2, <5>1, <5>2
      <4>4. \/ UNCHANGED peerOffered
            \/ \E id : peerOffered' = [peerOffered EXCEPT ![s] = @ \cup {id}]
        BY <3>2 DEF PeerReads, peerVars
      <4>5. peerOffered'[t] = peerOffered[t]
        <5>1. peerOffered \in [Tubes -> SUBSET Nat]
          BY DEF TypeOK
        <5> QED BY <4>1, <4>4, <5>1
      <4> QED BY <4>3, <4>5
    <3>3. ASSUME NEW s \in Tubes, NEW op, NEW id, PeerSends(s, op, id)
          PROVE  up'[t] = up[t] /\ peerOffered'[t] = peerOffered[t]
      <4>1. s # t
        BY <2>1, <3>3 DEF PeerSends
      <4> QED BY <3>3, <4>1 DEF PeerSends, PeerWrites, peerVars, TypeOK
    <3>4. \A c \in Ids : ~ TubeReady(c)
      BY <1>2, <1>3 DEF TubeReady
    <3> QED BY <2>1, <3>1, <3>2, <3>3, <3>4, QuietSteps DEF Peer
  <2> QED BY <2>2, <2>4
<1>4. ASSUME NEW c \in Ids, TubeReady(c)
      PROVE  TubesInOrder'
  <2>1. bottom' = tubes + 1 /\ tubes' = tubes + 1 /\ peerOffered' = peerOffered
    BY <1>4 DEF TubeReady, peerVars
  <2>2. /\ \A t \in Tubes : t # tubes + 1 => up'[t] = up[t]
        /\ \A t \in Tubes : t # tubes + 1 => down'[t] = down[t]
    BY <1>4 DEF TubeReady, TypeOK
  <2>3. \A t \in Tubes : t > tubes + 1 => t > tubes /\ t # tubes + 1
    BY <1>2 DEF Tubes
  <2> QED BY <2>1, <2>2, <2>3 DEF TubesInOrder
<1>5. ASSUME NEW t \in Tubes, CopyBottomToClient(t)
      PROVE  UNCHANGED <<bottom, tubes>>
  BY <1>5 DEF CopyBottomToClient, Abort, tubeVars
<1>6. CASE Peer
  BY <1>3, <1>6 DEF Peer, PeerReads, PeerSends
<1> QED BY <1>3, <1>4, <1>5, <1>6, QuietSteps

LEMMA AnswersFollowOffersNext ==
  ASSUME TypeOK, Records, AnswersFollowOffers, [Next]_vars
  PROVE  AnswersFollowOffers'
<1>1. /\ peerOpen \in [Tubes -> SUBSET Nat]
      /\ peerOffered \in [Tubes -> SUBSET Nat]
      /\ up \in [Tubes -> Seq(UpBlocks)]
  BY DEF TypeOK
<1>2. CASE UNCHANGED <<up, peerOpen, peerOffered>>
  BY <1>2 DEF AnswersFollowOffers
<1>3. ASSUME NEW c \in Ids, TubeReady(c)
      PROVE  AnswersFollowOffers'
  <2>1. UNCHANGED <<peerOpen, peerOffered>>
    BY <1>3 DEF TubeReady, peerVars
  <2>2. up' = [up EXCEPT ![tubes + 1] = <<Header, Avatar>>]
    BY <1>3 DEF TubeReady
  <2>3. \A i \in 1 .. Len(<<Header, Avatar>>) :
          <<Header, Avatar>>[i].op # "ACCEPT"
    BY DEF Header, Avatar
  <2>4. \A t \in Tubes : up'[t] \in {up[t], <<Header, Avatar>>}
    BY <1>1, <2>2
  <2> QED BY <2>1, <2>3, <2>4 DEF AnswersFollowOffers
<1>4. ASSUME NEW t \in Tubes, CopyBottomToClient(t)
      PROVE  AnswersFollowOffers'
  <2>1. UNCHANGED <<peerOpen, peerOffered>>
    BY <1>4 DEF CopyBottomToClient, peerVars
  <2>2. CASE UNCHANGED up
    BY <2>1, <2>2 DEF AnswersFollowOffers
  <2>3. CASE up[bottom] # <<>> /\ up' = [up EXCEPT ![bottom] = Tail(@)]
    <3> SUFFICES ASSUME NEW s \in Tubes, NEW i \in 1 .. Len(up'[s]),
                        up'[s][i].op = "ACCEPT"
                 PROVE  up'[s][i].id \in peerOffered'[s]
      BY <2>1 DEF AnswersFollowOffers
    <3>1. ASSUME NEW j \in 1 .. Len(up[s]), up'[s][i] = up[s][j]
          PROVE  up'[s][i].id \in peerOffered'[s]
      BY <2>1, <3>1 DEF AnswersFollowOffers
    <3>2. CASE s = bottom
      <4>1. up[s] \in Seq(UpBlocks) /\ up[s] # <<>> /\ up'[s] = Tail(up[s])
        BY <1>1, <2>3, <3>2
      <4>2. i + 1 \in 1 .. Len(up[s]) /\ up'[s][i] = up[s][i + 1]
        BY <4>1, AppendTail
      <4> QED BY <3>1, <4>2
    <3>3. CASE s # bottom
      <4>1. up'[s] = up[s]
        BY <1>1, <2>3, <3>3
      <4> QED BY <3>1, <4>1
    <3> QED BY <3>2, <3>3
  <2> QED BY <1>4, <2>2, <2>3 DEF CopyBottomToClient, Abort, tubeVars
<1>5. ASSUME NEW t \in Tubes, NEW op, NEW id \in peerOffered'[t],
             up' = [up EXCEPT ![t] = Append(@, [op |-> op, id |-> id])],
             \A s \in Tubes : peerOffered[s] \subseteq peerOffered'[s]
      PROVE  \A s \in Tubes : \A i \in 1 .. Len(up'[s]) :
               up'[s][i].op = "ACCEPT" => up'[s][i].id \in peerOffered'[s]
  <2> SUFFICES ASSUME NEW s \in Tubes, NEW i \in 1 .. Len(up'[s]),
                      up'[s][i].op = "ACCEPT"
               PROVE  up'[s][i].id \in peerOffered'[s]
    OBVIOUS
  <2> DEFINE b == [op |-> op, id |-> id]
  <2>1. CASE i \in 1 .. Len(up[s]) /\ up'[s][i] = up[s][i]
    BY <1>5, <2>1 DEF AnswersFollowOffers
  <2>2. CASE s = t /\ up'[s][i] = b
    BY <2>2
  <2>3. \/ s = t /\ up'[s] = Append(up[s], b)
        \/ up'[s] = up[s]
    BY <1>1, <1>5
  <2>4. up[s] \in Seq(UpBlocks)
    BY <1>1
  <2> HIDE DEF b
  <2>5. CASE up'[s] = up[s]
    BY <2>1, <2>5
  <2>6. CASE s = t /\ up'[s] = Append(up[s], b)
    <3>1. PICK q \in Seq(UpBlocks) : q = up[s]
      BY <2>4
    <3>2. i \in 1 .. Len(q) + 1
      BY <2>6, <3>1
    <3>3. i \in 1 .. Len(q) => Append(q, b)[i] = q[i]
      BY <3>1
    <3>4. i \notin 1 .. Len(q) => i = Len(q) + 1 /\ Append(q, b)[i] = b
      BY <3>1, <3>2
    <3> QED BY <2>1, <2>2, <2>6, <3>1, <3>3, <3>4
  <2> QED BY <2>3, <2>5, <2>6
<1>6. ASSUME NEW t \in Tubes, PeerReads(t)
      PROVE  AnswersFollowOffers'
  <2>1. \A s \in Tubes : peerOffered[s] \subseteq peerOffered'[s]
    BY <1>6, PeerReadsEffect
  <2>2. CASE UNCHANGED up
    BY <2>1, <2>2 DEF AnswersFollowOffers
  <2>3. CASE \E op \in {"ACCEPT", "CLOSE"}, id \in Nat :
               /\ up' = [up EXCEPT ![t] = Append(@, [op |-> op, id |-> id])]
               /\ op = "ACCEPT" => id \in peerOffered'[t]
    BY <1>5, <2>1, <2>3 DEF AnswersFollowOffers
  <2> QED BY <1>6, <2>2, <2>3, PeerReadsEffect
<1>7. ASSUME NEW t \in Tubes, NEW op, NEW id \in peerOffered[t],
             PeerSends(t, op, id)
      PROVE  AnswersFollowOffers'
  <2>1. /\ UNCHANGED peerOffered
        /\ up' = [up EXCEPT ![t] = Append(@, [op |-> op, id |-> id])]
    BY <1>7 DEF PeerSends, PeerWrites, peerVars
  <2> QED BY <1>5, <2>1 DEF AnswersFollowOffers
<1>8. CASE Peer
  BY <1>6, <1>7, <1>8 DEF Peer
<1> QED BY <1>2, <1>3, <1>4, <1>8, QuietSteps

\* The key of a live record that an ACCEPT leads to is the identifier in the
\* ACCEPT: one that was garbled on the way is the key of no record.
LEMMA DecodedKeys ==
  ASSUME TypeOK, NEW id, Decoded(id) \in forwarded
  PROVE  Decoded(id) = id
<1>1. NotAnId \notin forwarded
  BY DEF NotAnId, TypeOK, Ids
<1> QED BY <1>1 DEF Decoded

LEMMA AcceptedWereOfferedNext ==
  ASSUME TypeOK, Records, TubesInOrder, AnswersFollowOffers,
         AcceptedWereOffered, [Next]_vars
  PROVE  AcceptedWereOffered'
<1> SUFFICES ASSUME sync' # "lost", NEW c \in accepted'
             PROVE  \E t \in Tubes : c \in peerOffered'[t]
  BY DEF AcceptedWereOffered
<1>1. ASSUME sync # "lost", accepted' = accepted,
             \A t \in Tubes : peerOffered[t] \subseteq peerOffered'[t]
      PROVE  \E t \in Tubes : c \in peerOffered'[t]
  BY <1>1 DEF AcceptedWereOffered
<1>2. ASSUME NEW t \in Tubes, CopyBottomToClient(t)
      PROVE  \E s \in Tubes : c \in peerOffered'[s]
  <2> DEFINE block == Head(up[bottom])
  <2>1. UNCHANGED peerOffered
    BY <1>2 DEF CopyBottomToClient, peerVars
  <2>2. sync # "lost"
    <3>1. CASE Abort("empty")
      BY <3>1 DEF Abort, tubeVars
    <3>2. CASE HandleBlock(block)
      BY <3>2, HandleBlockEffect
    <3> QED BY <1>2, <3>1, <3>2 DEF CopyBottomToClient
  <2>3. CASE UNCHANGED accepted
    BY <1>1, <2>1, <2>2, <2>3
  <2>4. CASE /\ HandleBlock(block)
             /\ up[bottom] # <<>>
             /\ accepted' # accepted
    <3>1. /\ block.op = "ACCEPT"
          /\ Decoded(block.id) \in forwarded
          /\ accepted' = accepted \cup {Decoded(block.id)}
      BY <2>2, <2>4, HandleBlockEffect
    <3>2. bottom \in Tubes
      <4>1. up[t] # <<>>
        BY <1>2 DEF CopyBottomToClient
      <4>2. ~ (t > tubes)
        BY <4>1 DEF TubesInOrder
      <4> QED BY <4>2, SharingAssumption DEF TubesInOrder, TypeOK, Tubes
    <3>3. 1 \in 1 .. Len(up[bottom]) /\ up[bottom][1] = block
      BY <2>4, <3>2 DEF TypeOK
    <3>4. block.id \in peerOffered[bottom]
      BY <3>1, <3>2, <3>3 DEF AnswersFollowOffers
    <3>5. Decoded(block.id) = block.id
      BY <3>1, DecodedKeys
    <3> QED BY <2>1, <2>2, <3>1, <3>2, <3>4, <3>5 DEF AcceptedWereOffered
  <2> QED BY <1>2, <2>3, <2>4 DEF CopyBottomToClient, Abort, vncVars
<1>3. ASSUME NEW t \in Tubes, PeerReads(t)
      PROVE  \E s \in Tubes : c \in peerOffered'[s]
  <2>1. \A s \in Tubes : peerOffered[s] \subseteq peerOffered'[s]
    BY <1>3, PeerReadsEffect
  <2>2. UNCHANGED <<accepted, sync>>
    BY <1>3 DEF PeerReads, vncVars
  <2> QED BY <1>1, <2>1, <2>2
<1>4. CASE Peer
  BY <1>1, <1>3, <1>4 DEF Peer, PeerSends, vncVars, peerVars
<1>5. ASSUME NEW d \in Ids, TubeReady(d)
      PROVE  UNCHANGED <<peerOffered, accepted, sync>>
  BY <1>5 DEF TubeReady, vncVars, peerVars
<1>6. ASSUME NEW d \in Ids, TubeReady(d)
      PROVE  \E t \in Tubes : c \in peerOffered'[t]
  BY <1>1, <1>5, <1>6
<1>7. CASE /\ \A d \in Ids : ~ TubeReady(d)
           /\ \A t \in Tubes : ~ CopyBottomToClient(t)
           /\ ~ Peer
  <2>1. UNCHANGED <<sync, peerOffered, accepted>>
    BY <1>7, QuietSync, QuietSteps
  <2> QED BY <1>1, <2>1
<1> QED BY <1>2, <1>4, <1>6, <1>7

-----------------------------------------------------------------------------
(* The theorems.                                                           *)

LEMMA TypeOKNext ==
  ASSUME TypeOK, Records, [Next]_vars
  PROVE  TypeOK'
<1>1. CASE UNCHANGED vars
  BY <1>1 DEF vars, xvars, recordVars, vncVars, tubeVars, peerVars, TypeOK
<1>2. CASE Plugin
  BY <1>2, XEventFilterType, TubeReadyType, TubeFailedType,
     CopyBottomToClientType, CopyClientToBottomType, WatchDroppedType
     DEF Plugin
<1> QED BY <1>1, <1>2, DesktopType, PeerType DEF Next

LEMMA InitIInv == Init => IInv
<1> SUFFICES ASSUME Init PROVE IInv
  OBVIOUS
<1>1. TypeOK
  BY InitType
<1>2. Records
  BY DEF Init, Records, Ids
<1>3. TablesAgree
  BY DEF Init, TablesAgree
<1>4. PixelsNeedConsent
  BY DEF Init, PixelsNeedConsent
<1>5. TubesInOrder
  BY DEF Init, TubesInOrder
<1>6. AnswersFollowOffers
  BY DEF Init, AnswersFollowOffers
<1>7. AcceptedWereOffered
  BY DEF Init, AcceptedWereOffered
<1> QED BY <1>1, <1>2, <1>3, <1>4, <1>5, <1>6, <1>7 DEF IInv

LEMMA IInvNext == IInv /\ [Next]_vars => IInv'
BY TypeOKNext, RecordsNext, TablesAgreeNext, PixelsNeedConsentNext,
   TubesInOrderNext, AnswersFollowOffersNext, AcceptedWereOfferedNext DEF IInv

\* IInv holds in every reachable state.
THEOREM Invariance == Spec => []IInv
BY InitIInv, IInvNext, PTL DEF Spec

\* Every variable keeps to its type, whatever the order of events.  It is not
\* inductive alone: the window of a record handled must have been set (Records).
THEOREM TypeCorrect == Spec => []TypeOK
<1>1. IInv => TypeOK
  BY DEF IInv
<1> QED BY <1>1, Invariance, PTL

\* The two tables of forwarded windows agree, for every number of windows,
\* shares, tubes and X events.
THEOREM TablesAlwaysAgree == Spec => []TablesAgree
<1>1. IInv => TablesAgree
  BY DEF IInv
<1> QED BY <1>1, Invariance, PTL

\* No block with bytes of a window is ever written before an ACCEPT of a channel of
\* that window has been acted upon.
THEOREM ConsentComesFirst == Spec => []PixelsNeedConsent
<1>1. IInv => PixelsNeedConsent
  BY DEF IInv
<1> QED BY <1>1, Invariance, PTL

\* Until a second tube puts the parser out of step, the plugin acts only upon
\* ACCEPTs of channels whose OPEN the remote end has read.
THEOREM OffersComeFirst == Spec => []AcceptedWereOffered
<1>1. IInv => AcceptedWereOffered
  BY DEF IInv
<1> QED BY <1>1, Invariance, PTL

-----------------------------------------------------------------------------
(* When the user waits for each request to be finished.                    *)

Waits == "impatient" \notin Env

\* X events the user causes.
Requests == {"changed", "deleted", "map"}

\* A request is handled before the next, and while no tube is being set up.
OneRequest ==
  /\ \A i \in 1 .. Len(xevents) :
       xevents[i].type \in Requests =>
         /\ i = 1 /\ pending = {}
         /\ xevents[i].type = "changed" => shareProp[xevents[i].win] # Absent
  /\ pending \subseteq {highest}
  /\ pending # {} => tubes = 0

\* There is one tube, and the header is the first thing read from it.
OneStream ==
  /\ tubes <= 1
  /\ sync # "lost"
  /\ tubes = 0 => sync = "header"
  /\ \A t \in Tubes :
       /\ \A i \in 1 .. Len(up[t]) : up[t][i] = Header => sync = "header" /\ i = 1
       /\ t = tubes /\ sync = "header" => up[t] # <<>> /\ up[t][1] = Header

\* What the plugin does about a request.
LEMMA RequestEffect ==
  ASSUME NEW w, NEW state, SetSharingState(w, state), pending = {}
  PROVE  /\ UNCHANGED <<bottom, tubes, sync, up>>
         /\ pending' = {} \/ (pending' = {highest'} /\ bottom = 0)
BY DEF SetSharingState, ShareWindow, UnshareWindow, Register, vncVars, tubeVars, recordVars

LEMMA ShareEffect ==
  ASSUME NEW w, ShareWindow(w), pending = {}
  PROVE  /\ UNCHANGED <<bottom, tubes, sync, up>>
         /\ pending' = {} \/ (pending' = {highest'} /\ bottom = 0)
BY DEF ShareWindow, Register, vncVars, tubeVars, recordVars

\* The event that is handled is the first, and no other is a request.
LEMMA EventHandled ==
  ASSUME TypeOK, OneRequest, NEW type, NextEvent(type)
  PROVE  /\ \A i \in 1 .. Len(xevents') : xevents'[i].type \notin Requests
         /\ type \in Requests => pending = {}
         /\ type = "changed" => shareProp[Head(xevents).win] # Absent
<1>1. /\ xevents \in Seq(XEvents) /\ xevents # <<>> /\ Head(xevents).type = type
      /\ xevents' = Tail(xevents)
  BY DEF NextEvent, TypeOK
<1>2. 1 \in 1 .. Len(xevents) /\ xevents[1] = Head(xevents)
  BY <1>1
<1>3. \A i \in 1 .. Len(Tail(xevents)) :
        i + 1 \in 1 .. Len(xevents) /\ Tail(xevents)[i] = xevents[i + 1] /\ i + 1 # 1
  BY <1>1, AppendTail
<1> QED BY <1>1, <1>2, <1>3 DEF OneRequest, Requests

LEMMA Appended ==
  ASSUME NEW S, NEW s \in Seq(S), NEW e \in S
  PROVE  /\ Append(s, e) \in Seq(S)
         /\ \A i \in 1 .. Len(Append(s, e)) :
              \/ i \in 1 .. Len(s) /\ Append(s, e)[i] = s[i]
              \/ i = Len(s) + 1 /\ Append(s, e)[i] = e
         /\ s = <<>> => \A i \in 1 .. Len(Append(s, e)) : i = 1
         /\ Append(s, e) # <<>>
         /\ s # <<>> => Append(s, e)[1] = s[1]
         /\ \A i \in 1 .. Len(s) : i \in 1 .. Len(Append(s, e)) /\ Append(s, e)[i] = s[i]
         /\ \E i \in 1 .. Len(Append(s, e)) : Append(s, e)[i] = e
<1> DEFINE n == Len(s)
<1>1. /\ n \in Nat /\ Append(s, e) \in Seq(S)
      /\ Len(Append(s, e)) = n + 1 /\ Append(s, e)[n + 1] = e
      /\ \A i \in 1 .. n : Append(s, e)[i] = s[i]
  OBVIOUS
<1>2. s = <<>> <=> n = 0
  OBVIOUS
<1> HIDE DEF n
<1>3. \A i \in 1 .. n + 1 : i \in 1 .. n \/ i = n + 1
  BY <1>1
<1>4. n = 0 => \A i \in 1 .. n + 1 : i = 1
  BY <1>1
<1>5. Append(s, e) # <<>>
  <2>1. Len(<<>>) = 0
    OBVIOUS
  <2> QED BY <1>1, <2>1
<1>6. (n # 0 => 1 \in 1 .. n) /\ n + 1 \in 1 .. n + 1 /\ 1 .. n \subseteq 1 .. n + 1
  BY <1>1
<1> QED BY <1>1, <1>2, <1>3, <1>4, <1>5, <1>6 DEF n

\* What a new event is behind.
LEMMA EventDelivered ==
  ASSUME TypeOK, NEW type, NEW w, [type |-> type, win |-> w] \in XEvents,
         Deliver(type, w)
  PROVE  /\ xevents' \in Seq(XEvents)
         /\ \A i \in 1 .. Len(xevents') :
              \/ i \in 1 .. Len(xevents) /\ xevents'[i] = xevents[i]
              \/ xevents'[i].type = type /\ xevents'[i].win = w
         /\ xevents = <<>> => \A i \in 1 .. Len(xevents') :
              i = 1 /\ xevents'[i].type = type /\ xevents'[i].win = w
         /\ \A i \in 1 .. Len(xevents) :
              i \in 1 .. Len(xevents') /\ xevents'[i] = xevents[i]
         /\ \E i \in 1 .. Len(xevents') :
              xevents'[i].type = type /\ xevents'[i].win = w
<1>1. xevents \in Seq(XEvents)
  BY DEF TypeOK
<1>2. PICK e \in XEvents : e = [type |-> type, win |-> w]
  OBVIOUS
<1>3. xevents' = Append(xevents, e) /\ e.type = type /\ e.win = w
  BY <1>2 DEF Deliver
<1>4. xevents = <<>> => ~ \E i \in 1 .. Len(xevents) : TRUE
  OBVIOUS
<1> QED BY <1>1, <1>3, <1>4, Appended

LEMMA OneRequestNext ==
  ASSUME Waits, IInv, OneRequest, [Next]_vars
  PROVE  OneRequest'
<1>1. TypeOK /\ bottom = tubes
  BY DEF IInv, TubesInOrder
<1>2. CASE XEventFilter
  <2>1. PICK type : NextEvent(type)
    BY <1>2 DEF XEventFilter, PropertyChanged, PropertyDeleted, WindowMapped,
                PointerMoved, PointerLeft, ReportPointer
  <2>2. \A i \in 1 .. Len(xevents') : xevents'[i].type \notin Requests
    BY <1>1, <2>1, EventHandled
  <2>3. CASE NextEvent("changed") \/ NextEvent("deleted") \/ NextEvent("map")
    <3>1. pending = {}
      BY <1>1, <2>3, EventHandled DEF Requests
    <3>2. \/ \E w, state : SetSharingState(w, state)
          \/ \E w : ShareWindow(w)
          \/ UNCHANGED <<pending, tubes>>
      BY <1>2 DEF XEventFilter, PropertyChanged, PropertyDeleted, WindowMapped,
                  PointerMoved, PointerLeft, ReportPointer, Abort, tubeVars
    <3>3. UNCHANGED tubes /\ (pending' = {} \/ (pending' = {highest'} /\ bottom = 0))
      BY <3>1, <3>2, RequestEffect, ShareEffect
    <3> QED BY <1>1, <2>2, <3>3 DEF OneRequest
  <2>4. CASE PointerMoved \/ PointerLeft
    <3>1. UNCHANGED <<pending, highest, tubes>>
      BY <2>4 DEF PointerMoved, PointerLeft, ReportPointer, tubeVars, recordVars
    <3> QED BY <2>2, <3>1 DEF OneRequest
  <2> QED BY <1>2, <2>3, <2>4 DEF XEventFilter, PropertyChanged, PropertyDeleted,
                                  WindowMapped
<1>3. ASSUME NEW c \in Ids, TubeReady(c) \/ TubeFailed(c) PROVE OneRequest'
  <2>1. /\ c \in pending /\ pending' = pending \ {c}
        /\ UNCHANGED <<xevents, shareProp, highest>>
    BY <1>3 DEF TubeReady, TubeFailed, recordVars
  <2> QED BY <2>1 DEF OneRequest
<1>4. CASE UNCHANGED <<xevents, shareProp, pending, highest, tubes>>
  BY <1>4 DEF OneRequest
<1>5. ASSUME NEW t \in Tubes, CopyBottomToClient(t) PROVE OneRequest'
  <2>1. UNCHANGED <<xevents, shareProp, pending, highest, tubes>>
    BY <1>5 DEF CopyBottomToClient, Abort, tubeVars, recordVars
  <2> QED BY <1>4, <2>1
<1>6. ASSUME NEW c \in Ids, CopyClientToBottom(c) \/ WatchDropped(c) PROVE OneRequest'
  <2>1. UNCHANGED <<xevents, shareProp, pending, highest, tubes>>
    BY <1>6 DEF CopyClientToBottom, WatchDropped, xvars, tubeVars, recordVars
  <2> QED BY <1>4, <2>1
<1>7. CASE Peer
  <2>1. UNCHANGED <<xevents, shareProp, pending, highest, tubes>>
    BY <1>7 DEF Peer, PeerReads, PeerSends, xvars, recordVars
  <2> QED BY <1>4, <2>1
<1>8. ASSUME NEW w \in Windows, NEW type \in Requests, Deliver(type, w), UserReady,
             type = "changed" => shareProp'[w] # Absent
      PROVE  OneRequest'
  <2>1. xevents = <<>> /\ pending = {}
    BY <1>8 DEF UserReady, Waits
  <2>2. UNCHANGED <<pending, highest, tubes>>
    BY <1>8 DEF Deliver, tubeVars, recordVars
  <2>3. Len(xevents) = 0
    BY <2>1
  <2>4. [type |-> type, win |-> w] \in XEvents
    BY DEF Requests, XEvents
  <2>5. \A i \in 1 .. Len(xevents') :
          i = 1 /\ xevents'[i].type = type /\ xevents'[i].win = w
    BY <1>1, <1>8, <2>1, <2>4, EventDelivered
  <2> QED BY <1>8, <2>1, <2>2, <2>5 DEF OneRequest
<1>9. ASSUME NEW w \in Windows, MovePointer(w) PROVE OneRequest'
  <2>1. PICK type \in {"motion", "leave"} : Deliver(type, w)
    BY <1>9, SharingAssumption DEF MovePointer
  <2>2. UNCHANGED <<pending, highest, tubes, shareProp>>
    BY <1>9, <2>1 DEF MovePointer, Deliver, tubeVars, recordVars
  <2>3. [type |-> type, win |-> w] \in XEvents
    BY DEF XEvents
  <2>4. \A i \in 1 .. Len(xevents') :
          \/ i \in 1 .. Len(xevents) /\ xevents'[i] = xevents[i]
          \/ xevents'[i].type = type
    BY <1>1, <2>1, <2>3, EventDelivered
  <2> QED BY <2>2, <2>4 DEF OneRequest, Requests
<1>10. CASE Desktop
  <2>1. ASSUME NEW w \in Windows, NEW value \in ShareValues, SetShare(w, value)
        PROVE  OneRequest'
    <3>1. shareProp \in [Windows -> {Absent} \cup 0 .. 3] /\ value # Absent
      BY <1>1, SharingAssumption DEF TypeOK, Absent
    <3>2. shareProp'[w] # Absent
      BY <2>1, <3>1 DEF SetShare
    <3> QED BY <1>8, <2>1, <3>2 DEF SetShare, Requests
  <2>2. ASSUME NEW w \in Windows, DeleteShare(w) \/ MapWindow(w) PROVE OneRequest'
    BY <1>8, <2>2 DEF DeleteShare, MapWindow, Requests
  <2>3. ASSUME NEW w \in Windows, ServerHangsUp(w) PROVE OneRequest'
    BY <1>4, <2>3 DEF ServerHangsUp, xvars, tubeVars, recordVars
  <2> QED BY <1>9, <1>10, <2>1, <2>2, <2>3 DEF Desktop
<1>11. CASE UNCHANGED vars
  BY <1>4, <1>11 DEF vars, xvars, recordVars, tubeVars
<1> QED BY <1>2, <1>3, <1>5, <1>6, <1>7, <1>10, <1>11 DEF Next, Plugin

\* With one tube, the watch that fires is the one of the tube that is read.
LEMMA BottomIsRead ==
  ASSUME IInv, OneStream, NEW t \in Tubes, up[t] # <<>>
  PROVE  t = bottom /\ t = tubes /\ t = 1
<1>1. TypeOK /\ bottom = tubes /\ ~ (t > tubes)
  BY DEF IInv, TubesInOrder
<1> QED BY <1>1, SharingAssumption DEF OneStream, TypeOK, Tubes

\* What is read may change "sync" only at the header.
LEMMA SyncEffect ==
  ASSUME NEW block, HandleBlock(block), sync # "lost"
  PROVE  \/ block = Header /\ sync = "header" /\ sync' = "blocks"
         \/ block = Header /\ sync = "blocks"
         \/ block # Header /\ sync' = sync
BY DEF HandleBlock, Header

LEMMA OneStreamNext ==
  ASSUME IInv, OneRequest, OneStream, [Next]_vars
  PROVE  OneStream'
<1>1. /\ TypeOK /\ bottom = tubes /\ up \in [Tubes -> Seq(UpBlocks)]
      /\ \A t \in Tubes : t > tubes => up[t] = <<>>
      /\ tubes \in Nat /\ tubes <= 1 /\ Tubes \subseteq Nat \ {0}
  BY DEF IInv, TubesInOrder, TypeOK, OneStream, Tubes
<1>2. ASSUME NEW c \in Ids, TubeReady(c) PROVE OneStream'
  <2>1. tubes = 0 /\ sync = "header"
    BY <1>2 DEF TubeReady, OneRequest, OneStream
  <2>2. PICK q : q = <<Header, Avatar>> /\ q \in Seq(UpBlocks)
    <3>1. <<Header, Avatar>> \in Seq(UpBlocks)
      BY DEF UpBlocks
    <3> QED BY <3>1
  <2>3. /\ tubes' = 1 /\ sync' = "header" /\ 1 \in Tubes
        /\ up' = [up EXCEPT ![1] = q]
    BY <1>2, <2>1, <2>2 DEF TubeReady, Tubes
  <2>4. \A t \in Tubes : up'[t] = IF t = 1 THEN q ELSE up[t]
    BY <1>1, <2>3
  <2>5. q # <<>> /\ q[1] = Header /\ \A i \in 1 .. Len(q) : q[i] = Header => i = 1
    <3>1. Header # Avatar
      BY DEF Header, Avatar
    <3> QED BY <2>2, <3>1
  <2>6. \A t \in Tubes : t # 1 => up'[t] = <<>>
    BY <1>1, <2>1, <2>4
  <2>7. \A t \in Tubes :
          /\ \A i \in 1 .. Len(up'[t]) : up'[t][i] = Header => sync' = "header" /\ i = 1
          /\ t = tubes' /\ sync' = "header" => up'[t] # <<>> /\ up'[t][1] = Header
    <3> SUFFICES ASSUME NEW t \in Tubes
                 PROVE  /\ \A i \in 1 .. Len(up'[t]) :
                             up'[t][i] = Header => sync' = "header" /\ i = 1
                        /\ t = tubes' /\ sync' = "header" =>
                             up'[t] # <<>> /\ up'[t][1] = Header
      OBVIOUS
    <3>1. CASE t = 1
      BY <2>3, <2>4, <2>5, <3>1
    <3>2. CASE t # 1
      <4>1. up'[t] = <<>> /\ t # tubes'
        BY <2>3, <2>6, <3>2
      <4> QED BY <4>1
    <3> QED BY <3>1, <3>2
  <2> QED BY <2>3, <2>7 DEF OneStream
<1>3. ASSUME NEW t \in Tubes, CopyBottomToClient(t) PROVE OneStream'
  <2>1. t = bottom /\ t = tubes /\ t = 1 /\ up[t] # <<>>
    BY <1>3, BottomIsRead DEF CopyBottomToClient
  <2>2. /\ HandleBlock(Head(up[t])) /\ up' = [up EXCEPT ![t] = Tail(up[t])]
        /\ UNCHANGED tubes
    BY <1>3, <2>1 DEF CopyBottomToClient
  <2>3. PICK q \in Seq(UpBlocks) : q = up[t]
    BY <1>1
  <2>4. /\ Head(q) = q[1] /\ 1 \in 1 .. Len(q) /\ Tail(q) \in Seq(UpBlocks)
        /\ \A i \in 1 .. Len(Tail(q)) :
             i + 1 \in 1 .. Len(q) /\ Tail(q)[i] = q[i + 1] /\ i + 1 # 1
    BY <2>1, <2>3, AppendTail
  <2>5. /\ \A i \in 1 .. Len(q) : q[i] = Header => sync = "header" /\ i = 1
        /\ sync = "header" => q[1] = Header
        /\ sync # "lost" /\ sync \in {"header", "blocks", "lost"}
    BY <1>1, <2>1, <2>3 DEF OneStream, TypeOK
  <2>6. sync' = "blocks"
    BY <2>2, <2>3, <2>4, <2>5, SyncEffect
  <2>7. \A s \in Tubes : up'[s] = IF s = t THEN Tail(q) ELSE up[s]
    BY <1>1, <2>2, <2>3, <2>4
  <2>8. \A i \in 1 .. Len(Tail(q)) : Tail(q)[i] # Header
    BY <2>4, <2>5
  <2>9. \A s \in Tubes : s # t => up'[s] = <<>>
    BY <1>1, <2>1, <2>7
  <2>10. \A s \in Tubes : \A i \in 1 .. Len(up'[s]) : up'[s][i] # Header
    <3> SUFFICES ASSUME NEW s \in Tubes, NEW i \in 1 .. Len(up'[s])
                 PROVE  up'[s][i] # Header
      OBVIOUS
    <3>1. CASE s = t
      BY <2>7, <2>8, <3>1
    <3>2. CASE s # t
      BY <2>9, <3>2
    <3> QED BY <3>1, <3>2
  <2> QED BY <1>1, <2>1, <2>2, <2>6, <2>10 DEF OneStream
<1>4. ASSUME NEW t \in Tubes, NEW op \in {"ACCEPT", "CLOSE", "DATA"}, NEW id \in Nat,
             up' = [up EXCEPT ![t] = Append(@, [op |-> op, id |-> id])],
             UNCHANGED <<tubes, sync>>
      PROVE  OneStream'
  <2>1. PICK b : b = [op |-> op, id |-> id] /\ b \in UpBlocks /\ b # Header
    <3>1. [op |-> op, id |-> id] \in UpBlocks
      BY DEF UpBlocks
    <3>2. [op |-> op, id |-> id].op # Header.op
      BY DEF Header
    <3> QED BY <3>1, <3>2
  <2>2. PICK q \in Seq(UpBlocks) : q = up[t]
    BY <1>1
  <2>3. /\ Append(q, b) \in Seq(UpBlocks) /\ Append(q, b) # <<>>
        /\ \A i \in 1 .. Len(Append(q, b)) :
             \/ i \in 1 .. Len(q) /\ Append(q, b)[i] = q[i]
             \/ Append(q, b)[i] = b
        /\ q # <<>> => Append(q, b)[1] = q[1]
    BY <2>1, Appended
  <2>4. up' = [up EXCEPT ![t] = Append(q, b)]
    BY <1>4, <2>1, <2>2
  <2>5. \A s \in Tubes : up'[s] = IF s = t THEN Append(q, b) ELSE up[s]
    BY <1>1, <2>3, <2>4
  <2>6. /\ \A i \in 1 .. Len(q) : q[i] = Header => sync = "header" /\ i = 1
        /\ t = tubes /\ sync = "header" => q # <<>> /\ q[1] = Header
    BY <2>2 DEF OneStream
  <2> SUFFICES ASSUME NEW s \in Tubes
               PROVE  /\ \A i \in 1 .. Len(up'[s]) :
                           up'[s][i] = Header => sync = "header" /\ i = 1
                      /\ s = tubes /\ sync = "header" =>
                           up'[s] # <<>> /\ up'[s][1] = Header
    BY <1>4 DEF OneStream
  <2>7. CASE s = t
    <3>1. PICK r : r = Append(q, b)
      OBVIOUS
    <3>2. r = up'[s]
      BY <2>5, <2>7, <3>1
    <3>3. /\ r # <<>>
          /\ q # <<>> => r[1] = q[1]
          /\ \A i \in 1 .. Len(r) : (i \in 1 .. Len(q) /\ r[i] = q[i]) \/ r[i] = b
      BY <2>3, <3>1
    <3>4. \A i \in 1 .. Len(r) : r[i] = Header => sync = "header" /\ i = 1
      BY <2>1, <2>6, <3>3
    <3>5. s = tubes /\ sync = "header" => r # <<>> /\ r[1] = Header
      BY <2>6, <2>7, <3>3
    <3> QED BY <3>2, <3>4, <3>5
  <2>8. CASE s # t
    BY <2>5, <2>8 DEF OneStream
  <2> QED BY <2>7, <2>8
<1>5. CASE UNCHANGED <<tubes, sync, up>>
  BY <1>5 DEF OneStream
<1>6. ASSUME NEW t \in Tubes, PeerReads(t) PROVE OneStream'
  <2>1. UNCHANGED <<tubes, sync>>
    BY <1>6 DEF PeerReads
  <2>2. \/ UNCHANGED up
        \/ \E op \in {"ACCEPT", "CLOSE"}, id \in Nat :
             up' = [up EXCEPT ![t] = Append(@, [op |-> op, id |-> id])]
    BY <1>1, <1>6, PeerReadsEffect
  <2> QED BY <1>4, <1>5, <2>1, <2>2
<1>7. ASSUME NEW t \in Tubes, NEW op \in PeerOps, NEW id \in peerOffered[t],
             PeerSends(t, op, id)
      PROVE  OneStream'
  <2>1. id \in Nat /\ op \in {"ACCEPT", "CLOSE", "DATA"}
    BY <1>1, SharingAssumption DEF TypeOK
  <2>2. /\ up' = [up EXCEPT ![t] = Append(@, [op |-> op, id |-> id])]
        /\ UNCHANGED <<tubes, sync>>
    BY <1>7 DEF PeerSends, PeerWrites
  <2> QED BY <1>4, <2>1, <2>2
<1>8. CASE Peer
  BY <1>6, <1>7, <1>8 DEF Peer
<1> QED BY <1>2, <1>3, <1>5, <1>8, QuietSteps, QuietSync

\* No request and no block finds the plugin with something it cannot read.
LEMMA HarmlessNext ==
  ASSUME Waits, Named = Windows, IInv, OneRequest, OneStream, OnlyStaleRecordsKill,
         [Next]_vars
  PROVE  OnlyStaleRecordsKill'
<1>0. CASE fate # "running"
  <2>1. UNCHANGED <<fate, window, watches, hungUp>>
    BY <1>0 DEF Next, vars, recordVars, vncVars
  <2> QED BY <2>1 DEF OnlyStaleRecordsKill
<1> SUFFICES ASSUME fate = "running" PROVE OnlyStaleRecordsKill'
  BY <1>0
<1>1. CASE UNCHANGED fate
  BY <1>1 DEF OnlyStaleRecordsKill
<1>2. CASE PropertyChanged
  <2>1. shareProp[Head(xevents).win] # Absent
    BY <1>2, EventHandled DEF IInv, PropertyChanged
  <2> QED BY <1>1, <1>2, <2>1 DEF PropertyChanged
<1>3. ASSUME NEW t \in Tubes, CopyBottomToClient(t) PROVE UNCHANGED fate
  <2>1. t = bottom /\ up[t] # <<>>
    BY <1>3, BottomIsRead DEF CopyBottomToClient
  <2>2. HandleBlock(Head(up[bottom]))
    BY <1>3, <2>1 DEF CopyBottomToClient
  <2>3. ASSUME NEW c, HandleAccept(c) PROVE UNCHANGED fate
    <3>1. c \in forwarded => window[c] \in Named
      BY RecordsOfWindows DEF IInv
    <3> QED BY <2>3, <3>1 DEF HandleAccept
  <2>4. sync # "lost"
    BY DEF OneStream
  <2> QED BY <2>2, <2>3, <2>4 DEF HandleBlock
<1>4. ASSUME NEW c \in Ids, CopyClientToBottom(c) PROVE OnlyStaleRecordsKill'
  <2>1. UNCHANGED <<window, watches, hungUp>> /\ c \in watches
    BY <1>4 DEF CopyClientToBottom, recordVars, vncVars
  <2>2. \/ fate' \in {fate, "stale"}
        \/ window[c] \in hungUp /\ fate' = "bus"
    BY <1>4 DEF CopyClientToBottom
  <2> QED BY <2>1, <2>2 DEF OnlyStaleRecordsKill
<1>5. CASE PropertyDeleted \/ WindowMapped \/ PointerMoved \/ PointerLeft
  BY <1>1, <1>5 DEF PropertyDeleted, WindowMapped, PointerMoved, PointerLeft, ReportPointer
<1>6. ASSUME NEW c \in Ids, TubeReady(c) \/ TubeFailed(c) \/ WatchDropped(c)
      PROVE  UNCHANGED fate
  BY <1>6 DEF TubeReady, TubeFailed, WatchDropped
<1>7. CASE Desktop
  BY <1>1, <1>7 DEF Desktop, SetShare, DeleteShare, MapWindow, MovePointer, ServerHangsUp,
                    Deliver
<1>8. CASE Peer
  BY <1>1, <1>8 DEF Peer, PeerReads, PeerSends
<1>9. CASE UNCHANGED vars
  BY <1>1, <1>9 DEF vars
<1> QED BY <1>1, <1>2, <1>3, <1>4, <1>5, <1>6, <1>7, <1>8, <1>9
         DEF Next, Plugin, XEventFilter

-----------------------------------------------------------------------------
(* When, besides, no window is asked for twice: no tool stores 1 where it  *)
(* is already, the properties are 0 or 1, and no window is transient.      *)

AsksOnce ==
  /\ Waits
  /\ "repeats" \notin Env
  /\ ShareValues \subseteq {0, 1}
  /\ Parent = [w \in Windows |-> NoWindow]

Asked(w) ==
  \E i \in 1 .. Len(xevents) : xevents[i].type \in Requests /\ xevents[i].win = w

\* What is shared is what the properties say, but for a request on its way.
PropertiesRule ==
  /\ transientFor = Parent
  /\ \A i \in 1 .. Len(xevents) :
       /\ xevents[i].type # "map"
       /\ xevents[i].type = "changed" /\ shareProp[xevents[i].win] = 1
            => byX11[xevents[i].win] = 0
  /\ \A w \in Windows :
       /\ shareProp[w] \in {Absent, 0, 1}
       /\ byX11[w] # 0 => shareProp[w] = 1 \/ Asked(w)

\* A window has one live record, and a server that is started once.
OneRecord ==
  /\ \A c \in forwarded : byX11[window[c]] = c
  /\ \A c \in forwarded : window[c] \in servers => c \in client
  /\ \A c \in watches : window[c] \in servers

LEMMA RegisterOnce ==
  ASSUME IInv, OneRecord, OneReader, NEW w \in Windows, byX11[w] = 0, ShareWindow(w)
  PROVE  OneRecord' /\ OneReader'
<1>1. PICK c : c = highest + 1
  OBVIOUS
<1>2. /\ window' = [window EXCEPT ![c] = w] /\ byX11' = [byX11 EXCEPT ![w] = c]
      /\ forwarded' = forwarded \cup {c}
      /\ client' = IF w \in servers THEN client \cup {c} ELSE client
      /\ UNCHANGED <<watches, servers>>
  BY <1>1 DEF ShareWindow, Register, vncVars
<1>3. /\ c \in Ids /\ highest \in Nat
      /\ window \in [Ids -> Windows \cup {NoWindow}]
      /\ byX11 \in [Windows -> 0 .. MaxShares]
  BY <1>1, ProtocolAssumption DEF ShareWindow, IInv, TypeOK, Ids
<1>4. \A d \in forwarded \cup watches : d \in Ids \ {c} /\ window[d] \in Windows
  <2>1. \A d \in forwarded \cup watches : d \in Ids /\ window[d] \in Windows
    BY RecordsOfWindows DEF IInv
  <2>2. window[c] = NoWindow
    BY <1>1, <1>3 DEF IInv, Records
  <2> QED BY <2>1, <2>2, ProtocolAssumption
<1>5. \A d \in forwarded \cup watches : window'[d] = window[d]
  BY <1>2, <1>3, <1>4
<1>6. \A d \in forwarded : window[d] # w
  BY <1>3, <1>4 DEF OneRecord, Ids
<1>7. window'[c] = w /\ byX11'[w] = c /\ \A v \in Windows \ {w} : byX11'[v] = byX11[v]
  BY <1>2, <1>3
<1>8. OneRecord'
  BY <1>2, <1>4, <1>5, <1>6, <1>7 DEF OneRecord
<1>9. OneReader'
  BY <1>2, <1>5 DEF OneReader
<1> QED BY <1>8, <1>9

LEMMA UnregisterOnce ==
  ASSUME IInv, OneRecord, OneReader, NEW w \in Windows, UnshareWindow(w)
  PROVE  OneRecord' /\ OneReader' /\ byX11'[w] = 0
         /\ \A v \in Windows \ {w} : byX11'[v] = byX11[v]
<1>1. byX11 \in [Windows -> 0 .. MaxShares]
      /\ \A d \in forwarded : d # 0 /\ window[d] \in Windows
  <2>1. TypeOK /\ Records
    BY DEF IInv
  <2>2. \A d \in forwarded : d \in Ids /\ window[d] \in Windows
    BY <2>1, RecordsOfWindows
  <2> QED BY <2>1, <2>2 DEF TypeOK, Ids
<1>2. UNCHANGED <<window, client, watches, servers>>
  BY DEF UnshareWindow, vncVars
<1>3. CASE byX11[w] = 0
  BY <1>2, <1>3 DEF UnshareWindow, OneRecord, OneReader
<1>4. CASE byX11[w] # 0
  <2>1. byX11' = [byX11 EXCEPT ![w] = 0] /\ forwarded' = forwarded \ {byX11[w]}
    BY <1>4 DEF UnshareWindow
  <2>2. byX11'[w] = 0 /\ \A v \in Windows \ {w} : byX11'[v] = byX11[v]
    BY <1>1, <2>1, ProtocolAssumption
  <2>3. \A d \in forwarded' : d \in forwarded /\ window[d] # w
    BY <2>1 DEF OneRecord
  <2> QED BY <1>1, <1>2, <2>2, <2>3 DEF OneRecord, OneReader
<1> QED BY <1>3, <1>4

\* ACCEPT starts a server for a window that has none.
LEMMA AcceptOnce ==
  ASSUME IInv, OneRecord, OneReader, NEW c, HandleAccept(c),
         UNCHANGED <<window, forwarded, byX11>>
  PROVE  OneRecord' /\ OneReader'
<1>1. CASE UNCHANGED <<client, watches, servers>>
  BY <1>1 DEF OneRecord, OneReader
<1>2. CASE /\ c \in forwarded /\ c \notin client
           /\ servers' = servers \cup {window[c]} /\ client' = client \cup {c}
           /\ watches' = watches \cup {c}
  <2>1. window[c] \notin servers
    BY <1>2 DEF OneRecord
  <2>2. \A d \in watches : window[d] # window[c]
    BY <2>1 DEF OneRecord
  <2>3. \A d \in forwarded : window[d] = window[c] => d = c
    BY <1>2 DEF OneRecord
  <2> QED BY <1>2, <2>2, <2>3 DEF OneRecord, OneReader
<1> QED BY <1>1, <1>2 DEF HandleAccept, vncVars

\* A request is the first event, and of the window that event is about.
LEMMA AskedFirst ==
  ASSUME TypeOK, OneRequest, NEW type, NextEvent(type)
  PROVE  /\ \A v : Asked(v) => v = Head(xevents).win /\ type \in Requests
         /\ 1 \in 1 .. Len(xevents) /\ xevents[1] = Head(xevents) /\ Head(xevents).type = type
<1>1. xevents \in Seq(XEvents) /\ xevents # <<>> /\ Head(xevents).type = type
  BY DEF NextEvent, TypeOK
<1>2. 1 \in 1 .. Len(xevents) /\ xevents[1] = Head(xevents)
  BY <1>1
<1>3. \A i \in 1 .. Len(xevents') : xevents'[i].type \notin Requests
  BY EventHandled
<1> QED BY <1>1, <1>2, <1>3 DEF Asked, OneRequest

LEMMA StateOne ==
  ASSUME NEW w, SetSharingState(w, 1)
  PROVE  ShareWindow(w)
BY DEF SetSharingState

LEMMA StateZero ==
  ASSUME NEW w, SetSharingState(w, 0)
  PROVE  UnshareWindow(w)
BY DEF SetSharingState

LEMMA RequestOnce ==
  ASSUME AsksOnce, IInv, OneRequest, PropertiesRule, OneRecord, OneReader,
         NEW type \in {"changed", "deleted"}, NextEvent(type),
         NEW w, w = Head(xevents).win,
         NEW state, SetSharingState(w, state), UNCHANGED <<shareProp, transientFor>>,
         type = "changed" => state = shareProp[w],
         type = "deleted" => state = 0
  PROVE  PropertiesRule' /\ OneRecord' /\ OneReader'
<1>2. TypeOK /\ w \in Windows /\ byX11 \in [Windows -> 0 .. MaxShares]
  BY EventsType DEF IInv, TypeOK
<1>3. /\ \A v : Asked(v) => v = w
      /\ 1 \in 1 .. Len(xevents) /\ xevents[1] = Head(xevents) /\ Head(xevents).type = type
  BY <1>2, AskedFirst
<1>4. /\ \A i \in 1 .. Len(xevents') : xevents'[i].type \notin Requests
      /\ type = "changed" => shareProp[w] \in {0, 1}
  BY <1>2, EventHandled DEF PropertiesRule
<1>6. /\ OneRecord' /\ OneReader'
      /\ \A v \in Windows \ {w} : byX11'[v] = byX11[v]
      /\ byX11'[w] # 0 => shareProp[w] = 1
  <2>1. CASE type = "changed" /\ shareProp[w] = 1
    <3>1. byX11[w] = 0
      BY <1>3, <2>1 DEF PropertiesRule
    <3>5. ShareWindow(w)
      BY <1>4, <2>1, StateOne
    <3>3. byX11' = [byX11 EXCEPT ![w] = highest + 1]
      BY <3>5 DEF ShareWindow, Register
    <3>4. \A v \in Windows \ {w} : byX11'[v] = byX11[v]
      BY <1>2, <3>3
    <3> QED BY <1>2, <2>1, <3>1, <3>4, <3>5, RegisterOnce
  <2>2. CASE state = 0
    <3>1. UnshareWindow(w)
      BY <1>4, <2>2, StateZero
    <3> QED BY <1>2, <3>1, UnregisterOnce
  <2> QED BY <1>4, <2>1, <2>2
<1>7. \A v \in Windows : byX11'[v] # 0 => shareProp'[v] = 1
  BY <1>3, <1>6 DEF PropertiesRule
<1>8. \A i \in 1 .. Len(xevents') : xevents'[i].type \notin {"map", "changed"}
  BY <1>4 DEF Requests
<1>9. PropertiesRule'
  BY <1>7, <1>8 DEF PropertiesRule
<1> QED BY <1>6, <1>9

LEMMA DesktopOnce ==
  ASSUME AsksOnce, IInv, OneRequest, PropertiesRule, Desktop
  PROVE  PropertiesRule'
<1>1. TypeOK /\ shareProp \in [Windows -> {Absent} \cup 0 .. 3]
  BY DEF IInv, TypeOK
<1>2. ASSUME NEW w \in Windows, NEW type \in {"changed", "deleted"}, Deliver(type, w),
             UserReady, NEW value \in {Absent, 0, 1},
             shareProp' = [shareProp EXCEPT ![w] = value],
             type = "changed" /\ value = 1 => shareProp[w] # 1
      PROVE  PropertiesRule'
  <2>1. xevents = <<>> /\ UNCHANGED <<transientFor, byX11>>
    BY <1>2 DEF UserReady, AsksOnce, Waits, Deliver, recordVars
  <2>2. [type |-> type, win |-> w] \in XEvents
    BY DEF XEvents
  <2>3. /\ \A i \in 1 .. Len(xevents') : xevents'[i].type = type /\ xevents'[i].win = w
        /\ \E i \in 1 .. Len(xevents') : xevents'[i].type = type /\ xevents'[i].win = w
    BY <1>1, <1>2, <2>1, <2>2, EventDelivered
  <2>4. \A v \in Windows : ~ Asked(v)
    <3>1. \A i \in 1 .. Len(xevents) : FALSE
      <4>1. \A i \in 1 .. Len(<<>>) : FALSE
        OBVIOUS
      <4> QED BY <2>1, <4>1
    <3> QED BY <3>1 DEF Asked
  <2>5. Asked(w)'
    BY <2>3 DEF Asked, Requests
  <2>6. \A v \in Windows : shareProp'[v] = IF v = w THEN value ELSE shareProp[v]
    BY <1>1, <1>2
  <2>7. \A v \in Windows : byX11[v] # 0 => shareProp[v] = 1
    BY <2>4 DEF PropertiesRule
  <2>8. \A v \in Windows : /\ shareProp'[v] \in {Absent, 0, 1}
                           /\ byX11'[v] # 0 => shareProp'[v] = 1 \/ Asked(v)'
    BY <2>1, <2>5, <2>6, <2>7 DEF PropertiesRule
  <2>9. \A i \in 1 .. Len(xevents') :
          /\ xevents'[i].type # "map"
          /\ xevents'[i].type = "changed" /\ shareProp'[xevents'[i].win] = 1
               => byX11'[xevents'[i].win] = 0
    BY <1>2, <2>1, <2>3, <2>6, <2>7
  <2> QED BY <2>1, <2>8, <2>9 DEF PropertiesRule
<1>3. ASSUME NEW w \in Windows, NEW value \in ShareValues, SetShare(w, value)
      PROVE  PropertiesRule'
  <2>1. value \in {Absent, 0, 1} /\ (value = 1 => shareProp[w] # 1)
    BY <1>3 DEF SetShare, AsksOnce
  <2> QED BY <1>2, <1>3, <2>1 DEF SetShare
<1>4. ASSUME NEW w \in Windows, DeleteShare(w) PROVE PropertiesRule'
  BY <1>2, <1>4 DEF DeleteShare
<1>5. ASSUME NEW w \in Windows, MapWindow(w) PROVE FALSE
  BY <1>5 DEF MapWindow, PropertiesRule, AsksOnce
<1>6. ASSUME NEW w \in Windows, MovePointer(w) PROVE PropertiesRule'
  <2>1. PICK type \in {"motion", "leave"} : Deliver(type, w)
    BY <1>6, SharingAssumption DEF MovePointer
  <2>2. UNCHANGED <<transientFor, byX11, shareProp>>
    BY <1>6, <2>1 DEF MovePointer, Deliver, recordVars
  <2>3. [type |-> type, win |-> w] \in XEvents
    BY DEF XEvents
  <2>4. /\ \A i \in 1 .. Len(xevents') :
             \/ i \in 1 .. Len(xevents) /\ xevents'[i] = xevents[i]
             \/ xevents'[i].type = type
        /\ \A i \in 1 .. Len(xevents) :
             i \in 1 .. Len(xevents') /\ xevents'[i] = xevents[i]
    BY <1>1, <2>1, <2>3, EventDelivered
  <2>5. \A v : Asked(v) => Asked(v)'
    BY <2>4 DEF Asked
  <2> QED BY <2>2, <2>4, <2>5 DEF PropertiesRule
<1>7. ASSUME NEW w \in Windows, ServerHangsUp(w) PROVE PropertiesRule'
  BY <1>7 DEF ServerHangsUp, xvars, recordVars, PropertiesRule, Asked
<1> QED BY <1>3, <1>4, <1>5, <1>6, <1>7 DEF Desktop

LEMMA OnceNext ==
  ASSUME AsksOnce, IInv, OneRequest, PropertiesRule, OneRecord, OneReader, [Next]_vars
  PROVE  PropertiesRule' /\ OneRecord' /\ OneReader'
<1>1. ASSUME UNCHANGED <<transientFor, xevents, shareProp, byX11>>
      PROVE  PropertiesRule'
  BY <1>1 DEF PropertiesRule, Asked
<1>2. ASSUME UNCHANGED <<forwarded, window, byX11, servers, client>>,
             watches' \subseteq watches
      PROVE  OneRecord' /\ OneReader'
  BY <1>2 DEF OneRecord, OneReader
<1>3. CASE WindowMapped
  <2>1. NextEvent("map") /\ TypeOK
    BY <1>3 DEF WindowMapped, IInv
  <2>2. 1 \in 1 .. Len(xevents) /\ xevents[1].type = "map"
    BY <2>1, AskedFirst
  <2> QED BY <2>2 DEF PropertiesRule
<1>4. ASSUME NEW type \in {"motion", "leave"}, NEW block, ReportPointer(type, block)
      PROVE  PropertiesRule' /\ OneRecord' /\ OneReader'
  <2>1. NextEvent(type) /\ UNCHANGED <<transientFor, shareProp, byX11, forwarded, window,
                                      servers, client, watches>>
    BY <1>4 DEF ReportPointer, recordVars, vncVars
  <2>2. \A v : ~ Asked(v)
    BY <2>1, AskedFirst DEF IInv, Requests
  <2>3. \A i \in 1 .. Len(xevents') : xevents'[i].type \notin Requests
    BY <2>1, EventHandled DEF IInv
  <2>4. PropertiesRule'
    BY <2>1, <2>2, <2>3 DEF PropertiesRule, Requests
  <2> QED BY <1>2, <2>1, <2>4
<1>11. CASE PropertyChanged
  <2>1. PICK w : w = Head(xevents).win
    OBVIOUS
  <2>2. shareProp[w] # Absent /\ NextEvent("changed")
    BY <1>11, <2>1, EventHandled DEF IInv, PropertyChanged
  <2>3. SetSharingState(w, shareProp[w]) /\ UNCHANGED <<shareProp, transientFor>>
    BY <1>11, <2>1, <2>2 DEF PropertyChanged
  <2> QED BY <2>1, <2>2, <2>3, RequestOnce
<1>12. CASE PropertyDeleted
  BY <1>12, RequestOnce DEF PropertyDeleted
<1>5. CASE XEventFilter
  BY <1>3, <1>4, <1>5, <1>11, <1>12 DEF XEventFilter, PointerMoved, PointerLeft
<1>6. ASSUME NEW c \in Ids, TubeReady(c) \/ TubeFailed(c) \/ CopyClientToBottom(c)
                            \/ WatchDropped(c)
      PROVE  PropertiesRule' /\ OneRecord' /\ OneReader'
  <2>1. UNCHANGED <<transientFor, xevents, shareProp, byX11, forwarded, window, servers,
                    client>> /\ watches' \subseteq watches
    BY <1>6 DEF TubeReady, TubeFailed, CopyClientToBottom, WatchDropped, xvars, recordVars,
                vncVars
  <2> QED BY <1>1, <1>2, <2>1
<1>7. ASSUME NEW t \in Tubes, CopyBottomToClient(t)
      PROVE  PropertiesRule' /\ OneRecord' /\ OneReader'
  <2>1. UNCHANGED <<transientFor, xevents, shareProp, byX11, forwarded, window>>
    BY <1>7 DEF CopyBottomToClient, Abort, recordVars
  <2>2. CASE UNCHANGED <<client, servers, watches>>
    BY <1>1, <1>2, <2>1, <2>2
  <2>3. CASE \E c : HandleAccept(c)
    BY <1>1, <2>1, <2>3, AcceptOnce
  <2> QED BY <1>7, <2>2, <2>3 DEF CopyBottomToClient, HandleBlock, HandleNonsense, Abort,
                                 recordVars, vncVars
<1>8. CASE Desktop
  <2>1. UNCHANGED <<forwarded, window, byX11, servers, client, watches>>
    BY <1>8 DEF Desktop, SetShare, DeleteShare, MapWindow, MovePointer, ServerHangsUp,
                Deliver, recordVars, vncVars
  <2> QED BY <1>2, <1>8, <2>1, DesktopOnce
<1>9. CASE Peer
  BY <1>1, <1>2, <1>9 DEF Peer, PeerReads, PeerSends, xvars, recordVars, vncVars
<1>10. CASE UNCHANGED vars
  BY <1>1, <1>2, <1>10 DEF vars, xvars, recordVars, vncVars
<1> QED BY <1>5, <1>6, <1>7, <1>8, <1>9, <1>10 DEF Next, Plugin

-----------------------------------------------------------------------------
(* When, besides, the sockets take everything and identifiers fit in two   *)
(* bytes: what is on its way through a tube, in order.                     *)

Control == {"OPEN", "CLOSE", "NAME", "TYPE", "MOUSE"}

Waiting(s) == {s[i] : i \in 1 .. Len(s)}

\* Block b may come after block a: nothing follows a CLOSE, and an OPEN nothing.
MayFollow(a, b) ==
  a.op \in Control /\ b.op \in Control /\ a.id = b.id
    => a.op # "CLOSE" /\ b.op # "OPEN"

Ordered(s) == \A i, j \in 1 .. Len(s) : i < j => MayFollow(s[i], s[j])

OnItsWay(s, c) == \E a \in Waiting(s) : a.op = "OPEN" /\ a.id = c

Closing(s, c) == \E a \in Waiting(s) : a.op = "CLOSE" /\ a.id = c

\* How blocks s on their way to a remote end agree with the channels it has been
\* offered, those of them that are open there, the records that are live here and
\* the identifiers used so far.  The records made since the tube came up have all
\* been offered on it; and what is open there, or will be, is live here, or its
\* CLOSE is on its way.
TubeRule(s, open, offered, live, used) ==
  /\ Ordered(s)
  /\ \A b \in Waiting(s) :
       /\ b.op \in Control => b.id \in 1 .. used
       /\ b.op = "OPEN" => b.id \notin offered
       /\ b.op = "CLOSE" => b.id \notin live /\ (b.id \in offered => b.id \in open)
       /\ b.op \in {"NAME", "TYPE", "MOUSE"} => b.id \in open \/ OnItsWay(s, b.id)
  /\ offered \subseteq 1 .. used
  /\ \A c \in live : c \in offered => c \in open
  /\ \A c, d \in 1 .. used :
       c <= d /\ (c \in offered \/ OnItsWay(s, c)) => d \in offered \/ OnItsWay(s, d)
  /\ \A c \in 1 .. used :
       (c \in open /\ c \in offered) \/ OnItsWay(s, c) => c \in live \/ Closing(s, c)

ChannelsRule ==
  \A t \in Tubes :
    TubeRule(down[t], peerOpen[t], peerOffered[t], forwarded, highest)

\* The pointer is reported for windows one of whose records was accepted.
PointerRule ==
  /\ \A w \in motionMask : \E c \in accepted : window[c] = w
  /\ \A i \in 1 .. Len(xevents) :
       xevents[i].type \in {"motion", "leave"} => xevents[i].win \in motionMask

ControlRule ==
  /\ pending \subseteq forwarded
  /\ ChannelsRule
  /\ PointerRule

\* A block is written behind the others.
LEMMA WaitingAdded ==
  ASSUME NEW S, NEW s \in Seq(S), NEW b \in S
  PROVE  /\ Waiting(Append(s, b)) = Waiting(s) \cup {b}
         /\ \A c : OnItsWay(Append(s, b), c) <=>
                     OnItsWay(s, c) \/ (b.op = "OPEN" /\ b.id = c)
         /\ \A c : Closing(Append(s, b), c) <=>
                     Closing(s, c) \/ (b.op = "CLOSE" /\ b.id = c)
         /\ Ordered(s) /\ (\A a \in Waiting(s) : MayFollow(a, b)) => Ordered(Append(s, b))
<1> DEFINE n == Len(s)
<1>1. PICK t : t = Append(s, b)
  OBVIOUS
<1>2. /\ n \in Nat /\ Len(t) = n + 1 /\ t[n + 1] = b
      /\ \A i \in 1 .. n : t[i] = s[i]
  BY <1>1
<1> HIDE DEF n
<1>3. \A i \in 1 .. n + 1 : i \in 1 .. n \/ i = n + 1
  BY <1>2
<1>4. 1 .. n \subseteq 1 .. n + 1 /\ n + 1 \in 1 .. n + 1
  BY <1>2
<1>5. Waiting(t) = Waiting(s) \cup {b}
  BY <1>2, <1>3, <1>4 DEF Waiting, n
<1>6. ASSUME Ordered(s), \A a \in Waiting(s) : MayFollow(a, b) PROVE Ordered(t)
  <2> SUFFICES ASSUME NEW i \in 1 .. n + 1, NEW j \in 1 .. n + 1, i < j
               PROVE  MayFollow(t[i], t[j])
    BY <1>2 DEF Ordered
  <2>1. i \in 1 .. n /\ t[i] = s[i] /\ s[i] \in Waiting(s)
    BY <1>2 DEF Waiting, n
  <2>2. CASE j = n + 1
    BY <1>2, <1>6, <2>1, <2>2
  <2>3. CASE j \in 1 .. n
    BY <1>2, <1>6, <2>1, <2>3 DEF Ordered, n
  <2> QED BY <1>3, <2>2, <2>3
<1>7. \A c : OnItsWay(t, c) <=> OnItsWay(s, c) \/ (b.op = "OPEN" /\ b.id = c)
  BY <1>5 DEF OnItsWay
<1>8. \A c : Closing(t, c) <=> Closing(s, c) \/ (b.op = "CLOSE" /\ b.id = c)
  BY <1>5 DEF Closing
<1> QED BY <1>1, <1>5, <1>6, <1>7, <1>8

\* The first block is read.
LEMMA WaitingRead ==
  ASSUME NEW S, NEW s \in Seq(S), s # <<>>, Ordered(s)
  PROVE  /\ Waiting(s) = {Head(s)} \cup Waiting(Tail(s))
         /\ \A b \in Waiting(Tail(s)) : MayFollow(Head(s), b)
         /\ Ordered(Tail(s))
<1> DEFINE n == Len(s)
<1>1. PICK t, h : t = Tail(s) /\ h = Head(s)
  OBVIOUS
<1>2. /\ n \in Nat \ {0} /\ Len(t) = n - 1 /\ h = s[1]
      /\ \A i \in 1 .. n - 1 : t[i] = s[i + 1]
  BY <1>1
<1> HIDE DEF n
<1>3. \A i \in 1 .. n : i = 1 \/ (i - 1 \in 1 .. n - 1 /\ i = (i - 1) + 1)
  BY <1>2
<1>4. 1 \in 1 .. n /\ \A i \in 1 .. n - 1 : i + 1 \in 1 .. n /\ 1 < i + 1
  BY <1>2
<1>5. \A i, j \in 1 .. n - 1 : i < j => i + 1 < j + 1
  BY <1>2
<1>6. \A i \in 1 .. n : i = 1 \/ (i - 1 \in 1 .. n - 1 /\ s[i] = t[i - 1])
  BY <1>2, <1>3
<1>7. Waiting(s) = {h} \cup Waiting(t)
  BY <1>2, <1>4, <1>6 DEF Waiting, n
<1>8. \A i \in 1 .. n - 1 : MayFollow(h, t[i])
  BY <1>2, <1>4 DEF Ordered, n
<1>9. Ordered(t)
  BY <1>2, <1>4, <1>5 DEF Ordered, n
<1> QED BY <1>1, <1>2, <1>7, <1>8, <1>9 DEF Waiting, n

LEMMA NothingWaits ==
  ASSUME NEW open, NEW live, NEW used \in Nat
  PROVE  TubeRule(<<>>, open, {}, live, used)
<1>1. \A i \in 1 .. Len(<<>>) : FALSE
  OBVIOUS
<1> QED BY <1>1 DEF TubeRule, Ordered, Waiting, OnItsWay

\* The window that waited for the tube is the first to be offered on it.
LEMMA FirstOffer ==
  ASSUME NEW open, NEW live, NEW used \in live, used \in Nat \ {0},
         NEW b, b.op = "OPEN", b.id = used
  PROVE  TubeRule(<<b>>, open, {}, live, used)
<1>1. PICK s : s = <<b>>
  OBVIOUS
<1>2. Len(s) = 1 /\ s[1] = b
  BY <1>1
<1>3. \A i \in 1 .. Len(s) : i = 1
  BY <1>2
<1>4. 1 \in 1 .. Len(s) /\ ~ (1 < 1)
  BY <1>2
<1>5. Waiting(s) = {b}
  BY <1>2, <1>3, <1>4 DEF Waiting
<1>6. Ordered(s)
  BY <1>3, <1>4 DEF Ordered
<1>7. \A c : OnItsWay(s, c) <=> c = used
  BY <1>5 DEF OnItsWay
<1>8. used \in 1 .. used /\ \A d \in 1 .. used : used <= d => d = used
  OBVIOUS
<1> QED BY <1>1, <1>5, <1>6, <1>7, <1>8 DEF TubeRule

LEMMA OpenWritten ==
  ASSUME NEW S, NEW s \in Seq(S), NEW b \in S, NEW open, NEW offered, NEW live,
         NEW used \in Nat, TubeRule(s, open, offered, live, used),
         b.op = "OPEN", b.id = used + 1
  PROVE  TubeRule(Append(s, b), open, offered, live \cup {used + 1}, used + 1)
<1>1. PICK n : n = used + 1 /\ n \notin 1 .. used /\ 1 .. n = (1 .. used) \cup {n}
  OBVIOUS
<1>2. \A a \in Waiting(s) : MayFollow(a, b)
  BY <1>1 DEF TubeRule, MayFollow
<1>3. PICK t : t = Append(s, b)
  OBVIOUS
<1>4. /\ Waiting(t) = Waiting(s) \cup {b} /\ Ordered(t)
      /\ \A c : OnItsWay(t, c) <=> OnItsWay(s, c) \/ c = n
      /\ \A c : Closing(t, c) <=> Closing(s, c)
  BY <1>1, <1>2, <1>3, WaitingAdded DEF TubeRule
<1>5. n \notin offered /\ ~ OnItsWay(s, n)
  BY <1>1 DEF TubeRule, OnItsWay, Control
<1>6. \A c, d \in 1 .. n :
        c <= d /\ (c \in offered \/ OnItsWay(t, c)) => d \in offered \/ OnItsWay(t, d)
  <2>1. \A d \in 1 .. used : ~ (n <= d)
    BY <1>1
  <2> QED BY <1>1, <1>4, <2>1 DEF TubeRule
<1>7. \A a \in Waiting(t) :
       /\ a.op \in Control => a.id \in 1 .. n
       /\ a.op = "OPEN" => a.id \notin offered
       /\ a.op = "CLOSE" => a.id \notin live \cup {n} /\ (a.id \in offered => a.id \in open)
       /\ a.op \in {"NAME", "TYPE", "MOUSE"} => a.id \in open \/ OnItsWay(t, a.id)
  BY <1>1, <1>4, <1>5 DEF TubeRule, Control
<1>8. \A c \in 1 .. n :
        (c \in open /\ c \in offered) \/ OnItsWay(t, c) => c \in live \cup {n} \/ Closing(t, c)
  BY <1>1, <1>4, <1>5 DEF TubeRule
<1> QED BY <1>1, <1>3, <1>4, <1>5, <1>6, <1>7, <1>8 DEF TubeRule

LEMMA CloseWritten ==
  ASSUME NEW S, NEW s \in Seq(S), NEW b \in S, NEW open, NEW offered, NEW live,
         NEW used, TubeRule(s, open, offered, live, used),
         NEW c \in live, c \in 1 .. used, b.op = "CLOSE", b.id = c
  PROVE  TubeRule(Append(s, b), open, offered, live \ {c}, used)
<1>1. \A a \in Waiting(s) : MayFollow(a, b)
  BY DEF TubeRule, MayFollow
<1>2. PICK t : t = Append(s, b)
  OBVIOUS
<1>3. /\ Waiting(t) = Waiting(s) \cup {b} /\ Ordered(t)
      /\ \A d : OnItsWay(t, d) <=> OnItsWay(s, d)
      /\ \A d : Closing(t, d) <=> Closing(s, d) \/ d = c
  BY <1>1, <1>2, WaitingAdded DEF TubeRule
<1> QED BY <1>2, <1>3 DEF TubeRule

LEMMA MetadataWritten ==
  ASSUME NEW S, NEW s \in Seq(S), NEW b \in S, NEW open, NEW offered, NEW live,
         NEW used, TubeRule(s, open, offered, live, used),
         NEW c \in live, c \in 1 .. used, c \in offered \/ OnItsWay(s, c),
         b.op \in {"NAME", "TYPE", "MOUSE"}, b.id = c
  PROVE  TubeRule(Append(s, b), open, offered, live, used)
<1>1. \A a \in Waiting(s) : MayFollow(a, b)
  BY DEF TubeRule, MayFollow
<1>2. PICK t : t = Append(s, b)
  OBVIOUS
<1>3. /\ Waiting(t) = Waiting(s) \cup {b} /\ Ordered(t)
      /\ \A d : OnItsWay(t, d) <=> OnItsWay(s, d)
      /\ \A d : Closing(t, d) <=> Closing(s, d)
  BY <1>1, <1>2, WaitingAdded DEF TubeRule
<1>4. c \in open \/ OnItsWay(s, c)
  BY DEF TubeRule
<1> QED BY <1>2, <1>3, <1>4 DEF TubeRule

LEMMA DataWritten ==
  ASSUME NEW S, NEW s \in Seq(S), NEW b \in S, NEW open, NEW offered, NEW live,
         NEW used, TubeRule(s, open, offered, live, used), b.op \notin Control
  PROVE  TubeRule(Append(s, b), open, offered, live, used)
<1>1. \A a \in Waiting(s) : MayFollow(a, b)
  BY DEF MayFollow
<1>2. PICK t : t = Append(s, b)
  OBVIOUS
<1>3. /\ Waiting(t) = Waiting(s) \cup {b} /\ Ordered(t)
      /\ \A d : OnItsWay(t, d) <=> OnItsWay(s, d)
      /\ \A d : Closing(t, d) <=> Closing(s, d)
  BY <1>1, <1>2, WaitingAdded DEF TubeRule, Control
<1> QED BY <1>2, <1>3 DEF TubeRule, Control

LEMMA BlockRead ==
  ASSUME NEW S, NEW s \in Seq(S), s # <<>>, NEW open, NEW offered, NEW live,
         NEW used, TubeRule(s, open, offered, live, used)
  PROVE  LET b == Head(s) IN
         /\ b.op = "OPEN" =>
              TubeRule(Tail(s), open \cup {b.id}, offered \cup {b.id}, live, used)
         /\ b.op = "CLOSE" => TubeRule(Tail(s), open \ {b.id}, offered, live, used)
         /\ b.op \notin {"OPEN", "CLOSE"} => TubeRule(Tail(s), open, offered, live, used)
<1>1. PICK b, t : b = Head(s) /\ t = Tail(s)
  OBVIOUS
<1>2. /\ Waiting(s) = {b} \cup Waiting(t) /\ Ordered(t)
      /\ \A a \in Waiting(t) : MayFollow(b, a)
  BY <1>1, WaitingRead DEF TubeRule
<1>3. \A c : OnItsWay(s, c) <=> OnItsWay(t, c) \/ (b.op = "OPEN" /\ b.id = c)
  BY <1>2 DEF OnItsWay
<1>7. \A c : Closing(s, c) <=> Closing(t, c) \/ (b.op = "CLOSE" /\ b.id = c)
  BY <1>2 DEF Closing
<1>4. CASE b.op = "OPEN"
  <2>1. \A a \in Waiting(t) : a.op = "OPEN" => a.id # b.id
    BY <1>2, <1>4 DEF MayFollow, Control
  <2>2. b.id \in 1 .. used /\ b.id \notin offered
    BY <1>2, <1>4 DEF TubeRule, Control
  <2> QED BY <1>1, <1>2, <1>3, <1>4, <1>7, <2>1, <2>2 DEF TubeRule
<1>5. CASE b.op = "CLOSE"
  <2>1. \A a \in Waiting(t) : a.op \in Control => a.id # b.id
    BY <1>2, <1>5 DEF MayFollow, Control
  <2>2. b.id \notin live
    BY <1>2, <1>5 DEF TubeRule
  <2>3. ~ OnItsWay(t, b.id)
    BY <2>1 DEF OnItsWay, Control
  <2> QED BY <1>1, <1>2, <1>3, <1>5, <1>7, <2>1, <2>2, <2>3 DEF TubeRule, Control
<1>6. CASE b.op \notin {"OPEN", "CLOSE"}
  BY <1>1, <1>2, <1>3, <1>6, <1>7 DEF TubeRule
<1> QED BY <1>1, <1>4, <1>5, <1>6

\* Nothing has happened on a tube that is not the current one.
LEMMA IdleTubes ==
  ASSUME IInv, OneStream, NEW t \in Tubes, t # bottom
  PROVE  down[t] = <<>> /\ peerOffered[t] = {}
<1>1. bottom = tubes /\ (t > tubes => down[t] = <<>> /\ peerOffered[t] = {})
  BY DEF IInv, TubesInOrder
<1>2. tubes \in 0 .. MaxTubes /\ MaxTubes \in Nat /\ tubes <= 1
  BY SharingAssumption DEF IInv, TypeOK, OneStream
<1>3. t \in Nat \ {0}
  BY <1>2 DEF Tubes
<1>4. t > tubes
  BY <1>1, <1>2, <1>3
<1> QED BY <1>1, <1>4

\* Only the current tube need be looked at.
LEMMA RulesKept ==
  ASSUME IInv, OneStream, UNCHANGED peerVars, highest' \in Nat,
         \A t \in Tubes \ {bottom} : down'[t] = down[t],
         bottom \in Tubes =>
           TubeRule(down'[bottom], peerOpen[bottom], peerOffered[bottom],
                    forwarded', highest')
  PROVE  ChannelsRule'
<1> SUFFICES ASSUME NEW t \in Tubes
             PROVE  TubeRule(down'[t], peerOpen'[t], peerOffered'[t],
                             forwarded', highest')
  BY DEF ChannelsRule
<1>1. peerOpen' = peerOpen /\ peerOffered' = peerOffered
  BY DEF peerVars
<1>2. CASE t = bottom
  BY <1>1, <1>2
<1>3. CASE t # bottom
  <2>1. down'[t] = <<>> /\ peerOffered[t] = {}
    BY <1>3, IdleTubes
  <2> QED BY <1>1, <2>1, NothingWaits
<1> QED BY <1>2, <1>3

\* A socket that takes everything.
LEMMA Sent ==
  ASSUME TypeOK, "full" \notin Env, NEW b \in DownBlocks, Send(b)
  PROVE  /\ \A t \in Tubes \ {bottom} : down'[t] = down[t]
         /\ bottom \in Tubes =>
              /\ down[bottom] \in Seq(DownBlocks)
              /\ down'[bottom] = Append(down[bottom], b)
<1>1. down \in [Tubes -> Seq(DownBlocks)] /\ 0 \notin Tubes
  BY DEF TypeOK, Tubes
<1>2. CASE bottom = 0
  BY <1>1, <1>2 DEF Send
<1>3. CASE bottom # 0
  <2>1. down' = [down EXCEPT ![bottom] = Append(down[bottom], b)]
    BY <1>3 DEF Send, AfterWrite
  <2>2. \A t \in Tubes : down'[t] = IF t = bottom THEN Append(down[bottom], b)
                                                 ELSE down[t]
    BY <1>1, <2>1
  <2> QED BY <1>1, <2>2
<1> QED BY <1>2, <1>3

LEMMA SentBoth ==
  ASSUME TypeOK, "full" \notin Env, NEW a \in DownBlocks, NEW b \in DownBlocks,
         SendBoth(a, b)
  PROVE  /\ \A t \in Tubes \ {bottom} : down'[t] = down[t]
         /\ bottom \in Tubes =>
              /\ down[bottom] \in Seq(DownBlocks)
              /\ Append(down[bottom], a) \in Seq(DownBlocks)
              /\ down'[bottom] = Append(Append(down[bottom], a), b)
<1>1. down \in [Tubes -> Seq(DownBlocks)] /\ 0 \notin Tubes
  BY DEF TypeOK, Tubes
<1>2. CASE bottom = 0
  BY <1>1, <1>2 DEF SendBoth
<1>3. CASE bottom # 0
  <2>1. down' = [down EXCEPT ![bottom] = Append(Append(down[bottom], a), b)]
    BY <1>3 DEF SendBoth, AfterWrite
  <2>2. \A t \in Tubes :
          down'[t] = IF t = bottom THEN Append(Append(down[bottom], a), b)
                                   ELSE down[t]
    BY <1>1, <2>1
  <2>3. bottom \in Tubes => Append(down[bottom], a) \in Seq(DownBlocks)
    BY <1>1, AppendTail
  <2> QED BY <1>1, <2>2, <2>3
<1> QED BY <1>2, <1>3

\* What the channel is called in the block is the channel.
LEMMA BlockAbout ==
  ASSUME FewIds, NEW c \in Ids, NEW op \in {"OPEN", "CLOSE", "NAME", "TYPE", "MOUSE"}
  PROVE  About(op, c) \in DownBlocks /\ About(op, c).op = op /\ About(op, c).id = c
<1>1. Wire(c) = c
  BY ChannelIsWire
<1>2. c \in Nat
  BY DEF Ids
<1> QED BY <1>1, <1>2, BlocksDown DEF About

LEMMA ChannelsNow ==
  ASSUME IInv, ChannelsRule
  PROVE  /\ TypeOK /\ highest \in Nat /\ forwarded \subseteq 1 .. highest
         /\ 1 .. highest \subseteq Ids
         /\ bottom \in Tubes => TubeRule(down[bottom], peerOpen[bottom],
                                   peerOffered[bottom], forwarded, highest)
<1>1. TypeOK /\ highest \in 0 .. MaxShares /\ forwarded \subseteq 1 .. highest
  BY DEF IInv, TypeOK, Records
<1> QED BY <1>1, ProtocolAssumption DEF ChannelsRule, Ids

LEMMA ShareInOrder ==
  ASSUME FewIds, "full" \notin Env, IInv, OneStream, ChannelsRule,
         UNCHANGED peerVars, NEW w \in Windows, ShareWindow(w)
  PROVE  ChannelsRule'
<1>1. PICK c : c = highest + 1
  OBVIOUS
<1>2. /\ c \in Ids /\ highest' = c /\ c \in Nat
      /\ forwarded' = forwarded \cup {c}
  BY <1>1, RegisterEffect DEF ShareWindow, IInv, Ids
<1>3. PICK b : b = About("OPEN", c) /\ b \in DownBlocks /\ b.op = "OPEN" /\ b.id = c
  BY <1>2, BlockAbout
<1>4. CASE bottom = 0
  <2>1. UNCHANGED down
    BY <1>4 DEF ShareWindow
  <2> QED BY <1>2, <1>4, <2>1, RulesKept DEF Tubes
<1>5. CASE bottom # 0
  <2>1. Send(b)
    BY <1>1, <1>3, <1>5 DEF ShareWindow
  <2>2. bottom \in Tubes =>
          TubeRule(Append(down[bottom], b), peerOpen[bottom], peerOffered[bottom],
                   forwarded \cup {c}, c)
    BY <1>1, <1>3, <2>1, ChannelsNow, Sent, OpenWritten
  <2> QED BY <1>2, <1>3, <2>1, <2>2, ChannelsNow, Sent, RulesKept
<1> QED BY <1>4, <1>5

LEMMA UnshareInOrder ==
  ASSUME FewIds, "full" \notin Env, IInv, OneStream, ChannelsRule,
         UNCHANGED peerVars, NEW w \in Windows, UnshareWindow(w)
  PROVE  ChannelsRule'
<1>1. CASE byX11[w] = 0
  <2>1. UNCHANGED <<down, forwarded, highest>>
    BY <1>1 DEF UnshareWindow
  <2> QED BY <2>1, ChannelsNow, RulesKept
<1>2. CASE byX11[w] # 0
  <2>1. PICK c : c = byX11[w] /\ c \in forwarded /\ c \in 1 .. highest /\ c \in Ids
    BY <1>2, ChannelsNow DEF IInv, TablesAgree
  <2>2. PICK b : b = About("CLOSE", c) /\ b \in DownBlocks /\ b.op = "CLOSE" /\ b.id = c
    BY <2>1, BlockAbout
  <2>3. Send(b) /\ forwarded' = forwarded \ {c} /\ UNCHANGED highest
    BY <1>2, <2>1, <2>2 DEF UnshareWindow
  <2>4. bottom \in Tubes =>
          TubeRule(Append(down[bottom], b), peerOpen[bottom], peerOffered[bottom],
                   forwarded \ {c}, highest)
    BY <2>1, <2>2, <2>3, ChannelsNow, Sent, CloseWritten
  <2> QED BY <2>2, <2>3, <2>4, ChannelsNow, Sent, RulesKept
<1> QED BY <1>1, <1>2

LEMMA DataInOrder ==
  ASSUME "full" \notin Env, IInv, OneStream, ChannelsRule, UNCHANGED peerVars,
         UNCHANGED <<forwarded, highest>>,
         NEW b \in DownBlocks, b.op \notin Control, Send(b)
  PROVE  ChannelsRule'
<1>1. bottom \in Tubes =>
        TubeRule(Append(down[bottom], b), peerOpen[bottom], peerOffered[bottom],
                 forwarded, highest)
  BY ChannelsNow, Sent, DataWritten
<1> QED BY <1>1, ChannelsNow, Sent, RulesKept

\* A record at least as new as an accepted one has been offered.
LEMMA NewerOffered ==
  ASSUME IInv, OneStream, ChannelsRule, bottom \in Tubes,
         NEW a \in accepted, FewIds, NEW c \in 1 .. highest, a <= c
  PROVE  c \in peerOffered[bottom] \/ OnItsWay(down[bottom], c)
<1>1. PICK t \in Tubes : a \in peerOffered[t]
  BY DEF IInv, AcceptedWereOffered, OneStream
<1>2. t = bottom
  BY <1>1, IdleTubes
<1>3. a \in 1 .. highest
  BY DEF IInv, Records
<1> QED BY <1>1, <1>2, <1>3, ChannelsNow DEF TubeRule

LEMMA PointerInOrder ==
  ASSUME FewIds, "full" \notin Env, IInv, OneStream, ChannelsRule, PointerRule,
         PointerMoved
  PROVE  ChannelsRule'
<1>1. PICK w : w = Head(xevents).win
  OBVIOUS
<1>2. /\ NextEvent("motion") /\ TypeOK
      /\ UNCHANGED <<forwarded, highest, peerVars>>
  BY DEF PointerMoved, ReportPointer, recordVars, IInv
<1>3. w \in Windows
  BY <1>1, <1>2, EventsType
<1>4. CASE byX11[w] = 0
  <2>1. UNCHANGED down
    BY <1>1, <1>4 DEF PointerMoved, ReportPointer
  <2> QED BY <1>2, <2>1, ChannelsNow, RulesKept
<1>5. CASE byX11[w] # 0
  <2>1. PICK c : c = byX11[w] /\ c \in forwarded /\ c \in 1 .. highest /\ c \in Ids
    BY <1>3, <1>5, ChannelsNow DEF IInv, TablesAgree
  <2>2. PICK b : /\ b = About("MOUSE", c) /\ b \in DownBlocks
                 /\ b.op = "MOUSE" /\ b.id = c
    BY <2>1, BlockAbout
  <2>3. Send(b)
    BY <1>1, <1>5, <2>1, <2>2 DEF PointerMoved, ReportPointer
  <2>4. PICK a \in accepted : window[a] = w
    <3>1. xevents \in Seq(XEvents) /\ xevents # <<>> /\ Head(xevents).type = "motion"
      BY <1>2 DEF NextEvent, TypeOK
    <3>2. 1 \in 1 .. Len(xevents) /\ xevents[1] = Head(xevents)
      BY <3>1
    <3> QED BY <1>1, <3>1, <3>2 DEF PointerRule
  <2>5. a <= c
    BY <1>3, <1>5, <2>1, <2>4, RecordsOfWindows DEF IInv, TablesAgree
  <2>6. bottom \in Tubes =>
          TubeRule(Append(down[bottom], b), peerOpen[bottom], peerOffered[bottom],
                   forwarded, highest)
    BY <2>1, <2>2, <2>3, <2>5, ChannelsNow, Sent, NewerOffered, MetadataWritten
  <2> QED BY <1>2, <2>2, <2>3, <2>6, ChannelsNow, Sent, RulesKept
<1> QED BY <1>4, <1>5

\* ACCEPT is answered with metadata of a channel the remote end was offered.
LEMMA MetadataInOrder ==
  ASSUME FewIds, "full" \notin Env, IInv, OneStream, ChannelsRule,
         UNCHANGED peerVars, UNCHANGED <<forwarded, highest>>,
         NEW c, HandleAccept(c), bottom \in Tubes => c \in peerOffered[bottom]
  PROVE  ChannelsRule'
<1>1. CASE UNCHANGED down
  BY <1>1, ChannelsNow, RulesKept
<1>2. CASE c \in forwarded /\ SendBoth(About("NAME", c), About("TYPE", c))
  <2>1. c \in 1 .. highest /\ c \in Ids
    BY <1>2, ChannelsNow
  <2>2. PICK a : /\ a = About("NAME", c) /\ a \in DownBlocks
                 /\ a.op = "NAME" /\ a.id = c
    BY <2>1, BlockAbout
  <2>3. PICK b : /\ b = About("TYPE", c) /\ b \in DownBlocks
                 /\ b.op = "TYPE" /\ b.id = c
    BY <2>1, BlockAbout
  <2>4. SendBoth(a, b)
    BY <1>2, <2>2, <2>3
  <2>5. bottom \in Tubes =>
          TubeRule(Append(down[bottom], a), peerOpen[bottom], peerOffered[bottom],
                   forwarded, highest)
    BY <1>2, <2>1, <2>2, <2>3, <2>4, ChannelsNow, SentBoth, MetadataWritten
  <2>6. bottom \in Tubes =>
          TubeRule(Append(Append(down[bottom], a), b), peerOpen[bottom],
                   peerOffered[bottom], forwarded, highest)
    BY <1>2, <2>1, <2>2, <2>3, <2>4, <2>5, ChannelsNow, SentBoth, MetadataWritten
  <2> QED BY <2>2, <2>3, <2>4, <2>6, ChannelsNow, SentBoth, RulesKept
<1> QED BY <1>1, <1>2 DEF HandleAccept

LEMMA BlockInOrder ==
  ASSUME FewIds, "full" \notin Env, IInv, OneStream, ChannelsRule,
         NEW t \in Tubes, CopyBottomToClient(t)
  PROVE  ChannelsRule'
<1>1. t = bottom /\ up[t] # <<>>
  BY BottomIsRead DEF CopyBottomToClient
<1>2. PICK b : b = Head(up[bottom])
  OBVIOUS
<1>3. HandleBlock(b) /\ UNCHANGED <<forwarded, highest, peerVars>>
  BY <1>1, <1>2 DEF CopyBottomToClient
<1>4. CASE UNCHANGED down
  BY <1>3, <1>4, ChannelsNow, RulesKept
<1>5. CASE Send(Avatar)
  <2>1. Avatar \in DownBlocks /\ Avatar.op \notin Control
    BY BlocksDown DEF Avatar, Control
  <2> QED BY <1>3, <1>5, <2>1, DataInOrder
<1>6. CASE b.op = "ACCEPT" /\ HandleAccept(Decoded(b.id))
  <2>1. PICK c : c = Decoded(b.id)
    OBVIOUS
  <2>2. CASE c \notin forwarded
    BY <1>4, <1>6, <2>1, <2>2 DEF HandleAccept
  <2>3. CASE c \in forwarded
    <3>1. c = b.id
      BY <2>1, <2>3, DecodedKeys DEF IInv
    <3>2. up[bottom] \in Seq(UpBlocks) /\ up[bottom] # <<>>
      BY <1>1 DEF IInv, TypeOK
    <3>3. 1 \in 1 .. Len(up[bottom]) /\ up[bottom][1] = b
      BY <1>2, <3>2
    <3>4. c \in peerOffered[bottom]
      BY <1>1, <1>6, <3>1, <3>3 DEF IInv, AnswersFollowOffers
    <3> QED BY <1>3, <1>6, <2>1, <3>4, MetadataInOrder
  <2> QED BY <2>2, <2>3
<1>7. sync # "lost"
  BY DEF OneStream
<1> QED BY <1>3, <1>4, <1>5, <1>6, <1>7 DEF HandleBlock

\* The record that waits for the tube is the newest, and is offered first.
LEMMA FirstInOrder ==
  ASSUME FewIds, IInv, OneRequest, ControlRule, NEW c \in Ids, TubeReady(c)
  PROVE  ChannelsRule'
<1>1. /\ c \in pending /\ c = highest /\ c \in forwarded /\ tubes = 0
      /\ 1 \in Tubes
  BY SharingAssumption DEF TubeReady, OneRequest, ControlRule, Tubes
<1>2. PICK b : b = About("OPEN", c) /\ b \in DownBlocks /\ b.op = "OPEN" /\ b.id = c
  BY BlockAbout
<1>3. /\ down' = [down EXCEPT ![1] = <<b>>] /\ UNCHANGED peerVars
      /\ UNCHANGED <<forwarded, highest>>
  BY <1>1, <1>2 DEF TubeReady, recordVars
<1>4. \A t \in Tubes : down[t] = <<>> /\ peerOffered[t] = {}
  BY <1>1 DEF IInv, TubesInOrder, Tubes
<1>5. highest \in Nat \ {0}
  BY <1>1 DEF Ids
<1>6. down \in [Tubes -> Seq(DownBlocks)]
  BY DEF IInv, TypeOK
<1>7. \A t \in Tubes : down'[t] = IF t = 1 THEN <<b>> ELSE <<>>
  BY <1>3, <1>4, <1>6
<1> SUFFICES ASSUME NEW t \in Tubes
             PROVE  TubeRule(down'[t], peerOpen[t], {}, forwarded, highest)
  BY <1>3, <1>4 DEF ChannelsRule, peerVars
<1>8. CASE t = 1
  BY <1>1, <1>2, <1>5, <1>7, <1>8, FirstOffer
<1>9. CASE t # 1
  BY <1>5, <1>7, <1>9, NothingWaits
<1> QED BY <1>8, <1>9

LEMMA WatchInOrder ==
  ASSUME "full" \notin Env, IInv, OneStream, ChannelsRule,
         NEW c \in Ids, CopyClientToBottom(c)
  PROVE  ChannelsRule'
<1>1. UNCHANGED <<forwarded, highest, peerVars>>
  BY DEF CopyClientToBottom, recordVars
<1>2. CASE UNCHANGED down
  BY <1>1, <1>2, ChannelsNow, RulesKept
<1>3. ASSUME NEW id \in Nat, Send(FromServer(c, id)) PROVE ChannelsRule'
  <2>1. PICK b : b = FromServer(c, id)
    OBVIOUS
  <2>2. window[c] \in Windows
    BY RecordsOfWindows DEF IInv, CopyClientToBottom
  <2>3. b \in DownBlocks /\ b.op \in {"RFB", "EMPTY"}
    BY <2>1, <2>2, BlocksDown DEF FromServer, Rfb, Empty
  <2> QED BY <1>1, <1>3, <2>1, <2>3, DataInOrder DEF Control
<1> QED BY <1>2, <1>3, SharingAssumption DEF CopyClientToBottom, Ids

LEMMA ReadInOrder ==
  ASSUME IInv, OneStream, ChannelsRule, NEW t \in Tubes, PeerReads(t)
  PROVE  ChannelsRule'
<1>1. PICK s \in Seq(DownBlocks) : s = down[t]
  BY DEF IInv, TypeOK
<1>2. s # <<>> /\ Tail(s) \in Seq(DownBlocks)
  BY <1>1 DEF PeerReads
<1>3. PICK b : b = Head(s)
  OBVIOUS
<1>4. TubeRule(s, peerOpen[t], peerOffered[t], forwarded, highest)
  BY <1>1 DEF ChannelsRule
<1>5. /\ down' = [down EXCEPT ![t] = Tail(s)] /\ UNCHANGED <<forwarded, highest>>
      /\ \/ /\ b.op = "OPEN"
            /\ peerOpen' = [peerOpen EXCEPT ![t] = @ \cup {b.id}]
            /\ peerOffered' = [peerOffered EXCEPT ![t] = @ \cup {b.id}]
         \/ /\ b.op = "CLOSE"
            /\ peerOpen' = [peerOpen EXCEPT ![t] = @ \ {b.id}]
            /\ UNCHANGED peerOffered
         \/ /\ b.op \notin {"OPEN", "CLOSE"}
            /\ UNCHANGED <<peerOpen, peerOffered>>
  BY <1>1, <1>3 DEF PeerReads, recordVars, peerVars
<1>6. /\ down \in [Tubes -> Seq(DownBlocks)]
      /\ peerOpen \in [Tubes -> SUBSET Nat]
      /\ peerOffered \in [Tubes -> SUBSET Nat]
  BY DEF IInv, TypeOK
<1>7. \A r \in Tubes \ {t} : /\ down'[r] = down[r] /\ peerOpen'[r] = peerOpen[r]
                             /\ peerOffered'[r] = peerOffered[r]
  BY <1>5, <1>6
<1>8. TubeRule(down'[t], peerOpen'[t], peerOffered'[t], forwarded, highest)
  <2>1. /\ b.op = "OPEN" =>
             TubeRule(Tail(s), peerOpen[t] \cup {b.id}, peerOffered[t] \cup {b.id},
                      forwarded, highest)
        /\ b.op = "CLOSE" =>
             TubeRule(Tail(s), peerOpen[t] \ {b.id}, peerOffered[t], forwarded, highest)
        /\ b.op \notin {"OPEN", "CLOSE"} =>
             TubeRule(Tail(s), peerOpen[t], peerOffered[t], forwarded, highest)
    BY <1>2, <1>3, <1>4, BlockRead
  <2>2. down'[t] = Tail(s)
    BY <1>5, <1>6
  <2>3. CASE b.op = "OPEN"
    BY <1>5, <1>6, <2>1, <2>2, <2>3
  <2>4. CASE b.op = "CLOSE"
    BY <1>5, <1>6, <2>1, <2>2, <2>4
  <2>5. CASE b.op \notin {"OPEN", "CLOSE"}
    BY <1>5, <1>6, <2>1, <2>2, <2>5
  <2> QED BY <2>3, <2>4, <2>5
<1> QED BY <1>5, <1>7, <1>8 DEF ChannelsRule

\* Only an ACCEPT makes mutter report the pointer of a window.
LEMMA PointerRuleNext ==
  ASSUME IInv, PointerRule, [Next]_vars
  PROVE  PointerRule'
<1>1. TypeOK /\ xevents \in Seq(XEvents)
  BY DEF IInv, TypeOK
<1>2. /\ motionMask \subseteq motionMask'
      /\ \A w \in motionMask' : w \in motionMask \/ \E c \in accepted' : window'[c] = w
  <2>1. CASE UNCHANGED motionMask
    BY <2>1
  <2>2. ASSUME NEW c, HandleAccept(c), UNCHANGED window
        PROVE  /\ motionMask \subseteq motionMask'
               /\ \A w \in motionMask' : w \in motionMask
                    \/ \E d \in accepted' : window'[d] = w
    BY <2>2 DEF HandleAccept
  <2>3. ASSUME NEW t \in Tubes, CopyBottomToClient(t), motionMask' # motionMask
        PROVE  \E c : HandleAccept(c) /\ UNCHANGED window
    BY <2>3 DEF CopyBottomToClient, HandleBlock, HandleNonsense
  <2>4. CASE XEventFilter \/ (\E c \in Ids : TubeReady(c) \/ TubeFailed(c))
    BY <2>1, <2>4 DEF XEventFilter, PropertyChanged, PropertyDeleted, WindowMapped,
       PointerMoved, PointerLeft, ReportPointer, TubeReady, TubeFailed, xvars
  <2>5. CASE Desktop \/ Peer \/ UNCHANGED vars
    BY <2>1, <2>5 DEF Desktop, SetShare, DeleteShare, MapWindow, MovePointer,
       ServerHangsUp, Deliver, Peer, PeerReads, PeerSends, xvars, vars
  <2>6. CASE \E c \in Ids : CopyClientToBottom(c) \/ WatchDropped(c)
    BY <2>1, <2>6 DEF CopyClientToBottom, WatchDropped, xvars
  <2> QED BY <2>1, <2>2, <2>3, <2>4, <2>5, <2>6 DEF Next, Plugin
<1>3. \A i \in 1 .. Len(xevents') :
        xevents'[i].type \in {"motion", "leave"} => xevents'[i].win \in motionMask
  <2>1. CASE UNCHANGED xevents
    BY <2>1 DEF PointerRule
  <2>2. ASSUME NEW type, NextEvent(type)
        PROVE  \A i \in 1 .. Len(xevents') :
                 xevents'[i].type \in {"motion", "leave"} => xevents'[i].win \in motionMask
    <3>1. xevents # <<>> /\ xevents' = Tail(xevents)
      BY <2>2 DEF NextEvent
    <3>2. \A i \in 1 .. Len(Tail(xevents)) :
            i + 1 \in 1 .. Len(xevents) /\ Tail(xevents)[i] = xevents[i + 1]
      BY <1>1, <3>1, AppendTail
    <3> QED BY <3>1, <3>2 DEF PointerRule
  <2>3. ASSUME NEW w \in Windows,
               NEW type \in {"changed", "deleted", "map", "motion", "leave"},
               Deliver(type, w), type \in {"motion", "leave"} => w \in motionMask
        PROVE  \A i \in 1 .. Len(xevents') :
                 xevents'[i].type \in {"motion", "leave"} => xevents'[i].win \in motionMask
    <3>1. [type |-> type, win |-> w] \in XEvents
      BY DEF XEvents
    <3>2. \A i \in 1 .. Len(xevents') :
              \/ i \in 1 .. Len(xevents) /\ xevents'[i] = xevents[i]
              \/ xevents'[i].type = type /\ xevents'[i].win = w
      BY <1>1, <2>3, <3>1, EventDelivered
    <3> QED BY <2>3, <3>2 DEF PointerRule
  <2>4. CASE XEventFilter
    BY <2>2, <2>4 DEF XEventFilter, PropertyChanged, PropertyDeleted, WindowMapped,
       PointerMoved, PointerLeft, ReportPointer
  <2>5. CASE (\E c \in Ids : TubeReady(c) \/ TubeFailed(c)) \/ Peer \/ UNCHANGED vars
    BY <2>1, <2>5 DEF TubeReady, TubeFailed, xvars, Peer, PeerReads, PeerSends, vars
  <2>6. CASE \E t \in Tubes : CopyBottomToClient(t)
    BY <2>1, <2>6 DEF CopyBottomToClient
  <2>7. CASE \E c \in Ids : CopyClientToBottom(c) \/ WatchDropped(c)
    BY <2>1, <2>7 DEF CopyClientToBottom, WatchDropped, xvars
  <2>8. CASE Desktop
    <3>1. ASSUME NEW w \in Windows, MovePointer(w)
          PROVE  \E type \in {"motion", "leave"} : Deliver(type, w) /\ w \in motionMask
      BY <3>1, SharingAssumption DEF MovePointer
    <3> QED BY <2>1, <2>3, <2>8, <3>1 DEF Desktop, SetShare, DeleteShare, MapWindow,
         ServerHangsUp, xvars
  <2> QED BY <2>4, <2>5, <2>6, <2>7, <2>8 DEF Next, Plugin
<1>4. /\ accepted \subseteq accepted'
      /\ \A c \in accepted : window'[c] = window[c]
  BY AcceptedStay DEF IInv
<1> QED BY <1>2, <1>3, <1>4 DEF PointerRule

\* A tube is only waited for by a record that is live.
LEMMA PendingLives ==
  ASSUME IInv, OneRequest, pending \subseteq forwarded, [Next]_vars
  PROVE  pending' \subseteq forwarded'
<1>1. CASE pending' \subseteq pending /\ UNCHANGED forwarded
  BY <1>1
<1>2. ASSUME NEW w, ShareWindow(w) PROVE pending' \subseteq forwarded'
  BY <1>2 DEF ShareWindow, Register
<1>3. ASSUME NEW w, UnshareWindow(w), pending = {} PROVE pending' \subseteq forwarded'
  BY <1>3 DEF UnshareWindow, tubeVars
<1>4. CASE PropertyChanged \/ PropertyDeleted
  <2>1. pending = {}
    BY <1>4, EventHandled DEF IInv, PropertyChanged, PropertyDeleted, Requests
  <2> QED BY <1>1, <1>2, <1>3, <1>4, <2>1 DEF PropertyChanged, PropertyDeleted,
       SetSharingState, Abort, recordVars, tubeVars
<1>5. CASE WindowMapped
  BY <1>1, <1>2, <1>5 DEF WindowMapped, recordVars, tubeVars
<1>6. CASE PointerMoved \/ PointerLeft
  BY <1>1, <1>6 DEF PointerMoved, PointerLeft, ReportPointer, recordVars, tubeVars
<1>7. ASSUME NEW c \in Ids, TubeReady(c) \/ TubeFailed(c) \/ CopyClientToBottom(c)
                            \/ WatchDropped(c)
      PROVE  pending' \subseteq forwarded'
  BY <1>1, <1>7 DEF TubeReady, TubeFailed, CopyClientToBottom, WatchDropped, recordVars,
     tubeVars
<1>8. ASSUME NEW t \in Tubes, CopyBottomToClient(t) PROVE pending' \subseteq forwarded'
  BY <1>1, <1>8 DEF CopyBottomToClient, Abort, recordVars, tubeVars
<1>9. CASE Desktop
  BY <1>1, <1>9 DEF Desktop, SetShare, DeleteShare, MapWindow, MovePointer,
     ServerHangsUp, Deliver, recordVars, tubeVars
<1>10. CASE Peer \/ UNCHANGED vars
  BY <1>1, <1>10 DEF Peer, PeerReads, PeerSends, vars, recordVars, tubeVars
<1> QED BY <1>4, <1>5, <1>6, <1>7, <1>8, <1>9, <1>10 DEF Next, Plugin, XEventFilter

LEMMA ControlRuleNext ==
  ASSUME FewIds, "full" \notin Env, IInv, OneRequest, OneStream, ControlRule,
         [Next]_vars
  PROVE  ControlRule'
<1>1. pending' \subseteq forwarded' /\ PointerRule'
  BY PendingLives, PointerRuleNext DEF ControlRule
<1>2. ChannelsRule /\ PointerRule
  BY DEF ControlRule
<1> SUFFICES ChannelsRule'
  BY <1>1 DEF ControlRule
<1>3. CASE UNCHANGED <<down, forwarded, highest, peerOpen, peerOffered>>
  BY <1>2, <1>3 DEF ChannelsRule
<1>4. ASSUME NEW w \in Windows, NEW state, SetSharingState(w, state),
             UNCHANGED peerVars
      PROVE  ChannelsRule'
  BY <1>2, <1>3, <1>4, ShareInOrder, UnshareInOrder
     DEF SetSharingState, recordVars, peerVars
<1>5. CASE XEventFilter
  <2> DEFINE w == Head(xevents).win
  <2>1. w \in Windows
    BY <1>5, EventsType DEF IInv, XEventFilter, PropertyChanged, PropertyDeleted,
         WindowMapped, PointerMoved, PointerLeft, ReportPointer
  <2>2. CASE PropertyChanged
    BY <1>3, <1>4, <2>1, <2>2 DEF PropertyChanged, Abort, recordVars, peerVars
  <2>3. CASE PropertyDeleted
    BY <1>4, <2>1, <2>3 DEF PropertyDeleted
  <2>4. CASE WindowMapped
    BY <1>2, <1>3, <2>1, <2>4, ShareInOrder DEF WindowMapped, recordVars, peerVars
  <2>5. CASE PointerLeft
    <3>1. UNCHANGED down \/ Send(Hide)
      BY <2>5 DEF PointerLeft, ReportPointer
    <3>2. UNCHANGED <<forwarded, highest, peerVars>>
      BY <2>5 DEF PointerLeft, ReportPointer, recordVars
    <3>3. Hide \in DownBlocks /\ Hide.op \notin Control
      BY BlocksDown DEF Hide, Control
    <3> QED BY <1>2, <1>3, <3>1, <3>2, <3>3, DataInOrder DEF peerVars
  <2> QED BY <1>2, <1>5, <2>2, <2>3, <2>4, <2>5, PointerInOrder DEF XEventFilter
<1>6. ASSUME NEW c \in Ids, TubeFailed(c) \/ WatchDropped(c) PROVE ChannelsRule'
  BY <1>3, <1>6 DEF TubeFailed, WatchDropped, recordVars, peerVars
<1>7. CASE Desktop
  BY <1>3, <1>7 DEF Desktop, SetShare, DeleteShare, MapWindow, MovePointer,
     ServerHangsUp, Deliver, recordVars, peerVars
<1>8. CASE Peer
  BY <1>2, <1>3, <1>8, ReadInOrder DEF Peer, PeerSends, recordVars, peerVars
<1>9. CASE UNCHANGED vars
  BY <1>3, <1>9 DEF vars, recordVars, peerVars
<1>10. ASSUME NEW c \in Ids, TubeReady(c) \/ CopyClientToBottom(c) PROVE ChannelsRule'
  BY <1>2, <1>10, FirstInOrder, WatchInOrder
<1>11. ASSUME NEW t \in Tubes, CopyBottomToClient(t) PROVE ChannelsRule'
  BY <1>2, <1>11, BlockInOrder
<1> QED BY <1>5, <1>6, <1>7, <1>8, <1>9, <1>10, <1>11 DEF Next, Plugin

\* The block that is read next is lawful.
LEMMA HeadIsLawful ==
  ASSUME IInv, StalePixels, ChannelsRule
  PROVE  ControlInOrder
<1> SUFFICES ASSUME NEW t \in Tubes, down[t] # <<>>
             PROVE  LegalControl(Head(down[t]), t)
  BY DEF ControlInOrder
<1>1. PICK s \in Seq(DownBlocks) : s = down[t]
  BY DEF IInv, TypeOK
<1>2. PICK b : b = Head(s)
  OBVIOUS
<1>3. TubeRule(s, peerOpen[t], peerOffered[t], forwarded, highest)
  BY <1>1 DEF ChannelsRule
<1>4. /\ Waiting(s) = {b} \cup Waiting(Tail(s))
      /\ \A a \in Waiting(Tail(s)) : MayFollow(b, a)
  BY <1>1, <1>2, <1>3, WaitingRead DEF TubeRule
<1>5. b.op \in {"NAME", "TYPE", "MOUSE"} => b.id \in peerOpen[t]
  <2>1. b.op \in {"NAME", "TYPE", "MOUSE"} => ~ OnItsWay(s, b.id)
    BY <1>4 DEF OnItsWay, MayFollow, Control
  <2> QED BY <1>3, <1>4, <2>1 DEF TubeRule
<1>6. /\ b.op = "OPEN" => b.id \notin peerOffered[t]
      /\ b.op = "CLOSE" => (b.id \in peerOffered[t] => b.id \in peerOpen[t])
  BY <1>3, <1>4 DEF TubeRule
<1>7. b.op \in {"RFB", "EMPTY"} =>
        (b.id = 0 => \E c \in accepted \ forwarded : window[c] = b.win)
  <2>1. 1 \in 1 .. Len(s) /\ s[1] = b
    BY <1>1, <1>2
  <2> QED BY <1>1, <2>1 DEF StalePixels
<1> QED BY <1>1, <1>2, <1>5, <1>6, <1>7 DEF LegalControl

-----------------------------------------------------------------------------
(* And when no window is asked for twice: what is shared has been offered. *)

Offered(c) ==
  \E t \in Tubes : OnItsWay(down[t], c) \/ c \in peerOffered[t]

\* A window that is shared waits for its tube, or has been told that there is
\* none, or has been offered.
OffersRule ==
  \A c \in forwarded : c \in pending \/ result[window[c]] = 301 \/ Offered(c)

\* Nothing on its way is lost.
Delivered == \A t \in Tubes : \A c : OnItsWay(down[t], c) => OnItsWay(down'[t], c)

LEMMA SendDelivers ==
  ASSUME TypeOK, "full" \notin Env, NEW b \in DownBlocks, Send(b)
  PROVE  Delivered /\ (bottom \in Tubes /\ b.op = "OPEN" => OnItsWay(down'[bottom], b.id))
<1>1. CASE bottom \in Tubes
  <2>1. PICK s \in Seq(DownBlocks) : s = down[bottom] /\ down'[bottom] = Append(s, b)
    BY <1>1, Sent
  <2>2. \A c : OnItsWay(Append(s, b), c) <=> OnItsWay(s, c) \/ (b.op = "OPEN" /\ b.id = c)
    BY WaitingAdded
  <2> QED BY <2>1, <2>2, Sent DEF Delivered
<1>2. CASE bottom \notin Tubes
  BY <1>2, Sent DEF Delivered
<1> QED BY <1>1, <1>2

LEMMA SendBothDelivers ==
  ASSUME TypeOK, "full" \notin Env, NEW a \in DownBlocks, NEW b \in DownBlocks,
         SendBoth(a, b)
  PROVE  Delivered
<1>1. CASE bottom \in Tubes
  <2>1. PICK s \in Seq(DownBlocks), q \in Seq(DownBlocks) :
          s = down[bottom] /\ q = Append(s, a) /\ down'[bottom] = Append(q, b)
    BY <1>1, SentBoth
  <2>2. \A c : OnItsWay(s, c) => OnItsWay(q, c)
    BY <2>1, WaitingAdded
  <2>3. \A c : OnItsWay(q, c) => OnItsWay(Append(q, b), c)
    BY WaitingAdded
  <2> QED BY <2>1, <2>2, <2>3, SentBoth DEF Delivered
<1>2. CASE bottom \notin Tubes
  BY <1>2, SentBoth DEF Delivered
<1> QED BY <1>1, <1>2

LEMMA OffersStand ==
  ASSUME Delivered, \A t \in Tubes : peerOffered[t] \subseteq peerOffered'[t]
  PROVE  \A c : Offered(c) => Offered(c)'
BY DEF Offered, Delivered

LEMMA OffersStayRead ==
  ASSUME IInv, ChannelsRule, NEW t \in Tubes, PeerReads(t)
  PROVE  \A c : Offered(c) => Offered(c)'
<1>1. PICK s \in Seq(DownBlocks) : s = down[t]
  BY DEF IInv, TypeOK
<1>2. PICK b : b = Head(s)
  OBVIOUS
<1>3. s # <<>> /\ Waiting(s) = {b} \cup Waiting(Tail(s))
  BY <1>1, <1>2, WaitingRead DEF PeerReads, ChannelsRule, TubeRule
<1>4. /\ down \in [Tubes -> Seq(DownBlocks)] /\ peerOffered \in [Tubes -> SUBSET Nat]
  BY DEF IInv, TypeOK
<1>5. /\ down'[t] = Tail(s) /\ \A r \in Tubes \ {t} : down'[r] = down[r]
      /\ \A r \in Tubes : peerOffered[r] \subseteq peerOffered'[r]
      /\ b.op = "OPEN" => b.id \in peerOffered'[t]
  BY <1>1, <1>2, <1>4 DEF PeerReads, peerVars
<1>6. \A c : OnItsWay(s, c) => OnItsWay(Tail(s), c) \/ (b.op = "OPEN" /\ b.id = c)
  BY <1>3 DEF OnItsWay
<1> QED BY <1>1, <1>5, <1>6 DEF Offered

\* What has been offered stays offered.
LEMMA OffersStay ==
  ASSUME FewIds, "full" \notin Env, IInv, ControlRule, [Next]_vars
  PROVE  \A c : Offered(c) => Offered(c)'
<1>1. TypeOK /\ ChannelsRule
  BY DEF IInv, ControlRule
<1>2. CASE UNCHANGED <<down, peerOffered>>
  BY <1>2 DEF Offered
<1>3. CASE Delivered /\ UNCHANGED peerOffered
  BY <1>3, OffersStand
<1>4. ASSUME NEW b \in DownBlocks, Send(b), UNCHANGED peerVars
      PROVE  \A c : Offered(c) => Offered(c)'
  BY <1>1, <1>3, <1>4, SendDelivers DEF peerVars
<1>5. ASSUME NEW w \in Windows, NEW state, SetSharingState(w, state), UNCHANGED peerVars
      PROVE  \A c : Offered(c) => Offered(c)'
  <2>1. highest + 1 \in Nat /\ byX11[w] \in Nat
    BY <1>1, ProtocolAssumption DEF TypeOK
  <2>2. About("OPEN", highest + 1) \in DownBlocks /\ About("CLOSE", byX11[w]) \in DownBlocks
    BY <2>1, BlocksDown
  <2> QED BY <1>2, <1>4, <1>5, <2>2 DEF SetSharingState, ShareWindow, UnshareWindow, peerVars
<1>6. CASE XEventFilter
  <2> DEFINE w == Head(xevents).win
  <2>1. w \in Windows
    BY <1>1, <1>6, EventsType DEF XEventFilter, PropertyChanged, PropertyDeleted,
         WindowMapped, PointerMoved, PointerLeft, ReportPointer
  <2>2. CASE PropertyChanged \/ PropertyDeleted
    BY <1>2, <1>5, <2>1, <2>2 DEF PropertyChanged, PropertyDeleted, Abort, peerVars
  <2>3. CASE WindowMapped
    <3>1. SetSharingState(w, 1) \/ UNCHANGED down
      BY <2>3 DEF WindowMapped, SetSharingState
    <3> QED BY <1>2, <1>5, <2>1, <2>3, <3>1 DEF WindowMapped, peerVars
  <2>4. CASE PointerMoved \/ PointerLeft
    <3>1. byX11[w] \in Nat
      BY <1>1, <2>1, ProtocolAssumption DEF TypeOK
    <3>2. About("MOUSE", byX11[w]) \in DownBlocks /\ Hide \in DownBlocks
      BY <3>1, BlocksDown
    <3>3. UNCHANGED down \/ \E b \in DownBlocks : Send(b)
      BY <2>4, <3>2 DEF PointerMoved, PointerLeft, ReportPointer
    <3> QED BY <1>2, <1>4, <2>4, <3>3 DEF PointerMoved, PointerLeft, ReportPointer, peerVars
  <2> QED BY <1>6, <2>2, <2>3, <2>4 DEF XEventFilter
<1>7. ASSUME NEW c \in Ids, TubeReady(c) PROVE \A d : Offered(d) => Offered(d)'
  <2>1. PICK t : t = tubes + 1
    OBVIOUS
  <2>2. t \in Tubes /\ t > tubes
    BY <1>1, <1>7, <2>1 DEF TubeReady, TypeOK, Tubes
  <2>3. down[t] = <<>>
    BY <2>2 DEF IInv, TubesInOrder
  <2>4. UNCHANGED peerOffered /\ \A s \in Tubes \ {t} : down'[s] = down[s]
    BY <1>1, <1>7, <2>1 DEF TubeReady, TypeOK, peerVars
  <2>5. \A d : ~ OnItsWay(down[t], d)
    <3>1. \A i \in 1 .. Len(<<>>) : FALSE
      OBVIOUS
    <3> QED BY <2>3, <3>1 DEF OnItsWay, Waiting
  <2> QED BY <2>4, <2>5 DEF Offered
<1>8. ASSUME NEW t \in Tubes, CopyBottomToClient(t) PROVE \A c : Offered(c) => Offered(c)'
  <2>1. ASSUME NEW c \in Nat, SendBoth(About("NAME", c), About("TYPE", c)) PROVE Delivered
    BY <1>1, <2>1, BlocksDown, SendBothDelivers
  <2>2. forwarded \subseteq Nat
    BY <1>1 DEF TypeOK, Ids
  <2>3. \A c : HandleAccept(c) => UNCHANGED down \/ Delivered
    BY <2>1, <2>2 DEF HandleAccept
  <2> QED BY <1>2, <1>3, <1>4, <1>8, <2>3, BlocksDown
          DEF CopyBottomToClient, HandleBlock, HandleNonsense, Abort, peerVars
<1>9. ASSUME NEW c \in Ids, CopyClientToBottom(c) PROVE \A d : Offered(d) => Offered(d)'
  <2>1. window[c] \in Windows /\ UNCHANGED peerVars
    BY <1>9, RecordsOfWindows DEF IInv, CopyClientToBottom
  <2>2. \A id \in Nat : FromServer(c, id) \in DownBlocks
    BY <2>1, BlocksDown DEF FromServer
  <2>3. UNCHANGED down \/ \E id \in Nat : Send(FromServer(c, id))
    BY <1>9, SharingAssumption DEF CopyClientToBottom, Ids
  <2> QED BY <1>2, <1>4, <2>1, <2>2, <2>3 DEF peerVars
<1>10. CASE Desktop
  BY <1>2, <1>10 DEF Desktop, SetShare, DeleteShare, MapWindow, MovePointer,
     ServerHangsUp, Deliver, peerVars
<1>11. CASE Peer
  BY <1>1, <1>2, <1>11, OffersStayRead DEF Peer, PeerSends, peerVars
<1>12. ASSUME NEW c \in Ids, TubeFailed(c) \/ WatchDropped(c)
       PROVE  \A d : Offered(d) => Offered(d)'
  BY <1>2, <1>12 DEF TubeFailed, WatchDropped, peerVars
<1>13. CASE UNCHANGED vars
  BY <1>2, <1>13 DEF vars, peerVars
<1> QED BY <1>6, <1>7, <1>8, <1>9, <1>10, <1>11, <1>12, <1>13 DEF Next, Plugin

\* A window shared for the first time, or again after it was unshared.
LEMMA ShareOffers ==
  ASSUME FewIds, "full" \notin Env, IInv, OneRecord, OffersRule,
         \A c : Offered(c) => Offered(c)',
         NEW w \in Windows, byX11[w] = 0, ShareWindow(w)
  PROVE  OffersRule'
<1>1. PICK c : c = highest + 1
  OBVIOUS
<1>2. /\ window' = [window EXCEPT ![c] = w] /\ forwarded' = forwarded \cup {c}
      /\ pending \subseteq pending'
      /\ \/ bottom # 0 /\ Send(About("OPEN", c)) /\ UNCHANGED result
         \/ pending' = pending \cup {c} /\ UNCHANGED result
         \/ result' = [result EXCEPT ![w] = 301]
  BY <1>1 DEF ShareWindow, Register, SetResult
<1>3. /\ c \in Ids /\ highest \in Nat
      /\ window \in [Ids -> Windows \cup {NoWindow}] /\ bottom \in {0} \cup Tubes
      /\ result \in [Windows -> {Absent, 100, 102, 103, 301}]
  BY <1>1, ProtocolAssumption, SharingAssumption
     DEF ShareWindow, IInv, TypeOK, Ids, Tubes
<1>4. \A d \in forwarded : d \in Ids \ {c} /\ window[d] \in Windows
  <2>1. \A d \in forwarded : d \in Ids /\ window[d] \in Windows
    BY RecordsOfWindows DEF IInv
  <2>2. window[c] = NoWindow
    BY <1>1, <1>3 DEF IInv, Records
  <2> QED BY <2>1, <2>2, ProtocolAssumption
<1>5. window'[c] = w /\ \A d \in forwarded : window'[d] = window[d] /\ window[d] # w
  BY <1>2, <1>3, <1>4 DEF OneRecord, Ids
<1>6. \A d \in forwarded : result'[window[d]] = result[window[d]]
  BY <1>2, <1>3, <1>4, <1>5
<1>7. c \in pending' \/ result'[w] = 301 \/ Offered(c)'
  <2>1. CASE bottom # 0 /\ Send(About("OPEN", c))
    <3>1. PICK b \in DownBlocks : b.op = "OPEN" /\ b.id = c /\ Send(b)
      BY <1>3, <2>1, BlockAbout
    <3>2. bottom \in Tubes /\ OnItsWay(down'[bottom], c)
      BY <1>3, <2>1, <3>1, SendDelivers DEF IInv
    <3> QED BY <3>2 DEF Offered
  <2> QED BY <1>2, <1>3, <2>1
<1> QED BY <1>2, <1>5, <1>6, <1>7 DEF OffersRule

LEMMA UnshareKeepsOffers ==
  ASSUME IInv, OneRecord, OffersRule, \A c : Offered(c) => Offered(c)',
         NEW w \in Windows, UnshareWindow(w), SetResult(w, 100)
  PROVE  OffersRule'
<1>1. UNCHANGED <<window, pending>> /\ result' = [result EXCEPT ![w] = 100]
  BY DEF UnshareWindow, tubeVars, SetResult
<1>2. \A c \in forwarded : c \in Ids /\ window[c] \in Windows
  BY RecordsOfWindows DEF IInv
<1>3. \A c \in forwarded' : c \in forwarded /\ window[c] # w
  BY <1>2 DEF UnshareWindow, OneRecord, Ids
<1>4. \A c \in forwarded' : result'[window[c]] = result[window[c]]
  BY <1>1, <1>2, <1>3 DEF IInv, TypeOK
<1> QED BY <1>1, <1>3, <1>4 DEF OffersRule

LEMMA OffersRuleNext ==
  ASSUME AsksOnce, FewIds, "full" \notin Env, IInv, OneRequest, PropertiesRule,
         OneRecord, ControlRule, OffersRule, [Next]_vars
  PROVE  OffersRule'
<1>1. TypeOK /\ \A c : Offered(c) => Offered(c)'
  BY OffersStay DEF IInv
<1>2. CASE UNCHANGED <<forwarded, window, pending, result>>
  BY <1>1, <1>2 DEF OffersRule
<1>3. CASE PropertyChanged
  <2>1. PICK w : w = Head(xevents).win /\ w \in Windows
    BY <1>1, <1>3, EventsType DEF PropertyChanged
  <2>2. NextEvent("changed")
    BY <1>3 DEF PropertyChanged
  <2>3. CASE shareProp[w] = Absent
    BY <1>2, <1>3, <2>1, <2>3 DEF PropertyChanged, Abort, recordVars, tubeVars
  <2>4. CASE shareProp[w] = 1
    <3>1. ShareWindow(w)
      BY <1>3, <2>1, <2>4, StateOne DEF PropertyChanged, Absent
    <3>2. byX11[w] = 0
      BY <1>1, <2>1, <2>2, <2>4, AskedFirst DEF PropertiesRule
    <3> QED BY <1>1, <2>1, <3>1, <3>2, ShareOffers
  <2>5. CASE shareProp[w] = 0
    <3>1. SetSharingState(w, 0)
      BY <1>3, <2>1, <2>5 DEF PropertyChanged, Absent
    <3>2. UnshareWindow(w) /\ SetResult(w, 100)
      BY <3>1 DEF SetSharingState
    <3> QED BY <1>1, <2>1, <3>2, UnshareKeepsOffers
  <2> QED BY <2>1, <2>3, <2>4, <2>5 DEF PropertiesRule
<1>4. CASE PropertyDeleted
  <2>1. PICK w : w = Head(xevents).win /\ w \in Windows
    BY <1>1, <1>4, EventsType DEF PropertyDeleted
  <2>2. UnshareWindow(w) /\ SetResult(w, 100)
    BY <1>4, <2>1 DEF PropertyDeleted, SetSharingState
  <2> QED BY <1>1, <2>1, <2>2, UnshareKeepsOffers
<1>5. CASE WindowMapped
  <2>1. NextEvent("map")
    BY <1>5 DEF WindowMapped
  <2>2. 1 \in 1 .. Len(xevents) /\ xevents[1].type = "map"
    BY <1>1, <2>1, AskedFirst
  <2> QED BY <2>2 DEF PropertiesRule
<1>6. CASE PointerMoved \/ PointerLeft
  BY <1>2, <1>6 DEF PointerMoved, PointerLeft, ReportPointer, recordVars, tubeVars
<1>7. ASSUME NEW c \in Ids, TubeReady(c) \/ TubeFailed(c) PROVE OffersRule'
  <2>1. c \in forwarded /\ pending' = pending \ {c} /\ UNCHANGED <<forwarded, window>>
    BY <1>7 DEF ControlRule, TubeReady, TubeFailed, recordVars
  <2>2. /\ result \in [Windows -> {Absent, 100, 102, 103, 301}]
        /\ \A d \in forwarded : d \in Ids /\ window[d] \in Windows
    BY <1>1, RecordsOfWindows DEF IInv, TypeOK
  <2>3. \A d \in forwarded \ {c} : window[d] # window[c]
    BY <2>1 DEF OneRecord
  <2>4. \E v : result' = [result EXCEPT ![window[c]] = v]
    BY <1>7 DEF TubeReady, TubeFailed, SetResult
  <2>5. \A d \in forwarded \ {c} : result'[window[d]] = result[window[d]]
    BY <2>1, <2>2, <2>3, <2>4
  <2>6. result'[window[c]] = 301 \/ Offered(c)'
    <3>1. CASE TubeFailed(c)
      BY <2>1, <2>2, <3>1 DEF TubeFailed, SetResult
    <3>2. CASE TubeReady(c)
      <4>1. PICK t : t = tubes + 1
        OBVIOUS
      <4>2. PICK b \in DownBlocks : b = About("OPEN", c) /\ b.op = "OPEN" /\ b.id = c
        BY BlockAbout
      <4>3. /\ t \in Tubes /\ down' = [down EXCEPT ![t] = <<b>>]
            /\ down \in [Tubes -> Seq(DownBlocks)]
        BY <1>1, <2>1, <3>2, <4>1, <4>2 DEF TubeReady, TypeOK, Tubes
      <4>4. down'[t] = <<b>>
        BY <4>3
      <4>5. b \in Waiting(<<b>>)
        <5>1. Len(<<b>>) = 1 /\ <<b>>[1] = b /\ 1 \in 1 .. 1
          OBVIOUS
        <5> QED BY <5>1 DEF Waiting
      <4> QED BY <4>2, <4>3, <4>4, <4>5 DEF Offered, OnItsWay
    <3> QED BY <1>7, <3>1, <3>2
  <2> QED BY <1>1, <2>1, <2>5, <2>6 DEF OffersRule
<1>8. ASSUME NEW c \in Ids, CopyClientToBottom(c) \/ WatchDropped(c) PROVE OffersRule'
  BY <1>2, <1>8 DEF CopyClientToBottom, WatchDropped, xvars, recordVars, tubeVars
<1>9. ASSUME NEW t \in Tubes, CopyBottomToClient(t) PROVE OffersRule'
  BY <1>2, <1>9 DEF CopyBottomToClient, Abort, recordVars, tubeVars
<1>10. CASE Desktop
  BY <1>2, <1>10 DEF Desktop, SetShare, DeleteShare, MapWindow, MovePointer,
     ServerHangsUp, Deliver, xvars, recordVars, tubeVars
<1>11. CASE Peer \/ UNCHANGED vars
  BY <1>2, <1>11 DEF Peer, PeerReads, PeerSends, vars, xvars, recordVars, tubeVars
<1> QED BY <1>3, <1>4, <1>5, <1>6, <1>7, <1>8, <1>9, <1>10, <1>11
        DEF Next, Plugin, XEventFilter

\* Nothing has been asked for, sent or read at first.
LEMMA NoEvents ==
  ASSUME Init
  PROVE  \A i \in 1 .. Len(xevents) : FALSE
<1>1. xevents = <<>>
  BY DEF Init
<1>2. \A i \in 1 .. Len(<<>>) : FALSE
  OBVIOUS
<1> QED BY <1>1, <1>2

LEMMA InitPatient ==
  ASSUME Init
  PROVE  OneRequest /\ OneStream /\ OnlyStaleRecordsKill
<1>1. OneRequest
  BY NoEvents DEF Init, OneRequest
<1>2. \A t \in Tubes : up[t] = <<>> /\ t # tubes
  BY DEF Init, Tubes
<1>3. \A i \in 1 .. Len(<<>>) : FALSE
  OBVIOUS
<1>4. OneStream
  BY <1>2, <1>3 DEF Init, OneStream
<1>5. OnlyStaleRecordsKill
  BY DEF Init, OnlyStaleRecordsKill
<1> QED BY <1>1, <1>4, <1>5

LEMMA InitOnce ==
  ASSUME Init
  PROVE  PropertiesRule /\ OneRecord /\ OneReader
<1>1. PropertiesRule
  BY NoEvents DEF Init, PropertiesRule
<1>2. OneRecord /\ OneReader
  BY DEF Init, OneRecord, OneReader
<1> QED BY <1>1, <1>2

LEMMA InitControl ==
  ASSUME Init
  PROVE  ControlRule
<1>1. highest \in Nat /\ \A t \in Tubes : down[t] = <<>> /\ peerOffered[t] = {}
  BY DEF Init
<1>2. ChannelsRule
  BY <1>1, NothingWaits DEF ChannelsRule
<1>3. PointerRule
  BY NoEvents DEF Init, PointerRule
<1> QED BY <1>2, <1>3 DEF Init, ControlRule

\* Both hold while the user waits.
LEMMA PatientInvariance == Waits => (Spec => [](OneRequest /\ OneStream))
<1> SUFFICES ASSUME Waits PROVE Spec => [](OneRequest /\ OneStream)
  OBVIOUS
<1>1. Init => OneRequest /\ OneStream
  BY InitPatient
<1>2. IInv /\ OneRequest /\ OneStream /\ [Next]_vars => (OneRequest /\ OneStream)'
  BY OneRequestNext, OneStreamNext
<1> QED BY <1>1, <1>2, Invariance, PTL DEF Spec

LEMMA OnceInvariance ==
  AsksOnce => (Spec => [](PropertiesRule /\ OneRecord /\ OneReader))
<1> SUFFICES ASSUME AsksOnce PROVE Spec => [](PropertiesRule /\ OneRecord /\ OneReader)
  OBVIOUS
<1>1. Init => PropertiesRule /\ OneRecord /\ OneReader
  BY InitOnce
<1>2. IInv /\ OneRequest /\ PropertiesRule /\ OneRecord /\ OneReader /\ [Next]_vars
        => (PropertiesRule /\ OneRecord /\ OneReader)'
  BY OnceNext
<1>3. Spec => [](OneRequest /\ OneStream)
  BY PatientInvariance DEF AsksOnce
<1> QED BY <1>1, <1>2, <1>3, Invariance, PTL DEF Spec

LEMMA ControlInvariance ==
  Waits /\ "full" \notin Env /\ FewIds => (Spec => []ControlRule)
<1> SUFFICES ASSUME Waits, "full" \notin Env, FewIds PROVE Spec => []ControlRule
  OBVIOUS
<1>1. Init => ControlRule
  BY InitControl
<1>2. IInv /\ OneRequest /\ OneStream /\ ControlRule /\ [Next]_vars => ControlRule'
  BY ControlRuleNext
<1>3. Spec => [](OneRequest /\ OneStream)
  BY PatientInvariance
<1> QED BY <1>1, <1>2, <1>3, Invariance, PTL DEF Spec

LEMMA StaleInvariance == FewIds => (Spec => []StalePixels)
<1> SUFFICES ASSUME FewIds PROVE Spec => []StalePixels
  OBVIOUS
<1>1. Init => StalePixels
  BY DEF Init, StalePixels
<1>2. IInv /\ StalePixels /\ [Next]_vars => StalePixels'
  BY StalePixelsNext DEF IInv
<1> QED BY <1>1, <1>2, Invariance, PTL DEF Spec

LEMMA OffersInvariance ==
  AsksOnce /\ "full" \notin Env /\ FewIds => (Spec => []OffersRule)
<1> SUFFICES ASSUME AsksOnce, "full" \notin Env, FewIds PROVE Spec => []OffersRule
  OBVIOUS
<1>1. Init => OffersRule
  BY DEF Init, OffersRule
<1>2. IInv /\ OneRequest /\ PropertiesRule /\ OneRecord /\ ControlRule /\ OffersRule /\ [Next]_vars
        => OffersRule'
  BY OffersRuleNext
<1>3. Spec => [](OneRequest /\ OneStream) /\ []ControlRule
  BY PatientInvariance, ControlInvariance DEF AsksOnce
<1> QED BY <1>1, <1>2, <1>3, OnceInvariance, Invariance, PTL DEF Spec

\* While the user waits for each request to be finished there is one tube, and
\* the parser of copy_bottom_to_client stays in step with what it brings.
THEOREM OneTubeAtATime == Waits => (Spec => []OneTubeInStep)
<1> SUFFICES ASSUME Waits PROVE Spec => []OneTubeInStep
  OBVIOUS
<1>1. OneStream => OneTubeInStep
  BY DEF OneStream, OneTubeInStep
<1>2. Spec => [](OneRequest /\ OneStream)
  BY PatientInvariance
<1> QED BY <1>1, <1>2, PTL

\* Then an ACCEPT is only ever acted upon after the remote end has read the OPEN
\* of that channel, without exception.
THEOREM PatientOffersComeFirst ==
  Waits => (Spec => [](\A c \in accepted : \E t \in Tubes : c \in peerOffered[t]))
<1> SUFFICES ASSUME Waits
             PROVE  Spec => [](\A c \in accepted : \E t \in Tubes : c \in peerOffered[t])
  OBVIOUS
<1>1. OneTubeInStep /\ AcceptedWereOffered
        => \A c \in accepted : \E t \in Tubes : c \in peerOffered[t]
  BY DEF OneTubeInStep, AcceptedWereOffered
<1> QED BY <1>1, OneTubeAtATime, OffersComeFirst, PTL

\* If, besides, every window has a name, nothing ends mutter but the watch of a
\* record that unshare_window has freed, and the failure of recv on the socket of
\* a VNC server that has hung up.
THEOREM OnlyStaleKill ==
  Waits /\ Named = Windows => (Spec => []OnlyStaleRecordsKill)
<1> SUFFICES ASSUME Waits, Named = Windows PROVE Spec => []OnlyStaleRecordsKill
  OBVIOUS
<1>1. Init => OnlyStaleRecordsKill
  BY InitPatient
<1>2. IInv /\ OneRequest /\ OneStream /\ OnlyStaleRecordsKill /\ [Next]_vars
        => OnlyStaleRecordsKill'
  BY HarmlessNext
<1>3. Spec => [](OneRequest /\ OneStream)
  BY PatientInvariance
<1> QED BY <1>1, <1>2, <1>3, Invariance, PTL DEF Spec

\* If no window is asked for twice, no two watches read from one VNC socket.
THEOREM OneReaderEach == AsksOnce => (Spec => []OneReader)
BY OnceInvariance, PTL

\* If the sockets take everything and two bytes hold every identifier, the remote
\* end reads OPEN, CLOSE, metadata and MOUSE in an order the protocol allows, and
\* pixels among them only from a watch that has outlived its record.
THEOREM ControlStaysInOrder ==
  Waits /\ "full" \notin Env /\ FewIds => (Spec => []ControlInOrder)
<1> SUFFICES ASSUME Waits, "full" \notin Env, FewIds PROVE Spec => []ControlInOrder
  OBVIOUS
<1>1. IInv /\ StalePixels /\ ControlRule => ControlInOrder
  BY HeadIsLawful DEF ControlRule
<1> QED BY <1>1, ControlInvariance, StaleInvariance, Invariance, PTL
\* What is open at the remote end has been offered to it.
OpenWasOffered == \A t \in Tubes : peerOpen[t] \subseteq peerOffered[t]

LEMMA OnlyPeerReads ==
  ASSUME [Next]_vars
  PROVE  (\E t \in Tubes : PeerReads(t)) \/ UNCHANGED peerVars
<1>1. CASE XEventFilter
  BY <1>1 DEF XEventFilter, PropertyChanged, PropertyDeleted, WindowMapped,
     PointerMoved, PointerLeft, ReportPointer, Abort
<1>2. ASSUME NEW c \in Ids,
             TubeReady(c) \/ TubeFailed(c) \/ CopyClientToBottom(c) \/ WatchDropped(c)
      PROVE  UNCHANGED peerVars
  BY <1>2 DEF TubeReady, TubeFailed, CopyClientToBottom, WatchDropped
<1>3. ASSUME NEW t \in Tubes, CopyBottomToClient(t) PROVE UNCHANGED peerVars
  BY <1>3 DEF CopyBottomToClient, Abort
<1>4. CASE Desktop
  BY <1>4 DEF Desktop, SetShare, DeleteShare, MapWindow, MovePointer,
     ServerHangsUp, Deliver
<1>5. CASE Peer
  BY <1>5 DEF Peer, PeerSends
<1>6. CASE UNCHANGED vars
  BY <1>6 DEF vars
<1> QED BY <1>1, <1>2, <1>3, <1>4, <1>5, <1>6 DEF Next, Plugin

LEMMA OpenWasOfferedNext ==
  ASSUME TypeOK, OpenWasOffered, [Next]_vars
  PROVE  OpenWasOffered'
<1>1. ASSUME NEW t \in Tubes, PeerReads(t) PROVE OpenWasOffered'
  <2>1. /\ peerOpen \in [Tubes -> SUBSET Nat]
        /\ peerOffered \in [Tubes -> SUBSET Nat]
    BY DEF TypeOK
  <2>2. PICK b : b = Head(down[t])
    OBVIOUS
  <2>3. \/ /\ peerOpen' = [peerOpen EXCEPT ![t] = @ \cup {b.id}]
           /\ peerOffered' = [peerOffered EXCEPT ![t] = @ \cup {b.id}]
        \/ /\ peerOpen' = [peerOpen EXCEPT ![t] = @ \ {b.id}]
           /\ peerOffered' = peerOffered
        \/ peerOpen' = peerOpen /\ peerOffered' = peerOffered
    BY <1>1, <2>2 DEF PeerReads, peerVars
  <2> QED BY <2>1, <2>3 DEF OpenWasOffered
<1>2. (\E t \in Tubes : PeerReads(t)) \/ UNCHANGED peerVars
  BY OnlyPeerReads DEF peerVars
<1> QED BY <1>1, <1>2 DEF OpenWasOffered, peerVars

\* The remote end knows what is shared.  When it has read all that is on its way
\* in a tube, the channels open there are those that are shared and were offered
\* on it; and when it has read everything, each window that is shared was offered
\* to it, or waits for its tube, or has been told that there is none.
RemoteEndUpToDate ==
  /\ \A t \in Tubes :
       down[t] = <<>> => peerOpen[t] = forwarded \cap peerOffered[t]
  /\ (\A t \in Tubes : down[t] = <<>>)
       => \A c \in forwarded :
            \/ c \in pending
            \/ result[window[c]] = 301
            \/ \E t \in Tubes : c \in peerOffered[t]

\* For a user who asks once for each window, sockets with room and identifiers
\* that fit their two bytes: nothing is left over when all has been read.  This is
\* the part of SharesAnswered and ClosesArrive that is not about fairness: a share
\* or a CLOSE that the remote end has not heard of is still on its way.
THEOREM NothingIsLeftOver ==
  AsksOnce /\ "full" \notin Env /\ FewIds => (Spec => []RemoteEndUpToDate)
<1> SUFFICES ASSUME AsksOnce, "full" \notin Env, FewIds
             PROVE  Spec => []RemoteEndUpToDate
  OBVIOUS
<1>1. ASSUME TypeOK, ControlRule, OffersRule, OpenWasOffered PROVE RemoteEndUpToDate
  <2>1. ASSUME NEW t \in Tubes, down[t] = <<>>
        PROVE  /\ Waiting(down[t]) = {}
               /\ \A c : ~ OnItsWay(down[t], c) /\ ~ Closing(down[t], c)
    <3>1. \A i \in 1 .. Len(<<>>) : FALSE
      OBVIOUS
    <3> QED BY <2>1, <3>1 DEF Waiting, OnItsWay, Closing
  <2>2. ASSUME NEW t \in Tubes, down[t] = <<>>
        PROVE  peerOpen[t] = forwarded \cap peerOffered[t]
    <3>1. TubeRule(down[t], peerOpen[t], peerOffered[t], forwarded, highest)
      BY <1>1 DEF ControlRule, ChannelsRule
    <3>2. peerOpen[t] \subseteq peerOffered[t]
      BY <1>1 DEF OpenWasOffered
    <3> QED BY <2>1, <2>2, <3>1, <3>2 DEF TubeRule
  <2>3. ASSUME \A t \in Tubes : down[t] = <<>>, NEW c \in forwarded
        PROVE  c \in pending \/ result[window[c]] = 301 \/ \E t \in Tubes : c \in peerOffered[t]
    BY <1>1, <2>1, <2>3 DEF OffersRule, Offered
  <2> QED BY <2>2, <2>3 DEF RemoteEndUpToDate
<1>2. Init => OpenWasOffered
  BY DEF Init, OpenWasOffered
<1>3. TypeOK /\ OpenWasOffered /\ [Next]_vars => OpenWasOffered'
  BY OpenWasOfferedNext
<1>4. Waits
  BY DEF AsksOnce
<1>5. Spec => []ControlRule /\ []OffersRule /\ []TypeOK
  BY <1>4, ControlInvariance, OffersInvariance, TypeCorrect
<1> QED BY <1>1, <1>2, <1>3, <1>5, PTL DEF Spec

=============================================================================
