---------------------------- MODULE Xzibit_proofs ----------------------------
(***************************************************************************)
(* Theorems about the two programs on one tube: together they implement    *)
(* the sending half with its unspecified remote end, so what has been      *)
(* proved of Sharing holds of them; and the two desktops agree.            *)
(***************************************************************************)
EXTENDS Xzibit, Sharing_proofs, FiniteSetTheorems

\* Every record the display program has made is the one its channel has, and was
\* made for a channel that was offered.
DisplayInv ==
  /\ received \in [Ids -> {0} \cup Display!Records]
  /\ channel \in [Display!Records -> {0} \cup Ids]
  /\ fd \in [Display!Records -> {0} \cup Fds]
  /\ audio = {}
  /\ watched \subseteq Display!Allocated
  /\ destroyed \subseteq Display!Allocated
  /\ \A r \in Display!Allocated :
       /\ received[channel[r]] = r
       /\ channel[r] \in peerOffered[1]
  /\ \A c \in Ids : received[c] # 0 => channel[received[c]] = c
  /\ Display!Allocated = 1 .. Display!Cardinality(Display!Allocated)
  /\ Display!Cardinality(Display!Allocated) \in Nat

-----------------------------------------------------------------------------
(* The steps of the display program.                                       *)

LEMMA OneTube == Tubes = {1}
BY XzibitAssumption DEF Tubes

LEMMA SameCardinality == \A S : Display!Cardinality(S) = Cardinality(S)
BY DEF Display!Cardinality, Cardinality

\* A block the program writes is about one of the channels there are.
LEMMA Wrote ==
  ASSUME TypeOK, Upstream, NEW op, NEW c, Display!WriteBlock(op, c)
  PROVE  /\ op \in {"ACCEPT", "CLOSE", "DATA"} /\ c \in Ids
         /\ Len(up[1]) < PeerSize
         /\ up' = [up EXCEPT ![1] = Append(@, [op |-> op, id |-> c])]
<1>1. PICK q \in Seq(UpBlocks) : q = up[1]
  BY OneTube DEF TypeOK
<1>2. up \in [Tubes -> Seq(UpBlocks)] /\ 1 \in Tubes
  BY OneTube DEF TypeOK
<1>3. Len(q) < PeerSize /\ up'[1] = Append(q, [op |-> op, id |-> c])
  BY <1>1 DEF Display!WriteBlock
<1>4. up' # up
  BY <1>1, <1>3
<1>5. PICK o \in {"ACCEPT", "CLOSE", "DATA"}, d \in Ids :
        up' = [up EXCEPT ![1] = Append(q, [op |-> o, id |-> d])]
  BY <1>1, <1>4 DEF Upstream
<1>6. Append(q, [op |-> o, id |-> d]) = Append(q, [op |-> op, id |-> c])
  BY <1>2, <1>3, <1>5
<1>7. [op |-> o, id |-> d] = [op |-> op, id |-> c]
  BY <1>1, <1>6
<1>8. o = op /\ d = c
  BY <1>7
<1> QED BY <1>1, <1>3, <1>5, <1>8

\* If it writes nothing, nothing is written.
LEMMA WroteNothing ==
  ASSUME TypeOK, Upstream, UNCHANGED up[1]
  PROVE  UNCHANGED up
<1>1. up \in [Tubes -> Seq(UpBlocks)] /\ 1 \in Tubes
  BY OneTube DEF TypeOK
<1>2. PICK q \in Seq(UpBlocks) : q = up[1]
  BY <1>1
<1>3. ASSUME NEW b, up' = [up EXCEPT ![1] = Append(q, b)] PROVE FALSE
  <2>1. Append(q, b) = q
    BY <1>1, <1>2, <1>3
  <2>2. Len(Append(q, b)) = Len(q) + 1 /\ Len(q) \in Nat
    BY <1>2
  <2> QED BY <2>1, <2>2
<1> QED BY <1>2, <1>3 DEF Upstream
\* The tables are as they were, whatever has become of the windows.
TablesKept ==
  /\ UNCHANGED <<received, channel, fd, audio>>
  /\ watched' \subseteq watched
  /\ destroyed' \subseteq destroyed \cup Display!Allocated

\* A record is made for a channel that has none.
NewRecordFor(c) ==
  LET r == Cardinality(Display!Allocated) + 1 IN
  /\ c \in Ids /\ received[c] = 0
  /\ r \in Display!Records
  /\ received' = [received EXCEPT ![c] = r]
  /\ channel' = [channel EXCEPT ![r] = c]
  /\ fd' \in [Display!Records -> {0} \cup Fds]
  /\ watched' \subseteq watched \cup {r}
  /\ UNCHANGED <<audio, destroyed, dismissed>>

LEMMA OpenHandled ==
  ASSUME TypeOK, DisplayInv, Upstream, NEW c, Display!OpenNewChannel(c)
  PROVE  \/ TablesKept /\ UNCHANGED <<up, destroyed, dismissed, life>> /\ received[c] # 0
         \/ NewRecordFor(c) /\ PeerWrites(1, "ACCEPT", c) /\ UNCHANGED life
<1>1. CASE received[c] # 0
  <2>1. TablesKept /\ UNCHANGED <<up[1], destroyed, dismissed, life>>
    BY <1>1 DEF Display!OpenNewChannel, Display!Ignored, Display!tables,
       Display!widgets, TablesKept
  <2> QED BY <1>1, <2>1, WroteNothing
<1>2. CASE received[c] = 0
  <2>1. PICK r : r = Cardinality(Display!Allocated) + 1
    OBVIOUS
  <2>2. /\ Display!NewRecord(c) /\ Display!WriteBlock("ACCEPT", c)
        /\ \E f \in Fds : fd' = [fd EXCEPT ![r] = f]
        /\ watched' = watched \cup {r}
        /\ UNCHANGED <<audio, destroyed, dismissed, life>>
    BY <1>2, <2>1, SameCardinality DEF Display!OpenNewChannel
  <2>3. /\ r \in Display!Records /\ received' = [received EXCEPT ![c] = r]
        /\ channel' = [channel EXCEPT ![r] = c]
    BY <2>1, <2>2, SameCardinality DEF Display!NewRecord
  <2>4. fd' \in [Display!Records -> {0} \cup Fds]
    BY <2>2 DEF DisplayInv
  <2>5. c \in Ids /\ PeerWrites(1, "ACCEPT", c)
    BY <2>2, Wrote DEF PeerWrites
  <2> QED BY <1>2, <2>1, <2>2, <2>3, <2>4, <2>5 DEF NewRecordFor
<1> QED BY <1>1, <1>2

LEMMA CloseHandled ==
  ASSUME TypeOK, DisplayInv, NoClash, Upstream, NEW c, Display!CloseChannel(c)
  PROVE  /\ TablesKept /\ UNCHANGED dismissed
         /\ UNCHANGED up \/ PeerWrites(1, "CLOSE", c)
         /\ \/ life' # "running"
            \/ received[c] = 0 /\ UNCHANGED <<destroyed, life>>
            \/ c \in Ids /\ destroyed' = destroyed \cup {received[c]} /\ UNCHANGED life
<1>1. CASE received[c] = 0
  <2>1. TablesKept /\ UNCHANGED <<up[1], destroyed, dismissed, life>>
    BY <1>1 DEF Display!CloseChannel, Display!Ignored, Display!tables,
       Display!widgets, TablesKept
  <2> QED BY <1>1, <2>1, WroteNothing
<1>2. CASE received[c] # 0
  <2>1. PICK r : r = received[c]
    OBVIOUS
  <2>2. CASE Display!Dies("freed")
    <3>1. TablesKept /\ UNCHANGED <<up[1], dismissed>> /\ life' # "running"
      BY <2>2 DEF Display!Dies, Display!tables, Display!widgets, TablesKept
    <3> QED BY <3>1, WroteNothing
  <2>3. CASE /\ destroyed' = IF r \in audio THEN destroyed ELSE destroyed \cup {r}
             /\ received' = Display!RemovedRecord(r)
             /\ Display!WriteBlock("CLOSE", c)
             /\ UNCHANGED <<channel, fd, audio, dismissed, watched, life>>
    <3>1. c \in Ids /\ PeerWrites(1, "CLOSE", c)
      BY <2>3, Wrote DEF PeerWrites
    <3>2. r \in Display!Records /\ channel[r] = c
      BY <1>2, <2>1, <3>1 DEF DisplayInv
    <3>3. r \in Display!Allocated
      BY <3>1, <3>2 DEF Display!Allocated, Ids
    <3>4. \A d \in Ids : d # fd[r]
      BY <3>2 DEF NoClash
    <3>5. received' = received
      <4>1. received' = [d \in Ids |-> IF d = fd[r] THEN 0 ELSE received[d]]
        BY <2>3 DEF Display!RemovedRecord, Display!Ids, Ids
      <4>2. received = [d \in Ids |-> received[d]]
        BY DEF DisplayInv
      <4> QED BY <3>4, <4>1, <4>2
    <3> QED BY <2>1, <2>3, <3>1, <3>3, <3>5 DEF TablesKept, DisplayInv
  <2> QED BY <1>2, <2>1, <2>2, <2>3 DEF Display!CloseChannel
<1> QED BY <1>1, <1>2

\* All other blocks leave the tables and what is written alone.
LEMMA OtherHandled ==
  ASSUME TypeOK, DisplayInv, Upstream, NEW b \in DownBlocks, b.op \notin {"OPEN", "CLOSE"},
         Display!HandleXzibitMessage(b) \/ Display!Dies("null")
  PROVE  TablesKept /\ UNCHANGED <<up, destroyed, dismissed>>
<1> USE DEF Display!Ignored, Display!Dies, Display!UsesFreed, Display!tables, Display!widgets
<1>1. b.op # "LISTEN"
  BY DEF DownBlocks, Hide, Avatar, Torn
<1>2. TablesKept /\ UNCHANGED <<up[1], destroyed, dismissed>>
  <2>1. CASE Display!Dies("null")
    BY <2>1 DEF TablesKept
  <2>2. CASE Display!ApplyMetadata(b.id, b)
    BY <2>2 DEF TablesKept, Display!ApplyMetadata, Display!ApplyMetadataNow
  <2>3. CASE Display!MovePointerTo(b.id)
    BY <2>3 DEF TablesKept, Display!MovePointerTo
  <2>4. CASE Display!HandleStream(b.id)
    BY <2>4 DEF TablesKept, Display!HandleStream
  <2>5. CASE Display!Ignored
    BY <2>5 DEF TablesKept
  <2> QED BY <1>1, <2>1, <2>2, <2>3, <2>4, <2>5 DEF Display!HandleXzibitMessage
<1> QED BY <1>2, WroteNothing

LEMMA InvKept ==
  ASSUME DisplayInv, TablesKept, peerOffered[1] \subseteq peerOffered'[1]
  PROVE  DisplayInv'
<1>1. Display!Allocated' = Display!Allocated
  BY DEF TablesKept, Display!Allocated
<1>2. /\ watched' \subseteq Display!Allocated /\ destroyed' \subseteq Display!Allocated
  BY DEF TablesKept, DisplayInv
<1> QED BY <1>1, <1>2 DEF TablesKept, DisplayInv

LEMMA NextNumber ==
  ASSUME NEW n \in Nat
  PROVE  /\ n + 1 \notin 1 .. n /\ n + 1 # 0 /\ (1 .. n) \cup {n + 1} = 1 .. n + 1
         /\ n + 1 \in Nat /\ Cardinality(1 .. n + 1) = n + 1
<1>1. Cardinality(1 .. n + 1) = IF 1 > n + 1 THEN 0 ELSE (n + 1) - 1 + 1
  BY FS_Interval
<1> QED BY <1>1

LEMMA InvOfNewRecord ==
  ASSUME DisplayInv, NEW c, NewRecordFor(c), peerOffered'[1] = peerOffered[1] \cup {c}
  PROVE  /\ DisplayInv'
         /\ \E r \in Display!Records \ Display!Allocated :
              /\ Display!Allocated' = Display!Allocated \cup {r}
              /\ channel' = [channel EXCEPT ![r] = c]
<1>1. PICK n, r, old : /\ n = Cardinality(Display!Allocated) /\ r = n + 1
                       /\ old = Display!Allocated
  OBVIOUS
<1>2. old = 1 .. n /\ n \in Nat /\ old \subseteq Display!Records
  BY <1>1, SameCardinality DEF DisplayInv, Display!Allocated
<1>20. r \notin old /\ r # 0 /\ old \cup {r} = 1 .. r
  BY <1>1, <1>2, NextNumber
<1>3. /\ r \in Display!Records \ old /\ c \in Ids /\ c # 0 /\ r # 0
      /\ received' = [received EXCEPT ![c] = r]
      /\ channel' = [channel EXCEPT ![r] = c]
  BY <1>1, <1>20 DEF NewRecordFor, Ids
<1>4. /\ received \in [Ids -> {0} \cup Display!Records]
      /\ channel \in [Display!Records -> {0} \cup Ids]
  BY DEF DisplayInv
<1>5. /\ received'[c] = r /\ \A d \in Ids \ {c} : received'[d] = received[d]
      /\ channel'[r] = c
      /\ \A q \in Display!Records \ {r} : channel'[q] = channel[q]
  BY <1>3, <1>4
<1>6. Display!Allocated' = old \cup {r}
  BY <1>1, <1>3, <1>5 DEF Display!Allocated
<1>8. Cardinality(1 .. r) = r /\ r \in Nat
  BY <1>1, <1>2, NextNumber
<1>9. /\ Display!Allocated' = 1 .. Display!Cardinality(Display!Allocated')
      /\ Display!Cardinality(Display!Allocated') \in Nat
  BY <1>6, <1>8, <1>20, SameCardinality
<1>10. \A q \in old : channel[q] \in Ids /\ received[channel[q]] = q
                     /\ channel[q] \in peerOffered[1]
  BY <1>1, <1>4 DEF DisplayInv, Display!Allocated
<1>11. received[c] = 0
  BY DEF NewRecordFor
<1>12. \A q \in old : q \in Display!Records /\ q # 0 /\ channel[q] # c
  BY <1>2, <1>10, <1>11
<1>13. \A q \in Display!Allocated' :
         received'[channel'[q]] = q /\ channel'[q] \in peerOffered'[1]
  BY <1>3, <1>5, <1>6, <1>10, <1>12
<1>14. \A d \in Ids : received[d] # 0 => received[d] \in old /\ channel[received[d]] = d
  BY <1>1, <1>4 DEF DisplayInv, Display!Allocated, Ids
<1>15. \A d \in Ids : received'[d] # 0 => channel'[received'[d]] = d
  BY <1>2, <1>3, <1>5, <1>14
<1>16. /\ watched' \subseteq Display!Allocated' /\ destroyed' \subseteq Display!Allocated'
       /\ audio' = {} /\ fd' \in [Display!Records -> {0} \cup Fds]
  BY <1>1, <1>6 DEF DisplayInv, NewRecordFor
<1>17. /\ received' \in [Ids -> {0} \cup Display!Records]
       /\ channel' \in [Display!Records -> {0} \cup Ids]
  BY <1>3, <1>4
<1>18. DisplayInv'
  BY <1>9, <1>13, <1>15, <1>16, <1>17 DEF DisplayInv
<1> QED BY <1>1, <1>3, <1>6, <1>18

-----------------------------------------------------------------------------
(* Each step is one of Sharing, or leaves its variables alone.             *)

LEMMA ToldEffect ==
  ASSUME TypeOK, NEW b, Told(b)
  PROVE  /\ b.op = "OPEN" =>
              /\ peerOpen' = [peerOpen EXCEPT ![1] = @ \cup {b.id}]
              /\ peerOffered' = [peerOffered EXCEPT ![1] = @ \cup {b.id}]
              /\ peerOffered'[1] = peerOffered[1] \cup {b.id}
         /\ b.op = "CLOSE" =>
              /\ peerOpen' = [peerOpen EXCEPT ![1] = @ \ {b.id}]
              /\ UNCHANGED peerOffered
         /\ b.op \notin {"OPEN", "CLOSE"} => UNCHANGED <<peerOpen, peerOffered>>
<1>1. /\ peerOpen \in [Tubes -> SUBSET Nat] /\ peerOffered \in [Tubes -> SUBSET Nat]
      /\ 1 \in Tubes
  BY OneTube DEF TypeOK
<1> QED BY <1>1 DEF Told

\* What is at the head of the queue.
LEMMA HeadOfDown ==
  ASSUME TypeOK, down[1] # <<>>
  PROVE  Head(down[1]) \in DownBlocks
<1>1. PICK q \in Seq(DownBlocks) : q = down[1]
  BY OneTube DEF TypeOK
<1> QED BY <1>1

\* What the display program has read, and does about it.
LEMMA BlockTaken ==
  ASSUME TypeOK, DisplayInv, NoClash, DisplayTakesBlock
  PROVE  /\ PeerReads(1)
         /\ \/ TablesKept
            \/ /\ Head(down[1]).op = "OPEN" /\ NewRecordFor(Head(down[1]).id)
               /\ UNCHANGED life
<1>1. PICK b : b = Head(down[1])
  OBVIOUS
<1>2. /\ b \in DownBlocks /\ down[1] # <<>> /\ down' = [down EXCEPT ![1] = Tail(@)]
      /\ Upstream /\ Told(b)
      /\ UNCHANGED <<xvars, fate, recordVars, vncVars, pending, bottom, sync, tubes>>
      /\ Display!HandleXzibitMessage(b) \/ (b.op = "EMPTY" /\ Display!Dies("null"))
  BY <1>1, HeadOfDown DEF DisplayTakesBlock, Display!CheckForFdInput, SendingHalfSame
<1>3. b # Torn
  BY <1>2 DEF Torn, Display!HandleXzibitMessage
<1>4. CASE b.op = "OPEN"
  <2>1. Display!OpenNewChannel(b.id)
    BY <1>2, <1>4 DEF Display!HandleXzibitMessage
  <2>2. \/ TablesKept /\ UNCHANGED up
        \/ NewRecordFor(b.id) /\ PeerWrites(1, "ACCEPT", b.id) /\ UNCHANGED life
    BY <1>2, <2>1, OpenHandled
  <2> QED BY <1>1, <1>2, <1>3, <1>4, <2>2, ToldEffect DEF PeerReads
<1>5. CASE b.op = "CLOSE"
  <2>1. Display!CloseChannel(b.id)
    BY <1>2, <1>5 DEF Display!HandleXzibitMessage
  <2>2. TablesKept /\ (UNCHANGED up \/ PeerWrites(1, "CLOSE", b.id))
    BY <1>2, <2>1, CloseHandled
  <2> QED BY <1>1, <1>2, <1>3, <1>5, <2>2, ToldEffect DEF PeerReads
<1>6. CASE b.op \notin {"OPEN", "CLOSE"}
  <2>1. TablesKept /\ UNCHANGED up
    BY <1>2, <1>6, OtherHandled
  <2> QED BY <1>1, <1>2, <1>3, <1>6, <2>1, ToldEffect DEF PeerReads, peerVars
<1> QED BY <1>4, <1>5, <1>6

\* What the callbacks of GTK and gtk-vnc do: no record has been freed, so what is
\* written is written on a channel that was offered.
LEMMA CallbackTaken ==
  ASSUME TypeOK, DisplayInv, DisplayDoesElse
  PROVE  /\ TablesKept
         /\ \/ UNCHANGED vars
            \/ \E c \in peerOffered[1] : PeerSends(1, "DATA", c)
<1>1. /\ UNCHANGED <<down, peerVars>> /\ Upstream
      /\ UNCHANGED <<xvars, fate, recordVars, vncVars, pending, bottom, sync, tubes>>
  BY DEF DisplayDoesElse, SendingHalfSame
<1>2. ~ Display!CheckForFdInput
  <2>1. PICK q \in Seq(DownBlocks) : q = down[1]
    BY OneTube DEF TypeOK
  <2>2. q # <<>> => Tail(q) # q
    <3>1. q # <<>> => Len(q) \in Nat \ {0} /\ Len(Tail(q)) = Len(q) - 1
      BY <2>1
    <3> QED BY <3>1
  <2> QED BY <1>1, <2>1, <2>2 DEF Display!CheckForFdInput
<1>3. PICK r \in Display!Records :
        \/ Display!ExposedWindow(r)
        \/ Display!CheckForRfbReplies(r)
        \/ Display!CheckForRfbEnd(r)
        \/ Display!DisplayReads(r)
        \/ Display!UserClosesWindow(r)
  BY <1>2 DEF DisplayDoesElse, Display!ClientStep
<1>4. CASE Display!CheckForRfbReplies(r)
  <2>1. r \in Display!Allocated \ Display!Freed
    BY <1>4 DEF Display!CheckForRfbReplies, DisplayInv, Display!Freed
  <2>2. Display!WriteBlock("DATA", channel[r])
    BY <1>4, <2>1 DEF Display!CheckForRfbReplies
  <2>3. PeerWrites(1, "DATA", channel[r])
    BY <1>1, <2>2, Wrote DEF PeerWrites
  <2>4. channel[r] \in peerOffered[1]
    BY <2>1 DEF DisplayInv
  <2>5. TablesKept
    BY <1>4 DEF Display!CheckForRfbReplies, Display!tables, Display!widgets, TablesKept
  <2> QED BY <1>1, <2>3, <2>4, <2>5 DEF PeerSends
<1>5. CASE ~ Display!CheckForRfbReplies(r)
  <2>1. TablesKept /\ UNCHANGED up[1]
    BY <1>3, <1>5 DEF Display!ExposedWindow, Display!CheckForRfbEnd, Display!DisplayReads,
       Display!UserClosesWindow, Display!OnScreen, Display!tables, Display!widgets, TablesKept
  <2>2. UNCHANGED up
    BY <1>1, <2>1, WroteNothing
  <2> QED BY <1>1, <2>1, <2>2 DEF vars, tubeVars, peerVars
<1> QED BY <1>4, <1>5

LEMMA PluginOffersNothing ==
  ASSUME Plugin \/ Desktop
  PROVE  UNCHANGED <<peerOpen, peerOffered>>
<1>1. CASE XEventFilter
  BY <1>1 DEF XEventFilter, PropertyChanged, PropertyDeleted, WindowMapped, PointerMoved,
     PointerLeft, ReportPointer, peerVars
<1>2. ASSUME NEW c \in Ids, TubeReady(c) \/ TubeFailed(c) \/ CopyClientToBottom(c)
                            \/ WatchDropped(c)
      PROVE  UNCHANGED peerVars
  BY <1>2 DEF TubeReady, TubeFailed, CopyClientToBottom, WatchDropped
<1>3. ASSUME NEW t \in Tubes, CopyBottomToClient(t) PROVE UNCHANGED peerVars
  BY <1>3 DEF CopyBottomToClient
<1>4. CASE Desktop
  BY <1>4 DEF Desktop, SetShare, DeleteShare, MapWindow, MovePointer, ServerHangsUp,
     Deliver, peerVars
<1> QED BY <1>1, <1>2, <1>3, <1>4 DEF Plugin, peerVars

LEMMA XzibitStep ==
  ASSUME NoClash, IInv, DisplayInv, [XzibitNext]_xzibitVars
  PROVE  [Next]_vars /\ DisplayInv'
<1>1. TypeOK
  BY DEF IInv
<1>2. ASSUME TablesKept, peerOffered[1] \subseteq peerOffered'[1] PROVE DisplayInv'
  BY <1>2, InvKept
<1>3. ASSUME UNCHANGED displayVars, UNCHANGED <<peerOpen, peerOffered>>
      PROVE  DisplayInv'
  BY <1>2, <1>3 DEF displayVars, TablesKept
<1>4. CASE XzibitNext /\ (Plugin \/ Desktop) /\ UNCHANGED displayVars
  BY <1>3, <1>4, PluginOffersNothing DEF XzibitNext, Next
<1>5. CASE XzibitNext /\ DisplayTakesBlock
  <2>1. PICK b : b = Head(down[1])
    OBVIOUS
  <2>2. Next
    BY <1>1, <1>5, BlockTaken, OneTube DEF XzibitNext, Next, Peer
  <2>3. Told(b)
    BY <1>5, <2>1 DEF DisplayTakesBlock
  <2>4. peerOffered[1] \subseteq peerOffered'[1]
        /\ (b.op = "OPEN" => peerOffered'[1] = peerOffered[1] \cup {b.id})
    BY <1>1, <2>3, ToldEffect
  <2> QED BY <1>1, <1>2, <1>5, <2>1, <2>2, <2>4, BlockTaken, InvOfNewRecord
<1>6. CASE XzibitNext /\ DisplayDoesElse
  <2>1. peerOffered' = peerOffered
    BY <1>6 DEF DisplayDoesElse, peerVars
  <2>2. TablesKept /\ (UNCHANGED vars \/ \E c \in peerOffered[1] : PeerSends(1, "DATA", c))
    BY <1>1, <1>6, CallbackTaken
  <2>3. "DATA" \in PeerOps
    BY XzibitAssumption
  <2>4. [Next]_vars
    BY <1>6, <2>2, <2>3, OneTube DEF XzibitNext, Next, Peer
  <2> QED BY <1>2, <2>1, <2>2, <2>4
<1>7. CASE UNCHANGED xzibitVars
  <2>1. UNCHANGED vars /\ UNCHANGED displayVars
    BY <1>7 DEF xzibitVars
  <2>2. UNCHANGED <<peerOpen, peerOffered>>
    BY <2>1 DEF vars, peerVars
  <2> QED BY <1>3, <2>1, <2>2
<1> QED BY <1>4, <1>5, <1>6, <1>7 DEF XzibitNext

LEMMA XzibitStart ==
  ASSUME XzibitInit
  PROVE  IInv /\ DisplayInv
<1>1. Init /\ Display!ClientInit
  BY DEF XzibitInit
<1>2. Display!Allocated = {}
  BY <1>1 DEF Display!ClientInit, Display!Allocated
<1>3. Display!Cardinality(Display!Allocated) = 0
  BY <1>2, FS_EmptySet, SameCardinality
<1>4. Display!Allocated = 1 .. Display!Cardinality(Display!Allocated)
  BY <1>2, <1>3
<1>5. /\ received = [c \in Ids |-> 0] /\ channel = [r \in Display!Records |-> 0]
      /\ fd = [r \in Display!Records |-> 0] /\ audio = {} /\ destroyed = {} /\ watched = {}
  BY <1>1 DEF Display!ClientInit, Display!Ids, Ids
<1>6. DisplayInv
  BY <1>2, <1>3, <1>4, <1>5 DEF DisplayInv
<1> QED BY <1>1, <1>6, InitIInv

-----------------------------------------------------------------------------
(* A clash of numbers stays: descriptors of records do not change.         *)

\* What holds whether or not there has been a clash: records are numbered in the
\* order they are made, and those to come have no descriptor.
Numbered ==
  /\ channel \in [Display!Records -> {0} \cup Ids]
  /\ fd \in [Display!Records -> {0} \cup Fds]
  /\ Display!Allocated = 1 .. Display!Cardinality(Display!Allocated)
  /\ Display!Cardinality(Display!Allocated) \in Nat
  /\ \A r \in Display!Records \ Display!Allocated : fd[r] = 0

\* A record gets its channel and its descriptor when it is made, and keeps them.
LEMMA RecordsStay ==
  ASSUME TypeOK, DisplayTakesBlock \/ DisplayDoesElse
  PROVE  \/ UNCHANGED <<channel, fd>>
         \/ \E c \in Ids, f \in Fds : LET r == Cardinality(Display!Allocated) + 1 IN
              /\ r \in Display!Records
              /\ channel' = [channel EXCEPT ![r] = c]
              /\ fd' = [fd EXCEPT ![r] = f]
<1> USE DEF Display!Dies, Display!Ignored, Display!tables
<1>1. CASE DisplayTakesBlock
  <2>1. PICK b : b = Head(down[1])
    OBVIOUS
  <2>2. /\ b \in DownBlocks /\ Upstream
        /\ Display!HandleXzibitMessage(b) \/ Display!Dies("null")
    BY <1>1, <2>1, HeadOfDown DEF DisplayTakesBlock, Display!CheckForFdInput
  <2>3. b.op # "LISTEN"
    BY <2>2 DEF DownBlocks, Hide, Avatar, Torn
  <2>4. CASE Display!OpenNewChannel(b.id)
    <3>1. \/ UNCHANGED <<channel, fd>>
          \/ /\ Display!NewRecord(b.id) /\ Display!WriteBlock("ACCEPT", b.id)
             /\ \E f \in Fds :
                  fd' = [fd EXCEPT ![Display!Cardinality(Display!Allocated) + 1] = f]
      BY <2>4 DEF Display!OpenNewChannel
    <3>2. Display!WriteBlock("ACCEPT", b.id) => b.id \in Ids
      BY <2>2, Wrote
    <3> QED BY <3>1, <3>2, SameCardinality DEF Display!NewRecord
  <2>5. CASE Display!CloseChannel(b.id)
    BY <2>5 DEF Display!CloseChannel
  <2>6. CASE Display!ApplyMetadata(b.id, b)
    BY <2>6 DEF Display!ApplyMetadata, Display!ApplyMetadataNow, Display!UsesFreed
  <2>7. CASE Display!MovePointerTo(b.id)
    BY <2>7 DEF Display!MovePointerTo, Display!UsesFreed
  <2>8. CASE Display!HandleStream(b.id)
    BY <2>8 DEF Display!HandleStream
  <2>9. CASE Display!Ignored \/ Display!Dies("null")
    BY <2>9
  <2> QED BY <2>2, <2>3, <2>4, <2>5, <2>6, <2>7, <2>8, <2>9 DEF Display!HandleXzibitMessage
<1>2. CASE DisplayDoesElse
  <2>1. PICK q \in Seq(DownBlocks) : q = down[1]
    BY OneTube DEF TypeOK
  <2>2. q # <<>> => Len(Tail(q)) # Len(q)
    BY <2>1
  <2>3. ~ Display!CheckForFdInput
    BY <1>2, <2>1, <2>2 DEF DisplayDoesElse, Display!CheckForFdInput
  <2> QED BY <1>2, <2>3 DEF DisplayDoesElse, Display!ClientStep, Display!ExposedWindow,
        Display!CheckForRfbReplies, Display!CheckForRfbEnd, Display!DisplayReads,
        Display!UserClosesWindow
<1> QED BY <1>1, <1>2

LEMMA NumberedStep ==
  ASSUME TypeOK, Numbered, DisplayTakesBlock \/ DisplayDoesElse
  PROVE  Numbered' /\ (NoClash' => NoClash)
<1>1. CASE UNCHANGED <<channel, fd>>
  BY <1>1 DEF Numbered, NoClash, Display!Allocated
<1>2. CASE ~ UNCHANGED <<channel, fd>>
  <2>1. PICK n, r, old : /\ n = Cardinality(Display!Allocated) /\ r = n + 1
                         /\ old = Display!Allocated
    OBVIOUS
  <2>2. PICK c \in Ids, f \in Fds :
          /\ r \in Display!Records
          /\ channel' = [channel EXCEPT ![r] = c]
          /\ fd' = [fd EXCEPT ![r] = f]
    BY <1>2, <2>1, RecordsStay
  <2>3. old = 1 .. n /\ n \in Nat
    BY <2>1, SameCardinality DEF Numbered
  <2>4. r \notin old /\ old \cup {r} = 1 .. r /\ Cardinality(1 .. r) = r /\ r \in Nat
    BY <2>1, <2>3, NextNumber
  <2>5. /\ channel' \in [Display!Records -> {0} \cup Ids]
        /\ fd' \in [Display!Records -> {0} \cup Fds]
        /\ channel'[r] = c /\ \A q \in Display!Records \ {r} : channel'[q] = channel[q]
        /\ \A q \in Display!Records \ {r} : fd'[q] = fd[q]
    BY <2>2 DEF Numbered
  <2>6. Display!Allocated' = old \cup {r}
    BY <2>1, <2>2, <2>5 DEF Display!Allocated, Ids
  <2>7. /\ Display!Allocated' = 1 .. Display!Cardinality(Display!Allocated')
        /\ Display!Cardinality(Display!Allocated') \in Nat
    BY <2>4, <2>6, SameCardinality
  <2>8. \A q \in Display!Records \ Display!Allocated' : fd'[q] = 0
    BY <2>1, <2>5, <2>6 DEF Numbered
  <2>9. fd[r] = 0 /\ 0 \notin Ids
    BY <2>1, <2>2, <2>4 DEF Numbered, Ids
  <2>10. NoClash' => NoClash
    BY <2>5, <2>9 DEF NoClash
  <2> QED BY <2>5, <2>7, <2>8, <2>10 DEF Numbered
<1> QED BY <1>1, <1>2

LEMMA TypesStay ==
  ASSUME TypeOK, Records, DisplayTakesBlock \/ DisplayDoesElse
  PROVE  TypeOK' /\ Records'
<1>1. /\ UNCHANGED <<xvars, fate, recordVars, vncVars, pending, bottom, sync, tubes>>
      /\ Upstream
  BY DEF DisplayTakesBlock, DisplayDoesElse, SendingHalfSame
<1>2. Records'
  BY <1>1 DEF Records, recordVars, vncVars
<1>3. /\ up \in [Tubes -> Seq(UpBlocks)] /\ down \in [Tubes -> Seq(DownBlocks)]
      /\ 1 \in Tubes
  BY OneTube DEF TypeOK
<1>4. up' \in [Tubes -> Seq(UpBlocks)]
  <2>1. CASE UNCHANGED up
    BY <1>3, <2>1
  <2>2. ASSUME NEW op \in {"ACCEPT", "CLOSE", "DATA"}, NEW c \in Ids,
               up' = [up EXCEPT ![1] = Append(@, [op |-> op, id |-> c])]
        PROVE  up' \in [Tubes -> Seq(UpBlocks)]
    <3>1. PICK b : b = [op |-> op, id |-> c]
      OBVIOUS
    <3>2. b \in UpBlocks
      BY <3>1 DEF UpBlocks, Ids
    <3>3. Append(up[1], b) \in Seq(UpBlocks)
      BY <1>3, <3>2
    <3> QED BY <1>3, <2>2, <3>1, <3>3
  <2> QED BY <1>1, <2>1, <2>2 DEF Upstream
<1>5. /\ down' \in [Tubes -> Seq(DownBlocks)]
      /\ peerOpen' \in [Tubes -> SUBSET Nat] /\ peerOffered' \in [Tubes -> SUBSET Nat]
  <2>1. CASE DisplayTakesBlock
    <3>1. PICK b : b = Head(down[1])
      OBVIOUS
    <3>2. b \in DownBlocks /\ Told(b) /\ down' = [down EXCEPT ![1] = Tail(@)] /\ down[1] # <<>>
      BY <2>1, <3>1, HeadOfDown DEF DisplayTakesBlock
    <3>3. Tail(down[1]) \in Seq(DownBlocks)
      BY <1>3, <3>2
    <3>4. down' \in [Tubes -> Seq(DownBlocks)]
      BY <1>3, <3>2, <3>3
    <3>5. b.op \in {"OPEN", "CLOSE"} => b.id \in Nat
      BY <3>2 DEF DownBlocks, Hide, Avatar, Torn
    <3>6. peerOpen \in [Tubes -> SUBSET Nat] /\ peerOffered \in [Tubes -> SUBSET Nat]
      BY DEF TypeOK
    <3> QED BY <3>2, <3>4, <3>5, <3>6 DEF Told
  <2>2. CASE DisplayDoesElse
    BY <2>2 DEF DisplayDoesElse, peerVars, TypeOK
  <2> QED BY <2>1, <2>2
<1> QED BY <1>1, <1>2, <1>4, <1>5 DEF TypeOK, xvars, recordVars, vncVars

LEMMA NumberedNext ==
  ASSUME TypeOK, Records, Numbered, [XzibitNext]_xzibitVars
  PROVE  TypeOK' /\ Records' /\ Numbered' /\ (NoClash' => NoClash)
<1>1. CASE [Next]_vars /\ UNCHANGED displayVars
  <2>1. UNCHANGED <<channel, fd>>
    BY <1>1 DEF displayVars
  <2>2. Numbered' /\ (NoClash' => NoClash)
    BY <2>1 DEF Numbered, NoClash, Display!Allocated
  <2> QED BY <1>1, <2>2, TypeOKNext, RecordsNext
<1>2. CASE DisplayTakesBlock \/ DisplayDoesElse
  BY <1>2, TypesStay, NumberedStep
<1> QED BY <1>1, <1>2 DEF XzibitNext, xzibitVars, Next

LEMMA NumberedStart == XzibitInit => TypeOK /\ Records /\ Numbered
<1> SUFFICES ASSUME XzibitInit PROVE TypeOK /\ Records /\ Numbered
  OBVIOUS
<1>1. IInv /\ DisplayInv
  BY XzibitStart
<1>2. fd = [r \in Display!Records |-> 0]
  BY DEF XzibitInit, Display!ClientInit
<1> QED BY <1>1, <1>2 DEF IInv, DisplayInv, Numbered

LEMMA NumberedInvariance == XzibitSpec => [](TypeOK /\ Records /\ Numbered)
BY NumberedStart, NumberedNext, PTL DEF XzibitSpec

\* As long as no descriptor has the number of a channel, no record of the display
\* program is ever freed or lost, and a record is only made for a channel the
\* sharing end has offered (open_new_channel, close_channel).
THEOREM XzibitInvariance == XzibitSpec => [](NoClash => IInv /\ DisplayInv)
<1>1. XzibitInit => (NoClash => IInv /\ DisplayInv)
  BY XzibitStart
<1>2. TypeOK /\ Records /\ Numbered /\ (NoClash => IInv /\ DisplayInv) /\ [XzibitNext]_xzibitVars
        => (NoClash => IInv /\ DisplayInv)'
  BY NumberedNext, XzibitStep, IInvNext
<1> QED BY <1>1, <1>2, NumberedInvariance, PTL DEF XzibitSpec

\* No descriptor can have the number of a channel.
Distinct == Fds \cap Ids = {}

\* The display program is a remote end such as Sharing assumes: whatever it is made
\* to do, it answers an OPEN or a CLOSE once at most, accepts only what it has been
\* offered, and sends RFB bytes only on such channels.  (After a clash it may read
\* the channel of a record that has been freed, and send on any.)
THEOREM ImplementsRemoteEnd == Distinct => (XzibitSpec => ImplementsSharing)
<1> SUFFICES ASSUME Distinct PROVE XzibitSpec => ImplementsSharing
  OBVIOUS
<1>1. XzibitInit => Init
  BY DEF XzibitInit
<1>2. Numbered => NoClash
  BY DEF Distinct, Numbered, NoClash, Ids
<1>3. NoClash /\ IInv /\ DisplayInv /\ [XzibitNext]_xzibitVars => [Next]_vars
  BY XzibitStep
<1> QED BY <1>1, <1>2, <1>3, NumberedInvariance, XzibitInvariance, PTL
        DEF XzibitSpec, ImplementsSharing, Spec

-----------------------------------------------------------------------------
(* The two desktops agree.                                                 *)

\* A window on the screen has not been closed, as far as the program has read, and
\* every channel that is open has its window unless the user closed it.
ScreenInv ==
  life = "running" =>
    /\ \A r \in Display!OnScreen : channel[r] \in peerOpen[1]
    /\ \A c \in peerOffered[1] :
         \E r \in Display!Allocated :
           /\ channel[r] = c
           /\ r \in Display!OnScreen \cup dismissed \/ c \notin peerOpen[1]

\* The records stay, and a window that goes has been closed by the user.
LEMMA CallbackShows ==
  ASSUME TypeOK, DisplayInv, ScreenInv, DisplayDoesElse
  PROVE  ScreenInv'
<1>1. TablesKept /\ UNCHANGED <<peerOpen, peerOffered>>
  BY CallbackTaken DEF DisplayDoesElse, peerVars
<1>2. life = "running" /\ ~ Display!CheckForFdInput
  <2>1. PICK q \in Seq(DownBlocks) : q = down[1]
    BY OneTube DEF TypeOK
  <2>2. q # <<>> => Len(Tail(q)) # Len(q)
    BY <2>1
  <2>3. down' = down
    BY DEF DisplayDoesElse
  <2> QED BY <2>1, <2>2, <2>3 DEF DisplayDoesElse, Display!ClientStep, Display!CheckForFdInput
<1>3. \/ UNCHANGED <<destroyed, dismissed>>
      \/ \E r \in Display!Records :
           destroyed' = destroyed \cup {r} /\ dismissed' = dismissed \cup {r}
  BY <1>2 DEF DisplayDoesElse, Display!ClientStep, Display!ExposedWindow,
     Display!CheckForRfbReplies, Display!CheckForRfbEnd, Display!DisplayReads,
     Display!UserClosesWindow, Display!widgets
<1>4. /\ Display!Allocated' = Display!Allocated
      /\ Display!OnScreen' \subseteq Display!OnScreen
      /\ Display!OnScreen \cup dismissed \subseteq Display!OnScreen' \cup dismissed'
  BY <1>1, <1>3 DEF TablesKept, Display!Allocated, Display!OnScreen
<1> QED BY <1>1, <1>2, <1>4 DEF ScreenInv, TablesKept

LEMMA OpenShows ==
  ASSUME TypeOK, DisplayInv, ScreenInv, NEW c, NewRecordFor(c), life = "running",
         peerOpen'[1] = peerOpen[1] \cup {c}, peerOffered'[1] = peerOffered[1] \cup {c}
  PROVE  ScreenInv'
<1>1. PICK r \in Display!Records \ Display!Allocated :
        /\ Display!Allocated' = Display!Allocated \cup {r}
        /\ channel' = [channel EXCEPT ![r] = c]
  BY InvOfNewRecord
<1>2. /\ channel'[r] = c
      /\ \A q \in Display!Allocated : channel'[q] = channel[q] /\ channel[q] # c
  <2>1. channel \in [Display!Records -> {0} \cup Ids]
    BY DEF DisplayInv
  <2>2. \A q \in Display!Allocated : q \in Display!Records /\ q # r /\ q # 0
    BY <1>1 DEF Display!Allocated, Display!Records
  <2>3. \A q \in Display!Allocated : received[channel[q]] = q
    BY DEF DisplayInv
  <2>4. received[c] = 0
    BY DEF NewRecordFor
  <2> QED BY <1>1, <2>1, <2>2, <2>3, <2>4
<1>3. /\ Display!OnScreen' = Display!OnScreen \cup {r} /\ UNCHANGED dismissed
      /\ Display!OnScreen \subseteq Display!Allocated
  BY <1>1 DEF Display!OnScreen, NewRecordFor, DisplayInv
<1> QED BY <1>1, <1>2, <1>3 DEF ScreenInv

LEMMA CloseHides ==
  ASSUME TypeOK, DisplayInv, NoClash, ScreenInv, NEW c, life = "running",
         Upstream, Display!CloseChannel(c),
         peerOpen'[1] = peerOpen[1] \ {c}, UNCHANGED peerOffered
  PROVE  ScreenInv'
<1>1. /\ TablesKept /\ UNCHANGED dismissed
      /\ \/ life' # "running"
         \/ received[c] = 0 /\ UNCHANGED <<destroyed, life>>
         \/ destroyed' = destroyed \cup {received[c]} /\ UNCHANGED life
  BY CloseHandled
<1>2. CASE life' # "running"
  BY <1>2 DEF ScreenInv
<1>3. CASE life' = "running"
  <2>1. /\ Display!Allocated' = Display!Allocated /\ UNCHANGED channel
        /\ Display!OnScreen' \subseteq Display!OnScreen
    <3>1. destroyed \subseteq destroyed'
      BY <1>1, <1>3
    <3> QED BY <1>1, <3>1 DEF TablesKept, Display!Allocated, Display!OnScreen
  <2>2. \A r \in Display!Allocated : received[channel[r]] = r /\ r # 0
    BY DEF DisplayInv, Display!Allocated, Display!Records
  <2>3. \A r \in Display!OnScreen' : channel[r] # c
    BY <1>1, <1>3, <2>1, <2>2 DEF Display!OnScreen
  <2>4. \A r \in Display!OnScreen : channel[r] # c => r \in Display!OnScreen'
    <3>1. ASSUME NEW r \in Display!OnScreen, channel[r] # c, destroyed' = destroyed \cup {received[c]},
                 r = received[c]
          PROVE  FALSE
      <4>1. c \in Ids
        BY <1>1, <1>3, <2>2, <3>1, CloseHandled DEF Display!OnScreen
      <4> QED BY <2>2, <3>1, <4>1 DEF DisplayInv, Display!OnScreen
    <3> QED BY <1>1, <1>3, <2>1, <3>1 DEF TablesKept, Display!OnScreen
  <2> QED BY <1>1, <1>3, <2>1, <2>3, <2>4 DEF ScreenInv
<1> QED BY <1>2, <1>3

LEMMA BlockShows ==
  ASSUME TypeOK, DisplayInv, NoClash, ScreenInv, DisplayTakesBlock,
         Head(down[1]).op = "OPEN" =>
           Head(down[1]).id \in Ids /\ Head(down[1]).id \notin peerOffered[1]
  PROVE  ScreenInv'
<1>1. PICK b : b = Head(down[1])
  OBVIOUS
<1>2. /\ b \in DownBlocks /\ Upstream /\ Told(b) /\ life = "running"
      /\ Display!HandleXzibitMessage(b) \/ (b.op = "EMPTY" /\ Display!Dies("null"))
  BY <1>1, HeadOfDown DEF DisplayTakesBlock, Display!CheckForFdInput
<1>3. /\ peerOpen \in [Tubes -> SUBSET Nat] /\ 1 \in Tubes
  BY OneTube DEF TypeOK
<1>4. CASE b.op = "OPEN"
  <2>1. Display!OpenNewChannel(b.id)
    BY <1>2, <1>4 DEF Display!HandleXzibitMessage
  <2>2. received[b.id] = 0
    <3>1. ASSUME received[b.id] # 0 PROVE FALSE
      <4>1. b.id \in Ids /\ received[b.id] \in Display!Records /\ channel[received[b.id]] = b.id
        BY <1>1, <1>4, <3>1 DEF DisplayInv
      <4>2. received[b.id] \in Display!Allocated
        BY <4>1 DEF Display!Allocated, Ids
      <4> QED BY <1>1, <1>4, <4>1, <4>2 DEF DisplayInv
    <3> QED BY <3>1
  <2>3. NewRecordFor(b.id)
    BY <1>2, <2>1, <2>2, OpenHandled
  <2>4. /\ peerOpen'[1] = peerOpen[1] \cup {b.id}
        /\ peerOffered'[1] = peerOffered[1] \cup {b.id}
    BY <1>2, <1>3, <1>4, ToldEffect
  <2> QED BY <1>2, <2>3, <2>4, OpenShows
<1>5. CASE b.op = "CLOSE"
  <2>1. Display!CloseChannel(b.id)
    BY <1>2, <1>5 DEF Display!HandleXzibitMessage
  <2>2. peerOpen'[1] = peerOpen[1] \ {b.id} /\ UNCHANGED peerOffered
    BY <1>2, <1>3, <1>5, ToldEffect
  <2> QED BY <1>2, <2>1, <2>2, CloseHides
<1>6. CASE b.op \notin {"OPEN", "CLOSE"}
  <2>1. TablesKept /\ UNCHANGED <<destroyed, dismissed>>
    BY <1>2, <1>6, OtherHandled
  <2>2. UNCHANGED <<peerOpen, peerOffered>>
    BY <1>2, <1>6, ToldEffect
  <2>3. Display!Allocated' = Display!Allocated /\ Display!OnScreen' = Display!OnScreen
    BY <2>1 DEF TablesKept, Display!Allocated, Display!OnScreen
  <2> QED BY <1>2, <2>1, <2>2, <2>3 DEF ScreenInv, TablesKept
<1> QED BY <1>4, <1>5, <1>6

\* An OPEN that the program reads is the first for its channel.
LEMMA FirstOpen ==
  ASSUME IInv, ChannelsRule, down[1] # <<>>, Head(down[1]).op = "OPEN"
  PROVE  Head(down[1]).id \in Ids /\ Head(down[1]).id \notin peerOffered[1]
<1>1. PICK s \in Seq(DownBlocks) : s = down[1]
  BY OneTube DEF IInv, TypeOK
<1>2. PICK b : b = Head(s)
  OBVIOUS
<1>3. TubeRule(s, peerOpen[1], peerOffered[1], forwarded, highest)
  BY <1>1, OneTube DEF ChannelsRule
<1>4. b \in Waiting(s)
  <2>1. Waiting(s) = {b} \cup Waiting(Tail(s))
    BY <1>1, <1>2, <1>3, WaitingRead DEF TubeRule
  <2> QED BY <2>1
<1>5. b.id \in 1 .. highest /\ b.id \notin peerOffered[1]
  BY <1>1, <1>2, <1>3, <1>4 DEF TubeRule, Control
<1> QED BY <1>1, <1>2, <1>5, ChannelsNow

LEMMA ScreenInvNext ==
  ASSUME NoClash, IInv, DisplayInv, ChannelsRule, ScreenInv, [XzibitNext]_xzibitVars
  PROVE  ScreenInv'
<1>1. TypeOK
  BY DEF IInv
<1>2. CASE (Plugin \/ Desktop) /\ UNCHANGED displayVars
  <2>1. UNCHANGED <<peerOpen, peerOffered>>
    BY <1>2, PluginOffersNothing
  <2>2. UNCHANGED <<life, channel, audio, destroyed, dismissed>>
    BY <1>2 DEF displayVars
  <2> QED BY <2>1, <2>2 DEF ScreenInv, Display!Allocated, Display!OnScreen
<1>3. CASE DisplayTakesBlock
  <2>1. down[1] # <<>>
    BY <1>3 DEF DisplayTakesBlock
  <2> QED BY <1>1, <1>3, <2>1, FirstOpen, BlockShows
<1>4. CASE DisplayDoesElse
  BY <1>1, <1>4, CallbackShows
<1>5. CASE UNCHANGED xzibitVars
  <2>1. UNCHANGED <<life, channel, audio, destroyed, dismissed, peerOpen, peerOffered>>
    BY <1>5 DEF xzibitVars, vars, displayVars, peerVars
  <2> QED BY <2>1 DEF ScreenInv, Display!Allocated, Display!OnScreen
<1> QED BY <1>2, <1>3, <1>4, <1>5 DEF XzibitNext

LEMMA ScreenAtStart == XzibitInit => ScreenInv
<1> SUFFICES ASSUME XzibitInit PROVE ScreenInv
  OBVIOUS
<1>1. Display!Allocated = {} /\ peerOffered[1] = {}
  BY OneTube DEF XzibitInit, Init, Display!ClientInit, Display!Allocated
<1> QED BY <1>1 DEF ScreenInv, Display!OnScreen

\* What is on its way is in flight.
LEMMA WaitingInFlight ==
  ASSUME TypeOK, NEW c \in Ids, NEW op \in {"OPEN", "CLOSE"},
         NEW a \in Waiting(down[1]), a.op = op, a.id = c
  PROVE  InFlight(op, c)
<1>1. PICK s \in Seq(DownBlocks) : s = down[1]
  BY OneTube DEF TypeOK
<1>2. PICK i \in 1 .. Len(s) : s[i] = a
  BY <1>1 DEF Waiting
<1>3. a \in DownBlocks /\ Wire(c) = c
  BY <1>1, <1>2, ChannelIsWire, XzibitAssumption DEF FewIds
<1>4. a = [op |-> op, id |-> c]
  BY <1>3 DEF DownBlocks, Hide, Avatar, Torn
<1> QED BY <1>1, <1>2, <1>3, <1>4 DEF InFlight, About

LEMMA RulesAgree ==
  ASSUME IInv, DisplayInv, ScreenInv, ControlRule, OffersRule
  PROVE  ScreensAgree
<1> SUFFICES ASSUME life = "running" PROVE ScreensAgree
  BY DEF ScreensAgree
<1>1. /\ TypeOK /\ forwarded \subseteq 1 .. highest /\ 1 .. highest \subseteq Ids
      /\ TubeRule(down[1], peerOpen[1], peerOffered[1], forwarded, highest)
  BY ChannelsNow, OneTube DEF ControlRule, ChannelsRule
<1>2. ASSUME NEW c \in forwarded, c \notin pending, result[window[c]] # 301
      PROVE  InFlight("OPEN", c) \/ Shown(c)
  <2>1. OnItsWay(down[1], c) \/ c \in peerOffered[1]
    BY <1>2, OneTube DEF OffersRule, Offered
  <2>2. CASE OnItsWay(down[1], c)
    BY <1>1, <2>2, WaitingInFlight DEF OnItsWay
  <2>3. CASE c \in peerOffered[1]
    <3>1. c \in peerOpen[1]
      BY <1>1, <2>3 DEF TubeRule
    <3> QED BY <2>3, <3>1 DEF ScreenInv, Shown
  <2> QED BY <2>1, <2>2, <2>3
<1>3. ASSUME NEW r \in Display!OnScreen, channel[r] \notin forwarded
      PROVE  InFlight("CLOSE", channel[r])
  <2>1. channel[r] \in peerOpen[1] /\ channel[r] \in peerOffered[1]
    BY DEF ScreenInv, DisplayInv, Display!OnScreen
  <2>2. channel[r] \in 1 .. highest
    BY <1>1, <2>1 DEF TubeRule
  <2>3. Closing(down[1], channel[r])
    BY <1>1, <1>3, <2>1, <2>2 DEF TubeRule
  <2> QED BY <1>1, <2>2, <2>3, WaitingInFlight DEF Closing
<1> QED BY <1>2, <1>3 DEF ScreensAgree

\* What holds until there is a clash, if the user waits for each request and no
\* window is asked for twice.
AgreedInv ==
  /\ IInv /\ DisplayInv /\ ScreenInv
  /\ OneRequest /\ OneStream
  /\ PropertiesRule /\ OneRecord /\ OneReader
  /\ ControlRule /\ OffersRule

LEMMA AgreedNext ==
  ASSUME AsksOnce, NoClash, AgreedInv, [XzibitNext]_xzibitVars
  PROVE  AgreedInv'
<1>1. Waits /\ FewIds /\ "full" \notin Env
  BY XzibitAssumption DEF AsksOnce, FewIds
<1>2. [Next]_vars /\ DisplayInv'
  BY XzibitStep DEF AgreedInv
<1>3. ScreenInv'
  BY ScreenInvNext DEF AgreedInv, ControlRule
<1>4. OneRequest' /\ OneStream'
  BY <1>1, <1>2, OneRequestNext, OneStreamNext DEF AgreedInv
<1>5. PropertiesRule' /\ OneRecord' /\ OneReader'
  BY <1>2, OnceNext DEF AgreedInv
<1>6. ControlRule'
  BY <1>1, <1>2, ControlRuleNext DEF AgreedInv
<1>7. OffersRule'
  BY <1>1, <1>2, OffersRuleNext DEF AgreedInv
<1> QED BY <1>2, <1>3, <1>4, <1>5, <1>6, <1>7, IInvNext DEF AgreedInv

LEMMA AgreedStart ==
  ASSUME AsksOnce, XzibitInit
  PROVE  AgreedInv
<1>1. Init /\ Waits
  BY DEF XzibitInit, AsksOnce
<1>2. IInv /\ DisplayInv /\ ScreenInv
  BY XzibitStart, ScreenAtStart
<1>3. OneRequest /\ OneStream
  BY <1>1, InitPatient
<1>4. PropertiesRule /\ OneRecord /\ OneReader
  BY <1>1, InitOnce
<1>5. ControlRule /\ OffersRule
  BY <1>1, InitControl DEF Init, OffersRule
<1> QED BY <1>2, <1>3, <1>4, <1>5 DEF AgreedInv

\* While the user waits for each request to be dealt with, and no window is asked
\* for twice, the two desktops agree about the windows that are shared
\* (share_window, unshare_window, open_new_channel, close_channel).
THEOREM DesktopsAgree == AsksOnce => (XzibitSpec => []ScreensAgree)
<1> SUFFICES ASSUME AsksOnce PROVE XzibitSpec => []ScreensAgree
  OBVIOUS
<1>1. XzibitInit => (NoClash => AgreedInv)
  BY AgreedStart
<1>2. TypeOK /\ Records /\ Numbered /\ (NoClash => AgreedInv) /\ [XzibitNext]_xzibitVars
        => (NoClash => AgreedInv)'
  BY NumberedNext, AgreedNext
<1>3. (NoClash => AgreedInv) => ScreensAgree
  <2>1. ~ NoClash => ScreensAgree
    BY DEF ScreensAgree
  <2> QED BY <2>1, RulesAgree DEF AgreedInv
<1> QED BY <1>1, <1>2, <1>3, NumberedInvariance, PTL DEF XzibitSpec

=============================================================================
