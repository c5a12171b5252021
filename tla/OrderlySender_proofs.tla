------------------------ MODULE OrderlySender_proofs -------------------------
(***************************************************************************)
(* Theorems about the display program with an orderly sending end, for any *)
(* channels, descriptors, titles and bounds, as long as the identifiers of *)
(* the channels fit the two bytes they are written in.                     *)
(***************************************************************************)
EXTENDS OrderlySender, FiniteSetTheorems, TLAPS

FewIds == MaxShares < ByteSize * ByteSize

\* What the sending end writes.
Blocks ==
  [op : {"OPEN", "CLOSE", "TYPE", "MOUSE", "LISTEN"}, id : Ids]
    \union [op : {"NAME"}, id : Ids, title : Titles]
    \union [op : {"RFB"}, id : Ids, win : Windows]
    \union {Hide}

Elements(s) == {s[i] : i \in DOMAIN s}

\* Block a may come before block b: nothing follows a CLOSE, and only metadata
\* comes before an OPEN or a LISTEN.
Before(a, b) ==
  a.op # "HIDE" /\ b.op # "HIDE" /\ a.id = b.id =>
    /\ a.op # "CLOSE"
    /\ b.op \in {"OPEN", "LISTEN"} => a.op \in {"NAME", "TYPE"}

InOrder(s) == \A i, j \in DOMAIN s : i < j => Before(s[i], s[j])

\* What the sending end remembers having written, when b is on its way.
Meant(b) ==
  /\ b.op \in {"OPEN", "MOUSE"} => b.id \in sent
  /\ b.op = "LISTEN" => b.id \in listened
  /\ b.op \in {"RFB", "CLOSE"} => b.id \in sent \union listened
  /\ b.op = "CLOSE" => b.id \in ended

SenderInv ==
  /\ input \in Seq(Blocks) /\ InOrder(input)
  /\ sent \subseteq Ids /\ listened \subseteq Ids
  /\ sent \intersect listened = {} /\ ended \subseteq sent \union listened
  /\ \A b \in Elements(input) : Meant(b)

\* What holds of the tables even if a descriptor has the number of a channel.
RecordsInv ==
  /\ ClientTypeOK
  /\ title \in [Records -> {NoTitle} \union Blocks]
  /\ postponed \in [Ids -> Seq(Blocks)]
  /\ Cardinality(Allocated) \in Nat
  /\ Allocated = 1 .. Cardinality(Allocated)
  /\ \A r \in Records \ Allocated : fd[r] = 0
  /\ audio \subseteq Allocated /\ destroyed \subseteq Allocated \ audio
  /\ \A c \in Ids : received[c] # 0 => channel[received[c]] = c

Opens(b, c) == b.op \in {"OPEN", "LISTEN"} /\ b.id = c
Of(b, c) == b.op # "HIDE" /\ b.id = c

\* How the tables follow what has been read, when "queue" is still to be read:
\* every channel that was opened has the one record made for it, and a window
\* is gone when the user closed it or the CLOSE has been read.
Follows(queue) ==
  /\ \A r \in Allocated :
       /\ received[channel[r]] = r
       /\ IF r \in audio THEN channel[r] \in listened ELSE channel[r] \in sent
  /\ \A c \in sent \union listened :
       received[c] # 0 \/ \E b \in queue : Opens(b, c)
  /\ \A b \in queue : \A c \in Ids : Opens(b, c) => received[c] = 0
  /\ \A r \in destroyed :
       \/ r \in dismissed
       \/ channel[r] \in ended /\ \A b \in queue : ~Of(b, channel[r])
  /\ \A r \in OnScreen :
       channel[r] \in ended =>
         \E b \in queue : b.op = "CLOSE" /\ b.id = channel[r]
  /\ \A c \in ended : received[c] # 0 \/ \E b \in queue : b.op = "CLOSE" /\ b.id = c

DisplayInv ==
  /\ SenderInv
  /\ RecordsInv
  /\ NoClash /\ life = "running" => Follows(Elements(input))
  /\ OnlyClosingHarms

-----------------------------------------------------------------------------
(* Sequences, seen as what is in them.                                     *)

LEMMA Added ==
  ASSUME NEW S, NEW s \in Seq(S), NEW e \in S
  PROVE  /\ Append(s, e) \in Seq(S)
         /\ Elements(Append(s, e)) = Elements(s) \union {e}
<1> DEFINE n == Len(s)
<1>1. /\ n \in Nat /\ DOMAIN s = 1 .. n
      /\ Append(s, e) \in Seq(S) /\ DOMAIN Append(s, e) = 1 .. n + 1
      /\ \A i \in 1 .. n : Append(s, e)[i] = s[i]
      /\ Append(s, e)[n + 1] = e
  OBVIOUS
<1> HIDE DEF n
<1> QED BY <1>1 DEF Elements

LEMMA Popped ==
  ASSUME NEW S, NEW s \in Seq(S), s # <<>>
  PROVE  /\ Head(s) \in S /\ Tail(s) \in Seq(S)
         /\ Elements(s) = {Head(s)} \union Elements(Tail(s))
<1> DEFINE n == Len(s)
<1>1. /\ n \in Nat /\ DOMAIN s = 1 .. n /\ 1 \in 1 .. n /\ Head(s) = s[1]
      /\ Head(s) \in S /\ Tail(s) \in Seq(S) /\ DOMAIN Tail(s) = 1 .. n - 1
      /\ \A i \in 1 .. n - 1 : Tail(s)[i] = s[i + 1]
  OBVIOUS
<1> HIDE DEF n
<1>2. \A i \in DOMAIN s : i = 1 \/ (i - 1 \in DOMAIN Tail(s) /\ Tail(s)[i - 1] = s[i])
  BY <1>1
<1>3. \A i \in DOMAIN Tail(s) : i + 1 \in DOMAIN s /\ Tail(s)[i] = s[i + 1]
  BY <1>1
<1>4. PICK t, h : t = Tail(s) /\ h = Head(s)
  OBVIOUS
<1>5. \A e \in Elements(s) : e \in {h} \union Elements(t)
  BY <1>1, <1>2, <1>4 DEF Elements
<1>6. h \in Elements(s) /\ \A e \in Elements(t) : e \in Elements(s)
  BY <1>1, <1>3, <1>4 DEF Elements
<1> QED BY <1>1, <1>4, <1>5, <1>6

LEMMA Pushed ==
  ASSUME NEW S, NEW s \in Seq(S), NEW e \in S
  PROVE  /\ <<e>> \o s \in Seq(S)
         /\ Elements(<<e>> \o s) = {e} \union Elements(s)
<1> DEFINE n == Len(s)
           t == <<e>> \o s
<1>1. /\ n \in Nat /\ DOMAIN s = 1 .. n
      /\ t \in Seq(S) /\ DOMAIN t = 1 .. n + 1
      /\ t[1] = e /\ \A i \in 1 .. n : t[i + 1] = s[i]
  OBVIOUS
<1> HIDE DEF n, t
<1>2. \A i \in DOMAIN t : i = 1 \/ (i - 1 \in DOMAIN s /\ s[i - 1] = t[i])
  BY <1>1
<1>3. 1 \in DOMAIN t /\ \A i \in DOMAIN s : i + 1 \in DOMAIN t
  BY <1>1
<1>4. Elements(t) = {e} \union Elements(s)
  BY <1>1, <1>2, <1>3 DEF Elements
<1> QED BY <1>1, <1>4 DEF t

LEMMA NothingYet ==
  ASSUME NEW S
  PROVE  <<>> \in Seq(S) /\ Elements(<<>>) = {} /\ InOrder(<<>>)
<1>1. <<>> \in Seq(S) /\ DOMAIN <<>> = {}
  OBVIOUS
<1> QED BY <1>1 DEF Elements, InOrder

LEMMA OneElement ==
  ASSUME NEW S, NEW e \in S
  PROVE  <<e>> \in Seq(S) /\ DOMAIN <<e>> = {1} /\ <<e>>[1] = e /\ Elements(<<e>>) = {e}
<1>1. <<e>> \in Seq(S) /\ DOMAIN <<e>> = {1} /\ <<e>>[1] = e
  OBVIOUS
<1> QED BY <1>1 DEF Elements

LEMMA OrderAdded ==
  ASSUME NEW S, NEW s \in Seq(S), NEW e \in S, InOrder(s),
         \A a \in Elements(s) : Before(a, e)
  PROVE  InOrder(Append(s, e))
<1> DEFINE n == Len(s)
           t == Append(s, e)
<1>1. /\ n \in Nat /\ DOMAIN s = 1 .. n /\ DOMAIN t = 1 .. n + 1
      /\ \A i \in 1 .. n : t[i] = s[i]
      /\ t[n + 1] = e
  OBVIOUS
<1> HIDE DEF n, t
<1> SUFFICES ASSUME NEW i \in 1 .. n + 1, NEW j \in 1 .. n + 1, i < j
             PROVE  Before(t[i], t[j])
  BY <1>1 DEF InOrder, t
<1>2. i \in 1 .. n /\ t[i] = s[i] /\ s[i] \in Elements(s)
  BY <1>1 DEF Elements
<1>3. CASE j = n + 1
  BY <1>1, <1>2, <1>3
<1>4. CASE j # n + 1
  BY <1>1, <1>2, <1>4 DEF InOrder
<1> QED BY <1>3, <1>4

LEMMA OrderPopped ==
  ASSUME NEW S, NEW s \in Seq(S), s # <<>>, InOrder(s)
  PROVE  /\ InOrder(Tail(s))
         /\ \A b \in Elements(Tail(s)) : Before(Head(s), b)
<1> DEFINE n == Len(s)
           t == Tail(s)
<1>1. /\ n \in Nat /\ DOMAIN s = 1 .. n /\ 1 \in 1 .. n /\ Head(s) = s[1]
      /\ DOMAIN t = 1 .. n - 1 /\ \A i \in 1 .. n - 1 : t[i] = s[i + 1]
  OBVIOUS
<1> HIDE DEF n, t
<1>2. ASSUME NEW i \in 1 .. n - 1
      PROVE  i + 1 \in 1 .. n /\ i + 1 > 1 /\ t[i] = s[i + 1]
  BY <1>1
<1>3. \A i \in DOMAIN t : Before(Head(s), t[i])
  BY <1>1, <1>2 DEF InOrder
<1>4. \A i, j \in DOMAIN t : i < j => i + 1 < j + 1
  BY <1>1
<1>5. InOrder(t)
  BY <1>1, <1>2, <1>4 DEF InOrder
<1> QED BY <1>3, <1>5 DEF Elements, t

-----------------------------------------------------------------------------
(* Blocks.                                                                 *)

LEMMA BlockFacts ==
  ASSUME NEW b \in Blocks
  PROVE  /\ b.op \in {"OPEN", "CLOSE", "TYPE", "MOUSE", "LISTEN", "NAME", "RFB", "HIDE"}
         /\ b.op # "HIDE" => b.id \in Ids
BY DEF Blocks, Hide

LEMMA WireIsId ==
  ASSUME FewIds, NEW c \in Ids
  PROVE  Wire(c) = c
<1> DEFINE m == ByteSize * ByteSize
<1>1. m \in Nat /\ c \in Nat /\ c < m
  BY ProtocolAssumption DEF FewIds, Ids
<1> HIDE DEF m
<1>2. c % m = c
  BY <1>1
<1> QED BY <1>2 DEF Wire, m

LEMMA WrittenBlocks ==
  ASSUME FewIds, NEW c \in Ids
  PROVE  /\ \A op \in {"OPEN", "CLOSE", "TYPE", "MOUSE", "LISTEN"} :
              About(op, c) \in Blocks /\ About(op, c).op = op /\ About(op, c).id = c
         /\ \A w \in Windows :
              Rfb(c, w) \in Blocks /\ Rfb(c, w).op = "RFB" /\ Rfb(c, w).id = c
         /\ \A t \in Titles : [op |-> "NAME", id |-> c, title |-> t] \in Blocks
         /\ Hide \in Blocks /\ Hide.op = "HIDE"
<1>1. Wire(c) = c
  BY WireIsId
<1> QED BY <1>1 DEF Blocks, About, Rfb, Hide

-----------------------------------------------------------------------------
(* The sending end.                                                        *)

\* A record the table points at is one that is allocated.
LEMMA Received ==
  ASSUME RecordsInv, NEW c \in Ids, received[c] # 0
  PROVE  received[c] \in Allocated /\ channel[received[c]] = c
BY DEF RecordsInv, ClientTypeOK, Allocated, Ids

\* A block is written, which the sending end may write now.
LEMMA WriteKeeps ==
  ASSUME DisplayInv, NEW b \in Blocks, Write(b),
         \A a \in Elements(input) : Before(a, b),
         Meant(b)', \A c : Of(b, c) => c \notin ended,
         \A c \in Ids : Opens(b, c) => c \notin sent \union listened,
         sent \subseteq sent' /\ listened \subseteq listened' /\ ended \subseteq ended',
         sent' \subseteq Ids /\ listened' \subseteq Ids,
         sent' \intersect listened' = {} /\ ended' \subseteq sent' \union listened',
         \A c \in sent' \union listened' : c \in sent \union listened \/ Opens(b, c),
         \A c \in ended' : c \in ended \/ (b.op = "CLOSE" /\ b.id = c)
  PROVE  DisplayInv'
<1>0. PICK Q : Q = Elements(input)
  OBVIOUS
<1>1. /\ UNCHANGED <<received, channel, fd, audio, destroyed, dismissed, unread,
                     watched, title, postponed, life>>
      /\ input' = Append(input, b)
  BY DEF Write, tables, widgets
<1>2. input \in Seq(Blocks) /\ InOrder(input) /\ \A a \in Q : Meant(a)
  BY <1>0 DEF DisplayInv, SenderInv
<1>3. input' \in Seq(Blocks) /\ Elements(input)' = Q \union {b} /\ InOrder(input')
  BY <1>0, <1>1, <1>2, Added, OrderAdded
<1>4. \A a \in Q : Meant(a)'
  BY <1>2 DEF Meant
<1>5. SenderInv'
  BY <1>3, <1>4 DEF SenderInv
<1>6. RecordsInv'
  <2>1. Allocated' = Allocated
    BY <1>1 DEF Allocated
  <2>2. ClientTypeOK'
    BY <1>1 DEF DisplayInv, RecordsInv, ClientTypeOK
  <2> QED BY <1>1, <2>1, <2>2 DEF DisplayInv, RecordsInv
<1>7. NoClash' = NoClash /\ OnlyClosingHarms'
  BY <1>1 DEF NoClash, DisplayInv, OnlyClosingHarms
<1>8. ASSUME NoClash, life = "running" PROVE Follows(Q \union {b})'
  <2>1. Follows(Q) /\ RecordsInv
    BY <1>0, <1>8 DEF DisplayInv
  <2>2. Allocated' = Allocated /\ OnScreen' = OnScreen
    BY <1>1 DEF Allocated, OnScreen
  <2>3. \A r \in Allocated' :
          /\ received'[channel'[r]] = r
          /\ IF r \in audio' THEN channel'[r] \in listened' ELSE channel'[r] \in sent'
    BY <1>1, <2>1, <2>2 DEF Follows
  <2>4. \A c \in sent' \union listened' :
          received'[c] # 0 \/ \E a \in Q \union {b} : Opens(a, c)
    BY <1>1, <2>1 DEF Follows
  <2>5. \A a \in Q \union {b} : \A c \in Ids : Opens(a, c) => received'[c] = 0
    <3>1. ASSUME NEW c \in Ids, received[c] # 0 PROVE c \in sent \union listened
      BY <2>1, <3>1, Received DEF Follows
    <3> QED BY <1>1, <2>1, <3>1 DEF Follows
  <2>6. \A r \in destroyed' :
          \/ r \in dismissed'
          \/ channel'[r] \in ended' /\ \A a \in Q \union {b} : ~Of(a, channel'[r])
    BY <1>1, <2>1 DEF Follows
  <2>7. \A r \in OnScreen' : channel'[r] \in ended' =>
          \E a \in Q \union {b} : a.op = "CLOSE" /\ a.id = channel'[r]
    BY <1>1, <2>1, <2>2 DEF Follows
  <2>8. \A c \in ended' :
          received'[c] # 0 \/ \E a \in Q \union {b} : a.op = "CLOSE" /\ a.id = c
    BY <1>1, <2>1 DEF Follows
  <2> QED BY <2>3, <2>4, <2>5, <2>6, <2>7, <2>8 DEF Follows
<1>9. NoClash' /\ life' = "running" => Follows(Elements(input))'
  <2>1. Follows(Elements(input))' <=> Follows(Q \union {b})'
    BY <1>3 DEF Follows
  <2> QED BY <1>1, <1>7, <1>8, <2>1
<1> QED BY <1>5, <1>6, <1>7, <1>9 DEF DisplayInv

\* Something is said of a channel that has not ended; it is no OPEN or LISTEN.
LEMMA FollowsWhatWasSaid ==
  ASSUME SenderInv, NEW b \in Blocks, b.op # "OPEN", b.op # "LISTEN",
         b.op # "HIDE" => b.id \notin ended
  PROVE  /\ \A a \in Elements(input) : Before(a, b)
         /\ \A c : Of(b, c) => c \notin ended
         /\ \A c : ~Opens(b, c)
BY DEF SenderInv, Meant, Before, Of, Opens

LEMMA OfferKeeps ==
  ASSUME FewIds, DisplayInv, NEW c \in Ids, Offer(c) \/ OfferSound(c)
  PROVE  DisplayInv'
<1>1. c \notin sent \union listened /\ UNCHANGED ended
  BY DEF Offer, OfferSound
<1>2. PICK b \in Blocks :
        /\ Write(b) /\ b.id = c
        /\ \/ b.op = "OPEN" /\ sent' = sent \union {c} /\ listened' = listened
           \/ b.op = "LISTEN" /\ listened' = listened \union {c} /\ sent' = sent
  BY WrittenBlocks DEF Offer, OfferSound
<1>3. SenderInv
  BY DEF DisplayInv
<1>4. \A a \in Elements(input) : Before(a, b)
  <2> SUFFICES ASSUME NEW a \in Elements(input), a.op # "HIDE", a.id = c
               PROVE  a.op \in {"NAME", "TYPE"}
    BY <1>2 DEF Before
  <2>1. Meant(a)
    BY <1>3 DEF SenderInv
  <2>2. a \in Blocks
    BY <1>3 DEF SenderInv, Elements
  <2>3. a.op \in {"OPEN", "CLOSE", "TYPE", "MOUSE", "LISTEN", "NAME", "RFB", "HIDE"}
    BY <2>2, BlockFacts
  <2> QED BY <1>1, <2>1, <2>3 DEF Meant
<1>5. Meant(b)'
  BY <1>2 DEF Meant
<1>6. sent \subseteq Ids /\ listened \subseteq Ids
      /\ sent \intersect listened = {} /\ ended \subseteq sent \union listened
  BY <1>3 DEF SenderInv
<1>7. \A d : (Of(b, d) => d = c) /\ (Opens(b, d) <=> d = c)
  BY <1>2 DEF Of, Opens
<1> QED BY <1>1, <1>2, <1>4, <1>5, <1>6, <1>7, WriteKeeps

LEMMA WithdrawKeeps ==
  ASSUME FewIds, DisplayInv, NEW c \in Ids, Withdraw(c)
  PROVE  DisplayInv'
<1>1. SenderInv
  BY DEF DisplayInv
<1>2. PICK b \in Blocks : Write(b) /\ b.id = c /\ b.op = "CLOSE"
  BY WrittenBlocks DEF Withdraw
<1>3. /\ c \in sent \union listened /\ c \notin ended
      /\ UNCHANGED <<sent, listened>> /\ ended' = ended \union {c}
  BY DEF Withdraw
<1>4. /\ \A a \in Elements(input) : Before(a, b)
      /\ \A d : Of(b, d) => d \notin ended
      /\ \A d : ~Opens(b, d)
  BY <1>1, <1>2, <1>3, FollowsWhatWasSaid
<1>5. Meant(b)'
  BY <1>2, <1>3 DEF Meant
<1>6. sent \subseteq Ids /\ listened \subseteq Ids
      /\ sent \intersect listened = {} /\ ended \subseteq sent \union listened
  BY <1>1 DEF SenderInv
<1> QED BY <1>2, <1>3, <1>4, <1>5, <1>6, WriteKeeps

LEMMA DescribeKeeps ==
  ASSUME FewIds, DisplayInv, NEW c \in Ids, NEW b \in Blocks, b.id = c,
         b.op \in {"NAME", "TYPE"}, Describe(c, b)
  PROVE  DisplayInv'
<1>1. SenderInv
  BY DEF DisplayInv
<1>2. c \notin ended /\ Write(b) /\ UNCHANGED <<sent, listened, ended>>
  BY DEF Describe, channelHistory
<1>3. /\ \A a \in Elements(input) : Before(a, b)
      /\ \A d : Of(b, d) => d \notin ended
      /\ \A d : ~Opens(b, d)
  BY <1>1, <1>2, FollowsWhatWasSaid
<1>4. Meant(b)'
  BY DEF Meant
<1>5. sent \subseteq Ids /\ listened \subseteq Ids
      /\ sent \intersect listened = {} /\ ended \subseteq sent \union listened
  BY <1>1, <1>2 DEF SenderInv
<1> QED BY <1>2, <1>3, <1>4, <1>5, WriteKeeps

\* MOUSE and RFB, which change no history.
LEMMA SayKeeps ==
  ASSUME DisplayInv, NEW b \in Blocks, Write(b), UNCHANGED history,
         b.op \in {"MOUSE", "RFB", "HIDE"},
         b.op # "HIDE" => b.id \in (sent \union listened) \ ended,
         b.op = "MOUSE" => b.id \in sent
  PROVE  DisplayInv'
<1>1. SenderInv
  BY DEF DisplayInv
<1>2. UNCHANGED <<sent, listened, ended>>
  BY DEF history, channelHistory
<1>3. /\ \A a \in Elements(input) : Before(a, b)
      /\ \A d : Of(b, d) => d \notin ended
      /\ \A d : ~Opens(b, d)
  BY <1>1, FollowsWhatWasSaid
<1>4. Meant(b)'
  BY <1>2 DEF Meant
<1>5. sent \subseteq Ids /\ listened \subseteq Ids
      /\ sent \intersect listened = {} /\ ended \subseteq sent \union listened
  BY <1>1 DEF SenderInv
<1> QED BY <1>2, <1>3, <1>4, <1>5, WriteKeeps

LEMMA ReadsAnswerKeeps ==
  ASSUME DisplayInv, ReadsAnswer
  PROVE  DisplayInv'
<1>1. UNCHANGED <<input, received, channel, fd, audio, destroyed, dismissed, unread,
                  watched, title, postponed, life, sent, listened, ended>>
  BY DEF ReadsAnswer, tables, widgets, history, channelHistory
<1> QED BY <1>1 DEF DisplayInv, SenderInv, Meant, RecordsInv, ClientTypeOK, Allocated,
                    NoClash, Follows, OnScreen, OnlyClosingHarms

LEMMA SenderKeeps ==
  ASSUME FewIds, DisplayInv, Sender
  PROVE  DisplayInv'
<1>1. ASSUME NEW c \in Ids, Offer(c) \/ OfferSound(c) PROVE DisplayInv'
  BY <1>1, OfferKeeps
<1>2. ASSUME NEW c \in Ids, Withdraw(c) PROVE DisplayInv'
  BY <1>2, WithdrawKeeps
<1>3. ASSUME NEW c \in Ids, NEW t \in Titles,
             DescribeTitle(c, [op |-> "NAME", id |-> c, title |-> t])
      PROVE  DisplayInv'
  <2>1. PICK b \in Blocks : b = [op |-> "NAME", id |-> c, title |-> t]
    BY WrittenBlocks
  <2>2. b.id = c /\ b.op = "NAME"
    BY <2>1
  <2> QED BY <1>3, <2>1, <2>2, DescribeKeeps DEF DescribeTitle
<1>4. ASSUME NEW c \in Ids, DescribeType(c) PROVE DisplayInv'
  <2>1. PICK b \in Blocks : b = About("TYPE", c) /\ b.id = c /\ b.op = "TYPE"
    BY WrittenBlocks
  <2> QED BY <1>4, <2>1, DescribeKeeps DEF DescribeType
<1>5. ASSUME NEW c \in Ids, Point(c) PROVE DisplayInv'
  <2>1. PICK b \in Blocks : b = About("MOUSE", c) /\ b.id = c /\ b.op = "MOUSE"
    BY WrittenBlocks
  <2>2. c \in sent \ ended /\ Write(b) /\ UNCHANGED history
    BY <1>5, <2>1 DEF Point, Told
  <2> QED BY <2>1, <2>2, SayKeeps
<1>6. ASSUME NEW c \in Ids, Stream(c) PROVE DisplayInv'
  <2>1. PICK w \in Windows : Write(Rfb(c, w))
    BY <1>6 DEF Stream
  <2>2. PICK b \in Blocks : b = Rfb(c, w) /\ b.id = c /\ b.op = "RFB"
    BY WrittenBlocks
  <2>3. c \in (sent \union listened) \ ended /\ UNCHANGED history
    BY <1>6 DEF Stream
  <2> QED BY <2>1, <2>2, <2>3, SayKeeps
<1>7. CASE PointAway
  <2>1. Hide \in Blocks /\ Hide.op = "HIDE"
    BY DEF Blocks, Hide
  <2>2. PICK b \in Blocks : b = Hide /\ b.op = "HIDE"
    BY <2>1
  <2> QED BY <1>7, <2>2, SayKeeps DEF PointAway
<1>8. CASE ReadsAnswer
  BY <1>8, ReadsAnswerKeeps
<1>9. Described \subseteq Ids
  BY OrderlySenderAssumption
<1> QED BY <1>1, <1>2, <1>3, <1>4, <1>5, <1>6, <1>7, <1>8, <1>9 DEF Sender

-----------------------------------------------------------------------------
(* What keeps the types of the display program.                            *)

\* A record is made for channel c.
LEMMA NewRecordKeeps ==
  ASSUME RecordsInv, NEW c \in Ids, NewRecord(c)
  PROVE  LET r == Cardinality(Allocated) + 1 IN
         /\ r \in Records \ Allocated
         /\ Allocated' = Allocated \union {r} /\ Allocated' = 1 .. r
         /\ Cardinality(Allocated') = r
         /\ received' \in [Ids -> {0} \union Records]
         /\ channel' \in [Records -> {0} \union Ids]
         /\ received'[c] = r /\ channel'[r] = c
         /\ \A d \in Ids \ {c} : received'[d] = received[d]
         /\ \A q \in Records \ {r} : channel'[q] = channel[q]
         /\ \A d \in Ids : received'[d] # 0 => channel'[received'[d]] = d
<1>1. PICK n : n = Cardinality(Allocated)
  OBVIOUS
<1> DEFINE r == n + 1
<1>2. /\ n \in Nat /\ Allocated = 1 .. n
      /\ received \in [Ids -> {0} \union Records]
      /\ channel \in [Records -> {0} \union Ids]
      /\ \A d \in Ids : received[d] # 0 => channel[received[d]] = d
  BY <1>1 DEF RecordsInv, ClientTypeOK
<1>3. /\ r \in Records
      /\ received' = [received EXCEPT ![c] = r]
      /\ channel' = [channel EXCEPT ![r] = c]
  BY <1>1 DEF NewRecord
<1>4. r \notin Allocated /\ 0 \notin Ids /\ 1 .. r = (1 .. n) \union {r} /\ r \in Nat
  BY <1>2 DEF Ids
<1>5. /\ received' \in [Ids -> {0} \union Records]
      /\ channel' \in [Records -> {0} \union Ids]
      /\ received'[c] = r /\ channel'[r] = c
      /\ \A d \in Ids \ {c} : received'[d] = received[d]
      /\ \A q \in Records \ {r} : channel'[q] = channel[q]
  BY <1>2, <1>3
<1>6. Allocated' = Allocated \union {r}
  BY <1>3, <1>4, <1>5 DEF Allocated
<1>7. Cardinality(1 .. r) = r
  BY <1>4, FS_Interval
<1>8. \A d \in Ids : received'[d] # 0 => channel'[received'[d]] = d
  <2> SUFFICES ASSUME NEW d \in Ids, d # c, received[d] # 0
               PROVE  channel'[received[d]] = d
    BY <1>5
  <2>1. received[d] \in Records /\ channel[received[d]] = d
    BY <1>2
  <2>2. channel[r] = 0
    BY <1>3, <1>4 DEF Allocated
  <2>3. received[d] # r
    BY <1>4, <2>1, <2>2
  <2> QED BY <1>5, <2>1, <2>3
<1> QED BY <1>1, <1>2, <1>3, <1>4, <1>5, <1>6, <1>7, <1>8

LEMMA RetitleKeeps ==
  ASSUME RecordsInv, NEW r \in Records, NEW blocks \in Seq(Blocks), Retitle(r, blocks)
  PROVE  /\ title' \in [Records -> {NoTitle} \union Blocks]
         /\ \A q \in Records : title'[q] # NoTitle => title'[q].op = "NAME"
         /\ \A q \in Records : title[q] # NoTitle => title'[q] # NoTitle
         /\ \A q \in Records \ {r} : title'[q] = title[q]
         /\ (\E b \in Elements(blocks) : b.op = "NAME") => title'[r] # NoTitle
<1> DEFINE names == {i \in DOMAIN blocks : blocks[i].op = "NAME"}
<1>1. /\ title \in [Records -> {NoTitle} \union Blocks]
      /\ \A q \in Records : title[q] # NoTitle => title[q].op = "NAME"
  BY DEF RecordsInv, ClientTypeOK
<1>2. CASE names = {} /\ UNCHANGED title
  BY <1>1, <1>2 DEF Elements
<1>3. ASSUME NEW last \in names, title' = [title EXCEPT ![r] = blocks[last]]
      PROVE  /\ title' \in [Records -> {NoTitle} \union Blocks]
             /\ \A q \in Records : title'[q] # NoTitle => title'[q].op = "NAME"
             /\ title'[r] # NoTitle
             /\ \A q \in Records \ {r} : title'[q] = title[q]
  <2>1. PICK b \in Blocks : b = blocks[last] /\ b.op = "NAME" /\ b # NoTitle
    <3>1. blocks[last] \in Blocks /\ blocks[last].op = "NAME"
      OBVIOUS
    <3>2. NoTitle.op = "NONE"
      BY DEF NoTitle
    <3> QED BY <3>1, <3>2
  <2>2. title' = [title EXCEPT ![r] = b]
    BY <1>3, <2>1
  <2> QED BY <1>1, <2>1, <2>2
<1> QED BY <1>1, <1>2, <1>3 DEF Retitle

\* Nothing that these are about has changed.
LEMMA RecordsStill ==
  ASSUME RecordsInv, UNCHANGED <<received, channel, fd, audio, title, postponed>>,
         destroyed' \subseteq Allocated \ audio, dismissed' \subseteq destroyed',
         unread' \subseteq Records, watched' \subseteq Records, life' \in Lives
  PROVE  RecordsInv'
<1>1. Allocated' = Allocated
  BY DEF Allocated
<1>2. Allocated \subseteq Records
  BY DEF Allocated
<1>3. ClientTypeOK'
  BY <1>2 DEF RecordsInv, ClientTypeOK
<1> QED BY <1>1, <1>3 DEF RecordsInv

LEMMA DiesTypes ==
  ASSUME RecordsInv, NEW why \in Lives, Dies(why) \/ Ignored
  PROVE  RecordsInv'
<1>1. UNCHANGED <<received, channel, fd, audio, destroyed, dismissed, unread, watched,
                  title, postponed>> /\ life' \in Lives
  BY DEF Dies, Ignored, tables, widgets, RecordsInv, ClientTypeOK
<1>2. /\ destroyed' \subseteq Allocated \ audio /\ dismissed' \subseteq destroyed'
      /\ unread' \subseteq Records /\ watched' \subseteq Records
  BY <1>1 DEF RecordsInv, ClientTypeOK
<1> QED BY <1>1, <1>2, RecordsStill

LEMMA OpenTypes ==
  ASSUME RecordsInv, NEW c \in Ids, OpenNewChannel(c), received[c] = 0
  PROVE  RecordsInv'
<1>1. PICK r : r = Cardinality(Allocated) + 1
  OBVIOUS
<1>2. NewRecord(c)
  BY DEF OpenNewChannel
<1>3. /\ r \in Records \ Allocated
      /\ Allocated' = Allocated \union {r} /\ Allocated' = 1 .. r
      /\ Cardinality(Allocated') = r
      /\ received' \in [Ids -> {0} \union Records]
      /\ channel' \in [Records -> {0} \union Ids]
      /\ \A d \in Ids : received'[d] # 0 => channel'[received'[d]] = d
  BY <1>1, <1>2, NewRecordKeeps
<1>4. PICK f \in Fds : fd' = [fd EXCEPT ![r] = f]
  BY <1>1 DEF OpenNewChannel
<1>5. fd' \in [Records -> {0} \union Fds] /\ \A q \in Records \ {r} : fd'[q] = fd[q]
  BY <1>3, <1>4 DEF RecordsInv, ClientTypeOK
<1>6. /\ watched' = watched \union {r}
      /\ UNCHANGED <<audio, destroyed, dismissed, unread, title, postponed, life>>
  BY <1>1 DEF OpenNewChannel
<1>7. ClientTypeOK'
  BY <1>3, <1>5, <1>6 DEF RecordsInv, ClientTypeOK
<1>8. r \in Nat
  BY <1>1 DEF RecordsInv
<1> QED BY <1>3, <1>5, <1>6, <1>7, <1>8 DEF RecordsInv

LEMMA ListenTypes ==
  ASSUME RecordsInv, NEW c \in Ids, Listen(c)
  PROVE  RecordsInv'
<1>1. PICK r : r = Cardinality(Allocated) + 1
  OBVIOUS
<1>2. NewRecord(c)
  BY DEF Listen
<1>3. /\ r \in Records \ Allocated
      /\ Allocated' = Allocated \union {r} /\ Allocated' = 1 .. r
      /\ Cardinality(Allocated') = r
      /\ received' \in [Ids -> {0} \union Records]
      /\ channel' \in [Records -> {0} \union Ids]
      /\ \A d \in Ids : received'[d] # 0 => channel'[received'[d]] = d
  BY <1>1, <1>2, NewRecordKeeps
<1>4. /\ audio' = audio \union {r}
      /\ UNCHANGED <<fd, destroyed, dismissed, unread, watched, title, postponed, life>>
  BY <1>1 DEF Listen, widgets
<1>5. ClientTypeOK'
  BY <1>3, <1>4 DEF RecordsInv, ClientTypeOK
<1>6. r \in Nat
  BY <1>1 DEF RecordsInv
<1> QED BY <1>3, <1>4, <1>5, <1>6 DEF RecordsInv

LEMMA CloseTypes ==
  ASSUME RecordsInv, NEW c \in Ids, CloseChannel(c)
  PROVE  RecordsInv'
<1> DEFINE r == received[c]
<1>1. CASE Ignored \/ Dies("freed")
  BY <1>1, DiesTypes DEF Lives
<1>2. ASSUME r # 0, destroyed' = IF r \in audio THEN destroyed ELSE destroyed \union {r},
             received' = RemovedRecord(r),
             UNCHANGED <<channel, fd, audio, dismissed, unread, watched, title,
                         postponed, life>>
      PROVE  RecordsInv'
  <2>1. r \in Allocated
    BY <1>2, Received
  <2>2. received' \in [Ids -> {0} \union Records]
        /\ \A d \in Ids : received'[d] # 0 => received'[d] = received[d]
    BY <1>2 DEF RemovedRecord, RecordsInv, ClientTypeOK
  <2>3. destroyed' \subseteq Allocated \ audio /\ destroyed \subseteq destroyed'
    BY <1>2, <2>1 DEF RecordsInv
  <2>4. Allocated' = Allocated /\ Allocated \subseteq Records
    BY <1>2 DEF Allocated
  <2>5. ClientTypeOK'
    BY <1>2, <2>2, <2>3, <2>4 DEF RecordsInv, ClientTypeOK
  <2> QED BY <1>2, <2>2, <2>3, <2>4, <2>5 DEF RecordsInv
<1> QED BY <1>1, <1>2 DEF CloseChannel

LEMMA MetadataTypes ==
  ASSUME RecordsInv, NEW b \in Blocks, b.id \in Ids, ApplyMetadata(b.id, b)
  PROVE  RecordsInv'
<1> DEFINE c == b.id
           r == received[c]
<1>1. CASE r = 0
  <2>1. /\ postponed' = [postponed EXCEPT ![c] = <<b>> \o postponed[c]]
        /\ UNCHANGED <<received, channel, fd, audio, destroyed, dismissed, unread,
                       watched, title, life>>
    BY <1>1 DEF ApplyMetadata, tables, widgets
  <2>2. postponed \in [Ids -> Seq(Blocks)]
    BY DEF RecordsInv
  <2>3. <<b>> \o postponed[c] \in Seq(Blocks)
    BY <2>2, Pushed
  <2>4. postponed' \in [Ids -> Seq(Blocks)]
    BY <2>1, <2>2, <2>3
  <2>5. Allocated' = Allocated /\ ClientTypeOK'
    BY <2>1 DEF Allocated, RecordsInv, ClientTypeOK
  <2> QED BY <2>1, <2>4, <2>5 DEF RecordsInv
<1>2. CASE r # 0 /\ r \in OnScreen /\ Retitle(r, <<b>>)
           /\ UNCHANGED <<output, tables, widgets, postponed, life>>
  <2>1. r \in Records /\ <<b>> \in Seq(Blocks)
    BY <1>2, OneElement DEF OnScreen, Allocated
  <2>2. /\ title' \in [Records -> {NoTitle} \union Blocks]
        /\ \A q \in Records : title'[q] # NoTitle => title'[q].op = "NAME"
    BY <1>2, <2>1, RetitleKeeps
  <2>3. UNCHANGED <<received, channel, fd, audio, destroyed, dismissed, unread,
                    watched, postponed, life>>
    BY <1>2 DEF tables, widgets
  <2>4. Allocated' = Allocated /\ ClientTypeOK'
    BY <2>2, <2>3 DEF Allocated, RecordsInv, ClientTypeOK
  <2> QED BY <2>2, <2>3, <2>4 DEF RecordsInv
<1>3. CASE Ignored \/ Dies("freed") \/ Dies("null")
  BY <1>3, DiesTypes DEF Lives
<1> QED BY <1>1, <1>2, <1>3 DEF ApplyMetadata, ApplyMetadataNow, UsesFreed

LEMMA StreamTypes ==
  ASSUME RecordsInv, NEW c \in Ids, HandleStream(c)
  PROVE  RecordsInv'
<1> DEFINE r == received[c]
<1>1. CASE Ignored \/ Dies("pipe")
  BY <1>1, DiesTypes DEF Lives
<1>2. CASE /\ r \in OnScreen /\ unread' = unread \union {r}
           /\ UNCHANGED <<output, tables, destroyed, dismissed, watched, title,
                          postponed, life>>
  <2>1. r \in Records
    BY <1>2 DEF OnScreen, Allocated
  <2>2. UNCHANGED <<received, channel, fd, audio, destroyed, dismissed, watched, title,
                    postponed, life>>
    BY <1>2 DEF tables
  <2>3. /\ destroyed' \subseteq Allocated \ audio /\ dismissed' \subseteq destroyed'
        /\ unread' \subseteq Records /\ watched' \subseteq Records /\ life' \in Lives
    BY <1>2, <2>1, <2>2 DEF RecordsInv, ClientTypeOK
  <2> QED BY <2>2, <2>3, RecordsStill
<1> QED BY <1>1, <1>2 DEF HandleStream

LEMMA HandlerTypes ==
  ASSUME RecordsInv, NEW b \in Blocks, HandleXzibitMessage(b)
  PROVE  RecordsInv'
<1>1. b.op # "HIDE" => b.id \in Ids
  BY BlockFacts
<1>2. CASE b.op = "OPEN" /\ OpenNewChannel(b.id)
  <2>1. CASE received[b.id] # 0
    <3>1. Ignored
      BY <1>2, <2>1 DEF OpenNewChannel
    <3> QED BY <3>1, DiesTypes DEF Lives
  <2> QED BY <1>1, <1>2, <2>1, OpenTypes
<1>3. CASE b.op = "CLOSE" /\ CloseChannel(b.id)
  BY <1>1, <1>3, CloseTypes
<1>4. CASE b.op \in {"NAME", "TYPE"} /\ ApplyMetadata(b.id, b)
  BY <1>1, <1>4, MetadataTypes
<1>5. CASE b.op = "MOUSE" /\ MovePointerTo(b.id)
  <2>1. Ignored \/ Dies("freed") \/ Dies("null")
    BY <1>5 DEF MovePointerTo, UsesFreed
  <2> QED BY <2>1, DiesTypes DEF Lives
<1>6. CASE b.op = "LISTEN" /\ Listen(b.id)
  BY <1>1, <1>6, ListenTypes
<1>7. CASE b.op = "RFB" /\ HandleStream(b.id)
  BY <1>1, <1>7, StreamTypes
<1>8. CASE Ignored
  BY <1>8, DiesTypes DEF Lives
<1> QED BY <1>2, <1>3, <1>4, <1>5, <1>6, <1>7, <1>8 DEF HandleXzibitMessage

-----------------------------------------------------------------------------
(* How the tables follow what is read.                                     *)

\* The program is not harmed, and has read all but "queue".
Fine(queue) ==
  /\ life = "running" => Follows(queue)
  /\ life # "null"
  /\ life \in {"pipe", "freed"} => dismissed # {}
  /\ life = "reset" =>
       \E r \in destroyed \intersect unread : r \in dismissed \/ channel[r] \in ended

\* Block b is read before what is in "queue".
Reads(b, queue) ==
  /\ b \in Blocks /\ queue \subseteq Blocks
  /\ Meant(b) /\ \A a \in queue : Meant(a) /\ Before(b, a)
  /\ sent \subseteq Ids /\ listened \subseteq Ids /\ ended \subseteq sent \union listened
  /\ sent \intersect listened = {}
  /\ UNCHANGED <<sent, listened, ended>>

\* A block that neither opens nor closes is read without effect.
LEMMA ReadStill ==
  ASSUME RecordsInv, NEW queue, NEW b, Follows(queue \union {b}),
         b.op \notin {"OPEN", "LISTEN", "CLOSE"}
  PROVE  Follows(queue)
BY DEF Follows, Opens, RecordsInv

LEMMA FollowsStill ==
  ASSUME NEW queue, Follows(queue),
         UNCHANGED <<received, channel, audio, destroyed, dismissed, sent, listened, ended>>
  PROVE  Follows(queue)'
<1>1. Allocated' = Allocated /\ OnScreen' = OnScreen
  BY DEF Allocated, OnScreen
<1> QED BY <1>1 DEF Follows

\* The record of a channel on which something is said after the OPEN.
LEMMA SpokenOf ==
  ASSUME RecordsInv, NEW b, NEW queue, Reads(b, queue), Follows(queue \union {b}),
         b.op \in {"CLOSE", "MOUSE", "RFB"}
  PROVE  /\ b.id \in Ids /\ received[b.id] \in Allocated
         /\ channel[received[b.id]] = b.id
         /\ b.op = "MOUSE" => received[b.id] \notin audio
         /\ received[b.id] \in destroyed => received[b.id] \in dismissed
<1>1. b.id \in Ids /\ b.id \in sent \union listened
  BY DEF Reads, Meant
<1>2. \A a \in queue \union {b} : ~Opens(a, b.id)
  BY DEF Reads, Before, Opens
<1>3. received[b.id] # 0
  BY <1>1, <1>2 DEF Follows
<1>4. received[b.id] \in Allocated /\ channel[received[b.id]] = b.id
  BY <1>1, <1>3, Received
<1>5. b.op = "MOUSE" => received[b.id] \notin audio
  BY <1>4 DEF Reads, Meant, Follows
<1>6. received[b.id] \in destroyed => received[b.id] \in dismissed
  BY <1>4 DEF Follows, Of
<1> QED BY <1>1, <1>4, <1>5, <1>6

\* A record is made by an OPEN or a LISTEN.
LEMMA OpenedFollows ==
  ASSUME RecordsInv, NEW b, NEW queue, Reads(b, queue), Follows(queue \union {b}),
         b.op \in {"OPEN", "LISTEN"}, NewRecord(b.id),
         audio' = IF b.op = "OPEN" THEN audio
                  ELSE audio \union {Cardinality(Allocated) + 1},
         UNCHANGED <<destroyed, dismissed>>
  PROVE  Follows(queue)'
<1>1. PICK r : r = Cardinality(Allocated) + 1
  OBVIOUS
<1>2. PICK c : c = b.id
  OBVIOUS
<1>3. c \in Ids /\ received[c] = 0
  BY <1>2, BlockFacts DEF Reads, Follows, Opens
<1>4. /\ r \in Records \ Allocated /\ Allocated' = Allocated \union {r}
      /\ received'[c] = r /\ channel'[r] = c
      /\ \A d \in Ids \ {c} : received'[d] = received[d]
      /\ \A q \in Records \ {r} : channel'[q] = channel[q]
  BY <1>1, <1>2, <1>3, NewRecordKeeps
<1>5. /\ Allocated \subseteq Records \ {r} /\ r # 0
      /\ \A q \in Allocated : channel[q] \in Ids
  <2>1. \A q \in Records : channel[q] \in {0} \union Ids
    BY DEF RecordsInv, ClientTypeOK
  <2>2. \A q \in Allocated : q \in Records /\ channel[q] # 0
    BY DEF Allocated
  <2>3. r \in Records /\ r \notin Allocated /\ r # 0
    BY <1>4 DEF Records
  <2> QED BY <2>1, <2>2, <2>3
<1>6. audio \subseteq Allocated /\ destroyed \subseteq Allocated \ audio
  BY DEF RecordsInv
<1>7. audio' = IF b.op = "OPEN" THEN audio ELSE audio \union {r}
  BY <1>1
<1>8. \A q \in Allocated' :
        /\ received'[channel'[q]] = q
        /\ IF q \in audio' THEN channel'[q] \in listened' ELSE channel'[q] \in sent'
  <2>1. ASSUME NEW q \in Allocated
        PROVE  /\ received'[channel'[q]] = q
               /\ IF q \in audio' THEN channel'[q] \in listened' ELSE channel'[q] \in sent'
    <3>1. received[channel[q]] = q /\ q # 0 /\ q # r /\ channel'[q] = channel[q]
      BY <1>4, <1>5 DEF Follows, Allocated, Records
    <3>2. channel[q] \in Ids \ {c}
      BY <1>3, <1>5, <3>1
    <3>3. received'[channel[q]] = q
      BY <1>4, <3>1, <3>2
    <3> QED BY <1>7, <3>1, <3>3 DEF Follows, Reads
  <2>2. IF r \in audio' THEN c \in listened' ELSE c \in sent'
    BY <1>2, <1>4, <1>6, <1>7 DEF Reads, Meant
  <2> QED BY <1>4, <2>1, <2>2
<1>9. \A d \in sent' \union listened' : received'[d] # 0 \/ \E a \in queue : Opens(a, d)
  BY <1>2, <1>4, <1>5 DEF Follows, Reads, Opens
<1>10. \A a \in queue : \A d \in Ids : Opens(a, d) => received'[d] = 0
  <2> SUFFICES ASSUME NEW a \in queue, NEW d \in Ids, Opens(a, d)
               PROVE  received'[d] = 0
    OBVIOUS
  <2>1. d # c
    BY <1>2 DEF Reads, Before, Opens
  <2> QED BY <1>4, <2>1 DEF Follows
<1>11. \A q \in destroyed' :
         \/ q \in dismissed'
         \/ channel'[q] \in ended' /\ \A a \in queue : ~Of(a, channel'[q])
  BY <1>4, <1>5, <1>6 DEF Follows, Reads
<1>12. c \in ended => \E a \in queue : a.op = "CLOSE" /\ a.id = c
  BY <1>2, <1>3 DEF Follows
<1>13. OnScreen' \subseteq OnScreen \union {r}
  BY <1>4, <1>7 DEF OnScreen
<1>14. \A q \in OnScreen' :
         channel'[q] \in ended' => \E a \in queue : a.op = "CLOSE" /\ a.id = channel'[q]
  <2>1. OnScreen \subseteq Allocated
    BY DEF OnScreen
  <2>2. \A q \in OnScreen : channel'[q] = channel[q]
    BY <1>4, <1>5, <2>1
  <2>3. \A q \in OnScreen : channel[q] \in ended =>
          \E a \in queue : a.op = "CLOSE" /\ a.id = channel[q]
    BY DEF Follows
  <2> QED BY <1>4, <1>12, <1>13, <2>2, <2>3 DEF Reads
<1>15. \A d \in ended' :
         received'[d] # 0 \/ \E a \in queue : a.op = "CLOSE" /\ a.id = d
  BY <1>4, <1>12 DEF Follows, Reads
<1> QED BY <1>8, <1>9, <1>10, <1>11, <1>14, <1>15 DEF Follows

\* The window of channel c goes when its CLOSE is read.
LEMMA ClosedFollows ==
  ASSUME RecordsInv, NEW b, NEW queue, Reads(b, queue), Follows(queue \union {b}),
         b.op = "CLOSE",
         destroyed' = IF received[b.id] \in audio THEN destroyed
                      ELSE destroyed \union {received[b.id]},
         UNCHANGED <<received, channel, audio, dismissed>>
  PROVE  Follows(queue)'
<1>1. PICK c \in Ids : c = b.id /\ received[c] \in Allocated /\ channel[received[c]] = c
  BY SpokenOf
<1>2. PICK r \in Allocated : r = received[c] /\ channel[r] = c
  BY <1>1
<1>3. c \in ended /\ \A a \in queue : ~Of(a, c)
  BY <1>1 DEF Reads, Meant, Before, Of
<1>4. /\ Allocated' = Allocated
      /\ destroyed' = IF r \in audio THEN destroyed ELSE destroyed \union {r}
  BY <1>1, <1>2 DEF Allocated
<1>5. OnScreen' \subseteq OnScreen /\ r \notin OnScreen'
  BY <1>4 DEF OnScreen
<1>6. \A q \in Allocated' :
        /\ received'[channel'[q]] = q
        /\ IF q \in audio' THEN channel'[q] \in listened' ELSE channel'[q] \in sent'
  BY <1>4 DEF Follows, Reads
<1>7. \A d \in sent' \union listened' : received'[d] # 0 \/ \E a \in queue : Opens(a, d)
  BY DEF Follows, Reads, Opens
<1>8. \A a \in queue : \A d \in Ids : Opens(a, d) => received'[d] = 0
  BY DEF Follows
<1>9. \A q \in destroyed' :
        \/ q \in dismissed'
        \/ channel'[q] \in ended' /\ \A a \in queue : ~Of(a, channel'[q])
  BY <1>2, <1>3, <1>4 DEF Follows, Reads
<1>10. \A q \in OnScreen' :
         channel'[q] \in ended' => \E a \in queue : a.op = "CLOSE" /\ a.id = channel'[q]
  <2> SUFFICES ASSUME NEW q \in OnScreen, q # r, channel[q] \in ended
               PROVE  \E a \in queue : a.op = "CLOSE" /\ a.id = channel[q]
    BY <1>5 DEF Reads
  <2>1. q \in Allocated /\ channel[q] # c
    BY <1>2 DEF OnScreen, Follows
  <2> QED BY <1>1, <2>1 DEF Follows
<1>11. \A d \in ended' :
         received'[d] # 0 \/ \E a \in queue : a.op = "CLOSE" /\ a.id = d
  <2>1. received[c] # 0
    BY <1>1 DEF Allocated, Records
  <2> QED BY <1>1, <2>1 DEF Follows, Reads
<1> QED BY <1>6, <1>7, <1>8, <1>9, <1>10, <1>11 DEF Follows

LEMMA MetadataFine ==
  ASSUME RecordsInv, life = "running", NEW b, NEW queue, Reads(b, queue),
         Follows(queue \union {b}), b.op \in {"NAME", "TYPE"}, ApplyMetadata(b.id, b)
  PROVE  Fine(queue)'
<1>1. PICK c \in Ids : c = b.id
  BY BlockFacts DEF Reads
<1> DEFINE r == received[c]
<1>2. Follows(queue)
  BY ReadStill
<1>3. CASE UNCHANGED <<received, channel, audio, destroyed, dismissed, life>>
  <2>1. Follows(queue)'
    BY <1>2, <1>3, FollowsStill DEF Reads
  <2> QED BY <1>3, <2>1 DEF Fine
<1>4. CASE r # 0 /\ r \in destroyed /\ Dies("freed")
  <2>1. r \in Allocated /\ channel[r] = c
    BY <1>4, Received
  <2>2. r \in dismissed
    BY <1>1, <1>4, <2>1 DEF Follows, Of
  <2> QED BY <1>4, <2>2 DEF Dies, widgets, Fine
<1>5. CASE r # 0 /\ ApplyMetadataNow(r, b)
  BY <1>3, <1>4, <1>5 DEF ApplyMetadataNow, UsesFreed, Ignored, tables, widgets
<1> QED BY <1>1, <1>3, <1>5 DEF ApplyMetadata, tables, widgets

LEMMA MouseFine ==
  ASSUME RecordsInv, life = "running", NEW b, NEW queue, Reads(b, queue),
         Follows(queue \union {b}), b.op = "MOUSE", MovePointerTo(b.id)
  PROVE  Fine(queue)'
<1> DEFINE r == received[b.id]
<1>1. r \in Allocated /\ r \notin audio /\ (r \in destroyed => r \in dismissed)
  BY SpokenOf
<1>2. Follows(queue)
  BY ReadStill
<1>3. CASE Ignored
  <2>1. Follows(queue)' /\ life' = life
    BY <1>2, <1>3, FollowsStill DEF Ignored, tables, widgets, Reads
  <2> QED BY <2>1 DEF Fine
<1>4. CASE r \in destroyed /\ Dies("freed")
  BY <1>1, <1>4 DEF Dies, widgets, Fine
<1>5. r \notin audio \union {0}
  BY <1>1 DEF Allocated, Records
<1> QED BY <1>3, <1>4, <1>5 DEF MovePointerTo, UsesFreed

LEMMA StreamFine ==
  ASSUME RecordsInv, life = "running", NEW b, NEW queue, Reads(b, queue),
         Follows(queue \union {b}), b.op = "RFB", HandleStream(b.id)
  PROVE  Fine(queue)'
<1> DEFINE r == received[b.id]
<1>1. r \in destroyed => r \in dismissed
  BY SpokenOf
<1>2. Follows(queue)
  BY ReadStill
<1>3. CASE r \in destroyed /\ Dies("pipe")
  BY <1>1, <1>3 DEF Dies, widgets, Fine
<1>4. CASE UNCHANGED <<tables, destroyed, dismissed, title, postponed, life>>
  <2>1. Follows(queue)' /\ life' = life
    BY <1>2, <1>4, FollowsStill DEF tables, Reads
  <2> QED BY <2>1 DEF Fine
<1> QED BY <1>3, <1>4 DEF HandleStream, Ignored, widgets

\* Whatever is read.
LEMMA HandlerFine ==
  ASSUME RecordsInv, NoClash, life = "running", NEW b, NEW queue, Reads(b, queue),
         Follows(queue \union {b}), HandleXzibitMessage(b)
  PROVE  Fine(queue)'
<1>1. b.op # "HIDE" => b.id \in Ids
  BY BlockFacts DEF Reads
<1>2. CASE b.op = "OPEN" /\ OpenNewChannel(b.id)
  <2>1. received[b.id] = 0
    BY <1>1, <1>2 DEF Follows, Opens
  <2>2. NewRecord(b.id) /\ UNCHANGED <<audio, destroyed, dismissed, life>>
    BY <1>2, <2>1 DEF OpenNewChannel
  <2>3. Follows(queue)'
    BY <1>2, <2>2, OpenedFollows
  <2> QED BY <2>2, <2>3 DEF Fine
<1>3. CASE b.op = "LISTEN" /\ Listen(b.id)
  <2>1. /\ NewRecord(b.id) /\ audio' = audio \union {Cardinality(Allocated) + 1}
        /\ UNCHANGED <<destroyed, dismissed, life>>
    BY <1>3 DEF Listen, widgets
  <2>2. Follows(queue)'
    BY <1>3, <2>1, OpenedFollows
  <2> QED BY <2>1, <2>2 DEF Fine
<1>4. CASE b.op = "CLOSE" /\ CloseChannel(b.id)
  <2> DEFINE r == received[b.id]
  <2>1. r \in Allocated /\ (r \in destroyed => r \in dismissed)
    BY <1>4, SpokenOf
  <2>2. r # 0 /\ RemovedRecord(r) = received
    <3>1. r # 0 /\ fd[r] \notin Ids
      BY <2>1 DEF Allocated, Records, NoClash
    <3>2. received = [c \in Ids |-> received[c]]
      BY DEF RecordsInv, ClientTypeOK
    <3> QED BY <3>1, <3>2 DEF RemovedRecord
  <2>3. CASE r \in destroyed /\ Dies("freed")
    BY <2>1, <2>3 DEF Dies, widgets, Fine
  <2>4. CASE /\ destroyed' = IF r \in audio THEN destroyed ELSE destroyed \union {r}
             /\ received' = RemovedRecord(r)
             /\ UNCHANGED <<channel, fd, audio, dismissed, unread, watched,
                            title, postponed, life>>
    <3>1. Follows(queue)'
      BY <1>4, <2>2, <2>4, ClosedFollows
    <3> QED BY <2>4, <3>1 DEF Fine
  <2> QED BY <1>4, <2>2, <2>3, <2>4 DEF CloseChannel
<1>5. CASE b.op \in {"NAME", "TYPE"} /\ ApplyMetadata(b.id, b)
  BY <1>5, MetadataFine
<1>6. CASE b.op = "MOUSE" /\ MovePointerTo(b.id)
  BY <1>6, MouseFine
<1>7. CASE b.op = "RFB" /\ HandleStream(b.id)
  BY <1>7, StreamFine
<1>8. CASE b.op \in {"HIDE", "AVATAR"} /\ Ignored
  <2>1. Follows(queue)
    BY <1>8, ReadStill
  <2>2. Follows(queue)' /\ life' = life
    BY <1>8, <2>1, FollowsStill DEF Ignored, tables, widgets, Reads
  <2> QED BY <2>2 DEF Fine
<1> QED BY <1>2, <1>3, <1>4, <1>5, <1>6, <1>7, <1>8 DEF HandleXzibitMessage

-----------------------------------------------------------------------------
(* The callbacks.                                                          *)

LEMMA ExposedKeeps ==
  ASSUME RecordsInv, life = "running", NEW r \in Records, ExposedWindow(r)
  PROVE  /\ RecordsInv'
         /\ \A queue : /\ Follows(queue)
                       /\ UNCHANGED <<sent, listened, ended>>
              => Fine(queue)'
<1>1. PICK c \in Ids : c = channel[r] /\ r \in OnScreen
  BY DEF ExposedWindow, OnScreen, Allocated, RecordsInv, ClientTypeOK
<1> DEFINE now == received[c]
<1>2. /\ UNCHANGED <<received, channel, fd, audio, destroyed, dismissed, unread, watched>>
      /\ postponed' = [postponed EXCEPT ![c] = <<>>]
  BY <1>1 DEF ExposedWindow, tables, widgets
<1>3. postponed \in [Ids -> Seq(Blocks)] /\ <<>> \in Seq(Blocks)
  BY NothingYet DEF RecordsInv
<1>4. /\ postponed' \in [Ids -> Seq(Blocks)]
      /\ \A d \in Ids \ {c} : postponed'[d] = postponed[d]
  BY <1>2, <1>3
<1>5. Allocated' = Allocated /\ OnScreen' = OnScreen /\ OnScreen \subseteq Records
  BY <1>2 DEF OnScreen, Allocated
<1>6. CASE now \in OnScreen /\ Retitle(now, postponed[c]) /\ UNCHANGED life
  <2>1. PICK q \in Records : q = now
    BY <1>5, <1>6
  <2>2. PICK blocks \in Seq(Blocks) : blocks = postponed[c]
    BY <1>3
  <2>3. Retitle(q, blocks)
    BY <1>6, <2>1, <2>2
  <2>4. /\ title' \in [Records -> {NoTitle} \union Blocks]
        /\ \A p \in Records : title'[p] # NoTitle => title'[p].op = "NAME"
        /\ \A p \in Records : title[p] # NoTitle => title'[p] # NoTitle
        /\ (\E b \in Elements(blocks) : b.op = "NAME") => title'[q] # NoTitle
    BY <2>3, RetitleKeeps
  <2>5. ClientTypeOK'
    BY <1>2, <1>6, <2>4 DEF RecordsInv, ClientTypeOK
  <2>6. RecordsInv'
    BY <1>2, <1>4, <1>5, <2>4, <2>5 DEF RecordsInv
  <2>7. ASSUME NEW queue, Follows(queue), UNCHANGED <<sent, listened, ended>>
        PROVE  Fine(queue)'
    <3>1. Follows(queue)'
      BY <1>2, <2>7, FollowsStill
    <3> QED BY <1>6, <3>1 DEF Fine
  <2> QED BY <2>6, <2>7
<1>7. CASE UNCHANGED title /\ now \notin OnScreen /\ life' \in Lives
  <2>1. ClientTypeOK'
    BY <1>2, <1>7 DEF RecordsInv, ClientTypeOK
  <2>2. RecordsInv'
    BY <1>2, <1>4, <1>5, <1>7, <2>1 DEF RecordsInv
  <2>3. ASSUME NEW queue, Follows(queue) PROVE FALSE
    <3>1. r \in Allocated
      BY <1>1 DEF OnScreen
    <3>2. received[channel[r]] = r
      BY <2>3, <3>1 DEF Follows
    <3> QED BY <1>1, <1>7, <3>2
  <2> QED BY <2>2, <2>3
<1>8. 0 \notin OnScreen /\ OnScreen \intersect (audio \union destroyed) = {}
  BY DEF OnScreen, Allocated, Records
<1>9. life \in Lives
  BY DEF RecordsInv, ClientTypeOK
<1> QED BY <1>1, <1>6, <1>7, <1>8, <1>9 DEF ExposedWindow, Lives

\* The other callbacks leave records, channels and titles alone.
LEMMA CallbackKeeps ==
  ASSUME RecordsInv, life = "running", NEW r \in Records,
         \/ CheckForRfbReplies(r) \/ CheckForRfbEnd(r)
         \/ DisplayReads(r) \/ UserClosesWindow(r)
  PROVE  /\ RecordsInv'
         /\ \A queue : /\ Follows(queue)
                       /\ UNCHANGED <<sent, listened, ended>>
              => Fine(queue)'
<1>1. UNCHANGED <<received, channel, fd, audio, title, postponed>>
  BY DEF CheckForRfbReplies, CheckForRfbEnd, DisplayReads, UserClosesWindow, tables
<1>2. CASE CheckForRfbReplies(r)
  <2>1. /\ UNCHANGED <<destroyed, dismissed, unread, watched>>
        /\ life' = life \/ (r \in Freed /\ life' = "freed")
    BY <1>2 DEF CheckForRfbReplies, widgets
  <2>2. RecordsInv'
    <3>1. /\ destroyed' \subseteq Allocated \ audio /\ dismissed' \subseteq destroyed'
          /\ unread' \subseteq Records /\ watched' \subseteq Records /\ life' \in Lives
      BY <2>1 DEF RecordsInv, ClientTypeOK, Lives
    <3> QED BY <1>1, <3>1, RecordsStill
  <2>3. ASSUME NEW queue, Follows(queue), UNCHANGED <<sent, listened, ended>>
        PROVE  Fine(queue)'
    <3>1. life' = life
      BY <2>1, <2>3 DEF Follows, Freed
    <3>2. Follows(queue)'
      BY <1>1, <2>1, <2>3, FollowsStill
    <3> QED BY <3>1, <3>2 DEF Fine
  <2> QED BY <2>2, <2>3
<1>3. CASE CheckForRfbEnd(r) \/ DisplayReads(r)
  <2>1. /\ UNCHANGED <<destroyed, dismissed>> /\ unread' \subseteq unread
        /\ watched' \subseteq watched
        /\ \/ life' = life
           \/ life' = "reset" /\ r \in destroyed \intersect unread /\ UNCHANGED unread
    BY <1>3 DEF CheckForRfbEnd, DisplayReads
  <2>2. RecordsInv'
    <3>1. /\ destroyed' \subseteq Allocated \ audio /\ dismissed' \subseteq destroyed'
          /\ unread' \subseteq Records /\ watched' \subseteq Records /\ life' \in Lives
      BY <2>1 DEF RecordsInv, ClientTypeOK, Lives
    <3> QED BY <1>1, <3>1, RecordsStill
  <2>3. ASSUME NEW queue, Follows(queue), UNCHANGED <<sent, listened, ended>>
        PROVE  Fine(queue)'
    <3>1. Follows(queue)'
      BY <1>1, <2>1, <2>3, FollowsStill
    <3>2. r \in destroyed => r \in dismissed \/ channel[r] \in ended
      BY <2>3 DEF Follows
    <3> QED BY <1>1, <2>1, <2>3, <3>1, <3>2 DEF Fine
  <2> QED BY <2>2, <2>3
<1>4. CASE UserClosesWindow(r)
  <2>1. /\ r \in OnScreen /\ destroyed' = destroyed \union {r}
        /\ dismissed' = dismissed \union {r} /\ UNCHANGED <<unread, watched, life>>
    BY <1>4 DEF UserClosesWindow
  <2>2. RecordsInv'
    <3>1. /\ destroyed' \subseteq Allocated \ audio /\ dismissed' \subseteq destroyed'
          /\ unread' \subseteq Records /\ watched' \subseteq Records /\ life' \in Lives
      BY <2>1 DEF RecordsInv, ClientTypeOK, OnScreen
    <3> QED BY <1>1, <3>1, RecordsStill
  <2>3. ASSUME NEW queue, Follows(queue), UNCHANGED <<sent, listened, ended>>
        PROVE  Fine(queue)'
    <3>1. Allocated' = Allocated /\ OnScreen' \subseteq OnScreen
      BY <1>1, <2>1 DEF Allocated, OnScreen
    <3>2. \A q \in destroyed' :
            \/ q \in dismissed'
            \/ channel'[q] \in ended' /\ \A b \in queue : ~Of(b, channel'[q])
      BY <1>1, <2>1, <2>3 DEF Follows
    <3>3. Follows(queue)'
      BY <1>1, <2>3, <3>1, <3>2 DEF Follows
    <3> QED BY <2>1, <3>3 DEF Fine
  <2> QED BY <2>2, <2>3
<1> QED BY <1>2, <1>3, <1>4

-----------------------------------------------------------------------------
(* Every step.                                                             *)

\* A handler gives a descriptor to a new record only, so that a clash stays.
LEMMA ClashStays ==
  ASSUME RecordsInv, NEW b \in Blocks, HandleXzibitMessage(b), NoClash'
  PROVE  NoClash
<1>1. b.op # "HIDE" => b.id \in Ids
  BY BlockFacts
<1>2. CASE b.op = "OPEN" /\ OpenNewChannel(b.id) /\ received[b.id] = 0
  <2>1. PICK r : r = Cardinality(Allocated) + 1
    OBVIOUS
  <2>2. NewRecord(b.id)
    BY <1>2 DEF OpenNewChannel
  <2>3. r \in Records \ Allocated
    BY <1>1, <1>2, <2>1, <2>2, NewRecordKeeps
  <2>4. PICK f \in Fds : fd' = [fd EXCEPT ![r] = f]
    BY <1>2, <2>1 DEF OpenNewChannel
  <2>5. fd \in [Records -> {0} \union Fds] /\ fd[r] = 0 /\ 0 \notin Ids
    BY <2>3 DEF RecordsInv, ClientTypeOK, Ids
  <2>6. \A q \in Records \ {r} : fd'[q] = fd[q]
    BY <2>4, <2>5
  <2> QED BY <2>5, <2>6 DEF NoClash
<1>3. CASE UNCHANGED fd
  BY <1>3 DEF NoClash
<1>4. CASE b.op = "OPEN" /\ OpenNewChannel(b.id) /\ received[b.id] # 0
  BY <1>3, <1>4 DEF OpenNewChannel, Ignored, tables
<1>5. CASE b.op = "CLOSE" /\ CloseChannel(b.id)
  BY <1>3, <1>5 DEF CloseChannel, Ignored, Dies, tables
<1>6. CASE b.op \in {"NAME", "TYPE"} /\ ApplyMetadata(b.id, b)
  BY <1>3, <1>6 DEF ApplyMetadata, ApplyMetadataNow, UsesFreed, Ignored, Dies, tables
<1>7. CASE b.op = "MOUSE" /\ MovePointerTo(b.id)
  BY <1>3, <1>7 DEF MovePointerTo, UsesFreed, Ignored, Dies, tables
<1>8. CASE b.op = "LISTEN" /\ Listen(b.id)
  BY <1>3, <1>8 DEF Listen
<1>9. CASE b.op = "RFB" /\ HandleStream(b.id)
  BY <1>3, <1>9 DEF HandleStream, Ignored, Dies, tables
<1>10. CASE Ignored
  BY <1>3, <1>10 DEF Ignored, tables
<1> QED BY <1>2, <1>4, <1>5, <1>6, <1>7, <1>8, <1>9, <1>10 DEF HandleXzibitMessage

\* What a step of the display program gives the invariant.
LEMMA FineKeeps ==
  ASSUME RecordsInv', SenderInv', NoClash' => NoClash,
         NEW queue, queue = Elements(input)', NoClash => Fine(queue)'
  PROVE  DisplayInv'
<1>1. CASE ~NoClash'
  BY <1>1 DEF DisplayInv, OnlyClosingHarms
<1>2. CASE Fine(queue)'
  <2>1. life' = "running" => Follows(queue)'
    BY <1>2 DEF Fine
  <2>2. Follows(queue)' => Follows(Elements(input))'
    BY DEF Follows
  <2>3. OnlyClosingHarms'
    BY <1>2 DEF Fine, OnlyClosingHarms
  <2> QED BY <2>1, <2>2, <2>3 DEF DisplayInv
<1> QED BY <1>1, <1>2

LEMMA ReadKeeps ==
  ASSUME DisplayInv, life = "running", CheckForFdInput, UNCHANGED history
  PROVE  DisplayInv'
<1>1. SenderInv /\ RecordsInv /\ input # <<>> /\ input' = Tail(input)
      /\ UNCHANGED <<sent, listened, ended>>
  BY DEF DisplayInv, CheckForFdInput, history, channelHistory
<1>2. input \in Seq(Blocks) /\ InOrder(input)
  BY <1>1 DEF SenderInv
<1>3. /\ Head(input) \in Blocks /\ Tail(input) \in Seq(Blocks)
      /\ Elements(input) = {Head(input)} \union Elements(Tail(input))
  BY <1>1, <1>2, Popped
<1>4. /\ InOrder(Tail(input))
      /\ \A a \in Elements(Tail(input)) : Before(Head(input), a)
  BY <1>1, <1>2, OrderPopped
<1>5. PICK b \in Blocks : b = Head(input)
  BY <1>3
<1>6. PICK queue : queue = Elements(Tail(input))
  OBVIOUS
<1>7. HandleXzibitMessage(b)
  <2>1. b.op # "EMPTY"
    BY BlockFacts
  <2> QED BY <1>5, <2>1 DEF CheckForFdInput
<1>8. Elements(input)' = queue /\ Elements(input) = queue \union {b}
  BY <1>1, <1>3, <1>5, <1>6
<1>9. \A a \in queue : Meant(a) /\ a \in Blocks
  BY <1>1, <1>2, <1>8 DEF SenderInv, Elements
<1>10. Reads(b, queue)
  BY <1>1, <1>4, <1>5, <1>6, <1>8, <1>9 DEF Reads, SenderInv
<1>11. SenderInv'
  <2>1. \A a \in Elements(input)' : Meant(a)'
    BY <1>1, <1>8, <1>9 DEF Meant
  <2>2. input' \in Seq(Blocks) /\ InOrder(input)'
    BY <1>1, <1>3, <1>4
  <2> QED BY <1>1, <2>1, <2>2 DEF SenderInv
<1>12. RecordsInv'
  BY <1>1, <1>7, HandlerTypes
<1>13. NoClash' => NoClash
  BY <1>1, <1>7, ClashStays
<1>14. NoClash => Fine(queue)'
  <2> SUFFICES ASSUME NoClash PROVE Fine(queue)'
    OBVIOUS
  <2>1. Follows(queue \union {b})
    BY <1>8 DEF DisplayInv
  <2> QED BY <1>1, <1>7, <1>10, <2>1, HandlerFine
<1> QED BY <1>8, <1>11, <1>12, <1>13, <1>14, FineKeeps

LEMMA CallbacksKeep ==
  ASSUME DisplayInv, life = "running", UNCHANGED history, NEW r \in Records,
         \/ ExposedWindow(r) \/ CheckForRfbReplies(r) \/ CheckForRfbEnd(r)
         \/ DisplayReads(r) \/ UserClosesWindow(r)
  PROVE  DisplayInv'
<1>1. SenderInv /\ RecordsInv /\ UNCHANGED <<sent, listened, ended>>
  BY DEF DisplayInv, SenderInv, history, channelHistory
<1>2. UNCHANGED <<input, fd>>
  BY DEF ExposedWindow, CheckForRfbReplies, CheckForRfbEnd, DisplayReads,
         UserClosesWindow, tables
<1>3. PICK queue : queue = Elements(input)
  OBVIOUS
<1>4. Elements(input)' = queue
  BY <1>2, <1>3
<1>5. SenderInv'
  BY <1>1, <1>2 DEF SenderInv, Meant
<1>6. RecordsInv' /\ (Follows(queue) => Fine(queue)')
  BY <1>1, ExposedKeeps, CallbackKeeps
<1>7. NoClash => Follows(queue)
  BY <1>3 DEF DisplayInv
<1>8. NoClash' => NoClash
  BY <1>2 DEF NoClash
<1> QED BY <1>4, <1>5, <1>6, <1>7, <1>8, FineKeeps

LEMMA DisplayStep ==
  ASSUME FewIds, DisplayInv, [OrderlyNext]_allVars
  PROVE  DisplayInv'
<1>1. CASE ClientStep /\ UNCHANGED history
  BY <1>1, ReadKeeps, CallbacksKeep DEF ClientStep
<1>2. CASE Sender
  BY <1>2, SenderKeeps
<1>3. CASE UNCHANGED allVars
  <2>1. UNCHANGED <<input, received, channel, fd, audio, destroyed, dismissed, unread,
                    watched, title, postponed, life, sent, listened, ended>>
    BY <1>3 DEF allVars, clientVars, tables, widgets, history, channelHistory
  <2> QED BY <2>1 DEF DisplayInv, SenderInv, Meant, RecordsInv, ClientTypeOK, Allocated,
                      NoClash, Follows, OnScreen, OnlyClosingHarms
<1> QED BY <1>1, <1>2, <1>3 DEF OrderlyNext

LEMMA DisplayBegins ==
  ASSUME OrderlyInit
  PROVE  DisplayInv
<1>1. /\ <<>> \in Seq(Blocks) /\ Elements(<<>>) = {} /\ InOrder(<<>>)
  BY NothingYet
<1>2. ClientInit /\ sent = {} /\ listened = {} /\ ended = {}
  BY DEF OrderlyInit
<1>3. Allocated = {} /\ OnScreen = {}
  BY <1>2 DEF ClientInit, Allocated, OnScreen
<1>4. SenderInv
  BY <1>1, <1>2 DEF SenderInv, ClientInit
<1>5. RecordsInv
  <2>1. ClientTypeOK
    BY <1>2 DEF ClientInit, ClientTypeOK, Lives
  <2>2. title \in [Records -> {NoTitle} \union Blocks]
    BY <1>2 DEF ClientInit
  <2>3. postponed \in [Ids -> Seq(Blocks)]
    BY <1>1, <1>2 DEF ClientInit
  <2>4. Cardinality(Allocated) = 0 /\ 1 .. 0 = {}
    BY <1>3, FS_EmptySet
  <2> QED BY <1>2, <1>3, <2>1, <2>2, <2>3, <2>4 DEF RecordsInv, ClientInit
<1>6. Follows(Elements(input))
  BY <1>1, <1>2, <1>3 DEF Follows, ClientInit
<1>7. OnlyClosingHarms
  BY <1>2 DEF OnlyClosingHarms, ClientInit
<1> QED BY <1>4, <1>5, <1>6, <1>7 DEF DisplayInv

-----------------------------------------------------------------------------
(* What the invariant says.                                                *)

LEMMA NothingLeft ==
  ASSUME DisplayInv, NoClash, life = "running", input = <<>>
  PROVE  /\ \A r \in OnScreen : /\ received[channel[r]] = r /\ r # 0
                                /\ channel[r] \in sent \ ended
         /\ \A c \in sent \ ended : \E r \in OnScreen \union dismissed : channel[r] = c
<1>1. Follows({}) /\ RecordsInv /\ SenderInv
  BY NothingYet DEF DisplayInv
<1>2. \A r \in OnScreen : r \in Allocated \ audio /\ r # 0
  BY DEF OnScreen, Allocated, Records
<1>3. \A r \in OnScreen : received[channel[r]] = r /\ channel[r] \in sent \ ended
  BY <1>1, <1>2 DEF Follows
<1>4. ASSUME NEW c \in sent \ ended
      PROVE  \E r \in OnScreen \union dismissed : channel[r] = c
  <2>1. c \in Ids /\ c \notin listened
    BY <1>1 DEF SenderInv
  <2>2. received[c] # 0
    BY <1>1 DEF Follows
  <2>3. PICK r \in Allocated : r = received[c] /\ channel[r] = c
    BY <1>1, <2>1, <2>2, Received
  <2>4. r \notin audio
    BY <1>1, <2>1, <2>3 DEF Follows
  <2>5. r \in destroyed => r \in dismissed
    BY <1>1, <2>3 DEF Follows
  <2> QED BY <2>3, <2>4, <2>5 DEF OnScreen
<1> QED BY <1>2, <1>3, <1>4

LEMMA FollowsOnScreen ==
  ASSUME DisplayInv
  PROVE  ScreenFollows
<1>1. SUFFICES ASSUME NoClash, life = "running", input = <<>>
               PROVE  /\ \A r \in OnScreen : channel[r] \in Told
                      /\ \A c \in Told : \E r \in OnScreen \cup dismissed : channel[r] = c
                      /\ \A r, q \in OnScreen : channel[r] = channel[q] => r = q
  BY DEF ScreenFollows
<1> QED BY <1>1, NothingLeft DEF Told

-----------------------------------------------------------------------------
(* The theorems.                                                           *)

\* The inductive invariant: what is on its way is in an order the protocol
\* allows and agrees with what the sending end remembers; the records are
\* allocated one after another and the table points at the one of its channel
\* (open_new_channel); and, as long as no descriptor has the number of a channel,
\* the records and windows follow what has been read.
THEOREM DisplaySafe == FewIds => (OrderlySpec => []DisplayInv)
<1> SUFFICES ASSUME FewIds PROVE OrderlySpec => []DisplayInv
  OBVIOUS
<1>1. OrderlyInit => DisplayInv
  BY DisplayBegins
<1>2. DisplayInv /\ [OrderlyNext]_allVars => DisplayInv'
  BY DisplayStep
<1> QED BY <1>1, <1>2, PTL DEF OrderlySpec

\* The tables and the widgets of the display program have their types.
THEOREM ClientTypes == FewIds => (OrderlySpec => []ClientTypeOK)
<1> SUFFICES ASSUME FewIds PROVE OrderlySpec => []ClientTypeOK
  OBVIOUS
<1>1. DisplayInv => ClientTypeOK
  BY DEF DisplayInv, RecordsInv
<1> QED BY <1>1, DisplaySafe, PTL

\* When all has been read there is a window for every channel that is open, but
\* for those the user closed, and for no other, and never two for one: no OPEN
\* or CLOSE is lost between open_new_channel, close_channel and the callbacks.
THEOREM ScreenDoesFollow == FewIds => (OrderlySpec => []ScreenFollows)
<1> SUFFICES ASSUME FewIds PROVE OrderlySpec => []ScreenFollows
  OBVIOUS
<1>1. DisplayInv => ScreenFollows
  BY FollowsOnScreen
<1> QED BY <1>1, DisplaySafe, PTL

\* MOUSE and SET always find a record; only a window the user closed makes the
\* program use something freed or write to a socket that is closed; and it is a
\* window that has gone, by the user or by the CLOSE of its channel, whose unread
\* bytes reset the socket and end the program in check_for_rfb_replies.
THEOREM OnlyClosingHarmsDisplay == FewIds => (OrderlySpec => []OnlyClosingHarms)
<1> SUFFICES ASSUME FewIds PROVE OrderlySpec => []OnlyClosingHarms
  OBVIOUS
<1>1. DisplayInv => OnlyClosingHarms
  BY DEF DisplayInv
<1> QED BY <1>1, DisplaySafe, PTL

-----------------------------------------------------------------------------
(* Titles.                                                                 *)

Names(b, c) == b.op = "NAME" /\ b.id = c

\* Blocks s hold a title of channel c; x is the last one; x is the first one, if
\* no OPEN or LISTEN of the channel comes before it.
HasName(s, c) == \E i \in DOMAIN s : Names(s[i], c)

LastName(s, c, x) ==
  \E i \in DOMAIN s :
    /\ s[i] = x /\ Names(x, c)
    /\ \A j \in DOMAIN s : j > i => ~Names(s[j], c)

FirstAhead(s, c, x) ==
  \A i \in DOMAIN s :
    /\ Names(s[i], c)
    /\ \A j \in DOMAIN s : j < i => ~Names(s[j], c) /\ ~Opens(s[j], c)
    => s[i] = x

\* The titles of channel c.  The last on its way is the last written.  What was
\* postponed ends in the first that was written ahead of the OPEN, or that is
\* still to be read.  As long as the channel has no record, no title has gone;
\* and a window for which none is on its way or postponed has the right one.
Titled(c) ==
  /\ early[c] # NoTitle => latest[c] # NoTitle
  /\ c \notin sent /\ early[c] = NoTitle => latest[c] = NoTitle
  /\ \A b \in Elements(postponed[c]) : b.id = c
  /\ HasName(input, c) => LastName(input, c, latest[c])
  /\ HasName(postponed[c], c) => LastName(postponed[c], c, early[c])
  /\ received[c] = 0 =>
       /\ latest[c] # NoTitle => HasName(input, c) \/ HasName(postponed[c], c)
       /\ HasName(postponed[c], c) \/ FirstAhead(input, c, early[c])
  /\ \A r \in OnScreen : channel[r] = c =>
       \/ HasName(input, c)
       \/ HasName(postponed[c], c)
       \/ title[r] = latest[c]
       \/ early[c] # NoTitle /\ title[r] = early[c]

TitlesInv ==
  /\ early \in [Ids -> {NoTitle} \union Blocks]
  /\ latest \in [Ids -> {NoTitle} \union Blocks]
  /\ NoClash /\ life = "running" =>
       /\ \A c \in Ids : Titled(c)
       /\ \A r \in Records \ Allocated : title[r] = NoTitle

LEMMA NameAdded ==
  ASSUME NEW S, NEW s \in Seq(S), NEW e \in S, NEW c
  PROVE  /\ Names(e, c) => HasName(Append(s, e), c) /\ LastName(Append(s, e), c, e)
         /\ ~Names(e, c) =>
              /\ HasName(Append(s, e), c) <=> HasName(s, c)
              /\ \A x : LastName(s, c, x) => LastName(Append(s, e), c, x)
         /\ HasName(s, c) => HasName(Append(s, e), c)
         /\ \A x : /\ FirstAhead(s, c, x)
                   /\ Names(e, c) => \/ HasName(s, c)
                                     \/ \E i \in DOMAIN s : Opens(s[i], c)
                                     \/ e = x
              => FirstAhead(Append(s, e), c, x)
<1> DEFINE n == Len(s)
           t == Append(s, e)
<1>1. /\ n \in Nat /\ DOMAIN s = 1 .. n /\ DOMAIN t = 1 .. n + 1
      /\ \A i \in 1 .. n : t[i] = s[i] /\ i < n + 1
      /\ t[n + 1] = e
  OBVIOUS
<1> HIDE DEF n, t
<1>2. n + 1 \in DOMAIN t /\ \A i \in DOMAIN t : ~(i > n + 1) /\ (i \in DOMAIN s \/ i = n + 1)
  BY <1>1
<1>3. DOMAIN s \subseteq DOMAIN t /\ \A i \in DOMAIN s : t[i] = s[i] /\ i < n + 1
  BY <1>1
<1>4. Names(e, c) => HasName(t, c) /\ LastName(t, c, e)
  BY <1>1, <1>2 DEF HasName, LastName
<1>5. HasName(s, c) => HasName(t, c)
  BY <1>3 DEF HasName
<1>6. ASSUME ~Names(e, c)
      PROVE  /\ HasName(t, c) <=> HasName(s, c)
             /\ \A x : LastName(s, c, x) => LastName(t, c, x)
  <2>1. HasName(t, c) => HasName(s, c)
    BY <1>1, <1>2, <1>3, <1>6 DEF HasName
  <2>2. ASSUME NEW x, LastName(s, c, x) PROVE LastName(t, c, x)
    <3>1. PICK i \in DOMAIN s : /\ s[i] = x /\ Names(x, c)
                                /\ \A j \in DOMAIN s : j > i => ~Names(s[j], c)
      BY <2>2 DEF LastName
    <3>2. i \in DOMAIN t /\ t[i] = x
      BY <1>3, <3>1
    <3>3. \A j \in DOMAIN t : j > i => ~Names(t[j], c)
      BY <1>1, <1>2, <1>3, <1>6, <3>1
    <3> QED BY <3>1, <3>2, <3>3 DEF LastName
  <2> QED BY <1>5, <2>1, <2>2
<1>7. ASSUME NEW x, FirstAhead(s, c, x),
             Names(e, c) => \/ HasName(s, c)
                            \/ \E i \in DOMAIN s : Opens(s[i], c)
                            \/ e = x
      PROVE  FirstAhead(t, c, x)
  <2> SUFFICES ASSUME NEW i \in DOMAIN t, Names(t[i], c),
                      \A j \in DOMAIN t : j < i => ~Names(t[j], c) /\ ~Opens(t[j], c)
               PROVE  t[i] = x
    BY DEF FirstAhead
  <2>1. CASE i \in DOMAIN s
    BY <1>3, <1>7, <2>1 DEF FirstAhead
  <2>2. CASE i = n + 1
    BY <1>1, <1>3, <1>7, <2>2 DEF HasName
  <2> QED BY <1>2, <2>1, <2>2
<1> QED BY <1>4, <1>5, <1>6, <1>7 DEF t

LEMMA NamePopped ==
  ASSUME NEW S, NEW s \in Seq(S), s # <<>>, NEW c
  PROVE  /\ HasName(s, c) <=> Names(Head(s), c) \/ HasName(Tail(s), c)
         /\ \A x : LastName(s, c, x) =>
              IF HasName(Tail(s), c) THEN LastName(Tail(s), c, x) ELSE x = Head(s)
         /\ \A x : FirstAhead(s, c, x) =>
              IF Names(Head(s), c) THEN Head(s) = x
              ELSE Opens(Head(s), c) \/ FirstAhead(Tail(s), c, x)
<1> DEFINE n == Len(s)
<1>1. /\ n \in Nat /\ DOMAIN s = 1 .. n /\ 1 \in 1 .. n /\ Head(s) = s[1]
      /\ DOMAIN Tail(s) = 1 .. n - 1
      /\ \A i \in 1 .. n - 1 : Tail(s)[i] = s[i + 1]
  OBVIOUS
<1>2. PICK t, h : t = Tail(s) /\ h = Head(s)
  OBVIOUS
<1> HIDE DEF n
<1>3. 1 \in DOMAIN s /\ s[1] = h /\ \A i \in DOMAIN s : ~(i < 1)
  BY <1>1, <1>2
<1>4. \A i \in DOMAIN t : i + 1 \in DOMAIN s /\ t[i] = s[i + 1] /\ i + 1 > 1
  BY <1>1, <1>2
<1>5. \A i \in DOMAIN s : i = 1 \/ (i - 1 \in DOMAIN t /\ t[i - 1] = s[i] /\ (i - 1) + 1 = i)
  BY <1>1, <1>2
<1>6. \A i, j \in DOMAIN t : /\ (j > i => j + 1 > i + 1) /\ (j < i => j + 1 < i + 1)
  BY <1>1, <1>2
<1>7. HasName(s, c) <=> Names(h, c) \/ HasName(t, c)
  BY <1>3, <1>4, <1>5 DEF HasName
<1>8. ASSUME NEW x, LastName(s, c, x)
      PROVE  IF HasName(t, c) THEN LastName(t, c, x) ELSE x = h
  <2>1. PICK i \in DOMAIN s : /\ s[i] = x /\ Names(x, c)
                              /\ \A j \in DOMAIN s : j > i => ~Names(s[j], c)
    BY <1>8 DEF LastName
  <2>2. CASE i = 1
    <3>1. \A j \in DOMAIN t : ~Names(t[j], c)
      BY <1>4, <2>1, <2>2
    <3> QED BY <1>3, <2>1, <2>2, <3>1 DEF HasName
  <2>3. CASE i # 1
    <3>1. PICK k \in DOMAIN t : t[k] = x /\ k + 1 = i
      BY <1>5, <2>1, <2>3
    <3>2. \A j \in DOMAIN t : j > k => ~Names(t[j], c)
      BY <1>4, <1>6, <2>1, <3>1
    <3> QED BY <2>1, <3>1, <3>2 DEF HasName, LastName
  <2> QED BY <2>2, <2>3
<1>9. ASSUME NEW x, FirstAhead(s, c, x)
      PROVE  IF Names(h, c) THEN h = x ELSE Opens(h, c) \/ FirstAhead(t, c, x)
  <2>1. Names(h, c) => h = x
    BY <1>3, <1>9 DEF FirstAhead
  <2>2. ASSUME ~Names(h, c), ~Opens(h, c) PROVE FirstAhead(t, c, x)
    <3> SUFFICES ASSUME NEW i \in DOMAIN t, Names(t[i], c),
                        \A j \in DOMAIN t : j < i => ~Names(t[j], c) /\ ~Opens(t[j], c)
                 PROVE  t[i] = x
      BY DEF FirstAhead
    <3>1. PICK k \in DOMAIN s : k = i + 1 /\ s[k] = t[i]
      BY <1>4
    <3>2. ASSUME NEW j \in DOMAIN s, j < k PROVE ~Names(s[j], c) /\ ~Opens(s[j], c)
      <4>1. CASE j = 1
        BY <1>3, <2>2, <4>1
      <4>2. CASE j # 1
        <5>1. j - 1 \in DOMAIN t /\ t[j - 1] = s[j]
          BY <1>5, <4>2
        <5>2. j - 1 < i
          BY <1>1, <1>2, <3>1, <3>2
        <5> QED BY <5>1, <5>2
      <4> QED BY <4>1, <4>2
    <3>3. s[k] = x
      BY <1>9, <3>1, <3>2 DEF FirstAhead
    <3> QED BY <3>1, <3>3
  <2> QED BY <2>1, <2>2
<1> QED BY <1>2, <1>7, <1>8, <1>9

LEMMA NamePushed ==
  ASSUME NEW S, NEW s \in Seq(S), NEW e \in S, NEW c
  PROVE  /\ HasName(<<e>> \o s, c) <=> Names(e, c) \/ HasName(s, c)
         /\ \A x : LastName(s, c, x) => LastName(<<e>> \o s, c, x)
         /\ Names(e, c) /\ ~HasName(s, c) => LastName(<<e>> \o s, c, e)
<1> DEFINE n == Len(s)
           t == <<e>> \o s
<1>1. /\ n \in Nat /\ DOMAIN s = 1 .. n /\ DOMAIN t = 1 .. n + 1
      /\ t[1] = e /\ \A i \in 1 .. n : t[i + 1] = s[i]
  OBVIOUS
<1> HIDE DEF n, t
<1>2. \A i \in DOMAIN t : i = 1 \/ (i - 1 \in DOMAIN s /\ s[i - 1] = t[i])
  BY <1>1
<1>3. 1 \in DOMAIN t /\ \A i \in DOMAIN s : i + 1 \in DOMAIN t /\ t[i + 1] = s[i]
  BY <1>1
<1>4. HasName(t, c) <=> Names(e, c) \/ HasName(s, c)
  BY <1>1, <1>2, <1>3 DEF HasName
<1>5. ASSUME NEW x, LastName(s, c, x) PROVE LastName(t, c, x)
  <2>1. PICK i \in DOMAIN s : /\ s[i] = x /\ Names(x, c)
                              /\ \A j \in DOMAIN s : j > i => ~Names(s[j], c)
    BY <1>5 DEF LastName
  <2>2. ASSUME NEW j \in DOMAIN t, j > i + 1 PROVE ~Names(t[j], c)
    <3>1. j - 1 \in DOMAIN s /\ s[j - 1] = t[j] /\ j - 1 > i
      BY <1>1, <1>2, <2>2
    <3> QED BY <2>1, <3>1
  <2> QED BY <1>3, <2>1, <2>2 DEF LastName
<1>6. ASSUME Names(e, c), ~HasName(s, c) PROVE LastName(t, c, e)
  <2>1. \A j \in DOMAIN t : j > 1 => ~Names(t[j], c)
    BY <1>2, <1>6 DEF HasName
  <2> QED BY <1>1, <1>3, <1>6, <2>1 DEF LastName
<1> QED BY <1>4, <1>5, <1>6 DEF t

LEMMA NameInElements ==
  ASSUME NEW s, NEW c
  PROVE  /\ HasName(s, c) <=> \E b \in Elements(s) : Names(b, c)
         /\ \A x : LastName(s, c, x) => Names(x, c) /\ x # NoTitle
<1>1. HasName(s, c) <=> \E b \in Elements(s) : Names(b, c)
  BY DEF HasName, Elements
<1>2. \A x : LastName(s, c, x) => Names(x, c)
  BY DEF LastName
<1>3. \A x : Names(x, c) => x # NoTitle
  BY DEF Names, NoTitle
<1> QED BY <1>1, <1>2, <1>3

\* A window gets the last title of the blocks that are applied to it.
LEMMA RetitleNames ==
  ASSUME NEW r \in Records, NEW blocks \in Seq(Blocks), NEW c, Retitle(r, blocks),
         \A b \in Elements(blocks) : b.id = c,
         title \in [Records -> {NoTitle} \union Blocks]
  PROVE  /\ \A q \in Records \ {r} : title'[q] = title[q]
         /\ ~HasName(blocks, c) => UNCHANGED title
         /\ \A x : LastName(blocks, c, x) => title'[r] = x
<1> DEFINE names == {i \in DOMAIN blocks : blocks[i].op = "NAME"}
<1>1. \A i \in DOMAIN blocks : i \in names <=> Names(blocks[i], c)
  BY DEF Names, Elements
<1>2. CASE names = {} /\ UNCHANGED title
  BY <1>1, <1>2 DEF LastName
<1>3. ASSUME NEW last \in names, \A i \in names : i <= last,
             title' = [title EXCEPT ![r] = blocks[last]]
      PROVE  /\ \A q \in Records \ {r} : title'[q] = title[q]
             /\ HasName(blocks, c)
             /\ \A x : LastName(blocks, c, x) => title'[r] = x
  <2>1. /\ \A q \in Records \ {r} : title'[q] = title[q]
        /\ title'[r] = blocks[last]
    BY <1>3
  <2>2. HasName(blocks, c)
    BY <1>1 DEF HasName
  <2>3. ASSUME NEW x, LastName(blocks, c, x) PROVE blocks[last] = x
    <3>1. PICK i \in DOMAIN blocks :
            /\ blocks[i] = x /\ Names(x, c)
            /\ \A j \in DOMAIN blocks : j > i => ~Names(blocks[j], c)
      BY <2>3 DEF LastName
    <3>2. i \in names /\ i <= last
      BY <1>1, <1>3, <3>1
    <3>3. ~(last > i)
      BY <1>1, <3>1
    <3>4. i \in Int /\ last \in Int
      <4>1. DOMAIN blocks = 1 .. Len(blocks) /\ Len(blocks) \in Nat
        OBVIOUS
      <4> QED BY <4>1
    <3>5. i = last
      BY ONLY <3>2, <3>3, <3>4
    <3> QED BY <3>1, <3>5
  <2> QED BY <2>1, <2>2, <2>3
<1> QED BY <1>2, <1>3 DEF Retitle


-----------------------------------------------------------------------------
(* How the titles follow the steps.                                        *)

\* The record of a window is the one its channel has.
LEMMA WindowOfChannel ==
  ASSUME DisplayInv, NoClash, life = "running", NEW r \in OnScreen
  PROVE  /\ r \in Allocated /\ r \in Records /\ r # 0 /\ channel[r] \in Ids
         /\ received[channel[r]] = r
<1>1. Follows(Elements(input)) /\ RecordsInv
  BY DEF DisplayInv
<1>2. r \in Allocated /\ r \in Records /\ r # 0
  BY DEF OnScreen, Allocated, Records
<1>3. channel[r] \in {0} \union Ids /\ channel[r] # 0
  BY <1>1, <1>2 DEF RecordsInv, ClientTypeOK, Allocated
<1> QED BY <1>1, <1>2, <1>3 DEF Follows

\* Nothing that a title depends on has changed, but that a block that is none may
\* have been read, and that windows may have gone.
LEMMA TitledStill ==
  ASSUME NEW c \in Ids, Titled(c), input \in Seq(Blocks),
         UNCHANGED <<received, channel, title, postponed, sent, early, latest>>,
         OnScreen' \subseteq OnScreen,
         \/ UNCHANGED input
         \/ /\ input # <<>> /\ input' = Tail(input)
            /\ ~Names(Head(input), c) /\ ~Opens(Head(input), c)
  PROVE  Titled(c)'
<1>1. /\ HasName(input, c)' <=> HasName(input, c)
      /\ \A x : LastName(input, c, x) /\ HasName(input, c) => LastName(input', c, x)
      /\ \A x : FirstAhead(input, c, x) => FirstAhead(input', c, x)
  <2>1. CASE UNCHANGED input
    BY <2>1
  <2>2. CASE /\ input # <<>> /\ input' = Tail(input)
             /\ ~Names(Head(input), c) /\ ~Opens(Head(input), c)
    BY <2>2, NamePopped
  <2> QED BY <2>1, <2>2
<1>2. /\ HasName(input', c) => LastName(input', c, latest[c])
      /\ received[c] = 0 => HasName(postponed[c], c) \/ FirstAhead(input', c, early[c])
  BY <1>1 DEF Titled
<1> QED BY <1>1, <1>2 DEF Titled

\* The sending end writes a block that is no title of channel c.
LEMMA OtherWritten ==
  ASSUME NEW c \in Ids, Titled(c), input \in Seq(Blocks), NEW b \in Blocks, Write(b),
         ~Names(b, c), early'[c] = early[c], latest'[c] = latest[c],
         sent \subseteq sent'
  PROVE  Titled(c)'
<1>1. /\ UNCHANGED <<received, channel, audio, destroyed, title, postponed>>
      /\ input' = Append(input, b)
  BY DEF Write, tables, widgets
<1>2. OnScreen' = OnScreen
  BY <1>1 DEF OnScreen, Allocated
<1>3. /\ HasName(input', c) <=> HasName(input, c)
      /\ \A x : LastName(input, c, x) => LastName(input', c, x)
      /\ \A x : FirstAhead(input, c, x) => FirstAhead(input', c, x)
  BY <1>1, NameAdded
<1> QED BY <1>1, <1>2, <1>3 DEF Titled

\* It writes a title of channel c.
LEMMA TitleWritten ==
  ASSUME DisplayInv, NoClash, life = "running", NEW c \in Ids, Titled(c),
         NEW b \in Blocks, Write(b), Names(b, c),
         early \in [Ids -> {NoTitle} \union Blocks],
         latest \in [Ids -> {NoTitle} \union Blocks],
         latest' = [latest EXCEPT ![c] = b],
         early' = IF c \notin sent /\ early[c] = NoTitle
                  THEN [early EXCEPT ![c] = b] ELSE early,
         c \notin listened, UNCHANGED sent
  PROVE  Titled(c)'
<1>1. /\ UNCHANGED <<received, channel, audio, destroyed, title, postponed>>
      /\ input' = Append(input, b) /\ input \in Seq(Blocks)
  BY DEF Write, tables, widgets, DisplayInv, SenderInv
<1>2. b # NoTitle /\ latest'[c] = b
  BY DEF Names, NoTitle
<1>3. /\ HasName(input', c) /\ LastName(input', c, b)
      /\ \A x : /\ FirstAhead(input, c, x)
                /\ \/ HasName(input, c)
                   \/ \E i \in DOMAIN input : Opens(input[i], c)
                   \/ b = x
           => FirstAhead(input', c, x)
  BY <1>1, NameAdded
<1>4. /\ early'[c] = IF c \notin sent /\ early[c] = NoTitle THEN b ELSE early[c]
  OBVIOUS
<1>5. HasName(postponed[c], c) => LastName(postponed[c], c, early[c]) /\ early[c] # NoTitle
  BY NameInElements DEF Titled
<1>6. HasName(postponed[c], c) => LastName(postponed[c], c, early'[c])
  BY <1>4, <1>5
<1>7. ASSUME received[c] = 0, ~HasName(postponed[c], c)
      PROVE  FirstAhead(input', c, early'[c])
  <2>1. FirstAhead(input, c, early[c])
    BY <1>7 DEF Titled
  <2>2. CASE c \in sent
    <3>1. \E a \in Elements(input) : Opens(a, c)
      BY <1>7, <2>2 DEF DisplayInv, Follows
    <3>2. \E i \in DOMAIN input : Opens(input[i], c)
      BY <3>1 DEF Elements
    <3> QED BY <1>3, <1>4, <2>1, <2>2, <3>2
  <2>3. CASE c \notin sent /\ early[c] # NoTitle
    <3>1. HasName(input, c)
      BY <1>7, <2>3 DEF Titled
    <3> QED BY <1>3, <1>4, <2>1, <2>3, <3>1
  <2>4. CASE c \notin sent /\ early[c] = NoTitle
    <3>1. ~HasName(input, c)
      BY <2>4, NameInElements DEF Titled
    <3>2. FirstAhead(input, c, b)
      BY <3>1 DEF HasName, FirstAhead
    <3> QED BY <1>3, <1>4, <2>4, <3>2
  <2> QED BY <2>2, <2>3, <2>4
<1> QED BY <1>1, <1>2, <1>3, <1>4, <1>6, <1>7 DEF Titled

LEMMA SenderTitles ==
  ASSUME FewIds, DisplayInv, TitlesInv, life = "running", Sender
  PROVE  TitlesInv'
<1>0. input \in Seq(Blocks) /\ (NoClash => \A c \in Ids : Titled(c))
      /\ (NoClash => \A r \in Records \ Allocated : title[r] = NoTitle)
  BY DEF DisplayInv, SenderInv, TitlesInv
<1>1. ASSUME NEW b \in Blocks, Write(b), b.op # "NAME", UNCHANGED titleHistory,
             sent \subseteq sent'
      PROVE  TitlesInv'
  <2>1. UNCHANGED <<early, latest, channel, fd, title, life>>
    BY <1>1 DEF Write, tables, titleHistory
  <2>2. ASSUME NoClash, NEW c \in Ids PROVE Titled(c)'
    BY <1>0, <1>1, <2>1, <2>2, OtherWritten DEF Names
  <2>3. Allocated' = Allocated /\ NoClash' = NoClash
    BY <2>1 DEF Allocated, NoClash
  <2> QED BY <1>0, <2>1, <2>2, <2>3 DEF TitlesInv
<1>2. ASSUME NEW c \in Ids, NEW t \in Titles,
             DescribeTitle(c, [op |-> "NAME", id |-> c, title |-> t])
      PROVE  TitlesInv'
  <2>1. PICK b \in Blocks : b = [op |-> "NAME", id |-> c, title |-> t]
    BY WrittenBlocks
  <2>2. Names(b, c) /\ \A d \in Ids \ {c} : ~Names(b, d)
    BY <2>1 DEF Names
  <2>3. /\ Write(b) /\ UNCHANGED <<sent, listened>> /\ c \notin listened
        /\ latest' = [latest EXCEPT ![c] = b]
        /\ early' = IF c \notin sent /\ early[c] = NoTitle
                    THEN [early EXCEPT ![c] = b] ELSE early
    BY <1>2, <2>1 DEF DescribeTitle, Describe, channelHistory
  <2>4. UNCHANGED <<channel, fd, title, life>>
    BY <2>3 DEF Write, tables
  <2>5. /\ early \in [Ids -> {NoTitle} \union Blocks]
        /\ latest \in [Ids -> {NoTitle} \union Blocks]
    BY DEF TitlesInv
  <2>6. /\ early' \in [Ids -> {NoTitle} \union Blocks]
        /\ latest' \in [Ids -> {NoTitle} \union Blocks]
        /\ \A d \in Ids \ {c} : early'[d] = early[d] /\ latest'[d] = latest[d]
    BY <2>3, <2>5
  <2>7. ASSUME NoClash, NEW d \in Ids PROVE Titled(d)'
    <3>1. CASE d = c
      <4>1. Titled(c)
        BY <1>0, <2>7
      <4>2. Titled(c)'
        BY <2>2, <2>3, <2>5, <2>7, <4>1, TitleWritten
      <4> QED BY <3>1, <4>2
    <3>2. CASE d # c
      BY <1>0, <2>2, <2>3, <2>6, <2>7, <3>2, OtherWritten
    <3> QED BY <3>1, <3>2
  <2>8. Allocated' = Allocated /\ NoClash' = NoClash
    BY <2>4 DEF Allocated, NoClash
  <2> QED BY <1>0, <2>4, <2>6, <2>7, <2>8 DEF TitlesInv
<1>3. ASSUME NEW c \in Ids, \/ Offer(c) \/ OfferSound(c) \/ Withdraw(c) \/ Point(c)
                            \/ DescribeType(c)
      PROVE  TitlesInv'
  <2>1. PICK b \in Blocks : /\ b.op \in {"OPEN", "LISTEN", "CLOSE", "MOUSE", "TYPE"}
                            /\ Write(b) /\ UNCHANGED titleHistory /\ sent \subseteq sent'
    <3>1. \A op \in {"OPEN", "CLOSE", "TYPE", "MOUSE", "LISTEN"} :
              About(op, c) \in Blocks /\ About(op, c).op = op
      BY WrittenBlocks
    <3> QED BY <1>3, <3>1 DEF Offer, OfferSound, Withdraw, Point, DescribeType, Describe,
               history, channelHistory
  <2> QED BY <1>1, <2>1
<1>4. ASSUME NEW c \in Ids, Stream(c) PROVE TitlesInv'
  <2>1. PICK w \in Windows : Write(Rfb(c, w))
    BY <1>4 DEF Stream
  <2>2. PICK b \in Blocks : b = Rfb(c, w) /\ b.op = "RFB"
    BY WrittenBlocks
  <2> QED BY <1>1, <1>4, <2>1, <2>2 DEF Stream, history, channelHistory
<1>5. CASE PointAway
  <2>1. Hide \in Blocks /\ Hide.op = "HIDE"
    BY DEF Blocks, Hide
  <2>2. PICK b \in Blocks : b = Hide /\ b.op = "HIDE"
    BY <2>1
  <2> QED BY <1>1, <1>5, <2>2 DEF PointAway, history, channelHistory
<1>6. CASE ReadsAnswer
  <2>1. UNCHANGED <<input, received, channel, fd, audio, destroyed, title, postponed,
                    life, sent, early, latest>>
    BY <1>6 DEF ReadsAnswer, tables, widgets, history, channelHistory, titleHistory
  <2>2. Allocated' = Allocated /\ OnScreen' = OnScreen /\ NoClash' = NoClash
    BY <2>1 DEF Allocated, OnScreen, NoClash
  <2>3. ASSUME NoClash, NEW c \in Ids PROVE Titled(c)'
    BY <1>0, <2>1, <2>2, <2>3, TitledStill
  <2> QED BY <1>0, <2>1, <2>2, <2>3 DEF TitlesInv
<1> QED BY <1>2, <1>3, <1>4, <1>5, <1>6, OrderlySenderAssumption DEF Sender


\* An OPEN or a LISTEN makes a record: its window, if it has one, has no title,
\* and unless one is on its way or postponed none was written.
LEMMA TitledOpened ==
  ASSUME DisplayInv, NoClash, life = "running", TitlesInv, NEW b \in Blocks,
         input # <<>>, b = Head(input), input' = Tail(input),
         b.op \in {"OPEN", "LISTEN"}, NewRecord(b.id), audio \subseteq audio',
         b.op = "LISTEN" => Cardinality(Allocated) + 1 \in audio',
         UNCHANGED <<destroyed, title, postponed, sent, early, latest>>
  PROVE  /\ \A c \in Ids : Titled(c)'
         /\ \A r \in Records \ Allocated' : title'[r] = NoTitle
<1>1. PICK r : r = Cardinality(Allocated) + 1
  OBVIOUS
<1>2. PICK c \in Ids : c = b.id
  BY BlockFacts
<1>3. RecordsInv /\ input \in Seq(Blocks) /\ Follows(Elements(input))
  BY DEF DisplayInv, SenderInv
<1>4. b \in Elements(input)
  BY <1>3, Popped
<1>5. received[c] = 0
  BY <1>2, <1>3, <1>4 DEF Follows, Opens
<1>6. /\ r \in Records \ Allocated /\ Allocated' = Allocated \union {r}
      /\ received'[c] = r /\ channel'[r] = c /\ r # 0
      /\ \A d \in Ids \ {c} : received'[d] = received[d]
      /\ \A q \in Records \ {r} : channel'[q] = channel[q]
  BY <1>1, <1>2, <1>3, NewRecordKeeps DEF Records
<1>7. OnScreen' \subseteq OnScreen \union {r}
  BY <1>6 DEF OnScreen
<1>8. \A q \in OnScreen : q \in Records \ {r} /\ channel[q] # c /\ channel'[q] = channel[q]
  BY <1>5, <1>6, WindowOfChannel
<1>9. title[r] = NoTitle /\ \A q \in Records \ Allocated' : title'[q] = NoTitle
  BY <1>6 DEF TitlesInv
<1>10. \A d \in Ids : ~Names(b, d) /\ Titled(d)
  BY DEF Names, TitlesInv
<1>11. ASSUME NEW d \in Ids
       PROVE  /\ HasName(input', d) <=> HasName(input, d)
              /\ HasName(input', d) => LastName(input', d, latest[d])
  <2>1. HasName(input, d) => LastName(input, d, latest[d])
    BY <1>10 DEF Titled
  <2> QED BY <1>3, <1>10, <2>1, NamePopped
<1>12. ASSUME NEW d \in Ids PROVE Titled(d)'
  <2>1. CASE d = c
    <3>1. \/ HasName(input', c) \/ HasName(postponed[c], c) \/ title[r] = latest[c]
      BY <1>5, <1>9, <1>10, <1>11 DEF Titled
    <3>2. \A q \in OnScreen' : channel'[q] = c => q = r
      BY <1>7, <1>8
    <3> QED BY <1>6, <1>10, <1>11, <2>1, <3>1, <3>2 DEF Titled
  <2>2. CASE d # c
    <3>1. ~Opens(b, d)
      BY <1>2, <2>2 DEF Opens
    <3>2. \A x : FirstAhead(input, d, x) => FirstAhead(input', d, x)
      BY <1>3, <1>10, <3>1, NamePopped
    <3>3. \A q \in OnScreen' : channel'[q] = d => q \in OnScreen /\ channel[q] = d
      BY <1>6, <1>7, <1>8, <2>2
    <3>4. received'[d] = received[d]
      BY <1>6, <2>2
    <3> QED BY <1>10, <1>11, <3>2, <3>3, <3>4 DEF Titled
  <2> QED BY <2>1, <2>2
<1> QED BY <1>9, <1>12

\* Metadata of a channel without a record is put off.
LEMMA TitledPostponed ==
  ASSUME RecordsInv, NEW b \in Blocks, NEW d \in Ids, Titled(d), NEW c \in Ids, c = b.id,
         input \in Seq(Blocks), input # <<>>, b = Head(input), input' = Tail(input),
         b.op \in {"NAME", "TYPE"}, received[c] = 0, \A r \in OnScreen : channel[r] # c,
         postponed' = [postponed EXCEPT ![c] = <<b>> \o postponed[c]],
         UNCHANGED <<received, channel, audio, destroyed, title, sent, early, latest>>
  PROVE  Titled(d)'
<1>1. OnScreen' = OnScreen
  BY DEF OnScreen, Allocated
<1>2. postponed \in [Ids -> Seq(Blocks)]
  BY DEF RecordsInv
<1>3. ~Opens(b, d) /\ (Names(b, d) => d = c)
  BY DEF Opens, Names
<1>4. /\ HasName(input, d) <=> Names(b, d) \/ HasName(input', d)
      /\ HasName(input', d) => LastName(input', d, latest[d])
  <2>1. HasName(input, d) => LastName(input, d, latest[d])
    BY DEF Titled
  <2> QED BY <2>1, NamePopped
<1>5. CASE d # c
  <2>1. postponed'[d] = postponed[d]
    BY <1>2, <1>5
  <2>2. \A x : FirstAhead(input, d, x) => FirstAhead(input', d, x)
    BY <1>3, <1>5, NamePopped
  <2> QED BY <1>1, <1>3, <1>4, <1>5, <2>1, <2>2 DEF Titled
<1>6. CASE d = c
  <2>1. PICK s \in Seq(Blocks) : s = postponed[c]
    BY <1>2
  <2>2. postponed'[c] = <<b>> \o s
    BY <1>2, <2>1
  <2>3. /\ HasName(postponed'[c], c) <=> Names(b, c) \/ HasName(s, c)
        /\ \A x : LastName(s, c, x) => LastName(postponed'[c], c, x)
        /\ Names(b, c) /\ ~HasName(s, c) => LastName(postponed'[c], c, b)
    <3>1. /\ HasName(<<b>> \o s, c) <=> Names(b, c) \/ HasName(s, c)
          /\ \A x : LastName(s, c, x) => LastName(<<b>> \o s, c, x)
          /\ Names(b, c) /\ ~HasName(s, c) => LastName(<<b>> \o s, c, b)
      BY NamePushed
    <3> QED BY ONLY <2>2, <3>1
  <2>4. Elements(postponed'[c]) = {b} \union Elements(s)
    BY <2>2, Pushed
  <2>5. /\ HasName(s, c) => LastName(s, c, early[c])
        /\ HasName(s, c) \/ FirstAhead(input, c, early[c])
    BY <1>6, <2>1 DEF Titled
  <2>6. HasName(s, c) \/ (IF Names(b, c) THEN b = early[c]
                          ELSE FirstAhead(input', c, early[c]))
    BY <1>3, <1>6, <2>5, NamePopped
  <2>7. HasName(postponed'[c], c) => LastName(postponed'[c], c, early[c])
    BY <2>3, <2>5, <2>6
  <2>8. HasName(postponed'[c], c) \/ FirstAhead(input', c, early[c])
    BY <2>3, <2>6
  <2>9. \A a \in Elements(postponed'[c]) : a.id = c
    BY <1>6, <2>1, <2>4 DEF Titled
  <2> QED BY <1>1, <1>4, <1>6, <2>1, <2>3, <2>7, <2>8, <2>9 DEF Titled
<1> QED BY <1>5, <1>6

\* Metadata of a channel with a window is applied.
LEMMA TitledApplied ==
  ASSUME RecordsInv, NEW b \in Blocks, NEW d \in Ids, Titled(d), NEW c \in Ids, c = b.id,
         input \in Seq(Blocks), input # <<>>, b = Head(input), input' = Tail(input),
         b.op \in {"NAME", "TYPE"}, NEW r \in OnScreen, received[c] = r, channel[r] = c,
         \A q \in OnScreen : channel[q] = c => q = r, Retitle(r, <<b>>),
         UNCHANGED <<received, channel, audio, destroyed, postponed, sent, early, latest>>
  PROVE  Titled(d)'
<1>1. OnScreen' = OnScreen /\ r \in Records /\ r # 0 /\ \A q \in OnScreen : q \in Records
  BY DEF OnScreen, Allocated, Records
<1>2. title \in [Records -> {NoTitle} \union Blocks]
  BY DEF RecordsInv
<1>3. ~Opens(b, d) /\ (Names(b, d) => d = c)
  BY DEF Opens, Names
<1>4. PICK s \in Seq(Blocks) : /\ s = <<b>> /\ Elements(s) = {b}
                               /\ DOMAIN s = {1} /\ s[1] = b
  BY OneElement
<1>5. /\ \A q \in Records \ {r} : title'[q] = title[q]
      /\ ~HasName(s, c) => UNCHANGED title
      /\ \A x : LastName(s, c, x) => title'[r] = x
  BY <1>1, <1>2, <1>4, RetitleNames
<1>6. /\ HasName(s, c) <=> Names(b, c)
      /\ Names(b, c) => LastName(s, c, b)
  BY <1>4 DEF HasName, LastName
<1>7. IF Names(b, c) THEN title'[r] = b ELSE UNCHANGED title
  BY <1>5, <1>6
<1>8. /\ HasName(input, d) <=> Names(b, d) \/ HasName(input', d)
      /\ HasName(input', d) => LastName(input', d, latest[d])
      /\ Names(b, d) /\ ~HasName(input', d) => b = latest[d]
  <2>1. HasName(input, d) => LastName(input, d, latest[d])
    BY DEF Titled
  <2> QED BY <2>1, NamePopped
<1>9. received[d] = 0 => HasName(postponed[d], d) \/ FirstAhead(input', d, early[d])
  <2> SUFFICES ASSUME received[d] = 0, ~HasName(postponed[d], d)
               PROVE  FirstAhead(input', d, early[d])
    OBVIOUS
  <2>1. d # c
    BY <1>1
  <2>2. FirstAhead(input, d, early[d])
    BY DEF Titled
  <2> QED BY <1>3, <2>1, <2>2, NamePopped
<1>10. \A q \in OnScreen : channel[q] = d =>
         \/ HasName(input', d)
         \/ HasName(postponed[d], d)
         \/ title'[q] = latest[d]
         \/ early[d] # NoTitle /\ title'[q] = early[d]
  <2> SUFFICES ASSUME NEW q \in OnScreen, channel[q] = d, ~HasName(input', d),
                      ~HasName(postponed[d], d)
               PROVE  \/ title'[q] = latest[d]
                      \/ early[d] # NoTitle /\ title'[q] = early[d]
    OBVIOUS
  <2>1. CASE Names(b, d)
    <3>1. d = c /\ q = r /\ title'[r] = b
      BY <1>3, <1>7, <2>1
    <3> QED BY <1>8, <2>1, <3>1
  <2>2. CASE ~Names(b, d)
    <3>1. title'[q] = title[q]
      BY <1>1, <1>5, <1>7, <2>2
    <3> QED BY <1>8, <2>2, <3>1 DEF Titled
  <2> QED BY <2>1, <2>2
<1>11. received[d] = 0 /\ latest[d] # NoTitle => HasName(input', d) \/ HasName(postponed[d], d)
  BY <1>1, <1>3, <1>8 DEF Titled
<1> QED BY <1>1, <1>8, <1>9, <1>10, <1>11 DEF Titled

\* What was postponed for a channel is applied when its window is first exposed.
LEMMA TitledExposed ==
  ASSUME DisplayInv, NoClash, life = "running", NEW r \in Records, NEW d \in Ids,
         Titled(d), ExposedWindow(r), life' = "running", UNCHANGED <<sent, early, latest>>
  PROVE  Titled(d)' /\ \A q \in Records \ Allocated : title'[q] = title[q]
<1>1. PICK c \in Ids : c = channel[r] /\ received[c] = r /\ r \in OnScreen /\ r # 0
  BY WindowOfChannel DEF ExposedWindow
<1>2. /\ UNCHANGED <<input, received, channel, audio, destroyed>>
      /\ postponed' = [postponed EXCEPT ![c] = <<>>]
      /\ Retitle(r, postponed[c]) \/ UNCHANGED title
      /\ r \notin audio \union destroyed \union {0} => Retitle(r, postponed[c])
  BY <1>1 DEF ExposedWindow, tables, widgets
<1>3. Retitle(r, postponed[c]) /\ r \in Allocated
  BY <1>1, <1>2 DEF OnScreen
<1>4. OnScreen' = OnScreen /\ \A q \in OnScreen : q \in Records
  BY <1>2 DEF OnScreen, Allocated
<1>5. /\ postponed \in [Ids -> Seq(Blocks)] /\ title \in [Records -> {NoTitle} \union Blocks]
  BY DEF DisplayInv, RecordsInv
<1>6. \A q \in OnScreen : channel[q] = c => q = r
  BY <1>1, WindowOfChannel
<1>7. CASE d # c
  <2>1. postponed'[d] = postponed[d]
    BY <1>2, <1>5, <1>7
  <2>2. \A q \in Records \ {r} : title'[q] = title[q]
    BY <1>3, <1>5 DEF Retitle
  <2>3. \A q \in OnScreen : channel[q] = d => q \in Records \ {r}
    BY <1>1, <1>4, <1>7
  <2> QED BY <1>2, <1>3, <1>4, <2>1, <2>2, <2>3 DEF Titled
<1>8. CASE d = c
  <2>1. PICK s \in Seq(Blocks) : s = postponed[c]
    BY <1>5
  <2>2. \A b \in Elements(s) : b.id = c
    BY <1>8, <2>1 DEF Titled
  <2>3. /\ \A q \in Records \ {r} : title'[q] = title[q]
        /\ ~HasName(s, c) => UNCHANGED title
        /\ \A x : LastName(s, c, x) => title'[r] = x
    BY <1>3, <1>5, <2>1, <2>2, RetitleNames
  <2>4. HasName(s, c) => early[c] # NoTitle /\ title'[r] = early[c]
    BY <1>8, <2>1, <2>3, NameInElements DEF Titled
  <2>5. postponed'[c] = <<>> /\ ~HasName(postponed'[c], c) /\ Elements(postponed'[c]) = {}
    <3>1. postponed'[c] = <<>>
      BY <1>2, <1>5
    <3> QED BY <3>1, NothingYet, NameInElements
  <2>6. received'[c] # 0
    BY <1>1, <1>2
  <2>7. HasName(input, c) \/ title'[r] = latest[c] \/ (early[c] # NoTitle /\ title'[r] = early[c])
    BY <1>1, <1>8, <2>1, <2>3, <2>4 DEF Titled
  <2> QED BY <1>1, <1>2, <1>3, <1>4, <1>6, <1>8, <2>3, <2>5, <2>6, <2>7 DEF Titled
<1> QED BY <1>7, <1>8


\* The descriptor of a record is no channel's number: only its own record goes.
LEMMA RemovesNothing ==
  ASSUME RecordsInv, NoClash, NEW r \in Allocated
  PROVE  RemovedRecord(r) = received
<1>1. r # 0 /\ fd[r] \notin Ids
  BY DEF Allocated, Records, NoClash
<1>2. received = [c \in Ids |-> received[c]]
  BY DEF RecordsInv, ClientTypeOK
<1> QED BY <1>1, <1>2 DEF RemovedRecord

LEMMA ReadTitles ==
  ASSUME DisplayInv, TitlesInv, NoClash, life = "running", life' = "running",
         CheckForFdInput, UNCHANGED history
  PROVE  /\ \A d \in Ids : Titled(d)'
         /\ \A r \in Records \ Allocated' : title'[r] = NoTitle
<1>1. /\ RecordsInv /\ input # <<>> /\ input' = Tail(input) /\ input \in Seq(Blocks)
      /\ UNCHANGED <<sent, early, latest>> /\ Follows(Elements(input))
  BY DEF DisplayInv, SenderInv, CheckForFdInput, history, channelHistory, titleHistory
<1>2. PICK b \in Blocks : b = Head(input) /\ b \in Elements(input)
  BY <1>1, Popped
<1>3. HandleXzibitMessage(b) /\ (b.op # "HIDE" => b.id \in Ids)
  <2>1. b.op # "EMPTY" /\ (b.op # "HIDE" => b.id \in Ids)
    BY BlockFacts
  <2> QED BY <1>2, <2>1 DEF CheckForFdInput
<1>4. /\ \A d \in Ids : Titled(d)
      /\ \A r \in Records \ Allocated : title[r] = NoTitle
  BY DEF TitlesInv
<1>5. ASSUME UNCHANGED <<received, channel, title, postponed>>, OnScreen' \subseteq OnScreen,
             b.op \notin {"NAME", "OPEN", "LISTEN"}
      PROVE  /\ \A d \in Ids : Titled(d)'
             /\ \A r \in Records \ Allocated' : title'[r] = NoTitle
  <2>1. ASSUME NEW d \in Ids PROVE Titled(d)'
    <3>1. ~Names(b, d) /\ ~Opens(b, d)
      BY <1>5 DEF Names, Opens
    <3> QED BY <1>1, <1>2, <1>4, <1>5, <3>1, TitledStill
  <2>2. Allocated' = Allocated
    BY <1>5 DEF Allocated
  <2> QED BY <1>4, <1>5, <2>1, <2>2
<1>6. CASE b.op = "OPEN" /\ OpenNewChannel(b.id)
  <2>1. received[b.id] = 0
    BY <1>1, <1>2, <1>3, <1>6 DEF Follows, Opens
  <2>2. NewRecord(b.id) /\ UNCHANGED <<audio, destroyed, title, postponed>>
    BY <1>6, <2>1 DEF OpenNewChannel
  <2> QED BY <1>1, <1>2, <1>6, <2>2, TitledOpened
<1>7. CASE b.op = "LISTEN" /\ Listen(b.id)
  <2>1. /\ NewRecord(b.id) /\ audio' = audio \union {Cardinality(Allocated) + 1}
        /\ UNCHANGED <<destroyed, title, postponed>>
    BY <1>7 DEF Listen, widgets
  <2> QED BY <1>1, <1>2, <1>7, <2>1, TitledOpened
<1>8. CASE b.op = "CLOSE" /\ CloseChannel(b.id)
  <2>1. UNCHANGED <<received, channel, title, postponed>> /\ OnScreen' \subseteq OnScreen
    <3>1. UNCHANGED <<channel, audio, title, postponed>> /\ destroyed \subseteq destroyed'
      BY <1>8 DEF CloseChannel, Ignored, Dies, tables, widgets
    <3>2. UNCHANGED received
      <4>1. received[b.id] # 0 => RemovedRecord(received[b.id]) = received
        BY <1>1, <1>3, <1>8, Received, RemovesNothing
      <4> QED BY <1>8, <4>1 DEF CloseChannel, Ignored, Dies, tables
    <3> QED BY <3>1, <3>2 DEF OnScreen, Allocated
  <2> QED BY <1>5, <1>8, <2>1
<1>9. CASE b.op \in {"NAME", "TYPE"} /\ ApplyMetadata(b.id, b)
  <2>1. PICK c \in Ids : c = b.id
    BY <1>3, <1>9
  <2>2. CASE received[c] = 0
    <3>1. /\ postponed' = [postponed EXCEPT ![c] = <<b>> \o postponed[c]]
          /\ UNCHANGED <<received, channel, audio, destroyed, title>>
      BY <1>9, <2>1, <2>2 DEF ApplyMetadata, tables, widgets
    <3>2. \A r \in OnScreen : channel[r] # c
      BY <2>2, WindowOfChannel
    <3>3. Allocated' = Allocated
      BY <3>1 DEF Allocated
    <3> QED BY <1>1, <1>2, <1>4, <1>9, <2>1, <2>2, <3>1, <3>2, <3>3, TitledPostponed
  <2>3. CASE received[c] # 0 /\ received[c] \in OnScreen
             /\ Retitle(received[c], <<b>>)
             /\ UNCHANGED <<output, tables, widgets, postponed, life>>
    <3>1. PICK r \in OnScreen : r = received[c] /\ channel[r] = c
      BY <1>1, <2>3, Received
    <3>2. UNCHANGED <<received, channel, audio, destroyed, postponed>> /\ Retitle(r, <<b>>)
      BY <2>3, <3>1 DEF tables, widgets
    <3>3. \A q \in OnScreen : channel[q] = c => q = r
      BY <3>1, WindowOfChannel
    <3>4. ASSUME NEW d \in Ids PROVE Titled(d)'
      BY <1>1, <1>2, <1>4, <1>9, <2>1, <3>1, <3>2, <3>3, TitledApplied
    <3>5. \A q \in Records \ Allocated : title'[q] = title[q]
      <4>1. r \in Allocated /\ title \in [Records -> {NoTitle} \union Blocks]
        BY <1>1, <3>1 DEF OnScreen, RecordsInv
      <4> QED BY <3>2, <4>1 DEF Retitle
    <3>6. Allocated' = Allocated
      BY <3>2 DEF Allocated
    <3> QED BY <1>4, <3>4, <3>5, <3>6
  <2>4. CASE received[c] # 0 /\ received[c] \notin OnScreen /\ Ignored
    <3>1. /\ UNCHANGED <<received, channel, audio, destroyed, title, postponed>>
      BY <2>4 DEF Ignored, tables, widgets
    <3>2. Allocated' = Allocated /\ OnScreen' = OnScreen
      BY <3>1 DEF OnScreen, Allocated
    <3>3. received[c] \in Allocated /\ channel[received[c]] = c
      BY <1>1, <2>4, Received
    <3>4. \A q \in OnScreen : channel[q] # c
      BY <2>4, WindowOfChannel
    <3>5. ASSUME NEW d \in Ids PROVE Titled(d)'
      <4>1. ~Opens(b, d) /\ (Names(b, d) => d = c)
        BY <1>9, <2>1 DEF Opens, Names
      <4>2. CASE d # c
        BY <1>1, <1>2, <1>4, <3>1, <3>2, <4>1, <4>2, TitledStill
      <4>3. CASE d = c
        <5>1. /\ HasName(input', c) => LastName(input', c, latest[c])
          <6>1. HasName(input, c) => LastName(input, c, latest[c])
            BY <1>4 DEF Titled
          <6> QED BY <1>1, <6>1, NamePopped
        <5> QED BY <1>1, <1>4, <2>4, <3>1, <3>2, <3>4, <4>3, <5>1 DEF Titled
      <4> QED BY <4>2, <4>3
    <3> QED BY <1>4, <3>1, <3>2, <3>5
  <2> QED BY <1>9, <2>1, <2>2, <2>3, <2>4
          DEF ApplyMetadata, ApplyMetadataNow, UsesFreed, Dies, OnScreen
<1>10. CASE b.op = "MOUSE" /\ MovePointerTo(b.id)
  <2>1. UNCHANGED <<received, channel, audio, destroyed, title, postponed>>
    BY <1>10 DEF MovePointerTo, UsesFreed, Ignored, Dies, tables, widgets
  <2> QED BY <1>5, <1>10, <2>1 DEF OnScreen, Allocated
<1>11. CASE b.op = "RFB" /\ HandleStream(b.id)
  <2>1. UNCHANGED <<received, channel, audio, destroyed, title, postponed>>
    BY <1>11 DEF HandleStream, Ignored, Dies, tables, widgets
  <2> QED BY <1>5, <1>11, <2>1 DEF OnScreen, Allocated
<1>12. CASE b.op \in {"HIDE", "AVATAR"} /\ Ignored
  <2>1. UNCHANGED <<received, channel, audio, destroyed, title, postponed>>
    BY <1>12 DEF Ignored, tables, widgets
  <2> QED BY <1>5, <1>12, <2>1 DEF OnScreen, Allocated
<1> QED BY <1>3, <1>6, <1>7, <1>8, <1>9, <1>10, <1>11, <1>12 DEF HandleXzibitMessage

LEMMA TitlesStep ==
  ASSUME FewIds, DisplayInv, TitlesInv, [OrderlyNext]_allVars
  PROVE  TitlesInv'
<1>1. CASE Sender /\ life = "running"
  BY <1>1, SenderTitles
<1>2. ASSUME UNCHANGED <<early, latest>>, NoClash' /\ life' = "running" =>
               /\ \A c \in Ids : Titled(c)'
               /\ \A r \in Records \ Allocated' : title'[r] = NoTitle
      PROVE  TitlesInv'
  BY <1>2 DEF TitlesInv
<1>3. CASE life = "running" /\ CheckForFdInput /\ UNCHANGED history
  <2>1. UNCHANGED <<early, latest>>
    BY <1>3 DEF history, titleHistory
  <2>2. NoClash' => NoClash
    <3>1. Head(input) \in Blocks /\ RecordsInv
      BY <1>3, Popped DEF DisplayInv, SenderInv, CheckForFdInput
    <3>2. HandleXzibitMessage(Head(input))
      <4>1. Head(input).op # "EMPTY"
        BY <3>1, BlockFacts
      <4> QED BY <1>3, <4>1 DEF CheckForFdInput
    <3> QED BY <3>1, <3>2, ClashStays
  <2>3. CASE NoClash' /\ life' = "running"
    BY <1>2, <1>3, <2>1, <2>2, <2>3, ReadTitles
  <2>4. CASE ~(NoClash' /\ life' = "running")
    BY <1>2, <2>1, <2>4
  <2> QED BY <2>3, <2>4
<1>4. ASSUME life = "running", UNCHANGED history, NEW r \in Records, ExposedWindow(r)
      PROVE  TitlesInv'
  <2>1. UNCHANGED <<early, latest, sent, channel, fd>>
    BY <1>4 DEF history, channelHistory, titleHistory, ExposedWindow, tables
  <2>2. NoClash' = NoClash /\ Allocated' = Allocated
    BY <2>1 DEF NoClash, Allocated
  <2>3. CASE NoClash' /\ life' = "running"
    <3>1. ASSUME NEW c \in Ids
          PROVE  Titled(c)' /\ \A q \in Records \ Allocated : title'[q] = title[q]
      BY <1>4, <2>1, <2>2, <2>3, <3>1, TitledExposed DEF TitlesInv
    <3>2. Ids # {}
      BY ProtocolAssumption DEF Ids
    <3>3. \A q \in Records \ Allocated : title'[q] = NoTitle
      BY <1>4, <2>2, <2>3, <3>1, <3>2 DEF TitlesInv
    <3> QED BY <1>2, <2>1, <2>2, <3>1, <3>3
  <2> QED BY <1>2, <2>1, <2>3
<1>5. ASSUME UNCHANGED <<input, received, channel, fd, audio, title, postponed, sent,
                         early, latest>>,
             destroyed \subseteq destroyed', life' = "running" => life = "running"
      PROVE  TitlesInv'
  <2>1. /\ Allocated' = Allocated /\ OnScreen' \subseteq OnScreen /\ NoClash' = NoClash
        /\ input \in Seq(Blocks)
    BY <1>5 DEF Allocated, OnScreen, NoClash, DisplayInv, SenderInv
  <2>2. ASSUME NEW c \in Ids, NoClash, life' = "running" PROVE Titled(c)'
    BY <1>5, <2>1, <2>2, TitledStill DEF TitlesInv
  <2> QED BY <1>2, <1>5, <2>1, <2>2 DEF TitlesInv
<1>6. ASSUME life = "running", UNCHANGED history, NEW r \in Records,
             \/ CheckForRfbReplies(r) \/ CheckForRfbEnd(r)
             \/ DisplayReads(r) \/ UserClosesWindow(r)
      PROVE  TitlesInv'
  <2>1. /\ UNCHANGED <<input, received, channel, fd, audio, title, postponed, sent, early,
                       latest>>
        /\ destroyed \subseteq destroyed'
    BY <1>6 DEF CheckForRfbReplies, CheckForRfbEnd, DisplayReads, UserClosesWindow,
       tables, widgets, history, channelHistory, titleHistory
  <2> QED BY <1>5, <1>6, <2>1
<1>7. CASE UNCHANGED allVars
  BY <1>5, <1>7 DEF allVars, clientVars, tables, widgets, history, channelHistory,
     titleHistory
<1> QED BY <1>1, <1>3, <1>4, <1>6, <1>7 DEF OrderlyNext, ClientStep

LEMMA TitlesBegin ==
  ASSUME OrderlyInit
  PROVE  TitlesInv
<1>1. /\ input = <<>> /\ Allocated = {} /\ OnScreen = {}
      /\ \A c \in Ids : postponed[c] = <<>> /\ early[c] = NoTitle /\ latest[c] = NoTitle
      /\ \A r \in Records : title[r] = NoTitle
  BY DEF OrderlyInit, ClientInit, Allocated, OnScreen
<1>2. DOMAIN <<>> = {} /\ Elements(<<>>) = {}
  BY NothingYet
<1>3. \A c : ~HasName(<<>>, c)
  BY <1>2, NameInElements
<1>4. \A c, x : FirstAhead(<<>>, c, x)
  <2>1. \A i : i \notin DOMAIN <<>>
    OBVIOUS
  <2> QED BY <2>1 DEF FirstAhead
<1>5. \A c \in Ids : Titled(c)
  BY <1>1, <1>2, <1>3, <1>4 DEF Titled
<1>6. /\ early \in [Ids -> {NoTitle} \union Blocks]
      /\ latest \in [Ids -> {NoTitle} \union Blocks]
  BY DEF OrderlyInit
<1> QED BY <1>1, <1>5, <1>6 DEF TitlesInv

\* A window on the screen has the last title that was written for its channel, or
\* the first of those written ahead of the OPEN, which apply_metadata keeps at the
\* end of the list exposed_window applies: no title is lost or goes to another
\* window, whether it comes before the OPEN, before the window is exposed or after.
THEOREM TitlesAreKept == FewIds => (OrderlySpec => []TitlesKept)
<1> SUFFICES ASSUME FewIds PROVE OrderlySpec => []TitlesKept
  OBVIOUS
<1>1. OrderlyInit => TitlesInv
  BY TitlesBegin
<1>2. DisplayInv /\ TitlesInv /\ [OrderlyNext]_allVars => TitlesInv'
  BY TitlesStep
<1>3. DisplayInv /\ TitlesInv => TitlesKept
  <2> SUFFICES ASSUME DisplayInv, TitlesInv, NoClash, life = "running", input = <<>>,
                      NEW r \in OnScreen, postponed[channel[r]] = <<>>
               PROVE  \/ title[r] = latest[channel[r]]
                      \/ /\ early[channel[r]] # NoTitle
                         /\ title[r] = early[channel[r]]
    BY DEF TitlesKept
  <2>1. channel[r] \in Ids
    BY WindowOfChannel
  <2>2. \A c : ~HasName(<<>>, c)
    BY NothingYet, NameInElements
  <2> QED BY <2>1, <2>2 DEF TitlesInv, Titled
<1> QED BY <1>1, <1>2, <1>3, DisplaySafe, PTL DEF OrderlySpec


=============================================================================
