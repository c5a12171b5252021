---------------------------- MODULE Link_proofs -----------------------------
(***************************************************************************)
(* Theorems about Link, for sockets, reads and blocks of every size: the   *)
(* types, that the parsers never meet bytes they cannot take unless the    *)
(* sharer has broken the stream, that blocks arrive whole and in order in  *)
(* both directions (BlockQueue), and that when nothing moves any more all  *)
(* of them have arrived.                                                   *)
(*                                                                         *)
(* A parser's state is described by its place in the stream: the bytes     *)
(* written so far, whose blocks begin at known places, and the number of   *)
(* those the parser has taken.  Reads, and writes however they are cut,    *)
(* change neither; a byte that is parsed moves the place on by one.        *)
(***************************************************************************)
EXTENDS Link, SequenceTheorems, TLAPS

-----------------------------------------------------------------------------
(* Numbers of two bytes.                                                   *)

\* What fits into two bytes.
Numbers == 0 .. ByteSize * ByteSize - 1

AnyBlocks == [channel : Nat, payload : Seq(Bytes)]

\* The channel and the length of a block fit into the two bytes they have.
Fit(b) == b.channel \in Numbers /\ Len(b.payload) \in Numbers

\* The least and the other digits of a number in base B.
LEMMA Digits ==
  ASSUME NEW n \in Nat, NEW B \in Nat \ {0}
  PROVE  /\ n % B \in 0 .. B - 1
         /\ n \div B \in Nat
         /\ n = (n % B) + (n \div B) * B
OBVIOUS

\* Two digits are a number below the square of the base, and the other way round.
LEMMA TwoDigits ==
  ASSUME NEW B \in Nat \ {0}
  PROVE  /\ \A low, high \in 0 .. B - 1 : low + high * B \in 0 .. B * B - 1
         /\ \A n \in 0 .. B * B - 1 : (n \div B) % B = n \div B
<1>1. ASSUME NEW low \in 0 .. B - 1, NEW high \in 0 .. B - 1
      PROVE  low + high * B \in 0 .. B * B - 1
  OBVIOUS
<1>2. ASSUME NEW n \in 0 .. B * B - 1
      PROVE  (n \div B) % B = n \div B
  <2>1. n \div B \in Nat /\ n \div B < B
    OBVIOUS
  <2>2. \A m \in Nat : m < B => m % B = m
    OBVIOUS
  <2> QED BY <2>1, <2>2
<1> QED BY <1>1, <1>2

\* A number of two bytes is put together again from the bytes it is written as.
LEMMA Decoded ==
  ASSUME NEW n \in Numbers
  PROVE  (n % ByteSize) + ((n \div ByteSize) % ByteSize) * ByteSize = n
BY Digits, TwoDigits, FramingAssumption DEF Numbers

LEMMA BytesInNumbers ==
  /\ Bytes \subseteq Numbers
  /\ \A low, high \in Bytes : low + high * ByteSize \in Numbers
<1>1. ByteSize \in Nat \ {0} /\ ByteSize <= ByteSize * ByteSize
  BY FramingAssumption
<1>2. ByteSize * ByteSize \in Nat
  BY <1>1
<1>3. Bytes \subseteq Numbers
  BY <1>1, <1>2 DEF Bytes, Numbers
<1> QED BY <1>1, <1>3, TwoDigits DEF Bytes, Numbers

-----------------------------------------------------------------------------
(* Bytes of a block.                                                       *)

Wire(b) == Preamble(b) \o b.payload

LEMMA PreambleBytes ==
  ASSUME NEW b \in AnyBlocks
  PROVE  /\ Preamble(b) \in Seq(Bytes)
         /\ Len(Preamble(b)) = 4
         /\ Preamble(b)[1] = b.channel % ByteSize
         /\ Preamble(b)[2] = (b.channel \div ByteSize) % ByteSize
         /\ Preamble(b)[3] = Len(b.payload) % ByteSize
         /\ Preamble(b)[4] = (Len(b.payload) \div ByteSize) % ByteSize
<1> DEFINE c == b.channel
           l == Len(b.payload)
<1>1. c \in Nat /\ l \in Nat
  BY DEF AnyBlocks
<1>2. \A n \in Nat : n % ByteSize \in Bytes /\ (n \div ByteSize) % ByteSize \in Bytes
  BY Digits, FramingAssumption DEF Bytes
<1>3. /\ c % ByteSize \in Bytes /\ (c \div ByteSize) % ByteSize \in Bytes
      /\ l % ByteSize \in Bytes /\ (l \div ByteSize) % ByteSize \in Bytes
  BY <1>1, <1>2
<1>4. Preamble(b) = <<c % ByteSize, (c \div ByteSize) % ByteSize>>
                      \o <<l % ByteSize, (l \div ByteSize) % ByteSize>>
  BY DEF Preamble, TwoBytes
<1> HIDE DEF c, l
<1>5. \A w, x, y, z \in Bytes :
        /\ <<w, x>> \o <<y, z>> \in Seq(Bytes)
        /\ Len(<<w, x>> \o <<y, z>>) = 4
        /\ (<<w, x>> \o <<y, z>>)[1] = w /\ (<<w, x>> \o <<y, z>>)[2] = x
        /\ (<<w, x>> \o <<y, z>>)[3] = y /\ (<<w, x>> \o <<y, z>>)[4] = z
  OBVIOUS
<1>6. /\ Preamble(b) \in Seq(Bytes) /\ Len(Preamble(b)) = 4
      /\ Preamble(b)[1] = c % ByteSize
      /\ Preamble(b)[2] = (c \div ByteSize) % ByteSize
      /\ Preamble(b)[3] = l % ByteSize
      /\ Preamble(b)[4] = (l \div ByteSize) % ByteSize
  BY <1>3, <1>4, <1>5
<1> QED BY <1>6 DEF c, l

\* The bytes of a block are those of the preamble, then those of the payload.
LEMMA WireBytes ==
  ASSUME NEW b \in AnyBlocks
  PROVE  /\ b.payload \in Seq(Bytes) /\ Len(b.payload) \in Nat
         /\ Wire(b) \in Seq(Bytes)
         /\ Len(Wire(b)) = 4 + Len(b.payload)
         /\ \A j \in 1 .. 4 : Wire(b)[j] = Preamble(b)[j]
         /\ \A j \in 5 .. Len(Wire(b)) : Wire(b)[j] = b.payload[j - 4]
<1>1. b.payload \in Seq(Bytes) /\ Len(b.payload) \in Nat
  BY DEF AnyBlocks
<1>2. Preamble(b) \in Seq(Bytes) /\ Len(Preamble(b)) = 4
  BY PreambleBytes
<1> DEFINE p == Preamble(b)
           q == b.payload
<1>3. p \in Seq(Bytes) /\ Len(p) = 4 /\ q \in Seq(Bytes) /\ Len(q) \in Nat
  BY <1>1, <1>2
<1> HIDE DEF p, q
<1>4. /\ p \o q \in Seq(Bytes) /\ Len(p \o q) = 4 + Len(q)
      /\ \A j \in 1 .. 4 + Len(q) : (p \o q)[j] = IF j <= 4 THEN p[j] ELSE q[j - 4]
  <2>1. /\ p \o q \in Seq(Bytes) /\ Len(p \o q) = Len(p) + Len(q)
        /\ \A j \in 1 .. Len(p) + Len(q) :
             (p \o q)[j] = IF j <= Len(p) THEN p[j] ELSE q[j - Len(p)]
    BY <1>3, ConcatProperties
  <2> QED BY <1>3, <2>1
<1>5. /\ \A j \in 1 .. 4 : (p \o q)[j] = p[j]
      /\ \A j \in 5 .. Len(p \o q) : (p \o q)[j] = q[j - 4]
  BY <1>3, <1>4
<1> QED BY <1>1, <1>4, <1>5 DEF p, q, Wire

LEMMA HeaderBytes ==
  /\ Header \in Seq(Bytes) /\ Len(Header) = HeaderSize
  /\ \A i \in 1 .. HeaderSize : Header[i] = 1
BY FramingAssumption DEF Header, Bytes

-----------------------------------------------------------------------------
(* Cutting sequences, and putting them together.                           *)

\* A cut leaves the sequence as it was when the parts are put together.
LEMMA Cut ==
  ASSUME NEW S, NEW s \in Seq(S), NEW n \in 0 .. Len(s)
  PROVE  /\ First(s, n) \in Seq(S) /\ Len(First(s, n)) = n
         /\ \A i \in 1 .. n : First(s, n)[i] = s[i]
         /\ Rest(s, n) \in Seq(S) /\ Len(Rest(s, n)) = Len(s) - n
         /\ \A i \in 1 .. Len(s) - n : Rest(s, n)[i] = s[n + i]
         /\ First(s, n) \o Rest(s, n) = s
<1>1. /\ First(s, n) \in Seq(S) /\ Len(First(s, n)) = n
      /\ \A i \in 1 .. n : First(s, n)[i] = s[i]
  BY DEF First
<1>2. /\ Rest(s, n) \in Seq(S) /\ Len(Rest(s, n)) = Len(s) - n
      /\ \A i \in 1 .. Len(s) - n : Rest(s, n)[i] = s[n + i]
  BY DEF Rest
<1>3. First(s, n) \o Rest(s, n) = s
  <2> DEFINE a == First(s, n)
             b == Rest(s, n)
  <2>1. /\ a \in Seq(S) /\ Len(a) = n /\ \A i \in 1 .. n : a[i] = s[i]
        /\ b \in Seq(S) /\ Len(b) = Len(s) - n
        /\ \A i \in 1 .. Len(s) - n : b[i] = s[n + i]
    BY <1>1, <1>2
  <2> HIDE DEF a, b
  <2>2. /\ a \o b \in Seq(S) /\ Len(a \o b) = Len(s)
        /\ \A i \in 1 .. Len(s) : (a \o b)[i] = IF i <= n THEN a[i] ELSE b[i - n]
    BY <2>1, ConcatProperties
  <2>3. \A i \in 1 .. Len(s) : (a \o b)[i] = s[i]
    BY <2>1, <2>2
  <2>4. a \o b = s
    BY <2>2, <2>3, SeqEqual
  <2> QED BY <2>4 DEF a, b
<1> QED BY <1>1, <1>2, <1>3

\* What follows after k bytes when w is written behind them.
LEMMA RestOfLonger ==
  ASSUME NEW S, NEW s \in Seq(S), NEW w \in Seq(S), NEW k \in 0 .. Len(s)
  PROVE  Rest(s \o w, k) = Rest(s, k) \o w
<1> DEFINE t == s \o w
           a == Rest(s, k)
           b == Rest(t, k)
           c == a \o w
<1>1. /\ t \in Seq(S) /\ Len(t) = Len(s) + Len(w)
      /\ \A i \in 1 .. Len(s) + Len(w) :
           t[i] = IF i <= Len(s) THEN s[i] ELSE w[i - Len(s)]
  BY ConcatProperties
<1> HIDE DEF t
<1>2. /\ a \in Seq(S) /\ Len(a) = Len(s) - k
      /\ \A i \in 1 .. Len(s) - k : a[i] = s[k + i]
  BY Cut
<1> HIDE DEF a
<1>3. Len(s) \in Nat /\ Len(w) \in Nat /\ k \in 0 .. Len(t)
  BY <1>1
<1>4. /\ b \in Seq(S) /\ Len(b) = Len(t) - k
      /\ \A i \in 1 .. Len(t) - k : b[i] = t[k + i]
  BY <1>1, <1>3, Cut
<1>5. /\ c \in Seq(S) /\ Len(c) = Len(a) + Len(w)
      /\ \A i \in 1 .. Len(a) + Len(w) : c[i] = IF i <= Len(a) THEN a[i] ELSE w[i - Len(a)]
  BY <1>2, ConcatProperties
<1> HIDE DEF b, c
<1>6. Len(c) = Len(b)
  BY <1>1, <1>2, <1>3, <1>4, <1>5
<1>7. ASSUME NEW i \in 1 .. Len(b)
      PROVE  b[i] = c[i]
  <2>1. b[i] = t[k + i] /\ k + i \in 1 .. Len(s) + Len(w) /\ i \in 1 .. Len(a) + Len(w)
    BY <1>1, <1>2, <1>3, <1>4
  <2>2. CASE i <= Len(a)
    BY <1>1, <1>2, <1>3, <1>5, <2>1, <2>2
  <2>3. CASE i > Len(a)
    <3>1. t[k + i] = w[k + i - Len(s)] /\ c[i] = w[i - Len(a)]
      BY <1>1, <1>2, <1>3, <1>5, <2>1, <2>3, SMTT(30)
    <3>2. k + i - Len(s) = i - Len(a)
      BY <1>2, <1>3
    <3> QED BY <2>1, <3>1, <3>2
  <2> QED BY <1>2, <1>3, <2>2, <2>3
<1>8. b = c
  BY <1>4, <1>5, <1>6, <1>7, SeqEqual
<1> QED BY <1>8 DEF a, b, c, t

\* The next byte, and what follows it.
LEMMA RestAfterNext ==
  ASSUME NEW S, NEW s \in Seq(S), NEW k \in 0 .. Len(s), Rest(s, k) # <<>>
  PROVE  /\ k < Len(s)
         /\ Head(Rest(s, k)) = s[k + 1]
         /\ Tail(Rest(s, k)) = Rest(s, k + 1)
<1> DEFINE r == Rest(s, k)
<1>1. /\ r \in Seq(S) /\ Len(r) = Len(s) - k
      /\ \A i \in 1 .. Len(s) - k : r[i] = s[k + i]
  BY Cut
<1>2. r # <<>>
  OBVIOUS
<1> HIDE DEF r
<1>3. k < Len(s)
  BY <1>1, <1>2, EmptySeq
<1>4. Head(r) = s[k + 1]
  BY <1>1, <1>2, <1>3
<1>5. /\ Rest(s, k + 1) \in Seq(S) /\ Len(Rest(s, k + 1)) = Len(s) - (k + 1)
      /\ \A i \in 1 .. Len(s) - (k + 1) : Rest(s, k + 1)[i] = s[k + 1 + i]
  <2>1. k + 1 \in 0 .. Len(s)
    BY <1>3
  <2> QED BY <2>1, Cut
<1>6. Tail(r) = Rest(s, k + 1)
  <2> DEFINE t == Tail(r)
  <2>1. t \in Seq(S) /\ Len(t) = Len(r) - 1 /\ \A i \in 1 .. Len(t) : t[i] = r[i + 1]
    BY <1>1, <1>2, HeadTailProperties
  <2> HIDE DEF t
  <2>2. \A i \in 1 .. Len(t) : t[i] = Rest(s, k + 1)[i]
    BY <1>1, <1>3, <1>5, <2>1
  <2>3. t = Rest(s, k + 1)
    BY <1>1, <1>5, <2>1, <2>2, SeqEqual
  <2> QED BY <2>3 DEF t
<1> QED BY <1>3, <1>4, <1>6 DEF r

\* A sequence begins, and goes on, like its first part.
LEMMA NextOfLonger ==
  ASSUME NEW S, NEW s \in Seq(S), NEW t \in Seq(S), s # <<>>
  PROVE  /\ s \o t # <<>>
         /\ Head(s \o t) = Head(s)
         /\ Tail(s \o t) = Tail(s) \o t
<1> DEFINE u == s \o t
           a == Tail(s)
           b == Tail(u)
<1>1. /\ u \in Seq(S) /\ Len(u) = Len(s) + Len(t)
      /\ \A i \in 1 .. Len(s) + Len(t) : u[i] = IF i <= Len(s) THEN s[i] ELSE t[i - Len(s)]
  BY ConcatProperties
<1>2. Len(s) \in Nat \ {0} /\ Len(t) \in Nat
  BY EmptySeq
<1> HIDE DEF u
<1>3. u # <<>>
  BY <1>1, <1>2
<1>4. Head(u) = Head(s)
  BY <1>1, <1>2
<1>5. a \in Seq(S) /\ Len(a) = Len(s) - 1 /\ \A i \in 1 .. Len(a) : a[i] = s[i + 1]
  BY HeadTailProperties
<1>6. b \in Seq(S) /\ Len(b) = Len(u) - 1 /\ \A i \in 1 .. Len(b) : b[i] = u[i + 1]
  BY <1>1, <1>3, HeadTailProperties
<1> HIDE DEF a, b
<1>7. /\ a \o t \in Seq(S) /\ Len(a \o t) = Len(a) + Len(t)
      /\ \A i \in 1 .. Len(a) + Len(t) :
           (a \o t)[i] = IF i <= Len(a) THEN a[i] ELSE t[i - Len(a)]
  BY <1>5, ConcatProperties
<1>8. \A i \in 1 .. Len(b) : b[i] = (a \o t)[i]
  BY <1>1, <1>2, <1>5, <1>6, <1>7
<1>9. b = a \o t
  <2>1. Len(b) = Len(a \o t)
    BY <1>1, <1>2, <1>5, <1>6, <1>7
  <2> QED BY <1>6, <1>7, <1>8, <2>1, SeqEqual
<1> QED BY <1>3, <1>4, <1>9 DEF u, a, b

-----------------------------------------------------------------------------
(* Bytes on their way, through four buffers one behind the other.          *)

Flow(a, b, c, d) == ((a \o b) \o c) \o d

LEMMA Joined ==
  /\ \A s, t \in Seq(Bytes) : s \o t \in Seq(Bytes)
  /\ \A s, t, u \in Seq(Bytes) : (s \o t) \o u = s \o (t \o u)
  /\ \A s \in Seq(Bytes) : s \o <<>> = s /\ <<>> \o s = s
  /\ <<>> \in Seq(Bytes)
BY ConcatProperties, ConcatAssociative, ConcatEmptySeq, EmptySeq, SMTT(30)

\* The same of operators that mean nothing else to the provers.
Cat(s, t) == s \o t
FirstOf(s) == Head(s)
Others(s)  == Tail(s)

LEMMA CatRules ==
  /\ \A s, t \in Seq(Bytes) : Cat(s, t) \in Seq(Bytes)
  /\ \A s, t, u \in Seq(Bytes) : Cat(Cat(s, t), u) = Cat(s, Cat(t, u))
BY Joined DEF Cat

LEMMA CatCut ==
  ASSUME NEW s \in Seq(Bytes), NEW n \in 0 .. Len(s)
  PROVE  /\ First(s, n) \in Seq(Bytes) /\ Rest(s, n) \in Seq(Bytes)
         /\ Cat(First(s, n), Rest(s, n)) = s
BY Cut DEF Cat

LEMMA FlowOfCat ==
  ASSUME NEW a, NEW b, NEW c, NEW d
  PROVE  Flow(a, b, c, d) = Cat(Cat(Cat(a, b), c), d)
BY DEF Flow, Cat

LEMMA FlowBytes ==
  ASSUME NEW a \in Seq(Bytes), NEW b \in Seq(Bytes), NEW c \in Seq(Bytes),
         NEW d \in Seq(Bytes)
  PROVE  Flow(a, b, c, d) \in Seq(Bytes)
BY FlowOfCat, CatRules

\* What is read from one buffer into the one before it is where it was.
LEMMA FirstMoves ==
  ASSUME NEW a \in Seq(Bytes), NEW b \in Seq(Bytes), NEW c \in Seq(Bytes),
         NEW d \in Seq(Bytes), NEW n \in 0 .. Len(b)
  PROVE  Flow(Cat(a, First(b, n)), Rest(b, n), c, d) = Flow(a, b, c, d)
<1>1. Cat(Cat(a, First(b, n)), Rest(b, n)) = Cat(a, b)
  BY CatRules, CatCut
<1> QED BY <1>1, FlowOfCat

LEMMA SecondMoves ==
  ASSUME NEW a \in Seq(Bytes), NEW b \in Seq(Bytes), NEW c \in Seq(Bytes),
         NEW d \in Seq(Bytes), NEW n \in 0 .. Len(c)
  PROVE  Flow(a, Cat(b, First(c, n)), Rest(c, n), d) = Flow(a, b, c, d)
<1>1. Cat(Cat(a, Cat(b, First(c, n))), Rest(c, n)) = Cat(Cat(a, b), c)
  BY CatRules, CatCut
<1> QED BY <1>1, FlowOfCat

LEMMA ThirdMoves ==
  ASSUME NEW a \in Seq(Bytes), NEW b \in Seq(Bytes), NEW c \in Seq(Bytes),
         NEW d \in Seq(Bytes), NEW n \in 0 .. Len(d)
  PROVE  Flow(a, b, Cat(c, First(d, n)), Rest(d, n)) = Flow(a, b, c, d)
<1>1. Cat(a, b) \in Seq(Bytes)
  BY CatRules
<1>2. Cat(Cat(Cat(a, b), Cat(c, First(d, n))), Rest(d, n)) = Cat(Cat(Cat(a, b), c), d)
  BY <1>1, CatRules, CatCut
<1> QED BY <1>2, FlowOfCat

\* What is written last comes last.
LEMMA FlowMore ==
  ASSUME NEW a \in Seq(Bytes), NEW b \in Seq(Bytes), NEW c \in Seq(Bytes),
         NEW d \in Seq(Bytes), NEW w \in Seq(Bytes)
  PROVE  Flow(a, b, c, Cat(d, w)) = Cat(Flow(a, b, c, d), w)
<1>1. Cat(Cat(a, b), c) \in Seq(Bytes)
  BY CatRules
<1> QED BY <1>1, CatRules, FlowOfCat

\* The same, if the buffer behind the four is one more part of the way.
LEMMA LastMoves ==
  ASSUME NEW a \in Seq(Bytes), NEW b \in Seq(Bytes), NEW c \in Seq(Bytes),
         NEW d \in Seq(Bytes), NEW e \in Seq(Bytes), NEW n \in 0 .. Len(e)
  PROVE  Cat(Flow(a, b, c, Cat(d, First(e, n))), Rest(e, n)) = Cat(Flow(a, b, c, d), e)
<1> DEFINE f == Flow(a, b, c, d)
<1>1. f \in Seq(Bytes) /\ First(e, n) \in Seq(Bytes)
  BY FlowBytes, CatCut
<1>2. Flow(a, b, c, Cat(d, First(e, n))) = Cat(f, First(e, n))
  BY <1>1, FlowMore
<1> HIDE DEF f
<1>3. Cat(Cat(f, First(e, n)), Rest(e, n)) = Cat(f, e)
  BY <1>1, CatRules, CatCut
<1> QED BY <1>2, <1>3 DEF f

\* What has been read first is parsed next.
LEMMA FlowNext ==
  ASSUME NEW a \in Seq(Bytes), NEW b \in Seq(Bytes), NEW c \in Seq(Bytes),
         NEW d \in Seq(Bytes), a # <<>>
  PROVE  /\ Flow(a, b, c, d) # <<>>
         /\ FirstOf(Flow(a, b, c, d)) = FirstOf(a)
         /\ Others(Flow(a, b, c, d)) = Flow(Others(a), b, c, d)
<1>1. /\ a \o b \in Seq(Bytes) /\ a \o b # <<>>
      /\ Head(a \o b) = Head(a) /\ Tail(a \o b) = Tail(a) \o b
  BY Joined, NextOfLonger, SMTT(30)
<1> DEFINE ab == a \o b
           abc == ab \o c
<1>2. /\ abc \in Seq(Bytes) /\ abc # <<>>
      /\ Head(abc) = Head(ab) /\ Tail(abc) = Tail(ab) \o c
  <2>1. ab \in Seq(Bytes) /\ ab # <<>>
    BY <1>1
  <2> HIDE DEF ab
  <2>2. ab \o c \in Seq(Bytes)
    BY <2>1, Joined
  <2>3. ab \o c # <<>> /\ Head(ab \o c) = Head(ab) /\ Tail(ab \o c) = Tail(ab) \o c
    BY <2>1, NextOfLonger
  <2> QED BY <2>2, <2>3
<1>3. /\ abc \o d # <<>>
      /\ Head(abc \o d) = Head(abc) /\ Tail(abc \o d) = Tail(abc) \o d
  <2> HIDE DEF abc
  <2> QED BY <1>2, NextOfLonger
<1>4. Head(abc \o d) = Head(a) /\ Tail(abc \o d) = ((Tail(a) \o b) \o c) \o d
  <2>1. Tail(ab) = Tail(a) \o b /\ Head(ab) = Head(a)
    BY <1>1
  <2> HIDE DEF abc, ab
  <2> QED BY <1>2, <1>3, <2>1
<1> QED BY <1>3, <1>4 DEF Flow, FirstOf, Others

-----------------------------------------------------------------------------
(* Blocks in a stream.                                                     *)

\* The blocks lie one behind the other, the first behind so many bytes: place[i]
\* are the bytes up to the end of the i-th.
Carries(stream, place, blocks, start) ==
  /\ place \in [0 .. Len(blocks) -> Nat]
  /\ place[0] = start
  /\ place[Len(blocks)] <= Len(stream)
  /\ \A i \in 1 .. Len(blocks) :
       /\ place[i] = place[i - 1] + Len(Wire(blocks[i]))
       /\ place[i] <= Len(stream)
       /\ \A j \in 1 .. Len(Wire(blocks[i])) :
            stream[place[i - 1] + j] = Wire(blocks[i])[j]

LEMMA CarriesLonger ==
  ASSUME NEW stream \in Seq(Bytes), NEW w \in Seq(Bytes), NEW blocks \in Seq(AnyBlocks),
         NEW place, NEW start, Carries(stream, place, blocks, start)
  PROVE  Carries(stream \o w, place, blocks, start)
<1> DEFINE longer == stream \o w
<1>1. /\ Len(longer) = Len(stream) + Len(w)
      /\ \A i \in 1 .. Len(stream) : longer[i] = stream[i]
  BY ConcatProperties
<1>2. Len(stream) \in Nat /\ Len(w) \in Nat /\ Len(blocks) \in Nat
  OBVIOUS
<1> HIDE DEF longer
<1>3. place[Len(blocks)] <= Len(longer)
  <2>1. place[Len(blocks)] \in Nat /\ place[Len(blocks)] <= Len(stream)
    BY <1>2 DEF Carries
  <2> QED BY <1>1, <1>2, <2>1
<1>4. ASSUME NEW i \in 1 .. Len(blocks)
      PROVE  /\ place[i] <= Len(longer)
             /\ \A j \in 1 .. Len(Wire(blocks[i])) :
                  longer[place[i - 1] + j] = Wire(blocks[i])[j]
  <2>1. /\ place[i] \in Nat /\ place[i - 1] \in Nat /\ place[i] <= Len(stream)
        /\ place[i] = place[i - 1] + Len(Wire(blocks[i]))
    <3>1. i \in 0 .. Len(blocks) /\ i - 1 \in 0 .. Len(blocks)
      BY <1>2
    <3> QED BY <3>1 DEF Carries
  <2>2. Len(Wire(blocks[i])) \in Nat
    BY WireBytes
  <2>3. place[i] <= Len(longer)
    BY <1>1, <1>2, <2>1
  <2>4. ASSUME NEW j \in 1 .. Len(Wire(blocks[i]))
        PROVE  longer[place[i - 1] + j] = Wire(blocks[i])[j]
    <3>1. place[i - 1] + j \in 1 .. Len(stream)
      BY <1>2, <2>1, <2>2, SMTT(30)
    <3>2. longer[place[i - 1] + j] = stream[place[i - 1] + j]
      BY <1>1, <3>1
    <3> QED BY <3>2 DEF Carries
  <2> QED BY <2>3, <2>4
<1> QED BY <1>3, <1>4 DEF Carries, longer

\* The stream up to the end of the last block, and then one more block.
LEMMA CarriesMore ==
  ASSUME NEW stream \in Seq(Bytes), NEW w \in Seq(Bytes), NEW blocks \in Seq(AnyBlocks),
         NEW b \in AnyBlocks, NEW place, NEW start,
         Carries(stream, place, blocks, start),
         Rest(stream, place[Len(blocks)]) \o w = Wire(b)
  PROVE  \E further :
           /\ Carries(stream \o w, further, Append(blocks, b), start)
           /\ further[Len(blocks) + 1] = Len(stream \o w)
           /\ \A i \in 0 .. Len(blocks) : further[i] = place[i]
<1> DEFINE longer == stream \o w
           more == Append(blocks, b)
           n == Len(blocks)
           end == Len(longer)
           further == [i \in 0 .. n + 1 |-> IF i <= n THEN place[i] ELSE end]
<1>1. /\ n \in Nat /\ end \in Nat /\ Len(more) = n + 1
      /\ \A i \in 1 .. n : more[i] = blocks[i]
      /\ more[n + 1] = b
  BY ConcatProperties, AppendProperties
<1>2. /\ \A i \in 0 .. n : place[i] \in Nat
      /\ place[0] = start
  BY <1>1 DEF Carries
<1>3. Carries(longer, place, blocks, start)
  BY CarriesLonger
<1>4. /\ further \in [0 .. n + 1 -> Nat]
      /\ further[n + 1] = end
      /\ \A i \in 0 .. n : further[i] = place[i]
  BY <1>1, <1>2
<1>5. Rest(longer, place[n]) = Wire(b)
  <2>1. place[n] \in 0 .. Len(stream)
    BY <1>1, <1>2 DEF Carries
  <2> QED BY <2>1, RestOfLonger
<1>6. /\ end = place[n] + Len(Wire(b))
      /\ \A j \in 1 .. Len(Wire(b)) : longer[place[n] + j] = Wire(b)[j]
  <2>1. longer \in Seq(Bytes)
    BY Joined
  <2>2. place[n] \in 0 .. end
    BY <1>1, <1>2, <1>3 DEF Carries
  <2>3. /\ Len(Rest(longer, place[n])) = end - place[n]
        /\ \A i \in 1 .. end - place[n] : Rest(longer, place[n])[i] = longer[place[n] + i]
    <3> DEFINE m == place[n]
    <3>1. m \in 0 .. Len(longer)
      BY <2>2
    <3> HIDE DEF longer, m
    <3>2. /\ Len(Rest(longer, m)) = Len(longer) - m
          /\ \A i \in 1 .. Len(longer) - m : Rest(longer, m)[i] = longer[m + i]
      BY <2>1, <3>1, Cut
    <3> QED BY <3>2 DEF m
  <2>4. Len(Wire(b)) = end - place[n]
    BY <1>5, <2>3
  <2> QED BY <1>1, <1>5, <2>2, <2>3, <2>4, SMTT(30)
<1> HIDE DEF longer, more, n, end, further
<1>7. ASSUME NEW i \in 1 .. n + 1
      PROVE  /\ further[i] = further[i - 1] + Len(Wire(more[i]))
             /\ further[i] <= Len(longer)
             /\ \A j \in 1 .. Len(Wire(more[i])) :
                  longer[further[i - 1] + j] = Wire(more[i])[j]
  <2>1. CASE i = n + 1
    <3>1. further[i - 1] = place[n] /\ further[i] = end /\ more[i] = b
      BY <1>1, <1>4, <2>1
    <3> QED BY <1>1, <1>6, <3>1 DEF end
  <2>2. CASE i # n + 1
    <3>1. i \in 1 .. n /\ i - 1 \in 0 .. n /\ i \in 0 .. n
      BY <1>1, <2>2
    <3>2. further[i - 1] = place[i - 1] /\ further[i] = place[i] /\ more[i] = blocks[i]
      BY <1>1, <1>4, <3>1
    <3> QED BY <1>3, <3>1, <3>2 DEF Carries, n
  <2> QED BY <2>1, <2>2
<1>8. Carries(longer, further, more, start)
  <2>1. further[0] = start /\ further[n + 1] <= Len(longer)
    BY <1>1, <1>2, <1>4 DEF end
  <2> QED BY <1>1, <1>4, <1>7, <2>1 DEF Carries
<1>9. /\ Carries(longer, further, more, start)
      /\ further[n + 1] = Len(longer)
      /\ \A i \in 0 .. n : further[i] = place[i]
  BY <1>4, <1>8 DEF end
<1> QED BY <1>9 DEF longer, more, n

-----------------------------------------------------------------------------
(* The steps of the parsers, field by field.                               *)

FdParsers == [state : {"start", "seen_channel", "seen_length"}, through : Nat,
              channel : Numbers, length : Numbers, buffer : Seq(Bytes)]

FdTypeOK(p) ==
  /\ p \in FdParsers
  /\ p.state # "seen_length" => p.through \in {0, 1}
  /\ p.state = "start" /\ p.through = 1 => p.channel \in Bytes
  /\ p.state = "seen_channel" /\ p.through = 1 => p.length \in Bytes

FdIs(p, state, through, channel, length, buffer) ==
  /\ p.state = state /\ p.through = through
  /\ p.channel = channel /\ p.length = length /\ p.buffer = buffer

BottomParsers == [stage : Int, channel : Numbers, length : Numbers, buffer : Seq(Bytes)]

BottomTypeOK(p) ==
  /\ p \in BottomParsers
  /\ p.stage >= -4 - HeaderSize
  /\ p.stage = -3 => p.channel \in Bytes
  /\ p.stage = -1 => p.length \in Bytes
  /\ p.stage > 0 => p.stage < p.length

BottomIs(p, stage, channel, length, buffer) ==
  /\ p.stage = stage /\ p.channel = channel /\ p.length = length /\ p.buffer = buffer

LEMMA BlockType ==
  ASSUME NEW c \in Numbers, NEW s \in Seq(Bytes), NEW byte \in Bytes
  PROVE  /\ Append(s, byte) \in Seq(Bytes)
         /\ Block(c, Append(s, byte)) \in Blocks
BY AppendProperties DEF Block, Blocks, Numbers

LEMMA FdMoves ==
  ASSUME NEW p, FdTypeOK(p), NEW byte \in Bytes
  PROVE  LET step == FdStep(p, byte) IN
         /\ step.next \in FdParsers
         /\ p.state = "start" /\ p.through = 0 =>
              /\ step.call = Nothing
              /\ FdIs(step.next, "start", 1, byte, p.length, p.buffer)
         /\ p.state = "start" /\ p.through = 1 =>
              /\ step.call = Nothing
              /\ FdIs(step.next, "seen_channel", 0, p.channel + byte * ByteSize, p.length,
                      p.buffer)
         /\ p.state = "seen_channel" /\ p.through = 0 =>
              /\ step.call = Nothing
              /\ FdIs(step.next, "seen_channel", 1, p.channel, byte, p.buffer)
         /\ p.state = "seen_channel" /\ p.through = 1 =>
              /\ step.call = Nothing
              /\ FdIs(step.next, "seen_length", 0, p.channel, p.length + byte * ByteSize,
                      p.buffer)
         /\ p.state = "seen_length" /\ p.length = 0 =>
              step.next = p /\ step.call = Fails("null_buffer")
         /\ p.state = "seen_length" /\ p.length # 0 /\ p.through + 1 = p.length =>
              /\ step.call = Handle(Block(p.channel, Append(p.buffer, byte)))
              /\ FdIs(step.next, "start", 0, p.channel, p.length, <<>>)
         /\ p.state = "seen_length" /\ p.length # 0 /\ p.through + 1 # p.length =>
              /\ step.call = Nothing
              /\ FdIs(step.next, "seen_length", p.through + 1, p.channel, p.length,
                      Append(p.buffer, byte))
<1> DEFINE step == FdStep(p, byte)
<1>1. byte \in Numbers /\ 0 \in Numbers
  BY BytesInNumbers, FramingAssumption DEF Numbers
<1>2. /\ p \in FdParsers
      /\ p.state \in {"start", "seen_channel", "seen_length"} /\ p.through \in Nat
      /\ p.channel \in Numbers /\ p.length \in Numbers /\ p.buffer \in Seq(Bytes)
      /\ p.state # "seen_length" => p.through \in {0, 1}
  BY DEF FdTypeOK, FdParsers
<1>3. CASE p.state = "start" /\ p.through = 0
  <2>1. step = [next |-> [p EXCEPT !.channel = byte, !.through = 1], call |-> Nothing]
    BY <1>3 DEF FdStep
  <2>2. /\ [p EXCEPT !.channel = byte, !.through = 1] \in FdParsers
        /\ FdIs([p EXCEPT !.channel = byte, !.through = 1],
                "start", 1, byte, p.length, p.buffer)
    BY <1>1, <1>2, <1>3 DEF FdParsers, FdIs
  <2> QED BY <1>3, <2>1, <2>2
<1>4. CASE p.state = "start" /\ p.through = 1
  <2> DEFINE c == p.channel + byte * ByteSize
             q == [p EXCEPT !.channel = c, !.through = 0, !.state = "seen_channel"]
  <2>1. step = [next |-> q, call |-> Nothing]
    BY <1>4 DEF FdStep
  <2>2. c \in Numbers
    BY <1>4, BytesInNumbers DEF FdTypeOK
  <2>3. q \in FdParsers /\ FdIs(q, "seen_channel", 0, c, p.length, p.buffer)
    <3> HIDE DEF c
    <3> QED BY <1>2, <2>2 DEF FdParsers, FdIs
  <2> QED BY <1>4, <2>1, <2>3
<1>5. CASE p.state = "seen_channel" /\ p.through = 0
  <2>1. step = [next |-> [p EXCEPT !.length = byte, !.through = 1], call |-> Nothing]
    BY <1>5 DEF FdStep
  <2>2. /\ [p EXCEPT !.length = byte, !.through = 1] \in FdParsers
        /\ FdIs([p EXCEPT !.length = byte, !.through = 1],
                "seen_channel", 1, p.channel, byte, p.buffer)
    BY <1>1, <1>2, <1>5 DEF FdParsers, FdIs
  <2> QED BY <1>5, <2>1, <2>2
<1>6. CASE p.state = "seen_channel" /\ p.through = 1
  <2> DEFINE l == p.length + byte * ByteSize
             q == [p EXCEPT !.length = l, !.through = 0, !.state = "seen_length"]
  <2>1. step = [next |-> q, call |-> Nothing]
    BY <1>6 DEF FdStep
  <2>2. l \in Numbers
    BY <1>6, BytesInNumbers DEF FdTypeOK
  <2>3. q \in FdParsers /\ FdIs(q, "seen_length", 0, p.channel, l, p.buffer)
    <3> HIDE DEF l
    <3> QED BY <1>2, <2>2 DEF FdParsers, FdIs
  <2> QED BY <1>6, <2>1, <2>3
<1>7. CASE p.state = "seen_length"
  <2>1. step = FdByte(p, byte)
    BY <1>7 DEF FdStep
  <2>2. CASE p.length = 0
    <3>1. step = [next |-> p, call |-> Fails("null_buffer")]
      BY <2>1, <2>2 DEF FdByte
    <3> QED BY <1>2, <1>7, <2>2, <3>1
  <2>3. CASE p.length # 0 /\ p.through + 1 = p.length
    <3> DEFINE q == [p EXCEPT !.buffer = <<>>, !.through = 0, !.state = "start"]
               h == Handle(Block(p.channel, Append(p.buffer, byte)))
    <3>1. step = [next |-> q, call |-> h]
      BY <2>1, <2>3 DEF FdByte
    <3>2. q \in FdParsers /\ FdIs(q, "start", 0, p.channel, p.length, <<>>)
      BY <1>2, EmptySeq DEF FdParsers, FdIs
    <3> HIDE DEF q, h
    <3>3. step.next = q /\ step.call = h
      BY <3>1
    <3> HIDE DEF step
    <3> QED BY <1>7, <2>3, <3>2, <3>3 DEF h, step
  <2>4. CASE p.length # 0 /\ p.through + 1 # p.length
    <3> DEFINE s == Append(p.buffer, byte)
               t == p.through + 1
               q == [p EXCEPT !.buffer = s, !.through = t]
    <3>1. step = [next |-> q, call |-> Nothing]
      BY <2>1, <2>4 DEF FdByte
    <3>2. s \in Seq(Bytes) /\ t \in Nat
      BY <1>2, BlockType
    <3>3. q \in FdParsers /\ FdIs(q, "seen_length", t, p.channel, p.length, s)
      <4> HIDE DEF s, t
      <4> QED BY <1>2, <1>7, <3>2 DEF FdParsers, FdIs
    <3> QED BY <1>7, <2>4, <3>1, <3>3
  <2> QED BY <2>2, <2>3, <2>4
<1> QED BY <1>2, <1>3, <1>4, <1>5, <1>6, <1>7

LEMMA BottomSetChannel ==
  ASSUME NEW p \in BottomParsers, NEW t \in Int, NEW c \in Numbers
  PROVE  /\ [p EXCEPT !.channel = c, !.stage = t] \in BottomParsers
         /\ BottomIs([p EXCEPT !.channel = c, !.stage = t], t, c, p.length, p.buffer)
BY DEF BottomParsers, BottomIs

LEMMA BottomSetLength ==
  ASSUME NEW p \in BottomParsers, NEW t \in Int, NEW l \in Numbers
  PROVE  /\ [p EXCEPT !.length = l, !.stage = t] \in BottomParsers
         /\ BottomIs([p EXCEPT !.length = l, !.stage = t], t, p.channel, l, p.buffer)
BY DEF BottomParsers, BottomIs

LEMMA BottomSetBuffer ==
  ASSUME NEW p \in BottomParsers, NEW t \in Int, NEW s \in Seq(Bytes)
  PROVE  /\ [p EXCEPT !.buffer = s, !.stage = t] \in BottomParsers
         /\ BottomIs([p EXCEPT !.buffer = s, !.stage = t], t, p.channel, p.length, s)
BY DEF BottomParsers, BottomIs

LEMMA BottomMoves ==
  ASSUME NEW p, BottomTypeOK(p), NEW byte \in Bytes
  PROVE  LET step == BottomStep(p, byte) IN
         /\ step.next \in BottomParsers
         /\ p.stage < -4 /\ byte # Header[p.stage + HeaderSize + 5] =>
              step.next = p /\ step.call = Fails("not_xzibit")
         /\ p.stage < -4 /\ byte = Header[p.stage + HeaderSize + 5] =>
              /\ step.call = IF p.stage = -5 THEN Introduce ELSE Nothing
              /\ BottomIs(step.next, p.stage + 1, p.channel, p.length, p.buffer)
         /\ p.stage = -4 =>
              /\ step.call = Nothing
              /\ BottomIs(step.next, -3, byte, p.length, p.buffer)
         /\ p.stage = -3 =>
              /\ step.call = Nothing
              /\ BottomIs(step.next, -2, p.channel + byte * ByteSize, p.length, p.buffer)
         /\ p.stage = -2 =>
              /\ step.call = Nothing
              /\ BottomIs(step.next, -1, p.channel, byte, p.buffer)
         /\ p.stage = -1 =>
              /\ step.call = Nothing
              /\ BottomIs(step.next, 0, p.channel, p.length + byte * ByteSize, p.buffer)
         /\ p.stage >= 0 /\ p.length = 0 =>
              step.next = p /\ step.call = Fails("null_buffer")
         /\ p.stage >= 0 /\ p.length # 0 /\ p.stage = p.length - 1 =>
              /\ step.call = Handle(Block(p.channel, Append(p.buffer, byte)))
              /\ BottomIs(step.next, -4, p.channel, p.length, <<>>)
         /\ p.stage >= 0 /\ p.length # 0 /\ p.stage # p.length - 1 =>
              /\ step.call = Nothing
              /\ BottomIs(step.next, p.stage + 1, p.channel, p.length,
                          Append(p.buffer, byte))
<1> DEFINE step == BottomStep(p, byte)
<1>1. byte \in Numbers
  BY BytesInNumbers, FramingAssumption DEF Numbers
<1>2. /\ p \in BottomParsers
      /\ p.stage \in Int
      /\ p.channel \in Numbers /\ p.length \in Numbers /\ p.buffer \in Seq(Bytes)
  BY DEF BottomTypeOK, BottomParsers
<1>0. -4 \in Int /\ -3 \in Int /\ -2 \in Int /\ -1 \in Int /\ 0 \in Int
  OBVIOUS
<1>3. CASE p.stage < -4
  <2> DEFINE t == p.stage + 1
             q == [p EXCEPT !.stage = t]
             expected == Header[p.stage + HeaderSize + 5]
             c == IF p.stage = -5 THEN Introduce ELSE Nothing
  <2>1. step = IF byte # expected THEN [next |-> p, call |-> Fails("not_xzibit")]
                                  ELSE [next |-> q, call |-> c]
    BY <1>2, <1>3 DEF BottomStep
  <2>2. t \in Int
    BY <1>2
  <2>3. q \in BottomParsers /\ BottomIs(q, t, p.channel, p.length, p.buffer)
    <3> HIDE DEF t
    <3> QED BY <1>2, <2>2 DEF BottomParsers, BottomIs
  <2> HIDE DEF q, expected, c
  <2>4. CASE byte # expected
    <3>1. step.next = p /\ step.call = Fails("not_xzibit")
      BY <2>1, <2>4
    <3> HIDE DEF step
    <3> QED BY <1>2, <1>3, <2>4, <3>1 DEF step, expected
  <2>5. CASE byte = expected
    <3>1. step.next = q /\ step.call = c
      BY <2>1, <2>5
    <3> HIDE DEF step
    <3> QED BY <1>2, <1>3, <2>3, <2>5, <3>1 DEF step, expected, c
  <2> QED BY <2>4, <2>5
<1>4. CASE p.stage = -4
  <2> DEFINE q == [p EXCEPT !.channel = byte, !.stage = -3]
  <2>1. step = [next |-> q, call |-> Nothing]
    BY <1>4 DEF BottomStep
  <2>2. q \in BottomParsers /\ BottomIs(q, -3, byte, p.length, p.buffer)
    BY <1>0, <1>1, <1>2, BottomSetChannel, Zenon
  <2>3. step.next = q /\ step.call = Nothing
    BY <2>1
  <2> HIDE DEF step, q
  <2> QED BY <1>4, <2>2, <2>3 DEF step
<1>5. CASE p.stage = -3
  <2> DEFINE c == p.channel + byte * ByteSize
             q == [p EXCEPT !.channel = c, !.stage = -2]
  <2>1. step = [next |-> q, call |-> Nothing]
    BY <1>5 DEF BottomStep
  <2>2. c \in Numbers
    BY <1>5, BytesInNumbers DEF BottomTypeOK
  <2>3. q \in BottomParsers /\ BottomIs(q, -2, c, p.length, p.buffer)
    <3> HIDE DEF c
    <3> QED BY <1>0, <1>2, <2>2, BottomSetChannel, Zenon
  <2>4. step.next = q /\ step.call = Nothing
    BY <2>1
  <2> HIDE DEF step, q
  <2> QED BY <1>5, <2>3, <2>4 DEF step
<1>6. CASE p.stage = -2
  <2> DEFINE q == [p EXCEPT !.length = byte, !.stage = -1]
  <2>1. step = [next |-> q, call |-> Nothing]
    BY <1>6 DEF BottomStep
  <2>2. q \in BottomParsers /\ BottomIs(q, -1, p.channel, byte, p.buffer)
    BY <1>0, <1>1, <1>2, BottomSetLength, Zenon
  <2>3. step.next = q /\ step.call = Nothing
    BY <2>1
  <2> HIDE DEF step, q
  <2> QED BY <1>6, <2>2, <2>3 DEF step
<1>7. CASE p.stage = -1
  <2> DEFINE l == p.length + byte * ByteSize
             q == [p EXCEPT !.length = l, !.stage = 0]
  <2>1. step = [next |-> q, call |-> Nothing]
    BY <1>7 DEF BottomStep
  <2>2. l \in Numbers
    BY <1>7, BytesInNumbers DEF BottomTypeOK
  <2>3. q \in BottomParsers /\ BottomIs(q, 0, p.channel, l, p.buffer)
    <3> HIDE DEF l
    <3> QED BY <1>0, <1>2, <2>2, BottomSetLength, Zenon
  <2>4. step.next = q /\ step.call = Nothing
    BY <2>1
  <2> HIDE DEF step, q
  <2> QED BY <1>7, <2>3, <2>4 DEF step
<1>8. CASE p.stage >= 0
  <2>1. step = BottomByte(p, byte)
    BY <1>2, <1>8 DEF BottomStep
  <2>2. CASE p.length = 0
    <3>1. step = [next |-> p, call |-> Fails("null_buffer")]
      BY <2>1, <2>2 DEF BottomByte
    <3>2. step.next = p /\ step.call = Fails("null_buffer")
      BY <3>1
    <3> HIDE DEF step
    <3> QED BY <1>2, <1>8, <2>2, <3>2 DEF step
  <2>3. CASE p.length # 0 /\ p.stage = p.length - 1
    <3> DEFINE q == [p EXCEPT !.buffer = <<>>, !.stage = -4]
               h == Handle(Block(p.channel, Append(p.buffer, byte)))
    <3>1. step = [next |-> q, call |-> h]
      BY <2>1, <2>3 DEF BottomByte
    <3>2. q \in BottomParsers /\ BottomIs(q, -4, p.channel, p.length, <<>>)
      BY <1>0, <1>2, EmptySeq, BottomSetBuffer, Zenon
    <3> HIDE DEF q, h
    <3>3. step.next = q /\ step.call = h
      BY <3>1
    <3> HIDE DEF step
    <3> QED BY <1>2, <1>8, <2>3, <3>2, <3>3 DEF h, step
  <2>4. CASE p.length # 0 /\ p.stage # p.length - 1
    <3> DEFINE s == Append(p.buffer, byte)
               t == p.stage + 1
               q == [p EXCEPT !.buffer = s, !.stage = t]
    <3>1. step = [next |-> q, call |-> Nothing]
      BY <2>1, <2>4 DEF BottomByte
    <3>2. s \in Seq(Bytes) /\ t \in Int
      BY <1>2, BlockType
    <3>3. q \in BottomParsers /\ BottomIs(q, t, p.channel, p.length, s)
      <4> HIDE DEF s, t
      <4> QED BY <1>2, <3>2, BottomSetBuffer, Zenon
    <3>4. step.next = q /\ step.call = Nothing
      BY <3>1
    <3> HIDE DEF step, q
    <3> QED BY <1>2, <1>8, <2>4, <3>3, <3>4 DEF step
  <2> QED BY <2>2, <2>3, <2>4
<1> QED BY <1>2, <1>3, <1>4, <1>5, <1>6, <1>7, <1>8, SMTT(30)

\* What a parser may have called.
Calls(call, why) ==
  \/ call = Nothing
  \/ call.does = "fail" /\ call.why \in why
  \/ call.does = "handle" /\ call.block \in Blocks

\* The display program's parser keeps its types whatever it reads.
LEMMA FdStepTypes ==
  ASSUME NEW p, FdTypeOK(p), NEW byte \in Bytes
  PROVE  /\ FdTypeOK(FdStep(p, byte).next)
         /\ Calls(FdStep(p, byte).call, {"null_buffer"})
<1> DEFINE next == FdStep(p, byte).next
           call == FdStep(p, byte).call
<1>1. /\ p.state \in {"start", "seen_channel", "seen_length"} /\ p.through \in Nat
      /\ p.channel \in Numbers /\ p.length \in Numbers /\ p.buffer \in Seq(Bytes)
      /\ p.state # "seen_length" => p.through \in {0, 1}
  BY DEF FdTypeOK, FdParsers
<1>2. next \in FdParsers
  BY FdMoves
<1>3. Block(p.channel, Append(p.buffer, byte)) \in Blocks
  BY <1>1, BlockType
<1>4. Calls(Fails("null_buffer"), {"null_buffer"}) /\ Calls(Nothing, {"null_buffer"})
  BY DEF Calls, Fails
<1>5. \A b \in Blocks : Calls(Handle(b), {"null_buffer"})
  BY DEF Calls, Handle
<1>6. CASE p.state # "seen_length"
  <2>1. /\ call = Nothing
        /\ next.state # "seen_length" => next.through \in {0, 1}
        /\ next.state = "start" /\ next.through = 1 => next.channel = byte
        /\ next.state = "seen_channel" /\ next.through = 1 => next.length = byte
    BY <1>1, <1>6, FdMoves DEF FdIs
  <2> QED BY <1>2, <1>4, <2>1 DEF FdTypeOK
<1>7. CASE p.state = "seen_length"
  <2>1. CASE p.length = 0
    <3>1. next = p /\ call = Fails("null_buffer")
      BY <1>7, <2>1, FdMoves
    <3> QED BY <1>4, <3>1
  <2>2. CASE p.length # 0 /\ p.through + 1 = p.length
    <3>1. /\ next.state = "start" /\ next.through = 0
          /\ call = Handle(Block(p.channel, Append(p.buffer, byte)))
      BY <1>7, <2>2, FdMoves DEF FdIs
    <3> QED BY <1>2, <1>3, <1>5, <3>1 DEF FdTypeOK
  <2>3. CASE p.length # 0 /\ p.through + 1 # p.length
    <3>1. next.state = "seen_length" /\ call = Nothing
      BY <1>7, <2>3, FdMoves DEF FdIs
    <3> QED BY <1>2, <1>4, <3>1 DEF FdTypeOK
  <2> QED BY <2>1, <2>2, <2>3
<1> QED BY <1>6, <1>7

\* And so does the sharer's.
LEMMA BottomStepTypes ==
  ASSUME NEW p, BottomTypeOK(p), NEW byte \in Bytes
  PROVE  /\ BottomTypeOK(BottomStep(p, byte).next)
         /\ \/ Calls(BottomStep(p, byte).call, {"null_buffer", "not_xzibit"})
            \/ BottomStep(p, byte).call = Introduce
<1> DEFINE next == BottomStep(p, byte).next
           call == BottomStep(p, byte).call
           why == {"null_buffer", "not_xzibit"}
<1>1. /\ p.stage \in Int /\ p.stage >= -4 - HeaderSize
      /\ p.channel \in Numbers /\ p.length \in Numbers /\ p.buffer \in Seq(Bytes)
      /\ p.stage > 0 => p.stage < p.length
      /\ HeaderSize \in Nat \ {0}
  BY FramingAssumption DEF BottomTypeOK, BottomParsers
<1>2. next \in BottomParsers
  BY BottomMoves
<1>3. Block(p.channel, Append(p.buffer, byte)) \in Blocks
  BY <1>1, BlockType
<1>4. Calls(Fails("null_buffer"), why) /\ Calls(Fails("not_xzibit"), why) /\ Calls(Nothing, why)
  BY DEF Calls, Fails
<1>5. \A b \in Blocks : Calls(Handle(b), why)
  BY DEF Calls, Handle
<1> HIDE DEF why
<1>6. CASE p.stage < -4
  <2>1. CASE byte = Header[p.stage + HeaderSize + 5]
    <3>1. next.stage = p.stage + 1 /\ call \in {Introduce, Nothing}
      BY <1>6, <2>1, BottomMoves DEF BottomIs
    <3> HIDE DEF next, call
    <3>2. BottomTypeOK(next)
      BY <1>1, <1>2, <1>6, <3>1 DEF BottomTypeOK
    <3> QED BY <1>4, <3>1, <3>2 DEF why, next, call
  <2>2. CASE byte # Header[p.stage + HeaderSize + 5]
    <3>1. next = p /\ call = Fails("not_xzibit")
      BY <1>6, <2>2, BottomMoves
    <3> QED BY <1>4, <3>1 DEF why
  <2> QED BY <2>1, <2>2
<1>7. CASE p.stage \in -4 .. -1
  <2>1. /\ call = Nothing
        /\ next.stage = p.stage + 1
        /\ next.stage = -3 => next.channel = byte
        /\ next.stage = -1 => next.length = byte
    <3>1. p.stage = -4 \/ p.stage = -3 \/ p.stage = -2 \/ p.stage = -1
      BY <1>7
    <3> QED BY <3>1, BottomMoves DEF BottomIs
  <2> HIDE DEF next, call
  <2>2. BottomTypeOK(next)
    BY <1>1, <1>2, <1>7, <2>1 DEF BottomTypeOK
  <2> QED BY <1>4, <2>1, <2>2 DEF why, next, call
<1>8. CASE p.stage >= 0
  <2>1. CASE p.length = 0
    <3>1. next = p /\ call = Fails("null_buffer")
      BY <1>8, <2>1, BottomMoves
    <3> QED BY <1>4, <3>1 DEF why
  <2>2. CASE p.length # 0 /\ p.stage = p.length - 1
    <3>1. /\ next.stage = -4
          /\ call = Handle(Block(p.channel, Append(p.buffer, byte)))
      BY <1>8, <2>2, BottomMoves DEF BottomIs
    <3> HIDE DEF next, call
    <3>2. BottomTypeOK(next)
      BY <1>1, <1>2, <3>1 DEF BottomTypeOK
    <3> QED BY <1>3, <1>5, <3>1, <3>2 DEF why, next, call
  <2>3. CASE p.length # 0 /\ p.stage # p.length - 1
    <3>1. /\ next.stage = p.stage + 1 /\ next.length = p.length
          /\ call = Nothing
      BY <1>8, <2>3, BottomMoves DEF BottomIs
    <3>2. p.length \in Nat /\ p.stage + 1 < p.length
      BY <1>1, <1>8, <2>3, FramingAssumption DEF Numbers
    <3> HIDE DEF next, call
    <3>3. BottomTypeOK(next)
      BY <1>1, <1>2, <1>8, <3>1, <3>2 DEF BottomTypeOK
    <3> QED BY <1>4, <3>1, <3>3 DEF why, next, call
  <2> QED BY <2>1, <2>2, <2>3
<1> QED BY <1>1, <1>6, <1>7, <1>8

-----------------------------------------------------------------------------
(* The types of the state.                                                 *)

AllBlocks == DownBlocks \cup UpBlocks \cup {Avatar}

\* A block of no bytes never counts as sent.
Sendable == {b \in AllBlocks : b.payload # <<>>}

\* What is left to write of a block: nothing, its payload, or all of it.
Outs(b) == {<<>>, <<b.payload>>} \cup Writes(b)

RelayJobs == [to : {"nowhere", "up", "pipe"}, bytes : Seq(Bytes)]

SharerTypes ==
  /\ sharer \in {"running", "null_buffer", "not_xzibit"} \union HungUp
  /\ BottomTypeOK(bottom) /\ bottomIn \in Seq(Bytes)
  /\ sending \in AllBlocks /\ bottomOut \in Outs(sending)

RelayTypes ==
  /\ relay \in {"running", "null_avatar", "bus_died"}
  /\ listening \in BOOLEAN /\ topWatch \in BOOLEAN /\ spawned \in BOOLEAN
  /\ relayOut \in RelayJobs

DisplayTypes ==
  /\ display \in {"none", "running", "absent", "null_buffer"}
  /\ FdTypeOK(fd) /\ fdIn \in Seq(Bytes) /\ displayOut \in Seq(Bytes)

SocketTypes ==
  /\ tubeOpen \in BOOLEAN
  /\ tube \in Seq(Bytes) /\ Len(tube) <= TubeSize
  /\ up \in Seq(Bytes) /\ Len(up) <= UpSize
  /\ pipe \in Seq(Bytes) /\ Len(pipe) <= PipeSize
  /\ back \in Seq(Bytes) /\ Len(back) <= PipeSize

HistoryTypes ==
  /\ sentDown \in Seq(Sendable) /\ gotDown \in Seq(Blocks) /\ brokenDown \in BOOLEAN
  /\ sentUp \in Seq(Sendable) /\ gotUp \in Seq(Blocks)

LinkTypes == SharerTypes /\ RelayTypes /\ DisplayTypes /\ SocketTypes /\ HistoryTypes

LEMMA BlockBytes ==
  /\ AllBlocks \subseteq AnyBlocks
  /\ Sendable \subseteq AllBlocks
  /\ \A b \in AllBlocks :
       /\ b.payload \in Seq(Bytes) /\ Len(b.payload) \in Nat
       /\ Preamble(b) \in Seq(Bytes) /\ Len(Preamble(b)) = 4
       /\ Wire(b) \in Seq(Bytes)
       /\ Len(Wire(b)) = 4 + Len(b.payload)
<1>1. AllBlocks \subseteq AnyBlocks
  BY LinkAssumption DEF AllBlocks, AnyBlocks
<1>2. Sendable \subseteq AllBlocks
  BY DEF Sendable
<1>3. ASSUME NEW b \in AllBlocks
      PROVE  /\ b.payload \in Seq(Bytes) /\ Len(b.payload) \in Nat
             /\ Preamble(b) \in Seq(Bytes) /\ Len(Preamble(b)) = 4
             /\ Wire(b) \in Seq(Bytes)
             /\ Len(Wire(b)) = 4 + Len(b.payload)
  <2>1. b \in AnyBlocks
    BY <1>1
  <2> QED BY <2>1, PreambleBytes, WireBytes
<1> QED BY <1>1, <1>2, <1>3

LEMMA Sizes ==
  /\ TubeSize \in Nat \ {0} /\ UpSize \in Nat \ {0}
  /\ PipeSize \in Nat \ {0} /\ ReadSize \in Nat \ {0}
BY LinkAssumption

\* What the writes of a block consist of, one by one.
LEMMA OutsForms ==
  ASSUME NEW b, NEW out \in Outs(b), out # <<>>
  PROVE  \/ out = <<b.payload>> /\ Len(out) = 1 /\ Head(out) = b.payload /\ Tail(out) = <<>>
         \/ /\ out = <<Preamble(b), b.payload>> /\ Len(out) = 2
            /\ Head(out) = Preamble(b) /\ Tail(out) = <<b.payload>>
         \/ /\ out = <<Wire(b)>> /\ Len(out) = 1 /\ Head(out) = Wire(b) /\ Tail(out) = <<>>
<1>1. \A x : Len(<<x>>) = 1 /\ Head(<<x>>) = x /\ Tail(<<x>>) = <<>>
  OBVIOUS
<1>2. \A x, y : Len(<<x, y>>) = 2 /\ Head(<<x, y>>) = x /\ Tail(<<x, y>>) = <<y>>
  OBVIOUS
<1>3. \/ out = <<b.payload>>
      \/ out = <<Preamble(b), b.payload>>
      \/ out = <<Wire(b)>>
  BY DEF Outs, Writes, Wire
<1> QED BY <1>1, <1>2, <1>3, Zenon

\* The least of two numbers.
LEMMA LeastOf ==
  ASSUME NEW m \in Nat, NEW n \in Int, n >= 0
  PROVE  /\ Least(m, n) \in 0 .. m /\ Least(m, n) <= n
         /\ Least(m, n) # m => Least(m, n) = n /\ n < m
         /\ m > 0 /\ n > 0 => Least(m, n) > 0
BY DEF Least

\* A part that fits is added to a socket.
LEMMA Fills ==
  ASSUME NEW q \in Seq(Bytes), NEW size \in Nat, Len(q) <= size, NEW w \in Seq(Bytes),
         NEW n, n = Least(Len(w), size - Len(q))
  PROVE  /\ n \in 0 .. Len(w)
         /\ First(w, n) \in Seq(Bytes) /\ Rest(w, n) \in Seq(Bytes)
         /\ q \o First(w, n) \in Seq(Bytes) /\ Len(q \o First(w, n)) <= size
<1>1. Len(q) \in Nat /\ Len(w) \in Nat
  OBVIOUS
<1>2. n \in 0 .. Len(w) /\ n <= size - Len(q)
  BY <1>1, LeastOf
<1>3. First(w, n) \in Seq(Bytes) /\ Rest(w, n) \in Seq(Bytes) /\ Len(First(w, n)) = n
  BY <1>2, Cut
<1>4. q \o First(w, n) \in Seq(Bytes) /\ Len(q \o First(w, n)) = Len(q) + n
  BY <1>3, ConcatProperties, ZenonT(30)
<1> QED BY <1>1, <1>2, <1>3, <1>4

\* A part is read from a socket.
LEMMA Drains ==
  ASSUME NEW q \in Seq(Bytes), NEW n, n = Least(Len(q), ReadSize)
  PROVE  /\ n \in 0 .. Len(q)
         /\ First(q, n) \in Seq(Bytes) /\ Rest(q, n) \in Seq(Bytes)
         /\ Len(Rest(q, n)) <= Len(q)
         /\ q # <<>> => First(q, n) # <<>>
<1>1. Len(q) \in Nat
  OBVIOUS
<1>2. n \in 0 .. Len(q) /\ (Len(q) > 0 => n > 0)
  BY <1>1, LeastOf, Sizes
<1>3. /\ First(q, n) \in Seq(Bytes) /\ Rest(q, n) \in Seq(Bytes) /\ Len(First(q, n)) = n
      /\ Len(Rest(q, n)) = Len(q) - n
  BY <1>2, Cut
<1>4. q # <<>> => First(q, n) # <<>>
  <2>1. q # <<>> => Len(q) > 0
    BY <1>1, EmptySeq
  <2> QED BY <1>2, <1>3, <2>1
<1> QED BY <1>1, <1>2, <1>3, <1>4

LEMMA GreetingBytes ==
  ASSUME NEW len
  PROVE  Greeting(len) \in Seq(Bytes)
<1>1. Header \in Seq(Bytes)
  BY HeaderBytes
<1>2. Wire(Avatar) \in Seq(Bytes) /\ <<>> \in Seq(Bytes)
  BY BlockBytes, EmptySeq DEF AllBlocks
<1>3. Greeting(len) = Header \o (IF len = 0 THEN <<>> ELSE Wire(Avatar))
  BY DEF Greeting, Wire
<1> QED BY <1>1, <1>2, <1>3, Joined

LEMMA LinkInitTypes ==
  Init => LinkTypes
<1> SUFFICES ASSUME Init
             PROVE  LinkTypes
  OBVIOUS
<1>1. <<>> \in Seq(Bytes) /\ <<>> \in Seq(Sendable) /\ <<>> \in Seq(Blocks) /\ Len(<<>>) = 0
  OBVIOUS
<1>2. 0 \in Numbers /\ HeaderSize \in Nat
  BY FramingAssumption, BytesInNumbers DEF Numbers, Bytes
<1>3. BottomTypeOK(BottomStart)
  <2> DEFINE s == -4 - HeaderSize
  <2>1. s \in Int /\ s >= -4 - HeaderSize /\ s # -3 /\ s # -1 /\ ~(s > 0)
    BY <1>2, FramingAssumption
  <2>2. BottomStart = [stage |-> s, channel |-> 0, length |-> 0, buffer |-> <<>>]
    BY DEF BottomStart
  <2>3. /\ BottomStart \in BottomParsers /\ BottomStart.stage = s
    <3> HIDE DEF s
    <3> QED BY <1>1, <1>2, <2>1, <2>2 DEF BottomParsers
  <2> QED BY <2>1, <2>3 DEF BottomTypeOK
<1>4. FdTypeOK(FdStart)
  BY <1>1, <1>2 DEF FdTypeOK, FdParsers, FdStart
<1>5. SharerTypes
  BY <1>1, <1>3 DEF SharerTypes, Init, AllBlocks, Outs
<1>6. RelayTypes
  BY <1>1 DEF RelayTypes, Init, RelayJobs, Idle
<1>7. DisplayTypes
  BY <1>1, <1>4 DEF DisplayTypes, Init
<1>8. SocketTypes
  BY <1>1, Sizes DEF SocketTypes, Init
<1>9. HistoryTypes
  BY <1>1 DEF HistoryTypes, Init
<1> QED BY <1>5, <1>6, <1>7, <1>8, <1>9 DEF LinkTypes

-----------------------------------------------------------------------------
(* Every step keeps the types.                                             *)

LEMMA SharerSendsTypes ==
  ASSUME LinkTypes, NEW b \in DownBlocks, SharerSends(b)
  PROVE  LinkTypes'
<1>1. SharerTypes'
  <2>1. sending' \in AllBlocks
    BY DEF SharerSends, AllBlocks
  <2>2. bottomOut' \in Outs(sending')
    BY DEF SharerSends, Outs
  <2>3. UNCHANGED <<sharer, bottom, bottomIn>>
    BY DEF SharerSends
  <2> QED BY <2>1, <2>2, <2>3 DEF LinkTypes, SharerTypes
<1>2. RelayTypes' /\ DisplayTypes' /\ SocketTypes' /\ HistoryTypes'
  BY DEF SharerSends, LinkTypes, RelayTypes, DisplayTypes, SocketTypes, HistoryTypes,
         relayVars, displayVars, tubeVars, downHistory, upHistory
<1> QED BY <1>1, <1>2 DEF LinkTypes

\* What is left is again a part of the block's writes; what counts as sent is a
\* block of at least one byte.
LEMMA SharerWritesTypes ==
  ASSUME LinkTypes, SharerWrites
  PROVE  LinkTypes'
<1> DEFINE bytes == Head(bottomOut)
           n == Least(Len(bytes), TubeSize - Len(tube))
           whole == n = Len(bytes)
<1>1. /\ sending \in AllBlocks /\ bottomOut \in Outs(sending) /\ bottomOut # <<>>
      /\ tube \in Seq(Bytes) /\ Len(tube) <= TubeSize /\ sentDown \in Seq(Sendable)
      /\ brokenDown \in BOOLEAN
  BY DEF LinkTypes, SharerTypes, SocketTypes, HistoryTypes, SharerWrites
<1>2. bytes \in Seq(Bytes)
  <2>1. bytes \in {sending.payload, Preamble(sending), Wire(sending)}
    BY <1>1, OutsForms, Zenon
  <2> QED BY <1>1, <2>1, BlockBytes
<1>3. Tail(bottomOut) \in {<<>>, <<sending.payload>>}
  BY <1>1, OutsForms, Zenon
<1>4. /\ tube' = IF tubeOpen THEN tube \o First(bytes, n) ELSE tube
      /\ bottomOut' = IF whole THEN Tail(bottomOut) ELSE <<>>
      /\ whole /\ Len(bottomOut) = 1 /\ sending.payload = <<>> => brokenDown'
      /\ brokenDown' \in BOOLEAN
      /\ sentDown' = IF whole /\ Len(bottomOut) = 1 /\ ~brokenDown'
                     THEN Append(sentDown, sending) ELSE sentDown
      /\ UNCHANGED <<sharer, bottom, bottomIn, sending, up, tubeOpen, relayVars,
                     displayVars, pipe, back, gotDown, upHistory>>
  BY <1>1 DEF SharerWrites
<1> HIDE DEF bytes
<1>5. tube' \in Seq(Bytes) /\ Len(tube') <= TubeSize
  <2>1. tube \o First(bytes, n) \in Seq(Bytes) /\ Len(tube \o First(bytes, n)) <= TubeSize
    BY <1>1, <1>2, Sizes, Fills
  <2> QED BY <1>1, <1>4, <2>1
<1> HIDE DEF n, whole
<1>6. SharerTypes'
  <2>1. bottomOut' \in Outs(sending)
    BY <1>3, <1>4 DEF Outs
  <2> QED BY <1>4, <2>1 DEF LinkTypes, SharerTypes
<1>7. HistoryTypes'
  <2>1. sentDown' \in Seq(Sendable)
    <3>1. CASE whole /\ Len(bottomOut) = 1 /\ ~brokenDown'
      <4>1. sending \in Sendable
        BY <1>1, <1>4, <3>1 DEF Sendable
      <4>2. Append(sentDown, sending) \in Seq(Sendable)
        BY <1>1, <4>1, AppendProperties
      <4> QED BY <1>4, <3>1, <4>2
    <3>2. CASE ~(whole /\ Len(bottomOut) = 1 /\ ~brokenDown')
      BY <1>1, <1>4, <3>2
    <3> QED BY <3>1, <3>2
  <2> QED BY <1>4, <2>1 DEF LinkTypes, HistoryTypes, upHistory
<1>8. RelayTypes' /\ DisplayTypes' /\ SocketTypes'
  BY <1>4, <1>5 DEF LinkTypes, RelayTypes, DisplayTypes, SocketTypes, relayVars, displayVars
<1> QED BY <1>6, <1>7, <1>8 DEF LinkTypes

LEMMA SharerReadsTypes ==
  ASSUME LinkTypes, SharerReads
  PROVE  LinkTypes'
<1> DEFINE n == Least(Len(up), ReadSize)
<1>1. /\ bottomIn' = First(up, n) /\ up' = Rest(up, n)
      /\ UNCHANGED <<sharer, bottom, bottomOut, sending, tube, tubeOpen, relayVars,
                     displayVars, pipe, back, downHistory, upHistory>>
  BY DEF SharerReads
<1>2. up \in Seq(Bytes) /\ Len(up) <= UpSize
  BY DEF LinkTypes, SocketTypes
<1>3. /\ First(up, n) \in Seq(Bytes) /\ Rest(up, n) \in Seq(Bytes)
      /\ Len(Rest(up, n)) <= Len(up)
  BY <1>2, Drains
<1> HIDE DEF n
<1>4. up' \in Seq(Bytes) /\ Len(up') <= UpSize
  <2>1. up' \in Seq(Bytes) /\ Len(up') <= Len(up)
    BY <1>1, <1>3
  <2>2. Len(up') \in Nat /\ Len(up) \in Nat /\ UpSize \in Nat
    BY <1>2, <2>1, Sizes
  <2> QED BY <1>2, <2>1, <2>2
<1>5. SharerTypes'
  BY <1>1, <1>3 DEF LinkTypes, SharerTypes
<1>6. SocketTypes'
  BY <1>1, <1>4 DEF LinkTypes, SocketTypes
<1>7. RelayTypes' /\ DisplayTypes' /\ HistoryTypes'
  BY <1>1 DEF LinkTypes, RelayTypes, DisplayTypes, HistoryTypes, relayVars, displayVars,
              downHistory, upHistory
<1> QED BY <1>5, <1>6, <1>7 DEF LinkTypes

LEMMA NextByte ==
  ASSUME NEW q \in Seq(Bytes), q # <<>>
  PROVE  Head(q) \in Bytes /\ Tail(q) \in Seq(Bytes)
BY HeadTailProperties

\* A call is one of these, and one of these only.
LEMMA CallKinds ==
  ASSUME NEW call, NEW why, Calls(call, why) \/ call = Introduce
  PROVE  /\ call.does = "fail" => call.why \in why
         /\ call.does = "handle" => call.block \in Blocks
BY DEF Calls, Nothing, Introduce

LEMMA CopyBottomToClientTypes ==
  ASSUME LinkTypes, CopyBottomToClient
  PROVE  LinkTypes'
<1> DEFINE step == BottomStep(bottom, Head(bottomIn))
<1>1. /\ bottom' = step.next /\ bottomIn' = Tail(bottomIn) /\ bottomIn # <<>>
      /\ sharer' = IF step.call.does = "fail" THEN step.call.why ELSE sharer
      /\ gotUp' = IF step.call.does = "handle" THEN Append(gotUp, step.call.block)
                                               ELSE gotUp
      /\ \/ bottomOut' = <<Preamble(Avatar), Avatar.payload>> /\ sending' = Avatar
         \/ UNCHANGED <<bottomOut, sending>>
      /\ UNCHANGED <<tubeVars, relayVars, displayVars, pipe, back, downHistory, sentUp>>
  BY DEF CopyBottomToClient
<1>2. /\ BottomTypeOK(bottom) /\ bottomIn \in Seq(Bytes)
      /\ gotUp \in Seq(Blocks)
      /\ sharer \in {"running", "null_buffer", "not_xzibit"} \union HungUp
      /\ sending \in AllBlocks /\ bottomOut \in Outs(sending)
  BY DEF LinkTypes, SharerTypes, HistoryTypes
<1>3. Head(bottomIn) \in Bytes /\ Tail(bottomIn) \in Seq(Bytes)
  BY <1>1, <1>2, NextByte
<1>4. /\ BottomTypeOK(step.next)
      /\ \/ Calls(step.call, {"null_buffer", "not_xzibit"})
         \/ step.call = Introduce
  BY <1>2, <1>3, BottomStepTypes
<1>5. /\ step.call.does = "fail" => step.call.why \in {"null_buffer", "not_xzibit"}
      /\ step.call.does = "handle" => step.call.block \in Blocks
  BY <1>4, CallKinds, Zenon
<1> HIDE DEF step
<1>6. SharerTypes'
  <2>1. sharer' \in {"running", "null_buffer", "not_xzibit"} \union HungUp
    BY <1>1, <1>2, <1>5
  <2>2. sending' \in AllBlocks /\ bottomOut' \in Outs(sending')
    BY <1>1, <1>2 DEF Outs, Writes, AllBlocks
  <2> QED BY <1>1, <1>3, <1>4, <2>1, <2>2 DEF SharerTypes
<1>7. HistoryTypes'
  <2>1. gotUp' \in Seq(Blocks)
    BY <1>1, <1>2, <1>5, AppendProperties
  <2> QED BY <1>1, <2>1 DEF LinkTypes, HistoryTypes, downHistory
<1>8. RelayTypes' /\ DisplayTypes' /\ SocketTypes'
  BY <1>1 DEF LinkTypes, RelayTypes, DisplayTypes, SocketTypes, relayVars, displayVars,
              tubeVars
<1> QED BY <1>6, <1>7, <1>8 DEF LinkTypes

LEMMA RefuseConnectionTypes ==
  ASSUME LinkTypes, RefuseConnection
  PROVE  LinkTypes'
<1>1. RelayTypes'
  BY DEF RefuseConnection, LinkTypes, RelayTypes
<1>2. SharerTypes' /\ DisplayTypes' /\ SocketTypes' /\ HistoryTypes'
  BY DEF RefuseConnection, LinkTypes, SharerTypes, DisplayTypes, SocketTypes,
         HistoryTypes, sharerVars, displayVars, tubeVars, downHistory, upHistory
<1> QED BY <1>1, <1>2 DEF LinkTypes

\* The avatar counts as sent unless it is empty.
LEMMA AcceptConnectionTypes ==
  ASSUME LinkTypes, AcceptConnection
  PROVE  LinkTypes'
<1>1. Avatar \in Sendable
  BY LinkAssumption DEF Sendable, AllBlocks
<1>2. /\ UNCHANGED <<listening, spawned, sharerVars, tubeVars, displayVars, pipe,
                     back, downHistory, gotUp>>
      /\ \/ relay' = "null_avatar" /\ UNCHANGED <<topWatch, relayOut, sentUp>>
         \/ \E len \in {0, Len(Avatar.payload)} :
              /\ relayOut' = [to |-> "up", bytes |-> Greeting(len)]
              /\ sentUp' = IF len = 0 THEN sentUp ELSE Append(sentUp, Avatar)
              /\ topWatch' = TRUE
              /\ UNCHANGED relay
  BY DEF AcceptConnection
<1>3. sentUp \in Seq(Sendable)
  BY DEF LinkTypes, HistoryTypes
<1>4. RelayTypes' /\ sentUp' \in Seq(Sendable)
  <2>1. CASE relay' = "null_avatar" /\ UNCHANGED <<topWatch, relayOut, sentUp>>
    BY <1>2, <1>3, <2>1 DEF LinkTypes, RelayTypes
  <2>2. ASSUME NEW len \in {0, Len(Avatar.payload)},
               relayOut' = [to |-> "up", bytes |-> Greeting(len)],
               sentUp' = IF len = 0 THEN sentUp ELSE Append(sentUp, Avatar),
               topWatch' = TRUE, UNCHANGED relay
        PROVE  RelayTypes' /\ sentUp' \in Seq(Sendable)
    <3>1. [to |-> "up", bytes |-> Greeting(len)] \in RelayJobs
      BY GreetingBytes DEF RelayJobs
    <3>2. Append(sentUp, Avatar) \in Seq(Sendable)
      BY <1>1, <1>3, AppendProperties
    <3>3. sentUp' \in Seq(Sendable)
      BY <1>3, <2>2, <3>2
    <3> QED BY <1>2, <2>2, <3>1, <3>3 DEF LinkTypes, RelayTypes
  <2> QED BY <1>2, <2>1, <2>2
<1>5. SharerTypes' /\ DisplayTypes' /\ SocketTypes' /\ HistoryTypes'
  BY <1>2, <1>4 DEF LinkTypes, SharerTypes, DisplayTypes, SocketTypes, HistoryTypes,
                    sharerVars, displayVars, tubeVars, downHistory
<1> QED BY <1>4, <1>5 DEF LinkTypes

LEMMA CopyTopToServerTypes ==
  ASSUME LinkTypes, CopyTopToServer
  PROVE  LinkTypes'
<1> DEFINE n == Least(Len(tube), ReadSize)
<1>1. /\ \/ UNCHANGED <<spawned, display>>
         \/ spawned' = TRUE /\ display' \in {"running", "absent"}
      /\ \/ topWatch' \in BOOLEAN /\ UNCHANGED <<relayOut, tube>>
         \/ /\ relayOut' = [to |-> "pipe", bytes |-> First(tube, n)]
            /\ tube' = Rest(tube, n)
            /\ UNCHANGED topWatch
      /\ relay' \in {relay, "bus_died"}
      /\ UNCHANGED <<backlog, listening, sharerVars, up, tubeOpen, fd, fdIn,
                     displayOut, pipe, back, downHistory, upHistory>>
  BY DEF CopyTopToServer, StartDisplay
<1>2. tube \in Seq(Bytes) /\ Len(tube) <= TubeSize
  BY DEF LinkTypes, SocketTypes
<1>3. /\ First(tube, n) \in Seq(Bytes) /\ Rest(tube, n) \in Seq(Bytes)
      /\ Len(Rest(tube, n)) <= Len(tube)
  BY <1>2, Drains
<1> HIDE DEF n
<1>4. [to |-> "pipe", bytes |-> First(tube, n)] \in RelayJobs
  BY <1>3 DEF RelayJobs
<1>5. tube' \in Seq(Bytes) /\ Len(tube') <= TubeSize
  <2>1. tube' \in Seq(Bytes) /\ Len(tube') <= Len(tube)
    <3>1. Len(tube) <= Len(tube)
      BY <1>2
    <3> QED BY <1>1, <1>2, <1>3, <3>1
  <2>2. Len(tube') \in Nat /\ Len(tube) \in Nat /\ TubeSize \in Nat
    BY <1>2, <2>1, Sizes
  <2> QED BY <1>2, <2>1, <2>2
<1>6. RelayTypes'
  BY <1>1, <1>4 DEF LinkTypes, RelayTypes
<1>7. DisplayTypes'
  BY <1>1 DEF LinkTypes, DisplayTypes
<1>8. SharerTypes' /\ SocketTypes' /\ HistoryTypes'
  BY <1>1, <1>5 DEF LinkTypes, SharerTypes, SocketTypes, HistoryTypes, sharerVars,
                    downHistory, upHistory
<1> QED BY <1>6, <1>7, <1>8 DEF LinkTypes

LEMMA CopyServerToTopTypes ==
  ASSUME LinkTypes, CopyServerToTop
  PROVE  LinkTypes'
<1> DEFINE n == Least(Len(back), ReadSize)
<1>1. /\ relayOut' = [to |-> "up", bytes |-> First(back, n)]
      /\ back' = Rest(back, n)
      /\ UNCHANGED <<relay, backlog, listening, topWatch, spawned, sharerVars,
                     tubeVars, displayVars, pipe, downHistory, upHistory>>
  BY DEF CopyServerToTop
<1>2. back \in Seq(Bytes) /\ Len(back) <= PipeSize
  BY DEF LinkTypes, SocketTypes
<1>3. /\ First(back, n) \in Seq(Bytes) /\ Rest(back, n) \in Seq(Bytes)
      /\ Len(Rest(back, n)) <= Len(back)
  BY <1>2, Drains
<1> HIDE DEF n
<1>4. [to |-> "up", bytes |-> First(back, n)] \in RelayJobs
  BY <1>3 DEF RelayJobs
<1>5. back' \in Seq(Bytes) /\ Len(back') <= PipeSize
  <2>1. back' \in Seq(Bytes) /\ Len(back') <= Len(back)
    BY <1>1, <1>3
  <2>2. Len(back') \in Nat /\ Len(back) \in Nat /\ PipeSize \in Nat
    BY <1>2, <2>1, Sizes
  <2> QED BY <1>2, <2>1, <2>2
<1>6. RelayTypes'
  BY <1>1, <1>4 DEF LinkTypes, RelayTypes
<1>7. SharerTypes' /\ DisplayTypes' /\ SocketTypes' /\ HistoryTypes'
  BY <1>1, <1>5 DEF LinkTypes, SharerTypes, DisplayTypes, SocketTypes, HistoryTypes,
                    sharerVars, displayVars, tubeVars, downHistory, upHistory
<1> QED BY <1>6, <1>7 DEF LinkTypes

\* What the relay's handler is writing to one of its two ends.
OutTo(job, end) == IF job.to = end THEN job.bytes ELSE <<>>

LEMMA JobFields ==
  ASSUME NEW to, NEW bytes
  PROVE  /\ [to |-> to, bytes |-> bytes].to = to
         /\ [to |-> to, bytes |-> bytes].bytes = bytes
         /\ to \in {"nowhere", "up", "pipe"} /\ bytes \in Seq(Bytes) =>
              [to |-> to, bytes |-> bytes] \in RelayJobs
         /\ Idle.to = "nowhere" /\ Idle.bytes = <<>> /\ Idle \in RelayJobs
BY EmptySeq DEF RelayJobs, Idle

\* When so much has been written, the rest is left.
LEMMA JobLeft ==
  ASSUME NEW job \in RelayJobs, NEW n \in 0 .. Len(job.bytes), NEW left,
         left = IF n = Len(job.bytes) THEN Idle ELSE [job EXCEPT !.bytes = Rest(job.bytes, n)]
  PROVE  /\ left \in RelayJobs
         /\ \A end \in {"up", "pipe"} :
              OutTo(left, end) = IF job.to = end THEN Rest(job.bytes, n) ELSE <<>>
<1> DEFINE r == Rest(job.bytes, n)
<1>1. /\ r \in Seq(Bytes) /\ Len(r) = Len(job.bytes) - n
      /\ job.bytes \in Seq(Bytes) /\ Len(job.bytes) \in Nat
  BY Cut DEF RelayJobs
<1> HIDE DEF r
<1>2. CASE n = Len(job.bytes)
  <2>1. left = Idle
    BY <1>2
  <2>2. r = <<>>
    BY <1>1, <1>2, EmptySeq
  <2> QED BY <2>1, <2>2, JobFields DEF OutTo, r
<1>3. CASE n # Len(job.bytes)
  <2>1. left = [job EXCEPT !.bytes = r]
    BY <1>3 DEF r
  <2>2. left \in RelayJobs /\ left.to = job.to /\ left.bytes = r
    BY <1>1, <2>1 DEF RelayJobs
  <2> QED BY <2>2 DEF OutTo, r
<1> QED BY <1>2, <1>3

\* A write of the relay takes the first bytes of what it is writing to where they go;
\* what a closed tube does not take is lost.
LEMMA RelayWritesForms ==
  ASSUME LinkTypes, RelayWrites
  PROVE  /\ relayOut' \in RelayJobs
         /\ \/ /\ relayOut.to = "up" /\ tubeOpen
               /\ \E n \in 0 .. Len(relayOut.bytes) :
                    /\ up' = up \o First(relayOut.bytes, n)
                    /\ OutTo(relayOut', "up") = Rest(relayOut.bytes, n)
               /\ Len(up') <= UpSize
               /\ OutTo(relayOut', "pipe") = <<>>
               /\ UNCHANGED pipe
            \/ /\ relayOut.to = "up" /\ ~tubeOpen
               /\ relayOut' = Idle
               /\ UNCHANGED <<up, pipe>>
            \/ /\ relayOut.to = "pipe"
               /\ \E n \in 0 .. Len(relayOut.bytes) :
                    /\ pipe' = pipe \o First(relayOut.bytes, n)
                    /\ OutTo(relayOut', "pipe") = Rest(relayOut.bytes, n)
               /\ Len(pipe') <= PipeSize
               /\ OutTo(relayOut', "up") = <<>>
               /\ UNCHANGED up
         /\ UNCHANGED <<relay, backlog, listening, topWatch, spawned, sharerVars, tube,
                        tubeOpen, displayVars, back, downHistory, upHistory>>
<1> DEFINE bytes == relayOut.bytes
           room == IF relayOut.to = "up" THEN UpSize - Len(up) ELSE PipeSize - Len(pipe)
           n == Least(Len(bytes), room)
           left == IF n = Len(bytes) THEN Idle ELSE [relayOut EXCEPT !.bytes = Rest(bytes, n)]
<1>1. /\ relayOut \in RelayJobs /\ bytes \in Seq(Bytes)
      /\ up \in Seq(Bytes) /\ Len(up) <= UpSize
      /\ pipe \in Seq(Bytes) /\ Len(pipe) <= PipeSize
  BY DEF LinkTypes, RelayTypes, SocketTypes, RelayJobs
<1>2. /\ \/ relayOut.to = "up" /\ tubeOpen /\ up' = up \o First(bytes, n)
              /\ relayOut' = left /\ UNCHANGED pipe
         \/ relayOut.to = "up" /\ ~tubeOpen /\ relayOut' = Idle /\ UNCHANGED <<up, pipe>>
         \/ relayOut.to = "pipe" /\ pipe' = pipe \o First(bytes, n)
              /\ relayOut' = left /\ UNCHANGED up
      /\ UNCHANGED <<relay, backlog, listening, topWatch, spawned, sharerVars, tube,
                     tubeOpen, displayVars, back, downHistory, upHistory>>
  BY DEF RelayWrites
<1>3. CASE relayOut.to = "up" /\ tubeOpen /\ up' = up \o First(bytes, n)
             /\ relayOut' = left /\ UNCHANGED pipe
  <2>1. n = Least(Len(bytes), UpSize - Len(up))
    BY <1>3
  <2>2. n \in 0 .. Len(bytes) /\ Len(up \o First(bytes, n)) <= UpSize
    <3> HIDE DEF bytes, n
    <3> QED BY <1>1, <2>1, Fills, Sizes
  <2>3. /\ left \in RelayJobs
        /\ OutTo(left, "up") = Rest(bytes, n) /\ OutTo(left, "pipe") = <<>>
    <3> HIDE DEF n
    <3> QED BY <1>1, <1>3, <2>2, JobLeft
  <2> HIDE DEF left, n, bytes, room
  <2> QED BY <1>2, <1>3, <2>2, <2>3 DEF bytes
<1>4. CASE relayOut.to = "up" /\ ~tubeOpen /\ relayOut' = Idle /\ UNCHANGED <<up, pipe>>
  BY <1>2, <1>4, JobFields
<1>5. CASE relayOut.to = "pipe" /\ pipe' = pipe \o First(bytes, n)
             /\ relayOut' = left /\ UNCHANGED up
  <2>1. n = Least(Len(bytes), PipeSize - Len(pipe))
    BY <1>5
  <2>2. n \in 0 .. Len(bytes) /\ Len(pipe \o First(bytes, n)) <= PipeSize
    <3> HIDE DEF bytes, n
    <3> QED BY <1>1, <2>1, Fills, Sizes
  <2>3. /\ left \in RelayJobs
        /\ OutTo(left, "pipe") = Rest(bytes, n) /\ OutTo(left, "up") = <<>>
    <3> HIDE DEF n
    <3> QED BY <1>1, <1>5, <2>2, JobLeft
  <2> HIDE DEF left, n, bytes, room
  <2> QED BY <1>2, <1>5, <2>2, <2>3 DEF bytes
<1> QED BY <1>2, <1>3, <1>4, <1>5

LEMMA RelayWritesTypes ==
  ASSUME LinkTypes, RelayWrites
  PROVE  LinkTypes'
<1>1. /\ relayOut \in RelayJobs /\ relayOut.bytes \in Seq(Bytes)
      /\ up \in Seq(Bytes) /\ Len(up) <= UpSize
      /\ pipe \in Seq(Bytes) /\ Len(pipe) <= PipeSize
  BY DEF LinkTypes, RelayTypes, SocketTypes, RelayJobs
<1>2. /\ up' \in Seq(Bytes) /\ Len(up') <= UpSize
      /\ pipe' \in Seq(Bytes) /\ Len(pipe') <= PipeSize
  <2>1. \A n \in 0 .. Len(relayOut.bytes) :
          /\ up \o First(relayOut.bytes, n) \in Seq(Bytes)
          /\ pipe \o First(relayOut.bytes, n) \in Seq(Bytes)
    BY <1>1, Cut, Joined
  <2> QED BY <1>1, <2>1, RelayWritesForms
<1>3. RelayTypes'
  <2>1. relayOut' \in RelayJobs /\ UNCHANGED <<relay, listening, topWatch, spawned>>
    BY RelayWritesForms
  <2> QED BY <2>1 DEF LinkTypes, RelayTypes
<1>4. UNCHANGED <<sharerVars, tube, tubeOpen, displayVars, back, downHistory, upHistory>>
  BY RelayWritesForms
<1>5. SharerTypes' /\ DisplayTypes' /\ SocketTypes' /\ HistoryTypes'
  BY <1>2, <1>4 DEF LinkTypes, SharerTypes, DisplayTypes, SocketTypes, HistoryTypes,
                    sharerVars, displayVars, downHistory, upHistory
<1> QED BY <1>3, <1>5 DEF LinkTypes

LEMMA DisplayReadsTypes ==
  ASSUME LinkTypes, DisplayReads
  PROVE  LinkTypes'
<1> DEFINE n == Least(Len(pipe), ReadSize)
<1>1. /\ fdIn' = First(pipe, n) /\ pipe' = Rest(pipe, n)
      /\ UNCHANGED <<sharerVars, tubeVars, relayVars, display, fd, displayOut, back,
                     downHistory, upHistory>>
  BY DEF DisplayReads
<1>2. pipe \in Seq(Bytes) /\ Len(pipe) <= PipeSize
  BY DEF LinkTypes, SocketTypes
<1>3. /\ First(pipe, n) \in Seq(Bytes) /\ Rest(pipe, n) \in Seq(Bytes)
      /\ Len(Rest(pipe, n)) <= Len(pipe)
  BY <1>2, Drains
<1> HIDE DEF n
<1>4. pipe' \in Seq(Bytes) /\ Len(pipe') <= PipeSize
  <2>1. pipe' \in Seq(Bytes) /\ Len(pipe') <= Len(pipe)
    BY <1>1, <1>3
  <2>2. Len(pipe') \in Nat /\ Len(pipe) \in Nat /\ PipeSize \in Nat
    BY <1>2, <2>1, Sizes
  <2> QED BY <1>2, <2>1, <2>2
<1>5. DisplayTypes'
  BY <1>1, <1>3 DEF LinkTypes, DisplayTypes
<1>6. SharerTypes' /\ RelayTypes' /\ SocketTypes' /\ HistoryTypes'
  BY <1>1, <1>4 DEF LinkTypes, SharerTypes, RelayTypes, SocketTypes, HistoryTypes,
                    sharerVars, relayVars, tubeVars, downHistory, upHistory
<1> QED BY <1>5, <1>6 DEF LinkTypes

\* What the display program says is a block of at least one byte.
LEMMA DisplaySaysTypes ==
  ASSUME LinkTypes, NEW b \in UpBlocks, DisplaySays(b)
  PROVE  displayOut' \in Seq(Bytes) /\ sentUp' \in Seq(Sendable)
<1>1. b \in Sendable /\ Wire(b) \in Seq(Bytes)
  BY LinkAssumption, BlockBytes DEF Sendable, AllBlocks
<1>2. displayOut' = Wire(b) /\ sentUp' = Append(sentUp, b)
  BY DEF DisplaySays, Wire
<1>3. sentUp \in Seq(Sendable)
  BY DEF LinkTypes, HistoryTypes
<1>4. Append(sentUp, b) \in Seq(Sendable)
  BY <1>1, <1>3, AppendProperties
<1> QED BY <1>1, <1>2, <1>4

LEMMA CheckForFdInputTypes ==
  ASSUME LinkTypes, CheckForFdInput
  PROVE  LinkTypes'
<1> DEFINE step == FdStep(fd, Head(fdIn))
<1>1. /\ fd' = step.next /\ fdIn' = Tail(fdIn) /\ fdIn # <<>>
      /\ display' = IF step.call.does = "fail" THEN step.call.why ELSE display
      /\ gotDown' = IF step.call.does = "handle" THEN Append(gotDown, step.call.block)
                                                 ELSE gotDown
      /\ UNCHANGED <<displayOut, sentUp>> \/ \E b \in UpBlocks : DisplaySays(b)
      /\ UNCHANGED <<sharerVars, tubeVars, relayVars, pipe, back, sentDown,
                     brokenDown, gotUp>>
  BY DEF CheckForFdInput
<1>2. /\ FdTypeOK(fd) /\ fdIn \in Seq(Bytes) /\ gotDown \in Seq(Blocks)
      /\ display \in {"none", "running", "absent", "null_buffer"}
      /\ displayOut \in Seq(Bytes) /\ sentUp \in Seq(Sendable)
  BY DEF LinkTypes, DisplayTypes, HistoryTypes
<1>3. Head(fdIn) \in Bytes /\ Tail(fdIn) \in Seq(Bytes)
  BY <1>1, <1>2, NextByte
<1>4. FdTypeOK(step.next) /\ Calls(step.call, {"null_buffer"})
  BY <1>2, <1>3, FdStepTypes
<1>5. /\ step.call.does = "fail" => step.call.why \in {"null_buffer"}
      /\ step.call.does = "handle" => step.call.block \in Blocks
  BY <1>4, CallKinds, Zenon
<1> HIDE DEF step
<1>6. displayOut' \in Seq(Bytes) /\ sentUp' \in Seq(Sendable)
  BY <1>1, <1>2, DisplaySaysTypes
<1>7. DisplayTypes'
  <2>1. display' \in {"none", "running", "absent", "null_buffer"}
    BY <1>1, <1>2, <1>5
  <2> QED BY <1>1, <1>3, <1>4, <1>6, <2>1 DEF DisplayTypes
<1>8. HistoryTypes'
  <2>1. gotDown' \in Seq(Blocks)
    BY <1>1, <1>2, <1>5, AppendProperties
  <2> QED BY <1>1, <1>6, <2>1 DEF LinkTypes, HistoryTypes
<1>9. SharerTypes' /\ RelayTypes' /\ SocketTypes'
  BY <1>1 DEF LinkTypes, SharerTypes, RelayTypes, SocketTypes, sharerVars, relayVars,
              tubeVars
<1> QED BY <1>7, <1>8, <1>9 DEF LinkTypes

LEMMA CheckForRfbRepliesTypes ==
  ASSUME LinkTypes, NEW b \in UpBlocks, CheckForRfbReplies(b)
  PROVE  LinkTypes'
<1>1. displayOut' \in Seq(Bytes) /\ sentUp' \in Seq(Sendable)
  BY DisplaySaysTypes DEF CheckForRfbReplies
<1>2. UNCHANGED <<sharerVars, tubeVars, relayVars, display, fd, fdIn, pipe, back,
                  downHistory, gotUp>>
  BY DEF CheckForRfbReplies
<1> QED BY <1>1, <1>2 DEF LinkTypes, SharerTypes, RelayTypes, DisplayTypes, SocketTypes,
          HistoryTypes, sharerVars, relayVars, tubeVars, downHistory

LEMMA DisplayWritesTypes ==
  ASSUME LinkTypes, DisplayWrites
  PROVE  LinkTypes'
<1> DEFINE n == Least(Len(displayOut), PipeSize - Len(back))
<1>1. /\ back' = back \o First(displayOut, n) /\ displayOut' = Rest(displayOut, n)
      /\ UNCHANGED <<sharerVars, tubeVars, relayVars, display, fd, fdIn, pipe,
                     downHistory, upHistory>>
  BY DEF DisplayWrites
<1>2. back \in Seq(Bytes) /\ Len(back) <= PipeSize /\ displayOut \in Seq(Bytes)
  BY DEF LinkTypes, SocketTypes, DisplayTypes
<1>3. /\ Rest(displayOut, n) \in Seq(Bytes)
      /\ back \o First(displayOut, n) \in Seq(Bytes)
      /\ Len(back \o First(displayOut, n)) <= PipeSize
  BY <1>2, Fills, Sizes
<1> HIDE DEF n
<1> QED BY <1>1, <1>3 DEF LinkTypes, SharerTypes, RelayTypes, DisplayTypes, SocketTypes,
          HistoryTypes, sharerVars, relayVars, tubeVars, downHistory, upHistory

LEMMA HangUpTypes ==
  ASSUME LinkTypes, HangUp
  PROVE  LinkTypes'
<1>1. SharerTypes'
  BY DEF HangUp, LinkTypes, SharerTypes
<1>2. SocketTypes'
  <2>1. up' \in Seq(Bytes) /\ Len(up') <= UpSize
    BY Sizes DEF HangUp
  <2> QED BY <2>1 DEF HangUp, LinkTypes, SocketTypes
<1>3. RelayTypes' /\ DisplayTypes' /\ HistoryTypes'
  BY DEF HangUp, LinkTypes, RelayTypes, DisplayTypes, HistoryTypes, relayVars,
         displayVars, downHistory, upHistory
<1> QED BY <1>1, <1>2, <1>3 DEF LinkTypes

LEMMA LinkNextTypes ==
  LinkTypes /\ [Next]_vars => LinkTypes'
<1> SUFFICES ASSUME LinkTypes, [Next]_vars
             PROVE  LinkTypes'
  OBVIOUS
<1>1. CASE SharerNext
  BY <1>1, SharerSendsTypes, SharerWritesTypes, SharerReadsTypes, CopyBottomToClientTypes
     DEF SharerNext
<1>2. CASE RelayNext
  BY <1>2, RefuseConnectionTypes, AcceptConnectionTypes, CopyTopToServerTypes,
     CopyServerToTopTypes, RelayWritesTypes DEF RelayNext
<1>3. CASE DisplayNext
  BY <1>3, DisplayReadsTypes, CheckForFdInputTypes, CheckForRfbRepliesTypes,
     DisplayWritesTypes DEF DisplayNext
<1>4. CASE HangUp
  BY <1>4, HangUpTypes
<1>5. CASE UNCHANGED vars
  BY <1>5 DEF vars, sharerVars, tubeVars, relayVars, displayVars, downHistory, upHistory,
     LinkTypes, SharerTypes, RelayTypes, DisplayTypes, SocketTypes, HistoryTypes
<1> QED BY <1>1, <1>2, <1>3, <1>4, <1>5 DEF Next

LEMMA LinkTypesImply ==
  LinkTypes => LinkTypeOK
<1> SUFFICES ASSUME LinkTypes
             PROVE  LinkTypeOK
  OBVIOUS
<1>1. bottom.stage \in -4 - HeaderSize .. ByteSize * ByteSize
  <2>1. /\ bottom.stage \in Int /\ bottom.stage >= -4 - HeaderSize
        /\ bottom.length \in Numbers
        /\ bottom.stage > 0 => bottom.stage < bottom.length
    BY DEF LinkTypes, SharerTypes, BottomTypeOK, BottomParsers
  <2>2. ByteSize * ByteSize \in Nat /\ HeaderSize \in Nat
    BY FramingAssumption
  <2>3. bottom.length \in Nat /\ bottom.length < ByteSize * ByteSize
    BY <2>1, <2>2 DEF Numbers
  <2>4. bottom.stage <= ByteSize * ByteSize
    BY <2>1, <2>2, <2>3
  <2> QED BY <2>1, <2>2, <2>4
<1>2. fd.state \in {"start", "seen_channel", "seen_length"}
  BY DEF LinkTypes, DisplayTypes, FdTypeOK, FdParsers
<1>3. relayOut.to \in {"nowhere", "up", "pipe"}
  BY DEF LinkTypes, RelayTypes, RelayJobs
<1> QED BY <1>1, <1>2, <1>3 DEF LinkTypeOK, LinkTypes, SharerTypes, RelayTypes,
          DisplayTypes, SocketTypes, HistoryTypes

\* Whatever the programs do to each other, and whatever the blocks are: every socket
\* keeps to its size, what is in it are bytes, and the parsers' counters stay in the
\* range the code gives them.
THEOREM LinkTypeInvariant == Spec => []LinkTypeOK
<1>1. Spec => []LinkTypes
  BY LinkInitTypes, LinkNextTypes, PTL DEF Spec
<1> QED BY <1>1, LinkTypesImply, PTL

-----------------------------------------------------------------------------
(* Where in a block a parser is.                                           *)

\* The display program's parser has taken j bytes of block b.
FdAt(p, b, j) ==
  /\ p.state = IF j < 2 THEN "start" ELSE IF j < 4 THEN "seen_channel" ELSE "seen_length"
  /\ p.through = IF j < 2 THEN j ELSE IF j < 4 THEN j - 2 ELSE j - 4
  /\ j = 1 => p.channel = b.channel % ByteSize
  /\ j >= 2 => p.channel = b.channel
  /\ j = 3 => p.length = Len(b.payload) % ByteSize
  /\ j >= 4 => p.length = Len(b.payload)
  /\ j <= 4 => p.buffer = <<>>
  /\ j >= 4 => p.buffer = First(b.payload, j - 4)

\* And the sharer's.
BottomAt(p, b, j) ==
  /\ p.stage = j - 4
  /\ j = 1 => p.channel = b.channel % ByteSize
  /\ j >= 2 => p.channel = b.channel
  /\ j = 3 => p.length = Len(b.payload) % ByteSize
  /\ j >= 4 => p.length = Len(b.payload)
  /\ j <= 4 => p.buffer = <<>>
  /\ j >= 4 => p.buffer = First(b.payload, j - 4)

LEMMA FirstMore ==
  ASSUME NEW s \in Seq(Bytes), NEW n \in Nat, n < Len(s)
  PROVE  /\ First(s, 0) = <<>> /\ First(s, Len(s)) = s
         /\ Append(First(s, n), s[n + 1]) = First(s, n + 1)
<1>1. Len(s) \in Nat /\ n \in 0 .. Len(s) /\ n + 1 \in 0 .. Len(s) /\ s[n + 1] \in Bytes
  BY ElementOfSeq
<1> DEFINE a == First(s, n)
           b == First(s, n + 1)
<1>2. /\ a \in Seq(Bytes) /\ Len(a) = n /\ \A i \in 1 .. n : a[i] = s[i]
      /\ b \in Seq(Bytes) /\ Len(b) = n + 1 /\ \A i \in 1 .. n + 1 : b[i] = s[i]
  BY <1>1, Cut
<1>3. First(s, 0) = <<>> /\ First(s, Len(s)) = s
  <2>1. First(s, 0) \in Seq(Bytes) /\ Len(First(s, 0)) = 0
    <3>1. 0 \in 0 .. Len(s)
      BY <1>1
    <3> QED BY <3>1, Cut
  <2>2. /\ First(s, Len(s)) \in Seq(Bytes) /\ Len(First(s, Len(s))) = Len(s)
        /\ \A i \in 1 .. Len(s) : First(s, Len(s))[i] = s[i]
    <3>1. Len(s) \in 0 .. Len(s)
      BY <1>1
    <3> QED BY <3>1, Cut
  <2>3. First(s, Len(s)) = s
    BY <2>2, SeqEqual
  <2> QED BY <2>1, <2>3, EmptySeq
<1> HIDE DEF a, b
<1>4. /\ Append(a, s[n + 1]) \in Seq(Bytes) /\ Len(Append(a, s[n + 1])) = n + 1
      /\ \A i \in 1 .. n : Append(a, s[n + 1])[i] = a[i]
      /\ Append(a, s[n + 1])[n + 1] = s[n + 1]
  BY <1>1, <1>2, AppendProperties
<1>5. \A i \in 1 .. n + 1 : Append(a, s[n + 1])[i] = b[i]
  BY <1>1, <1>2, <1>4
<1>6. Append(a, s[n + 1]) = b
  BY <1>2, <1>4, <1>5, SeqEqual
<1> QED BY <1>3, <1>6 DEF a, b

\* What a byte of a block's wire form says.
LEMMA WireByte ==
  ASSUME NEW b \in AnyBlocks, Fit(b), NEW j \in Nat, j < Len(Wire(b)), NEW byte,
         byte = Wire(b)[j + 1]
  PROVE  /\ byte \in Bytes
         /\ j = 0 => byte = b.channel % ByteSize
         /\ j = 1 => (b.channel % ByteSize) + byte * ByteSize = b.channel
         /\ j = 2 => byte = Len(b.payload) % ByteSize
         /\ j = 3 => (Len(b.payload) % ByteSize) + byte * ByteSize = Len(b.payload)
         /\ j >= 4 => /\ j - 4 < Len(b.payload) /\ Len(b.payload) # 0
                      /\ byte = b.payload[j - 3]
                      /\ Append(First(b.payload, j - 4), byte) = First(b.payload, j - 3)
<1>1. /\ b.payload \in Seq(Bytes) /\ Len(b.payload) \in Nat
      /\ Wire(b) \in Seq(Bytes) /\ Len(Wire(b)) = 4 + Len(b.payload)
      /\ \A i \in 1 .. 4 : Wire(b)[i] = Preamble(b)[i]
      /\ \A i \in 5 .. Len(Wire(b)) : Wire(b)[i] = b.payload[i - 4]
  BY WireBytes
<1>2. byte \in Bytes
  <2>1. j + 1 \in 1 .. Len(Wire(b))
    BY <1>1
  <2> QED BY <1>1, <2>1, ElementOfSeq
<1>3. /\ Preamble(b)[1] = b.channel % ByteSize
      /\ Preamble(b)[2] = (b.channel \div ByteSize) % ByteSize
      /\ Preamble(b)[3] = Len(b.payload) % ByteSize
      /\ Preamble(b)[4] = (Len(b.payload) \div ByteSize) % ByteSize
  BY PreambleBytes
<1>4. j < 4 => byte = Preamble(b)[j + 1]
  BY <1>1, SMTT(30)
<1>5. /\ (b.channel % ByteSize) + ((b.channel \div ByteSize) % ByteSize) * ByteSize
           = b.channel
      /\ (Len(b.payload) % ByteSize) + ((Len(b.payload) \div ByteSize) % ByteSize) * ByteSize
           = Len(b.payload)
  BY Decoded DEF Fit
<1>6. /\ j = 0 => byte = b.channel % ByteSize
      /\ j = 2 => byte = Len(b.payload) % ByteSize
  BY <1>3, <1>4
<1>7. ASSUME j = 1
      PROVE  (b.channel % ByteSize) + byte * ByteSize = b.channel
  <2>1. byte = (b.channel \div ByteSize) % ByteSize
    BY <1>3, <1>4, <1>7
  <2> QED BY <1>5, <2>1
<1>8. ASSUME j = 3
      PROVE  (Len(b.payload) % ByteSize) + byte * ByteSize = Len(b.payload)
  <2>1. byte = (Len(b.payload) \div ByteSize) % ByteSize
    BY <1>3, <1>4, <1>8
  <2> QED BY <1>5, <2>1
<1>9. ASSUME j >= 4
      PROVE  /\ j - 4 < Len(b.payload) /\ Len(b.payload) # 0
             /\ byte = b.payload[j - 3]
             /\ Append(First(b.payload, j - 4), byte) = First(b.payload, j - 3)
  <2> DEFINE s == b.payload
             n == j - 4
  <2>1. n \in Nat /\ n < Len(s) /\ Len(s) # 0 /\ n + 1 = j - 3
    BY <1>1, <1>9
  <2>2. byte = s[j - 3]
    BY <1>1, <1>9
  <2>3. s \in Seq(Bytes)
    BY <1>1
  <2> HIDE DEF s, n
  <2>4. Append(First(s, n), s[n + 1]) = First(s, n + 1)
    BY <2>1, <2>3, FirstMore
  <2>5. Append(First(s, n), byte) = First(s, j - 3)
    BY <2>1, <2>2, <2>4
  <2> QED BY <2>1, <2>2, <2>5 DEF s, n
<1> QED BY <1>2, <1>6, <1>7, <1>8, <1>9

LEMMA WholeBlock ==
  ASSUME NEW b \in AnyBlocks
  PROVE  Block(b.channel, b.payload) = b
BY DEF AnyBlocks, Block

\* The next byte of a block moves the display program's parser on in it; the last one
\* makes it call its handler with the block that was written.
LEMMA FdParses ==
  ASSUME NEW p, FdTypeOK(p), NEW b \in AnyBlocks, Fit(b),
         NEW j \in Nat, j < Len(Wire(b)), FdAt(p, b, j),
         NEW byte, byte = Wire(b)[j + 1]
  PROVE  LET step == FdStep(p, byte) IN
         \/ /\ step.call = Nothing
            /\ FdAt(step.next, b, j + 1)
            /\ j < 4 \/ j + 1 < Len(Wire(b))
         \/ /\ step.call = Handle(b)
            /\ \A c : FdAt(step.next, c, 0)
            /\ j >= 4 /\ j + 1 = Len(Wire(b))
<1> DEFINE next == FdStep(p, byte).next
           call == FdStep(p, byte).call
<1>1. /\ byte \in Bytes
      /\ j = 0 => byte = b.channel % ByteSize
      /\ j = 1 => (b.channel % ByteSize) + byte * ByteSize = b.channel
      /\ j = 2 => byte = Len(b.payload) % ByteSize
      /\ j = 3 => (Len(b.payload) % ByteSize) + byte * ByteSize = Len(b.payload)
      /\ j >= 4 => /\ j - 4 < Len(b.payload) /\ Len(b.payload) # 0
                   /\ byte = b.payload[j - 3]
                   /\ Append(First(b.payload, j - 4), byte) = First(b.payload, j - 3)
  BY WireByte
<1>2. /\ b.payload \in Seq(Bytes) /\ Len(b.payload) \in Nat
      /\ Len(Wire(b)) = 4 + Len(b.payload)
  BY WireBytes
<1>3. First(b.payload, 0) = <<>>
  <2>1. 0 \in 0 .. Len(b.payload)
    BY <1>2
  <2>2. First(b.payload, 0) \in Seq(Bytes) /\ Len(First(b.payload, 0)) = 0
    BY <1>2, <2>1, Cut
  <2> QED BY <2>2, EmptySeq
<1>4. CASE j = 0
  <2>1. p.state = "start" /\ p.through = 0 /\ p.buffer = <<>>
    BY <1>4 DEF FdAt
  <2>2. call = Nothing /\ FdIs(next, "start", 1, byte, p.length, <<>>)
    BY <1>1, <2>1, FdMoves
  <2> HIDE DEF next, call
  <2>3. FdAt(next, b, j + 1)
    BY <1>1, <1>4, <2>2 DEF FdAt, FdIs
  <2> QED BY <1>4, <2>2, <2>3 DEF next, call
<1>5. CASE j = 1
  <2>1. p.state = "start" /\ p.through = 1 /\ p.buffer = <<>>
        /\ p.channel = b.channel % ByteSize
    BY <1>5 DEF FdAt
  <2>2. /\ call = Nothing
        /\ FdIs(next, "seen_channel", 0, p.channel + byte * ByteSize, p.length, <<>>)
    BY <1>1, <2>1, FdMoves
  <2> HIDE DEF next, call
  <2>3. next.channel = b.channel
    BY <1>1, <1>5, <2>1, <2>2 DEF FdIs
  <2>4. FdAt(next, b, j + 1)
    BY <1>5, <2>2, <2>3 DEF FdAt, FdIs
  <2> QED BY <1>5, <2>2, <2>4 DEF next, call
<1>6. CASE j = 2
  <2>1. p.state = "seen_channel" /\ p.through = 0 /\ p.buffer = <<>>
        /\ p.channel = b.channel
    BY <1>6 DEF FdAt
  <2>2. call = Nothing /\ FdIs(next, "seen_channel", 1, b.channel, byte, <<>>)
    BY <1>1, <2>1, FdMoves
  <2> HIDE DEF next, call
  <2>3. FdAt(next, b, j + 1)
    BY <1>1, <1>6, <2>2 DEF FdAt, FdIs
  <2> QED BY <1>6, <2>2, <2>3 DEF next, call
<1>7. CASE j = 3
  <2>1. p.state = "seen_channel" /\ p.through = 1 /\ p.buffer = <<>>
        /\ p.channel = b.channel /\ p.length = Len(b.payload) % ByteSize
    BY <1>7 DEF FdAt
  <2>2. /\ call = Nothing
        /\ FdIs(next, "seen_length", 0, b.channel, p.length + byte * ByteSize, <<>>)
    BY <1>1, <2>1, FdMoves
  <2> HIDE DEF next, call
  <2>3. next.length = Len(b.payload)
    BY <1>1, <1>7, <2>1, <2>2 DEF FdIs
  <2>4. FdAt(next, b, j + 1)
    BY <1>3, <1>7, <2>2, <2>3 DEF FdAt, FdIs
  <2> QED BY <1>7, <2>2, <2>4 DEF next, call
<1>8. CASE j >= 4
  <2>1. /\ p.state = "seen_length" /\ p.through = j - 4
        /\ p.channel = b.channel /\ p.length = Len(b.payload)
        /\ p.buffer = First(b.payload, j - 4)
    BY <1>8 DEF FdAt
  <2>2. Append(p.buffer, byte) = First(b.payload, j - 3) /\ p.length # 0
    BY <1>1, <1>8, <2>1
  <2>3. CASE j + 1 = Len(Wire(b))
    <3>1. p.through + 1 = p.length
      BY <1>2, <2>1, <2>3
    <3>2. /\ call = Handle(Block(p.channel, Append(p.buffer, byte)))
          /\ FdIs(next, "start", 0, p.channel, p.length, <<>>)
      BY <1>1, <2>1, <2>2, <3>1, FdMoves
    <3>3. Append(p.buffer, byte) = b.payload
      <4>1. j - 3 = Len(b.payload) /\ Len(b.payload) \in 0 .. Len(b.payload)
        BY <1>2, <2>3
      <4>2. First(b.payload, Len(b.payload)) = b.payload
        <5>1. /\ First(b.payload, Len(b.payload)) \in Seq(Bytes)
              /\ Len(First(b.payload, Len(b.payload))) = Len(b.payload)
              /\ \A i \in 1 .. Len(b.payload) :
                   First(b.payload, Len(b.payload))[i] = b.payload[i]
          BY <1>2, <4>1, Cut, ZenonT(30)
        <5> QED BY <1>2, <5>1, SeqEqual
      <4> QED BY <2>2, <4>1, <4>2
    <3>4. call = Handle(b)
      BY <2>1, <3>2, <3>3, WholeBlock
    <3> HIDE DEF next, call
    <3>5. \A c : FdAt(next, c, 0)
      BY <3>2 DEF FdAt, FdIs
    <3> QED BY <1>8, <2>3, <3>4, <3>5 DEF next, call
  <2>4. CASE j + 1 # Len(Wire(b))
    <3>1. p.through + 1 # p.length /\ j + 1 < Len(Wire(b)) /\ p.through + 1 = j - 3
      BY <1>2, <2>1, <2>4
    <3>2. /\ call = Nothing
          /\ FdIs(next, "seen_length", j - 3, b.channel, p.length,
                  First(b.payload, j - 3))
      <4>1. /\ call = Nothing
            /\ FdIs(next, "seen_length", p.through + 1, p.channel, p.length,
                    Append(p.buffer, byte))
        BY <1>1, <2>1, <2>2, <3>1, FdMoves
      <4> HIDE DEF next, call
      <4> QED BY <2>1, <2>2, <3>1, <4>1
    <3> HIDE DEF next, call
    <3>3. FdAt(next, b, j + 1)
      <4>1. /\ next.state = "seen_length" /\ next.through = (j + 1) - 4
            /\ next.channel = b.channel /\ next.length = Len(b.payload)
            /\ next.buffer = First(b.payload, (j + 1) - 4)
        <5>1. (j + 1) - 4 = j - 3
          OBVIOUS
        <5> QED BY <2>1, <3>2, <5>1 DEF FdIs
      <4>2. ~(j + 1 < 2) /\ ~(j + 1 < 4) /\ j + 1 # 1 /\ j + 1 # 3 /\ ~(j + 1 <= 4)
        BY <1>8
      <4> QED BY <4>1, <4>2 DEF FdAt
    <3> QED BY <3>1, <3>2, <3>3 DEF next, call
  <2> QED BY <2>3, <2>4
<1> QED BY <1>4, <1>5, <1>6, <1>7, <1>8

\* The same of the sharer's.
LEMMA BottomParses ==
  ASSUME NEW p, BottomTypeOK(p), NEW b \in AnyBlocks, Fit(b),
         NEW j \in Nat, j < Len(Wire(b)), BottomAt(p, b, j),
         NEW byte, byte = Wire(b)[j + 1]
  PROVE  LET step == BottomStep(p, byte) IN
         \/ /\ step.call = Nothing
            /\ BottomAt(step.next, b, j + 1)
            /\ j < 4 \/ j + 1 < Len(Wire(b))
         \/ /\ step.call = Handle(b)
            /\ \A c : BottomAt(step.next, c, 0)
            /\ j >= 4 /\ j + 1 = Len(Wire(b))
<1> DEFINE next == BottomStep(p, byte).next
           call == BottomStep(p, byte).call
<1>1. /\ byte \in Bytes
      /\ j = 0 => byte = b.channel % ByteSize
      /\ j = 1 => (b.channel % ByteSize) + byte * ByteSize = b.channel
      /\ j = 2 => byte = Len(b.payload) % ByteSize
      /\ j = 3 => (Len(b.payload) % ByteSize) + byte * ByteSize = Len(b.payload)
      /\ j >= 4 => /\ j - 4 < Len(b.payload) /\ Len(b.payload) # 0
                   /\ byte = b.payload[j - 3]
                   /\ Append(First(b.payload, j - 4), byte) = First(b.payload, j - 3)
  BY WireByte
<1>2. /\ b.payload \in Seq(Bytes) /\ Len(b.payload) \in Nat
      /\ Len(Wire(b)) = 4 + Len(b.payload)
  BY WireBytes
<1>3. First(b.payload, 0) = <<>> /\ First(b.payload, Len(b.payload)) = b.payload
  <2>1. 0 \in 0 .. Len(b.payload) /\ Len(b.payload) \in 0 .. Len(b.payload)
    BY <1>2
  <2>2. First(b.payload, 0) \in Seq(Bytes) /\ Len(First(b.payload, 0)) = 0
    BY <1>2, <2>1, Cut
  <2>3. /\ First(b.payload, Len(b.payload)) \in Seq(Bytes)
        /\ Len(First(b.payload, Len(b.payload))) = Len(b.payload)
        /\ \A i \in 1 .. Len(b.payload) : First(b.payload, Len(b.payload))[i] = b.payload[i]
    BY <1>2, <2>1, Cut, ZenonT(30)
  <2>4. First(b.payload, Len(b.payload)) = b.payload
    BY <1>2, <2>3, SeqEqual
  <2> QED BY <2>2, <2>4, EmptySeq
<1>4. CASE j = 0
  <2>1. p.stage = -4 /\ p.buffer = <<>>
    BY <1>4 DEF BottomAt
  <2>2. call = Nothing /\ BottomIs(next, -3, byte, p.length, <<>>)
    BY <1>1, <2>1, BottomMoves
  <2> HIDE DEF next, call
  <2>3. BottomAt(next, b, j + 1)
    BY <1>1, <1>4, <2>2 DEF BottomAt, BottomIs
  <2> QED BY <1>4, <2>2, <2>3 DEF next, call
<1>5. CASE j = 1
  <2>1. p.stage = -3 /\ p.buffer = <<>> /\ p.channel = b.channel % ByteSize
    BY <1>5 DEF BottomAt
  <2>2. call = Nothing /\ BottomIs(next, -2, p.channel + byte * ByteSize, p.length, <<>>)
    BY <1>1, <2>1, BottomMoves
  <2> HIDE DEF next, call
  <2>3. next.channel = b.channel
    BY <1>1, <1>5, <2>1, <2>2 DEF BottomIs
  <2>4. BottomAt(next, b, j + 1)
    BY <1>5, <2>2, <2>3 DEF BottomAt, BottomIs
  <2> QED BY <1>5, <2>2, <2>4 DEF next, call
<1>6. CASE j = 2
  <2>1. p.stage = -2 /\ p.buffer = <<>> /\ p.channel = b.channel
    BY <1>6 DEF BottomAt
  <2>2. call = Nothing /\ BottomIs(next, -1, b.channel, byte, <<>>)
    BY <1>1, <2>1, BottomMoves
  <2> HIDE DEF next, call
  <2>3. BottomAt(next, b, j + 1)
    BY <1>1, <1>6, <2>2 DEF BottomAt, BottomIs
  <2> QED BY <1>6, <2>2, <2>3 DEF next, call
<1>7. CASE j = 3
  <2>1. p.stage = -1 /\ p.buffer = <<>>
        /\ p.channel = b.channel /\ p.length = Len(b.payload) % ByteSize
    BY <1>7 DEF BottomAt
  <2>2. call = Nothing /\ BottomIs(next, 0, b.channel, p.length + byte * ByteSize, <<>>)
    BY <1>1, <2>1, BottomMoves
  <2> HIDE DEF next, call
  <2>3. next.length = Len(b.payload)
    BY <1>1, <1>7, <2>1, <2>2 DEF BottomIs
  <2>4. BottomAt(next, b, j + 1)
    BY <1>3, <1>7, <2>2, <2>3 DEF BottomAt, BottomIs
  <2> QED BY <1>7, <2>2, <2>4 DEF next, call
<1>8. CASE j >= 4
  <2>1. /\ p.stage = j - 4 /\ p.stage >= 0
        /\ p.channel = b.channel /\ p.length = Len(b.payload)
        /\ p.buffer = First(b.payload, j - 4)
    BY <1>8 DEF BottomAt
  <2>2. Append(p.buffer, byte) = First(b.payload, j - 3) /\ p.length # 0
    BY <1>1, <1>8, <2>1
  <2>3. CASE j + 1 = Len(Wire(b))
    <3>1. p.stage = p.length - 1
      BY <1>2, <2>1, <2>3
    <3>2. /\ call = Handle(Block(p.channel, Append(p.buffer, byte)))
          /\ BottomIs(next, -4, p.channel, p.length, <<>>)
      BY <1>1, <2>1, <2>2, <3>1, BottomMoves
    <3>3. Append(p.buffer, byte) = b.payload
      <4>1. j - 3 = Len(b.payload)
        BY <1>2, <2>3
      <4> QED BY <1>3, <2>2, <4>1
    <3>4. call = Handle(b)
      BY <2>1, <3>2, <3>3, WholeBlock
    <3> HIDE DEF next, call
    <3>5. \A c : BottomAt(next, c, 0)
      BY <3>2 DEF BottomAt, BottomIs
    <3> QED BY <1>8, <2>3, <3>4, <3>5 DEF next, call
  <2>4. CASE j + 1 # Len(Wire(b))
    <3>1. p.stage # p.length - 1 /\ j + 1 < Len(Wire(b)) /\ p.stage + 1 = j - 3
      BY <1>2, <2>1, <2>4
    <3>2. /\ call = Nothing
          /\ BottomIs(next, j - 3, b.channel, p.length, First(b.payload, j - 3))
      <4>1. /\ call = Nothing
            /\ BottomIs(next, p.stage + 1, p.channel, p.length, Append(p.buffer, byte))
        BY <1>1, <2>1, <2>2, <3>1, BottomMoves
      <4> HIDE DEF next, call
      <4> QED BY <2>1, <2>2, <3>1, <4>1
    <3> HIDE DEF next, call
    <3>3. BottomAt(next, b, j + 1)
      <4>1. /\ next.stage = (j + 1) - 4
            /\ next.channel = b.channel /\ next.length = Len(b.payload)
            /\ next.buffer = First(b.payload, (j + 1) - 4)
        <5>1. (j + 1) - 4 = j - 3
          OBVIOUS
        <5> QED BY <2>1, <3>2, <5>1 DEF BottomIs
      <4>2. j + 1 # 1 /\ j + 1 # 3 /\ ~(j + 1 <= 4)
        BY <1>8
      <4> QED BY <4>1, <4>2 DEF BottomAt
    <3> QED BY <3>1, <3>2, <3>3 DEF next, call
  <2> QED BY <2>3, <2>4
<1> QED BY <1>4, <1>5, <1>6, <1>7, <1>8

\* The header takes the sharer's parser to the first block.
LEMMA BottomMeets ==
  ASSUME NEW p, BottomTypeOK(p), NEW k \in Nat, k < HeaderSize,
         p.stage = k - HeaderSize - 4, p.buffer = <<>>, NEW byte, byte = 1
  PROVE  LET step == BottomStep(p, byte) IN
         /\ step.call = IF k + 1 = HeaderSize THEN Introduce ELSE Nothing
         /\ step.next.stage = (k + 1) - HeaderSize - 4 /\ step.next.buffer = <<>>
<1>1. HeaderSize \in Nat \ {0} /\ byte \in Bytes
  BY FramingAssumption DEF Bytes
<1>2. /\ p.stage < -4 /\ p.stage + HeaderSize + 5 = k + 1
      /\ p.stage + 1 = (k + 1) - HeaderSize - 4
      /\ p.stage = -5 <=> k + 1 = HeaderSize
  BY <1>1
<1>3. Header[k + 1] = 1
  BY <1>1, HeaderBytes
<1>4. byte = Header[p.stage + HeaderSize + 5]
  BY <1>2, <1>3
<1> DEFINE step == BottomStep(p, byte)
<1>5. /\ step.call = IF p.stage = -5 THEN Introduce ELSE Nothing
      /\ BottomIs(step.next, p.stage + 1, p.channel, p.length, p.buffer)
  BY <1>1, <1>2, <1>4, BottomMoves
<1> HIDE DEF step
<1>6. /\ step.call = IF k + 1 = HeaderSize THEN Introduce ELSE Nothing
      /\ step.next.stage = (k + 1) - HeaderSize - 4 /\ step.next.buffer = <<>>
  BY <1>2, <1>5 DEF BottomIs
<1> QED BY <1>6 DEF step

-----------------------------------------------------------------------------
(* Down: the sharer, the relay and the display program.                    *)

\* Bytes on their way from the sharer to the display program's parser.
DownFlow == Flow(fdIn, pipe, OutTo(relayOut, "pipe"), tube)

\* What the sharer has written of a block it is still writing.
Written == IF bottomOut = <<sending.payload>> THEN Preamble(sending) ELSE <<>>

\* The block whose bytes the display program's parser meets.
NextDown == IF Len(gotDown) < Len(sentDown) THEN sentDown[Len(gotDown) + 1] ELSE sending

\* The parser has not yet come to where the sharer broke the stream.
Reading == Len(gotDown) < Len(sentDown) \/ ~brokenDown

\* Of all the bytes the sharer has written the parser has taken the first k; the i-th
\* block it has sent ends at place[i].
DownPlace(stream, place, k) ==
  /\ stream \in Seq(Bytes) /\ k \in 0 .. Len(stream)
  /\ Carries(stream, place, sentDown, 0)
  /\ DownFlow = Rest(stream, k)
  /\ Reading => /\ display # "null_buffer"
                /\ k >= place[Len(gotDown)]
                /\ FdAt(fd, NextDown, k - place[Len(gotDown)])
                /\ Len(gotDown) < Len(sentDown) => k < place[Len(gotDown) + 1]
  /\ ~brokenDown => /\ Len(gotDown) <= Len(sentDown)
                    /\ Rest(stream, place[Len(sentDown)]) = Written

DownInv == \E stream, place, k : DownPlace(stream, place, k)

\* Nothing follows the end.
LEMMA RestOfAll ==
  ASSUME NEW s \in Seq(Bytes)
  PROVE  Rest(s, Len(s)) = <<>>
<1>1. Len(s) \in 0 .. Len(s)
  OBVIOUS
<1>2. Rest(s, Len(s)) \in Seq(Bytes) /\ Len(Rest(s, Len(s))) = Len(s) - Len(s)
  BY <1>1, Cut
<1>3. Len(Rest(s, Len(s))) = 0
  BY <1>1, <1>2
<1> QED BY <1>2, <1>3, EmptySeq

LEMMA DownInit ==
  Init => DownInv
<1> SUFFICES ASSUME Init
             PROVE  DownInv
  OBVIOUS
<1> DEFINE place == [i \in 0 .. 0 |-> 0]
<1>1. <<>> \in Seq(Bytes) /\ Len(<<>>) = 0
  OBVIOUS
<1>2. DownFlow = <<>>
  BY <1>1, Joined DEF Init, DownFlow, Flow, OutTo, Idle
<1>3. Rest(<<>>, 0) = <<>>
  <2>1. Rest(<<>>, Len(<<>>)) = <<>>
    BY <1>1, RestOfAll
  <2> QED BY <1>1, <2>1, Zenon
<1>4. Written = <<>>
  BY DEF Init, Written
<1>5. sentDown = <<>> /\ gotDown = <<>> /\ display = "none" /\ brokenDown = FALSE
      /\ fd = FdStart /\ sending = Avatar
  BY DEF Init
<1>6. Carries(<<>>, place, sentDown, 0)
  BY <1>1, <1>5 DEF Carries
<1>7. FdAt(fd, NextDown, 0)
  BY <1>5 DEF FdAt, FdStart
<1>8. DownPlace(<<>>, place, 0)
  <2>1. Len(gotDown) = 0 /\ Len(sentDown) = 0
    BY <1>5
  <2>2. place[0] = 0
    OBVIOUS
  <2> HIDE DEF place
  <2> QED BY <1>1, <1>2, <1>3, <1>4, <1>5, <1>6, <1>7, <2>1, <2>2 DEF DownPlace
<1> QED BY <1>8 DEF DownInv

\* Bytes that only move on change nothing.
LEMMA DownSame ==
  ASSUME DownInv, DownFlow' = DownFlow,
         display' = "null_buffer" => display = "null_buffer",
         UNCHANGED <<fd, downHistory, bottomOut, sending>>
  PROVE  DownInv'
<1>1. PICK stream, place, k : DownPlace(stream, place, k)
  BY DEF DownInv
<1>2. UNCHANGED <<fd, sentDown, gotDown, brokenDown, bottomOut, sending>>
  BY DEF downHistory
<1>3. Reading' = Reading /\ NextDown' = NextDown /\ Written' = Written
  BY <1>2 DEF Reading, NextDown, Written
<1>4. DownPlace(stream, place, k)'
  BY <1>1, <1>2, <1>3 DEF DownPlace
<1> QED BY <1>4 DEF DownInv

LEMMA StartAnywhere ==
  /\ \A p, b, c : FdAt(p, b, 0) => FdAt(p, c, 0)
  /\ \A p, b, c : BottomAt(p, b, 0) => BottomAt(p, c, 0)
BY DEF FdAt, BottomAt

\* What is known of the places.
LEMMA Places ==
  ASSUME NEW stream \in Seq(Bytes), NEW place, NEW blocks, NEW start, NEW S,
         blocks \in Seq(S),
         Carries(stream, place, blocks, start)
  PROVE  /\ Len(blocks) \in Nat /\ Len(stream) \in Nat
         /\ \A i \in 0 .. Len(blocks) : place[i] \in Nat
         /\ place[Len(blocks)] \in 0 .. Len(stream)
<1>1. Len(blocks) \in Nat /\ Len(stream) \in Nat
  OBVIOUS
<1>2. /\ place \in [0 .. Len(blocks) -> Nat]
      /\ place[Len(blocks)] <= Len(stream)
  BY DEF Carries
<1>3. Len(blocks) \in 0 .. Len(blocks)
  BY <1>1
<1> QED BY <1>1, <1>2, <1>3

\* The sharer turns to a block when it has written all of those before.
LEMMA DownSending ==
  ASSUME LinkTypes, DownInv, bottomOut = <<>>, bottomOut' \in Writes(sending'),
         sending' \in AllBlocks,
         UNCHANGED <<fd, fdIn, pipe, relayOut, tube, display, downHistory>>
  PROVE  DownInv'
<1>1. PICK stream, place, k : DownPlace(stream, place, k)
  BY DEF DownInv
<1>2. Written = <<>> /\ Written' = <<>>
  <2>1. sending'.payload \in Seq(Bytes) /\ Len(Wire(sending')) = 4 + Len(sending'.payload)
        /\ Len(sending'.payload) \in Nat
    BY BlockBytes
  <2>2. Wire(sending') # sending'.payload
    BY <2>1
  <2>3. \A x, y, z : <<x, y>> # <<z>> /\ (x # z => <<x>> # <<z>>) /\ <<>> # <<z>>
    OBVIOUS
  <2>4. /\ <<Preamble(sending'), sending'.payload>> # <<sending'.payload>>
        /\ <<Wire(sending')>> # <<sending'.payload>> /\ <<>> # <<sending.payload>>
    BY <2>2, <2>3, Zenon
  <2>5. bottomOut' = <<Preamble(sending'), sending'.payload>> \/ bottomOut' = <<Wire(sending')>>
    BY DEF Writes, Wire
  <2>6. bottomOut' # <<sending'.payload>> /\ bottomOut # <<sending.payload>>
    BY <2>4, <2>5, Zenon
  <2> QED BY <2>6 DEF Written
<1>3. UNCHANGED <<sentDown, gotDown, brokenDown, fd, display>> /\ DownFlow' = DownFlow
      /\ Reading' = Reading
  BY DEF DownFlow, downHistory, Reading
<1>4. /\ Len(sentDown) \in Nat /\ Len(gotDown) \in Nat /\ Len(stream) \in Nat
      /\ \A i \in 0 .. Len(sentDown) : place[i] \in Nat
      /\ place[Len(sentDown)] \in 0 .. Len(stream)
      /\ stream \in Seq(Bytes) /\ k \in 0 .. Len(stream)
  <2>1. sentDown \in Seq(Sendable) /\ gotDown \in Seq(Blocks)
    BY DEF LinkTypes, HistoryTypes
  <2> QED BY <1>1, <2>1, Places DEF DownPlace
<1>5. Reading => FdAt(fd, NextDown', k - place[Len(gotDown)])
  <2>1. CASE Len(gotDown) < Len(sentDown)
    <3>1. NextDown' = NextDown
      BY <1>3, <2>1 DEF NextDown
    <3> QED BY <1>1, <3>1 DEF DownPlace
  <2>2. ASSUME ~(Len(gotDown) < Len(sentDown)), Reading
        PROVE  FdAt(fd, NextDown', k - place[Len(gotDown)])
    <3>1. ~brokenDown /\ Len(gotDown) <= Len(sentDown)
      BY <1>1, <2>2 DEF Reading, DownPlace
    <3>2. Len(gotDown) = Len(sentDown)
      BY <1>4, <2>2, <3>1
    <3>3. Rest(stream, place[Len(sentDown)]) = <<>>
      BY <1>1, <1>2, <3>1 DEF DownPlace
    <3>4. Len(stream) - place[Len(sentDown)] = 0
      BY <1>4, <3>3, Cut, ZenonT(30)
    <3>5. k - place[Len(gotDown)] = 0
      <4>1. k >= place[Len(gotDown)]
        BY <1>1, <2>2 DEF DownPlace
      <4> QED BY <1>4, <3>2, <3>4, <4>1
    <3>6. FdAt(fd, NextDown, 0)
      BY <1>1, <2>2, <3>5 DEF DownPlace
    <3> QED BY <3>5, <3>6, StartAnywhere
  <2> QED BY <2>1, <2>2
<1>6. DownPlace(stream, place, k)'
  BY <1>1, <1>2, <1>3, <1>5 DEF DownPlace
<1> QED BY <1>6 DEF DownInv

\* A write of the sharer adds to what it has written, and breaks the stream, or goes on
\* with the block, or ends it.
LEMMA SharerWritesForms ==
  ASSUME LinkTypes, SharerWrites, tubeOpen
  PROVE  \E w \in Seq(Bytes) :
           /\ tube' = tube \o w
           /\ \/ brokenDown' /\ sentDown' = sentDown
              \/ /\ ~brokenDown /\ ~brokenDown' /\ sentDown' = sentDown
                 /\ Written \o w = Written'
              \/ /\ ~brokenDown /\ ~brokenDown'
                 /\ sentDown' = Append(sentDown, sending) /\ sending \in Sendable
                 /\ Written \o w = Wire(sending) /\ Written' = <<>> /\ Len(w) > 0
<1> DEFINE bytes == Head(bottomOut)
           n == Least(Len(bytes), TubeSize - Len(tube))
           w == First(bytes, n)
           whole == n = Len(bytes)
           untouched == n = 0 /\ (Len(bottomOut) = 2 \/ Len(bytes) > Len(sending.payload))
<1>1. /\ sending \in AllBlocks /\ bottomOut \in Outs(sending) /\ bottomOut # <<>>
      /\ tube \in Seq(Bytes) /\ Len(tube) <= TubeSize
      /\ brokenDown \in BOOLEAN
  BY DEF LinkTypes, SharerTypes, SocketTypes, HistoryTypes, SharerWrites
<1>2. /\ sending.payload \in Seq(Bytes) /\ Len(sending.payload) \in Nat
      /\ Preamble(sending) \in Seq(Bytes) /\ Len(Preamble(sending)) = 4
      /\ Wire(sending) \in Seq(Bytes) /\ Len(Wire(sending)) = 4 + Len(sending.payload)
      /\ Wire(sending) = Preamble(sending) \o sending.payload
  BY <1>1, BlockBytes DEF Wire
<1>3. \/ /\ bottomOut = <<sending.payload>> /\ Len(bottomOut) = 1
         /\ bytes = sending.payload /\ Tail(bottomOut) = <<>>
      \/ /\ bottomOut = <<Preamble(sending), sending.payload>> /\ Len(bottomOut) = 2
         /\ bytes = Preamble(sending) /\ Tail(bottomOut) = <<sending.payload>>
      \/ /\ bottomOut = <<Wire(sending)>> /\ Len(bottomOut) = 1
         /\ bytes = Wire(sending) /\ Tail(bottomOut) = <<>>
  BY <1>1, OutsForms
<1>4. bytes \in Seq(Bytes) /\ Len(bytes) \in Nat
  <2> HIDE DEF bytes
  <2>1. bytes \in Seq(Bytes)
    BY <1>2, <1>3, Zenon
  <2> QED BY <2>1
<1>5. /\ tube' = tube \o w
      /\ bottomOut' = IF whole THEN Tail(bottomOut) ELSE <<>>
      /\ brokenDown' = (\/ brokenDown
                        \/ whole /\ Len(bottomOut) = 1 /\ sending.payload = <<>>
                        \/ ~whole /\ ~untouched)
      /\ sentDown' = IF whole /\ Len(bottomOut) = 1 /\ ~brokenDown'
                     THEN Append(sentDown, sending) ELSE sentDown
      /\ sending' = sending
  BY DEF SharerWrites
<1> HIDE DEF bytes
<1>6. n \in 0 .. Len(bytes) /\ w \in Seq(Bytes) /\ Len(w) = n
  <2>1. n \in 0 .. Len(bytes)
    BY <1>1, <1>4, Sizes, Fills
  <2> HIDE DEF n
  <2> QED BY <1>4, <2>1, Cut
<1>7. whole => w = bytes
  <2> SUFFICES ASSUME whole
               PROVE  w = bytes
    OBVIOUS
  <2>1. w = First(bytes, Len(bytes))
    OBVIOUS
  <2>2. \A i \in 1 .. Len(bytes) : First(bytes, Len(bytes))[i] = bytes[i]
    <3>1. Len(bytes) \in 0 .. Len(bytes)
      BY <1>4
    <3> QED BY <1>4, <3>1, Cut
  <2> HIDE DEF w
  <2> QED BY <1>4, <1>6, <2>1, <2>2, SeqEqual
<1> HIDE DEF n, w
<1>8. \A x, y, z : <<x, y>> # <<z>> /\ (x # z => <<x>> # <<z>>) /\ <<>> # <<z>>
  OBVIOUS
<1>9. Wire(sending) # sending.payload
  BY <1>2
<1>10. CASE brokenDown'
  <2>1. sentDown' = sentDown
    BY <1>5, <1>10
  <2> QED BY <1>5, <1>6, <1>10, <2>1
<1>11. CASE ~brokenDown' /\ ~whole
  <2>1. ~brokenDown /\ untouched /\ sentDown' = sentDown /\ bottomOut' = <<>>
    BY <1>1, <1>5, <1>11
  <2>2. w = <<>>
    BY <1>6, <2>1, EmptySeq
  <2>3. bottomOut # <<sending.payload>>
    <3>1. CASE Len(bottomOut) = 2
      BY <1>3, <1>8, <3>1
    <3>2. CASE Len(bytes) > Len(sending.payload)
      BY <1>2, <1>3, <1>8, <1>9, <3>2
    <3> QED BY <2>1, <3>1, <3>2
  <2>4. Written = <<>> /\ Written' = <<>>
    BY <1>8, <2>1, <2>3 DEF Written
  <2>5. Written \o w = Written'
    BY <2>2, <2>4, Joined
  <2> QED BY <1>1, <1>5, <1>6, <1>11, <2>1, <2>5
<1>12. CASE ~brokenDown' /\ whole /\ Len(bottomOut) = 2
  <2>1. /\ ~brokenDown /\ sentDown' = sentDown
        /\ bottomOut' = <<sending.payload>> /\ w = Preamble(sending)
    BY <1>1, <1>3, <1>5, <1>7, <1>12
  <2>2. bottomOut # <<sending.payload>>
    BY <1>3, <1>8, <1>12
  <2>3. Written = <<>> /\ Written' = Preamble(sending)
    BY <1>5, <2>1, <2>2 DEF Written
  <2>4. Written \o w = Written'
    BY <1>2, <2>1, <2>3, Joined
  <2> QED BY <1>1, <1>5, <1>6, <1>12, <2>1, <2>4
<1>13. CASE ~brokenDown' /\ whole /\ Len(bottomOut) = 1
  <2>1. /\ ~brokenDown /\ sentDown' = Append(sentDown, sending)
        /\ bottomOut' = <<>> /\ w = bytes /\ sending.payload # <<>>
    BY <1>1, <1>3, <1>5, <1>7, <1>13
  <2>2. sending \in Sendable /\ Len(sending.payload) > 0
    BY <1>1, <1>2, <2>1, EmptySeq DEF Sendable
  <2>3. Written' = <<>>
    BY <1>8, <2>1 DEF Written
  <2>4. Written \o w = Wire(sending) /\ Len(w) > 0
    <3>1. CASE bottomOut = <<sending.payload>> /\ bytes = sending.payload
      <4>1. Written = Preamble(sending)
        BY <3>1 DEF Written
      <4> QED BY <1>2, <2>1, <2>2, <3>1, <4>1
    <3>2. CASE bottomOut = <<Wire(sending)>> /\ bytes = Wire(sending)
      <4>1. Written = <<>>
        BY <1>8, <1>9, <3>2 DEF Written
      <4>2. <<>> \o Wire(sending) = Wire(sending)
        BY <1>2, Joined
      <4> QED BY <1>2, <2>1, <2>2, <3>2, <4>1, <4>2
    <3> QED BY <1>3, <1>13, <3>1, <3>2
  <2> QED BY <1>1, <1>5, <1>6, <1>13, <2>1, <2>2, <2>3, <2>4
<1>14. Len(bottomOut) \in {1, 2}
  BY <1>3
<1> QED BY <1>10, <1>11, <1>12, <1>13, <1>14

\* The sequences the places lead to.
LEMMA PlacesOfMore ==
  ASSUME NEW stream \in Seq(Bytes), NEW place, NEW blocks \in Seq(AnyBlocks), NEW start,
         Carries(stream, place, blocks, start), NEW i \in 0 .. Len(blocks) - 1
  PROVE  /\ place[i] \in Nat /\ place[i + 1] \in Nat
         /\ place[i + 1] = place[i] + Len(Wire(blocks[i + 1]))
         /\ Len(Wire(blocks[i + 1])) \in Nat /\ Len(Wire(blocks[i + 1])) >= 4
         /\ place[i + 1] <= Len(stream)
         /\ \A j \in 1 .. Len(Wire(blocks[i + 1])) :
              stream[place[i] + j] = Wire(blocks[i + 1])[j]
<1>1. Len(blocks) \in Nat /\ i + 1 \in 1 .. Len(blocks) /\ (i + 1) - 1 = i
      /\ i \in 0 .. Len(blocks) /\ i + 1 \in 0 .. Len(blocks)
  OBVIOUS
<1>2. place[i] \in Nat /\ place[i + 1] \in Nat
  BY <1>1 DEF Carries
<1>3. /\ place[i + 1] = place[(i + 1) - 1] + Len(Wire(blocks[i + 1]))
      /\ place[i + 1] <= Len(stream)
      /\ \A j \in 1 .. Len(Wire(blocks[i + 1])) :
           stream[place[(i + 1) - 1] + j] = Wire(blocks[i + 1])[j]
  BY <1>1 DEF Carries
<1>4. blocks[i + 1] \in AnyBlocks
  BY <1>1, ElementOfSeq
<1>5. Len(Wire(blocks[i + 1])) \in Nat /\ Len(Wire(blocks[i + 1])) >= 4
  <2> DEFINE b == blocks[i + 1]
  <2> HIDE DEF b
  <2>1. b \in AnyBlocks
    BY <1>4 DEF b
  <2>2. Len(Wire(b)) = 4 + Len(b.payload) /\ Len(b.payload) \in Nat
    BY <2>1, WireBytes
  <2>3. Len(Wire(b)) \in Nat /\ Len(Wire(b)) >= 4
    BY <2>2
  <2> QED BY <2>3 DEF b
<1> QED BY <1>1, <1>2, <1>3, <1>5

LEMMA SeqsOfBlocks ==
  ASSUME LinkTypes
  PROVE  /\ sentDown \in Seq(AnyBlocks) /\ sentUp \in Seq(AnyBlocks)
         /\ sentDown \in Seq(Sendable) /\ sentUp \in Seq(Sendable)
         /\ gotDown \in Seq(Blocks) /\ gotUp \in Seq(Blocks)
         /\ sending \in AllBlocks /\ sending \in AnyBlocks /\ Avatar \in AnyBlocks
         /\ Len(sentDown) \in Nat /\ Len(gotDown) \in Nat
         /\ Len(sentUp) \in Nat /\ Len(gotUp) \in Nat
<1>1. /\ sentDown \in Seq(Sendable) /\ sentUp \in Seq(Sendable) /\ sending \in AllBlocks
      /\ gotDown \in Seq(Blocks) /\ gotUp \in Seq(Blocks)
  BY DEF LinkTypes, HistoryTypes, SharerTypes
<1>2. Sendable \subseteq AnyBlocks /\ AllBlocks \subseteq AnyBlocks /\ Avatar \in AllBlocks
  BY BlockBytes DEF AllBlocks
<1>3. \A s \in Seq(Sendable) : s \in Seq(AnyBlocks)
  BY <1>2
<1> QED BY <1>1, <1>2, <1>3

LEMMA DownTypes ==
  ASSUME LinkTypes
  PROVE  /\ fdIn \in Seq(Bytes) /\ pipe \in Seq(Bytes) /\ tube \in Seq(Bytes)
         /\ OutTo(relayOut, "pipe") \in Seq(Bytes)
         /\ bottomIn \in Seq(Bytes) /\ up \in Seq(Bytes) /\ back \in Seq(Bytes)
         /\ OutTo(relayOut, "up") \in Seq(Bytes) /\ displayOut \in Seq(Bytes)
<1>1. relayOut.bytes \in Seq(Bytes) /\ <<>> \in Seq(Bytes)
  BY EmptySeq DEF LinkTypes, RelayTypes, RelayJobs
<1> QED BY <1>1 DEF LinkTypes, SharerTypes, DisplayTypes, SocketTypes, OutTo

LEMMA DownWrites ==
  ASSUME LinkTypes, DownInv, SharerWrites, tubeOpen
  PROVE  DownInv'
<1>1. PICK stream, place, k : DownPlace(stream, place, k)
  BY DEF DownInv
<1>2. PICK w \in Seq(Bytes) :
        /\ tube' = tube \o w
        /\ \/ brokenDown' /\ sentDown' = sentDown
           \/ /\ ~brokenDown /\ ~brokenDown' /\ sentDown' = sentDown
              /\ Written \o w = Written'
           \/ /\ ~brokenDown /\ ~brokenDown'
              /\ sentDown' = Append(sentDown, sending) /\ sending \in Sendable
              /\ Written \o w = Wire(sending) /\ Written' = <<>> /\ Len(w) > 0
  BY SharerWritesForms
<1>3. UNCHANGED <<sending, fdIn, pipe, relayOut, fd, gotDown, display>>
  BY DEF SharerWrites, relayVars, displayVars
<1>4. /\ sentDown \in Seq(AnyBlocks) /\ sending \in AnyBlocks
      /\ Len(sentDown) \in Nat /\ Len(gotDown) \in Nat
  BY SeqsOfBlocks
<1>5. /\ stream \in Seq(Bytes) /\ k \in 0 .. Len(stream)
      /\ Carries(stream, place, sentDown, 0)
      /\ DownFlow = Rest(stream, k)
  BY <1>1 DEF DownPlace
<1>6. /\ \A i \in 0 .. Len(sentDown) : place[i] \in Nat
      /\ place[Len(sentDown)] \in 0 .. Len(stream)
  BY <1>4, <1>5, Places
<1> DEFINE longer == stream \o w
<1>7. longer \in Seq(Bytes) /\ Len(longer) = Len(stream) + Len(w)
      /\ Len(w) \in Nat /\ Len(stream) \in Nat
  BY <1>5, ConcatProperties
<1>8. DownFlow' = Rest(longer, k)
  <2>1. /\ fdIn \in Seq(Bytes) /\ pipe \in Seq(Bytes) /\ tube \in Seq(Bytes)
        /\ OutTo(relayOut, "pipe") \in Seq(Bytes)
    BY DownTypes
  <2>2. DownFlow' = Flow(fdIn, pipe, OutTo(relayOut, "pipe"), Cat(tube, w))
    BY <1>2, <1>3 DEF DownFlow, Cat
  <2>3. DownFlow' = DownFlow \o w
    <3>1. DownFlow' = Cat(DownFlow, w)
      BY <2>1, <2>2, FlowMore DEF DownFlow
    <3> QED BY <3>1 DEF Cat
  <2>4. Rest(longer, k) = Rest(stream, k) \o w
    BY <1>5, RestOfLonger
  <2> QED BY <1>5, <2>3, <2>4
<1>9. Carries(longer, place, sentDown, 0)
  BY <1>4, <1>5, CarriesLonger
<1>10. Rest(longer, place[Len(sentDown)]) = Rest(stream, place[Len(sentDown)]) \o w
  BY <1>5, <1>6, RestOfLonger
<1>11. k \in 0 .. Len(longer)
  BY <1>5, <1>7
<1> HIDE DEF longer
<1>12. CASE brokenDown' /\ sentDown' = sentDown
  <2>1. Reading' => Reading /\ NextDown' = NextDown
    BY <1>3, <1>12 DEF Reading, NextDown
  <2>2. DownPlace(longer, place, k)'
    BY <1>1, <1>3, <1>7, <1>8, <1>9, <1>11, <1>12, <2>1 DEF DownPlace
  <2> QED BY <2>2 DEF DownInv
<1>13. CASE /\ ~brokenDown /\ ~brokenDown' /\ sentDown' = sentDown
            /\ Written \o w = Written'
  <2>1. NextDown' = NextDown /\ Reading
    BY <1>3, <1>13 DEF Reading, NextDown
  <2>2. Rest(longer, place[Len(sentDown)]) = Written' /\ Len(gotDown) <= Len(sentDown)
    BY <1>1, <1>10, <1>13 DEF DownPlace
  <2>3. DownPlace(longer, place, k)'
    BY <1>1, <1>3, <1>7, <1>8, <1>9, <1>11, <1>13, <2>1, <2>2 DEF DownPlace
  <2> QED BY <2>3 DEF DownInv
<1>14. CASE /\ ~brokenDown /\ ~brokenDown'
            /\ sentDown' = Append(sentDown, sending) /\ sending \in Sendable
            /\ Written \o w = Wire(sending) /\ Written' = <<>> /\ Len(w) > 0
  <2> DEFINE last == Len(sentDown)
             n == Len(gotDown)
             more == Append(sentDown, sending)
  <2>1. Rest(stream, place[Len(sentDown)]) \o w = Wire(sending) /\ Len(gotDown) <= Len(sentDown)
    BY <1>1, <1>14 DEF DownPlace
  <2>2. PICK further : /\ Carries(longer, further, more, 0)
                       /\ further[last + 1] = Len(longer)
                       /\ \A i \in 0 .. last : further[i] = place[i]
    <3>1. \E further :
            /\ Carries(stream \o w, further, Append(sentDown, sending), 0)
            /\ further[Len(sentDown) + 1] = Len(stream \o w)
            /\ \A i \in 0 .. Len(sentDown) : further[i] = place[i]
      <4> USE DEF longer
      <4> QED BY <1>4, <1>5, <2>1, CarriesMore, SMTT(60)
    <3> QED BY <3>1, Zenon DEF longer
  <2>3. /\ Len(more) = last + 1 /\ more[last + 1] = sending
        /\ \A i \in 1 .. last : more[i] = sentDown[i]
    BY <1>4, AppendProperties
  <2>4. last \in Nat /\ n \in Nat /\ n <= last /\ sentDown' = more
    BY <1>4, <1>14, <2>1
  <2> HIDE DEF more
  <2>5. Len(gotDown') < Len(sentDown') /\ Reading' /\ Reading
        /\ Len(sentDown') = last + 1 /\ Len(gotDown') = n
    BY <1>3, <1>14, <2>3, <2>4 DEF Reading
  <2>6. NextDown' = NextDown
    <3>1. NextDown' = more[n + 1]
      BY <1>3, <2>4, <2>5 DEF NextDown
    <3>2. CASE n < last
      <4>1. n + 1 \in 1 .. last
        BY <2>4, <3>2
      <4> QED BY <2>3, <3>1, <3>2, <4>1 DEF NextDown
    <3>3. CASE n = last
      <4>1. ~(n < last)
        BY <2>4, <3>3
      <4> QED BY <2>3, <3>1, <3>3, <4>1 DEF NextDown
    <3> QED BY <2>4, <3>2, <3>3
  <2>7. further[n] = place[n]
    BY <2>2, <2>4
  <2>8. k < further[n + 1]
    <3>1. CASE n < last
      <4>1. k < place[n + 1] /\ n + 1 \in 0 .. last
        BY <1>1, <2>4, <2>5, <3>1 DEF DownPlace
      <4> QED BY <2>2, <4>1
    <3>2. CASE n = last
      BY <1>5, <1>7, <1>14, <2>2, <3>2
    <3> QED BY <2>4, <3>1, <3>2
  <2>9. Rest(longer, further[last + 1]) = Written'
    BY <1>7, <1>14, <2>2, RestOfAll
  <2>10. DownPlace(longer, further, k)'
    <3>1. /\ display # "null_buffer" /\ k >= place[n] /\ FdAt(fd, NextDown, k - place[n])
      BY <1>1, <2>5 DEF DownPlace
    <3>2. /\ display' # "null_buffer" /\ k >= further[n]
          /\ FdAt(fd', NextDown', k - further[n])
      BY <1>3, <2>6, <2>7, <3>1
    <3> QED BY <1>3, <1>7, <1>8, <1>11, <2>2, <2>4, <2>5, <2>8, <2>9, <3>2 DEF DownPlace
  <2> QED BY <2>10 DEF DownInv
<1> QED BY <1>2, <1>12, <1>13, <1>14

\* Channel and length of every block fit into the two bytes that are written of them.
Fits == \A b \in AllBlocks : Fit(b)

\* The next byte is one of the next block: of a block that has been sent, or of the part
\* that has been written of the next one.
LEMMA DownByte ==
  ASSUME LinkTypes, NEW stream, NEW place, NEW k, DownPlace(stream, place, k), Reading,
         k < Len(stream)
  PROVE  LET j == k - place[Len(gotDown)] IN
         /\ NextDown \in AllBlocks /\ NextDown \in AnyBlocks
         /\ j \in Nat /\ j < Len(Wire(NextDown))
         /\ place[Len(gotDown)] \in Nat
         /\ FdAt(fd, NextDown, j)
         /\ stream[k + 1] = Wire(NextDown)[j + 1]
         /\ Len(gotDown) < Len(sentDown) =>
              /\ NextDown \in Sendable
              /\ place[Len(gotDown) + 1] = place[Len(gotDown)] + Len(Wire(NextDown))
         /\ ~(Len(gotDown) < Len(sentDown)) => j < 4
<1> DEFINE n == Len(gotDown)
           j == k - place[n]
<1>1. /\ sentDown \in Seq(AnyBlocks) /\ sentDown \in Seq(Sendable)
      /\ sending \in AnyBlocks /\ sending \in AllBlocks
      /\ Len(sentDown) \in Nat /\ n \in Nat
  BY SeqsOfBlocks
<1>2. /\ stream \in Seq(Bytes) /\ k \in 0 .. Len(stream)
      /\ Carries(stream, place, sentDown, 0)
      /\ k >= place[n] /\ FdAt(fd, NextDown, j)
      /\ Len(stream) \in Nat
  BY DEF DownPlace
<1>3. CASE n < Len(sentDown)
  <2>1. n \in 0 .. Len(sentDown) - 1 /\ n + 1 \in 1 .. Len(sentDown)
    BY <1>1, <1>3
  <2>2. NextDown = sentDown[n + 1] /\ sentDown[n + 1] \in Sendable
    BY <1>1, <1>3, <2>1, ElementOfSeq DEF NextDown
  <2>3. /\ place[n] \in Nat /\ place[n + 1] \in Nat
        /\ place[n + 1] = place[n] + Len(Wire(NextDown))
        /\ Len(Wire(NextDown)) \in Nat
        /\ \A i \in 1 .. Len(Wire(NextDown)) : stream[place[n] + i] = Wire(NextDown)[i]
    BY <1>1, <1>2, <2>1, <2>2, PlacesOfMore
  <2>4. k < place[n + 1]
    BY <1>3 DEF DownPlace
  <2>5. NextDown \in Sendable /\ NextDown \in AllBlocks /\ NextDown \in AnyBlocks
    BY <2>2, BlockBytes
  <2> HIDE DEF n
  <2>6. j \in Nat /\ j < Len(Wire(NextDown)) /\ place[n] + (j + 1) = k + 1
    BY <1>2, <2>3, <2>4
  <2>7. j + 1 \in 1 .. Len(Wire(NextDown))
    BY <2>3, <2>6
  <2>8. stream[k + 1] = Wire(NextDown)[j + 1]
    <3> HIDE DEF j
    <3>1. stream[place[n] + (j + 1)] = Wire(NextDown)[j + 1]
      BY <2>3, <2>7
    <3> QED BY <2>6, <3>1
  <2> HIDE DEF j
  <2> QED BY <1>2, <1>3, <2>3, <2>5, <2>6, <2>8 DEF n, j
<1>4. CASE ~(n < Len(sentDown))
  <2>1. ~brokenDown
    BY <1>4 DEF Reading
  <2>2. n <= Len(sentDown) /\ Rest(stream, place[Len(sentDown)]) = Written
    BY <2>1 DEF DownPlace
  <2>3. n = Len(sentDown)
    BY <1>1, <1>4, <2>2
  <2>4. NextDown = sending
    BY <1>4 DEF NextDown
  <2>5. place[n] \in 0 .. Len(stream)
    BY <1>1, <1>2, <2>3, Places
  <2>6. Rest(stream, place[n]) = Written
    BY <2>2, <2>3
  <2> HIDE DEF n
  <2>7. /\ Len(Written) = Len(stream) - place[n]
        /\ \A i \in 1 .. Len(stream) - place[n] : Written[i] = stream[place[n] + i]
    <3> DEFINE m == place[n]
    <3>1. m \in 0 .. Len(stream) /\ Rest(stream, m) = Written
      BY <2>5, <2>6
    <3> HIDE DEF m
    <3>2. /\ Len(Rest(stream, m)) = Len(stream) - m
          /\ \A i \in 1 .. Len(stream) - m : Rest(stream, m)[i] = stream[m + i]
      BY <1>2, <3>1, Cut
    <3>3. /\ Len(Written) = Len(stream) - m
          /\ \A i \in 1 .. Len(stream) - m : Written[i] = stream[m + i]
      BY <3>1, <3>2
    <3> QED BY <3>3 DEF m
  <2>8. Len(Written) > 0
    BY <1>2, <2>5, <2>7
  <2>9. Written = Preamble(sending)
    <3>1. Len(<<>>) = 0
      OBVIOUS
    <3> QED BY <2>8, <3>1 DEF Written
  <2>10. /\ Len(Preamble(sending)) = 4
         /\ \A i \in 1 .. 4 : Wire(sending)[i] = Preamble(sending)[i]
         /\ Len(Wire(sending)) >= 4 /\ Len(Wire(sending)) \in Nat
    BY <1>1, PreambleBytes, WireBytes
  <2>11. j \in Nat /\ j < 4 /\ j + 1 \in 1 .. Len(stream) - place[n] /\ j + 1 \in 1 .. 4
         /\ place[n] + (j + 1) = k + 1
    <3> DEFINE m == place[n]
    <3>1. m \in 0 .. Len(stream) /\ k >= m
      BY <1>2, <2>5
    <3>2. Len(Written) = Len(stream) - m
      BY <2>7
    <3>3. Len(Written) = 4
      BY <2>9, <2>10, Zenon
    <3> HIDE DEF m
    <3>4. k \in Nat /\ k < Len(stream) /\ Len(stream) \in Nat
      BY <1>2
    <3>5. Len(stream) - m = 4
      BY <3>2, <3>3
    <3>6. /\ k - m \in Nat /\ k - m < 4 /\ (k - m) + 1 \in 1 .. Len(stream) - m
          /\ (k - m) + 1 \in 1 .. 4 /\ m + ((k - m) + 1) = k + 1
      BY <3>1, <3>4, <3>5
    <3> QED BY <3>6 DEF m
  <2> HIDE DEF j
  <2>12. stream[k + 1] = Wire(sending)[j + 1]
    BY <2>7, <2>9, <2>10, <2>11
  <2>13. j < Len(Wire(sending)) /\ place[n] \in Nat
    BY <1>2, <2>5, <2>10, <2>11
  <2> QED BY <1>1, <1>2, <1>4, <2>4, <2>11, <2>12, <2>13 DEF n, j
<1> QED BY <1>3, <1>4

\* A byte that is parsed moves the place on; the block it may end is the one that was
\* sent, unless the stream was broken before.
LEMMA DownParses ==
  ASSUME Fits, LinkTypes, DownInv, CheckForFdInput
  PROVE  /\ DownInv'
         /\ Len(gotDown) < Len(sentDown) =>
              \/ gotDown' = gotDown
              \/ gotDown' = Append(gotDown, sentDown[Len(gotDown) + 1])
         /\ ~brokenDown /\ ~(Len(gotDown) < Len(sentDown)) => gotDown' = gotDown
<1> DEFINE step == FdStep(fd, Head(fdIn))
           n == Len(gotDown)
<1>1. PICK stream, place, k : DownPlace(stream, place, k)
  BY DEF DownInv
<1>2. /\ fd' = step.next /\ fdIn' = Tail(fdIn) /\ fdIn # <<>>
      /\ display' = IF step.call.does = "fail" THEN step.call.why ELSE display
      /\ gotDown' = IF step.call.does = "handle" THEN Append(gotDown, step.call.block)
                                                 ELSE gotDown
      /\ UNCHANGED <<sentDown, brokenDown, pipe, relayOut, tube, bottomOut, sending>>
  BY DEF CheckForFdInput, sharerVars, tubeVars, relayVars
<1>3. /\ sentDown \in Seq(AnyBlocks) /\ Len(sentDown) \in Nat /\ n \in Nat
      /\ gotDown \in Seq(Blocks) /\ FdTypeOK(fd)
  BY SeqsOfBlocks DEF LinkTypes, DisplayTypes
<1>4. /\ stream \in Seq(Bytes) /\ k \in 0 .. Len(stream) /\ Len(stream) \in Nat
      /\ Carries(stream, place, sentDown, 0)
      /\ DownFlow = Rest(stream, k)
  BY <1>1 DEF DownPlace
<1>5. /\ DownFlow # <<>> /\ Head(DownFlow) = Head(fdIn) /\ DownFlow' = Tail(DownFlow)
  <2>1. /\ fdIn \in Seq(Bytes) /\ pipe \in Seq(Bytes) /\ tube \in Seq(Bytes)
        /\ OutTo(relayOut, "pipe") \in Seq(Bytes)
    BY DownTypes
  <2> DEFINE o == OutTo(relayOut, "pipe")
  <2>2. DownFlow = Flow(fdIn, pipe, o, tube) /\ DownFlow' = Flow(Tail(fdIn), pipe, o, tube)
    BY <1>2 DEF DownFlow
  <2>3. o \in Seq(Bytes)
    BY <2>1
  <2>4. fdIn # <<>>
    BY <1>2
  <2> HIDE DEF o
  <2>5. /\ Flow(fdIn, pipe, o, tube) # <<>>
        /\ FirstOf(Flow(fdIn, pipe, o, tube)) = FirstOf(fdIn)
        /\ Others(Flow(fdIn, pipe, o, tube)) = Flow(Others(fdIn), pipe, o, tube)
    BY <2>1, <2>3, <2>4, FlowNext
  <2> QED BY <2>2, <2>5, Zenon DEF FirstOf, Others
<1>6. k < Len(stream) /\ Head(fdIn) = stream[k + 1] /\ DownFlow' = Rest(stream, k + 1)
      /\ k + 1 \in 0 .. Len(stream)
  <2>1. Rest(stream, k) # <<>>
    BY <1>4, <1>5
  <2>2. /\ k < Len(stream) /\ Head(Rest(stream, k)) = stream[k + 1]
        /\ Tail(Rest(stream, k)) = Rest(stream, k + 1)
    BY <1>4, <2>1, RestAfterNext
  <2> QED BY <1>4, <1>5, <2>2
<1>7. Written' = Written
  BY <1>2 DEF Written
<1> HIDE DEF step
<1>8. CASE ~Reading
  <2>1. brokenDown /\ ~(n < Len(sentDown))
    BY <1>8 DEF Reading
  <2>2. ~(Len(gotDown') < Len(sentDown'))
    <3>1. Len(gotDown') >= n /\ Len(gotDown') \in Nat
      <4>1. CASE gotDown' = gotDown
        BY <1>3, <4>1
      <4>2. CASE gotDown' = Append(gotDown, step.call.block)
        BY <1>3, <4>2, AppendProperties
      <4> QED BY <1>2, <4>1, <4>2
    <3> QED BY <1>2, <1>3, <2>1, <3>1
  <2>3. ~Reading' /\ brokenDown'
    BY <1>2, <2>1, <2>2 DEF Reading
  <2>4. DownPlace(stream, place, k + 1)'
    BY <1>2, <1>4, <1>6, <2>3 DEF DownPlace
  <2> QED BY <2>1, <2>4 DEF DownInv
<1>9. CASE Reading
  <2> DEFINE b == NextDown
             j == k - place[n]
  <2>1. /\ b \in AllBlocks /\ b \in AnyBlocks
        /\ j \in Nat /\ j < Len(Wire(b)) /\ place[n] \in Nat
        /\ FdAt(fd, b, j)
        /\ stream[k + 1] = Wire(b)[j + 1]
        /\ n < Len(sentDown) => b \in Sendable /\ place[n + 1] = place[n] + Len(Wire(b))
        /\ ~(n < Len(sentDown)) => j < 4
    BY <1>1, <1>6, <1>9, DownByte
  <2>2. /\ display # "null_buffer"
        /\ ~brokenDown => n <= Len(sentDown) /\ Rest(stream, place[Len(sentDown)]) = Written
    BY <1>1, <1>9 DEF DownPlace
  <2>3. (k + 1) - place[n] = j + 1
    BY <1>4, <2>1, SMTT(30)
  <2> HIDE DEF b, j
  <2>4. \/ /\ step.call = Nothing
           /\ FdAt(step.next, b, j + 1)
           /\ j < 4 \/ j + 1 < Len(Wire(b))
        \/ /\ step.call = Handle(b)
           /\ \A c : FdAt(step.next, c, 0)
           /\ j >= 4 /\ j + 1 = Len(Wire(b))
    <3>1. Fit(b) /\ Head(fdIn) = Wire(b)[j + 1]
      BY <1>6, <2>1 DEF Fits
    <3> QED BY <1>3, <2>1, <3>1, FdParses, ZenonT(30) DEF step
  <2>5. /\ Len(Wire(b)) = 4 + Len(b.payload) /\ Len(b.payload) \in Nat
        /\ Len(Wire(b)) \in Nat
        /\ b \in Sendable => Len(b.payload) > 0
    <3>1. Len(Wire(b)) = 4 + Len(b.payload) /\ b.payload \in Seq(Bytes)
      BY <2>1, BlockBytes
    <3>2. b \in Sendable => b.payload # <<>>
      BY DEF Sendable
    <3> QED BY <3>1, <3>2, EmptySeq
  <2>6. CASE /\ step.call = Nothing
             /\ FdAt(step.next, b, j + 1)
             /\ j < 4 \/ j + 1 < Len(Wire(b))
    <3>1. gotDown' = gotDown /\ display' = display
      BY <1>2, <2>6 DEF Nothing
    <3>2. NextDown' = b /\ Reading'
      BY <1>2, <1>9, <3>1 DEF NextDown, Reading, b
    <3>3. n < Len(sentDown) => k + 1 < place[n + 1]
      <4>1. n < Len(sentDown) => j + 1 < Len(Wire(b))
        BY <2>1, <2>5, <2>6
      <4> QED BY <1>4, <2>1, <2>3, <2>5, <4>1, SMTT(30)
    <3>4. k + 1 >= place[n]
      BY <1>4, <2>1, <2>3
    <3>5. DownPlace(stream, place, k + 1)'
      <4>1. FdAt(fd', NextDown', (k + 1) - place[n])
        BY <1>2, <2>3, <2>6, <3>2
      <4> QED BY <1>2, <1>4, <1>6, <1>7, <2>2, <3>1, <3>3, <3>4, <4>1 DEF DownPlace
    <3> QED BY <3>1, <3>5 DEF DownInv
  <2>7. CASE /\ step.call = Handle(b)
             /\ \A c : FdAt(step.next, c, 0)
             /\ j >= 4 /\ j + 1 = Len(Wire(b))
    <3>1. gotDown' = Append(gotDown, b) /\ display' = display
      BY <1>2, <2>7 DEF Handle
    <3>2. n < Len(sentDown) /\ b = sentDown[n + 1]
      <4>1. n < Len(sentDown)
        BY <2>1, <2>7
      <4> QED BY <4>1 DEF b, NextDown
    <3>3. Len(gotDown') = n + 1
      BY <1>3, <3>1, AppendProperties
    <3>4. place[n + 1] = k + 1
      BY <1>4, <2>1, <2>3, <2>5, <2>7, <3>2
    <3>5. n + 1 < Len(sentDown) => k + 1 < place[(n + 1) + 1]
      <4> SUFFICES ASSUME n + 1 < Len(sentDown)
                   PROVE  k + 1 < place[(n + 1) + 1]
        OBVIOUS
      <4>1. n + 1 \in 0 .. Len(sentDown) - 1
        BY <1>3
      <4> DEFINE m == n + 1
      <4>2. m \in 0 .. Len(sentDown) - 1 /\ place[m] = k + 1
        BY <3>4, <4>1
      <4> HIDE DEF m
      <4>3. /\ place[m] \in Nat /\ place[m + 1] \in Nat
            /\ place[m + 1] = place[m] + Len(Wire(sentDown[m + 1]))
            /\ Len(Wire(sentDown[m + 1])) \in Nat /\ Len(Wire(sentDown[m + 1])) >= 4
        BY <1>3, <1>4, <4>2, PlacesOfMore
      <4>4. k + 1 < place[m + 1]
        BY <4>2, <4>3
      <4> QED BY <4>4 DEF m
    <3>6. n + 1 <= Len(sentDown)
      BY <1>3, <3>2
    <3>7. DownPlace(stream, place, k + 1)'
      <4>1. (k + 1) - place[n + 1] = 0 /\ k + 1 >= place[n + 1]
        BY <1>4, <3>4
      <4>2. FdAt(fd', NextDown', (k + 1) - place[n + 1])
        BY <1>2, <2>7, <4>1
      <4> QED BY <1>2, <1>4, <1>6, <1>7, <2>2, <3>1, <3>3, <3>5, <3>6, <4>1, <4>2 DEF DownPlace
    <3> QED BY <3>1, <3>2, <3>7 DEF DownInv
  <2> QED BY <2>4, <2>6, <2>7
<1> QED BY <1>8, <1>9

LEMMA CatEmpty ==
  ASSUME NEW s \in Seq(Bytes)
  PROVE  Cat(<<>>, s) = s
BY Joined DEF Cat

\* The relay's job, when there is none and when one has begun.
LEMMA JobOut ==
  /\ OutTo(Idle, "up") = <<>> /\ OutTo(Idle, "pipe") = <<>>
  /\ \A s : /\ OutTo([to |-> "up", bytes |-> s], "up") = s
            /\ OutTo([to |-> "up", bytes |-> s], "pipe") = <<>>
            /\ OutTo([to |-> "pipe", bytes |-> s], "up") = <<>>
            /\ OutTo([to |-> "pipe", bytes |-> s], "pipe") = s
BY JobFields DEF OutTo

\* What the relay reads from the tube is still on its way.
LEMMA TubeToRelay ==
  ASSUME LinkTypes, CopyTopToServer
  PROVE  DownFlow' = DownFlow
<1> DEFINE n == Least(Len(tube), ReadSize)
           o == OutTo(relayOut, "pipe")
           t == OutTo(relayOut', "pipe")
<1>1. /\ relayOut = Idle
      /\ \/ UNCHANGED <<relayOut, tube>>
         \/ /\ relayOut' = [to |-> "pipe", bytes |-> First(tube, n)]
            /\ tube' = Rest(tube, n)
      /\ UNCHANGED <<fdIn, pipe>>
  BY DEF CopyTopToServer, RelayIdle
<1>2. /\ fdIn \in Seq(Bytes) /\ pipe \in Seq(Bytes) /\ tube \in Seq(Bytes)
      /\ n \in 0 .. Len(tube) /\ First(tube, n) \in Seq(Bytes) /\ <<>> \in Seq(Bytes)
  BY DownTypes, Drains, EmptySeq
<1>3. CASE UNCHANGED <<relayOut, tube>>
  BY <1>1, <1>3 DEF DownFlow
<1>4. CASE /\ relayOut' = [to |-> "pipe", bytes |-> First(tube, n)]
           /\ tube' = Rest(tube, n)
  <2> HIDE DEF n
  <2>1. o = <<>> /\ t = First(tube, n)
    BY <1>1, <1>4, JobOut
  <2>2. DownFlow = Flow(fdIn, pipe, o, tube) /\ DownFlow' = Flow(fdIn, pipe, t, Rest(tube, n))
    BY <1>1, <1>4 DEF DownFlow
  <2> HIDE DEF o, t
  <2>3. t = Cat(o, First(tube, n)) /\ o \in Seq(Bytes)
    BY <1>2, <2>1, CatEmpty
  <2>4. Flow(fdIn, pipe, Cat(o, First(tube, n)), Rest(tube, n)) = Flow(fdIn, pipe, o, tube)
    BY <1>2, <2>3, ThirdMoves
  <2> QED BY <2>2, <2>3, <2>4, Zenon
<1> QED BY <1>1, <1>3, <1>4

\* So is what it writes to the display program.
LEMMA RelayToPipe ==
  ASSUME LinkTypes, RelayWrites
  PROVE  DownFlow' = DownFlow
<1> DEFINE o == OutTo(relayOut, "pipe")
           t == OutTo(relayOut', "pipe")
<1>1. UNCHANGED <<fdIn, tube>>
  BY RelayWritesForms DEF displayVars
<1>2. /\ fdIn \in Seq(Bytes) /\ pipe \in Seq(Bytes) /\ tube \in Seq(Bytes)
      /\ o \in Seq(Bytes)
  BY DownTypes
<1>3. CASE relayOut.to = "up"
  <2>1. o = <<>>
    BY <1>3 DEF OutTo
  <2>2. t = <<>> /\ pipe' = pipe
    BY <1>3, RelayWritesForms, JobOut
  <2> QED BY <1>1, <2>1, <2>2 DEF DownFlow
<1>4. CASE relayOut.to = "pipe"
  <2>1. o = relayOut.bytes
    BY <1>4 DEF OutTo
  <2>2. PICK n \in 0 .. Len(relayOut.bytes) :
          pipe' = pipe \o First(relayOut.bytes, n) /\ t = Rest(relayOut.bytes, n)
    BY <1>4, RelayWritesForms
  <2>3. /\ DownFlow = Flow(fdIn, pipe, o, tube)
        /\ DownFlow' = Flow(fdIn, Cat(pipe, First(o, n)), Rest(o, n), tube)
    BY <1>1, <2>1, <2>2 DEF DownFlow, Cat
  <2>4. n \in 0 .. Len(o)
    BY <2>1
  <2> HIDE DEF o, t
  <2>5. Flow(fdIn, Cat(pipe, First(o, n)), Rest(o, n), tube) = Flow(fdIn, pipe, o, tube)
    BY <1>2, <2>4, SecondMoves
  <2> QED BY <2>3, <2>5, Zenon
<1> QED BY <1>3, <1>4, RelayWritesForms

\* And what the display program reads.
LEMMA PipeToDisplay ==
  ASSUME LinkTypes, DisplayReads
  PROVE  DownFlow' = DownFlow
<1> DEFINE n == Least(Len(pipe), ReadSize)
           o == OutTo(relayOut, "pipe")
<1>1. /\ fdIn = <<>> /\ fdIn' = First(pipe, n) /\ pipe' = Rest(pipe, n)
      /\ UNCHANGED <<relayOut, tube>>
  BY DEF DisplayReads, DisplayIdle, relayVars, tubeVars
<1>2. /\ fdIn \in Seq(Bytes) /\ pipe \in Seq(Bytes) /\ tube \in Seq(Bytes)
      /\ o \in Seq(Bytes)
      /\ n \in 0 .. Len(pipe) /\ First(pipe, n) \in Seq(Bytes)
  BY DownTypes, Drains
<1> HIDE DEF n
<1>3. First(pipe, n) = Cat(fdIn, First(pipe, n))
  BY <1>1, <1>2, CatEmpty
<1>4. /\ DownFlow = Flow(fdIn, pipe, o, tube)
      /\ DownFlow' = Flow(First(pipe, n), Rest(pipe, n), o, tube)
  BY <1>1 DEF DownFlow
<1> HIDE DEF o
<1>5. Flow(Cat(fdIn, First(pipe, n)), Rest(pipe, n), o, tube) = Flow(fdIn, pipe, o, tube)
  BY <1>2, FirstMoves
<1> QED BY <1>3, <1>4, <1>5, Zenon

LEMMA DownSharer ==
  ASSUME LinkTypes, DownInv, sharer = "running" => tubeOpen, SharerNext
  PROVE  DownInv'
<1>1. ASSUME NEW b \in DownBlocks, SharerSends(b)
      PROVE  DownInv'
  <2>1. /\ bottomOut = <<>> /\ bottomOut' \in Writes(sending') /\ sending' \in AllBlocks
        /\ UNCHANGED <<fd, fdIn, pipe, relayOut, tube, display, downHistory>>
    BY <1>1 DEF SharerSends, SharerIdle, AllBlocks, displayVars, relayVars, tubeVars
  <2> QED BY <2>1, DownSending
<1>2. CASE SharerWrites
  <2>1. tubeOpen
    BY <1>2 DEF SharerWrites
  <2> QED BY <1>2, <2>1, DownWrites
<1>3. CASE SharerReads
  <2>1. UNCHANGED <<fd, fdIn, pipe, relayOut, tube, display, downHistory, bottomOut, sending>>
    BY <1>3 DEF SharerReads, displayVars, relayVars
  <2>2. DownFlow' = DownFlow
    BY <2>1 DEF DownFlow
  <2> QED BY <2>1, <2>2, DownSame
<1>4. CASE CopyBottomToClient
  <2>1. /\ bottomOut = <<>>
        /\ \/ bottomOut' = <<Preamble(Avatar), Avatar.payload>> /\ sending' = Avatar
           \/ UNCHANGED <<bottomOut, sending>>
        /\ UNCHANGED <<fd, fdIn, pipe, relayOut, tube, display, downHistory>>
    BY <1>4 DEF CopyBottomToClient, displayVars, relayVars, tubeVars
  <2>2. DownFlow' = DownFlow
    BY <2>1 DEF DownFlow
  <2>3. CASE bottomOut' = <<Preamble(Avatar), Avatar.payload>> /\ sending' = Avatar
    <3>1. bottomOut' \in Writes(sending') /\ sending' \in AllBlocks
      BY <2>3 DEF Writes, AllBlocks
    <3> QED BY <2>1, <3>1, DownSending
  <2>4. CASE UNCHANGED <<bottomOut, sending>>
    BY <2>1, <2>2, <2>4, DownSame
  <2> QED BY <2>1, <2>3, <2>4
<1> QED BY <1>1, <1>2, <1>3, <1>4 DEF SharerNext

LEMMA DownRelay ==
  ASSUME LinkTypes, DownInv, RelayNext
  PROVE  DownInv'
<1>1. CASE RefuseConnection
  <2>1. UNCHANGED <<fd, fdIn, pipe, relayOut, tube, display, downHistory, bottomOut, sending>>
    BY <1>1 DEF RefuseConnection, displayVars, sharerVars, tubeVars
  <2>2. DownFlow' = DownFlow
    BY <2>1 DEF DownFlow
  <2> QED BY <2>1, <2>2, DownSame
<1>2. CASE AcceptConnection
  <2>1. UNCHANGED <<fd, fdIn, pipe, tube, display, downHistory, bottomOut, sending>>
    BY <1>2 DEF AcceptConnection, displayVars, sharerVars, tubeVars
  <2>2. /\ relayOut = Idle
        /\ relayOut' = relayOut \/ \E s : relayOut' = [to |-> "up", bytes |-> s]
    BY <1>2 DEF AcceptConnection, RelayIdle
  <2>3. OutTo(relayOut', "pipe") = OutTo(relayOut, "pipe")
    BY <2>2, JobOut
  <2>4. DownFlow' = DownFlow
    BY <2>1, <2>3 DEF DownFlow
  <2> QED BY <2>1, <2>4, DownSame
<1>3. CASE CopyTopToServer
  <2>1. /\ UNCHANGED <<fd, downHistory, bottomOut, sending>>
        /\ display' = "null_buffer" => display = "null_buffer"
    BY <1>3 DEF CopyTopToServer, StartDisplay, sharerVars
  <2> QED BY <1>3, <2>1, TubeToRelay, DownSame
<1>4. CASE CopyServerToTop
  <2>1. UNCHANGED <<fd, fdIn, pipe, tube, display, downHistory, bottomOut, sending>>
    BY <1>4 DEF CopyServerToTop, displayVars, sharerVars, tubeVars
  <2>2. relayOut = Idle /\ \E s : relayOut' = [to |-> "up", bytes |-> s]
    BY <1>4 DEF CopyServerToTop, RelayIdle
  <2>3. OutTo(relayOut', "pipe") = OutTo(relayOut, "pipe")
    BY <2>2, JobOut
  <2>4. DownFlow' = DownFlow
    BY <2>1, <2>3 DEF DownFlow
  <2> QED BY <2>1, <2>4, DownSame
<1>5. CASE RelayWrites
  <2>1. UNCHANGED <<fd, display, downHistory, bottomOut, sending>>
    BY <1>5 DEF RelayWrites, displayVars, sharerVars
  <2> QED BY <1>5, <2>1, RelayToPipe, DownSame
<1> QED BY <1>1, <1>2, <1>3, <1>4, <1>5 DEF RelayNext

LEMMA DownDisplay ==
  ASSUME Fits, LinkTypes, DownInv, DisplayNext
  PROVE  DownInv'
<1>1. CASE DisplayReads
  <2>1. UNCHANGED <<fd, display, downHistory, bottomOut, sending>>
    BY <1>1 DEF DisplayReads, sharerVars
  <2> QED BY <1>1, <2>1, PipeToDisplay, DownSame
<1>2. CASE CheckForFdInput
  BY <1>2, DownParses
<1>3. CASE DisplayWrites \/ \E b \in UpBlocks : CheckForRfbReplies(b)
  <2>1. UNCHANGED <<fd, fdIn, pipe, relayOut, tube, display, downHistory, bottomOut, sending>>
    BY <1>3 DEF DisplayWrites, CheckForRfbReplies, sharerVars, tubeVars, relayVars
  <2>2. DownFlow' = DownFlow
    BY <2>1 DEF DownFlow
  <2> QED BY <2>1, <2>2, DownSame
<1> QED BY <1>1, <1>2, <1>3 DEF DisplayNext

LEMMA DownStep ==
  Fits /\ LinkTypes /\ (sharer = "running" => tubeOpen) /\ DownInv /\ [Next]_vars => DownInv'
<1> SUFFICES ASSUME Fits, LinkTypes, sharer = "running" => tubeOpen, DownInv, [Next]_vars
             PROVE  DownInv'
  OBVIOUS
<1>1. CASE HangUp \/ UNCHANGED vars
  <2>1. UNCHANGED <<fd, fdIn, pipe, relayOut, tube, display, downHistory, bottomOut, sending>>
    BY <1>1 DEF HangUp, vars, sharerVars, tubeVars, relayVars, displayVars
  <2>2. DownFlow' = DownFlow
    BY <2>1 DEF DownFlow
  <2> QED BY <2>1, <2>2, DownSame
<1> QED BY <1>1, DownSharer, DownRelay, DownDisplay DEF Next

-----------------------------------------------------------------------------
(* Up: the display program, the relay and the sharer.                      *)

\* Bytes on their way from the display program to the sharer's parser.
UpFlow == Cat(Flow(bottomIn, up, OutTo(relayOut, "up"), back), displayOut)

\* The tube's connection comes last.
BacklogOK ==
  /\ backlog \in Seq({"stranger", "tube"})
  /\ \A i \in 1 .. Len(backlog) : backlog[i] = "tube" <=> i = Len(backlog)

\* Before the relay has accepted the tube nothing goes up.
Quiet ==
  /\ relayOut = Idle /\ ~topWatch /\ ~spawned /\ display = "none"
  /\ bottomIn = <<>> /\ up = <<>> /\ back = <<>> /\ displayOut = <<>>
  /\ bottom = BottomStart /\ sentUp = <<>> /\ gotUp = <<>>

\* The block whose bytes the sharer's parser meets.
NextUp == IF Len(gotUp) < Len(sentUp) THEN sentUp[Len(gotUp) + 1] ELSE Avatar

\* Of all the bytes that have been written upstream, the header first, the parser has
\* taken the first k; the i-th block that was sent ends at place[i].
UpPlace(stream, place, k) ==
  /\ stream \in Seq(Bytes) /\ k \in 0 .. Len(stream)
  /\ Carries(stream, place, sentUp, HeaderSize)
  /\ place[Len(sentUp)] = Len(stream)
  /\ HeaderSize <= Len(stream) /\ \A i \in 1 .. HeaderSize : stream[i] = 1
  /\ UpFlow = Rest(stream, k)
  /\ Len(gotUp) <= Len(sentUp)
  /\ \/ /\ k < HeaderSize /\ Len(gotUp) = 0
        /\ bottom.stage = k - HeaderSize - 4 /\ bottom.buffer = <<>>
     \/ /\ ~(k < HeaderSize) /\ k >= place[Len(gotUp)]
        /\ BottomAt(bottom, NextUp, k - place[Len(gotUp)])
        /\ Len(gotUp) < Len(sentUp) => k < place[Len(gotUp) + 1]

UpPlaced == \E stream, place, k : UpPlace(stream, place, k)

UpInv ==
  /\ BacklogOK
  /\ \/ sharer \in HungUp
     \/ /\ sharer = "running" /\ tubeOpen
        /\ Quiet \/ (backlog = <<>> /\ UpPlaced)

\* One element behind others of another kind.
LEMMA OneBehind ==
  ASSUME NEW S, NEW s \in Seq(S), NEW x \in S, \A i \in 1 .. Len(s) : s[i] # x
  PROVE  /\ Append(s, x) \in Seq(S)
         /\ \A i \in 1 .. Len(Append(s, x)) :
              Append(s, x)[i] = x <=> i = Len(Append(s, x))
<1> DEFINE t == Append(s, x)
<1>1. /\ t \in Seq(S) /\ Len(t) = Len(s) + 1 /\ t[Len(s) + 1] = x
      /\ \A i \in 1 .. Len(s) : t[i] = s[i]
  BY AppendProperties
<1> HIDE DEF t
<1>2. \A i \in 1 .. Len(t) : t[i] = x <=> i = Len(t)
  BY <1>1
<1> QED BY <1>1, <1>2 DEF t

LEMMA UpInit ==
  Init => UpInv
<1> SUFFICES ASSUME Init
             PROVE  UpInv
  OBVIOUS
<1>1. BacklogOK
  <2> DEFINE s == [i \in 1 .. Strangers |-> "stranger"]
             S == {"stranger", "tube"}
  <2>1. s \in Seq(S) /\ \A i \in 1 .. Len(s) : s[i] # "tube"
    BY LinkAssumption
  <2>2. backlog = s \o <<"tube">> /\ "tube" \in S
    BY DEF Init
  <2> HIDE DEF s, S
  <2>3. backlog = Append(s, "tube")
    BY <2>1, <2>2, AppendIsConcat
  <2> QED BY <2>1, <2>2, <2>3, OneBehind DEF BacklogOK, S
<1>2. Quiet
  BY DEF Init, Quiet
<1>3. sharer = "running" /\ tubeOpen
  BY DEF Init
<1> QED BY <1>1, <1>2, <1>3, Zenon DEF UpInv

\* Bytes that only move on change nothing.
LEMMA UpSame ==
  ASSUME UpPlaced, UpFlow' = UpFlow, UNCHANGED <<bottom, sentUp, gotUp>>
  PROVE  UpPlaced'
<1>1. PICK stream, place, k : UpPlace(stream, place, k)
  BY DEF UpPlaced
<1>2. NextUp' = NextUp
  BY DEF NextUp
<1>3. UpPlace(stream, place, k)'
  BY <1>1, <1>2 DEF UpPlace
<1> QED BY <1>3 DEF UpPlaced

\* A block is written behind a stream of whole blocks.
LEMMA StreamMore ==
  ASSUME NEW stream \in Seq(Bytes), NEW blocks \in Seq(AnyBlocks), NEW b \in AnyBlocks,
         NEW place, NEW start,
         Carries(stream, place, blocks, start), place[Len(blocks)] = Len(stream)
  PROVE  \E further :
           /\ Carries(stream \o Wire(b), further, Append(blocks, b), start)
           /\ further[Len(blocks) + 1] = Len(stream \o Wire(b))
           /\ \A i \in 0 .. Len(blocks) : further[i] = place[i]
<1> DEFINE w == Wire(b)
           last == place[Len(blocks)]
           more == stream \o w
           both == Append(blocks, b)
           r == Rest(stream, last)
<1>1. w \in Seq(Bytes)
  BY WireBytes
<1>2. r = <<>>
  BY RestOfAll
<1>3. r \o w = Wire(b)
  BY <1>1, <1>2, Joined
<1>4. \E further :
        /\ Carries(more, further, both, start)
        /\ further[Len(blocks) + 1] = Len(more)
        /\ \A i \in 0 .. Len(blocks) : further[i] = place[i]
  BY <1>1, <1>3, CarriesMore, SMTT(60)
<1> QED BY <1>4

\* One more block goes up.
LEMMA UpSays ==
  ASSUME LinkTypes, UpPlaced, NEW b \in Sendable,
         UpFlow' = Cat(UpFlow, Wire(b)), sentUp' = Append(sentUp, b),
         UNCHANGED <<bottom, gotUp>>
  PROVE  UpPlaced'
<1>1. PICK stream, place, k : UpPlace(stream, place, k)
  BY DEF UpPlaced
<1> DEFINE w == Wire(b)
           longer == stream \o w
           more == Append(sentUp, b)
           last == Len(sentUp)
           n == Len(gotUp)
<1>2. /\ sentUp \in Seq(AnyBlocks) /\ last \in Nat /\ n \in Nat
      /\ b \in AnyBlocks /\ w \in Seq(Bytes) /\ Len(w) \in Nat /\ Len(w) > 0
  <2>1. b \in AllBlocks /\ b \in AnyBlocks
    BY BlockBytes
  <2>2. Len(Wire(b)) = 4 + Len(b.payload) /\ Len(b.payload) \in Nat /\ Wire(b) \in Seq(Bytes)
    BY <2>1, WireBytes
  <2> QED BY <2>1, <2>2, SeqsOfBlocks
<1>3. /\ stream \in Seq(Bytes) /\ k \in 0 .. Len(stream) /\ Len(stream) \in Nat
      /\ Carries(stream, place, sentUp, HeaderSize)
      /\ place[last] = Len(stream)
      /\ HeaderSize <= Len(stream) /\ \A i \in 1 .. HeaderSize : stream[i] = 1
      /\ UpFlow = Rest(stream, k)
      /\ n <= last
  BY <1>1 DEF UpPlace
<1>4. PICK further :
        /\ Carries(longer, further, more, HeaderSize)
        /\ further[last + 1] = Len(longer)
        /\ \A i \in 0 .. last : further[i] = place[i]
  BY <1>2, <1>3, StreamMore
<1>5. /\ Len(more) = last + 1 /\ more[last + 1] = b
      /\ \A i \in 1 .. last : more[i] = sentUp[i]
  BY <1>2, AppendProperties
<1>6. /\ longer \in Seq(Bytes) /\ Len(longer) = Len(stream) + Len(w)
      /\ \A i \in 1 .. Len(stream) : longer[i] = stream[i]
  BY <1>2, <1>3, ConcatProperties
<1>7. Rest(longer, k) = Rest(stream, k) \o w
  BY <1>2, <1>3, RestOfLonger
<1>8. UpFlow' = Rest(longer, k)
  BY <1>3, <1>7 DEF Cat
<1> HIDE DEF w, longer, more, last, n
<1>9. sentUp' = more /\ gotUp' = gotUp /\ bottom' = bottom
  BY DEF more
<1>10. HeaderSize \in Nat
  BY FramingAssumption
<1>11. HeaderSize <= Len(longer) /\ \A i \in 1 .. HeaderSize : longer[i] = 1
  <2>1. HeaderSize <= Len(longer)
    BY <1>2, <1>3, <1>6, <1>10
  <2>2. ASSUME NEW i \in 1 .. HeaderSize
        PROVE  longer[i] = 1
    <3>1. i \in 1 .. Len(stream)
      BY <1>3, <1>10
    <3> QED BY <1>3, <1>6, <3>1
  <2> QED BY <2>1, <2>2
<1>12. k \in 0 .. Len(longer) /\ n <= last + 1 /\ n < last + 1
  BY <1>2, <1>3, <1>6
<1>13. further[n] = place[n]
  BY <1>2, <1>3, <1>4
<1>14. ASSUME k >= place[n], BottomAt(bottom, NextUp, k - place[n]),
              n < last => k < place[n + 1]
       PROVE  /\ BottomAt(bottom, more[n + 1], k - further[n])
              /\ k >= further[n] /\ k < further[n + 1]
  <2>1. CASE n < last
    <3>1. n + 1 \in 1 .. last /\ n + 1 \in 0 .. last
      BY <1>2, <2>1
    <3>2. NextUp = more[n + 1]
      BY <1>5, <2>1, <3>1 DEF NextUp, n, last
    <3>3. further[n + 1] = place[n + 1]
      BY <1>4, <3>1
    <3> QED BY <1>13, <1>14, <2>1, <3>2, <3>3
  <2>2. CASE n = last
    <3>1. place[n] = Len(stream) /\ further[n + 1] = Len(longer)
      BY <1>3, <1>4, <2>2
    <3>2. k - place[n] = 0 /\ k < further[n + 1]
      BY <1>2, <1>3, <1>6, <1>14, <3>1
    <3>3. BottomAt(bottom, more[n + 1], 0)
      BY <1>14, <3>2, StartAnywhere
    <3> QED BY <1>13, <1>14, <3>2, <3>3
  <2> QED BY <1>2, <1>3, <2>1, <2>2
<1>15. Len(gotUp') = n /\ Len(sentUp') = last + 1 /\ NextUp' = more[n + 1]
  <2>1. Len(gotUp') = n /\ Len(sentUp') = last + 1
    BY <1>5, <1>9 DEF n
  <2> QED BY <1>9, <1>12, <2>1 DEF NextUp
<1>16. \/ /\ k < HeaderSize /\ Len(gotUp') = 0
          /\ bottom'.stage = k - HeaderSize - 4 /\ bottom'.buffer = <<>>
       \/ /\ ~(k < HeaderSize) /\ k >= further[Len(gotUp')]
          /\ BottomAt(bottom', NextUp', k - further[Len(gotUp')])
          /\ Len(gotUp') < Len(sentUp') => k < further[Len(gotUp') + 1]
  <2>1. \/ /\ k < HeaderSize /\ n = 0
           /\ bottom.stage = k - HeaderSize - 4 /\ bottom.buffer = <<>>
        \/ /\ ~(k < HeaderSize) /\ k >= place[n]
           /\ BottomAt(bottom, NextUp, k - place[n])
           /\ n < last => k < place[n + 1]
    BY <1>1 DEF UpPlace, n, last
  <2> QED BY <1>9, <1>14, <1>15, <2>1
<1>17. UpPlace(longer, further, k)'
  BY <1>4, <1>6, <1>8, <1>9, <1>11, <1>12, <1>15, <1>16 DEF UpPlace
<1> QED BY <1>17 DEF UpPlaced

LEMMA CatNext ==
  ASSUME NEW s \in Seq(Bytes), NEW t \in Seq(Bytes), s # <<>>
  PROVE  /\ Cat(s, t) # <<>>
         /\ FirstOf(Cat(s, t)) = FirstOf(s)
         /\ Others(Cat(s, t)) = Cat(Others(s), t)
BY NextOfLonger DEF Cat, FirstOf, Others

\* The sharer's parser takes the first byte that is on its way.
LEMMA UpTakes ==
  ASSUME LinkTypes, CopyBottomToClient
  PROVE  /\ UpFlow # <<>>
         /\ Head(UpFlow) = Head(bottomIn)
         /\ UpFlow' = Tail(UpFlow)
<1> DEFINE o == OutTo(relayOut, "up")
           f == Flow(bottomIn, up, o, back)
           g == Flow(Others(bottomIn), up, o, back)
<1>1. /\ bottomIn \in Seq(Bytes) /\ up \in Seq(Bytes) /\ back \in Seq(Bytes)
      /\ o \in Seq(Bytes) /\ displayOut \in Seq(Bytes)
  BY DownTypes
<1>2. bottomIn # <<>> /\ bottomIn' = Others(bottomIn)
      /\ UNCHANGED <<up, relayOut, back, displayOut>>
  BY DEF CopyBottomToClient, Others, tubeVars, relayVars, displayVars
<1>3. UpFlow = Cat(f, displayOut) /\ UpFlow' = Cat(g, displayOut)
  BY <1>2 DEF UpFlow
<1> HIDE DEF o
<1>4. f \in Seq(Bytes) /\ f # <<>> /\ FirstOf(f) = FirstOf(bottomIn) /\ Others(f) = g
  BY <1>1, <1>2, FlowNext, FlowBytes
<1> HIDE DEF f, g
<1>5. /\ Cat(f, displayOut) # <<>>
      /\ FirstOf(Cat(f, displayOut)) = FirstOf(f)
      /\ Others(Cat(f, displayOut)) = Cat(Others(f), displayOut)
  BY <1>1, <1>4, CatNext
<1>6. UpFlow # <<>> /\ FirstOf(UpFlow) = FirstOf(bottomIn) /\ UpFlow' = Others(UpFlow)
  BY <1>3, <1>4, <1>5, Zenon
<1> QED BY <1>6, Zenon DEF FirstOf, Others

\* Behind the header the next byte is one of a block that has been sent.
LEMMA UpByte ==
  ASSUME LinkTypes, NEW stream, NEW place, NEW k, UpPlace(stream, place, k),
         ~(k < HeaderSize), k < Len(stream)
  PROVE  LET n == Len(gotUp)
             j == k - place[n]
         IN
         /\ n < Len(sentUp) /\ NextUp = sentUp[n + 1] /\ NextUp \in Sendable
         /\ place[n] \in Nat /\ j \in Nat /\ j < Len(Wire(NextUp))
         /\ BottomAt(bottom, NextUp, j)
         /\ stream[k + 1] = Wire(NextUp)[j + 1]
         /\ place[n + 1] = place[n] + Len(Wire(NextUp))
<1> DEFINE n == Len(gotUp)
           j == k - place[n]
<1>1. /\ sentUp \in Seq(AnyBlocks) /\ sentUp \in Seq(Sendable)
      /\ Len(sentUp) \in Nat /\ n \in Nat
  BY SeqsOfBlocks
<1>2. /\ stream \in Seq(Bytes) /\ k \in 0 .. Len(stream) /\ Len(stream) \in Nat
      /\ Carries(stream, place, sentUp, HeaderSize)
      /\ place[Len(sentUp)] = Len(stream)
      /\ n <= Len(sentUp)
      /\ k >= place[n] /\ BottomAt(bottom, NextUp, j)
      /\ n < Len(sentUp) => k < place[n + 1]
  BY DEF UpPlace
<1>3. n < Len(sentUp)
  <2> SUFFICES ASSUME n = Len(sentUp)
               PROVE  FALSE
    BY <1>1, <1>2
  <2>1. place[n] = Len(stream)
    BY <1>2
  <2> HIDE DEF n
  <2> QED BY <1>2, <2>1
<1>4. n \in 0 .. Len(sentUp) - 1 /\ n + 1 \in 1 .. Len(sentUp)
  BY <1>1, <1>3
<1>5. NextUp = sentUp[n + 1] /\ NextUp \in Sendable
  BY <1>1, <1>3, <1>4, ElementOfSeq DEF NextUp
<1>6. /\ place[n] \in Nat /\ place[n + 1] \in Nat
      /\ place[n + 1] = place[n] + Len(Wire(NextUp))
      /\ Len(Wire(NextUp)) \in Nat
      /\ \A i \in 1 .. Len(Wire(NextUp)) : stream[place[n] + i] = Wire(NextUp)[i]
  BY <1>1, <1>2, <1>4, <1>5, PlacesOfMore
<1>7. k < place[n + 1] /\ k >= place[n]
  BY <1>2, <1>3
<1> HIDE DEF n
<1>8. j \in Nat /\ j < Len(Wire(NextUp)) /\ place[n] + (j + 1) = k + 1
  BY <1>2, <1>6, <1>7
<1>9. j + 1 \in 1 .. Len(Wire(NextUp))
  BY <1>6, <1>8
<1>10. stream[k + 1] = Wire(NextUp)[j + 1]
  <2> HIDE DEF j
  <2>1. stream[place[n] + (j + 1)] = Wire(NextUp)[j + 1]
    BY <1>6, <1>9
  <2> QED BY <1>8, <2>1
<1> HIDE DEF j
<1> QED BY <1>2, <1>3, <1>5, <1>6, <1>8, <1>10 DEF n, j

\* Up to the first byte of the next block, if one has been sent.
LEMMA BeforeNext ==
  ASSUME NEW stream \in Seq(Bytes), NEW place, NEW blocks \in Seq(AnyBlocks), NEW start,
         Carries(stream, place, blocks, start), NEW m \in Nat, m < Len(blocks)
  PROVE  place[m] < place[m + 1]
<1>1. m \in 0 .. Len(blocks) - 1
  OBVIOUS
<1>2. /\ place[m] \in Nat /\ place[m + 1] = place[m] + Len(Wire(blocks[m + 1]))
      /\ Len(Wire(blocks[m + 1])) \in Nat /\ Len(Wire(blocks[m + 1])) >= 4
  BY <1>1, PlacesOfMore
<1> DEFINE p == place[m]
           q == place[m + 1]
           w == Len(Wire(blocks[m + 1]))
<1>3. p \in Nat /\ q = p + w /\ w \in Nat /\ w >= 4
  BY <1>2
<1> HIDE DEF p, q, w
<1>4. p < q
  BY <1>3
<1> QED BY <1>4 DEF p, q

\* A byte of the header, or of a block, moves the place on; what the parser hands over
\* is the block that was sent, and it never fails.
LEMMA UpParses ==
  ASSUME Fits, LinkTypes, UpPlaced, CopyBottomToClient
  PROVE  /\ UpPlaced' /\ sharer' = sharer
         /\ \/ gotUp' = gotUp
            \/ /\ Len(gotUp) < Len(sentUp)
               /\ gotUp' = Append(gotUp, sentUp[Len(gotUp) + 1])
<1> DEFINE step == BottomStep(bottom, Head(bottomIn))
           n == Len(gotUp)
<1>1. PICK stream, place, k : UpPlace(stream, place, k)
  BY DEF UpPlaced
<1>2. /\ bottom' = step.next
      /\ sharer' = IF step.call.does = "fail" THEN step.call.why ELSE sharer
      /\ gotUp' = IF step.call.does = "handle" THEN Append(gotUp, step.call.block)
                                               ELSE gotUp
      /\ UNCHANGED sentUp
  BY DEF CopyBottomToClient
<1>3. /\ sentUp \in Seq(AnyBlocks) /\ Len(sentUp) \in Nat /\ n \in Nat
      /\ gotUp \in Seq(Blocks) /\ BottomTypeOK(bottom)
  BY SeqsOfBlocks DEF LinkTypes, SharerTypes
<1>4. /\ stream \in Seq(Bytes) /\ k \in 0 .. Len(stream) /\ Len(stream) \in Nat
      /\ Carries(stream, place, sentUp, HeaderSize)
      /\ place[Len(sentUp)] = Len(stream)
      /\ HeaderSize <= Len(stream) /\ \A i \in 1 .. HeaderSize : stream[i] = 1
      /\ UpFlow = Rest(stream, k)
      /\ n <= Len(sentUp)
  BY <1>1 DEF UpPlace
<1>5. k < Len(stream) /\ Head(bottomIn) = stream[k + 1] /\ UpFlow' = Rest(stream, k + 1)
      /\ k + 1 \in 0 .. Len(stream)
  <2>1. Rest(stream, k) # <<>>
    BY <1>4, UpTakes
  <2>2. /\ k < Len(stream) /\ Head(Rest(stream, k)) = stream[k + 1]
        /\ Tail(Rest(stream, k)) = Rest(stream, k + 1)
    BY <1>4, <2>1, RestAfterNext
  <2> QED BY <1>4, <2>2, UpTakes, SMTT(30)
<1> HIDE DEF step
<1>6. CASE k < HeaderSize
  <2>1. /\ k \in Nat /\ k + 1 \in 1 .. HeaderSize /\ HeaderSize \in Nat
        /\ ~(k >= HeaderSize)
    BY <1>4, <1>6, FramingAssumption
  <2>2. n = 0 /\ bottom.stage = k - HeaderSize - 4 /\ bottom.buffer = <<>>
    BY <1>1, <1>6 DEF UpPlace
  <2>3. Head(bottomIn) = 1
    BY <1>4, <1>5, <2>1
  <2>4. /\ step.call = IF k + 1 = HeaderSize THEN Introduce ELSE Nothing
        /\ step.next.stage = (k + 1) - HeaderSize - 4 /\ step.next.buffer = <<>>
    BY <1>3, <1>6, <2>1, <2>2, <2>3, BottomMeets DEF step
  <2>5. gotUp' = gotUp /\ sharer' = sharer
    BY <1>2, <2>4 DEF Introduce, Nothing
  <2>6. \/ /\ k + 1 < HeaderSize /\ Len(gotUp') = 0
           /\ bottom'.stage = (k + 1) - HeaderSize - 4 /\ bottom'.buffer = <<>>
        \/ /\ ~(k + 1 < HeaderSize) /\ k + 1 >= place[Len(gotUp')]
           /\ BottomAt(bottom', NextUp', (k + 1) - place[Len(gotUp')])
           /\ Len(gotUp') < Len(sentUp') => k + 1 < place[Len(gotUp') + 1]
    <3>1. CASE k + 1 < HeaderSize
      BY <1>2, <2>2, <2>4, <2>5, <3>1
    <3>2. CASE k + 1 = HeaderSize
      <4>1. place[0] = HeaderSize /\ Len(gotUp') = 0
        BY <1>4, <2>2, <2>5 DEF Carries
      <4>2. (k + 1) - place[0] = 0 /\ k + 1 >= place[0]
        BY <2>1, <3>2, <4>1
      <4>3. bottom'.stage = 0 - 4 /\ bottom'.buffer = <<>>
        BY <1>2, <2>1, <2>4, <3>2
      <4>4. \A c : BottomAt(bottom', c, 0)
        BY <4>3 DEF BottomAt
      <4>5. Len(sentUp) > 0 => k + 1 < place[0 + 1]
        BY <1>3, <1>4, <3>2, <4>1, BeforeNext
      <4>6. ~(k + 1 < HeaderSize)
        BY <2>1, <3>2
      <4> QED BY <1>2, <4>1, <4>2, <4>4, <4>5, <4>6
    <3> QED BY <2>1, <3>1, <3>2
  <2>7. UpPlace(stream, place, k + 1)'
    BY <1>2, <1>4, <1>5, <2>5, <2>6 DEF UpPlace
  <2> QED BY <2>5, <2>7 DEF UpPlaced
<1>7. CASE ~(k < HeaderSize)
  <2> DEFINE b == NextUp
             j == k - place[n]
  <2>1. /\ n < Len(sentUp) /\ b = sentUp[n + 1] /\ b \in Sendable
        /\ b \in AllBlocks /\ b \in AnyBlocks
        /\ place[n] \in Nat /\ j \in Nat /\ j < Len(Wire(b))
        /\ BottomAt(bottom, b, j)
        /\ stream[k + 1] = Wire(b)[j + 1]
        /\ place[n + 1] = place[n] + Len(Wire(b))
    BY <1>1, <1>5, <1>7, UpByte, BlockBytes
  <2>2. (k + 1) - place[n] = j + 1 /\ ~(k + 1 < HeaderSize)
    <3> DEFINE m == place[n]
    <3>1. m \in Nat /\ k \in Nat /\ HeaderSize \in Nat
      BY <1>4, <2>1, FramingAssumption
    <3> HIDE DEF m
    <3>2. (k + 1) - m = (k - m) + 1 /\ ~(k + 1 < HeaderSize)
      BY <1>7, <3>1
    <3> QED BY <3>2 DEF m
  <2> HIDE DEF j
  <2>3. Len(Wire(b)) = 4 + Len(b.payload) /\ Len(b.payload) \in Nat /\ Len(b.payload) > 0
        /\ Len(Wire(b)) \in Nat
    <3>1. Len(Wire(b)) = 4 + Len(b.payload) /\ b.payload \in Seq(Bytes) /\ b.payload # <<>>
      BY <2>1, BlockBytes DEF Sendable
    <3> QED BY <3>1, EmptySeq
  <2> HIDE DEF b
  <2>4. \/ /\ step.call = Nothing
           /\ BottomAt(step.next, b, j + 1)
           /\ j < 4 \/ j + 1 < Len(Wire(b))
        \/ /\ step.call = Handle(b)
           /\ \A c : BottomAt(step.next, c, 0)
           /\ j >= 4 /\ j + 1 = Len(Wire(b))
    <3>1. Fit(b) /\ Head(bottomIn) = Wire(b)[j + 1]
      BY <1>5, <2>1 DEF Fits
    <3> DEFINE byte == Head(bottomIn)
    <3>2. byte = Wire(b)[j + 1] /\ step = BottomStep(bottom, byte)
      BY <3>1 DEF step
    <3>3. /\ BottomTypeOK(bottom) /\ b \in AnyBlocks /\ Fit(b)
          /\ j \in Nat /\ j < Len(Wire(b)) /\ BottomAt(bottom, b, j)
      BY <1>3, <2>1, <3>1
    <3> HIDE DEF byte
    <3>4. LET s == BottomStep(bottom, byte) IN
          \/ /\ s.call = Nothing
             /\ BottomAt(s.next, b, j + 1)
             /\ j < 4 \/ j + 1 < Len(Wire(b))
          \/ /\ s.call = Handle(b)
             /\ \A c : BottomAt(s.next, c, 0)
             /\ j >= 4 /\ j + 1 = Len(Wire(b))
      BY <3>2, <3>3, BottomParses
    <3> QED BY <3>2, <3>4, Zenon
  <2>5. CASE /\ step.call = Nothing
             /\ BottomAt(step.next, b, j + 1)
             /\ j < 4 \/ j + 1 < Len(Wire(b))
    <3>1. gotUp' = gotUp /\ sharer' = sharer
      BY <1>2, <2>5 DEF Nothing
    <3>2. NextUp' = b
      BY <1>2, <3>1 DEF NextUp, b
    <3>3. k + 1 < place[n + 1] /\ k + 1 >= place[n]
      <4>1. j + 1 < Len(Wire(b))
        BY <2>1, <2>3, <2>5
      <4> QED BY <1>4, <2>1, <2>2, <2>3, <4>1, SMTT(30)
    <3>4. BottomAt(bottom', NextUp', (k + 1) - place[n])
      BY <1>2, <2>2, <2>5, <3>2
    <3>5. UpPlace(stream, place, k + 1)'
      BY <1>2, <1>4, <1>5, <2>2, <3>1, <3>3, <3>4 DEF UpPlace
    <3> QED BY <3>1, <3>5 DEF UpPlaced
  <2>6. CASE /\ step.call = Handle(b)
             /\ \A c : BottomAt(step.next, c, 0)
             /\ j >= 4 /\ j + 1 = Len(Wire(b))
    <3>1. gotUp' = Append(gotUp, b) /\ sharer' = sharer
      BY <1>2, <2>6 DEF Handle
    <3>2. Len(gotUp') = n + 1
      BY <1>3, <3>1, AppendProperties
    <3>3. place[n + 1] = k + 1
      BY <1>4, <2>1, <2>2, <2>3, <2>6
    <3>4. n + 1 < Len(sentUp) => k + 1 < place[(n + 1) + 1]
      <4> SUFFICES ASSUME n + 1 < Len(sentUp)
                   PROVE  k + 1 < place[(n + 1) + 1]
        OBVIOUS
      <4> DEFINE m == n + 1
      <4>1. m \in Nat /\ m < Len(sentUp) /\ place[m] = k + 1
        BY <1>3, <3>3
      <4> HIDE DEF m
      <4>2. place[m] < place[m + 1]
        BY <1>3, <1>4, <4>1, BeforeNext
      <4> QED BY <4>1, <4>2 DEF m
    <3>5. n + 1 <= Len(sentUp)
      BY <1>3, <2>1
    <3>6. (k + 1) - place[n + 1] = 0 /\ k + 1 >= place[n + 1]
      BY <1>4, <3>3
    <3>7. BottomAt(bottom', NextUp', (k + 1) - place[n + 1])
      BY <1>2, <2>6, <3>6
    <3>8. UpPlace(stream, place, k + 1)'
      BY <1>2, <1>4, <1>5, <2>2, <3>2, <3>4, <3>5, <3>6, <3>7 DEF UpPlace
    <3> QED BY <2>1, <3>1, <3>8 DEF UpPlaced
  <2> QED BY <2>4, <2>5, <2>6
<1> QED BY <1>6, <1>7

\* What the sharer reads is still on its way.
LEMMA UpToSharer ==
  ASSUME LinkTypes, SharerReads
  PROVE  UpFlow' = UpFlow
<1> DEFINE n == Least(Len(up), ReadSize)
           o == OutTo(relayOut, "up")
<1>1. /\ bottomIn = <<>> /\ bottomIn' = First(up, n) /\ up' = Rest(up, n)
      /\ UNCHANGED <<relayOut, back, displayOut>>
  BY DEF SharerReads, SharerIdle, relayVars, displayVars
<1>2. /\ bottomIn \in Seq(Bytes) /\ up \in Seq(Bytes) /\ back \in Seq(Bytes)
      /\ o \in Seq(Bytes)
      /\ n \in 0 .. Len(up) /\ First(up, n) \in Seq(Bytes)
  BY DownTypes, Drains
<1> HIDE DEF n
<1>3. First(up, n) = Cat(bottomIn, First(up, n))
  BY <1>1, <1>2, CatEmpty
<1>4. /\ UpFlow = Cat(Flow(bottomIn, up, o, back), displayOut)
      /\ UpFlow' = Cat(Flow(First(up, n), Rest(up, n), o, back), displayOut)
  BY <1>1 DEF UpFlow
<1> HIDE DEF o
<1>5. Flow(Cat(bottomIn, First(up, n)), Rest(up, n), o, back) = Flow(bottomIn, up, o, back)
  BY <1>2, FirstMoves
<1> QED BY <1>3, <1>4, <1>5, Zenon

\* So is what the relay writes, while the tube is open.
LEMMA RelayToUp ==
  ASSUME LinkTypes, RelayWrites, tubeOpen
  PROVE  UpFlow' = UpFlow
<1> DEFINE o == OutTo(relayOut, "up")
           t == OutTo(relayOut', "up")
<1>1. UNCHANGED <<bottomIn, back, displayOut>>
  BY RelayWritesForms DEF displayVars, sharerVars
<1>2. /\ bottomIn \in Seq(Bytes) /\ up \in Seq(Bytes) /\ back \in Seq(Bytes)
      /\ o \in Seq(Bytes)
  BY DownTypes
<1>3. CASE relayOut.to = "pipe"
  <2>1. o = <<>>
    BY <1>3 DEF OutTo
  <2>2. t = <<>> /\ up' = up
    BY <1>3, RelayWritesForms
  <2> QED BY <1>1, <2>1, <2>2 DEF UpFlow
<1>4. CASE relayOut.to = "up"
  <2>1. o = relayOut.bytes
    BY <1>4 DEF OutTo
  <2>2. PICK n \in 0 .. Len(relayOut.bytes) :
          up' = up \o First(relayOut.bytes, n) /\ t = Rest(relayOut.bytes, n)
    BY <1>4, RelayWritesForms
  <2>3. /\ UpFlow = Cat(Flow(bottomIn, up, o, back), displayOut)
        /\ UpFlow' = Cat(Flow(bottomIn, Cat(up, First(o, n)), Rest(o, n), back), displayOut)
    BY <1>1, <2>1, <2>2 DEF UpFlow, Cat
  <2>4. n \in 0 .. Len(o)
    BY <2>1
  <2> HIDE DEF o, t
  <2>5. Flow(bottomIn, Cat(up, First(o, n)), Rest(o, n), back) = Flow(bottomIn, up, o, back)
    BY <1>2, <2>4, SecondMoves
  <2> QED BY <2>3, <2>5, Zenon
<1> QED BY <1>3, <1>4, RelayWritesForms

\* And what the relay reads from the display program.
LEMMA BackToRelay ==
  ASSUME LinkTypes, CopyServerToTop
  PROVE  UpFlow' = UpFlow
<1> DEFINE n == Least(Len(back), ReadSize)
           o == OutTo(relayOut, "up")
           t == OutTo(relayOut', "up")
<1>1. /\ relayOut = Idle
      /\ relayOut' = [to |-> "up", bytes |-> First(back, n)]
      /\ back' = Rest(back, n)
      /\ UNCHANGED <<bottomIn, up, displayOut>>
  BY DEF CopyServerToTop, RelayIdle, sharerVars, tubeVars, displayVars
<1>2. /\ bottomIn \in Seq(Bytes) /\ up \in Seq(Bytes) /\ back \in Seq(Bytes)
      /\ n \in 0 .. Len(back) /\ First(back, n) \in Seq(Bytes) /\ <<>> \in Seq(Bytes)
  BY DownTypes, Drains, EmptySeq
<1> HIDE DEF n
<1>3. o = <<>> /\ t = First(back, n)
  BY <1>1, JobOut
<1>4. /\ UpFlow = Cat(Flow(bottomIn, up, o, back), displayOut)
      /\ UpFlow' = Cat(Flow(bottomIn, up, t, Rest(back, n)), displayOut)
  BY <1>1 DEF UpFlow
<1> HIDE DEF o, t
<1>5. t = Cat(o, First(back, n)) /\ o \in Seq(Bytes)
  BY <1>2, <1>3, CatEmpty
<1>6. Flow(bottomIn, up, Cat(o, First(back, n)), Rest(back, n)) = Flow(bottomIn, up, o, back)
  BY <1>2, <1>5, ThirdMoves
<1> QED BY <1>4, <1>5, <1>6, Zenon

\* And what the display program writes.
LEMMA DisplayToBack ==
  ASSUME LinkTypes, DisplayWrites
  PROVE  UpFlow' = UpFlow
<1> DEFINE n == Least(Len(displayOut), PipeSize - Len(back))
           o == OutTo(relayOut, "up")
<1>1. /\ back' = Cat(back, First(displayOut, n)) /\ displayOut' = Rest(displayOut, n)
      /\ UNCHANGED <<bottomIn, up, relayOut>>
  BY DEF DisplayWrites, Cat, sharerVars, tubeVars, relayVars
<1>2. /\ bottomIn \in Seq(Bytes) /\ up \in Seq(Bytes) /\ back \in Seq(Bytes)
      /\ o \in Seq(Bytes) /\ displayOut \in Seq(Bytes)
  BY DownTypes
<1>3. n \in 0 .. Len(displayOut)
  BY <1>2, Sizes, Fills DEF LinkTypes, SocketTypes
<1> HIDE DEF n
<1>4. /\ UpFlow = Cat(Flow(bottomIn, up, o, back), displayOut)
      /\ UpFlow' = Cat(Flow(bottomIn, up, o, Cat(back, First(displayOut, n))),
                       Rest(displayOut, n))
  BY <1>1 DEF UpFlow
<1> HIDE DEF o
<1>5. Cat(Flow(bottomIn, up, o, Cat(back, First(displayOut, n))), Rest(displayOut, n))
        = Cat(Flow(bottomIn, up, o, back), displayOut)
  BY <1>2, <1>3, LastMoves
<1> QED BY <1>4, <1>5, Zenon

\* A block the display program says comes behind all that is on its way.
LEMMA UpSaid ==
  ASSUME LinkTypes, UpPlaced, displayOut = <<>>, NEW b \in UpBlocks, DisplaySays(b),
         UNCHANGED <<bottom, gotUp, bottomIn, up, relayOut, back>>
  PROVE  UpPlaced'
<1> DEFINE f == Flow(bottomIn, up, OutTo(relayOut, "up"), back)
<1>1. f \in Seq(Bytes)
  BY DownTypes, FlowBytes
<1>2. UpFlow = Cat(f, <<>>) /\ UpFlow' = Cat(f, Wire(b)) /\ sentUp' = Append(sentUp, b)
  BY DEF UpFlow, DisplaySays, Wire
<1> HIDE DEF f
<1>3. Cat(f, <<>>) = f
  BY <1>1, Joined DEF Cat
<1>4. b \in Sendable
  BY LinkAssumption DEF Sendable, AllBlocks
<1> QED BY <1>2, <1>3, <1>4, UpSays

\* The tube's connection comes last, and after it nothing.
LEMMA BacklogTail ==
  ASSUME BacklogOK, backlog # <<>>, backlog' = Tail(backlog)
  PROVE  BacklogOK' /\ (Head(backlog) = "tube" <=> backlog' = <<>>)
<1> DEFINE S == {"stranger", "tube"}
           b == backlog
           t == Tail(b)
<1>1. /\ b \in Seq(S) /\ b # <<>> /\ Len(b) \in Nat \ {0}
      /\ \A i \in 1 .. Len(b) : b[i] = "tube" <=> i = Len(b)
  BY EmptySeq DEF BacklogOK
<1>2. t \in Seq(S) /\ Len(t) = Len(b) - 1 /\ \A i \in 1 .. Len(t) : t[i] = b[i + 1]
  BY <1>1, HeadTailProperties
<1>3. Head(b) = b[1]
  BY <1>1
<1>4. backlog' = t
  OBVIOUS
<1> HIDE DEF b, t
<1>5. \A i \in 1 .. Len(t) : t[i] = "tube" <=> i = Len(t)
  <2> SUFFICES ASSUME NEW i \in 1 .. Len(t)
               PROVE  t[i] = "tube" <=> i = Len(t)
    OBVIOUS
  <2>1. i + 1 \in 1 .. Len(b) /\ (i = Len(t) <=> i + 1 = Len(b))
    BY <1>1, <1>2
  <2> QED BY <1>1, <1>2, <2>1
<1>6. Head(b) = "tube" <=> t = <<>>
  <2>0. 1 \in 1 .. Len(b)
    BY <1>1
  <2>1. Head(b) = "tube" <=> 1 = Len(b)
    BY <1>1, <1>3, <2>0, Zenon
  <2>2. 1 = Len(b) <=> Len(t) = 0
    BY <1>1, <1>2
  <2>3. Len(t) = 0 <=> t = <<>>
    BY <1>2, EmptySeq
  <2> QED BY <2>1, <2>2, <2>3
<1> QED BY <1>2, <1>4, <1>5, <1>6 DEF BacklogOK, b

\* A greeting that is all there is on the way up.
LEMMA FlowAlone ==
  ASSUME NEW g \in Seq(Bytes)
  PROVE  /\ Cat(Flow(<<>>, <<>>, g, <<>>), <<>>) = g
         /\ Rest(g, 0) = g
<1>1. Cat(Flow(<<>>, <<>>, g, <<>>), <<>>) = g
  <2>1. <<>> \o <<>> = <<>>
    BY Joined
  <2>2. (<<>> \o <<>>) \o g = g
    BY <2>1, Joined
  <2>3. ((<<>> \o <<>>) \o g) \o <<>> = g
    BY <2>2, Joined
  <2> QED BY <2>3, Joined DEF Cat, Flow
<1>2. Rest(g, 0) = g
  <2>1. 0 \in 0 .. Len(g)
    OBVIOUS
  <2>2. /\ Rest(g, 0) \in Seq(Bytes) /\ Len(Rest(g, 0)) = Len(g) - 0
        /\ \A i \in 1 .. Len(g) - 0 : Rest(g, 0)[i] = g[0 + i]
    BY <2>1, Cut
  <2>3. Len(Rest(g, 0)) = Len(g) /\ \A i \in 1 .. Len(Rest(g, 0)) : Rest(g, 0)[i] = g[i]
    BY <2>2
  <2> QED BY <2>2, <2>3, SeqEqual
<1> QED BY <1>1, <1>2

\* The parser has everything before it.
LEMMA UpStarts ==
  ASSUME NEW stream \in Seq(Bytes), NEW place,
         HeaderSize <= Len(stream), \A i \in 1 .. HeaderSize : stream[i] = 1,
         Carries(stream, place, sentUp', HeaderSize), place[Len(sentUp')] = Len(stream),
         Len(sentUp') \in Nat,
         UpFlow' = stream, bottom' = BottomStart, gotUp' = <<>>
  PROVE  UpPlaced'
<1>1. HeaderSize \in Nat \ {0} /\ 0 \in 0 .. Len(stream) /\ 0 < HeaderSize
  BY FramingAssumption
<1>2. UpFlow' = Rest(stream, 0)
  BY FlowAlone
<1>3. Len(gotUp') = 0 /\ Len(gotUp') <= Len(sentUp')
  OBVIOUS
<1>4. bottom'.stage = 0 - HeaderSize - 4 /\ bottom'.buffer = <<>>
  BY <1>1 DEF BottomStart
<1>5. UpPlace(stream, place, 0)'
  BY <1>1, <1>2, <1>3, <1>4 DEF UpPlace
<1> QED BY <1>5 DEF UpPlaced

\* One block behind the header.
LEMMA HeaderThenBlock ==
  ASSUME NEW b \in AnyBlocks, NEW place, Carries(Header, place, <<>>, HeaderSize),
         place[0] = HeaderSize
  PROVE  \E further :
           /\ Carries(Header \o Wire(b), further, Append(<<>>, b), HeaderSize)
           /\ further[Len(<<>>) + 1] = Len(Header \o Wire(b))
<1> DEFINE h == Header
           none == <<>>
<1>1. /\ none \in Seq(AnyBlocks) /\ h \in Seq(Bytes)
      /\ place[Len(none)] = Len(h) /\ Carries(h, place, none, HeaderSize)
  BY HeaderBytes, EmptySeq
<1> HIDE DEF h, none
<1>2. \E further :
        /\ Carries(h \o Wire(b), further, Append(none, b), HeaderSize)
        /\ further[Len(none) + 1] = Len(h \o Wire(b))
        /\ \A i \in 0 .. Len(none) : further[i] = place[i]
  BY <1>1, StreamMore
<1> QED BY <1>2, Zenon DEF h, none

\* The relay greets the tube: the first bytes that go up.
LEMMA UpGreets ==
  ASSUME LinkTypes, Quiet, NEW len \in {0, Len(Avatar.payload)},
         relayOut' = [to |-> "up", bytes |-> Greeting(len)],
         sentUp' = IF len = 0 THEN sentUp ELSE Append(sentUp, Avatar),
         UNCHANGED <<bottom, bottomIn, up, back, displayOut, gotUp>>
  PROVE  UpPlaced'
<1> DEFINE place == [i \in 0 .. 0 |-> HeaderSize]
<1>1. Header \in Seq(Bytes) /\ Len(Header) = HeaderSize /\ HeaderSize \in Nat
      /\ \A i \in 1 .. HeaderSize : Header[i] = 1
  BY HeaderBytes, FramingAssumption
<1>2. Carries(Header, place, <<>>, HeaderSize) /\ place[0] = HeaderSize
  BY <1>1 DEF Carries
<1>3. /\ bottomIn' = <<>> /\ up' = <<>> /\ back' = <<>> /\ displayOut' = <<>>
      /\ bottom' = BottomStart /\ gotUp' = <<>> /\ sentUp = <<>>
  BY DEF Quiet
<1>4. UpFlow' = Cat(Flow(<<>>, <<>>, Greeting(len), <<>>), <<>>)
  BY <1>3, JobOut DEF UpFlow
<1> HIDE DEF place
<1>5. CASE len = 0
  <2>1. Greeting(len) = Header
    BY <1>1, <1>5, Joined DEF Greeting
  <2>2. UpFlow' = Header
    BY <1>1, <1>4, <2>1, FlowAlone
  <2>3. sentUp' = <<>> /\ Len(sentUp') = 0
    BY <1>3, <1>5
  <2>4. HeaderSize <= Len(Header) /\ place[Len(sentUp')] = Len(Header)
        /\ Carries(Header, place, sentUp', HeaderSize)
    BY <1>1, <1>2, <2>3
  <2> QED BY <1>1, <1>3, <2>2, <2>3, <2>4, UpStarts
<1>6. CASE len # 0
  <2> DEFINE w == Wire(Avatar)
             stream == Header \o w
  <2>1. Avatar \in AnyBlocks /\ w \in Seq(Bytes) /\ Len(w) \in Nat
    BY SeqsOfBlocks, WireBytes
  <2>2. Greeting(len) = stream
    BY <1>6 DEF Greeting, Wire
  <2>3. /\ stream \in Seq(Bytes) /\ Len(stream) = HeaderSize + Len(w)
        /\ \A i \in 1 .. HeaderSize : stream[i] = Header[i]
    <3> HIDE DEF w
    <3>1. /\ stream \in Seq(Bytes) /\ Len(stream) = Len(Header) + Len(w)
          /\ \A i \in 1 .. Len(Header) + Len(w) :
               stream[i] = IF i <= Len(Header) THEN Header[i] ELSE w[i - Len(Header)]
      BY <1>1, <2>1, ConcatProperties
    <3> HIDE DEF stream
    <3> QED BY <1>1, <2>1, <3>1
  <2>4. UpFlow' = stream
    BY <1>4, <2>2, <2>3, FlowAlone
  <2>5. PICK further :
          /\ Carries(stream, further, Append(<<>>, Avatar), HeaderSize)
          /\ further[Len(<<>>) + 1] = Len(stream)
    BY <1>2, <2>1, HeaderThenBlock
  <2>6. sentUp' = Append(<<>>, Avatar) /\ Len(sentUp') = 1 /\ Len(<<>>) + 1 = 1
    BY <1>3, <1>6
  <2> HIDE DEF w, stream
  <2>7. HeaderSize <= Len(stream) /\ \A i \in 1 .. HeaderSize : stream[i] = 1
    BY <1>1, <2>1, <2>3
  <2>8. Carries(stream, further, sentUp', HeaderSize) /\ further[Len(sentUp')] = Len(stream)
    BY <2>5, <2>6
  <2> QED BY <1>3, <2>3, <2>4, <2>6, <2>7, <2>8, UpStarts
<1> QED BY <1>5, <1>6

\* The tube's connection stays the last one.
LEMMA BacklogStep ==
  ASSUME BacklogOK, [Next]_vars
  PROVE  BacklogOK'
<1>1. \/ UNCHANGED backlog
      \/ backlog # <<>> /\ backlog' = Tail(backlog)
  BY DEF Next, SharerNext, RelayNext, DisplayNext, vars, relayVars, SharerSends, SharerWrites,
         SharerReads, CopyBottomToClient, RefuseConnection, AcceptConnection,
         CopyTopToServer, CopyServerToTop, RelayWrites, DisplayReads, CheckForFdInput,
         CheckForRfbReplies, DisplayWrites, HangUp
<1>2. CASE UNCHANGED backlog
  BY <1>2 DEF BacklogOK
<1> QED BY <1>1, <1>2, BacklogTail

\* A sharer that is gone does not come back.
LEMMA StaysGone ==
  ASSUME sharer \in HungUp, [Next]_vars
  PROVE  sharer' \in HungUp
<1>1. CASE SharerNext
  BY <1>1 DEF SharerNext, SharerSends, SharerIdle, SharerWrites, SharerReads,
              CopyBottomToClient, HungUp
<1>2. CASE RelayNext
  BY <1>2 DEF RelayNext, sharerVars, RefuseConnection, AcceptConnection,
              CopyTopToServer, CopyServerToTop, RelayWrites
<1>3. CASE DisplayNext
  BY <1>3 DEF DisplayNext, sharerVars, DisplayReads, CheckForFdInput,
              CheckForRfbReplies, DisplayWrites
<1>4. CASE HangUp \/ UNCHANGED vars
  BY <1>4 DEF HangUp, vars, sharerVars, HungUp
<1> QED BY <1>1, <1>2, <1>3, <1>4 DEF Next

LEMMA UpSharer ==
  ASSUME Fits, LinkTypes, UpPlaced, SharerNext
  PROVE  UpPlaced' /\ UNCHANGED <<sharer, tubeOpen, backlog>>
<1>1. ASSUME (\E b \in DownBlocks : SharerSends(b)) \/ SharerWrites
      PROVE  UpPlaced' /\ UNCHANGED <<sharer, tubeOpen, backlog>>
  <2>1. UNCHANGED <<bottom, bottomIn, up, relayOut, back, displayOut, sentUp, gotUp,
                    sharer, tubeOpen, backlog>>
    BY <1>1 DEF SharerSends, SharerWrites, tubeVars, relayVars, displayVars, upHistory
  <2>2. UpFlow' = UpFlow
    BY <2>1 DEF UpFlow
  <2> QED BY <2>1, <2>2, UpSame
<1>2. CASE SharerReads
  <2>1. UNCHANGED <<bottom, sentUp, gotUp, sharer, tubeOpen, backlog>>
    BY <1>2 DEF SharerReads, tubeVars, relayVars, upHistory
  <2> QED BY <1>2, <2>1, UpToSharer, UpSame
<1>3. CASE CopyBottomToClient
  <2>1. UNCHANGED <<tubeOpen, backlog>>
    BY <1>3 DEF CopyBottomToClient, tubeVars, relayVars
  <2> QED BY <1>3, <2>1, UpParses
<1> QED BY <1>1, <1>2, <1>3 DEF SharerNext

LEMMA UpRelay ==
  ASSUME LinkTypes, UpPlaced, tubeOpen, backlog = <<>>, RelayNext
  PROVE  UpPlaced' /\ UNCHANGED <<sharer, tubeOpen, backlog>>
<1>1. CASE CopyTopToServer
  <2>1. /\ relayOut = Idle
        /\ relayOut' = relayOut \/ \E s : relayOut' = [to |-> "pipe", bytes |-> s]
        /\ UNCHANGED <<bottom, bottomIn, up, back, displayOut, sentUp, gotUp, sharer,
                       tubeOpen, backlog>>
    BY <1>1 DEF CopyTopToServer, RelayIdle, sharerVars, upHistory
  <2>2. OutTo(relayOut', "up") = OutTo(relayOut, "up")
    BY <2>1, JobOut
  <2>3. UpFlow' = UpFlow
    BY <2>1, <2>2 DEF UpFlow
  <2> QED BY <2>1, <2>3, UpSame
<1>2. CASE CopyServerToTop
  <2>1. UNCHANGED <<bottom, sentUp, gotUp, sharer, tubeOpen, backlog>>
    BY <1>2 DEF CopyServerToTop, sharerVars, tubeVars, upHistory
  <2> QED BY <1>2, <2>1, BackToRelay, UpSame
<1>3. CASE RelayWrites
  <2>1. UNCHANGED <<bottom, sentUp, gotUp, sharer, tubeOpen, backlog>>
    BY <1>3 DEF RelayWrites, sharerVars, upHistory
  <2> QED BY <1>3, <2>1, RelayToUp, UpSame
<1>4. ~RefuseConnection /\ ~AcceptConnection
  BY DEF RefuseConnection, AcceptConnection
<1> QED BY <1>1, <1>2, <1>3, <1>4 DEF RelayNext

LEMMA UpDisplay ==
  ASSUME LinkTypes, UpPlaced, DisplayNext
  PROVE  UpPlaced' /\ UNCHANGED <<sharer, tubeOpen, backlog>>
<1>0. UNCHANGED <<bottom, bottomIn, up, relayOut, gotUp, sharer, tubeOpen, backlog>>
  BY DEF DisplayNext, DisplayReads, CheckForFdInput, CheckForRfbReplies, DisplayWrites,
         sharerVars, tubeVars, relayVars, upHistory
<1>1. CASE DisplayReads
  <2>1. UNCHANGED <<displayOut, back, sentUp>>
    BY <1>1 DEF DisplayReads, upHistory
  <2>2. UpFlow' = UpFlow
    BY <1>0, <2>1 DEF UpFlow
  <2> QED BY <1>0, <2>1, <2>2, UpSame
<1>2. CASE CheckForFdInput
  <2>1. displayOut = <<>> /\ UNCHANGED back
        /\ (UNCHANGED <<displayOut, sentUp>> \/ \E b \in UpBlocks : DisplaySays(b))
    BY <1>2 DEF CheckForFdInput
  <2>2. CASE UNCHANGED <<displayOut, sentUp>>
    <3>1. UpFlow' = UpFlow
      BY <1>0, <2>1, <2>2 DEF UpFlow
    <3> QED BY <1>0, <2>2, <3>1, UpSame
  <2>3. CASE \E b \in UpBlocks : DisplaySays(b)
    BY <1>0, <2>1, <2>3, UpSaid
  <2> QED BY <2>1, <2>2, <2>3
<1>3. CASE \E b \in UpBlocks : CheckForRfbReplies(b)
  <2>1. displayOut = <<>> /\ UNCHANGED back /\ \E b \in UpBlocks : DisplaySays(b)
    BY <1>3 DEF CheckForRfbReplies, DisplayIdle
  <2> QED BY <1>0, <2>1, UpSaid
<1>4. CASE DisplayWrites
  <2>1. UNCHANGED sentUp
    BY <1>4 DEF DisplayWrites, upHistory
  <2> QED BY <1>0, <1>4, <2>1, DisplayToBack, UpSame
<1> QED BY <1>1, <1>2, <1>3, <1>4 DEF DisplayNext

\* Before the greeting little can happen.
LEMMA QuietStep ==
  ASSUME LinkTypes, BacklogOK, Quiet, SharerNext \/ RelayNext \/ DisplayNext
  PROVE  /\ Quiet' \/ (backlog' = <<>> /\ UpPlaced')
         /\ UNCHANGED <<sharer, tubeOpen>>
<1>1. CASE SharerNext
  <2>1. (\E b \in DownBlocks : SharerSends(b)) \/ SharerWrites
    BY <1>1 DEF SharerNext, SharerReads, CopyBottomToClient, Quiet
  <2>2. UNCHANGED <<bottom, bottomIn, up, relayOut, back, displayOut, sentUp, gotUp, sharer,
                    tubeOpen, topWatch, spawned, display>>
    BY <2>1 DEF SharerSends, SharerWrites, tubeVars, relayVars, displayVars, upHistory
  <2> QED BY <2>2 DEF Quiet
<1>2. CASE RelayNext
  <2>1. RefuseConnection \/ AcceptConnection
    BY <1>2 DEF RelayNext, CopyTopToServer, CopyServerToTop, RelayWrites, Quiet
  <2>2. CASE RefuseConnection
    BY <2>2 DEF RefuseConnection, sharerVars, tubeVars, displayVars, upHistory, Quiet
  <2>3. CASE AcceptConnection
    <3>1. /\ UNCHANGED <<bottom, bottomIn, up, back, displayOut, gotUp, sharer, tubeOpen,
                         spawned, display>>
          /\ backlog # <<>> /\ backlog' = Tail(backlog) /\ Head(backlog) = "tube"
          /\ \/ UNCHANGED <<topWatch, relayOut, sentUp>>
             \/ \E len \in {0, Len(Avatar.payload)} :
                  /\ relayOut' = [to |-> "up", bytes |-> Greeting(len)]
                  /\ sentUp' = IF len = 0 THEN sentUp ELSE Append(sentUp, Avatar)
      BY <2>3 DEF AcceptConnection, sharerVars, tubeVars, displayVars
    <3>2. CASE UNCHANGED <<topWatch, relayOut, sentUp>>
      BY <3>1, <3>2 DEF Quiet
    <3>3. ASSUME NEW len \in {0, Len(Avatar.payload)},
                 relayOut' = [to |-> "up", bytes |-> Greeting(len)],
                 sentUp' = IF len = 0 THEN sentUp ELSE Append(sentUp, Avatar)
          PROVE  UpPlaced'
      BY <3>1, <3>3, UpGreets
    <3>4. backlog' = <<>>
      BY <3>1, BacklogTail
    <3> QED BY <3>1, <3>2, <3>3, <3>4
  <2> QED BY <2>1, <2>2, <2>3
<1>3. ~DisplayNext
  BY DEF DisplayNext, DisplayReads, DisplayIdle, CheckForFdInput, CheckForRfbReplies,
         DisplayWrites, Quiet
<1> QED BY <1>1, <1>2, <1>3

LEMMA UpStep ==
  Fits /\ LinkTypes /\ UpInv /\ [Next]_vars => UpInv'
<1> SUFFICES ASSUME Fits, LinkTypes, UpInv, [Next]_vars
             PROVE  UpInv'
  OBVIOUS
<1>1. BacklogOK /\ BacklogOK'
  BY BacklogStep DEF UpInv
<1>2. CASE sharer \in HungUp \/ HangUp
  <2>1. sharer' \in HungUp
    BY <1>2, StaysGone DEF HangUp
  <2> QED BY <1>1, <2>1 DEF UpInv
<1>3. CASE sharer \notin HungUp /\ UNCHANGED vars
  <2>1. UNCHANGED <<bottom, bottomIn, up, relayOut, back, displayOut, sentUp, gotUp, sharer,
                    tubeOpen, backlog, topWatch, spawned, display>>
    BY <1>3 DEF vars, sharerVars, tubeVars, relayVars, displayVars, upHistory
  <2>2. UpFlow' = UpFlow
    BY <2>1 DEF UpFlow
  <2>3. Quiet => Quiet'
    BY <2>1 DEF Quiet
  <2>4. UpPlaced => UpPlaced'
    BY <2>1, <2>2, UpSame
  <2> QED BY <1>1, <1>3, <2>1, <2>3, <2>4, Zenon DEF UpInv
<1>4. CASE sharer \notin HungUp /\ (SharerNext \/ RelayNext \/ DisplayNext)
  <2>1. sharer = "running" /\ tubeOpen /\ (Quiet \/ (backlog = <<>> /\ UpPlaced))
    BY <1>4, Zenon DEF UpInv
  <2>2. CASE Quiet
    <3>1. /\ Quiet' \/ (backlog' = <<>> /\ UpPlaced')
          /\ sharer' = sharer /\ tubeOpen' = tubeOpen
      BY <1>1, <1>4, <2>2, QuietStep
    <3> QED BY <1>1, <2>1, <3>1, Zenon DEF UpInv
  <2>3. CASE backlog = <<>> /\ UpPlaced
    <3>1. UpPlaced' /\ sharer' = sharer /\ tubeOpen' = tubeOpen /\ backlog' = backlog
      BY <1>4, <2>1, <2>3, UpSharer, UpRelay, UpDisplay
    <3> QED BY <1>1, <2>1, <2>3, <3>1, Zenon DEF UpInv
  <2> QED BY <2>1, <2>2, <2>3
<1> QED BY <1>2, <1>3, <1>4 DEF Next

-----------------------------------------------------------------------------
(* The invariant, and what follows from it.                                *)

LinkInv == LinkTypes /\ DownInv /\ UpInv

LEMMA LinkInvariance ==
  ASSUME Fits
  PROVE  Spec => []LinkInv
<1>1. Init => LinkInv
  BY LinkInitTypes, DownInit, UpInit DEF LinkInv
<1>2. LinkInv /\ [Next]_vars => LinkInv'
  <2> SUFFICES ASSUME LinkInv, [Next]_vars
               PROVE  LinkInv'
    OBVIOUS
  <2>1. LinkTypes /\ DownInv /\ UpInv
    BY DEF LinkInv
  <2>2. sharer = "running" => tubeOpen
    BY <2>1 DEF UpInv, HungUp
  <2>3. LinkTypes' /\ DownInv' /\ UpInv'
    BY <2>1, <2>2, LinkNextTypes, DownStep, UpStep
  <2> QED BY <2>3 DEF LinkInv
<1> QED BY <1>1, <1>2, PTL DEF Spec

\* One more block extends a sequence of blocks.
LEMMA AppendExtends ==
  ASSUME NEW s \in Seq(Blocks), NEW x, Append(s, x) \in Seq(Blocks)
  PROVE  Down!Extends(Append(s, x), s) /\ Upwards!Extends(Append(s, x), s)
<1> DEFINE t == Append(s, x)
<1>1. /\ t \in Seq(Blocks) /\ Len(t) = Len(s) + 1 /\ Len(s) \in Nat
      /\ \A i \in 1 .. Len(s) : t[i] = s[i]
  BY AppendProperties
<1> HIDE DEF t
<1>2. Len(s) \in 0 .. Len(t)
  BY <1>1
<1>3. /\ First(t, Len(s)) \in Seq(Blocks) /\ Len(First(t, Len(s))) = Len(s)
      /\ \A i \in 1 .. Len(s) : First(t, Len(s))[i] = t[i]
  BY <1>1, <1>2, Cut
<1>4. First(t, Len(s)) = s
  BY <1>1, <1>3, SeqEqual
<1>5. SubSeq(t, 1, Len(s)) = s
  BY <1>4 DEF First
<1> QED BY <1>1, <1>5 DEF Down!Extends, Upwards!Extends, t

\* What is sent is a sequence of blocks of two-byte numbers.
LEMMA BlocksSent ==
  ASSUME Fits
  PROVE  \A s \in Seq(Sendable) : s \in Seq(Blocks)
<1>1. Sendable \subseteq Blocks
  <2> SUFFICES ASSUME NEW b \in Sendable
               PROVE  b \in Blocks
    OBVIOUS
  <2>1. b \in AnyBlocks /\ Fit(b)
    BY BlockBytes DEF Fits
  <2> QED BY <2>1 DEF AnyBlocks, Fit, Numbers, Blocks
<1> QED BY <1>1

\* A step of the connection is one of the queue of blocks that goes down, or none.
LEMMA DownImplements ==
  ASSUME Fits, LinkInv, [Next]_vars
  PROVE  [Down!Next]_(Down!vars)
<1>1. /\ LinkTypes /\ DownInv /\ LinkTypes'
  BY LinkNextTypes DEF LinkInv
<1>2. /\ sentDown \in Seq(Blocks) /\ gotDown \in Seq(Blocks) /\ brokenDown \in BOOLEAN
      /\ sentDown' \in Seq(Blocks) /\ gotDown' \in Seq(Blocks) /\ brokenDown' \in BOOLEAN
  BY <1>1, BlocksSent DEF LinkTypes, HistoryTypes
<1>3. CASE SharerWrites
  <2>1. /\ gotDown' = gotDown
        /\ \/ sentDown' = sentDown /\ brokenDown' = brokenDown
           \/ sentDown' = sentDown /\ brokenDown' = TRUE
           \/ /\ sentDown' = Append(sentDown, sending)
              /\ ~brokenDown /\ ~brokenDown'
    <3>1. /\ gotDown' = gotDown
          /\ brokenDown => brokenDown'
          /\ \/ sentDown' = sentDown
             \/ sentDown' = Append(sentDown, sending) /\ ~brokenDown'
      BY <1>3 DEF SharerWrites
    <3> QED BY <1>2, <3>1
  <2>2. CASE sentDown' = sentDown /\ brokenDown' = brokenDown
    BY <2>1, <2>2 DEF Down!vars
  <2>3. CASE sentDown' = sentDown /\ brokenDown' = TRUE
    BY <2>1, <2>3 DEF Down!Next, Down!Break
  <2>4. CASE sentDown' = Append(sentDown, sending) /\ ~brokenDown /\ ~brokenDown'
    <3>1. Down!Extends(sentDown', sentDown)
      BY <1>2, <2>4, AppendExtends
    <3>2. brokenDown' = brokenDown
      BY <1>2, <2>4
    <3> QED BY <2>1, <2>4, <3>1, <3>2 DEF Down!Next, Down!Send
  <2> QED BY <2>1, <2>2, <2>3, <2>4
<1>4. CASE CheckForFdInput
  <2>1. /\ sentDown' = sentDown /\ brokenDown' = brokenDown
        /\ gotDown' = gotDown \/ \E x : gotDown' = Append(gotDown, x)
    BY <1>4 DEF CheckForFdInput
  <2>2. CASE gotDown' = gotDown
    BY <2>1, <2>2 DEF Down!vars
  <2>3. ASSUME NEW x, gotDown' = Append(gotDown, x), gotDown' # gotDown
        PROVE  Down!Next
    <3>1. CASE Len(gotDown) < Len(sentDown)
      <4>1. gotDown' = Append(gotDown, sentDown[Len(gotDown) + 1])
        BY <1>1, <1>4, <2>3, <3>1, DownParses
      <4> QED BY <2>1, <3>1, <4>1 DEF Down!Next, Down!Deliver
    <3>2. CASE ~(Len(gotDown) < Len(sentDown))
      <4>1. brokenDown
        BY <1>1, <1>4, <2>3, <3>2, DownParses
      <4>2. Down!Extends(gotDown', gotDown)
        BY <1>2, <2>3, AppendExtends
      <4>3. Len(gotDown) >= Len(sentDown)
        BY <1>2, <3>2
      <4> QED BY <2>1, <4>1, <4>2, <4>3 DEF Down!Next, Down!Garble
    <3> QED BY <3>1, <3>2
  <2> QED BY <2>1, <2>2, <2>3
<1>5. CASE ~SharerWrites /\ ~CheckForFdInput
  <2>1. UNCHANGED downHistory
    BY <1>5 DEF Next, SharerNext, RelayNext, DisplayNext, vars, SharerSends, SharerReads,
           CopyBottomToClient, RefuseConnection, AcceptConnection, CopyTopToServer,
           CopyServerToTop, RelayWrites, DisplayReads, CheckForRfbReplies, DisplayWrites,
           HangUp
  <2> QED BY <2>1 DEF downHistory, Down!vars
<1> QED BY <1>3, <1>4, <1>5

\* The same of the queue that goes up.
LEMMA UpImplements ==
  ASSUME Fits, LinkInv, [Next]_vars
  PROVE  [Upwards!Next]_(Upwards!vars)
<1>1. LinkTypes /\ UpInv /\ LinkTypes'
  BY LinkNextTypes DEF LinkInv
<1>2. sentUp \in Seq(Blocks) /\ sentUp' \in Seq(Blocks)
  BY <1>1, BlocksSent DEF LinkTypes, HistoryTypes
<1>3. CASE CopyBottomToClient
  <2>1. sentUp' = sentUp /\ sharer = "running" /\ bottomIn # <<>>
    BY <1>3 DEF CopyBottomToClient
  <2>2. UpPlaced
    BY <1>1, <2>1 DEF UpInv, Quiet, HungUp
  <2>3. \/ gotUp' = gotUp
        \/ /\ Len(gotUp) < Len(sentUp)
           /\ gotUp' = Append(gotUp, sentUp[Len(gotUp) + 1])
    BY <1>1, <1>3, <2>2, UpParses
  <2>4. CASE gotUp' = gotUp
    BY <2>1, <2>4 DEF Upwards!vars
  <2>5. CASE /\ Len(gotUp) < Len(sentUp)
             /\ gotUp' = Append(gotUp, sentUp[Len(gotUp) + 1])
    BY <2>1, <2>5 DEF Upwards!Next, Upwards!Deliver
  <2> QED BY <2>3, <2>4, <2>5
<1>4. CASE ~CopyBottomToClient
  <2>1. /\ gotUp' = gotUp
        /\ sentUp' = sentUp \/ \E x : sentUp' = Append(sentUp, x)
    <3>1. CASE AcceptConnection
      BY <3>1 DEF AcceptConnection
    <3>2. CASE CheckForFdInput
      BY <3>2 DEF CheckForFdInput, DisplaySays
    <3>3. CASE \E b \in UpBlocks : CheckForRfbReplies(b)
      BY <3>3 DEF CheckForRfbReplies, DisplaySays
    <3>4. CASE ~(\/ AcceptConnection
                 \/ CheckForFdInput
                 \/ \E b \in UpBlocks : CheckForRfbReplies(b))
      <4>1. UNCHANGED upHistory
        BY <1>4, <3>4 DEF Next, SharerNext, RelayNext, DisplayNext, vars, SharerSends,
               SharerWrites, SharerReads, RefuseConnection, CopyTopToServer,
               CopyServerToTop, RelayWrites, DisplayReads, DisplayWrites, HangUp
      <4> QED BY <4>1 DEF upHistory
    <3> QED BY <3>1, <3>2, <3>3, <3>4
  <2>2. CASE sentUp' = sentUp
    BY <2>1, <2>2 DEF Upwards!vars
  <2>3. ASSUME NEW x, sentUp' = Append(sentUp, x)
        PROVE  Upwards!Next
    <3>1. Upwards!Extends(sentUp', sentUp)
      BY <1>2, <2>3, AppendExtends
    <3> QED BY <2>1, <3>1 DEF Upwards!Next, Upwards!Send
  <2> QED BY <2>1, <2>2, <2>3
<1> QED BY <1>3, <1>4

\* If every block fits, the whole of the link, with its sockets, relays, cut reads and
\* writes, and parsers, is in either direction a queue of blocks (BlockQueue): the
\* handlers are called with the blocks that were sent, each once and in order; only a
\* sharer that breaks the stream itself is promised nothing from there on.
THEOREM LinkImplementsQueues ==
  ASSUME Fits
  PROVE  Spec => BlocksInOrder
<1>1. Init => Down!Init /\ Upwards!Init
  BY DEF Init, Down!Init, Upwards!Init
<1>2. LinkInv /\ [Next]_vars => [Down!Next]_(Down!vars) /\ [Upwards!Next]_(Upwards!vars)
  BY DownImplements, UpImplements
<1> QED BY <1>1, <1>2, LinkInvariance, PTL DEF Spec, BlocksInOrder, Down!Spec, Upwards!Spec

-----------------------------------------------------------------------------
(* When nothing moves any more.                                            *)

\* No program can do anything by itself: none of the guards of Fairness holds.
Halted ==
  /\ sharer = "running" => bottomOut = <<>> /\ bottomIn = <<>> /\ up = <<>>
  /\ relay = "running" =>
       IF relayOut = Idle
       THEN /\ ~(listening /\ backlog # <<>>)
            /\ ~(topWatch /\ (tube # <<>> \/ ~tubeOpen))
            /\ ~(spawned /\ back # <<>>)
       ELSE \/ relayOut.to = "up" /\ tubeOpen /\ Len(up) >= UpSize
            \/ relayOut.to = "pipe" /\ Len(pipe) >= PipeSize
  /\ display = "running" =>
       IF displayOut = <<>> THEN fdIn = <<>> /\ pipe = <<>> ELSE Len(back) >= PipeSize

\* How the programs begin, and what ends with the tube.
StartOK ==
  /\ relayOut.to = "nowhere" => relayOut = Idle
  /\ spawned <=> display # "none"
  /\ relayOut.to = "pipe" => spawned
  /\ ~spawned => fdIn = <<>> /\ displayOut = <<>> /\ pipe = <<>> /\ back = <<>>
  /\ relay = "running" /\ backlog = <<>> /\ tubeOpen => topWatch
  /\ relay = "bus_died" \/ sharer \in HungUp => ~tubeOpen

LEMMA StartInit ==
  Init => StartOK
<1> SUFFICES ASSUME Init
             PROVE  StartOK
  OBVIOUS
<1>1. backlog # <<>>
  <2> DEFINE s == [i \in 1 .. Strangers |-> "stranger"]
             t == <<"tube">>
             S == {"stranger", "tube"}
  <2>1. s \in Seq(S) /\ t \in Seq(S) /\ Len(t) = 1
    BY LinkAssumption
  <2>2. backlog = s \o t
    BY DEF Init
  <2> HIDE DEF s, t, S
  <2>3. s \o t \in Seq(S) /\ Len(s \o t) = Len(s) + 1 /\ Len(s) \in Nat
    BY <2>1, ConcatProperties, SMTT(30)
  <2>4. Len(s \o t) # 0 /\ Len(<<>>) = 0
    BY <2>3
  <2> QED BY <2>2, <2>4
<1> QED BY <1>1 DEF Init, StartOK, Idle, HungUp

\* How a byte may end a program.
LEMMA BytesEnd ==
  ASSUME LinkTypes
  PROVE  /\ CopyBottomToClient => sharer' \in {sharer, "null_buffer", "not_xzibit"}
         /\ CheckForFdInput => display' \in {display, "null_buffer"}
<1>1. ASSUME CopyBottomToClient
      PROVE  sharer' \in {sharer, "null_buffer", "not_xzibit"}
  <2> DEFINE call == BottomStep(bottom, Head(bottomIn)).call
  <2>1. sharer' = IF call.does = "fail" THEN call.why ELSE sharer
    BY <1>1 DEF CopyBottomToClient
  <2>2. BottomTypeOK(bottom) /\ Head(bottomIn) \in Bytes
    BY <1>1, NextByte DEF CopyBottomToClient, LinkTypes, SharerTypes
  <2>3. Calls(call, {"null_buffer", "not_xzibit"}) \/ call = Introduce
    BY <2>2, BottomStepTypes
  <2> HIDE DEF call
  <2>4. call.does = "fail" => call.why \in {"null_buffer", "not_xzibit"}
    BY <2>3, CallKinds, Zenon
  <2> QED BY <2>1, <2>4
<1>2. ASSUME CheckForFdInput
      PROVE  display' \in {display, "null_buffer"}
  <2> DEFINE call == FdStep(fd, Head(fdIn)).call
  <2>1. display' = IF call.does = "fail" THEN call.why ELSE display
    BY <1>2 DEF CheckForFdInput
  <2>2. FdTypeOK(fd) /\ Head(fdIn) \in Bytes
    BY <1>2, NextByte DEF CheckForFdInput, LinkTypes, DisplayTypes
  <2>3. Calls(call, {"null_buffer"})
    BY <2>2, FdStepTypes
  <2> HIDE DEF call
  <2>4. call.does = "fail" => call.why \in {"null_buffer"}
    BY <2>3, CallKinds, Zenon
  <2> QED BY <2>1, <2>4
<1> QED BY <1>1, <1>2

LEMMA StartStep ==
  LinkTypes /\ BacklogOK /\ StartOK /\ [Next]_vars => StartOK'
<1> SUFFICES ASSUME LinkTypes, BacklogOK, StartOK, [Next]_vars
             PROVE  StartOK'
  OBVIOUS
<1>1. CASE SharerNext
  <2>1. /\ UNCHANGED <<relayOut, spawned, display, fdIn, displayOut, pipe, back, relay,
                       backlog, tubeOpen, topWatch>>
        /\ sharer = "running"
    BY <1>1 DEF SharerNext, SharerSends, SharerIdle, SharerWrites, SharerReads,
                CopyBottomToClient, tubeVars, relayVars, displayVars
  <2>2. sharer' \in {sharer, "null_buffer", "not_xzibit"}
    BY <1>1, BytesEnd DEF SharerNext, SharerSends, SharerWrites, SharerReads
  <2> QED BY <2>1, <2>2 DEF StartOK, HungUp
<1>2. CASE RefuseConnection \/ AcceptConnection
  <2>1. /\ UNCHANGED <<spawned, display, fdIn, displayOut, pipe, back, tubeOpen, sharer>>
        /\ backlog # <<>> /\ backlog' = Tail(backlog)
    BY <1>2 DEF RefuseConnection, AcceptConnection, sharerVars, tubeVars, displayVars
  <2>2. CASE RefuseConnection
    <3>1. UNCHANGED <<relay, relayOut, topWatch>> /\ Head(backlog) # "tube"
      BY <2>2 DEF RefuseConnection
    <3>2. backlog' # <<>>
      BY <2>1, <3>1, BacklogTail
    <3> QED BY <2>1, <3>1, <3>2 DEF StartOK
  <2>3. CASE AcceptConnection
    <3>1. \/ relay' = "null_avatar" /\ relayOut' = relayOut
          \/ /\ topWatch' = TRUE /\ relay' = "running"
             /\ \E s : relayOut' = [to |-> "up", bytes |-> s]
      BY <2>3 DEF AcceptConnection, RelayIdle
    <3>2. CASE relay' = "null_avatar" /\ relayOut' = relayOut
      BY <2>1, <3>2 DEF StartOK
    <3>3. CASE /\ topWatch' = TRUE /\ relay' = "running"
               /\ \E s : relayOut' = [to |-> "up", bytes |-> s]
      BY <2>1, <3>3, JobFields DEF StartOK
    <3> QED BY <3>1, <3>2, <3>3
  <2> QED BY <1>2, <2>2, <2>3
<1>3. CASE CopyTopToServer
  <2>1. /\ UNCHANGED <<fdIn, displayOut, pipe, back, tubeOpen, sharer, backlog>>
        /\ relay' = relay \/ (relay' = "bus_died" /\ ~tubeOpen)
        /\ spawned' /\ display' # "none"
        /\ relayOut' = relayOut \/ \E s : relayOut' = [to |-> "pipe", bytes |-> s]
        /\ topWatch' = topWatch \/ ~tubeOpen
    BY <1>3 DEF CopyTopToServer, StartDisplay, StartOK, sharerVars
  <2> QED BY <2>1, JobFields DEF StartOK
<1>4. CASE CopyServerToTop
  <2>1. /\ UNCHANGED <<fdIn, displayOut, pipe, display, tubeOpen, sharer, relay, backlog,
                       topWatch, spawned>>
        /\ spawned /\ \E s : relayOut' = [to |-> "up", bytes |-> s]
    BY <1>4 DEF CopyServerToTop, sharerVars, tubeVars, displayVars
  <2> QED BY <2>1, JobFields DEF StartOK
<1>5. CASE RelayWrites
  <2>1. /\ UNCHANGED <<fdIn, displayOut, back, display, tubeOpen, sharer, relay, backlog,
                       topWatch, spawned>>
        /\ relayOut.to = "pipe" \/ (relayOut.to = "up" /\ pipe' = pipe)
    BY <1>5 DEF RelayWrites, sharerVars, displayVars
  <2>2. relayOut' = Idle \/ relayOut'.to = relayOut.to
    <3>1. \/ relayOut' = Idle
          \/ \E r : relayOut' = [relayOut EXCEPT !.bytes = r]
      BY <1>5 DEF RelayWrites
    <3>2. relayOut \in RelayJobs
      BY DEF LinkTypes, RelayTypes
    <3> QED BY <3>1, <3>2 DEF RelayJobs
  <2>3. Idle.to = "nowhere"
    BY JobFields
  <2> QED BY <2>1, <2>2, <2>3 DEF StartOK
<1>6. CASE DisplayNext
  <2>1. /\ UNCHANGED <<relayOut, spawned, relay, backlog, tubeOpen, topWatch, sharer>>
        /\ display = "running"
    BY <1>6 DEF DisplayNext, DisplayReads, DisplayIdle, CheckForFdInput,
                CheckForRfbReplies, DisplayWrites, sharerVars, tubeVars, relayVars
  <2>2. display' \in {display, "null_buffer"}
    BY <1>6, BytesEnd DEF DisplayNext, DisplayReads, CheckForRfbReplies, DisplayWrites
  <2> QED BY <2>1, <2>2 DEF StartOK
<1>7. CASE HangUp \/ UNCHANGED vars
  <2>1. /\ UNCHANGED <<relayOut, spawned, display, fdIn, displayOut, pipe, back, relay,
                       backlog, topWatch>>
        /\ UNCHANGED <<sharer, tubeOpen>> \/ tubeOpen' = FALSE
    BY <1>7 DEF HangUp, vars, sharerVars, tubeVars, relayVars, displayVars
  <2> QED BY <2>1 DEF StartOK
<1> QED BY <1>1, <1>2, <1>3, <1>4, <1>5, <1>6, <1>7 DEF Next, RelayNext

StillInv == LinkInv /\ StartOK

LEMMA StillInvariance ==
  ASSUME Fits
  PROVE  Spec => []StillInv
<1>1. Init => StartOK
  BY StartInit
<1>2. LinkInv /\ StartOK /\ [Next]_vars => StartOK'
  BY StartStep DEF LinkInv, UpInv
<1>3. LinkInv /\ StartOK => StillInv
  BY DEF StillInv
<1> QED BY <1>1, <1>2, <1>3, LinkInvariance, PTL DEF Spec

\* If channel and length of every block fit into two bytes, however the bytes are cut into
\* reads and writes, the sharer's parser never meets a wrong header or an empty block,
\* and the display program's only when the sharer has broken the stream; and no read of
\* the tube fails while it is open.
THEOREM OnlyBrokenStreamsKillPrograms ==
  ASSUME Fits
  PROVE  Spec => []OnlyBrokenStreamsKill
<1>1. StillInv => OnlyBrokenStreamsKill
  <2> SUFFICES ASSUME StillInv
               PROVE  OnlyBrokenStreamsKill
    OBVIOUS
  <2>1. sharer \in {"running"} \union HungUp
    BY DEF StillInv, LinkInv, UpInv
  <2>2. display = "null_buffer" => brokenDown
    BY DEF StillInv, LinkInv, DownInv, DownPlace, Reading
  <2>3. relay = "bus_died" \/ sharer \in HungUp => ~tubeOpen
    BY DEF StillInv, StartOK
  <2> QED BY <2>1, <2>2, <2>3 DEF OnlyBrokenStreamsKill
<1> QED BY <1>1, StillInvariance, PTL

\* When nothing is on its way no parser keeps a block.
LEMMA NothingKept ==
  ASSUME LinkInv
  PROVE  /\ DownFlow = <<>> => Len(gotDown) >= Len(sentDown)
         /\ UpFlow = <<>> /\ sharer = "running" => Len(gotUp) >= Len(sentUp)
<1>1. /\ sentDown \in Seq(AnyBlocks) /\ sentUp \in Seq(AnyBlocks)
      /\ Len(sentDown) \in Nat /\ Len(gotDown) \in Nat
      /\ Len(sentUp) \in Nat /\ Len(gotUp) \in Nat
  BY SeqsOfBlocks DEF LinkInv
<1>2. ASSUME NEW stream \in Seq(Bytes), NEW k \in 0 .. Len(stream), Rest(stream, k) = <<>>
      PROVE  k = Len(stream)
  <2>1. Len(Rest(stream, k)) = Len(stream) - k /\ Len(<<>>) = 0
    BY Cut
  <2>2. Len(stream) - k = 0
    BY <1>2, <2>1
  <2> QED BY <2>2
<1>3. ASSUME NEW stream \in Seq(Bytes), NEW place, NEW blocks \in Seq(AnyBlocks),
             NEW start, NEW n \in Nat, n < Len(blocks),
             Carries(stream, place, blocks, start), Len(stream) < place[n + 1]
      PROVE  FALSE
  <2>1. n \in 0 .. Len(blocks) - 1
    BY <1>3
  <2>2. place[n + 1] \in Nat /\ place[n + 1] <= Len(stream)
    BY <1>3, <2>1, PlacesOfMore
  <2> QED BY <1>3, <2>2
<1>4. ASSUME DownFlow = <<>>, Len(gotDown) < Len(sentDown)
      PROVE  FALSE
  <2>1. PICK stream, place, k : DownPlace(stream, place, k)
    BY DEF LinkInv, DownInv
  <2>2. /\ stream \in Seq(Bytes) /\ k \in 0 .. Len(stream) /\ Rest(stream, k) = <<>>
        /\ Carries(stream, place, sentDown, 0)
        /\ k < place[Len(gotDown) + 1]
    BY <1>4, <2>1 DEF DownPlace, Reading
  <2>3. k = Len(stream)
    BY <1>2, <2>2
  <2> QED BY <1>1, <1>3, <1>4, <2>2, <2>3
<1>5. ASSUME UpFlow = <<>>, sharer = "running", Len(gotUp) < Len(sentUp)
      PROVE  FALSE
  <2>1. UpPlaced
    BY <1>5 DEF LinkInv, UpInv, Quiet, HungUp
  <2>2. PICK stream, place, k : UpPlace(stream, place, k)
    BY <2>1 DEF UpPlaced
  <2>3. /\ stream \in Seq(Bytes) /\ k \in 0 .. Len(stream) /\ Rest(stream, k) = <<>>
        /\ Carries(stream, place, sentUp, HeaderSize) /\ HeaderSize <= Len(stream)
        /\ k < HeaderSize \/ k < place[Len(gotUp) + 1]
    BY <1>5, <2>2 DEF UpPlace
  <2>4. k = Len(stream)
    BY <1>2, <2>3
  <2>5. ~(k < HeaderSize)
    BY <2>3, <2>4, FramingAssumption
  <2> QED BY <1>1, <1>3, <1>5, <2>3, <2>4, <2>5
<1> QED BY <1>1, <1>4, <1>5

\* If every block fits: when no program can go on by itself, every block that was sent
\* whole has been handed over, in both directions, unless it is one of the obstructions the
\* code is known to have.  No wait of the programs for each other but the embrace, and no
\* block that has been read and forgotten, ever keeps one.
THEOREM NothingIsStuck ==
  ASSUME Fits
  PROVE  Spec => [](Halted => \/ Len(gotDown) >= Len(sentDown) /\ Len(gotUp) >= Len(sentUp)
                              \/ Obstructed)
<1>1. ASSUME StillInv, Halted, ~Obstructed
      PROVE  Len(gotDown) >= Len(sentDown) /\ Len(gotUp) >= Len(sentUp)
  <2>1. LinkInv /\ StartOK /\ LinkTypes
    BY <1>1 DEF StillInv, LinkInv
  <2>2. /\ relay = "running" /\ listening /\ tubeOpen
        /\ display \in {"none", "running"} /\ ~Embrace
    BY <1>1, <2>1 DEF Obstructed, LinkTypes, DisplayTypes
  <2>3. sharer = "running" /\ bottomIn = <<>> /\ up = <<>>
    BY <1>1, <2>1, <2>2 DEF LinkInv, UpInv, StartOK, Halted, HungUp
  <2>4. /\ Len(up) = 0 /\ Len(<<>>) = 0 /\ UpSize \in Nat \ {0} /\ PipeSize \in Nat \ {0}
        /\ Len(pipe) \in Nat /\ Len(pipe) <= PipeSize /\ pipe \in Seq(Bytes)
        /\ Len(back) \in Nat /\ Len(back) <= PipeSize /\ back \in Seq(Bytes)
    BY <2>1, <2>3, Sizes DEF LinkTypes, SocketTypes
  <2>5. relayOut = Idle
    <3> SUFFICES ASSUME relayOut # Idle
                 PROVE  FALSE
      OBVIOUS
    <3>1. relayOut.to = "pipe" /\ Len(pipe) >= PipeSize
      BY <1>1, <2>2, <2>4 DEF Halted
    <3>2. spawned /\ display = "running"
      BY <2>1, <2>2, <3>1 DEF StartOK
    <3>3. pipe # <<>> /\ Len(pipe) = PipeSize
      BY <2>4, <3>1
    <3>4. displayOut # <<>> /\ Len(back) >= PipeSize
      BY <1>1, <3>2, <3>3 DEF Halted
    <3>5. Len(back) = PipeSize
      BY <2>4, <3>4
    <3> QED BY <2>2, <3>1, <3>3, <3>4, <3>5 DEF Embrace
  <2>6. /\ backlog = <<>> /\ ~(topWatch /\ tube # <<>>) /\ ~(spawned /\ back # <<>>)
    BY <1>1, <2>2, <2>5 DEF Halted
  <2>7. tube = <<>>
    BY <2>1, <2>2, <2>6 DEF StartOK
  <2>8. back = <<>> /\ displayOut = <<>> /\ fdIn = <<>> /\ pipe = <<>>
    <3>1. CASE spawned
      <4>1. back = <<>> /\ display = "running"
        BY <2>1, <2>2, <2>6, <3>1 DEF StartOK
      <4>2. ~(Len(back) >= PipeSize)
        BY <2>4, <4>1
      <4> QED BY <1>1, <4>1, <4>2 DEF Halted
    <3>2. CASE ~spawned
      BY <2>1, <3>2 DEF StartOK
    <3> QED BY <3>1, <3>2
  <2>9. DownFlow = <<>> /\ UpFlow = <<>>
    <3>1. OutTo(relayOut, "up") = <<>> /\ OutTo(relayOut, "pipe") = <<>>
      BY <2>5, JobOut
    <3>2. Flow(<<>>, <<>>, <<>>, <<>>) = <<>> /\ Cat(<<>>, <<>>) = <<>>
      BY Joined DEF Flow, Cat
    <3> QED BY <2>3, <2>7, <2>8, <3>1, <3>2 DEF DownFlow, UpFlow
  <2> QED BY <2>1, <2>3, <2>9, NothingKept
<1>2. StillInv => (Halted => \/ Len(gotDown) >= Len(sentDown) /\ Len(gotUp) >= Len(sentUp)
                             \/ Obstructed)
  BY <1>1
<1> QED BY <1>2, StillInvariance, PTL

=============================================================================
