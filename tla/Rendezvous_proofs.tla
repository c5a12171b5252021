------------------------- MODULE Rendezvous_proofs --------------------------
(***************************************************************************)
(* Theorems about the setup of a tube (TubeSetup): who still uses the      *)
(* result and the channels, and that the chain of callbacks implements     *)
(* TubeRequest; and about the search (ContactSearch), for every finite set *)
(* of accounts.  Then, what has been proved about the setup and the search *)
(* holds when they work together: every step of Rendezvous is one of       *)
(* theirs, or leaves them alone.                                           *)
(***************************************************************************)
EXTENDS Rendezvous, FiniteSetTheorems, TLAPS

\* The invariant of the program that asks.

AskerTypes ==
  /\ accepting \in {"none", "pending", "over"}
  /\ offering \in {"none", "pending", "over"}
  /\ completing \in {0, 1}

\* The callbacks that share the result exist only once the channel is asked for.
NothingBefore ==
  stage # "tube" =>
    /\ accepting = "none" /\ offering = "none" /\ completing = 0
    /\ ~cancelled /\ ~hears

\* The handler is connected only while somebody to connect is waited for, and
\* whatever completes the result has disconnected it.
HeardUntilComplete ==
  /\ hears => accepting = "pending" /\ ~cancelled
  /\ offering = "pending" => accepting = "pending" /\ ~cancelled

\* A call of create_tube_cb, the answer, or the end before there was a result:
\* at most one of them, and none before the result is completed.
OneAnswer ==
  /\ ~cancelled => completing = 0
  /\ ~cancelled /\ stage # "over" => answers = <<>>
  /\ completing = 1 => answers = <<>>

\* It is not told that the tube is ready without somebody having connected.
ReadyWhenTaken == completing = 1 /\ ~failed => incoming

\* The asker's channel dangles only in the plugin, after its invalidation.
AskerDangles == channel = "gone" => program = "plugin" /\ told

AskerInv ==
  /\ AskerTypes /\ NothingBefore /\ HeardUntilComplete /\ OneAnswer
  /\ ReadyWhenTaken /\ ResultOutlivesCallbacks /\ AskerDangles
  /\ ("asker" \in harmed => program = "plugin" /\ told)

\* The invariant of the plugin at the other end.

\* A splice ends once, after it has begun.
SpliceEndsOnce ==
  /\ ending \in {0, 1}
  /\ ending = 1 => spliceDone /\ session = "spliced"
  /\ session # "spliced" => halves = {} \/ spliceDone

\* The reference is given up with the session, if the channel lasts as long.
SessionDangles ==
  listed = "gone" => sessionTold \/ (session = "over" /\ ~sessionHears)

\* Nobody connects before the plugin accepts the tube.
TakenOnce == session \in {"none", "accepting"} => incoming = FALSE

SessionInv ==
  /\ SpliceEndsOnce /\ SessionDangles /\ TakenOnce
  /\ ("session" \in harmed => sessionTold)

SetupInv == AskerInv /\ SessionInv

-----------------------------------------------------------------------------
(* What the steps of the program that asks do to its invariant.            *)

\* A step up to the request for a channel answers, or goes on.
LEMMA ChainKeeps ==
  ASSUME AskerInv, NEW next \in {"account", "connection", "channel"},
         stage \in {"share", "account", "connection"},
         GoOnTo(next), ChainUnchanged
  PROVE  AskerInv' /\ [Requested!Next]_<<answers, incoming>>
<1> USE AskerInv DEF AskerInv, GoOnTo, ChainUnchanged
<1>1. answers = <<>>
  BY DEF NothingBefore, OneAnswer
<1>2. AskerTypes' /\ NothingBefore' /\ HeardUntilComplete' /\ ReadyWhenTaken'
      /\ AskerDangles' /\ ("asker" \in harmed => program = "plugin" /\ told)'
  BY DEF AskerTypes, NothingBefore, HeardUntilComplete, ReadyWhenTaken, AskerDangles,
         tubeVars
<1>3. OneAnswer'
  BY <1>1 DEF NothingBefore, OneAnswer
<1>4. ResultOutlivesCallbacks'
  BY DEF ResultOutlivesCallbacks, NothingBefore, One
<1>5. [Requested!Next]_<<answers, incoming>>
  BY <1>1 DEF Requested!Next, Requested!Fail, tubeVars
<1> QED BY <1>2, <1>3, <1>4, <1>5

LEMMA CreateChannelKeeps ==
  ASSUME AskerInv, CreateChannel
  PROVE  AskerInv'
<1> USE AskerInv DEF AskerInv, CreateChannel, Complete
<1>1. AskerTypes'
  BY DEF AskerTypes, NothingBefore
<1>2. NothingBefore' /\ AskerDangles'
  BY DEF NothingBefore, AskerDangles, AskerTypes
<1>3. HeardUntilComplete'
  BY DEF HeardUntilComplete, NothingBefore
<1>4. OneAnswer' /\ ReadyWhenTaken'
  BY DEF OneAnswer, ReadyWhenTaken, NothingBefore
<1>5. ResultOutlivesCallbacks'
  BY DEF ResultOutlivesCallbacks, NothingBefore, One
<1>6. ("asker" \in harmed => program = "plugin" /\ told)'
  BY DEF AskerDangles
<1> QED BY <1>1, <1>2, <1>3, <1>4, <1>5, <1>6

LEMMA OfferAnsweredKeeps ==
  ASSUME AskerInv, OfferAnswered
  PROVE  AskerInv'
<1> USE AskerInv DEF AskerInv, OfferAnswered, Complete, Drop
<1>1. AskerTypes'
  BY DEF AskerTypes, HeardUntilComplete, OneAnswer, tubeVars
<1>2. NothingBefore' /\ AskerDangles'
  BY DEF NothingBefore, AskerDangles
<1>3. HeardUntilComplete'
  BY DEF HeardUntilComplete
<1>4. OneAnswer' /\ ReadyWhenTaken'
  BY DEF OneAnswer, ReadyWhenTaken, NothingBefore, HeardUntilComplete, tubeVars
<1>5. ResultOutlivesCallbacks'
  BY DEF ResultOutlivesCallbacks, HeardUntilComplete, One, AskerTypes
<1>6. ("asker" \in harmed => program = "plugin" /\ told)'
  BY DEF AskerDangles
<1> QED BY <1>1, <1>2, <1>3, <1>4, <1>5, <1>6

LEMMA SocketConnectedKeeps ==
  ASSUME AskerInv, SocketConnected
  PROVE  AskerInv'
<1> USE AskerInv DEF AskerInv, SocketConnected, Complete, Drop
<1>1. AskerTypes'
  BY DEF AskerTypes, OneAnswer, tubeVars
<1>2. NothingBefore' /\ AskerDangles'
  BY DEF NothingBefore, AskerDangles
<1>3. HeardUntilComplete'
  BY DEF HeardUntilComplete, AskerTypes
<1>4. OneAnswer' /\ ReadyWhenTaken'
  BY DEF OneAnswer, ReadyWhenTaken, NothingBefore, tubeVars, AskerTypes
<1>5. ResultOutlivesCallbacks'
  BY DEF ResultOutlivesCallbacks, HeardUntilComplete, One, AskerTypes
<1>6. ("asker" \in harmed => program = "plugin" /\ told)'
  BY DEF AskerDangles
<1> QED BY <1>1, <1>2, <1>3, <1>4, <1>5, <1>6

LEMMA InvalidatedKeeps ==
  ASSUME AskerInv, Invalidated
  PROVE  AskerInv'
<1> USE AskerInv DEF AskerInv, Invalidated, Complete, resultVars
<1>1. AskerTypes'
  BY DEF AskerTypes, HeardUntilComplete, OneAnswer, tubeVars
<1>2. NothingBefore' /\ AskerDangles'
  BY DEF NothingBefore, AskerDangles
<1>3. HeardUntilComplete'
  BY DEF HeardUntilComplete
<1>4. OneAnswer' /\ ReadyWhenTaken'
  <2>1. CASE hears /\ program = "jupiter" /\ Complete(TRUE, 0)
    BY <2>1 DEF OneAnswer, ReadyWhenTaken, HeardUntilComplete, tubeVars
  <2>2. CASE UNCHANGED resultVars
    BY <2>2 DEF OneAnswer, ReadyWhenTaken, tubeVars
  <2> QED BY <2>1, <2>2
<1>5. ResultOutlivesCallbacks'
  BY DEF ResultOutlivesCallbacks, HeardUntilComplete, One, AskerTypes
<1>6. ("asker" \in harmed => program = "plugin" /\ told)'
  BY DEF AskerDangles
<1> QED BY <1>1, <1>2, <1>3, <1>4, <1>5, <1>6

LEMMA CreateTubeCbKeeps ==
  ASSUME AskerInv, CreateTubeCb
  PROVE  AskerInv' /\ [Requested!Next]_<<answers, incoming>>
<1> USE AskerInv DEF AskerInv, CreateTubeCb
<1>1. completing = 1 /\ completing' = 0 /\ answers = <<>>
  BY DEF AskerTypes, OneAnswer
<1>2. AskerTypes'
  BY <1>1 DEF AskerTypes, tubeVars
<1>3. stage = "tube" /\ cancelled
  BY <1>1 DEF NothingBefore, OneAnswer
<1>4. NothingBefore' /\ AskerDangles' /\ HeardUntilComplete'
  BY <1>3 DEF NothingBefore, AskerDangles, HeardUntilComplete
<1>5. OneAnswer' /\ ReadyWhenTaken'
  BY <1>1, <1>3 DEF OneAnswer, ReadyWhenTaken
<1>6. ResultOutlivesCallbacks'
  BY <1>1, <1>3 DEF ResultOutlivesCallbacks, HeardUntilComplete, One, AskerTypes
<1>7. ("asker" \in harmed => program = "plugin" /\ told)'
  BY DEF AskerDangles
<1>8. [Requested!Next]_<<answers, incoming>>
  BY <1>1 DEF ReadyWhenTaken, Requested!Next, Requested!Fail, Requested!Ready, tubeVars
<1> QED BY <1>2, <1>4, <1>5, <1>6, <1>7, <1>8

-----------------------------------------------------------------------------
(* What the steps of the other end do to its invariant.                    *)

\* Completing a session harms nobody but itself, and only with a reference that
\* has been given up.
LEMMA SessionCompleteEffect ==
  ASSUME SessionComplete
  PROVE  /\ ~sessionHears' /\ listed' = "gone"
         /\ harmed' = harmed \/ (harmed' = harmed \cup {"session"} /\ listed = "gone")
BY DEF SessionComplete

LEMMA AcceptAnsweredKeeps ==
  ASSUME SessionInv, AcceptAnswered
  PROVE  SessionInv' /\ [Requested!Next]_<<answers, incoming>>
<1> USE SessionInv DEF SessionInv, AcceptAnswered
<1>1. TakenOnce' /\ SpliceEndsOnce'
  BY DEF TakenOnce, SpliceEndsOnce
<1>2. SessionDangles' /\ ("session" \in harmed => sessionTold)'
  BY SessionCompleteEffect DEF SessionDangles
<1>3. [Requested!Next]_<<answers, incoming>>
  BY DEF TakenOnce, Requested!Next, Requested!Take, askerVars
<1> QED BY <1>1, <1>2, <1>3

LEMMA SessionInvalidatedKeeps ==
  ASSUME SessionInv, SessionInvalidated
  PROVE  SessionInv'
<1> USE SessionInv DEF SessionInv, SessionInvalidated, spliceVars
<1>1. TakenOnce' /\ SpliceEndsOnce'
  BY DEF TakenOnce, SpliceEndsOnce
<1>2. SessionDangles' /\ ("session" \in harmed => sessionTold)'
  BY DEF SessionDangles
<1> QED BY <1>1, <1>2

LEMMA HalfEndsKeeps ==
  ASSUME SessionInv, NEW half \in halves, HalfEnds(half)
  PROVE  SessionInv'
<1> USE SessionInv DEF SessionInv, HalfEnds
<1>1. TakenOnce' /\ SpliceEndsOnce'
  BY DEF TakenOnce, SpliceEndsOnce, tubeVars
<1>2. SessionDangles' /\ ("session" \in harmed => sessionTold)'
  BY DEF SessionDangles
<1> QED BY <1>1, <1>2

LEMMA SpliceCbKeeps ==
  ASSUME SessionInv, SpliceCb
  PROVE  SessionInv'
<1> USE SessionInv DEF SessionInv, SpliceCb
<1>1. ending = 1 /\ ending' = 0 /\ session = "spliced" /\ spliceDone
  BY DEF SpliceEndsOnce
<1>2. TakenOnce' /\ SpliceEndsOnce'
  BY <1>1 DEF TakenOnce, SpliceEndsOnce
<1>3. SessionDangles' /\ ("session" \in harmed => sessionTold)'
  BY <1>1, SessionCompleteEffect DEF SessionDangles
<1> QED BY <1>2, <1>3

-----------------------------------------------------------------------------
(* What the steps of one end leave alone at the other.                     *)

\* The asker's steps harm nobody at the other end.
LEMMA AskerLeavesSession ==
  ASSUME SessionInv, AskerNext
  PROVE  SessionInv'
<1>1. UNCHANGED <<sessionVars, incoming>> /\ harmed' \in {harmed, harmed \cup {"asker"}}
  <2>1. CASE Share \/ AccountPrepared \/ ConnectionPrepared
    BY <2>1 DEF Share, AccountPrepared, ConnectionPrepared, ChainUnchanged, tubeVars
  <2>2. CASE CreateChannel
    BY <2>2 DEF CreateChannel, Complete
  <2>3. CASE OfferAnswered
    BY <2>3 DEF OfferAnswered, Complete, Drop, tubeVars
  <2>4. CASE SocketConnected
    BY <2>4 DEF SocketConnected, Complete, Drop, tubeVars
  <2>5. CASE Invalidated
    BY <2>5 DEF Invalidated, Complete, tubeVars
  <2>6. CASE CreateTubeCb
    BY <2>6 DEF CreateTubeCb, tubeVars
  <2> QED BY <2>1, <2>2, <2>3, <2>4, <2>5, <2>6 DEF AskerNext
<1> QED
  BY <1>1 DEF SessionInv, SpliceEndsOnce, SessionDangles, TakenOnce, sessionVars,
              spliceVars

\* The other end's steps harm no asker, and whoever has connected stays so.
LEMMA SessionLeavesAsker ==
  ASSUME AskerInv, UNCHANGED askerVars, incoming => incoming',
         harmed' \in {harmed, harmed \cup {"session"}}
  PROVE  AskerInv'
<1> USE AskerInv DEF AskerInv, askerVars, resultVars
<1>1. AskerTypes' /\ NothingBefore' /\ HeardUntilComplete' /\ OneAnswer'
  BY DEF AskerTypes, NothingBefore, HeardUntilComplete, OneAnswer
<1>2. ReadyWhenTaken' /\ AskerDangles'
  BY DEF ReadyWhenTaken, AskerDangles
<1>3. ResultOutlivesCallbacks'
  BY DEF ResultOutlivesCallbacks, One
<1>4. ("asker" \in harmed => program = "plugin" /\ told)'
  OBVIOUS
<1> QED BY <1>1, <1>2, <1>3, <1>4

-----------------------------------------------------------------------------
(* The setup as a whole.                                                   *)

\* Before anybody asks, nothing is shared and nobody is harmed.
LEMMA SetupInit ==
  Init => SetupInv
BY DEF Init, SetupInv, AskerInv, SessionInv, AskerTypes, NothingBefore,
       HeardUntilComplete, OneAnswer, ReadyWhenTaken, ResultOutlivesCallbacks, One,
       AskerDangles, SpliceEndsOnce, SessionDangles, TakenOnce

\* Every step keeps the invariant, and is one of TubeRequest's or none.
LEMMA SetupStep ==
  ASSUME SetupInv, [Next]_vars
  PROVE  SetupInv' /\ [Requested!Next]_<<answers, incoming>>
<1> USE SetupInv DEF SetupInv
<1>1. CASE AskerNext
  <2>1. SessionInv'
    BY <1>1, AskerLeavesSession
  <2>2. CASE Share \/ AccountPrepared \/ ConnectionPrepared
    BY <2>1, <2>2, ChainKeeps DEF Share, AccountPrepared, ConnectionPrepared
  <2>3. CASE CreateChannel
    BY <2>1, <2>3, CreateChannelKeeps DEF CreateChannel
  <2>4. CASE OfferAnswered
    BY <2>1, <2>4, OfferAnsweredKeeps DEF OfferAnswered, tubeVars
  <2>5. CASE SocketConnected
    BY <2>1, <2>5, SocketConnectedKeeps DEF SocketConnected, tubeVars
  <2>6. CASE Invalidated
    BY <2>1, <2>6, InvalidatedKeeps DEF Invalidated, tubeVars
  <2>7. CASE CreateTubeCb
    BY <2>1, <2>7, CreateTubeCbKeeps
  <2> QED BY <1>1, <2>2, <2>3, <2>4, <2>5, <2>6, <2>7 DEF AskerNext
<1>2. CASE SessionNext
  <2>1. CASE GotChannel
    <3>1. SessionInv'
      BY <2>1 DEF GotChannel, SessionInv, SpliceEndsOnce, SessionDangles, TakenOnce,
                  tubeVars, spliceVars
    <3>2. AskerInv'
      BY <2>1, SessionLeavesAsker DEF GotChannel, tubeVars
    <3> QED BY <2>1, <3>1, <3>2 DEF GotChannel, tubeVars, askerVars
  <2>2. CASE AcceptAnswered
    <3>1. (incoming => incoming') /\ harmed' \in {harmed, harmed \cup {"session"}}
      BY <2>2 DEF AcceptAnswered, SessionComplete, SessionInv, TakenOnce
    <3> QED BY <2>2, <3>1, AcceptAnsweredKeeps, SessionLeavesAsker DEF AcceptAnswered
  <2>3. CASE SessionInvalidated
    <3>1. harmed' \in {harmed, harmed \cup {"session"}}
      BY <2>3 DEF SessionInvalidated, SessionComplete
    <3> QED BY <2>3, <3>1, SessionInvalidatedKeeps, SessionLeavesAsker
            DEF SessionInvalidated, askerVars
  <2>4. CASE \E half \in halves : HalfEnds(half)
    <3>1. PICK half \in halves : HalfEnds(half)
      BY <2>4
    <3> QED BY <3>1, HalfEndsKeeps, SessionLeavesAsker
            DEF HalfEnds, tubeVars, askerVars
  <2>5. CASE SpliceCb
    <3>1. harmed' \in {harmed, harmed \cup {"session"}}
      BY <2>5 DEF SpliceCb, SessionComplete
    <3> QED BY <2>5, <3>1, SpliceCbKeeps, SessionLeavesAsker DEF SpliceCb, askerVars
  <2> QED BY <1>2, <2>1, <2>2, <2>3, <2>4, <2>5 DEF SessionNext
<1>3. CASE OfferArrives \/ TubeCloses \/ UNCHANGED vars
  <2>1. UNCHANGED <<incoming, askerVars, sessionVars, harmed>>
    BY <1>3 DEF OfferArrives, TubeCloses, vars, tubeVars
  <2>2. SessionInv'
    BY <2>1 DEF SessionInv, SpliceEndsOnce, SessionDangles, TakenOnce, sessionVars,
                spliceVars
  <2> QED BY <2>1, <2>2, SessionLeavesAsker DEF askerVars
<1> QED BY <1>1, <1>2, <1>3 DEF Next

\* The result lives as long as its callbacks and every harm is explained, in
\* every state of the setup.
THEOREM SetupInvariance == Spec => []SetupInv
<1>1. SetupInv /\ [Next]_vars => SetupInv'
  BY SetupStep
<1> QED BY <1>1, SetupInit, PTL DEF Spec

\* The result is freed with the last of its callbacks and not before: no callback
\* of the chain of create_tube finds it gone, whatever Telepathy answers and when.
THEOREM ResultOutlives == Spec => []ResultOutlivesCallbacks
<1>1. SetupInv => ResultOutlivesCallbacks
  BY DEF SetupInv, AskerInv
<1> QED BY <1>1, SetupInvariance, PTL

\* A channel that has been given up is used only by the plugin, and only after its
\* invalidation before the answer, or before the session was over.
THEOREM HarmExplained == Spec => []OnlyInvalidationHarms
<1>1. SetupInv => OnlyInvalidationHarms
  BY DEF SetupInv, AskerInv, SessionInv, OnlyInvalidationHarms
<1> QED BY <1>1, SetupInvariance, PTL

\* The requester is answered at most once, and told that the tube is ready only
\* when somebody has connected: the setup implements TubeRequest.
THEOREM RequestImplemented == Spec => ImplementsRequest
<1>1. Init => Requested!Init
  BY DEF Init, Requested!Init
<1>2. SetupInv /\ [Next]_vars => [Requested!Next]_(Requested!vars)
  BY SetupStep DEF Requested!vars
<1> QED
  BY <1>1, <1>2, SetupInvariance, PTL DEF Spec, ImplementsRequest, Requested!Spec

-----------------------------------------------------------------------------
(* The types of the setup.                                                 *)

\* The types of what the counts of the invariant do not bound.
PlainTypes ==
  /\ tube \in {"none", "made", "offered", "connected", "closed"}
  /\ receiver \in Receivers /\ program \in Programs
  /\ stage \in {"share", "account", "connection", "channel", "tube", "over"}
  /\ {incoming, cancelled, failed, hears, told, sessionHears, sessionTold,
      spliceDone, stopping} \subseteq BOOLEAN
  /\ {channel, listed} \subseteq {"none", "held", "gone"}
  /\ answers \in Seq({"ready", "failed"})
  /\ session \in {"none", "accepting", "spliced", "over"}
  /\ halves \subseteq {"to relay", "to tube"}
  /\ harmed \subseteq {"asker", "session"}

LEMMA CountsBounded ==
  ASSUME PlainTypes, SetupInv
  PROVE  SetupTypeOK
<1>1. simple \in 0 .. 3 /\ completing \in 0 .. 3 /\ ending \in 0 .. 3
  <2>1. completing \in {0, 1} /\ ending \in {0, 1}
    BY DEF SetupInv, AskerInv, AskerTypes, SessionInv, SpliceEndsOnce
  <2>2. \A c \in BOOLEAN : One(c) \in {0, 1}
    BY DEF One
  <2>3. simple = One(stage = "channel") + One(accepting = "pending")
                   + One(offering = "pending") + completing
    BY DEF SetupInv, AskerInv, ResultOutlivesCallbacks
  <2>4. stage = "channel" => One(accepting = "pending") = 0 
                             /\ One(offering = "pending") = 0
    BY DEF SetupInv, AskerInv, NothingBefore, One
  <2>5. One(stage = "channel") \in {0, 1} /\ One(accepting = "pending") \in {0, 1}
        /\ One(offering = "pending") \in {0, 1}
    BY <2>2
  <2>6. stage # "channel" => One(stage = "channel") = 0
    BY DEF One
  <2> QED BY <2>1, <2>3, <2>4, <2>5, <2>6
<1> QED BY <1>1 DEF PlainTypes, SetupTypeOK, SetupInv, AskerInv, AskerTypes

LEMMA TypesBegin == Init => PlainTypes
<1> SUFFICES ASSUME Init PROVE PlainTypes
  OBVIOUS
<1>1. answers \in Seq({"ready", "failed"})
  BY DEF Init
<1>2. halves \subseteq {"to relay", "to tube"} /\ harmed \subseteq {"asker", "session"}
  BY DEF Init
<1> QED BY <1>1, <1>2, Zenon DEF Init, PlainTypes

LEMMA Answered ==
  ASSUME NEW s \in Seq({"ready", "failed"}), NEW answer \in {"ready", "failed"}
  PROVE  Append(s, answer) \in Seq({"ready", "failed"})
OBVIOUS

LEMMA TypesStep ==
  ASSUME PlainTypes, SetupInv, [Next]_vars
  PROVE  PlainTypes'
<1> USE DEF PlainTypes, tubeVars, resultVars, askerVars, spliceVars, sessionVars
<1>1. ASSUME NEW next \in {"account", "connection", "channel"}, GoOnTo(next), ChainUnchanged
      PROVE  PlainTypes'
  BY <1>1, Answered DEF GoOnTo, ChainUnchanged
<1>2. CASE CreateChannel
  BY <1>2 DEF CreateChannel, Complete
<1>3. CASE OfferAnswered
  BY <1>3 DEF OfferAnswered, Complete, Drop
<1>4. CASE SocketConnected
  BY <1>4 DEF SocketConnected, Complete, Drop
<1>5. CASE Invalidated
  BY <1>5 DEF Invalidated, Complete
<1>6. CASE CreateTubeCb
  BY <1>6, Answered DEF CreateTubeCb
<1>7. CASE GotChannel \/ AcceptAnswered \/ SessionInvalidated
  BY <1>7 DEF GotChannel, AcceptAnswered, SessionInvalidated, SessionComplete
<1>8. ASSUME NEW half, HalfEnds(half) PROVE PlainTypes'
  BY <1>8 DEF HalfEnds
<1>9. CASE SpliceCb \/ OfferArrives \/ TubeCloses
  BY <1>9 DEF SpliceCb, SessionComplete, OfferArrives, TubeCloses
<1>10. CASE UNCHANGED vars
  BY <1>10 DEF vars
<1>11. CASE Share \/ AccountPrepared \/ ConnectionPrepared
  BY <1>1, <1>11 DEF Share, AccountPrepared, ConnectionPrepared
<1> QED BY <1>2, <1>3, <1>4, <1>5, <1>6, <1>7, <1>8, <1>9, <1>10, <1>11
     DEF Next, AskerNext, SessionNext

\* Every variable has its type; that the references are at most three follows from
\* who holds one.
THEOREM SetupTypes == Spec => []SetupTypeOK
<1>1. SetupInv /\ PlainTypes /\ [Next]_vars => PlainTypes'
  BY TypesStep
<1>2. SetupInv /\ PlainTypes => SetupTypeOK
  BY CountsBounded
<1> QED BY <1>1, <1>2, TypesBegin, SetupInvariance, PTL DEF Spec

-----------------------------------------------------------------------------
(* The search: its counters, and what is still to come.                    *)

SearchPrograms == {IF p = "plugin" THEN "connector" ELSE p : p \in Programs}

LEMMA SameCardinality == \A S : Search!Cardinality(S) = Cardinality(S)
BY DEF Search!Cardinality, Cardinality

\* No account's chain of callbacks has begun.
NoChains == step = [a \in Accounts |-> "none"] /\ n_pending = 0

\* The chains begin together, when no connection is being prepared any more.
ChainsAfterConnections ==
  /\ manager = "pending" => preparing = {} /\ NoChains
  /\ preparing # {} => NoChains

\* The counters count what is to come.
ConnectionsCounted == n_readying = Cardinality(preparing)
ChainsCounted ==
  Search!Running => n_pending = Cardinality(Search!Waiting) + Cardinality(Search!Lost)

\* The context goes with the call that ends the list, and nobody is left then.
FreedAtTheEnd ==
  /\ context = "freed" =>
       preparing \cup Search!Waiting \cup Search!Lost = {} /\ manager # "pending"
  /\ context = "freed" \/ ended = 0

SearchInv ==
  /\ preparing \subseteq Accounts /\ accounts \subseteq Accounts
  /\ step \in [Accounts -> Search!Steps]
  /\ n_pending \in Int
  /\ ChainsAfterConnections /\ ConnectionsCounted /\ ChainsCounted /\ FreedAtTheEnd

\* Without chains nobody waits and nobody is lost.
LEMMA NobodyWaits ==
  ASSUME NoChains
  PROVE  Search!Waiting = {} /\ Search!Lost = {}
BY DEF NoChains, Search!Waiting, Search!Lost

LEMMA SearchInit ==
  ASSUME IsFiniteSet(Accounts), Search!Init
  PROVE  SearchInv
<1>1. NoChains
  BY DEF Search!Init, NoChains
<1>2. Search!Waiting = {} /\ Search!Lost = {}
  BY <1>1, NobodyWaits
<1> QED
  BY <1>1, <1>2, FS_EmptySet
     DEF Search!Init, SearchInv, Search!Steps, ChainsAfterConnections,
        ConnectionsCounted,
         ChainsCounted, FreedAtTheEnd, NoChains

\* The counters are natural numbers, and zero only when nobody is counted.
LEMMA Counts ==
  ASSUME IsFiniteSet(Accounts), preparing \subseteq Accounts
  PROVE  /\ IsFiniteSet(preparing)
         /\ IsFiniteSet(Search!Waiting) /\ IsFiniteSet(Search!Lost)
         /\ Cardinality(preparing) \in Nat
         /\ Cardinality(Search!Waiting) \in Nat /\ Cardinality(Search!Lost) \in Nat
<1>1. Search!Waiting \subseteq Accounts /\ Search!Lost \subseteq Accounts
  BY DEF Search!Waiting, Search!Lost
<1> QED BY <1>1, FS_Subset, FS_CardinalityType

-----------------------------------------------------------------------------
(* The chains begin.                                                       *)

\* Asking for the channels of some accounts counts each of them.
LEMMA AskCounts ==
  ASSUME IsFiniteSet(Accounts), NoChains, NEW who \in SUBSET Accounts, Search!Ask(who)
  PROVE  /\ step' \in [Accounts -> Search!Steps] /\ n_pending' \in Int
         /\ ChainsCounted'
<1>1. Search!Waiting' = who /\ Search!Lost' = {}
  BY DEF NoChains, Search!Ask, Search!Waiting, Search!Lost
<1>2. Cardinality(who) \in Nat /\ Cardinality({}) = 0
  BY FS_Subset, FS_CardinalityType, FS_EmptySet
<1> QED BY <1>1, <1>2, SameCardinality DEF NoChains, Search!Ask, ChainsCounted, Search!Steps

\* What goes on when all connections are ready, or none is needed.
LEMMA AllReadyCounts ==
  ASSUME IsFiniteSet(Accounts), NoChains, NEW candidates \in SUBSET Accounts,
         Search!AllReady(candidates)
  PROVE  /\ step' \in [Accounts -> Search!Steps] /\ n_pending' \in Int
         /\ ChainsCounted'
<1>1. CASE \E who \in SUBSET Accounts : Search!Ask(who)
  BY <1>1, AskCounts
<1>2. CASE outcome' # "none" /\ UNCHANGED Search!chainVars
  BY <1>2 DEF NoChains, ChainsCounted, Search!Running, Search!chainVars, Search!Steps
<1>3. Search!ThrowError \/ Search!StartTube
        => outcome' # "none" /\ UNCHANGED Search!chainVars
  BY DEF Search!ThrowError, Search!StartTube
<1>4. \A a \in candidates : Search!ChooserContact(a) =>
        Search!StartTube \/ \E who \in SUBSET Accounts : Search!Ask(who)
  BY DEF Search!ChooserContact
<1> QED
  BY <1>1, <1>2, <1>3, <1>4 DEF Search!AllReady, Search!ChooserAccount

\* Before the chains, only these conjuncts can be disturbed.
LEMMA ChainsBegin ==
  ASSUME IsFiniteSet(Accounts), SearchInv, NoChains,
         preparing' \subseteq Accounts, accounts' \subseteq Accounts,
         n_readying' = Cardinality(preparing'),
         manager' # "pending", UNCHANGED <<context, reported, ended>>,
         context # "freed",
         \/ UNCHANGED <<Search!chainVars, outcome>>
         \/ (UNCHANGED Search!chainVars /\ outcome' # "none")
         \/ preparing' = {} /\ Search!AllReady(accounts')
  PROVE  SearchInv' /\ [Search!List!Report]_<<reported, ended>>
<1>1. step' \in [Accounts -> Search!Steps] /\ n_pending' \in Int /\ ChainsCounted'
  <2>1. CASE UNCHANGED <<Search!chainVars, outcome>>
    BY <2>1 DEF SearchInv, ChainsCounted, Search!Running, Search!Waiting,
       Search!Lost, Search!chainVars
  <2>2. CASE UNCHANGED Search!chainVars /\ outcome' # "none"
    BY <2>2 DEF SearchInv, ChainsCounted, Search!Running, Search!chainVars
  <2>3. CASE Search!AllReady(accounts')
    BY <2>3, AllReadyCounts
  <2> QED BY <2>1, <2>2, <2>3
<1>2. ChainsAfterConnections'
  BY DEF ChainsAfterConnections, NoChains, Search!chainVars
<1> QED BY <1>1, <1>2 DEF SearchInv, ConnectionsCounted, FreedAtTheEnd

LEMMA ManagerPreparedKeeps ==
  ASSUME IsFiniteSet(Accounts), SearchInv, Search!ManagerPrepared
  PROVE  SearchInv' /\ [Search!List!Report]_<<reported, ended>>
<1>1. NoChains /\ preparing = {} /\ context # "freed"
  BY DEF Search!ManagerPrepared, SearchInv, ChainsAfterConnections, FreedAtTheEnd
<1>2. CASE manager' = "failed"
  <2>1. preparing' = {} /\ n_readying' = Cardinality({}) /\ accounts' \subseteq Accounts
    BY <1>1, <1>2 DEF Search!ManagerPrepared, Search!searchVars, SearchInv,
       ConnectionsCounted
  <2>2. \/ UNCHANGED <<Search!chainVars, outcome>>
        \/ (UNCHANGED Search!chainVars /\ outcome' # "none")
    BY <1>2 DEF Search!ManagerPrepared, Search!ThrowError
  <2> QED BY <1>1, <1>2, <2>1, <2>2, ChainsBegin DEF Search!ManagerPrepared
<1>3. CASE manager' = "prepared"
  <2>1. /\ preparing' \subseteq Accounts /\ accounts' \subseteq Accounts
        /\ n_readying' = Cardinality(preparing')
    BY <1>3, SameCardinality DEF Search!ManagerPrepared
  <2>2. \/ UNCHANGED <<Search!chainVars, outcome>>
        \/ (UNCHANGED Search!chainVars /\ outcome' # "none")
    BY <1>3 DEF Search!ManagerPrepared, Search!ChooserAccount, Search!ThrowError
  <2> QED BY <1>1, <1>3, <2>1, <2>2, ChainsBegin DEF Search!ManagerPrepared
<1> QED BY <1>2, <1>3 DEF Search!ManagerPrepared

LEMMA AccountPreparedKeeps ==
  ASSUME IsFiniteSet(Accounts), SearchInv, Search!AccountPrepared
  PROVE  SearchInv' /\ [Search!List!Report]_<<reported, ended>>
<1>1. NoChains /\ preparing = {} /\ context # "freed"
  BY DEF Search!AccountPrepared, SearchInv, ChainsAfterConnections, FreedAtTheEnd
<1>2. \A a : Cardinality({a}) = 1
  BY FS_EmptySet, FS_AddElement, SMTT(30)
<1>3. /\ preparing' \subseteq Accounts /\ accounts' \subseteq Accounts
      /\ n_readying' = Cardinality(preparing')
  BY <1>2 DEF Search!AccountPrepared, Search!searchVars, SearchInv, ConnectionsCounted
<1>4. \/ UNCHANGED <<Search!chainVars, outcome>>
      \/ (UNCHANGED Search!chainVars /\ outcome' # "none")
  BY DEF Search!AccountPrepared, Search!ThrowError
<1> QED BY <1>1, <1>3, <1>4, ChainsBegin DEF Search!AccountPrepared

LEMMA ConnectionPreparedKeeps ==
  ASSUME IsFiniteSet(Accounts), SearchInv, NEW a \in Accounts, Search!ConnectionPrepared(a)
  PROVE  SearchInv' /\ [Search!List!Report]_<<reported, ended>>
<1>1. NoChains /\ manager # "pending" /\ context # "freed"
  BY DEF Search!ConnectionPrepared, SearchInv, ChainsAfterConnections, FreedAtTheEnd
<1>2. /\ preparing' \subseteq Accounts /\ accounts' \subseteq Accounts
      /\ IsFiniteSet(preparing) /\ IsFiniteSet(preparing')
  BY FS_Subset DEF Search!ConnectionPrepared, SearchInv
<1>3. n_readying' = Cardinality(preparing')
  BY <1>2, FS_RemoveElement DEF Search!ConnectionPrepared, SearchInv, ConnectionsCounted
<1>4. n_readying' = 0 => preparing' = {}
  BY <1>2, <1>3, FS_EmptySet
<1>5. \/ UNCHANGED <<Search!chainVars, outcome>>
      \/ (preparing' = {} /\ Search!AllReady(accounts'))
  BY <1>4 DEF Search!ConnectionPrepared
<1> QED BY <1>1, <1>2, <1>3, <1>5, ChainsBegin DEF Search!ConnectionPrepared

-----------------------------------------------------------------------------
(* The chains go on.                                                       *)

\* An account that has begun its chain waits, so that nothing is prepared and the
\* context is there.
LEMMA WaitingIsLate ==
  ASSUME SearchInv, NEW a \in Search!Waiting
  PROVE  manager # "pending" /\ preparing = {} /\ context # "freed"
<1>1. ~NoChains
  BY NobodyWaits
<1> QED BY <1>1 DEF SearchInv, ChainsAfterConnections, FreedAtTheEnd

\* A step within the chain: whoever waits goes on waiting or is lost, and is
\* counted as before.
LEMMA ChainGoesOn ==
  ASSUME IsFiniteSet(Accounts), SearchInv, NEW a \in Search!Waiting,
         UNCHANGED <<manager, Search!searchVars, context, reported, ended>>,
         \/ (UNCHANGED Search!chainVars /\ outcome' # "none")
         \/ /\ \E next \in {"prepare", "contacts", "lost"} :
                 step' = [step EXCEPT ![a] = next]
            /\ UNCHANGED <<n_pending, outcome>>
  PROVE  SearchInv' /\ [Search!List!Report]_<<reported, ended>>
<1>1. manager # "pending" /\ preparing = {} /\ context # "freed" /\ a \in Accounts
  BY WaitingIsLate DEF Search!Waiting
<1>2. step' \in [Accounts -> Search!Steps] /\ n_pending' \in Int
  BY <1>1 DEF SearchInv, Search!Steps, Search!chainVars
<1>3. ChainsCounted'
  <2>1. CASE outcome' # "none"
    BY <2>1 DEF ChainsCounted, Search!Running
  <2>2. CASE \E next \in {"prepare", "contacts"} :
               step' = [step EXCEPT ![a] = next] /\ UNCHANGED <<n_pending, outcome>>
    <3>1. Search!Waiting' = Search!Waiting /\ Search!Lost' = Search!Lost
      BY <2>2, <1>1 DEF Search!Waiting, Search!Lost, SearchInv
    <3> QED BY <2>2, <3>1 DEF SearchInv, ChainsCounted, Search!Running
  <2>3. CASE step' = [step EXCEPT ![a] = "lost"] /\ UNCHANGED <<n_pending, outcome>>
    <3>1. /\ Search!Waiting' = Search!Waiting \ {a}
          /\ Search!Lost' = Search!Lost \cup {a} /\ a \notin Search!Lost
      BY <2>3, <1>1 DEF Search!Waiting, Search!Lost, SearchInv
    <3>2. /\ Cardinality(Search!Waiting') = Cardinality(Search!Waiting) - 1
          /\ Cardinality(Search!Lost') = Cardinality(Search!Lost) + 1
      BY <3>1, Counts, FS_AddElement, FS_RemoveElement DEF SearchInv
    <3>3. Cardinality(Search!Waiting) \in Nat /\ Cardinality(Search!Lost) \in Nat
      BY Counts DEF SearchInv
    <3> QED BY <2>3, <3>2, <3>3 DEF SearchInv, ChainsCounted, Search!Running
  <2> QED BY <2>1, <2>2, <2>3
<1> QED
  BY <1>1, <1>2, <1>3
     DEF SearchInv, ChainsAfterConnections, ConnectionsCounted, FreedAtTheEnd,
        Search!searchVars

\* The contacts of an account: it leaves the count, and the last one frees the
\* context and ends the list.
LEMMA ReportCounts ==
  ASSUME IsFiniteSet(Accounts), SearchInv, Search!Running, NEW a \in Search!Waiting,
         UNCHANGED <<manager, Search!searchVars>>,
         NEW able \in SUBSET Contacts, Search!ReportContacts(a, able)
  PROVE  SearchInv' /\ [Search!List!Report]_<<reported, ended>>
<1>1. manager # "pending" /\ preparing = {} /\ context # "freed" /\ a \in Accounts
  BY WaitingIsLate DEF Search!Waiting
<1>2. Search!Waiting' = Search!Waiting \ {a} /\ Search!Lost' = Search!Lost
  BY <1>1 DEF Search!Waiting, Search!Lost, SearchInv, Search!ReportContacts
<1>3. /\ IsFiniteSet(Search!Waiting') /\ IsFiniteSet(Search!Lost)
      /\ Cardinality(Search!Waiting) \in Nat /\ Cardinality(Search!Lost) \in Nat
      /\ Cardinality(Search!Waiting') = Cardinality(Search!Waiting) - 1
      /\ Cardinality(Search!Waiting') \in Nat
  BY <1>2, Counts, FS_RemoveElement, FS_CardinalityType DEF SearchInv
<1>4. n_pending' = Cardinality(Search!Waiting') + Cardinality(Search!Lost')
  BY <1>2, <1>3 DEF Search!ReportContacts, SearchInv, ChainsCounted
<1>5. n_pending' = 0 => Search!Waiting' = {} /\ Search!Lost' = {}
  BY <1>2, <1>3, <1>4, FS_EmptySet
<1>6. step' \in [Accounts -> Search!Steps] /\ n_pending' \in Int
  BY <1>1, <1>2, <1>3, <1>4 DEF Search!ReportContacts, SearchInv, Search!Steps
<1>7. FreedAtTheEnd'
  BY <1>1, <1>5 DEF Search!ReportContacts, SearchInv, FreedAtTheEnd, Search!searchVars
<1>8. [Search!List!Report]_<<reported, ended>>
  BY <1>1 DEF Search!ReportContacts, SearchInv, FreedAtTheEnd, Search!List!Report
<1> QED
  BY <1>1, <1>4, <1>6, <1>7, <1>8
     DEF SearchInv, ChainsAfterConnections, ConnectionsCounted, ChainsCounted,
        Search!searchVars

-----------------------------------------------------------------------------
(* The search as a whole.                                                  *)

LEMMA SearchStep ==
  ASSUME IsFiniteSet(Accounts), SearchInv, [Search!Next]_(Search!vars)
  PROVE  SearchInv' /\ [Search!List!Report]_<<reported, ended>>
<1>1. CASE Search!ManagerPrepared
  BY <1>1, ManagerPreparedKeeps
<1>2. CASE Search!AccountPrepared
  BY <1>2, AccountPreparedKeeps
<1>3. CASE \E a \in Accounts : Search!ConnectionPrepared(a)
  BY <1>3, ConnectionPreparedKeeps
<1>4. ASSUME NEW a \in Accounts, Search!StoredChannelEnsured(a)
      PROVE  SearchInv' /\ [Search!List!Report]_<<reported, ended>>
  <2>1. a \in Search!Waiting
    BY <1>4 DEF Search!StoredChannelEnsured, Search!Waiting
  <2> QED
    BY <1>4, <2>1, ChainGoesOn DEF Search!StoredChannelEnsured, Search!Lose,
       Search!ThrowError, Search!ChainUnchanged
<1>5. ASSUME NEW a \in Accounts, Search!StoredChannelPrepared(a)
      PROVE  SearchInv' /\ [Search!List!Report]_<<reported, ended>>
  <2>1. a \in Search!Waiting
    BY <1>5 DEF Search!StoredChannelPrepared, Search!Waiting
  <2> QED
    BY <1>5, <2>1, ChainGoesOn
       DEF Search!StoredChannelPrepared, Search!Lose, Search!ThrowError,
          Search!ChainUnchanged
<1>6. ASSUME NEW a \in Accounts, Search!GotContacts(a)
      PROVE  SearchInv' /\ [Search!List!Report]_<<reported, ended>>
  <2>1. a \in Search!Waiting /\ Search!Running
    BY <1>6 DEF Search!GotContacts, Search!Waiting
  <2>2. CASE Search!Lose(a) /\ UNCHANGED <<reported, ended, context>>
    BY <1>6, <2>1, <2>2, ChainGoesOn DEF Search!GotContacts, Search!Lose,
       Search!ThrowError
  <2>3. CASE \E able \in SUBSET Contacts : Search!ReportContacts(a, able)
    BY <1>6, <2>1, <2>3, ReportCounts DEF Search!GotContacts
  <2>4. CASE \E able \in SUBSET Contacts : Search!ChooseContact(able)
    BY <1>6, <2>1, <2>4, ChainGoesOn DEF Search!GotContacts, Search!ChooseContact,
       Search!ThrowError, Search!StartTube
  <2> QED BY <1>6, <2>2, <2>3, <2>4 DEF Search!GotContacts
<1>7. CASE UNCHANGED Search!vars
  BY <1>7
     DEF Search!vars, Search!searchVars, Search!chainVars, SearchInv,
        ChainsAfterConnections, NoChains,
         ConnectionsCounted, ChainsCounted, Search!Running, FreedAtTheEnd,
         Search!Waiting, Search!Lost
<1> QED BY <1>1, <1>2, <1>3, <1>4, <1>5, <1>6, <1>7 DEF Search!Next

\* The counters of the search are right in every state of it.
THEOREM SearchInvariance ==
  ASSUME IsFiniteSet(Accounts)
  PROVE  Search!Spec => []SearchInv
<1>1. Search!Init => SearchInv
  BY SearchInit
<1>2. SearchInv /\ [Search!Next]_(Search!vars) => SearchInv'
  BY SearchStep
<1> QED BY <1>1, <1>2, PTL DEF Search!Spec

\* The context of list_contacts is freed only when no callback will use it any
\* more, however many accounts there are, and whichever of them fail.
THEOREM ContextOutlives ==
  IsFiniteSet(Accounts) => (Search!Spec => []Search!ContextOutlivesCallbacks)
<1> SUFFICES ASSUME IsFiniteSet(Accounts)
             PROVE  Search!Spec => []Search!ContextOutlivesCallbacks
  OBVIOUS
<1>1. SearchInv => Search!ContextOutlivesCallbacks
  BY SameCardinality DEF SearchInv, ConnectionsCounted, ChainsCounted, FreedAtTheEnd,
         Search!ContextOutlivesCallbacks
<1> QED BY <1>1, SearchInvariance, PTL

\* The callback of list_contacts is called with contacts, then once without, then
\* no more: the search implements ContactList.
THEOREM ListImplemented ==
  IsFiniteSet(Accounts) => (Search!Spec => Search!ImplementsList)
<1> SUFFICES ASSUME IsFiniteSet(Accounts)
             PROVE  Search!Spec => Search!ImplementsList
  OBVIOUS
<1>1. Search!Init => Search!List!Init
  BY DEF Search!Init, Search!List!Init
<1>2. SearchInv /\ [Search!Next]_(Search!vars) => [Search!List!Report]_(Search!List!vars)
  BY SearchStep DEF Search!List!vars
<1> QED
  BY <1>1, <1>2, SearchInvariance, PTL DEF Search!Spec, Search!ImplementsList,
     Search!List!Spec

-----------------------------------------------------------------------------
(* The types of the search.                                                *)

\* The counts stay within the number of accounts, also after the end.
Bounded ==
  /\ searcher \in SearchPrograms
  /\ manager \in {"pending", "prepared", "failed"}
  /\ n_pending \in 0 .. Cardinality(Accounts)
  /\ ended \in 0 .. Cardinality(Accounts)
  /\ context \in {"live", "freed"}
  /\ reported \subseteq Accounts \X Contacts
  /\ outcome \in {"none", "error", "tube", "crash"}

\* Nobody is counted twice.
LEMMA CountsFit ==
  ASSUME IsFiniteSet(Accounts), NEW W \in SUBSET Accounts, NEW L \in SUBSET Accounts,
         W \cap L = {}
  PROVE  Cardinality(W) + Cardinality(L) \in 0 .. Cardinality(Accounts)
<1>1. /\ IsFiniteSet(W) /\ IsFiniteSet(L)
      /\ Cardinality(W) \in Nat /\ Cardinality(L) \in Nat
      /\ Cardinality(Accounts) \in Nat
  BY FS_Subset, FS_CardinalityType
<1>2. Cardinality({}) = 0
  BY FS_EmptySet
<1>3. Cardinality(W \cup L) = Cardinality(W) + Cardinality(L) - Cardinality(W \cap L)
  BY <1>1, FS_Union
<1>4. Cardinality(W \cap L) = 0
  BY <1>2
<1>5. Cardinality(W \cup L) <= Cardinality(Accounts)
  BY FS_Subset
<1> DEFINE m == Cardinality(W)
           n == Cardinality(L)
           k == Cardinality(Accounts)
<1>6. m \in Nat /\ n \in Nat /\ k \in Nat /\ m + n <= k
  BY <1>1, <1>3, <1>4, <1>5
<1> HIDE DEF m, n, k
<1>7. m + n \in 0 .. k
  BY <1>6
<1> QED BY <1>7 DEF m, n, k

\* Whoever ends the search leaves the count of the accounts that wait alone, and
\* the list is ended once, for somebody.
LEMMA BoundedStep ==
  ASSUME IsFiniteSet(Accounts), SearchInv, Bounded, [Search!Next]_(Search!vars)
  PROVE  Bounded'
<1>1. SearchInv' /\ Cardinality(Accounts) \in Nat
  BY SearchStep, FS_CardinalityType
<1>2. n_pending' \in 0 .. Cardinality(Accounts)
  <2>1. CASE outcome' = "none"
    <3>1. n_pending' = Cardinality(Search!Waiting') + Cardinality(Search!Lost')
      BY <1>1, <2>1 DEF SearchInv, ChainsCounted, Search!Running
    <3>2. Cardinality(Search!Waiting') + Cardinality(Search!Lost') \in 0 .. Cardinality(Accounts)
      <4>1. /\ Search!Waiting' \subseteq Accounts /\ Search!Lost' \subseteq Accounts
            /\ Search!Waiting' \cap Search!Lost' = {}
        BY DEF Search!Waiting, Search!Lost
      <4> QED BY <4>1, CountsFit
    <3> QED BY <3>1, <3>2
  <2>2. CASE outcome' # "none"
    <3>1. UNCHANGED n_pending
      BY <2>2 DEF Search!Next, Search!ManagerPrepared, Search!AccountPrepared,
         Search!ConnectionPrepared,
         Search!StoredChannelEnsured, Search!StoredChannelPrepared,
         Search!GotContacts, Search!AllReady, Search!ChooserAccount,
         Search!ChooserContact, Search!Ask, Search!StartTube, Search!ThrowError,
         Search!Lose, Search!ReportContacts, Search!ChooseContact,
         Search!chainVars, Search!ChainUnchanged, Search!Running, Search!vars
    <3> QED BY <3>1 DEF Bounded
  <2> QED BY <2>1, <2>2
<1>3. ended' \in 0 .. Cardinality(Accounts)
  <2>1. CASE UNCHANGED ended
    BY <2>1 DEF Bounded
  <2>2. ASSUME NEW a \in Accounts, Search!GotContacts(a), ended' = ended + 1
        PROVE  ended' \in 0 .. Cardinality(Accounts)
    <3>1. ended = 0
      BY <2>2, WaitingIsLate DEF Search!GotContacts, Search!Waiting, SearchInv,
         FreedAtTheEnd
    <3>2. Cardinality(Accounts) # 0
      BY <2>2, FS_EmptySet
    <3> QED BY <1>1, <2>2, <3>1, <3>2
  <2> QED BY <2>1, <2>2 DEF Search!Next, Search!ManagerPrepared,
     Search!AccountPrepared, Search!ConnectionPrepared,
       Search!StoredChannelEnsured, Search!StoredChannelPrepared, Search!GotContacts,
       Search!ReportContacts,
       Search!ChooseContact, Search!ChainUnchanged, Search!vars
<1>4. outcome' \in {"none", "error", "tube", "crash"} /\ context' \in {"live", "freed"}
  BY DEF Bounded, Search!Next, Search!ManagerPrepared, Search!AccountPrepared,
     Search!ConnectionPrepared,
     Search!StoredChannelEnsured, Search!StoredChannelPrepared, Search!GotContacts,
     Search!AllReady, Search!ChooserAccount,
     Search!ChooserContact, Search!Ask, Search!StartTube, Search!ThrowError,
     Search!Lose, Search!ReportContacts, Search!ChooseContact,
     Search!ChainUnchanged, Search!vars
<1>5. /\ searcher' \in SearchPrograms /\ manager' \in {"pending", "prepared", "failed"}
      /\ reported' \subseteq Accounts \X Contacts
  BY DEF Bounded, Search!Next, Search!ManagerPrepared, Search!AccountPrepared,
     Search!ConnectionPrepared,
     Search!StoredChannelEnsured, Search!StoredChannelPrepared, Search!GotContacts,
     Search!ReportContacts,
     Search!ChooseContact, Search!ChainUnchanged, Search!vars
<1> QED BY <1>2, <1>3, <1>4, <1>5 DEF Bounded

\* Every variable of the search has its type: no counter passes the number of
\* accounts, and the list ends at most once.
THEOREM SearchTypes == IsFiniteSet(Accounts) => (Search!Spec => []Search!SearchTypeOK)
<1> SUFFICES ASSUME IsFiniteSet(Accounts) PROVE Search!Spec => []Search!SearchTypeOK
  OBVIOUS
<1>1. Search!Init => Bounded
  BY FS_CardinalityType DEF Search!Init, Bounded, SearchPrograms
<1>2. SearchInv /\ Bounded /\ [Search!Next]_(Search!vars) => Bounded'
  BY BoundedStep
<1>3. SearchInv /\ Bounded => Search!SearchTypeOK
  <2> SUFFICES ASSUME SearchInv, Bounded PROVE Search!SearchTypeOK
    OBVIOUS
  <2>1. n_readying \in 0 .. Cardinality(Accounts)
    BY FS_Subset, FS_CardinalityType DEF SearchInv, ConnectionsCounted
  <2> QED BY <2>1, SameCardinality
      DEF SearchInv, Bounded, SearchPrograms, Search!SearchTypeOK, Search!Steps
<1> QED BY <1>1, <1>2, <1>3, SearchInvariance, PTL DEF Search!Spec

-----------------------------------------------------------------------------
(* The whole.                                                              *)

\* The composition takes no step that the setup does not know.
LEMMA SetsUp == RendezvousSpec => Spec
<1>1. RendezvousInit => Init
  BY DEF RendezvousInit
<1>2. [RendezvousNext]_rendezvousVars => [Next]_vars
  BY DEF RendezvousNext, Begin, GoOn, Setup, Look, Next, AskerNext, rendezvousVars
<1> QED BY <1>1, <1>2, PTL DEF RendezvousSpec, Spec

\* The result of the request lives exactly as long as one of its callbacks will use
\* it, whoever has looked for whom: the setup's half of SharedOutlivesCallbacks.
THEOREM ResultKept == RendezvousSpec => []ResultOutlivesCallbacks
BY SetsUp, ResultOutlives, PTL

\* A channel is used after it has been given up only by the plugin, and only after
\* its invalidation, before the answer or before the session was over.
THEOREM OnlyInvalidation == RendezvousSpec => []OnlyInvalidationHarms
BY SetsUp, HarmExplained, PTL

\* A request is answered at most once, and answered that the tube is ready only when
\* somebody has connected, in the whole as in the setup.
THEOREM RequestKept == RendezvousSpec => ImplementsRequest
BY SetsUp, RequestImplemented, PTL

\* And no step that the search does not know.
LEMMA Searches == RendezvousSpec => Search!Spec
<1>1. RendezvousInit => Search!Init
  BY DEF RendezvousInit
<1>2. [RendezvousNext]_rendezvousVars => [Search!Next]_(Search!vars)
  BY DEF RendezvousNext, Begin, GoOn, Setup, Look, rendezvousVars, searchVars,
     Search!vars, Search!searchVars, Search!chainVars
<1> QED BY <1>1, <1>2, PTL DEF RendezvousSpec, Search!Spec

\* What callbacks share, the result of the setup and the context of the search,
\* lives exactly as long as one of them will still use it, in the whole.
THEOREM SharedKept == RendezvousSpec => []SharedOutlivesCallbacks
<1>1. ResultOutlivesCallbacks /\ Search!ContextOutlivesCallbacks => SharedOutlivesCallbacks
  BY DEF SharedOutlivesCallbacks
<1> QED BY <1>1, RendezvousAssumption, ContextOutlives, Searches, ResultKept, PTL

\* The callback of list_contacts is called for contacts first, then once without,
\* then no more, in the whole as in the search.
THEOREM ListKept == RendezvousSpec => ImplementsList
BY RendezvousAssumption, ListImplemented, Searches, PTL DEF ImplementsList

\* Every variable of the setup and of the search keeps its type in the whole.
THEOREM TypesKept == RendezvousSpec => []RendezvousTypeOK
<1>1. SetupTypeOK /\ Search!SearchTypeOK => RendezvousTypeOK
  BY DEF RendezvousTypeOK
<1> QED BY <1>1, RendezvousAssumption, SearchTypes, Searches, SetsUp, SetupTypes, PTL
-----------------------------------------------------------------------------
(* What the liveness of the whole rests on: nobody waits for an event that *)
(* will not come, but in the ways that are known.                          *)

\* Once the channel is there, either somebody to connect is waited for and the handler is
\* connected, or the answer has been given or waits for the main loop.
AnswerIsComing ==
  /\ stage # "tube" => tube = "none" /\ ~told
  /\ stage = "over" => answers # <<>>
  /\ stage = "tube" /\ cancelled => completing = 1 \/ answers # <<>>
  /\ stage = "tube" /\ ~cancelled =>
       /\ accepting = "pending" /\ hears
       /\ offering # "none" /\ tube # "none"
       /\ offering = "over" => tube # "made"
       /\ program = "jupiter" => ~told

\* At the other end a session goes with its tube, a splice with its two halves, and the
\* reference with the session.
SessionGoesOn ==
  /\ tube = "connected" => incoming
  /\ tube \in {"none", "made"} => session = "none"
  /\ tube = "offered" => session \in {"none", "accepting"}
  /\ session \in {"none", "accepting"} => halves = {} /\ ~spliceDone
  /\ session = "spliced" /\ spliceDone => ending = 1
  /\ session = "spliced" /\ ~spliceDone => halves # {}
  /\ listed = "held" => session \in {"accepting", "spliced"}

SetupGoesOn == AnswerIsComing /\ SessionGoesOn

LEMMA SetupBegins == Init => SetupGoesOn
BY DEF Init, SetupGoesOn, AnswerIsComing, SessionGoesOn

\* The asker's steps.
LEMMA AskerGoesOn ==
  ASSUME PlainTypes, SetupInv, SetupGoesOn, AskerNext
  PROVE  SetupGoesOn'
<1> USE DEF SetupGoesOn, AnswerIsComing
<1>1. /\ accepting \in {"none", "pending", "over"}
      /\ offering \in {"none", "pending", "over"}
      /\ completing \in {0, 1} /\ answers \in Seq({"ready", "failed"})
      /\ (~cancelled => completing = 0)
      /\ (offering = "pending" => ~cancelled)
      /\ (hears => ~cancelled)
  BY DEF PlainTypes, SetupInv, AskerInv, AskerTypes, OneAnswer, HeardUntilComplete
<1>2. \A answer \in {"ready", "failed"} : Append(answers, answer) # <<>>
  BY <1>1
<1>3. ASSUME NEW next \in {"account", "connection", "channel"},
             stage \in {"share", "account", "connection"}, GoOnTo(next), ChainUnchanged
      PROVE  SetupGoesOn'
  <2>1. AnswerIsComing'
    BY <1>2, <1>3 DEF GoOnTo, ChainUnchanged, tubeVars
  <2>2. SessionGoesOn'
    BY <1>3 DEF ChainUnchanged, tubeVars, sessionVars, spliceVars, SessionGoesOn
  <2> QED BY <2>1, <2>2
<1>4. CASE CreateChannel
  <2>1. session = "none" /\ tube' \in {"none", "made"}
    BY <1>4 DEF CreateChannel, SessionGoesOn
  <2>2. AnswerIsComing'
    <3>1. ~cancelled /\ completing = 0 /\ offering = "none" /\ stage' = "tube"
      BY <1>4 DEF CreateChannel, SetupInv, AskerInv, NothingBefore
    <3>2. CASE cancelled' = TRUE /\ completing' = 1
      BY <3>1, <3>2
    <3>3. CASE ~(cancelled' = TRUE /\ completing' = 1)
      <4>1. /\ tube' = "made" /\ accepting' = "pending" /\ offering' = "pending"
            /\ hears' = TRUE /\ cancelled' = cancelled /\ told' = told
        BY <1>4, <3>1, <3>3 DEF CreateChannel, Complete
      <4>2. ~told
        <5>1. stage = "channel"
          BY <1>4 DEF CreateChannel
        <5> QED BY <5>1, Zenon
      <4> QED BY <3>1, <4>1, <4>2
    <3> QED BY <3>2, <3>3
  <2>3. SessionGoesOn'
    BY <1>4, <2>1 DEF CreateChannel, sessionVars, spliceVars, SessionGoesOn
  <2> QED BY <2>2, <2>3
<1>5. CASE OfferAnswered
  <2>1. AnswerIsComing'
    BY <1>1, <1>5 DEF OfferAnswered, Complete, Drop, tubeVars, SetupInv, AskerInv,
       NothingBefore
  <2>2. SessionGoesOn'
    BY <1>5 DEF OfferAnswered, tubeVars, sessionVars, spliceVars, SessionGoesOn
  <2> QED BY <2>1, <2>2
<1>6. CASE SocketConnected
  <2>1. AnswerIsComing'
    BY <1>1, <1>6 DEF SocketConnected, Complete, Drop, tubeVars
  <2>2. SessionGoesOn'
    BY <1>6 DEF SocketConnected, tubeVars, sessionVars, spliceVars, SessionGoesOn
  <2> QED BY <2>1, <2>2
<1>7. CASE Invalidated
  <2>1. AnswerIsComing'
    BY <1>1, <1>7 DEF Invalidated, Complete, tubeVars, resultVars
  <2>2. SessionGoesOn'
    BY <1>7 DEF Invalidated, tubeVars, sessionVars, spliceVars, SessionGoesOn
  <2> QED BY <2>1, <2>2
<1>8. CASE CreateTubeCb
  <2>1. answers' # <<>> /\ cancelled
    BY <1>1, <1>2, <1>8 DEF CreateTubeCb
  <2>2. AnswerIsComing'
    BY <1>8, <2>1 DEF CreateTubeCb, tubeVars
  <2>3. SessionGoesOn'
    BY <1>8 DEF CreateTubeCb, tubeVars, sessionVars, spliceVars, SessionGoesOn
  <2> QED BY <2>2, <2>3
<1> QED BY <1>3, <1>4, <1>5, <1>6, <1>7, <1>8 DEF AskerNext, Share, AccountPrepared,
       ConnectionPrepared

\* Those of the other end, and of Telepathy.
LEMMA OthersGoOn ==
  ASSUME PlainTypes, SetupInv, SetupGoesOn,
         SessionNext \/ OfferArrives \/ TubeCloses \/ UNCHANGED vars
  PROVE  SetupGoesOn'
<1> USE DEF SetupGoesOn
<1>1. /\ ending \in {0, 1} /\ halves \subseteq {"to relay", "to tube"}
      /\ session \in {"none", "accepting", "spliced", "over"}
      /\ tube \in {"none", "made", "offered", "connected", "closed"}
      /\ (ending = 1 => session = "spliced" /\ spliceDone)
  BY DEF PlainTypes, SetupInv, SessionInv, SpliceEndsOnce
<1>2. ASSUME UNCHANGED askerVars, tube' = tube \/ (tube # "none" /\ tube' # "none"),
             tube # "made" => tube' # "made"
      PROVE  AnswerIsComing'
  BY <1>2 DEF AnswerIsComing, askerVars, resultVars
<1>3. CASE GotChannel
  <2>1. SessionGoesOn'
    BY <1>1, <1>3 DEF GotChannel, SessionGoesOn, tubeVars, spliceVars
  <2> QED BY <1>2, <1>3, <2>1 DEF GotChannel, tubeVars
<1>4. CASE AcceptAnswered
  <2>1. SessionGoesOn'
    BY <1>1, <1>4 DEF AcceptAnswered, SessionComplete, SessionGoesOn
  <2>2. tube # "none" /\ tube' # "none" /\ tube' # "made"
    BY <1>4 DEF AcceptAnswered, SessionComplete, SessionGoesOn
  <2> QED BY <1>2, <1>4, <2>1, <2>2 DEF AcceptAnswered
<1>5. CASE SessionInvalidated
  <2>1. UNCHANGED <<tube, incoming, session, spliceVars>> /\ listed' \in {listed, "gone"}
    BY <1>5 DEF SessionInvalidated, SessionComplete
  <2>2. SessionGoesOn'
    BY <2>1 DEF SessionGoesOn, spliceVars
  <2> QED BY <1>2, <1>5, <2>1, <2>2 DEF SessionInvalidated
<1>6. ASSUME NEW half \in halves, HalfEnds(half)
      PROVE  SetupGoesOn'
  <2>1. session \in {"spliced", "over"} /\ UNCHANGED <<tubeVars, askerVars, session, listed>>
    BY <1>1, <1>6 DEF HalfEnds, SessionGoesOn
  <2>2. CASE ~spliceDone
    <3>1. ending = 0
      BY <1>1, <2>2
    <3>2. spliceDone' = TRUE /\ ending' = 1
      BY <1>6, <2>2, <3>1 DEF HalfEnds
    <3>3. SessionGoesOn'
      BY <2>1, <3>2 DEF SessionGoesOn, tubeVars
    <3> QED BY <1>2, <2>1, <3>3 DEF tubeVars
  <2>3. CASE spliceDone
    <3>1. UNCHANGED <<spliceDone, ending>>
      BY <1>6, <2>3 DEF HalfEnds
    <3>2. SessionGoesOn'
      BY <2>1, <2>3, <3>1 DEF SessionGoesOn, tubeVars
    <3> QED BY <1>2, <2>1, <3>2 DEF tubeVars
  <2> QED BY <2>2, <2>3
<1>7. CASE SpliceCb
  <2>1. SessionGoesOn'
    BY <1>1, <1>7 DEF SpliceCb, SessionComplete, SessionGoesOn
  <2>2. tube # "none" /\ tube' = "closed"
    <3>1. ending > 0 /\ SessionComplete
      BY <1>7 DEF SpliceCb
    <3>2. session = "spliced"
      <4>1. ending \in {0, 1} /\ ending > 0
        BY <1>1, <3>1, Zenon
      <4>2. ending = 1
        BY ONLY <4>1
      <4> QED BY <1>1, <4>2, Zenon
    <3>3. tube' = "closed"
      BY <3>1 DEF SessionComplete
    <3> QED BY <3>2, <3>3 DEF SessionGoesOn
  <2> QED BY <1>2, <1>7, <2>1, <2>2 DEF SpliceCb
<1>8. CASE OfferArrives \/ TubeCloses
  <2>1. UNCHANGED <<incoming, session, listed, halves, spliceDone, ending, askerVars>>
    BY <1>8 DEF OfferArrives, TubeCloses, sessionVars, spliceVars
  <2>2. \/ tube = "made" /\ tube' = "offered"
        \/ tube \in {"made", "offered", "connected"} /\ tube' = "closed"
    BY <1>8 DEF OfferArrives, TubeCloses
  <2>3. SessionGoesOn'
    BY <2>1, <2>2 DEF SessionGoesOn
  <2> QED BY <1>2, <2>1, <2>2, <2>3
<1>9. CASE UNCHANGED vars
  BY <1>9 DEF vars, tubeVars, askerVars, resultVars, sessionVars, spliceVars,
     AnswerIsComing, SessionGoesOn
<1> QED BY <1>3, <1>4, <1>5, <1>6, <1>7, <1>8, <1>9 DEF SessionNext

\* The search: once there are accounts to ask, the connector's count is not zero before
\* the list has ended, and jupiter has always somebody to wait for.
EndIsComing ==
  /\ ended \in {0, 1}
  /\ Search!Running /\ searcher = "connector" /\ manager = "prepared"
       /\ preparing = {} /\ accounts # {}
     => n_pending > 0 \/ ended = 1
  /\ Search!Running /\ searcher = "jupiter" =>
       /\ manager # "failed" /\ Search!Lost = {}
       /\ manager = "prepared" => preparing # {} \/ Search!Waiting # {}

LEMMA SearchBegins == Search!Init => EndIsComing
<1> SUFFICES ASSUME Search!Init PROVE EndIsComing
  OBVIOUS
<1>1. ended = 0 /\ NoChains
  BY DEF Search!Init, NoChains
<1>2. CASE manager = "pending"
  BY <1>1, <1>2, NobodyWaits DEF EndIsComing
<1>3. CASE manager = "failed" /\ (searcher = "jupiter" => outcome = "error")
  BY <1>1, <1>3 DEF EndIsComing, Search!Running
<1> QED BY <1>2, <1>3 DEF Search!Init

\* Whoever is asked waits, and is counted.
LEMMA AskedWait ==
  ASSUME IsFiniteSet(Accounts), SearchInv, NoChains,
         NEW candidates \in SUBSET Accounts, Search!Ask(candidates)
  PROVE  /\ Search!Waiting' = candidates /\ Search!Lost' = {}
         /\ n_pending' = Cardinality(candidates)
         /\ Cardinality(candidates) \in Nat
         /\ candidates # {} => Cardinality(candidates) > 0
<1>1. Search!Waiting' = candidates /\ Search!Lost' = {}
  BY DEF Search!Ask, NoChains, Search!Waiting, Search!Lost
<1>2. IsFiniteSet(candidates) /\ Cardinality(candidates) \in Nat
  BY FS_Subset, FS_CardinalityType
<1>3. n_pending' = Cardinality(candidates)
  BY <1>2, SameCardinality DEF Search!Ask, NoChains
<1>4. candidates # {} => Cardinality(candidates) # 0
  BY <1>2, FS_EmptySet
<1> QED BY <1>1, <1>2, <1>3, <1>4

\* The last connection: the connector asks for everybody's contacts; jupiter asks for one
\* account's, or ends.
LEMMA AllReadyGoesOn ==
  ASSUME IsFiniteSet(Accounts), SearchInv, NoChains, EndIsComing,
         Search!AllReady(accounts'), accounts' \subseteq Accounts,
         outcome' # "none" \/ preparing' = {}, manager' # "failed",
         UNCHANGED <<searcher, ended>>
  PROVE  EndIsComing'
<1>1. ended' \in {0, 1}
  BY DEF EndIsComing
<1>2. CASE searcher = "jupiter"
  <2>1. CASE outcome' # "none"
    BY <1>1, <1>2, <2>1 DEF EndIsComing, Search!Running
  <2>2. CASE outcome' = "none"
    <3>1. PICK a \in Accounts : Search!Ask({a})
      BY <1>2, <2>2 DEF Search!AllReady, Search!ChooserAccount, Search!ChooserContact,
         Search!ThrowError, Search!StartTube
    <3>2. Search!Waiting' = {a} /\ Search!Lost' = {}
      BY <3>1, AskedWait
    <3> QED BY <1>1, <1>2, <3>2 DEF EndIsComing
  <2> QED BY <2>1, <2>2
<1>3. CASE searcher # "jupiter"
  <2>1. Search!Ask(accounts')
    BY <1>3 DEF Search!AllReady
  <2>2. accounts' # {} => n_pending' > 0
    BY <2>1, AskedWait
  <2> QED BY <1>1, <1>3, <2>2 DEF EndIsComing
<1> QED BY <1>2, <1>3

\* Before that, somebody is being prepared.
LEMMA PreparingGoesOn ==
  ASSUME EndIsComing, preparing' # {} \/ outcome' # "none" \/ manager' = "pending"
                      \/ (searcher # "jupiter" /\ accounts' = {}),
         manager' = "failed" => searcher # "jupiter" \/ outcome' # "none",
         searcher = "jupiter" /\ outcome' = "none" => Search!Lost' = {},
         UNCHANGED <<searcher, ended>>
  PROVE  EndIsComing'
BY DEF EndIsComing, Search!Running

\* A step of a chain: the search is over, or an account goes on waiting, or the connector
\* loses one and counts it still.
LEMMA ChainStillGoesOn ==
  ASSUME SearchInv, EndIsComing, Search!Running, NEW a \in Search!Waiting,
         UNCHANGED <<searcher, manager, Search!searchVars, ended>>,
         \/ outcome' # "none"
         \/ /\ UNCHANGED n_pending
            /\ \/ searcher # "jupiter"
               \/ \E next \in {"prepare", "contacts"} : step' = [step EXCEPT ![a] = next]
  PROVE  EndIsComing'
<1>1. CASE outcome' # "none"
  BY <1>1 DEF EndIsComing, Search!Running
<1>2. CASE UNCHANGED n_pending /\ searcher # "jupiter"
  BY <1>2 DEF EndIsComing, Search!searchVars
<1>3. ASSUME UNCHANGED n_pending, NEW next \in {"prepare", "contacts"},
             step' = [step EXCEPT ![a] = next]
      PROVE  EndIsComing'
  <2>1. Search!Waiting' = Search!Waiting /\ Search!Lost' = Search!Lost
    BY <1>3 DEF Search!Waiting, Search!Lost, SearchInv
  <2> QED BY <1>3, <2>1 DEF EndIsComing, Search!searchVars
<1> QED BY <1>1, <1>2, <1>3

\* The contacts of an account have come: the last one ends the list.
LEMMA ReportGoesOn ==
  ASSUME SearchInv, EndIsComing, Search!Running, SearchInv', NEW a \in Search!Waiting,
         NEW able \in SUBSET Contacts, Search!ReportContacts(a, able),
         UNCHANGED <<searcher, manager, Search!searchVars>>
  PROVE  EndIsComing'
<1>1. context # "freed" /\ ended = 0 /\ searcher = "connector"
  BY WaitingIsLate DEF SearchInv, FreedAtTheEnd, Search!ReportContacts
<1>2. n_pending' = 0 => ended' = 1
  <2>1. n_pending' = 0 => ended' = ended + 1
    BY DEF Search!ReportContacts
  <2> QED BY <1>1, <2>1
<1>3. n_pending' # 0 => ended' = 0
  BY <1>1 DEF Search!ReportContacts
<1>4. outcome' = "none" => n_pending' >= 0
  <2>1. /\ Cardinality(Search!Waiting') \in Nat /\ Cardinality(Search!Lost') \in Nat
    <3>1. Search!Waiting' \subseteq Accounts /\ Search!Lost' \subseteq Accounts
      BY DEF Search!Waiting, Search!Lost
    <3> QED BY <3>1, RendezvousAssumption, FS_Subset, FS_CardinalityType
  <2> QED BY <2>1 DEF SearchInv, ChainsCounted, Search!Running
<1>5. n_pending' \in Int
  BY DEF SearchInv
<1> QED BY <1>1, <1>2, <1>3, <1>4, <1>5 DEF EndIsComing, Search!Running

LEMMA EndIsComingStep ==
  ASSUME IsFiniteSet(Accounts), SearchInv, Bounded, EndIsComing, [Search!Next]_(Search!vars)
  PROVE  EndIsComing'
<1>1. CASE Search!ManagerPrepared
  <2>1. NoChains /\ UNCHANGED <<searcher, ended, given>>
    BY <1>1 DEF Search!ManagerPrepared, SearchInv, ChainsAfterConnections
  <2>2. CASE manager' = "failed"
    <3>1. CASE searcher = "jupiter"
      <4>1. outcome' # "none"
        BY <1>1, <2>2, <3>1 DEF Search!ManagerPrepared, Search!ThrowError
      <4> QED BY <2>1, <4>1, PreparingGoesOn
    <3>2. CASE searcher # "jupiter"
      BY <2>1, <2>2, <3>2 DEF EndIsComing
    <3> QED BY <3>1, <3>2
  <2>3. CASE manager' = "prepared"
    <3>1. PICK online \in SUBSET Accounts :
            /\ accounts' = online /\ preparing' = online
            /\ IF online = {} /\ searcher = "jupiter"
               THEN Search!ChooserAccount({})
               ELSE UNCHANGED <<Search!chainVars, outcome>>
      BY <1>1, <2>3 DEF Search!ManagerPrepared
    <3>2. online = {} /\ searcher = "jupiter" => outcome' # "none"
      BY <3>1 DEF Search!ChooserAccount, Search!ThrowError
    <3>3. searcher = "jupiter" /\ outcome' = "none" => Search!Lost' = {}
      <4> SUFFICES ASSUME searcher = "jupiter", outcome' = "none"
                   PROVE  Search!Lost' = {}
        OBVIOUS
      <4>1. UNCHANGED step
        BY <3>1, <3>2 DEF Search!chainVars
      <4> QED BY <2>1, <4>1, NobodyWaits DEF Search!Lost
    <3> QED BY <2>1, <2>3, <3>1, <3>2, <3>3, PreparingGoesOn
  <2> QED BY <1>1, <2>2, <2>3 DEF Search!ManagerPrepared
<1>2. CASE Search!AccountPrepared
  <2>1. NoChains /\ UNCHANGED <<searcher, ended, given>> /\ manager' = "prepared"
    BY <1>2 DEF Search!AccountPrepared, SearchInv, ChainsAfterConnections
  <2>2. outcome' # "none" \/ (preparing' # {} /\ UNCHANGED step)
    BY <1>2 DEF Search!AccountPrepared, Search!ThrowError, Search!chainVars
  <2>3. UNCHANGED step => Search!Lost' = {}
    BY <2>1, NobodyWaits DEF Search!Lost
  <2> QED BY <2>1, <2>2, <2>3, PreparingGoesOn
<1>3. ASSUME NEW a \in Accounts, Search!ConnectionPrepared(a)
      PROVE  EndIsComing'
  <2>1. NoChains /\ Search!Running /\ UNCHANGED <<searcher, manager, ended>>
    BY <1>3 DEF Search!ConnectionPrepared, SearchInv, ChainsAfterConnections
  <2>2. /\ preparing' \subseteq Accounts /\ accounts' \subseteq Accounts
        /\ IsFiniteSet(preparing) /\ IsFiniteSet(preparing')
    BY <1>3, FS_Subset DEF Search!ConnectionPrepared, SearchInv
  <2>3. n_readying' = Cardinality(preparing')
    BY <1>3, <2>2, FS_RemoveElement DEF Search!ConnectionPrepared, SearchInv,
       ConnectionsCounted
  <2>4. n_readying' = 0 <=> preparing' = {}
    BY <2>2, <2>3, FS_EmptySet
  <2>5. searcher = "jupiter" => manager # "failed"
    BY <2>1 DEF EndIsComing
  <2>6. CASE preparing' = {}
    <3>1. Search!AllReady(accounts')
      BY <1>3, <2>4, <2>6 DEF Search!ConnectionPrepared
    <3>2. CASE manager = "failed"
      BY <2>1, <2>5, <3>2 DEF EndIsComing
    <3> QED BY <2>1, <2>2, <2>6, <3>1, <3>2, AllReadyGoesOn
  <2>7. CASE preparing' # {}
    <3>1. UNCHANGED step
      BY <1>3, <2>4, <2>7 DEF Search!ConnectionPrepared, Search!chainVars
    <3>2. Search!Lost' = {}
      BY <2>1, <3>1, NobodyWaits DEF Search!Lost
    <3> QED BY <2>1, <2>5, <2>7, <3>2, PreparingGoesOn
  <2> QED BY <2>6, <2>7
<1>4. ASSUME NEW a \in Accounts,
             \/ Search!StoredChannelEnsured(a) \/ Search!StoredChannelPrepared(a)
             \/ Search!GotContacts(a)
      PROVE  EndIsComing'
  <2>1. a \in Search!Waiting /\ Search!Running
        /\ UNCHANGED <<searcher, manager, Search!searchVars>>
    BY <1>4 DEF Search!StoredChannelEnsured, Search!StoredChannelPrepared,
       Search!GotContacts, Search!Waiting, Search!ChainUnchanged
  <2>2. CASE Search!StoredChannelEnsured(a)
    BY <2>1, <2>2, ChainStillGoesOn DEF Search!StoredChannelEnsured, Search!Lose,
       Search!ThrowError, Search!ChainUnchanged
  <2>3. CASE Search!StoredChannelPrepared(a)
    BY <2>1, <2>3, ChainStillGoesOn DEF Search!StoredChannelPrepared, Search!Lose,
       Search!ThrowError, Search!ChainUnchanged
  <2>4. CASE Search!Lose(a) /\ UNCHANGED <<reported, ended, context>>
    BY <2>1, <2>4, ChainStillGoesOn DEF Search!Lose, Search!ThrowError
  <2>5. ASSUME NEW able \in SUBSET Contacts, Search!ReportContacts(a, able)
        PROVE  EndIsComing'
    BY <2>1, <2>5, SearchStep, ReportGoesOn
  <2>6. ASSUME NEW able \in SUBSET Contacts, Search!ChooseContact(able)
        PROVE  EndIsComing'
    <3>1. outcome' # "none" /\ UNCHANGED ended
      BY <2>6 DEF Search!ChooseContact, Search!ThrowError, Search!StartTube
    <3> QED BY <2>1, <3>1, ChainStillGoesOn
  <2> QED BY <1>4, <2>2, <2>3, <2>4, <2>5, <2>6 DEF Search!GotContacts
<1>5. CASE UNCHANGED Search!vars
  BY <1>5 DEF Search!vars, Search!searchVars, Search!chainVars, EndIsComing,
     Search!Running, Search!Waiting, Search!Lost
<1> QED BY <1>1, <1>2, <1>3, <1>4, <1>5 DEF Search!Next

-----------------------------------------------------------------------------
(* When nothing moves any more.                                            *)

\* No program can do anything by itself: none of the guards of RendezvousFairness holds,
\* for the search, for the program that asks, and for the plugin at the other end.
SearchHalted ==
  Search!Running => manager # "pending" /\ preparing = {} /\ Search!Waiting = {}

AskerHalted ==
  /\ Found => stage # "share"
  /\ stage \notin {"account", "connection", "channel"}
  /\ offering # "pending"
  /\ accepting = "pending" => ~incoming /\ ~cancelled
  /\ tube = "closed" /\ stage = "tube" => told
  /\ completing = 0

ReceiverHalted ==
  /\ receiver = "there" /\ session = "none" => tube # "offered"
  /\ session # "accepting"
  /\ tube = "closed" /\ session # "none" => sessionTold
  /\ tube = "closed" \/ stopping => halves = {}
  /\ ending = 0

LEMMA RendezvousGoesOn ==
  RendezvousSpec => [](SetupInv /\ PlainTypes /\ SetupGoesOn /\ SearchInv /\ Bounded
                       /\ EndIsComing)
<1>1. Init => SetupInv /\ PlainTypes /\ SetupGoesOn
  BY SetupInit, TypesBegin, SetupBegins
<1>2. Search!Init => SearchInv /\ Bounded /\ EndIsComing
  BY SearchInit, SearchBegins, RendezvousAssumption, FS_CardinalityType
     DEF Search!Init, Bounded, SearchPrograms
<1>3. SetupInv /\ PlainTypes /\ SetupGoesOn /\ [Next]_vars
        => (SetupInv /\ PlainTypes /\ SetupGoesOn)'
  BY SetupStep, TypesStep, AskerGoesOn, OthersGoOn DEF Next
<1>4. SearchInv /\ Bounded /\ EndIsComing /\ [Search!Next]_(Search!vars)
        => (SearchInv /\ Bounded /\ EndIsComing)'
  BY SearchStep, BoundedStep, EndIsComingStep, RendezvousAssumption
<1> QED BY <1>1, <1>2, <1>3, <1>4, SetsUp, Searches, PTL DEF Spec, Search!Spec

\* Whatever Telepathy does, nobody is forgotten: when no program can go on by itself, who
\* searches has been told that there is no more, or has a tube or an error, and who asks for
\* a tube has an answer, except for the ways in which the code falls silent.  This is
\* EverybodyIsTold without fairness, and without its exception for freed channels.
THEOREM NobodyIsForgotten ==
  RendezvousSpec =>
    [](SearchHalted /\ AskerHalted /\ ReceiverHalted =>
         /\ ended = 1 \/ outcome # "none" \/ Search!NeverEnds
         /\ outcome = "tube" \/ stage # "share" => answers # <<>> \/ NeverTold)
<1>1. ASSUME SetupInv, PlainTypes, SetupGoesOn, AskerHalted, ReceiverHalted,
             outcome = "tube" \/ stage # "share"
      PROVE  answers # <<>> \/ NeverTold
  <2> SUFFICES ASSUME answers = <<>>
               PROVE  NeverTold
    OBVIOUS
  <2>1. stage = "tube" /\ ~cancelled
    <3>1. stage # "share"
      BY <1>1 DEF AskerHalted, Found
    <3>2. stage \in {"tube", "over"}
      BY <1>1, <3>1 DEF AskerHalted, PlainTypes
    <3> QED BY <1>1, <3>2 DEF SetupGoesOn, AnswerIsComing, AskerHalted
  <2>2. /\ accepting = "pending" /\ offering = "over" /\ ~incoming
        /\ tube \in {"offered", "connected", "closed"}
    <3>1. accepting = "pending" /\ offering # "none" /\ tube # "none" 
          /\ (offering = "over" => tube # "made")
      BY <1>1, <2>1 DEF SetupGoesOn, AnswerIsComing
    <3>2. offering = "over"
      BY <1>1, <3>1 DEF AskerHalted, SetupInv, AskerInv, AskerTypes
    <3> QED BY <1>1, <3>1, <3>2 DEF AskerHalted, PlainTypes
  <2>3. tube # "connected"
    BY <1>1, <2>2 DEF SetupGoesOn, SessionGoesOn
  <2>4. CASE tube = "closed"
    <3>1. told
      BY <1>1, <2>1, <2>4 DEF AskerHalted
    <3>2. program # "jupiter"
      BY <1>1, <2>1, <3>1, Zenon DEF SetupGoesOn, AnswerIsComing
    <3>3. program = "plugin"
      BY <1>1, <3>2, TubeSetupAssumption DEF PlainTypes
    <3> QED BY <2>1, <2>2, <3>1, <3>3 DEF NeverTold
  <2>5. CASE tube = "offered"
    <3>1. session = "none"
      BY <1>1, <2>5 DEF ReceiverHalted, SetupGoesOn, SessionGoesOn
    <3>2. receiver = "absent"
      BY <1>1, <2>5, <3>1, TubeSetupAssumption DEF ReceiverHalted, PlainTypes
    <3> QED BY <2>1, <2>2, <2>5, <3>2 DEF NeverTold
  <2> QED BY <2>2, <2>3, <2>4, <2>5
<1>2. ASSUME SearchInv, Bounded, EndIsComing, SearchHalted
      PROVE  ended = 1 \/ outcome # "none" \/ Search!NeverEnds
  <2> SUFFICES ASSUME Search!Running, ~Search!NeverEnds
               PROVE  ended = 1
    BY DEF Search!Running
  <2>1. manager # "pending" /\ preparing = {} /\ Search!Waiting = {}
    BY <1>2 DEF SearchHalted
  <2>2. searcher \in {"connector", "jupiter"}
    BY <1>2, TubeSetupAssumption DEF Bounded, SearchPrograms
  <2>3. searcher # "jupiter"
    BY <1>2, <2>1 DEF EndIsComing, Bounded
  <2>4. manager = "prepared" /\ accounts # {} /\ Search!Lost = {}
    BY <1>2, <2>1, <2>2, <2>3 DEF Search!NeverEnds, Bounded
  <2>5. n_pending = 0
    BY <1>2, <2>1, <2>4, FS_EmptySet DEF SearchInv, ChainsCounted
  <2> QED BY <1>2, <2>1, <2>2, <2>3, <2>4, <2>5 DEF EndIsComing
<1> QED BY <1>1, <1>2, RendezvousGoesOn, PTL

\* When a tube has been closed and the plugin at the other end can do no more, it has given
\* up its relay's connection, both halves of the splice, and the reference to the channel
\* (splice_cb, session_complete): SessionsEnd without fairness.
THEOREM NoSessionIsLeft ==
  RendezvousSpec =>
    [](ReceiverHalted /\ tube = "closed" =>
         /\ session \in {"none", "over"} /\ halves = {}
         /\ listed \in {"none", "gone"})
<1>1. ASSUME PlainTypes, SetupGoesOn, ReceiverHalted, tube = "closed"
      PROVE  /\ session \in {"none", "over"} /\ halves = {}
             /\ listed \in {"none", "gone"}
  <2>1. halves = {} /\ ending = 0 /\ session # "accepting"
    BY <1>1 DEF ReceiverHalted
  <2>2. session # "spliced"
    <3>1. session = "spliced" => ending = 1 \/ halves # {}
      BY <1>1, Zenon DEF SetupGoesOn, SessionGoesOn
    <3> QED BY <2>1, <3>1
  <2>3. session \in {"none", "over"}
    BY <1>1, <2>1, <2>2 DEF PlainTypes
  <2>4. listed # "held"
    BY <1>1, <2>3 DEF SetupGoesOn, SessionGoesOn
  <2> QED BY <1>1, <2>1, <2>3, <2>4 DEF PlainTypes
<1> QED BY <1>1, RendezvousGoesOn, PTL

=============================================================================
