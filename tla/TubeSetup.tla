----------------------------- MODULE TubeSetup ------------------------------
(***************************************************************************)
(* How a tube comes about and ends: the chain of callbacks with which a    *)
(* program asks Telepathy for one, from the account to the connected       *)
(* socket, and the one with which the plugin of the other desktop takes    *)
(* it, splices it with its own relay and gives it up.                      *)
(*                                                                         *)
(* Two programs ask: the plugin (src/src/xzibit-plugin.c) and jupiter      *)
(* (src/src/jupiter/client-helpers.c).  The plugin has copied its part of  *)
(* the chain from there, all but one callback: what it does when the       *)
(* channel is invalidated.                                                 *)
(***************************************************************************)
EXTENDS Integers, Sequences

CONSTANTS
  Programs,   \* the programs that may ask: "plugin", "jupiter"
  Receivers   \* whether the plugin runs at the other end: "there", "absent"

ASSUME TubeSetupAssumption ==
  /\ Programs \subseteq {"plugin", "jupiter"}
  /\ Receivers \subseteq {"there", "absent"}

VARIABLES
  \* Telepathy, and the other desktop.
  tube,        \* "none", "made", "offered", "connected", "closed"
  incoming,    \* somebody has connected to the socket that is offered
  receiver,    \* one of Receivers
  \* The program that asks.
  program,     \* one of Programs
  stage,       \* where the chain is
  simple,      \* references to the result that the callbacks share
  cancelled,   \* op_cancellable
  failed,      \* an error is recorded in the result
  accepting,   \* g_socket_listener_accept_async: "none", "pending", "over"
  offering,    \* offer_call: "none", "pending", "over"
  completing,  \* calls of create_tube_cb that wait for the main loop
  hears,       \* a handler for "invalidated" is connected
  told,        \* "invalidated" has been emitted
  channel,     \* data->channel: "none", "held", or "gone" when it dangles
  answers,     \* what the one who asked has been told: "ready", "failed"
  \* The plugin that takes the tube.
  session,     \* "none", "accepting", "spliced", "over"
  sessionHears, sessionTold,
  listed,      \* the channel's reference in channel_list, as `channel'
  halves,      \* directions that are being spliced
  spliceDone,  \* ctx->completed
  stopping,    \* the cancellables of the splice
  ending,      \* calls of splice_cb that wait for the main loop
  \* Who has used a channel without holding it.
  harmed

tubeVars    == <<tube, incoming, receiver>>
resultVars  == <<simple, cancelled, failed, offering, completing, hears>>
askerVars   == <<program, stage, resultVars, accepting, told, channel, answers>>
spliceVars  == <<halves, spliceDone, stopping, ending>>
sessionVars == <<session, sessionHears, sessionTold, listed, spliceVars>>
vars == <<tubeVars, askerVars, sessionVars, harmed>>

Init ==
  /\ tube = "none" /\ incoming = FALSE
  /\ receiver \in Receivers
  /\ program \in Programs
  /\ stage = "share"
  /\ simple = 0 /\ cancelled = FALSE /\ failed = FALSE
  /\ accepting = "none" /\ offering = "none" /\ completing = 0
  /\ hears = FALSE /\ told = FALSE /\ channel = "none"
  /\ answers = <<>>
  /\ session = "none" /\ sessionHears = FALSE /\ sessionTold = FALSE
  /\ listed = "none"
  /\ halves = {} /\ spliceDone = FALSE /\ stopping = FALSE /\ ending = 0
  /\ harmed = {}

-----------------------------------------------------------------------------
(* The chain up to the request for a channel.                              *)

\* The chain goes on to `next', or ends before there is a result.
GoOnTo(next) ==
  \/ /\ stage' = "over"
     /\ answers' = Append(answers, "failed")
     /\ UNCHANGED simple
  \/ /\ stage' = next
     /\ simple' = IF next = "channel" THEN 1 ELSE 0
     /\ UNCHANGED answers

ChainUnchanged ==
  UNCHANGED <<tubeVars, program, cancelled, failed, offering, completing, hears,
              accepting, told, channel, sessionVars, harmed>>

\* share_window, when there is no tube yet: no source is given, or Telepathy
\* does not know it.  jupiter has found its connection before, and begins with
\* _client_create_tube_async.
Share ==
  /\ stage = "share"
  /\ GoOnTo(IF program = "plugin" THEN "account" ELSE "channel")
  /\ ChainUnchanged

\* account_prepare_cb: the account cannot be prepared, or is not online.
AccountPrepared ==
  /\ stage = "account"
  /\ GoOnTo("connection")
  /\ ChainUnchanged

\* connection_prepare_cb: no connection, or none that can stream tubes.
ConnectionPrepared ==
  /\ stage = "connection"
  /\ GoOnTo("channel")
  /\ ChainUnchanged

-----------------------------------------------------------------------------
(* The result.                                                             *)

\* create_tube_complete.  The call of create_tube_cb holds a reference until
\* it has run; cancelling the offer drops the one of its callback; the calling
\* callback drops `released' of its own.  The handler is taken from a channel
\* that may not be there any more.
Complete(error, released) ==
  /\ cancelled' = TRUE
  /\ offering' = IF offering = "pending" THEN "over" ELSE offering
  /\ simple' = simple + 1 - released - (IF offering = "pending" THEN 1 ELSE 0)
  /\ hears' = FALSE
  /\ failed' = (failed \/ error)
  /\ completing' = completing + 1
  /\ harmed' = IF hears /\ channel = "gone" THEN harmed \cup {"asker"} ELSE harmed

\* Mutant of Drop: the callback drops its reference, and so does the call.
DropTwice ==
  /\ simple' = simple - 2
  /\ UNCHANGED harmed

\* One reference is dropped; the last one frees the data, and there the
\* reference to the channel is dropped.
Drop ==
  /\ simple' = simple - 1
  /\ harmed' = IF simple = 1 /\ channel = "gone" THEN harmed \cup {"asker"}
                                                 ELSE harmed

\* create_channel_cb: there is no channel, or no socket that could be offered;
\* or somebody to connect is waited for, but the socket has no address; or the
\* offer is made.
CreateChannel ==
  /\ stage = "channel"
  /\ stage' = "tube"
  /\ \/ /\ Complete(TRUE, 1)
        /\ \/ UNCHANGED <<tube, channel>>
           \/ tube' = "made" /\ channel' = "held"
        /\ UNCHANGED accepting
     \/ /\ Complete(TRUE, 0)
        /\ tube' = "made"
        /\ channel' = "held"
        /\ accepting' = "pending"
     \/ /\ tube' = "made"
        /\ channel' = "held"
        /\ accepting' = "pending"
        /\ offering' = "pending"
        /\ hears' = TRUE
        /\ simple' = simple + 2 - 1
        /\ UNCHANGED <<cancelled, failed, completing, harmed>>
  /\ UNCHANGED <<program, told, answers, incoming, receiver, sessionVars>>

\* create_tube_offer_cb.
OfferAnswered ==
  /\ offering = "pending"
  /\ \/ /\ tube # "made"
        /\ offering' = "over"
        /\ Drop
        /\ UNCHANGED <<cancelled, failed, completing, hears>>
     \/ /\ tube \in {"made", "closed"}
        /\ Complete(TRUE, 0)
  /\ UNCHANGED <<tubeVars, program, stage, accepting, told, channel, answers,
                 sessionVars>>

\* Mutant of SocketConnected: nobody looks whether it has been cancelled.
SocketConnectedAnyway ==
  /\ accepting = "pending"
  /\ incoming \/ cancelled
  /\ accepting' = "over"
  /\ \E error \in BOOLEAN : Complete(error, 1)
  /\ UNCHANGED <<tubeVars, program, stage, told, channel, answers, sessionVars>>

\* create_tube_socket_connected_cb: somebody has connected, or the waiting has
\* been cancelled, perhaps just after that.  The accept itself may fail.
SocketConnected ==
  /\ accepting = "pending"
  /\ incoming \/ cancelled
  /\ accepting' = "over"
  /\ \/ /\ cancelled
        /\ Drop
        /\ UNCHANGED <<cancelled, failed, offering, completing, hears>>
     \/ /\ ~cancelled
        /\ \E error \in BOOLEAN : Complete(error, 1)
  /\ UNCHANGED <<tubeVars, program, stage, told, channel, answers, sessionVars>>

\* "invalidated" of the asker's channel.  In jupiter the handler completes the
\* result, create_tube_channel_invalidated_cb.  In the plugin it is the one made
\* for the other end, channel_invalidated_cb, with session_complete: it finds no
\* handler to disconnect, since it looks for one without user data, and drops
\* the reference that is the result's.
Invalidated ==
  /\ tube = "closed" /\ stage = "tube" /\ ~told
  /\ told' = TRUE
  /\ \/ /\ ~hears
        /\ UNCHANGED <<resultVars, channel, harmed>>
     \/ /\ hears /\ program = "jupiter"
        /\ Complete(TRUE, 0)
        /\ UNCHANGED channel
     \/ /\ hears /\ program = "plugin"
        /\ channel' = "gone"
        /\ UNCHANGED <<resultVars, harmed>>
  /\ UNCHANGED <<tubeVars, program, stage, accepting, answers, sessionVars>>

\* create_tube_cb, with client_create_tube_finish, which takes a reference to
\* the channel if there is no error.
CreateTubeCb ==
  /\ completing > 0
  /\ completing' = completing - 1
  /\ answers' = Append(answers, IF failed THEN "failed" ELSE "ready")
  /\ simple' = simple - 1
  /\ harmed' = IF channel = "gone" /\ (~failed \/ simple = 1)
               THEN harmed \cup {"asker"} ELSE harmed
  /\ UNCHANGED <<tubeVars, program, stage, cancelled, failed, offering, hears,
                 accepting, told, channel, sessionVars>>

-----------------------------------------------------------------------------
(* The plugin at the other end.                                            *)

\* session_complete: the reference is dropped every time it is called.
SessionComplete ==
  /\ sessionHears' = FALSE
  /\ listed' = "gone"
  /\ tube' = "closed"
  /\ harmed' = IF listed = "gone" THEN harmed \cup {"session"} ELSE harmed

\* got_channel_cb.
GotChannel ==
  /\ receiver = "there" /\ session = "none"
  /\ tube = "offered"
  /\ session' = "accepting"
  /\ sessionHears' = TRUE
  /\ listed' = "held"
  /\ UNCHANGED <<tubeVars, askerVars, sessionTold, spliceVars, harmed>>

\* accept_tube_cb: accepting has failed, or connecting to either side does; or
\* the two connections are spliced.
AcceptAnswered ==
  /\ session = "accepting"
  /\ \/ /\ SessionComplete
        /\ session' = "over"
        /\ incoming' \in IF tube = "offered" THEN BOOLEAN ELSE {incoming}
        /\ UNCHANGED halves
     \/ /\ tube = "offered"
        /\ tube' = "connected"
        /\ incoming' = TRUE
        /\ session' = "spliced"
        /\ halves' = {"to relay", "to tube"}
        /\ UNCHANGED <<sessionHears, listed, harmed>>
  /\ UNCHANGED <<receiver, askerVars, sessionTold, spliceDone, stopping, ending>>

\* "invalidated" of this end's channel.  A call that is pending, or a splice at
\* work, goes on.
SessionInvalidated ==
  /\ tube = "closed" /\ session # "none" /\ ~sessionTold
  /\ sessionTold' = TRUE
  /\ \/ sessionHears /\ SessionComplete
     \/ ~sessionHears /\ UNCHANGED <<tube, sessionHears, listed, harmed>>
  /\ UNCHANGED <<incoming, receiver, askerVars, session, spliceVars>>

\* Mutant of HalfEnds: each half completes the splice.
HalfEndsTwice(half) ==
  /\ half \in halves
  /\ halves' = halves \ {half}
  /\ spliceDone' = TRUE /\ stopping' = TRUE
  /\ ending' = ending + 1
  /\ UNCHANGED <<tubeVars, askerVars, session, sessionHears, sessionTold, listed,
                 harmed>>

\* Mutant of HalfEnds: the flag is looked at the wrong way round.
HalfEndsUnnoticed(half) ==
  /\ half \in halves
  /\ halves' = halves \ {half}
  /\ UNCHANGED <<spliceDone, stopping, ending, tubeVars, askerVars, session,
                 sessionHears, sessionTold, listed, harmed>>

\* splice_cb of src/src/jupiter/common.c: one direction is at its end, has
\* failed or been cancelled.  The first one ends both.
HalfEnds(half) ==
  /\ half \in halves
  /\ halves' = halves \ {half}
  /\ \/ /\ ~spliceDone
        /\ spliceDone' = TRUE
        /\ stopping' = TRUE
        /\ ending' = ending + 1
     \/ /\ spliceDone
        /\ UNCHANGED <<spliceDone, stopping, ending>>
  /\ UNCHANGED <<tubeVars, askerVars, session, sessionHears, sessionTold, listed,
                 harmed>>

\* splice_cb of the plugin.
SpliceCb ==
  /\ ending > 0
  /\ ending' = ending - 1
  /\ session' = "over"
  /\ SessionComplete
  /\ UNCHANGED <<incoming, receiver, askerVars, sessionTold, halves, spliceDone,
                 stopping>>

-----------------------------------------------------------------------------
(* Telepathy.                                                              *)

OfferArrives ==
  /\ tube = "made" /\ offering = "pending"
  /\ tube' = "offered"
  /\ UNCHANGED <<incoming, receiver, askerVars, sessionVars, harmed>>

\* Refused, or the network, or one of the two desktops has gone.
TubeCloses ==
  /\ tube \in {"made", "offered", "connected"}
  /\ tube' = "closed"
  /\ UNCHANGED <<incoming, receiver, askerVars, sessionVars, harmed>>

AskerNext ==
  \/ Share \/ AccountPrepared \/ ConnectionPrepared \/ CreateChannel
  \/ OfferAnswered \/ SocketConnected \/ Invalidated \/ CreateTubeCb

SessionNext ==
  \/ GotChannel \/ AcceptAnswered \/ SessionInvalidated
  \/ (\E half \in halves : HalfEnds(half))
  \/ SpliceCb

Next == AskerNext \/ SessionNext \/ OfferArrives \/ TubeCloses

Spec == Init /\ [][Next]_vars

-----------------------------------------------------------------------------
(* Properties.                                                             *)

SetupTypeOK ==
  /\ tube \in {"none", "made", "offered", "connected", "closed"}
  /\ receiver \in Receivers /\ program \in Programs
  /\ stage \in {"share", "account", "connection", "channel", "tube", "over"}
  /\ {incoming, cancelled, failed, hears, told, sessionHears, sessionTold,
      spliceDone, stopping} \subseteq BOOLEAN
  /\ {accepting, offering} \subseteq {"none", "pending", "over"}
  /\ {simple, completing, ending} \subseteq 0 .. 3
  /\ {channel, listed} \subseteq {"none", "held", "gone"}
  /\ answers \in Seq({"ready", "failed"})
  /\ session \in {"none", "accepting", "spliced", "over"}
  /\ halves \subseteq {"to relay", "to tube"}
  /\ harmed \subseteq {"asker", "session"}

One(condition) == IF condition THEN 1 ELSE 0

\* The result lives exactly as long as a callback will still use it: none of
\* them finds it freed, and it is freed with the last one.
ResultOutlivesCallbacks ==
  /\ simple = One(stage = "channel") + One(accepting = "pending")
                + One(offering = "pending") + completing
  /\ hears => simple > 0

\* A channel is used without being held only by the plugin, and only if the
\* channel has been invalidated before its request was answered (at the end that
\* asks) or before the session was over (at the other end).
OnlyInvalidationHarms ==
  /\ "asker" \in harmed => program = "plugin" /\ told
  /\ "session" \in harmed => sessionTold

\* The requester gets one answer, and that the tube is ready only once somebody
\* has connected to it.
Requested == INSTANCE TubeRequest WITH taken <- incoming
ImplementsRequest == Requested!Spec

\* Nobody tells the requester: the plugin takes no note that its channel has
\* been closed, and nobody who waits for a connection gives up.
NeverTold ==
  /\ stage = "tube" /\ accepting = "pending" /\ offering = "over"
  /\ \/ program = "plugin" /\ told
     \/ receiver = "absent" /\ tube = "offered"

\* When a tube has been closed, the relay's connection is given up too, and the
\* reference to the channel.
SessionsEnd ==
  tube = "closed" ~> /\ session \in {"none", "over"}
                     /\ halves = {}
                     /\ listed \in {"none", "gone"}
=============================================================================
