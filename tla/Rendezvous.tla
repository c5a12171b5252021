----------------------------- MODULE Rendezvous -----------------------------
(***************************************************************************)
(* From nobody to a tube: the search for a contact (ContactSearch) and,    *)
(* once there is one, the request for a tube (TubeSetup).  jupiter does    *)
(* both itself, one after the other.  The connector only finds the         *)
(* contact; when the user has chosen, the plugin asks for the tube, and    *)
(* the search for more contacts goes on by itself.                         *)
(***************************************************************************)
EXTENDS TubeSetup, FiniteSets

CONSTANTS Accounts, Contacts

ASSUME RendezvousAssumption == IsFiniteSet(Accounts)

VARIABLES
  searcher,  \* the program that searches: "connector", "jupiter"
  given, manager, preparing, n_readying, accounts, step, n_pending, context,
  reported, ended, outcome   \* those of ContactSearch

Search ==
  INSTANCE ContactSearch WITH
    Programs <- {IF p = "plugin" THEN "connector" ELSE p : p \in Programs},
    program <- searcher

searchVars == <<searcher, given, manager, preparing, n_readying, accounts, step,
                n_pending, context, reported, ended, outcome>>
rendezvousVars == <<vars, searchVars>>

RendezvousInit ==
  /\ Init /\ Search!Init
  /\ searcher = "jupiter" <=> program = "jupiter"

\* There is somebody to ask for a tube: start_tube in jupiter, or a row in the
\* connector's dialogue.
Found ==
  \/ outcome = "tube"
  \/ searcher = "connector" /\ reported # {} /\ outcome # "crash"

\* create_tube_async of jupiter, or share_window: the first step of the setup.
Begin == Found /\ Share /\ UNCHANGED searchVars

\* A step of the setup alone.
Setup(A) == stage # "share" /\ A /\ UNCHANGED searchVars

GoOn == Setup(Next)

Look == Search!Next /\ UNCHANGED vars

RendezvousNext == Begin \/ GoOn \/ Look

RendezvousSpec == RendezvousInit /\ [][RendezvousNext]_rendezvousVars

\* D-Bus calls are answered, with an error at the latest when they time out, and
\* signals are delivered; the user answers questions; the main loop serves what
\* is ready; and splicing ends when its connection is closed or it is cancelled.
RendezvousFairness ==
  /\ WF_rendezvousVars(Look)
  /\ WF_rendezvousVars(Begin)
  /\ WF_rendezvousVars(Setup(AccountPrepared \/ ConnectionPrepared \/ CreateChannel))
  /\ WF_rendezvousVars(Setup(OfferAnswered))
  /\ WF_rendezvousVars(Setup(SocketConnected))
  /\ WF_rendezvousVars(Setup(Invalidated))
  /\ WF_rendezvousVars(Setup(CreateTubeCb))
  /\ WF_rendezvousVars(Setup(GotChannel))
  /\ WF_rendezvousVars(Setup(AcceptAnswered))
  /\ WF_rendezvousVars(Setup(SessionInvalidated))
  /\ WF_rendezvousVars(Setup((tube = "closed" \/ stopping)
                             /\ \E half \in halves : HalfEnds(half)))
  /\ WF_rendezvousVars(Setup(SpliceCb))

FairRendezvousSpec == RendezvousSpec /\ RendezvousFairness

-----------------------------------------------------------------------------
(* Properties.                                                             *)

\* Every variable has its type.
RendezvousTypeOK == SetupTypeOK /\ Search!SearchTypeOK

\* What callbacks share (the result of the setup, the context of the search)
\* lives exactly as long as one of them will still use it.
SharedOutlivesCallbacks ==
  ResultOutlivesCallbacks /\ Search!ContextOutlivesCallbacks

\* The callback of list_contacts is called for contacts first, then once
\* without, then no more: the chooser frees what it needs at that call.
ImplementsList == Search!ImplementsList

\* Whoever looks for somebody is told how the search ends, and whoever asks for
\* a tube whether there is one, except for the ways in which the code falls
\* silent (NeverEnds of the search, NeverTold of the setup).
EverybodyIsTold ==
  /\ Search!SearchEnds
  /\ outcome = "tube" \/ stage # "share"
       ~> answers # <<>> \/ NeverTold \/ harmed # {}
=============================================================================
