---------------------------- MODULE ContactSearch ---------------------------
(***************************************************************************)
(* Finding somebody to share with: the accounts that are online and can    *)
(* stream tubes, then the contacts of these accounts.  Two programs do it, *)
(* the connector for all accounts at once (src/src/connector/              *)
(* list-contacts.c), and jupiter for one the user chooses (src/src/jupiter *)
(* /client.c).  Both come from the same program; only in what they do with *)
(* a failure do they differ, and that is what matters here.                *)
(***************************************************************************)
EXTENDS Naturals, FiniteSets

CONSTANTS
  Accounts,   \* finitely many
  Contacts,
  Programs   \* of "connector", "jupiter"

VARIABLES
  program,     \* one of Programs
  given,       \* what jupiter's command line names: "account", "contact"
  manager,     \* the account manager is "pending", "prepared" or "failed" (or absent)
  preparing,   \* accounts whose connection is being prepared
  n_readying,  \* n_readying_connections
  accounts,    \* context->accounts
  step,        \* what an account's chain of callbacks waits for
  n_pending,   \* n_pending_accounts
  context,     \* "live" or "freed"
  reported,    \* <<account, contact>> the callback has been called with
  ended,       \* times it has been called without
  outcome      \* "none"; jupiter: "error", "tube"; connector: "crash"

searchVars == <<preparing, n_readying, accounts>>
chainVars  == <<step, n_pending>>
vars == <<program, given, manager, searchVars, chainVars, context, reported,
          ended, outcome>>

\* Without D-Bus there is no account manager to ask: jupiter ends with an error, and
\* list_contacts returns before there is a context, let alone a callback.
Init ==
  /\ program \in Programs
  /\ given \in IF program = "jupiter" THEN SUBSET {"account", "contact"} ELSE {{}}
  /\ manager \in {"pending", "failed"}
  /\ preparing = {} /\ n_readying = 0 /\ accounts = {}
  /\ step = [a \in Accounts |-> "none"]
  /\ n_pending = 0
  /\ context = "live"
  /\ reported = {} /\ ended = 0
  /\ outcome = IF manager = "failed" /\ program = "jupiter" THEN "error" ELSE "none"

\* jupiter's main loop ends with an error, and a null pointer ends the connector.
Running == outcome = "none"

\* throw_error.
ThrowError == outcome' = "error" /\ UNCHANGED chainVars

\* Ask for the channel with the stored contacts of these accounts.
Ask(who) ==
  /\ step' = [a \in Accounts |-> IF a \in who THEN "ensure" ELSE step[a]]
  /\ n_pending' = n_pending + Cardinality(who)
  /\ UNCHANGED outcome

\* start_tube: the rest is TubeSetup's.
StartTube == outcome' = "tube" /\ UNCHANGED chainVars

\* chooser_contact of jupiter.
ChooserContact(a) == IF "contact" \in given THEN StartTube ELSE Ask({a})

\* chooser_account of jupiter: the user may choose none of those offered.
ChooserAccount(candidates) ==
  IF candidates = {} THEN ThrowError
  ELSE \/ \E a \in candidates : ChooserContact(a)
       \/ "account" \notin given /\ ThrowError

\* Mutant of AllReady: accounts are counted when they answer, one at a time.
AllReadyLate(candidates) ==
  IF program = "jupiter" THEN ChooserAccount(candidates)
  ELSE /\ step' = [a \in Accounts |->
                     IF a \in candidates THEN "ensure" ELSE step[a]]
       /\ n_pending' = 1
       /\ UNCHANGED outcome

\* No connection is being prepared any more.
AllReady(candidates) ==
  IF program = "jupiter" THEN ChooserAccount(candidates) ELSE Ask(candidates)

\* account_manager_prepare_cb.  The connector only complains if the manager
\* fails, or if no account is online.
ManagerPrepared ==
  /\ Running /\ manager = "pending" /\ "account" \notin given
  /\ \/ /\ manager' = "failed"
        /\ IF program = "jupiter" THEN ThrowError
                                  ELSE UNCHANGED <<chainVars, outcome>>
        /\ UNCHANGED searchVars
     \/ /\ manager' = "prepared"
        /\ \E online \in SUBSET Accounts :
             /\ accounts' = online
             /\ preparing' = online
             /\ n_readying' = Cardinality(online)
             /\ IF online = {} /\ program = "jupiter"
                THEN ChooserAccount({})
                ELSE UNCHANGED <<chainVars, outcome>>
  /\ UNCHANGED <<program, given, context, reported, ended>>

\* account_prepare_cb of jupiter, for the account of the command line.
AccountPrepared ==
  /\ Running /\ manager = "pending" /\ "account" \in given
  /\ manager' = "prepared"
  /\ \/ /\ ThrowError
        /\ UNCHANGED searchVars
     \/ /\ \E a \in Accounts : accounts' = {a} /\ preparing' = {a}
        /\ n_readying' = 1
        /\ UNCHANGED <<chainVars, outcome>>
  /\ UNCHANGED <<program, given, context, reported, ended>>

\* Mutant of ConnectionPrepared: a connection that fails is not counted down.
ConnectionPreparedUncounted(a) ==
  /\ Running /\ a \in preparing
  /\ preparing' = preparing \ {a}
  /\ accounts' \in {accounts, accounts \ {a}}
  /\ n_readying' = IF a \in accounts' THEN n_readying - 1 ELSE n_readying
  /\ IF n_readying' = 0 THEN AllReady(accounts')
                        ELSE UNCHANGED <<chainVars, outcome>>
  /\ UNCHANGED <<program, given, manager, context, reported, ended>>

\* connection_prepare_cb: an account whose connection fails, or cannot stream
\* tubes, leaves the list.  The last connection goes on with those that stay.
ConnectionPrepared(a) ==
  /\ Running /\ a \in preparing
  /\ preparing' = preparing \ {a}
  /\ accounts' \in {accounts, accounts \ {a}}
  /\ n_readying' = n_readying - 1
  /\ IF n_readying' = 0 THEN AllReady(accounts')
                        ELSE UNCHANGED <<chainVars, outcome>>
  /\ UNCHANGED <<program, given, manager, context, reported, ended>>

\* A callback of an account's chain got an error.  jupiter stops; the connector
\* returns, and nobody waits less for it.
Lose(a) ==
  IF program = "jupiter"
  THEN ThrowError
  ELSE /\ step' = [step EXCEPT ![a] = "lost"]
       /\ UNCHANGED <<n_pending, outcome>>

ChainUnchanged ==
  UNCHANGED <<program, given, manager, searchVars, context, reported, ended>>

\* ensure_stored_channel_cb.  If Telepathy answers with an error, the connector
\* prints the message of another one, which is a null pointer.
StoredChannelEnsured(a) ==
  /\ Running /\ step[a] = "ensure"
  /\ \/ /\ step' = [step EXCEPT ![a] = "prepare"]
        /\ UNCHANGED <<n_pending, outcome>>
     \/ Lose(a)
     \/ /\ program = "connector"
        /\ outcome' = "crash"
        /\ UNCHANGED chainVars
  /\ ChainUnchanged

\* stored_channel_prepare_cb.
StoredChannelPrepared(a) ==
  /\ Running /\ step[a] = "prepare"
  /\ \/ /\ step' = [step EXCEPT ![a] = "contacts"]
        /\ UNCHANGED <<n_pending, outcome>>
     \/ Lose(a)
  /\ ChainUnchanged

\* got_contacts_cb of the connector: a call for each contact that can stream
\* tubes, and the last account that answers ends the list.
ReportContacts(a, able) ==
  /\ program = "connector"
  /\ step' = [step EXCEPT ![a] = "done"]
  /\ reported' = reported \cup {<<a, c>> : c \in able}
  /\ n_pending' = n_pending - 1
  /\ IF n_pending' = 0
     THEN ended' = ended + 1 /\ context' = "freed"
     ELSE UNCHANGED <<ended, context>>
  /\ UNCHANGED outcome

\* got_contacts_cb of jupiter: the user chooses one, or none.
ChooseContact(able) ==
  /\ program = "jupiter"
  /\ ThrowError \/ (able # {} /\ StartTube)
  /\ UNCHANGED <<reported, ended, context>>

GotContacts(a) ==
  /\ Running /\ step[a] = "contacts"
  /\ \/ Lose(a) /\ UNCHANGED <<reported, ended, context>>
     \/ \E able \in SUBSET Contacts :
          ReportContacts(a, able) \/ ChooseContact(able)
  /\ UNCHANGED <<program, given, manager, searchVars>>

Next ==
  \/ ManagerPrepared
  \/ AccountPrepared
  \/ \E a \in Accounts :
       \/ ConnectionPrepared(a)
       \/ StoredChannelEnsured(a)
       \/ StoredChannelPrepared(a)
       \/ GotContacts(a)

Spec == Init /\ [][Next]_vars

-----------------------------------------------------------------------------
(* Properties.                                                             *)

Steps == {"none", "ensure", "prepare", "contacts", "done", "lost"}

Waiting == {a \in Accounts : step[a] \in {"ensure", "prepare", "contacts"}}
Lost    == {a \in Accounts : step[a] = "lost"}

SearchTypeOK ==
  /\ program \in Programs
  /\ manager \in {"pending", "prepared", "failed"}
  /\ preparing \subseteq Accounts /\ accounts \subseteq Accounts
  /\ {n_readying, n_pending, ended} \subseteq 0 .. Cardinality(Accounts)
  /\ step \in [Accounts -> Steps]
  /\ context \in {"live", "freed"}
  /\ reported \subseteq Accounts \X Contacts
  /\ outcome \in {"none", "error", "tube", "crash"}

\* The counters count what is still to come: the context is not freed as long as
\* a callback will use it, and an account that is lost keeps it for ever.
ContextOutlivesCallbacks ==
  /\ n_readying = Cardinality(preparing)
  /\ Running => n_pending = Cardinality(Waiting) + Cardinality(Lost)
  /\ context = "freed" => preparing \cup Waiting \cup Lost = {}

\* The callback is called for contacts first, then once without, then no more:
\* the chooser frees what it needs at that call.
List == INSTANCE ContactList
ImplementsList == List!Spec

\* The one who asked is never told that there is nothing more: no account is
\* online and able, or one of the callbacks has failed.
NeverEnds ==
  /\ program = "connector"
  /\ \/ manager = "failed"
     \/ manager = "prepared" /\ accounts = {}
     \/ Lost # {}
     \/ outcome = "crash"

\* Otherwise the search ends: for the connector with the last call, for jupiter
\* with a tube or an error, whatever fails.
SearchEnds == []<>(ended = 1 \/ outcome # "none" \/ NeverEnds)
=============================================================================
