------------------------------- MODULE Chooser -------------------------------
(***************************************************************************)
(* The connector's windows (src/src/connector): the main window, whose     *)
(* button starts the choice of a window, and a dialogue to choose the      *)
(* contact.  One loop runs it all, and a dialogue is modal; but a timeout  *)
(* runs in spite of it, and the window to share is kept in one place for   *)
(* all the dialogues.                                                      *)
(***************************************************************************)
EXTENDS Naturals, Sequences, FiniteSets
LOCAL INSTANCE Functions

CONSTANTS
  Root, Own,    \* the root window and the connector's main window
  Kids,         \* the windows in each child of the root
  Accounts, Contacts,
  Length,       \* bytes of their names
  MaxTimeouts, MaxDialogues, MaxReports  \* bounds

None == "None"
Tops == DOMAIN Kids
Chosen == (Tops \union UNION {Kids[t] : t \in Tops}) \ {Own}

ASSUME ChooserAssumption ==
  /\ None \notin Chosen \union Contacts /\ Root \notin Chosen /\ Root # Own
  /\ \A t \in Tops : IsFiniteSet(Kids[t]) /\ Kids[t] \intersect Tops = {}
  /\ Length \in [Accounts \union Contacts -> Nat]
  /\ MaxTimeouts \in Nat /\ MaxDialogues \in Nat /\ MaxReports \in Nat

VARIABLES
  loop,       \* gtk_main is "running", "quitting" or "over"
  toggled,    \* the button is active
  timeouts,   \* calls of select_a_window that are due
  main,       \* the context of the main window is "live" or "freed"
  window,     \* context.window of xzibit.c
  dialogues,  \* a ContactContext for each dialogue so far
  listings,   \* what list_contacts has called back with, for each of them
  shares,     \* the calls of window_set_sharing
  harm        \* memory that was used after it had been freed

mainVars == <<loop, toggled, timeouts, main, window>>
vars == <<mainVars, dialogues, listings, shares, harm>>

Init ==
  /\ loop = "running" /\ toggled = FALSE /\ timeouts = 0 /\ main = "live"
  /\ window = None
  /\ dialogues = <<>> /\ listings = <<>> /\ shares = <<>>
  /\ harm = {}

Open == {d \in DOMAIN dialogues : ~dialogues[d].closed}

\* The dialogue that has the input: the last one, for they are modal.
InFront(d) == loop = "running" /\ d \in Open /\ \A e \in Open : e <= d

\* button_toggled, by the user, who reaches the main window only when no
\* dialogue is open.
ButtonToggled ==
  /\ loop = "running" /\ Open = {}
  /\ toggled' = ~toggled
  /\ IF toggled THEN UNCHANGED timeouts
     ELSE timeouts < MaxTimeouts /\ timeouts' = timeouts + 1
  /\ UNCHANGED <<loop, main, window, dialogues, listings, shares, harm>>

\* main_window_closed, and gtk_main_quit with it.
MainWindowClosed ==
  /\ loop = "running" /\ Open = {}
  /\ main' = "freed"
  /\ loop' = "quitting"
  /\ UNCHANGED <<toggled, timeouts, window, dialogues, listings, shares, harm>>

\* gtk_main returns when this round of the loop is done.
GtkMainReturns ==
  /\ loop = "quitting"
  /\ loop' = "over"
  /\ UNCHANGED <<toggled, timeouts, main, window, dialogues, listings, shares,
                 harm>>

\* Mutant of UnframeWindow: the frame itself is taken.
UnframeWindowNot(w) == IF w = Root THEN {None} ELSE {None, w}

\* unframe_window.  A window that is gone by now cannot be examined.
UnframeWindow(w) ==
  IF w = Root THEN {None}
  ELSE {None, IF Cardinality(Kids[w]) = 1 THEN CHOOSE k \in Kids[w] : TRUE ELSE w}

\* A new ContactContext (show_contact_chooser).
NewContext(w) ==
  [for |-> w, sources |-> {}, selected |-> None,
   closed |-> FALSE, seen_all_contacts |-> FALSE, context |-> "live"]

\* chosen_window: the window is remembered, a dialogue shown, and a search for
\* contacts started.
ChosenWindow(w) ==
  /\ Len(dialogues) < MaxDialogues
  /\ window' = w
  /\ dialogues' = Append(dialogues, NewContext(w))
  /\ listings' = Append(listings, [reported |-> <<>>, ended |-> 0])

\* select_a_window: the pointer is grabbed and nothing else runs until the user
\* has clicked somewhere (Select_Window).
SelectAWindow ==
  /\ loop = "running" /\ timeouts > 0
  /\ timeouts' = timeouts - 1
  /\ toggled' = FALSE
  /\ \E w \in Tops \union {Root} : \E result \in UnframeWindow(w) :
       IF result \in {None, Own}
       THEN UNCHANGED <<window, dialogues, listings>>
       ELSE ChosenWindow(result)
  /\ UNCHANGED <<loop, main, shares, harm>>

\* Another program has the pointer, and Select_Window exits.
CannotGrab ==
  /\ loop = "running" /\ timeouts > 0
  /\ loop' = "over"
  /\ UNCHANGED <<toggled, timeouts, main, window, dialogues, listings, shares,
                 harm>>

\* A timeout that is due in the round of the loop in which the main window was
\* closed: its context is gone.
SelectTooLate ==
  /\ loop = "quitting" /\ timeouts > 0
  /\ harm' = harm \union {"main"}
  /\ loop' = "over"
  /\ UNCHANGED <<toggled, timeouts, main, window, dialogues, listings, shares>>

\* Mutant of MaybeFree: it is enough that the dialogue is closed.
MaybeFreeEarly(c) == IF c.closed THEN [c EXCEPT !.context = "freed"] ELSE c

\* context_maybe_free.
MaybeFree(c) ==
  IF c.closed /\ c.seen_all_contacts THEN [c EXCEPT !.context = "freed"] ELSE c

Known(c) == {s.target : s \in c.sources}

\* Mutant of Learn: it is not looked up whether the contact is known.
LearnAlways(c, a, t) ==
  [c EXCEPT !.sources = @ \union {[target |-> t, source |-> a]}]

\* A row for a contact, unless it is known from another account.
Learn(c, a, t) ==
  IF t \in Known(c) THEN c
  ELSE [c EXCEPT !.sources = @ \union {[target |-> t, source |-> a]}]

\* add_contact changes the context of a dialogue to c.
Added(d, c) ==
  /\ harm' = IF dialogues[d].context = "freed" THEN harm \union {"context"} ELSE harm
  /\ dialogues' = [dialogues EXCEPT ![d] = c]
  /\ UNCHANGED <<mainVars, shares>>

\* The search of this dialogue calls back as ContactList promises.
Listing(d) == loop = "running" /\ listings[d].ended = 0

\* add_contact, for one contact of one account.
AddContact(d, a, t) ==
  /\ Listing(d) /\ Len(listings[d].reported) < MaxReports
  /\ [source |-> a, target |-> t] \notin Range(listings[d].reported)
  /\ listings' =
       [listings EXCEPT ![d].reported = Append(@, [source |-> a, target |-> t])]
  /\ Added(d, Learn(dialogues[d], a, t))

\* add_contact, when there are no more contacts.
AllContactsSeen(d) ==
  /\ Listing(d)
  /\ listings' = [listings EXCEPT ![d].ended = 1]
  /\ Added(d, MaybeFree([dialogues[d] EXCEPT !.seen_all_contacts = TRUE]))

\* The user selects a row, which enables the OK button (enable_ok_button).
SelectRow(d, t) ==
  /\ InFront(d) /\ t \in Known(dialogues[d])
  /\ dialogues' = [dialogues EXCEPT ![d].selected = t]
  /\ UNCHANGED <<mainVars, listings, shares, harm>>

\* window_set_sharing stores as many bytes of the target as the source has: it,
\* or its beginning, or it and what follows in memory.
Stored(source, target) ==
  IF Length[source] = Length[target] THEN target
  ELSE IF Length[source] < Length[target] THEN "beginning" ELSE "overrun"

\* chosen_callback: the window is read from where the last choice put it.
ChosenCallback(d, s) ==
  shares' = Append(shares, [dialogue |-> d, window |-> window,
                            source |-> s.source, chosen |-> s.target,
                            target |-> Stored(s.source, s.target),
                            latest |-> Len(dialogues)])

\* handle_response.  OK needs a row; Cancel and closing the window do not.
HandleResponse(d) ==
  /\ InFront(d)
  /\ \/ /\ dialogues[d].selected # None
        /\ \E s \in dialogues[d].sources :
             s.target = dialogues[d].selected /\ ChosenCallback(d, s)
     \/ UNCHANGED shares
  /\ dialogues' = [dialogues EXCEPT ![d] = MaybeFree([@ EXCEPT !.closed = TRUE])]
  /\ UNCHANGED <<mainVars, listings, harm>>

Next ==
  \/ ButtonToggled \/ MainWindowClosed \/ GtkMainReturns
  \/ SelectAWindow \/ CannotGrab \/ SelectTooLate
  \/ \E d \in DOMAIN dialogues :
       \/ \E a \in Accounts, t \in Contacts : AddContact(d, a, t)
       \/ AllContactsSeen(d)
       \/ \E t \in Contacts : SelectRow(d, t)
       \/ HandleResponse(d)

Spec == Init /\ [][Next]_vars
-----------------------------------------------------------------------------
\* A dialogue's record.
Context ==
  [for : Chosen, sources : SUBSET [target : Contacts, source : Accounts],
   selected : Contacts \union {None}, closed : BOOLEAN,
   seen_all_contacts : BOOLEAN, context : {"live", "freed"}]

\* What its search has reported.
Report == [source : Accounts, target : Contacts]
SearchCalls == [reported : Seq(Report), ended : {0, 1}]

Share ==
  [dialogue : Nat, window : Chosen, source : Accounts, chosen : Contacts,
   target : Contacts \union {"beginning", "overrun"}, latest : Nat]

\* Every variable has its type; a contact has one source; and what is selected
\* has one.
ChooserTypeOK ==
  /\ loop \in {"running", "quitting", "over"} /\ toggled \in BOOLEAN
  /\ timeouts \in 0..MaxTimeouts /\ main \in {"live", "freed"}
  /\ window \in Chosen \union {None}
  /\ dialogues \in Seq(Context) /\ Len(dialogues) <= MaxDialogues
  /\ listings \in Seq(SearchCalls) /\ Len(listings) = Len(dialogues)
  /\ \A d \in DOMAIN dialogues :
       /\ dialogues[d].selected \in Known(dialogues[d]) \union {None}
       /\ Cardinality(dialogues[d].sources) = Cardinality(Known(dialogues[d]))
  /\ shares \in Seq(Share)
  /\ harm \subseteq {"main", "context"}

\* However the end of the search and the end of the dialogue fall together, the
\* context of a dialogue (context_maybe_free) is freed when both have come, and
\* is not used after that.
ContextFreedWhenDone ==
  /\ "context" \notin harm
  /\ \A d \in DOMAIN dialogues :
       dialogues[d].context = "freed"
         <=> dialogues[d].closed /\ listings[d].ended = 1

\* The first report of a contact is from this account.
FirstFrom(reported, account, contact) ==
  \E i \in DOMAIN reported :
    /\ reported[i] = [source |-> account, target |-> contact]
    /\ \A j \in 1 .. i - 1 : reported[j].target # contact

\* What is shared is what the user chose in this dialogue: the contact, unless its
\* name and its account's differ in length (window_set_sharing), from the account
\* it was shown for, the first one to report it; and the window, unless a choice
\* that was still due overtook it (chosen_window).  It is never the connector's
\* own window, nor a frame, which has one window in it (unframe_window).  A
\* dialogue shares once.
SharesTheChoice ==
  \A i \in DOMAIN shares : LET s == shares[i] IN
    /\ FirstFrom(listings[s.dialogue].reported, s.source, s.chosen)
    /\ s.target = s.chosen \/ Length[s.source] # Length[s.chosen]
    /\ \/ s.window = dialogues[s.dialogue].for
       \/ \E e \in s.dialogue + 1 .. s.latest : s.window = dialogues[e].for
    /\ s.window # Own
    /\ ~ \E t \in Tops : s.window = t /\ Cardinality(Kids[t]) = 1
    /\ \A j \in DOMAIN shares : shares[j].dialogue = s.dialogue => i = j
=============================================================================
