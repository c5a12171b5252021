---------------------------- MODULE ResultMonitor ----------------------------
(***************************************************************************)
(* How the connector learns what became of a request to share a window     *)
(* (src/src/connector/sharing.c, messagebox.c).  The request is a property *)
(* of the window, and so is the plugin's answer.  A property is read when  *)
(* the notice of its change is handled, so that the value found may be     *)
(* that of a later change.  Each request to follow up adds a filter to the *)
(* window; each filter hears every answer, and may show a message box.     *)
(*                                                                         *)
(* monitor_window does not ask for the notices.  They come for a window of *)
(* the connector's own, for which GTK has asked; for another program's     *)
(* they come only if something in the connector has asked before.          *)
(***************************************************************************)
EXTENDS Naturals, Sequences

CONSTANTS
  Progress,    \* codes that say that the answer is still to come
  MaxRequests

NotShared == 0
Sent == 1
Unshareable == 3

Nothing == 0  \* no code has been set
Final == {102, 103, 301}

ASSUME ResultMonitorAssumption ==
  Progress \subseteq 200..299 /\ MaxRequests \in Nat

VARIABLES
  hears,     \* the X server tells the connector of changes to the window
  share,     \* _XZIBIT_SHARE of the window
  asked,     \* notices of its change the plugin has not handled
  tube,      \* the plugin has a tube (bottom_fd is not -1)
  setups,    \* tubes it is setting up
  result,    \* _XZIBIT_RESULT of the window
  news,      \* notices of its change the connector has not handled
  filters,   \* the FilterContext of each request so far
  owed,      \* filters that were there when the last final answer was set
  early,     \* the user has closed a box that promised an answer
  harm       \* a dialogue was used after it had been destroyed

wmVars == <<tube, setups>>
vars == <<hears, share, asked, wmVars, result, news, filters, owed, early, harm>>

Init ==
  /\ hears \in BOOLEAN
  /\ share = NotShared /\ asked = 0
  /\ tube = FALSE /\ setups = 0
  /\ result = Nothing /\ news = 0
  /\ filters = <<>> /\ owed = {} /\ early = FALSE /\ harm = FALSE

On == {f \in DOMAIN filters : filters[f].on}

(***************************************************************************)
(* Message boxes.                                                          *)
(***************************************************************************)

\* messagebox_new.
NewBox == [ref_count |-> 1, box |-> "none", promise |-> FALSE]

\* Mutant of Show: the dialogue takes no reference of its own.
ShowUncounted(b, promise) ==
  IF b.box = "none" THEN [b EXCEPT !.box = "open", !.promise = promise]
  ELSE [b EXCEPT !.promise = promise]

\* messagebox_show: the first time, a dialogue that holds a reference; after
\* that its text is changed, without a look at whether it is still there.
Show(b, promise) ==
  IF b.box = "none"
  THEN [ref_count |-> b.ref_count + 1, box |-> "open", promise |-> promise]
  ELSE [b EXCEPT !.promise = promise]

\* Mutant of Unref: a reference too many.
UnrefTwice(b) == [b EXCEPT !.ref_count = IF @ > 1 THEN @ - 2 ELSE 0]

\* messagebox_unref; the box is freed at zero.
Unref(b) == [b EXCEPT !.ref_count = @ - 1]

\* The user closes a dialogue (messagebox_response).  The box goes on pointing
\* at it.
Dismiss(f, i) ==
  /\ LET b == filters[f].boxes[i] IN
       /\ b.box = "open"
       /\ filters' =
            [filters EXCEPT ![f].boxes[i] = [Unref(b) EXCEPT !.box = "destroyed"]]
       /\ early' = (early \/ b.promise)
  /\ UNCHANGED <<hears, share, asked, wmVars, result, news, owed, harm>>

(***************************************************************************)
(* The connector.                                                          *)
(***************************************************************************)

\* window_set_sharing with follow_up: monitor_window adds the filter, and then
\* the property is set.  A window is made unshareable when it is created, and is
\* the connector's own.
SetSharing(sharing) ==
  /\ Len(filters) < MaxRequests
  /\ sharing = Unshareable => hears /\ filters = <<>>
  /\ filters' = Append(filters, [on |-> TRUE, boxes |-> <<>>])
  /\ share' = sharing
  /\ asked' = asked + 1
  /\ UNCHANGED <<hears, wmVars, result, news, owed, early, harm>>

\* The box of a context is the last it made; the others it has lost.
LastBox(c) == Len(c.boxes)

\* Mutant of Heard: the filter stays when the answer is final.
HeardStays(c, code) ==
  IF code \in 200..299
  THEN [c EXCEPT !.boxes = Append(@, Show(NewBox, TRUE))]
  ELSE IF c.boxes = <<>> \/ code = 103 THEN c
  ELSE [c EXCEPT !.boxes[LastBox(c)] = Show(@, FALSE)]

\* event_filter, for one context: a code of the 200s makes a new box; any other
\* is the last.  103 has no message, and without a box the message has a
\* dialogue of its own, which nobody refers to.
Heard(c, code) ==
  IF code \in 200..299
  THEN [c EXCEPT !.boxes = Append(@, Show(NewBox, TRUE))]
  ELSE IF c.boxes = <<>> THEN [c EXCEPT !.on = FALSE]
  ELSE [c EXCEPT !.on = FALSE,
                 !.boxes[LastBox(c)] =
                   Unref(IF code = 103 THEN @ ELSE Show(@, FALSE))]

\* A dialogue that is no longer there is given a new text.
ShowsDestroyed(c, code) ==
  /\ code \notin 200..299 /\ code # 103
  /\ c.boxes # <<>> /\ c.boxes[LastBox(c)].box = "destroyed"

\* The notice of an answer goes through all the filters of the window; they read
\* what the property is now.
EventFilter ==
  /\ news > 0
  /\ news' = news - 1
  /\ filters' = [f \in DOMAIN filters |->
                   IF f \in On THEN Heard(filters[f], result) ELSE filters[f]]
  /\ harm' = (harm \/ \E f \in On : ShowsDestroyed(filters[f], result))
  /\ UNCHANGED <<hears, share, asked, wmVars, result, owed, early>>

(***************************************************************************)
(* The plugin.                                                             *)
(***************************************************************************)

\* window_set_result_property.
SetResult(code) ==
  /\ result' = code
  /\ news' = IF hears THEN news + 1 ELSE news
  /\ owed' = IF code \in Final THEN On ELSE owed

\* share_window: nothing is said of a window that goes into a tube that is
\* there; otherwise the account is no good, or the rest is up to the tube.
ShareWindow ==
  IF tube THEN UNCHANGED <<setups, result, news, owed>>
  ELSE \/ SetResult(301) /\ UNCHANGED setups
       \/ setups' = setups + 1 /\ UNCHANGED <<result, news, owed>>

\* The notice of a request (xevent_filter, set_sharing_state), which reads what
\* the property is now.
SharingChanged ==
  /\ asked > 0
  /\ asked' = asked - 1
  /\ \/ share = Unshareable /\ SetResult(103) /\ UNCHANGED setups
     \/ share = Sent /\ ShareWindow
  /\ UNCHANGED <<hears, share, tube, filters, early, harm>>

\* create_tube_cb: with a tube, or without.
TubeCreated ==
  /\ setups > 0
  /\ setups' = setups - 1
  /\ \/ SetResult(102) /\ tube' = TRUE
     \/ SetResult(301) /\ UNCHANGED tube
  /\ UNCHANGED <<hears, share, asked, filters, early, harm>>

\* The tube is invalidated while it is being set up, and no answer is set.
TubeForgotten ==
  /\ setups > 0
  /\ setups' = setups - 1
  /\ UNCHANGED <<hears, share, asked, tube, result, news, filters, owed, early,
                 harm>>

\* A window manager that says that it is connecting.  event_filter is prepared
\* for one, and src/doc/properties.txt promises it; this plugin never does.
SaysConnecting ==
  /\ setups > 0 /\ result \notin Progress
  /\ \E code \in Progress : SetResult(code)
  /\ UNCHANGED <<hears, share, asked, wmVars, filters, early, harm>>

Next ==
  \/ \E sharing \in {Sent, Unshareable} : SetSharing(sharing)
  \/ \E f \in DOMAIN filters : \E i \in DOMAIN filters[f].boxes : Dismiss(f, i)
  \/ EventFilter
  \/ SharingChanged \/ TubeCreated \/ TubeForgotten \/ SaysConnecting

Spec == Init /\ [][Next]_vars

\* The connector and the plugin handle their notices.
FairSpec == Spec /\ WF_vars(EventFilter) /\ WF_vars(SharingChanged)
-----------------------------------------------------------------------------
Box == [ref_count : 0..2, box : {"none", "open", "destroyed"}, promise : BOOLEAN]

\* A filter, and the boxes it has made.
FilterContext == [on : BOOLEAN, boxes : Seq(Box)]

\* Every variable has its type.
MonitorTypeOK ==
  /\ hears \in BOOLEAN
  /\ share \in {NotShared, Sent, Unshareable} /\ asked \in Nat
  /\ tube \in BOOLEAN /\ setups \in Nat
  /\ result \in {Nothing} \union Progress \union Final /\ news \in Nat
  /\ filters \in Seq(FilterContext) /\ Len(filters) <= MaxRequests
  /\ owed \subseteq DOMAIN filters
  /\ early \in BOOLEAN /\ harm \in BOOLEAN

\* A message box has a reference for its dialogue while the user has it open and
\* one for the filter that waits to change its text, so that it is freed when
\* both are done.  Only boxes replaced by a later one keep theirs for ever.
ReferencesCounted ==
  \A f \in DOMAIN filters : LET c == filters[f] IN
    \A i \in DOMAIN c.boxes :
      c.boxes[i].ref_count =
        (IF c.boxes[i].box = "open" THEN 1 ELSE 0)
        + (IF c.on \/ i < LastBox(c) THEN 1 ELSE 0)

\* A dialogue is used after it has been destroyed only if the user has closed a
\* box that said to wait: a box with an answer may be closed at any time.
OnlyEarlyDismissalHarms == harm => early

\* If the connector is told of changes to the window, a filter that was there when
\* a final answer was set goes away (event_filter), unless by the time it looked a
\* new connection was being waited for.  If it is not told, as of a window for
\* which nobody has asked, the filter of a request may wait for ever.
FiltersGo ==
  \A f \in 1..MaxRequests :
    hears /\ f \in owed ~> (f \notin On \/ result \in Progress)
=============================================================================
