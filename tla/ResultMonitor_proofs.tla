------------------------- MODULE ResultMonitor_proofs ------------------------
(***************************************************************************)
(* Theorems about ResultMonitor, for any codes and any number of requests. *)
(***************************************************************************)
EXTENDS ResultMonitor, TLAPS

\* What a box of a context has: its references, and, while the filter is there,
\* a promise that only an early dismissal has broken.
BoxOK(c, i, dismissed) ==
  LET b == c.boxes[i] IN
    /\ b.box # "none"
    /\ b.ref_count = (IF b.box = "open" THEN 1 ELSE 0)
                     + (IF c.on \/ i < LastBox(c) THEN 1 ELSE 0)
    /\ c.on => b.promise = TRUE
    /\ c.on /\ b.box = "destroyed" => dismissed

ContextOK(c, dismissed) ==
  c \in FilterContext /\ \A i \in DOMAIN c.boxes : BoxOK(c, i, dismissed)

MonitorInv ==
  /\ MonitorTypeOK
  /\ \A f \in DOMAIN filters : ContextOK(filters[f], early)
  /\ OnlyEarlyDismissalHarms

-----------------------------------------------------------------------------
(* Sequences the prover sees best with their elements left abstract.       *)

LEMMA Ends ==
  ASSUME NEW S, NEW s \in Seq(S), NEW e \in S
  PROVE  /\ Len(s) \in Nat /\ DOMAIN s = 1 .. Len(s)
         /\ \A i \in DOMAIN s : s[i] \in S
         /\ Append(s, e) \in Seq(S) /\ Len(Append(s, e)) = Len(s) + 1
         /\ DOMAIN Append(s, e) = 1 .. Len(s) + 1
         /\ \A i \in 1 .. Len(s) : Append(s, e)[i] = s[i]
         /\ Append(s, e)[Len(s) + 1] = e
OBVIOUS

LEMMA Replaced ==
  ASSUME NEW S, NEW s \in Seq(S), NEW e \in S, NEW i \in DOMAIN s
  PROVE  LET r == [s EXCEPT ![i] = e] IN
         /\ r \in Seq(S) /\ Len(r) = Len(s) /\ DOMAIN r = DOMAIN s
         /\ r[i] = e /\ \A j \in DOMAIN s \ {i} : r[j] = s[j]
OBVIOUS

LEMMA Mapped ==
  ASSUME NEW S, NEW s \in Seq(S), NEW g \in [DOMAIN s -> S]
  PROVE  g \in Seq(S) /\ Len(g) = Len(s)
OBVIOUS

LEMMA NothingYet ==
  ASSUME NEW S
  PROVE  <<>> \in Seq(S) /\ Len(<<>>) = 0 /\ DOMAIN <<>> = {}
OBVIOUS

LEMMA HasLast ==
  ASSUME NEW S, NEW s \in Seq(S), s # <<>>
  PROVE  Len(s) \in DOMAIN s
OBVIOUS

-----------------------------------------------------------------------------
LEMMA MonitorInit == Init => MonitorInv
<1> SUFFICES ASSUME Init PROVE MonitorInv
  OBVIOUS
<1>1. filters \in Seq(FilterContext) /\ Len(filters) = 0 /\ DOMAIN filters = {}
  BY NothingYet DEF Init
<1>2. early \in BOOLEAN /\ harm \in BOOLEAN
  BY DEF Init
<1>3. tube \in BOOLEAN
  BY DEF Init
<1>4. asked \in Nat /\ setups \in Nat /\ news \in Nat
  BY DEF Init
<1>5. hears \in BOOLEAN
  BY DEF Init
<1>6. MonitorTypeOK
  BY <1>1, <1>2, <1>3, <1>4, <1>5, ResultMonitorAssumption DEF Init, MonitorTypeOK
<1> QED BY <1>1, <1>6 DEF Init, MonitorInv, OnlyEarlyDismissalHarms

\* A filter hears an answer: its boxes stay in order.
LEMMA HeardKeeps ==
  ASSUME NEW c, NEW dismissed, ContextOK(c, dismissed), c.on, NEW code
  PROVE  ContextOK(Heard(c, code), dismissed)
<1> DEFINE n == Len(c.boxes)
           new == Show(NewBox, TRUE)
<1>1. c \in FilterContext /\ c.boxes \in Seq(Box) /\ n \in Nat
      /\ DOMAIN c.boxes = 1 .. n
      /\ \A i \in DOMAIN c.boxes : c.boxes[i] \in Box
  <2>1. c \in FilterContext /\ c.boxes \in Seq(Box)
    BY DEF ContextOK, FilterContext
  <2> QED BY <2>1
<1>2. CASE code \in 200..299
  <2> DEFINE r == [c EXCEPT !.boxes = Append(c.boxes, new)]
  <2>1. new = [ref_count |-> 2, box |-> "open", promise |-> TRUE]
    BY DEF Show, NewBox
  <2>2. new \in Box
    BY DEF Show, NewBox, Box
  <2>3. Heard(c, code) = r
    BY <1>2 DEF Heard
  <2> HIDE DEF new
  <2>4. r \in FilterContext /\ r.on = c.on /\ r.boxes = Append(c.boxes, new)
    BY <1>1, <2>2, Ends DEF FilterContext
  <2>5. LastBox(r) = n + 1 /\ DOMAIN r.boxes = 1 .. n + 1
        /\ r.boxes[n + 1] = new
        /\ \A i \in 1 .. n : r.boxes[i] = c.boxes[i]
    BY <1>1, <2>2, <2>4, Ends DEF LastBox
  <2> HIDE DEF r
  <2>6. \A i \in 1 .. n : BoxOK(r, i, dismissed)
    BY <1>1, <2>4, <2>5 DEF ContextOK, BoxOK
  <2>7. BoxOK(r, n + 1, dismissed)
    BY <2>1, <2>4, <2>5 DEF BoxOK
  <2> QED BY <2>3, <2>4, <2>5, <2>6, <2>7 DEF ContextOK
<1>3. CASE code \notin 200..299 /\ c.boxes = <<>>
  <2> DEFINE r == [c EXCEPT !.on = FALSE]
  <2>1. Heard(c, code) = r
    BY <1>3 DEF Heard
  <2>2. r \in FilterContext /\ r.boxes = <<>>
    BY <1>1, <1>3 DEF FilterContext
  <2> QED BY <2>1, <2>2, NothingYet DEF ContextOK
<1>4. CASE code \notin 200..299 /\ c.boxes # <<>>
  <2> DEFINE old == c.boxes[n]
             last == Unref(IF code = 103 THEN old ELSE Show(old, FALSE))
             r == [c EXCEPT !.on = FALSE, !.boxes[n] = last]
  <2>1. n \in DOMAIN c.boxes
    BY <1>1, <1>4, HasLast
  <2>2. Heard(c, code) = r
    BY <1>4 DEF Heard, LastBox
  <2>3. old \in Box /\ BoxOK(c, n, dismissed)
    BY <1>1, <2>1 DEF ContextOK
  <2> DEFINE k == IF old.box = "open" THEN 1 ELSE 0
  <2>4. old.ref_count = k + 1 /\ k \in {0, 1}
        /\ old.box \in {"open", "destroyed"} /\ (old.box = "destroyed" => dismissed)
    BY <2>3 DEF Box, BoxOK
  <2>5. last \in Box /\ last.ref_count = k /\ last.box = old.box
    <3>1. old.ref_count - 1 = k /\ k \in 0..2
      BY <2>4
    <3>2. CASE code = 103
      BY <2>3, <3>1, <3>2 DEF Unref, Box
    <3>3. CASE code # 103
      <4>1. Show(old, FALSE) = [old EXCEPT !.promise = FALSE]
        BY <2>4 DEF Show
      <4> DEFINE shown == Show(old, FALSE)
      <4>2. shown \in Box /\ shown.ref_count = old.ref_count /\ shown.box = old.box
        BY <2>3, <4>1 DEF Box
      <4>3. last = [shown EXCEPT !.ref_count = k]
        BY <3>1, <3>3, <4>2 DEF Unref
      <4> HIDE DEF shown
      <4> QED BY <3>1, <4>2, <4>3 DEF Box
    <3> QED BY <3>2, <3>3
  <2> HIDE DEF n, old, last
  <2>6. r \in FilterContext /\ r.on = FALSE
        /\ r.boxes = [c.boxes EXCEPT ![n] = last]
    <3> DEFINE boxes == [c.boxes EXCEPT ![n] = last]
    <3>1. boxes \in Seq(Box)
      BY <1>1, <2>1, <2>5, Replaced
    <3> HIDE DEF boxes
    <3>2. r = [c EXCEPT !.on = FALSE, !.boxes = boxes]
      BY <1>1 DEF FilterContext, boxes
    <3> HIDE DEF r
    <3>3. r \in FilterContext /\ r.on = FALSE /\ r.boxes = boxes
      BY <1>1, <3>1, <3>2 DEF FilterContext
    <3> QED BY <3>3 DEF boxes
  <2>7. LastBox(r) = n /\ DOMAIN r.boxes = 1 .. n /\ r.boxes[n] = last
        /\ \A i \in 1 .. n : i # n => r.boxes[i] = c.boxes[i]
    BY <1>1, <2>1, <2>5, <2>6, Replaced DEF LastBox, n
  <2> HIDE DEF r, k
  <2>8. ASSUME NEW i \in 1 .. n PROVE BoxOK(r, i, dismissed)
    <3>1. CASE i = n
      BY <1>1, <2>4, <2>5, <2>6, <2>7, <3>1 DEF BoxOK, k
    <3>2. CASE i # n
      <4>1. i < n /\ BoxOK(c, i, dismissed)
        BY <1>1, <3>2 DEF ContextOK, n
      <4> QED BY <2>6, <2>7, <3>2, <4>1 DEF BoxOK
    <3> QED BY <3>1, <3>2
  <2> QED BY <2>2, <2>6, <2>7, <2>8 DEF ContextOK
<1> QED BY <1>2, <1>3, <1>4

\* A context that is fine stays so when more has been dismissed.
LEMMA DismissedStays ==
  ASSUME NEW c, NEW before, NEW after, before => after, ContextOK(c, before)
  PROVE  ContextOK(c, after)
BY DEF ContextOK, BoxOK

-----------------------------------------------------------------------------
(* The steps.                                                              *)

LEMMA DismissKeeps ==
  ASSUME MonitorInv, NEW f \in DOMAIN filters,
         NEW i \in DOMAIN filters[f].boxes, Dismiss(f, i)
  PROVE  MonitorInv'
<1> DEFINE c == filters[f]
           b == c.boxes[i]
           n == Len(c.boxes)
           gone == [Unref(b) EXCEPT !.box = "destroyed"]
           boxes == [c.boxes EXCEPT ![i] = gone]
           r == [c EXCEPT !.boxes = boxes]
<1>1. filters \in Seq(FilterContext) /\ Len(filters) <= MaxRequests
  BY DEF MonitorInv, MonitorTypeOK
<1>2. c \in FilterContext /\ ContextOK(c, early) /\ c.boxes \in Seq(Box)
  BY <1>1 DEF MonitorInv, FilterContext, ContextOK
<1>3. n \in Nat /\ DOMAIN c.boxes = 1 .. n /\ b \in Box
  BY <1>2
<1>4. b.box = "open" /\ (b.promise => early') /\ (early => early')
  BY DEF Dismiss
<1>5. /\ gone \in Box /\ gone.box = "destroyed" /\ gone.promise = b.promise
      /\ gone.ref_count = IF c.on \/ i < n THEN 1 ELSE 0
  <2> DEFINE k == IF c.on \/ i < n THEN 1 ELSE 0
  <2>1. BoxOK(c, i, early)
    BY <1>2 DEF ContextOK
  <2>2. b.ref_count = 1 + k
    BY <1>4, <2>1 DEF BoxOK, LastBox
  <2>3. b.ref_count - 1 = k /\ k \in 0..2
    BY <2>2
  <2>4. gone = [b EXCEPT !.ref_count = k, !.box = "destroyed"]
    BY <2>3 DEF Unref
  <2> HIDE DEF k, b
  <2>5. gone \in Box /\ gone.box = "destroyed" /\ gone.promise = b.promise
        /\ gone.ref_count = k
    BY <1>3, <2>3, <2>4 DEF Box
  <2> QED BY <2>5 DEF k
<1>6. filters' = [filters EXCEPT ![f] = r]
  BY DEF Dismiss
<1> HIDE DEF gone
<1>7. boxes \in Seq(Box) /\ Len(boxes) = n /\ DOMAIN boxes = 1 .. n
      /\ boxes[i] = gone /\ \A j \in DOMAIN c.boxes \ {i} : boxes[j] = c.boxes[j]
  BY <1>2, <1>3, <1>5, Replaced
<1> HIDE DEF boxes
<1>8. r \in FilterContext /\ r.on = c.on /\ r.boxes = boxes
  BY <1>2, <1>7 DEF FilterContext
<1> HIDE DEF r
<1>9. ContextOK(r, early')
  <2> SUFFICES ASSUME NEW j \in 1 .. n PROVE BoxOK(r, j, early')
    BY <1>7, <1>8 DEF ContextOK
  <2>1. BoxOK(c, j, early) /\ LastBox(r) = n /\ LastBox(c) = n
    BY <1>2, <1>3, <1>7, <1>8 DEF ContextOK, LastBox
  <2>2. CASE j = i
    BY <1>4, <1>5, <1>7, <1>8, <2>1, <2>2 DEF BoxOK
  <2>3. CASE j # i
    BY <1>3, <1>4, <1>7, <1>8, <2>1, <2>3 DEF BoxOK
  <2> QED BY <2>2, <2>3
<1>10. filters' \in Seq(FilterContext) /\ Len(filters') = Len(filters)
       /\ DOMAIN filters' = DOMAIN filters /\ filters'[f] = r
       /\ \A g \in DOMAIN filters \ {f} : filters'[g] = filters[g]
  BY <1>1, <1>6, <1>8, Replaced
<1>11. \A g \in DOMAIN filters' : ContextOK(filters'[g], early')
  BY <1>4, <1>9, <1>10, DismissedStays DEF MonitorInv
<1>12. early' \in BOOLEAN
  BY DEF Dismiss, MonitorInv, MonitorTypeOK
<1>13. UNCHANGED <<hears, share, asked, tube, setups, result, news, owed, harm>>
  BY DEF Dismiss, wmVars
<1>14. MonitorTypeOK'
  BY <1>1, <1>10, <1>12, <1>13 DEF MonitorInv, MonitorTypeOK
<1>15. OnlyEarlyDismissalHarms'
  BY <1>4, <1>13 DEF MonitorInv, OnlyEarlyDismissalHarms
<1> QED BY <1>11, <1>14, <1>15 DEF MonitorInv

LEMMA SetSharingKeeps ==
  ASSUME MonitorInv, NEW sharing \in {Sent, Unshareable}, SetSharing(sharing)
  PROVE  MonitorInv'
<1> DEFINE new == [on |-> TRUE, boxes |-> <<>>]
           n == Len(filters)
<1>1. filters \in Seq(FilterContext) /\ owed \subseteq DOMAIN filters
      /\ \A g \in DOMAIN filters : ContextOK(filters[g], early)
  BY DEF MonitorInv, MonitorTypeOK
<1>2. new \in FilterContext /\ new.boxes = <<>>
  BY NothingYet DEF FilterContext
<1>3. ContextOK(new, early)
  BY <1>2, NothingYet DEF ContextOK
<1>4. filters' = Append(filters, new) /\ n < MaxRequests
  BY DEF SetSharing
<1> HIDE DEF new
<1>5. /\ n \in Nat /\ DOMAIN filters = 1 .. n
      /\ filters' \in Seq(FilterContext) /\ Len(filters') = n + 1
      /\ DOMAIN filters' = 1 .. n + 1
      /\ \A g \in 1 .. n : filters'[g] = filters[g]
      /\ filters'[n + 1] = new
  BY <1>1, <1>2, <1>4, Ends
<1>6. UNCHANGED <<hears, tube, setups, result, news, owed, early, harm>>
      /\ asked' = asked + 1 /\ share' = sharing
  BY DEF SetSharing, wmVars
<1>7. \A g \in DOMAIN filters' : ContextOK(filters'[g], early')
  BY <1>1, <1>3, <1>5, <1>6
<1>8. MonitorTypeOK'
  <2>1. n + 1 <= MaxRequests
    BY <1>4, <1>5, ResultMonitorAssumption
  <2>2. owed' \subseteq DOMAIN filters'
    BY <1>1, <1>5, <1>6
  <2>3. asked' \in Nat
    BY <1>6 DEF MonitorInv, MonitorTypeOK
  <2> QED BY <1>5, <1>6, <2>1, <2>2, <2>3 DEF MonitorInv, MonitorTypeOK
<1>9. OnlyEarlyDismissalHarms'
  BY <1>6 DEF MonitorInv, OnlyEarlyDismissalHarms
<1> QED BY <1>7, <1>8, <1>9 DEF MonitorInv

LEMMA EventFilterKeeps ==
  ASSUME MonitorInv, EventFilter
  PROVE  MonitorInv'
<1> DEFINE Hears(f) == IF f \in On THEN Heard(filters[f], result) ELSE filters[f]
<1>1. filters \in Seq(FilterContext) /\ news \in Nat
      /\ \A g \in DOMAIN filters : ContextOK(filters[g], early)
  BY DEF MonitorInv, MonitorTypeOK
<1>2. \A f \in DOMAIN filters : ContextOK(Hears(f), early)
  BY <1>1, HeardKeeps DEF On
<1>3. \A f \in DOMAIN filters : Hears(f) \in FilterContext
  BY <1>2 DEF ContextOK
<1>4. filters' = [f \in DOMAIN filters |-> Hears(f)]
  BY DEF EventFilter
<1> HIDE DEF Hears
<1>5. filters' \in [DOMAIN filters -> FilterContext]
  BY <1>3, <1>4
<1>6. filters' \in Seq(FilterContext) /\ Len(filters') = Len(filters)
      /\ DOMAIN filters' = DOMAIN filters
  BY <1>1, <1>5, Mapped
<1>7. UNCHANGED <<hears, share, asked, tube, setups, result, owed, early>>
      /\ news' \in Nat
  BY <1>1 DEF EventFilter, wmVars
<1>8. \A f \in DOMAIN filters' : ContextOK(filters'[f], early')
  BY <1>2, <1>4, <1>6, <1>7
<1>9. harm' => early
  <2>1. ASSUME NEW f \in On, ShowsDestroyed(filters[f], result) PROVE early
    <3> DEFINE c == filters[f]
    <3>1. c.on /\ ContextOK(c, early) /\ c.boxes \in Seq(Box)
      BY <1>1 DEF On, ContextOK, FilterContext
    <3>2. LastBox(c) \in DOMAIN c.boxes /\ c.boxes[LastBox(c)].box = "destroyed"
      BY <2>1, <3>1, HasLast DEF ShowsDestroyed, LastBox
    <3> QED BY <3>1, <3>2 DEF ContextOK, BoxOK
  <2> QED BY <2>1 DEF EventFilter, MonitorInv, OnlyEarlyDismissalHarms
<1>10. harm' \in BOOLEAN
  BY DEF EventFilter, MonitorInv, MonitorTypeOK
<1>11. MonitorTypeOK'
  BY <1>6, <1>7, <1>10 DEF MonitorInv, MonitorTypeOK
<1> QED BY <1>7, <1>8, <1>9, <1>11 DEF MonitorInv, OnlyEarlyDismissalHarms

\* What the plugin sets and forgets.
LEMMA ResultSet ==
  ASSUME MonitorInv, NEW code \in Progress \union Final, SetResult(code)
  PROVE  /\ result' \in {Nothing} \union Progress \union Final
         /\ news' \in Nat /\ owed' \subseteq DOMAIN filters
BY DEF SetResult, MonitorInv, MonitorTypeOK, On

LEMMA PluginKeeps ==
  ASSUME MonitorInv,
         SharingChanged \/ TubeCreated \/ TubeForgotten \/ SaysConnecting
  PROVE  MonitorInv'
<1> DEFINE Told == /\ result' \in {Nothing} \union Progress \union Final
                   /\ news' \in Nat /\ owed' \subseteq DOMAIN filters
<1>1. UNCHANGED <<hears, share, filters, early, harm>>
  BY DEF SharingChanged, TubeCreated, TubeForgotten, SaysConnecting
<1>2. asked \in Nat /\ setups \in Nat /\ tube \in BOOLEAN
      /\ (UNCHANGED <<result, news, owed>> => Told)
      /\ 103 \in Final /\ 301 \in Final /\ 102 \in Final
  BY DEF MonitorInv, MonitorTypeOK, Final
<1>3. /\ Told
      /\ asked' \in Nat /\ setups' \in Nat
      /\ tube' \in BOOLEAN
  <2>1. CASE SharingChanged
    <3>1. Told /\ setups' \in Nat
      BY <1>2, <2>1, ResultSet DEF SharingChanged, ShareWindow
    <3> QED BY <1>2, <2>1, <3>1 DEF SharingChanged
  <2>2. CASE TubeCreated
    <3>1. Told
      BY <1>2, <2>2, ResultSet DEF TubeCreated
    <3>2. asked' \in Nat /\ setups' \in Nat
      BY <1>2, <2>2 DEF TubeCreated
    <3>3. tube' = TRUE \/ tube' = tube
      BY <2>2 DEF TubeCreated
    <3> QED BY <1>2, <3>1, <3>2, <3>3
  <2>3. CASE TubeForgotten
    BY <1>2, <2>3 DEF TubeForgotten
  <2>4. CASE SaysConnecting
    BY <1>2, <2>4, ResultSet DEF SaysConnecting, wmVars
  <2> QED BY <2>1, <2>2, <2>3, <2>4
<1>4. MonitorTypeOK'
  BY <1>1, <1>3 DEF MonitorInv, MonitorTypeOK
<1> QED BY <1>1, <1>4 DEF MonitorInv, OnlyEarlyDismissalHarms

LEMMA MonitorStep == MonitorInv /\ [Next]_vars => MonitorInv'
<1> SUFFICES ASSUME MonitorInv, [Next]_vars PROVE MonitorInv'
  OBVIOUS
<1>1. ASSUME NEW sharing \in {Sent, Unshareable}, SetSharing(sharing)
      PROVE  MonitorInv'
  BY <1>1, SetSharingKeeps
<1>2. ASSUME NEW f \in DOMAIN filters, NEW i \in DOMAIN filters[f].boxes,
             Dismiss(f, i)
      PROVE  MonitorInv'
  BY <1>2, DismissKeeps
<1>3. CASE EventFilter
  BY <1>3, EventFilterKeeps
<1>4. CASE SharingChanged \/ TubeCreated \/ TubeForgotten \/ SaysConnecting
  BY <1>4, PluginKeeps
<1>5. CASE UNCHANGED vars
  BY <1>5 DEF vars, wmVars, MonitorInv, MonitorTypeOK, OnlyEarlyDismissalHarms
<1> QED BY <1>1, <1>2, <1>3, <1>4, <1>5 DEF Next

-----------------------------------------------------------------------------
(* The theorems.                                                           *)

\* The invariant that carries the others: while a filter is there, all its boxes
\* have promised an answer, and one that is gone was dismissed too early.
THEOREM MonitorSafe == Spec => []MonitorInv
BY MonitorInit, MonitorStep, PTL DEF Spec

\* Every variable keeps its type: no reference count leaves 0..2.
THEOREM MonitorTypes == Spec => []MonitorTypeOK
<1>1. MonitorInv => MonitorTypeOK
  BY DEF MonitorInv
<1> QED BY <1>1, MonitorSafe, PTL

\* A message box has one reference for an open dialogue and one for a filter that
\* waits or has lost it (messagebox_show, messagebox_unref, event_filter).
THEOREM BoxesCounted == Spec => []ReferencesCounted
<1>1. MonitorInv => ReferencesCounted
  BY DEF MonitorInv, ContextOK, BoxOK, ReferencesCounted
<1> QED BY <1>1, MonitorSafe, PTL

\* No dialogue is used after it has been destroyed unless the user has closed a
\* box that promised an answer (messagebox_show).
THEOREM OnlyEarlyHarms == Spec => []OnlyEarlyDismissalHarms
<1>1. MonitorInv => OnlyEarlyDismissalHarms
  BY DEF MonitorInv
<1> QED BY <1>1, MonitorSafe, PTL

-----------------------------------------------------------------------------
(* What the liveness of the filters rests on.                              *)

\* If notices come at all, a filter that was there when the last final answer was
\* set has gone, or a notice is on its way to it, or what it would read is no
\* answer any more.
AnswersReach == hears /\ owed \cap On # {} => news > 0 \/ result \in Progress

LEMMA AnswersReachStep ==
  ASSUME MonitorInv, AnswersReach, [Next]_vars
  PROVE  AnswersReach'
<1> USE DEF AnswersReach
<1>1. news \in Nat /\ result \in {Nothing} \union Progress \union Final
      /\ filters \in Seq(FilterContext) /\ owed \subseteq DOMAIN filters
  BY DEF MonitorInv, MonitorTypeOK
<1>2. ASSUME NEW code, SetResult(code), UNCHANGED <<hears, filters>>
      PROVE  AnswersReach'
  <2>1. hears => news' > 0
    BY <1>1, <1>2 DEF SetResult
  <2> QED BY <1>2, <2>1
<1>3. ASSUME UNCHANGED <<hears, result, news, owed>>, owed \cap On' \subseteq On
      PROVE  AnswersReach'
  BY <1>3
<1>4. ASSUME NEW sharing \in {Sent, Unshareable}, SetSharing(sharing)
      PROVE  AnswersReach'
  <2>1. UNCHANGED <<hears, result, news, owed>>
    BY <1>4 DEF SetSharing
  <2>2. \A f \in DOMAIN filters : f \in DOMAIN filters' /\ filters'[f] = filters[f]
    <3> DEFINE new == [on |-> TRUE, boxes |-> <<>>]
    <3>1. new \in FilterContext
      BY NothingYet DEF FilterContext
    <3>2. filters' = Append(filters, new)
      BY <1>4 DEF SetSharing
    <3> HIDE DEF new
    <3> QED BY <1>1, <3>1, <3>2, Ends
  <2> QED BY <1>1, <1>3, <2>1, <2>2 DEF On
<1>5. ASSUME NEW f \in DOMAIN filters, NEW i \in DOMAIN filters[f].boxes,
             Dismiss(f, i)
      PROVE  AnswersReach'
  <2> DEFINE b == [Unref(filters[f].boxes[i]) EXCEPT !.box = "destroyed"]
  <2>1. UNCHANGED <<hears, result, news, owed>>
        /\ filters' = [filters EXCEPT ![f].boxes[i] = b]
    BY <1>5 DEF Dismiss
  <2>2. \A g \in DOMAIN filters : filters[g] \in FilterContext
    BY <1>1, Ends
  <2> HIDE DEF b
  <2>3. DOMAIN filters' = DOMAIN filters
        /\ \A g \in DOMAIN filters : filters'[g].on = filters[g].on
    BY <2>1, <2>2 DEF FilterContext
  <2>4. On' = On
    BY <2>3 DEF On
  <2> QED BY <1>3, <2>1, <2>4
<1>6. CASE EventFilter
  <2>1. CASE result \in Progress
    BY <1>6, <2>1 DEF EventFilter
  <2>2. CASE result \notin Progress
    <3>1. result \notin 200 .. 299
      BY <1>1, <2>2 DEF Nothing, Final
    <3>2. ASSUME NEW f \in On PROVE ~Heard(filters[f], result).on
      <4>1. filters[f] \in FilterContext
        BY <1>1, Ends DEF On
      <4> QED BY <3>1, <4>1 DEF Heard, FilterContext
    <3>3. DOMAIN filters' = DOMAIN filters /\ \A f \in DOMAIN filters :
            filters'[f] = IF f \in On THEN Heard(filters[f], result) ELSE filters[f]
      BY <1>6 DEF EventFilter
    <3>4. On' = {}
      BY <3>2, <3>3 DEF On
    <3> QED BY <3>4
  <2> QED BY <2>1, <2>2
<1>7. CASE SharingChanged \/ TubeCreated \/ TubeForgotten \/ SaysConnecting
  <2>1. UNCHANGED <<hears, filters>>
    BY <1>7 DEF SharingChanged, TubeCreated, TubeForgotten, SaysConnecting
  <2>2. (\E code : SetResult(code)) \/ UNCHANGED <<result, news, owed>>
    BY <1>7 DEF SharingChanged, ShareWindow, TubeCreated, TubeForgotten, SaysConnecting
  <2> QED BY <1>2, <1>3, <2>1, <2>2 DEF On
<1>8. CASE UNCHANGED vars
  BY <1>8, <1>3 DEF vars, On
<1> QED BY <1>4, <1>5, <1>6, <1>7, <1>8 DEF Next

\* If the X server tells the connector of changes to the window, no final answer
\* is lost between window_set_result_property and event_filter: once every notice
\* has been handled, no filter waits that was there when it was set, unless the
\* value it read was that of a connection that is still being made.  For a window
\* on which nobody has asked for the notices it says nothing.
THEOREM NoAnswerIsLost ==
  Spec => [](hears /\ news = 0 => \A f \in owed : f \notin On \/ result \in Progress)
<1>1. Init => AnswersReach
  BY DEF Init, AnswersReach
<1>2. AnswersReach /\ MonitorInv
        => (hears /\ news = 0 => \A f \in owed : f \notin On \/ result \in Progress)
  BY DEF AnswersReach
<1>3. MonitorInv /\ AnswersReach /\ [Next]_vars => AnswersReach'
  BY AnswersReachStep
<1> QED BY <1>1, <1>2, <1>3, MonitorSafe, PTL DEF Spec

=============================================================================
