--------------------------- MODULE Chooser_proofs ----------------------------
(***************************************************************************)
(* Theorems about Chooser, for any windows, accounts, contacts and bounds. *)
(***************************************************************************)
EXTENDS Chooser, FiniteSetTheorems, TLAPS

\* What the record of a dialogue has to do with what its search has reported.
DialogueOK(c, l) ==
  /\ c \in Context /\ l \in SearchCalls
  /\ c.selected \in Known(c) \union {None}
  /\ IsFiniteSet(c.sources) /\ IsFiniteSet(Known(c))
  /\ Cardinality(c.sources) = Cardinality(Known(c))
  /\ \A s \in c.sources : FirstFrom(l.reported, s.source, s.target)
  /\ \A i \in DOMAIN l.reported : l.reported[i].target \in Known(c)
  /\ c.seen_all_contacts <=> l.ended = 1
  /\ c.context = "freed" <=> c.closed /\ l.ended = 1

\* No frame has been chosen.
Unframed(w) == ~ \E t \in Tops : w = t /\ Cardinality(Kids[t]) = 1

\* What a share has to do with the dialogue it was made in.
ShareOK(s) ==
  /\ s.dialogue \in DOMAIN dialogues /\ s.latest \in DOMAIN dialogues
  /\ dialogues[s.dialogue].closed
  /\ \E r \in dialogues[s.dialogue].sources :
       r.source = s.source /\ r.target = s.chosen
  /\ s.target = s.chosen \/ Length[s.source] # Length[s.chosen]
  /\ \/ s.window = dialogues[s.dialogue].for
     \/ \E e \in s.dialogue + 1 .. s.latest : s.window = dialogues[e].for
  /\ Unframed(s.window)

ChooserInv ==
  /\ ChooserTypeOK
  /\ \A d \in DOMAIN dialogues :
       DialogueOK(dialogues[d], listings[d]) /\ Unframed(dialogues[d].for)
  /\ dialogues # <<>> => window = dialogues[Len(dialogues)].for
  /\ \A i \in DOMAIN shares : ShareOK(shares[i])
  /\ \A i, j \in DOMAIN shares : shares[i].dialogue = shares[j].dialogue => i = j
  /\ loop = "quitting" => main = "freed"
  /\ "context" \notin harm

-----------------------------------------------------------------------------
(* Sequences the prover sees best with their elements left abstract.       *)

LEMMA Ends ==
  ASSUME NEW S, NEW s \in Seq(S), NEW e \in S
  PROVE  /\ Len(s) \in Nat /\ DOMAIN s = 1 .. Len(s)
         /\ \A i \in DOMAIN s : s[i] \in S
         /\ Append(s, e) \in Seq(S) /\ Len(Append(s, e)) = Len(s) + 1
         /\ DOMAIN Append(s, e) = 1 .. Len(s) + 1
         /\ \A i \in 1 .. Len(s) : Append(s, e)[i] = s[i]
         /\ Append(s, e)[Len(s) + 1] = e
         /\ Append(s, e) # <<>>
OBVIOUS

LEMMA Replaced ==
  ASSUME NEW S, NEW s \in Seq(S), NEW e \in S, NEW i \in DOMAIN s
  PROVE  LET r == [s EXCEPT ![i] = e] IN
         /\ r \in Seq(S) /\ Len(r) = Len(s) /\ DOMAIN r = DOMAIN s
         /\ r[i] = e /\ \A j \in DOMAIN s \ {i} : r[j] = s[j]
OBVIOUS

LEMMA NothingYet ==
  ASSUME NEW S
  PROVE  <<>> \in Seq(S) /\ Len(<<>>) = 0 /\ DOMAIN <<>> = {}
OBVIOUS

-----------------------------------------------------------------------------
(* A dialogue.                                                             *)

\* A contact that is reported again stays where it was first reported.
LEMMA FirstStays ==
  ASSUME NEW reported \in Seq(Report), NEW e \in Report,
         NEW account, NEW contact, FirstFrom(reported, account, contact)
  PROVE  FirstFrom(Append(reported, e), account, contact)
<1> DEFINE n == Len(reported)
           more == Append(reported, e)
<1>1. n \in Nat /\ DOMAIN reported = 1 .. n /\ DOMAIN more = 1 .. n + 1
      /\ \A i \in 1 .. n : more[i] = reported[i]
  BY Ends
<1>2. PICK i \in 1 .. n :
        /\ reported[i] = [source |-> account, target |-> contact]
        /\ \A j \in 1 .. i - 1 : reported[j].target # contact
  BY <1>1 DEF FirstFrom
<1> HIDE DEF more, n
<1>3. i \in DOMAIN more /\ more[i] = [source |-> account, target |-> contact]
  BY <1>1, <1>2
<1>4. \A j \in 1 .. i - 1 : more[j].target # contact
  BY <1>1, <1>2
<1> QED BY <1>3, <1>4 DEF FirstFrom, more

LEMMA LearnKeeps ==
  ASSUME NEW c, NEW l, DialogueOK(c, l), l.ended = 0,
         NEW a \in Accounts, NEW t \in Contacts
  PROVE  LET e == [source |-> a, target |-> t]
             r == [l EXCEPT !.reported = Append(@, e)]
             k == Learn(c, a, t)
         IN /\ DialogueOK(k, r) /\ k.for = c.for /\ k.closed = c.closed
            /\ c.sources \subseteq k.sources
<1> DEFINE e == [source |-> a, target |-> t]
           more == Append(l.reported, e)
           r == [l EXCEPT !.reported = more]
           n == Len(l.reported)
<1>1. c \in Context /\ l \in SearchCalls /\ l.reported \in Seq(Report)
  BY DEF DialogueOK, SearchCalls
<1>2. e \in Report /\ e.source = a /\ e.target = t
  BY DEF Report
<1> HIDE DEF e
<1>3. /\ n \in Nat /\ DOMAIN l.reported = 1 .. n
      /\ more \in Seq(Report) /\ DOMAIN more = 1 .. n + 1
      /\ \A i \in 1 .. n : more[i] = l.reported[i]
      /\ more[n + 1] = e
  BY <1>1, <1>2, Ends
<1>4. \A s \in c.sources : FirstFrom(more, s.source, s.target)
  BY <1>1, <1>2, FirstStays DEF DialogueOK
<1> HIDE DEF more
<1>5. r \in SearchCalls /\ r.reported = more /\ r.ended = l.ended
  BY <1>1, <1>3 DEF SearchCalls
<1> HIDE DEF r
<1>6. CASE t \in Known(c)
  <2>1. Learn(c, a, t) = c
    BY <1>6 DEF Learn
  <2>2. \A i \in DOMAIN more : more[i].target \in Known(c)
    BY <1>2, <1>3, <1>6 DEF DialogueOK
  <2> QED BY <1>4, <1>5, <2>1, <2>2 DEF DialogueOK, r, e, more
<1>7. CASE t \notin Known(c)
  <2> DEFINE new == [target |-> t, source |-> a]
             k == [c EXCEPT !.sources = c.sources \union {new}]
  <2>1. Learn(c, a, t) = k
    BY <1>7 DEF Learn
  <2>2. new.target = t /\ new.source = a /\ new \in [target : Contacts, source : Accounts]
    OBVIOUS
  <2> HIDE DEF new
  <2>3. /\ k \in Context /\ k.sources = c.sources \union {new}
        /\ k.selected = c.selected /\ k.closed = c.closed
        /\ k.seen_all_contacts = c.seen_all_contacts /\ k.context = c.context
        /\ k.for = c.for
    BY <1>1, <2>2 DEF Context
  <2> HIDE DEF k
  <2>4. Known(k) = Known(c) \union {t}
    BY <2>2, <2>3 DEF Known
  <2>5. new \notin c.sources
    BY <1>7, <2>2 DEF Known
  <2>6. /\ IsFiniteSet(k.sources) /\ IsFiniteSet(Known(k))
        /\ Cardinality(k.sources) = Cardinality(Known(k))
    <3>1. /\ IsFiniteSet(c.sources) /\ IsFiniteSet(Known(c))
          /\ Cardinality(c.sources) = Cardinality(Known(c))
      BY DEF DialogueOK
    <3>2. /\ IsFiniteSet(c.sources \union {new})
          /\ Cardinality(c.sources \union {new}) = Cardinality(c.sources) + 1
      BY <2>5, <3>1, FS_AddElement
    <3>3. /\ IsFiniteSet(Known(c) \union {t})
          /\ Cardinality(Known(c) \union {t}) = Cardinality(Known(c)) + 1
      BY <1>7, <3>1, FS_AddElement
    <3> QED BY <2>3, <2>4, <3>1, <3>2, <3>3
  <2>7. FirstFrom(more, a, t)
    <3>1. \A j \in 1 .. n + 1 - 1 : more[j].target # t
      BY <1>3, <1>7 DEF DialogueOK
    <3>2. n + 1 \in DOMAIN more /\ more[n + 1] = [source |-> a, target |-> t]
      BY <1>3 DEF e
    <3> QED BY <3>1, <3>2 DEF FirstFrom
  <2>8. \A s \in k.sources : FirstFrom(more, s.source, s.target)
    BY <1>4, <2>2, <2>3, <2>7
  <2>9. \A i \in DOMAIN more : more[i].target \in Known(k)
    BY <1>2, <1>3, <2>4 DEF DialogueOK
  <2> QED BY <1>5, <2>1, <2>3, <2>4, <2>6, <2>8, <2>9 DEF DialogueOK, r, e, more
<1> QED BY <1>6, <1>7

\* The search ends (add_contact without a contact).
LEMMA SeenKeeps ==
  ASSUME NEW c, NEW l, DialogueOK(c, l), l.ended = 0
  PROVE  LET k == MaybeFree([c EXCEPT !.seen_all_contacts = TRUE]) IN
         /\ DialogueOK(k, [l EXCEPT !.ended = 1])
         /\ k.for = c.for /\ k.closed = c.closed /\ k.sources = c.sources
<1> DEFINE seen == [c EXCEPT !.seen_all_contacts = TRUE]
           k == MaybeFree(seen)
           r == [l EXCEPT !.ended = 1]
<1>1. c \in Context /\ l \in SearchCalls /\ c.context # "freed"
  BY DEF DialogueOK
<1>2. r \in SearchCalls /\ r.reported = l.reported /\ r.ended = 1
  BY <1>1 DEF SearchCalls
<1>3. /\ seen \in Context /\ seen.seen_all_contacts = TRUE
      /\ seen.sources = c.sources /\ seen.selected = c.selected
      /\ seen.closed = c.closed /\ seen.context # "freed" /\ seen.for = c.for
  BY <1>1 DEF Context
<1> HIDE DEF seen, r
<1>4. /\ k \in Context /\ k.seen_all_contacts = TRUE
      /\ k.sources = c.sources /\ k.selected = c.selected
      /\ (k.context = "freed" <=> k.closed)
      /\ k.closed = c.closed /\ k.for = c.for
  <2>1. CASE seen.closed
    BY <1>3, <2>1 DEF MaybeFree, Context
  <2>2. CASE ~seen.closed
    BY <1>3, <2>2 DEF MaybeFree
  <2> QED BY <2>1, <2>2
<1> HIDE DEF k
<1>5. Known(k) = Known(c)
  BY <1>4 DEF Known
<1> QED BY <1>2, <1>4, <1>5 DEF DialogueOK, k, seen, r

\* The dialogue is closed (handle_response).
LEMMA CloseKeeps ==
  ASSUME NEW c, NEW l, DialogueOK(c, l), ~c.closed
  PROVE  LET k == MaybeFree([c EXCEPT !.closed = TRUE]) IN
         /\ DialogueOK(k, l) /\ k.for = c.for /\ k.sources = c.sources /\ k.closed
<1> DEFINE shut == [c EXCEPT !.closed = TRUE]
           k == MaybeFree(shut)
<1>1. c \in Context /\ l \in SearchCalls /\ c.context # "freed"
      /\ (c.seen_all_contacts <=> l.ended = 1)
  BY DEF DialogueOK
<1>2. /\ shut \in Context /\ shut.closed = TRUE
      /\ shut.seen_all_contacts = c.seen_all_contacts
      /\ shut.sources = c.sources /\ shut.selected = c.selected
      /\ shut.for = c.for /\ shut.context # "freed"
  BY <1>1 DEF Context
<1> HIDE DEF shut
<1>3. /\ k \in Context /\ k.closed = TRUE
      /\ k.seen_all_contacts = c.seen_all_contacts
      /\ k.sources = c.sources /\ k.selected = c.selected /\ k.for = c.for
      /\ (k.context = "freed" <=> l.ended = 1)
  <2>1. CASE l.ended = 1
    BY <1>1, <1>2, <2>1 DEF MaybeFree, Context
  <2>2. CASE l.ended # 1
    BY <1>1, <1>2, <2>2 DEF MaybeFree
  <2> QED BY <2>1, <2>2
<1> HIDE DEF k
<1>4. Known(k) = Known(c)
  BY <1>3 DEF Known
<1> QED BY <1>1, <1>3, <1>4 DEF DialogueOK, k, shut

LEMMA SelectKeeps ==
  ASSUME NEW c, NEW l, DialogueOK(c, l), NEW t \in Contacts, t \in Known(c)
  PROVE  LET k == [c EXCEPT !.selected = t] IN
         DialogueOK(k, l) /\ k.for = c.for /\ k.sources = c.sources /\ k.closed = c.closed
<1> DEFINE k == [c EXCEPT !.selected = t]
<1>1. c \in Context
  BY DEF DialogueOK
<1>2. /\ k \in Context /\ k.selected = t
      /\ k.for = c.for /\ k.sources = c.sources /\ k.closed = c.closed
      /\ k.seen_all_contacts = c.seen_all_contacts /\ k.context = c.context
  BY <1>1 DEF Context
<1> HIDE DEF k
<1>3. Known(k) = Known(c)
  BY <1>2 DEF Known
<1> QED BY <1>2, <1>3 DEF DialogueOK, k

\* Known contacts are contacts; a new dialogue knows none.
LEMMA NewKeeps ==
  ASSUME NEW w \in Chosen
  PROVE  /\ DialogueOK(NewContext(w), [reported |-> <<>>, ended |-> 0])
         /\ NewContext(w).for = w
<1> DEFINE c == NewContext(w)
           l == [reported |-> <<>>, ended |-> 0]
<1>1. l \in SearchCalls /\ l.reported = <<>> /\ l.ended = 0
  BY NothingYet DEF SearchCalls
<1>2. /\ c \in Context /\ c.for = w /\ c.sources = {} /\ c.selected = None
      /\ c.closed = FALSE /\ c.seen_all_contacts = FALSE /\ c.context = "live"
  BY DEF NewContext, Context
<1> HIDE DEF c, l
<1>3. Known(c) = {}
  BY <1>2 DEF Known
<1> QED BY <1>1, <1>2, <1>3, NothingYet, FS_EmptySet DEF DialogueOK, c, l

-----------------------------------------------------------------------------
(* All the dialogues.                                                      *)

\* One dialogue gets on: the others, and what has been shared, are as they were.
LEMMA DialogueChanged ==
  ASSUME ChooserInv, NEW d \in DOMAIN dialogues, NEW k, NEW r, DialogueOK(k, r),
         k.for = dialogues[d].for, dialogues[d].closed => k.closed,
         dialogues[d].sources \subseteq k.sources,
         dialogues' = [dialogues EXCEPT ![d] = k],
         listings' = [listings EXCEPT ![d] = r]
  PROVE  /\ dialogues' \in Seq(Context) /\ Len(dialogues') = Len(dialogues)
         /\ listings' \in Seq(SearchCalls) /\ Len(listings') = Len(listings)
         /\ DOMAIN dialogues' = DOMAIN dialogues /\ dialogues'[d] = k
         /\ \A e \in DOMAIN dialogues :
              /\ DialogueOK(dialogues'[e], listings'[e])
              /\ dialogues'[e].for = dialogues[e].for
         /\ \A s : ShareOK(s) => ShareOK(s)'
<1>1. /\ dialogues \in Seq(Context) /\ listings \in Seq(SearchCalls)
      /\ Len(listings) = Len(dialogues)
      /\ \A e \in DOMAIN dialogues : DialogueOK(dialogues[e], listings[e])
  BY DEF ChooserInv, ChooserTypeOK
<1>2. k \in Context /\ r \in SearchCalls
  BY DEF DialogueOK
<1>3. DOMAIN listings = DOMAIN dialogues
  BY <1>1
<1>4. /\ dialogues' \in Seq(Context) /\ Len(dialogues') = Len(dialogues)
      /\ DOMAIN dialogues' = DOMAIN dialogues /\ dialogues'[d] = k
      /\ \A e \in DOMAIN dialogues \ {d} : dialogues'[e] = dialogues[e]
  BY <1>1, <1>2, Replaced
<1>5. /\ listings' \in Seq(SearchCalls) /\ Len(listings') = Len(listings)
      /\ listings'[d] = r
      /\ \A e \in DOMAIN dialogues \ {d} : listings'[e] = listings[e]
  BY <1>1, <1>2, <1>3, Replaced
<1>6. \A e \in DOMAIN dialogues :
        /\ DialogueOK(dialogues'[e], listings'[e])
        /\ dialogues'[e].for = dialogues[e].for
        /\ dialogues[e].closed => dialogues'[e].closed
        /\ dialogues[e].sources \subseteq dialogues'[e].sources
  BY <1>1, <1>4, <1>5
<1>7. \A s : ShareOK(s) => ShareOK(s)'
  <2> SUFFICES ASSUME NEW s, ShareOK(s) PROVE ShareOK(s)'
    OBVIOUS
  <2>1. s.dialogue \in DOMAIN dialogues /\ s.latest \in DOMAIN dialogues
    BY DEF ShareOK
  <2>2. \A e \in s.dialogue + 1 .. s.latest : e \in DOMAIN dialogues
    BY <1>1, <2>1
  <2> QED BY <1>4, <1>6, <2>1, <2>2 DEF ShareOK
<1> QED BY <1>4, <1>5, <1>6, <1>7

\* And so the invariant is kept, if nothing else has changed.
LEMMA OneChanged ==
  ASSUME ChooserInv, NEW d \in DOMAIN dialogues, NEW k, NEW r, DialogueOK(k, r),
         k.for = dialogues[d].for, dialogues[d].closed => k.closed,
         dialogues[d].sources \subseteq k.sources,
         dialogues' = [dialogues EXCEPT ![d] = k],
         listings' = [listings EXCEPT ![d] = r],
         UNCHANGED <<mainVars, shares, harm>>
  PROVE  ChooserInv'
<1>1. /\ dialogues' \in Seq(Context) /\ Len(dialogues') = Len(dialogues)
      /\ listings' \in Seq(SearchCalls) /\ Len(listings') = Len(listings)
      /\ DOMAIN dialogues' = DOMAIN dialogues
      /\ \A e \in DOMAIN dialogues :
           /\ DialogueOK(dialogues'[e], listings'[e])
           /\ dialogues'[e].for = dialogues[e].for
      /\ \A s : ShareOK(s) => ShareOK(s)'
  BY DialogueChanged
<1>2. UNCHANGED <<loop, toggled, timeouts, main, window, shares, harm>>
  BY DEF mainVars
<1>3. ChooserTypeOK'
  BY <1>1, <1>2 DEF ChooserInv, ChooserTypeOK, DialogueOK
<1>4. dialogues' # <<>> => window' = dialogues'[Len(dialogues')].for
  <2> SUFFICES ASSUME dialogues' # <<>>
               PROVE  window = dialogues[Len(dialogues)].for
                        /\ Len(dialogues) \in DOMAIN dialogues
    BY <1>1, <1>2
  <2>1. dialogues \in Seq(Context) /\ dialogues # <<>>
    BY DEF ChooserInv, ChooserTypeOK
  <2> QED BY <2>1 DEF ChooserInv
<1>5. \A e \in DOMAIN dialogues' :
        DialogueOK(dialogues'[e], listings'[e]) /\ Unframed(dialogues'[e].for)
  BY <1>1 DEF ChooserInv
<1>6. \A i \in DOMAIN shares' : ShareOK(shares[i])'
  BY <1>1, <1>2 DEF ChooserInv
<1> QED BY <1>2, <1>3, <1>4, <1>5, <1>6 DEF ChooserInv

LEMMA AddContactKeeps ==
  ASSUME ChooserInv, NEW d \in DOMAIN dialogues,
         NEW a \in Accounts, NEW t \in Contacts, AddContact(d, a, t)
  PROVE  ChooserInv'
<1> DEFINE c == dialogues[d]
           l == listings[d]
           k == Learn(c, a, t)
           r == [l EXCEPT !.reported = Append(l.reported, [source |-> a, target |-> t])]
<1>1. DialogueOK(c, l) /\ l.ended = 0
  BY DEF AddContact, Listing, ChooserInv
<1>2. DialogueOK(k, r) /\ k.for = c.for /\ (c.closed => k.closed)
      /\ c.sources \subseteq k.sources
  BY <1>1, LearnKeeps
<1>3. c.context # "freed"
  BY <1>1 DEF DialogueOK
<1>4. /\ dialogues' = [dialogues EXCEPT ![d] = k]
      /\ listings' = [listings EXCEPT ![d] = r]
      /\ UNCHANGED <<mainVars, shares, harm>>
  BY <1>3 DEF AddContact, Added
<1> HIDE DEF k, r
<1> QED BY <1>2, <1>4, OneChanged

LEMMA AllContactsSeenKeeps ==
  ASSUME ChooserInv, NEW d \in DOMAIN dialogues, AllContactsSeen(d)
  PROVE  ChooserInv'
<1> DEFINE c == dialogues[d]
           l == listings[d]
           k == MaybeFree([c EXCEPT !.seen_all_contacts = TRUE])
           r == [l EXCEPT !.ended = 1]
<1>1. DialogueOK(c, l) /\ l.ended = 0
  BY DEF AllContactsSeen, Listing, ChooserInv
<1>2. DialogueOK(k, r) /\ k.for = c.for /\ (c.closed => k.closed)
      /\ c.sources \subseteq k.sources
  BY <1>1, SeenKeeps
<1>3. c.context # "freed"
  BY <1>1 DEF DialogueOK
<1>4. /\ dialogues' = [dialogues EXCEPT ![d] = k]
      /\ listings' = [listings EXCEPT ![d] = r]
      /\ UNCHANGED <<mainVars, shares, harm>>
  BY <1>3 DEF AllContactsSeen, Added
<1> HIDE DEF k, r
<1> QED BY <1>2, <1>4, OneChanged

LEMMA SameListing ==
  ASSUME ChooserInv, NEW d \in DOMAIN dialogues, UNCHANGED listings
  PROVE  listings' = [listings EXCEPT ![d] = listings[d]]
<1>1. listings \in Seq(SearchCalls)
  BY DEF ChooserInv, ChooserTypeOK
<1> QED BY <1>1

LEMMA SelectRowKeeps ==
  ASSUME ChooserInv, NEW d \in DOMAIN dialogues, NEW t \in Contacts, SelectRow(d, t)
  PROVE  ChooserInv'
<1> DEFINE c == dialogues[d]
           k == [c EXCEPT !.selected = t]
<1>1. DialogueOK(c, listings[d]) /\ t \in Known(c)
  BY DEF SelectRow, ChooserInv
<1>2. DialogueOK(k, listings[d]) /\ k.for = c.for /\ (c.closed => k.closed)
      /\ c.sources \subseteq k.sources
  BY <1>1, SelectKeeps
<1>3. /\ dialogues' = [dialogues EXCEPT ![d] = k]
      /\ listings' = [listings EXCEPT ![d] = listings[d]]
      /\ UNCHANGED <<mainVars, shares, harm>>
  BY SameListing DEF SelectRow
<1> HIDE DEF k
<1> QED BY <1>2, <1>3, OneChanged

LEMMA HandleResponseKeeps ==
  ASSUME ChooserInv, NEW d \in DOMAIN dialogues, HandleResponse(d)
  PROVE  ChooserInv'
<1> DEFINE c == dialogues[d]
           k == MaybeFree([c EXCEPT !.closed = TRUE])
           n == Len(dialogues)
<1>1. DialogueOK(c, listings[d]) /\ ~c.closed
  BY DEF HandleResponse, InFront, Open, ChooserInv
<1>2. DialogueOK(k, listings[d]) /\ k.for = c.for /\ k.sources = c.sources /\ k.closed
  BY <1>1, CloseKeeps
<1>3. /\ dialogues' = [dialogues EXCEPT ![d] = k]
      /\ listings' = [listings EXCEPT ![d] = listings[d]]
      /\ UNCHANGED <<mainVars, harm>>
  BY SameListing DEF HandleResponse
<1> HIDE DEF k
<1>4. CASE UNCHANGED shares
  BY <1>2, <1>3, <1>4, OneChanged
<1>5. CASE \E s \in c.sources : ChosenCallback(d, s)
  <2>1. /\ dialogues' \in Seq(Context) /\ Len(dialogues') = n
        /\ listings' \in Seq(SearchCalls) /\ Len(listings') = Len(listings)
        /\ DOMAIN dialogues' = DOMAIN dialogues /\ dialogues'[d] = k
        /\ \A e \in DOMAIN dialogues :
             /\ DialogueOK(dialogues'[e], listings'[e])
             /\ dialogues'[e].for = dialogues[e].for
        /\ \A s : ShareOK(s) => ShareOK(s)'
    BY <1>2, <1>3, DialogueChanged
  <2>2. UNCHANGED <<loop, toggled, timeouts, main, window, harm>>
    BY <1>3 DEF mainVars
  <2>3. /\ n \in Nat /\ n \in DOMAIN dialogues /\ d \in 1 .. n
        /\ dialogues \in Seq(Context) /\ dialogues # <<>>
    BY DEF ChooserInv, ChooserTypeOK
  <2>4. /\ window = dialogues[n].for /\ window \in Chosen /\ Unframed(window)
    BY <2>3 DEF ChooserInv, DialogueOK, Context
  <2>5. PICK s \in c.sources : ChosenCallback(d, s)
    BY <1>5
  <2>6. s.source \in Accounts /\ s.target \in Contacts
    BY <1>1 DEF DialogueOK, Context
  <2>7. PICK new \in Share :
          /\ new = [dialogue |-> d, window |-> window, source |-> s.source,
                    chosen |-> s.target, target |-> Stored(s.source, s.target),
                    latest |-> n]
    <3>1. Stored(s.source, s.target) \in Contacts \union {"beginning", "overrun"}
      BY <2>6 DEF Stored
    <3>2. d \in Nat
      BY <2>3
    <3>3. [dialogue |-> d, window |-> window, source |-> s.source,
           chosen |-> s.target, target |-> Stored(s.source, s.target),
           latest |-> n] \in Share
      BY <2>3, <2>4, <2>6, <3>1, <3>2 DEF Share
    <3> QED BY <3>3
  <2>8. /\ new.dialogue = d /\ new.window = window /\ new.source = s.source
        /\ new.chosen = s.target /\ new.latest = n
        /\ new.target = Stored(s.source, s.target)
    BY <2>7
  <2>9. shares' = Append(shares, new)
    BY <2>5, <2>7 DEF ChosenCallback
  <2>10. shares \in Seq(Share)
    BY DEF ChooserInv, ChooserTypeOK
  <2>11. /\ Len(shares) \in Nat /\ DOMAIN shares = 1 .. Len(shares)
         /\ shares' \in Seq(Share) /\ DOMAIN shares' = 1 .. Len(shares) + 1
         /\ \A i \in 1 .. Len(shares) : shares'[i] = shares[i]
         /\ shares'[Len(shares) + 1] = new
    BY <2>7, <2>9, <2>10, Ends
  <2>12. ShareOK(new)'
    <3>1. new.target = new.chosen \/ Length[new.source] # Length[new.chosen]
      BY <2>8 DEF Stored
    <3>2. \/ new.window = dialogues'[new.dialogue].for
          \/ \E e \in new.dialogue + 1 .. new.latest : new.window = dialogues'[e].for
      <4>1. dialogues'[n].for = window
        BY <2>1, <2>3, <2>4
      <4>2. d = n \/ n \in d + 1 .. n
        BY <2>3
      <4> QED BY <2>8, <4>1, <4>2
    <3> QED BY <1>2, <2>1, <2>3, <2>4, <2>8, <3>1, <3>2 DEF ShareOK
  <2>13. \A i \in DOMAIN shares' : ShareOK(shares[i])'
    BY <2>1, <2>11, <2>12 DEF ChooserInv
  <2>14. \A i \in DOMAIN shares : shares[i].dialogue # d
    BY <1>1 DEF ChooserInv, ShareOK
  <2>15. \A i, j \in DOMAIN shares' :
           shares'[i].dialogue = shares'[j].dialogue => i = j
    BY <2>8, <2>11, <2>14 DEF ChooserInv
  <2>16. ChooserTypeOK'
    BY <2>1, <2>2, <2>11 DEF ChooserInv, ChooserTypeOK, DialogueOK
  <2>17. \A e \in DOMAIN dialogues' :
           DialogueOK(dialogues'[e], listings'[e]) /\ Unframed(dialogues'[e].for)
    BY <2>1 DEF ChooserInv
  <2>18. window' = dialogues'[Len(dialogues')].for
    BY <2>1, <2>2, <2>3, <2>4
  <2> QED BY <2>2, <2>13, <2>15, <2>16, <2>17, <2>18 DEF ChooserInv
<1> QED BY <1>4, <1>5 DEF HandleResponse

-----------------------------------------------------------------------------
(* The main window and the choice.                                         *)

\* A window that is taken is one that may be chosen, and no frame, unless it is
\* none or the connector's own.
LEMMA WhatIsTaken ==
  ASSUME NEW w \in Tops \union {Root}, NEW result \in UnframeWindow(w),
         result \notin {None, Own}
  PROVE  result \in Chosen /\ Unframed(result)
<1>1. w \in Tops /\ (Cardinality(Kids[w]) = 1 => result = CHOOSE k \in Kids[w] : TRUE)
      /\ (Cardinality(Kids[w]) # 1 => result = w)
  BY DEF UnframeWindow
<1>2. CASE Cardinality(Kids[w]) = 1
  <2>1. Kids[w] # {}
    BY <1>2, FS_EmptySet
  <2>2. result \in Kids[w]
    BY <1>1, <1>2, <2>1
  <2>3. result \notin Tops
    BY <1>1, <2>2, ChooserAssumption
  <2> QED BY <1>1, <2>2, <2>3 DEF Chosen, Unframed
<1>3. CASE Cardinality(Kids[w]) # 1
  BY <1>1, <1>3 DEF Chosen, Unframed
<1> QED BY <1>2, <1>3

LEMMA SelectAWindowKeeps ==
  ASSUME ChooserInv, SelectAWindow
  PROVE  ChooserInv'
<1>1. /\ loop = "running" /\ loop' = "running" /\ timeouts' = timeouts - 1
      /\ timeouts > 0 /\ toggled' = FALSE /\ UNCHANGED <<main, shares, harm>>
  BY DEF SelectAWindow
<1>2. timeouts' \in 0 .. MaxTimeouts /\ toggled' \in BOOLEAN
  <2>1. timeouts' \in 0 .. MaxTimeouts
    BY <1>1, ChooserAssumption DEF ChooserInv, ChooserTypeOK
  <2> QED BY <1>1, <2>1
<1>3. CASE UNCHANGED <<window, dialogues, listings>>
  <2>1. ChooserTypeOK'
    BY <1>1, <1>2, <1>3 DEF ChooserInv, ChooserTypeOK
  <2>2. \A s : ShareOK(s) => ShareOK(s)'
    BY <1>3 DEF ShareOK
  <2> QED BY <1>1, <1>3, <2>1, <2>2 DEF ChooserInv
<1>4. ASSUME NEW w \in Chosen, Unframed(w), ChosenWindow(w) PROVE ChooserInv'
  <2> DEFINE new == NewContext(w)
             call == [reported |-> <<>>, ended |-> 0]
             n == Len(dialogues)
  <2>1. DialogueOK(new, call) /\ new.for = w
    BY NewKeeps
  <2>2. new \in Context /\ call \in SearchCalls
    BY <2>1 DEF DialogueOK
  <2>3. /\ n < MaxDialogues /\ window' = w
        /\ dialogues' = Append(dialogues, new) /\ listings' = Append(listings, call)
    BY <1>4 DEF ChosenWindow
  <2> HIDE DEF new, call
  <2>4. /\ dialogues \in Seq(Context) /\ listings \in Seq(SearchCalls)
        /\ Len(listings) = n
    BY DEF ChooserInv, ChooserTypeOK
  <2>5. /\ n \in Nat /\ DOMAIN dialogues = 1 .. n
        /\ dialogues' \in Seq(Context) /\ Len(dialogues') = n + 1
        /\ DOMAIN dialogues' = 1 .. n + 1
        /\ \A d \in 1 .. n : dialogues'[d] = dialogues[d]
        /\ dialogues'[n + 1] = new
    BY <2>2, <2>3, <2>4, Ends
  <2>6. /\ listings' \in Seq(SearchCalls) /\ Len(listings') = n + 1
        /\ \A d \in 1 .. n : listings'[d] = listings[d]
        /\ listings'[n + 1] = call
    BY <2>2, <2>3, <2>4, Ends
  <2>7. \A d \in DOMAIN dialogues' :
          DialogueOK(dialogues'[d], listings'[d]) /\ Unframed(dialogues'[d].for)
    BY <1>4, <2>1, <2>5, <2>6 DEF ChooserInv
  <2>8. \A s : ShareOK(s) => ShareOK(s)'
    <3> SUFFICES ASSUME NEW s, ShareOK(s) PROVE ShareOK(s)'
      OBVIOUS
    <3>1. s.dialogue \in 1 .. n /\ s.latest \in 1 .. n
      BY <2>5 DEF ShareOK
    <3>2. \A e \in s.dialogue + 1 .. s.latest : e \in 1 .. n
      BY <2>5, <3>1
    <3> QED BY <2>5, <3>1, <3>2 DEF ShareOK
  <2>9. n + 1 <= MaxDialogues
    BY <2>3, <2>5, ChooserAssumption
  <2>10. ChooserTypeOK'
    BY <1>1, <1>2, <2>3, <2>5, <2>6, <2>7, <2>9
    DEF ChooserInv, ChooserTypeOK, DialogueOK
  <2>11. window' = dialogues'[Len(dialogues')].for
    BY <2>1, <2>3, <2>5
  <2> QED BY <1>1, <2>7, <2>8, <2>10, <2>11 DEF ChooserInv
<1>5. \/ UNCHANGED <<window, dialogues, listings>>
      \/ \E w \in Chosen : Unframed(w) /\ ChosenWindow(w)
  BY WhatIsTaken DEF SelectAWindow
<1> QED BY <1>3, <1>4, <1>5

\* The rest of the main window leaves the dialogues alone.
LEMMA MainKeeps ==
  ASSUME ChooserInv,
         \/ ButtonToggled \/ MainWindowClosed \/ GtkMainReturns
         \/ CannotGrab \/ SelectTooLate
  PROVE  ChooserInv'
<1>1. UNCHANGED <<window, dialogues, listings, shares>>
  BY DEF ButtonToggled, MainWindowClosed, GtkMainReturns, CannotGrab, SelectTooLate
<1>2. /\ loop' \in {"running", "quitting", "over"} /\ main' \in {"live", "freed"}
      /\ harm' \subseteq {"main", "context"}
      /\ "context" \notin harm'
      /\ (loop' = "quitting" => main' = "freed")
  BY DEF ButtonToggled, MainWindowClosed, GtkMainReturns, CannotGrab, SelectTooLate,
         ChooserInv, ChooserTypeOK
<1>3. timeouts' \in 0 .. MaxTimeouts
  BY ChooserAssumption
  DEF ButtonToggled, MainWindowClosed, GtkMainReturns, CannotGrab, SelectTooLate,
      ChooserInv, ChooserTypeOK
<1>4. toggled' \in BOOLEAN
  <2>1. toggled' = toggled \/ toggled' \in BOOLEAN
    BY DEF ButtonToggled, MainWindowClosed, GtkMainReturns, CannotGrab, SelectTooLate
  <2> QED BY <2>1 DEF ChooserInv, ChooserTypeOK
<1>5. ChooserTypeOK'
  BY <1>1, <1>2, <1>3, <1>4 DEF ChooserInv, ChooserTypeOK
<1>6. \A s : ShareOK(s) => ShareOK(s)'
  BY <1>1 DEF ShareOK
<1> QED BY <1>1, <1>2, <1>5, <1>6 DEF ChooserInv

-----------------------------------------------------------------------------
(* Every step, and the theorems.                                           *)

LEMMA ChooserInit == Init => ChooserInv
<1> SUFFICES ASSUME Init PROVE ChooserInv
  OBVIOUS
<1>1. /\ dialogues = <<>> /\ listings = <<>> /\ shares = <<>>
      /\ dialogues \in Seq(Context) /\ listings \in Seq(SearchCalls)
      /\ shares \in Seq(Share)
      /\ Len(dialogues) = 0 /\ Len(listings) = 0
      /\ DOMAIN dialogues = {} /\ DOMAIN shares = {}
  BY NothingYet DEF Init
<1>2. timeouts \in 0 .. MaxTimeouts /\ 0 <= MaxDialogues
  BY ChooserAssumption DEF Init
<1>3. toggled \in BOOLEAN
  BY DEF Init
<1>4. ChooserTypeOK
  BY <1>1, <1>2, <1>3 DEF Init, ChooserTypeOK
<1> QED BY <1>1, <1>4 DEF Init, ChooserInv

LEMMA ChooserStep == ChooserInv /\ [Next]_vars => ChooserInv'
<1> SUFFICES ASSUME ChooserInv, [Next]_vars PROVE ChooserInv'
  OBVIOUS
<1>1. CASE ButtonToggled \/ MainWindowClosed \/ GtkMainReturns
           \/ CannotGrab \/ SelectTooLate
  BY <1>1, MainKeeps
<1>2. CASE SelectAWindow
  BY <1>2, SelectAWindowKeeps
<1>3. ASSUME NEW d \in DOMAIN dialogues, NEW a \in Accounts, NEW t \in Contacts,
             AddContact(d, a, t)
      PROVE  ChooserInv'
  BY <1>3, AddContactKeeps
<1>4. ASSUME NEW d \in DOMAIN dialogues, AllContactsSeen(d) PROVE ChooserInv'
  BY <1>4, AllContactsSeenKeeps
<1>5. ASSUME NEW d \in DOMAIN dialogues, NEW t \in Contacts, SelectRow(d, t)
      PROVE  ChooserInv'
  BY <1>5, SelectRowKeeps
<1>6. ASSUME NEW d \in DOMAIN dialogues, HandleResponse(d) PROVE ChooserInv'
  BY <1>6, HandleResponseKeeps
<1>7. CASE UNCHANGED vars
  <2>1. UNCHANGED <<loop, toggled, timeouts, main, window, dialogues, listings,
                    shares, harm>>
    BY <1>7 DEF vars, mainVars
  <2>2. \A s : ShareOK(s) => ShareOK(s)'
    BY <2>1 DEF ShareOK
  <2>3. ChooserTypeOK'
    BY <2>1 DEF ChooserInv, ChooserTypeOK
  <2> QED BY <2>1, <2>2, <2>3 DEF ChooserInv
<1> QED BY <1>1, <1>2, <1>3, <1>4, <1>5, <1>6, <1>7 DEF Next

\* The invariant that carries the others: each contact a dialogue knows is known
\* from the first report of it, a context is freed when its dialogue and its
\* search are over, and what was shared was known to the dialogue that shared it.
THEOREM ChooserSafe == Spec => []ChooserInv
BY ChooserInit, ChooserStep, PTL DEF Spec

\* Every variable keeps its type; a contact has one row whatever the number of
\* accounts that know it (add_contact).
THEOREM ChooserTypes == Spec => []ChooserTypeOK
<1>1. ChooserInv => ChooserTypeOK
  BY DEF ChooserInv
<1> QED BY <1>1, ChooserSafe, PTL

\* The context of a dialogue is freed when the dialogue is closed and its search
\* has ended, in whichever order, and is not used after that
\* (context_maybe_free).
THEOREM FreedWhenDone == Spec => []ContextFreedWhenDone
<1>1. ChooserInv => ContextFreedWhenDone
  BY DEF ChooserInv, DialogueOK, ContextFreedWhenDone
<1> QED BY <1>1, ChooserSafe, PTL

\* A dialogue shares once, and what was chosen in it, from the account the user
\* was shown; but the window may be that of a later choice, and a name whose
\* length differs from its account's may be cut or overrun (chosen_window,
\* window_set_sharing).
THEOREM ChoiceIsShared == Spec => []SharesTheChoice
<1>1. ChooserInv => SharesTheChoice
  <2> SUFFICES ASSUME ChooserInv, NEW i \in DOMAIN shares
               PROVE  LET s == shares[i] IN
                      /\ FirstFrom(listings[s.dialogue].reported, s.source, s.chosen)
                      /\ s.target = s.chosen \/ Length[s.source] # Length[s.chosen]
                      /\ \/ s.window = dialogues[s.dialogue].for
                         \/ \E e \in s.dialogue + 1 .. s.latest :
                              s.window = dialogues[e].for
                      /\ s.window # Own
                      /\ Unframed(s.window)
    BY DEF SharesTheChoice, ChooserInv, Unframed
  <2> DEFINE s == shares[i]
  <2>1. ShareOK(s) /\ s \in Share
    BY DEF ChooserInv, ChooserTypeOK
  <2>2. FirstFrom(listings[s.dialogue].reported, s.source, s.chosen)
    BY <2>1 DEF ShareOK, ChooserInv, DialogueOK
  <2>3. s.window # Own
    BY <2>1 DEF Share, Chosen
  <2> QED BY <2>1, <2>2, <2>3 DEF ShareOK
<1> QED BY <1>1, ChooserSafe, PTL

=============================================================================
