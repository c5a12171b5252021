---------------------------- MODULE ContactList -----------------------------
(***************************************************************************)
(* What list_contacts promises to the one who gives it a callback (see     *)
(* list_contacts_cb in src/src/connector/list-contacts.h): it is called    *)
(* for contacts, then at most once without any, and never after that, so   *)
(* that what it needs may be freed.                                        *)
(***************************************************************************)
EXTENDS Naturals

VARIABLES
  reported,  \* pairs of an account and a contact of it
  ended      \* calls without a contact

vars == <<reported, ended>>

Init == reported = {} /\ ended = 0

Report ==
  /\ ended = 0
  /\ reported \subseteq reported'
  /\ ended' \in {0, 1}

Spec == Init /\ [][Report]_vars
=============================================================================
