------------------------------ MODULE LinkStore -------------------------------
(***************************************************************************)
(* What the shortener promises about its links, with no index, lock,       *)
(* transaction or cache (internal/service/service.go and the repositories  *)
(* behind it): a short is given to one original for good, an answer that   *)
(* names a short is given only when its link is stored, and a link is      *)
(* never changed or removed but marked deleted, for its own user.          *)
(***************************************************************************)

CONSTANTS Owners   \* users that may have links deleted

VARIABLES
  links,   \* the stored links: short, original, user and deleted
  told     \* pairs <<short, original>> that requests have been answered

svars == <<links, told>>

Leads(L) == {<<l.short, l.original>> : l \in L}

OwnedBy(u) == {l \in links : l.user = u}

Init == links = {} /\ told = {}

\* New links are live, and their shorts are new.
Add ==
  /\ links \subseteq links'
  /\ \A l \in links' \ links :
       /\ l.deleted = FALSE
       /\ \A k \in links' : k.short = l.short => k = l

Tell == told \subseteq told' /\ told' \subseteq Leads(links')

Delete ==
  /\ \E u \in Owners : \E S \in SUBSET {l.short : l \in OwnedBy(u)} :
       links' = {[l EXCEPT !.deleted = @ \/ l.short \in S] : l \in links}
  /\ UNCHANGED told

Next == (Add /\ Tell) \/ Delete

Spec == Init /\ [][Next]_svars

\* What these steps come to, for whoever holds a short: the link is there after each step,
\* as the only one of its short, for the same original and user, and deleted if it was.
LinksKept ==
  \A l \in links : \E k \in links' :
    /\ {m \in links' : m.short = l.short} = {k}
    /\ k.original = l.original /\ k.user = l.user /\ (l.deleted => k.deleted)
===============================================================================
