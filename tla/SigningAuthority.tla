--------------------------- MODULE SigningAuthority ---------------------------
(***************************************************************************)
(* What a bunker promises about the use of a key, with no server, database *)
(* or await in sight.  There is a book in which every connection has an    *)
(* entry: the client that holds it, the signer it is bound to, whether it  *)
(* is open, and its grants.  A request is decided on ONE look at ONE open  *)
(* entry of its own client and signer, taken after it was asked, and it    *)
(* may exercise the capability it asked for once, if what it saw then      *)
(* covers it.  The book may have changed since that look.                  *)
(***************************************************************************)
EXTENDS Integers

CONSTANTS
  Reqs,       \* identifiers of requests
  ConnIds,    \* identifiers of entries
  Clients,
  Pubkeys,
  Wants,      \* the capabilities that may be asked for
  Perms,      \* the grants a book may hold
  None,
  Covers(_, _)  \* do these grants cover this capability?

VARIABLES
  book,       \* ConnIds -> entry
  ask,        \* Reqs -> what was asked, or None
  view,       \* Reqs -> the grants it saw, or None
  acted       \* requests that exercised their capability

vars == <<book, ask, view, acted>>

Entry == [client : Clients, signer : Pubkeys, open : BOOLEAN, grants : SUBSET Perms]

Question == [client : Clients, signer : Pubkeys, want : Wants]

Init ==
  /\ book = [c \in ConnIds |-> None]
  /\ ask = [r \in Reqs |-> None]
  /\ view = [r \in Reqs |-> None]
  /\ acted = {}

\* The operator, or a pairing the operator invited, changes entries.
Govern ==
  /\ book' \in [ConnIds -> Entry \cup {None}]
  /\ UNCHANGED <<ask, view, acted>>

Ask(r) ==
  /\ ask[r] = None
  /\ \E q \in Question : ask' = [ask EXCEPT ![r] = q]
  /\ UNCHANGED <<book, view, acted>>

Look(r) ==
  /\ ask[r] # None
  /\ view[r] = None
  /\ \E c \in ConnIds :
       /\ book[c] # None
       /\ book[c].open
       /\ book[c].client = ask[r].client
       /\ book[c].signer = ask[r].signer
       /\ view' = [view EXCEPT ![r] = book[c].grants]
  /\ UNCHANGED <<book, ask, acted>>

Act(r) ==
  /\ view[r] # None
  /\ r \notin acted
  /\ Covers(view[r], ask[r].want)
  /\ acted' = acted \cup {r}
  /\ UNCHANGED <<book, ask, view>>

Next == Govern \/ \E r \in Reqs : Ask(r) \/ Look(r) \/ Act(r)

Spec == Init /\ [][Next]_vars
==============================================================================
