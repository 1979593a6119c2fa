------------------------------ MODULE MCPasskeys ------------------------------
(***************************************************************************)
(* A small instance of Passkeys: one user with a registered authenticator  *)
(* that counts, another with one that does not.                            *)
(***************************************************************************)
EXTENDS Passkeys, TLC

CONSTANTS alice, bob, usb, phone

MCHolder == [k \in Creds |-> IF k = usb THEN alice ELSE bob]

\* Login with and without a username, and registration.
MCMenu ==
  [op : {"login"}, user : {alice, bob, None}] \cup [op : {"register"}, user : {bob}]

Symmetry == Permutations(Ceremonies) \cup Permutations(Calls)
==============================================================================
