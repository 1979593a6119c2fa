----------------------------- MODULE MCWebSession -----------------------------
(***************************************************************************)
(* A browser with two tabs and two users, one with a second factor.        *)
(***************************************************************************)
EXTENDS WebSession, TLC

CONSTANTS alice, bob

Symmetry == Permutations(Sessions) \cup Permutations(Tabs) \cup Permutations(Flows)
==============================================================================
