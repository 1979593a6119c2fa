---------------------------- MODULE MCAuthSessions ----------------------------
(***************************************************************************)
(* Small instances of AuthSessions.                                        *)
(***************************************************************************)
EXTENDS AuthSessions, TLC

CONSTANTS u1, u2, w1, w2, t1, t2

\* Nobody yet; one user; or two, one with a second factor.
MCAccounts0 ==
  {[u \in Users |-> None],
   [u \in Users |-> IF u = u1 THEN [password |-> w1, totp |-> NoTotp] ELSE None],
   [u \in Users |-> [password |-> w1, totp |-> IF u = u1 THEN t1 ELSE NoTotp]]}

On(op) == [op |-> op]
Register(u) == [op |-> "register", user |-> u, password |-> w1]
LogIn(u, w) == [op |-> "login", user |-> u, password |-> w]
Passkey(u) == [op |-> "passkey", user |-> u]
Code(t) == [op |-> "verify", code |-> t]
Enable(t, c) == [op |-> "enable", secret |-> t, code |-> c]
ChangeTo(w, v) == [op |-> "password", current |-> w, new |-> v]

\* Every operation there is.
SessionsMenu ==
  {Register(u1), Register(u2), LogIn(u1, w1), LogIn(u2, w1), Passkey(u1), Code(t1),
   Enable(t1, t1), Enable(t1, t2), On("disable"), ChangeTo(w1, w2)}
    \cup {On(op) : op \in {"refresh", "logout", "revoke", "revokeOthers"}}

Symmetry == Permutations(Calls)
==============================================================================
