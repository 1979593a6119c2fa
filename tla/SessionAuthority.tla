--------------------------- MODULE SessionAuthority ---------------------------
(***************************************************************************)
(* What an account's sessions promise, with no statement, token format or  *)
(* await in sight.  A call presents a proof.  It is admitted on ONE look   *)
(* at the account, or by giving up ONE open session, and a call that was   *)
(* admitted opens one session of that user, once.  The account may have    *)
(* changed since the look.                                                 *)
(***************************************************************************)
CONSTANTS
  Calls,         \* a session is named for the call that opens it
  Users,
  Passwords,
  Codes,         \* TOTP secrets, each standing for its code of the moment
  PasskeyUsers,  \* users who have enrolled a passkey
  NoTotp,
  None

VARIABLES
  account,    \* Users -> account, or None
  half,       \* users some call proved the password of
  proof,      \* Calls -> what it presented, or None
  ticket,     \* Calls -> the user it was admitted as, or None
  spent,      \* calls that opened their session
  open        \* Calls -> the user of its session while that is open, or None

vars == <<account, half, proof, ticket, spent, open>>

Account == [password : Passwords, totp : Codes \cup {NoTotp}]

Proof ==
  [kind : {"password"}, user : Users, word : Passwords]
    \cup [kind : {"code"}, user : Users, word : Codes]
    \cup [kind : {"passkey"}, user : PasskeyUsers]
    \cup [kind : {"session"}, id : Calls]

Init ==
  /\ account \in [Users -> Account \cup {None}]
  /\ half = {}
  /\ proof = [e \in Calls |-> None]
  /\ ticket = [e \in Calls |-> None]
  /\ spent = {}
  /\ open = [e \in Calls |-> None]

Present(e) ==
  /\ proof[e] = None
  /\ proof'[e] \in Proof
  /\ proof' = [proof EXCEPT ![e] = proof'[e]]
  /\ UNCHANGED <<account, half, ticket, spent, open>>

\* The password was right and a second factor is wanted.
Half(e) ==
  /\ proof[e] # None
  /\ proof[e].kind = "password"
  /\ account[proof[e].user] # None
  /\ account[proof[e].user].password = proof[e].word
  /\ half' = half \cup {proof[e].user}
  /\ UNCHANGED <<account, proof, ticket, spent, open>>

\* The password is enough only while there is no second factor, and a code is
\* worth nothing from someone who never got past the password.
Accepted(p) ==
  /\ account[p.user] # None
  /\ \/ p.kind = "password" /\ account[p.user] = [password |-> p.word, totp |-> NoTotp]
     \/ p.kind = "code" /\ account[p.user].totp = p.word /\ p.user \in half
     \/ p.kind = "passkey"

Admit(e) ==
  /\ proof[e] # None
  /\ proof[e].kind # "session"
  /\ ticket[e] = None
  /\ Accepted(proof[e])
  /\ ticket' = [ticket EXCEPT ![e] = proof[e].user]
  /\ UNCHANGED <<account, half, proof, spent, open>>

Exchange(e) ==
  /\ proof[e] # None
  /\ proof[e].kind = "session"
  /\ ticket[e] = None
  /\ open[proof[e].id] # None
  /\ ticket' = [ticket EXCEPT ![e] = open[proof[e].id]]
  /\ open' = [open EXCEPT ![proof[e].id] = None]
  /\ UNCHANGED <<account, half, proof, spent>>

\* A new account admits the call that made it.
Enrol(e) ==
  /\ \E u \in Users :
       /\ account[u] = None
       /\ account'[u] \in Account
       /\ account' = [account EXCEPT ![u] = account'[u]]
       /\ ticket[e] = None
       /\ ticket' = [ticket EXCEPT ![e] = u]
  /\ UNCHANGED <<half, proof, spent, open>>

Open(e) ==
  /\ ticket[e] # None
  /\ e \notin spent
  /\ spent' = spent \cup {e}
  /\ open' = [open EXCEPT ![e] = ticket[e]]
  /\ half' = half \cup {ticket[e]}
  /\ UNCHANGED <<account, proof, ticket>>

\* The user changes credentials, or ends sessions, or both in one go.
Manage ==
  /\ account' \in [Users -> Account \cup {None}]
  /\ \A u \in Users : account[u] = None <=> account'[u] = None
  /\ open' \in [Calls -> Users \cup {None}]
  /\ \A e \in Calls : open'[e] \in {open[e], None}
  /\ UNCHANGED <<half, proof, ticket, spent>>

Next ==
  \/ \E e \in Calls : Present(e) \/ Half(e) \/ Admit(e) \/ Exchange(e) \/ Enrol(e) \/ Open(e)
  \/ Manage

Spec == Init /\ [][Next]_vars
==============================================================================
