------------------------------- MODULE Passkeys -------------------------------
(***************************************************************************)
(* Passkeys: passkey.service.ts with its routes in auth.controller.ts, and *)
(* the ceremonies that LoginView.vue and SettingsSecurityView.vue run with *)
(* the browser's authenticator.                                            *)
(*                                                                         *)
(* A ceremony is: ask for options, which name a challenge; let the         *)
(* authenticator sign it; send its response.  A challenge is named for its *)
(* ceremony.  What is sent may arrive more than once, late, or never.      *)
(* @simplewebauthn/server checks a response; it is modelled by what the    *)
(* service relies on: type, challenge, key and counter of the response.    *)
(***************************************************************************)
EXTENDS Naturals, FiniteSets

CONSTANTS
  Users,
  Creds,       \* credentials: key pairs on authenticators
  Holder,      \* Creds -> the user who has the authenticator
  Counting,    \* the credentials whose authenticator counts its signatures
  Ceremonies,
  Menu,        \* the ceremonies that may be begun
  Calls,       \* verify calls; each is made at most once
  Registered0, \* the credentials registered at the start
  MaxCount,    \* bound on an authenticator's counter
  None

Ceremony == [op : {"register"}, user : Users] \cup [op : {"login"}, user : Users \cup {None}]

\* passkeys: a row, named for the ceremony that made it (None: it was there).
Row == [id : Ceremonies \cup {None}, owner : Users, counter : 0..MaxCount]

Response == [cred : Creds, count : 0..MaxCount]

ASSUME PasskeyAssumption ==
  /\ Menu \subseteq Ceremony
  /\ Holder \in [Creds -> Users]
  /\ Counting \subseteq Creds /\ Registered0 \subseteq Creds
  /\ MaxCount \in Nat
  /\ Users \cap Ceremonies = {}
  /\ None \notin Row \cup Response \cup Ceremony \cup Users \cup Ceremonies

VARIABLES
  passkey,     \* the table: Creds -> row, or None
  challenges,  \* the map: user or challenge -> the challenge stored, or None
  expired,     \* the keys whose entry is past its five minutes
  device,      \* Creds -> the authenticator's counter
  ceremony,    \* Ceremonies -> what was begun, or None
  allowed,     \* Ceremonies -> the credentials its options list
  response,    \* Ceremonies -> what the authenticator made, or None
  at,          \* Calls -> where its handler is
  sent,        \* Calls -> the ceremony whose response it carries, or None
  seen         \* Calls -> the row it read, or None

browser == <<device, ceremony, allowed, response>>
store == <<challenges, expired>>
vars == <<passkey, store, browser, at, sent, seen>>

Keys == Users \cup Ceremonies

TypeOK ==
  /\ passkey \in [Creds -> Row \cup {None}]
  /\ challenges \in [Keys -> Ceremonies \cup {None}]
  /\ expired \subseteq Keys
  /\ device \in [Creds -> 0..MaxCount]
  /\ ceremony \in [Ceremonies -> Ceremony \cup {None}]
  /\ allowed \in [Ceremonies -> SUBSET Creds]
  /\ response \in [Ceremonies -> Response \cup {None}]
  /\ at \in [Calls -> {"free", "start", "consume", "create", "update", "ok", "failed"}]
  /\ sent \in [Calls -> Ceremonies \cup {None}]
  /\ seen \in [Calls -> Row \cup {None}]
  /\ \A e \in Calls :
       /\ at[e] # "free" => /\ sent[e] \in Ceremonies
                            /\ ceremony[sent[e]] \in Ceremony
                            /\ response[sent[e]] \in Response
       /\ at[e] \in {"consume", "update"} => seen[e] \in Row

Init ==
  /\ passkey = [k \in Creds |->
       IF k \in Registered0 THEN [id |-> None, owner |-> Holder[k], counter |-> 0] ELSE None]
  /\ challenges = [x \in Keys |-> None]
  /\ expired = {}
  /\ device = [k \in Creds |-> 0]
  /\ ceremony = [c \in Ceremonies |-> None]
  /\ allowed = [c \in Ceremonies |-> {}]
  /\ response = [c \in Ceremonies |-> None]
  /\ at = [e \in Calls |-> "free"]
  /\ sent = [e \in Calls |-> None]
  /\ seen = [e \in Calls |-> None]
-----------------------------------------------------------------------------
(* Challenges.                                                               *)

\* Under the user's id; a login without a username has only the challenge.
ChallengeKey(c) == IF ceremony[c].user = None THEN c ELSE ceremony[c].user

PasskeysOf(u) == {k \in Creds : passkey[k] # None /\ passkey[k].owner = u}

\* storeChallenge prunes what has expired.
StoreChallenge(x, c) ==
  /\ challenges' = [y \in Keys |->
       IF y = x THEN c ELSE IF y \in expired THEN None ELSE challenges[y]]
  /\ expired' = {}

\* generateRegistrationOptions and generateAuthenticationOptions.  The options
\* list the user's passkeys: to exclude them, or to choose one of them.
GenerateOptions(c, q) ==
  /\ ceremony[c] = None
  /\ ceremony' = [ceremony EXCEPT ![c] = q]
  /\ allowed' = [allowed EXCEPT ![c] =
       IF q.op = "register" THEN Creds \ PasskeysOf(q.user)
       ELSE IF q.user = None THEN {} ELSE PasskeysOf(q.user)]
  /\ StoreChallenge(IF q.user = None THEN c ELSE q.user, c)
  /\ UNCHANGED <<passkey, device, response, at, sent, seen>>

\* Mutant: the entry stays until it expires.
TakeCopy(x) == UNCHANGED store

\* consumeChallenge removes what it finds.
Take(x) ==
  /\ challenges' = [challenges EXCEPT ![x] = None]
  /\ expired' = expired \ {x}

\* It returns the challenge of c.
Finds(c) == LET x == ChallengeKey(c) IN challenges[x] = c /\ x \notin expired

Expire(x) ==
  /\ challenges[x] # None
  /\ expired' = expired \cup {x}
  /\ UNCHANGED <<passkey, challenges, browser, at, sent, seen>>
-----------------------------------------------------------------------------
(* The browser.                                                              *)

\* The authenticator's next counter; one that does not count says 0.
NextCount(k) == IF k \in Counting THEN device[k] + 1 ELSE 0

\* startRegistration, startAuthentication: with a credential of the list, or,
\* when the list is empty, with any that the user holds.
Sign(c, k) ==
  /\ ceremony[c] # None /\ response[c] = None
  /\ \/ k \in allowed[c]
     \/ ceremony[c].op = "login" /\ allowed[c] = {}
  /\ ceremony[c].op = "register" => Holder[k] = ceremony[c].user
  /\ NextCount(k) <= MaxCount
  /\ device' = [device EXCEPT ![k] = NextCount(k)]
  /\ response' = [response EXCEPT ![c] = [cred |-> k, count |-> NextCount(k)]]
  /\ UNCHANGED <<passkey, store, ceremony, allowed, at, sent, seen>>

\* The response is sent to the verify route, perhaps again.
Send(e, c) ==
  /\ at[e] = "free"
  /\ response[c] # None
  /\ sent' = [sent EXCEPT ![e] = c]
  /\ at' = [at EXCEPT ![e] = "start"]
  /\ UNCHANGED <<passkey, store, browser, seen>>
-----------------------------------------------------------------------------
(* verifyRegistration.                                                       *)

GoTo(e, pc) == at' = [at EXCEPT ![e] = pc]

\* Mutant: a response is taken by either verify route.
StartsAnywhere(e, op) == at[e] = "start"

Starts(e, op) == at[e] = "start" /\ ceremony[sent[e]].op = op

Answered(e) == response[sent[e]]

VerifyRegistration(e) ==
  LET c == sent[e] IN
  /\ Starts(e, "register")
  /\ Take(ChallengeKey(c))
  /\ GoTo(e, IF Finds(c) THEN "create" ELSE "failed")
  /\ UNCHANGED <<passkey, browser, sent, seen>>

\* A credential id is stored once.
CreatePasskey(e) ==
  LET k == Answered(e).cred IN
  /\ at[e] = "create"
  /\ IF passkey[k] = None
     THEN /\ passkey' = [passkey EXCEPT ![k] =
               [id |-> sent[e], owner |-> ceremony[sent[e]].user, counter |-> Answered(e).count]]
          /\ GoTo(e, "ok")
     ELSE GoTo(e, "failed") /\ UNCHANGED passkey
  /\ UNCHANGED <<store, browser, sent, seen>>
-----------------------------------------------------------------------------
(* verifyAuthentication, and loginWithPasskey.                               *)

\* Mutant: the user id of the request is believed.
NamedUser(c, row) == IF ceremony[c].user = None THEN row.owner ELSE ceremony[c].user

\* The owner of the passkey, whom the request may name; None if it names another.
ResolvedUser(c, row) == IF ceremony[c].user \in {None, row.owner} THEN row.owner ELSE None

FindPasskey(e) ==
  LET k == Answered(e).cred IN
  /\ Starts(e, "login")
  /\ IF passkey[k] # None /\ ResolvedUser(sent[e], passkey[k]) # None
     THEN seen' = [seen EXCEPT ![e] = passkey[k]] /\ GoTo(e, "consume")
     ELSE GoTo(e, "failed") /\ UNCHANGED seen
  /\ UNCHANGED <<passkey, store, browser, sent>>

\* verifyAuthenticationResponse: counters grow, where there are any.
Accepts(stored, count) == (stored = 0 /\ count = 0) \/ count > stored

ConsumeAndVerify(e) ==
  LET c == sent[e] IN
  /\ at[e] = "consume"
  /\ Take(ChallengeKey(c))
  /\ GoTo(e, IF Finds(c) /\ Accepts(seen[e].counter, Answered(e).count) THEN "update" ELSE "failed")
  /\ UNCHANGED <<passkey, browser, sent, seen>>

\* The row it read is still there; only then is a session opened.
StillStored(e) == LET k == Answered(e).cred IN passkey[k] # None /\ passkey[k].id = seen[e].id

\* Mutant: the stored counter is incremented.
IncrementCounter(e) ==
  /\ at[e] = "update"
  /\ IF StillStored(e)
     THEN /\ passkey' = [passkey EXCEPT ![Answered(e).cred].counter =
               IF @ < MaxCount THEN @ + 1 ELSE @]
          /\ GoTo(e, "ok")
     ELSE GoTo(e, "failed") /\ UNCHANGED passkey
  /\ UNCHANGED <<store, browser, sent, seen>>

\* Mutant: updateMany, which does not mind that the row is gone.
UpdateMany(e) ==
  /\ at[e] = "update"
  /\ passkey' = [k \in Creds |->
       IF k = Answered(e).cred /\ StillStored(e)
       THEN [passkey[k] EXCEPT !.counter = Answered(e).count] ELSE passkey[k]]
  /\ GoTo(e, "ok")
  /\ UNCHANGED <<store, browser, sent, seen>>

UpdateCounter(e) ==
  /\ at[e] = "update"
  /\ IF StillStored(e)
     THEN /\ passkey' = [passkey EXCEPT ![Answered(e).cred].counter = Answered(e).count]
          /\ GoTo(e, "ok")
     ELSE GoTo(e, "failed") /\ UNCHANGED passkey
  /\ UNCHANGED <<store, browser, sent, seen>>
-----------------------------------------------------------------------------
\* deletePasskey, by its owner.
DeletePasskey(k) ==
  /\ passkey[k] # None
  /\ passkey' = [passkey EXCEPT ![k] = None]
  /\ UNCHANGED <<store, browser, at, sent, seen>>

\* The challenges are in memory only, and so are the handlers.
Restart ==
  /\ challenges' = [x \in Keys |-> None]
  /\ expired' = {}
  /\ at' = [e \in Calls |-> IF at[e] \in {"free", "ok"} THEN at[e] ELSE "failed"]
  /\ UNCHANGED <<passkey, browser, sent, seen>>

Handle(e) ==
  \/ \E c \in Ceremonies : Send(e, c)
  \/ VerifyRegistration(e) \/ CreatePasskey(e)
  \/ FindPasskey(e) \/ ConsumeAndVerify(e) \/ UpdateCounter(e)

Next ==
  \/ \E c \in Ceremonies : \E q \in Menu : GenerateOptions(c, q)
  \/ \E c \in Ceremonies, k \in Creds : Sign(c, k)
  \/ \E e \in Calls : Handle(e)
  \/ \E x \in Keys : Expire(x)
  \/ \E k \in Creds : DeletePasskey(k)
  \/ Restart

Spec == Init /\ [][Next]_vars
-----------------------------------------------------------------------------
(* Properties.                                                               *)

\* "a challenge cannot be replayed even by two concurrent requests": of all the
\* calls that carry one response, at most one ever gets past consumeChallenge.
ChallengeOnce ==
  \A e, f \in Calls :
    /\ at[e] \in {"create", "update", "ok"} /\ at[f] \in {"create", "update", "ok"}
    /\ sent[e] = sent[f]
    => e = f

\* A session is opened only for the user who holds the authenticator that
\* signed, whoever asked for the options and whatever user the request names.
LoginByHolder ==
  \A e \in Calls :
    at[e] = "ok" /\ ceremony[sent[e]].op = "login" =>
      ResolvedUser(sent[e], seen[e]) = Holder[Answered(e).cred]

\* The counter stored for a passkey is never ahead of its authenticator, in
\* whatever order responses are verified and written: the next one is accepted.
NeverLockedOut ==
  \A k \in Creds : passkey[k] # None => Accepts(passkey[k].counter, NextCount(k))

\* Nobody signs in with a passkey row that is gone by the time the login
\* completes, though it was there when the login began.
DeletedStaysOut ==
  [][\A e \in Calls :
       at[e] # "ok" /\ at'[e] = "ok" /\ ceremony[sent[e]].op = "login" =>
         \E k \in Creds :
           passkey[k] # None /\ passkey[k].id = seen[e].id /\ passkey'[k] # None]_vars
==============================================================================
