--------------------------- MODULE Passkeys_proofs ---------------------------
(***************************************************************************)
(* What holds of passkeys for any number of users, credentials, ceremonies *)
(* and calls.  Three invariants carry the properties: where a challenge    *)
(* may still be (ChallengeInv), whose a credential is (HolderInv), and how *)
(* far counters are (CountInv).                                            *)
(***************************************************************************)
EXTENDS Passkeys, TLAPS

Past == {"create", "update", "ok"}

TypeInv ==
  /\ TypeOK
  /\ \A c \in Ceremonies : response[c] # None => ceremony[c] # None
  /\ \A e \in Calls : at[e] = "create" => ceremony[sent[e]].op = "register"
  /\ \A e \in Calls : at[e] \in {"consume", "update"} => ceremony[sent[e]].op = "login"

\* What is stored under x is a challenge whose ceremony looks for it there.
FiledRight(x) ==
  challenges[x] # None => ceremony[challenges[x]] # None /\ x = ChallengeKey(challenges[x])

\* A challenge that was consumed is nowhere in the map, and one that is in the
\* map is under the one key where its ceremony looks for it.
ChallengeInv ==
  /\ ChallengeOnce
  /\ \A e \in Calls : at[e] \in Past => \A x \in Keys : challenges[x] # sent[e]
  /\ \A x \in Keys : FiledRight(x)

\* A stored credential belongs to its holder, and so does one that is being
\* registered; a login past its look was resolved to the holder.
HolderInv ==
  /\ \A k \in Creds : passkey[k] # None => passkey[k].owner = Holder[k]
  /\ \A c \in Ceremonies : response[c] # None /\ ceremony[c].op = "register" =>
       Holder[response[c].cred] = ceremony[c].user
  /\ \A e \in Calls : at[e] \in {"consume", "update"} =>
       ResolvedUser(sent[e], seen[e]) = Holder[Answered(e).cred]
  /\ LoginByHolder

\* No response and no row is ahead of the authenticator; those of one that does
\* not count say 0.
CountInv ==
  /\ \A c \in Ceremonies : response[c] # None =>
       /\ response[c].count <= device[response[c].cred]
       /\ response[c].cred \notin Counting => response[c].count = 0
  /\ \A k \in Creds : passkey[k] # None =>
       /\ passkey[k].counter <= device[k]
       /\ k \notin Counting => passkey[k].counter = 0
  /\ \A k \in Creds : k \notin Counting => device[k] = 0
-----------------------------------------------------------------------------
(* Types.                                                                    *)

\* What the assumption says of None, and of the records.
LEMMA Records ==
  /\ None \notin Ceremonies /\ None \notin Users
  /\ \A r \in Row : r # None /\ r.id \in Ceremonies \cup {None} /\ r.owner \in Users
                    /\ r.counter \in 0..MaxCount
  /\ \A r \in Response : r # None /\ r.cred \in Creds /\ r.count \in 0..MaxCount
  /\ \A q \in Ceremony : q # None /\ q.user \in Users \cup {None}
                         /\ (q.op = "register" => q.user \in Users)
                         /\ q.op \in {"register", "login"}
BY PasskeyAssumption DEF Row, Response, Ceremony

\* Every call that was sent carries a response to a ceremony that was begun.
LEMMA SentAnswered ==
  ASSUME TypeInv, NEW e \in Calls, at[e] # "free"
  PROVE  /\ sent[e] \in Ceremonies
         /\ ceremony[sent[e]] \in Ceremony /\ ceremony[sent[e]] # None
         /\ Answered(e) \in Response /\ Answered(e) # None
         /\ ChallengeKey(sent[e]) \in Keys
BY Records DEF TypeInv, TypeOK, Answered, ChallengeKey, Keys

\* Init meets the types.
LEMMA TypeInit == Init => TypeInv
<1> SUFFICES ASSUME Init PROVE TypeInv OBVIOUS
<1>1. passkey \in [Creds -> Row \cup {None}]
  <2> SUFFICES ASSUME NEW k \in Creds
               PROVE  [id |-> None, owner |-> Holder[k], counter |-> 0] \in Row
    BY DEF Init
  <2> QED BY PasskeyAssumption DEF Row
<1>2. device \in [Creds -> 0..MaxCount]
  BY PasskeyAssumption DEF Init
<1> QED BY <1>1, <1>2 DEF Init, TypeInv, TypeOK

\* Generating options keeps the types.
LEMMA OptionsType ==
  ASSUME TypeInv, NEW c \in Ceremonies, NEW q \in Menu, GenerateOptions(c, q)
  PROVE  TypeInv'
<1>1. q \in Ceremony
  BY PasskeyAssumption
<1>2. ceremony' \in [Ceremonies -> Ceremony \cup {None}]
  BY <1>1 DEF TypeInv, TypeOK, GenerateOptions
<1>3. challenges' \in [Keys -> Ceremonies \cup {None}] /\ expired' \subseteq Keys
  BY DEF TypeInv, TypeOK, GenerateOptions, StoreChallenge
<1>4. allowed' \in [Ceremonies -> SUBSET Creds]
  BY DEF TypeInv, TypeOK, GenerateOptions, PasskeysOf
<1>5. \A d \in Ceremonies : ceremony[d] # None => ceremony'[d] = ceremony[d]
  BY DEF TypeInv, TypeOK, GenerateOptions
<1>6. \A e \in Calls : at[e] # "free" => ceremony'[sent[e]] = ceremony[sent[e]]
  BY <1>5, SentAnswered
<1>7. \A d \in Ceremonies : response'[d] # None => ceremony'[d] # None
  BY <1>5 DEF TypeInv, GenerateOptions
<1> QED BY <1>2, <1>3, <1>4, <1>6, <1>7 DEF TypeInv, TypeOK, GenerateOptions

\* Signing keeps the types.
LEMMA SignType ==
  ASSUME TypeInv, NEW c \in Ceremonies, NEW k \in Creds, Sign(c, k)
  PROVE  TypeInv'
<1>1. NextCount(k) \in 0..MaxCount
  BY PasskeyAssumption DEF TypeInv, TypeOK, Sign, NextCount
<1>2. [cred |-> k, count |-> NextCount(k)] \in Response
  BY <1>1 DEF Response
<1>3. device' \in [Creds -> 0..MaxCount] /\ response' \in [Ceremonies -> Response \cup {None}]
  BY <1>1, <1>2 DEF TypeInv, TypeOK, Sign
<1>4. \A d \in Ceremonies : response[d] # None => response'[d] = response[d]
  BY DEF TypeInv, TypeOK, Sign
<1>5. \A e \in Calls : at[e] # "free" => response'[sent[e]] \in Response
  BY <1>4, SentAnswered DEF Answered
<1>6. \A d \in Ceremonies : response'[d] # None => ceremony'[d] # None
  BY DEF TypeInv, TypeOK, Sign
<1> QED BY <1>3, <1>5, <1>6 DEF TypeInv, TypeOK, Sign, store

\* Taking a challenge keeps the types of the map.
LEMMA TakeType ==
  ASSUME TypeInv, NEW x \in Keys, Take(x)
  PROVE  challenges' \in [Keys -> Ceremonies \cup {None}] /\ expired' \subseteq Keys
BY DEF TypeInv, TypeOK, Take

\* The handlers keep the types.
LEMMA HandleType ==
  ASSUME TypeInv, NEW e \in Calls, Handle(e)
  PROVE  TypeInv'
<1>1. ASSUME NEW c \in Ceremonies, Send(e, c) PROVE TypeInv'
  <2>1. response[c] \in Response /\ ceremony[c] \in Ceremony
    BY <1>1 DEF TypeInv, TypeOK, Send
  <2>2. /\ sent' \in [Calls -> Ceremonies \cup {None}]
        /\ at' \in [Calls -> {"free", "start", "consume", "create", "update", "ok", "failed"}]
    BY <1>1 DEF TypeInv, TypeOK, Send
  <2>3. sent'[e] = c /\ at'[e] = "start"
        /\ \A f \in Calls \ {e} : sent'[f] = sent[f] /\ at'[f] = at[f]
    BY <1>1 DEF TypeInv, TypeOK, Send
  <2> QED BY <1>1, <2>1, <2>2, <2>3 DEF TypeInv, TypeOK, Send, store, browser
<1>2. CASE VerifyRegistration(e)
  <2>1. challenges' \in [Keys -> Ceremonies \cup {None}] /\ expired' \subseteq Keys
    BY <1>2, SentAnswered, TakeType DEF VerifyRegistration, Starts
  <2>2. at'[e] \in {"create", "failed"} /\ \A f \in Calls \ {e} : at'[f] = at[f]
    BY <1>2 DEF TypeInv, TypeOK, VerifyRegistration, GoTo
  <2>3. at' \in [Calls -> {"free", "start", "consume", "create", "update", "ok", "failed"}]
    BY <1>2 DEF TypeInv, TypeOK, VerifyRegistration, GoTo
  <2> QED BY <1>2, <2>1, <2>2, <2>3 DEF TypeInv, TypeOK, VerifyRegistration, Starts, browser
<1>3. CASE CreatePasskey(e)
  <2>1. [id |-> sent[e], owner |-> ceremony[sent[e]].user, counter |-> Answered(e).count] \in Row
    <3>1. at[e] # "free" /\ ceremony[sent[e]].op = "register"
      BY <1>3 DEF TypeInv, CreatePasskey
    <3>2. ceremony[sent[e]].user \in Users /\ Answered(e).count \in 0..MaxCount
      BY <3>1, SentAnswered, Records
    <3> QED BY <3>1, <3>2, SentAnswered DEF Row
  <2>2. passkey' \in [Creds -> Row \cup {None}]
    BY <1>3, <2>1 DEF TypeInv, TypeOK, CreatePasskey
  <2>3. at'[e] \in {"ok", "failed"} /\ \A f \in Calls \ {e} : at'[f] = at[f]
    BY <1>3 DEF TypeInv, TypeOK, CreatePasskey, GoTo
  <2>4. at' \in [Calls -> {"free", "start", "consume", "create", "update", "ok", "failed"}]
    BY <1>3 DEF TypeInv, TypeOK, CreatePasskey, GoTo
  <2> QED BY <1>3, <2>2, <2>3, <2>4 DEF TypeInv, TypeOK, CreatePasskey, store, browser
<1>4. CASE FindPasskey(e)
  <2>1. Answered(e).cred \in Creds
    BY <1>4, SentAnswered, Records DEF FindPasskey, Starts
  <2>2. /\ seen' \in [Calls -> Row \cup {None}]
        /\ at' \in [Calls -> {"free", "start", "consume", "create", "update", "ok", "failed"}]
    BY <1>4, <2>1 DEF TypeInv, TypeOK, FindPasskey, GoTo
  <2>3. at'[e] = "failed" \/ (at'[e] = "consume" /\ seen'[e] \in Row)
    BY <1>4, <2>1 DEF TypeInv, TypeOK, FindPasskey, GoTo
  <2>4. \A f \in Calls \ {e} : at'[f] = at[f] /\ seen'[f] = seen[f]
    BY <1>4 DEF TypeInv, TypeOK, FindPasskey, GoTo
  <2> QED BY <1>4, <2>2, <2>3, <2>4 DEF TypeInv, TypeOK, FindPasskey, Starts, store, browser
<1>5. CASE ConsumeAndVerify(e)
  <2>1. challenges' \in [Keys -> Ceremonies \cup {None}] /\ expired' \subseteq Keys
    BY <1>5, SentAnswered, TakeType DEF ConsumeAndVerify
  <2>2. at'[e] \in {"update", "failed"} /\ \A f \in Calls \ {e} : at'[f] = at[f]
    BY <1>5 DEF TypeInv, TypeOK, ConsumeAndVerify, GoTo
  <2>3. at' \in [Calls -> {"free", "start", "consume", "create", "update", "ok", "failed"}]
    BY <1>5 DEF TypeInv, TypeOK, ConsumeAndVerify, GoTo
  <2> QED BY <1>5, <2>1, <2>2, <2>3 DEF TypeInv, TypeOK, ConsumeAndVerify, browser
<1>6. CASE UpdateCounter(e)
  <2>1. Answered(e).cred \in Creds /\ Answered(e).count \in 0..MaxCount
    BY <1>6, SentAnswered, Records DEF UpdateCounter
  <2>2. passkey' \in [Creds -> Row \cup {None}]
    <3>1. CASE StillStored(e)
      <4>1. passkey[Answered(e).cred] \in Row
        BY <2>1, <3>1 DEF TypeInv, TypeOK, StillStored
      <4>2. [passkey[Answered(e).cred] EXCEPT !.counter = Answered(e).count] \in Row
        BY <2>1, <4>1 DEF Row
      <4>3. passkey' = [passkey EXCEPT ![Answered(e).cred] =
                          [passkey[Answered(e).cred] EXCEPT !.counter = Answered(e).count]]
        BY <1>6, <3>1 DEF UpdateCounter
      <4> QED BY <4>2, <4>3 DEF TypeInv, TypeOK
    <3>2. CASE ~StillStored(e)
      BY <1>6, <3>2 DEF TypeInv, TypeOK, UpdateCounter
    <3> QED BY <3>1, <3>2
  <2>3. at'[e] \in {"ok", "failed"} /\ \A f \in Calls \ {e} : at'[f] = at[f]
    BY <1>6 DEF TypeInv, TypeOK, UpdateCounter, GoTo
  <2>4. at' \in [Calls -> {"free", "start", "consume", "create", "update", "ok", "failed"}]
    BY <1>6 DEF TypeInv, TypeOK, UpdateCounter, GoTo
  <2> QED BY <1>6, <2>2, <2>3, <2>4 DEF TypeInv, TypeOK, UpdateCounter, store, browser
<1> QED BY <1>1, <1>2, <1>3, <1>4, <1>5, <1>6 DEF Handle

\* So do expiry, a deletion and a restart: every step keeps the types.
LEMMA TypeStep == TypeInv /\ [Next]_vars => TypeInv'
<1> SUFFICES ASSUME TypeInv, [Next]_vars PROVE TypeInv' OBVIOUS
<1>1. ASSUME NEW x \in Keys, Expire(x) PROVE TypeInv'
  BY <1>1 DEF TypeInv, TypeOK, Expire, browser
<1>2. ASSUME NEW k \in Creds, DeletePasskey(k) PROVE TypeInv'
  BY <1>2 DEF TypeInv, TypeOK, DeletePasskey, browser, store
<1>3. CASE Restart
  <2>1. challenges' \in [Keys -> Ceremonies \cup {None}] /\ expired' \subseteq Keys
    BY <1>3 DEF Restart
  <2>2. at' \in [Calls -> {"free", "start", "consume", "create", "update", "ok", "failed"}]
    BY <1>3 DEF TypeInv, TypeOK, Restart
  <2>3. \A e \in Calls : at'[e] \in {at[e], "failed"} /\ (at'[e] = "failed" => at[e] # "free")
                         /\ at'[e] \notin {"create", "consume", "update"}
    BY <1>3 DEF TypeInv, TypeOK, Restart
  <2> QED BY <1>3, <2>1, <2>2, <2>3 DEF TypeInv, TypeOK, Restart, browser
<1>4. CASE UNCHANGED vars
  BY <1>4 DEF TypeInv, TypeOK, vars, browser, store
<1> QED BY <1>1, <1>2, <1>3, <1>4, OptionsType, SignType, HandleType DEF Next

\* Every variable keeps its type, and every handler of passkey.service.ts that
\* has got past an await has what it uses there.
THEOREM TypeCorrect == Spec => []TypeOK
<1>1. TypeInv => TypeOK
  BY DEF TypeInv
<1> QED BY <1>1, TypeInit, TypeStep, PTL DEF Spec
-----------------------------------------------------------------------------
(* What a step leaves as it was.                                             *)

\* What a call carries stays the same ceremony and the same response, once it
\* is sent; a step of another call leaves a call where it was.
LEMMA SentStays ==
  ASSUME TypeInv, [Next]_vars, NEW e \in Calls, at[e] # "free"
  PROVE  /\ sent'[e] = sent[e]
         /\ ceremony'[sent[e]] = ceremony[sent[e]]
         /\ response'[sent[e]] = response[sent[e]]
<1> USE SentAnswered DEF TypeInv, TypeOK, Answered
<1>1. ASSUME NEW c \in Ceremonies, NEW q \in Menu, GenerateOptions(c, q)
      PROVE  sent' = sent /\ response' = response /\ ceremony'[sent[e]] = ceremony[sent[e]]
  BY <1>1 DEF GenerateOptions
<1>2. ASSUME NEW c \in Ceremonies, NEW k \in Creds, Sign(c, k)
      PROVE  sent' = sent /\ ceremony' = ceremony /\ response'[sent[e]] = response[sent[e]]
  BY <1>2 DEF Sign
<1>3. ASSUME NEW f \in Calls, Handle(f)
      PROVE  UNCHANGED browser /\ sent'[e] = sent[e]
  <2>1. ASSUME NEW c \in Ceremonies, Send(f, c) PROVE UNCHANGED browser /\ sent'[e] = sent[e]
    BY <2>1 DEF Send
  <2> QED BY <1>3, <2>1 DEF Handle, VerifyRegistration, CreatePasskey, FindPasskey,
                            ConsumeAndVerify, UpdateCounter
<1>4. ASSUME NEW x \in Keys, Expire(x) PROVE UNCHANGED <<browser, sent>>
  BY <1>4 DEF Expire
<1>5. ASSUME NEW k \in Creds, DeletePasskey(k) PROVE UNCHANGED <<browser, sent>>
  BY <1>5 DEF DeletePasskey
<1>6. CASE Restart
  BY <1>6 DEF Restart, browser
<1>7. CASE UNCHANGED vars
  BY <1>7 DEF vars, browser
<1> QED BY <1>1, <1>2, <1>3, <1>4, <1>5, <1>6, <1>7 DEF Next, browser
-----------------------------------------------------------------------------
(* Challenges.                                                               *)

\* A call that consumes its challenge finds that no other call had it, and
\* leaves it nowhere in the map.
LEMMA ConsumeOnce ==
  ASSUME TypeInv, ChallengeInv, NEW e \in Calls, at[e] \notin Past \cup {"free"},
         Take(ChallengeKey(sent[e])), UNCHANGED <<ceremony, sent>>,
         \A f \in Calls \ {e} : at'[f] = at[f],
         at'[e] \in Past => Finds(sent[e])
  PROVE  ChallengeInv'
<1> DEFINE c == sent[e]
<1>1. c \in Ceremonies /\ ChallengeKey(c) \in Keys /\ c # None
  BY SentAnswered, Records
<1>2. \A x \in Keys : challenges'[x] = IF x = ChallengeKey(c) THEN None ELSE challenges[x]
  BY DEF Take, TypeInv, TypeOK
<1>3. \A x \in Keys : challenges'[x] # c
  BY <1>1, <1>2 DEF ChallengeInv, FiledRight
<1>4. at'[e] \in Past => \A f \in Calls \ {e} : at[f] \in Past => sent[f] # c
  BY <1>1 DEF Finds, ChallengeInv
<1>5. ChallengeOnce'
  BY <1>4 DEF ChallengeInv, ChallengeOnce, Past
<1>6. \A f \in Calls : at'[f] \in Past => \A x \in Keys : challenges'[x] # sent'[f]
  <2> SUFFICES ASSUME NEW f \in Calls, at'[f] \in Past, NEW x \in Keys
               PROVE  challenges'[x] # sent[f]
    OBVIOUS
  <2>1. CASE f = e
    BY <2>1, <1>3
  <2>2. CASE f # e
    <3>1. at[f] \in Past /\ at[f] # "free"
      BY <2>2 DEF Past
    <3>2. sent[f] # None
      BY <3>1, SentAnswered, Records
    <3> QED BY <1>2, <3>1, <3>2 DEF ChallengeInv
  <2> QED BY <2>1, <2>2
<1>7. \A x \in Keys : FiledRight(x)'
  BY <1>2 DEF ChallengeInv, FiledRight, ChallengeKey
<1> QED BY <1>5, <1>6, <1>7 DEF ChallengeInv

\* A step that leaves the map alone, or only empties it, and moves no call past
\* consumeChallenge, keeps the invariant.
LEMMA ChallengeKept ==
  ASSUME TypeInv, ChallengeInv, [Next]_vars,
         \A x \in Keys : challenges'[x] \in {challenges[x], None},
         UNCHANGED ceremony,
         \A e \in Calls : at'[e] \in Past => at[e] \in Past
  PROVE  ChallengeInv'
<1>1. \A e \in Calls : at'[e] \in Past => sent'[e] = sent[e] /\ sent[e] # None
  <2> SUFFICES ASSUME NEW e \in Calls, at'[e] \in Past PROVE sent'[e] = sent[e] /\ sent[e] # None
    OBVIOUS
  <2>1. at[e] # "free"
    BY DEF Past
  <2> QED BY <2>1, SentStays, SentAnswered, Records
<1>2. ChallengeOnce'
  BY <1>1 DEF ChallengeInv, ChallengeOnce, Past
<1>3. \A x \in Keys : FiledRight(x)'
  BY DEF ChallengeInv, FiledRight, ChallengeKey
<1> QED BY <1>1, <1>2, <1>3 DEF ChallengeInv

\* New options bring a challenge that no call carries yet.
LEMMA OptionsChallenge ==
  ASSUME TypeInv, ChallengeInv, NEW c \in Ceremonies, NEW q \in Menu, GenerateOptions(c, q)
  PROVE  ChallengeInv'
<1> DEFINE x0 == IF q.user = None THEN c ELSE q.user
<1>1. q \in Ceremony /\ q # None
  BY PasskeyAssumption, Records
<1>2. x0 \in Keys /\ c # None
  BY <1>1, Records DEF Keys
<1>3. \A d \in Ceremonies : ceremony'[d] = IF d = c THEN q ELSE ceremony[d]
  BY DEF GenerateOptions, TypeInv, TypeOK
<1>4. \A x \in Keys : challenges'[x] \in (IF x = x0 THEN {c} ELSE {challenges[x], None})
  BY DEF GenerateOptions, StoreChallenge
<1>5. \A x \in Keys : challenges[x] # c
  BY <1>2 DEF ChallengeInv, FiledRight, GenerateOptions
<1>6. \A e \in Calls : at[e] \in Past => sent[e] # c /\ sent[e] # None
  BY SentAnswered, Records DEF GenerateOptions, Past
<1>7. \A e \in Calls : at'[e] \in Past => \A x \in Keys : challenges'[x] # sent'[e]
  BY <1>4, <1>6 DEF ChallengeInv, GenerateOptions
<1>8. ASSUME NEW x \in Keys PROVE FiledRight(x)'
  <2>1. CASE x = x0
    BY <1>1, <1>3, <1>4, <2>1 DEF FiledRight, ChallengeKey
  <2>2. CASE x # x0 /\ challenges'[x] # None
    <3>1. challenges'[x] = challenges[x] /\ challenges[x] \in Ceremonies /\ challenges[x] # c
      BY <1>4, <1>5, <2>2 DEF TypeInv, TypeOK
    <3> QED BY <1>3, <2>2, <3>1 DEF ChallengeInv, FiledRight, ChallengeKey
  <2> QED BY <2>1, <2>2 DEF FiledRight
<1>9. ChallengeOnce'
  BY DEF ChallengeInv, ChallengeOnce, GenerateOptions
<1> QED BY <1>7, <1>8, <1>9 DEF ChallengeInv

\* Every step keeps ChallengeInv.
LEMMA ChallengeStep == TypeInv /\ ChallengeInv /\ [Next]_vars => ChallengeInv'
<1> SUFFICES ASSUME TypeInv, ChallengeInv, [Next]_vars PROVE ChallengeInv' OBVIOUS
<1>1. ASSUME NEW c \in Ceremonies, NEW k \in Creds, Sign(c, k) PROVE ChallengeInv'
  BY <1>1, ChallengeKept DEF Sign, store
<1>2. ASSUME NEW e \in Calls, NEW c \in Ceremonies, Send(e, c) PROVE ChallengeInv'
  <2>1. \A f \in Calls : at'[f] \in Past => at[f] \in Past
    BY <1>2 DEF Send, TypeInv, TypeOK, Past
  <2> QED BY <1>2, <2>1, ChallengeKept DEF Send, store, browser
<1>3. ASSUME NEW e \in Calls, VerifyRegistration(e) PROVE ChallengeInv'
  <2>1. /\ \A f \in Calls \ {e} : at'[f] = at[f]
        /\ at'[e] = IF Finds(sent[e]) THEN "create" ELSE "failed"
    BY <1>3 DEF VerifyRegistration, GoTo, TypeInv, TypeOK
  <2>2. at[e] = "start" /\ Take(ChallengeKey(sent[e])) /\ UNCHANGED <<ceremony, sent>>
    BY <1>3 DEF VerifyRegistration, Starts, browser
  <2> QED BY <2>1, <2>2, ConsumeOnce DEF Past
<1>4. ASSUME NEW e \in Calls, ConsumeAndVerify(e) PROVE ChallengeInv'
  <2>1. /\ \A f \in Calls \ {e} : at'[f] = at[f]
        /\ at'[e] \in {"update", "failed"} /\ (at'[e] = "update" => Finds(sent[e]))
    BY <1>4 DEF ConsumeAndVerify, GoTo, TypeInv, TypeOK
  <2>2. at[e] = "consume" /\ Take(ChallengeKey(sent[e])) /\ UNCHANGED <<ceremony, sent>>
    BY <1>4 DEF ConsumeAndVerify, browser
  <2> QED BY <2>1, <2>2, ConsumeOnce DEF Past
<1>5. ASSUME NEW e \in Calls, CreatePasskey(e) \/ FindPasskey(e) \/ UpdateCounter(e)
      PROVE  ChallengeInv'
  <2>1. \A f \in Calls : at'[f] \in Past => at[f] \in Past
    BY <1>5 DEF CreatePasskey, FindPasskey, UpdateCounter, Starts, GoTo, TypeInv, TypeOK, Past
  <2>2. UNCHANGED <<challenges, ceremony>>
    BY <1>5 DEF CreatePasskey, FindPasskey, UpdateCounter, store, browser
  <2> QED BY <2>1, <2>2, ChallengeKept
<1>6. ASSUME NEW x \in Keys, Expire(x) PROVE ChallengeInv'
  BY <1>6, ChallengeKept DEF Expire, browser
<1>7. ASSUME NEW k \in Creds, DeletePasskey(k) PROVE ChallengeInv'
  BY <1>7, ChallengeKept DEF DeletePasskey, store, browser
<1>8. CASE Restart
  <2>1. \A f \in Calls : at'[f] \in Past => at[f] \in Past
    BY <1>8 DEF Restart, Past
  <2> QED BY <1>8, <2>1, ChallengeKept DEF Restart, browser
<1>9. CASE UNCHANGED vars
  BY <1>9, ChallengeKept DEF vars, store, browser
<1> QED BY <1>1, <1>2, <1>3, <1>4, <1>5, <1>6, <1>7, <1>8, <1>9, OptionsChallenge
        DEF Next, Handle

\* At the start no call is past anything and no challenge is stored.
LEMMA ChallengeInit == Init => ChallengeInv
BY DEF Init, ChallengeInv, ChallengeOnce, FiledRight, Past

\* consumeChallenge gives a challenge to one request at most, of however many
\* carry it and however they interleave with new options, expiry and restarts.
THEOREM ChallengeOnceAlways == Spec => []ChallengeOnce
<1>1. ChallengeInv => ChallengeOnce
  BY DEF ChallengeInv
<1> QED BY <1>1, TypeInit, TypeStep, ChallengeInit, ChallengeStep, PTL DEF Spec
-----------------------------------------------------------------------------
(* Rows and logins.                                                          *)

\* CreatePasskey adds one row at most: what the authenticator answered, for the
\* user of the ceremony.
LEMMA RowCreated ==
  ASSUME TypeInv, NEW e \in Calls, CreatePasskey(e), NEW k \in Creds
  PROVE  \/ passkey'[k] = passkey[k]
         \/ /\ k = Answered(e).cred /\ ceremony[sent[e]].op = "register"
            /\ passkey'[k].owner = ceremony[sent[e]].user
            /\ passkey'[k].counter = Answered(e).count
BY DEF CreatePasskey, TypeInv, TypeOK

\* UpdateCounter writes the counter of one row that is there, at most.
LEMMA RowUpdated ==
  ASSUME TypeInv, NEW e \in Calls, UpdateCounter(e), NEW k \in Creds
  PROVE  \/ passkey'[k] = passkey[k]
         \/ /\ k = Answered(e).cred /\ passkey[k] # None
            /\ passkey'[k].owner = passkey[k].owner
            /\ passkey'[k].counter = Answered(e).count
<1> DEFINE j == Answered(e).cred
           r == [passkey[j] EXCEPT !.counter = Answered(e).count]
<1>1. CASE StillStored(e)
  <2>1. j \in Creds
    BY SentAnswered, Records DEF UpdateCounter
  <2>2. passkey[j] \in Row /\ passkey[j] # None
    BY <1>1, <2>1 DEF StillStored, TypeInv, TypeOK
  <2>3. passkey' = [passkey EXCEPT ![j] = r]
    BY <1>1 DEF UpdateCounter
  <2>4. r.owner = passkey[j].owner /\ r.counter = Answered(e).count
    BY <2>2 DEF Row
  <2> QED BY <2>1, <2>2, <2>3, <2>4 DEF TypeInv, TypeOK
<1>2. CASE ~StillStored(e)
  BY <1>2 DEF UpdateCounter
<1> QED BY <1>1, <1>2

\* The rows of every other step are the ones before it, but for a deletion.
LEMMA RowsOtherwise ==
  ASSUME TypeInv, [Next]_vars, NEW k \in Creds,
         \A e \in Calls : ~CreatePasskey(e) /\ ~UpdateCounter(e)
  PROVE  passkey'[k] \in {passkey[k], None}
<1>1. ASSUME NEW j \in Creds, DeletePasskey(j) PROVE passkey'[k] \in {passkey[k], None}
  BY <1>1 DEF DeletePasskey, TypeInv, TypeOK
<1> QED BY <1>1 DEF Next, Handle, GenerateOptions, Sign, Expire, Restart, vars,
                    Send, VerifyRegistration, FindPasskey, ConsumeAndVerify

\* Only its own handler moves a call towards the end of a login.
LEMMA LoginSteps ==
  ASSUME TypeInv, [Next]_vars, NEW e \in Calls, at'[e] \in {"consume", "update", "ok"}
  PROVE  \/ at'[e] = at[e] /\ seen'[e] = seen[e]
         \/ FindPasskey(e) \/ ConsumeAndVerify(e) \/ UpdateCounter(e) \/ CreatePasskey(e)
<1> USE DEF TypeInv, TypeOK
<1>1. ASSUME NEW f \in Calls \ {e}, Handle(f) PROVE at'[e] = at[e] /\ seen'[e] = seen[e]
  BY <1>1 DEF Handle, Send, VerifyRegistration, CreatePasskey, FindPasskey, ConsumeAndVerify,
              UpdateCounter, GoTo
<1>2. ~VerifyRegistration(e) /\ \A c \in Ceremonies : ~Send(e, c)
  BY DEF VerifyRegistration, Send, GoTo
<1>3. CASE Restart
  BY <1>3 DEF Restart
<1>4. ASSUME NEW c \in Ceremonies, NEW q \in Menu, GenerateOptions(c, q) PROVE UNCHANGED <<at, seen>>
  BY <1>4 DEF GenerateOptions
<1>5. ASSUME NEW c \in Ceremonies, NEW k \in Creds, Sign(c, k) PROVE UNCHANGED <<at, seen>>
  BY <1>5 DEF Sign
<1>6. ASSUME NEW x \in Keys, Expire(x) PROVE UNCHANGED <<at, seen>>
  BY <1>6 DEF Expire
<1>7. ASSUME NEW k \in Creds, DeletePasskey(k) PROVE UNCHANGED <<at, seen>>
  BY <1>7 DEF DeletePasskey
<1>8. CASE UNCHANGED vars
  BY <1>8 DEF vars
<1> QED BY <1>1, <1>2, <1>3, <1>4, <1>5, <1>6, <1>7, <1>8 DEF Next, Handle
-----------------------------------------------------------------------------
(* Holders.                                                                  *)

\* Whose responses are: a registration is signed with the user's own
\* authenticator.
LEMMA ResponseHolders ==
  ASSUME TypeInv, HolderInv, [Next]_vars, NEW c \in Ceremonies,
         response'[c] # None, ceremony'[c].op = "register"
  PROVE  Holder[response'[c].cred] = ceremony'[c].user
<1> USE DEF TypeInv, TypeOK
<1>1. ASSUME NEW d \in Ceremonies, NEW k \in Creds, Sign(d, k)
      PROVE  Holder[response'[c].cred] = ceremony'[c].user
  <2>1. CASE c = d
    BY <1>1, <2>1 DEF Sign
  <2>2. CASE c # d
    BY <1>1, <2>2 DEF Sign, HolderInv
  <2> QED BY <2>1, <2>2
<1>2. ASSUME NEW d \in Ceremonies, NEW q \in Menu, GenerateOptions(d, q)
      PROVE  response' = response /\ ceremony'[c] = ceremony[c]
  BY <1>2 DEF GenerateOptions
<1>3. ASSUME NEW e \in Calls, Handle(e) PROVE UNCHANGED browser
  BY <1>3 DEF Handle, Send, VerifyRegistration, CreatePasskey, FindPasskey, ConsumeAndVerify,
              UpdateCounter
<1>4. \/ Restart \/ UNCHANGED vars \/ (\E x \in Keys : Expire(x))
      \/ (\E k \in Creds : DeletePasskey(k))
      => UNCHANGED browser
  BY DEF Restart, vars, browser, Expire, DeletePasskey
<1>5. UNCHANGED browser => response' = response /\ ceremony' = ceremony
  BY DEF browser
<1> QED BY <1>1, <1>2, <1>3, <1>4, <1>5 DEF Next, HolderInv

\* The row that a login reads is its holder's, and the login is resolved to him.
LEMMA FoundHolder ==
  ASSUME TypeInv, HolderInv, NEW e \in Calls, FindPasskey(e), at'[e] = "consume"
  PROVE  ResolvedUser(sent[e], seen'[e]) = Holder[Answered(e).cred]
<1> DEFINE k == Answered(e).cred
<1>1. k \in Creds
  BY SentAnswered, Records DEF FindPasskey, Starts
<1>2. passkey[k] # None /\ ResolvedUser(sent[e], passkey[k]) # None /\ seen'[e] = passkey[k]
  BY DEF FindPasskey, GoTo, TypeInv, TypeOK
<1> QED BY <1>1, <1>2 DEF HolderInv, ResolvedUser

\* Every step keeps HolderInv.
LEMMA HolderStep == TypeInv /\ HolderInv /\ [Next]_vars => HolderInv'
<1> SUFFICES ASSUME TypeInv, HolderInv, [Next]_vars PROVE HolderInv' OBVIOUS
<1>1. ASSUME NEW k \in Creds, passkey'[k] # None PROVE passkey'[k].owner = Holder[k]
  <2>1. ASSUME NEW e \in Calls, CreatePasskey(e) PROVE passkey'[k].owner = Holder[k]
    <3>1. sent[e] \in Ceremonies /\ response[sent[e]] # None
      BY <2>1, SentAnswered DEF CreatePasskey, Answered
    <3> QED BY <1>1, <2>1, <3>1, RowCreated DEF HolderInv, Answered
  <2>2. ASSUME NEW e \in Calls, UpdateCounter(e) PROVE passkey'[k].owner = Holder[k]
    BY <1>1, <2>2, RowUpdated DEF HolderInv
  <2> QED BY <1>1, <2>1, <2>2, RowsOtherwise DEF HolderInv
<1>2. ASSUME NEW e \in Calls, at'[e] \in {"consume", "update", "ok"},
             ceremony'[sent'[e]].op = "login"
      PROVE  ResolvedUser(sent[e], seen[e])' = Holder[Answered(e).cred]'
  <2>1. at[e] # "free"
    BY <1>2, LoginSteps DEF FindPasskey, ConsumeAndVerify, UpdateCounter, CreatePasskey, Starts
  <2>2. /\ sent'[e] = sent[e] /\ ceremony'[sent[e]] = ceremony[sent[e]]
        /\ response'[sent[e]] = response[sent[e]]
    BY <2>1, SentStays
  <2>3. ResolvedUser(sent[e], seen'[e]) = Holder[Answered(e).cred]
    <3>1. CASE FindPasskey(e)
      <4>1. at'[e] = "consume"
        BY <1>2, <3>1 DEF FindPasskey, GoTo, TypeInv, TypeOK
      <4> QED BY <3>1, <4>1, FoundHolder
    <3>2. ~CreatePasskey(e)
      BY <1>2, <2>2 DEF CreatePasskey, TypeInv
    <3>3. CASE ConsumeAndVerify(e) \/ UpdateCounter(e)
      BY <3>3 DEF ConsumeAndVerify, UpdateCounter, HolderInv
    <3>4. CASE at'[e] = at[e] /\ seen'[e] = seen[e]
      BY <1>2, <2>2, <3>4 DEF HolderInv, LoginByHolder
    <3> QED BY <1>2, <3>1, <3>2, <3>3, <3>4, LoginSteps
  <2> QED BY <2>2, <2>3 DEF ResolvedUser, Answered
<1>3. \A e \in Calls : at'[e] \in {"consume", "update"} => ceremony'[sent'[e]].op = "login"
  BY TypeStep DEF TypeInv
<1>4. \A c \in Ceremonies : response'[c] # None /\ ceremony'[c].op = "register" =>
        Holder[response'[c].cred] = ceremony'[c].user
  BY ResponseHolders
<1> QED BY <1>1, <1>2, <1>3, <1>4 DEF HolderInv, LoginByHolder

\* At the start every row is its holder's.
LEMMA HolderInit == Init => HolderInv
<1> SUFFICES ASSUME Init PROVE HolderInv OBVIOUS
<1>1. \A k \in Creds : passkey[k] # None => passkey[k].owner = Holder[k]
  BY DEF Init
<1> QED BY <1>1 DEF Init, HolderInv, LoginByHolder

\* Whoever asked for the options, whatever user the request names: loginWithPasskey
\* opens a session for the one who holds the authenticator.
THEOREM LoginByHolderAlways == Spec => []LoginByHolder
<1>1. HolderInv => LoginByHolder
  BY DEF HolderInv
<1> QED BY <1>1, TypeInit, TypeStep, HolderInit, HolderStep, PTL DEF Spec

\* verifyAuthentication ends well only at the update of a row that is still the one
\* it read: a deletion in between is not overlooked.
THEOREM DeletedStaysOutAlways == Spec => DeletedStaysOut
<1>1. ASSUME TypeInv, [Next]_vars, NEW e \in Calls,
             at[e] # "ok", at'[e] = "ok", ceremony[sent[e]].op = "login"
      PROVE  \E k \in Creds :
               passkey[k] # None /\ passkey[k].id = seen[e].id /\ passkey'[k] # None
  <2>1. UpdateCounter(e)
    BY <1>1, LoginSteps DEF FindPasskey, ConsumeAndVerify, CreatePasskey, GoTo, TypeInv, TypeOK
  <2>2. StillStored(e)
    BY <1>1, <2>1 DEF UpdateCounter, GoTo, TypeInv, TypeOK
  <2>3. Answered(e).cred \in Creds
    BY <2>1, SentAnswered, Records, <1>1 DEF UpdateCounter
  <2>4. passkey'[Answered(e).cred] # None
    <3>1. passkey[Answered(e).cred] \in Row
      BY <1>1, <2>2, <2>3 DEF StillStored, TypeInv, TypeOK
    <3>2. [passkey[Answered(e).cred] EXCEPT !.counter = Answered(e).count] \in Row
      BY <1>1, <2>1, <3>1, SentAnswered, Records DEF UpdateCounter, Row
    <3>3. passkey'[Answered(e).cred] =
            [passkey[Answered(e).cred] EXCEPT !.counter = Answered(e).count]
      BY <1>1, <2>1, <2>2, <2>3 DEF UpdateCounter, TypeInv, TypeOK
    <3> QED BY <3>2, <3>3, Records
  <2> QED BY <2>2, <2>3, <2>4 DEF StillStored
<1>2. TypeInv /\ [Next]_vars =>
        [\A e \in Calls :
           at[e] # "ok" /\ at'[e] = "ok" /\ ceremony[sent[e]].op = "login" =>
             \E k \in Creds :
               passkey[k] # None /\ passkey[k].id = seen[e].id /\ passkey'[k] # None]_vars
  BY <1>1
<1> QED BY <1>2, TypeInit, TypeStep, PTL DEF Spec, DeletedStaysOut
-----------------------------------------------------------------------------
(* Counters.                                                                 *)

\* Every step keeps CountInv.
LEMMA CountStep == TypeInv /\ CountInv /\ [Next]_vars => CountInv'
<1> SUFFICES ASSUME TypeInv, CountInv, [Next]_vars PROVE CountInv' OBVIOUS
<1>1. ASSUME NEW c \in Ceremonies, NEW k \in Creds, Sign(c, k) PROVE CountInv'
  <2>1. /\ NextCount(k) \in 0..MaxCount /\ NextCount(k) >= device[k]
        /\ k \notin Counting => NextCount(k) = 0
    BY <1>1, PasskeyAssumption DEF Sign, NextCount, CountInv, TypeInv, TypeOK
  <2>2. /\ device'[k] = NextCount(k)
        /\ \A j \in Creds \ {k} : device'[j] = device[j]
        /\ \A j \in Creds : device[j] \in Nat
    BY <1>1 DEF Sign, TypeInv, TypeOK
  <2>3. response'[c] = [cred |-> k, count |-> NextCount(k)]
        /\ \A d \in Ceremonies \ {c} : response'[d] = response[d]
    BY <1>1 DEF Sign, TypeInv, TypeOK
  <2>4. \A j \in Creds : device'[j] >= device[j] /\ device'[j] \in Nat
    BY <2>1, <2>2
  <2>5. ASSUME NEW d \in Ceremonies, response'[d] # None
        PROVE  /\ response'[d].count <= device'[response'[d].cred]
               /\ response'[d].cred \notin Counting => response'[d].count = 0
    <3>1. CASE d = c
      BY <2>1, <2>2, <2>3, <3>1
    <3>2. CASE d # c
      <4>1. response'[d] = response[d] /\ response[d] \in Response
        BY <2>3, <2>5, <3>2 DEF TypeInv, TypeOK
      <4>2. response[d].cred \in Creds /\ response[d].count \in Nat
        BY <4>1, Records, PasskeyAssumption
      <4> QED BY <2>2, <2>4, <2>5, <4>1, <4>2 DEF CountInv
    <3> QED BY <3>1, <3>2
  <2>6. ASSUME NEW j \in Creds, passkey'[j] # None
        PROVE  /\ passkey'[j].counter <= device'[j]
               /\ j \notin Counting => passkey'[j].counter = 0
    <3>1. passkey'[j] = passkey[j] /\ passkey[j] \in Row
      BY <1>1, <2>6 DEF Sign, TypeInv, TypeOK
    <3>2. passkey[j].counter \in Nat
      BY <3>1, Records, PasskeyAssumption
    <3> QED BY <2>2, <2>4, <2>6, <3>1, <3>2 DEF CountInv
  <2>7. \A j \in Creds : j \notin Counting => device'[j] = 0
    BY <2>1, <2>2 DEF CountInv
  <2> QED BY <2>5, <2>6, <2>7 DEF CountInv
<1>2. ASSUME NEW e \in Calls, CreatePasskey(e) \/ UpdateCounter(e) PROVE CountInv'
  <2>1. response' = response /\ device' = device
    BY <1>2 DEF CreatePasskey, UpdateCounter, browser
  <2>2. sent[e] \in Ceremonies /\ response[sent[e]] # None
    BY <1>2, SentAnswered DEF CreatePasskey, UpdateCounter, Answered
  <2>3. ASSUME NEW k \in Creds, passkey'[k] # None
        PROVE  /\ passkey'[k].counter <= device[k]
               /\ k \notin Counting => passkey'[k].counter = 0
    <3>1. passkey'[k] = passkey[k]
          \/ (k = Answered(e).cred /\ passkey'[k].counter = Answered(e).count)
      BY <1>2, RowCreated, RowUpdated
    <3> QED BY <2>2, <2>3, <3>1 DEF CountInv, Answered
  <2> QED BY <2>1, <2>3 DEF CountInv
<1>3. ASSUME UNCHANGED <<device, response>>,
             \A k \in Creds : passkey'[k] \in {passkey[k], None}
      PROVE  CountInv'
  BY <1>3 DEF CountInv
<1>4. ASSUME NEW e \in Calls, Handle(e), ~CreatePasskey(e), ~UpdateCounter(e)
      PROVE  UNCHANGED <<passkey, device, response>>
  BY <1>4 DEF Handle, Send, VerifyRegistration, FindPasskey, ConsumeAndVerify, browser
<1>5. ASSUME NEW c \in Ceremonies, NEW q \in Menu, GenerateOptions(c, q)
      PROVE  UNCHANGED <<passkey, device, response>>
  BY <1>5 DEF GenerateOptions
<1>6. \/ Restart \/ UNCHANGED vars \/ (\E x \in Keys : Expire(x))
      => UNCHANGED <<passkey, device, response>>
  BY DEF Restart, vars, browser, Expire
<1>7. ASSUME NEW j \in Creds, DeletePasskey(j)
      PROVE  UNCHANGED <<device, response>> /\ \A k \in Creds : passkey'[k] \in {passkey[k], None}
  BY <1>7 DEF DeletePasskey, browser, TypeInv, TypeOK
<1> QED BY <1>1, <1>2, <1>3, <1>4, <1>5, <1>6, <1>7 DEF Next

\* At the start all counters are 0.
LEMMA CountInit == Init => CountInv
<1> SUFFICES ASSUME Init PROVE CountInv OBVIOUS
<1>1. \A k \in Creds : passkey[k] # None => passkey[k].counter = 0
  BY DEF Init
<1> QED BY <1>1 DEF Init, CountInv

\* However responses are reordered between the check and the write of the
\* counter, the next response of an authenticator is one the server accepts.
THEOREM NeverLockedOutAlways == Spec => []NeverLockedOut
<1>1. ASSUME TypeInv, CountInv, NEW k \in Creds, passkey[k] # None
      PROVE  Accepts(passkey[k].counter, NextCount(k))
  <2>1. passkey[k].counter \in Nat /\ device[k] \in Nat
    BY <1>1, Records, PasskeyAssumption DEF TypeInv, TypeOK
  <2> QED BY <1>1, <2>1 DEF CountInv, Accepts, NextCount
<1>2. TypeInv /\ CountInv => NeverLockedOut
  BY <1>1 DEF NeverLockedOut
<1> QED BY <1>2, TypeInit, TypeStep, CountInit, CountStep, PTL DEF Spec
==============================================================================
