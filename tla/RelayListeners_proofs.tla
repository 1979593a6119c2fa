------------------------ MODULE RelayListeners_proofs ------------------------
(***************************************************************************)
(* What holds of the listeners for any number of users, keys, relays and   *)
(* calls.  The invariant has one part for the pool and the listeners, one  *)
(* for the handlers and one for the tables; on them rest the two promises  *)
(* that what was invited, and what is connected, is listened for.          *)
(***************************************************************************)
EXTENDS RelayListeners, TLAPS

SafeUrls == Safe(Urls)

\* One subscription for a listener, none without; nothing unsafe is dialled.
PoolInv ==
  /\ listener \in [Pubs -> SUBSET SafeUrls]
  /\ open \in [Pubs -> Nat]
  /\ heard \in [Pubs -> SUBSET Urls]
  /\ awaiting \in [Pubs -> SUBSET Urls]
  /\ dialing \subseteq SafeUrls
  /\ connected \subseteq SafeUrls
  /\ OneSubscription

Points == {"free", "start", "relays", "owner", "base", "reply", "send", "write", "ok", "failed",
           "over"}

\* Which call is where.
CallInv ==
  /\ at \in [Calls -> Points]
  /\ call \in [Calls -> Request \cup {None}]
  /\ read \in [Calls -> SUBSET SafeUrls]
  /\ \A e \in Calls :
       /\ at[e] \notin {"free", "over"} => call[e] \in Request
       /\ at[e] = "relays" => call[e].op = "generate"
       /\ at[e] \in {"owner", "base"} => call[e].op \in {"generate", "create"}
       /\ at[e] \in {"reply", "send"} => call[e].op = "create"
       /\ at[e] = "write" =>
            call[e].op = "save" /\ call[e].relays = Safe(call[e].relays)

\* A connection is that of its call, and its key is there.
ConnOf(e) ==
  conn[e] # None =>
    /\ at[e] \in {"owner", "base", "reply", "send", "ok", "over"}
    /\ call[e] \in Request /\ call[e].op = "create"
    /\ conn[e] = [key |-> call[e].key, relays |-> read[e]]
    /\ Owned(e)

TableInv ==
  /\ \A k \in Keys : key[k] \in {Keys0[k], None}
  /\ key \in [Keys -> KeyRow \cup {None}]
  /\ config \in [Users -> SUBSET SafeUrls]
  /\ conn \in [Calls -> Conn \cup {None}]
  /\ \A e \in Calls : ConnOf(e)

\* A process that is down has no listener and no handler.
RestInv ==
  /\ running \in BOOLEAN
  /\ up \subseteq Urls
  /\ page \in Page \cup {None}
  /\ ~ running => /\ \A p \in Pubs : listener[p] = {}
                  /\ \A e \in Calls : at[e] \in {"free", "over"}

BaseInv == PoolInv /\ CallInv /\ TableInv /\ RestInv

Inv == BaseInv /\ InvitationIsHeard /\ ConnectionIsHeard
-----------------------------------------------------------------------------
(* Relays and records.                                                       *)

\* Safe picks from what it is given.
LEMMA SafeParts ==
  ASSUME NEW R \in SUBSET Urls
  PROVE  /\ Safe(R) \subseteq R /\ Safe(R) \subseteq SafeUrls
         /\ (R = Safe(R) => R \subseteq SafeUrls)
         /\ (R \subseteq SafeUrls => Safe(R) = R)
         /\ SafeUrls \subseteq Urls
BY DEF Safe, SafeUrls

\* A listener always gets a relay, only safe ones, and all that are safe.
LEMMA EffectiveParts ==
  ASSUME NEW R \in SUBSET Urls
  PROVE  Effective(R) # {} /\ Effective(R) \subseteq SafeUrls /\ Safe(R) \subseteq Effective(R)
BY RelayAssumption DEF Effective, Safe, SafeUrls

LEMMA DefaultsSafe == Defaults # {} /\ Defaults \subseteq SafeUrls
BY RelayAssumption DEF SafeUrls

\* The fields of a request that is one, and of a key's row.
LEMMA Records ==
  /\ \A q \in Request :
       /\ q # None /\ q.user \in Users /\ q.op \in {"generate", "create", "save"}
       /\ q.op \in {"generate", "create"} => q.key \in Keys
       /\ q.op \in {"create", "save"} => q.relays \in SUBSET Urls
  /\ \A r \in KeyRow : r # None /\ r.owner \in Users /\ r.pub \in Pubs
  /\ \A c \in Conn : c # None /\ c.key \in Keys /\ c.relays \in SUBSET Urls
  /\ \A g \in Page : g # None /\ g.user \in Users /\ g.relays \in SUBSET Urls
                     /\ g.defaults \in SUBSET Urls
<1>1. \A q \in Request :
       /\ q # None /\ q.user \in Users /\ q.op \in {"generate", "create", "save"}
       /\ q.op \in {"generate", "create"} => q.key \in Keys
       /\ q.op \in {"create", "save"} => q.relays \in SUBSET Urls
  BY RelayAssumption DEF Request
<1>2. Defaults \in SUBSET Urls
  BY RelayAssumption DEF Safe
<1> QED BY <1>1, <1>2, RelayAssumption DEF KeyRow, Conn, Page

\* The owner's relays are safe.
LEMMA BaseSafe ==
  ASSUME TableInv, NEW u \in Users
  PROVE  BaseRelays(u) \subseteq SafeUrls
BY DefaultsSafe DEF TableInv, BaseRelays

\* What a key listens on at the start are URLs, those of its connections among
\* them.
LEMMA WantedParts ==
  ASSUME TableInv, NEW k \in Keys, key[k] # None
  PROVE  /\ Wanted(k) \in SUBSET Urls
         /\ \A e \in Calls : conn[e] # None /\ conn[e].key = k => conn[e].relays \subseteq Wanted(k)
<1>1. BaseRelays(key[k].owner) \subseteq Urls
  <2>1. key[k].owner \in Users
    BY Records DEF TableInv
  <2>2. SafeUrls \subseteq Urls
    BY DEF SafeUrls, Safe
  <2> QED BY <2>1, <2>2, BaseSafe
<1>2. \A e \in Calls : conn[e] # None => conn[e].relays \subseteq Urls
  BY Records DEF TableInv
<1> QED BY <1>1, <1>2 DEF Wanted

\* At the start no listener, no call.
LEMMA BaseInit == Init => Inv
<1> SUFFICES ASSUME Init PROVE Inv OBVIOUS
<1>1. PoolInv
  BY DEF Init, PoolInv, OneSubscription
<1>2. CallInv
  BY DEF Init, CallInv, Points
<1>3. TableInv
  BY RelayAssumption DEF Init, TableInv, ConnOf, SafeUrls
<1>4. RestInv
  BY DEF Init, RestInv
<1>5. InvitationIsHeard /\ ConnectionIsHeard
  BY DEF Init, InvitationIsHeard, ConnectionIsHeard
<1> QED BY <1>1, <1>2, <1>3, <1>4, <1>5 DEF Inv, BaseInv
-----------------------------------------------------------------------------
(* The pool.                                                                 *)

\* Subscribing keeps the pool in order: it closes what was open for a listener
\* that it replaces.
LEMMA SubscribePool ==
  ASSUME PoolInv, NEW P \in SUBSET Pubs, NEW R,
         \A p \in P : R[p] # {} /\ R[p] \subseteq SafeUrls,
         Subscribe(P, R), UNCHANGED connected
  PROVE  PoolInv'
<1>1. listener' \in [Pubs -> SUBSET SafeUrls]
  BY DEF Subscribe, PoolInv
<1>2. \A p \in P : OthersOpen(p) = 0
  BY DEF PoolInv, OneSubscription, OthersOpen
<1>3. open' \in [Pubs -> Nat] /\ OneSubscription'
  BY <1>2 DEF Subscribe, PoolInv, OneSubscription
<1>4. heard' \in [Pubs -> SUBSET Urls] /\ awaiting' \in [Pubs -> SUBSET Urls]
  BY SafeParts DEF Subscribe, PoolInv, SafeUrls, Safe
<1>5. dialing' \subseteq SafeUrls
  BY DEF Subscribe, Dial, PoolInv
<1> QED BY <1>1, <1>3, <1>4, <1>5 DEF PoolInv

\* Listening merges: nobody loses a relay, and p gets those it asked for.
LEMMA StartListening ==
  ASSUME PoolInv, NEW p \in Pubs, NEW R \in SUBSET Urls,
         StartListeningForKey(p, R), UNCHANGED connected
  PROVE  /\ PoolInv'
         /\ \A q \in Pubs : listener[q] \subseteq listener'[q]
         /\ Safe(R) \subseteq listener'[p]
<1> DEFINE L == [listener EXCEPT ![p] = @ \cup Effective(R)]
<1>1. CASE UNCHANGED pool /\ listener[p] # {} /\ Effective(R) \subseteq listener[p]
  <2>1. PoolInv'
    BY <1>1 DEF PoolInv, pool, OneSubscription
  <2> QED BY <1>1, <2>1, EffectiveParts DEF pool
<1>2. CASE Subscribe({p}, L)
  <2>1. L[p] = listener[p] \cup Effective(R)
    BY DEF PoolInv
  <2>2. L[p] # {} /\ L[p] \subseteq SafeUrls
    BY <2>1, EffectiveParts DEF PoolInv
  <2> HIDE DEF L
  <2>3. PoolInv'
    BY <1>2, <2>2, SubscribePool
  <2>4. \A q \in Pubs : listener'[q] = IF q = p THEN L[p] ELSE listener[q]
    BY <1>2 DEF Subscribe
  <2> QED BY <2>1, <2>3, <2>4, EffectiveParts
<1> QED BY <1>1, <1>2 DEF StartListeningForKey

\* The relays a listener starts with.
LEMMA ResumePool ==
  ASSUME BaseInv, Resume
  PROVE  /\ PoolInv'
         /\ \A k \in Keys : key[k] # None =>
              Safe(Wanted(k)) \subseteq listener'[key[k].pub]
<1> DEFINE P == {p \in Pubs : KeysOf(p) # {}}
           L == [p \in Pubs |-> UNION {Effective(Wanted(k)) : k \in KeysOf(p)}]
<1>1. \A p \in P : L[p] # {} /\ L[p] \subseteq SafeUrls
  <2> SUFFICES ASSUME NEW p \in P PROVE L[p] # {} /\ L[p] \subseteq SafeUrls OBVIOUS
  <2>1. \A k \in KeysOf(p) : Effective(Wanted(k)) # {} /\ Effective(Wanted(k)) \subseteq SafeUrls
    BY WantedParts, EffectiveParts DEF KeysOf, BaseInv
  <2> QED BY <2>1
<1>2. Subscribe(P, L) /\ UNCHANGED connected
  BY DEF Resume, network
<1>3. PoolInv'
  <2> HIDE DEF P, L
  <2>1. P \in SUBSET Pubs
    BY DEF P
  <2> QED BY <1>1, <1>2, <2>1, SubscribePool DEF BaseInv
<1>4. ASSUME NEW k \in Keys, key[k] # None PROVE Safe(Wanted(k)) \subseteq listener'[key[k].pub]
  <2>1. key[k].pub \in P /\ k \in KeysOf(key[k].pub)
    BY <1>4, Records DEF KeysOf, BaseInv, TableInv
  <2>2. listener'[key[k].pub] = L[key[k].pub]
    BY <1>2, <2>1 DEF Subscribe
  <2>3. Safe(Wanted(k)) \subseteq Effective(Wanted(k))
    BY <1>4, WantedParts, EffectiveParts DEF BaseInv
  <2> QED BY <2>1, <2>2, <2>3
<1> QED BY <1>3, <1>4

\* The watchdog subscribes again to what each listener had.
LEMMA WatchdogPool ==
  ASSUME BaseInv, CheckConnections
  PROVE  PoolInv' /\ listener' = listener
<1>1. \A p \in Disconnected : listener[p] # {} /\ listener[p] \subseteq SafeUrls
  BY DEF Disconnected, BaseInv, PoolInv
<1>2. Disconnected \in SUBSET Pubs
  BY DEF Disconnected
<1>3. Subscribe(Disconnected, listener) /\ UNCHANGED connected
  BY DEF CheckConnections, network
<1>4. PoolInv'
  BY <1>1, <1>2, <1>3, SubscribePool DEF BaseInv
<1>5. listener' = listener
  BY <1>3 DEF Subscribe, BaseInv, PoolInv
<1> QED BY <1>4, <1>5

\* Relays that come and go, and answers, do not touch the listeners.
LEMMA NetworkPool ==
  ASSUME BaseInv,
         \/ \E u \in Urls : Dialed(u) \/ LoseRelay(u) \/ RelayReturns(u)
         \/ \E p \in Pubs : AnswerRequest(p)
  PROVE  PoolInv' /\ UNCHANGED <<listener, tables, running, calls, page>> /\ up' \subseteq Urls
<1> USE DEF BaseInv, PoolInv, RestInv, OneSubscription
<1>1. ASSUME NEW u \in Urls, Dialed(u) PROVE PoolInv' /\ UNCHANGED <<listener, tables, running, calls, page, up>>
  BY <1>1 DEF Dialed
<1>2. ASSUME NEW u \in Urls, LoseRelay(u)
      PROVE  PoolInv' /\ UNCHANGED <<listener, tables, running, calls, page>> /\ up' \subseteq Urls
  BY <1>2 DEF LoseRelay
<1>3. ASSUME NEW u \in Urls, RelayReturns(u)
      PROVE  PoolInv' /\ UNCHANGED <<listener, tables, running, calls, page>> /\ up' \subseteq Urls
  BY <1>3 DEF RelayReturns, pool
<1>4. ASSUME NEW p \in Pubs, AnswerRequest(p)
      PROVE  PoolInv' /\ UNCHANGED <<listener, tables, running, calls, page, up>>
  BY <1>4 DEF AnswerRequest, Dial, network
<1> QED BY <1>1, <1>2, <1>3, <1>4
-----------------------------------------------------------------------------
(* Handlers.                                                                 *)

\* A handler that goes on is one of a process that is up.
LEMMA MoveCall ==
  ASSUME BaseInv, NEW e \in Calls, NEW pc \in Points \ {"free", "over"},
         at[e] \notin {"free", "over"}, GoTo(e, pc), UNCHANGED <<running, up, call, page>>,
         read' \in [Calls -> SUBSET SafeUrls],
         pc = "relays" => call[e].op = "generate",
         pc \in {"owner", "base"} => call[e].op \in {"generate", "create"},
         pc \in {"reply", "send"} => call[e].op = "create",
         pc = "write" => call[e].op = "save" /\ call[e].relays = Safe(call[e].relays)
  PROVE  /\ CallInv' /\ RestInv' /\ running
         /\ \A f \in Calls : at'[f] = IF f = e THEN pc ELSE at[f]
<1>1. running
  BY DEF BaseInv, RestInv
<1>2. at' \in [Calls -> Points] /\ \A f \in Calls : at'[f] = IF f = e THEN pc ELSE at[f]
  BY DEF GoTo, BaseInv, CallInv
<1>3. CallInv'
  BY <1>2 DEF BaseInv, CallInv
<1> QED BY <1>1, <1>2, <1>3 DEF BaseInv, RestInv

\* It leaves the tables in order when it touches the settings at most.
LEMMA MoveTables ==
  ASSUME BaseInv, NEW e \in Calls, UNCHANGED <<key, conn, call>>,
         config' \in [Users -> SUBSET SafeUrls],
         \A f \in Calls \ {e} : at'[f] = at[f] /\ read'[f] = read[f],
         conn[e] # None =>
           read'[e] = read[e] /\ at'[e] \in {"owner", "base", "reply", "send", "ok"}
  PROVE  TableInv'
<1>1. \A f \in Calls : ConnOf(f)'
  BY DEF BaseInv, TableInv, ConnOf, Owned
<1> QED BY <1>1 DEF BaseInv, TableInv

\* It keeps the promises when it ends only after it has listened.
LEMMA MovePromises ==
  ASSUME Inv, BaseInv', running, NEW e \in Calls, UNCHANGED <<key, conn, call, running>>,
         \A f \in Calls \ {e} : at'[f] = at[f] /\ read'[f] = read[f],
         \A p \in Pubs : listener[p] \subseteq listener'[p],
         at'[e] = "ok" /\ call[e].op = "generate" /\ Owned(e) =>
           read'[e] \subseteq listener'[key[call[e].key].pub],
         conn[e] # None /\ at'[e] \notin {"owner", "base"} =>
           \/ at[e] \notin {"owner", "base"}
           \/ conn[e].relays \subseteq listener'[key[conn[e].key].pub]
  PROVE  Inv'
<1>1. ASSUME NEW f \in Calls, at'[f] = "ok", call[f].op = "generate", Owned(f)
      PROVE  read'[f] \subseteq listener'[key[call[f].key].pub]
  <2>1. CASE f = e
    BY <1>1, <2>1
  <2>2. CASE f # e
    <3>1. read[f] \subseteq listener[key[call[f].key].pub] /\ at[f] = "ok"
      BY <1>1, <2>2 DEF Inv, InvitationIsHeard
    <3>2. call[f].key \in Keys
      BY <1>1, <3>1, Records DEF Inv, BaseInv, CallInv
    <3>3. key[call[f].key].pub \in Pubs
      BY <1>1, <3>2, Records DEF Inv, BaseInv, TableInv, Owned
    <3> QED BY <2>2, <3>1, <3>3
  <2> QED BY <2>1, <2>2
<1>2. ASSUME NEW f \in Calls, conn[f] # None, at'[f] \notin {"owner", "base"}
      PROVE  conn[f].relays \subseteq listener'[key[conn[f].key].pub]
  <2>1. CASE at[f] \notin {"owner", "base"}
    <3>1. conn[f].relays \subseteq listener[key[conn[f].key].pub]
      BY <1>2, <2>1 DEF Inv, ConnectionIsHeard
    <3>2. conn[f].key \in Keys /\ key[conn[f].key] # None
      BY <1>2, Records DEF Inv, BaseInv, TableInv, ConnOf, Owned
    <3>3. key[conn[f].key].pub \in Pubs
      BY <3>2, Records DEF Inv, BaseInv, TableInv
    <3> QED BY <3>1, <3>3
  <2>2. CASE at[f] \in {"owner", "base"}
    BY <1>2, <2>2
  <2> QED BY <2>1, <2>2
<1>3. InvitationIsHeard'
  BY <1>1 DEF InvitationIsHeard, Owned
<1>4. ConnectionIsHeard'
  BY <1>2 DEF ConnectionIsHeard
<1> QED BY <1>3, <1>4 DEF Inv

\* The reads of a handler: the key, three times over, and the relays for a URI.
LEMMA ReadsStep ==
  ASSUME Inv, NEW e \in Calls,
         FindKey(e) \/ GetActiveRelays(e) \/ FindKeyOfOwner(e) \/ FindKeyForReply(e)
  PROVE  Inv'
<1> USE DEF Inv
<1>0. at[e] \notin {"free", "over"} /\ call[e] \in Request
  BY DEF FindKey, GetActiveRelays, FindKeyOfOwner, FindKeyForReply, Starts, BaseInv, CallInv
<1>1. PICK pc \in Points \ {"free", "over"} :
        /\ Step(e, pc)
        /\ pc \in {"relays", "failed", "owner", "base", "reply", "send", "ok"}
        /\ pc = "relays" => call[e].op = "generate"
        /\ pc \in {"owner", "base"} => call[e].op \in {"generate", "create"}
        /\ pc \in {"reply", "send"} => call[e].op = "create"
        /\ conn[e] # None =>
             /\ pc \in {"owner", "base", "reply", "send", "ok"}
             /\ pc \in {"owner", "base"} \/ at[e] \notin {"owner", "base"}
        /\ pc = "ok" => call[e].op # "generate" \/ ~ Owned(e)
  <2>1. CASE FindKey(e)
    <3>1. conn[e] = None
      BY <2>1 DEF FindKey, Starts, BaseInv, TableInv, ConnOf
    <3> QED BY <2>1, <3>1 DEF FindKey, Starts, Points
  <2>2. CASE GetActiveRelays(e)
    <3>1. conn[e] = None
      BY <2>2 DEF GetActiveRelays, BaseInv, TableInv, ConnOf
    <3> QED BY <2>2, <3>1 DEF GetActiveRelays, BaseInv, CallInv, Points
  <2>3. CASE FindKeyOfOwner(e)
    <3>1. conn[e] # None => Owned(e)
      BY DEF BaseInv, TableInv, ConnOf
    <3>2. call[e].op \in {"generate", "create"}
      BY <2>3 DEF FindKeyOfOwner, BaseInv, CallInv
    <3>3. CASE Owned(e)
      BY <2>3, <3>2, <3>3 DEF FindKeyOfOwner, Points
    <3>4. CASE ~ Owned(e)
      BY <2>3, <3>1, <3>4 DEF FindKeyOfOwner, AfterListening, Replies, Points
    <3> QED BY <3>3, <3>4
  <2>4. CASE FindKeyForReply(e)
    BY <2>4 DEF FindKeyForReply, BaseInv, CallInv, Points
  <2> QED BY <2>1, <2>2, <2>3, <2>4
<1>2. /\ read' \in [Calls -> SUBSET SafeUrls]
      /\ \A f \in Calls \ {e} : read'[f] = read[f]
      /\ conn[e] # None => read'[e] = read[e]
  <2>1. CASE GetActiveRelays(e)
    <3>1. BaseRelays(call[e].user) \subseteq SafeUrls
      BY <1>0, BaseSafe, Records DEF BaseInv
    <3>2. conn[e] = None
      BY <2>1 DEF GetActiveRelays, BaseInv, TableInv, ConnOf
    <3> QED BY <2>1, <3>1, <3>2 DEF GetActiveRelays, BaseInv, CallInv
  <2>2. CASE read' = read
    BY <2>2 DEF BaseInv, CallInv
  <2> QED BY <2>1, <2>2 DEF FindKey, FindKeyOfOwner, FindKeyForReply
<1>3. GoTo(e, pc) /\ UNCHANGED <<tables, running, pool, network, call, page>>
  BY <1>1 DEF Step
<1>4. /\ CallInv' /\ RestInv' /\ running
      /\ \A f \in Calls : at'[f] = IF f = e THEN pc ELSE at[f]
  BY <1>0, <1>1, <1>2, <1>3, MoveCall DEF network
<1>5. UNCHANGED <<key, config, conn>> /\ TableInv'
  <2>1. UNCHANGED <<key, config, conn>>
    BY <1>3 DEF tables
  <2>2. config' \in [Users -> SUBSET SafeUrls]
    BY <2>1 DEF BaseInv, TableInv
  <2> QED BY <1>1, <1>2, <1>3, <1>4, <2>1, <2>2, MoveTables
<1>6. PoolInv' /\ listener' = listener
  BY <1>3 DEF pool, network, BaseInv, PoolInv, OneSubscription
<1>7. BaseInv'
  BY <1>4, <1>5, <1>6 DEF BaseInv
<1> QED BY <1>1, <1>2, <1>3, <1>4, <1>5, <1>6, <1>7, MovePromises

\* ensureListeningForConnection brings what was invited or connected to the
\* listener of the key it found.
LEMMA EnsureStep ==
  ASSUME Inv, NEW e \in Calls, NEW p \in Pubs, EnsureListening(e, p)
  PROVE  Inv'
<1> USE DEF Inv
<1> DEFINE R == read[e] \cup BaseRelays(call[e].user)
<1>0. at[e] = "base" /\ call[e] \in Request /\ call[e].op \in {"generate", "create"}
      /\ call[e].key \in Keys
  BY Records DEF EnsureListening, BaseInv, CallInv
<1>1. R \subseteq SafeUrls /\ R \in SUBSET Urls
  <2>1. BaseRelays(call[e].user) \subseteq SafeUrls
    BY <1>0, BaseSafe, Records DEF BaseInv
  <2> QED BY <2>1 DEF BaseInv, CallInv, SafeUrls, Safe
<1>2. Safe(R) = R
  BY <1>1, SafeParts
<1>3. /\ PoolInv'
      /\ \A q \in Pubs : listener[q] \subseteq listener'[q]
      /\ R \subseteq listener'[p]
  <2>1. StartListeningForKey(p, R) /\ UNCHANGED connected
    BY DEF EnsureListening, network
  <2> HIDE DEF R
  <2> QED BY <1>1, <1>2, <2>1, StartListening DEF BaseInv
<1>4. AfterListening(e) \in {"reply", "ok"} /\ (AfterListening(e) = "reply" => call[e].op = "create")
  BY DEF AfterListening, Replies
<1>5. /\ CallInv' /\ RestInv' /\ running
      /\ \A f \in Calls : at'[f] = IF f = e THEN AfterListening(e) ELSE at[f]
  <2>1. AfterListening(e) \in Points \ {"free", "over"}
    BY <1>4 DEF Points
  <2>2. GoTo(e, AfterListening(e)) /\ UNCHANGED <<running, up, call, page, read>>
    BY DEF EnsureListening, network
  <2>3. read' \in [Calls -> SUBSET SafeUrls]
    BY <2>2 DEF BaseInv, CallInv
  <2> QED BY <1>0, <1>4, <2>1, <2>2, <2>3, MoveCall
<1>6. UNCHANGED <<key, config, conn, call, running, read>>
      /\ config' \in [Users -> SUBSET SafeUrls]
  BY DEF EnsureListening, tables, BaseInv, TableInv
<1>7. TableInv'
  BY <1>4, <1>5, <1>6, MoveTables
<1>8. BaseInv'
  BY <1>3, <1>5, <1>7 DEF BaseInv
<1>9. key[call[e].key] # None => key[call[e].key].pub = p
  BY <1>0 DEF EnsureListening, BaseInv, TableInv
<1>10. Owned(e) => read'[e] \subseteq listener'[key[call[e].key].pub]
  BY <1>3, <1>6, <1>9 DEF Owned
<1>11. conn[e] # None => conn[e].relays \subseteq listener'[key[conn[e].key].pub]
  BY <1>3, <1>9 DEF BaseInv, TableInv, ConnOf, Owned
<1> QED BY <1>3, <1>5, <1>6, <1>8, <1>10, <1>11, MovePromises

\* Sending the secret back dials the client's relays and the owner's.
LEMMA ReplyStep ==
  ASSUME Inv, NEW e \in Calls, SendConnectResponse(e)
  PROVE  Inv'
<1> USE DEF Inv
<1>0. at[e] = "send" /\ call[e] \in Request /\ call[e].op = "create"
  BY DEF SendConnectResponse, BaseInv, CallInv
<1>1. read[e] \cup BaseRelays(call[e].user) \subseteq SafeUrls
  BY <1>0, BaseSafe, Records DEF BaseInv, CallInv
<1>2. PoolInv' /\ listener' = listener
  BY <1>1 DEF SendConnectResponse, Dial, network, BaseInv, PoolInv, OneSubscription
<1>3. UNCHANGED <<key, conn, call, running, read, up, page>> /\ GoTo(e, "ok")
      /\ config' \in [Users -> SUBSET SafeUrls]
  BY DEF SendConnectResponse, network, tables, BaseInv, TableInv
<1>4. /\ CallInv' /\ RestInv' /\ running
      /\ \A f \in Calls : at'[f] = IF f = e THEN "ok" ELSE at[f]
  BY <1>0, <1>3, MoveCall DEF BaseInv, CallInv, Points
<1>5. BaseInv'
  BY <1>2, <1>3, <1>4, MoveTables DEF BaseInv
<1> QED BY <1>0, <1>2, <1>3, <1>4, <1>5, MovePromises
-----------------------------------------------------------------------------
(* Statements on the tables.                                                 *)

\* A step that moves no call keeps the promises when it takes relays from no
\* listener and adds neither connection nor key.
LEMMA TablePromises ==
  ASSUME Inv, BaseInv', UNCHANGED <<running, at, call, read>>,
         \A p \in Pubs : listener[p] \subseteq listener'[p],
         \A k \in Keys : key'[k] \in {key[k], None},
         \A e \in Calls : conn'[e] \in {conn[e], None}
  PROVE  Inv'
<1> USE DEF Inv
<1>0. \A k \in Keys : key'[k] # None => key'[k] = key[k] /\ key[k].pub \in Pubs
  BY Records DEF BaseInv, TableInv
<1>1. InvitationIsHeard'
  <2> SUFFICES ASSUME NEW e \in Calls, at[e] = "ok", call[e].op = "generate", Owned(e)'
               PROVE  read[e] \subseteq listener'[key'[call[e].key].pub]
    BY DEF InvitationIsHeard
  <2>1. call[e].key \in Keys
    BY Records DEF BaseInv, CallInv
  <2>2. key'[call[e].key] = key[call[e].key] /\ Owned(e) /\ key[call[e].key].pub \in Pubs
    BY <1>0, <2>1 DEF Owned
  <2> QED BY <2>2 DEF InvitationIsHeard
<1>2. ConnectionIsHeard'
  <2> SUFFICES ASSUME NEW e \in Calls, running, conn'[e] # None, at[e] \notin {"owner", "base"}
               PROVE  conn'[e].relays \subseteq listener'[key'[conn'[e].key].pub]
    BY DEF ConnectionIsHeard
  <2>1. conn'[e] = conn[e] /\ conn[e].key \in Keys
    BY Records DEF BaseInv, TableInv
  <2>2. key'[conn[e].key] # None
    BY <2>1, Records DEF BaseInv, TableInv, ConnOf, Owned
  <2> QED BY <1>0, <2>1, <2>2 DEF ConnectionIsHeard
<1> QED BY <1>1, <1>2

\* A connection is created with safe relays, for a key of its user.
LEMMA CreateStep ==
  ASSUME Inv, NEW e \in Calls, CreateConnection(e)
  PROVE  Inv'
<1> USE DEF Inv
<1>0. at[e] = "start" /\ call[e] \in Request /\ call[e].op = "create"
      /\ call[e].key \in Keys /\ call[e].relays \in SUBSET Urls /\ conn[e] = None
  BY Records DEF CreateConnection, Starts, BaseInv, CallInv, TableInv, ConnOf
<1>1. UNCHANGED <<key, config, running, pool, network, call, page>>
  BY DEF CreateConnection
<1>2. PoolInv' /\ listener' = listener
  BY <1>1 DEF pool, network, BaseInv, PoolInv, OneSubscription
<1>3. CASE Owned(e) /\ call[e].relays = Safe(call[e].relays)
  <2>1. /\ conn' = [conn EXCEPT ![e] = [key |-> call[e].key, relays |-> call[e].relays]]
        /\ read' = [read EXCEPT ![e] = call[e].relays]
        /\ GoTo(e, "owner")
    BY <1>3 DEF CreateConnection
  <2>2. call[e].relays \subseteq SafeUrls
    BY <1>0, <1>3, SafeParts
  <2>3. read' \in [Calls -> SUBSET SafeUrls] /\ read'[e] = call[e].relays
        /\ \A f \in Calls \ {e} : read'[f] = read[f]
    BY <2>1, <2>2 DEF BaseInv, CallInv
  <2>4. /\ CallInv' /\ RestInv' /\ running
        /\ \A f \in Calls : at'[f] = IF f = e THEN "owner" ELSE at[f]
    BY <1>0, <1>1, <2>1, <2>3, MoveCall DEF Points, network
  <2>5. conn' \in [Calls -> Conn \cup {None}]
        /\ conn'[e] = [key |-> call[e].key, relays |-> call[e].relays]
        /\ \A f \in Calls \ {e} : conn'[f] = conn[f]
    BY <1>0, <2>1 DEF BaseInv, TableInv, Conn
  <2>6. \A f \in Calls : ConnOf(f)'
    BY <1>0, <1>1, <1>3, <2>3, <2>4, <2>5 DEF BaseInv, TableInv, ConnOf, Owned
  <2>7. BaseInv'
    BY <1>1, <1>2, <2>4, <2>5, <2>6 DEF BaseInv, TableInv
  <2>8. InvitationIsHeard'
    BY <1>1, <1>2, <2>3, <2>4 DEF InvitationIsHeard, Owned
  <2>9. ConnectionIsHeard'
    BY <1>1, <1>2, <2>4, <2>5 DEF ConnectionIsHeard
  <2> QED BY <2>7, <2>8, <2>9
<1>4. CASE ~ (Owned(e) /\ call[e].relays = Safe(call[e].relays))
  <2>1. GoTo(e, "failed") /\ UNCHANGED <<conn, read>>
        /\ config' \in [Users -> SUBSET SafeUrls]
    BY <1>1, <1>4 DEF CreateConnection, BaseInv, TableInv
  <2>2. /\ CallInv' /\ RestInv' /\ running
        /\ \A f \in Calls : at'[f] = IF f = e THEN "failed" ELSE at[f]
    BY <1>0, <1>1, <2>1, MoveCall DEF BaseInv, CallInv, Points, network
  <2>3. BaseInv'
    BY <1>0, <1>1, <1>2, <2>1, <2>2, MoveTables DEF BaseInv
  <2> QED BY <1>0, <1>1, <1>2, <2>1, <2>2, <2>3, MovePromises
<1> QED BY <1>3, <1>4

\* setRelays stores safe relays or nothing.
LEMMA SaveStep ==
  ASSUME Inv, NEW e \in Calls, DeleteRelays(e) \/ CreateRelays(e)
  PROVE  Inv'
<1> USE DEF Inv
<1>0. /\ at[e] \in {"start", "write"} /\ call[e] \in Request /\ call[e].op = "save"
      /\ call[e].user \in Users /\ conn[e] = None
  BY Records DEF DeleteRelays, CreateRelays, Starts, BaseInv, CallInv, TableInv, ConnOf
<1>1. UNCHANGED <<key, conn, running, pool, network, call, read, page>>
  BY DEF DeleteRelays, CreateRelays
<1>2. PICK pc \in {"ok", "failed", "write"} :
        GoTo(e, pc) /\ (pc = "write" => call[e].relays = Safe(call[e].relays))
  BY DEF DeleteRelays, CreateRelays
<1>3. /\ CallInv' /\ RestInv' /\ running
      /\ \A f \in Calls : at'[f] = IF f = e THEN pc ELSE at[f]
  BY <1>0, <1>1, <1>2, MoveCall DEF BaseInv, CallInv, Points, network
<1>4. PoolInv' /\ listener' = listener
  BY <1>1 DEF pool, network, BaseInv, PoolInv, OneSubscription
<1>5. config' \in [Users -> SUBSET SafeUrls]
  <2>1. call[e].relays = Safe(call[e].relays) => call[e].relays \subseteq SafeUrls
    BY <1>0, Records, SafeParts
  <2>2. CASE DeleteRelays(e)
    BY <1>0, <2>2 DEF DeleteRelays, BaseInv, TableInv
  <2>3. CASE CreateRelays(e)
    BY <1>0, <2>1, <2>3 DEF CreateRelays, BaseInv, CallInv, TableInv
  <2> QED BY <2>2, <2>3
<1>6. BaseInv'
  BY <1>0, <1>1, <1>3, <1>4, <1>5, MoveTables DEF BaseInv
<1> QED BY <1>0, <1>1, <1>3, <1>4, <1>6, MovePromises

\* A connection that ends, alone or with its key, takes nothing else along.
LEMMA EndStep ==
  ASSUME Inv, (\E e \in Calls : EndConnection(e)) \/ (\E k \in Keys : DeleteKey(k))
  PROVE  Inv'
<1> USE DEF Inv
<1>1. UNCHANGED <<config, running, pool, network, calls, page>>
  BY DEF EndConnection, DeleteKey
<1>2. /\ \A k \in Keys : key'[k] \in {key[k], None}
      /\ \A e \in Calls : conn'[e] \in {conn[e], None}
      /\ key' \in [Keys -> KeyRow \cup {None}] /\ conn' \in [Calls -> Conn \cup {None}]
      /\ \A e \in Calls : conn'[e] # None => key'[conn[e].key] = key[conn[e].key]
  <2>1. ASSUME NEW e \in Calls, EndConnection(e) PROVE <1>2!:
    BY <2>1 DEF EndConnection, BaseInv, TableInv
  <2>2. ASSUME NEW k \in Keys, DeleteKey(k) PROVE <1>2!:
    BY <2>2 DEF DeleteKey, BaseInv, TableInv
  <2> QED BY <2>1, <2>2
<1>3. UNCHANGED <<at, call, read, listener, up>>
  BY <1>1 DEF calls, pool, network
<1>4. \A e \in Calls : ConnOf(e)'
  BY <1>1, <1>2, <1>3 DEF BaseInv, TableInv, ConnOf, Owned
<1>5. TableInv'
  BY <1>1, <1>2, <1>4 DEF BaseInv, TableInv
<1>6. BaseInv'
  BY <1>1, <1>3, <1>5 DEF BaseInv, CallInv, RestInv, PoolInv, OneSubscription, pool, network
<1> QED BY <1>1, <1>2, <1>3, <1>6, TablePromises
-----------------------------------------------------------------------------
(* The process, the network and the page.                                    *)

\* A process that starts listens for every key, on the relays of its connections
\* too.
LEMMA ResumeStep == Inv /\ Resume => Inv'
<1> SUFFICES ASSUME Inv, Resume PROVE Inv' OBVIOUS
<1> USE DEF Inv
<1>1. PoolInv' /\ \A k \in Keys : key[k] # None => Safe(Wanted(k)) \subseteq listener'[key[k].pub]
  BY ResumePool
<1>2. ~ running /\ running' /\ UNCHANGED <<key, config, conn, up, at, call, read, page>>
  BY DEF Resume, tables, network, calls, RestInv, BaseInv
<1>3. CallInv' /\ RestInv'
  BY <1>2 DEF BaseInv, CallInv, RestInv
<1>4. TableInv'
  BY <1>2 DEF BaseInv, TableInv, ConnOf, Owned
<1>5. InvitationIsHeard'
  BY <1>2 DEF InvitationIsHeard, BaseInv, RestInv
<1>6. ASSUME NEW e \in Calls, conn[e] # None
      PROVE  conn[e].relays \subseteq listener'[key[conn[e].key].pub]
  <2>1. conn[e].key \in Keys /\ key[conn[e].key] # None /\ conn[e].relays \subseteq SafeUrls
    BY <1>6, Records DEF BaseInv, TableInv, CallInv, ConnOf, Owned
  <2>2. conn[e].relays \subseteq Wanted(conn[e].key) /\ Wanted(conn[e].key) \in SUBSET Urls
    BY <1>6, <2>1, WantedParts DEF BaseInv
  <2>3. conn[e].relays \subseteq Safe(Wanted(conn[e].key))
    BY <2>1, <2>2 DEF SafeUrls, Safe
  <2> QED BY <1>1, <2>1, <2>3
<1>7. ConnectionIsHeard'
  BY <1>2, <1>6 DEF ConnectionIsHeard
<1> QED BY <1>1, <1>3, <1>4, <1>5, <1>7 DEF BaseInv

\* One that stops leaves the tables and promises nothing.
LEMMA StopStep == Inv /\ Stop => Inv'
<1> SUFFICES ASSUME Inv, Stop PROVE Inv' OBVIOUS
<1> USE DEF Inv
<1>1. /\ at' \in [Calls -> Points]
      /\ \A e \in Calls : at'[e] = IF at[e] = "free" THEN "free" ELSE "over"
      /\ ~ running' /\ running' \in BOOLEAN
      /\ \A p \in Pubs : listener'[p] = {}
      /\ UNCHANGED <<key, config, conn, up, call, read, page>>
  BY DEF Stop, Points, BaseInv, CallInv, tables
<1>2. PoolInv'
  BY DEF Stop, PoolInv, OneSubscription
<1>3. CallInv' /\ RestInv'
  BY <1>1 DEF BaseInv, CallInv, RestInv
<1>4. TableInv'
  BY <1>1 DEF BaseInv, TableInv, ConnOf, Owned
<1>5. InvitationIsHeard' /\ ConnectionIsHeard'
  BY <1>1 DEF InvitationIsHeard, ConnectionIsHeard
<1> QED BY <1>2, <1>3, <1>4, <1>5 DEF BaseInv

\* The watchdog, the relays and the answers take no relay from a listener.
LEMMA NetworkStep ==
  ASSUME Inv,
         \/ CheckConnections
         \/ \E u \in Urls : Dialed(u) \/ LoseRelay(u) \/ RelayReturns(u)
         \/ \E p \in Pubs : AnswerRequest(p)
  PROVE  Inv'
<1> USE DEF Inv
<1>1. PoolInv' /\ UNCHANGED <<listener, tables, running, calls, page>> /\ up' \subseteq Urls
  <2>1. CASE CheckConnections
    BY <2>1, WatchdogPool DEF CheckConnections, network, BaseInv, RestInv
  <2>2. CASE ~ CheckConnections
    BY <2>2, NetworkPool
  <2> QED BY <2>1, <2>2
<1>2. UNCHANGED <<key, config, conn, at, call, read>>
  BY <1>1 DEF tables, calls
<1>3. TableInv'
  BY <1>2 DEF BaseInv, TableInv, ConnOf, Owned
<1>4. BaseInv'
  BY <1>1, <1>2, <1>3 DEF BaseInv, CallInv, RestInv
<1> QED BY <1>1, <1>2, <1>4, TablePromises

\* The page is a list of URLs, and nothing else.
LEMMA PageStep ==
  ASSUME Inv,
         \/ ResetToDefaults
         \/ \E u \in Viewers : LoadRelays(u)
         \/ \E u \in Typed : AddRelay(u)
         \/ \E u \in Urls : RemoveRelay(u)
  PROVE  Inv'
<1> USE DEF Inv
<1>1. ASSUME NEW R \in SUBSET Urls, page \in Page, Show(R)
      PROVE  page' \in Page /\ UNCHANGED <<tables, running, pool, network, calls>>
  BY <1>1 DEF Show, Page
<1>2. page # None => page \in Page /\ page.relays \in SUBSET Urls /\ page.defaults \in SUBSET Urls
  BY Records DEF BaseInv, RestInv
<1>3. page' \in Page \cup {None} /\ UNCHANGED <<tables, running, pool, network, calls>>
  <2>1. CASE ResetToDefaults
    BY <1>1, <1>2, <2>1 DEF ResetToDefaults
  <2>2. ASSUME NEW u \in Viewers, LoadRelays(u) PROVE <1>3!:
    <3>1. u \in Users /\ BaseRelays(u) \subseteq Urls
      BY RelayAssumption, BaseSafe DEF BaseInv, SafeUrls, Safe
    <3> QED BY <2>2, <3>1 DEF LoadRelays, Page
  <2>3. ASSUME NEW u \in Typed, AddRelay(u) PROVE <1>3!:
    <3>1. u \in Urls
      BY RelayAssumption
    <3> QED BY <1>1, <1>2, <2>3, <3>1 DEF AddRelay
  <2>4. ASSUME NEW u \in Urls, RemoveRelay(u) PROVE <1>3!:
    <3>1. page.relays \ {u} \in SUBSET Urls
      BY <1>2, <2>4 DEF RemoveRelay
    <3> QED BY <1>1, <1>2, <2>4, <3>1 DEF RemoveRelay
  <2> QED BY <2>1, <2>2, <2>3, <2>4
<1>4. UNCHANGED <<key, config, conn, at, call, read, listener, up>>
  BY <1>3 DEF tables, calls, pool, network
<1>5. TableInv'
  BY <1>4 DEF BaseInv, TableInv, ConnOf, Owned
<1>6. BaseInv'
  BY <1>3, <1>4, <1>5 DEF BaseInv, CallInv, RestInv, PoolInv, OneSubscription, pool, network
<1> QED BY <1>3, <1>4, <1>6, TablePromises

\* A call that comes in has done nothing yet.
LEMMA ReceiveStep ==
  ASSUME Inv, NEW e \in Calls, Receive(e) \/ SaveRelays(e)
  PROVE  Inv'
<1> USE DEF Inv
<1>1. PICK q \in Request : ReceiveRequest(e, q) /\ page' = page
  <2>1. CASE Receive(e)
    BY <2>1, RelayAssumption DEF Receive
  <2>2. CASE SaveRelays(e)
    <3>1. page \in Page
      BY <2>2 DEF SaveRelays, BaseInv, RestInv
    <3>2. [op |-> "save", user |-> page.user, relays |-> page.relays] \in Request
      BY <3>1, Records DEF Request
    <3> QED BY <2>2, <3>2 DEF SaveRelays
  <2> QED BY <2>1, <2>2
<1>2. /\ at[e] = "free" /\ running /\ conn[e] = None
      /\ UNCHANGED <<key, config, conn, running, pool, network, read, page>>
      /\ at' \in [Calls -> Points] /\ call' \in [Calls -> Request \cup {None}]
      /\ at'[e] = "start" /\ call'[e] = q
      /\ \A f \in Calls \ {e} : at'[f] = at[f] /\ call'[f] = call[f]
  BY <1>1 DEF ReceiveRequest, GoTo, Points, tables, BaseInv, CallInv, TableInv, ConnOf
<1>3. CallInv' /\ RestInv'
  BY <1>2 DEF BaseInv, CallInv, RestInv, network
<1>4. \A f \in Calls : ConnOf(f)'
  BY <1>2 DEF BaseInv, TableInv, ConnOf, Owned
<1>5. BaseInv'
  BY <1>2, <1>3, <1>4 DEF BaseInv, TableInv, PoolInv, OneSubscription, pool, network
<1>6. InvitationIsHeard'
  BY <1>2 DEF InvitationIsHeard, Owned, pool
<1>7. ConnectionIsHeard'
  BY <1>2 DEF ConnectionIsHeard, pool
<1> QED BY <1>5, <1>6, <1>7

\* Every step keeps the invariant.
LEMMA Step_Inv == Inv /\ [Next]_vars => Inv'
<1> SUFFICES ASSUME Inv, [Next]_vars PROVE Inv' OBVIOUS
<1>1. CASE UNCHANGED vars
  <2>1. UNCHANGED <<key, config, conn, running, listener, open, heard, awaiting, dialing,
                    connected, up, at, call, read, page>>
    BY <1>1 DEF vars, tables, pool, network, calls
  <2>2. TableInv'
    BY <2>1 DEF Inv, BaseInv, TableInv, ConnOf, Owned
  <2>3. BaseInv'
    BY <2>1, <2>2 DEF Inv, BaseInv, CallInv, RestInv, PoolInv, OneSubscription
  <2> QED BY <2>1, <2>3, TablePromises DEF Inv, BaseInv, TableInv
<1>2. ASSUME NEW e \in Calls, Handle(e) PROVE Inv'
  BY <1>2, ReceiveStep, ReadsStep, CreateStep, EnsureStep, ReplyStep, SaveStep, EndStep DEF Handle
<1> QED BY <1>1, <1>2, ResumeStep, StopStep, NetworkStep, PageStep, EndStep DEF Next
-----------------------------------------------------------------------------
(* Theorems.                                                                 *)

LEMMA Invariance == Spec => []Inv
BY BaseInit, Step_Inv, PTL DEF Spec

\* Every variable keeps its type; what is stored and listened on was validated.
THEOREM TypeCorrect == Spec => []TypeOK
<1>1. SafeUrls \subseteq Urls
  BY DEF SafeUrls, Safe
<1>2. Inv => TypeOK
  BY <1>1 DEF Inv, BaseInv, PoolInv, CallInv, TableInv, RestInv, TypeOK, Points, SafeUrls
<1> QED BY <1>2, Invariance, PTL

\* Merged, restarted by the watchdog, resumed or stopped: an entry of
\* activeListeners stands for exactly one open subscription.
THEOREM OneSubscriptionAlways == Spec => []OneSubscription
<1>1. Inv => OneSubscription
  BY DEF Inv, BaseInv, PoolInv
<1> QED BY <1>1, Invariance, PTL

\* What generateBunkerUri returned stays listened for, while the process runs.
THEOREM InvitationIsHeardAlways == Spec => []InvitationIsHeard
<1>1. Inv => InvitationIsHeard
  BY DEF Inv
<1> QED BY <1>1, Invariance, PTL

\* The relays of a connection stay listened on, restarts included.
THEOREM ConnectionIsHeardAlways == Spec => []ConnectionIsHeard
<1>1. Inv => ConnectionIsHeard
  BY DEF Inv
<1> QED BY <1>1, Invariance, PTL

\* A relay that SafeRelayUrlSchema lets through is wss and in none of the blocks.
LEMMA SafeIsPublic ==
  ASSUME NEW u \in SafeUrls
  PROVE  LET h == Address[u].host IN
         /\ Address[u].scheme = "wss"
         /\ h.kind = "ipv4" =>
              ~ \/ InBlock(h, 127, 0, 256) \/ InBlock(h, 10, 0, 256) \/ InBlock(h, 172, 16, 16)
                \/ InBlock(h, 192, 168, 1) \/ InBlock(h, 169, 254, 1)
<1> DEFINE h == Address[u].host
<1>1. u \in Urls /\ Address[u].scheme = "wss" /\ ~ IsPrivateOrLocalHost(h)
  BY DEF SafeUrls, Safe, SafeRelayUrl
<1>2. h \in Host
  BY <1>1, RelayAssumption
<1>3. ASSUME h.kind = "ipv4"
      PROVE  ~ \/ InBlock(h, 127, 0, 256) \/ InBlock(h, 10, 0, 256) \/ InBlock(h, 172, 16, 16)
               \/ InBlock(h, 192, 168, 1) \/ InBlock(h, 169, 254, 1)
  <2>1. h.a \in 0..255 /\ h.b \in 0..255
    BY <1>2, <1>3 DEF Host
  <2>2. /\ h.a \notin {10, 127}
        /\ ~ (h.a = 172 /\ h.b \in 16..31)
        /\ ~ (h.a = 192 /\ h.b = 168) /\ ~ (h.a = 169 /\ h.b = 254)
    BY <1>1, <1>3 DEF IsPrivateOrLocalHost
  <2>3. /\ InBlock(h, 127, 0, 256) => h.a = 127
        /\ InBlock(h, 10, 0, 256) => h.a = 10
        /\ InBlock(h, 172, 16, 16) => h.a = 172 /\ h.b \in 16..31
        /\ InBlock(h, 192, 168, 1) => h.a = 192 /\ h.b = 168
        /\ InBlock(h, 169, 254, 1) => h.a = 169 /\ h.b = 254
    <3>1. PICK a \in 0..255, b \in 0..255 : h.a = a /\ h.b = b
      BY <2>1
    <3> HIDE DEF h
    <3>2. InBlock(h, 127, 0, 256) => a = 127
      <4>1. (256 * a + b) \div 256 = (256 * 127 + 0) \div 256 => a = 127
        OBVIOUS
      <4> QED BY <3>1, <4>1, Zenon DEF InBlock
    <3>3. InBlock(h, 10, 0, 256) => a = 10
      <4>1. (256 * a + b) \div 256 = (256 * 10 + 0) \div 256 => a = 10
        OBVIOUS
      <4> QED BY <3>1, <4>1, Zenon DEF InBlock
    <3>4. InBlock(h, 172, 16, 16) => a = 172 /\ b \in 16..31
      <4>1. (256 * a + b) \div 16 = (256 * 172 + 16) \div 16 => a = 172 /\ b \in 16..31
        OBVIOUS
      <4> QED BY <3>1, <4>1, Zenon DEF InBlock
    <3>5. InBlock(h, 192, 168, 1) => a = 192 /\ b = 168
      <4>1. (256 * a + b) \div 1 = (256 * 192 + 168) \div 1 => a = 192 /\ b = 168
        OBVIOUS
      <4> QED BY <3>1, <4>1, Zenon DEF InBlock
    <3>6. InBlock(h, 169, 254, 1) => a = 169 /\ b = 254
      <4>1. (256 * a + b) \div 1 = (256 * 169 + 254) \div 1 => a = 169 /\ b = 254
        OBVIOUS
      <4> QED BY <3>1, <4>1, Zenon DEF InBlock
    <3> QED BY <3>1, <3>2, <3>3, <3>4, <3>5, <3>6
  <2> QED BY <2>2, <2>3
<1> QED BY <1>1, <1>3

\* No save, import, restart or answer makes the process dial a relay that is not
\* wss, or an address of a private, local or link-local block.
THEOREM DialsOnlyPublicAlways == Spec => []DialsOnlyPublic
<1>1. Inv => DialsOnlyPublic
  BY SafeIsPublic DEF Inv, BaseInv, PoolInv, DialsOnlyPublic
<1> QED BY <1>1, Invariance, PTL
==============================================================================
