---------------------------- MODULE PendingSecrets ----------------------------
(***************************************************************************)
(* The pendingSecrets map of apps/server/src/bunker/bunker.service.ts: what *)
(* a bunker:// URI promised to whoever presents its secret.  It lives in   *)
(* the server's memory only, so that a restart forgets it, and every entry *)
(* has a ten-minute timer.                                                 *)
(***************************************************************************)
EXTENDS ConnectionStore

CONSTANTS
  PermLists,  \* the descriptor lists that calls and requests may carry
  NoInvite

\* PendingSecretInfo with the signerPubkey:secret key it is stored under.
Invite == [signer : Pubkeys, secret : Secrets, user : Users, key : Keys,
           seed : PermLists]

ASSUME InviteAssumption ==
  /\ PermLists \subseteq Seq(Perms)
  /\ <<>> \in PermLists
  /\ NoInvite \notin Invite

VARIABLES
  pendingSecrets,  \* the invitations still open
  issued           \* secrets randomBytes has ever returned

PendingSecretsTypeOK ==
  /\ pendingSecrets \subseteq Invite
  /\ issued \subseteq Secrets

PendingSecretsInit ==
  /\ pendingSecrets = {}
  /\ issued = {}

\* randomBytes(16): a secret no URI has carried before.
RegisterPendingSecret(secret, invite) ==
  /\ secret \notin issued
  /\ issued' = issued \cup {secret}
  /\ pendingSecrets' = pendingSecrets \cup {invite}

Matching(signer, secret) ==
  {i \in pendingSecrets : i.signer = signer /\ i.secret = secret}

\* Mutant: the secret is read and left in the map.
ConsumeKept(invite) == UNCHANGED <<pendingSecrets, issued>>

\* consumePendingSecret reads and deletes with no await between.
ConsumePendingSecret(invite) ==
  /\ pendingSecrets' = pendingSecrets \ {invite}
  /\ UNCHANGED issued

\* The timer that registerPendingSecret set.
ExpireSecret(invite) ==
  /\ pendingSecrets' = pendingSecrets \ {invite}
  /\ UNCHANGED issued

ForgetPendingSecrets ==
  /\ pendingSecrets' = {}
  /\ UNCHANGED issued
==============================================================================
