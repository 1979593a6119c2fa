--------------------------- MODULE MCRelayListeners ---------------------------
(***************************************************************************)
(* Small instances of RelayListeners: one public key that two users hold.  *)
(***************************************************************************)
EXTENDS RelayListeners, TLC

CONSTANTS u1, u2, k1, k2, p1, d, r, private

Wss(host) == [scheme |-> "wss", host |-> host]

\* A default relay, another one, and one at the end of a private block.
MCAddress ==
  [u \in Urls |-> Wss(IF u = private THEN [kind |-> "ipv4", a |-> 172, b |-> 31]
                      ELSE [kind |-> "name"])]

MCKeys0 == [k \in Keys |-> [owner |-> IF k = k1 THEN u1 ELSE u2, pub |-> p1]]

NoSettings == [u \in Users |-> {}]

Generate(u, k) == [op |-> "generate", user |-> u, key |-> k]
Create(u, k, R, reply) == [op |-> "create", user |-> u, key |-> k, relays |-> R, reply |-> reply]
Save(u, R) == [op |-> "save", user |-> u, relays |-> R]

\* Every kind of call, and the same settings saved from another browser.
ListenersMenu ==
  {Generate(u1, k1), Generate(u1, k2), Create(u2, k2, {r}, TRUE), Create(u1, k1, {private}, FALSE),
   Save(u1, {r})}

WatchdogMenu == {Create(u1, k1, {r}, FALSE)}
==============================================================================
