-------------------------- MODULE MCConnectionPages --------------------------
(***************************************************************************)
(* Two tabs, a connection and one more by invitation or import.            *)
(***************************************************************************)
EXTENDS ConnectionPages, TLC

MCMaxKind == 7
\* Kinds above 7 stand for those an INTEGER column cannot hold.
MCKinds == {8}
MCPerms == Defaults \cup {AllKinds(m) : m \in GatedMethods} \cup {Sign(k) : k \in MCKinds}
MCMethods == {"sign_event"}
MCAsked == {AllKinds("nip44_decrypt")}
MCPasted == {{}, {AllKinds("nip44_decrypt")}}

Symmetry == Permutations(Tabs) \cup Permutations(Flows)
==============================================================================
