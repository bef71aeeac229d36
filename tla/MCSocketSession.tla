-------------------------- MODULE MCSocketSession --------------------------
(***************************************************************************)
(* The instances of SocketSession that TLC checks.                         *)
(***************************************************************************)
EXTENDS SocketSession

ByPolicy(policies, x) == [p \in policies |-> x]

\* A client that loses nothing, and a server that keeps its sessions or not.
MCPolicies == {<<LosslessClient, StatefulServer>>, <<LosslessClient, StatelessServer>>}
MCLoads == ByPolicy(MCPolicies, {<<2, 0>>, <<1, 1>>})
MCSlots == ByPolicy(MCPolicies, <<2, 2>>)

\* Two faults, so that a reconnection fails too: the client and a stateful server, with
\* one message, and the policy that the daemon of src/demo sets for its own kind.
MCLossless == {<<LosslessClient, StatefulServer>>}
MCPeers == {<<LosslessPeerReuse, LosslessPeerReuse>>}
MCMore == MCLossless \cup MCPeers
MCMoreLoads == [p \in MCMore |-> IF p \in MCPeers THEN {<<1, 1>>} ELSE {<<1, 0>>}]
MCMoreSlots == [p \in MCMore |-> IF p \in MCPeers THEN <<2, 1>> ELSE <<1, 4>>]
MCLosslessLoads == ByPolicy(MCLossless, {<<1, 0>>})
MCLosslessSlots == ByPolicy(MCLossless, <<1, 4>>)

\* Only the first peer has anything to send, so that only it connects.
MCPeersLoads == ByPolicy(MCPeers, {<<2, 0>>})
MCPeersSlots == ByPolicy(MCPeers, <<2, 2>>)
=============================================================================
