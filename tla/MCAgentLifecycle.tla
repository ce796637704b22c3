--------------------------- MODULE MCAgentLifecycle ---------------------------
(* The instances of AgentLifecycle that TLC checks.                        *)
EXTENDS AgentLifecycle, TLC

(* Handlers, credentials and tokens are ids without an order.              *)
Ids == Permutations(Handlers) \cup Permutations(Credentials) \cup Permutations(Tokens)

=============================================================================
