--------------------------- MODULE MC_ContractOps ---------------------------
(* Instances of ContractOps.  Deployments come first in any behaviour in   *)
(* which something is executed: a contract must have been minted.          *)
EXTENDS ContractOps, TLC

CONSTANTS a1, a2, c1, u1, x1

(* One admin's contract and activity, another admin's use of them, and the *)
(* same user DID from both.                                                *)
MixedRequests ==
    { [op |-> "deploy", admin |-> a1, kind |-> "add_activity"],
      [op |-> "deploy", admin |-> a1, kind |-> "add_admin"],
      [op |-> "add_activity", admin |-> a1, activity |-> x1],
      [op |-> "add_admin", admin |-> a1],
      [op |-> "execute", admin |-> a2, contract |-> c1] }
    \cup { [op |-> "create_did", admin |-> a, user |-> u1] : a \in {a1, a2} }

ActivityRequests ==
    { [op |-> "deploy", admin |-> a1, kind |-> "add_activity"],
      [op |-> "add_activity", admin |-> a1, activity |-> x1] }

Symmetry == Permutations(Calls)
=============================================================================
