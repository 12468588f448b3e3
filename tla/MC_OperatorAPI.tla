--------------------------- MODULE MC_OperatorAPI ---------------------------
(* The operators' endpoints: set up admins, check for a fork, list the     *)
(* heads of the contracts.  They share nothing that the three modules      *)
(* model, so a behaviour is about the calls of one of them.                *)
EXTENDS AdminRegistry, ForkCheck, ContractHeads, TLC

CONSTANTS n1, n2, n3, l1, l2, l3, l4, l5, l6, l7

(* A healthy node with two contracts, so that goroutines race for its      *)
(* client; a hung node with more contracts than fit in one batch, a broken *)
(* one, and an owner the server does not know.                             *)
NodeOfListed ==
    [c \in Listed |-> CASE c \in {l1, l2} -> n1
                       [] c \in {l3, l4, l5} -> n2
                       [] c = l6 -> n3
                       [] c = l7 -> Nobody]

(* Lengths that tell the chains apart.                                     *)
StartOfListed == (l1 :> 0) @@ (l2 :> 10) @@ [c \in Listed |-> 20]

VARIABLE endpoint

OperatorInit ==
    /\ Init /\ ForkInit /\ HeadsInit
    /\ endpoint \in {"setup", "fork-check", "contracts"}

OperatorNext ==
    /\ UNCHANGED endpoint
    /\ \/ endpoint = "setup" /\ Next /\ UNCHANGED <<forkVars, headsVars>>
       \/ endpoint = "fork-check" /\ ForkNext /\ UNCHANGED <<vars, headsVars>>
       \/ endpoint = "contracts" /\ HeadsNext /\ UNCHANGED <<vars, forkVars>>

OperatorSpec == OperatorInit /\ [][OperatorNext]_<<vars, forkVars, headsVars, endpoint>>
=============================================================================
