--------------------------- MODULE MC_PayoutQueue ---------------------------
(* Small instances of PayoutQueue: requests r1, r2 (and r3) for admin a1,  *)
(* whose channel holds one job, rb for admin a2, and ru for an admin that  *)
(* is not in the config map.                                               *)
EXTENDS PayoutQueue, TLC

CONSTANTS rb, ru, a1, a2, au

MC_AdminOf ==
    [r \in Requests |-> CASE r = rb -> a2 [] r = ru -> au [] OTHER -> a1]
=============================================================================
