-------------------------- MODULE MC_PayoutSpacing --------------------------
(* Requests r1 and r2 for admin a1, whose interval is overridden, and rb   *)
(* for a2, which has the default.                                          *)
EXTENDS PayoutSpacing, TLC

CONSTANTS rb, a1, a2

MC_AdminOf       == [r \in Requests |-> IF r = rb THEN a2 ELSE a1]
MC_AdminInterval == a1 :> 2
MC_MinInterval   == -1
=============================================================================
