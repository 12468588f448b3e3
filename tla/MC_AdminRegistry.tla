-------------------------- MODULE MC_AdminRegistry --------------------------
(* Two setup calls without any fault.  With the faults AdminRegistry is    *)
(* part of MC_OperatorAPI.                                                 *)
EXTENDS AdminRegistry
=============================================================================
