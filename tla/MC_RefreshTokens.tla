-------------------------- MODULE MC_RefreshTokens --------------------------
(* Instances of RefreshTokens; calls are interchangeable, and so are users.*)
EXTENDS RefreshTokens, TLC

Symmetry == Permutations(Calls) \cup Permutations(Users)
=============================================================================
