------------------------------ MODULE MCMfaLogin ------------------------------
(***************************************************************************)
(* MfaLogin for TLC: the requests may be exchanged.                        *)
(***************************************************************************)
EXTENDS MfaLogin, TLC

Symmetry == Permutations(Requests)
=============================================================================
