---------------------------- MODULE MCUserAccounts ----------------------------
(***************************************************************************)
(* UserAccounts for TLC: a first start on an empty directory, and a start  *)
(* with two administrators who have MFA.                                   *)
(***************************************************************************)
EXTENDS UserAccounts, TLC

MCFirstFiles ==
    {Nobody, [u \in {1, 2} |-> [admin |-> TRUE, active |-> TRUE, mfa |-> TRUE]]}

Symmetry == Permutations(Requests)
=============================================================================
