-------------------------- MODULE MCComplianceStore --------------------------
(* ComplianceStore for TLC: the accounts are interchangeable.              *)
EXTENDS ComplianceStore, TLC

AccountSymmetry == Permutations(Accounts)
=============================================================================
