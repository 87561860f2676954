--------------------------- MODULE MCVerification ---------------------------
(* Small instances of Verification: the monitor and one operator's check,   *)
(* with requests on the same account.                                      *)
EXTENDS Verification, TLC

CONSTANTS monitor, admin, r1, r2, k1, k2

\* Credentials are compared for equality only.
CredSymmetry == Permutations(Creds)
=============================================================================
