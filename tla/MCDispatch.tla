------------------------------ MODULE MCDispatch ------------------------------
(* Small instances of Dispatch. *)
EXTENDS Dispatch, TLC

CONSTANTS a1, a2, a3, r1, r2

\* Accounts and requests are only compared for equality.
Alike == Permutations(Accounts) \cup Permutations(Requests)
=============================================================================
