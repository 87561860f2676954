--------------------------- MODULE MCAccountStore ---------------------------
(* Small instances of AccountStore: a gateway with two threads beside a     *)
(* command-line process with one, and a gateway on its own.                 *)
EXTENDS AccountStore

CONSTANTS gateway, cli, g1, g2, c1

TwoProcs   == {gateway, cli}
AllThreads == {g1, g2, c1}
Owners     == [t \in AllThreads |-> IF t = c1 THEN cli ELSE gateway]

OneProc       == {gateway}
GatewayOwners == [t \in {g1, g2} |-> gateway]

\* Once a live lock was removed the conditional properties say nothing more.
LockRespected == ~stolen
=============================================================================
