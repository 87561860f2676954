----------------------------- MODULE AtomicStore -----------------------------
(***************************************************************************)
(* What the account store promises its callers: the pool is one durable    *)
(* value.  A change is applied to it in one step, nothing that was applied *)
(* is ever taken back, and a caller is told of success only for a change   *)
(* the pool holds.  AccountStore is shown to implement this as long as no  *)
(* process removes the lock file of a live one.                            *)
(***************************************************************************)
CONSTANT Updates

VARIABLES contents, acked

vars == <<contents, acked>>

Init == contents = {} /\ acked = {}

\* The pool takes in one more change.
Commit(u) ==
    /\ u \notin contents
    /\ contents' = contents \cup {u}
    /\ UNCHANGED acked

\* The caller learns that its change is in the pool.
Ack(u) ==
    /\ u \in contents
    /\ acked' = acked \cup {u}
    /\ UNCHANGED contents

Next == \E u \in Updates : Commit(u) \/ Ack(u)

Spec == Init /\ [][Next]_vars
=============================================================================
