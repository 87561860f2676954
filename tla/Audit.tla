---------------------------------- MODULE Audit ----------------------------------
(***************************************************************************)
(* The audit log (observ/audit.rs): request tasks queue records, a thread  *)
(* of its own writes them, and closing the log waits for that thread.      *)
(* Old records are pruned through another connection (server/mod.rs).      *)
(***************************************************************************)
EXTENDS Naturals, Sequences, FiniteSets

CONSTANTS
    MaxRecords       \* bound: records queued

ASSUME AuditAssumption == MaxRecords \in Nat

VARIABLES
    recorded,        \* records queued so far: they are numbered from 1
    queue,           \* the channel
    sender,          \* AuditLog::sender: is the channel open
    thread,          \* the writer: waits, writes a record, or is gone
    table,           \* the rows inserted, in the order of their ids
    lost,            \* history: the records whose insert failed
    pruned,          \* the records whose row has been deleted since
    closing          \* Drop: not begun, joining the writer, done

auditVars == <<recorded, queue, sender, thread, table, lost, pruned, closing>>

Listening == [state |-> "waiting", record |-> 0]

AuditInit ==
    /\ recorded = 0 /\ queue = <<>> /\ sender = TRUE /\ thread = Listening
    /\ table = <<>> /\ lost = {} /\ pruned = {} /\ closing = "no"

\* AuditLog::record: the channel is unbounded, so nobody waits.
Record ==
    /\ recorded < MaxRecords /\ closing = "no"
    /\ recorded' = recorded + 1
    /\ queue' = Append(queue, recorded + 1)
    /\ UNCHANGED <<sender, thread, table, lost, pruned, closing>>

\* recv returns a record while there is one, even of a closed channel.
Receive ==
    /\ thread.state = "waiting" /\ queue # <<>>
    /\ thread' = [state |-> "writing", record |-> Head(queue)]
    /\ queue' = Tail(queue)
    /\ UNCHANGED <<recorded, sender, table, lost, pruned, closing>>

\* recv fails once the channel is closed and empty.
WriterEnds ==
    /\ thread.state = "waiting" /\ queue = <<>> /\ ~sender
    /\ thread' = [state |-> "gone", record |-> 0]
    /\ UNCHANGED <<recorded, queue, sender, table, lost, pruned, closing>>

\* insert succeeds, or fails for good: the database is busy, full or broken.
InsertRecord ==
    /\ thread.state = "writing"
    /\ \/ table' = Append(table, thread.record) /\ UNCHANGED lost
       \/ lost' = lost \cup {thread.record} /\ UNCHANGED table
    /\ thread' = Listening
    /\ UNCHANGED <<recorded, queue, sender, pruned, closing>>

Inserted == {table[i] : i \in DOMAIN table}

\* AuditLog::prune by the retention task deletes what is stamped before a cutoff.
\* A record is stamped when its request begins, by a clock that may be set back,
\* and queued when the request ends: any of the rows may be the old ones.
PruneTable ==
    /\ \E old \in SUBSET (Inserted \ pruned) : old # {} /\ pruned' = pruned \cup old
    /\ UNCHANGED <<recorded, queue, sender, thread, table, lost, closing>>

\* Mutant of Close: the writer is joined before the channel is closed.
CloseJoinFirst ==
    /\ closing = "no"
    /\ closing' = "joining"
    /\ UNCHANGED <<recorded, queue, sender, thread, table, lost, pruned>>

\* Drop closes the channel first.
Close ==
    /\ closing = "no"
    /\ closing' = "joining" /\ sender' = FALSE
    /\ UNCHANGED <<recorded, queue, thread, table, lost, pruned>>

Join ==
    /\ closing = "joining" /\ thread.state = "gone"
    /\ closing' = "done"
    /\ UNCHANGED <<recorded, queue, sender, thread, table, lost, pruned>>

AuditNext == Record \/ Receive \/ WriterEnds \/ InsertRecord \/ PruneTable \/ Close \/ Join

AuditSpec == AuditInit /\ [][AuditNext]_auditVars

\* The writer and the join are threads the system schedules.
AuditSteps == Receive \/ WriterEnds \/ InsertRecord \/ Join

-----------------------------------------------------------------------------
(* Properties *)

\* Every record was written, unless its own insert failed.
Drained == Inserted \cup lost = 1 .. recorded

\* Closing the log ends, although the writer waits for records and closing waits
\* for the writer, and by then every record queued before has had its insert.
ClosingDrains == (closing = "joining") ~> (closing = "done" /\ Drained)
=============================================================================
