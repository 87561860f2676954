----------------------------- MODULE AccountStore -----------------------------
(***************************************************************************)
(* The account pool on disk (accounts/store.rs): AccountStore::mutate and  *)
(* reload, run by threads of several processes against one directory.      *)
(*                                                                         *)
(* The pool's content is abstracted to the set of changes it reflects: a   *)
(* closure passed to mutate either adds the caller's next change or leaves *)
(* the pool alone.  The steps of a mutate are the system calls that other  *)
(* processes can observe: create_new of the lock file, the metadata call   *)
(* of is_stale, remove_file, the load, the creation, the writing and the   *)
(* rename of the temp file, and the removal of the lock file on drop.      *)
(***************************************************************************)
EXTENDS Integers, FiniteSets

CONSTANTS
    Procs,         \* processes with the store open
    Threads,       \* threads that call mutate
    ProcOf,        \* the process a thread belongs to
    NoThread,      \* "nobody"
    MaxMutations,  \* bound: changes each thread makes
    LockTimeout,   \* LOCK_TIMEOUT, in ticks
    StaleAfter     \* LOCK_STALE_AFTER, in ticks

ASSUME StoreAssumption ==
    /\ ProcOf \in [Threads -> Procs]
    /\ NoThread \notin Threads
    /\ MaxMutations \in Nat
    /\ LockTimeout \in Nat
    /\ StaleAfter \in Nat

Updates == Threads \X (1 .. MaxMutations)

\* A file as a reader finds it: absent, created or truncated but not yet
\* written, holding the first part of a serialised pool, holding the bytes of
\* two writers, or holding a whole pool.
Files == [kind : {"absent", "empty", "partial", "torn", "full"}, data : SUBSET Updates]

Absent     == [kind |-> "absent", data |-> {}]
Empty      == [kind |-> "empty", data |-> {}]
Torn       == [kind |-> "torn", data |-> {}]
Partial(S) == [kind |-> "partial", data |-> S]
Full(S)    == [kind |-> "full", data |-> S]

\* AccountStore::load: a missing or an empty file is the default pool; what
\* does not parse is an error, never an empty pool.
Loads(f) == f.kind \in {"absent", "empty", "full"}

VARIABLES
    up,       \* is the process running
    mutex,    \* the thread inside AccountStore.inner of a process
    memory,   \* the pool in AccountStore.inner
    pc,       \* where a thread's mutate stands
    waited,   \* ticks since the thread's acquire began, up to its deadline
    fresh,    \* the pool the thread loaded and changed
    made,     \* changes the thread has made so far
    result,   \* will the thread's mutate return Ok with a change written
    handle,   \* the name its open temp file handle goes by now
    lock,     \* the lock file: who created it (NoThread: no file) and its age
    tmp,      \* accounts.json.tmp
    disk,     \* accounts.json
    acked,    \* history: changes whose mutate returned Ok
    stolen    \* history: some thread removed the lock file of a live holder

local == <<waited, fresh, made, result, handle>>
files == <<lock, tmp, disk>>
vars  == <<up, mutex, memory, pc, local, files, acked, stolen>>

Unlocked == [owner |-> NoThread, age |-> 0]

\* Positions between FileLock::acquire returning and the lock being dropped.
Holding == {"load", "temp", "write", "finish", "rename", "drop"}

Waiting == {"create", "check", "remove"}

Holds(t) == pc[t] \in Holding

Live(t) == lock.owner = t /\ t \in Threads /\ Holds(t)

TypeOK ==
    /\ up \in [Procs -> BOOLEAN]
    /\ mutex \in [Procs -> Threads \cup {NoThread}]
    /\ memory \in [Procs -> SUBSET Updates]
    /\ pc \in [Threads -> {"idle"} \cup Waiting \cup Holding]
    /\ waited \in [Threads -> 0 .. LockTimeout]
    /\ fresh \in [Threads -> SUBSET Updates]
    /\ made \in [Threads -> 0 .. MaxMutations]
    /\ result \in [Threads -> BOOLEAN]
    /\ handle \in [Threads -> {"none", "tmp", "disk", "gone"}]
    /\ lock \in [owner : Threads \cup {NoThread}, age : 0 .. StaleAfter + 1]
    /\ tmp \in Files
    /\ disk \in Files
    /\ acked \in SUBSET Updates
    /\ stolen \in BOOLEAN

Init ==
    /\ up = [p \in Procs |-> TRUE]
    /\ mutex = [p \in Procs |-> NoThread]
    /\ memory = [p \in Procs |-> {}]
    /\ pc = [t \in Threads |-> "idle"]
    /\ waited = [t \in Threads |-> 0]
    /\ fresh = [t \in Threads |-> {}]
    /\ made = [t \in Threads |-> 0]
    /\ result = [t \in Threads |-> FALSE]
    /\ handle = [t \in Threads |-> "none"]
    /\ lock = Unlocked
    /\ tmp = Absent
    /\ disk = Absent
    /\ acked = {}
    /\ stolen = FALSE

-----------------------------------------------------------------------------
(* FileLock::acquire *)

Goto(t, to) == pc' = [pc EXCEPT ![t] = to]

\* Fault: the in-process mutex is not taken.
BeginWithoutMutex(t) ==
    /\ up[ProcOf[t]]
    /\ pc[t] = "idle"
    /\ waited' = [waited EXCEPT ![t] = 0]
    /\ Goto(t, "create")
    /\ UNCHANGED <<up, mutex, memory, fresh, made, result, handle, files, acked, stolen>>

\* mutate takes the in-process mutex, then starts acquiring the lock file.
Begin(t) ==
    /\ up[ProcOf[t]]
    /\ pc[t] = "idle"
    /\ mutex[ProcOf[t]] = NoThread
    /\ mutex' = [mutex EXCEPT ![ProcOf[t]] = t]
    /\ waited' = [waited EXCEPT ![t] = 0]
    /\ Goto(t, "create")
    /\ UNCHANGED <<up, memory, fresh, made, result, handle, files, acked, stolen>>

\* Fault: the lock file is opened with create instead of create_new.
CreateLockNotNew(t) ==
    /\ pc[t] = "create"
    /\ lock' = [owner |-> t, age |-> 0]
    /\ Goto(t, "load")
    /\ UNCHANGED <<up, mutex, memory, local, tmp, disk, acked, stolen>>

\* open(create_new): either the file is ours or it already exists.
CreateLock(t) ==
    /\ pc[t] = "create"
    /\ IF lock = Unlocked
       THEN lock' = [owner |-> t, age |-> 0] /\ Goto(t, "load")
       ELSE UNCHANGED lock /\ Goto(t, "check")
    /\ UNCHANGED <<up, mutex, memory, local, tmp, disk, acked, stolen>>

\* is_stale: too old, or gone by the time its metadata is asked for.
IsStale == lock = Unlocked \/ lock.age > StaleAfter

\* Fault: a stale lock file is found but not removed.
CheckLockKeepsStale(t) ==
    /\ pc[t] = "check"
    /\ IsStale \/ waited[t] < LockTimeout
    /\ Goto(t, "create")
    /\ UNCHANGED <<up, mutex, memory, local, files, acked, stolen>>

\* An existing lock file: a stale one is to be removed, a live one waited for.
CheckLock(t) ==
    /\ pc[t] = "check"
    /\ \/ IsStale /\ Goto(t, "remove")
       \/ ~IsStale /\ waited[t] < LockTimeout /\ Goto(t, "create")
    /\ UNCHANGED <<up, mutex, memory, local, files, acked, stolen>>

\* mutate returns an error without the lock: create_new failed for another
\* reason, or the deadline has passed over a live lock (LockTimeout).
GiveUp(t) ==
    /\ \/ pc[t] = "create"
       \/ pc[t] = "check" /\ ~IsStale /\ waited[t] = LockTimeout
    /\ mutex' = [mutex EXCEPT ![ProcOf[t]] = NoThread]
    /\ Goto(t, "idle")
    /\ UNCHANGED <<up, memory, local, files, acked, stolen>>

\* remove_file takes whatever lock file is there by now, and its result is
\* ignored.  Both callers (the stale path and Drop) remove by name.
RemoveLockFile(t) ==
    /\ lock' = Unlocked
    /\ stolen' = (stolen \/ \E u \in Threads \ {t} : Live(u))

RemoveStale(t) ==
    /\ pc[t] = "remove"
    /\ RemoveLockFile(t)
    /\ Goto(t, "create")
    /\ UNCHANGED <<up, mutex, memory, local, tmp, disk, acked>>

-----------------------------------------------------------------------------
(* The body of mutate, under the lock *)

\* Fault: the closure runs on the pool in memory, which is not reloaded.
LoadAndChangeFromMemory(t) ==
    /\ pc[t] = "load"
    /\ made[t] < MaxMutations
    /\ made' = [made EXCEPT ![t] = @ + 1]
    /\ fresh' = [fresh EXCEPT ![t] = memory[ProcOf[t]] \cup {<<t, made[t] + 1>>}]
    /\ Goto(t, "temp")
    /\ UNCHANGED <<up, mutex, memory, waited, result, handle, files, acked, stolen>>

\* Load the file and run the closure.  A closure that reports no change ends
\* the mutate without a write; a file that does not parse ends it with an error.
LoadAndChange(t) ==
    /\ pc[t] = "load"
    /\ \/ /\ ~Loads(disk)
          /\ Goto(t, "drop")
          /\ UNCHANGED <<memory, fresh, made>>
       \/ /\ Loads(disk)
          /\ memory' = [memory EXCEPT ![ProcOf[t]] = disk.data]
          /\ Goto(t, "drop")
          /\ UNCHANGED <<fresh, made>>
       \/ /\ Loads(disk)
          /\ made[t] < MaxMutations
          /\ made' = [made EXCEPT ![t] = @ + 1]
          /\ fresh' = [fresh EXCEPT ![t] = disk.data \cup {<<t, made[t] + 1>>}]
          /\ Goto(t, "temp")
          /\ UNCHANGED memory
    /\ UNCHANGED <<up, mutex, waited, result, handle, files, acked, stolen>>

\* Fault: the pool is written in place.
CreateTempInPlace(t) ==
    /\ pc[t] = "temp"
    /\ disk' = Empty
    /\ handle' = [handle EXCEPT ![t] = "disk"]
    /\ Goto(t, "write")
    /\ UNCHANGED <<up, mutex, memory, waited, fresh, made, result, lock, tmp, acked, stolen>>

\* File::create truncates whatever is at the shared temp path.
CreateTemp(t) ==
    /\ pc[t] = "temp"
    /\ tmp' = Empty
    /\ handle' = [handle EXCEPT ![t] = "tmp"]
    /\ Goto(t, "write")
    /\ UNCHANGED <<up, mutex, memory, waited, fresh, made, result, lock, disk, acked, stolen>>

\* The handle follows its inode: the name it has now decides which file the
\* bytes land in.
WriteInto(t, f) ==
    /\ tmp' = IF handle[t] = "tmp" THEN f ELSE tmp
    /\ disk' = IF handle[t] = "disk" THEN f ELSE disk

Target(t) == IF handle[t] = "disk" THEN disk ELSE tmp

\* write_all is not atomic: part of the pool is in the file first.
WriteSome(t) ==
    /\ pc[t] = "write"
    /\ WriteInto(t, IF Target(t) = Empty THEN Partial(fresh[t]) ELSE Torn)
    /\ Goto(t, "finish")
    /\ UNCHANGED <<up, mutex, memory, local, lock, acked, stolen>>

\* The rest is written and synced and the handle closed.  Over another
\* writer's bytes the outcome depends on the lengths.
WriteRest(t) ==
    /\ pc[t] = "finish"
    /\ \E f \in {Full(fresh[t])} \cup (IF Target(t) = Partial(fresh[t]) THEN {} ELSE {Torn}) :
          WriteInto(t, f)
    /\ handle' = [handle EXCEPT ![t] = "none"]
    /\ Goto(t, "rename")
    /\ UNCHANGED <<up, mutex, memory, waited, fresh, made, result, lock, acked, stolen>>

\* Fault: the in-memory pool is not replaced after the write.
RenameKeepsMemory(t) ==
    /\ pc[t] = "rename"
    /\ tmp # Absent
    /\ disk' = tmp
    /\ tmp' = Absent
    /\ handle' = [u \in Threads |-> IF handle[u] = "tmp" THEN "disk" ELSE handle[u]]
    /\ result' = [result EXCEPT ![t] = TRUE]
    /\ Goto(t, "drop")
    /\ UNCHANGED <<up, mutex, memory, waited, fresh, made, lock, acked, stolen>>

\* The temp file becomes accounts.json; handles still open on either name now
\* refer to the new accounts.json, or to a file with no name.
Rename(t) ==
    /\ pc[t] = "rename"
    /\ tmp # Absent
    /\ disk' = tmp
    /\ tmp' = Absent
    /\ handle' = [u \in Threads |-> CASE handle[u] = "tmp" -> "disk"
                                      [] handle[u] = "disk" -> "gone"
                                      [] OTHER -> handle[u]]
    /\ memory' = [memory EXCEPT ![ProcOf[t]] = fresh[t]]
    /\ result' = [result EXCEPT ![t] = TRUE]
    /\ Goto(t, "drop")
    /\ UNCHANGED <<up, mutex, waited, fresh, made, lock, acked, stolen>>

\* StoreError::Write at any of the file operations: the rest is skipped, the
\* temp file stays as it is and the in-memory pool keeps its old value.
WriteFails(t) ==
    /\ pc[t] \in {"temp", "write", "finish", "rename"}
    /\ handle' = [handle EXCEPT ![t] = "none"]
    /\ Goto(t, "drop")
    /\ UNCHANGED <<up, mutex, memory, waited, fresh, made, result, files, acked, stolen>>

\* Fault: the error of a failed write is swallowed.
DropLockSwallowsError(t) ==
    /\ pc[t] = "drop"
    /\ RemoveLockFile(t)
    /\ mutex' = [mutex EXCEPT ![ProcOf[t]] = NoThread]
    /\ acked' = IF fresh[t] # {} THEN acked \cup {<<t, made[t]>>} ELSE acked
    /\ result' = [result EXCEPT ![t] = FALSE]
    /\ fresh' = [fresh EXCEPT ![t] = {}]
    /\ Goto(t, "idle")
    /\ UNCHANGED <<up, memory, waited, made, handle, tmp, disk>>

\* Drop for FileLock removes the lock file, the mutex guard goes, and mutate
\* returns.
DropLock(t) ==
    /\ pc[t] = "drop"
    /\ RemoveLockFile(t)
    /\ mutex' = [mutex EXCEPT ![ProcOf[t]] = NoThread]
    /\ acked' = IF result[t] THEN acked \cup {<<t, made[t]>>} ELSE acked
    /\ result' = [result EXCEPT ![t] = FALSE]
    /\ fresh' = [fresh EXCEPT ![t] = {}]
    /\ Goto(t, "idle")
    /\ UNCHANGED <<up, memory, waited, made, handle, tmp, disk>>

-----------------------------------------------------------------------------
(* The other operations, time and crashes *)

\* reload reads the file under the mutex, without the lock file; on an error
\* the in-memory pool stays.
Reload(p) ==
    /\ up[p]
    /\ mutex[p] = NoThread
    /\ Loads(disk)
    /\ memory' = [memory EXCEPT ![p] = disk.data]
    /\ UNCHANGED <<up, mutex, pc, local, files, acked, stolen>>

\* The process dies between any two system calls.  Its files stay behind.
Crash(p) ==
    /\ up[p]
    /\ up' = [up EXCEPT ![p] = FALSE]
    /\ mutex' = [mutex EXCEPT ![p] = NoThread]
    /\ memory' = [memory EXCEPT ![p] = {}]
    /\ pc' = [t \in Threads |-> IF ProcOf[t] = p THEN "idle" ELSE pc[t]]
    /\ fresh' = [t \in Threads |-> IF ProcOf[t] = p THEN {} ELSE fresh[t]]
    /\ result' = [t \in Threads |-> IF ProcOf[t] = p THEN FALSE ELSE result[t]]
    /\ handle' = [t \in Threads |-> IF ProcOf[t] = p THEN "none" ELSE handle[t]]
    /\ UNCHANGED <<waited, made, files, acked, stolen>>

\* AccountStore::load at start-up fails on a file that does not parse.
Restart(p) ==
    /\ ~up[p]
    /\ Loads(disk)
    /\ up' = [up EXCEPT ![p] = TRUE]
    /\ memory' = [memory EXCEPT ![p] = disk.data]
    /\ UNCHANGED <<mutex, pc, local, files, acked, stolen>>

\* Fault: waiting goes on past the deadline.
TickPastDeadline ==
    /\ lock' = IF lock # Unlocked /\ lock.age <= StaleAfter
               THEN [lock EXCEPT !.age = @ + 1] ELSE lock
    /\ waited' = [t \in Threads |-> IF pc[t] \in Waiting THEN waited[t] + 1 ELSE waited[t]]
    /\ UNCHANGED <<up, mutex, memory, pc, fresh, made, result, handle, tmp, disk, acked, stolen>>

\* Time passes for the lock file's age and for every waiting thread's
\* deadline; both are kept only up to the value the code compares them with.
Tick ==
    /\ lock' = IF lock # Unlocked /\ lock.age <= StaleAfter
               THEN [lock EXCEPT !.age = @ + 1] ELSE lock
    /\ waited' = [t \in Threads |-> IF pc[t] \in Waiting /\ waited[t] < LockTimeout
                                    THEN waited[t] + 1 ELSE waited[t]]
    /\ UNCHANGED <<up, mutex, memory, pc, fresh, made, result, handle, tmp, disk, acked, stolen>>

Mutate(t) ==
    \/ CreateLock(t) \/ CheckLock(t) \/ GiveUp(t) \/ RemoveStale(t)
    \/ LoadAndChange(t) \/ CreateTemp(t) \/ WriteSome(t) \/ WriteRest(t)
    \/ Rename(t) \/ WriteFails(t) \/ DropLock(t)

Next ==
    \/ \E t \in Threads : Begin(t) \/ Mutate(t)
    \/ \E p \in Procs : Reload(p) \/ Crash(p) \/ Restart(p)
    \/ Tick

Spec == Init /\ [][Next]_vars

\* A running thread keeps running and time passes; nobody has to call mutate,
\* and nobody has to crash or restart.
FairSpec ==
    /\ Spec
    /\ \A t \in Threads : WF_vars(Mutate(t))
    /\ WF_vars(Tick)

-----------------------------------------------------------------------------
(* Properties.  stolen marks the behaviours in which the lock failed. *)

\* While no live lock file was removed, one thread is inside the transaction
\* and the lock file on disk is its own (FileLock).
MutualExclusion ==
    ~stolen => \A t \in Threads :
        Holds(t) => /\ lock.owner = t
                    /\ \A u \in Threads : Holds(u) => u = t

\* "No lost updates": a change whose mutate returned Ok is on disk, whoever
\* wrote after it (mutate reloads under the lock before it changes).
NoLostUpdates == ~stolen => acked \subseteq disk.data

\* "No torn writes": accounts.json is never a file that a crash, a failed
\* write or a reader in between could find half written.
NoTornWrites == ~stolen => disk.kind \in {"absent", "full"}

\* A process that is up sees every change its own threads were told succeeded.
ReadYourWrites ==
    ~stolen => \A u \in acked : up[ProcOf[u[1]]] => u \in memory[ProcOf[u[1]]]

\* The pool on disk behaves as AtomicStore: every step commits or acknowledges
\* one change, or leaves the pool alone.
Abstract == INSTANCE AtomicStore WITH contents <- disk.data
ImplementsAtomicStore ==
    [][~stolen' => Abstract!Next \/ UNCHANGED Abstract!vars]_vars

\* The same promise without the proviso, as store.rs:11-14 words it.
NoLostUpdatesEver == acked \subseteq disk.data

\* One process alone never removes the lock file of a live holder: the mutex
\* keeps its other threads out of FileLock::acquire.
NeverStolen == ~stolen

\* "a killed process cannot wedge the pool forever": every mutate returns,
\* also over a lock file left by a crash, by taking it over or by LockTimeout.
MutateReturns == \A t \in Threads : pc[t] = "create" ~> pc[t] = "idle"
=============================================================================
