-------------------------- MODULE AccountStore_proofs --------------------------
(***************************************************************************)
(* Proofs about AccountStore, for any number of processes and threads and  *)
(* any timing of the lock.                                                 *)
(***************************************************************************)
EXTENDS AccountStore, TLAPS

-----------------------------------------------------------------------------
(* Type correctness *)

LEMMA FilesAreFiles ==
    /\ Absent \in Files /\ Empty \in Files /\ Torn \in Files
    /\ \A S \in SUBSET Updates : Partial(S) \in Files /\ Full(S) \in Files
    /\ \A f \in Files : f.data \in SUBSET Updates
BY DEF Files, Absent, Empty, Torn, Partial, Full

\* What makes TypeOK inductive: a thread with a change to write has made one.
HasMade(t) == pc[t] \in {"temp", "write", "finish", "rename"} \/ result[t] => made[t] > 0

TypeInv == TypeOK /\ \A t \in Threads : HasMade(t)

LEMMA InitTypeInv == Init => TypeInv
<1> SUFFICES ASSUME Init PROVE TypeInv OBVIOUS
<1>1. lock \in [owner : Threads \cup {NoThread}, age : 0 .. StaleAfter + 1]
  BY StoreAssumption DEF Init, Unlocked
<1>2. tmp \in Files /\ disk \in Files
  BY FilesAreFiles DEF Init
<1>3. waited \in [Threads -> 0 .. LockTimeout] /\ made \in [Threads -> 0 .. MaxMutations]
  BY StoreAssumption DEF Init
<1>4. /\ up \in [Procs -> BOOLEAN]
      /\ mutex \in [Procs -> Threads \cup {NoThread}]
      /\ memory \in [Procs -> SUBSET Updates]
      /\ pc \in [Threads -> {"idle"} \cup Waiting \cup Holding]
      /\ fresh \in [Threads -> SUBSET Updates]
      /\ result \in [Threads -> BOOLEAN]
      /\ handle \in [Threads -> {"none", "tmp", "disk", "gone"}]
      /\ acked \in SUBSET Updates
      /\ stolen \in BOOLEAN
  BY DEF Init
<1>5. \A t \in Threads : HasMade(t)
  BY DEF Init, HasMade
<1> QED BY <1>1, <1>2, <1>3, <1>4, <1>5 DEF TypeOK, TypeInv

\* A lock file that is there again, gone or one tick older is a lock file.
LEMMA LockType ==
    ASSUME TypeOK
    PROVE  LET Locks == [owner : Threads \cup {NoThread}, age : 0 .. StaleAfter + 1]
           IN /\ Unlocked \in Locks
              /\ \A t \in Threads : [owner |-> t, age |-> 0] \in Locks
              /\ lock.age <= StaleAfter => [lock EXCEPT !.age = @ + 1] \in Locks
BY StoreAssumption DEF TypeOK, Unlocked

LEMMA NextTypeInv == TypeInv /\ [Next]_vars => TypeInv'
<1> SUFFICES ASSUME TypeInv, [Next]_vars PROVE TypeInv' OBVIOUS
<1>0. TypeOK /\ \A t \in Threads : HasMade(t)
  BY DEF TypeInv
<1> USE <1>0, StoreAssumption, FilesAreFiles, LockType
    DEF TypeInv, TypeOK, HasMade, Holding, Waiting, local, files, Goto
<1>1. ASSUME NEW t \in Threads, Begin(t) PROVE TypeInv'
  BY <1>1 DEF Begin
<1>2. ASSUME NEW t \in Threads, CreateLock(t) PROVE TypeInv'
  BY <1>2 DEF CreateLock
<1>3. ASSUME NEW t \in Threads, CheckLock(t) PROVE TypeInv'
  BY <1>3 DEF CheckLock
<1>4. ASSUME NEW t \in Threads, GiveUp(t) PROVE TypeInv'
  BY <1>4 DEF GiveUp
<1>5. ASSUME NEW t \in Threads, RemoveStale(t) PROVE TypeInv'
  BY <1>5 DEF RemoveStale, RemoveLockFile
<1>6. ASSUME NEW t \in Threads, LoadAndChange(t) PROVE TypeInv'
  <2>1. CASE UNCHANGED <<fresh, made>> /\ Goto(t, "drop")
    BY <1>6, <2>1 DEF LoadAndChange
  <2>2. CASE /\ made[t] < MaxMutations
             /\ made' = [made EXCEPT ![t] = @ + 1]
             /\ fresh' = [fresh EXCEPT ![t] = disk.data \cup {<<t, made[t] + 1>>}]
             /\ Goto(t, "temp")
             /\ UNCHANGED memory
    <3>1. made[t] + 1 \in 1 .. MaxMutations
      BY <2>2
    <3>2. <<t, made[t] + 1>> \in Updates
      BY <3>1 DEF Updates
    <3>3. disk.data \cup {<<t, made[t] + 1>>} \in SUBSET Updates
      BY <3>2
    <3> QED BY <1>6, <2>2, <3>1, <3>3 DEF LoadAndChange
  <2> QED BY <1>6, <2>1, <2>2 DEF LoadAndChange
<1>7. ASSUME NEW t \in Threads, CreateTemp(t) PROVE TypeInv'
  BY <1>7 DEF CreateTemp
<1>8. ASSUME NEW t \in Threads, WriteSome(t) PROVE TypeInv'
  BY <1>8 DEF WriteSome, WriteInto
<1>9. ASSUME NEW t \in Threads, WriteRest(t) PROVE TypeInv'
  BY <1>9 DEF WriteRest, WriteInto
<1>10. ASSUME NEW t \in Threads, Rename(t) PROVE TypeInv'
  BY <1>10 DEF Rename
<1>11. ASSUME NEW t \in Threads, WriteFails(t) PROVE TypeInv'
  BY <1>11 DEF WriteFails
<1>12. ASSUME NEW t \in Threads, DropLock(t) PROVE TypeInv'
  <2>1. result[t] => <<t, made[t]>> \in Updates
    BY DEF Updates
  <2> QED BY <1>12, <2>1 DEF DropLock, RemoveLockFile
<1>13. ASSUME NEW p \in Procs, Reload(p) PROVE TypeInv'
  BY <1>13 DEF Reload
<1>14. ASSUME NEW p \in Procs, Crash(p) PROVE TypeInv'
  BY <1>14 DEF Crash
<1>15. ASSUME NEW p \in Procs, Restart(p) PROVE TypeInv'
  BY <1>15 DEF Restart
<1>16. CASE Tick
  BY <1>16 DEF Tick
<1>17. CASE UNCHANGED vars
  BY <1>17 DEF vars
<1> QED BY <1>1, <1>2, <1>3, <1>4, <1>5, <1>6, <1>7, <1>8, <1>9, <1>10, <1>11, <1>12,
           <1>13, <1>14, <1>15, <1>16, <1>17 DEF Next, Mutate

\* Every variable of the store keeps its type, in every behaviour.
THEOREM TypeCorrect == Spec => []TypeOK
<1>1. Init => TypeInv
  BY InitTypeInv
<1>2. TypeInv /\ [Next]_vars => TypeInv'
  BY NextTypeInv
<1>3. TypeInv => TypeOK
  BY DEF TypeInv
<1> QED BY <1>1, <1>2, <1>3, PTL DEF Spec

-----------------------------------------------------------------------------
(* What holds while every lock file is respected *)

\* The lock file belongs to whoever is inside the transaction.
OwnsLock(t) == Holds(t) => lock.owner = t

\* The temp file goes through the states its writer left it in, under the
\* temp name.
OwnsTemp(t) ==
    /\ handle[t] = IF pc[t] \in {"write", "finish"} THEN "tmp" ELSE "none"
    /\ pc[t] = "write" => tmp = Empty
    /\ pc[t] = "finish" => tmp = Partial(fresh[t])
    /\ pc[t] = "rename" => tmp = Full(fresh[t])

\* What it is about to write is the pool on disk with its own change added.
IsUpToDate(t) ==
    pc[t] \in {"temp", "write", "finish", "rename"} =>
        fresh[t] = disk.data \cup {<<t, made[t]>>}

\* What it is about to report is on disk and in the memory of its process.
IsDurable(t) ==
    result[t] => /\ pc[t] = "drop"
                 /\ <<t, made[t]>> \in disk.data
                 /\ <<t, made[t]>> \in memory[ProcOf[t]]

StoreIsSound ==
    /\ disk.kind \in {"absent", "full"}
    /\ acked \subseteq disk.data
    /\ \A u \in acked : up[ProcOf[u[1]]] => u \in memory[ProcOf[u[1]]]

Locked ==
    /\ \A t \in Threads : OwnsLock(t) /\ OwnsTemp(t) /\ IsUpToDate(t) /\ IsDurable(t)
    /\ StoreIsSound

SafeInv == TypeInv /\ (~stolen => Locked)

\* A lock once stolen stays so.
LEMMA StolenStays == TypeInv /\ [Next]_vars /\ ~stolen' => ~stolen
<1> SUFFICES ASSUME TypeInv, [Next]_vars, ~stolen' PROVE ~stolen OBVIOUS
<1> USE DEF files, local
<1>1. ASSUME NEW t \in Threads, Begin(t) \/ Mutate(t) PROVE ~stolen
  BY <1>1 DEF Begin, Mutate, CreateLock, CheckLock, GiveUp, RemoveStale, RemoveLockFile,
     LoadAndChange, CreateTemp, WriteSome, WriteRest, Rename, WriteFails, DropLock
<1>2. ASSUME NEW p \in Procs, Reload(p) \/ Crash(p) \/ Restart(p) PROVE ~stolen
  BY <1>2 DEF Reload, Crash, Restart
<1>3. CASE Tick \/ UNCHANGED vars
  BY <1>3 DEF Tick, vars
<1> QED BY <1>1, <1>2, <1>3 DEF Next

\* Inside the transaction a thread is alone, so nobody else has the temp file.
LEMMA HolderIsAlone ==
    ASSUME Locked, NEW t \in Threads, Holds(t)
    PROVE  \A u \in Threads \ {t} : ~Holds(u) /\ handle[u] = "none" /\ ~result[u]
BY DEF Locked, OwnsLock, OwnsTemp, IsDurable, Holds, Holding

LEMMA InitSafe == Init => SafeInv
<1> SUFFICES ASSUME Init PROVE Locked
  BY InitTypeInv DEF SafeInv
<1> QED BY DEF Init, Locked, OwnsLock, OwnsTemp, IsUpToDate, IsDurable, StoreIsSound, Holds,
           Holding, Absent

LEMMA NextSafe == SafeInv /\ [Next]_vars => SafeInv'
<1> SUFFICES ASSUME SafeInv, [Next]_vars, ~stolen' PROVE Locked'
  BY NextTypeInv DEF SafeInv
<1>0. TypeOK /\ Locked /\ ~stolen
  BY StolenStays DEF SafeInv, TypeInv
<1> USE <1>0, HolderIsAlone, StoreAssumption
    DEF Locked, OwnsLock, OwnsTemp, IsUpToDate, IsDurable, StoreIsSound, Holds, Holding, Waiting,
        TypeOK, local, files, Goto
<1>1. ASSUME NEW t \in Threads, Begin(t) PROVE Locked'
  BY <1>1 DEF Begin
<1>2. ASSUME NEW t \in Threads, CreateLock(t) PROVE Locked'
  BY <1>2 DEF CreateLock, Unlocked
<1>3. ASSUME NEW t \in Threads, CheckLock(t) PROVE Locked'
  BY <1>3 DEF CheckLock
<1>4. ASSUME NEW t \in Threads, GiveUp(t) PROVE Locked'
  BY <1>4 DEF GiveUp
<1>5. ASSUME NEW t \in Threads, RemoveStale(t) PROVE Locked'
  BY <1>5 DEF RemoveStale, RemoveLockFile, Live, Unlocked
<1>6. ASSUME NEW t \in Threads, LoadAndChange(t) PROVE Locked'
  <2>1. pc[t] = "load" /\ Holds(t)
    BY <1>6 DEF LoadAndChange
  <2>2. /\ pc' \in {[pc EXCEPT ![t] = "drop"], [pc EXCEPT ![t] = "temp"]}
        /\ UNCHANGED <<up, result, handle, files, acked>>
    BY <1>6 DEF LoadAndChange
  <2>3. \A u \in Threads \ {t} :
           ~Holds(u) /\ pc'[u] = pc[u] /\ made'[u] = made[u] /\ fresh'[u] = fresh[u] /\ ~result[u]
    BY <1>6, <2>1 DEF LoadAndChange
  <2>4. \A u \in Threads : OwnsLock(u)' /\ OwnsTemp(u)'
    BY <2>1, <2>2, <2>3
  <2>5. IsUpToDate(t)' /\ ~result[t]
    <3>1. CASE pc' = [pc EXCEPT ![t] = "drop"]
      BY <2>1, <3>1
    <3>2. CASE pc' # [pc EXCEPT ![t] = "drop"]
      <4>1. /\ made' = [made EXCEPT ![t] = @ + 1]
            /\ fresh' = [fresh EXCEPT ![t] = disk.data \cup {<<t, made[t] + 1>>}]
        BY <1>6, <3>2 DEF LoadAndChange
      <4> QED BY <2>1, <2>2, <4>1
    <3> QED BY <3>1, <3>2
  <2>6. \A u \in Threads : IsUpToDate(u)' /\ IsDurable(u)'
    BY <2>1, <2>2, <2>3, <2>5
  <2>7. StoreIsSound'
    <3>1. memory' = memory \/ memory' = [memory EXCEPT ![ProcOf[t]] = disk.data]
      BY <1>6 DEF LoadAndChange
    <3>2. \A u \in acked : u \in disk.data /\ ProcOf[u[1]] \in Procs
      BY DEF Updates
    <3>3. \A u \in acked : up[ProcOf[u[1]]] => u \in memory'[ProcOf[u[1]]]
      BY <3>1, <3>2
    <3> QED BY <2>2, <3>3
  <2> QED BY <2>4, <2>6, <2>7
<1>7. ASSUME NEW t \in Threads, CreateTemp(t) PROVE Locked'
  BY <1>7 DEF CreateTemp
<1>8. ASSUME NEW t \in Threads, WriteSome(t) PROVE Locked'
  BY <1>8 DEF WriteSome, WriteInto, Target
<1>9. ASSUME NEW t \in Threads, WriteRest(t) PROVE Locked'
  BY <1>9 DEF WriteRest, WriteInto, Target
<1>10. ASSUME NEW t \in Threads, Rename(t) PROVE Locked'
  <2>1. pc[t] = "rename" /\ Holds(t) /\ handle[t] = "none"
    BY <1>10 DEF Rename
  <2>2. /\ disk' = Full(fresh[t])
        /\ pc' = [pc EXCEPT ![t] = "drop"]
        /\ memory' = [memory EXCEPT ![ProcOf[t]] = fresh[t]]
        /\ result' = [result EXCEPT ![t] = TRUE]
        /\ UNCHANGED <<up, made, fresh, lock, acked>>
    BY <1>10 DEF Rename
  <2>3. fresh[t] = disk.data \cup {<<t, made[t]>>} /\ disk'.data = fresh[t]
    BY <2>1, <2>2 DEF Full
  <2>4. \A u \in Threads \ {t} : ~Holds(u) /\ handle[u] = "none" /\ ~result[u] /\ pc'[u] = pc[u]
    BY <2>1, <2>2
  <2>5. \A u \in Threads : handle'[u] = "none"
    BY <1>10, <2>1, <2>4 DEF Rename
  <2>6. \A u \in Threads : OwnsLock(u)' /\ OwnsTemp(u)' /\ IsUpToDate(u)'
    <3>1. \A u \in Threads : pc'[u] \notin {"temp", "write", "finish", "rename"}
      BY <2>2, <2>4
    <3>2. lock'.owner = t /\ \A u \in Threads \ {t} : ~Holds(u)'
      BY <2>1, <2>2, <2>4
    <3>3. \A u \in Threads : OwnsLock(u)'
      BY <3>2
    <3>4. \A u \in Threads : OwnsTemp(u)' /\ IsUpToDate(u)'
      BY <2>5, <3>1
    <3> QED BY <3>3, <3>4
  <2>7. \A u \in Threads : IsDurable(u)'
    <3>1. IsDurable(t)'
      <4>1. pc'[t] = "drop" /\ made'[t] = made[t] /\ memory'[ProcOf[t]] = fresh[t]
        BY <2>2
      <4> QED BY <2>3, <4>1
    <3>2. ASSUME NEW u \in Threads \ {t} PROVE ~result'[u]
      BY <2>2, <2>4
    <3> QED BY <3>1, <3>2
  <2>8. StoreIsSound'
    <3>1. \A u \in acked : u \in fresh[t] /\ ProcOf[u[1]] \in Procs
      BY <2>3 DEF Updates
    <3>2. \A u \in acked : up[ProcOf[u[1]]] => u \in memory'[ProcOf[u[1]]]
      BY <2>2, <3>1
    <3> QED BY <2>2, <2>3, <3>1, <3>2 DEF Full
  <2> QED BY <2>6, <2>7, <2>8
<1>11. ASSUME NEW t \in Threads, WriteFails(t) PROVE Locked'
  BY <1>11 DEF WriteFails
<1>12. ASSUME NEW t \in Threads, DropLock(t) PROVE Locked'
  BY <1>12 DEF DropLock, RemoveLockFile, Live, Unlocked
<1>13. ASSUME NEW p \in Procs, Reload(p) PROVE Locked'
  BY <1>13 DEF Reload
<1>14. ASSUME NEW p \in Procs, Crash(p) PROVE Locked'
  BY <1>14 DEF Crash
<1>15. ASSUME NEW p \in Procs, Restart(p) PROVE Locked'
  BY <1>15 DEF Restart
<1>16. CASE Tick
  BY <1>16 DEF Tick
<1>17. CASE UNCHANGED vars
  BY <1>17 DEF vars
<1> QED BY <1>1, <1>2, <1>3, <1>4, <1>5, <1>6, <1>7, <1>8, <1>9, <1>10, <1>11, <1>12,
           <1>13, <1>14, <1>15, <1>16, <1>17 DEF Next, Mutate

\* As long as no live lock file was removed, one thread at a time is inside a
\* mutate, of all threads of all processes, and the lock file is its own.
THEOREM OneHolder == Spec => []MutualExclusion
<1>1. Init => SafeInv
  BY InitSafe
<1>2. SafeInv /\ [Next]_vars => SafeInv'
  BY NextSafe
<1>3. SafeInv => MutualExclusion
  BY DEF SafeInv, Locked, OwnsLock, MutualExclusion
<1> QED BY <1>1, <1>2, <1>3, PTL DEF Spec

LEMMA StoreInvariant == Spec => [](NoLostUpdates /\ NoTornWrites /\ ReadYourWrites)
<1>1. Init => SafeInv
  BY InitSafe
<1>2. SafeInv /\ [Next]_vars => SafeInv'
  BY NextSafe
<1>3. SafeInv => NoLostUpdates /\ NoTornWrites /\ ReadYourWrites
  BY DEF SafeInv, Locked, StoreIsSound, NoLostUpdates, NoTornWrites, ReadYourWrites
<1> QED BY <1>1, <1>2, <1>3, PTL DEF Spec

\* Then a change that mutate acknowledged stays on disk.
THEOREM Durability == Spec => []NoLostUpdates
BY StoreInvariant, PTL

\* Then accounts.json is whole after every step, also of a save cut by a crash.
THEOREM FileIsWhole == Spec => []NoTornWrites
BY StoreInvariant, PTL

\* Then a process that is up has in memory what its own threads were acknowledged.
THEOREM OwnChangesSeen == Spec => []ReadYourWrites
BY StoreInvariant, PTL

-----------------------------------------------------------------------------
(* The store implements AtomicStore *)

LEMMA StepImplements ==
    SafeInv /\ [Next]_vars => (~stolen' => Abstract!Next \/ UNCHANGED Abstract!vars)
<1> SUFFICES ASSUME SafeInv, [Next]_vars, ~stolen'
             PROVE  Abstract!Next \/ UNCHANGED Abstract!vars
  OBVIOUS
<1>0. TypeInv /\ Locked /\ ~stolen
  BY StolenStays DEF SafeInv
<1> USE DEF files, local, Abstract!vars
<1>1. ASSUME NEW t \in Threads,
             Begin(t) \/ CreateLock(t) \/ CheckLock(t) \/ GiveUp(t) \/ RemoveStale(t)
               \/ LoadAndChange(t) \/ CreateTemp(t) \/ WriteFails(t)
      PROVE  UNCHANGED Abstract!vars
  BY <1>1 DEF Begin, CreateLock, CheckLock, GiveUp, RemoveStale, LoadAndChange, CreateTemp, WriteFails
<1>2. ASSUME NEW t \in Threads, WriteSome(t) \/ WriteRest(t)
      PROVE  UNCHANGED Abstract!vars
  <2>1. handle[t] = "tmp"
    BY <1>0, <1>2 DEF Locked, OwnsTemp, WriteSome, WriteRest
  <2> QED BY <1>2, <2>1 DEF WriteSome, WriteRest, WriteInto
<1>3. ASSUME NEW t \in Threads, Rename(t)
      PROVE  Abstract!Next \/ UNCHANGED Abstract!vars
  <2> DEFINE u == <<t, made[t]>>
  <2>1. u \in Updates
    BY <1>0, <1>3 DEF TypeInv, TypeOK, HasMade, Rename, Updates
  <2>2. disk'.data = disk.data \cup {u} /\ UNCHANGED acked
    BY <1>0, <1>3 DEF Locked, OwnsTemp, IsUpToDate, Rename, Full
  <2>3. CASE u \in disk.data
    BY <2>2, <2>3
  <2>4. CASE u \notin disk.data
    BY <2>1, <2>2, <2>4 DEF Abstract!Next, Abstract!Commit
  <2> QED BY <2>3, <2>4
<1>4. ASSUME NEW t \in Threads, DropLock(t)
      PROVE  Abstract!Next \/ UNCHANGED Abstract!vars
  <2>1. CASE result[t]
    <3>1. <<t, made[t]>> \in Updates
      BY <1>0, <2>1 DEF TypeInv, TypeOK, HasMade, Updates
    <3>2. <<t, made[t]>> \in disk.data
      BY <1>0, <2>1 DEF Locked, IsDurable
    <3>3. acked' = acked \cup {<<t, made[t]>>} /\ UNCHANGED disk
      BY <1>4, <2>1 DEF DropLock
    <3> QED BY <3>1, <3>2, <3>3 DEF Abstract!Next, Abstract!Ack
  <2>2. CASE ~result[t]
    BY <1>4, <2>2 DEF DropLock
  <2> QED BY <2>1, <2>2
<1>5. ASSUME NEW p \in Procs, Reload(p) \/ Crash(p) \/ Restart(p)
      PROVE  UNCHANGED Abstract!vars
  BY <1>5 DEF Reload, Crash, Restart
<1>6. CASE Tick \/ UNCHANGED vars
  BY <1>6 DEF Tick, vars
<1> QED BY <1>1, <1>2, <1>3, <1>4, <1>5, <1>6 DEF Next, Mutate

\* The pool on disk is one atomic, durable value as long as no live lock file
\* was removed: every step of every process is a step of AtomicStore or none.
THEOREM Implementation == Spec => Abstract!Init /\ ImplementsAtomicStore
<1>1. Init => SafeInv /\ Abstract!Init
  BY InitSafe DEF Init, Absent, Abstract!Init
<1>2. SafeInv /\ [Next]_vars => SafeInv'
  BY NextSafe
<1>3. SafeInv /\ [Next]_vars => [~stolen' => Abstract!Next \/ UNCHANGED Abstract!vars]_vars
  BY StepImplements
<1> QED BY <1>1, <1>2, <1>3, PTL DEF Spec, ImplementsAtomicStore

-----------------------------------------------------------------------------
(* One process *)

\* The in-process mutex covers the whole of acquire, transaction and drop.
Serial == \A t \in Threads : pc[t] # "idle" => mutex[ProcOf[t]] = t

AloneInv == TypeInv /\ Serial /\ ~stolen

LEMMA NextAlone ==
    ASSUME \A p, q \in Procs : p = q
    PROVE  AloneInv /\ [Next]_vars => AloneInv'
<1> SUFFICES ASSUME AloneInv, [Next]_vars PROVE AloneInv' OBVIOUS
<1>0. TypeOK /\ Serial /\ ~stolen /\ TypeInv'
  BY NextTypeInv DEF AloneInv, TypeInv
<1>1. ASSUME NEW t \in Threads, pc[t] # "idle" PROVE \A u \in Threads \ {t} : pc[u] = "idle"
  <2>1. \A u \in Threads : ProcOf[u] = ProcOf[t]
    BY StoreAssumption
  <2> QED BY <1>0, <1>1, <2>1 DEF Serial
<1> USE <1>0, StoreAssumption DEF AloneInv, Serial, TypeOK, local, files, Goto, Waiting, Holding
<1>2. ASSUME NEW t \in Threads, Begin(t) PROVE AloneInv'
  BY <1>2 DEF Begin
<1>3. ASSUME NEW t \in Threads,
             CreateLock(t) \/ CheckLock(t) \/ LoadAndChange(t) \/ CreateTemp(t)
               \/ WriteSome(t) \/ WriteRest(t) \/ Rename(t) \/ WriteFails(t)
      PROVE  AloneInv'
  BY <1>3 DEF CreateLock, CheckLock, LoadAndChange, CreateTemp, WriteSome, WriteRest, Rename,
     WriteFails
<1>4. ASSUME NEW t \in Threads, GiveUp(t) PROVE AloneInv'
  BY <1>1, <1>4 DEF GiveUp
<1>5. ASSUME NEW t \in Threads, RemoveStale(t) \/ DropLock(t) PROVE AloneInv'
  <2>1. pc[t] # "idle"
    BY <1>5 DEF RemoveStale, DropLock
  <2>2. \A u \in Threads \ {t} : pc[u] = "idle"
    BY <1>1, <2>1
  <2>3. ~stolen'
    BY <1>5, <2>2 DEF RemoveStale, DropLock, RemoveLockFile, Live, Holds
  <2> QED BY <1>5, <2>2, <2>3 DEF RemoveStale, DropLock
<1>6. ASSUME NEW p \in Procs, Reload(p) \/ Restart(p) PROVE AloneInv'
  BY <1>6 DEF Reload, Restart
<1>7. ASSUME NEW p \in Procs, Crash(p) PROVE AloneInv'
  BY <1>7 DEF Crash
<1>8. CASE Tick \/ UNCHANGED vars
  BY <1>8 DEF Tick, vars
<1> QED BY <1>2, <1>3, <1>4, <1>5, <1>6, <1>7, <1>8 DEF Next, Mutate

\* A gateway that is alone on its directory never removes a live lock file,
\* whatever the lock's timing and however often it crashes and restarts...
THEOREM AloneNeverSteals ==
    ASSUME \A p, q \in Procs : p = q
    PROVE  Spec => []NeverStolen
<1>1. Init => AloneInv
  BY InitTypeInv DEF Init, AloneInv, Serial
<1>2. AloneInv /\ [Next]_vars => AloneInv'
  BY NextAlone
<1>3. AloneInv => NeverStolen
  BY DEF AloneInv, NeverStolen
<1> QED BY <1>1, <1>2, <1>3, PTL DEF Spec

\* ... so there the promise of no lost update holds without a proviso.
THEOREM AloneLosesNothing ==
    ASSUME \A p, q \in Procs : p = q
    PROVE  Spec => []NoLostUpdatesEver
<1>1. Spec => []NeverStolen
  BY AloneNeverSteals
<1>2. Spec => []NoLostUpdates
  BY Durability
<1>3. NeverStolen /\ NoLostUpdates => NoLostUpdatesEver
  BY DEF NeverStolen, NoLostUpdates, NoLostUpdatesEver
<1> QED BY <1>1, <1>2, <1>3, PTL
=============================================================================
