------------------------- MODULE Credentials_proofs -------------------------
(***************************************************************************)
(* Proofs about what a request needs before it is sent: Tokens, Projects   *)
(* and Login, for any number of requests, accounts, endpoints and ports,   *)
(* and any lives of tokens and of the cached project.                      *)
(***************************************************************************)
EXTENDS Tokens, Projects, Login, TLAPS, SequenceTheorems

-----------------------------------------------------------------------------
(* TOKENS *)

-----------------------------------------------------------------------------
(* The inductive invariant *)

\* The queue of the gate is of those between the lookups, each once.
Queued ==
    /\ \A i, j \in 1 .. Len(gate) : gate[i] = gate[j] => i = j
    /\ \A i \in 1 .. Len(gate) : task[gate[i]].pc \in {"gate", "refresh"}
    /\ \A t \in Tasks : task[t].pc \in {"gate", "refresh"} => \E i \in 1 .. Len(gate) : gate[i] = t

\* Whoever asks the token endpoint is at the head of the queue, for an account
\* whose token cannot be used; it began no later than the last clear.
Refreshing ==
    \A t \in Tasks : At(t, "refresh") =>
        /\ gate # <<>> /\ gate[1] = t
        /\ ~Usable(tokens[task[t].owner])
        /\ task[t].clears <= clears

\* A token from before the last clear was stored by the refresh that was under
\* way then, and there is no such refresh any more.
OldTokens ==
    /\ \A o \in Owners : tokens[o].clears <= clears
    /\ \A o, p \in Owners : Old(o) /\ Old(p) => o = p
    /\ \A t \in Tasks, o \in Owners : At(t, "refresh") /\ task[t].clears < clears => ~Old(o)

TokensInv == TokensTypeOK /\ Queued /\ Refreshing /\ OldTokens

-----------------------------------------------------------------------------
(* The gate *)

LEMMA ExpiresType ==
    ASSUME NEW asked \in Nat, NEW life \in ExpiresIn
    PROVE  ExpiresAt(asked, life) \in Nat
BY TokensAssumption DEF ExpiresAt

\* Leaving takes the head of the queue away, and nobody else.
LEMMA LeavePreserves ==
    ASSUME TokensInv, NEW t \in Tasks, NEW pc \in {"ready", "failed"}, Leave(t, pc),
           gate # <<>>, gate[1] = t
    PROVE  /\ gate' \in Seq(Tasks)
           /\ task' \in TaskRecords
           /\ Queued'
           /\ \A u \in Tasks : task'[u].pc # "refresh"
<1> USE DEF TokensInv
<1>1. gate \in Seq(Tasks) /\ gate' = Tail(gate)
  BY DEF TokensTypeOK, TaskRecords, Leave
<1>2. /\ gate' \in Seq(Tasks)
      /\ Len(gate) \in Nat \ {0}
      /\ Len(gate') = Len(gate) - 1
      /\ \A i \in 1 .. Len(gate') : gate'[i] = gate[i + 1]
  BY <1>1, HeadTailProperties, EmptySeq
<1>3. /\ task' \in TaskRecords
      /\ \A u \in Tasks : task'[u].pc = IF u = t THEN pc ELSE task[u].pc
  <2>1. pc \in Steps /\ task[t].owner \in Owners /\ 0 \in 0 .. LastTime /\ 0 \in 0 .. MaxClears
    BY TokensAssumption DEF TokensTypeOK, TaskRecords, Steps
  <2>2. Moves(t, pc, task[t].owner, 0, 0)
    BY DEF Leave
  <2> QED BY <2>1, <2>2, TokensInv DEF TokensTypeOK, TaskRecords, Moves
<1>4. \A i \in 1 .. Len(gate') : gate'[i] # t /\ gate'[i] \in Tasks
  <2> TAKE i \in 1 .. Len(gate')
  <2>1. i + 1 \in 1 .. Len(gate) /\ 1 \in 1 .. Len(gate) /\ i + 1 # 1
    BY <1>2
  <2> QED BY <1>1, <1>2, <2>1, ElementOfSeq DEF Queued
<1>5. \A i, j \in 1 .. Len(gate') : gate'[i] = gate'[j] => i = j
  <2> TAKE i, j \in 1 .. Len(gate')
  <2>1. i + 1 \in 1 .. Len(gate) /\ j + 1 \in 1 .. Len(gate)
    BY <1>2
  <2> QED BY <1>2, <2>1 DEF Queued
<1>6. \A i \in 1 .. Len(gate') : task'[gate'[i]].pc \in {"gate", "refresh"}
  <2> TAKE i \in 1 .. Len(gate')
  <2>1. i + 1 \in 1 .. Len(gate)
    BY <1>2
  <2> QED BY <1>2, <1>3, <1>4, <2>1 DEF Queued
<1>7. ASSUME NEW u \in Tasks, task'[u].pc \in {"gate", "refresh"}
      PROVE  \E i \in 1 .. Len(gate') : gate'[i] = u
  <2>1. u # t /\ task[u].pc \in {"gate", "refresh"}
    BY <1>3, <1>7
  <2>2. PICK i \in 1 .. Len(gate) : gate[i] = u
    BY <2>1 DEF Queued
  <2>3. i # 1
    BY <2>1, <2>2
  <2>4. i - 1 \in 1 .. Len(gate') /\ (i - 1) + 1 = i
    BY <1>2, <2>3
  <2>5. gate'[i - 1] = gate[(i - 1) + 1]
    BY <1>2, <2>4
  <2> QED BY <2>2, <2>4, <2>5
<1>8. \A u \in Tasks : task'[u].pc # "refresh"
  BY <1>3 DEF Refreshing, At
<1> QED BY <1>2, <1>3, <1>5, <1>6, <1>7, <1>8 DEF Queued

-----------------------------------------------------------------------------
(* The steps *)

LEMMA InitInv == TokensInit => TokensInv
<1> SUFFICES ASSUME TokensInit PROVE TokensInv
  OBVIOUS
<1> USE TokensAssumption
<1>1. (CHOOSE o \in Owners : TRUE) \in Owners
  OBVIOUS
<1>2. TokensTypeOK
  BY <1>1, EmptySeq DEF TokensInit, TokensTypeOK, TaskRecords, NoToken, Steps
<1>3. Len(gate) = 0 /\ \A t \in Tasks : task[t].pc = "idle"
  BY EmptySeq DEF TokensInit
<1>4. Queued /\ Refreshing
  BY <1>3 DEF Queued, Refreshing, At
<1>5. OldTokens
  BY <1>3 DEF TokensInit, OldTokens, Old, NoToken, At
<1> QED BY <1>2, <1>4, <1>5 DEF TokensInv

LEMMA AskPreserves == ASSUME TokensInv, NEW t \in Tasks, Ask(t) PROVE TokensInv'
<1> USE DEF TokensInv
<1>1. PICK o \in Owners :
        /\ Moves(t, IF Usable(tokens[o]) THEN "ready" ELSE "gate", o, 0, 0)
        /\ gate' = IF Usable(tokens[o]) THEN gate ELSE Append(gate, t)
  BY DEF Ask
<1>2. UNCHANGED <<clock, tokens, clears>> /\ task[t].pc \in {"idle", "ready", "failed"}
  BY DEF Ask
<1>3. /\ gate \in Seq(Tasks) /\ Len(gate) \in Nat
      /\ Append(gate, t) \in Seq(Tasks) /\ Append(gate, t) # <<>>
      /\ Len(Append(gate, t)) = Len(gate) + 1
      /\ \A i \in 1 .. Len(gate) : Append(gate, t)[i] = gate[i]
      /\ Append(gate, t)[Len(gate) + 1] = t
  <2>1. gate \in Seq(Tasks)
    BY DEF TokensTypeOK, TaskRecords
  <2>2. Len(gate) \in Nat
    BY <2>1, LenProperties
  <2> QED BY <2>1, <2>2, AppendProperties
<1>10. /\ task' \in TaskRecords
       /\ \A u \in Tasks : u # t => task'[u] = task[u]
       /\ task'[t].pc = IF Usable(tokens[o]) THEN "ready" ELSE "gate"
  <2>1. (IF Usable(tokens[o]) THEN "ready" ELSE "gate") \in Steps
    BY DEF Steps
  <2>2. 0 \in 0 .. LastTime /\ 0 \in 0 .. MaxClears
    BY TokensAssumption
  <2> QED BY <1>1, <2>1, <2>2, TokensInv DEF TokensTypeOK, TaskRecords, Moves
<1>4. TokensTypeOK'
  BY <1>1, <1>2, <1>3, <1>10 DEF TokensTypeOK, TaskRecords
<1>5. \A u \in Tasks :
        /\ u # t => task'[u] = task[u]
        /\ task'[u].pc = "refresh" => u # t
        /\ task'[u].pc \in {"gate", "refresh"} /\ u = t => ~Usable(tokens[o])
  BY <1>10
<1>6. \A i \in 1 .. Len(gate) : gate[i] # t /\ gate[i] \in Tasks
  BY <1>2, <1>3, ElementOfSeq DEF Queued
<1>7. Queued'
  <2>1. CASE Usable(tokens[o])
    <3>1. gate' = gate /\ \A i \in 1 .. Len(gate) : task'[gate[i]] = task[gate[i]]
      BY <1>1, <1>5, <1>6, <2>1
    <3>2. \A u \in Tasks : task'[u].pc \in {"gate", "refresh"} => task[u].pc \in {"gate", "refresh"}
      BY <1>5, <2>1
    <3> QED BY <3>1, <3>2 DEF Queued
  <2>2. CASE ~Usable(tokens[o])
    <3>1. gate' = Append(gate, t) /\ task'[t].pc = "gate"
      BY <1>1, <1>10, <2>2
    <3>2. \A i, j \in 1 .. Len(gate') : gate'[i] = gate'[j] => i = j
      BY <1>3, <1>6, <3>1 DEF Queued
    <3>3. \A i \in 1 .. Len(gate') : task'[gate'[i]].pc \in {"gate", "refresh"}
      BY <1>3, <1>5, <1>6, <3>1 DEF Queued
    <3>4. ASSUME NEW u \in Tasks, task'[u].pc \in {"gate", "refresh"}
          PROVE  \E i \in 1 .. Len(gate') : gate'[i] = u
      <4>1. CASE u = t
        BY <1>3, <3>1, <4>1
      <4>2. CASE u # t
        <5>1. PICK i \in 1 .. Len(gate) : gate[i] = u
          BY <1>5, <3>4, <4>2 DEF Queued
        <5> QED BY <1>3, <3>1, <5>1
      <4> QED BY <4>1, <4>2
    <3> QED BY <3>2, <3>3, <3>4 DEF Queued
  <2> QED BY <2>1, <2>2
<1>8. Refreshing'
  <2> SUFFICES ASSUME NEW u \in Tasks, task'[u].pc = "refresh"
               PROVE  /\ gate' # <<>> /\ gate'[1] = u
                      /\ ~Usable(tokens[task'[u].owner])
                      /\ task'[u].clears <= clears
    BY <1>2 DEF Refreshing, At, Usable
  <2>1. u # t /\ task'[u] = task[u] /\ At(u, "refresh")
    BY <1>5 DEF At
  <2>2. gate # <<>> /\ gate[1] = u /\ ~Usable(tokens[task[u].owner]) /\ task[u].clears <= clears
    BY <2>1 DEF Refreshing
  <2>3. 1 \in 1 .. Len(gate)
    BY <1>3, <2>2, EmptySeq
  <2> QED BY <1>1, <1>3, <2>1, <2>2, <2>3
<1>9. OldTokens'
  BY <1>2, <1>5 DEF OldTokens, Old, At
<1> QED BY <1>4, <1>7, <1>8, <1>9

LEMMA EnterPreserves == ASSUME TokensInv, NEW t \in Tasks, EnterGate(t) PROVE TokensInv'
<1> USE DEF TokensInv
<1>1. UNCHANGED <<clock, tokens, clears>> /\ task[t].pc = "gate"
  BY DEF EnterGate, At
<1>2. gate \in Seq(Tasks) /\ gate # <<>> /\ gate[1] = t
  <2>1. PICK i \in 1 .. Len(gate) : gate[i] = t
    BY <1>1 DEF Queued
  <2>2. gate \in Seq(Tasks)
    BY DEF TokensTypeOK, TaskRecords
  <2>3. gate # <<>>
    BY <2>1, <2>2, EmptySeq
  <2>4. Head(gate) = gate[1]
    BY <2>2, <2>3
  <2> QED BY <2>2, <2>3, <2>4 DEF EnterGate
<1>3. CASE Usable(tokens[task[t].owner])
  <2>1. Leave(t, "ready")
    BY <1>3 DEF EnterGate
  <2>2. /\ gate' \in Seq(Tasks)
        /\ task' \in TaskRecords
        /\ Queued' /\ \A u \in Tasks : task'[u].pc # "refresh"
    BY <1>2, <2>1, LeavePreserves
  <2>3. TokensTypeOK'
    BY <1>1, <2>2 DEF TokensTypeOK, TaskRecords
  <2>4. Refreshing' /\ OldTokens'
    BY <1>1, <2>2 DEF Refreshing, OldTokens, Old, At
  <2> QED BY <2>2, <2>3, <2>4
<1>4. CASE ~Usable(tokens[task[t].owner])
  <2>1. Moves(t, "refresh", task[t].owner, clock, clears) /\ gate' = gate
    BY <1>4 DEF EnterGate, Request
  <2>3. /\ task' \in TaskRecords
        /\ \A u \in Tasks : u # t => task'[u] = task[u]
        /\ task'[t].pc = "refresh" /\ task'[t].clears = clears /\ task'[t].owner = task[t].owner
    <3>1. /\ "refresh" \in Steps /\ task[t].owner \in Owners
          /\ clock \in 0 .. LastTime /\ clears \in 0 .. MaxClears
      BY DEF TokensTypeOK, TaskRecords, Steps
    <3> QED BY <2>1, <3>1, TokensInv DEF TokensTypeOK, TaskRecords, Moves
  <2>2. TokensTypeOK'
    BY <1>1, <2>1, <2>3 DEF TokensTypeOK, TaskRecords
  <2>4. \A i \in 1 .. Len(gate) : gate[i] \in Tasks
    BY <1>2, ElementOfSeq
  <2>5. Queued'
    <3>1. \A u \in Tasks : task'[u].pc \in {"gate", "refresh"} <=> task[u].pc \in {"gate", "refresh"}
      BY <1>1, <2>3
    <3> QED BY <2>1, <2>4, <3>1 DEF Queued
  <2>6. \A u \in Tasks : task'[u].pc = "refresh" => u = t
    BY <1>1, <1>2, <2>3 DEF Refreshing, At
  <2>7. Refreshing'
    <3>1. gate' # <<>> /\ gate'[1] = t
      BY <1>2, <2>1
    <3>2. tokens'[task'[t].owner] = tokens[task[t].owner] /\ clock' = clock
      BY <1>1, <2>3
    <3>3. clears' \in Int /\ task'[t].clears = clears'
      BY <1>1, <2>3, TokensAssumption DEF TokensTypeOK
    <3>4. ~Usable(tokens[task[t].owner])'
      BY <1>4, <3>2, <2>3, <1>1 DEF Usable
    <3> SUFFICES ASSUME NEW u \in Tasks, At(u, "refresh")'
                 PROVE  /\ gate' # <<>> /\ gate'[1] = u
                        /\ ~Usable(tokens[task[u].owner])'
                        /\ task'[u].clears <= clears'
      BY DEF Refreshing
    <3>5. u = t
      BY <2>6 DEF At
    <3> QED BY <3>1, <3>3, <3>4, <3>5
  <2>8. OldTokens'
    <3>1. ~(clears < clears)
      BY TokensAssumption DEF TokensTypeOK
    <3>2. \A o \in Owners : Old(o)' <=> Old(o)
      BY <1>1 DEF Old
    <3>3. \A u \in Tasks : task'[u].pc = "refresh" => ~(task'[u].clears < clears')
      BY <1>1, <2>3, <2>6, <3>1
    <3>4. \A o \in Owners : tokens'[o].clears <= clears'
      BY <1>1 DEF OldTokens
    <3>5. \A o, p \in Owners : Old(o)' /\ Old(p)' => o = p
      BY <3>2 DEF OldTokens
    <3> QED BY <3>3, <3>4, <3>5 DEF OldTokens, At
  <2> QED BY <2>2, <2>5, <2>7, <2>8
<1> QED BY <1>3, <1>4

LEMMA RefreshedPreserves == ASSUME TokensInv, NEW t \in Tasks, Refreshed(t) PROVE TokensInv'
<1> USE DEF TokensInv
<1>1. PICK life \in ExpiresIn :
        tokens' = [tokens EXCEPT ![task[t].owner] =
                      [until |-> ExpiresAt(task[t].asked, life), clears |-> task[t].clears]]
  BY DEF Refreshed
<1>2. UNCHANGED <<clock, clears>> /\ At(t, "refresh") /\ Leave(t, "ready")
  BY DEF Refreshed
<1>3. gate # <<>> /\ gate[1] = t /\ task[t].clears <= clears
  BY <1>2 DEF Refreshing
<1>4. /\ gate' \in Seq(Tasks)
      /\ task' \in TaskRecords
      /\ Queued' /\ \A u \in Tasks : task'[u].pc # "refresh"
  BY <1>2, <1>3, LeavePreserves
<1>5. ExpiresAt(task[t].asked, life) \in Nat
  <2>1. task[t].asked \in Nat
    BY TokensAssumption DEF TokensTypeOK, TaskRecords
  <2> QED BY <2>1, ExpiresType
<1>6. TokensTypeOK'
  <2>1. tokens' \in [Owners -> [until : Nat, clears : 0 .. MaxClears]]
    BY <1>1, <1>5 DEF TokensTypeOK, TaskRecords
  <2> QED BY <1>2, <1>4, <2>1 DEF TokensTypeOK, TaskRecords
<1>7. Refreshing'
  BY <1>4 DEF Refreshing, At
<1>8. \A o \in Owners :
        /\ o # task[t].owner => tokens'[o] = tokens[o]
        /\ o = task[t].owner => tokens'[o].clears = task[t].clears
  BY <1>1 DEF TokensTypeOK, TaskRecords
<1>9. OldTokens'
  <2>1. \A o \in Owners : tokens'[o].clears <= clears
    BY <1>3, <1>8 DEF OldTokens
  <2>2. ASSUME NEW o \in Owners, NEW p \in Owners, Old(o)', Old(p)', o # p PROVE FALSE
    <3>1. CASE task[t].clears < clears
      <4>1. \A q \in Owners : ~Old(q)
        BY <1>2, <3>1 DEF OldTokens
      <4> QED BY <1>2, <1>8, <2>2, <4>1 DEF Old
    <3>2. CASE ~(task[t].clears < clears)
      <4>1. o # task[t].owner /\ p # task[t].owner
        BY <1>2, <1>8, <2>2, <3>2 DEF Old
      <4> QED BY <1>2, <1>8, <2>2, <4>1 DEF Old, OldTokens
    <3> QED BY <3>1, <3>2
  <2> QED BY <1>2, <1>4, <2>1, <2>2 DEF OldTokens, At
<1> QED BY <1>4, <1>6, <1>7, <1>9

LEMMA FailPreserves == ASSUME TokensInv, NEW t \in Tasks, RefreshFails(t) PROVE TokensInv'
<1> USE DEF TokensInv
<1>1. UNCHANGED <<clock, tokens, clears>> /\ At(t, "refresh") /\ Leave(t, "failed")
  BY DEF RefreshFails
<1>2. /\ gate' \in Seq(Tasks)
      /\ task' \in TaskRecords
      /\ Queued' /\ \A u \in Tasks : task'[u].pc # "refresh"
  BY <1>1, LeavePreserves DEF Refreshing
<1>3. TokensTypeOK'
  BY <1>1, <1>2 DEF TokensTypeOK, TaskRecords
<1>4. Refreshing' /\ OldTokens'
  BY <1>1, <1>2 DEF Refreshing, OldTokens, Old, At
<1> QED BY <1>2, <1>3, <1>4

LEMMA ClearPreserves == ASSUME TokensInv, ClearTokens PROVE TokensInv'
<1> USE DEF TokensInv
<1>1. /\ tokens' = [o \in Owners |-> NoToken] /\ clears' = clears + 1 /\ clears < MaxClears
      /\ UNCHANGED <<clock, gate, task>>
  BY DEF ClearTokens
<1>2. TokensTypeOK'
  BY <1>1, TokensAssumption DEF TokensTypeOK, TaskRecords, NoToken
<1>3. Queued'
  BY <1>1 DEF Queued
<1>4. \A t \in Tasks : ~(clock < 0 - Buffer) /\ task[t].owner \in Owners /\ task[t].clears \in Nat
  BY TokensAssumption DEF TokensTypeOK, TaskRecords
<1>5. Refreshing'
  BY <1>1, <1>4, TokensAssumption DEF Refreshing, At, Usable, NoToken, TokensTypeOK, TaskRecords
<1>6. OldTokens'
  BY <1>1, TokensAssumption DEF OldTokens, Old, NoToken, TokensTypeOK, TaskRecords
<1> QED BY <1>2, <1>3, <1>5, <1>6

LEMMA AdvancePreserves == ASSUME TokensInv, Advance PROVE TokensInv'
<1> USE DEF TokensInv
<1>1. clock' = clock + 1 /\ clock < LastTime /\ UNCHANGED <<tokens, gate, task, clears>>
  BY DEF Advance
<1>2. TokensTypeOK'
  BY <1>1, TokensAssumption DEF TokensTypeOK, TaskRecords
<1>3. \A o \in Owners : ~Usable(tokens[o]) => ~(clock + 1 < tokens[o].until - Buffer)
  BY TokensAssumption DEF TokensTypeOK, TaskRecords, Usable
<1>4. \A t \in Tasks : task[t].owner \in Owners
  BY DEF TokensTypeOK, TaskRecords
<1>5. Queued' /\ Refreshing' /\ OldTokens'
  BY <1>1, <1>3, <1>4 DEF Queued, Refreshing, OldTokens, Old, At, Usable
<1> QED BY <1>2, <1>5

LEMMA NextInv == TokensInv /\ [TokensNext]_tokenVars => TokensInv'
<1> SUFFICES ASSUME TokensInv, [TokensNext]_tokenVars PROVE TokensInv'
  OBVIOUS
<1>1. CASE UNCHANGED tokenVars
  BY <1>1 DEF tokenVars, TokensInv, TokensTypeOK, TaskRecords, Queued, Refreshing, OldTokens, Old, At, Usable
<1>2. CASE TokensNext
  BY <1>2, AskPreserves, EnterPreserves, RefreshedPreserves, FailPreserves, ClearPreserves,
     AdvancePreserves DEF TokensNext
<1> QED BY <1>1, <1>2

LEMMA Invariance == TokensSpec => []TokensInv
BY InitInv, NextInv, PTL DEF TokensSpec

-----------------------------------------------------------------------------
(* Theorems *)

\* The cache, the gate and every task are well typed (CredentialCache).
THEOREM TokensTypeCorrect == TokensSpec => []TokensTypeOK
<1>1. TokensInv => TokensTypeOK
  BY DEF TokensInv
<1> QED BY <1>1, Invariance, PTL

\* Only one task asks the token endpoint, and only for an account without a usable
\* token (access_token), for any number of tasks and accounts.
THEOREM AsksOnce == TokensSpec => []OneRefresh
<1>1. TokensInv => OneRefresh
  BY DEF TokensInv, OneRefresh, Refreshing
<1> QED BY <1>1, Invariance, PTL

\* The bound on what /refresh-token misses, though it says that tokens will be
\* fetched again (admin.rs:267): after any number of clears, at any point of any
\* refresh, at most one account has a token asked for before the last of them.
THEOREM ClearReachesAllButOne == TokensSpec => []ClearLeavesOneOldToken
<1>1. TokensInv => ClearLeavesOneOldToken
  BY DEF TokensInv, OldTokens, ClearLeavesOneOldToken
<1> QED BY <1>1, Invariance, PTL

-----------------------------------------------------------------------------
(* PROJECTS *)

Seekings ==
    [pc : SeekerSteps, host : 1 .. Hosts, poll : 0 .. Polls, context : Contexts \cup {NoProject},
     overtaken : BOOLEAN]

-----------------------------------------------------------------------------
(* What a step of a request does *)

LEMMA SeekingTypes ==
    /\ Waiting \in Seekings
    /\ \A context \in Contexts :
          /\ [Waiting EXCEPT !.pc = "ready", !.context = context] \in Seekings
          /\ [Waiting EXCEPT !.pc = "ready", !.context = context].pc = "ready"
    /\ [Waiting EXCEPT !.pc = "load"] \in Seekings
<1>1. Waiting \in Seekings
  BY ProjectsAssumption DEF Waiting, Seekings, SeekerSteps
<1>2. \A context \in Contexts : [Waiting EXCEPT !.pc = "ready", !.context = context] \in Seekings
  BY <1>1 DEF Seekings, SeekerSteps
<1>3. \A context \in Contexts : [Waiting EXCEPT !.pc = "ready", !.context = context].pc = "ready"
  BY DEF Waiting
<1>4. [Waiting EXCEPT !.pc = "load"] \in Seekings
  BY <1>1 DEF Seekings, SeekerSteps
<1> QED BY <1>1, <1>2, <1>3, <1>4

LEMMA ContextTypes ==
    /\ Fallback \in Contexts /\ Fallback.fallback
    /\ \A t \in {"none", "named"} : [fallback |-> FALSE, tier |-> t] \in Contexts
BY DEF Fallback, Contexts

Stored == [context : Contexts, at : 0 .. LastMoment]

\* Whoever searches while a real project is fresh began before it was stored.
SearchesAreOld == Fresh(project) /\ ~project.context.fallback => \A t \in Seekers : Searches(t) => seeker[t].overtaken

\* What a step of a request does to the cache and to the searches: it leaves the
\* cache alone and begins a search only if that is cold, or stores a real project,
\* which overtakes the others, or gives up at the last endpoint.
Outcome(s) ==
    /\ moment' = moment
    /\ seeker' \in [Seekers -> Seekings]
    /\ \/ /\ project' = project
          /\ \A t \in Seekers : Searches(t)' => ~Fresh(project)
                                                \/ (Searches(t) /\ (seeker[t].overtaken => seeker'[t].overtaken))
       \/ /\ project' \in Stored /\ ~project'.context.fallback
          /\ \A t \in Seekers : Searches(t)' => seeker'[t].overtaken
       \/ /\ project' \in Stored /\ project'.context.fallback
          /\ Searches(s) /\ seeker[s].host = Hosts /\ seeker'[s].pc = "ready"

LEMMA ResolvedOutcome ==
    ASSUME ProjectsTypeOK, NEW s \in Seekers, NEW context \in Contexts, Resolved(s, context),
           moment' = moment, context.fallback => Searches(s) /\ seeker[s].host = Hosts
    PROVE  Outcome(s)
<1> DEFINE done == [Waiting EXCEPT !.pc = "ready", !.context = context]
<1>1. done \in Seekings /\ done.pc = "ready"
  BY SeekingTypes
<1>2. project' = [context |-> context, at |-> moment] /\ moment \in 0 .. LastMoment
  BY DEF Resolved, ProjectsTypeOK
<1>3. project' \in Stored /\ project'.context = context
  BY <1>2 DEF Stored
<1>4. seeker'[s] = done
  BY DEF Resolved
<1>5. ASSUME NEW t \in Seekers, t # s
      PROVE  /\ seeker'[t] \in Seekings
             /\ Searches(t)' => (~context.fallback => seeker'[t].overtaken)
  <2>1. seeker[t] \in Seekings
    BY DEF ProjectsTypeOK, Seekings
  <2>2. seeker'[t] = [seeker[t] EXCEPT !.overtaken = @ \/ (Searches(t) /\ ~context.fallback)]
    BY <1>5 DEF Resolved
  <2>3. (seeker[t].overtaken \/ (Searches(t) /\ ~context.fallback)) \in BOOLEAN
    OBVIOUS
  <2>4. seeker'[t].pc = seeker[t].pc /\ seeker'[t] \in Seekings
    BY <2>1, <2>2, <2>3 DEF Seekings
  <2>5. Searches(t)' => Searches(t)
    BY <2>4 DEF Searches
  <2>6. seeker'[t].overtaken = (seeker[t].overtaken \/ (Searches(t) /\ ~context.fallback))
    BY <2>1, <2>2 DEF Seekings
  <2> QED BY <2>4, <2>5, <2>6
<1>6. seeker' \in [Seekers -> Seekings]
  <2>1. \A t \in Seekers : seeker'[t] \in Seekings
    BY <1>1, <1>4, <1>5
  <2> HIDE DEF done
  <2>2. seeker' = [t \in Seekers |-> seeker'[t]]
    BY DEF Resolved
  <2> QED BY <2>1, <2>2
<1>7. ~Searches(s)'
  BY <1>1, <1>4 DEF Searches
<1>8. \A t \in Seekers : Searches(t)' => (~context.fallback => seeker'[t].overtaken)
  BY <1>5, <1>7
<1>9. CASE context.fallback
  BY <1>1, <1>3, <1>4, <1>6, <1>9 DEF Outcome
<1>10. CASE ~context.fallback
  BY <1>3, <1>6, <1>8, <1>10 DEF Outcome
<1> QED BY <1>9, <1>10

LEMMA NextHostOutcome ==
    ASSUME ProjectsTypeOK, NEW s \in Seekers, NextHost(s), Searches(s), moment' = moment
    PROVE  Outcome(s)
<1>1. seeker[s].host \in 1 .. Hosts /\ seeker \in [Seekers -> Seekings]
  BY DEF ProjectsTypeOK, Seekings
<1>2. CASE seeker[s].host < Hosts
  <2>1. seeker[s].host + 1 \in 1 .. Hosts /\ 0 \in 0 .. Polls
    BY <1>1, <1>2, ProjectsAssumption
  <2> DEFINE next == [seeker[s] EXCEPT !.pc = "load", !.host = @ + 1, !.poll = 0]
  <2>2. seeker' = [seeker EXCEPT ![s] = next] /\ project' = project
    BY <1>1, <1>2 DEF NextHost
  <2>3. next \in Seekings /\ next.overtaken = seeker[s].overtaken
    BY <1>1, <2>1 DEF Seekings, SeekerSteps
  <2> HIDE DEF next
  <2>4. seeker' \in [Seekers -> Seekings] /\ seeker'[s] = next
    BY <1>1, <2>2, <2>3
  <2>5. \A t \in Seekers : Searches(t)' => Searches(t) /\ (seeker[t].overtaken => seeker'[t].overtaken)
    BY <1>1, <2>2, <2>3, <2>4 DEF Searches
  <2> QED BY <2>2, <2>4, <2>5 DEF Outcome
<1>3. CASE ~(seeker[s].host < Hosts)
  <2>1. Resolved(s, Fallback)
    BY <1>3 DEF NextHost
  <2>2. seeker[s].host = Hosts
    BY <1>1, <1>3, ProjectsAssumption
  <2> QED BY <2>1, <2>2, ContextTypes, ResolvedOutcome
<1> QED BY <1>2, <1>3

LEMMA SeekerStep ==
    ASSUME ProjectsTypeOK, NEW s \in Seekers,
           LookUp(s) \/ Load(s) \/ Onboard(s) \/ Poll(s) \/ NextRequest(s)
    PROVE  Outcome(s)
<1>1. seeker \in [Seekers -> Seekings]
  BY DEF ProjectsTypeOK, Seekings
\* Another state of the request, with the cache as it was.
<1>2. ASSUME NEW next \in Seekings, seeker' = [seeker EXCEPT ![s] = next],
             project' = project, moment' = moment,
             next.pc \in {"load", "onboard", "poll"} =>
                ~Fresh(project) \/ (Searches(s) /\ next.overtaken = seeker[s].overtaken)
      PROVE  Outcome(s)
  <2>1. seeker' \in [Seekers -> Seekings] /\ seeker'[s] = next
    BY <1>1, <1>2
  <2>2. \A t \in Seekers : Searches(t)' =>
           ~Fresh(project) \/ (Searches(t) /\ (seeker[t].overtaken => seeker'[t].overtaken))
    BY <1>1, <1>2, <2>1 DEF Searches
  <2> QED BY <1>2, <2>1, <2>2 DEF Outcome
<1>3. CASE LookUp(s)
  <2>1. CASE Fresh(project)
    <3>1. project.context \in Contexts
      BY <2>1 DEF Fresh, ProjectsTypeOK
    <3> DEFINE next == [Waiting EXCEPT !.pc = "ready", !.context = project.context]
    <3>2. next \in Seekings /\ next.pc = "ready"
      BY <3>1, SeekingTypes
    <3>3. seeker' = [seeker EXCEPT ![s] = next] /\ project' = project /\ moment' = moment
      BY <1>3, <2>1 DEF LookUp
    <3> HIDE DEF next
    <3> QED BY <1>2, <3>2, <3>3
  <2>2. CASE ~Fresh(project)
    <3> DEFINE next == [Waiting EXCEPT !.pc = "load"]
    <3>1. next \in Seekings
      BY SeekingTypes
    <3>2. seeker' = [seeker EXCEPT ![s] = next] /\ project' = project /\ moment' = moment
      BY <1>3, <2>2 DEF LookUp
    <3> HIDE DEF next
    <3> QED BY <1>2, <2>2, <3>1, <3>2
  <2> QED BY <2>1, <2>2
<1>4. ASSUME NEW tier \in {"none", "named"}, Resolved(s, [fallback |-> FALSE, tier |-> tier]),
             moment' = moment
      PROVE  Outcome(s)
  <2> DEFINE context == [fallback |-> FALSE, tier |-> tier]
  <2>1. context \in Contexts /\ ~context.fallback /\ Resolved(s, context)
    BY <1>4, ContextTypes
  <2> HIDE DEF context
  <2> QED BY <1>4, <2>1, ResolvedOutcome
<1>5. ASSUME NEW pc \in {"onboard", "poll"}, Goes(s, pc), Searches(s), moment' = moment
      PROVE  Outcome(s)
  <2> DEFINE next == [seeker[s] EXCEPT !.pc = pc]
  <2>1. seeker' = [seeker EXCEPT ![s] = next] /\ project' = project
    BY <1>1, <1>5 DEF Goes
  <2>2. next \in Seekings /\ next.overtaken = seeker[s].overtaken
    BY <1>1 DEF Seekings, SeekerSteps
  <2> HIDE DEF next
  <2> QED BY <1>2, <1>5, <2>1, <2>2
<1>6. CASE Load(s)
  <2>1. moment' = moment /\ Searches(s)
    BY <1>6 DEF Load, Seeks, Searches
  <2> QED BY <1>4, <1>5, <1>6, <2>1, NextHostOutcome DEF Load
<1>7. CASE Onboard(s)
  <2>1. moment' = moment /\ Searches(s)
    BY <1>7 DEF Onboard, Seeks, Searches
  <2> QED BY <1>4, <1>5, <1>7, <2>1, NextHostOutcome DEF Onboard, Provisioned
<1>8. CASE Poll(s)
  <2>1. moment' = moment /\ Searches(s)
    BY <1>8 DEF Poll, Seeks, Searches
  <2>2. ASSUME seeker[s].poll # Polls, seeker' = [seeker EXCEPT ![s].poll = @ + 1], project' = project
        PROVE  Outcome(s)
    <3>1. seeker[s].poll \in 0 .. Polls
      BY <1>1 DEF Seekings
    <3>2. seeker[s].poll + 1 \in 0 .. Polls
      BY <2>2, <3>1, ProjectsAssumption
    <3> DEFINE next == [seeker[s] EXCEPT !.poll = @ + 1]
    <3>3. seeker' = [seeker EXCEPT ![s] = next]
      BY <1>1, <2>2
    <3>4. next \in Seekings /\ next.overtaken = seeker[s].overtaken
      BY <1>1, <3>2 DEF Seekings
    <3> HIDE DEF next
    <3> QED BY <1>2, <2>1, <2>2, <3>3, <3>4
  <2> QED BY <1>4, <1>8, <2>1, <2>2, NextHostOutcome DEF Poll, Provisioned
<1>9. CASE NextRequest(s)
  <2>1. Waiting \in Seekings /\ Waiting.pc = "idle"
    BY SeekingTypes DEF Waiting
  <2>2. seeker' = [seeker EXCEPT ![s] = Waiting] /\ project' = project /\ moment' = moment
    BY <1>9 DEF NextRequest
  <2> QED BY <1>2, <2>1, <2>2
<1> QED BY <1>3, <1>6, <1>7, <1>8, <1>9

ProjectsInv == ProjectsTypeOK /\ SearchesAreOld

LEMMA ProjectsNextInv == ProjectsInv /\ [ProjectsNext]_projectVars => ProjectsInv'
<1> SUFFICES ASSUME ProjectsInv, [ProjectsNext]_projectVars PROVE ProjectsInv'
  OBVIOUS
<1>1. CASE UNCHANGED projectVars
  BY <1>1 DEF projectVars, ProjectsInv, ProjectsTypeOK, SearchesAreOld, Fresh, Searches
<1>2. CASE TimePasses
  <2>1. ProjectsTypeOK'
    BY <1>2, ProjectsAssumption DEF TimePasses, ProjectsInv, ProjectsTypeOK
  <2>2. Fresh(project)' => Fresh(project)
    BY <1>2, ProjectsAssumption DEF TimePasses, Fresh, ProjectsInv, ProjectsTypeOK
  <2> QED BY <1>2, <2>1, <2>2 DEF TimePasses, ProjectsInv, SearchesAreOld, Searches
<1>3. ASSUME NEW s \in Seekers,
             LookUp(s) \/ Load(s) \/ Onboard(s) \/ Poll(s) \/ NextRequest(s)
      PROVE  ProjectsInv'
  <2>1. Outcome(s)
    BY <1>3, SeekerStep DEF ProjectsInv
  <2>2. ProjectsTypeOK'
    BY <2>1 DEF ProjectsInv, ProjectsTypeOK, Outcome, Seekings, Stored
  <2>3. project' = project => (Fresh(project)' => Fresh(project))
    BY <2>1 DEF Outcome, Fresh
  <2>4. SearchesAreOld'
    BY <2>1, <2>3 DEF Outcome, ProjectsInv, SearchesAreOld
  <2> QED BY <2>2, <2>4 DEF ProjectsInv
<1> QED BY <1>1, <1>2, <1>3 DEF ProjectsNext

LEMMA ProjectsInitInv == ProjectsInit => ProjectsInv
<1> SUFFICES ASSUME ProjectsInit PROVE ProjectsInv
  OBVIOUS
<1>1. moment \in 0 .. LastMoment /\ project = NoProject
  BY ProjectsAssumption DEF ProjectsInit
<1>2. seeker \in [Seekers -> Seekings]
  BY SeekingTypes DEF ProjectsInit
<1> QED BY <1>1, <1>2 DEF ProjectsInv, ProjectsTypeOK, Seekings, SearchesAreOld, Fresh

\* Where every request for the project is, and what the cache holds, is well typed
\* (ProjectResolver); in particular no request goes past the last endpoint.
THEOREM ProjectsTypeCorrect == ProjectsSpec => []ProjectsTypeOK
<1>1. ProjectsInv => ProjectsTypeOK
  BY DEF ProjectsInv
<1> QED BY <1>1, ProjectsInitInv, ProjectsNextInv, PTL DEF ProjectsSpec

\* The shared project takes the place of a real one that is fresh only for a search
\* that was under way when the real one was stored, and that every endpoint has
\* failed (resolve, discover, store): by the invariant that no search begins while
\* a real project is fresh.
THEOREM SlowSearchesCost == ProjectsSpec => OnlyAnEarlierSearchCosts
<1> DEFINE Kept ==
        Fresh(project) /\ ~project.context.fallback /\ project'.context.fallback
        => \E s \in Seekers : /\ Searches(s) /\ seeker'[s].pc = "ready"
                              /\ seeker[s].overtaken /\ seeker[s].host = Hosts
<1>1. ProjectsInv /\ [ProjectsNext]_projectVars => [Kept]_projectVars
  <2> SUFFICES ASSUME ProjectsInv, ProjectsNext, Fresh(project),
                      ~project.context.fallback, project'.context.fallback
               PROVE  \E s \in Seekers : /\ Searches(s) /\ seeker'[s].pc = "ready"
                                         /\ seeker[s].overtaken /\ seeker[s].host = Hosts
    OBVIOUS
  <2>1. project' # project
    OBVIOUS
  <2>2. PICK s \in Seekers : LookUp(s) \/ Load(s) \/ Onboard(s) \/ Poll(s) \/ NextRequest(s)
    BY <2>1 DEF ProjectsNext, TimePasses
  <2>3. Outcome(s)
    BY <2>2, SeekerStep DEF ProjectsInv
  <2>4. Searches(s) /\ seeker[s].host = Hosts /\ seeker'[s].pc = "ready"
    BY <2>1, <2>3 DEF Outcome
  <2>5. seeker[s].overtaken
    BY <2>4 DEF ProjectsInv, SearchesAreOld
  <2> QED BY <2>4, <2>5
<1> QED BY <1>1, ProjectsInitInv, ProjectsNextInv, PTL DEF ProjectsSpec, OnlyAnEarlierSearchCosts

-----------------------------------------------------------------------------
(* LOGIN *)

Loops == {"absent", "accept", "reading"}

\* How a login may end, and "none" before.
Results == {"none", "noPort", "timeout", "input", "rejected", "noRefreshToken", "named", "anonymous",
            "stray", "broken", "denied", "otherState", "noCode", "code"}

LoginTypes ==
    /\ login \in [pc : {"start", "paste", "wait", "exchange", "done"}, port : 1 .. Len(Ports),
                  url : {NoUrl} \cup {Ports[k] : k \in 1 .. Len(Ports)},
                  result : Results]
    /\ sockets \subseteq LoopbackFamilies
    /\ loop \in [LoopbackFamilies -> Loops]
    /\ outcomes \in Seq(Connections \ Unrelated)

\* While a login waits: the URL is that of the bound port, and a family whose task
\* has ended has left its outcome in the channel.
Listening ==
    login.pc = "wait" =>
        /\ login.url = Ports[login.port] /\ sockets # {}
        /\ outcomes = <<>> => \A f \in sockets : loop[f] \in {"accept", "reading"}

LoginInductive == LoginTypes /\ Listening

LEMMA LoginInitInductive == LoginInit => LoginInductive
<1> SUFFICES ASSUME LoginInit PROVE LoginInductive
    OBVIOUS
<1>1. 1 \in 1 .. Len(Ports)
    BY LoginAssumption
<1> QED
    BY <1>1 DEF LoginInit, LoginInductive, LoginTypes, Listening, Loops, Connections, Results, NoUrl

LEMMA EndsInductive ==
    ASSUME LoginInductive,
           NEW result \in Results,
           Ends(result)
    PROVE  LoginInductive'
<1>1. login' \in [pc : {"start", "paste", "wait", "exchange", "done"}, port : 1 .. Len(Ports),
                   url : {NoUrl} \cup {Ports[k] : k \in 1 .. Len(Ports)}, result : Results]
    BY DEF Ends, LoginInductive, LoginTypes
<1>2. LoginTypes'
    BY <1>1 DEF Ends, LoginTypes, Loops
<1>3. Listening'
    BY DEF Ends, LoginInductive, LoginTypes, Listening
<1> QED
    BY <1>2, <1>3 DEF LoginInductive

LEMMA LoginStepInductive == LoginInductive /\ [LoginNext]_loginVars => LoginInductive'
<1> SUFFICES ASSUME LoginInductive, [LoginNext]_loginVars PROVE LoginInductive'
    OBVIOUS
<1> USE DEF Loops, Connections, Unrelated, Results
<1>1. CASE BindPort
  <2>1. PICK free \in SUBSET LoopbackFamilies :
          \/ /\ free # {}
             /\ sockets' = free
             /\ loop' = [f \in LoopbackFamilies |-> IF f \in free THEN "accept" ELSE "absent"]
             /\ login' = [login EXCEPT !.pc = "wait", !.url = Ports[login.port]]
             /\ UNCHANGED outcomes
          \/ /\ free = {} /\ login.port < Len(Ports)
             /\ login' = [login EXCEPT !.port = @ + 1]
             /\ UNCHANGED <<sockets, loop, outcomes>>
          \/ free = {} /\ login.port = Len(Ports) /\ Ends("noPort")
      BY <1>1 DEF BindPort
  <2>2. CASE Ends("noPort")
      BY <2>2, EndsInductive
  <2>3. CASE /\ free # {}
             /\ sockets' = free
             /\ loop' = [f \in LoopbackFamilies |-> IF f \in free THEN "accept" ELSE "absent"]
             /\ login' = [login EXCEPT !.pc = "wait", !.url = Ports[login.port]]
             /\ UNCHANGED outcomes
    <3>1. LoginTypes'
        BY <2>3 DEF LoginInductive, LoginTypes
    <3>2. Listening'
        BY <2>3 DEF LoginInductive, LoginTypes, Listening
    <3> QED
        BY <3>1, <3>2 DEF LoginInductive
  <2>4. CASE /\ free = {} /\ login.port < Len(Ports)
             /\ login' = [login EXCEPT !.port = @ + 1]
             /\ UNCHANGED <<sockets, loop, outcomes>>
    <3>1. login.pc = "start"
        BY <1>1 DEF BindPort
    <3>2. LoginTypes'
        BY <2>4, LoginAssumption DEF LoginInductive, LoginTypes
    <3>3. Listening'
        BY <2>4, <3>1 DEF LoginInductive, LoginTypes, Listening
    <3> QED
        BY <3>2, <3>3 DEF LoginInductive
  <2> QED
      BY <2>1, <2>2, <2>3, <2>4
<1>2. CASE Headless
    BY <1>2, LoginAssumption DEF Headless, LoginInductive, LoginTypes, Listening
<1>3. CASE Paste
  <2>1. CASE login' = [login EXCEPT !.pc = "exchange"] /\ UNCHANGED <<sockets, loop, outcomes>>
      BY <2>1 DEF LoginInductive, LoginTypes, Listening
  <2>2. CASE \E reason \in {"denied", "otherState", "noCode", "input"} : Ends(reason)
      BY <2>2, EndsInductive
  <2> QED
      BY <1>3, <2>1, <2>2 DEF Paste
<1>4. CASE TakeOutcome
  <2>1. Head(outcomes) \in Connections
      BY <1>4 DEF TakeOutcome, LoginInductive, LoginTypes
  <2>2. CASE Ends(Head(outcomes))
      BY <2>1, <2>2, EndsInductive
  <2>3. CASE /\ login' = [login EXCEPT !.pc = "exchange"]
             /\ sockets' = {} /\ outcomes' = <<>>
             /\ loop' = [f \in LoopbackFamilies |-> "absent"]
      BY <2>3 DEF LoginInductive, LoginTypes, Listening
  <2> QED
      BY <1>4, <2>2, <2>3 DEF TakeOutcome
<1>5. CASE LoginTimesOut
    BY <1>5, EndsInductive DEF LoginTimesOut
<1>6. CASE Exchange
    BY <1>6, EndsInductive DEF Exchange
<1>7. ASSUME NEW f \in LoopbackFamilies, Connect(f) PROVE LoginInductive'
    BY <1>7 DEF Connect, LoginInductive, LoginTypes, Listening
<1>8. ASSUME NEW f \in LoopbackFamilies, Serve(f) PROVE LoginInductive'
  <2>1. PICK kind \in Connections :
            IF kind \in Unrelated
            THEN loop' = [loop EXCEPT ![f] = "accept"] /\ UNCHANGED outcomes
            ELSE loop' = [loop EXCEPT ![f] = "absent"] /\ outcomes' = Append(outcomes, kind)
      BY <1>8 DEF Serve
  <2>2. UNCHANGED <<login, sockets>>
      BY <1>8 DEF Serve
  <2>3. CASE kind \in Unrelated
      BY <2>1, <2>2, <2>3 DEF LoginInductive, LoginTypes, Listening
  <2>4. CASE kind \notin Unrelated
    <3>1. outcomes' = Append(outcomes, kind) /\ kind \in Connections \ Unrelated
        BY <2>1, <2>4
    <3>2. outcomes' # <<>> /\ outcomes' \in Seq(Connections \ Unrelated)
        BY <3>1 DEF LoginInductive, LoginTypes
    <3> QED
        BY <2>1, <2>2, <2>4, <3>2 DEF LoginInductive, LoginTypes, Listening
  <2> QED
      BY <2>3, <2>4
<1>9. CASE UNCHANGED loginVars
    BY <1>9 DEF loginVars, LoginInductive, LoginTypes, Listening
<1> QED
    BY <1>1, <1>2, <1>3, <1>4, <1>5, <1>6, <1>7, <1>8, <1>9 DEF LoginNext

\* While a login waits and has no outcome, every family bound on the port its URL
\* names accepts, or reads a connection that is still open (bind_port, serve).
THEOREM LoginAwaitsItsCallback == LoginSpec => []CallbackIsAwaited
<1>1. LoginInductive => CallbackIsAwaited
    BY DEF LoginInductive, Listening, CallbackIsAwaited
<1> QED
    BY <1>1, LoginInitInductive, LoginStepInductive, PTL DEF LoginSpec
=============================================================================
