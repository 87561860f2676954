-------------------------- MODULE Accounts_proofs --------------------------
(***************************************************************************)
(* Proofs about the accounts: Pool, for any number of accounts, operators  *)
(* and names; Selection, for any number of accounts; and Failures, for any *)
(* answers of the upstream.                                                *)
(***************************************************************************)
EXTENDS Pool, Selection, Failures, TLAPS, SequenceTheorems, FiniteSetTheorems,
        WellFoundedInduction

-----------------------------------------------------------------------------
(* NUMBERS *)

\* A set of numbers that is not empty has a least one.
LEMMA LeastIsThere ==
    ASSUME NEW S, S \subseteq Nat, S # {}
    PROVE  \E i \in S : \A j \in S : i <= j
<1>1. PICK i \in S : \A j \in S : ~(<<j, i>> \in OpToRel(<, Nat))
    BY NatLessThanWellFounded, WFMin
<1>2. ASSUME NEW j \in S PROVE i <= j
  <2>1. ~(j < i)
      BY <1>1 DEF OpToRel
  <2> QED
      BY <2>1
<1> QED
    BY <1>2

-----------------------------------------------------------------------------
(* POOL *)

PoolInv == PoolTypeOK /\ OneEntryPerCredential

-----------------------------------------------------------------------------
(* The operators *)

\* Every nonempty set of positions has a first one.
LEMMA FirstIsOne ==
    ASSUME NEW S \in SUBSET Nat, S # {}
    PROVE  First(S) \in S /\ \A j \in S : First(S) <= j
BY LeastIsThere DEF First

LEMMA ReplaceType ==
    ASSUME NEW e \in Entries, NEW a \in Entries
    PROVE  replace_credential(e, a) \in Entries /\ replace_credential(e, a).secret = a.secret
BY DEF Entries, replace_credential

\* Removing an entry moves those behind it one forward and changes none.
LEMMA Without ==
    ASSUME pool \in Seq(Entries), NEW i \in 1 .. Len(pool)
    PROVE  /\ WithoutAccount(i) \in Seq(Entries)
           /\ Len(WithoutAccount(i)) = Len(pool) - 1
           /\ \A k \in 1 .. Len(pool) - 1 :
                 WithoutAccount(i)[k] = pool[IF k < i THEN k ELSE k + 1]
<1> DEFINE front == SubSeq(pool, 1, i - 1)
           back == SubSeq(pool, i + 1, Len(pool))
<1>1. Len(pool) \in Nat /\ i \in Nat \ {0} /\ i <= Len(pool)
  BY LenProperties
<1>2. \A k \in 1 .. Len(pool) : pool[k] \in Entries
  BY ElementOfSeq
<1>3. /\ front \in Seq(Entries) /\ Len(front) = i - 1
      /\ \A k \in 1 .. i - 1 : front[k] = pool[k]
  <2>1. \A k \in 1 .. i - 1 : pool[k] \in Entries
    BY <1>1, <1>2
  <2>2. /\ front \in Seq(Entries)
        /\ Len(front) = IF 1 <= i - 1 THEN (i - 1) - 1 + 1 ELSE 0
        /\ \A k \in 1 .. (i - 1) - 1 + 1 : front[k] = pool[1 + k - 1]
    BY <1>1, <2>1, SubSeqProperties
  <2> QED BY <1>1, <2>2
<1>4. /\ back \in Seq(Entries) /\ Len(back) = Len(pool) - i
      /\ \A k \in 1 .. Len(pool) - i : back[k] = pool[i + k]
  <2>1. \A k \in i + 1 .. Len(pool) : pool[k] \in Entries
    BY <1>1, <1>2
  <2>2. /\ back \in Seq(Entries)
        /\ Len(back) = IF i + 1 <= Len(pool) THEN Len(pool) - (i + 1) + 1 ELSE 0
        /\ \A k \in 1 .. Len(pool) - (i + 1) + 1 : back[k] = pool[(i + 1) + k - 1]
    BY <1>1, <2>1, SubSeqProperties
  <2> QED BY <1>1, <2>2
<1>5. /\ front \o back \in Seq(Entries)
      /\ Len(front \o back) = Len(front) + Len(back)
      /\ \A k \in 1 .. Len(front) + Len(back) :
            (front \o back)[k] = IF k <= Len(front) THEN front[k] ELSE back[k - Len(front)]
  BY <1>3, <1>4, ConcatProperties
<1>6. WithoutAccount(i) = front \o back
  BY DEF WithoutAccount
<1> HIDE DEF front, back
<1>7. ASSUME NEW k \in 1 .. Len(pool) - 1
      PROVE  (front \o back)[k] = pool[IF k < i THEN k ELSE k + 1]
  <2>1. CASE k < i
    <3>1. k \in 1 .. i - 1 /\ k <= Len(front) /\ k \in 1 .. Len(front) + Len(back)
      BY <1>1, <1>3, <1>4, <2>1
    <3> QED BY <1>3, <1>5, <2>1, <3>1
  <2>2. CASE ~(k < i)
    <3>1. /\ k - (i - 1) \in 1 .. Len(pool) - i /\ ~(k <= Len(front))
          /\ k \in 1 .. Len(front) + Len(back) /\ i + (k - (i - 1)) = k + 1
      BY <1>1, <1>3, <1>4, <2>2
    <3>2. (front \o back)[k] = back[k - (i - 1)]
      BY <1>3, <1>5, <3>1
    <3>3. back[k - (i - 1)] = pool[i + (k - (i - 1))]
      BY <1>4, <3>1
    <3> QED BY <2>2, <3>1, <3>2, <3>3
  <2> QED BY <2>1, <2>2
<1>8. Len(front \o back) = Len(pool) - 1
  <2>1. (i - 1) + (Len(pool) - i) = Len(pool) - 1
    BY <1>1
  <2> QED BY <1>3, <1>4, <1>5, <2>1
<1> QED BY <1>5, <1>6, <1>7, <1>8

\* One entry replaced by one of a credential no other entry has.
LEMMA Replaced ==
    ASSUME pool \in Seq(Entries), OneEntryPerCredential, NEW i \in 1 .. Len(pool), NEW e \in Entries,
           \A j \in 1 .. Len(pool) : pool[j].secret = e.secret => j = i,
           pool' = [pool EXCEPT ![i] = e]
    PROVE  pool' \in Seq(Entries) /\ OneEntryPerCredential'
<1>1. /\ pool' \in Seq(Entries) /\ Len(pool') = Len(pool)
      /\ \A j \in 1 .. Len(pool) : pool'[j] = IF j = i THEN e ELSE pool[j]
  BY ExceptSeq
<1>2. DOMAIN pool = 1 .. Len(pool) /\ DOMAIN pool' = 1 .. Len(pool)
  BY <1>1, LenProperties
<1> QED BY <1>1, <1>2 DEF OneEntryPerCredential

-----------------------------------------------------------------------------
(* The commands *)

LEMMA UpsertPreserves ==
    ASSUME PoolInv, NEW a \in Entries, Upsert(a)
    PROVE  PoolInv'
<1> USE DEF PoolInv
<1>1. pool \in Seq(Entries) /\ DOMAIN pool = 1 .. Len(pool) /\ Len(pool) \in Nat
  BY LenProperties DEF PoolTypeOK
<1>2. \A i \in 1 .. Len(pool) : pool[i] \in Entries
  BY <1>1, ElementOfSeq
<1>3. pool' \in Seq(Entries) /\ OneEntryPerCredential'
  <2>1. CASE Known(a) = {}
    <3>1. pool' = Append(pool, a)
      BY <2>1 DEF Upsert
    <3>2. \A i \in 1 .. Len(pool) : pool[i].secret # a.secret
      BY <1>1, <2>1 DEF Known, SameCredential
    <3>3. /\ pool' \in Seq(Entries) /\ Len(pool') = Len(pool) + 1
          /\ \A i \in 1 .. Len(pool) : pool'[i] = pool[i]
          /\ pool'[Len(pool) + 1] = a
      BY <1>1, <3>1, AppendProperties
    <3>4. DOMAIN pool' = 1 .. Len(pool) + 1
      BY <3>3, LenProperties
    <3> QED BY <1>1, <3>2, <3>3, <3>4 DEF OneEntryPerCredential
  <2>2. CASE Known(a) # {}
    <3> DEFINE i == First(Known(a))
    <3>1. i \in Known(a) /\ i \in 1 .. Len(pool)
      <4>1. Known(a) \in SUBSET (1 .. Len(pool))
        BY <1>1 DEF Known, SameCredential, SamePool
      <4>2. Known(a) \in SUBSET Nat
        BY <1>1, <4>1
      <4> QED BY <2>2, <4>1, <4>2, FirstIsOne
    <3>2. \A j \in 1 .. Len(pool) : pool[j].secret = a.secret => j = i
      BY <1>1, <3>1 DEF Known, SameCredential, OneEntryPerCredential
    <3>3. pool' = [pool EXCEPT ![i] = replace_credential(pool[i], a)]
      BY <2>2 DEF Upsert
    <3>4. /\ replace_credential(pool[i], a) \in Entries
          /\ replace_credential(pool[i], a).secret = a.secret
      BY <1>2, <3>1, ReplaceType
    <3> HIDE DEF i
    <3> QED BY <1>1, <3>1, <3>2, <3>3, <3>4, Replaced
  <2> QED BY <2>1, <2>2
<1> QED BY <1>3 DEF Upsert, PoolTypeOK

LEMMA ResolvePreserves ==
    ASSUME PoolInv, NEW o \in Operators, ResolveSelector(o)
    PROVE  PoolInv'
<1> USE DEF PoolInv
<1>1. PICK command \in Commands, i \in DOMAIN pool :
          operator' = [operator EXCEPT ![o] =
              [pc |-> "resolved", command |-> command, index |-> i, credential |-> pool[i].secret]]
  BY DEF ResolveSelector
<1>2. pool' = pool /\ i \in Nat /\ pool[i].secret \in Secrets
  <2>1. pool \in Seq(Entries) /\ i \in 1 .. Len(pool) /\ Len(pool) \in Nat
    BY LenProperties DEF PoolTypeOK
  <2>2. pool[i] \in Entries
    BY <2>1, ElementOfSeq
  <2> QED BY <2>1, <2>2 DEF ResolveSelector, Entries
<1> QED BY <1>1, <1>2 DEF PoolTypeOK, OneEntryPerCredential

\* What a command does to the entry it names, and that it leaves the others alone.
LEMMA ChangedPreserves ==
    ASSUME PoolInv, NEW command \in Commands, NEW i \in 1 .. Len(pool), pool' = Changed(command, i)
    PROVE  /\ pool' \in Seq(Entries) /\ OneEntryPerCredential'
           /\ \A k \in DOMAIN pool : k # i => \E j \in DOMAIN pool' : pool'[j] = pool[k]
<1> USE DEF PoolInv
<1>1. pool \in Seq(Entries) /\ DOMAIN pool = 1 .. Len(pool) /\ Len(pool) \in Nat /\ pool[i] \in Entries
  BY LenProperties, ElementOfSeq DEF PoolTypeOK
<1>2. CASE command = "remove"
  <2>1. /\ pool' \in Seq(Entries) /\ Len(pool') = Len(pool) - 1
        /\ \A k \in 1 .. Len(pool) - 1 : pool'[k] = pool[IF k < i THEN k ELSE k + 1]
    BY <1>1, <1>2, Without DEF Changed
  <2>2. DOMAIN pool' = 1 .. Len(pool) - 1
    BY <2>1, LenProperties
  <2>3. OneEntryPerCredential'
    <3> SUFFICES ASSUME NEW k \in 1 .. Len(pool) - 1, NEW l \in 1 .. Len(pool) - 1,
                        pool'[k].secret = pool'[l].secret
                 PROVE  k = l
      BY <2>2 DEF OneEntryPerCredential
    <3> DEFINE p == IF k < i THEN k ELSE k + 1
               q == IF l < i THEN l ELSE l + 1
    <3>1. p \in 1 .. Len(pool) /\ q \in 1 .. Len(pool) /\ (p = q => k = l)
      BY <1>1
    <3>2. pool'[k] = pool[p] /\ pool'[l] = pool[q]
      BY <2>1
    <3> HIDE DEF p, q
    <3> QED BY <1>1, <3>1, <3>2 DEF OneEntryPerCredential
  <2>4. ASSUME NEW k \in 1 .. Len(pool), k # i
        PROVE  \E j \in 1 .. Len(pool) - 1 : pool'[j] = pool[k]
    <3>1. CASE k < i
      <4>1. k \in 1 .. Len(pool) - 1
        BY <1>1, <3>1
      <4> QED BY <2>1, <3>1, <4>1
    <3>2. CASE ~(k < i)
      <4>1. k - 1 \in 1 .. Len(pool) - 1 /\ ~(k - 1 < i) /\ (k - 1) + 1 = k
        BY <1>1, <2>4, <3>2
      <4>2. pool'[k - 1] = pool[(k - 1) + 1]
        BY <2>1, <4>1
      <4> QED BY <4>1, <4>2
    <3> QED BY <3>1, <3>2
  <2> QED BY <1>1, <2>1, <2>2, <2>3, <2>4
<1>3. ASSUME NEW e \in Entries, e.secret = pool[i].secret, pool' = [pool EXCEPT ![i] = e]
      PROVE  /\ pool' \in Seq(Entries) /\ OneEntryPerCredential'
             /\ \A k \in DOMAIN pool : k # i => \E j \in DOMAIN pool' : pool'[j] = pool[k]
  <2>1. \A j \in 1 .. Len(pool) : pool[j].secret = e.secret => j = i
    BY <1>1, <1>3 DEF OneEntryPerCredential
  <2>2. pool' \in Seq(Entries) /\ OneEntryPerCredential'
    BY <1>1, <1>3, <2>1, Replaced
  <2>3. DOMAIN pool' = DOMAIN pool /\ \A k \in DOMAIN pool : k # i => pool'[k] = pool[k]
    BY <1>1, <1>3
  <2> QED BY <2>2, <2>3
<1>4. CASE command = "enable"
  <2>1. [pool[i] EXCEPT !.enabled = TRUE] \in Entries /\ [pool[i] EXCEPT !.enabled = TRUE].secret = pool[i].secret
    BY <1>1 DEF Entries
  <2>2. pool' = [pool EXCEPT ![i] = [pool[i] EXCEPT !.enabled = TRUE]]
    BY <1>4 DEF Changed
  <2> QED BY <1>3, <2>1, <2>2
<1>5. CASE command = "disable"
  <2>1. [pool[i] EXCEPT !.enabled = FALSE] \in Entries /\ [pool[i] EXCEPT !.enabled = FALSE].secret = pool[i].secret
    BY <1>1 DEF Entries
  <2>2. pool' = [pool EXCEPT ![i] = [pool[i] EXCEPT !.enabled = FALSE]]
    BY <1>5 DEF Changed
  <2> QED BY <1>3, <2>1, <2>2
<1>6. CASE command = "clear-holds"
  <2>1. /\ [pool[i] EXCEPT !.held = FALSE, !.limited = FALSE] \in Entries
        /\ [pool[i] EXCEPT !.held = FALSE, !.limited = FALSE].secret = pool[i].secret
    BY <1>1 DEF Entries
  <2>2. pool' = [pool EXCEPT ![i] = [pool[i] EXCEPT !.held = FALSE, !.limited = FALSE]]
    BY <1>6 DEF Changed
  <2> QED BY <1>3, <2>1, <2>2
<1> QED BY <1>2, <1>4, <1>5, <1>6 DEF Commands

LEMMA ApplyPreserves ==
    ASSUME PoolInv, NEW o \in Operators, ApplyCommand(o)
    PROVE  /\ PoolInv'
           /\ \A k \in DOMAIN pool : pool[k].secret # operator[o].credential =>
                 \E j \in DOMAIN pool' : pool'[j] = pool[k]
<1> USE DEF PoolInv
<1> DEFINE found == {i \in DOMAIN pool : pool[i].secret = operator[o].credential}
<1>1. /\ pool \in Seq(Entries) /\ DOMAIN pool = 1 .. Len(pool) /\ Len(pool) \in Nat
      /\ operator[o].command \in Commands
  BY LenProperties DEF PoolTypeOK, ApplyCommand
<1>2. /\ pool' = IF found = {} THEN pool ELSE Changed(operator[o].command, First(found))
      /\ operator' = [operator EXCEPT ![o] = Resting]
  BY DEF ApplyCommand
<1>3. Resting \in [pc : {"idle", "resolved"}, command : Commands \cup {"none"},
                   index : Nat, credential : Secrets \cup {"none"}] /\ Resting.pc = "idle"
  BY DEF Resting
<1>4. /\ operator' \in [Operators -> [pc : {"idle", "resolved"}, command : Commands \cup {"none"},
                                      index : Nat, credential : Secrets \cup {"none"}]]
      /\ \A p \in Operators : operator'[p].pc = "resolved" => operator'[p].command \in Commands
  BY <1>2, <1>3 DEF PoolTypeOK
<1>5. CASE found = {}
  <2>1. pool' = pool
    BY <1>2, <1>5
  <2> QED BY <1>4, <2>1 DEF PoolTypeOK, OneEntryPerCredential
<1>6. CASE found # {}
  <2>1. First(found) \in found
    <3>1. found \in SUBSET Nat
      BY <1>1
    <3> QED BY <1>6, <3>1, FirstIsOne
  <2>2. First(found) \in 1 .. Len(pool) /\ pool[First(found)].secret = operator[o].credential
    BY <1>1, <2>1
  <2>3. pool' = Changed(operator[o].command, First(found))
    BY <1>2, <1>6
  <2> HIDE DEF found
  <2>4. /\ pool' \in Seq(Entries) /\ OneEntryPerCredential'
        /\ \A k \in DOMAIN pool : k # First(found) => \E j \in DOMAIN pool' : pool'[j] = pool[k]
    BY <1>1, <2>2, <2>3, ChangedPreserves
  <2> QED BY <1>4, <2>2, <2>4 DEF PoolTypeOK
<1> QED BY <1>5, <1>6

LEMMA JudgedPreserves ==
    ASSUME PoolInv, NEW i \in DOMAIN pool, Judged(i)
    PROVE  PoolInv'
<1> USE DEF PoolInv
<1>1. pool \in Seq(Entries) /\ i \in 1 .. Len(pool) /\ DOMAIN pool = 1 .. Len(pool) /\ pool[i] \in Entries
  BY LenProperties, ElementOfSeq DEF PoolTypeOK
<1>2. PICK e \in Entries : pool' = [pool EXCEPT ![i] = e] /\ e.secret = pool[i].secret
  <2>1. CASE pool' = [pool EXCEPT ![i].held = TRUE]
    <3>1. [pool[i] EXCEPT !.held = TRUE] \in Entries /\ [pool[i] EXCEPT !.held = TRUE].secret = pool[i].secret
      BY <1>1 DEF Entries
    <3> QED BY <2>1, <3>1
  <2>2. CASE pool' = [pool EXCEPT ![i].limited = TRUE]
    <3>1. [pool[i] EXCEPT !.limited = TRUE] \in Entries /\ [pool[i] EXCEPT !.limited = TRUE].secret = pool[i].secret
      BY <1>1 DEF Entries
    <3> QED BY <2>2, <3>1
  <2> QED BY <2>1, <2>2 DEF Judged
<1>3. \A j \in 1 .. Len(pool) : pool[j].secret = e.secret => j = i
  BY <1>1, <1>2 DEF OneEntryPerCredential
<1>4. pool' \in Seq(Entries) /\ OneEntryPerCredential'
  BY <1>1, <1>2, <1>3, Replaced
<1> QED BY <1>4 DEF PoolTypeOK, Judged

LEMMA PoolInvInit == PoolInit => PoolInv
BY EmptySeq DEF PoolInit, PoolInv, PoolTypeOK, OneEntryPerCredential, Resting

LEMMA PoolInvNext == PoolInv /\ [PoolNext]_poolVars => PoolInv'
<1> SUFFICES ASSUME PoolInv, [PoolNext]_poolVars PROVE PoolInv'
  OBVIOUS
<1>1. CASE UNCHANGED poolVars
  BY <1>1 DEF poolVars, PoolInv, PoolTypeOK, OneEntryPerCredential
<1>2. ASSUME NEW secret \in Secrets, NEW email \in Emails, NEW project \in ProjectIds,
             Upsert(NewAccount(secret, email, project))
      PROVE  PoolInv'
  <2>1. NewAccount(secret, email, project) \in Entries
    BY DEF NewAccount, Entries
  <2> QED BY <1>2, <2>1, UpsertPreserves
<1>3. ASSUME NEW o \in Operators, ResolveSelector(o) \/ ApplyCommand(o) PROVE PoolInv'
  BY <1>3, ResolvePreserves, ApplyPreserves
<1>4. ASSUME NEW i \in DOMAIN pool, Judged(i) PROVE PoolInv'
  BY <1>4, JudgedPreserves
<1> QED BY <1>1, <1>2, <1>3, <1>4 DEF PoolNext

LEMMA PoolInvariance == PoolSpec => []PoolInv
BY PoolInvInit, PoolInvNext, PTL DEF PoolSpec

-----------------------------------------------------------------------------
(* Theorems *)

\* No credential is in the pool twice after any sequence of logins, commands and
\* judgements (upsert_account, mutate_by_selector).
THEOREM CredentialsAreUnique == PoolSpec => []OneEntryPerCredential
<1>1. PoolInv => OneEntryPerCredential
  BY DEF PoolInv
<1> QED BY <1>1, PoolInvariance, PTL

\* A command resolved on a snapshot changes only the account it resolved to,
\* whatever the pool has become (mutate_by_selector).
THEOREM CommandsHitOnlyTheirs == PoolSpec => CommandHitsWhatWasSeen
<1> DEFINE OthersStay ==
        \A o \in Operators : operator[o].pc = "resolved" /\ operator'[o].pc = "idle" =>
          \A i \in DOMAIN pool : pool[i].secret # operator[o].credential =>
              \E j \in DOMAIN pool' : pool'[j] = pool[i]
<1>1. PoolInv /\ [PoolNext]_poolVars => [OthersStay]_poolVars
  <2> SUFFICES ASSUME PoolInv, PoolNext,
                      NEW o \in Operators, operator[o].pc = "resolved", operator'[o].pc = "idle"
               PROVE  \A i \in DOMAIN pool : pool[i].secret # operator[o].credential =>
                          \E j \in DOMAIN pool' : pool'[j] = pool[i]
    OBVIOUS
  <2>1. operator' # operator
    OBVIOUS
  <2>2. PICK p \in Operators : ResolveSelector(p) \/ ApplyCommand(p)
    BY <2>1 DEF PoolNext, Upsert, Judged
  <2>3. p = o
    <3>1. p # o => operator'[o] = operator[o]
      BY <2>2 DEF ResolveSelector, ApplyCommand, PoolInv, PoolTypeOK
    <3> QED BY <3>1
  <2>4. ApplyCommand(o)
    BY <2>2, <2>3 DEF ResolveSelector
  <2> QED BY <2>4, ApplyPreserves
<1> QED BY <1>1, PoolInvariance, PTL DEF PoolSpec, CommandHitsWhatWasSeen

-----------------------------------------------------------------------------
(* SELECTION *)

SelectionTypes ==
    /\ strategy \in Strategies \cup {"unset"}
    /\ tick \in Nat /\ attempts \in Nat
    /\ health \in [Pooled -> [score : Int, at : Int]]
    /\ bucket \in [Pooled -> [tokens : Int, at : Int]]
    /\ used \in [Pooled -> [tick : Nat, order : Nat]]
    /\ cursor \in 0 .. PoolSize
    /\ request \in [chosen : 0 .. PoolSize, tried : SUBSET Pooled, over : SUBSET Pooled]
    /\ passed \in [Pooled -> Nat]

\* The places a search from the cursor looks at before it comes to an account.
Turn(a) == IF a > cursor THEN a - cursor - 1 ELSE a - cursor - 1 + PoolSize

\* Those that served after an account last did.
Later(a) == {c \in Pooled : used[c].order > used[a].order}

\* Round-robin: who is passed over comes after the chosen one in the order of the
\* search, which began at the cursor as long as anyone is passed over.
TurnsInduct ==
    strategy = "round-robin" =>
        /\ request.over # {} => cursor \notin request.tried
        /\ request.chosen # Nobody => \A b \in request.over : Turn(request.chosen) < Turn(b)
        /\ \A b \in Pooled : passed[b] + Turn(b) < PoolSize

\* Least-recently-used: who is passed over served after the chosen one.
OrdersInduct ==
    /\ \A a \in Pooled : used[a].order <= attempts
    /\ request.chosen \notin request.over
    /\ strategy = "least-recently-used" =>
        /\ request.chosen # Nobody =>
              \A b \in request.over : used[request.chosen].order <= used[b].order
        /\ \A b \in Pooled : passed[b] <= Cardinality(Later(b))

Fresh == strategy = "unset" => request = NewRequest /\ passed = [a \in Pooled |-> 0]

RotationInductive == SelectionTypes /\ Fresh /\ TurnsInduct /\ OrdersInduct

-----------------------------------------------------------------------------
(* What the strategies choose *)

\* The first able account of a search, and none of the others able is before it.
LEMMA FirstInTurn ==
    ASSUME SelectionTypes, NEW candidates \in SUBSET Pooled, NEW able \in SUBSET candidates, able # {}
    PROVE  /\ RoundRobin(candidates, able) \in able
           /\ cursor \in candidates \/ cursor = Nobody =>
                 \A b \in able \ {RoundRobin(candidates, able)} : Turn(RoundRobin(candidates, able)) < Turn(b)
<1> DEFINE start == IF cursor \in candidates THEN cursor + 1 ELSE 1
           D(a) == Distance(candidates, start, a)
           places == {D(a) : a \in able}
<1>1. start \in 1 .. PoolSize + 1 /\ PoolSize \in Nat \ {0}
  <2>1. PoolSize \in Nat \ {0}
      BY SelectionAssumption
  <2>2. cursor \in candidates => cursor \in 1 .. PoolSize
      BY DEF Pooled
  <2> QED
      BY <2>1, <2>2
<1>2. \A a \in able : D(a) \in Nat
    BY <1>1 DEF Distance, Pooled
<1>3. \A a, b \in able : D(a) = D(b) => a = b
    BY <1>1 DEF Distance, Pooled
<1>4. \E a \in able : \A b \in able : D(a) <= D(b)
  <2>1. places \subseteq Nat /\ places # {}
      BY <1>2
  <2>2. PICK i \in places : \A j \in places : i <= j
      BY <2>1, LeastIsThere
  <2> QED
      BY <2>2
<1> DEFINE r == RoundRobin(candidates, able)
<1>5. r \in able /\ \A b \in able : D(r) <= D(b)
    BY <1>4 DEF RoundRobin
<1>6. ASSUME cursor \in candidates \/ cursor = Nobody, NEW b \in able \ {r} PROVE Turn(r) < Turn(b)
  <2>1. D(r) < D(b)
      BY <1>2, <1>3, <1>5
  <2>2. start = cursor + 1
      BY <1>6 DEF Nobody, Pooled
  <2>3. \A a \in able : D(a) = Turn(a)
    <3>1. cursor \in 0 .. PoolSize
        BY DEF SelectionTypes
    <3>2. \A a \in able : a \in 1 .. PoolSize
        BY DEF Pooled
    <3> QED
        BY <2>2, <3>1, <3>2, <1>1 DEF Distance, Turn
  <2> QED
      BY <2>1, <2>3, <1>5
<1> HIDE DEF r
<1> QED
    BY <1>5, <1>6 DEF r

\* There is a best account among those able.
LEMMA BestIsAble ==
    ASSUME SelectionTypes, NEW able \in SUBSET Pooled, able # {}
    PROVE  Best(able) \in able
<1> DEFINE Beats(a, b) == Total(b) < Total(a) \/ (Total(b) = Total(a) /\ b <= a)
           Upto(k) == {a \in able : a <= k}
           bad == {k \in Nat : Upto(k) # {} /\ ~\E a \in Upto(k) : \A b \in Upto(k) : Beats(a, b)}
<1>1. \A a \in able : a \in Nat /\ a <= PoolSize /\ Total(a) \in Int
  <2> TAKE a \in able
  <2>1. HealthOf(a) \in Int /\ TokensOf(a) \in Int /\ used[a].tick \in Int /\ tick \in Int
      BY SelectionAssumption DEF SelectionTypes, HealthOf, TokensOf, AtMost, HealthMax
  <2>2. (5000 * TokensOf(a)) \div TokenMax \in Int
    <3>1. 5000 * TokensOf(a) \in Int
        BY <2>1
    <3> QED
        BY <3>1, SelectionAssumption
  <2> QED
      BY <2>1, <2>2, SelectionAssumption DEF Total, AtMost, Pooled
<1>2. bad = {}
  <2> SUFFICES ASSUME bad # {} PROVE FALSE
      OBVIOUS
  <2>1. PICK k \in bad : \A j \in bad : k <= j
      BY LeastIsThere
  <2>2. k \in Nat \ {0}
    <3>1. PICK a \in Upto(k) : TRUE
        BY <2>1
    <3>2. a \in 1 .. PoolSize /\ a <= k /\ k \in Nat
        BY <2>1, <3>1 DEF Pooled
    <3> QED
        BY <3>2
  <2>3. k - 1 \in Nat /\ k - 1 \notin bad
      BY <2>1, <2>2
  <2>4. \A a \in able : a <= k <=> a <= k - 1 \/ a = k
      BY <1>1, <2>2
  <2>5. CASE Upto(k - 1) = {}
    <3>1. \A b \in Upto(k) : b = k
        BY <2>4, <2>5
    <3>2. k \in Upto(k) /\ Beats(k, k)
        BY <3>1, <1>1
    <3> QED
        BY <3>1, <3>2
  <2>6. CASE Upto(k - 1) # {}
    <3>1. PICK a \in Upto(k - 1) : \A b \in Upto(k - 1) : Beats(a, b)
        BY <2>3, <2>6
    <3>2. a \in Upto(k) /\ a \in able /\ a < k
        BY <2>2, <1>1
    <3>3. CASE k \in able
      <4>1. Beats(a, k) \/ Beats(k, a)
          BY <3>2, <3>3, <1>1
      <4>2. CASE Beats(a, k)
          BY <4>2, <3>1, <3>2, <2>4
      <4>3. CASE Beats(k, a)
        <5>1. \A b \in Upto(k - 1) : Beats(k, b)
            BY <4>3, <3>1, <3>2, <3>3, <1>1
        <5>2. k \in Upto(k) /\ Beats(k, k)
            BY <3>3, <1>1
        <5> QED
            BY <5>1, <5>2, <2>4
      <4> QED
          BY <4>1, <4>2, <4>3
    <3>4. CASE k \notin able
        BY <3>1, <3>2, <3>4, <2>4
    <3> QED
        BY <3>3, <3>4
  <2> QED
      BY <2>5, <2>6
<1>3. Upto(PoolSize) = able /\ PoolSize \notin bad /\ PoolSize \in Nat
    BY <1>1, <1>2, SelectionAssumption
<1>4. \E a \in able : \A b \in able : Beats(a, b)
    BY <1>3
<1> QED
    BY <1>4 DEF Best

LEMMA HealthIsBounded ==
    ASSUME SelectionTypes, NEW a \in Pooled
    PROVE  HealthOf(a) \in Int /\ HealthOf(a) <= HealthMax
  BY DEF SelectionTypes, HealthOf, AtMost, HealthMax

\* None of the able accounts has rested longer than the chosen one.
LEMMA OldestFirst ==
    ASSUME SelectionTypes, NEW able \in SUBSET Pooled, able # {}
    PROVE  /\ LeastRecentlyUsed(able) \in able
           /\ \A b \in able : used[LeastRecentlyUsed(able)].order <= used[b].order
<1> DEFINE orders == {used[a].order : a \in able}
<1>1. \A a \in able : used[a].order \in Nat
    BY DEF SelectionTypes
<1>2. PICK n \in orders : \A m \in orders : n <= m
  <2>1. orders \subseteq Nat /\ orders # {}
      BY <1>1
  <2> QED
      BY <2>1, LeastIsThere
<1> DEFINE oldest == {a \in able : used[a].order = n}
           ills == {HealthMax - HealthOf(a) : a \in oldest}
<1>3. \A a \in able : HealthOf(a) \in Int /\ HealthMax - HealthOf(a) \in Nat
    BY HealthIsBounded DEF HealthMax
<1>4. PICK h \in ills : \A g \in ills : h <= g
  <2>1. ills \subseteq Nat /\ ills # {}
      BY <1>3, <1>2
  <2> HIDE DEF ills
  <2> QED
      BY <2>1, LeastIsThere
<1> DEFINE fittest == {a \in oldest : HealthMax - HealthOf(a) = h}
<1>5. PICK a \in fittest : \A b \in fittest : a <= b
  <2>1. fittest \subseteq Nat
    <3>1. fittest \subseteq Pooled
        OBVIOUS
    <3> QED
        BY <3>1 DEF Pooled
  <2>2. fittest # {}
      BY <1>4
  <2> HIDE DEF fittest
  <2> QED
      BY <2>1, <2>2, LeastIsThere
<1>6. ASSUME NEW b \in able
      PROVE  \/ used[a].order < used[b].order
             \/ used[a].order = used[b].order /\ HealthOf(a) > HealthOf(b)
             \/ used[a].order = used[b].order /\ HealthOf(a) = HealthOf(b) /\ a <= b
  <2>1. n <= used[b].order /\ used[a].order = n /\ HealthMax - HealthOf(a) = h
      BY <1>2
  <2>2. CASE b \notin oldest
      BY <2>1, <2>2, <1>1
  <2>3. CASE b \in oldest
    <3>1. h <= HealthMax - HealthOf(b) /\ used[b].order = n
        BY <2>3, <1>4
    <3>2. h = HealthMax - HealthOf(b) => b \in fittest
        BY <2>3
    <3>3. h = HealthMax - HealthOf(b) => a <= b
        BY <3>2, <1>5
    <3>4. HealthOf(a) \in Int /\ HealthOf(b) \in Int /\ HealthMax \in Int
        BY <1>3 DEF HealthMax
    <3> QED
        BY <2>1, <3>1, <3>3, <3>4
  <2> QED
      BY <2>2, <2>3
<1> DEFINE chosen == LeastRecentlyUsed(able)
<1>7. a \in able
    OBVIOUS
<1>8. /\ chosen \in able
      /\ \A b \in able :
            \/ used[chosen].order < used[b].order
            \/ used[chosen].order = used[b].order /\ HealthOf(chosen) > HealthOf(b)
            \/ used[chosen].order = used[b].order /\ HealthOf(chosen) = HealthOf(b) /\ chosen <= b
  <2> HIDE DEF oldest, fittest, ills
  <2> QED
      BY <1>6, <1>7 DEF LeastRecentlyUsed
<1> HIDE DEF chosen
<1>9. \A b \in able : used[chosen].order <= used[b].order
    BY <1>1, <1>8
<1> QED
    BY <1>8, <1>9 DEF chosen

-----------------------------------------------------------------------------
(* The steps *)

LEMMA LaterIsFinite ==
    ASSUME NEW b \in Pooled
    PROVE  IsFiniteSet(Later(b)) /\ Cardinality(Later(b)) \in Nat
<1>1. IsFiniteSet(Pooled)
    BY SelectionAssumption, FS_Interval DEF Pooled
<1>2. IsFiniteSet(Later(b))
    BY <1>1, FS_Subset DEF Later
<1> QED
    BY <1>2, FS_CardinalityType

LEMMA SelectionInitInductive == SelectionInit => RotationInductive
<1> SUFFICES ASSUME SelectionInit PROVE RotationInductive
    OBVIOUS
<1>1. SelectionTypes
    BY SelectionAssumption DEF SelectionInit, SelectionTypes, NewRequest, Nobody, Initial
<1>2. Fresh /\ TurnsInduct
    BY DEF SelectionInit, Fresh, TurnsInduct
<1>3. OrdersInduct
    BY DEF SelectionInit, OrdersInduct, NewRequest, Nobody, Pooled
<1> QED
    BY <1>1, <1>2, <1>3 DEF RotationInductive

LEMMA ConfigureStep == RotationInductive /\ Configure => RotationInductive'
<1> SUFFICES ASSUME RotationInductive, Configure PROVE RotationInductive'
    OBVIOUS
<1>1. /\ strategy' \in Strategies
      /\ UNCHANGED <<tick, health, bucket, used, cursor, request, attempts, passed>>
      /\ request = NewRequest /\ passed = [a \in Pooled |-> 0]
    BY DEF Configure, RotationInductive, Fresh
<1>2. SelectionTypes' /\ Fresh'
    BY <1>1 DEF RotationInductive, SelectionTypes, Fresh, Strategies
<1>3. TurnsInduct'
  <2>1. \A b \in Pooled : Turn(b) < PoolSize /\ Turn(b) \in Nat
      BY SelectionAssumption DEF Turn, Pooled, RotationInductive, SelectionTypes
  <2>2. \A b \in Pooled : passed[b] + Turn(b) < PoolSize
      BY <1>1, <2>1
  <2>3. request.tried = {} /\ request.chosen = Nobody
      BY <1>1 DEF NewRequest
  <2> QED
      BY <1>1, <2>2, <2>3 DEF TurnsInduct, Turn
<1>4. OrdersInduct'
  <2>1. \A b \in Pooled : passed[b] <= Cardinality(Later(b))
      BY <1>1, LaterIsFinite
  <2>2. request.chosen = Nobody
      BY <1>1 DEF NewRequest
  <2>3. \A b \in Pooled : Later(b)' = Later(b)
      BY <1>1 DEF Later
  <2> QED
      BY <1>1, <2>1, <2>2, <2>3 DEF RotationInductive, OrdersInduct
<1> QED
    BY <1>2, <1>3, <1>4 DEF RotationInductive

LEMMA SelectStep == RotationInductive /\ Select => RotationInductive'
<1> SUFFICES ASSUME RotationInductive, Select PROVE RotationInductive'
    OBVIOUS
<1>0. /\ SelectionTypes /\ TurnsInduct /\ OrdersInduct /\ strategy # "unset"
      /\ UNCHANGED <<strategy, tick, health, used, cursor, attempts, passed>>
    BY DEF RotationInductive, Select
<1> DEFINE candidates == Pooled \ request.tried
<1>1. \E able \in SUBSET candidates :
         \/ able = {} /\ request' = NewRequest
         \/ /\ able # {}
            /\ request' = [request EXCEPT !.chosen = Chosen(candidates, able),
                                          !.over = (@ \cap able) \ {Chosen(candidates, able)}]
  <2>1. PICK available \in SUBSET candidates :
           LET able == {a \in available : TokensOf(a) >= 1 /\ Healthy(a)}
           IN IF able = {}
              THEN request' = NewRequest /\ UNCHANGED bucket
              ELSE LET a == Chosen(candidates, able)
                   IN /\ request' = [request EXCEPT !.chosen = a, !.over = (@ \cap able) \ {a}]
                      /\ bucket' = [bucket EXCEPT ![a] = [tokens |-> TokensOf(a) - 1, at |-> tick]]
      BY DEF Select
  <2> WITNESS {a \in available : TokensOf(a) >= 1 /\ Healthy(a)} \in SUBSET candidates
  <2> QED
      BY <2>1
<1>2. PICK able \in SUBSET candidates :
         \/ able = {} /\ request' = NewRequest
         \/ /\ able # {}
            /\ request' = [request EXCEPT !.chosen = Chosen(candidates, able),
                                          !.over = (@ \cap able) \ {Chosen(candidates, able)}]
    BY <1>1
<1>3. \A b \in Pooled : Turn(b)' = Turn(b) /\ Later(b)' = Later(b)
    BY <1>0 DEF Turn, Later
<1>6. bucket' \in [Pooled -> [tokens : Int, at : Int]]
  <2>1. \/ UNCHANGED bucket
        \/ \E a : bucket' = [bucket EXCEPT ![a] = [tokens |-> TokensOf(a) - 1, at |-> tick]]
      BY DEF Select
  <2>2. \A a \in Pooled : TokensOf(a) \in Int
      BY <1>0, SelectionAssumption DEF TokensOf, SelectionTypes
  <2> QED
      BY <2>1, <2>2, <1>0 DEF SelectionTypes
<1>4. CASE able = {} /\ request' = NewRequest
  <2>1. request'.chosen = Nobody /\ request'.tried = {} /\ request'.over = Pooled
      BY <1>4 DEF NewRequest
  <2>2. SelectionTypes'
    <3>1. request' \in [chosen : 0 .. PoolSize, tried : SUBSET Pooled, over : SUBSET Pooled]
        BY <1>4, SelectionAssumption DEF NewRequest, Nobody
    <3> QED
        BY <3>1, <1>6, <1>0 DEF SelectionTypes
  <2>3. TurnsInduct' /\ OrdersInduct' /\ Fresh'
      BY <1>0, <1>3, <2>1 DEF TurnsInduct, OrdersInduct, Fresh, Pooled, Nobody
  <2> QED
      BY <2>2, <2>3 DEF RotationInductive
<1>5. CASE /\ able # {}
           /\ request' = [request EXCEPT !.chosen = Chosen(candidates, able),
                                         !.over = (@ \cap able) \ {Chosen(candidates, able)}]
  <2> DEFINE a == Chosen(candidates, able)
  <2>1. request'.chosen = a /\ request'.tried = request.tried
        /\ request'.over = (request.over \cap able) \ {a}
      BY <1>5, <1>0 DEF SelectionTypes
  <2>2. candidates \in SUBSET Pooled /\ able \in SUBSET Pooled
      OBVIOUS
  <2>3. a \in able
    <3>1. strategy \in Strategies /\ able # {}
        BY <1>0, <1>5 DEF SelectionTypes
    <3>2. RoundRobin(candidates, able) \in able
        BY <3>1, <1>0, <2>2, FirstInTurn
    <3>3. LeastRecentlyUsed(able) \in able
        BY <3>1, <1>0, <2>2, OldestFirst
    <3>4. Best(able) \in able
        BY <3>1, <1>0, <2>2, BestIsAble
    <3> HIDE DEF candidates
    <3> QED
        BY <3>1, <3>2, <3>3, <3>4 DEF Chosen, Hybrid, Sticky, Strategies
  <2>4. SelectionTypes'
    <3>1. request' \in [chosen : 0 .. PoolSize, tried : SUBSET Pooled, over : SUBSET Pooled]
      <4>1. a \in 0 .. PoolSize
        <5> HIDE DEF a
        <5> QED
            BY <2>3, SelectionAssumption DEF Pooled
      <4> HIDE DEF a
      <4>2. request' = [request EXCEPT !.chosen = a, !.over = (@ \cap able) \ {a}]
          BY <1>5 DEF a
      <4> QED
          BY <4>1, <4>2, <1>0 DEF SelectionTypes
    <3> QED
        BY <3>1, <1>6, <1>0 DEF SelectionTypes
  <2>5. TurnsInduct'
    <3> SUFFICES ASSUME strategy = "round-robin" PROVE TurnsInduct'
        BY <1>0 DEF TurnsInduct
    <3>1. a = RoundRobin(candidates, able)
        BY DEF Chosen
    <3>2. ASSUME request'.over # {} PROVE cursor \notin request.tried
        BY <3>2, <2>1, <1>0 DEF TurnsInduct
    <3>3. ASSUME NEW b \in request'.over PROVE Turn(a) < Turn(b)
      <4>1. cursor \in candidates \/ cursor = Nobody
          BY <3>2, <3>3, <1>0 DEF SelectionTypes, Pooled, Nobody
      <4>2. b \in able \ {a}
          BY <3>3, <2>1
      <4> HIDE DEF a, candidates
      <4> QED
          BY <4>1, <4>2, <3>1, <2>2, <1>0, <1>5, FirstInTurn
    <3>4. \A b \in Pooled : passed'[b] + Turn(b)' < PoolSize
        BY <1>0, <1>3 DEF TurnsInduct
    <3>5. \A b \in request'.over : Turn(request.chosen)' < Turn(b)'
      <4>1. \A b \in request'.over : b \in Pooled
          BY <2>1
      <4>2. a \in Pooled
          BY <2>3
      <4>3. \A c \in Pooled : Turn(c)' = Turn(c)
          BY <1>3
      <4>4. Turn(request.chosen)' = Turn(a)
          BY <1>0, <2>1 DEF Turn
      <4> HIDE DEF a
      <4> QED
          BY <4>1, <4>2, <4>3, <4>4, <3>3
    <3>6. request'.over # {} => cursor' \notin request'.tried
        BY <3>2, <2>1, <1>0
    <3> HIDE DEF a
    <3> QED
        BY <3>4, <3>5, <3>6 DEF TurnsInduct
  <2>6. OrdersInduct'
    <3>1. strategy = "least-recently-used" =>
             \A b \in request'.over : used[request'.chosen].order <= used[b].order
      <4> SUFFICES ASSUME strategy = "least-recently-used"
                   PROVE \A b \in request'.over : used[request'.chosen].order <= used[b].order
          OBVIOUS
      <4>1. a = LeastRecentlyUsed(able)
          BY DEF Chosen
      <4> HIDE DEF a
      <4> QED
          BY <4>1, <2>1, <2>2, <1>0, <1>5, OldestFirst
    <3> QED
        BY <3>1, <2>1, <1>0, <1>3 DEF OrdersInduct
  <2>7. Fresh'
      BY <1>0 DEF Fresh
  <2> QED
      BY <2>4, <2>5, <2>6, <2>7 DEF RotationInductive
<1> QED
    BY <1>2, <1>4, <1>5

LEMMA AdjustedTypes ==
    ASSUME SelectionTypes, NEW a \in Pooled, NEW points \in Int
    PROVE  Adjusted(a, points) \in [Pooled -> [score : Int, at : Int]]
<1>1. AtMost(IF HealthOf(a) + points < 0 THEN 0 ELSE HealthOf(a) + points, HealthMax) \in Int
    BY HealthIsBounded DEF AtMost, HealthMax
<1> QED
    BY <1>1 DEF Adjusted, SelectionTypes

LEMMA ServedStep == RotationInductive /\ Served => RotationInductive'
<1> SUFFICES ASSUME RotationInductive, Served PROVE RotationInductive'
    OBVIOUS
<1> DEFINE a == request.chosen
<1>1. /\ SelectionTypes /\ TurnsInduct /\ OrdersInduct /\ Fresh
      /\ a \in Pooled /\ strategy # "unset" /\ UNCHANGED <<strategy, tick, bucket>>
      /\ cursor' = a /\ attempts' = attempts + 1 /\ request' = NewRequest
      /\ used' = [used EXCEPT ![a] = [tick |-> tick, order |-> attempts + 1]]
      /\ passed' = [b \in Pooled |-> IF b \in request.over THEN passed[b] + 1 ELSE 0]
  <2>1. a \in Pooled
      BY SelectionAssumption DEF Served, Nobody, RotationInductive, SelectionTypes, Pooled
  <2>2. strategy # "unset"
      BY DEF Served, RotationInductive, Fresh, NewRequest
  <2> QED
      BY <2>1, <2>2 DEF Served, RotationInductive
<1>2. request'.chosen = Nobody /\ request'.tried = {} /\ request'.over = Pooled /\ Nobody \notin Pooled
    BY <1>1 DEF NewRequest, Nobody, Pooled
<1>3. SelectionTypes'
  <2>1. health' \in [Pooled -> [score : Int, at : Int]]
      BY <1>1, AdjustedTypes DEF Served
  <2>2. request' \in [chosen : 0 .. PoolSize, tried : SUBSET Pooled, over : SUBSET Pooled]
      BY <1>1, SelectionAssumption DEF NewRequest, Nobody
  <2>3. cursor' \in 0 .. PoolSize
      BY <1>1, SelectionAssumption DEF Pooled
  <2>4. used' \in [Pooled -> [tick : Nat, order : Nat]] /\ passed' \in [Pooled -> Nat]
      BY <1>1 DEF SelectionTypes
  <2> QED
      BY <1>1, <2>1, <2>2, <2>3, <2>4 DEF SelectionTypes
<1>4. Fresh'
    BY <1>1 DEF Fresh
<1>5. TurnsInduct'
  <2> SUFFICES ASSUME strategy = "round-robin", NEW b \in Pooled
               PROVE  passed'[b] + Turn(b)' < PoolSize
      BY <1>1, <1>2 DEF TurnsInduct
  <2>1. /\ a \in 1 .. PoolSize /\ b \in 1 .. PoolSize /\ cursor \in 0 .. PoolSize /\ passed[b] \in Nat
        /\ PoolSize \in Nat
      BY <1>1, SelectionAssumption DEF SelectionTypes, Pooled
  <2>2. Turn(b)' = IF b > a THEN b - a - 1 ELSE b - a - 1 + PoolSize
      BY <1>1 DEF Turn
  <2>3. CASE b \in request.over
    <3>1. Turn(a) < Turn(b) /\ passed[b] + Turn(b) < PoolSize
        BY <2>3, <1>1, <1>2 DEF TurnsInduct
    <3>2. Turn(b)' = Turn(b) - Turn(a) - 1 /\ Turn(a) >= 0
        BY <3>1, <2>1, <2>2 DEF Turn
    <3>3. Turn(a) \in Int /\ Turn(b) \in Int
        BY <2>1 DEF Turn
    <3>4. passed'[b] = passed[b] + 1
        BY <1>1, <2>3
    <3> QED
        BY <3>1, <3>2, <3>3, <3>4, <2>1
  <2>4. CASE b \notin request.over
    <3>1. passed'[b] = 0
        BY <1>1, <2>4
    <3> QED
        BY <3>1, <2>1, <2>2
  <2> QED
      BY <2>3, <2>4
<1>6. OrdersInduct'
  <2>1. \A b \in Pooled : used'[b].order = IF b = a THEN attempts + 1 ELSE used[b].order
      BY <1>1 DEF SelectionTypes
  <2>2. \A b \in Pooled : used[b].order \in Nat /\ used[b].order <= attempts /\ attempts \in Nat
      BY <1>1 DEF SelectionTypes, OrdersInduct
  <2>3. \A b \in Pooled : used'[b].order <= attempts'
      BY <1>1, <2>1, <2>2
  <2>4. ASSUME strategy = "least-recently-used", NEW b \in Pooled
        PROVE  passed'[b] <= Cardinality(Later(b)')
    <3>1. CASE b \in request.over
      <4>1. b # a /\ used[a].order <= used[b].order /\ passed[b] <= Cardinality(Later(b))
          BY <1>1, <1>2, <2>4, <3>1 DEF OrdersInduct
      <4>2. Later(b)' = Later(b) \cup {a}
          BY <1>1, <2>1, <2>2, <4>1 DEF Later
      <4>3. a \notin Later(b)
          BY <2>2, <4>1, <1>1 DEF Later
      <4>4. Cardinality(Later(b)') = Cardinality(Later(b)) + 1
          BY <4>2, <4>3, LaterIsFinite, FS_AddElement
      <4>5. passed'[b] = passed[b] + 1 /\ passed[b] \in Nat
          BY <1>1, <3>1 DEF SelectionTypes
      <4> QED
          BY <4>1, <4>4, <4>5, LaterIsFinite
    <3>2. CASE b \notin request.over
      <4>1. passed'[b] = 0
          BY <1>1, <3>2
      <4>2. IsFiniteSet(Later(b)')
        <5>1. IsFiniteSet(Pooled) /\ Later(b)' \subseteq Pooled
            BY SelectionAssumption, FS_Interval DEF Pooled, Later
        <5> QED
            BY <5>1, FS_Subset
      <4>3. Cardinality(Later(b)') \in Nat
          BY <4>2, FS_CardinalityType
      <4> QED
          BY <4>1, <4>3
    <3> QED
        BY <3>1, <3>2
  <2> QED
      BY <1>1, <1>2, <2>3, <2>4 DEF OrdersInduct
<1> QED
    BY <1>3, <1>4, <1>5, <1>6 DEF RotationInductive

LEMMA FailedStep == RotationInductive /\ Failed => RotationInductive'
<1> SUFFICES ASSUME RotationInductive, Failed PROVE RotationInductive'
    OBVIOUS
<1> DEFINE a == request.chosen
<1>1. /\ SelectionTypes /\ TurnsInduct /\ OrdersInduct /\ Fresh
      /\ a \in Pooled /\ strategy # "unset" /\ UNCHANGED <<strategy, tick, used, cursor, passed>>
      /\ request' = [request EXCEPT !.chosen = Nobody, !.tried = @ \cup {a}]
      /\ attempts' = attempts + 1
  <2>1. a \in Pooled
      BY SelectionAssumption DEF Failed, Nobody, RotationInductive, SelectionTypes, Pooled
  <2>2. strategy # "unset"
      BY DEF Failed, RotationInductive, Fresh, NewRequest
  <2> QED
      BY <2>1, <2>2 DEF Failed, RotationInductive
<1>2. /\ request'.chosen = Nobody /\ request'.tried = request.tried \cup {a}
      /\ request'.over = request.over /\ request.over \subseteq Pooled /\ Nobody \notin Pooled
    BY <1>1 DEF SelectionTypes, Pooled, Nobody
<1>3. SelectionTypes'
  <2>1. health' \in [Pooled -> [score : Int, at : Int]]
    <3>1. CASE health' = health
        BY <1>1, <3>1 DEF SelectionTypes
    <3>2. CASE health' = Adjusted(a, -20)
        BY <1>1, <3>2, AdjustedTypes
    <3> QED
        BY <3>1, <3>2 DEF Failed
  <2>2. request' \in [chosen : 0 .. PoolSize, tried : SUBSET Pooled, over : SUBSET Pooled]
    <3>1. request.tried \cup {a} \in SUBSET Pooled /\ Nobody \in 0 .. PoolSize
        BY <1>1, SelectionAssumption DEF SelectionTypes, Nobody
    <3> HIDE DEF a
    <3> QED
        BY <3>1, <1>1 DEF SelectionTypes
  <2>3. bucket' \in [Pooled -> [tokens : Int, at : Int]]
    <3>1. CASE bucket' = bucket
        BY <1>1, <3>1 DEF SelectionTypes
    <3>2. CASE bucket' = Refunded(a)
      <4>1. AtMost(TokensOf(a) + 1, TokenMax) \in Int
          BY <1>1, SelectionAssumption DEF AtMost, TokensOf, SelectionTypes
      <4>2. [tokens |-> AtMost(TokensOf(a) + 1, TokenMax), at |-> tick] \in [tokens : Int, at : Int]
          BY <1>1, <4>1 DEF SelectionTypes
      <4> HIDE DEF a
      <4> QED
          BY <1>1, <3>2, <4>2 DEF SelectionTypes, Refunded
    <3> QED
        BY <3>1, <3>2 DEF Failed
  <2> QED
      BY <1>1, <2>1, <2>2, <2>3 DEF SelectionTypes
<1>4. Fresh'
    BY <1>1 DEF Fresh
<1>5. TurnsInduct'
  <2>1. ASSUME strategy = "round-robin", request.over # {} PROVE cursor # a
    <3>1. PICK b \in request.over : Turn(a) < Turn(b)
        BY <1>1, <1>2, <2>1 DEF TurnsInduct
    <3>2. /\ b \in 1 .. PoolSize /\ a \in 1 .. PoolSize /\ cursor \in 0 .. PoolSize /\ PoolSize \in Nat
        BY <1>1, <1>2, SelectionAssumption DEF Pooled, SelectionTypes
    <3> QED
        BY <3>1, <3>2 DEF Turn
  <2>2. \A b \in Pooled : Turn(b)' = Turn(b)
      BY <1>1 DEF Turn
  <2> QED
      BY <2>1, <2>2, <1>1, <1>2 DEF TurnsInduct
<1>6. OrdersInduct'
  <2>1. \A b \in Pooled : Later(b)' = Later(b)
      BY <1>1 DEF Later
  <2>2. \A b \in Pooled : used[b].order \in Nat /\ attempts \in Nat
      BY <1>1 DEF SelectionTypes
  <2> QED
      BY <2>1, <2>2, <1>1, <1>2 DEF OrdersInduct
<1> QED
    BY <1>3, <1>4, <1>5, <1>6 DEF RotationInductive

\* Steps that touch neither the request, nor the order, nor the counts.
LEMMA AsideStep ==
    ASSUME RotationInductive, SelectionTypes',
           UNCHANGED <<strategy, used, cursor, request, attempts, passed>>
    PROVE  RotationInductive'
<1>1. \A b : Turn(b)' = Turn(b) /\ Later(b)' = Later(b)
    BY DEF Turn, Later
<1>2. TurnsInduct' /\ OrdersInduct' /\ Fresh'
    BY <1>1 DEF RotationInductive, TurnsInduct, OrdersInduct, Fresh
<1> QED
    BY <1>2 DEF RotationInductive

LEMMA SelectionStep == RotationInductive /\ [SelectionNext]_selectionVars => RotationInductive'
<1> SUFFICES ASSUME RotationInductive, [SelectionNext]_selectionVars PROVE RotationInductive'
    OBVIOUS
<1>1. CASE HalfHour
  <2>1. SelectionTypes'
      BY <1>1 DEF HalfHour, RotationInductive, SelectionTypes
  <2> QED
      BY <1>1, <2>1, AsideStep DEF HalfHour
<1>2. ASSUME NEW a \in Pooled, Recovered(a) PROVE RotationInductive'
  <2>1. SelectionTypes'
      BY <1>2 DEF Recovered, RotationInductive, SelectionTypes, HealthMax
  <2> QED
      BY <1>2, <2>1, AsideStep DEF Recovered
<1>3. CASE UNCHANGED selectionVars
  <2>1. SelectionTypes'
      BY <1>3 DEF selectionVars, RotationInductive, SelectionTypes
  <2> QED
      BY <1>3, <2>1, AsideStep DEF selectionVars
<1> QED
    BY <1>1, <1>2, <1>3, ConfigureStep, SelectStep, ServedStep, FailedStep DEF SelectionNext

\* Whatever the scores, the failures and the holds: an account that was able at
\* every attempt is passed over less often than there are accounts (select_round_robin,
\* select_lru), for a pool of any size.
THEOREM RotationReachesAll == SelectionSpec => []RotationIsFair
<1>1. RotationInductive => RotationIsFair
  <2> SUFFICES ASSUME RotationInductive, NEW a \in Pooled,
                      strategy \in {"round-robin", "least-recently-used"}
               PROVE  passed[a] < PoolSize
      BY DEF RotationIsFair
  <2>1. passed[a] \in Nat /\ PoolSize \in Nat
      BY SelectionAssumption DEF RotationInductive, SelectionTypes
  <2>2. CASE strategy = "round-robin"
    <3>1. Turn(a) \in Nat
        BY <2>1 DEF Turn, Pooled, RotationInductive, SelectionTypes
    <3> QED
        BY <2>1, <2>2, <3>1 DEF RotationInductive, TurnsInduct
  <2>3. CASE strategy = "least-recently-used"
    <3>1. Later(a) \subseteq Pooled \ {a}
        BY DEF Later, RotationInductive, SelectionTypes
    <3>2. IsFiniteSet(Pooled) /\ Cardinality(Pooled) = PoolSize
        BY SelectionAssumption, FS_Interval DEF Pooled
    <3>3. IsFiniteSet(Pooled \ {a}) /\ Cardinality(Pooled \ {a}) = PoolSize - 1
        BY <3>2, FS_RemoveElement
    <3>4. Cardinality(Later(a)) <= PoolSize - 1
        BY <3>1, <3>3, FS_Subset
    <3>5. passed[a] <= Cardinality(Later(a))
        BY <2>3 DEF RotationInductive, OrdersInduct
    <3> QED
        BY <2>1, <3>4, <3>5, LaterIsFinite
  <2> QED
      BY <2>2, <2>3
<1> QED
    BY <1>1, SelectionInitInductive, SelectionStep, PTL DEF SelectionSpec

-----------------------------------------------------------------------------
(* FAILURES *)

\* The holds so far were no longer than the rung the count has reached, and the
\* property of the last refusal.
HoldsInductive ==
    /\ rung \in Nat /\ longest \in Nat
    /\ longest <= IF rung = 0 THEN 0 ELSE Rung(rung)
    /\ QuotaHoldsClimb

\* What the first of some details says is said by one of them.
LEMMA FirstSaysIsSaid ==
    ASSUME NEW a \in Answers, NEW found, found \subseteq DOMAIN a.details, found # {}
    PROVE  \E i \in found : FirstSays(a, found) = a.details[i].says
<1>1. found \subseteq Nat
    BY FailuresAssumption
<1>2. \E i \in found : \A j \in found : i <= j
    BY <1>1, LeastIsThere
<1> QED
    BY <1>2 DEF FirstSays, FirstOf

\* Evidence that quota is spent, and none against it, is read as such whichever
\* detail comes first (classify_rate_limit_reason).
LEMMA QuotaIsRecognised ==
    ASSUME NEW a \in Answers, ShowsQuota(a)
    PROVE  Explicit(a) = "quota"
<1> DEFINE reasons    == {i \in DOMAIN a.details : a.details[i].kind = "info" /\ Legible(a.details[i].says)}
           violations == {i \in DOMAIN a.details : a.details[i].kind = "quotas" /\ a.details[i].says # {}}
           said  == {a.details[i].says : i \in {j \in DOMAIN a.details : a.details[j].kind = "info"}}
                       \cup {a.canonical}
           lists == {a.details[i].says : i \in {j \in DOMAIN a.details : a.details[j].kind = "quotas"}}
<1>1. /\ \A s \in said : Legible(s) => s = "quota"
      /\ "quota" \in said \/ \E l \in lists : "day" \in l
      /\ \A l \in lists : l # {"minute"}
    BY DEF ShowsQuota
<1>2. Legible("quota")
    BY DEF Legible
<1>3. CASE reasons # {}
  <2>1. PICK i \in reasons : FirstSays(a, reasons) = a.details[i].says
      BY <1>3, FirstSaysIsSaid
  <2>2. FirstSays(a, reasons) = "quota"
      BY <2>1, <1>1
  <2> QED
      BY <1>3, <2>2 DEF Explicit
<1>4. CASE reasons = {} /\ Legible(a.canonical)
    BY <1>4, <1>1 DEF Explicit
<1>5. CASE reasons = {} /\ ~Legible(a.canonical)
  <2>1. "quota" \notin said
      BY <1>5, <1>2
  <2>2. PICK l \in lists : "day" \in l
      BY <1>1, <2>1
  <2>3. violations # {}
      BY <2>2
  <2>4. PICK i \in violations : FirstSays(a, violations) = a.details[i].says
      BY <2>3, FirstSaysIsSaid
  <2>5. FirstSays(a, violations) # {"minute"}
      BY <2>4, <1>1
  <2> QED
      BY <1>5, <2>3, <2>5 DEF Explicit
<1> QED
    BY <1>3, <1>4, <1>5

\* The ladder climbs.
LEMMA RungsClimb ==
    ASSUME NEW m \in Nat, NEW n \in Nat, m <= n
    PROVE  Rung(m) \in Nat /\ 60 <= Rung(m) /\ Rung(m) <= Rung(n)
<1>1. Len(QuotaLadder) = 4
    BY DEF QuotaLadder
<1>2. QuotaLadder[1] = 60 /\ QuotaLadder[2] = 300 /\ QuotaLadder[3] = 1800 /\ QuotaLadder[4] = 7200
    BY DEF QuotaLadder
<1> QED
    BY <1>1, <1>2 DEF Rung

\* The hint is a time the answer names, and there is one if it names any.
LEMMA HintIsNamed ==
    ASSUME NEW a \in Answers
    PROVE  IF TimesNamed(a) = {} THEN ResetHint(a) = 0 ELSE ResetHint(a) \in TimesNamed(a)
<1> DEFINE infos  == {i \in DOMAIN a.details : a.details[i].kind = "retry" /\ a.details[i].says > 0}
           delays == {i \in DOMAIN a.delays : a.delays[i] > 0}
<1>1. a.header \in Nat /\ a.prose \in Nat /\ a.delays \in [1 .. 2 -> Nat]
    BY FailuresAssumption
<1>2. DOMAIN a.delays = 1 .. 2 /\ a.delays[1] \in Nat /\ a.delays[2] \in Nat
    BY <1>1
<1>3. CASE a.header > 0
    BY <1>3 DEF ResetHint, TimesNamed
<1>4. CASE a.header = 0 /\ infos # {}
  <2>1. PICK i \in infos : FirstSays(a, infos) = a.details[i].says
      BY <1>4, FirstSaysIsSaid
  <2>2. FirstSays(a, infos) \in TimesNamed(a)
      BY <2>1 DEF TimesNamed
  <2>3. ResetHint(a) = FirstSays(a, infos)
      BY <1>4 DEF ResetHint
  <2> QED
      BY <2>2, <2>3
<1>5. CASE a.header = 0 /\ infos = {} /\ delays # {}
  <2>1. \E i \in delays : \A j \in delays : i <= j
      BY <1>2, <1>5, LeastIsThere
  <2>2. FirstOf(delays) \in delays
      BY <2>1 DEF FirstOf
  <2>3. FirstOf(delays) \in {1, 2} /\ a.delays[FirstOf(delays)] > 0
      BY <1>2, <2>2
  <2>4. a.delays[FirstOf(delays)] \in TimesNamed(a)
      BY <2>3 DEF TimesNamed
  <2>5. ResetHint(a) = a.delays[FirstOf(delays)]
      BY <1>5 DEF ResetHint
  <2> QED
      BY <2>4, <2>5
<1>6. CASE a.header = 0 /\ infos = {} /\ delays = {}
  <2>1. ResetHint(a) = a.prose
      BY <1>6 DEF ResetHint
  <2>2. TimesNamed(a) = {t \in {a.prose} : t > 0}
    <3>1. a.delays[1] = 0 /\ a.delays[2] = 0
        BY <1>2, <1>6
    <3> QED
        BY <1>6, <3>1 DEF TimesNamed
  <2> QED
      BY <1>1, <2>1, <2>2
<1> QED
    BY <1>1, <1>3, <1>4, <1>5, <1>6

\* A refusal that shows quota is held for as long as it says, or the next rung.
LEMMA QuotaIsHeld ==
    ASSUME NEW a \in Answers, ShowsQuota(a), rung \in Nat
    PROVE  /\ Classify(a).class = "limited" /\ Classify(a).reason = "quota"
           /\ Counted(Classify(a)) = rung + 1
           /\ TimesNamed(a) = {} =>
                 Backoff(Classify(a).reason, rung + 1, Classify(a).reset) = Rung(rung + 1)
           /\ TimesNamed(a) # {} =>
                 \E t \in TimesNamed(a) :
                    Backoff(Classify(a).reason, rung + 1, Classify(a).reset) = LongerOf(MinBackoff, t)
<1>1. Reason(a) = "quota"
    BY QuotaIsRecognised DEF Reason
<1>2. Classify(a) = Limited("quota", a)
    BY <1>1 DEF Classify, ShowsQuota
<1>3. /\ Classify(a).class = "limited" /\ Classify(a).reason = "quota"
      /\ Classify(a).reset = ResetHint(a)
    BY <1>2 DEF Limited
<1>4. Backoff("quota", rung + 1, 0) = Rung(rung + 1)
    BY RungsClimb DEF Backoff, LongerOf, MinBackoff
<1>5. \A t \in TimesNamed(a) : t > 0
    BY DEF TimesNamed
<1>6. \A t : t > 0 => Backoff("quota", rung + 1, t) = LongerOf(MinBackoff, t)
    BY DEF Backoff
<1> QED
    BY <1>3, <1>4, <1>5, <1>6, HintIsNamed DEF Counted

LEMMA HoldsStep == HoldsInductive /\ [FailuresNext]_failureVars => HoldsInductive'
<1> SUFFICES ASSUME HoldsInductive, [FailuresNext]_failureVars PROVE HoldsInductive'
    OBVIOUS
<1>1. CASE Succeed
    BY <1>1 DEF Succeed, HoldsInductive, QuotaHoldsClimb
<1>2. CASE Unreachable
    BY <1>2 DEF Unreachable, HoldsInductive, QuotaHoldsClimb
<1>3. ASSUME NEW a \in Answers, Refuse(a) PROVE HoldsInductive'
  <2> DEFINE v == Classify(a)
  <2>1. /\ answer' = a /\ rung' = Counted(v)
        /\ hold' = IF v.class = "limited" /\ ~Blameless(v) THEN Backoff(v.reason, Counted(v), v.reset) ELSE 0
        /\ longest' = IF ShowsQuota(a) /\ TimesNamed(a) = {} THEN LongerOf(longest, hold') ELSE longest
      BY <1>3 DEF Refuse
  <2>2. rung' \in {rung, rung + 1}
      BY <2>1 DEF Counted
  <2>3. CASE ShowsQuota(a) /\ TimesNamed(a) = {}
    <3>1. v.class = "limited" /\ v.reason = "quota" /\ rung' = rung + 1
          /\ Backoff(v.reason, rung + 1, v.reset) = Rung(rung + 1)
        BY <2>1, <2>3, QuotaIsHeld DEF HoldsInductive
    <3>2. ~Blameless(v)
        BY <3>1 DEF Blameless
    <3>3. hold' = Rung(rung')
        BY <2>1, <3>1, <3>2
    <3>4. Rung(rung') \in Nat /\ 60 <= Rung(rung') /\ longest <= Rung(rung')
        BY <3>1, RungsClimb DEF HoldsInductive
    <3>5. longest' = hold'
        BY <2>1, <2>3, <3>3, <3>4 DEF LongerOf, HoldsInductive
    <3>6. QuotaHoldsClimb'
        BY <2>1, <2>3, <3>3, <3>4, <3>5 DEF QuotaHoldsClimb
    <3> QED
        BY <3>1, <3>3, <3>4, <3>5, <3>6 DEF HoldsInductive
  <2>4. CASE ~(ShowsQuota(a) /\ TimesNamed(a) = {})
    <3>1. QuotaHoldsClimb'
      <4>1. SUFFICES ASSUME ShowsQuota(a), TimesNamed(a) # {}
                     PROVE  \E t \in TimesNamed(a) : hold' = LongerOf(MinBackoff, t)
          BY <2>1, <2>4 DEF QuotaHoldsClimb
      <4>2. /\ v.class = "limited" /\ v.reason = "quota" /\ rung' = rung + 1
            /\ \E t \in TimesNamed(a) : Backoff(v.reason, rung + 1, v.reset) = LongerOf(MinBackoff, t)
          BY <2>1, <4>1, QuotaIsHeld DEF HoldsInductive
      <4>3. ~Blameless(v)
          BY <4>2 DEF Blameless
      <4> QED
          BY <2>1, <4>2, <4>3
    <3>3. longest' = longest /\ rung' \in Nat
        BY <2>1, <2>2, <2>4 DEF HoldsInductive
    <3>4. longest' <= IF rung' = 0 THEN 0 ELSE Rung(rung')
        BY <3>3, <2>2, RungsClimb DEF HoldsInductive
    <3> QED
        BY <3>1, <3>3, <3>4 DEF HoldsInductive
  <2> QED
      BY <2>3, <2>4
<1>4. CASE UNCHANGED failureVars
    BY <1>4 DEF failureVars, HoldsInductive, QuotaHoldsClimb, ShowsQuota, TimesNamed
<1> QED
    BY <1>1, <1>2, <1>3, <1>4 DEF FailuresNext

\* A refusal whose structured evidence says that quota is spent holds the pool for
\* one of the times it names; when it names none, for a minute at least and never
\* for less than an earlier one since the last success (classify, parse_reset_hint,
\* backoff_for, record_quota_failure), for any answers and any count.
THEOREM QuotaClimbs == FailuresSpec => []QuotaHoldsClimb
<1>1. FailuresInit => HoldsInductive
    BY DEF FailuresInit, HoldsInductive, QuotaHoldsClimb, NoAnswer
<1>2. HoldsInductive => QuotaHoldsClimb
    BY DEF HoldsInductive
<1> QED
    BY <1>1, <1>2, HoldsStep, PTL DEF FailuresSpec
=============================================================================
