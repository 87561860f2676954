----------------------------------- MODULE Pool -----------------------------------
(***************************************************************************)
(* The operator's account commands on the pool (main.rs): adding or        *)
(* logging in again, and commands that name an account by a selector read  *)
(* from one snapshot and change it under the lock later, when the pool may *)
(* look different (accounts/account.rs for what they change).              *)
(***************************************************************************)
EXTENDS Integers, Sequences, FiniteSets

CONSTANTS
    Operators,       \* processes running a command
    Secrets,         \* refresh tokens; the credential id is a hash of one
    Emails,          \* with "none"
    ProjectIds        \* with "none"

VARIABLES
    pool,            \* AccountStorage::accounts
    operator         \* the command each operator runs, and the account it resolved to

poolVars == <<pool, operator>>

Commands == {"remove", "enable", "disable", "clear-holds"}
Resting == [pc |-> "idle", command |-> "none", index |-> 0, credential |-> "none"]

PoolInit == pool = <<>> /\ operator = [o \in Operators |-> Resting]

\* Account::new, with the project a packed token carries unless one was named.
NewAccount(secret, email, project) ==
    [secret |-> secret, email |-> email, project |-> project,
     enabled |-> TRUE, held |-> FALSE, limited |-> FALSE]

\* Holds and cooldowns go, limits stay, what is not known anew is kept.
replace_credential(existing, account) ==
    [existing EXCEPT !.secret = account.secret,
                     !.email = IF account.email = "none" THEN @ ELSE account.email,
                     !.project = IF account.project = "none" THEN @ ELSE account.project,
                     !.enabled = TRUE, !.held = FALSE]

SameCredential(account) == {i \in DOMAIN pool : pool[i].secret = account.secret}

\* A re-login: same email, and no two different projects.
SamePool(account) ==
    {i \in DOMAIN pool :
        /\ pool[i].email # "none" /\ pool[i].email = account.email
        /\ "none" \in {account.project, pool[i].project} \/ account.project = pool[i].project}

First(S) == CHOOSE i \in S : \A j \in S : i <= j

\* Mutant of Known: the email is compared before the credential.
KnownByEmail(account) ==
    IF SamePool(account) # {} THEN SamePool(account) ELSE SameCredential(account)

\* The same credential, or else the same pool.
Known(account) ==
    IF SameCredential(account) # {} THEN SameCredential(account) ELSE SamePool(account)

\* upsert_account, by add-token and by login.
Upsert(account) ==
    /\ pool' = IF Known(account) = {} THEN Append(pool, account)
               ELSE [pool EXCEPT ![First(Known(account))] = replace_credential(@, account)]
    /\ UNCHANGED operator

WithoutAccount(i) == SubSeq(pool, 1, i - 1) \o SubSeq(pool, i + 1, Len(pool))

\* resolve_selector on a snapshot: an index, the first with an email, or the
\* prefix of one credential id.
ResolveSelector(o) ==
    /\ operator[o].pc = "idle"
    /\ \E command \in Commands, i \in DOMAIN pool :
          operator' = [operator EXCEPT ![o] =
              [pc |-> "resolved", command |-> command, index |-> i, credential |-> pool[i].secret]]
    /\ UNCHANGED pool

Changed(command, i) ==
    CASE command = "remove"      -> WithoutAccount(i)
      [] command = "enable"      -> [pool EXCEPT ![i].enabled = TRUE]
      [] command = "disable"     -> [pool EXCEPT ![i].enabled = FALSE]
      [] command = "clear-holds" -> [pool EXCEPT ![i].held = FALSE, ![i].limited = FALSE]

\* Mutant of ApplyCommand: the index of the snapshot is used.
ApplyToIndex(o) ==
    /\ operator[o].pc = "resolved" /\ operator[o].index \in DOMAIN pool
    /\ pool' = Changed(operator[o].command, operator[o].index)
    /\ operator' = [operator EXCEPT ![o] = Resting]

\* mutate_by_selector under the lock: the account is found again by its
\* credential, wherever it is now, or the command is refused.
ApplyCommand(o) ==
    /\ operator[o].pc = "resolved"
    /\ LET found == {i \in DOMAIN pool : pool[i].secret = operator[o].credential}
       IN pool' = IF found = {} THEN pool ELSE Changed(operator[o].command, First(found))
    /\ operator' = [operator EXCEPT ![o] = Resting]

\* The gateway meanwhile holds or limits an account.
Judged(i) ==
    /\ pool' \in {[pool EXCEPT ![i].held = TRUE], [pool EXCEPT ![i].limited = TRUE]}
    /\ UNCHANGED operator

PoolNext ==
    \/ \E secret \in Secrets, email \in Emails, project \in ProjectIds :
          Upsert(NewAccount(secret, email, project))
    \/ \E o \in Operators : ResolveSelector(o) \/ ApplyCommand(o)
    \/ \E i \in DOMAIN pool : Judged(i)

PoolSpec == PoolInit /\ [][PoolNext]_poolVars

-----------------------------------------------------------------------------
(* Properties *)

Entries ==
    [secret : Secrets, email : Emails, project : ProjectIds,
     enabled : BOOLEAN, held : BOOLEAN, limited : BOOLEAN]

\* The types of the pool and of a running command.
PoolTypeOK ==
    /\ pool \in Seq(Entries)
    /\ operator \in [Operators -> [pc : {"idle", "resolved"}, command : Commands \cup {"none"},
                                   index : Nat, credential : Secrets \cup {"none"}]]
    /\ \A o \in Operators : operator[o].pc = "resolved" => operator[o].command \in Commands

\* No credential is in the pool twice, however accounts are added, logged in
\* again under another email or project, and removed: rotation would gain nothing
\* and commands would reach only the first of the two.
OneEntryPerCredential ==
    \A i, j \in DOMAIN pool : pool[i].secret = pool[j].secret => i = j

\* A command changes the account its selector showed and no other, although the
\* pool was reordered, shortened or logged into since the snapshot.
CommandHitsWhatWasSeen ==
    [][\A o \in Operators : operator[o].pc = "resolved" /\ operator'[o].pc = "idle" =>
          \A i \in DOMAIN pool : pool[i].secret # operator[o].credential =>
              \E j \in DOMAIN pool' : pool'[j] = pool[i]]_poolVars
=============================================================================
