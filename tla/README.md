# GravityGate, specified in TLA+

GravityGate is a gateway: clients speak the OpenAI protocol to it, and it
serves them from a pool of accounts at one upstream. What can go wrong in it is
mostly a matter of order. Many requests share the accounts' limits and token
buckets, a monitor probes accounts the upstream has put on hold, operators edit
the pool from other processes, and every process may die between two system
calls. Around that core lie two protocols translated into one another while they
stream, and a dozen small parts with caches, bounds and locks of their own. These
modules describe both, TLC checks them on small instances, and TLAPS proves the
safety properties for every instance.

All paths below are relative to the crate (`src/src/` in the repository).

## The system

| component | state | operations | interacts with |
|---|---|---|---|
| account store, `accounts/store.rs` | `accounts.json`, its temp file and lock file; a copy of the pool per process behind a mutex | `load`, `mutate`, `snapshot`, `reload` | every process on the directory: the gateway's threads, `account` commands |
| account state, `accounts/account.rs` | per account: enabled, ineligible, verification hold with recheck window and revision, running check (lease), cooldown, limits per quota pool | `mark_*`, `clear_*`, `reset_verification`, `is_eligible`, `reset_at_for` | called inside `mutate` closures and on snapshots |
| router, `accounts/router.rs` | per credential: token bucket, health, consecutive failures, quota failures; sticky cursor per pool | `select`, `consume_token`, `refund_token`, `record_*`, `retain` | dispatch loops and checks, under one mutex per call |
| failure classes, `accounts/ratelimit.rs` | none | `classify`, `backoff_for` | pure |
| projects, `accounts/project.rs` | cached project contexts | resolve with fallback, `clear` | awaits upstream between lookup and insert |
| dispatch, `engine/dispatch.rs` | one loop per request: account, endpoint, accounts tried, time waited | `dispatch`, `dispatch_to`, `apply_failure`, `record_success` | store, router, transport |
| retry, `engine/retry.rs` | `AttemptState` | `decide`, `pool_wait` | pure, executed by dispatch |
| verification, `engine/verification.rs` | a `Lease` per running check; the rest is stored on the account | `recheck_verification`, `recheck_due_verifications`, drop of the lease | store, router; the monitor task, admin endpoint, CLI |
| token cache, `engine/credentials.rs` | access tokens; one refresh gate | `access_token`, `invalidate`, `clear` | OAuth token endpoint |
| server, `server/*` | none of its own | chat and responses endpoints, prelude and tail of a stream, admin | engine, transforms |
| streams, `upstream/sse.rs`, `transform/response*.rs` | decoder buffer, accumulator, chunk builder | `push`, `finish`, `absorb` | one per response |
| requests, `transform/request.rs` and friends | none | translation of one document | pure, but for the signature cache |
| signature cache, `transform/signature_cache.rs` | two bounded maps with expiry | `put_*`, lookups, `clear` | written by responses, read by later requests |
| registry, `registry/*` | static tables, a cached live list | resolve, list | pure, but for the cache |
| OAuth, `oauth/*` | one login at a time | callback listener, code exchange, refresh | browser, operator |
| observability, `observ/*` | counters, an audit queue and its writer thread | record, query, prune | output only |

Correctness, component by component:

- **store**: "no torn writes" and "no lost updates" (its own header); a mutate
  that returned `Ok` is on disk and stays there; a lock a dead process left
  behind delays the others but does not stop them.
- **account state and verification**: one probe of an account at a time; a late
  answer never overrules a newer judgement, neither that of a check nor that of
  an operator; a hold is not forgotten; a success clears only what it
  makes out of date.
- **dispatch, retry and router**: a request uses each account once, sends to it
  a bounded number of times and ends; a bucket gives back what was taken; waiting
  is refused only if it would not help.
- **server and streams**: every event of the body reaches the client once and in
  order, wherever chunks and the end of the prelude fall; a client that streams is
  told what the buffered reply says; a request leaves one record.
- **caches**: a cold cache costs one token request; what was cleared does not come
  back but for the one refresh under way; a bound is kept without losing the newest
  entry; one failing endpoint does not cost an account its project.
- **requests and schemas**: every tool call is answered in the turn after it and by
  the right name, and what is declared is in the schema language of the upstream.
- **names and the model list**: every wire model counts against one quota key; the
  list never loses a name to a failing refresh.
- **operators and login**: commands hit the account their selector showed; a
  credential is in the pool once; the browser is listened to where the URL sends it.

The hard behaviours are listed with their lines in `PROJECT.json` (`hazards`).

## The modules

| module | models |
|---|---|
| `AtomicStore` | what a store promises: changes are committed in one step and only then acknowledged |
| `AccountStore` | `mutate` and `reload` as the system calls other processes can see, with time, crashes and restarts |
| `AccountStore_proofs` | theorems about it |
| `Verification` | one account under checks, requests, operator commands, crashes and time |
| `Verification_proofs` | theorems about it |
| `Dispatch` | dispatch loops over a pool of accounts, the retry decisions and the router's buckets |
| `Dispatch_proofs` | theorems about it |
| `Serving` | one request through the four generation routes: body, dispatch, prelude with its retries, tail, record |
| `Replies` | what `Serving` sends: the accumulator and the three writers of replies |
| `Serving_proofs` | theorems about both |
| `Tokens` | the token cache with its refresh gate, and `/refresh-token` racing it |
| `Projects` | discovery of an account's project by several requests at once |
| `Signatures` | the thought signatures kept for clients, two bounded maps with expiry |
| `Sessions` | the sessions of the upstream's metadata: ids, timestamps, labels |
| `Names`, `ModelList` | resolution of model names; the live list of models |
| `Login` | the interactive login and its listeners |
| `Pool` | the operator's account commands on the pool |
| `Selection` | how the router chooses: scores and the four strategies |
| `Failures` | what a refusal means, and how long it holds a quota pool |
| `Audit` | the audit log's queue, writer thread, pruning and shutdown |
| `Schemas`, `Requests` | tool schemas and conversations made into upstream requests |
| `Parts` | the parts from `Tokens` to `Requests`, each running on its own |
| `Credentials_proofs` | theorems about `Tokens`, `Projects` and `Login` |
| `Conversations_proofs` | theorems about `Signatures` and `Sessions` |
| `Accounts_proofs` | theorems about `Pool`, `Selection` and `Failures` |
| `Models_proofs` | theorems about `Names` and `ModelList` |
| `MC*` | model values, inputs and symmetry for TLC |

The modules meet where the code's parts do. `Verification` and `Dispatch` treat a `mutate`
as one atomic step; `AccountStore` shows that this is what callers get as long
as no live lock is removed, and always for a process that is alone.
`Dispatch` treats the verdict of a check as arbitrary; `Verification` says
which verdicts are stored, and treats the dispatch loop as an arbitrary source
of answers in return. `Serving` takes an answer of dispatch, whole or cut, as its
input, and hands its record to `Audit`; `Dispatch` leaves open which of the
available accounts is taken, and `Selection` decides it; `ModelList` lists and
resolves names with `Names`; `/refresh-token` is one action each of `Tokens`,
`Signatures` and `Sessions`. The parts gathered in `Parts` share no variable, which
is why one run can check them: it picks one of them and lets it run alone.

### AccountStore

A pool is the set of changes it reflects, `Updates == Threads \X (1 .. MaxMutations)`;
a file is absent, empty, partly written, torn (bytes of two writers) or whole.
A thread's `pc` walks through `mutate`:

| action | code |
|---|---|
| `Begin` | the mutex of `AccountStore.inner`, then `FileLock::acquire` |
| `CreateLock` | `create_new` of the lock file |
| `CheckLock`, `RemoveStale`, `GiveUp` | `is_stale`, `remove_file`, the deadline; three steps, since each is a call of its own |
| `LoadAndChange` | `load` and the closure, which may report no change |
| `CreateTemp`, `WriteSome`, `WriteRest`, `Rename` | `persist`; a handle follows its inode through renames by others |
| `WriteFails` | a `StoreError::Write` at any of these |
| `DropLock` | `Drop for FileLock`, which removes by name |
| `Reload`, `Crash`, `Restart`, `Tick` | the rest of the world |

`stolen` is a history variable: it records that some thread removed the lock
file of a live holder. `is_stale` and `remove_file` both work by name, so this
can happen (see `AccountStore_lost`), and everything the store promises is
stated for the behaviours in which it has not.

### Verification

The account is one record. A time is kept as the number of ticks left until it,
so that no clock grows: `leaseIn > 0` is `lease_until > now`. Two fields are
only ever compared for equality with an earlier copy, and the model keeps the
outcome of the comparison in place of the value: `current` says whether
`verification_revision` is still what the stored check's `Lease` holds, and a
request's `held` whether `verification_required_at` is still what its attempt
saw. `overtaken`, `orphaned`, `late` (a claim that waited longer for the store than its
lease's slack) and `limited` (a limit was in force when a request was sent) are
history, used by properties only.

A checker goes through `Start` (where `now` is read), then the claim
(`ClaimRefused`, `ClaimLimited`, `Claim`), `Probe`, and `Complete`; `Release`
is the drop of its lease, `Abandon` its death. `lag` is the time between reading
`now` and the mutate that uses it. The wait for the lock file is bounded by
`LOCK_TIMEOUT`, but the queue for the process's own mutex before it is not, so no
relation between `MaxLag`, the bound of the model, and the slack is assumed.
Requests (`Acquire`, `Attempt`, `RecordSuccess`,
`Challenged`, `Marked`, ...) are the dispatch loop as far as it touches this
account, and `SetEnabled`, `ClearHolds`, `Remove`, `Upsert` are the commands of
`main.rs`.

### Dispatch

A request's `pc` marks the points where others can come in between: after the
snapshot (`Look`), `Retain`, `select` (`Choose`, `NoCandidate`, `Wait`,
`PoolExhausted`), `Spend`, and each attempt (`Attempt`, then `Failure` or
`Success`, or `Abort`). `RetryHere`, `NextEndpoint` and `Fails` are the branches
of `decide`; `Blame` is `apply_failure`. `known` is the copy of the pool in the
process, which the second snapshot of an attempt reads without a reload.
Accounts are usable, held, held with the recheck due, or out of use, with at
most one limit and one cooldown; tokens are counted in parts, of which one comes
back per tick. Health, freshness and cursors order the available candidates or
rule them out, so `select` takes any of them, or none. Operator commands and
checks are arbitrary (`Remove`, `Upsert`, `Operate`, `Probe`, `Judge`).
`credit`, `reached` and `sends` are history.

### Serving and Replies

A body is a sequence of lines, each one event or something that is none, and
arrives in chunks cut anywhere: a line has three units (its first bytes, the rest,
its newline), so a chunk can end inside a line and just before its newline. `from`
and `at` bound what the decoder holds.

| action | code |
|---|---|
| `RejectBody`, `CannotConvert`, `Prepare` | the body extractor, `to_chat_request`, `Engine::prepare` |
| `DispatchAnswers`, `DispatchFails` | `Engine::dispatch` and the table of error statuses |
| `PreludeChunk`, `PreludeStops` | `read_prelude`: absorb, then content, number of events, deadline, end; `begin` commits or dispatches again |
| `Translate` | one decoded event is given to the accumulator or the stream, which sends its frames before it looks at the next |
| `TailChunk`, `TailStops` | `drain_into` and the loops of both streams, through a decoder of their own |
| `Close` | the last frames or the whole reply, `complete_execution`, `record` |
| `Vanish` | the client is gone and the handler or stream dropped, at any stage |

`Replies` translates `classify`, `ResponseAccumulator`, `StreamTranslator` and
`ResponsesStream` as operators from an event to a new state with the frames sent.
Text is the place in the body it came from, so that loss, repetition and disorder
are visible. `due` holds the events that were decoded and not yet given on: first
those of the prelude, then those of each chunk. The client may vanish between two of
them. `taken` and `heard` are history: the lines given on, and the accumulator of a
buffered reply to the same lines, against which the streams are measured.

### The parts

- `Tokens`. The tokio mutex is a queue, `gate`, whose head has passed. `Ask` and
  `EnterGate` are the two lookups of `access_token`, `Refreshed` and `RefreshFails`
  the answer of the endpoint, `ClearTokens` what an operator does meanwhile.
- `Projects`. One request goes through `LookUp`, `Load`, `Onboard` and `Poll`, at one
  endpoint after another (`NextHost`), and stores what it found; nothing keeps
  another from doing the same beside it.
- `Signatures`. `ReadClock` and `Insert` are two steps, since `put` reads the clock
  before it takes the mutex; `Prune` is both halves of `prune`.
- `Sessions`. `BeginRequest` is `begin_request` whole: prune, evict, touch, number.
  `SetClock` moves the wall clock both ways.
- `Names`, `ModelList`. The catalogue is in the module as it is in `models.rs`; names
  are a stem and a tail. `AskForList`, `ListFetched` and `ListUnavailable` are
  `live_models`, with what was seen before the await.
- `Login`. `BindPort`, `Headless`, one task per loopback family, and the channel on
  which the first outcome decides.
- `Pool`. `ResolveSelector` reads a snapshot, `ApplyCommand` changes the pool under
  the lock; `Upsert` is `add-token` and the end of a login.
- `Selection`. Scores in tenths, a tick of half an hour; `Chosen` is the strategy set.
- `Failures`. An answer is its status, the details in order, the canonical status, the
  words the rules look for, and the times it names: in its header, in its details, in
  the error's own `retryDelay` and `quotaResetDelay`, and in prose; `Refuse` is
  `classify` and `apply_failure`.
- `Audit`. The channel, the writer's `Receive` and `InsertRecord`, `PruneTable`, which
  may take any rows, as stamps need not follow the order of the queue, and `Close`, then
  `Join`, which are `Drop`.
- `Requests`, `Schemas`. A client grows a conversation by the rules of its protocol;
  `ToIr` is `to_ir` and `Transform` is `transform`, checked on every conversation
  against what the upstream takes (`UpstreamTakesRequest`). A tree is a member of the set
  `JsonSchemas`, which holds the members of its members, and `Transform` a function of the
  depth left.

## The runs

Run a model with `tlc -workers 2 -config <cfg> <module>`.

| run | states | shows |
|---|---|---|
| `AccountStore_two` | 1.2 M | the promises of the store while no live lock is removed, and that it implements `AtomicStore` |
| `AccountStore_one` | 32 k | a process alone never removes a live lock; every mutate returns |
| `AccountStore_lost` | violation | two processes can lose an acknowledged change |
| `Verification_safety` | 1.3 M | one probe at a time, but for late claims; late checks are mute; a hold outlives old answers |
| `Verification_monitor` | 20 k | every hold on a usable account is probed again |
| `Verification_limit` | violation | a success clears a limit that is newer than its request |
| `Dispatch_safety` | 1.3 M | rotation never returns, the sends to an account are bounded |
| `Dispatch_contended` | 0.2 M | every request ends |
| `Dispatch_refund` | violation | a token comes back that was never taken |
| `Serving_routes` | 102 k | every event once and in order; streams say what replies say; one record; every request ends |
| `Serving_cut` | violation | the line under way where the prelude ends is lost |
| `Parts` | 358 k | the properties of the twelve parts below |

| property of `Parts` | question |
|---|---|
| `OneRefresh`, `GateIsPassedOn` | does a cold cache cost one token request, and does everyone waiting get past it? |
| `ClearLeavesOneOldToken` | what does `/refresh-token` leave behind when it races a refresh? |
| `OnlyAnEarlierSearchCosts` | which searches can put the shared project in the place of a real one? |
| `SignaturesComeBack` | does pruning ever take a client's newest signature? |
| `RequestIdsGrow` | are ids unique although clocks jump and sessions are evicted? |
| `ListFailsOpen`, `OneQuotaPerModel` | is the list stable and unambiguous, and is one wire model counted once? |
| `CallbackIsAwaited` | does any request but the callback end a listener of the port in the URL? |
| `OneEntryPerCredential`, `CommandHitsWhatWasSeen` | do concurrent commands keep the pool sane and hit their account? |
| `RotationIsFair` | does every able account get its turn? |
| `QuotaHoldsClimb` | does the hold of an exhausted quota grow, whatever else is refused in between, and is a time the upstream names kept to? |
| `ClosingDrains` | does shutdown end, and with every record written? |
| `UpstreamTakesRequest` | does a legal conversation stay legal on the other side? |

**Bounds.** *Store*: two threads of one process and one of another are the
least with which the mutex and the lock file matter at the same time; one change
per thread is enough because a lost change needs two changes by two threads, and
crashed threads call `mutate` again with no change left; timeouts of one tick
make a lock expire, and a waiter give up, within a behaviour. The constraint
`LockRespected` of `AccountStore_two` stops at states with `stolen`, where
nothing is claimed; `AccountStore_lost` has no constraint. *Verification*: one
account, since no operation relates two; the monitor and one operator are two
checkers; one request with one attempt at a time is enough for an answer that is
older than a hold; waits of one to three ticks separate "before the probe's
timeout", "before the lease's end" and "after it"; in `Verification_safety` a claim may
wait as long as the slack, and two ticks hold a lease. Two credentials let a login
replace the token under a running check. `MaxTime` bounds each wait, not the
length of a behaviour. *Dispatch*: two accounts, two endpoints, one retry and
two account attempts make every branch of `decide` reachable together; two
requests on one account compete for its only token. The cap on failures is 0
where no property is about it, so that each failure cools the account (the most
disturbing case), and 2 in the run about tokens. *Serving*: eighteen bodies of at
most three lines hold every order of text, thinking, calls, blanks, signatures,
finish reasons and noise that a writer tells apart, with and without the last
newline, in every division into chunks; a prelude of at most two events leaves one
line for the tail, and one retry separates the first attempt from the last. *Parts*:
two requests per cache are the least that race, and two accounts the least of which
one is refreshed while the other's token is cleared; a cache bound of one, and one
key more than fits, makes every insertion prune; two endpoints, one poll and two
ports have a first and a last; three accounts are the least with which rotation has
an order; three records in the log outlast a writer that is busy; four refusals
climb every step of the backoff but the last two, which repeat; five messages hold
two parallel calls, their results and the turn after. `MaxDepth` of schemas is the
code's 32, which no input reaches.

**Deadlock** is checked in every run but `Parts`: time can always pass, and a request
that has ended says so (`Terminated`). The parts stop where their bounds are used up
or their work is done, a closed log for instance, so `Parts` does not ask.

**Fairness.** `MutateReturns`: a running thread takes its next step and time
passes; nothing obliges anyone to call `mutate`, crash or restart. Threads are
scheduled by the operating system and a poll sleeps 50 ms, so weak fairness per
thread is what the code has. `HoldIsRechecked`: time passes, a check that was
started goes on (its probe has a timeout), and the monitor's scan starts one
when it can, which is what its interval task in `main.rs` does; requests,
operators and crashes are under no obligation. `EveryRequestEnds`: a request
that has begun takes its next step (every attempt has a transport timeout, every
sleep ends) and time passes. `EveryRequestIsAnswered`: no stage lasts for ever, which
is weak fairness of leaving each one; dispatch ends (above), the prelude has a
deadline, and the transport breaks off a body that stays idle, while chunks and
retries may come as they like. `GateIsPassedOn`: the task at the head of the gate
enters it and a call of the token endpoint ends, the client having a timeout; tokio's
mutex is fair, which the queue models. `ClosingDrains`: the writer thread and the
thread that joins it are scheduled. Nothing is assumed strongly fair.

## What the violated runs show

- `AccountStore_lost`. A waiter whose `create_new` failed asks for the metadata
  of the lock file. If the holder has released it in between the file is gone,
  which counts as stale, and `remove_file` then removes the lock the next process
  has created. Two processes are in `mutate` and one acknowledged change is lost.
- `Verification_limit`. "A success clears any stale limit for this pool [...] whatever
  we recorded is out of date" (dispatch.rs:617-618), but `record_success` does not ask
  whether the limit is older than the request that succeeded: a limit that a check has
  recorded while the request was under way goes too. For the hold beside it the code
  does ask.
- `Dispatch_refund`. `consume_token` may find the bucket empty, because a probe has
  taken the last token since `select` looked; its result is ignored, and the request
  is sent. One network failure of that request then gives back the token it never
  took. (For the same reason, read from the code and not shown by the run, an
  acquisition that fails on two endpoints gives back two tokens for one.)
- `Serving_cut`. `read_prelude` drops its decoder, with the first bytes of a line that
  is under way, and the tail is decoded by another from the middle of that line on.
  A chunk that ends inside an event costs the client that event, text or call, of an
  answer that is otherwise complete. `WholeLinesInOrder` shows that nothing else is
  lost.

## Divergences

Met while translating, and read from the code. First those where a text of the
repository says otherwise. Where a property comes near, it states only what the code
keeps, and its comment quotes the text.

| text | code | property |
|---|---|---|
| "access tokens, project contexts, and signatures will be refetched" (server/admin.rs:267) | a refresh under way is cached after the clear; project contexts are not cleared at all | `ClearLeavesOneOldToken` bounds the tokens |
| "the index of an item is how many have been emitted before it" (transform/responses.rs:677; the test at 1153-1154 has reasoning first) | an item that is open while another begins has no place yet, so indices go wrong when thinking comes after text or a call | `ResponsesProtocol` asks for indices where reasoning comes first |
| "a message item is opened at most once, on the first text, and closed once at the end" (transform/responses.rs:488-490) | a call closes the message, and text after it opens another; reasoning never gets a `done` event | `ResponsesProtocol` says so of each item |
| "a client that only sees the terminal event has the whole picture" (server/responses.rs:10-11); a cut answer "that claims to be complete is worse than one that admits it" (transform/responses.rs:456-458) | the completed event has an empty reasoning summary, and its status is always completed | `ResponsesStreamSaysTheSame` is about deltas and `done` events |
| "Commit with what we have; a model this slow to start will not be helped by waiting longer" (server/execute.rs:122-123) | `begin` dispatches again, and drops the tail unread, when the deadline or the bound of events stops a prelude without content | `EmptyOnlyAfterEveryRetry` is about the last retry |
| "a request that never reached dispatch still belongs in the audit log" (server/chat.rs:50-51); "only the rendering differs" (server/responses.rs:5-6) | a Responses request that cannot be converted returns before anything is recorded (server/responses.rs:44) | `AuditedOnce` names the exception |
| a first-wins rule "would silently drop every property after the first member" (transform/schema.rs:96-97); "silently deleting them produces a tool the model calls incorrectly" (12) | a schema with properties and no type becomes a string and loses them all (230-259) | `UpstreamTakesRequest` is about schemas that come out as objects |
| images of tool results "are deferred to the end of that turn" (transform/request.rs:8-9) | they are dropped | none |
| "the new entry is the most recent, so eviction cannot remove it" (transform/signature_cache.rs:185-186) | a writer may reach the lock after another that read the clock later | `SignaturesComeBack` asks it only of entries that are among the newest |
| "a stray `/favicon.ico` must not consume the one callback we are waiting for" (oauth/callback.rs:15-16) | a request does not, but a connection that stays silent is read inline without a timeout, and holds up its family until the login times out | `CallbackIsAwaited` counts such a family as reading |

The rest contradicts no text, or none that a model of this project could be held against.

- *Dispatch*: an attempt whose account vanished goes on without asking `decide`, so
  more accounts may be tried than `max_account_attempts` (dispatch.rs:219); with one
  rate limit in the pool `select` does not look at token refills that are nearer
  (router.rs:225); `project_id` is stored "so the next request skips discovery" but
  nothing reads it.
- *Router*: cursors move only at success, and round-robin starts from the first account
  when the cursor's was tried; a pool of unhealthy accounts has no candidate until
  hours pass; two failures reach that.
- *Caches*: `CredentialCache::invalidate`, `ProjectResolver::invalidate` and
  `LiveCatalogue::clear` are called by tests only, so a revoked token stays until its
  expiry;   a discovery that fails late stores the shared project over a fresh real one for half
  an hour (`OnlyAnEarlierSearchCosts` says when); a life of a token under a minute
  makes every request refresh.
- *Streams*: Responses routes capture no signatures; an empty call id of the upstream
  is passed on.
- *Records*: `attempts` is that of the last dispatch, and 0 for errors; `Unavailable`
  is never an outcome.
- *Requests*: tool names are made safe in declarations but not in replayed calls;
  results carry no id, so parallel calls of one tool are matched by order; `required`
  of later `allOf` members is lost.
- *Names*: `gpt` names the catalogue lacks are counted as Gemini; the wire name
  `gemini-3.5-flash-low` resolves to another wire model than itself.
- *Operators and login*: a selector of digits is an index even where a credential id
  begins with them; a login may leave two entries of one email.
- *Model list*: an answer of the upstream without `models` empties the cached list.

## The proofs

`tlapm` on each of the eight `*_proofs` modules checks every obligation.
Assumptions are those named in the modules (`StoreAssumption`,
`VerificationAssumption`, `DispatchAssumption`, `ServingAssumption`, ...), which TLC
evaluates in each run, and nothing else unless a theorem says so. The theorems about
parts are about their own specifications (`TokensSpec` and so on), of which every
behaviour of `Parts` is one, the others standing still; fairness is not needed.
Between them they state every invariant and action property that a passing run
checks.

**The store.** `TypeCorrect` is proved from `TypeInv`, which adds to `TypeOK`
only that a change is numbered from what the thread has made (`HasMade`); without
it `<<t, made[t]>>` need not be an update. `SafeInv` is the inductive invariant
for everything else. It says, if nothing was stolen (`Locked`): a thread between
acquire and drop owns the lock file (`OwnsLock`); only it has an open handle, and
what is in the temp file matches its progress (`OwnsTemp`); what it loaded is what
is on disk, plus its own change (`IsUpToDate`); what it has renamed is on disk
(`IsDurable`); and `accounts.json` is whole and holds all that was acknowledged
(`StoreIsSound`). Mutual exclusion alone is not inductive, because the file a
thread is about to rename could hold anything. From `SafeInv` follow `OneHolder`,
`Durability` and, step by step, `Implementation`: `Rename` is the abstract
commit, `DropLock` the acknowledgement, and all else stutters. `FileIsWhole` and
`OwnChangesSeen` are the other two promises of `SafeInv`.

`AloneNeverSteals` discharges the proviso for a process that has the directory to
itself (`\A p, q \in Procs : p = q`): threads in `mutate` hold the process's mutex
(`Serial`), so whoever finds a lock file finds that of a dead thread.
`AloneLosesNothing` combines the two.

**Verification.** `AtMostOneProbe` rests on `LeaseInv`: a check that probes an
account it was not removed from, and whose claim was not late, is the one stored there,
and its lease outlives the probe by what is left of the slack. `now` is read before the
wait for the store's lock, so a claim that waits longer than the slack has no such lease
(`HasLease` is asked only of checks that are `OnTime`); the theorem excepts such checks
and assumes nothing about how long a claim waits. `OneProbe` follows, since a claim
refuses while a lease runs.
`OrderInv` is about answers that come late. Whoever judges the account overtakes every
other worker and bumps the revision in the same step, so a check that still finds its
lease current was not overtaken (`FreshClaim`), and neither was a request whose hold is
still the account's (`FreshHold`); one alone would not do, as a success can lift a hold
under a check and a check can under a success. `LateCheckers` and `HoldOutlives` follow
step by step: what compares neither revision nor hold changes neither verdict nor hold.

**Dispatch.** `DispatchInv` adds to `TypeOK` that each loop is `Sound`, which is a
property of one loop alone: steps of others, of operators and of checks disturb
only what is shared. `Rotates` says that the account of an acquisition is not
among those left from `select` on, and that `accountsTried` is their number, plus
one while an account is at hand; so there is always room to count another, and
`NeverReturns` follows. `BoundedAttempts` is not inductive, since a loop may be
short of its bound for the wrong reason. `Counts` therefore measures the sends
against the accounts reached before and what the account at hand has used of its
`Quota` (`Used`, a two-digit number of endpoint and retries): a retry adds one to
it, an endpoint fallback at least one, and rotation leaves the rest unused.

**Serving.** The bodies are any sequences of lines, in any cut, with any number of
retries. `ServingInv` has five parts: types; nothing is recorded before the end
(`RecordedAtTheEnd`); `LinesInduct`; only events are due (`DueAreEvents`); and
`ConsumerFollows`.

`LinesInduct` says what has been read of a body: what the consumer was given, with
what is due, lists the lines received whole, less the one the prelude's end cuts, where
a sequence *lists* a set of numbers if it is increasing and has the set for its range
(`Lists`). From lemmas about `Joined` and `Picked` follows that a chunk's events list
the lines that end in it, and that a list continued by a list of later lines is one
again; so `LinesReachTheReply`. The decoder holds an unfinished line from its start,
except in the tail while the cut line lasts, which is why the cut has to be part of it.

`ConsumerFollows` relates the consumer of the route to `heard`, the accumulator of the
same events. A buffered route has just that. Of a chat stream, `ChatSays` says that its
chunks so far tell the thinking, text and calls of the parts heard, with the role on
the first chunk only; `OfKind` and `Places` distribute over appending a part, and
`OnPart` appends what the part adds. At the end `TranslatorFinish` adds finish reason
and usage, and `ChatStreamsAreFaithful` follows. A Responses stream needs more, because
it keeps items open: `ResponsesSays` says what its deltas told and what its `done` events
still owe, which is the text of the open message; `Orderly` that its events are numbered,
that an item is announced before its other events and ended by its last, and that items
are numbered after their announcement, so a new one is new; `Standing` that between two
parts all items but the open message and the reasoning are ended; `Placed` that, as long
as reasoning comes first, each item's events bear its place in the output. Each operation
(`OpenReasoning`, `OpenMessage`, `CloseMessage`, `OpenCall`) has a lemma for what it
keeps. `ResponsesStreamsAreFaithful` and `ResponsesEventsAreInOrder` follow at the end of
the stream and, the latter, at every moment of it.

A fold over parts or lines is a function `f` with `f[0]` and `f[n]` from `f[n - 1]`; that
it is defined up to every `n`, and preserves an invariant of its accumulator, is an
induction up to the number of parts: a least place where it fails would follow one where
it holds (`Climb`; `Joins`, `Translates` and `Responds` state the folds' recursion).
`RequestsAreAudited` and `NothingOnlyAfterEveryRetry` use `ServingInv` and
little else: that a request with an answer has its record from `Close`, and that whatever
content ended the prelude's wait is due or heard (`SomethingToSay`).

**Tokens.** `TokensInv` says three things beside types. The gate's queue has each task
between the lookups once (`Queued`). Whoever asks the endpoint is its head, for an
account whose token cannot be used (`Refreshing`): from it `AsksOnce` follows, for
others may only make an account usable from the head. And a token from before a clear
was stored by the refresh under way then, after which there is no such refresh
(`OldTokens`): without its last part a second old token could follow the first.

**Projects.** The types are inductive by themselves, and say that no request is past the
last endpoint. Each step of a request leaves the cache, stores a real project, or
stores the shared one from the last endpoint (`Outcome`). `SlowSearchesCost` needs in
addition that whoever searches while the cache holds a fresh real project had begun
before it was stored: a search begins only where the cache is stale, and a real project
that is stored marks every search under way.

**Signatures.** `SignaturesComeBack` speaks of what a request gets; what is inductive is
`Sound`, for each map by itself: it holds nothing but the last entry of each key, no more
than the bound, and every last entry that is alive and has fewer than `MaxEntries` others
written no earlier. One lemma is about pruning alone: what goes was too old, or leaves a
map full of entries no older (`PruneKeeps`), and such entries are counted among the keys
written no earlier (`PruneSound`). That a writer's time may be past when it gets the lock
is harmless, since pruning at an earlier time drops less. `Recorded` adds that finitely
many keys were ever written, so that there is something to count.

**Sessions.** `RequestIdsGrow` speaks of requests already sent; what is inductive is that
an open session remembers the newest of its conversation (`Remembers`) and that
conversations are drawn once and never shared (`Drawn`). Pruning and eviction only
close sessions (`RoomCloses`), and a clock set back is absorbed by `last + 1`.

**Pool.** `OneEntryPerCredential` is inductive with the types. The work is in positions:
`First` picks a member of any set of positions (`FirstIsOne`, from well-foundedness of
`<`), removal shifts those behind (`Without`), and a replaced entry gets a credential
that no other has, because `Known` asks for the credential before the email
(`UpsertPreserves`). `CommandsHitOnlyTheirs` holds of every step, `ApplyPreserves`.

**Login.** `LoginInductive` adds the types and that a listener's task ends only with its
outcome in the channel (`Listening`); then the property is the case of an empty channel.
That a silent connection does not keep a task reading is not claimed.

**Selection.** For both strategies the count of times an account was passed over is
bounded by something that shrinks each time. Round-robin: the places between the cursor
and the account in the order of the search (`Turn`); whoever was passed over lies behind
the chosen account there, so when the cursor moves to that account the way gets shorter
by one at least (`TurnsInduct`). Least-recently-used: the accounts that served after it
did (`Later`), to which the chosen account is added (`OrdersInduct`), counted with the
lemmas about cardinality. Both must say what the attempts of one request leave open,
since a request tries several accounts before one serves.

**Failures.** `HoldsInductive` adds to the property that no hold since the last success
was longer than the rung now reached; the rest is that an answer which shows a spent quota
is classified so, whatever its words (`QuotaIsRecognised`), that a hint is one of the times
the answer names, and one is taken if any is named (`HintIsNamed`), and that rungs climb.

**Names and the list.** Each stem in the catalogue belongs to one entry (`Owner`), which is
a finite fact about `MODELS` checked entry by entry (`OwnersOfEntries`); so a wire model
leads back to one entry, and a request resolved by one entry is counted under its key
(`KeyOfTheEntry`). The list needs the converse: two names lead to two wire models
(`NamesLeadApart`), because names of one entry have different routes, names of different
entries different owners, and a stranger leads to itself; a one-to-one map then gives as
many wire models as names. That a stranger is unknown to the catalogue is what
`ModelListAssumption` asks of the constant `Strangers`. `ListInductive` says that a list
served is that of the catalogue it was read from unless a later answer came.

**Audit.** `ClosingDrains` is a liveness property, but what it finds at the end is safe at
every moment: `AuditIsTrue` says that rows come in the order of the requests, one at most for
each and none for a record that failed, and that a closed log is drained.
`InLine` makes it inductive: what is queued follows what is being written, which follows
what was tried, and of those each was inserted or lost; what is pruned was inserted.

**Requests.** `RequestsAreTaken` needs that what the two routes make of a conversation is
fit at every moment of it, not only when it is sent. `RequestsInv` says so of the turns
of the conversation and of those of its items, for either family (`Convo`): the names of
the calls without a result are known by their ids (`Named`), even where ids are used
again; and the turns are `Sensible`. That says that no turn mixes results with anything
else, and that the calls of the model turns up to a user turn, results and the calls still
open, are `Matched`: each call has one result under its name, or is open. While calls are
open the last turn is the model's or holds results of it (`CallsWait`), so the next result
lands where its call is looked for. Each kind of message has a lemma for what it keeps
(`ModelSpeaks`, `UserSpeaks`, `UserAnswers`). The Responses route has one of its own: the
calls of a message, converted as items one after the other, make model turns that follow
one another, open like calls of one turn (`CallsOneByOne`), since `CallsUpTo` reads such
turns as one. With nothing open a matching is what `CallsAnswered` asks for (`Finished`).
The schemas come apart by depth: one schema transformed is acceptable whatever those inside
it become, and, as an object, keeps every property it declares
(`TransformedIsAcceptable`); so all that
`Transform` makes at a depth is acceptable and holds only what is made one level deeper,
down to a schema that holds nothing (`MadeIsAcceptable`, `TransformIsTaken`). The only
assumptions are that the calls of one turn have ids of their own, that `JsonSchemas` is
closed, and that limits are numbers. Conversion and depth are recursive functions of a
number, proved about by `Climb`.

**Only model-checked.** The liveness properties `MutateReturns`, `HoldIsRechecked`,
`EveryRequestEnds`, `EveryRequestIsAnswered`, `GateIsPassedOn` and `ClosingDrains`: they
hold under fairness, which is out of the prover's reach. And the statements refuted by the
violated runs, which are no theorems.

## What is not modelled

Configuration, argument parsing, printing, client authentication, status pages, metrics
and the dashboard decide nothing that another part reads. TLS, headers and envelopes of
the transport are I/O. The examples, the documents and the Python port, a second
implementation of the same design, are not the crate.

Within the modelled parts: JSON and permissions of the store; power loss (a rename that
is not yet durable; the models crash processes, not disks); the text of reasons, URLs,
messages and descriptions; images; sampling parameters, which are copied; `enum`, `const`
and hints of schemas; the order of JSON keys; the SQL of the audit log's queries. Health
is a number in `Selection` only, where one request runs at a time, and an open choice in
`Dispatch`, where several do.

## What is left

1. `Serving` as a refinement of a server that reads the body whole: `LinesInduct` and
   `ConsumerFollows` are most of the mapping.
2. Health and tokens as numbers under several requests at once: `Selection` inside
   `Dispatch`.
