-------------------------------- MODULE Projects --------------------------------
(***************************************************************************)
(* Discovery of the project an account's calls name, and its cache         *)
(* (accounts/project.rs).  There is no gate: requests that find the cache  *)
(* cold ask the backend side by side, each at one endpoint after another,  *)
(* and each stores what it found.                                          *)
(***************************************************************************)
EXTENDS Integers

CONSTANTS
    Seekers,         \* requests being prepared for one account
    Hosts,           \* number of endpoints
    Polls,           \* ONBOARD_POLL_ATTEMPTS
    ProjectLife,     \* CACHE_TTL
    LastMoment,      \* bound: the clock stops there
    NoProject        \* a model value: nothing cached

ASSUME ProjectsAssumption ==
    Hosts \in Nat \ {0} /\ Polls \in Nat /\ ProjectLife \in Nat \ {0} /\ LastMoment \in Nat

VARIABLES
    moment,          \* the clock
    project,         \* ProjectResolver::cache, the entry of this account
    seeker           \* where each request is

projectVars == <<moment, project, seeker>>

SeekerSteps == {"idle", "load", "onboard", "poll", "ready"}

\* A real project comes with a tier when onboarding provisioned it or the answer
\* of loadCodeAssist named one; ProjectContext::fallback has none.
Contexts == [fallback : BOOLEAN, tier : {"none", "named"}]
Fallback == [fallback |-> TRUE, tier |-> "none"]

\* overtaken is history: another request stored a real project while this one
\* searched.
Waiting == [pc |-> "idle", host |-> 1, poll |-> 0, context |-> NoProject, overtaken |-> FALSE]

ProjectsInit ==
    /\ moment = 0
    /\ project = NoProject
    /\ seeker = [s \in Seekers |-> Waiting]

Seeks(s, pc) == seeker[s].pc = pc

Searches(s) == seeker[s].pc \in {"load", "onboard", "poll"}

\* ProjectResolver::cached.
Fresh(entry) == entry # NoProject /\ moment - entry.at < ProjectLife

\* Mutant of LookUp: every request searches again.
SearchAlways(s) ==
    /\ Seeks(s, "idle")
    /\ seeker' = [seeker EXCEPT ![s] = [Waiting EXCEPT !.pc = "load"]]
    /\ UNCHANGED <<moment, project>>

LookUp(s) ==
    /\ Seeks(s, "idle")
    /\ seeker' = [seeker EXCEPT ![s] =
                     IF Fresh(project) THEN [Waiting EXCEPT !.pc = "ready", !.context = project.context]
                                       ELSE [Waiting EXCEPT !.pc = "load"]]
    /\ UNCHANGED <<moment, project>>

\* The caller gets the context, and the cache keeps it from now on, whatever
\* another request stored in the meantime.
Resolved(s, context) ==
    /\ project' = [context |-> context, at |-> moment]
    /\ seeker' = [t \in Seekers |->
                    IF t = s THEN [Waiting EXCEPT !.pc = "ready", !.context = context]
                    ELSE [seeker[t] EXCEPT !.overtaken = @ \/ (Searches(t) /\ ~context.fallback)]]

\* An endpoint that fails is followed by the next one; after the last the shared
\* project is taken.
NextHost(s) ==
    IF seeker[s].host < Hosts
    THEN /\ seeker' = [seeker EXCEPT ![s] = [seeker[s] EXCEPT !.pc = "load", !.host = @ + 1, !.poll = 0]]
         /\ UNCHANGED project
    ELSE Resolved(s, Fallback)

Goes(s, pc) == seeker' = [seeker EXCEPT ![s].pc = pc] /\ UNCHANGED project

\* load_code_assist: a project with or without a tier, none yet, or an error.
Load(s) ==
    /\ Seeks(s, "load")
    /\ \/ \E tier \in {"none", "named"} : Resolved(s, [fallback |-> FALSE, tier |-> tier])
       \/ Goes(s, "onboard")
       \/ NextHost(s)
    /\ UNCHANGED moment

\* extract_managed_project finds the project of a finished onboarding.
Provisioned(s) == Resolved(s, [fallback |-> FALSE, tier |-> "named"])

\* onboard_user: finished at once, refused, or an operation to poll.
Onboard(s) ==
    /\ Seeks(s, "onboard")
    /\ Provisioned(s) \/ NextHost(s) \/ Goes(s, "poll")
    /\ UNCHANGED moment

\* One poll; an error, or an operation done without a project, counts like one
\* still under way.
Poll(s) ==
    /\ Seeks(s, "poll")
    /\ IF seeker[s].poll = Polls
       THEN NextHost(s)
       ELSE \/ Provisioned(s)
            \/ seeker' = [seeker EXCEPT ![s].poll = @ + 1] /\ UNCHANGED project
    /\ UNCHANGED moment

\* The request is sent, and the next one comes.
NextRequest(s) ==
    /\ Seeks(s, "ready")
    /\ seeker' = [seeker EXCEPT ![s] = Waiting]
    /\ UNCHANGED <<moment, project>>

TimePasses ==
    /\ moment < LastMoment
    /\ moment' = moment + 1
    /\ UNCHANGED <<project, seeker>>

ProjectsNext ==
    \/ \E s \in Seekers : LookUp(s) \/ Load(s) \/ Onboard(s) \/ Poll(s) \/ NextRequest(s)
    \/ TimePasses

ProjectsSpec == ProjectsInit /\ [][ProjectsNext]_projectVars

-----------------------------------------------------------------------------
(* Properties *)

\* Types and bounds.
ProjectsTypeOK ==
    /\ moment \in 0 .. LastMoment
    /\ project = NoProject \/ project \in [context : Contexts, at : 0 .. LastMoment]
    /\ seeker \in [Seekers -> [pc : SeekerSteps, host : 1 .. Hosts, poll : 0 .. Polls,
                               context : Contexts \cup {NoProject}, overtaken : BOOLEAN]]

\* There is no gate, so a slow search may put the shared project in the place of a
\* real one another request has just found, for the cache's half hour.  It takes a
\* search that had begun before the real one was stored, and that failed at every
\* endpoint: a request that comes while the real one is fresh never costs it
\* (resolve, discover, store).
OnlyAnEarlierSearchCosts ==
    [][ /\ Fresh(project) /\ ~project.context.fallback /\ project'.context.fallback
        => \E s \in Seekers : /\ Searches(s) /\ seeker'[s].pc = "ready"
                              /\ seeker[s].overtaken /\ seeker[s].host = Hosts
      ]_projectVars
=============================================================================
