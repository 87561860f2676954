---------------------------------- MODULE Parts ----------------------------------
(***************************************************************************)
(* The parts of the gateway that share no state, side by side.  One of     *)
(* them is picked and runs on its own; the others stay as they began.      *)
(***************************************************************************)
EXTENDS Tokens, Projects, Signatures, Sessions, ModelList, Login, Pool, Selection, Failures, Audit, Requests

VARIABLES
    part             \* which part runs

partVars == <<tokenVars, projectVars, signatureVars, sessionVars, asked, listVars, loginVars, poolVars,
              selectionVars, failureVars, auditVars, requestVars>>

PartNames == {"tokens", "projects", "signatures", "sessions", "names", "model list", "login", "pool",
              "selection", "failures", "audit", "requests"}

PartsInit ==
    /\ part \in PartNames
    /\ TokensInit /\ ProjectsInit /\ SignaturesInit /\ SessionsInit /\ NamesInit /\ ListInit /\ LoginInit
    /\ PoolInit /\ SelectionInit /\ FailuresInit /\ AuditInit /\ RequestsInit

PartsNext ==
    /\ UNCHANGED part
    /\ \/ part = "tokens" /\ TokensNext
       \/ part # "tokens" /\ UNCHANGED tokenVars
    /\ \/ part = "projects" /\ ProjectsNext
       \/ part # "projects" /\ UNCHANGED projectVars
    /\ \/ part = "signatures" /\ SignaturesNext
       \/ part # "signatures" /\ UNCHANGED signatureVars
    /\ \/ part = "sessions" /\ SessionsNext
       \/ part # "sessions" /\ UNCHANGED sessionVars
    /\ \/ part = "names" /\ ResolveName
       \/ part # "names" /\ UNCHANGED asked
    /\ \/ part = "model list" /\ ListNext
       \/ part # "model list" /\ UNCHANGED listVars
    /\ \/ part = "login" /\ LoginNext
       \/ part # "login" /\ UNCHANGED loginVars
    /\ \/ part = "pool" /\ PoolNext
       \/ part # "pool" /\ UNCHANGED poolVars
    /\ \/ part = "selection" /\ SelectionNext
       \/ part # "selection" /\ UNCHANGED selectionVars
    /\ \/ part = "failures" /\ FailuresNext
       \/ part # "failures" /\ UNCHANGED failureVars
    /\ \/ part = "audit" /\ AuditNext
       \/ part # "audit" /\ UNCHANGED auditVars
    /\ \/ part = "requests" /\ RequestsNext
       \/ part # "requests" /\ UNCHANGED requestVars

\* The gate of the token cache is fair and a call of the token endpoint ends; the
\* threads of the audit log are scheduled.
PartsFairness ==
    /\ \A t \in Tasks :
         /\ WF_tokenVars(part = "tokens" /\ EnterGate(t))
         /\ WF_tokenVars(part = "tokens" /\ TokensSteps(t))
    /\ WF_auditVars(part = "audit" /\ AuditSteps)

PartsSpec == PartsInit /\ [][PartsNext]_<<part, partVars>> /\ PartsFairness
=============================================================================
