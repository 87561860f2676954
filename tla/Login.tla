---------------------------------- MODULE Login ----------------------------------
(***************************************************************************)
(* The interactive login (oauth/login.rs): bind a callback port, show the  *)
(* URL, wait for the browser or a pasted code, exchange it.  The listener  *)
(* has one task per loopback family (oauth/callback.rs); the first outcome *)
(* any of them sends decides.                                              *)
(***************************************************************************)
EXTENDS Integers, Sequences

CONSTANTS
    Ports,           \* DEFAULT_PORTS, in order
    LoopbackFamilies \* the two addresses of localhost

ASSUME LoginAssumption == Len(Ports) > 0

VARIABLES
    login,           \* where the login is, the port it tries, the port in the URL
    sockets,         \* the families bound on that port
    loop,            \* what each listener task is doing
    outcomes         \* the channel from the listener tasks

loginVars == <<login, sockets, loop, outcomes>>

\* What a connection turns out to carry once its head is read or its peer is gone.
Connections == {"stray", "broken", "denied", "otherState", "noCode", "code"}

NoUrl == 0

LoginInit ==
    /\ login = [pc |-> "start", port |-> 1, url |-> NoUrl, result |-> "none"]
    /\ sockets = {} /\ outcomes = <<>>
    /\ loop = [f \in LoopbackFamilies |-> "absent"]

Ends(result) ==
    /\ login' = [login EXCEPT !.pc = "done", !.result = result]
    /\ sockets' = {} /\ outcomes' = <<>>
    /\ loop' = [f \in LoopbackFamilies |-> "absent"]

\* bind_port: whatever families are free; at least one is enough.
BindPort ==
    /\ login.pc = "start"
    /\ \E free \in SUBSET LoopbackFamilies :
          \/ /\ free # {}
             /\ sockets' = free
             /\ loop' = [f \in LoopbackFamilies |-> IF f \in free THEN "accept" ELSE "absent"]
             /\ login' = [login EXCEPT !.pc = "wait", !.url = Ports[login.port]]
             /\ UNCHANGED outcomes
          \/ /\ free = {} /\ login.port < Len(Ports)
             /\ login' = [login EXCEPT !.port = @ + 1]
             /\ UNCHANGED <<sockets, loop, outcomes>>
          \/ free = {} /\ login.port = Len(Ports) /\ Ends("noPort")

\* --no-browser: nothing listens, and the URL names the first port.
Headless ==
    /\ login.pc = "start" /\ login.port = 1
    /\ login' = [login EXCEPT !.pc = "paste", !.url = Ports[1]]
    /\ UNCHANGED <<sockets, loop, outcomes>>

\* extract_code_from_input and the state check: a code, or the login fails.
Paste ==
    /\ login.pc = "paste"
    /\ \/ login' = [login EXCEPT !.pc = "exchange"] /\ UNCHANGED <<sockets, loop, outcomes>>
       \/ \E reason \in {"denied", "otherState", "noCode", "input"} : Ends(reason)

\* Connections are accepted one at a time.
Connect(f) ==
    /\ loop[f] = "accept"
    /\ loop' = [loop EXCEPT ![f] = "reading"]
    /\ UNCHANGED <<login, sockets, outcomes>>

Unrelated == {"stray", "broken"}

\* Mutant of Serve: any request ends the wait of its family.
ServeOnce(f) ==
    /\ loop[f] = "reading"
    /\ loop' = [loop EXCEPT ![f] = "absent"]
    /\ \E kind \in Connections :
          outcomes' = IF kind \in Unrelated THEN outcomes ELSE Append(outcomes, kind)
    /\ UNCHANGED <<login, sockets>>

\* serve: read_request_head waits, without a limit, until the head is there or the
\* peer is gone (a peer that stays silent never lets this step happen).  Then an
\* unrelated request is answered and the wait goes on; anything else ends the
\* task with its outcome.
Serve(f) ==
    /\ loop[f] = "reading"
    /\ \E kind \in Connections :
          IF kind \in Unrelated
          THEN loop' = [loop EXCEPT ![f] = "accept"] /\ UNCHANGED outcomes
          ELSE loop' = [loop EXCEPT ![f] = "absent"] /\ outcomes' = Append(outcomes, kind)
    /\ UNCHANGED <<login, sockets>>

\* The first outcome is taken and every task aborted.
TakeOutcome ==
    /\ login.pc = "wait" /\ outcomes # <<>>
    /\ IF Head(outcomes) = "code"
       THEN /\ login' = [login EXCEPT !.pc = "exchange"]
            /\ sockets' = {} /\ outcomes' = <<>>
            /\ loop' = [f \in LoopbackFamilies |-> "absent"]
       ELSE Ends(Head(outcomes))

LoginTimesOut == login.pc = "wait" /\ Ends("timeout")

\* exchange_code; without a refresh token the login fails, without an identity not.
Exchange ==
    /\ login.pc = "exchange"
    /\ \E result \in {"rejected", "noRefreshToken", "named", "anonymous"} : Ends(result)

LoginNext ==
    \/ BindPort \/ Headless \/ Paste \/ TakeOutcome \/ LoginTimesOut \/ Exchange
    \/ \E f \in LoopbackFamilies : Connect(f) \/ Serve(f)

LoginSpec == LoginInit /\ [][LoginNext]_loginVars

-----------------------------------------------------------------------------
(* Properties *)

\* While a login waits and nothing has decided it, the URL it showed leads to the
\* port it really bound, and every family bound there accepts, or reads a connection
\* it will come back from once that says something or goes: no favicon or broken
\* request ends the wait for the callback.  (One that stays silent does keep its
\* family, until the login times out.)
CallbackIsAwaited ==
    login.pc = "wait" /\ outcomes = <<>> =>
        /\ login.url = Ports[login.port] /\ sockets # {}
        /\ \A f \in sockets : loop[f] \in {"accept", "reading"}
=============================================================================
