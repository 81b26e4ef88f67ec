---------------------------- MODULE HttpLifecycle ----------------------------
(***************************************************************************)
(* The HTTP server of the recruiter MCP from its start to its exit: MCP    *)
(* requests with the awaits they go through, OAuth token requests, clients *)
(* that go away, signals as the wrapper passes them on, the graceful drain *)
(* and the platform that kills what has not exited in time.                *)
(*                                                                         *)
(* Time runs from the first signal.  A timer that is due fires before time *)
(* passes on.  Requests that are answered without an await (health,        *)
(* version, readiness, discovery) cannot overlap with anything and are     *)
(* left out, as are the wordings of the answers.                           *)
(***************************************************************************)
EXTENDS Naturals, FiniteSets

CONSTANTS Mcp, Oauth,   \* requests
          Grace,        \* readShutdownGraceMs
          Settle,       \* FORCE_CLOSE_SETTLE_MS
          KillAt,       \* when Cloud Run kills what is left
          Terms,        \* how often the platform says SIGTERM
          Interrupts    \* how often an operator presses Ctrl-C

LifecycleAssumption ==
    /\ {Grace, Settle, KillAt} \subseteq Nat \ {0} /\ Grace + Settle < KillAt
    /\ {Terms, Interrupts} \subseteq Nat /\ Mcp \cap Oauth = {}

VARIABLES
    phase,       \* where each request is
    conn,        \* its connection: "none", "open", "answered", "gone"
    aborted,     \* the requests whose signal has fired
    active,      \* lifecycle.activeRequests
    shutdown,    \* "no", "draining", "settling", "done"
    since,       \* time since the shutdown's current step began
    clock,       \* time since the first signal
    sent,        \* signals sent: [term, int]
    pending,     \* signals on their way to the server process
    listeners,   \* the signals it still has a handler for
    proc,        \* "up", "exited", "killed"
    dropped      \* requests whose unanswered connection the server cut early
vars == <<phase, conn, aborted, active, shutdown, since, clock, sent, pending, listeners,
          proc, dropped>>

Requests == Mcp \cup Oauth
Stopping == <<shutdown, since, clock, sent, pending, listeners, proc, dropped>>
Signals  == {"TERM", "INT"}

Init == /\ phase = [r \in Requests |-> "new"] /\ conn = [r \in Requests |-> "none"]
        /\ aborted = {} /\ active = 0
        /\ shutdown = "no" /\ since = 0 /\ clock = 0
        /\ sent = [term |-> 0, int |-> 0] /\ pending = [s \in Signals |-> 0]
        /\ listeners = Signals /\ proc = "up" /\ dropped = {}

draining  == shutdown # "no"
Listening == proc = "up" /\ shutdown \in {"no", "draining"}
Armed     == {"mount", "handling"}     \* the abort listeners are on
InFlight  == {"auth", "body", "audit"} \cup Armed

-----------------------------------------------------------------------------
(* A request. *)

Answered(r) == [conn EXCEPT ![r] = IF @ = "open" THEN "answered" ELSE @]

\* The request is over: the answer goes out if there is somebody to take it,
\* and the count that the drain waits for goes down.
Ends(r) == /\ phase' = [phase EXCEPT ![r] = "done"]
           /\ conn' = Answered(r)
           /\ active' = active - 1

\* While draining, MCP work is refused at once.
Arrives(r) ==
    /\ r \in Mcp /\ phase[r] = "new" /\ Listening
    /\ IF draining
       THEN /\ phase' = [phase EXCEPT ![r] = "done"] /\ conn' = [conn EXCEPT ![r] = "answered"]
            /\ UNCHANGED active
       ELSE /\ phase' = [phase EXCEPT ![r] = "auth"] /\ conn' = [conn EXCEPT ![r] = "open"]
            /\ active' = active + 1
    /\ UNCHANGED <<aborted, Stopping>>

Goes(r, from, to) ==
    /\ proc = "up" /\ phase[r] = from
    /\ \/ /\ phase' = [phase EXCEPT ![r] = to] /\ UNCHANGED <<conn, active>>
       \/ Ends(r)     \* denied, malformed or unavailable
    /\ UNCHANGED <<aborted, Stopping>>

Authorizes(r) == Goes(r, "auth", "body")

\* A POST whose client has gone fails here; a GET has no body to read.
ReadsBody(r)  == Goes(r, "body", "audit")

\* From here on, a connection that closes aborts the request.
Preflights(r) == Goes(r, "audit", "mount")

\* The action plane is looked up, then the tool runs, unless aborted.
Mounts(r) ==
    /\ proc = "up" /\ phase[r] = "mount"
    /\ IF r \in aborted THEN Ends(r)
       ELSE phase' = [phase EXCEPT ![r] = "handling"] /\ UNCHANGED <<conn, active>>
    /\ UNCHANGED <<aborted, Stopping>>

\* The tool is done, or its abort has reached it.
Finishes(r) ==
    /\ proc = "up" /\ phase[r] = "handling"
    /\ Ends(r)
    /\ UNCHANGED <<aborted, Stopping>>

\* A token request is served whatever the state of the drain, and uncounted.
AsksToken(r) ==
    /\ r \in Oauth /\ phase[r] = "new" /\ Listening
    /\ phase' = [phase EXCEPT ![r] = "token"] /\ conn' = [conn EXCEPT ![r] = "open"]
    /\ UNCHANGED <<aborted, active, Stopping>>

GetsToken(r) ==
    /\ proc = "up" /\ phase[r] = "token"
    /\ phase' = [phase EXCEPT ![r] = "done"] /\ conn' = Answered(r)
    /\ UNCHANGED <<aborted, active, Stopping>>

\* What the closing of these connections does.
Close(rs) == /\ conn' = [r \in Requests |-> IF r \in rs THEN "gone" ELSE conn[r]]
             /\ aborted' = aborted \cup {r \in rs : phase[r] \in Armed}

ClientLeaves(r) ==
    /\ proc = "up" /\ conn[r] = "open"
    /\ Close({r})
    /\ UNCHANGED <<phase, active, Stopping>>

-----------------------------------------------------------------------------
(* The signals. *)

\* PID 1 is the wrapper, it passes on every signal it gets.
Terminates ==
    /\ sent.term < Terms /\ proc = "up"
    /\ sent' = [sent EXCEPT !.term = @ + 1]
    /\ pending' = [pending EXCEPT !["TERM"] = @ + 1]
    /\ UNCHANGED <<phase, conn, aborted, active, shutdown, since, clock, listeners, proc, dropped>>

\* Ctrl-C goes to the process group: wrapper and server both get it.
PressesCtrlC ==
    /\ sent.int < Interrupts /\ proc = "up"
    /\ sent' = [sent EXCEPT !.int = @ + 1]
    /\ pending' = [pending EXCEPT !["INT"] = @ + 2]
    /\ UNCHANGED <<phase, conn, aborted, active, shutdown, since, clock, listeners, proc, dropped>>

\* The handlers are installed once each: without one, a signal ends the process.
Receives(s) ==
    /\ proc = "up" /\ pending[s] > 0
    /\ pending' = [pending EXCEPT ![s] = @ - 1]
    /\ listeners' = listeners \ {s}
    /\ IF s \notin listeners THEN proc' = "killed" /\ UNCHANGED shutdown
       ELSE /\ shutdown' = IF draining THEN shutdown ELSE "draining"
            /\ UNCHANGED proc
    /\ UNCHANGED <<phase, conn, aborted, active, since, clock, sent, dropped>>

-----------------------------------------------------------------------------
(* The drain. *)

\* Plausible bug: the drain does not wait.
NeverBusy == TRUE

Idle == active = 0

\* Nothing is in flight, or the time is up: the listener closes and every
\* connection left is cut.
StopsDraining ==
    /\ proc = "up" /\ shutdown = "draining" /\ (Idle \/ since = Grace)
    /\ shutdown' = "settling" /\ since' = 0
    /\ LET left == {r \in Requests : conn[r] = "open"}
       IN /\ Close(left)
          /\ dropped' = IF since = Grace THEN dropped ELSE dropped \cup left
    /\ UNCHANGED <<phase, active, clock, sent, pending, listeners, proc>>

\* The handlers that were cut off get a moment, then the process exits.
Settles ==
    /\ proc = "up" /\ shutdown = "settling" /\ (Idle \/ since = Settle)
    /\ shutdown' = "done" /\ proc' = "exited"
    /\ UNCHANGED <<phase, conn, aborted, active, since, clock, sent, pending, listeners, dropped>>

Limit == IF shutdown = "draining" THEN Grace ELSE Settle

Ticks ==
    /\ proc = "up" /\ draining /\ since < Limit
    /\ since' = since + 1 /\ clock' = clock + 1
    /\ UNCHANGED <<phase, conn, aborted, active, shutdown, sent, pending, listeners, proc, dropped>>

Request(r) == \/ Arrives(r) \/ Authorizes(r) \/ ReadsBody(r) \/ Preflights(r) \/ Mounts(r)
              \/ Finishes(r) \/ AsksToken(r) \/ GetsToken(r) \/ ClientLeaves(r)

Next == \/ \E r \in Requests : Request(r)
        \/ Terminates \/ PressesCtrlC \/ \E s \in Signals : Receives(s)
        \/ StopsDraining \/ Settles \/ Ticks

Spec == Init /\ [][Next]_vars

-----------------------------------------------------------------------------
TypeOK ==
    /\ \A r \in Mcp : phase[r] \in {"new", "done"} \cup InFlight
    /\ \A r \in Oauth : phase[r] \in {"new", "token", "done"}
    /\ conn \in [Requests -> {"none", "open", "answered", "gone"}]
    /\ active \in Nat /\ since \in 0..Grace /\ aborted \subseteq Mcp
    /\ proc \in {"up", "exited", "killed"}

(***************************************************************************)
(* The count the drain waits for is the number of MCP requests in flight,  *)
(* on every way a request can end: an exit is never delayed by a request   *)
(* that is over, nor taken while one is not.                               *)
(***************************************************************************)
InFlightIsCounted == active = Cardinality({r \in Mcp : phase[r] \in InFlight})

(***************************************************************************)
(* No MCP request that was admitted loses its connection to the drain      *)
(* before the grace period is over.                                        *)
(***************************************************************************)
AdmittedWorkIsDrained == dropped \cap Mcp = {}

(***************************************************************************)
(* From the first signal on, the drain and its tail together take less     *)
(* time than the platform allows.                                          *)
(***************************************************************************)
ExitsBeforeTheKill == clock < KillAt

(***************************************************************************)
(* Once it drains, the process ends, whatever the requests do.             *)
(***************************************************************************)
Ended == proc # "up"
=============================================================================
