----------------------------- MODULE HttpServer -----------------------------
(***************************************************************************)
(* The life of the server process (cmd/gaiko2/main.go, serveHTTP) under    *)
(* the container runtime that starts, stops and restarts it: the Serve     *)
(* goroutine and the select that waits for it or for a signal, the drain   *)
(* with its grace period, the connections net/http keeps, and the stop     *)
(* timer of compose.yaml.                                                  *)
(*                                                                         *)
(* net/http and the container runtime are not part of the repository; what *)
(* they do is modelled from how serveHTTP and compose.yaml use them.       *)
(* Time is counted in whole units, only while somebody waits for it: clock *)
(* since the runtime asked for the stop, drained since Shutdown was called *)
(***************************************************************************)
EXTENDS Naturals

CONSTANTS
    Conns,          \* slots for client connections
    ShutdownGrace,  \* serverShutdownGrace (30 s)
    StopGrace       \* stop_grace_period of the compose services (35 s)

ASSUME GraceAssumption ==
    /\ ShutdownGrace \in Nat
    /\ StopGrace \in Nat
    /\ ShutdownGrace < StopGrace

VARIABLES
    proc,       \* the process: see ProcStates
    serve,      \* the Serve goroutine; "closed" and "failed" are what it
                \* left in the channel serveErr
    listening,  \* the listening socket is open
    conn,       \* the state of every connection
    signalled,  \* the context of signal.NotifyContext is done
    stopping,   \* the runtime was asked to stop the container
    stoppedIn,  \* the state of the process when that happened, or "none"
    clock, drained,
    cause,      \* why the last process ended, "none" while one runs
    lost        \* connections whose handler was cut off by that end

vars == <<proc, serve, listening, conn, signalled, stopping, stoppedIn, clock,
          drained, cause, lost>>

\* booting: the entrypoint script, before it execs the binary; starting: run,
\* up to the call of serveHTTP; serving: in the select; draining: in
\* Shutdown; joining: receiving from serveErr after Shutdown has returned.
ProcStates == {"booting", "starting", "serving", "draining", "joining", "ended"}

ServeStates == {"unborn", "spawned", "accepting", "closed", "failed"}

\* queued: in the backlog of the listener; new: accepted, no request head
\* read; reading: the handler reads the body; working: it validates and
\* proves; orphan: it works for a client that has left; idle: kept alive.
ConnStates == {"none", "queued", "new", "reading", "working", "orphan", "idle"}

\* Connections with a handler running; Shutdown waits for these.
Busy(c) == conn[c] \in {"reading", "working", "orphan"}

\* Connections a client waits on for an answer its handler would give.
InFlight == {c \in Conns : conn[c] \in {"reading", "working"}}

Causes == {"none", "start", "accept", "grace", "clean", "kill", "crash"}

\* The process exits with status 0: serveHTTP returned nil.
CleanExit == proc = "ended" /\ cause = "clean"

\* The types.  A process has ended for a reason, and the reason fits what Serve left:
\* exit status 0 only after ErrServerClosed, so that a failed listener is reported.
TypeOK ==
    /\ proc \in ProcStates
    /\ serve \in ServeStates
    /\ listening \in BOOLEAN
    /\ conn \in [Conns -> ConnStates]
    /\ signalled \in BOOLEAN
    /\ stopping \in BOOLEAN
    /\ stoppedIn \in ProcStates \cup {"none"}
    /\ clock \in 0..StopGrace
    /\ drained \in 0..ShutdownGrace
    /\ cause \in Causes
    /\ lost \subseteq Conns
    /\ proc = "ended" <=> cause # "none"
    /\ cause = "clean" => serve = "closed"
    /\ cause = "accept" => serve = "failed"

Init ==
    /\ proc = "booting"
    /\ serve = "unborn"
    /\ listening = FALSE
    /\ conn = [c \in Conns |-> "none"]
    /\ signalled = FALSE
    /\ stopping = FALSE
    /\ stoppedIn = "none"
    /\ clock = 0
    /\ drained = 0
    /\ cause = "none"
    /\ lost = {}

-----------------------------------------------------------------------------
(* The end of a process takes its connections and its handlers with it.    *)

End(why) ==
    /\ proc' = "ended"
    /\ cause' = why
    /\ lost' = InFlight
    /\ conn' = [c \in Conns |-> "none"]
    /\ listening' = FALSE
    /\ UNCHANGED <<serve, signalled, stopping, stoppedIn, clock, drained>>

\* Closing the listening socket resets the connections of its backlog.
CloseListener ==
    /\ listening' = FALSE
    /\ conn' = [c \in Conns |-> IF conn[c] = "queued" THEN "none" ELSE conn[c]]

-----------------------------------------------------------------------------
(* The process.                                                            *)

\* The entrypoint script execs the binary, which installs its signal handler.
Exec ==
    /\ proc = "booting"
    /\ proc' = "starting"
    /\ UNCHANGED <<serve, listening, conn, signalled, stopping, stoppedIn, clock,
                   drained, cause, lost>>

\* The configuration, the sealed key, the instance id or the port is not usable.
StartFails ==
    /\ proc = "starting"
    /\ End("start")

\* run opens the listener and serveHTTP spawns the Serve goroutine. Nothing
\* before the select looks at the context.
Listen ==
    /\ proc = "starting"
    /\ proc' = "serving"
    /\ listening' = TRUE
    /\ serve' = "spawned"
    /\ UNCHANGED <<conn, signalled, stopping, stoppedIn, clock, drained, cause, lost>>

\* Mutation: every error of Serve counts as success.
normalizeServeErrorNil == "clean"

\* normalizeServeError: of what Serve returns, only ErrServerClosed counts as success.
normalizeServeError == IF serve = "closed" THEN "clean" ELSE "accept"

\* Mutation: the select has no case for serveErr.
ReceiveServeErrNever ==
    FALSE /\ UNCHANGED vars

\* select, case err := <-serveErr: the handlers that still run are not waited for.
ReceiveServeErr ==
    /\ proc = "serving"
    /\ serve \in {"closed", "failed"}
    /\ End(normalizeServeError)

\* select, case <-ctx.Done(): Shutdown closes the listeners Serve has registered.
BeginShutdown ==
    /\ proc = "serving"
    /\ signalled
    /\ proc' = "draining"
    /\ drained' = 0
    /\ IF serve = "accepting" THEN CloseListener ELSE UNCHANGED <<listening, conn>>
    /\ UNCHANGED <<serve, signalled, stopping, stoppedIn, clock, cause, lost>>

Quiescent == \A c \in Conns : conn[c] \in {"none", "queued"}

\* Mutation: the return of Serve ends the wait, as when main waits for Serve alone.
ShutdownReturnsWithServe ==
    /\ proc = "draining"
    /\ serve # "accepting"
    /\ proc' = "joining"
    /\ UNCHANGED <<serve, listening, conn, signalled, stopping, stoppedIn, clock,
                   drained, cause, lost>>

\* Shutdown has seen every loop of Serve end and no connection left.
ShutdownReturns ==
    /\ proc = "draining"
    /\ serve # "accepting"
    /\ Quiescent
    /\ proc' = "joining"
    /\ UNCHANGED <<serve, listening, conn, signalled, stopping, stoppedIn, clock,
                   drained, cause, lost>>

\* Mutation: Shutdown is called with the context of the signal, already done.
GraceExpiresAtOnce ==
    /\ proc = "draining"
    /\ End("grace")

\* Mutation: Shutdown is called with a context that has no deadline.
GraceExpiresNever ==
    FALSE /\ UNCHANGED vars

\* The context of Shutdown expires. Shutdown looks at it between two polls, so
\* the last handler may have finished just before.
GraceExpires ==
    /\ proc = "draining"
    /\ drained = ShutdownGrace
    /\ End("grace")

\* Shutdown came back without an error: the result of Serve is the result.
JoinServe ==
    /\ proc = "joining"
    /\ serve \in {"closed", "failed"}
    /\ End(normalizeServeError)

-----------------------------------------------------------------------------
(* The Serve goroutine (net/http).                                         *)

\* Mutation: Serve does not look whether the server is in shutdown.
ServeStartsAlways ==
    /\ serve = "spawned"
    /\ proc # "ended"
    /\ serve' = "accepting"
    /\ UNCHANGED <<proc, listening, conn, signalled, stopping, stoppedIn, clock,
                   drained, cause, lost>>

\* Serve registers its listener, or finds the server in shutdown: then it
\* closes the listener and returns ErrServerClosed.
ServeStarts ==
    /\ serve = "spawned"
    /\ proc # "ended"
    /\ \/ /\ proc = "serving"
          /\ serve' = "accepting"
          /\ UNCHANGED <<listening, conn>>
       \/ /\ proc \in {"draining", "joining"}
          /\ serve' = "closed"
          /\ CloseListener
    /\ UNCHANGED <<proc, signalled, stopping, stoppedIn, clock, drained, cause, lost>>

\* Accept fails for good: Serve closes the listener and returns the error.
AcceptFails ==
    /\ proc = "serving"
    /\ serve = "accepting"
    /\ serve' = "failed"
    /\ CloseListener
    /\ UNCHANGED <<proc, signalled, stopping, stoppedIn, clock, drained, cause, lost>>

\* Accept fails because Shutdown has closed the listener.
ServeReturns ==
    /\ proc = "draining"
    /\ serve = "accepting"
    /\ serve' = "closed"
    /\ UNCHANGED <<proc, listening, conn, signalled, stopping, stoppedIn, clock,
                   drained, cause, lost>>

-----------------------------------------------------------------------------
(* Connections.                                                            *)

\* One connection moves; nothing else does.
Move(c, from, to) ==
    /\ proc \in {"serving", "draining", "joining"}
    /\ conn[c] \in from
    /\ conn' = [conn EXCEPT ![c] = to]
    /\ UNCHANGED <<proc, serve, listening, signalled, stopping, stoppedIn, clock,
                   drained, cause, lost>>

Connect(c) == listening /\ Move(c, {"none"}, "queued")

Accept(c) == listening /\ serve = "accepting" /\ Move(c, {"queued"}, "new")

\* The head of a request arrives; the handler starts and waits for the body,
\* without a deadline: newHTTPServer sets no ReadTimeout.
ReadHead(c) == Move(c, {"new", "idle"}, "reading")

\* decodeRequest has the whole body.
ReadBody(c) == Move(c, {"reading"}, "working")

\* writeJSON or writeError, at any point of the handler; a server in shutdown
\* keeps no connection alive.
Answer(c) ==
    Move(c, {"reading", "working"}, IF proc = "serving" THEN "idle" ELSE "none")

\* The client closes. A handler that reads the body fails at once, one that
\* works runs on: proving looks at the request's context now and then only.
ClientLeaves(c) ==
    \/ Move(c, {"queued", "new", "reading", "idle"}, "none")
    \/ Move(c, {"working"}, "orphan")

\* A handler whose client has left ends, or a handler panics.
Abandon(c) == Move(c, {"reading", "working", "orphan"}, "none")

\* ReadHeaderTimeout and IdleTimeout; in a drain, the poll of Shutdown.
CloseQuiet(c) == Move(c, {"new", "idle"}, "none")

-----------------------------------------------------------------------------
(* The runtime and the operator.                                           *)

\* SIGINT or SIGTERM from outside; a second one changes nothing. The shell of
\* the entrypoint is process 1 and has no handler: there it is ignored.
Signal ==
    /\ proc \in {"starting", "serving"}
    /\ signalled' = TRUE
    /\ UNCHANGED <<proc, serve, listening, conn, stopping, stoppedIn, clock,
                   drained, cause, lost>>

\* docker compose stop: SIGTERM now, SIGKILL when the stop timer runs out.
ComposeStop ==
    /\ ~stopping
    /\ stopping' = TRUE
    /\ stoppedIn' = proc
    /\ clock' = 0
    /\ signalled' = (signalled \/ proc \notin {"booting", "ended"})
    /\ UNCHANGED <<proc, serve, listening, conn, drained, cause, lost>>

ComposeKill ==
    /\ stopping
    /\ clock = StopGrace
    /\ proc # "ended"
    /\ End("kill")

\* Memory exhausted, a fatal error of the runtime, kill -9.
Crash ==
    /\ proc # "ended"
    /\ End("crash")

\* restart: unless-stopped, or docker compose up after a stop.
Restart ==
    /\ proc = "ended"
    /\ proc' = "booting"
    /\ serve' = "unborn"
    /\ signalled' = FALSE
    /\ stopping' = FALSE
    /\ stoppedIn' = "none"
    /\ clock' = 0
    /\ drained' = 0
    /\ cause' = "none"
    /\ lost' = {}
    /\ UNCHANGED <<listening, conn>>

\* A step of the process or of net/http that takes far less than a unit of
\* time is waiting to be taken.
Urgent ==
    \/ proc = "serving" /\ (signalled \/ serve \in {"closed", "failed"})
    \/ proc = "draining" /\ (serve \in {"spawned", "accepting"} \/ Quiescent)
    \/ proc = "draining" /\ drained = ShutdownGrace
    \/ proc = "joining"
    \/ stopping /\ clock = StopGrace

Tick ==
    /\ stopping \/ proc = "draining"
    /\ proc # "ended"
    /\ ~Urgent
    /\ clock' = IF stopping THEN clock + 1 ELSE clock
    /\ drained' = IF proc = "draining" THEN drained + 1 ELSE drained
    /\ UNCHANGED <<proc, serve, listening, conn, signalled, stopping, stoppedIn,
                   cause, lost>>

\* What the process and net/http do by themselves.
ProcessStep ==
    \/ Exec \/ StartFails \/ Listen \/ ReceiveServeErr \/ BeginShutdown
    \/ ShutdownReturns \/ GraceExpires \/ JoinServe \/ ServeStarts \/ ServeReturns

ConnStep(c) ==
    \/ Connect(c) \/ Accept(c) \/ ReadHead(c) \/ ReadBody(c) \/ Answer(c)
    \/ ClientLeaves(c) \/ Abandon(c) \/ CloseQuiet(c)

Next ==
    \/ ProcessStep
    \/ AcceptFails
    \/ \E c \in Conns : ConnStep(c)
    \/ Signal \/ ComposeStop \/ ComposeKill \/ Crash \/ Restart \/ Tick

Spec == Init /\ [][Next]_vars

(***************************************************************************)
(* The process takes the steps it can take, time passes and the runtime    *)
(* keeps its timer. Nothing is assumed of clients or of handlers: a proof  *)
(* may take forever and a client may stop in the middle of its body.       *)
(***************************************************************************)
Fairness == WF_vars(ProcessStep) /\ WF_vars(Tick) /\ WF_vars(ComposeKill)

FairSpec == Spec /\ Fairness

-----------------------------------------------------------------------------
(* Properties.                                                             *)

\* A step that takes a connection from the backlog, or from nowhere.
AcceptsConnection ==
    \E c \in Conns : /\ conn[c] \in {"none", "queued"}
                     /\ conn'[c] \notin {"none", "queued"}

\* Exit status 0 says that no request was cut off: Shutdown came back without
\* an error, so every handler that had started has finished (main.go:76).
CleanExitLosesNothing == CleanExit => lost = {}

\* The grace period is real: unless the listener failed or the process died by
\* itself, a request is cut off only after a drain of the whole grace period.
\* The stop timer of the runtime never cuts it shorter for a process that
\* was serving when the stop came (README.md:101-104).
FullGrace ==
    /\ lost # {}
    /\ cause \notin {"accept", "crash"}
    /\ stoppedIn \notin {"booting", "starting"}
    => drained = ShutdownGrace

\* From the call of Shutdown on, no connection is accepted any more, not even
\* by a Serve goroutine that first runs after the signal (main.go:66).
NoAcceptInShutdown ==
    [][AcceptsConnection => proc = "serving"]_vars

\* A signal or a stop ends the process, whatever clients and handlers do: no
\* upload that stalls and no endless proof keeps it alive (main.go:73).
ShutdownEnds == (signalled \/ stopping) ~> (proc = "ended")

\* A server whose listener is gone does not linger, deaf, until its handlers
\* are done: the process ends and can be restarted (main.go:71).
DeafServerEnds == (proc = "serving" /\ ~listening) ~> (proc = "ended")

=============================================================================
