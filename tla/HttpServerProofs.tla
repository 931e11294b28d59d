-------------------------- MODULE HttpServerProofs --------------------------
(***************************************************************************)
(* Proofs about HttpServer for every set of connections and every pair of  *)
(* grace periods with ShutdownGrace < StopGrace, and about what a handler  *)
(* decodes from the body of a request, RequestDecoding, for any widths     *)
(* that keep their order, any chain ID and any document.                   *)
(*                                                                         *)
(* The second part goes from the tables (a name belongs to one field), to  *)
(* one field (it is its default or an entry, uncut), to the documents of   *)
(* an object (each field is found under its name) and to the objects.      *)
(***************************************************************************)
EXTENDS HttpServer, RequestDecoding, TLAPS

\* A process that has no connection yet, or none any more, has no handler.
QuietStates ==
    /\ proc \in {"booting", "starting", "ended"} =>
           conn = [c \in Conns |-> "none"]
    /\ proc = "joining" => Quiescent

\* What the Serve goroutine may be doing in each state of the process: before
\* Shutdown it never reports ErrServerClosed, and from then on it never
\* accepts with the listener open.
ServeFits ==
    /\ proc = "serving" => serve \in {"spawned", "accepting", "failed"}
    /\ proc = "draining" /\ serve = "accepting" => listening = FALSE
    /\ proc = "joining" => serve # "accepting"

\* The stop timer never runs ahead of the drain it overlaps.
TimersAgree ==
    /\ stopping = FALSE => stoppedIn = "none"
    /\ stopping = TRUE => stoppedIn # "none"
    /\ stopping = TRUE /\ stoppedIn \notin {"booting", "starting"} =>
           /\ proc \notin {"booting", "starting"}
           /\ proc = "serving" => clock = 0 /\ signalled = TRUE
           /\ proc = "draining" => clock <= drained

\* What the end of a process has recorded.
EndsFit ==
    /\ proc # "ended" => lost = {}
    /\ CleanExitLosesNothing
    /\ FullGrace

Inv == TypeOK /\ QuietStates /\ ServeFits /\ TimersAgree /\ EndsFit

-----------------------------------------------------------------------------

LEMMA InitInv == Init => Inv
  <1> SUFFICES ASSUME Init PROVE Inv
    OBVIOUS
  <1>1. listening \in BOOLEAN /\ signalled \in BOOLEAN /\ stopping \in BOOLEAN
    BY Zenon DEF Init
  <1>2. TypeOK
    BY <1>1, GraceAssumption DEF Init, TypeOK, ProcStates, ServeStates, ConnStates, Causes
  <1>3. QuietStates /\ ServeFits
    BY DEF Init, QuietStates, ServeFits
  <1>4. TimersAgree
    <2>1. stopping = FALSE /\ stoppedIn = "none"
      BY Zenon DEF Init
    <2> QED
      BY <2>1 DEF TimersAgree
  <1>5. EndsFit
    BY DEF Init, EndsFit, CleanExitLosesNothing, FullGrace
  <1> QED
    BY <1>2, <1>3, <1>4, <1>5 DEF Inv

\* The end of a process keeps the invariant when the cut-off handlers, if any,
\* are accounted for by the cause or by a full drain.
LEMMA EndKeepsInv ==
  ASSUME Inv, NEW why \in Causes, End(why), proc # "ended",
         why # "none", why = "clean" => InFlight = {},
         why = "clean" => serve = "closed", why = "accept" => serve = "failed",
         InFlight # {} /\ why \notin {"accept", "crash"}
             /\ stoppedIn \notin {"booting", "starting"} => drained = ShutdownGrace
  PROVE  Inv'
  <1>1. TypeOK'
    BY DEF Inv, TypeOK, End, ProcStates, Causes, InFlight, ConnStates
  <1>2. QuietStates'
    BY DEF QuietStates, End
  <1>3. ServeFits'
    BY DEF ServeFits, End
  <1>4. TimersAgree'
    BY DEF Inv, TimersAgree, End
  <1>5. EndsFit'
    BY DEF EndsFit, CleanExitLosesNothing, CleanExit, FullGrace, End
  <1> QED
    BY <1>1, <1>2, <1>3, <1>4, <1>5 DEF Inv

\* A step of a connection keeps the invariant when it does not bring a
\* connection past the backlog of a process that has left the select.
LEMMA MoveKeepsInv ==
  ASSUME Inv, NEW c \in Conns, NEW from \in SUBSET ConnStates, NEW to \in ConnStates,
         Move(c, from, to),
         proc = "joining" => to \in {"none", "queued"}
  PROVE  Inv'
  <1>1. TypeOK'
    BY DEF Inv, TypeOK, Move, ConnStates
  <1>2. QuietStates'
    BY DEF Inv, TypeOK, QuietStates, Quiescent, Move
  <1>3. ServeFits'
    BY DEF Inv, ServeFits, Move
  <1>4. TimersAgree'
    BY DEF Inv, TimersAgree, Move
  <1>5. EndsFit'
    BY DEF Inv, EndsFit, CleanExitLosesNothing, CleanExit, FullGrace, Move
  <1> QED
    BY <1>1, <1>2, <1>3, <1>4, <1>5 DEF Inv

LEMMA ConnKeepsInv ==
  ASSUME Inv, NEW c \in Conns, ConnStep(c)
  PROVE  Inv'
  <1>1. CASE Connect(c)
    BY <1>1, MoveKeepsInv, {"none"} \in SUBSET ConnStates, "queued" \in ConnStates
    DEF Connect, ConnStates
  <1>2. CASE Accept(c)
    <2>1. proc # "joining"
      BY <1>2 DEF Accept, Inv, ServeFits
    <2> QED
      BY <1>2, <2>1, MoveKeepsInv, {"queued"} \in SUBSET ConnStates,
         "new" \in ConnStates DEF Accept, ConnStates
  <1>3. CASE ReadHead(c)
    <2>1. proc # "joining"
      BY <1>3 DEF ReadHead, Move, Inv, QuietStates, Quiescent
    <2> QED
      BY <1>3, <2>1, MoveKeepsInv, {"new", "idle"} \in SUBSET ConnStates,
         "reading" \in ConnStates DEF ReadHead, ConnStates
  <1>4. CASE ReadBody(c)
    <2>1. proc # "joining"
      BY <1>4 DEF ReadBody, Move, Inv, QuietStates, Quiescent
    <2> QED
      BY <1>4, <2>1, MoveKeepsInv, {"reading"} \in SUBSET ConnStates,
         "working" \in ConnStates DEF ReadBody, ConnStates
  <1>5. CASE Answer(c)
    <2>1. proc # "joining"
      BY <1>5 DEF Answer, Move, Inv, QuietStates, Quiescent
    <2>2. CASE proc = "serving"
      BY <1>5, <2>1, <2>2, MoveKeepsInv, {"reading", "working"} \in SUBSET ConnStates,
         "idle" \in ConnStates DEF Answer, ConnStates
    <2>3. CASE proc # "serving"
      BY <1>5, <2>1, <2>3, MoveKeepsInv, {"reading", "working"} \in SUBSET ConnStates,
         "none" \in ConnStates DEF Answer, ConnStates
    <2> QED
      BY <2>2, <2>3
  <1>6. CASE ClientLeaves(c)
    <2>1. CASE Move(c, {"queued", "new", "reading", "idle"}, "none")
      BY <2>1, MoveKeepsInv, {"queued", "new", "reading", "idle"} \in SUBSET ConnStates,
         "none" \in ConnStates DEF ConnStates
    <2>2. CASE Move(c, {"working"}, "orphan")
      <3>1. proc # "joining"
        BY <2>2 DEF Move, Inv, QuietStates, Quiescent
      <3> QED
        BY <2>2, <3>1, MoveKeepsInv, {"working"} \in SUBSET ConnStates,
           "orphan" \in ConnStates DEF ConnStates
    <2> QED
      BY <1>6, <2>1, <2>2 DEF ClientLeaves
  <1>7. CASE Abandon(c)
    BY <1>7, MoveKeepsInv, {"reading", "working", "orphan"} \in SUBSET ConnStates,
       "none" \in ConnStates DEF Abandon, ConnStates
  <1>8. CASE CloseQuiet(c)
    BY <1>8, MoveKeepsInv, {"new", "idle"} \in SUBSET ConnStates,
       "none" \in ConnStates DEF CloseQuiet, ConnStates
  <1> QED
    BY <1>1, <1>2, <1>3, <1>4, <1>5, <1>6, <1>7, <1>8 DEF ConnStep

LEMMA ExecKeepsInv ==
  ASSUME Inv, Exec
  PROVE  Inv'
  <1>1. TypeOK'
    BY GraceAssumption DEF Inv, TypeOK, Exec, ProcStates, ServeStates, ConnStates, Causes
  <1>2. QuietStates'
    BY DEF Inv, TypeOK, QuietStates, Quiescent, Exec
  <1>3. ServeFits'
    BY DEF Inv, ServeFits, Exec
  <1>4. TimersAgree'
    BY DEF Inv, TypeOK, TimersAgree, Exec
  <1>5. EndsFit'
    BY DEF Inv, EndsFit, CleanExitLosesNothing, CleanExit, FullGrace, Exec
  <1> QED
    BY <1>1, <1>2, <1>3, <1>4, <1>5 DEF Inv

LEMMA ListenKeepsInv ==
  ASSUME Inv, Listen
  PROVE  Inv'
  <1>1. TypeOK'
    BY GraceAssumption DEF Inv, TypeOK, Listen, ProcStates, ServeStates, ConnStates, Causes
  <1>2. QuietStates'
    BY DEF Inv, TypeOK, QuietStates, Quiescent, Listen
  <1>3. ServeFits'
    BY DEF Inv, ServeFits, Listen
  <1>4. TimersAgree'
    BY DEF Inv, TypeOK, TimersAgree, Listen
  <1>5. EndsFit'
    BY DEF Inv, EndsFit, CleanExitLosesNothing, CleanExit, FullGrace, Listen
  <1> QED
    BY <1>1, <1>2, <1>3, <1>4, <1>5 DEF Inv

LEMMA BeginShutdownKeepsInv ==
  ASSUME Inv, BeginShutdown
  PROVE  Inv'
  <1>1. TypeOK'
    <2>1. conn' \in [Conns -> ConnStates]
      BY DEF Inv, TypeOK, BeginShutdown, CloseListener, ConnStates
    <2>2. listening' \in BOOLEAN
      BY DEF Inv, TypeOK, BeginShutdown, CloseListener
    <2> QED
      BY <2>1, <2>2, GraceAssumption DEF Inv, TypeOK, BeginShutdown, ProcStates
  <1>2. QuietStates'
    BY DEF Inv, TypeOK, QuietStates, Quiescent, BeginShutdown, CloseListener
  <1>3. ServeFits'
    BY DEF Inv, ServeFits, BeginShutdown, CloseListener
  <1>4. TimersAgree'
    BY DEF Inv, TypeOK, TimersAgree, BeginShutdown, CloseListener
  <1>5. EndsFit'
    BY DEF Inv, EndsFit, CleanExitLosesNothing, CleanExit, FullGrace, BeginShutdown, CloseListener
  <1> QED
    BY <1>1, <1>2, <1>3, <1>4, <1>5 DEF Inv

LEMMA ShutdownReturnsKeepsInv ==
  ASSUME Inv, ShutdownReturns
  PROVE  Inv'
  <1>1. TypeOK'
    BY GraceAssumption DEF Inv, TypeOK, ShutdownReturns, ProcStates, ServeStates, ConnStates, Causes
  <1>2. QuietStates'
    BY DEF Inv, TypeOK, QuietStates, Quiescent, ShutdownReturns
  <1>3. ServeFits'
    BY DEF Inv, ServeFits, ShutdownReturns
  <1>4. TimersAgree'
    BY DEF Inv, TypeOK, TimersAgree, ShutdownReturns
  <1>5. EndsFit'
    BY DEF Inv, EndsFit, CleanExitLosesNothing, CleanExit, FullGrace, ShutdownReturns
  <1> QED
    BY <1>1, <1>2, <1>3, <1>4, <1>5 DEF Inv

LEMMA ServeStartsKeepsInv ==
  ASSUME Inv, ServeStarts
  PROVE  Inv'
  <1>1. TypeOK'
    BY GraceAssumption DEF Inv, TypeOK, ServeStarts, CloseListener, ProcStates, ServeStates, ConnStates, Causes
  <1>2. QuietStates'
    BY DEF Inv, TypeOK, QuietStates, Quiescent, ServeStarts, CloseListener
  <1>3. ServeFits'
    BY DEF Inv, ServeFits, ServeStarts, CloseListener
  <1>4. TimersAgree'
    BY DEF Inv, TypeOK, TimersAgree, ServeStarts, CloseListener
  <1>5. EndsFit'
    BY DEF Inv, EndsFit, CleanExitLosesNothing, CleanExit, FullGrace, ServeStarts, CloseListener
  <1> QED
    BY <1>1, <1>2, <1>3, <1>4, <1>5 DEF Inv

LEMMA AcceptFailsKeepsInv ==
  ASSUME Inv, AcceptFails
  PROVE  Inv'
  <1>1. TypeOK'
    BY GraceAssumption DEF Inv, TypeOK, AcceptFails, CloseListener, ProcStates, ServeStates, ConnStates, Causes
  <1>2. QuietStates'
    BY DEF Inv, TypeOK, QuietStates, Quiescent, AcceptFails, CloseListener
  <1>3. ServeFits'
    BY DEF Inv, ServeFits, AcceptFails, CloseListener
  <1>4. TimersAgree'
    BY DEF Inv, TypeOK, TimersAgree, AcceptFails, CloseListener
  <1>5. EndsFit'
    BY DEF Inv, EndsFit, CleanExitLosesNothing, CleanExit, FullGrace, AcceptFails, CloseListener
  <1> QED
    BY <1>1, <1>2, <1>3, <1>4, <1>5 DEF Inv

LEMMA ServeReturnsKeepsInv ==
  ASSUME Inv, ServeReturns
  PROVE  Inv'
  <1>1. TypeOK'
    BY GraceAssumption DEF Inv, TypeOK, ServeReturns, ProcStates, ServeStates, ConnStates, Causes
  <1>2. QuietStates'
    BY DEF Inv, TypeOK, QuietStates, Quiescent, ServeReturns
  <1>3. ServeFits'
    BY DEF Inv, ServeFits, ServeReturns
  <1>4. TimersAgree'
    BY DEF Inv, TypeOK, TimersAgree, ServeReturns
  <1>5. EndsFit'
    BY DEF Inv, EndsFit, CleanExitLosesNothing, CleanExit, FullGrace, ServeReturns
  <1> QED
    BY <1>1, <1>2, <1>3, <1>4, <1>5 DEF Inv

LEMMA SignalKeepsInv ==
  ASSUME Inv, Signal
  PROVE  Inv'
  <1>1. TypeOK'
    BY GraceAssumption DEF Inv, TypeOK, Signal, ProcStates, ServeStates, ConnStates, Causes
  <1>2. QuietStates'
    BY DEF Inv, TypeOK, QuietStates, Quiescent, Signal
  <1>3. ServeFits'
    BY DEF Inv, ServeFits, Signal
  <1>4. TimersAgree'
    BY DEF Inv, TypeOK, TimersAgree, Signal
  <1>5. EndsFit'
    BY DEF Inv, EndsFit, CleanExitLosesNothing, CleanExit, FullGrace, Signal
  <1> QED
    BY <1>1, <1>2, <1>3, <1>4, <1>5 DEF Inv

LEMMA ComposeStopKeepsInv ==
  ASSUME Inv, ComposeStop
  PROVE  Inv'
  <1>1. TypeOK'
    BY GraceAssumption DEF Inv, TypeOK, ComposeStop, ProcStates, ServeStates, ConnStates, Causes
  <1>2. QuietStates'
    BY DEF Inv, TypeOK, QuietStates, Quiescent, ComposeStop
  <1>3. ServeFits'
    BY DEF Inv, ServeFits, ComposeStop
  <1>4. TimersAgree'
    <2>1. stopping' = TRUE /\ stoppedIn' = proc /\ proc' = proc /\ clock' = 0
      BY Zenon DEF ComposeStop
    <2>2. proc \notin {"booting", "ended"} => signalled' = TRUE
      BY Zenon DEF ComposeStop
    <2>3. drained' \in Nat /\ proc # "none"
      BY GraceAssumption DEF Inv, TypeOK, ComposeStop, ProcStates
    <2> QED
      BY <2>1, <2>2, <2>3 DEF TimersAgree
  <1>5. EndsFit'
    <2>1. stoppedIn = "none"
      <3>1. stopping = FALSE
        BY Zenon DEF Inv, TypeOK, ComposeStop
      <3> QED
        BY <3>1 DEF Inv, TimersAgree
    <2> QED
      BY <2>1 DEF Inv, EndsFit, CleanExitLosesNothing, CleanExit, FullGrace, ComposeStop
  <1> QED
    BY <1>1, <1>2, <1>3, <1>4, <1>5 DEF Inv

LEMMA RestartKeepsInv ==
  ASSUME Inv, Restart
  PROVE  Inv'
  <1>1. TypeOK'
    <2>1. signalled' \in BOOLEAN /\ stopping' \in BOOLEAN
      BY Zenon DEF Restart
    <2> QED
      BY <2>1, GraceAssumption DEF Inv, TypeOK, Restart, ProcStates, ServeStates, Causes
  <1>2. QuietStates'
    BY DEF Inv, TypeOK, QuietStates, Quiescent, Restart
  <1>3. ServeFits'
    BY DEF Inv, ServeFits, Restart
  <1>4. TimersAgree'
    BY DEF Inv, TypeOK, TimersAgree, Restart
  <1>5. EndsFit'
    BY DEF Inv, EndsFit, CleanExitLosesNothing, CleanExit, FullGrace, Restart
  <1> QED
    BY <1>1, <1>2, <1>3, <1>4, <1>5 DEF Inv

LEMMA TickKeepsInv ==
  ASSUME Inv, Tick
  PROVE  Inv'
  <1>1. TypeOK'
    BY GraceAssumption DEF Inv, TypeOK, Tick, Urgent, ProcStates, ServeStates, ConnStates, Causes
  <1>2. QuietStates'
    BY DEF Inv, TypeOK, QuietStates, Quiescent, Tick, Urgent
  <1>3. ServeFits'
    BY DEF Inv, ServeFits, Tick, Urgent
  <1>4. TimersAgree'
    BY DEF Inv, TypeOK, TimersAgree, Tick, Urgent
  <1>5. EndsFit'
    BY DEF Inv, EndsFit, CleanExitLosesNothing, CleanExit, FullGrace, Tick, Urgent
  <1> QED
    BY <1>1, <1>2, <1>3, <1>4, <1>5 DEF Inv

LEMMA EndingKeepsInv ==
  ASSUME Inv,
         \/ StartFails \/ ReceiveServeErr \/ GraceExpires \/ JoinServe
         \/ ComposeKill \/ Crash
  PROVE  Inv'
  <1>1. CASE StartFails
    <2>1. InFlight = {}
      BY <1>1 DEF StartFails, Inv, QuietStates, InFlight
    <2> QED
      BY <1>1, <2>1, EndKeepsInv, "start" \in Causes DEF StartFails, Causes
  <1>2. CASE ReceiveServeErr
    <2>1. serve = "failed"
      BY <1>2 DEF ReceiveServeErr, Inv, ServeFits
    <2> QED
      BY <1>2, <2>1, EndKeepsInv, "accept" \in Causes DEF ReceiveServeErr, normalizeServeError, Causes
  <1>3. CASE GraceExpires
    BY <1>3, EndKeepsInv, "grace" \in Causes DEF GraceExpires, Causes
  <1>4. CASE JoinServe
    <2>1. InFlight = {}
      BY <1>4 DEF JoinServe, Inv, QuietStates, Quiescent, InFlight
    <2>2. CASE serve = "closed"
      BY <1>4, <2>1, <2>2, EndKeepsInv, "clean" \in Causes DEF JoinServe, normalizeServeError, Causes
    <2>3. CASE serve # "closed"
      BY <1>4, <2>1, <2>3, EndKeepsInv, "accept" \in Causes DEF JoinServe, normalizeServeError, Causes
    <2> QED
      BY <2>2, <2>3
  <1>5. CASE ComposeKill
    <2>1. stopping = TRUE
      BY <1>5, Zenon DEF ComposeKill, Inv, TypeOK
    <2>2. proc \in {"booting", "starting", "joining"} => InFlight = {}
      BY DEF Inv, QuietStates, Quiescent, InFlight
    <2>3. stoppedIn \notin {"booting", "starting"} => proc \notin {"serving", "draining"}
      BY <1>5, <2>1, GraceAssumption DEF ComposeKill, Inv, TypeOK, TimersAgree
    <2>4. InFlight # {} => stoppedIn \in {"booting", "starting"}
      BY <1>5, <2>2, <2>3 DEF ComposeKill, Inv, TypeOK, ProcStates
    <2> QED
      BY <1>5, <2>4, EndKeepsInv, "kill" \in Causes DEF ComposeKill, Causes
  <1>6. CASE Crash
    BY <1>6, EndKeepsInv, "crash" \in Causes DEF Crash, Causes
  <1> QED
    BY <1>1, <1>2, <1>3, <1>4, <1>5, <1>6

LEMMA NextKeepsInv == Inv /\ [Next]_vars => Inv'
  <1> SUFFICES ASSUME Inv, [Next]_vars PROVE Inv'
    OBVIOUS
  <1>1. CASE ProcessStep
    BY <1>1, ExecKeepsInv, ListenKeepsInv, BeginShutdownKeepsInv, ShutdownReturnsKeepsInv,
       ServeStartsKeepsInv, ServeReturnsKeepsInv, EndingKeepsInv DEF ProcessStep
  <1>2. CASE \E c \in Conns : ConnStep(c)
    BY <1>2, ConnKeepsInv
  <1>3. CASE AcceptFails \/ Signal \/ ComposeStop \/ Restart \/ Tick
    BY <1>3, AcceptFailsKeepsInv, SignalKeepsInv, ComposeStopKeepsInv,
       RestartKeepsInv, TickKeepsInv
  <1>4. CASE ComposeKill \/ Crash
    BY <1>4, EndingKeepsInv
  <1>5. CASE UNCHANGED vars
    BY <1>5 DEF vars, Inv, TypeOK, QuietStates, Quiescent, ServeFits, TimersAgree,
       EndsFit, CleanExitLosesNothing, CleanExit, FullGrace
  <1> QED
    BY <1>1, <1>2, <1>3, <1>4, <1>5 DEF Next

-----------------------------------------------------------------------------

\* The invariant of the listener, the handlers and the shutdown holds in every state.
THEOREM InvHolds == Spec => []Inv
  BY InitInv, NextKeepsInv, PTL DEF Spec

\* The state of the server process stays within its types; in particular no
\* timer runs past its deadline, and a process that has ended has a cause that fits what
\* its Serve goroutine returned (main.go, serveHTTP; compose.yaml).
THEOREM TypeCorrect == Spec => []TypeOK
  <1>1. Inv => TypeOK
    BY DEF Inv
  <1> QED
    BY <1>1, InvHolds, PTL

\* An exit with status 0 has cut off no request (main.go:72-78).
THEOREM CleanExitsLoseNothing == Spec => []CleanExitLosesNothing
  <1>1. Inv => CleanExitLosesNothing
    BY DEF Inv, EndsFit
  <1> QED
    BY <1>1, InvHolds, PTL

\* A request in flight has the whole grace period, for any two periods with
\* ShutdownGrace < StopGrace (main.go:40, compose.yaml stop_grace_period).
THEOREM GraceIsFull == Spec => []FullGrace
  <1>1. Inv => FullGrace
    BY DEF Inv, EndsFit
  <1> QED
    BY <1>1, InvHolds, PTL

LEMMA StepAccepts ==
  ASSUME Inv, [Next]_vars, AcceptsConnection
  PROVE  proc = "serving"
  <1>1. PICK c \in Conns : /\ conn[c] \in {"none", "queued"}
                           /\ conn'[c] \notin {"none", "queued"}
    BY DEF AcceptsConnection
  <1>2. CASE \E d \in Conns : ConnStep(d)
    <2>1. PICK d \in Conns : ConnStep(d)
      BY <1>2
    <2>2. ASSUME NEW from, NEW to, Move(d, from, to)
          PROVE  d = c /\ conn[c] \in from /\ to \notin {"none", "queued"}
      BY <1>1, <2>2 DEF Move, Inv, TypeOK
    <2>3. Accept(d)
      BY <1>1, <2>1, <2>2 DEF ConnStep, Connect, ReadHead, ReadBody, Answer,
         ClientLeaves, Abandon, CloseQuiet
    <2> QED
      BY <2>3 DEF Accept, Move, Inv, ServeFits, TypeOK
  <1>3. CASE UNCHANGED conn
    BY <1>1, <1>3
  <1>4. CASE conn' = [d \in Conns |-> "none"]
    BY <1>1, <1>4
  <1>5. CASE CloseListener
    BY <1>1, <1>5 DEF CloseListener
  <1> QED
    BY <1>2, <1>3, <1>4, <1>5
    DEF Next, ProcessStep, Exec, StartFails, Listen, ReceiveServeErr, BeginShutdown,
        ShutdownReturns, GraceExpires, JoinServe, ServeStarts, ServeReturns,
        AcceptFails, Signal, ComposeStop, ComposeKill, Crash, Restart, Tick, End, vars

\* No connection is accepted once Shutdown has been called, however the Serve
\* goroutine and the signal interleave (main.go:66-75).
THEOREM NothingAcceptedInShutdown == Spec => NoAcceptInShutdown
  <1>1. Inv /\ [Next]_vars => [AcceptsConnection => proc = "serving"]_vars
    BY StepAccepts
  <1> QED
    BY <1>1, InvHolds, PTL DEF Spec, NoAcceptInShutdown

-----------------------------------------------------------------------------
(* Request decoding: the tables *)

\* A joined table has the fields of both.
LEMMA JoinedAt ==
  ASSUME NEW f, NEW g
  PROVE  /\ DOMAIN Joined(f, g) = (DOMAIN f) \cup (DOMAIN g)
         /\ \A x \in DOMAIN f : Joined(f, g)[x] = f[x]
         /\ \A x \in DOMAIN g : x \notin DOMAIN f => Joined(f, g)[x] = g[x]
BY DEF Joined

Types == {"u8", "u24", "u48", "u64", "u128", "u256", "big", "opaque"}

\* An entry of a table.
IsField(field) ==
  /\ \E n \in 1..3 : DOMAIN field.names = 1..n /\ Len(field.names) = n
  /\ field.type \in Types /\ field.default \in {Required, None, 0}

\* Every name of field f belongs to f alone.
Owns(own, f, field) ==
  /\ IsField(field)
  /\ \A i \in DOMAIN field.names : own[field.names[i]] = f

Owned(own, table) == \A f \in DOMAIN table : Owns(own, f, table[f])

\* Fields with one, two and three names.
LEMMA OwnsOne ==
  ASSUME NEW own, NEW f, NEW type \in Types, NEW a, own[a] = f
  PROVE  /\ Owns(own, f, Req(type, <<a>>))
         /\ Owns(own, f, Opt(type, None, <<a>>)) /\ Owns(own, f, Opt(type, 0, <<a>>))
BY DEF Owns, Req, Opt, IsField

LEMMA OwnsTwo ==
  ASSUME NEW own, NEW f, NEW type \in Types, NEW a, NEW b,
         own[a] = f, own[b] = f
  PROVE  /\ Owns(own, f, Req(type, <<a, b>>))
         /\ Owns(own, f, Opt(type, None, <<a, b>>)) /\ Owns(own, f, Opt(type, 0, <<a, b>>))
BY DEF Owns, Req, Opt, IsField

LEMMA OwnsThree ==
  ASSUME NEW own, NEW f, NEW type \in Types, NEW a, NEW b, NEW c,
         own[a] = f, own[b] = f, own[c] = f
  PROVE  Owns(own, f, Req(type, <<a, b, c>>))
BY DEF Owns, Req, Opt, IsField

LEMMA OwnedJoined ==
  ASSUME NEW own, NEW f, NEW g, Owned(own, f), Owned(own, g)
  PROVE  Owned(own, Joined(f, g))
<1> SUFFICES ASSUME NEW x \in DOMAIN Joined(f, g) PROVE Owns(own, x, Joined(f, g)[x])
  BY DEF Owned
<1>1. CASE x \in DOMAIN f
  BY <1>1, JoinedAt, Zenon DEF Owned
<1>2. CASE x \notin DOMAIN f
  <2>1. x \in DOMAIN g
    BY <1>2, JoinedAt, Zenon
  <2>2. Joined(f, g)[x] = g[x]
    BY <1>2, <2>1 DEF Joined
  <2> QED BY <2>1, <2>2, Zenon DEF Owned
<1> QED BY <1>1, <1>2

\* The field that each name belongs to, in transactions and authorizations.
TxOwner ==
  [nonce |-> "nonce", gas_limit |-> "gas", gas |-> "gas", value |-> "value", input |-> "input",
   data |-> "input", r |-> "r", s |-> "s", yParity |-> "v", v |-> "v", chain_id |-> "chain",
   chainId |-> "chain", max_priority_fee_per_gas |-> "tip", maxPriorityFeePerGas |-> "tip",
   max_fee_per_gas |-> "fee", maxFeePerGas |-> "fee", access_list |-> "accessList",
   accessList |-> "accessList", gas_price |-> "gasPrice", gasPrice |-> "gasPrice", to |-> "to",
   authorization_list |-> "authorizations", authorizationList |-> "authorizations",
   max_fee_per_blob_gas |-> "blobFee", sidecar |-> "sidecar", address |-> "address"]

\* The same for headers, withdrawals, proposals, sources and carry data.
HeaderOwner ==
  [number |-> "number", timestamp |-> "time", gas_limit |-> "gasLimit", gasLimit |-> "gasLimit",
   gas_used |-> "gasUsed", gasUsed |-> "gasUsed", difficulty |-> "difficulty",
   logs_bloom |-> "bloom", logsBloom |-> "bloom", extra_data |-> "extra", extraData |-> "extra",
   parent_hash |-> "parentHash", parentHash |-> "parentHash", ommers_hash |-> "uncleHash",
   sha3Uncles |-> "uncleHash", uncleHash |-> "uncleHash", state_root |-> "root",
   stateRoot |-> "root", transactions_root |-> "txHash", transactionsRoot |-> "txHash",
   receipts_root |-> "receiptHash", receiptsRoot |-> "receiptHash", beneficiary |-> "coinbase",
   miner |-> "coinbase", mix_hash |-> "mixDigest", mixHash |-> "mixDigest", nonce |-> "nonce",
   base_fee_per_gas |-> "baseFee", baseFeePerGas |-> "baseFee",
   withdrawals_root |-> "withdrawalsHash", withdrawalsRoot |-> "withdrawalsHash",
   blob_gas_used |-> "blobGasUsed", blobGasUsed |-> "blobGasUsed",
   excess_blob_gas |-> "excessBlobGas", excessBlobGas |-> "excessBlobGas",
   parent_beacon_block_root |-> "beaconRoot", parentBeaconBlockRoot |-> "beaconRoot",
   requests_hash |-> "requestsHash", requestsHash |-> "requestsHash",
   slot_number |-> "slotNumber", slotNumber |-> "slotNumber",
   block_access_list_hash |-> "accessListHash", blockAccessListHash |-> "accessListHash"]

WithdrawalOwner ==
  [index |-> "index", address |-> "address", validatorIndex |-> "validator",
   validator_index |-> "validator", amount |-> "amount"]

ProposalOwner ==
  [id |-> "id", timestamp |-> "timestamp", endOfSubmissionWindowTimestamp |-> "windowEnd",
   end_of_submission_window_timestamp |-> "windowEnd", proposer |-> "proposer",
   parentProposalHash |-> "parentHash", parent_proposal_hash |-> "parentHash",
   originBlockNumber |-> "originNumber", origin_block_number |-> "originNumber",
   originBlockHash |-> "originHash", origin_block_hash |-> "originHash",
   basefeeSharingPctg |-> "basefeeSharing", basefee_sharing_pctg |-> "basefeeSharing",
   sources |-> "sources"]

SourceOwner ==
  [isForcedInclusion |-> "isForcedInclusion", is_forced_inclusion |-> "isForcedInclusion",
   blobHashes |-> "blobHashes", blob_hashes |-> "blobHashes", offset |-> "offset",
   timestamp |-> "timestamp"]

CarryOwner ==
  [chain_id |-> "chain", verifier |-> "verifier", proposal_id |-> "id",
   proposal_hash |-> "proposalHash", parent_proposal_hash |-> "parentProposal",
   parent_block_hash |-> "parentBlock", actual_prover |-> "actualProver",
   proposer |-> "proposer", timestamp |-> "timestamp", blockNumber |-> "blockNumber",
   blockHash |-> "blockHash", stateRoot |-> "stateRoot"]

\* The fields that all transactions share.
LEMMA TxOwned ==
  ASSUME NEW type \in Types
  PROVE  Owned(TxOwner, TxFields(type))
<1>1. PICK own : own = TxOwner
  OBVIOUS
<1>2. /\ own["nonce"] = "nonce" /\ own["gas_limit"] = "gas" /\ own["gas"] = "gas"
      /\ own["value"] = "value" /\ own["input"] = "input" /\ own["data"] = "input"
      /\ own["r"] = "r" /\ own["s"] = "s" /\ own["yParity"] = "v" /\ own["v"] = "v"
  BY <1>1 DEF TxOwner
<1>3. "opaque" \in Types /\ "u64" \in Types
  BY DEF Types
<1>4. /\ Owns(own, "nonce", Req("u64", <<"nonce">>))
      /\ Owns(own, "value", Opt(type, 0, <<"value">>)) /\ Owns(own, "r", Req(type, <<"r">>))
      /\ Owns(own, "s", Req(type, <<"s">>))
  BY <1>2, <1>3, OwnsOne, Zenon
<1>5. /\ Owns(own, "gas", Req("u64", <<"gas_limit", "gas">>))
      /\ Owns(own, "input", Req("opaque", <<"input", "data">>))
      /\ Owns(own, "v", Req(type, <<"yParity", "v">>))
  BY <1>2, <1>3, OwnsTwo, Zenon
<1>6. Owned(own, TxFields(type))
  BY <1>4, <1>5 DEF TxFields, Owned
<1> QED
  BY <1>1, <1>6, Zenon

\* The fees of the newer transactions.
LEMMA FeeOwned ==
  ASSUME NEW type \in Types
  PROVE  Owned(TxOwner, FeeFields(type))
<1>1. PICK own : own = TxOwner
  OBVIOUS
<1>2. /\ own["chain_id"] = "chain" /\ own["chainId"] = "chain"
      /\ own["max_priority_fee_per_gas"] = "tip" /\ own["maxPriorityFeePerGas"] = "tip"
      /\ own["max_fee_per_gas"] = "fee" /\ own["maxFeePerGas"] = "fee"
      /\ own["access_list"] = "accessList" /\ own["accessList"] = "accessList"
  BY <1>1 DEF TxOwner
<1>3. "opaque" \in Types
  BY DEF Types
<1>4. /\ Owns(own, "chain", Req(type, <<"chain_id", "chainId">>))
      /\ Owns(own, "tip", Req(type, <<"max_priority_fee_per_gas", "maxPriorityFeePerGas">>))
      /\ Owns(own, "fee", Req(type, <<"max_fee_per_gas", "maxFeePerGas">>))
      /\ Owns(own, "accessList", Opt("opaque", 0, <<"access_list", "accessList">>))
  BY <1>2, <1>3, OwnsTwo, Zenon
<1>5. Owned(own, FeeFields(type))
  BY <1>4 DEF FeeFields, Owned
<1> QED
  BY <1>1, <1>5, Zenon

\* The five kinds of transactions.
LEMMA LegacyOwned ==
  Owned(TxOwner, LegacyFields)
<1>1. PICK own : own = TxOwner
  OBVIOUS
<1>2. /\ own["gas_price"] = "gasPrice" /\ own["gasPrice"] = "gasPrice" /\ own["to"] = "to"
      /\ own["chain_id"] = "chain" /\ own["chainId"] = "chain"
  BY <1>1 DEF TxOwner
<1>3. "big" \in Types /\ "opaque" \in Types
  BY DEF Types
<1>4. Owns(own, "to", Opt("opaque", None, <<"to">>))
  BY <1>2, <1>3, OwnsOne, Zenon
<1>5. /\ Owns(own, "gasPrice", Req("big", <<"gas_price", "gasPrice">>))
      /\ Owns(own, "chain", Opt("big", None, <<"chain_id", "chainId">>))
  BY <1>2, <1>3, OwnsTwo, Zenon
<1> DEFINE rest == [gasPrice |-> Req("big", <<"gas_price", "gasPrice">>),
                   to |-> Opt("opaque", None, <<"to">>),
                   chain |-> Opt("big", None, <<"chain_id", "chainId">>)]
<1>6. Owned(own, rest)
  BY <1>4, <1>5 DEF Owned
<1> HIDE DEF rest
<1>7. Owned(own, TxFields("big"))
  BY <1>1, <1>3, TxOwned, Zenon
<1>8. Owned(own, Joined(TxFields("big"), rest))
  BY <1>6, <1>7, OwnedJoined, Zenon
<1>9. Owned(own, LegacyFields)
  BY <1>8, Zenon DEF LegacyFields, rest
<1> QED
  BY <1>1, <1>9, Zenon

LEMMA AccessListOwned ==
  Owned(TxOwner, AccessListFields)
<1>1. PICK own : own = TxOwner
  OBVIOUS
<1>2. /\ own["chain_id"] = "chain" /\ own["chainId"] = "chain" /\ own["gas_price"] = "gasPrice"
      /\ own["gasPrice"] = "gasPrice" /\ own["to"] = "to" /\ own["access_list"] = "accessList"
      /\ own["accessList"] = "accessList"
  BY <1>1 DEF TxOwner
<1>3. "big" \in Types /\ "opaque" \in Types
  BY DEF Types
<1>4. Owns(own, "to", Opt("opaque", None, <<"to">>))
  BY <1>2, <1>3, OwnsOne, Zenon
<1>5. /\ Owns(own, "chain", Req("big", <<"chain_id", "chainId">>))
      /\ Owns(own, "gasPrice", Req("big", <<"gas_price", "gasPrice">>))
      /\ Owns(own, "accessList", Opt("opaque", 0, <<"access_list", "accessList">>))
  BY <1>2, <1>3, OwnsTwo, Zenon
<1> DEFINE rest == [chain |-> Req("big", <<"chain_id", "chainId">>),
                   gasPrice |-> Req("big", <<"gas_price", "gasPrice">>),
                   to |-> Opt("opaque", None, <<"to">>),
                   accessList |-> Opt("opaque", 0, <<"access_list", "accessList">>)]
<1>6. Owned(own, rest)
  BY <1>4, <1>5 DEF Owned
<1> HIDE DEF rest
<1>7. Owned(own, TxFields("big"))
  BY <1>1, <1>3, TxOwned, Zenon
<1>8. Owned(own, Joined(TxFields("big"), rest))
  BY <1>6, <1>7, OwnedJoined, Zenon
<1>9. Owned(own, AccessListFields)
  BY <1>8, Zenon DEF AccessListFields, rest
<1> QED
  BY <1>1, <1>9, Zenon

LEMMA DynamicFeeOwned ==
  Owned(TxOwner, DynamicFeeFields)
<1>1. PICK own : own = TxOwner
  OBVIOUS
<1>2. own["to"] = "to"
  BY <1>1 DEF TxOwner
<1>3. "big" \in Types /\ "opaque" \in Types
  BY DEF Types
<1>4. Owns(own, "to", Opt("opaque", None, <<"to">>))
  BY <1>2, <1>3, OwnsOne, Zenon
<1> DEFINE rest == [to |-> Opt("opaque", None, <<"to">>)]
<1>5. Owned(own, rest)
  BY <1>4 DEF Owned
<1> HIDE DEF rest
<1>6. Owned(own, TxFields("big")) /\ Owned(own, FeeFields("big"))
  BY <1>1, <1>3, TxOwned, FeeOwned, Zenon
<1>7. Owned(own, Joined(FeeFields("big"), rest))
  BY <1>5, <1>6, OwnedJoined, Zenon
<1>8. Owned(own, Joined(TxFields("big"), Joined(FeeFields("big"), rest)))
  BY <1>6, <1>7, OwnedJoined, Zenon
<1>9. Owned(own, DynamicFeeFields)
  BY <1>8, Zenon DEF DynamicFeeFields, rest
<1> QED
  BY <1>1, <1>9, Zenon

LEMMA SetCodeOwned ==
  Owned(TxOwner, SetCodeFields)
<1>1. PICK own : own = TxOwner
  OBVIOUS
<1>2. /\ own["to"] = "to" /\ own["authorization_list"] = "authorizations"
      /\ own["authorizationList"] = "authorizations"
  BY <1>1 DEF TxOwner
<1>3. "opaque" \in Types /\ "u256" \in Types
  BY DEF Types
<1>4. Owns(own, "to", Req("opaque", <<"to">>))
  BY <1>2, <1>3, OwnsOne, Zenon
<1>5. Owns(own, "authorizations",
              Req("opaque", <<"authorization_list", "authorizationList">>))
  BY <1>2, <1>3, OwnsTwo, Zenon
<1> DEFINE rest == [to |-> Req("opaque", <<"to">>),
                   authorizations |-> Req("opaque", <<"authorization_list", "authorizationList">>)]
<1>6. Owned(own, rest)
  BY <1>4, <1>5 DEF Owned
<1> HIDE DEF rest
<1>7. Owned(own, TxFields("u256")) /\ Owned(own, FeeFields("u256"))
  BY <1>1, <1>3, TxOwned, FeeOwned, Zenon
<1>8. Owned(own, Joined(FeeFields("u256"), rest))
  BY <1>6, <1>7, OwnedJoined, Zenon
<1>9. Owned(own, Joined(TxFields("u256"), Joined(FeeFields("u256"), rest)))
  BY <1>7, <1>8, OwnedJoined, Zenon
<1>10. Owned(own, SetCodeFields)
  BY <1>9, Zenon DEF SetCodeFields, rest
<1> QED
  BY <1>1, <1>10, Zenon

LEMMA BlobTxOwned ==
  Owned(TxOwner, BlobTxFields)
<1>1. PICK own : own = TxOwner
  OBVIOUS
<1>2. /\ own["to"] = "to" /\ own["max_fee_per_blob_gas"] = "blobFee"
      /\ own["sidecar"] = "sidecar"
  BY <1>1 DEF TxOwner
<1>3. "opaque" \in Types /\ "u256" \in Types
  BY DEF Types
<1>4. /\ Owns(own, "to", Req("opaque", <<"to">>))
      /\ Owns(own, "blobFee", Req("u256", <<"max_fee_per_blob_gas">>))
      /\ Owns(own, "sidecar", Opt("opaque", None, <<"sidecar">>))
  BY <1>2, <1>3, OwnsOne, Zenon
<1> DEFINE rest == [to |-> Req("opaque", <<"to">>),
                   blobFee |-> Req("u256", <<"max_fee_per_blob_gas">>),
                   sidecar |-> Opt("opaque", None, <<"sidecar">>)]
<1>5. Owned(own, rest)
  BY <1>4 DEF Owned
<1> HIDE DEF rest
<1>6. Owned(own, TxFields("u256")) /\ Owned(own, FeeFields("u256"))
  BY <1>1, <1>3, TxOwned, FeeOwned, Zenon
<1>7. Owned(own, Joined(FeeFields("u256"), rest))
  BY <1>5, <1>6, OwnedJoined, Zenon
<1>8. Owned(own, Joined(TxFields("u256"), Joined(FeeFields("u256"), rest)))
  BY <1>6, <1>7, OwnedJoined, Zenon
<1>9. Owned(own, BlobTxFields)
  BY <1>8, Zenon DEF BlobTxFields, rest
<1> QED
  BY <1>1, <1>9, Zenon

\* Authorizations have the names that transactions have.
LEMMA AuthorizationOwned ==
  Owned(TxOwner, AuthorizationFields)
<1>1. PICK own : own = TxOwner
  OBVIOUS
<1>2. /\ own["chain_id"] = "chain" /\ own["chainId"] = "chain" /\ own["address"] = "address"
      /\ own["nonce"] = "nonce" /\ own["yParity"] = "v" /\ own["v"] = "v" /\ own["r"] = "r"
      /\ own["s"] = "s"
  BY <1>1 DEF TxOwner
<1>3. "opaque" \in Types /\ "u256" \in Types /\ "u64" \in Types /\ "u8" \in Types
  BY DEF Types
<1>4. /\ Owns(own, "address", Req("opaque", <<"address">>))
      /\ Owns(own, "nonce", Req("u64", <<"nonce">>)) /\ Owns(own, "r", Req("u256", <<"r">>))
      /\ Owns(own, "s", Req("u256", <<"s">>))
  BY <1>2, <1>3, OwnsOne, Zenon
<1>5. /\ Owns(own, "chain", Req("u256", <<"chain_id", "chainId">>))
      /\ Owns(own, "v", Req("u8", <<"yParity", "v">>))
  BY <1>2, <1>3, OwnsTwo, Zenon
<1>6. Owned(own, AuthorizationFields)
  BY <1>4, <1>5 DEF AuthorizationFields, Owned
<1> QED
  BY <1>1, <1>6, Zenon

\* Headers of both chains.
LEMMA HeaderOwned ==
  Owned(HeaderOwner, HeaderFields)
<1>1. PICK own : own = HeaderOwner
  OBVIOUS
<1>2. /\ own["number"] = "number" /\ own["timestamp"] = "time" /\ own["gas_limit"] = "gasLimit"
      /\ own["gasLimit"] = "gasLimit" /\ own["gas_used"] = "gasUsed"
      /\ own["gasUsed"] = "gasUsed" /\ own["difficulty"] = "difficulty"
      /\ own["logs_bloom"] = "bloom" /\ own["logsBloom"] = "bloom"
      /\ own["extra_data"] = "extra" /\ own["extraData"] = "extra"
      /\ own["parent_hash"] = "parentHash" /\ own["parentHash"] = "parentHash"
      /\ own["ommers_hash"] = "uncleHash" /\ own["sha3Uncles"] = "uncleHash"
      /\ own["uncleHash"] = "uncleHash" /\ own["state_root"] = "root"
      /\ own["stateRoot"] = "root" /\ own["transactions_root"] = "txHash"
      /\ own["transactionsRoot"] = "txHash" /\ own["receipts_root"] = "receiptHash"
      /\ own["receiptsRoot"] = "receiptHash" /\ own["beneficiary"] = "coinbase"
      /\ own["miner"] = "coinbase" /\ own["mix_hash"] = "mixDigest"
      /\ own["mixHash"] = "mixDigest" /\ own["nonce"] = "nonce"
      /\ own["base_fee_per_gas"] = "baseFee" /\ own["baseFeePerGas"] = "baseFee"
      /\ own["withdrawals_root"] = "withdrawalsHash"
      /\ own["withdrawalsRoot"] = "withdrawalsHash" /\ own["blob_gas_used"] = "blobGasUsed"
      /\ own["blobGasUsed"] = "blobGasUsed" /\ own["excess_blob_gas"] = "excessBlobGas"
      /\ own["excessBlobGas"] = "excessBlobGas"
      /\ own["parent_beacon_block_root"] = "beaconRoot"
      /\ own["parentBeaconBlockRoot"] = "beaconRoot" /\ own["requests_hash"] = "requestsHash"
      /\ own["requestsHash"] = "requestsHash" /\ own["slot_number"] = "slotNumber"
      /\ own["slotNumber"] = "slotNumber" /\ own["block_access_list_hash"] = "accessListHash"
      /\ own["blockAccessListHash"] = "accessListHash"
  BY <1>1 DEF HeaderOwner
<1>3. "big" \in Types /\ "opaque" \in Types /\ "u64" \in Types
  BY DEF Types
<1>4. /\ Owns(own, "number", Req("u64", <<"number">>))
      /\ Owns(own, "time", Req("u64", <<"timestamp">>))
      /\ Owns(own, "difficulty", Req("big", <<"difficulty">>))
      /\ Owns(own, "nonce", Req("opaque", <<"nonce">>))
  BY <1>2, <1>3, OwnsOne, Zenon
<1>5. /\ Owns(own, "gasLimit", Req("u64", <<"gas_limit", "gasLimit">>))
      /\ Owns(own, "gasUsed", Req("u64", <<"gas_used", "gasUsed">>))
      /\ Owns(own, "bloom", Req("opaque", <<"logs_bloom", "logsBloom">>))
      /\ Owns(own, "extra", Req("opaque", <<"extra_data", "extraData">>))
      /\ Owns(own, "parentHash", Req("opaque", <<"parent_hash", "parentHash">>))
      /\ Owns(own, "root", Req("opaque", <<"state_root", "stateRoot">>))
  BY <1>2, <1>3, OwnsTwo, Zenon
<1>6. /\ Owns(own, "txHash", Req("opaque", <<"transactions_root", "transactionsRoot">>))
      /\ Owns(own, "receiptHash", Req("opaque", <<"receipts_root", "receiptsRoot">>))
      /\ Owns(own, "coinbase", Req("opaque", <<"beneficiary", "miner">>))
      /\ Owns(own, "mixDigest", Req("opaque", <<"mix_hash", "mixHash">>))
      /\ Owns(own, "baseFee", Opt("big", None, <<"base_fee_per_gas", "baseFeePerGas">>))
      /\ Owns(own, "withdrawalsHash",
              Opt("opaque", None, <<"withdrawals_root", "withdrawalsRoot">>))
  BY <1>2, <1>3, OwnsTwo, Zenon
<1>7. /\ Owns(own, "blobGasUsed", Opt("u64", None, <<"blob_gas_used", "blobGasUsed">>))
      /\ Owns(own, "excessBlobGas", Opt("u64", None, <<"excess_blob_gas", "excessBlobGas">>))
      /\ Owns(own, "beaconRoot",
              Opt("opaque", None, <<"parent_beacon_block_root", "parentBeaconBlockRoot">>))
      /\ Owns(own, "requestsHash", Opt("opaque", None, <<"requests_hash", "requestsHash">>))
      /\ Owns(own, "slotNumber", Opt("u64", None, <<"slot_number", "slotNumber">>))
      /\ Owns(own, "accessListHash",
              Opt("opaque", None, <<"block_access_list_hash", "blockAccessListHash">>))
  BY <1>2, <1>3, OwnsTwo, Zenon
<1>8. Owns(own, "uncleHash", Req("opaque", <<"ommers_hash", "sha3Uncles", "uncleHash">>))
  BY <1>2, <1>3, OwnsThree, Zenon
<1>9. Owned(own, HeaderFields)
  BY <1>4, <1>5, <1>6, <1>7, <1>8 DEF HeaderFields, Owned
<1> QED
  BY <1>1, <1>9, Zenon

\* Withdrawals.
LEMMA WithdrawalOwned ==
  Owned(WithdrawalOwner, WithdrawalFields)
<1>1. PICK own : own = WithdrawalOwner
  OBVIOUS
<1>2. /\ own["index"] = "index" /\ own["address"] = "address"
      /\ own["validatorIndex"] = "validator" /\ own["validator_index"] = "validator"
      /\ own["amount"] = "amount"
  BY <1>1 DEF WithdrawalOwner
<1>3. "opaque" \in Types /\ "u64" \in Types
  BY DEF Types
<1>4. /\ Owns(own, "index", Req("u64", <<"index">>))
      /\ Owns(own, "address", Req("opaque", <<"address">>))
      /\ Owns(own, "amount", Req("u64", <<"amount">>))
  BY <1>2, <1>3, OwnsOne, Zenon
<1>5. Owns(own, "validator", Req("u64", <<"validatorIndex", "validator_index">>))
  BY <1>2, <1>3, OwnsTwo, Zenon
<1>6. Owned(own, WithdrawalFields)
  BY <1>4, <1>5 DEF WithdrawalFields, Owned
<1> QED
  BY <1>1, <1>6, Zenon

\* Proposals, their sources, and carry data.
LEMMA ProposalOwned ==
  Owned(ProposalOwner, ProposalFields)
<1>1. PICK own : own = ProposalOwner
  OBVIOUS
<1>2. /\ own["id"] = "id" /\ own["timestamp"] = "timestamp"
      /\ own["endOfSubmissionWindowTimestamp"] = "windowEnd"
      /\ own["end_of_submission_window_timestamp"] = "windowEnd" /\ own["proposer"] = "proposer"
      /\ own["parentProposalHash"] = "parentHash" /\ own["parent_proposal_hash"] = "parentHash"
      /\ own["originBlockNumber"] = "originNumber"
      /\ own["origin_block_number"] = "originNumber" /\ own["originBlockHash"] = "originHash"
      /\ own["origin_block_hash"] = "originHash" /\ own["basefeeSharingPctg"] = "basefeeSharing"
      /\ own["basefee_sharing_pctg"] = "basefeeSharing" /\ own["sources"] = "sources"
  BY <1>1 DEF ProposalOwner
<1>3. "opaque" \in Types /\ "u48" \in Types /\ "u8" \in Types
  BY DEF Types
<1>4. /\ Owns(own, "id", Req("u48", <<"id">>))
      /\ Owns(own, "timestamp", Req("u48", <<"timestamp">>))
      /\ Owns(own, "proposer", Req("opaque", <<"proposer">>))
      /\ Owns(own, "sources", Req("opaque", <<"sources">>))
  BY <1>2, <1>3, OwnsOne, Zenon
<1>5. /\ Owns(own, "windowEnd",
              Req("u48", <<"endOfSubmissionWindowTimestamp", "end_of_submission_window_timestamp">>))
      /\ Owns(own, "parentHash", Req("opaque", <<"parentProposalHash", "parent_proposal_hash">>))
      /\ Owns(own, "originNumber", Req("u48", <<"originBlockNumber", "origin_block_number">>))
      /\ Owns(own, "originHash", Req("opaque", <<"originBlockHash", "origin_block_hash">>))
      /\ Owns(own, "basefeeSharing", Req("u8", <<"basefeeSharingPctg", "basefee_sharing_pctg">>))
  BY <1>2, <1>3, OwnsTwo, Zenon
<1>6. Owned(own, ProposalFields)
  BY <1>4, <1>5 DEF ProposalFields, Owned
<1> QED
  BY <1>1, <1>6, Zenon

LEMMA SourceOwned ==
  Owned(SourceOwner, SourceFields)
<1>1. PICK own : own = SourceOwner
  OBVIOUS
<1>2. /\ own["isForcedInclusion"] = "isForcedInclusion"
      /\ own["is_forced_inclusion"] = "isForcedInclusion" /\ own["blobHashes"] = "blobHashes"
      /\ own["blob_hashes"] = "blobHashes" /\ own["offset"] = "offset"
      /\ own["timestamp"] = "timestamp"
  BY <1>1 DEF SourceOwner
<1>3. "opaque" \in Types /\ "u24" \in Types /\ "u48" \in Types
  BY DEF Types
<1>4. /\ Owns(own, "offset", Req("u24", <<"offset">>))
      /\ Owns(own, "timestamp", Req("u48", <<"timestamp">>))
  BY <1>2, <1>3, OwnsOne, Zenon
<1>5. /\ Owns(own, "isForcedInclusion",
              Req("opaque", <<"isForcedInclusion", "is_forced_inclusion">>))
      /\ Owns(own, "blobHashes", Req("opaque", <<"blobHashes", "blob_hashes">>))
  BY <1>2, <1>3, OwnsTwo, Zenon
<1>6. Owned(own, SourceFields)
  BY <1>4, <1>5 DEF SourceFields, Owned
<1> QED
  BY <1>1, <1>6, Zenon

LEMMA CarryOwned ==
  Owned(CarryOwner, CarryFields)
<1>1. PICK own : own = CarryOwner
  OBVIOUS
<1>2. /\ own["chain_id"] = "chain" /\ own["verifier"] = "verifier" /\ own["proposal_id"] = "id"
      /\ own["proposal_hash"] = "proposalHash" /\ own["parent_proposal_hash"] = "parentProposal"
      /\ own["parent_block_hash"] = "parentBlock" /\ own["actual_prover"] = "actualProver"
      /\ own["proposer"] = "proposer" /\ own["timestamp"] = "timestamp"
      /\ own["blockNumber"] = "blockNumber" /\ own["blockHash"] = "blockHash"
      /\ own["stateRoot"] = "stateRoot"
  BY <1>1 DEF CarryOwner
<1>3. "opaque" \in Types /\ "u48" \in Types /\ "u64" \in Types
  BY DEF Types
<1>4. /\ Owns(own, "chain", Req("u64", <<"chain_id">>))
      /\ Owns(own, "verifier", Req("opaque", <<"verifier">>))
      /\ Owns(own, "id", Req("u48", <<"proposal_id">>))
      /\ Owns(own, "proposalHash", Req("opaque", <<"proposal_hash">>))
      /\ Owns(own, "parentProposal", Req("opaque", <<"parent_proposal_hash">>))
      /\ Owns(own, "parentBlock", Req("opaque", <<"parent_block_hash">>))
  BY <1>2, <1>3, OwnsOne, Zenon
<1>5. /\ Owns(own, "actualProver", Req("opaque", <<"actual_prover">>))
      /\ Owns(own, "proposer", Req("opaque", <<"proposer">>))
      /\ Owns(own, "timestamp", Req("u48", <<"timestamp">>))
      /\ Owns(own, "blockNumber", Req("u48", <<"blockNumber">>))
      /\ Owns(own, "blockHash", Req("opaque", <<"blockHash">>))
      /\ Owns(own, "stateRoot", Req("opaque", <<"stateRoot">>))
  BY <1>2, <1>3, OwnsOne, Zenon
<1>6. Owned(own, CarryFields)
  BY <1>4, <1>5 DEF CarryFields, Owned
<1> QED
  BY <1>1, <1>6, Zenon
\* Every decoder has such a table.
LEMMA Tables ==
  ASSUME NEW k \in Kinds
  PROVE  \E own : Owned(own, Table[k])
<1>1. CASE k \in TxKinds
  <2>1. Table[k] \in {LegacyFields, AccessListFields, DynamicFeeFields, SetCodeFields, BlobTxFields}
    BY <1>1 DEF Table, TxKinds
  <2>2. Owned(TxOwner, Table[k])
    BY <2>1, LegacyOwned, AccessListOwned, DynamicFeeOwned, SetCodeOwned, BlobTxOwned
  <2> QED BY <2>2
<1>2. CASE k = "Authorization"
  <2>1. Table[k] = AuthorizationFields
    BY <1>2 DEF Table, TxKinds
  <2> QED BY <2>1, AuthorizationOwned
<1>3. CASE k \in {"L1Header", "L2Header"}
  <2>1. Table[k] = HeaderFields
    BY <1>3 DEF Table, TxKinds
  <2> QED BY <2>1, HeaderOwned
<1>4. CASE k = "Withdrawal"
  <2>1. Table[k] = WithdrawalFields
    BY <1>4 DEF Table, TxKinds
  <2> QED BY <2>1, WithdrawalOwned
<1>5. CASE k = "Proposal"
  <2>1. Table[k] = ProposalFields
    BY <1>5 DEF Table, TxKinds
  <2> QED BY <2>1, ProposalOwned
<1>6. CASE k = "Source"
  <2>1. Table[k] = SourceFields
    BY <1>6 DEF Table, TxKinds
  <2> QED BY <2>1, SourceOwned
<1>7. CASE k = "Carry"
  <2>1. Table[k] = CarryFields
    BY <1>7 DEF Table, TxKinds
  <2> QED BY <2>1, CarryOwned
<1> QED
  BY <1>1, <1>2, <1>3, <1>4, <1>5, <1>6, <1>7 DEF Kinds

\* No name of a document is read for two fields of the same object, so the order in
\* which decode.go asks for fields and for their names does not matter between fields.
THEOREM NamesApart ==
  \A k \in Kinds : \A f, g \in DOMAIN Table[k] :
    \A i \in DOMAIN Table[k][f].names, j \in DOMAIN Table[k][g].names :
      Table[k][f].names[i] = Table[k][g].names[j] => f = g
<1> SUFFICES ASSUME NEW k \in Kinds, NEW f \in DOMAIN Table[k], NEW g \in DOMAIN Table[k],
                    NEW i \in DOMAIN Table[k][f].names, NEW j \in DOMAIN Table[k][g].names,
                    Table[k][f].names[i] = Table[k][g].names[j]
             PROVE  f = g
  OBVIOUS
<1>1. PICK own : Owned(own, Table[k])
  BY Tables
<1>2. own[Table[k][f].names[i]] = f /\ own[Table[k][g].names[j]] = g
  BY <1>1 DEF Owned, Owns
<1> QED
  BY <1>2

-----------------------------------------------------------------------------
(* One field *)

\* lookupField returns the entry under one of the names that are there.
LEMMA LookupFinds ==
  ASSUME NEW d, NEW field, IsField(field), Found(d, field.names) # {}
  PROVE  \E i \in Found(d, field.names) : lookupField(d, field.names) = d[field.names[i]]
<1>1. PICK names : names = field.names
  OBVIOUS
<1>0. DOMAIN names \subseteq 1..3
  <2>1. PICK n \in 1..3 : DOMAIN names = 1..n
    BY <1>1 DEF IsField
  <2> QED BY <2>1
<1>2. PICK S : S = Found(d, names)
  OBVIOUS
<1>3. S \subseteq 1..3 /\ S # {}
  BY <1>0, <1>1, <1>2 DEF Found
<1>4. \E x \in S : \A y \in S : x <= y
  <2>1. \A y \in S : y = 1 \/ y = 2 \/ y = 3
    BY <1>3
  <2>2. CASE 1 \in S
    BY <2>1, <2>2
  <2>3. CASE 1 \notin S /\ 2 \in S
    BY <2>1, <2>3
  <2>4. CASE 1 \notin S /\ 2 \notin S
    <3>1. \A y \in S : y = 3
      BY <2>1, <2>4
    <3>2. PICK x : x \in S
      BY <1>3, Zenon
    <3>3. \A y \in S : x <= y
      BY <3>1, <3>2
    <3> QED BY <3>2, <3>3, Zenon
  <2> QED BY <2>2, <2>3, <2>4
<1>5. Min(S) \in S
  BY <1>4 DEF Min
<1> QED
  BY <1>1, <1>2, <1>5 DEF lookupField

\* The types that have a width, and their values.
LEMMA Widths ==
  /\ DOMAIN Width = {"u8", "u24", "u48", "u64", "u128", "u256"}
  /\ Width["u8"] \in Nat /\ Width["u24"] \in Nat /\ Width["u48"] \in Nat /\ Width["u64"] \in Nat
  /\ Width["u128"] \in Nat /\ Width["u256"] \in Nat
  /\ 2 < Width["u8"] /\ Width["u8"] < Width["u24"] /\ Width["u24"] < Width["u48"]
  /\ Width["u48"] < Width["u64"] /\ Width["u64"] < Width["u128"] /\ Width["u128"] < Width["u256"]
  /\ ChainID \in Nat /\ 1 <= ChainID /\ ChainID < Width["u64"]
BY WidthAssumption

\* A remainder keeps what is small enough.
LEMMA KeptSmall ==
  ASSUME NEW x \in Nat, NEW w \in Nat, x < w
  PROVE  x % w = x
OBVIOUS

\* What is in range is converted to itself.
LEMMA ConvertedKeeps ==
  ASSUME NEW type, NEW x \in Int, InRange(type, x)
  PROVE  Converted(type, x) = x
<1>1. CASE type \in {"u8", "u256"}
  <2>1. PICK w \in Nat : w = Width[type] /\ type \in DOMAIN Width
    BY <1>1, Widths
  <2>2. x \in Nat /\ x < w
    BY <2>1 DEF InRange
  <2>3. x % w = x
    BY <2>2, KeptSmall
  <2> QED BY <1>1, <2>1, <2>3 DEF Converted
<1>2. CASE type \notin {"u8", "u256"}
  BY <1>2 DEF Converted
<1> QED
  BY <1>1, <1>2

\* The entries of a document.
Json == Int \cup {Null, Junk}

\* A value that a field may have.
Fits(field, x) ==
  \/ x \in Int /\ InRange(field.type, x)
  \/ x = None /\ field.default = None

\* A field is an error, its default, or an entry that is in range, as it is.
LEMMA FieldKept ==
  ASSUME NEW d, \A n \in DOMAIN d : d[n] \in Json, NEW field, IsField(field)
  PROVE  \/ DecodeField(d, field) = Error
         \/ DecodeField(d, field) = field.default /\ field.default # Required
         \/ \E i \in DOMAIN field.names :
              /\ field.names[i] \in DOMAIN d /\ DecodeField(d, field) = d[field.names[i]]
              /\ d[field.names[i]] \in Int /\ InRange(field.type, d[field.names[i]])
<1>1. CASE Found(d, field.names) = {}
  BY <1>1 DEF DecodeField
<1>2. CASE Found(d, field.names) # {}
  <2>1. PICK i \in Found(d, field.names) : lookupField(d, field.names) = d[field.names[i]]
    BY <1>2, LookupFinds
  <2>2. i \in DOMAIN field.names /\ field.names[i] \in DOMAIN d
    BY DEF Found
  <2>3. PICK x \in Json : x = d[field.names[i]]
    BY <2>2
  <2>4. CASE x = Null
    BY <2>1, <2>3, <2>4 DEF DecodeField
  <2>5. CASE x # Null /\ (x = Junk \/ ~InRange(field.type, x))
    BY <1>2, <2>1, <2>3, <2>5 DEF DecodeField
  <2>6. CASE x # Null /\ x # Junk /\ InRange(field.type, x)
    <3>1. x \in Int
      BY <2>3, <2>6 DEF Json
    <3>2. Converted(field.type, x) = x
      BY <2>6, <3>1, ConvertedKeeps
    <3>3. DecodeField(d, field) = x
      BY <1>2, <2>1, <2>3, <2>6, <3>2 DEF DecodeField
    <3> QED BY <2>2, <2>3, <2>6, <3>1, <3>3
  <2> QED BY <2>4, <2>5, <2>6
<1> QED
  BY <1>1, <1>2


-----------------------------------------------------------------------------
(* Documents *)

\* The values of an object with the fields of its table, and of its document.
Valued(k, values) ==
  /\ DOMAIN values = DOMAIN Table[k]
  /\ \A f \in DOMAIN values : Fits(Table[k][f], values[f])

IsWritten(values, omit, f) == f \in DOMAIN values /\ ~(omit /\ values[f] = None)

\* The name that a field is written under is one of its names.
LEMMA NameInNames ==
  ASSUME NEW field, IsField(field), NEW style \in 1..3
  PROVE  \E i \in DOMAIN field.names : NameIn(style, field) = field.names[i]
<1>1. PICK n \in 1..3 : DOMAIN field.names = 1..n /\ Len(field.names) = n
  BY DEF IsField
<1>2. CASE style <= n
  <2>1. NameIn(style, field) = field.names[style] /\ style \in 1..n
    BY <1>1, <1>2 DEF NameIn
  <2> QED BY <1>1, <2>1
<1>3. CASE ~(style <= n)
  <2>1. NameIn(style, field) = field.names[1] /\ 1 \in 1..n
    BY <1>1, <1>3 DEF NameIn
  <2> QED BY <1>1, <2>1
<1> QED
  BY <1>2, <1>3

\* A document has one entry for each field that is written, and no other entry has a
\* name of that field.
LEMMA DocumentAt ==
  ASSUME NEW k \in Kinds, NEW o, NEW values, values = Written(k, o),
         Valued(k, values), NEW style \in 1..3, NEW omit \in BOOLEAN,
         NEW d, d = Document(k, o, style, omit)
  PROVE  /\ \A f : IsWritten(values, omit, f) =>
              /\ NameIn(style, Table[k][f]) \in DOMAIN d
              /\ d[NameIn(style, Table[k][f])] = Entry(values[f])
         /\ \A f \in DOMAIN Table[k] : \A i \in DOMAIN Table[k][f].names :
              Table[k][f].names[i] \in DOMAIN d =>
                /\ Table[k][f].names[i] = NameIn(style, Table[k][f])
                /\ IsWritten(values, omit, f)
         /\ \A n \in DOMAIN d : d[n] \in Json
<1>1. PICK own : Owned(own, Table[k])
  BY Tables
<1>2. PICK fields : fields = WrittenFields(values, omit)
  OBVIOUS
<1>3. \A f : f \in fields <=> IsWritten(values, omit, f)
  BY <1>2 DEF IsWritten, WrittenFields
<1> DEFINE name(f) == NameIn(style, Table[k][f])
<1>4. d = [n \in {name(f) : f \in fields} |-> Entry(values[FieldNamed(k, fields, style, n)])]
  BY <1>2, Zenon DEF Document
<1>5. ASSUME NEW f \in DOMAIN Table[k] PROVE own[name(f)] = f
  <2>1. Owns(own, f, Table[k][f])
    BY <1>1 DEF Owned
  <2>2. PICK i \in DOMAIN Table[k][f].names : name(f) = Table[k][f].names[i]
    BY <2>1, NameInNames DEF Owns
  <2> QED BY <2>1, <2>2 DEF Owns
<1>6. \A f \in fields : f \in DOMAIN Table[k]
  BY <1>2 DEF Valued, WrittenFields
<1>7. ASSUME NEW f \in fields PROVE FieldNamed(k, fields, style, name(f)) = f
  <2>1. PICK g : g = FieldNamed(k, fields, style, name(f))
    OBVIOUS
  <2>2. g \in fields /\ name(g) = name(f)
    BY <2>1 DEF FieldNamed
  <2> QED BY <1>5, <1>6, <2>1, <2>2, Zenon
<1> HIDE DEF name
<1>8. DOMAIN d = {name(f) : f \in fields}
  BY <1>4
<1>9. ASSUME NEW f \in fields
      PROVE  name(f) \in DOMAIN d /\ d[name(f)] = Entry(values[f])
  BY <1>4, <1>7
<1>10. ASSUME NEW f \in DOMAIN Table[k], NEW i \in DOMAIN Table[k][f].names,
              Table[k][f].names[i] \in DOMAIN d
       PROVE  Table[k][f].names[i] = name(f) /\ f \in fields
  <2>1. PICK g \in fields : Table[k][f].names[i] = name(g)
    BY <1>8, <1>10
  <2>2. own[Table[k][f].names[i]] = f
    BY <1>1 DEF Owned, Owns
  <2> QED BY <1>5, <1>6, <2>1, <2>2
<1>11. ASSUME NEW n \in DOMAIN d PROVE d[n] \in Json
  <2>1. PICK f \in fields : n = name(f)
    BY <1>8
  <2>2. values[f] = None \/ values[f] \in Int
    BY <1>2 DEF Valued, Fits, WrittenFields
  <2> QED BY <1>9, <2>1, <2>2 DEF Entry, Json
<1> QED
  BY <1>3, <1>9, <1>10, <1>11 DEF name

\* Every field of a document decodes to the value it was written for.
LEMMA DocumentDecodes ==
  ASSUME NEW k \in Kinds, NEW o, NEW values, values = Written(k, o),
         Valued(k, values), NEW style \in 1..3, NEW omit \in BOOLEAN,
         NEW d, d = Document(k, o, style, omit), NEW f \in DOMAIN Table[k]
  PROVE  DecodeField(d, Table[k][f]) = values[f]
<1>1. PICK field : field = Table[k][f]
  OBVIOUS
<1>2. IsField(field)
  <2>1. PICK own : Owned(own, Table[k])
    BY Tables
  <2> QED BY <1>1, <2>1 DEF Owned, Owns
<1>3. Fits(field, values[f]) /\ f \in DOMAIN values
  BY <1>1 DEF Valued
<1>4. \A i \in Found(d, field.names) :
        field.names[i] = NameIn(style, field) /\ IsWritten(values, omit, f)
  BY <1>1, DocumentAt DEF Found
<1>5. CASE ~IsWritten(values, omit, f)
  <2>1. Found(d, field.names) = {}
    BY <1>4, <1>5
  <2>2. values[f] = None /\ field.default = None
    BY <1>3, <1>5, MarkAssumption DEF IsWritten, Fits
  <2> QED BY <1>1, <2>1, <2>2, MarkAssumption DEF DecodeField
<1>6. CASE IsWritten(values, omit, f)
  <2>1. PICK x : /\ x = Entry(values[f])
                 /\ NameIn(style, field) \in DOMAIN d /\ d[NameIn(style, field)] = x
    BY <1>1, <1>6, DocumentAt
  <2>2. Found(d, field.names) # {}
    <3>1. PICK i \in DOMAIN field.names : NameIn(style, field) = field.names[i]
      BY <1>2, NameInNames
    <3>2. i \in Found(d, field.names)
      BY <2>1, <3>1 DEF Found
    <3> QED BY <3>2
  <2>3. lookupField(d, field.names) = x
    <3>1. PICK i \in Found(d, field.names) : lookupField(d, field.names) = d[field.names[i]]
      BY <1>2, <2>2, LookupFinds
    <3> QED BY <1>4, <2>1, <3>1
  <2>4. CASE values[f] = None
    <3>1. x = Null /\ field.default = None
      BY <1>3, <2>1, <2>4, MarkAssumption DEF Fits, Entry
    <3> QED BY <1>1, <2>3, <2>4, <3>1, MarkAssumption DEF DecodeField
  <2>5. CASE values[f] # None
    <3>1. x = values[f] /\ x \in Int /\ InRange(field.type, x)
      BY <1>3, <2>1, <2>5 DEF Fits, Entry
    <3>2. x # Null /\ x # Junk
      BY <3>1, MarkAssumption
    <3>3. Converted(field.type, x) = x
      BY <3>1, ConvertedKeeps
    <3>4. DecodeField(d, field) = x
      BY <2>2, <2>3, <3>1, <3>2, <3>3 DEF DecodeField
    <3> QED BY <1>1, <3>1, <3>4
  <2> QED BY <2>4, <2>5
<1> QED
  BY <1>5, <1>6


-----------------------------------------------------------------------------
(* Objects *)

\* The fields of legacy transactions that are decoded together.
LEMMA LegacyTable ==
  /\ {"v", "chain"} \subseteq DOMAIN Table["Legacy"]
  /\ Table["Legacy"]["v"].type = "big" /\ Table["Legacy"]["v"].default = Required
  /\ Table["Legacy"]["chain"].type = "big" /\ Table["Legacy"]["chain"].default = None
<1>1. Table["Legacy"] = LegacyFields
  BY DEF Table, Kinds, TxKinds
<1>2. PICK t : t = TxFields("big")
  OBVIOUS
<1>3. /\ "v" \in DOMAIN t /\ "chain" \notin DOMAIN t
      /\ t["v"].type = "big" /\ t["v"].default = Required
  BY <1>2 DEF TxFields, Req
<1>4. PICK u : u = [gasPrice |-> Req("big", <<"gas_price", "gasPrice">>),
                    to |-> Opt("opaque", None, <<"to">>),
                    chain |-> Opt("big", None, <<"chain_id", "chainId">>)]
  OBVIOUS
<1>5. "chain" \in DOMAIN u /\ u["chain"].type = "big" /\ u["chain"].default = None
  BY <1>4 DEF Opt
<1>6. LegacyFields = Joined(t, u)
  BY <1>2, <1>4, Zenon DEF LegacyFields
<1> QED
  BY <1>1, <1>3, <1>5, <1>6 DEF Joined

\* The chain IDs of the other objects have a type that holds one, and a sidecar may be
\* missing.
ChainFits(table) ==
  /\ "chain" \in DOMAIN table => table["chain"].type \in {"u64", "u256", "big"}
  /\ "sidecar" \in DOMAIN table => table["sidecar"].default = None

LEMMA ChainFitsJoined ==
  ASSUME NEW f, NEW g, ChainFits(f), ChainFits(g)
  PROVE  ChainFits(Joined(f, g))
BY DEF ChainFits, Joined

LEMMA ChainTypes ==
  ASSUME NEW k \in Kinds
  PROVE  ChainFits(Table[k])
<1>1. ASSUME NEW type \in {"big", "u256"}
      PROVE  ChainFits(TxFields(type)) /\ ChainFits(FeeFields(type))
  <2>1. ChainFits(TxFields(type))
    BY DEF ChainFits, TxFields
  <2>2. ChainFits(FeeFields(type))
    BY DEF ChainFits, FeeFields, Req
  <2> QED BY <2>1, <2>2
<1>2. ChainFits(LegacyFields)
  <2>1. ChainFits([gasPrice |-> Req("big", <<"gas_price", "gasPrice">>),
                   to |-> Opt("opaque", None, <<"to">>),
                   chain |-> Opt("big", None, <<"chain_id", "chainId">>)])
    BY DEF ChainFits, Opt
  <2> QED BY <1>1, <2>1, ChainFitsJoined, Zenon DEF LegacyFields
<1>3. ChainFits(AccessListFields)
  <2>1. ChainFits([chain |-> Req("big", <<"chain_id", "chainId">>),
                   gasPrice |-> Req("big", <<"gas_price", "gasPrice">>),
                   to |-> Opt("opaque", None, <<"to">>),
                   accessList |-> Opt("opaque", 0, <<"access_list", "accessList">>)])
    BY DEF ChainFits, Req
  <2> QED BY <1>1, <2>1, ChainFitsJoined, Zenon DEF AccessListFields
<1>4. ChainFits(DynamicFeeFields)
  <2>1. ChainFits([to |-> Opt("opaque", None, <<"to">>)])
    BY DEF ChainFits
  <2> QED BY <1>1, <2>1, ChainFitsJoined, Zenon DEF DynamicFeeFields
<1>5. ChainFits(SetCodeFields)
  <2>1. ChainFits([to |-> Req("opaque", <<"to">>),
                   authorizations |-> Req("opaque", <<"authorization_list", "authorizationList">>)])
    BY DEF ChainFits
  <2> QED BY <1>1, <2>1, ChainFitsJoined, Zenon DEF SetCodeFields
<1>6. ChainFits(BlobTxFields)
  <2>1. ChainFits([to |-> Req("opaque", <<"to">>),
                   blobFee |-> Req("u256", <<"max_fee_per_blob_gas">>),
                   sidecar |-> Opt("opaque", None, <<"sidecar">>)])
    BY DEF ChainFits, Opt
  <2> QED BY <1>1, <2>1, ChainFitsJoined, Zenon DEF BlobTxFields
<1>7. ChainFits(AuthorizationFields) /\ ChainFits(CarryFields)
  BY DEF ChainFits, AuthorizationFields, CarryFields, Req
<1>8. ChainFits(HeaderFields)
  BY DEF ChainFits, HeaderFields
<1>9. ChainFits(WithdrawalFields) /\ ChainFits(ProposalFields) /\ ChainFits(SourceFields)
  BY DEF ChainFits, WithdrawalFields, ProposalFields, SourceFields
<1>10. Table[k] \in {LegacyFields, AccessListFields, DynamicFeeFields, SetCodeFields, BlobTxFields,
                     AuthorizationFields, HeaderFields, WithdrawalFields, ProposalFields,
                     SourceFields, CarryFields}
  BY DEF Table, Kinds, TxKinds
<1> QED
  BY <1>2, <1>3, <1>4, <1>5, <1>6, <1>7, <1>8, <1>9, <1>10

\* An object of kind k: each field has a value of its type, or none where it may.
IsObject(k, o) ==
  /\ o = [f \in ObjectFields(k) |-> o[f]]
  /\ \A f \in ObjectFields(k) : Fits(Table[k][f], o[f])

\* The objects of the runs are objects.
LEMMA PlainIsObject ==
  ASSUME NEW k \in Kinds
  PROVE  IsObject(k, Plain(k))
<1> SUFFICES ASSUME NEW f \in ObjectFields(k) PROVE Fits(Table[k][f], Plain(k)[f])
  BY DEF IsObject, Plain
<1>1. PICK field : field = Table[k][f] /\ f \in DOMAIN Table[k]
  BY DEF ObjectFields
<1>2. IsField(field)
  <2>1. PICK own : Owned(own, Table[k])
    BY Tables
  <2> QED BY <1>1, <2>1 DEF Owned, Owns
<1>3. CASE f = "v" /\ k = "Legacy"
  <2>1. Plain(k)[f] = 36 + 2 * ChainID /\ field.type = "big"
    BY <1>1, <1>3, LegacyTable DEF Plain
  <2> QED BY <1>1, <2>1, Widths DEF Fits, InRange
<1>4. CASE ~(f = "v" /\ k = "Legacy") /\ f = "chain"
  <2>1. Plain(k)[f] = ChainID
    BY <1>4 DEF Plain
  <2>2. field.type \in {"u64", "u256", "big"}
    BY <1>1, <1>4, ChainTypes DEF ChainFits
  <2> QED BY <1>1, <2>1, <2>2, Widths DEF Fits, InRange
<1>5. CASE ~(f = "v" /\ k = "Legacy") /\ f = "sidecar"
  <2>1. Plain(k)[f] = None
    BY <1>5 DEF Plain
  <2>2. field.default = None
    BY <1>1, <1>5, ChainTypes DEF ChainFits
  <2> QED BY <1>1, <2>1, <2>2 DEF Fits
<1>6. CASE ~(f = "v" /\ k = "Legacy") /\ f # "chain" /\ f # "sidecar"
  <2>1. Plain(k)[f] = 1
    BY <1>6 DEF Plain
  <2>2. field.type \in Types
    BY <1>2 DEF IsField
  <2>3. InRange(field.type, 1)
    BY <2>2, Widths DEF InRange, Types
  <2> QED BY <1>1, <2>1, <2>3 DEF Fits
<1> QED
  BY <1>3, <1>4, <1>5, <1>6

LEMMA EdgesFit ==
  ASSUME NEW k \in Kinds, NEW f \in ObjectFields(k), NEW e \in Edges(k, f)
  PROVE  Fits(Table[k][f], e)
<1>1. PICK field : field = Table[k][f] /\ f \in DOMAIN Table[k]
  BY DEF ObjectFields
<1>2. IsField(field)
  <2>1. PICK own : Owned(own, Table[k])
    BY Tables
  <2> QED BY <1>1, <2>1 DEF Owned, Owns
<1>3. PICK none : none = IF field.default = None THEN {None} ELSE {}
  OBVIOUS
<1>4. ASSUME e \in none PROVE Fits(field, e)
  BY <1>3, <1>4 DEF Fits
<1>5. CASE f = "v" /\ k = "Legacy"
  <2>1. e \in LegacyEdges /\ field.type = "big"
    BY <1>1, <1>5, LegacyTable DEF Edges
  <2>2. e \in Int
    BY <2>1, Widths DEF LegacyEdges
  <2> QED BY <1>1, <2>1, <2>2, Widths DEF Fits, InRange
<1>6. CASE ~(f = "v" /\ k = "Legacy") /\ field.type \in {"big", "u256"}
  <2>1. PICK S, L : /\ S = {Width[t] - 1 : t \in {"u64", "u128", "u256"}}
                    /\ L = {Width[t] : t \in {"u64", "u128", "u256"}}
    OBVIOUS
  <2>2. /\ field.type = "big" => e \in ({0, 1, 2} \cup S \cup L \cup none)
        /\ field.type = "u256" => e \in ({0, 1, 2} \cup S \cup none)
    BY <1>1, <1>3, <1>6, <2>1 DEF Edges
  <2>3. \A x \in {0, 1, 2} \cup S : x \in Int /\ 0 <= x /\ x < Width["u256"]
    BY <2>1, Widths
  <2>4. \A x \in L : x \in Int
    BY <2>1, Widths
  <2>5. CASE field.type = "big"
    <3>1. e \in Int \/ e \in none
      BY <2>2, <2>3, <2>4, <2>5
    <3> QED BY <1>1, <1>4, <2>5, <3>1, Widths DEF Fits, InRange
  <2>6. CASE field.type = "u256"
    <3>1. (e \in Int /\ 0 <= e /\ e < Width["u256"]) \/ e \in none
      BY <2>2, <2>3, <2>6
    <3> QED BY <1>1, <1>4, <2>6, <3>1 DEF Fits, InRange
  <2> QED BY <1>6, <2>5, <2>6
<1>7. CASE ~(f = "v" /\ k = "Legacy") /\ field.type = "opaque"
  <2>1. e \in {0, 1} \cup none
    BY <1>1, <1>3, <1>7 DEF Edges
  <2> QED BY <1>1, <1>4, <1>7, <2>1, Widths DEF Fits, InRange
<1>8. CASE ~(f = "v" /\ k = "Legacy") /\ field.type \notin {"big", "u256", "opaque"}
  <2>1. e \in {0, Width[field.type] - 1} \cup none
    BY <1>1, <1>3, <1>8 DEF Edges
  <2>2. field.type \in {"u8", "u24", "u48", "u64", "u128"}
    BY <1>2, <1>8 DEF IsField, Types
  <2>3. PICK w \in Nat : w = Width[field.type] /\ w > 2
    BY <2>2, Widths
  <2> QED BY <1>1, <1>4, <2>1, <2>2, <2>3 DEF Fits, InRange
<1> QED
  BY <1>5, <1>6, <1>7, <1>8

LEMMA ObjectsFit ==
  ASSUME NEW k \in Kinds, NEW o \in Objects(k)
  PROVE  IsObject(k, o)
<1>1. IsObject(k, Plain(k))
  BY PlainIsObject
<1>2. ASSUME NEW f \in ObjectFields(k), NEW e \in Edges(k, f), o = [Plain(k) EXCEPT ![f] = e]
      PROVE  IsObject(k, o)
  <2>1. Fits(Table[k][f], e)
    BY EdgesFit
  <2>2. DOMAIN Plain(k) = ObjectFields(k)
    BY DEF Plain
  <2>3. o = [g \in ObjectFields(k) |-> IF g = f THEN e ELSE Plain(k)[g]]
    BY <1>2, <2>2
  <2> QED BY <1>1, <2>1, <2>3 DEF IsObject
<1> QED
  BY <1>1, <1>2 DEF Objects


\* The fields that are written for an object have values of their types too.
LEMMA WrittenFits ==
  ASSUME NEW k \in Kinds, NEW o, IsObject(k, o)
  PROVE  Valued(k, Written(k, o))
<1>1. CASE k # "Legacy"
  <2>1. Written(k, o) = o /\ ObjectFields(k) = DOMAIN Table[k]
    BY <1>1 DEF Written, ObjectFields
  <2>2. DOMAIN o = ObjectFields(k)
    BY DEF IsObject
  <2> QED BY <2>1, <2>2 DEF Valued, IsObject
<1>2. CASE k = "Legacy"
  <2>1. PICK fields : fields = ObjectFields(k) /\ fields = (DOMAIN Table[k]) \ {"chain"}
    BY <1>2 DEF ObjectFields
  <2>2. "v" \in fields /\ fields \cup {"chain"} = DOMAIN Table[k] /\ DOMAIN o = fields
    BY <1>2, <2>1, LegacyTable DEF IsObject
  <2>3. o["v"] \in Int
    <3>1. Fits(Table[k]["v"], o["v"])
      BY <2>1, <2>2 DEF IsObject
    <3> QED BY <1>2, <3>1, LegacyTable, MarkAssumption DEF Fits
  <2>4. PICK v, p, c : /\ v = o["v"] /\ v \in Int /\ c = LegacyChain(v)
                       /\ p = IF v < 35 THEN v - 27 ELSE (v - 35) % 2
    BY <2>3
  <2>5. p \in Int /\ (c = None \/ c \in Int)
    <3>1. v < 35 => p \in Int
      BY <2>4
    <3>2. (v - 35) % 2 \in Int
      BY <2>4
    <3>3. (v - 35) \div 2 \in Int
      BY <2>4
    <3> QED BY <2>4, <3>1, <3>2, <3>3 DEF LegacyChain
  <2>6. PICK w : w = [o EXCEPT !.v = p]
    OBVIOUS
  <2>7. w = [f \in fields |-> IF f = "v" THEN p ELSE o[f]]
    BY <2>2, <2>6
  <2>8. Written(k, o) = Joined(w, [chain |-> c])
    BY <1>2, <2>4, <2>6 DEF Written
  <2>9. /\ DOMAIN Written(k, o) = DOMAIN Table[k] /\ Written(k, o)["chain"] = c
        /\ \A f \in fields : Written(k, o)[f] = IF f = "v" THEN p ELSE o[f]
    BY <2>1, <2>2, <2>7, <2>8 DEF Joined
  <2>10. Fits(Table[k]["chain"], c) /\ Fits(Table[k]["v"], p)
    BY <1>2, <2>5, LegacyTable, Widths DEF Fits, InRange
  <2>11. \A f \in fields : Fits(Table[k][f], Written(k, o)[f])
    BY <2>1, <2>9, <2>10 DEF IsObject
  <2> QED BY <2>2, <2>9, <2>10, <2>11 DEF Valued
<1> QED
  BY <1>1, <1>2

\* A number is twice its half, and its parity.
LEMMA Halves ==
  ASSUME NEW x \in Nat
  PROVE  x = 2 * (x \div 2) + (x % 2) /\ x % 2 \in Int
OBVIOUS

\* legacyV undoes the split of a v into a chain ID and a parity.
LEMMA LegacyVBack ==
  ASSUME NEW v \in Int, v \in {27, 28} \/ v >= 35, LegacyChain(v) \in {None, ChainID}
  PROVE  legacyV(LegacyChain(v), IF v < 35 THEN v - 27 ELSE (v - 35) % 2) = v
<1>1. CASE v \in {27, 28}
  BY <1>1, MarkAssumption DEF LegacyChain, legacyV
<1>2. CASE v >= 35
  <2>1. PICK x \in Nat : x = v - 35
    BY <1>2
  <2>2. LegacyChain(v) = x \div 2 /\ x \div 2 \in Int /\ v # 27 /\ v # 28 /\ ~(v < 35)
    BY <1>2, <2>1 DEF LegacyChain
  <2>3. x \div 2 = ChainID
    BY <2>2, MarkAssumption
  <2>4. ChainID # 0 /\ ChainID # None
    BY Widths, MarkAssumption
  <2>5. x = 2 * (x \div 2) + (x % 2) /\ x % 2 \in Int
    BY Halves
  <2> QED BY <1>2, <2>1, <2>2, <2>3, <2>4, <2>5, Widths DEF legacyV
<1> QED
  BY <1>1, <1>2

\* Every honest object comes back from its document, in every style of names and with
\* what it does not have left out or written as null.
THEOREM HonestObjectsDecode ==
  \A k \in Kinds : \A o :
    IsObject(k, o) /\ Honest(k, o) =>
      \A style \in 1..3, omit \in BOOLEAN : Decode(k, Document(k, o, style, omit)) = o
<1> SUFFICES ASSUME NEW k \in Kinds, NEW o, IsObject(k, o), Honest(k, o),
                    NEW style \in 1..3, NEW omit \in BOOLEAN
             PROVE  Decode(k, Document(k, o, style, omit)) = o
  OBVIOUS
<1>1. PICK values, d : values = Written(k, o) /\ d = Document(k, o, style, omit)
  OBVIOUS
<1>2. Valued(k, values)
  BY <1>1, WrittenFits
<1>3. PICK got : got = [f \in DOMAIN Table[k] |-> DecodeField(d, Table[k][f])]
  OBVIOUS
<1>4. \A f \in DOMAIN Table[k] : got[f] = values[f]
  BY <1>1, <1>2, <1>3, DocumentDecodes
<1>5. DOMAIN got = DOMAIN Table[k] /\ ~\E f \in DOMAIN got : got[f] = Error
  <2>1. \A f \in DOMAIN Table[k] : values[f] \in Int \/ values[f] = None
    BY <1>2 DEF Valued, Fits
  <2> QED BY <1>3, <1>4, <2>1, MarkAssumption
<1>6. k # "Eip4844"
  BY DEF Honest, IsCandidate, TxKinds
<1>7. CASE k = "Legacy"
  <2>1. PICK fields : fields = ObjectFields(k) /\ fields = (DOMAIN Table[k]) \ {"chain"}
    BY <1>7 DEF ObjectFields
  <2>2. "v" \in fields /\ "chain" \in DOMAIN Table[k] /\ "v" # "chain"
    BY <1>7, <2>1, LegacyTable
  <2>3. PICK v : v = o["v"]
    OBVIOUS
  <2>4. v \in Int
    <3>1. Fits(Table[k]["v"], v)
      BY <2>1, <2>2, <2>3 DEF IsObject
    <3> QED BY <1>7, <3>1, LegacyTable, MarkAssumption DEF Fits
  <2>5. (v \in {27, 28} \/ v >= 35) /\ LegacyChain(v) \in {None, ChainID}
    BY <1>7, <2>3 DEF Honest, TxKinds, ValidEncoding, IsCandidate
  <2>6. PICK p, c : c = LegacyChain(v) /\ p = IF v < 35 THEN v - 27 ELSE (v - 35) % 2
    OBVIOUS
  <2>7. DOMAIN o = fields /\ values = Joined([o EXCEPT !.v = p], [chain |-> c])
    BY <1>1, <1>7, <2>1, <2>3, <2>6 DEF IsObject, Written
  <2>8. /\ values["v"] = p /\ values["chain"] = c
        /\ \A f \in fields : f # "v" => values[f] = o[f]
    BY <2>1, <2>2, <2>7 DEF Joined
  <2>9. legacyV(c, p) = v
    BY <2>4, <2>5, <2>6, LegacyVBack
  <2>10. Decode(k, d) = [f \in (DOMAIN got) \ {"chain"} |->
                           IF f = "v" THEN legacyV(got.chain, got.v) ELSE got[f]]
    BY <1>3, <1>5, <1>7 DEF Decode
  <2>11. got["chain"] = c /\ got["v"] = p
    BY <1>4, <2>1, <2>2, <2>8
  <2>12. Decode(k, d) = [f \in fields |-> IF f = "v" THEN v ELSE got[f]]
    BY <1>5, <2>1, <2>9, <2>10, <2>11
  <2>13. \A f \in fields : f # "v" => got[f] = o[f]
    BY <1>4, <2>1, <2>8
  <2>14. o = [f \in fields |-> o[f]]
    BY <2>1 DEF IsObject
  <2> QED BY <1>1, <2>3, <2>12, <2>13, <2>14
<1>8. CASE k # "Legacy"
  <2>1. values = o /\ ObjectFields(k) = DOMAIN Table[k]
    BY <1>1, <1>8 DEF Written, ObjectFields
  <2>2. got = o
    BY <1>3, <1>4, <2>1 DEF IsObject
  <2>3. k = "L2Header" => got.accessListHash = None
    BY <2>2 DEF Honest
  <2>4. Decode(k, d) = got
    BY <1>3, <1>5, <1>6, <1>8, <2>3 DEF Decode
  <2> QED BY <1>1, <2>2, <2>4
<1> QED
  BY <1>7, <1>8


-----------------------------------------------------------------------------
(* What is decoded from any document *)

\* The fields of a result are its table's, each decoded on its own; only the v of a
\* legacy transaction is put together from two.
LEMMA DecodedFields ==
  ASSUME NEW k \in Kinds, NEW d, Decode(k, d) # Error
  PROVE  /\ \A f \in DOMAIN Table[k] : DecodeField(d, Table[k][f]) # Error
         /\ DOMAIN Decode(k, d) = ObjectFields(k)
         /\ \A f \in ObjectFields(k) :
              (k = "Legacy" /\ f = "v") \/ Decode(k, d)[f] = DecodeField(d, Table[k][f])
<1>1. PICK got : got = [f \in DOMAIN Table[k] |-> DecodeField(d, Table[k][f])]
  OBVIOUS
<1>2. \A f \in DOMAIN Table[k] : got[f] # Error
  BY <1>1 DEF Decode
<1>3. CASE k = "Legacy"
  <2>1. Decode(k, d) = [f \in (DOMAIN got) \ {"chain"} |->
                          IF f = "v" THEN legacyV(got.chain, got.v) ELSE got[f]]
    BY <1>1, <1>2, <1>3 DEF Decode
  <2>2. ObjectFields(k) = (DOMAIN Table[k]) \ {"chain"}
    BY <1>3 DEF ObjectFields
  <2>3. DOMAIN Decode(k, d) = ObjectFields(k)
    BY <1>1, <2>1, <2>2
  <2>4. ASSUME NEW f \in ObjectFields(k), f # "v"
        PROVE  Decode(k, d)[f] = DecodeField(d, Table[k][f])
    <3>1. f \in DOMAIN Table[k] /\ f \in (DOMAIN got) \ {"chain"}
      BY <1>1, <2>2
    <3> QED BY <1>1, <2>1, <2>4, <3>1
  <2> QED BY <1>1, <1>2, <1>3, <2>3, <2>4
<1>4. CASE k # "Legacy"
  <2>1. Decode(k, d) = got
    BY <1>1, <1>2, <1>4 DEF Decode
  <2>2. ObjectFields(k) = DOMAIN Table[k]
    BY <1>4 DEF ObjectFields
  <2> QED BY <1>1, <1>2, <2>1, <2>2
<1> QED
  BY <1>3, <1>4

\* Every field of a table is one.
LEMMA TableFields ==
  ASSUME NEW k \in Kinds, NEW f \in DOMAIN Table[k]
  PROVE  IsField(Table[k][f])
<1>1. PICK own : Owned(own, Table[k])
  BY Tables
<1> QED
  BY <1>1 DEF Owned, Owns

\* The fields that the contracts hash are required, and parsed to the contracts' types.
LEMMA AbiTables ==
  ASSUME NEW k \in DOMAIN AbiType
  PROVE  /\ k \in Kinds /\ k # "Legacy"
         /\ \A f \in DOMAIN AbiType[k] :
              /\ f \in DOMAIN Table[k] /\ AbiType[k][f] \in DOMAIN Width
              /\ Table[k][f].type = AbiType[k][f] /\ Table[k][f].default = Required
<1>1. DOMAIN AbiType = {"Proposal", "Source", "Carry"}
  BY DEF AbiType
<1>2. k \in Kinds /\ k # "Legacy"
  BY <1>1 DEF Kinds
<1>3. CASE k = "Proposal"
  <2>1. Table[k] = ProposalFields
    BY <1>3 DEF Table, Kinds, TxKinds
  <2>2. AbiType[k] = [id |-> "u48", timestamp |-> "u48", windowEnd |-> "u48",
                      originNumber |-> "u48", basefeeSharing |-> "u8"]
    BY <1>3 DEF AbiType
  <2> QED BY <1>2, <2>1, <2>2, Widths DEF ProposalFields, Req
<1>4. CASE k = "Source"
  <2>1. Table[k] = SourceFields
    BY <1>4 DEF Table, Kinds, TxKinds
  <2>2. AbiType[k] = [offset |-> "u24", timestamp |-> "u48"]
    BY <1>4 DEF AbiType
  <2> QED BY <1>2, <2>1, <2>2, Widths DEF SourceFields, Req
<1>5. CASE k = "Carry"
  <2>1. Table[k] = CarryFields
    BY <1>5 DEF Table, Kinds, TxKinds
  <2>2. AbiType[k] = [chain |-> "u64", id |-> "u48", timestamp |-> "u48", blockNumber |-> "u48"]
    BY <1>5 DEF AbiType
  <2> QED BY <1>2, <2>1, <2>2, Widths DEF CarryFields, Req
<1> QED
  BY <1>1, <1>3, <1>4, <1>5

-----------------------------------------------------------------------------
(* Invariance *)

\* A document has JSON values and, until it is edited, is its producer's; a result is
\* what decodes from the document that is still there.
DecodingInv ==
  /\ kind \in Kinds /\ object \in Objects(kind) /\ edited \in BOOLEAN
  /\ \A n \in DOMAIN doc : doc[n] \in Json
  /\ ~edited => \E style \in 1..3, omit \in BOOLEAN : doc = Document(kind, object, style, omit)
  /\ result = None \/ result = Decode(kind, doc)

LEMMA DecodingInvariance == DecodingSpec => []DecodingInv
<1>1. ASSUME DecodingInit PROVE DecodingInv
  <2>1. PICK style \in 1..3, omit \in BOOLEAN : doc = Document(kind, object, style, omit)
    BY <1>1 DEF DecodingInit
  <2>2. kind \in Kinds /\ IsObject(kind, object)
    BY <1>1, ObjectsFit DEF DecodingInit
  <2>3. \A n \in DOMAIN doc : doc[n] \in Json
    BY <2>1, <2>2, WrittenFits, DocumentAt
  <2> QED BY <1>1, <2>1, <2>3 DEF DecodingInit, DecodingInv
<1>2. ASSUME DecodingInv, [DecodingNext]_decodingVars PROVE DecodingInv'
  <2>1. ASSUME NEW f \in DOMAIN Table[kind], NEW i \in DOMAIN Table[kind][f].names,
               NEW raw \in Values(Table[kind][f]), Edit(Table[kind][f].names[i], raw)
        PROVE  DecodingInv'
    <3>1. raw \in Json
      <4>1. IsField(Table[kind][f])
        BY <1>2, TableFields DEF DecodingInv
      <4> QED BY Widths DEF Values, Json
    <3>2. \A n \in DOMAIN doc' : doc'[n] \in Json
      BY <1>2, <2>1, <3>1 DEF Edit, DecodingInv
    <3> QED BY <1>2, <2>1, <3>2 DEF Edit, DecodingInv
  <2>2. ASSUME NEW name \in DOMAIN doc, Remove(name) PROVE DecodingInv'
    BY <1>2, <2>2 DEF Remove, DecodingInv
  <2>3. CASE DecodeDocument
    BY <1>2, <2>3 DEF DecodeDocument, DecodingInv
  <2>4. CASE Forget
    BY <1>2, <2>4 DEF Forget, DecodingInv
  <2>5. CASE UNCHANGED decodingVars
    BY <1>2, <2>5 DEF decodingVars, DecodingInv
  <2> QED
    BY <1>2, <2>1, <2>2, <2>3, <2>4, <2>5 DEF DecodingNext
<1> QED
  BY <1>1, <1>2, PTL DEF DecodingSpec

\* Requests of honest producers are decoded to what they mean: a transaction that the
\* manifest decoder and the execution let through, a header, a proposal and carry data.
THEOREM HonestRequestsDecode == DecodingSpec => []HonestDecodes
<1>1. ASSUME DecodingInv PROVE HonestDecodes
  <2> SUFFICES ASSUME ~edited, result # None, Honest(kind, object) PROVE result = object
    BY DEF HonestDecodes
  <2>1. PICK style \in 1..3, omit \in BOOLEAN : doc = Document(kind, object, style, omit)
    BY <1>1 DEF DecodingInv
  <2>2. kind \in Kinds /\ IsObject(kind, object)
    BY <1>1, ObjectsFit DEF DecodingInv
  <2>3. Decode(kind, Document(kind, object, style, omit)) = object
    BY <2>2, HonestObjectsDecode
  <2> QED BY <1>1, <2>1, <2>3 DEF DecodingInv
<1> QED
  BY <1>1, DecodingInvariance, PTL

\* No conversion of decode.go cuts a value.
THEOREM NothingIsCut == DecodingSpec => []ValuesKept
<1>1. ASSUME DecodingInv PROVE ValuesKept
  <2> SUFFICES ASSUME result \notin {None, Error}, NEW f \in DOMAIN result,
                      ~(kind = "Legacy" /\ f = "v")
               PROVE  result[f] \in {Table[kind][f].default} \cup
                        {doc[n] : n \in DOMAIN doc \cap
                           {Table[kind][f].names[i] : i \in DOMAIN Table[kind][f].names}}
    BY DEF ValuesKept
  <2>1. kind \in Kinds /\ result = Decode(kind, doc) /\ Decode(kind, doc) # Error
    BY <1>1 DEF DecodingInv
  <2>2. PICK field : field = Table[kind][f]
    OBVIOUS
  <2>3. f \in DOMAIN Table[kind] /\ result[f] = DecodeField(doc, field) /\ result[f] # Error
    <3>1. f \in ObjectFields(kind)
      BY <2>1, DecodedFields
    <3>2. f \in DOMAIN Table[kind]
      BY <3>1 DEF ObjectFields
    <3>3. Decode(kind, doc)[f] = DecodeField(doc, Table[kind][f])
      BY <2>1, <3>1, DecodedFields
    <3>4. DecodeField(doc, Table[kind][f]) # Error
      BY <2>1, <3>2, DecodedFields
    <3> QED BY <2>1, <2>2, <3>2, <3>3, <3>4
  <2>4. IsField(field)
    BY <2>1, <2>2, <2>3, TableFields
  <2>5. \/ result[f] = field.default
        \/ \E i \in DOMAIN field.names :
             field.names[i] \in DOMAIN doc /\ result[f] = doc[field.names[i]]
    BY <1>1, <2>3, <2>4, FieldKept DEF DecodingInv
  <2> QED BY <2>2, <2>5
<1> QED
  BY <1>1, DecodingInvariance, PTL

\* Every number of a decoded proposal, source or carry data fits the type that the
\* contracts hash it with.
THEOREM HashedAsDecoded == DecodingSpec => []FitsAbi
<1>1. ASSUME DecodingInv PROVE FitsAbi
  <2> SUFFICES ASSUME result \notin {None, Error}, kind \in DOMAIN AbiType,
                      NEW f \in DOMAIN AbiType[kind]
               PROVE  result[f] \in 0..(Width[AbiType[kind][f]] - 1)
    BY DEF FitsAbi
  <2>1. kind \in Kinds /\ result = Decode(kind, doc) /\ Decode(kind, doc) # Error
    BY <1>1 DEF DecodingInv
  <2>2. PICK field, t : field = Table[kind][f] /\ t = AbiType[kind][f]
    OBVIOUS
  <2>3. /\ kind # "Legacy" /\ f \in DOMAIN Table[kind] /\ t \in DOMAIN Width
        /\ field.type = t /\ field.default = Required
    BY <2>2, AbiTables
  <2>4. f \in ObjectFields(kind)
    BY <2>3 DEF ObjectFields
  <2>5. result[f] = DecodeField(doc, field) /\ DecodeField(doc, field) # Error
    BY <2>1, <2>2, <2>3, <2>4, DecodedFields
  <2>6. IsField(field)
    BY <2>1, <2>2, <2>3, TableFields
  <2>7. result[f] \in Int /\ InRange(t, result[f])
    BY <1>1, <2>3, <2>5, <2>6, FieldKept DEF DecodingInv
  <2>8. Width[t] \in Nat
    BY <2>3, Widths
  <2> QED BY <2>2, <2>3, <2>7, <2>8 DEF InRange
<1> QED
  BY <1>1, DecodingInvariance, PTL

=============================================================================
