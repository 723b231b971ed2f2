------------------------------- MODULE Shortcut -------------------------------
(***************************************************************************)
(* One attempt to replace a routed path by a direct edge                   *)
(* (pkg/mesh/shortcut): the managers of the initiator, the target and the  *)
(* coordinator, the signals between them, the solver task, the probation   *)
(* monitor, the watchdogs and the packet neighbour at both ends.           *)
(*                                                                         *)
(* A step is one critical section of a manager's mutex with the sends that *)
(* follow it, or one call of the strategy or of the node.  Signals may be  *)
(* reordered; a loss or a failure spends one of MaxFaults.  Deadlines are  *)
(* steps that may happen at any time.                                      *)
(***************************************************************************)
EXTENDS Naturals, Sequences, FiniteSets

CONSTANTS
    MaxFaults,
    MaxSolver,      \* solver messages a strategy sends
    Tellers,        \* endpoints whose strategy sends any
    Backlog,        \* maxPendingSolverMessages
    Closers,        \* nodes whose manager may be closed
    Timeouts        \* whether a watchdog may fire

VARIABLES
    scPhase,        \* status.Phase of each node, "none" before it knows the attempt
    scPrepare,      \* handlePrepare of an endpoint: "no", "factory", "plan", "done"
    scHeld,         \* state.strategy # nil
    scOpen,         \* strategies created and not closed
    scRun,          \* runSolver: "no", "drain", "deliver", "execute", "attach",
                    \* "wait", "install", "done"
    scEdge,         \* the packet neighbour of the attempt is attached
    scOnce,         \* both ends were attached together
    scAttached,     \* directAttached
    scPromoted,     \* the neighbour is advertised
    scClean,        \* what failAttempt still has to do: "edge", "notify"
    scMonitor,      \* monitorProbation: "no", "watch", "promoted", "done"
    scGot,          \* [ready, installed, stable] at the coordinator
    scCommit,       \* reconcileCommit runs
    scClosed,
    scQueue, scDraining,    \* pendingSolver, solverDraining
    scHand,         \* solver messages on their way to the strategy, outside the lock: the one
                    \* taken from the backlog (0: none) and those of the sessions' readers
    scTold, scArrived,  \* solver messages sent and arrived
    scHeard,        \* those given to the strategy: [n, queued]
    scMsgs, scFaults

scEnd == <<scPrepare, scHeld, scOpen, scRun>>
scLink == <<scEdge, scOnce, scAttached, scPromoted>>
scSolver == <<scQueue, scDraining, scHand, scTold, scArrived, scHeard>>
vars == <<scPhase, scEnd, scLink, scClean, scMonitor, scGot, scCommit, scClosed, scSolver,
          scMsgs, scFaults>>

Ends == {"i", "t"}
Nodes == {"i", "t", "c"}
Peer(e) == IF e = "i" THEN "t" ELSE "i"
Terminal(n) == scPhase[n] \in {"stable", "failed"}
Msg(type, to, from) == [type |-> type, to |-> to, from |-> from]

Init ==
    /\ scPhase = [n \in Nodes |-> IF n = "i" THEN "requested" ELSE "none"]
    /\ scPrepare = [e \in Ends |-> "no"]
    /\ scHeld = [e \in Ends |-> FALSE] /\ scOpen = [e \in Ends |-> 0]
    /\ scRun = [e \in Ends |-> "no"]
    /\ scEdge = [e \in Ends |-> FALSE] /\ scOnce = FALSE
    /\ scAttached = [e \in Ends |-> FALSE] /\ scPromoted = [e \in Ends |-> FALSE]
    /\ scClean = [e \in Ends |-> {}] /\ scMonitor = [e \in Ends |-> "no"]
    /\ scGot = [ready |-> {}, installed |-> {}, stable |-> {}]
    /\ scCommit = FALSE /\ scClosed = {}
    /\ scQueue = [e \in Ends |-> <<>>] /\ scDraining = [e \in Ends |-> FALSE]
    /\ scHand = [e \in Ends |-> [taken |-> 0, direct |-> {}]] /\ scTold = [e \in Ends |-> 0] /\ scArrived = [e \in Ends |-> 0]
    /\ scHeard = [e \in Ends |-> <<>>]
    /\ scMsgs = {Msg("request", "c", "i")} /\ scFaults = 0

-----------------------------------------------------------------------------
Fault == scFaults < MaxFaults /\ scFaults' = scFaults + 1
NoFault == UNCHANGED scFaults
Phase(n, p) == scPhase' = [scPhase EXCEPT ![n] = p]

\* handleMessage; a closed manager has no handler.
Receive(type, to, from) ==
    /\ Msg(type, to, from) \in scMsgs /\ to \notin scClosed
Consume(type, to, from, out) == scMsgs' = (scMsgs \ {Msg(type, to, from)}) \cup out

\* failAttempt at an endpoint: the state is cleared under the lock, the
\* edge is removed and the coordinator told after it.
FailEnd(e, includeStable, tell) ==
    IF scPhase[e] \in {"none", "failed"} \/ (scPhase[e] = "stable" /\ ~includeStable)
    THEN UNCHANGED <<scPhase, scHeld, scOpen, scAttached, scClean, scQueue, scDraining>>
    ELSE /\ Phase(e, "failed")
         /\ scHeld' = [scHeld EXCEPT ![e] = FALSE]
         /\ scOpen' = IF scHeld[e] THEN [scOpen EXCEPT ![e] = 0] ELSE scOpen
         /\ scAttached' = [scAttached EXCEPT ![e] = FALSE]
         /\ scClean' = [scClean EXCEPT ![e] = @ \cup (IF scAttached[e] THEN {"edge"} ELSE {})
                                               \cup (IF tell THEN {"notify"} ELSE {})]
         /\ scQueue' = [scQueue EXCEPT ![e] = <<>>]
         /\ scDraining' = [scDraining EXCEPT ![e] = FALSE]

failVars == <<scPhase, scHeld, scOpen, scAttached, scClean, scQueue, scDraining>>
solverRest == <<scHand, scTold, scArrived, scHeard>>

\* The rest of failAttempt: RemoveNeighborHandle, then the FAILED signal.
FailCleanup(e) ==
    /\ scClean[e] # {}
    /\ LET w == IF "edge" \in scClean[e] THEN "edge" ELSE "notify"
       IN /\ scClean' = [scClean EXCEPT ![e] = @ \ {w}]
          /\ IF w = "edge"
             THEN /\ scEdge' = [scEdge EXCEPT ![e] = FALSE]
                  /\ scPromoted' = [scPromoted EXCEPT ![e] = FALSE]
                  /\ UNCHANGED scMsgs
             ELSE scMsgs' = scMsgs \cup {Msg("failed", "c", e)} /\ UNCHANGED <<scEdge, scPromoted>>
    /\ UNCHANGED <<scPhase, scEnd, scOnce, scAttached, scMonitor, scGot, scCommit, scClosed,
                   scSolver, scFaults>>

\* abortFromCoordinator
Aborts == {Msg("abort", e, "c"): e \in Ends}
Abort(in) ==
    IF scPhase["c"] \in {"none", "stable", "failed"}
    THEN scMsgs' = scMsgs \ in /\ UNCHANGED scPhase
    ELSE Phase("c", "failed") /\ scMsgs' = (scMsgs \ in) \cup Aborts

-----------------------------------------------------------------------------
(* The coordinator. *)

coordRest == <<scEnd, scLink, scClean, scMonitor, scClosed, scSolver>>

\* A send that fails makes the coordinator abort.
PrepareRequest ==
    /\ Receive("request", "c", "i")
    /\ \/ /\ Phase("c", "preparing")
          /\ Consume("request", "c", "i", {Msg("prepare", e, "c"): e \in Ends})
          /\ NoFault
       \/ /\ Fault
          /\ Phase("c", "failed")
          /\ \E S \in SUBSET {Msg("prepare", "i", "c")}: Consume("request", "c", "i", S \cup Aborts)
    /\ UNCHANGED <<scGot, scCommit>> /\ UNCHANGED coordRest

HandleReady(e) ==
    /\ Receive("ready", "c", e)
    /\ IF Terminal("c")
       THEN Consume("ready", "c", e, {}) /\ UNCHANGED <<scPhase, scGot>> /\ NoFault
       ELSE LET both == scGot.ready \cup {e} = Ends /\ scPhase["c"] = "preparing"
            IN /\ scGot' = [scGot EXCEPT !.ready = @ \cup {e}]
               /\ \/ /\ IF both THEN Phase("c", "firing") ELSE UNCHANGED scPhase
                     /\ Consume("ready", "c", e, IF both THEN {Msg("fire", x, "c"): x \in Ends} ELSE {})
                     /\ NoFault
                  \/ /\ both /\ Fault
                     /\ Phase("c", "failed")
                     /\ \E S \in SUBSET {Msg("fire", "i", "c")}: Consume("ready", "c", e, S \cup Aborts)
    /\ UNCHANGED scCommit /\ UNCHANGED coordRest

HandleInstalled(e) ==
    /\ Receive("installed", "c", e)
    /\ Consume("installed", "c", e, {})
    /\ IF Terminal("c") THEN UNCHANGED <<scPhase, scGot, scCommit>>
       ELSE LET both == scGot.installed \cup {e} = Ends /\ scPhase["c"] # "probation"
            IN /\ scGot' = [scGot EXCEPT !.installed = @ \cup {e}]
               /\ IF both THEN Phase("c", "probation") /\ scCommit' = TRUE
                          ELSE UNCHANGED <<scPhase, scCommit>>
    /\ NoFault /\ UNCHANGED coordRest

\* reconcileCommit: COMMIT again to every endpoint that is not stable, until
\* both are or the deadline passes.
ReconcileCommit ==
    /\ scCommit
    /\ IF scPhase["c"] # "probation" \/ "c" \in scClosed
       THEN scCommit' = FALSE /\ UNCHANGED <<scMsgs, scPhase>>
       ELSE \/ /\ scMsgs' = scMsgs \cup {Msg("commit", e, "c"): e \in Ends \ scGot.stable}
               /\ UNCHANGED <<scCommit, scPhase>>
            \/ scCommit' = FALSE /\ Abort({})
    /\ NoFault /\ UNCHANGED scGot /\ UNCHANGED coordRest

HandleStable(e) ==
    /\ Receive("stable", "c", e)
    /\ Consume("stable", "c", e, {})
    /\ IF scPhase["c"] # "probation" THEN UNCHANGED <<scPhase, scGot>>
       ELSE /\ scGot' = [scGot EXCEPT !.stable = @ \cup {e}]
            /\ IF scGot.stable \cup {e} = Ends THEN Phase("c", "stable") ELSE UNCHANGED scPhase
    /\ NoFault /\ UNCHANGED scCommit /\ UNCHANGED coordRest

HandleFailed(e) ==
    /\ Receive("failed", "c", e)
    /\ Abort({Msg("failed", "c", e)})
    /\ NoFault /\ UNCHANGED <<scGot, scCommit>> /\ UNCHANGED coordRest

-----------------------------------------------------------------------------
(* An endpoint prepares. *)

endRest == <<scEdge, scOnce, scPromoted, scMonitor, scGot, scCommit, scClosed, solverRest>>

\* handlePrepare up to the factory.  An attempt has one PREPARE: the initiator
\* sends one request, the coordinator answers a request once, and the router drops
\* copies of a message (MeshFlood), so the branches for a repeated one do not run.
HandlePrepare(e) ==
    /\ Receive("prepare", e, "c")
    /\ Consume("prepare", e, "c", {})
    /\ IF scPhase[e] \in {"none", "requested", "preparing"} /\ scPrepare[e] = "no"
       THEN /\ scPrepare' = [scPrepare EXCEPT ![e] = "factory"]
            /\ IF scPhase[e] = "none" THEN Phase(e, "preparing") ELSE UNCHANGED scPhase
       ELSE UNCHANGED <<scPhase, scPrepare>>
    /\ NoFault
    /\ UNCHANGED <<scHeld, scOpen, scRun, scAttached, scClean, scQueue, scDraining>>
    /\ UNCHANGED endRest

Gone(e) == e \in scClosed \/ Terminal(e)

\* The factory returns; an attempt that ended meanwhile closes the strategy.
PrepareFactory(e) ==
    /\ scPrepare[e] = "factory"
    /\ \/ /\ IF Gone(e) THEN scPrepare' = [scPrepare EXCEPT ![e] = "done"] /\ UNCHANGED <<scHeld, scOpen>>
             ELSE /\ scPrepare' = [scPrepare EXCEPT ![e] = "plan"]
                  /\ scHeld' = [scHeld EXCEPT ![e] = TRUE]
                  /\ scOpen' = [scOpen EXCEPT ![e] = 1]
          /\ NoFault /\ UNCHANGED <<scPhase, scAttached, scClean, scQueue, scDraining>>
       \/ /\ Fault /\ scPrepare' = [scPrepare EXCEPT ![e] = "done"]
          /\ FailEnd(e, TRUE, TRUE)
    /\ UNCHANGED <<scRun, scMsgs>> /\ UNCHANGED endRest

\* Plan returns: READY, or the attempt ended and the strategy is closed.
PreparePlan(e) ==
    /\ scPrepare[e] = "plan" /\ scPrepare' = [scPrepare EXCEPT ![e] = "done"]
    /\ \/ /\ Gone(e)
          /\ scOpen' = [scOpen EXCEPT ![e] = 0]
          /\ NoFault /\ UNCHANGED <<scPhase, scHeld, scAttached, scClean, scQueue, scDraining, scMsgs>>
       \/ /\ ~Gone(e)
          /\ Phase(e, "ready") /\ scMsgs' = scMsgs \cup {Msg("ready", "c", e)}
          /\ NoFault /\ UNCHANGED <<scHeld, scOpen, scAttached, scClean, scQueue, scDraining>>
       \/ /\ ~Gone(e) /\ Fault                \* no plan, or READY could not be sent
          /\ \E tell \in BOOLEAN: FailEnd(e, TRUE, tell)
          /\ UNCHANGED scMsgs
    /\ UNCHANGED scRun /\ UNCHANGED endRest

\* handleFire: the phase and the draining flag change together.
HandleFire(e) ==
    /\ Receive("fire", e, "c")
    /\ Consume("fire", e, "c", {})
    /\ IF scHeld[e] /\ scPhase[e] \notin {"failed", "stable", "solving", "installed", "probation"}
       THEN /\ Phase(e, "solving")
            /\ scDraining' = [scDraining EXCEPT ![e] = TRUE]
            /\ scRun' = [scRun EXCEPT ![e] = "drain"]
       ELSE UNCHANGED <<scPhase, scDraining, scRun>>
    /\ NoFault
    /\ UNCHANGED <<scPrepare, scHeld, scOpen, scAttached, scClean, scQueue>>
    /\ UNCHANGED endRest

-----------------------------------------------------------------------------
(* Solver messages. *)

\* The strategy of the peer sends its next message while it executes.
SolverSend(e) ==
    /\ e \in Tellers /\ scRun[e] = "execute" /\ scTold[e] < MaxSolver
    /\ scTold' = [scTold EXCEPT ![e] = @ + 1]
    /\ UNCHANGED <<scPhase, scEnd, scLink, scClean, scMonitor, scGot, scCommit, scClosed,
                   scQueue, scDraining, scHand, scArrived, scHeard, scMsgs, scFaults>>

\* handleSolverMessage: the messages are numbered as they arrive.  The decision is
\* taken under the lock; a message that need not wait is delivered after it.
SolverArrives(e) ==
    /\ scArrived[e] < scTold[Peer(e)] /\ e \notin scClosed
    /\ scArrived' = [scArrived EXCEPT ![e] = @ + 1]
    /\ LET n == scArrived[e] + 1
           queue == scPhase[e] = "ready" \/ (scPhase[e] = "solving" /\ scDraining[e])
       IN \/ /\ scHeld[e] /\ queue /\ Len(scQueue[e]) < Backlog
             /\ scQueue' = [scQueue EXCEPT ![e] = Append(@, n)]
             /\ UNCHANGED <<scPhase, scHeld, scOpen, scAttached, scClean, scDraining, scHand>>
          \/ /\ scHeld[e] /\ queue /\ Len(scQueue[e]) >= Backlog
             /\ FailEnd(e, TRUE, TRUE) /\ UNCHANGED scHand
          \/ /\ scHeld[e] /\ ~queue /\ scPhase[e] = "solving"
             /\ scHand' = [scHand EXCEPT ![e].direct = @ \cup {n}]
             /\ UNCHANGED failVars
          \/ /\ ~scHeld[e] \/ (~queue /\ scPhase[e] # "solving")
             /\ UNCHANGED failVars /\ UNCHANGED scHand
    /\ UNCHANGED <<scPrepare, scRun, scEdge, scOnce, scPromoted, scMonitor, scGot, scCommit,
                   scClosed, scHeard, scTold, scMsgs, scFaults>>

Heard(e, n, queued) == scHeard' = [scHeard EXCEPT ![e] = Append(@, [n |-> n, queued |-> queued])]

\* deliverSolverMessage of a session's reader; readers of two sessions may overtake
\* each other.
SolverDirect(e) ==
    /\ \E n \in scHand[e].direct:
        /\ scHand' = [scHand EXCEPT ![e].direct = @ \ {n}]
        /\ Heard(e, n, FALSE)
    /\ UNCHANGED <<scPhase, scEnd, scLink, scClean, scMonitor, scGot, scCommit, scClosed,
                   scQueue, scDraining, scTold, scArrived, scMsgs, scFaults>>

runRest == <<scPrepare, scMonitor, scGot, scCommit, scClosed, scTold, scArrived>>
Run(e, pc) == scRun' = [scRun EXCEPT ![e] = pc]

TakeHead(e, draining) ==
    /\ Run(e, "deliver")
    /\ scHand' = [scHand EXCEPT ![e].taken = Head(scQueue[e])]
    /\ scQueue' = [scQueue EXCEPT ![e] = Tail(@)]
    /\ scDraining' = [scDraining EXCEPT ![e] = draining]

StopDraining(e, pc) ==
    /\ Run(e, pc) /\ scDraining' = [scDraining EXCEPT ![e] = FALSE]
    /\ UNCHANGED <<scQueue, scHand>>

\* drainPendingSolverMessages: under the lock, take the head of the backlog
\* or stop draining.
Drain(e) ==
    /\ scRun[e] = "drain"
    /\ IF scPhase[e] # "solving" \/ ~scHeld[e] THEN StopDraining(e, "done")
       ELSE IF scQueue[e] = <<>> THEN StopDraining(e, "execute")
       ELSE TakeHead(e, TRUE)
    /\ NoFault
    /\ UNCHANGED <<scPhase, scHeld, scOpen, scLink, scClean, scHeard, scMsgs>> /\ UNCHANGED runRest

\* The message taken is given to the strategy, which may refuse it.
Deliver(e) ==
    /\ scRun[e] = "deliver"
    /\ scHand' = [scHand EXCEPT ![e].taken = 0]
    /\ \/ /\ Heard(e, scHand[e].taken, TRUE)
          /\ Run(e, "drain") /\ UNCHANGED failVars /\ NoFault
       \/ Fault /\ FailEnd(e, TRUE, TRUE) /\ Run(e, "done") /\ UNCHANGED scHeard
    /\ UNCHANGED <<scEdge, scOnce, scPromoted, scMsgs>> /\ UNCHANGED runRest

-----------------------------------------------------------------------------
(* runSolver. *)

\* Execute returns; the strategy is closed; an attempt that ended drops the
\* transport.
Execute(e) ==
    /\ scRun[e] = "execute"
    /\ \/ /\ scHeld' = IF scPhase[e] = "solving" THEN [scHeld EXCEPT ![e] = FALSE] ELSE scHeld
          /\ scOpen' = [scOpen EXCEPT ![e] = 0]
          /\ Run(e, IF Gone(e) THEN "done" ELSE "attach")
          /\ NoFault /\ UNCHANGED <<scPhase, scAttached, scClean, scQueue, scDraining>>
       \/ /\ Fault /\ FailEnd(e, TRUE, TRUE) /\ Run(e, "done")
    /\ UNCHANGED <<scEdge, scOnce, scPromoted, scHeard, scMsgs>> /\ UNCHANGED <<scHand, runRest>>

\* AttachPacketTransportWithHandle, or its failure.
AttachEdge(e) ==
    /\ scRun[e] = "attach"
    /\ \/ /\ scEdge' = [scEdge EXCEPT ![e] = TRUE]
          /\ scOnce' = (scOnce \/ scEdge[Peer(e)])
          /\ Run(e, "wait") /\ NoFault /\ UNCHANGED failVars
       \/ Fault /\ FailEnd(e, TRUE, TRUE) /\ Run(e, "done") /\ UNCHANGED <<scEdge, scOnce>>
    /\ UNCHANGED <<scPromoted, scHeard, scMsgs>> /\ UNCHANGED <<scHand, runRest>>

\* WaitPacketNeighborReady: both ends are attached, or the wait ends.
WaitReady(e) ==
    /\ scRun[e] = "wait"
    /\ \/ /\ scEdge[e] /\ scEdge[Peer(e)]
          /\ Run(e, "install") /\ UNCHANGED <<failVars, scEdge, scPromoted>>
       \/ /\ FailEnd(e, TRUE, TRUE)
          /\ Run(e, "remove") /\ UNCHANGED <<scEdge, scPromoted>>
    /\ NoFault
    /\ UNCHANGED <<scOnce, scHeard, scMsgs>> /\ UNCHANGED <<scHand, runRest>>

RunRemoves(e) ==
    /\ scRun[e] = "remove"
    /\ scEdge' = [scEdge EXCEPT ![e] = FALSE]
    /\ scPromoted' = [scPromoted EXCEPT ![e] = FALSE]
    /\ Run(e, "done")
    /\ NoFault
    /\ UNCHANGED <<failVars, scOnce, scHeard, scMsgs>> /\ UNCHANGED <<scHand, runRest>>

Install(e) ==
    /\ scRun[e] = "install"
    /\ \/ /\ e \in scClosed \/ scPhase[e] # "solving"
          /\ Run(e, "remove") /\ UNCHANGED <<failVars, scMsgs>>
          /\ NoFault
       \/ /\ e \notin scClosed /\ scPhase[e] = "solving"
          /\ Phase(e, "installed")
          /\ scAttached' = [scAttached EXCEPT ![e] = TRUE]
          /\ Run(e, "done")
          /\ scMsgs' = scMsgs \cup {Msg("installed", "c", e)}
          /\ NoFault /\ UNCHANGED <<scHeld, scOpen, scClean, scQueue, scDraining>>
       \/ /\ e \notin scClosed /\ scPhase[e] = "solving" /\ Fault   \* INSTALLED not sent
          /\ Phase(e, "failed")
          /\ scClean' = [scClean EXCEPT ![e] = @ \cup {"edge"}]
          /\ Run(e, "done")
          /\ UNCHANGED <<scHeld, scOpen, scAttached, scQueue, scDraining, scMsgs>>
    /\ UNCHANGED <<scEdge, scOnce, scPromoted, scHeard>> /\ UNCHANGED <<scHand, runRest>>

LoseNeighbor(e, includeStable) ==
    /\ scEdge[e]
    /\ \/ scOnce /\ ~scEdge[Peer(e)] /\ NoFault
       \/ Fault
    /\ scEdge' = [scEdge EXCEPT ![e] = FALSE]
    /\ scPromoted' = [scPromoted EXCEPT ![e] = FALSE]
    /\ IF e \in scClosed THEN UNCHANGED failVars ELSE FailEnd(e, includeStable, TRUE)
    /\ UNCHANGED <<scPrepare, scRun, scOnce, scMonitor, scGot, scCommit, scClosed, solverRest,
                   scMsgs>>

\* The neighbour of e is lost: the peer's end is gone, or a fault.
\* handleDirectNeighborClose fails the attempt, also a stable one.
NeighborLost(e) == LoseNeighbor(e, TRUE)

-----------------------------------------------------------------------------
(* Commit, probation, stability. *)

HandleCommit(e) ==
    /\ Receive("commit", e, "c")
    /\ IF scPhase[e] = "stable"
       THEN /\ Consume("commit", e, "c", {Msg("stable", "c", e)})
            /\ UNCHANGED <<scPhase, scMonitor>>
       ELSE /\ Consume("commit", e, "c", {})
            /\ IF scPhase[e] = "installed" /\ scAttached[e]
               THEN Phase(e, "probation") /\ scMonitor' = [scMonitor EXCEPT ![e] = "watch"]
               ELSE UNCHANGED <<scPhase, scMonitor>>
    /\ NoFault
    /\ UNCHANGED <<scEnd, scLink, scClean, scGot, scCommit, scClosed, scSolver>>

monRest == <<scPrepare, scRun, scEdge, scOnce, scGot, scCommit, scClosed, solverRest>>

\* monitorProbation: the edge is lost, or it lasted and is promoted.
MonitorProbation(e) ==
    /\ scMonitor[e] = "watch"
    /\ \/ /\ scPhase[e] # "probation" \/ e \in scClosed
          /\ scMonitor' = [scMonitor EXCEPT ![e] = "done"]
          /\ UNCHANGED <<failVars, scPromoted>>
       \/ /\ scPhase[e] = "probation" /\ e \notin scClosed
          /\ IF scEdge[e] /\ scAttached[e]
             THEN /\ scPromoted' = [scPromoted EXCEPT ![e] = TRUE]
                  /\ scMonitor' = [scMonitor EXCEPT ![e] = "promoted"]
                  /\ UNCHANGED failVars
             ELSE /\ FailEnd(e, TRUE, TRUE)
                  /\ scMonitor' = [scMonitor EXCEPT ![e] = "done"]
                  /\ UNCHANGED scPromoted
    /\ NoFault /\ UNCHANGED scMsgs /\ UNCHANGED monRest

\* completeProbation's second look at the attempt, and the STABLE signal.
CompleteProbation(e) ==
    /\ scMonitor[e] = "promoted" /\ scMonitor' = [scMonitor EXCEPT ![e] = "done"]
    /\ IF e \notin scClosed /\ scPhase[e] = "probation" /\ scAttached[e]
       THEN Phase(e, "stable") /\ scMsgs' = scMsgs \cup {Msg("stable", "c", e)}
       ELSE UNCHANGED <<scPhase, scMsgs>>
    /\ NoFault
    /\ UNCHANGED <<scHeld, scOpen, scAttached, scClean, scQueue, scDraining, scPromoted>>
    /\ UNCHANGED monRest

HandleAbort(e) ==
    /\ Receive("abort", e, "c")
    /\ Consume("abort", e, "c", {})
    /\ FailEnd(e, FALSE, FALSE)
    /\ NoFault
    /\ UNCHANGED <<scPrepare, scRun, scEdge, scOnce, scPromoted, scMonitor, scGot, scCommit,
                   scClosed, solverRest>>

-----------------------------------------------------------------------------
(* Watchdogs, cancellation, closing. *)

\* timeoutAttempt and Cancel at an endpoint.
TimeoutEnd(e) ==
    /\ Timeouts /\ scPhase[e] # "none" /\ ~Terminal(e) /\ e \notin scClosed
    /\ FailEnd(e, FALSE, TRUE)
    /\ NoFault
    /\ UNCHANGED <<scPrepare, scRun, scEdge, scOnce, scPromoted, scMonitor, scGot, scCommit,
                   scClosed, solverRest, scMsgs>>

TimeoutCoordinator ==
    /\ Timeouts /\ scPhase["c"] # "none" /\ ~Terminal("c") /\ "c" \notin scClosed
    /\ Abort({})
    /\ NoFault /\ UNCHANGED <<scGot, scCommit>> /\ UNCHANGED coordRest

\* Close of an endpoint's manager: a stable attempt keeps its phase and
\* loses its edge.
CloseEnd(e) ==
    /\ e \in Closers \ scClosed
    /\ scClosed' = scClosed \cup {e}
    /\ scHeld' = [scHeld EXCEPT ![e] = FALSE]
    /\ scOpen' = IF scHeld[e] THEN [scOpen EXCEPT ![e] = 0] ELSE scOpen
    /\ scAttached' = [scAttached EXCEPT ![e] = FALSE]
    /\ scClean' = [scClean EXCEPT ![e] = @ \cup (IF scAttached[e] THEN {"edge"} ELSE {})]
    /\ IF scPhase[e] \notin {"none", "stable"} THEN Phase(e, "failed") ELSE UNCHANGED scPhase
    /\ NoFault
    /\ UNCHANGED <<scPrepare, scRun, scEdge, scOnce, scPromoted, scMonitor, scGot, scCommit,
                   scSolver, scMsgs>>

CloseCoordinator ==
    /\ "c" \in Closers \ scClosed
    /\ scClosed' = scClosed \cup {"c"}
    /\ IF scPhase["c"] \notin {"none", "stable"} THEN Phase("c", "failed") ELSE UNCHANGED scPhase
    /\ NoFault
    /\ UNCHANGED <<scEnd, scLink, scClean, scMonitor, scGot, scCommit, scSolver, scMsgs>>

Lose ==
    /\ Fault
    /\ \E m \in scMsgs: scMsgs' = scMsgs \ {m}
    /\ UNCHANGED <<scPhase, scEnd, scLink, scClean, scMonitor, scGot, scCommit, scClosed,
                   scSolver>>

\* The steps that run once they are due: tasks, timers, lost neighbours.
runSolver(e) == Execute(e) \/ AttachEdge(e) \/ WaitReady(e) \/ RunRemoves(e) \/ Install(e)
prepare(e) == PrepareFactory(e) \/ PreparePlan(e)
Task(e) ==
    \/ FailCleanup(e) \/ prepare(e) \/ Drain(e) \/ Deliver(e)
    \/ runSolver(e) \/ MonitorProbation(e) \/ CompleteProbation(e)

Next ==
    \/ PrepareRequest \/ ReconcileCommit \/ TimeoutCoordinator \/ CloseCoordinator \/ Lose
    \/ \E e \in Ends:
        \/ HandleReady(e) \/ HandleInstalled(e) \/ HandleStable(e) \/ HandleFailed(e)
        \/ HandlePrepare(e) \/ HandleFire(e) \/ HandleCommit(e) \/ HandleAbort(e)
        \/ SolverSend(e) \/ SolverArrives(e) \/ SolverDirect(e) \/ Task(e) \/ NeighborLost(e)
        \/ TimeoutEnd(e) \/ CloseEnd(e)

Spec == Init /\ [][Next]_vars

-----------------------------------------------------------------------------
\* No edge and no strategy without an owner, through every race of failure,
\* timeout, close and the solver task; an advertised edge belongs to a
\* commit, which needs both ends installed; and no solver message, however its
\* reader is delayed, reaches the strategy before one of the backlog that arrived
\* earlier.
Safe ==
    /\ \A e \in Ends:
        /\ scEdge[e] => \/ scRun[e] \in {"wait", "install", "remove"}
                        \/ scAttached[e] /\ scPhase[e] \in {"installed", "probation", "stable"}
                        \/ "edge" \in scClean[e]
        /\ scOpen[e] > 0 => scHeld[e] \/ scPrepare[e] = "plan" \/ scRun[e] \in {"drain", "deliver", "execute"}
        /\ scPromoted[e] => scEdge[e]
        /\ scPhase[e] \in {"probation", "stable"} => scGot.installed = Ends
        /\ \A j, k \in 1 .. Len(scHeard[e]):
             j < k /\ scHeard[e][k].queued => scHeard[e][j].n < scHeard[e][k].n
    /\ scPhase["c"] = "stable" => scGot.stable = Ends

\* What must not last: an attempt at a node, and an edge that one end keeps and
\* the other gave up.
Underway(n) == scPhase[n] # "none" /\ ~Terminal(n)
Uneven == scClosed = {} /\ ~(scPhase["i"] = "stable" <=> scPhase["t"] = "stable")
=============================================================================
