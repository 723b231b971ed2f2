-------------------------------- MODULE Bootstrap --------------------------------
(***************************************************************************)
(* The self-hosted bootstrap engine (pkg/bootstrap/selfhosted) at two      *)
(* nodes that look for each other: Start, Close and Notify, the loop of    *)
(* the one peer, an attempt with its punch, the authenticated hello over   *)
(* the connection it made, and the attachment to the mesh node.            *)
(*                                                                         *)
(* An attempt is named by its window, for there is one per window; the     *)
(* nonce of its hello is that name.  Hello frames may be lost, repeated,   *)
(* reordered and arrive in a later attempt: a frame once sent stays in     *)
(* the network.  Candidates and windows are in RecoveryCard, the punch in  *)
(* Strategies, the node in MeshNode.                                       *)
(***************************************************************************)
EXTENDS Naturals

CONSTANTS
    MaxWindows,     \* bound: attempt windows
    MaxChanges,     \* bound: changes of the routes and lost neighbours
    MaxFaults,      \* bound: failing card loads, registrations, attachments
    Movers,         \* the ends whose routes change
    Running,        \* the ends whose engine has been running
    Starters,       \* the ends whose engine is started
    Closers         \* the ends whose engine is closed

VARIABLES
    bsWindow, bsActive,     \* attemptWindow: the ordinal, and whether it is active
    bsEngine,       \* per end: [start, close, closed, ctx, handler, captured]
    bsLoop,         \* per end: [at, result, wake, tried, armed, cause, fails, misses, reset]
    bsNotes,        \* per end: [calls, held]: calls of Notify, and the cancels they captured
    bsRoute,        \* per end: the peer is reachable through other nodes
    bsNeighbor,     \* per end: the peer is a neighbour
    bsConn,         \* per end and window: the punched connection
    bsHello,        \* per end: [peer, ok, heard]
    bsNet,          \* hello frames: [to, kind, nonce, echo]
    bsChanges, bsFaults

vars == <<bsWindow, bsActive, bsEngine, bsLoop, bsNotes, bsRoute, bsNeighbor, bsConn, bsHello, bsNet, bsChanges, bsFaults>>
clock == <<bsWindow, bsActive>>
mesh == <<bsRoute, bsNeighbor>>
hello == <<bsHello, bsNet>>
bounds == <<bsChanges, bsFaults>>

Ends == {"a", "b"}
Other(e) == IF e = "a" THEN "b" ELSE "a"
Windows == 1..MaxWindows

Init ==
    /\ bsWindow = 1 /\ bsActive = TRUE
    /\ bsEngine = [e \in Ends |-> [close |-> "no", closed |-> FALSE, captured |-> 0,
           start |-> IF e \in Running THEN "started" ELSE "no", ctx |-> IF e \in Running THEN "live" ELSE "none",
           handler |-> e \in Running]]
    /\ bsLoop = [e \in Ends |-> [at |-> IF e \in Running THEN "look" ELSE "none", result |-> "none", wake |-> FALSE, tried |-> 0, armed |-> 0,
                                 cause |-> "none", fails |-> 0, misses |-> 0, reset |-> FALSE]]
    /\ bsNotes = [e \in Ends |-> [calls |-> 0, held |-> {}]]
    /\ bsRoute = [e \in Ends |-> FALSE] /\ bsNeighbor = [e \in Ends |-> FALSE]
    /\ bsConn = [e \in Ends |-> [w \in Windows |-> "none"]]
    /\ bsHello = [e \in Ends |-> [peer |-> 0, ok |-> FALSE, heard |-> {}]]
    /\ bsNet = {} /\ bsChanges = 0 /\ bsFaults = 0

At(e, where) == bsLoop[e].at = where
Goto(e, where) == bsLoop' = [bsLoop EXCEPT ![e].at = where]
reachable(e) == bsNeighbor[e] \/ bsRoute[e]
NotifyCalled(e) == bsNotes' = [bsNotes EXCEPT ![e].calls = @ + 1]
Fault == bsFaults < MaxFaults /\ bsFaults' = bsFaults + 1 /\ bsChanges' = bsChanges
Change == bsChanges < MaxChanges /\ bsChanges' = bsChanges + 1 /\ bsFaults' = bsFaults

-----------------------------------------------------------------------------
(* Start, Close and Notify. *)

engineSame == <<clock, mesh, bsConn, hello>>

StartMark(e) ==
    /\ e \in Starters /\ bsEngine[e].start = "no"
    /\ \/ /\ ~bsEngine[e].closed
          /\ bsEngine' = [bsEngine EXCEPT ![e].start = "marked", ![e].ctx = "live"] /\ UNCHANGED bounds
       \/ /\ bsEngine[e].closed
          /\ bsEngine' = [bsEngine EXCEPT ![e].start = "refused"] /\ UNCHANGED bounds
       \/ /\ ~bsEngine[e].closed /\ Fault      \* the recovery card cannot be read
          /\ bsEngine' = [bsEngine EXCEPT ![e].start = "refused"]
    /\ UNCHANGED <<engineSame, bsLoop, bsNotes>>
StartRegister(e) ==
    /\ bsEngine[e].start = "marked"
    /\ \/ bsEngine' = [bsEngine EXCEPT ![e].start = "registered", ![e].handler = TRUE] /\ UNCHANGED bounds
       \/ bsEngine' = [bsEngine EXCEPT ![e].start = "refused", ![e].ctx = "done"] /\ Fault
    /\ UNCHANGED <<engineSame, bsLoop, bsNotes>>
StartLoops(e) ==
    /\ bsEngine[e].start = "registered"
    /\ IF bsEngine[e].closed
       THEN /\ bsEngine' = [bsEngine EXCEPT ![e].start = "refused", ![e].handler = FALSE, ![e].ctx = "done"]
            /\ UNCHANGED <<bsLoop, bsNotes>>
       ELSE /\ bsEngine' = [bsEngine EXCEPT ![e].start = "started"]
            /\ Goto(e, "look") /\ NotifyCalled(e)
    /\ UNCHANGED <<engineSame, bounds>>

\* Close marks and captures under the lock, then unregisters and cancels, then waits.
CloseMark(e) ==
    /\ e \in Closers /\ bsEngine[e].close = "no"
    /\ bsEngine' = [bsEngine EXCEPT ![e].close = "marked", ![e].closed = TRUE,
           ![e].captured = IF bsEngine[e].start = "started" THEN 1 ELSE 0]
    /\ UNCHANGED <<engineSame, bsLoop, bsNotes, bounds>>
CloseCancel(e) ==
    /\ bsEngine[e].close = "marked"
    /\ bsEngine' = [bsEngine EXCEPT ![e].close = "waiting",
           ![e].handler = IF bsEngine[e].captured = 1 THEN FALSE ELSE @,
           ![e].ctx = IF @ = "live" THEN "done" ELSE @]
    /\ bsLoop' = IF bsLoop[e].armed # 0 /\ bsLoop[e].cause = "none"
                 THEN [bsLoop EXCEPT ![e].cause = "canceled"] ELSE bsLoop
    /\ UNCHANGED <<engineSame, bsNotes, bounds>>
CloseReturns(e) ==
    /\ bsEngine[e].close = "waiting" /\ bsLoop[e].at \in {"none", "done"}
    /\ bsEngine' = [bsEngine EXCEPT ![e].close = "returned"]
    /\ UNCHANGED <<engineSame, bsLoop, bsNotes, bounds>>

\* Notify takes the cancel function of the attempt under the lock, and looks at the
\* routes after it.
NotifyTake(e) ==
    /\ bsNotes[e].calls > 0
    /\ bsNotes' = [bsNotes EXCEPT ![e].calls = @ - 1,
           ![e].held = IF bsEngine[e].closed THEN @ ELSE @ \cup {bsLoop[e].armed}]
    /\ UNCHANGED <<engineSame, bsEngine, bsLoop, bounds>>
Notify(e, w) ==
    /\ w \in bsNotes[e].held
    /\ bsNotes' = [bsNotes EXCEPT ![e].held = @ \ {w}]
    /\ bsLoop' = [bsLoop EXCEPT ![e].wake = TRUE,
           ![e].cause = IF w # 0 /\ reachable(e) /\ bsLoop[e].armed = w /\ @ = "none" THEN "reachable" ELSE @]
    /\ UNCHANGED <<engineSame, bsEngine, bounds>>

-----------------------------------------------------------------------------
(* runPeer *)

loopSame == <<clock, mesh, bsEngine, bsNotes>>

\* The head of the loop: cancellation, a pending reset of the failure counts,
\* reachability, the card, the window.
Look(e) ==
    /\ At(e, "look")
    /\ LET l == IF bsLoop[e].reset THEN [bsLoop[e] EXCEPT !.reset = FALSE, !.fails = 0, !.misses = 0] ELSE bsLoop[e]
           Set(r) == bsLoop' = [bsLoop EXCEPT ![e] = r] IN
       \/ bsEngine[e].ctx = "done" /\ Goto(e, "done") /\ UNCHANGED bounds
       \/ /\ bsEngine[e].ctx # "done"
          /\ reachable(e) \/ ~bsActive \/ l.tried = bsWindow
          /\ Set([l EXCEPT !.at = "wait"]) /\ UNCHANGED bounds
       \/ /\ bsEngine[e].ctx # "done" /\ ~reachable(e) /\ Fault       \* no card, no candidate
          /\ Set([l EXCEPT !.at = "wait"])
       \/ /\ bsEngine[e].ctx # "done" /\ ~reachable(e) /\ bsActive /\ l.tried # bsWindow
          /\ Set([l EXCEPT !.at = "entered", !.tried = bsWindow]) /\ UNCHANGED bounds
    /\ UNCHANGED <<loopSame, bsConn, hello>>
\* waitForWake, waitUntilOrWake: the timer may always have run out.
Wait(e) ==
    /\ At(e, "wait")
    /\ \/ bsEngine[e].ctx = "done" /\ Goto(e, "done")
       \/ bsLoop[e].wake /\ bsLoop' = [bsLoop EXCEPT ![e].at = "look", ![e].wake = FALSE]
       \/ Goto(e, "look")
    /\ UNCHANGED <<loopSame, bsConn, hello, bounds>>

\* recordCandidateFailure: only a penalised failure counts against the candidate.
recordCandidateFailure(peer, penalty) ==
    [peer EXCEPT !.fails = IF penalty # "none" THEN @ + 1 ELSE @,
                 !.misses = IF penalty = "punch" THEN @ + 1 ELSE @]

\* runAttempt returned: the deferred calls have disarmed the cancel and closed the
\* connection if it was still owned; a penalised failure is counted.
Returned(e, penalty) ==
    LET over == bsEngine[e].ctx = "done"
        peer == [bsLoop[e] EXCEPT !.at = IF over THEN "done" ELSE "look",
                                  !.armed = 0, !.cause = "none", !.result = "none"]
    IN  bsLoop' = [bsLoop EXCEPT ![e] = IF over THEN peer ELSE recordCandidateFailure(peer, penalty)]
CloseConn(e) == bsConn' = [bsConn EXCEPT ![e][bsLoop[e].tried] = IF @ = "open" THEN "closed" ELSE @]

-----------------------------------------------------------------------------
(* runAttempt *)

\* The peer is looked at once more, the cancel function is published, and then the
\* peer is looked at again.
Enter(e) ==
    /\ At(e, "entered")
    /\ IF reachable(e) THEN Returned(e, "none") ELSE Goto(e, "arm")
    /\ UNCHANGED <<loopSame, bsConn, hello, bounds>>
Arm(e) ==
    /\ At(e, "arm")
    /\ bsLoop' = [bsLoop EXCEPT ![e].at = "armed", ![e].armed = bsLoop[e].tried,
           ![e].cause = IF bsEngine[e].ctx = "done" THEN "canceled"
                        ELSE IF bsWindow # bsLoop[e].tried \/ ~bsActive THEN "deadline" ELSE "none"]
    /\ UNCHANGED <<loopSame, bsConn, hello, bounds>>

CheckArmed(e) ==
    /\ At(e, "armed")
    /\ IF reachable(e) THEN Returned(e, "none") ELSE Goto(e, "punch")
    /\ UNCHANGED <<loopSame, bsConn, hello, bounds>>

\* cfg.Punch returns a connection, misses its deadline, or fails; a cancelled one
\* may have a connection all the same.
PunchReturns(e) ==
    /\ At(e, "punch")
    /\ \E r \in {"conn", "miss", "error"} :
          /\ bsLoop' = [bsLoop EXCEPT ![e].at = "punched", ![e].result = r]
          /\ bsConn' = IF r = "conn" THEN [bsConn EXCEPT ![e][bsLoop[e].tried] = "open"] ELSE bsConn
    /\ UNCHANGED <<loopSame, hello, bounds>>
JudgePunch(e) ==
    /\ At(e, "punched")
    /\ LET r == bsLoop[e].result IN
       IF bsLoop[e].cause = "reachable" \/ (r # "conn" /\ reachable(e))
       THEN Returned(e, "none") /\ CloseConn(e) /\ bsHello' = bsHello
       ELSE IF r # "conn"
       THEN Returned(e, IF r = "miss" THEN "punch" ELSE "none") /\ UNCHANGED <<bsConn, bsHello>>
       ELSE /\ Goto(e, "hello") /\ bsConn' = bsConn
            /\ bsHello' = [bsHello EXCEPT ![e].peer = 0, ![e].ok = FALSE]
    /\ UNCHANGED <<loopSame, bsNet, bounds>>

\* authenticatePeer: a hello, and an acknowledgement once the peer's nonce is known.
Frame(e, kind, echo) == [to |-> Other(e), kind |-> kind, nonce |-> bsLoop[e].tried, echo |-> echo]
SendHello(e) ==
    /\ At(e, "hello")
    /\ bsNet' = bsNet \cup {Frame(e, "hello", 0)}
                      \cup (IF bsHello[e].peer = 0 THEN {} ELSE {Frame(e, "ack", bsHello[e].peer)})
    /\ UNCHANGED <<loopSame, bsLoop, bsConn, bsHello, bounds>>
\* An acknowledgement counts when it echoes this attempt's nonce.
Takes(e, f) == f.kind = "hello" \/ f.echo = bsLoop[e].tried

ReadHello(e, f) ==
    /\ At(e, "hello") /\ f.to = e /\ Takes(e, f)
    /\ bsHello' = [bsHello EXCEPT ![e].peer = f.nonce, ![e].ok = @ \/ f.kind = "ack", ![e].heard = @ \cup {f.nonce}]
    /\ UNCHANGED <<loopSame, bsLoop, bsConn, bsNet, bounds>>
\* The settle time has passed; or the window, the cancellation or a failing write.
HelloReturns(e) ==
    /\ At(e, "hello")
    /\ \E r \in {"ok", "error"} :
          /\ r = "ok" => bsHello[e].ok /\ bsLoop[e].cause = "none"
          /\ bsLoop' = [bsLoop EXCEPT ![e].at = "helloed", ![e].result = r]
    /\ UNCHANGED <<loopSame, bsConn, hello, bounds>>
JudgeHello(e) ==
    /\ At(e, "helloed")
    /\ IF bsLoop[e].cause = "reachable" \/ reachable(e) THEN Returned(e, "none") /\ CloseConn(e)
       ELSE IF bsLoop[e].result # "ok" THEN Returned(e, "hello") /\ CloseConn(e)
       ELSE Goto(e, "install") /\ bsConn' = bsConn
    /\ UNCHANGED <<loopSame, hello, bounds>>

installSame == <<clock, bsEngine, bsRoute, hello>>
\* AttachPacketTransportWithHandle consumes the connection whatever it returns.
Install(e) ==
    /\ At(e, "install")
    /\ \/ /\ Goto(e, "promote") /\ bsNeighbor' = [bsNeighbor EXCEPT ![e] = TRUE]
          /\ bsConn' = [bsConn EXCEPT ![e][bsLoop[e].tried] = "handed"]
          /\ UNCHANGED bounds
       \/ /\ Fault /\ Returned(e, "none") /\ CloseConn(e) /\ bsNeighbor' = bsNeighbor
    /\ UNCHANGED <<installSame, bsNotes>>
\* PromoteNeighborHandle, unless the neighbour has closed meanwhile; the success is
\* observed, which asks for a reset of the counts and notifies.
Promote(e) ==
    /\ At(e, "promote")
    /\ IF bsNeighbor[e]
       THEN /\ bsLoop' = [bsLoop EXCEPT ![e].at = IF bsEngine[e].ctx = "done" THEN "done" ELSE "look", ![e].armed = 0,
                   ![e].cause = "none", ![e].result = "none", ![e].fails = 0, ![e].misses = 0, ![e].reset = TRUE]
            /\ NotifyCalled(e)
       ELSE Returned(e, "none") /\ bsNotes' = bsNotes
    /\ UNCHANGED <<installSame, bsNeighbor, bsConn, bounds>>

-----------------------------------------------------------------------------
(* The clock and the mesh. *)

\* An attempt's context ends with its window.
WindowEnds ==
    /\ bsActive /\ bsActive' = FALSE
    /\ bsLoop' = [e \in Ends |-> IF bsLoop[e].armed = bsWindow /\ bsLoop[e].cause = "none"
                                 THEN [bsLoop[e] EXCEPT !.cause = "deadline"] ELSE bsLoop[e]]
    /\ UNCHANGED <<bsWindow, mesh, bsEngine, bsNotes, bsConn, hello, bounds>>
WindowOpens ==
    /\ ~bsActive /\ bsWindow < MaxWindows
    /\ bsWindow' = bsWindow + 1 /\ bsActive' = TRUE
    /\ UNCHANGED <<mesh, bsEngine, bsLoop, bsNotes, bsConn, hello, bounds>>
RouteChanges(e) ==
    /\ e \in Movers /\ Change
    /\ bsRoute' = [bsRoute EXCEPT ![e] = ~@]
    /\ IF bsEngine[e].handler THEN NotifyCalled(e) ELSE bsNotes' = bsNotes
    /\ UNCHANGED <<clock, bsNeighbor, bsEngine, bsLoop, bsConn, hello>>
\* OnClose of the neighbour notifies, handler or not.
NeighborCloses(e) ==
    /\ bsNeighbor[e] /\ Change
    /\ bsNeighbor' = [bsNeighbor EXCEPT ![e] = FALSE] /\ NotifyCalled(e)
    /\ UNCHANGED <<clock, bsRoute, bsEngine, bsLoop, bsConn, hello>>

\* The calls and the loop of an engine, each step by step.
Start(e) == StartMark(e) \/ StartRegister(e) \/ StartLoops(e)
Close(e) == CloseMark(e) \/ CloseCancel(e) \/ CloseReturns(e)
runAttempt(e) ==
    \/ Enter(e) \/ Arm(e) \/ CheckArmed(e) \/ PunchReturns(e) \/ JudgePunch(e)
    \/ JudgeHello(e) \/ Install(e) \/ Promote(e)
authenticatePeer(e) == SendHello(e) \/ (\E f \in bsNet : ReadHello(e, f)) \/ HelloReturns(e)

Next ==
    \/ \E e \in Ends :
          \/ Start(e) \/ Close(e) \/ NotifyTake(e) \/ Look(e) \/ Wait(e) \/ runAttempt(e)
          \/ authenticatePeer(e) \/ RouteChanges(e) \/ NeighborCloses(e)
          \/ \E w \in 0..MaxWindows : Notify(e, w)
    \/ WindowEnds \/ WindowOpens

Spec == Init /\ [][Next]_vars

-----------------------------------------------------------------------------
(* Properties. *)

\* A connection is at every moment in the hands of the attempt that made it, closed,
\* or handed to the node: no path of runAttempt drops one.
ConnsOwned ==
    \A e \in Ends : \A w \in Windows : bsConn[e][w] = "open" =>
        bsLoop[e].tried = w /\ bsLoop[e].at \in {"punched", "hello", "helloed", "install"}

\* An attempt is superseded as soon as the peer is reachable by another way: once
\* the notifications have run, no live attempt is left punching or greeting, in
\* whatever order the route came up and the cancel function was published.
SupersededSeen ==
    \A e \in Ends :
        reachable(e) /\ ~bsEngine[e].closed /\ bsNotes[e] = [calls |-> 0, held |-> {}]
            => ~(bsLoop[e].at \in {"punch", "hello"} /\ bsLoop[e].cause = "none")

\* A hello that succeeds was answered by the other end in answer to this attempt:
\* no frame of an earlier window authenticates a later connection.
FreshPeer ==
    \A e \in Ends : At(e, "hello") /\ bsHello[e].ok => bsLoop[e].tried \in bsHello[Other(e)].heard

\* When Close has returned nothing of the engine runs, and a Start that raced it has
\* left no handler behind.
ClosedQuiet ==
    \A e \in Ends : bsEngine[e].close = "returned" =>
        /\ bsLoop[e].at \in {"none", "done"} /\ \A w \in Windows : bsConn[e][w] # "open"
        /\ bsEngine[e].start \in {"started", "refused"} => ~bsEngine[e].handler

BootstrapSafe == ConnsOwned /\ SupersededSeen /\ FreshPeer /\ ClosedQuiet
=============================================================================
