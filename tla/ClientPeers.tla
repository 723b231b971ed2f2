------------------------------ MODULE ClientPeers ------------------------------
(***************************************************************************)
(* The sessions the client keeps for one peer (pkg/client: peer_session,   *)
(* peer_manager, nat_timeouts, path_improvement, tunnel_events).           *)
(*                                                                         *)
(* Three goroutines ask for a session: the coordinator callback, the       *)
(* handler of a solver message and a retry timer.  Each session has a      *)
(* runner (pkg/session) with a goroutine of its own, whose hooks write the *)
(* flags the others read.  A step is one region under connectMu or e.mu,   *)
(* or one call of the runner.                                              *)
(*                                                                         *)
(* The runner's passes are in SessionPaths; here one works, and then binds *)
(* its transport or fails.                                                 *)
(***************************************************************************)
EXTENDS Naturals, Sequences, FiniteSets

CONSTANTS
    MaxSessions,    \* bound: session objects made
    MaxUpdates,     \* bound: coordinator updates and DisconnectFromPeer calls
    MaxSignals,     \* bound: solver messages received
    MaxFaults,      \* bound: failing sends and messages a runner rejects
    MaxShakes,      \* bound: handshakes the tunnel reports
    MaxImproves     \* bound: improvement passes

VARIABLES
    cpReg,          \* peerMgr.sessions[nodeID], 0 if none
    cpS,            \* the session objects
    cpProc,         \* the goroutines that use them: [at, s, calls, next, seen]
    cpTimers,       \* sessions with a retry timer running
    cpTun,          \* the session whose transport the tunnel carries, 0 if none
    cpStolen,       \* sessions whose place in the tunnel another one took or cleared
    cpShake,        \* peer.LastHandshake is set
    cpEvents,       \* handshake events queued by the tunnel
    cpWanted,       \* the last caller wanted a connection
    cpUsed          \* what the bounds count

vars == <<cpReg, cpS, cpProc, cpTimers, cpTun, cpStolen, cpShake, cpEvents, cpWanted, cpUsed>>
tunnelVars == <<cpTun, cpStolen, cpShake, cpEvents>>

Procs == {"coord", "signal", "retry"}
Made == 1..Len(cpS)

NewSession ==
    [state |-> "new", started |-> FALSE, at |-> "idle", calls |-> <<>>, runner |-> TRUE,
     connected |-> FALSE, bound |-> FALSE, connecting |-> FALSE, improving |-> FALSE,
     retryPending |-> FALSE, improvePending |-> FALSE, path |-> FALSE]

Idle == [at |-> "idle", s |-> 0, calls |-> <<>>, next |-> "idle", seen |-> 0]

Init ==
    /\ cpReg = 0 /\ cpS = <<>> /\ cpTimers = {}
    /\ cpProc = [p \in Procs |-> Idle]
    /\ cpTun = 0 /\ cpStolen = {} /\ cpShake = FALSE /\ cpEvents = 0
    /\ cpWanted = FALSE
    /\ cpUsed = [updates |-> 0, signals |-> 0, faults |-> 0, shakes |-> 0, improves |-> 0]

Used(what) == cpUsed' = [cpUsed EXCEPT ![what] = @ + 1]
At(p, where) == cpProc[p].at = where
Goto(p, where, s) == cpProc' = [cpProc EXCEPT ![p] = [Idle EXCEPT !.at = where, !.s = s]]
Call(p, calls, next) ==
    cpProc' = [cpProc EXCEPT ![p] = [Idle EXCEPT !.at = "calls", !.s = cpProc[p].s, !.calls = calls, !.next = next]]

-----------------------------------------------------------------------------
(* The hooks and the error handlers: what each does to session r. *)

OnState(r, state) ==
    CASE state = "working" -> IF r.improving THEN [r EXCEPT !.bound = TRUE, !.connecting = FALSE]
                              ELSE [r EXCEPT !.connecting = TRUE]
      [] state = "bound" -> [r EXCEPT !.bound = TRUE, !.connecting = FALSE, !.improving = FALSE]
      [] OTHER -> [r EXCEPT !.bound = FALSE, !.connecting = FALSE, !.improving = FALSE]

\* handlePeerSessionBound, with the improvement timer it starts for a path that is
\* not protected direct.
OnBound(r, improvable) ==
    [r EXCEPT !.bound = TRUE, !.connecting = FALSE, !.improving = FALSE, !.retryPending = FALSE,
              !.path = TRUE, !.improvePending = improvable]

\* The flags of handlePeerSessionError, before it schedules the retry.
OnError(r) == [r EXCEPT !.bound = FALSE, !.connecting = FALSE, !.connected = FALSE, !.path = FALSE]

\* handlePeerSessionHookError: a failed improvement of a bound path is not an error.
IgnoresError(r) == (r.bound \/ r.connected) /\ (r.improving \/ r.path)

MayRetry(r) == ~(r.connected \/ r.bound \/ r.retryPending)

\* Session r after one call, and what its caller still has to call.
Handled(r, call) ==
    CASE call \in {"working", "bound", "failed", "closed"} -> OnState(r, call)
      [] call = "onbound" -> OnBound(r, FALSE)
      [] call = "onboundimprovable" -> OnBound(r, TRUE)
      [] call = "schedule" -> [r EXCEPT !.retryPending = @ \/ MayRetry(r)]
      [] call = "hookerror" /\ IgnoresError(r) -> r
      [] OTHER -> OnError(r)

Following(r, calls) ==
    IF calls[1] = "error" \/ (calls[1] = "hookerror" /\ ~IgnoresError(r)) THEN <<"schedule">> \o Tail(calls)
    ELSE Tail(calls)

\* schedulePeerRetry starts a timer.
Timers(s, call) ==
    cpTimers' = IF call = "schedule" /\ MayRetry(cpS[s]) THEN cpTimers \cup {s} ELSE cpTimers

-----------------------------------------------------------------------------
(* ensurePeerSession and startPeerSession, in goroutine p. *)

\* The registered session is used unless its runner failed or was closed.
Ensure(p) ==
    /\ At(p, "ensure")
    /\ IF cpReg = 0 THEN Goto(p, "make", 0)
       ELSE IF cpS[cpReg].runner /\ cpS[cpReg].state \notin {"failed", "closed"} THEN Goto(p, "start", cpReg)
       ELSE Goto(p, "replace", cpReg)
    /\ UNCHANGED <<cpReg, cpS, cpTimers, tunnelVars, cpWanted, cpUsed>>

Replace(p) ==
    /\ At(p, "replace")
    /\ cpReg' = IF cpReg = cpProc[p].s THEN 0 ELSE cpReg
    /\ cpProc' = [cpProc EXCEPT ![p].at = "drop", ![p].next = "ensure"]
    /\ UNCHANGED <<cpS, cpTimers, tunnelVars, cpWanted, cpUsed>>

\* The endpoint hints are refreshed without a lock, then the runner is made.
Make(p) ==
    /\ At(p, "make") /\ Len(cpS) < MaxSessions
    /\ cpS' = Append(cpS, NewSession)
    /\ Goto(p, "register", Len(cpS) + 1)
    /\ UNCHANGED <<cpReg, cpTimers, tunnelVars, cpWanted, cpUsed>>

\* Mutant: the runner of the goroutine that lost the race is not closed.
RegisterKeepsLoser(p) ==
    /\ At(p, "register")
    /\ IF cpReg = 0 THEN cpReg' = cpProc[p].s /\ Goto(p, "start", cpProc[p].s)
       ELSE cpReg' = cpReg /\ Goto(p, "start", cpReg)
    /\ UNCHANGED <<cpS, cpTimers, tunnelVars, cpWanted, cpUsed>>

\* A goroutine that lost the race closes the runner it made and goes on with the
\* session it saw registered, whatever becomes of that one meanwhile.
Register(p) ==
    /\ At(p, "register")
    /\ IF cpReg = 0 THEN cpReg' = cpProc[p].s /\ Goto(p, "start", cpProc[p].s)
       ELSE /\ cpReg' = cpReg
            /\ cpProc' = [cpProc EXCEPT ![p].at = "closerunner", ![p].next = "start", ![p].seen = cpReg]
    /\ UNCHANGED <<cpS, cpTimers, tunnelVars, cpWanted, cpUsed>>

Sending(p) == IF p = "signal" THEN "deliver" ELSE "idle"

StartPeerSession(p) ==
    LET s == cpProc[p].s
        r == cpS[s]
        skip == r.connected \/ r.bound \/ r.connecting \/ r.improving
    IN /\ At(p, "start")
       /\ cpS' = IF ~r.runner \/ skip THEN cpS ELSE [cpS EXCEPT ![s].connecting = TRUE]
       /\ Goto(p, IF ~r.runner THEN "idle" ELSE IF skip THEN Sending(p) ELSE "run", s)
       /\ UNCHANGED <<cpReg, cpTimers, tunnelVars, cpWanted, cpUsed>>

\* Session.Start: once started it does nothing; a closed session's agreement has
\* stopped, and sending the capability may fail.  The hooks of fail and the error
\* that Start returns run in this goroutine, while other starters wait.
Starting(s) == \E p \in Procs: At(p, "calls") /\ cpProc[p].s = s /\ cpProc[p].next # "ensure"

RunnerStart(p) ==
    LET s == cpProc[p].s
        r == cpS[s]
        failing == IF r.state = "closed" THEN <<"hookerror", "hookerror", "error">>
                   ELSE <<"failed", "hookerror", "error">>
    IN /\ At(p, "run") /\ ~Starting(s)
       /\ \/ /\ r.started
             /\ Goto(p, Sending(p), s)
             /\ UNCHANGED <<cpS, cpUsed>>
          \/ /\ ~r.started /\ r.state # "closed"
             /\ cpS' = [cpS EXCEPT ![s].started = TRUE, ![s].state = "working", ![s].at = "working",
                                   ![s].calls = <<"working">>]
             /\ Goto(p, Sending(p), s)
             /\ UNCHANGED cpUsed
          \/ /\ ~r.started
             /\ IF r.state = "closed" THEN UNCHANGED cpUsed ELSE cpUsed.faults < MaxFaults /\ Used("faults")
             /\ cpS' = [cpS EXCEPT ![s].state = IF @ = "closed" THEN @ ELSE "failed"]
             /\ Call(p, failing, Sending(p))
       /\ UNCHANGED <<cpReg, cpTimers, tunnelVars, cpWanted>>

\* The calls of goroutine p, one at a time.
Calls(p) ==
    LET s == cpProc[p].s
        calls == cpProc[p].calls
    IN /\ At(p, "calls") /\ calls # <<>>
       /\ cpS' = [cpS EXCEPT ![s] = Handled(@, calls[1])]
       /\ Timers(s, calls[1])
       /\ LET rest == Following(cpS[s], calls)
          IN IF rest = <<>> THEN cpProc' = [cpProc EXCEPT ![p].at = cpProc[p].next, ![p].calls = <<>>]
             ELSE cpProc' = [cpProc EXCEPT ![p].calls = rest]
       /\ UNCHANGED <<cpReg, tunnelVars, cpWanted, cpUsed>>

\* HandleMessageFrom: the runner takes the message, or rejects it with an error;
\* one about the selection goes through handlePeerSessionHookError.
Deliver(p) ==
    /\ At(p, "deliver")
    /\ \/ Goto(p, "idle", 0) /\ UNCHANGED cpUsed
       \/ /\ cpS[cpProc[p].s].runner
          /\ cpUsed.faults < MaxFaults /\ Used("faults")
          /\ \E err \in {"error", "hookerror"}: Call(p, <<err>>, "idle")
    /\ UNCHANGED <<cpReg, cpS, cpTimers, tunnelVars, cpWanted>>

-----------------------------------------------------------------------------
(* closePeerSession and Session.Close, in goroutine p. *)

\* closePeerSession: the flags are reset and the runner is taken.
Drop(p) ==
    LET s == cpProc[p].s
    IN /\ At(p, "drop")
       /\ cpS' = [cpS EXCEPT ![s] = [NewSession EXCEPT !.state = cpS[s].state,
                     !.started = cpS[s].started, !.at = cpS[s].at, !.calls = cpS[s].calls, !.runner = FALSE]]
       /\ cpProc' = [cpProc EXCEPT ![p].at = IF cpS[s].runner THEN "closerunner" ELSE cpProc[p].next]
       /\ UNCHANGED <<cpReg, cpTimers, tunnelVars, cpWanted, cpUsed>>

\* The agreement stops, the pass is cancelled and the state becomes Closed.
CloseRunner(p) ==
    LET s == cpProc[p].s
    IN /\ At(p, "closerunner")
       /\ cpS' = [cpS EXCEPT ![s] = OnState([@ EXCEPT !.state = "closed"], "closed")]
       /\ cpProc' = [cpProc EXCEPT ![p].at = "unbind"]
       /\ UNCHANGED <<cpReg, cpTimers, tunnelVars, cpWanted, cpUsed>>

\* TunnelBinder.Unbind removes the peer, whoever's transport it carries.
Unbind(s) ==
    /\ cpTun' = 0
    /\ cpStolen' = cpStolen \cup ({cpTun} \ {0, s})

CloseUnbinds(p) ==
    /\ At(p, "unbind")
    /\ Unbind(cpProc[p].s)
    /\ cpProc' = [cpProc EXCEPT ![p].at = cpProc[p].next, ![p].seen = 0,
                                ![p].s = IF cpProc[p].seen # 0 THEN cpProc[p].seen ELSE @]
    /\ UNCHANGED <<cpReg, cpS, cpTimers, cpShake, cpEvents, cpWanted, cpUsed>>

-----------------------------------------------------------------------------
(* The runner's goroutine of session s. *)

Queue(s, state, calls) == cpS' = [cpS EXCEPT ![s].state = state, ![s].at = "calls", ![s].calls = calls]

RunnerCalls(s) ==
    LET calls == cpS[s].calls
    IN /\ calls # <<>>
       /\ cpS' = [cpS EXCEPT ![s] = [Handled(cpS[s], calls[1]) EXCEPT
                     !.calls = Following(cpS[s], calls),
                     !.at = IF @ = "calls" /\ Following(cpS[s], calls) = <<>> THEN "idle" ELSE @]]
       /\ Timers(s, calls[1])
       /\ UNCHANGED <<cpReg, cpProc, tunnelVars, cpWanted, cpUsed>>

\* fail: from Closed the transition is refused, which is reported too.
Failing(s) ==
    IF cpS[s].state = "closed" THEN Queue(s, "closed", <<"hookerror", "hookerror">>)
    ELSE Queue(s, "failed", <<"failed", "hookerror">>)

Working(s, where) == cpS[s].at = where /\ cpS[s].calls = <<>>

RunnerBinds(s) ==
    /\ Working(s, "working") \/ Working(s, "improving")
    /\ cpS[s].state # "closed" \/ cpS[s].at = "working"
    /\ cpS' = [cpS EXCEPT ![s].at = "commit"]
    /\ cpTun' = s /\ cpStolen' = (cpStolen \cup ({cpTun} \ {0})) \ {s}
    /\ UNCHANGED <<cpReg, cpProc, cpTimers, cpShake, cpEvents, cpWanted, cpUsed>>

\* No strategy makes a path, or the pass was cancelled.
RunnerFails(s) ==
    /\ Working(s, "working")
    /\ Failing(s)
    /\ UNCHANGED <<cpReg, cpProc, cpTimers, tunnelVars, cpWanted, cpUsed>>

\* sendPathCommit fails once the pass is cancelled, and takes the binding back.
RunnerCommits(s) ==
    /\ Working(s, "commit")
    /\ \/ /\ cpS[s].state # "closed"
          /\ cpS' = [cpS EXCEPT ![s].at = "committed"]
          /\ UNCHANGED <<cpTun, cpStolen>>
       \/ /\ cpS[s].state = "closed"
          /\ Failing(s) /\ Unbind(s)
    /\ UNCHANGED <<cpReg, cpProc, cpTimers, cpShake, cpEvents, cpWanted, cpUsed>>

\* OnBound is called even if the session was closed meanwhile.
RunnerBound(s) ==
    /\ Working(s, "committed")
    /\ \E onBound \in {"onbound", "onboundimprovable"}:
           IF cpS[s].state = "closed" THEN Queue(s, "closed", <<"hookerror", onBound>>)
           ELSE Queue(s, "bound", <<"bound", onBound>>)
    /\ UNCHANGED <<cpReg, cpProc, cpTimers, tunnelVars, cpWanted, cpUsed>>

\* The improvement timer: startPeerImprovement and ImproveProtectedDirect.
Improve(s) ==
    /\ cpS[s].improvePending /\ cpS[s].at = "idle" /\ cpS[s].calls = <<>>
    /\ cpUsed.improves < MaxImproves /\ Used("improves")
    /\ LET r == [cpS[s] EXCEPT !.improvePending = FALSE]
       IN cpS' = [cpS EXCEPT ![s] =
              IF cpReg # s THEN cpS[s]
              ELSE IF ~r.runner \/ ~r.bound \/ r.connecting \/ r.improving \/ r.state # "bound" THEN r
              ELSE [r EXCEPT !.improving = TRUE, !.state = "working", !.at = "improving", !.calls = <<"working">>]]
    /\ UNCHANGED <<cpReg, cpProc, cpTimers, tunnelVars, cpWanted>>

\* Nothing better was found: the session is Bound again and tries later.
ImproveFails(s) ==
    /\ Working(s, "improving")
    /\ cpS' = [cpS EXCEPT ![s] =
           IF @.state = "closed" THEN [@ EXCEPT !.at = "idle", !.improving = FALSE]
           ELSE [OnState(@, "bound") EXCEPT !.state = "bound", !.at = "idle", !.improvePending = TRUE]]
    /\ UNCHANGED <<cpReg, cpProc, cpTimers, tunnelVars, cpWanted, cpUsed>>

-----------------------------------------------------------------------------
(* What calls the client. *)

\* handlePeerUpdate with Online, and ConnectToPeer.
PeerOnline ==
    /\ At("coord", "idle") /\ cpUsed.updates < MaxUpdates /\ Used("updates")
    /\ cpWanted' = TRUE
    /\ Goto("coord", "ensure", 0)
    /\ UNCHANGED <<cpReg, cpS, cpTimers, tunnelVars>>

\* An offline peer whose data path looks alive is kept; otherwise, and for
\* DisconnectFromPeer, cleanupPeer takes the session out and closes it.
PeerOffline ==
    /\ At("coord", "idle") /\ cpUsed.updates < MaxUpdates /\ Used("updates")
    /\ \/ /\ cpShake
          /\ UNCHANGED <<cpReg, cpProc, cpWanted>>
       \/ /\ cpWanted' = FALSE /\ cpReg' = 0
          /\ cpProc' = [cpProc EXCEPT !["coord"] =
                 [Idle EXCEPT !.at = IF cpReg = 0 THEN "remove" ELSE "drop", !.s = cpReg, !.next = "remove"]]
    /\ UNCHANGED <<cpS, cpTimers, tunnelVars>>

\* The end of cleanupPeer removes the tunnel peer once more.
RemovePeer ==
    /\ At("coord", "remove")
    /\ Unbind(0)
    /\ Goto("coord", "idle", 0)
    /\ UNCHANGED <<cpReg, cpS, cpTimers, cpShake, cpEvents, cpWanted, cpUsed>>

\* handleSignal starts a goroutine for the message.
Signal ==
    /\ At("signal", "idle") /\ cpUsed.signals < MaxSignals /\ Used("signals")
    /\ cpWanted' = TRUE
    /\ Goto("signal", "ensure", 0)
    /\ UNCHANGED <<cpReg, cpS, cpTimers, tunnelVars>>

\* The retry timer of s: only the registered session is tried again.
RetryFires(s) ==
    /\ s \in cpTimers /\ At("retry", "idle")
    /\ cpTimers' = cpTimers \ {s}
    /\ IF cpReg = s THEN cpS' = [cpS EXCEPT ![s].retryPending = FALSE] /\ Goto("retry", "ensure", 0)
       ELSE UNCHANGED <<cpS, cpProc>>
    /\ UNCHANGED <<cpReg, tunnelVars, cpWanted, cpUsed>>

\* The tunnel queues a handshake event; markPeerConnected takes it later.
Handshake ==
    /\ cpTun # 0 /\ cpUsed.shakes < MaxShakes /\ Used("shakes")
    /\ cpEvents' = cpEvents + 1 /\ cpShake' = TRUE
    /\ UNCHANGED <<cpReg, cpS, cpProc, cpTimers, cpTun, cpStolen, cpWanted>>

MarkPeerConnected ==
    /\ cpEvents > 0 /\ cpEvents' = cpEvents - 1
    /\ cpS' = IF cpReg = 0 THEN cpS
              ELSE [cpS EXCEPT ![cpReg].connected = TRUE, ![cpReg].connecting = FALSE, ![cpReg].retryPending = FALSE]
    /\ UNCHANGED <<cpReg, cpProc, cpTimers, cpTun, cpStolen, cpShake, cpWanted, cpUsed>>

-----------------------------------------------------------------------------
\* The calls and the runner of a session, each step by step.
ensurePeerSession(p) == Ensure(p) \/ Replace(p) \/ Make(p) \/ Register(p)
Close(p) == CloseRunner(p) \/ CloseUnbinds(p)
run(s) == RunnerCalls(s) \/ RunnerFails(s)
bindOutcomeSet(s) == RunnerBinds(s) \/ RunnerCommits(s) \/ RunnerBound(s)

Next ==
    \/ \E p \in Procs: \/ ensurePeerSession(p) \/ StartPeerSession(p) \/ RunnerStart(p) \/ Calls(p)
                       \/ Deliver(p) \/ Drop(p) \/ Close(p)
    \/ \E s \in Made: run(s) \/ bindOutcomeSet(s) \/ Improve(s) \/ ImproveFails(s) \/ RetryFires(s)
    \/ PeerOnline \/ PeerOffline \/ RemovePeer \/ Signal \/ Handshake \/ MarkPeerConnected

Spec == Init /\ [][Next]_vars

-----------------------------------------------------------------------------
(* Properties. *)

Held(s) == \E p \in Procs: ~At(p, "idle") /\ cpProc[p].s = s
Settled(s) == cpS[s].calls = <<>> /\ cpS[s].at \in {"idle", "working", "improving"}
Quiet == /\ \A p \in Procs: At(p, "idle")
         /\ \A s \in Made: Settled(s) /\ (cpS[s].state = "closed" => cpS[s].at = "idle")

\* A session that is neither registered nor in some goroutine's hands is closed:
\* replacing, losing the race of registration and cleaning up forget nobody.
NoOrphan == \A s \in Made: s # cpReg /\ ~Held(s) => cpS[s].state = "closed"

\* A peer somebody wants is never given up in silence: once every goroutine has
\* returned there is a session which works, is bound or waits for its retry.  The
\* one exception is a session a handshake event has marked connected.
NotGivenUp ==
    Quiet /\ cpWanted =>
        /\ cpReg # 0
        /\ \/ cpS[cpReg].state \in {"working", "bound"}
           \/ cpReg \in cpTimers
           \/ cpS[cpReg].connected

\* Once closing is over the tunnel carries no closed session's transport, and a
\* bound session lost its place in the tunnel only to another session's Bind or
\* Unbind, which name the peer and not the session.
TunnelFollows ==
    Quiet => /\ cpTun # 0 => cpS[cpTun].state # "closed"
             /\ cpReg # 0 /\ cpS[cpReg].state = "bound" => cpTun = cpReg \/ cpReg \in cpStolen

PeersSafe == NoOrphan /\ NotGivenUp /\ TunnelFollows
=============================================================================
