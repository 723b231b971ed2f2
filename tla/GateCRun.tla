------------------------------ MODULE GateCRun ------------------------------
(***************************************************************************)
(* The foreground run of gate C at both ends (gatecorchestrator): claim,   *)
(* gate B, WireGuard binding, durable FINISH, release of the out-of-band   *)
(* carrier, echo, session, and the deferred calls that unwind it in        *)
(* reverse order, on success and on every early return.                    *)
(*                                                                         *)
(* The attempt inside gate B is HardNat, the packets of the challenge      *)
(* WireGuardGate, the liveness rounds GateCLiveness: here each is the step *)
(* that passes or fails.  "F" is the responder's confirmation of FINISH;   *)
(* "request", "response" and "close" are the inner packets.                *)
(***************************************************************************)
EXTENDS Naturals, Sequences, SequenceTheorems, TLAPS

CONSTANTS Forms,      \* subset of {"stdio", "field"}: the entry that starts the run
          Cancels,    \* the ends whose caller may cancel
          Expiries,   \* the ends whose attempt envelope may expire
          MaxRunFaults,  \* failing local calls and broken carriers
          MaxLost     \* datagrams lost

VARIABLES grForm,     \* the entry of this run
          grEnd,      \* the run of each end
          grNet,      \* datagrams on their way to each end
          grFaults, grLost,
          grCauses    \* history: what may excuse a failed run
grVars == <<grForm, grEnd, grNet, grFaults, grLost, grCauses>>

Ends == {"i", "r"}
Peer(e) == IF e = "i" THEN "r" ELSE "i"

----------------------------------------------------------------------------
(* An end: at is the next step of runPrepared, "unwind" or "done"; defers  *)
(* the deferred calls, the last one first; held what it has acquired.      *)

Fresh == [at |-> "entry", defers |-> <<>>, held |-> {},
          carrier |-> "none", watched |-> FALSE, active |-> TRUE, finish |-> "none",
          finished |-> FALSE, sent |-> FALSE, cancelled |-> FALSE, err |-> FALSE,
          tripped |-> FALSE, ready |-> FALSE, terminal |-> FALSE]

RunInit ==
    /\ grForm \in Forms
    /\ grEnd = [e \in Ends |-> Fresh]
    /\ grNet = [e \in Ends |-> {}]
    /\ grFaults = 0 /\ grLost = 0
    /\ grCauses = {}

Cause(c) == grCauses' = grCauses \cup {c}
Fault == grFaults < MaxRunFaults /\ grFaults' = grFaults + 1 /\ Cause("fault")
NoFault == UNCHANGED <<grFaults, grCauses>>
Becomes(e, s) == grEnd' = [grEnd EXCEPT ![e] = s]
NetQuiet == UNCHANGED <<grForm, grNet, grLost>>
SendInner(e, p) == grNet' = [grNet EXCEPT ![Peer(e)] = @ \cup {p}] /\ UNCHANGED <<grForm, grLost>>

\* A step that passed: go on at `next`, with its deferred calls pushed.
Pass(s, next, calls, got) == [s EXCEPT !.at = next, !.defers = calls \o @, !.held = @ \cup got]

\* An early return with an error.
failRun(s) == [s EXCEPT !.at = "unwind", !.err = TRUE]

\* sessionDrainFailure: the machine is tripped.
sessionDrainFailure(s) == [s EXCEPT !.err = TRUE, !.tripped = TRUE]

----------------------------------------------------------------------------
(* Up to the handoff.                                                      *)

\* One fallible call of the pipeline.
Call(e, at, next, calls, got) ==
    /\ grEnd[e].at = at
    /\ \/ NoFault /\ Becomes(e, Pass(grEnd[e], next, calls, got))
       \/ Fault /\ Becomes(e, failRun(grEnd[e]))
    /\ NetQuiet

\* RunInitiator loads the artifact, RunResponderStdio claims the staged one;
\* both check it and acquire the machine.
runStdio(e) == grForm = "stdio" /\ Call(e, "entry", "resolve", <<"machine">>, {"machine"})

\* The field entry also holds an evidence file, sealed after the machine is closed.
runFieldPrepared(e) == grForm = "field" /\ Call(e, "entry", "resolve", <<"machine", "evidence">>, {"machine"})

\* runPrepared up to its first progress: the trusted peer, the conflicts, and
\* the key, interface and route of this process.
resolveTrustedPeer(e) == Call(e, "resolve", "inspect", <<>>, {})
inspectConflict(e) ==
    \/ ~grEnd[e].cancelled /\ Call(e, "inspect", "claim", <<>>, {})
    \/ grEnd[e].at = "inspect" /\ grEnd[e].cancelled /\ Becomes(e, failRun(grEnd[e])) /\ NoFault /\ NetQuiet
claimLocalOwnership(e) == Call(e, "claim", "stream", <<"terminal", "ownership">>, {"ownership"})

\* OpenProductStream: the SSH child of the initiator, the inherited pipes of
\* the responder, adopted by the carrier under the attempt's lease.
OpenProductStream(e) ==
    LET s == grEnd[e]
    IN  /\ s.at = "stream"
        /\ e = "i" \/ grEnd["i"].carrier # "none"
        /\ \/ s.active /\ NoFault
              /\ Becomes(e, [s EXCEPT !.at = "gateb", !.carrier = "open",
                                      !.held = @ \cup {"attempt", "carrier"}])
           \/ ~s.active /\ NoFault /\ Becomes(e, failRun(s))
           \/ Fault /\ Becomes(e, failRun(s))
        /\ NetQuiet

\* The responder is the initiator's SSH child: it never starts if that failed.
NeverSpawned(e) ==
    /\ e = "r" /\ grEnd[e].at = "stream"
    /\ grEnd["i"].carrier = "none" /\ grEnd["i"].at \in {"unwind", "done"}
    /\ Becomes(e, failRun(grEnd[e])) /\ NoFault /\ NetQuiet

\* runtime.cleanup: record the terminal reason if authorization is still held,
\* close the carrier and the transport; only a recorded FINISH releases the
\* attempt (finishOK).
cleanup(s, recorded) ==
    LET finish == IF s.finish = "none" /\ "authorization" \in s.held /\ recorded THEN "failed" ELSE s.finish
        spent == {"authorization", "carrier", "gate"}
                   \cup (IF finish # "none" \/ "burned" \notin s.held THEN {"attempt"} ELSE {})
    IN  [s EXCEPT !.finish = finish, !.carrier = "closed", !.active = FALSE, !.held = @ \ spent]

\* gateb.RunForProduct: it burns the credential and hands over a gate, or
\* fails and cleans up after itself.
RunForProduct(e) ==
    LET s == grEnd[e]
        burned == [s EXCEPT !.held = @ \cup {"authorization", "burned"}]
    IN  /\ s.at = "gateb"
        /\ \/ /\ s.active /\ s.carrier = "open" /\ grEnd[Peer(e)].carrier # "none" /\ NoFault
              /\ Becomes(e, Pass(burned, "interface", <<"abort">>, {"gate"}))
           \/ ~s.active /\ NoFault /\ \E b \in {s, burned} : Becomes(e, failRun(cleanup(b, TRUE)))
           \/ Fault /\ \E b \in {s, burned}, ok \in BOOLEAN : Becomes(e, failRun(cleanup(b, ok)))
        /\ NetQuiet

\* newInterface; then newTunnel, Start and AddPeer.
newInterface(e) == Call(e, "interface", "tunnel", <<"interface">>, {"interface"})
newTunnel(e) == Call(e, "tunnel", "challenge", <<"tunnel">>, {"tunnel"})

\* ConsumerReady, the one-shot handshake and completeWireGuardChallenge; it
\* needs the peer at the same step and not gone.
completeWireGuardChallenge(e) ==
    LET s == grEnd[e]
    IN  /\ s.at = "challenge"
        /\ \/ /\ s.active /\ ~s.cancelled /\ NoFault
              /\ "tunnel" \in grEnd[Peer(e)].held
              /\ Becomes(e, [s EXCEPT !.at = IF e = "r" THEN "record" ELSE "confirm"])
           \/ (~s.active \/ s.cancelled) /\ NoFault /\ Becomes(e, failRun(s))
           \/ Fault /\ Becomes(e, failRun(s))
        /\ NetQuiet

----------------------------------------------------------------------------
(* FinishAndDetach.                                                        *)

\* FinishAndActivate failed: cleanup runs at once, the handoff is closed.
FinishAndActivateFails(s) == failRun(cleanup(s, TRUE))

\* Mutant: without the wait for the confirmation.
receiveCompletionUnconfirmed(e) ==
    LET s == grEnd[e]
    IN  /\ s.at = "confirm" /\ NetQuiet /\ NoFault
        /\ Becomes(e, IF s.active THEN [s EXCEPT !.at = "record"] ELSE FinishAndActivateFails(s))

\* The initiator waits for the sealed confirmation before it records.
receiveCompletion(e) ==
    LET s == grEnd[e]
    IN  /\ s.at = "confirm"
        /\ \/ s.active /\ "F" \in grNet[e]
              /\ Becomes(e, [s EXCEPT !.at = "record"])
              /\ grNet' = [grNet EXCEPT ![e] = @ \ {"F"}] /\ UNCHANGED <<grForm, grLost>> /\ NoFault
           \/ ~s.active /\ Becomes(e, FinishAndActivateFails(s)) /\ NetQuiet /\ NoFault

\* durableFinish; then the responder confirms, both detach and activate.
FinishAndActivate(e) ==
    LET s == grEnd[e]
        recorded == [s EXCEPT !.finish = "success", !.held = @ \ {"authorization"}]
    IN  /\ s.at = "record"
        /\ \/ /\ s.active /\ Becomes(e, [recorded EXCEPT !.at = "activate"]) /\ NoFault
           \/ /\ ~s.active /\ Becomes(e, FinishAndActivateFails(s)) /\ NoFault
           \/ /\ Fault /\ Becomes(e, FinishAndActivateFails([s EXCEPT !.held = @ \ {"authorization"}]))
        /\ NetQuiet

activate(e) ==
    LET s == grEnd[e]
        next == [s EXCEPT !.at = "release"]
    IN  /\ s.at = "activate"
        /\ \/ s.active /\ e = "r" /\ Becomes(e, next) /\ SendInner(e, "F") /\ NoFault
           \/ s.active /\ e = "i" /\ Becomes(e, next) /\ NetQuiet /\ NoFault
           \/ ~s.active /\ Becomes(e, FinishAndActivateFails(s)) /\ NetQuiet /\ NoFault
           \/ Fault /\ Becomes(e, FinishAndActivateFails(s)) /\ NetQuiet

\* releaseProductEstablishment: the responder waits for the initiator to end
\* the carrier; the attempt is released; an ended context is an error.
releaseProductEstablishment(e) ==
    LET s == grEnd[e]
        gone == [s EXCEPT !.carrier = "closed", !.active = FALSE, !.held = @ \ {"attempt", "carrier"}]
        closed == [gone EXCEPT !.held = @ \ {"gate"}]
    IN  /\ s.at = "release"
        /\ e = "i" \/ s.carrier \in {"eof", "broken"} \/ ~s.active
        /\ \/ s.active /\ NoFault
              /\ Becomes(e, [gone EXCEPT !.at = "report", !.finished = TRUE,
                                         !.defers = <<"closeSession">> \o @])
           \/ ~s.active /\ NoFault /\ Becomes(e, failRun(closed))
           \/ Fault /\ Becomes(e, failRun(closed))
        /\ NetQuiet

\* The carrier of an end whose peer closed it: end of file, or an error.
CarrierEnds(e) ==
    LET s == grEnd[e]
    IN  /\ s.carrier = "open"
        /\ \/ grEnd[Peer(e)].carrier = "closed" /\ Becomes(e, [s EXCEPT !.carrier = "eof"]) /\ NoFault
           \/ Fault /\ Becomes(e, [s EXCEPT !.carrier = "broken"])
        /\ NetQuiet

\* productCarrierTerminal, in the goroutine that watches the carrier: an end
\* of file after FINISH is expected, anything else cancels the attempt.
productCarrierTerminal(e) ==
    LET s == grEnd[e]
        recorded == s.finish = "success"
        expected == recorded /\ s.carrier = "eof"
    IN  /\ s.carrier \in {"eof", "broken"} /\ ~s.watched
        /\ Becomes(e, IF expected THEN [s EXCEPT !.watched = TRUE]
                      ELSE [s EXCEPT !.watched = TRUE, !.active = FALSE,
                                     !.held = IF recorded THEN @ \ {"gate"} ELSE @])
        /\ NetQuiet /\ NoFault

----------------------------------------------------------------------------
(* After the carrier: echo and session.                                    *)

Working(e) == "gate" \in grEnd[e].held /\ "tunnel" \in grEnd[e].held /\ "interface" \in grEnd[e].held
Arrived(e, p) == p \in grNet[e] /\ Working(e)
TakeInner(e, p) == grNet' = [grNet EXCEPT ![e] = @ \ {p}] /\ UNCHANGED <<grForm, grLost>>

\* The two progress reports between FINISH and the echo.
emit(e) == Call(e, "report", "echo", <<>>, {})

\* postOOBEcho.  The initiator asks, then waits; the responder answers.
postOOBEcho(e) ==
    LET s == grEnd[e]
        done == [s EXCEPT !.at = "session", !.ready = TRUE, !.defers = <<"drain">> \o @]
    IN  /\ s.at = "echo"
        /\ \/ /\ e = "i" /\ ~s.sent /\ SendInner(e, "request") /\ NoFault
              /\ Becomes(e, [s EXCEPT !.sent = TRUE])
           \/ /\ e = "i" /\ s.sent /\ Arrived(e, "response") /\ TakeInner(e, "response") /\ NoFault
              /\ Becomes(e, done)
           \/ /\ e = "r" /\ ~s.sent /\ Arrived(e, "request") /\ TakeInner(e, "request") /\ NoFault
              /\ Becomes(e, [s EXCEPT !.sent = TRUE])
           \/ /\ e = "r" /\ s.sent /\ SendInner(e, "response") /\ NoFault /\ Becomes(e, done)
           \/ /\ Fault /\ Becomes(e, failRun(s)) /\ NetQuiet

\* Its timeout: receiveInnerPacket closes the interface to end its reader,
\* and drainInnerReader may find that it does not end.
drainInnerReader(e) ==
    LET s == grEnd[e]
        closed == [s EXCEPT !.held = @ \ {"interface"}]
    IN  /\ s.at = "echo" /\ (e = "r") # s.sent
        /\ \/ Cause("timeout") /\ Becomes(e, failRun(closed)) /\ UNCHANGED grFaults
           \/ Fault /\ Becomes(e, failRun(sessionDrainFailure(s)))
        /\ NetQuiet

\* foregroundSession, or the liveness controller's run: the caller's cancel,
\* the peer's authenticated close, or a ceiling ends it; the initiator's
\* cancel writes the close first, the responder's reader ends with the interface.
foregroundSession(e) ==
    LET s == grEnd[e]
        over == [s EXCEPT !.at = "close",
                          !.held = IF e = "r" /\ grForm = "stdio" THEN @ \ {"interface"} ELSE @]
    IN  /\ s.at = "session"
        /\ \/ /\ e = "i" /\ s.cancelled /\ Becomes(e, over) /\ SendInner(e, "close") /\ NoFault
           \/ /\ e = "r" /\ s.cancelled /\ Becomes(e, over) /\ NetQuiet /\ NoFault
           \/ /\ e = "r" /\ Arrived(e, "close") /\ Becomes(e, over) /\ TakeInner(e, "close") /\ NoFault
           \/ /\ Becomes(e, over) /\ NetQuiet /\ NoFault
           \/ /\ Fault /\ NetQuiet
              /\ \/ Becomes(e, failRun(s))
                 \/ e = "r" /\ Becomes(e, failRun(sessionDrainFailure(s)))

\* The explicit CloseSession before Terminal becomes "success".
CloseSession(e) ==
    LET s == grEnd[e]
        closed == [s EXCEPT !.at = "unwind", !.held = @ \ {"gate"}]
    IN  /\ s.at = "close"
        /\ \/ NoFault /\ Becomes(e, closed)
           \/ Fault /\ Becomes(e, sessionDrainFailure(closed))
        /\ NetQuiet

----------------------------------------------------------------------------
(* The deferred calls, the last registered first.                          *)

\* Each call with and without a failure of its own.
deferred(s, call, ok) ==
    CASE call = "drain"        -> IF ok THEN s ELSE sessionDrainFailure(s)
      [] call = "closeSession" -> LET c == [s EXCEPT !.held = @ \ {"gate"}]
                                  IN  IF ok \/ "gate" \notin s.held THEN c ELSE sessionDrainFailure(c)
      [] call = "tunnel"       -> IF ok THEN [s EXCEPT !.held = @ \ {"tunnel"}] ELSE sessionDrainFailure(s)
      [] call = "interface"    -> IF ok THEN [s EXCEPT !.held = @ \ {"interface"}] ELSE sessionDrainFailure(s)
      [] call = "abort"        -> IF s.finished \/ "carrier" \notin s.held THEN s
                                  ELSE [cleanup(s, ok) EXCEPT !.err = TRUE]
      [] call = "terminal"     -> IF ok THEN [s EXCEPT !.terminal = TRUE] ELSE [s EXCEPT !.err = TRUE]
      [] call = "ownership"    -> [s EXCEPT !.held = @ \ {"ownership"}]
      [] call = "evidence"     -> IF ok THEN s ELSE [s EXCEPT !.err = TRUE]
      [] call = "machine"      -> [s EXCEPT !.held = @ \ {"machine"}]

Unwind(e) ==
    LET s == grEnd[e]
        rest == [s EXCEPT !.defers = Tail(@)]
    IN  /\ s.at = "unwind" /\ s.defers # <<>>
        /\ \/ NoFault /\ Becomes(e, deferred(rest, Head(s.defers), TRUE))
           \/ Fault /\ Becomes(e, deferred(rest, Head(s.defers), FALSE))
        /\ NetQuiet

RunReturns(e) ==
    /\ grEnd[e].at = "unwind" /\ grEnd[e].defers = <<>>
    /\ Becomes(e, [grEnd[e] EXCEPT !.at = "done"]) /\ NoFault /\ NetQuiet

----------------------------------------------------------------------------
(* The environment.                                                        *)

\* The caller cancels: the attempt's context is derived from it, the
\* session's is not.
Cancel(e) ==
    /\ e \in Cancels /\ ~grEnd[e].cancelled /\ grEnd[e].at # "done"
    /\ Becomes(e, [grEnd[e] EXCEPT !.cancelled = TRUE, !.active = FALSE])
    /\ (IF grEnd[e].ready THEN UNCHANGED grCauses ELSE Cause("cancel"))
    /\ UNCHANGED grFaults /\ NetQuiet

\* The absolute deadline of the attempt.
EnvelopeExpires(e) ==
    /\ e \in Expiries /\ grEnd[e].active
    /\ Becomes(e, [grEnd[e] EXCEPT !.active = FALSE]) /\ Cause("expiry")
    /\ UNCHANGED grFaults /\ NetQuiet

Lose(e) ==
    /\ grLost < MaxLost /\ grLost' = grLost + 1
    /\ \E p \in grNet[e] : grNet' = [grNet EXCEPT ![e] = @ \ {p}]
    /\ Cause("loss") /\ UNCHANGED <<grForm, grEnd, grFaults>>

FinishAndDetach(e) == FinishAndActivate(e) \/ activate(e)
PreparedStart(e) == OpenProductStream(e) \/ NeverSpawned(e) \/ RunForProduct(e) \/ newInterface(e) \/ newTunnel(e)
EndStep(e) ==
    \/ runStdio(e) \/ runFieldPrepared(e) \/ resolveTrustedPeer(e) \/ inspectConflict(e)
    \/ claimLocalOwnership(e) \/ PreparedStart(e) \/ completeWireGuardChallenge(e)
    \/ receiveCompletion(e) \/ FinishAndDetach(e)
    \/ releaseProductEstablishment(e) \/ CarrierEnds(e) \/ productCarrierTerminal(e)
    \/ emit(e) \/ postOOBEcho(e) \/ drainInnerReader(e) \/ foregroundSession(e)
    \/ CloseSession(e) \/ Unwind(e) \/ RunReturns(e)

RunNext == \E e \in Ends : EndStep(e) \/ Cancel(e) \/ EnvelopeExpires(e) \/ Lose(e)

RunSpec == RunInit /\ [][RunNext]_grVars

----------------------------------------------------------------------------
(* What a careful reader would argue about.                                *)

\* The data plane is announced at an end only after both ends have recorded a
\* successful FINISH: the echo cannot pass on one side's word.
ReadyNeedsBoth ==
    \A e \in Ends : grEnd[e].ready => \A f \in Ends : grEnd[f].finish = "success"

\* No attempt is given back while its burned credential has no terminal record.
ReleaseFollowsRecord ==
    \A e \in Ends : LET s == grEnd[e] IN
        "burned" \in s.held /\ "attempt" \notin s.held => s.finish # "none"

\* Whatever path a run took, what it still holds at its end is what a failed
\* drain left behind, with the machine tripped, or an unrecorded attempt.
Unwound ==
    \A e \in Ends : LET s == grEnd[e] IN s.at = "done" =>
        /\ {"gate", "carrier", "ownership", "machine", "authorization"} \cap s.held = {}
        /\ {"tunnel", "interface"} \cap s.held # {} => s.tripped
        /\ s.tripped => s.err
        /\ "attempt" \in s.held => s.finish = "none" /\ s.err

\* Terminal progress is reported once nothing of the run can still emit.
TerminalIsLast ==
    \A e \in Ends : LET s == grEnd[e] IN s.terminal =>
        /\ {"gate", "carrier"} \cap s.held = {}
        /\ {"tunnel", "interface"} \cap s.held # {} => s.tripped

\* A run fails only if something failed: the initiator's close of the carrier
\* never turns the responder's recorded success into a failure.
FailureHasCause == (\E e \in Ends : grEnd[e].err) => grCauses # {}

\* The run of a product announces its data plane only when both ends have recorded
\* FINISH, gives back what it held but for what a failed drain has tripped the
\* machine for, reports last, and fails only for a cause (runPrepared).
RunSafe == ReadyNeedsBoth /\ ReleaseFollowsRecord /\ Unwound /\ TerminalIsLast /\ FailureHasCause

----------------------------------------------------------------------------
(* The inductive invariant.                                                *)

Early == {"entry", "resolve", "inspect", "claim"}
Binding == {"interface", "tunnel", "challenge", "confirm", "record"}
Carried == {"report", "echo", "session", "close"}
FinishRecorded == {"activate", "release"} \cup Carried
Over == {"unwind", "done"}
Ats == Early \cup {"stream", "gateb"} \cup Binding \cup FinishRecorded \cup Over
Emitters == {"drain", "closeSession", "tunnel", "interface", "abort"}
Calls == Emitters \cup {"terminal", "ownership", "machine", "evidence"}
Things == {"machine", "ownership", "attempt", "carrier", "authorization", "burned", "gate", "interface", "tunnel"}
InnerPackets == {"F", "request", "response", "close"}

States ==
    [at : Ats, defers : Seq(Calls), held : SUBSET Things,
     carrier : {"none", "open", "eof", "broken", "closed"}, watched : BOOLEAN, active : BOOLEAN,
     finish : {"none", "failed", "success"}, finished : BOOLEAN, sent : BOOLEAN, cancelled : BOOLEAN,
     err : BOOLEAN, tripped : BOOLEAN, ready : BOOLEAN, terminal : BOOLEAN]

RunTypeOK ==
    /\ grEnd \in [Ends -> States]
    /\ grNet \in [Ends -> SUBSET InnerPackets]

\* A deferred call is still to come.
Owed(d, call) == \E k \in 1..Len(d) : d[k] = call

\* Nothing that can still emit is deferred behind the terminal report.
ReportedLast(d) == \A j, k \in 1..Len(d) : j < k /\ d[j] = "terminal" => d[k] \notin Emitters

\* What is held is owed a deferred call that gives it back, or was given up.
Owes(s) ==
    /\ "machine" \in s.held => Owed(s.defers, "machine")
    /\ "ownership" \in s.held => Owed(s.defers, "ownership")
    /\ "tunnel" \in s.held => s.tripped \/ Owed(s.defers, "tunnel")
    /\ "interface" \in s.held => s.tripped \/ Owed(s.defers, "interface")
    /\ "carrier" \in s.held => s.at = "gateb" \/ Owed(s.defers, "abort")
    /\ "gate" \in s.held => "carrier" \in s.held \/ (s.finished /\ Owed(s.defers, "closeSession"))

\* The report of the end comes behind every call that stops an emitter.
Ordered(s) ==
    /\ ReportedLast(s.defers)
    /\ s.at \in Early => \A c \in Emitters : ~Owed(s.defers, c)
    /\ s.at = "done" => s.defers = <<>>
    /\ s.terminal => /\ s.at \in Over /\ {"gate", "carrier"} \cap s.held = {}
                     /\ {"tunnel", "interface"} \cap s.held # {} => s.tripped

\* The carrier and the attempt of an end, and the record that releases them.
Released(s) ==
    /\ "carrier" \in s.held => ~s.finished /\ "attempt" \in s.held
    /\ s.at = "gateb" => "carrier" \in s.held
    /\ "authorization" \in s.held => "carrier" \in s.held
    /\ "attempt" \in s.held => "carrier" \in s.held \/ (s.finish = "none" /\ s.err)
    /\ "burned" \in s.held /\ "attempt" \notin s.held => s.finish # "none"

\* How far an end has come.
Stage(s) ==
    /\ s.tripped => s.err
    /\ s.err => s.at \in Over
    /\ s.at \in Over => s.err \/ s.finished
    /\ s.at \in FinishRecorded => s.finish = "success" /\ "authorization" \notin s.held
    /\ s.at \in Carried => s.finished
    /\ s.finished => s.at \in Carried \cup Over /\ s.finish = "success" /\ s.carrier = "closed"
    /\ s.ready => s.finished
    /\ s.at \in Early \cup {"stream"} => s.carrier = "none"

Sound(s) == Owes(s) /\ Ordered(s) /\ Released(s) /\ Stage(s)

\* What one end may conclude of the other's record.
Confirmed(i, r, net) ==
    /\ "F" \in net["i"] => r.finish = "success"
    /\ "response" \in net["i"] => r.finish = "success"
    /\ "request" \in net["r"] => i.finish = "success"
    /\ r.sent => i.finish = "success"
    /\ i.at \in {"record"} \cup FinishRecorded => r.finish = "success"
    /\ i.finish = "success" => r.finish = "success"
    /\ i.ready \/ r.ready => i.finish = "success"

\* A run in which nothing has gone wrong: the initiator ends the carrier first,
\* and the responder has recorded by then.
Smooth(s) == ~s.err /\ (s.cancelled => s.ready) /\ (s.active \/ s.finished) /\ (s.carrier = "closed" => s.finished)
Clean(i, r) ==
    /\ Smooth(i) /\ Smooth(r)
    /\ i.carrier \notin {"eof", "broken"} /\ r.carrier # "broken"
    /\ r.carrier \in {"eof", "closed"} => i.carrier = "closed"

RunIInv ==
    /\ RunTypeOK
    /\ \A e \in Ends : Sound(grEnd[e])
    /\ Confirmed(grEnd["i"], grEnd["r"], grNet)
    /\ grCauses = {} => Clean(grEnd["i"], grEnd["r"])

----------------------------------------------------------------------------
(* Deferred calls.                                                         *)

\* Taking the first deferred call leaves the others owed, in their order.
LEMMA TakeFirst ==
    ASSUME NEW d \in Seq(Calls), d # <<>>
    PROVE  /\ Tail(d) \in Seq(Calls) /\ Head(d) \in Calls
           /\ \A c \in Calls : Owed(d, c) <=> c = Head(d) \/ Owed(Tail(d), c)
           /\ ReportedLast(d) => ReportedLast(Tail(d))
           /\ ReportedLast(d) /\ Head(d) = "terminal" => \A c \in Emitters : ~Owed(Tail(d), c)
<1>1. /\ Len(d) \in Nat /\ Len(d) >= 1 /\ Tail(d) \in Seq(Calls) /\ Head(d) \in Calls /\ Head(d) = d[1]
      /\ Len(Tail(d)) = Len(d) - 1 /\ \A k \in 1..(Len(d) - 1) : Tail(d)[k] = d[k + 1]
  BY SMT
<1>2. ASSUME NEW c \in Calls PROVE Owed(d, c) <=> c = Head(d) \/ Owed(Tail(d), c)
  <2>1. ASSUME Owed(d, c), c # Head(d) PROVE Owed(Tail(d), c)
    <3>1. PICK k \in 1..Len(d) : d[k] = c BY <2>1 DEF Owed
    <3>2. k - 1 \in 1..Len(Tail(d)) /\ Tail(d)[k - 1] = c BY <1>1, <2>1, <3>1, SMT
    <3>3. QED BY <3>2 DEF Owed
  <2>2. ASSUME Owed(Tail(d), c) PROVE Owed(d, c)
    <3>1. PICK k \in 1..Len(Tail(d)) : Tail(d)[k] = c BY <2>2 DEF Owed
    <3>2. k + 1 \in 1..Len(d) /\ d[k + 1] = c BY <1>1, <3>1, SMT
    <3>3. QED BY <3>2 DEF Owed
  <2>3. c = Head(d) => Owed(d, c)
    <3>1. 1 \in 1..Len(d) BY <1>1, SMT
    <3>2. QED BY <1>1, <3>1 DEF Owed
  <2>4. QED BY <2>1, <2>2, <2>3
<1>3. ASSUME ReportedLast(d) PROVE ReportedLast(Tail(d))
  <2>1. SUFFICES ASSUME NEW j \in 1..Len(Tail(d)), NEW k \in 1..Len(Tail(d)), j < k, Tail(d)[j] = "terminal"
                 PROVE  Tail(d)[k] \notin Emitters
    BY DEF ReportedLast
  <2>2. j + 1 \in 1..Len(d) /\ k + 1 \in 1..Len(d) /\ j + 1 < k + 1 /\ d[j + 1] = "terminal" /\ Tail(d)[k] = d[k + 1]
    BY <1>1, <2>1, SMT
  <2>3. QED BY <1>3, <2>2 DEF ReportedLast
<1>4. ASSUME ReportedLast(d), Head(d) = "terminal", NEW c \in Emitters, Owed(Tail(d), c) PROVE FALSE
  <2>1. PICK k \in 1..Len(Tail(d)) : Tail(d)[k] = c BY <1>4 DEF Owed
  <2>2. 1 \in 1..Len(d) /\ k + 1 \in 1..Len(d) /\ 1 < k + 1 /\ d[1] = "terminal" /\ d[k + 1] = c
    BY <1>1, <1>4, <2>1, SMT
  <2>3. QED BY <1>4, <2>2 DEF ReportedLast
<1>5. QED BY <1>1, <1>2, <1>3, <1>4

\* A deferred call pushed in front of the others.
LEMMA PushOne ==
    ASSUME NEW d \in Seq(Calls), NEW b \in Calls
    PROVE  /\ <<b>> \o d \in Seq(Calls)
           /\ \A c \in Calls : Owed(<<b>> \o d, c) <=> c = b \/ Owed(d, c)
           /\ ReportedLast(d) /\ (b = "terminal" => \A c \in Emitters : ~Owed(d, c))
                => ReportedLast(<<b>> \o d)
<1> DEFINE f == <<b>> \o d
<1>1. /\ f \in Seq(Calls) /\ Len(d) \in Nat /\ Len(f) = Len(d) + 1 /\ f[1] = b
      /\ \A k \in 1..Len(d) : f[k + 1] = d[k]
  BY SMT
<1> HIDE DEF f
<1>2. ASSUME NEW c \in Calls PROVE Owed(f, c) <=> c = b \/ Owed(d, c)
  <2>1. ASSUME Owed(f, c), c # b PROVE Owed(d, c)
    <3>1. PICK k \in 1..Len(f) : f[k] = c BY <2>1 DEF Owed
    <3>2. k - 1 \in 1..Len(d) /\ d[k - 1] = c BY <1>1, <2>1, <3>1, SMT
    <3>3. QED BY <3>2 DEF Owed
  <2>2. ASSUME Owed(d, c) PROVE Owed(f, c)
    <3>1. PICK k \in 1..Len(d) : d[k] = c BY <2>2 DEF Owed
    <3>2. k + 1 \in 1..Len(f) /\ f[k + 1] = c BY <1>1, <3>1, SMT
    <3>3. QED BY <3>2 DEF Owed
  <2>3. c = b => Owed(f, c)
    <3>1. 1 \in 1..Len(f) BY <1>1, SMT
    <3>2. QED BY <1>1, <3>1 DEF Owed
  <2>4. QED BY <2>1, <2>2, <2>3
<1>3. ASSUME ReportedLast(d), b = "terminal" => \A c \in Emitters : ~Owed(d, c) PROVE ReportedLast(f)
  <2>1. SUFFICES ASSUME NEW j \in 1..Len(f), NEW k \in 1..Len(f), j < k, f[j] = "terminal", f[k] \in Emitters PROVE FALSE
    BY DEF ReportedLast
  <2>2. k - 1 \in 1..Len(d) /\ f[k] = d[k - 1] BY <1>1, <2>1, SMT
  <2>3. CASE j = 1
    <3>1. b = "terminal" /\ Owed(d, f[k]) BY <1>1, <2>1, <2>2, <2>3 DEF Owed
    <3>2. QED BY <1>3, <2>1, <3>1
  <2>4. CASE j # 1
    <3>1. j - 1 \in 1..Len(d) /\ j - 1 < k - 1 /\ d[j - 1] = "terminal" BY <1>1, <2>1, <2>4, SMT
    <3>2. QED BY <1>3, <2>1, <2>2, <3>1 DEF ReportedLast
  <2>5. QED BY <2>3, <2>4
<1>4. QED BY <1>1, <1>2, <1>3 DEF f

\* Two deferred calls at once are two pushes, none is none.
LEMMA PushTwo ==
    ASSUME NEW d \in Seq(Calls), NEW a \in Calls, NEW b \in Calls
    PROVE  <<a, b>> \o d = <<a>> \o (<<b>> \o d) /\ <<>> \o d = d
<1>1. <<>> \o d = d BY ConcatEmptySeq
<1>2. <<a, b>> \o d = <<a>> \o (<<b>> \o d)
  <2>1. <<a>> \o <<b>> = <<a, b>>
    <3>1. <<a>> \o <<b>> \in Seq(Calls) /\ <<a, b>> \in Seq(Calls) BY SMT
    <3>2. Len(<<a>> \o <<b>>) = 2 /\ Len(<<a, b>>) = 2 BY SMT
    <3>3. \A k \in 1..2 : (<<a>> \o <<b>>)[k] = <<a, b>>[k] BY SMT
    <3>4. QED BY <3>1, <3>2, <3>3, SeqEqual
  <2>2. <<a>> \in Seq(Calls) /\ <<b>> \in Seq(Calls) BY SMT
  <2>3. (<<a>> \o <<b>>) \o d = <<a>> \o (<<b>> \o d) BY <2>2, ConcatAssociative
  <2>4. QED BY <2>1, <2>3
<1>3. QED BY <1>1, <1>2

----------------------------------------------------------------------------
(* Steps of one end.                                                       *)

\* A call that passed.
LEMMA PassSound ==
    ASSUME NEW s \in States, Sound(s), NEW next \in Ats, NEW calls \in Seq(Calls),
           NEW got \in SUBSET {"machine", "ownership", "tunnel", "interface"},
           s.at \notin Over \cup {"gateb"}, next \notin Over \cup {"gateb"},
           next \in FinishRecorded => s.at \in FinishRecorded, next \in Carried <=> s.at \in Carried,
           next \in Early \cup {"stream"} => s.at \in Early \cup {"stream"},
           calls \o s.defers \in Seq(Calls), ReportedLast(calls \o s.defers),
           \A c \in Calls : Owed(s.defers, c) => Owed(calls \o s.defers, c),
           \A x \in got : Owed(calls \o s.defers, x),
           next \in Early => \A c \in Emitters : ~Owed(calls \o s.defers, c)
    PROVE  Pass(s, next, calls, got) \in States /\ Sound(Pass(s, next, calls, got))
<1> DEFINE t == Pass(s, next, calls, got)
<1>1. /\ t \in States /\ t.at = next /\ t.defers = calls \o s.defers /\ t.held = s.held \cup got
      /\ t.carrier = s.carrier /\ t.finish = s.finish /\ t.finished = s.finished /\ t.err = s.err
      /\ t.tripped = s.tripped /\ t.ready = s.ready /\ t.terminal = s.terminal
  BY DEF Pass, States, Things, Calls, Emitters
<1> HIDE DEF t
<1>2. Owes(t) BY <1>1 DEF Sound, Owes, Calls, Emitters
<1>3. Ordered(t) BY <1>1 DEF Sound, Ordered, Stage, Over
<1>4. Released(t) BY <1>1 DEF Sound, Released
<1>5. Stage(t) BY <1>1 DEF Sound, Stage, Over, FinishRecorded, Carried, Early
<1>6. QED BY <1>1, <1>2, <1>3, <1>4, <1>5 DEF Sound, t

\* An early return with an error: what is held is still owed its call.
LEMMA FailSound ==
    ASSUME NEW s \in States, Sound(s), s.at # "gateb"
    PROVE  failRun(s) \in States /\ Sound(failRun(s))
<1> DEFINE t == failRun(s)
<1>1. /\ t \in States /\ t.at = "unwind" /\ t.defers = s.defers /\ t.held = s.held
      /\ t.carrier = s.carrier /\ t.finish = s.finish /\ t.finished = s.finished /\ t.err = TRUE
      /\ t.tripped = s.tripped /\ t.ready = s.ready /\ t.terminal = s.terminal
  BY DEF States, Things, Ats, Over, FinishRecorded, Carried, Binding, Early, failRun
<1> HIDE DEF t
<1>2. Owes(t) BY <1>1 DEF Sound, Owes
<1>3. Ordered(t) BY <1>1 DEF Sound, Ordered, Stage, Over, Early
<1>4. Released(t) BY <1>1 DEF Sound, Released, Stage, Over
<1>5. Stage(t) BY <1>1 DEF Sound, Stage, Over, FinishRecorded, Carried, Early, Binding
<1>6. QED BY <1>1, <1>2, <1>3, <1>4, <1>5 DEF Sound, t

\* A step that only goes on, before FINISH is recorded or after.
LEMMA MoveSound ==
    ASSUME NEW s \in States, Sound(s), NEW next \in Ats,
           (next \in Binding /\ s.at \in Binding) \/ (next = "release" /\ s.at = "activate")
    PROVE  [s EXCEPT !.at = next] \in States /\ Sound([s EXCEPT !.at = next])
<1> DEFINE t == [s EXCEPT !.at = next]
<1>1. /\ t \in States /\ t.at = next /\ t.defers = s.defers /\ t.held = s.held
      /\ t.carrier = s.carrier /\ t.finish = s.finish /\ t.finished = s.finished /\ t.err = s.err
      /\ t.tripped = s.tripped /\ t.ready = s.ready /\ t.terminal = s.terminal
  BY DEF States, Things, Ats, Over, FinishRecorded, Carried, Binding, Early
<1> HIDE DEF t
<1>2. Owes(t) BY <1>1 DEF Sound, Owes, Binding
<1>3. Ordered(t) BY <1>1 DEF Sound, Ordered, Stage, Over, Binding, Early
<1>4. Released(t) BY <1>1 DEF Sound, Released, Stage, Over, Binding
<1>5. Stage(t) BY <1>1 DEF Sound, Stage, Over, FinishRecorded, Carried, Early, Binding
<1>6. QED BY <1>1, <1>2, <1>3, <1>4, <1>5 DEF Sound, t

\* The carrier is opened under the attempt's lease.
LEMMA StreamSound ==
    ASSUME NEW s \in States, Sound(s), s.at = "stream"
    PROVE  LET t == [s EXCEPT !.at = "gateb", !.carrier = "open", !.held = @ \cup {"attempt", "carrier"}]
           IN  t \in States /\ Sound(t)
<1> DEFINE t == [s EXCEPT !.at = "gateb", !.carrier = "open", !.held = @ \cup {"attempt", "carrier"}]
<1>1. /\ t \in States /\ t.at = "gateb" /\ t.defers = s.defers
      /\ t.held = s.held \cup {"attempt", "carrier"} /\ t.carrier = "open" /\ t.finish = s.finish
      /\ t.finished = s.finished /\ t.err = s.err /\ t.tripped = s.tripped /\ t.ready = s.ready
      /\ t.terminal = s.terminal
  BY DEF States, Things, Ats, Over, FinishRecorded, Carried, Binding, Early
<1> HIDE DEF t
<1>2. Owes(t) BY <1>1 DEF Sound, Owes
<1>3. Ordered(t) BY <1>1 DEF Sound, Ordered, Stage, Over, Early
<1>4. Released(t) BY <1>1 DEF Sound, Released, Stage, Over
<1>5. Stage(t) BY <1>1 DEF Sound, Stage, Over, FinishRecorded, Carried, Early, Binding
<1>6. QED BY <1>1, <1>2, <1>3, <1>4, <1>5 DEF Sound, t

\* The burn of the credential, with the authorization that follows it.
LEMMA BurnSound ==
    ASSUME NEW s \in States, Sound(s), s.at = "gateb"
    PROVE  LET t == [s EXCEPT !.held = @ \cup {"authorization", "burned"}]
           IN  t \in States /\ Sound(t)
<1> DEFINE t == [s EXCEPT !.held = @ \cup {"authorization", "burned"}]
<1>1. /\ t \in States /\ t.at = s.at /\ t.defers = s.defers
      /\ t.held = s.held \cup {"authorization", "burned"} /\ t.carrier = s.carrier
      /\ t.finish = s.finish /\ t.finished = s.finished /\ t.err = s.err /\ t.tripped = s.tripped
      /\ t.ready = s.ready /\ t.terminal = s.terminal
  BY DEF States, Things, Ats, Over, FinishRecorded, Carried, Binding, Early
<1> HIDE DEF t
<1>2. Owes(t) BY <1>1 DEF Sound, Owes
<1>3. Ordered(t) BY <1>1 DEF Sound, Ordered, Stage, Over, Early
<1>4. Released(t) BY <1>1 DEF Sound, Released, Stage, Over, Carried
<1>5. Stage(t) BY <1>1 DEF Sound, Stage, Over, FinishRecorded, Carried, Early, Binding
<1>6. QED BY <1>1, <1>2, <1>3, <1>4, <1>5 DEF Sound, t

\* The authorization is used up by the record, written or not.
LEMMA LetGoSound ==
    ASSUME NEW s \in States, Sound(s)
    PROVE  LET t == [s EXCEPT !.held = @ \ {"authorization"}]
           IN  t \in States /\ Sound(t)
<1> DEFINE t == [s EXCEPT !.held = @ \ {"authorization"}]
<1>1. /\ t \in States /\ t.at = s.at /\ t.defers = s.defers /\ t.held = s.held \ {"authorization"}
      /\ t.carrier = s.carrier /\ t.finish = s.finish /\ t.finished = s.finished /\ t.err = s.err
      /\ t.tripped = s.tripped /\ t.ready = s.ready /\ t.terminal = s.terminal
  BY DEF States, Things, Ats, Over, FinishRecorded, Carried, Binding, Early
<1> HIDE DEF t
<1>2. Owes(t) BY <1>1 DEF Sound, Owes
<1>3. Ordered(t) BY <1>1 DEF Sound, Ordered, Stage, Over
<1>4. Released(t) BY <1>1 DEF Sound, Released, Stage, Over
<1>5. Stage(t) BY <1>1 DEF Sound, Stage, Over, FinishRecorded, Carried, Early, Binding
<1>6. QED BY <1>1, <1>2, <1>3, <1>4, <1>5 DEF Sound, t

\* Gate B hands over its gate, with the abort deferred.
LEMMA GateSound ==
    ASSUME NEW s \in States, Sound(s), s.at = "gateb"
    PROVE  LET t == Pass(s, "interface", <<"abort">>, {"gate"}) IN t \in States /\ Sound(t)
<1> DEFINE t == Pass(s, "interface", <<"abort">>, {"gate"})
<1> DEFINE d == <<"abort">> \o s.defers
<1>1. s.defers \in Seq(Calls) /\ "abort" \in Calls BY DEF States, Calls, Emitters
<1>2. d \in Seq(Calls) /\ (\A c \in Calls : Owed(d, c) <=> c = "abort" \/ Owed(s.defers, c)) /\ ReportedLast(d)
  BY <1>1, PushOne DEF Sound, Ordered
<1>3. /\ t \in States /\ t.at = "interface" /\ t.defers = d /\ t.held = s.held \cup {"gate"}
      /\ t.carrier = s.carrier /\ t.finish = s.finish /\ t.finished = s.finished /\ t.err = s.err
      /\ t.tripped = s.tripped /\ t.ready = s.ready /\ t.terminal = s.terminal
  BY <1>2 DEF Pass, States, Things, Ats, Binding
<1> HIDE DEF t, d
<1>4. Owes(t) BY <1>2, <1>3 DEF Sound, Owes, Released, Calls, Emitters
<1>5. Ordered(t) BY <1>2, <1>3 DEF Sound, Ordered, Early, Over
<1>6. Released(t) BY <1>3 DEF Sound, Released
<1>7. Stage(t) BY <1>3 DEF Sound, Stage, Over, FinishRecorded, Carried, Early
<1>8. QED BY <1>3, <1>4, <1>5, <1>6, <1>7 DEF Sound, t

\* What cleanup leaves of an end.
Cleaned(s, t) ==
    /\ t.at = s.at /\ t.defers = s.defers /\ t.carrier = "closed" /\ t.active = FALSE
    /\ t.finished = s.finished /\ t.err = s.err /\ t.tripped = s.tripped /\ t.ready = s.ready
    /\ t.terminal = s.terminal /\ t.sent = s.sent /\ t.cancelled = s.cancelled
    /\ t.finish = s.finish \/ (s.finish = "none" /\ t.finish = "failed")
    /\ \A x \in Things : x \in t.held <=>
           /\ x \in s.held /\ x \notin {"authorization", "carrier", "gate"}
           /\ x = "attempt" => t.finish = "none" /\ "burned" \in s.held

\* cleanup leaves that.
LEMMA CleanupFields ==
    ASSUME NEW s \in States, NEW ok \in BOOLEAN
    PROVE  cleanup(s, ok) \in States /\ Cleaned(s, cleanup(s, ok))
<1> DEFINE f == IF s.finish = "none" /\ "authorization" \in s.held /\ ok THEN "failed" ELSE s.finish
<1> DEFINE spent == {"authorization", "carrier", "gate"}
                      \cup (IF f # "none" \/ "burned" \notin s.held THEN {"attempt"} ELSE {})
<1> DEFINE t == [s EXCEPT !.finish = f, !.carrier = "closed", !.active = FALSE, !.held = @ \ spent]
<1>1. f \in {"none", "failed", "success"} /\ (f = s.finish \/ (s.finish = "none" /\ f = "failed")) BY DEF States
<1>2. \A x : x \in spent <=> \/ x \in {"authorization", "carrier", "gate"}
                            \/ (x = "attempt" /\ (f # "none" \/ "burned" \notin s.held))
  OBVIOUS
<1>3. cleanup(s, ok) = t BY DEF cleanup
<1> HIDE DEF f, spent
<1>4. /\ t \in States /\ t.at = s.at /\ t.defers = s.defers /\ t.carrier = "closed" /\ t.active = FALSE
      /\ t.finished = s.finished /\ t.err = s.err /\ t.tripped = s.tripped /\ t.ready = s.ready
      /\ t.terminal = s.terminal /\ t.sent = s.sent /\ t.cancelled = s.cancelled
      /\ t.finish = f /\ t.held = s.held \ spent
  BY <1>1 DEF States
<1> HIDE DEF t
<1>5. QED BY <1>1, <1>2, <1>3, <1>4 DEF Cleaned

\* An end that failed and cleaned up after itself.
LEMMA CleanSound ==
    ASSUME NEW s \in States, Sound(s), NEW c \in States, Cleaned(s, c), NEW t \in States, s.at # "done",
           t = failRun(c) \/ (s.at = "unwind" /\ t = [c EXCEPT !.err = TRUE])
    PROVE  Sound(t)
<1>2. t = failRun(c) \/ (c.at = "unwind" /\ t = [c EXCEPT !.err = TRUE]) BY DEF Cleaned
<1>3. /\ t.at = "unwind" /\ t.defers = c.defers /\ t.held = c.held /\ t.carrier = c.carrier
      /\ t.finish = c.finish
      /\ t.finished = c.finished /\ t.err = TRUE /\ t.tripped = c.tripped /\ t.ready = c.ready
      /\ t.terminal = c.terminal
  <2>1. CASE t = failRun(c) BY ONLY <2>1, c \in States DEF failRun, States
  <2>2. CASE c.at = "unwind" /\ t = [c EXCEPT !.err = TRUE] BY ONLY <2>2, c \in States DEF States
  <2>3. QED BY <1>2, <2>1, <2>2
<1>4. Owes(t) BY <1>3 DEF Sound, Owes, Cleaned, Things
<1>5. Ordered(t) BY <1>3 DEF Sound, Ordered, Over, Early, Cleaned, Things
<1>6. Released(t) BY <1>3 DEF Sound, Released, Cleaned, Things
<1>7. Stage(t) BY <1>3 DEF Sound, Stage, Over, FinishRecorded, Carried, Early, Cleaned
<1>8. QED BY <1>4, <1>5, <1>6, <1>7 DEF Sound

\* FINISH is durable.
LEMMA RecordSound ==
    ASSUME NEW s \in States, Sound(s), s.at = "record"
    PROVE  LET t == [s EXCEPT !.finish = "success", !.held = @ \ {"authorization"}, !.at = "activate"]
           IN  t \in States /\ Sound(t)
<1> DEFINE t == [s EXCEPT !.finish = "success", !.held = @ \ {"authorization"}, !.at = "activate"]
<1>1. /\ t \in States /\ t.at = "activate" /\ t.defers = s.defers
      /\ t.held = s.held \ {"authorization"} /\ t.carrier = s.carrier /\ t.finish = "success"
      /\ t.finished = s.finished /\ t.err = s.err /\ t.tripped = s.tripped /\ t.ready = s.ready
      /\ t.terminal = s.terminal
  BY DEF States, Things, Ats, Over, FinishRecorded, Carried, Binding, Early
<1> HIDE DEF t
<1>2. Owes(t) BY <1>1 DEF Sound, Owes
<1>3. Ordered(t) BY <1>1 DEF Sound, Ordered, Stage, Over, Early
<1>4. Released(t) BY <1>1 DEF Sound, Released, Stage, Over
<1>5. Stage(t) BY <1>1 DEF Sound, Stage, Over, FinishRecorded, Carried, Early, Binding
<1>6. QED BY <1>1, <1>2, <1>3, <1>4, <1>5 DEF Sound, t

\* The attempt and the carrier are given back when the establishment is over.
LEMMA GoneSound ==
    ASSUME NEW s \in States, Sound(s), s.at = "release"
    PROVE  LET t == [s EXCEPT !.carrier = "closed", !.active = FALSE, !.held = @ \ {"attempt", "carrier", "gate"},
                                !.at = "unwind", !.err = TRUE]
           IN  t \in States /\ Sound(t)
<1> DEFINE t == [s EXCEPT !.carrier = "closed", !.active = FALSE, !.held = @ \ {"attempt", "carrier", "gate"},
                                !.at = "unwind", !.err = TRUE]
<1>1. /\ t \in States /\ t.at = "unwind" /\ t.defers = s.defers
      /\ t.held = s.held \ {"attempt", "carrier", "gate"} /\ t.carrier = "closed"
      /\ t.finish = s.finish /\ t.finished = s.finished /\ t.err = TRUE /\ t.tripped = s.tripped
      /\ t.ready = s.ready /\ t.terminal = s.terminal
  BY DEF States, Things, Ats, Over, FinishRecorded, Carried, Binding, Early
<1> HIDE DEF t
<1>2. Owes(t) BY <1>1 DEF Sound, Owes
<1>3. Ordered(t) BY <1>1 DEF Sound, Ordered, Stage, Over, Early
<1>4. Released(t) BY <1>1 DEF Sound, Released, Stage, Over, FinishRecorded
<1>5. Stage(t) BY <1>1 DEF Sound, Stage, Over, FinishRecorded, Carried, Early, Binding
<1>6. QED BY <1>1, <1>2, <1>3, <1>4, <1>5 DEF Sound, t

\* The carrier ends by itself.
LEMMA EndSound ==
    ASSUME NEW s \in States, Sound(s), s.carrier = "open", NEW c \in {"eof", "broken"}
    PROVE  [s EXCEPT !.carrier = c] \in States /\ Sound([s EXCEPT !.carrier = c])
<1> DEFINE t == [s EXCEPT !.carrier = c]
<1>1. /\ t \in States /\ t.at = s.at /\ t.defers = s.defers /\ t.held = s.held /\ t.carrier = c
      /\ t.finish = s.finish /\ t.finished = s.finished /\ t.err = s.err /\ t.tripped = s.tripped
      /\ t.ready = s.ready /\ t.terminal = s.terminal
  BY DEF States, Things, Ats, Over, FinishRecorded, Carried, Binding, Early
<1> HIDE DEF t
<1>2. Owes(t) BY <1>1 DEF Sound, Owes
<1>3. Ordered(t) BY <1>1 DEF Sound, Ordered, Stage, Over
<1>4. Released(t) BY <1>1 DEF Sound, Released, Stage, Over
<1>5. Stage(t) BY <1>1 DEF Sound, Stage, Over, FinishRecorded, Carried, Early, Binding
<1>6. QED BY <1>1, <1>2, <1>3, <1>4, <1>5 DEF Sound, t

\* What does not change the course of an end.
LEMMA SameSound ==
    ASSUME NEW s \in States, Sound(s), NEW t \in States, t.at = s.at, t.defers = s.defers, t.held = s.held,
           t.carrier = s.carrier, t.finish = s.finish, t.finished = s.finished, t.err = s.err,
           t.tripped = s.tripped, t.ready = s.ready, t.terminal = s.terminal
    PROVE  Sound(t)
<1>1. Owes(t) BY DEF Sound, Owes
<1>2. Ordered(t) BY DEF Sound, Ordered
<1>3. Released(t) BY DEF Sound, Released
<1>4. Stage(t) BY DEF Sound, Stage
<1>5. QED BY <1>1, <1>2, <1>3, <1>4 DEF Sound

\* Something is given back, by its deferred call or ahead of it.
LEMMA ShutSound ==
    ASSUME NEW s \in States, Sound(s), NEW x \in {"gate", "interface", "tunnel", "ownership", "machine"}
    PROVE  [s EXCEPT !.held = @ \ {x}] \in States /\ Sound([s EXCEPT !.held = @ \ {x}])
<1> DEFINE t == [s EXCEPT !.held = @ \ {x}]
<1>1. /\ t \in States /\ t.at = s.at /\ t.defers = s.defers /\ t.held = s.held \ {x}
      /\ t.carrier = s.carrier /\ t.finish = s.finish /\ t.finished = s.finished /\ t.err = s.err
      /\ t.tripped = s.tripped /\ t.ready = s.ready /\ t.terminal = s.terminal
  BY DEF States, Things, Ats, Over, FinishRecorded, Carried, Binding, Early
<1> HIDE DEF t
<1>2. Owes(t) BY <1>1 DEF Sound, Owes
<1>3. Ordered(t) BY <1>1 DEF Sound, Ordered, Stage, Over
<1>4. Released(t) BY <1>1 DEF Sound, Released, Stage, Over
<1>5. Stage(t) BY <1>1 DEF Sound, Stage, Over, FinishRecorded, Carried, Early, Binding
<1>6. QED BY <1>1, <1>2, <1>3, <1>4, <1>5 DEF Sound, t

\* A drain that failed trips the machine on an early return.
LEMMA TripSound ==
    ASSUME NEW s \in States, Sound(s), s.at # "gateb"
    PROVE  LET t == failRun(sessionDrainFailure(s))
           IN  t \in States /\ Sound(t)
<1> DEFINE t == failRun(sessionDrainFailure(s))
<1>1. /\ t \in States /\ t.at = "unwind" /\ t.defers = s.defers /\ t.held = s.held
      /\ t.carrier = s.carrier /\ t.finish = s.finish /\ t.finished = s.finished /\ t.err = TRUE
      /\ t.tripped = TRUE /\ t.ready = s.ready /\ t.terminal = s.terminal
  BY DEF States, Things, Ats, Over, FinishRecorded, Carried, Binding, Early, failRun, sessionDrainFailure
<1> HIDE DEF t
<1>2. Owes(t) BY <1>1 DEF Sound, Owes
<1>3. Ordered(t) BY <1>1 DEF Sound, Ordered, Stage, Over, Early
<1>4. Released(t) BY <1>1 DEF Sound, Released, Stage, Over
<1>5. Stage(t) BY <1>1 DEF Sound, Stage, Over, FinishRecorded, Carried, Early, Binding
<1>6. QED BY <1>1, <1>2, <1>3, <1>4, <1>5 DEF Sound, t

\* A drain that failed trips the machine while the run unwinds.
LEMMA UnwindTripSound ==
    ASSUME NEW s \in States, Sound(s), s.at = "unwind"
    PROVE  sessionDrainFailure(s) \in States /\ Sound(sessionDrainFailure(s))
<1> DEFINE t == sessionDrainFailure(s)
<1>1. /\ t \in States /\ t.at = s.at /\ t.defers = s.defers /\ t.held = s.held
      /\ t.carrier = s.carrier /\ t.finish = s.finish /\ t.finished = s.finished /\ t.err = TRUE
      /\ t.tripped = TRUE /\ t.ready = s.ready /\ t.terminal = s.terminal
  BY DEF States, Things, Ats, Over, FinishRecorded, Carried, Binding, Early, sessionDrainFailure
<1> HIDE DEF t
<1>2. Owes(t) BY <1>1 DEF Sound, Owes
<1>3. Ordered(t) BY <1>1 DEF Sound, Ordered, Stage, Over, Early
<1>4. Released(t) BY <1>1 DEF Sound, Released, Stage, Over
<1>5. Stage(t) BY <1>1 DEF Sound, Stage, Over, FinishRecorded, Carried, Early, Binding
<1>6. QED BY <1>1, <1>2, <1>3, <1>4, <1>5 DEF Sound, t

\* The session ends, and its explicit close unwinds the run.
LEMMA OverSound ==
    ASSUME NEW s \in States, Sound(s), NEW x \in SUBSET {"interface", "gate"}, NEW next \in {"close", "unwind"},
           (s.at = "session" /\ next = "close") \/ (s.at = "close" /\ next = "unwind")
    PROVE  LET t == [s EXCEPT !.at = next, !.held = @ \ x]
           IN  t \in States /\ Sound(t)
<1> DEFINE t == [s EXCEPT !.at = next, !.held = @ \ x]
<1>1. /\ t \in States /\ t.at = next /\ t.defers = s.defers /\ t.held = s.held \ x
      /\ t.carrier = s.carrier /\ t.finish = s.finish /\ t.finished = s.finished /\ t.err = s.err
      /\ t.tripped = s.tripped /\ t.ready = s.ready /\ t.terminal = s.terminal
  BY DEF States, Things, Ats, Over, FinishRecorded, Carried, Binding, Early
<1> HIDE DEF t
<1>2. Owes(t) BY <1>1 DEF Sound, Owes
<1>3. Ordered(t) BY <1>1 DEF Sound, Ordered, Stage, Over, Early
<1>4. Released(t) BY <1>1 DEF Sound, Released, Stage, Over
<1>5. Stage(t) BY <1>1 DEF Sound, Stage, Over, FinishRecorded, Carried, Early, Binding
<1>6. QED BY <1>1, <1>2, <1>3, <1>4, <1>5 DEF Sound, t

\* An error of a deferred call.
LEMMA ErrSound ==
    ASSUME NEW s \in States, Sound(s), s.at = "unwind"
    PROVE  [s EXCEPT !.err = TRUE] \in States /\ Sound([s EXCEPT !.err = TRUE])
<1> DEFINE t == [s EXCEPT !.err = TRUE]
<1>1. /\ t \in States /\ t.at = s.at /\ t.defers = s.defers /\ t.held = s.held
      /\ t.carrier = s.carrier /\ t.finish = s.finish /\ t.finished = s.finished /\ t.err = TRUE
      /\ t.tripped = s.tripped /\ t.ready = s.ready /\ t.terminal = s.terminal
  BY DEF States, Things, Ats, Over, FinishRecorded, Carried, Binding, Early
<1> HIDE DEF t
<1>2. Owes(t) BY <1>1 DEF Sound, Owes
<1>3. Ordered(t) BY <1>1 DEF Sound, Ordered, Stage, Over, Early
<1>4. Released(t) BY <1>1 DEF Sound, Released, Stage, Over
<1>5. Stage(t) BY <1>1 DEF Sound, Stage, Over, FinishRecorded, Carried, Early, Binding
<1>6. QED BY <1>1, <1>2, <1>3, <1>4, <1>5 DEF Sound, t

\* The run returns.
LEMMA DoneSound ==
    ASSUME NEW s \in States, Sound(s), s.at = "unwind", s.defers = <<>>
    PROVE  [s EXCEPT !.at = "done"] \in States /\ Sound([s EXCEPT !.at = "done"])
<1> DEFINE t == [s EXCEPT !.at = "done"]
<1>1. /\ t \in States /\ t.at = "done" /\ t.defers = s.defers /\ t.held = s.held
      /\ t.carrier = s.carrier /\ t.finish = s.finish /\ t.finished = s.finished /\ t.err = s.err
      /\ t.tripped = s.tripped /\ t.ready = s.ready /\ t.terminal = s.terminal
  BY DEF States, Things, Ats, Over, FinishRecorded, Carried, Binding, Early
<1> HIDE DEF t
<1>2. Owes(t) BY <1>1 DEF Sound, Owes
<1>3. Ordered(t) BY <1>1 DEF Sound, Ordered, Stage, Over, Early
<1>4. Released(t) BY <1>1 DEF Sound, Released, Stage, Over
<1>5. Stage(t) BY <1>1 DEF Sound, Stage, Over, FinishRecorded, Carried, Early, Binding
<1>6. QED BY <1>1, <1>2, <1>3, <1>4, <1>5 DEF Sound, t

\* The carrier is released with the record durable: CloseSession is deferred from here.
LEMMA CarriedSound ==
    ASSUME NEW s \in States, Sound(s), s.at = "release"
    PROVE  LET t == [s EXCEPT !.carrier = "closed", !.active = FALSE, !.held = @ \ {"attempt", "carrier"},
                              !.at = "report", !.finished = TRUE, !.defers = <<"closeSession">> \o @]
           IN  t \in States /\ Sound(t)
<1> DEFINE t == [s EXCEPT !.carrier = "closed", !.active = FALSE, !.held = @ \ {"attempt", "carrier"},
                          !.at = "report", !.finished = TRUE, !.defers = <<"closeSession">> \o @]
<1> DEFINE d == <<"closeSession">> \o s.defers
<1>1. s.defers \in Seq(Calls) /\ "closeSession" \in Calls BY DEF States, Calls, Emitters
<1>2. d \in Seq(Calls) /\ (\A c \in Calls : Owed(d, c) <=> c = "closeSession" \/ Owed(s.defers, c)) /\ ReportedLast(d)
  BY <1>1, PushOne DEF Sound, Ordered
<1>3. /\ t \in States /\ t.at = "report" /\ t.defers = d /\ t.held = s.held \ {"attempt", "carrier"}
      /\ t.carrier = "closed" /\ t.finish = s.finish /\ t.finished = TRUE /\ t.err = s.err
      /\ t.tripped = s.tripped /\ t.ready = s.ready /\ t.terminal = s.terminal
  BY <1>2 DEF States, Ats, FinishRecorded, Carried
<1> HIDE DEF t, d
<1>4. Owes(t) BY <1>2, <1>3 DEF Sound, Owes, Calls, Emitters
<1>5. Ordered(t) BY <1>2, <1>3 DEF Sound, Ordered, Early, Over
<1>6. Released(t) BY <1>3 DEF Sound, Released, Stage, FinishRecorded
<1>7. Stage(t) BY <1>3 DEF Sound, Stage, Over, FinishRecorded, Carried, Early
<1>8. QED BY <1>3, <1>4, <1>5, <1>6, <1>7 DEF Sound, t

\* The echo has passed: the drain of the session is deferred.
LEMMA ReadySound ==
    ASSUME NEW s \in States, Sound(s), s.at = "echo"
    PROVE  LET t == [s EXCEPT !.at = "session", !.ready = TRUE, !.defers = <<"drain">> \o @]
           IN  t \in States /\ Sound(t)
<1> DEFINE t == [s EXCEPT !.at = "session", !.ready = TRUE, !.defers = <<"drain">> \o @]
<1> DEFINE d == <<"drain">> \o s.defers
<1>1. s.defers \in Seq(Calls) /\ "drain" \in Calls BY DEF States, Calls, Emitters
<1>2. d \in Seq(Calls) /\ (\A c \in Calls : Owed(d, c) <=> c = "drain" \/ Owed(s.defers, c)) /\ ReportedLast(d)
  BY <1>1, PushOne DEF Sound, Ordered
<1>3. /\ t \in States /\ t.at = "session" /\ t.defers = d /\ t.held = s.held
      /\ t.carrier = s.carrier /\ t.finish = s.finish /\ t.finished = s.finished /\ t.err = s.err
      /\ t.tripped = s.tripped /\ t.ready = TRUE /\ t.terminal = s.terminal
  BY <1>2 DEF States, Ats, FinishRecorded, Carried
<1> HIDE DEF t, d
<1>4. Owes(t) BY <1>2, <1>3 DEF Sound, Owes, Calls, Emitters
<1>5. Ordered(t) BY <1>2, <1>3 DEF Sound, Ordered, Early, Over
<1>6. Released(t) BY <1>3 DEF Sound, Released
<1>7. Stage(t) BY <1>3 DEF Sound, Stage, Over, FinishRecorded, Carried, Early
<1>8. QED BY <1>3, <1>4, <1>5, <1>6, <1>7 DEF Sound, t

\* t is u with one deferred call less.
Popped(u, t) ==
    /\ t.at = u.at /\ t.defers = Tail(u.defers) /\ t.held = u.held /\ t.carrier = u.carrier
    /\ t.finish = u.finish
    /\ t.finished = u.finished /\ t.err = u.err /\ t.tripped = u.tripped /\ t.ready = u.ready
    /\ t.terminal = u.terminal \/ Head(u.defers) = "terminal"

\* What the first deferred call gives back is not held any more.
GivenBack(u) ==
    LET h == Head(u.defers) IN
    /\ h = "machine" => "machine" \notin u.held
    /\ h = "ownership" => "ownership" \notin u.held
    /\ h = "tunnel" => u.tripped \/ "tunnel" \notin u.held
    /\ h = "interface" => u.tripped \/ "interface" \notin u.held
    /\ h = "abort" => "carrier" \notin u.held
    /\ h = "closeSession" => "gate" \notin u.held

\* A deferred call that did its work is taken off.
LEMMA PopSound ==
    ASSUME NEW u \in States, Sound(u), u.at = "unwind", u.defers # <<>>, NEW t \in States,
           Popped(u, t), GivenBack(u)
    PROVE  Sound(t)
<1>1. u.defers \in Seq(Calls) BY DEF States
<1>2. /\ Head(u.defers) \in Calls
      /\ \A c \in Calls : Owed(u.defers, c) <=> c = Head(u.defers) \/ Owed(t.defers, c)
      /\ ReportedLast(u.defers) => ReportedLast(t.defers)
      /\ ReportedLast(u.defers) /\ Head(u.defers) = "terminal" => \A c \in Emitters : ~Owed(t.defers, c)
  BY <1>1, TakeFirst DEF Popped
<1>3. Owes(t) BY <1>2 DEF Sound, Owes, Popped, GivenBack, Calls, Emitters
<1>4. Ordered(t)
  <2>1. CASE Head(u.defers) = "terminal"
    BY <1>2, <1>3, <2>1 DEF Sound, Owes, Ordered, Popped, Emitters, Early, Over
  <2>2. CASE Head(u.defers) # "terminal" BY <1>2, <2>2 DEF Sound, Ordered, Popped, Early, Over
  <2>3. QED BY <2>1, <2>2
<1>5. Released(t) BY DEF Sound, Released, Popped
<1>6. Stage(t) BY DEF Sound, Stage, Popped
<1>7. QED BY <1>3, <1>4, <1>5, <1>6 DEF Sound

\* Each deferred call, failed or not, leaves the run sound.
LEMMA DeferredSound ==
    ASSUME NEW s \in States, Sound(s), s.at = "unwind", s.defers # <<>>, NEW ok \in BOOLEAN
    PROVE  LET t == deferred([s EXCEPT !.defers = Tail(@)], Head(s.defers), ok)
           IN  t \in States /\ Sound(t)
<1> DEFINE h == Head(s.defers)
<1>1. PICK q \in States : q = [s EXCEPT !.defers = Tail(@)]
  <2>1. Tail(s.defers) \in Seq(Calls) BY TakeFirst DEF States
  <2>2. QED BY <2>1 DEF States
<1>2. /\ q.at = s.at /\ q.defers = Tail(s.defers) /\ q.held = s.held /\ q.carrier = s.carrier
      /\ q.finish = s.finish
      /\ q.finished = s.finished /\ q.err = s.err /\ q.tripped = s.tripped /\ q.ready = s.ready
      /\ q.terminal = s.terminal
  BY <1>1 DEF States
<1>3. h \in Calls BY TakeFirst DEF States
<1> SUFFICES deferred(q, h, ok) \in States /\ Sound(deferred(q, h, ok)) BY <1>1
<1> HIDE DEF h
<1>4. CASE h = "drain"
  <2>1. CASE ok
    <3>1. PICK u \in States : u = s /\ Sound(u) OBVIOUS
    <3>2. PICK t \in States : t = q BY DEF States, sessionDrainFailure
    <3>3. deferred(q, h, ok) = t BY <1>4, <2>1, <3>2 DEF deferred
    <3>4. Popped(u, t) BY <1>2, <1>4, <3>1, <3>2 DEF Popped, States, sessionDrainFailure, h
    <3>5. u.at = "unwind" /\ u.defers = s.defers /\ GivenBack(u)
      BY <1>4, <2>1, <3>1 DEF GivenBack, States, sessionDrainFailure, h
    <3>6. QED BY <3>1, <3>3, <3>4, <3>5, PopSound
  <2>2. CASE ~ok
    <3>1. PICK u \in States : u = sessionDrainFailure(s) /\ Sound(u) BY UnwindTripSound
    <3>2. PICK t \in States : t = sessionDrainFailure(q) BY DEF States, sessionDrainFailure
    <3>3. deferred(q, h, ok) = t BY <1>4, <2>2, <3>2 DEF deferred
    <3>4. Popped(u, t) BY <1>2, <1>4, <3>1, <3>2 DEF Popped, States, sessionDrainFailure, h
    <3>5. u.at = "unwind" /\ u.defers = s.defers /\ GivenBack(u)
      BY <1>4, <2>2, <3>1 DEF GivenBack, States, sessionDrainFailure, h
    <3>6. QED BY <3>1, <3>3, <3>4, <3>5, PopSound
  <2>3. QED BY <2>1, <2>2
<1>5. CASE h = "tunnel"
  <2>1. CASE ok
    <3>1. PICK u \in States : u = [s EXCEPT !.held = @ \ {"tunnel"}] /\ Sound(u) BY ShutSound
    <3>2. PICK t \in States : t = [q EXCEPT !.held = @ \ {"tunnel"}] BY DEF States, sessionDrainFailure
    <3>3. deferred(q, h, ok) = t BY <1>5, <2>1, <3>2 DEF deferred
    <3>4. Popped(u, t) BY <1>2, <1>5, <3>1, <3>2 DEF Popped, States, sessionDrainFailure, h
    <3>5. u.at = "unwind" /\ u.defers = s.defers /\ GivenBack(u)
      BY <1>5, <2>1, <3>1 DEF GivenBack, States, sessionDrainFailure, h
    <3>6. QED BY <3>1, <3>3, <3>4, <3>5, PopSound
  <2>2. CASE ~ok
    <3>1. PICK u \in States : u = sessionDrainFailure(s) /\ Sound(u) BY UnwindTripSound
    <3>2. PICK t \in States : t = sessionDrainFailure(q) BY DEF States, sessionDrainFailure
    <3>3. deferred(q, h, ok) = t BY <1>5, <2>2, <3>2 DEF deferred
    <3>4. Popped(u, t) BY <1>2, <1>5, <3>1, <3>2 DEF Popped, States, sessionDrainFailure, h
    <3>5. u.at = "unwind" /\ u.defers = s.defers /\ GivenBack(u)
      BY <1>5, <2>2, <3>1 DEF GivenBack, States, sessionDrainFailure, h
    <3>6. QED BY <3>1, <3>3, <3>4, <3>5, PopSound
  <2>3. QED BY <2>1, <2>2
<1>6. CASE h = "interface"
  <2>1. CASE ok
    <3>1. PICK u \in States : u = [s EXCEPT !.held = @ \ {"interface"}] /\ Sound(u) BY ShutSound
    <3>2. PICK t \in States : t = [q EXCEPT !.held = @ \ {"interface"}] BY DEF States, sessionDrainFailure
    <3>3. deferred(q, h, ok) = t BY <1>6, <2>1, <3>2 DEF deferred
    <3>4. Popped(u, t) BY <1>2, <1>6, <3>1, <3>2 DEF Popped, States, sessionDrainFailure, h
    <3>5. u.at = "unwind" /\ u.defers = s.defers /\ GivenBack(u)
      BY <1>6, <2>1, <3>1 DEF GivenBack, States, sessionDrainFailure, h
    <3>6. QED BY <3>1, <3>3, <3>4, <3>5, PopSound
  <2>2. CASE ~ok
    <3>1. PICK u \in States : u = sessionDrainFailure(s) /\ Sound(u) BY UnwindTripSound
    <3>2. PICK t \in States : t = sessionDrainFailure(q) BY DEF States, sessionDrainFailure
    <3>3. deferred(q, h, ok) = t BY <1>6, <2>2, <3>2 DEF deferred
    <3>4. Popped(u, t) BY <1>2, <1>6, <3>1, <3>2 DEF Popped, States, sessionDrainFailure, h
    <3>5. u.at = "unwind" /\ u.defers = s.defers /\ GivenBack(u)
      BY <1>6, <2>2, <3>1 DEF GivenBack, States, sessionDrainFailure, h
    <3>6. QED BY <3>1, <3>3, <3>4, <3>5, PopSound
  <2>3. QED BY <2>1, <2>2
<1>7. CASE h = "closeSession"
  <2>1. CASE ok \/ "gate" \notin q.held
    <3>1. PICK u \in States : u = [s EXCEPT !.held = @ \ {"gate"}] /\ Sound(u) BY ShutSound
    <3>2. PICK t \in States : t = [q EXCEPT !.held = @ \ {"gate"}] BY DEF States, sessionDrainFailure
    <3>3. deferred(q, h, ok) = t BY <1>7, <2>1, <3>2 DEF deferred
    <3>4. Popped(u, t) BY <1>2, <1>7, <3>1, <3>2 DEF Popped, States, sessionDrainFailure, h
    <3>5. u.at = "unwind" /\ u.defers = s.defers /\ GivenBack(u)
      BY <1>7, <2>1, <3>1 DEF GivenBack, States, sessionDrainFailure, h
    <3>6. QED BY <3>1, <3>3, <3>4, <3>5, PopSound
  <2>2. CASE ~(ok \/ "gate" \notin q.held)
    <3>1. deferred(q, h, ok) = sessionDrainFailure([q EXCEPT !.held = @ \ {"gate"}]) BY <1>7, <2>2 DEF deferred
    <3>2. PICK u \in States : u = [s EXCEPT !.held = @ \ {"gate"}] /\ Sound(u) BY ShutSound
    <3>3. u.at = "unwind" /\ u.defers = s.defers /\ u.held = s.held \ {"gate"} BY <3>2 DEF States
    <3>4. sessionDrainFailure(u) \in States /\ Sound(sessionDrainFailure(u)) BY <3>2, <3>3, UnwindTripSound
    <3>5. PICK p \in States : p = [q EXCEPT !.held = @ \ {"gate"}] BY DEF States
    <3>6. p.at = u.at /\ p.defers = Tail(u.defers) /\ p.held = u.held /\ p.carrier = u.carrier /\ p.finish = u.finish
      BY <1>2, <3>2, <3>5 DEF States
    <3>7. p.finished = u.finished /\ p.err = u.err /\ p.tripped = u.tripped /\ p.ready = u.ready /\ p.terminal = u.terminal
      BY <1>2, <3>2, <3>5 DEF States
    <3>8. sessionDrainFailure(p) \in States /\ Popped(sessionDrainFailure(u), sessionDrainFailure(p))
      BY <3>2, <3>5, <3>6, <3>7 DEF Popped, States, sessionDrainFailure
    <3>9. /\ sessionDrainFailure(u).at = "unwind" /\ sessionDrainFailure(u).defers = s.defers
          /\ GivenBack(sessionDrainFailure(u))
      BY <1>7, <3>2, <3>3 DEF GivenBack, States, sessionDrainFailure, h
    <3>10. QED BY <3>1, <3>4, <3>5, <3>8, <3>9, PopSound
  <2>3. QED BY <2>1, <2>2
<1>8. CASE h = "ownership"
  <2>1. CASE TRUE
    <3>1. PICK u \in States : u = [s EXCEPT !.held = @ \ {"ownership"}] /\ Sound(u) BY ShutSound
    <3>2. PICK t \in States : t = [q EXCEPT !.held = @ \ {"ownership"}] BY DEF States, sessionDrainFailure
    <3>3. deferred(q, h, ok) = t BY <1>8, <2>1, <3>2 DEF deferred
    <3>4. Popped(u, t) BY <1>2, <1>8, <3>1, <3>2 DEF Popped, States, sessionDrainFailure, h
    <3>5. u.at = "unwind" /\ u.defers = s.defers /\ GivenBack(u)
      BY <1>8, <2>1, <3>1 DEF GivenBack, States, sessionDrainFailure, h
    <3>6. QED BY <3>1, <3>3, <3>4, <3>5, PopSound
  <2>2. QED BY <2>1
<1>9. CASE h = "machine"
  <2>1. CASE TRUE
    <3>1. PICK u \in States : u = [s EXCEPT !.held = @ \ {"machine"}] /\ Sound(u) BY ShutSound
    <3>2. PICK t \in States : t = [q EXCEPT !.held = @ \ {"machine"}] BY DEF States, sessionDrainFailure
    <3>3. deferred(q, h, ok) = t BY <1>9, <2>1, <3>2 DEF deferred
    <3>4. Popped(u, t) BY <1>2, <1>9, <3>1, <3>2 DEF Popped, States, sessionDrainFailure, h
    <3>5. u.at = "unwind" /\ u.defers = s.defers /\ GivenBack(u)
      BY <1>9, <2>1, <3>1 DEF GivenBack, States, sessionDrainFailure, h
    <3>6. QED BY <3>1, <3>3, <3>4, <3>5, PopSound
  <2>2. QED BY <2>1
<1>10. CASE h = "evidence"
  <2>1. CASE ok
    <3>1. PICK u \in States : u = s /\ Sound(u) OBVIOUS
    <3>2. PICK t \in States : t = q BY DEF States, sessionDrainFailure
    <3>3. deferred(q, h, ok) = t BY <1>10, <2>1, <3>2 DEF deferred
    <3>4. Popped(u, t) BY <1>2, <1>10, <3>1, <3>2 DEF Popped, States, sessionDrainFailure, h
    <3>5. u.at = "unwind" /\ u.defers = s.defers /\ GivenBack(u)
      BY <1>10, <2>1, <3>1 DEF GivenBack, States, sessionDrainFailure, h
    <3>6. QED BY <3>1, <3>3, <3>4, <3>5, PopSound
  <2>2. CASE ~ok
    <3>1. PICK u \in States : u = [s EXCEPT !.err = TRUE] /\ Sound(u) BY ErrSound
    <3>2. PICK t \in States : t = [q EXCEPT !.err = TRUE] BY DEF States, sessionDrainFailure
    <3>3. deferred(q, h, ok) = t BY <1>10, <2>2, <3>2 DEF deferred
    <3>4. Popped(u, t) BY <1>2, <1>10, <3>1, <3>2 DEF Popped, States, sessionDrainFailure, h
    <3>5. u.at = "unwind" /\ u.defers = s.defers /\ GivenBack(u)
      BY <1>10, <2>2, <3>1 DEF GivenBack, States, sessionDrainFailure, h
    <3>6. QED BY <3>1, <3>3, <3>4, <3>5, PopSound
  <2>3. QED BY <2>1, <2>2
<1>11. CASE h = "terminal"
  <2>1. CASE ok
    <3>1. PICK u \in States : u = s /\ Sound(u) OBVIOUS
    <3>2. PICK t \in States : t = [q EXCEPT !.terminal = TRUE] BY DEF States, sessionDrainFailure
    <3>3. deferred(q, h, ok) = t BY <1>11, <2>1, <3>2 DEF deferred
    <3>4. Popped(u, t) BY <1>2, <1>11, <3>1, <3>2 DEF Popped, States, sessionDrainFailure, h
    <3>5. u.at = "unwind" /\ u.defers = s.defers /\ GivenBack(u)
      BY <1>11, <2>1, <3>1 DEF GivenBack, States, sessionDrainFailure, h
    <3>6. QED BY <3>1, <3>3, <3>4, <3>5, PopSound
  <2>2. CASE ~ok
    <3>1. PICK u \in States : u = [s EXCEPT !.err = TRUE] /\ Sound(u) BY ErrSound
    <3>2. PICK t \in States : t = [q EXCEPT !.err = TRUE] BY DEF States, sessionDrainFailure
    <3>3. deferred(q, h, ok) = t BY <1>11, <2>2, <3>2 DEF deferred
    <3>4. Popped(u, t) BY <1>2, <1>11, <3>1, <3>2 DEF Popped, States, sessionDrainFailure, h
    <3>5. u.at = "unwind" /\ u.defers = s.defers /\ GivenBack(u)
      BY <1>11, <2>2, <3>1 DEF GivenBack, States, sessionDrainFailure, h
    <3>6. QED BY <3>1, <3>3, <3>4, <3>5, PopSound
  <2>3. QED BY <2>1, <2>2
<1>12. CASE h = "abort"
  <2>1. CASE q.finished \/ "carrier" \notin q.held
    <3>1. deferred(q, h, ok) = q BY <1>12, <2>1 DEF deferred
    <3>2. Popped(s, q) BY <1>2, <1>12 DEF Popped, h
    <3>3. GivenBack(s) BY <1>2, <1>12, <2>1 DEF GivenBack, Sound, Released, h
    <3>4. QED BY <3>1, <3>2, <3>3, PopSound
  <2>2. CASE ~(q.finished \/ "carrier" \notin q.held)
    <3>1. deferred(q, h, ok) = [cleanup(q, ok) EXCEPT !.err = TRUE] BY <1>12, <2>2 DEF deferred
    <3>2. PICK c \in States : c = cleanup(q, ok) /\ Cleaned(q, c) BY CleanupFields
    <3>3. PICK b \in States : b = [c EXCEPT !.defers = s.defers] BY DEF States
    <3>3a. /\ b.at = c.at /\ b.defers = s.defers /\ b.held = c.held /\ b.carrier = c.carrier
           /\ b.finish = c.finish
           /\ b.finished = c.finished /\ b.err = c.err /\ b.tripped = c.tripped /\ b.ready = c.ready
           /\ b.terminal = c.terminal /\ b.active = c.active /\ b.sent = c.sent /\ b.cancelled = c.cancelled
      BY <3>3 DEF States
    <3>3b. q.sent = s.sent /\ q.cancelled = s.cancelled BY <1>1 DEF States
    <3>4. Cleaned(s, b) BY <1>2, <3>2, <3>3a, <3>3b DEF Cleaned
    <3>5. PICK u \in States : u = [b EXCEPT !.err = TRUE] BY DEF States
    <3>6. Sound(u) BY <3>3, <3>4, <3>5, CleanSound
    <3>7. [c EXCEPT !.err = TRUE] \in States /\ Popped(u, [c EXCEPT !.err = TRUE])
      <4>1. PICK t \in States : t = [c EXCEPT !.err = TRUE] BY DEF States
      <4>2. /\ t.at = c.at /\ t.defers = c.defers /\ t.held = c.held /\ t.carrier = c.carrier
            /\ t.finish = c.finish
            /\ t.finished = c.finished /\ t.err = TRUE /\ t.tripped = c.tripped /\ t.ready = c.ready
            /\ t.terminal = c.terminal
        BY <4>1 DEF States
      <4>3. /\ u.at = b.at /\ u.defers = b.defers /\ u.held = b.held /\ u.carrier = b.carrier
            /\ u.finish = b.finish
            /\ u.finished = b.finished /\ u.err = TRUE /\ u.tripped = b.tripped /\ u.ready = b.ready
            /\ u.terminal = b.terminal
        BY <3>5 DEF States
      <4>4. c.defers = Tail(s.defers) BY <1>2, <3>2 DEF Cleaned
      <4>5. Popped(u, t) BY <3>3a, <4>2, <4>3, <4>4 DEF Popped
      <4>6. QED BY <4>1, <4>5
    <3>8. u.at = "unwind" /\ u.defers = s.defers /\ u.held = b.held BY <3>4, <3>5 DEF Cleaned, States
    <3>9. GivenBack(u) BY <1>12, <3>4, <3>8 DEF GivenBack, Cleaned, Things, h
    <3>10. QED BY <3>1, <3>2, <3>6, <3>7, <3>8, <3>9, PopSound
  <2>3. QED BY <2>1, <2>2
<1>13. QED BY <1>3, <1>4, <1>5, <1>6, <1>7, <1>8, <1>9, <1>10, <1>11, <1>12 DEF Calls, Emitters

----------------------------------------------------------------------------
(* Steps of the two ends together.                                         *)

Confirming == {"record"} \cup FinishRecorded

\* What a step of e may claim: a record stays, and what needs the peer's record
\* comes after it.
Onward(e, t) ==
    LET s == grEnd[e] IN
    /\ s.finish = "success" => t.finish = "success"
    /\ e = "i" => /\ t.at \in Confirming => s.at \in Confirming \/ grEnd["r"].finish = "success"
                  /\ t.finish = "success" => s.finish = "success" \/ s.at \in Confirming
    /\ t.ready => s.ready \/ \A f \in Ends : grEnd[f].finish = "success"
    /\ e = "r" => (t.sent => s.sent \/ grEnd["i"].finish = "success")

\* What a step of e may send.
Carries(e, t) ==
    /\ grNet' \in [Ends -> SUBSET InnerPackets]
    /\ \A f \in Ends : \A p \in grNet'[f] :
           p \in grNet[f] \/ p = "close" \/ (f = Peer(e) /\ t.finish = "success")

\* A step of e to which no cause was given leaves the run clean.
StaysClean(e, t) ==
    /\ Smooth(t)
    /\ e = "i" => t.carrier \notin {"eof", "broken"} /\ (grEnd[e].carrier = "closed" => t.carrier = "closed")
    /\ e = "r" => t.carrier # "broken" /\ (t.carrier \in {"eof", "closed"} => grEnd["i"].carrier = "closed")

\* An end of the invariant.
LEMMA EndParts ==
    ASSUME RunIInv, NEW e \in Ends
    PROVE  /\ grEnd[e] \in States /\ Sound(grEnd[e]) /\ grNet \in [Ends -> SUBSET InnerPackets]
           /\ grCauses = {} => Smooth(grEnd[e]) /\ StaysClean(e, grEnd[e])
<1>1. grEnd[e] \in States /\ Sound(grEnd[e]) /\ grNet \in [Ends -> SUBSET InnerPackets] BY DEF RunIInv, RunTypeOK
<1>2. e = "i" \/ e = "r" BY DEF Ends
<1>3. grCauses = {} => Smooth(grEnd[e]) /\ StaysClean(e, grEnd[e]) BY <1>2 DEF RunIInv, Clean, StaysClean
<1>4. QED BY <1>1, <1>3

\* A step of one end.
LEMMA EndKeeps ==
    ASSUME RunIInv, NEW e \in Ends, NEW t \in States, Sound(t), Becomes(e, t), Onward(e, t), Carries(e, t),
           grCauses' = {} => grCauses = {} /\ StaysClean(e, t)
    PROVE  RunIInv'
<1>1. /\ grEnd \in [Ends -> States] /\ grEnd' \in [Ends -> States] /\ grEnd'[e] = t
      /\ \A f \in Ends : f # e => grEnd'[f] = grEnd[f]
  BY DEF RunIInv, RunTypeOK, Becomes
<1>2. "i" \in Ends /\ "r" \in Ends /\ (e = "i" \/ e = "r") BY DEF Ends
<1>3. RunTypeOK' BY <1>1 DEF RunTypeOK, Carries
<1>4. \A f \in Ends : Sound(grEnd'[f]) BY <1>1 DEF RunIInv
<1>5. Confirmed(grEnd'["i"], grEnd'["r"], grNet')
  <2>1. Confirmed(grEnd["i"], grEnd["r"], grNet) BY DEF RunIInv
  <2>2. CASE e = "i"
    <3>1. grEnd'["i"] = t /\ grEnd'["r"] = grEnd["r"] BY <1>1, <1>2, <2>2
    <3>2. \A p \in grNet'["i"] : p \in grNet["i"] \/ p = "close" BY <1>2, <2>2 DEF Carries, Peer
    <3>3. \A p \in grNet'["r"] : p \in grNet["r"] \/ p = "close" \/ t.finish = "success"
      BY <1>2, <2>2 DEF Carries
    <3>4. QED BY <1>2, <2>1, <2>2, <3>1, <3>2, <3>3 DEF Confirmed, Onward, Confirming
  <2>3. CASE e = "r"
    <3>1. grEnd'["r"] = t /\ grEnd'["i"] = grEnd["i"] BY <1>1, <1>2, <2>3
    <3>2. \A p \in grNet'["r"] : p \in grNet["r"] \/ p = "close" BY <1>2, <2>3 DEF Carries, Peer
    <3>3. \A p \in grNet'["i"] : p \in grNet["i"] \/ p = "close" \/ t.finish = "success"
      BY <1>2, <2>3 DEF Carries
    <3>4. QED BY <1>2, <2>1, <2>3, <3>1, <3>2, <3>3 DEF Confirmed, Onward, Confirming
  <2>4. QED BY <1>2, <2>2, <2>3
<1>6. ASSUME grCauses' = {} PROVE Clean(grEnd'["i"], grEnd'["r"])
  <2>1. Clean(grEnd["i"], grEnd["r"]) /\ StaysClean(e, t) BY <1>6 DEF RunIInv
  <2>2. CASE e = "i"
    <3>1. grEnd'["i"] = t /\ grEnd'["r"] = grEnd["r"] BY <1>1, <1>2, <2>2
    <3>2. QED BY <2>1, <2>2, <3>1 DEF Clean, StaysClean
  <2>3. CASE e = "r"
    <3>1. grEnd'["r"] = t /\ grEnd'["i"] = grEnd["i"] BY <1>1, <1>2, <2>3
    <3>2. QED BY <2>1, <2>3, <3>1 DEF Clean, StaysClean
  <2>4. QED BY <1>2, <2>2, <2>3
<1>7. QED BY <1>3, <1>4, <1>5, <1>6 DEF RunIInv

\* t is s on its way out.
Leaves(s, t) ==
    /\ t.at = "unwind" /\ t.ready = s.ready /\ t.sent = s.sent
    /\ t.finish = "success" <=> s.finish = "success"

\* An end that fails, with something to blame.
LEMMA LeaveKeeps ==
    ASSUME RunIInv, NEW e \in Ends, NEW t \in States, Sound(t), Becomes(e, t), Leaves(grEnd[e], t), NetQuiet,
           grCauses' # {}
    PROVE  RunIInv'
<1>1. grEnd[e] \in States /\ grNet \in [Ends -> SUBSET InnerPackets] BY EndParts
<1>2. Onward(e, t) BY <1>1 DEF Onward, Leaves, Confirming, FinishRecorded, Carried
<1>3. Carries(e, t) BY <1>1 DEF Carries, NetQuiet
<1>4. QED BY <1>2, <1>3, EndKeeps

\* An early return with an error.
LEMMA FailKeeps ==
    ASSUME RunIInv, NEW e \in Ends, grEnd[e].at # "gateb", Becomes(e, failRun(grEnd[e])), NetQuiet,
           Fault \/ (NoFault /\ grCauses # {})
    PROVE  RunIInv'
<1>1. grEnd[e] \in States /\ Sound(grEnd[e]) BY EndParts
<1>2. failRun(grEnd[e]) \in States /\ Sound(failRun(grEnd[e])) BY <1>1, FailSound
<1>3. Leaves(grEnd[e], failRun(grEnd[e])) BY <1>1 DEF Leaves, failRun, States
<1>4. grCauses' # {} BY DEF Fault, NoFault, Cause
<1>5. QED BY <1>2, <1>3, <1>4, LeaveKeeps

\* t goes on from s.
Goes(s, t) ==
    /\ t.carrier = s.carrier /\ t.finish = s.finish /\ t.finished = s.finished /\ t.active = s.active
    /\ t.cancelled = s.cancelled /\ t.sent = s.sent /\ t.err = s.err /\ t.ready = s.ready

\* A step that goes on quietly.
LEMMA GoKeeps ==
    ASSUME RunIInv, NEW e \in Ends, NEW t \in States, Sound(t), Becomes(e, t), Goes(grEnd[e], t), NetQuiet, NoFault,
           e = "i" /\ t.at \in Confirming => grEnd[e].at \in Confirming \/ grEnd["r"].finish = "success"
    PROVE  RunIInv'
<1>1. grEnd[e] \in States /\ grNet \in [Ends -> SUBSET InnerPackets] /\ (grCauses = {} => StaysClean(e, grEnd[e]))
  BY EndParts
<1>2. Onward(e, t) BY DEF Onward, Goes
<1>3. Carries(e, t) BY <1>1 DEF Carries, NetQuiet
<1>4. grCauses' = {} => grCauses = {} /\ StaysClean(e, t) BY <1>1 DEF NoFault, StaysClean, Smooth, Goes
<1>5. QED BY <1>2, <1>3, <1>4, EndKeeps

\* A call of the pipeline.
LEMMA CallKeeps ==
    ASSUME RunIInv, NEW e \in Ends, NEW at, NEW next, NEW calls, NEW got, Call(e, at, next, calls, got), at # "gateb",
           grEnd[e].at = at =>
               /\ Pass(grEnd[e], next, calls, got) \in States /\ Sound(Pass(grEnd[e], next, calls, got)),
           next \in Confirming => at \in Confirming
    PROVE  RunIInv'
<1> DEFINE s == grEnd[e]
<1> DEFINE t == Pass(s, next, calls, got)
<1>1. s \in States BY EndParts
<1>2. s.at = at /\ NetQuiet BY DEF Call
<1>3. CASE NoFault /\ Becomes(e, t)
  <2>1. Goes(s, t) /\ t.at = next BY <1>1, <1>2 DEF Goes, Pass, States
  <2>2. QED BY <1>2, <1>3, <2>1, GoKeeps
<1>4. CASE Fault /\ Becomes(e, failRun(s)) BY <1>2, <1>4, FailKeeps
<1>5. QED BY <1>3, <1>4 DEF Call

\* The entries.
LEMMA EntryKeeps ==
    ASSUME RunIInv, NEW e \in Ends, runStdio(e) \/ runFieldPrepared(e)
    PROVE  RunIInv'
<1>1. grEnd[e] \in States /\ Sound(grEnd[e]) /\ grEnd[e].defers \in Seq(Calls) BY EndParts DEF States
<1> DEFINE s == grEnd[e]
<1>a. "machine" \in Calls /\ "evidence" \in Calls /\ {"machine"} \in SUBSET {"machine", "ownership", "tunnel", "interface"}
  BY DEF Calls
<1>b. \A c \in Emitters : c \in Calls /\ c # "machine" /\ c # "evidence" BY DEF Calls, Emitters
<1>c. /\ "entry" \in Early /\ "entry" \notin Over \cup {"gateb"} \cup FinishRecorded
      /\ "resolve" \in Early /\ "resolve" \in Ats /\ "resolve" \notin Over \cup {"gateb"} \cup FinishRecorded
  BY DEF Early, Ats, Over, FinishRecorded, Carried
<1>2. CASE runStdio(e)
  <2> DEFINE t == Pass(s, "resolve", <<"machine">>, {"machine"})
  <2>1. ASSUME s.at = "entry" PROVE t \in States /\ Sound(t)
    <3>1. <<"machine">> \in Seq(Calls) BY <1>a
    <3>2. /\ <<"machine">> \o s.defers \in Seq(Calls) /\ ReportedLast(<<"machine">> \o s.defers)
          /\ \A c \in Calls : Owed(<<"machine">> \o s.defers, c) <=> c = "machine" \/ Owed(s.defers, c)
      BY <1>1, <1>a, PushOne DEF Sound, Ordered
    <3>3. \A c \in Emitters : ~Owed(<<"machine">> \o s.defers, c)
      BY <1>1, <1>b, <1>c, <2>1, <3>2 DEF Sound, Ordered
    <3>4. QED BY <1>1, <1>a, <1>c, <2>1, <3>1, <3>2, <3>3, PassSound DEF FinishRecorded
  <2>2. "resolve" \notin Confirming BY DEF Confirming, FinishRecorded, Carried
  <2>3. QED BY <1>2, <2>1, <2>2, CallKeeps DEF runStdio
<1>3. CASE runFieldPrepared(e)
  <2> DEFINE t == Pass(s, "resolve", <<"machine", "evidence">>, {"machine"})
  <2> DEFINE d == <<"evidence">> \o s.defers
  <2>1. ASSUME s.at = "entry" PROVE t \in States /\ Sound(t)
    <3>1. <<"machine", "evidence">> \in Seq(Calls) BY <1>a
    <3>2. /\ d \in Seq(Calls) /\ ReportedLast(d)
          /\ \A c \in Calls : Owed(d, c) <=> c = "evidence" \/ Owed(s.defers, c)
      BY <1>1, <1>a, PushOne DEF Sound, Ordered
    <3> HIDE DEF d
    <3>3. <<"machine", "evidence">> \o s.defers = <<"machine">> \o d BY <1>1, <1>a, PushTwo DEF d
    <3>4. /\ <<"machine">> \o d \in Seq(Calls) /\ ReportedLast(<<"machine">> \o d)
          /\ \A c \in Calls : Owed(<<"machine">> \o d, c) <=> c = "machine" \/ Owed(d, c)
      BY <1>a, <3>2, PushOne
    <3>5. \A c \in Emitters : ~Owed(<<"machine">> \o d, c)
      BY <1>1, <1>b, <1>c, <2>1, <3>2, <3>4 DEF Sound, Ordered
    <3>6. QED BY <1>1, <1>a, <1>c, <2>1, <3>1, <3>2, <3>3, <3>4, <3>5, PassSound DEF FinishRecorded
  <2>2. "resolve" \notin Confirming BY DEF Confirming, FinishRecorded, Carried
  <2>3. QED BY <1>3, <2>1, <2>2, CallKeeps DEF runFieldPrepared
<1>4. QED BY <1>2, <1>3

\* A call that defers nothing.
LEMMA PlainCallKeeps ==
    ASSUME RunIInv, NEW e \in Ends, NEW at, NEW next,
           <<at, next>> \in {<<"resolve", "inspect">>, <<"inspect", "claim">>, <<"report", "echo">>},
           Call(e, at, next, <<>>, {})
    PROVE  RunIInv'
<1> DEFINE s == grEnd[e]
<1>1. s \in States /\ Sound(s) /\ s.defers \in Seq(Calls) BY EndParts DEF States
<1>2. <<>> \o s.defers = s.defers /\ <<>> \in Seq(Calls) BY <1>1, PushTwo DEF Calls
<1>3. /\ at \notin Over \cup {"gateb"} /\ next \in Ats \ (Over \cup {"gateb"})
      /\ next \in FinishRecorded => at \in FinishRecorded
      /\ next \in Carried <=> at \in Carried
      /\ next \in Early \cup {"stream"} => at \in Early
      /\ next \in Confirming => at \in Confirming
  BY DEF Over, Ats, FinishRecorded, Carried, Early, Confirming
<1>4. ASSUME s.at = at PROVE Pass(s, next, <<>>, {}) \in States /\ Sound(Pass(s, next, <<>>, {}))
  <2>1. ReportedLast(s.defers) /\ (next \in Early => \A c \in Emitters : ~Owed(s.defers, c))
    BY <1>1, <1>3, <1>4 DEF Sound, Ordered
  <2>2. QED BY <1>1, <1>2, <1>3, <1>4, <2>1, PassSound
<1>5. QED BY <1>3, <1>4, CallKeeps

\* A call that defers the one that gives back what it got.
LEMMA HoldingCallKeeps ==
    ASSUME RunIInv, NEW e \in Ends, NEW at, NEW next, NEW x,
           <<at, next, x>> \in {<<"interface", "tunnel", "interface">>, <<"tunnel", "challenge", "tunnel">>},
           Call(e, at, next, <<x>>, {x})
    PROVE  RunIInv'
<1> DEFINE s == grEnd[e]
<1>1. s \in States /\ Sound(s) /\ s.defers \in Seq(Calls) BY EndParts DEF States
<1>2. x \in Calls /\ <<x>> \in Seq(Calls) /\ x # "terminal" /\ {x} \in SUBSET {"machine", "ownership", "tunnel", "interface"}
  BY DEF Calls, Emitters
<1>3. /\ at \notin Over \cup {"gateb"}
      /\ next \in Ats \ (Over \cup {"gateb"} \cup Confirming \cup FinishRecorded \cup Early \cup {"stream"})
      /\ next \notin Carried /\ at \notin Carried
  BY DEF Over, Ats, FinishRecorded, Carried, Early, Confirming, Binding
<1>4. ASSUME s.at = at PROVE Pass(s, next, <<x>>, {x}) \in States /\ Sound(Pass(s, next, <<x>>, {x}))
  <2>1. /\ <<x>> \o s.defers \in Seq(Calls) /\ ReportedLast(<<x>> \o s.defers)
        /\ \A c \in Calls : Owed(<<x>> \o s.defers, c) <=> c = x \/ Owed(s.defers, c)
    BY <1>1, <1>2, PushOne DEF Sound, Ordered
  <2>2. QED BY <1>1, <1>2, <1>3, <1>4, <2>1, PassSound
<1>5. QED BY <1>3, <1>4, CallKeeps

\* The ownership of key, interface and route, with the report of the end behind it.
LEMMA ClaimKeeps ==
    ASSUME RunIInv, NEW e \in Ends, claimLocalOwnership(e)
    PROVE  RunIInv'
<1> DEFINE s == grEnd[e]
<1> DEFINE calls == <<"terminal", "ownership">>
<1> DEFINE d == <<"ownership">> \o s.defers
<1>1. s \in States /\ Sound(s) /\ s.defers \in Seq(Calls) BY EndParts DEF States
<1>2. "terminal" \in Calls /\ "ownership" \in Calls /\ calls \in Seq(Calls) BY DEF Calls
<1>3. /\ "claim" \in Early /\ "claim" \notin Over \cup {"gateb"} \cup Carried
      /\ "stream" \in Ats \ (Over \cup {"gateb"} \cup FinishRecorded \cup Early \cup Confirming \cup Carried)
  BY DEF Over, Ats, FinishRecorded, Carried, Early, Confirming
<1>4. ASSUME s.at = "claim"
      PROVE  Pass(s, "stream", calls, {"ownership"}) \in States /\ Sound(Pass(s, "stream", calls, {"ownership"}))
  <2>1. /\ d \in Seq(Calls) /\ ReportedLast(d)
        /\ \A c \in Calls : Owed(d, c) <=> c = "ownership" \/ Owed(s.defers, c)
    BY <1>1, <1>2, PushOne DEF Sound, Ordered
  <2>2. \A c \in Emitters : ~Owed(d, c) BY <1>1, <1>3, <1>4, <2>1 DEF Sound, Ordered, Emitters, Calls
  <2>3. calls \o s.defers = <<"terminal">> \o d BY <1>1, <1>2, PushTwo
  <2> HIDE DEF d
  <2>4. /\ <<"terminal">> \o d \in Seq(Calls) /\ ReportedLast(<<"terminal">> \o d)
        /\ \A c \in Calls : Owed(<<"terminal">> \o d, c) <=> c = "terminal" \/ Owed(d, c)
    BY <1>2, <2>1, <2>2, PushOne
  <2> HIDE DEF calls
  <2>5. /\ calls \o s.defers \in Seq(Calls) /\ ReportedLast(calls \o s.defers)
        /\ Owed(calls \o s.defers, "ownership")
        /\ \A c \in Calls : Owed(s.defers, c) => Owed(calls \o s.defers, c)
    BY <1>2, <2>1, <2>3, <2>4
  <2>6. QED BY <1>1, <1>2, <1>3, <1>4, <2>5, PassSound
<1>5. QED BY <1>3, <1>4, CallKeeps DEF claimLocalOwnership

\* The calls up to the carrier.
LEMMA PreparedKeeps ==
    ASSUME RunIInv, NEW e \in Ends, resolveTrustedPeer(e) \/ inspectConflict(e) \/ emit(e) \/ newInterface(e) \/ newTunnel(e)
    PROVE  RunIInv'
<1>1. CASE resolveTrustedPeer(e) BY <1>1, PlainCallKeeps DEF resolveTrustedPeer
<1>2. CASE inspectConflict(e)
  <2>1. CASE Call(e, "inspect", "claim", <<>>, {}) BY <2>1, PlainCallKeeps
  <2>2. CASE grEnd[e].at = "inspect" /\ grEnd[e].cancelled /\ Becomes(e, failRun(grEnd[e])) /\ NoFault /\ NetQuiet
    <3>1. grEnd[e] \in States /\ Sound(grEnd[e]) /\ (grCauses = {} => Smooth(grEnd[e])) BY EndParts
    <3>2. grCauses # {} BY <2>2, <3>1 DEF Smooth, Sound, Stage, Carried, Over
    <3>3. QED BY <2>2, <3>2, FailKeeps
  <2>3. QED BY <1>2, <2>1, <2>2 DEF inspectConflict
<1>3. CASE emit(e) BY <1>3, PlainCallKeeps DEF emit
<1>4. CASE newInterface(e) BY <1>4, HoldingCallKeeps DEF newInterface
<1>5. CASE newTunnel(e) BY <1>5, HoldingCallKeeps DEF newTunnel
<1>6. QED BY <1>1, <1>2, <1>3, <1>4, <1>5

\* An end that fails and cleans up, with something to blame.
LEMMA CleanFailKeeps ==
    ASSUME RunIInv, NEW e \in Ends, NEW b \in States, Sound(b), NEW ok \in BOOLEAN, b.at # "done",
           Becomes(e, failRun(cleanup(b, ok))), NetQuiet, grCauses' # {},
           b.finish = grEnd[e].finish, b.ready = grEnd[e].ready, b.sent = grEnd[e].sent
    PROVE  RunIInv'
<1>1. PICK c \in States : c = cleanup(b, ok) /\ Cleaned(b, c) BY CleanupFields
<1>2. failRun(c) \in States BY DEF failRun, States, Ats, Over
<1>3. Sound(failRun(c)) BY <1>1, <1>2, CleanSound
<1>4. failRun(c).at = "unwind" /\ failRun(c).ready = c.ready /\ failRun(c).sent = c.sent /\ failRun(c).finish = c.finish
  BY DEF failRun, States
<1>5. Leaves(grEnd[e], failRun(c)) BY <1>1, <1>4 DEF Leaves, Cleaned
<1>6. QED BY <1>1, <1>2, <1>3, <1>5, LeaveKeeps

\* An end that has not released its carrier and is no longer active has something to blame.
LEMMA InactiveCause ==
    ASSUME RunIInv, NEW e \in Ends, grEnd[e].at \notin Carried \cup Over, ~grEnd[e].active \/ grEnd[e].cancelled
    PROVE  grCauses # {}
<1>1. grEnd[e] \in States /\ Sound(grEnd[e]) /\ (grCauses = {} => Smooth(grEnd[e])) BY EndParts
<1>2. QED BY <1>1 DEF Smooth, Sound, Stage

\* A fault is something to blame.
LEMMA FaultCause == ASSUME Fault PROVE grCauses' # {}
BY DEF Fault, Cause

\* The carrier is opened, or the responder never starts.
LEMMA StreamKeeps ==
    ASSUME RunIInv, NEW e \in Ends, OpenProductStream(e) \/ NeverSpawned(e)
    PROVE  RunIInv'
<1> DEFINE s == grEnd[e]
<1>1. /\ s \in States /\ Sound(s) /\ grNet \in [Ends -> SUBSET InnerPackets]
      /\ grCauses = {} => Smooth(s) /\ StaysClean(e, s)
  BY EndParts
<1>2. s.at = "stream" /\ NetQuiet BY DEF OpenProductStream, NeverSpawned
<1>3. "stream" \notin Carried \cup Over BY DEF Carried, Over
<1>4. CASE OpenProductStream(e)
  <2> DEFINE t == [s EXCEPT !.at = "gateb", !.carrier = "open", !.held = @ \cup {"attempt", "carrier"}]
  <2>1. CASE s.active /\ NoFault /\ Becomes(e, t)
    <3>1. t \in States /\ Sound(t) BY <1>1, <1>2, StreamSound
    <3>2. /\ t.at = "gateb" /\ t.carrier = "open" /\ t.finish = s.finish /\ t.finished = s.finished
          /\ t.active = s.active
          /\ t.cancelled = s.cancelled /\ t.sent = s.sent /\ t.err = s.err /\ t.ready = s.ready
      BY <1>1 DEF States
    <3>3. s.carrier = "none" BY <1>1, <1>2 DEF Sound, Stage
    <3> HIDE DEF t
    <3>4. Onward(e, t) BY <3>2 DEF Onward, Confirming, FinishRecorded, Carried
    <3>5. Carries(e, t) BY <1>1, <1>2 DEF Carries, NetQuiet
    <3>6. grCauses' = {} => grCauses = {} /\ StaysClean(e, t)
      BY <1>1, <2>1, <3>2, <3>3 DEF NoFault, StaysClean, Smooth
    <3>7. QED BY <2>1, <3>1, <3>4, <3>5, <3>6, EndKeeps
  <2>2. CASE ~s.active /\ NoFault /\ Becomes(e, failRun(s)) BY <1>2, <1>3, <2>2, InactiveCause, FailKeeps
  <2>3. CASE Fault /\ Becomes(e, failRun(s)) BY <1>2, <2>3, FailKeeps
  <2>4. QED BY <1>4, <2>1, <2>2, <2>3 DEF OpenProductStream
<1>5. CASE NeverSpawned(e)
  <2>1. "i" \in Ends BY DEF Ends
  <2>2. grEnd["i"] \in States /\ Sound(grEnd["i"]) /\ (grCauses = {} => Smooth(grEnd["i"])) BY <2>1, EndParts
  <2>3. grEnd["i"].carrier = "none" /\ grEnd["i"].at \in Over BY <1>5 DEF NeverSpawned, Over
  <2>4. grCauses # {} BY <2>2, <2>3 DEF Smooth, Sound, Stage
  <2>5. QED BY <1>2, <1>5, <2>4, FailKeeps DEF NeverSpawned
<1>6. QED BY <1>4, <1>5

\* Gate B.
LEMMA GateBKeeps ==
    ASSUME RunIInv, NEW e \in Ends, RunForProduct(e)
    PROVE  RunIInv'
<1> DEFINE s == grEnd[e]
<1> DEFINE burned == [s EXCEPT !.held = @ \cup {"authorization", "burned"}]
<1>1. s \in States /\ Sound(s) BY EndParts
<1>2. s.at = "gateb" /\ NetQuiet BY DEF RunForProduct
<1>3. PICK b \in States : b = burned /\ Sound(b) BY <1>1, <1>2, BurnSound
<1>4. /\ b.at = s.at /\ b.carrier = s.carrier /\ b.finish = s.finish /\ b.finished = s.finished
      /\ b.active = s.active
      /\ b.cancelled = s.cancelled /\ b.sent = s.sent /\ b.err = s.err /\ b.ready = s.ready
  BY <1>1, <1>3 DEF States
<1>5. "gateb" \notin Carried \cup Over BY DEF Carried, Over
<1>6. CASE NoFault /\ Becomes(e, Pass(b, "interface", <<"abort">>, {"gate"}))
  <2> DEFINE t == Pass(b, "interface", <<"abort">>, {"gate"})
  <2>1. t \in States /\ Sound(t) BY <1>2, <1>3, <1>4, GateSound
  <2>2. /\ t.at = "interface" /\ t.carrier = b.carrier /\ t.finish = b.finish /\ t.finished = b.finished
        /\ t.active = b.active
        /\ t.cancelled = b.cancelled /\ t.sent = b.sent /\ t.err = b.err /\ t.ready = b.ready
    BY DEF Pass, States
  <2> HIDE DEF t
  <2>3. Goes(s, t) BY <1>4, <2>2 DEF Goes
  <2>4. t.at \notin Confirming BY <2>2 DEF Confirming, FinishRecorded, Carried
  <2>5. QED BY <1>2, <1>6, <2>1, <2>3, <2>4, GoKeeps DEF t
<1>7. ASSUME NEW c \in {s, b}, NEW ok \in BOOLEAN, Becomes(e, failRun(cleanup(c, ok))), grCauses' # {} PROVE RunIInv'
  <2>1. c \in States /\ Sound(c) /\ c.at # "done" /\ c.finish = s.finish /\ c.ready = s.ready /\ c.sent = s.sent
    BY <1>1, <1>2, <1>3, <1>4
  <2>2. QED BY <1>2, <1>7, <2>1, CleanFailKeeps
<1>8. CASE ~s.active /\ NoFault /\ \E c \in {s, b} : Becomes(e, failRun(cleanup(c, TRUE)))
  <2>1. grCauses' # {} BY <1>2, <1>5, <1>8, InactiveCause DEF NoFault
  <2>2. QED BY <1>7, <1>8, <2>1
<1>9. CASE Fault /\ \E c \in {s, b}, ok \in BOOLEAN : Becomes(e, failRun(cleanup(c, ok)))
  BY <1>7, <1>9, FaultCause
<1>10. QED BY <1>3, <1>6, <1>8, <1>9 DEF RunForProduct

\* The challenge: only the responder goes on to its record, the initiator waits.
LEMMA ChallengeKeeps ==
    ASSUME RunIInv, NEW e \in Ends, completeWireGuardChallenge(e)
    PROVE  RunIInv'
<1> DEFINE s == grEnd[e]
<1> DEFINE next == IF e = "r" THEN "record" ELSE "confirm"
<1>1. s \in States /\ Sound(s) BY EndParts
<1>2. s.at = "challenge" /\ NetQuiet BY DEF completeWireGuardChallenge
<1>3. "challenge" \notin Carried \cup Over /\ "challenge" \in Binding BY DEF Carried, Over, Binding
<1>4. CASE NoFault /\ Becomes(e, [s EXCEPT !.at = next])
  <2> DEFINE t == [s EXCEPT !.at = next]
  <2>1. next \in Ats /\ next \in Binding /\ s.at \in Binding BY <1>2, <1>3 DEF Ats, Binding
  <2>2. t \in States /\ Sound(t)
    <3> HIDE DEF next, s
    <3>1. QED BY <1>1, <2>1, MoveSound
  <2>3. Goes(s, t) /\ t.at = next BY <1>1 DEF Goes, States
  <2>4. e = "i" => next \notin Confirming BY DEF Confirming, FinishRecorded, Carried
  <2>5. QED BY <1>2, <1>4, <2>2, <2>3, <2>4, GoKeeps
<1>5. CASE (~s.active \/ s.cancelled) /\ NoFault /\ Becomes(e, failRun(s))
  BY <1>2, <1>3, <1>5, InactiveCause, FailKeeps
<1>6. CASE Fault /\ Becomes(e, failRun(s)) BY <1>2, <1>6, FailKeeps
<1>7. QED BY <1>4, <1>5, <1>6 DEF completeWireGuardChallenge

\* FinishAndActivate fails before the carrier is released.
LEMMA FinishFailsKeeps ==
    ASSUME RunIInv, NEW e \in Ends, grEnd[e].at \in {"confirm", "record", "activate"}, NetQuiet,
           Becomes(e, FinishAndActivateFails(grEnd[e])), Fault \/ (NoFault /\ ~grEnd[e].active)
    PROVE  RunIInv'
<1>1. grEnd[e] \in States /\ Sound(grEnd[e]) BY EndParts
<1>2. grEnd[e].at \notin Carried \cup Over BY DEF Carried, Over
<1>3. grCauses' # {} BY <1>2, FaultCause, InactiveCause DEF NoFault
<1>4. QED BY <1>1, <1>3, CleanFailKeeps DEF FinishAndActivateFails

\* The initiator takes the responder's confirmation.
LEMMA ConfirmKeeps ==
    ASSUME RunIInv, NEW e \in Ends, receiveCompletion(e)
    PROVE  RunIInv'
<1> DEFINE s == grEnd[e]
<1>1. s \in States /\ Sound(s) /\ (grCauses = {} => StaysClean(e, s)) /\ grNet \in [Ends -> SUBSET InnerPackets]
  BY EndParts
<1>2. s.at = "confirm" BY DEF receiveCompletion
<1>3. CASE /\ s.active /\ "F" \in grNet[e] /\ Becomes(e, [s EXCEPT !.at = "record"])
           /\ grNet' = [grNet EXCEPT ![e] = @ \ {"F"}] /\ NoFault
  <2> DEFINE t == [s EXCEPT !.at = "record"]
  <2>1. "record" \in Ats /\ "record" \in Binding /\ s.at \in Binding BY <1>2 DEF Ats, Binding
  <2>2. t \in States /\ Sound(t)
    <3> HIDE DEF s
    <3>1. QED BY <1>1, <2>1, MoveSound
  <2>3. Goes(s, t) /\ t.at = "record" BY <1>1 DEF Goes, States
  <2> HIDE DEF t
  <2>4. e = "i" => grEnd["r"].finish = "success" BY <1>3 DEF RunIInv, Confirmed
  <2>5. Onward(e, t) BY <2>3, <2>4 DEF Onward, Goes
  <2>6. Carries(e, t) BY <1>1, <1>3 DEF Carries
  <2>7. grCauses' = {} => grCauses = {} /\ StaysClean(e, t)
    BY <1>1, <1>3, <2>3 DEF NoFault, StaysClean, Smooth, Goes
  <2>8. QED BY <1>3, <2>2, <2>5, <2>6, <2>7, EndKeeps DEF t
<1>4. CASE ~s.active /\ Becomes(e, FinishAndActivateFails(s)) /\ NetQuiet /\ NoFault BY <1>2, <1>4, FinishFailsKeeps
<1>5. QED BY <1>3, <1>4 DEF receiveCompletion

\* The durable FINISH.
LEMMA RecordKeeps ==
    ASSUME RunIInv, NEW e \in Ends, FinishAndActivate(e)
    PROVE  RunIInv'
<1> DEFINE s == grEnd[e]
<1> DEFINE t == [s EXCEPT !.finish = "success", !.held = @ \ {"authorization"}, !.at = "activate"]
<1>1. s \in States /\ Sound(s) /\ (grCauses = {} => StaysClean(e, s)) /\ grNet \in [Ends -> SUBSET InnerPackets]
  BY EndParts
<1>2. s.at = "record" /\ NetQuiet BY DEF FinishAndActivate
<1>3. CASE /\ s.active /\ NoFault
           /\ Becomes(e, [[s EXCEPT !.finish = "success", !.held = @ \ {"authorization"}] EXCEPT !.at = "activate"])
  <2>1. t \in States /\ Sound(t) BY <1>1, <1>2, RecordSound
  <2>2. /\ t.at = "activate" /\ t.carrier = s.carrier /\ t.finish = "success" /\ t.finished = s.finished
        /\ t.active = s.active
        /\ t.cancelled = s.cancelled /\ t.sent = s.sent /\ t.err = s.err /\ t.ready = s.ready
    BY <1>1 DEF States
  <2>3. Becomes(e, t) BY <1>3
  <2> HIDE DEF t
  <2>4. Onward(e, t) BY <1>2, <2>2 DEF Onward, Confirming
  <2>5. Carries(e, t) BY <1>1, <1>2 DEF Carries, NetQuiet
  <2>6. grCauses' = {} => grCauses = {} /\ StaysClean(e, t) BY <1>1, <1>3, <2>2 DEF NoFault, StaysClean, Smooth
  <2>7. QED BY <2>1, <2>3, <2>4, <2>5, <2>6, EndKeeps
<1>4. CASE ~s.active /\ Becomes(e, FinishAndActivateFails(s)) /\ NoFault BY <1>2, <1>4, FinishFailsKeeps
<1>5. CASE Fault /\ Becomes(e, FinishAndActivateFails([s EXCEPT !.held = @ \ {"authorization"}]))
  <2>1. PICK b \in States : b = [s EXCEPT !.held = @ \ {"authorization"}] /\ Sound(b) BY <1>1, LetGoSound
  <2>2. b.at = s.at /\ b.finish = s.finish /\ b.ready = s.ready /\ b.sent = s.sent BY <1>1, <2>1 DEF States
  <2>3. QED BY <1>2, <1>5, <2>1, <2>2, FaultCause, CleanFailKeeps DEF FinishAndActivateFails
<1>6. QED BY <1>3, <1>4, <1>5 DEF FinishAndActivate

\* Activation, with the responder's confirmation.
LEMMA ActivateKeeps ==
    ASSUME RunIInv, NEW e \in Ends, activate(e)
    PROVE  RunIInv'
<1> DEFINE s == grEnd[e]
<1> DEFINE t == [s EXCEPT !.at = "release"]
<1>1. s \in States /\ Sound(s) /\ (grCauses = {} => StaysClean(e, s)) /\ grNet \in [Ends -> SUBSET InnerPackets]
  BY EndParts
<1>2. s.at = "activate" BY DEF activate
<1>3. "release" \in Ats BY DEF Ats, FinishRecorded
<1>4. t \in States /\ Sound(t) BY <1>1, <1>2, <1>3, MoveSound
<1>5. Goes(s, t) /\ t.at = "release" BY <1>1 DEF Goes, States
<1>6. s.finish = "success" /\ s.at \in Confirming BY <1>1, <1>2 DEF Sound, Stage, FinishRecorded, Confirming
<1>7. CASE s.active /\ e = "r" /\ Becomes(e, t) /\ SendInner(e, "F") /\ NoFault
  <2> HIDE DEF t
  <2>1. Onward(e, t) BY <1>5, <1>6 DEF Onward, Goes
  <2>2. Carries(e, t) BY <1>1, <1>5, <1>6, <1>7 DEF Carries, SendInner, Goes, InnerPackets, Peer, Ends
  <2>3. grCauses' = {} => grCauses = {} /\ StaysClean(e, t)
    BY <1>1, <1>5, <1>7 DEF NoFault, StaysClean, Smooth, Goes
  <2>4. QED BY <1>4, <1>7, <2>1, <2>2, <2>3, EndKeeps
<1>8. CASE s.active /\ e = "i" /\ Becomes(e, t) /\ NetQuiet /\ NoFault BY <1>4, <1>5, <1>6, <1>8, GoKeeps
<1>9. CASE ((~s.active /\ NoFault) \/ Fault) /\ Becomes(e, FinishAndActivateFails(s)) /\ NetQuiet
  BY <1>2, <1>9, FinishFailsKeeps
<1>10. QED BY <1>7, <1>8, <1>9 DEF activate

\* The release of the carrier and the attempt.
LEMMA ReleaseKeeps ==
    ASSUME RunIInv, NEW e \in Ends, releaseProductEstablishment(e)
    PROVE  RunIInv'
<1> DEFINE s == grEnd[e]
<1> DEFINE gone == [s EXCEPT !.carrier = "closed", !.active = FALSE, !.held = @ \ {"attempt", "carrier"}]
<1> DEFINE t == [s EXCEPT !.carrier = "closed", !.active = FALSE, !.held = @ \ {"attempt", "carrier"},
                          !.at = "report", !.finished = TRUE, !.defers = <<"closeSession">> \o @]
<1> DEFINE u == [s EXCEPT !.carrier = "closed", !.active = FALSE, !.held = @ \ {"attempt", "carrier", "gate"},
                          !.at = "unwind", !.err = TRUE]
<1>1. s \in States /\ Sound(s) /\ (grCauses = {} => StaysClean(e, s)) /\ grNet \in [Ends -> SUBSET InnerPackets]
  BY EndParts
<1>2. s.at = "release" /\ NetQuiet /\ (e = "i" \/ s.carrier \in {"eof", "broken"} \/ ~s.active)
  BY DEF releaseProductEstablishment
<1>3. CASE /\ s.active /\ NoFault
           /\ Becomes(e, [gone EXCEPT !.at = "report", !.finished = TRUE, !.defers = <<"closeSession">> \o @])
  <2>1. t \in States /\ Sound(t) BY <1>1, <1>2, CarriedSound
  <2>2. [gone EXCEPT !.at = "report", !.finished = TRUE, !.defers = <<"closeSession">> \o @] = t
    BY <1>1 DEF States
  <2>3. /\ t.at = "report" /\ t.carrier = "closed" /\ t.finish = s.finish /\ t.finished = TRUE
        /\ t.cancelled = s.cancelled /\ t.sent = s.sent /\ t.err = s.err /\ t.ready = s.ready
    BY <1>1 DEF States
  <2>4. Becomes(e, t) BY <1>3, <2>2
  <2> HIDE DEF t
  <2>5. Onward(e, t) BY <1>2, <2>3 DEF Onward, Confirming, FinishRecorded
  <2>6. Carries(e, t) BY <1>1, <1>2 DEF Carries, NetQuiet
  <2>7. grCauses' = {} => grCauses = {} /\ StaysClean(e, t)
    BY <1>1, <1>2, <1>3, <2>3 DEF NoFault, StaysClean, Smooth
  <2>8. QED BY <2>1, <2>4, <2>5, <2>6, <2>7, EndKeeps
<1>4. CASE Becomes(e, failRun([gone EXCEPT !.held = @ \ {"gate"}])) /\ (Fault \/ (~s.active /\ NoFault))
  <2>1. u \in States /\ Sound(u) BY <1>1, <1>2, GoneSound
  <2>2. failRun([gone EXCEPT !.held = @ \ {"gate"}]) = u
    <3>1. (s.held \ {"attempt", "carrier"}) \ {"gate"} = s.held \ {"attempt", "carrier", "gate"} OBVIOUS
    <3>2. QED BY <1>1, <3>1 DEF States, failRun
  <2>3. Leaves(s, u) BY <1>1 DEF Leaves, States
  <2>4. "release" \notin Carried \cup Over BY DEF Carried, Over
  <2>5. grCauses' # {} BY <1>2, <1>4, <2>4, FaultCause, InactiveCause DEF NoFault
  <2>6. QED BY <1>2, <1>4, <2>1, <2>2, <2>3, <2>5, LeaveKeeps
<1>5. QED BY <1>3, <1>4 DEF releaseProductEstablishment

\* The carrier ends, and its watcher decides what that means.
LEMMA CarrierKeeps ==
    ASSUME RunIInv, NEW e \in Ends, CarrierEnds(e)
    PROVE  RunIInv'
<1> DEFINE s == grEnd[e]
<1>1. s \in States /\ Sound(s) /\ (grCauses = {} => StaysClean(e, s)) /\ grNet \in [Ends -> SUBSET InnerPackets]
  BY EndParts
<1>2. PICK c \in {"eof", "broken"} :
          /\ Becomes(e, [s EXCEPT !.carrier = c]) /\ NetQuiet /\ s.carrier = "open"
          /\ Fault \/ (c = "eof" /\ grEnd[Peer(e)].carrier = "closed" /\ NoFault)
  BY DEF CarrierEnds
<1> DEFINE t == [s EXCEPT !.carrier = c]
<1>3. t \in States /\ Sound(t) BY <1>1, <1>2, EndSound
<1>4. /\ t.at = s.at /\ t.carrier = c /\ t.finish = s.finish /\ t.finished = s.finished /\ t.active = s.active
      /\ t.cancelled = s.cancelled /\ t.sent = s.sent /\ t.err = s.err /\ t.ready = s.ready
  BY <1>1 DEF States
<1>5. Becomes(e, t) BY <1>2
<1> HIDE DEF t
<1>6. Onward(e, t) BY <1>4 DEF Onward
<1>7. Carries(e, t) BY <1>1, <1>2 DEF Carries, NetQuiet
<1>8. grCauses' = {} => grCauses = {} /\ StaysClean(e, t)
  <2>1. SUFFICES ASSUME grCauses' = {} PROVE grCauses = {} /\ StaysClean(e, t) OBVIOUS
  <2>2. c = "eof" /\ grEnd[Peer(e)].carrier = "closed" /\ grCauses = {} BY <1>2, <2>1, FaultCause DEF NoFault
  <2>3. e # "i"
    <3>1. e = "i" => grEnd["r"].carrier = "closed" /\ grEnd["i"].carrier = "open" BY <1>2, <2>2 DEF Peer
    <3>2. QED BY <2>2, <3>1 DEF RunIInv, Clean
  <2>4. e = "r" /\ grEnd["i"].carrier = "closed" BY <2>2, <2>3 DEF Peer, Ends
  <2>5. QED BY <1>1, <1>4, <2>2, <2>4 DEF StaysClean, Smooth
<1>9. QED BY <1>3, <1>5, <1>6, <1>7, <1>8, EndKeeps

\* The watcher: an end of file before the record has something to blame.
LEMMA WatchKeeps ==
    ASSUME RunIInv, NEW e \in Ends, productCarrierTerminal(e)
    PROVE  RunIInv'
<1> DEFINE s == grEnd[e]
<1>1. s \in States /\ Sound(s) /\ (grCauses = {} => StaysClean(e, s)) /\ grNet \in [Ends -> SUBSET InnerPackets]
  BY EndParts
<1>2. s.carrier \in {"eof", "broken"} /\ NetQuiet /\ NoFault BY DEF productCarrierTerminal
<1>3. CASE s.finish = "success" /\ s.carrier = "eof" /\ Becomes(e, [s EXCEPT !.watched = TRUE])
  <2>1. PICK t \in States : t = [s EXCEPT !.watched = TRUE] BY <1>1 DEF States
  <2>2. Goes(s, t) /\ t.at = s.at /\ t.defers = s.defers /\ t.held = s.held /\ t.tripped = s.tripped /\ t.terminal = s.terminal
    BY <1>1, <2>1 DEF Goes, States
  <2>3. Sound(t) BY <1>1, <2>2, SameSound DEF Goes
  <2>4. QED BY <1>2, <1>3, <2>1, <2>2, <2>3, GoKeeps
<1>4. CASE /\ ~(s.finish = "success" /\ s.carrier = "eof")
           /\ Becomes(e, [s EXCEPT !.watched = TRUE, !.active = FALSE,
                                   !.held = IF s.finish = "success" THEN @ \ {"gate"} ELSE @])
  <2>1. PICK u \in States : u = [s EXCEPT !.held = IF s.finish = "success" THEN @ \ {"gate"} ELSE @] /\ Sound(u)
    <3>1. CASE s.finish = "success" BY <1>1, <3>1, ShutSound
    <3>2. CASE s.finish # "success"
      <4>1. [s EXCEPT !.held = s.held] = s BY <1>1 DEF States
      <4>2. QED BY <1>1, <3>2, <4>1
    <3>3. QED BY <3>1, <3>2
  <2>2. PICK t \in States : t = [s EXCEPT !.watched = TRUE, !.active = FALSE,
                                          !.held = IF s.finish = "success" THEN @ \ {"gate"} ELSE @]
    BY <1>1 DEF States
  <2>3. /\ t.at = s.at /\ t.carrier = s.carrier /\ t.finish = s.finish /\ t.sent = s.sent /\ t.ready = s.ready
    BY <1>1, <2>2 DEF States
  <2>4. /\ t.at = u.at /\ t.defers = u.defers /\ t.held = u.held /\ t.carrier = u.carrier /\ t.finish = u.finish
        /\ t.finished = u.finished /\ t.err = u.err /\ t.tripped = u.tripped /\ t.ready = u.ready
        /\ t.terminal = u.terminal
    BY <1>1, <2>1, <2>2 DEF States
  <2>5. Sound(t) BY <2>1, <2>4, SameSound
  <2>6. Onward(e, t) BY <2>3 DEF Onward
  <2>7. Carries(e, t) BY <1>1, <1>2 DEF Carries, NetQuiet
  <2>8. grCauses # {}
    <3>1. SUFFICES ASSUME grCauses = {} PROVE FALSE OBVIOUS
    <3>2. Clean(grEnd["i"], grEnd["r"]) /\ Confirmed(grEnd["i"], grEnd["r"], grNet) BY <3>1 DEF RunIInv
    <3>3. e = "r" /\ s.carrier = "eof" BY <1>2, <3>2 DEF Clean, Ends
    <3>4. grEnd["i"].finished BY <3>2, <3>3 DEF Clean, Smooth
    <3>5. grEnd["i"].finish = "success" BY <3>4 DEF RunIInv, Sound, Stage, Ends
    <3>6. QED BY <1>4, <3>2, <3>3, <3>5 DEF Confirmed
  <2>9. QED BY <1>2, <1>4, <2>2, <2>5, <2>6, <2>7, <2>8, EndKeeps DEF NoFault
<1>5. QED BY <1>3, <1>4 DEF productCarrierTerminal

\* The echo passes: both ends have recorded.
LEMMA EchoDone ==
    ASSUME RunIInv, NEW e \in Ends, grEnd[e].at = "echo", \A f \in Ends : grEnd[f].finish = "success", NoFault,
           Becomes(e, [grEnd[e] EXCEPT !.at = "session", !.ready = TRUE, !.defers = <<"drain">> \o @]),
           grNet' \in [Ends -> SUBSET InnerPackets],
           \A f \in Ends : \A p \in grNet'[f] : p \in grNet[f] \/ f = Peer(e)
    PROVE  RunIInv'
<1> DEFINE s == grEnd[e]
<1> DEFINE t == [s EXCEPT !.at = "session", !.ready = TRUE, !.defers = <<"drain">> \o @]
<1>1. s \in States /\ Sound(s) /\ (grCauses = {} => StaysClean(e, s)) BY EndParts
<1>2. t \in States /\ Sound(t) BY <1>1, ReadySound
<1>3. /\ t.at = "session" /\ t.carrier = s.carrier /\ t.finish = s.finish /\ t.finished = s.finished
      /\ t.active = s.active
      /\ t.cancelled = s.cancelled /\ t.sent = s.sent /\ t.err = s.err /\ t.ready = TRUE
  BY <1>1 DEF States
<1>4. Becomes(e, t) OBVIOUS
<1> HIDE DEF t
<1>5. Onward(e, t) BY <1>3 DEF Onward, Ends
<1>6. Carries(e, t) BY <1>3 DEF Carries
<1>7. grCauses' = {} => grCauses = {} /\ StaysClean(e, t) BY <1>1, <1>3 DEF NoFault, StaysClean, Smooth
<1>8. QED BY <1>2, <1>4, <1>5, <1>6, <1>7, EndKeeps

\* The first half of the echo.
LEMMA EchoHalf ==
    ASSUME RunIInv, NEW e \in Ends, grEnd[e].at = "echo", grEnd["i"].finish = "success", NoFault,
           Becomes(e, [grEnd[e] EXCEPT !.sent = TRUE]), grNet' \in [Ends -> SUBSET InnerPackets],
           \A f \in Ends : \A p \in grNet'[f] : p \in grNet[f] \/ (e = "i" /\ f = Peer(e))
    PROVE  RunIInv'
<1> DEFINE s == grEnd[e]
<1>1. s \in States /\ Sound(s) /\ (grCauses = {} => StaysClean(e, s)) BY EndParts
<1>2. PICK t \in States : t = [s EXCEPT !.sent = TRUE] BY <1>1 DEF States
<1>3. /\ t.at = s.at /\ t.defers = s.defers /\ t.held = s.held /\ t.carrier = s.carrier /\ t.finish = s.finish
      /\ t.finished = s.finished /\ t.err = s.err /\ t.tripped = s.tripped /\ t.ready = s.ready
      /\ t.terminal = s.terminal
      /\ t.active = s.active /\ t.cancelled = s.cancelled
  BY <1>1, <1>2 DEF States
<1>4. Sound(t) BY <1>1, <1>3, SameSound
<1>5. Onward(e, t) BY <1>3 DEF Onward
<1>6. Carries(e, t) BY <1>3 DEF Carries
<1>7. grCauses' = {} => grCauses = {} /\ StaysClean(e, t) BY <1>1, <1>3 DEF NoFault, StaysClean, Smooth
<1>8. QED BY <1>2, <1>4, <1>5, <1>6, <1>7, EndKeeps

\* What SendInner and TakeInner do to the datagrams.
LEMMA NetSteps ==
    ASSUME RunIInv, NEW e \in Ends, NEW p \in InnerPackets, SendInner(e, p) \/ TakeInner(e, p)
    PROVE  /\ grNet' \in [Ends -> SUBSET InnerPackets]
           /\ \A f \in Ends : \A q \in grNet'[f] : q \in grNet[f] \/ (SendInner(e, p) /\ f = Peer(e) /\ q = p)
<1>1. grNet \in [Ends -> SUBSET InnerPackets] /\ Peer(e) \in Ends BY EndParts DEF Peer, Ends
<1>2. CASE SendInner(e, p) BY <1>1, <1>2 DEF SendInner
<1>3. CASE TakeInner(e, p) BY <1>1, <1>3 DEF TakeInner
<1>4. QED BY <1>2, <1>3

\* The echo, its timeout and its reader.
LEMMA EchoKeeps ==
    ASSUME RunIInv, NEW e \in Ends, postOOBEcho(e) \/ drainInnerReader(e)
    PROVE  RunIInv'
<1> DEFINE s == grEnd[e]
<1> DEFINE done == [s EXCEPT !.at = "session", !.ready = TRUE, !.defers = <<"drain">> \o @]
<1>1. s \in States /\ Sound(s) /\ "i" \in Ends /\ "r" \in Ends /\ (e = "i" \/ e = "r") BY EndParts DEF Ends
<1>2. s.at = "echo" BY DEF postOOBEcho, drainInnerReader
<1>3. s.finish = "success" BY <1>1, <1>2 DEF Sound, Stage, FinishRecorded, Carried
<1>4. Confirmed(grEnd["i"], grEnd["r"], grNet) BY DEF RunIInv
<1>5. CASE e = "i" /\ SendInner(e, "request") /\ NoFault /\ Becomes(e, [s EXCEPT !.sent = TRUE])
  <2>1. "request" \in InnerPackets BY DEF InnerPackets
  <2>2. /\ grNet' \in [Ends -> SUBSET InnerPackets]
        /\ \A f \in Ends : \A q \in grNet'[f] : q \in grNet[f] \/ f = Peer(e)
    BY <1>5, <2>1, NetSteps
  <2>3. QED BY <1>2, <1>3, <1>5, <2>2, EchoHalf
<1>6. CASE e = "i" /\ "response" \in grNet[e] /\ TakeInner(e, "response") /\ NoFault /\ Becomes(e, done)
  <2>1. "response" \in InnerPackets BY DEF InnerPackets
  <2>2. /\ grNet' \in [Ends -> SUBSET InnerPackets]
        /\ \A f \in Ends : \A q \in grNet'[f] : q \in grNet[f] \/ f = Peer(e)
    BY <1>6, <2>1, NetSteps
  <2>3. \A f \in Ends : grEnd[f].finish = "success" BY <1>3, <1>4, <1>6 DEF Confirmed, Ends
  <2>4. QED BY <1>2, <1>6, <2>2, <2>3, EchoDone
<1>7. CASE /\ e = "r" /\ "request" \in grNet[e] /\ TakeInner(e, "request") /\ NoFault
           /\ Becomes(e, [s EXCEPT !.sent = TRUE])
  <2>1. "request" \in InnerPackets BY DEF InnerPackets
  <2>2. /\ grNet' \in [Ends -> SUBSET InnerPackets]
        /\ \A f \in Ends : \A q \in grNet'[f] : q \in grNet[f]
    <3>1. grNet \in [Ends -> SUBSET InnerPackets] BY EndParts
    <3>2. QED BY <1>7, <3>1 DEF TakeInner
  <2>3. grEnd["i"].finish = "success" BY <1>4, <1>7 DEF Confirmed
  <2>4. QED BY <1>2, <1>7, <2>2, <2>3, EchoHalf
<1>8. CASE e = "r" /\ s.sent /\ SendInner(e, "response") /\ NoFault /\ Becomes(e, done)
  <2>1. "response" \in InnerPackets BY DEF InnerPackets
  <2>2. /\ grNet' \in [Ends -> SUBSET InnerPackets]
        /\ \A f \in Ends : \A q \in grNet'[f] : q \in grNet[f] \/ f = Peer(e)
    BY <1>8, <2>1, NetSteps
  <2>3. \A f \in Ends : grEnd[f].finish = "success" BY <1>3, <1>4, <1>8 DEF Confirmed, Ends
  <2>4. QED BY <1>2, <1>8, <2>2, <2>3, EchoDone
<1>9. CASE Fault /\ Becomes(e, failRun(s)) /\ NetQuiet BY <1>2, <1>9, FailKeeps
<1>10. CASE drainInnerReader(e)
  <2>1. NetQuiet BY <1>10 DEF drainInnerReader
  <2>2. CASE Cause("timeout") /\ Becomes(e, failRun([s EXCEPT !.held = @ \ {"interface"}]))
    <3>1. PICK u \in States : u = [s EXCEPT !.held = @ \ {"interface"}] /\ Sound(u) BY <1>1, ShutSound
    <3>2. u.at = s.at /\ u.finish = s.finish /\ u.ready = s.ready /\ u.sent = s.sent BY <1>1, <3>1 DEF States
    <3>3. failRun(u) \in States /\ Sound(failRun(u)) BY <1>2, <3>1, <3>2, FailSound
    <3>4. Leaves(s, failRun(u)) BY <3>2 DEF Leaves, failRun, States
    <3>5. grCauses' # {} BY <2>2 DEF Cause
    <3>6. QED BY <2>1, <2>2, <3>1, <3>3, <3>4, <3>5, LeaveKeeps
  <2>3. CASE Fault /\ Becomes(e, failRun(sessionDrainFailure(s)))
    <3>1. failRun(sessionDrainFailure(s)) \in States /\ Sound(failRun(sessionDrainFailure(s)))
      BY <1>1, <1>2, TripSound
    <3>2. Leaves(s, failRun(sessionDrainFailure(s))) BY <1>1 DEF Leaves, failRun, sessionDrainFailure, States
    <3>3. QED BY <2>1, <2>3, <3>1, <3>2, FaultCause, LeaveKeeps
  <2>4. QED BY <1>10, <2>2, <2>3 DEF drainInnerReader
<1>11. QED BY <1>5, <1>6, <1>7, <1>8, <1>9, <1>10 DEF postOOBEcho, Arrived

\* The session, and its explicit close.
LEMMA SessionKeeps ==
    ASSUME RunIInv, NEW e \in Ends, foregroundSession(e)
    PROVE  RunIInv'
<1> DEFINE s == grEnd[e]
<1> DEFINE over == [s EXCEPT !.at = "close", !.held = IF e = "r" /\ grForm = "stdio" THEN @ \ {"interface"} ELSE @]
<1>1. s \in States /\ Sound(s) /\ (grCauses = {} => StaysClean(e, s)) /\ grNet \in [Ends -> SUBSET InnerPackets]
  BY EndParts
<1>2. s.at = "session" BY DEF foregroundSession
<1>3. ASSUME Becomes(e, over), NoFault, NetQuiet \/ SendInner(e, "close") \/ TakeInner(e, "close") PROVE RunIInv'
  <2> DEFINE x == IF e = "r" /\ grForm = "stdio" THEN {"interface"} ELSE {}
  <2>1. PICK t \in States : t = [s EXCEPT !.at = "close", !.held = @ \ x] /\ Sound(t)
    <3>1. x \in SUBSET {"interface", "gate"} OBVIOUS
    <3> HIDE DEF x
    <3>2. QED BY <1>1, <1>2, <3>1, OverSound
  <2>2. over = t
    <3>1. (IF e = "r" /\ grForm = "stdio" THEN s.held \ {"interface"} ELSE s.held) = s.held \ x OBVIOUS
    <3> HIDE DEF x
    <3>2. QED BY <1>1, <2>1, <3>1 DEF States
  <2>3. Goes(s, t) /\ t.at = "close" BY <1>1, <2>1 DEF Goes, States
  <2>4. Onward(e, t) BY <1>2, <2>3 DEF Onward, Goes, Confirming, FinishRecorded, Carried
  <2>5. Carries(e, t)
    <3>1. "close" \in InnerPackets BY DEF InnerPackets
    <3>2. CASE NetQuiet BY <1>1, <3>2 DEF Carries, NetQuiet
    <3>3. CASE SendInner(e, "close") \/ TakeInner(e, "close")
      <4>1. /\ grNet' \in [Ends -> SUBSET InnerPackets]
            /\ \A f \in Ends : \A q \in grNet'[f] : q \in grNet[f] \/ q = "close"
        BY <3>1, <3>3, NetSteps
      <4>2. QED BY <4>1 DEF Carries
    <3>4. QED BY <1>3, <3>2, <3>3
  <2>6. grCauses' = {} => grCauses = {} /\ StaysClean(e, t)
    BY <1>1, <1>3, <2>3 DEF NoFault, StaysClean, Smooth, Goes
  <2>7. QED BY <1>3, <2>1, <2>2, <2>4, <2>5, <2>6, EndKeeps
<1>4. CASE Fault /\ NetQuiet /\ Becomes(e, failRun(s)) BY <1>2, <1>4, FailKeeps
<1>5. CASE Fault /\ NetQuiet /\ Becomes(e, failRun(sessionDrainFailure(s)))
  <2>1. failRun(sessionDrainFailure(s)) \in States /\ Sound(failRun(sessionDrainFailure(s)))
    BY <1>1, <1>2, TripSound
  <2>2. Leaves(s, failRun(sessionDrainFailure(s))) BY <1>1 DEF Leaves, failRun, sessionDrainFailure, States
  <2>3. QED BY <1>5, <2>1, <2>2, FaultCause, LeaveKeeps
<1>6. QED BY <1>3, <1>4, <1>5 DEF foregroundSession

\* The explicit CloseSession.
LEMMA CloseKeeps ==
    ASSUME RunIInv, NEW e \in Ends, CloseSession(e)
    PROVE  RunIInv'
<1> DEFINE s == grEnd[e]
<1>1. s \in States /\ Sound(s) BY EndParts
<1>2. s.at = "close" /\ NetQuiet BY DEF CloseSession
<1>3. PICK c \in States : c = [s EXCEPT !.at = "unwind", !.held = @ \ {"gate"}] /\ Sound(c)
  BY <1>1, <1>2, OverSound
<1>4. Goes(s, c) /\ c.at = "unwind" BY <1>1, <1>3 DEF Goes, States
<1>5. CASE NoFault /\ Becomes(e, c)
  <2>1. c.at \notin Confirming BY <1>4 DEF Confirming, FinishRecorded, Carried
  <2>2. QED BY <1>2, <1>3, <1>4, <1>5, <2>1, GoKeeps
<1>6. CASE Fault /\ Becomes(e, sessionDrainFailure(c))
  <2>1. sessionDrainFailure(c) \in States /\ Sound(sessionDrainFailure(c)) BY <1>3, <1>4, UnwindTripSound
  <2>2. /\ sessionDrainFailure(c).at = "unwind" /\ sessionDrainFailure(c).ready = c.ready
        /\ sessionDrainFailure(c).sent = c.sent /\ sessionDrainFailure(c).finish = c.finish
    BY <1>4 DEF sessionDrainFailure, States
  <2>3. Leaves(s, sessionDrainFailure(c)) BY <1>4, <2>2 DEF Leaves, Goes
  <2>4. QED BY <1>2, <1>6, <2>1, <2>3, FaultCause, LeaveKeeps
<1>7. QED BY <1>3, <1>5, <1>6 DEF CloseSession

\* A deferred call says nothing of the record, and on a run that has released its
\* carrier it goes wrong only by itself.
LEMMA DeferredFields ==
    ASSUME NEW q \in States, NEW h \in Calls, NEW ok \in BOOLEAN
    PROVE  LET t == deferred(q, h, ok) IN
           /\ t.at = q.at /\ t.ready = q.ready /\ t.sent = q.sent
           /\ t.finish = "success" <=> q.finish = "success"
           /\ ok /\ q.finished => Goes(q, t)
<1> DEFINE t == deferred(q, h, ok)
<1>1. CASE h = "abort" /\ ~(q.finished \/ "carrier" \notin q.held)
  <2>1. PICK c \in States : c = cleanup(q, ok) /\ Cleaned(q, c) BY CleanupFields
  <2>2. t = [c EXCEPT !.err = TRUE] BY <1>1, <2>1 DEF deferred
  <2> HIDE DEF t
  <2>3. t.at = c.at /\ t.ready = c.ready /\ t.sent = c.sent /\ t.finish = c.finish BY <2>2 DEF States
  <2>4. QED BY <1>1, <2>1, <2>3 DEF Cleaned, t
<1>2. CASE h = "abort" /\ (q.finished \/ "carrier" \notin q.held)
  <2>1. t = q BY <1>2 DEF deferred
  <2>2. QED BY <2>1 DEF Goes
<1>3. CASE h = "closeSession"
  <2>1. PICK c \in States : c = [q EXCEPT !.held = @ \ {"gate"}] BY DEF States
  <2>2. Goes(q, c) /\ c.at = q.at BY <2>1 DEF Goes, States
  <2>3. t = c \/ (~ok /\ t = sessionDrainFailure(c)) BY <1>3, <2>1 DEF deferred
  <2> HIDE DEF t
  <2>4. t.at = c.at /\ t.ready = c.ready /\ t.sent = c.sent /\ t.finish = c.finish
    BY <2>3 DEF States, sessionDrainFailure
  <2>5. QED BY <2>2, <2>3, <2>4 DEF Goes, t
<1>4. CASE h \in {"drain", "tunnel", "interface"}
  <2>1. (ok /\ t = q) \/ (ok /\ t = [q EXCEPT !.held = @ \ {h}]) \/ (~ok /\ t = sessionDrainFailure(q))
    BY <1>4 DEF deferred
  <2> HIDE DEF t
  <2>2. t.at = q.at /\ t.ready = q.ready /\ t.sent = q.sent /\ t.finish = q.finish
    BY <2>1 DEF States, sessionDrainFailure
  <2>3. ok => Goes(q, t) BY <2>1 DEF Goes, States
  <2>4. QED BY <2>2, <2>3 DEF t
<1>5. CASE h \in {"terminal", "ownership", "evidence", "machine"}
  <2>1. \/ t = q \/ t = [q EXCEPT !.held = @ \ {h}] \/ t = [q EXCEPT !.terminal = TRUE]
        \/ (~ok /\ t = [q EXCEPT !.err = TRUE])
    BY <1>5 DEF deferred
  <2> HIDE DEF t
  <2>2. t.at = q.at /\ t.ready = q.ready /\ t.sent = q.sent /\ t.finish = q.finish BY <2>1 DEF States
  <2>3. ok => Goes(q, t) BY <2>1 DEF Goes, States
  <2>4. QED BY <2>2, <2>3 DEF t
<1>6. QED BY <1>1, <1>2, <1>3, <1>4, <1>5 DEF Calls, Emitters

\* The deferred calls and the return.
LEMMA UnwindKeeps ==
    ASSUME RunIInv, NEW e \in Ends, Unwind(e)
    PROVE  RunIInv'
<1> DEFINE s == grEnd[e]
<1> DEFINE rest == [s EXCEPT !.defers = Tail(@)]
<1>1. s \in States /\ Sound(s) /\ (grCauses = {} => Smooth(s)) BY EndParts
<1>2. s.at = "unwind" /\ s.defers # <<>> /\ NetQuiet BY DEF Unwind
<1>3. Tail(s.defers) \in Seq(Calls) /\ Head(s.defers) \in Calls BY <1>1, <1>2, TakeFirst DEF States
<1>4. rest \in States /\ Goes(s, rest) /\ rest.at = s.at BY <1>1, <1>3 DEF States, Goes
<1>5. ASSUME NEW ok \in BOOLEAN, Becomes(e, deferred(rest, Head(s.defers), ok)),
           (ok /\ NoFault) \/ Fault PROVE RunIInv'
  <2>1. PICK t \in States : t = deferred(rest, Head(s.defers), ok) /\ Sound(t) BY <1>1, <1>2, DeferredSound
  <2>2. PICK q \in States : q = rest BY <1>4
  <2>3. /\ t.at = q.at /\ t.ready = q.ready /\ t.sent = q.sent
        /\ t.finish = "success" <=> q.finish = "success"
        /\ ok /\ q.finished => Goes(q, t)
    <3> HIDE DEF rest
    <3>1. QED BY <1>3, <2>1, <2>2, DeferredFields
  <2>4. Leaves(s, t) BY <1>2, <1>4, <2>2, <2>3 DEF Leaves, Goes
  <2>5. CASE grCauses' # {} BY <1>2, <1>5, <2>1, <2>4, <2>5, LeaveKeeps
  <2>6. CASE grCauses' = {}
    <3>1. ok /\ NoFault /\ grCauses = {} BY <1>5, <2>6, FaultCause DEF NoFault
    <3>2. s.finished BY <1>1, <1>2, <3>1 DEF Smooth, Sound, Stage, Over
    <3>3. Goes(s, t) BY <1>4, <2>2, <2>3, <3>1, <3>2 DEF Goes
    <3>4. t.at \notin Confirming BY <1>2, <1>4, <2>2, <2>3 DEF Confirming, FinishRecorded, Carried
    <3>5. QED BY <1>2, <1>5, <2>1, <3>1, <3>3, <3>4, GoKeeps
  <2>7. QED BY <2>5, <2>6
<1>6. QED BY <1>5 DEF Unwind

\* The run returns once nothing is deferred.
LEMMA ReturnKeeps ==
    ASSUME RunIInv, NEW e \in Ends, RunReturns(e)
    PROVE  RunIInv'
<1> DEFINE t == [grEnd[e] EXCEPT !.at = "done"]
<1>1. grEnd[e] \in States /\ Sound(grEnd[e]) BY EndParts
<1>2. t \in States /\ Sound(t) BY <1>1, DoneSound DEF RunReturns
<1>3. Goes(grEnd[e], t) /\ t.at = "done" BY <1>1 DEF Goes, States
<1>4. t.at \notin Confirming BY <1>3 DEF Confirming, FinishRecorded, Carried
<1>5. QED BY <1>2, <1>3, <1>4, GoKeeps DEF RunReturns

\* The caller cancels, or the attempt expires.
LEMMA EndedKeeps ==
    ASSUME RunIInv, NEW e \in Ends, Cancel(e) \/ EnvelopeExpires(e)
    PROVE  RunIInv'
<1> DEFINE s == grEnd[e]
<1>1. s \in States /\ Sound(s) /\ (grCauses = {} => StaysClean(e, s)) /\ grNet \in [Ends -> SUBSET InnerPackets]
  BY EndParts
<1>2. PICK c \in BOOLEAN :
          /\ Becomes(e, [s EXCEPT !.cancelled = c, !.active = FALSE]) /\ NetQuiet
          /\ grCauses' # {} \/ (grCauses' = grCauses /\ s.ready)
  <2>1. CASE Cancel(e) BY <2>1 DEF Cancel, Cause
  <2>2. CASE EnvelopeExpires(e)
    <3>1. [s EXCEPT !.active = FALSE] = [s EXCEPT !.cancelled = s.cancelled, !.active = FALSE]
      BY <1>1 DEF States
    <3>2. s.cancelled \in BOOLEAN BY <1>1 DEF States
    <3>3. QED BY <2>2, <3>1, <3>2 DEF EnvelopeExpires, Cause
  <2>3. QED BY <2>1, <2>2
<1>3. PICK t \in States : t = [s EXCEPT !.cancelled = c, !.active = FALSE] BY <1>1 DEF States
<1>4. /\ t.at = s.at /\ t.defers = s.defers /\ t.held = s.held /\ t.carrier = s.carrier /\ t.finish = s.finish
      /\ t.finished = s.finished /\ t.err = s.err /\ t.tripped = s.tripped /\ t.ready = s.ready
      /\ t.terminal = s.terminal
      /\ t.sent = s.sent
  BY <1>1, <1>3 DEF States
<1>5. Sound(t) BY <1>1, <1>4, SameSound
<1>6. Onward(e, t) BY <1>4 DEF Onward
<1>7. Carries(e, t) BY <1>1, <1>2 DEF Carries, NetQuiet
<1>8. grCauses' = {} => grCauses = {} /\ StaysClean(e, t)
  <2>1. s.ready => s.finished BY <1>1 DEF Sound, Stage
  <2>2. QED BY <1>1, <1>2, <1>4, <2>1 DEF StaysClean, Smooth
<1>9. QED BY <1>2, <1>3, <1>5, <1>6, <1>7, <1>8, EndKeeps

\* A datagram is lost.
LEMMA LoseKeeps ==
    ASSUME RunIInv, NEW e \in Ends, Lose(e)
    PROVE  RunIInv'
<1>1. /\ grEnd' = grEnd /\ grCauses' # {}
      /\ grNet' \in [Ends -> SUBSET InnerPackets] /\ \A f \in Ends : grNet'[f] \subseteq grNet[f]
  BY DEF Lose, Cause, RunIInv, RunTypeOK
<1>2. "i" \in Ends /\ "r" \in Ends BY DEF Ends
<1>3. RunTypeOK' BY <1>1 DEF RunIInv, RunTypeOK
<1>4. Confirmed(grEnd["i"], grEnd["r"], grNet') BY <1>1, <1>2 DEF RunIInv, Confirmed
<1>5. \A f \in Ends : Sound(grEnd[f]) BY DEF RunIInv
<1>6. QED BY <1>1, <1>3, <1>4, <1>5 DEF RunIInv

\* The invariant holds when both runs start.
LEMMA InitKeeps == ASSUME RunInit PROVE RunIInv
<1>1. grEnd = [e \in Ends |-> Fresh] /\ grNet = [e \in Ends |-> {}] BY DEF RunInit
<1>2. Fresh \in States
  <2>1. <<>> \in Seq(Calls) OBVIOUS
  <2>2. "entry" \in Ats BY DEF Ats, Early
  <2>3. QED BY <2>1, <2>2 DEF Fresh, States
<1>3. \A c \in Calls : ~Owed(<<>>, c) BY DEF Owed
<1>4. Sound(Fresh)
  <2>1. Owes(Fresh) BY DEF Owes, Fresh
  <2>2. Ordered(Fresh)
    <3>1. ReportedLast(<<>>) BY DEF ReportedLast
    <3>2. QED BY <1>3, <3>1 DEF Ordered, Fresh, Calls
  <2>3. Released(Fresh) BY DEF Released, Fresh
  <2>4. Stage(Fresh) BY DEF Stage, Fresh, Over, FinishRecorded, Carried, Early
  <2>5. QED BY <2>1, <2>2, <2>3, <2>4 DEF Sound
<1>5. "i" \in Ends /\ "r" \in Ends BY DEF Ends
<1>6. Confirmed(grEnd["i"], grEnd["r"], grNet) BY <1>1, <1>5 DEF Confirmed, Fresh, FinishRecorded, Carried
<1>7. Clean(grEnd["i"], grEnd["r"]) BY <1>1, <1>5 DEF Clean, Smooth, Fresh
<1>8. RunTypeOK BY <1>1, <1>2 DEF RunTypeOK
<1>9. \A e \in Ends : Sound(grEnd[e]) BY <1>1, <1>4
<1>10. QED BY <1>6, <1>7, <1>8, <1>9 DEF RunIInv

\* Every step of either end, and of what surrounds them, keeps the invariant.
LEMMA NextKeeps == ASSUME RunIInv, [RunNext]_grVars PROVE RunIInv'
<1>1. CASE UNCHANGED grVars BY <1>1 DEF grVars, RunIInv, RunTypeOK
<1>2. ASSUME NEW e \in Ends, EndStep(e) PROVE RunIInv'
  <2>1. CASE runStdio(e) \/ runFieldPrepared(e) BY <2>1, EntryKeeps
  <2>2. CASE resolveTrustedPeer(e) \/ inspectConflict(e) \/ emit(e) \/ newInterface(e) \/ newTunnel(e)
    BY <2>2, PreparedKeeps
  <2>3. CASE claimLocalOwnership(e) BY <2>3, ClaimKeeps
  <2>4. CASE OpenProductStream(e) \/ NeverSpawned(e) BY <2>4, StreamKeeps
  <2>5. CASE RunForProduct(e) BY <2>5, GateBKeeps
  <2>6. CASE completeWireGuardChallenge(e) BY <2>6, ChallengeKeeps
  <2>7. CASE receiveCompletion(e) BY <2>7, ConfirmKeeps
  <2>8. CASE FinishAndActivate(e) BY <2>8, RecordKeeps
  <2>9. CASE activate(e) BY <2>9, ActivateKeeps
  <2>10. CASE releaseProductEstablishment(e) BY <2>10, ReleaseKeeps
  <2>11. CASE CarrierEnds(e) BY <2>11, CarrierKeeps
  <2>12. CASE productCarrierTerminal(e) BY <2>12, WatchKeeps
  <2>13. CASE postOOBEcho(e) \/ drainInnerReader(e) BY <2>13, EchoKeeps
  <2>14. CASE foregroundSession(e) BY <2>14, SessionKeeps
  <2>15. CASE CloseSession(e) BY <2>15, CloseKeeps
  <2>16. CASE Unwind(e) BY <2>16, UnwindKeeps
  <2>17. CASE RunReturns(e) BY <2>17, ReturnKeeps
  <2>18. QED BY <1>2, <2>1, <2>2, <2>3, <2>4, <2>5, <2>6, <2>7, <2>8, <2>9, <2>10, <2>11, <2>12, <2>13,
                <2>14, <2>15, <2>16, <2>17 DEF EndStep, PreparedStart, FinishAndDetach
<1>3. ASSUME NEW e \in Ends, Cancel(e) \/ EnvelopeExpires(e) PROVE RunIInv' BY <1>3, EndedKeeps
<1>4. ASSUME NEW e \in Ends, Lose(e) PROVE RunIInv' BY <1>4, LoseKeeps
<1>5. QED BY <1>1, <1>2, <1>3, <1>4 DEF RunNext

\* The invariant says what RunSafe promises.
LEMMA InvIsSafe == ASSUME RunIInv PROVE RunSafe
<1>1. \A e \in Ends : grEnd[e] \in States /\ Sound(grEnd[e]) BY EndParts
<1>2. "i" \in Ends /\ "r" \in Ends BY DEF Ends
<1>3. ReadyNeedsBoth
  <2>1. Confirmed(grEnd["i"], grEnd["r"], grNet) BY DEF RunIInv
  <2>2. QED BY <2>1 DEF ReadyNeedsBoth, Confirmed, Ends
<1>4. ReleaseFollowsRecord BY <1>1 DEF ReleaseFollowsRecord, Sound, Released
<1>5. Unwound
  <2>1. SUFFICES ASSUME NEW e \in Ends, grEnd[e].at = "done"
                 PROVE  LET s == grEnd[e] IN
                        /\ {"gate", "carrier", "ownership", "machine", "authorization"} \cap s.held = {}
                        /\ {"tunnel", "interface"} \cap s.held # {} => s.tripped
                        /\ s.tripped => s.err
                        /\ "attempt" \in s.held => s.finish = "none" /\ s.err
    BY DEF Unwound
  <2>2. grEnd[e].defers = <<>> BY <1>1, <2>1 DEF Sound, Ordered
  <2>3. \A c \in Calls : ~Owed(grEnd[e].defers, c) BY <2>2 DEF Owed
  <2>4. {"machine", "ownership", "tunnel", "interface", "abort", "closeSession"} \subseteq Calls
    BY DEF Calls, Emitters
  <2>5. "carrier" \notin grEnd[e].held /\ "gate" \notin grEnd[e].held BY <1>1, <2>1, <2>3, <2>4 DEF Sound, Owes
  <2>6. "machine" \notin grEnd[e].held /\ "ownership" \notin grEnd[e].held BY <1>1, <2>3, <2>4 DEF Sound, Owes
  <2>7. {"tunnel", "interface"} \cap grEnd[e].held # {} => grEnd[e].tripped BY <1>1, <2>3, <2>4 DEF Sound, Owes
  <2>8. "authorization" \notin grEnd[e].held /\ ("attempt" \in grEnd[e].held => grEnd[e].finish = "none" /\ grEnd[e].err)
    BY <1>1, <2>5 DEF Sound, Released
  <2>9. grEnd[e].tripped => grEnd[e].err BY <1>1 DEF Sound, Stage
  <2>10. QED BY <2>5, <2>6, <2>7, <2>8, <2>9
<1>6. TerminalIsLast BY <1>1 DEF TerminalIsLast, Sound, Ordered
<1>7. FailureHasCause BY DEF FailureHasCause, RunIInv, Clean, Smooth, Ends
<1>8. QED BY <1>3, <1>4, <1>5, <1>6, <1>7 DEF RunSafe

\* For any number of faults and losses, cancelled and expired at either end in either
\* form: the data plane is announced only with both records durable, no burned attempt
\* is given back unrecorded, the deferred calls leave nothing behind that was not
\* tripped for, the end is reported last, and no end fails without a cause.
THEOREM RunIsSafe == RunSpec => []RunSafe
<1>1. RunInit => RunIInv BY InitKeeps
<1>2. RunIInv /\ [RunNext]_grVars => RunIInv' BY NextKeeps
<1>3. RunIInv => RunSafe BY InvIsSafe
<1>4. QED BY <1>1, <1>2, <1>3, PTL DEF RunSpec
=============================================================================
