---------------------------- MODULE WireGuardGate ----------------------------
(***************************************************************************)
(* The gate between wireguard-go and the promoted socket of an attempt     *)
(* (internal/probeio, WireGuardSessionGate), on both sides of a session:   *)
(* the readiness barrier, the capped handshake trace, the drain, the       *)
(* responder's FINISH and its confirmation to the initiator, activation.   *)
(*                                                                         *)
(* A step is one critical section of the gate's mutex or one call of the   *)
(* transport.  Packets are their type: "R" readiness, "1", "2" and "4" of  *)
(* WireGuard, "F" the sealed finish frame, "X" a frame that only looks     *)
(* like one.  The network keeps order unless it spends one of MaxFaults.   *)
(***************************************************************************)
EXTENDS Naturals, Sequences

CONSTANTS
    MaxFaults,      \* losses, repetitions, reorderings, forgeries, failures
    AnyDevice,      \* BOOLEAN: WireGuard may write any message in the challenge
    NoPhase

VARIABLES
    wgState,        \* gate.state
    wgOut, wgIn,    \* the traces of the challenge
    wgReady,        \* ConsumerReady: "no", "first", "second", "last", "yes", "failed"
    wgCount,        \* [rw, rr, cw, cr]: readiness and completion writes and reads
    wgFrame,        \* the buffered completion frame, or NoPhase
    wgReader,       \* NoPhase, the state a read entered in, or that state in EndedRead
    wgWriter,       \* NoPhase, the message in flight, or Written[that message]
    wgFinish,       \* FinishAndActivate: "no", "locks", "confirm", "durable",
                    \* "send", "detach", "done", "failed"
    wgDurable,      \* FINISH is recorded
    wgOver,         \* contexts that ended: "challenge", "attempt"
    wgNet,          \* datagrams on their way to each side
    wgSent,         \* datagrams given to the transport before activation
    wgFaults

wgOps == <<wgReader, wgWriter>>
wgTrace == <<wgOut, wgIn, wgCount, wgFrame>>
gateVars == <<wgState, wgTrace, wgReady, wgOps, wgFinish, wgDurable, wgOver, wgNet,
          wgSent, wgFaults>>

Roles == {"initiator", "responder"}
Other(g) == IF g = "initiator" THEN "responder" ELSE "initiator"
EndedRead == [capped |-> "capped, ended", active |-> "active, ended"]
Packets == 3            \* WireGuardChallengePackets

GateInit ==
    /\ wgState = [g \in Roles |-> "standby"]
    /\ wgOut = [g \in Roles |-> <<>>] /\ wgIn = [g \in Roles |-> <<>>]
    /\ wgReady = [g \in Roles |-> "no"]
    /\ wgCount = [g \in Roles |-> [rw |-> 0, rr |-> 0, cw |-> 0, cr |-> 0]]
    /\ wgFrame = [g \in Roles |-> NoPhase]
    /\ wgReader = [g \in Roles |-> NoPhase] /\ wgWriter = [g \in Roles |-> NoPhase]
    /\ wgFinish = [g \in Roles |-> "no"]
    /\ wgDurable = [g \in Roles |-> FALSE]
    /\ wgOver = [g \in Roles |-> {}]
    /\ wgNet = [g \in Roles |-> <<>>]
    /\ wgSent = [g \in Roles |-> 0]
    /\ wgFaults = 0

-----------------------------------------------------------------------------
InTrace(trace, m) == \E i \in DOMAIN trace: trace[i] = m

\* traceCompleteLocked: the frozen trace of each role.
TraceComplete(g) ==
    /\ wgReady[g] = "yes" /\ wgCount[g].rw = 1 /\ wgCount[g].rr = 1
    /\ IF g = "initiator" THEN wgOut[g] = <<"1", "4">> /\ wgIn[g] = <<"2">>
                          ELSE wgOut[g] = <<"2">> /\ wgIn[g] = <<"1", "4">>

OutSpent(g) == Len(wgOut[g]) + wgCount[g].rw + wgCount[g].cw >= Packets
InSpent(g) == Len(wgIn[g]) + wgCount[g].rr + wgCount[g].cr >= Packets

InFlight(g) == wgWriter[g] # NoPhase \/ wgReader[g] \in {"capped", "active"}

\* readMu and writeMu are held by the barrier and by the finish.
Locked(g) == wgReady[g] \in {"first", "second", "last"}
             \/ wgFinish[g] \in {"confirm", "durable", "send", "detach"}

\* Close, also what fail does: every context ends, the frame is cleared.
Close(g) ==
    /\ wgState' = [wgState EXCEPT ![g] = "closed"]
    /\ wgFrame' = [wgFrame EXCEPT ![g] = NoPhase]
    /\ wgOver' = [wgOver EXCEPT ![g] = {"challenge", "attempt"}]

Go(g, s) == wgState' = [wgState EXCEPT ![g] = s] /\ UNCHANGED <<wgFrame, wgOver>>
Stay == UNCHANGED <<wgState, wgFrame, wgOver>>
Spend(g, f) == wgCount' = [wgCount EXCEPT ![g][f] = @ + 1]

\* transport.WritePacket and ReadPacket that succeed; a closed gate's
\* transport is closed.
Send(g, m) ==
    /\ wgState[g] # "closed"
    /\ wgNet' = [wgNet EXCEPT ![Other(g)] = Append(@, m)]
    /\ wgSent' = [wgSent EXCEPT ![g] = IF wgState[g] = "active" THEN @ ELSE @ + 1]
Take(g) ==
    /\ wgState[g] # "closed" /\ wgNet[g] # <<>>
    /\ wgNet' = [wgNet EXCEPT ![g] = Tail(@)]
    /\ UNCHANGED wgSent
Quiet == UNCHANGED <<wgNet, wgSent>>

\* A call of the transport may fail when its context ended, or by a fault.
Fails(g, c) ==
    /\ Quiet
    /\ \/ c \in wgOver[g] /\ UNCHANGED wgFaults
       \/ wgFaults < MaxFaults /\ wgFaults' = wgFaults + 1

-----------------------------------------------------------------------------
BeginChallenge(g) ==
    /\ wgState[g] = "standby" /\ "attempt" \notin wgOver[g]
    /\ Go(g, "capped")
    /\ UNCHANGED <<wgOut, wgIn, wgCount, wgReady, wgOps, wgFinish, wgDurable, wgNet,
                   wgSent, wgFaults>>

(* ConsumerReady: the initiator writes and then reads, the responder reads *)
(* and then writes; the write is counted before it is made.                *)
ReadyStart(g) ==
    /\ wgState[g] = "capped" /\ wgReady[g] = "no"
    /\ wgReader[g] = NoPhase /\ wgWriter[g] = NoPhase
    /\ wgReady' = [wgReady EXCEPT ![g] = "first"]
    /\ UNCHANGED <<wgState, wgTrace, wgOps, wgFinish, wgDurable, wgOver, wgNet, wgSent,
                   wgFaults>>

ReadyMoves(g) == wgReady' = [wgReady EXCEPT ![g] = IF @ = "first" THEN "second" ELSE "last"]
ReadyFails(g) == wgReady' = [wgReady EXCEPT ![g] = "failed"] /\ Close(g)

ReadyWrite(g) ==
    /\ wgReady[g] = IF g = "initiator" THEN "first" ELSE "second"
    /\ IF wgState[g] = "capped" /\ Len(wgOut[g]) + wgCount[g].rw < Packets
       THEN /\ Spend(g, "rw")
            /\ \/ Send(g, "R") /\ ReadyMoves(g) /\ Stay /\ UNCHANGED wgFaults
               \/ Fails(g, "challenge") /\ ReadyFails(g)
       ELSE ReadyFails(g) /\ Quiet /\ UNCHANGED <<wgCount, wgFaults>>
    /\ UNCHANGED <<wgOut, wgIn, wgOps, wgFinish, wgDurable>>

ReadyRead(g) ==
    /\ wgReady[g] = IF g = "initiator" THEN "second" ELSE "first"
    /\ \/ /\ Take(g) /\ Spend(g, "rr")
          /\ IF Head(wgNet[g]) = "R" THEN ReadyMoves(g) /\ Stay ELSE ReadyFails(g)
          /\ UNCHANGED wgFaults
       \/ Fails(g, "challenge") /\ ReadyFails(g) /\ UNCHANGED wgCount
    /\ UNCHANGED <<wgOut, wgIn, wgOps, wgFinish, wgDurable>>

ReadyEnd(g) ==
    /\ wgReady[g] = "last"
    /\ IF wgState[g] = "capped" /\ "challenge" \notin wgOver[g]
       THEN wgReady' = [wgReady EXCEPT ![g] = "yes"] /\ Stay
       ELSE ReadyFails(g)
    /\ UNCHANGED <<wgOut, wgIn, wgCount, wgOps, wgFinish, wgDurable, wgNet, wgSent, wgFaults>>

-----------------------------------------------------------------------------
(* WritePacket. *)

\* What wireguard-go asks to write: an initiation, a response to it, the
\* keepalive that follows a response.
Offers(g) ==
    IF AnyDevice THEN {"1", "2", "4"}
    ELSE IF g = "initiator"
    THEN IF wgIn[g] = <<>> THEN {"1"} ELSE {"4"}
    ELSE IF wgIn[g] = <<>> THEN {} ELSE {"2"}

WriteBegin(g, m) ==
    /\ ~Locked(g) /\ wgWriter[g] = NoPhase
    /\ wgReady[g] = "yes" /\ wgState[g] = "capped" /\ m \in Offers(g) /\ ~InTrace(wgOut[g], m)
    /\ IF OutSpent(g) THEN Close(g) /\ UNCHANGED wgWriter
       ELSE wgWriter' = [wgWriter EXCEPT ![g] = m] /\ Stay
    /\ UNCHANGED <<wgOut, wgIn, wgCount, wgReady, wgReader, wgFinish, wgDurable, wgNet,
                   wgSent, wgFaults>>

\* Before the barrier, or a message already written: the gate fails.
WriteRefused(g) ==
    /\ AnyDevice /\ ~Locked(g) /\ wgWriter[g] = NoPhase /\ wgState[g] = "capped"
    /\ Close(g)
    /\ UNCHANGED <<wgOut, wgIn, wgCount, wgReady, wgOps, wgFinish, wgDurable, wgNet, wgSent,
                   wgFaults>>

\* A message the transport has, before the gate's mutex is taken again: the
\* answer to it may be read first.
Written == [m \in {"1", "2", "4"} |->
    CASE m = "1" -> "1 written" [] m = "2" -> "2 written" [] OTHER -> "4 written"]

\* transport.WritePacket returns; an error closes the gate.
WriteSend(g) ==
    /\ wgWriter[g] \in DOMAIN Written
    /\ \/ /\ Send(g, wgWriter[g])
          /\ wgWriter' = [wgWriter EXCEPT ![g] = Written[@]]
          /\ Stay /\ UNCHANGED wgFaults
       \/ /\ \/ wgState[g] = "drain" /\ Quiet /\ UNCHANGED wgFaults
             \/ Fails(g, "challenge")
          /\ wgWriter' = [wgWriter EXCEPT ![g] = NoPhase]
          /\ Close(g)
    /\ UNCHANGED <<wgOut, wgIn, wgCount, wgReady, wgReader, wgFinish, wgDurable>>

\* What was written enters the trace only if the challenge still runs.
WriteEnd(g) ==
    /\ \E m \in DOMAIN Written:
        /\ wgWriter[g] = Written[m]
        /\ wgOut' = IF wgState[g] = "capped" THEN [wgOut EXCEPT ![g] = Append(@, m)] ELSE wgOut
    /\ wgWriter' = [wgWriter EXCEPT ![g] = NoPhase]
    /\ Stay
    /\ UNCHANGED <<wgIn, wgCount, wgReady, wgReader, wgFinish, wgDurable, wgNet, wgSent, wgFaults>>

\* A write in the active session; the armed policy's beforeWrite may refuse
\* it, which closes the gate.
ActiveWrite(g) ==
    /\ wgState[g] = "active" /\ wgWriter[g] = NoPhase /\ ~Locked(g)
    /\ Len(wgNet[Other(g)]) < Packets
    /\ \/ Send(g, "4") /\ Stay /\ UNCHANGED wgFaults
       \/ wgFaults < MaxFaults /\ wgFaults' = wgFaults + 1 /\ Close(g) /\ Quiet
    /\ UNCHANGED <<wgOut, wgIn, wgCount, wgReady, wgOps, wgFinish, wgDurable>>

-----------------------------------------------------------------------------
(* ReadPacket. *)

\* Between the challenge and the activation a read only polls.
ReadBegin(g) ==
    /\ ~Locked(g) /\ wgReader[g] = NoPhase /\ wgReady[g] = "yes"
    /\ \/ wgState[g] = "active"
       \/ wgState[g] = "capped" /\ wgCount[g].cr = 0
    /\ IF wgState[g] = "capped" /\ InSpent(g)
       THEN ~TraceComplete(g) /\ Close(g) /\ UNCHANGED wgReader
       ELSE wgReader' = [wgReader EXCEPT ![g] = wgState[g]] /\ Stay
    /\ UNCHANGED <<wgOut, wgIn, wgCount, wgReady, wgWriter, wgFinish, wgDurable, wgNet,
                   wgSent, wgFaults>>

\* bufferCompletionLocked.
MayBuffer(g) ==
    /\ wgReader[g] = "capped" /\ wgState[g] \in {"capped", "drain"}
    /\ g = "initiator" /\ wgReady[g] = "yes" /\ wgCount[g].cr = 0 /\ InTrace(wgIn[g], "2")
    /\ ~InSpent(g)

ReadPacket(g) ==
    /\ wgReader[g] \in {"capped", "active"} /\ Take(g)
    /\ wgReader' = [wgReader EXCEPT ![g] = NoPhase]
    /\ LET m == Head(wgNet[g])
       IN \/ /\ m \in {"F", "X"} /\ MayBuffer(g)
             /\ Spend(g, "cr") /\ wgFrame' = [wgFrame EXCEPT ![g] = m]
             /\ UNCHANGED <<wgState, wgOver, wgIn>>
          \/ /\ m \in {"F", "X"} /\ ~MayBuffer(g)
             /\ Close(g) /\ UNCHANGED <<wgCount, wgIn>>
          \/ /\ m \notin {"F", "X"} /\ wgReader[g] = "capped"
             /\ IF m \in {"1", "2", "4"} /\ ~InTrace(wgIn[g], m) /\ wgState[g] = "capped"
                THEN wgIn' = [wgIn EXCEPT ![g] = Append(@, m)] /\ Stay
                ELSE Close(g) /\ UNCHANGED wgIn
             /\ UNCHANGED wgCount
          \/ /\ m \notin {"F", "X"} /\ wgReader[g] = "active"
             /\ Stay /\ UNCHANGED <<wgCount, wgIn>>
    /\ UNCHANGED <<wgOut, wgReady, wgWriter, wgFinish, wgDurable, wgFaults>>

\* The read's context ended: the drain cancelled it, the caller polls, or
\* the phase is over.  inFlight drops before the cause is judged.
ReadCancelled(g) ==
    /\ wgReader[g] \in {"capped", "active"}
    /\ wgReader' = [wgReader EXCEPT ![g] = EndedRead[wgReader[g]]]
    /\ UNCHANGED <<wgState, wgTrace, wgReady, wgWriter, wgFinish, wgDurable, wgOver, wgNet,
                   wgSent, wgFaults>>

\* benignReadContextEnd
Benign(g, entered) ==
    \/ entered = "capped" /\ wgState[g] \in {"drain", "passed", "confirming", "active"}
    \/ wgState[g] = entered /\ (entered = "capped" => "challenge" \notin wgOver[g])

ReadJudged(g) ==
    /\ \E e \in {"capped", "active"}:
        /\ wgReader[g] = EndedRead[e]
        /\ IF Benign(g, e) THEN Stay ELSE Close(g)
    /\ wgReader' = [wgReader EXCEPT ![g] = NoPhase]
    /\ UNCHANGED <<wgOut, wgIn, wgCount, wgReady, wgWriter, wgFinish, wgDurable, wgNet,
                   wgSent, wgFaults>>

-----------------------------------------------------------------------------
(* CompleteChallenge: freeze, cancel the binder, wait for what is in flight. *)
CompleteChallenge(g) ==
    /\ wgState[g] = "capped" /\ "challenge" \notin wgOver[g] /\ TraceComplete(g)
    /\ Go(g, "drain")
    /\ UNCHANGED <<wgOut, wgIn, wgCount, wgReady, wgOps, wgFinish, wgDurable, wgNet, wgSent,
                   wgFaults>>

\* Mutant: the gate passes with operations still under way.
DrainIgnoresInFlight(g) ==
    /\ wgState[g] = "drain"
    /\ Go(g, "passed")
    /\ UNCHANGED <<wgOut, wgIn, wgCount, wgReady, wgOps, wgFinish, wgDurable, wgNet, wgSent,
                   wgFaults>>

\* Drained, or the drain's own deadline closed the gate.
Drain(g) ==
    /\ wgState[g] = "drain"
    /\ \/ ~InFlight(g) /\ Go(g, "passed") /\ UNCHANGED wgFaults
       \/ wgFaults < MaxFaults /\ wgFaults' = wgFaults + 1 /\ Close(g)
    /\ UNCHANGED <<wgOut, wgIn, wgCount, wgReady, wgOps, wgFinish, wgDurable, wgNet, wgSent>>

(* FinishAndActivate. *)

Finish(g, pc) == wgFinish' = [wgFinish EXCEPT ![g] = pc]
FinishFails(g) == Finish(g, "failed") /\ Close(g)
Alive(g) == "attempt" \notin wgOver[g]

FinishStart(g) ==
    /\ wgFinish[g] = "no" /\ wgState[g] = "passed"
    /\ IF ~InFlight(g) /\ Alive(g) THEN Finish(g, "locks") /\ Go(g, "confirming")
       ELSE FinishFails(g)
    /\ UNCHANGED <<wgOut, wgIn, wgCount, wgReady, wgOps, wgDurable, wgNet, wgSent, wgFaults>>

FinishLocks(g) ==
    /\ wgFinish[g] = "locks" /\ wgReader[g] = NoPhase /\ wgWriter[g] = NoPhase
    /\ IF Alive(g) THEN Finish(g, IF g = "initiator" THEN "confirm" ELSE "durable") /\ Stay
       ELSE FinishFails(g)
    /\ UNCHANGED <<wgOut, wgIn, wgCount, wgReady, wgOps, wgDurable, wgNet, wgSent, wgFaults>>

\* receiveCompletion: the buffered frame, else one more datagram.
FinishConfirm(g) ==
    /\ wgFinish[g] = "confirm"
    /\ \/ /\ wgFrame[g] # NoPhase
          /\ IF wgFrame[g] = "F"
             THEN /\ Finish(g, "durable") /\ wgFrame' = [wgFrame EXCEPT ![g] = NoPhase]
                  /\ UNCHANGED <<wgState, wgOver>>
             ELSE FinishFails(g)
          /\ Quiet /\ UNCHANGED <<wgCount, wgFaults>>
       \/ /\ wgFrame[g] = NoPhase /\ InSpent(g)
          /\ FinishFails(g) /\ Quiet /\ UNCHANGED <<wgCount, wgFaults>>
       \/ /\ wgFrame[g] = NoPhase /\ ~InSpent(g) /\ Take(g)
          /\ Spend(g, "cr")
          /\ IF Head(wgNet[g]) = "F" THEN Finish(g, "durable") /\ Stay ELSE FinishFails(g)
          /\ UNCHANGED wgFaults
       \/ /\ wgFrame[g] = NoPhase
          /\ Fails(g, "attempt") /\ FinishFails(g) /\ UNCHANGED wgCount
    /\ UNCHANGED <<wgOut, wgIn, wgReady, wgOps, wgDurable>>

\* The durable FINISH, which only a live attempt may write.
FinishDurable(g) ==
    /\ wgFinish[g] = "durable"
    /\ IF Alive(g)
       THEN \/ /\ wgDurable' = [wgDurable EXCEPT ![g] = TRUE]
               /\ Finish(g, IF g = "responder" THEN "send" ELSE "detach")
               /\ Stay /\ UNCHANGED wgFaults
            \/ /\ wgFaults < MaxFaults /\ wgFaults' = wgFaults + 1
               /\ FinishFails(g) /\ UNCHANGED wgDurable
       ELSE FinishFails(g) /\ UNCHANGED <<wgDurable, wgFaults>>
    /\ UNCHANGED <<wgOut, wgIn, wgCount, wgReady, wgOps, wgNet, wgSent>>

\* sendCompletion: the write is spent before it is made.
FinishSend(g) ==
    /\ wgFinish[g] = "send"
    /\ IF Alive(g) /\ wgState[g] = "confirming" /\ ~OutSpent(g)
       THEN /\ Spend(g, "cw")
            /\ \/ Send(g, "F") /\ Finish(g, "detach") /\ Stay /\ UNCHANGED wgFaults
               \/ Fails(g, "attempt") /\ FinishFails(g)
       ELSE FinishFails(g) /\ Quiet /\ UNCHANGED <<wgCount, wgFaults>>
    /\ UNCHANGED <<wgOut, wgIn, wgReady, wgOps, wgDurable>>

\* DetachAfterFinish and the activation, unless the gate was closed meanwhile.
FinishDetach(g) ==
    /\ wgFinish[g] = "detach"
    /\ \/ /\ Alive(g) /\ wgState[g] = "confirming"
          /\ Go(g, "active") /\ Finish(g, "done") /\ UNCHANGED wgFaults
       \/ /\ ~Alive(g) \/ wgState[g] # "confirming"
          /\ FinishFails(g) /\ UNCHANGED wgFaults
       \/ /\ wgFaults < MaxFaults /\ wgFaults' = wgFaults + 1    \* the lease is gone
          /\ FinishFails(g)
    /\ UNCHANGED <<wgOut, wgIn, wgCount, wgReady, wgOps, wgDurable, wgNet, wgSent>>

-----------------------------------------------------------------------------
(* Contexts that end, the owner's Close, the network. *)

GateExpire(g) ==
    /\ wgFaults < MaxFaults /\ wgFaults' = wgFaults + 1
    /\ \E S \in {{"challenge"}, {"challenge", "attempt"}}:
            ~(S \subseteq wgOver[g]) /\ wgOver' = [wgOver EXCEPT ![g] = @ \cup S]
    /\ UNCHANGED <<wgState, wgTrace, wgReady, wgOps, wgFinish, wgDurable, wgNet, wgSent>>

OwnerClose(g) ==
    /\ wgFaults < MaxFaults /\ wgFaults' = wgFaults + 1
    /\ wgState[g] # "closed" /\ Close(g)
    /\ UNCHANGED <<wgOut, wgIn, wgCount, wgReady, wgOps, wgFinish, wgDurable, wgNet, wgSent>>

Network(g) ==
    /\ wgFaults < MaxFaults /\ wgFaults' = wgFaults + 1
    /\ LET q == wgNet[g]
       IN \/ q # <<>> /\ wgNet' = [wgNet EXCEPT ![g] = Tail(q)]
          \/ q # <<>> /\ wgNet' = [wgNet EXCEPT ![g] = <<Head(q)>> \o q]
          \/ Len(q) > 1 /\ wgNet' = [wgNet EXCEPT ![g] = <<q[2], q[1]>> \o SubSeq(q, 3, Len(q))]
          \/ wgNet' = [wgNet EXCEPT ![g] = <<"X">> \o q]
    /\ UNCHANGED <<wgState, wgTrace, wgReady, wgOps, wgFinish, wgDurable, wgOver, wgSent>>

\* The steps the gate and its owner owe; a read owes its return when there
\* is a datagram or its context ended.
ConsumerReady(g) == ReadyStart(g) \/ ReadyWrite(g) \/ ReadyRead(g) \/ ReadyEnd(g)
finishWithConfirmation(g) == \/ FinishStart(g) \/ FinishLocks(g) \/ FinishConfirm(g)
                             \/ FinishDurable(g) \/ FinishSend(g) \/ FinishDetach(g)
Owner(g) == \/ BeginChallenge(g) \/ ConsumerReady(g) \/ CompleteChallenge(g) \/ Drain(g)
            \/ finishWithConfirmation(g)
Writer(g) == (\E m \in {"1", "2", "4"}: WriteBegin(g, m)) \/ WriteSend(g) \/ WriteEnd(g)
WritePacket(g) == Writer(g) \/ WriteRefused(g) \/ ActiveWrite(g)
CancelledByDrain(g) == wgState[g] # wgReader[g] /\ ReadCancelled(g)

GateNext ==
    \/ \E g \in Roles:
        \/ Owner(g) \/ WritePacket(g)
        \/ ReadBegin(g) \/ ReadPacket(g) \/ ReadCancelled(g) \/ ReadJudged(g)
        \/ GateExpire(g) \/ OwnerClose(g) \/ Network(g)

GateSpec == GateInit /\ [][GateNext]_gateVars

-----------------------------------------------------------------------------
\* The initiator's session is active, or its FINISH recorded, only when the
\* responder's FINISH is durable, whatever the network lost, repeated,
\* reordered or forged (ADR 19.9); and between the drain and the activation
\* wireguard-go has no packet I/O under way.
ConfirmedFinish ==
    /\ wgDurable["initiator"] => wgDurable["responder"]
    /\ \A g \in Roles:
        /\ wgState[g] = "active" => wgDurable[g]
        /\ wgState[g] \in {"passed", "confirming"} => ~InFlight(g)

Active(g) == wgState[g] = "active"

\* The one way to lose a session without a fault: the responder's receive polls
\* again, its allowance spent by the keepalive, while the writer of message 2 is
\* between the transport and its trace entry, so the trace is not complete yet.
PolledEarly ==
    /\ wgState["responder"] = "closed"
    /\ wgIn["responder"] = <<"1", "4">> /\ wgOut["responder"] = <<>>
=============================================================================
