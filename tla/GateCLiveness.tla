---------------------------- MODULE GateCLiveness ----------------------------
(***************************************************************************)
(* The liveness protocol of an established Gate C session                  *)
(* (internal/v2/gatecorchestrator/liveness_model.go, liveness_controller.go*)
(* and liveness_clock.go; internal/probeio/wireguard_active_policy.go).    *)
(*                                                                         *)
(* Each end sends a PING per slot, answers the peer's PINGs once, and may  *)
(* write only while a PONG to a PING of its own is younger than the lease. *)
(* An end has a foreground loop, a writer, a watchdog and the tap that     *)
(* WireGuard calls; WireGuard asks the policy before every write.  Time is *)
(* a count of units; a unit ends only when every due step was taken,       *)
(* except MaxLate times.  An instant is [m, u]: the monotonic time and the *)
(* UTC time since the end was armed.                                       *)
(***************************************************************************)
EXTENDS Integers, Sequences, FiniteSets, FiniteSetsExt, SequencesExt

CONSTANTS
    Interval, Response, WriteWindow, Tolerance,     \* K, R, the write window, 2s
    Rounds,         \* missed_rounds
    Ceiling,        \* the session ceiling of both ends
    MaxDelay,       \* units a packet is under way
    Skews,          \* when the responder is armed, the initiator at 0
    Cancels,        \* ends whose caller may cancel
    MaxControl,     \* bound: packets WireGuard sends on its own, per end
    ControlCap,     \* such packets a unit may have
    MaxLate, MaxFaults, MaxAdjust, MaxTime          \* bounds

VARIABLES
    lvNow, lvArm,   \* time, and when each end was armed
    lvUtc,          \* how far UTC ran ahead of the monotonic clock
    lvTerm,         \* the terminal error, or "none"
    lvStop,         \* the controller ended: stop, gate and interface closed
    lvRun,          \* foreground: "loop", "closing", "drain", "done", "failed"
    lvEnd,          \* what run returned
    lvProof, lvPending, lvSeq, lvHigh, lvSlot,      \* the model
    lvWindow,       \* monotonic times of admissions
    lvPings, lvPongs,                               \* admitted so far
    lvIn, lvOut,    \* inbound and outbound queues, two places each
    lvWriting,      \* the emission being injected, as a set
    lvStalled,      \* InjectPacket blocks until the interface closes
    lvWire,         \* packets inside WireGuard, not yet written
    lvNet,          \* packets on their way to an end
    lvControl,      \* [n, now]: automatic packets sent, and in this unit
    lvTrip,         \* the violation the end made durable, or "none"
    lvOwner,        \* the machine is still ours
    lvCancelled,    \* the caller cancelled
    lvClose,        \* window of the CLOSE being awaited, as a set
    lvLast, lvDown, \* when an end last wrote, when it ended
    lvLate, lvFaults, lvAdjust

vars == <<lvNow, lvArm, lvUtc, lvTerm, lvStop, lvRun, lvEnd, lvProof, lvPending, lvSeq, lvHigh,
          lvSlot, lvWindow, lvPings, lvPongs, lvIn, lvOut, lvWriting, lvStalled, lvWire, lvNet,
          lvControl, lvTrip, lvOwner, lvCancelled, lvClose, lvLast, lvDown, lvLate, lvFaults,
          lvAdjust>>

modelVars == <<lvProof, lvPending, lvSeq, lvHigh, lvSlot, lvWindow, lvPings, lvPongs>>
queueVars == <<lvIn, lvOut>>
writeVars == <<lvWriting, lvStalled>>
endVars == <<lvTerm, lvStop, lvTrip, lvDown>>
runVars == <<lvRun, lvEnd, lvClose, lvCancelled>>
envVars == <<lvNow, lvArm, lvUtc, lvOwner, lvLate, lvFaults, lvAdjust>>
wireVars == <<lvWire, lvNet, lvControl, lvLast>>

Ends == {"i", "r"}
Other(e) == IF e = "i" THEN "r" ELSE "i"
Never == -1

-----------------------------------------------------------------------------
(* freezeLivenessBudget and the clock. *)

Pings == (Ceiling + Interval - 1) \div Interval
Pongs == Pings + 1
Lease == Rounds * Interval + Response

Armed(e) == lvNow >= lvArm[e]
Instant(e) == [m |-> lvNow - lvArm[e], u |-> lvNow - lvArm[e] + lvUtc[e]]
elapsed(e) == Max({Instant(e).m, Instant(e).u})

age(e, sent) == Max({Instant(e).m - sent.m, Instant(e).u - sent.u})

ClockBroken(e) == lvUtc[e] > Tolerance \/ lvUtc[e] < -Tolerance

\* Mutant: the lease of the last proof is not looked at, only the ceiling.
permitWithoutLease(e) ==
    IF lvTerm[e] # "none" THEN lvTerm[e]
    ELSE IF lvStop[e] THEN "canceled"
    ELSE IF ~lvOwner[e] /\ lvTrip[e] = "none" THEN "unavailable"
    ELSE IF ClockBroken(e) THEN "clock"
    ELSE IF elapsed(e) >= Ceiling THEN "ceiling"
    ELSE "none"

\* checkLocked: the error of permit, "none" when the end may go on.
permit(e) ==
    IF lvTerm[e] # "none" THEN lvTerm[e]
    ELSE IF lvStop[e] THEN "canceled"
    ELSE IF ~lvOwner[e] /\ lvTrip[e] = "none" THEN "unavailable"
    ELSE IF ClockBroken(e) THEN "clock"
    ELSE IF elapsed(e) >= Ceiling THEN "ceiling"
    ELSE IF age(e, lvProof[e]) >= Lease THEN "timeout"
    ELSE "none"

\* A pending PING is dropped once its response window has passed.
pending(e) == {p \in lvPending[e]: age(e, p.sent) < Response}

windowExpired(e, w) ==
    age(e, w.sent) >= WriteWindow \/ age(e, w.proof) >= Lease \/ elapsed(e) >= Ceiling

-----------------------------------------------------------------------------
(* The end of a controller. *)

endWith(e, err) ==
    /\ lvTerm' = [lvTerm EXCEPT ![e] = IF @ = "none" THEN err ELSE @]
    /\ lvStop' = [lvStop EXCEPT ![e] = TRUE]
    /\ lvDown' = [lvDown EXCEPT ![e] = IF @ = Never THEN lvNow ELSE @]

\* hardViolation: made durable by the machine's owner, or not at all.
hardViolation(e, v) ==
    /\ lvTrip' = [lvTrip EXCEPT ![e] = IF @ = "none" /\ lvOwner[e] THEN v ELSE @]
    /\ endWith(e, CASE ~lvOwner[e] /\ lvTrip[e] = "none" -> "unavailable"
                    [] v \in {"bypass", "control"} -> "budget"
                    [] OTHER -> "drain")

livenessEnd(err) ==
    CASE err = "timeout" -> "liveness_timeout"
      [] err = "ceiling" -> "absolute_ceiling"
      [] err \in {"canceled", "none"} -> "canceled"
      [] OTHER -> "liveness_failed"

-----------------------------------------------------------------------------
Init ==
    /\ lvNow = 0 /\ lvArm \in [Ends -> Skews \cup {0}] /\ lvArm["i"] = 0
    /\ lvUtc = [e \in Ends |-> 0]
    /\ lvTerm = [e \in Ends |-> "none"] /\ lvStop = [e \in Ends |-> FALSE]
    /\ lvRun = [e \in Ends |-> "loop"] /\ lvEnd = [e \in Ends |-> "none"]
    /\ lvProof = [e \in Ends |-> [m |-> 0, u |-> 0]] /\ lvPending = [e \in Ends |-> {}]
    /\ lvSeq = [e \in Ends |-> 0] /\ lvHigh = [e \in Ends |-> 0]
    /\ lvSlot = [e \in Ends |-> Interval] /\ lvWindow = [e \in Ends |-> <<>>]
    /\ lvPings = [e \in Ends |-> 0] /\ lvPongs = [e \in Ends |-> 0]
    /\ lvIn = [e \in Ends |-> <<>>] /\ lvOut = [e \in Ends |-> <<>>]
    /\ lvWriting = [e \in Ends |-> {}] /\ lvStalled = [e \in Ends |-> FALSE]
    /\ lvWire = [e \in Ends |-> <<>>] /\ lvNet = [e \in Ends |-> {}]
    /\ lvControl = [e \in Ends |-> [n |-> 0, now |-> 0]]
    /\ lvTrip = [e \in Ends |-> "none"] /\ lvOwner = [e \in Ends |-> TRUE]
    /\ lvCancelled = [e \in Ends |-> FALSE] /\ lvClose = [e \in Ends |-> {}]
    /\ lvLast = [e \in Ends |-> Never] /\ lvDown = [e \in Ends |-> Never]
    /\ lvLate = 0 /\ lvFaults = 0 /\ lvAdjust = 0

-----------------------------------------------------------------------------
(* Admission. *)

\* The rolling window, on the monotonic clock alone.
Recent(e) == SelectSeq(lvWindow[e], LAMBDA t: Instant(e).m - t < Interval)

Full(e, kind) ==
    \/ Len(Recent(e)) = 4 \/ lvPings[e] + lvPongs[e] >= 2 * Pings + 1
    \/ kind = "ping" /\ lvPings[e] >= Pings
    \/ kind = "pong" /\ lvPongs[e] >= Pongs

Emission(e, kind, seq) == [kind |-> kind, seq |-> seq, sent |-> Instant(e), proof |-> lvProof[e]]

\* admitLocked, intentLocked and enqueue: an admitted intent that finds no
\* place is dropped and stays charged.
Admit(e, kind, seq) ==
    \/ /\ Full(e, kind)
       /\ lvWindow' = [lvWindow EXCEPT ![e] = Recent(e)]
       /\ UNCHANGED <<lvPings, lvPongs, lvOut>>
    \/ /\ ~Full(e, kind)
       /\ lvWindow' = [lvWindow EXCEPT ![e] = Append(Recent(e), Instant(e).m)]
       /\ lvPings' = [lvPings EXCEPT ![e] = @ + IF kind = "ping" THEN 1 ELSE 0]
       /\ lvPongs' = [lvPongs EXCEPT ![e] = @ + IF kind = "pong" THEN 1 ELSE 0]
       /\ lvOut' = [lvOut EXCEPT ![e] = IF Len(@) < 2 THEN Append(@, Emission(e, kind, seq)) ELSE @]

-----------------------------------------------------------------------------
(* The foreground loop. *)

Looping(e) == Armed(e) /\ lvRun[e] = "loop"

\* A run that ended with err goes to its drain.
RunEnds(e, err, result) ==
    /\ endWith(e, err) /\ lvRun' = [lvRun EXCEPT ![e] = "drain"]
    /\ lvEnd' = [lvEnd EXCEPT ![e] = result]
    /\ UNCHANGED <<modelVars, queueVars, lvTrip, lvClose, lvCancelled>>

\* permit fails, or another worker ended the controller.
RunStops(e) ==
    /\ Looping(e) /\ permit(e) # "none"
    /\ RunEnds(e, permit(e), livenessEnd(permit(e)))
    /\ UNCHANGED <<envVars, writeVars, wireVars>>

\* preparePing and ping, on the tick that finds the slot reached.
RunPing(e) ==
    LET left == Min({Ceiling - elapsed(e), Lease - age(e, lvProof[e])})
        skip == pending(e) # {} \/ Response > left
    IN
    /\ Looping(e) /\ permit(e) = "none" /\ elapsed(e) >= lvSlot[e]
    /\ \/ /\ skip
          /\ UNCHANGED <<lvSeq, lvWindow, lvPings, lvPongs, lvOut, runVars, endVars>>
          /\ lvPending' = [lvPending EXCEPT ![e] = pending(e)]
       \/ /\ ~skip /\ lvSeq[e] < Pings
          /\ lvSeq' = [lvSeq EXCEPT ![e] = @ + 1]
          /\ Admit(e, "ping", lvSeq[e] + 1)
          /\ lvPending' = [lvPending EXCEPT ![e] =
               IF Full(e, "ping") THEN {} ELSE {[seq |-> lvSeq[e] + 1, sent |-> Instant(e)]}]
          /\ UNCHANGED <<runVars, endVars>>
    /\ lvSlot' = [lvSlot EXCEPT ![e] = (elapsed(e) \div Interval + 1) * Interval]
    /\ UNCHANGED <<lvProof, lvHigh, lvIn, envVars, writeVars, wireVars>>

\* The slots outlast the budget of sequences: the session ends.
PingExhausted(e) ==
    /\ Looping(e) /\ permit(e) = "none" /\ elapsed(e) >= lvSlot[e] /\ pending(e) = {}
    /\ Response <= Min({Ceiling - elapsed(e), Lease - age(e, lvProof[e])})
    /\ lvSeq[e] >= Pings

\* receive of a PONG: the one that answers the pending PING renews the lease,
\* from the moment that PING was admitted.
receivePong(e, p) ==
    LET match == {q \in pending(e): q.seq = p.seq} IN
    /\ lvProof' = [lvProof EXCEPT ![e] = IF match = {} THEN @ ELSE (CHOOSE q \in match: TRUE).sent]
    /\ lvPending' = [lvPending EXCEPT ![e] = pending(e) \ match]
    /\ UNCHANGED <<lvSeq, lvHigh, lvSlot, lvWindow, lvPings, lvPongs, lvOut>>

\* receive of a PING: a sequence is consumed once, admitted or not.
receivePing(e, p) ==
    \/ p.seq <= lvHigh[e] /\ UNCHANGED <<modelVars, lvOut>>
    \/ /\ p.seq > lvHigh[e] /\ p.seq <= Pongs
       /\ lvHigh' = [lvHigh EXCEPT ![e] = p.seq] /\ Admit(e, "pong", p.seq)
       /\ UNCHANGED <<lvProof, lvPending, lvSeq, lvSlot>>

\* The next inbound packet.
RunReceive(e) ==
    LET p == Head(lvIn[e]) IN
    /\ Looping(e) /\ permit(e) = "none" /\ lvIn[e] # <<>>
    /\ \/ p.kind = "close" /\ RunEnds(e, "none", "authenticated_close")
       \/ /\ \/ p.kind = "pong" /\ receivePong(e, p)
             \/ p.kind = "ping" /\ receivePing(e, p)
          /\ lvIn' = [lvIn EXCEPT ![e] = Tail(@)] /\ UNCHANGED <<endVars, runVars>>
    /\ UNCHANGED <<envVars, writeVars, wireVars>>

\* A PING beyond the budget: the session ends with a protocol error.
PingBeyond(e) ==
    /\ Looping(e) /\ permit(e) = "none" /\ lvIn[e] # <<>>
    /\ Head(lvIn[e]).kind = "ping" /\ Head(lvIn[e]).seq > Pongs

\* The caller cancels: bestEffortClose puts one CLOSE behind what is queued,
\* or drops it for want of room, and waits.
RunCancel(e) ==
    /\ Looping(e) /\ permit(e) = "none" /\ e \in Cancels
    /\ lvCancelled' = [lvCancelled EXCEPT ![e] = TRUE]
    /\ lvOut' = [lvOut EXCEPT ![e] = IF Len(@) < 2 THEN Append(@, Emission(e, "close", 0)) ELSE @]
    /\ lvClose' = [lvClose EXCEPT ![e] = {[sent |-> Instant(e), proof |-> lvProof[e]]}]
    /\ lvRun' = [lvRun EXCEPT ![e] = "closing"] /\ UNCHANGED <<lvEnd, endVars>>
    /\ UNCHANGED <<modelVars, lvIn, envVars, writeVars, wireVars>>

\* bestEffortClose waits out the window; a write still under way then is a
\* stalled writer.
RunClosed(e) ==
    LET expired == permit(e) = "none" /\ \E w \in lvClose[e]: windowExpired(e, w) IN
    /\ lvRun[e] = "closing" /\ (permit(e) # "none" \/ expired)
    /\ \/ /\ expired /\ lvWriting[e] # {} /\ hardViolation(e, "writer")
       \/ /\ ~(expired /\ lvWriting[e] # {}) /\ endWith(e, "none") /\ UNCHANGED lvTrip
    /\ lvRun' = [lvRun EXCEPT ![e] = "drain"]
    /\ lvEnd' = [lvEnd EXCEPT ![e] = livenessEnd(lvTerm'[e])]
    /\ UNCHANGED <<modelVars, queueVars, lvClose, lvCancelled, envVars, writeVars, wireVars>>

-----------------------------------------------------------------------------
(* The writer, the watchdog and the tap. *)

\* permit and beginWrite: an expired emission is dropped.
WriterTake(e) ==
    LET w == Head(lvOut[e]) IN
    /\ ~lvStop[e] /\ lvOut[e] # <<>> /\ lvWriting[e] = {}
    /\ lvOut' = [lvOut EXCEPT ![e] = Tail(@)]
    /\ \/ /\ permit(e) # "none" /\ endWith(e, permit(e)) /\ UNCHANGED lvWriting
       \/ /\ permit(e) = "none"
          /\ lvWriting' = [lvWriting EXCEPT ![e] = IF windowExpired(e, w) THEN {} ELSE {w}]
          /\ UNCHANGED <<lvTerm, lvStop, lvDown>>
    /\ UNCHANGED <<lvTrip, modelVars, lvIn, lvStalled, runVars, envVars, wireVars>>

\* InjectPacket returns; a failure counts unless the controller ended first.
WriterInject(e) ==
    \E w \in lvWriting[e]:
    /\ ~lvStalled[e] /\ lvWriting' = [lvWriting EXCEPT ![e] = {}]
    /\ \/ /\ ~lvStop[e]
          /\ lvWire' = [lvWire EXCEPT ![e] = Append(@, [kind |-> w.kind, seq |-> w.seq])]
          /\ UNCHANGED <<endVars, lvFaults>>
       \/ /\ ~lvStop[e] /\ lvFaults < MaxFaults /\ lvFaults' = lvFaults + 1
          /\ hardViolation(e, "writer") /\ UNCHANGED lvWire
       \/ lvStop[e] /\ UNCHANGED <<endVars, lvWire, lvFaults>>
    /\ UNCHANGED <<modelVars, queueVars, lvStalled, runVars, lvNow, lvArm, lvUtc, lvOwner, lvLate,
                   lvAdjust, lvNet, lvControl, lvLast>>

Stall(e) ==
    /\ lvWriting[e] # {} /\ ~lvStalled[e] /\ lvFaults < MaxFaults
    /\ lvFaults' = lvFaults + 1 /\ lvStalled' = [lvStalled EXCEPT ![e] = TRUE]
    /\ UNCHANGED <<modelVars, queueVars, lvWriting, endVars, runVars, wireVars, lvNow, lvArm, lvUtc,
                   lvOwner, lvLate, lvAdjust>>

\* A blocked InjectPacket returns when the interface is closed.
Unstall(e) ==
    /\ lvStalled[e] /\ lvStop[e]
    /\ lvStalled' = [lvStalled EXCEPT ![e] = FALSE]
    /\ UNCHANGED <<modelVars, queueVars, lvWriting, endVars, runVars, wireVars, envVars>>

watchdog(e) ==
    /\ Armed(e) /\ ~lvStop[e]
    /\ \/ permit(e) # "none" /\ endWith(e, permit(e)) /\ UNCHANGED lvTrip
       \/ /\ permit(e) = "none" /\ \E w \in lvWriting[e]: windowExpired(e, w)
          /\ hardViolation(e, "writer")
    /\ UNCHANGED <<modelVars, queueVars, writeVars, runVars, wireVars, envVars>>

\* Deliver, called by WireGuard: a full queue drops the packet.
Deliver(e) ==
    \E p \in lvNet[e]:
    /\ lvNet' = [lvNet EXCEPT ![e] = @ \ {p}]
    /\ lvIn' = [lvIn EXCEPT ![e] =
         IF Armed(e) /\ ~lvStop[e] /\ Len(@) < 2 THEN Append(@, [kind |-> p.kind, seq |-> p.seq]) ELSE @]
    /\ UNCHANGED <<modelVars, lvOut, writeVars, endVars, runVars, envVars, lvWire, lvControl, lvLast>>

-----------------------------------------------------------------------------
(* WireGuard and its gate. *)

\* beforeWrite: the permit decides on every write.
beforeWrite(e) == ~lvStop[e] /\ permit(e) = "none"

\* WritePacket of the gate: a refused permit is terminal and closes the gate; a
\* transport that fails is reported as a failed writer.  What was written may
\* still get lost.
GateWrite(e) ==
    LET p == Head(lvWire[e])
        faulty == lvFaults < MaxFaults /\ lvFaults' = lvFaults + 1
    IN
    /\ lvWire[e] # <<>>
    /\ lvWire' = [lvWire EXCEPT ![e] = Tail(@)]
    /\ \/ /\ beforeWrite(e) /\ lvLast' = [lvLast EXCEPT ![e] = lvNow]
          /\ \/ /\ lvNet' = [lvNet EXCEPT ![Other(e)] = @ \cup {[kind |-> p.kind, seq |-> p.seq, at |-> lvNow]}]
                /\ UNCHANGED lvFaults
             \/ faulty /\ UNCHANGED lvNet
          /\ UNCHANGED endVars
       \/ beforeWrite(e) /\ faulty /\ hardViolation(e, "writer") /\ UNCHANGED <<lvNet, lvLast>>
       \/ /\ ~beforeWrite(e)
          /\ lvTerm' = [lvTerm EXCEPT ![e] = IF permit(e) = "canceled" THEN @ ELSE permit(e)]
          /\ UNCHANGED <<lvNet, lvLast, lvFaults, lvStop, lvTrip, lvDown>>
    /\ UNCHANGED <<modelVars, queueVars, writeVars, runVars, lvControl, lvNow, lvArm, lvUtc,
                   lvOwner, lvLate, lvAdjust>>

\* A handshake, cookie or keepalive of WireGuard's own: more of them in a
\* second than the lane carries ends the session and trips the machine.
WgControl(e) ==
    /\ Armed(e) /\ ~lvStop[e] /\ beforeWrite(e)
    /\ \/ /\ lvControl[e].now < ControlCap /\ lvControl[e].n < MaxControl
          /\ lvControl' = [lvControl EXCEPT ![e] = [n |-> @.n + 1, now |-> @.now + 1]]
          /\ lvLast' = [lvLast EXCEPT ![e] = lvNow] /\ UNCHANGED endVars
       \/ /\ lvControl[e].now >= ControlCap
          /\ hardViolation(e, "control") /\ UNCHANGED <<lvControl, lvLast>>
    /\ UNCHANGED <<modelVars, queueVars, writeVars, runVars, lvWire, lvNet, envVars>>

\* The network repeats a packet it delivers.
Repeat(e) ==
    \E p \in lvNet[e]:
    /\ lvFaults < MaxFaults /\ lvFaults' = lvFaults + 1 /\ lvNow < p.at + MaxDelay
    /\ Armed(e) /\ ~lvStop[e] /\ Len(lvIn[e]) < 2
    /\ lvIn' = [lvIn EXCEPT ![e] = Append(@, [kind |-> p.kind, seq |-> p.seq])]
    /\ UNCHANGED <<modelVars, lvOut, writeVars, endVars, runVars, wireVars, lvNow, lvArm, lvUtc,
                   lvOwner, lvLate, lvAdjust>>

-----------------------------------------------------------------------------
(* Drain, and the world. *)

\* drain joins the writer and the watchdog and empties the queues.
Drain(e) ==
    /\ lvRun[e] = "drain" /\ lvWriting[e] = {}
    /\ lvIn' = [lvIn EXCEPT ![e] = <<>>] /\ lvOut' = [lvOut EXCEPT ![e] = <<>>]
    /\ lvPending' = [lvPending EXCEPT ![e] = {}]
    /\ lvRun' = [lvRun EXCEPT ![e] = "done"]
    /\ UNCHANGED <<lvProof, lvSeq, lvHigh, lvSlot, lvWindow, lvPings, lvPongs, writeVars, endVars,
                   lvEnd, lvClose, lvCancelled, wireVars, envVars>>

\* A writer that does not return in time: the drain fails and says so.
DrainFails(e) ==
    /\ lvRun[e] = "drain" /\ lvStalled[e] /\ hardViolation(e, "drainfailure")
    /\ lvRun' = [lvRun EXCEPT ![e] = "failed"]
    /\ UNCHANGED <<modelVars, queueVars, writeVars, lvEnd, lvClose, lvCancelled, wireVars, envVars>>

\* The machine is closed or tripped by someone else.
OwnerLost(e) ==
    /\ lvOwner[e] /\ lvFaults < MaxFaults /\ lvFaults' = lvFaults + 1
    /\ lvOwner' = [lvOwner EXCEPT ![e] = FALSE]
    /\ UNCHANGED <<modelVars, queueVars, writeVars, endVars, runVars, wireVars, lvNow, lvArm, lvUtc,
                   lvLate, lvAdjust>>

\* UTC is set forward or back.
Adjust(e) ==
    \E d \in {-1, 1}:
    /\ Armed(e) /\ ~lvStop[e] /\ lvAdjust < MaxAdjust /\ lvAdjust' = lvAdjust + 1
    /\ lvUtc' = [lvUtc EXCEPT ![e] = @ + d]
    /\ UNCHANGED <<modelVars, queueVars, writeVars, endVars, runVars, wireVars, lvNow, lvArm, lvOwner,
                   lvLate, lvFaults>>

Due(e) ==
    \/ Looping(e) /\ (permit(e) # "none" \/ elapsed(e) >= lvSlot[e] \/ lvIn[e] # <<>>)
    \/ lvRun[e] = "closing" /\ (permit(e) # "none" \/ \E w \in lvClose[e]: windowExpired(e, w))
    \/ lvRun[e] = "drain"
    \/ ~lvStop[e] /\ lvOut[e] # <<>> /\ lvWriting[e] = {}
    \/ lvWriting[e] # {} /\ ~lvStalled[e]
    \/ ~lvStop[e] /\ \E w \in lvWriting[e]: windowExpired(e, w)
    \/ lvWire[e] # <<>>
    \/ \E p \in lvNet[e]: lvNow >= p.at + MaxDelay

Tick ==
    /\ lvNow < MaxTime /\ lvNow' = lvNow + 1
    /\ \/ (\A e \in Ends: ~Due(e)) /\ UNCHANGED lvLate
       \/ (\E e \in Ends: Due(e)) /\ lvLate < MaxLate /\ lvLate' = lvLate + 1
    /\ lvControl' = [e \in Ends |-> [lvControl[e] EXCEPT !.now = 0]]
    /\ UNCHANGED <<lvArm, lvUtc, lvOwner, lvFaults, lvAdjust, modelVars, queueVars, writeVars,
                   endVars, runVars, lvWire, lvNet, lvLast>>

run(e) == RunStops(e) \/ RunPing(e) \/ RunReceive(e)
bestEffortClose(e) == RunCancel(e) \/ RunClosed(e)
Step(e) ==
    \/ run(e) \/ bestEffortClose(e)
    \/ WriterTake(e) \/ WriterInject(e) \/ Unstall(e) \/ watchdog(e) \/ Deliver(e) \/ GateWrite(e)
    \/ Drain(e) \/ DrainFails(e)

Next ==
    \/ \E e \in Ends: Step(e) \/ Stall(e) \/ WgControl(e) \/ Repeat(e)
                         \/ OwnerLost(e) \/ Adjust(e)
    \/ Tick

Spec == Init /\ [][Next]_vars

-----------------------------------------------------------------------------
(* Properties. *)

\* An end that lost its peer writes nothing, of WireGuard's own or of ours,
\* once the lease has passed since the peer ended: no traffic, no clock
\* adjustment and no late PONG makes the session live longer.
WritesNeedPeer == \A e \in Ends:
    lvLast[e] # Never /\ lvDown[Other(e)] # Never =>
        lvLast[e] < Max({lvDown[Other(e)], lvArm[e]}) + Lease

\* Two ends with the same ceiling never exhaust a sequence or send a PING the
\* other takes for a protocol error, whatever is lost, repeated or late.
NoProtocolError == \A e \in Ends: ~PingExhausted(e) /\ ~PingBeyond(e)

\* The machine is tripped only for a writer that failed or seemed to stall, or
\* a control lane that overflowed, never by a cancel, an expiry or a full queue.
TripHasCause == \A e \in Ends:
    /\ lvTrip[e] = "writer" => lvFaults > 0 \/ lvLate > 0 \/ lvAdjust > 0
    /\ lvTrip[e] = "drainfailure" => lvFaults > 0
    /\ lvTrip[e] = "control" => lvControl[e].n >= ControlCap
    /\ lvTrip[e] # "none" => lvStop[e]

\* Between punctual ends and without faults no session dies of a timeout, and
\* one that does has had a PING unanswered in each round but the last.
TimeoutHasCause == \A e \in Ends:
    lvTerm[e] = "timeout" =>
        /\ lvFaults > 0 \/ lvLate > 0 \/ lvAdjust > 0 \/ lvDown[Other(e)] # Never
           \/ 2 * MaxDelay >= Response \/ lvArm["r"] > 0
        /\ lvSeq[e] >= Rounds - 1 \/ lvLate > 0

\* A drained controller holds nothing back.
DrainedIsEmpty == \A e \in Ends: lvRun[e] = "done" =>
    lvStop[e] /\ lvIn[e] = <<>> /\ lvOut[e] = <<>> /\ lvPending[e] = {} /\ lvWriting[e] = {}

LivenessSafe ==
    WritesNeedPeer /\ NoProtocolError /\ TripHasCause /\ TimeoutHasCause /\ DrainedIsEmpty
=============================================================================
