---------------------------- MODULE DirectAttempt ----------------------------
(***************************************************************************)
(* One direct attempt between an initiator "i" and a responder "r", in the *)
(* two forms the program has: "gatea" over an adopted out-of-band stream   *)
(* (directconnect/gatea, with the data-plane challenge) and "n3b" over the *)
(* one-shot rendezvous relay (directconnect, rendezvouscarrier and the     *)
(* server in rendezvousserver).  Both speak the sealed protocol of         *)
(* directattempt: PREPARE, READY, FIRE and VERIFY on the stream, SYN,      *)
(* SYNACK and ACK by UDP, which may lose, reorder or duplicate them.       *)
(*                                                                         *)
(* Cryptography, addresses, STUN replies and byte counts are abstracted.   *)
(***************************************************************************)
EXTENDS Naturals, Sequences, FiniteSets

CONSTANTS Kinds,      \* the forms of the attempt in the instance
          Deadlines,  \* the ends whose envelope may expire
          MaxFaults   \* local faults, duplicated datagrams, a server deadline

Ends == {"i", "r"}
Peer(e) == IF e = "i" THEN "r" ELSE "i"
ControlFrames == {"prepare", "ready", "fire", "verify"}
DirectFrames == {"syn", "synack", "ack"}
MaxFramesPerDirection == 8
challengePackets == 3

VARIABLES daKind,     \* the form of this attempt
          daEnd,      \* the runtime of each end
          daQueue,    \* frames on their way to each end
          daUp,       \* frames on their way from each end to the relay
          daSrv,      \* the relay
          daNet,      \* datagrams in flight
          daFaults
daVars == <<daKind, daEnd, daQueue, daUp, daSrv, daNet, daFaults>>

GateA == daKind = "gatea"

----------------------------------------------------------------------------
(* The script of an end.                                                   *)

Local(what) == << <<"local", what>> >>

\* exchangeSymmetricControl of Gate A: the initiator speaks first.
Turns(e, f) == IF e = "i" THEN << <<"send", f>>, <<"recv", f>> >>
                          ELSE << <<"recv", f>>, <<"send", f>> >>

\* exchangeControl of the relayed form: both ends speak, then both listen.
exchangeControl(f) == << <<"send", f>>, <<"recv", f>> >>

exchangeReady(e) == Turns(e, "ready")
relayedReady == exchangeControl("ready")

\* AwaitPresence and Activate: answered by the relay; between the ends in Gate A.
AwaitPresence == << <<"send", "presence">>, <<"recv", "presence_ready">> >>
Activate == << <<"send", "activate">>, <<"recv", "activate_ready">> >>

\* The Noise handshake has the same turns in both forms.
handshake(e) == Turns(e, "handshake")
relayedHandshake(e) == Turns(e, "handshake")

fire(e) == IF e = "i" THEN << <<"send", "fire">> >> ELSE << <<"recv", "fire">> >>

punch(e) == IF e = "i" THEN << <<"probe", "syn">>, <<"local", "await">>, <<"probe", "ack">> >>
                       ELSE << <<"probe", "synack">>, <<"local", "await">> >>

\* The stages of an end, up to the secure channel and after it.
GateAOpening(e) ==
  Local("acquire") \o Local("adopt") \o Turns(e, "presence") \o Local("burn") \o Turns(e, "activate")
    \o handshake(e)

GateAScript(e) ==
  GateAOpening(e) \o Turns(e, "prepare") \o Local("observe") \o exchangeReady(e) \o fire(e) \o punch(e)
    \o Turns(e, "verify") \o Local("promote") \o Local("challenge") \o Local("return")

RelayedOpening(e) ==
  Local("acquire") \o Local("adopt") \o AwaitPresence \o Local("burn") \o Activate \o relayedHandshake(e)

RelayedScript(e) ==
  RelayedOpening(e) \o exchangeControl("prepare") \o Local("observe") \o relayedReady \o fire(e)
    \o punch(e) \o exchangeControl("verify") \o Local("promote") \o Local("return")

GateAScripts == [e \in Ends |-> GateAScript(e)]
RelayedScripts == [e \in Ends |-> RelayedScript(e)]
Script(e) == IF GateA THEN GateAScripts[e] ELSE RelayedScripts[e]

Op(e) == Script(e)[daEnd[e].at]
Running(e) == daEnd[e].phase = "run"
At(e, kind, what) == Running(e) /\ Op(e) = <<kind, what>>

Protocol0 == [sent |-> {}, got |-> {}, terminal |-> FALSE, success |-> FALSE]

End0 == [phase |-> "run", at |-> 1, in |-> FALSE, attempt |-> FALSE, car |-> "none", written |-> 0,
         dead |-> FALSE, burned |-> FALSE, recorded |-> FALSE, auth |-> FALSE, p |-> Protocol0,
         received |-> 0, wrote |-> 0, seen |-> {}, out |-> "none", reason |-> "none"]

Server0 == [phase |-> "presence", at |-> {}, handshake |-> {}, control |-> [e \in Ends |-> 0],
            read |-> [e \in Ends |-> 0], written |-> [e \in Ends |-> 0], class |-> "none"]

Init == /\ daKind \in Kinds
        /\ daEnd = [e \in Ends |-> End0]
        /\ daQueue = [e \in Ends |-> <<>>]
        /\ daUp = [e \in Ends |-> <<>>]
        /\ daSrv = Server0
        /\ daNet = {}
        /\ daFaults = 0

----------------------------------------------------------------------------
Put(e, r) == daEnd' = [daEnd EXCEPT ![e] = r]
Advance(r) == [r EXCEPT !.at = @ + 1, !.in = FALSE]

\* An error ends the stages; run goes on with cleanup.
FailWith(r, kind) == [r EXCEPT !.phase = "cleanup", !.out = kind, !.in = FALSE]

\* The carrier is failed with the cause; failLocked poisons the protocol.
Broken(r, kind) == [FailWith(r, kind) EXCEPT !.car = IF @ = "open" THEN "closed" ELSE @]
failLocked(p) == [p EXCEPT !.terminal = TRUE, !.success = FALSE]
Violated(r) == [Broken(r, "violation") EXCEPT !.p = failLocked(@)]

Fault == daFaults < MaxFaults /\ daFaults' = daFaults + 1
NoFault == UNCHANGED daFaults
Wire == <<daQueue, daUp, daSrv, daNet>>

----------------------------------------------------------------------------
(* The sealed protocol.                                                    *)

frameTypeAllowedForRole(f, e) == CASE f \in {"fire", "syn", "ack"} -> e = "i"
                                   [] f = "synack" -> e = "r"
                                   [] OTHER -> TRUE

\* The ACK is what makes VERIFY legal, at either end.
Punched(e, p) == IF e = "i" THEN "ack" \in p.sent ELSE "ack" \in p.got

validateSend(e, f) ==
  LET p == daEnd[e].p
  IN /\ ~p.terminal
     /\ frameTypeAllowedForRole(f, e)
     /\ f \notin p.sent
     /\ CASE f = "prepare" -> TRUE
          [] f = "ready" -> "prepare" \in p.sent \cap p.got
          [] f = "fire" -> "ready" \in p.sent \cap p.got
          [] f = "syn" -> "fire" \in p.sent
          [] f = "synack" -> "fire" \in p.got
          [] f = "ack" -> "syn" \in p.sent /\ "synack" \in p.got
          [] f = "verify" -> Punched(e, p)

validateReceive(e, f) ==
  LET p == daEnd[e].p
  IN /\ ~p.terminal
     /\ frameTypeAllowedForRole(f, Peer(e))
     /\ f \notin p.got
     /\ CASE f = "prepare" -> TRUE
          [] f = "ready" -> "prepare" \in p.sent \cap p.got
          [] f = "fire" -> "ready" \in p.sent \cap p.got
          [] f = "syn" -> "fire" \in p.got
          [] f = "synack" -> {"fire", "syn"} \subseteq p.sent
          [] f = "ack" -> "fire" \in p.got /\ "synack" \in p.sent
          [] f = "verify" -> Punched(e, p)

completeIfVerified(p) == IF "verify" \in p.sent \cap p.got THEN [p EXCEPT !.success = TRUE, !.terminal = TRUE] ELSE p

applySend(p, f) == completeIfVerified([p EXCEPT !.sent = @ \cup {f}])
applyReceive(p, f) == completeIfVerified([p EXCEPT !.got = @ \cup {f}])

\* Open of a frame: its header, its place in the sequence, its payload.
OpenFrame(e, f) == IF f \in ControlFrames \cup DirectFrames /\ validateReceive(e, f)
                   THEN applyReceive(daEnd[e].p, f) ELSE failLocked(daEnd[e].p)
Opened(p) == p # failLocked(p)

----------------------------------------------------------------------------
(* Local stages.                                                           *)

\* AcquirePeer and AcquireAttempt.
Acquire(e) ==
  /\ At(e, "local", "acquire")
  /\ \/ Put(e, [Advance(daEnd[e]) EXCEPT !.attempt = TRUE]) /\ NoFault
     \/ Put(e, FailWith(daEnd[e], "violation")) /\ Fault
  /\ UNCHANGED <<daKind, Wire>>

\* Adopt of the stream; Dial of the relay, over which PRESENCE is then sent.
Adopt(e) ==
  /\ At(e, "local", "adopt")
  /\ \/ Put(e, [Advance(daEnd[e]) EXCEPT !.car = "open"]) /\ NoFault
     \/ Put(e, FailWith(daEnd[e], "carrier")) /\ Fault
  /\ UNCHANGED <<daKind, Wire>>

\* Commit, then ConsumeForCarrier: refused, burned, or burned by a call that
\* fails.  Without an authorization no terminal record follows.
Burn(e) ==
  /\ At(e, "local", "burn")
  /\ LET r == daEnd[e]
     IN \/ Put(e, [Advance(r) EXCEPT !.burned = TRUE, !.auth = TRUE]) /\ NoFault
        \/ Fault /\ \E b \in BOOLEAN: Put(e, [FailWith(r, "violation") EXCEPT !.burned = b])
  /\ UNCHANGED <<daKind, Wire>>

\* Local work that succeeds, is refused or meets an expired context.
LocalWork(e) ==
  /\ \/ ~daEnd[e].dead /\ Put(e, Advance(daEnd[e])) /\ NoFault
     \/ daEnd[e].dead /\ Put(e, FailWith(daEnd[e], "expired")) /\ NoFault
     \/ Put(e, FailWith(daEnd[e], "observe")) /\ Fault
  /\ UNCHANGED <<daKind, Wire>>

\* OpenProbeSocket and Observe on the same socket.
Observe(e) == At(e, "local", "observe") /\ LocalWork(e)

\* The status check and the handoff of the socket to its one peer.
Promote(e) ==
  /\ At(e, "local", "promote")
  /\ IF daEnd[e].p.terminal /\ daEnd[e].p.success THEN LocalWork(e)
     ELSE Put(e, FailWith(daEnd[e], "violation")) /\ UNCHANGED <<daKind, Wire, daFaults>>

Return(e) ==
  /\ At(e, "local", "return")
  /\ Put(e, FailWith(daEnd[e], "success"))
  /\ UNCHANGED <<daKind, Wire, daFaults>>

----------------------------------------------------------------------------
(* The carrier.                                                            *)

\* The other side of an end's stream is closed.
StreamOver(e) == IF GateA THEN daEnd[Peer(e)].car = "closed" ELSE daSrv.phase = "done"

\* Seal, then write under the frame budget.
Send(e) ==
  /\ Running(e)
  /\ Op(e)[1] = "send"
  /\ LET r == daEnd[e]
         f == Op(e)[2]
         quiet == UNCHANGED <<daQueue, daUp>>
     IN IF f \in ControlFrames /\ ~validateSend(e, f) THEN Put(e, Violated(r)) /\ quiet
        ELSE IF r.dead \/ r.car # "open" THEN Put(e, Broken(r, IF r.dead THEN "expired" ELSE "carrier")) /\ quiet
        ELSE IF r.written >= MaxFramesPerDirection THEN Put(e, Broken(r, "budget")) /\ quiet
        ELSE \/ /\ Put(e, [Advance(r) EXCEPT !.written = @ + 1, !.p = applySend(@, f)])
                /\ IF GateA THEN daQueue' = [daQueue EXCEPT ![Peer(e)] = Append(@, f)] /\ UNCHANGED daUp
                            ELSE daUp' = [daUp EXCEPT ![e] = Append(@, f)] /\ UNCHANGED daQueue
             \/ StreamOver(e) /\ Put(e, Broken(r, "carrier")) /\ quiet
  /\ UNCHANGED <<daKind, daSrv, daNet, daFaults>>

\* ReceiveControl and ReceiveHandshake check the state, then wait.
EnterRead(e) ==
  /\ Running(e)
  /\ Op(e)[1] = "recv"
  /\ ~daEnd[e].in
  /\ Put(e, IF daEnd[e].dead THEN Broken(daEnd[e], "expired")
            ELSE IF daEnd[e].car = "open" THEN [daEnd[e] EXCEPT !.in = TRUE] ELSE Broken(daEnd[e], "carrier"))
  /\ UNCHANGED <<daKind, Wire, daFaults>>

Receive(e) ==
  /\ Running(e)
  /\ Op(e)[1] = "recv"
  /\ daEnd[e].in
  /\ daQueue[e] # <<>>
  /\ daQueue' = [daQueue EXCEPT ![e] = Tail(@)]
  /\ LET f == Head(daQueue[e])
         p == IF f \in ControlFrames THEN OpenFrame(e, f) ELSE applyReceive(daEnd[e].p, f)
     IN Put(e, IF f = Op(e)[2] /\ Opened(p) THEN [Advance(daEnd[e]) EXCEPT !.p = p] ELSE Violated(daEnd[e]))
  /\ UNCHANGED <<daKind, daUp, daSrv, daNet, daFaults>>

ReadFails(e) ==
  /\ Running(e)
  /\ Op(e)[1] = "recv"
  /\ daEnd[e].in
  /\ daQueue[e] = <<>>
  /\ \/ daEnd[e].dead /\ Put(e, Broken(daEnd[e], "expired"))
     \/ ~daEnd[e].dead /\ (StreamOver(e) \/ daEnd[e].car = "closed") /\ Put(e, Broken(daEnd[e], "carrier"))
  /\ UNCHANGED <<daKind, Wire, daFaults>>

\* readLoop of the out-of-band carrier: the end of the stream closes it, and
\* a receive that has not begun finds it closed.
ReaderEOF(e) ==
  /\ GateA
  /\ daEnd[e].car = "open"
  /\ "handshake" \in daEnd[e].p.sent \cap daEnd[e].p.got
  /\ daEnd[Peer(e)].car = "closed"
  /\ Put(e, [daEnd[e] EXCEPT !.car = "closed"])
  /\ UNCHANGED <<daKind, Wire, daFaults>>

\* watch: the envelope ends, or the lease is stopping.
Expire(e) ==
  /\ e \in Deadlines
  /\ Running(e)
  /\ daEnd[e].car # "none"
  /\ ~daEnd[e].dead
  /\ Put(e, [daEnd[e] EXCEPT !.dead = TRUE, !.car = "closed"])
  /\ UNCHANGED <<daKind, Wire, daFaults>>

----------------------------------------------------------------------------
(* The relay.                                                              *)

Relaying == ~GateA /\ daSrv.phase # "done"
Ended(s, class) == [s EXCEPT !.phase = "done", !.class = class]

\* chargeRead and the write budget of one side.
chargeRead(s, e) == [s EXCEPT !.read[e] = @ + 1]
OverRead(s, e) == s.read[e] > MaxFramesPerDirection
OverWrite(s, e) == s.written[e] >= MaxFramesPerDirection

\* writeBoth: slot a, then slot b; a peer that left may fail the write.
writeBoth(s, f, next) ==
  \/ /\ daQueue' = [e \in Ends |-> Append(daQueue[e], f)]
     /\ daSrv' = [s EXCEPT !.phase = next, !.at = {}, !.written = [e \in Ends |-> @[e] + 1]]
  \/ /\ daEnd["i"].car = "closed"
     /\ daSrv' = Ended(s, "peer_disconnected")
     /\ UNCHANGED daQueue
  \/ /\ daEnd["r"].car = "closed"
     /\ daSrv' = Ended(s, "peer_disconnected")
     /\ daQueue' = [daQueue EXCEPT !["i"] = Append(@, f)]

\* readPresence and awaitActivation: one frame of each side, then the answer.
Gather(e, phase, f, answer, next) ==
  /\ Relaying
  /\ daSrv.phase = phase
  /\ e \notin daSrv.at
  /\ daUp[e] # <<>>
  /\ daUp' = [daUp EXCEPT ![e] = Tail(@)]
  /\ LET s == [chargeRead(daSrv, e) EXCEPT !.at = @ \cup {e}]
     IN IF Head(daUp[e]) # f THEN daSrv' = Ended(s, "protocol_violation") /\ UNCHANGED daQueue
        ELSE IF s.at = Ends THEN writeBoth(s, answer, next)
        ELSE daSrv' = s /\ UNCHANGED daQueue
  /\ UNCHANGED <<daKind, daEnd, daNet, daFaults>>

readPresence(e) == Gather(e, "presence", "presence", "presence_ready", "activate")
awaitActivation(e) == Gather(e, "activate", "activate", "activate_ready", "relay")

\* validOpaqueOrder: one handshake frame, then the control frames of the slot.
MaxControl(e) == IF e = "i" THEN 4 ELSE 3
validOpaqueOrder(s, e, f) ==
  IF f = "handshake" THEN e \notin s.handshake /\ s.control[e] = 0
                     ELSE f \in ControlFrames /\ e \in s.handshake /\ s.control[e] < MaxControl(e)
Charged(s, e, f) == IF f = "handshake" THEN [s EXCEPT !.handshake = @ \cup {e}] ELSE [s EXCEPT !.control[e] = @ + 1]

completedOpaqueEnvelope(s) == s.handshake = Ends /\ s.control["i"] = 4 /\ s.control["r"] = 3

Relay(e) ==
  /\ Relaying
  /\ daSrv.phase = "relay"
  /\ daUp[e] # <<>>
  /\ daUp' = [daUp EXCEPT ![e] = Tail(@)]
  /\ LET f == Head(daUp[e])
         q == Peer(e)
         s == Charged(chargeRead(daSrv, e), e, f)
         t == [s EXCEPT !.written[q] = @ + 1]
     IN IF OverRead(s, e) \/ OverWrite(s, q) THEN daSrv' = Ended(s, "budget_exceeded") /\ UNCHANGED daQueue
        ELSE IF ~validOpaqueOrder(daSrv, e, f) THEN daSrv' = Ended(s, "protocol_violation") /\ UNCHANGED daQueue
        ELSE \/ /\ daQueue' = [daQueue EXCEPT ![q] = Append(@, f)]
                /\ daSrv' = IF completedOpaqueEnvelope(t) THEN Ended(t, "completed") ELSE t
             \/ /\ daEnd[q].car = "closed"
                /\ daSrv' = Ended(s, "peer_disconnected")
                /\ UNCHANGED daQueue
  /\ UNCHANGED <<daKind, daEnd, daNet, daFaults>>

\* A side that closed its connection is seen by the next read from it.
ServerEOF(e) ==
  /\ Relaying
  /\ daSrv.phase \in {"presence", "activate"} => e \notin daSrv.at
  /\ daUp[e] = <<>>
  /\ daEnd[e].car = "closed"
  /\ daSrv' = Ended(daSrv, "peer_disconnected")
  /\ UNCHANGED <<daKind, daEnd, daQueue, daUp, daNet, daFaults>>

\* The presence or the association deadline, or a shutdown.
ServerExpires ==
  /\ Relaying
  /\ daSrv' = Ended(daSrv, IF daSrv.phase = "presence" THEN "presence_timeout" ELSE "deadline_exceeded")
  /\ Fault
  /\ UNCHANGED <<daKind, daEnd, daQueue, daUp, daNet>>

----------------------------------------------------------------------------
(* Punching and the challenge.                                             *)

Datagram(e, f, n) == [k |-> f, ord |-> n, to |-> Peer(e)]

SendProbe(e) ==
  /\ Running(e)
  /\ Op(e)[1] = "probe"
  /\ LET r == daEnd[e]
         f == Op(e)[2]
     IN IF ~validateSend(e, f) THEN Put(e, Violated(r)) /\ UNCHANGED daNet
        ELSE IF r.dead THEN Put(e, FailWith(r, "punch")) /\ UNCHANGED daNet
        ELSE Put(e, [Advance(r) EXCEPT !.p = applySend(@, f)]) /\ daNet' = daNet \cup {Datagram(e, f, 0)}
  /\ UNCHANGED <<daKind, daQueue, daUp, daSrv, daFaults>>

\* A datagram leaves the network unless it is duplicated.
Take(m) == \/ daNet' = daNet \ {m} /\ NoFault
           \/ UNCHANGED daNet /\ Fault

\* The initiator takes the SYNACK only; the responder at most two packets,
\* the second of which must be the ACK.
ReceiveReply(e, m) ==
  /\ m.to = e
  /\ At(e, "local", "await")
  /\ ~daEnd[e].dead
  /\ LET p == OpenFrame(e, m.k)
         r == [daEnd[e] EXCEPT !.p = p, !.received = @ + 1]
     IN Put(e, IF ~Opened(p) THEN FailWith(r, "violation")
               ELSE IF m.k \in {"synack", "ack"} THEN Advance(r)
               ELSE IF r.received = 2 THEN FailWith(r, "violation") ELSE r)
  /\ Take(m)
  /\ UNCHANGED <<daKind, daQueue, daUp, daSrv>>

PunchTimeout(e) ==
  /\ At(e, "local", "await")
  /\ Put(e, FailWith(daEnd[e], "punch"))
  /\ UNCHANGED <<daKind, Wire, daFaults>>

ChallengeWrite(e) ==
  /\ At(e, "local", "challenge")
  /\ daEnd[e].wrote < challengePackets
  /\ LET r == daEnd[e]
     IN IF r.dead THEN Put(e, FailWith(r, "challenge")) /\ UNCHANGED daNet
        ELSE /\ Put(e, [r EXCEPT !.wrote = @ + 1])
             /\ daNet' = daNet \cup {Datagram(e, "challenge", r.wrote)}
  /\ UNCHANGED <<daKind, daQueue, daUp, daSrv, daFaults>>

\* ReadPacket hands over whatever the peer sent; only a challenge packet not
\* seen before counts.
ChallengeRead(e, m) ==
  /\ m.to = e
  /\ At(e, "local", "challenge")
  /\ daEnd[e].wrote = challengePackets
  /\ ~daEnd[e].dead
  /\ LET r == [daEnd[e] EXCEPT !.seen = @ \cup {m.ord}]
     IN Put(e, IF m.k \in DirectFrames \/ m.ord \in daEnd[e].seen THEN FailWith(daEnd[e], "challenge")
               ELSE IF Cardinality(r.seen) = challengePackets THEN Advance(r) ELSE r)
  /\ Take(m)
  /\ UNCHANGED <<daKind, daQueue, daUp, daSrv>>

ChallengeTimeout(e) ==
  /\ At(e, "local", "challenge")
  /\ Put(e, FailWith(daEnd[e], "challenge"))
  /\ UNCHANGED <<daKind, Wire, daFaults>>

----------------------------------------------------------------------------
(* cleanup.                                                                *)

TerminalReason(kind) == CASE kind = "success" -> "success"
                          [] kind = "carrier" -> "carrier_error"
                          [] kind \in {"expired", "observe"} -> "expired"
                          [] kind = "punch" -> IF GateA THEN "protocol_error" ELSE "expired"
                          [] OTHER -> "protocol_error"

\* Finish writes the terminal record, once, when there is an authorization.
Finished(r) == IF r.auth THEN [r EXCEPT !.auth = FALSE, !.recorded = TRUE, !.reason = TerminalReason(r.out)] ELSE r
FinishFails(r) == [r EXCEPT !.auth = FALSE, !.out = "drain"]

CloseCarrier(r) == [r EXCEPT !.car = IF @ = "open" THEN "closed" ELSE @, !.p.terminal = TRUE]

\* Gate A records, closes the carrier and hands the attempt back only when
\* nothing was burned or the record is durable.
FinishOK(r) == ~r.burned \/ r.recorded

GateAFinish(e) ==
  /\ GateA
  /\ daEnd[e].phase = "cleanup"
  /\ \/ Put(e, [Finished(daEnd[e]) EXCEPT !.phase = "close"]) /\ NoFault
     \/ daEnd[e].auth /\ Put(e, [FinishFails(daEnd[e]) EXCEPT !.phase = "close"]) /\ Fault
  /\ UNCHANGED <<daKind, Wire>>

GateAClose(e) ==
  /\ GateA
  /\ daEnd[e].phase = "close"
  /\ LET r == CloseCarrier(daEnd[e])
     IN Put(e, [r EXCEPT !.phase = "done", !.attempt = @ /\ ~FinishOK(r)])
  /\ UNCHANGED <<daKind, Wire, daFaults>>

\* The relayed form closes the path and the carrier first, then records, and
\* always hands the attempt back.
RelayedClose(e) ==
  /\ ~GateA
  /\ daEnd[e].phase = "cleanup"
  /\ Put(e, [CloseCarrier(daEnd[e]) EXCEPT !.phase = "close"])
  /\ UNCHANGED <<daKind, Wire, daFaults>>

RelayedFinish(e) ==
  /\ ~GateA
  /\ daEnd[e].phase = "close"
  /\ \/ Put(e, [Finished(daEnd[e]) EXCEPT !.phase = "done", !.attempt = FALSE]) /\ NoFault
     \/ daEnd[e].auth /\ Put(e, [FinishFails(daEnd[e]) EXCEPT !.phase = "done", !.attempt = FALSE]) /\ Fault
  /\ UNCHANGED <<daKind, Wire>>

\* run and connect report success only with the terminal record.
ReportsSuccess(e) == daEnd[e].phase = "done" /\ daEnd[e].out = "success" /\ daEnd[e].recorded

----------------------------------------------------------------------------
RelayedCleanup(e) == RelayedClose(e) \/ RelayedFinish(e)
punchStep(e) == SendProbe(e) \/ \E m \in daNet: ReceiveReply(e, m)
Stage(e) == \/ Acquire(e) \/ Adopt(e) \/ Burn(e) \/ Observe(e) \/ Promote(e) \/ Return(e)
            \/ Send(e) \/ EnterRead(e) \/ Receive(e) \/ ReadFails(e) \/ punchStep(e) \/ ChallengeWrite(e)
            \/ GateAFinish(e) \/ GateAClose(e) \/ RelayedCleanup(e)
Timer(e) == PunchTimeout(e) \/ ChallengeTimeout(e) \/ Expire(e) \/ ReaderEOF(e)
Server(e) == readPresence(e) \/ awaitActivation(e) \/ Relay(e) \/ ServerEOF(e)

Next == \/ \E e \in Ends: Stage(e) \/ Timer(e) \/ Server(e)
        \/ ServerExpires
        \/ \E m \in daNet, e \in Ends: ChallengeRead(e, m)

Spec == Init /\ [][Next]_daVars

----------------------------------------------------------------------------
(* Properties.                                                             *)

\* Nothing secret and nothing direct leaves an end before both credentials
\* are burned: neither a handshake frame nor a control frame nor a probe.
EmissionAfterBurn ==
  (\E e \in Ends: daEnd[e].p.sent \cap ({"handshake"} \cup ControlFrames \cup DirectFrames) # {})
    => \A e \in Ends: daEnd[e].burned

\* A recorded success was reached by both ends: the ACK crossed, both VERIFYs
\* were sent, and in Gate A the peer wrote its whole challenge.
SuccessIsShared ==
  \A e \in Ends: daEnd[e].reason = "success" \/ ReportsSuccess(e) =>
    /\ "ack" \in daEnd["i"].p.sent \cap daEnd["r"].p.got
    /\ "verify" \in daEnd["i"].p.sent \cap daEnd["r"].p.sent
    /\ GateA => daEnd[Peer(e)].wrote = challengePackets

\* In Gate A the attempt comes back exactly when nothing was burned or the
\* record is durable; the budget of eight frames is never the reason to fail.
ReleaseFollowsRecord ==
  \A e \in Ends: /\ daEnd[e].out # "budget"
                 /\ GateA /\ daEnd[e].phase = "done" /\ daEnd[e].burned => (daEnd[e].attempt <=> ~daEnd[e].recorded)

\* The relay ends as completed exactly when its last frame is on its way, and
\* then neither end fails for a broken stream: what the relay wrote before it
\* closed is still read.
RelayCompletes ==
  /\ ~GateA /\ (\A e \in Ends: daEnd[e].p.success) => daSrv.class = "completed"
  /\ daSrv.class = "completed" => \A e \in Ends: daEnd[e].out # "carrier"

DirectSafe == EmissionAfterBurn /\ SuccessIsShared /\ ReleaseFollowsRecord /\ RelayCompletes
=============================================================================
