----------------------------- MODULE LoopbackConnect -----------------------------
(***************************************************************************)
(* connect-test over loopback (internal/v2/loopbackcarrier): two ends with *)
(* one credential run a Noise handshake (internal/v2/noisecore) and the    *)
(* SYN, SYN_ACK, ACK exchange (internal/v2/punchproto) over one socket     *)
(* each, while the pairing gate may end either attempt at any moment.      *)
(*                                                                         *)
(* The gate is taken as the PairingGate module has it: one terminal is     *)
(* chosen, the registered hook revokes the controller, and then the        *)
(* terminal is recorded.  Datagrams may be lost, repeated and reordered,   *)
(* and may be foreign; a packet that does not authenticate ends the        *)
(* attempt.                                                                *)
(***************************************************************************)
EXTENDS Naturals, Sequences

CONSTANTS
    Watched,    \* the ends whose attempt may be cancelled or expire
    MaxJunk,    \* bound: foreign datagrams
    MaxFaults   \* bound: failing steps of the carrier

VARIABLES
    lcAt,       \* per end: where Connect is
    lcStep,     \* per end: the next step of the exchange
    lcSession,  \* per end: the Noise session, and the packet cipher after it
    lcUsed,     \* per end: the sequence numbers its packet cipher has used: [send, receive]
    lcSecret,   \* per end: the places that hold the pairing secret or a key
    lcSlot,     \* per end: terminalControllerSlot: [published, revoked]
    lcCtl,      \* per end: the probe controller: "none", "live", "revoked", "closed"
    lcSocket,   \* per end: a probe socket is open
    lcReason,   \* per end: the reason the carrier will finish with
    lcChosen,   \* per end: the terminal the gate has chosen
    lcStage,    \* per end: "none", "chosen", "revoked", "recorded"
    lcResult,   \* per end: "none", "ok", "error"
    lcLate,     \* per end: a packet went out after the terminal was recorded
    lcNet,      \* datagrams: [to, kind]
    lcJunk, lcFaults

vars == <<lcAt, lcStep, lcSession, lcUsed, lcSecret, lcSlot, lcCtl, lcSocket, lcReason, lcChosen, lcStage, lcResult, lcLate,
          lcNet, lcJunk, lcFaults>>
carrierState == <<lcAt, lcStep, lcSession, lcUsed, lcSecret, lcReason, lcResult>>
probeState == <<lcSlot, lcCtl, lcSocket>>
gateState == <<lcChosen, lcStage>>
netState == <<lcLate, lcNet, lcJunk>>

Ends == {"i", "r"}
Other(e) == IF e = "i" THEN "r" ELSE "i"

Init ==
    /\ lcAt = [e \in Ends |-> "idle"] /\ lcStep = [e \in Ends |-> 1]
    /\ lcSession = [e \in Ends |-> "none"] /\ lcSecret = [e \in Ends |-> {}]
    /\ lcUsed = [e \in Ends |-> [send |-> {}, receive |-> {}]]
    /\ lcSlot = [e \in Ends |-> [published |-> FALSE, revoked |-> FALSE]]
    /\ lcCtl = [e \in Ends |-> "none"] /\ lcSocket = [e \in Ends |-> FALSE]
    /\ lcReason = [e \in Ends |-> "carrier_error"] /\ lcChosen = [e \in Ends |-> "none"]
    /\ lcStage = [e \in Ends |-> "none"] /\ lcResult = [e \in Ends |-> "none"]
    /\ lcLate = [e \in Ends |-> FALSE] /\ lcNet = {} /\ lcJunk = 0 /\ lcFaults = 0

At(e, where) == lcAt[e] = where
Goto(e, where) == lcAt' = [lcAt EXCEPT ![e] = where]
Fault == lcFaults < MaxFaults /\ lcFaults' = lcFaults + 1

\* The exchange of each role, step by step: handshake, then punch, then promotion.
Script(e) ==
    IF e = "i"
    THEN <<<<"send", "m1">>, <<"check">>, <<"recv", "m2">>, <<"take">>, <<"check">>, <<"send", "syn">>, <<"check">>,
           <<"recv", "synack">>, <<"check">>, <<"send", "ack">>, <<"check">>, <<"promote">>>>
    ELSE <<<<"recv", "m1">>, <<"check">>, <<"send", "m2">>, <<"take">>, <<"check">>, <<"recv", "syn">>, <<"check">>,
           <<"send", "synack">>, <<"check">>, <<"recv", "ack">>, <<"check">>, <<"promote">>>>
Step(e, what) == At(e, "go") /\ Script(e)[lcStep[e]] = what
Advance(e) == lcStep' = [lcStep EXCEPT ![e] = @ + 1]
Sends == {"m1", "m2", "syn", "synack", "ack"}
Live(e) == lcCtl[e] = "live"

\* The deferred calls of run and Connect begin: cipher and session are closed first.
Unwind(e, reason) ==
    /\ Goto(e, "unwind") /\ lcReason' = [lcReason EXCEPT ![e] = reason]
    /\ lcSession' = [lcSession EXCEPT ![e] = IF @ = "none" THEN "none" ELSE "closed"]
    /\ lcSecret' = [lcSecret EXCEPT ![e] = @ \ {"session", "cipher", "source"}]
    /\ lcStep' = lcStep

-----------------------------------------------------------------------------
(* Connect and the preparation in run. *)

same == <<lcStep, lcReason, lcResult>>

\* The bundle parses, the leases are acquired and the gate commits; or nothing is held.
Connect(e) ==
    /\ At(e, "idle")
    /\ \/ /\ Goto(e, "admitted") /\ lcSecret' = [lcSecret EXCEPT ![e] = {"bundle"}]
          /\ UNCHANGED <<lcResult, lcFaults>>
       \/ /\ Fault /\ Goto(e, "returned") /\ lcResult' = [lcResult EXCEPT ![e] = "error"] /\ lcSecret' = lcSecret
    /\ UNCHANGED <<lcUsed, lcStep, lcSession, lcReason, probeState, gateState, netState>>

\* RegisterLoopbackPreFinish and probeio.New.
MakeController(e) ==
    /\ At(e, "admitted")
    /\ \/ /\ lcStage[e] = "none" /\ Goto(e, "made") /\ lcCtl' = [lcCtl EXCEPT ![e] = "live"]
          /\ UNCHANGED <<lcStep, lcSession, lcSecret, lcReason, lcFaults>>
       \/ /\ lcStage[e] # "none" /\ Unwind(e, "carrier_error") /\ UNCHANGED <<lcCtl, lcFaults>>
       \/ /\ Fault /\ Unwind(e, "carrier_error") /\ lcCtl' = lcCtl
    /\ UNCHANGED <<lcUsed, lcResult, lcSlot, lcSocket, gateState, netState>>

\* terminalControllerSlot.publish: refused once the hook has run.
publish(e) ==
    /\ At(e, "made")
    /\ IF lcSlot[e].revoked
       THEN Unwind(e, "carrier_error") /\ lcSlot' = lcSlot
       ELSE /\ lcSlot' = [lcSlot EXCEPT ![e].published = TRUE] /\ Goto(e, "published")
            /\ UNCHANGED <<lcStep, lcSession, lcSecret, lcReason>>
    /\ UNCHANGED <<lcUsed, lcResult, lcCtl, lcSocket, gateState, netState, lcFaults>>

OpenSocket(e) ==
    /\ At(e, "published")
    /\ \/ /\ Live(e) /\ Goto(e, "open") /\ lcSocket' = [lcSocket EXCEPT ![e] = TRUE]
          /\ UNCHANGED <<lcStep, lcSession, lcSecret, lcReason, lcFaults>>
       \/ /\ ~Live(e) /\ Unwind(e, "carrier_error") /\ UNCHANGED <<lcSocket, lcFaults>>
       \/ /\ Fault /\ Unwind(e, "carrier_error") /\ lcSocket' = lcSocket
    /\ UNCHANGED <<lcUsed, lcResult, lcSlot, lcCtl, gateState, netState>>

\* newSession: the secret moves from the bundle through a one-shot source to the session.
NewSession(e) ==
    /\ At(e, "open")
    /\ Goto(e, "session")
    /\ lcSession' = [lcSession EXCEPT ![e] = IF e = "i" THEN "write1" ELSE "read1"]
    /\ lcSecret' = [lcSecret EXCEPT ![e] = {"session"}]
    /\ UNCHANGED <<lcUsed, same, probeState, gateState, netState, lcFaults>>
\* BeforeFirstEmission: validate, and choose the terminal if it fails.
BeforeFirstEmission(e) ==
    /\ At(e, "session")
    /\ IF lcStage[e] = "none"
       THEN Goto(e, "go") /\ UNCHANGED <<lcStep, lcSession, lcSecret, lcReason>>
       ELSE Unwind(e, "scope_changed")
    /\ UNCHANGED <<lcUsed, lcResult, probeState, gateState, netState, lcFaults>>

-----------------------------------------------------------------------------
(* The exchange. *)

CheckActive(e) ==
    /\ Step(e, <<"check">>)
    /\ IF lcStage[e] = "none" THEN Advance(e) /\ UNCHANGED <<lcAt, lcSession, lcSecret, lcReason>>
       ELSE Unwind(e, "scope_changed")
    /\ UNCHANGED <<lcUsed, lcResult, probeState, gateState, netState, lcFaults>>

\* WriteMessage and ReadMessage: one message per phase; what comes out of its phase,
\* or does not authenticate, closes the session.  The second message completes it.
WriteMessage(session, kind) ==
    CASE kind = "m1" -> IF session = "write1" THEN "read2" ELSE "closed"
      [] kind = "m2" -> IF session = "write2" THEN "complete" ELSE "closed"
      [] OTHER -> session
ReadMessage(session, kind) ==
    CASE kind = "m1" -> IF session = "read1" THEN "write2" ELSE "closed"
      [] kind = "m2" -> IF session = "read2" THEN "complete" ELSE "closed"
      [] OTHER -> session
\* SYN, SYN_ACK and ACK are sealed under a sequence number of their own.
secureSequenceForMessage(kind) == CASE kind = "syn" -> {0} [] kind = "synack" -> {1} [] kind = "ack" -> {2} [] OTHER -> {}
\* PacketCipher.Seal and Open: each number once in its direction.
Seals(e, kind) == secureSequenceForMessage(kind) \cap lcUsed[e].send = {}
Opens(e, p) == Step(e, <<"recv", p.kind>>) /\ secureSequenceForMessage(p.kind) \cap lcUsed[e].receive = {}

\* SendProbe: refused by a controller that is revoked.
Send(e, kind) ==
    /\ Step(e, <<"send", kind>>)
    /\ \/ /\ Live(e) /\ Seals(e, kind) /\ Advance(e)
          /\ lcSession' = [lcSession EXCEPT ![e] = WriteMessage(@, kind)]
          /\ lcUsed' = [lcUsed EXCEPT ![e].send = @ \cup secureSequenceForMessage(kind)]
          /\ lcNet' = lcNet \cup {[to |-> Other(e), kind |-> kind]}
          /\ lcLate' = [lcLate EXCEPT ![e] = @ \/ lcStage[e] = "recorded"]
          /\ UNCHANGED <<lcAt, lcSecret, lcReason, lcFaults>>
       \/ /\ ~Live(e) /\ Unwind(e, "cancelled") /\ UNCHANGED <<lcUsed, lcNet, lcLate, lcFaults>>
       \/ /\ Fault /\ Unwind(e, "carrier_error") /\ UNCHANGED <<lcUsed, lcNet, lcLate>>
    /\ UNCHANGED <<lcResult, probeState, gateState, lcJunk>>

\* ReceiveReply: whatever is not the awaited packet of the other end is a failure.
Receive(e, p) ==
    /\ \E k \in Sends : Step(e, <<"recv", k>>)
    /\ p \in lcNet /\ p.to = e
    /\ \/ /\ Live(e) /\ Opens(e, p) /\ Advance(e)
          /\ lcSession' = [lcSession EXCEPT ![e] = ReadMessage(@, p.kind)]
          /\ lcUsed' = [lcUsed EXCEPT ![e].receive = @ \cup secureSequenceForMessage(p.kind)]
          /\ UNCHANGED <<lcAt, lcSecret, lcReason>>
       \/ /\ Live(e) /\ ~Opens(e, p) /\ Unwind(e, "protocol_error") /\ lcUsed' = lcUsed
       \/ /\ ~Live(e) /\ Unwind(e, "cancelled") /\ lcUsed' = lcUsed
    /\ UNCHANGED <<lcResult, probeState, gateState, netState, lcFaults>>
\* The attempt's time is over, or the controller is revoked under the read.
ReceiveEnds(e) ==
    /\ \E k \in Sends : Step(e, <<"recv", k>>)
    /\ Unwind(e, IF Live(e) THEN "expired" ELSE "cancelled")
    /\ UNCHANGED <<lcUsed, lcResult, probeState, gateState, netState, lcFaults>>

\* TakePacketCipher: only from a completed and unused session, which ends with it.
takePacketCipher(e) ==
    /\ Step(e, <<"take">>)
    /\ IF lcSession[e] = "complete"
       THEN /\ lcSession' = [lcSession EXCEPT ![e] = "cipher"] /\ lcSecret' = [lcSecret EXCEPT ![e] = {"cipher"}]
            /\ Advance(e) /\ UNCHANGED <<lcAt, lcReason>>
       ELSE Unwind(e, "carrier_error")
    /\ UNCHANGED <<lcUsed, lcResult, probeState, gateState, netState, lcFaults>>

\* PromoteTerminal and the close of what it returned.
Promote(e) ==
    /\ Step(e, <<"promote">>)
    /\ \/ Live(e) /\ Unwind(e, "success") /\ lcSocket' = [lcSocket EXCEPT ![e] = FALSE] /\ lcFaults' = lcFaults
       \/ ~Live(e) /\ Unwind(e, "cancelled") /\ UNCHANGED <<lcSocket, lcFaults>>
       \/ Fault /\ Unwind(e, "carrier_error") /\ lcSocket' = lcSocket
    /\ UNCHANGED <<lcUsed, lcResult, lcSlot, lcCtl, gateState, netState>>

-----------------------------------------------------------------------------
(* The deferred calls and the gate. *)

Revoked(e) ==
    /\ lcCtl' = [lcCtl EXCEPT ![e] = IF @ = "live" THEN "revoked" ELSE @]
    /\ lcSocket' = [lcSocket EXCEPT ![e] = FALSE]

RevokeForTerminal(e) ==
    /\ At(e, "unwind") /\ Revoked(e) /\ Goto(e, "finish")
    /\ UNCHANGED <<lcUsed, lcStep, lcSession, lcSecret, lcReason, lcResult, lcSlot, gateState, netState, lcFaults>>
\* Finish chooses the terminal unless the gate has chosen one.
Finish(e) ==
    /\ At(e, "finish")
    /\ IF lcStage[e] = "none"
       THEN lcChosen' = [lcChosen EXCEPT ![e] = lcReason[e]] /\ lcStage' = [lcStage EXCEPT ![e] = "chosen"]
       ELSE UNCHANGED gateState
    /\ Goto(e, "recording")
    /\ UNCHANGED <<lcUsed, lcStep, lcSession, lcSecret, lcReason, lcResult, probeState, netState, lcFaults>>
\* It waits for the record, and another terminal than its own is an error; the
\* controller is closed and the bundle wiped.
Return(e) ==
    /\ At(e, "recording") /\ lcStage[e] = "recorded"
    /\ lcResult' = [lcResult EXCEPT ![e] = IF lcReason[e] = "success" /\ lcChosen[e] = "success" THEN "ok" ELSE "error"]
    /\ lcCtl' = [lcCtl EXCEPT ![e] = IF @ = "none" THEN "none" ELSE "closed"]
    /\ lcSecret' = [lcSecret EXCEPT ![e] = @ \ {"bundle"}] /\ Goto(e, "returned")
    /\ UNCHANGED <<lcUsed, lcStep, lcSession, lcReason, lcSlot, lcSocket, gateState, netState, lcFaults>>

\* The gate's watcher: cancellation, expiry or a safety trip.
Invalidate(e, reason) ==
    /\ e \in Watched /\ lcStage[e] = "none" /\ lcAt[e] \notin {"idle", "returned"}
    /\ lcChosen' = [lcChosen EXCEPT ![e] = reason] /\ lcStage' = [lcStage EXCEPT ![e] = "chosen"]
    /\ UNCHANGED <<carrierState, probeState, netState, lcFaults>>
\* terminalControllerSlot.revoke, called before the record is written.
revoke(e) ==
    /\ lcStage[e] = "chosen"
    /\ lcSlot' = [lcSlot EXCEPT ![e].revoked = TRUE]
    /\ IF lcSlot[e].published THEN Revoked(e) ELSE UNCHANGED <<lcCtl, lcSocket>>
    /\ lcStage' = [lcStage EXCEPT ![e] = "revoked"]
    /\ UNCHANGED <<carrierState, lcChosen, netState, lcFaults>>
Record(e) ==
    /\ lcStage[e] = "revoked" /\ lcStage' = [lcStage EXCEPT ![e] = "recorded"]
    /\ UNCHANGED <<carrierState, probeState, lcChosen, netState, lcFaults>>

Junk(e) ==
    /\ lcJunk < MaxJunk /\ lcJunk' = lcJunk + 1 /\ lcNet' = lcNet \cup {[to |-> e, kind |-> "junk"]}
    /\ UNCHANGED <<carrierState, probeState, gateState, lcLate, lcFaults>>

run(e) == MakeController(e) \/ OpenSocket(e) \/ BeforeFirstEmission(e) \/ CheckActive(e) \/ Promote(e)

Next ==
    \E e \in Ends :
        \/ Connect(e) \/ run(e) \/ publish(e) \/ NewSession(e) \/ ReceiveEnds(e) \/ takePacketCipher(e)
        \/ RevokeForTerminal(e) \/ Finish(e) \/ Return(e) \/ revoke(e) \/ Record(e) \/ Junk(e)
        \/ \E k \in Sends : Send(e, k)
        \/ \E p \in lcNet : Receive(e, p)
        \/ \E reason \in {"cancelled", "expired"} : Invalidate(e, reason)

Spec == Init /\ [][Next]_vars

-----------------------------------------------------------------------------
(* Properties. *)

\* Nothing is sent and no socket is open once the terminal is on disk, at whatever
\* step of the carrier the gate chose it.
QuietAfterRecord == \A e \in Ends : ~lcLate[e] /\ (lcStage[e] = "recorded" => ~lcSocket[e])

\* Connect reports success only for an attempt whose record says so, and then the
\* other end has taken part: it holds the same keys and has sent all but perhaps
\* the last packet.
ResultHonest ==
    \A e \in Ends : lcResult[e] = "ok" =>
        /\ lcChosen[e] = "success" /\ lcStage[e] = "recorded"
        /\ [to |-> e, kind |-> IF e = "i" THEN "synack" ELSE "ack"] \in lcNet
        /\ lcStep[Other(e)] > IF e = "i" THEN 8 ELSE 10

\* When Connect has returned no place holds the secret or a key, and the controller
\* is closed if there was one.
NothingLeft ==
    \A e \in Ends : At(e, "returned") =>
        lcSecret[e] = {} /\ lcSession[e] \in {"none", "closed"} /\ lcCtl[e] \in {"none", "closed"}

LoopbackSafe == QuietAfterRecord /\ ResultHonest /\ NothingLeft
=============================================================================
