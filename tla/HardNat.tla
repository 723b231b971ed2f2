------------------------------- MODULE HardNat -------------------------------
(***************************************************************************)
(* One hard-NAT attempt, run at both ends at once: the stage machine of    *)
(* directconnect/gateb (execute, punch, challenge, cleanup), the sealed    *)
(* control protocol it speaks (hardnatcontrol) and the bounded out-of-band *)
(* carrier that moves the control frames (oobcarrier).  The carrier is a   *)
(* FIFO stream that ends with an EOF when an end closes it; candidates,    *)
(* the winner and the challenge travel by UDP and may be lost, reordered   *)
(* or duplicated.                                                          *)
(*                                                                         *)
(* Cryptography, addresses, the planner and the socket budget are          *)
(* abstracted: both ends hold the same plan, candidate o of an end leaves  *)
(* from its socket SlotOf, and the NAT decides the slot it reaches and     *)
(* whether the ports it shows on the way are ones the plans foresaw        *)
(* (planned: FALSE is a fault of the network).                             *)
(***************************************************************************)
EXTENDS Naturals, Sequences, FiniteSets

CONSTANTS Modes,      \* the planner profiles of the instance
          Choosers,   \* the ends an asymmetric plan may make its target set
          N,          \* candidates of each end's plan (also its socket slots)
          Deadlines,  \* the ends whose active deadline may pass
          MaxFaults,  \* local faults and duplicated datagrams
          None

Ends == {"i", "r"}
Peer(e) == IF e = "i" THEN "r" ELSE "i"
Slots == 1..N
ControlFrames == {"prepare", "source", "ready", "fire", "readyfire", "selection", "exhausted", "verify"}
MaxFramesPerDirection == 8
challengePackets == 3

VARIABLES hnMode,     \* [profile, chooser]: the profile and the end that picks the winner
          hnEnd,      \* the runtime of each end
          hnQueue,    \* control frames on their way to each end
          hnNet,      \* datagrams in flight
          hnFaults
hnVars == <<hnMode, hnEnd, hnQueue, hnNet, hnFaults>>

Hard == hnMode.profile = "hard"

\* The target set of the asymmetric profile, which chooses, has one socket.
SlotOf(e, o) == IF hnMode.profile = "asymmetric" /\ hnMode.chooser = e THEN 1 ELSE o
SlotsOf(e) == {SlotOf(e, o): o \in 1..N}

----------------------------------------------------------------------------
(* The script of an end: what execute does, stage by stage.                *)

\* exchangeControl: the initiator speaks first, the responder answers.
Exchange(e, f) == IF e = "i" THEN << <<"send", f>>, <<"recv", f>> >>
                             ELSE << <<"recv", f>>, <<"send", f>> >>

Local(what) == << <<"local", what>> >>

\* fire exchanges FIRE; the hard campaign folds READY and FIRE into one frame.
FireFrames(e, hard) == IF hard THEN Exchange(e, "readyfire") ELSE Exchange(e, "ready") \o Exchange(e, "fire")

\* AwaitPresence, Activate, the Noise handshake and exchangeSource.
Presence(e) == Exchange(e, "presence")
Activate(e) == Exchange(e, "activate")
Handshake(e) == Exchange(e, "handshake")
ExchangeSource(e) == Exchange(e, "source")

\* In the hard campaign the responder proposes first and the initiator decides.
Selection(e, hard) == IF hard THEN Exchange(Peer(e), "selection") \o Local("decide") ELSE <<>>

Script(e, hard) ==
  Local("acquire") \o Local("adopt") \o Presence(e) \o Local("burn")
    \o Activate(e) \o Handshake(e) \o Exchange(e, "prepare")
    \o Local("evidence") \o ExchangeSource(e) \o Local("bind") \o FireFrames(e, hard)
    \o Local("punch") \o Selection(e, hard) \o Local("drain") \o Exchange(e, "verify")
    \o Local("lease") \o Local("challenge")

Scripts == [e \in Ends |-> [hard \in BOOLEAN |-> Script(e, hard)]]

Op(e) == Scripts[e][Hard][hnEnd[e].at]
Running(e) == hnEnd[e].phase = "run"
At(e, kind, what) == Running(e) /\ Op(e) = <<kind, what>>

Protocol0 == [sent |-> {}, got |-> {}, bound |-> FALSE, sentC |-> {}, gotC |-> {}, winner |-> None,
              local |-> None, peer |-> None, terminal |-> FALSE, success |-> FALSE]

End0 == [phase |-> "run", at |-> 1, in |-> FALSE, attempt |-> FALSE, car |-> "none", reader |-> FALSE,
         written |-> 0, dead |-> "no", burned |-> FALSE, recorded |-> FALSE, auth |-> FALSE,
         p |-> Protocol0, next |-> 1, events |-> <<>>, proposal |-> None, path |-> None,
         winners |-> 0, chal |-> 0, complete |-> FALSE, out |-> "none", reason |-> "none"]

Init == /\ \E f \in Modes, c \in Choosers \cup {"i"}:
              /\ hnMode = [profile |-> f, chooser |-> c]
              /\ IF f = "asymmetric" THEN c \in Choosers ELSE c = "i"
        /\ hnEnd = [e \in Ends |-> End0]
        /\ hnQueue = [e \in Ends |-> <<>>]
        /\ hnNet = {}
        /\ hnFaults = 0

----------------------------------------------------------------------------
Put(e, r) == hnEnd' = [hnEnd EXCEPT ![e] = r]
Advance(r) == [r EXCEPT !.at = @ + 1, !.in = FALSE]

\* execute returned an error of this kind; run goes on with cleanup.
FailWith(r, kind) == [r EXCEPT !.phase = "finish", !.out = kind, !.in = FALSE]

\* carrier.terminate and failLocked: the carrier, or the protocol, is over.
Broken(r, kind) == [FailWith(r, kind) EXCEPT !.car = IF @ = "open" THEN "closed" ELSE @]
Poisoned(p) == [p EXCEPT !.terminal = TRUE, !.success = FALSE]
Violated(r) == [Broken(r, "violation") EXCEPT !.p = Poisoned(@)]

Fault == hnFaults < MaxFaults /\ hnFaults' = hnFaults + 1
NoFault == UNCHANGED hnFaults

\* The reason a context error is classified with: the deadline, or the cause
\* the carrier watch cancelled the attempt with.
DeadKind(r) == IF r.dead = "expired" THEN "expired" ELSE "carrier"

----------------------------------------------------------------------------
(* The sealed control protocol.                                            *)

fireSeen(p) == /\ {"fire", "readyfire"} \cap p.sent # {}
                  /\ {"fire", "readyfire"} \cap p.got # {}

\* SelectedWinner, localSends: the end that received the winning candidate.
MaySendWinner(e, p) ==
  /\ p.winner # None
  /\ IF Hard THEN "selection" \in p.sent \cap p.got /\ p.winner.sender = Peer(e)
             ELSE hnMode.chooser = e

ValidShape(w) == w.ord \in 1..N /\ w.slot \in Slots

validateSend(e, f) ==
  LET p == hnEnd[e].p
  IN /\ ~p.terminal
     /\ f \notin p.sent
     /\ CASE f = "prepare" -> TRUE
          [] f = "source" -> "prepare" \in p.sent \cap p.got
          [] f = "ready" -> p.bound /\ ~Hard
          [] f = "fire" -> "ready" \in p.sent \cap p.got /\ ~Hard
          [] f = "readyfire" -> p.bound /\ Hard
          [] f = "selection" -> /\ Hard
                                /\ p.sentC = 1..N
                                /\ ("selection" \in p.got) <=> (e = "i")
          [] f = "exhausted" -> /\ Hard
                                /\ e = "r"
                                /\ "selection" \in p.sent \cap p.got
                                /\ p.winner = None
          [] f = "verify" -> p.winner # None /\ "winner" \in p.sent \cup p.got

validateReceive(e, f) ==
  LET p == hnEnd[e].p
  IN /\ ~p.terminal
     /\ f \notin p.got
     /\ CASE f = "prepare" -> TRUE
          [] f = "source" -> "prepare" \in p.sent \cap p.got
          [] f = "ready" -> p.bound /\ ~Hard
          [] f = "fire" -> "ready" \in p.sent \cap p.got /\ ~Hard
          [] f = "readyfire" -> p.bound /\ Hard
          [] f = "selection" -> /\ Hard
                                /\ p.sentC = 1..N
                                /\ ("selection" \in p.sent) <=> (e = "r")
          [] f = "exhausted" -> /\ Hard
                                /\ e = "i"
                                /\ "selection" \in p.sent \cap p.got
                                /\ p.winner = None
          [] f = "verify" -> p.winner # None

\* SealWinnerSelection: the initiator's own proposal, else the responder's.
Selected(e, p) == IF e = "r" THEN p.local ELSE IF p.local # None THEN p.local ELSE p.peer

Payload(e, f) ==
  LET p == hnEnd[e].p
  IN CASE f = "selection" -> Selected(e, p)
       [] f = "verify" -> p.winner
       [] OTHER -> None

\* Open: what a frame's payload must be.
ValidPayload(e, m) ==
  LET p == hnEnd[e].p
      w == m.body
  IN CASE m.frame = "verify" -> w = p.winner
       [] m.frame = "selection" /\ e = "i" -> w # None => w.sender = "i" /\ ValidShape(w)
       [] m.frame = "selection" /\ e = "r" ->
            IF w = None THEN p.local = None
                        ELSE ValidShape(w) /\ (w.sender = "i" => w = p.local)
       [] OTHER -> TRUE

\* completeLocked: both VERIFY frames make the success.
Complete(p) == IF "verify" \in p.sent \cap p.got THEN [p EXCEPT !.success = TRUE, !.terminal = TRUE] ELSE p

applySend(e, f) ==
  LET p == [hnEnd[e].p EXCEPT !.sent = @ \cup {f}]
  IN CASE f = "selection" /\ e = "i" -> [p EXCEPT !.winner = Payload(e, f)]
       [] f = "exhausted" -> [p EXCEPT !.terminal = TRUE]
       [] OTHER -> Complete(p)

applyReceive(e, m) ==
  LET p == [hnEnd[e].p EXCEPT !.got = @ \cup {m.frame}]
  IN CASE m.frame = "selection" /\ e = "i" -> [p EXCEPT !.peer = m.body]
       [] m.frame = "selection" /\ e = "r" -> [p EXCEPT !.winner = m.body]
       [] m.frame = "exhausted" -> [p EXCEPT !.terminal = TRUE]
       [] OTHER -> Complete(p)

----------------------------------------------------------------------------
(* Local stages.                                                           *)

\* AcquirePeer and AcquireAttempt, then AdoptHardNAT: an error ends the run
\* before anything was spent.
Acquire(e) ==
  /\ At(e, "local", "acquire")
  /\ \/ Put(e, [Advance(hnEnd[e]) EXCEPT !.attempt = TRUE]) /\ NoFault
     \/ Put(e, FailWith(hnEnd[e], "violation")) /\ Fault
  /\ UNCHANGED <<hnMode, hnQueue, hnNet>>

Adopt(e) ==
  /\ At(e, "local", "adopt")
  /\ \/ Put(e, [Advance(hnEnd[e]) EXCEPT !.car = "open"]) /\ NoFault
     \/ Put(e, FailWith(hnEnd[e], "violation")) /\ Fault
  /\ UNCHANGED <<hnMode, hnQueue, hnNet>>

\* Commit and ConsumeForCarrier: the credential is burned, refused, or burned
\* by a call that fails, whose terminal record may or may not be durable.
Burn(e) ==
  /\ At(e, "local", "burn")
  /\ LET r == hnEnd[e]
     IN \/ Put(e, [Advance(r) EXCEPT !.burned = TRUE, !.auth = TRUE]) /\ NoFault
        \/ Fault /\ \E b \in {<<FALSE, FALSE>>, <<TRUE, FALSE>>, <<TRUE, TRUE>>}:
                       Put(e, [FailWith(r, "violation") EXCEPT !.burned = b[1], !.recorded = b[2]])
  /\ UNCHANGED <<hnMode, hnQueue, hnNet>>

\* Local work that succeeds, is refused, or meets a context that is over.
LocalWork(e) ==
  /\ \/ hnEnd[e].dead = "no" /\ Put(e, Advance(hnEnd[e])) /\ NoFault
     \/ hnEnd[e].dead # "no" /\ Put(e, FailWith(hnEnd[e], DeadKind(hnEnd[e]))) /\ NoFault
     \/ Put(e, FailWith(hnEnd[e], "evidence")) /\ Fault
  /\ UNCHANGED <<hnMode, hnQueue, hnNet>>

\* openSockets and Collect; IssueTransportLease, the promotion and Adopt.
Evidence(e) == At(e, "local", "evidence") /\ LocalWork(e)
Lease(e) == At(e, "local", "lease") /\ LocalWork(e)

BindExecution(p) == ~p.terminal /\ ~p.bound /\ "source" \in p.sent \cap p.got

\* freezeAndExchangePlan, after the exchange: both plans are frozen.
Bind(e) ==
  /\ At(e, "local", "bind")
  /\ Put(e, IF BindExecution(hnEnd[e].p) THEN [Advance(hnEnd[e]) EXCEPT !.p.bound = TRUE] ELSE Violated(hnEnd[e]))
  /\ UNCHANGED <<hnMode, hnQueue, hnNet, hnFaults>>

----------------------------------------------------------------------------
(* The carrier.                                                            *)

\* The second handshake message starts the carrier's read loop.
MarkHandshakeComplete(e, f, last) == f = "handshake" /\ e = last

\* write, after sealControl: the context, the carrier, the protocol and the
\* frame budget are checked in turn; a closed peer may break the pipe.
Transmit(e, f, next) ==
  LET r == hnEnd[e]
      sealed == f \in ControlFrames
  IN \/ /\ sealed /\ ~validateSend(e, f)
        /\ Put(e, Violated(r))
        /\ UNCHANGED hnQueue
     \/ /\ sealed => validateSend(e, f)
        /\ IF r.dead # "no" \/ r.car = "closed" \/ r.written >= MaxFramesPerDirection
           THEN /\ Put(e, Broken(r, IF r.dead = "expired" THEN "expired"
                                    ELSE IF r.written >= MaxFramesPerDirection THEN "budget" ELSE "carrier"))
                /\ UNCHANGED hnQueue
           ELSE \/ /\ Put(e, [next EXCEPT !.written = @ + 1,
                                !.p = IF sealed THEN applySend(e, f) ELSE @,
                                !.reader = @ \/ MarkHandshakeComplete(e, f, "r")])
                   /\ hnQueue' = [hnQueue EXCEPT ![Peer(e)] = Append(@, [frame |-> f, body |-> Payload(e, f)])]
                \/ /\ hnEnd[Peer(e)].car = "closed"
                   /\ Put(e, Broken(r, "carrier"))
                   /\ UNCHANGED hnQueue

Send(e) ==
  /\ Running(e)
  /\ Op(e)[1] = "send"
  /\ Transmit(e, Op(e)[2], Advance(hnEnd[e]))
  /\ UNCHANGED <<hnMode, hnNet, hnFaults>>

\* ReceiveHardNATControl checks the authorization and the context, then waits.
EnterRead(e) ==
  /\ Running(e)
  /\ Op(e)[1] = "recv"
  /\ ~hnEnd[e].in
  /\ Put(e, IF hnEnd[e].dead = "no" THEN [hnEnd[e] EXCEPT !.in = TRUE]
                                    ELSE Broken(hnEnd[e], DeadKind(hnEnd[e])))
  /\ UNCHANGED <<hnMode, hnQueue, hnNet, hnFaults>>

\* A frame that was queued before the end of the stream is delivered even
\* when the carrier is already closed behind it.
Deliver(e, f, next) ==
  LET r == hnEnd[e]
      m == Head(hnQueue[e])
  IN /\ hnQueue[e] # <<>>
     /\ hnQueue' = [hnQueue EXCEPT ![e] = Tail(@)]
     /\ IF m.frame # f \/ (f \in ControlFrames /\ ~(validateReceive(e, f) /\ ValidPayload(e, m)))
        THEN Put(e, Violated(r))
        ELSE Put(e, [next EXCEPT !.p = IF f \in ControlFrames THEN applyReceive(e, m) ELSE @,
                                 !.reader = @ \/ MarkHandshakeComplete(e, f, "i")])

Receive(e) ==
  /\ Running(e)
  /\ Op(e)[1] = "recv"
  /\ hnEnd[e].in
  /\ Deliver(e, Op(e)[2], Advance(hnEnd[e]))
  /\ UNCHANGED <<hnMode, hnNet, hnFaults>>

\* read, no frame left: EOF before the reader runs, a closed carrier or a
\* dead context after.
ReadFails(e) ==
  /\ Running(e)
  /\ Op(e)[1] = "recv"
  /\ hnEnd[e].in
  /\ hnQueue[e] = <<>>
  /\ \/ hnEnd[e].dead # "no" /\ Put(e, Broken(hnEnd[e], DeadKind(hnEnd[e])))
     \/ hnEnd[Peer(e)].car = "closed" /\ Put(e, Broken(hnEnd[e], "carrier"))
  /\ UNCHANGED <<hnMode, hnQueue, hnNet, hnFaults>>

\* readLoop: the end of the stream fails the carrier, and the frames before
\* it stay in incoming.
ReaderEOF(e) ==
  /\ hnEnd[e].reader
  /\ hnEnd[e].car = "open"
  /\ hnEnd[Peer(e)].car = "closed"
  /\ Put(e, [hnEnd[e] EXCEPT !.car = "closed"])
  /\ UNCHANGED <<hnMode, hnQueue, hnNet, hnFaults>>

\* The carrier watch cancels the active context unless the challenge is over.
WatchCancels(e) ==
  /\ hnEnd[e].phase \in {"run", "exhaust"}
  /\ hnEnd[e].car = "closed"
  /\ hnEnd[e].dead = "no"
  /\ ~hnEnd[e].complete
  /\ Put(e, [hnEnd[e] EXCEPT !.dead = "cancelled"])
  /\ UNCHANGED <<hnMode, hnQueue, hnNet, hnFaults>>

\* The active deadline passes: every context derived from it is over.
Expire(e) ==
  /\ e \in Deadlines
  /\ hnEnd[e].attempt
  /\ hnEnd[e].phase \in {"run", "exhaust", "finish", "close"}
  /\ hnEnd[e].dead # "expired"
  /\ Put(e, [hnEnd[e] EXCEPT !.dead = "expired"])
  /\ UNCHANGED <<hnMode, hnQueue, hnNet, hnFaults>>

----------------------------------------------------------------------------
(* Punching.                                                               *)

SealCandidate(p, o) == /\ ~p.terminal /\ p.bound
                       /\ fireSeen(p)
                       /\ o \notin p.sentC
                       /\ "selection" \notin p.sent \cup p.got

\* sendCandidates: one candidate of the plan, to the slot the NAT maps its
\* target port to.
SendCandidate(e) ==
  /\ At(e, "local", "punch")
  /\ hnEnd[e].next <= N
  /\ hnEnd[e].dead = "no"
  /\ LET r == hnEnd[e]
     IN IF SealCandidate(r.p, r.next)
        THEN /\ Put(e, [r EXCEPT !.p.sentC = @ \cup {r.next}, !.next = @ + 1])
             /\ \E s \in SlotsOf(Peer(e)), planned \in BOOLEAN:
                  /\ IF planned THEN NoFault ELSE Fault
                  /\ hnNet' = hnNet \cup {[k |-> "cand", to |-> Peer(e), ord |-> r.next, slot |-> s, from |-> SlotOf(e, r.next),
                                             planned |-> planned]}
        ELSE Put(e, Violated(r)) /\ NoFault /\ UNCHANGED hnNet
  /\ UNCHANGED <<hnMode, hnQueue>>

\* A datagram read from the network leaves it, unless it is duplicated; one
\* that is never read is lost.
Take(m) == \/ hnNet' = hnNet \ {m} /\ NoFault
           \/ UNCHANGED hnNet /\ Fault

\* Open of a candidate or of the winner, under the protocol's lock.
OpenDatagram(e, m) ==
  LET p == hnEnd[e].p
  IN IF m.k = "cand"
     THEN IF ~p.terminal /\ fireSeen(p) /\ m.ord \notin p.gotC THEN [p EXCEPT !.gotC = @ \cup {m.ord}] ELSE Poisoned(p)
     ELSE IF /\ ~p.terminal
             /\ "winner" \notin p.sent \cup p.got
             /\ m.k = "win"
             /\ m.w.sender = e
             /\ ValidShape(m.w)
             /\ Hard => "selection" \in p.sent \cap p.got /\ p.winner = m.w
          THEN [p EXCEPT !.got = @ \cup {"winner"}, !.winner = m.w]
          ELSE Poisoned(p)

\* The winner is awaited in punch, and after the selection in a hard campaign.
AwaitsWinner(e) == At(e, "local", "decide") /\ hnEnd[e].p.winner # None /\ hnEnd[e].p.winner.sender = e

\* ValidateCandidateArrival, of a frame that opened: its ports are the plans'.
ValidateCandidateArrival(m) == m.k = "cand" => m.planned

\* readPunchSocket: the frame is opened and its event queued; an error is
\* queued as one.
ReadPunch(e, m) ==
  /\ m.to = e
  /\ m.k \in {"cand", "win"}
  /\ At(e, "local", "punch") \/ AwaitsWinner(e)
  /\ hnEnd[e].dead = "no"
  /\ LET p == OpenDatagram(e, m)
         ok == p # Poisoned(p) /\ ValidateCandidateArrival(m)
     IN Put(e, [hnEnd[e] EXCEPT !.p = p, !.events = Append(@, [m |-> m, ok |-> ok])])
  /\ Take(m)
  /\ UNCHANGED <<hnMode, hnQueue>>

Reversed(m) == [mine |-> m.slot, theirs |-> m.from]
WinnerOf(e, m) == [sender |-> Peer(e), ord |-> m.ord, slot |-> m.slot]
WinnerPacket(e, m, planned) == [k |-> "win", to |-> Peer(e), w |-> WinnerOf(e, m), ord |-> m.ord,
                                slot |-> m.from, from |-> m.slot, planned |-> planned]

\* SendProbe of the winner to the address its candidate came from.
SendWinner(e, m) ==
  \E planned \in BOOLEAN: /\ IF planned THEN NoFault ELSE Fault
                          /\ hnNet' = hnNet \cup {WinnerPacket(e, m, planned)}

\* punch, main loop: the chooser answers the first candidate with the winner;
\* the target set of the asymmetric profile finishes its own schedule first.
ChooseWinner(e) ==
  /\ At(e, "local", "punch")
  /\ ~Hard
  /\ hnEnd[e].events # <<>>
  /\ LET r == [hnEnd[e] EXCEPT !.events = Tail(@)]
         v == Head(hnEnd[e].events)
     IN /\ v.ok /\ v.m.k = "cand"
        /\ IF hnMode.chooser # e THEN Put(e, r) /\ UNCHANGED <<hnNet, hnFaults>>
           ELSE /\ hnMode.profile = "asymmetric" => r.next > N
                /\ IF r.p.terminal \/ r.p.winner # None \/ "winner" \in r.p.sent
                   THEN Put(e, Violated(r)) /\ UNCHANGED <<hnNet, hnFaults>>
                   ELSE /\ Put(e, [Advance(r) EXCEPT !.p.winner = WinnerOf(e, v.m), !.p.sent = @ \cup {"winner"},
                                      !.path = Reversed(v.m), !.winners = @ + 1])
                        /\ SendWinner(e, v.m)
  /\ UNCHANGED <<hnMode, hnQueue>>

\* The other end takes the winner from the path it arrived on: the socket and
\* the port its own candidate of that ordinal was sent from and to.
TakeWinner(e) ==
  /\ (At(e, "local", "punch") /\ ~Hard) \/ AwaitsWinner(e)
  /\ hnEnd[e].events # <<>>
  /\ LET r == [hnEnd[e] EXCEPT !.events = Tail(@)]
         v == Head(hnEnd[e].events)
     IN IF ~v.ok THEN Put(e, FailWith(r, "violation"))
        ELSE /\ v.m.k = "win" \/ AwaitsWinner(e)
             /\ Put(e, IF v.m.k = "cand" THEN r
                       ELSE IF ~Hard /\ (hnMode.chooser = e \/ v.m.slot # SlotOf(e, v.m.w.ord) \/ ~v.m.planned)
                            THEN FailWith(r, "violation")
                       ELSE [Advance(r) EXCEPT !.path = Reversed(v.m)])
  /\ UNCHANGED <<hnMode, hnQueue, hnNet, hnFaults>>

\* punchHardCampaign, first half: every queued event is recorded, the first
\* candidate is the proposal.
RecordEvent(e) ==
  /\ At(e, "local", "punch")
  /\ Hard
  /\ hnEnd[e].events # <<>>
  /\ LET r == [hnEnd[e] EXCEPT !.events = Tail(@)]
         v == Head(hnEnd[e].events)
     IN Put(e, IF ~v.ok \/ v.m.k # "cand" THEN FailWith(r, "violation")
               ELSE [r EXCEPT !.proposal = IF @ = None THEN v.m ELSE @])
  /\ UNCHANGED <<hnMode, hnQueue, hnNet, hnFaults>>

RecordWinnerCandidate(p, w) == /\ ~p.terminal /\ p.local = None
                               /\ "selection" \notin p.sent
                               /\ w.ord \in p.gotC /\ ValidShape(w)

\* Both halves of the schedule are over: the readers stop and the proposal is
\* recorded in the protocol.
StopReaders(e) ==
  /\ At(e, "local", "punch")
  /\ Hard
  /\ hnEnd[e].next > N
  /\ hnEnd[e].events = <<>>
  /\ LET r == hnEnd[e]
     IN Put(e, IF r.proposal = None THEN Advance(r)
               ELSE IF RecordWinnerCandidate(r.p, WinnerOf(e, r.proposal))
                    THEN [Advance(r) EXCEPT !.p.local = WinnerOf(e, r.proposal)]
                    ELSE Violated(r))
  /\ UNCHANGED <<hnMode, hnQueue, hnNet, hnFaults>>

\* The candidate window, or the context, ends before the schedule does.
PunchFails(e) ==
  /\ At(e, "local", "punch") \/ AwaitsWinner(e)
  /\ Put(e, FailWith(hnEnd[e], IF hnEnd[e].dead = "no" THEN "exhausted" ELSE DeadKind(hnEnd[e])))
  /\ AwaitsWinner(e) => hnEnd[e].dead # "no"
  /\ UNCHANGED <<hnMode, hnQueue, hnNet, hnFaults>>

\* The selection is made: its receiver sends the one winner packet; without a
\* winner the responder says so and both ends give up.
SendHardWinner(e) ==
  /\ At(e, "local", "decide")
  /\ hnEnd[e].p.winner # None
  /\ hnEnd[e].p.winner.sender = Peer(e)
  /\ LET r == hnEnd[e]
     IN IF /\ r.proposal # None
           /\ r.p.winner = WinnerOf(e, r.proposal)
           /\ MaySendWinner(e, r.p)
           /\ "winner" \notin r.p.sent
           /\ ~r.p.terminal
           /\ r.winners = 0
           /\ r.dead = "no"
        THEN /\ Put(e, [Advance(r) EXCEPT !.p.sent = @ \cup {"winner"}, !.path = Reversed(r.proposal), !.winners = @ + 1])
             /\ SendWinner(e, r.proposal)
        ELSE /\ Put(e, IF r.dead = "no" THEN Violated(r) ELSE FailWith(r, DeadKind(r)))
             /\ UNCHANGED <<hnNet, hnFaults>>
  /\ UNCHANGED <<hnMode, hnQueue>>

NoWinner(e) ==
  /\ At(e, "local", "decide")
  /\ hnEnd[e].p.winner = None
  /\ Put(e, [hnEnd[e] EXCEPT !.phase = "exhaust"])
  /\ UNCHANGED <<hnMode, hnQueue, hnNet, hnFaults>>

\* sendHardExhausted and receiveHardExhausted.  The receiver waits under the
\* envelope's deadline, which the end of the stream does not cancel.
ExhaustSends(e) ==
  /\ hnEnd[e].phase = "exhaust"
  /\ e = "r"
  /\ Transmit(e, "exhausted", FailWith(hnEnd[e], "exhausted"))
  /\ UNCHANGED <<hnMode, hnNet, hnFaults>>

ExhaustReceives(e) ==
  /\ hnEnd[e].phase = "exhaust"
  /\ e = "i"
  /\ \/ Deliver(e, "exhausted", FailWith(hnEnd[e], "exhausted"))
     \/ /\ hnQueue[e] = <<>>
        /\ \/ hnEnd[e].dead = "expired" /\ Put(e, Broken(hnEnd[e], "expired"))
           \/ hnEnd[Peer(e)].car = "closed" /\ Put(e, Broken(hnEnd[e], "carrier"))
        /\ UNCHANGED hnQueue
  /\ UNCHANGED <<hnMode, hnNet, hnFaults>>

\* drainCandidateResidue: late candidates on the winner's socket are consumed
\* until one silent interval.
DrainPacket(e, m) ==
  /\ At(e, "local", "drain")
  /\ m.to = e /\ m.slot = hnEnd[e].path.mine
  /\ hnEnd[e].dead = "no"
  /\ LET p == OpenDatagram(e, m)
     IN Put(e, IF p = Poisoned(p) \/ m.k # "cand" \/ ~ValidateCandidateArrival(m) THEN [FailWith(hnEnd[e], "violation") EXCEPT !.p = p]
                                                 ELSE [hnEnd[e] EXCEPT !.p = p])
  /\ Take(m)
  /\ UNCHANGED <<hnMode, hnQueue>>

DrainSilent(e) ==
  /\ At(e, "local", "drain")
  /\ Put(e, IF hnEnd[e].dead = "no" THEN Advance(hnEnd[e]) ELSE FailWith(hnEnd[e], DeadKind(hnEnd[e])))
  /\ UNCHANGED <<hnMode, hnQueue, hnNet, hnFaults>>

----------------------------------------------------------------------------
(* The data-plane challenge on the promoted path.                          *)

\* The next half of the exchange: the initiator writes first.
Writes(e) == (hnEnd[e].chal % 2 = 0) <=> (e = "i")
ChallengeDone(r) == r.chal = 2 * challengePackets
NextHalf(r) == LET s == [r EXCEPT !.chal = @ + 1]
               IN IF ChallengeDone(s) THEN [s EXCEPT !.complete = TRUE, !.phase = "finish", !.out = "success"] ELSE s

ChallengeWrite(e) ==
  /\ At(e, "local", "challenge")
  /\ Writes(e)
  /\ LET r == hnEnd[e]
     IN IF r.dead = "no"
        THEN /\ Put(e, NextHalf(r))
             /\ hnNet' = hnNet \cup {[k |-> "chal", to |-> Peer(e), ord |-> r.chal \div 2,
                                      slot |-> r.path.theirs, from |-> r.path.mine]}
        ELSE Put(e, FailWith(r, DeadKind(r))) /\ UNCHANGED hnNet
  /\ UNCHANGED <<hnMode, hnQueue, hnFaults>>

\* The fixed-target transport hands over what comes from the promoted peer;
\* anything but the expected packet fails the challenge.
ChallengeRead(e, m) ==
  /\ At(e, "local", "challenge")
  /\ ~Writes(e)
  /\ m.to = e /\ m.slot = hnEnd[e].path.mine /\ m.from = hnEnd[e].path.theirs
  /\ hnEnd[e].dead = "no"
  /\ Put(e, IF m.k = "chal" /\ m.ord = hnEnd[e].chal \div 2 THEN NextHalf(hnEnd[e]) ELSE FailWith(hnEnd[e], "challenge"))
  /\ Take(m)
  /\ UNCHANGED <<hnMode, hnQueue>>

ChallengeFails(e) ==
  /\ At(e, "local", "challenge")
  /\ ~Writes(e)
  /\ Put(e, FailWith(hnEnd[e], IF hnEnd[e].dead = "no" THEN "challenge" ELSE DeadKind(hnEnd[e])))
  /\ UNCHANGED <<hnMode, hnQueue, hnNet, hnFaults>>

----------------------------------------------------------------------------
(* cleanup.                                                                *)

\* terminalReason over classify.
TerminalReason(kind) == CASE kind = "success" -> "success"
                          [] kind = "carrier" -> "carrier_error"
                          [] kind \in {"expired", "exhausted", "evidence"} -> "expired"
                          [] OTHER -> "protocol_error"

\* Finish, then the protocol is closed.
Finish(e) ==
  /\ hnEnd[e].phase = "finish"
  /\ LET r == [hnEnd[e] EXCEPT !.phase = "close", !.p.terminal = TRUE, !.auth = FALSE]
     IN IF ~hnEnd[e].auth THEN Put(e, r) /\ NoFault
        ELSE \/ Put(e, [r EXCEPT !.recorded = TRUE, !.reason = TerminalReason(r.out)]) /\ NoFault
             \/ Put(e, [r EXCEPT !.out = "drain"]) /\ Fault
  /\ UNCHANGED <<hnMode, hnQueue, hnNet>>

\* A successful responder lets the initiator close the stream first.
CloseCarrier(e) ==
  /\ hnEnd[e].phase = "close"
  /\ e = "r" /\ hnEnd[e].complete => hnEnd[e].car = "closed" \/ hnEnd[e].dead # "no"
  /\ Put(e, [hnEnd[e] EXCEPT !.phase = "release", !.car = IF @ = "open" THEN "closed" ELSE @])
  /\ UNCHANGED <<hnMode, hnQueue, hnNet, hnFaults>>

\* The attempt is handed back only when its terminal record is durable.
FinishOK(r) == ~r.burned \/ r.recorded

Release(e) ==
  /\ hnEnd[e].phase = "release"
  /\ Put(e, [hnEnd[e] EXCEPT !.phase = "done", !.attempt = @ /\ ~FinishOK(hnEnd[e])])
  /\ UNCHANGED <<hnMode, hnQueue, hnNet, hnFaults>>

\* run: success is reported only with its terminal record.
ReportsSuccess(e) == hnEnd[e].phase = "done" /\ hnEnd[e].out = "success" /\ hnEnd[e].recorded

----------------------------------------------------------------------------
\* The functions of an attempt, each step by step.
execute(e) == Acquire(e) \/ Adopt(e) \/ Burn(e) \/ Evidence(e) \/ Bind(e) \/ Lease(e)
Steps(e) == Send(e) \/ EnterRead(e) \/ Receive(e) \/ ReadFails(e)
punch(e) == ChooseWinner(e) \/ TakeWinner(e)
punchHardCampaign(e) == RecordEvent(e) \/ StopReaders(e) \/ SendHardWinner(e) \/ NoWinner(e)
cleanup(e) == Finish(e) \/ CloseCarrier(e) \/ Release(e)
Stage(e) ==
  \/ execute(e) \/ Steps(e) \/ SendCandidate(e) \/ punch(e) \/ punchHardCampaign(e)
  \/ ExhaustSends(e) \/ ExhaustReceives(e) \/ DrainSilent(e) \/ ChallengeWrite(e) \/ cleanup(e)

Timer(e) == Expire(e) \/ PunchFails(e) \/ ChallengeFails(e)
Carrier(e) == ReaderEOF(e) \/ WatchCancels(e)
Datagram(m) == \E e \in Ends: ReadPunch(e, m) \/ DrainPacket(e, m) \/ ChallengeRead(e, m)

Next == \/ \E e \in Ends: Stage(e) \/ Timer(e) \/ Carrier(e)
        \/ \E m \in hnNet: Datagram(m)

Spec == Init /\ [][Next]_hnVars

----------------------------------------------------------------------------
(* Properties.                                                             *)

\* No candidate leaves an end before both credentials are burned: FIRE is
\* exchanged only after both ends committed their admission.
EmissionAfterBurn == (\E e \in Ends: hnEnd[e].p.sentC # {}) => \A e \in Ends: hnEnd[e].burned

\* When both ends verified, they chose the same winner, at most one winner
\* packet was sent, and their two sockets face each other.
SamePath ==
  /\ hnEnd["i"].winners + hnEnd["r"].winners <= 1
  /\ (\A e \in Ends: hnEnd[e].p.success) =>
       /\ hnEnd["i"].p.winner = hnEnd["r"].p.winner
       /\ hnEnd["i"].path.mine = hnEnd["r"].path.theirs
       /\ hnEnd["r"].path.mine = hnEnd["i"].path.theirs

\* A success the initiator records is one the responder saw whole: it wrote
\* its last challenge packet.  Either end's success is backed by both VERIFYs.
SuccessIsShared ==
  /\ hnEnd["i"].reason = "success" \/ ReportsSuccess("i") => ChallengeDone(hnEnd["r"])
  /\ \A e \in Ends: hnEnd[e].reason = "success" =>
       "verify" \in hnEnd[e].p.sent /\ "verify" \in hnEnd[Peer(e)].p.sent

\* A finished run gives its attempt back exactly when nothing was burned or
\* the terminal record is durable.
ReleaseFollowsRecord ==
  \A e \in Ends: hnEnd[e].phase = "done" => (hnEnd[e].attempt => hnEnd[e].burned /\ ~hnEnd[e].recorded)
                                        /\ (hnEnd[e].burned /\ ~hnEnd[e].recorded => hnEnd[e].attempt)

\* An agreed exhaustion reaches both ends: once the responder has sent it and
\* closed the stream behind it, the initiator still ends as exhausted, not as
\* a broken carrier, unless its own deadline passed.
ExhaustedTogether ==
  ("exhausted" \in hnEnd["r"].p.sent /\ hnEnd["i"].out # "none")
    => hnEnd["i"].out \in {"exhausted", "expired", "drain"}

\* The eight frames of a direction are exactly enough.
FramesSuffice == \A e \in Ends: hnEnd[e].out # "budget"

AttemptSafe == /\ EmissionAfterBurn /\ SamePath /\ SuccessIsShared
               /\ ReleaseFollowsRecord /\ ExhaustedTogether /\ FramesSuffice
=============================================================================
