------------------------------ MODULE StunObserve ------------------------------
(***************************************************************************)
(* Serial STUN observations through admitted probe sockets                 *)
(* (internal/stunobserve, internal/v2/hardnatobserve) and the governed run *)
(* of `diagnose` around them (internal/diagnose/active_stun.go).  Six      *)
(* kinds share one binding exchange: one socket for each target, one       *)
(* socket for several targets, several sockets for one target, the two     *)
(* same-socket clients of the direct attempts, and the collection of       *)
(* hard-NAT evidence.                                                      *)
(*                                                                         *)
(* A tick of the clock is 500 ms, 250 ms in the collection.  A request or  *)
(* its answer may be lost; an answer may come late.  The NAT and the       *)
(* servers are external.  A hard limit of the probe controller trips the   *)
(* machine (ProbeController), so the cost an observation declares has to   *)
(* cover all it may do.                                                    *)
(***************************************************************************)
EXTENDS Naturals, Integers, Sequences, FiniteSets, SequencesExt

CONSTANTS
    Kinds,      \* the observations that are made
    Nats,       \* what the NAT keys a mapping on: "eim", "adm", "apdm"
    N,          \* targets of a mapping, sockets of an allocation
    PortMax,    \* ports are 1..PortMax
    MaxStall,   \* bound: ticks the process runs late
    MaxLost,    \* bound: packets lost, and answers that come after their receive has ended
    MaxFaults   \* bound: failing calls of governor, factory and close

VARIABLES
    soKind, soNat,
    soAt,       \* where the run is
    soEx,       \* the exchange under way, or the next one
    soTry,      \* its transmissions
    soDue, soLimit,     \* the ticks at which its receive and its exchange end
    soNow, soStart,     \* the clock; when the probe controller was made
    soTimes, soSent,    \* the sends of the last second, and their number in all
    soFly,      \* per exchange: answers on their way or in the socket's buffer
    soMap,      \* the NAT's mappings: key -> port
    soNext,     \* the port the NAT gives out next
    soRes,      \* the results: [err, port, sent]
    soHeld,     \* what the run holds of "authority", "peer", "lease", "sockets"
    soReport,   \* "none", "blocked", "completed", "errors", "observed"
    soPeer,     \* packets sent to the peer registered on the observed socket
    soTripped, soCancelled, soStale, soStall, soFaults,
    soLost

ctl == <<soKind, soNat>>
clock == <<soNow, soStart>>
meter == <<soTimes, soSent>>
net == <<soFly, soMap, soNext>>
exch == <<soEx, soTry, soDue, soLimit, soRes>>
outer == <<soHeld, soReport, soPeer>>
env == <<soCancelled, soStale, soStall, soFaults>>
vars == <<ctl, soAt, clock, meter, net, exch, outer, env, soTripped, soLost>>

Second == IF soKind = "collect" THEN 4 ELSE 2
ObservationTicks == 8
EvidenceTicks == 12
Governed == {"single", "mapping", "allocation"}
SameSocket == {"samesocket", "gatea"}

\* Two addresses with two ports each: A1:P1, A1:P2, A2:P1, A2:P2.
Endpoints == <<[addr |-> 1, port |-> 1], [addr |-> 1, port |-> 2], [addr |-> 2, port |-> 1], [addr |-> 2, port |-> 2]>>
allocationTarget(slot) == Endpoints[((slot - 1) % 4) + 1]
Step(sock, target, needed) == [sock |-> sock, target |-> target, needed |-> needed]

\* issueTransactions: the discovery steps on the first socket, then one request from each socket.
issueTransactions ==
    <<Step(1, Endpoints[1], TRUE), Step(1, Endpoints[2], TRUE), Step(1, Endpoints[3], TRUE),
      Step(1, Endpoints[1], FALSE), Step(1, Endpoints[1], FALSE)>>
    \o [s \in 1..N |-> Step(s, allocationTarget(s), TRUE)]

\* canonicalMappingTargets: distinct targets, on one socket.
canonicalMappingTargets(count) == [i \in 1..count |-> Step(1, Endpoints[i], TRUE)]

\* The exchanges of each kind, in order.
Exchanges(kind) ==
    CASE kind = "single" -> [i \in 1..N |-> Step(i, Endpoints[i], TRUE)]
      [] kind = "mapping" -> canonicalMappingTargets(N)
      [] kind = "allocation" -> [i \in 1..N |-> Step(i, Endpoints[1], TRUE)]
      [] kind = "samesocket" -> canonicalMappingTargets(1)
      [] kind = "gatea" -> canonicalMappingTargets(2)
      [] kind = "collect" -> issueTransactions
Now(i) == Exchanges(soKind)[i]
Final == Len(Exchanges(soKind))

\* MaxTransmissions and the doubling InitialRTO; one packet and perReplyDeadline in the collection.
Tries == IF soKind = "collect" THEN 1 ELSE 3
RTO(attempt) == IF soKind = "collect" THEN 1 ELSE 2^(attempt - 1)

\* What the attempt has reserved: packets per second, packets, duration.
Cost(rate, packets, duration) == [rate |-> rate, packets |-> packets, duration |-> duration]
WorstCaseCost == Cost(2, 3, ObservationTicks)

\* Mutant: a rate that forgets the target answered after its second transmission.
MappingCostTight == Cost(N, 3 * N, N * ObservationTicks)
MappingWorstCaseCost == Cost(N + 1, 3 * N, N * ObservationTicks)

AllocationWorstCaseCost == Cost(N + 1, 3 * N, N * ObservationTicks)
N2SameSocketCost == Cost(5, 5, 30)
GateASameSocketCost == Cost(5, 2 * 3 + 2, 30)
EnvelopeFor == Cost(32, 64, 88)
Reserved ==
    CASE soKind = "single" -> WorstCaseCost
      [] soKind = "mapping" -> MappingWorstCaseCost
      [] soKind = "allocation" -> AllocationWorstCaseCost
      [] soKind = "samesocket" -> N2SameSocketCost
      [] soKind = "gatea" -> GateASameSocketCost
      [] soKind = "collect" -> EnvelopeFor

Init ==
    /\ soKind \in Kinds /\ soNat \in Nats
    /\ soAt = IF soKind \in Governed THEN "authority" ELSE "observe"
    /\ soEx = 1 /\ soTry = 0 /\ soDue = 0 /\ soLimit = 0 /\ soNow = 0 /\ soStart = 0
    /\ soTimes = <<>> /\ soSent = 0
    /\ soFly = [i \in 1..Len(Exchanges(soKind)) |-> 0] /\ soMap = <<>> /\ soNext \in {1, PortMax}
    /\ soRes = <<>>
    /\ soHeld = IF soKind \in Governed THEN {} ELSE {"lease", "sockets"}
    /\ soReport = "none" /\ soPeer = 0 /\ soTripped = FALSE
    /\ soCancelled = FALSE /\ soStale = FALSE /\ soStall = 0 /\ soFaults = 0 /\ soLost = 0

Fault == soFaults < MaxFaults /\ soFaults' = soFaults + 1
Lose == soLost < MaxLost /\ soLost' = soLost + 1

-----------------------------------------------------------------------------
(* The run of diagnose: authority, peer lease, attempt lease, observer.    *)

NextHeld == [authority |-> "peer", peer |-> "lease", lease |-> "observer"]

\* Each of the three is acquired, or the run goes to the closes it owes.
Acquire ==
    /\ soAt \in DOMAIN NextHeld
    /\ \/ soHeld' = soHeld \cup {soAt} /\ soAt' = NextHeld[soAt] /\ UNCHANGED <<soReport, soFaults>>
       \/ Fault /\ soReport' = "blocked" /\ soAt' = "release" /\ soHeld' = soHeld
    /\ UNCHANGED <<ctl, clock, meter, net, exch, soPeer, soCancelled, soStale, soStall, soTripped, soLost>>

\* Factory and constructor: a failure closes the attempt lease at once, success makes the controller.
NewObserver ==
    /\ soAt = "observer"
    /\ \/ soAt' = "observe" /\ soStart' = soNow /\ soTimes' = <<>> /\ soSent' = 0 /\ UNCHANGED <<soHeld, soReport, soFaults>>
       \/ /\ Fault /\ soHeld' = soHeld \ {"lease"} /\ soReport' = "blocked" /\ soAt' = "release"
          /\ UNCHANGED <<soStart, meter>>
    /\ UNCHANGED <<ctl, soNow, net, exch, soPeer, soCancelled, soStale, soStall, soTripped, soLost>>

\* Observe of the governed clients opens and registers every socket, or ends with the error.
OpenSockets ==
    /\ soKind \in Governed
    /\ \/ soAt' = "send" /\ soHeld' = soHeld \cup {"sockets"} /\ UNCHANGED <<soReport, soFaults, soEx, soRes>>
       \/ /\ Fault /\ soAt' = "closed" /\ soHeld' = soHeld
          /\ IF soKind = "single"
             THEN /\ soRes' = Append(soRes, [err |-> "io", port |-> 0, sent |-> 0]) /\ soEx' = soEx + 1
                  /\ soReport' = soReport
             ELSE soReport' = "blocked" /\ UNCHANGED <<soEx, soRes>>

\* terminate: the observed socket is closed, and the client says so from then on.
terminate == soHeld' = soHeld \ {"sockets"} /\ soReport' = "blocked" /\ soAt' = "release"

\* Observe on a socket the caller has opened: the generation first, then the targets.
UseSocket ==
    /\ soKind \in SameSocket \cup {"collect"} /\ UNCHANGED <<soFaults, soEx, soRes>>
    /\ IF soKind \in SameSocket /\ soStale THEN terminate ELSE soAt' = "send" /\ UNCHANGED <<soHeld, soReport>>

Observe ==
    /\ soAt = "observe" /\ (OpenSockets \/ UseSocket)
    /\ soTry' = 0 /\ soLimit' = soNow + (IF soKind = "collect" THEN EvidenceTicks ELSE ObservationTicks)
    /\ UNCHANGED <<ctl, clock, meter, net, soDue, soPeer, soCancelled, soStale, soStall, soTripped, soLost>>

-----------------------------------------------------------------------------
(* runBindingExchange.                                                     *)

Recent == SelectSeq(soTimes, LAMBDA t : t > soNow - Second)

\* reserveSendLocked and guardViolationLocked: a send the reservation does not cover.
OverLimit ==
    \/ Len(Recent) >= Reserved.rate
    \/ soSent >= Reserved.packets
    \/ soNow >= soStart + Reserved.duration
    \/ soStale

\* What each client does with the result of an exchange, failed or not.
AfterSingle == soKind = "single" /\ soAt' = "closed" /\ UNCHANGED <<outer, soLimit>>
AfterSerial ==
    /\ soKind \in {"mapping", "allocation"} /\ UNCHANGED outer
    /\ soAt' = (IF soEx = Final THEN "closed" ELSE "send") /\ soLimit' = soNow + ObservationTicks
Observed == soReport' = "observed" /\ soAt' = "peer?" /\ UNCHANGED <<soHeld, soLimit>>
AfterSameSocket(err) ==
    /\ soKind = "samesocket" /\ soPeer' = soPeer
    /\ IF err # "none" \/ soStale THEN terminate /\ soLimit' = soLimit ELSE Observed
AfterGateA(err) ==
    /\ soKind = "gatea" /\ soPeer' = soPeer
    /\ IF err # "none" \/ soStale THEN terminate /\ soLimit' = soLimit
       ELSE IF soEx = Final THEN Observed
       ELSE soAt' = "send" /\ soLimit' = soNow + ObservationTicks /\ UNCHANGED <<soHeld, soReport>>
AfterCollect(err) ==
    /\ soKind = "collect" /\ UNCHANGED <<soHeld, soPeer, soLimit>>
    /\ IF err \notin {"none", "absent"} THEN soReport' = "blocked" /\ soAt' = "release"
       ELSE IF soEx = Final THEN soReport' = "observed" /\ soAt' = "release"
       ELSE soAt' = "send" /\ soReport' = soReport

\* finishBindingObservation, and the return to the client.
Finish(err, port) ==
    /\ soRes' = Append(soRes, [err |-> err, port |-> port, sent |-> soTry])
    /\ soEx' = soEx + 1 /\ soTry' = 0 /\ soDue' = 0
    /\ AfterSingle \/ AfterSerial \/ AfterSameSocket(err) \/ AfterGateA(err) \/ AfterCollect(err)

\* The NAT: the mapping of a socket and a target, made by the first packet that reaches it.
Key(i) ==
    CASE soNat = "eim" -> <<Now(i).sock>>
      [] soNat = "adm" -> <<Now(i).sock, Now(i).target.addr>>
      [] soNat = "apdm" -> <<Now(i).sock, Now(i).target.addr, Now(i).target.port>>
Passes ==
    IF \E m \in Range(soMap) : m.key = Key(soEx) THEN UNCHANGED <<soMap, soNext>>
    ELSE soMap' = Append(soMap, [key |-> Key(soEx), port |-> soNext]) /\ soNext' = (soNext % PortMax) + 1
PortOf(i) == (CHOOSE m \in Range(soMap) : m.key = Key(i)).port

\* SendProbe: refused by the context, a trip, or a packet that the network carries or loses.
Send ==
    /\ soAt = "send"
    /\ \/ /\ soCancelled /\ Finish("cancelled", 0) /\ UNCHANGED <<meter, net, soTripped, soLost>>
       \/ /\ ~soCancelled /\ OverLimit /\ soTripped' = TRUE /\ Finish("hard_limit", 0)
          /\ UNCHANGED <<meter, net, soLost>>
       \/ /\ ~soCancelled /\ ~OverLimit
          /\ soTimes' = Append(Recent, soNow) /\ soSent' = soSent + 1
          /\ \/ Lose /\ UNCHANGED net
             \/ Lose /\ Passes /\ soFly' = soFly
             \/ Passes /\ soFly' = [soFly EXCEPT ![soEx] = @ + 1] /\ soLost' = soLost
          /\ soTry' = soTry + 1 /\ soDue' = soNow + RTO(soTry + 1) /\ soAt' = "wait"
          /\ UNCHANGED <<soEx, soLimit, soRes, outer, soTripped>>
    /\ UNCHANGED <<ctl, clock, env>>

\* ReceiveReply: the first packet of the socket's buffer is taken, whichever request it answers.
Receive(i) ==
    /\ soAt = "wait" /\ soFly[i] > 0 /\ Now(i).sock = Now(soEx).sock
    /\ soFly' = [soFly EXCEPT ![i] = @ - 1]
    /\ IF i = soEx THEN Finish("none", PortOf(i)) ELSE Finish("mismatch", 0)
    /\ UNCHANGED <<ctl, clock, meter, soMap, soNext, env, soTripped, soLost>>

\* The receive ends without a packet: the caller's context, the exchange's, or one more transmission.
Timeout ==
    /\ soAt = "wait" /\ (soCancelled \/ soNow >= soDue)
    /\ IF soFly[soEx] > 0 THEN Lose ELSE soLost' = soLost
    /\ IF soCancelled THEN Finish("cancelled", 0)
       ELSE IF soTry = Tries \/ soNow >= soLimit
            THEN Finish(IF soKind = "collect" /\ ~Now(soEx).needed THEN "absent" ELSE "timeout", 0)
       ELSE soAt' = "send" /\ UNCHANGED <<exch, outer>>
    /\ UNCHANGED <<ctl, clock, meter, net, env, soTripped>>

-----------------------------------------------------------------------------
(* After the exchanges.                                                    *)

\* ClassifyMapping over the answered targets, in order.
Answered == {i \in 1..Len(soRes) : soRes[i].err = "none"}
Pairs == {p \in Answered \X Answered : p[1] # p[2] /\ Now(p[1]).target.addr = Now(p[2]).target.addr}
ClassifyMapping ==
    IF \E p \in Pairs : soRes[p[1]].port # soRes[p[2]].port THEN "port_dependent"
    ELSE IF Pairs # {} /\ \A i, j \in Answered : soRes[i].port = soRes[j].port THEN "consistent"
    ELSE "inconclusive"

\* ClassifyAllocation over the ports of the answered sockets: a descent is a turn of the port space.
Ports == LET order == SetToSortSeq(Answered, <) IN [k \in 1..Len(order) |-> soRes[order[k]].port]
Deltas == [k \in 1..(Len(Ports) - 1) |-> Ports[k + 1] - Ports[k]]
Cyclic == [k \in DOMAIN Deltas |-> IF Deltas[k] < 0 THEN Deltas[k] + PortMax ELSE Deltas[k]]
Descents == Cardinality({k \in DOMAIN Deltas : Deltas[k] < 0})
LargeVariance ==
    4 * Len(Cyclic) * FoldSeq(LAMBDA d, acc : acc + d * d, 0, Cyclic) >
    5 * FoldSeq(+, 0, Cyclic) * FoldSeq(+, 0, Cyclic)
ClassifyAllocation ==
    IF Len(Ports) < 3 THEN "insufficient"
    ELSE IF \E k \in DOMAIN Deltas : Deltas[k] = 0 THEN "random"
    ELSE IF Descents <= 1 /\ \A k \in DOMAIN Cyclic : Cyclic[k] = Cyclic[1] THEN "uniform"
    ELSE IF Descents > 1 \/ LargeVariance THEN "random"
    ELSE "nonuniform"

\* The observer's Close gives sockets and attempt lease back, or says that it could not.  A run
\* of one mode ends there; the run over single targets looks at its context and takes the next.
RunSingle ==
    /\ soKind = "single"
    /\ IF soCancelled THEN soAt' = "release" /\ soReport' = "blocked"
       ELSE soAt' = (IF soEx <= Final THEN "lease" ELSE "release") /\ soReport' = soReport
RunMode == soKind \in {"mapping", "allocation"} /\ soAt' = "release" /\ soReport' = soReport
CloseObserver ==
    /\ soAt = "closed" /\ soHeld' = soHeld \ {"sockets", "lease"}
    /\ \/ Fault /\ soReport' = "blocked" /\ soAt' = "release"
       \/ soReport = "blocked" /\ soAt' = "release" /\ UNCHANGED <<soReport, soFaults>>
       \/ soReport # "blocked" /\ (RunSingle \/ RunMode) /\ soFaults' = soFaults
    /\ UNCHANGED <<ctl, clock, meter, net, exch, soPeer, soCancelled, soStale, soStall, soTripped, soLost>>

\* completeActiveSTUN or finishActiveSTUNWithSystemError: peer, then authority, then the state.
Release ==
    /\ soAt = "release" /\ soAt' = "done"
    /\ soHeld' = IF soKind \in Governed THEN soHeld \ {"peer", "authority"} ELSE soHeld
    /\ \/ Fault /\ soKind \in Governed /\ soReport' = "blocked"
       \/ /\ soFaults' = soFaults
          /\ soReport' = IF soReport # "none" THEN soReport
                         ELSE IF \A i \in 1..Len(soRes) : soRes[i].err = "none" THEN "completed" ELSE "errors"
    /\ UNCHANGED <<ctl, clock, meter, net, exch, soPeer, soCancelled, soStale, soStall, soTripped, soLost>>

\* RegisterPeerTarget on the observed socket, and the packets the direct attempt sends to the peer.
RegisterPeerTarget ==
    /\ soAt = "peer?" /\ soKind \in SameSocket
    /\ \/ soStale /\ soHeld' = soHeld \ {"sockets"} /\ soReport' = "blocked" /\ soAt' = "done"
       \/ ~soStale /\ soAt' = "peer!" /\ UNCHANGED <<soHeld, soReport>>
    /\ UNCHANGED <<ctl, clock, meter, net, exch, soPeer, env, soTripped, soLost>>
SendToPeer ==
    /\ soAt = "peer!" /\ soPeer < 2
    /\ soPeer' = soPeer + 1
    /\ IF OverLimit THEN soTripped' = TRUE /\ UNCHANGED meter
       ELSE soTimes' = Append(Recent, soNow) /\ soSent' = soSent + 1 /\ soTripped' = soTripped
    /\ UNCHANGED <<ctl, soAt, clock, net, exch, soHeld, soReport, env, soLost>>

-----------------------------------------------------------------------------
(* The environment: time, a late process, the caller and the generation.   *)

Tick ==
    /\ soAt \notin {"done", "peer?", "peer!"}
    /\ \/ soAt = "wait" /\ soNow < soDue /\ soStall' = soStall
       \/ (soAt # "wait" \/ soNow >= soDue) /\ soStall < MaxStall /\ soStall' = soStall + 1
    /\ soNow' = soNow + 1
    /\ UNCHANGED <<ctl, soAt, soStart, meter, net, exch, outer, soCancelled, soStale, soFaults, soTripped, soLost>>
Cancel ==
    /\ soAt \in {"send", "wait"} /\ ~soCancelled /\ soFaults < MaxFaults
    /\ soFaults' = soFaults + 1 /\ soCancelled' = TRUE
    /\ UNCHANGED <<ctl, soAt, clock, meter, net, exch, outer, soStale, soStall, soTripped, soLost>>
MoveOn ==
    /\ soKind \in SameSocket /\ ~soStale /\ soFaults < MaxFaults /\ soAt # "done"
    /\ soFaults' = soFaults + 1 /\ soStale' = TRUE
    /\ UNCHANGED <<ctl, soAt, clock, meter, net, exch, outer, soCancelled, soStall, soTripped, soLost>>

runBindingExchange == Send \/ (\E i \in DOMAIN soFly : Receive(i)) \/ Timeout

Run == Acquire \/ NewObserver
Next ==
    \/ Run \/ Observe \/ runBindingExchange
    \/ CloseObserver \/ Release \/ RegisterPeerTarget \/ SendToPeer \/ Tick \/ Cancel \/ MoveOn

Spec == Init /\ [][Next]_vars

-----------------------------------------------------------------------------

\* The reservation declared for an observation (WorstCaseCost, MappingWorstCaseCost,
\* AllocationWorstCaseCost and the same-socket costs) covers every retransmission schedule,
\* however answers arrive: only a generation that moves on trips the machine.
CostSuffices == soTripped => soStale

\* runBindingExchange takes no other exchange's answer for its own, and a packet of another
\* exchange makes it fail only when that one had sent twice or had given up.
OwnAnswers ==
    \A i \in 1..Len(soRes) :
        /\ soRes[i].err = "none" => soRes[i].port = PortOf(i)
        /\ soRes[i].err = "mismatch" => 
               \E j \in 1..(i - 1) : Now(j).sock = Now(i).sock /\ (soRes[j].sent > 1 \/ soRes[j].err # "none")

\* Lost and late packets never make ClassifyMapping say what the NAT is not, and a sequential
\* NAT whose sockets were all answered is seen as sequential, over the turn of the port space too.
ClassesHonest ==
    soAt = "done" =>
        /\ (soKind \in {"mapping", "gatea"} /\ ClassifyMapping = "port_dependent") => soNat = "apdm"
        /\ (soKind = "mapping" /\ Answered = 1..N /\ ClassifyMapping = "consistent") =>
               soNat = "eim" \/ (N = 2 /\ soNat = "adm")
        /\ (soKind = "allocation" /\ N >= 3 /\ Answered = 1..N) => ClassifyAllocation = "uniform"

\* Whatever fails on the way, Run gives back lease, peer and authority, and says "completed"
\* only when every observation it was asked for succeeded.
RunEndsClean ==
    soAt = "done" /\ soKind \in Governed =>
        /\ soHeld = {}
        /\ soReport = "completed" => Answered = 1..Final

ObserveSafe == CostSuffices /\ OwnAnswers /\ ClassesHonest /\ RunEndsClean
=============================================================================
