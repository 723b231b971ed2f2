-------------------- MODULE MCAttempts --------------------------------------
(*****************************************************************************)
(* Small instances of the parts of an attempt for TLC: the admission gate,   *)
(* the probe controller, the session gate and the run of gate C themselves,  *)
(* and by INSTANCE the other components, each checked alone within one run.  *)
(*****************************************************************************)
EXTENDS PairingGate, ProbeController, WireGuardGate, GateCRun, TLC

VARIABLES
    part,   \* what this behaviour is about: the module's own component, or an instance
    s1, s2, s3, s4, s5, s6, s7, s8, s9, s10, s11, s12, s13, s14, s15, s16, s17, s18, s19, s20,
    s21, s22, s23, s24, s25, s26, s27, s28, s29, s30, s31   \* the variables of the instance, in its order

----------------------------------------------------------------------------
Natted(mapping, filtering, stride) == [mapping |-> mapping, filtering |-> filtering, stride |-> stride]
NatPairs == {[i |-> Natted("apdm", "apdf", 1), r |-> Natted("eim", "adf", 1)],
             [i |-> Natted("apdm", "apdf", 1), r |-> Natted("adm", "adf", 2)],
             [i |-> Natted("adm", "adf", 1), r |-> Natted("eim", "eif", 1)],
             [i |-> Natted("apdm", "apdf", 7), r |-> Natted("apdm", "eif", 7)]}
Sym == Permutations(Callers)

----------------------------------------------------------------------------
(* The instances. *)

\* PairingAdmissionGate with a two-phase terminal, and trips of other processes.
LoopbackAdmission == INSTANCE PairingGate WITH Callers <- {"k1"}, Committer <- "committer",
    Watcher <- "watcher", CarrierReasons <- {"success"}, ContextErrors <- {}, ForeignTrips <- TRUE,
    Loopback <- TRUE, world <- s1, stopping <- s2, drain <- s3, gate <- s4, token <- s5, auth <- s6,
    writer <- s7, journal <- s8, thread <- s9, history <- s10

\* probeio: one socket whose writes, opens and clock may fail.
FaultyProbe == INSTANCE ProbeController WITH Socks <- {"s"}, Targets <- {"x", "y"}, MaxSockets <- 1,
    MaxTargets <- 1, MaxTuples <- 1, MaxPackets <- 3, MaxRate <- 2, WriteFailureLimit <- 1,
    Faulty <- TRUE, NoSock <- None, pcStopped <- s1, pcTripping <- s2, pcPromoted <- s3,
    pcSock <- s4, pcOpen <- s5, pcCloser <- s6, pcTargets <- s7, pcVerified <- s8, pcFails <- s9,
    pcOps <- s10, pcSent <- s11, pcRate <- s12, pcStale <- s13, pcExpired <- s14, pcAttempt <- s15,
    pcStop <- s16, pcHandoff <- s17, pcDrained <- s18, pcPromote <- s19, tlState <- s20,
    tlSock <- s21, tlDetached <- s22, tlDrained <- s23

\* hardnatcontrol, oobcarrier, directconnect/gateb: a hard and a predictive attempt with a
\* fault, one with a deadline that ends the initiator anywhere, and an asymmetric one with
\* two candidates.
HardNatCases == INSTANCE HardNat WITH Modes <- {"hard", "predictive"}, Choosers <- {}, N <- 1,
    Deadlines <- {}, MaxFaults <- 1, None <- None, hnMode <- s1, hnEnd <- s2, hnQueue <- s3, hnNet <- s4,
    hnFaults <- s5
LateHardNat == INSTANCE HardNat WITH Modes <- {"hard"}, Choosers <- {}, N <- 1, Deadlines <- {"i"},
    MaxFaults <- 0, None <- None, hnMode <- s1, hnEnd <- s2, hnQueue <- s3, hnNet <- s4,
    hnFaults <- s5
WideHardNat == INSTANCE HardNat WITH Modes <- {"asymmetric"}, Choosers <- {"r"}, N <- 2,
    Deadlines <- {}, MaxFaults <- 0, None <- None, hnMode <- s1, hnEnd <- s2, hnQueue <- s3,
    hnNet <- s4, hnFaults <- s5

\* hardnatplan, hardnatobserve: from RFC 5780 evidence to the bilateral plan.
PlanCases == INSTANCE HardNatPlan WITH Profiles <- {"predictive", "asymmetric", "hard"},
    NatPairs <- NatPairs, Starts <- {30}, PortMax <- 34, DynamicMin <- 1, Samples <- 4, Window <- 4,
    Slots <- 2, MapSlots <- 3, TargetCount <- 5, PerSocket <- 17, MaxDelta <- 6, MaxSpread <- 4,
    Keys <- {1, 5}, MaxCompeting <- 1, MaxLost <- 1, None <- None, hpProfile <- s1, hpNat <- s2,
    hpSeen <- s3, hpEnd <- s4, hpWire <- s5, hpKeyOf <- s6, hpStray <- s7, hpLost <- s8

\* directattempt over an adopted stream and over the rendezvous relay, with a fault, and
\* with a deadline that ends the initiator anywhere.
DirectCases == INSTANCE DirectAttempt WITH Kinds <- {"gatea", "n3b"}, Deadlines <- {},
    MaxFaults <- 1, daKind <- s1, daEnd <- s2, daQueue <- s3, daUp <- s4, daSrv <- s5, daNet <- s6,
    daFaults <- s7
LateDirect == INSTANCE DirectAttempt WITH Kinds <- {"gatea", "n3b"}, Deadlines <- {"i"},
    MaxFaults <- 0, daKind <- s1, daEnd <- s2, daQueue <- s3, daUp <- s4, daSrv <- s5, daNet <- s6,
    daFaults <- s7

\* gatecorchestrator: liveness with a late poll; with an owner's cancel and a full control
\* queue; with a fault and a clock adjustment.
LatePoll == INSTANCE GateCLiveness WITH Interval <- 4, Response <- 2, WriteWindow <- 1,
    Tolerance <- 1, Rounds <- 1, Ceiling <- 7, MaxDelay <- 1, Skews <- {3}, Cancels <- {},
    MaxControl <- 0, ControlCap <- 1, MaxLate <- 1, MaxFaults <- 0, MaxAdjust <- 0, MaxTime <- 9,
    lvNow <- s1, lvArm <- s2, lvUtc <- s3, lvTerm <- s4, lvStop <- s5, lvRun <- s6, lvEnd <- s7,
    lvProof <- s8, lvPending <- s9, lvSeq <- s10, lvHigh <- s11, lvSlot <- s12, lvWindow <- s13,
    lvPings <- s14, lvPongs <- s15, lvIn <- s16, lvOut <- s17, lvWriting <- s18, lvStalled <- s19,
    lvWire <- s20, lvNet <- s21, lvControl <- s22, lvTrip <- s23, lvOwner <- s24,
    lvCancelled <- s25, lvClose <- s26, lvLast <- s27, lvDown <- s28, lvLate <- s29,
    lvFaults <- s30, lvAdjust <- s31
FaultyLiveness == INSTANCE GateCLiveness WITH Interval <- 4, Response <- 2, WriteWindow <- 1,
    Tolerance <- 1, Rounds <- 2, Ceiling <- 10, MaxDelay <- 0, Skews <- {0}, Cancels <- {},
    MaxControl <- 0, ControlCap <- 1, MaxLate <- 0, MaxFaults <- 1, MaxAdjust <- 0, MaxTime <- 13,
    lvNow <- s1, lvArm <- s2, lvUtc <- s3, lvTerm <- s4, lvStop <- s5, lvRun <- s6, lvEnd <- s7,
    lvProof <- s8, lvPending <- s9, lvSeq <- s10, lvHigh <- s11, lvSlot <- s12, lvWindow <- s13,
    lvPings <- s14, lvPongs <- s15, lvIn <- s16, lvOut <- s17, lvWriting <- s18, lvStalled <- s19,
    lvWire <- s20, lvNet <- s21, lvControl <- s22, lvTrip <- s23, lvOwner <- s24,
    lvCancelled <- s25, lvClose <- s26, lvLast <- s27, lvDown <- s28, lvLate <- s29,
    lvFaults <- s30, lvAdjust <- s31
CancelCases == INSTANCE GateCLiveness WITH Interval <- 4, Response <- 2, WriteWindow <- 1,
    Tolerance <- 1, Rounds <- 1, Ceiling <- 7, MaxDelay <- 0, Skews <- {1}, Cancels <- {"i"},
    MaxControl <- 1, ControlCap <- 1, MaxLate <- 0, MaxFaults <- 0, MaxAdjust <- 0, MaxTime <- 8,
    lvNow <- s1, lvArm <- s2, lvUtc <- s3, lvTerm <- s4, lvStop <- s5, lvRun <- s6, lvEnd <- s7,
    lvProof <- s8, lvPending <- s9, lvSeq <- s10, lvHigh <- s11, lvSlot <- s12, lvWindow <- s13,
    lvPings <- s14, lvPongs <- s15, lvIn <- s16, lvOut <- s17, lvWriting <- s18, lvStalled <- s19,
    lvWire <- s20, lvNet <- s21, lvControl <- s22, lvTrip <- s23, lvOwner <- s24,
    lvCancelled <- s25, lvClose <- s26, lvLast <- s27, lvDown <- s28, lvLate <- s29,
    lvFaults <- s30, lvAdjust <- s31
AdjustedClock == INSTANCE GateCLiveness WITH Interval <- 4, Response <- 2, WriteWindow <- 1,
    Tolerance <- 1, Rounds <- 2, Ceiling <- 14, MaxDelay <- 0, Skews <- {0}, Cancels <- {},
    MaxControl <- 0, ControlCap <- 1, MaxLate <- 0, MaxFaults <- 0, MaxAdjust <- 1, MaxTime <- 18,
    lvNow <- s1, lvArm <- s2, lvUtc <- s3, lvTerm <- s4, lvStop <- s5, lvRun <- s6, lvEnd <- s7,
    lvProof <- s8, lvPending <- s9, lvSeq <- s10, lvHigh <- s11, lvSlot <- s12, lvWindow <- s13,
    lvPings <- s14, lvPongs <- s15, lvIn <- s16, lvOut <- s17, lvWriting <- s18, lvStalled <- s19,
    lvWire <- s20, lvNet <- s21, lvControl <- s22, lvTrip <- s23, lvOwner <- s24,
    lvCancelled <- s25, lvClose <- s26, lvLast <- s27, lvDown <- s28, lvLate <- s29,
    lvFaults <- s30, lvAdjust <- s31

\* gatecorchestrator: a run whose envelope expires and whose datagrams get lost.
LateRun == INSTANCE GateCRun WITH Forms <- {"stdio", "field"}, Cancels <- {}, Expiries <- {"r"},
    MaxRunFaults <- 0, MaxLost <- 1, grForm <- s1, grEnd <- s2, grNet <- s3, grFaults <- s4,
    grLost <- s5, grCauses <- s6

\* c1crouter: one run with two namespaces, two runs with a shared ceiling.
RouterCases == INSTANCE FieldRouter WITH Runs <- {1}, N <- 2, AnchorOf <- <<1>>, Ceilings <- {1},
    MaxFaults <- 1, MaxKills <- 2, MaxTeardowns <- 2, None <- None, frGuard <- s1, frWork <- s2,
    frTear <- s3, frClean <- s4, frJournal <- s5, frPath <- s6, frLinks <- s7, frSockets <- s8,
    frForward <- s9, frCeiling <- s10, frCeilLock <- s11, frReport <- s12, frChecklist <- s13,
    frFaults <- s14, frKills <- s15, frTears <- s16
TwoRouters == INSTANCE FieldRouter WITH Runs <- {1, 2}, N <- 1, AnchorOf <- <<1, 2>>,
    Ceilings <- {1}, MaxFaults <- 0, MaxKills <- 1, MaxTeardowns <- 1, None <- None, frGuard <- s1,
    frWork <- s2, frTear <- s3, frClean <- s4, frJournal <- s5, frPath <- s6, frLinks <- s7,
    frSockets <- s8, frForward <- s9, frCeiling <- s10, frCeilLock <- s11, frReport <- s12,
    frChecklist <- s13, frFaults <- s14, frKills <- s15, frTears <- s16

\* noisecore, loopback carrier: one run of connect-test v1.
LoopbackCases == INSTANCE LoopbackConnect WITH Watched <- {"i"}, MaxJunk <- 1, MaxFaults <- 1,
    lcAt <- s1, lcStep <- s2, lcSession <- s3, lcUsed <- s4, lcSecret <- s5, lcSlot <- s6,
    lcCtl <- s7, lcSocket <- s8, lcReason <- s9, lcChosen <- s10, lcStage <- s11, lcResult <- s12,
    lcLate <- s13, lcNet <- s14, lcJunk <- s15, lcFaults <- s16

\* stunobserve, hardnatobserve, diagnose: every client, with a fault; the mapping of three
\* targets behind every NAT and the allocation of three sockets, with a process that runs late.
ObserveCases == INSTANCE StunObserve WITH Kinds <- {"single", "samesocket", "gatea", "collect",
    "mapping"}, Nats <- {"apdm"}, N <- 2, PortMax <- 5, MaxStall <- 0, MaxLost <- 3,
    MaxFaults <- 1, soKind <- s1, soNat <- s2, soAt <- s3, soEx <- s4, soTry <- s5, soDue <- s6, soLimit <- s7,
    soNow <- s8, soStart <- s9, soTimes <- s10, soSent <- s11, soFly <- s12, soMap <- s13,
    soNext <- s14, soRes <- s15, soHeld <- s16, soReport <- s17, soPeer <- s18, soTripped <- s19,
    soCancelled <- s20, soStale <- s21, soStall <- s22, soFaults <- s23, soLost <- s24
MappingCases == INSTANCE StunObserve WITH Kinds <- {"mapping"}, Nats <- {"eim", "adm",
    "apdm"}, N <- 3, PortMax <- 5, MaxStall <- 1, MaxLost <- 1, MaxFaults <- 0,
    soKind <- s1, soNat <- s2, soAt <- s3, soEx <- s4, soTry <- s5, soDue <- s6, soLimit <- s7,
    soNow <- s8, soStart <- s9, soTimes <- s10, soSent <- s11, soFly <- s12, soMap <- s13,
    soNext <- s14, soRes <- s15, soHeld <- s16, soReport <- s17, soPeer <- s18, soTripped <- s19,
    soCancelled <- s20, soStale <- s21, soStall <- s22, soFaults <- s23, soLost <- s24
AllocationCases == INSTANCE StunObserve WITH Kinds <- {"allocation"}, Nats <- {"apdm"}, N <- 3,
    PortMax <- 5, MaxStall <- 1, MaxLost <- 1, MaxFaults <- 1,
    soKind <- s1, soNat <- s2, soAt <- s3, soEx <- s4, soTry <- s5, soDue <- s6, soLimit <- s7,
    soNow <- s8, soStart <- s9, soTimes <- s10, soSent <- s11, soFly <- s12, soMap <- s13,
    soNext <- s14, soRes <- s15, soHeld <- s16, soReport <- s17, soPeer <- s18, soTripped <- s19,
    soCancelled <- s20, soStale <- s21, soStall <- s22, soFaults <- s23, soLost <- s24

----------------------------------------------------------------------------
(* The variables that an instance with so many of its own leaves out. *)

zero24 == s25 = 0 /\ s26 = 0 /\ s27 = 0 /\ s28 = 0 /\ s29 = 0 /\ s30 = 0 /\ s31 = 0
zero23 == s24 = 0 /\ zero24
zero16 == s17 = 0 /\ s18 = 0 /\ s19 = 0 /\ s20 = 0 /\ s21 = 0 /\ s22 = 0 /\ s23 = 0 /\ zero23
zero10 == s11 = 0 /\ s12 = 0 /\ s13 = 0 /\ s14 = 0 /\ s15 = 0 /\ s16 = 0 /\ zero16
zero8 == s9 = 0 /\ s10 = 0 /\ zero10
zero7 == s8 = 0 /\ zero8
zero6 == s7 = 0 /\ zero7
zero5 == s6 = 0 /\ zero6
zero0 == s1 = 0 /\ s2 = 0 /\ s3 = 0 /\ s4 = 0 /\ s5 = 0 /\ zero5
after24 == <<s25, s26, s27, s28, s29, s30, s31>>
after23 == <<s24, after24>>
after16 == <<s17, s18, s19, s20, s21, s22, s23, after23>>
after10 == <<s11, s12, s13, s14, s15, s16, after16>>
after8 == <<s9, s10, after10>>
after7 == <<s8, after8>>
after6 == <<s7, after7>>
after5 == <<s6, after6>>
after0 == <<s1, s2, s3, s4, s5, after5>>

----------------------------------------------------------------------------
(* A behaviour is one of the own component or of one instance. *)

Begin ==
    /\ Init /\ ProbeInit /\ GateInit /\ RunInit
    /\ part # "run" => grForm = "stdio"
    /\ CASE part \in {"admission", "probe", "gate", "run"} -> zero0
         [] part = "loopback admission" -> LoopbackAdmission!Init /\ zero10
         [] part = "faulty probe" -> FaultyProbe!ProbeInit /\ zero23
         [] part = "hardnat" -> HardNatCases!Init /\ zero5
         [] part = "late hardnat" -> LateHardNat!Init /\ zero5
         [] part = "wide hardnat" -> WideHardNat!Init /\ zero5
         [] part = "plan" -> PlanCases!Init /\ zero8
         [] part = "direct" -> DirectCases!Init /\ zero7
         [] part = "late direct" -> LateDirect!Init /\ zero7
         [] part = "late run" -> LateRun!RunInit /\ zero6
         [] part = "late poll" -> LatePoll!Init
         [] part = "fault" -> FaultyLiveness!Init
         [] part = "cancel" -> CancelCases!Init
         [] part = "adjusted clock" -> AdjustedClock!Init
         [] part = "router" -> RouterCases!Init /\ zero16
         [] part = "routers" -> TwoRouters!Init /\ zero16
         [] part = "loopback" -> LoopbackCases!Init /\ zero16
         [] part = "observe" -> ObserveCases!Init /\ zero24
         [] part = "mapping" -> MappingCases!Init /\ zero24
         [] part = "allocation" -> AllocationCases!Init /\ zero24

ownVars == <<vars, probeVars, gateVars, grVars>>

Step ==
    /\ UNCHANGED part
    /\ \/ part = "admission" /\ Next /\ UNCHANGED <<probeVars, gateVars, grVars, after0>>
       \/ part = "probe" /\ ProbeNext /\ UNCHANGED <<vars, gateVars, grVars, after0>>
       \/ part = "gate" /\ GateNext /\ UNCHANGED <<vars, probeVars, grVars, after0>>
       \/ part = "run" /\ RunNext /\ UNCHANGED <<vars, probeVars, gateVars, after0>>
       \/ part = "loopback admission" /\ LoopbackAdmission!Next /\ UNCHANGED <<ownVars, after10>>
       \/ part = "faulty probe" /\ FaultyProbe!ProbeNext /\ UNCHANGED <<ownVars, after23>>
       \/ part = "hardnat" /\ HardNatCases!Next /\ UNCHANGED <<ownVars, after5>>
       \/ part = "late hardnat" /\ LateHardNat!Next /\ UNCHANGED <<ownVars, after5>>
       \/ part = "wide hardnat" /\ WideHardNat!Next /\ UNCHANGED <<ownVars, after5>>
       \/ part = "plan" /\ PlanCases!Next /\ UNCHANGED <<ownVars, after8>>
       \/ part = "direct" /\ DirectCases!Next /\ UNCHANGED <<ownVars, after7>>
       \/ part = "late direct" /\ LateDirect!Next /\ UNCHANGED <<ownVars, after7>>
       \/ part = "late run" /\ LateRun!RunNext /\ UNCHANGED <<ownVars, after6>>
       \/ part = "late poll" /\ LatePoll!Next /\ UNCHANGED ownVars
       \/ part = "fault" /\ FaultyLiveness!Next /\ UNCHANGED ownVars
       \/ part = "cancel" /\ CancelCases!Next /\ UNCHANGED ownVars
       \/ part = "adjusted clock" /\ AdjustedClock!Next /\ UNCHANGED ownVars
       \/ part = "router" /\ RouterCases!Next /\ UNCHANGED <<ownVars, after16>>
       \/ part = "routers" /\ TwoRouters!Next /\ UNCHANGED <<ownVars, after16>>
       \/ part = "loopback" /\ LoopbackCases!Next /\ UNCHANGED <<ownVars, after16>>
       \/ part = "observe" /\ ObserveCases!Next /\ UNCHANGED <<ownVars, after24>>
       \/ part = "mapping" /\ MappingCases!Next /\ UNCHANGED <<ownVars, after24>>
       \/ part = "allocation" /\ AllocationCases!Next /\ UNCHANGED <<ownVars, after24>>

allVars == <<part, ownVars, after0>>

\* Safety of the attempts.
AttemptsInit == part \in {"admission", "loopback admission", "hardnat", "late hardnat",
    "wide hardnat", "plan", "direct", "late direct", "probe", "faulty probe", "gate", "late poll", "fault",
    "cancel", "adjusted clock", "run", "late run", "router", "routers", "loopback", "observe",
    "mapping", "allocation"} /\ Begin
AttemptsSpec == AttemptsInit /\ [][Step]_allVars

----------------------------------------------------------------------------
\* The two ends of an attempt agree, whatever is lost, repeated, late or expired:
\* they emit after the burn, verify one path, report a success both reached, and
\* release only what is recorded; and two plans built apart are one reciprocal
\* plan whose ports are the ones the NATs really use next (gateb, gatea,
\* directconnect, hardnatplan).
AttemptsAgree ==
    /\ part = "hardnat" => HardNatCases!AttemptSafe
    /\ part = "late hardnat" => LateHardNat!AttemptSafe
    /\ part = "wide hardnat" => WideHardNat!AttemptSafe
    /\ part = "direct" => DirectCases!DirectSafe
    /\ part = "late direct" => LateDirect!DirectSafe
    /\ part = "plan" => PlanCases!PlanSafe

\* An observation costs no more than it declared, believes only its own answers
\* and leaves nothing held (stunobserve).
ObserveSafe ==
    /\ part = "observe" => ObserveCases!ObserveSafe
    /\ part = "mapping" => MappingCases!ObserveSafe
    /\ part = "allocation" => AllocationCases!ObserveSafe

\* The life of the session: liveness ends a session in time and never one that is
\* alive, with late polls, faults, cancels and clock adjustments; a run hands over
\* also when its envelope expires or a datagram is lost (gatecorchestrator).
HandOverSafe ==
    /\ part = "late poll" => LatePoll!LivenessSafe
    /\ part = "fault" => FaultyLiveness!LivenessSafe
    /\ part = "cancel" => CancelCases!LivenessSafe
    /\ part = "adjusted clock" => AdjustedClock!LivenessSafe
    /\ part = "late run" => LateRun!RunSafe

\* Runs on a host leave it as they found it although any of their processes is
\* killed at any step, a probe whose calls fail leaves no socket without an owner,
\* and a loopback attempt is silent after its record and reports what it did, also
\* when its terminal has two phases (c1crouter, probeio, loopback_termination.go).
RunsLeaveNothing ==
    /\ part = "router" => RouterCases!RouterSafe
    /\ part = "routers" => TwoRouters!RouterSafe
    /\ part = "faulty probe" => FaultyProbe!SocketsAccounted
    /\ part = "loopback" => LoopbackCases!LoopbackSafe
    /\ part = "loopback admission" => LoopbackAdmission!AdmissionSafe
=============================================================================
