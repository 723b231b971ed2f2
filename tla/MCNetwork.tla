-------------------- MODULE MCNetwork ---------------------------------------
(*****************************************************************************)
(* Small instances of the parts of the network for TLC: the agreement on a   *)
(* strategy and the stdio server themselves, and by INSTANCE the other       *)
(* components, each checked alone within one run.                            *)
(*****************************************************************************)
EXTENDS SelectionAgreement, StdioRpc, FiniteSets

CONSTANTS x, y

VARIABLES
    part,   \* what this behaviour is about: the module's own component, or an instance
    s1, s2, s3, s4, s5, s6, s7, s8, s9, s10, s11, s12, s13, s14, s15, s16, s17, s18, s19, s20,
    s21, s22   \* the variables of the instance, in its order

----------------------------------------------------------------------------
None == Nothing
MCOffers == {<<x, y>>, <<y>>}
OneOffer == {<<y>>}
TwoStrategies == {<<x, y>>}
Both == <<Initiator, Responder>>
Gates == <<"initiator", "responder">>
Ways == <<"a", "bundle">>

Remote(ip, port, public) == [ip |-> ip, port |-> port, public |-> public]

Pa(n, role, direct, borrowed) ==
    [id |-> n, tr |-> n, role |-> role, direct |-> direct, borrowed |-> borrowed]
Bundles == {<<Pa(1, "standby", FALSE, FALSE), Pa(2, "protected_direct", FALSE, FALSE),
              Pa(3, "protected_direct", TRUE, TRUE)>>,
            <<Pa(1, "protected_direct", TRUE, FALSE), Pa(2, "standby", FALSE, TRUE)>>}
\* The bound path twice around a protected one; two paths of one ID.
Twins == {<<Pa(1, "standby", FALSE, TRUE), Pa(2, "protected_direct", TRUE, FALSE),
            Pa(1, "standby", FALSE, TRUE)>>,
          <<Pa(1, "standby", FALSE, FALSE), [Pa(1, "standby", FALSE, FALSE) EXCEPT !.tr = 2]>>}
WritePolicies == {[shadow |-> TRUE, silence |-> FALSE], [shadow |-> FALSE, silence |-> TRUE]}

Candidate(type, ip) == [type |-> type, ip |-> ip]
Host == Candidate("host", "private")
Listed == Candidate("host", "listed")
Reflexive == Candidate("srflx", "public")
Relay == Candidate("relay", "public")
Gathers == {[i |-> {Reflexive, Listed}, r |-> {Reflexive}], [i |-> {Listed}, r |-> {Reflexive}],
            [i |-> {Host, Reflexive, Relay}, r |-> {Reflexive, Relay}]}

SessionConfigs == {c \in [multipath : BOOLEAN, agreement : BOOLEAN] : c.agreement => c.multipath}

OneEnd == {"i"}
OneRound == [i |-> 1, r |-> 0]
NoRound == [i |-> 0, r |-> 0]
IceModes == {"direct_prefer", "public_direct"}

A0 == [family |-> "a", hint |-> 0]
A1 == [family |-> "a", hint |-> 1]
A2 == [family |-> "a", hint |-> 2]
B0 == [family |-> "b", hint |-> 0]

\* The constants of PlanOrder are strings and plans of its own naming.
LegacyICE == "legacy_ice_udp"
RelayOnly == "relay_only"
Hinted == [mode |-> "auto", turn |-> TRUE, symmetric |-> FALSE, bases |-> 2, bare |-> TRUE,
           order |-> <<LegacyICE>>]
Preset(order) == [mode |-> "auto", turn |-> TRUE, symmetric |-> FALSE, bases |-> 0, bare |-> FALSE, order |-> order]
Observed(event) == [plan |-> <<"direct_prefer", 0>>, event |-> event, scope |-> "none"]
Failure == Observed("failed")
Relayed == Observed("relay")

----------------------------------------------------------------------------
(* The instances. *)

\* pkg/mesh: routes over four nodes.
Routes == INSTANCE MeshRoutes WITH Members <- 1..4, Local <- 2, Rtts <- {1, 2}, mrLink <- s1,
    mrTransit <- s2, mrPath <- s3, mrVisited <- s4

\* pkg/mesh: the sessions, link states and routes of one node; a neighbour with sessions for
\* one purpose and records of every kind; a node that is closed.
Node == INSTANCE MeshNode WITH Peers <- {"p", "q"}, Attaching <- {"p", "q"}, Leaves <- FALSE,
    Kinds <- {[adv |-> TRUE, data |-> TRUE]}, MaxSessions <- 2, MaxRev <- 1, mnNbr <- s1, mnNext <- s2, mnEvents <- s3,
    mnRoutes <- s4, mnData <- s5, mnLinks <- s6, mnHandles <- s7, mnLocal <- s8, mnRemote <- s9,
    mnHandler <- s10, mnSync <- s11, mnClosed <- s12
KindCases == INSTANCE MeshNode WITH Peers <- {"p", "q"}, Attaching <- {"p"}, Leaves <- FALSE,
    Kinds <- {[adv |-> TRUE, data |-> FALSE], [adv |-> FALSE, data |-> TRUE]}, MaxSessions <- 2,
    MaxRev <- 1, mnNbr <- s1, mnNext <- s2, mnEvents <- s3,
    mnRoutes <- s4, mnData <- s5, mnLinks <- s6, mnHandles <- s7, mnLocal <- s8, mnRemote <- s9,
    mnHandler <- s10, mnSync <- s11, mnClosed <- s12
ClosedNode == INSTANCE MeshNode WITH Peers <- {"p", "q"}, Attaching <- {"p"}, Leaves <- TRUE,
    Kinds <- {[adv |-> TRUE, data |-> TRUE]}, MaxSessions <- 1, MaxRev <- 1, mnNbr <- s1, mnNext <- s2, mnEvents <- s3,
    mnRoutes <- s4, mnData <- s5, mnLinks <- s6, mnHandles <- s7, mnLocal <- s8, mnRemote <- s9,
    mnHandler <- s10, mnSync <- s11, mnClosed <- s12

\* pkg/mesh: a record and a control message over a cycle with a tail; a data frame.
Flood == INSTANCE MeshFlood WITH Nodes <- 1..4, Edges <- {{1, 2}, {2, 3}, {1, 3}, {3, 4}},
    Origin <- 1, Target <- 4, HopLimit <- 3, Sends <- {"flood", "control"}, MaxFaults <- 2,
    mfEdges <- s1, mfTodo <- s2, mfNet <- s3, mfSeen <- s4, mfGot <- s5, mfRefused <- s6,
    mfLost <- s7, mfFaults <- s8
DataFrames == INSTANCE MeshFlood WITH Nodes <- 1..4, Edges <- {{1, 2}, {2, 3}, {1, 3}, {3, 4}},
    Origin <- 1, Target <- 4, HopLimit <- 3, Sends <- {"data"}, MaxFaults <- 2,
    mfEdges <- s1, mfTodo <- s2, mfNet <- s3, mfSeen <- s4, mfGot <- s5, mfRefused <- s6,
    mfLost <- s7, mfFaults <- s8

\* pkg/mesh: two ends that keep each other alive.
Neighbour == INSTANCE PacketNeighbor WITH KeepAlive <- 2, PeerTimeout <- 8, Readiness <- 7,
    Poll <- 2, Delay <- 1, Skew <- 3, MaxLost <- 2, Closes <- FALSE, Fails <- TRUE, pkState <- s1, pkCause <- s2,
    pkReady <- s3, pkAge <- s4, pkTimer <- s5, pkPoll <- s6, pkSince <- s7, pkNet <- s8,
    pkLost <- s9
ClosedNeighbour == INSTANCE PacketNeighbor WITH KeepAlive <- 2, PeerTimeout <- 8, Readiness <- 7,
    Poll <- 2, Delay <- 1, Skew <- 3, MaxLost <- 1, Closes <- TRUE, Fails <- FALSE, pkState <- s1, pkCause <- s2,
    pkReady <- s3, pkAge <- s4, pkTimer <- s5, pkPoll <- s6, pkSince <- s7, pkNet <- s8,
    pkLost <- s9

\* pkg/mesh/shortcut: a backlog, a fault, closing managers, and none of them.
Backlogs == INSTANCE Shortcut WITH MaxFaults <- 0, MaxSolver <- 3, Tellers <- {"i"}, Backlog <- 2,
    Closers <- {}, Timeouts <- FALSE, scPhase <- s1, scPrepare <- s2, scHeld <- s3, scOpen <- s4, scRun <- s5,
    scEdge <- s6, scOnce <- s7, scAttached <- s8, scPromoted <- s9, scClean <- s10,
    scMonitor <- s11, scGot <- s12, scCommit <- s13, scClosed <- s14, scQueue <- s15,
    scDraining <- s16, scHand <- s17, scTold <- s18, scArrived <- s19, scHeard <- s20,
    scMsgs <- s21, scFaults <- s22
FaultyShortcut == INSTANCE Shortcut WITH MaxFaults <- 1, MaxSolver <- 0, Tellers <- {},
    Backlog <- 1, Closers <- {}, Timeouts <- TRUE, scPhase <- s1, scPrepare <- s2, scHeld <- s3, scOpen <- s4,
    scRun <- s5, scEdge <- s6, scOnce <- s7, scAttached <- s8, scPromoted <- s9, scClean <- s10,
    scMonitor <- s11, scGot <- s12, scCommit <- s13, scClosed <- s14, scQueue <- s15,
    scDraining <- s16, scHand <- s17, scTold <- s18, scArrived <- s19, scHeard <- s20,
    scMsgs <- s21, scFaults <- s22
ClosedShortcut == INSTANCE Shortcut WITH MaxFaults <- 0, MaxSolver <- 0, Tellers <- {},
    Backlog <- 1, Closers <- {"c", "t"}, Timeouts <- TRUE, scPhase <- s1, scPrepare <- s2, scHeld <- s3, scOpen <- s4,
    scRun <- s5, scEdge <- s6, scOnce <- s7, scAttached <- s8, scPromoted <- s9, scClean <- s10,
    scMonitor <- s11, scGot <- s12, scCommit <- s13, scClosed <- s14, scQueue <- s15,
    scDraining <- s16, scHand <- s17, scTold <- s18, scArrived <- s19, scHeard <- s20,
    scMsgs <- s21, scFaults <- s22
QuietShortcut == INSTANCE Shortcut WITH MaxFaults <- 0, MaxSolver <- 0, Tellers <- {}, Backlog <- 1,
    Closers <- {}, Timeouts <- TRUE, scPhase <- s1, scPrepare <- s2, scHeld <- s3, scOpen <- s4, scRun <- s5,
    scEdge <- s6, scOnce <- s7, scAttached <- s8, scPromoted <- s9, scClean <- s10,
    scMonitor <- s11, scGot <- s12, scCommit <- s13, scClosed <- s14, scQueue <- s15,
    scDraining <- s16, scHand <- s17, scTold <- s18, scArrived <- s19, scHeard <- s20,
    scMsgs <- s21, scFaults <- s22

\* pkg/mesh/recovery: two maintained peers.
Supervision == INSTANCE Recovery WITH Peers <- <<"p", "q">>, Owned <- {"p", "q"}, MaxChanges <- 3,
    MaxAttempts <- 2, rcNb <- s1, rcLink <- s2, rcTold <- s3, rcSilent <- s4, rcEdge <- s5,
    rcAttempt <- s6, rcRun <- s7, rcWake <- s8, rcTimer <- s9, rcResults <- s10, rcCount <- s11,
    rcClosed <- s12

\* pkg/recoverycard: more peers and ports than a card keeps; more addresses than a group keeps.
Card == INSTANCE RecoveryCard WITH Peers <- {1, 2, 3}, Remotes <- {Remote(1, 1, TRUE), Remote(1, 2,
    TRUE)}, Locals <- {7, 8, 9}, Ranks <- {0}, MaxTime <- 2, MaxObserved <- 3, MaxPeers <- 2,
    MaxLocalBindPorts <- 2, MaxEndpointsPerPeer <- 2, MaxGroups <- 4, MaxAnchors <- 1, Cycle <- 3,
    Window <- 2, Offset <- 2, rdCard <- s1, rdNewest <- s2, rdRefused <- s3, rdClock <- s4,
    rdObserved <- s5
Portfolio == INSTANCE RecoveryCard WITH Peers <- {1}, Remotes <- {Remote(1, 1, TRUE), Remote(1, 2,
    TRUE), Remote(2, 1, TRUE), Remote(3, 1, FALSE)}, Locals <- {7}, Ranks <- {0, 1}, MaxTime <- 2,
    MaxObserved <- 4, MaxPeers <- 2, MaxLocalBindPorts <- 2, MaxEndpointsPerPeer <- 3,
    MaxGroups <- 2, MaxAnchors <- 1, Cycle <- 3, Window <- 2, Offset <- 2, rdCard <- s1,
    rdNewest <- s2, rdRefused <- s3, rdClock <- s4, rdObserved <- s5

\* pkg/bootstrap/selfhosted: a start, a move and a close; two running engines.
Starting == INSTANCE Bootstrap WITH MaxWindows <- 2, MaxChanges <- 2, MaxFaults <- 1,
    Movers <- {"a"}, Running <- {}, Starters <- {"a"}, Closers <- {"a"}, bsWindow <- s1,
    bsActive <- s2, bsEngine <- s3, bsLoop <- s4, bsNotes <- s5, bsRoute <- s6, bsNeighbor <- s7,
    bsConn <- s8, bsHello <- s9, bsNet <- s10, bsChanges <- s11, bsFaults <- s12
Engines == INSTANCE Bootstrap WITH MaxWindows <- 1, MaxChanges <- 1, MaxFaults <- 0,
    Movers <- {"a"}, Running <- {"a", "b"}, Starters <- {}, Closers <- {}, bsWindow <- s1,
    bsActive <- s2, bsEngine <- s3, bsLoop <- s4, bsNotes <- s5, bsRoute <- s6, bsNeighbor <- s7,
    bsConn <- s8, bsHello <- s9, bsNet <- s10, bsChanges <- s11, bsFaults <- s12

\* signal and STUN server: two sources, rates and places of one.
Servers == INSTANCE PublicServers WITH Kinds <- {"signal", "stun"}, Clients <- {[source |-> "x",
    code |-> "k", role |-> 1], [source |-> "y", code |-> "k", role |-> 2]}, GlobalRate <- 2,
    SourceRate <- 1, MaxSources <- 1, IdleLimit <- 1, MaxCodes <- 1, TTL <- 2, Hold <- 1,
    ReadTimeout <- 1, MaxRequests <- 3, MaxTime <- 3, ssKind <- s1, ssClock <- s2, ssGlobal <- s3,
    ssSources <- s4, ssBoxes <- s5, ssRequest <- s6, ssAdmitted <- s7, ssDelivered <- s8,
    ssOpened <- s9
Codes == INSTANCE PublicServers WITH Kinds <- {"signal"}, Clients <- {[source |-> "x", code |-> "k",
    role |-> 1], [source |-> "y", code |-> "k", role |-> 2], [source |-> "x", code |-> "m", role |-> 1],
    [source |-> "y", code |-> "n", role |-> 2]}, GlobalRate <- 8, SourceRate <- 4, MaxSources <- 2,
    IdleLimit <- 1, MaxCodes <- 2, TTL <- 1, Hold <- 0, ReadTimeout <- 1, MaxRequests <- 1,
    MaxTime <- 1, ssKind <- s1, ssClock <- s2, ssGlobal <- s3,
    ssSources <- s4, ssBoxes <- s5, ssRequest <- s6, ssAdmitted <- s7, ssDelivered <- s8,
    ssOpened <- s9

\* pkg/session: two strategies, tried one after the other.
TwoRounds == INSTANCE SelectionAgreement WITH CandidateLists <- TwoStrategies, MaxRounds <- 2,
    run <- s1, agr <- s2, round <- s3, box <- s4, future <- s5, work <- s6, sent <- s7

\* pkg/transport/multipath: three paths of every role; two with one event more.
Bundled == INSTANCE Multipath WITH Bundles <- Bundles, Policies <- WritePolicies, MaxEvents <- 2,
    mpPaths <- s1, mpPath <- s2, mpActive <- s3, mpPrimary <- s4, mpQueue <- s5, mpClose <- s6,
    mpWriter <- s7, mpReadFrom <- s8, mpPolicy <- s9, mpEvents <- s10, mpEverFailed <- s11, mpOpen <- s12
TwoPaths == INSTANCE Multipath WITH Bundles <- {<<Pa(1, "protected_direct", TRUE, FALSE),
    Pa(2, "standby", FALSE, TRUE)>>}, Policies <- WritePolicies, MaxEvents <- 3,
    mpPaths <- s1, mpPath <- s2, mpActive <- s3, mpPrimary <- s4, mpQueue <- s5, mpClose <- s6,
    mpWriter <- s7, mpReadFrom <- s8, mpPolicy <- s9, mpEvents <- s10, mpEverFailed <- s11, mpOpen <- s12
TwinPaths == INSTANCE Multipath WITH Bundles <- Twins, Policies <- WritePolicies, MaxEvents <- 2,
    mpPaths <- s1, mpPath <- s2, mpActive <- s3, mpPrimary <- s4, mpQueue <- s5, mpClose <- s6,
    mpWriter <- s7, mpReadFrom <- s8, mpPolicy <- s9, mpEvents <- s10, mpEverFailed <- s11, mpOpen <- s12

\* pkg/tunnel: two callers; a stop with a receive cycle under way.
Peered == INSTANCE Tunnel WITH Keys <- {"k1"}, Reliable <- {}, Plain <- {"a"}, Bundle <- "bundle",
    Child <- "a", Callers <- {"c1", "c2"}, Cycles <- {}, QueueCap <- 0, tnOwner <- s1,
    tnPeers <- s2, tnMap <- s3, tnOpen <- s4, tnUsed <- s5, tnLate <- s6, tnBorrowed <- s7,
    tnStop <- s8, tnLoop <- s9, tnQueue <- s10, tnRecv <- s11, tnCall <- s12
Replaced == INSTANCE Tunnel WITH Keys <- {"k1"}, Reliable <- {}, Plain <- {"a", "b"}, Bundle <- "bundle",
    Child <- "a", Callers <- {"c1"}, Cycles <- {}, QueueCap <- 0, tnOwner <- s1,
    tnPeers <- s2, tnMap <- s3, tnOpen <- s4, tnUsed <- s5, tnLate <- s6, tnBorrowed <- s7,
    tnStop <- s8, tnLoop <- s9, tnQueue <- s10, tnRecv <- s11, tnCall <- s12
Stopped == INSTANCE Tunnel WITH Keys <- {"k1"}, Reliable <- {"bundle"}, Plain <- {"a"}, Bundle <- "bundle", Child <- "a",
    Callers <- {"c1"}, Cycles <- {1}, QueueCap <- 1, tnOwner <- s1, tnPeers <- s2, tnMap <- s3,
    tnOpen <- s4, tnUsed <- s5, tnLate <- s6, tnBorrowed <- s7, tnStop <- s8, tnLoop <- s9,
    tnQueue <- s10, tnRecv <- s11, tnCall <- s12

\* pkg/dataplane: a forwarded connection with a fault, and without.
FaultyFlow == INSTANCE TcpFlow WITH DataI <- 2, DataR <- 1, QueueCap <- 1, MaxFaults <- 1,
    tfEnd <- s1, tfOpening <- s2, tfClosed <- s3, tfNet <- s4, tfFaults <- s5
QuietFlow == INSTANCE TcpFlow WITH DataI <- 2, DataR <- 1, QueueCap <- 1, MaxFaults <- 0,
    tfEnd <- s1, tfOpening <- s2, tfClosed <- s3, tfNet <- s4, tfFaults <- s5

\* the virtual address on a Windows interface.
Alias == INSTANCE IpAlias WITH MaxFaults <- 2, MaxRows <- 3, alRow <- s1, alRows <- s2,
    alMark <- s3, alGen <- s4, alBorn <- s5, alHas <- s6, alPc <- s7, alFaults <- s8

\* the forwards of a mesh runtime.
Forwards == INSTANCE TcpRuntime WITH Configured <- {[id |-> <<"config", 1>>, addr |-> "a",
    virtual |-> FALSE], [id |-> <<"config", 2>>, addr |-> "v", virtual |-> TRUE]}, Addrs <- {"a",
    "b"}, MaxDynamic <- 2, MaxIds <- 2, trState <- s1, trFwd <- s2, trDyn <- s3, trNext <- s4,
    trTarget <- s5, trAlias <- s6, trClose <- s7

\* the coordinator: signals over streams that break; registrations with leases that lapse.
Signals == INSTANCE Coordinator WITH Clients <- {"a", "b"}, Stores <- {"sqlite"},
    Restartable <- {"sqlite"}, LeaseTTL <- 1, MaxClock <- 0, MaxStreams <- 2, MaxSignals <- [a |-> 2, b |-> 1],
    Outbound <- 1, MaxBreaks <- 1, coStore <- s1, coNow <- s2, coClient <- s3, coStream <- s4,
    coBound <- s5, coGot <- s6, coSent <- s7, coBack <- s8, coBreaks <- s9
Registrations == INSTANCE Coordinator WITH Clients <- {"a", "b"}, Stores <- {"memory", "sqlite"},
    Restartable <- {"sqlite"}, LeaseTTL <- 1, MaxClock <- 3, MaxStreams <- 0, MaxSignals <- [a |-> 0, b |-> 0],
    Outbound <- 1, MaxBreaks <- 1, coStore <- s1, coNow <- s2, coClient <- s3, coStream <- s4,
    coBound <- s5, coGot <- s6, coSent <- s7, coBack <- s8, coBreaks <- s9

\* legacyice: trusted and relayed candidates; a lost message and a cancelled end.
Ice == INSTANCE LegacyIce WITH Modes <- IceModes, Gathers <- Gathers, Trusting <- OneEnd,
    Rounds <- NoRound, MaxLost <- 0, Cancels <- {}, liMode <- s1, liLocal <- s2, liEx <- s3,
    liAgents <- s4, liNet <- s5, liLost <- s6
LossyIce == INSTANCE LegacyIce WITH Modes <- {"direct_prefer", "relay_only"}, Gathers <- Gathers,
    Trusting <- OneEnd, Rounds <- OneRound, MaxLost <- 1, Cancels <- {"i"}, liMode <- s1,
    liLocal <- s2, liEx <- s3, liAgents <- s4, liNet <- s5, liLost <- s6
RoundsOfIce == INSTANCE LegacyIce WITH Modes <- {"public_direct"},
    Gathers <- {[i |-> {Reflexive, Listed, Candidate("host", "public")}, r |-> {Host}]}, Trusting <- OneEnd,
    Rounds <- [i |-> 2, r |-> 0], MaxLost <- 1, Cancels <- {"i"}, liMode <- s1, liLocal <- s2, liEx <- s3,
    liAgents <- s4, liNet <- s5, liLost <- s6

\* pkg/session: two strategies, with and without multipath, and with both it and agreement.
SessionCases == INSTANCE SessionPaths WITH Strategies <- <<[plans |-> 2, direct |-> TRUE],
    [plans |-> 1, direct |-> FALSE]>>, Configs <- SessionConfigs,
    MaxPaths <- 2, MaxFaults <- 1, MaxImproves <- 2, Forced <- FALSE, spConfig <- s1, spState <- s2,
    spTr <- s3, spBound <- s4, spLast <- s5, spRetained <- s6, spPass <- s7, spClose <- s8,
    spDone <- s9, spFaults <- s10, spImproves <- s11
ThreePaths == INSTANCE SessionPaths WITH Strategies <- <<[plans |-> 2, direct |-> TRUE],
    [plans |-> 1, direct |-> FALSE]>>, Configs <- {[multipath |-> TRUE, agreement |-> FALSE]},
    MaxPaths <- 3, MaxFaults <- 1, MaxImproves <- 1, Forced <- FALSE, spConfig <- s1, spState <- s2,
    spTr <- s3, spBound <- s4, spLast <- s5, spRetained <- s6, spPass <- s7, spClose <- s8,
    spDone <- s9, spFaults <- s10, spImproves <- s11

\* pkg/session: messages for three plans of two strategies.
PlanCases == INSTANCE PlanMessages WITH Strategies <- <<[factory |-> TRUE, probes |-> TRUE,
    plans |-> <<{B0}, {A1, A2}>>], [factory |-> FALSE, probes |-> FALSE, plans |-> <<{B0}>>]>>,
    Messages <- {[plan |-> p, body |-> "x"] : p \in {A0, A1, B0}}, Copies <- 1, Calls <- {"c1"},
    BoundPlan <- A0, NoPlan <- Nothing, pmPass <- s1, pmExec <- s2, pmActive <- s3, pmPending <- s4,
    pmBound <- s5, pmCall <- s6, pmLeft <- s7, pmGot <- s8, pmFlushed <- s9, pmSeen <- s10,
    pmProbe <- s11

\* pkg/solver: two passes of one end; one of each with a lost observation.
Passes == INSTANCE PlanOrder WITH Configs <- {Preset(<<LegacyICE, RelayOnly>>)},
    Histories <- {<<Failure, Failure, Relayed>>}, MaxPasses <- [i |-> 2, r |-> 0], MaxLost <- 0,
    SessionWindow <- 4, StoreWindow <- 3, StrategyWindow <- 2,
    poConfig <- s1, poOld <- s2, poLocal <- s3, poRemote <- s4, poChan <- s5, poOrder <- s6,
    poNext <- s7, poPlans <- s8, poTodo <- s9, poProbe <- s10, poPasses <- s11, poLost <- s12
HintedPass == INSTANCE PlanOrder WITH Configs <- {Hinted},
    Histories <- {<<>>, <<Failure, Relayed>>}, MaxPasses <- [i |-> 1, r |-> 0], MaxLost <- 0,
    SessionWindow <- 4, StoreWindow <- 3, StrategyWindow <- 2,
    poConfig <- s1, poOld <- s2, poLocal <- s3, poRemote <- s4, poChan <- s5, poOrder <- s6,
    poNext <- s7, poPlans <- s8, poTodo <- s9, poProbe <- s10, poPasses <- s11, poLost <- s12
LostObservation == INSTANCE PlanOrder WITH Configs <- {Preset(<<LegacyICE>>)},
    Histories <- {<<Failure, Failure, Relayed>>}, MaxPasses <- [i |-> 1, r |-> 1], MaxLost <- 1,
    SessionWindow <- 3, StoreWindow <- 2, StrategyWindow <- 2,
    poConfig <- s1, poOld <- s2, poLocal <- s3, poRemote <- s4, poChan <- s5, poOrder <- s6,
    poNext <- s7, poPlans <- s8, poTodo <- s9, poProbe <- s10, poPasses <- s11, poLost <- s12

\* pkg/client: signals and updates; a fault and an improvement.
PeerCases == INSTANCE ClientPeers WITH MaxSessions <- 2, MaxUpdates <- 2, MaxSignals <- 1,
    MaxFaults <- 0, MaxShakes <- 0, MaxImproves <- 0, cpReg <- s1, cpS <- s2, cpProc <- s3,
    cpTimers <- s4, cpTun <- s5, cpStolen <- s6, cpShake <- s7, cpEvents <- s8, cpWanted <- s9,
    cpUsed <- s10
PeerFaults == INSTANCE ClientPeers WITH MaxSessions <- 2, MaxUpdates <- 2, MaxSignals <- 0,
    MaxFaults <- 1, MaxShakes <- 1, MaxImproves <- 1, cpReg <- s1, cpS <- s2, cpProc <- s3,
    cpTimers <- s4, cpTun <- s5, cpStolen <- s6, cpShake <- s7, cpEvents <- s8, cpWanted <- s9,
    cpUsed <- s10
RejectedSignal == INSTANCE ClientPeers WITH MaxSessions <- 1, MaxUpdates <- 1, MaxSignals <- 1,
    MaxFaults <- 1, MaxShakes <- 1, MaxImproves <- 1, cpReg <- s1, cpS <- s2, cpProc <- s3,
    cpTimers <- s4, cpTun <- s5, cpStolen <- s6, cpShake <- s7, cpEvents <- s8, cpWanted <- s9,
    cpUsed <- s10

\* wink up and wink down: two processes; one that is killed.
Ups2 == INSTANCE ClientRuntime WITH Ups <- {"u1", "u2"}, Kinds <- {"legacy", "auto"}, QueueCap <- 1,
    MaxTicks <- 0, MaxFaults <- 1, MaxCrashes <- 0, crKind <- s1, crUp <- s2, crSnap <- s3,
    crObs <- s4, crLock <- s5, crFile <- s6, crObsFile <- s7, crDown <- s8, crForced <- s9,
    crFaults <- s10, crCrashes <- s11
KilledUp == INSTANCE ClientRuntime WITH Ups <- {"u1"}, Kinds <- {"legacy", "auto"}, QueueCap <- 1,
    MaxTicks <- 2, MaxFaults <- 1, MaxCrashes <- 1, crKind <- s1, crUp <- s2, crSnap <- s3,
    crObs <- s4, crLock <- s5, crFile <- s6, crObsFile <- s7, crDown <- s8, crForced <- s9,
    crFaults <- s10, crCrashes <- s11

\* stdiojsonrpc: a broken output; a connect; two ids in flight, also of unknown methods.
BrokenRpc == INSTANCE StdioRpc WITH NoId <- Nothing, RequestIds <- {1}, Methods <- {"v1", "export"},
    MaxConcurrent <- 2, Burst <- 2, MaxRequests <- 2, MaxFrames <- 0, MaxRefill <- 0,
    Breaks <- TRUE, Interrupts <- FALSE, rpLoop <- s1, rpReq <- s2, rpInflight <- s3, rpSlots <- s4, rpTokens <- s5,
    rpVersion <- s6, rpShaken <- s7, rpTrip <- s8, rpBroken <- s9, rpClosed <- s10, rpLate <- s11,
    rpFrames <- s12, rpRefill <- s13
ConnectRpc == INSTANCE StdioRpc WITH NoId <- Nothing, RequestIds <- {1},
    Methods <- {"v1", "v2", "connect"}, MaxConcurrent <- 2, Burst <- 2, MaxRequests <- 2, MaxFrames <- 0,
    MaxRefill <- 0, Breaks <- FALSE, Interrupts <- TRUE, rpLoop <- s1, rpReq <- s2, rpInflight <- s3, rpSlots <- s4,
    rpTokens <- s5, rpVersion <- s6, rpShaken <- s7, rpTrip <- s8, rpBroken <- s9, rpClosed <- s10,
    rpLate <- s11, rpFrames <- s12, rpRefill <- s13
TwoIds == INSTANCE StdioRpc WITH NoId <- Nothing, RequestIds <- {1, 2},
    Methods <- {"v1", "other"}, MaxConcurrent <- 2, Burst <- 2, MaxRequests <- 2,
    MaxFrames <- 0, MaxRefill <- 0, Breaks <- FALSE, Interrupts <- FALSE, rpLoop <- s1, rpReq <- s2, rpInflight <- s3,
    rpSlots <- s4, rpTokens <- s5, rpVersion <- s6, rpShaken <- s7, rpTrip <- s8, rpBroken <- s9,
    rpClosed <- s10, rpLate <- s11, rpFrames <- s12, rpRefill <- s13

\* birthdaypunch, tcpframed and signalrelay.
StrategyCases == INSTANCE Strategies WITH Kinds <- {"punch", "tcp", "relay"}, Open <- {<<1, 1>>,
    <<1, 2>>, <<2, 1>>}, QueueCap <- 1, MaxPackets <- 2, MaxAttempts <- 2, MaxRetries <- 1,
    MaxLost <- 1, MaxFaults <- 1, stKind <- s1, stAt <- s2, stSig <- s3, stRelay <- s4, stTcp <- s5,
    stPunch <- s6, stNet <- s7, stRetries <- s8, stLost <- s9, stFaults <- s10

\* Governor: two attempts of one peer that stop while the machine closes or trips.
Governed == INSTANCE Governor WITH PeerIDs <- {"i1"}, PeerLeases <- {"p1"}, AttemptIDs <- {"a1"},
    Leases <- {"l1", "l2"}, Costs <- {1}, MaxActivePeers <- 2, MaxActiveAttempts <- 2,
    MaxAttemptsPerPeer <- 1, MaxPerAttempt <- 1, MaxReserved <- 2, MaxHeavyweight <- 0,
    MaxDrains <- 1, LoopbackAllowed <- TRUE, TripOnLimit <- FALSE, GovernorClose <- "close",
    TripDrain <- "trip", trip <- s1, closing <- s2, closed <- s3, tripDraining <- s4,
    finalizing <- s5, fault <- s6, peers <- s7, attempts <- s8, reserved <- s9, heavyweight <- s10,
    peer <- s11, lease <- s12, term <- s13, drainer <- s14

\* PairingAdmissionGate with a two-phase terminal and a carrier goroutine.
Admission == INSTANCE PairingGate WITH Callers <- {"k1"}, Committer <- "committer",
    Watcher <- "watcher", CarrierReasons <- {"success"}, ContextErrors <- {}, ForeignTrips <- FALSE,
    Loopback <- TRUE, world <- s1, stopping <- s2, drain <- s3, gate <- s4, token <- s5, auth <- s6,
    writer <- s7, journal <- s8, thread <- s9, history <- s10

\* probeio: the session gate on a quiet network.
QuietGate == INSTANCE WireGuardGate WITH MaxFaults <- 0, AnyDevice <- FALSE, NoPhase <- None, wgState <- s1,
    wgOut <- s2, wgIn <- s3, wgReady <- s4, wgCount <- s5, wgFrame <- s6, wgReader <- s7,
    wgWriter <- s8, wgFinish <- s9, wgDurable <- s10, wgOver <- s11, wgNet <- s12, wgSent <- s13,
    wgFaults <- s14

----------------------------------------------------------------------------
(* The variables that an instance with so many of its own leaves out. *)

zero14 == s15 = 0 /\ s16 = 0 /\ s17 = 0 /\ s18 = 0 /\ s19 = 0 /\ s20 = 0 /\ s21 = 0 /\ s22 = 0
zero13 == s14 = 0 /\ zero14
zero12 == s13 = 0 /\ zero13
zero11 == s12 = 0 /\ zero12
zero10 == s11 = 0 /\ zero11
zero9 == s10 = 0 /\ zero10
zero8 == s9 = 0 /\ zero9
zero7 == s8 = 0 /\ zero8
zero6 == s7 = 0 /\ zero7
zero5 == s6 = 0 /\ zero6
zero4 == s5 = 0 /\ zero5
zero0 == s1 = 0 /\ s2 = 0 /\ s3 = 0 /\ s4 = 0 /\ zero4
after14 == <<s15, s16, s17, s18, s19, s20, s21, s22>>
after13 == <<s14, after14>>
after12 == <<s13, s14, after14>>
after11 == <<s12, s13, s14, after14>>
after10 == <<s11, s12, s13, s14, after14>>
after9 == <<s10, s11, s12, s13, s14, after14>>
after8 == <<s9, s10, s11, s12, s13, s14, after14>>
after7 == <<s8, s9, s10, s11, s12, s13, s14, after14>>
after6 == <<s7, s8, s9, s10, s11, s12, s13, s14, after14>>
after5 == <<s6, s7, s8, s9, s10, s11, s12, s13, s14, after14>>
after4 == <<s5, s6, s7, s8, s9, s10, s11, s12, s13, s14, after14>>
after0 == <<s1, s2, s3, s4, s5, s6, s7, s8, s9, s10, s11, s12, s13, s14, after14>>

----------------------------------------------------------------------------
(* A behaviour is one of the own component or of one instance. *)

Begin ==
    /\ Init /\ RpcInit
    /\ CASE part \in {"selection", "rpc"} -> zero0
         [] part = "routes" -> Routes!Init /\ zero4
         [] part = "node" -> Node!Init /\ zero12
         [] part = "session kinds" -> KindCases!Init /\ zero12
         [] part = "node close" -> ClosedNode!Init /\ zero12
         [] part = "flood" -> Flood!Init /\ zero8
         [] part = "frames" -> DataFrames!Init /\ zero8
         [] part = "neighbour" -> Neighbour!Init /\ zero9
         [] part = "closed neighbour" -> ClosedNeighbour!Init /\ zero9
         [] part = "backlog" -> Backlogs!Init
         [] part = "shortcut fault" -> FaultyShortcut!Init
         [] part = "shortcut close" -> ClosedShortcut!Init
         [] part = "shortcut" -> QuietShortcut!Init
         [] part = "recovery" -> Supervision!Init /\ zero12
         [] part = "card" -> Card!Init /\ zero5
         [] part = "portfolio" -> Portfolio!Init /\ zero5
         [] part = "bootstrap" -> Starting!Init /\ zero12
         [] part = "engines" -> Engines!Init /\ zero12
         [] part = "servers" -> Servers!Init /\ zero9
         [] part = "codes" -> Codes!Init /\ zero9
         [] part = "two rounds" -> TwoRounds!Init /\ zero7
         [] part = "paths" -> Bundled!Init /\ zero12
         [] part = "two paths" -> TwoPaths!Init /\ zero12
         [] part = "twin paths" -> TwinPaths!Init /\ zero12
         [] part = "tunnel" -> Peered!Init /\ zero12
         [] part = "replaced" -> Replaced!Init /\ zero12
         [] part = "tunnel stop" -> Stopped!Init /\ zero12
         [] part = "flow" -> FaultyFlow!Init /\ zero5
         [] part = "quiet flow" -> QuietFlow!Init /\ zero5
         [] part = "alias" -> Alias!Init /\ zero8
         [] part = "forwards" -> Forwards!Init /\ zero7
         [] part = "signals" -> Signals!Init /\ zero9
         [] part = "registrations" -> Registrations!Init /\ zero9
         [] part = "ice" -> Ice!Init /\ zero6
         [] part = "lossy ice" -> LossyIce!Init /\ zero6
         [] part = "candidate rounds" -> RoundsOfIce!Init /\ zero6
         [] part = "session" -> SessionCases!Init /\ zero11
         [] part = "three paths" -> ThreePaths!Init /\ zero11
         [] part = "messages" -> PlanCases!Init /\ zero11
         [] part = "passes" -> Passes!Init /\ zero12
         [] part = "hints" -> HintedPass!Init /\ zero12
         [] part = "lost observation" -> LostObservation!Init /\ zero12
         [] part = "peers" -> PeerCases!Init /\ zero10
         [] part = "peer faults" -> PeerFaults!Init /\ zero10
         [] part = "rejected signal" -> RejectedSignal!Init /\ zero10
         [] part = "ups" -> Ups2!Init /\ zero11
         [] part = "killed up" -> KilledUp!Init /\ zero11
         [] part = "broken rpc" -> BrokenRpc!RpcInit /\ zero13
         [] part = "connect rpc" -> ConnectRpc!RpcInit /\ zero13
         [] part = "two ids" -> TwoIds!RpcInit /\ zero13
         [] part = "strategies" -> StrategyCases!Init /\ zero10
         [] part = "governor" -> Governed!Init /\ zero14
         [] part = "admission" -> Admission!Init /\ zero10
         [] part = "gate" -> QuietGate!GateInit /\ zero14

ownVars == <<vars, rpVars>>

Step ==
    /\ UNCHANGED part
    /\ \/ part = "selection" /\ Next /\ UNCHANGED <<rpVars, after0>>
       \/ part = "rpc" /\ RpcNext /\ UNCHANGED <<vars, after0>>
       \/ part = "routes" /\ Routes!Next /\ UNCHANGED <<ownVars, after4>>
       \/ part = "node" /\ Node!Next /\ UNCHANGED <<ownVars, after12>>
       \/ part = "session kinds" /\ KindCases!Next /\ UNCHANGED <<ownVars, after12>>
       \/ part = "node close" /\ ClosedNode!Next /\ UNCHANGED <<ownVars, after12>>
       \/ part = "flood" /\ Flood!Next /\ UNCHANGED <<ownVars, after8>>
       \/ part = "frames" /\ DataFrames!Next /\ UNCHANGED <<ownVars, after8>>
       \/ part = "neighbour" /\ Neighbour!Next /\ UNCHANGED <<ownVars, after9>>
       \/ part = "closed neighbour" /\ ClosedNeighbour!Next /\ UNCHANGED <<ownVars, after9>>
       \/ part = "backlog" /\ Backlogs!Next /\ UNCHANGED ownVars
       \/ part = "shortcut fault" /\ FaultyShortcut!Next /\ UNCHANGED ownVars
       \/ part = "shortcut close" /\ ClosedShortcut!Next /\ UNCHANGED ownVars
       \/ part = "shortcut" /\ QuietShortcut!Next /\ UNCHANGED ownVars
       \/ part = "recovery" /\ Supervision!Next /\ UNCHANGED <<ownVars, after12>>
       \/ part = "card" /\ Card!Next /\ UNCHANGED <<ownVars, after5>>
       \/ part = "portfolio" /\ Portfolio!Next /\ UNCHANGED <<ownVars, after5>>
       \/ part = "bootstrap" /\ Starting!Next /\ UNCHANGED <<ownVars, after12>>
       \/ part = "engines" /\ Engines!Next /\ UNCHANGED <<ownVars, after12>>
       \/ part = "servers" /\ Servers!Next /\ UNCHANGED <<ownVars, after9>>
       \/ part = "codes" /\ Codes!Next /\ UNCHANGED <<ownVars, after9>>
       \/ part = "two rounds" /\ TwoRounds!Next /\ UNCHANGED <<ownVars, after7>>
       \/ part = "paths" /\ Bundled!Next /\ UNCHANGED <<ownVars, after12>>
       \/ part = "two paths" /\ TwoPaths!Next /\ UNCHANGED <<ownVars, after12>>
       \/ part = "twin paths" /\ TwinPaths!Next /\ UNCHANGED <<ownVars, after12>>
       \/ part = "replaced" /\ Replaced!Next /\ UNCHANGED <<ownVars, after12>>
       \/ part = "tunnel" /\ Peered!Next /\ UNCHANGED <<ownVars, after12>>
       \/ part = "tunnel stop" /\ Stopped!Next /\ UNCHANGED <<ownVars, after12>>
       \/ part = "flow" /\ FaultyFlow!Next /\ UNCHANGED <<ownVars, after5>>
       \/ part = "quiet flow" /\ QuietFlow!Next /\ UNCHANGED <<ownVars, after5>>
       \/ part = "alias" /\ Alias!Next /\ UNCHANGED <<ownVars, after8>>
       \/ part = "forwards" /\ Forwards!Next /\ UNCHANGED <<ownVars, after7>>
       \/ part = "signals" /\ Signals!Next /\ UNCHANGED <<ownVars, after9>>
       \/ part = "registrations" /\ Registrations!Next /\ UNCHANGED <<ownVars, after9>>
       \/ part = "ice" /\ Ice!Next /\ UNCHANGED <<ownVars, after6>>
       \/ part = "lossy ice" /\ LossyIce!Next /\ UNCHANGED <<ownVars, after6>>
       \/ part = "candidate rounds" /\ RoundsOfIce!Next /\ UNCHANGED <<ownVars, after6>>
       \/ part = "session" /\ SessionCases!Next /\ UNCHANGED <<ownVars, after11>>
       \/ part = "three paths" /\ ThreePaths!Next /\ UNCHANGED <<ownVars, after11>>
       \/ part = "messages" /\ PlanCases!Next /\ UNCHANGED <<ownVars, after11>>
       \/ part = "passes" /\ Passes!Next /\ UNCHANGED <<ownVars, after12>>
       \/ part = "hints" /\ HintedPass!Next /\ UNCHANGED <<ownVars, after12>>
       \/ part = "lost observation" /\ LostObservation!Next /\ UNCHANGED <<ownVars, after12>>
       \/ part = "peers" /\ PeerCases!Next /\ UNCHANGED <<ownVars, after10>>
       \/ part = "rejected signal" /\ RejectedSignal!Next /\ UNCHANGED <<ownVars, after10>>
       \/ part = "peer faults" /\ PeerFaults!Next /\ UNCHANGED <<ownVars, after10>>
       \/ part = "ups" /\ Ups2!Next /\ UNCHANGED <<ownVars, after11>>
       \/ part = "killed up" /\ KilledUp!Next /\ UNCHANGED <<ownVars, after11>>
       \/ part = "broken rpc" /\ BrokenRpc!RpcNext /\ UNCHANGED <<ownVars, after13>>
       \/ part = "connect rpc" /\ ConnectRpc!RpcNext /\ UNCHANGED <<ownVars, after13>>
       \/ part = "two ids" /\ TwoIds!RpcNext /\ UNCHANGED <<ownVars, after13>>
       \/ part = "strategies" /\ StrategyCases!Next /\ UNCHANGED <<ownVars, after10>>
       \/ part = "governor" /\ Governed!Next /\ UNCHANGED <<ownVars, after14>>
       \/ part = "admission" /\ Admission!Next /\ UNCHANGED <<ownVars, after10>>
       \/ part = "gate" /\ QuietGate!GateNext /\ UNCHANGED <<ownVars, after14>>

allVars == <<part, ownVars, after0>>

\* Routes, neighbours, recovery, the servers that introduce peers, and the data plane.
MeshInit == part \in {"tunnel", "replaced", "flow", "routes", "node", "session kinds", "node close",
    "flood", "frames", "neighbour", "closed neighbour",
    "recovery", "card", "portfolio", "bootstrap", "engines", "servers", "codes", "alias", "forwards",
    "backlog", "shortcut fault", "shortcut close", "signals", "registrations"} /\ Begin
MeshSpec == MeshInit /\ [][Step]_allVars

\* From the plan of a session to its paths, and the client around it.
SessionsInit == part \in {"selection", "two rounds", "paths", "two paths", "twin paths",
    "ice", "lossy ice", "candidate rounds", "session", "three paths", "messages", "passes", "hints",
    "lost observation", "peers", "peer faults", "rejected signal", "ups", "killed up", "broken rpc", "rpc", "connect rpc",
    "two ids", "strategies"} /\ Begin
SessionsSpec == SessionsInit /\ [][Step]_allVars

\* A session alone.
LeakInit == part \in {"session"} /\ Begin
LeakSpec == LeakInit /\ [][Step]_allVars

(* What must end.  Goroutines and timers run, a select with several ready cases
   takes each now and then, and a retransmitted frame arrives; nobody has to
   call, to close or to answer.  A behaviour has one part, so the parts can
   share the conditions: Process(k) is the k-th goroutine or timer of the part.  *)
Process(k) ==
    /\ UNCHANGED part
    /\ \/ /\ part = "governor" /\ UNCHANGED <<ownVars, after14>>
          /\ \/ k \in 1..5 /\ Governed!Drain(<<"p1", "l1", "l2", "close", "trip">>[k])
             \/ k \in 6..7 /\ Governed!Manage(<<"l1", "l2">>[k - 5])
             \/ k = 8 /\ Governed!FinishPeerClose("p1")
             \/ k = 9 /\ (Governed!CloseRefused \/ Governed!CloseCompletes)
             \/ k = 10 /\ Governed!FinishTripDrain
       \/ /\ part = "admission" /\ UNCHANGED <<ownVars, after10>>
          /\ \/ k \in 1..3 /\ Admission!ThreadStep(<<"k1", "committer", "watcher">>[k])
             \/ k = 4 /\ Admission!Expire
             \/ k = 5 /\ Admission!WriterStep
       \/ /\ part = "selection" /\ UNCHANGED <<rpVars, after0>>
          /\ \/ k \in 1..2 /\ RunnerStep(Both[k])
             \/ k \in 3..4 /\ DeadlinePasses(Both[k - 2])
       \/ /\ part = "gate" /\ UNCHANGED <<ownVars, after14>>
          /\ \E g \in 1..2 : \/ k = g /\ QuietGate!Owner(Gates[g])
                             \/ k = g + 2 /\ QuietGate!Writer(Gates[g])
                             \/ k = g + 4 /\ QuietGate!ReadBegin(Gates[g])
                             \/ k = g + 6 /\ QuietGate!ReadJudged(Gates[g])
                             \/ k = g + 8 /\ QuietGate!CancelledByDrain(Gates[g])
       \/ /\ part = "shortcut" /\ UNCHANGED ownVars
          /\ \/ \E e \in 1..2 : \/ k = e /\ QuietShortcut!Task(<<"i", "t">>[e])
                                \/ k = e + 2 /\ QuietShortcut!NeighborLost(<<"i", "t">>[e])
                                \/ k = e + 4 /\ QuietShortcut!TimeoutEnd(<<"i", "t">>[e])
             \/ k = 7 /\ QuietShortcut!TimeoutCoordinator
       \/ /\ part = "two paths" /\ UNCHANGED <<ownVars, after12>>
          /\ \/ k \in 1..2 /\ TwoPaths!ReaderStep(k)
             \/ k = 3 /\ TwoPaths!WriterStep
       \/ /\ part = "tunnel stop" /\ UNCHANGED <<ownVars, after12>>
          /\ \/ k \in 1..2 /\ Stopped!LoopStep(Ways[k])
             \/ k = 3 /\ Stopped!OwnerStep
       \/ /\ part = "quiet flow" /\ UNCHANGED <<ownVars, after5>>
          /\ \/ \E e \in 1..2 : \/ k = e /\ QuietFlow!SendEnds(<<"i", "r">>[e])
                                \/ k = e + 2 /\ QuietFlow!ReadLocal(<<"i", "r">>[e])
                                \/ k = e + 4 /\ QuietFlow!WriteLocal(<<"i", "r">>[e])
                                \/ k = e + 6 /\ QuietFlow!HandleFrameAt(<<"i", "r">>[e])
             \/ k = 9 /\ QuietFlow!OpenerStep

\* The cases of a select, and a read, that may be passed over but not forever.
Chosen(k) ==
    /\ UNCHANGED part
    /\ \/ /\ part = "gate" /\ k \in 1..2 /\ QuietGate!ReadPacket(Gates[k])
          /\ UNCHANGED <<ownVars, after14>>
       \/ /\ part = "selection" /\ k \in 1..2 /\ TakeDeadline(Both[k])
          /\ UNCHANGED <<rpVars, after0>>
       \/ /\ part = "tunnel stop" /\ UNCHANGED <<ownVars, after12>>
          /\ \/ k \in 1..2 /\ Stopped!LoopLeave(Ways[k])
             \/ k = 3 /\ Stopped!ReceiveLeave(1)

EndsInit ==
    /\ part \in {"selection", "governor", "admission", "gate", "two paths", "tunnel stop", "shortcut",
                 "quiet flow"}
    /\ Begin

EndsSpec ==
    /\ EndsInit /\ [][Step]_allVars
    /\ \A k \in 1..10 : WF_allVars(Process(k))
    /\ \A k \in 1..3 : SF_allVars(Chosen(k))

----------------------------------------------------------------------------
\* The routes of a node are the best over confirmed links and only over sessions
\* it holds, for control and for data, and a flood reaches each node once at most
\* and misses only what refusals and losses cut off (pkg/mesh).
RoutesSound ==
    /\ part = "routes" => Routes!BestPaths
    /\ part = "node" => Node!NodeSafe
    /\ part = "session kinds" => KindCases!NodeSafe
    /\ part = "node close" => ClosedNode!NodeSafe
    /\ part = "flood" => Flood!FloodSafe
    /\ part = "frames" => DataFrames!FloodSafe

\* Neighbours do not drop each other while packets come in time, and a shortcut
\* leaves no edge and no strategy without an owner (packet_neighbor.go, shortcut).
NeighboursKept ==
    /\ part = "neighbour" => Neighbour!KeepAliveSafe
    /\ part = "closed neighbour" => ClosedNeighbour!KeepAliveSafe
    /\ part = "backlog" => Backlogs!Safe
    /\ part = "shortcut fault" => FaultyShortcut!Safe
    /\ part = "shortcut close" => ClosedShortcut!Safe

\* A lost peer is sought by one attempt at a time with what the card still knows,
\* within the windows of the pair (recovery, recoverycard, selfhosted).
PeersRecovered ==
    /\ part = "recovery" => Supervision!Supervised
    /\ part = "card" => Card!CardSafe
    /\ part = "portfolio" => Portfolio!CardSafe
    /\ part = "bootstrap" => Starting!BootstrapSafe
    /\ part = "engines" => Engines!BootstrapSafe

\* The public servers keep their limits, and the signal server gives a message
\* to the other role of its code once (signalserver, stunserver, admission).
ServersKeepLimits ==
    /\ part = "servers" => Servers!ServersSafe
    /\ part = "codes" => Codes!ServersSafe

\* Two solvers agree on the strategy of a round; whatever is lost and observed,
\* each prunes and orders only by what its own session saw and remembers; a
\* message is given to the plan it is for; and a path that both ends report is
\* one path (pkg/solver, pkg/session/plan_messages, strategies, legacyice).
SolverSafe ==
    /\ part = "two rounds" => TwoRounds!SelectionSafe
    /\ part = "passes" => Passes!OrderSafe
    /\ part = "hints" => HintedPass!OrderSafe
    /\ part = "lost observation" => LostObservation!OrderSafe
    /\ part = "messages" => PlanCases!MessagesSafe
    /\ part = "strategies" => StrategyCases!StrategiesSafe
    /\ part = "ice" => Ice!IceSafe
    /\ part = "lossy ice" => LossyIce!IceSafe
    /\ part = "candidate rounds" => RoundsOfIce!IceSafe

\* The paths of a session have one owner, the bound one is the best that is left,
\* and multipath writes and promotes only what is healthy (pkg/session, multipath).
PathsOwned ==
    /\ part = "session" => SessionCases!PathsSafe
    /\ part = "three paths" => ThreePaths!PathsSafe
    /\ part = "paths" => Bundled!Safe
    /\ part = "two paths" => TwoPaths!Safe
    /\ part = "twin paths" => TwinPaths!Safe

\* Transports, forwarded streams, forwards and addresses are neither lost nor
\* repeated nor left behind (pkg/tunnel, tcp_forward.go, tcp.go, ipalias).
DataPlaneSafe ==
    /\ part = "tunnel" => Peered!Safe
    /\ part = "replaced" => Replaced!Safe
    /\ part = "flow" => FaultyFlow!StreamSafe
    /\ part = "alias" => Alias!AliasSafe
    /\ part = "forwards" => Forwards!ForwardsAccounted

\* The client has one session for a peer and its tunnel follows it, and one
\* process owns the state of the machine (pkg/client, cmd/wink).
ClientSafe ==
    /\ part = "peers" => PeerCases!PeersSafe
    /\ part = "peer faults" => PeerFaults!PeersSafe
    /\ part = "rejected signal" => RejectedSignal!PeersSafe
    /\ part = "ups" => Ups2!RuntimeSafe
    /\ part = "killed up" => KilledUp!RuntimeSafe


\* "Clean up transports not needed for the selected path or retained policy
\* paths": a session at rest holds no transport that is neither.
NothingLeftBehind == part = "session" => SessionCases!CleanedUp

(* The parts of EndsSpec share the formulas: who still waits, in each of them. *)

Waits(k) ==
    \/ part = "governor" /\ Governed!Stopping(<<"l1", "l2">>[k])
    \/ part = "admission" /\ Admission!Calling("k1")
    \/ part = "selection" /\ Negotiating(Both[k])
    \/ part = "gate" /\ ~QuietGate!Active(Gates[k]) /\ ~QuietGate!PolledEarly
    \/ part = "shortcut" /\ QuietShortcut!Underway(<<"i", "t">>[k])
    \/ part = "two paths" /\ TwoPaths!ReaderLeft(k)
    \/ part = "tunnel stop" /\ Stopped!LoopStopping(Ways[k])
    \/ part = "quiet flow" /\ ~QuietFlow!Ended(<<"i", "r">>[k])

\* Whoever waits for another returns.  A stopping attempt becomes Done or gets its
\* verdict though no worker completes its drain, and no caller of the admission
\* gate waits forever on a terminal in progress (governor); a negotiation ends
\* however often messages are repeated (session); with nothing lost both sessions
\* become active, no cancelled read or early confirmation closing a gate, and no
\* poll but the one that overtakes the trace entry of message 2 (probeio); a
\* shortcut ends at both ends (mesh); the reader of a path closed and the loop of a
\* transport stopped end, also with a packet nobody takes (multipath, tunnel); both
\* ends of a forwarded connection see its end (tcp_forward).
WaitersReturn == \A k \in 1..2 : []<>~Waits(k)

Owes ==
    \/ part = "governor" /\ Governed!CloseUnderway
    \/ part = "admission" /\ Admission!BurnOpen
    \/ part = "shortcut" /\ QuietShortcut!Underway("c")
    \/ part = "two paths" /\ TwoPaths!Writing
    \/ part = "tunnel stop" /\ Stopped!Stopping

\* The one who owns the work gets it back.  Governor.Close returns; a burned
\* credential gets its terminal record tried and its drain completed though no
\* carrier uses it; the coordinator of a shortcut ends it; a multipath write
\* returns however the paths are marked meanwhile; Tunnel.Stop returns although
\* receive functions wait and loops hold packets.
OwnersReturn == []<>~Owes

Divided ==
    \/ part = "governor" /\ Governed!TripDraining
    \/ part = "shortcut" /\ QuietShortcut!Uneven

\* What is taken back is taken back everywhere: the drain of a trip ends
\* (beginSafetyTripDrainLocked), and a shortcut does not stay at one end when the
\* other gave it up (shortcut manager).
BothGiveUp == []<>~Divided
=============================================================================
