------------------------------ MODULE Governor -------------------------------
(***************************************************************************)
(* The in-process authority of internal/governor: peer leases, attempt     *)
(* leases and their reservations, cancellation with registered drains, the *)
(* safety trip, the two-phase termination of loopback attempts, and Close. *)
(*                                                                         *)
(* Governor.mu makes every critical section one step here.  What runs      *)
(* outside the lock is a process of its own: the callers that drain a set  *)
(* of attempts (AttemptLease.Close, PeerLease.Close, Governor.Close and    *)
(* the goroutine a trip starts), the manager goroutine of each stopping    *)
(* loopback attempt, the journal writer of each loopback attempt, and the  *)
(* workers that complete drains whenever they please.                      *)
(***************************************************************************)
EXTENDS Integers, FiniteSets, Functions, TLC

CONSTANTS
    PeerIDs,            \* peer identities
    PeerLeases,         \* PeerLease objects, each acquired at most once
    AttemptIDs,         \* attempt identities; an id is free again after Done
    Leases,             \* AttemptLease objects, each acquired at most once
    Costs,              \* resources an attempt may ask for
    MaxActivePeers, MaxActiveAttempts, MaxAttemptsPerPeer,
    MaxPerAttempt, MaxReserved, MaxHeavyweight,
    MaxDrains,          \* maxAttemptDrainRegistrations
    LoopbackAllowed,    \* the profile is phase1_machine
    TripOnLimit,        \* the profile trips on a hard-limit error
    GovernorClose,      \* the drainer that is Governor.Close
    TripDrain,          \* the drainer that is finishSafetyTripDrain
    None

ASSUME GovernorConstants ==
    /\ Costs \subseteq Nat
    /\ MaxActivePeers \in Nat /\ MaxActiveAttempts \in Nat
    /\ MaxAttemptsPerPeer \in Nat /\ MaxPerAttempt \in Nat
    /\ MaxReserved \in Nat /\ MaxHeavyweight \in Nat /\ MaxDrains \in Nat
    /\ LoopbackAllowed \in BOOLEAN /\ TripOnLimit \in BOOLEAN

ASSUME GovernorObjects ==
    /\ IsFiniteSet(Leases) /\ IsFiniteSet(PeerLeases)
    /\ Leases \cap PeerLeases = {}
    /\ GovernorClose \notin Leases \cup PeerLeases
    /\ TripDrain \notin Leases \cup PeerLeases \cup {GovernorClose}
    /\ None \notin Leases \cup PeerLeases \cup PeerIDs \cup AttemptIDs

VARIABLES
    trip,           \* g.trip blocks active work
    closing, closed,
    tripDraining,   \* g.tripDrainStarted
    finalizing,     \* g.loopbackFinalizing
    fault,          \* g.finalizationFault is set
    peers,          \* g.peers
    attempts,       \* g.attempts
    reserved,       \* g.reserved
    heavyweight,    \* g.heavyweightAttempts
    peer,           \* the PeerLease objects
    lease,          \* the AttemptLease objects
    term,           \* the loopbackTerminal of each lease, and its writer
    drainer         \* the callers inside drainAttempts

flags    == <<trip, closing, closed, tripDraining>>
registry == <<peers, attempts, reserved, heavyweight, peer>>
vars     == <<flags, finalizing, fault, registry, lease, term, drainer>>

-----------------------------------------------------------------------------
(* State predicates and the pieces actions are made of *)

Drainers == Leases \cup PeerLeases \cup {GovernorClose, TripDrain}

Registered == {l \in Leases : \E id \in AttemptIDs : attempts[id] = l}

ActivePeers == {id \in PeerIDs : peers[id] # None}

\* Drains registered and not completed, the journal writer's included.
Pending(l) == lease[l].net + (IF lease[l].acct THEN 1 ELSE 0)

Ordinary(S) == {l \in S : ~lease[l].loopback}

Phased(S) == {l \in S : lease[l].loopback}

CostOf(S) == FoldFunctionOnSet(+, 0, [l \in Leases |-> lease[l].cost], S)

HeavyOf(S) == Cardinality({l \in S : lease[l].heavy})

Idle == [pc |-> "idle", batch |-> {}, victim |-> None]

Draining(S) == [pc |-> "wait", batch |-> S, victim |-> None]

\* Mutant: only a recorded fault blocks admission, not an open finalization.
AdmissionBlockedByFaultOnly == fault

\* loopbackAdmissionBlockedLocked
AdmissionBlocked == fault \/ finalizing # 0

\* beginAttemptStoppingLocked does nothing to a closed or stopping attempt.
Stoppable(S) == {l \in S : lease[l].state = "active" /\ ~lease[l].stopping}

\* t is the terminals' state after the caller's own step.
BeginStopping(S, t) ==
    LET new == Stoppable(S)
    IN  /\ lease' = [l \in Leases |->
                        IF l \in new
                        THEN [lease[l] EXCEPT !.stopping = TRUE,
                                              !.drained = Pending(l) = 0]
                        ELSE lease[l]]
        /\ term' = [l \in Leases |->
                        IF l \in Phased(new)
                        THEN [t[l] EXCEPT !.manager = "network",
                                          !.netClosed = lease[l].net = 0,
                                          !.acctClosed = ~lease[l].acct]
                        ELSE t[l]]
        /\ finalizing' = finalizing + Cardinality(Phased(new))

\* tripLocked and beginSafetyTripDrainLocked; d and t are the drainers' and
\* terminals' state after the caller's own step.  A closed governor refuses.
\* Whether or not the trip file could be written, the governor's own status
\* blocks from here on.
TripLocked(d, t) ==
    IF closed
    THEN drainer' = d /\ term' = t /\ UNCHANGED <<trip, tripDraining, finalizing, lease>>
    ELSE /\ trip' = TRUE
         /\ BeginStopping(Registered, t)
         /\ IF Registered = {} \/ tripDraining
            THEN drainer' = d /\ UNCHANGED tripDraining
            ELSE /\ tripDraining' = TRUE
                 /\ drainer' = [d EXCEPT ![TripDrain] = Draining(Registered)]

\* Mutant: releaseAttemptLocked without its check that the lease is open.
ReleaseEveryTime(S) ==
    /\ lease' = [l \in Leases |->
                    IF l \in S
                    THEN [lease[l] EXCEPT !.state = "closed", !.stopping = TRUE]
                    ELSE lease[l]]
    /\ attempts' = [id \in AttemptIDs |->
                       IF \E l \in S : lease[l].id = id
                       THEN None ELSE attempts[id]]
    /\ peer' = [p \in PeerLeases |-> [peer[p] EXCEPT !.attempts = @ \ S]]
    /\ reserved' = reserved - CostOf(S)
    /\ heavyweight' = heavyweight - HeavyOf(S)

\* releaseAttemptLocked, for every attempt of S that is not closed yet.
Release(S) ==
    LET now == {l \in S : lease[l].state = "active"}
    IN  /\ lease' = [l \in Leases |->
                        IF l \in now
                        THEN [lease[l] EXCEPT !.state = "closed", !.stopping = TRUE]
                        ELSE lease[l]]
        /\ attempts' = [id \in AttemptIDs |->
                           IF \E l \in now : lease[l].id = id
                           THEN None ELSE attempts[id]]
        /\ peer' = [p \in PeerLeases |->
                       [peer[p] EXCEPT !.attempts = @ \ now]]
        /\ reserved' = reserved - CostOf(now)
        /\ heavyweight' = heavyweight - HeavyOf(now)

-----------------------------------------------------------------------------
(* newGovernor: an unblocked trip and a claimed owner; nothing leased. *)
Init ==
    /\ trip = FALSE /\ closing = FALSE /\ closed = FALSE /\ tripDraining = FALSE
    /\ finalizing = 0 /\ fault = FALSE
    /\ peers = [id \in PeerIDs |-> None]
    /\ attempts = [id \in AttemptIDs |-> None]
    /\ reserved = 0 /\ heavyweight = 0
    /\ peer = [p \in PeerLeases |->
                 [state |-> "free", id |-> None, attempts |-> {}]]
    /\ lease = [l \in Leases |->
                 [state |-> "free", peer |-> None, id |-> None, cost |-> 0,
                  heavy |-> FALSE, loopback |-> FALSE, stopping |-> FALSE,
                  drained |-> FALSE, net |-> 0, acct |-> FALSE,
                  acctUsed |-> FALSE]]
    /\ term = [l \in Leases |->
                 [manager |-> "none", netClosed |-> FALSE, acctClosed |-> FALSE,
                  netErr |-> FALSE, finishErr |-> FALSE, verdict |-> "none",
                  writer |-> "none"]]
    /\ drainer = [d \in Drainers |-> Idle]

-----------------------------------------------------------------------------
(* Admission *)

AcquirePeer(p, id) ==
    /\ peer[p].state = "free"
    /\ ~closed /\ ~closing
    /\ ~AdmissionBlocked
    /\ ~trip
    /\ peers[id] = None
    /\ Cardinality(ActivePeers) < MaxActivePeers
    /\ peer' = [peer EXCEPT ![p].state = "open", ![p].id = id]
    /\ peers' = [peers EXCEPT ![id] = p]
    /\ UNCHANGED <<flags, finalizing, fault, attempts, reserved, heavyweight,
                   lease, term, drainer>>

\* Mutant: acquireAttempt does not look at the trip.
MayAcquireTripped(p, id, loopback) ==
    /\ peer[p].state # "free"
    /\ ~AdmissionBlocked
    /\ loopback => LoopbackAllowed
    /\ ~closed /\ ~closing /\ peer[p].state = "open"
    /\ attempts[id] = None

\* acquireAttempt up to validateAttemptLocked's duplicate check.
MayAcquire(p, id, loopback) ==
    /\ peer[p].state # "free"
    /\ ~AdmissionBlocked
    /\ loopback => LoopbackAllowed
    /\ ~trip
    /\ ~closed /\ ~closing /\ peer[p].state = "open"
    /\ attempts[id] = None

\* The limits of validateAttemptLocked.
WithinLimits(p, cost, heavy) ==
    /\ Cardinality({id \in AttemptIDs : attempts[id] # None}) < MaxActiveAttempts
    /\ Cardinality(peer[p].attempts) < MaxAttemptsPerPeer
    /\ cost <= MaxPerAttempt
    /\ reserved + cost <= MaxReserved
    /\ heavy => heavyweight < MaxHeavyweight

AcquireAttempt(l, p, id, cost, heavy, loopback) ==
    /\ lease[l].state = "free"
    /\ MayAcquire(p, id, loopback)
    /\ cost > 0
    /\ WithinLimits(p, cost, heavy)
    /\ lease' = [lease EXCEPT ![l].state = "active", ![l].peer = p, ![l].id = id,
                              ![l].cost = cost, ![l].heavy = heavy,
                              ![l].loopback = loopback]
    /\ peer' = [peer EXCEPT ![p].attempts = @ \cup {l}]
    /\ attempts' = [attempts EXCEPT ![id] = l]
    /\ reserved' = reserved + cost
    /\ heavyweight' = heavyweight + (IF heavy THEN 1 ELSE 0)
    /\ UNCHANGED <<flags, finalizing, fault, peers, term, drainer>>

\* A hard-limit error in the manual-traversal and campaign profiles.
RefuseOverLimit(p, id, cost, heavy, loopback) ==
    /\ TripOnLimit
    /\ MayAcquire(p, id, loopback)
    /\ ~WithinLimits(p, cost, heavy)
    /\ TripLocked(drainer, term)
    /\ UNCHANGED <<closing, closed, fault, registry>>

\* Governor.Trip, and AttemptLease.Trip while the attempt is not stopping.
Trip ==
    /\ ~closed
    /\ TripLocked(drainer, term)
    /\ UNCHANGED <<closing, closed, fault, registry>>

-----------------------------------------------------------------------------
(* Drains *)

MayRegister(l) ==
    /\ ~closed /\ ~closing
    /\ lease[l].state = "active" /\ ~lease[l].stopping
    /\ Pending(l) < MaxDrains

RegisterDrain(l) ==
    /\ MayRegister(l)
    /\ lease' = [lease EXCEPT ![l].net = @ + 1]
    /\ UNCHANGED <<flags, finalizing, fault, registry, term, drainer>>

\* registerPairingDrain on a loopback lease: once, for the journal writer.
RegisterAccounting(l) ==
    /\ MayRegister(l)
    /\ lease[l].loopback /\ ~lease[l].acctUsed
    /\ lease' = [lease EXCEPT ![l].acct = TRUE, ![l].acctUsed = TRUE]
    /\ UNCHANGED <<flags, finalizing, fault, registry, term, drainer>>

\* attemptDrain.Complete, with n network drains and the writer's drain (or
\* not) left: closes drained and, on a loopback lease, its two halves.
Completed(l, n, a, t) ==
    /\ lease' = [lease EXCEPT
                   ![l].net = n, ![l].acct = a,
                   ![l].drained = @ \/ (lease[l].stopping /\ n = 0 /\ ~a)]
    /\ term' = IF lease[l].loopback /\ lease[l].stopping
               THEN [t EXCEPT ![l].netClosed = @ \/ n = 0,
                              ![l].acctClosed = @ \/ ~a]
               ELSE t

\* Mutant: a drain handle completes more than once.
CompleteDrainAgain(l) ==
    /\ Completed(l, lease[l].net - 1, lease[l].acct, term)
    /\ UNCHANGED <<flags, finalizing, fault, registry, drainer>>

CompleteDrain(l) ==
    /\ lease[l].net > 0
    /\ Completed(l, lease[l].net - 1, lease[l].acct, term)
    /\ UNCHANGED <<flags, finalizing, fault, registry, drainer>>

-----------------------------------------------------------------------------
(* The processes that drain a set of attempts (drainAttempts) *)

\* AttemptLease.Close on an ordinary lease, or its context's cancellation.
CloseAttempt(l) ==
    /\ lease[l].state = "active" /\ ~lease[l].stopping /\ ~lease[l].loopback
    /\ BeginStopping({l}, term)
    /\ drainer' = [drainer EXCEPT ![l] = Draining({l})]
    /\ UNCHANGED <<flags, fault, registry>>

\* closeLoopbackAttempt: the manager goroutine does the rest.
CloseLoopback(l) ==
    /\ lease[l].state = "active" /\ ~lease[l].stopping /\ lease[l].loopback
    /\ BeginStopping({l}, term)
    /\ UNCHANGED <<flags, fault, registry, drainer>>

\* Mutant: PeerLease.Close gives up the peer's slot before it drains.
ClosePeerAtOnce(p) ==
    /\ peer[p].state = "open"
    /\ peer' = [peer EXCEPT ![p].state = "closed"]
    /\ peers' = [peers EXCEPT ![peer[p].id] = None]
    /\ BeginStopping(peer[p].attempts, term)
    /\ drainer' = [drainer EXCEPT ![p] = Draining(peer[p].attempts)]
    /\ UNCHANGED <<flags, fault, attempts, reserved, heavyweight>>

ClosePeer(p) ==
    /\ peer[p].state = "open"
    /\ peer' = [peer EXCEPT ![p].state = "closed"]
    /\ BeginStopping(peer[p].attempts, term)
    /\ drainer' = [drainer EXCEPT ![p] = Draining(peer[p].attempts)]
    /\ UNCHANGED <<flags, fault, peers, attempts, reserved, heavyweight>>

CloseGovernor ==
    /\ ~closed /\ ~closing
    /\ closing' = TRUE
    /\ BeginStopping(Registered, term)
    /\ drainer' = [drainer EXCEPT ![GovernorClose] = Draining(Registered)]
    /\ UNCHANGED <<trip, closed, tripDraining, fault, registry>>

\* The attempts of a batch that neither drained nor were released.
Undrained(d) == {l \in Ordinary(drainer[d].batch) :
                    ~lease[l].drained /\ lease[l].state # "closed"}

\* The cancellation timer fires: the first undrained attempt is the witness.
DrainExpires(d) ==
    /\ drainer[d].pc = "wait"
    /\ \E v \in Undrained(d) :
          drainer' = [drainer EXCEPT ![d].pc = "expired", ![d].victim = v]
    /\ UNCHANGED <<flags, finalizing, fault, registry, lease, term>>

\* Mutant: a cancellation timeout revokes without tripping.
DrainTripsNothing(d) ==
    /\ drainer[d].pc = "expired"
    /\ drainer' = [drainer EXCEPT ![d].pc = "release", ![d].victim = None]
    /\ UNCHANGED <<flags, finalizing, fault, registry, lease, term>>

\* Under the lock again: trip unless the witness has closed or drained since.
DrainTrips(d) ==
    LET v == drainer[d].victim
        next == [drainer EXCEPT ![d].pc = "release", ![d].victim = None]
    IN  /\ drainer[d].pc = "expired"
        /\ IF lease[v].state # "closed" /\ Pending(v) > 0
           THEN TripLocked(next, term)
           ELSE /\ drainer' = next
                /\ UNCHANGED <<trip, tripDraining, finalizing, lease, term>>
        /\ UNCHANGED <<closing, closed, fault, registry>>

\* waitForAttemptDrains found every attempt drained or Done (and they stay so),
\* or the timer fired: the whole batch is released, whatever its drains.
DrainReleases(d) ==
    /\ \/ drainer[d].pc = "release"
       \/ drainer[d].pc = "wait" /\ Undrained(d) = {}
    /\ Release(Ordinary(drainer[d].batch))
    /\ drainer' = [drainer EXCEPT ![d] =
                     IF d \in Leases THEN Idle ELSE [@ EXCEPT !.pc = "phased"]]
    /\ UNCHANGED <<flags, finalizing, fault, peers, term>>

\* closeLoopbackAttempt has returned for every loopback attempt of the batch.
Judged(d) == /\ drainer[d].pc = "phased"
             /\ \A l \in Phased(drainer[d].batch) : term[l].verdict # "none"

FinishPeerClose(p) ==
    /\ Judged(p)
    /\ peers' = [id \in PeerIDs |->
                    IF peers[id] = p /\ peer[p].attempts = {}
                    THEN None ELSE peers[id]]
    /\ drainer' = [drainer EXCEPT ![p] = Idle]
    /\ UNCHANGED <<flags, finalizing, fault, attempts, reserved, heavyweight,
                   peer, lease, term>>

\* Mutant: finishSafetyTripDrain does not clear tripDrainStarted.
FinishTripDrainOnce ==
    LET gone == {id \in ActivePeers : peer[peers[id]].attempts = {}}
    IN  /\ Judged(TripDrain)
        /\ peers' = [id \in PeerIDs |-> IF id \in gone THEN None ELSE peers[id]]
        /\ peer' = [p \in PeerLeases |->
                       IF \E id \in gone : peers[id] = p
                       THEN [peer[p] EXCEPT !.state = "closed"] ELSE peer[p]]
        /\ drainer' = [drainer EXCEPT ![TripDrain] = Idle]
        /\ UNCHANGED <<flags, finalizing, fault, attempts,
                       reserved, heavyweight, lease, term>>

\* The tail of finishSafetyTripDrain: peers without attempts are closed.
FinishTripDrain ==
    LET gone == {id \in ActivePeers : peer[peers[id]].attempts = {}}
    IN  /\ Judged(TripDrain)
        /\ peers' = [id \in PeerIDs |-> IF id \in gone THEN None ELSE peers[id]]
        /\ peer' = [p \in PeerLeases |->
                       IF \E id \in gone : peers[id] = p
                       THEN [peer[p] EXCEPT !.state = "closed"] ELSE peer[p]]
        /\ tripDraining' = FALSE
        /\ drainer' = [drainer EXCEPT ![TripDrain] = Idle]
        /\ UNCHANGED <<trip, closing, closed, finalizing, fault, attempts,
                       reserved, heavyweight, lease, term>>

\* Mutant: a verdict counts as settlement.
LoopbackWorkUnjudged == \E l \in Phased(Registered) : term[l].verdict = "none"

\* loopbackWorkOutstandingLocked
LoopbackWorkOutstanding ==
    \E l \in Phased(Registered) : term[l].manager # "settled"

\* Close gives up for now: a journal writer may still be inside a disk call.
CloseRefused ==
    /\ Judged(GovernorClose)
    /\ LoopbackWorkOutstanding
    /\ closing' = FALSE
    /\ drainer' = [drainer EXCEPT ![GovernorClose] = Idle]
    /\ UNCHANGED <<trip, closed, tripDraining, finalizing, fault, registry,
                   lease, term>>

\* stopActiveLocked, and the owner lock is released.  What is left to release
\* began to stop when Close began, so releasing it starts no manager.
CloseCompletes ==
    LET held == {peers[id] : id \in ActivePeers}
        left == UNION {peer[p].attempts : p \in held}
    IN  /\ Judged(GovernorClose)
        /\ ~LoopbackWorkOutstanding
        /\ closed' = TRUE
        /\ lease' = [l \in Leases |->
                        IF l \in left
                        THEN [lease[l] EXCEPT !.state = "closed", !.stopping = TRUE]
                        ELSE lease[l]]
        /\ peer' = [p \in PeerLeases |->
                       IF p \in held
                       THEN [peer[p] EXCEPT !.state = "closed", !.attempts = {}]
                       ELSE peer[p]]
        /\ peers' = [id \in PeerIDs |-> None]
        /\ attempts' = [id \in AttemptIDs |-> None]
        /\ reserved' = 0 /\ heavyweight' = 0
        /\ drainer' = [drainer EXCEPT ![GovernorClose] = Idle]
        /\ UNCHANGED <<trip, closing, tripDraining, finalizing, fault, term>>

-----------------------------------------------------------------------------
(* Two-phase termination: the journal writer (finishLoopback) *)

\* finish is chosen: the writer starts and the attempt begins to stop.
WriterStarts(l) ==
    /\ lease[l].acct /\ term[l].writer = "none"
    /\ BeginStopping({l}, [term EXCEPT ![l].writer = "started"])
    /\ UNCHANGED <<flags, fault, registry, drainer>>

\* The network phase has ended; ledger.Finish returns, or never does.
WriterFinishes(l) ==
    /\ term[l].writer = "started"
    /\ term[l].manager \in {"accounting", "late", "draining"}
    /\ \E ok \in BOOLEAN :
          /\ term' = [term EXCEPT ![l].writer = "recorded",
                                  ![l].finishErr = @ \/ ~ok]
          /\ fault' = (fault \/ ~ok)
    /\ UNCHANGED <<flags, finalizing, registry, lease, drainer>>

WriterCompletes(l) ==
    /\ term[l].writer = "recorded"
    /\ Completed(l, lease[l].net, FALSE, [term EXCEPT ![l].writer = "done"])
    /\ UNCHANGED <<flags, finalizing, fault, registry, drainer>>

-----------------------------------------------------------------------------
(* Two-phase termination: the manager (runLoopbackTermination) *)

ManagerNetworkDrained(l) ==
    /\ term[l].manager = "network" /\ term[l].netClosed
    /\ term' = [term EXCEPT ![l].manager = "accounting"]
    /\ UNCHANGED <<flags, finalizing, fault, registry, lease, drainer>>

\* The network deadline: a trip, and the verdict can only be a failure.
ManagerNetworkExpires(l) ==
    /\ term[l].manager = "network" /\ ~term[l].netClosed
    /\ TripLocked(drainer, [term EXCEPT ![l].manager = "accounting",
                                        ![l].netErr = TRUE])
    /\ UNCHANGED <<closing, closed, fault, registry>>

\* Mutant: the verdict forgets the journal's error.
ManagerSucceedsUnfinished(l) ==
    /\ term[l].manager = "accounting" /\ term[l].acctClosed
    /\ ~term[l].netErr
    /\ finalizing' = finalizing - 1
    /\ Release({l})
    /\ term' = [term EXCEPT ![l].manager = "settled", ![l].verdict = "ok"]
    /\ UNCHANGED <<flags, fault, peers, drainer>>

\* accountingDone before the finalization deadline, and no error: release.
ManagerSucceeds(l) ==
    /\ term[l].manager = "accounting" /\ term[l].acctClosed
    /\ ~term[l].netErr /\ ~term[l].finishErr
    /\ finalizing' = finalizing - 1
    /\ Release({l})
    /\ term' = [term EXCEPT ![l].manager = "settled", ![l].verdict = "ok"]
    /\ UNCHANGED <<flags, fault, peers, drainer>>

\* The finalization deadline: decided outside the lock, so the writer may
\* still complete before the verdict is published.
ManagerTimesOut(l) ==
    /\ term[l].manager = "accounting" /\ ~term[l].acctClosed
    /\ term' = [term EXCEPT ![l].manager = "late"]
    /\ UNCHANGED <<flags, finalizing, fault, registry, lease, drainer>>

\* A failed verdict, from an error or from the finalization deadline.  The
\* attempt keeps its reservation and its place until Close.
ManagerFails(l) ==
    /\ \/ /\ term[l].manager = "accounting" /\ term[l].acctClosed
          /\ term[l].netErr \/ term[l].finishErr
          /\ UNCHANGED fault
       \/ /\ term[l].manager = "late"
          /\ fault' = TRUE
    /\ term' = [term EXCEPT ![l].manager = "draining", ![l].verdict = "failed"]
    /\ UNCHANGED <<flags, finalizing, registry, lease, drainer>>

ManagerSettles(l) ==
    /\ term[l].manager = "draining" /\ lease[l].drained
    /\ term' = [term EXCEPT ![l].manager = "settled"]
    /\ UNCHANGED <<flags, finalizing, fault, registry, lease, drainer>>

-----------------------------------------------------------------------------
Admit ==
    \/ \E p \in PeerLeases, id \in PeerIDs : AcquirePeer(p, id)
    \/ \E p \in PeerLeases, id \in AttemptIDs, cost \in Costs,
          heavy, loopback \in BOOLEAN :
          \/ \E l \in Leases : AcquireAttempt(l, p, id, cost, heavy, loopback)
          \/ RefuseOverLimit(p, id, cost, heavy, loopback)

Drain(d) == DrainExpires(d) \/ DrainTrips(d) \/ DrainReleases(d)

Manage(l) ==
    \/ ManagerNetworkDrained(l) \/ ManagerNetworkExpires(l)
    \/ ManagerSucceeds(l) \/ ManagerTimesOut(l) \/ ManagerFails(l)
    \/ ManagerSettles(l)

\* The calls of the governor and of its leases, each step by step.
Close == CloseGovernor \/ CloseRefused \/ CloseCompletes
PeerClose(p) == ClosePeer(p) \/ FinishPeerClose(p)
finishLoopback(l) == WriterStarts(l) \/ WriterFinishes(l) \/ WriterCompletes(l)

Next ==
    \/ Admit
    \/ Trip
    \/ Close \/ FinishTripDrain
    \/ \E p \in PeerLeases : PeerClose(p)
    \/ \E d \in Drainers : Drain(d)
    \/ \E l \in Leases :
          \/ RegisterDrain(l) \/ RegisterAccounting(l) \/ CompleteDrain(l)
          \/ CloseAttempt(l) \/ CloseLoopback(l)
          \/ finishLoopback(l)
          \/ Manage(l)

Spec == Init /\ [][Next]_vars

\* Identifiers and leases are interchangeable.
Sym == Permutations(PeerIDs) \cup Permutations(PeerLeases)
          \cup Permutations(AttemptIDs) \cup Permutations(Leases)

-----------------------------------------------------------------------------
(* Properties *)

DrainerStates ==
    [pc : {"idle", "wait", "expired", "release", "phased"},
     batch : SUBSET Leases, victim : Leases \cup {None}]

LeaseStates ==
    [state : {"free", "active", "closed"}, peer : PeerLeases \cup {None},
     id : AttemptIDs \cup {None}, cost : Nat, heavy : BOOLEAN,
     loopback : BOOLEAN, stopping : BOOLEAN, drained : BOOLEAN, net : Nat,
     acct : BOOLEAN, acctUsed : BOOLEAN]

TermStates ==
    [manager : {"none", "network", "accounting", "late", "draining",
                "settled"},
     netClosed : BOOLEAN, acctClosed : BOOLEAN, netErr : BOOLEAN,
     finishErr : BOOLEAN, verdict : {"none", "ok", "failed"},
     writer : {"none", "started", "recorded", "done"}]

\* The sum in reserved is ReservationExact's business.
TypeOK ==
    /\ trip \in BOOLEAN /\ closing \in BOOLEAN /\ closed \in BOOLEAN
    /\ tripDraining \in BOOLEAN /\ fault \in BOOLEAN
    /\ finalizing \in Int /\ heavyweight \in Int
    /\ peers \in [PeerIDs -> PeerLeases \cup {None}]
    /\ attempts \in [AttemptIDs -> Leases \cup {None}]
    /\ peer \in [PeerLeases -> [state : {"free", "open", "closed"},
                                id : PeerIDs \cup {None},
                                attempts : SUBSET Leases]]
    /\ lease \in [Leases -> LeaseStates]
    /\ term \in [Leases -> TermStates]
    /\ drainer \in [Drainers -> DrainerStates]

\* The reservation is exactly that of the attempts not yet Done, and never
\* above the limits, whatever closers, trips and managers overlap
\* (acquireAttempt's add, releaseAttemptLocked's subtract, once per lease).
ReservationExact ==
    /\ reserved = CostOf(Registered) /\ reserved <= MaxReserved
    /\ heavyweight = HeavyOf(Registered) /\ heavyweight <= MaxHeavyweight

\* The maps and the lease objects agree: an attempt is in the registry, in its
\* peer's set and under a registered peer exactly while it is active, so no
\* PeerLease.Close or trip drain drops a peer that still owns an attempt
\* (stopActiveLocked finds attempts only through g.peers).
RegistryConsistent ==
    /\ \A l \in Leases : lease[l].state = "active" =>
          /\ attempts[lease[l].id] = l
          /\ l \in peer[lease[l].peer].attempts
          /\ peers[peer[lease[l].peer].id] = lease[l].peer
    /\ \A l \in Registered : lease[l].state = "active"
    /\ \A p \in PeerLeases : \A l \in peer[p].attempts :
          lease[l].state = "active" /\ lease[l].peer = p

\* Once tripped, nothing that was running is left running: every registered
\* attempt is stopping, and it stays so (tripLocked signals under the lock).
TripStopsEverything ==
    trip => \A l \in Registered : lease[l].stopping

\* AttemptLease.Done: an ordinary attempt is Done with drains outstanding only
\* after the governor has failed closed.
DoneMeansDrainedOrTripped ==
    \A l \in Leases : lease[l].state = "closed" /\ Pending(l) > 0 => trip

\* One attempt at a time, by the limit or because no second one was acquired yet.
OneAttempt ==
    \/ MaxActiveAttempts = 1
    \/ \A k, l \in Leases : lease[k].state # "free" /\ lease[l].state # "free" => k = l

\* With one attempt at a time that is so: the witness whose drain is looked at
\* under the lock is then the whole batch (drainAttempts).
OneAttemptDrained == OneAttempt => DoneMeansDrainedOrTripped

\* Close keeps the owner until every loopback writer has left the disk: a
\* closed governor has no loopback attempt with a drain outstanding.
ClosedMeansQuiescent ==
    closed => \A l \in Leases : lease[l].loopback => Pending(l) = 0

\* A successful two-phase verdict means the journal's FINISH was recorded and
\* the network drained in time; a late failure never hides behind it.
OkVerdictMeansFinished ==
    \A l \in Leases : term[l].verdict = "ok" =>
        /\ Pending(l) = 0 /\ ~term[l].netErr /\ ~term[l].finishErr
        /\ lease[l].acctUsed => term[l].writer = "done"

\* Admission stays shut from a loopback attempt's stop until its success: the
\* counter is the number of loopback attempts stopping without one.
FinalizingCounts ==
    finalizing = Cardinality({l \in Leases : /\ lease[l].loopback
                                             /\ lease[l].stopping
                                             /\ term[l].verdict # "ok"})

\* The registry, the leases and the counter that shuts admission agree.
RegistryExact == RegistryConsistent /\ FinalizingCounts

\* No attempt is admitted while a loopback attempt's finalization is unresolved.
NoAdmissionWhileFinalizing ==
    [][\A l \in Leases : lease[l].state = "free" /\ lease'[l].state = "active" =>
          \A k \in Leases : lease[k].loopback /\ lease[k].stopping =>
              term[k].verdict = "ok"]_vars

\* What must not last: an attempt that stops and is neither Done nor, for a
\* loopback attempt, judged, though no worker completes its drain; a Close that
\* is neither complete nor refused; the drain of a trip.
Stopping(l) == lease[l].stopping /\ lease[l].state # "closed" /\ term[l].verdict = "none"
CloseUnderway == closing /\ ~closed
TripDraining == tripDraining

-----------------------------------------------------------------------------
(* The inductive invariant.  RegistryConsistent and the counts hold because *)
(* peers, lease objects and terminals move through their states together.   *)

\* g.attempts holds active leases, each under its own id.
RegistryHoldsActive ==
    \A id \in AttemptIDs : attempts[id] # None =>
        /\ lease[attempts[id]].state = "active"
        /\ lease[attempts[id]].id = id

\* An open peer is registered, a peer never acquired owns nothing, and only a
\* closed peer is being drained; a closed governor has no attempt.
PeersKept ==
    /\ \A p \in PeerLeases :
          /\ peer[p].state = "open" => peer[p].id \in PeerIDs /\ peers[peer[p].id] = p
          /\ peer[p].state = "free" => peer[p].attempts = {}
          /\ drainer[p].pc # "idle" => peer[p].state = "closed"
    /\ \A l \in Leases : lease[l].state = "active" =>
          /\ lease[l].peer \in PeerLeases /\ lease[l].id \in AttemptIDs
          /\ peer[lease[l].peer].id \in PeerIDs
          /\ ~closed

\* A lease r and its terminal t: a manager runs exactly for a stopping loopback
\* attempt, a half is closed only when its drains are, the journal's drain is
\* pending until the writer is done, and a verdict is what the manager saw.
Sound(r, t) ==
    /\ r.state = "free" => ~r.stopping /\ ~r.loopback /\ ~r.acctUsed /\ r.net = 0
    /\ r.acctUsed => r.loopback
    /\ t.writer # "none" => r.acctUsed
    /\ r.acct <=> r.acctUsed /\ t.writer # "done"
    /\ r.drained => r.stopping /\ r.net = 0 /\ ~r.acct
    /\ r.loopback /\ r.state = "closed" => r.net = 0 /\ ~r.acct
    /\ t.manager # "none" <=> r.loopback /\ r.stopping
    /\ t.netClosed => r.stopping /\ r.net = 0
    /\ t.acctClosed => r.stopping /\ ~r.acct
    /\ t.verdict = "none" <=> t.manager \in {"none", "network", "accounting", "late"}
    /\ t.verdict = "ok" => /\ t.manager = "settled" /\ ~t.netErr /\ ~t.finishErr
                           /\ r.net = 0 /\ ~r.acct
    /\ t.verdict = "failed" /\ t.manager = "settled" => r.drained
    /\ t.manager \in {"accounting", "late"} => t.netClosed \/ t.netErr

TermsSound == \A l \in Leases : Sound(lease[l], term[l])

\* With one attempt at a time: the batch a caller drains is one stopping attempt
\* at most, the witness of its timer is that attempt, and it is released drained
\* or with the machine tripped.
BatchSound(d) ==
    LET b == drainer[d].batch IN
    /\ \A l \in b : lease[l].stopping
    /\ \A k, l \in b : k = l
    /\ drainer[d].pc = "expired" => drainer[d].victim \in Ordinary(b)
    /\ drainer[d].pc = "release" =>
          trip \/ \A l \in Ordinary(b) : lease[l].state = "closed" \/ Pending(l) = 0
    /\ drainer[d].pc = "phased" => \A l \in Ordinary(b) : lease[l].state = "closed"

OneActive ==
    /\ \A k, l \in Leases : lease[k].state = "active" /\ lease[l].state = "active" => k = l
    /\ \A l \in Leases : lease[l].state = "closed" => lease[l].stopping

\* Nothing is admitted behind the batch of Close.
CloseCovers ==
    drainer[GovernorClose].pc # "idle" =>
        closing /\ Registered \subseteq drainer[GovernorClose].batch

OneInv ==
    /\ OneActive /\ CloseCovers /\ DoneMeansDrainedOrTripped
    /\ \A d \in Drainers : BatchSound(d)

IInv ==
    /\ TypeOK /\ RegistryHoldsActive /\ TripStopsEverything
    /\ RegistryConsistent /\ PeersKept /\ TermsSound /\ FinalizingCounts
    /\ ReservationExact
=============================================================================
